---------------------------- MODULE LmsInterface ----------------------------
(***************************************************************************)
(* submit, the view the LMS posts submissions to                           *)
(* (submission_queue/lms_interface.py).                                    *)
(*                                                                         *)
(* The view is exempt from ATOMIC_REQUESTS: each of its statements is a    *)
(* transaction of its own.                                                 *)
(*                                                                         *)
(*   idle -> invalidated -> inserted -> idle                               *)
(*                                                                         *)
(* A callback URL names the pair (user, module); the row keeps what the    *)
(* column has room for.                                                    *)
(***************************************************************************)
EXTENDS Submission

CONSTANTS
  WebWorkers,      \* the processes that serve requests
  CallbackUrls,    \* lms_callback_url of the requests, of any length
  Truncated,       \* lms_callback_url[:128]
  NoRequest        \* the request of a web worker that serves none

ASSUME TruncatedAssumption == Truncated \in [CallbackUrls -> Urls]

VARIABLES
  submitter,   \* where each web worker is in submit
  request,     \* the request it serves
  callback,    \* the full callback URL of each row ever inserted (xqueue_header)
  lost         \* columns whose prior rows a submit retired before it failed

submitVars == <<submitter, request, callback, lost>>
vars == <<tableVars, submitVars>>

Request == [url: CallbackUrls, queue: Queues]

SubmitTypeOK ==
  /\ TableTypeOK
  /\ submitter \in [WebWorkers -> {"idle", "invalidated", "inserted"}]
  /\ request \in [WebWorkers -> Request \cup {NoRequest}]
  /\ DOMAIN table = DOMAIN callback /\ \A s \in DOMAIN callback : callback[s] \in CallbackUrls
  /\ lost \subseteq Urls

Serves(w, point, r) ==
  /\ submitter' = [submitter EXCEPT ![w] = point]
  /\ request' = [request EXCEPT ![w] = r]

-----------------------------------------------------------------------------
(* A mutant of Prior: rows of the same queue are retired too. *)
PriorOfAnyUrl(col) == {s \in DOMAIN table : ~table[s].retired}

(* A mutant of Prior: nothing is invalidated. *)
PriorIgnored(col) == {}

(* The unretired rows with this value in the column. *)
Prior(col) ==
  {s \in DOMAIN table : table[s].lms_callback_url = col /\ ~table[s].retired}

(* A request that is not a POST, has an invalid format or names no queue. *)
Reject(w) == submitter[w] = "idle" /\ UNCHANGED vars

(* Bound: every submit that starts has an id to insert. *)
IdsLeft ==
  Cardinality(DOMAIN callback) + Cardinality({w \in WebWorkers : submitter[w] = "invalidated"})
    < Cardinality(Ids)

(* _invalidate_prior_submissions: one UPDATE, of the column retired alone,   *)
(* that waits for the locks of the rows it changes.                          *)
Invalidate(w) ==
  /\ submitter[w] = "idle"
  /\ IdsLeft
  /\ \E url \in CallbackUrls, q \in Queues :
       /\ \A s \in Prior(Truncated[url]) : Unlocked(s)
       /\ table' = [s \in DOMAIN table |->
                      [table[s] EXCEPT !.retired = @ \/ s \in Prior(Truncated[url])]]
       /\ Serves(w, "invalidated", [url |-> url, queue |-> q])
  /\ UNCHANGED <<lock, now, faults, acked, callback, lost>>

(* The uploads are stored, then the new row is inserted and committed. *)
Insert(w) ==
  /\ submitter[w] = "invalidated"
  /\ \E s \in Ids \ DOMAIN callback :
       LET r == request[w] IN
         /\ table' = Saved(NewSubmission(s, r.queue, Truncated[r.url], now))
         /\ callback' = [x \in DOMAIN callback \cup {s} |-> IF x = s THEN r.url ELSE callback[x]]
         /\ lost' = lost \ {Truncated[r.url]}
         /\ Serves(w, "inserted", r)
  /\ UNCHANGED <<lock, now, faults, acked>>

(* The reply, with the length of the queue. *)
Reply(w) ==
  /\ submitter[w] = "inserted"
  /\ Serves(w, "idle", NoRequest)
  /\ UNCHANGED <<tableVars, callback, lost>>

(* The prior rows stay retired, and nothing replaces them. *)
FailedAfter(w) ==
  lost' = IF submitter[w] = "invalidated" THEN lost \cup {Truncated[request[w].url]} ELSE lost

(* An upload or a statement raises, or the worker is lost. *)
SubmitAborts(w) ==
  /\ submitter[w] # "idle"
  /\ Fault
  /\ FailedAfter(w)
  /\ Serves(w, "idle", NoRequest)
  /\ UNCHANGED <<table, lock, now, acked, callback>>

(* Time passes between submissions. *)
Tick ==
  /\ now < MaxTime
  /\ now' = now + 1
  /\ UNCHANGED <<table, lock, faults, acked, submitVars>>

-----------------------------------------------------------------------------
SubmitInit ==
  /\ submitter = [w \in WebWorkers |-> "idle"]
  /\ request = [w \in WebWorkers |-> NoRequest]
  /\ callback = [s \in {} |-> NoRequest]
  /\ lost = {}

Init ==
  /\ SubmitInit
  /\ table = [s \in {} |-> NoRequest]
  /\ lock = [s \in Ids |-> NoOwner]
  /\ now = 0
  /\ faults = 0
  /\ acked = {}

Submit(w) == Reject(w) \/ Invalidate(w) \/ Insert(w) \/ Reply(w) \/ SubmitAborts(w)

Next == (\E w \in WebWorkers : Submit(w)) \/ Tick

Spec == Init /\ [][Next]_vars

-----------------------------------------------------------------------------
InFlight(col) == \E w \in WebWorkers :
  submitter[w] = "invalidated" /\ Truncated[request[w].url] = col

Sharing(col) == {s \in DOMAIN table : table[s].lms_callback_url = col}

Alive(col) == {s \in Sharing(col) : ~table[s].retired}

(* The latest submission of a (user, module) survives, however its submits   *)
(* overlap: with none of them between invalidation and insert, a row is      *)
(* unretired, unless a submit failed in between and took the others with it. *)
LatestSurvives ==
  \A col \in Urls \ lost :
    Sharing(col) # {} /\ ~InFlight(col) => Alive(col) # {}

(* Submits retire only rows of the same (user, module) pair. *)
OnlyOwnPriorRetired ==
  [][\A w \in WebWorkers, s \in DOMAIN table :
       table'[s] # table[s] /\ submitter'[w] # submitter[w]
         => request'[w].url = callback[s]]_vars

(* Submits that overlap leave at most one unretired row each: a later submit *)
(* of the same web worker retires what the worker inserted before.           *)
BoundedByOverlap == \A col \in Urls : Cardinality(Alive(col)) <= Cardinality(WebWorkers)
=============================================================================
