---------------------------- MODULE PullInterface ----------------------------
(***************************************************************************)
(* The pull interface, submission_queue/ext_interface.py: external graders *)
(* poll get_submission for a submission, grade it and post put_result,     *)
(* which forwards the grade to the LMS.                                    *)
(*                                                                         *)
(* A process is a gunicorn worker, which serves one request at a time.     *)
(* Its steps are the accesses to what is shared: the query, the UPDATE,    *)
(* the locking query, the POST to the LMS, the commit.                     *)
(*                                                                         *)
(*   get_submission   idle -> get_save -> get_reply -> idle                *)
(*   put_result       idle -> put_post -> put_save -> idle                 *)
(*                                                                         *)
(* The graders are known by the tickets they hold: the submission_id and   *)
(* submission_key of a reply to get_submission, to be sent back with the   *)
(* grade.  A grader may be slow, forget its ticket or send its result      *)
(* again (submission_queue/tests/test_ext_interface.py does the last).     *)
(***************************************************************************)
EXTENDS Submission

CONSTANTS
  WebWorkers,        \* the processes that serve requests
  NoSubmission,      \* the local variable submission before it is assigned
  ATOMIC_REQUESTS,   \* whether each view is a transaction (test_settings.py)
  MaxGraders,        \* bound: graders that poll or grade at one time
  MaxResends         \* bound: results sent again

ASSUME AtomicAssumption == ATOMIC_REQUESTS \in BOOLEAN
ASSUME OwnerAssumption == NoOwner \notin WebWorkers

VARIABLES
  handler,        \* where each web worker is in its request
  submission,     \* its local variable submission
  tickets,        \* what the graders hold
  resends,        \* results sent again so far
  failedReplies   \* committed put_results, per id, that the LMS did not take

pullVars == <<handler, submission, tickets, resends, failedReplies>>
vars == <<tableVars, pullVars>>

Ticket == [sid: Ids, key: Keys, at: Nat]

PullTypeOK ==
  /\ TableTypeOK
  /\ lock \in [Ids -> WebWorkers \cup {NoOwner}]
  /\ handler \in [WebWorkers -> {"idle", "get_save", "get_reply", "put_post", "put_save"}]
  /\ submission \in [WebWorkers -> Row \cup {NoSubmission}]
  /\ tickets \subseteq Ticket
  /\ resends \in Nat
  /\ failedReplies \in [Ids -> Nat]

Serves(w, point, row) ==
  /\ handler' = [handler EXCEPT ![w] = point]
  /\ submission' = [submission EXCEPT ![w] = row]

Replies(w) == Serves(w, "idle", NoSubmission)

Locks(w, s) == lock' = [lock EXCEPT ![s] = w]

(* The end of a transaction releases the row its worker has locked. *)
Releases(w) == lock' = [s \in DOMAIN lock |-> IF lock[s] = w THEN NoOwner ELSE lock[s]]

-----------------------------------------------------------------------------
(* get_submission *)

(* A digest of the time and the id: not the key of anything in use. *)
KeysInUse ==
  {table[s].pullkey : s \in DOMAIN table} \cup {t.key : t \in tickets}
    \cup {submission[w].pullkey : w \in {v \in WebWorkers : handler[v] # "idle"}}

BusyGraders ==
  Cardinality(tickets) + Cardinality({w \in WebWorkers : handler[w] \in {"get_save", "get_reply"}})

(* get_single_unretired_submission, and the fields of the pull set on the    *)
(* instance in memory.                                                       *)
GetSubmissionRead(w) ==
  /\ handler[w] = "idle"
  /\ BusyGraders < MaxGraders
  /\ \E q \in Queues : \E s \in get_single_unretired_submission(q) :
       \E k \in Keys \ KeysInUse :
         Serves(w, "get_save", [table[s] EXCEPT !.pull_time = now, !.pullkey = k])
  /\ UNCHANGED <<tableVars, tickets, resends, failedReplies>>

(* "Queue is empty": the reply to a poll that finds nothing available. *)
GetSubmissionEmpty(w) ==
  /\ handler[w] = "idle"
  /\ \E q \in Queues : get_single_unretired_submission(q) = {}
  /\ UNCHANGED vars

(* submission.save(): an UPDATE of every column, that waits for the row      *)
(* lock.  Within a transaction of the view it is not visible yet.            *)
GetSubmissionSave(w) ==
  /\ handler[w] = "get_save"
  /\ Unlocked(submission[w].id)
  /\ IF ATOMIC_REQUESTS THEN Locks(w, submission[w].id) /\ UNCHANGED table
                        ELSE table' = Saved(submission[w]) /\ UNCHANGED lock
  /\ Serves(w, "get_reply", submission[w])
  /\ UNCHANGED <<now, faults, acked, tickets, resends, failedReplies>>

(* The view returns, which commits its transaction if it is one. *)
GetSubmissionCommit(w) ==
  /\ handler[w] = "get_reply"
  /\ IF ATOMIC_REQUESTS THEN table' = Saved(submission[w]) ELSE UNCHANGED table
  /\ Releases(w)
  /\ Replies(w)
  /\ UNCHANGED <<now, acked, resends, failedReplies>>

TicketOf(row) == [sid |-> row.id, key |-> row.pullkey, at |-> row.pull_time]

GetSubmissionReply(w) ==
  /\ GetSubmissionCommit(w)
  /\ tickets' = tickets \cup {TicketOf(submission[w])}
  /\ UNCHANGED faults

(* The uploaded files cannot be fetched, or the reply does not arrive: the   *)
(* pull is saved and no grader has the submission.                           *)
GetSubmissionFails(w) ==
  /\ GetSubmissionCommit(w)
  /\ Fault
  /\ UNCHANGED tickets

-----------------------------------------------------------------------------
(* put_result *)

(* A grader sends its result, and may keep the ticket to send it again. *)
Sends(t) ==
  \/ tickets' = tickets \ {t} /\ UNCHANGED resends
  \/ resends < MaxResends /\ resends' = resends + 1 /\ UNCHANGED tickets

(* A mutant of KeyMatches: every key is taken. *)
AnyKeyMatches(t) == table[t.sid].pullkey # NoKey

KeyMatches(t) == table[t.sid].pullkey = t.key

(* select_for_update: the row is locked and read in one statement. *)
PutResultLock(w, t) ==
  /\ handler[w] = "idle"
  /\ t.sid \in DOMAIN table
  /\ Unlocked(t.sid)
  /\ KeyMatches(t)
  /\ Sends(t)
  /\ Locks(w, t.sid)
  /\ Serves(w, "put_post", table[t.sid])
  /\ UNCHANGED <<table, now, faults, acked, failedReplies>>

(* 'Submission does not exist', or 'Incorrect key for submission' once the   *)
(* lock on the row is had; the transaction ends with the reply.              *)
PutResultRejected(w, t) ==
  /\ handler[w] = "idle"
  /\ t.sid \in DOMAIN table => Unlocked(t.sid) /\ ~KeyMatches(t)
  /\ Sends(t)
  /\ UNCHANGED <<tableVars, handler, submission, failedReplies>>

(* Mutants of the rules of put_result. *)
RetiresOneEarly(row, success) ==
  success \/ row.num_failures + 1 >= MAX_NUMBER_OF_FAILURES
RetiresOnSuccessOnly(row, success) == success

FailuresAfter(row, success) == IF success THEN row.num_failures ELSE row.num_failures + 1

(* Auto-retired after too many failures, otherwise retired iff delivered. *)
RetiredAfter(row, success) ==
  success \/ FailuresAfter(row, success) > MAX_NUMBER_OF_FAILURES

Graded(row, success) ==
  [row EXCEPT !.lms_ack = success,
              !.num_failures = FailuresAfter(row, success),
              !.retired = RetiredAfter(row, success)]

(* post_grade_to_lms (module LmsDelivery) answers, and the outcome is set    *)
(* on the instance in memory.                                                *)
PutResultPost(w) ==
  /\ handler[w] = "put_post"
  /\ \E success \in BOOLEAN :
       /\ Serves(w, "put_save", Graded(submission[w], success))
       /\ acked' = IF success THEN acked \cup {submission[w].id} ELSE acked
  /\ UNCHANGED <<table, lock, now, faults, tickets, resends, failedReplies>>

(* submission.save(), and the commit of the transaction. *)
PutResultSave(w) ==
  /\ handler[w] = "put_save"
  /\ table' = Saved(submission[w])
  /\ Releases(w)
  /\ failedReplies' = [failedReplies EXCEPT ![submission[w].id] =
                         IF submission[w].lms_ack THEN @ ELSE @ + 1]
  /\ Replies(w)
  /\ UNCHANGED <<now, faults, acked, tickets, resends>>

-----------------------------------------------------------------------------
(* The environment *)

(* A mutant of RequestAborts: the transaction is committed as it stands. *)
CommittedOnAbort(w) == table' = Saved(submission[w])

(* A transaction that does not commit leaves the table as it was. *)
RolledBack(w) == UNCHANGED table

(* The request ends without a reply: an exception nobody catches (a reply of *)
(* the LMS that requests cannot read, a lock wait timeout), gunicorn's       *)
(* timeout, a lost worker.                                                   *)
RequestAborts(w) ==
  /\ handler[w] # "idle"
  /\ Fault
  /\ RolledBack(w)
  /\ Releases(w)
  /\ Replies(w)
  /\ UNCHANGED <<now, acked, tickets, resends, failedReplies>>

GraderForgets(t) ==
  /\ Fault
  /\ tickets' = tickets \ {t}
  /\ UNCHANGED <<table, lock, now, acked, handler, submission, resends, failedReplies>>

PullTimes ==
  {table[s].pull_time : s \in DOMAIN table}
    \cup {submission[w].pull_time : w \in {v \in WebWorkers : handler[v] # "idle"}}

Tick ==
  /\ now < MaxTime
  /\ \E t \in PullTimes : Within(t)
  /\ now' = now + 1
  /\ UNCHANGED <<table, lock, faults, acked, pullVars>>

-----------------------------------------------------------------------------
PullInit ==
  /\ lock = [s \in Ids |-> NoOwner]
  /\ faults = 0
  /\ acked = {}
  /\ handler = [w \in WebWorkers |-> "idle"]
  /\ submission = [w \in WebWorkers |-> NoSubmission]
  /\ tickets = {}
  /\ resends = 0
  /\ failedReplies = [s \in Ids |-> 0]

(* Every id was submitted, at time 0 or 1, and nothing was pulled yet. *)
Init ==
  /\ PullInit
  /\ now = 1
  /\ \E q \in [Ids -> Queues], url \in [Ids -> Urls], t \in [Ids -> 0..1] :
       table = [s \in Ids |-> NewSubmission(s, q[s], url[s], t[s])]

Get(w) ==
  \/ GetSubmissionRead(w)
  \/ GetSubmissionEmpty(w)
  \/ GetSubmissionSave(w)
  \/ GetSubmissionReply(w)

Put(w) ==
  \/ \E t \in tickets : PutResultLock(w, t) \/ PutResultRejected(w, t)
  \/ PutResultPost(w)
  \/ PutResultSave(w)

Faulty ==
  \/ \E w \in WebWorkers : GetSubmissionFails(w) \/ RequestAborts(w)
  \/ \E t \in tickets : GraderForgets(t)

Next == (\E w \in WebWorkers : Get(w) \/ Put(w)) \/ Faulty \/ Tick

Spec == Init /\ [][Next]_vars

(***************************************************************************)
(* Graders keep polling and post what they graded, the workers serve what  *)
(* was sent (every call out of a handler has a timeout), and time passes.  *)
(* Faults are never owed.                                                  *)
(***************************************************************************)
Fairness ==
  /\ \A w \in WebWorkers : WF_vars(Get(w)) /\ WF_vars(Put(w))
  /\ WF_vars(Tick)

FairSpec == Spec /\ Fairness

-----------------------------------------------------------------------------
(* Safety, whatever requests overlap *)

InPutResult(w) == handler[w] \in {"put_post", "put_save"}

(* From select_for_update to the commit, over the whole exchange with the    *)
(* LMS, the row put_result works on changes by its own save() only: neither  *)
(* another put_result nor the full-row UPDATE of a get_submission slips in.  *)
LockedRowStays ==
  [][\A w \in WebWorkers :
       InPutResult(w) /\ table'[submission[w].id] # table[submission[w].id]
         => handler'[w] = "idle"]_vars

(* However many put_results race for a row, each one that failed at the LMS  *)
(* raises the stored count by one: no increment is lost to another.          *)
FailedReplyCounted ==
  [][\A s \in Ids : failedReplies'[s] > failedReplies[s] =>
       /\ s \in DOMAIN table
       /\ table'[s].num_failures = table[s].num_failures + 1]_vars

(* A row that says the LMS acknowledged it: the LMS did answer 200 for it.   *)
AckIsReal == \A s \in DOMAIN table : table[s].lms_ack => s \in acked

(* Worker w ends its request, or a step of it, on submission s. *)
StepsOn(w, s) == handler'[w] # handler[w] /\ submission[w].id = s

(* A get_submission writes back the copy it read before s was finished. *)
PutsOldBack(w, s) == handler[w] \in {"get_save", "get_reply"} /\ StepsOn(w, s)

(* A put_result fails for a submission that the LMS has taken a grade of     *)
(* and that may still fail.                                                  *)
FailsAfterAck(w, s) ==
  /\ handler[w] = "put_save"
  /\ StepsOn(w, s)
  /\ s \in acked
  /\ table[s].num_failures < MAX_NUMBER_OF_FAILURES

(* A finished submission is opened again in two ways only: a get_submission  *)
(* that read it before it was finished writes its copy over it, or a result  *)
(* is sent again, after the LMS took the grade, and the LMS does not take it *)
(* this time.  However requests overlap, graders are late and keys change    *)
(* hands, a result that is sent once never opens one, and no result opens    *)
(* one that was given up after too many failures.                            *)
ReopenedInTwoWays ==
  [][\A s \in DOMAIN table : table[s].retired /\ ~table'[s].retired =>
       \E w \in WebWorkers : PutsOldBack(w, s) \/ (resends > 0 /\ FailsAfterAck(w, s))]_vars

-----------------------------------------------------------------------------
(* The invariant behind these properties: a row, in the table or in a copy   *)
(* of it that a request will write back, claims nothing that did not happen. *)

Justified(row, failed) ==
  /\ row.num_failures <= failed
  /\ row.lms_ack => row.id \in acked
  /\ row.retired => row.id \in acked \/ failed > MAX_NUMBER_OF_FAILURES

RowsJustified == \A s \in DOMAIN table : Justified(table[s], failedReplies[s])

(* The failure that put_result is about to save is not counted yet. *)
OwnFailure(w) == IF handler[w] = "put_save" /\ ~submission[w].lms_ack THEN 1 ELSE 0

CopiesJustified ==
  \A w \in WebWorkers : handler[w] # "idle" =>
    /\ submission[w] \in Row
    /\ Justified(submission[w], failedReplies[submission[w].id] + OwnFailure(w))

(* What get_submission writes back has a pull time and a pull key. *)
PullsAreKeyed ==
  \A w \in WebWorkers : handler[w] \in {"get_save", "get_reply"} =>
    submission[w].pull_time \in Nat /\ submission[w].pullkey \in Keys

HoldsLock(w) == InPutResult(w) \/ (ATOMIC_REQUESTS /\ handler[w] = "get_reply")

LocksHeld == \A w \in WebWorkers : HoldsLock(w) => lock[submission[w].id] = w

(* What put_result read under the lock is what the table still says. *)
CopiesCurrent ==
  \A w \in WebWorkers : InPutResult(w) =>
    /\ submission[w].id \in DOMAIN table
    /\ submission[w].num_failures = table[submission[w].id].num_failures + OwnFailure(w)

PullInv ==
  /\ PullTypeOK
  /\ RowsJustified
  /\ CopiesJustified
  /\ PullsAreKeyed
  /\ LocksHeld
  /\ CopiesCurrent

-----------------------------------------------------------------------------
(* Properties of requests that do not overlap (one web worker) *)

(* Two graders that hold one submission pulled it SUBMISSION_PROCESSING_DELAY *)
(* apart: what the tests call hiding it so that it is not double pulled.      *)
NoDoublePull ==
  \A t, u \in tickets :
    t.sid = u.sid /\ t.at <= u.at /\ t # u => t.at + SUBMISSION_PROCESSING_DELAY <= u.at

(* After more than MAX_NUMBER_OF_FAILURES failed replies the submission is   *)
(* retired, and it stays retired.                                            *)
AutoRetired ==
  \A s \in DOMAIN table : failedReplies[s] > MAX_NUMBER_OF_FAILURES => table[s].retired

(* The LMS takes one grade of a submission: a put_result is about to post     *)
(* another one only if a request or a reply was lost since, however late the  *)
(* graders are that pulled the submission before.                             *)
GradedOnce ==
  \A w \in WebWorkers :
    handler[w] = "put_post" /\ submission[w].id \in acked => faults > 0

(* The queue with leases, read off the table. *)
Promise == INSTANCE LeaseQueue WITH
  Delay <- SUBMISSION_PROCESSING_DELAY,
  MaxFailures <- MAX_NUMBER_OF_FAILURES,
  Never <- Null,
  leasedAt <- [s \in Ids |-> table[s].pull_time],
  failures <- [s \in Ids |-> table[s].num_failures],
  finished <- {s \in Ids : table[s].retired}

(* Requests that do not overlap implement the queue with leases. *)
KeepsPromise == Promise!Spec

-----------------------------------------------------------------------------
(* Liveness *)

(* A grader still holds a submission that is available again. *)
GraderIsLate == \E t \in tickets : t.at + SUBMISSION_PROCESSING_DELAY <= now

(* No submission is available forever: it is retired in the end, also when   *)
(* the LMS never takes a grade and graders lose what they pulled, if those   *)
(* that answer do so within the delay.  (Graders that are always later than  *)
(* that pull one from the other's hands for ever.)                           *)
EventuallyRetired ==
  []~GraderIsLate => <>[](\A s \in DOMAIN table : table[s].retired)
=============================================================================
