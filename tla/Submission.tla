----------------------------- MODULE Submission -----------------------------
(***************************************************************************)
(* The table queue_submission of submission_queue/models.py: its rows, the *)
(* queries of SubmissionManager and Model.save.  Every other component     *)
(* (views, push workers, management commands) is a client of this table,   *)
(* and nothing else is shared between them.                                *)
(*                                                                         *)
(* The time unit is one minute, the unit of SUBMISSION_PROCESSING_DELAY.   *)
(* Kept of a row: what decides where the row goes next.  Abstracted: the   *)
(* header, the bodies, the uploads, the addresses and return_time.         *)
(***************************************************************************)
EXTENDS Naturals, FiniteSets

CONSTANTS
  Ids,                          \* primary keys of the submissions
  Queues,                       \* names in settings.XQUEUES
  Urls,                         \* lms_callback_url: one per (user, module)
  Keys, NoKey,                  \* pull keys, and the pullkey of a row never pulled
  Null,                         \* SQL NULL in a DateTimeField
  NoOwner,                      \* owner of a row no transaction has locked
  SUBMISSION_PROCESSING_DELAY,
  MAX_NUMBER_OF_FAILURES,
  MaxTime,                      \* bound: the clock stops here
  MaxFaults                     \* bound: faults of the environment

ASSUME DelayAssumption == SUBMISSION_PROCESSING_DELAY \in Nat
ASSUME MaxFailuresAssumption == MAX_NUMBER_OF_FAILURES \in Nat
ASSUME NullAssumption == Null \notin Nat
ASSUME NoKeyAssumption == NoKey \notin Keys

VARIABLES
  table,    \* the committed rows, a function from the ids that exist
  lock,     \* the transaction that holds the row lock of each id
  now,      \* timezone.now()
  faults,   \* faults of the environment so far
  acked     \* ids for which a POST to the LMS was answered 200

tableVars == <<table, lock, now, faults, acked>>

Times == Nat \cup {Null}

Row == [id: Ids, queue_name: Queues, lms_callback_url: Urls,
        arrival_time: Nat, pull_time: Times, push_time: Times,
        pullkey: Keys \cup {NoKey}, num_failures: Nat,
        lms_ack: BOOLEAN, retired: BOOLEAN]

(* A mutant of NewSubmission: num_failures has no default. *)
NewSubmissionNoDefault(s, q, url, t) ==
  [id |-> s, queue_name |-> q, lms_callback_url |-> url,
   arrival_time |-> t, pull_time |-> Null, push_time |-> Null,
   pullkey |-> NoKey, num_failures |-> Null,
   lms_ack |-> FALSE, retired |-> FALSE]

(* Submission(...) with the defaults of the fields, created at time t. *)
NewSubmission(s, q, url, t) ==
  [id |-> s, queue_name |-> q, lms_callback_url |-> url,
   arrival_time |-> t, pull_time |-> Null, push_time |-> Null,
   pullkey |-> NoKey, num_failures |-> 0,
   lms_ack |-> FALSE, retired |-> FALSE]

-----------------------------------------------------------------------------
(* The queries of SubmissionManager. *)

(* Mutants of time_filter: the time of the last pull is not looked at, or a *)
(* submission that was handed out never comes back.                         *)
TimeFilterIgnored(t) == TRUE
HandedOutOnce(t) == t = Null

(* time_filter: never handed out, or so long ago that it is available again. *)
TimeFilter(t) == t = Null \/ t + SUBMISSION_PROCESSING_DELAY <= now

(* filter(queue_name=queue_name, retired=0) *)
Unretired(s, q) == table[s].queue_name = q /\ ~table[s].retired

Pullable(q) == {s \in DOMAIN table : Unretired(s, q) /\ TimeFilter(table[s].pull_time)}
Pushable(q) == {s \in DOMAIN table : Unretired(s, q) /\ TimeFilter(table[s].push_time)}

(* order_by('arrival_time').first(); rows that arrived together tie. *)
Oldest(S) == {s \in S : \A r \in S : table[s].arrival_time <= table[r].arrival_time}

get_single_unretired_submission(q) == Oldest(Pullable(q))
get_single_unpushed_submission(q) == Oldest(Pushable(q))

-----------------------------------------------------------------------------
(* Model.save and the row locks of the database. *)

(* save() writes every column of the row.  A row that is gone is inserted    *)
(* again, and auto_now_add makes it arrive anew.                             *)
Stored(row) == IF row.id \in DOMAIN table THEN row ELSE [row EXCEPT !.arrival_time = now]

Saved(row) ==
  [s \in DOMAIN table \cup {row.id} |-> IF s = row.id THEN Stored(row) ELSE table[s]]

(* A mutant of the row lock: select_for_update and UPDATE do not wait. *)
NeverLocked(s) == TRUE

Unlocked(s) == lock[s] = NoOwner

Fault == faults < MaxFaults /\ faults' = faults + 1

(* Time passes.  A step of the clock is taken only while some pull or push  *)
(* is still within the delay: otherwise it changes the answer of no query.  *)
Within(t) == t # Null /\ t + SUBMISSION_PROCESSING_DELAY > now

TableTypeOK ==
  /\ DOMAIN table \subseteq Ids
  /\ \A s \in DOMAIN table : table[s] \in Row /\ table[s].id = s
  /\ now \in Nat
  /\ faults \in Nat
  /\ acked \subseteq Ids
=============================================================================
