---------------------------- MODULE PushConsumer ----------------------------
(***************************************************************************)
(* The push interface: the Worker processes of submission_queue/consumer.py *)
(* and the monitor that restarts them (management/commands/run_consumer.py). *)
(*                                                                         *)
(* A worker takes the oldest submission of its queue, has it graded, tells *)
(* the LMS and saves the row:                                              *)
(*                                                                         *)
(*   waiting -> grading -> graded | ungraded -> saving -> waiting          *)
(*                                                                         *)
(* An exception ends the process ("failed"), a signal too ("killed").      *)
(***************************************************************************)
EXTENDS Submission

CONSTANTS
  Workers,          \* the Worker processes
  QueueOf,          \* the queue each of them was started for
  NoSubmission,     \* the local variable submission before it is assigned
  MaxKills          \* bound: workers interrupted by a signal

ASSUME QueueOfAssumption == QueueOf \in [Workers -> Queues]
ASSUME WorkerAssumption == NoOwner \notin Workers

VARIABLES
  worker,      \* where each worker is in _deliver_submission
  delivery,    \* its local variable submission
  monitored,   \* the list workers of the monitor
  kills,       \* workers interrupted so far
  gradings,    \* how often each submission was sent to a grader
  reported     \* submissions about which a call to the LMS has returned

pushVars == <<worker, delivery, monitored, kills, gradings, reported>>
vars == <<tableVars, pushVars>>

Running == {"waiting", "grading", "graded", "ungraded", "saving"}

PushTypeOK ==
  /\ TableTypeOK
  /\ worker \in [Workers -> Running \cup {"failed", "killed"}]
  /\ delivery \in [Workers -> Row \cup {NoSubmission}]
  /\ monitored \subseteq Workers
  /\ kills \in Nat
  /\ gradings \in [Ids -> Nat]
  /\ reported \subseteq Ids

Moves(p, point, row) ==
  /\ worker' = [worker EXCEPT ![p] = point]
  /\ delivery' = [delivery EXCEPT ![p] = row]

-----------------------------------------------------------------------------
(* _deliver_submission *)

(* get_single_unpushed_submission; grader_id and push_time are set on the    *)
(* instance in memory only.                                                  *)
Fetch(p) ==
  /\ worker[p] = "waiting"
  /\ \E s \in get_single_unpushed_submission(QueueOf[p]) :
       Moves(p, "grading", [table[s] EXCEPT !.push_time = now])
  /\ UNCHANGED <<tableVars, monitored, kills, gradings, reported>>

(* No submission is available: the worker sleeps for CONSUMER_DELAY. *)
FetchNothing(p) ==
  /\ worker[p] = "waiting"
  /\ get_single_unpushed_submission(QueueOf[p]) = {}
  /\ UNCHANGED vars

(* A mutant of Reported: the row is retired only if the LMS was told. *)
RetiredIfTold(row, grading_success, success) ==
  [row EXCEPT !.lms_ack = success, !.retired = success]

(* A mutant of Reported: the outcome of the grading is taken for the ack. *)
AckedIfGraded(row, grading_success, success) ==
  [row EXCEPT !.lms_ack = grading_success, !.retired = TRUE]

(* The row after the grade, or the failure, was posted to the LMS: retired   *)
(* after one shot.                                                           *)
Reported(row, grading_success, success) ==
  [row EXCEPT !.lms_ack = success, !.retired = TRUE,
              !.num_failures = IF grading_success THEN @ ELSE @ + 1]

(* A mutant of Grade: the LMS is not told of a submission left ungraded. *)
GradeWithoutNotice(p) ==
  /\ worker[p] = "grading"
  /\ \/ Moves(p, "graded", delivery[p])
     \/ Moves(p, "saving", Reported(delivery[p], FALSE, FALSE))
  /\ gradings' = [gradings EXCEPT ![delivery[p].id] = @ + 1]
  /\ UNCHANGED <<tableVars, monitored, kills, reported>>

(* _http_post to the grader, which answers or not. *)
Grade(p) ==
  /\ worker[p] = "grading"
  /\ \E outcome \in {"graded", "ungraded"} : Moves(p, outcome, delivery[p])
  /\ gradings' = [gradings EXCEPT ![delivery[p].id] = @ + 1]
  /\ UNCHANGED <<tableVars, monitored, kills, reported>>

(* post_grade_to_lms or post_failure_to_lms (module LmsDelivery) returns. *)
Report(p) ==
  /\ worker[p] \in {"graded", "ungraded"}
  /\ \E success \in BOOLEAN :
       /\ Moves(p, "saving", Reported(delivery[p], worker[p] = "graded", success))
       /\ acked' = IF success THEN acked \cup {delivery[p].id} ELSE acked
  /\ reported' = reported \cup {delivery[p].id}
  /\ UNCHANGED <<table, lock, now, faults, monitored, kills, gradings>>

(* submission.save(), then the sleep of CONSUMER_DELAY. *)
Save(p) ==
  /\ worker[p] = "saving"
  /\ Unlocked(delivery[p].id)
  /\ table' = Saved(delivery[p])
  /\ Moves(p, "waiting", NoSubmission)
  /\ UNCHANGED <<lock, now, faults, acked, monitored, kills, gradings, reported>>

-----------------------------------------------------------------------------
(* An exception that nobody catches ends the process with exit code 1: an    *)
(* error of the database, a reply of the grader or of the LMS that requests  *)
(* cannot read.                                                              *)
Crash(p) ==
  /\ worker[p] \in Running
  /\ Fault
  /\ Moves(p, "failed", NoSubmission)
  /\ UNCHANGED <<table, lock, now, acked, monitored, kills, gradings, reported>>

(* A signal ends the process: its exit code is negative. *)
Kill(p) ==
  /\ worker[p] \in Running
  /\ kills < MaxKills
  /\ kills' = kills + 1
  /\ Moves(p, "killed", NoSubmission)
  /\ UNCHANGED <<tableVars, monitored, gradings, reported>>

(* A mutant of Restartable: failed workers are taken for finished ones. *)
NeverRestarted(p) == FALSE

(* exitcode >= 1 *)
Restartable(p) == worker[p] = "failed"

(* monitor: a failed worker is replaced by a new one for the same queue; an  *)
(* interrupted one is taken off the list for good.                           *)
Restart(p) ==
  /\ p \in monitored
  /\ Restartable(p)
  /\ Moves(p, "waiting", NoSubmission)
  /\ UNCHANGED <<tableVars, monitored, kills, gradings, reported>>

Remove(p) ==
  /\ p \in monitored
  /\ worker[p] \notin Running /\ ~Restartable(p)
  /\ monitored' = monitored \ {p}
  /\ UNCHANGED <<tableVars, worker, delivery, kills, gradings, reported>>

PushTimes == {table[s].push_time : s \in DOMAIN table}

Tick ==
  /\ now < MaxTime
  /\ \E t \in PushTimes : Within(t)
  /\ now' = now + 1
  /\ UNCHANGED <<table, lock, faults, acked, pushVars>>

(* 'All workers finished': the monitor ends with its last worker. *)
AllFinished == monitored = {} /\ UNCHANGED vars

-----------------------------------------------------------------------------
PushInit ==
  /\ lock = [s \in Ids |-> NoOwner]
  /\ faults = 0
  /\ acked = {}
  /\ worker = [p \in Workers |-> "waiting"]
  /\ delivery = [p \in Workers |-> NoSubmission]
  /\ monitored = Workers
  /\ kills = 0
  /\ gradings = [s \in Ids |-> 0]
  /\ reported = {}

(* Every id was submitted, at time 0 or 1, and nothing was pushed yet. *)
Init ==
  /\ PushInit
  /\ now = 1
  /\ \E q \in [Ids -> Queues], url \in [Ids -> Urls], t \in [Ids -> 0..1] :
       table = [s \in Ids |-> NewSubmission(s, q[s], url[s], t[s])]

Deliver(p) == Fetch(p) \/ FetchNothing(p) \/ Grade(p) \/ Report(p) \/ Save(p)

Monitor(p) == Restart(p) \/ Remove(p)

Next ==
  \/ \E p \in Workers : Deliver(p) \/ Crash(p) \/ Kill(p) \/ Monitor(p)
  \/ Tick
  \/ AllFinished

Spec == Init /\ [][Next]_vars

(* A worker polls every CONSUMER_DELAY and each of its calls has a timeout;  *)
(* the monitor looks at the workers every MONITOR_SLEEPTIME.                 *)
FairSpec ==
  /\ Spec
  /\ \A p \in Workers : WF_vars(Deliver(p)) /\ WF_vars(Monitor(p))

-----------------------------------------------------------------------------
(* No submission of a push queue is dropped in silence: once it is retired   *)
(* the LMS was sent a grade or a failure for it.                             *)
RetiredIsReported == \A s \in DOMAIN table : table[s].retired => s \in reported

(* One worker per queue grades a submission again only when it was ended by  *)
(* an exception or a signal in between.                                      *)
GradedAgainOnlyAfterCrash ==
  \A s \in Ids : gradings[s] <= 1 + faults + kills

(* A signal has ended every worker of the queue. *)
Interrupted(q) == \A p \in Workers : QueueOf[p] = q => worker[p] = "killed"

(* Every queue is emptied: each submission is retired in the end, whatever   *)
(* exceptions end its worker, unless a signal does, which the monitor does   *)
(* not make good.                                                            *)
QueuesAreEmptied ==
  <>[](\A s \in DOMAIN table : table[s].retired \/ Interrupted(table[s].queue_name))
=============================================================================
