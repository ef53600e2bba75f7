----------------------------- MODULE PushProofs -----------------------------
(***************************************************************************)
(* Proofs about PushConsumer, for any number of queues, workers,           *)
(* submissions, exceptions and signals.                                    *)
(***************************************************************************)
EXTENDS PushConsumer, TLAPS

Delivering == {"grading", "graded", "ungraded", "saving"}

(* What a worker has in hand is retired only when it was reported. *)
DeliveriesReported ==
  \A p \in Workers : worker[p] \in Delivering =>
    /\ delivery[p] \in Row
    /\ delivery[p].retired => delivery[p].id \in reported

ReportInv == PushTypeOK /\ RetiredIsReported /\ DeliveriesReported

-----------------------------------------------------------------------------
(* save() writes a row like the one it is given, and no other. *)
LEMMA SavedRow ==
  ASSUME NEW row \in Row, now \in Nat
  PROVE  /\ DOMAIN Saved(row) = DOMAIN table \cup {row.id}
         /\ Saved(row)[row.id] \in Row /\ Saved(row)[row.id].id = row.id
         /\ Saved(row)[row.id].retired = row.retired
         /\ row.id \in DOMAIN table => Saved(row)[row.id] = row
         /\ \A s \in DOMAIN table : s # row.id => Saved(row)[s] = table[s]
<1>1. /\ Stored(row) \in Row /\ Stored(row).id = row.id /\ Stored(row).retired = row.retired
      /\ row.id \in DOMAIN table => Stored(row) = row
  BY DEF Stored, Row
<1> QED
  BY <1>1 DEF Saved

(* The row is retired, and its count raised when the grader failed. *)
LEMMA ReportedRow ==
  ASSUME NEW row \in Row, NEW ok \in BOOLEAN, NEW success \in BOOLEAN
  PROVE  /\ Reported(row, ok, success) \in Row
         /\ Reported(row, ok, success).id = row.id
         /\ Reported(row, ok, success).queue_name = row.queue_name
         /\ Reported(row, ok, success).retired = TRUE
<1> DEFINE n == IF ok THEN row.num_failures ELSE row.num_failures + 1
<1>1. n \in Nat
  BY DEF Row
<1>2. Reported(row, ok, success)
        = [row EXCEPT !.lms_ack = success, !.retired = TRUE, !.num_failures = n]
  BY DEF Reported
<1> HIDE DEF n
<1> QED
  BY <1>1, <1>2 DEF Row

LEMMA StartingRow ==
  ASSUME Init, NEW s \in DOMAIN table
  PROVE  s \in Ids /\ table[s] \in Row /\ table[s].id = s /\ ~table[s].retired
<1>1. PICK q \in [Ids -> Queues], url \in [Ids -> Urls], t \in [Ids -> 0..1] :
        table = [r \in Ids |-> NewSubmission(r, q[r], url[r], t[r])]
  BY DEF Init
<1> QED
  BY <1>1 DEF NewSubmission, Row, Times

LEMMA InitReportInv == Init => ReportInv
<1> SUFFICES ASSUME Init PROVE ReportInv
  OBVIOUS
<1>1. PushTypeOK
  <2>1. DOMAIN table \subseteq Ids
    BY DEF Init
  <2> QED
    BY <2>1, StartingRow DEF Init, PushInit, PushTypeOK, TableTypeOK, Running
<1>2. RetiredIsReported
  BY StartingRow DEF RetiredIsReported
<1>3. DeliveriesReported
  BY DEF Init, PushInit, DeliveriesReported, Delivering
<1> QED
  BY <1>1, <1>2, <1>3 DEF ReportInv

-----------------------------------------------------------------------------
(* One worker moves, and no row changes. *)
LEMMA MoveKeeps ==
  ASSUME ReportInv, NEW p \in Workers, NEW point \in Running \cup {"failed", "killed"},
         NEW row \in Row \cup {NoSubmission},
         worker' = [worker EXCEPT ![p] = point], delivery' = [delivery EXCEPT ![p] = row],
         table' = table, reported \subseteq reported',
         point \in Delivering => row \in Row /\ (row.retired => row.id \in reported')
  PROVE  RetiredIsReported' /\ DeliveriesReported'
<1>1. RetiredIsReported'
  BY DEF ReportInv, RetiredIsReported
<1>2. DeliveriesReported'
  BY DEF ReportInv, PushTypeOK, DeliveriesReported
<1> QED
  BY <1>1, <1>2

LEMMA FetchKeeps ==
  ASSUME ReportInv, NEW p \in Workers, Fetch(p)
  PROVE  ReportInv'
<1>1. PICK s \in DOMAIN table :
        ~table[s].retired /\ Moves(p, "grading", [table[s] EXCEPT !.push_time = now])
  BY DEF Fetch, get_single_unpushed_submission, Oldest, Pushable, Unretired
<1> DEFINE row == [table[s] EXCEPT !.push_time = now]
<1>2. row \in Row /\ ~row.retired
  BY <1>1 DEF ReportInv, PushTypeOK, TableTypeOK, Row, Times
<1> HIDE DEF row
<1>3. /\ worker' = [worker EXCEPT ![p] = "grading"] /\ delivery' = [delivery EXCEPT ![p] = row]
      /\ UNCHANGED <<table, now, faults, acked, monitored, kills, gradings, reported>>
  BY <1>1 DEF row, Moves, Fetch, tableVars
<1>4. PushTypeOK'
  BY <1>2, <1>3 DEF ReportInv, PushTypeOK, TableTypeOK, Running
<1> QED
  BY <1>2, <1>3, <1>4, MoveKeeps DEF ReportInv, Running, Delivering

LEMMA GradeKeeps ==
  ASSUME ReportInv, NEW p \in Workers, Grade(p)
  PROVE  ReportInv'
<1> DEFINE row == delivery[p]
<1>1. PICK outcome \in {"graded", "ungraded"} : Moves(p, outcome, row)
  BY DEF Grade
<1>2. row \in Row /\ (row.retired => row.id \in reported) /\ row.id \in Ids
  BY DEF Grade, ReportInv, DeliveriesReported, Delivering, Row
<1>3. /\ worker' = [worker EXCEPT ![p] = outcome] /\ delivery' = [delivery EXCEPT ![p] = row]
      /\ gradings' = [gradings EXCEPT ![row.id] = @ + 1]
      /\ UNCHANGED <<table, now, faults, acked, monitored, kills, reported>>
  BY <1>1 DEF Moves, Grade, tableVars
<1>4. PushTypeOK'
  BY <1>2, <1>3 DEF ReportInv, PushTypeOK, TableTypeOK, Running
<1> QED
  BY <1>2, <1>3, <1>4, MoveKeeps DEF ReportInv, Running

LEMMA ReportKeeps ==
  ASSUME ReportInv, NEW p \in Workers, Report(p)
  PROVE  ReportInv'
<1> DEFINE row == delivery[p]  ok == worker[p] = "graded"
<1>1. PICK success \in BOOLEAN :
        /\ Moves(p, "saving", Reported(row, ok, success))
        /\ acked' = IF success THEN acked \cup {row.id} ELSE acked
  BY DEF Report
<1> DEFINE new == Reported(row, ok, success)
<1>2. row \in Row /\ row.id \in Ids
  BY DEF Report, ReportInv, DeliveriesReported, Delivering, Row
<1>3. new \in Row /\ new.id = row.id
  BY <1>2, ReportedRow
<1> HIDE DEF new
<1>4. /\ worker' = [worker EXCEPT ![p] = "saving"] /\ delivery' = [delivery EXCEPT ![p] = new]
      /\ reported' = reported \cup {row.id}
      /\ UNCHANGED <<table, now, faults, monitored, kills, gradings>>
  BY <1>1 DEF new, Moves, Report
<1>5. PushTypeOK'
  BY <1>1, <1>2, <1>3, <1>4 DEF ReportInv, PushTypeOK, TableTypeOK, Running
<1> QED
  BY <1>3, <1>4, <1>5, MoveKeeps DEF ReportInv, Running

LEMMA SaveKeeps ==
  ASSUME ReportInv, NEW p \in Workers, Save(p)
  PROVE  ReportInv'
<1> DEFINE row == delivery[p]
<1>1. /\ row \in Row /\ row.id \in Ids /\ (row.retired => row.id \in reported) /\ now \in Nat
  BY DEF Save, ReportInv, PushTypeOK, TableTypeOK, DeliveriesReported, Delivering, Row
<1>2. /\ worker' = [worker EXCEPT ![p] = "waiting"]
      /\ delivery' = [delivery EXCEPT ![p] = NoSubmission]
      /\ table' = Saved(row)
      /\ UNCHANGED <<now, faults, acked, monitored, kills, gradings, reported>>
  BY DEF Save, Moves
<1>3. /\ DOMAIN table' = DOMAIN table \cup {row.id}
      /\ table'[row.id] \in Row /\ table'[row.id].id = row.id
      /\ table'[row.id].retired = row.retired
      /\ \A s \in DOMAIN table : s # row.id => table'[s] = table[s]
  BY <1>1, <1>2, SavedRow
<1>4. PushTypeOK'
  BY <1>1, <1>2, <1>3 DEF ReportInv, PushTypeOK, TableTypeOK, Running
<1>5. RetiredIsReported'
  BY <1>1, <1>2, <1>3 DEF ReportInv, RetiredIsReported
<1>6. DeliveriesReported'
  BY <1>2 DEF ReportInv, PushTypeOK, DeliveriesReported, Delivering
<1> QED
  BY <1>4, <1>5, <1>6 DEF ReportInv

LEMMA NextReportInv ==
  ASSUME ReportInv, [Next]_vars
  PROVE  ReportInv'
<1>1. ASSUME NEW p \in Workers, Crash(p) \/ Kill(p) \/ Restart(p) PROVE ReportInv'
  <2>1. PICK point \in {"failed", "killed", "waiting"} : Moves(p, point, NoSubmission)
    BY <1>1 DEF Crash, Kill, Restart
  <2>2. /\ worker' = [worker EXCEPT ![p] = point]
        /\ delivery' = [delivery EXCEPT ![p] = NoSubmission]
        /\ UNCHANGED <<table, now, acked, monitored, gradings, reported>>
        /\ faults' \in Nat /\ kills' \in Nat
    BY <1>1, <2>1 DEF Moves, Crash, Kill, Restart, Fault, tableVars,
                      ReportInv, PushTypeOK, TableTypeOK
  <2>3. PushTypeOK'
    BY <2>2 DEF ReportInv, PushTypeOK, TableTypeOK, Running
  <2> QED
    BY <2>2, <2>3, MoveKeeps DEF ReportInv, Running, Delivering
<1>2. ASSUME UNCHANGED <<table, acked, worker, delivery, gradings, reported>>,
             now' \in Nat, faults' \in Nat, kills' \in Nat, monitored' \subseteq Workers
      PROVE  ReportInv'
  BY <1>2 DEF ReportInv, PushTypeOK, TableTypeOK, RetiredIsReported, DeliveriesReported
<1>3. now \in Nat /\ faults \in Nat /\ kills \in Nat /\ monitored \subseteq Workers
  BY DEF ReportInv, PushTypeOK, TableTypeOK
<1>4. ASSUME NEW p \in Workers, FetchNothing(p) \/ Remove(p) PROVE ReportInv'
  BY <1>2, <1>3, <1>4 DEF FetchNothing, Remove, vars, tableVars, pushVars
<1>5. CASE Tick \/ AllFinished \/ UNCHANGED vars
  BY <1>2, <1>3, <1>5 DEF Tick, AllFinished, vars, tableVars, pushVars
<1> QED
  BY <1>1, <1>4, <1>5, FetchKeeps, GradeKeeps, ReportKeeps, SaveKeeps DEF Next, Deliver, Monitor

-----------------------------------------------------------------------------
(* The inductive invariant of the workers: a row that is retired, in the      *)
(* table or in the memory of a worker, was reported.                         *)
THEOREM ReportInvariant == Spec => []ReportInv
  BY InitReportInv, NextReportInv, PTL DEF Spec

(* No worker retires a submission without the LMS having been called for it, *)
(* wherever exceptions and signals end the workers.                          *)
THEOREM NoneDropped == Spec => []RetiredIsReported
<1>1. ReportInv => RetiredIsReported
  BY DEF ReportInv
<1> QED
  BY <1>1, ReportInvariant, PTL

(* Type correctness of the worker processes and of the rows they save. *)
THEOREM PushTypes == Spec => []PushTypeOK
<1>1. ReportInv => PushTypeOK
  BY DEF ReportInv
<1> QED
  BY <1>1, ReportInvariant, PTL

-----------------------------------------------------------------------------
(* How often a submission is graded, if no two workers serve a queue. *)

OneWorkerPerQueue == \A p, r \in Workers : QueueOf[p] = QueueOf[r] => p = r

(* Nobody but the worker of its queue ends a submission, so what the worker *)
(* has in hand is still unretired in the table.                             *)
OwnDelivery(p) ==
  LET s == delivery[p].id IN
  /\ s \in DOMAIN table /\ ~table[s].retired
  /\ table[s].queue_name = QueueOf[p] /\ delivery[p].queue_name = QueueOf[p]
  /\ worker[p] = "saving" => delivery[p].retired

DeliveriesOwn == \A p \in Workers : worker[p] \in Delivering => OwnDelivery(p)

(* The last grading of a submission was not in vain, or not yet. *)
PastGrading(s) ==
  \/ s \in DOMAIN table /\ table[s].retired
  \/ \E p \in Workers : worker[p] \in {"graded", "ungraded", "saving"} /\ delivery[p].id = s

GradingsCounted ==
  \A s \in Ids :
    /\ gradings[s] <= 1 + faults + kills
    /\ ~PastGrading(s) => gradings[s] <= faults + kills

GradingInv == ReportInv /\ DeliveriesOwn /\ GradingsCounted

LEMMA InitGradingInv == Init => GradingInv
<1> SUFFICES ASSUME Init PROVE GradingInv
  OBVIOUS
<1>1. DeliveriesOwn
  BY DEF Init, PushInit, DeliveriesOwn, Delivering
<1>2. GradingsCounted
  BY DEF Init, PushInit, GradingsCounted
<1> QED
  BY <1>1, <1>2, InitReportInv DEF GradingInv

(* Two workers never have the same submission in hand. *)
LEMMA OnlyOneHolds ==
  ASSUME OneWorkerPerQueue, DeliveriesOwn, NEW p \in Workers, NEW r \in Workers,
         worker[p] \in Delivering, worker[r] \in Delivering, delivery[p].id = delivery[r].id
  PROVE  p = r
  BY DEF OneWorkerPerQueue, DeliveriesOwn, OwnDelivery

(* A worker that drops what it has in hand was ended by an exception or a    *)
(* signal, which is counted.                                                 *)
LEMMA EndKeeps ==
  ASSUME GradingInv, NEW p \in Workers, Crash(p) \/ Kill(p)
  PROVE  DeliveriesOwn' /\ GradingsCounted'
<1>1. PICK point \in {"failed", "killed"} : Moves(p, point, NoSubmission)
  BY DEF Crash, Kill
<1>2. /\ worker' = [worker EXCEPT ![p] = point] /\ delivery' = [delivery EXCEPT ![p] = NoSubmission]
      /\ table' = table /\ gradings' = gradings
      /\ faults' + kills' = faults + kills + 1 /\ faults' \in Nat /\ kills' \in Nat
      /\ faults \in Nat /\ kills \in Nat
  BY <1>1 DEF Moves, Crash, Kill, Fault, tableVars, GradingInv, ReportInv, PushTypeOK, TableTypeOK
<1>3. DeliveriesOwn'
  BY <1>2 DEF GradingInv, ReportInv, PushTypeOK, DeliveriesOwn, OwnDelivery, Delivering
<1>4. GradingsCounted'
  <2> SUFFICES ASSUME NEW s \in Ids PROVE gradings'[s] <= faults' + kills'
    BY <1>2 DEF GradingsCounted, GradingInv, ReportInv, PushTypeOK
  <2>1. gradings[s] <= 1 + faults + kills /\ gradings[s] \in Nat
    BY DEF GradingsCounted, GradingInv, ReportInv, PushTypeOK
  <2>2. gradings'[s] = gradings[s]
    BY <1>2
  <2>3. faults' + kills' = faults + kills + 1 /\ faults \in Nat /\ kills \in Nat
    BY <1>2
  <2> QED
    BY <2>1, <2>2, <2>3
<1> QED
  BY <1>3, <1>4

LEMMA FetchKeepsOwn ==
  ASSUME GradingInv, NEW p \in Workers, Fetch(p)
  PROVE  DeliveriesOwn' /\ GradingsCounted'
<1>1. PICK s \in DOMAIN table :
        /\ ~table[s].retired /\ table[s].queue_name = QueueOf[p]
        /\ Moves(p, "grading", [table[s] EXCEPT !.push_time = now])
  BY DEF Fetch, get_single_unpushed_submission, Oldest, Pushable, Unretired
<1> DEFINE row == [table[s] EXCEPT !.push_time = now]
<1>2. row.id = s /\ row.queue_name = QueueOf[p]
  BY <1>1 DEF GradingInv, ReportInv, PushTypeOK, TableTypeOK, Row
<1> HIDE DEF row
<1>3. /\ worker' = [worker EXCEPT ![p] = "grading"] /\ delivery' = [delivery EXCEPT ![p] = row]
      /\ worker[p] = "waiting"
      /\ UNCHANGED <<table, faults, kills, gradings>>
  BY <1>1 DEF row, Moves, Fetch, tableVars
<1>4. DeliveriesOwn'
  BY <1>1, <1>2, <1>3 DEF GradingInv, ReportInv, PushTypeOK, DeliveriesOwn, OwnDelivery
<1>5. \A x \in Ids : PastGrading(x) => PastGrading(x)'
  BY <1>3 DEF PastGrading, GradingInv, ReportInv, PushTypeOK
<1> QED
  BY <1>3, <1>4, <1>5 DEF GradingInv, GradingsCounted

LEMMA GradeKeepsOwn ==
  ASSUME OneWorkerPerQueue, GradingInv, NEW p \in Workers, Grade(p)
  PROVE  DeliveriesOwn' /\ GradingsCounted'
<1> DEFINE row == delivery[p]
<1>1. PICK outcome \in {"graded", "ungraded"} : Moves(p, outcome, row)
  BY DEF Grade
<1>2. /\ worker' = [worker EXCEPT ![p] = outcome] /\ delivery' = [delivery EXCEPT ![p] = row]
      /\ gradings' = [gradings EXCEPT ![row.id] = @ + 1]
      /\ worker[p] = "grading" /\ row.id \in Ids
      /\ UNCHANGED <<table, faults, kills>>
  BY <1>1 DEF Moves, Grade, tableVars, GradingInv, ReportInv, DeliveriesReported, Delivering, Row
<1>3. DeliveriesOwn'
  BY <1>2 DEF GradingInv, ReportInv, PushTypeOK, DeliveriesOwn, OwnDelivery, Delivering
<1>4. ~PastGrading(row.id)
  <2>1. row.id \in DOMAIN table /\ ~table[row.id].retired
    BY <1>2 DEF GradingInv, DeliveriesOwn, OwnDelivery, Delivering
  <2>2. \A r \in Workers : worker[r] \in {"graded", "ungraded", "saving"} => delivery[r].id # row.id
    BY <1>2, OnlyOneHolds DEF GradingInv, Delivering
  <2> QED
    BY <2>1, <2>2 DEF PastGrading
<1>5. PastGrading(row.id)'
  BY <1>2 DEF PastGrading, GradingInv, ReportInv, PushTypeOK
<1>6. \A x \in Ids : PastGrading(x) => PastGrading(x)'
  BY <1>2 DEF PastGrading, GradingInv, ReportInv, PushTypeOK
<1>7. faults \in Nat /\ kills \in Nat /\ gradings \in [Ids -> Nat]
  BY DEF GradingInv, ReportInv, PushTypeOK, TableTypeOK
<1>8. GradingsCounted'
  <2> SUFFICES ASSUME NEW x \in Ids
               PROVE  /\ gradings'[x] <= 1 + faults + kills
                      /\ ~PastGrading(x)' => gradings'[x] <= faults + kills
    BY <1>2 DEF GradingsCounted
  <2>1. /\ gradings[x] <= 1 + faults + kills /\ gradings[x] \in Nat
        /\ ~PastGrading(x) => gradings[x] <= faults + kills
    BY <1>7 DEF GradingInv, GradingsCounted
  <2>2. CASE x = row.id
    BY <1>2, <1>4, <1>5, <1>7, <2>1, <2>2
  <2>3. CASE x # row.id
    BY <1>2, <1>6, <1>7, <2>1, <2>3
  <2> QED
    BY <2>2, <2>3
<1> QED
  BY <1>3, <1>8

LEMMA ReportKeepsOwn ==
  ASSUME GradingInv, NEW p \in Workers, Report(p)
  PROVE  DeliveriesOwn' /\ GradingsCounted'
<1> DEFINE row == delivery[p]  ok == worker[p] = "graded"
<1>1. PICK success \in BOOLEAN : Moves(p, "saving", Reported(row, ok, success))
  BY DEF Report
<1> DEFINE new == Reported(row, ok, success)
<1>2. row \in Row /\ worker[p] \in {"graded", "ungraded"}
  BY DEF Report, GradingInv, ReportInv, DeliveriesReported, Delivering
<1>3. new.id = row.id /\ new.queue_name = row.queue_name /\ new.retired
  BY <1>2, ReportedRow
<1> HIDE DEF new
<1>4. /\ worker' = [worker EXCEPT ![p] = "saving"] /\ delivery' = [delivery EXCEPT ![p] = new]
      /\ UNCHANGED <<table, faults, kills, gradings>>
  BY <1>1 DEF new, Moves, Report
<1>5. OwnDelivery(p)
  BY <1>2 DEF GradingInv, DeliveriesOwn, Delivering
<1>6. DeliveriesOwn'
  BY <1>3, <1>4, <1>5 DEF GradingInv, ReportInv, PushTypeOK, DeliveriesOwn, OwnDelivery
<1>7. \A x \in Ids : PastGrading(x) => PastGrading(x)'
  BY <1>2, <1>3, <1>4 DEF PastGrading, GradingInv, ReportInv, PushTypeOK
<1> QED
  BY <1>4, <1>6, <1>7 DEF GradingInv, GradingsCounted

LEMMA SaveKeepsOwn ==
  ASSUME OneWorkerPerQueue, GradingInv, NEW p \in Workers, Save(p)
  PROVE  DeliveriesOwn' /\ GradingsCounted'
<1> DEFINE row == delivery[p]
<1>1. /\ row \in Row /\ worker[p] = "saving" /\ OwnDelivery(p) /\ now \in Nat
  BY DEF Save, GradingInv, ReportInv, PushTypeOK, TableTypeOK, DeliveriesReported,
         DeliveriesOwn, Delivering
<1>2. /\ worker' = [worker EXCEPT ![p] = "waiting"]
      /\ delivery' = [delivery EXCEPT ![p] = NoSubmission]
      /\ table' = Saved(row)
      /\ UNCHANGED <<faults, kills, gradings>>
  BY DEF Save, Moves
<1>3. /\ DOMAIN table' = DOMAIN table /\ table'[row.id] = row /\ row.retired
      /\ \A s \in DOMAIN table : s # row.id => table'[s] = table[s]
  BY <1>1, <1>2, SavedRow DEF OwnDelivery
<1>4. \A r \in Workers : worker'[r] \in Delivering =>
        r # p /\ worker[r] \in Delivering /\ delivery'[r] = delivery[r] /\ worker'[r] = worker[r]
  BY <1>2 DEF GradingInv, ReportInv, PushTypeOK, Delivering
<1>5. DeliveriesOwn'
  <2> SUFFICES ASSUME NEW r \in Workers, worker'[r] \in Delivering PROVE OwnDelivery(r)'
    BY DEF DeliveriesOwn
  <2>1. OwnDelivery(r) /\ delivery[r].id # row.id
    BY <1>1, <1>4, OnlyOneHolds DEF GradingInv, DeliveriesOwn, Delivering
  <2> QED
    BY <1>3, <1>4, <2>1 DEF OwnDelivery
<1>6. ASSUME NEW x \in Ids, PastGrading(x) PROVE PastGrading(x)'
  <2>1. CASE x = row.id
    BY <1>1, <1>3, <2>1 DEF PastGrading, OwnDelivery
  <2>2. CASE x # row.id /\ x \in DOMAIN table /\ table[x].retired
    BY <1>3, <2>2 DEF PastGrading
  <2>3. CASE \E r \in Workers : /\ x # row.id
                                /\ worker[r] \in {"graded", "ungraded", "saving"}
                                /\ delivery[r].id = x
    BY <1>2, <2>3 DEF PastGrading, GradingInv, ReportInv, PushTypeOK
  <2> QED
    BY <1>6, <2>1, <2>2, <2>3 DEF PastGrading
<1> QED
  BY <1>2, <1>5, <1>6 DEF GradingInv, GradingsCounted

LEMMA NextGradingInv ==
  ASSUME OneWorkerPerQueue, GradingInv, [Next]_vars
  PROVE  GradingInv'
<1>1. ReportInv'
  BY NextReportInv DEF GradingInv
<1>2. ASSUME NEW p \in Workers, Restart(p) PROVE DeliveriesOwn' /\ GradingsCounted'
  <2>1. /\ worker' = [worker EXCEPT ![p] = "waiting"]
        /\ delivery' = [delivery EXCEPT ![p] = NoSubmission]
        /\ worker[p] = "failed"
        /\ UNCHANGED <<table, faults, kills, gradings>>
    BY <1>2 DEF Restart, Restartable, Moves, tableVars
  <2>2. DeliveriesOwn'
    BY <2>1 DEF GradingInv, ReportInv, PushTypeOK, DeliveriesOwn, OwnDelivery, Delivering
  <2>3. \A x \in Ids : PastGrading(x) => PastGrading(x)'
    BY <2>1 DEF PastGrading, GradingInv, ReportInv, PushTypeOK
  <2> QED
    BY <2>1, <2>2, <2>3 DEF GradingInv, GradingsCounted
<1>3. ASSUME UNCHANGED <<table, worker, delivery, faults, kills, gradings>>
      PROVE  DeliveriesOwn' /\ GradingsCounted'
  BY <1>3 DEF GradingInv, DeliveriesOwn, OwnDelivery, GradingsCounted, PastGrading
<1>4. ASSUME NEW p \in Workers, FetchNothing(p) \/ Remove(p)
      PROVE  DeliveriesOwn' /\ GradingsCounted'
  BY <1>3, <1>4 DEF FetchNothing, Remove, vars, tableVars, pushVars
<1>5. ASSUME Tick \/ AllFinished \/ UNCHANGED vars PROVE DeliveriesOwn' /\ GradingsCounted'
  BY <1>3, <1>5 DEF Tick, AllFinished, vars, tableVars, pushVars
<1>6. DeliveriesOwn' /\ GradingsCounted'
  BY <1>2, <1>4, <1>5, EndKeeps, FetchKeepsOwn, GradeKeepsOwn, ReportKeepsOwn, SaveKeepsOwn
     DEF Next, Deliver, Monitor
<1> QED
  BY <1>1, <1>6 DEF GradingInv

(* With one worker for each queue, as run_consumer starts them, a submission *)
(* is graded at most once more than workers were ended by exceptions or      *)
(* signals, for any number of queues and submissions.                        *)
THEOREM GradedAgain ==
  ASSUME OneWorkerPerQueue
  PROVE  Spec => []GradedAgainOnlyAfterCrash
<1>1. GradingInv /\ [Next]_vars => GradingInv'
  BY NextGradingInv
<1>2. GradingInv => GradedAgainOnlyAfterCrash
  BY DEF GradingInv, GradingsCounted, GradedAgainOnlyAfterCrash
<1> QED
  BY <1>1, <1>2, InitGradingInv, PTL DEF Spec
=============================================================================
