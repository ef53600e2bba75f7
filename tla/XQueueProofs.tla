---------------------------- MODULE XQueueProofs ----------------------------
(***************************************************************************)
(* Proofs about XQueue: the whole service, with any number of submissions, *)
(* web workers, push workers and commands of every kind, faults and        *)
(* signals, and either value of ATOMIC_REQUESTS.                           *)
(*                                                                         *)
(* The argument is one inductive invariant, XInv: no row claims more than  *)
(* what happened, be it in the table or in the memory of a process that    *)
(* will write all of its columns back, however long ago it was read.  What *)
(* opens a retired submission needs ReopenInv besides: where pull keys are.*)
(***************************************************************************)
EXTENDS XQueue, TLAPS

-----------------------------------------------------------------------------
(* The invariant *)

(* What the learner or the LMS was told of, and what a submit has replaced. *)
Told == acked \cup reported \cup accounted \cup superseded

(* A count of failures is made of results the LMS did not take and of gradings *)
(* that failed; the latter count only once they were reported.               *)
Honest(row, failed) ==
  /\ row.id \in DOMAIN callback
  /\ row.num_failures <= failed \/ row.id \in reported
  /\ row.num_failures <= failed + ungraded[row.id]
  /\ row.lms_ack => row.id \in acked
  /\ row.retired => row.id \in Told \/ failed > MAX_NUMBER_OF_FAILURES

RowsHonest ==
  /\ failedReplies \in [Ids -> Nat] /\ ungraded \in [Ids -> Nat] /\ now \in Nat
  /\ DOMAIN table \subseteq Ids
  /\ \A s \in DOMAIN table :
       table[s] \in Row /\ table[s].id = s /\ Honest(table[s], failedReplies[s])

RequestsHonest ==
  /\ handler \in [WebWorkers -> {"idle", "get_save", "get_reply", "put_post", "put_save"}]
  /\ submission \in [WebWorkers -> Row \cup {NoSubmission}]
  /\ \A w \in WebWorkers : handler[w] # "idle" =>
       /\ submission[w] \in Row
       /\ Honest(submission[w], failedReplies[submission[w].id] + Pull!OwnFailure(w))
       /\ handler[w] = "put_save" /\ submission[w].lms_ack => submission[w].retired

PutResultsLock ==
  /\ lock \in [Ids -> WebWorkers \cup {NoOwner}]
  /\ \A w \in WebWorkers : Pull!HoldsLock(w) => lock[submission[w].id] = w

SubmitsNamed ==
  /\ submitter \in [WebWorkers -> {"idle", "invalidated", "inserted"}]
  /\ request \in [WebWorkers -> Lms!Request \cup {NoRequest}]
  /\ \A w \in WebWorkers : submitter[w] = "invalidated" => request[w] \in Lms!Request

WorkersHonest ==
  /\ worker \in [Workers -> Push!Running \cup {"failed", "killed"}]
  /\ delivery \in [Workers -> Row \cup {NoSubmission}]
  /\ \A p \in Workers : worker[p] \in {"grading", "graded", "ungraded", "saving"} =>
       LET row == delivery[p]
           own == IF worker[p] = "ungraded" THEN 1 ELSE 0 IN
         /\ row \in Row
         /\ Honest(row, failedReplies[row.id])
         /\ row.num_failures + own <= failedReplies[row.id] + ungraded[row.id]
         /\ worker[p] = "saving" => row.retired

CommandsHonest ==
  /\ job \in [Commands -> Jobs \cup {NoJob}]
  /\ snapshot \in [Commands -> SUBSET Row]
  /\ current \in [Commands -> Row \cup {NoSubmission}]
  /\ \A c \in Commands :
       /\ \A row \in snapshot[c] :
            /\ Honest(row, failedReplies[row.id])
            /\ Cmd!Has(c, {"failed"}) => row.num_failures # 0
       /\ current[c] # NoSubmission =>
            /\ current[c] \in Row /\ job[c] # NoJob
            /\ Honest(current[c], failedReplies[current[c].id])
            /\ current[c].retired \/ (Cmd!Has(c, {"failed"}) /\ ~current[c].lms_ack)

XInv ==
  /\ RowsHonest
  /\ RequestsHonest
  /\ PutResultsLock
  /\ SubmitsNamed
  /\ WorkersHonest
  /\ CommandsHonest

-----------------------------------------------------------------------------
(* What rows are judged by only grows, and so what they claim stays true. *)

Grows ==
  /\ failedReplies' \in [Ids -> Nat] /\ \A s \in Ids : failedReplies[s] <= failedReplies'[s]
  /\ ungraded' \in [Ids -> Nat] /\ \A s \in Ids : ungraded[s] <= ungraded'[s]
  /\ DOMAIN callback \subseteq DOMAIN callback'
  /\ acked \subseteq acked'
  /\ reported \subseteq reported'
  /\ accounted \subseteq accounted'
  /\ superseded \subseteq superseded'

(* Honest, of a row of before a step, after the step. *)
HonestNext(row, failed) ==
  /\ row.id \in DOMAIN callback'
  /\ row.num_failures <= failed \/ row.id \in reported'
  /\ row.num_failures <= failed + ungraded'[row.id]
  /\ row.lms_ack => row.id \in acked'
  /\ row.retired => row.id \in Told' \/ failed > MAX_NUMBER_OF_FAILURES

LEMMA RowTypes ==
  ASSUME NEW row \in Row
  PROVE  /\ row.id \in Ids /\ row.num_failures \in Nat
         /\ row.lms_ack \in BOOLEAN /\ row.retired \in BOOLEAN
         /\ row.queue_name \in Queues
  BY DEF Row

LEMMA HonestStays ==
  ASSUME XInv, Grows, NEW row \in Row, NEW m \in Nat, NEW n \in Nat, m <= n, Honest(row, m)
  PROVE  HonestNext(row, n)
<1>1. row.id \in Ids /\ row.num_failures \in Nat
  BY RowTypes
<1>2. ungraded[row.id] \in Nat /\ ungraded'[row.id] \in Nat /\ ungraded[row.id] <= ungraded'[row.id]
  BY <1>1 DEF XInv, RowsHonest, Grows
<1>3. Told \subseteq Told'
  BY DEF Grows, Told
<1>4. row.id \in DOMAIN callback' /\ (row.lms_ack => row.id \in acked')
  BY DEF Grows, Honest
<1>5. row.num_failures <= n \/ row.id \in reported'
  BY <1>1 DEF Grows, Honest
<1>6. row.num_failures <= n + ungraded'[row.id]
  BY <1>1, <1>2 DEF Honest
<1>7. row.retired => row.id \in Told' \/ n > MAX_NUMBER_OF_FAILURES
  BY <1>3, MaxFailuresAssumption DEF Honest
<1> QED
  BY <1>4, <1>5, <1>6, <1>7 DEF HonestNext

(* The counts of a row before and after a step. *)
LEMMA CountTypes ==
  ASSUME XInv, Grows, NEW row \in Row
  PROVE  /\ failedReplies[row.id] \in Nat /\ failedReplies'[row.id] \in Nat
         /\ failedReplies[row.id] <= failedReplies'[row.id]
         /\ ungraded[row.id] \in Nat /\ ungraded'[row.id] \in Nat
         /\ ungraded[row.id] <= ungraded'[row.id]
  BY RowTypes DEF XInv, RowsHonest, Grows

-----------------------------------------------------------------------------
(* What a step of another component leaves alone *)

LEMMA KeepRows ==
  ASSUME XInv, Grows, now' \in Nat, UNCHANGED table
  PROVE  RowsHonest'
<1> SUFFICES ASSUME NEW s \in DOMAIN table
             PROVE  Honest(table[s], failedReplies[s])'
  BY DEF XInv, RowsHonest, Grows
<1>1. table[s] \in Row /\ table[s].id = s /\ Honest(table[s], failedReplies[s])
  BY DEF XInv, RowsHonest
<1>2. HonestNext(table[s], failedReplies'[s])
  BY <1>1, CountTypes, HonestStays
<1> QED
  BY <1>2 DEF HonestNext, Honest, Told

LEMMA KeepRequests ==
  ASSUME XInv, Grows, UNCHANGED <<handler, submission>>
  PROVE  RequestsHonest'
<1> SUFFICES ASSUME NEW w \in WebWorkers, handler[w] # "idle"
             PROVE  Honest(submission[w], failedReplies[submission[w].id] + Pull!OwnFailure(w))'
  BY DEF XInv, RequestsHonest
<1> DEFINE row == submission[w]  own == Pull!OwnFailure(w)
<1>1. row \in Row /\ Honest(row, failedReplies[row.id] + own)
  BY DEF XInv, RequestsHonest
<1>2. own \in Nat /\ own' = own
  BY DEF Pull!OwnFailure
<1>3. HonestNext(row, failedReplies'[row.id] + own)
  <2>1. /\ failedReplies[row.id] + own \in Nat /\ failedReplies'[row.id] + own \in Nat
        /\ failedReplies[row.id] + own <= failedReplies'[row.id] + own
    BY <1>1, <1>2, CountTypes
  <2> HIDE DEF own
  <2> QED
    BY <1>1, <2>1, HonestStays
<1> QED
  BY <1>2, <1>3 DEF HonestNext, Honest, Told

LEMMA KeepLocks ==
  ASSUME XInv, UNCHANGED <<lock, handler, submission>>
  PROVE  PutResultsLock'
  BY DEF XInv, PutResultsLock, Pull!HoldsLock, Pull!InPutResult

LEMMA KeepSubmits ==
  ASSUME XInv, UNCHANGED <<submitter, request>>
  PROVE  SubmitsNamed'
  BY DEF XInv, SubmitsNamed

LEMMA KeepWorkers ==
  ASSUME XInv, Grows, UNCHANGED <<worker, delivery>>
  PROVE  WorkersHonest'
<1> SUFFICES ASSUME NEW p \in Workers, worker[p] \in {"grading", "graded", "ungraded", "saving"}
             PROVE  /\ Honest(delivery[p], failedReplies[delivery[p].id])'
                    /\ delivery[p].num_failures + (IF worker[p] = "ungraded" THEN 1 ELSE 0)
                         <= failedReplies'[delivery[p].id] + ungraded'[delivery[p].id]
  BY DEF XInv, WorkersHonest
<1> DEFINE row == delivery[p]
<1>1. /\ row \in Row /\ Honest(row, failedReplies[row.id])
      /\ row.num_failures + (IF worker[p] = "ungraded" THEN 1 ELSE 0)
           <= failedReplies[row.id] + ungraded[row.id]
  BY DEF XInv, WorkersHonest
<1>2. HonestNext(row, failedReplies'[row.id])
  BY <1>1, CountTypes, HonestStays
<1>3. row.num_failures + (IF worker[p] = "ungraded" THEN 1 ELSE 0)
        <= failedReplies'[row.id] + ungraded'[row.id]
  BY <1>1, CountTypes, RowTypes
<1> QED
  BY <1>2, <1>3 DEF HonestNext, Honest, Told

LEMMA KeepCommands ==
  ASSUME XInv, Grows, UNCHANGED <<job, snapshot, current>>
  PROVE  CommandsHonest'
<1>1. ASSUME NEW row \in Row, Honest(row, failedReplies[row.id])
      PROVE  HonestNext(row, failedReplies'[row.id])
  BY <1>1, CountTypes, HonestStays
<1>2. ASSUME NEW c \in Commands, NEW row \in snapshot[c]
      PROVE  /\ HonestNext(row, failedReplies'[row.id])
             /\ Cmd!Has(c, {"failed"})' => row.num_failures # 0
  BY <1>1, <1>2 DEF XInv, CommandsHonest, Cmd!Has
<1>3. ASSUME NEW c \in Commands, current[c] # NoSubmission
      PROVE  /\ HonestNext(current[c], failedReplies'[current[c].id])
             /\ current[c] \in Row /\ job[c] # NoJob
             /\ current[c].retired \/ (Cmd!Has(c, {"failed"})' /\ ~current[c].lms_ack)
  BY <1>1, <1>3 DEF XInv, CommandsHonest, Cmd!Has
<1> QED
  BY <1>2, <1>3 DEF XInv, CommandsHonest, HonestNext, Honest, Told

-----------------------------------------------------------------------------
(* What a step of one process establishes *)

(* Each instance of Submission's clients has the same save(). *)
LEMMA SameSave ==
  ASSUME NEW row
  PROVE  /\ Pull!Saved(row) = Saved(row) /\ Push!Saved(row) = Saved(row)
         /\ Lms!Saved(row) = Saved(row) /\ Cmd!Saved(row) = Saved(row)
  BY DEF Saved, Stored, Pull!Saved, Pull!Stored, Push!Saved, Push!Stored,
         Lms!Saved, Lms!Stored, Cmd!Saved, Cmd!Stored

(* save() writes a row like the one it is given, and no other. *)
LEMMA SavedRow ==
  ASSUME NEW row \in Row, now \in Nat
  PROVE  /\ DOMAIN Saved(row) = DOMAIN table \cup {row.id}
         /\ Saved(row)[row.id] \in Row /\ Saved(row)[row.id].id = row.id
         /\ Saved(row)[row.id].num_failures = row.num_failures
         /\ Saved(row)[row.id].lms_ack = row.lms_ack
         /\ Saved(row)[row.id].retired = row.retired
         /\ Saved(row)[row.id].pullkey = row.pullkey
         /\ \A s \in DOMAIN table : s # row.id => Saved(row)[s] = table[s]
<1>1. /\ Stored(row) \in Row /\ Stored(row).id = row.id /\ Stored(row).pullkey = row.pullkey
      /\ Stored(row).num_failures = row.num_failures
      /\ Stored(row).lms_ack = row.lms_ack /\ Stored(row).retired = row.retired
  BY DEF Stored, Row
<1> QED
  BY <1>1 DEF Saved

LEMMA SaveKeepsRows ==
  ASSUME XInv, Grows, now' \in Nat, NEW row \in Row, HonestNext(row, failedReplies'[row.id]),
         table' = Saved(row)
  PROVE  RowsHonest'
<1>1. /\ DOMAIN table' = DOMAIN table \cup {row.id}
      /\ table'[row.id] \in Row /\ table'[row.id].id = row.id
      /\ table'[row.id].num_failures = row.num_failures
      /\ table'[row.id].lms_ack = row.lms_ack /\ table'[row.id].retired = row.retired
      /\ \A s \in DOMAIN table : s # row.id => table'[s] = table[s]
  BY SavedRow DEF XInv, RowsHonest
<1>2. ASSUME NEW s \in DOMAIN table, s # row.id
      PROVE  table'[s] \in Row /\ table'[s].id = s /\ Honest(table[s], failedReplies[s])'
  <2>1. table[s] \in Row /\ table[s].id = s /\ Honest(table[s], failedReplies[s])
    BY DEF XInv, RowsHonest
  <2>2. HonestNext(table[s], failedReplies'[s])
    BY <2>1, CountTypes, HonestStays
  <2> QED
    BY <1>1, <1>2, <2>1, <2>2 DEF HonestNext, Honest, Told
<1>3. Honest(table[row.id], failedReplies[row.id])'
  BY <1>1 DEF HonestNext, Honest, Told
<1>4. DOMAIN table' \subseteq Ids
  BY <1>1, RowTypes DEF XInv, RowsHonest
<1> QED
  BY <1>1, <1>2, <1>3, <1>4 DEF RowsHonest, Grows

LEMMA OneRequest ==
  ASSUME XInv, Grows, NEW w \in WebWorkers, NEW row \in Row \cup {NoSubmission},
         NEW point \in {"idle", "get_save", "get_reply", "put_post", "put_save"},
         handler' = [handler EXCEPT ![w] = point],
         submission' = [submission EXCEPT ![w] = row],
         point # "idle" =>
           /\ row \in Row
           /\ HonestNext(row, failedReplies'[row.id]
                                + IF point = "put_save" /\ ~row.lms_ack THEN 1 ELSE 0)
           /\ point = "put_save" /\ row.lms_ack => row.retired
  PROVE  RequestsHonest'
<1> SUFFICES ASSUME NEW v \in WebWorkers, handler'[v] # "idle"
             PROVE  /\ submission'[v] \in Row
                    /\ Honest(submission[v], failedReplies[submission[v].id] + Pull!OwnFailure(v))'
                    /\ handler'[v] = "put_save" /\ submission'[v].lms_ack
                         => submission'[v].retired
  BY DEF XInv, RequestsHonest
<1>1. CASE v = w
  BY <1>1 DEF XInv, RequestsHonest, Pull!OwnFailure, HonestNext, Honest, Told
<1>2. CASE v # w
  <2> DEFINE copy == submission[v]  own == Pull!OwnFailure(v)
  <2>1. handler'[v] = handler[v] /\ submission'[v] = copy /\ own' = own /\ own \in Nat
    BY <1>2 DEF XInv, RequestsHonest, Pull!OwnFailure
  <2>2. /\ copy \in Row /\ Honest(copy, failedReplies[copy.id] + own)
        /\ handler[v] = "put_save" /\ copy.lms_ack => copy.retired
    BY <2>1 DEF XInv, RequestsHonest
  <2>3. HonestNext(copy, failedReplies'[copy.id] + own)
    <3>1. /\ failedReplies[copy.id] + own \in Nat /\ failedReplies'[copy.id] + own \in Nat
          /\ failedReplies[copy.id] + own <= failedReplies'[copy.id] + own
      BY <2>1, <2>2, CountTypes
    <3> HIDE DEF own
    <3> QED
      BY <2>2, <3>1, HonestStays
  <2>4. Honest(submission[v], failedReplies[submission[v].id] + own)'
    BY <2>1, <2>3 DEF HonestNext, Honest, Told
  <2> QED
    BY <2>1, <2>2, <2>4
<1> QED
  BY <1>1, <1>2

LEMMA OneWorker ==
  ASSUME XInv, Grows, NEW p \in Workers, NEW row \in Row \cup {NoSubmission},
         NEW point \in {"waiting", "grading", "graded", "ungraded", "saving", "failed", "killed"},
         worker' = [worker EXCEPT ![p] = point],
         delivery' = [delivery EXCEPT ![p] = row],
         point \in {"grading", "graded", "ungraded", "saving"} =>
           /\ row \in Row
           /\ HonestNext(row, failedReplies'[row.id])
           /\ row.num_failures + (IF point = "ungraded" THEN 1 ELSE 0)
                <= failedReplies'[row.id] + ungraded'[row.id]
           /\ point = "saving" => row.retired
  PROVE  WorkersHonest'
<1>1. /\ worker' \in [Workers -> Push!Running \cup {"failed", "killed"}]
      /\ delivery' \in [Workers -> Row \cup {NoSubmission}]
  BY DEF XInv, WorkersHonest, Push!Running
<1> SUFFICES ASSUME NEW r \in Workers, worker'[r] \in {"grading", "graded", "ungraded", "saving"}
             PROVE  /\ delivery'[r] \in Row
                    /\ Honest(delivery[r], failedReplies[delivery[r].id])'
                    /\ delivery'[r].num_failures + (IF worker'[r] = "ungraded" THEN 1 ELSE 0)
                         <= failedReplies'[delivery'[r].id] + ungraded'[delivery'[r].id]
                    /\ worker'[r] = "saving" => delivery'[r].retired
  BY <1>1 DEF WorkersHonest
<1>2. CASE r = p
  BY <1>2 DEF XInv, WorkersHonest, HonestNext, Honest, Told
<1>3. CASE r # p
  <2> DEFINE copy == delivery[r]
  <2>1. worker'[r] = worker[r] /\ delivery'[r] = copy
    BY <1>3 DEF XInv, WorkersHonest
  <2>2. /\ copy \in Row /\ Honest(copy, failedReplies[copy.id])
        /\ copy.num_failures + (IF worker[r] = "ungraded" THEN 1 ELSE 0)
             <= failedReplies[copy.id] + ungraded[copy.id]
        /\ worker[r] = "saving" => copy.retired
    BY <2>1 DEF XInv, WorkersHonest
  <2>3. HonestNext(copy, failedReplies'[copy.id])
    BY <2>2, CountTypes, HonestStays
  <2>4. copy.num_failures + (IF worker[r] = "ungraded" THEN 1 ELSE 0)
          <= failedReplies'[copy.id] + ungraded'[copy.id]
    BY <2>2, CountTypes, RowTypes
  <2>5. Honest(delivery[r], failedReplies[delivery[r].id])'
    BY <2>1, <2>3 DEF HonestNext, Honest, Told
  <2> QED
    BY <2>1, <2>2, <2>4, <2>5
<1> QED
  BY <1>2, <1>3

LEMMA OneCommand ==
  ASSUME XInv, Grows, NEW c \in Commands, NEW j \in Jobs \cup {NoJob},
         NEW rows \in SUBSET Row, NEW row \in Row \cup {NoSubmission},
         job' = [job EXCEPT ![c] = j],
         snapshot' = [snapshot EXCEPT ![c] = rows],
         current' = [current EXCEPT ![c] = row],
         \A r \in rows :
           /\ HonestNext(r, failedReplies'[r.id])
           /\ j # NoJob /\ j.kind = "failed" => r.num_failures # 0,
         row # NoSubmission =>
           /\ row \in Row /\ j # NoJob
           /\ HonestNext(row, failedReplies'[row.id])
           /\ row.retired \/ (j.kind = "failed" /\ ~row.lms_ack)
  PROVE  CommandsHonest'
<1>1. /\ job' \in [Commands -> Jobs \cup {NoJob}]
      /\ snapshot' \in [Commands -> SUBSET Row]
      /\ current' \in [Commands -> Row \cup {NoSubmission}]
  BY DEF XInv, CommandsHonest
<1>2. ASSUME NEW r \in Row, Honest(r, failedReplies[r.id])
      PROVE  HonestNext(r, failedReplies'[r.id])
  BY <1>2, CountTypes, HonestStays
<1>3. ASSUME NEW d \in Commands, NEW r \in snapshot'[d]
      PROVE  /\ HonestNext(r, failedReplies'[r.id])
             /\ Cmd!Has(d, {"failed"})' => r.num_failures # 0
  <2>1. CASE d = c
    BY <1>3, <2>1 DEF XInv, CommandsHonest, Cmd!Has
  <2>2. CASE d # c
    BY <1>2, <1>3, <2>2 DEF XInv, CommandsHonest, Cmd!Has
  <2> QED
    BY <2>1, <2>2
<1>4. ASSUME NEW d \in Commands, current'[d] # NoSubmission
      PROVE  /\ current'[d] \in Row /\ job'[d] # NoJob
             /\ HonestNext(current'[d], failedReplies'[current'[d].id])
             /\ current'[d].retired \/ (Cmd!Has(d, {"failed"})' /\ ~current'[d].lms_ack)
  <2>1. CASE d = c
    BY <1>4, <2>1 DEF XInv, CommandsHonest, Cmd!Has
  <2>2. CASE d # c
    BY <1>2, <1>4, <2>2 DEF XInv, CommandsHonest, Cmd!Has
  <2> QED
    BY <2>1, <2>2
<1> QED
  BY <1>1, <1>3, <1>4 DEF CommandsHonest, HonestNext, Honest, Told

-----------------------------------------------------------------------------
(* Nothing but the pull interface touches requests and their locks, and so   *)
(* on: what each kind of step leaves to the lemmas above.                    *)

LEMMA GrowsIfSame ==
  ASSUME XInv, failedReplies' = failedReplies, ungraded' = ungraded, callback' = callback,
         acked \subseteq acked', reported \subseteq reported',
         accounted \subseteq accounted', superseded \subseteq superseded'
  PROVE  Grows
  BY DEF XInv, RowsHonest, Grows

LEMMA InitXInv == Init => XInv
<1> SUFFICES ASSUME Init PROVE XInv
  OBVIOUS
<1> USE DEF Init, Pull!PullInit, Lms!SubmitInit, Push!PushInit, Cmd!CommandInit
<1>1. RowsHonest
  BY DEF RowsHonest
<1>2. RequestsHonest /\ PutResultsLock
  BY DEF RequestsHonest, PutResultsLock, Pull!HoldsLock, Pull!InPutResult
<1>3. SubmitsNamed
  BY DEF SubmitsNamed
<1>4. WorkersHonest
  BY DEF WorkersHonest, Push!Running
<1>5. CommandsHonest
  BY DEF CommandsHonest
<1> QED
  BY <1>1, <1>2, <1>3, <1>4, <1>5 DEF XInv

-----------------------------------------------------------------------------
(* Steps of the pull interface *)

(* A pull step changes the table, the locks, one request and its counts. *)
LEMMA PullQuiet ==
  ASSUME XInv, NEW w \in WebWorkers, Pulls(w)
  PROVE  /\ UNCHANGED <<submitter, request, callback, worker, delivery, reported,
                        job, snapshot, current, accounted, superseded, ungraded>>
         /\ now' = now /\ now \in Nat
  BY DEF Pulls, submitVars, pushVars, commandVars, historyVars, XInv, RowsHonest,
         Pull!Get, Pull!Put, Pull!GetSubmissionRead, Pull!GetSubmissionEmpty,
         Pull!GetSubmissionSave, Pull!GetSubmissionReply, Pull!GetSubmissionFails,
         Pull!GetSubmissionCommit, Pull!PutResultLock, Pull!PutResultRejected,
         Pull!PutResultPost, Pull!PutResultSave, Pull!RequestAborts,
         Pull!vars, Pull!tableVars, tableVars

LEMMA ReadStep ==
  ASSUME XInv, NEW w \in WebWorkers, Pulls(w), Pull!GetSubmissionRead(w)
  PROVE  XInv'
<1>1. PICK s \in DOMAIN table, k \in Keys :
        Pull!Serves(w, "get_save", [table[s] EXCEPT !.pull_time = now, !.pullkey = k])
  BY DEF Pull!GetSubmissionRead, Pull!get_single_unretired_submission, Pull!Oldest, Pull!Pullable
<1> DEFINE new == [table[s] EXCEPT !.pull_time = now, !.pullkey = k]
<1>2. UNCHANGED <<table, lock, acked, failedReplies>> /\ handler[w] = "idle"
  BY DEF Pull!GetSubmissionRead, Pull!tableVars
<1>3. Grows
  BY <1>2, PullQuiet, GrowsIfSame
<1>4. table[s] \in Row /\ table[s].id = s /\ Honest(table[s], failedReplies[s]) /\ now \in Nat
  BY DEF XInv, RowsHonest
<1>5. HonestNext(table[s], failedReplies'[s])
  BY <1>3, <1>4, CountTypes, HonestStays
<1>6. /\ new \in Row /\ new.id = s /\ new.num_failures = table[s].num_failures
      /\ new.lms_ack = table[s].lms_ack /\ new.retired = table[s].retired
  BY <1>4 DEF Row, Times
<1> HIDE DEF new
<1>7. HonestNext(new, failedReplies'[new.id])
  BY <1>4, <1>5, <1>6 DEF HonestNext
<1>8. handler' = [handler EXCEPT ![w] = "get_save"] /\ submission' = [submission EXCEPT ![w] = new]
  BY <1>1 DEF new, Pull!Serves
<1>9. RequestsHonest'
  <2>1. HonestNext(new, failedReplies'[new.id] + 0)
    BY <1>3, <1>6, <1>7, CountTypes
  <2> QED
    BY <1>3, <1>6, <1>8, <2>1, OneRequest
<1>10. PutResultsLock'
  BY <1>2, <1>8
     DEF XInv, RequestsHonest, PutResultsLock, Pull!HoldsLock, Pull!InPutResult
<1> QED
  BY <1>2, <1>3, <1>9, <1>10, PullQuiet, KeepRows, KeepSubmits, KeepWorkers, KeepCommands DEF XInv

(* A request ends, and with it the lock it had. *)
LEMMA EndedRequest ==
  ASSUME XInv, Grows, NEW w \in WebWorkers, Pull!Releases(w), Pull!Replies(w)
  PROVE  RequestsHonest' /\ PutResultsLock'
<1>1. /\ handler' = [handler EXCEPT ![w] = "idle"]
      /\ submission' = [submission EXCEPT ![w] = NoSubmission]
      /\ lock' = [s \in Ids |-> IF lock[s] = w THEN NoOwner ELSE lock[s]]
  BY DEF Pull!Releases, Pull!Replies, Pull!Serves, XInv, PutResultsLock
<1>2. RequestsHonest'
  BY <1>1, OneRequest
<1>3. PutResultsLock'
  <2> SUFFICES ASSUME NEW v \in WebWorkers, Pull!HoldsLock(v)'
               PROVE  lock'[submission'[v].id] = v
    BY <1>1 DEF XInv, PutResultsLock
  <2>1. v # w /\ submission'[v] = submission[v] /\ handler'[v] = handler[v]
    BY <1>1 DEF XInv, RequestsHonest, Pull!HoldsLock, Pull!InPutResult
  <2>2. lock[submission[v].id] = v
    BY <2>1 DEF XInv, PutResultsLock, Pull!HoldsLock, Pull!InPutResult
  <2>3. submission[v].id \in Ids
    BY <2>1, RowTypes DEF XInv, RequestsHonest, Pull!HoldsLock, Pull!InPutResult
  <2> QED
    BY <1>1, <2>1, <2>2, <2>3
<1> QED
  BY <1>2, <1>3

(* What put_result or get_submission is about to save. *)
LEMMA HeldRow ==
  ASSUME XInv, NEW w \in WebWorkers, handler[w] # "idle"
  PROVE  /\ submission[w] \in Row /\ submission[w].id \in Ids
         /\ Honest(submission[w], failedReplies[submission[w].id] + Pull!OwnFailure(w))
         /\ Pull!OwnFailure(w) \in Nat
         /\ handler[w] # "put_save" => Pull!OwnFailure(w) = 0
  BY RowTypes DEF XInv, RequestsHonest, Pull!OwnFailure

LEMMA SaveStep ==
  ASSUME XInv, NEW w \in WebWorkers, Pulls(w), Pull!GetSubmissionSave(w)
  PROVE  XInv'
<1> DEFINE row == submission[w]
<1>1. /\ handler[w] = "get_save" /\ lock[row.id] = NoOwner
      /\ handler' = [handler EXCEPT ![w] = "get_reply"]
      /\ submission' = [submission EXCEPT ![w] = row]
      /\ UNCHANGED <<acked, failedReplies>>
  BY DEF Pull!GetSubmissionSave, Pull!Serves, Pull!Unlocked
<1>2. Grows
  BY <1>1, PullQuiet, GrowsIfSame
<1>3. row \in Row /\ row.id \in Ids /\ HonestNext(row, failedReplies'[row.id])
  <2>1. row \in Row /\ row.id \in Ids /\ Honest(row, failedReplies[row.id] + 0)
    BY <1>1, HeldRow
  <2>2. Honest(row, failedReplies[row.id])
    BY <1>2, <2>1, CountTypes
  <2> QED
    BY <1>2, <2>1, <2>2, CountTypes, HonestStays
<1>4. RequestsHonest'
  <2>1. HonestNext(row, failedReplies'[row.id] + 0)
    BY <1>2, <1>3, CountTypes
  <2> QED
    BY <1>1, <1>2, <1>3, <2>1, OneRequest
<1>5. RowsHonest'
  <2>1. table' = table \/ table' = Saved(row)
    BY SameSave DEF Pull!GetSubmissionSave
  <2> QED
    BY <1>2, <1>3, <2>1, PullQuiet, KeepRows, SaveKeepsRows
<1>6. PutResultsLock'
  <2>1. lock' = IF ATOMIC_REQUESTS THEN [lock EXCEPT ![row.id] = w] ELSE lock
    BY DEF Pull!GetSubmissionSave, Pull!Locks
  <2>2. lock' \in [Ids -> WebWorkers \cup {NoOwner}]
    BY <2>1 DEF XInv, PutResultsLock
  <2>3. ASSUME NEW v \in WebWorkers, Pull!HoldsLock(v)'
        PROVE  lock'[submission'[v].id] = v
    <3>1. CASE v = w
      BY <3>1, <2>3, <1>1, <1>3, <2>1
         DEF XInv, RequestsHonest, PutResultsLock, Pull!HoldsLock, Pull!InPutResult
    <3>2. CASE v # w
      <4>1. submission'[v] = submission[v] /\ lock[submission[v].id] = v
        BY <3>2, <2>3, <1>1
           DEF XInv, RequestsHonest, PutResultsLock, Pull!HoldsLock, Pull!InPutResult
      <4>2. submission[v].id # row.id
        BY <4>1, <1>1, HandlerAssumption
      <4> QED
        BY <4>1, <4>2, <2>1, <1>3 DEF XInv, PutResultsLock
    <3> QED
      BY <3>1, <3>2
  <2> QED
    BY <2>2, <2>3 DEF PutResultsLock
<1> QED
  BY <1>2, <1>4, <1>5, <1>6, PullQuiet, KeepSubmits, KeepWorkers, KeepCommands DEF XInv

LEMMA CommitStep ==
  ASSUME XInv, NEW w \in WebWorkers, Pulls(w), Pull!GetSubmissionCommit(w)
  PROVE  XInv'
<1> DEFINE row == submission[w]
<1>1. handler[w] = "get_reply" /\ UNCHANGED <<acked, failedReplies>>
  BY DEF Pull!GetSubmissionCommit
<1>2. Grows
  BY <1>1, PullQuiet, GrowsIfSame
<1>3. row \in Row /\ HonestNext(row, failedReplies'[row.id])
  <2>1. row \in Row /\ Honest(row, failedReplies[row.id] + 0)
    BY <1>1, HeldRow
  <2>2. Honest(row, failedReplies[row.id])
    BY <1>2, <2>1, CountTypes
  <2> QED
    BY <1>2, <2>1, <2>2, CountTypes, HonestStays
<1>4. RowsHonest'
  <2>1. table' = table \/ table' = Saved(row)
    BY SameSave DEF Pull!GetSubmissionCommit
  <2> QED
    BY <1>2, <1>3, <2>1, PullQuiet, KeepRows, SaveKeepsRows
<1>5. RequestsHonest' /\ PutResultsLock'
  BY <1>2, EndedRequest DEF Pull!GetSubmissionCommit
<1> QED
  BY <1>2, <1>4, <1>5, PullQuiet, KeepSubmits, KeepWorkers, KeepCommands DEF XInv

LEMMA LockStep ==
  ASSUME XInv, NEW w \in WebWorkers, Pulls(w), NEW t \in tickets, Pull!PutResultLock(w, t)
  PROVE  XInv'
<1> DEFINE s == t.sid
<1>1. /\ handler[w] = "idle" /\ s \in DOMAIN table /\ lock[s] = NoOwner
      /\ handler' = [handler EXCEPT ![w] = "put_post"]
      /\ submission' = [submission EXCEPT ![w] = table[s]]
      /\ lock' = [lock EXCEPT ![s] = w]
      /\ UNCHANGED <<table, acked, failedReplies>>
  BY DEF Pull!PutResultLock, Pull!Unlocked, Pull!Locks, Pull!Serves
<1>2. Grows
  BY <1>1, PullQuiet, GrowsIfSame
<1>3. /\ table[s] \in Row /\ table[s].id = s /\ s \in Ids
      /\ HonestNext(table[s], failedReplies'[s])
  <2>1. table[s] \in Row /\ table[s].id = s /\ s \in Ids /\ Honest(table[s], failedReplies[s])
    BY <1>1 DEF XInv, RowsHonest
  <2> QED
    BY <1>2, <2>1, CountTypes, HonestStays
<1>4. RequestsHonest'
  <2>1. HonestNext(table[s], failedReplies'[table[s].id] + 0)
    BY <1>2, <1>3, CountTypes
  <2> QED
    BY <1>1, <1>2, <1>3, <2>1, OneRequest
<1>5. PutResultsLock'
  <2>1. lock' \in [Ids -> WebWorkers \cup {NoOwner}]
    BY <1>1 DEF XInv, PutResultsLock
  <2>2. ASSUME NEW v \in WebWorkers, Pull!HoldsLock(v)'
        PROVE  lock'[submission'[v].id] = v
    <3>1. CASE v = w
      BY <3>1, <1>1, <1>3 DEF XInv, RequestsHonest, PutResultsLock
    <3>2. CASE v # w
      <4>1. submission'[v] = submission[v] /\ lock[submission[v].id] = v
        BY <3>2, <2>2, <1>1
           DEF XInv, RequestsHonest, PutResultsLock, Pull!HoldsLock, Pull!InPutResult
      <4>2. submission[v].id # s
        BY <4>1, <1>1, HandlerAssumption
      <4> QED
        BY <4>1, <4>2, <1>1, <1>3 DEF XInv, PutResultsLock
    <3> QED
      BY <3>1, <3>2
  <2> QED
    BY <2>1, <2>2 DEF PutResultsLock
<1> QED
  BY <1>1, <1>2, <1>4, <1>5, PullQuiet, KeepRows, KeepSubmits, KeepWorkers, KeepCommands DEF XInv

(* The instance put_result will save, its outcome set. *)
LEMMA GradedRow ==
  ASSUME NEW row \in Row, NEW success \in BOOLEAN
  PROVE  LET new == Pull!Graded(row, success)
         IN  /\ new \in Row
             /\ new.id = row.id
             /\ new.num_failures = row.num_failures + IF success THEN 0 ELSE 1
             /\ new.lms_ack = success
             /\ new.retired <=> success \/ new.num_failures > MAX_NUMBER_OF_FAILURES
<1>1. /\ Pull!FailuresAfter(row, success) \in Nat
      /\ Pull!FailuresAfter(row, success) = row.num_failures + IF success THEN 0 ELSE 1
  BY DEF Row, Pull!FailuresAfter
<1>2. /\ Pull!RetiredAfter(row, success) \in BOOLEAN
      /\ Pull!RetiredAfter(row, success)
           <=> success \/ Pull!FailuresAfter(row, success) > MAX_NUMBER_OF_FAILURES
  BY DEF Pull!RetiredAfter
<1> QED
  BY <1>1, <1>2 DEF Row, Pull!Graded

LEMMA PostStep ==
  ASSUME XInv, NEW w \in WebWorkers, Pulls(w), Pull!PutResultPost(w)
  PROVE  XInv'
<1>1. PICK success \in BOOLEAN :
        /\ Pull!Serves(w, "put_save", Pull!Graded(submission[w], success))
        /\ acked' = IF success THEN acked \cup {submission[w].id} ELSE acked
  BY DEF Pull!PutResultPost
<1> DEFINE row == submission[w]  new == Pull!Graded(row, success)
<1>2. handler[w] = "put_post" /\ UNCHANGED <<table, lock, failedReplies>>
  BY DEF Pull!PutResultPost
<1>3. Grows
  BY <1>1, <1>2, PullQuiet, GrowsIfSame
<1>4. row \in Row /\ row.id \in Ids /\ Honest(row, failedReplies[row.id])
  <2>1. row \in Row /\ row.id \in Ids /\ Honest(row, failedReplies[row.id] + 0)
    BY <1>2, HeldRow
  <2> QED
    BY <1>3, <2>1, CountTypes
<1>5. HonestNext(row, failedReplies'[row.id])
  BY <1>3, <1>4, CountTypes, HonestStays
<1>6. /\ new \in Row /\ new.id = row.id
      /\ new.num_failures = row.num_failures + IF success THEN 0 ELSE 1
      /\ new.lms_ack = success
      /\ new.retired <=> success \/ new.num_failures > MAX_NUMBER_OF_FAILURES
  BY <1>4, GradedRow
<1>7. /\ handler' = [handler EXCEPT ![w] = "put_save"]
      /\ submission' = [submission EXCEPT ![w] = new]
  BY <1>1 DEF Pull!Serves
<1>8. success => row.id \in acked'
  BY <1>1
<1> HIDE DEF new
<1>9. HonestNext(new, failedReplies'[new.id] + IF ~new.lms_ack THEN 1 ELSE 0)
  <2> DEFINE f == failedReplies'[row.id]  u == ungraded'[row.id]
  <2>1. f \in Nat /\ u \in Nat /\ row.num_failures \in Nat
    BY <1>3, <1>4, CountTypes, RowTypes
  <2>2. new.id \in DOMAIN callback' /\ (new.lms_ack => new.id \in acked')
    BY <1>5, <1>6, <1>8 DEF HonestNext
  <2>3. new.num_failures <= f + (IF ~success THEN 1 ELSE 0) \/ new.id \in reported'
    BY <1>5, <1>6, <2>1 DEF HonestNext
  <2>4. new.num_failures <= f + (IF ~success THEN 1 ELSE 0) + u
    BY <1>5, <1>6, <2>1 DEF HonestNext
  <2>5. new.retired => new.id \in Told' \/ f + (IF ~success THEN 1 ELSE 0) > MAX_NUMBER_OF_FAILURES
    <3>1. acked' \subseteq Told' /\ reported' \subseteq Told'
      BY DEF Told
    <3>2. CASE success
      BY <1>6, <1>8, <3>1, <3>2
    <3>3. CASE ~success
      BY <1>6, <2>1, <2>3, <3>1, <3>3, MaxFailuresAssumption
    <3> QED
      BY <3>2, <3>3
  <2> QED
    BY <1>6, <2>2, <2>3, <2>4, <2>5 DEF HonestNext
<1>10. RequestsHonest'
  BY <1>3, <1>6, <1>7, <1>9, OneRequest
<1>11. PutResultsLock'
  BY <1>2, <1>4, <1>6, <1>7
     DEF XInv, RequestsHonest, PutResultsLock, Pull!HoldsLock, Pull!InPutResult
<1> QED
  BY <1>2, <1>3, <1>10, <1>11, PullQuiet, KeepRows, KeepSubmits, KeepWorkers, KeepCommands DEF XInv

LEMMA PutSaveStep ==
  ASSUME XInv, NEW w \in WebWorkers, Pulls(w), Pull!PutResultSave(w)
  PROVE  XInv'
<1> DEFINE row == submission[w]
<1>1. /\ handler[w] = "put_save" /\ acked' = acked /\ table' = Saved(row)
      /\ failedReplies' = [failedReplies EXCEPT ![row.id] = IF row.lms_ack THEN @ ELSE @ + 1]
  BY SameSave DEF Pull!PutResultSave
<1>2. /\ row \in Row /\ row.id \in Ids
      /\ Honest(row, failedReplies[row.id] + Pull!OwnFailure(w))
  BY <1>1, HeldRow
<1>3. Grows
  BY <1>1, <1>2, PullQuiet DEF XInv, RowsHonest, Grows
<1>4. HonestNext(row, failedReplies'[row.id])
  <2>1. failedReplies'[row.id] = failedReplies[row.id] + Pull!OwnFailure(w)
    BY <1>1, <1>2 DEF XInv, RowsHonest, Pull!OwnFailure
  <2>2. failedReplies'[row.id] \in Nat
    BY <1>2, <1>3, CountTypes
  <2> QED
    BY <1>2, <1>3, <2>1, <2>2, HonestStays
<1>5. RowsHonest'
  BY <1>1, <1>2, <1>3, <1>4, PullQuiet, SaveKeepsRows
<1>6. RequestsHonest' /\ PutResultsLock'
  BY <1>3, EndedRequest DEF Pull!PutResultSave
<1> QED
  BY <1>3, <1>5, <1>6, PullQuiet, KeepSubmits, KeepWorkers, KeepCommands DEF XInv

LEMMA AbortStep ==
  ASSUME XInv, NEW w \in WebWorkers, Pulls(w), Pull!RequestAborts(w)
  PROVE  XInv'
<1>1. UNCHANGED <<table, acked, failedReplies>>
  BY DEF Pull!RequestAborts, Pull!RolledBack
<1>2. Grows
  BY <1>1, PullQuiet, GrowsIfSame
<1>3. RequestsHonest' /\ PutResultsLock'
  BY <1>2, EndedRequest DEF Pull!RequestAborts
<1> QED
  BY <1>1, <1>2, <1>3, PullQuiet, KeepRows, KeepSubmits, KeepWorkers, KeepCommands DEF XInv

(* A rejected result and a poll that finds nothing change no row and no copy. *)
LEMMA RejectedStep ==
  ASSUME XInv, NEW w \in WebWorkers, Pulls(w),
         UNCHANGED <<table, lock, acked, handler, submission, failedReplies>>
  PROVE  XInv'
<1>1. Grows
  BY PullQuiet, GrowsIfSame
<1> QED
  BY <1>1, PullQuiet, KeepRows, KeepRequests, KeepLocks, KeepSubmits, KeepWorkers, KeepCommands
     DEF XInv

LEMMA PullsStep ==
  ASSUME XInv, NEW w \in WebWorkers, Pulls(w)
  PROVE  XInv'
<1>1. CASE Pull!Get(w)
  <2>1. CASE Pull!GetSubmissionRead(w)
    BY <2>1, ReadStep
  <2>2. CASE Pull!GetSubmissionEmpty(w)
    BY <2>2, RejectedStep
       DEF Pull!GetSubmissionEmpty, Pull!vars, Pull!tableVars, Pull!pullVars
  <2>3. CASE Pull!GetSubmissionSave(w)
    BY <2>3, SaveStep
  <2>4. CASE Pull!GetSubmissionReply(w)
    BY <2>4, CommitStep DEF Pull!GetSubmissionReply
  <2> QED
    BY <1>1, <2>1, <2>2, <2>3, <2>4 DEF Pull!Get
<1>2. CASE Pull!Put(w)
  <2>1. ASSUME NEW t \in tickets, Pull!PutResultLock(w, t) PROVE XInv'
    BY <2>1, LockStep
  <2>2. ASSUME NEW t \in tickets, Pull!PutResultRejected(w, t) PROVE XInv'
    BY <2>2, RejectedStep DEF Pull!PutResultRejected, Pull!tableVars
  <2>3. CASE Pull!PutResultPost(w)
    BY <2>3, PostStep
  <2>4. CASE Pull!PutResultSave(w)
    BY <2>4, PutSaveStep
  <2> QED
    BY <1>2, <2>1, <2>2, <2>3, <2>4 DEF Pull!Put
<1>3. CASE Pull!GetSubmissionFails(w)
  BY <1>3, CommitStep DEF Pull!GetSubmissionFails
<1>4. CASE Pull!RequestAborts(w)
  BY <1>4, AbortStep
<1> QED
  BY <1>1, <1>2, <1>3, <1>4 DEF Pulls

(* A grader forgets, or time passes. *)
LEMMA OutsideStep ==
  ASSUME XInv, Forgets \/ Tick
  PROVE  XInv'
<1>1. UNCHANGED <<table, lock, acked, handler, submission, failedReplies,
                  submitter, request, callback, worker, delivery, reported,
                  job, snapshot, current, accounted, superseded, ungraded>>
  BY DEF Forgets, Tick, Pull!GraderForgets, pullVars, submitVars, pushVars, commandVars, historyVars
<1>2. now' \in Nat
  BY DEF Forgets, Tick, Pull!GraderForgets, XInv, RowsHonest
<1>3. Grows
  BY <1>1, GrowsIfSame
<1> QED
  BY <1>1, <1>2, <1>3, KeepRows, KeepRequests, KeepLocks, KeepSubmits, KeepWorkers, KeepCommands
     DEF XInv

-----------------------------------------------------------------------------
(* Steps of submit *)

LEMMA SubmitQuiet ==
  ASSUME XInv, NEW w \in WebWorkers, Submits(w)
  PROVE  /\ UNCHANGED <<lock, acked, handler, submission, failedReplies, worker, delivery,
                        reported, job, snapshot, current, accounted, ungraded>>
         /\ now' = now /\ now \in Nat
         /\ superseded \subseteq superseded'
  BY DEF Submits, pullVars, pushVars, commandVars, XInv, RowsHonest,
         Lms!Submit, Lms!Reject, Lms!Invalidate, Lms!Insert, Lms!Reply, Lms!SubmitAborts,
         Lms!vars, Lms!tableVars

LEMMA OneSubmit ==
  ASSUME XInv, NEW w \in WebWorkers, NEW r,
         NEW point \in {"idle", "invalidated", "inserted"},
         r \in Lms!Request \cup {NoRequest},
         point = "invalidated" => r \in Lms!Request,
         Lms!Serves(w, point, r)
  PROVE  SubmitsNamed'
  BY DEF XInv, SubmitsNamed, Lms!Serves

LEMMA InvalidateStep ==
  ASSUME XInv, NEW w \in WebWorkers, Submits(w), Lms!Invalidate(w)
  PROVE  XInv'
<1>1. PICK url \in CallbackUrls, q \in Queues :
        /\ table' = [s \in DOMAIN table |->
             [table[s] EXCEPT !.retired = @ \/ s \in Lms!Prior(Truncated[url])]]
        /\ Lms!Serves(w, "invalidated", [url |-> url, queue |-> q])
  BY DEF Lms!Invalidate
<1>2. callback' = callback
  BY DEF Lms!Invalidate
<1>3. Grows
  BY <1>2, SubmitQuiet, GrowsIfSame
<1>4. SubmitsNamed'
  <2>1. [url |-> url, queue |-> q] \in Lms!Request
    BY DEF Lms!Request
  <2> QED
    BY <1>1, <2>1, OneSubmit
<1>5. ASSUME NEW s \in DOMAIN table
      PROVE  table'[s] \in Row /\ table'[s].id = s /\ Honest(table[s], failedReplies[s])'
  <2>1. table[s] \in Row /\ table[s].id = s /\ Honest(table[s], failedReplies[s])
    BY DEF XInv, RowsHonest
  <2>2. HonestNext(table[s], failedReplies'[s])
    BY <1>3, <2>1, CountTypes, HonestStays
  <2>3. /\ table'[s] \in Row /\ table'[s].id = s
        /\ table'[s].num_failures = table[s].num_failures /\ table'[s].lms_ack = table[s].lms_ack
    BY <1>1, <2>1 DEF Row
  <2>4. table'[s].retired /\ ~table[s].retired => s \in superseded'
    BY DEF Submits
  <2>5. superseded' \subseteq Told'
    BY DEF Told
  <2> QED
    BY <2>1, <2>2, <2>3, <2>4, <2>5 DEF HonestNext, Honest, Told
<1>6. RowsHonest'
  BY <1>1, <1>3, <1>5, SubmitQuiet DEF XInv, RowsHonest, Grows
<1> QED
  BY <1>3, <1>4, <1>6, SubmitQuiet, KeepRequests, KeepLocks, KeepWorkers, KeepCommands DEF XInv

(* The row of a new submission claims nothing. *)
LEMMA InsertStep ==
  ASSUME XInv, NEW w \in WebWorkers, Submits(w), Lms!Insert(w)
  PROVE  XInv'
<1> DEFINE r == request[w]
<1>1. PICK s \in Ids \ DOMAIN callback :
        /\ table' = Lms!Saved(Lms!NewSubmission(s, r.queue, Truncated[r.url], now))
        /\ callback' = [x \in DOMAIN callback \cup {s} |-> IF x = s THEN r.url ELSE callback[x]]
        /\ Lms!Serves(w, "inserted", r)
  BY DEF Lms!Insert
<1> DEFINE row == Lms!NewSubmission(s, r.queue, Truncated[r.url], now)
<1>2. r \in Lms!Request /\ r.queue \in Queues /\ Truncated[r.url] \in Urls
  BY UrlsAssumption DEF Lms!Insert, Lms!Request, XInv, SubmitsNamed
<1>3. /\ row \in Row /\ row.id = s /\ row.num_failures = 0
      /\ row.lms_ack = FALSE /\ row.retired = FALSE
  BY <1>2 DEF Lms!NewSubmission, Row, Times, XInv, RowsHonest
<1> HIDE DEF row
<1>4. Grows
  BY <1>1, SubmitQuiet DEF Grows, XInv, RowsHonest
<1>5. HonestNext(row, failedReplies'[row.id])
  BY <1>1, <1>3, <1>4, CountTypes DEF HonestNext
<1>6. RowsHonest'
  <2>1. table' = Saved(row)
    BY <1>1, SameSave DEF row
  <2> QED
    BY <1>3, <1>4, <1>5, <2>1, SubmitQuiet, SaveKeepsRows
<1>7. SubmitsNamed'
  BY <1>1, <1>2, OneSubmit
<1> QED
  BY <1>4, <1>6, <1>7, SubmitQuiet, KeepRequests, KeepLocks, KeepWorkers, KeepCommands DEF XInv

LEMMA SubmitsStep ==
  ASSUME XInv, NEW w \in WebWorkers, Submits(w)
  PROVE  XInv'
<1>1. CASE Lms!Invalidate(w)
  BY <1>1, InvalidateStep
<1>2. CASE Lms!Insert(w)
  BY <1>2, InsertStep
<1>3. CASE Lms!Reject(w) \/ Lms!Reply(w) \/ Lms!SubmitAborts(w)
  <2>1. table' = table /\ callback' = callback
    BY <1>3 DEF Lms!Reject, Lms!Reply, Lms!SubmitAborts, Lms!vars, Lms!tableVars, Lms!submitVars
  <2>2. Grows
    BY <2>1, SubmitQuiet, GrowsIfSame
  <2>3. SubmitsNamed'
    <3>1. CASE Lms!Reject(w)
      BY <3>1, KeepSubmits DEF Lms!Reject, Lms!vars, Lms!submitVars
    <3>2. CASE Lms!Serves(w, "idle", NoRequest)
      BY <3>2, OneSubmit
    <3> QED
      BY <1>3, <3>1, <3>2 DEF Lms!Reply, Lms!SubmitAborts
  <2> QED
    BY <2>1, <2>2, <2>3, SubmitQuiet, KeepRows, KeepRequests, KeepLocks, KeepWorkers, KeepCommands
       DEF XInv
<1> QED
  BY <1>1, <1>2, <1>3 DEF Submits, Lms!Submit

-----------------------------------------------------------------------------
(* Steps of the push workers *)

LEMMA PushQuiet ==
  ASSUME XInv, NEW p \in Workers, Pushes(p)
  PROVE  /\ UNCHANGED <<lock, handler, submission, failedReplies, submitter, request, callback,
                        job, snapshot, current, accounted, superseded>>
         /\ now' = now /\ now \in Nat
         /\ acked \subseteq acked' /\ reported \subseteq reported'
  BY DEF Pushes, pullVars, submitVars, commandVars, XInv, RowsHonest,
         Push!Deliver, Push!Fetch, Push!FetchNothing, Push!Grade, Push!Report, Push!Save,
         Push!Crash, Push!Kill, Push!Monitor, Push!Restart, Push!Remove,
         Push!vars, Push!tableVars, Push!pushVars

LEMMA PushGrows ==
  ASSUME XInv, NEW p \in Workers, Pushes(p)
  PROVE  Grows
<1>1. ungraded' \in [Ids -> Nat] /\ \A s \in Ids : ungraded[s] <= ungraded'[s]
  <2> DEFINE id == delivery[p].id
  <2>1. ungraded \in [Ids -> Nat]
    BY DEF XInv, RowsHonest
  <2>2. ungraded' = ungraded \/ ungraded' = [ungraded EXCEPT ![id] = @ + 1]
    BY DEF Pushes
  <2> HIDE DEF id
  <2> QED
    BY <2>1, <2>2
<1> QED
  BY <1>1, PushQuiet DEF Grows, XInv, RowsHonest

(* What a worker has in hand. *)
LEMMA DeliveredRow ==
  ASSUME XInv, NEW p \in Workers, Pushes(p),
         worker[p] \in {"grading", "graded", "ungraded", "saving"}
  PROVE  /\ delivery[p] \in Row /\ delivery[p].id \in Ids
         /\ HonestNext(delivery[p], failedReplies'[delivery[p].id])
<1>1. delivery[p] \in Row /\ Honest(delivery[p], failedReplies[delivery[p].id])
  BY DEF XInv, WorkersHonest
<1> QED
  BY <1>1, PushGrows, CountTypes, HonestStays, RowTypes

LEMMA FetchStep ==
  ASSUME XInv, NEW p \in Workers, Pushes(p), Push!Fetch(p)
  PROVE  XInv'
<1>1. PICK s \in DOMAIN table : Push!Moves(p, "grading", [table[s] EXCEPT !.push_time = now])
  BY DEF Push!Fetch, Push!get_single_unpushed_submission, Push!Oldest, Push!Pushable
<1> DEFINE new == [table[s] EXCEPT !.push_time = now]
<1>2. Grows /\ table' = table
  BY PushGrows DEF Push!Fetch, Push!tableVars
<1>3. table[s] \in Row /\ table[s].id = s /\ Honest(table[s], failedReplies[s]) /\ now \in Nat
  BY DEF XInv, RowsHonest
<1>4. HonestNext(table[s], failedReplies'[s])
  BY <1>2, <1>3, CountTypes, HonestStays
<1>5. /\ new \in Row /\ new.id = s /\ new.num_failures = table[s].num_failures
      /\ new.lms_ack = table[s].lms_ack /\ new.retired = table[s].retired
  BY <1>3 DEF Row, Times
<1> HIDE DEF new
<1>6. HonestNext(new, failedReplies'[new.id])
  BY <1>3, <1>4, <1>5 DEF HonestNext
<1>7. WorkersHonest'
  <2>1. worker' = [worker EXCEPT ![p] = "grading"] /\ delivery' = [delivery EXCEPT ![p] = new]
    BY <1>1 DEF new, Push!Moves
  <2>2. new.num_failures + 0 <= failedReplies'[new.id] + ungraded'[new.id]
    BY <1>5, <1>6, RowTypes DEF HonestNext
  <2> QED
    BY <1>2, <1>5, <1>6, <2>1, <2>2, OneWorker
<1> QED
  BY <1>2, <1>7, PushQuiet, KeepRows, KeepRequests, KeepLocks, KeepSubmits, KeepCommands DEF XInv

LEMMA GradeStep ==
  ASSUME XInv, NEW p \in Workers, Pushes(p), Push!Grade(p)
  PROVE  XInv'
<1> DEFINE row == delivery[p]
<1>1. PICK outcome \in {"graded", "ungraded"} : Push!Moves(p, outcome, row)
  BY DEF Push!Grade
<1>2. Grows /\ table' = table /\ worker[p] = "grading"
  BY PushGrows DEF Push!Grade, Push!tableVars
<1>3. row \in Row /\ row.id \in Ids /\ HonestNext(row, failedReplies'[row.id])
  BY <1>2, DeliveredRow
<1>4. worker' = [worker EXCEPT ![p] = outcome] /\ delivery' = [delivery EXCEPT ![p] = row]
  BY <1>1 DEF Push!Moves
<1>5. row.num_failures + (IF outcome = "ungraded" THEN 1 ELSE 0)
        <= failedReplies'[row.id] + ungraded'[row.id]
  <2>1. row.num_failures \in Nat /\ row.num_failures <= failedReplies[row.id] + ungraded[row.id]
    BY <1>2, RowTypes DEF XInv, WorkersHonest, Honest
  <2>2. worker'[p] = outcome
    BY <1>4 DEF XInv, WorkersHonest
  <2>3. outcome = "ungraded" => ungraded'[row.id] = ungraded[row.id] + 1
    BY <1>2, <1>3, <2>2 DEF Pushes, XInv, RowsHonest
  <2>4. /\ failedReplies[row.id] \in Nat /\ failedReplies'[row.id] \in Nat
        /\ ungraded[row.id] \in Nat /\ ungraded'[row.id] \in Nat
        /\ failedReplies[row.id] <= failedReplies'[row.id] /\ ungraded[row.id] <= ungraded'[row.id]
    BY <1>2, <1>3, CountTypes
  <2> QED
    BY <2>1, <2>3, <2>4
<1>6. WorkersHonest'
  BY <1>2, <1>3, <1>4, <1>5, OneWorker
<1> QED
  BY <1>2, <1>6, PushQuiet, KeepRows, KeepRequests, KeepLocks, KeepSubmits, KeepCommands DEF XInv

(* The report is what makes the failure a worker adds one that was told. *)
LEMMA ReportStep ==
  ASSUME XInv, NEW p \in Workers, Pushes(p), Push!Report(p)
  PROVE  XInv'
<1> DEFINE row == delivery[p]  ok == worker[p] = "graded"
<1>1. PICK success \in BOOLEAN :
        /\ Push!Moves(p, "saving", Push!Reported(row, ok, success))
        /\ acked' = IF success THEN acked \cup {row.id} ELSE acked
  BY DEF Push!Report
<1> DEFINE new == Push!Reported(row, ok, success)
<1>2. Grows /\ table' = table /\ worker[p] \in {"graded", "ungraded"}
      /\ row.id \in reported'
  BY PushGrows DEF Push!Report
<1>3. row \in Row /\ row.id \in Ids /\ HonestNext(row, failedReplies'[row.id])
  BY <1>2, DeliveredRow
<1>4. /\ new \in Row /\ new.id = row.id /\ new.lms_ack = success /\ new.retired = TRUE
      /\ new.num_failures = row.num_failures + IF ok THEN 0 ELSE 1
  <2>1. row.num_failures + (IF ok THEN 0 ELSE 1) \in Nat
    BY <1>3, RowTypes
  <2> DEFINE n == IF ok THEN row.num_failures ELSE row.num_failures + 1
  <2>2. n = row.num_failures + IF ok THEN 0 ELSE 1
    BY <1>3, RowTypes
  <2>3. new = [row EXCEPT !.lms_ack = success, !.retired = TRUE, !.num_failures = n]
    BY DEF Push!Reported
  <2> HIDE DEF new, n
  <2> QED
    BY <1>3, <2>1, <2>2, <2>3 DEF Row
<1>5. /\ worker' = [worker EXCEPT ![p] = "saving"]
      /\ delivery' = [delivery EXCEPT ![p] = new]
  BY <1>1 DEF Push!Moves
<1> HIDE DEF new
<1>6. new.num_failures <= failedReplies'[new.id] + ungraded'[new.id]
  <2>1. row.num_failures + (IF ok THEN 0 ELSE 1) <= failedReplies[row.id] + ungraded[row.id]
    BY <1>2, <1>3, RowTypes DEF XInv, WorkersHonest, Honest
  <2> QED
    BY <1>2, <1>3, <1>4, <2>1, CountTypes, RowTypes
<1>7. HonestNext(new, failedReplies'[new.id])
  BY <1>1, <1>2, <1>3, <1>4, <1>6 DEF HonestNext, Told
<1>8. WorkersHonest'
  <2>1. new.num_failures + 0 <= failedReplies'[new.id] + ungraded'[new.id]
    BY <1>4, <1>6, RowTypes
  <2> QED
    BY <1>2, <1>4, <1>5, <1>7, <2>1, OneWorker
<1> QED
  BY <1>2, <1>8, PushQuiet, KeepRows, KeepRequests, KeepLocks, KeepSubmits, KeepCommands DEF XInv

(* A worker without a submission. *)
LEMMA EndedDelivery ==
  ASSUME XInv, NEW p \in Workers, Pushes(p),
         NEW point \in {"waiting", "failed", "killed"}, Push!Moves(p, point, NoSubmission)
  PROVE  WorkersHonest'
<1>1. worker' = [worker EXCEPT ![p] = point] /\ delivery' = [delivery EXCEPT ![p] = NoSubmission]
  BY DEF Push!Moves
<1> QED
  BY <1>1, PushGrows, OneWorker

LEMMA PushesStep ==
  ASSUME XInv, NEW p \in Workers, Pushes(p)
  PROVE  XInv'
<1>1. CASE Push!Fetch(p)
  BY <1>1, FetchStep
<1>2. CASE Push!Grade(p)
  BY <1>2, GradeStep
<1>3. CASE Push!Report(p)
  BY <1>3, ReportStep
<1>4. CASE Push!Save(p)
  <2>1. /\ worker[p] = "saving" /\ table' = Saved(delivery[p])
        /\ Push!Moves(p, "waiting", NoSubmission)
    BY <1>4, SameSave DEF Push!Save
  <2>2. RowsHonest'
    BY <2>1, DeliveredRow, PushGrows, PushQuiet, SaveKeepsRows
  <2>3. WorkersHonest'
    BY <2>1, EndedDelivery
  <2> QED
    BY <2>2, <2>3, PushGrows, PushQuiet, KeepRequests, KeepLocks, KeepSubmits, KeepCommands DEF XInv
<1>5. CASE Push!Crash(p) \/ Push!Kill(p) \/ Push!Restart(p)
  <2>1. /\ table' = table
        /\ \/ Push!Moves(p, "failed", NoSubmission)
           \/ Push!Moves(p, "killed", NoSubmission)
           \/ Push!Moves(p, "waiting", NoSubmission)
    BY <1>5 DEF Push!Crash, Push!Kill, Push!Restart, Push!tableVars
  <2>2. WorkersHonest'
    BY <2>1, EndedDelivery
  <2> QED
    BY <2>1, <2>2, PushGrows, PushQuiet, KeepRows, KeepRequests, KeepLocks, KeepSubmits, KeepCommands
       DEF XInv
<1>6. CASE Push!FetchNothing(p) \/ Push!Remove(p)
  <2>1. UNCHANGED <<table, worker, delivery>>
    BY <1>6 DEF Push!FetchNothing, Push!Remove, Push!vars, Push!tableVars, Push!pushVars
  <2> QED
    BY <2>1, PushGrows, PushQuiet, KeepRows, KeepRequests, KeepLocks, KeepSubmits, KeepWorkers,
       KeepCommands DEF XInv
<1> QED
  BY <1>1, <1>2, <1>3, <1>4, <1>5, <1>6 DEF Pushes, Push!Deliver, Push!Monitor

-----------------------------------------------------------------------------
(* Steps of the commands *)

LEMMA CommandQuiet ==
  ASSUME XInv, NEW c \in Commands, Commences(c) \/ Proceeds(c)
  PROVE  /\ UNCHANGED <<lock, handler, submission, failedReplies, submitter, request, callback,
                        worker, delivery, reported, superseded, ungraded>>
         /\ now' = now /\ now \in Nat
         /\ acked \subseteq acked' /\ accounted \subseteq accounted'
         /\ Grows
<1>1. /\ UNCHANGED <<lock, handler, submission, failedReplies, submitter, request, callback,
                     worker, delivery, reported, superseded, ungraded>>
      /\ now' = now /\ now \in Nat
  BY DEF Commences, Proceeds, pullVars, submitVars, pushVars, historyVars, XInv, RowsHonest,
         Cmd!Start, Cmd!Step, Cmd!Notify, Cmd!RetireForced, Cmd!Save, Cmd!SelectChunk,
         Cmd!DeleteChunk, Cmd!Finish, Cmd!Abort, Cmd!Takes, Cmd!tableVars, Cmd!commandVars
<1>2. acked \subseteq acked' /\ accounted \subseteq accounted'
  BY DEF Commences, Proceeds, Cmd!Start, Cmd!Step, Cmd!Notify, Cmd!RetireForced, Cmd!Save,
         Cmd!SelectChunk, Cmd!DeleteChunk, Cmd!Finish, Cmd!Abort, Cmd!Takes, Cmd!tableVars,
         Cmd!commandVars
<1> QED
  BY <1>1, <1>2, GrowsIfSame

(* A step that changes the commands only. *)
LEMMA CommandOnly ==
  ASSUME XInv, NEW c \in Commands, Commences(c) \/ Proceeds(c), table' = table, CommandsHonest'
  PROVE  XInv'
  BY CommandQuiet, KeepRows, KeepRequests, KeepLocks, KeepSubmits, KeepWorkers DEF XInv

LEMMA StartStep ==
  ASSUME XInv, NEW c \in Commands, Commences(c)
  PROVE  XInv'
<1>1. PICK j \in Jobs : Cmd!Starts(c, j, Cmd!Query(j))
  BY DEF Commences, Cmd!Start
<1>2. table' = table /\ Grows
  BY CommandQuiet DEF Commences, Cmd!Start, Cmd!tableVars
<1>3. ASSUME NEW r \in Cmd!Query(j)
      PROVE  /\ r \in Row /\ HonestNext(r, failedReplies'[r.id])
             /\ j.kind = "failed" => r.num_failures # 0
  <2>1. PICK s \in DOMAIN table : r = table[s]
    BY <1>3 DEF Cmd!Query, Cmd!Rows
  <2>2. r \in Row /\ r.id = s /\ Honest(r, failedReplies[r.id])
    BY <2>1 DEF XInv, RowsHonest
  <2>3. HonestNext(r, failedReplies'[r.id])
    BY <1>2, <2>2, CountTypes, HonestStays
  <2>4. j.kind = "failed" => r.num_failures # 0
    BY <1>3 DEF Cmd!Query, Cmd!Chosen, Cmd!HasFailed
  <2> QED
    BY <2>2, <2>3, <2>4
<1>4. CommandsHonest'
  <2>1. Cmd!Query(j) \in SUBSET Row
    BY <1>3
  <2>2. /\ job' = [job EXCEPT ![c] = j]
        /\ snapshot' = [snapshot EXCEPT ![c] = Cmd!Query(j)]
        /\ current' = [current EXCEPT ![c] = NoSubmission]
    BY <1>1 DEF Cmd!Starts
  <2> QED
    BY <1>2, <1>3, <2>1, <2>2, OneCommand
<1> QED
  BY <1>2, <1>4, CommandOnly

(* What a command has left of its query, and what it has in hand. *)
LEMMA ListedRows ==
  ASSUME XInv, NEW c \in Commands, Proceeds(c)
  PROVE  /\ \A r \in snapshot[c] :
              /\ r \in Row /\ HonestNext(r, failedReplies'[r.id])
              /\ job[c] # NoJob /\ job[c].kind = "failed"
                   => r.num_failures # 0
         /\ current[c] # NoSubmission =>
              /\ current[c] \in Row /\ job[c] # NoJob
              /\ HonestNext(current[c], failedReplies'[current[c].id])
<1>1. ASSUME NEW r \in Row, Honest(r, failedReplies[r.id])
      PROVE  HonestNext(r, failedReplies'[r.id])
  BY <1>1, CommandQuiet, CountTypes, HonestStays
<1>2. ASSUME NEW r \in snapshot[c]
      PROVE  /\ r \in Row /\ Honest(r, failedReplies[r.id])
             /\ job[c] # NoJob /\ job[c].kind = "failed"
                  => r.num_failures # 0
  BY <1>2 DEF XInv, CommandsHonest, Cmd!Has
<1>3. current[c] # NoSubmission =>
        current[c] \in Row /\ job[c] # NoJob /\ Honest(current[c], failedReplies[current[c].id])
  BY DEF XInv, CommandsHonest
<1> QED
  BY <1>1, <1>2, <1>3

(* A command takes a row and sets its outcome in memory. *)
LEMMA TakeStep ==
  ASSUME XInv, NEW c \in Commands, Proceeds(c), job[c] # NoJob,
         NEW row \in snapshot[c], NEW new, Cmd!Takes(c, row, new),
         new \in Row, HonestNext(new, failedReplies'[new.id]),
         new.retired \/ (job[c].kind = "failed" /\ ~new.lms_ack)
  PROVE  XInv'
<1>1. /\ table' = table
      /\ job' = [job EXCEPT ![c] = job[c]]
      /\ snapshot' = [snapshot EXCEPT ![c] = snapshot[c] \ {row}]
      /\ current' = [current EXCEPT ![c] = new]
  BY DEF Cmd!Takes, XInv, CommandsHonest
<1>2. job[c] \in Jobs \cup {NoJob} /\ snapshot[c] \ {row} \in SUBSET Row
  BY DEF XInv, CommandsHonest
<1>3. CommandsHonest'
  BY <1>1, <1>2, CommandQuiet, ListedRows, OneCommand
<1> QED
  BY <1>1, <1>3, CommandOnly

LEMMA NotifyStep ==
  ASSUME XInv, NEW c \in Commands, Proceeds(c), Cmd!Notify(c)
  PROVE  XInv'
<1>1. PICK row \in snapshot[c], success \in BOOLEAN :
        /\ Cmd!Takes(c, row, Cmd!Notified(job[c], row, success))
        /\ accounted' = accounted \cup {row.id}
        /\ acked' = IF success THEN acked \cup {row.id} ELSE acked
  BY DEF Cmd!Notify
<1> DEFINE new == Cmd!Notified(job[c], row, success)
<1>2. job[c] # NoJob /\ job[c].kind \in {"failed", "old"}
  BY DEF Cmd!Notify, Cmd!Has
<1>3. row \in Row /\ row.id \in Ids /\ HonestNext(row, failedReplies'[row.id])
  BY ListedRows, RowTypes
<1>4. /\ new \in Row /\ new.id = row.id /\ new.num_failures = row.num_failures
      /\ new.lms_ack = success
      /\ new.retired <=> job[c].kind = "old" \/ success
  <2> DEFINE ended == job[c].kind = "old" \/ success
  <2>1. new = [row EXCEPT !.lms_ack = success, !.retired = ended] /\ ended \in BOOLEAN
    BY DEF Cmd!Notified
  <2> HIDE DEF ended, new
  <2>2. new \in Row /\ new.id = row.id /\ new.num_failures = row.num_failures
        /\ new.lms_ack = success /\ new.retired = ended
    BY <1>3, <2>1 DEF Row
  <2> QED
    BY <2>2 DEF ended
<1>5. HonestNext(new, failedReplies'[new.id])
  <2>1. row.id \in Told'
    BY <1>1 DEF Told
  <2>2. success => row.id \in acked'
    BY <1>1
  <2> HIDE DEF new
  <2> QED
    BY <1>3, <1>4, <2>1, <2>2 DEF HonestNext
<1>6. new.retired \/ (job[c].kind = "failed" /\ ~new.lms_ack)
  BY <1>2, <1>4
<1> HIDE DEF new
<1> QED
  BY <1>1, <1>2, <1>4, <1>5, <1>6, TakeStep DEF new

LEMMA ForceStep ==
  ASSUME XInv, NEW c \in Commands, Proceeds(c), Cmd!RetireForced(c)
  PROVE  XInv'
<1>1. job[c] # NoJob /\ job[c].kind = "forced"
  BY DEF Cmd!RetireForced, Cmd!WithoutNotice, Cmd!Has
<1>2. PICK row \in snapshot[c] :
        /\ Cmd!Takes(c, row, [row EXCEPT !.retired = TRUE])
        /\ accounted' = accounted \cup {row.id}
  BY <1>1 DEF Cmd!RetireForced
<1> DEFINE new == [row EXCEPT !.retired = TRUE]
<1>3. row \in Row /\ HonestNext(row, failedReplies'[row.id])
  BY ListedRows
<1>4. /\ new \in Row /\ new.id = row.id /\ new.num_failures = row.num_failures
      /\ new.lms_ack = row.lms_ack /\ new.retired = TRUE
  BY <1>3 DEF Row
<1>5. HonestNext(new, failedReplies'[new.id])
  BY <1>2, <1>3, <1>4 DEF HonestNext, Told
<1> HIDE DEF new
<1> QED
  BY <1>1, <1>2, <1>4, <1>5, TakeStep DEF new

LEMMA CommandSaveStep ==
  ASSUME XInv, NEW c \in Commands, Proceeds(c), Cmd!Save(c)
  PROVE  XInv'
<1> DEFINE row == current[c]
<1>1. /\ row # NoSubmission /\ table' = Saved(row)
      /\ job' = [job EXCEPT ![c] = job[c]]
      /\ snapshot' = [snapshot EXCEPT ![c] = snapshot[c]]
      /\ current' = [current EXCEPT ![c] = NoSubmission]
  BY SameSave DEF Cmd!Save, XInv, CommandsHonest
<1>2. row \in Row /\ HonestNext(row, failedReplies'[row.id])
  BY <1>1, ListedRows
<1>3. RowsHonest'
  BY <1>1, <1>2, CommandQuiet, SaveKeepsRows
<1>4. CommandsHonest'
  <2>1. job[c] \in Jobs \cup {NoJob} /\ snapshot[c] \in SUBSET Row
    BY DEF XInv, CommandsHonest
  <2> QED
    BY <1>1, <2>1, CommandQuiet, ListedRows, OneCommand
<1> QED
  BY <1>3, <1>4, CommandQuiet, KeepRequests, KeepLocks, KeepSubmits, KeepWorkers DEF XInv

(* A command has listed rows of the table, or has deleted those it listed. *)
LEMMA SelectStep ==
  ASSUME XInv, NEW c \in Commands, Proceeds(c), Cmd!SelectChunk(c)
  PROVE  XInv'
<1>1. PICK B \in Cmd!Chunks(Cmd!Old(job[c].before)) :
        snapshot' = [snapshot EXCEPT ![c] = {table[s] : s \in B}]
  BY DEF Cmd!SelectChunk
<1> DEFINE rows == {table[s] : s \in B}
<1>2. B \subseteq DOMAIN table
  BY DEF Cmd!Chunks, Cmd!Old
<1>3. /\ table' = table /\ job[c] # NoJob /\ job[c].kind = "delete"
      /\ job' = [job EXCEPT ![c] = job[c]]
      /\ current' = [current EXCEPT ![c] = current[c]]
      /\ Grows
  BY CommandQuiet DEF Cmd!SelectChunk, Cmd!Has, Cmd!tableVars, XInv, CommandsHonest
<1>4. ASSUME NEW r \in rows PROVE r \in Row /\ HonestNext(r, failedReplies'[r.id])
  <2>1. PICK s \in DOMAIN table : r = table[s]
    BY <1>2, <1>4
  <2>2. r \in Row /\ r.id = s /\ Honest(r, failedReplies[r.id])
    BY <2>1 DEF XInv, RowsHonest
  <2> QED
    BY <1>3, <2>2, CountTypes, HonestStays
<1>5. CommandsHonest'
  <2>1. /\ job[c] \in Jobs \cup {NoJob} /\ current[c] \in Row \cup {NoSubmission}
        /\ current[c] # NoSubmission => current[c].retired
    BY <1>3 DEF XInv, CommandsHonest, Cmd!Has
  <2>2. rows \in SUBSET Row /\ snapshot' = [snapshot EXCEPT ![c] = rows]
    BY <1>1, <1>4
  <2> HIDE DEF rows
  <2> QED
    BY <1>3, <1>4, <2>1, <2>2, ListedRows, OneCommand
<1> QED
  BY <1>3, <1>5, CommandOnly

(* The rows that a deletion leaves are as they were. *)
LEMMA DeleteStep ==
  ASSUME XInv, NEW c \in Commands, Proceeds(c), Cmd!DeleteChunk(c)
  PROVE  XInv'
<1>1. PICK B : table' = [s \in DOMAIN table \ B |-> table[s]]
  BY DEF Cmd!DeleteChunk
<1>2. ASSUME NEW s \in DOMAIN table'
      PROVE  table'[s] \in Row /\ table'[s].id = s /\ Honest(table[s], failedReplies[s])'
  <2>1. /\ table'[s] = table[s] /\ table[s] \in Row /\ table[s].id = s
        /\ Honest(table[s], failedReplies[s])
    BY <1>1, <1>2 DEF XInv, RowsHonest
  <2>2. HonestNext(table[s], failedReplies'[s])
    BY <2>1, CommandQuiet, CountTypes, HonestStays
  <2> QED
    BY <2>1, <2>2 DEF HonestNext, Honest, Told
<1>3. RowsHonest'
  BY <1>1, <1>2, CommandQuiet DEF XInv, RowsHonest, Grows
<1>4. CommandsHonest'
  <2>1. /\ job' = [job EXCEPT ![c] = job[c]]
        /\ snapshot' = [snapshot EXCEPT ![c] = {}]
        /\ current' = [current EXCEPT ![c] = current[c]]
    BY DEF Cmd!DeleteChunk, XInv, CommandsHonest
  <2>2. /\ job[c] \in Jobs \cup {NoJob} /\ current[c] \in Row \cup {NoSubmission}
        /\ current[c] # NoSubmission => current[c].retired
        /\ {} \in SUBSET Row
    BY DEF Cmd!DeleteChunk, XInv, CommandsHonest, Cmd!Has
  <2> QED
    BY <2>1, <2>2, CommandQuiet, ListedRows, OneCommand
<1> QED
  BY <1>3, <1>4, CommandQuiet, KeepRequests, KeepLocks, KeepSubmits, KeepWorkers DEF XInv

LEMMA EndStep ==
  ASSUME XInv, NEW c \in Commands, Proceeds(c), Cmd!Finish(c) \/ Cmd!Abort(c)
  PROVE  XInv'
<1>1. table' = table /\ Cmd!Starts(c, NoJob, {})
  BY DEF Cmd!Finish, Cmd!Abort, Cmd!tableVars
<1>2. CommandsHonest'
  <2>1. /\ job' = [job EXCEPT ![c] = NoJob]
        /\ snapshot' = [snapshot EXCEPT ![c] = {}]
        /\ current' = [current EXCEPT ![c] = NoSubmission]
    BY <1>1 DEF Cmd!Starts
  <2>2. Grows /\ {} \in SUBSET Row
    BY CommandQuiet
  <2> QED
    BY <2>1, <2>2, OneCommand
<1> QED
  BY <1>1, <1>2, CommandOnly

-----------------------------------------------------------------------------
(* The invariant, and what follows from it *)

LEMMA StepXInv ==
  ASSUME XInv, [Next]_vars
  PROVE  XInv'
<1>1. ASSUME NEW w \in WebWorkers, Submits(w) \/ Pulls(w) PROVE XInv'
  BY <1>1, SubmitsStep, PullsStep
<1>2. ASSUME NEW p \in Workers, Pushes(p) PROVE XInv'
  BY <1>2, PushesStep
<1>3. ASSUME NEW c \in Commands, Commences(c) PROVE XInv'
  BY <1>3, StartStep
<1>4. ASSUME NEW c \in Commands, Proceeds(c) PROVE XInv'
  BY <1>4, NotifyStep, ForceStep, CommandSaveStep, SelectStep, DeleteStep, EndStep
     DEF Proceeds, Cmd!Step
<1>5. CASE Forgets \/ Tick
  BY <1>5, OutsideStep
<1>6. CASE UNCHANGED vars
  <2>1. /\ UNCHANGED <<table, lock, acked, handler, submission, failedReplies,
                       submitter, request, callback, worker, delivery, reported,
                       job, snapshot, current, accounted, superseded, ungraded>>
        /\ now' \in Nat
    BY <1>6 DEF vars, tableVars, pullVars, submitVars, pushVars, commandVars, historyVars,
                XInv, RowsHonest
  <2>2. Grows
    BY <2>1, GrowsIfSame
  <2> QED
    BY <2>1, <2>2, KeepRows, KeepRequests, KeepLocks, KeepSubmits, KeepWorkers, KeepCommands
       DEF XInv
<1> QED
  BY <1>1, <1>2, <1>3, <1>4, <1>5, <1>6 DEF Next, Step

(* No component of the service ever writes, or is about to write, a row that *)
(* claims more than what happened, however their steps interleave.           *)
THEOREM ServiceInvariant == Spec => []XInv
<1>1. Init => XInv
  BY InitXInv
<1>2. XInv /\ [Next]_vars => XInv'
  BY StepXInv
<1> QED
  BY <1>1, <1>2, PTL DEF Spec

(* lms_ack of a row means that the LMS answered 200, whoever wrote it last. *)
THEOREM AcksAreReal == Spec => []EveryAckIsReal
<1>1. XInv => EveryAckIsReal
  BY DEF XInv, RowsHonest, Honest, EveryAckIsReal
<1> QED
  BY <1>1, ServiceInvariant, PTL

(* No submission ends in silence, whichever of the clients ended it. *)
THEOREM NoneEndsInSilence == Spec => []NoSilentEnd
<1>1. XInv => NoSilentEnd
  <2> SUFFICES ASSUME XInv, NEW s \in DOMAIN table, table[s].retired
               PROVE  \/ s \in acked \cup reported \cup accounted \cup superseded
                      \/ failedReplies[s] > MAX_NUMBER_OF_FAILURES
    BY DEF NoSilentEnd
  <2> QED
    BY DEF XInv, RowsHonest, Honest, Told
<1> QED
  BY <1>1, ServiceInvariant, PTL

(* A learner who is told that the submission could not be graded was told so *)
(* of one that has failed, and as often as the command took it to have.      *)
THEOREM NoticesDeserved == Spec => NoticeIsDeserved
<1>1. XInv => \A c \in Commands : \A row \in snapshot[c] \ snapshot'[c] :
        Cmd!Has(c, {"failed"}) /\ job'[c] # NoJob =>
          /\ row.num_failures # 0
          /\ row.num_failures <= failedReplies[row.id] + ungraded[row.id]
  BY DEF XInv, CommandsHonest, Honest
<1> QED
  BY <1>1, ServiceInvariant, PTL DEF NoticeIsDeserved

-----------------------------------------------------------------------------
(* Who writes a row *)

(* A request saves its copy, unlocked or under its own lock. *)
RequestSaves(s) == \E w \in WebWorkers :
  /\ handler[w] \in {"get_save", "get_reply", "put_save"} /\ handler'[w] # handler[w]
  /\ submission[w].id = s /\ table' = Saved(submission[w])
  /\ lock[s] = NoOwner \/ (lock[s] = w /\ handler'[w] = "idle")

WorkerSaves(s) == \E p \in Workers :
  worker[p] = "saving" /\ delivery[p].id = s /\ table' = Saved(delivery[p]) /\ lock[s] = NoOwner

CommandSaves(s) == \E c \in Commands :
  /\ current[c] # NoSubmission /\ current'[c] = NoSubmission
  /\ current[c].id = s /\ table' = Saved(current[c]) /\ lock[s] = NoOwner

(* A submit retires it, or a command deletes it. *)
IsEnded(s) == lock[s] = NoOwner /\ (s \in DOMAIN table' => table'[s].retired)

Changes(s) == s \notin DOMAIN table' \/ table'[s] # table[s]

(* A save changes the row that is saved. *)
LEMMA SaveChangesOne ==
  ASSUME XInv, NEW row \in Row, table' = Saved(row), NEW s \in DOMAIN table, Changes(s)
  PROVE  row.id = s
  BY SavedRow DEF XInv, RowsHonest, Changes

LEMMA PullWrites ==
  ASSUME XInv, NEW w \in WebWorkers, Pulls(w), NEW s \in DOMAIN table, Changes(s)
  PROVE  RequestSaves(s)
<1> DEFINE row == submission[w]
<1>1. table' # table
  BY DEF Changes
<1>2. \/ Pull!GetSubmissionSave(w)
      \/ Pull!GetSubmissionCommit(w)
      \/ Pull!PutResultSave(w)
  BY <1>1 DEF Pulls, Pull!Get, Pull!Put, Pull!GetSubmissionRead, Pull!GetSubmissionEmpty,
              Pull!GetSubmissionReply, Pull!GetSubmissionFails, Pull!PutResultLock,
              Pull!PutResultRejected, Pull!PutResultPost, Pull!RequestAborts, Pull!RolledBack,
              Pull!vars, Pull!tableVars
<1>3. /\ handler[w] \in {"get_save", "get_reply", "put_save"} /\ table' = Saved(row)
      /\ lock[row.id] = NoOwner \/ (Pull!HoldsLock(w) /\ Pull!Replies(w))
  BY <1>1, <1>2, SameSave
     DEF Pull!GetSubmissionSave, Pull!GetSubmissionCommit, Pull!PutResultSave, Pull!Unlocked,
         Pull!HoldsLock, Pull!InPutResult
<1>4. row.id = s
  BY <1>3, HeldRow, SaveChangesOne
<1>5. Pull!HoldsLock(w) /\ Pull!Replies(w) => lock[row.id] = w /\ handler'[w] = "idle"
  BY DEF XInv, PutResultsLock, RequestsHonest, Pull!Replies, Pull!Serves
<1>6. handler'[w] # handler[w]
  BY <1>2 DEF XInv, RequestsHonest, Pull!GetSubmissionSave, Pull!GetSubmissionCommit,
              Pull!PutResultSave, Pull!Replies, Pull!Serves
<1> QED
  BY <1>3, <1>4, <1>5, <1>6 DEF RequestSaves

LEMMA SubmitWrites ==
  ASSUME XInv, NEW w \in WebWorkers, Submits(w), NEW s \in DOMAIN table, Changes(s)
  PROVE  IsEnded(s)
<1>1. table[s] \in Row /\ table[s].id = s /\ s \in DOMAIN callback /\ now \in Nat
  BY DEF XInv, RowsHonest, Honest
<1>2. CASE Lms!Invalidate(w)
  <2>1. PICK url \in CallbackUrls :
          /\ \A r \in Lms!Prior(Truncated[url]) : lock[r] = NoOwner
          /\ table' = [r \in DOMAIN table |->
               [table[r] EXCEPT !.retired = @ \/ r \in Lms!Prior(Truncated[url])]]
    BY <1>2 DEF Lms!Invalidate, Lms!Unlocked
  <2>2. s \in DOMAIN table' /\ table'[s] = [table[s] EXCEPT !.retired = @ \/ s \in Lms!Prior(Truncated[url])]
    BY <2>1
  <2>3. CASE s \in Lms!Prior(Truncated[url])
    BY <1>1, <2>1, <2>2, <2>3 DEF IsEnded, Row
  <2>4. CASE s \notin Lms!Prior(Truncated[url])
    <3>1. table'[s] = table[s]
      BY <1>1, <2>2, <2>4 DEF Row
    <3> QED
      BY <2>2, <3>1 DEF Changes
  <2> QED
    BY <2>3, <2>4
<1>3. CASE Lms!Insert(w)
  <2>1. PICK r \in Ids \ DOMAIN callback :
          table' = Lms!Saved(Lms!NewSubmission(r, request[w].queue, Truncated[request[w].url], now))
    BY <1>3 DEF Lms!Insert
  <2>2. Lms!NewSubmission(r, request[w].queue, Truncated[request[w].url], now).id = r
    BY DEF Lms!NewSubmission
  <2>3. s # r
    BY <1>1
  <2>4. s \in DOMAIN table' /\ table'[s] = table[s]
    BY <2>1, <2>2, <2>3 DEF Lms!Saved
  <2> QED
    BY <2>4 DEF Changes
<1>4. CASE Lms!Reject(w) \/ Lms!Reply(w) \/ Lms!SubmitAborts(w)
  BY <1>4 DEF Lms!Reject, Lms!Reply, Lms!SubmitAborts, Lms!vars, Lms!tableVars, Changes
<1> QED
  BY <1>2, <1>3, <1>4 DEF Submits, Lms!Submit

LEMMA PushWrites ==
  ASSUME XInv, NEW p \in Workers, Pushes(p), NEW s \in DOMAIN table, Changes(s)
  PROVE  WorkerSaves(s)
<1>1. Push!Save(p)
  BY DEF Pushes, Push!Deliver, Push!Fetch, Push!FetchNothing, Push!Grade, Push!Report, Push!Crash,
         Push!Kill, Push!Monitor, Push!Restart, Push!Remove, Push!vars, Push!tableVars, Changes
<1>2. /\ worker[p] = "saving" /\ lock[delivery[p].id] = NoOwner /\ table' = Saved(delivery[p])
  BY <1>1, SameSave DEF Push!Save, Push!Unlocked
<1>3. delivery[p].id = s
  BY <1>2, DeliveredRow, SaveChangesOne
<1> QED
  BY <1>2, <1>3 DEF WorkerSaves

LEMMA CommandWrites ==
  ASSUME XInv, NEW c \in Commands, Commences(c) \/ Proceeds(c), NEW s \in DOMAIN table, Changes(s)
  PROVE  CommandSaves(s) \/ IsEnded(s)
<1>1. Cmd!Save(c) \/ Cmd!DeleteChunk(c)
  BY DEF Commences, Proceeds, Cmd!Start, Cmd!Step, Cmd!Notify, Cmd!RetireForced, Cmd!Takes, Cmd!SelectChunk,
         Cmd!Finish, Cmd!Abort, Cmd!tableVars, Changes
<1>2. CASE Cmd!Save(c)
  <2>1. /\ current[c] # NoSubmission /\ current'[c] = NoSubmission
        /\ lock[current[c].id] = NoOwner /\ table' = Saved(current[c])
    BY <1>2, SameSave DEF Cmd!Save, Cmd!Unlocked, XInv, CommandsHonest
  <2>2. current[c].id = s
    BY <2>1, SaveChangesOne DEF XInv, CommandsHonest
  <2> QED
    BY <2>1, <2>2 DEF CommandSaves
<1>3. CASE Cmd!DeleteChunk(c)
  <2>1. PICK B : /\ \A r \in B : lock[r] = NoOwner
                 /\ table' = [r \in DOMAIN table \ B |-> table[r]]
    BY <1>3 DEF Cmd!DeleteChunk, Cmd!Unlocked
  <2> QED
    BY <2>1 DEF Changes, IsEnded
<1> QED
  BY <1>1, <1>2, <1>3

LEMMA WritersOfRows ==
  ASSUME XInv, [Next]_vars, NEW s \in DOMAIN table, Changes(s)
  PROVE  RequestSaves(s) \/ WorkerSaves(s) \/ CommandSaves(s) \/ IsEnded(s)
<1>1. CASE Step
  <2>1. ~(Forgets \/ Tick)
    BY DEF Forgets, Tick, Pull!GraderForgets, Changes
  <2> QED
    BY <1>1, <2>1, PullWrites, SubmitWrites, PushWrites, CommandWrites DEF Step
<1>2. CASE UNCHANGED vars
  BY <1>2 DEF vars, tableVars, Changes
<1> QED
  BY <1>1, <1>2 DEF Next

(* Nobody writes the row that a put_result has locked. *)
THEOREM LocksHold == Spec => LockHoldsForAll
<1>1. ASSUME XInv, [Next]_vars, NEW w \in WebWorkers, Pull!InPutResult(w),
             submission[w].id \in DOMAIN table, Changes(submission[w].id)
      PROVE  handler'[w] = "idle"
  <2> DEFINE s == submission[w].id
  <2>1. lock[s] = w /\ lock[s] # NoOwner
    BY <1>1, HandlerAssumption DEF XInv, PutResultsLock, Pull!HoldsLock
  <2>2. RequestSaves(s)
    BY <1>1, <2>1, WritersOfRows DEF WorkerSaves, CommandSaves, IsEnded
  <2> QED
    BY <2>1, <2>2 DEF RequestSaves
<1>2. XInv /\ [Next]_vars =>
        \A w \in WebWorkers :
          Pull!InPutResult(w) /\ submission[w].id \in DOMAIN table
            /\ (submission[w].id \notin DOMAIN table'
                 \/ table'[submission[w].id] # table[submission[w].id])
            => handler'[w] = "idle"
  BY <1>1 DEF Changes
<1> QED
  BY <1>2, ServiceInvariant, PTL DEF Spec, LockHoldsForAll

-----------------------------------------------------------------------------
(* What opens a retired submission again.  As long as no result was sent     *)
(* twice, a pull key is in one place (with a grader, or in one request), so  *)
(* that whoever holds a key that fits its row will find that row unretired,  *)
(* or ended by one of the clients that leave the pull key alone.             *)

KeyInOnePlace ==
  /\ \A t, u \in tickets : t.key = u.key => t = u
  /\ \A w \in WebWorkers : handler[w] # "idle" =>
       /\ \A t \in tickets : t.key # submission[w].pullkey
       /\ \A v \in WebWorkers : handler[v] # "idle" /\ submission[v].pullkey = submission[w].pullkey
            => v = w

OpenOrEnded(s) == s \in DOMAIN table /\ table[s].retired => EndedElsewhere(s)

FitsOpen(s, k) == s \in DOMAIN table /\ table[s].pullkey = k => OpenOrEnded(s)

FittingKeysOpen ==
  /\ \A t \in tickets : FitsOpen(t.sid, t.key)
  /\ \A w \in WebWorkers :
       /\ handler[w] = "get_reply" /\ ~ATOMIC_REQUESTS
            => FitsOpen(submission[w].id, submission[w].pullkey)
       /\ Pull!InPutResult(w) => OpenOrEnded(submission[w].id)

(* What each client is about to save: a pull of an unretired row, or the end *)
(* of a submission that was reported or accounted for.                       *)
PullsOpen == \A w \in WebWorkers :
  handler[w] \in {"get_save", "get_reply"} => ~submission[w].retired

EndsTold ==
  /\ \A p \in Workers : worker[p] = "saving" => delivery[p].id \in reported
  /\ \A c \in Commands : current[c] # NoSubmission => current[c].id \in accounted

ReopenInv ==
  /\ XInv /\ resends \in Nat /\ PullsOpen /\ EndsTold
  /\ resends = 0 => KeyInOnePlace /\ FittingKeysOpen

(* A row that is retired after a step was so before, with the key it has, or *)
(* was ended elsewhere.                                                      *)
EndsElsewhereOnly == \A s \in DOMAIN table' : table'[s].retired =>
  \/ s \in DOMAIN table /\ table[s].retired /\ table'[s].pullkey = table[s].pullkey
  \/ EndedElsewhere(s)'

LEMMA InitReopenInv == Init => ReopenInv
<1> SUFFICES ASSUME Init PROVE ReopenInv
  OBVIOUS
<1> USE DEF Init, Pull!PullInit, Push!PushInit, Cmd!CommandInit
<1>1. XInv
  BY InitXInv
<1>2. PullsOpen /\ EndsTold
  BY DEF PullsOpen, EndsTold
<1>3. KeyInOnePlace /\ FittingKeysOpen
  BY DEF KeyInOnePlace, FittingKeysOpen, Pull!InPutResult
<1> QED
  BY <1>1, <1>2, <1>3 DEF ReopenInv

(* Every step but those of the pull interface. *)
LEMMA ReopenOthers ==
  ASSUME ReopenInv, XInv', Grows, UNCHANGED <<handler, submission, resends>>,
         tickets' \subseteq tickets, EndsElsewhereOnly, EndsTold'
  PROVE  ReopenInv'
<1>1. \A s : EndedElsewhere(s) => EndedElsewhere(s)'
  BY DEF Grows, EndedElsewhere
<1>2. ASSUME NEW s, OpenOrEnded(s) PROVE OpenOrEnded(s)'
  BY <1>1, <1>2 DEF OpenOrEnded, EndsElsewhereOnly
<1>3. ASSUME NEW s, NEW k, FitsOpen(s, k) PROVE FitsOpen(s, k)'
  BY <1>1, <1>3 DEF FitsOpen, OpenOrEnded, EndsElsewhereOnly
<1>4. PullsOpen'
  BY DEF ReopenInv, PullsOpen
<1>5. KeyInOnePlace => KeyInOnePlace'
  BY DEF KeyInOnePlace
<1>6. FittingKeysOpen => FittingKeysOpen'
  BY <1>2, <1>3 DEF FittingKeysOpen, Pull!InPutResult
<1> QED
  BY <1>4, <1>5, <1>6 DEF ReopenInv

LEMMA ReopenSubmits ==
  ASSUME ReopenInv, XInv', NEW w \in WebWorkers, Submits(w)
  PROVE  ReopenInv'
<1>1. /\ XInv
      /\ UNCHANGED <<handler, submission, resends, tickets, worker, delivery, current,
                     reported, accounted>>
      /\ superseded \subseteq superseded' /\ now \in Nat
  BY SubmitQuiet DEF Submits, pullVars, ReopenInv
<1>2. Grows
  <2>1. DOMAIN callback \subseteq DOMAIN callback'
    BY DEF Submits, Lms!Submit, Lms!Reject, Lms!Invalidate, Lms!Insert, Lms!Reply, Lms!SubmitAborts,
           Lms!vars, Lms!submitVars
  <2> QED
    BY <1>1, <2>1, SubmitQuiet DEF Grows, XInv, RowsHonest
<1>3. EndsElsewhereOnly
  <2>1. CASE Lms!Invalidate(w)
    <3> SUFFICES ASSUME NEW s \in DOMAIN table', table'[s].retired, ~EndedElsewhere(s)'
                 PROVE  s \in DOMAIN table /\ table[s].retired /\ table'[s].pullkey = table[s].pullkey
      BY DEF EndsElsewhereOnly
    <3>1. PICK url \in CallbackUrls :
            table' = [r \in DOMAIN table |->
              [table[r] EXCEPT !.retired = @ \/ r \in Lms!Prior(Truncated[url])]]
      BY <2>1 DEF Lms!Invalidate
    <3>2. s \in DOMAIN table /\ table[s] \in Row
      BY <1>1, <3>1 DEF XInv, RowsHonest
    <3>3. table'[s].pullkey = table[s].pullkey
      BY <3>1, <3>2 DEF Row
    <3>4. table[s].retired
      BY <3>2 DEF Submits, EndedElsewhere
    <3> QED
      BY <3>2, <3>3, <3>4
  <2>2. CASE Lms!Insert(w)
    <3>1. PICK r \in Ids \ DOMAIN callback :
            table' = Lms!Saved(Lms!NewSubmission(r, request[w].queue, Truncated[request[w].url], now))
      BY <2>2 DEF Lms!Insert
    <3> DEFINE row == Lms!NewSubmission(r, request[w].queue, Truncated[request[w].url], now)
    <3>2. row.id = r /\ row.retired = FALSE /\ [row EXCEPT !.arrival_time = now].retired = FALSE
      BY DEF Lms!NewSubmission
    <3> HIDE DEF row
    <3>3. ASSUME NEW s \in DOMAIN table', s # r
          PROVE  s \in DOMAIN table /\ table'[s] = table[s]
      BY <3>1, <3>2, <3>3 DEF Lms!Saved, row
    <3>4. ASSUME r \in DOMAIN table' PROVE ~table'[r].retired
      BY <3>1, <3>2, <3>4 DEF Lms!Saved, Lms!Stored, row
    <3> QED
      BY <3>3, <3>4 DEF EndsElsewhereOnly
  <2>3. CASE Lms!Reject(w) \/ Lms!Reply(w) \/ Lms!SubmitAborts(w)
    BY <2>3 DEF EndsElsewhereOnly, Lms!Reject, Lms!Reply, Lms!SubmitAborts, Lms!vars, Lms!tableVars
  <2> QED
    BY <2>1, <2>2, <2>3 DEF Submits, Lms!Submit
<1>4. EndsTold'
  BY <1>1 DEF ReopenInv, EndsTold
<1> QED
  BY <1>1, <1>2, <1>3, <1>4, ReopenOthers

LEMMA ReopenPushes ==
  ASSUME ReopenInv, XInv', NEW p \in Workers, Pushes(p)
  PROVE  ReopenInv'
<1>1. /\ XInv /\ Grows
      /\ UNCHANGED <<handler, submission, resends, tickets, current, accounted>>
      /\ reported \subseteq reported' /\ now \in Nat
  BY PushQuiet, PushGrows DEF Pushes, pullVars, ReopenInv
<1>2. EndsElsewhereOnly
  <2>1. CASE Push!Save(p)
    <3> DEFINE row == delivery[p]
    <3>1. worker[p] = "saving" /\ table' = Saved(row)
      BY <2>1, SameSave DEF Push!Save
    <3>2. row \in Row /\ row.id \in reported
      BY <1>1, <3>1, DeliveredRow DEF ReopenInv, EndsTold
    <3> HIDE DEF row
    <3>3. row.id \in reported'
      BY <1>1, <3>2
    <3>4. /\ DOMAIN table' = DOMAIN table \cup {row.id}
          /\ \A s \in DOMAIN table : s # row.id => table'[s] = table[s]
      BY <1>1, <3>1, <3>2, SavedRow
    <3> QED
      BY <3>3, <3>4 DEF EndsElsewhereOnly, EndedElsewhere
  <2>2. CASE ~Push!Save(p)
    <3>1. table' = table
      BY <2>2 DEF Pushes, Push!Deliver, Push!Fetch, Push!FetchNothing, Push!Grade, Push!Report,
         Push!Crash, Push!Kill, Push!Monitor, Push!Restart, Push!Remove, Push!vars, Push!tableVars
    <3> QED
      BY <3>1 DEF EndsElsewhereOnly
  <2> QED
    BY <2>1, <2>2
<1>3. EndsTold'
  <2> SUFFICES ASSUME NEW r \in Workers, worker'[r] = "saving"
               PROVE  delivery'[r].id \in reported'
    BY <1>1 DEF ReopenInv, EndsTold
  <2>1. CASE Push!Report(p) /\ r = p
    <3>1. PICK success \in BOOLEAN :
            Push!Moves(p, "saving", Push!Reported(delivery[p], worker[p] = "graded", success))
      BY <2>1 DEF Push!Report
    <3>2. delivery[p] \in Row /\ delivery[p].id \in reported'
      BY <1>1, <2>1, DeliveredRow DEF Push!Report
    <3>3. delivery'[p].id = delivery[p].id
      <4>1. delivery'[p] = Push!Reported(delivery[p], worker[p] = "graded", success)
        BY <1>1, <3>1 DEF Push!Moves, XInv, WorkersHonest
      <4> QED
        BY <3>2, <4>1 DEF Push!Reported, Row
    <3> QED
      BY <2>1, <3>2, <3>3
  <2>2. CASE ~(Push!Report(p) /\ r = p)
    <3>1. worker[r] = "saving" /\ delivery'[r] = delivery[r]
      BY <1>1, <2>2 DEF XInv, WorkersHonest, Push!Moves, Pushes, Push!Deliver, Push!Fetch,
         Push!FetchNothing, Push!Grade, Push!Report, Push!Save, Push!Crash, Push!Kill, Push!Monitor,
         Push!Restart, Push!Remove, Push!vars, Push!pushVars
    <3> QED
      BY <1>1, <3>1 DEF ReopenInv, EndsTold
  <2> QED
    BY <2>1, <2>2
<1> QED
  BY <1>1, <1>2, <1>3, ReopenOthers

LEMMA ReopenCommands ==
  ASSUME ReopenInv, XInv', NEW c \in Commands, Commences(c) \/ Proceeds(c)
  PROVE  ReopenInv'
<1>1. /\ XInv /\ Grows
      /\ UNCHANGED <<handler, submission, resends, tickets, worker, delivery, reported>>
      /\ accounted \subseteq accounted' /\ now \in Nat
  BY CommandQuiet DEF Commences, Proceeds, pullVars, pushVars, ReopenInv
<1>2. EndsElsewhereOnly
  <2>1. CASE Cmd!Save(c)
    <3> DEFINE row == current[c]
    <3>1. row # NoSubmission /\ table' = Saved(row)
      BY <2>1, SameSave DEF Cmd!Save
    <3>2. row \in Row /\ row.id \in accounted
      BY <1>1, <3>1 DEF ReopenInv, EndsTold, XInv, CommandsHonest
    <3> HIDE DEF row
    <3>3. row.id \in accounted'
      BY <1>1, <3>2
    <3>4. /\ DOMAIN table' = DOMAIN table \cup {row.id}
          /\ \A s \in DOMAIN table : s # row.id => table'[s] = table[s]
      BY <1>1, <3>1, <3>2, SavedRow
    <3> QED
      BY <3>3, <3>4 DEF EndsElsewhereOnly, EndedElsewhere
  <2>2. CASE Cmd!DeleteChunk(c)
    <3>1. \A s \in DOMAIN table' : s \in DOMAIN table /\ table'[s] = table[s]
      BY <2>2 DEF Cmd!DeleteChunk
    <3> QED
      BY <3>1 DEF EndsElsewhereOnly
  <2>3. CASE ~Cmd!Save(c) /\ ~Cmd!DeleteChunk(c)
    <3>1. table' = table
      BY <2>3 DEF Commences, Proceeds, Cmd!Start, Cmd!Step, Cmd!Notify, Cmd!RetireForced, Cmd!Takes,
         Cmd!SelectChunk, Cmd!Finish, Cmd!Abort, Cmd!tableVars
    <3> QED
      BY <3>1 DEF EndsElsewhereOnly
  <2> QED
    BY <2>1, <2>2, <2>3
<1>3. EndsTold'
  <2> SUFFICES ASSUME NEW d \in Commands, current'[d] # NoSubmission
               PROVE  current'[d].id \in accounted'
    BY <1>1 DEF ReopenInv, EndsTold
  <2>1. CASE d = c /\ (Cmd!Notify(c) \/ Cmd!RetireForced(c))
    <3>1. PICK row \in snapshot[c] :
            /\ \/ \E success \in BOOLEAN : Cmd!Takes(c, row, Cmd!Notified(job[c], row, success))
               \/ Cmd!Takes(c, row, [row EXCEPT !.retired = TRUE])
            /\ row.id \in accounted'
      BY <2>1 DEF Cmd!Notify, Cmd!RetireForced, Cmd!WithoutNotice, Cmd!Has
    <3>2. row \in Row
      BY <1>1 DEF XInv, CommandsHonest
    <3>3. ASSUME NEW new, Cmd!Takes(c, row, new) PROVE current'[c] = new
      BY <1>1, <3>3 DEF Cmd!Takes, XInv, CommandsHonest
    <3>4. ASSUME NEW success \in BOOLEAN
          PROVE  Cmd!Notified(job[c], row, success).id = row.id
      <4> DEFINE ended == job[c].kind = "old" \/ success
      <4>1. Cmd!Notified(job[c], row, success) = [row EXCEPT !.lms_ack = success, !.retired = ended]
        BY DEF Cmd!Notified
      <4> HIDE DEF ended
      <4> QED
        BY <3>2, <4>1 DEF Row
    <3>5. [row EXCEPT !.retired = TRUE].id = row.id
      BY <3>2 DEF Row
    <3>6. current'[c].id = row.id
      BY <3>1, <3>3, <3>4, <3>5
    <3> QED
      BY <2>1, <3>1, <3>6
  <2>2. CASE ~(d = c /\ (Cmd!Notify(c) \/ Cmd!RetireForced(c)))
    <3>1. current'[d] = current[d]
      BY <1>1, <2>2 DEF XInv, CommandsHonest, Commences, Proceeds, Cmd!Start, Cmd!Starts, Cmd!Step,
         Cmd!Save, Cmd!Notify, Cmd!RetireForced, Cmd!Takes, Cmd!SelectChunk, Cmd!DeleteChunk,
         Cmd!Finish, Cmd!Abort
    <3> QED
      BY <1>1, <3>1 DEF ReopenInv, EndsTold
  <2> QED
    BY <2>1, <2>2
<1> QED
  BY <1>1, <1>2, <1>3, ReopenOthers

LEMMA ReopenOutside ==
  ASSUME ReopenInv, XInv', Forgets \/ Tick \/ UNCHANGED vars
  PROVE  ReopenInv'
<1>1. /\ UNCHANGED <<table, acked, handler, submission, resends, failedReplies, callback, worker,
                     delivery, reported, current, accounted, superseded, ungraded>>
      /\ tickets' \subseteq tickets
  BY DEF Forgets, Tick, Pull!GraderForgets, vars, tableVars, pullVars, submitVars, pushVars,
         commandVars, historyVars
<1>2. Grows
  BY <1>1, GrowsIfSame DEF ReopenInv
<1>3. EndsElsewhereOnly /\ EndsTold'
  BY <1>1 DEF EndsElsewhereOnly, ReopenInv, EndsTold
<1> QED
  BY <1>1, <1>2, <1>3, ReopenOthers

-----------------------------------------------------------------------------
(* The steps of the pull interface *)

(* A pull step leaves the other clients, and what they have ended, alone. *)
LEMMA PullSettled ==
  ASSUME ReopenInv, NEW w \in WebWorkers, Pulls(w)
  PROVE  /\ XInv /\ EndsTold'
         /\ \A s : EndedElsewhere(s)' <=> EndedElsewhere(s)
         /\ handler \in [WebWorkers -> {"idle", "get_save", "get_reply", "put_post", "put_save"}]
         /\ submission \in [WebWorkers -> Row \cup {NoSubmission}]
  BY PullQuiet DEF ReopenInv, EndsTold, EndedElsewhere, XInv, RequestsHonest

(* What a request saves keeps its key, and is retired if its copy is. *)
LEMMA SavedCopy ==
  ASSUME ReopenInv, NEW w \in WebWorkers, handler[w] # "idle"
  PROVE  LET row == submission[w] IN
         /\ row \in Row
         /\ handler[w] \in {"get_save", "get_reply"} => ~row.retired
         /\ table' = Saved(row) =>
              /\ DOMAIN table' = DOMAIN table \cup {row.id}
              /\ table'[row.id].pullkey = row.pullkey
              /\ table'[row.id].retired = row.retired
              /\ \A s \in DOMAIN table : s # row.id => table'[s] = table[s]
<1>1. submission[w] \in Row /\ now \in Nat
  BY HeldRow DEF ReopenInv, XInv, RowsHonest
<1>2. handler[w] \in {"get_save", "get_reply"} => ~submission[w].retired
  BY DEF ReopenInv, PullsOpen
<1> QED
  BY <1>1, <1>2, SavedRow

LEMMA ReopenRead ==
  ASSUME ReopenInv, XInv', NEW w \in WebWorkers, Pulls(w), Pull!GetSubmissionRead(w)
  PROVE  ReopenInv'
<1>1. PICK s \in DOMAIN table, k \in Keys \ Pull!KeysInUse :
        /\ ~table[s].retired
        /\ Pull!Serves(w, "get_save", [table[s] EXCEPT !.pull_time = now, !.pullkey = k])
  BY DEF Pull!GetSubmissionRead, Pull!get_single_unretired_submission, Pull!Oldest, Pull!Pullable,
         Pull!Unretired
<1> DEFINE new == [table[s] EXCEPT !.pull_time = now, !.pullkey = k]
<1>2. table[s] \in Row
  BY DEF ReopenInv, XInv, RowsHonest
<1>3. ~new.retired /\ new.pullkey = k
  BY <1>1, <1>2 DEF Row
<1>4. /\ k \notin {t.key : t \in tickets}
      /\ k \notin {submission[v].pullkey : v \in {x \in WebWorkers : handler[x] # "idle"}}
  BY DEF Pull!KeysInUse
<1> HIDE DEF new
<1>5. /\ handler[w] = "idle"
      /\ handler' = [handler EXCEPT ![w] = "get_save"]
      /\ submission' = [submission EXCEPT ![w] = new]
      /\ UNCHANGED <<table, tickets, resends>>
  BY <1>1 DEF new, Pull!Serves, Pull!GetSubmissionRead, Pull!tableVars
<1>6. PullsOpen'
  BY <1>3, <1>5, PullSettled DEF ReopenInv, PullsOpen
<1>7. KeyInOnePlace => KeyInOnePlace'
  BY <1>3, <1>4, <1>5, PullSettled DEF KeyInOnePlace
<1>8. FittingKeysOpen => FittingKeysOpen'
  BY <1>5, PullSettled DEF FittingKeysOpen, FitsOpen, OpenOrEnded, Pull!InPutResult
<1> QED
  BY <1>5, <1>6, <1>7, <1>8, PullSettled DEF ReopenInv

LEMMA ReopenSave ==
  ASSUME ReopenInv, XInv', NEW w \in WebWorkers, Pulls(w), Pull!GetSubmissionSave(w)
  PROVE  ReopenInv'
<1> DEFINE row == submission[w]
<1>1. /\ handler[w] = "get_save"
      /\ handler' = [handler EXCEPT ![w] = "get_reply"]
      /\ submission' = submission
      /\ UNCHANGED <<tickets, resends>>
      /\ (table' = table /\ ATOMIC_REQUESTS) \/ table' = Saved(row)
  BY PullSettled, SameSave DEF Pull!GetSubmissionSave, Pull!Serves
<1>2. /\ row \in Row /\ ~row.retired
      /\ table' = Saved(row) =>
           /\ DOMAIN table' = DOMAIN table \cup {row.id}
           /\ ~table'[row.id].retired
           /\ \A s \in DOMAIN table : s # row.id => table'[s] = table[s]
  BY <1>1, SavedCopy
<1>3. \A s : OpenOrEnded(s) => OpenOrEnded(s)'
  BY <1>1, <1>2, PullSettled DEF OpenOrEnded
<1>4. \A s, k : FitsOpen(s, k) => FitsOpen(s, k)'
  BY <1>1, <1>2, PullSettled DEF FitsOpen, OpenOrEnded
<1>5. PullsOpen'
  BY <1>1, <1>2, PullSettled DEF ReopenInv, PullsOpen
<1>6. KeyInOnePlace => KeyInOnePlace'
  BY <1>1, PullSettled DEF KeyInOnePlace
<1>7. FittingKeysOpen => FittingKeysOpen'
  <2> SUFFICES ASSUME FittingKeysOpen PROVE FittingKeysOpen'
    OBVIOUS
  <2>1. \A t \in tickets' : FitsOpen(t.sid, t.key)'
    BY <1>1, <1>4 DEF FittingKeysOpen
  <2>2. ASSUME NEW v \in WebWorkers, handler'[v] = "get_reply", ~ATOMIC_REQUESTS
        PROVE  FitsOpen(submission[v].id, submission[v].pullkey)'
    <3>1. CASE v = w
      BY <3>1, <2>2, <1>1, <1>2 DEF FitsOpen, OpenOrEnded
    <3>2. CASE v # w
      <4>1. FitsOpen(submission[v].id, submission[v].pullkey)
        BY <3>2, <2>2, <1>1, PullSettled DEF FittingKeysOpen
      <4> QED
        BY <4>1, <1>1, <1>2, PullSettled DEF FitsOpen, OpenOrEnded
    <3> QED
      BY <3>1, <3>2
  <2>3. ASSUME NEW v \in WebWorkers, Pull!InPutResult(v)'
        PROVE  OpenOrEnded(submission[v].id)'
    <3>1. OpenOrEnded(submission[v].id)
      BY <2>3, <1>1, PullSettled DEF FittingKeysOpen, Pull!InPutResult
    <3> QED
      BY <3>1, <1>1, <1>2, PullSettled DEF OpenOrEnded
  <2> QED
    BY <2>1, <2>2, <2>3 DEF FittingKeysOpen
<1> QED
  BY <1>1, <1>5, <1>6, <1>7, PullSettled DEF ReopenInv

LEMMA ReopenCommit ==
  ASSUME ReopenInv, XInv', NEW w \in WebWorkers, Pulls(w),
         Pull!GetSubmissionReply(w) \/ Pull!GetSubmissionFails(w)
  PROVE  ReopenInv'
<1> DEFINE row == submission[w]
           new == Pull!TicketOf(row)
<1>1. /\ handler[w] = "get_reply"
      /\ handler' = [handler EXCEPT ![w] = "idle"]
      /\ submission' = [submission EXCEPT ![w] = NoSubmission]
      /\ tickets' \subseteq tickets \cup {new}
      /\ UNCHANGED resends
      /\ IF ATOMIC_REQUESTS THEN table' = Saved(row) ELSE table' = table
  BY SameSave DEF Pull!GetSubmissionReply, Pull!GetSubmissionFails, Pull!GetSubmissionCommit,
                  Pull!Replies, Pull!Serves
<1>2. /\ row \in Row /\ ~row.retired
      /\ table' = Saved(row) =>
           /\ DOMAIN table' = DOMAIN table \cup {row.id}
           /\ ~table'[row.id].retired
           /\ \A s \in DOMAIN table : s # row.id => table'[s] = table[s]
  BY <1>1, SavedCopy
<1>3. new.sid = row.id /\ new.key = row.pullkey
  BY DEF Pull!TicketOf
<1> HIDE DEF new
<1>4. \A s : OpenOrEnded(s) => OpenOrEnded(s)'
  BY <1>1, <1>2, PullSettled DEF OpenOrEnded
<1>5. \A s, k : FitsOpen(s, k) => FitsOpen(s, k)'
  BY <1>1, <1>2, PullSettled DEF FitsOpen, OpenOrEnded
<1>6. PullsOpen'
  BY <1>1, PullSettled DEF ReopenInv, PullsOpen
<1>7. KeyInOnePlace => KeyInOnePlace'
  BY <1>1, <1>3, PullSettled DEF KeyInOnePlace
<1>8. FittingKeysOpen => FittingKeysOpen'
  <2> SUFFICES ASSUME FittingKeysOpen PROVE FittingKeysOpen'
    OBVIOUS
  <2>1. (FitsOpen(row.id, row.pullkey) /\ ~ATOMIC_REQUESTS) \/ ~table'[row.id].retired
    BY <1>1, <1>2 DEF FittingKeysOpen
  <2>2. ASSUME NEW t \in tickets' PROVE FitsOpen(t.sid, t.key)'
    <3>1. CASE t \in tickets
      BY <3>1, <1>5 DEF FittingKeysOpen
    <3>2. CASE t = new
      BY <3>2, <2>1, <1>1, <1>3, PullSettled DEF FitsOpen, OpenOrEnded
    <3> QED
      BY <3>1, <3>2, <1>1
  <2>3. ASSUME NEW v \in WebWorkers, handler'[v] = "get_reply", ~ATOMIC_REQUESTS
        PROVE  FitsOpen(submission[v].id, submission[v].pullkey)'
    <3>1. submission'[v] = submission[v] /\ FitsOpen(submission[v].id, submission[v].pullkey)
      BY <2>3, <1>1, PullSettled DEF FittingKeysOpen
    <3> QED
      BY <3>1, <2>3, <1>1, PullSettled DEF FitsOpen, OpenOrEnded
  <2>4. ASSUME NEW v \in WebWorkers, Pull!InPutResult(v)'
        PROVE  OpenOrEnded(submission[v].id)'
    <3>1. submission'[v] = submission[v] /\ OpenOrEnded(submission[v].id)
      BY <2>4, <1>1, PullSettled DEF FittingKeysOpen, Pull!InPutResult
    <3> QED
      BY <3>1, <1>1, <1>2, PullSettled DEF OpenOrEnded
  <2> QED
    BY <2>2, <2>3, <2>4 DEF FittingKeysOpen
<1> QED
  BY <1>1, <1>6, <1>7, <1>8, PullSettled DEF ReopenInv

LEMMA ReopenLock ==
  ASSUME ReopenInv, XInv', NEW w \in WebWorkers, Pulls(w), NEW t \in tickets,
         Pull!PutResultLock(w, t)
  PROVE  ReopenInv'
<1> DEFINE row == table[t.sid]
<1>1. /\ handler[w] = "idle" /\ t.sid \in DOMAIN table /\ row.pullkey = t.key
      /\ handler' = [handler EXCEPT ![w] = "put_post"]
      /\ submission' = [submission EXCEPT ![w] = row]
      /\ table' = table
      /\ (tickets' = tickets \ {t} /\ resends' = resends) \/ resends' = resends + 1
  BY DEF Pull!PutResultLock, Pull!KeyMatches, Pull!Serves, Pull!Sends
<1>2. row.id = t.sid /\ resends \in Nat
  BY <1>1 DEF ReopenInv, XInv, RowsHonest
<1>3. PullsOpen'
  BY <1>1, PullSettled DEF ReopenInv, PullsOpen
<1>4. ASSUME resends' = 0 PROVE KeyInOnePlace' /\ FittingKeysOpen'
  <2>1. resends = 0 /\ tickets' = tickets \ {t}
    BY <1>1, <1>2, <1>4
  <2>2. KeyInOnePlace /\ FittingKeysOpen
    BY <2>1 DEF ReopenInv
  <2>3. KeyInOnePlace'
    BY <2>1, <2>2, <1>1, PullSettled DEF KeyInOnePlace
  <2>4. OpenOrEnded(t.sid)
    BY <2>2, <1>1 DEF FittingKeysOpen, FitsOpen
  <2>5. FittingKeysOpen'
    BY <2>1, <2>2, <2>4, <1>1, <1>2, PullSettled
       DEF FittingKeysOpen, FitsOpen, OpenOrEnded, Pull!InPutResult
  <2> QED
    BY <2>3, <2>5
<1>5. resends' \in Nat
  BY <1>1, <1>2
<1> QED
  BY <1>3, <1>4, <1>5, PullSettled DEF ReopenInv

LEMMA ReopenPost ==
  ASSUME ReopenInv, XInv', NEW w \in WebWorkers, Pulls(w), Pull!PutResultPost(w)
  PROVE  ReopenInv'
<1>1. PICK success \in BOOLEAN : Pull!Serves(w, "put_save", Pull!Graded(submission[w], success))
  BY DEF Pull!PutResultPost
<1> DEFINE new == Pull!Graded(submission[w], success)
<1>2. submission[w] \in Row /\ handler[w] = "put_post"
  BY HeldRow DEF Pull!PutResultPost, ReopenInv
<1>3. new.id = submission[w].id /\ new.pullkey = submission[w].pullkey
  BY <1>2 DEF Pull!Graded, Row
<1> HIDE DEF new
<1>4. /\ handler' = [handler EXCEPT ![w] = "put_save"]
      /\ submission' = [submission EXCEPT ![w] = new]
      /\ UNCHANGED <<table, tickets, resends>>
  BY <1>1 DEF new, Pull!Serves, Pull!PutResultPost
<1>5. PullsOpen'
  BY <1>4, PullSettled DEF ReopenInv, PullsOpen
<1>6. KeyInOnePlace => KeyInOnePlace'
  BY <1>2, <1>3, <1>4, PullSettled DEF KeyInOnePlace
<1>7. FittingKeysOpen => FittingKeysOpen'
  BY <1>2, <1>3, <1>4, PullSettled DEF FittingKeysOpen, FitsOpen, OpenOrEnded, Pull!InPutResult
<1> QED
  BY <1>4, <1>5, <1>6, <1>7, PullSettled DEF ReopenInv

(* The key of the result that is saved is with nobody any more, and the row  *)
(* was locked for all other results.                                         *)
LEMMA ReopenPutSave ==
  ASSUME ReopenInv, XInv', NEW w \in WebWorkers, Pulls(w), Pull!PutResultSave(w)
  PROVE  ReopenInv'
<1> DEFINE row == submission[w]
<1>1. /\ handler[w] = "put_save"
      /\ handler' = [handler EXCEPT ![w] = "idle"]
      /\ submission' = [submission EXCEPT ![w] = NoSubmission]
      /\ UNCHANGED <<tickets, resends>>
      /\ table' = Saved(row)
  BY SameSave DEF Pull!PutResultSave, Pull!Replies, Pull!Serves
<1>2. /\ row \in Row
      /\ DOMAIN table' = DOMAIN table \cup {row.id}
      /\ table'[row.id].pullkey = row.pullkey
      /\ \A s \in DOMAIN table : s # row.id => table'[s] = table[s]
  BY <1>1, SavedCopy
<1>3. PullsOpen'
  BY <1>1, PullSettled DEF ReopenInv, PullsOpen
<1>4. KeyInOnePlace => KeyInOnePlace'
  BY <1>1, PullSettled DEF KeyInOnePlace
<1>5. ASSUME KeyInOnePlace, FittingKeysOpen PROVE FittingKeysOpen'
  <2>1. ASSUME NEW s, NEW k, k # row.pullkey, FitsOpen(s, k) PROVE FitsOpen(s, k)'
    BY <1>1, <1>2, <2>1, PullSettled DEF FitsOpen, OpenOrEnded
  <2>2. \A t \in tickets' : FitsOpen(t.sid, t.key)'
    BY <1>1, <1>5, <2>1 DEF KeyInOnePlace, FittingKeysOpen
  <2>3. ASSUME NEW v \in WebWorkers, handler'[v] = "get_reply", ~ATOMIC_REQUESTS
        PROVE  FitsOpen(submission[v].id, submission[v].pullkey)'
    <3>1. /\ v # w /\ handler[v] = "get_reply" /\ submission'[v] = submission[v]
          /\ FitsOpen(submission[v].id, submission[v].pullkey)
      BY <2>3, <1>1, <1>5, PullSettled DEF FittingKeysOpen
    <3>2. submission[v].pullkey # row.pullkey
      BY <3>1, <1>1, <1>5 DEF KeyInOnePlace
    <3> QED
      BY <3>1, <3>2, <1>1, <1>2, PullSettled DEF FitsOpen, OpenOrEnded
  <2>4. ASSUME NEW v \in WebWorkers, Pull!InPutResult(v)'
        PROVE  OpenOrEnded(submission[v].id)'
    <3>1. /\ v # w /\ Pull!InPutResult(v) /\ submission'[v] = submission[v]
          /\ OpenOrEnded(submission[v].id)
      BY <2>4, <1>1, <1>5, PullSettled DEF FittingKeysOpen, Pull!InPutResult
    <3>2. submission[v].id # row.id
      BY <3>1, <1>1, PullSettled DEF XInv, PutResultsLock, Pull!HoldsLock, Pull!InPutResult
    <3> QED
      BY <3>1, <3>2, <1>2, PullSettled DEF OpenOrEnded
  <2> QED
    BY <2>2, <2>3, <2>4 DEF FittingKeysOpen
<1> QED
  BY <1>1, <1>3, <1>4, <1>5, PullSettled DEF ReopenInv

(* An aborted request, a poll of an empty queue, a rejected result. *)
LEMMA ReopenQuiet ==
  ASSUME ReopenInv, XInv', NEW w \in WebWorkers, Pulls(w),
         table' = table, tickets' \subseteq tickets,
         resends' \in Nat, resends' = 0 => resends = 0,
         \/ UNCHANGED <<handler, submission>>
         \/ /\ handler' = [handler EXCEPT ![w] = "idle"]
            /\ submission' = [submission EXCEPT ![w] = NoSubmission]
  PROVE  ReopenInv'
<1>1. PullsOpen'
  BY PullSettled DEF ReopenInv, PullsOpen
<1>2. KeyInOnePlace => KeyInOnePlace'
  BY PullSettled DEF KeyInOnePlace
<1>3. FittingKeysOpen => FittingKeysOpen'
  BY PullSettled DEF FittingKeysOpen, FitsOpen, OpenOrEnded, Pull!InPutResult
<1> QED
  BY <1>1, <1>2, <1>3, PullSettled DEF ReopenInv

LEMMA ReopenPulls ==
  ASSUME ReopenInv, XInv', NEW w \in WebWorkers, Pulls(w)
  PROVE  ReopenInv'
<1>1. resends \in Nat
  BY DEF ReopenInv
<1>2. ASSUME Pull!Get(w) PROVE ReopenInv'
  <2>1. CASE Pull!GetSubmissionEmpty(w)
    BY <1>1, <2>1, ReopenQuiet DEF Pull!GetSubmissionEmpty, Pull!vars, Pull!tableVars, Pull!pullVars
  <2> QED
    BY <1>2, <2>1, ReopenRead, ReopenSave, ReopenCommit DEF Pull!Get
<1>3. ASSUME NEW t \in tickets, Pull!PutResultRejected(w, t) PROVE ReopenInv'
  <2>1. /\ UNCHANGED <<table, handler, submission>> /\ tickets' \subseteq tickets
        /\ resends' = resends \/ resends' = resends + 1
    BY <1>3 DEF Pull!PutResultRejected, Pull!Sends, Pull!tableVars
  <2> QED
    BY <1>1, <2>1, ReopenQuiet
<1>4. ASSUME Pull!Put(w) PROVE ReopenInv'
  BY <1>3, <1>4, ReopenLock, ReopenPost, ReopenPutSave DEF Pull!Put
<1>5. ASSUME Pull!RequestAborts(w) PROVE ReopenInv'
  <2>1. /\ UNCHANGED <<table, tickets, resends>>
        /\ handler' = [handler EXCEPT ![w] = "idle"]
        /\ submission' = [submission EXCEPT ![w] = NoSubmission]
    BY <1>5 DEF Pull!RequestAborts, Pull!RolledBack, Pull!Replies, Pull!Serves
  <2> QED
    BY <1>1, <2>1, ReopenQuiet
<1> QED
  BY <1>2, <1>4, <1>5, ReopenCommit DEF Pulls

LEMMA NextReopenInv == ReopenInv /\ [Next]_vars => ReopenInv'
<1> SUFFICES ASSUME ReopenInv, [Next]_vars PROVE ReopenInv'
  OBVIOUS
<1>1. XInv'
  BY StepXInv DEF ReopenInv
<1> QED
  BY <1>1, ReopenSubmits, ReopenPulls, ReopenPushes, ReopenCommands, ReopenOutside DEF Next, Step

(* A retired row is opened by a get_submission's old copy, by a notice the   *)
(* LMS did not take, or by such a result: one sent again, or one for a       *)
(* submission that was ended by another client than the graders.             *)
THEOREM ReopenedByThese == Spec => ReopenedOnlyByThese
<1>1. ASSUME ReopenInv, [Next]_vars, NEW s \in DOMAIN table \cap DOMAIN table',
             table[s].retired, ~table'[s].retired
      PROVE  \/ SavesCopy(s)
             \/ SavesUnheard(s)
             \/ SavesFailure(s) /\ (resends > 0 \/ EndedElsewhere(s))
  <2>1. XInv /\ (RequestSaves(s) \/ WorkerSaves(s) \/ CommandSaves(s))
    BY <1>1, WritersOfRows DEF Changes, IsEnded, ReopenInv
  <2>2. ASSUME NEW row \in Row, row.id = s, table' = Saved(row) PROVE ~row.retired
    BY <1>1, <2>1, <2>2, SavedRow DEF XInv, RowsHonest
  <2>3. CASE RequestSaves(s)
    <3>1. PICK w \in WebWorkers :
            /\ handler[w] \in {"get_save", "get_reply", "put_save"} /\ handler'[w] # handler[w]
            /\ submission[w].id = s /\ table' = Saved(submission[w])
      BY <2>3 DEF RequestSaves
    <3>2. submission[w] \in Row /\ (handler[w] = "put_save" /\ submission[w].lms_ack
                                      => submission[w].retired)
      BY <2>1, <3>1 DEF XInv, RequestsHonest
    <3>3. ~submission[w].retired
      BY <2>2, <3>1, <3>2
    <3>4. CASE handler[w] # "put_save"
      BY <3>1, <3>3, <3>4 DEF SavesCopy, WebWorkerOn
    <3>5. CASE handler[w] = "put_save"
      <4>1. SavesFailure(s)
        BY <3>1, <3>2, <3>3, <3>5 DEF SavesFailure, WebWorkerOn
      <4>2. resends = 0 => EndedElsewhere(s)
        BY <1>1, <3>1, <3>5 DEF ReopenInv, FittingKeysOpen, OpenOrEnded, Pull!InPutResult
      <4> QED
        BY <1>1, <4>1, <4>2 DEF ReopenInv
    <3> QED
      BY <3>4, <3>5
  <2>4. CASE WorkerSaves(s)
    <3>1. PICK p \in Workers :
            worker[p] = "saving" /\ delivery[p].id = s /\ table' = Saved(delivery[p])
      BY <2>4 DEF WorkerSaves
    <3>2. delivery[p] \in Row /\ delivery[p].retired
      BY <2>1, <3>1 DEF XInv, WorkersHonest
    <3> QED
      BY <2>2, <3>1, <3>2
  <2>5. CASE CommandSaves(s)
    <3>1. PICK c \in Commands :
            /\ current[c] # NoSubmission /\ current'[c] = NoSubmission
            /\ current[c].id = s /\ table' = Saved(current[c])
      BY <2>5 DEF CommandSaves
    <3>2. /\ current[c] \in Row /\ job[c] # NoJob
          /\ current[c].retired \/ (Cmd!Has(c, {"failed"}) /\ ~current[c].lms_ack)
      BY <2>1, <3>1 DEF XInv, CommandsHonest
    <3>3. ~current[c].retired
      BY <2>2, <3>1, <3>2
    <3> QED
      BY <3>1, <3>2, <3>3 DEF SavesUnheard, Cmd!Saves, Cmd!Holds
  <2> QED
    BY <2>1, <2>3, <2>4, <2>5
<1>2. ReopenInv /\ [Next]_vars =>
        \A s \in DOMAIN table \cap DOMAIN table' :
          table[s].retired /\ ~table'[s].retired =>
            \/ SavesCopy(s)
            \/ SavesUnheard(s)
            \/ SavesFailure(s) /\ (resends > 0 \/ EndedElsewhere(s))
  BY <1>1
<1> QED
  BY <1>2, InitReopenInv, NextReopenInv, PTL DEF Spec, ReopenedOnlyByThese
=============================================================================
