---------------------------- MODULE RetireProofs ----------------------------
(***************************************************************************)
(* Proofs about RetireCommands, for any number of commands of any kinds on *)
(* any number of submissions, interrupted anywhere.                        *)
(***************************************************************************)
EXTENDS RetireCommands, TLAPS

(* What a command may do with a row, for as long as it works on it. *)
Reason(j, row) ==
  /\ row.queue_name \in j.queues
  /\ \/ j.kind \in {"failed", "forced"} /\ HasFailed(row)
     \/ j.kind = "old" /\ row.arrival_time <= j.before

SnapshotsChosen ==
  \A c \in Commands : \A row \in snapshot[c] :
    job[c] # NoJob /\ (job[c].kind = "delete" \/ Chosen(job[c], row))

HandsJustified ==
  \A c \in Commands : current[c] # NoSubmission =>
    /\ job[c] # NoJob
    /\ Reason(job[c], current[c])
    /\ current[c].retired => current[c].id \in accounted
    /\ ~current[c].retired => job[c].kind = "failed" /\ ~current[c].lms_ack

(* A row, wherever it is: in the table, in the result of a query, in hand. *)
IsCopy(row) ==
  \/ \E s \in DOMAIN table : row = table[s]
  \/ \E c \in Commands : row \in snapshot[c]
  \/ \E c \in Commands : current[c] # NoSubmission /\ row = current[c]

Alike(x, y) == x.id = y.id /\ x.queue_name = y.queue_name /\ x.num_failures = y.num_failures

(* No command changes a queue or a count, so stale copies agree on them, also *)
(* with rows that were deleted and saved again.                              *)
CopiesAgree ==
  \A x, y \in Row : IsCopy(x) /\ IsCopy(y) /\ x.id = y.id => Alike(x, y)

CommandInv ==
  /\ CommandTypeOK
  /\ snapshot \in [Commands -> SUBSET Row]
  /\ current \in [Commands -> Row \cup {NoSubmission}]
  /\ RetiredIsNotified /\ SnapshotsChosen /\ HandsJustified /\ CopiesAgree

-----------------------------------------------------------------------------
LEMMA InitCommandInv == Init => CommandInv
<1> SUFFICES ASSUME Init PROVE CommandInv
  OBVIOUS
<1>1. DOMAIN table = Ids /\ \A s \in Ids : table[s] \in Row /\ table[s].id = s /\ ~table[s].retired
  <2>1. PICK q \in [Ids -> Queues], url \in [Ids -> Urls], t \in [Ids -> 0..2],
            n \in [Ids -> 0..MAX_NUMBER_OF_FAILURES + 1], k \in [Ids -> Keys] :
          table = [s \in Ids |->
            [NewSubmission(s, q[s], url[s], t[s]) EXCEPT
               !.num_failures = n[s],
               !.pull_time = IF n[s] = 0 THEN Null ELSE 2,
               !.pullkey = IF n[s] = 0 THEN NoKey ELSE k[s]]]
    BY DEF Init
  <2> SUFFICES ASSUME NEW s \in Ids
               PROVE  table[s] \in Row /\ table[s].id = s /\ ~table[s].retired
    BY <2>1
  <2> DEFINE pulled == IF n[s] = 0 THEN Null ELSE 2
             key == IF n[s] = 0 THEN NoKey ELSE k[s]
  <2>2. pulled \in Times /\ key \in Keys \cup {NoKey} /\ n[s] \in Nat
    BY MaxFailuresAssumption DEF Times
  <2>3. table[s] = [NewSubmission(s, q[s], url[s], t[s]) EXCEPT
                      !.num_failures = n[s], !.pull_time = pulled, !.pullkey = key]
    BY <2>1
  <2> HIDE DEF pulled, key
  <2>4. q[s] \in Queues /\ url[s] \in Urls /\ t[s] \in Nat
    OBVIOUS
  <2> QED
    BY <2>2, <2>3, <2>4 DEF NewSubmission, Row, Times
<1>2. CommandInit /\ now = 2 /\ faults = 0 /\ acked = {}
  BY DEF Init
<1>3. CommandTypeOK /\ snapshot \in [Commands -> SUBSET Row]
      /\ current \in [Commands -> Row \cup {NoSubmission}]
  BY <1>1, <1>2 DEF CommandInit, CommandTypeOK, TableTypeOK
<1>4. RetiredIsNotified /\ SnapshotsChosen /\ HandsJustified
  BY <1>1, <1>2 DEF CommandInit, RetiredIsNotified, SnapshotsChosen, HandsJustified
<1>5. CopiesAgree
  BY <1>1, <1>2 DEF CommandInit, CopiesAgree, IsCopy, Alike
<1> QED
  BY <1>3, <1>4, <1>5 DEF CommandInv

-----------------------------------------------------------------------------
(* Copies go on agreeing if every one of them comes from one like it. *)
LEMMA CopiesGoOnAgreeing ==
  ASSUME CopiesAgree,
         \A y \in Row : IsCopy(y)' => \E x \in Row : IsCopy(x) /\ Alike(x, y)
  PROVE  CopiesAgree'
<1> SUFFICES ASSUME NEW x \in Row, NEW y \in Row, IsCopy(x)', IsCopy(y)', x.id = y.id
             PROVE  Alike(x, y)
  BY DEF CopiesAgree, Alike
<1>1. PICK u \in Row : IsCopy(u) /\ Alike(u, x)
  OBVIOUS
<1>2. PICK v \in Row : IsCopy(v) /\ Alike(v, y)
  OBVIOUS
<1> QED
  BY <1>1, <1>2 DEF CopiesAgree, Alike

(* A command starts or ends: it holds what its query found, or nothing. *)
LEMMA StartsKeeps ==
  ASSUME CommandInv, NEW c \in Commands, NEW j \in Jobs \cup {NoJob}, NEW rows,
         Starts(c, j, rows), UNCHANGED <<table, lock, now, acked, accounted>>, faults' \in Nat,
         \A row \in rows : j # NoJob /\ Chosen(j, row) /\ \E s \in DOMAIN table : row = table[s]
  PROVE  CommandInv'
<1>1. /\ job' = [job EXCEPT ![c] = j] /\ snapshot' = [snapshot EXCEPT ![c] = rows]
      /\ current' = [current EXCEPT ![c] = NoSubmission]
  BY DEF Starts
<1>2. rows \subseteq Row
  BY DEF CommandInv, CommandTypeOK, TableTypeOK
<1>3. CommandTypeOK' /\ snapshot' \in [Commands -> SUBSET Row]
      /\ current' \in [Commands -> Row \cup {NoSubmission}]
  BY <1>1, <1>2 DEF CommandInv, CommandTypeOK, TableTypeOK
<1>4. RetiredIsNotified'
  BY DEF CommandInv, RetiredIsNotified
<1>5. SnapshotsChosen' /\ HandsJustified'
  BY <1>1 DEF CommandInv, CommandTypeOK, SnapshotsChosen, HandsJustified
<1>6. \A y \in Row : IsCopy(y)' => IsCopy(y)
  BY <1>1 DEF CommandInv, IsCopy
<1>7. CopiesAgree'
  BY <1>6 DEF CommandInv, CopiesAgree
<1> QED
  BY <1>3, <1>4, <1>5, <1>7 DEF CommandInv

(* A command has dealt with a row: the one in hand differs from the one the  *)
(* query found in lms_ack and retired only.                                  *)
LEMMA TakesKeeps ==
  ASSUME CommandInv, NEW c \in Commands, NEW row \in snapshot[c],
         NEW ack \in BOOLEAN, NEW ended \in BOOLEAN,
         job[c].kind # "delete",
         Takes(c, row, [row EXCEPT !.lms_ack = ack, !.retired = ended]),
         accounted \subseteq accounted', accounted' \subseteq Ids, acked' \subseteq Ids,
         ended => row.id \in accounted',
         ~ended => job[c].kind = "failed" /\ ~ack
  PROVE  CommandInv'
<1> DEFINE new == [row EXCEPT !.lms_ack = ack, !.retired = ended]
<1>1. /\ snapshot' = [snapshot EXCEPT ![c] = @ \ {row}]
      /\ current' = [current EXCEPT ![c] = new]
      /\ UNCHANGED <<table, lock, now, faults, job>>
  BY DEF Takes
<1>2. row \in Row /\ job[c] # NoJob /\ Reason(job[c], row)
  BY DEF CommandInv, SnapshotsChosen, Chosen, Reason
<1>3. /\ new \in Row /\ Alike(row, new) /\ new.arrival_time = row.arrival_time
      /\ new.retired = ended /\ new.lms_ack = ack
  BY <1>2 DEF Row, Alike
<1> HIDE DEF new
<1>4. CommandTypeOK' /\ snapshot' \in [Commands -> SUBSET Row]
      /\ current' \in [Commands -> Row \cup {NoSubmission}]
  BY <1>1, <1>3 DEF CommandInv, CommandTypeOK, TableTypeOK
<1>5. RetiredIsNotified'
  BY <1>1 DEF CommandInv, RetiredIsNotified
<1>6. SnapshotsChosen'
  BY <1>1 DEF CommandInv, SnapshotsChosen
<1>7. HandsJustified'
  <2>1. Reason(job[c], new)
    BY <1>2, <1>3 DEF Reason, HasFailed, Alike
  <2> QED
    BY <1>1, <1>2, <1>3, <2>1 DEF CommandInv, CommandTypeOK, HandsJustified, Alike
<1>8. \A y \in Row : IsCopy(y)' => IsCopy(y) \/ y = new
  BY <1>1 DEF CommandInv, IsCopy
<1>9. CopiesAgree'
  <2>1. IsCopy(row)
    BY DEF IsCopy
  <2> QED
    BY <1>2, <1>3, <1>8, <2>1, CopiesGoOnAgreeing DEF CommandInv, Alike
<1> QED
  BY <1>4, <1>5, <1>6, <1>7, <1>9 DEF CommandInv

(* save() writes a row like the one it is given, and no other. *)
LEMMA SavedCopy ==
  ASSUME NEW row \in Row, now \in Nat
  PROVE  /\ DOMAIN Saved(row) = DOMAIN table \cup {row.id}
         /\ Saved(row)[row.id] \in Row /\ Alike(row, Saved(row)[row.id])
         /\ Saved(row)[row.id].retired = row.retired
         /\ row.id \in DOMAIN table => Saved(row)[row.id] = row
         /\ \A s \in DOMAIN table : s # row.id => Saved(row)[s] = table[s]
<1>1. /\ Stored(row) \in Row /\ Alike(row, Stored(row)) /\ Stored(row).retired = row.retired
      /\ row.id \in DOMAIN table => Stored(row) = row
  BY DEF Stored, Row, Alike
<1> QED
  BY <1>1 DEF Saved

LEMMA SaveKeeps ==
  ASSUME CommandInv, NEW c \in Commands, Save(c)
  PROVE  CommandInv'
<1> DEFINE row == current[c]
<1>1. /\ row # NoSubmission /\ row \in Row /\ row.id \in Ids /\ now \in Nat
      /\ row.retired => row.id \in accounted
      /\ table' = Saved(row) /\ current' = [current EXCEPT ![c] = NoSubmission]
      /\ UNCHANGED <<lock, now, faults, acked, job, snapshot, accounted>>
  BY DEF Save, CommandInv, CommandTypeOK, TableTypeOK, HandsJustified, Row
<1>2. PICK r \in Row : r = row
  BY <1>1
<1>3. /\ DOMAIN table' = DOMAIN table \cup {r.id}
      /\ table'[r.id] \in Row /\ Alike(r, table'[r.id]) /\ table'[r.id].retired = r.retired
      /\ \A s \in DOMAIN table : s # r.id => table'[s] = table[s]
  BY <1>1, <1>2, SavedCopy
<1>4. CommandTypeOK' /\ snapshot' \in [Commands -> SUBSET Row]
      /\ current' \in [Commands -> Row \cup {NoSubmission}]
  BY <1>1, <1>2, <1>3 DEF CommandInv, CommandTypeOK, TableTypeOK, Alike
<1>5. RetiredIsNotified'
  BY <1>1, <1>2, <1>3 DEF CommandInv, RetiredIsNotified
<1>6. SnapshotsChosen' /\ HandsJustified'
  BY <1>1 DEF CommandInv, SnapshotsChosen, HandsJustified
<1>7. \A y \in Row : IsCopy(y)' => IsCopy(y) \/ Alike(r, y)
  BY <1>1, <1>3 DEF CommandInv, IsCopy
<1>8. CopiesAgree'
  <2>1. IsCopy(r)
    BY <1>1, <1>2 DEF IsCopy
  <2> QED
    BY <1>7, <2>1, CopiesGoOnAgreeing DEF CommandInv, Alike
<1> QED
  BY <1>4, <1>5, <1>6, <1>8 DEF CommandInv

(* A chunk is selected or deleted: its rows are rows of the table. *)
LEMMA DeleteKeeps ==
  ASSUME CommandInv, NEW c \in Commands, SelectChunk(c) \/ DeleteChunk(c)
  PROVE  CommandInv'
<1>1. PICK rows \in SUBSET Rows : snapshot' = [snapshot EXCEPT ![c] = rows]
  <2>1. ASSUME SelectChunk(c) PROVE \E rows \in SUBSET Rows : snapshot' = [snapshot EXCEPT ![c] = rows]
    BY <2>1 DEF SelectChunk, Chunks, Old, Rows
  <2>2. ASSUME DeleteChunk(c) PROVE snapshot' = [snapshot EXCEPT ![c] = {}]
    BY <2>2 DEF DeleteChunk
  <2> QED
    BY <2>1, <2>2
<1>2. /\ DOMAIN table' \subseteq DOMAIN table
      /\ \A s \in DOMAIN table' : table'[s] = table[s]
      /\ UNCHANGED <<lock, now, faults, acked, job, current, accounted>>
      /\ job[c] # NoJob /\ job[c].kind = "delete"
  BY DEF SelectChunk, DeleteChunk, Has, tableVars
<1>3. rows \subseteq Row /\ \A row \in rows : \E s \in DOMAIN table : row = table[s]
  BY DEF Rows, CommandInv, CommandTypeOK, TableTypeOK
<1>4. CommandTypeOK' /\ snapshot' \in [Commands -> SUBSET Row]
      /\ current' \in [Commands -> Row \cup {NoSubmission}]
  <2>1. snapshot' \in [Commands -> SUBSET Row]
    BY <1>1, <1>3 DEF CommandInv
  <2> QED
    BY <1>2, <2>1 DEF CommandInv, CommandTypeOK, TableTypeOK
<1>5. RetiredIsNotified' /\ SnapshotsChosen' /\ HandsJustified'
  BY <1>1, <1>2 DEF CommandInv, RetiredIsNotified, SnapshotsChosen, HandsJustified
<1>6. \A y \in Row : IsCopy(y)' => IsCopy(y)
  BY <1>1, <1>2, <1>3 DEF CommandInv, IsCopy
<1> QED
  BY <1>4, <1>5, <1>6 DEF CommandInv, CopiesAgree

LEMMA NextCommandInv ==
  ASSUME CommandInv, [Next]_vars
  PROVE  CommandInv'
<1>1. ASSUME NEW c \in Commands, Start(c) PROVE CommandInv'
  <2>1. PICK j \in Jobs, rows \in SUBSET Rows : rows = Query(j) /\ Starts(c, j, rows)
    BY <1>1 DEF Start, Query
  <2>2. UNCHANGED <<table, lock, now, acked, accounted>> /\ faults' \in Nat
    BY <1>1 DEF Start, tableVars, CommandInv, CommandTypeOK, TableTypeOK
  <2>3. \A row \in rows :
          j # NoJob /\ Chosen(j, row) /\ \E s \in DOMAIN table : row = table[s]
    BY <2>1, NoJobAssumption DEF Query, Rows
  <2> QED
    BY <2>1, <2>2, <2>3, StartsKeeps
<1>2. ASSUME NEW c \in Commands, Finish(c) \/ Abort(c) PROVE CommandInv'
  <2>1. /\ Starts(c, NoJob, {}) /\ faults' \in Nat
        /\ UNCHANGED <<table, lock, now, acked, accounted>>
    BY <1>2 DEF Finish, Abort, Fault, tableVars, CommandInv, CommandTypeOK, TableTypeOK
  <2> QED
    BY <2>1, StartsKeeps
<1>3. ASSUME NEW c \in Commands, Notify(c) PROVE CommandInv'
  <2>1. PICK row \in snapshot[c], success \in BOOLEAN :
          /\ Takes(c, row, Notified(job[c], row, success))
          /\ accounted' = accounted \cup {row.id}
          /\ acked' = IF success THEN acked \cup {row.id} ELSE acked
    BY <1>3 DEF Notify
  <2> DEFINE ended == job[c].kind = "old" \/ success
  <2>2. row.id \in Ids /\ ended \in BOOLEAN
    BY DEF CommandInv, Row
  <2>3. job[c].kind # "delete" /\ (~ended => job[c].kind = "failed" /\ ~success)
    BY <1>3 DEF Notify, Has
  <2>4. Takes(c, row, [row EXCEPT !.lms_ack = success, !.retired = ended])
    BY <2>1 DEF Notified
  <2> HIDE DEF ended
  <2> QED
    BY <2>1, <2>2, <2>3, <2>4, TakesKeeps DEF CommandInv, CommandTypeOK, TableTypeOK
<1>4. ASSUME NEW c \in Commands, RetireForced(c) PROVE CommandInv'
  <2>1. job[c].kind # "delete" /\ \E row \in snapshot[c] :
          /\ Takes(c, row, [row EXCEPT !.retired = TRUE])
          /\ accounted' = accounted \cup {row.id}
    BY <1>4 DEF RetireForced, WithoutNotice, Has
  <2> PICK row \in snapshot[c] :
         /\ Takes(c, row, [row EXCEPT !.retired = TRUE])
         /\ accounted' = accounted \cup {row.id}
    BY <2>1
  <2>2. row \in Row /\ row.id \in Ids /\ row.lms_ack \in BOOLEAN
    BY DEF CommandInv, Row
  <2>3. [row EXCEPT !.retired = TRUE] = [row EXCEPT !.lms_ack = row.lms_ack, !.retired = TRUE]
    BY <2>2 DEF Row
  <2> QED
    BY <1>4, <2>1, <2>2, <2>3, TakesKeeps DEF RetireForced, CommandInv, CommandTypeOK, TableTypeOK
<1>5. ASSUME UNCHANGED vars PROVE CommandInv'
  BY <1>5 DEF vars, tableVars, commandVars, CommandInv, CommandTypeOK, TableTypeOK,
              RetiredIsNotified, SnapshotsChosen, HandsJustified, CopiesAgree, IsCopy
<1> QED
  BY <1>1, <1>2, <1>3, <1>4, <1>5, SaveKeeps, DeleteKeeps DEF Next, Step

-----------------------------------------------------------------------------
(* The inductive invariant of the commands: what they hold in memory was      *)
(* chosen for a reason that no other command takes away.                     *)
THEOREM CommandInvariant == Spec => []CommandInv
  BY InitCommandInv, NextCommandInv, PTL DEF Spec

(* Type correctness: commands hold whole rows, and save whole rows. *)
THEOREM CommandTypes == Spec => []CommandTypeOK
<1>1. CommandInv => CommandTypeOK
  BY DEF CommandInv
<1> QED
  BY <1>1, CommandInvariant, PTL

(* However many commands overlap and wherever they are interrupted, no row   *)
(* is retired without a call to the LMS, unless --force asked for that.      *)
THEOREM NoneRetiredInSilence == Spec => []RetiredIsNotified
<1>1. CommandInv => RetiredIsNotified
  BY DEF CommandInv
<1> QED
  BY <1>1, CommandInvariant, PTL

(* Only save() changes a row that stays. *)
LEMMA WriterOfRow ==
  ASSUME CommandInv, [Next]_vars, NEW s \in DOMAIN table \cap DOMAIN table',
         table'[s].retired # table[s].retired
  PROVE  \E c \in Commands : Saves(c, s) /\ table'[s] = current[c]
<1>1. ASSUME NEW c \in Commands, Save(c) PROVE Saves(c, s) /\ table'[s] = current[c]
  <2>1. /\ current[c] # NoSubmission /\ current[c] \in Row /\ job[c] # NoJob /\ now \in Nat
        /\ table' = Saved(current[c]) /\ current'[c] = NoSubmission
    BY <1>1 DEF Save, CommandInv, CommandTypeOK, TableTypeOK, HandsJustified
  <2>2. s = current[c].id
    BY <2>1, SavedCopy
  <2> QED
    BY <2>1, <2>2, SavedCopy DEF Saves, Holds
<1>2. ASSUME NEW c \in Commands, Start(c) \/ Notify(c) \/ RetireForced(c) \/ Finish(c) \/ Abort(c)
      PROVE  FALSE
  BY <1>2 DEF Start, Notify, RetireForced, Finish, Abort, Takes, tableVars
<1>3. ASSUME NEW c \in Commands, SelectChunk(c) \/ DeleteChunk(c) PROVE FALSE
  BY <1>3 DEF SelectChunk, DeleteChunk, tableVars
<1>4. \E c \in Commands : Save(c)
  BY <1>2, <1>3 DEF Next, Step, vars, tableVars
<1> QED
  BY <1>1, <1>4

(* The reason for which a command retires a row still holds when it saves    *)
(* the copy, whatever the other commands have done to the row since.         *)
THEOREM RetiredWithReason == Spec => RetiredForAReason
<1> DEFINE HasReason(s) ==
      \E c \in Commands :
        /\ Saves(c, s)
        /\ \/ Chosen(job[c], table[s])
           \/ Has(c, {"old"}) /\ table[s].queue_name \in job[c].queues
                /\ current[c].arrival_time < table[s].arrival_time
        /\ Has(c, {"failed", "forced"}) => table[s].num_failures # 0
    Reasoned ==
      \A s \in DOMAIN table \cap DOMAIN table' :
        ~table[s].retired /\ table'[s].retired => HasReason(s)
<1>1. CommandInv /\ [Next]_vars => [Reasoned]_vars
  <2> SUFFICES ASSUME CommandInv, [Next]_vars, NEW s \in DOMAIN table \cap DOMAIN table',
                      ~table[s].retired, table'[s].retired
               PROVE  HasReason(s)
    OBVIOUS
  <2>1. PICK c \in Commands : Saves(c, s) /\ table'[s] = current[c]
    BY WriterOfRow
  <2>2. /\ current[c] \in Row /\ table[s] \in Row /\ table[s].id = current[c].id
        /\ job[c] \in Job /\ Reason(job[c], current[c])
    BY <2>1, JobsAssumption
       DEF Saves, Holds, CommandInv, CommandTypeOK, TableTypeOK, HandsJustified
  <2>3. Alike(table[s], current[c])
    BY <2>1, <2>2 DEF CommandInv, CopiesAgree, IsCopy, Saves, Holds
  <2>4. table[s].queue_name \in job[c].queues
    BY <2>2, <2>3 DEF Reason, Alike
  <2>5. CASE job[c].kind \in {"failed", "forced"} /\ HasFailed(current[c])
    <3>1. Chosen(job[c], table[s]) /\ table[s].num_failures # 0
      BY <2>3, <2>4, <2>5 DEF Chosen, HasFailed, Alike
    <3> QED
      BY <2>1, <3>1
  <2>6. CASE job[c].kind = "old" /\ current[c].arrival_time <= job[c].before
    <3>1. /\ current[c].arrival_time \in Nat /\ table[s].arrival_time \in Nat
          /\ job[c].before \in Nat
      BY <2>2 DEF Row, Job
    <3>2. \/ table[s].arrival_time <= job[c].before
          \/ current[c].arrival_time < table[s].arrival_time
      BY <2>6, <3>1
    <3>3. Has(c, {"old"}) /\ ~Has(c, {"failed", "forced"})
      BY <2>1, <2>6 DEF Has, Saves, Holds
    <3>4. \/ Chosen(job[c], table[s])
          \/ current[c].arrival_time < table[s].arrival_time
      BY <2>4, <2>6, <3>2 DEF Chosen
    <3> QED
      BY <2>1, <2>4, <3>3, <3>4
  <2> QED
    BY <2>2, <2>5, <2>6 DEF Reason
<1>2. [][Reasoned]_vars <=> RetiredForAReason
  BY PTL DEF RetiredForAReason
<1> QED
  BY <1>1, <1>2, CommandInvariant, PTL DEF Spec

(* Beside any other commands, only a retire_failed_submissions whose notice  *)
(* the LMS did not take makes a retired row available again.                 *)
THEOREM ReopenedByFailedNotice == Spec => ReopenedOnlyByFailedNotice
<1> DEFINE Reopened ==
      \A s \in DOMAIN table \cap DOMAIN table' :
       table[s].retired /\ ~table'[s].retired =>
         \E c \in Commands : Has(c, {"failed"}) /\ Saves(c, s) /\ ~current[c].lms_ack
<1>1. CommandInv /\ [Next]_vars => [Reopened]_vars
  <2> SUFFICES ASSUME CommandInv, [Next]_vars, NEW s \in DOMAIN table \cap DOMAIN table',
                      table[s].retired, ~table'[s].retired
               PROVE  \E c \in Commands :
                        Has(c, {"failed"}) /\ Saves(c, s) /\ ~current[c].lms_ack
    OBVIOUS
  <2>1. PICK c \in Commands : Saves(c, s) /\ table'[s] = current[c]
    BY WriterOfRow
  <2> QED
    BY <2>1 DEF Saves, Holds, Has, CommandInv, HandsJustified
<1>2. [][Reopened]_vars <=> ReopenedOnlyByFailedNotice
  BY PTL DEF ReopenedOnlyByFailedNotice
<1> QED
  BY <1>1, <1>2, CommandInvariant, PTL DEF Spec

-----------------------------------------------------------------------------
(* Whoever has a row in hand has called the LMS about it (or was spared). *)
HandsAccounted == \A c \in Commands : current[c] # NoSubmission => current[c].id \in accounted

(* What a running command was called for is behind it or before it. *)
NothingOverlooked ==
  \A c \in Commands : job[c] # NoJob =>
    \A s \in DOMAIN table : Due(job[c], table[s]) =>
      s \in accounted \/ \E row \in snapshot[c] : row.id = s

DueInv == CommandInv /\ HandsAccounted /\ NothingOverlooked

(* The query finds every row it was made for that is not retired already. *)
LEMMA QueryFindsTheDue ==
  ASSUME CommandInv, NEW j \in Jobs, NEW s \in DOMAIN table, Due(j, table[s])
  PROVE  s \in accounted \/ \E row \in Query(j) : row.id = s
<1>1. table[s] \in Row /\ table[s].id = s /\ (table[s].retired => s \in accounted)
  BY DEF CommandInv, CommandTypeOK, TableTypeOK, RetiredIsNotified
<1>2. table[s].num_failures \in Nat /\ table[s].arrival_time \in Nat /\ j.before \in Nat
  BY <1>1, JobsAssumption DEF Row, Job
<1>3. ~table[s].retired => Chosen(j, table[s])
  BY <1>2, MaxFailuresAssumption DEF Due, Chosen, HasFailed
<1> QED
  BY <1>1, <1>3 DEF Query, Rows

(* A command that has dealt with a row has accounted for it. *)
LEMMA TakesOverlooksNothing ==
  ASSUME DueInv, NEW c \in Commands, NEW row \in snapshot[c], NEW outcome,
         Takes(c, row, outcome), outcome.id = row.id, accounted' = accounted \cup {row.id}
  PROVE  HandsAccounted' /\ NothingOverlooked'
<1>1. /\ snapshot' = [snapshot EXCEPT ![c] = @ \ {row}]
      /\ current' = [current EXCEPT ![c] = outcome]
      /\ UNCHANGED <<table, job>>
      /\ snapshot \in [Commands -> SUBSET Row]
      /\ current \in [Commands -> Row \cup {NoSubmission}]
  BY DEF Takes, DueInv, CommandInv
<1>2. HandsAccounted'
  BY <1>1 DEF DueInv, HandsAccounted
<1>3. NothingOverlooked'
  BY <1>1 DEF DueInv, NothingOverlooked, Due
<1> QED
  BY <1>2, <1>3

(* Another command's save puts back a row that it has accounted for; a        *)
(* deletion only takes rows away.                                            *)
LEMMA WritesOverlookNothing ==
  ASSUME DueInv, NEW c \in Commands, Save(c) \/ SelectChunk(c) \/ DeleteChunk(c)
  PROVE  HandsAccounted' /\ NothingOverlooked'
<1>1. ASSUME Save(c) PROVE HandsAccounted' /\ NothingOverlooked'
  <2>1. /\ current[c] \in Row /\ current[c].id \in accounted /\ now \in Nat
        /\ table' = Saved(current[c]) /\ current' = [current EXCEPT ![c] = NoSubmission]
        /\ current \in [Commands -> Row \cup {NoSubmission}]
        /\ UNCHANGED <<job, snapshot, accounted>>
    BY <1>1 DEF Save, DueInv, CommandInv, CommandTypeOK, TableTypeOK, HandsAccounted
  <2>2. \A s \in DOMAIN table' : s \in accounted \/ (s \in DOMAIN table /\ table'[s] = table[s])
    BY <2>1, SavedCopy
  <2> QED
    BY <2>1, <2>2 DEF DueInv, HandsAccounted, NothingOverlooked, Due
<1>2. ASSUME SelectChunk(c) \/ DeleteChunk(c) PROVE HandsAccounted' /\ NothingOverlooked'
  <2>1. /\ UNCHANGED <<job, current, accounted>> /\ job[c].kind = "delete"
        /\ DOMAIN table' \subseteq DOMAIN table /\ \A s \in DOMAIN table' : table'[s] = table[s]
        /\ \A d \in Commands \ {c} : snapshot'[d] = snapshot[d]
    BY <1>2 DEF SelectChunk, DeleteChunk, Has, tableVars, DueInv, CommandInv
  <2> QED
    BY <2>1 DEF DueInv, HandsAccounted, NothingOverlooked, Due
<1> QED
  BY <1>1, <1>2

LEMMA NextDueInv ==
  ASSUME DueInv, [Next]_vars
  PROVE  DueInv'
<1>1. CommandInv'
  BY NextCommandInv DEF DueInv
<1>2. ASSUME NEW c \in Commands, Start(c) PROVE HandsAccounted' /\ NothingOverlooked'
  <2>1. PICK j \in Jobs : /\ job' = [job EXCEPT ![c] = j]
                          /\ snapshot' = [snapshot EXCEPT ![c] = Query(j)]
                          /\ current' = [current EXCEPT ![c] = NoSubmission]
                          /\ UNCHANGED <<table, accounted>>
    BY <1>2 DEF Start, Starts, tableVars
  <2>2. \A s \in DOMAIN table : Due(j, table[s]) =>
          s \in accounted \/ \E row \in Query(j) : row.id = s
    BY QueryFindsTheDue DEF DueInv
  <2> QED
    BY <2>1, <2>2 DEF DueInv, CommandInv, CommandTypeOK, HandsAccounted, NothingOverlooked, Due
<1>3. ASSUME NEW c \in Commands, Finish(c) \/ Abort(c) PROVE HandsAccounted' /\ NothingOverlooked'
  BY <1>3 DEF Finish, Abort, Starts, tableVars, DueInv, CommandInv, CommandTypeOK,
              HandsAccounted, NothingOverlooked, Due
<1>4. ASSUME NEW c \in Commands, Notify(c) PROVE HandsAccounted' /\ NothingOverlooked'
  <2>1. PICK row \in snapshot[c], success \in BOOLEAN :
          /\ Takes(c, row, Notified(job[c], row, success))
          /\ accounted' = accounted \cup {row.id}
    BY <1>4 DEF Notify
  <2>2. Notified(job[c], row, success).id = row.id
    BY DEF Notified, DueInv, CommandInv, Row
  <2> QED
    BY <2>1, <2>2, TakesOverlooksNothing
<1>5. ASSUME NEW c \in Commands, RetireForced(c) PROVE HandsAccounted' /\ NothingOverlooked'
  <2>1. PICK row \in snapshot[c] :
          /\ Takes(c, row, [row EXCEPT !.retired = TRUE])
          /\ accounted' = accounted \cup {row.id}
    BY <1>5 DEF RetireForced, WithoutNotice, Has
  <2>2. [row EXCEPT !.retired = TRUE].id = row.id
    BY DEF DueInv, CommandInv, Row
  <2> QED
    BY <2>1, <2>2, TakesOverlooksNothing
<1>6. ASSUME UNCHANGED vars PROVE HandsAccounted' /\ NothingOverlooked'
  BY <1>6 DEF vars, tableVars, commandVars, DueInv, HandsAccounted, NothingOverlooked, Due
<1> QED
  BY <1>1, <1>2, <1>3, <1>4, <1>5, <1>6, WritesOverlookNothing DEF Next, Step, DueInv

(* A command that is not interrupted leaves out nothing it was called for,   *)
(* although it queries only once and the table changes beside it.            *)
THEOREM LeavesNoneOut == Spec => NoneLeftOut
<1> DEFINE Complete ==
      \A c \in Commands : job[c] # NoJob /\ job'[c] = NoJob /\ faults' = faults =>
        \A s \in DOMAIN table : Due(job[c], table[s]) => s \in accounted
<1>1. Init => DueInv
  BY InitCommandInv DEF Init, CommandInit, DueInv, HandsAccounted, NothingOverlooked
<1>2. DueInv /\ [Next]_vars => [Complete]_vars
  <2> SUFFICES ASSUME DueInv, [Next]_vars, NEW c \in Commands,
                      job[c] # NoJob, job'[c] = NoJob, faults' = faults,
                      NEW s \in DOMAIN table, Due(job[c], table[s])
               PROVE  s \in accounted
    OBVIOUS
  <2>1. faults \in Nat /\ job \in [Commands -> Jobs \cup {NoJob}]
    BY DEF DueInv, CommandInv, CommandTypeOK, TableTypeOK
  <2>2. ASSUME NEW d \in Commands, Start(d) PROVE FALSE
    BY <2>1, <2>2, NoJobAssumption DEF Start, Starts
  <2>3. ASSUME NEW d \in Commands, Abort(d) PROVE FALSE
    BY <2>1, <2>3 DEF Abort, Fault
  <2>4. ASSUME NEW d \in Commands, Finish(d) PROVE snapshot[c] = {}
    BY <2>1, <2>4 DEF Finish, Starts
  <2>5. ASSUME NEW d \in Commands, Notify(d) \/ RetireForced(d) PROVE FALSE
    BY <2>5 DEF Notify, RetireForced, Takes
  <2>6. ASSUME NEW d \in Commands, Save(d) \/ SelectChunk(d) \/ DeleteChunk(d) PROVE FALSE
    BY <2>6 DEF Save, SelectChunk, DeleteChunk
  <2>7. snapshot[c] = {}
    BY <2>2, <2>3, <2>4, <2>5, <2>6 DEF Next, Step, vars, commandVars
  <2> QED
    BY <2>7 DEF DueInv, NothingOverlooked
<1>3. DueInv /\ [Next]_vars => DueInv'
  BY NextDueInv
<1>4. [][Complete]_vars <=> NoneLeftOut
  BY PTL DEF NoneLeftOut
<1> QED
  BY <1>1, <1>2, <1>3, <1>4, PTL DEF Spec
=============================================================================
