----------------------------- MODULE PullProofs -----------------------------
(***************************************************************************)
(* Proofs about PullInterface, for any number of submissions, graders and  *)
(* faults, in three parts.                                                 *)
(*                                                                         *)
(* 1. PullInv, for any number of web workers and of results sent again: a  *)
(*    row (or a copy of a row that a request will write back) claims only  *)
(*    what happened, and what put_result read under its lock is still what *)
(*    the table says.  From it, ReopenInv: a key is in one place unless a  *)
(*    result is sent again, which settles who opens a finished submission. *)
(* 2. SerialInv, when one web worker serves all requests, so that none     *)
(*    overlap.  What one more worker breaks is made explicit: the copy     *)
(*    that a request holds is the row of the table.                        *)
(* 3. PromiseInv, when graders also send each result once: PullInterface   *)
(*    implements LeaseQueue.  A lease is the write of a pull, a result the *)
(*    save of put_result; every other step leaves the rows alone.  What    *)
(*    the queue promises is then true of the table, and the LMS takes one  *)
(*    grade of each submission.                                            *)
(***************************************************************************)
EXTENDS PullInterface, TLAPS

-----------------------------------------------------------------------------
(* 1. Any number of web workers: lemmas about rows *)

(* The stored row is what was saved, but for the time of arrival. *)
SameClaims(new, row) ==
  /\ new \in Row
  /\ new.id = row.id /\ new.num_failures = row.num_failures
  /\ new.lms_ack = row.lms_ack /\ new.retired = row.retired

(* save() writes the row of its id, inserting it if need be, and no other.   *)
LEMMA SavedRow ==
  ASSUME NEW row \in Row, now \in Nat
  PROVE  /\ DOMAIN Saved(row) = DOMAIN table \cup {row.id}
         /\ SameClaims(Saved(row)[row.id], row)
         /\ \A s \in DOMAIN table : s # row.id => Saved(row)[s] = table[s]
<1>1. SameClaims(Stored(row), row)
  BY DEF Stored, SameClaims, Row
<1> QED
  BY <1>1 DEF Saved

(* The instance put_result will save is the row but for the outcome. *)
LEMMA GradedRow ==
  ASSUME NEW row \in Row, NEW success \in BOOLEAN
  PROVE  LET new == Graded(row, success)
         IN  /\ new \in Row
             /\ new.id = row.id
             /\ new.num_failures = row.num_failures + IF success THEN 0 ELSE 1
             /\ new.lms_ack = success
             /\ new.retired <=> success \/ new.num_failures > MAX_NUMBER_OF_FAILURES
<1>1. FailuresAfter(row, success) \in Nat
  BY DEF Row, FailuresAfter
<1>2. FailuresAfter(row, success) = row.num_failures + IF success THEN 0 ELSE 1
  BY DEF Row, FailuresAfter
<1>3. RetiredAfter(row, success) \in BOOLEAN
  BY DEF RetiredAfter
<1>4. RetiredAfter(row, success)
        <=> success \/ FailuresAfter(row, success) > MAX_NUMBER_OF_FAILURES
  BY DEF RetiredAfter
<1> QED
  BY <1>1, <1>2, <1>3, <1>4 DEF Row, Graded

(* What a row claims stays true as more failures and acks are counted. *)
LEMMA JustifiedStays ==
  ASSUME NEW row \in Row, NEW m \in Nat, NEW n \in Nat, m <= n,
         Justified(row, m), acked \subseteq acked'
  PROVE  /\ row.num_failures <= n
         /\ row.lms_ack => row.id \in acked'
         /\ row.retired => row.id \in acked' \/ n > MAX_NUMBER_OF_FAILURES
  BY MaxFailuresAssumption DEF Justified, Row

-----------------------------------------------------------------------------
(* Init *)

LEMMA InitPullInv == Init => PullInv
<1> SUFFICES ASSUME Init PROVE PullInv
  OBVIOUS
<1>1. PICK q \in [Ids -> Queues], url \in [Ids -> Urls], t \in [Ids -> 0..1] :
        table = [s \in Ids |-> NewSubmission(s, q[s], url[s], t[s])]
  BY DEF Init
<1>2. \A s \in Ids : table[s] \in Row /\ table[s].id = s
  BY <1>1 DEF NewSubmission, Row, Times
<1>3. \A s \in Ids : table[s].num_failures = 0 /\ ~table[s].lms_ack /\ ~table[s].retired
  BY <1>1 DEF NewSubmission
<1>4. PullTypeOK
  BY <1>1, <1>2 DEF Init, PullInit, PullTypeOK, TableTypeOK
<1>5. RowsJustified
  BY <1>1, <1>3, <1>4 DEF Init, PullInit, RowsJustified, Justified
<1>6. \A w \in WebWorkers : handler[w] = "idle"
  BY DEF Init, PullInit
<1>7. CopiesJustified /\ PullsAreKeyed /\ LocksHeld /\ CopiesCurrent
  BY <1>6 DEF CopiesJustified, PullsAreKeyed, LocksHeld, HoldsLock, CopiesCurrent, InPutResult
<1> QED
  BY <1>4, <1>5, <1>7 DEF PullInv

-----------------------------------------------------------------------------
(* get_submission *)

LEMMA ReadStep ==
  ASSUME PullInv, NEW w \in WebWorkers, GetSubmissionRead(w)
  PROVE  PullInv'
<1>1. PICK s \in DOMAIN table, k \in Keys :
        Serves(w, "get_save", [table[s] EXCEPT !.pull_time = now, !.pullkey = k])
  BY DEF GetSubmissionRead, get_single_unretired_submission, Oldest, Pullable
<1> DEFINE new == [table[s] EXCEPT !.pull_time = now, !.pullkey = k]
<1>2. table[s] \in Row /\ table[s].id = s /\ now \in Nat /\ s \in Ids
  BY DEF PullInv, PullTypeOK, TableTypeOK
<1>3. /\ new \in Row /\ new.id = s /\ new.pull_time \in Nat /\ new.pullkey \in Keys
      /\ new.num_failures = table[s].num_failures
      /\ new.lms_ack = table[s].lms_ack /\ new.retired = table[s].retired
  BY <1>2 DEF Row, Times
<1> HIDE DEF new
<1>4. /\ handler' = [handler EXCEPT ![w] = "get_save"]
      /\ submission' = [submission EXCEPT ![w] = new]
      /\ UNCHANGED <<tableVars, tickets, resends, failedReplies>>
  BY <1>1 DEF new, Serves, GetSubmissionRead
<1>5. PullTypeOK'
  BY <1>3, <1>4 DEF PullInv, PullTypeOK, TableTypeOK, tableVars
<1>6. RowsJustified'
  BY <1>4 DEF PullInv, RowsJustified, Justified, tableVars
<1>7. CopiesJustified'
  <2> SUFFICES ASSUME NEW v \in WebWorkers, handler'[v] # "idle"
               PROVE  /\ submission'[v] \in Row
                      /\ Justified(submission[v], failedReplies[submission[v].id] + OwnFailure(v))'
    BY DEF CopiesJustified
  <2>1. CASE v = w
    BY <2>1, <1>2, <1>3, <1>4
       DEF PullInv, PullTypeOK, RowsJustified, Justified, OwnFailure, tableVars
  <2>2. CASE v # w
    BY <2>2, <1>4 DEF PullInv, PullTypeOK, CopiesJustified, Justified, OwnFailure, tableVars
  <2> QED
    BY <2>1, <2>2
<1>8. PullsAreKeyed'
  BY <1>3, <1>4 DEF PullInv, PullTypeOK, PullsAreKeyed
<1>9. LocksHeld'
  BY <1>4 DEF PullInv, PullTypeOK, LocksHeld, HoldsLock, InPutResult, tableVars
<1>10. CopiesCurrent'
  BY <1>4 DEF PullInv, PullTypeOK, CopiesCurrent, InPutResult, OwnFailure, tableVars
<1> QED
  BY <1>5, <1>6, <1>7, <1>8, <1>9, <1>10 DEF PullInv

LEMMA SaveStep ==
  ASSUME PullInv, NEW w \in WebWorkers, GetSubmissionSave(w)
  PROVE  PullInv'
<1> DEFINE row == submission[w]
<1>1. /\ handler[w] = "get_save" /\ lock[row.id] = NoOwner
      /\ handler' = [handler EXCEPT ![w] = "get_reply"]
      /\ submission' = [submission EXCEPT ![w] = row]
      /\ UNCHANGED <<now, faults, acked, tickets, resends, failedReplies>>
  BY DEF GetSubmissionSave, Serves, Unlocked
<1>2. row \in Row /\ row.id \in Ids /\ Justified(row, failedReplies[row.id])
  BY <1>1 DEF PullInv, CopiesJustified, OwnFailure, Justified, PullTypeOK, Row
<1>3. submission' = submission
  BY <1>1 DEF PullInv, PullTypeOK
<1>4. CASE ATOMIC_REQUESTS
  <2>1. lock' = [lock EXCEPT ![row.id] = w] /\ table' = table
    BY <1>4 DEF GetSubmissionSave, Locks
  <2>2. PullTypeOK'
    BY <1>1, <1>2, <1>3, <2>1 DEF PullInv, PullTypeOK, TableTypeOK
  <2>3. RowsJustified' /\ CopiesJustified' /\ PullsAreKeyed'
    BY <1>1, <1>3, <2>1 DEF PullInv, PullTypeOK, RowsJustified, CopiesJustified, PullsAreKeyed,
                            Justified, OwnFailure
  <2>4. LocksHeld'
    <3> SUFFICES ASSUME NEW v \in WebWorkers, HoldsLock(v)'
                 PROVE  lock'[submission[v].id] = v
      BY <1>3 DEF LocksHeld
    <3>1. CASE v = w
      BY <3>1, <1>2, <2>1 DEF PullInv, PullTypeOK
    <3>2. CASE v # w
      <4>1. lock[submission[v].id] = v
        BY <3>2, <1>1 DEF PullInv, PullTypeOK, LocksHeld, HoldsLock, InPutResult
      <4>2. submission[v].id # row.id
        BY <4>1, <1>1, OwnerAssumption
      <4> QED
        BY <4>1, <4>2, <2>1, <1>2 DEF PullInv, PullTypeOK
    <3> QED
      BY <3>1, <3>2
  <2>5. CopiesCurrent'
    BY <1>1, <1>3, <2>1 DEF PullInv, PullTypeOK, CopiesCurrent, InPutResult, OwnFailure
  <2> QED
    BY <2>2, <2>3, <2>4, <2>5 DEF PullInv
<1>5. CASE ~ATOMIC_REQUESTS
  <2>1. lock' = lock /\ table' = Saved(row)
    BY <1>5 DEF GetSubmissionSave
  <2>2. /\ DOMAIN table' = DOMAIN table \cup {row.id} /\ SameClaims(table'[row.id], row)
        /\ \A s \in DOMAIN table : s # row.id => table'[s] = table[s]
    BY <1>2, <2>1, SavedRow DEF PullInv, PullTypeOK, TableTypeOK
  <2>3. PullTypeOK'
    BY <1>1, <1>2, <1>3, <2>1, <2>2 DEF PullInv, PullTypeOK, TableTypeOK, SameClaims
  <2>4. RowsJustified'
    BY <1>1, <1>2, <2>2 DEF PullInv, RowsJustified, Justified, SameClaims
  <2>5. CopiesJustified' /\ PullsAreKeyed'
    BY <1>1, <1>3 DEF PullInv, PullTypeOK, CopiesJustified, PullsAreKeyed, Justified, OwnFailure
  <2>6. LocksHeld'
    BY <1>1, <1>3, <1>5, <2>1 DEF PullInv, PullTypeOK, LocksHeld, HoldsLock, InPutResult
  <2>7. CopiesCurrent'
    <3> SUFFICES ASSUME NEW v \in WebWorkers, InPutResult(v)'
                 PROVE  /\ submission[v].id \in DOMAIN table'
                        /\ submission[v].num_failures
                             = table'[submission[v].id].num_failures + OwnFailure(v)'
      BY <1>3 DEF CopiesCurrent
    <3>1. v # w /\ InPutResult(v) /\ OwnFailure(v)' = OwnFailure(v)
      BY <1>1, <1>3 DEF PullInv, PullTypeOK, InPutResult, OwnFailure
    <3>2. lock[submission[v].id] = v
      BY <3>1 DEF PullInv, LocksHeld, HoldsLock
    <3>3. submission[v].id # row.id
      BY <3>2, <1>1, OwnerAssumption
    <3> QED
      BY <3>1, <3>3, <2>2 DEF PullInv, CopiesCurrent
  <2> QED
    BY <2>3, <2>4, <2>5, <2>6, <2>7 DEF PullInv
<1> QED
  BY <1>4, <1>5

(* The end of a request leaves what the other requests rely on: their locks, *)
(* their copies, and the counts against which these were judged.             *)
LEMMA OthersKeepLocks ==
  ASSUME PullInv, NEW w \in WebWorkers, Releases(w), Replies(w)
  PROVE  LocksHeld'
<1> SUFFICES ASSUME NEW v \in WebWorkers, HoldsLock(v)'
             PROVE  lock'[submission'[v].id] = v
  BY DEF LocksHeld
<1>1. v # w /\ submission'[v] = submission[v] /\ handler'[v] = handler[v]
  BY DEF PullInv, PullTypeOK, Replies, Serves, HoldsLock, InPutResult
<1>2. lock[submission[v].id] = v /\ submission[v].id \in Ids
  BY <1>1 DEF PullInv, PullTypeOK, LocksHeld, CopiesJustified, HoldsLock, InPutResult, Row
<1> QED
  BY <1>1, <1>2 DEF PullInv, PullTypeOK, Releases

LEMMA CommitStep ==
  ASSUME PullInv, NEW w \in WebWorkers, GetSubmissionCommit(w),
         tickets' \subseteq Ticket, faults' \in Nat
  PROVE  PullInv'
<1> DEFINE row == submission[w]
<1>1. /\ handler[w] = "get_reply"
      /\ handler' = [handler EXCEPT ![w] = "idle"]
      /\ submission' = [submission EXCEPT ![w] = NoSubmission]
      /\ UNCHANGED <<now, acked, resends, failedReplies>>
      /\ lock' = [s \in Ids |-> IF lock[s] = w THEN NoOwner ELSE lock[s]]
  BY DEF GetSubmissionCommit, Releases, Replies, Serves, PullInv, PullTypeOK
<1>2. row \in Row /\ row.id \in Ids /\ Justified(row, failedReplies[row.id])
  BY <1>1 DEF PullInv, CopiesJustified, OwnFailure, Justified, PullTypeOK, Row
<1>3. \/ table' = table
      \/ /\ ATOMIC_REQUESTS
         /\ DOMAIN table' = DOMAIN table \cup {row.id} /\ SameClaims(table'[row.id], row)
         /\ \A s \in DOMAIN table : s # row.id => table'[s] = table[s]
  <2>1. now \in Nat
    BY DEF PullInv, PullTypeOK, TableTypeOK
  <2>2. /\ DOMAIN Saved(row) = DOMAIN table \cup {row.id} /\ SameClaims(Saved(row)[row.id], row)
        /\ \A s \in DOMAIN table : s # row.id => Saved(row)[s] = table[s]
    BY <1>2, <2>1, SavedRow
  <2>3. table' = table \/ (ATOMIC_REQUESTS /\ table' = Saved(row))
    BY DEF GetSubmissionCommit
  <2> QED
    BY <2>2, <2>3
<1>4. PullTypeOK'
  BY <1>1, <1>2, <1>3 DEF PullInv, PullTypeOK, TableTypeOK, SameClaims
<1>5. RowsJustified'
  BY <1>1, <1>2, <1>3 DEF PullInv, RowsJustified, Justified, SameClaims
<1>6. CopiesJustified' /\ PullsAreKeyed'
  BY <1>1 DEF PullInv, PullTypeOK, CopiesJustified, PullsAreKeyed, Justified, OwnFailure
<1>7. LocksHeld'
  BY OthersKeepLocks DEF GetSubmissionCommit
<1>8. CopiesCurrent'
  <2> SUFFICES ASSUME NEW v \in WebWorkers, InPutResult(v)'
               PROVE  /\ submission'[v].id \in DOMAIN table'
                      /\ submission'[v].num_failures
                           = table'[submission'[v].id].num_failures + OwnFailure(v)'
    BY DEF CopiesCurrent
  <2>1. /\ v # w /\ InPutResult(v) /\ submission'[v] = submission[v]
        /\ OwnFailure(v)' = OwnFailure(v)
    BY <1>1 DEF PullInv, PullTypeOK, InPutResult, OwnFailure
  <2>2. lock[submission[v].id] = v
    BY <2>1 DEF PullInv, LocksHeld, HoldsLock
  <2>3. ATOMIC_REQUESTS => submission[v].id # row.id
    BY <2>1, <2>2, <1>1 DEF PullInv, LocksHeld, HoldsLock
  <2> QED
    BY <2>1, <2>3, <1>3 DEF PullInv, CopiesCurrent
<1> QED
  BY <1>4, <1>5, <1>6, <1>7, <1>8 DEF PullInv

LEMMA ReplyStep ==
  ASSUME PullInv, NEW w \in WebWorkers, GetSubmissionReply(w) \/ GetSubmissionFails(w)
  PROVE  PullInv'
<1>1. GetSubmissionCommit(w) /\ handler[w] = "get_reply"
  BY DEF GetSubmissionReply, GetSubmissionFails, GetSubmissionCommit
<1>2. TicketOf(submission[w]) \in Ticket
  BY <1>1 DEF PullInv, CopiesJustified, PullsAreKeyed, TicketOf, Ticket, Row
<1>3. tickets' \subseteq Ticket /\ faults' \in Nat
  BY <1>2 DEF GetSubmissionReply, GetSubmissionFails, Fault, PullInv, PullTypeOK, TableTypeOK
<1> QED
  BY <1>1, <1>3, CommitStep

-----------------------------------------------------------------------------
(* put_result *)

LEMMA LockStep ==
  ASSUME PullInv, NEW w \in WebWorkers, NEW t \in tickets, PutResultLock(w, t)
  PROVE  PullInv'
<1> DEFINE s == t.sid
<1>1. /\ handler[w] = "idle" /\ s \in DOMAIN table /\ lock[s] = NoOwner
      /\ handler' = [handler EXCEPT ![w] = "put_post"]
      /\ submission' = [submission EXCEPT ![w] = table[s]]
      /\ lock' = [lock EXCEPT ![s] = w]
      /\ UNCHANGED <<table, now, faults, acked, failedReplies>>
      /\ tickets' \subseteq tickets
      /\ resends' \in Nat
  BY DEF PutResultLock, Unlocked, Locks, Serves, Sends, PullInv, PullTypeOK
<1>2. table[s] \in Row /\ table[s].id = s /\ s \in Ids /\ Justified(table[s], failedReplies[s])
  BY <1>1 DEF PullInv, PullTypeOK, TableTypeOK, RowsJustified
<1>3. PullTypeOK'
  BY <1>1, <1>2 DEF PullInv, PullTypeOK, TableTypeOK
<1>4. RowsJustified' /\ PullsAreKeyed'
  BY <1>1 DEF PullInv, PullTypeOK, RowsJustified, PullsAreKeyed, Justified
<1>5. CopiesJustified'
  <2> SUFFICES ASSUME NEW v \in WebWorkers, handler'[v] # "idle"
               PROVE  /\ submission'[v] \in Row
                      /\ Justified(submission[v], failedReplies[submission[v].id] + OwnFailure(v))'
    BY DEF CopiesJustified
  <2>1. CASE v = w
    BY <2>1, <1>1, <1>2 DEF PullInv, PullTypeOK, Justified, OwnFailure
  <2>2. CASE v # w
    BY <2>2, <1>1 DEF PullInv, PullTypeOK, CopiesJustified, Justified, OwnFailure
  <2> QED
    BY <2>1, <2>2
<1>6. LocksHeld'
  <2> SUFFICES ASSUME NEW v \in WebWorkers, HoldsLock(v)'
               PROVE  lock'[submission'[v].id] = v
    BY DEF LocksHeld
  <2>1. CASE v = w
    BY <2>1, <1>1, <1>2 DEF PullInv, PullTypeOK
  <2>2. CASE v # w
    <3>1. lock[submission[v].id] = v /\ submission'[v] = submission[v]
      BY <2>2, <1>1 DEF PullInv, PullTypeOK, LocksHeld, HoldsLock, InPutResult
    <3>2. submission[v].id # s
      BY <3>1, <1>1, OwnerAssumption
    <3> QED
      BY <3>1, <3>2, <1>1, <1>2 DEF PullInv, PullTypeOK
  <2> QED
    BY <2>1, <2>2
<1>7. CopiesCurrent'
  <2> SUFFICES ASSUME NEW v \in WebWorkers, InPutResult(v)'
               PROVE  /\ submission'[v].id \in DOMAIN table
                      /\ submission'[v].num_failures
                           = table[submission'[v].id].num_failures + OwnFailure(v)'
    BY <1>1 DEF CopiesCurrent
  <2>1. CASE v = w
    BY <2>1, <1>1, <1>2 DEF PullInv, PullTypeOK, OwnFailure, Row
  <2>2. CASE v # w
    BY <2>2, <1>1 DEF PullInv, PullTypeOK, CopiesCurrent, InPutResult, OwnFailure
  <2> QED
    BY <2>1, <2>2
<1> QED
  BY <1>3, <1>4, <1>5, <1>6, <1>7 DEF PullInv

LEMMA PostStep ==
  ASSUME PullInv, NEW w \in WebWorkers, PutResultPost(w)
  PROVE  PullInv'
<1> DEFINE row == submission[w]
<1>1. PICK success \in BOOLEAN :
        /\ Serves(w, "put_save", Graded(row, success))
        /\ acked' = IF success THEN acked \cup {row.id} ELSE acked
  BY DEF PutResultPost
<1> DEFINE new == Graded(row, success)
<1>2. row \in Row /\ row.id \in Ids /\ handler[w] = "put_post"
  BY DEF PutResultPost, PullInv, CopiesJustified, Row
<1>3. /\ new \in Row /\ new.id = row.id
      /\ new.num_failures = row.num_failures + IF success THEN 0 ELSE 1
      /\ new.lms_ack = success
      /\ new.retired <=> success \/ new.num_failures > MAX_NUMBER_OF_FAILURES
  BY <1>2, GradedRow
<1> HIDE DEF new
<1>4. /\ handler' = [handler EXCEPT ![w] = "put_save"]
      /\ submission' = [submission EXCEPT ![w] = new]
      /\ UNCHANGED <<table, lock, now, faults, tickets, resends, failedReplies>>
  BY <1>1 DEF new, Serves, PutResultPost
<1>5. acked \subseteq acked' /\ acked' \subseteq Ids /\ (success => row.id \in acked')
  BY <1>1, <1>2 DEF PullInv, PullTypeOK, TableTypeOK
<1>6. PullTypeOK'
  BY <1>3, <1>4, <1>5 DEF PullInv, PullTypeOK, TableTypeOK
<1>7. RowsJustified'
  BY <1>4, <1>5 DEF PullInv, RowsJustified, Justified, PullTypeOK, TableTypeOK
<1>8. CopiesJustified'
  <2> SUFFICES ASSUME NEW v \in WebWorkers, handler'[v] # "idle"
               PROVE  /\ submission'[v] \in Row
                      /\ Justified(submission[v], failedReplies[submission[v].id] + OwnFailure(v))'
    BY DEF CopiesJustified
  <2>1. CASE v = w
    <3>1. submission'[v] = new /\ OwnFailure(v)' = IF success THEN 0 ELSE 1
      BY <2>1, <1>3, <1>4 DEF PullInv, PullTypeOK, OwnFailure
    <3>2. row.num_failures \in Nat /\ row.num_failures <= failedReplies[row.id]
          /\ failedReplies[row.id] \in Nat
      BY <1>2 DEF PullInv, PullTypeOK, CopiesJustified, OwnFailure, Justified, Row
    <3> QED
      BY <3>1, <3>2, <1>3, <1>4, <1>5, MaxFailuresAssumption DEF Justified
  <2>2. CASE v # w
    BY <2>2, <1>4, <1>5 DEF PullInv, PullTypeOK, CopiesJustified, Justified, OwnFailure
  <2> QED
    BY <2>1, <2>2
<1>9. PullsAreKeyed'
  BY <1>4 DEF PullInv, PullTypeOK, PullsAreKeyed
<1>10. LocksHeld'
  BY <1>2, <1>3, <1>4 DEF PullInv, PullTypeOK, LocksHeld, HoldsLock, InPutResult
<1>11. CopiesCurrent'
  <2> SUFFICES ASSUME NEW v \in WebWorkers, InPutResult(v)'
               PROVE  /\ submission'[v].id \in DOMAIN table
                      /\ submission'[v].num_failures
                           = table[submission'[v].id].num_failures + OwnFailure(v)'
    BY <1>4 DEF CopiesCurrent
  <2>1. CASE v = w
    <3>1. submission'[v] = new /\ OwnFailure(v)' = IF success THEN 0 ELSE 1
      BY <2>1, <1>3, <1>4 DEF PullInv, PullTypeOK, OwnFailure
    <3>2. row.id \in DOMAIN table /\ table[row.id].num_failures \in Nat
          /\ row.num_failures = table[row.id].num_failures
      BY <1>2 DEF PullInv, PullTypeOK, TableTypeOK, CopiesCurrent, InPutResult, OwnFailure, Row
    <3> QED
      BY <3>1, <3>2, <1>3
  <2>2. CASE v # w
    BY <2>2, <1>4 DEF PullInv, PullTypeOK, CopiesCurrent, InPutResult, OwnFailure
  <2> QED
    BY <2>1, <2>2
<1> QED
  BY <1>6, <1>7, <1>8, <1>9, <1>10, <1>11 DEF PullInv

LEMMA PutSaveStep ==
  ASSUME PullInv, NEW w \in WebWorkers, PutResultSave(w)
  PROVE  PullInv'
<1> DEFINE row == submission[w]
           failed == IF row.lms_ack THEN 0 ELSE 1
<1>1. /\ handler[w] = "put_save"
      /\ handler' = [handler EXCEPT ![w] = "idle"]
      /\ submission' = [submission EXCEPT ![w] = NoSubmission]
      /\ UNCHANGED <<now, faults, acked, tickets, resends>>
      /\ lock' = [s \in Ids |-> IF lock[s] = w THEN NoOwner ELSE lock[s]]
  BY DEF PutResultSave, Releases, Replies, Serves, PullInv, PullTypeOK
<1>2. /\ row \in Row /\ row.id \in Ids
      /\ failedReplies[row.id] \in Nat /\ failed \in {0, 1}
      /\ Justified(row, failedReplies[row.id] + failed)
  BY <1>1 DEF PullInv, CopiesJustified, OwnFailure, PullTypeOK, Row
<1>3. /\ DOMAIN table' = DOMAIN table \cup {row.id} /\ SameClaims(table'[row.id], row)
      /\ \A s \in DOMAIN table : s # row.id => table'[s] = table[s]
  BY <1>2, SavedRow DEF PutResultSave, PullInv, PullTypeOK, TableTypeOK
<1>4. /\ failedReplies' \in [Ids -> Nat]
      /\ \A s \in Ids : failedReplies'[s] = failedReplies[s] + IF s = row.id THEN failed ELSE 0
  BY <1>2 DEF PutResultSave, PullInv, PullTypeOK
<1>5. \A s \in Ids : failedReplies'[s] \in Nat /\ failedReplies[s] \in Nat
                    /\ failedReplies[s] <= failedReplies'[s]
  BY <1>2, <1>4 DEF PullInv, PullTypeOK
<1>6. PullTypeOK'
  BY <1>1, <1>2, <1>3, <1>4 DEF PullInv, PullTypeOK, TableTypeOK, SameClaims
<1>7. RowsJustified'
  <2> SUFFICES ASSUME NEW s \in DOMAIN table'
               PROVE  Justified(table[s], failedReplies[s])'
    BY DEF RowsJustified
  <2>1. CASE s = row.id
    BY <2>1, <1>1, <1>2, <1>3, <1>4 DEF Justified, PullInv, PullTypeOK, SameClaims
  <2>2. CASE s # row.id
    <3>1. s \in DOMAIN table /\ s \in Ids /\ table'[s] = table[s]
          /\ failedReplies'[s] = failedReplies[s]
      BY <2>2, <1>3, <1>4 DEF PullInv, PullTypeOK, TableTypeOK
    <3> QED
      BY <3>1, <1>1 DEF PullInv, RowsJustified, Justified
  <2> QED
    BY <2>1, <2>2
<1>8. CopiesJustified'
  <2> SUFFICES ASSUME NEW v \in WebWorkers, handler'[v] # "idle"
               PROVE  /\ submission'[v] \in Row
                      /\ Justified(submission[v], failedReplies[submission[v].id] + OwnFailure(v))'
    BY DEF CopiesJustified
  <2>1. /\ v # w /\ handler[v] # "idle" /\ submission'[v] = submission[v]
        /\ OwnFailure(v)' = OwnFailure(v) /\ OwnFailure(v) \in {0, 1}
    BY <1>1 DEF PullInv, PullTypeOK, OwnFailure
  <2>2. /\ submission[v] \in Row /\ submission[v].id \in Ids
        /\ Justified(submission[v], failedReplies[submission[v].id] + OwnFailure(v))
    BY <2>1 DEF PullInv, CopiesJustified, Row
  <2> DEFINE m == failedReplies[submission[v].id] + OwnFailure(v)
             n == failedReplies'[submission[v].id] + OwnFailure(v)
  <2>3. m \in Nat /\ n \in Nat /\ m <= n
    BY <2>1, <2>2, <1>5
  <2> HIDE DEF m, n
  <2>4. /\ submission[v].num_failures <= n
        /\ submission[v].lms_ack => submission[v].id \in acked'
        /\ submission[v].retired => submission[v].id \in acked' \/ n > MAX_NUMBER_OF_FAILURES
    BY <2>2, <2>3, <1>1, JustifiedStays DEF m
  <2> QED
    BY <2>1, <2>2, <2>4 DEF n, Justified
<1>9. PullsAreKeyed'
  BY <1>1 DEF PullInv, PullTypeOK, PullsAreKeyed
<1>10. LocksHeld'
  BY OthersKeepLocks DEF PutResultSave
<1>11. CopiesCurrent'
  <2> SUFFICES ASSUME NEW v \in WebWorkers, InPutResult(v)'
               PROVE  /\ submission'[v].id \in DOMAIN table'
                      /\ submission'[v].num_failures
                           = table'[submission'[v].id].num_failures + OwnFailure(v)'
    BY DEF CopiesCurrent
  <2>1. /\ v # w /\ InPutResult(v) /\ submission'[v] = submission[v]
        /\ OwnFailure(v)' = OwnFailure(v)
    BY <1>1 DEF PullInv, PullTypeOK, InPutResult, OwnFailure
  <2>2. submission[v].id # row.id
    BY <2>1, <1>1 DEF PullInv, LocksHeld, HoldsLock, InPutResult
  <2> QED
    BY <2>1, <2>2, <1>3 DEF PullInv, CopiesCurrent
<1> QED
  BY <1>6, <1>7, <1>8, <1>9, <1>10, <1>11 DEF PullInv

-----------------------------------------------------------------------------
(* The environment, and steps that change nothing *)

LEMMA AbortStep ==
  ASSUME PullInv, NEW w \in WebWorkers, RequestAborts(w)
  PROVE  PullInv'
<1>1. /\ handler' = [handler EXCEPT ![w] = "idle"]
      /\ submission' = [submission EXCEPT ![w] = NoSubmission]
      /\ UNCHANGED <<table, now, acked, tickets, resends, failedReplies>>
      /\ lock' = [s \in Ids |-> IF lock[s] = w THEN NoOwner ELSE lock[s]]
      /\ faults' \in Nat
  BY DEF RequestAborts, RolledBack, Fault, Releases, Replies, Serves, PullInv, PullTypeOK,
         TableTypeOK
<1>2. PullTypeOK'
  BY <1>1 DEF PullInv, PullTypeOK, TableTypeOK
<1>3. RowsJustified' /\ CopiesJustified' /\ PullsAreKeyed'
  BY <1>1 DEF PullInv, PullTypeOK, RowsJustified, CopiesJustified, PullsAreKeyed, Justified,
              OwnFailure
<1>4. LocksHeld'
  BY OthersKeepLocks DEF RequestAborts
<1>5. CopiesCurrent'
  BY <1>1 DEF PullInv, PullTypeOK, CopiesCurrent, InPutResult, OwnFailure
<1> QED
  BY <1>2, <1>3, <1>4, <1>5 DEF PullInv

(* Steps that touch no row, copy, lock or count. *)
LEMMA QuietStep ==
  ASSUME PullInv, now' \in Nat, faults' \in Nat, resends' \in Nat, tickets' \subseteq tickets,
         UNCHANGED <<table, lock, acked, handler, submission, failedReplies>>
  PROVE  PullInv'
<1>1. PullTypeOK'
  BY DEF PullInv, PullTypeOK, TableTypeOK
<1>2. RowsJustified' /\ CopiesJustified' /\ PullsAreKeyed' /\ LocksHeld' /\ CopiesCurrent'
  BY DEF PullInv, RowsJustified, CopiesJustified, PullsAreKeyed, LocksHeld, CopiesCurrent,
         Justified, OwnFailure, HoldsLock, InPutResult
<1> QED
  BY <1>1, <1>2 DEF PullInv

LEMMA NextPullInv == PullInv /\ [Next]_vars => PullInv'
<1> SUFFICES ASSUME PullInv, [Next]_vars PROVE PullInv'
  OBVIOUS
<1>1. now \in Nat /\ faults \in Nat /\ resends \in Nat
  BY DEF PullInv, PullTypeOK, TableTypeOK
<1>2. ASSUME UNCHANGED vars PROVE PullInv'
  BY <1>2, <1>1, QuietStep DEF vars, tableVars, pullVars
<1>3. ASSUME NEW w \in WebWorkers, Get(w) PROVE PullInv'
  BY <1>3, <1>2, ReadStep, SaveStep, ReplyStep DEF Get, GetSubmissionEmpty
<1>4. ASSUME NEW w \in WebWorkers, NEW t \in tickets, PutResultRejected(w, t) PROVE PullInv'
  BY <1>4, <1>1, QuietStep DEF PutResultRejected, Sends, tableVars
<1>5. ASSUME NEW w \in WebWorkers, Put(w) PROVE PullInv'
  BY <1>4, <1>5, LockStep, PostStep, PutSaveStep DEF Put
<1>6. ASSUME NEW w \in WebWorkers, GetSubmissionFails(w) \/ RequestAborts(w) PROVE PullInv'
  BY <1>6, ReplyStep, AbortStep
<1>7. ASSUME NEW t \in tickets, GraderForgets(t) PROVE PullInv'
  BY <1>7, <1>1, QuietStep DEF GraderForgets, Fault
<1>8. CASE Tick
  BY <1>8, <1>1, QuietStep DEF Tick, pullVars
<1> QED
  BY <1>2, <1>3, <1>5, <1>6, <1>7, <1>8 DEF Next, Faulty

-----------------------------------------------------------------------------
(* The invariant of the pull interface. *)
THEOREM PullInvariant == Spec => []PullInv
  BY InitPullInv, NextPullInv, PTL DEF Spec

(* Types of every variable of the pull interface. *)
THEOREM PullTypes == Spec => []PullTypeOK
<1>1. PullInv => PullTypeOK
  BY DEF PullInv
<1> QED
  BY <1>1, PullInvariant, PTL

(* A row whose lms_ack is set was acknowledged by the LMS (put_result,       *)
(* whatever get_submission writes back over it).                             *)
THEOREM AcksAreReal == Spec => []AckIsReal
<1>1. PullInv => AckIsReal
  BY DEF PullInv, PullTypeOK, TableTypeOK, RowsJustified, Justified, AckIsReal
<1> QED
  BY <1>1, PullInvariant, PTL

-----------------------------------------------------------------------------
(* Action properties *)

(* Only two steps write rows, and each writes the row its worker holds or    *)
(* that nobody holds.                                                        *)
LEMMA WritersOfRows ==
  ASSUME PullInv, [Next]_vars
  PROVE  \/ table' = table
         \/ \E v \in WebWorkers :
              /\ handler[v] # "idle" /\ table' = Saved(submission[v])
              /\ lock[submission[v].id] \in {v, NoOwner}
              /\ handler[v] = "put_save" => handler' = [handler EXCEPT ![v] = "idle"]
              /\ InPutResult(v) => handler[v] = "put_save"
<1>1. ASSUME NEW v \in WebWorkers, GetSubmissionSave(v) PROVE lock[submission[v].id] = NoOwner
  BY <1>1 DEF GetSubmissionSave, Unlocked
<1>2. ASSUME NEW v \in WebWorkers, PutResultSave(v) PROVE lock[submission[v].id] = v
  BY <1>2 DEF PutResultSave, PullInv, LocksHeld, HoldsLock, InPutResult
<1>3. ASSUME NEW v \in WebWorkers, GetSubmissionCommit(v)
      PROVE  table' = table \/ lock[submission[v].id] = v
  BY <1>3 DEF GetSubmissionCommit, PullInv, LocksHeld, HoldsLock
<1>4. ASSUME NEW v \in WebWorkers,
             GetSubmissionRead(v) \/ PutResultPost(v) \/ RequestAborts(v)
      PROVE  table' = table
  BY <1>4 DEF GetSubmissionRead, PutResultPost, RequestAborts, RolledBack, tableVars
<1>5. ASSUME NEW v \in WebWorkers, NEW t \in tickets,
             PutResultLock(v, t) \/ PutResultRejected(v, t)
      PROVE  table' = table
  BY <1>5 DEF PutResultLock, PutResultRejected, tableVars
<1>6. ASSUME (\E t \in tickets : GraderForgets(t)) \/ Tick \/ UNCHANGED vars
      PROVE  table' = table
  BY <1>6 DEF GraderForgets, Tick, vars, tableVars
<1>7. CASE \E v \in WebWorkers : GetSubmissionSave(v)
  BY <1>7, <1>1 DEF GetSubmissionSave, InPutResult
<1>8. CASE \E v \in WebWorkers : PutResultSave(v)
  BY <1>8, <1>2 DEF PutResultSave, Replies, Serves
<1>9. CASE \E v \in WebWorkers : GetSubmissionReply(v) \/ GetSubmissionFails(v)
  BY <1>9, <1>3 DEF GetSubmissionReply, GetSubmissionFails, GetSubmissionCommit, InPutResult
<1> QED
  BY <1>4, <1>5, <1>6, <1>7, <1>8, <1>9 DEF Next, Get, Put, Faulty, GetSubmissionEmpty

(* While put_result works on a row, from select_for_update to the commit and *)
(* over all attempts to reach the LMS, nobody else changes the row.          *)
THEOREM LockedRowsStay == Spec => LockedRowStays
<1>1. ASSUME PullInv, [Next]_vars
      PROVE  \A w \in WebWorkers :
               InPutResult(w) /\ table'[submission[w].id] # table[submission[w].id]
                 => handler'[w] = "idle"
  <2> SUFFICES ASSUME NEW w \in WebWorkers, InPutResult(w),
                      table'[submission[w].id] # table[submission[w].id]
               PROVE  handler'[w] = "idle"
    OBVIOUS
  <2>1. PICK v \in WebWorkers :
          /\ handler[v] # "idle" /\ table' = Saved(submission[v])
          /\ lock[submission[v].id] \in {v, NoOwner}
          /\ handler[v] = "put_save" => handler' = [handler EXCEPT ![v] = "idle"]
          /\ InPutResult(v) => handler[v] = "put_save"
    BY <1>1, WritersOfRows
  <2>2. lock[submission[w].id] = w /\ submission[w].id \in DOMAIN table
    BY <1>1 DEF PullInv, LocksHeld, HoldsLock, CopiesCurrent
  <2>3. submission[w].id = submission[v].id
    BY <1>1, <2>1, <2>2, SavedRow DEF PullInv, PullTypeOK, TableTypeOK, CopiesJustified
  <2>4. w = v
    BY <2>1, <2>2, <2>3, OwnerAssumption
  <2> QED
    BY <2>1, <2>4, <1>1 DEF PullInv, PullTypeOK
<1> QED
  BY <1>1, PullInvariant, PTL DEF Spec, LockedRowStays

(* Every put_result that fails at the LMS raises the stored count by one. *)
THEOREM FailedRepliesCounted == Spec => FailedReplyCounted
<1>1. ASSUME PullInv, [Next]_vars
      PROVE  \A s \in Ids : failedReplies'[s] > failedReplies[s] =>
               /\ s \in DOMAIN table
               /\ table'[s].num_failures = table[s].num_failures + 1
  <2> SUFFICES ASSUME NEW s \in Ids, failedReplies'[s] > failedReplies[s]
               PROVE  /\ s \in DOMAIN table
                      /\ table'[s].num_failures = table[s].num_failures + 1
    OBVIOUS
  <2>1. failedReplies' # failedReplies
    BY <1>1 DEF PullInv, PullTypeOK
  <2>2. PICK w \in WebWorkers : PutResultSave(w)
    BY <2>1, <1>1 DEF Next, Get, Put, Faulty, GetSubmissionEmpty, Tick, GraderForgets, RequestAborts,
         GetSubmissionRead, GetSubmissionSave, GetSubmissionReply, GetSubmissionFails,
         GetSubmissionCommit, PutResultLock, PutResultRejected, PutResultPost, vars, pullVars
  <2>3. s = submission[w].id /\ ~submission[w].lms_ack /\ handler[w] = "put_save"
    BY <2>2, <1>1 DEF PutResultSave, PullInv, PullTypeOK
  <2>4. /\ s \in DOMAIN table
        /\ submission[w].num_failures = table[s].num_failures + 1
    BY <2>3, <1>1 DEF PullInv, CopiesCurrent, InPutResult, OwnFailure
  <2>5. table'[s].num_failures = submission[w].num_failures
    BY <1>1, <2>2, <2>3, SavedRow DEF PutResultSave, PullInv, PullTypeOK, TableTypeOK,
                                      CopiesJustified, SameClaims
  <2> QED
    BY <2>4, <2>5
<1> QED
  BY <1>1, PullInvariant, PTL DEF Spec, FailedReplyCounted

-----------------------------------------------------------------------------
(* What opens a finished submission again.  A key is in one place at a time  *)
(* (with a grader, or in the request of one web worker) unless a result is   *)
(* sent again, so that the put_result that saved an outcome was the last one *)
(* for its key, and who still holds a key that fits its row will find the    *)
(* row unfinished.                                                           *)

KeyInOnePlace ==
  /\ \A t, u \in tickets : t.key = u.key => t = u
  /\ \A w \in WebWorkers : handler[w] # "idle" =>
       /\ \A t \in tickets : t.key # submission[w].pullkey
       /\ \A v \in WebWorkers : handler[v] # "idle" /\ submission[v].pullkey = submission[w].pullkey
            => v = w

(* The row of id s is not retired if its key is k. *)
OpenFor(s, k) == s \in DOMAIN table /\ table[s].pullkey = k => ~table[s].retired

FittingKeysOpen ==
  /\ \A t \in tickets : OpenFor(t.sid, t.key)
  /\ \A w \in WebWorkers :
       /\ handler[w] = "get_reply" /\ ~ATOMIC_REQUESTS
            => OpenFor(submission[w].id, submission[w].pullkey)
       /\ InPutResult(w) => /\ submission[w].pullkey = table[submission[w].id].pullkey
                            /\ ~table[submission[w].id].retired

Ended(row) == row.lms_ack \/ row.num_failures > MAX_NUMBER_OF_FAILURES

EndsAgree ==
  /\ \A s \in DOMAIN table : table[s].retired => Ended(table[s])
  /\ \A w \in WebWorkers :
       /\ handler[w] \in {"get_save", "get_reply"} => ~submission[w].retired
       /\ handler[w] = "put_save" => (submission[w].retired <=> Ended(submission[w]))

ReopenInv == PullInv /\ EndsAgree /\ (resends = 0 => KeyInOnePlace /\ FittingKeysOpen)

LEMMA InitReopenInv == Init => ReopenInv
<1> SUFFICES ASSUME Init PROVE ReopenInv
  OBVIOUS
<1>1. tickets = {} /\ \A w \in WebWorkers : handler[w] = "idle"
  BY DEF Init, PullInit
<1>2. \A s \in DOMAIN table : ~table[s].retired
  BY DEF Init, NewSubmission
<1>3. KeyInOnePlace /\ FittingKeysOpen /\ EndsAgree
  BY <1>1, <1>2 DEF KeyInOnePlace, FittingKeysOpen, EndsAgree, InPutResult
<1> QED
  BY <1>3, InitPullInv DEF ReopenInv

(* What a request saves has the key of its copy, and claims the same. *)
LEMMA SavedCopy ==
  ASSUME PullInv, NEW w \in WebWorkers, handler[w] # "idle"
  PROVE  LET row == submission[w] IN
         /\ row \in Row /\ row.id \in Ids
         /\ DOMAIN Saved(row) = DOMAIN table \cup {row.id}
         /\ SameClaims(Saved(row)[row.id], row) /\ Saved(row)[row.id].pullkey = row.pullkey
         /\ \A s \in DOMAIN table : s # row.id => Saved(row)[s] = table[s]
<1>1. submission[w] \in Row /\ now \in Nat
  BY DEF PullInv, PullTypeOK, TableTypeOK, CopiesJustified
<1>2. Stored(submission[w]).pullkey = submission[w].pullkey
  BY <1>1 DEF Stored, Row
<1>3. submission[w].id \in Ids
  BY <1>1 DEF Row
<1> QED
  BY <1>1, <1>2, <1>3, SavedRow DEF Saved


(* What get_submission writes back is not retired. *)
LEMMA PulledCopy ==
  ASSUME ReopenInv, NEW w \in WebWorkers, handler[w] \in {"get_save", "get_reply"}
  PROVE  LET row == submission[w] IN
         /\ row \in Row /\ ~row.retired
         /\ table' = Saved(row) =>
              /\ DOMAIN table' = DOMAIN table \cup {row.id}
              /\ ~table'[row.id].retired /\ table'[row.id].pullkey = row.pullkey
              /\ \A s \in DOMAIN table : s # row.id => table'[s] = table[s]
<1> DEFINE row == submission[w]
<1>1. ~row.retired
  BY DEF ReopenInv, EndsAgree
<1>2. /\ row \in Row
      /\ DOMAIN Saved(row) = DOMAIN table \cup {row.id}
      /\ SameClaims(Saved(row)[row.id], row) /\ Saved(row)[row.id].pullkey = row.pullkey
      /\ \A s \in DOMAIN table : s # row.id => Saved(row)[s] = table[s]
  BY SavedCopy DEF ReopenInv
<1>3. ~Saved(row)[row.id].retired
  BY <1>1, <1>2 DEF SameClaims
<1> QED
  BY <1>1, <1>2, <1>3

(* A row under another lock than its own is none of a put_result's. *)
LEMMA NotLocked ==
  ASSUME PullInv, NEW v \in WebWorkers, NEW w \in WebWorkers, v # w, InPutResult(v),
         NEW s, lock[s] \in {w, NoOwner}
  PROVE  submission[v].id # s
  BY OwnerAssumption DEF PullInv, LocksHeld, HoldsLock

LEMMA ReopenRead ==
  ASSUME ReopenInv, PullInv', NEW w \in WebWorkers, GetSubmissionRead(w)
  PROVE  ReopenInv'
<1>1. PICK s \in DOMAIN table, k \in Keys \ KeysInUse :
        /\ ~table[s].retired
        /\ Serves(w, "get_save", [table[s] EXCEPT !.pull_time = now, !.pullkey = k])
  BY DEF GetSubmissionRead, get_single_unretired_submission, Oldest, Pullable, Unretired
<1> DEFINE new == [table[s] EXCEPT !.pull_time = now, !.pullkey = k]
<1>2. table[s] \in Row
  BY DEF ReopenInv, PullInv, PullTypeOK, TableTypeOK
<1>3. ~new.retired /\ new.pullkey = k
  BY <1>1, <1>2 DEF Row
<1>4. /\ k \notin {t.key : t \in tickets}
      /\ k \notin {submission[v].pullkey : v \in {x \in WebWorkers : handler[x] # "idle"}}
  BY DEF KeysInUse
<1> HIDE DEF new
<1>5. /\ handler[w] = "idle"
      /\ handler' = [handler EXCEPT ![w] = "get_save"]
      /\ submission' = [submission EXCEPT ![w] = new]
      /\ UNCHANGED <<table, tickets, resends>>
  BY <1>1 DEF new, Serves, GetSubmissionRead, tableVars
<1>6. EndsAgree'
  BY <1>3, <1>5 DEF ReopenInv, EndsAgree, Ended, PullInv, PullTypeOK
<1>7. KeyInOnePlace => KeyInOnePlace'
  BY <1>3, <1>4, <1>5 DEF ReopenInv, KeyInOnePlace, PullInv, PullTypeOK
<1>8. FittingKeysOpen => FittingKeysOpen'
  BY <1>5 DEF ReopenInv, FittingKeysOpen, OpenFor, InPutResult, PullInv, PullTypeOK
<1> QED
  BY <1>5, <1>6, <1>7, <1>8 DEF ReopenInv

LEMMA ReopenSave ==
  ASSUME ReopenInv, PullInv', NEW w \in WebWorkers, GetSubmissionSave(w)
  PROVE  ReopenInv'
<1> DEFINE row == submission[w]
<1>1. /\ handler[w] = "get_save" /\ lock[row.id] = NoOwner
      /\ handler' = [handler EXCEPT ![w] = "get_reply"]
      /\ submission' = submission
      /\ UNCHANGED <<tickets, resends>>
      /\ (table' = table /\ ATOMIC_REQUESTS) \/ table' = Saved(row)
  BY DEF GetSubmissionSave, Serves, Unlocked, ReopenInv, PullInv, PullTypeOK
<1>2. /\ row \in Row /\ ~row.retired
      /\ table' = Saved(row) =>
           /\ DOMAIN table' = DOMAIN table \cup {row.id}
           /\ ~table'[row.id].retired /\ table'[row.id].pullkey = row.pullkey
           /\ \A s \in DOMAIN table : s # row.id => table'[s] = table[s]
  BY <1>1, PulledCopy
<1>3. \A s, k : OpenFor(s, k) => OpenFor(s, k)'
  BY <1>1, <1>2 DEF OpenFor
<1>4. EndsAgree'
  BY <1>1, <1>2 DEF ReopenInv, EndsAgree, Ended, PullInv, PullTypeOK
<1>5. KeyInOnePlace => KeyInOnePlace'
  BY <1>1 DEF ReopenInv, KeyInOnePlace, PullInv, PullTypeOK
<1>6. FittingKeysOpen => FittingKeysOpen'
  <2> SUFFICES ASSUME FittingKeysOpen PROVE FittingKeysOpen'
    OBVIOUS
  <2>1. \A t \in tickets' : OpenFor(t.sid, t.key)'
    BY <1>1, <1>3 DEF FittingKeysOpen
  <2>2. ASSUME NEW v \in WebWorkers, handler'[v] = "get_reply", ~ATOMIC_REQUESTS
        PROVE  OpenFor(submission[v].id, submission[v].pullkey)'
    <3>1. CASE v = w
      BY <3>1, <2>2, <1>1, <1>2 DEF OpenFor
    <3>2. CASE v # w
      <4>1. OpenFor(submission[v].id, submission[v].pullkey)
        BY <3>2, <2>2, <1>1 DEF FittingKeysOpen, ReopenInv, PullInv, PullTypeOK
      <4> QED
        BY <4>1, <1>1, <1>2 DEF OpenFor
    <3> QED
      BY <3>1, <3>2
  <2>3. ASSUME NEW v \in WebWorkers, InPutResult(v)'
        PROVE  /\ submission'[v].pullkey = table'[submission'[v].id].pullkey
               /\ ~table'[submission'[v].id].retired
    <3>1. v # w /\ InPutResult(v)
      BY <2>3, <1>1 DEF InPutResult, ReopenInv, PullInv, PullTypeOK
    <3>2. submission[v].id # row.id /\ submission[v].id \in DOMAIN table
      BY <3>1, <1>1, NotLocked DEF ReopenInv, PullInv, CopiesCurrent
    <3> QED
      BY <3>1, <3>2, <1>1, <1>2 DEF FittingKeysOpen
  <2> QED
    BY <2>1, <2>2, <2>3 DEF FittingKeysOpen
<1> QED
  BY <1>1, <1>4, <1>5, <1>6 DEF ReopenInv

LEMMA ReopenCommit ==
  ASSUME ReopenInv, PullInv', NEW w \in WebWorkers, GetSubmissionReply(w) \/ GetSubmissionFails(w)
  PROVE  ReopenInv'
<1> DEFINE row == submission[w]
           new == TicketOf(row)
<1>1. /\ handler[w] = "get_reply"
      /\ handler' = [handler EXCEPT ![w] = "idle"]
      /\ submission' = [submission EXCEPT ![w] = NoSubmission]
      /\ tickets' \subseteq tickets \cup {new}
      /\ UNCHANGED resends
      /\ IF ATOMIC_REQUESTS THEN table' = Saved(row) ELSE table' = table
  BY DEF GetSubmissionReply, GetSubmissionFails, GetSubmissionCommit, Replies, Serves
<1>2. /\ row \in Row /\ ~row.retired
      /\ table' = Saved(row) =>
           /\ DOMAIN table' = DOMAIN table \cup {row.id}
           /\ ~table'[row.id].retired
           /\ \A s \in DOMAIN table : s # row.id => table'[s] = table[s]
  BY <1>1, PulledCopy
<1>3. new.sid = row.id /\ new.key = row.pullkey
  BY DEF TicketOf
<1> HIDE DEF new
<1>4. \A s, k : OpenFor(s, k) => OpenFor(s, k)'
  BY <1>1, <1>2 DEF OpenFor
<1>5. EndsAgree'
  BY <1>1, <1>2 DEF ReopenInv, EndsAgree, Ended, PullInv, PullTypeOK
<1>6. KeyInOnePlace => KeyInOnePlace'
  BY <1>1, <1>3 DEF ReopenInv, KeyInOnePlace, PullInv, PullTypeOK
<1>7. FittingKeysOpen => FittingKeysOpen'
  <2> SUFFICES ASSUME FittingKeysOpen PROVE FittingKeysOpen'
    OBVIOUS
  <2>1. (OpenFor(row.id, row.pullkey) /\ ~ATOMIC_REQUESTS) \/ ~table'[row.id].retired
    BY <1>1, <1>2 DEF FittingKeysOpen
  <2>2. ASSUME NEW t \in tickets' PROVE OpenFor(t.sid, t.key)'
    <3>1. CASE t \in tickets
      BY <3>1, <1>4 DEF FittingKeysOpen
    <3>2. CASE t = new
      BY <3>2, <2>1, <1>1, <1>3 DEF OpenFor
    <3> QED
      BY <3>1, <3>2, <1>1
  <2>3. ASSUME NEW v \in WebWorkers, handler'[v] = "get_reply", ~ATOMIC_REQUESTS
        PROVE  OpenFor(submission[v].id, submission[v].pullkey)'
    BY <2>3, <1>1 DEF FittingKeysOpen, OpenFor, ReopenInv, PullInv, PullTypeOK
  <2>4. ASSUME NEW v \in WebWorkers, InPutResult(v)'
        PROVE  /\ submission'[v].pullkey = table'[submission'[v].id].pullkey
               /\ ~table'[submission'[v].id].retired
    <3>1. v # w /\ InPutResult(v) /\ submission'[v] = submission[v]
      BY <2>4, <1>1 DEF InPutResult, ReopenInv, PullInv, PullTypeOK
    <3>2. submission[v].id \in DOMAIN table
      BY <3>1 DEF ReopenInv, PullInv, CopiesCurrent
    <3>3. ATOMIC_REQUESTS => submission[v].id # row.id
      BY <3>1, <1>1, NotLocked DEF ReopenInv, PullInv, LocksHeld, HoldsLock
    <3> QED
      BY <3>1, <3>2, <3>3, <1>1, <1>2 DEF FittingKeysOpen
  <2> QED
    BY <2>2, <2>3, <2>4 DEF FittingKeysOpen
<1> QED
  BY <1>1, <1>5, <1>6, <1>7 DEF ReopenInv

LEMMA ReopenLock ==
  ASSUME ReopenInv, PullInv', NEW w \in WebWorkers, NEW t \in tickets, PutResultLock(w, t)
  PROVE  ReopenInv'
<1> DEFINE row == table[t.sid]
<1>1. /\ handler[w] = "idle" /\ t.sid \in DOMAIN table /\ row.pullkey = t.key
      /\ handler' = [handler EXCEPT ![w] = "put_post"]
      /\ submission' = [submission EXCEPT ![w] = row]
      /\ table' = table
      /\ (tickets' = tickets \ {t} /\ resends' = resends) \/ resends' = resends + 1
  BY DEF PutResultLock, KeyMatches, Serves, Sends
<1>2. row.id = t.sid /\ resends \in Nat
  BY <1>1 DEF ReopenInv, PullInv, PullTypeOK, TableTypeOK
<1>3. EndsAgree'
  BY <1>1 DEF ReopenInv, EndsAgree, Ended, PullInv, PullTypeOK
<1>4. ASSUME resends' = 0 PROVE KeyInOnePlace' /\ FittingKeysOpen'
  <2>1. resends = 0 /\ tickets' = tickets \ {t}
    BY <1>1, <1>2, <1>4
  <2>2. KeyInOnePlace /\ FittingKeysOpen
    BY <2>1 DEF ReopenInv
  <2>3. KeyInOnePlace'
    BY <2>1, <2>2, <1>1 DEF KeyInOnePlace, ReopenInv, PullInv, PullTypeOK
  <2>4. FittingKeysOpen'
    BY <2>1, <2>2, <1>1, <1>2 DEF FittingKeysOpen, OpenFor, InPutResult, ReopenInv, PullInv,
                                  PullTypeOK
  <2> QED
    BY <2>3, <2>4
<1> QED
  BY <1>3, <1>4 DEF ReopenInv

LEMMA ReopenPost ==
  ASSUME ReopenInv, PullInv', NEW w \in WebWorkers, PutResultPost(w)
  PROVE  ReopenInv'
<1>1. PICK success \in BOOLEAN : Serves(w, "put_save", Graded(submission[w], success))
  BY DEF PutResultPost
<1> DEFINE new == Graded(submission[w], success)
<1>2. submission[w] \in Row /\ handler[w] = "put_post"
  BY DEF PutResultPost, ReopenInv, PullInv, CopiesJustified
<1>3. /\ new.id = submission[w].id /\ new.pullkey = submission[w].pullkey
      /\ new.retired <=> Ended(new)
  BY <1>2, GradedRow DEF Ended, Graded, Row
<1> HIDE DEF new
<1>4. /\ handler' = [handler EXCEPT ![w] = "put_save"]
      /\ submission' = [submission EXCEPT ![w] = new]
      /\ UNCHANGED <<table, tickets, resends>>
  BY <1>1 DEF new, Serves, PutResultPost
<1>5. EndsAgree'
  BY <1>3, <1>4 DEF ReopenInv, EndsAgree, Ended, PullInv, PullTypeOK
<1>6. KeyInOnePlace => KeyInOnePlace'
  BY <1>2, <1>3, <1>4 DEF ReopenInv, KeyInOnePlace, PullInv, PullTypeOK
<1>7. FittingKeysOpen => FittingKeysOpen'
  BY <1>2, <1>3, <1>4 DEF ReopenInv, FittingKeysOpen, OpenFor, InPutResult, PullInv, PullTypeOK
<1> QED
  BY <1>4, <1>5, <1>6, <1>7 DEF ReopenInv

LEMMA ReopenPutSave ==
  ASSUME ReopenInv, PullInv', NEW w \in WebWorkers, PutResultSave(w)
  PROVE  ReopenInv'
<1> DEFINE row == submission[w]
<1>1. /\ handler[w] = "put_save" /\ InPutResult(w)
      /\ handler' = [handler EXCEPT ![w] = "idle"]
      /\ submission' = [submission EXCEPT ![w] = NoSubmission]
      /\ UNCHANGED <<tickets, resends>>
      /\ table' = Saved(row)
  BY DEF PutResultSave, Replies, Serves, InPutResult
<1>2. /\ row \in Row
      /\ DOMAIN table' = DOMAIN table \cup {row.id}
      /\ SameClaims(table'[row.id], row) /\ table'[row.id].pullkey = row.pullkey
      /\ \A s \in DOMAIN table : s # row.id => table'[s] = table[s]
  BY <1>1, SavedCopy DEF ReopenInv
<1>3. EndsAgree'
  BY <1>1, <1>2 DEF ReopenInv, EndsAgree, Ended, SameClaims, PullInv, PullTypeOK
<1>4. KeyInOnePlace => KeyInOnePlace'
  BY <1>1 DEF ReopenInv, KeyInOnePlace, PullInv, PullTypeOK
<1>5. ASSUME KeyInOnePlace, FittingKeysOpen PROVE FittingKeysOpen'
  <2>1. \A t \in tickets' : OpenFor(t.sid, t.key)'
    BY <1>1, <1>2, <1>5 DEF KeyInOnePlace, FittingKeysOpen, OpenFor
  <2>2. ASSUME NEW v \in WebWorkers, handler'[v] = "get_reply", ~ATOMIC_REQUESTS
        PROVE  OpenFor(submission[v].id, submission[v].pullkey)'
    <3>1. /\ v # w /\ handler[v] = "get_reply" /\ submission'[v] = submission[v]
          /\ OpenFor(submission[v].id, submission[v].pullkey)
      BY <2>2, <1>1, <1>5 DEF FittingKeysOpen, ReopenInv, PullInv, PullTypeOK
    <3>2. submission[v].pullkey # row.pullkey
      BY <3>1, <1>1, <1>5 DEF KeyInOnePlace
    <3> QED
      BY <3>1, <3>2, <1>2 DEF OpenFor
  <2>3. ASSUME NEW v \in WebWorkers, InPutResult(v)'
        PROVE  /\ submission'[v].pullkey = table'[submission'[v].id].pullkey
               /\ ~table'[submission'[v].id].retired
    <3>1. v # w /\ InPutResult(v) /\ submission'[v] = submission[v]
      BY <2>3, <1>1 DEF InPutResult, ReopenInv, PullInv, PullTypeOK
    <3>2. submission[v].id # row.id /\ submission[v].id \in DOMAIN table
      BY <3>1, <1>1, NotLocked DEF ReopenInv, PullInv, CopiesCurrent, LocksHeld, HoldsLock
    <3> QED
      BY <3>1, <3>2, <1>2, <1>5 DEF FittingKeysOpen
  <2> QED
    BY <2>1, <2>2, <2>3 DEF FittingKeysOpen
<1> QED
  BY <1>1, <1>3, <1>4, <1>5 DEF ReopenInv

LEMMA ReopenAbort ==
  ASSUME ReopenInv, PullInv', NEW w \in WebWorkers, RequestAborts(w)
  PROVE  ReopenInv'
<1>1. /\ handler' = [handler EXCEPT ![w] = "idle"]
      /\ submission' = [submission EXCEPT ![w] = NoSubmission]
      /\ UNCHANGED <<table, tickets, resends>>
  BY DEF RequestAborts, RolledBack, Replies, Serves
<1> QED
  BY <1>1 DEF ReopenInv, EndsAgree, Ended, KeyInOnePlace, FittingKeysOpen, OpenFor, InPutResult,
              PullInv, PullTypeOK

LEMMA ReopenQuiet ==
  ASSUME ReopenInv, PullInv', UNCHANGED <<table, handler, submission>>, tickets' \subseteq tickets,
         resends' = 0 => resends = 0
  PROVE  ReopenInv'
  BY DEF ReopenInv, EndsAgree, Ended, KeyInOnePlace, FittingKeysOpen, OpenFor, InPutResult

LEMMA NextReopenInv == ReopenInv /\ [Next]_vars => ReopenInv'
<1> SUFFICES ASSUME ReopenInv, [Next]_vars PROVE ReopenInv'
  OBVIOUS
<1>1. PullInv' /\ resends \in Nat
  BY NextPullInv DEF ReopenInv, PullInv, PullTypeOK
<1>2. ASSUME UNCHANGED vars PROVE ReopenInv'
  BY <1>1, <1>2, ReopenQuiet DEF vars, tableVars, pullVars
<1>3. ASSUME NEW w \in WebWorkers, Get(w) PROVE ReopenInv'
  BY <1>1, <1>2, <1>3, ReopenRead, ReopenSave, ReopenCommit DEF Get, GetSubmissionEmpty
<1>4. ASSUME NEW w \in WebWorkers, NEW t \in tickets, PutResultRejected(w, t) PROVE ReopenInv'
  BY <1>1, <1>4, ReopenQuiet DEF PutResultRejected, Sends, tableVars
<1>5. ASSUME NEW w \in WebWorkers, Put(w) PROVE ReopenInv'
  BY <1>1, <1>4, <1>5, ReopenLock, ReopenPost, ReopenPutSave DEF Put
<1>6. ASSUME NEW w \in WebWorkers, GetSubmissionFails(w) \/ RequestAborts(w) PROVE ReopenInv'
  BY <1>1, <1>6, ReopenCommit, ReopenAbort
<1>7. ASSUME NEW t \in tickets, GraderForgets(t) PROVE ReopenInv'
  BY <1>1, <1>7, ReopenQuiet DEF GraderForgets
<1>8. CASE Tick
  BY <1>1, <1>8, ReopenQuiet DEF Tick, pullVars
<1> QED
  BY <1>2, <1>3, <1>5, <1>6, <1>7, <1>8 DEF Next, Faulty

(* A finished submission is opened again only by a get_submission that       *)
(* writes back what it read before, or by a put_result that fails after the  *)
(* LMS took the grade, which takes a result that was sent again.             *)
THEOREM ReopenedByTwo == Spec => ReopenedInTwoWays
<1>1. ASSUME ReopenInv, [Next]_vars
      PROVE  \A s \in DOMAIN table : table[s].retired /\ ~table'[s].retired =>
               \E w \in WebWorkers : PutsOldBack(w, s) \/ (resends > 0 /\ FailsAfterAck(w, s))
  <2> SUFFICES ASSUME NEW s \in DOMAIN table, table[s].retired, ~table'[s].retired
               PROVE  \E w \in WebWorkers : PutsOldBack(w, s) \/ (resends > 0 /\ FailsAfterAck(w, s))
    OBVIOUS
  <2>1. table' # table
    BY <1>1
  <2>2. PICK w \in WebWorkers :
          \/ GetSubmissionSave(w) \/ GetSubmissionCommit(w)
          \/ PutResultSave(w)
    BY <2>1, <1>1 DEF Next, Get, Put, Faulty, GetSubmissionEmpty, Tick, GraderForgets, RequestAborts,
         RolledBack, GetSubmissionRead, GetSubmissionReply, GetSubmissionFails,
         PutResultLock, PutResultRejected, PutResultPost, vars, tableVars
  <2>3. /\ handler[w] \in {"get_save", "get_reply", "put_save"}
        /\ handler'[w] # handler[w] /\ table' = Saved(submission[w])
    BY <2>1, <2>2, <1>1 DEF GetSubmissionSave, GetSubmissionCommit, PutResultSave, Replies, Serves,
         ReopenInv, PullInv, PullTypeOK
  <2>4. s = submission[w].id /\ ~submission[w].retired
    BY <2>3, <1>1, SavedCopy DEF ReopenInv, SameClaims
  <2>5. CASE handler[w] # "put_save"
    BY <2>3, <2>4, <2>5 DEF PutsOldBack, StepsOn
  <2>6. CASE handler[w] = "put_save"
    <3>1. ~Ended(submission[w]) /\ Ended(table[s])
      BY <2>4, <2>6, <1>1 DEF ReopenInv, EndsAgree
    <3>2. submission[w].num_failures = table[s].num_failures + 1
      BY <3>1, <2>4, <2>6, <1>1 DEF ReopenInv, PullInv, CopiesCurrent, InPutResult, OwnFailure, Ended
    <3>3. /\ table[s].num_failures \in Nat /\ submission[w].num_failures \in Nat
          /\ table[s].lms_ack => s \in acked
          /\ resends \in Nat
      BY <1>1, <2>3 DEF ReopenInv, PullInv, PullTypeOK, TableTypeOK, CopiesJustified, RowsJustified,
                        Justified, Row
    <3>4. table[s].num_failures < MAX_NUMBER_OF_FAILURES /\ s \in acked
      BY <3>1, <3>2, <3>3, MaxFailuresAssumption DEF Ended
    <3>5. resends > 0
      BY <3>3, <2>4, <2>6, <1>1 DEF ReopenInv, FittingKeysOpen, InPutResult
    <3> QED
      BY <3>4, <3>5, <2>3, <2>4, <2>6 DEF FailsAfterAck, StepsOn
  <2> QED
    BY <2>5, <2>6
<1> QED
  BY <1>1, InitReopenInv, NextReopenInv, PTL DEF Spec, ReopenedInTwoWays

-----------------------------------------------------------------------------
(* 2. Requests that do not overlap *)

OneWebWorker == \A v, w \in WebWorkers : v = w

-----------------------------------------------------------------------------
(* A grader's ticket is not newer than the pull its row shows. *)
TicketsPast ==
  \A t \in tickets :
    /\ t.sid \in DOMAIN table
    /\ table[t.sid].pull_time \in Nat
    /\ t.at <= table[t.sid].pull_time

(* The failures of a row are those that happened, and too many retire it. *)
CountsExact ==
  \A s \in DOMAIN table :
    /\ table[s].num_failures = failedReplies[s]
    /\ table[s].num_failures > MAX_NUMBER_OF_FAILURES => table[s].retired

(* get_submission holds the row, but for a pull that all tickets are older   *)
(* than, by the delay.                                                       *)
PullsCurrent ==
  \A w \in WebWorkers : handler[w] \in {"get_save", "get_reply"} =>
    LET row == submission[w] IN
      /\ row.id \in DOMAIN table
      /\ row.num_failures = table[row.id].num_failures
      /\ row.retired = table[row.id].retired
      /\ \A t \in tickets :
           t.sid = row.id => t.at + SUBMISSION_PROCESSING_DELAY <= row.pull_time
      /\ handler[w] = "get_reply" /\ ~ATOMIC_REQUESTS
           => table[row.id].pull_time = row.pull_time

(* put_result holds the row, but for the outcome it has set. *)
ResultsCurrent ==
  \A w \in WebWorkers : InPutResult(w) =>
    LET row == submission[w] IN
      /\ row.pull_time = table[row.id].pull_time
      /\ row.num_failures > MAX_NUMBER_OF_FAILURES => row.retired

SerialInv ==
  /\ PullInv
  /\ TicketsPast
  /\ CountsExact
  /\ PullsCurrent
  /\ ResultsCurrent
  /\ NoDoublePull

-----------------------------------------------------------------------------
(* save() of a row that is there writes it as it is. *)
LEMMA SavedInPlace ==
  ASSUME NEW row, row.id \in DOMAIN table
  PROVE  /\ DOMAIN Saved(row) = DOMAIN table /\ Saved(row)[row.id] = row
         /\ \A s \in DOMAIN table : s # row.id => Saved(row)[s] = table[s]
  BY DEF Saved, Stored

LEMMA SerialTypes ==
  ASSUME SerialInv
  PROVE  /\ now \in Nat /\ tickets \subseteq Ticket
         /\ \A t \in tickets : t.at \in Nat
         /\ \A s \in DOMAIN table :
              /\ s \in Ids /\ table[s] \in Row /\ table[s].id = s
              /\ table[s].num_failures \in Nat /\ table[s].retired \in BOOLEAN
              /\ table[s].pull_time \in Nat \cup {Null}
         /\ failedReplies \in [Ids -> Nat]
  BY DEF SerialInv, PullInv, PullTypeOK, TableTypeOK, Ticket, Row, Times

LEMMA InitSerialInv == Init => SerialInv
<1> SUFFICES ASSUME Init PROVE SerialInv
  OBVIOUS
<1>1. PICK q \in [Ids -> Queues], url \in [Ids -> Urls], t \in [Ids -> 0..1] :
        table = [s \in Ids |-> NewSubmission(s, q[s], url[s], t[s])]
  BY DEF Init
<1>2. /\ tickets = {} /\ failedReplies = [s \in Ids |-> 0]
      /\ \A w \in WebWorkers : handler[w] = "idle"
  BY DEF Init, PullInit
<1>3. CountsExact
  BY <1>1, <1>2, MaxFailuresAssumption DEF CountsExact, NewSubmission
<1>4. TicketsPast /\ PullsCurrent /\ ResultsCurrent /\ NoDoublePull
  BY <1>2 DEF TicketsPast, PullsCurrent, ResultsCurrent, InPutResult, NoDoublePull
<1> QED
  BY <1>3, <1>4, InitPullInv DEF SerialInv

(* Rows and requests stay as they are, and no grader has a new ticket. *)
LEMMA SerialQuiet ==
  ASSUME SerialInv, PullInv', UNCHANGED <<table, handler, submission, failedReplies>>,
         tickets' \subseteq tickets
  PROVE  SerialInv'
<1>1. TicketsPast' /\ CountsExact' /\ NoDoublePull'
  BY DEF SerialInv, TicketsPast, CountsExact, NoDoublePull
<1>2. PullsCurrent' /\ ResultsCurrent'
  BY DEF SerialInv, PullsCurrent, ResultsCurrent, InPutResult
<1> QED
  BY <1>1, <1>2 DEF SerialInv

LEMMA SerialRead ==
  ASSUME OneWebWorker, SerialInv, PullInv', NEW w \in WebWorkers, GetSubmissionRead(w)
  PROVE  SerialInv'
<1>1. PICK s \in DOMAIN table, k \in Keys :
        /\ TimeFilter(table[s].pull_time)
        /\ Serves(w, "get_save", [table[s] EXCEPT !.pull_time = now, !.pullkey = k])
  BY DEF GetSubmissionRead, get_single_unretired_submission, Oldest, Pullable
<1> DEFINE row == [table[s] EXCEPT !.pull_time = now, !.pullkey = k]
<1>2. /\ UNCHANGED <<table, tickets, failedReplies>>
      /\ handler'[w] = "get_save" /\ submission'[w] = row
  BY <1>1 DEF GetSubmissionRead, Serves, tableVars, SerialInv, PullInv, PullTypeOK
<1>3. /\ row.id = s /\ row.num_failures = table[s].num_failures
      /\ row.retired = table[s].retired /\ row.pull_time = now
  BY SerialTypes DEF Row
<1>4. \A t \in tickets : t.sid = s => t.at + SUBMISSION_PROCESSING_DELAY <= now
  <2> SUFFICES ASSUME NEW t \in tickets, t.sid = s
               PROVE  t.at + SUBMISSION_PROCESSING_DELAY <= now
    OBVIOUS
  <2>1. table[s].pull_time \in Nat /\ t.at \in Nat /\ t.at <= table[s].pull_time
    BY SerialTypes DEF SerialInv, TicketsPast
  <2>2. table[s].pull_time + SUBMISSION_PROCESSING_DELAY <= now
    BY <1>1, <2>1, NullAssumption DEF TimeFilter
  <2> QED
    BY <2>1, <2>2, SerialTypes, DelayAssumption
<1> HIDE DEF row
<1>5. PullsCurrent'
  BY <1>2, <1>3, <1>4 DEF OneWebWorker, PullsCurrent
<1>6. ResultsCurrent'
  BY <1>2 DEF OneWebWorker, ResultsCurrent, InPutResult
<1>7. TicketsPast' /\ CountsExact' /\ NoDoublePull'
  BY <1>2 DEF SerialInv, TicketsPast, CountsExact, NoDoublePull
<1> QED
  BY <1>5, <1>6, <1>7 DEF SerialInv

(* The pull that get_submission holds becomes the one that the row shows. *)
LEMMA PullIsStored ==
  ASSUME SerialInv, NEW w \in WebWorkers, handler[w] \in {"get_save", "get_reply"},
         table' = Saved(submission[w]), tickets' \subseteq tickets,
         failedReplies' = failedReplies
  PROVE  /\ TicketsPast' /\ CountsExact'
         /\ submission[w].id \in DOMAIN table'
         /\ table'[submission[w].id] = submission[w]
<1> DEFINE row == submission[w]
<1>1. /\ row.id \in DOMAIN table /\ row.num_failures = table[row.id].num_failures
      /\ row.retired = table[row.id].retired /\ row.pull_time \in Nat
      /\ \A t \in tickets : t.sid = row.id => t.at + SUBMISSION_PROCESSING_DELAY <= row.pull_time
  BY DEF SerialInv, PullsCurrent, PullInv, PullsAreKeyed
<1>2. /\ DOMAIN table' = DOMAIN table /\ table'[row.id] = row
      /\ \A s \in DOMAIN table : s # row.id => table'[s] = table[s]
  BY <1>1, SavedInPlace
<1>3. TicketsPast'
  <2> SUFFICES ASSUME NEW t \in tickets
               PROVE  /\ t.sid \in DOMAIN table' /\ table'[t.sid].pull_time \in Nat
                      /\ t.at <= table'[t.sid].pull_time
    BY DEF TicketsPast
  <2>1. CASE t.sid = row.id
    BY <1>1, <1>2, <2>1, SerialTypes, DelayAssumption
  <2>2. CASE t.sid # row.id
    BY <1>2, <2>2 DEF SerialInv, TicketsPast
  <2> QED
    BY <2>1, <2>2
<1>4. CountsExact'
  BY <1>1, <1>2 DEF SerialInv, CountsExact
<1> QED
  BY <1>1, <1>2, <1>3, <1>4

LEMMA SerialSave ==
  ASSUME OneWebWorker, SerialInv, PullInv', NEW w \in WebWorkers, GetSubmissionSave(w)
  PROVE  SerialInv'
<1> DEFINE row == submission[w]
<1>1. /\ handler[w] = "get_save" /\ handler'[w] = "get_reply" /\ submission'[w] = row
      /\ UNCHANGED <<tickets, failedReplies>>
      /\ IF ATOMIC_REQUESTS THEN table' = table ELSE table' = Saved(row)
  BY DEF GetSubmissionSave, Serves, SerialInv, PullInv, PullTypeOK
<1>2. /\ row.id \in DOMAIN table /\ row.num_failures = table[row.id].num_failures
      /\ row.retired = table[row.id].retired
      /\ \A t \in tickets : t.sid = row.id => t.at + SUBMISSION_PROCESSING_DELAY <= row.pull_time
  BY <1>1 DEF SerialInv, PullsCurrent
<1>3. ResultsCurrent' /\ NoDoublePull'
  BY <1>1 DEF OneWebWorker, SerialInv, ResultsCurrent, InPutResult, NoDoublePull
<1>4. CASE ATOMIC_REQUESTS
  <2>1. TicketsPast' /\ CountsExact'
    BY <1>1, <1>4 DEF SerialInv, TicketsPast, CountsExact
  <2>2. PullsCurrent'
    BY <1>1, <1>2, <1>4 DEF OneWebWorker, PullsCurrent
  <2> QED
    BY <1>3, <2>1, <2>2 DEF SerialInv
<1>5. CASE ~ATOMIC_REQUESTS
  <2>1. TicketsPast' /\ CountsExact' /\ row.id \in DOMAIN table' /\ table'[row.id] = row
    BY <1>1, <1>5, PullIsStored
  <2>2. PullsCurrent'
    BY <1>1, <1>2, <2>1 DEF OneWebWorker, PullsCurrent
  <2> QED
    BY <1>3, <2>1, <2>2 DEF SerialInv
<1> QED
  BY <1>4, <1>5

(* After the reply the row shows the pull, for whose time no older ticket    *)
(* is within the delay.                                                      *)
LEMMA SerialCommit ==
  ASSUME OneWebWorker, SerialInv, PullInv', NEW w \in WebWorkers,
         GetSubmissionReply(w) \/ GetSubmissionFails(w)
  PROVE  SerialInv'
<1> DEFINE row == submission[w]  new == TicketOf(row)
<1>1. /\ handler[w] = "get_reply" /\ handler'[w] = "idle" /\ failedReplies' = failedReplies
      /\ IF ATOMIC_REQUESTS THEN table' = Saved(row) ELSE table' = table
      /\ tickets' \subseteq tickets \cup {new}
  BY DEF GetSubmissionReply, GetSubmissionFails, GetSubmissionCommit, Replies, Serves,
         SerialInv, PullInv, PullTypeOK
<1>2. /\ row.id \in DOMAIN table /\ row.pull_time \in Nat
      /\ \A t \in tickets : t.sid = row.id => t.at + SUBMISSION_PROCESSING_DELAY <= row.pull_time
      /\ ~ATOMIC_REQUESTS => table[row.id].pull_time = row.pull_time
  BY <1>1 DEF SerialInv, PullsCurrent, PullInv, PullsAreKeyed
<1>3. new.sid = row.id /\ new.at = row.pull_time
  BY DEF TicketOf
<1> HIDE DEF new
<1>4. PullsCurrent' /\ ResultsCurrent'
  BY <1>1 DEF OneWebWorker, PullsCurrent, ResultsCurrent, InPutResult
<1>5. /\ CountsExact'
      /\ \A t \in tickets :
           t.sid \in DOMAIN table' /\ table'[t.sid].pull_time \in Nat
             /\ t.at <= table'[t.sid].pull_time
      /\ row.id \in DOMAIN table' /\ table'[row.id].pull_time = row.pull_time
  <2>1. CASE ATOMIC_REQUESTS
    <3>1. /\ row.id \in DOMAIN table /\ row.num_failures = table[row.id].num_failures
          /\ row.retired = table[row.id].retired
      BY <1>1 DEF SerialInv, PullsCurrent
    <3>2. /\ DOMAIN table' = DOMAIN table /\ table'[row.id] = row
          /\ \A s \in DOMAIN table : s # row.id => table'[s] = table[s]
      BY <1>1, <2>1, <3>1, SavedInPlace
    <3>3. CountsExact'
      BY <1>1, <3>1, <3>2 DEF SerialInv, CountsExact
    <3>4. ASSUME NEW t \in tickets
          PROVE  t.sid \in DOMAIN table' /\ table'[t.sid].pull_time \in Nat
                   /\ t.at <= table'[t.sid].pull_time
      <4>1. CASE t.sid = row.id
        BY <1>2, <3>2, <4>1, SerialTypes, DelayAssumption
      <4>2. CASE t.sid # row.id
        BY <3>2, <4>2 DEF SerialInv, TicketsPast
      <4> QED
        BY <4>1, <4>2
    <3> QED
      BY <3>1, <3>2, <3>3, <3>4
  <2>2. CASE ~ATOMIC_REQUESTS
    BY <1>1, <1>2, <2>2 DEF SerialInv, TicketsPast, CountsExact
  <2> QED
    BY <2>1, <2>2
<1>6. TicketsPast'
  BY <1>1, <1>2, <1>3, <1>5 DEF TicketsPast
<1>7. NoDoublePull'
  <2> SUFFICES ASSUME NEW t \in tickets', NEW u \in tickets',
                      t.sid = u.sid, t.at <= u.at, t # u
               PROVE  t.at + SUBMISSION_PROCESSING_DELAY <= u.at
    BY DEF NoDoublePull
  <2>1. CASE t \in tickets /\ u \in tickets
    BY <2>1 DEF SerialInv, NoDoublePull
  <2>2. CASE t \in tickets /\ u = new
    BY <1>2, <1>3, <2>2
  <2>3. CASE t = new /\ u \in tickets
    BY <1>2, <1>3, <2>3, SerialTypes, DelayAssumption
  <2> QED
    BY <1>1, <2>1, <2>2, <2>3
<1> QED
  BY <1>4, <1>5, <1>6, <1>7 DEF SerialInv

LEMMA SerialLock ==
  ASSUME OneWebWorker, SerialInv, PullInv', NEW w \in WebWorkers, NEW t \in tickets,
         PutResultLock(w, t)
  PROVE  SerialInv'
<1> DEFINE row == table[t.sid]
<1>1. /\ t.sid \in DOMAIN table /\ UNCHANGED <<table, failedReplies>> /\ tickets' \subseteq tickets
      /\ handler'[w] = "put_post" /\ submission'[w] = row
  BY DEF PutResultLock, Serves, Sends, SerialInv, PullInv, PullTypeOK
<1>2. row.id = t.sid /\ (row.num_failures > MAX_NUMBER_OF_FAILURES => row.retired)
  BY <1>1, SerialTypes DEF SerialInv, CountsExact
<1>3. PullsCurrent' /\ ResultsCurrent'
  BY <1>1, <1>2 DEF OneWebWorker, PullsCurrent, ResultsCurrent
<1>4. TicketsPast' /\ CountsExact' /\ NoDoublePull'
  BY <1>1 DEF SerialInv, TicketsPast, CountsExact, NoDoublePull
<1> QED
  BY <1>3, <1>4 DEF SerialInv

LEMMA SerialPost ==
  ASSUME OneWebWorker, SerialInv, PullInv', NEW w \in WebWorkers, PutResultPost(w)
  PROVE  SerialInv'
<1>1. PICK success \in BOOLEAN : Serves(w, "put_save", Graded(submission[w], success))
  BY DEF PutResultPost
<1> DEFINE row == submission[w]  new == Graded(row, success)
<1>2. /\ handler[w] = "put_post" /\ UNCHANGED <<table, tickets, failedReplies>>
      /\ handler'[w] = "put_save" /\ submission'[w] = new
  BY <1>1 DEF PutResultPost, Serves, SerialInv, PullInv, PullTypeOK
<1>3. row \in Row /\ row.pull_time = table[row.id].pull_time
  BY <1>2 DEF SerialInv, PullInv, CopiesJustified, ResultsCurrent, InPutResult
<1>4. /\ new.id = row.id /\ new.pull_time = row.pull_time
      /\ new.num_failures > MAX_NUMBER_OF_FAILURES => new.retired
  <2>1. new.pull_time = row.pull_time
    BY <1>3 DEF Graded, Row
  <2> HIDE DEF new
  <2>2. /\ new.id = row.id
        /\ new.num_failures > MAX_NUMBER_OF_FAILURES => new.retired
    BY <1>3, GradedRow DEF new
  <2> QED
    BY <2>1, <2>2
<1> HIDE DEF new
<1>5. PullsCurrent' /\ ResultsCurrent'
  BY <1>2, <1>3, <1>4 DEF OneWebWorker, PullsCurrent, ResultsCurrent
<1>6. TicketsPast' /\ CountsExact' /\ NoDoublePull'
  BY <1>2 DEF SerialInv, TicketsPast, CountsExact, NoDoublePull
<1> QED
  BY <1>5, <1>6 DEF SerialInv

LEMMA SerialPutSave ==
  ASSUME OneWebWorker, SerialInv, PullInv', NEW w \in WebWorkers, PutResultSave(w)
  PROVE  SerialInv'
<1> DEFINE row == submission[w]
<1>1. /\ handler[w] = "put_save" /\ handler'[w] = "idle" /\ tickets' = tickets
      /\ table' = Saved(row)
      /\ failedReplies' = [failedReplies EXCEPT ![row.id] = IF row.lms_ack THEN @ ELSE @ + 1]
  BY DEF PutResultSave, Replies, Serves, SerialInv, PullInv, PullTypeOK
<1>2. /\ row.id \in DOMAIN table /\ row.pull_time = table[row.id].pull_time
      /\ row.num_failures = table[row.id].num_failures + IF row.lms_ack THEN 0 ELSE 1
      /\ row.num_failures > MAX_NUMBER_OF_FAILURES => row.retired
  BY <1>1 DEF SerialInv, PullInv, CopiesCurrent, ResultsCurrent, InPutResult, OwnFailure
<1>3. /\ DOMAIN table' = DOMAIN table /\ table'[row.id] = row
      /\ \A s \in DOMAIN table : s # row.id => table'[s] = table[s]
  BY <1>1, <1>2, SavedInPlace
<1>4. CountsExact'
  <2> SUFFICES ASSUME NEW s \in DOMAIN table
               PROVE  /\ table'[s].num_failures = failedReplies'[s]
                      /\ table'[s].num_failures > MAX_NUMBER_OF_FAILURES => table'[s].retired
    BY <1>3 DEF CountsExact
  <2>1. table[s].num_failures = failedReplies[s] /\ s \in Ids
    BY SerialTypes DEF SerialInv, CountsExact
  <2>2. CASE s = row.id
    BY <1>1, <1>2, <1>3, <2>1, <2>2, SerialTypes
  <2>3. CASE s # row.id
    BY <1>1, <1>3, <2>1, <2>3, SerialTypes DEF SerialInv, CountsExact
  <2> QED
    BY <2>2, <2>3
<1>5. TicketsPast'
  BY <1>1, <1>2, <1>3 DEF SerialInv, TicketsPast
<1>6. PullsCurrent' /\ ResultsCurrent'
  BY <1>1 DEF OneWebWorker, PullsCurrent, ResultsCurrent, InPutResult
<1>7. NoDoublePull'
  BY <1>1 DEF SerialInv, NoDoublePull
<1> QED
  BY <1>4, <1>5, <1>6, <1>7 DEF SerialInv

(* A request that aborts leaves the row, and with it the pull it saved. *)
LEMMA SerialAbort ==
  ASSUME OneWebWorker, SerialInv, PullInv', NEW w \in WebWorkers, RequestAborts(w)
  PROVE  SerialInv'
<1>1. UNCHANGED <<table, tickets, failedReplies>> /\ handler'[w] = "idle"
  BY DEF RequestAborts, RolledBack, Replies, Serves, SerialInv, PullInv, PullTypeOK
<1>2. PullsCurrent' /\ ResultsCurrent'
  BY <1>1 DEF OneWebWorker, PullsCurrent, ResultsCurrent, InPutResult
<1>3. TicketsPast' /\ CountsExact' /\ NoDoublePull'
  BY <1>1 DEF SerialInv, TicketsPast, CountsExact, NoDoublePull
<1> QED
  BY <1>2, <1>3 DEF SerialInv

LEMMA NextSerialInv ==
  ASSUME OneWebWorker, SerialInv, [Next]_vars
  PROVE  SerialInv'
<1>1. PullInv'
  BY NextPullInv DEF SerialInv
<1>2. ASSUME NEW w \in WebWorkers, Get(w) \/ Put(w) PROVE SerialInv'
  <2>1. CASE GetSubmissionEmpty(w)
    BY <1>1, <2>1, SerialQuiet DEF GetSubmissionEmpty, vars, tableVars, pullVars
  <2>2. ASSUME NEW t \in tickets, PutResultRejected(w, t) PROVE SerialInv'
    BY <1>1, <2>2, SerialQuiet DEF PutResultRejected, Sends, tableVars
  <2> QED
    BY <1>1, <1>2, <2>1, <2>2, SerialRead, SerialSave, SerialCommit, SerialLock, SerialPost,
       SerialPutSave DEF Get, Put
<1>3. ASSUME NEW w \in WebWorkers, GetSubmissionFails(w) \/ RequestAborts(w) PROVE SerialInv'
  BY <1>1, <1>3, SerialCommit, SerialAbort
<1>4. ASSUME NEW t \in tickets, GraderForgets(t) PROVE SerialInv'
  BY <1>1, <1>4, SerialQuiet DEF GraderForgets
<1>5. CASE Tick
  BY <1>1, <1>5, SerialQuiet DEF Tick, pullVars
<1>6. CASE UNCHANGED vars
  BY <1>1, <1>6, SerialQuiet DEF vars, tableVars, pullVars
<1> QED
  BY <1>2, <1>3, <1>4, <1>5, <1>6 DEF Next, Faulty

-----------------------------------------------------------------------------
(* One worker keeps copies current. *)
THEOREM SerialInvariant == ASSUME OneWebWorker PROVE Spec => []SerialInv
<1>1. SerialInv /\ [Next]_vars => SerialInv'
  BY NextSerialInv
<1> QED
  BY <1>1, InitSerialInv, PTL DEF Spec

(* A pulled submission is hidden from other graders for the delay, as long   *)
(* as requests do not overlap.                                               *)
THEOREM NoDoublePulls == ASSUME OneWebWorker PROVE Spec => []NoDoublePull
<1>1. SerialInv => NoDoublePull
  BY DEF SerialInv
<1> QED
  BY <1>1, SerialInvariant, PTL

(* More than MAX_NUMBER_OF_FAILURES failed replies retire a submission for   *)
(* good, as long as requests do not overlap.                                 *)
THEOREM AutoRetires == ASSUME OneWebWorker PROVE Spec => []AutoRetired
<1>1. SerialInv => AutoRetired
  BY DEF SerialInv, CountsExact, AutoRetired
<1> QED
  BY <1>1, SerialInvariant, PTL

-----------------------------------------------------------------------------
(* 3. The queue with leases: what its steps need besides SerialInv when      *)
(* graders send each result once.                                            *)

SentOnce == MaxResends = 0

(* A ticket opens its row once: no two of them have one key, and none has    *)
(* the key of a row that is done with.                                       *)
TicketsDiffer ==
  /\ \A t, u \in tickets : t.sid = u.sid /\ t.key = u.key => t = u
  /\ \A t \in tickets : table[t.sid].retired => t.key # table[t.sid].pullkey

(* A pull is of an open submission whose last pull has run out, and its key  *)
(* is new.                                                                   *)
PullsOpen ==
  \A w \in WebWorkers : handler[w] \in {"get_save", "get_reply"} =>
    LET row == submission[w] IN
      /\ ~row.retired /\ row.pull_time <= now
      /\ \A t \in tickets : t.key # row.pullkey
      /\ handler[w] = "get_save" \/ ATOMIC_REQUESTS
           => \/ table[row.id].pull_time = Null
              \/ table[row.id].pull_time + SUBMISSION_PROCESSING_DELAY <= row.pull_time

(* A result is for an open submission, and there is no other one for it. *)
ResultsOpen ==
  \A w \in WebWorkers : InPutResult(w) =>
    LET row == submission[w] IN
      /\ ~table[row.id].retired /\ table[row.id].pull_time \in Nat
      /\ row.pullkey = table[row.id].pullkey
      /\ \A t \in tickets : t.sid = row.id => t.key # row.pullkey
      /\ handler[w] = "put_save" =>
           (row.retired <=> row.lms_ack \/ row.num_failures > MAX_NUMBER_OF_FAILURES)

PromiseInv ==
  /\ SerialInv
  /\ DOMAIN table = Ids
  /\ TicketsDiffer
  /\ PullsOpen
  /\ ResultsOpen

-----------------------------------------------------------------------------
LEMMA InitPromiseInv == Init => PromiseInv
<1> SUFFICES ASSUME Init PROVE PromiseInv
  OBVIOUS
<1>1. DOMAIN table = Ids
  BY DEF Init
<1>2. tickets = {} /\ \A w \in WebWorkers : handler[w] = "idle"
  BY DEF Init, PullInit
<1>3. TicketsDiffer /\ PullsOpen /\ ResultsOpen
  BY <1>2 DEF TicketsDiffer, PullsOpen, ResultsOpen, InPutResult
<1> QED
  BY <1>1, <1>3, InitSerialInv DEF PromiseInv

(* Rows and requests stay as they are, and no grader has a new ticket. *)
LEMMA PromiseQuiet ==
  ASSUME PromiseInv, SerialInv', UNCHANGED <<table, handler, submission>>,
         now <= now', now' \in Nat, tickets' \subseteq tickets
  PROVE  PromiseInv'
<1>1. DOMAIN table' = Ids /\ TicketsDiffer' /\ ResultsOpen'
  BY DEF PromiseInv, TicketsDiffer, ResultsOpen, InPutResult
<1>2. PullsOpen'
  <2> SUFFICES ASSUME NEW w \in WebWorkers, handler[w] \in {"get_save", "get_reply"}
               PROVE  /\ ~submission[w].retired /\ submission[w].pull_time <= now'
                      /\ \A t \in tickets' : t.key # submission[w].pullkey
                      /\ handler[w] = "get_save" \/ ATOMIC_REQUESTS
                           => \/ table[submission[w].id].pull_time = Null
                              \/ table[submission[w].id].pull_time + SUBMISSION_PROCESSING_DELAY
                                   <= submission[w].pull_time
    BY DEF PullsOpen
  <2>1. submission[w].pull_time \in Nat
    BY DEF PromiseInv, SerialInv, PullInv, PullsAreKeyed
  <2>2. now \in Nat
    BY SerialTypes DEF PromiseInv
  <2>3. submission[w].pull_time <= now'
    BY <2>1, <2>2 DEF PromiseInv, PullsOpen
  <2> QED
    BY <2>3 DEF PromiseInv, PullsOpen
<1> QED
  BY <1>1, <1>2 DEF PromiseInv

LEMMA PromiseRead ==
  ASSUME OneWebWorker, PromiseInv, SerialInv', NEW w \in WebWorkers, GetSubmissionRead(w)
  PROVE  PromiseInv'
<1>1. PICK s \in DOMAIN table, k \in Keys \ KeysInUse :
        /\ TimeFilter(table[s].pull_time) /\ ~table[s].retired
        /\ Serves(w, "get_save", [table[s] EXCEPT !.pull_time = now, !.pullkey = k])
  BY DEF GetSubmissionRead, get_single_unretired_submission, Oldest, Pullable, Unretired
<1> DEFINE row == [table[s] EXCEPT !.pull_time = now, !.pullkey = k]
<1>2. /\ UNCHANGED <<table, now, tickets>>
      /\ handler'[w] = "get_save" /\ submission'[w] = row
  BY <1>1 DEF GetSubmissionRead, Serves, tableVars, PromiseInv, SerialInv, PullInv, PullTypeOK
<1>3. /\ row.id = s /\ row.retired = table[s].retired /\ row.pull_time = now /\ row.pullkey = k
      /\ now \in Nat
  BY SerialTypes DEF PromiseInv, Row
<1>4. \A t \in tickets : t.key # k
  BY DEF KeysInUse
<1> HIDE DEF row
<1>5. PullsOpen'
  BY <1>1, <1>2, <1>3, <1>4 DEF OneWebWorker, PullsOpen, TimeFilter
<1>6. ResultsOpen'
  BY <1>2 DEF OneWebWorker, ResultsOpen, InPutResult
<1>7. DOMAIN table' = Ids /\ TicketsDiffer'
  BY <1>2 DEF PromiseInv, TicketsDiffer
<1> QED
  BY <1>5, <1>6, <1>7 DEF PromiseInv

(* What get_submission saves, and the table when it has. *)
LEMMA PulledRow ==
  ASSUME PromiseInv, NEW w \in WebWorkers, handler[w] \in {"get_save", "get_reply"}
  PROVE  LET row == submission[w] IN
         /\ row.id \in Ids /\ row.id \in DOMAIN table /\ row.pull_time \in Nat
         /\ row.num_failures = table[row.id].num_failures
         /\ ~row.retired /\ ~table[row.id].retired
         /\ row.pull_time <= now /\ row.pull_time \in 0..now
         /\ \A t \in tickets : t.key # row.pullkey
         /\ table' = Saved(row) =>
              /\ DOMAIN table' = Ids /\ table'[row.id] = row
              /\ \A s \in Ids : s # row.id => table'[s] = table[s]
<1> DEFINE row == submission[w]
<1>1. /\ row.id \in DOMAIN table /\ row.num_failures = table[row.id].num_failures
      /\ row.retired = table[row.id].retired
  BY DEF PromiseInv, SerialInv, PullsCurrent
<1>2. /\ ~row.retired /\ row.pull_time <= now
      /\ \A t \in tickets : t.key # row.pullkey
  BY DEF PromiseInv, PullsOpen
<1>3. row.pull_time \in Nat /\ now \in Nat
  BY SerialTypes DEF PromiseInv, SerialInv, PullInv, PullsAreKeyed
<1>4. DOMAIN table = Ids
  BY DEF PromiseInv
<1> QED
  BY <1>1, <1>2, <1>3, <1>4, SavedInPlace

LEMMA PromiseSave ==
  ASSUME OneWebWorker, PromiseInv, SerialInv', NEW w \in WebWorkers, GetSubmissionSave(w)
  PROVE  PromiseInv'
<1> DEFINE row == submission[w]
<1>1. /\ handler[w] = "get_save" /\ handler'[w] = "get_reply" /\ submission'[w] = row
      /\ UNCHANGED <<tickets, now>>
      /\ IF ATOMIC_REQUESTS THEN table' = table ELSE table' = Saved(row)
  BY DEF GetSubmissionSave, Serves, PromiseInv, SerialInv, PullInv, PullTypeOK
<1>2. /\ row.id \in Ids /\ row.id \in DOMAIN table /\ ~row.retired /\ row.pull_time <= now
      /\ \A t \in tickets : t.key # row.pullkey
      /\ table' = Saved(row) =>
           /\ DOMAIN table' = Ids /\ table'[row.id] = row
           /\ \A s \in Ids : s # row.id => table'[s] = table[s]
  BY <1>1, PulledRow
<1>3. DOMAIN table' = Ids
  BY <1>1, <1>2 DEF PromiseInv
<1>4. TicketsDiffer'
  <2>1. ASSUME NEW t \in tickets, table'[t.sid].retired PROVE t.key # table'[t.sid].pullkey
    <3>1. t.sid \in Ids
      BY DEF PromiseInv, SerialInv, TicketsPast
    <3> QED
      BY <1>1, <1>2, <2>1, <3>1 DEF PromiseInv, TicketsDiffer
  <2> QED
    BY <1>1, <2>1 DEF PromiseInv, TicketsDiffer
<1>5. PullsOpen'
  BY <1>1, <1>2 DEF OneWebWorker, PromiseInv, PullsOpen
<1>6. ResultsOpen'
  BY <1>1 DEF OneWebWorker, ResultsOpen, InPutResult
<1> QED
  BY <1>3, <1>4, <1>5, <1>6 DEF PromiseInv

LEMMA PromiseCommit ==
  ASSUME OneWebWorker, PromiseInv, SerialInv', NEW w \in WebWorkers,
         GetSubmissionReply(w) \/ GetSubmissionFails(w)
  PROVE  PromiseInv'
<1> DEFINE row == submission[w]  new == TicketOf(row)
<1>1. /\ handler[w] = "get_reply" /\ handler'[w] = "idle"
      /\ IF ATOMIC_REQUESTS THEN table' = Saved(row) ELSE table' = table
      /\ tickets' \subseteq tickets \cup {new}
  BY DEF GetSubmissionReply, GetSubmissionFails, GetSubmissionCommit, Replies, Serves,
         PromiseInv, SerialInv, PullInv, PullTypeOK
<1>2. /\ row.id \in Ids /\ ~row.retired /\ ~table[row.id].retired
      /\ \A t \in tickets : t.key # row.pullkey
      /\ table' = Saved(row) =>
           /\ DOMAIN table' = Ids /\ table'[row.id] = row
           /\ \A s \in Ids : s # row.id => table'[s] = table[s]
  BY <1>1, PulledRow
<1>3. new.sid = row.id /\ new.key = row.pullkey
  BY DEF TicketOf
<1> HIDE DEF new
<1>4. DOMAIN table' = Ids
  BY <1>1, <1>2 DEF PromiseInv
<1>5. TicketsDiffer'
  <2>1. ASSUME NEW t \in tickets', NEW u \in tickets', t.sid = u.sid, t.key = u.key PROVE t = u
    BY <1>1, <1>2, <1>3, <2>1 DEF PromiseInv, TicketsDiffer
  <2>2. ASSUME NEW t \in tickets', table'[t.sid].retired PROVE t.key # table'[t.sid].pullkey
    <3>1. t \in tickets /\ t.sid # row.id
      BY <1>1, <1>2, <1>3, <2>2
    <3>2. t.sid \in Ids
      BY <3>1 DEF PromiseInv, SerialInv, TicketsPast
    <3> QED
      BY <1>1, <1>2, <2>2, <3>1, <3>2 DEF PromiseInv, TicketsDiffer
  <2> QED
    BY <2>1, <2>2 DEF TicketsDiffer
<1>6. PullsOpen' /\ ResultsOpen'
  BY <1>1 DEF OneWebWorker, PullsOpen, ResultsOpen, InPutResult
<1> QED
  BY <1>4, <1>5, <1>6 DEF PromiseInv

LEMMA PromiseLock ==
  ASSUME OneWebWorker, SentOnce, PromiseInv, SerialInv', NEW w \in WebWorkers, NEW t \in tickets,
         PutResultLock(w, t)
  PROVE  PromiseInv'
<1> DEFINE row == table[t.sid]
<1>1. /\ t.sid \in DOMAIN table /\ row.pullkey = t.key /\ UNCHANGED <<table, now>>
      /\ handler'[w] = "put_post" /\ submission'[w] = row
  BY DEF PutResultLock, KeyMatches, Serves, PromiseInv, SerialInv, PullInv, PullTypeOK
<1>2. tickets' = tickets \ {t}
  BY DEF PutResultLock, Sends, SentOnce, PromiseInv, SerialInv, PullInv, PullTypeOK
<1>3. row.id = t.sid /\ row.pull_time \in Nat
  BY <1>1, SerialTypes DEF PromiseInv, SerialInv, TicketsPast
<1>4. ~row.retired /\ \A u \in tickets' : u.sid = t.sid => u.key # row.pullkey
  BY <1>1, <1>2 DEF PromiseInv, TicketsDiffer
<1>5. PullsOpen' /\ ResultsOpen'
  BY <1>1, <1>3, <1>4 DEF OneWebWorker, PullsOpen, ResultsOpen
<1>6. DOMAIN table' = Ids /\ TicketsDiffer'
  BY <1>1, <1>2 DEF PromiseInv, TicketsDiffer
<1> QED
  BY <1>5, <1>6 DEF PromiseInv

LEMMA PromisePost ==
  ASSUME OneWebWorker, PromiseInv, SerialInv', NEW w \in WebWorkers, PutResultPost(w)
  PROVE  PromiseInv'
<1>1. PICK success \in BOOLEAN : Serves(w, "put_save", Graded(submission[w], success))
  BY DEF PutResultPost
<1> DEFINE row == submission[w]  new == Graded(row, success)
<1>2. /\ handler[w] = "put_post" /\ UNCHANGED <<table, now, tickets>>
      /\ handler'[w] = "put_save" /\ submission'[w] = new
  BY <1>1 DEF PutResultPost, Serves, PromiseInv, SerialInv, PullInv, PullTypeOK
<1>3. /\ row \in Row /\ ~table[row.id].retired /\ table[row.id].pull_time \in Nat
      /\ row.pullkey = table[row.id].pullkey
      /\ \A t \in tickets : t.sid = row.id => t.key # row.pullkey
  BY <1>2 DEF PromiseInv, SerialInv, PullInv, CopiesJustified, ResultsOpen, InPutResult
<1>4. /\ new.id = row.id /\ new.pullkey = row.pullkey
      /\ new.retired <=> new.lms_ack \/ new.num_failures > MAX_NUMBER_OF_FAILURES
  <2>1. new.pullkey = row.pullkey
    BY <1>3 DEF Graded, Row
  <2> HIDE DEF new
  <2>2. /\ new.id = row.id
        /\ new.retired <=> new.lms_ack \/ new.num_failures > MAX_NUMBER_OF_FAILURES
    BY <1>3, GradedRow DEF new
  <2> QED
    BY <2>1, <2>2
<1> HIDE DEF new
<1>5. PullsOpen' /\ ResultsOpen'
  BY <1>2, <1>3, <1>4 DEF OneWebWorker, PullsOpen, ResultsOpen
<1>6. DOMAIN table' = Ids /\ TicketsDiffer'
  BY <1>2 DEF PromiseInv, TicketsDiffer
<1> QED
  BY <1>5, <1>6 DEF PromiseInv

(* What put_result saves: an open submission, finished or with one more      *)
(* failure.                                                                  *)
LEMMA ResultRow ==
  ASSUME PromiseInv, NEW w \in WebWorkers, handler[w] = "put_save", table' = Saved(submission[w])
  PROVE  LET row == submission[w] IN
         /\ row.id \in Ids /\ row.pull_time = table[row.id].pull_time
         /\ table[row.id].pull_time \in Nat /\ ~table[row.id].retired
         /\ row.lms_ack \in BOOLEAN
         /\ table[row.id].num_failures \in Nat
         /\ row.num_failures = table[row.id].num_failures + IF row.lms_ack THEN 0 ELSE 1
         /\ table[row.id].num_failures <= MAX_NUMBER_OF_FAILURES
         /\ row.retired <=> row.lms_ack \/ row.num_failures > MAX_NUMBER_OF_FAILURES
         /\ DOMAIN table' = Ids /\ table'[row.id] = row
         /\ \A s \in Ids : s # row.id => table'[s] = table[s]
<1> DEFINE row == submission[w]
<1>1. /\ row \in Row /\ row.id \in DOMAIN table /\ row.pull_time = table[row.id].pull_time
      /\ row.num_failures = table[row.id].num_failures + IF row.lms_ack THEN 0 ELSE 1
  BY DEF PromiseInv, SerialInv, PullInv, CopiesJustified, CopiesCurrent, ResultsCurrent,
         InPutResult, OwnFailure
<1>2. /\ table[row.id].pull_time \in Nat /\ ~table[row.id].retired
      /\ row.retired <=> row.lms_ack \/ row.num_failures > MAX_NUMBER_OF_FAILURES
  BY DEF PromiseInv, ResultsOpen, InPutResult
<1>3. table[row.id].num_failures \in Nat /\ table[row.id].num_failures <= MAX_NUMBER_OF_FAILURES
  BY <1>1, <1>2, SerialTypes, MaxFailuresAssumption DEF PromiseInv, SerialInv, CountsExact
<1>4. /\ DOMAIN table' = DOMAIN table /\ table'[row.id] = row
      /\ \A s \in DOMAIN table : s # row.id => table'[s] = table[s]
  BY <1>1, SavedInPlace
<1>5. row.lms_ack \in BOOLEAN
  BY <1>1 DEF Row
<1> QED
  BY <1>1, <1>2, <1>3, <1>4, <1>5 DEF PromiseInv

LEMMA PromisePutSave ==
  ASSUME OneWebWorker, PromiseInv, SerialInv', NEW w \in WebWorkers, PutResultSave(w)
  PROVE  PromiseInv'
<1> DEFINE row == submission[w]
<1>1. /\ handler[w] = "put_save" /\ handler'[w] = "idle" /\ tickets' = tickets
      /\ table' = Saved(row)
  BY DEF PutResultSave, Replies, Serves, PromiseInv, SerialInv, PullInv, PullTypeOK
<1>2. /\ row.id \in Ids /\ DOMAIN table' = Ids /\ table'[row.id] = row
      /\ \A s \in Ids : s # row.id => table'[s] = table[s]
  BY <1>1, ResultRow
<1>3. \A t \in tickets : t.sid = row.id => t.key # row.pullkey
  BY <1>1 DEF PromiseInv, ResultsOpen, InPutResult
<1>4. TicketsDiffer'
  <2>1. ASSUME NEW t \in tickets, table'[t.sid].retired PROVE t.key # table'[t.sid].pullkey
    <3>1. t.sid \in Ids
      BY DEF PromiseInv, SerialInv, TicketsPast
    <3> QED
      BY <1>2, <1>3, <2>1, <3>1 DEF PromiseInv, TicketsDiffer
  <2> QED
    BY <1>1, <2>1 DEF PromiseInv, TicketsDiffer
<1>5. PullsOpen' /\ ResultsOpen'
  BY <1>1 DEF OneWebWorker, PullsOpen, ResultsOpen, InPutResult
<1> QED
  BY <1>2, <1>4, <1>5 DEF PromiseInv

LEMMA PromiseAbort ==
  ASSUME OneWebWorker, PromiseInv, SerialInv', NEW w \in WebWorkers, RequestAborts(w)
  PROVE  PromiseInv'
<1>1. UNCHANGED <<table, tickets>> /\ handler'[w] = "idle"
  BY DEF RequestAborts, RolledBack, Replies, Serves, PromiseInv, SerialInv, PullInv, PullTypeOK
<1>2. PullsOpen' /\ ResultsOpen'
  BY <1>1 DEF OneWebWorker, PullsOpen, ResultsOpen, InPutResult
<1>3. DOMAIN table' = Ids /\ TicketsDiffer'
  BY <1>1 DEF PromiseInv, TicketsDiffer
<1> QED
  BY <1>2, <1>3 DEF PromiseInv

LEMMA NextPromiseInv ==
  ASSUME OneWebWorker, SentOnce, PromiseInv, [Next]_vars
  PROVE  PromiseInv'
<1>1. SerialInv' /\ now \in Nat
  BY NextSerialInv, SerialTypes DEF PromiseInv
<1>2. ASSUME NEW w \in WebWorkers, Get(w) \/ Put(w) PROVE PromiseInv'
  <2>1. CASE GetSubmissionEmpty(w)
    BY <1>1, <2>1, PromiseQuiet DEF GetSubmissionEmpty, vars, tableVars, pullVars
  <2>2. ASSUME NEW t \in tickets, PutResultRejected(w, t) PROVE PromiseInv'
    BY <1>1, <2>2, PromiseQuiet DEF PutResultRejected, Sends, tableVars
  <2> QED
    BY <1>1, <1>2, <2>1, <2>2, PromiseRead, PromiseSave, PromiseCommit, PromiseLock, PromisePost,
       PromisePutSave DEF Get, Put
<1>3. ASSUME NEW w \in WebWorkers, GetSubmissionFails(w) \/ RequestAborts(w) PROVE PromiseInv'
  BY <1>1, <1>3, PromiseCommit, PromiseAbort
<1>4. ASSUME NEW t \in tickets, GraderForgets(t) PROVE PromiseInv'
  BY <1>1, <1>4, PromiseQuiet DEF GraderForgets
<1>5. CASE Tick
  BY <1>1, <1>5, PromiseQuiet DEF Tick, pullVars
<1>6. CASE UNCHANGED vars
  BY <1>1, <1>6, PromiseQuiet DEF vars, tableVars, pullVars
<1> QED
  BY <1>2, <1>3, <1>4, <1>5, <1>6 DEF Next, Faulty

-----------------------------------------------------------------------------
(* Every step is a step of the queue, or none *)

LEMMA InitIsPromised == Init => Promise!Init
<1> SUFFICES ASSUME Init PROVE Promise!Init
  OBVIOUS
<1>1. PICK q \in [Ids -> Queues], url \in [Ids -> Urls], t \in [Ids -> 0..1] :
        table = [s \in Ids |-> NewSubmission(s, q[s], url[s], t[s])]
  BY DEF Init
<1>2. \A s \in Ids :
        table[s].pull_time = Null /\ table[s].num_failures = 0 /\ table[s].retired = FALSE
  BY <1>1 DEF NewSubmission
<1>3. now \in Nat
  BY DEF Init
<1> QED
  BY <1>2, <1>3 DEF Promise!Init

LEMMA PullIsLease ==
  ASSUME PromiseInv, NEW w \in WebWorkers, handler[w] \in {"get_save", "get_reply"},
         handler[w] = "get_save" \/ ATOMIC_REQUESTS,
         table' = Saved(submission[w]), now' = now
  PROVE  Promise!Next
<1> DEFINE row == submission[w]
<1>1. /\ row.id \in Ids /\ row.pull_time \in 0..now
      /\ row.num_failures = table[row.id].num_failures
      /\ ~row.retired /\ ~table[row.id].retired
      /\ DOMAIN table' = Ids /\ table'[row.id] = row
      /\ \A s \in Ids : s # row.id => table'[s] = table[s]
  BY PulledRow
<1>2. \/ table[row.id].pull_time = Null
      \/ table[row.id].pull_time + SUBMISSION_PROCESSING_DELAY <= row.pull_time
  BY DEF PromiseInv, PullsOpen
<1> HIDE DEF row
<1>3. PICK s \in Ids, t \in 0..now : s = row.id /\ t = row.pull_time
  BY <1>1
<1>4. Promise!Lease(s, t)
  BY <1>1, <1>2, <1>3 DEF Promise!Lease
<1> QED
  BY <1>4 DEF Promise!Next

LEMMA ResultIsPromised ==
  ASSUME PromiseInv, NEW w \in WebWorkers, handler[w] = "put_save",
         table' = Saved(submission[w]), now' = now
  PROVE  Promise!Next
<1> DEFINE row == submission[w]  n == table[row.id].num_failures
<1>1. /\ row.id \in Ids /\ row.pull_time = table[row.id].pull_time
      /\ table[row.id].pull_time \in Nat /\ ~table[row.id].retired
      /\ row.lms_ack \in BOOLEAN /\ n \in Nat
      /\ row.num_failures = n + IF row.lms_ack THEN 0 ELSE 1
      /\ n <= MAX_NUMBER_OF_FAILURES
      /\ row.retired <=> row.lms_ack \/ row.num_failures > MAX_NUMBER_OF_FAILURES
      /\ DOMAIN table' = Ids /\ table'[row.id] = row
      /\ \A s \in Ids : s # row.id => table'[s] = table[s]
  BY ResultRow
<1>2. table[row.id].pull_time # Null
  BY <1>1, NullAssumption
<1> HIDE DEF row
<1> PICK s \in Ids : s = row.id
  BY <1>1
<1>3. CASE row.lms_ack
  <2>1. row.num_failures = n /\ row.retired
    BY <1>1, <1>3
  <2>2. Promise!Deliver(s)
    BY <1>1, <1>2, <2>1 DEF Promise!Deliver
  <2> QED
    BY <2>2 DEF Promise!Next
<1>4. CASE ~row.lms_ack
  <2>1. row.num_failures = n + 1
    BY <1>1, <1>4
  <2>2. row.retired <=> n = MAX_NUMBER_OF_FAILURES
    BY <1>1, <1>4, <2>1, MaxFailuresAssumption
  <2>3. /\ [r \in Ids |-> table'[r].num_failures]
             = [[r \in Ids |-> table[r].num_failures] EXCEPT ![s] = @ + 1]
        /\ [r \in Ids |-> table'[r].pull_time] = [r \in Ids |-> table[r].pull_time]
    BY <1>1, <2>1
  <2>4. {r \in Ids : table'[r].retired}
          = IF n = MAX_NUMBER_OF_FAILURES THEN {r \in Ids : table[r].retired} \cup {s}
                                          ELSE {r \in Ids : table[r].retired}
    BY <1>1, <2>2
  <2>5. Promise!Fail(s)
    BY <1>1, <1>2, <2>3, <2>4 DEF Promise!Fail
  <2> QED
    BY <2>5 DEF Promise!Next
<1> QED
  BY <1>1, <1>3, <1>4

LEMMA StepIsPromised ==
  ASSUME PromiseInv, [Next]_vars
  PROVE  [Promise!Next]_(Promise!vars)
<1>1. CASE table' = table /\ now' = now
  BY <1>1 DEF Promise!vars
<1>2. ASSUME NEW w \in WebWorkers, Get(w) \/ Put(w) \/ GetSubmissionFails(w) \/ RequestAborts(w)
      PROVE  [Promise!Next]_(Promise!vars)
  <2>1. CASE GetSubmissionSave(w)
    BY <1>1, <2>1, PullIsLease DEF GetSubmissionSave
  <2>2. CASE GetSubmissionCommit(w)
    BY <1>1, <2>2, PullIsLease DEF GetSubmissionCommit
  <2>3. CASE PutResultSave(w)
    BY <2>3, ResultIsPromised DEF PutResultSave
  <2>4. CASE GetSubmissionRead(w) \/ GetSubmissionEmpty(w) \/ PutResultPost(w) \/ RequestAborts(w)
    BY <1>1, <2>4 DEF GetSubmissionRead, GetSubmissionEmpty, PutResultPost, RequestAborts,
                      RolledBack, vars, tableVars
  <2>5. ASSUME NEW t \in tickets, PutResultLock(w, t) \/ PutResultRejected(w, t)
        PROVE  [Promise!Next]_(Promise!vars)
    BY <1>1, <2>5 DEF PutResultLock, PutResultRejected, tableVars
  <2> QED
    BY <1>2, <2>1, <2>2, <2>3, <2>4, <2>5 DEF Get, Put, GetSubmissionReply, GetSubmissionFails
<1>3. ASSUME NEW t \in tickets, GraderForgets(t) PROVE [Promise!Next]_(Promise!vars)
  BY <1>1, <1>3 DEF GraderForgets
<1>4. CASE Tick
  BY <1>4 DEF Tick, Promise!Next, Promise!Tick
<1>5. CASE UNCHANGED vars
  BY <1>1, <1>5 DEF vars, tableVars
<1> QED
  BY <1>2, <1>3, <1>4, <1>5 DEF Next, Faulty

(* With one web worker and graders that send each result once, the pull      *)
(* interface is a queue with leases: one grader at a time has a submission,  *)
(* and it ends with a result the LMS takes or with one failure too many.     *)
THEOREM ServesAsPromised == ASSUME OneWebWorker, SentOnce PROVE Spec => KeepsPromise
<1>1. PromiseInv /\ [Next]_vars => PromiseInv'
  BY NextPromiseInv
<1>2. PromiseInv /\ [Next]_vars => [Promise!Next]_(Promise!vars)
  BY StepIsPromised
<1> QED
  BY <1>1, <1>2, InitPromiseInv, InitIsPromised, PTL DEF Spec, KeepsPromise, Promise!Spec
-----------------------------------------------------------------------------
(* What the promise says of the table *)

(* The abstract queue: what is finished stays so, and it counts no more      *)
(* failures of a submission than finish it.                                  *)
PromisedCounts ==
  \A s \in Ids :
    /\ table[s].num_failures \in 0..MAX_NUMBER_OF_FAILURES + 1
    /\ table[s].num_failures > MAX_NUMBER_OF_FAILURES => table[s].retired

LEMMA InitPromisedCounts == Promise!Init => PromisedCounts
BY MaxFailuresAssumption DEF Promise!Init, PromisedCounts

LEMMA PromiseEnds ==
  ASSUME [Promise!Next]_(Promise!vars), NEW s \in Ids, table[s].retired
  PROVE  table'[s].retired
<1>1. {r \in Ids : table[r].retired} \subseteq {r \in Ids : table'[r].retired}
  BY DEF Promise!Next, Promise!vars, Promise!Lease, Promise!Deliver, Promise!Fail, Promise!Tick
<1> QED
  BY <1>1

LEMMA PromiseCounts ==
  ASSUME PromisedCounts, [Promise!Next]_(Promise!vars)
  PROVE  PromisedCounts'
<1> DEFINE n == [s \in Ids |-> table[s].num_failures]
           m == [s \in Ids |-> table'[s].num_failures]
           done == {s \in Ids : table[s].retired}
           ended == {s \in Ids : table'[s].retired}
<1>1. \/ m = n /\ done \subseteq ended
      \/ \E s \in Ids : /\ s \notin done
                        /\ m = [n EXCEPT ![s] = @ + 1]
                        /\ ended = IF n[s] = MAX_NUMBER_OF_FAILURES THEN done \cup {s} ELSE done
  BY DEF Promise!Next, Promise!vars, Promise!Lease, Promise!Deliver, Promise!Fail, Promise!Tick
<1> SUFFICES ASSUME NEW s \in Ids
             PROVE  /\ m[s] \in 0..MAX_NUMBER_OF_FAILURES + 1
                    /\ m[s] > MAX_NUMBER_OF_FAILURES => s \in ended
  BY DEF PromisedCounts
<1>2. /\ n[s] \in 0..MAX_NUMBER_OF_FAILURES + 1
      /\ n[s] > MAX_NUMBER_OF_FAILURES => s \in done
  BY DEF PromisedCounts
<1>3. DOMAIN n = Ids /\ DOMAIN m = Ids
  OBVIOUS
<1> HIDE DEF n, m, done, ended
<1> QED
  BY <1>1, <1>2, <1>3, MaxFailuresAssumption

(* What is retired is never handed out again: it stays retired.  (Beside     *)
(* other requests a get_submission may write back an older copy.)            *)
THEOREM EndsForGood ==
  ASSUME OneWebWorker, SentOnce
  PROVE  Spec => [][\A s \in Ids : table[s].retired => table'[s].retired]_vars
<1>1. [Promise!Next]_(Promise!vars) => \A s \in Ids : table[s].retired => table'[s].retired
  BY PromiseEnds
<1>2. KeepsPromise => [][Promise!Next]_(Promise!vars)
  BY PTL DEF KeepsPromise, Promise!Spec
<1>3. PromiseInv /\ [Next]_vars => PromiseInv'
  BY NextPromiseInv
<1>4. PromiseInv /\ [Next]_vars => [Promise!Next]_(Promise!vars)
  BY StepIsPromised
<1> QED
  BY <1>1, <1>3, <1>4, InitPromiseInv, PTL DEF Spec

(* No submission fails more often than MAX_NUMBER_OF_FAILURES + 1 times: the *)
(* views stop trying with the failure that crosses the maximum.              *)
THEOREM FailuresBounded ==
  ASSUME OneWebWorker, SentOnce
  PROVE  Spec => [](\A s \in Ids : failedReplies[s] <= MAX_NUMBER_OF_FAILURES + 1)
<1>1. PromiseInv /\ [Next]_vars => PromiseInv'
  BY NextPromiseInv
<1>2. PromiseInv /\ PromisedCounts /\ [Next]_vars => PromisedCounts'
  BY StepIsPromised, PromiseCounts
<1>3. PromiseInv /\ PromisedCounts
        => \A s \in Ids : failedReplies[s] <= MAX_NUMBER_OF_FAILURES + 1
  BY MaxFailuresAssumption DEF PromiseInv, SerialInv, CountsExact, PromisedCounts
<1>4. Init => PromisedCounts
  BY InitIsPromised, InitPromisedCounts
<1> QED
  BY <1>1, <1>2, <1>3, <1>4, InitPromiseInv, PTL DEF Spec

-----------------------------------------------------------------------------
(* One grade for each submission *)

(* A submission whose grade the LMS took is finished, or put_result is about *)
(* to save that it is, unless something was lost.                            *)
AckedIsFinished ==
  faults = 0 =>
    \A s \in acked :
      /\ s \in Ids
      /\ \/ table[s].retired
         \/ \E w \in WebWorkers :
              handler[w] = "put_save" /\ submission[w].id = s /\ submission[w].lms_ack

LEMMA AckedStep ==
  ASSUME OneWebWorker, PromiseInv, AckedIsFinished, [Next]_vars
  PROVE  AckedIsFinished'
<1>1. \A s \in Ids : table[s].retired => table'[s].retired
  BY StepIsPromised, PromiseEnds
<1>2. faults \in Nat
  BY DEF PromiseInv, SerialInv, PullInv, PullTypeOK, TableTypeOK
<1>3. CASE UNCHANGED <<acked, handler, submission>> /\ faults <= faults' /\ faults' \in Nat
  BY <1>1, <1>2, <1>3 DEF AckedIsFinished
<1>4. CASE faults' = faults + 1
  BY <1>2, <1>4 DEF AckedIsFinished
<1>5. ASSUME NEW w \in WebWorkers, handler[w] # "put_save",
             UNCHANGED <<acked, faults>>
      PROVE  AckedIsFinished'
  <2>1. \A v \in WebWorkers : handler[v] # "put_save"
    BY <1>5 DEF OneWebWorker
  <2> QED
    BY <1>1, <1>5, <2>1 DEF AckedIsFinished
<1>6. ASSUME NEW w \in WebWorkers, PutResultPost(w) PROVE AckedIsFinished'
  <2>1. PICK success \in BOOLEAN :
          /\ Serves(w, "put_save", Graded(submission[w], success))
          /\ acked' = IF success THEN acked \cup {submission[w].id} ELSE acked
    BY <1>6 DEF PutResultPost
  <2>2. /\ handler[w] = "put_post" /\ handler'[w] = "put_save" /\ faults' = faults
        /\ submission'[w] = Graded(submission[w], success)
    BY <1>6, <2>1 DEF PutResultPost, Serves, PromiseInv, SerialInv, PullInv, PullTypeOK
  <2>3. submission[w] \in Row
    BY <2>2 DEF PromiseInv, SerialInv, PullInv, CopiesJustified
  <2>4. /\ submission[w].id \in Ids
        /\ submission'[w].id = submission[w].id /\ submission'[w].lms_ack = success
    BY <2>2, <2>3 DEF Graded, Row
  <2>5. \A v \in WebWorkers : handler[v] # "put_save"
    BY <2>2 DEF OneWebWorker
  <2> QED
    BY <1>1, <2>1, <2>2, <2>4, <2>5 DEF AckedIsFinished
<1>7. ASSUME NEW w \in WebWorkers, PutResultSave(w) PROVE AckedIsFinished'
  <2> DEFINE row == submission[w]
  <2>1. handler[w] = "put_save" /\ table' = Saved(row) /\ UNCHANGED <<faults, acked>>
    BY <1>7 DEF PutResultSave
  <2>2. table'[row.id] = row /\ (row.lms_ack => row.retired)
    BY <2>1, ResultRow
  <2> QED
    BY <1>1, <2>1, <2>2 DEF OneWebWorker, AckedIsFinished
<1>8. ASSUME NEW w \in WebWorkers, Get(w) PROVE AckedIsFinished'
  BY <1>3, <1>5, <1>8, <1>2 DEF Get, GetSubmissionRead, GetSubmissionEmpty, GetSubmissionSave,
     GetSubmissionReply, GetSubmissionCommit, vars, tableVars, pullVars
<1>9. ASSUME NEW w \in WebWorkers, NEW t \in tickets,
             PutResultLock(w, t) \/ PutResultRejected(w, t)
      PROVE  AckedIsFinished'
  BY <1>5, <1>9 DEF PutResultLock, PutResultRejected, tableVars
<1>10. CASE Faulty
  BY <1>4, <1>10 DEF Faulty, GetSubmissionFails, RequestAborts, GraderForgets, Fault
<1>11. CASE Tick \/ UNCHANGED vars
  BY <1>2, <1>3, <1>11 DEF Tick, vars, tableVars, pullVars
<1> QED
  BY <1>6, <1>7, <1>8, <1>9, <1>10, <1>11 DEF Next, Put

(* With one web worker and graders that send each result once, the LMS is    *)
(* not given a second grade for a submission unless something was lost.      *)
THEOREM GradesOnce == ASSUME OneWebWorker, SentOnce PROVE Spec => []GradedOnce
<1>1. PromiseInv /\ [Next]_vars => PromiseInv'
  BY NextPromiseInv
<1>2. PromiseInv /\ AckedIsFinished /\ [Next]_vars => AckedIsFinished'
  BY AckedStep
<1>3. Init => AckedIsFinished
  BY DEF Init, PullInit, AckedIsFinished
<1>4. PromiseInv /\ AckedIsFinished => GradedOnce
  <2> SUFFICES ASSUME PromiseInv, AckedIsFinished, NEW w \in WebWorkers,
                      handler[w] = "put_post", submission[w].id \in acked, ~(faults > 0)
               PROVE  FALSE
    BY DEF GradedOnce
  <2>1. faults = 0
    BY DEF PromiseInv, SerialInv, PullInv, PullTypeOK, TableTypeOK
  <2>2. ~table[submission[w].id].retired
    BY DEF PromiseInv, ResultsOpen, InPutResult
  <2> QED
    BY <2>1, <2>2 DEF OneWebWorker, AckedIsFinished
<1> QED
  BY <1>1, <1>2, <1>3, <1>4, InitPromiseInv, PTL DEF Spec
=============================================================================
