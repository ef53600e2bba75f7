-------------------------- MODULE IntegrationProofs --------------------------
(***************************************************************************)
(* Proofs about IntegrationFramework, for any submissions, timeout, sleeps *)
(* of any length, any number of faults and of responses waited for.        *)
(*                                                                         *)
(* FrameworkInv has three parts that have little to do with each other:    *)
(* the clock and the looks of block_until, the carrier and its flag, and   *)
(* the way a failure takes from the carrier to the listener's list.        *)
(***************************************************************************)
EXTENDS IntegrationFramework, FiniteSetTheorems, SequenceTheorems, TLAPS

-----------------------------------------------------------------------------
(* The inductive invariant *)

Record == [response : Response, looks : Nat]

FrameworkTypeOK ==
  /\ stub \in {"active", "passive"}
  /\ test \in {"sending", "looking", "asleep", "teardown", "over"}
  /\ clock \in Nat /\ looks \in Nat
  /\ queue \subseteq Submissions /\ unsent \subseteq Submissions
  /\ carrier \in {"check", "fetch", "grade", "push", "stopped", "dead"}
  /\ carrier \in {"grade", "push"} => held \in Submissions
  /\ carrier = "push" => body \in Bodies
  /\ is_polling \in BOOLEAN /\ listening \in BOOLEAN
  /\ late \in 0..2
  /\ handled \in [Response -> Nat]
  /\ request_list \in Seq(Record)
  /\ faults \in Nat

(* block_until adds up the whole time, its sleeps included. *)
TimeAddsUp ==
  /\ last_time = clock /\ total_time = clock
  /\ outcome = "False" => clock >= timeout

(* Responses that were there at a look were too few, or it was the last.     *)
LooksFailed ==
  /\ \A i \in DOMAIN request_list : request_list[i].looks <= looks
  /\ Cardinality(LoggedBefore(looks)) < Wanted

(* The carrier of an active stub that is about to fetch has seen its flag    *)
(* set; that of a passive one is gone when the flag is not.                  *)
LateOnlyOnce ==
  /\ is_polling => late = 0
  /\ stub = "active" => late <= 1 /\ (carrier = "fetch" => late = 0)
  /\ stub = "passive" => late = 0 /\ (~is_polling => carrier = "stopped")

(* A failure, wherever it is on its way, comes of a fault. *)
FailuresOfFaults ==
  /\ carrier = "push" /\ body = "failure" => faults > 0
  /\ \A r \in Response : handled[r] > 0 /\ r.body = "failure" => faults > 0
  /\ FailureOnlyOfFault

FrameworkInv ==
  /\ FrameworkTypeOK
  /\ TimeAddsUp
  /\ LooksFailed
  /\ LateOnlyOnce
  /\ FailuresOfFaults

-----------------------------------------------------------------------------
LEMMA InitFrameworkInv == Init => FrameworkInv
<1> SUFFICES ASSUME Init PROVE FrameworkInv
  OBVIOUS
<1> USE DEF Init, StubInit, ListenerInit
<1>1. FrameworkTypeOK
  <2>1. <<>> \in Seq(Record)
    BY EmptySeq
  <2> QED
    BY <2>1 DEF FrameworkTypeOK
<1>2. TimeAddsUp /\ LateOnlyOnce
  BY DEF TimeAddsUp, LateOnlyOnce
<1>3. LooksFailed
  <2>1. DOMAIN request_list = {}
    OBVIOUS
  <2>2. LoggedBefore(looks) = {}
    BY <2>1 DEF LoggedBefore
  <2>3. Cardinality(LoggedBefore(looks)) = 0
    BY <2>2, FS_EmptySet
  <2> QED
    BY <2>1, <2>3, WantedAssumption DEF LooksFailed
<1>4. FailuresOfFaults
  BY DEF FailuresOfFaults, FailureOnlyOfFault
<1> QED
  BY <1>1, <1>2, <1>3, <1>4 DEF FrameworkInv

(* What Log appends is a record of what a thread had read. *)
LEMMA LogAppends ==
  ASSUME FrameworkTypeOK, Log
  PROVE  \E r \in Response :
           /\ handled[r] > 0
           /\ handled' = [handled EXCEPT ![r] = @ - 1]
           /\ \/ request_list' = request_list
              \/ request_list' = Append(request_list, [response |-> r, looks |-> looks])
  BY DEF Log

LEMMA TypesStep ==
  ASSUME FrameworkTypeOK, [Next]_vars
  PROVE  FrameworkTypeOK'
<1> USE DEF FrameworkTypeOK, testVars, carrierVars, listenerVars
<1>1. CASE SendRequest \/ Blocks \/ Look \/ StopListener
  <2>1. CASE SendRequest
    BY <2>1 DEF SendRequest
  <2>2. CASE Blocks
    BY <2>2 DEF Blocks
  <2>3. CASE Look
    BY <2>3 DEF Look
  <2>4. CASE StopListener
    BY <2>4 DEF StopListener
  <2> QED
    BY <1>1, <2>1, <2>2, <2>3, <2>4
<1>2. CASE Wake
  <2>1. PICK d \in sleep_time..(sleep_time + Oversleep) : clock' = clock + d
    BY <1>2 DEF Wake
  <2>2. clock' \in Nat
    BY <2>1, TimesAssumption, FaultsAssumption
  <2> QED
    BY <1>2, <2>2 DEF Wake
<1>3. CASE StopGrader
  BY <1>3 DEF StopGrader, Halted
<1>4. CASE Check
  BY <1>4 DEF Check, Moves
<1>5. CASE Fetch
  <2>1. late' \in 0..2
    BY <1>5 DEF Fetch
  <2>2. faults' \in Nat
    BY <1>5 DEF Fetch, Fault
  <2> QED
    BY <1>5, <2>1, <2>2 DEF Fetch, Moves
<1>6. CASE Grade
  <2>1. faults' \in Nat
    BY <1>6 DEF Grade, GradeActive, GradePassive, Gives, Drops, Fault
  <2> QED
    BY <1>6, <2>1 DEF Grade, GradeActive, GradePassive, Gives, Drops, Moves, Bodies
<1>7. CASE Post
  <2>1. [of |-> held, body |-> body] \in Response
    BY <1>7 DEF Post, Response
  <2>2. handled' \in [Response -> Nat]
    BY <1>7, <2>1 DEF Post
  <2> QED
    BY <1>7, <2>2 DEF Post, Moves
<1>8. CASE Log
  <2>1. PICK r \in Response :
          /\ handled[r] > 0
          /\ handled' = [handled EXCEPT ![r] = @ - 1]
          /\ \/ request_list' = request_list
             \/ request_list' = Append(request_list, [response |-> r, looks |-> looks])
    BY <1>8, LogAppends
  <2>2. handled' \in [Response -> Nat]
    BY <2>1
  <2>3. [response |-> r, looks |-> looks] \in Record
    BY DEF Record
  <2>4. Append(request_list, [response |-> r, looks |-> looks]) \in Seq(Record)
    BY <2>3, AppendProperties
  <2>5. request_list' \in Seq(Record)
    BY <2>1, <2>4
  <2> QED
    BY <1>8, <2>2, <2>5 DEF Log
<1>9. CASE UNCHANGED vars
  BY <1>9 DEF vars
<1> QED
  BY <1>1, <1>2, <1>3, <1>4, <1>5, <1>6, <1>7, <1>8, <1>9 DEF Next, TestCase, Carrier, Ended

-----------------------------------------------------------------------------
(* The clock and the looks *)

LEMMA TimeStep ==
  ASSUME FrameworkTypeOK, TimeAddsUp, [Next]_vars
  PROVE  TimeAddsUp'
<1>1. CASE Look
  BY <1>1 DEF Look, TimeAddsUp
<1>2. CASE Wake
  <2>1. PICK d \in sleep_time..(sleep_time + Oversleep) : clock' = clock + d
    BY <1>2 DEF Wake
  <2>2. clock \in Nat /\ d \in Nat
    BY TimesAssumption, FaultsAssumption DEF FrameworkTypeOK
  <2>3. last_time' = clock' /\ total_time' = clock' /\ outcome' = outcome
    BY <1>2, <2>1, <2>2 DEF Wake, Elapsed, TimeAddsUp
  <2> QED
    BY <2>1, <2>2, <2>3, TimesAssumption DEF TimeAddsUp
<1>3. CASE ~(Look \/ Wake)
  <2>1. UNCHANGED <<clock, last_time, total_time, outcome>>
    BY <1>3 DEF Next, TestCase, Carrier, Ended, SendRequest, Blocks, StopGrader, StopListener,
                Check, Fetch, Grade, Post, Log, vars, testVars
  <2> QED
    BY <2>1 DEF TimeAddsUp
<1> QED
  BY <1>1, <1>2, <1>3

(* What is logged counts as seen at the next look only. *)
LEMMA LooksStep ==
  ASSUME FrameworkTypeOK, LooksFailed, [Next]_vars
  PROVE  LooksFailed'
<1>1. request_list \in Seq(Record) /\ looks \in Nat
  BY DEF FrameworkTypeOK
<1>2. Len(request_list) \in Nat /\ DOMAIN request_list = 1..Len(request_list)
  BY <1>1
<1>3. CASE Look
  <2>1. request_list' = request_list
    BY <1>3 DEF Look, listenerVars
  <2>2. CASE looks' = looks
    BY <2>1, <2>2 DEF LooksFailed, LoggedBefore
  <2>3. CASE looks' # looks
    <3>1. looks' = looks + 1 /\ Len(request_list) < Wanted
      BY <1>3, <2>3 DEF Look
    <3>2. \A i \in DOMAIN request_list : request_list[i].looks \in Nat
      <4>1. \A i \in DOMAIN request_list : request_list[i] \in Record
        BY <1>1, <1>2, ElementOfSeq
      <4> QED
        BY <4>1 DEF Record
    <3>3. \A i \in DOMAIN request_list : request_list[i].looks <= looks'
      BY <1>1, <3>1, <3>2 DEF LooksFailed
    <3>4. LoggedBefore(looks)' \subseteq 1..Len(request_list)
      BY <1>2, <2>1 DEF LoggedBefore
    <3>5. /\ IsFiniteSet(1..Len(request_list))
          /\ Cardinality(1..Len(request_list)) = Len(request_list)
      <4>1. /\ IsFiniteSet(1..Len(request_list))
            /\ Cardinality(1..Len(request_list)) =
                 IF 1 > Len(request_list) THEN 0 ELSE Len(request_list) - 1 + 1
        BY <1>2, FS_Interval
      <4> QED
        BY <4>1, <1>2
    <3>6. /\ Cardinality(LoggedBefore(looks)') <= Len(request_list)
          /\ IsFiniteSet(LoggedBefore(looks)')
      BY <3>4, <3>5, FS_Subset
    <3>7. Cardinality(LoggedBefore(looks)') \in Nat
      BY <3>6, FS_CardinalityType
    <3>8. Cardinality(LoggedBefore(looks)') < Wanted
      BY <1>2, <3>1, <3>6, <3>7, WantedAssumption
    <3> QED
      BY <2>1, <3>3, <3>8 DEF LooksFailed
  <2> QED
    BY <2>2, <2>3
<1>4. CASE Log
  <2>1. PICK r \in Response :
          \/ request_list' = request_list
          \/ request_list' = Append(request_list, [response |-> r, looks |-> looks])
    BY <1>4, LogAppends
  <2>2. looks' = looks
    BY <1>4 DEF Log, testVars
  <2>3. CASE request_list' = request_list
    BY <2>2, <2>3 DEF LooksFailed, LoggedBefore
  <2>4. CASE request_list' = Append(request_list, [response |-> r, looks |-> looks])
    <3>1. [response |-> r, looks |-> looks] \in Record
      BY <1>1 DEF Record
    <3>2. /\ request_list' \in Seq(Record) /\ Len(request_list') = Len(request_list) + 1
          /\ \A i \in 1..Len(request_list) : request_list'[i] = request_list[i]
          /\ request_list'[Len(request_list) + 1].looks = looks
      BY <1>1, <2>4, <3>1, AppendProperties
    <3>3. /\ DOMAIN request_list' = 1..(Len(request_list) + 1)
          /\ \A i \in DOMAIN request_list' : i \in DOMAIN request_list \/ i = Len(request_list) + 1
      BY <1>2, <3>2
    <3>4. \A i \in DOMAIN request_list' : request_list'[i].looks <= looks'
      BY <1>1, <1>2, <2>2, <3>2, <3>3 DEF LooksFailed
    <3>5. LoggedBefore(looks)' = LoggedBefore(looks)
      BY <1>1, <1>2, <2>2, <3>2, <3>3 DEF LoggedBefore
    <3> QED
      BY <3>4, <3>5 DEF LooksFailed
  <2> QED
    BY <2>1, <2>3, <2>4
<1>5. CASE ~(Look \/ Log)
  <2>1. UNCHANGED <<request_list, looks>>
    BY <1>5 DEF Next, TestCase, Carrier, Ended, SendRequest, Blocks, Wake, StopGrader, StopListener,
                Check, Fetch, Grade, Post, vars, testVars, listenerVars
  <2> QED
    BY <2>1 DEF LooksFailed, LoggedBefore
<1> QED
  BY <1>3, <1>4, <1>5

-----------------------------------------------------------------------------
(* The carrier and its flag *)

LEMMA LateStep ==
  ASSUME FrameworkTypeOK, LateOnlyOnce, [Next]_vars
  PROVE  LateOnlyOnce'
<1> USE DEF LateOnlyOnce, carrierVars
<1>1. CASE StopGrader
  BY <1>1 DEF StopGrader, Halted
<1>2. CASE Check
  BY <1>2 DEF Check, Moves, KeepsPolling, FrameworkTypeOK
<1>3. CASE Fetch
  <2>1. stub' = stub /\ is_polling' = is_polling /\ carrier = "fetch" /\ carrier' # "fetch"
    BY <1>3 DEF Fetch, Moves
  <2>2. late' = IF is_polling \/ late = 2 THEN late ELSE late + 1
    BY <1>3 DEF Fetch
  <2> QED
    BY <2>1, <2>2 DEF FrameworkTypeOK
<1>4. CASE Grade
  <2>1. carrier = "grade" /\ carrier' # "fetch" /\ UNCHANGED <<stub, late, is_polling>>
    BY <1>4 DEF Grade, GradeActive, GradePassive, Gives, Drops, Moves
  <2> QED
    BY <2>1 DEF FrameworkTypeOK
<1>5. CASE Post
  <2>1. carrier = "push" /\ carrier' # "fetch" /\ UNCHANGED <<stub, late, is_polling>>
    BY <1>5 DEF Post, Moves
  <2> QED
    BY <2>1 DEF FrameworkTypeOK
<1>6. CASE ~(StopGrader \/ Carrier)
  <2>1. UNCHANGED <<stub, is_polling, carrier, late>>
    BY <1>6 DEF Next, TestCase, Carrier, Ended, SendRequest, Blocks, Look, Wake, StopListener, Log, vars
  <2> QED
    BY <2>1
<1> QED
  BY <1>1, <1>2, <1>3, <1>4, <1>5, <1>6 DEF Carrier

-----------------------------------------------------------------------------
(* The way of a failure *)

(* GradingRequestHandler sends its headers last. *)
LEMMA GradingReplyIsReadable == Readable(GradingReply)
<1>1. 1 \in DOMAIN GradingReply /\ 3 \in DOMAIN GradingReply
  BY DEF GradingReply
<1>2. GradingReply[1] = "send_response" /\ GradingReply[3] = "end_headers"
  BY DEF GradingReply
<1> QED
  BY <1>1, <1>2 DEF Readable

LEMMA FailureStep ==
  ASSUME FrameworkTypeOK, FailuresOfFaults, [Next]_vars
  PROVE  FailuresOfFaults'
<1> DEFINE HandledOfFaults ==
             \A r \in Response : handled[r] > 0 /\ r.body = "failure" => faults > 0
<1>1. faults \in Nat /\ handled \in [Response -> Nat] /\ request_list \in Seq(Record)
  BY DEF FrameworkTypeOK
<1>2. HandledOfFaults /\ FailureOnlyOfFault
  BY DEF FailuresOfFaults
<1>3. CASE Fetch
  <2>1. carrier' # "push" /\ UNCHANGED listenerVars /\ (faults' = faults \/ faults' = faults + 1)
    BY <1>3 DEF Fetch, Moves, Fault
  <2> QED
    BY <1>1, <1>2, <2>1 DEF FailuresOfFaults, FailureOnlyOfFault, listenerVars
<1>4. CASE Grade
  <2>1. /\ UNCHANGED listenerVars
        /\ faults' = faults \/ faults' = faults + 1
        /\ carrier' = "push" /\ body' = "failure" => faults' = faults + 1
    BY <1>4, GradingReplyIsReadable DEF Grade, GradeActive, GradePassive, Gives, Drops, Moves, Fault
  <2> QED
    BY <1>1, <1>2, <2>1 DEF FailuresOfFaults, FailureOnlyOfFault, listenerVars
<1>5. CASE Post
  <2> DEFINE p == [of |-> held, body |-> body]
  <2>1. p \in Response /\ carrier = "push"
    BY <1>5 DEF Post, FrameworkTypeOK, Response
  <2>2. handled' = handled \/ handled' = [handled EXCEPT ![p] = @ + 1]
    BY <1>5 DEF Post
  <2>3. p.body = "failure" => faults > 0
    BY <2>1 DEF FailuresOfFaults
  <2>4. faults' = faults /\ request_list' = request_list
    BY <1>5 DEF Post
  <2>5. carrier' = "push" => body' = body
    BY <1>5 DEF Post, Moves
  <2> HIDE DEF p
  <2>6. HandledOfFaults'
    BY <1>1, <1>2, <2>1, <2>2, <2>3, <2>4
  <2> QED
    BY <1>2, <2>1, <2>4, <2>5, <2>6 DEF FailuresOfFaults, FailureOnlyOfFault
<1>6. CASE Log
  <2>1. PICK r \in Response :
          /\ handled[r] > 0
          /\ handled' = [handled EXCEPT ![r] = @ - 1]
          /\ \/ request_list' = request_list
             \/ request_list' = Append(request_list, [response |-> r, looks |-> looks])
    BY <1>6, LogAppends
  <2>2. UNCHANGED <<carrier, body, faults>>
    BY <1>6 DEF Log, carrierVars
  <2>3. HandledOfFaults'
    BY <1>1, <1>2, <2>1, <2>2
  <2>4. CASE request_list' = request_list
    BY <1>2, <2>2, <2>3, <2>4 DEF FailuresOfFaults, FailureOnlyOfFault
  <2>5. CASE request_list' = Append(request_list, [response |-> r, looks |-> looks])
    <3>1. Len(request_list) \in Nat /\ DOMAIN request_list = 1..Len(request_list)
      BY <1>1
    <3>2. [response |-> r, looks |-> looks] \in Record
      BY DEF Record, FrameworkTypeOK
    <3>3. /\ request_list' \in Seq(Record) /\ Len(request_list') = Len(request_list) + 1
          /\ \A i \in 1..Len(request_list) : request_list'[i] = request_list[i]
          /\ request_list'[Len(request_list) + 1].response = r
      BY <1>1, <2>5, <3>2, AppendProperties
    <3>4. \A i \in DOMAIN request_list' : i \in DOMAIN request_list \/ i = Len(request_list) + 1
      BY <3>1, <3>3
    <3>5. FailureOnlyOfFault'
      BY <1>2, <2>1, <2>2, <3>1, <3>3, <3>4 DEF FailureOnlyOfFault
    <3> QED
      BY <2>2, <2>3, <3>5 DEF FailuresOfFaults
  <2> QED
    BY <2>1, <2>4, <2>5
<1>7. CASE Check \/ StopGrader
  <2>1. carrier' = "push" => carrier = "push"
    BY <1>7 DEF Check, Moves, StopGrader, Halted
  <2>2. UNCHANGED <<body, handled, request_list, faults>>
    BY <1>7 DEF Check, StopGrader, listenerVars
  <2> QED
    BY <2>1, <2>2 DEF FailuresOfFaults, FailureOnlyOfFault
<1>8. CASE ~(StopGrader \/ Carrier \/ Log)
  <2>1. UNCHANGED <<carrier, body, handled, request_list, faults>>
    BY <1>8 DEF Next, TestCase, Ended, SendRequest, Blocks, Look, Wake, StopListener,
                vars, carrierVars, listenerVars
  <2> QED
    BY <2>1 DEF FailuresOfFaults, FailureOnlyOfFault
<1> QED
  BY <1>3, <1>4, <1>5, <1>6, <1>7, <1>8 DEF Carrier

-----------------------------------------------------------------------------
(* The inductive invariant of the test case, the carrier and the listener. *)
THEOREM FrameworkInvariant == Spec => []FrameworkInv
<1>1. FrameworkInv /\ [Next]_vars => FrameworkInv'
  BY TypesStep, TimeStep, LooksStep, LateStep, FailureStep DEF FrameworkInv
<1> QED
  BY <1>1, InitFrameworkInv, PTL DEF Spec

(* block_until returns False only when its time is over and too few          *)
(* responses had been logged before its last look, for sleeps of any length. *)
THEOREM TimeoutsAreReal == Spec => []TimeoutIsReal
<1>1. FrameworkInv => TimeoutIsReal
  BY DEF FrameworkInv, TimeAddsUp, LooksFailed, TimeoutIsReal
<1> QED
  BY <1>1, FrameworkInvariant, PTL

(* A stopped stub takes one more submission at most, a terminated worker     *)
(* none.                                                                     *)
THEOREM StopsAfterOneMore == Spec => []OneMoreAfterStop
<1>1. FrameworkInv => OneMoreAfterStop
  BY DEF FrameworkInv, FrameworkTypeOK, LateOnlyOnce, OneMoreAfterStop
<1> QED
  BY <1>1, FrameworkInvariant, PTL

(* The listener is told of a failure only if something failed. *)
THEOREM FailuresOnlyOfFaults == Spec => []FailureOnlyOfFault
<1>1. FrameworkInv => FailureOnlyOfFault
  BY DEF FrameworkInv, FailuresOfFaults
<1> QED
  BY <1>1, FrameworkInvariant, PTL
-----------------------------------------------------------------------------
(* The end of block_until *)

(* Each look that failed has slept, or is about to. *)
LooksTakeTime ==
  /\ looks * sleep_time <= total_time + IF test = "asleep" THEN sleep_time ELSE 0
  /\ looks * sleep_time < timeout + sleep_time

LEMMA LooksTakeTimeStep ==
  ASSUME FrameworkInv, LooksTakeTime, [Next]_vars
  PROVE  LooksTakeTime'
<1>1. /\ looks \in Nat /\ total_time \in Nat /\ total_time = clock /\ last_time = clock
      /\ test \in {"sending", "looking", "asleep", "teardown", "over"}
  BY DEF FrameworkInv, FrameworkTypeOK, TimeAddsUp
<1>2. /\ sleep_time \in Nat \ {0} /\ timeout \in Nat
      /\ looks * sleep_time \in Nat
  BY <1>1, TimesAssumption
<1>3. CASE Look
  <2>1. CASE looks' = looks
    BY <1>1, <1>2, <1>3, <2>1 DEF Look, LooksTakeTime
  <2>2. CASE looks' # looks
    <3>1. /\ looks' = looks + 1 /\ test' = "asleep" /\ total_time' = total_time
          /\ total_time < timeout /\ test = "looking"
      BY <1>3, <2>2 DEF Look
    <3>2. (looks + 1) * sleep_time = looks * sleep_time + sleep_time
      BY <1>1, <1>2
    <3> QED
      BY <1>1, <1>2, <3>1, <3>2 DEF LooksTakeTime
  <2> QED
    BY <2>1, <2>2
<1>4. CASE Wake
  <2>1. PICK d \in sleep_time..(sleep_time + Oversleep) : clock' = clock + d
    BY <1>4 DEF Wake
  <2>2. d \in Nat /\ sleep_time <= d
    BY <1>2, FaultsAssumption
  <2>3. /\ test = "asleep" /\ test' = "looking" /\ looks' = looks
        /\ total_time' = total_time + d
    BY <1>1, <1>4, <2>1, <2>2 DEF Wake, Elapsed
  <2> QED
    BY <1>1, <1>2, <2>2, <2>3 DEF LooksTakeTime
<1>5. CASE ~(Look \/ Wake)
  <2>1. /\ UNCHANGED <<total_time, looks>>
        /\ test = "asleep" => test' = "asleep"
    BY <1>5 DEF Next, TestCase, Carrier, Ended, SendRequest, Blocks, StopGrader, StopListener,
                Check, Fetch, Grade, Post, Log, vars, testVars
  <2> QED
    BY <1>1, <1>2, <2>1 DEF LooksTakeTime
<1> QED
  BY <1>3, <1>4, <1>5

(* block_until ends after timeout / sleep_time + 1 looks at the latest,      *)
(* however long the sleeps really are and whatever the graders do.           *)
THEOREM LooksBounded == Spec => [](looks * sleep_time < timeout + sleep_time)
<1>1. Init => LooksTakeTime
  <2> SUFFICES ASSUME Init PROVE LooksTakeTime
    OBVIOUS
  <2>1. looks = 0 /\ total_time = 0 /\ test = "sending"
    BY DEF Init
  <2>2. looks * sleep_time = 0
    BY <2>1, TimesAssumption
  <2> QED
    BY <2>1, <2>2, TimesAssumption DEF LooksTakeTime
<1>2. FrameworkInv /\ LooksTakeTime /\ [Next]_vars => LooksTakeTime'
  BY LooksTakeTimeStep
<1>3. LooksTakeTime => looks * sleep_time < timeout + sleep_time
  BY DEF LooksTakeTime
<1> QED
  BY <1>1, <1>2, <1>3, FrameworkInvariant, PTL DEF Spec
=============================================================================
