---------------------------- MODULE DeliveryProofs ----------------------------
(***************************************************************************)
(* Proofs about LmsDelivery, for any number of calls, attempts and outages: *)
(* the loop of post_grade_to_lms keeps the contract that PullInterface and *)
(* PushConsumer rely on.                                                   *)
(***************************************************************************)
EXTENDS LmsDelivery, TLAPS

(* A call whose flag success is set was answered by a server of the LMS that *)
(* had handled the grade; a call that gave up has used every attempt.        *)
DeliveryInv ==
  /\ DeliveryTypeOK
  /\ \A c \in Callers : success[c] => copies[c] > 0
  /\ \A c \in Callers : result[c] = "acked" => success[c]
  /\ \A c \in Callers : copies[c] <= attempts[c]
  /\ GivesUpAfterAllAttempts

LEMMA InitDelivery == Init => DeliveryInv
  BY AttemptsAssumption, PendingAssumption
     DEF Init, DeliveryInv, DeliveryTypeOK, GivesUpAfterAllAttempts

LEMMA PostDelivery ==
  ASSUME DeliveryInv, NEW c \in Callers, Post(c)
  PROVE  DeliveryInv'
<1>1. PICK handled \in BOOLEAN, status \in {"200", "500", "none"} :
        /\ status = "200" => handled
        /\ success' = [success EXCEPT ![c] = status = "200"]
        /\ copies' = [copies EXCEPT ![c] = IF handled THEN @ + 1 ELSE @]
  BY DEF Post, Answered
<1>2. /\ attempts' = [attempts EXCEPT ![c] = @ + 1]
      /\ result[c] = Pending /\ attempts[c] < MAX_ATTEMPTS
      /\ UNCHANGED <<result, up, outages>>
  BY DEF Post, Retries
<1>3. DeliveryTypeOK'
  BY <1>1, <1>2, AttemptsAssumption DEF DeliveryInv, DeliveryTypeOK
<1>4. (\A d \in Callers : success[d] => copies[d] > 0)'
  BY <1>1, <1>2 DEF DeliveryInv, DeliveryTypeOK
<1>5. (\A d \in Callers : result[d] = "acked" => success[d])'
  BY <1>1, <1>2, PendingAssumption DEF DeliveryInv, DeliveryTypeOK
<1>6. (\A d \in Callers : copies[d] <= attempts[d])'
  BY <1>1, <1>2 DEF DeliveryInv, DeliveryTypeOK
<1>7. GivesUpAfterAllAttempts'
  BY <1>2, PendingAssumption DEF DeliveryInv, DeliveryTypeOK, GivesUpAfterAllAttempts
<1> QED
  BY <1>3, <1>4, <1>5, <1>6, <1>7 DEF DeliveryInv

LEMMA RaiseDelivery ==
  ASSUME DeliveryInv, NEW c \in Callers, Raise(c)
  PROVE  DeliveryInv'
<1>1. PICK handled \in {0, 1} : copies' = [copies EXCEPT ![c] = @ + handled]
  BY DEF Raise
<1>2. /\ attempts' = [attempts EXCEPT ![c] = @ + 1] /\ attempts[c] < MAX_ATTEMPTS
      /\ result' = [result EXCEPT ![c] = "raised"]
      /\ UNCHANGED <<success, up, outages>>
  BY DEF Raise, Retries
<1>3. DeliveryTypeOK'
  BY <1>1, <1>2, AttemptsAssumption DEF DeliveryInv, DeliveryTypeOK
<1>4. (\A d \in Callers : success[d] => copies[d] > 0)'
  BY <1>1, <1>2 DEF DeliveryInv, DeliveryTypeOK
<1>5. (\A d \in Callers : result[d] = "acked" => success[d])'
  BY <1>2 DEF DeliveryInv, DeliveryTypeOK
<1>6. (\A d \in Callers : copies[d] <= attempts[d])'
  BY <1>1, <1>2 DEF DeliveryInv, DeliveryTypeOK
<1>7. GivesUpAfterAllAttempts'
  BY <1>2, Zenon DEF DeliveryInv, DeliveryTypeOK, GivesUpAfterAllAttempts
<1> QED
  BY <1>3, <1>4, <1>5, <1>6, <1>7 DEF DeliveryInv

LEMMA RaiseUnpostedDelivery ==
  ASSUME DeliveryInv, NEW c \in Callers, RaiseUnposted(c)
  PROVE  DeliveryInv'
<1>1. /\ result' = [result EXCEPT ![c] = "raised"]
      /\ UNCHANGED <<attempts, success, copies, up, outages>>
  BY DEF RaiseUnposted
<1>2. DeliveryTypeOK'
  BY <1>1 DEF DeliveryInv, DeliveryTypeOK
<1>3. (\A d \in Callers : result[d] = "acked" => success[d])'
  BY <1>1 DEF DeliveryInv, DeliveryTypeOK
<1>4. GivesUpAfterAllAttempts'
  BY <1>1, Zenon DEF DeliveryInv, DeliveryTypeOK, GivesUpAfterAllAttempts
<1> QED
  BY <1>1, <1>2, <1>3, <1>4 DEF DeliveryInv

LEMMA ReturnDelivery ==
  ASSUME DeliveryInv, NEW c \in Callers, Return(c)
  PROVE  DeliveryInv'
<1>1. /\ ~success[c] => attempts[c] = MAX_ATTEMPTS
      /\ result' = [result EXCEPT ![c] = IF success[c] THEN "acked" ELSE "failed"]
      /\ UNCHANGED <<attempts, success, copies, up, outages>>
  BY AttemptsAssumption DEF Return, Retries, DeliveryInv, DeliveryTypeOK
<1>2. DeliveryTypeOK'
  BY <1>1 DEF DeliveryInv, DeliveryTypeOK
<1>3. GivesUpAfterAllAttempts'
  BY <1>1 DEF DeliveryInv, DeliveryTypeOK, GivesUpAfterAllAttempts
<1>4. (\A d \in Callers : result[d] = "acked" => success[d])'
  BY <1>1 DEF DeliveryInv, DeliveryTypeOK
<1> QED
  BY <1>1, <1>2, <1>3, <1>4 DEF DeliveryInv

LEMMA NextDelivery == DeliveryInv /\ [Next]_vars => DeliveryInv'
<1> SUFFICES ASSUME DeliveryInv, [Next]_vars PROVE DeliveryInv'
  OBVIOUS
<1>1. ASSUME NEW c \in Callers, Step(c) PROVE DeliveryInv'
  BY <1>1, RaiseUnpostedDelivery, PostDelivery, RaiseDelivery, ReturnDelivery DEF Step
<1>2. CASE LmsGoesDown \/ LmsComesUp
  <2>1. UNCHANGED <<attempts, success, result, copies>>
    BY <1>2 DEF LmsGoesDown, LmsComesUp
  <2>2. outages' \in Nat
    BY <1>2 DEF LmsGoesDown, LmsComesUp, DeliveryInv, DeliveryTypeOK
  <2>3. up' \in BOOLEAN
    BY <1>2 DEF LmsGoesDown, LmsComesUp
  <2>4. DeliveryTypeOK'
    BY <2>1, <2>2, <2>3 DEF DeliveryInv, DeliveryTypeOK
  <2> QED
    BY <2>1, <2>4 DEF DeliveryInv, GivesUpAfterAllAttempts
<1>3. CASE UNCHANGED vars
  BY <1>3 DEF vars, DeliveryInv, DeliveryTypeOK, GivesUpAfterAllAttempts
<1> QED
  BY <1>1, <1>2, <1>3 DEF Next, AllReturned

(* The invariant of the loop. *)
THEOREM DeliveryInvariant == Spec => []DeliveryInv
  BY InitDelivery, NextDelivery, PTL DEF Spec

(* Type correctness: no call makes more than MAX_ATTEMPTS attempts. *)
THEOREM DeliveryTypes == Spec => []DeliveryTypeOK
<1>1. DeliveryInv => DeliveryTypeOK
  BY DEF DeliveryInv
<1> QED
  BY <1>1, DeliveryInvariant, PTL

(* post_grade_to_lms returns False only after its last attempt. *)
THEOREM GivesUpLast == Spec => []GivesUpAfterAllAttempts
<1>1. DeliveryInv => GivesUpAfterAllAttempts
  BY DEF DeliveryInv
<1> QED
  BY <1>1, DeliveryInvariant, PTL

(* The loop of attempts implements the call its callers see: one answer, and *)
(* TRUE only if the LMS has the grade.                                       *)
THEOREM LoopKeepsContract == Spec => KeepsContract
<1>1. Init => Contract!Init
  BY DEF Init, Contract!Init
<1>2. ASSUME DeliveryInv, [Next]_vars PROVE [Contract!Next]_(Contract!vars)
  <2> DEFINE received == {c \in Callers : copies[c] > 0}
  <2>1. ASSUME NEW c \in Callers, Post(c) PROVE [Contract!Next]_(Contract!vars)
    <3>1. /\ result' = result /\ result[c] = Pending
          /\ \E handled \in BOOLEAN : copies' = [copies EXCEPT ![c] = IF handled THEN @ + 1 ELSE @]
      BY <2>1 DEF Post
    <3>2. received' = received \/ received' = received \cup {c}
      BY <3>1, <1>2 DEF DeliveryInv, DeliveryTypeOK
    <3> QED
      BY <3>1, <3>2 DEF Contract!Next, Contract!Receive, Contract!vars
  <2>2. ASSUME NEW c \in Callers, Raise(c) PROVE [Contract!Next]_(Contract!vars)
    <3>1. /\ result[c] = Pending /\ result' = [result EXCEPT ![c] = "raised"]
          /\ \E handled \in {0, 1} : copies' = [copies EXCEPT ![c] = @ + handled]
      BY <2>2 DEF Raise
    <3>2. received' \in {received, received \cup {c}}
      BY <3>1, <1>2 DEF DeliveryInv, DeliveryTypeOK
    <3>3. Contract!Return(c)
      BY <3>1, <3>2 DEF Contract!Return, Contract!Results
    <3> QED
      BY <3>3 DEF Contract!Next
  <2>3. ASSUME NEW c \in Callers, Return(c) PROVE [Contract!Next]_(Contract!vars)
    <3>1. /\ result[c] = Pending
          /\ result' = [result EXCEPT ![c] = IF success[c] THEN "acked" ELSE "failed"]
          /\ received' = received
          /\ success[c] => c \in received
      BY <2>3, <1>2 DEF Return, DeliveryInv
    <3>2. Contract!Return(c)
      BY <3>1 DEF Contract!Return, Contract!Results
    <3> QED
      BY <3>2 DEF Contract!Next
  <2>4. CASE LmsGoesDown \/ LmsComesUp \/ UNCHANGED vars
    BY <2>4 DEF LmsGoesDown, LmsComesUp, vars, Contract!vars
  <2>5. ASSUME NEW c \in Callers, RaiseUnposted(c) PROVE [Contract!Next]_(Contract!vars)
    <3>1. /\ result[c] = Pending /\ result' = [result EXCEPT ![c] = "raised"]
          /\ received' = received
      BY <2>5 DEF RaiseUnposted
    <3>2. Contract!Return(c)
      BY <3>1 DEF Contract!Return, Contract!Results
    <3> QED
      BY <3>2 DEF Contract!Next
  <2> QED
    BY <2>1, <2>2, <2>3, <2>4, <2>5, <1>2 DEF Next, Step, AllReturned
<1> QED
  BY <1>1, <1>2, DeliveryInvariant, PTL DEF Spec, KeepsContract, Contract!Spec
=============================================================================
