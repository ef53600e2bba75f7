-------------------------- MODULE DeliveryContract --------------------------
(***************************************************************************)
(* What a caller of post_grade_to_lms may rely on: the call returns TRUE,  *)
(* returns FALSE or raises, once, and TRUE means that the LMS has the      *)
(* grade.  FALSE and an exception say nothing about what the LMS has.      *)
(* PullInterface and PushConsumer use this contract as one step.           *)
(***************************************************************************)
CONSTANTS Callers, Pending

VARIABLES
  result,     \* what the call of each caller came to, or Pending
  received    \* callers whose grade the LMS has

vars == <<result, received>>

Results == {"acked", "failed", "raised"}

Init == result = [c \in Callers |-> Pending] /\ received = {}

(* The LMS gets the grade while the call is under way. *)
Receive(c) ==
  /\ result[c] = Pending
  /\ received' = received \cup {c}
  /\ UNCHANGED result

Return(c) ==
  /\ result[c] = Pending
  /\ \E r \in Results :
       /\ result' = [result EXCEPT ![c] = r]
       /\ r = "acked" => c \in received'
  /\ received' \in {received, received \cup {c}}

Next == \E c \in Callers : Receive(c) \/ Return(c)

Spec == Init /\ [][Next]_vars

Returns == \A c \in Callers : <>(result[c] # Pending)
=============================================================================
