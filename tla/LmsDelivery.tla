----------------------------- MODULE LmsDelivery -----------------------------
(***************************************************************************)
(* post_grade_to_lms and _http_post of submission_queue/consumer.py: the   *)
(* grade is posted to the callback of the LMS, up to five times.           *)
(*                                                                         *)
(* The servers of the LMS sit behind a load balancer that takes them out   *)
(* of service at any time (the comment in post_grade_to_lms), so that a    *)
(* POST may be cut off before or after the LMS has handled it.             *)
(***************************************************************************)
EXTENDS Naturals, FiniteSets

CONSTANTS
  Callers,        \* calls of post_grade_to_lms, of any view or worker
  Pending,        \* the result of a call that has not returned
  MAX_ATTEMPTS,   \* five, in the code
  MaxOutages      \* bound: times the load balancer cuts the LMS off

ASSUME AttemptsAssumption == MAX_ATTEMPTS \in Nat \ {0}
ASSUME PendingAssumption == Pending \notin {"acked", "failed", "raised"}

VARIABLES
  attempts,   \* POSTs of each call so far
  success,    \* the flag of the loop
  result,     \* "acked" (returned True), "failed" (False), "raised", or Pending
  copies,     \* how often the LMS handled the grade of each call
  up,         \* whether a server of the LMS is in service
  outages     \* times it was not

vars == <<attempts, success, result, copies, up, outages>>

DeliveryTypeOK ==
  /\ attempts \in [Callers -> 0..MAX_ATTEMPTS]
  /\ success \in [Callers -> BOOLEAN]
  /\ result \in [Callers -> {"acked", "failed", "raised", Pending}]
  /\ copies \in [Callers -> 0..MAX_ATTEMPTS]
  /\ up \in BOOLEAN
  /\ outages \in Nat

Init ==
  /\ attempts = [c \in Callers |-> 0]
  /\ success = [c \in Callers |-> FALSE]
  /\ result = [c \in Callers |-> Pending]
  /\ copies = [c \in Callers |-> 0]
  /\ up = TRUE
  /\ outages = 0

-----------------------------------------------------------------------------
(* Mutants of the loop. *)
TriesOnceMore(c) == ~success[c] /\ attempts[c] <= MAX_ATTEMPTS
TriesOnce(c) == ~success[c] /\ attempts[c] < 1

(* while (not success) and attempts < 5 *)
Retries(c) == ~success[c] /\ attempts[c] < MAX_ATTEMPTS

(* A mutant of Answered: the status code is not looked at. *)
AnyStatusIsSuccess(c, handled, status) == status # "none"

(* _http_post: only a reply with status 200 is a success; an error status,   *)
(* and a ConnectionError or Timeout ("none"), are not.                       *)
Answered(c, handled, status) == status = "200"

(* The header cannot be read or names no callback: nothing is posted. *)
RaiseUnposted(c) ==
  /\ result[c] = Pending
  /\ attempts[c] = 0
  /\ result' = [result EXCEPT ![c] = "raised"]
  /\ UNCHANGED <<attempts, success, copies, up, outages>>

(* One POST: the LMS handles it or not, and answers or is not heard.  A 200  *)
(* comes from a server that has handled it.                                  *)
Post(c) ==
  /\ result[c] = Pending
  /\ Retries(c)
  /\ \E handled \in BOOLEAN, status \in {"200", "500", "none"} :
       /\ ~up => status = "none" /\ ~handled
       /\ status = "200" => handled
       /\ success' = [success EXCEPT ![c] = Answered(c, handled, status)]
       /\ copies' = [copies EXCEPT ![c] = IF handled THEN @ + 1 ELSE @]
  /\ attempts' = [attempts EXCEPT ![c] = @ + 1]
  /\ UNCHANGED <<result, up, outages>>

(* An exception _http_post does not catch, such as a reply that is cut off   *)
(* or redirected for ever, after the LMS handled the POST or not.            *)
Raise(c) ==
  /\ result[c] = Pending
  /\ Retries(c)
  /\ \E handled \in {0, 1} :
       /\ ~up => handled = 0
       /\ copies' = [copies EXCEPT ![c] = @ + handled]
  /\ attempts' = [attempts EXCEPT ![c] = @ + 1]
  /\ result' = [result EXCEPT ![c] = "raised"]
  /\ UNCHANGED <<success, up, outages>>

(* A mutant of Return: a call whose attempts are used up does not return. *)
ReturnsOnSuccess(c) ==
  /\ result[c] = Pending
  /\ success[c]
  /\ result' = [result EXCEPT ![c] = "acked"]
  /\ UNCHANGED <<attempts, success, copies, up, outages>>

Return(c) ==
  /\ result[c] = Pending
  /\ ~Retries(c)
  /\ result' = [result EXCEPT ![c] = IF success[c] THEN "acked" ELSE "failed"]
  /\ UNCHANGED <<attempts, success, copies, up, outages>>

(* The environment takes the servers of the LMS out of service and back. *)
LmsGoesDown ==
  /\ up /\ outages < MaxOutages
  /\ up' = FALSE /\ outages' = outages + 1
  /\ UNCHANGED <<attempts, success, result, copies>>

LmsComesUp ==
  /\ ~up
  /\ up' = TRUE
  /\ UNCHANGED <<attempts, success, result, copies, outages>>

(* Every call has returned. *)
AllReturned ==
  /\ \A c \in Callers : result[c] # Pending
  /\ UNCHANGED vars

Step(c) == RaiseUnposted(c) \/ Post(c) \/ Raise(c) \/ Return(c)

Next == (\E c \in Callers : Step(c)) \/ LmsGoesDown \/ LmsComesUp \/ AllReturned

Spec == Init /\ [][Next]_vars

(* Each _http_post returns within REQUESTS_TIMEOUT, so the loop goes on. *)
FairSpec == Spec /\ \A c \in Callers : WF_vars(Step(c))

-----------------------------------------------------------------------------
(* A call gives up only after the five attempts the comment speaks of.  An   *)
(* outage that ends before the fifth attempt does not make it fail.          *)
GivesUpAfterAllAttempts ==
  \A c \in Callers : result[c] = "failed" => attempts[c] = MAX_ATTEMPTS

(* The loop keeps the contract its callers rely on. *)
Contract == INSTANCE DeliveryContract WITH
  received <- {c \in Callers : copies[c] > 0}

KeepsContract == Contract!Spec

(* Every call returns, whatever the LMS does. *)
AlwaysReturns == Contract!Returns
=============================================================================
