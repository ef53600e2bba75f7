----------------------------- MODULE LeaseQueue -----------------------------
(***************************************************************************)
(* What the pull interface promises to graders and to the LMS: a queue     *)
(* with leases.  A submission is leased to one grader at a time, for       *)
(* Delay; it is finished for good by a result the LMS takes or by more     *)
(* than MaxFailures results it does not take.                              *)
(***************************************************************************)
EXTENDS Naturals

CONSTANTS Ids, Delay, MaxFailures, Never

VARIABLES
  now,
  leasedAt,   \* time of the last lease of each submission, or Never
  failures,   \* results of each submission the LMS did not take
  finished    \* submissions that are done with

vars == <<now, leasedAt, failures, finished>>

Init ==
  /\ now \in Nat
  /\ leasedAt = [s \in Ids |-> Never]
  /\ failures = [s \in Ids |-> 0]
  /\ finished = {}

(* A grader takes the lease at time t; the last one has run out by then. *)
Lease(s, t) ==
  /\ s \notin finished
  /\ leasedAt[s] = Never \/ leasedAt[s] + Delay <= t
  /\ leasedAt' = [leasedAt EXCEPT ![s] = t]
  /\ UNCHANGED <<now, failures, finished>>

Deliver(s) ==
  /\ s \notin finished /\ leasedAt[s] # Never
  /\ finished' = finished \cup {s}
  /\ UNCHANGED <<now, leasedAt, failures>>

Fail(s) ==
  /\ s \notin finished /\ leasedAt[s] # Never
  /\ failures' = [failures EXCEPT ![s] = @ + 1]
  /\ finished' = IF failures[s] = MaxFailures THEN finished \cup {s} ELSE finished
  /\ UNCHANGED <<now, leasedAt>>

Tick == now' = now + 1 /\ UNCHANGED <<leasedAt, failures, finished>>

Next ==
  \/ \E s \in Ids : (\E t \in 0..now : Lease(s, t)) \/ Deliver(s) \/ Fail(s)
  \/ Tick

Spec == Init /\ [][Next]_vars
=============================================================================
