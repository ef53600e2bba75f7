------------------------------ MODULE MCXQueue ------------------------------
(* XQueue for TLC. *)
EXTENDS XQueue, TLC

CONSTANTS q1, p1, a, colA

(* A queue with a push worker, and one pair of user and module. *)
PushWorker == p1 :> q1
OnePair == a :> colA

(* retire_failed_submissions for that queue, with and without --force. *)
SomeJobs == [kind: {"failed", "forced"}, queues: {{q1}}, before: {0}]

Symmetry == Permutations(Ids) \cup Permutations(Keys) \cup Permutations(WebWorkers)
=============================================================================
