------------------------------ MODULE MCCounts ------------------------------
(* QueueCounts for TLC. *)
EXTENDS QueueCounts, TLC

CONSTANT q1

(* One of the queues has a threshold of its own. *)
OneThreshold == q1 :> 100
=============================================================================
