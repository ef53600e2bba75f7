------------------------------ MODULE MCRetire ------------------------------
(* RetireCommands for TLC. *)
EXTENDS RetireCommands, TLC

CONSTANT q1

(* Every command for one of the queues and, if it asks for a date, for time   *)
(* 1: submissions arrive before it, at it and after it.                      *)
AllJobs == [kind: {"failed", "forced", "old", "delete"}, queues: {{q1}}, before: {1}]
=============================================================================
