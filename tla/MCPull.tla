------------------------------- MODULE MCPull -------------------------------
(* PullInterface for TLC. *)
EXTENDS PullInterface, TLC

(* The pull keys are only ever compared, and so are the web workers. *)
Symmetry == Permutations(Keys) \cup Permutations(WebWorkers)
=============================================================================
