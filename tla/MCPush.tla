------------------------------- MODULE MCPush -------------------------------
(* PushConsumer for TLC. *)
EXTENDS PushConsumer, TLC

CONSTANTS q1, q2, p1, p2

(* One worker for each queue, as run_consumer starts them. *)
OnePerQueue == p1 :> q1 @@ p2 :> q2
=============================================================================
