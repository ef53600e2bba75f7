------------------------------ MODULE MCSubmit ------------------------------
(* LmsInterface for TLC. *)
EXTENDS LmsInterface, TLC

CONSTANTS a, b, colA, colB

(* URLs of 128 characters or less: the column tells them apart. *)
Short == a :> colA @@ b :> colB

(* Two long URLs with the same first 128 characters. *)
Long == a :> colA @@ b :> colA

Symmetry == Permutations(Ids) \cup Permutations(WebWorkers)
=============================================================================
