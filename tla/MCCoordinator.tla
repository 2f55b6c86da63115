--------------------------- MODULE MCCoordinator ---------------------------
(* Instance of Coordinator for TLC: a pure item with one retry and a       *)
(* side-effecting one, worked on by two processes.                         *)
EXTENDS Coordinator, TLC
CONSTANTS k1, k2
MCItems == {k1, k2}
MCSideEffecting == {k2}
MCMaxRetries == (k1 :> 1) @@ (k2 :> 0)
Symmetry == Permutations(Workers)
=============================================================================
