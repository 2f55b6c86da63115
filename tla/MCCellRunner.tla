---------------------------- MODULE MCCellRunner ----------------------------
(* Instances of CellRunner for TLC: a block of two cells, or two blocks of *)
(* one.                                                                    *)
EXTENDS CellRunner, TLC
CONSTANTS k1, k2, b1, b2
MCRefs == Items \X {"output", "failure", "tombstone"}
MCMaxRetries == [k \in Items |-> 3]   \* ensure_work_item's default
OneBlockPlan == <<k1, k2>>
OneBlock == <<b1>>
OneBlockCells == [b \in {b1} |-> {k1, k2}]
TwoBlockPlan == <<k1, k2>>
TwoBlocks == <<b1, b2>>
TwoBlockCells == (b1 :> {k1}) @@ (b2 :> {k2})
Symmetry == Permutations(Runners)
=============================================================================
