------------------------------- MODULE MCPool -------------------------------
(***************************************************************************)
(* Pool on three userdata: enough for a chain of two with a third block in *)
(* use, and for a resize while a chain of the new class exists.            *)
(***************************************************************************)
EXTENDS PoolRefinement, TLC

CONSTANTS b1, b2, b3

MCBlocks == {b1, b2, b3}
Symmetry == Permutations(MCBlocks)
MCSizes == {0, 1, 2, 9}
MCAlignments == {0, 3, 4}
MCCapacities == {0, 3}
=============================================================================
