--------------------------- MODULE MCPoolReentry ---------------------------
(***************************************************************************)
(* PoolReentry on three userdata and two size classes.                     *)
(***************************************************************************)
EXTENDS PoolReentry, TLC

CONSTANTS b1, b2, b3

MCBlocks == {b1, b2, b3}
Symmetry == Permutations(MCBlocks)
MCSizes == {1, 2}
MCAlignments == {0}
MCCapacities == {0, 3}
=============================================================================
