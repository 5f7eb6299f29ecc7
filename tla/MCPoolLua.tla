----------------------------- MODULE MCPoolLua -----------------------------
(***************************************************************************)
(* PoolLua on two userdata: a chain of two, or one block in use beside an  *)
(* idle or a detached one.                                                 *)
(***************************************************************************)
EXTENDS PoolLua

CONSTANTS b1, b2

MCBlocks == {b1, b2}
MCSizes == {0, 2}
MCAlignments == {0, 4}
MCCapacities == {0, 1}
MCPositions == {0, 1, 2, 15}
=============================================================================
