-------------------------- MODULE MCBlockPlacement --------------------------
(***************************************************************************)
(* BlockPlacement with a 6-bit size_t: alignments up to 63, sizes on       *)
(* both sides of PTRDIFF_MAX and counts whose products wrap.               *)
(***************************************************************************)
EXTENDS BlockPlacement, BlockMasks

MCSizes == {0, 1, 8, 31, 32}
MCAddresses == {1, 14, 35, 44}
MCAlignments == 0..6 \cup {8, 12, 16, 32, 63}
=============================================================================
