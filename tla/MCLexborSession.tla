-------------------------- MODULE MCLexborSession --------------------------
(***************************************************************************)
(* Sessions nested up to three deep, each with its own pool.               *)
(***************************************************************************)
EXTENDS LexborSession, TLC

CONSTANTS p1, p2, p3

MCPools == {p1, p2, p3}
Symmetry == Permutations(MCPools)
=============================================================================
