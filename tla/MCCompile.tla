----------------------------- MODULE MCCompile -----------------------------
(***************************************************************************)
(* Compile with two elements that have content and one that is void.       *)
(***************************************************************************)
EXTENDS Compile, TLC

CONSTANTS div, p, br

MCTags == {div, p, br}
MCVoidTags == {br}
Symmetry == Permutations({div, p})
=============================================================================
