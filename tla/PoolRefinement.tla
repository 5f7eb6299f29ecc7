--------------------------- MODULE PoolRefinement ---------------------------
(***************************************************************************)
(* The pool of src/pool.c implements the promise of src/pool.h: a held or  *)
(* detached block has the class that its userdata records.                 *)
(***************************************************************************)
EXTENDS Pool

HeldClass   == [b \in Blocks |-> IF b \in held THEN mem[b] ELSE Nil]
HandleClass == [b \in Blocks |-> IF b \in handles THEN mem[b] ELSE Nil]

Promise == INSTANCE PoolPromise WITH
    open <- ref_L, limit <- capacity, held <- HeldClass, handles <- HandleClass

\* Every step of the pool is a step its header allows, or changes nothing the
\* caller can see (a refused call, caching, a collection).
KeepsPromise == Promise!Spec
=============================================================================
