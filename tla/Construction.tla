---------------------------- MODULE Construction ----------------------------
(***************************************************************************)
(* How the constructors of src/ir.c and src/value.c fail.  A constructor   *)
(* asks the pool for one block after the other, copies of strings first,   *)
(* and when the pool refuses one it releases the earlier ones, returns     *)
(* NULL or -1 and has changed no node and no list.                         *)
(*                                                                         *)
(* A constructor c is a sequence: c[n] are the earlier blocks, by their    *)
(* place, that its code releases when the n-th is refused.                 *)
(***************************************************************************)
EXTENDS Integers, Sequences, FiniteSets

CONSTANTS
    NilKeyAllocates,    \* pool_alloc may fail with a block registered as used
                        \* (Pool!AcquireFails): Lua 5.1 to 5.4.2 and LuaJIT
    CallsRaise          \* a pool call may leave by an error, and pool_free may
                        \* run out of memory: finalizers before Lua 5.4,
                        \* lua_pushcfunction in Lua 5.1 and LuaJIT

ASSUME ConstructionAssumption ==
    NilKeyAllocates \in BOOLEAN /\ CallsRaise \in BOOLEAN

\* The pool refuses the n-th block of c.  left are the earlier blocks that the
\* code does not release; stuck those that the pool keeps although it does: one
\* that the refused call has registered itself, and those whose pool_free fails
\* or is not reached since an error of Lua's leaves the constructor.  Elsewhere
\* pool_free has all it needs: the call before it has used as much of Lua's stack.
Refusals(c, n) ==
    {[left   |-> Cardinality((1..(n - 1)) \ c[n]),
      stuck  |-> kept + Cardinality(c[n] \ freed),
      raised |-> raised] :
        kept   \in IF NilKeyAllocates THEN {0, 1} ELSE {0},
        freed  \in IF CallsRaise THEN SUBSET c[n] ELSE {c[n]},
        raised \in IF CallsRaise THEN BOOLEAN ELSE {FALSE}}

FailuresOf(c) == UNION {Refusals(c, n) : n \in DOMAIN c}
=============================================================================
