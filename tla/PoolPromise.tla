---------------------------- MODULE PoolPromise ----------------------------
(***************************************************************************)
(* What src/pool.h promises a caller, without tables, chains or collector: *)
(* every block the caller gets is one nobody holds, keeps its size class   *)
(* until the caller gives it back, the bytes held never exceed the         *)
(* capacity, and detached blocks outlive the pool.                         *)
(***************************************************************************)
EXTENDS Integers, FiniteSets

CONSTANTS
    Blocks, Nil,
    Class,          \* size classes: records with a field size
    Capacities

VARIABLES
    open,           \* the pool exists
    limit,          \* its capacity, 0 for none
    held,           \* the class of a block the caller holds, or Nil
    handles         \* the class of a detached block, or Nil

vars == <<open, limit, held, handles>>

Nothing == [b \in Blocks |-> Nil]
HeldBytes(h) == UNION {{b} \X (1..h[b].size) : b \in {x \in Blocks : h[x] # Nil}}
WithinLimit(h) == limit # 0 => Cardinality(HeldBytes(h)) <= limit
Unclaimed(b) == held[b] = Nil /\ handles[b] = Nil

Init == ~open /\ limit = 0 /\ held = Nothing /\ handles = Nothing

\* pool_new, pool_delete
Open(cap) ==
    /\ ~open
    /\ open' = TRUE /\ limit' = cap /\ held' = Nothing
    /\ UNCHANGED handles
Close == open' = FALSE /\ held' = Nothing /\ UNCHANGED <<limit, handles>>

\* pool_aligned_alloc, pool_calloc
Grant(b, c) ==
    /\ open /\ Unclaimed(b)
    /\ held' = [held EXCEPT ![b] = c]
    /\ WithinLimit(held')
    /\ UNCHANGED <<open, limit, handles>>

\* pool_realloc: the caller swaps one block for another.
Exchange(old, b, c) ==
    /\ open /\ held[old] # Nil /\ Unclaimed(b)
    /\ held' = [held EXCEPT ![old] = Nil, ![b] = c]
    /\ WithinLimit(held')
    /\ UNCHANGED <<open, limit, handles>>

\* pool_free
GiveBack(b) ==
    /\ open /\ held[b] # Nil
    /\ held' = [held EXCEPT ![b] = Nil]
    /\ UNCHANGED <<open, limit, handles>>

\* pool_detach, pool_mem_free
HandOver(b) ==
    /\ open /\ held[b] # Nil
    /\ held' = [held EXCEPT ![b] = Nil]
    /\ handles' = [handles EXCEPT ![b] = held[b]]
    /\ UNCHANGED <<open, limit>>
Discard(b) ==
    /\ handles[b] # Nil
    /\ handles' = [handles EXCEPT ![b] = Nil]
    /\ UNCHANGED <<open, limit, held>>

Next ==
    \/ \E cap \in Capacities : Open(cap)
    \/ Close
    \/ \E b \in Blocks, c \in Class : Grant(b, c)
    \/ \E old, b \in Blocks, c \in Class : Exchange(old, b, c)
    \/ \E b \in Blocks : GiveBack(b) \/ HandOver(b) \/ Discard(b)

Spec == Init /\ [][Next]_vars
=============================================================================
