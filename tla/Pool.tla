-------------------------------- MODULE Pool --------------------------------
(***************************************************************************)
(* The memory pool of src/pool.c, one API call per step.  A call that ends *)
(* in LUA_ERRMEM, the garbage collector and the weak tables are part of    *)
(* the model; finalizers that call back into a pool are in PoolReentry.    *)
(*                                                                         *)
(* With no finalizer a collection inside a call can be moved before or     *)
(* after it: it only removes blocks that nothing reaches and the call      *)
(* keeps the blocks it works on on its Lua stack.                          *)
(***************************************************************************)
EXTENDS PoolTables, FiniteSets

CONSTANTS
    Capacities,         \* the capacities pools are created with; 0 is no limit
    NilKeyAllocates     \* lua_rawset(t, absent key, nil) may allocate:
                        \* Lua 5.1 to 5.4.2 and LuaJIT

ASSUME PoolAssumption ==
    /\ IsFiniteSet(Blocks)
    /\ Capacities \subseteq SizeT
    /\ NilKeyAllocates \in BOOLEAN

VARIABLES
    ref_L,      \* pool->ref_L # LUA_NOREF: the state table is registered
    capacity,   \* pool->capacity
    used,       \* pool->used
    tables,     \* the internal state table
    mem,        \* the Lua heap: size and alignment of a live block, or Nil
    refs,       \* the blocks whose mem->ref is a registry reference
    held,       \* data pointers the caller owns (ghost)
    handles,    \* detached blocks the caller owns (ghost)
    status      \* outcome of the last call: "ok" or its errno

vars == <<ref_L, capacity, used, tables, mem, refs, held, handles, status>>

Live == {b \in Blocks : mem[b] # Nil}

\* The usable bytes of a set of blocks, each a pair of block and offset: the
\* amount of memory is the cardinality of this set.
Bytes(m, S) == UNION {{b} \X (1..m[b].size) : b \in S}

TypeOK ==
    /\ ref_L \in BOOLEAN
    /\ capacity \in SizeT
    /\ used \in SizeT
    /\ tables \in Tables
    /\ mem \in [Blocks -> Class \cup {Nil}]
    /\ refs \subseteq Blocks
    /\ held \subseteq Blocks
    /\ handles \subseteq Blocks
    /\ status \in {"ok", "EINVAL", "ENOMEM"}

Init ==
    /\ ref_L = FALSE
    /\ capacity = 0
    /\ used = 0
    /\ tables = EmptyTables
    /\ mem = [b \in Blocks |-> Nil]
    /\ refs = {}
    /\ held = {}
    /\ handles = {}
    /\ status = "ok"

\* A call that returns without changing the pool: errno, or "ok".
Answer(outcome) ==
    /\ status' = outcome
    /\ UNCHANGED <<ref_L, capacity, used, tables, mem, refs, held, handles>>

-----------------------------------------------------------------------------
(* Lifetime *)

\* pool_new: every failure path leaves nothing registered.
New(cap) ==
    /\ ~ref_L
    /\ \/ /\ ref_L' = TRUE
          /\ capacity' = cap
          /\ used' = 0
          /\ tables' = EmptyTables
          /\ held' = {}
          /\ status' = "ok"
          /\ UNCHANGED <<mem, refs, handles>>
       \/ Answer("ENOMEM")

\* pool_delete: the state table is no longer reachable, so neither are the
\* blocks the pool owns; a second call is a no-op.
Delete ==
    /\ ref_L' = FALSE
    /\ tables' = EmptyTables
    /\ held' = {}
    /\ status' = "ok"
    /\ UNCHANGED <<capacity, used, mem, refs, handles>>

-----------------------------------------------------------------------------
(* Allocation *)

\* lua_newuserdata finds room only while the live blocks fit the address space.
Room(size) == Cardinality(Bytes(mem, Live)) + size <= SizeMax

\* take_unused_block, else create_new_block: b is the block obtained.
CanAcquire(c, b) ==
    IF ChainHead(tables, c) # Nil THEN b = ChainHead(tables, c)
    ELSE mem[b] = Nil /\ Room(c.size)
TablesAfter(c, b) ==
    IF ChainHead(tables, c) # Nil THEN TakeUnused(tables, c) ELSE RegisterUsed(tables, b)
HeapAfter_BlockSize(c, b) ==
    IF ChainHead(tables, c) # Nil THEN mem
    ELSE [mem EXCEPT ![b] = [c EXCEPT !.size = ComputeBlockSize(c.size, c.alignment)]]
HeapAfter(c, b) ==
    IF ChainHead(tables, c) # Nil THEN mem ELSE [mem EXCEPT ![b] = c]

\* acquire_used_block raises LUA_ERRMEM: before anything is written; after
\* create_new_block made a userdata that stays unreferenced; or, where nil
\* assignments allocate, when take_unused_block removes the link of a head
\* that has none, after the block became used and the head was promoted.
AcquireFails(c) ==
    /\ status' = "ENOMEM"
    /\ UNCHANGED <<ref_L, capacity, used, refs, held, handles>>
    /\ \/ UNCHANGED <<tables, mem>>
       \/ /\ ChainHead(tables, c) = Nil
          /\ Room(c.size)
          /\ \E b \in Blocks \ Live : mem' = [mem EXCEPT ![b] = c]
          /\ UNCHANGED tables
       \/ /\ NilKeyAllocates
          /\ ChainHead(tables, c) # Nil
          /\ tables.unused_mem_next[ChainHead(tables, c)] = Nil
          /\ tables' = TakeUnused(tables, c)
          /\ UNCHANGED mem

\* pool_alloc_protected: the size cannot be represented or exceeds capacity.
Refused(c) ==
    \/ ComputeBlockSize(c.size, c.alignment) = 0
    \/ capacity # 0 /\ c.size > MinusT(capacity, used)

\* pool_aligned_alloc from the normalized alignment on.
Allocate(c) ==
    \/ Refused(c) /\ Answer("ENOMEM")
    \/ ~Refused(c) /\ AcquireFails(c)
    \/ /\ ~Refused(c)
       /\ \E b \in Blocks :
            /\ CanAcquire(c, b)
            /\ tables' = TablesAfter(c, b)
            /\ mem' = HeapAfter(c, b)
            /\ held' = held \cup {b}
       /\ used' = PlusT(used, c.size)
       /\ status' = "ok"
       /\ UNCHANGED <<ref_L, capacity, refs, handles>>

AlignedAlloc(size, alignment) ==
    /\ ref_L
    /\ LET norm == NormalizedAlignment(alignment)
       IN  \/ norm = 0 /\ Answer("EINVAL")
           \/ norm # 0 /\ Allocate([size |-> size, alignment |-> norm])

Calloc(count, size) ==
    /\ ref_L
    /\ \/ CallocOverflows(count, size) /\ Answer("ENOMEM")
       \/ /\ ~CallocOverflows(count, size)
          /\ count * size \in Sizes
          /\ Allocate(DefaultClass(count * size))

-----------------------------------------------------------------------------
(* Release *)

Free_BytesKept(b) ==
    /\ ref_L
    /\ b \in tables.used_mem_by_block
    /\ tables' \in Released(tables, mem[b], b)
    /\ held' = held \ {b}
    /\ status' = "ok"
    /\ UNCHANGED <<ref_L, capacity, used, mem, refs, handles>>

\* pool_free: NULL is a no-op and a pointer the pool does not own is refused,
\* so the caller may pass any pointer, stale ones included.
Free(b) ==
    /\ ref_L
    /\ \/ b = Nil /\ Answer("ok")
       \/ b # Nil /\ Answer("ENOMEM")
       \/ b # Nil /\ b \notin tables.used_mem_by_block /\ Answer("EINVAL")
       \/ /\ b \in tables.used_mem_by_block
          /\ tables' \in Released(tables, mem[b], b)
          /\ used' = MinusT(used, mem[b].size)
          /\ held' = held \ {b}
          /\ status' = "ok"
          /\ UNCHANGED <<ref_L, capacity, mem, refs, handles>>

-----------------------------------------------------------------------------
(* Realloc *)

RefusedResize_NoCapacity(b, c) == ComputeBlockSize(c.size, c.alignment) = 0

\* pool_realloc_protected: the old block's bytes count as already returned.
RefusedResize(b, c) ==
    \/ capacity # 0 /\ c.size > MinusT(capacity, MinusT(used, mem[b].size))
    \/ ComputeBlockSize(c.size, c.alignment) = 0

\* A new block is acquired, the contents are copied and the old block is
\* released; both count as used in between.
Move(b, c) ==
    /\ \E n \in Blocks :
        /\ CanAcquire(c, n)
        /\ tables' \in Released(TablesAfter(c, n), mem[b], b)
        /\ mem' = HeapAfter(c, n)
        /\ held' = (held \cup {n}) \ {b}
    /\ used' = MinusT(PlusT(used, c.size), mem[b].size)
    /\ status' = "ok"
    /\ UNCHANGED <<ref_L, capacity, refs, handles>>

Resize_ReleaseFirst(b, size) ==
    LET c == DefaultClass(size)
    IN  \/ mem[b].size = size /\ Answer("ok")
        \/ mem[b].size # size /\ ~RefusedResize(b, c) /\ Move(b, c)
        \/ /\ mem[b].size # size
           /\ tables' = ForgetUsed(tables, b)
           /\ used' = MinusT(used, mem[b].size)
           /\ held' = held \ {b}
           /\ status' = "ENOMEM"
           /\ UNCHANGED <<ref_L, capacity, mem, refs, handles>>

\* pool_realloc with a block of this pool and a size that is not 0; the new
\* block has the default alignment whatever the old one had.
Resize(b, size) ==
    LET c == DefaultClass(size)
    IN  \/ mem[b].size = size /\ Answer("ok")
        \/ mem[b].size # size /\ RefusedResize(b, c) /\ Answer("ENOMEM")
        \/ mem[b].size # size /\ ~RefusedResize(b, c) /\ AcquireFails(c)
        \/ mem[b].size # size /\ ~RefusedResize(b, c) /\ Move(b, c)

Realloc(b, size) ==
    /\ ref_L
    /\ \/ b = Nil /\ Allocate(DefaultClass(size))
       \/ b # Nil /\ size = 0 /\ Free(b)
       \/ b # Nil /\ size # 0 /\ Answer("ENOMEM")
       \/ b # Nil /\ size # 0 /\ b \notin tables.used_mem_by_block /\ Answer("EINVAL")
       \/ size # 0 /\ b \in tables.used_mem_by_block /\ Resize(b, size)

-----------------------------------------------------------------------------
(* Detach *)

\* pool_detach: the registry reference replaces the used-side one.
Detach(b) ==
    /\ ref_L
    /\ \/ b = Nil /\ Answer("EINVAL")
       \/ b # Nil /\ Answer("ENOMEM")
       \/ b # Nil /\ b \notin tables.used_mem_by_block /\ Answer("EINVAL")
       \/ /\ b \in tables.used_mem_by_block
          /\ refs' = refs \cup {b}
          /\ tables' = ForgetUsed(tables, b)
          /\ used' = MinusT(used, mem[b].size)
          /\ held' = held \ {b}
          /\ handles' = handles \cup {b}
          /\ status' = "ok"
          /\ UNCHANGED <<ref_L, capacity, mem>>

\* pool_mem_free, on a handle the caller still owns, whatever became of the
\* pool it came from.
MemFree(b) ==
    /\ b \in handles
    /\ refs' = refs \ {b}
    /\ handles' = handles \ {b}
    /\ status' = "ok"
    /\ UNCHANGED <<ref_L, capacity, used, tables, mem, held>>

-----------------------------------------------------------------------------
(* The collector *)

Reachable == tables.used_mem_by_block \cup refs

\* A collection finds some of the unreachable blocks: an incremental cycle may
\* have marked the others before they were released.
Collect(D) ==
    /\ D # {}
    /\ D \subseteq Live \ Reachable
    /\ mem' = [b \in Blocks |-> IF b \in D THEN Nil ELSE mem[b]]
    /\ tables' = Collected(tables, D)
    /\ status' = "ok"
    /\ UNCHANGED <<ref_L, capacity, used, refs, held, handles>>

Next ==
    \/ \E cap \in Capacities : New(cap)
    \/ Delete
    \/ \E size \in Sizes, alignment \in Alignments : AlignedAlloc(size, alignment)
    \/ \E count, size \in Sizes : Calloc(count, size)
    \/ \E b \in Blocks \cup {Nil}, size \in Sizes : Realloc(b, size)
    \/ \E b \in Blocks \cup {Nil} : Free(b)
    \/ \E b \in Blocks \cup {Nil} : Detach(b)
    \/ \E b \in Blocks : MemFree(b)
    \/ \E D \in SUBSET Blocks : Collect(D)

Spec == Init /\ [][Next]_vars
-----------------------------------------------------------------------------
(* Properties *)

\* pool->used is the number of usable bytes the caller holds: a block handed
\* out twice, released twice or lost on the way to an error breaks it.
UsedIsHeldBytes == ref_L => used = Cardinality(Bytes(mem, held))

\* pool_new's capacity is a limit on that number at every moment between calls.
CapacityRespected == ref_L /\ capacity # 0 => used <= capacity

\* The pool owns what the caller holds: used_mem_by_block has an entry for every
\* pointer the caller may still pass back, and no entry nobody can release.
OwnershipExact == tables.used_mem_by_block = held

\* The pool's books are true between calls: what it owns, how much that is, and
\* that it is within the limit.
AccountsExact == OwnershipExact /\ UsedIsHeldBytes /\ CapacityRespected

\* No held pointer and no detached handle refers to a block the collector has
\* taken, in whatever order blocks, handles and the pool are released.
NoDangling == held \cup handles \subseteq Live

\* A block has one owner: it is never both the pool's and a detached handle.
OneOwner == held \cap handles = {} /\ refs = handles

\* Some set L of idle blocks contains every chain: heads are in their own
\* class, a successor has the class of its predecessor, no block points at a
\* head and no two blocks share a successor.
HeadsIn(t, m, L) ==
    \A c \in Class : ChainHead(t, c) # Nil => ChainHead(t, c) \in L /\ m[ChainHead(t, c)] = c
SuccessorsIn(t, m, L) ==
    \A b \in L : t.unused_mem_next[b] # Nil =>
        /\ t.unused_mem_next[b] \in L
        /\ m[t.unused_mem_next[b]] = m[b]
        /\ t.unused_mem_next[b] # ChainHead(t, m[b])
SuccessorsDistinct(t, L) ==
    \A a, b \in L :
        t.unused_mem_next[a] # Nil /\ t.unused_mem_next[a] = t.unused_mem_next[b]
            => a = b
ChainsOver(t, m, owned, L) ==
    /\ L \subseteq Blocks \ owned
    /\ \A b \in L : m[b] # Nil
    /\ HeadsIn(t, m, L)
    /\ SuccessorsIn(t, m, L)
    /\ SuccessorsDistinct(t, L)

\* The chains of unused blocks are well formed: what take_unused_block returns
\* is idle, of the class asked for, and on no chain afterwards.
ChainsSound ==
    \E L \in SUBSET Blocks :
        ChainsOver(tables, mem, tables.used_mem_by_block \cup refs, L)

LinksOfIdle(t, m, owned) ==
    \A b \in Blocks : t.unused_mem_next[b] # Nil =>
        /\ b \notin owned
        /\ m[b] # Nil
        /\ m[t.unused_mem_next[b]] # Nil

\* Blocks that are used, detached or dead have no link, and no link names a
\* dead block: a block that starts a new chain brings no old successor along.
NoStaleLink == LinksOfIdle(tables, mem, tables.used_mem_by_block \cup refs)

\* Reuse and collection agree on who has a block: the chains hold idle blocks only,
\* an owned block is alive, and it has one owner.
StructureSound == ChainsSound /\ NoStaleLink /\ NoDangling /\ OneOwner

\* pool.h of pool_realloc, and the error paths of every other call: a call that
\* fails leaves the pool as it was.
FailureLeavesPoolUnchanged ==
    [][status' # "ok" =>
        UNCHANGED <<ref_L, capacity, used, tables, refs, held, handles>>]_vars
=============================================================================
