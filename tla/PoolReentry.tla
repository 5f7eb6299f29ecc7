---------------------------- MODULE PoolReentry ----------------------------
(***************************************************************************)
(* The pool of src/pool.c cut at the points where Lua may run a finalizer: *)
(* lua_pushlstring and lua_newuserdata step the collector, a __gc method   *)
(* may call back into the same pool, and only then does the interrupted    *)
(* call go on with what it has read and checked.  Lua stops the collector  *)
(* while a finalizer runs, so a call made by a finalizer is not cut again  *)
(* and is one step of Pool.  A finalizer may make every call but two: it   *)
(* does not delete the pool of a running call, which whoever makes that    *)
(* call keeps until it returns, nor pass the block that the running call   *)
(* was given to release or resize.                                         *)
(***************************************************************************)
EXTENDS Pool

CONSTANT MaxAllocations     \* bound: allocations and resizes by finalizers inside calls

ASSUME ReentryAssumption == MaxAllocations \in Nat /\ ~NilKeyAllocates

VARIABLES
    pc,         \* where the running call is
    class,      \* the class it acquires, or of the block it caches
    old,        \* the block it resizes or caches, Nil in an allocation
    allocations,\* allocations and resizes by finalizers so far
    shared      \* blocks handed out while somebody had them (ghost)

callVars == <<pc, class, old, allocations, shared>>
allVars  == <<vars, callVars>>

\* idle: no call runs.  The others are the finalizer points: building the key
\* of take_unused_block, creating a block after a miss, and building the first
\* and the second key of cache_unused_block_protected.
Points == {"take_key", "create", "cache_key", "cache_head"}

ReentryTypeOK ==
    /\ TypeOK
    /\ pc \in Points \cup {"idle"}
    /\ class \in Class \cup {Nil}
    /\ old \in Blocks \cup {Nil}
    /\ allocations \in 0..MaxAllocations
    /\ shared \subseteq Blocks
    /\ pc = "idle" <=> class = Nil
    /\ pc \in {"cache_key", "cache_head"} => old # Nil

ReentryInit ==
    /\ Init
    /\ pc = "idle" /\ class = Nil /\ old = Nil
    /\ allocations = 0 /\ shared = {}

\* Block b is handed out, or none if b is Nil.  held and handles forget a second
\* holder; shared remembers that there is one.
HandOut(b) == shared' = shared \cup ({b} \cap (held \cup handles))

Proceed(p, c, b) == pc' = p /\ class' = c /\ old' = b /\ UNCHANGED allocations
Goto(p, c, b) == Proceed(p, c, b) /\ UNCHANGED shared
Return(outcome) == Goto("idle", Nil, Nil) /\ status' = outcome

-----------------------------------------------------------------------------
(* The running call *)

\* pool_alloc_protected up to the key; the capacity was tested here.
StartAlloc(size) ==
    LET c == DefaultClass(size)
    IN  /\ ref_L /\ pc = "idle"
        /\ ~Refused(c)
        /\ Goto("take_key", c, Nil)
        /\ UNCHANGED vars

\* pool_realloc_protected up to the key.
StartResize(b, size) ==
    LET c == DefaultClass(size)
    IN  /\ ref_L /\ pc = "idle"
        /\ b \in tables.used_mem_by_block
        /\ size # 0 /\ size # mem[b].size
        /\ ~RefusedResize(b, c)
        /\ Goto("take_key", c, b)
        /\ UNCHANGED vars

\* acquire_used_block has block b and t are the tables that register it as
\* used.  An allocation returns it; a resize goes on to release the old block,
\* as release_used_block's guaranteed phase does.
FinishAcquire(b, t) ==
    /\ \/ /\ old = Nil
          /\ tables' = t
          /\ used' = PlusT(used, class.size)
          /\ held' = held \cup {b}
          /\ Proceed("idle", Nil, Nil)
       \/ /\ old # Nil
          /\ tables' = ForgetUsed(t, old)
          /\ used' = MinusT(PlusT(used, class.size), mem[old].size)
          /\ held' = (held \cup {b}) \ {old}
          /\ Proceed("cache_key", mem[old], old)
    /\ HandOut(b)
    /\ status' = "ok"
    /\ UNCHANGED <<ref_L, capacity, refs, handles>>

Take_HeadKept ==
    /\ pc = "take_key"
    /\ \/ /\ ChainHead(tables, class) # Nil
          /\ FinishAcquire(ChainHead(tables, class),
                           RegisterUsed(tables, ChainHead(tables, class)))
          /\ UNCHANGED mem
       \/ /\ ChainHead(tables, class) = Nil
          /\ Goto("create", class, old)
          /\ UNCHANGED vars

\* take_unused_block once the key exists: no finalizer runs between the lookup
\* and the last table write.
Take ==
    /\ pc = "take_key"
    /\ \/ /\ ChainHead(tables, class) # Nil
          /\ FinishAcquire(ChainHead(tables, class), TakeUnused(tables, class))
          /\ UNCHANGED mem
       \/ /\ ChainHead(tables, class) = Nil
          /\ Goto("create", class, old)
          /\ UNCHANGED vars

\* create_new_block and its registration, after the miss.
Create(b) ==
    /\ pc = "create"
    /\ mem[b] = Nil /\ Room(class.size)
    /\ mem' = [mem EXCEPT ![b] = class]
    /\ FinishAcquire(b, RegisterUsed(tables, b))

FailAcquire_FrameKept ==
    /\ pc \in {"take_key", "create"}
    /\ Goto("idle", class, old)
    /\ status' = "ENOMEM"
    /\ UNCHANGED <<ref_L, capacity, used, tables, mem, refs, held, handles>>

\* LUA_ERRMEM before a block was acquired; create_new_block may have made a
\* userdata that stays unreferenced.
FailAcquire ==
    /\ pc \in {"take_key", "create"}
    /\ Return("ENOMEM")
    /\ \/ UNCHANGED mem
       \/ /\ pc = "create" /\ Room(class.size)
          /\ \E b \in Blocks \ Live : mem' = [mem EXCEPT ![b] = class]
    /\ UNCHANGED <<ref_L, capacity, used, tables, refs, held, handles>>

StartFree_CountsLater(b) ==
    /\ ref_L /\ pc = "idle"
    /\ b \in tables.used_mem_by_block
    /\ held' = held \ {b}
    /\ status' = "ok"
    /\ Goto("cache_key", mem[b], b)
    /\ UNCHANGED <<ref_L, capacity, used, tables, mem, refs, handles>>

\* pool_free_protected up to the caching body.
StartFree(b) ==
    /\ ref_L /\ pc = "idle"
    /\ b \in tables.used_mem_by_block
    /\ tables' = ForgetUsed(tables, b)
    /\ used' = MinusT(used, mem[b].size)
    /\ held' = held \ {b}
    /\ status' = "ok"
    /\ Goto("cache_key", mem[b], b)
    /\ UNCHANGED <<ref_L, capacity, mem, refs, handles>>

\* cache_unused_block_protected: the head is read and linked behind the block,
\* and popped off the Lua stack,
CacheLink ==
    /\ pc = "cache_key"
    /\ tables' = LinkUnused(tables, class, old)
    /\ Goto("cache_head", class, old)
    /\ UNCHANGED <<ref_L, capacity, used, mem, refs, held, handles, status>>

\* then, after the second key, the block becomes the head.
CacheHead ==
    /\ pc = "cache_head"
    /\ tables' = [tables EXCEPT !.unused_mem_by_size[class] = old]
    /\ Return("ok")
    /\ UNCHANGED <<ref_L, capacity, used, mem, refs, held, handles>>

\* A key could not be built: the call has succeeded all the same.
CacheFails ==
    /\ pc \in {"cache_key", "cache_head"}
    /\ Return("ok")
    /\ UNCHANGED <<ref_L, capacity, used, tables, mem, refs, held, handles>>

\* Calls that no finalizer can interrupt.
Whole ==
    /\ pc = "idle"
    /\ \/ \E cap \in Capacities : New(cap)
       \/ Delete
       \/ \E b \in Blocks : Detach(b)
       \/ \E b \in Blocks : MemFree(b)
    /\ UNCHANGED callVars

Running ==
    \/ Whole
    \/ \E size \in Sizes : StartAlloc(size)
    \/ \E b \in Blocks, size \in Sizes : StartResize(b, size)
    \/ \E b \in Blocks : StartFree(b)
    \/ Take
    \/ \E b \in Blocks : Create(b)
    \/ FailAcquire
    \/ CacheLink
    \/ CacheHead
    \/ CacheFails

-----------------------------------------------------------------------------
(* The collector and the finalizers it runs *)

OnStack_Popped == {}

\* What the running call keeps on its Lua stack: the block that it resizes or
\* caches, at old_idx or mem_idx, but no longer the head that CacheLink read.
OnStack == {old}

CollectReentrant(D) ==
    /\ D \cap OnStack = {}
    /\ Collect(D)
    /\ UNCHANGED callVars

\* The block that the interrupted call was given is the callee's.
Others == Blocks \ {old}

\* A call of a finalizer that acquires a block of the class, if it succeeds.
Acquires(c, call) ==
    /\ call
    /\ IF status' = "ok" THEN HandOut(ChainHead(tables, c)) ELSE UNCHANGED shared
FinalizerAllocates ==
    /\ allocations < MaxAllocations
    /\ allocations' = allocations + 1
    /\ \E size \in Sizes :
        \/ Acquires(DefaultClass(size), AlignedAlloc(size, 0))
        \/ \E b \in Others :
            /\ size # 0 /\ (b \in tables.used_mem_by_block => mem[b].size # size)
            /\ Acquires(DefaultClass(size), Realloc(b, size))
FinalizerReleases ==
    /\ \/ \E b \in Others : Free(b) \/ Detach(b)
       \/ \E b \in Blocks : MemFree(b)
    /\ UNCHANGED <<allocations, shared>>

\* One pool call of a finalizer.
Finalizer ==
    /\ ref_L /\ pc \in Points
    /\ UNCHANGED <<pc, class, old>>
    /\ FinalizerAllocates \/ FinalizerReleases

ReentryNext ==
    \/ Running
    \/ Finalizer
    \/ \E D \in SUBSET Blocks : CollectReentrant(D)

ReentrySpec == ReentryInit /\ [][ReentryNext]_allVars
-----------------------------------------------------------------------------
(* Properties *)

\* take_unused_block returns an unused block: whatever finalizers do between
\* the link and the new head of cache_unused_block_protected, the head of a
\* chain is not in use, not detached and not dead.
HeadsUnused ==
    \A c \in Class : ChainHead(tables, c) # Nil =>
        /\ ChainHead(tables, c) \notin tables.used_mem_by_block \cup refs
        /\ mem[ChainHead(tables, c)] = c

\* Finalizers that only release memory (pool_free, pool_detach, pool_mem_free)
\* cannot upset the accounting of the pool call they interrupt, whichever of
\* the two changes pool->used first, nor the capacity it has tested.
ReleasesKeepAccounts ==
    allocations = 0 => UsedIsHeldBytes /\ CapacityRespected

\* Nor can they upset the chains it is working on.
ReleasesKeepChains == allocations = 0 => ChainsSound /\ HeadsUnused

\* Finalizers that only release memory do no harm to the call they interrupt.
ReleasesHarmless == ReleasesKeepAccounts /\ ReleasesKeepChains

\* The block that a call is resizing or caching stays alive until the call
\* returns, whatever is collected meanwhile.
WorkedOnAlive == old # Nil => mem[old] # Nil

\* At no point of a call does a collection free what somebody still uses: the call
\* itself, or the one holder of a block or handle.  A block has two holders only
\* after a finalizer has allocated (HeadsUnused); when one of them gives it up it is
\* no longer known that the other has it.
NothingUsedIsCollected ==
    /\ WorkedOnAlive
    /\ (held \cup handles) \ shared \subseteq Live
    /\ allocations = 0 => shared = {}
=============================================================================
