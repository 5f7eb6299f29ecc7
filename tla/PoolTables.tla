----------------------------- MODULE PoolTables -----------------------------
(***************************************************************************)
(* The internal state table of a pool (src/pool.c, build_state_table): the *)
(* table of used blocks and the chains of unused blocks, one per size      *)
(* class, as operators that give the tables after each group of raw table  *)
(* writes.  A block stands for its userdata and for its data pointer.      *)
(***************************************************************************)
EXTENDS BlockLayout

CONSTANTS
    Blocks,         \* the userdata the Lua allocator can return
    Nil,            \* Lua nil, and the NULL pointer
    Sizes,          \* the usable sizes callers ask for
    Alignments      \* the alignments callers ask for

\* make_size_key: the lookup key of a size class is the pair itself.
NormalAlignments == {NormalizedAlignment(a) : a \in Alignments} \ {0}
Class == [size : Sizes, alignment : NormalAlignments]
DefaultClass(size) == [size |-> size, alignment |-> DefaultAlignment]

ASSUME TablesAssumption ==
    /\ Nil \notin Blocks /\ Nil \notin Class
    /\ Sizes \subseteq SizeT
    /\ Alignments \subseteq SizeT /\ 0 \in Alignments

Tables ==
    [used_mem_by_block  : SUBSET Blocks,
     unused_mem_by_size : [Class -> Blocks \cup {Nil}],
     unused_mem_next    : [Blocks -> Blocks \cup {Nil}]]

\* build_state_table
EmptyTables ==
    [used_mem_by_block  |-> {},
     unused_mem_by_size |-> [c \in Class |-> Nil],
     unused_mem_next    |-> [b \in Blocks |-> Nil]]

ChainHead(t, c) == t.unused_mem_by_size[c]

-----------------------------------------------------------------------------
TakeUnused_HeadNotPromoted(t, c) ==
    [t EXCEPT !.used_mem_by_block = @ \cup {ChainHead(t, c)},
              !.unused_mem_next[ChainHead(t, c)] = Nil]
TakeUnused_LinkKept(t, c) ==
    [t EXCEPT !.used_mem_by_block = @ \cup {ChainHead(t, c)},
              !.unused_mem_by_size[c] = t.unused_mem_next[ChainHead(t, c)]]

\* take_unused_block on a hit: the head becomes used, its successor the head
\* of the chain, and its own link is removed.
TakeUnused(t, c) ==
    [t EXCEPT !.used_mem_by_block = @ \cup {ChainHead(t, c)},
              !.unused_mem_by_size[c] = t.unused_mem_next[ChainHead(t, c)],
              !.unused_mem_next[ChainHead(t, c)] = Nil]

\* acquire_used_block registers a block that create_new_block made.
RegisterUsed(t, b) == [t EXCEPT !.used_mem_by_block = @ \cup {b}]

\* The guaranteed phase of release_used_block, and pool_detach_protected.
ForgetUsed(t, b) == [t EXCEPT !.used_mem_by_block = @ \ {b}]

\* cache_unused_block_protected, first half: a block goes ahead of the head.
LinkUnused(t, c, b) ==
    IF ChainHead(t, c) = Nil THEN t
    ELSE [t EXCEPT !.unused_mem_next[b] = ChainHead(t, c)]

\* cache_unused_block_protected, both halves.
PushUnused(t, c, b) == [LinkUnused(t, c, b) EXCEPT !.unused_mem_by_size[c] = b]

\* release_used_block: caching is best effort, and each of its two key strings
\* may fail to allocate, before or after the link is written.
Released(t, c, b) ==
    LET f == ForgetUsed(t, b)
    IN  {f, LinkUnused(f, c, b), PushUnused(f, c, b)}

\* The collector clears the weak entries that name a dead block: values of
\* unused_mem_by_size, keys and values of unused_mem_next.
Collected(t, D) ==
    [t EXCEPT
        !.unused_mem_by_size =
            [c \in Class |-> IF ChainHead(t, c) \in D THEN Nil ELSE ChainHead(t, c)],
        !.unused_mem_next =
            [b \in Blocks |-> IF b \in D \/ t.unused_mem_next[b] \in D
                              THEN Nil ELSE t.unused_mem_next[b]]]
=============================================================================
