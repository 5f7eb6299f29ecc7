--------------------------- MODULE BlockPlacement ---------------------------
(***************************************************************************)
(* Requests that reach create_new_block, over concrete addresses: each one *)
(* is validated as pool_aligned_alloc, pool_calloc and compute_block_size  *)
(* do, and a granted one takes a userdata anywhere in a small address      *)
(* space, among those that the collector has not freed.  The properties    *)
(* compare the outcome with integers that never wrap.                      *)
(***************************************************************************)
EXTENDS BlockLayout, FiniteSets

CONSTANTS
    Sizes,          \* the sizes and element counts a caller asks for
    Alignments,     \* the alignments a caller asks for
    Addresses,      \* where lua_newuserdata may put a userdata
    MaxBlocks       \* bound: userdata at a time

\* Callers pass size_t.
ASSUME PlacementAssumption ==
    Sizes \subseteq SizeT /\ Alignments \subseteq SizeT /\ Addresses \subseteq Nat

VARIABLES
    blocks,     \* the live userdata: [mem, size, alignment]
    last        \* the last request: [count, size, alignment, outcome]

vars == <<blocks, last>>

NoRequest == [count |-> 0, size |-> 0, alignment |-> 0, outcome |-> "none"]

Init == blocks = {} /\ last = NoRequest

Bytes(b) == ComputeBlockSize(b.size, b.alignment)

\* lua_newuserdata: no two live userdata overlap.
HasRoom(mem, bytes) ==
    /\ mem + bytes <= SizeMax + 1
    /\ \A b \in blocks : mem + bytes <= b.mem \/ b.mem + Bytes(b) <= mem

\* One request for count * size bytes; pool_aligned_alloc is count = 1.  The
\* product is the wrapped one, as the code computes it after its test.
Request(count, size, alignment) ==
    LET total == (count * size) % (SizeMax + 1)
        norm  == NormalizedAlignment(alignment)
        bytes == ComputeBlockSize(total, norm)
        Answer(outcome) ==
            last' = [count |-> count, size |-> size,
                     alignment |-> alignment, outcome |-> outcome]
    IN  \/ /\ CallocOverflows(count, size)
           /\ Answer("ENOMEM") /\ UNCHANGED blocks
        \/ /\ ~CallocOverflows(count, size) /\ norm = 0
           /\ Answer("EINVAL") /\ UNCHANGED blocks
        \/ /\ ~CallocOverflows(count, size) /\ norm # 0 /\ bytes = 0
           /\ Answer("ENOMEM") /\ UNCHANGED blocks
        \/ /\ ~CallocOverflows(count, size) /\ norm # 0 /\ bytes # 0
           /\ Cardinality(blocks) < MaxBlocks
           /\ \E mem \in Addresses :
                /\ HasRoom(mem, bytes)
                /\ blocks' = blocks \cup {[mem |-> mem, size |-> total, alignment |-> norm]}
           /\ Answer("granted")

\* The collector frees a userdata, and its place may be used again.
Collect ==
    /\ \E b \in blocks : blocks' = blocks \ {b}
    /\ last' = NoRequest

Next ==
    \/ \E size \in Sizes, alignment \in Alignments : Request(1, size, alignment)
    \/ \E count, size \in Sizes : Request(count, size, 0)
    \/ Collect

Spec == Init /\ [][Next]_vars
-----------------------------------------------------------------------------
Data(b) == DataAddress(b.mem, b.alignment)

\* A usable region lies at a multiple of its alignment, after the header.
RegionsAligned ==
    \A b \in blocks : Data(b) % b.alignment = 0 /\ Data(b) >= b.mem + Header

\* The bytes written through one data pointer belong to no other userdata and
\* to no header: a usable region ends in its userdata, before the next one begins.
RegionsDisjoint ==
    /\ \A b \in blocks : Data(b) + b.size <= b.mem + Bytes(b)
    /\ \A b, c \in blocks : b.mem < c.mem => Data(b) + b.size <= c.mem
    /\ \A b, c \in blocks : b # c => Data(b) # Data(c)

\* What is written through the data pointers of pool_alloc, pool_aligned_alloc and
\* pool_calloc hurts nobody.
RegionsSound == RegionsAligned /\ RegionsDisjoint

\* The powers of two as 1 and twice any of them.
PowerByDoubling[a \in SizeT] ==
    a = 1 \/ (a > 1 /\ a % 2 = 0 /\ PowerByDoubling[a \div 2])

\* EINVAL is the answer exactly to a non-zero alignment that is no power of two, and
\* only where the product was not refused before.
BadAlignmentRefused ==
    last.outcome = "EINVAL" <=>
        /\ last.count * last.size <= SizeMax
        /\ last.alignment # 0 /\ ~PowerByDoubling[last.alignment]

\* A granted request has all of its count * size bytes: a product or a block
\* size that wrapped was refused (pool_calloc, compute_block_size).
GrantedInFull ==
    last.outcome = "granted" =>
        \E b \in blocks : b.size = last.count * last.size

\* Nothing that fits is refused: ENOMEM before lua_newuserdata means that the
\* product, the signed range or the padded size really overflows.
RefusedOnlyOnOverflow ==
    last.outcome = "ENOMEM" =>
        LET total == last.count * last.size
            norm  == IF last.alignment = 0 THEN DefaultAlignment ELSE last.alignment
        IN  total > PtrdiffMax \/ Header + norm - 1 + total > SizeMax

\* The wrapping tests of pool_aligned_alloc, pool_calloc and compute_block_size tell
\* what numbers without a width tell: what fits is granted, whole, all else refused.
RequestsJudged == BadAlignmentRefused /\ GrantedInFull /\ RefusedOnlyOnOverflow
=============================================================================
