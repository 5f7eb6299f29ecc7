---------------------------- MODULE BlockLayout ----------------------------
(***************************************************************************)
(* The size_t arithmetic of src/pool.c: how large a userdata a block needs *)
(* (compute_block_size), where the usable region lies in it                *)
(* (create_new_block), which alignments a caller may ask for and when      *)
(* count * size overflows (pool_calloc).  Pure operators, no state: the    *)
(* pool modules use them and BlockLayoutProofs proves them exact for every *)
(* word size.                                                              *)
(***************************************************************************)
EXTENDS Integers

CONSTANTS
    SizeMax,            \* SIZE_MAX: the largest size_t
    PtrdiffMax,         \* PTRDIFF_MAX
    Header,             \* sizeof(struct pool_mem_t)
    DefaultAlignment    \* POOL_DEFAULT_ALIGNMENT

\* (alignment & (alignment - 1)) == 0 for a non-zero alignment: every divisor
\* but 1 is even.  BlockMasks checks it against the bit trick of the code.
PowerOfTwo(a) == a >= 1 /\ \A d \in 2..a : a % d = 0 => d % 2 = 0

\* The build's constants: PTRDIFF_MAX is below SIZE_MAX, the header is not
\* empty and the default alignment is a power of two (POOL_STATIC_ASSERT).
ASSUME LayoutAssumption ==
    /\ SizeMax \in Nat /\ PtrdiffMax \in Nat /\ PtrdiffMax < SizeMax
    /\ Header \in 1..SizeMax
    /\ DefaultAlignment \in 1..SizeMax /\ PowerOfTwo(DefaultAlignment)

SizeT == 0..SizeMax

\* Unsigned arithmetic wraps modulo SizeMax + 1.
PlusT(a, b)  == IF a + b > SizeMax THEN a + b - (SizeMax + 1) ELSE a + b
MinusT(a, b) == IF a < b THEN a - b + (SizeMax + 1) ELSE a - b

-----------------------------------------------------------------------------
\* The operators whose names end in _<change> are the mutants of the one they
\* precede: what it would be with one plausible mistake in the code.
ComputeBlockSize_NoPadding(size, alignment) ==
    IF size > PtrdiffMax \/ size > SizeMax - Header THEN 0 ELSE Header + size

\* compute_block_size: header, worst-case padding and usable size, or 0 when
\* the sum cannot be represented.
ComputeBlockSize(size, alignment) ==
    IF \/ size > PtrdiffMax
       \/ alignment - 1 > SizeMax - Header
       \/ size > SizeMax - (Header + (alignment - 1))
    THEN 0
    ELSE Header + (alignment - 1) + size

\* The usable region of the userdata at address mem: the first multiple of
\* the alignment after the header.  Clearing the low bits of a power of two is
\* subtracting the remainder.
DataAddress(mem, alignment) ==
    LET top == mem + Header + alignment - 1 IN top - (top % alignment)

\* pool_aligned_alloc: 0 asks for the default, a power of two is taken as it
\* is, anything else is refused (0 stands for EINVAL).
NormalizedAlignment(alignment) ==
    IF alignment = 0 THEN DefaultAlignment
    ELSE IF PowerOfTwo(alignment) THEN alignment ELSE 0

CallocOverflows_Never(count, size) == FALSE

\* pool_calloc: the product count * size does not fit a size_t.
CallocOverflows(count, size) == size # 0 /\ count > SizeMax \div size
=============================================================================
