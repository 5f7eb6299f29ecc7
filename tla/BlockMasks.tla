----------------------------- MODULE BlockMasks -----------------------------
(***************************************************************************)
(* BlockLayout says with divisors and remainders what src/pool.c says with *)
(* bit masks.  TLC evaluates here, over every size_t of the instance, that *)
(* the two agree.                                                          *)
(***************************************************************************)
EXTENDS BlockLayout, Bitwise

\* pool_aligned_alloc: (alignment & (alignment - 1)) == 0
OneBit(a) == a & (a - 1) = 0

\* create_new_block: address & ~(alignment - 1)
Masked(address, alignment) == address - (address & (alignment - 1))

ASSUME OneBitIsPowerOfTwo == \A a \in 1..SizeMax : OneBit(a) <=> PowerOfTwo(a)

ASSUME MaskIsRemainder ==
    \A a \in 1..SizeMax : OneBit(a) =>
        \A mem \in SizeT :
            DataAddress(mem, a) = Masked(mem + Header + a - 1, a)
=============================================================================
