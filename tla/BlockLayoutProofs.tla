------------------------- MODULE BlockLayoutProofs -------------------------
(***************************************************************************)
(* The layout arithmetic is exact for every word size and alignment, and   *)
(* so are the answers to requests and the regions that BlockPlacement has. *)
(***************************************************************************)
EXTENDS BlockPlacement, WellFoundedInduction, TLAPS

(***************************************************************************)
(* compute_block_size returns the true sum whenever it does not return 0,  *)
(* never more than SIZE_MAX: no step of it wraps.                          *)
(***************************************************************************)
THEOREM BlockSizeExact ==
  ASSUME NEW size \in SizeT, NEW alignment \in SizeT, alignment >= 1
  PROVE  /\ ComputeBlockSize(size, alignment) \in SizeT
         /\ ComputeBlockSize(size, alignment) # 0 =>
              /\ ComputeBlockSize(size, alignment) = Header + (alignment - 1) + size
              /\ size <= PtrdiffMax
         /\ ComputeBlockSize(size, alignment) = 0 <=>
              \/ size > PtrdiffMax
              \/ Header + (alignment - 1) + size > SizeMax
  BY LayoutAssumption DEF ComputeBlockSize, SizeT

(***************************************************************************)
(* An aligned address exists at most alignment - 1 bytes after any base.   *)
(***************************************************************************)
LEMMA RoundDown ==
  ASSUME NEW s \in Nat, NEW a \in Nat, a >= 1
  PROVE  /\ s - (s % a) \in Nat
         /\ s - (s % a) <= s
         /\ s - (s % a) > s - a
         /\ s - (s % a) = a * (s \div a)
<1>1. (s % a) \in 0..(a - 1)
  OBVIOUS
<1>2. s = a * (s \div a) + (s % a)
  OBVIOUS
<1>3. s \div a \in Nat
  OBVIOUS
<1>4. a * (s \div a) \in Nat
  BY <1>3
<1> QED
  BY <1>1, <1>2, <1>4

(***************************************************************************)
(* create_new_block: the usable region starts after the header, is aligned *)
(* and ends inside the userdata that compute_block_size asked for.         *)
(***************************************************************************)
THEOREM RegionInsideBlock ==
  ASSUME NEW mem \in Nat, NEW size \in SizeT, NEW alignment \in SizeT,
         alignment >= 1, ComputeBlockSize(size, alignment) # 0
  PROVE  LET data == DataAddress(mem, alignment) IN
         /\ data \in Nat
         /\ data >= mem + Header
         /\ data + size <= mem + ComputeBlockSize(size, alignment)
         /\ \E k \in Nat : data = alignment * k
<1> DEFINE limit == mem + Header + alignment - 1
           data  == DataAddress(mem, alignment)
<1>1. limit \in Nat /\ alignment \in Nat /\ Header \in Nat /\ size \in Nat
  BY LayoutAssumption DEF SizeT
<1>2. data = limit - (limit % alignment)
  BY DEF DataAddress
<1>3. /\ data \in Nat /\ data <= limit /\ data > limit - alignment
      /\ data = alignment * (limit \div alignment)
  <2> HIDE DEF limit, data
  <2>1. /\ limit - (limit % alignment) \in Nat
        /\ limit - (limit % alignment) <= limit
        /\ limit - (limit % alignment) > limit - alignment
        /\ limit - (limit % alignment) = alignment * (limit \div alignment)
    BY <1>1, RoundDown, Zenon
  <2> QED BY <1>2, <2>1
<1>4. limit \div alignment \in Nat
  <2> HIDE DEF limit
  <2> QED BY <1>1
<1>5. data >= mem + Header
  <2> HIDE DEF data
  <2> QED BY <1>1, <1>3
<1>6. ComputeBlockSize(size, alignment) = Header + (alignment - 1) + size
  BY BlockSizeExact
<1>7. data + size <= mem + ComputeBlockSize(size, alignment)
  <2> HIDE DEF data
  <2> QED BY <1>1, <1>3, <1>6
<1> HIDE DEF data, limit
<1>8. \E k \in Nat : data = alignment * k
  BY <1>3, <1>4
<1> QED
  BY <1>3, <1>5, <1>7, <1>8 DEF data

(***************************************************************************)
(* Two userdata that do not overlap have different data pointers and       *)
(* disjoint usable regions, blocks of size 0 included: the data pointer    *)
(* identifies the block in used_mem_by_block, which is why the pool        *)
(* modules may name a block by one value.                                  *)
(***************************************************************************)
THEOREM DataPointersDistinct ==
  ASSUME NEW m1 \in Nat, NEW m2 \in Nat,
         NEW s1 \in SizeT, NEW s2 \in SizeT,
         NEW a1 \in SizeT, NEW a2 \in SizeT, a1 >= 1, a2 >= 1,
         ComputeBlockSize(s1, a1) # 0, ComputeBlockSize(s2, a2) # 0,
         m1 + ComputeBlockSize(s1, a1) <= m2
  PROVE  /\ DataAddress(m1, a1) < DataAddress(m2, a2)
         /\ DataAddress(m1, a1) + s1 <= DataAddress(m2, a2)
<1> DEFINE d1 == DataAddress(m1, a1)
           d2 == DataAddress(m2, a2)
           c1 == ComputeBlockSize(s1, a1)
<1>1. d1 \in Nat /\ d1 + s1 <= m1 + c1
  BY RegionInsideBlock
<1>2. d2 \in Nat /\ d2 >= m2 + Header
  BY RegionInsideBlock
<1>3. c1 \in SizeT
  BY BlockSizeExact
<1>4. Header \in Nat /\ Header >= 1 /\ s1 \in Nat /\ c1 \in Nat
  BY <1>3, LayoutAssumption DEF SizeT
<1>5. m1 + c1 <= m2
  OBVIOUS
<1> HIDE DEF d1, d2, c1
<1>6. d1 < d2 /\ d1 + s1 <= d2
  BY <1>1, <1>2, <1>4, <1>5
<1> QED
  BY <1>6 DEF d1, d2

(***************************************************************************)
(* pool_calloc refuses exactly the products that do not fit a size_t.      *)
(***************************************************************************)
THEOREM CallocCheckExact ==
  ASSUME NEW count \in SizeT, NEW size \in SizeT
  PROVE  CallocOverflows(count, size) <=> count * size > SizeMax
<1>1. count \in Nat /\ size \in Nat /\ SizeMax \in Nat
  BY LayoutAssumption DEF SizeT
<1>2. CASE size = 0
  BY <1>1, <1>2 DEF CallocOverflows
<1>3. CASE size # 0
  <2> DEFINE q == SizeMax \div size
  <2>1. q \in Nat /\ (SizeMax % size) \in 0..(size - 1)
    BY <1>1, <1>3
  <2>2. SizeMax = size * q + (SizeMax % size)
    BY <1>1, <1>3
  <2>3. size * q \in Nat /\ count * size \in Nat
    BY <1>1, <2>1
  <2>4. CASE count <= q
    <3>1. size * count <= size * q
      BY <1>1, <2>1, <2>4
    <3> QED
      BY <1>1, <1>3, <2>1, <2>2, <2>3, <2>4, <3>1 DEF CallocOverflows
  <2>5. CASE count > q
    <3>1. size * (q + 1) <= size * count
      BY <1>1, <2>1, <2>5
    <3>2. size * (q + 1) = size * q + size
      BY <1>1, <2>1
    <3> QED
      BY <1>1, <1>3, <2>1, <2>2, <2>3, <2>5, <3>1, <3>2 DEF CallocOverflows
  <2> QED
    BY <1>1, <2>1, <2>4, <2>5
<1> QED
  BY <1>2, <1>3

-----------------------------------------------------------------------------
(* Powers of two *)

LEMMA Divides ==
  ASSUME NEW a \in Nat, NEW d \in Nat, d >= 1
  PROVE  a % d = 0 <=> \E k \in Nat : a = d * k
<1>1. ASSUME NEW k \in Nat, a = d * k PROVE a % d = 0
  BY <1>1, SMTT(20)
<1>2. ASSUME a % d = 0 PROVE \E k \in Nat : a = d * k
  <2>1. a = d * (a \div d) + (a % d)
    OBVIOUS
  <2>2. a \div d \in Nat /\ d * (a \div d) \in Nat
    OBVIOUS
  <2>3. a = d * (a \div d)
    BY <1>2, <2>1, <2>2
  <2> QED
    BY <2>2, <2>3
<1> QED
  BY <1>1, <1>2

\* Twice a number is a power of two when the number is.
LEMMA HalfOfPower ==
  ASSUME NEW a \in Nat, a > 1
  PROVE  PowerOfTwo(a) <=> a % 2 = 0 /\ PowerOfTwo(a \div 2)
<1> DEFINE b == a \div 2
<1>1. a % 2 = 0 => b \in Nat /\ b >= 1 /\ a = 2 * b
  OBVIOUS
<1> HIDE DEF b
<1>2. PowerOfTwo(a) => a % 2 = 0
  <2>1. a \in 2..a /\ a % a = 0
    OBVIOUS
  <2> QED
    BY <2>1 DEF PowerOfTwo
<1>3. ASSUME a % 2 = 0, PowerOfTwo(a), NEW d \in 2..b, b % d = 0 PROVE d % 2 = 0
  <2>1. d \in Nat /\ d >= 1 /\ b \in Nat /\ d <= b /\ a = 2 * b
    BY <1>1, <1>3
  <2>2. PICK k \in Nat : b = d * k
    BY <1>3, <2>1, Divides
  <2>3. 2 * k \in Nat /\ a = d * (2 * k)
    BY <2>1, <2>2
  <2>4. a % d = 0
    BY <2>1, <2>3, Divides
  <2>5. d \in 2..a
    BY <2>1
  <2> QED
    BY <1>3, <2>4, <2>5 DEF PowerOfTwo
<1>4. ASSUME a % 2 = 0, PowerOfTwo(b), NEW d \in 2..a, a % d = 0, d % 2 # 0 PROVE FALSE
  <2>1. d \in Nat /\ d >= 2 /\ b \in Nat /\ b >= 1 /\ a = 2 * b
    BY <1>1, <1>4
  <2>2. PICK k \in Nat : a = d * k
    BY <1>4, <2>1, Divides
  <2>3. PICK e \in Nat : d = 2 * e + 1
    <3>1. d \div 2 \in Nat /\ d = 2 * (d \div 2) + 1
      BY <1>4, <2>1
    <3> QED
      BY <3>1
  <2> DEFINE m == b - e * k
  <2>4. m \in Int /\ k = 2 * m
    <3>1. d * k = 2 * (e * k) + k /\ e * k \in Nat
      BY <2>3
    <3> QED
      BY <2>1, <2>2, <3>1
  <2> HIDE DEF m
  <2>5. m \in Nat
    BY <2>4
  <2>6. d * m \in Nat /\ d * k = 2 * (d * m)
    BY <2>1, <2>4, <2>5
  <2>7. b = d * m
    BY <2>1, <2>2, <2>6
  <2>8. b % d = 0
    BY <2>1, <2>5, <2>7, Divides
  <2>9. d \in 2..b
    <3>1. m >= 1
      BY <2>1, <2>5, <2>7
    <3>2. d * m >= d
      BY <2>1, <2>5, <3>1
    <3> QED
      BY <2>1, <2>7, <3>2
  <2> QED
    BY <1>4, <2>8, <2>9 DEF PowerOfTwo
<1>5. PowerOfTwo(a) => a % 2 = 0 /\ PowerOfTwo(b)
  BY <1>1, <1>2, <1>3 DEF PowerOfTwo
<1>6. a % 2 = 0 /\ PowerOfTwo(b) => PowerOfTwo(a)
  BY <1>4 DEF PowerOfTwo
<1> QED
  BY <1>5, <1>6 DEF b

LEMMA LeastElement ==
  ASSUME NEW S \in SUBSET Nat, S # {}
  PROVE  \E x \in S : \A y \in S : x <= y
<1> DEFINE R == OpToRel(<, Nat)
<1>1. IsWellFoundedOn(R, Nat)
  BY NatLessThanWellFounded
<1>2. \A m, n \in Nat : m < n => <<m, n>> \in R
  BY DEF OpToRel
<1> HIDE DEF R
<1>3. PICK x \in S : \A y \in S : ~ (<<y, x>> \in R)
  BY <1>1, WFMin
<1>4. ASSUME NEW y \in S PROVE x <= y
  <2>1. x \in Nat /\ y \in Nat
    OBVIOUS
  <2>2. ~(y < x)
    BY <1>2, <1>3, <2>1
  <2> QED
    BY <2>1, <2>2
<1> QED
  BY <1>4

\* The equation of PowerByDoubling has PowerOfTwo as its solution, and no other: two
\* that differ do so at a least place, whose half is smaller.
LEMMA PowersAgree ==
  \A a \in SizeT : PowerByDoubling[a] <=> PowerOfTwo(a)
<1> DEFINE Term(a, half) == a = 1 \/ (a > 1 /\ a % 2 = 0 /\ half)
           p == [a \in SizeT |-> PowerOfTwo(a)]
           Solved(f) == f = [a \in SizeT |-> Term(a, f[a \div 2])]
<1>1. \A a \in SizeT : a \in Nat /\ (a > 1 => a \div 2 \in SizeT /\ a \div 2 < a)
  BY LayoutAssumption DEF SizeT
<1>2. ASSUME NEW a \in SizeT PROVE PowerOfTwo(a) <=> Term(a, p[a \div 2])
  <2>1. CASE a = 0 \/ a = 1
    BY <2>1 DEF PowerOfTwo
  <2>2. CASE a > 1
    <3>1. p[a \div 2] = PowerOfTwo(a \div 2)
      BY <1>1, <2>2
    <3> HIDE DEF p
    <3> QED
      BY <1>1, <2>2, <3>1, HalfOfPower
  <2> QED
    BY <1>1, <2>1, <2>2
<1>3. Solved(p)
  <2>1. \A a \in SizeT : PowerOfTwo(a) = Term(a, p[a \div 2])
    BY <1>2 DEF PowerOfTwo
  <2> QED
    BY <2>1
<1>4. Solved(PowerByDoubling)
  <2>1. PowerByDoubling = CHOOSE f : Solved(f)
    BY DEF PowerByDoubling
  <2> HIDE DEF p, Solved
  <2> QED
    BY <1>3, <2>1
<1>5. ASSUME NEW f, NEW g, Solved(f), Solved(g), NEW x \in SizeT, f[x] # g[x] PROVE FALSE
  <2> DEFINE S == {a \in SizeT : f[a] # g[a]}
  <2>1. S \in SUBSET Nat /\ x \in S
    BY <1>1, <1>5
  <2>2. PICK a \in S : \A y \in S : a <= y
    <3> HIDE DEF S
    <3> QED
      BY <2>1, LeastElement
  <2>3. f[a] = Term(a, f[a \div 2]) /\ g[a] = Term(a, g[a \div 2])
    <3> HIDE DEF Term
    <3> QED
      BY <1>5
  <2>4. a > 1 => f[a \div 2] = g[a \div 2]
    BY <1>1, <2>2
  <2> QED
    BY <1>1, <2>2, <2>3, <2>4
<1>6. \A a \in SizeT : p[a] = PowerOfTwo(a)
  OBVIOUS
<1> HIDE DEF p, Solved
<1>7. \A a \in SizeT : PowerByDoubling[a] = p[a]
  BY <1>3, <1>4, <1>5
<1> QED
  BY <1>6, <1>7

-----------------------------------------------------------------------------
(* BlockPlacement *)

\* The live userdata are apart.
PlacementInv ==
    /\ \A b \in blocks :
          /\ b.mem \in Nat /\ b.size \in SizeT /\ b.alignment \in SizeT /\ b.alignment >= 1
          /\ Bytes(b) # 0
    /\ \A b, c \in blocks : b # c => b.mem + Bytes(b) <= c.mem \/ c.mem + Bytes(c) <= b.mem

LEMMA ProductFits ==
  ASSUME NEW count \in SizeT, NEW size \in SizeT
  PROVE  /\ count * size \in Nat
         /\ (count * size) % (SizeMax + 1) \in SizeT
         /\ ~CallocOverflows(count, size) =>
               count * size <= SizeMax /\ (count * size) % (SizeMax + 1) = count * size
<1> DEFINE p == count * size
<1>1. p \in Nat /\ SizeMax \in Nat
  BY LayoutAssumption DEF SizeT
<1>2. ~CallocOverflows(count, size) <=> p <= SizeMax
  BY <1>1, CallocCheckExact
<1> HIDE DEF p
<1>3. p % (SizeMax + 1) \in 0..SizeMax
  BY <1>1
<1>4. p <= SizeMax => p % (SizeMax + 1) = p
  BY <1>1
<1> QED
  BY <1>1, <1>2, <1>3, <1>4 DEF p, SizeT

LEMMA AlignmentIs ==
  ASSUME NEW alignment \in SizeT
  PROVE  /\ NormalizedAlignment(alignment) \in SizeT
         /\ NormalizedAlignment(alignment) = 0 <=> alignment # 0 /\ ~PowerOfTwo(alignment)
         /\ NormalizedAlignment(alignment) # 0 =>
               NormalizedAlignment(alignment) = IF alignment = 0 THEN DefaultAlignment ELSE alignment
BY LayoutAssumption DEF NormalizedAlignment, SizeT

\* What a step may be.
LEMMA Requested ==
  ASSUME Next
  PROVE  (\E count, size, alignment \in SizeT : Request(count, size, alignment)) \/ Collect
<1>1. 0 \in SizeT /\ 1 \in SizeT
  BY LayoutAssumption DEF SizeT
<1> QED
  BY <1>1, PlacementAssumption DEF Next

LEMMA PlacementStep ==
  ASSUME PlacementInv, NEW count \in SizeT, NEW size \in SizeT, NEW alignment \in SizeT,
         Request(count, size, alignment)
  PROVE  PlacementInv'
<1> DEFINE total == (count * size) % (SizeMax + 1)
           norm  == NormalizedAlignment(alignment)
           bytes == ComputeBlockSize(total, norm)
           New(mem) == [mem |-> mem, size |-> total, alignment |-> norm]
<1>1. total \in SizeT /\ norm \in SizeT
  BY ProductFits, AlignmentIs
<1>2. CASE UNCHANGED blocks
  BY <1>2 DEF PlacementInv, Bytes
<1>3. ASSUME NEW mem \in Addresses, norm # 0, bytes # 0, HasRoom(mem, bytes),
             blocks' = blocks \cup {New(mem)}
      PROVE  PlacementInv'
  <2> DEFINE new == New(mem)
  <2>1. norm >= 1 /\ mem \in Nat
    BY <1>1, <1>3, PlacementAssumption DEF SizeT
  <2>2. /\ new.mem = mem /\ new.size = total /\ new.alignment = norm /\ Bytes(new) = bytes
        /\ blocks' = blocks \cup {new}
    BY <1>3 DEF Bytes
  <2> HIDE DEF new, bytes, norm, total, New
  <2>3. \A b \in blocks : new.mem + Bytes(new) <= b.mem \/ b.mem + Bytes(b) <= new.mem
    BY <1>3, <2>2 DEF HasRoom
  <2>4. ASSUME NEW b \in blocks'
        PROVE  /\ b.mem \in Nat /\ b.size \in SizeT /\ b.alignment \in SizeT /\ b.alignment >= 1
               /\ Bytes(b) # 0
    <3>1. CASE b \in blocks
      BY <3>1 DEF PlacementInv
    <3>2. CASE b = new
      BY <1>1, <1>3, <2>1, <2>2, <3>2
    <3> QED
      BY <2>2, <2>4, <3>1, <3>2
  <2>5. ASSUME NEW b \in blocks', NEW c \in blocks', b # c
        PROVE  b.mem + Bytes(b) <= c.mem \/ c.mem + Bytes(c) <= b.mem
    <3>1. CASE b \in blocks /\ c \in blocks
      BY <2>5, <3>1 DEF PlacementInv
    <3>2. CASE b = new \/ c = new
      BY <2>2, <2>3, <2>5, <3>2
    <3> QED
      BY <2>2, <2>5, <3>1, <3>2
  <2> QED
    BY <2>4, <2>5 DEF PlacementInv, Bytes
<1> QED
  BY <1>2, <1>3 DEF Request

LEMMA PlacementAlways == Spec => []PlacementInv
<1>1. Init => PlacementInv
  BY DEF Init, PlacementInv
<1>2. PlacementInv /\ [Next]_vars => PlacementInv'
  <2> SUFFICES ASSUME PlacementInv, [Next]_vars PROVE PlacementInv'
    OBVIOUS
  <2>1. CASE \E count, size, alignment \in SizeT : Request(count, size, alignment)
    BY <2>1, PlacementStep
  <2>2. CASE Collect
    <3>1. blocks' \subseteq blocks
      BY <2>2 DEF Collect
    <3> QED
      BY <3>1 DEF PlacementInv, Bytes
  <2>3. CASE UNCHANGED vars
    BY <2>3 DEF vars, PlacementInv, Bytes
  <2> QED
    BY <2>1, <2>2, <2>3, Requested
<1> QED
  BY <1>1, <1>2, PTL DEF Spec

LEMMA MultipleOf ==
  ASSUME NEW a \in Nat, a >= 1, NEW k \in Nat
  PROVE  (a * k) % a = 0
BY SMTT(20)

(***************************************************************************)
(* Whatever is asked for and wherever Lua puts the userdata, each usable   *)
(* region is aligned, after its header, and apart from all other userdata; *)
(* no two blocks have the same data pointer, blocks of size 0 included.    *)
(***************************************************************************)
THEOREM RegionsAlwaysSound == Spec => []RegionsSound
<1>1. PlacementInv => RegionsSound
  <2> SUFFICES ASSUME PlacementInv PROVE RegionsSound
    OBVIOUS
  <2>1. ASSUME NEW b \in blocks
        PROVE  /\ Data(b) \in Nat /\ Data(b) >= b.mem + Header /\ Data(b) % b.alignment = 0
               /\ Data(b) + b.size <= b.mem + Bytes(b)
               /\ b.mem \in Nat /\ b.size \in Nat /\ Bytes(b) \in Nat /\ Bytes(b) >= 1
    <3>1. /\ b.mem \in Nat /\ b.size \in SizeT /\ b.alignment \in SizeT /\ b.alignment >= 1
          /\ ComputeBlockSize(b.size, b.alignment) # 0
      BY DEF PlacementInv, Bytes
    <3>2. /\ Data(b) \in Nat /\ Data(b) >= b.mem + Header
          /\ Data(b) + b.size <= b.mem + Bytes(b)
          /\ \E k \in Nat : Data(b) = b.alignment * k
      BY <3>1, RegionInsideBlock DEF Data, Bytes
    <3>3. b.alignment \in Nat /\ b.size \in Nat
      BY <3>1 DEF SizeT
    <3>4. Data(b) % b.alignment = 0
      BY <3>1, <3>2, <3>3, MultipleOf
    <3>5. Bytes(b) \in SizeT /\ Bytes(b) # 0
      BY <3>1, BlockSizeExact DEF Bytes
    <3>6. Bytes(b) \in Nat /\ Bytes(b) >= 1
      BY <3>5 DEF SizeT
    <3> QED
      BY <3>1, <3>2, <3>3, <3>4, <3>6
  <2>2. Header \in Nat /\ Header >= 1
    BY LayoutAssumption
  <2>3. ASSUME NEW b \in blocks, NEW c \in blocks, b # c, ~(c.mem < b.mem)
        PROVE  Data(b) + b.size <= c.mem /\ Data(b) # Data(c)
    <3>1. b.mem + Bytes(b) <= c.mem
      BY <2>1, <2>3 DEF PlacementInv
    <3> QED
      BY <2>1, <2>2, <3>1
  <2>4. RegionsAligned
    BY <2>1 DEF RegionsAligned
  <2>5. ASSUME NEW b \in blocks PROVE Data(b) + b.size <= b.mem + Bytes(b)
    BY <2>1
  <2>6. ASSUME NEW b \in blocks, NEW c \in blocks, b.mem < c.mem PROVE Data(b) + b.size <= c.mem
    BY <2>1, <2>3, <2>6
  <2>7. ASSUME NEW b \in blocks, NEW c \in blocks, b # c PROVE Data(b) # Data(c)
    BY <2>1, <2>3, <2>7
  <2> QED
    BY <2>4, <2>5, <2>6, <2>7 DEF RegionsSound, RegionsDisjoint
<1> QED
  BY PlacementAlways, <1>1, PTL

(***************************************************************************)
(* For every word size, the tests that themselves must not wrap refuse     *)
(* what numbers without a width refuse, and nothing else; what is granted  *)
(* has all of its count * size bytes.                                      *)
(***************************************************************************)
THEOREM RequestsAlwaysJudged == Spec => []RequestsJudged
<1>1. Init => RequestsJudged
  BY DEF Init, NoRequest, RequestsJudged, BadAlignmentRefused, GrantedInFull, RefusedOnlyOnOverflow
<1>2. RequestsJudged /\ [Next]_vars => RequestsJudged'
  <2> SUFFICES ASSUME RequestsJudged, [Next]_vars PROVE RequestsJudged'
    OBVIOUS
  <2>1. CASE UNCHANGED vars
    BY <2>1 DEF vars, RequestsJudged, BadAlignmentRefused, GrantedInFull, RefusedOnlyOnOverflow
  <2>2. CASE Collect
    BY <2>2 DEF Collect, NoRequest, RequestsJudged, BadAlignmentRefused, GrantedInFull,
                RefusedOnlyOnOverflow
  <2>3. ASSUME NEW count \in SizeT, NEW size \in SizeT, NEW alignment \in SizeT,
               Request(count, size, alignment)
        PROVE  RequestsJudged'
    <3> DEFINE product == count * size
               total == product % (SizeMax + 1)
               norm  == NormalizedAlignment(alignment)
               bytes == ComputeBlockSize(total, norm)
    <3>1. /\ product \in Nat /\ total \in SizeT
          /\ ~CallocOverflows(count, size) => product <= SizeMax /\ total = product
          /\ CallocOverflows(count, size) => product > SizeMax
      BY ProductFits, CallocCheckExact
    <3>2. /\ norm \in SizeT
          /\ norm = 0 <=> alignment # 0 /\ ~PowerByDoubling[alignment]
          /\ norm # 0 => norm = IF alignment = 0 THEN DefaultAlignment ELSE alignment
      BY AlignmentIs, PowersAgree
    <3>3. PtrdiffMax \in Nat /\ SizeMax \in Nat /\ PtrdiffMax < SizeMax
      BY LayoutAssumption
    <3>4. last'.count = count /\ last'.size = size /\ last'.alignment = alignment
      BY <2>3 DEF Request
    <3>5. \/ CallocOverflows(count, size) /\ last'.outcome = "ENOMEM"
          \/ ~CallocOverflows(count, size) /\ norm = 0 /\ last'.outcome = "EINVAL"
          \/ /\ ~CallocOverflows(count, size) /\ norm # 0 /\ bytes = 0
             /\ last'.outcome = "ENOMEM"
          \/ /\ ~CallocOverflows(count, size) /\ norm # 0 /\ last'.outcome = "granted"
             /\ \E b \in blocks' : b.size = total
      <4> DEFINE New(mem) == [mem |-> mem, size |-> total, alignment |-> norm]
                 Answered(outcome) == last' = [count |-> count, size |-> size,
                                               alignment |-> alignment, outcome |-> outcome]
      <4>1. \/ CallocOverflows(count, size) /\ Answered("ENOMEM")
            \/ ~CallocOverflows(count, size) /\ norm = 0 /\ Answered("EINVAL")
            \/ ~CallocOverflows(count, size) /\ norm # 0 /\ bytes = 0 /\ Answered("ENOMEM")
            \/ /\ ~CallocOverflows(count, size) /\ norm # 0 /\ Answered("granted")
               /\ \E mem \in Addresses : blocks' = blocks \cup {New(mem)}
        BY <2>3, Zenon DEF Request
      <4>2. \A outcome : Answered(outcome) => last'.outcome = outcome
        OBVIOUS
      <4>3. \A mem \in Addresses : New(mem).size = total
        OBVIOUS
      <4>4. ASSUME NEW mem \in Addresses, blocks' = blocks \cup {New(mem)}
            PROVE  \E b \in blocks' : b.size = total
        <5> HIDE DEF New, total
        <5> QED
          BY <4>3, <4>4
      <4> HIDE DEF New, total, norm, bytes, Answered
      <4> QED
        BY <4>1, <4>2, <4>4
    <3>6. norm # 0 /\ bytes = 0 => total > PtrdiffMax \/ Header + (norm - 1) + total > SizeMax
      <4> HIDE DEF total, norm
      <4>1. norm # 0 => norm >= 1
        BY <3>2 DEF SizeT
      <4> QED
        BY <3>1, <3>2, <4>1, BlockSizeExact
    <3>7. Header \in Nat /\ norm \in Nat /\ total \in Nat /\ Header + (norm - 1) + total = Header + norm - 1 + total
      <4> HIDE DEF total, norm
      <4> QED
        BY <3>1, <3>2, LayoutAssumption DEF SizeT
    <3> HIDE DEF bytes, norm, total, product
    <3>8. BadAlignmentRefused'
      <4>1. last'.count * last'.size = product
        BY <3>4 DEF product
      <4>2. product > SizeMax <=> ~(product <= SizeMax)
        BY <3>1, <3>3
      <4>3. last'.outcome = "EINVAL" <=> ~CallocOverflows(count, size) /\ norm = 0
        BY <3>5
      <4>4. last'.outcome = "EINVAL" <=>
              product <= SizeMax /\ alignment # 0 /\ ~PowerByDoubling[alignment]
        BY <3>1, <3>2, <4>2, <4>3
      <4> QED
        BY <3>4, <4>1, <4>4 DEF BadAlignmentRefused
    <3>9. GrantedInFull'
      BY <3>1, <3>4, <3>5 DEF GrantedInFull, product
    <3>10. ASSUME last'.outcome = "ENOMEM"
           PROVE  \/ product > PtrdiffMax
                  \/ Header + (IF alignment = 0 THEN DefaultAlignment ELSE alignment) - 1 + product > SizeMax
      <4>1. CASE CallocOverflows(count, size)
        BY <3>1, <3>3, <4>1
      <4>2. CASE ~CallocOverflows(count, size)
        <5>1. norm # 0 /\ bytes = 0 /\ total = product
          BY <3>1, <3>5, <3>10, <4>2
        <5> QED
          BY <3>2, <3>6, <3>7, <5>1
      <4> QED
        BY <4>1, <4>2
    <3>11. RefusedOnlyOnOverflow'
      BY <3>4, <3>10 DEF RefusedOnlyOnOverflow, product
    <3> QED
      BY <3>8, <3>9, <3>11 DEF RequestsJudged
  <2> QED
    BY <2>1, <2>2, <2>3, Requested
<1> QED
  BY <1>1, <1>2, PTL DEF Spec
=============================================================================
