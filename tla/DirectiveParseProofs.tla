------------------------ MODULE DirectiveParseProofs ------------------------
(***************************************************************************)
(* The directives of an element for every set of documents, every first    *)
(* and largest stack, with and without errors that cross parse_data.       *)
(***************************************************************************)
EXTENDS DirectiveParse, WellFoundedInduction, SequenceTheorems,
        FiniteSetTheorems, TLAPS

-----------------------------------------------------------------------------
(* Natural numbers.  Induction is by the least counterexample. *)

LEMMA LeastElement ==
  ASSUME NEW S \in SUBSET Nat, S # {}
  PROVE  \E x \in S : \A y \in S : x <= y
<1> DEFINE R == OpToRel(<, Nat)
<1>1. IsWellFoundedOn(R, Nat)
  BY NatLessThanWellFounded
<1>2. \A m, n \in Nat : m < n => <<m, n>> \in R
  BY DEF OpToRel
<1> HIDE DEF R
<1>3. PICK x \in S : \A y \in S : ~ (<<y, x>> \in R)
  BY <1>1, WFMin
<1>4. ASSUME NEW y \in S PROVE x <= y
  <2>1. x \in Nat /\ y \in Nat
    OBVIOUS
  <2>2. ~ (y < x)
    BY <1>2, <1>3, <2>1
  <2> QED
    BY <2>1, <2>2
<1> QED
  BY <1>4

LEMMA MinOfNaturals ==
  ASSUME NEW S \in SUBSET Nat, S # {}
  PROVE  Min(S) \in S /\ \A y \in S : Min(S) <= y
  BY LeastElement DEF Min

LEMMA Induction ==
  ASSUME NEW S \in SUBSET Nat, NEW m \in Nat, m \in S,
         \A n \in S : n + 1 \in S
  PROVE  \A n \in Nat : n >= m => n \in S
<1> SUFFICES ASSUME NEW n \in Nat, n >= m, n \notin S
             PROVE  FALSE
  OBVIOUS
<1> DEFINE T == {k \in Nat : k >= m /\ k \notin S}
<1>1. PICK k \in T : \A j \in T : k <= j
  <2>1. T \in SUBSET Nat /\ n \in T
    OBVIOUS
  <2> HIDE DEF T
  <2> QED
    BY <2>1, LeastElement
<1>2. k - 1 \in Nat /\ k - 1 >= m
  BY <1>1
<1>3. k - 1 \notin S
  BY <1>1, <1>2
<1>4. k - 1 \in T
  BY <1>2, <1>3
<1> QED
  BY <1>1, <1>2, <1>4

-----------------------------------------------------------------------------
(* Lists *)

\* The equation that CellsOf solves, and its solution from first on.
Follows(f, N, first, cells) ==
    f = [n \in 1..N |-> IF n = 1 THEN first
                        ELSE IF f[n - 1] = Null THEN Null ELSE cells[f[n - 1]].next]

LEMMA WalkExists ==
  ASSUME NEW first, NEW cells
  PROVE  \A N \in Nat : \E f : Follows(f, N, first, cells)
<1> DEFINE S == {N \in Nat : \E f : Follows(f, N, first, cells)}
<1>1. 0 \in S
  <2>1. Follows(<<>>, 0, first, cells)
    BY DEF Follows
  <2> QED
    BY <2>1
<1>2. ASSUME NEW N \in S PROVE N + 1 \in S
  <2>1. PICK f : Follows(f, N, first, cells)
    OBVIOUS
  <2> DEFINE next == IF N = 0 THEN first
                     ELSE IF f[N] = Null THEN Null ELSE cells[f[N]].next
             g == [n \in 1..(N + 1) |-> IF n = N + 1 THEN next ELSE f[n]]
  <2>2. ASSUME NEW n \in 1..(N + 1)
        PROVE  g[n] = IF n = 1 THEN first
                      ELSE IF g[n - 1] = Null THEN Null ELSE cells[g[n - 1]].next
    <3>1. CASE n = N + 1
      BY <3>1
    <3>2. CASE n # N + 1
      <4>1. n \in 1..N /\ g[n] = f[n] /\ (n # 1 => g[n - 1] = f[n - 1])
        BY <3>2
      <4>2. f[n] = IF n = 1 THEN first
                   ELSE IF f[n - 1] = Null THEN Null ELSE cells[f[n - 1]].next
        BY <2>1, <4>1 DEF Follows
      <4> QED
        BY <4>1, <4>2
    <3> QED
      BY <3>1, <3>2
  <2>3. Follows(g, N + 1, first, cells)
    BY <2>2 DEF Follows
  <2> QED
    BY <2>3
<1> HIDE DEF S
<1>3. \A N \in Nat : N >= 0 => N \in S
  <2>1. S \in SUBSET Nat
    BY DEF S
  <2> QED
    BY <1>1, <1>2, <2>1, Induction
<1> QED
  BY <1>3 DEF S

LEMMA HeapTypes ==
  ASSUME NEW h \in Heap
  PROVE  /\ h.values \in Seq(Value) /\ h.cells \in Seq(Cell) /\ h.blocks \in Nat
         /\ Len(h.values) \in Nat /\ Len(h.cells) \in Nat
         /\ DOMAIN h.values = 1..Len(h.values)
         /\ DOMAIN h.cells = 1..Len(h.cells)
         /\ \A v \in DOMAIN h.values :
              /\ h.values[v] \in Value
              /\ h.values[v].type \in ValueTypes
              /\ h.values[v].head \in Nat /\ h.values[v].tail \in Nat
              /\ h.values[v].count \in Nat
         /\ \A c \in DOMAIN h.cells :
              /\ h.cells[c] \in Cell
              /\ h.cells[c].next \in Nat /\ h.cells[c].value \in Nat
<1>1. h.values \in Seq(Value) /\ h.cells \in Seq(Cell) /\ h.blocks \in Nat
  BY DEF Heap
<1>2. /\ Len(h.values) \in Nat /\ DOMAIN h.values = 1..Len(h.values)
      /\ \A v \in DOMAIN h.values : h.values[v] \in Value
  BY <1>1, LenProperties, ElementOfSeq
<1>3. /\ Len(h.cells) \in Nat /\ DOMAIN h.cells = 1..Len(h.cells)
      /\ \A c \in DOMAIN h.cells : h.cells[c] \in Cell
  BY <1>1, LenProperties, ElementOfSeq
<1> QED
  BY <1>1, <1>2, <1>3 DEF Value, Cell

LEMMA CellsOfFollows ==
  ASSUME NEW h \in Heap, NEW v \in DOMAIN h.values
  PROVE  Follows(CellsOf(h, v), h.values[v].count, h.values[v].head, h.cells)
<1>1. h.values[v].count \in Nat
  BY HeapTypes
<1>2. \E f : Follows(f, h.values[v].count, h.values[v].head, h.cells)
  BY <1>1, WalkExists
<1> QED
  BY <1>2 DEF CellsOf, Follows

\* Two walks agree where the cells they meet have the same successors.
LEMMA WalksAgree ==
  ASSUME NEW f, NEW g, NEW N \in Nat, NEW M \in Nat, N <= M,
         NEW first, NEW start, NEW cells, NEW others,
         Follows(f, N, first, cells), Follows(g, M, start, others),
         N > 0 => start = first,
         \A n \in 1..(N - 1) : f[n] # Null => others[f[n]].next = cells[f[n]].next
  PROVE  \A n \in 1..N : g[n] = f[n]
<1> DEFINE S == {n \in Nat : n <= N => g[n] = f[n]}
<1>1. N > 0 => 1 \in S
  BY DEF Follows
<1>2. ASSUME NEW n \in S, n >= 1 PROVE n + 1 \in S
  <2> SUFFICES ASSUME n + 1 <= N PROVE g[n + 1] = f[n + 1]
    OBVIOUS
  <2>1. n \in 1..(N - 1) /\ n + 1 \in 1..N /\ n + 1 \in 1..M /\ n + 1 # 1 /\ (n + 1) - 1 = n
    BY <1>2
  <2>2. g[n] = f[n]
    BY <2>1
  <2>3. f[n + 1] = IF f[n] = Null THEN Null ELSE cells[f[n]].next
    BY <2>1 DEF Follows
  <2>4. g[n + 1] = IF g[n] = Null THEN Null ELSE others[g[n]].next
    BY <2>1 DEF Follows
  <2> QED
    BY <2>1, <2>2, <2>3, <2>4
<1> HIDE DEF S
<1> DEFINE T == {n \in S : n >= 1}
<1>3. ASSUME N > 0 PROVE \A n \in Nat : n >= 1 => n \in T
  <2>1. T \in SUBSET Nat /\ 1 \in T
    BY <1>1, <1>3 DEF S
  <2>2. ASSUME NEW n \in T PROVE n + 1 \in T
    BY <1>2 DEF S
  <2> HIDE DEF T
  <2> QED
    BY <2>1, <2>2, Induction
<1>4. ASSUME NEW n \in 1..N PROVE g[n] = f[n]
  <2>1. n \in T
    BY <1>3
  <2> QED
    BY <2>1 DEF S
<1> QED
  BY <1>4

\* What the lists of a heap have that ListSound does not say: no index leaves
\* the heap, and no cell is the last of two lists.
IndicesInside(h) ==
    /\ \A v \in DOMAIN h.values :
        h.values[v].head \in 0..Len(h.cells) /\ h.values[v].tail \in 0..Len(h.cells)
    /\ \A c \in DOMAIN h.cells :
        h.cells[c].next \in 0..Len(h.cells) /\ h.cells[c].value \in DOMAIN h.values
TailsDistinct(h) ==
    \A v, w \in DOMAIN h.values :
        v # w /\ h.values[v].tail # Null => h.values[v].tail # h.values[w].tail
ListsInv(h) ==
    /\ h \in Heap
    /\ IndicesInside(h)
    /\ TailsDistinct(h)
    /\ \A v \in DOMAIN h.values : ListSound(h, v)

\* A reader meets cells, never NULL, on its way to the last cell, whose next
\* is NULL; so it meets the last cell of a list only at the end of this list.
LEMMA CellsMet ==
  ASSUME NEW h, ListsInv(h), NEW v \in DOMAIN h.values,
         NEW n \in 1..h.values[v].count
  PROVE  /\ CellsOf(h, v)[n] \in DOMAIN h.cells
         /\ n = h.values[v].count => CellsOf(h, v)[n] = h.values[v].tail
         /\ \A w \in DOMAIN h.values :
              h.values[w].tail # Null /\ CellsOf(h, v)[n] = h.values[w].tail
              => w = v /\ n = h.values[v].count
<1> DEFINE f == CellsOf(h, v)
           N == h.values[v].count
           cells == h.cells
<1>1. h \in Heap /\ N \in Nat
  BY HeapTypes DEF ListsInv
<1>2. Follows(f, N, h.values[v].head, cells)
  BY <1>1, CellsOfFollows
<1>3. h.values[v].tail = f[N] /\ h.values[v].tail # Null
  BY <1>1 DEF ListsInv, ListSound
<1>4. DOMAIN cells = 1..Len(cells) /\ Len(cells) \in Nat
  BY <1>1, HeapTypes
<1>5. h.values[v].head \in 0..Len(cells)
  BY DEF ListsInv, IndicesInside
<1>6. \A c \in DOMAIN cells : cells[c].next \in 0..Len(cells)
  BY DEF ListsInv, IndicesInside
<1>7. \A w \in DOMAIN h.values : h.values[w].tail # Null =>
        h.values[w].tail \in DOMAIN cells /\ cells[h.values[w].tail].next = Null
  <2> SUFFICES ASSUME NEW w \in DOMAIN h.values, h.values[w].tail # Null
               PROVE  h.values[w].tail \in DOMAIN cells /\ cells[h.values[w].tail].next = Null
    OBVIOUS
  <2>1. ListSound(h, w)
    BY DEF ListsInv
  <2>2. cells[h.values[w].tail].next = Null
    BY <2>1 DEF ListSound
  <2>3. h.values[w].tail \in 0..Len(cells)
    BY DEF ListsInv, IndicesInside
  <2> QED
    BY <1>4, <2>2, <2>3 DEF Null
<1>8. \A w \in DOMAIN h.values : w # v /\ h.values[w].tail # Null
        => h.values[w].tail # h.values[v].tail
  BY DEF ListsInv, TailsDistinct
<1> HIDE DEF f, N, cells
<1>9. \A m \in 2..N : f[m] = IF f[m - 1] = Null THEN Null ELSE cells[f[m - 1]].next
  BY <1>1, <1>2 DEF Follows
<1>10. ASSUME NEW m \in 1..N, f[m] = Null PROVE FALSE
  <2> DEFINE S == {k \in Nat : k <= N => f[k] = Null}
  <2>1. S \in SUBSET Nat /\ m \in S /\ m \in Nat /\ N >= m
    BY <1>1, <1>10
  <2>2. ASSUME NEW k \in S, k >= m PROVE k + 1 \in S
    <3> SUFFICES ASSUME k + 1 <= N PROVE f[k + 1] = Null
      OBVIOUS
    <3>1. k + 1 \in 2..N /\ (k + 1) - 1 = k /\ f[k] = Null
      BY <1>1, <2>2
    <3> QED
      BY <1>9, <3>1
  <2> DEFINE T == {k \in S : k >= m}
  <2>3. T \in SUBSET Nat /\ m \in T
    BY <2>1
  <2>4. ASSUME NEW k \in T PROVE k + 1 \in T
    BY <2>2, <1>10
  <2>5. N \in S
    <3>1. \A k \in Nat : k >= m => k \in T
      <4> HIDE DEF T, S
      <4> QED
        BY <2>1, <2>3, <2>4, Induction
    <3> QED
      BY <1>1, <2>1, <3>1
  <2> QED
    BY <1>1, <1>3, <2>5
<1>11. \A m \in 1..N : f[m] \in DOMAIN cells
  <2> DEFINE S == {k \in Nat : k >= 1 /\ (k <= N => f[k] \in DOMAIN cells)}
  <2>1. 1 \in S
    <3>1. 1 <= N => 1 \in 1..N
      BY <1>1
    <3>2. 1 <= N => f[1] = h.values[v].head
      BY <1>2, <3>1 DEF Follows
    <3>3. 1 <= N => f[1] # Null
      BY <1>10, <3>1
    <3> QED
      BY <1>4, <1>5, <3>2, <3>3 DEF Null
  <2>2. ASSUME NEW k \in S PROVE k + 1 \in S
    <3> SUFFICES ASSUME k + 1 <= N PROVE f[k + 1] \in DOMAIN cells
      OBVIOUS
    <3>1. k + 1 \in 2..N /\ k \in 1..N /\ (k + 1) - 1 = k /\ f[k] \in DOMAIN cells
      BY <1>1
    <3>2. f[k] # Null /\ f[k + 1] # Null
      BY <1>1, <1>10, <3>1
    <3>3. f[k + 1] = cells[f[k]].next
      BY <1>9, <3>1, <3>2
    <3> QED
      BY <1>4, <1>6, <3>1, <3>2, <3>3 DEF Null
  <2>3. S \in SUBSET Nat
    OBVIOUS
  <2>4. \A k \in Nat : k >= 1 => k \in S
    <3> HIDE DEF S
    <3> QED
      BY <2>1, <2>2, <2>3, Induction
  <2> QED
    BY <2>4
<1>12. ASSUME NEW w \in DOMAIN h.values, h.values[w].tail # Null,
              f[n] = h.values[w].tail
       PROVE  w = v /\ n = N
  <2>1. n = N
    <3> SUFFICES ASSUME n # N PROVE FALSE
      OBVIOUS
    <3>1. n + 1 \in 2..N /\ (n + 1) - 1 = n /\ n + 1 \in 1..N /\ n \in 1..N
      BY <1>1 DEF N
    <3>2. f[n] # Null /\ f[n + 1] # Null
      BY <1>10, <3>1
    <3>3. f[n + 1] = cells[f[n]].next
      BY <1>9, <3>1, <3>2
    <3> QED
      BY <1>7, <1>12, <3>2, <3>3
  <2> QED
    BY <1>3, <1>8, <1>12, <2>1
<1> QED
  BY <1>3, <1>11, <1>12 DEF f, N, cells

LEMMA SoundMeans ==
  ASSUME NEW h, ListsInv(h), NEW v \in DOMAIN h.values
  PROVE  /\ h.values[v].count = 0 <=> h.values[v].tail = Null
         /\ h.values[v].tail # Null => h.cells[h.values[v].tail].next = Null
<1>1. ListSound(h, v)
  BY DEF ListsInv
<1> QED
  BY <1>1 DEF ListSound

\* A new value is at the end; the lists are what they were.
LEMMA NewValueLists ==
  ASSUME NEW h, ListsInv(h), NEW type \in ValueTypes
  PROVE  LET g == NewValue(h, type)
         IN  /\ ListsInv(g)
             /\ g.cells = h.cells
             /\ Len(g.values) = Len(h.values) + 1
             /\ g.values[Len(g.values)] =
                  [type |-> type, head |-> Null, tail |-> Null, count |-> 0]
             /\ \A v \in DOMAIN h.values :
                  /\ g.values[v] = h.values[v]
                  /\ \A n \in 1..h.values[v].count : CellsOf(g, v)[n] = CellsOf(h, v)[n]
<1> DEFINE g == NewValue(h, type)
           value == [type |-> type, head |-> Null, tail |-> Null, count |-> 0]
           N == Len(h.values)
<1>1. h \in Heap
  BY DEF ListsInv
<1>2. value \in Value
  BY DEF Value, Null
<1>3. /\ g.values = Append(h.values, value) /\ g.cells = h.cells
      /\ g.blocks = h.blocks + ValueBlocks(type)
  BY <1>1 DEF NewValue, Heap
<1>4. /\ h.values \in Seq(Value) /\ h.cells \in Seq(Cell) /\ h.blocks \in Nat
      /\ N \in Nat /\ DOMAIN h.values = 1..N
  BY <1>1, HeapTypes
<1>5. /\ g.values \in Seq(Value) /\ Len(g.values) = N + 1
      /\ \A v \in 1..N : g.values[v] = h.values[v]
      /\ g.values[N + 1] = value
  BY <1>2, <1>3, <1>4, AppendProperties
<1>6. g \in Heap
  <2>1. h.blocks + ValueBlocks(type) \in Nat
    BY <1>4 DEF ValueBlocks
  <2>2. Append(h.values, value) \in Seq(Value)
    BY <1>3, <1>5
  <2> QED
    BY <1>1, <2>1, <2>2 DEF Heap, NewValue
<1>7. DOMAIN g.values = 1..(N + 1)
  BY <1>5, <1>6, HeapTypes
<1> HIDE DEF g
<1>8. ASSUME NEW v \in DOMAIN h.values
      PROVE  \A n \in 1..h.values[v].count : CellsOf(g, v)[n] = CellsOf(h, v)[n]
  <2>1. v \in DOMAIN g.values /\ g.values[v] = h.values[v] /\ h.values[v].count \in Nat
    BY <1>1, <1>4, <1>5, <1>7, HeapTypes
  <2>2. Follows(CellsOf(h, v), h.values[v].count, h.values[v].head, h.cells)
    BY <1>1, CellsOfFollows
  <2>3. Follows(CellsOf(g, v), h.values[v].count, h.values[v].head, h.cells)
    BY <1>3, <1>6, <2>1, CellsOfFollows
  <2> QED
    BY <2>1, <2>2, <2>3, WalksAgree
<1>9. ASSUME NEW v \in DOMAIN g.values
      PROVE  /\ ListSound(g, v)
             /\ g.values[v].head \in 0..Len(g.cells)
             /\ g.values[v].tail \in 0..Len(g.cells)
  <2>1. CASE v = N + 1
    BY <1>1, <1>3, <1>5, <2>1, HeapTypes DEF ListSound, Null
  <2>2. CASE v # N + 1
    <3>1. v \in DOMAIN h.values /\ g.values[v] = h.values[v]
      BY <1>4, <1>5, <1>7, <2>2
    <3>2. ListSound(h, v) /\ h.values[v].count \in Nat
      BY <1>1, <3>1, HeapTypes DEF ListsInv
    <3>3. h.values[v].count # 0 =>
            CellsOf(g, v)[h.values[v].count] = CellsOf(h, v)[h.values[v].count]
      BY <1>8, <3>1, <3>2
    <3> QED
      BY <1>3, <3>1, <3>2, <3>3 DEF ListSound, ListsInv, IndicesInside
  <2> QED
    BY <2>1, <2>2
<1>10. IndicesInside(g)
  <2>1. \A c \in DOMAIN g.cells :
          g.cells[c].next \in 0..Len(g.cells) /\ g.cells[c].value \in DOMAIN g.values
    BY <1>3, <1>4, <1>7 DEF ListsInv, IndicesInside
  <2> QED
    BY <1>9, <2>1 DEF IndicesInside
<1>11. TailsDistinct(g)
  <2> SUFFICES ASSUME NEW v \in DOMAIN g.values, NEW w \in DOMAIN g.values,
                      v # w, g.values[v].tail # Null
               PROVE  g.values[v].tail # g.values[w].tail
    BY DEF TailsDistinct
  <2>1. v \in DOMAIN h.values /\ g.values[v] = h.values[v]
    BY <1>4, <1>5, <1>7
  <2>2. CASE w = N + 1
    BY <1>5, <2>2
  <2>3. CASE w # N + 1
    <3>1. w \in DOMAIN h.values /\ g.values[w] = h.values[w]
      BY <1>4, <1>5, <1>7, <2>3
    <3> QED
      BY <2>1, <3>1 DEF ListsInv, TailsDistinct
  <2> QED
    BY <2>2, <2>3
<1>12. ListsInv(g)
  BY <1>6, <1>9, <1>10, <1>11 DEF ListsInv
<1> QED
  BY <1>3, <1>4, <1>5, <1>8, <1>12 DEF g

\* The heap g after an append to h, field by field.
Appended(g, h, s, key, value) ==
    LET new == Len(h.cells) + 1
        old == h.values[s].tail
    IN  /\ g \in Heap
        /\ g.blocks = h.blocks + CellBlocks(h.values[s].type)
        /\ Len(g.values) = Len(h.values) /\ Len(g.cells) = new
        /\ \A v \in DOMAIN h.values :
             /\ g.values[v].type = h.values[v].type
             /\ v # s => g.values[v] = h.values[v]
        /\ g.values[s].head = IF old = Null THEN new ELSE h.values[s].head
        /\ g.values[s].tail = new
        /\ g.values[s].count = h.values[s].count + 1
        /\ g.cells[new] = [next |-> Null, key |-> key, value |-> value]
        /\ \A c \in DOMAIN h.cells :
             /\ g.cells[c].key = h.cells[c].key
             /\ g.cells[c].value = h.cells[c].value
             /\ g.cells[c].next =
                  IF old # Null /\ c = old THEN new ELSE h.cells[c].next

LEMMA AppendFields ==
  ASSUME NEW h \in Heap, NEW s \in DOMAIN h.values,
         NEW key \in Keys \cup {NoKey}, NEW value \in Nat,
         h.values[s].tail \in 0..Len(h.cells)
  PROVE  Appended(AppendValue(h, s, key, value), h, s, key, value)
<1> DEFINE list == h.values[s]
           new == Len(h.cells) + 1
           last == [next |-> Null, key |-> key, value |-> value]
           cells == Append(h.cells, last)
           longer == [list EXCEPT !.head = IF list.tail = Null THEN new ELSE @,
                                  !.tail = new, !.count = @ + 1]
           moved == [cells EXCEPT ![list.tail].next = new]
           g == AppendValue(h, s, key, value)
<1>1. /\ h.values \in Seq(Value) /\ h.cells \in Seq(Cell) /\ h.blocks \in Nat
      /\ Len(h.cells) \in Nat /\ DOMAIN h.cells = 1..Len(h.cells)
      /\ s \in 1..Len(h.values) /\ DOMAIN h.values = 1..Len(h.values)
      /\ list \in Value
      /\ list.head \in Nat /\ list.tail \in Nat /\ list.count \in Nat
  BY HeapTypes
<1>2. g = [values |-> [h.values EXCEPT ![s] = longer],
           cells  |-> IF list.tail = Null THEN cells ELSE moved,
           blocks |-> h.blocks + CellBlocks(list.type)]
  BY DEF AppendValue, TailAfter
<1>3. last \in Cell /\ new \in Nat
  BY <1>1 DEF Cell, Null
<1>4. /\ longer \in Value
      /\ longer.type = list.type /\ longer.tail = new /\ longer.count = list.count + 1
      /\ longer.head = IF list.tail = Null THEN new ELSE list.head
  <2> DEFINE head == IF list.tail = Null THEN new ELSE list.head
             count == list.count + 1
  <2>1. longer = [list EXCEPT !.head = head, !.tail = new, !.count = count]
    OBVIOUS
  <2>2. list \in Value /\ new \in Nat
    BY <1>1, <1>3
  <2>3. head \in Nat /\ count \in Nat
    BY <1>1, <2>2
  <2> HIDE DEF head, count, list, new, longer
  <2>4. /\ longer \in Value
        /\ longer.type = list.type /\ longer.tail = new /\ longer.count = count
        /\ longer.head = head
    BY <2>1, <2>2, <2>3 DEF Value
  <2> QED
    BY <2>4 DEF head, count
<1>5. /\ cells \in Seq(Cell) /\ Len(cells) = new /\ cells[new] = last
      /\ \A c \in DOMAIN h.cells : cells[c] = h.cells[c]
  BY <1>1, <1>3, AppendProperties
<1>6. ASSUME list.tail # Null
      PROVE  /\ moved \in Seq(Cell) /\ Len(moved) = new /\ moved[new] = last
             /\ \A c \in DOMAIN h.cells :
                  /\ moved[c].key = h.cells[c].key /\ moved[c].value = h.cells[c].value
                  /\ moved[c].next = IF c = list.tail THEN new ELSE h.cells[c].next
  <2> DEFINE cell == [cells[list.tail] EXCEPT !.next = new]
  <2>1. list.tail \in 1..Len(h.cells) /\ list.tail \in 1..Len(cells) /\ list.tail # new
    BY <1>1, <1>5, <1>6 DEF Null
  <2>2. cells[list.tail] = h.cells[list.tail] /\ cells[list.tail] \in Cell
    BY <1>1, <1>5, <2>1, ElementOfSeq
  <2>3. /\ cell \in Cell /\ cell.next = new
        /\ cell.key = h.cells[list.tail].key /\ cell.value = h.cells[list.tail].value
    BY <1>3, <2>2 DEF Cell
  <2>4. moved = [cells EXCEPT ![list.tail] = cell]
    OBVIOUS
  <2> HIDE DEF cell, moved, cells, last, new, list
  <2>5. /\ moved \in Seq(Cell) /\ Len(moved) = Len(cells)
        /\ \A j \in 1..Len(cells) : moved[j] = IF j = list.tail THEN cell ELSE cells[j]
    BY <1>5, <2>1, <2>3, <2>4, ExceptSeq
  <2>6. new \in 1..Len(cells) /\ \A c \in DOMAIN h.cells : c \in 1..Len(cells)
    BY <1>1, <1>5 DEF new
  <2> QED
    BY <1>5, <2>1, <2>3, <2>5, <2>6
<1>7. /\ [h.values EXCEPT ![s] = longer] \in Seq(Value)
      /\ Len([h.values EXCEPT ![s] = longer]) = Len(h.values)
      /\ \A v \in 1..Len(h.values) :
           [h.values EXCEPT ![s] = longer][v] = IF v = s THEN longer ELSE h.values[v]
  BY <1>1, <1>4, ExceptSeq
<1>8. h.blocks + CellBlocks(list.type) \in Nat
  BY <1>1 DEF CellBlocks
<1> HIDE DEF longer, cells, moved, list, new, last, g
<1>9. /\ g.values = [h.values EXCEPT ![s] = longer]
      /\ g.cells = IF list.tail = Null THEN cells ELSE moved
      /\ g.blocks = h.blocks + CellBlocks(list.type)
  BY <1>2
<1>10. g.cells \in Seq(Cell) /\ Len(g.cells) = new /\ g.cells[new] = last
  BY <1>5, <1>6, <1>9
<1>11. g \in Heap
  BY <1>2, <1>7, <1>8, <1>9, <1>10 DEF Heap
<1>12. \A c \in DOMAIN h.cells :
         /\ g.cells[c].key = h.cells[c].key
         /\ g.cells[c].value = h.cells[c].value
         /\ g.cells[c].next =
              IF list.tail # Null /\ c = list.tail THEN new ELSE h.cells[c].next
  BY <1>5, <1>6, <1>9
<1>13. \A v \in DOMAIN h.values : g.values[v] = IF v = s THEN longer ELSE h.values[v]
  BY <1>1, <1>7, <1>9
<1>14. Len(g.values) = Len(h.values)
  BY <1>7, <1>9
<1>15. Appended(g, h, s, key, value)
  BY <1>1, <1>4, <1>9, <1>10, <1>11, <1>12, <1>13, <1>14 DEF Appended, list, new, last
<1> QED
  BY <1>15 DEF g

\* The new cell is at the end of its list, and every other list is as it was.
ListsGrown(g, h, s) ==
    /\ ListsInv(g)
    /\ \A v \in DOMAIN h.values : \A n \in 1..h.values[v].count :
         CellsOf(g, v)[n] = CellsOf(h, v)[n]
    /\ CellsOf(g, s)[g.values[s].count] = Len(g.cells)

LEMMA AppendLists ==
  ASSUME NEW h, ListsInv(h), NEW s \in DOMAIN h.values,
         NEW key \in Keys \cup {NoKey}, NEW value \in DOMAIN h.values
  PROVE  ListsGrown(AppendValue(h, s, key, value), h, s)
<1> DEFINE g == AppendValue(h, s, key, value)
           new == Len(h.cells) + 1
           old == h.values[s].tail
<1>1. h \in Heap /\ old \in 0..Len(h.cells) /\ ListSound(h, s)
  BY DEF ListsInv, IndicesInside
<1>2. /\ h.values \in Seq(Value) /\ h.cells \in Seq(Cell)
      /\ Len(h.values) \in Nat /\ Len(h.cells) \in Nat
      /\ DOMAIN h.values = 1..Len(h.values) /\ DOMAIN h.cells = 1..Len(h.cells)
      /\ \A v \in DOMAIN h.values : h.values[v].count \in Nat
      /\ value \in Nat
  BY <1>1, HeapTypes
<1>a. Appended(g, h, s, key, value)
  BY <1>1, <1>2, AppendFields
<1> HIDE DEF g
<1>3. /\ g \in Heap
      /\ Len(g.values) = Len(h.values) /\ Len(g.cells) = new
      /\ \A v \in DOMAIN h.values : v # s => g.values[v] = h.values[v]
      /\ g.values[s].head = IF old = Null THEN new ELSE h.values[s].head
      /\ g.values[s].tail = new
      /\ g.values[s].count = h.values[s].count + 1
      /\ g.cells[new] = [next |-> Null, key |-> key, value |-> value]
      /\ \A c \in DOMAIN h.cells :
           /\ g.cells[c].value = h.cells[c].value
           /\ g.cells[c].next = IF old # Null /\ c = old THEN new ELSE h.cells[c].next
  BY <1>a DEF Appended
<1> HIDE DEF new, old
<1>4. /\ DOMAIN g.values = DOMAIN h.values /\ DOMAIN g.cells = 1..new
      /\ \A c \in DOMAIN h.cells : c \in DOMAIN g.cells /\ c # new
      /\ new \in 1..new /\ new # Null /\ new \in 0..new
      /\ \A x \in 0..Len(h.cells) : x \in 0..new
      /\ \A c \in 1..new : c = new \/ c \in DOMAIN h.cells
  BY <1>2, <1>3, HeapTypes DEF new, Null
<1>5. ASSUME NEW v \in DOMAIN h.values
      PROVE  \A n \in 1..h.values[v].count : CellsOf(g, v)[n] = CellsOf(h, v)[n]
  <2> DEFINE N == h.values[v].count
             M == g.values[v].count
  <2>1. N \in Nat /\ M \in Nat /\ N <= M
    <3>1. N \in Nat /\ (v # s => M = N) /\ (v = s => M = N + 1)
      BY <1>2, <1>3
    <3> HIDE DEF N, M
    <3> QED
      BY <3>1
  <2>2. Follows(CellsOf(h, v), N, h.values[v].head, h.cells)
    BY <1>1, CellsOfFollows
  <2>3. Follows(CellsOf(g, v), M, g.values[v].head, g.cells)
    BY <1>3, <1>4, CellsOfFollows
  <2>4. N > 0 => g.values[v].head = h.values[v].head
    <3>1. CASE v = s
      <4>1. N # 0 => old # Null
        BY <3>1, SoundMeans DEF old
      <4> QED
        BY <1>3, <2>1, <3>1, <4>1
    <3>2. CASE v # s
      BY <1>3, <3>2
    <3> QED
      BY <3>1, <3>2
  <2>5. ASSUME NEW n \in 1..(N - 1)
        PROVE  g.cells[CellsOf(h, v)[n]].next = h.cells[CellsOf(h, v)[n]].next
    <3>1. n \in 1..N /\ n # N
      BY <2>1
    <3>2. CellsOf(h, v)[n] \in DOMAIN h.cells
      BY <3>1, CellsMet
    <3>3. old # Null => CellsOf(h, v)[n] # old
      BY <3>1, CellsMet DEF old
    <3> QED
      BY <1>3, <3>2, <3>3
  <2> DEFINE f == CellsOf(h, v)
             k == CellsOf(g, v)
             first == h.values[v].head
             start == g.values[v].head
             cells == h.cells
             others == g.cells
  <2>6. /\ Follows(f, N, first, cells) /\ Follows(k, M, start, others)
        /\ N > 0 => start = first
        /\ \A n \in 1..(N - 1) : f[n] # Null => others[f[n]].next = cells[f[n]].next
    BY <2>2, <2>3, <2>4, <2>5
  <2> HIDE DEF N, M, f, k, first, start, cells, others
  <2>7. \A n \in 1..N : k[n] = f[n]
    BY <2>1, <2>6, WalksAgree
  <2> QED
    BY <2>7 DEF N, f, k
<1>6. CellsOf(g, s)[h.values[s].count + 1] = new
  <2> DEFINE N == h.values[s].count
             f == CellsOf(g, s)
  <2>1. N \in Nat /\ N + 1 \in 1..(N + 1)
    BY <1>2
  <2>2. Follows(f, N + 1, g.values[s].head, g.cells)
    BY <1>3, <1>4, CellsOfFollows
  <2>3. f[N + 1] = IF N + 1 = 1 THEN g.values[s].head
                   ELSE IF f[(N + 1) - 1] = Null THEN Null
                        ELSE g.cells[f[(N + 1) - 1]].next
    <3> HIDE DEF N, f
    <3> QED
      BY <2>1, <2>2 DEF Follows
  <2>4. CASE N = 0
    <3>1. old = Null
      BY <2>4, SoundMeans DEF old
    <3> QED
      BY <1>3, <2>1, <2>3, <2>4, <3>1
  <2>5. CASE N # 0
    <3>1. N \in 1..N /\ old # Null
      BY <2>1, <2>5, SoundMeans DEF old
    <3>2. CellsOf(h, s)[N] = old /\ old \in DOMAIN h.cells
      BY <3>1, CellsMet DEF old
    <3>3. f[N] = old
      BY <1>5, <3>1, <3>2
    <3> HIDE DEF N, f
    <3>4. f[N + 1] = g.cells[f[N]].next
      BY <2>1, <2>3, <2>5, <3>1, <3>3
    <3> QED
      BY <1>3, <3>1, <3>2, <3>3, <3>4 DEF N, f
  <2> QED
    BY <2>4, <2>5
<1>7. ASSUME NEW v \in DOMAIN g.values
      PROVE  ListSound(g, v)
  <2>1. CASE v = s
    <3>1. g.values[v].count # 0 /\ CellsOf(g, v)[g.values[v].count] = new
      BY <1>2, <1>3, <1>6, <2>1
    <3>2. g.cells[new].next = Null
      BY <1>3
    <3> QED
      BY <1>3, <1>4, <2>1, <3>1, <3>2 DEF ListSound
  <2>2. CASE v # s
    <3>1. v \in DOMAIN h.values /\ g.values[v] = h.values[v] /\ ListSound(h, v)
      BY <1>3, <1>4, <2>2 DEF ListsInv
    <3>2. h.values[v].count # 0 =>
            CellsOf(g, v)[h.values[v].count] = CellsOf(h, v)[h.values[v].count]
      BY <1>2, <1>5, <3>1
    <3>3. ASSUME h.values[v].tail # Null
          PROVE  g.cells[h.values[v].tail].next = h.cells[h.values[v].tail].next
      <4>1. h.values[v].tail \in DOMAIN h.cells
        BY <1>2, <3>1, <3>3 DEF ListsInv, IndicesInside, Null
      <4>2. h.values[v].tail # old
        BY <2>2, <3>1, <3>3 DEF ListsInv, TailsDistinct, old
      <4> QED
        BY <1>3, <4>1, <4>2
    <3> QED
      BY <3>1, <3>2, <3>3 DEF ListSound
  <2> QED
    BY <2>1, <2>2
<1>8. IndicesInside(g)
  <2>1. ASSUME NEW v \in DOMAIN g.values
        PROVE  g.values[v].head \in 0..new /\ g.values[v].tail \in 0..new
    <3>1. h.values[v].head \in 0..Len(h.cells) /\ h.values[v].tail \in 0..Len(h.cells)
      BY <1>4 DEF ListsInv, IndicesInside
    <3>2. CASE v = s
      BY <1>3, <1>4, <3>1, <3>2
    <3>3. CASE v # s
      BY <1>3, <1>4, <3>1, <3>3
    <3> QED
      BY <3>2, <3>3
  <2>2. ASSUME NEW c \in DOMAIN g.cells
        PROVE  g.cells[c].next \in 0..new /\ g.cells[c].value \in DOMAIN g.values
    <3>1. CASE c = new
      BY <1>3, <1>4, <3>1 DEF Null
    <3>2. CASE c # new
      <4>1. c \in DOMAIN h.cells
        BY <1>4, <3>2
      <4>2. h.cells[c].next \in 0..Len(h.cells) /\ h.cells[c].value \in DOMAIN h.values
        BY <4>1 DEF ListsInv, IndicesInside
      <4> QED
        BY <1>3, <1>4, <4>1, <4>2
    <3> QED
      BY <3>1, <3>2
  <2> QED
    BY <1>3, <2>1, <2>2 DEF IndicesInside
<1>9. TailsDistinct(g)
  <2> SUFFICES ASSUME NEW v \in DOMAIN g.values, NEW w \in DOMAIN g.values,
                      v # w, g.values[v].tail # Null
               PROVE  g.values[v].tail # g.values[w].tail
    BY DEF TailsDistinct
  <2>1. v \in DOMAIN h.values /\ w \in DOMAIN h.values
    BY <1>4
  <2>2. h.values[v].tail # new /\ h.values[w].tail # new
    BY <1>2, <2>1 DEF ListsInv, IndicesInside, new
  <2>3. h.values[v].tail # Null => h.values[v].tail # h.values[w].tail
    BY <2>1 DEF ListsInv, TailsDistinct
  <2>4. CASE v = s
    BY <1>3, <2>1, <2>2, <2>4
  <2>5. CASE v # s
    BY <1>3, <2>1, <2>2, <2>3, <2>5
  <2> QED
    BY <2>4, <2>5
<1>10. ListsInv(g)
  BY <1>3, <1>7, <1>8, <1>9 DEF ListsInv
<1>11. CellsOf(g, s)[g.values[s].count] = Len(g.cells)
  BY <1>3, <1>6
<1> QED
  BY <1>5, <1>10, <1>11 DEF g, ListsGrown

-----------------------------------------------------------------------------
(* Blocks *)

Strings(h) == {v \in DOMAIN h.values : h.values[v].type = "string"}
Members(h) == {c \in DOMAIN h.cells : h.cells[c].key # NoKey}

LEMMA BlocksFinite ==
  ASSUME NEW h \in Heap
  PROVE  /\ IsFiniteSet(Strings(h)) /\ Cardinality(Strings(h)) \in Nat
         /\ IsFiniteSet(Members(h)) /\ Cardinality(Members(h)) \in Nat
         /\ BlocksNeeded(h) = Len(h.values) + Cardinality(Strings(h))
                                + Len(h.cells) + Cardinality(Members(h))
<1>1. /\ IsFiniteSet(DOMAIN h.values) /\ Strings(h) \in SUBSET DOMAIN h.values
      /\ IsFiniteSet(DOMAIN h.cells) /\ Members(h) \in SUBSET DOMAIN h.cells
  <2>1. /\ DOMAIN h.values = 1..Len(h.values) /\ Len(h.values) \in Int
        /\ DOMAIN h.cells = 1..Len(h.cells) /\ Len(h.cells) \in Int
    BY HeapTypes
  <2>2. IsFiniteSet(1..Len(h.values)) /\ IsFiniteSet(1..Len(h.cells))
    BY <2>1, FS_Interval
  <2> QED
    BY <2>1, <2>2 DEF Strings, Members
<1>2. IsFiniteSet(Strings(h)) /\ IsFiniteSet(Members(h))
  BY <1>1, FS_Subset
<1> QED
  BY <1>2, FS_CardinalityType DEF BlocksNeeded, Strings, Members

\* A set that has got the element x, or not.
LEMMA CountOneMore ==
  ASSUME NEW S, IsFiniteSet(S), NEW T, NEW x, x \notin S,
         NEW more \in {0, 1},
         more = 0 => T = S,
         more = 1 => T = S \cup {x}
  PROVE  Cardinality(T) = Cardinality(S) + more
<1>1. Cardinality(S) \in Nat
  BY FS_CardinalityType
<1>2. Cardinality(S \cup {x}) = Cardinality(S) + 1
  BY FS_AddElement
<1>3. CASE more = 0
  <2>1. Cardinality(T) = Cardinality(S)
    BY <1>3
  <2> QED
    BY <1>1, <1>3, <2>1
<1>4. CASE more = 1
  <2>1. Cardinality(T) = Cardinality(S \cup {x})
    BY <1>4
  <2> QED
    BY <1>2, <1>4, <2>1
<1> QED
  BY <1>3, <1>4

LEMMA NewValueBlocks ==
  ASSUME NEW h, ListsInv(h), h.blocks = BlocksNeeded(h), NEW type \in ValueTypes
  PROVE  LET g == NewValue(h, type) IN g.blocks = BlocksNeeded(g)
<1> DEFINE g == NewValue(h, type)
           N == Len(h.values)
<1>1. /\ h \in Heap /\ g \in Heap /\ N \in Nat /\ DOMAIN h.values = 1..N
      /\ Len(h.cells) \in Nat
  BY NewValueLists, HeapTypes DEF ListsInv
<1>2. g.blocks = h.blocks + ValueBlocks(type)
  BY <1>1 DEF NewValue, Heap
<1>3. /\ Len(g.values) = N + 1 /\ g.values[N + 1].type = type
      /\ g.cells = h.cells
      /\ \A v \in 1..N : g.values[v] = h.values[v]
  <2>1. /\ Len(g.values) = N + 1 /\ g.cells = h.cells
        /\ g.values[Len(g.values)] =
             [type |-> type, head |-> Null, tail |-> Null, count |-> 0]
        /\ \A v \in DOMAIN h.values : g.values[v] = h.values[v]
    BY NewValueLists
  <2> HIDE DEF g
  <2> QED
    BY <1>1, <2>1
<1> HIDE DEF g
<1>4. DOMAIN g.values = 1..(N + 1) /\ N + 1 \notin Strings(h)
  BY <1>1, <1>3, HeapTypes DEF Strings
<1>5. /\ type = "string" => Strings(g) = Strings(h) \cup {N + 1}
      /\ type # "string" => Strings(g) = Strings(h)
  <2>1. \A v \in 1..(N + 1) : v \in 1..N \/ v = N + 1
    BY <1>1
  <2>2. \A v \in 1..N : v \in 1..(N + 1)
    BY <1>1
  <2> QED
    BY <1>1, <1>3, <1>4, <2>1, <2>2 DEF Strings
<1> DEFINE more == IF type = "string" THEN 1 ELSE 0
<1>6. Cardinality(Strings(g)) = Cardinality(Strings(h)) + more
  <2>1. IsFiniteSet(Strings(h))
    BY <1>1, BlocksFinite
  <2>2. /\ more \in {0, 1}
        /\ more = 0 => Strings(g) = Strings(h)
        /\ more = 1 => Strings(g) = Strings(h) \cup {N + 1}
    BY <1>5
  <2> HIDE DEF more
  <2> QED
    BY <1>4, <2>1, <2>2, CountOneMore
<1>7. Members(g) = Members(h)
  BY <1>3 DEF Members
<1>8. g.blocks = BlocksNeeded(g)
  <2>1. /\ BlocksNeeded(h) = N + Cardinality(Strings(h))
                               + Len(h.cells) + Cardinality(Members(h))
        /\ Cardinality(Strings(h)) \in Nat /\ Cardinality(Members(h)) \in Nat
    BY <1>1, BlocksFinite
  <2>2. BlocksNeeded(g) = (N + 1) + (Cardinality(Strings(h)) + more)
                            + Len(h.cells) + Cardinality(Members(h))
    BY <1>1, <1>3, <1>6, <1>7, BlocksFinite
  <2>3. g.blocks = h.blocks + (1 + more) /\ more \in Nat
    BY <1>2 DEF ValueBlocks
  <2> DEFINE strings == Cardinality(Strings(h))
             members == Cardinality(Members(h))
             cells == Len(h.cells)
  <2>4. /\ h.blocks = N + strings + cells + members
        /\ BlocksNeeded(g) = (N + 1) + (strings + more) + cells + members
        /\ strings \in Nat /\ members \in Nat /\ cells \in Nat /\ N \in Nat
    BY <1>1, <2>1, <2>2
  <2> HIDE DEF more, strings, members, cells, N
  <2> QED
    BY <2>3, <2>4
<1> QED
  BY <1>8 DEF g

LEMMA AppendBlocks ==
  ASSUME NEW h, ListsInv(h), h.blocks = BlocksNeeded(h),
         NEW s \in DOMAIN h.values, NEW value \in DOMAIN h.values,
         NEW key \in Keys \cup {NoKey},
         h.values[s].type = "object" <=> key # NoKey
  PROVE  LET g == AppendValue(h, s, key, value) IN g.blocks = BlocksNeeded(g)
<1> DEFINE g == AppendValue(h, s, key, value)
           N == Len(h.cells)
<1>1. /\ h \in Heap /\ N \in Nat /\ DOMAIN h.cells = 1..N
      /\ Len(h.values) \in Nat /\ value \in Nat /\ h.values[s].tail \in 0..N
  BY HeapTypes DEF ListsInv, IndicesInside
<1>2. Appended(g, h, s, key, value)
  BY <1>1, AppendFields
<1> HIDE DEF g
<1>3. /\ g \in Heap /\ g.blocks = h.blocks + CellBlocks(h.values[s].type)
      /\ Len(g.values) = Len(h.values) /\ Len(g.cells) = N + 1
      /\ \A v \in DOMAIN h.values : g.values[v].type = h.values[v].type
      /\ g.cells[N + 1].key = key
      /\ \A c \in DOMAIN h.cells : g.cells[c].key = h.cells[c].key
  BY <1>2 DEF Appended
<1>4. DOMAIN g.cells = 1..(N + 1) /\ DOMAIN g.values = DOMAIN h.values
      /\ N + 1 \notin Members(h)
  BY <1>1, <1>3, HeapTypes DEF Members
<1>5. /\ key # NoKey => Members(g) = Members(h) \cup {N + 1}
      /\ key = NoKey => Members(g) = Members(h)
  <2>1. \A c \in 1..(N + 1) : c \in 1..N \/ c = N + 1
    BY <1>1
  <2>2. \A c \in 1..N : c \in 1..(N + 1)
    BY <1>1
  <2>3. ASSUME NEW c
        PROVE  c \in Members(g) <=> c \in Members(h) \/ (c = N + 1 /\ key # NoKey)
    <3>1. CASE c = N + 1
      BY <1>1, <1>3, <1>4, <3>1 DEF Members
    <3>2. CASE c # N + 1
      BY <1>1, <1>3, <1>4, <2>1, <2>2, <3>2 DEF Members
    <3> QED
      BY <3>1, <3>2
  <2> QED
    BY <2>3
<1> DEFINE more == IF key # NoKey THEN 1 ELSE 0
<1>6. Cardinality(Members(g)) = Cardinality(Members(h)) + more
  <2>1. IsFiniteSet(Members(h))
    BY <1>1, BlocksFinite
  <2>2. /\ more \in {0, 1}
        /\ more = 0 => Members(g) = Members(h)
        /\ more = 1 => Members(g) = Members(h) \cup {N + 1}
    BY <1>5
  <2> HIDE DEF more
  <2> QED
    BY <1>4, <2>1, <2>2, CountOneMore
<1>7. Strings(g) = Strings(h)
  BY <1>3, <1>4 DEF Strings
<1>8. g.blocks = BlocksNeeded(g)
  <2>1. /\ BlocksNeeded(h) = Len(h.values) + Cardinality(Strings(h))
                               + N + Cardinality(Members(h))
        /\ Cardinality(Strings(h)) \in Nat /\ Cardinality(Members(h)) \in Nat
    BY <1>1, BlocksFinite
  <2>2. BlocksNeeded(g) = Len(h.values) + Cardinality(Strings(h))
                            + (N + 1) + (Cardinality(Members(h)) + more)
    BY <1>1, <1>3, <1>6, <1>7, BlocksFinite
  <2>3. g.blocks = h.blocks + (1 + more) /\ more \in Nat
    BY <1>3 DEF CellBlocks
  <2> DEFINE strings == Cardinality(Strings(h))
             members == Cardinality(Members(h))
             values == Len(h.values)
  <2>4. /\ h.blocks = values + strings + N + members
        /\ BlocksNeeded(g) = values + strings + (N + 1) + (members + more)
        /\ strings \in Nat /\ members \in Nat /\ values \in Nat /\ N \in Nat
    BY <1>1, <2>1, <2>2
  <2> HIDE DEF more, strings, members, values, N
  <2> QED
    BY <2>3, <2>4
<1> QED
  BY <1>8 DEF g

Constructors == {<<{}>>, <<{}, {1}>>}

LEMMA TheConstructors ==
  \A type : NewValueOf(type) \in Constructors /\ AppendTo(type) \in Constructors
  BY DEF NewValueOf, AppendTo, Constructors

\* The code leaves nothing behind, whichever block is refused; the pool does on
\* some versions of Lua.
LEMMA NothingLeft ==
  ASSUME NEW c \in Constructors, NEW f \in FailuresOf(c)
  PROVE  /\ f.left = 0 /\ f.stuck \in Nat /\ f.raised \in BOOLEAN
         /\ f.stuck # 0 => NilKeyAllocates \/ CallsRaise
         /\ f.raised => CallsRaise
<1>1. PICK n \in DOMAIN c : f \in Refusals(c, n)
  BY DEF FailuresOf
<1>2. n \in Nat /\ c[n] = 1..(n - 1)
  <2>1. 1..(1 - 1) = {} /\ 1..(2 - 1) = {1}
    OBVIOUS
  <2>2. CASE c = <<{}>>
    <3>1. DOMAIN c = 1..1 /\ c[1] = {}
      BY <2>2
    <3> QED
      BY <2>1, <3>1
  <2>3. CASE c = <<{}, {1}>>
    <3>1. DOMAIN c = 1..2 /\ c[1] = {} /\ c[2] = {1}
      BY <2>3
    <3>2. n = 1 \/ n = 2
      BY <3>1
    <3>3. CASE n = 1
      BY <2>1, <3>1, <3>3
    <3>4. CASE n = 2
      BY <2>1, <3>1, <3>4
    <3> QED
      BY <3>2, <3>3, <3>4
  <2> QED
    BY <2>2, <2>3 DEF Constructors
<1>3. (1..(n - 1)) \ c[n] = {} /\ IsFiniteSet(c[n])
  BY <1>2, FS_Interval
<1>4. Cardinality({}) = 0
  BY FS_EmptySet
<1> DEFINE Kept == IF NilKeyAllocates THEN {0, 1} ELSE {0}
           Freed == IF CallsRaise THEN SUBSET c[n] ELSE {c[n]}
           Raised == IF CallsRaise THEN BOOLEAN ELSE {FALSE}
           F(k, d, r) == [left |-> Cardinality((1..(n - 1)) \ c[n]),
                          stuck |-> k + Cardinality(c[n] \ d), raised |-> r]
<1>5. Refusals(c, n) = {F(kept, freed, raised) : kept \in Kept, freed \in Freed,
                                                raised \in Raised}
  BY DEF Refusals
<1> HIDE DEF F, Kept, Freed, Raised
<1>6. PICK kept \in Kept, freed \in Freed, raised \in Raised : f = F(kept, freed, raised)
  BY <1>1, <1>5
<1>7. /\ f.left = Cardinality((1..(n - 1)) \ c[n])
      /\ f.stuck = kept + Cardinality(c[n] \ freed) /\ f.raised = raised
  BY <1>6 DEF F
<1>8. Cardinality(c[n] \ freed) \in Nat
  <2>1. IsFiniteSet(c[n] \ freed)
    BY <1>3, FS_Subset
  <2> QED
    BY <2>1, FS_CardinalityType
<1>9. ~CallsRaise => Cardinality(c[n] \ freed) = 0
  <2> SUFFICES ASSUME ~CallsRaise PROVE c[n] \ freed = {}
    BY <1>4
  <2> QED
    BY DEF Freed
<1>10. kept \in Nat /\ (~NilKeyAllocates => kept = 0)
  BY DEF Kept
<1>11. f.left = 0
  BY <1>3, <1>4, <1>7
<1>12. raised \in BOOLEAN /\ (raised => CallsRaise)
  BY DEF Raised
<1> QED
  BY <1>7, <1>8, <1>9, <1>10, <1>11, <1>12

\* A constructor that fails leaves the heap as it was.
LEMMA Unbuilt ==
  ASSUME NEW h \in Heap, NEW c \in Constructors, BuildFails(h, c)
  PROVE  heap' = h
<1>1. PICK f \in FailuresOf(c) : heap' = [h EXCEPT !.blocks = h.blocks + f.left]
  BY DEF BuildFails
<1>2. f.left = 0
  BY NothingLeft
<1>3. h.blocks + f.left = h.blocks
  BY <1>2, HeapTypes
<1> QED
  BY <1>1, <1>3 DEF Heap

\* It returns, or an error of Lua's leaves the parse.
Stopped ==
    \/ FailMemory("free")
    \/ pc' = "raised" /\ UNCHANGED <<status, errno, reason>>

LEMMA Unbuilding ==
  ASSUME NEW h, NEW c, BuildFails(h, c)
  PROVE  Stopped
  BY DEF BuildFails, Stopped

\* The two steps of the copy that construct.
LEMMA Constructing ==
  ASSUME CopyRoot \/ VisitChild
  PROVE  /\ pc \in {"root", "loop"} /\ UNCHANGED cause
         /\ \/ /\ pc' \in {"push", "loop"} /\ UNCHANGED <<stuck, status, reason>>
               /\ MayTouchErrno
            \/ Stopped
<1>1. CASE CopyRoot
  BY <1>1, Unbuilding DEF CopyRoot
<1>2. CASE VisitChild
  BY <1>2, Unbuilding DEF VisitChild, CopyChild, CopyChildFails
<1> QED
  BY <1>1, <1>2

-----------------------------------------------------------------------------
(* The path from the root to the node at hand *)

\* The first m nodes of d are copied, fs is the stack, and open has the
\* container at hand while it has no frame.  Each frame stands at the container
\* of the next one.
StackLinked(d, m, fs) ==
    \A i \in 1..Len(fs) :
        /\ fs[i].target = fs[i].source
        /\ fs[i].source \in 1..m /\ d[fs[i].source].type \in Containers
        /\ fs[i].at \in fs[i].source..m
        /\ i < Len(fs) => fs[i].at = fs[i + 1].source
StackDescends(fs) ==
    \A i, j \in 1..Len(fs) : i < j => fs[i].source < fs[j].source

\* A node to come belongs to a node to come, or to the path.
OthersToCome(d, m, fs, open) ==
    \A k \in (m + 1)..Len(d) :
        \/ d[k].parent > m
        \/ d[k].parent \in open
        \/ \E i \in 1..Len(fs) : fs[i].source = d[k].parent

\* A frame stands at the last copied child of its container.
StandsAtLast(d, m, fs) ==
    \A i \in 1..Len(fs), k \in 1..Len(d) :
        d[k].parent = fs[i].source => (k <= m <=> k <= fs[i].at)

\* The container at hand is the last node copied.
OpenIsLast(d, m, fs, open) ==
    m \in open =>
        /\ d[m].type \in Containers
        /\ \A i \in 1..Len(fs) : fs[i].source < m
        /\ fs # <<>> => fs[Len(fs)].at = m

PathInv(d, m, fs, open) ==
    /\ IsDocument(d) /\ m \in 1..Len(d)
    /\ fs \in Seq(Frame)
    /\ open \subseteq {m}
    /\ StackLinked(d, m, fs)
    /\ StackDescends(fs)
    /\ OthersToCome(d, m, fs, open)
    /\ StandsAtLast(d, m, fs)
    /\ OpenIsLast(d, m, fs, open)

LEMMA DocumentTypes ==
  ASSUME NEW d, IsDocument(d)
  PROVE  /\ Len(d) \in Nat /\ Len(d) > 0 /\ DOMAIN d = 1..Len(d) /\ 1 \in 1..Len(d)
         /\ d[1].type = "object" /\ d[1].parent = Null
         /\ \A k \in 1..Len(d) :
              /\ d[k].type \in ValueTypes /\ d[k].parent \in Nat
              /\ d[k].parent < k
              /\ d[k].key \in Keys \cup {NoKey}
         /\ \A k \in 2..Len(d) :
              /\ d[k].parent \in 1..(k - 1) /\ d[d[k].parent].type \in Containers
              /\ \A j \in (d[k].parent + 1)..(k - 1) : d[j].parent >= d[k].parent
              /\ d[d[k].parent].type = "object" <=> d[k].key # NoKey
<1>1. d \in Seq(Node) /\ d # <<>>
  BY DEF IsDocument
<1>2. /\ Len(d) \in Nat /\ DOMAIN d = 1..Len(d) /\ Len(d) > 0
      /\ \A k \in 1..Len(d) : d[k] \in Node
  BY <1>1, LenProperties, ElementOfSeq, EmptySeq
<1>3. d[1] = [type |-> "object", parent |-> Null, key |-> NoKey]
  BY DEF IsDocument
<1>4. \A k \in 2..Len(d) :
        /\ d[k].parent \in 1..(k - 1) /\ d[d[k].parent].type \in Containers
        /\ \A j \in (d[k].parent + 1)..(k - 1) : d[j].parent >= d[k].parent
        /\ IF d[d[k].parent].type = "object" THEN d[k].key \in Keys ELSE d[k].key = NoKey
  BY DEF IsDocument
<1>5. \A k \in 1..Len(d) :
        d[k].type \in ValueTypes /\ d[k].parent \in Nat /\ d[k].key \in Keys \cup {NoKey}
  BY <1>2 DEF Node
<1>6. ASSUME NEW k \in 1..Len(d) PROVE d[k].parent < k
  <2>1. CASE k = 1
    BY <1>3, <2>1 DEF Null
  <2>2. CASE k # 1
    <3>1. k \in 2..Len(d)
      BY <1>2, <2>2
    <3> QED
      BY <1>2, <1>4, <1>5, <3>1
  <2> QED
    BY <2>1, <2>2
<1> QED
  BY <1>2, <1>3, <1>4, <1>5, <1>6, KeysAssumption

LEMMA FramesTypes ==
  ASSUME NEW fs \in Seq(Frame)
  PROVE  /\ Len(fs) \in Nat /\ DOMAIN fs = 1..Len(fs)
         /\ fs # <<>> <=> Len(fs) > 0
         /\ fs # <<>> => Len(fs) \in 1..Len(fs)
         /\ \A i \in 1..Len(fs) :
              /\ fs[i] \in Frame
              /\ fs[i].source \in Nat /\ fs[i].target \in Nat /\ fs[i].at \in Nat
<1>1. /\ Len(fs) \in Nat /\ DOMAIN fs = 1..Len(fs)
      /\ \A i \in 1..Len(fs) : fs[i] \in Frame
  BY LenProperties, ElementOfSeq
<1>2. fs # <<>> => Len(fs) \in Nat \ {0}
  BY EmptySeq
<1>3. Len(<<>>) = 0
  BY EmptySeq
<1>4. \A i \in 1..Len(fs) :
        fs[i].source \in Nat /\ fs[i].target \in Nat /\ fs[i].at \in Nat
  BY <1>1 DEF Frame
<1>5. fs # <<>> <=> Len(fs) > 0
  BY <1>1, <1>2, <1>3
<1>6. fs # <<>> => Len(fs) \in 1..Len(fs)
  BY <1>1, <1>5
<1> QED
  BY <1>1, <1>4, <1>5, <1>6

\* The children of a frame's container that are still to come.
ToCome(d, frame) == {k \in DOMAIN d : d[k].parent = frame.source /\ k > frame.at}

\* The next child of the innermost container is the next node of the text.
LEMMA NextNode ==
  ASSUME NEW d, NEW m, NEW fs, PathInv(d, m, fs, {}), fs # <<>>,
         ToCome(d, fs[Len(fs)]) # {}
  PROVE  /\ Min(ToCome(d, fs[Len(fs)])) = m + 1
         /\ m + 1 \in 1..Len(d) /\ d[m + 1].parent = fs[Len(fs)].source
<1> DEFINE top == fs[Len(fs)]
           k == Min(ToCome(d, top))
<1>1. /\ IsDocument(d) /\ m \in 1..Len(d) /\ Len(d) \in Nat /\ m \in Nat
      /\ DOMAIN d = 1..Len(d)
      /\ fs \in Seq(Frame) /\ Len(fs) \in 1..Len(fs) /\ Len(fs) \in Nat
  BY DocumentTypes, FramesTypes DEF PathInv
<1>2. /\ top.source \in 1..m /\ top.at \in Nat
      /\ \A j \in 1..Len(d) : d[j].parent = top.source => (j <= m <=> j <= top.at)
  BY <1>1, FramesTypes DEF PathInv, StackLinked, StandsAtLast
<1> HIDE DEF top
<1>3. k \in ToCome(d, top) /\ \A j \in ToCome(d, top) : k <= j
  <2>1. ToCome(d, top) \in SUBSET Nat /\ ToCome(d, top) # {}
    BY <1>1 DEF ToCome, top
  <2> QED
    BY <2>1, MinOfNaturals
<1> HIDE DEF k
<1>4. /\ k \in 1..Len(d) /\ d[k].parent = top.source /\ k > m
  <2>1. k \in 1..Len(d) /\ d[k].parent = top.source /\ k > top.at
    BY <1>1, <1>3 DEF ToCome
  <2>2. ~ (k <= top.at) /\ (k <= m <=> k <= top.at)
    BY <1>1, <1>2, <2>1
  <2> QED
    BY <1>1, <2>1, <2>2
<1>5. k \in 2..Len(d) /\ m + 1 \in (m + 1)..Len(d) /\ m + 1 \in 2..Len(d) /\ m + 1 <= k
  BY <1>1, <1>4
<1>6. m + 1 = k
  <2> SUFFICES ASSUME m + 1 # k PROVE FALSE
    OBVIOUS
  <2>1. m + 1 < k
    BY <1>1, <1>5
  <2>2. d[m + 1].parent # top.source
    <3> SUFFICES ASSUME d[m + 1].parent = top.source PROVE FALSE
      OBVIOUS
    <3>1. m + 1 \in 1..Len(d) /\ ~ (m + 1 <= m)
      BY <1>1, <1>5
    <3>2. m + 1 \in ToCome(d, top)
      BY <1>1, <1>2, <3>1 DEF ToCome
    <3> QED
      BY <1>1, <1>3, <1>5, <2>1, <3>2 DEF k
  <2>3. d[m + 1].parent \in 1..m
    BY <1>1, <1>5, DocumentTypes
  <2>a. \A j \in (m + 1)..Len(d) :
          \/ d[j].parent > m
          \/ d[j].parent \in {}
          \/ \E i \in 1..Len(fs) : fs[i].source = d[j].parent
    BY DEF PathInv, OthersToCome
  <2>b. ~ (d[m + 1].parent > m)
    BY <1>1, <2>3
  <2>4. PICK i \in 1..Len(fs) : fs[i].source = d[m + 1].parent
    BY <1>5, <2>a, <2>b
  <2>5. i < Len(fs)
    BY <1>1, <2>2, <2>4 DEF top
  <2>6. d[m + 1].parent < top.source
    <3>1. \A j, l \in 1..Len(fs) : j < l => fs[j].source < fs[l].source
      BY DEF PathInv, StackDescends
    <3> QED
      BY <1>1, <2>4, <2>5, <3>1 DEF top
  <2>7. m + 1 \in (d[k].parent + 1)..(k - 1)
    BY <1>1, <1>2, <1>4, <1>5, <2>1
  <2>8. d[m + 1].parent >= d[k].parent
    BY <1>1, <1>5, <2>7, DocumentTypes
  <2> QED
    BY <1>2, <1>4, <2>3, <2>6, <2>8
<1> QED
  BY <1>1, <1>4, <1>5, <1>6 DEF k, top

LEMMA RootPath ==
  ASSUME NEW d, IsDocument(d)
  PROVE  PathInv(d, 1, <<>>, {1})
<1>1. /\ Len(d) \in Nat /\ 1 \in 1..Len(d) /\ d[1].type \in Containers
      /\ \A k \in 2..Len(d) : d[k].parent \in 1..(k - 1)
  BY DocumentTypes DEF Containers
<1>2. <<>> \in Seq(Frame) /\ Len(<<>>) = 0
  BY EmptySeq
<1>3. OthersToCome(d, 1, <<>>, {1})
  <2> SUFFICES ASSUME NEW k \in (1 + 1)..Len(d)
               PROVE  d[k].parent > 1 \/ d[k].parent \in {1}
    BY DEF OthersToCome
  <2>1. k \in 2..Len(d)
    OBVIOUS
  <2>2. d[k].parent \in 1..(k - 1)
    BY <1>1, <2>1
  <2>3. d[k].parent \in Nat /\ d[k].parent >= 1
    BY <2>2
  <2> QED
    BY <2>3
<1>4. /\ StackLinked(d, 1, <<>>) /\ StackDescends(<<>>) /\ StandsAtLast(d, 1, <<>>)
      /\ OpenIsLast(d, 1, <<>>, {1})
  BY <1>1, <1>2 DEF StackLinked, StackDescends, StandsAtLast, OpenIsLast
<1> QED
  BY <1>1, <1>2, <1>3, <1>4 DEF PathInv

\* The container at hand gets its frame.
LEMMA PushKeeps ==
  ASSUME NEW d, NEW m, NEW fs, PathInv(d, m, fs, {m})
  PROVE  PathInv(d, m, Append(fs, [source |-> m, at |-> m, target |-> m]), {})
<1> DEFINE frame == [source |-> m, at |-> m, target |-> m]
           gs == Append(fs, frame)
           N == Len(fs)
<1>1. /\ IsDocument(d) /\ m \in 1..Len(d) /\ Len(d) \in Nat /\ m \in Nat
      /\ fs \in Seq(Frame) /\ N \in Nat /\ frame \in Frame
  BY DocumentTypes, FramesTypes DEF PathInv, Frame
<1>2. /\ gs \in Seq(Frame) /\ Len(gs) = N + 1 /\ gs[N + 1] = frame
      /\ \A i \in 1..N : gs[i] = fs[i]
  BY <1>1, AppendProperties
<1>3. /\ d[m].type \in Containers
      /\ \A i \in 1..N : fs[i].source < m
      /\ fs # <<>> => fs[Len(fs)].at = m
  BY DEF PathInv, OpenIsLast
<1>4. frame.source = m /\ frame.at = m /\ frame.target = m
  OBVIOUS
<1>5. \A i \in 1..(N + 1) : i = N + 1 \/ i \in 1..N
  BY <1>1
<1>6. StackLinked(d, m, gs)
  <2> SUFFICES ASSUME NEW i \in 1..(N + 1)
               PROVE  /\ gs[i].target = gs[i].source
                      /\ gs[i].source \in 1..m /\ d[gs[i].source].type \in Containers
                      /\ gs[i].at \in gs[i].source..m
                      /\ i < N + 1 => gs[i].at = gs[i + 1].source
    BY <1>2 DEF StackLinked
  <2>1. CASE i = N + 1
    <3>1. m \in 1..m /\ m \in m..m /\ ~ (i < N + 1)
      BY <1>1, <2>1
    <3> HIDE DEF gs, frame, N
    <3> QED
      BY <1>2, <1>3, <1>4, <2>1, <3>1
  <2>2. CASE i # N + 1
    <3>1. i \in 1..N /\ gs[i] = fs[i]
      BY <1>2, <1>5, <2>2
    <3>2. /\ fs[i].target = fs[i].source
          /\ fs[i].source \in 1..m /\ d[fs[i].source].type \in Containers
          /\ fs[i].at \in fs[i].source..m
          /\ i < N => fs[i].at = fs[i + 1].source
      BY <3>1 DEF PathInv, StackLinked
    <3>3. CASE i = N
      <4>1. fs # <<>>
        BY <1>1, <3>1, <3>3, FramesTypes
      <4>2. fs[i].at = gs[i + 1].source
        <5> HIDE DEF gs, frame
        <5> QED
          BY <1>2, <1>3, <1>4, <3>3, <4>1
      <4> QED
        BY <3>1, <3>2, <4>2
    <3>4. CASE i # N
      <4>1. i < N /\ i + 1 \in 1..N
        BY <1>1, <3>1, <3>4
      <4>2. gs[i + 1] = fs[i + 1]
        BY <1>2, <4>1
      <4> QED
        BY <3>1, <3>2, <4>1, <4>2
    <3> QED
      BY <3>3, <3>4
  <2> QED
    BY <2>1, <2>2
<1>7. StackDescends(gs)
  <2> SUFFICES ASSUME NEW i \in 1..(N + 1), NEW j \in 1..(N + 1), i < j
               PROVE  gs[i].source < gs[j].source
    BY <1>2 DEF StackDescends
  <2>1. i \in 1..N /\ gs[i] = fs[i]
    BY <1>1, <1>2
  <2>2. CASE j = N + 1
    BY <1>2, <1>3, <2>1, <2>2
  <2>3. CASE j # N + 1
    <3>1. j \in 1..N /\ gs[j] = fs[j]
      BY <1>2, <1>5, <2>3
    <3> QED
      BY <2>1, <3>1 DEF PathInv, StackDescends
  <2> QED
    BY <2>2, <2>3
<1>8. OthersToCome(d, m, gs, {})
  <2> SUFFICES ASSUME NEW k \in (m + 1)..Len(d)
               PROVE  \/ d[k].parent > m
                      \/ \E i \in 1..(N + 1) : gs[i].source = d[k].parent
    BY <1>2 DEF OthersToCome
  <2>1. \/ d[k].parent > m
        \/ d[k].parent = m
        \/ \E i \in 1..N : fs[i].source = d[k].parent
    BY DEF PathInv, OthersToCome
  <2>2. CASE d[k].parent = m
    <3>1. N + 1 \in 1..(N + 1) /\ gs[N + 1].source = m
      BY <1>1, <1>2, <1>4
    <3> QED
      BY <2>2, <3>1
  <2>3. CASE \E i \in 1..N : fs[i].source = d[k].parent
    <3>1. PICK i \in 1..N : fs[i].source = d[k].parent
      BY <2>3
    <3>2. i \in 1..(N + 1) /\ gs[i].source = d[k].parent
      BY <1>1, <1>2, <3>1
    <3> QED
      BY <3>2
  <2> QED
    BY <2>1, <2>2, <2>3
<1>9. StandsAtLast(d, m, gs)
  <2> SUFFICES ASSUME NEW i \in 1..(N + 1), NEW k \in 1..Len(d),
                      d[k].parent = gs[i].source
               PROVE  k <= m <=> k <= gs[i].at
    BY <1>2 DEF StandsAtLast
  <2>1. CASE i = N + 1
    BY <1>2, <1>4, <2>1
  <2>2. CASE i # N + 1
    <3>1. i \in 1..N /\ gs[i] = fs[i]
      BY <1>2, <1>5, <2>2
    <3> QED
      BY <3>1 DEF PathInv, StandsAtLast
  <2> QED
    BY <2>1, <2>2
<1>10. OpenIsLast(d, m, gs, {})
  BY DEF OpenIsLast
<1>11. PathInv(d, m, gs, {})
  <2> HIDE DEF gs
  <2> QED
    BY <1>1, <1>2, <1>6, <1>7, <1>8, <1>9, <1>10 DEF PathInv
<1> QED
  BY <1>11

\* The next node of the text, a child of the innermost container, is copied.
LEMMA ChildKeeps ==
  ASSUME NEW d, NEW m, NEW fs, PathInv(d, m, fs, {}), fs # <<>>,
         m + 1 \in 1..Len(d), d[m + 1].parent = fs[Len(fs)].source
  PROVE  PathInv(d, m + 1, [fs EXCEPT ![Len(fs)].at = m + 1],
                 IF d[m + 1].type \in Containers THEN {m + 1} ELSE {})
<1> DEFINE N == Len(fs)
           moved == [fs[N] EXCEPT !.at = m + 1]
           gs == [fs EXCEPT ![N].at = m + 1]
           open == IF d[m + 1].type \in Containers THEN {m + 1} ELSE {}
<1>1. /\ IsDocument(d) /\ m \in 1..Len(d) /\ Len(d) \in Nat /\ m \in Nat
      /\ fs \in Seq(Frame) /\ N \in Nat /\ N \in 1..N
      /\ \A i \in 1..N : fs[i] \in Frame
  BY DocumentTypes, FramesTypes DEF PathInv
<1>2. /\ moved \in Frame /\ moved.at = m + 1
      /\ moved.source = fs[N].source /\ moved.target = fs[N].target
  <2>1. fs[N] \in Frame /\ m + 1 \in Nat
    BY <1>1
  <2> HIDE DEF N
  <2> QED
    BY <2>1 DEF Frame
<1>3. /\ gs \in Seq(Frame) /\ Len(gs) = N
      /\ \A i \in 1..N : gs[i] = IF i = N THEN moved ELSE fs[i]
  <2>1. gs = [fs EXCEPT ![N] = moved]
    OBVIOUS
  <2> HIDE DEF gs, moved
  <2> QED
    BY <1>1, <1>2, <2>1, ExceptSeq
<1> HIDE DEF gs, moved
<1>4. \A i \in 1..N :
        /\ gs[i].source = fs[i].source /\ gs[i].target = fs[i].target
        /\ gs[i].at = IF i = N THEN m + 1 ELSE fs[i].at
  BY <1>2, <1>3
<1>5. \A i \in 1..N :
        /\ fs[i].target = fs[i].source
        /\ fs[i].source \in 1..m /\ d[fs[i].source].type \in Containers
        /\ fs[i].at \in fs[i].source..m
        /\ i < N => fs[i].at = fs[i + 1].source
  BY DEF PathInv, StackLinked
<1>6. StackLinked(d, m + 1, gs)
  <2> SUFFICES ASSUME NEW i \in 1..N
               PROVE  /\ gs[i].target = gs[i].source
                      /\ gs[i].source \in 1..(m + 1) /\ d[gs[i].source].type \in Containers
                      /\ gs[i].at \in gs[i].source..(m + 1)
                      /\ i < N => gs[i].at = gs[i + 1].source
    BY <1>3 DEF StackLinked
  <2>1. gs[i].source \in 1..(m + 1)
    BY <1>1, <1>4, <1>5
  <2>2. gs[i].at \in gs[i].source..(m + 1)
    <3>1. CASE i = N
      BY <1>1, <1>4, <2>1, <3>1
    <3>2. CASE i # N
      <4>1. gs[i].at = fs[i].at /\ gs[i].source = fs[i].source
        BY <1>4, <3>2
      <4>2. fs[i].at \in fs[i].source..m
        BY <1>5
      <4> QED
        BY <1>1, <4>1, <4>2
    <3> QED
      BY <3>1, <3>2
  <2>3. ASSUME i < N PROVE gs[i].at = gs[i + 1].source
    <3>1. i # N /\ i + 1 \in 1..N
      BY <1>1, <2>3
    <3> QED
      BY <1>4, <1>5, <2>3, <3>1
  <2> QED
    BY <1>4, <1>5, <2>1, <2>2, <2>3
<1>7. StackDescends(gs)
  <2>1. \A i, j \in 1..N : i < j => fs[i].source < fs[j].source
    BY DEF PathInv, StackDescends
  <2> QED
    BY <1>3, <1>4, <2>1 DEF StackDescends
<1>8. OthersToCome(d, m + 1, gs, open)
  <2> SUFFICES ASSUME NEW k \in ((m + 1) + 1)..Len(d), ~ (d[k].parent > m + 1),
                      d[k].parent \notin open
               PROVE  \E i \in 1..N : gs[i].source = d[k].parent
    BY <1>3 DEF OthersToCome
  <2>1. k \in (m + 1)..Len(d) /\ k \in 2..Len(d) /\ k \in Nat
    BY <1>1
  <2>2. d[k].parent \in Nat /\ d[d[k].parent].type \in Containers
    BY <1>1, <2>1, DocumentTypes
  <2>3. d[k].parent # m + 1
    BY <2>2
  <2>4. ~ (d[k].parent > m)
    BY <1>1, <2>2, <2>3
  <2>5. \A l \in (m + 1)..Len(d) :
          d[l].parent > m \/ \E i \in 1..N : fs[i].source = d[l].parent
    BY DEF PathInv, OthersToCome
  <2>6. \E i \in 1..N : fs[i].source = d[k].parent
    BY <2>1, <2>4, <2>5
  <2> QED
    BY <1>4, <2>6
<1>9. StandsAtLast(d, m + 1, gs)
  <2> SUFFICES ASSUME NEW i \in 1..N, NEW k \in 1..Len(d), d[k].parent = fs[i].source
               PROVE  k <= m + 1 <=> k <= gs[i].at
    BY <1>3, <1>4 DEF StandsAtLast
  <2>1. CASE i = N
    BY <1>4, <2>1
  <2>2. CASE i # N
    <3>1. i < N
      BY <1>1, <2>2
    <3>2. fs[i].source < fs[N].source
      BY <1>1, <3>1 DEF PathInv, StackDescends
    <3>3. fs[i].source \in Nat /\ fs[N].source \in Nat
      BY <1>1, <1>5
    <3>4. k # m + 1
      BY <3>2, <3>3
    <3>5. k <= m <=> k <= fs[i].at
      BY DEF PathInv, StandsAtLast
    <3> QED
      BY <1>1, <1>4, <2>2, <3>4, <3>5
  <2> QED
    BY <2>1, <2>2
<1>10. OpenIsLast(d, m + 1, gs, open)
  <2> SUFFICES ASSUME d[m + 1].type \in Containers
               PROVE  /\ \A i \in 1..N : gs[i].source < m + 1
                      /\ gs[N].at = m + 1
    BY <1>3 DEF OpenIsLast
  <2>1. ASSUME NEW i \in 1..N PROVE gs[i].source < m + 1
    BY <1>1, <1>4, <1>5
  <2> QED
    BY <1>1, <1>4, <2>1
<1>11. open \subseteq {m + 1}
  OBVIOUS
<1>12. PathInv(d, m + 1, gs, open)
  <2> HIDE DEF open
  <2> QED
    BY <1>1, <1>3, <1>6, <1>7, <1>8, <1>9, <1>10, <1>11 DEF PathInv
<1> QED
  BY <1>12 DEF gs

\* A container whose children are all copied is left; when it is the root, the
\* document is copied.
LEMMA LeaveKeeps ==
  ASSUME NEW d, NEW m, NEW fs, PathInv(d, m, fs, {}), fs # <<>>,
         ToCome(d, fs[Len(fs)]) = {}
  PROVE  /\ PathInv(d, m, Front(fs), {})
         /\ Len(Front(fs)) = Len(fs) - 1
         /\ \A i \in 1..(Len(fs) - 1) : Front(fs)[i] = fs[i]
         /\ Len(fs) = 1 => m = Len(d)
<1> DEFINE N == Len(fs)
           gs == Front(fs)
<1>1. /\ IsDocument(d) /\ m \in 1..Len(d) /\ Len(d) \in Nat /\ m \in Nat
      /\ DOMAIN d = 1..Len(d)
      /\ fs \in Seq(Frame) /\ N \in Nat /\ N \in 1..N
      /\ \A i \in 1..N : fs[i] \in Frame
  BY DocumentTypes, FramesTypes DEF PathInv
<1>2. /\ gs \in Seq(Frame) /\ Len(gs) = N - 1
      /\ \A i \in 1..(N - 1) : gs[i] = fs[i]
  <2>1. gs = SubSeq(fs, 1, N - 1)
    BY DEF Front
  <2>2. \A i \in 1..(N - 1) : fs[i] \in Frame
    BY <1>1
  <2>3. /\ SubSeq(fs, 1, N - 1) \in Seq(Frame)
        /\ Len(SubSeq(fs, 1, N - 1)) = (IF 1 <= N - 1 THEN (N - 1) - 1 + 1 ELSE 0)
        /\ \A i \in 1..((N - 1) - 1 + 1) : SubSeq(fs, 1, N - 1)[i] = fs[1 + i - 1]
    BY <1>1, <2>2, SubSeqProperties
  <2> HIDE DEF N, gs
  <2>4. (N - 1) - 1 + 1 = N - 1 /\ \A i \in 1..(N - 1) : 1 + i - 1 = i
    BY <1>1
  <2> QED
    BY <1>1, <2>1, <2>3, <2>4
<1> HIDE DEF gs
<1>3. \A i \in 1..(N - 1) : i \in 1..N
  BY <1>1
<1>4. StackLinked(d, m, gs)
  <2> SUFFICES ASSUME NEW i \in 1..(N - 1)
               PROVE  /\ fs[i].target = fs[i].source
                      /\ fs[i].source \in 1..m /\ d[fs[i].source].type \in Containers
                      /\ fs[i].at \in fs[i].source..m
                      /\ i < N - 1 => fs[i].at = gs[i + 1].source
    BY <1>2 DEF StackLinked
  <2>1. /\ fs[i].target = fs[i].source
        /\ fs[i].source \in 1..m /\ d[fs[i].source].type \in Containers
        /\ fs[i].at \in fs[i].source..m
        /\ i < N => fs[i].at = fs[i + 1].source
    BY <1>3 DEF PathInv, StackLinked
  <2>2. i < N - 1 => i < N /\ i + 1 \in 1..(N - 1)
    BY <1>1
  <2> QED
    BY <1>2, <2>1, <2>2
<1>5. StackDescends(gs)
  <2>1. \A i, j \in 1..N : i < j => fs[i].source < fs[j].source
    BY DEF PathInv, StackDescends
  <2> QED
    BY <1>2, <1>3, <2>1 DEF StackDescends
<1>6. ASSUME NEW k \in (m + 1)..Len(d), ~ (d[k].parent > m)
      PROVE  \E i \in 1..(N - 1) : fs[i].source = d[k].parent
  <2>1. \A l \in (m + 1)..Len(d) :
          d[l].parent > m \/ \E i \in 1..N : fs[i].source = d[l].parent
    BY DEF PathInv, OthersToCome
  <2>2. PICK i \in 1..N : fs[i].source = d[k].parent
    BY <1>6, <2>1
  <2>3. i # N
    <3> SUFFICES ASSUME i = N PROVE FALSE
      OBVIOUS
    <3>1. k \in 1..Len(d) /\ ~ (k <= m)
      BY <1>1
    <3>2. ~ (k <= fs[N].at)
      BY <1>1, <2>2, <3>1 DEF PathInv, StandsAtLast
    <3>3. fs[N].at \in Nat
      BY <1>1 DEF Frame
    <3>4. k \in ToCome(d, fs[N])
      BY <1>1, <2>2, <3>1, <3>2, <3>3 DEF ToCome
    <3> QED
      BY <3>4
  <2>4. i \in 1..(N - 1)
    BY <1>1, <2>3
  <2> QED
    BY <2>2, <2>4
<1>7. OthersToCome(d, m, gs, {})
  <2> SUFFICES ASSUME NEW k \in (m + 1)..Len(d), ~ (d[k].parent > m)
               PROVE  \E i \in 1..(N - 1) : gs[i].source = d[k].parent
    BY <1>2 DEF OthersToCome
  <2> QED
    BY <1>2, <1>6
<1>8. StandsAtLast(d, m, gs)
  BY <1>2, <1>3 DEF PathInv, StandsAtLast
<1>9. OpenIsLast(d, m, gs, {})
  BY DEF OpenIsLast
<1>10. PathInv(d, m, gs, {})
  BY <1>1, <1>2, <1>4, <1>5, <1>7, <1>8, <1>9 DEF PathInv
<1>11. ASSUME N = 1 PROVE m = Len(d)
  <2> SUFFICES ASSUME m # Len(d) PROVE FALSE
    OBVIOUS
  <2> DEFINE n == Len(d)
  <2>a. n \in Nat /\ m \in 1..n /\ m # n
    BY <1>1
  <2>b. m + 1 \in (m + 1)..n /\ m + 1 \in 2..n /\ (m + 1) - 1 = m /\ m \in Nat
    <3> HIDE DEF n
    <3> QED
      BY <2>a
  <2>1. m + 1 \in (m + 1)..Len(d) /\ m + 1 \in 2..Len(d)
    BY <2>b
  <2>2. d[m + 1].parent \in 1..((m + 1) - 1)
    <3>1. \A k \in 2..Len(d) : d[k].parent \in 1..(k - 1)
      BY <1>1, DocumentTypes
    <3> QED
      BY <2>1, <3>1
  <2>3. ~ (d[m + 1].parent > m)
    <3> DEFINE parent == d[m + 1].parent
    <3>1. parent \in 1..m
      BY <2>b, <2>2
    <3> HIDE DEF parent
    <3>2. ~ (parent > m)
      BY <2>b, <3>1
    <3> QED
      BY <3>2 DEF parent
  <2>4. \E i \in 1..(N - 1) : fs[i].source = d[m + 1].parent
    BY <1>6, <2>1, <2>3
  <2> QED
    BY <1>11, <2>4
<1> QED
  BY <1>2, <1>10, <1>11 DEF gs

-----------------------------------------------------------------------------
(* The heap as a copy of the first nodes of a document *)

HeapInv(h) == ListsInv(h) /\ h.blocks = BlocksNeeded(h)

LEMMA EmptyHeapInv ==
  HeapInv(EmptyHeap) /\ Len(EmptyHeap.values) = 0
<1>1. /\ <<>> \in Seq(Value) /\ <<>> \in Seq(Cell)
      /\ Len(<<>>) = 0 /\ DOMAIN <<>> = {}
  BY EmptySeq
<1>2. EmptyHeap \in Heap
  BY <1>1 DEF EmptyHeap, Heap
<1>3. EmptyHeap.values = <<>> /\ EmptyHeap.cells = <<>> /\ EmptyHeap.blocks = 0
  BY DEF EmptyHeap
<1>4. ListsInv(EmptyHeap)
  BY <1>1, <1>2, <1>3 DEF ListsInv, IndicesInside, TailsDistinct
<1>5. Strings(EmptyHeap) = {} /\ Members(EmptyHeap) = {}
  BY <1>1, <1>3 DEF Strings, Members
<1>6. BlocksNeeded(EmptyHeap) = 0
  BY <1>1, <1>2, <1>3, <1>5, BlocksFinite, FS_EmptySet
<1> QED
  BY <1>1, <1>3, <1>4, <1>6 DEF HeapInv

LEMMA NewValueInv ==
  ASSUME NEW h, HeapInv(h), NEW type \in ValueTypes
  PROVE  HeapInv(NewValue(h, type))
  BY NewValueLists, NewValueBlocks DEF HeapInv

\* The children of p before w.
Earlier(d, p, w) == {j \in ChildrenOf(d, p) : j < w}

LEMMA EarlierFinite ==
  ASSUME NEW d, IsDocument(d), NEW p, NEW w \in Nat
  PROVE  IsFiniteSet(Earlier(d, p, w)) /\ Cardinality(Earlier(d, p, w)) \in Nat
<1>1. Earlier(d, p, w) \subseteq 1..Len(d) /\ Len(d) \in Int
  BY DocumentTypes DEF Earlier, ChildrenOf
<1>2. IsFiniteSet(1..Len(d))
  BY <1>1, FS_Interval
<1> QED
  BY <1>1, <1>2, FS_Subset, FS_CardinalityType

LEMMA EarlierSteps ==
  ASSUME NEW d, IsDocument(d), NEW w \in 1..Len(d), NEW p
  PROVE  /\ p # d[w].parent => Earlier(d, p, w + 1) = Earlier(d, p, w)
         /\ p = d[w].parent =>
              Cardinality(Earlier(d, p, w + 1)) = Cardinality(Earlier(d, p, w)) + 1
         /\ w <= p => Earlier(d, p, w + 1) = {}
<1>1. /\ Len(d) \in Nat /\ DOMAIN d = 1..Len(d) /\ w \in Nat
      /\ \A k \in 1..Len(d) : d[k].parent < k
  BY DocumentTypes
<1>2. ASSUME NEW j
      PROVE  j \in Earlier(d, p, w + 1) <=>
               j \in Earlier(d, p, w) \/ (j = w /\ p = d[w].parent)
  <2>1. CASE j \in 1..Len(d)
    <3>1. j < w + 1 <=> j < w \/ j = w
      BY <1>1, <2>1
    <3>2. ~ (w < w)
      BY <1>1
    <3> QED
      BY <1>1, <2>1, <3>1, <3>2 DEF Earlier, ChildrenOf
  <2>2. CASE j \notin 1..Len(d)
    BY <1>1, <2>2 DEF Earlier, ChildrenOf
  <2> QED
    BY <2>1, <2>2
<1>3. ASSUME p = d[w].parent
      PROVE  Cardinality(Earlier(d, p, w + 1)) = Cardinality(Earlier(d, p, w)) + 1
  <2>1. Earlier(d, p, w + 1) = Earlier(d, p, w) \cup {w}
    BY <1>2, <1>3
  <2>2. w \notin Earlier(d, p, w)
    BY <1>1 DEF Earlier
  <2>3. IsFiniteSet(Earlier(d, p, w))
    BY <1>1, EarlierFinite
  <2> QED
    BY <2>1, <2>2, <2>3, CountOneMore
<1>4. ASSUME w <= p PROVE Earlier(d, p, w + 1) = {}
  <2> SUFFICES ASSUME NEW j \in Earlier(d, p, w + 1) PROVE FALSE
    OBVIOUS
  <2>1. j \in 1..Len(d) /\ d[j].parent = p /\ j < w + 1
    BY <1>1 DEF Earlier, ChildrenOf
  <2>2. d[j].parent < j /\ d[j].parent \in Nat
    BY <2>1, DocumentTypes
  <2> QED
    BY <1>1, <1>4, <2>1, <2>2
<1> QED
  BY <1>2, <1>3, <1>4

\* The values are the first nodes and the cells, one for each of them but the
\* root, hold them in the same order; the reader of a list meets the children
\* in the order of the text.
TypesCopied(h, d) ==
    /\ Len(h.values) \in 1..Len(d) /\ Len(h.cells) = Len(h.values) - 1
    /\ \A v \in DOMAIN h.values :
        /\ h.values[v].type = d[v].type
        /\ h.values[v].count = Cardinality(Earlier(d, v, Len(h.values) + 1))
    /\ \A c \in DOMAIN h.cells :
        h.cells[c].value = c + 1 /\ h.cells[c].key = d[c + 1].key
ListsCopied(h, d) ==
    \A v \in DOMAIN h.values : \A n \in 1..h.values[v].count :
        /\ d[CellsOf(h, v)[n] + 1].parent = v
        /\ Cardinality(Earlier(d, v, CellsOf(h, v)[n] + 1)) = n - 1
CopyOf(h, d) == TypesCopied(h, d) /\ ListsCopied(h, d)

LEMMA RootCopied ==
  ASSUME NEW d, IsDocument(d)
  PROVE  LET g == NewValue(EmptyHeap, d[1].type)
         IN  HeapInv(g) /\ CopyOf(g, d) /\ Len(g.values) = 1
<1> DEFINE g == NewValue(EmptyHeap, d[1].type)
<1>1. /\ Len(d) \in Nat /\ 1 \in 1..Len(d) /\ d[1].type \in ValueTypes
      /\ ListsInv(EmptyHeap) /\ Len(EmptyHeap.values) = 0
      /\ Len(EmptyHeap.cells) = 0
  BY DocumentTypes, EmptyHeapInv, EmptySeq DEF HeapInv, EmptyHeap
<1>2. /\ HeapInv(g) /\ ListsInv(g) /\ g.cells = EmptyHeap.cells
      /\ Len(g.values) = Len(EmptyHeap.values) + 1
      /\ g.values[Len(g.values)] =
           [type |-> d[1].type, head |-> Null, tail |-> Null, count |-> 0]
  BY <1>1, EmptyHeapInv, NewValueLists, NewValueInv
<1> HIDE DEF g
<1>3. /\ Len(g.values) = 1 /\ Len(g.cells) = 0 /\ g \in Heap
      /\ g.values[1].type = d[1].type /\ g.values[1].count = 0
  BY <1>1, <1>2 DEF ListsInv
<1>4. DOMAIN g.values = 1..1 /\ DOMAIN g.cells = 1..0
  BY <1>3, HeapTypes
<1>5. Cardinality(Earlier(d, 1, 1 + 1)) = 0
  <2>1. \A w \in 1..Len(d) : Earlier(d, w, w + 1) = {}
    <3>1. \A w \in 1..Len(d) : w <= w
      BY <1>1
    <3> QED
      BY <3>1, EarlierSteps
  <2> QED
    BY <1>1, <2>1, FS_EmptySet
<1>6. TypesCopied(g, d)
  <2>1. \A v \in DOMAIN g.values : v = 1
    BY <1>4
  <2>2. \A c \in DOMAIN g.cells : FALSE
    BY <1>4
  <2>3. Len(g.cells) = Len(g.values) - 1
    BY <1>3
  <2> QED
    BY <1>1, <1>3, <1>5, <2>1, <2>2, <2>3 DEF TypesCopied
<1>7. ListsCopied(g, d)
  BY <1>3, <1>4 DEF ListsCopied
<1> QED
  BY <1>2, <1>3, <1>6, <1>7 DEF CopyOf, g

LEMMA ChildCopied ==
  ASSUME NEW d, IsDocument(d), NEW h, HeapInv(h), CopyOf(h, d),
         NEW w, w = Len(h.values) + 1, w \in 1..Len(d)
  PROVE  LET g == AppendValue(NewValue(h, d[w].type), d[w].parent, d[w].key, w)
         IN  HeapInv(g) /\ CopyOf(g, d) /\ Len(g.values) = w
<1> DEFINE s == d[w].parent
           key == d[w].key
           type == d[w].type
           e == NewValue(h, type)
           g == AppendValue(e, s, key, w)
           N == Len(h.values)
<1>1. /\ h \in Heap /\ N \in Nat /\ N \in 1..Len(d) /\ Len(d) \in Nat
      /\ DOMAIN h.values = 1..N /\ DOMAIN h.cells = 1..(N - 1) /\ Len(h.cells) = N - 1
      /\ \A v \in DOMAIN h.values : h.values[v].count \in Nat
  BY HeapTypes, DocumentTypes DEF HeapInv, ListsInv, CopyOf, TypesCopied
<1>2. w \in 2..Len(d) /\ w \in Nat /\ w = N + 1 /\ w - 1 = N
  BY <1>1
<1>3. /\ type \in ValueTypes /\ key \in Keys \cup {NoKey}
      /\ s \in 1..N
      /\ d[s].type = "object" <=> key # NoKey
  <2>1. type \in ValueTypes /\ key \in Keys \cup {NoKey}
    BY DocumentTypes
  <2>2. /\ s \in 1..(w - 1)
        /\ d[s].type = "object" <=> key # NoKey
    BY <1>2, DocumentTypes
  <2> QED
    BY <1>2, <2>1, <2>2
<1>4. /\ HeapInv(e) /\ ListsInv(e) /\ e.cells = h.cells /\ Len(e.values) = N + 1
      /\ e.values[N + 1] = [type |-> type, head |-> Null, tail |-> Null, count |-> 0]
      /\ \A v \in DOMAIN h.values :
           /\ e.values[v] = h.values[v]
           /\ \A n \in 1..h.values[v].count : CellsOf(e, v)[n] = CellsOf(h, v)[n]
  <2>1. /\ ListsInv(e)
        /\ e.cells = h.cells
        /\ Len(e.values) = N + 1
        /\ e.values[Len(e.values)] =
             [type |-> type, head |-> Null, tail |-> Null, count |-> 0]
        /\ \A v \in DOMAIN h.values :
             /\ e.values[v] = h.values[v]
             /\ \A n \in 1..h.values[v].count : CellsOf(e, v)[n] = CellsOf(h, v)[n]
    <3>1. ListsInv(h)
      BY DEF HeapInv
    <3> HIDE DEF type
    <3> QED
      BY <1>3, <3>1, NewValueLists
  <2>2. HeapInv(e)
    BY <1>3, NewValueInv
  <2> HIDE DEF e, N
  <2> QED
    BY <2>1, <2>2
<1> HIDE DEF e, s, type, key
<1>5. /\ e \in Heap /\ DOMAIN e.values = 1..w /\ DOMAIN e.cells = 1..N - 1
      /\ s \in DOMAIN e.values /\ w \in DOMAIN e.values /\ s # w
      /\ e.values[s] = h.values[s]
      /\ Len(e.cells) = N - 1
  <2>1. e \in Heap
    BY <1>4 DEF ListsInv
  <2>2. DOMAIN e.values = 1..w
    BY <1>2, <1>4, <2>1, HeapTypes
  <2>3. s \in 1..w /\ w \in 1..w /\ s # w
    BY <1>1, <1>2, <1>3
  <2> QED
    BY <1>1, <1>3, <1>4, <2>1, <2>2, <2>3
<1>6. e.values[s].type = d[s].type /\ e.values[s].tail \in 0..Len(e.cells)
  <2>1. h.values[s].type = d[s].type
    BY <1>1, <1>3 DEF CopyOf, TypesCopied
  <2> QED
    BY <1>4, <1>5, <2>1 DEF ListsInv, IndicesInside
<1>a. ListsGrown(g, e, s)
  <2>1. /\ ListsInv(e) /\ s \in DOMAIN e.values /\ w \in DOMAIN e.values
        /\ key \in Keys \cup {NoKey}
    BY <1>3, <1>4, <1>5
  <2> QED
    BY <2>1, AppendLists
<1>7. HeapInv(g)
  <2>1. ListsInv(g)
    BY <1>a DEF ListsGrown
  <2>2. e.values[s].type = "object" <=> key # NoKey
    BY <1>3, <1>6
  <2>3. g.blocks = BlocksNeeded(g)
    BY <1>3, <1>4, <1>5, <2>2, AppendBlocks DEF HeapInv
  <2> QED
    BY <2>1, <2>3 DEF HeapInv
<1>8. /\ \A v \in DOMAIN e.values : \A n \in 1..e.values[v].count :
           CellsOf(g, v)[n] = CellsOf(e, v)[n]
      /\ CellsOf(g, s)[g.values[s].count] = Len(g.cells)
  BY <1>a DEF ListsGrown
<1>9. Appended(g, e, s, key, w)
  BY <1>2, <1>3, <1>5, <1>6, AppendFields
<1> HIDE DEF g
<1>10. /\ g \in Heap /\ Len(g.values) = Len(e.values) /\ Len(g.cells) = Len(e.cells) + 1
       /\ \A v \in DOMAIN e.values :
            /\ g.values[v].type = e.values[v].type
            /\ v # s => g.values[v] = e.values[v]
       /\ g.values[s].count = e.values[s].count + 1
       /\ g.cells[Len(e.cells) + 1] = [next |-> Null, key |-> key, value |-> w]
       /\ \A c \in DOMAIN e.cells :
            g.cells[c].key = e.cells[c].key /\ g.cells[c].value = e.cells[c].value
  BY <1>9 DEF Appended
<1>11. /\ Len(g.values) = w /\ Len(g.cells) = N
       /\ DOMAIN g.values = 1..w /\ DOMAIN g.cells = 1..N
       /\ \A v \in 1..w : v = w \/ v \in 1..N
       /\ \A c \in 1..N : c = N \/ c \in 1..N - 1
  <2>1. Len(g.values) = w /\ Len(g.cells) = N
    BY <1>1, <1>2, <1>4, <1>5, <1>10
  <2>2. DOMAIN g.values = 1..w /\ DOMAIN g.cells = 1..N
    BY <1>10, <2>1, HeapTypes
  <2> HIDE DEF N
  <2> QED
    BY <1>1, <1>2, <2>1, <2>2
<1>12. \A v \in 1..N :
         /\ h.values[v].type = d[v].type
         /\ h.values[v].count = Cardinality(Earlier(d, v, w))
  BY <1>1, <1>2 DEF CopyOf, TypesCopied
<1>13. TypesCopied(g, d)
  <2>1. ASSUME NEW v \in 1..w
        PROVE  /\ g.values[v].type = d[v].type
               /\ g.values[v].count = Cardinality(Earlier(d, v, w + 1))
    <3>1. CASE v = w
      <4>1. Earlier(d, w, w + 1) = {}
        <5>1. w <= w
          BY <1>2
        <5> QED
          BY <5>1, EarlierSteps
      <4> QED
        <5>1. g.values[w] = e.values[w]
          BY <1>5, <1>10
        <5>2. e.values[w].type = type /\ e.values[w].count = 0
          BY <1>2, <1>4
        <5>3. Cardinality(Earlier(d, w, w + 1)) = 0
          BY <4>1, FS_EmptySet
        <5> QED
          BY <3>1, <5>1, <5>2, <5>3 DEF type
    <3>2. CASE v = s
      <4>1. Cardinality(Earlier(d, s, w + 1)) = Cardinality(Earlier(d, s, w)) + 1
        BY EarlierSteps DEF s
      <4> QED
        BY <1>3, <1>5, <1>6, <1>10, <1>12, <3>2, <4>1
    <3>3. CASE v # w /\ v # s
      <4>1. v \in 1..N /\ v \in DOMAIN h.values /\ v \in DOMAIN e.values
        BY <1>1, <1>5, <1>11, <3>3
      <4>2. g.values[v] = h.values[v]
        BY <1>4, <1>10, <3>3, <4>1
      <4>3. Earlier(d, v, w + 1) = Earlier(d, v, w)
        BY <3>3, EarlierSteps DEF s
      <4> QED
        BY <1>12, <4>1, <4>2, <4>3
    <3> QED
      BY <3>1, <3>2, <3>3
  <2>2. ASSUME NEW c \in 1..N
        PROVE  g.cells[c].value = c + 1 /\ g.cells[c].key = d[c + 1].key
    <3>1. CASE c = N
      <4>1. Len(e.cells) + 1 = N
        BY <1>1, <1>5
      <4>2. g.cells[N].value = w /\ g.cells[N].key = key
        BY <1>10, <4>1
      <4> HIDE DEF N
      <4> QED
        BY <1>2, <3>1, <4>2 DEF key
    <3>2. CASE c # N
      <4>1. c \in DOMAIN e.cells /\ c \in DOMAIN h.cells /\ e.cells = h.cells
        BY <1>1, <1>4, <1>5, <1>11, <3>2
      <4>2. h.cells[c].value = c + 1 /\ h.cells[c].key = d[c + 1].key
        BY <4>1 DEF CopyOf, TypesCopied
      <4> QED
        BY <1>10, <4>1, <4>2
    <3> QED
      BY <3>1, <3>2
  <2> QED
    BY <1>2, <1>11, <2>1, <2>2 DEF TypesCopied
<1>14. ListsCopied(g, d)
  <2> SUFFICES ASSUME NEW v \in 1..w, NEW n \in Nat, n \in 1..g.values[v].count
               PROVE  /\ d[CellsOf(g, v)[n] + 1].parent = v
                      /\ Cardinality(Earlier(d, v, CellsOf(g, v)[n] + 1)) = n - 1
    BY <1>11 DEF ListsCopied
  <2>1. v \in 1..N
    <3>1. v # w
      <4> SUFFICES ASSUME v = w PROVE FALSE
        OBVIOUS
      <4>1. g.values[w] = e.values[w]
        BY <1>5, <1>10
      <4>2. e.values[w].count = 0
        BY <1>2, <1>4
      <4> QED
        BY <4>1, <4>2
    <3> QED
      BY <1>11, <3>1
  <2>2. /\ v \in DOMAIN h.values /\ v \in DOMAIN e.values
        /\ e.values[v] = h.values[v] /\ h.values[v].count \in Nat
    BY <1>1, <1>4, <1>5, <2>1
  <2>3. CASE n \in 1..h.values[v].count
    <3>1. CellsOf(g, v)[n] = CellsOf(h, v)[n]
      BY <1>4, <1>8, <2>2, <2>3
    <3> QED
      BY <2>2, <2>3, <3>1 DEF CopyOf, ListsCopied
  <2>4. CASE n \notin 1..h.values[v].count
    <3>1. v = s /\ n = h.values[v].count + 1
      <4>1. v # s => g.values[v].count = h.values[v].count
        BY <1>10, <2>2
      <4>2. v = s => g.values[v].count = h.values[v].count + 1
        BY <1>10, <2>2
      <4> QED
        BY <2>2, <2>4, <4>1, <4>2
    <3>2. CellsOf(g, v)[n] = N
      BY <1>8, <1>10, <1>11, <2>2, <3>1
    <3>3. d[N + 1].parent = v
      BY <1>2, <3>1 DEF s
    <3>4. Cardinality(Earlier(d, v, N + 1)) = n - 1
      <4>1. h.values[v].count = Cardinality(Earlier(d, v, w))
        BY <1>12, <2>1
      <4> QED
        BY <1>2, <2>2, <3>1, <4>1
    <3> QED
      BY <3>2, <3>3, <3>4
  <2> QED
    BY <2>3, <2>4
<1>15. HeapInv(g) /\ CopyOf(g, d) /\ Len(g.values) = w
  BY <1>7, <1>11, <1>13, <1>14 DEF CopyOf
<1> QED
  BY <1>15 DEF g, e, s, type, key

-----------------------------------------------------------------------------
(* Trees.  A member's value comes after its container, so the recursion of *)
(* TreeOf and of DocumentTree has a solution, and but one.                 *)

\* The equation that TreeOf solves.
TreeStep(h, f, v) ==
    IF v = Null THEN NoTree
    ELSE [type |-> h.values[v].type,
          members |-> [n \in 1..h.values[v].count |->
              LET c == CellsOf(h, v)[n]
              IN  IF c = Null THEN <<NoKey, NoTree>>
                  ELSE <<h.cells[c].key,
                         IF h.cells[c].value > v THEN f[h.cells[c].value]
                         ELSE NoTree>>]]
TreeSolved(h, f) == f = [v \in 0..Len(h.values) |-> TreeStep(h, f, v)]

LEMMA TreeStepLocal ==
  ASSUME NEW h, ListsInv(h), NEW v \in 0..Len(h.values), NEW f, NEW g,
         \A w \in 0..Len(h.values) : w > v => f[w] = g[w]
  PROVE  TreeStep(h, f, v) = TreeStep(h, g, v)
<1>1. CASE v = Null
  BY <1>1 DEF TreeStep
<1>2. CASE v # Null
  <2>1. v \in DOMAIN h.values /\ DOMAIN h.values = 1..Len(h.values) /\ Len(h.values) \in Nat
    BY <1>2, HeapTypes DEF ListsInv, Null
  <2>2. ASSUME NEW n \in 1..h.values[v].count, NEW c, c = CellsOf(h, v)[n],
               h.cells[c].value > v
        PROVE  f[h.cells[c].value] = g[h.cells[c].value]
    <3>1. c \in DOMAIN h.cells
      BY <2>1, <2>2, CellsMet
    <3>2. h.cells[c].value \in 0..Len(h.values)
      BY <2>1, <3>1 DEF ListsInv, IndicesInside
    <3> QED
      BY <2>2, <3>2
  <2>3. \A n \in 1..h.values[v].count :
          (LET c == CellsOf(h, v)[n]
           IN  IF c = Null THEN <<NoKey, NoTree>>
               ELSE <<h.cells[c].key,
                      IF h.cells[c].value > v THEN f[h.cells[c].value] ELSE NoTree>>)
          = (LET c == CellsOf(h, v)[n]
             IN  IF c = Null THEN <<NoKey, NoTree>>
                 ELSE <<h.cells[c].key,
                        IF h.cells[c].value > v THEN g[h.cells[c].value] ELSE NoTree>>)
    BY <2>2
  <2> QED
    BY <2>3, Zenon DEF TreeStep
<1> QED
  BY <1>1, <1>2

LEMMA TreeExists ==
  ASSUME NEW h, ListsInv(h)
  PROVE  \E f : TreeSolved(h, f)
<1> DEFINE N == Len(h.values)
           Part(f, k) == \A v \in 0..N : v > N - k => f[v] = TreeStep(h, f, v)
           S == {k \in Nat : \E f : Part(f, k)}
<1>1. N \in Nat
  BY HeapTypes DEF ListsInv
<1>2. 0 \in S
  <2>1. Part(<<>>, 0)
    BY <1>1
  <2> HIDE DEF Part
  <2> QED
    BY <2>1
<1>3. ASSUME NEW k \in S PROVE k + 1 \in S
  <2>1. PICK f : Part(f, k)
    OBVIOUS
  <2> DEFINE g == [v \in 0..N |-> IF v = N - k THEN TreeStep(h, f, v) ELSE f[v]]
  <2>2. ASSUME NEW v \in 0..N, v > N - (k + 1) PROVE g[v] = TreeStep(h, g, v)
    <3>1. k \in Nat /\ v >= N - k
      BY <1>1, <2>2
    <3>2. ASSUME NEW w \in 0..N, w > v PROVE f[w] = g[w]
      <4>1. w # N - k
        BY <1>1, <3>1, <3>2
      <4> QED
        BY <4>1
    <3>3. TreeStep(h, f, v) = TreeStep(h, g, v)
      <4> HIDE DEF g
      <4> QED
        BY <3>2, TreeStepLocal
    <3>4. g[v] = TreeStep(h, f, v)
      <4>1. CASE v = N - k
        BY <4>1
      <4>2. CASE v # N - k
        <5>1. v > N - k
          BY <1>1, <3>1, <4>2
        <5> QED
          BY <2>1, <4>2, <5>1
      <4> QED
        BY <4>1, <4>2
    <3> QED
      BY <3>3, <3>4
  <2>3. Part(g, k + 1)
    <3> HIDE DEF g
    <3> QED
      BY <2>2
  <2>4. k + 1 \in Nat
    OBVIOUS
  <2> HIDE DEF Part, g
  <2> QED
    BY <2>3, <2>4
<1>4. S \in SUBSET Nat
  OBVIOUS
<1>5. N + 1 \in S
  <2> HIDE DEF S
  <2> QED
    BY <1>1, <1>2, <1>3, <1>4, Induction
<1>6. PICK f : Part(f, N + 1)
  <2> HIDE DEF Part
  <2> QED
    BY <1>5
<1> DEFINE g == [v \in 0..N |-> f[v]]
<1>7. ASSUME NEW v \in 0..N PROVE g[v] = TreeStep(h, g, v)
  <2>1. f[v] = TreeStep(h, f, v)
    BY <1>1, <1>6
  <2>2. \A w \in 0..N : w > v => f[w] = g[w]
    OBVIOUS
  <2>3. g[v] = f[v]
    OBVIOUS
  <2>4. TreeStep(h, f, v) = TreeStep(h, g, v)
    <3> HIDE DEF g
    <3> QED
      BY <2>2, TreeStepLocal
  <2> QED
    BY <2>1, <2>3, <2>4
<1>8. g = [v \in 0..N |-> TreeStep(h, g, v)]
  <2>1. g = [v \in 0..N |-> g[v]]
    OBVIOUS
  <2> HIDE DEF g
  <2> QED
    BY <1>7, <2>1
<1>9. TreeSolved(h, g)
  <2> HIDE DEF g
  <2> QED
    BY <1>8 DEF TreeSolved
<1> QED
  BY <1>9

LEMMA TreeOfSolved ==
  ASSUME NEW h, ListsInv(h)
  PROVE  \E f : TreeSolved(h, f) /\ \A v : TreeOf(h, v) = f[v]
<1> DEFINE f == CHOOSE f : TreeSolved(h, f)
<1>1. TreeSolved(h, f)
  BY TreeExists
<1>2. ASSUME NEW v PROVE TreeOf(h, v) = f[v]
  BY DEF TreeOf, TreeSolved, TreeStep
<1> HIDE DEF f
<1> QED
  BY <1>1, <1>2

\* An element without data has no tree, whatever was copied.
LEMMA NoTreeOfNull ==
  ASSUME NEW h, ListsInv(h)
  PROVE  TreeOf(h, Null) = NoTree
<1>1. PICK f : TreeSolved(h, f) /\ \A v : TreeOf(h, v) = f[v]
  BY TreeOfSolved
<1>2. Len(h.values) \in Nat
  BY HeapTypes DEF ListsInv
<1>3. Null \in 0..Len(h.values)
  BY <1>2 DEF Null
<1>4. f[Null] = TreeStep(h, f, Null)
  BY <1>1, <1>3 DEF TreeSolved
<1> QED
  BY <1>1, <1>4 DEF TreeStep

\* A child is known by the number of those before it.
LEMMA NthChildIs ==
  ASSUME NEW d, IsDocument(d), NEW p, NEW n \in Nat,
         NEW w \in ChildrenOf(d, p), Cardinality(Earlier(d, p, w)) = n - 1
  PROVE  NthChild(d, p, n) = w
<1>1. ChildrenOf(d, p) \in SUBSET Nat
  BY DocumentTypes DEF ChildrenOf
<1>2. ASSUME NEW i \in ChildrenOf(d, p), NEW j \in ChildrenOf(d, p), i < j
      PROVE  Cardinality(Earlier(d, p, i)) < Cardinality(Earlier(d, p, j))
  <2>1. i \in Nat /\ j \in Nat
    BY <1>1
  <2>2. Earlier(d, p, i) \subseteq Earlier(d, p, j)
    BY <1>1, <1>2, <2>1 DEF Earlier
  <2>3. i \in Earlier(d, p, j) /\ i \notin Earlier(d, p, i)
    BY <1>2, <2>1 DEF Earlier
  <2>4. IsFiniteSet(Earlier(d, p, j))
    BY <2>1, EarlierFinite
  <2>5. /\ Cardinality(Earlier(d, p, i)) \in Nat /\ Cardinality(Earlier(d, p, j)) \in Nat
        /\ Cardinality(Earlier(d, p, i)) <= Cardinality(Earlier(d, p, j))
        /\ Cardinality(Earlier(d, p, i)) = Cardinality(Earlier(d, p, j))
             => Earlier(d, p, i) = Earlier(d, p, j)
    BY <2>1, <2>2, <2>4, EarlierFinite, FS_Subset
  <2> QED
    BY <2>3, <2>5
<1>3. ASSUME NEW k \in ChildrenOf(d, p), Cardinality(Earlier(d, p, k)) = n - 1
      PROVE  k = w
  <2>1. k \in Nat /\ w \in Nat
    BY <1>1
  <2>2. ~ (k < w) /\ ~ (w < k)
    <3>1. ~ (n - 1 < n - 1)
      OBVIOUS
    <3> QED
      BY <1>2, <1>3, <3>1
  <2> QED
    BY <2>1, <2>2
<1>4. NthChild(d, p, n) =
        CHOOSE k \in ChildrenOf(d, p) : Cardinality(Earlier(d, p, k)) = n - 1
  BY DEF NthChild, Earlier
<1> QED
  BY <1>3, <1>4

\* In a complete copy the lists are the children, in the order of the text.
LEMMA CompleteCopy ==
  ASSUME NEW d, IsDocument(d), NEW h, ListsInv(h), CopyOf(h, d),
         Len(h.values) = Len(d), NEW v \in 1..Len(d)
  PROVE  /\ h.values[v].type = d[v].type
         /\ h.values[v].count = Cardinality(ChildrenOf(d, v))
         /\ \A n \in 1..Cardinality(ChildrenOf(d, v)) :
              LET c == CellsOf(h, v)[n]
                  w == NthChild(d, v, n)
              IN  /\ c # Null /\ h.cells[c].key = d[w].key /\ h.cells[c].value = w
                  /\ w > v /\ w \in 1..Len(d)
<1>1. /\ h \in Heap /\ Len(d) \in Nat /\ DOMAIN d = 1..Len(d)
      /\ DOMAIN h.values = 1..Len(d) /\ DOMAIN h.cells = 1..(Len(d) - 1)
      /\ h.values[v].count \in Nat
  BY HeapTypes, DocumentTypes DEF ListsInv, CopyOf, TypesCopied
<1>2. Earlier(d, v, Len(d) + 1) = ChildrenOf(d, v)
  <2>1. \A j \in 1..Len(d) : j < Len(d) + 1
    BY <1>1
  <2> QED
    BY <1>1, <2>1 DEF Earlier, ChildrenOf
<1>3. h.values[v].type = d[v].type /\ h.values[v].count = Cardinality(ChildrenOf(d, v))
  BY <1>1, <1>2 DEF CopyOf, TypesCopied
<1>4. ASSUME NEW n \in 1..Cardinality(ChildrenOf(d, v))
      PROVE  LET c == CellsOf(h, v)[n]
                 w == NthChild(d, v, n)
             IN  /\ c # Null /\ h.cells[c].key = d[w].key /\ h.cells[c].value = w
                 /\ w > v /\ w \in 1..Len(d)
  <2> DEFINE c == CellsOf(h, v)[n]
  <2>1. v \in DOMAIN h.values /\ n \in 1..h.values[v].count /\ n \in Nat
    BY <1>1, <1>3
  <2>2. c \in DOMAIN h.cells
    BY <2>1, CellsMet
  <2>3. d[c + 1].parent = v /\ Cardinality(Earlier(d, v, c + 1)) = n - 1
    BY <2>1 DEF CopyOf, ListsCopied
  <2>4. h.cells[c].value = c + 1 /\ h.cells[c].key = d[c + 1].key
    BY <2>2 DEF CopyOf, TypesCopied
  <2> HIDE DEF c
  <2>5. c + 1 \in 1..Len(d) /\ c # Null
    BY <1>1, <2>2 DEF Null
  <2>6. c + 1 \in ChildrenOf(d, v)
    BY <1>1, <2>3, <2>5 DEF ChildrenOf
  <2>7. NthChild(d, v, n) = c + 1
    BY <2>1, <2>3, <2>6, NthChildIs
  <2>8. c + 1 > v
    <3>1. d[c + 1].parent < c + 1
      BY <2>5, DocumentTypes
    <3>2. c + 1 \in Nat /\ v \in Nat
      BY <1>1, <2>5
    <3> QED
      BY <2>3, <3>1, <3>2
  <2> QED
    BY <2>4, <2>5, <2>7, <2>8 DEF c
<1> QED
  BY <1>3, <1>4

\* The equation that DocumentTree solves.
NodeStep(d, f, k) ==
    [type |-> d[k].type,
     members |-> [n \in 1..Cardinality(ChildrenOf(d, k)) |->
        <<d[NthChild(d, k, n)].key, f[NthChild(d, k, n)]>>]]
NodesSolved(d, f) == f = [k \in DOMAIN d |-> NodeStep(d, f, k)]

LEMMA CopyIsTree ==
  ASSUME NEW d, IsDocument(d), NEW h, ListsInv(h), CopyOf(h, d),
         Len(h.values) = Len(d)
  PROVE  TreeOf(h, 1) = DocumentTree(d)
<1> DEFINE N == Len(d)
<1>1. N \in Nat /\ DOMAIN d = 1..N /\ 1 \in 1..N
  BY DocumentTypes
<1>2. PICK t : TreeSolved(h, t) /\ \A v : TreeOf(h, v) = t[v]
  BY TreeOfSolved
<1>3. ASSUME NEW k \in 1..N
      PROVE  t[k] = NodeStep(d, t, k)
  <2>1. k # Null /\ k \in 0..N
    BY <1>1 DEF Null
  <2>2. t[k] = TreeStep(h, t, k)
    BY <1>2, <2>1 DEF TreeSolved
  <2>3. TreeStep(h, t, k) =
          [type |-> h.values[k].type,
           members |-> [n \in 1..h.values[k].count |->
              LET c == CellsOf(h, k)[n]
              IN  IF c = Null THEN <<NoKey, NoTree>>
                  ELSE <<h.cells[c].key,
                         IF h.cells[c].value > k THEN t[h.cells[c].value]
                         ELSE NoTree>>]]
    BY <2>1 DEF TreeStep
  <2>4. h.values[k].type = d[k].type /\ h.values[k].count = Cardinality(ChildrenOf(d, k))
    BY CompleteCopy
  <2>5. ASSUME NEW n \in 1..Cardinality(ChildrenOf(d, k))
        PROVE  (LET c == CellsOf(h, k)[n]
                IN  IF c = Null THEN <<NoKey, NoTree>>
                    ELSE <<h.cells[c].key,
                           IF h.cells[c].value > k THEN t[h.cells[c].value]
                           ELSE NoTree>>)
               = <<d[NthChild(d, k, n)].key, t[NthChild(d, k, n)]>>
    BY CompleteCopy
  <2> QED
    BY <2>2, <2>3, <2>4, <2>5 DEF NodeStep
<1> DEFINE g == [k \in 1..N |-> t[k]]
<1>4. ASSUME NEW k \in 1..N, NEW n \in 1..Cardinality(ChildrenOf(d, k))
      PROVE  NthChild(d, k, n) \in 1..N /\ NthChild(d, k, n) > k
  BY CompleteCopy
<1>5. NodesSolved(d, g)
  <2>1. ASSUME NEW k \in 1..N PROVE NodeStep(d, t, k) = NodeStep(d, g, k)
    <3>1. \A n \in 1..Cardinality(ChildrenOf(d, k)) :
            t[NthChild(d, k, n)] = g[NthChild(d, k, n)]
      BY <1>4
    <3> HIDE DEF g
    <3> QED
      BY <3>1 DEF NodeStep
  <2>2. g = [k \in 1..N |-> t[k]]
    OBVIOUS
  <2> HIDE DEF g
  <2>3. g = [k \in 1..N |-> NodeStep(d, g, k)]
    BY <1>3, <2>1, <2>2
  <2> QED
    BY <1>1, <2>3 DEF NodesSolved
<1> DEFINE f == CHOOSE f : NodesSolved(d, f)
<1>6. NodesSolved(d, f)
  <2> HIDE DEF g
  <2> QED
    BY <1>5
<1>7. DocumentTree(d) = f[1]
  BY DEF DocumentTree, NodesSolved, NodeStep
<1> HIDE DEF f, g
<1> DEFINE S == {j \in Nat : \A k \in 1..N : k > N - j => f[k] = t[k]}
<1>8. 0 \in S
  BY <1>1
<1>9. ASSUME NEW j \in S PROVE j + 1 \in S
  <2> SUFFICES ASSUME NEW k \in 1..N, k > N - (j + 1) PROVE f[k] = t[k]
    OBVIOUS
  <2>1. f[k] = NodeStep(d, f, k)
    BY <1>1, <1>6 DEF NodesSolved
  <2>2. ASSUME NEW n \in 1..Cardinality(ChildrenOf(d, k))
        PROVE  f[NthChild(d, k, n)] = t[NthChild(d, k, n)]
    <3>1. NthChild(d, k, n) \in 1..N /\ NthChild(d, k, n) > k
      BY <1>4
    <3>2. NthChild(d, k, n) > N - j
      BY <1>1, <3>1
    <3> QED
      BY <3>1, <3>2
  <2>3. NodeStep(d, f, k) = NodeStep(d, t, k)
    BY <2>2 DEF NodeStep
  <2> QED
    BY <1>3, <2>1, <2>3
<1>10. N \in S
  <2>1. S \in SUBSET Nat
    OBVIOUS
  <2> HIDE DEF S
  <2> QED
    BY <1>1, <1>8, <1>9, <2>1, Induction
<1>11. f[1] = t[1]
  BY <1>1, <1>10
<1> QED
  BY <1>2, <1>7, <1>11

-----------------------------------------------------------------------------
(* What every state has *)

\* The copy: it has not begun, or follows the path, or is complete.
Complete ==
    /\ source # Invalid /\ IsDocument(source) /\ CopyOf(heap, source)
    /\ Len(heap.values) = Len(source)
Untouched == heap = EmptyHeap /\ frames = <<>> /\ capacity = 0 /\ element_data = Null
Copied == Len(heap.values)

CopyInv ==
    /\ HeapInv(heap)
    /\ pc \in {"new", "wrap", "read", "root"} => Untouched
    /\ pc = "idle" /\ element_data = Null => Untouched
    /\ pc \in {"root", "push", "loop"} => source # Invalid
    /\ pc = "push" =>
        /\ PathInv(source, Copied, frames, {Copied}) /\ CopyOf(heap, source)
        /\ pending = [source |-> Copied, target |-> Copied]
    /\ pc = "loop" =>
        /\ PathInv(source, Copied, frames, {}) /\ CopyOf(heap, source)
        /\ frames # <<>>
    /\ status = 0 => Complete

\* The data is attached with status 0, as the last step before the cleanup.
DataInv ==
    /\ element_data \in {Null, 1}
    /\ element_data = 1 => status = 0
    /\ pc \in InParse \ {"cleanup"} => element_data = Null
    /\ pc \in {"cleanup", "idle", "answered", "done"} /\ status = 0 => element_data = 1
    /\ pc \in InParse \ {"free", "report", "cleanup"} => status = -1
    /\ pc = "idle" /\ element_data = Null => status = -1
    /\ pc = "answered" /\ answer = "handled" => element_data = 1

\* Why a call fails, and what the user is going to be told.
NotFailed == cause = "none" /\ reason = "none" /\ message = "none"
OutOfMemory == reason = "memory" /\ errno = "ENOMEM" /\ cause \in {"none", "memory"}
NotJson == reason = "syntax" /\ errno = "EINVAL" /\ cause = "syntax"
AlreadySet == reason = "duplicate" /\ errno = "EINVAL" /\ cause = "none"
MemoryMessages == {"no memory to parse", "no memory to build"}

ErrorInv ==
    /\ pc \in InParse \ {"free", "report", "cleanup"} => NotFailed
    /\ pc = "idle" /\ element_data = Null => NotFailed
    /\ status = 0 => cause = "none"
    /\ pc \in {"free", "report", "cleanup"} /\ status = 0 => NotFailed
    /\ pc = "free" /\ status # 0 => OutOfMemory /\ cause = "none" /\ message = "none"
    /\ pc = "report" /\ status # 0 => (OutOfMemory \/ NotJson) /\ message = "none"
    /\ pc = "cleanup" /\ status # 0 =>
        \/ OutOfMemory /\ message \in MemoryMessages \cup {"none"}
        \/ NotJson /\ message = "invalid"
    /\ pc = "answered" /\ answer = "failed" =>
        \/ OutOfMemory /\ message \in MemoryMessages
        \/ NotJson /\ message = "invalid"
        \/ AlreadySet /\ message = "duplicate"

ReleaseInv == registered => pc \in (InParse \ {"new"}) \cup {"raised"}

\* The pool keeps nothing before the parse fails, and then only on some versions
\* of Lua.
StuckInv ==
    /\ stuck \in Nat
    /\ stuck # 0 =>
        /\ NilKeyAllocates \/ CallsRaise
        /\ \/ pc = "raised"
           \/ /\ reason = "memory" /\ status # 0
              /\ pc \in {"free", "report", "cleanup", "answered", "done"}
              /\ pc = "answered" => answer = "failed"

DirectiveInv ==
    /\ TypeOK
    /\ CopyInv
    /\ FramesFit
    /\ DataInv
    /\ ErrorInv
    /\ ReportTrue
    /\ ReleaseInv
    /\ StuckInv

-----------------------------------------------------------------------------
(* The copy *)

LEMMA CopyInit ==
  ASSUME Init
  PROVE  CopyInv
  BY EmptyHeapInv DEF Init, CopyInv, Untouched, InParse

\* What a step of the copy finds at the top of the stack.
LEMMA TopOfStack ==
  ASSUME DirectiveInv, pc = "loop"
  PROVE  /\ IsDocument(source) /\ HeapInv(heap) /\ CopyOf(heap, source)
         /\ PathInv(source, Copied, frames, {}) /\ frames # <<>>
         /\ Top = frames[Len(frames)] /\ Rest(Top) = ToCome(source, frames[Len(frames)])
         /\ Top.target = Top.source
<1>1. /\ HeapInv(heap) /\ CopyOf(heap, source)
      /\ PathInv(source, Copied, frames, {}) /\ frames # <<>>
  BY DEF DirectiveInv, CopyInv
<1>2. IsDocument(source) /\ frames \in Seq(Frame)
  BY <1>1 DEF PathInv
<1>3. Top = frames[Len(frames)]
  BY DEF Top, Last
<1>4. Len(frames) \in 1..Len(frames)
  BY <1>1, <1>2, FramesTypes
<1>5. Top.target = Top.source
  BY <1>1, <1>3, <1>4 DEF PathInv, StackLinked
<1> QED
  BY <1>1, <1>2, <1>3, <1>5 DEF Rest, ToCome

\* A child that is copied is the next node, and belongs to the top's value.
LEMMA ChildIsNext ==
  ASSUME DirectiveInv, pc = "loop", Rest(Top) # {}
  PROVE  /\ Min(Rest(Top)) = Copied + 1 /\ Copied + 1 \in 1..Len(source)
         /\ source[Copied + 1].parent = Top.target
         /\ Top.target \in DOMAIN heap.values
         /\ source[Copied + 1].type \in ValueTypes
         /\ source[Copied + 1].parent = frames[Len(frames)].source
<1>1. /\ IsDocument(source) /\ HeapInv(heap)
      /\ PathInv(source, Copied, frames, {}) /\ frames # <<>>
      /\ Top = frames[Len(frames)] /\ Rest(Top) = ToCome(source, frames[Len(frames)])
      /\ Top.target = Top.source
  BY TopOfStack
<1>2. /\ Min(Rest(Top)) = Copied + 1 /\ Copied + 1 \in 1..Len(source)
      /\ source[Copied + 1].parent = frames[Len(frames)].source
  BY <1>1, NextNode
<1>3. Top.target \in DOMAIN heap.values
  <2>1. Len(frames) \in 1..Len(frames)
    BY <1>1, FramesTypes DEF PathInv
  <2>2. frames[Len(frames)].source \in 1..Copied
    BY <1>1, <2>1 DEF PathInv, StackLinked
  <2> QED
    BY <1>1, <2>2, HeapTypes DEF HeapInv, ListsInv, Copied
<1>4. source[Copied + 1].type \in ValueTypes
  BY <1>1, <1>2, DocumentTypes
<1> QED
  BY <1>1, <1>2, <1>3, <1>4

LEMMA CopyRootStep ==
  ASSUME DirectiveInv, CopyRoot
  PROVE  CopyInv'
<1>1. pc = "root" /\ source # Invalid /\ UNCHANGED <<source, frames>>
      /\ HeapInv(heap) /\ Untouched /\ status = -1 /\ element_data = Null
  BY DEF CopyRoot, DirectiveInv, CopyInv, DataInv, InParse
<1>2. IsDocument(source)
  BY <1>1 DEF DirectiveInv, TypeOK
<1>3. CASE /\ heap' = NewValue(heap, source[1].type)
           /\ pending' = [source |-> 1, target |-> Len(heap'.values)]
           /\ pc' = "push" /\ status' = status
  <2>1. HeapInv(heap') /\ CopyOf(heap', source) /\ Len(heap'.values) = 1
    BY <1>1, <1>2, <1>3, RootCopied DEF Untouched
  <2>2. PathInv(source, 1, frames, {1})
    BY <1>1, <1>2, RootPath DEF Untouched
  <2> QED
    BY <1>1, <1>3, <2>1, <2>2 DEF CopyInv, Copied
<1>4. CASE BuildFails(heap, NewValueOf(source[1].type))
  <2>1. heap' = heap
    <3>1. heap \in Heap /\ NewValueOf(source[1].type) \in Constructors
      BY <1>1, TheConstructors DEF HeapInv, ListsInv
    <3> QED
      BY <1>4, <3>1, Unbuilt
  <2>2. pc' \in {"free", "raised"} /\ status' = -1
    BY <1>1, <1>4, Unbuilding DEF Stopped, FailMemory
  <2> QED
    BY <1>1, <2>1, <2>2 DEF CopyInv
<1> QED
  BY <1>3, <1>4 DEF CopyRoot

LEMMA PushFrameStep ==
  ASSUME DirectiveInv, PushFrame
  PROVE  CopyInv'
<1>1. /\ pc = "push" /\ UNCHANGED <<source, heap>> /\ HeapInv(heap)
      /\ PathInv(source, Copied, frames, {Copied}) /\ CopyOf(heap, source)
      /\ pending = [source |-> Copied, target |-> Copied] /\ status = -1
      /\ source # Invalid
  BY DEF PushFrame, DirectiveInv, CopyInv, DataInv, InParse
<1>2. CASE /\ frames' = Append(frames, NewFrame(pending))
           /\ pc' = "loop" /\ status' = status
  <2>1. NewFrame(pending) = [source |-> Copied, at |-> Copied, target |-> Copied]
    BY <1>1 DEF NewFrame
  <2>2. PathInv(source, Copied, frames', {})
    BY <1>1, <1>2, <2>1, PushKeeps
  <2>3. frames' # <<>>
    <3>1. Len(frames') = Len(frames) + 1 /\ Len(frames) \in Nat
      <4>1. frames \in Seq(Frame) /\ NewFrame(pending) \in Frame
        BY <1>1, <2>1 DEF PathInv, Frame
      <4> QED
        BY <1>2, <4>1, LenProperties, AppendProperties
    <3>2. Len(frames') # 0
      BY <3>1
    <3> QED
      BY <3>2, EmptySeq
  <2> QED
    BY <1>1, <1>2, <2>2, <2>3 DEF CopyInv, Copied
<1>3. CASE pc' = "free" /\ status' = -1
  BY <1>1, <1>3 DEF CopyInv
<1> QED
  BY <1>2, <1>3 DEF PushFrame, FailMemory

LEMMA VisitChildStep ==
  ASSUME DirectiveInv, VisitChild
  PROVE  CopyInv'
<1> DEFINE w == Copied + 1
           e == NewValue(heap, source[w].type)
<1>1. /\ pc = "loop" /\ Rest(Top) # {} /\ UNCHANGED source /\ status = -1
      /\ source # Invalid
  BY DEF VisitChild, DirectiveInv, CopyInv, DataInv, InParse
<1>2. /\ IsDocument(source) /\ HeapInv(heap) /\ CopyOf(heap, source)
      /\ PathInv(source, Copied, frames, {}) /\ frames # <<>>
  BY <1>1, TopOfStack
<1>3. /\ Min(Rest(Top)) = w /\ w \in 1..Len(source)
      /\ source[w].parent = Top.target /\ Top.target \in DOMAIN heap.values
      /\ source[w].type \in ValueTypes /\ source[w].parent = frames[Len(frames)].source
  BY <1>1, ChildIsNext
<1>4. CASE CopyChild(w)
  <2>1. /\ heap' = AppendValue(e, source[w].parent, source[w].key, w)
        /\ frames' = [frames EXCEPT ![Len(frames)].at = w]
        /\ pc' = IF source[w].type \in Containers THEN "push" ELSE "loop"
        /\ pending' = [source |-> w, target |-> Len(heap'.values)]
        /\ status' = status
    BY <1>3, <1>4 DEF CopyChild, Copied
  <2>2. HeapInv(heap') /\ CopyOf(heap', source) /\ Len(heap'.values) = w
    <3>1. w = Len(heap.values) + 1
      BY DEF Copied
    <3> HIDE DEF w
    <3> QED
      BY <1>2, <1>3, <2>1, <3>1, ChildCopied
  <2>3. PathInv(source, w, frames', IF source[w].type \in Containers THEN {w} ELSE {})
    BY <1>2, <1>3, <2>1, ChildKeeps
  <2>4. frames' # <<>>
    <3>1. DOMAIN frames' = DOMAIN frames
      BY <2>1
    <3>2. frames \in Seq(Frame)
      BY <1>2 DEF PathInv
    <3>3. Len(frames) \in DOMAIN frames
      BY <1>2, <3>2, FramesTypes
    <3> QED
      BY <3>1, <3>3, EmptySeq
  <2> HIDE DEF w, e
  <2>5. CASE source[w].type \in Containers
    <3>1. pc' = "push" /\ PathInv(source, w, frames', {w})
      BY <2>1, <2>3, <2>5
    <3> QED
      BY <1>1, <2>1, <2>2, <3>1 DEF CopyInv, Copied
  <2>6. CASE source[w].type \notin Containers
    <3>1. pc' = "loop" /\ PathInv(source, w, frames', {})
      BY <2>1, <2>3, <2>6
    <3> QED
      BY <1>1, <2>1, <2>2, <2>4, <3>1 DEF CopyInv, Copied
  <2> QED
    BY <2>5, <2>6
<1>5. CASE CopyChildFails(w)
  <2>1. HeapInv(e)
    BY <1>2, <1>3, NewValueInv
  <2>2. HeapInv(heap')
    <3> DEFINE c == NewValueOf(source[w].type)
               d == AppendTo(heap.values[Top.target].type)
    <3>1. c \in Constructors /\ d \in Constructors /\ heap \in Heap /\ e \in Heap
      BY <1>2, <2>1, TheConstructors DEF HeapInv, ListsInv
    <3>2. BuildFails(heap, c) \/ BuildFails(e, d)
      BY <1>5 DEF CopyChildFails
    <3> HIDE DEF c, d, e
    <3>3. heap' = heap \/ heap' = e
      BY <3>1, <3>2, Unbuilt
    <3> QED
      BY <1>2, <2>1, <3>3
  <2>3. pc' \in {"free", "raised"} /\ status' = -1
    BY <1>1, <1>5, Unbuilding DEF CopyChildFails, Stopped, FailMemory
  <2> QED
    BY <2>2, <2>3 DEF CopyInv
<1> QED
  BY <1>3, <1>4, <1>5 DEF VisitChild

LEMMA LeaveContainerStep ==
  ASSUME DirectiveInv, LeaveContainer
  PROVE  CopyInv'
<1>1. /\ pc = "loop" /\ Rest(Top) = {} /\ frames' = Front(frames)
      /\ UNCHANGED <<source, heap>> /\ status = -1 /\ source # Invalid
      /\ IF Len(frames) = 1 THEN pc' = "free" /\ status' = 0
         ELSE UNCHANGED <<pc, status>>
  BY DEF LeaveContainer, DirectiveInv, CopyInv, DataInv, InParse
<1>2. /\ IsDocument(source) /\ HeapInv(heap) /\ CopyOf(heap, source)
      /\ PathInv(source, Copied, frames, {}) /\ frames # <<>>
      /\ Rest(Top) = ToCome(source, frames[Len(frames)])
  BY <1>1, TopOfStack
<1>3. /\ PathInv(source, Copied, frames', {})
      /\ Len(frames') = Len(frames) - 1
      /\ Len(frames) = 1 => Copied = Len(source)
  BY <1>1, <1>2, LeaveKeeps
<1>4. CASE Len(frames) = 1
  BY <1>1, <1>2, <1>3, <1>4 DEF CopyInv, Complete, Copied
<1>5. CASE Len(frames) # 1
  <2>1. Len(frames') # 0
    BY <1>2, <1>3, <1>5, FramesTypes DEF PathInv
  <2>2. frames' # <<>>
    BY <2>1, EmptySeq
  <2> QED
    BY <1>1, <1>2, <1>3, <1>5, <2>2 DEF CopyInv, Copied
<1> QED
  BY <1>4, <1>5

\* The other steps leave the copy alone.
LEMMA CopyStep ==
  ASSUME DirectiveInv, [Next]_vars
  PROVE  CopyInv'
<1>1. CopyInv /\ DataInv /\ ErrorInv
  BY DEF DirectiveInv
<1>2. ASSUME UNCHANGED <<source, heap, frames, capacity, pending, status>>,
             pc' # "push", pc' # "loop",
             pc' \in {"new", "wrap", "read", "root"} =>
                Untouched /\ element_data' = element_data,
             pc' = "root" => source # Invalid,
             pc' = "idle" /\ element_data' = Null => Untouched
      PROVE  CopyInv'
  BY <1>1, <1>2 DEF CopyInv, Untouched, Complete
<1>3. CASE Unknown
  BY <1>2, <1>3 DEF Unknown
<1>4. CASE Duplicate
  BY <1>2, <1>4 DEF Duplicate
<1>5. CASE \E text \in Documents \cup {Invalid} : Begin(text)
  <2>1. /\ pc = "idle" /\ element_data = Null /\ pc' = "new" /\ status = -1
        /\ UNCHANGED <<heap, frames, capacity, status, element_data>>
    BY <1>1, <1>5 DEF Begin, DataInv
  <2> QED
    BY <1>1, <2>1 DEF CopyInv, Untouched
<1>6. CASE NewPool
  BY <1>1, <1>2, <1>6 DEF NewPool, CopyInv
<1>7. CASE Wrap
  <2>1. CASE pc' = "read" /\ status' = status
    BY <1>1, <1>2, <1>7, <2>1 DEF Wrap, CopyInv
  <2>2. CASE pc' = "cleanup" /\ status' = -1
    BY <1>1, <1>7, <2>2 DEF Wrap, CopyInv
  <2> QED
    BY <1>7, <2>1, <2>2 DEF Wrap, FailMemory
<1>8. CASE Parse
  <2>1. CASE Read
    <3>1. UNCHANGED <<source, heap, frames, capacity, pending, element_data>> /\ pc = "read"
      BY <1>8, <2>1 DEF Parse, Read
    <3>2. CASE pc' = "root" /\ source # Invalid /\ status' = status
      BY <1>1, <1>2, <3>1, <3>2 DEF CopyInv
    <3>3. CASE pc' = "report" /\ status' = -1
      BY <1>1, <3>1, <3>3 DEF CopyInv
    <3> QED
      BY <2>1, <3>2, <3>3 DEF Read
  <2>2. CASE CopyRoot
    BY <2>2, CopyRootStep
  <2>3. CASE PushFrame
    BY <2>3, PushFrameStep
  <2>4. CASE VisitChild
    BY <2>4, VisitChildStep
  <2>5. CASE LeaveContainer
    BY <2>5, LeaveContainerStep
  <2>6. CASE FreeDocument
    BY <1>2, <2>6 DEF FreeDocument
  <2> QED
    BY <1>8, <2>1, <2>2, <2>3, <2>4, <2>5, <2>6 DEF Parse
<1>9. CASE SetData
  <2>1. /\ UNCHANGED <<source, heap, frames, capacity, pending>> /\ pc' = "cleanup"
        /\ status' = status \/ status' = -1
    BY <1>9 DEF SetData, FailMemory
  <2> QED
    BY <1>1, <2>1 DEF CopyInv, Complete
<1>10. CASE Cleanup
  BY <1>2, <1>10 DEF Cleanup
<1>11. CASE Answered
  <2>1. CASE pc' = "idle" /\ answer = "handled"
    BY <1>1, <1>2, <1>11, <2>1 DEF Answered, DataInv, Null
  <2>2. CASE pc' = "done"
    BY <1>2, <1>11, <2>2 DEF Answered
  <2> QED
    BY <1>11, <2>1, <2>2 DEF Answered
<1>12. CASE Raise
  BY <1>2, <1>12 DEF Raise
<1>13. CASE Ended \/ UNCHANGED vars
  <2>1. UNCHANGED <<pc, source, heap, frames, capacity, pending, status, element_data>>
    BY <1>13 DEF Ended, vars, json5Vars
  <2> QED
    BY <1>1, <2>1 DEF CopyInv, Untouched, Complete, Copied
<1> QED
  BY <1>3, <1>4, <1>5, <1>6, <1>7, <1>8, <1>9, <1>10, <1>11, <1>12, <1>13
     DEF Next, Step

-----------------------------------------------------------------------------
(* The data, the errors and the temporary pool *)

LEMMA DataStep ==
  ASSUME DirectiveInv, [Next]_vars
  PROVE  DataInv'
<1>1. /\ element_data \in {Null, 1} /\ status \in {0, -1}
      /\ element_data = 1 => status = 0
      /\ pc \in InParse \ {"cleanup"} => element_data = Null
      /\ pc \in {"cleanup", "idle", "answered", "done"} /\ status = 0 => element_data = 1
      /\ pc \in InParse \ {"free", "report", "cleanup"} => status = -1
      /\ pc = "idle" /\ element_data = Null => status = -1
      /\ pc = "answered" /\ answer = "handled" => element_data = 1
  BY DEF DirectiveInv, DataInv, TypeOK
\* Most steps change neither the data nor the status.
<1>2. ASSUME UNCHANGED <<element_data, status>>,
             pc' \in InParse \ {"cleanup"} => element_data = Null,
             pc' \in {"cleanup", "idle", "answered", "done"} /\ status = 0 => element_data = 1,
             pc' \in InParse \ {"free", "report", "cleanup"} => status = -1,
             pc' = "answered" /\ answer' = "handled" => element_data = 1
      PROVE  DataInv'
  BY <1>1, <1>2 DEF DataInv, Null
<1>3. CASE Unknown
  <2>1. pc = "idle" /\ pc' = "answered" /\ answer' = "unmatched"
        /\ UNCHANGED <<element_data, status>>
    BY <1>3 DEF Unknown
  <2> QED
    BY <1>1, <1>2, <2>1 DEF InParse
<1>4. CASE Duplicate
  <2>1. pc = "idle" /\ pc' = "answered" /\ answer' = "failed"
        /\ UNCHANGED <<element_data, status>>
    BY <1>4 DEF Duplicate
  <2> QED
    BY <1>1, <1>2, <2>1 DEF InParse
<1>5. CASE \E text \in Documents \cup {Invalid} : Begin(text)
  <2>1. pc = "idle" /\ pc' = "new" /\ element_data = Null /\ UNCHANGED <<element_data, status>>
    BY <1>5 DEF Begin
  <2> QED
    BY <1>1, <1>2, <2>1 DEF InParse
<1>6. CASE NewPool
  <2>1. /\ pc = "new" /\ UNCHANGED <<element_data, status>>
        /\ pc' = "wrap" \/ (pc' = "answered" /\ answer' = "failed")
    BY <1>6 DEF NewPool
  <2>2. element_data = Null /\ status = -1
    BY <1>1, <2>1 DEF InParse
  <2> QED
    BY <1>2, <2>1, <2>2 DEF InParse
<1>7. ASSUME element_data' = Null, status' = -1,
             pc' \in InParse \cup {"raised"} \/ (pc' = "answered" /\ answer' # "handled")
      PROVE  DataInv'
  BY <1>7 DEF DataInv, InParse, Null
<1>8. CASE Wrap
  <2>1. pc = "wrap" /\ pc' \in InParse /\ status' \in {status, -1} /\ element_data' = element_data
    BY <1>8 DEF Wrap, FailMemory, InParse
  <2> QED
    BY <1>1, <1>7, <2>1 DEF InParse
<1>9. CASE Parse
  <2>1. pc \in InParse \ {"report", "cleanup"} /\ element_data' = Null
    BY <1>1, <1>9 DEF Parse, Read, CopyRoot, PushFrame, VisitChild, LeaveContainer,
                      FreeDocument, InParse
  <2>2. CASE FreeDocument \/ LeaveContainer
    <3>1. /\ element_data' = element_data
          /\ \/ pc' = "report" /\ status' = status
             \/ pc' = "free" /\ status' = 0
             \/ pc' = "loop" /\ status' = status /\ pc = "loop"
      BY <1>9, <2>2 DEF Parse, FreeDocument, LeaveContainer
    <3>2. status' = status \/ status' = 0
      BY <3>1
    <3> QED
      BY <1>1, <2>1, <3>1, <3>2 DEF DataInv, InParse, Null
  <2>3. CASE Read \/ CopyRoot \/ PushFrame \/ VisitChild
    <3>1. /\ pc \in {"read", "root", "push", "loop"} /\ pc' \in InParse \cup {"raised"}
          /\ status' \in {status, -1}
      BY <2>3, Constructing DEF Read, PushFrame, Stopped, FailMemory, InParse
    <3>2. status' = -1
      BY <1>1, <3>1 DEF InParse
    <3> QED
      BY <1>7, <2>1, <3>1, <3>2
  <2> QED
    BY <1>9, <2>2, <2>3 DEF Parse
<1>10. CASE SetData
  <2>1. /\ pc' = "cleanup" /\ element_data = Null
        /\ \/ status # 0 /\ UNCHANGED <<status, element_data>>
           \/ status = 0 /\ status' = status /\ element_data' = 1
           \/ status' = -1 /\ element_data' = element_data
    BY <1>1, <1>10 DEF SetData, FailMemory, InParse
  <2> QED
    BY <1>1, <2>1 DEF DataInv, InParse, Null
<1>11. CASE Cleanup
  <2>1. /\ pc = "cleanup" /\ pc' = "answered" /\ UNCHANGED <<element_data, status>>
        /\ answer' = IF status = 0 THEN "handled" ELSE "failed"
    BY <1>11 DEF Cleanup
  <2>2. status = 0 => element_data = 1
    BY <1>1, <2>1
  <2>3. answer' = "handled" => status = 0
    BY <2>1
  <2> QED
    BY <1>2, <2>1, <2>2, <2>3 DEF InParse
<1>12. CASE Answered
  <2>1. /\ pc = "answered" /\ pc' \in {"idle", "done"} /\ UNCHANGED <<element_data, status>>
    BY <1>12 DEF Answered
  <2> QED
    BY <1>1, <1>2, <2>1 DEF InParse
<1>13. CASE Raise
  <2>1. pc' = "raised" /\ UNCHANGED <<element_data, status>>
    BY <1>13 DEF Raise
  <2> QED
    BY <1>2, <2>1 DEF InParse
<1>14. CASE Ended \/ UNCHANGED vars
  <2>1. UNCHANGED <<pc, element_data, status, answer>>
    BY <1>14 DEF Ended, vars, json5Vars
  <2> QED
    BY <1>1, <1>2, <2>1
<1> QED
  BY <1>3, <1>4, <1>5, <1>6, <1>8, <1>9, <1>10, <1>11, <1>12, <1>13, <1>14 DEF Next, Step

LEMMA ReleaseStep ==
  ASSUME DirectiveInv, [Next]_vars
  PROVE  ReleaseInv'
<1>1. ReleaseInv /\ registered \in BOOLEAN
  BY DEF DirectiveInv, TypeOK
<1>2. CASE Unknown \/ Duplicate \/ \E text \in Documents \cup {Invalid} : Begin(text)
  BY <1>1, <1>2 DEF ReleaseInv, Unknown, Duplicate, Begin, InParse
<1>3. CASE NewPool \/ Wrap
  BY <1>1, <1>3 DEF ReleaseInv, NewPool, Wrap, FailMemory, InParse
<1>4. CASE Parse
  <2>1. pc' \in (InParse \ {"new"}) \cup {"raised"}
    BY <1>4, Constructing DEF Parse, Read, PushFrame, LeaveContainer, FreeDocument, Stopped,
                              FailMemory, InParse
  <2> QED
    BY <2>1 DEF ReleaseInv
<1>5. CASE SetData \/ Cleanup \/ Answered
  BY <1>1, <1>5 DEF ReleaseInv, SetData, Cleanup, Answered, FailMemory, InParse
<1>6. CASE Raise \/ Ended \/ UNCHANGED vars
  BY <1>1, <1>6 DEF ReleaseInv, Raise, Ended, vars, json5Vars, InParse
<1> QED
  BY <1>2, <1>3, <1>4, <1>5, <1>6 DEF Next, Step

LEMMA StuckStep ==
  ASSUME DirectiveInv, [Next]_vars
  PROVE  StuckInv'
<1>1. StuckInv /\ status \in {0, -1}
  BY DEF DirectiveInv, TypeOK
<1>2. ASSUME stuck' = stuck, pc \notin {"free", "report", "cleanup", "answered", "done", "raised"}
      PROVE  StuckInv'
  BY <1>1, <1>2 DEF StuckInv
<1>3. CASE Unknown \/ Duplicate \/ \E text \in Documents \cup {Invalid} : Begin(text)
  BY <1>2, <1>3 DEF Unknown, Duplicate, Begin
<1>4. CASE NewPool \/ Wrap
  BY <1>2, <1>4 DEF NewPool, Wrap
<1>5. CASE Read \/ PushFrame \/ LeaveContainer
  BY <1>2, <1>5 DEF Read, PushFrame, LeaveContainer
<1>6. CASE CopyRoot \/ VisitChild
  <2>1. CASE UNCHANGED stuck
    BY <1>2, <1>6, <2>1, Constructing
  <2>2. ASSUME NEW h, NEW c \in Constructors, BuildFails(h, c)
        PROVE  StuckInv'
    <3>1. PICK f \in FailuresOf(c) : stuck' = stuck + f.stuck
      BY <2>2 DEF BuildFails
    <3>2. f.stuck \in Nat /\ (f.stuck # 0 => NilKeyAllocates \/ CallsRaise)
      BY NothingLeft
    <3>3. pc' = "raised" \/ (pc' = "free" /\ status' = -1 /\ reason' = "memory")
      BY <2>2, Unbuilding DEF Stopped, FailMemory
    <3> QED
      BY <1>1, <3>1, <3>2, <3>3 DEF StuckInv
  <2> QED
    BY <1>6, <2>1, <2>2, TheConstructors DEF CopyRoot, VisitChild, CopyChild, CopyChildFails
<1>7. CASE FreeDocument
  BY <1>1, <1>7 DEF FreeDocument, StuckInv
<1>8. CASE SetData
  BY <1>1, <1>8 DEF SetData, FailMemory, StuckInv
<1>9. CASE Cleanup
  BY <1>1, <1>9 DEF Cleanup, StuckInv
<1>10. CASE Answered
  BY <1>1, <1>10 DEF Answered, StuckInv
<1>11. CASE Raise
  BY <1>1, <1>11 DEF Raise, StuckInv
<1>12. CASE Ended \/ UNCHANGED vars
  BY <1>1, <1>12 DEF Ended, vars, json5Vars, StuckInv
<1> QED
  BY <1>3, <1>4, <1>5, <1>6, <1>7, <1>8, <1>9, <1>10, <1>11, <1>12 DEF Next, Step, Parse

\* Every way to fail leaves its own marks, and what happens before they are
\* read keeps them.
LEMMA ErrorStep ==
  ASSUME DirectiveInv, [Next]_vars
  PROVE  ErrorInv'
<1>1. /\ ErrorInv /\ DataInv /\ status \in {0, -1} /\ DataInv'
  BY DataStep DEF DirectiveInv, TypeOK
<1>2. ASSUME NotFailed', pc' \in InParse, status' # 0 => pc' \notin {"free", "report", "cleanup"}
      PROVE  ErrorInv'
  BY <1>2 DEF ErrorInv, NotFailed, InParse
<1>3. CASE Unknown
  <2>1. /\ pc = "idle" /\ pc' = "answered" /\ answer' = "unmatched"
        /\ UNCHANGED <<status, cause>>
    BY <1>3 DEF Unknown
  <2> QED
    BY <1>1, <2>1 DEF ErrorInv, InParse
<1>4. CASE Duplicate
  <2>1. /\ pc = "idle" /\ element_data # Null /\ pc' = "answered" /\ answer' = "failed"
        /\ reason' = "duplicate" /\ errno' = "EINVAL"
        /\ message' = "duplicate" /\ UNCHANGED <<status, cause>>
    BY <1>4 DEF Duplicate
  <2>2. status = 0 /\ cause = "none"
    BY <1>1, <2>1 DEF DataInv, ErrorInv, Null
  <2> QED
    BY <2>1, <2>2 DEF ErrorInv, AlreadySet, InParse
<1>5. CASE \E text \in Documents \cup {Invalid} : Begin(text)
  <2>1. /\ pc = "idle" /\ element_data = Null /\ pc' = "new"
        /\ UNCHANGED <<cause, reason, message>>
    BY <1>5 DEF Begin
  <2>2. NotFailed'
    BY <1>1, <2>1 DEF ErrorInv, NotFailed
  <2> QED
    BY <1>2, <2>1, <2>2 DEF InParse
<1>6. CASE NewPool
  <2>1. pc = "new" /\ NotFailed /\ UNCHANGED <<status, cause>> /\ status = -1
    BY <1>1, <1>6 DEF NewPool, ErrorInv, DataInv, InParse
  <2>2. CASE pc' = "wrap" /\ UNCHANGED <<message, reason>>
    BY <1>2, <2>1, <2>2 DEF NotFailed, InParse
  <2>3. CASE /\ pc' = "answered" /\ answer' = "failed"
             /\ errno' = "ENOMEM" /\ message' = "no memory to parse" /\ reason' = "memory"
    BY <2>1, <2>3 DEF ErrorInv, NotFailed, OutOfMemory, MemoryMessages, InParse
  <2> QED
    BY <1>6, <2>2, <2>3 DEF NewPool
\* The call fails for lack of memory before json5_parse's error is set.
<1>7. ASSUME NotFailed, pc' \in {"free", "cleanup"}, status' = -1,
             errno' = "ENOMEM", reason' = "memory", UNCHANGED <<cause, message>>
      PROVE  ErrorInv'
  BY <1>7 DEF ErrorInv, NotFailed, OutOfMemory, InParse
<1>8. CASE Wrap
  <2>1. NotFailed /\ UNCHANGED <<cause, message>> /\ status = -1
    BY <1>1, <1>8 DEF Wrap, ErrorInv, DataInv, InParse
  <2>2. CASE pc' = "read" /\ UNCHANGED <<status, reason>>
    BY <1>2, <2>1, <2>2 DEF NotFailed, InParse
  <2>3. CASE FailMemory("cleanup")
    BY <1>7, <2>1, <2>3 DEF FailMemory
  <2> QED
    BY <1>8, <2>2, <2>3 DEF Wrap
<1>9. CASE Parse
  <2>1. UNCHANGED message
    BY <1>9 DEF Parse
  <2>2. CASE Read
    <3>1. NotFailed
      BY <1>1, <2>2 DEF Read, ErrorInv, InParse
    <3>2. CASE pc' = "root" /\ UNCHANGED <<status, cause, reason>>
      BY <1>2, <2>1, <3>1, <3>2 DEF NotFailed, InParse
    <3>3. ASSUME NEW kind \in {"memory", "syntax"},
                 pc' = "report", status' = -1,
                 cause' = kind, errno' = ReadErrno(kind), reason' = kind
          PROVE  ErrorInv'
      BY <2>1, <3>1, <3>3 DEF ErrorInv, NotFailed, OutOfMemory, NotJson, ReadErrno, InParse
    <3> QED
      BY <2>2, <3>2, <3>3 DEF Read
  <2>3. CASE CopyRoot \/ PushFrame \/ VisitChild
    <3>1. /\ NotFailed /\ UNCHANGED cause /\ status = -1
          /\ \/ pc' \in {"push", "loop"} /\ reason' = reason
             \/ Stopped
      <4>1. CASE PushFrame
        BY <1>1, <4>1 DEF PushFrame, Stopped, ErrorInv, DataInv, InParse
      <4>2. CASE CopyRoot \/ VisitChild
        BY <1>1, <4>2, Constructing DEF ErrorInv, DataInv, InParse
      <4> QED
        BY <2>3, <4>1, <4>2
    <3>2. CASE pc' \in {"push", "loop"} /\ reason' = reason
      BY <1>2, <2>1, <3>1, <3>2 DEF NotFailed, InParse
    <3>3. CASE FailMemory("free")
      BY <1>7, <2>1, <3>1, <3>3 DEF FailMemory
    <3>4. CASE pc' = "raised" /\ UNCHANGED <<status, errno, reason>>
      BY <3>1, <3>4 DEF ErrorInv, InParse
    <3> QED
      BY <3>1, <3>2, <3>3, <3>4 DEF Stopped
  <2>4. CASE LeaveContainer
    <3>1. /\ NotFailed /\ UNCHANGED <<cause, reason>>
          /\ pc' \in {"loop", "free"} /\ (pc' = "free" => status' = 0)
      BY <1>1, <2>4 DEF LeaveContainer, ErrorInv, InParse
    <3> QED
      BY <1>2, <2>1, <3>1 DEF NotFailed, InParse
  <2>5. CASE FreeDocument
    <3>1. /\ pc = "free" /\ pc' = "report"
          /\ UNCHANGED <<cause, reason, errno, status>>
      BY <2>5 DEF FreeDocument
    <3>2. CASE status = 0
      BY <1>1, <1>2, <2>1, <3>1, <3>2 DEF ErrorInv, NotFailed, InParse
    <3>3. CASE status # 0
      <4>1. OutOfMemory' /\ cause = "none" /\ message' = "none"
        BY <1>1, <2>1, <3>1, <3>3 DEF ErrorInv, OutOfMemory
      <4> QED
        BY <3>1, <3>3, <4>1 DEF ErrorInv, InParse
    <3> QED
      BY <3>2, <3>3
  <2> QED
    BY <1>9, <2>2, <2>3, <2>4, <2>5 DEF Parse
<1>10. CASE SetData
  <2>1. pc = "report" /\ pc' = "cleanup" /\ UNCHANGED cause
    BY <1>10 DEF SetData, FailMemory
  <2>2. CASE status # 0 /\ message' = ParseMessage /\ UNCHANGED <<status, errno, reason>>
    <3>1. OutOfMemory \/ NotJson
      BY <1>1, <2>1, <2>2 DEF ErrorInv
    <3>2. CASE OutOfMemory
      <4>1. message' = "no memory to parse" /\ OutOfMemory'
        BY <2>1, <2>2, <3>2 DEF OutOfMemory, ParseMessage
      <4> QED
        BY <2>1, <2>2, <4>1 DEF ErrorInv, MemoryMessages, InParse
    <3>3. CASE NotJson
      <4>1. message' = "invalid" /\ NotJson'
        BY <2>1, <2>2, <3>3 DEF NotJson, ParseMessage
      <4> QED
        BY <2>1, <2>2, <4>1 DEF ErrorInv, InParse
    <3> QED
      BY <3>1, <3>2, <3>3
  <2>3. CASE status = 0 /\ UNCHANGED <<status, message, reason>>
    BY <1>1, <1>2, <2>1, <2>3 DEF ErrorInv, NotFailed, InParse
  <2>4. CASE status = 0 /\ FailMemory("cleanup") /\ message' = "no memory to build"
    <3>1. cause = "none" /\ OutOfMemory'
      BY <1>1, <2>1, <2>4 DEF ErrorInv, FailMemory, OutOfMemory
    <3>2. status' = -1 /\ message' \in MemoryMessages
      BY <2>4 DEF FailMemory, MemoryMessages
    <3> QED
      BY <2>1, <3>1, <3>2 DEF ErrorInv, InParse
  <2> QED
    BY <1>10, <2>2, <2>3, <2>4 DEF SetData
<1>11. CASE Cleanup
  <2>1. /\ pc = "cleanup" /\ pc' = "answered" /\ message' = DefaultMessage
        /\ answer' = IF status = 0 THEN "handled" ELSE "failed"
        /\ UNCHANGED <<status, cause, errno, reason>>
    BY <1>11 DEF Cleanup
  <2>2. CASE status = 0
    BY <1>1, <2>1, <2>2 DEF ErrorInv, InParse
  <2>3. CASE status # 0
    <3>1. \/ OutOfMemory /\ message \in MemoryMessages \cup {"none"}
          \/ NotJson /\ message = "invalid"
      BY <1>1, <2>1, <2>3 DEF ErrorInv
    <3>2. CASE OutOfMemory /\ message \in MemoryMessages \cup {"none"}
      <4>1. OutOfMemory' /\ message' \in MemoryMessages
        BY <2>1, <2>3, <3>2 DEF OutOfMemory, MemoryMessages, DefaultMessage
      <4> QED
        BY <2>1, <2>3, <4>1 DEF ErrorInv, InParse
    <3>3. CASE NotJson /\ message = "invalid"
      <4>1. NotJson' /\ message' = "invalid"
        BY <2>1, <2>3, <3>3 DEF NotJson, DefaultMessage
      <4> QED
        BY <2>1, <2>3, <4>1 DEF ErrorInv, InParse
    <3> QED
      BY <3>1, <3>2, <3>3
  <2> QED
    BY <2>2, <2>3
<1>12. CASE Answered
  <2>1. /\ pc' \in {"idle", "done"} /\ UNCHANGED <<status, cause, element_data>>
        /\ pc' = "idle" => pc = "answered" /\ answer = "handled"
    BY <1>12 DEF Answered
  <2>2. pc' = "idle" => element_data # Null
    BY <1>1, <2>1 DEF DataInv, Null
  <2> QED
    BY <1>1, <2>1, <2>2 DEF ErrorInv, InParse
<1>13. CASE Raise
  <2>1. pc' = "raised" /\ UNCHANGED <<status, cause>>
    BY <1>13 DEF Raise
  <2> QED
    BY <1>1, <2>1 DEF ErrorInv, InParse
<1>14. CASE Ended \/ UNCHANGED vars
  <2>1. UNCHANGED <<pc, element_data, status, answer, cause, errno, reason, message>>
    BY <1>14 DEF Ended, vars, json5Vars
  <2> QED
    BY <1>1, <2>1 DEF ErrorInv, NotFailed, OutOfMemory, NotJson, AlreadySet
<1> QED
  BY <1>3, <1>4, <1>5, <1>6, <1>8, <1>9, <1>10, <1>11, <1>12, <1>13, <1>14 DEF Next, Step

\* on_attribute reads the marks.
LEMMA ReportStep ==
  ASSUME DirectiveInv, [Next]_vars
  PROVE  ReportTrue'
<1>1. ReportTrue /\ ErrorInv
  BY DEF DirectiveInv
<1>2. CASE Answered
  <2> SUFFICES ASSUME pc' = "done", answer' = "failed"
               PROVE  ReportTrue'
    BY DEF ReportTrue
  <2>1. /\ pc = "answered" /\ answer = "failed" /\ UNCHANGED <<cause, errno, reason, message>>
        /\ reported' = IF errno = "ENOMEM"
                       THEN [message |-> message, cause |-> "none", place |-> FALSE]
                       ELSE [message |-> message, cause |-> cause, place |-> TRUE]
    BY <1>2 DEF Answered
  <2>2. \/ OutOfMemory /\ message \in MemoryMessages
        \/ NotJson /\ message = "invalid"
        \/ AlreadySet /\ message = "duplicate"
    BY <1>1, <2>1 DEF ErrorInv
  <2>3. CASE OutOfMemory /\ message \in MemoryMessages
    <3>1. /\ reported' = [message |-> message, cause |-> "none", place |-> FALSE]
          /\ reason' = "memory"
      BY <2>1, <2>3 DEF OutOfMemory
    <3> QED
      BY <2>3, <3>1 DEF ReportTrue, MemoryMessages
  <2>4. CASE NotJson /\ message = "invalid"
    <3>1. /\ reported' = [message |-> "invalid", cause |-> "syntax", place |-> TRUE]
          /\ reason' = "syntax"
      BY <2>1, <2>4 DEF NotJson
    <3> QED
      BY <3>1 DEF ReportTrue
  <2>5. CASE AlreadySet /\ message = "duplicate"
    <3>1. /\ reported' = [message |-> "duplicate", cause |-> "none", place |-> TRUE]
          /\ reason' = "duplicate"
      BY <2>1, <2>5 DEF AlreadySet
    <3> QED
      BY <3>1 DEF ReportTrue
  <2> QED
    BY <2>2, <2>3, <2>4, <2>5
<1>3. CASE Ended \/ UNCHANGED vars
  BY <1>1, <1>3 DEF ReportTrue, Ended, vars, json5Vars
<1>4. CASE Unknown \/ Duplicate \/ \E text \in Documents \cup {Invalid} : Begin(text)
  <2>1. pc' # "done"
    BY <1>4 DEF Unknown, Duplicate, Begin
  <2> QED
    BY <2>1 DEF ReportTrue
<1>5. CASE NewPool \/ Wrap \/ Parse \/ SetData \/ Cleanup \/ Raise
  <2>1. pc' # "done"
    BY <1>5, Constructing
       DEF NewPool, Wrap, Parse, SetData, Cleanup, Raise, FailMemory, Read, PushFrame,
           LeaveContainer, FreeDocument, Stopped
  <2> QED
    BY <2>1 DEF ReportTrue
<1> QED
  BY <1>2, <1>3, <1>4, <1>5 DEF Next, Step

\* A stack that is doubled has room for the frame that needs it.
LEMMA FitStep ==
  ASSUME DirectiveInv, [Next]_vars
  PROVE  FramesFit'
<1>1. /\ Len(frames) <= capacity /\ capacity <= MaxFrames
      /\ frames \in Seq(Frame) /\ Len(frames) \in Nat /\ capacity \in Nat
      /\ MaxFrames \in Nat /\ FirstCapacity \in Nat /\ FirstCapacity > 0
  BY LenProperties, Json5Assumption DEF DirectiveInv, TypeOK, FramesFit
<1>2. ASSUME UNCHANGED <<frames, capacity>> PROVE FramesFit'
  BY <1>1, <1>2 DEF FramesFit
<1>3. CASE Unknown \/ Duplicate \/ \E text \in Documents \cup {Invalid} : Begin(text)
  BY <1>2, <1>3 DEF Unknown, Duplicate, Begin
<1>4. CASE NewPool \/ Wrap \/ SetData \/ Cleanup \/ Answered \/ Raise
  BY <1>2, <1>4 DEF NewPool, Wrap, SetData, Cleanup, Answered, Raise
<1>5. CASE Ended \/ UNCHANGED vars
  BY <1>2, <1>5 DEF Ended, vars, json5Vars
<1>6. CASE Read \/ CopyRoot \/ FreeDocument
  BY <1>2, <1>6 DEF Read, CopyRoot, FreeDocument
<1>7. CASE PushFrame
  <2>1. CASE UNCHANGED <<frames, capacity>>
    BY <1>2, <2>1
  <2>2. CASE /\ Full => Doubled <= MaxFrames
             /\ capacity' = IF Full THEN Doubled ELSE capacity
             /\ frames' = Append(frames, NewFrame(pending))
    <3>1. NewFrame(pending) \in Frame
      BY DEF DirectiveInv, TypeOK, Pending, NewFrame, Frame
    <3>2. Len(frames') = Len(frames) + 1
      BY <1>1, <2>2, <3>1, AppendProperties
    <3>3. Doubled \in Nat /\ Doubled > capacity
      BY <1>1 DEF Doubled
    <3> QED
      BY <1>1, <2>2, <3>2, <3>3 DEF FramesFit, Full
  <2> QED
    BY <1>7, <2>1, <2>2 DEF PushFrame
<1>8. CASE VisitChild
  <2>1. capacity' = capacity /\ \E k : frames' = [frames EXCEPT ![Len(frames)].at = k]
    BY <1>8 DEF VisitChild, CopyChild, CopyChildFails
  <2>2. Len(frames') = Len(frames)
    BY <1>1, <2>1
  <2> QED
    BY <1>1, <2>1, <2>2 DEF FramesFit
<1>9. CASE LeaveContainer
  <2>1. pc = "loop" /\ Rest(Top) = {} /\ frames' = Front(frames) /\ capacity' = capacity
    BY <1>9 DEF LeaveContainer
  <2>2. Len(frames') = Len(frames) - 1
    BY <2>1, TopOfStack, LeaveKeeps
  <2> QED
    BY <1>1, <2>1, <2>2 DEF FramesFit
<1> QED
  BY <1>3, <1>4, <1>5, <1>6, <1>7, <1>8, <1>9 DEF Next, Step, Parse

-----------------------------------------------------------------------------
(* Types *)

LEMMA FramesStep ==
  ASSUME DirectiveInv, [Next]_vars
  PROVE  frames' \in Seq(Frame)
<1>1. frames \in Seq(Frame)
  BY DEF DirectiveInv, TypeOK
<1>2. CASE Unknown \/ Duplicate \/ \E text \in Documents \cup {Invalid} : Begin(text)
  BY <1>1, <1>2 DEF Unknown, Duplicate, Begin
<1>3. CASE NewPool \/ Wrap \/ SetData \/ Cleanup \/ Answered \/ Raise
  BY <1>1, <1>3 DEF NewPool, Wrap, SetData, Cleanup, Answered, Raise
<1>4. CASE Read \/ CopyRoot \/ FreeDocument \/ Ended \/ UNCHANGED vars
  BY <1>1, <1>4 DEF Read, CopyRoot, FreeDocument, Ended, vars, json5Vars
<1>5. CASE PushFrame
  <2>1. NewFrame(pending) \in Frame
    BY DEF DirectiveInv, TypeOK, Pending, NewFrame, Frame
  <2>2. frames' = frames \/ frames' = Append(frames, NewFrame(pending))
    BY <1>5 DEF PushFrame
  <2> QED
    BY <1>1, <2>1, <2>2, AppendProperties
<1>6. CASE VisitChild
  <2> DEFINE w == Copied + 1
             N == Len(frames)
             moved == [frames[N] EXCEPT !.at = w]
  <2>1. pc = "loop" /\ Rest(Top) # {} /\ Min(Rest(Top)) = w /\ frames # <<>> /\ w \in Nat
    <3>1. pc = "loop" /\ Rest(Top) # {}
      BY <1>6 DEF VisitChild
    <3>2. Min(Rest(Top)) = w /\ w \in 1..Len(source) /\ frames # <<>> /\ IsDocument(source)
      BY <3>1, ChildIsNext, TopOfStack
    <3> QED
      BY <3>1, <3>2, DocumentTypes
  <2>2. frames' = [frames EXCEPT ![N] = moved]
    BY <1>6, <2>1 DEF VisitChild, CopyChild, CopyChildFails
  <2>3. N \in 1..N /\ frames[N] \in Frame
    BY <1>1, <2>1, FramesTypes
  <2>4. moved \in Frame
    <3> HIDE DEF N, w
    <3> QED
      BY <2>1, <2>3 DEF Frame
  <2> HIDE DEF moved, N
  <2> QED
    BY <1>1, <2>2, <2>3, <2>4, ExceptSeq DEF N
<1>7. CASE LeaveContainer
  <2>1. pc = "loop" /\ Rest(Top) = {} /\ frames' = Front(frames)
    BY <1>7 DEF LeaveContainer
  <2>2. PathInv(source, Copied, frames', {})
    BY <2>1, TopOfStack, LeaveKeeps
  <2> QED
    BY <2>2 DEF PathInv
<1> QED
  BY <1>2, <1>3, <1>4, <1>5, <1>6, <1>7 DEF Next, Step, Parse

LEMMA PlaceStep ==
  ASSUME DirectiveInv, [Next]_vars
  PROVE  /\ pc' \in InParse \cup {"idle", "answered", "done", "raised"}
         /\ source' = Invalid \/ IsDocument(source')
         /\ capacity' \in Nat
         /\ pending' \in Pending
<1>1. /\ pc \in InParse \cup {"idle", "answered", "done", "raised"}
      /\ source = Invalid \/ IsDocument(source)
      /\ capacity \in Nat /\ pending \in Pending
  BY DEF DirectiveInv, TypeOK
<1>2. pc' \in InParse \cup {"idle", "answered", "done", "raised"}
  <2>1. CASE Unknown \/ Duplicate \/ (\E text \in Documents \cup {Invalid} : Begin(text)) \/ Raise
    BY <2>1 DEF Unknown, Duplicate, Begin, Raise, InParse
  <2>2. CASE NewPool \/ Wrap \/ SetData \/ Cleanup \/ Answered
    BY <2>2 DEF NewPool, Wrap, SetData, Cleanup, Answered, FailMemory, InParse
  <2>3. CASE Read \/ FreeDocument \/ PushFrame
    BY <2>3 DEF Read, FreeDocument, PushFrame, FailMemory, InParse
  <2>4. CASE CopyRoot \/ VisitChild \/ LeaveContainer
    BY <1>1, <2>4, Constructing DEF LeaveContainer, Stopped, FailMemory, InParse
  <2>5. CASE Ended \/ UNCHANGED vars
    BY <1>1, <2>5 DEF Ended, vars, json5Vars
  <2> QED
    BY <2>1, <2>2, <2>3, <2>4, <2>5 DEF Next, Step, Parse
<1>3. source' = Invalid \/ IsDocument(source')
  <2>1. CASE \E text \in Documents \cup {Invalid} : Begin(text)
    BY <2>1, Json5Assumption DEF Begin
  <2>2. CASE UNCHANGED source
    BY <1>1, <2>2
  <2> QED
    BY <2>1, <2>2 DEF Next, Step, Parse, Unknown, Duplicate, Raise, NewPool, Wrap, SetData,
           Cleanup, Answered, Read, CopyRoot, FreeDocument, PushFrame, VisitChild,
           LeaveContainer, Ended, vars, json5Vars
<1>4. capacity' \in Nat
  <2>1. CASE PushFrame
    BY <1>1, <2>1, Json5Assumption DEF PushFrame, Doubled
  <2>2. CASE UNCHANGED capacity
    BY <1>1, <2>2
  <2> QED
    BY <2>1, <2>2 DEF Next, Step, Parse, Unknown, Duplicate, Begin, Raise, NewPool, Wrap,
           SetData, Cleanup, Answered, Read, CopyRoot, FreeDocument, VisitChild,
           LeaveContainer, Ended, vars, json5Vars
<1>5. pending' \in Pending
  <2>1. CASE CopyRoot \/ VisitChild
    <3>1. Len(heap'.values) \in Nat
      BY CopyStep, HeapTypes DEF CopyInv, HeapInv, ListsInv
    <3>2. CASE CopyRoot
      BY <1>1, <3>1, <3>2 DEF CopyRoot, Pending
    <3>3. CASE VisitChild
      <4>1. pc = "loop" /\ Rest(Top) # {}
        BY <3>3 DEF VisitChild
      <4>2. Min(Rest(Top)) \in Nat
        BY <4>1, ChildIsNext, TopOfStack, DocumentTypes
      <4> QED
        BY <1>1, <3>1, <3>3, <4>2 DEF VisitChild, CopyChild, CopyChildFails, Pending
    <3> QED
      BY <2>1, <3>2, <3>3
  <2>2. CASE UNCHANGED pending
    BY <1>1, <2>2
  <2> QED
    BY <2>1, <2>2 DEF Next, Step, Parse, Unknown, Duplicate, Begin, Raise, NewPool, Wrap,
           SetData, Cleanup, Answered, Read, PushFrame, LeaveContainer, FreeDocument,
           Ended, vars, json5Vars
<1> QED
  BY <1>2, <1>3, <1>4, <1>5

LEMMA AnswersStep ==
  ASSUME DirectiveInv, [Next]_vars
  PROVE  /\ status' \in {0, -1} /\ cause' \in Causes /\ errno' \in Errnos
         /\ reason' \in Reasons /\ registered' \in BOOLEAN
         /\ message' \in Messages /\ answer' \in {"handled", "unmatched", "failed"}
         /\ reported' \in Report
<1>1. /\ status \in {0, -1} /\ cause \in Causes /\ errno \in Errnos
      /\ reason \in Reasons /\ registered \in BOOLEAN
      /\ message \in Messages /\ answer \in {"handled", "unmatched", "failed"}
      /\ reported \in Report
  BY DEF DirectiveInv, TypeOK
<1>2. CASE Unknown \/ Duplicate \/ (\E text \in Documents \cup {Invalid} : Begin(text)) \/ Raise
  <2>1. CASE Unknown
    BY <1>1, <2>1 DEF Unknown, Messages
  <2>2. CASE Duplicate
    BY <1>1, <2>2 DEF Duplicate, Errnos, Reasons, Messages
  <2>3. CASE (\E text \in Documents \cup {Invalid} : Begin(text)) \/ Raise
    BY <1>1, <2>3 DEF Begin, Raise
  <2> QED
    BY <1>2, <2>1, <2>2, <2>3
<1>3. CASE NewPool \/ Wrap
  BY <1>1, <1>3 DEF NewPool, Wrap, FailMemory, MayTouchErrno, Errnos, Reasons, Messages
<1>4. CASE Parse
  <2>1. UNCHANGED <<registered, message, answer, reported>>
    BY <1>4 DEF Parse
  <2>2. CASE Read
    BY <1>1, <2>1, <2>2 DEF Read, ReadErrno, MayTouchErrno, Errnos, Reasons, Causes
  <2>3. CASE CopyRoot \/ PushFrame \/ VisitChild
    <3>1. /\ status' = status \/ status' = -1
          /\ cause' = cause
          /\ errno' \in {errno, "ENOMEM"} /\ reason' \in {reason, "memory"}
      BY <2>3, Constructing DEF PushFrame, Stopped, FailMemory, MayTouchErrno
    <3> QED
      BY <1>1, <2>1, <3>1 DEF Errnos, Reasons
  <2>4. CASE LeaveContainer \/ FreeDocument
    BY <1>1, <2>1, <2>4 DEF LeaveContainer, FreeDocument
  <2> QED
    BY <1>4, <2>2, <2>3, <2>4 DEF Parse
<1>5. CASE SetData
  <2>1. ParseMessage \in Messages
    BY DEF ParseMessage, Messages
  <2> QED
    BY <1>1, <1>5, <2>1 DEF SetData, FailMemory, MayTouchErrno, Errnos, Reasons, Messages
<1>6. CASE Cleanup
  <2>1. DefaultMessage \in Messages
    BY <1>1 DEF DefaultMessage, Messages
  <2> QED
    BY <1>1, <1>6, <2>1 DEF Cleanup
<1>7. CASE Answered
  <2>1. \/ UNCHANGED reported
        \/ \E text \in Messages \cup {"not supported"}, why \in Causes, where \in BOOLEAN :
             reported' = [message |-> text, cause |-> why, place |-> where]
    BY <1>1, <1>7 DEF Answered, Causes
  <2>2. reported' \in Report
    <3>1. CASE UNCHANGED reported
      BY <1>1, <3>1
    <3>2. ASSUME NEW text \in Messages \cup {"not supported"}, NEW why \in Causes,
                 NEW where \in BOOLEAN,
                 reported' = [message |-> text, cause |-> why, place |-> where]
          PROVE  reported' \in Report
      <4>1. [message |-> text, cause |-> why, place |-> where] \in Report
        BY DEF Report
      <4> QED
        BY <3>2, <4>1
    <3> QED
      BY <2>1, <3>1, <3>2
  <2> QED
    BY <1>1, <1>7, <2>2 DEF Answered
<1>8. CASE Ended \/ UNCHANGED vars
  BY <1>1, <1>8 DEF Ended, vars, json5Vars
<1> QED
  BY <1>2, <1>3, <1>4, <1>5, <1>6, <1>7, <1>8 DEF Next, Step

-----------------------------------------------------------------------------
(* What follows for the specification *)

LEMMA DirectiveInit ==
  ASSUME Init
  PROVE  DirectiveInv
<1>1. CopyInv
  BY CopyInit
<1>2. TypeOK
  <2>1. heap \in Heap /\ element_data \in 0..Len(heap.values)
    BY <1>1, HeapTypes DEF Init, CopyInv, HeapInv, ListsInv, Null
  <2>2. frames \in Seq(Frame)
    BY EmptySeq DEF Init
  <2>3. pending \in Pending /\ reported \in Report
    BY DEF Init, Pending, Null, Report, NoReport, Messages, Causes
  <2> QED
    BY <2>1, <2>2, <2>3 DEF Init, TypeOK, Causes, Messages, Reasons
<1>3. FramesFit
  BY EmptySeq, Json5Assumption DEF Init, FramesFit
<1>4. DataInv /\ ErrorInv /\ ReportTrue /\ ReleaseInv
  BY DEF Init, DataInv, ErrorInv, NotFailed, ReportTrue, ReleaseInv, InParse, Null
<1>5. StuckInv
  BY DEF Init, StuckInv
<1> QED
  BY <1>1, <1>2, <1>3, <1>4, <1>5 DEF DirectiveInv

LEMMA DirectiveStep ==
  ASSUME DirectiveInv, [Next]_vars
  PROVE  DirectiveInv'
<1>1. CopyInv' /\ DataInv'
  BY CopyStep, DataStep
<1>2. heap' \in Heap /\ element_data' \in 0..Len(heap'.values)
  <2>1. heap' \in Heap /\ Len(heap'.values) \in Nat
    BY <1>1, HeapTypes DEF CopyInv, HeapInv, ListsInv
  <2>2. element_data' = 1 => Len(heap'.values) >= 1
    <3>1. element_data' = 1 => Complete'
      BY <1>1 DEF CopyInv, DataInv
    <3> QED
      BY <2>1, <3>1 DEF Complete, CopyOf, TypesCopied
  <2> QED
    BY <1>1, <2>1, <2>2 DEF DataInv, Null
<1>3. TypeOK'
  BY <1>2, StuckStep, FramesStep, PlaceStep, AnswersStep DEF TypeOK, StuckInv
<1> QED
  BY <1>1, <1>3, FitStep, ErrorStep, ReportStep, ReleaseStep, StuckStep DEF DirectiveInv

LEMMA DirectiveAlways == Spec => []DirectiveInv
  BY DirectiveInit, DirectiveStep, PTL DEF Spec

(***************************************************************************)
(* The type invariant.                                                     *)
(***************************************************************************)
THEOREM DirectiveTypeCorrect == Spec => []TypeOK
<1>1. DirectiveInv => TypeOK
  BY DEF DirectiveInv
<1> QED
  BY <1>1, DirectiveAlways, PTL

(***************************************************************************)
(* copy_tree's stack is the path from the root to the node at hand, in     *)
(* every document, and no frame is written outside its block.              *)
(***************************************************************************)
THEOREM StackSound == Spec => []FramesSound
<1>1. DirectiveInv => FramesSound
  <2> SUFFICES ASSUME DirectiveInv PROVE FramesSound
    OBVIOUS
  <2>1. FramesFit
    BY DEF DirectiveInv
  <2>2. ASSUME pc \in {"push", "loop"}
        PROVE  /\ \A i \in DOMAIN frames :
                    /\ frames[i].target = frames[i].source
                    /\ i < Len(frames) => frames[i].at = frames[i + 1].source
               /\ \A v \in DOMAIN heap.values : heap.values[v].type = source[v].type
    <3>1. /\ CopyOf(heap, source)
          /\ \E open : PathInv(source, Copied, frames, open)
      BY <2>2 DEF DirectiveInv, CopyInv
    <3>2. frames \in Seq(Frame) /\ StackLinked(source, Copied, frames)
      BY <3>1 DEF PathInv
    <3>3. DOMAIN frames = 1..Len(frames)
      BY <3>2, FramesTypes
    <3> QED
      BY <3>1, <3>2, <3>3 DEF StackLinked, CopyOf, TypesCopied
  <2>3. ASSUME pc = "push"
        PROVE  /\ pending = [source |-> Copied, target |-> Copied]
               /\ frames # <<>> => Top.at = pending.source
    <3>1. /\ pending = [source |-> Copied, target |-> Copied]
          /\ PathInv(source, Copied, frames, {Copied})
      BY <2>3 DEF DirectiveInv, CopyInv
    <3>2. frames # <<>> => frames[Len(frames)].at = Copied
      BY <3>1 DEF PathInv, OpenIsLast
    <3>3. Top = frames[Len(frames)]
      BY DEF Top, Last
    <3> QED
      BY <3>1, <3>2, <3>3
  <2> QED
    BY <2>1, <2>2, <2>3 DEF FramesSound, FramesFollowDocument, Copied
<1> QED
  BY <1>1, DirectiveAlways, PTL

(***************************************************************************)
(* Whichever block of whichever constructor is refused, the code releases  *)
(* those before it: no string is left that no value refers to, and every   *)
(* list agrees with what its reader meets.  A block that the pool has kept *)
(* is there only on the versions of Lua where its calls do that, and after *)
(* a failure.                                                              *)
(***************************************************************************)
THEOREM ValuesSound == Spec => []HeapSound
<1>1. DirectiveInv => HeapSound
  BY DEF DirectiveInv, CopyInv, HeapInv, ListsInv, StuckInv, HeapSound
<1> QED
  BY <1>1, DirectiveAlways, PTL

(***************************************************************************)
(* The temporary pool is given up on every path that returns.              *)
(***************************************************************************)
THEOREM PoolGivenUp == Spec => []ReleasedUnlessRaised
<1>1. DirectiveInv => ReleasedUnlessRaised
  BY DEF DirectiveInv, ReleaseInv, ReleasedUnlessRaised, InParse
<1> QED
  BY <1>1, DirectiveAlways, PTL

(***************************************************************************)
(* The user is told what went wrong.                                       *)
(***************************************************************************)
THEOREM ErrorsTold == Spec => []ReportTrue
<1>1. DirectiveInv => ReportTrue
  BY DEF DirectiveInv
<1> QED
  BY <1>1, DirectiveAlways, PTL

-----------------------------------------------------------------------------
(* The refinement *)

TheValue == IF source = Invalid THEN NoTree ELSE DocumentTree(source)
TheData == IF pc = "cleanup" THEN NoTree ELSE TreeOf(heap, element_data)

LEMMA DataIs ==
  ASSUME DirectiveInv
  PROVE  /\ element_data = Null => TheData = NoTree
         /\ element_data = 1 => TreeOf(heap, 1) = TheValue /\ TheValue # NoTree
<1>1. ListsInv(heap)
  BY DEF DirectiveInv, CopyInv, HeapInv
<1>2. element_data = Null => TheData = NoTree
  BY <1>1, NoTreeOfNull DEF TheData
<1>3. ASSUME element_data = 1 PROVE TreeOf(heap, 1) = TheValue /\ TheValue # NoTree
  <2>1. Complete
    BY <1>3 DEF DirectiveInv, CopyInv, DataInv
  <2>2. TreeOf(heap, 1) = TheValue
    BY <1>1, <2>1, CopyIsTree DEF Complete, TheValue
  <2>3. TreeOf(heap, 1).type = heap.values[1].type
    <3>1. PICK t : TreeSolved(heap, t) /\ \A v : TreeOf(heap, v) = t[v]
      BY <1>1, TreeOfSolved
    <3>2. Len(heap.values) \in Nat /\ Len(heap.values) >= 1
      BY <1>1, <2>1, HeapTypes DEF ListsInv, Complete, CopyOf, TypesCopied
    <3>3. 1 \in 0..Len(heap.values)
      BY <3>2
    <3>4. t[1] = TreeStep(heap, t, 1)
      BY <3>1, <3>3 DEF TreeSolved
    <3> QED
      BY <3>1, <3>4 DEF TreeStep, Null
  <2>4. heap.values[1].type # "none"
    <3>1. 1 \in DOMAIN heap.values /\ heap \in Heap
      BY <1>1, <2>1, HeapTypes DEF ListsInv, Complete, CopyOf, TypesCopied
    <3> QED
      BY <3>1, HeapTypes DEF ValueTypes, Containers
  <2> QED
    BY <2>2, <2>3, <2>4 DEF NoTree
<1> QED
  BY <1>2, <1>3

LEMMA PromiseInit ==
  ASSUME Init
  PROVE  TheData = NoTree /\ answer = "unmatched"
  BY DirectiveInit, DataIs DEF Init

\* What each step is to the element.
LEMMA PromiseStep ==
  ASSUME DirectiveInv, [Next]_vars
  PROVE  \/ UNCHANGED <<TheData, answer>>
         \/ /\ TheData = NoTree /\ TheValue # NoTree
            /\ TheData' = TheValue /\ answer' = "handled" /\ UNCHANGED TheValue
         \/ answer' \in {"unmatched", "failed"} /\ UNCHANGED <<TheValue, TheData>>
<1>1. DirectiveInv' /\ DataInv /\ DataInv'
  BY DirectiveStep DEF DirectiveInv
<1>2. /\ element_data = Null => TheData = NoTree
      /\ element_data = 1 => TreeOf(heap, 1) = TheValue /\ TheValue # NoTree
  BY DataIs
<1>3. element_data' = Null => TheData' = NoTree
  <2>1. ListsInv(heap')
    BY <1>1 DEF DirectiveInv, CopyInv, HeapInv
  <2> QED
    BY <2>1, NoTreeOfNull DEF TheData
<1>4. ASSUME UNCHANGED <<heap, element_data>>, pc # "cleanup", pc' # "cleanup"
      PROVE  UNCHANGED TheData
  BY <1>4 DEF TheData
<1>5. ASSUME UNCHANGED source PROVE UNCHANGED TheValue
  BY <1>5 DEF TheValue
<1>6. CASE Unknown
  BY <1>4, <1>5, <1>6 DEF Unknown
<1>7. CASE Duplicate
  BY <1>4, <1>5, <1>7 DEF Duplicate
<1>8. CASE NewPool
  BY <1>4, <1>5, <1>8 DEF NewPool
<1>9. CASE Cleanup
  <2>1. /\ pc = "cleanup" /\ pc' = "answered" /\ UNCHANGED <<source, heap, element_data, status>>
        /\ answer' = IF status = 0 THEN "handled" ELSE "failed"
    BY <1>9 DEF Cleanup
  <2>2. TheData = NoTree
    BY <2>1 DEF TheData
  <2>3. CASE status = 0
    <3>1. element_data = 1
      BY <1>1, <2>1, <2>3 DEF DataInv
    <3>2. TheData' = TheValue
      BY <1>2, <2>1, <3>1 DEF TheData
    <3> QED
      BY <1>2, <1>5, <2>1, <2>2, <2>3, <3>1, <3>2
  <2>4. CASE status # 0
    <3>1. element_data' = Null
      BY <1>1, <2>1, <2>4 DEF DataInv
    <3> QED
      BY <1>3, <1>5, <2>1, <2>2, <2>4, <3>1
  <2> QED
    BY <2>3, <2>4
<1>10. CASE SetData
  <2>1. pc = "report" /\ pc' = "cleanup" /\ UNCHANGED answer
    BY <1>10 DEF SetData, FailMemory
  <2>2. element_data = Null
    BY <1>1, <2>1 DEF DataInv, InParse
  <2>3. TheData' = NoTree
    BY <2>1 DEF TheData
  <2> QED
    BY <1>2, <2>1, <2>2, <2>3
<1>11. CASE Wrap \/ Parse
  <2>1. pc \in InParse \ {"cleanup"} /\ UNCHANGED <<element_data, answer>>
    BY <1>11 DEF Wrap, Parse, Read, CopyRoot, PushFrame, VisitChild, LeaveContainer,
                 FreeDocument, InParse
  <2>2. element_data = Null
    BY <1>1, <2>1 DEF DataInv
  <2> QED
    BY <1>2, <1>3, <2>1, <2>2
<1>12. CASE (\E text \in Documents \cup {Invalid} : Begin(text)) \/ Answered
  BY <1>4, <1>12 DEF Begin, Answered
<1>13. CASE Raise
  BY <1>4, <1>13 DEF Raise, InParse
<1>14. CASE Ended \/ UNCHANGED vars
  BY <1>14 DEF Ended, vars, json5Vars, TheData
<1> QED
  BY <1>6, <1>7, <1>8, <1>9, <1>10, <1>11, <1>12, <1>13, <1>14 DEF Next, Step

(***************************************************************************)
(* parse_data implements what directive_parse.h promises: with "handled"   *)
(* the element has the whole document, with any other answer what it had.  *)
(***************************************************************************)
THEOREM PromiseKept == Spec => KeepsPromise
<1>1. Init => Promise!Init
  BY PromiseInit DEF Promise!Init, TheData
<1>2. DirectiveInv /\ [Next]_vars =>
        [Promise!Next]_<<IF source = Invalid THEN NoTree ELSE DocumentTree(source),
                         IF pc = "cleanup" THEN NoTree ELSE TreeOf(heap, element_data),
                         answer>>
  <2> SUFFICES ASSUME DirectiveInv, [Next]_vars
               PROVE  Promise!Next
    OBVIOUS
  <2> QED
    BY PromiseStep DEF Promise!Next, Promise!NextAttribute, Promise!Handled,
       Promise!NotMatched, Promise!Refused, TheData, TheValue
<1> QED
  BY <1>1, <1>2, DirectiveAlways, PTL DEF Spec, KeepsPromise, Promise!Spec
=============================================================================
