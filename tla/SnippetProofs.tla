--------------------------- MODULE SnippetProofs ---------------------------
(***************************************************************************)
(* Snippets for every source, range, context and start tag: locations are  *)
(* the ones an editor shows, the rows are the lines asked for with the     *)
(* carets under the range, and an error's range is its start tag.          *)
(***************************************************************************)
EXTENDS ErrorPlace, FiniteSetTheorems, WellFoundedInduction, TLAPS

-----------------------------------------------------------------------------
(* Natural numbers.  Induction is by the least counterexample. *)

LEMMA LeastElement ==
  ASSUME NEW S \in SUBSET Nat, S # {}
  PROVE  \E x \in S : \A y \in S : x <= y
<1> DEFINE R == OpToRel(<, Nat)
<1>1. IsWellFoundedOn(R, Nat)
  BY NatLessThanWellFounded
<1>2. \A m, n \in Nat : m < n => <<m, n>> \in R
  BY DEF OpToRel
<1> HIDE DEF R
<1>3. PICK x \in S : \A y \in S : ~ (<<y, x>> \in R)
  BY <1>1, WFMin
<1>4. ASSUME NEW y \in S PROVE x <= y
  <2>1. x \in Nat /\ y \in Nat
    OBVIOUS
  <2>2. ~ (y < x)
    BY <1>2, <1>3, <2>1
  <2> QED
    BY <2>1, <2>2
<1> QED
  BY <1>4

LEMMA Induction ==
  ASSUME NEW S \in SUBSET Nat, NEW m \in Nat, m \in S,
         \A n \in S : n + 1 \in S
  PROVE  \A n \in Nat : n >= m => n \in S
<1> SUFFICES ASSUME NEW n \in Nat, n >= m, n \notin S
             PROVE  FALSE
  OBVIOUS
<1> DEFINE T == {k \in Nat : k >= m /\ k \notin S}
<1>1. PICK k \in T : \A j \in T : k <= j
  <2>1. T \in SUBSET Nat /\ n \in T
    OBVIOUS
  <2> HIDE DEF T
  <2> QED
    BY <2>1, LeastElement
<1>2. k - 1 \in Nat /\ k - 1 >= m
  BY <1>1
<1>3. k - 1 \notin S
  BY <1>1, <1>2
<1>4. k - 1 \in T
  BY <1>2, <1>3
<1> QED
  BY <1>1, <1>2, <1>4

LEMMA Least ==
  ASSUME NEW S \in SUBSET Nat, S # {}
  PROVE  Min(S) \in S /\ \A y \in S : Min(S) <= y
<1>1. PICK x \in S : \A y \in S : x <= y
  BY LeastElement
<1> QED
  BY <1>1 DEF Min

LEMMA Greatest ==
  ASSUME NEW S, NEW bound \in Nat, S \subseteq 0..bound, S # {}
  PROVE  Max(S) \in S /\ \A y \in S : y <= Max(S)
<1> DEFINE T == {n \in 0..bound : bound - n \in S}
<1>1. T \in SUBSET Nat
  OBVIOUS
<1>2. PICK s \in S : TRUE
  OBVIOUS
<1>3. bound - s \in 0..bound /\ bound - (bound - s) = s
  OBVIOUS
<1>4. T # {}
  BY <1>2, <1>3
<1> HIDE DEF T
<1>5. PICK n \in T : \A m \in T : n <= m
  BY <1>1, <1>4, LeastElement
<1>6. n \in 0..bound /\ bound - n \in S
  BY <1>5 DEF T
<1>7. ASSUME NEW y \in S PROVE bound - n >= y
  <2>1. bound - y \in 0..bound /\ bound - (bound - y) = y
    OBVIOUS
  <2>2. bound - y \in T
    BY <2>1 DEF T
  <2> QED
    BY <2>1, <2>2, <1>5, <1>6
<1>8. \E x \in S : \A y \in S : x >= y
  BY <1>6, <1>7
<1>9. Max(S) \in S /\ \A y \in S : Max(S) >= y
  BY <1>8 DEF Max
<1> QED
  BY <1>9

\* Where least and greatest elements are known.
LEMMA LeastIs ==
  ASSUME NEW S \in SUBSET Nat, NEW x \in S, \A y \in S : x <= y
  PROVE  Min(S) = x
<1>1. Min(S) \in S /\ Min(S) <= x /\ x <= Min(S)
  BY Least
<1>2. Min(S) \in Nat /\ x \in Nat
  BY <1>1
<1> QED
  BY <1>1, <1>2

LEMMA GreatestIs ==
  ASSUME NEW S, NEW bound \in Nat, S \subseteq 0..bound,
         NEW x \in S, \A y \in S : y <= x
  PROVE  Max(S) = x
<1>1. Max(S) \in S /\ Max(S) <= x /\ x <= Max(S)
  BY Greatest
<1>2. \A y \in S : y \in Nat
  OBVIOUS
<1>3. Max(S) \in Nat /\ x \in Nat
  BY <1>1, <1>2
<1> QED
  BY <1>1, <1>3

-----------------------------------------------------------------------------
(* Lines of a text, as Snippet has them of the source *)

BreaksIn(t) == {k \in 0..(Len(t) - 1) : t[k + 1] = NewLine}
Before(t, o) == {k \in BreaksIn(t) : k < o}
LineIn(t, o) == Cardinality(Before(t, o)) + 1
OnLineIn(t, number) == {k \in 0..Len(t) : LineIn(t, k) = number}
LinesIn(t) == Cardinality(BreaksIn(t)) + 1
BeginOf(t, o) == Min(OnLineIn(t, LineIn(t, o)))
EndOf(t, o) == Max(OnLineIn(t, LineIn(t, o)))

\* No break from a on to before b.
Unbroken(t, a, b) == \A k \in BreaksIn(t) : ~(a <= k /\ k < b)

LEMMA BeforeFinite ==
  ASSUME NEW t, Len(t) \in Nat, NEW o
  PROVE  /\ IsFiniteSet(BreaksIn(t)) /\ Cardinality(BreaksIn(t)) \in 0..Len(t)
         /\ IsFiniteSet(Before(t, o)) /\ Cardinality(Before(t, o)) \in 0..Len(t)
         /\ Before(t, o) \subseteq BreaksIn(t)
         /\ Cardinality(Before(t, o)) <= Cardinality(BreaksIn(t))
<1>1. IsFiniteSet(0..(Len(t) - 1)) /\ Cardinality(0..(Len(t) - 1)) = Len(t)
  <2> DEFINE n == Len(t) - 1
  <2>1. n \in Int /\ (0 > n => n + 1 = 0) /\ n - 0 + 1 = Len(t)
    OBVIOUS
  <2> HIDE DEF n
  <2>2. IsFiniteSet(0..n) /\ Cardinality(0..n) = (IF 0 > n THEN 0 ELSE n - 0 + 1)
    <3>1. 0 \in Int /\ n \in Int
      BY <2>1
    <3> QED
      BY ONLY <3>1, FS_Interval
  <2>3. Cardinality(0..n) = Len(t)
    BY <2>1, <2>2
  <2> QED
    BY <2>2, <2>3 DEF n
<1>2. BreaksIn(t) \subseteq 0..(Len(t) - 1) /\ Before(t, o) \subseteq BreaksIn(t)
  BY DEF BreaksIn, Before
<1>3. IsFiniteSet(BreaksIn(t)) /\ Cardinality(BreaksIn(t)) <= Len(t)
  BY <1>1, <1>2, FS_Subset
<1>4. IsFiniteSet(Before(t, o)) /\ Cardinality(Before(t, o)) <= Cardinality(BreaksIn(t))
  BY <1>2, <1>3, FS_Subset
<1>5. Cardinality(BreaksIn(t)) \in Nat /\ Cardinality(Before(t, o)) \in Nat
  BY <1>3, <1>4, FS_CardinalityType
<1> QED
  BY <1>2, <1>3, <1>4, <1>5

LEMMA LineRange ==
  ASSUME NEW t, Len(t) \in Nat, NEW o
  PROVE  LineIn(t, o) \in 1..LinesIn(t) /\ LinesIn(t) \in 1..(Len(t) + 1)
BY BeforeFinite DEF LineIn, LinesIn

LEMMA LineFirst ==
  ASSUME NEW t, Len(t) \in Nat
  PROVE  LineIn(t, 0) = 1
<1>1. Before(t, 0) = {}
  BY DEF Before, BreaksIn
<1> QED
  BY <1>1, FS_EmptySet DEF LineIn

LEMMA LineLast ==
  ASSUME NEW t, Len(t) \in Nat
  PROVE  LineIn(t, Len(t)) = LinesIn(t)
<1>1. Before(t, Len(t)) = BreaksIn(t)
  BY DEF Before, BreaksIn
<1> QED
  BY <1>1 DEF LineIn, LinesIn

LEMMA LineNext ==
  ASSUME NEW t, Len(t) \in Nat, NEW o \in 0..(Len(t) - 1)
  PROVE  LineIn(t, o + 1) = IF o \in BreaksIn(t) THEN LineIn(t, o) + 1 ELSE LineIn(t, o)
<1>1. o \notin Before(t, o)
  BY DEF Before
<1>2. CASE o \in BreaksIn(t)
  <2>1. Before(t, o + 1) = Before(t, o) \cup {o}
    BY <1>2 DEF Before, BreaksIn
  <2>2. Cardinality(Before(t, o + 1)) = Cardinality(Before(t, o)) + 1
    BY <1>1, <2>1, BeforeFinite, FS_AddElement
  <2> QED
    BY <1>2, <2>2 DEF LineIn
<1>3. CASE o \notin BreaksIn(t)
  <2>1. Before(t, o + 1) = Before(t, o)
    BY <1>3 DEF Before, BreaksIn
  <2> QED
    BY <1>3, <2>1 DEF LineIn
<1> QED
  BY <1>2, <1>3

\* Lines only go up, and only at a break.
LEMMA LineGrows ==
  ASSUME NEW t, Len(t) \in Nat, NEW a \in Nat, NEW b \in Nat, a <= b
  PROVE  /\ LineIn(t, a) <= LineIn(t, b)
         /\ LineIn(t, a) = LineIn(t, b) <=> Unbroken(t, a, b)
<1>1. Before(t, a) \subseteq Before(t, b)
  BY DEF Before, BreaksIn
<1>2. /\ Cardinality(Before(t, a)) <= Cardinality(Before(t, b))
      /\ Cardinality(Before(t, a)) = Cardinality(Before(t, b)) => Before(t, a) = Before(t, b)
  BY <1>1, BeforeFinite, FS_Subset
<1>3. Cardinality(Before(t, a)) \in Nat /\ Cardinality(Before(t, b)) \in Nat
  BY BeforeFinite
<1>4. Before(t, a) = Before(t, b) <=> Unbroken(t, a, b)
  <2>1. ASSUME Before(t, a) = Before(t, b) PROVE Unbroken(t, a, b)
    <3>1. SUFFICES ASSUME NEW k \in BreaksIn(t), a <= k, k < b PROVE FALSE
      BY DEF Unbroken
    <3>2. k \in Before(t, b) /\ k \in Int
      BY <3>1 DEF Before, BreaksIn
    <3>3. k \notin Before(t, a)
      BY <3>1, <3>2 DEF Before
    <3> QED
      BY <2>1, <3>2, <3>3
  <2>2. ASSUME Unbroken(t, a, b), NEW k \in Before(t, b) PROVE k \in Before(t, a)
    <3>1. k \in BreaksIn(t) /\ k \in Int /\ k < b
      BY DEF Before, BreaksIn
    <3>2. k < a
      BY <2>2, <3>1 DEF Unbroken
    <3> QED
      BY <3>1, <3>2 DEF Before
  <2> QED
    BY <1>1, <2>1, <2>2
<1> QED
  BY <1>2, <1>3, <1>4 DEF LineIn

LEMMA OnLineFacts ==
  ASSUME NEW t, Len(t) \in Nat, NEW o \in 0..Len(t)
  PROVE  /\ OnLineIn(t, LineIn(t, o)) \subseteq 0..Len(t)
         /\ o \in OnLineIn(t, LineIn(t, o))
BY DEF OnLineIn

\* b is where the line of o begins.
LEMMA BeginIs ==
  ASSUME NEW t, Len(t) \in Nat, NEW o \in 0..Len(t), NEW b \in 0..o,
         b = 0 \/ b - 1 \in BreaksIn(t), Unbroken(t, b, o)
  PROVE  BeginOf(t, o) = b
<1> DEFINE S == OnLineIn(t, LineIn(t, o))
<1>1. LineIn(t, b) = LineIn(t, o)
  BY LineGrows
<1>2. b \in S
  BY <1>1 DEF OnLineIn
<1>3. ASSUME NEW y \in S PROVE b <= y
  <2>1. y \in 0..Len(t) /\ LineIn(t, y) = LineIn(t, b)
    BY <1>1 DEF OnLineIn
  <2>2. SUFFICES ASSUME y < b PROVE FALSE
    BY <2>1
  <2>3. Unbroken(t, y, b)
    BY <2>1, <2>2, LineGrows
  <2>4. b - 1 \in BreaksIn(t) /\ y <= b - 1 /\ b - 1 < b
    BY <2>1, <2>2
  <2> QED
    BY <2>3, <2>4 DEF Unbroken
<1>4. S \in SUBSET Nat
  BY DEF OnLineIn
<1> HIDE DEF S
<1>5. Min(S) = b
  BY <1>2, <1>3, <1>4, LeastIs
<1> QED
  BY <1>5 DEF S, BeginOf

\* e is where the line of o ends.
LEMMA EndIs ==
  ASSUME NEW t, Len(t) \in Nat, NEW o \in 0..Len(t), NEW e \in o..Len(t),
         e = Len(t) \/ e \in BreaksIn(t), Unbroken(t, o, e)
  PROVE  EndOf(t, o) = e
<1> DEFINE S == OnLineIn(t, LineIn(t, o))
<1>1. LineIn(t, e) = LineIn(t, o)
  BY LineGrows
<1>2. e \in S
  BY <1>1 DEF OnLineIn
<1>3. ASSUME NEW y \in S PROVE y <= e
  <2>1. y \in 0..Len(t) /\ LineIn(t, y) = LineIn(t, e)
    BY <1>1 DEF OnLineIn
  <2>2. SUFFICES ASSUME e < y PROVE FALSE
    BY <2>1
  <2>3. Unbroken(t, e, y)
    BY <2>1, <2>2, LineGrows
  <2>4. e \in BreaksIn(t) /\ e <= e /\ e < y
    BY <2>1, <2>2
  <2> QED
    BY <2>3, <2>4 DEF Unbroken
<1>4. S \subseteq 0..Len(t)
  BY DEF OnLineIn
<1> HIDE DEF S
<1>5. Max(S) = e
  BY <1>2, <1>3, <1>4, GreatestIs
<1> QED
  BY <1>5 DEF S, EndOf

LEMMA LineSpan ==
  ASSUME NEW t, Len(t) \in Nat, NEW o \in 0..Len(t)
  PROVE  /\ BeginOf(t, o) \in 0..o /\ EndOf(t, o) \in o..Len(t)
         /\ LineIn(t, BeginOf(t, o)) = LineIn(t, o)
         /\ LineIn(t, EndOf(t, o)) = LineIn(t, o)
         /\ Unbroken(t, BeginOf(t, o), EndOf(t, o))
         /\ EndOf(t, o) = Len(t) \/ EndOf(t, o) \in BreaksIn(t)
<1> DEFINE S == OnLineIn(t, LineIn(t, o))
           b == BeginOf(t, o)
           e == EndOf(t, o)
<1>1. S \subseteq 0..Len(t) /\ o \in S
  BY OnLineFacts
<1>2. S \in SUBSET Nat /\ S # {}
  BY <1>1
<1>3. b \in S /\ b <= o
  BY <1>1, <1>2, Least DEF BeginOf
<1>4. e \in S /\ \A y \in S : y <= e
  BY <1>1, <1>2, Greatest DEF EndOf
<1>5. b \in 0..o /\ e \in o..Len(t) /\ LineIn(t, b) = LineIn(t, o) /\ LineIn(t, e) = LineIn(t, o)
  BY <1>1, <1>3, <1>4 DEF OnLineIn
<1> HIDE DEF S, b, e
<1>6. Unbroken(t, b, e)
  BY <1>5, LineGrows
<1>7. e = Len(t) \/ e \in BreaksIn(t)
  <2>1. SUFFICES ASSUME e \in 0..(Len(t) - 1), e \notin BreaksIn(t) PROVE FALSE
    BY <1>5
  <2>2. LineIn(t, e + 1) = LineIn(t, o)
    BY <1>5, <2>1, LineNext
  <2>3. e + 1 \in S
    BY <2>1, <2>2 DEF S, OnLineIn
  <2> QED
    BY <2>1, <2>3, <1>4
<1> QED
  BY <1>5, <1>6, <1>7 DEF b, e

-----------------------------------------------------------------------------
(* Digits *)

PowerSolved(N, f) == f = [n \in 0..N |-> IF n = 0 THEN 1 ELSE Base * f[n - 1]]

LEMMA PowerAt ==
  ASSUME NEW N \in Nat, NEW f, PowerSolved(N, f)
  PROVE  f[0] = 1 /\ \A n \in 1..N : f[n] = Base * f[n - 1]
<1> DEFINE Term(n, p) == IF n = 0 THEN 1 ELSE Base * p
<1>1. f = [n \in 0..N |-> Term(n, f[n - 1])]
  BY DEF PowerSolved
<1>2. (\A p : Term(0, p) = 1) /\ \A n \in 1..N : \A p : Term(n, p) = Base * p
  OBVIOUS
<1>3. 0 \in 0..N /\ \A n \in 1..N : n \in 0..N
  OBVIOUS
<1> HIDE DEF Term
<1>4. f[0] = Term(0, f[0 - 1]) /\ \A n \in 1..N : f[n] = Term(n, f[n - 1])
  BY <1>1, <1>3
<1> QED
  BY <1>2, <1>4

LEMMA PowerExists == \A N \in Nat : \E f : PowerSolved(N, f)
<1> DEFINE S == {N \in Nat : \E f : PowerSolved(N, f)}
<1>1. 0 \in S
  <2>1. PowerSolved(0, [n \in 0..0 |-> 1])
    BY DEF PowerSolved
  <2> QED
    BY <2>1
<1>2. ASSUME NEW N \in S PROVE N + 1 \in S
  <2>1. N \in Nat
    OBVIOUS
  <2>2. PICK f : PowerSolved(N, f)
    OBVIOUS
  <2> DEFINE Term(n, p) == IF n = 0 THEN 1 ELSE Base * p
             g == [n \in 0..(N + 1) |-> Term(n, f[n - 1])]
  <2>3. f = [n \in 0..N |-> Term(n, f[n - 1])]
    BY <2>2 DEF PowerSolved
  <2>4. \A p : Term(0, p) = 1
    OBVIOUS
  <2> HIDE DEF Term
  <2>5. \A n \in 0..N : g[n] = f[n]
    BY <2>1, <2>3
  <2>6. ASSUME NEW n \in 0..(N + 1) PROVE Term(n, f[n - 1]) = Term(n, g[n - 1])
    <3>1. CASE n = 0
      BY <3>1, <2>4
    <3>2. CASE n # 0
      <4>1. n - 1 \in 0..N
        BY <3>2, <2>1
      <4>2. g[n - 1] = f[n - 1]
        BY <4>1, <2>5
      <4> HIDE DEF g
      <4> QED
        BY <4>2
    <3> QED
      BY <3>1, <3>2
  <2> DEFINE h == g
  <2>7. h = [n \in 0..(N + 1) |-> Term(n, h[n - 1])]
    BY <2>6
  <2> HIDE DEF h, g
  <2>8. PowerSolved(N + 1, h)
    BY <2>7 DEF PowerSolved, Term
  <2> QED
    BY <2>1, <2>8
<1>3. S \in SUBSET Nat
  OBVIOUS
<1> HIDE DEF S
<1>4. \A N \in Nat : N \in S
  BY <1>1, <1>2, <1>3, Induction
<1> QED
  BY <1>4 DEF S

LEMMA PowerUnique ==
  ASSUME NEW M \in Nat, NEW N \in Nat, NEW f, NEW g, PowerSolved(M, f), PowerSolved(N, g)
  PROVE  \A n \in Nat : n <= M /\ n <= N => f[n] = g[n]
<1> DEFINE S == {n \in Nat : n <= M /\ n <= N => f[n] = g[n]}
<1>1. 0 \in S
  BY PowerAt
<1>2. ASSUME NEW n \in S PROVE n + 1 \in S
  <2>1. n \in Nat
    OBVIOUS
  <2>2. SUFFICES ASSUME n + 1 <= M, n + 1 <= N PROVE f[n + 1] = g[n + 1]
    BY <2>1
  <2>3. f[n] = g[n] /\ n + 1 \in 1..M /\ n + 1 \in 1..N /\ (n + 1) - 1 = n
    BY <2>1, <2>2
  <2>4. f[n + 1] = Base * f[(n + 1) - 1] /\ g[n + 1] = Base * g[(n + 1) - 1]
    BY <2>3, PowerAt
  <2> QED
    BY <2>3, <2>4
<1>3. S \in SUBSET Nat
  OBVIOUS
<1> HIDE DEF S
<1>4. \A n \in Nat : n \in S
  BY <1>1, <1>2, <1>3, Induction
<1> QED
  BY <1>4 DEF S

LEMMA PowerDefined ==
  Power = [n \in Nat |-> IF n = 0 THEN 1 ELSE Base * Power[n - 1]]
<1> DEFINE Solved(f) == f = [n \in Nat |-> IF n = 0 THEN 1 ELSE Base * f[n - 1]]
           g(N) == CHOOSE f : PowerSolved(N, f)
           p == [n \in Nat |-> g(n)[n]]
           Term(n, x) == IF n = 0 THEN 1 ELSE Base * x
<1>1. \A N \in Nat : PowerSolved(N, g(N))
  BY PowerExists
<1>2. \A x : Term(0, x) = 1
  OBVIOUS
<1>3. \A n \in Nat : n # 0 => \A x : Term(n, x) = Base * x
  OBVIOUS
<1> HIDE DEF g, Term
<1>4. ASSUME NEW n \in Nat PROVE g(n)[n] = Term(n, p[n - 1])
  <2>1. CASE n = 0
    BY <2>1, <1>1, <1>2, PowerAt
  <2>2. CASE n # 0
    <3>1. n - 1 \in Nat /\ n - 1 <= n /\ n - 1 <= n - 1 /\ n \in 1..n
      BY <2>2
    <3>2. g(n)[n] = Base * g(n)[n - 1]
      BY <3>1, <1>1, PowerAt
    <3>3. g(n)[n - 1] = g(n - 1)[n - 1]
      BY <3>1, <1>1, PowerUnique
    <3>4. p[n - 1] = g(n - 1)[n - 1]
      BY <3>1
    <3> QED
      BY <3>2, <3>3, <3>4, <1>3, <2>2
  <2> QED
    BY <2>1, <2>2
<1> DEFINE q == p
<1>5. q = [n \in Nat |-> Term(n, q[n - 1])]
  BY <1>4
<1> HIDE DEF q, p
<1>6. Solved(q)
  BY <1>5 DEF Term
<1>7. Power = CHOOSE f : Solved(f)
  BY DEF Power
<1> HIDE DEF Solved
<1>8. Solved(Power)
  BY <1>6, <1>7
<1> QED
  BY <1>8 DEF Solved

LEMMA PowerNext ==
  Power[0] = 1 /\ \A n \in Nat : Power[n + 1] = Base * Power[n]
<1> DEFINE Term(n, p) == IF n = 0 THEN 1 ELSE Base * p
<1>1. Power = [n \in Nat |-> Term(n, Power[n - 1])]
  BY PowerDefined
<1>2. (\A p : Term(0, p) = 1) /\ \A n \in Nat : \A p : Term(n + 1, p) = Base * p
  OBVIOUS
<1> HIDE DEF Term
<1>3. Power[0] = Term(0, Power[0 - 1])
  BY <1>1
<1>4. ASSUME NEW n \in Nat PROVE Power[n + 1] = Base * Power[n]
  <2>1. n + 1 \in Nat /\ (n + 1) - 1 = n
    OBVIOUS
  <2>2. Power[n + 1] = Term(n + 1, Power[(n + 1) - 1])
    BY <1>1, <2>1
  <2> QED
    BY <1>2, <2>1, <2>2
<1> QED
  BY <1>2, <1>3, <1>4

LEMMA PowerLarge == \A n \in Nat : Power[n] \in Nat /\ Power[n] > n
<1> DEFINE S == {n \in Nat : Power[n] \in Nat /\ Power[n] > n}
<1>1. 0 \in S
  BY PowerNext
<1>2. ASSUME NEW n \in S PROVE n + 1 \in S
  <2> DEFINE p == Power[n]
  <2>1. n \in Nat /\ p \in Nat /\ p >= n + 1
    OBVIOUS
  <2>2. Power[n + 1] = Base * p
    BY <2>1, PowerNext
  <2> HIDE DEF p
  <2>3. Base \in Nat /\ Base >= 2
    BY SnippetAssumption
  <2>4. Base * p \in Nat /\ Base * p >= p + p
    BY <2>1, <2>3
  <2> QED
    BY <2>1, <2>2, <2>4
<1>3. S \in SUBSET Nat
  OBVIOUS
<1> HIDE DEF S
<1>4. \A n \in Nat : n \in S
  BY <1>1, <1>2, <1>3, Induction
<1> QED
  BY <1>4 DEF S

LEMMA PowerGrows ==
  ASSUME NEW m \in Nat, NEW n \in Nat, m <= n
  PROVE  Power[m] <= Power[n]
<1> DEFINE S == {k \in Nat : Power[m] <= Power[k]}
<1>1. m \in S
  BY PowerLarge
<1>2. ASSUME NEW k \in S PROVE k + 1 \in S
  <2> DEFINE p == Power[k]
             q == Power[m]
  <2>1. k \in Nat /\ p \in Nat /\ q \in Nat /\ q <= p
    BY PowerLarge
  <2>2. Power[k + 1] = Base * p
    BY <2>1, PowerNext
  <2>3. Base \in Nat /\ Base >= 2
    BY SnippetAssumption
  <2> HIDE DEF p
  <2>4. Base * p >= p
    BY <2>1, <2>3
  <2>5. q <= Power[k + 1]
    BY <2>1, <2>2, <2>3, <2>4
  <2> QED
    BY <2>1, <2>5
<1>3. S \in SUBSET Nat
  OBVIOUS
<1> HIDE DEF S
<1>4. n \in S
  BY <1>1, <1>2, <1>3, Induction
<1> QED
  BY <1>4 DEF S

\* The digits of a number are as few as suffice.
LEMMA DigitsAre ==
  ASSUME NEW number \in Nat
  PROVE  /\ Digits(number) \in 1..(number + 1)
         /\ number < Power[Digits(number)]
         /\ \A n \in Nat : n >= 1 /\ n < Digits(number) => Power[n] <= number
<1> DEFINE S == {n \in 1..(number + 1) : number < Power[n]}
<1>1. number + 1 \in S
  BY PowerLarge
<1>2. S \in SUBSET Nat /\ S # {}
  BY <1>1
<1>3. S \subseteq 1..(number + 1) /\ \A n \in S : number < Power[n]
  OBVIOUS
<1>4. Digits(number) = Min(S)
  BY DEF Digits
<1>5. \A n \in 1..(number + 1) : n \notin S => Power[n] <= number
  BY PowerLarge
<1> HIDE DEF S
<1>6. Min(S) \in S /\ \A y \in S : Min(S) <= y
  BY <1>2, Least
<1> DEFINE d == Digits(number)
<1>7. d \in 1..(number + 1) /\ number < Power[d]
  BY <1>3, <1>4, <1>6
<1>8. ASSUME NEW n \in Nat, n >= 1, n < d PROVE Power[n] <= number
  <2>1. n \in 1..(number + 1)
    BY <1>7, <1>8
  <2>2. n \notin S
    BY <1>4, <1>6, <1>7, <1>8
  <2> QED
    BY <1>5, <2>1, <2>2
<1> QED
  BY <1>7, <1>8

LEMMA DigitsIs ==
  ASSUME NEW number \in Nat, NEW d \in Nat, d >= 1, number < Power[d],
         d = 1 \/ Power[d - 1] <= number
  PROVE  Digits(number) = d
<1> DEFINE e == Digits(number)
<1>1. e \in 1..(number + 1) /\ number < Power[e]
      /\ \A n \in Nat : n >= 1 /\ n < e => Power[n] <= number
  BY DigitsAre
<1> HIDE DEF e
<1>2. Power[d] \in Nat /\ Power[e] \in Nat
  BY <1>1, PowerLarge
<1>3. ~(d < e)
  BY <1>1, <1>2
<1>4. ~(e < d)
  <2>1. SUFFICES ASSUME e < d PROVE FALSE
    OBVIOUS
  <2>2. d - 1 \in Nat /\ e <= d - 1 /\ d # 1
    BY <1>1, <2>1
  <2>3. Power[e] <= Power[d - 1] /\ Power[d - 1] \in Nat
    BY <1>1, <2>2, PowerGrows, PowerLarge
  <2> QED
    BY <1>1, <1>2, <2>2, <2>3
<1> QED
  BY <1>1, <1>3, <1>4 DEF e

LEMMA DigitsGrow ==
  ASSUME NEW a \in Nat, NEW b \in Nat, a <= b
  PROVE  Digits(a) <= Digits(b)
<1>1. SUFFICES ASSUME Digits(b) < Digits(a) PROVE FALSE
  BY DigitsAre
<1>2. Digits(b) \in Nat /\ Digits(b) >= 1
  BY DigitsAre
<1>3. Power[Digits(b)] <= a /\ b < Power[Digits(b)] /\ Power[Digits(b)] \in Nat
  BY <1>1, <1>2, DigitsAre, PowerLarge
<1> QED
  BY <1>3

LEMMA Quotient ==
  ASSUME NEW n \in Nat
  PROVE  /\ n \div Base \in Nat
         /\ Base * (n \div Base) <= n /\ n < Base * (n \div Base) + Base
         /\ n >= Base => n \div Base < n /\ n \div Base >= 1
<1>1. Base \in Nat \ {0, 1}
  BY SnippetAssumption
<1>2. n \div Base \in Nat /\ Base * (n \div Base) <= n /\ n < Base * (n \div Base) + Base
  BY ONLY <1>1, n \in Nat, SMTT(20)
<1> DEFINE q == n \div Base
<1> HIDE DEF q
<1>3. ASSUME n >= Base PROVE q >= 1
  <2>1. CASE q = 0
    BY <2>1, <1>1, <1>2, <1>3 DEF q
  <2>2. CASE q # 0
    BY <2>2, <1>2 DEF q
  <2> QED
    BY <2>1, <2>2
<1>4. ASSUME n >= Base PROVE q < n
  <2>1. q \in Nat /\ q >= 1 /\ Base \in Nat /\ Base >= 2 /\ Base * q <= n
    BY <1>1, <1>2, <1>3, <1>4 DEF q
  <2>2. Base * q >= q + q
    BY ONLY <2>1, SMTT(20)
  <2> QED
    BY <2>1, <2>2
<1> QED
  BY <1>2, <1>3, <1>4 DEF q

\* What a division takes away.
LEMMA DigitsNext ==
  ASSUME NEW n \in Nat
  PROVE  Digits(n) = IF n >= Base THEN Digits(n \div Base) + 1 ELSE 1
<1>1. Base \in Nat /\ Base >= 2
  BY SnippetAssumption
<1>2. CASE n < Base
  <2>1. Power[1] = Base
    <3>1. Power[0 + 1] = Base * Power[0] /\ Power[0] = 1
      BY PowerNext
    <3> QED
      BY <3>1, <1>1
  <2>2. Digits(n) = 1
    BY <1>2, <2>1, DigitsIs
  <2> QED
    BY <1>1, <1>2, <2>2
<1>3. CASE n >= Base
  <2> DEFINE q == n \div Base
             d == Digits(q)
             p == Power[d]
             r == Power[d - 1]
  <2>1. q \in Nat /\ Base * q <= n /\ n < Base * q + Base /\ q >= 1
    BY <1>3, Quotient
  <2> HIDE DEF q
  <2>2. d \in Nat /\ d >= 1 /\ q < p /\ p \in Nat
    BY <2>1, DigitsAre, PowerLarge
  <2>3. d = 1 \/ r <= q
    <3>1. SUFFICES ASSUME d # 1 PROVE r <= q
      OBVIOUS
    <3>2. d - 1 \in Nat /\ d - 1 >= 1 /\ d - 1 < d
      BY <2>2, <3>1
    <3> QED
      BY <2>1, <3>2, DigitsAre
  <2>4. r \in Nat /\ p = Base * r
    <3>1. d - 1 \in Nat /\ (d - 1) + 1 = d
      BY <2>2
    <3>2. Power[(d - 1) + 1] = Base * Power[d - 1]
      BY <3>1, PowerNext
    <3> QED
      BY <3>1, <3>2, PowerLarge
  <2>5. Power[d + 1] = Base * p
    BY <2>2, PowerNext
  <2>6. d = 1 => r = 1
    BY <2>2, PowerNext
  <2> HIDE DEF d, p, r
  <2>7. n < Power[d + 1]
    <3>1. q + 1 <= p /\ q + 1 \in Nat
      BY <2>1, <2>2
    <3>2. Base * (q + 1) <= Base * p
      BY ONLY <3>1, <1>1, <2>2, SMTT(20)
    <3>3. Base * (q + 1) = Base * q + Base
      BY ONLY <2>1, <1>1, SMTT(20)
    <3>4. Base * q \in Nat /\ Base * p \in Nat
      BY <2>1, <2>2, <1>1
    <3> QED
      BY <2>1, <2>5, <3>2, <3>3, <3>4, <1>1
  <2>8. Power[d] <= n
    <3>1. r <= q
      BY <2>1, <2>3, <2>6
    <3>2. Base * r <= Base * q
      BY ONLY <3>1, <1>1, <2>1, <2>4, SMTT(20)
    <3>3. Base * r \in Nat /\ Base * q \in Nat
      BY <1>1, <2>1, <2>4
    <3> QED
      BY <2>1, <2>4, <3>2, <3>3 DEF p
  <2>9. d + 1 \in Nat /\ d + 1 >= 1 /\ (d + 1) - 1 = d
    BY <2>2
  <2>10. Digits(n) = d + 1
    BY <2>7, <2>8, <2>9, DigitsIs
  <2> QED
    BY <1>3, <2>10 DEF d, q
<1> QED
  BY <1>1, <1>2, <1>3

WidthSolved(value, w) ==
    w = [n \in 0..value |-> IF n >= Base THEN w[n \div Base] + 1 ELSE 1]

\* decimal_width counts the digits.
LEMMA WidthIsDigits ==
  ASSUME NEW value \in Nat
  PROVE  DecimalWidth(value) = Digits(value)
<1> DEFINE Term(n, x) == IF n >= Base THEN x + 1 ELSE 1
           q(n) == n \div Base
           v == [n \in 0..value |-> Digits(n)]
           w == CHOOSE f : WidthSolved(value, f)
<1>1. \A n \in Nat : q(n) \in Nat /\ q(n) <= n /\ (n >= Base => q(n) < n)
  <2>1. ASSUME NEW n \in Nat PROVE q(n) \in Nat /\ q(n) <= n
    <3>1. q(n) \in Nat /\ Base * q(n) <= n /\ Base \in Nat /\ Base >= 2
      BY Quotient, SnippetAssumption
    <3> HIDE DEF q
    <3>2. Base * q(n) >= q(n) /\ Base * q(n) \in Nat
      BY <3>1, SMTT(20)
    <3> QED
      BY <3>1, <3>2
  <2> QED
    BY <2>1, Quotient
<1>2. \A n \in Nat : Digits(n) = Term(n, Digits(q(n)))
  BY DigitsNext
<1>3. \A f : WidthSolved(value, f) <=> f = [n \in 0..value |-> Term(n, f[q(n)])]
  BY DEF WidthSolved
<1>4. DecimalWidth(value) = w[value]
  BY DEF DecimalWidth, WidthSolved
<1>5. ASSUME NEW n \in Nat, n < Base PROVE \A x : Term(n, x) = 1
  BY <1>5, SnippetAssumption
<1> HIDE DEF q, Term
<1>6. WidthSolved(value, v)
  <2>1. ASSUME NEW n \in 0..value PROVE Digits(n) = Term(n, v[q(n)])
    <3>1. q(n) \in 0..value
      BY <1>1
    <3>2. v[q(n)] = Digits(q(n))
      BY <3>1
    <3> HIDE DEF v
    <3> QED
      BY <3>2, <1>2
  <2> DEFINE u == v
  <2>2. u = [n \in 0..value |-> Term(n, u[q(n)])]
    BY <2>1
  <2> HIDE DEF u
  <2>3. WidthSolved(value, u)
    BY <2>2, <1>3
  <2> QED
    BY <2>3 DEF u
<1>7. WidthSolved(value, w)
  BY <1>6
<1> HIDE DEF w, v
<1>8. \A n \in 0..value : w[n] = Term(n, w[q(n)])
  <2>1. w = [n \in 0..value |-> Term(n, w[q(n)])]
    BY <1>3, <1>7
  <2> QED
    BY <2>1
<1> DEFINE T == {n \in 0..value : w[n] # Digits(n)}
<1>9. T = {}
  <2>1. SUFFICES ASSUME T # {} PROVE FALSE
    OBVIOUS
  <2>2. T \in SUBSET Nat /\ T \subseteq 0..value /\ \A n \in 0..value : n \notin T => w[n] = Digits(n)
    OBVIOUS
  <2>3. \A n \in T : w[n] # Digits(n)
    OBVIOUS
  <2> HIDE DEF T
  <2>4. PICK n \in T : \A m \in T : n <= m
    BY <2>1, <2>2, LeastElement
  <2>5. n \in Nat /\ n \in 0..value /\ Base \in Nat
    BY <2>2, <2>4, SnippetAssumption
  <2>6. CASE n < Base
    <3>1. w[n] = 1 /\ Digits(n) = 1
      BY <2>5, <2>6, <1>2, <1>5, <1>8
    <3> QED
      BY <3>1, <2>3
  <2>7. CASE n >= Base
    <3>1. q(n) \in 0..value /\ q(n) < n
      BY <1>1, <2>5, <2>7
    <3>2. q(n) \notin T
      BY <3>1, <2>4, <2>5
    <3>3. w[q(n)] = Digits(q(n))
      BY <3>1, <3>2, <2>2
    <3>4. w[n] = Term(n, w[q(n)]) /\ Digits(n) = Term(n, Digits(q(n)))
      BY <2>5, <1>2, <1>8
    <3> QED
      BY <3>3, <3>4, <2>3
  <2> QED
    BY <2>5, <2>6, <2>7
<1>10. w[value] = Digits(value)
  BY <1>9
<1> QED
  BY <1>4, <1>10

-----------------------------------------------------------------------------
(* A line and the next *)

LEMMA BeginBreak ==
  ASSUME NEW t, Len(t) \in Nat, NEW o \in 0..Len(t)
  PROVE  BeginOf(t, o) = 0 \/ BeginOf(t, o) - 1 \in BreaksIn(t)
<1> DEFINE S == OnLineIn(t, LineIn(t, o))
           b == BeginOf(t, o)
<1>1. b \in 0..o /\ LineIn(t, b) = LineIn(t, o)
  BY LineSpan
<1>2. S \in SUBSET Nat /\ o \in S
  BY OnLineFacts
<1>3. \A y \in S : b <= y
  BY <1>2, Least DEF BeginOf
<1> HIDE DEF b
<1>4. SUFFICES ASSUME b - 1 \in 0..(Len(t) - 1), b - 1 \notin BreaksIn(t) PROVE FALSE
  BY <1>1 DEF b
<1>5. (b - 1) + 1 = b
  BY <1>1
<1>6. LineIn(t, b - 1) = LineIn(t, o)
  BY <1>1, <1>4, <1>5, LineNext
<1>7. b - 1 \in S
  BY <1>4, <1>6 DEF OnLineIn
<1> HIDE DEF S
<1> QED
  BY <1>1, <1>3, <1>7

LEMMA BeginNext ==
  ASSUME NEW t, Len(t) \in Nat, NEW o \in 0..(Len(t) - 1)
  PROVE  BeginOf(t, o + 1) = IF o \in BreaksIn(t) THEN o + 1 ELSE BeginOf(t, o)
<1>1. o \in 0..Len(t) /\ o + 1 \in 0..Len(t)
  OBVIOUS
<1>2. CASE o \in BreaksIn(t)
  <2>1. Unbroken(t, o + 1, o + 1)
    BY DEF Unbroken, BreaksIn
  <2>2. (o + 1) - 1 = o /\ o + 1 \in 0..(o + 1)
    OBVIOUS
  <2> QED
    BY <1>1, <1>2, <2>1, <2>2, BeginIs
<1>3. CASE o \notin BreaksIn(t)
  <2> DEFINE b == BeginOf(t, o)
  <2>1. b \in 0..o /\ Unbroken(t, b, o)
    <3>1. b \in 0..o /\ Unbroken(t, b, EndOf(t, o)) /\ EndOf(t, o) \in o..Len(t)
      BY <1>1, LineSpan
    <3> QED
      BY <3>1 DEF Unbroken, BreaksIn
  <2>2. b = 0 \/ b - 1 \in BreaksIn(t)
    BY <1>1, BeginBreak
  <2> HIDE DEF b
  <2>3. Unbroken(t, b, o + 1)
    BY <1>3, <2>1 DEF Unbroken, BreaksIn
  <2>4. b \in 0..(o + 1)
    BY <2>1
  <2>5. BeginOf(t, o + 1) = b
    BY <1>1, <2>2, <2>3, <2>4, BeginIs
  <2> QED
    BY <1>3, <2>5 DEF b
<1> QED
  BY <1>2, <1>3

\* The cursor is at the beginning of the line, or at the end of the text.
CursorAt(t, at, number) ==
    /\ at \in 0..Len(t)
    /\ IF number <= LinesIn(t) THEN LineIn(t, at) = number /\ BeginOf(t, at) = at
       ELSE at = Len(t)

LEMMA CursorFirst ==
  ASSUME NEW t, Len(t) \in Nat
  PROVE  CursorAt(t, 0, 1)
<1>1. BeginOf(t, 0) = 0
  BY LineSpan
<1> QED
  BY <1>1, LineFirst, LineRange DEF CursorAt

LEMMA CursorNext ==
  ASSUME NEW t, Len(t) \in Nat, NEW number \in 1..LinesIn(t), NEW at, CursorAt(t, at, number)
  PROVE  CursorAt(t, IF EndOf(t, at) < Len(t) THEN EndOf(t, at) + 1 ELSE EndOf(t, at), number + 1)
<1> DEFINE e == EndOf(t, at)
<1>1. at \in 0..Len(t) /\ LineIn(t, at) = number
  BY LineRange DEF CursorAt
<1>2. e \in at..Len(t) /\ LineIn(t, e) = number /\ (e = Len(t) \/ e \in BreaksIn(t))
  BY <1>1, LineSpan
<1>3. LinesIn(t) \in Nat
  BY LineRange
<1> HIDE DEF e
<1>4. CASE e < Len(t)
  <2>1. e \in BreaksIn(t) /\ e \in 0..(Len(t) - 1) /\ e + 1 \in 0..Len(t)
    BY <1>1, <1>2, <1>4
  <2>2. LineIn(t, e + 1) = number + 1 /\ BeginOf(t, e + 1) = e + 1
    BY <1>2, <2>1, LineNext, BeginNext
  <2>3. number + 1 <= LinesIn(t)
    BY <2>2, LineRange
  <2> QED
    BY <1>4, <2>1, <2>2, <2>3 DEF CursorAt, e
<1>5. CASE ~(e < Len(t))
  <2>1. e = Len(t) /\ number = LinesIn(t)
    BY <1>1, <1>2, <1>5, LineLast
  <2>2. ~(number + 1 <= LinesIn(t))
    BY <1>3, <2>1
  <2> QED
    BY <1>5, <2>1, <2>2 DEF CursorAt, e
<1> QED
  BY <1>4, <1>5

-----------------------------------------------------------------------------
(* Rows *)

LineRowOf(t, number, g) ==
    [pad |-> IF Digits(number) < g THEN g - Digits(number) ELSE 0,
     number |-> number,
     text |-> SubSeq(t, Min(OnLineIn(t, number)) + 1, Max(OnLineIn(t, number)))]

\* The bytes of a..z that are on the line of a; one caret if there are none.
Marks(t, a, z) ==
    LET length == IF LineIn(t, a) = LineIn(t, z) THEN z - a ELSE EndOf(t, a) - a
    IN  IF length = 0 THEN 1 ELSE length
CaretsOf(t, a, z) ==
    LET before == a - BeginOf(t, a)
    IN  [k \in 1..(before + Marks(t, a, z)) |-> IF k <= before THEN Blank ELSE Caret]
CaretRowOf(t, a, z, g) == [pad |-> g, number |-> NoNumber, text |-> CaretsOf(t, a, z)]

RowSet(t, a, z, g) == {LineRowOf(t, n, g) : n \in Nat} \cup {CaretRowOf(t, a, z, g)}
CaretAt(t, a, first) == LineIn(t, a) - first + 2
RowNumber(t, a, first, n) == IF n < CaretAt(t, a, first) THEN first + n - 1 ELSE first + n - 2
RowCount(t, a, first, number) ==
    (IF number > first THEN number - first ELSE 0) + (IF number > LineIn(t, a) THEN 1 ELSE 0)

\* rs is what is written of a range a..z when the line number is next.
RowsOf(rs, t, a, z, first, g, number) ==
    /\ rs \in Seq(RowSet(t, a, z, g))
    /\ Len(rs) = RowCount(t, a, first, number)
    /\ \A n \in 1..Len(rs) :
          rs[n] = IF n = CaretAt(t, a, first) THEN CaretRowOf(t, a, z, g)
                  ELSE LineRowOf(t, RowNumber(t, a, first, n), g)

LEMMA RowsNone ==
  ASSUME NEW t, Len(t) \in Nat, NEW a, NEW z, NEW g, NEW first \in Nat, first >= 1
  PROVE  RowsOf(<<>>, t, a, z, first, g, 1)
<1>1. LineIn(t, a) \in Nat /\ LineIn(t, a) >= 1
  BY LineRange
<1>2. RowCount(t, a, first, 1) = 0
  BY <1>1 DEF RowCount
<1>3. <<>> \in Seq(RowSet(t, a, z, g)) /\ Len(<<>>) = 0
  OBVIOUS
<1> QED
  BY <1>2, <1>3 DEF RowsOf

LEMMA RowsSkip ==
  ASSUME NEW t, Len(t) \in Nat, NEW a, NEW z, NEW g, NEW first \in Nat,
         first <= LineIn(t, a), NEW number \in Nat, number < first, NEW rs,
         RowsOf(rs, t, a, z, first, g, number)
  PROVE  RowsOf(rs, t, a, z, first, g, number + 1)
<1>1. LineIn(t, a) \in Nat
  BY LineRange
<1>2. RowCount(t, a, first, number + 1) = RowCount(t, a, first, number)
  BY <1>1 DEF RowCount
<1> QED
  BY <1>2 DEF RowsOf

LEMMA RowsMore ==
  ASSUME NEW t, Len(t) \in Nat, NEW a, NEW z, NEW g, NEW first \in Nat,
         first <= LineIn(t, a), NEW number \in Nat, number >= first, NEW rs,
         RowsOf(rs, t, a, z, first, g, number)
  PROVE  RowsOf(rs \o <<LineRowOf(t, number, g)>> \o
                    (IF number = LineIn(t, a) THEN <<CaretRowOf(t, a, z, g)>> ELSE <<>>),
                t, a, z, first, g, number + 1)
<1> DEFINE R == RowSet(t, a, z, g)
           row == LineRowOf(t, number, g)
           caret == CaretRowOf(t, a, z, g)
           s == LineIn(t, a)
           at == s - first + 2
           Right(q) == \A n \in 1..Len(q) :
                          q[n] = IF n = at THEN caret
                                 ELSE LineRowOf(t, IF n < at THEN first + n - 1
                                                   ELSE first + n - 2, g)
<1>1. row \in R /\ caret \in R /\ s \in Nat
  BY LineRange DEF RowSet
<1>2. /\ rs \in Seq(R)
      /\ Len(rs) = (number - first) + (IF number > s THEN 1 ELSE 0)
      /\ Right(rs)
  BY <1>1 DEF RowsOf, RowCount, CaretAt, RowNumber
<1>3. \A q : /\ q \in Seq(R)
             /\ Len(q) = (number + 1 - first) + (IF number + 1 > s THEN 1 ELSE 0)
             /\ Right(q)
             => RowsOf(q, t, a, z, first, g, number + 1)
  BY <1>1 DEF RowsOf, RowCount, CaretAt, RowNumber
<1> HIDE DEF R, s
<1> DEFINE p == Append(rs, row)
<1>4. /\ p \in Seq(R) /\ rs \o <<row>> = p /\ Len(p) = Len(rs) + 1 /\ Len(rs) \in Nat
      /\ \A n \in 1..Len(rs) : p[n] = rs[n]
      /\ p[Len(rs) + 1] = row
  BY <1>1, <1>2
<1> HIDE DEF p
<1>5. p[Len(rs) + 1] = LineRowOf(t, number, g)
  BY <1>4
<1>6. Right(p)
  <2> SUFFICES ASSUME NEW n \in 1..Len(p)
               PROVE  p[n] = IF n = at THEN caret
                             ELSE LineRowOf(t, IF n < at THEN first + n - 1
                                               ELSE first + n - 2, g)
    OBVIOUS
  <2>1. CASE n \in 1..Len(rs)
    <3> HIDE DEF row, caret, at
    <3> QED
      BY <1>2, <1>4, <2>1
  <2>2. CASE n = Len(rs) + 1
    <3>1. n # at
      BY <1>1, <1>2, <2>2
    <3>2. number = IF n < at THEN first + n - 1 ELSE first + n - 2
      BY <1>1, <1>2, <2>2
    <3> HIDE DEF at
    <3> QED
      BY <1>5, <2>2, <3>1, <3>2
  <2>3. n \in 1..Len(rs) \/ n = Len(rs) + 1
    BY <1>4
  <2> QED
    BY <2>1, <2>2, <2>3
<1>7. CASE number # s
  <2>1. p \o <<>> = p
    BY <1>4
  <2>2. Len(p) = (number + 1 - first) + (IF number + 1 > s THEN 1 ELSE 0)
    BY <1>1, <1>2, <1>4, <1>7
  <2>3. RowsOf(p, t, a, z, first, g, number + 1)
    BY <1>3, <1>4, <1>6, <2>2
  <2> QED
    BY <1>4, <1>7, <2>1, <2>3 DEF s
<1>8. CASE number = s
  <2> DEFINE q == Append(p, caret)
  <2>1. /\ q \in Seq(R) /\ p \o <<caret>> = q /\ Len(q) = Len(p) + 1
        /\ \A n \in 1..Len(p) : q[n] = p[n]
        /\ q[Len(p) + 1] = caret
    BY <1>1, <1>4
  <2> HIDE DEF q
  <2>2. Len(p) + 1 = at /\ Len(p) \in Nat
    BY <1>1, <1>2, <1>4, <1>8
  <2>3. Right(q)
    <3> SUFFICES ASSUME NEW n \in 1..Len(q)
                 PROVE  q[n] = IF n = at THEN caret
                               ELSE LineRowOf(t, IF n < at THEN first + n - 1
                                                 ELSE first + n - 2, g)
      OBVIOUS
    <3> HIDE DEF caret, at
    <3>1. n \in 1..Len(p) \/ n = Len(p) + 1
      BY <2>1, <2>2
    <3> QED
      BY <1>6, <2>1, <2>2, <3>1
  <2>4. Len(q) = (number + 1 - first) + (IF number + 1 > s THEN 1 ELSE 0)
    BY <1>1, <1>2, <1>4, <1>8, <2>1
  <2>5. RowsOf(q, t, a, z, first, g, number + 1)
    BY <1>3, <2>1, <2>3, <2>4
  <2> QED
    BY <1>4, <1>8, <2>1, <2>5 DEF s
<1> QED
  BY <1>7, <1>8

-----------------------------------------------------------------------------
(* The inductive invariant of a snippet *)

PlaceIn(t, o) == [line |-> LineIn(t, o), column |-> o - BeginOf(t, o) + 1]
FirstOf(t, a, c) == Larger(LineIn(t, a) - c, 1)
LastOf(t, z, c) == Smaller(LineIn(t, z) + c, LinesIn(t))

ArgumentsInv ==
    /\ source = NoSource \/ Sized(source)
    /\ start \in SizeT /\ end \in SizeT /\ context \in SizeT
    /\ pc # "call" => start <= end /\ end <= Length

\* Where the scan of the source is.
ScanInv ==
    /\ i \in 0..Length
    /\ pc = "call" => i = 0
    /\ IF pc \in {"start", "end"}
       THEN /\ i <= Offset
            /\ lineStart = BeginOf(Text, i)
            /\ place = [line |-> LineIn(Text, i), column |-> 1]
       ELSE lineStart = 0 /\ place = FirstPlace

PlacesInv ==
    /\ startPlace = IF pc \in {"call", "start"} THEN FirstPlace ELSE PlaceIn(Text, start)
    /\ endPlace = IF pc \in {"call", "start", "end"} THEN FirstPlace ELSE PlaceIn(Text, end)

BoundsInv ==
    /\ pc \in {"call", "start", "end"} => totalLines = 1
    /\ pc = "count" => totalLines = LineIn(Text, i)
    /\ IF pc \in {"rows", "done"}
       THEN /\ totalLines = LinesIn(Text)
            /\ firstLine = FirstOf(Text, start, context)
            /\ lastLine = LastOf(Text, end, context)
            /\ gutter = Digits(lastLine)
       ELSE firstLine = 1 /\ lastLine = 1 /\ gutter = 1

RowsInv ==
    IF pc \in {"rows", "done"}
    THEN /\ line \in 1..(lastLine + 1)
         /\ pc = "done" => line = lastLine + 1
         /\ CursorAt(Text, cursor, line)
         /\ RowsOf(rows, Text, start, end, firstLine, gutter, line)
    ELSE cursor = 0 /\ line = 1 /\ rows = <<>>

SnippetInv ==
    /\ pc \in {"call", "start", "end", "count", "rows", "done"}
    /\ ArgumentsInv /\ ScanInv /\ PlacesInv /\ BoundsInv /\ RowsInv

LEMMA TextSized ==
  ASSUME ArgumentsInv
  PROVE  Length = Len(Text) /\ Len(Text) \in Nat /\ Len(Text) + 2 <= SizeMax /\ SizeMax \in Nat
<1>1. SizeMax \in Nat /\ SizeMax >= 2
  BY SnippetAssumption
<1>2. CASE source = NoSource
  BY <1>1, <1>2 DEF Text, Length
<1>3. CASE source # NoSource
  BY <1>1, <1>3 DEF ArgumentsInv, Sized, Text, Length
<1> QED
  BY <1>2, <1>3

LEMMA NewLineIsBreak ==
  ASSUME NEW k \in 0..(Len(Text) - 1)
  PROVE  IsNewLine(k) <=> k \in BreaksIn(Text)
BY DEF IsNewLine, BreaksIn

LEMMA PlusIs ==
  ASSUME NEW a \in Nat, NEW b \in Nat, a + b <= SizeMax
  PROVE  Plus(a, b) = a + b
<1>1. SizeMax \in Nat
  BY SnippetAssumption
<1>2. (a + b) % (SizeMax + 1) = a + b
  BY <1>1
<1> QED
  BY <1>2 DEF Plus

LEMMA MinusIs ==
  ASSUME NEW a \in Nat, NEW b \in Nat, b <= a, a <= SizeMax
  PROVE  Minus(a, b) = a - b
<1>1. SizeMax \in Nat
  BY SnippetAssumption
<1>2. (a - b) % (SizeMax + 1) = a - b
  BY <1>1
<1> QED
  BY <1>2 DEF Minus

\* What a call begins with.
Called ==
    /\ pc = "call"
    /\ source = NoSource \/ Sized(source)
    /\ start \in SizeT /\ end \in SizeT /\ context \in SizeT
    /\ LocalsInit

LEMMA CallInv == Called => SnippetInv
<1> SUFFICES ASSUME Called PROVE SnippetInv
  OBVIOUS
<1>1. ArgumentsInv
  BY DEF Called, ArgumentsInv
<1>2. Length \in Nat
  BY <1>1, TextSized
<1> QED
  BY <1>1, <1>2 DEF Called, SnippetInv, ScanInv, PlacesInv, BoundsInv, RowsInv, LocalsInit

LEMMA CallInvNext == Called' => SnippetInv'
BY CallInv, PTL

LEMMA SnippetInit == Init => SnippetInv
<1> SUFFICES ASSUME Init PROVE SnippetInv
  OBVIOUS
<1>1. source = NoSource \/ Sized(source)
  BY SnippetAssumption DEF Init
<1>2. start \in SizeT /\ end \in SizeT /\ context \in SizeT
  BY SnippetAssumption DEF Init, SizeT
<1> QED
  BY <1>1, <1>2, CallInv DEF Init, Called

-----------------------------------------------------------------------------
(* Each step preserves it *)

LEMMA ClampStep ==
  ASSUME SnippetInv, Clamp
  PROVE  SnippetInv'
<1>1. Length = Len(Text) /\ Length \in Nat /\ Length + 2 <= SizeMax /\ SizeMax \in Nat
  BY TextSized DEF SnippetInv
<1>2. Text' = Text /\ Length' = Length
  BY DEF Clamp, Text, Length
<1>3. pc = "call" /\ pc' = "start"
  BY DEF Clamp
<1>4. start \in SizeT /\ end \in SizeT /\ context \in SizeT /\ (source = NoSource \/ Sized(source))
  BY DEF SnippetInv, ArgumentsInv
<1>5. ArgumentsInv'
  <2>1. start' = Smaller(start, Length) /\ end' = Larger(Smaller(end, Length), start')
    BY DEF Clamp
  <2>2. start' \in SizeT /\ start' <= Length
    BY <1>1, <1>4, <2>1 DEF Smaller, SizeT
  <2>3. end' \in SizeT /\ start' <= end' /\ end' <= Length
    BY <1>1, <1>4, <2>1, <2>2 DEF Smaller, Larger, SizeT
  <2> QED
    BY <1>2, <1>4, <2>2, <2>3 DEF Clamp, ArgumentsInv, SizeT, Sized
<1>6. ScanInv'
  <2>1. i = 0 /\ lineStart = 0 /\ place = FirstPlace
    BY <1>3 DEF SnippetInv, ScanInv
  <2>2. BeginOf(Text, 0) = 0 /\ LineIn(Text, 0) = 1
    BY <1>1, LineSpan, LineFirst
  <2>3. Offset' \in Nat
    BY <1>3, <1>5 DEF Offset, ArgumentsInv, SizeT
  <2> QED
    BY <1>1, <1>2, <1>3, <2>1, <2>2, <2>3 DEF Clamp, scan, ScanInv, FirstPlace
<1>7. PlacesInv' /\ BoundsInv' /\ RowsInv'
  BY <1>3 DEF SnippetInv, PlacesInv, BoundsInv, RowsInv, Clamp, bounds, FirstPlace
<1> QED
  BY <1>3, <1>5, <1>6, <1>7 DEF SnippetInv

LEMMA LocateStepStep ==
  ASSUME SnippetInv, LocateStep
  PROVE  SnippetInv'
<1>1. Length = Len(Text) /\ Length \in Nat /\ Length + 2 <= SizeMax /\ SizeMax \in Nat
  BY TextSized DEF SnippetInv
<1>2. Text' = Text /\ Length' = Length /\ Offset' = Offset
  BY DEF LocateStep, arguments, Text, Length, Offset
<1>3. pc \in {"start", "end"} /\ pc' = pc
  BY DEF LocateStep
<1>4. ArgumentsInv'
  BY <1>2 DEF SnippetInv, ArgumentsInv, LocateStep, arguments, SizeT, Sized
<1>5. Offset \in 0..Length
  BY <1>1, <1>3 DEF SnippetInv, ArgumentsInv, SizeT, Offset
<1>6. ScanInv'
  <2>1. /\ i \in Nat /\ i < Offset /\ i' = i + 1
        /\ lineStart = BeginOf(Text, i) /\ place = [line |-> LineIn(Text, i), column |-> 1]
    BY <1>3 DEF SnippetInv, ScanInv, LocateStep
  <2>2. i \in 0..(Len(Text) - 1)
    BY <1>1, <1>5, <2>1
  <2>3. LineIn(Text, i) \in Nat /\ LineIn(Text, i) + 1 <= SizeMax
    BY <1>1, LineRange
  <2>4. Plus(place.line, 1) = LineIn(Text, i) + 1
    BY <2>1, <2>3, PlusIs
  <2>5. lineStart' = BeginOf(Text, i + 1)
    BY <1>1, <2>1, <2>2, BeginNext, NewLineIsBreak DEF LocateStep
  <2>6. place' = [line |-> LineIn(Text, i + 1), column |-> 1]
    BY <1>1, <2>1, <2>2, <2>4, LineNext, NewLineIsBreak DEF LocateStep
  <2>7. i' \in 0..Length /\ i' <= Offset
    BY <1>1, <1>5, <2>1
  <2> QED
    BY <1>2, <1>3, <2>1, <2>5, <2>6, <2>7 DEF ScanInv
<1>7. PlacesInv' /\ BoundsInv' /\ RowsInv'
  BY <1>2, <1>3 DEF SnippetInv, PlacesInv, BoundsInv, RowsInv, LocateStep, arguments, bounds, FirstPlace
<1> QED
  BY <1>3, <1>4, <1>6, <1>7 DEF SnippetInv

LEMMA LocatedStep ==
  ASSUME SnippetInv, Located
  PROVE  SnippetInv'
<1>1. Length = Len(Text) /\ Length \in Nat /\ Length + 2 <= SizeMax /\ SizeMax \in Nat
  BY TextSized DEF SnippetInv
<1>2. Text' = Text /\ Length' = Length
  BY DEF Located, arguments, Text, Length
<1>3. pc \in {"start", "end"} /\ pc' = IF pc = "start" THEN "end" ELSE "count"
  BY DEF Located
<1>4. ArgumentsInv'
  BY <1>2, <1>3 DEF SnippetInv, ArgumentsInv, Located, arguments, SizeT, Sized
<1>5. Offset \in 0..Length
  BY <1>1, <1>3 DEF SnippetInv, ArgumentsInv, SizeT, Offset
<1>6. i = Offset /\ lineStart = BeginOf(Text, Offset) /\ place = [line |-> LineIn(Text, Offset), column |-> 1]
  BY <1>1, <1>3, <1>5 DEF SnippetInv, ScanInv, Located
<1>7. [place EXCEPT !.column = Plus(Minus(Offset, lineStart), 1)] = PlaceIn(Text, Offset)
  <2>1. lineStart \in 0..Offset
    BY <1>1, <1>5, <1>6, LineSpan
  <2>2. Minus(Offset, lineStart) = Offset - lineStart
    BY <1>1, <1>5, <2>1, MinusIs
  <2>3. Plus(Offset - lineStart, 1) = Offset - lineStart + 1
    BY <1>1, <1>5, <2>1, PlusIs
  <2> QED
    BY <1>6, <2>2, <2>3 DEF PlaceIn
<1>8. PlacesInv'
  BY <1>2, <1>3, <1>7 DEF SnippetInv, PlacesInv, Located, arguments, Offset, FirstPlace
<1>9. ScanInv'
  <2>1. BeginOf(Text, 0) = 0 /\ LineIn(Text, 0) = 1
    BY <1>1, LineSpan, LineFirst
  <2>2. i' = 0 /\ lineStart' = 0 /\ place' = FirstPlace
    BY DEF Located
  <2>3. Offset' \in Nat
    BY <1>3, <1>4 DEF Offset, ArgumentsInv, SizeT
  <2> QED
    BY <1>1, <1>2, <1>3, <2>1, <2>2, <2>3 DEF ScanInv, FirstPlace
<1>10. BoundsInv' /\ RowsInv'
  <2>1. LineIn(Text, 0) = 1
    BY <1>1, LineFirst
  <2> QED
    BY <1>2, <1>3, <2>1 DEF SnippetInv, BoundsInv, RowsInv, Located, bounds
<1> QED
  BY <1>3, <1>4, <1>8, <1>9, <1>10 DEF SnippetInv

LEMMA CountLinesStep ==
  ASSUME SnippetInv, CountLines
  PROVE  SnippetInv'
<1>1. Length = Len(Text) /\ Length \in Nat /\ Length + 2 <= SizeMax /\ SizeMax \in Nat
  BY TextSized DEF SnippetInv
<1>2. Text' = Text /\ Length' = Length
  BY DEF CountLines, arguments, Text, Length
<1>3. pc = "count" /\ pc' = "count"
  BY DEF CountLines
<1>4. ArgumentsInv'
  BY <1>2, <1>3 DEF SnippetInv, ArgumentsInv, CountLines, arguments, SizeT, Sized
<1>5. i \in 0..(Len(Text) - 1) /\ i' = i + 1 /\ totalLines = LineIn(Text, i)
  BY <1>1, <1>3 DEF SnippetInv, ScanInv, BoundsInv, CountLines
<1>6. ScanInv'
  BY <1>1, <1>2, <1>3, <1>5 DEF SnippetInv, ScanInv, CountLines, FirstPlace
<1>7. totalLines' = LineIn(Text, i + 1)
  <2>1. LineIn(Text, i) \in Nat /\ LineIn(Text, i) + 1 <= SizeMax
    BY <1>1, LineRange
  <2>2. Plus(totalLines, 1) = LineIn(Text, i) + 1
    BY <1>5, <2>1, PlusIs
  <2> QED
    BY <1>1, <1>5, <2>2, LineNext, NewLineIsBreak DEF CountLines
<1>8. PlacesInv'
  BY <1>2, <1>3 DEF SnippetInv, PlacesInv, CountLines, arguments
<1>9. BoundsInv' /\ RowsInv'
  BY <1>2, <1>3, <1>5, <1>7 DEF SnippetInv, BoundsInv, RowsInv, CountLines
<1> QED
  BY <1>3, <1>4, <1>6, <1>8, <1>9 DEF SnippetInv

\* The lines shown are lines of the source.
LEMMA ShownLines ==
  ASSUME NEW t, Len(t) \in Nat, NEW a \in Nat, NEW z \in Nat, NEW c \in Nat, a <= z
  PROVE  /\ FirstOf(t, a, c) \in 1..LineIn(t, a)
         /\ LastOf(t, z, c) \in LineIn(t, z)..LinesIn(t)
         /\ LineIn(t, a) <= LineIn(t, z)
         /\ LineIn(t, a) \in Nat /\ LineIn(t, z) \in Nat /\ LinesIn(t) \in Nat
<1>1. LineIn(t, a) \in 1..LinesIn(t) /\ LineIn(t, z) \in 1..LinesIn(t) /\ LinesIn(t) \in Nat
  BY LineRange
<1>2. LineIn(t, a) <= LineIn(t, z)
  BY LineGrows
<1> QED
  BY <1>1, <1>2 DEF FirstOf, LastOf, Larger, Smaller

LEMMA BoundsStep ==
  ASSUME SnippetInv, Bounds
  PROVE  SnippetInv'
<1>1. Length = Len(Text) /\ Length \in Nat /\ Length + 2 <= SizeMax /\ SizeMax \in Nat
  BY TextSized DEF SnippetInv
<1>2. Text' = Text /\ Length' = Length
  BY DEF Bounds, arguments, Text, Length
<1>3. pc = "count" /\ pc' = "rows"
  BY DEF Bounds
<1>4. ArgumentsInv'
  BY <1>2, <1>3 DEF SnippetInv, ArgumentsInv, Bounds, arguments, SizeT, Sized
<1>5. start \in Nat /\ end \in Nat /\ context \in Nat /\ start <= end
  BY <1>1, <1>3 DEF SnippetInv, ArgumentsInv, SizeT
<1>6. ScanInv'
  BY <1>2, <1>3 DEF SnippetInv, ScanInv, Bounds, scan
<1>7. PlacesInv'
  BY <1>2, <1>3 DEF SnippetInv, PlacesInv, Bounds, arguments
<1>8. totalLines = LinesIn(Text) /\ totalLines' = totalLines
  BY <1>1, <1>3, LineLast DEF SnippetInv, ScanInv, BoundsInv, Bounds
<1>9. startPlace.line = LineIn(Text, start) /\ endPlace.line = LineIn(Text, end)
  BY <1>3 DEF SnippetInv, PlacesInv, PlaceIn
<1>10. LineIn(Text, start) \in Nat /\ LineIn(Text, end) \in Nat /\ LinesIn(Text) \in Nat
       /\ LineIn(Text, end) <= LinesIn(Text) /\ LinesIn(Text) <= SizeMax
  BY <1>1, LineRange
<1>11. firstLine' = FirstOf(Text, start, context)
  BY <1>5, <1>9, <1>10 DEF Bounds, FirstOf, Larger
<1>12. lastLine' = LastOf(Text, end, context)
  <2>1. Minus(totalLines, endPlace.line) = LinesIn(Text) - LineIn(Text, end)
    BY <1>8, <1>9, <1>10, MinusIs
  <2>2. lastLine' = IF context > LinesIn(Text) - LineIn(Text, end) THEN LinesIn(Text)
                    ELSE Plus(LineIn(Text, end), context)
    BY <1>8, <1>9, <2>1 DEF Bounds, LastShown
  <2>3. CASE context > LinesIn(Text) - LineIn(Text, end)
    BY <1>5, <1>10, <2>2, <2>3 DEF LastOf, Smaller
  <2>4. CASE ~(context > LinesIn(Text) - LineIn(Text, end))
    <3>1. LineIn(Text, end) + context <= SizeMax
      BY <1>1, <1>5, <1>10, <2>4
    <3>2. Plus(LineIn(Text, end), context) = LineIn(Text, end) + context
      BY <1>5, <1>10, <3>1, PlusIs
    <3> QED
      BY <1>5, <1>10, <2>2, <2>4, <3>2 DEF LastOf, Smaller
  <2> QED
    BY <2>3, <2>4
<1>13. firstLine' \in Nat /\ firstLine' >= 1 /\ lastLine' \in Nat /\ lastLine' >= 1
  <2>1. FirstOf(Text, start, context) \in 1..LineIn(Text, start)
        /\ LastOf(Text, end, context) \in LineIn(Text, end)..LinesIn(Text)
    BY <1>1, <1>5, ShownLines
  <2>2. LineIn(Text, end) >= 1
    BY <1>1, LineRange
  <2> QED
    BY <1>10, <1>11, <1>12, <2>1, <2>2
<1>14. gutter' = Digits(lastLine')
  <2>1. gutter' = DecimalWidth(lastLine')
    BY DEF Bounds
  <2> QED
    BY <1>13, <2>1, WidthIsDigits
<1>15. source' = source /\ start' = start /\ end' = end /\ context' = context
  BY DEF Bounds, arguments
<1>16. BoundsInv'
  BY <1>2, <1>3, <1>8, <1>11, <1>12, <1>14, <1>15 DEF BoundsInv
<1>17. RowsInv'
  <2>1. cursor' = 0 /\ line' = 1 /\ rows' = <<>>
    BY <1>3 DEF SnippetInv, RowsInv, Bounds
  <2>2. CursorAt(Text, 0, 1)
    BY <1>1, CursorFirst
  <2>3. RowsOf(<<>>, Text, start, end, firstLine', gutter', 1)
    BY <1>1, <1>13, RowsNone
  <2>4. 1 \in 1..(lastLine' + 1)
    <3>1. \A n \in Nat : 1 \in 1..(n + 1)
      OBVIOUS
    <3> QED
      BY <1>13, <3>1
  <2> QED
    BY <1>2, <1>3, <1>15, <2>1, <2>2, <2>3, <2>4 DEF RowsInv
<1> QED
  BY <1>3, <1>4, <1>6, <1>7, <1>16, <1>17 DEF SnippetInv

\* What the loop over the lines relies on.
LEMMA AtRows ==
  ASSUME SnippetInv, pc \in {"rows", "done"}
  PROVE  /\ Length = Len(Text) /\ Length \in Nat /\ Length + 2 <= SizeMax /\ SizeMax \in Nat
         /\ start \in Nat /\ end \in Nat /\ context \in Nat
         /\ start <= end /\ end <= Length
         /\ startPlace = PlaceIn(Text, start) /\ endPlace = PlaceIn(Text, end)
         /\ firstLine \in Nat /\ firstLine >= 1 /\ firstLine <= LineIn(Text, start)
         /\ lastLine \in Nat /\ LineIn(Text, end) <= lastLine /\ lastLine <= LinesIn(Text)
         /\ LineIn(Text, start) \in Nat /\ LineIn(Text, end) \in Nat /\ LinesIn(Text) \in Nat
         /\ LineIn(Text, start) <= LineIn(Text, end) /\ LinesIn(Text) + 1 <= SizeMax
<1>1. Length = Len(Text) /\ Length \in Nat /\ Length + 2 <= SizeMax /\ SizeMax \in Nat
  BY TextSized DEF SnippetInv
<1>2. start \in Nat /\ end \in Nat /\ context \in Nat /\ start <= end /\ end <= Length
  BY <1>1 DEF SnippetInv, ArgumentsInv, SizeT
<1>3. startPlace = PlaceIn(Text, start) /\ endPlace = PlaceIn(Text, end)
  BY DEF SnippetInv, PlacesInv
<1>4. firstLine = FirstOf(Text, start, context) /\ lastLine = LastOf(Text, end, context)
  BY DEF SnippetInv, BoundsInv
<1>5. /\ FirstOf(Text, start, context) \in 1..LineIn(Text, start)
      /\ LastOf(Text, end, context) \in LineIn(Text, end)..LinesIn(Text)
      /\ LineIn(Text, start) <= LineIn(Text, end)
      /\ LineIn(Text, start) \in Nat /\ LineIn(Text, end) \in Nat /\ LinesIn(Text) \in Nat
  BY <1>1, <1>2, ShownLines
<1>6. LinesIn(Text) <= Len(Text) + 1
  BY <1>1, LineRange
<1> QED
  BY <1>1, <1>2, <1>3, <1>4, <1>5, <1>6

\* LineEnd finds where the line of the cursor ends.
LEMMA LineEndIs ==
  ASSUME Length = Len(Text), Length \in Nat, cursor \in 0..Length
  PROVE  LineEnd = EndOf(Text, cursor)
<1> DEFINE S == {k \in cursor..(Length - 1) : IsNewLine(k)}
           T == {k \in BreaksIn(Text) : cursor <= k}
<1>1. S = T
  BY DEF BreaksIn, IsNewLine
<1>2. LineEnd = IF T = {} THEN Length ELSE Min(T)
  BY <1>1 DEF LineEnd
<1>3. T \in SUBSET Nat /\ T \subseteq BreaksIn(Text) /\ \A k \in T : cursor <= k /\ k < Length
  BY DEF BreaksIn
<1>4. \A k \in BreaksIn(Text) : k \in Nat /\ (cursor <= k => k \in T)
  BY DEF BreaksIn
<1> HIDE DEF S, T
<1>5. CASE T = {}
  <2>1. Unbroken(Text, cursor, Length)
    BY <1>4, <1>5 DEF Unbroken
  <2> QED
    BY <1>2, <1>5, <2>1, EndIs
<1>6. CASE T # {}
  <2> DEFINE e == Min(T)
  <2>1. e \in T /\ \A k \in T : e <= k
    BY <1>3, <1>6, Least
  <2> HIDE DEF e
  <2>2. Unbroken(Text, cursor, e)
    BY <1>3, <1>4, <2>1 DEF Unbroken
  <2>3. e \in cursor..Len(Text) /\ e \in BreaksIn(Text)
    BY <1>3, <2>1
  <2>4. EndOf(Text, cursor) = e
    BY <2>2, <2>3, EndIs
  <2> QED
    BY <1>2, <1>6, <2>4 DEF e
<1> QED
  BY <1>5, <1>6

LEMMA LineRowIs ==
  ASSUME Length = Len(Text), Length \in Nat, line <= LinesIn(Text), CursorAt(Text, cursor, line)
  PROVE  LineRow = LineRowOf(Text, line, gutter)
<1>1. cursor \in 0..Length /\ LineIn(Text, cursor) = line /\ BeginOf(Text, cursor) = cursor
  BY DEF CursorAt
<1>2. LineEnd = EndOf(Text, cursor)
  BY <1>1, LineEndIs
<1>3. Min(OnLineIn(Text, line)) = cursor /\ Max(OnLineIn(Text, line)) = LineEnd
  BY <1>1, <1>2 DEF BeginOf, EndOf
<1> QED
  BY <1>3 DEF LineRow, LineRowOf

LEMMA CaretRowIs ==
  ASSUME Length = Len(Text), Length \in Nat, CursorAt(Text, cursor, line), line <= LinesIn(Text),
         start \in Nat, end \in Nat, start <= end, end <= Length,
         startPlace = PlaceIn(Text, start), endPlace = PlaceIn(Text, end),
         line = LineIn(Text, start)
  PROVE  CaretRow = CaretRowOf(Text, start, end, gutter)
<1>1. cursor \in 0..Length /\ LineIn(Text, cursor) = line /\ BeginOf(Text, cursor) = cursor
  BY DEF CursorAt
<1>2. LineEnd = EndOf(Text, cursor)
  BY <1>1, LineEndIs
<1>3. BeginOf(Text, start) = cursor /\ EndOf(Text, start) = LineEnd
  BY <1>1, <1>2 DEF BeginOf, EndOf
<1>4. cursor \in 0..start /\ LineEnd \in start..Length
  BY <1>3, LineSpan
<1>5. startPlace.column - 1 = start - BeginOf(Text, start)
  BY <1>3, <1>4 DEF PlaceIn
<1>6. HighlightLength = Marks(Text, start, end)
  <2>1. startPlace.line = LineIn(Text, start) /\ endPlace.line = LineIn(Text, end)
    BY DEF PlaceIn
  <2>2. (IF LineEnd - cursor > start - cursor THEN (LineEnd - cursor) - (start - cursor) ELSE 0)
        = LineEnd - start
    BY <1>4
  <2> QED
    BY <1>3, <1>5, <2>1, <2>2 DEF HighlightLength, Marks
<1> QED
  BY <1>5, <1>6 DEF CaretRow, CaretRowOf, CaretsOf

LEMMA NextLineStep ==
  ASSUME SnippetInv, NextLine
  PROVE  SnippetInv'
<1>1. pc = "rows" /\ pc' = "rows" /\ line <= lastLine
  BY DEF NextLine
<1>2. /\ Length = Len(Text) /\ Length \in Nat /\ SizeMax \in Nat
      /\ start \in Nat /\ end \in Nat /\ start <= end /\ end <= Length
      /\ startPlace = PlaceIn(Text, start) /\ endPlace = PlaceIn(Text, end)
      /\ firstLine \in Nat /\ firstLine <= LineIn(Text, start)
      /\ lastLine \in Nat /\ lastLine <= LinesIn(Text) /\ LinesIn(Text) \in Nat
      /\ LinesIn(Text) + 1 <= SizeMax
  BY <1>1, AtRows
<1>3. /\ line \in 1..(lastLine + 1) /\ CursorAt(Text, cursor, line)
      /\ RowsOf(rows, Text, start, end, firstLine, gutter, line)
  BY <1>1 DEF SnippetInv, RowsInv
<1>4. line \in 1..LinesIn(Text) /\ line + 1 \in 1..(lastLine + 1)
  BY <1>1, <1>2, <1>3
<1>5. line' = line + 1
  <2>1. Plus(line, 1) = line + 1
    BY <1>2, <1>4, PlusIs
  <2> QED
    BY <2>1 DEF NextLine
<1>6. CursorAt(Text, cursor', line + 1)
  <2>1. LineEnd = EndOf(Text, cursor)
    BY <1>2, <1>3, LineEndIs DEF CursorAt
  <2>2. cursor' = IF EndOf(Text, cursor) < Len(Text) THEN EndOf(Text, cursor) + 1
                  ELSE EndOf(Text, cursor)
    BY <1>2, <2>1 DEF NextLine
  <2> QED
    BY <1>2, <1>3, <1>4, <2>2, CursorNext
<1>7. RowsOf(rows', Text, start, end, firstLine, gutter, line + 1)
  <2>1. CASE line < firstLine
    <3>1. rows' = rows
      BY <2>1 DEF NextLine
    <3> QED
      BY <1>2, <1>3, <1>4, <2>1, <3>1, RowsSkip
  <2>2. CASE ~(line < firstLine)
    <3>1. LineRow = LineRowOf(Text, line, gutter)
      BY <1>2, <1>3, <1>4, LineRowIs
    <3>2. line = LineIn(Text, start) => CaretRow = CaretRowOf(Text, start, end, gutter)
      BY <1>2, <1>3, <1>4, CaretRowIs
    <3>3. startPlace.line = LineIn(Text, start)
      BY <1>2 DEF PlaceIn
    <3>4. rows' = rows \o <<LineRowOf(Text, line, gutter)>> \o
                  (IF line = LineIn(Text, start)
                   THEN <<CaretRowOf(Text, start, end, gutter)>> ELSE <<>>)
      BY <2>2, <3>1, <3>2, <3>3 DEF NextLine
    <3>5. line \in Nat /\ line >= firstLine
      BY <1>2, <1>4, <2>2
    <3> QED
      BY <1>2, <1>3, <3>4, <3>5, RowsMore
  <2> QED
    BY <2>1, <2>2
<1>8. Text' = Text /\ Length' = Length
  BY DEF NextLine, arguments, Text, Length
<1>9. RowsInv'
  BY <1>1, <1>4, <1>5, <1>6, <1>7, <1>8 DEF RowsInv, NextLine, arguments, bounds
<1>10. ArgumentsInv'
  BY <1>1, <1>8 DEF SnippetInv, ArgumentsInv, NextLine, arguments, SizeT, Sized
<1>11. ScanInv' /\ PlacesInv' /\ BoundsInv'
  BY <1>1, <1>8 DEF SnippetInv, ScanInv, PlacesInv, BoundsInv, NextLine, arguments, scan, bounds
<1> QED
  BY <1>1, <1>9, <1>10, <1>11 DEF SnippetInv

LEMMA ReturnStep ==
  ASSUME SnippetInv, Return
  PROVE  SnippetInv'
<1>1. pc = "rows" /\ pc' = "done"
  BY DEF Return
<1>2. line = lastLine + 1
  <2>1. lastLine \in Nat /\ line \in 1..(lastLine + 1) /\ line > lastLine
    BY <1>1, AtRows DEF SnippetInv, RowsInv, Return
  <2> QED
    BY <2>1
<1>3. Text' = Text /\ Length' = Length
  BY DEF Return, arguments, Text, Length
<1>4. ArgumentsInv'
  BY <1>1, <1>3 DEF SnippetInv, ArgumentsInv, Return, arguments, SizeT, Sized
<1>5. ScanInv' /\ PlacesInv' /\ BoundsInv'
  BY <1>1, <1>3 DEF SnippetInv, ScanInv, PlacesInv, BoundsInv, Return, arguments, scan, bounds
<1>6. RowsInv'
  BY <1>1, <1>2, <1>3 DEF SnippetInv, RowsInv, Return, arguments, bounds
<1> QED
  BY <1>1, <1>4, <1>5, <1>6 DEF SnippetInv

LEMMA SnippetStep ==
  ASSUME SnippetInv, Step
  PROVE  SnippetInv'
BY ClampStep, LocateStepStep, LocatedStep, CountLinesStep, BoundsStep, NextLineStep, ReturnStep
   DEF Step

LEMMA SnippetUnchanged ==
  ASSUME SnippetInv, UNCHANGED vars
  PROVE  SnippetInv'
<1>1. Text' = Text /\ Length' = Length /\ Offset' = Offset
  BY DEF vars, arguments, Text, Length, Offset
<1>2. ArgumentsInv'
  BY <1>1 DEF SnippetInv, ArgumentsInv, vars, arguments, SizeT, Sized
<1>3. ScanInv' /\ PlacesInv' /\ BoundsInv' /\ RowsInv'
  BY <1>1 DEF SnippetInv, ScanInv, PlacesInv, BoundsInv, RowsInv, vars, arguments, scan, bounds
<1> QED
  BY <1>2, <1>3 DEF SnippetInv, vars

-----------------------------------------------------------------------------
(* What the invariant says of the properties *)

LEMMA LinesAre ==
  ASSUME Length = Len(Text)
  PROVE  /\ Breaks = BreaksIn(Text) /\ LastOfSource = LinesIn(Text)
         /\ \A o : LineOf(o) = LineIn(Text, o)
         /\ \A n : OnLine(n) = OnLineIn(Text, n)
<1>1. Breaks = BreaksIn(Text)
  BY DEF Breaks, BreaksIn, IsNewLine
<1>2. LastOfSource = LinesIn(Text)
  BY <1>1 DEF LastOfSource, LinesIn
<1>3. ASSUME NEW o PROVE LineOf(o) = LineIn(Text, o)
  BY <1>1 DEF LineOf, LineIn, Before
<1>4. ASSUME NEW n PROVE OnLine(n) = OnLineIn(Text, n)
  BY <1>3 DEF OnLine, OnLineIn
<1> QED
  BY <1>1, <1>2, <1>3, <1>4

LEMMA PlaceTyped ==
  ASSUME NEW t, Len(t) \in Nat, Len(t) + 2 <= SizeMax, NEW o \in 0..Len(t)
  PROVE  PlaceIn(t, o) \in Place /\ [line |-> LineIn(t, o), column |-> 1] \in Place
         /\ FirstPlace \in Place
<1>1. SizeMax \in Nat
  BY SnippetAssumption
<1>2. LineIn(t, o) \in Nat /\ LineIn(t, o) <= SizeMax
  BY <1>1, LineRange
<1>3. o - BeginOf(t, o) + 1 \in Nat /\ o - BeginOf(t, o) + 1 <= SizeMax
  <2>1. BeginOf(t, o) \in 0..o
    BY LineSpan
  <2> QED
    BY <1>1, <2>1
<1>4. 1 \in SizeT
  BY <1>1 DEF SizeT
<1> QED
  BY <1>1, <1>2, <1>3, <1>4 DEF PlaceIn, Place, FirstPlace, SizeT

LEMMA TypesHold == SnippetInv => TypeOK
<1> SUFFICES ASSUME SnippetInv PROVE TypeOK
  OBVIOUS
<1>1. Length = Len(Text) /\ Length \in Nat /\ Length + 2 <= SizeMax /\ SizeMax \in Nat
  BY TextSized DEF SnippetInv
<1>2. start \in SizeT /\ end \in SizeT /\ context \in SizeT
      /\ (pc # "call" => start <= end /\ end <= Length)
  BY DEF SnippetInv, ArgumentsInv
<1>3. LastOfSource = LinesIn(Text)
  BY <1>1, LinesAre
<1>4. LinesIn(Text) \in 1..(Length + 1)
  BY <1>1, LineRange
<1>5. FirstPlace \in Place
  <2>1. 0 \in 0..Len(Text)
    BY <1>1
  <2> QED
    BY <1>1, <2>1, PlaceTyped
<1>6. i \in 0..Length
  BY DEF SnippetInv, ScanInv
<1>7. lineStart \in 0..i /\ place \in Place
  <2>1. CASE pc \in {"start", "end"}
    BY <1>1, <1>6, <2>1, LineSpan, PlaceTyped DEF SnippetInv, ScanInv
  <2>2. CASE pc \notin {"start", "end"}
    BY <1>1, <1>5, <1>6, <2>2 DEF SnippetInv, ScanInv
  <2> QED
    BY <2>1, <2>2
<1>8. startPlace \in Place /\ endPlace \in Place
  <2>1. pc # "call" => start \in 0..Length /\ end \in 0..Length
    BY <1>1, <1>2 DEF SizeT
  <2>2. pc # "call" => PlaceIn(Text, start) \in Place /\ PlaceIn(Text, end) \in Place
    BY <1>1, <2>1, PlaceTyped
  <2> QED
    BY <1>5, <2>2 DEF SnippetInv, PlacesInv
<1>9. totalLines \in 1..LinesIn(Text)
  <2>1. CASE pc \in {"call", "start", "end"}
    BY <1>1, <1>4, <2>1 DEF SnippetInv, BoundsInv
  <2>2. CASE pc = "count"
    BY <1>1, <2>2, LineRange DEF SnippetInv, BoundsInv
  <2>3. CASE pc \in {"rows", "done"}
    BY <1>1, <1>4, <2>3 DEF SnippetInv, BoundsInv
  <2> QED
    BY <2>1, <2>2, <2>3 DEF SnippetInv
<1>10. CASE pc \in {"rows", "done"}
  <2>1. /\ firstLine \in Nat /\ firstLine >= 1 /\ firstLine <= LineIn(Text, start)
        /\ lastLine \in Nat /\ LineIn(Text, end) <= lastLine /\ lastLine <= LinesIn(Text)
        /\ LineIn(Text, start) \in Nat /\ LineIn(Text, end) \in Nat /\ LinesIn(Text) \in Nat
        /\ LineIn(Text, start) <= LineIn(Text, end) /\ LinesIn(Text) + 1 <= SizeMax
    BY <1>10, AtRows
  <2>2. firstLine \in 1..LinesIn(Text) /\ lastLine \in 1..LinesIn(Text)
    BY <2>1
  <2>3. gutter \in SizeT
    <3>1. gutter = Digits(lastLine) /\ Digits(lastLine) \in 1..(lastLine + 1)
      BY <1>10, <2>1, DigitsAre DEF SnippetInv, BoundsInv
    <3> QED
      BY <1>1, <2>1, <3>1 DEF SizeT
  <2>4. /\ line \in 1..(lastLine + 1) /\ cursor \in 0..Length
        /\ Len(rows) = RowCount(Text, start, firstLine, line)
    BY <1>1, <1>10 DEF SnippetInv, RowsInv, CursorAt, RowsOf
  <2>5. line \in 1..(LinesIn(Text) + 1)
    BY <2>1, <2>4
  <2>6. Len(rows) <= LinesIn(Text) + 1
    BY <2>1, <2>4 DEF RowCount
  <2> QED
    BY <1>2, <1>3, <1>6, <1>7, <1>8, <1>9, <1>10, <2>2, <2>3, <2>4, <2>5, <2>6 DEF TypeOK
<1>11. CASE pc \notin {"rows", "done"}
  <2>1. firstLine = 1 /\ lastLine = 1 /\ gutter = 1 /\ cursor = 0 /\ line = 1 /\ rows = <<>>
    BY <1>11 DEF SnippetInv, BoundsInv, RowsInv
  <2>2. 1 \in 1..LinesIn(Text) /\ 1 \in SizeT /\ 0 \in 0..Length /\ 1 \in 1..(LinesIn(Text) + 1)
        /\ Len(<<>>) <= LinesIn(Text) + 1
    BY <1>1, <1>4 DEF SizeT
  <2> QED
    BY <1>2, <1>3, <1>6, <1>7, <1>8, <1>9, <2>1, <2>2 DEF TypeOK, SnippetInv
<1> QED
  BY <1>10, <1>11

LEMMA LocationsHold == SnippetInv => LocationsRight
<1> SUFFICES ASSUME SnippetInv, pc \in {"rows", "done"}
             PROVE  /\ startPlace = [line |-> LineOf(start),
                                     column |-> start - Min(OnLine(LineOf(start))) + 1]
                    /\ endPlace = [line |-> LineOf(end),
                                   column |-> end - Min(OnLine(LineOf(end))) + 1]
  BY DEF LocationsRight
<1>1. Length = Len(Text) /\ startPlace = PlaceIn(Text, start) /\ endPlace = PlaceIn(Text, end)
  BY AtRows
<1> QED
  BY <1>1, LinesAre DEF PlaceIn, BeginOf

\* When the snippet is complete.
LEMMA Complete ==
  ASSUME SnippetInv, pc = "done"
  PROVE  /\ Len(rows) = lastLine - firstLine + 2
         /\ CaretAt(Text, start, firstLine) \in 2..Len(rows)
         /\ DOMAIN rows = 1..Len(rows)
         /\ rows[CaretAt(Text, start, firstLine)] = CaretRowOf(Text, start, end, gutter)
         /\ \A n \in 1..Len(rows) : n # CaretAt(Text, start, firstLine) =>
               rows[n] = LineRowOf(Text, RowNumber(Text, start, firstLine, n), gutter)
         /\ \A n \in 1..Len(rows) : RowNumber(Text, start, firstLine, n) \in Nat
<1>1. /\ firstLine \in Nat /\ firstLine >= 1 /\ firstLine <= LineIn(Text, start)
      /\ lastLine \in Nat /\ LineIn(Text, end) <= lastLine
      /\ LineIn(Text, start) \in Nat /\ LineIn(Text, end) \in Nat
      /\ LineIn(Text, start) <= LineIn(Text, end)
  BY AtRows
<1>2. line = lastLine + 1 /\ RowsOf(rows, Text, start, end, firstLine, gutter, line)
  BY DEF SnippetInv, RowsInv
<1>3. /\ rows \in Seq(RowSet(Text, start, end, gutter))
      /\ Len(rows) = RowCount(Text, start, firstLine, lastLine + 1)
  BY <1>2 DEF RowsOf
<1>4. Len(rows) = lastLine - firstLine + 2
  BY <1>1, <1>3 DEF RowCount
<1>5. CaretAt(Text, start, firstLine) \in 2..Len(rows)
  BY <1>1, <1>4 DEF CaretAt
<1>6. \A n \in 1..Len(rows) : RowNumber(Text, start, firstLine, n) \in Nat
  BY <1>1, <1>4 DEF RowNumber
<1>7. DOMAIN rows = 1..Len(rows)
  BY <1>3
<1> QED
  BY <1>2, <1>4, <1>5, <1>6, <1>7 DEF RowsOf

LEMMA IntervalLess ==
  ASSUME NEW m \in Nat, NEW x
  PROVE  /\ IsFiniteSet((1..m) \ {x})
         /\ Cardinality((1..m) \ {x}) = IF x \in 1..m THEN m - 1 ELSE m
<1>1. IsFiniteSet(1..m) /\ Cardinality(1..m) = m
  <2>1. IsFiniteSet(1..m) /\ Cardinality(1..m) = (IF 1 > m THEN 0 ELSE m - 1 + 1)
    BY FS_Interval
  <2> QED
    BY <2>1
<1> QED
  BY <1>1, FS_RemoveElement

LEMMA RowsHold == SnippetInv => RowsRight
<1> SUFFICES ASSUME SnippetInv, pc = "done" PROVE RowsRight
  BY DEF RowsRight
<1> DEFINE at == CaretAt(Text, start, firstLine)
           lines == {n \in DOMAIN rows : rows[n].number # NoNumber}
           Above(n) == {m \in lines : m < n}
           Number(n) == RowNumber(Text, start, firstLine, n)
<1>1. /\ Length = Len(Text) /\ firstLine \in Nat /\ firstLine >= 1 /\ lastLine \in Nat
      /\ firstLine <= LineIn(Text, start) /\ LineIn(Text, start) <= LineIn(Text, end)
      /\ LineIn(Text, end) <= lastLine /\ LineIn(Text, start) \in Nat /\ LineIn(Text, end) \in Nat
  BY AtRows
<1>2. /\ Len(rows) = lastLine - firstLine + 2
      /\ at \in 2..Len(rows) /\ DOMAIN rows = 1..Len(rows)
      /\ rows[at] = CaretRowOf(Text, start, end, gutter)
      /\ \A n \in 1..Len(rows) : n # at => rows[n] = LineRowOf(Text, Number(n), gutter)
      /\ \A n \in 1..Len(rows) : Number(n) \in Nat
  BY Complete
<1>3. rows[at].number = NoNumber
  BY <1>2 DEF CaretRowOf
<1>4. \A n \in 1..Len(rows) : n # at => rows[n].number = Number(n)
  BY <1>2 DEF LineRowOf
<1>5. \A n \in 1..Len(rows) : Number(n) # NoNumber
  BY <1>2, SnippetAssumption
<1>6. \A n \in 1..Len(rows) : n # at => Number(n) = IF n < at THEN firstLine + n - 1 ELSE firstLine + n - 2
  BY DEF RowNumber
<1> HIDE DEF at, Number
<1>7. lines = (1..Len(rows)) \ {at}
  BY <1>2, <1>3, <1>4, <1>5
<1> HIDE DEF lines
<1>8. Shown = firstLine..lastLine
  <2>1. firstLine = FirstOf(Text, start, context) /\ lastLine = LastOf(Text, end, context)
    BY DEF SnippetInv, BoundsInv
  <2>2. FirstShown = firstLine
    BY <1>1, <2>1, LinesAre DEF FirstShown, FirstOf
  <2> QED
    BY <1>1, <2>1, <2>2, LinesAre DEF Shown, LastOf
<1>9. Cardinality(lines) = Cardinality(Shown)
  <2>1. Len(rows) \in Nat
    BY <1>1, <1>2
  <2>2. Cardinality(lines) = Len(rows) - 1
    <3>1. at \in 1..Len(rows)
      BY <1>2
    <3> QED
      BY <1>7, <2>1, <3>1, IntervalLess
  <2>3. Cardinality(firstLine..lastLine) = (IF firstLine > lastLine THEN 0 ELSE lastLine - firstLine + 1)
    <3>1. firstLine \in Int /\ lastLine \in Int
      BY <1>1
    <3> QED
      BY ONLY <3>1, FS_Interval
  <2> QED
    BY <1>1, <1>2, <1>8, <2>2, <2>3
<1>10. ASSUME NEW n \in lines
       PROVE  /\ rows[n].number = FirstShown + Cardinality(Above(n))
              /\ rows[n].text = TextOf(rows[n].number)
  <2>1. n \in 1..Len(rows) /\ n # at /\ Len(rows) \in Nat
    BY <1>1, <1>2, <1>7
  <2>2. FirstShown = firstLine
    <3>1. firstLine = FirstOf(Text, start, context)
      BY DEF SnippetInv, BoundsInv
    <3> QED
      BY <1>1, <3>1, LinesAre DEF FirstShown, FirstOf
  <2>3. Above(n) = (1..(n - 1)) \ {at}
    BY <1>7, <2>1
  <2>4. Cardinality(Above(n)) = IF at \in 1..(n - 1) THEN (n - 1) - 1 ELSE n - 1
    <3>1. n - 1 \in Nat
      BY <2>1
    <3> HIDE DEF Above
    <3> QED
      BY <2>3, <3>1, IntervalLess
  <2> HIDE DEF Above
  <2>5. rows[n].number = FirstShown + Cardinality(Above(n))
    <3>1. rows[n].number = IF n < at THEN firstLine + n - 1 ELSE firstLine + n - 2
      BY <1>4, <1>6, <2>1
    <3>2. at \in Nat /\ at >= 2 /\ n \in Nat /\ n >= 1 /\ n # at
      BY <1>2, <2>1
    <3>3. CASE n < at
      <4>1. at \notin 1..(n - 1)
        BY <3>2, <3>3
      <4> QED
        BY <1>1, <2>2, <2>4, <3>1, <3>2, <3>3, <4>1
    <3>4. CASE ~(n < at)
      <4>1. at \in 1..(n - 1)
        BY <3>2, <3>4
      <4> QED
        BY <1>1, <2>2, <2>4, <3>1, <3>2, <3>4, <4>1
    <3> QED
      BY <3>3, <3>4
  <2>6. rows[n].text = TextOf(rows[n].number)
    <3>1. rows[n] = LineRowOf(Text, Number(n), gutter) /\ rows[n].number = Number(n)
      BY <1>2, <1>4, <2>1
    <3>2. rows[n].text = SubSeq(Text, Min(OnLineIn(Text, Number(n))) + 1,
                                Max(OnLineIn(Text, Number(n))))
      <4>1. \A x, g : LineRowOf(Text, x, g).text =
                         SubSeq(Text, Min(OnLineIn(Text, x)) + 1, Max(OnLineIn(Text, x)))
        BY Zenon DEF LineRowOf
      <4> QED
        BY <3>1, <4>1
    <3>3. OnLine(Number(n)) = OnLineIn(Text, Number(n))
      BY <1>1, LinesAre
    <3>4. TextOf(Number(n)) = rows[n].text
      BY <3>2, <3>3 DEF TextOf
    <3> QED
      BY <3>1, <3>4
  <2> QED
    BY <2>5, <2>6
<1> QED
  BY <1>9, <1>10 DEF RowsRight, lines

LEMMA GutterHolds == SnippetInv => GutterAligned
<1> SUFFICES ASSUME SnippetInv, NEW n \in DOMAIN rows
             PROVE  rows[n].pad + (IF rows[n].number = NoNumber THEN 0
                                   ELSE Digits(rows[n].number)) = gutter
  BY DEF GutterAligned
<1>1. pc \in {"rows", "done"}
  <2>1. SUFFICES ASSUME rows = <<>> PROVE FALSE
    BY DEF SnippetInv, RowsInv
  <2> QED
    BY <2>1
<1> DEFINE at == CaretAt(Text, start, firstLine)
           number == RowNumber(Text, start, firstLine, n)
<1>2. /\ firstLine \in Nat /\ firstLine >= 1 /\ firstLine <= LineIn(Text, start)
      /\ lastLine \in Nat /\ LineIn(Text, end) <= lastLine
      /\ LineIn(Text, start) \in Nat /\ LineIn(Text, end) \in Nat
      /\ LineIn(Text, start) <= LineIn(Text, end)
  BY <1>1, AtRows
<1>3. line \in 1..(lastLine + 1) /\ RowsOf(rows, Text, start, end, firstLine, gutter, line)
      /\ gutter = Digits(lastLine)
  BY <1>1 DEF SnippetInv, RowsInv, BoundsInv
<1>4. /\ n \in 1..Len(rows) /\ Len(rows) = RowCount(Text, start, firstLine, line)
      /\ rows[n] = IF n = at THEN CaretRowOf(Text, start, end, gutter)
                   ELSE LineRowOf(Text, number, gutter)
  BY <1>3 DEF RowsOf
<1>5. gutter \in Nat
  BY <1>2, <1>3, DigitsAre
<1>6. CASE n = at
  <2>1. rows[n].pad = gutter /\ rows[n].number = NoNumber
    BY <1>4, <1>6 DEF CaretRowOf
  <2> QED
    BY <1>5, <2>1
<1>7. CASE n # at
  <2>1. number \in Nat /\ number <= lastLine
    <3> DEFINE s == LineIn(Text, start)
    <3>1. /\ number = IF n < at THEN firstLine + n - 1 ELSE firstLine + n - 2
          /\ at = s - firstLine + 2
      BY DEF RowNumber, CaretAt
    <3>2. Len(rows) = (IF line > firstLine THEN line - firstLine ELSE 0) + (IF line > s THEN 1 ELSE 0)
      BY <1>4 DEF RowCount
    <3>3. n \in Nat /\ n >= 1 /\ n <= Len(rows) /\ n # at
      BY <1>2, <1>3, <1>4, <1>7, <3>2
    <3>4. s \in Nat /\ s <= lastLine /\ firstLine <= s
      BY <1>2
    <3>5. line \in Nat /\ line <= lastLine + 1
      BY <1>2, <1>3
    <3> HIDE DEF s, at, number
    <3>6. CASE n < at
      BY <1>2, <3>1, <3>3, <3>4, <3>6
    <3>7. CASE ~(n < at)
      BY <1>2, <3>1, <3>2, <3>3, <3>4, <3>5, <3>7
    <3> QED
      BY <3>6, <3>7
  <2>2. Digits(number) \in Nat /\ Digits(number) <= gutter
    BY <1>2, <1>3, <2>1, DigitsAre, DigitsGrow
  <2>3. rows[n].pad = (IF Digits(number) < gutter THEN gutter - Digits(number) ELSE 0)
        /\ rows[n].number = number
    BY <1>4, <1>7 DEF LineRowOf
  <2>4. number # NoNumber
    BY <2>1, SnippetAssumption
  <2> HIDE DEF number
  <2> QED
    BY <1>5, <2>2, <2>3, <2>4
<1> QED
  BY <1>6, <1>7

\* The bytes of a..z on the line of a, or a itself where there are none.
MarkedIn(t, a, z) ==
    {a} \cup {k \in a..(z - 1) : LineIn(t, k) = LineIn(t, a) /\ k \notin BreaksIn(t)}

LEMMA MarkedIs ==
  ASSUME NEW t, Len(t) \in Nat, NEW a \in Nat, NEW z \in Nat, a <= z, z <= Len(t)
  PROVE  /\ Marks(t, a, z) \in Nat /\ Marks(t, a, z) >= 1
         /\ MarkedIn(t, a, z) = a..(a + Marks(t, a, z) - 1)
<1> DEFINE e == EndOf(t, a)
           b == BeginOf(t, a)
           stop == IF LineIn(t, a) = LineIn(t, z) THEN z ELSE e
           marked == {k \in a..(z - 1) : LineIn(t, k) = LineIn(t, a) /\ k \notin BreaksIn(t)}
<1>1. /\ a \in 0..Len(t) /\ b \in 0..a /\ e \in a..Len(t) /\ LineIn(t, e) = LineIn(t, a)
      /\ Unbroken(t, b, e) /\ (e = Len(t) \/ e \in BreaksIn(t))
  BY LineSpan
<1> HIDE DEF b, e
<1>2. stop \in a..z /\ Unbroken(t, a, stop)
  <2>1. CASE LineIn(t, a) = LineIn(t, z)
    BY <2>1, LineGrows
  <2>2. CASE LineIn(t, a) # LineIn(t, z)
    <3>1. e < z
      <4>1. SUFFICES ASSUME z <= e PROVE FALSE
        BY <1>1
      <4>2. LineIn(t, a) <= LineIn(t, z) /\ LineIn(t, z) <= LineIn(t, e)
        BY <1>1, <4>1, LineGrows
      <4>3. LineIn(t, a) \in Nat /\ LineIn(t, z) \in Nat
        BY LineRange
      <4> QED
        BY <1>1, <2>2, <4>2, <4>3
    <3>2. Unbroken(t, a, e)
      BY <1>1 DEF Unbroken, BreaksIn
    <3> QED
      BY <1>1, <2>2, <3>1, <3>2
  <2> QED
    BY <2>1, <2>2
<1>3. stop = z \/ (stop = e /\ e \in BreaksIn(t) /\ e < z)
  <2>1. CASE LineIn(t, a) = LineIn(t, z)
    BY <2>1
  <2>2. CASE LineIn(t, a) # LineIn(t, z)
    <3>1. stop = e
      BY <2>2
    <3>2. e # z
      BY <1>1, <2>2
    <3> HIDE DEF stop
    <3> QED
      BY <1>1, <1>2, <3>1, <3>2
  <2> QED
    BY <2>1, <2>2
<1>4. Marks(t, a, z) = IF stop - a = 0 THEN 1 ELSE stop - a
  BY DEF Marks, e
<1> HIDE DEF stop
<1>5. ASSUME NEW k \in a..(stop - 1)
      PROVE  k \in a..(z - 1) /\ LineIn(t, k) = LineIn(t, a) /\ k \notin BreaksIn(t)
  <2>1. k \in a..(z - 1) /\ k \in Nat /\ a <= k /\ k < stop
    BY <1>2
  <2>2. Unbroken(t, a, k)
    BY <1>2, <2>1 DEF Unbroken, BreaksIn
  <2>3. LineIn(t, k) = LineIn(t, a)
    BY <2>1, <2>2, LineGrows
  <2>4. k \notin BreaksIn(t)
    BY <1>2, <2>1 DEF Unbroken
  <2> QED
    BY <2>1, <2>3, <2>4
<1>6. ASSUME NEW k \in a..(z - 1), LineIn(t, k) = LineIn(t, a), k \notin BreaksIn(t)
      PROVE  k \in a..(stop - 1)
  <2>1. SUFFICES ASSUME ~(k < stop) PROVE FALSE
    BY <1>2
  <2>2. stop = e /\ e \in BreaksIn(t) /\ e < z
    BY <1>2, <1>3, <2>1
  <2>3. e <= k /\ e # k /\ k \in Nat /\ e \in Nat
    BY <1>1, <1>2, <1>6, <2>1, <2>2
  <2>4. Unbroken(t, e, k)
    BY <1>1, <1>6, <2>3, LineGrows
  <2> QED
    BY <2>2, <2>3, <2>4 DEF Unbroken
<1>7. marked = a..(stop - 1)
  BY <1>5, <1>6
<1>8. MarkedIn(t, a, z) = {a} \cup marked
  BY DEF MarkedIn
<1> HIDE DEF marked
<1>9. {a} \cup (a..(stop - 1)) = a..(a + Marks(t, a, z) - 1)
  <2>1. CASE stop = a
    BY <1>2, <1>4, <2>1
  <2>2. CASE stop # a
    BY <1>2, <1>4, <2>2
  <2> QED
    BY <2>1, <2>2
<1> QED
  BY <1>2, <1>4, <1>7, <1>8, <1>9

LEMMA CaretsMark ==
  ASSUME NEW t, Len(t) \in Nat, NEW a \in Nat, NEW z \in Nat, a <= z, z <= Len(t)
  PROVE  {BeginOf(t, a) + k - 1 : k \in {k \in DOMAIN CaretsOf(t, a, z) : CaretsOf(t, a, z)[k] = Caret}}
         = a..(a + Marks(t, a, z) - 1)
<1> DEFINE b == BeginOf(t, a)
           m == Marks(t, a, z)
           f == CaretsOf(t, a, z)
<1>1. b \in 0..a /\ m \in Nat /\ m >= 1
  <2>1. a \in 0..Len(t)
    OBVIOUS
  <2> QED
    BY <2>1, LineSpan, MarkedIs
<1>2. f = [k \in 1..((a - b) + m) |-> IF k <= a - b THEN Blank ELSE Caret]
  BY DEF CaretsOf
<1>3. Blank # Caret
  BY SnippetAssumption
<1> HIDE DEF b, m, f
<1>4. {k \in DOMAIN f : f[k] = Caret} = (a - b + 1)..(a - b + m)
  <2>1. DOMAIN f = 1..((a - b) + m)
    BY <1>2
  <2>2. \A k \in 1..((a - b) + m) : f[k] = Caret <=> ~(k <= a - b)
    BY <1>2, <1>3
  <2> QED
    BY <1>1, <2>1, <2>2
<1>5. {b + k - 1 : k \in (a - b + 1)..(a - b + m)} = a..(a + m - 1)
  <2>1. ASSUME NEW k \in (a - b + 1)..(a - b + m) PROVE b + k - 1 \in a..(a + m - 1)
    BY <1>1
  <2>2. ASSUME NEW n \in a..(a + m - 1)
        PROVE  n - b + 1 \in (a - b + 1)..(a - b + m) /\ n = b + (n - b + 1) - 1
    BY <1>1
  <2> QED
    BY <2>1, <2>2
<1> QED
  BY <1>4, <1>5 DEF b, m, f

LEMMA CaretHolds == SnippetInv => CaretRight
<1> SUFFICES ASSUME SnippetInv, pc = "done" PROVE CaretRight
  BY DEF CaretRight
<1> DEFINE at == CaretAt(Text, start, firstLine)
           carets == {n \in DOMAIN rows : rows[n].number = NoNumber}
           Number(n) == RowNumber(Text, start, firstLine, n)
<1>1. /\ Length = Len(Text) /\ Length \in Nat
      /\ start \in Nat /\ end \in Nat /\ start <= end /\ end <= Length
      /\ firstLine \in Nat /\ firstLine >= 1 /\ LineIn(Text, start) \in Nat
      /\ firstLine <= LineIn(Text, start) /\ lastLine \in Nat
  BY AtRows
<1>2. /\ Len(rows) = lastLine - firstLine + 2
      /\ at \in 2..Len(rows) /\ DOMAIN rows = 1..Len(rows)
      /\ rows[at] = CaretRowOf(Text, start, end, gutter)
      /\ \A n \in 1..Len(rows) : n # at => rows[n] = LineRowOf(Text, Number(n), gutter)
      /\ \A n \in 1..Len(rows) : Number(n) \in Nat
  BY Complete
<1>3. rows[at].number = NoNumber /\ rows[at].text = CaretsOf(Text, start, end)
  BY <1>2 DEF CaretRowOf
<1>4. \A n \in 1..Len(rows) : n # at => rows[n].number = Number(n) /\ Number(n) # NoNumber
  BY <1>2, SnippetAssumption DEF LineRowOf
<1>5. carets = {at}
  <2>1. at \in 1..Len(rows)
    BY <1>2
  <2> HIDE DEF at, Number
  <2> QED
    BY <1>2, <1>3, <1>4, <2>1
<1>6. Cardinality(carets) = 1
  BY <1>5, FS_Singleton
<1>7. Max(carets) = at
  <2>1. at \in Nat /\ at >= at
    BY <1>2
  <2> HIDE DEF at
  <2>2. Max({at}) = at
    <3>1. at \in {at} /\ \A y \in {at} : at >= y
      BY <2>1
    <3>2. Max({at}) \in {at}
      BY <3>1 DEF Max
    <3> QED
      BY <3>2
  <2> QED
    BY <1>5, <2>2
<1>8. at > 1 /\ rows[at - 1].number = LineOf(start)
  <2>1. at - 1 \in 1..Len(rows) /\ at - 1 # at /\ at > 1
    BY <1>2
  <2>2. Number(at - 1) = LineIn(Text, start)
    BY <1>1 DEF RowNumber, CaretAt
  <2> HIDE DEF at, Number
  <2> QED
    BY <1>1, <1>4, <2>1, <2>2, LinesAre
<1> HIDE DEF at, carets, Number
<1> DEFINE row == rows[Max(carets)]
           first == Min(OnLine(LineOf(start)))
           marked == {start} \cup {k \in start..(end - 1) :
                                       LineOf(k) = LineOf(start) /\ k \notin Breaks}
<1>9. row.text = CaretsOf(Text, start, end)
  BY <1>3, <1>7
<1>10. first = BeginOf(Text, start)
  BY <1>1, LinesAre DEF BeginOf
<1>11. marked = MarkedIn(Text, start, end)
  BY <1>1, LinesAre DEF MarkedIn
<1>12. MarkedIn(Text, start, end) = start..(start + Marks(Text, start, end) - 1)
  BY <1>1, MarkedIs
<1>13. {BeginOf(Text, start) + k - 1 :
            k \in {k \in DOMAIN CaretsOf(Text, start, end) : CaretsOf(Text, start, end)[k] = Caret}}
       = start..(start + Marks(Text, start, end) - 1)
  BY <1>1, CaretsMark
<1> HIDE DEF first
<1>14. {first + k - 1 : k \in {k \in DOMAIN row.text : row.text[k] = Caret}} = marked
  BY <1>9, <1>10, <1>11, <1>12, <1>13
<1>15. Max(carets) > 1 /\ rows[Max(carets) - 1].number = LineOf(start)
  BY <1>7, <1>8
<1> QED
  BY <1>6, <1>14, <1>15 DEF CaretRight, carets, first

LEMMA SnippetHolds == SnippetInv => SnippetRight
BY RowsHold, CaretHolds, GutterHolds DEF SnippetRight

-----------------------------------------------------------------------------
(* Snippets of a source *)

LEMMA SnippetAlways == Spec => []SnippetInv
<1>1. SnippetInv /\ [Next]_vars => SnippetInv'
  BY SnippetStep, SnippetUnchanged DEF Next, Returned
<1> QED
  BY SnippetInit, <1>1, PTL DEF Spec

-----------------------------------------------------------------------------
(* Start tags *)

\* The ends that are known of the name and of the first n attributes.
PassedEnds(t, n) ==
    ({t.nameEnd} \cup {t.attrs[k].nameEnd : k \in 1..n} \cup {t.attrs[k].valueEnd : k \in 1..n})
    \ {NoPosition}

\* html_start_tag_range at work: the cursor is in the tag, past all that it has seen.
RangeInv ==
    /\ tag \in StartTags /\ attr \in 0..Len(tag.attrs)
    /\ source = tag.text /\ context = 0 /\ LocalsInit
    /\ IF pc = "attributes"
       THEN /\ start = tag.first
            /\ end \in tag.first..(tag.past - 1)
            /\ \A p \in PassedEnds(tag, attr) : p <= end
       ELSE start = 0 /\ end = 0
    /\ pc = "range" => attr = 0

PlaceInv ==
    /\ tag # NoTag => tag \in StartTags /\ attr \in 0..Len(tag.attrs)
    /\ IF pc \in {"range", "attributes", "refused"} THEN RangeInv
       ELSE /\ SnippetInv
            /\ tag # NoTag => source = tag.text /\ start = tag.first /\ end = tag.past

LEMMA TagFacts ==
  ASSUME NEW t \in StartTags
  PROVE  /\ t.text # NoSource /\ Sized(t.text)
         /\ t.first \in Nat /\ t.past \in Nat /\ t.first < t.past /\ t.past <= Len(t.text)
         /\ t.text[t.past] = GreaterThan
         /\ t.nameStart # NoPosition => t.nameStart = t.first + 1
         /\ Len(t.attrs) \in Nat /\ Len(t.text) \in Nat
         /\ Len(t.text) + 2 <= SizeMax /\ SizeMax \in Nat /\ SizeMax >= 2
         /\ \A n \in 0..Len(t.attrs) : PassedEnds(t, n) \subseteq t.first..(t.past - 1)
         /\ \A k \in (t.first + 1)..(t.past - 1) :
               t.text[k] = GreaterThan => \E p \in PassedEnds(t, Len(t.attrs)) : k <= p
<1>1. /\ t.text # NoSource /\ Sized(t.text)
      /\ t.first \in Nat /\ t.past \in (t.first + 1)..Len(t.text)
      /\ t.text[t.past] = GreaterThan
      /\ t.nameStart \in {t.first + 1, NoPosition}
      /\ Len(t.attrs) \in Nat /\ DOMAIN t.attrs = 1..Len(t.attrs)
      /\ EndsIn(t) \subseteq t.first..(t.past - 1) \cup {NoPosition}
      /\ \A k \in (t.first + 1)..(t.past - 1) :
            t.text[k] = GreaterThan => \E p \in EndsIn(t) \ {NoPosition} : k <= p
  BY StartTagAssumption
<1>2. PassedEnds(t, Len(t.attrs)) = EndsIn(t) \ {NoPosition}
  BY <1>1 DEF PassedEnds, EndsIn
<1>3. ASSUME NEW n \in 0..Len(t.attrs) PROVE PassedEnds(t, n) \subseteq PassedEnds(t, Len(t.attrs))
  <2>1. \A k \in 1..n : k \in 1..Len(t.attrs)
    BY <1>1
  <2> QED
    BY <2>1 DEF PassedEnds
<1>4. PassedEnds(t, Len(t.attrs)) \subseteq t.first..(t.past - 1)
  BY <1>1, <1>2
<1>5. SizeMax \in Nat /\ SizeMax >= 2
  BY SnippetAssumption
<1>6. Len(t.text) \in Nat /\ Len(t.text) + 2 <= SizeMax
  BY <1>1 DEF Sized
<1>7. t.past \in Nat /\ t.first < t.past /\ t.past <= Len(t.text)
  BY <1>1, <1>6
<1>8. \A k \in (t.first + 1)..(t.past - 1) :
         t.text[k] = GreaterThan => \E p \in PassedEnds(t, Len(t.attrs)) : k <= p
  BY <1>1, <1>2
<1>9. \A n \in 0..Len(t.attrs) : PassedEnds(t, n) \subseteq t.first..(t.past - 1)
  BY <1>3, <1>4
<1>10. t.nameStart # NoPosition => t.nameStart = t.first + 1
  BY <1>1
<1> QED
  BY <1>1, <1>5, <1>6, <1>7, <1>8, <1>9, <1>10

LEMMA AtTag ==
  ASSUME RangeInv
  PROVE  Text = tag.text /\ Length = Len(tag.text)
BY TagFacts DEF RangeInv, Text, Length

\* An end that Lexbor gives is in the source.
LEMMA EndHasOffset ==
  ASSUME RangeInv, NEW n \in 0..Len(tag.attrs), NEW p \in PassedEnds(tag, n)
  PROVE  HasOffset(p)
<1>1. tag \in StartTags /\ Length = Len(tag.text)
  BY AtTag DEF RangeInv
<1>2. p \in tag.first..(tag.past - 1) /\ p # NoPosition
  BY <1>1, TagFacts DEF PassedEnds
<1>3. tag.first \in Nat /\ tag.past \in Nat /\ tag.past <= Len(tag.text) /\ Len(tag.text) \in Nat
  BY <1>1, TagFacts
<1>4. p <= Length
  BY <1>1, <1>2, <1>3
<1> QED
  BY <1>2, <1>4 DEF HasOffset

LEMMA PlaceInitHolds == PlaceInit => PlaceInv
<1> SUFFICES ASSUME PlaceInit PROVE PlaceInv
  OBVIOUS
<1>1. CASE Init /\ tag = NoTag
  <2>1. pc = "call" /\ SnippetInv
    BY <1>1, SnippetInit DEF Init
  <2> QED
    BY <1>1, <2>1 DEF PlaceInv
<1>2. CASE /\ tag \in StartTags
           /\ pc = "range" /\ source = tag.text
           /\ start = 0 /\ end = 0 /\ context = 0
           /\ LocalsInit
  <2>1. attr = 0 /\ 0 \in 0..Len(tag.attrs)
    BY <1>2, TagFacts DEF PlaceInit
  <2> QED
    BY <1>2, <2>1 DEF PlaceInv, RangeInv
<1> QED
  BY <1>1, <1>2 DEF PlaceInit

LEMMA NameSpanStep ==
  ASSUME PlaceInv, NameSpan
  PROVE  PlaceInv'
<1>1. pc = "range" /\ pc' = "attributes" /\ RangeInv
  BY DEF NameSpan, PlaceInv
<1>2. tag \in StartTags /\ source = tag.text /\ context = 0 /\ LocalsInit /\ attr = 0
  BY <1>1 DEF RangeInv
<1>3. HasOffset(tag.nameStart) /\ HasOffset(tag.nameEnd)
      /\ start' = tag.nameStart - 1 /\ end' = tag.nameEnd
  BY DEF NameSpan, TagBegins
<1>4. start' = tag.first
  <2>1. tag.nameStart = tag.first + 1 /\ tag.first \in Nat
    BY <1>2, <1>3, TagFacts DEF HasOffset
  <2> QED
    BY <1>3, <2>1
<1>5. PassedEnds(tag, 0) = {tag.nameEnd}
  <2>1. 1..0 = {}
    OBVIOUS
  <2>2. tag.nameEnd # NoPosition
    BY <1>3 DEF HasOffset
  <2> QED
    BY <2>1, <2>2 DEF PassedEnds
<1>6. 0 \in 0..Len(tag.attrs)
  BY <1>2, TagFacts
<1>7. end' \in tag.first..(tag.past - 1)
  <2>1. PassedEnds(tag, 0) \subseteq tag.first..(tag.past - 1)
    BY <1>2, <1>6, TagFacts
  <2> QED
    BY <1>3, <1>5, <2>1
<1>8. \A p \in PassedEnds(tag, 0) : p <= end'
  <2>1. tag.first \in Nat /\ tag.past \in Nat
    BY <1>2, TagFacts
  <2> QED
    BY <1>3, <1>5, <1>7, <2>1
<1>9. LocalsInit'
  BY <1>2 DEF NameSpan, LocalsInit, scan, bounds, FirstPlace
<1>10. tag' = tag /\ attr' = attr /\ source' = source /\ context' = context
  BY DEF NameSpan
<1>11. RangeInv'
  BY <1>1, <1>2, <1>4, <1>6, <1>7, <1>8, <1>9, <1>10 DEF RangeInv, PassedEnds
<1> QED
  BY <1>1, <1>2, <1>6, <1>10, <1>11 DEF PlaceInv

LEMMA RefuseStep ==
  ASSUME PlaceInv, Refuse
  PROVE  PlaceInv'
<1>1. pc = "range" /\ pc' = "refused" /\ RangeInv
  BY DEF Refuse, PlaceInv
<1>2. LocalsInit'
  BY <1>1 DEF RangeInv, Refuse, LocalsInit, scan, bounds, FirstPlace
<1>3. tag' = tag /\ attr' = attr /\ source' = source /\ context' = context /\ start' = start
      /\ end' = end
  BY DEF Refuse, arguments
<1> QED
  BY <1>1, <1>2, <1>3 DEF PlaceInv, RangeInv

LEMMA PassAttributeStep ==
  ASSUME PlaceInv, PassAttribute
  PROVE  PlaceInv'
<1> DEFINE a == tag.attrs[attr + 1]
           old == PassedEnds(tag, attr)
           new == PassedEnds(tag, attr + 1)
           found == {end} \cup {p \in EndsOf(a) : HasOffset(p)}
<1>1. pc = "attributes" /\ pc' = "attributes" /\ RangeInv
  BY DEF PassAttribute, PlaceInv
<1>2. /\ tag \in StartTags /\ source = tag.text /\ context = 0 /\ LocalsInit
      /\ attr \in 0..Len(tag.attrs) /\ attr < Len(tag.attrs) /\ attr' = attr + 1
      /\ start = tag.first /\ end \in tag.first..(tag.past - 1)
      /\ \A p \in old : p <= end
      /\ end' = Max(found)
  BY <1>1 DEF RangeInv, PassAttribute
<1>3. /\ tag.first \in Nat /\ tag.past \in Nat /\ tag.first < tag.past /\ Len(tag.attrs) \in Nat
      /\ \A n \in 0..Len(tag.attrs) : PassedEnds(tag, n) \subseteq tag.first..(tag.past - 1)
  BY <1>2, TagFacts
<1>4. attr + 1 \in 0..Len(tag.attrs) /\ attr + 1 \in 1..(attr + 1) /\ attr \in Nat
  BY <1>2, <1>3
<1>5. new = old \cup (EndsOf(a) \ {NoPosition})
  <2>1. 1..(attr + 1) = 1..attr \cup {attr + 1}
    BY <1>4
  <2> QED
    BY <2>1 DEF PassedEnds, EndsOf
<1>6. \A p \in new : HasOffset(p)
  BY <1>1, <1>4, EndHasOffset
<1>7. \A p \in EndsOf(a) : HasOffset(p) => p # NoPosition
  BY DEF HasOffset
<1> HIDE DEF a, old, new
<1>8. found = {end} \cup (EndsOf(a) \ {NoPosition})
  BY <1>5, <1>6, <1>7
<1>9. new \subseteq tag.first..(tag.past - 1)
  BY <1>3, <1>4 DEF new
<1>10. found \subseteq tag.first..(tag.past - 1) /\ found # {} /\ end \in found
  BY <1>2, <1>5, <1>8, <1>9
<1>11. found \subseteq 0..tag.past
  BY <1>3, <1>10
<1> HIDE DEF found
<1>12. Max(found) \in found /\ \A y \in found : y <= Max(found)
  BY <1>3, <1>10, <1>11, Greatest
<1>13. end' \in tag.first..(tag.past - 1) /\ end <= end'
  BY <1>2, <1>10, <1>12
<1>14. \A p \in new : p <= end'
  <2>1. SUFFICES ASSUME NEW p \in new PROVE p <= end'
    OBVIOUS
  <2>2. p \in tag.first..(tag.past - 1)
    BY <1>9
  <2>3. CASE p \in old
    BY <1>2, <1>3, <1>13, <2>2, <2>3
  <2>4. CASE p \in EndsOf(a) \ {NoPosition}
    BY <1>2, <1>8, <1>12, <2>4
  <2> QED
    BY <1>5, <2>3, <2>4
<1>15. LocalsInit'
  BY <1>2 DEF PassAttribute, LocalsInit, scan, bounds, FirstPlace
<1>16. tag' = tag /\ source' = source /\ context' = context /\ start' = start
  BY DEF PassAttribute
<1>17. RangeInv'
  BY <1>1, <1>2, <1>4, <1>13, <1>14, <1>15, <1>16 DEF RangeInv, PassedEnds, new
<1> QED
  BY <1>1, <1>2, <1>4, <1>16, <1>17 DEF PlaceInv

LEMMA FindEndStep ==
  ASSUME PlaceInv, FindEnd
  PROVE  PlaceInv'
<1>1. pc = "attributes" /\ RangeInv /\ attr = Len(tag.attrs)
  BY DEF FindEnd, PlaceInv
<1>2. /\ tag \in StartTags /\ source = tag.text /\ context = 0 /\ LocalsInit
      /\ attr \in 0..Len(tag.attrs)
      /\ start = tag.first /\ end \in tag.first..(tag.past - 1)
      /\ \A p \in PassedEnds(tag, attr) : p <= end
  BY <1>1 DEF RangeInv
<1>3. /\ Text = tag.text /\ Length = Len(tag.text)
  BY <1>1, AtTag
<1>4. /\ tag.first \in Nat /\ tag.past \in Nat /\ tag.first < tag.past
      /\ tag.past <= Length /\ Length \in Nat /\ Length + 2 <= SizeMax /\ SizeMax \in Nat
      /\ SizeMax >= 2 /\ Text[tag.past] = GreaterThan
      /\ Len(tag.attrs) \in Nat
      /\ PassedEnds(tag, attr) \subseteq tag.first..(tag.past - 1)
      /\ \A k \in (tag.first + 1)..(tag.past - 1) :
            Text[k] = GreaterThan => \E p \in PassedEnds(tag, attr) : k <= p
  BY <1>1, <1>2, <1>3, TagFacts
<1>5. end < Length /\ end \in Nat /\ end + 1 <= tag.past
  BY <1>2, <1>4
<1>6. tag' = tag /\ attr' = attr /\ source' = source /\ start' = start
  BY DEF FindEnd
<1>7. LocalsInit'
  BY <1>2 DEF FindEnd, LocalsInit, scan, bounds, FirstPlace
<1>8. CASE Text[end + 1] # GreaterThan
  <2>1. end' = end + 1 /\ pc' = pc /\ context' = context
    BY <1>5, <1>8 DEF FindEnd
  <2>2. end + 1 # tag.past
    BY <1>4, <1>8
  <2>3. end' \in tag.first..(tag.past - 1) /\ end <= end'
    BY <1>2, <1>4, <1>5, <2>1, <2>2
  <2>4. \A p \in PassedEnds(tag, attr) : p <= end'
    <3>1. SUFFICES ASSUME NEW p \in PassedEnds(tag, attr) PROVE p <= end'
      OBVIOUS
    <3>2. p \in tag.first..(tag.past - 1) /\ p <= end
      BY <1>2, <1>4
    <3> QED
      BY <1>4, <1>5, <2>1, <3>2
  <2>5. RangeInv'
    BY <1>1, <1>2, <1>6, <1>7, <2>1, <2>3, <2>4 DEF RangeInv, PassedEnds
  <2> QED
    BY <1>1, <1>2, <1>6, <2>1, <2>5 DEF PlaceInv
<1>9. CASE Text[end + 1] = GreaterThan
  <2>1. end' = end + 1 /\ pc' = "call" /\ context' = 2
    BY <1>5, <1>9 DEF FindEnd
  <2>2. end + 1 = tag.past
    <3>1. SUFFICES ASSUME end + 1 # tag.past PROVE FALSE
      OBVIOUS
    <3>2. end + 1 \in (tag.first + 1)..(tag.past - 1)
      BY <1>2, <1>4, <1>5, <3>1
    <3>3. PICK p \in PassedEnds(tag, attr) : end + 1 <= p
      BY <1>4, <1>9, <3>2
    <3>4. p \in tag.first..(tag.past - 1) /\ p <= end
      BY <1>2, <1>4
    <3> QED
      BY <1>4, <1>5, <3>3, <3>4
  <2>3. start' \in SizeT /\ end' \in SizeT /\ context' \in SizeT
    BY <1>2, <1>4, <1>6, <2>1, <2>2 DEF SizeT
  <2>4. Sized(source)
    BY <1>2, TagFacts
  <2>5. SnippetInv'
    <3>1. Called'
      BY <1>6, <1>7, <2>1, <2>3, <2>4 DEF Called, Sized, SizeT
    <3> QED
      BY <3>1, CallInvNext
  <2> QED
    BY <1>2, <1>6, <2>1, <2>2, <2>5 DEF PlaceInv
<1> QED
  BY <1>8, <1>9

\* A step of the snippet leaves the tag alone and the range where it is.
LEMMA SnippetStepOfPlace ==
  ASSUME PlaceInv, Step, UNCHANGED <<tag, attr>>
  PROVE  PlaceInv'
<1>1. pc \notin {"range", "attributes", "refused"} /\ pc' \notin {"range", "attributes", "refused"}
  BY DEF Step, Clamp, LocateStep, Located, CountLines, Bounds, NextLine, Return
<1>2. SnippetInv
  BY <1>1 DEF PlaceInv
<1>3. SnippetInv'
  BY <1>2, SnippetStep
<1>4. source' = source
  BY DEF Step, Clamp, LocateStep, Located, CountLines, Bounds, NextLine, Return, arguments
<1>5. ASSUME tag # NoTag PROVE start' = start /\ end' = end
  <2>1. tag \in StartTags /\ source = tag.text /\ start = tag.first /\ end = tag.past
    BY <1>1, <1>5 DEF PlaceInv
  <2>2. Length = Len(tag.text)
    BY <2>1, TagFacts DEF Text, Length
  <2>3. start \in Nat /\ end \in Nat /\ start < end /\ end <= Length /\ Length \in Nat
    BY <2>1, <2>2, TagFacts
  <2>4. CASE Clamp
    <3>1. start' = Smaller(start, Length) /\ end' = Larger(Smaller(end, Length), start')
      BY <2>4 DEF Clamp
    <3>2. start' = start
      BY <2>3, <3>1 DEF Smaller
    <3> QED
      BY <2>3, <3>1, <3>2 DEF Smaller, Larger
  <2>5. CASE ~Clamp
    BY <2>5 DEF Step, LocateStep, Located, CountLines, Bounds, NextLine, Return, arguments
  <2> QED
    BY <2>4, <2>5
<1> QED
  BY <1>1, <1>3, <1>4, <1>5 DEF PlaceInv

LEMMA PlaceUnchanged ==
  ASSUME PlaceInv, UNCHANGED placeVars
  PROVE  PlaceInv'
<1>1. tag' = tag /\ attr' = attr /\ UNCHANGED vars
  BY DEF placeVars
<1>2. pc' = pc /\ source' = source /\ start' = start /\ end' = end /\ context' = context
  BY <1>1 DEF vars, arguments
<1>3. CASE pc \in {"range", "attributes", "refused"}
  <2>1. RangeInv
    BY <1>3 DEF PlaceInv
  <2>2. LocalsInit'
    BY <1>1, <2>1 DEF RangeInv, LocalsInit, vars, scan, bounds, FirstPlace
  <2>3. RangeInv'
    BY <1>1, <1>2, <2>1, <2>2 DEF RangeInv, PassedEnds
  <2> QED
    BY <1>1, <1>2, <1>3, <2>3 DEF PlaceInv
<1>4. CASE pc \notin {"range", "attributes", "refused"}
  <2>1. SnippetInv'
    BY <1>1, <1>4, SnippetUnchanged DEF PlaceInv
  <2> QED
    BY <1>1, <1>2, <1>4, <2>1 DEF PlaceInv
<1> QED
  BY <1>3, <1>4

LEMMA PlaceAlways == PlaceSpec => []PlaceInv
<1>1. PlaceInv /\ [PlaceNext]_placeVars => PlaceInv'
  <2> SUFFICES ASSUME PlaceInv, [PlaceNext]_placeVars PROVE PlaceInv'
    OBVIOUS
  <2>1. CASE NameSpan
    BY <2>1, NameSpanStep
  <2>2. CASE Refuse
    BY <2>2, RefuseStep
  <2>3. CASE PassAttribute
    BY <2>3, PassAttributeStep
  <2>4. CASE FindEnd
    BY <2>4, FindEndStep
  <2>5. CASE Step /\ UNCHANGED <<tag, attr>>
    BY <2>5, SnippetStepOfPlace
  <2>6. CASE UNCHANGED placeVars
    BY <2>6, PlaceUnchanged
  <2> QED
    BY <2>1, <2>2, <2>3, <2>4, <2>5, <2>6 DEF PlaceNext, PlaceStep
<1> QED
  BY PlaceInitHolds, <1>1, PTL DEF PlaceSpec

-----------------------------------------------------------------------------
(* Theorems *)

\* The range lies in the source once it is clamped; no cursor leaves the source, no
\* line counter the lines and no sum wraps, whatever offsets and context are passed.
THEOREM SnippetTypeCorrect == Spec => []TypeOK
BY SnippetAlways, TypesHold, PTL

\* The same with the search for a start tag's range before it.
THEOREM PlaceTypeCorrect == PlaceSpec => []PlaceTypeOK
<1>1. PlaceInv => PlaceTypeOK
  <2> SUFFICES ASSUME PlaceInv PROVE PlaceTypeOK
    OBVIOUS
  <2>1. CASE pc \in {"range", "attributes", "refused"}
    <3>1. RangeInv
      BY <2>1 DEF PlaceInv
    <3>2. /\ tag.first \in Nat /\ tag.past \in Nat /\ tag.past <= Len(tag.text)
          /\ Len(tag.text) \in Nat /\ Len(tag.text) + 2 <= SizeMax /\ SizeMax \in Nat
          /\ tag.first < tag.past
      BY <3>1, TagFacts DEF RangeInv
    <3>3. start \in 0..SizeMax /\ end \in 0..SizeMax
      BY <3>1, <3>2 DEF RangeInv
    <3> QED
      BY <2>1, <3>3 DEF PlaceTypeOK, PlaceInv, SizeT
  <2>2. CASE pc \notin {"range", "attributes", "refused"}
    <3>1. TypeOK
      BY <2>2, TypesHold DEF PlaceInv
    <3> QED
      BY <3>1 DEF PlaceTypeOK, PlaceInv, TypeOK, SizeT
  <2> QED
    BY <2>1, <2>2
<1> QED
  BY PlaceAlways, <1>1, PTL

\* The range of an error is its start tag: html_start_tag_range stops at the ">" that
\* ends the tag, given that the others in it are in names and values that Lexbor reports.
THEOREM ErrorRangeIsTheTag == PlaceSpec => []RangeIsTheTag
<1>1. PlaceInv => RangeIsTheTag
  BY DEF PlaceInv, RangeIsTheTag
<1> QED
  BY PlaceAlways, <1>1, PTL

\* reflow_source_location finds the line and the column that an editor shows.
THEOREM LocationsAlwaysRight == PlaceSpec => []LocationsRight
<1>1. PlaceInv => LocationsRight
  BY LocationsHold DEF PlaceInv, LocationsRight
<1> QED
  BY PlaceAlways, <1>1, PTL

\* The snippet shows the lines around the range, each once, whole and in order, the
\* carets under the range's first line, and the bars under each other.
THEOREM SnippetAlwaysRight == PlaceSpec => []SnippetRight
<1>1. PlaceInv => SnippetRight
  <2>1. CASE pc \in {"range", "attributes", "refused"}
    <3>1. ASSUME PlaceInv PROVE rows = <<>>
      BY <2>1, <3>1 DEF PlaceInv, RangeInv, LocalsInit
    <3>2. PlaceInv => GutterAligned
      BY <3>1 DEF GutterAligned
    <3>3. pc # "done"
      BY <2>1
    <3> QED
      BY <3>2, <3>3 DEF SnippetRight, RowsRight, CaretRight
  <2>2. CASE pc \notin {"range", "attributes", "refused"}
    BY <2>2, SnippetHolds DEF PlaceInv
  <2> QED
    BY <2>1, <2>2
<1> QED
  BY PlaceAlways, <1>1, PTL
=============================================================================
