--------------------------- MODULE CompileProofs ---------------------------
(***************************************************************************)
(* Safety of a compile for every template and every failure: the tree is   *)
(* the one that the tokens describe, no text is lost, the lists and the    *)
(* pool of the representation are sound, parser and handlers agree.        *)
(***************************************************************************)
EXTENDS Compile, FiniteSetTheorems, SequenceTheorems, WellFoundedInduction, TLAPS

AllTags == Tags \cup {NoTag}

-----------------------------------------------------------------------------
(* The inductive invariant *)

\* The children of p, without the minima and maxima of ListSound.
ListOf(ns, p) ==
    LET C == Children(ns, p)
    IN  /\ C = {} => ns[p].head = NoNode /\ ns[p].tail = NoNode
        /\ C # {} =>
              /\ ns[p].head \in C /\ \A d \in C : ns[p].head <= d
              /\ ns[p].tail \in C /\ \A d \in C : d <= ns[p].tail
        /\ ns[p].count = Cardinality(C)
        /\ \A c \in C :
              IF c = ns[p].tail THEN ns[c].next = NoNode
              ELSE /\ ns[c].next \in C /\ c < ns[c].next
                   /\ \A d \in C : c < d => ns[c].next <= d

RootFirst(ns) ==
    /\ ns # <<>>
    /\ ns[1].type = "root" /\ ns[1].linked /\ ns[1].parent = NoNode
    /\ ns[1].start = 0 /\ ns[1].end = 0

\* A node is younger than its parent; only the last may not be linked yet.
Ordered(ns, c) ==
    /\ ns[c].type # "root"
    /\ ns[c].linked =>
          /\ ns[c].parent \in 1..(c - 1)
          /\ ns[ns[c].parent].linked
          /\ ns[ns[c].parent].type \in {"root", "element"}
    /\ ~ns[c].linked => c = Len(ns) /\ ns[c].parent = NoNode /\ ns[c].next = NoNode

TreeShape(ns) ==
    /\ ns \in Seq(Node(AllTags))
    /\ RootFirst(ns)
    /\ \A c \in 2..Len(ns) : Ordered(ns, c)
    /\ \A p \in 1..Len(ns) : ListOf(ns, p)

AllLinked(ns) == \A c \in 1..Len(ns) : ns[c].linked

\* The tokens that nodes stand for: apart, in order, and already read.
Placed(ns, ts) ==
    /\ \A c \in 2..Len(ns) : 1 <= ns[c].start /\ ns[c].start <= ns[c].end /\ ns[c].end <= Len(ts)
    /\ \A a, b \in 1..Len(ns) : a < b => ns[a].end < ns[b].start
    /\ \A c \in 2..Len(ns) : ns[c].type = "element" =>
          ns[c].tag \in Tags /\ ts[ns[c].start].tag = ns[c].tag

\* StillOpen of the tokens ts, and what one token does to it.
OpenStep(ts, n, before) ==
    LET token == ts[n]
        named == {i \in before : ts[i].tag = token.tag}
    IN  CASE token.kind = "open" /\ token.tag \notin VoidTags -> before \cup {n}
          [] token.kind = "close" /\ named # {} ->
               {i \in before : \E j \in named : i < j /\ \A k \in named : k <= j}
          [] OTHER -> before
OpenAfter(ts) ==
    LET f[n \in 0..MaxTokens] ==
          IF n = 0 \/ n > Len(ts) THEN {} ELSE OpenStep(ts, n, f[n - 1])
    IN  f
Innermost(S) == IF S = {} THEN 0 ELSE CHOOSE i \in S : \A j \in S : j <= i

\* A node's parent is the one whose start tag it is in.
Nested(ns, ts) ==
    \A c \in 2..Len(ns) : ns[c].linked =>
        ns[ns[c].parent].start = Innermost(OpenAfter(ts)[ns[c].start - 1])

\* BlocksOf of all nodes.
Total(ns) ==
    LET f[k \in 0..Len(ns)] ==
          IF k = 0 THEN SourceBlocks ELSE NodeBlocks(ns[k]) + f[k - 1]
    IN  f[Len(ns)]

RepInv(ns, ts, bl) ==
    TreeShape(ns) /\ Placed(ns, ts) /\ Nested(ns, ts) /\ bl = Total(ns)

\* P names the elements of the stack, from the outermost on; top is the last.
SpineOf(ns, stack, top, P) ==
    /\ P \in [1..Len(stack) -> 2..Len(ns)]
    /\ top = IF Len(stack) = 0 THEN 1 ELSE P[Len(stack)]
    /\ \A i \in 1..Len(stack) :
          /\ ns[P[i]].type = "element" /\ ns[P[i]].linked /\ ns[P[i]].tag = stack[i]
          /\ ns[P[i]].parent = IF i = 1 THEN 1 ELSE P[i - 1]
    /\ \A i, j \in 1..Len(stack) : i < j => P[i] < P[j]
StartsOf(ns, P, k) == {ns[P[i]].start : i \in 1..k}

\* The first k elements of the stack are the ones whose start tags are open.
StackIs(ns, stack, top, k, open) ==
    \E P \in [1..Len(stack) -> 2..Len(ns)] :
        SpineOf(ns, stack, top, P) /\ open = StartsOf(ns, P, k)

\* The stack with the entry that PushOpen is about to write, and the tokens that
\* the stack accounts for.
Stack == IF pc = "push" THEN Append(open_element, nodes[current_parent].tag) ELSE open_element
Counted == IF pc = "attrs" THEN Len(tokens) - 1 ELSE Len(tokens)

\* The start tag at hand is the last node, and not in the tree yet.
PendingIs(ns, ts, pending) ==
    /\ pending = Len(ns) /\ Len(ns) >= 2
    /\ ~ns[Len(ns)].linked
    /\ ns[Len(ns)].type = "element"
    /\ Len(ts) > 0
    /\ ns[Len(ns)].start = Len(ts)
    /\ ts[Len(ts)].kind = "open"

\* Parser and handlers agree.
RunInv ==
    /\ nodes # <<>>
    /\ StackIs(nodes, Stack, current_parent, Len(Stack) - closing, OpenAfter(tokens)[Counted])
    /\ IF pc = "attrs" THEN PendingIs(nodes, tokens, pending_element)
       ELSE pending_element = NoNode /\ AllLinked(nodes)
    /\ pc # "token" => pending_text = NoText
    /\ IF pc = "closing" THEN closing \in 1..Len(open_element) ELSE closing = 0

\* The pending text comes after all nodes, and nothing was opened since.
PendingText(ns, ts, text) ==
    text # NoText =>
        /\ 1 <= text[1] /\ text[1] <= text[2] /\ text[2] <= Len(ts)
        /\ \A c \in 1..Len(ns) : ns[c].end < text[1]
        /\ OpenAfter(ts)[text[1] - 1] = OpenAfter(ts)[Len(ts)]

\* Each token is where it belongs.
Covered(ns, i) == \E c \in 1..Len(ns) : Covers(ns[c].start, ns[c].end, i)
AllCovered(ns, ts, text) ==
    \A i \in 1..Len(ts) :
        ts[i].kind \in {"text", "comment", "open"}
            <=> Covered(ns, i) \/ Covers(text[1], text[2], i)
TextInv ==
    PendingText(nodes, tokens, pending_text) /\ AllCovered(nodes, tokens, pending_text)

CompileInv ==
    /\ TypeOK
    /\ Len(tokens) <= MaxTokens
    /\ IF nodes = <<>> THEN blocks \in {0, SourceBlocks} ELSE RepInv(nodes, tokens, blocks)
    /\ structured_failure <=> failure = "object"
    /\ pc = "call" =>
          /\ nodes = <<>> /\ tokens = <<>> /\ open_element = <<>>
          /\ pending_element = NoNode /\ pending_text = NoText /\ closing = 0
          /\ failure = "none"
    /\ pc \in {"token", "attrs", "push", "closing"} => failure = "none" /\ RunInv
    /\ failure = "none" => TextInv
    /\ pc = "return" /\ failure = "none" => pending_text = NoText /\ closing = 0
    /\ result = "ir" => failure = "none" /\ pc = "done" /\ pending_text = NoText /\ closing = 0
    /\ result # "error_value"

-----------------------------------------------------------------------------
(* Natural numbers.  Induction is by the least counterexample. *)

LEMMA LeastElement ==
  ASSUME NEW S \in SUBSET Nat, S # {}
  PROVE  \E x \in S : \A y \in S : x <= y
<1> DEFINE R == OpToRel(<, Nat)
<1>1. IsWellFoundedOn(R, Nat)
  BY NatLessThanWellFounded
<1>2. \A m, n \in Nat : m < n => <<m, n>> \in R
  BY DEF OpToRel
<1> HIDE DEF R
<1>3. PICK x \in S : \A y \in S : ~ (<<y, x>> \in R)
  BY <1>1, WFMin
<1>4. ASSUME NEW y \in S PROVE x <= y
  <2>1. x \in Nat /\ y \in Nat
    OBVIOUS
  <2>2. ~ (y < x)
    BY <1>2, <1>3, <2>1
  <2> QED
    BY <2>1, <2>2
<1> QED
  BY <1>4

LEMMA Induction ==
  ASSUME NEW S \in SUBSET Nat, NEW m \in Nat, m \in S,
         \A n \in S : n + 1 \in S
  PROVE  \A n \in Nat : n >= m => n \in S
<1> SUFFICES ASSUME NEW n \in Nat, n >= m, n \notin S
             PROVE  FALSE
  OBVIOUS
<1> DEFINE T == {k \in Nat : k >= m /\ k \notin S}
<1>1. PICK k \in T : \A j \in T : k <= j
  <2>1. T \in SUBSET Nat /\ n \in T
    OBVIOUS
  <2> HIDE DEF T
  <2> QED
    BY <2>1, LeastElement
<1>2. k - 1 \in Nat /\ k - 1 >= m
  BY <1>1
<1>3. k - 1 \notin S
  BY <1>1, <1>2
<1>4. k - 1 \in T
  BY <1>2, <1>3
<1> QED
  BY <1>1, <1>2, <1>4

-----------------------------------------------------------------------------
(* Start tags still open *)

\* The equation that OpenAfter solves, up to the first N tokens.
OpenSolved(ts, N, f) ==
    f = [n \in 0..N |-> IF n = 0 \/ n > Len(ts) THEN {} ELSE OpenStep(ts, n, f[n - 1])]

LEMMA OpenExists ==
  ASSUME NEW ts
  PROVE  \A N \in Nat : \E f : OpenSolved(ts, N, f)
<1> DEFINE S == {N \in Nat : \E f : OpenSolved(ts, N, f)}
<1>1. 0 \in S
  <2>1. OpenSolved(ts, 0, [n \in 0..0 |-> {}])
    BY DEF OpenSolved
  <2> QED
    BY <2>1
<1>2. ASSUME NEW N \in S PROVE N + 1 \in S
  <2>1. N \in Nat
    OBVIOUS
  <2>2. PICK f : OpenSolved(ts, N, f)
    OBVIOUS
  <2> DEFINE Step(n, before) == IF n = 0 \/ n > Len(ts) THEN {} ELSE OpenStep(ts, n, before)
             g == [n \in 0..(N + 1) |-> Step(n, f[n - 1])]
  <2>3. f = [n \in 0..N |-> Step(n, f[n - 1])]
    BY <2>2 DEF OpenSolved
  <2>3a. \A x : Step(0, x) = {}
    OBVIOUS
  <2> HIDE DEF Step
  <2>4. \A n \in 0..N : g[n] = f[n]
    BY <2>1, <2>3
  <2>5. \A n \in 0..(N + 1) : Step(n, f[n - 1]) = Step(n, g[n - 1])
    <3> SUFFICES ASSUME NEW n \in 0..(N + 1)
                 PROVE  Step(n, f[n - 1]) = Step(n, g[n - 1])
      OBVIOUS
    <3>1. CASE n = 0
      BY <3>1, <2>3a
    <3>2. CASE n # 0
      <4>1. n - 1 \in 0..N
        BY <3>2, <2>1
      <4>2. g[n - 1] = f[n - 1]
        BY <4>1, <2>4
      <4> HIDE DEF g
      <4> QED
        BY <4>2
    <3> QED
      BY <3>1, <3>2
  <2> DEFINE h == g
  <2>6. h = [n \in 0..(N + 1) |-> Step(n, h[n - 1])]
    BY <2>5
  <2> HIDE DEF h, g
  <2>7. OpenSolved(ts, N + 1, h)
    BY <2>6 DEF OpenSolved, Step
  <2> QED
    BY <2>1, <2>7
<1>3. S \in SUBSET Nat
  OBVIOUS
<1> HIDE DEF S
<1>4. \A N \in Nat : N \in S
  BY <1>1, <1>2, <1>3, Induction
<1> QED
  BY <1>4 DEF S

LEMMA OpenUnfold ==
  ASSUME NEW ts
  PROVE  OpenSolved(ts, MaxTokens, OpenAfter(ts))
<1>1. OpenAfter(ts) = CHOOSE f : OpenSolved(ts, MaxTokens, f)
  BY DEF OpenAfter, OpenSolved
<1>2. \E f : OpenSolved(ts, MaxTokens, f)
  BY OpenExists, CompileAssumption
<1> QED
  BY <1>1, <1>2

LEMMA OpenAt ==
  ASSUME NEW ts \in Seq(Tokens), Len(ts) <= MaxTokens
  PROVE  /\ OpenAfter(ts)[0] = {}
         /\ \A n \in 1..Len(ts) :
              OpenAfter(ts)[n] = OpenStep(ts, n, OpenAfter(ts)[n - 1])
<1> DEFINE f == OpenAfter(ts)
           Step(n, before) == IF n = 0 \/ n > Len(ts) THEN {} ELSE OpenStep(ts, n, before)
<1>1. f = [n \in 0..MaxTokens |-> Step(n, f[n - 1])]
  BY OpenUnfold DEF OpenSolved
<1>2. Len(ts) \in Nat /\ MaxTokens \in Nat
  BY CompileAssumption
<1>3. (\A x : Step(0, x) = {}) /\ \A n \in 1..Len(ts) : \A x : Step(n, x) = OpenStep(ts, n, x)
  BY <1>2
<1> HIDE DEF f, Step
<1>4. f[0] = {}
  BY <1>1, <1>2, <1>3
<1>5. \A n \in 1..Len(ts) : f[n] = OpenStep(ts, n, f[n - 1])
  BY <1>1, <1>2, <1>3
<1> QED
  BY <1>4, <1>5 DEF f

\* A token does not change what was open before it.
LEMMA OpenAppend ==
  ASSUME NEW ts \in Seq(Tokens), NEW t \in Tokens, Len(ts) + 1 <= MaxTokens
  PROVE  LET us == Append(ts, t)
         IN  /\ \A n \in 0..Len(ts) : OpenAfter(us)[n] = OpenAfter(ts)[n]
             /\ OpenAfter(us)[Len(ts) + 1] = OpenStep(us, Len(ts) + 1, OpenAfter(ts)[Len(ts)])
<1> DEFINE us == Append(ts, t)
           L == Len(ts)
           f == OpenAfter(ts)
           g == OpenAfter(us)
<1>1. us \in Seq(Tokens) /\ Len(us) = L + 1 /\ L \in Nat
      /\ \A n \in 1..L : us[n] = ts[n]
  OBVIOUS
<1>2. /\ f[0] = {} /\ \A n \in 1..L : f[n] = OpenStep(ts, n, f[n - 1])
  BY <1>1, OpenAt, CompileAssumption
<1>3. /\ g[0] = {} /\ \A n \in 1..(L + 1) : g[n] = OpenStep(us, n, g[n - 1])
  <2> HIDE DEF us
  <2> QED
    BY <1>1, OpenAt
<1>4. ASSUME NEW n \in 1..L, NEW x, x \subseteq 1..(n - 1)
      PROVE  OpenStep(us, n, x) = OpenStep(ts, n, x)
  <2>1. us[n] = ts[n] /\ \A i \in x : us[i] = ts[i]
    BY <1>1, <1>4
  <2> HIDE DEF us
  <2> QED
    BY <2>1 DEF OpenStep
<1> HIDE DEF us, L, f, g
<1>5. \A n \in Nat : n <= L => f[n] \subseteq 1..n
  <2> DEFINE U == {n \in Nat : n <= L => f[n] \subseteq 1..n}
  <2>1. 0 \in U
    BY <1>2
  <2>2. ASSUME NEW n \in U PROVE n + 1 \in U
    <3> SUFFICES ASSUME n + 1 <= L PROVE f[n + 1] \subseteq 1..(n + 1)
      OBVIOUS
    <3>1. f[n] \subseteq 1..n /\ n \in Nat
      BY <1>1
    <3>2. f[n + 1] = OpenStep(ts, n + 1, f[n])
      BY <1>1, <1>2, <3>1
    <3>3. OpenStep(ts, n + 1, f[n]) \subseteq f[n] \cup {n + 1}
      BY DEF OpenStep
    <3> QED
      BY <3>1, <3>2, <3>3
  <2>3. U \in SUBSET Nat
    OBVIOUS
  <2> HIDE DEF U
  <2>4. \A n \in Nat : n \in U
    BY <2>1, <2>2, <2>3, Induction
  <2> QED
    BY <2>4 DEF U
<1> DEFINE V == {n \in Nat : n <= L => g[n] = f[n]}
<1>6. 0 \in V
  BY <1>2, <1>3
<1>7. ASSUME NEW n \in V PROVE n + 1 \in V
  <2> SUFFICES ASSUME n + 1 <= L PROVE g[n + 1] = f[n + 1]
    OBVIOUS
  <2>1. n \in Nat /\ g[n] = f[n] /\ f[n] \subseteq 1..n
    BY <1>1, <1>5
  <2>2. g[n + 1] = OpenStep(us, n + 1, g[n]) /\ f[n + 1] = OpenStep(ts, n + 1, f[n])
    BY <1>1, <1>2, <1>3, <2>1
  <2>3. OpenStep(us, n + 1, f[n]) = OpenStep(ts, n + 1, f[n])
    BY <1>1, <1>4, <2>1
  <2> QED
    BY <2>1, <2>2, <2>3
<1>8. V \in SUBSET Nat
  OBVIOUS
<1> HIDE DEF V
<1>9. \A n \in Nat : n \in V
  BY <1>6, <1>7, <1>8, Induction
<1>10. \A n \in 0..L : g[n] = f[n]
  BY <1>1, <1>9 DEF V
<1>11. g[L + 1] = OpenStep(us, L + 1, f[L])
  BY <1>1, <1>3, <1>10
<1> QED
  BY <1>10, <1>11 DEF us, L, f, g

-----------------------------------------------------------------------------
(* Blocks of the representation *)

\* The equation of Total, for the first N nodes.
TotalSolved(ns, N, f) ==
    f = [k \in 0..N |-> IF k = 0 THEN SourceBlocks ELSE NodeBlocks(ns[k]) + f[k - 1]]

LEMMA TotalExists ==
  ASSUME NEW ns
  PROVE  \A N \in Nat : \E f : TotalSolved(ns, N, f)
<1> DEFINE S == {N \in Nat : \E f : TotalSolved(ns, N, f)}
<1>1. 0 \in S
  <2>1. TotalSolved(ns, 0, [k \in 0..0 |-> SourceBlocks])
    BY DEF TotalSolved
  <2> QED
    BY <2>1
<1>2. ASSUME NEW N \in S PROVE N + 1 \in S
  <2>1. N \in Nat
    OBVIOUS
  <2>2. PICK f : TotalSolved(ns, N, f)
    OBVIOUS
  <2> DEFINE Step(k, sum) == IF k = 0 THEN SourceBlocks ELSE NodeBlocks(ns[k]) + sum
             g == [k \in 0..(N + 1) |-> Step(k, f[k - 1])]
  <2>3. f = [k \in 0..N |-> Step(k, f[k - 1])]
    BY <2>2 DEF TotalSolved
  <2>4. \A x : Step(0, x) = SourceBlocks
    OBVIOUS
  <2> HIDE DEF Step
  <2>5. \A k \in 0..N : g[k] = f[k]
    BY <2>1, <2>3
  <2>6. ASSUME NEW k \in 0..(N + 1) PROVE Step(k, f[k - 1]) = Step(k, g[k - 1])
    <3>1. CASE k = 0
      BY <3>1, <2>4
    <3>2. CASE k # 0
      <4>1. k - 1 \in 0..N
        BY <3>2, <2>1
      <4>2. g[k - 1] = f[k - 1]
        BY <4>1, <2>5
      <4> HIDE DEF g
      <4> QED
        BY <4>2
    <3> QED
      BY <3>1, <3>2
  <2> DEFINE h == g
  <2>7. h = [k \in 0..(N + 1) |-> Step(k, h[k - 1])]
    BY <2>6
  <2> HIDE DEF h, g
  <2>8. TotalSolved(ns, N + 1, h)
    BY <2>7 DEF TotalSolved, Step
  <2> QED
    BY <2>1, <2>8
<1>3. S \in SUBSET Nat
  OBVIOUS
<1> HIDE DEF S
<1>4. \A N \in Nat : N \in S
  BY <1>1, <1>2, <1>3, Induction
<1> QED
  BY <1>4 DEF S

\* f adds up the blocks of ns.
Sums(ns, f) ==
    /\ f[0] = SourceBlocks
    /\ \A k \in 1..Len(ns) : f[k] \in Nat /\ f[k] = NodeBlocks(ns[k]) + f[k - 1]

LEMMA NodeBlocksNat ==
  ASSUME NEW n \in Node(AllTags)
  PROVE  NodeBlocks(n) \in Nat
  BY DEF Node, NodeBlocks

LEMMA TotalSums ==
  ASSUME NEW ns \in Seq(Node(AllTags))
  PROVE  \E f : Sums(ns, f) /\ Total(ns) = f[Len(ns)]
<1> DEFINE f == CHOOSE f : TotalSolved(ns, Len(ns), f)
<1>1. Total(ns) = f[Len(ns)]
  BY DEF Total, TotalSolved
<1>2. \E g : TotalSolved(ns, Len(ns), g)
  <2>1. Len(ns) \in Nat
    OBVIOUS
  <2> QED
    BY <2>1, TotalExists
<1>3. TotalSolved(ns, Len(ns), f)
  BY <1>2
<1> HIDE DEF f
<1>4. f[0] = SourceBlocks /\ \A k \in 1..Len(ns) : f[k] = NodeBlocks(ns[k]) + f[k - 1]
  BY <1>3 DEF TotalSolved
<1> DEFINE S == {k \in Nat : k <= Len(ns) => f[k] \in Nat}
<1>5. 0 \in S
  BY <1>4 DEF SourceBlocks
<1>6. ASSUME NEW k \in S PROVE k + 1 \in S
  <2> SUFFICES ASSUME k + 1 <= Len(ns) PROVE f[k + 1] \in Nat
    OBVIOUS
  <2>1. f[k] \in Nat /\ ns[k + 1] \in Node(AllTags) /\ f[k + 1] = NodeBlocks(ns[k + 1]) + f[k]
    BY <1>4
  <2> QED
    BY <2>1, NodeBlocksNat
<1>7. S \in SUBSET Nat
  OBVIOUS
<1> HIDE DEF S
<1>8. \A k \in Nat : k \in S
  BY <1>5, <1>6, <1>7, Induction
<1>9. Sums(ns, f)
  BY <1>4, <1>8 DEF S, Sums
<1> QED
  BY <1>1, <1>9

LEMMA SumsAgree ==
  ASSUME NEW ns \in Seq(Node(AllTags)), NEW ms \in Seq(Node(AllTags)),
         NEW f, NEW g, Sums(ns, f), Sums(ms, g),
         NEW N \in Nat, N <= Len(ns), N <= Len(ms),
         \A k \in 1..N : NodeBlocks(ms[k]) = NodeBlocks(ns[k])
  PROVE  f[N] = g[N] /\ f[N] \in Nat
<1> DEFINE S == {k \in Nat : k <= N => f[k] = g[k] /\ f[k] \in Nat}
<1>1. 0 \in S
  BY DEF Sums, SourceBlocks
<1>2. ASSUME NEW k \in S PROVE k + 1 \in S
  BY DEF Sums
<1>3. S \in SUBSET Nat
  OBVIOUS
<1> HIDE DEF S
<1>4. N \in S
  BY <1>1, <1>2, <1>3, Induction
<1> QED
  BY <1>4 DEF S

LEMMA TotalAppend ==
  ASSUME NEW ns \in Seq(Node(AllTags)), NEW n \in Node(AllTags)
  PROVE  Total(Append(ns, n)) = Total(ns) + NodeBlocks(n) /\ Total(ns) \in Nat
<1> DEFINE ms == Append(ns, n)
<1>1. ms \in Seq(Node(AllTags)) /\ Len(ms) = Len(ns) + 1 /\ ms[Len(ns) + 1] = n
      /\ Len(ns) \in Nat /\ \A k \in 1..Len(ns) : ms[k] = ns[k]
  OBVIOUS
<1> HIDE DEF ms
<1>2. PICK f : Sums(ns, f) /\ Total(ns) = f[Len(ns)]
  BY TotalSums
<1>3. PICK g : Sums(ms, g) /\ Total(ms) = g[Len(ms)]
  BY <1>1, TotalSums
<1>4. f[Len(ns)] = g[Len(ns)] /\ f[Len(ns)] \in Nat
  <2>1. Len(ns) \in Nat /\ Len(ns) <= Len(ns) /\ Len(ns) <= Len(ms)
    BY <1>1
  <2>2. \A k \in 1..Len(ns) : NodeBlocks(ms[k]) = NodeBlocks(ns[k])
    BY <1>1
  <2> QED
    BY <1>1, <1>2, <1>3, <2>1, <2>2, SumsAgree
<1>5. g[Len(ns) + 1] = NodeBlocks(n) + g[Len(ns)]
  BY <1>1, <1>3 DEF Sums
<1>6. NodeBlocks(n) \in Nat
  BY NodeBlocksNat
<1> QED
  BY <1>1, <1>2, <1>3, <1>4, <1>5, <1>6 DEF ms

\* Only the last node may have changed.
LEMMA TotalLast ==
  ASSUME NEW ns \in Seq(Node(AllTags)), NEW ms \in Seq(Node(AllTags)),
         Len(ms) = Len(ns), Len(ns) >= 1,
         \A k \in 1..(Len(ns) - 1) : NodeBlocks(ms[k]) = NodeBlocks(ns[k])
  PROVE  \E x \in Nat : /\ Total(ns) = NodeBlocks(ns[Len(ns)]) + x
                        /\ Total(ms) = NodeBlocks(ms[Len(ns)]) + x
<1>1. PICK f : Sums(ns, f) /\ Total(ns) = f[Len(ns)]
  BY TotalSums
<1>2. PICK g : Sums(ms, g) /\ Total(ms) = g[Len(ms)]
  BY TotalSums
<1>3. Len(ns) - 1 \in Nat /\ Len(ns) - 1 <= Len(ns) /\ Len(ns) - 1 <= Len(ms)
  OBVIOUS
<1>4. f[Len(ns) - 1] = g[Len(ns) - 1] /\ f[Len(ns) - 1] \in Nat
  BY <1>1, <1>2, <1>3, SumsAgree
<1>5. f[Len(ns)] = NodeBlocks(ns[Len(ns)]) + f[Len(ns) - 1]
      /\ g[Len(ns)] = NodeBlocks(ms[Len(ns)]) + g[Len(ns) - 1]
  BY <1>1, <1>2, <1>3 DEF Sums
<1> QED
  BY <1>1, <1>2, <1>4, <1>5

-----------------------------------------------------------------------------
(* Nodes and lists *)

\* What ir_append_child leaves as it was, node by node, and what it changes.
Same(m, n) ==
    /\ m.type = n.type /\ m.tag = n.tag /\ m.start = n.start /\ m.end = n.end
    /\ m.attrs = n.attrs /\ m.directives = n.directives

Linked(ns, ms, parent, child) ==
    LET tail == ns[parent].tail
    IN  /\ ms \in Seq(Node(AllTags)) /\ Len(ms) = Len(ns)
        /\ \A c \in 1..Len(ns) :
              /\ Same(ms[c], ns[c])
              /\ c # child => ms[c].parent = ns[c].parent /\ ms[c].linked = ns[c].linked
              /\ c # tail => ms[c].next = ns[c].next
              /\ c # parent => /\ ms[c].head = ns[c].head /\ ms[c].tail = ns[c].tail
                               /\ ms[c].count = ns[c].count
        /\ ms[child].parent = parent /\ ms[child].linked
        /\ tail # NoNode => ms[tail].next = child
        /\ ms[parent].tail = child /\ ms[parent].count = ns[parent].count + 1
        /\ ms[parent].head = IF tail = NoNode THEN child ELSE ns[parent].head

LEMMA Replaced ==
  ASSUME NEW D, NEW s \in Seq(D), NEW i \in 1..Len(s), NEW x \in D
  PROVE  /\ [s EXCEPT ![i] = x] \in Seq(D)
         /\ Len([s EXCEPT ![i] = x]) = Len(s)
         /\ \A c \in 1..Len(s) : [s EXCEPT ![i] = x][c] = IF c = i THEN x ELSE s[c]
  OBVIOUS

\* A node stays one when a list field changes.
LEMMA NodeUpdated ==
  ASSUME NEW n \in Node(AllTags), NEW k \in Nat
  PROVE  /\ [n EXCEPT !.head = k] \in Node(AllTags)
         /\ [n EXCEPT !.next = k] \in Node(AllTags)
         /\ [n EXCEPT !.tail = k] \in Node(AllTags)
         /\ [n EXCEPT !.parent = k] \in Node(AllTags)
         /\ [n EXCEPT !.linked = TRUE] \in Node(AllTags)
         /\ [n EXCEPT !.count = k] \in Node(AllTags)
         /\ [n EXCEPT !.attrs = @ + 1] \in Node(AllTags)
         /\ [n EXCEPT !.directives = TRUE] \in Node(AllTags)
<1>1. [n EXCEPT !.head = k] \in Node(AllTags)
  BY DEF Node
<1>2. [n EXCEPT !.next = k] \in Node(AllTags)
  BY DEF Node
<1>3. [n EXCEPT !.tail = k] \in Node(AllTags)
  BY DEF Node
<1>4. [n EXCEPT !.parent = k] \in Node(AllTags)
  BY DEF Node
<1>5. [n EXCEPT !.linked = TRUE] \in Node(AllTags)
  BY DEF Node
<1>6. [n EXCEPT !.count = k] \in Node(AllTags)
  BY DEF Node
<1>7. [n EXCEPT !.attrs = @ + 1] \in Node(AllTags)
  <2>1. n.attrs + 1 \in Nat
    BY DEF Node
  <2> QED
    BY <2>1 DEF Node
<1>8. [n EXCEPT !.directives = TRUE] \in Node(AllTags)
  BY DEF Node
<1> QED
  BY <1>1, <1>2, <1>3, <1>4, <1>5, <1>6, <1>7, <1>8

LEMMA LinkFrame ==
  ASSUME NEW ns \in Seq(Node(AllTags)), NEW parent \in 1..Len(ns), NEW child \in 1..Len(ns),
         parent # child, ns[parent].tail \in 0..Len(ns),
         ns[parent].tail # child, ns[parent].tail # parent
  PROVE  Linked(ns, AppendChild(ns, parent, child), parent, child)
<1> DEFINE N == Node(AllTags)
           L == Len(ns)
           tail == ns[parent].tail
           s0 == IF tail = NoNode
                 THEN [ns EXCEPT ![parent] = [ns[parent] EXCEPT !.head = child]]
                 ELSE [ns EXCEPT ![tail] = [ns[tail] EXCEPT !.next = child]]
           more == s0[parent].count + 1
           s1 == [s0 EXCEPT ![child] = [s0[child] EXCEPT !.parent = parent]]
           s2 == [s1 EXCEPT ![child] = [s1[child] EXCEPT !.linked = TRUE]]
           s3 == [s2 EXCEPT ![parent] = [s2[parent] EXCEPT !.tail = child]]
           s4 == [s3 EXCEPT ![parent] = [s3[parent] EXCEPT !.count = more]]
<1>1. AppendChild(ns, parent, child) = s4
  BY DEF AppendChild
<1>2. L \in Nat /\ parent \in 1..L /\ child \in 1..L /\ parent \in Nat /\ child \in Nat
      /\ (tail # NoNode => tail \in 1..L)
      /\ ns \in Seq(N) /\ \A c \in 1..L : ns[c] \in N
  BY DEF NoNode
<1> HIDE DEF N, L, tail
<1>3. /\ s0 \in Seq(N) /\ Len(s0) = L
      /\ \A c \in 1..L :
            s0[c] = IF tail = NoNode /\ c = parent THEN [ns[c] EXCEPT !.head = child]
                    ELSE IF tail # NoNode /\ c = tail THEN [ns[c] EXCEPT !.next = child]
                    ELSE ns[c]
  <2>1. CASE tail = NoNode
    <3>1. [ns[parent] EXCEPT !.head = child] \in N
      BY <1>2, NodeUpdated DEF N
    <3>2. s0 = [ns EXCEPT ![parent] = [ns[parent] EXCEPT !.head = child]]
      BY <2>1
    <3> HIDE DEF s0
    <3>3. /\ s0 \in Seq(N) /\ Len(s0) = Len(ns)
          /\ \A c \in 1..Len(ns) :
                s0[c] = IF c = parent THEN [ns[parent] EXCEPT !.head = child] ELSE ns[c]
      BY <3>1, <3>2, <1>2, Replaced
    <3> QED
      BY <3>3, <2>1 DEF L
  <2>2. CASE tail # NoNode
    <3>1. [ns[tail] EXCEPT !.next = child] \in N /\ tail \in 1..Len(ns)
      BY <2>2, <1>2, NodeUpdated DEF N, L
    <3>2. s0 = [ns EXCEPT ![tail] = [ns[tail] EXCEPT !.next = child]]
      BY <2>2
    <3> HIDE DEF s0
    <3>3. /\ s0 \in Seq(N) /\ Len(s0) = Len(ns)
          /\ \A c \in 1..Len(ns) :
                s0[c] = IF c = tail THEN [ns[tail] EXCEPT !.next = child] ELSE ns[c]
      BY <3>1, <3>2, <1>2, Replaced
    <3> QED
      BY <3>3, <2>2 DEF L
  <2> QED
    BY <2>1, <2>2
<1>3a. more \in Nat /\ more = ns[parent].count + 1
  <2>1. s0[parent] = IF tail = NoNode THEN [ns[parent] EXCEPT !.head = child] ELSE ns[parent]
    BY <1>2, <1>3 DEF tail
  <2>2. ns[parent] \in N
    BY <1>2
  <2> HIDE DEF s0, more
  <2>3. s0[parent].count = ns[parent].count /\ ns[parent].count \in Nat
    BY <2>1, <2>2 DEF N, Node
  <2> QED
    BY <2>3 DEF more
<1> HIDE DEF s0, more
<1>4. /\ s1 \in Seq(N) /\ Len(s1) = L
      /\ \A c \in 1..L : s1[c] = IF c = child THEN [s0[child] EXCEPT !.parent = parent] ELSE s0[c]
  <2>1. s0[child] \in N
    BY <1>2, <1>3
  <2>2. [s0[child] EXCEPT !.parent = parent] \in N
    BY <1>2, <2>1, NodeUpdated DEF N
  <2> QED
    BY <1>2, <1>3, <2>2, Replaced
<1> HIDE DEF s1
<1>5. /\ s2 \in Seq(N) /\ Len(s2) = L
      /\ \A c \in 1..L : s2[c] = IF c = child THEN [s1[child] EXCEPT !.linked = TRUE] ELSE s1[c]
  <2>1. s1[child] \in N
    BY <1>2, <1>4
  <2>2. [s1[child] EXCEPT !.linked = TRUE] \in N
    BY <1>2, <2>1, NodeUpdated DEF N
  <2> QED
    BY <1>2, <1>4, <2>2, Replaced
<1> HIDE DEF s2
<1>6. /\ s3 \in Seq(N) /\ Len(s3) = L
      /\ \A c \in 1..L : s3[c] = IF c = parent THEN [s2[parent] EXCEPT !.tail = child] ELSE s2[c]
  <2>1. s2[parent] \in N
    BY <1>2, <1>5
  <2>2. [s2[parent] EXCEPT !.tail = child] \in N
    BY <1>2, <2>1, NodeUpdated DEF N
  <2> QED
    BY <1>2, <1>5, <2>2, Replaced
<1> HIDE DEF s3
<1>7. /\ s4 \in Seq(N) /\ Len(s4) = L
      /\ \A c \in 1..L :
            s4[c] = IF c = parent THEN [s3[parent] EXCEPT !.count = more] ELSE s3[c]
  <2>1. s3[parent] \in N
    BY <1>2, <1>6
  <2>2. [s3[parent] EXCEPT !.count = more] \in N
    BY <1>3a, <2>1, NodeUpdated DEF N
  <2> QED
    BY <1>2, <1>6, <2>2, Replaced
<1> HIDE DEF s4
<1>8. tail # child /\ tail # parent /\ parent # child
  BY DEF tail
<1>9. s4[child] = [[ns[child] EXCEPT !.parent = parent] EXCEPT !.linked = TRUE]
  <2>1. s4[child] = s2[child] /\ s2[child] = [s1[child] EXCEPT !.linked = TRUE]
    BY <1>2, <1>5, <1>6, <1>7, <1>8
  <2>2. s1[child] = [s0[child] EXCEPT !.parent = parent] /\ s0[child] = ns[child]
    BY <1>2, <1>3, <1>4, <1>8
  <2> QED
    BY <2>1, <2>2
<1>10. s4[parent] = [[s0[parent] EXCEPT !.tail = child] EXCEPT !.count = more]
  <2>1. s4[parent] = [s3[parent] EXCEPT !.count = more]
        /\ s3[parent] = [s2[parent] EXCEPT !.tail = child]
    BY <1>2, <1>6, <1>7
  <2>2. s2[parent] = s0[parent]
    BY <1>2, <1>4, <1>5, <1>8
  <2> QED
    BY <2>1, <2>2
<1>11. s0[parent] = IF tail = NoNode THEN [ns[parent] EXCEPT !.head = child] ELSE ns[parent]
  BY <1>2, <1>3, <1>8
<1>12. \A c \in 1..L : c # child /\ c # parent => s4[c] = s0[c]
  BY <1>4, <1>5, <1>6, <1>7
<1>13. /\ Same(s4[child], ns[child]) /\ s4[child].parent = parent /\ s4[child].linked
       /\ s4[child].next = ns[child].next /\ s4[child].head = ns[child].head
       /\ s4[child].tail = ns[child].tail /\ s4[child].count = ns[child].count
  <2>1. ns[child] \in N
    BY <1>2
  <2> QED
    BY <1>9, <2>1 DEF N, Node, Same
<1>14. /\ Same(s4[parent], ns[parent]) /\ s4[parent].parent = ns[parent].parent
       /\ s4[parent].linked = ns[parent].linked /\ s4[parent].next = ns[parent].next
       /\ s4[parent].tail = child /\ s4[parent].count = ns[parent].count + 1
       /\ s4[parent].head = IF tail = NoNode THEN child ELSE ns[parent].head
  <2>1. ns[parent] \in N
    BY <1>2
  <2> QED
    BY <1>3a, <1>10, <1>11, <2>1 DEF N, Node, Same
<1>15. ASSUME NEW c \in 1..L, c # child, c # parent
       PROVE  /\ Same(s4[c], ns[c]) /\ s4[c].parent = ns[c].parent /\ s4[c].linked = ns[c].linked
              /\ s4[c].head = ns[c].head /\ s4[c].tail = ns[c].tail /\ s4[c].count = ns[c].count
              /\ s4[c].next = IF tail # NoNode /\ c = tail THEN child ELSE ns[c].next
  <2>1. ns[c] \in N
    BY <1>2
  <2>2. s4[c] = IF tail # NoNode /\ c = tail THEN [ns[c] EXCEPT !.next = child] ELSE ns[c]
    BY <1>3, <1>12, <1>15
  <2> QED
    BY <2>1, <2>2 DEF N, Node, Same
<1>16. tail # NoNode => s4[tail].next = child
  BY <1>2, <1>8, <1>15
<1> QED
  BY <1>1, <1>2, <1>7, <1>8, <1>13, <1>14, <1>15, <1>16 DEF Linked, N, L, tail

LEMMA ChildrenFinite ==
  ASSUME NEW ns \in Seq(Node(AllTags)), NEW p
  PROVE  /\ Children(ns, p) \subseteq 1..Len(ns)
         /\ IsFiniteSet(Children(ns, p)) /\ Cardinality(Children(ns, p)) \in Nat
<1>1. Children(ns, p) \subseteq 1..Len(ns) /\ Len(ns) \in Int
  BY DEF Children
<1>2. IsFiniteSet(1..Len(ns))
  BY <1>1, FS_Interval
<1>3. IsFiniteSet(Children(ns, p))
  BY <1>1, <1>2, FS_Subset
<1> QED
  BY <1>1, <1>3, FS_CardinalityType

\* The invariants of the list give the list that its reader expects.
LEMMA ListIsSound ==
  ASSUME NEW ns, TreeShape(ns), NEW p \in 1..Len(ns)
  PROVE  ListSound(ns, p)
<1> DEFINE C == Children(ns, p)
           First(S) == IF S = {} THEN NoNode ELSE CHOOSE c \in S : \A d \in S : c <= d
           Last(S)  == IF S = {} THEN NoNode ELSE CHOOSE c \in S : \A d \in S : d <= c
<1>1. C \in SUBSET Nat
  BY ChildrenFinite DEF TreeShape
<1>2. ListOf(ns, p)
  BY DEF TreeShape
<1>3. ASSUME NEW S \in SUBSET Nat, NEW x \in S, \A d \in S : x <= d
      PROVE  First(S) = x
  <2>1. \A c \in S : (\A d \in S : c <= d) => c = x
    BY <1>3
  <2> QED
    BY <2>1, <1>3
<1>4. ASSUME NEW S \in SUBSET Nat, NEW x \in S, \A d \in S : d <= x
      PROVE  Last(S) = x
  <2>1. \A c \in S : (\A d \in S : d <= c) => c = x
    BY <1>4
  <2> QED
    BY <2>1, <1>4
<1>5. First({}) = NoNode /\ Last({}) = NoNode
  OBVIOUS
<1> HIDE DEF First, Last
<1>6. /\ C = {} => ns[p].head = NoNode /\ ns[p].tail = NoNode
      /\ C # {} => /\ ns[p].head \in C /\ \A d \in C : ns[p].head <= d
                   /\ ns[p].tail \in C /\ \A d \in C : d <= ns[p].tail
      /\ ns[p].count = Cardinality(C)
      /\ \A c \in C :
            IF c = ns[p].tail THEN ns[c].next = NoNode
            ELSE /\ ns[c].next \in C /\ c < ns[c].next
                 /\ \A d \in C : c < d => ns[c].next <= d
  BY <1>2 DEF ListOf
<1> HIDE DEF C
<1>7. ns[p].head = First(C) /\ ns[p].tail = Last(C)
  <2>1. CASE C = {}
    BY <2>1, <1>5, <1>6
  <2>2. CASE C # {}
    BY <2>2, <1>1, <1>3, <1>4, <1>6
  <2> QED
    BY <2>1, <2>2
<1>8. ASSUME NEW c \in C PROVE ns[c].next = First({d \in C : c < d})
  <2>1. CASE c = ns[p].tail
    <3>1. {d \in C : c < d} = {}
      BY <2>1, <1>1, <1>6
    <3> QED
      BY <3>1, <2>1, <1>5, <1>6
  <2>2. CASE c # ns[p].tail
    <3> DEFINE S == {d \in C : c < d}
    <3>1. S \in SUBSET Nat /\ ns[c].next \in S /\ \A d \in S : ns[c].next <= d
      BY <2>2, <1>1, <1>6
    <3> HIDE DEF S
    <3>2. ns[c].next = First(S)
      BY <3>1, <1>3
    <3> QED
      BY <3>2 DEF S
  <2> QED
    BY <2>1, <2>2
<1> QED
  BY <1>6, <1>7, <1>8 DEF ListSound, C, First, Last

\* ir_append_child with the newest node.
LEMMA LinkShape ==
  ASSUME NEW ns, TreeShape(ns), Len(ns) >= 2, ~ns[Len(ns)].linked,
         NEW parent \in 1..Len(ns), ns[parent].linked,
         ns[parent].type \in {"root", "element"}
  PROVE  LET ms == AppendChild(ns, parent, Len(ns))
         IN  TreeShape(ms) /\ AllLinked(ms) /\ Linked(ns, ms, parent, Len(ns))
<1> DEFINE L == Len(ns)
           ms == AppendChild(ns, parent, L)
           tail == ns[parent].tail
           C(p) == Children(ns, p)
           D(p) == Children(ms, p)
<1>1. /\ ns \in Seq(Node(AllTags)) /\ L \in Nat /\ L \in 1..L /\ L >= 2
      /\ parent # L /\ parent \in 1..L
      /\ ns[1].parent = NoNode /\ ns[1].linked /\ ns[1].type = "root"
      /\ \A c \in 2..L : Ordered(ns, c)
  BY DEF TreeShape, RootFirst
<1>2. \A p \in 1..L : ListOf(ns, p)
  BY DEF TreeShape
<1>3. \A p : C(p) \in SUBSET (1..L)
  BY <1>1, ChildrenFinite
<1>4. \A p \in 1..L : \A c \in C(p) : c > p /\ c # L /\ ns[c].linked /\ ns[c].parent = p
  <2> SUFFICES ASSUME NEW p \in 1..L, NEW c \in C(p)
               PROVE  c > p /\ c # L /\ ns[c].linked /\ ns[c].parent = p
    OBVIOUS
  <2>1. c \in 1..L /\ ns[c].linked /\ ns[c].parent = p
    BY <1>1 DEF Children
  <2>2. c # 1
    BY <2>1, <1>1 DEF NoNode
  <2>3. Ordered(ns, c)
    BY <2>1, <2>2, <1>1
  <2> QED
    BY <2>1, <2>3, <1>1 DEF Ordered
<1>5. (tail = NoNode /\ C(parent) = {}) \/ tail \in C(parent)
  BY <1>1, <1>2 DEF ListOf
<1>6. tail \in 0..L /\ tail # L /\ tail # parent
  BY <1>1, <1>3, <1>4, <1>5 DEF NoNode
<1>7. Linked(ns, ms, parent, L)
  BY <1>1, <1>6, LinkFrame
<1>8. /\ ms \in Seq(Node(AllTags)) /\ Len(ms) = L
      /\ \A c \in 1..L :
            /\ Same(ms[c], ns[c])
            /\ c # L => ms[c].parent = ns[c].parent /\ ms[c].linked = ns[c].linked
            /\ c # tail => ms[c].next = ns[c].next
            /\ c # parent => /\ ms[c].head = ns[c].head /\ ms[c].tail = ns[c].tail
                             /\ ms[c].count = ns[c].count
      /\ ms[L].parent = parent /\ ms[L].linked
      /\ tail # NoNode => ms[tail].next = L
      /\ ms[parent].tail = L /\ ms[parent].count = ns[parent].count + 1
      /\ ms[parent].head = IF tail = NoNode THEN L ELSE ns[parent].head
  BY <1>7 DEF Linked
<1>9. Ordered(ns, L)
  BY <1>1
<1>10. ns[L].next = NoNode /\ ns[L].parent = NoNode
  BY <1>9 DEF Ordered
<1> HIDE DEF ms, tail
<1>11. DOMAIN ms = 1..L /\ DOMAIN ns = 1..L
  BY <1>1, <1>8
<1>12. /\ \A p : D(p) = {c \in 1..L : ms[c].linked /\ ms[c].parent = p}
       /\ \A p : C(p) = {c \in 1..L : ns[c].linked /\ ns[c].parent = p}
  BY <1>11 DEF Children
<1>12a. \A c \in 1..L : IF c = L THEN ms[c].linked /\ ms[c].parent = parent /\ ~ns[c].linked
                         ELSE ms[c].linked = ns[c].linked /\ ms[c].parent = ns[c].parent
  BY <1>1, <1>8
<1> HIDE DEF C, D
<1>12b. \A p \in 1..L : p # parent => D(p) = C(p)
  BY <1>12, <1>12a
<1>13. D(parent) = C(parent) \cup {L} /\ L \notin C(parent)
  BY <1>1, <1>12, <1>12a
<1>14. \A p \in 1..L : \A c \in C(p) : ms[c].next = IF c = tail THEN L ELSE ns[c].next
  BY <1>3, <1>5, <1>8 DEF NoNode
<1>15. ASSUME NEW p \in 1..L, p # parent PROVE ListOf(ms, p)
  <2>1. D(p) = C(p) /\ ListOf(ns, p)
    BY <1>2, <1>12b, <1>15 DEF D
  <2>2. \A c \in C(p) : c # tail
    BY <1>1, <1>4, <1>5, <1>6, <1>15 DEF NoNode
  <2>3. \A c \in C(p) : ms[c].next = ns[c].next
    BY <1>14, <2>2
  <2>4. ms[p].head = ns[p].head /\ ms[p].tail = ns[p].tail /\ ms[p].count = ns[p].count
    BY <1>8, <1>15
  <2> QED
    BY <2>1, <2>3, <2>4 DEF ListOf, C, D
<1>16. ListOf(ms, parent)
  <2>1. /\ C(parent) = {} => ns[parent].head = NoNode /\ ns[parent].tail = NoNode
        /\ C(parent) # {} =>
              /\ ns[parent].head \in C(parent) /\ \A d \in C(parent) : ns[parent].head <= d
              /\ ns[parent].tail \in C(parent) /\ \A d \in C(parent) : d <= ns[parent].tail
        /\ ns[parent].count = Cardinality(C(parent))
        /\ \A c \in C(parent) :
              IF c = ns[parent].tail THEN ns[c].next = NoNode
              ELSE /\ ns[c].next \in C(parent) /\ c < ns[c].next
                   /\ \A d \in C(parent) : c < d => ns[c].next <= d
    BY <1>2 DEF ListOf, C
  <2>2. Cardinality(D(parent)) = Cardinality(C(parent)) + 1
    <3>1. IsFiniteSet(C(parent))
      BY <1>1, ChildrenFinite DEF C
    <3> QED
      BY <3>1, <1>13, FS_AddElement
  <2>3. ms[parent].count = Cardinality(D(parent))
    BY <2>1, <2>2, <1>8
  <2>4. ms[L].next = NoNode
    BY <1>6, <1>8, <1>10, <1>1
  <2> DEFINE X == C(parent)
             Y == D(parent)
  <2>5. X \subseteq 1..(L - 1) /\ Y = X \cup {L}
    BY <1>1, <1>3, <1>4, <1>13
  <2>6. \A c \in X : ms[c].next = IF c = tail THEN L ELSE ns[c].next
    BY <1>1, <1>14
  <2>7. tail = ns[parent].tail
    BY DEF tail
  <2>8. Y # {} /\ ms[parent].tail \in Y /\ \A d \in Y : d <= ms[parent].tail
    BY <1>1, <1>8, <2>5
  <2>9. ms[parent].head \in Y /\ \A d \in Y : ms[parent].head <= d
    <3>1. CASE X = {}
      BY <3>1, <1>1, <1>8, <2>1, <2>5, <2>7
    <3>2. CASE X # {}
      <4>1. tail # NoNode
        BY <3>2, <2>1, <2>5, <2>7 DEF NoNode
      <4> QED
        BY <4>1, <3>2, <1>1, <1>8, <2>1, <2>5
    <3> QED
      BY <3>1, <3>2
  <2>10. ASSUME NEW c \in Y
         PROVE  IF c = ms[parent].tail THEN ms[c].next = NoNode
                ELSE /\ ms[c].next \in Y /\ c < ms[c].next
                     /\ \A d \in Y : c < d => ms[c].next <= d
    <3>1. CASE c = L
      BY <3>1, <2>4, <1>8
    <3>2. CASE c \in X /\ c = tail
      <4>1. ms[c].next = L /\ c # L /\ c < L
        BY <3>2, <1>1, <2>5, <2>6
      <4>2. \A d \in Y : c < d => d = L
        BY <3>2, <1>1, <2>1, <2>5, <2>7
      <4> QED
        BY <4>1, <4>2, <1>1, <1>8, <2>5
    <3>3. CASE c \in X /\ c # tail
      <4>1. /\ ms[c].next = ns[c].next /\ ns[c].next \in X /\ c < ns[c].next
            /\ \A d \in X : c < d => ns[c].next <= d
        BY <3>3, <2>1, <2>6, <2>7
      <4>2. c # L /\ ns[c].next <= L
        BY <3>3, <4>1, <1>1, <2>5
      <4> QED
        BY <4>1, <4>2, <1>8, <2>5
    <3> QED
      BY <3>1, <3>2, <3>3, <2>5
  <2> HIDE DEF X
  <2> QED
    BY <2>3, <2>8, <2>9, <2>10 DEF ListOf, D
<1>17. RootFirst(ms)
  <2>1. RootFirst(ns) /\ 1 \in 1..L /\ 1 # L
    BY <1>1 DEF TreeShape
  <2>2. ms # <<>>
    BY <1>1, <1>8
  <2> QED
    BY <2>1, <2>2, <1>8 DEF RootFirst, Same
<1>18. ASSUME NEW c \in 2..L PROVE Ordered(ms, c)
  <2>1. Ordered(ns, c) /\ c \in 1..L
    BY <1>1
  <2>2. \A d \in 1..L : ns[d].linked => ms[d].linked
    BY <1>8
  <2>3. CASE c = L
    BY <2>3, <2>2, <2>1, <1>1, <1>8 DEF Ordered, Same
  <2>4. CASE c # L
    <3>1. ms[c].linked /\ ms[c].parent = ns[c].parent /\ ns[c].linked
      BY <2>1, <2>4, <1>8 DEF Ordered
    <3>2. ns[c].parent \in 1..(c - 1) /\ ns[ns[c].parent].linked
          /\ ns[ns[c].parent].type \in {"root", "element"} /\ ns[c].type # "root"
      BY <2>1, <3>1 DEF Ordered
    <3>3. ns[c].parent \in 1..L
      BY <3>2, <1>1
    <3> QED
      BY <3>1, <3>2, <3>3, <2>1, <2>2, <1>8 DEF Ordered, Same
  <2> QED
    BY <2>3, <2>4
<1>19. AllLinked(ms)
  <2> SUFFICES ASSUME NEW c \in 1..L PROVE ms[c].linked
    BY <1>8 DEF AllLinked
  <2>1. CASE c = L
    BY <2>1, <1>8
  <2>2. CASE c # L /\ c # 1
    <3>1. Ordered(ns, c)
      BY <2>2, <1>1
    <3> QED
      BY <3>1, <2>2, <1>8 DEF Ordered
  <2>3. CASE c = 1
    BY <2>3, <1>1, <1>8
  <2> QED
    BY <2>1, <2>2, <2>3
<1>20. TreeShape(ms)
  BY <1>8, <1>15, <1>16, <1>17, <1>18 DEF TreeShape
<1> QED
  BY <1>7, <1>19, <1>20 DEF ms

\* A node as its constructor leaves it, beside the tree.
Fresh(n) ==
    /\ n \in Node(AllTags) /\ n.type # "root" /\ ~n.linked
    /\ n.parent = NoNode /\ n.next = NoNode /\ n.head = NoNode /\ n.tail = NoNode
    /\ n.count = 0

LEMMA AppendShape ==
  ASSUME NEW ns, TreeShape(ns), AllLinked(ns), NEW n, Fresh(n)
  PROVE  TreeShape(Append(ns, n))
<1> DEFINE L == Len(ns)
           ms == Append(ns, n)
           C(p) == Children(ns, p)
           D(p) == Children(ms, p)
<1>1. /\ ns \in Seq(Node(AllTags)) /\ L \in Nat /\ RootFirst(ns)
      /\ \A c \in 2..L : Ordered(ns, c)
      /\ \A p \in 1..L : ListOf(ns, p)
  BY DEF TreeShape
<1>2. L >= 1
  BY <1>1 DEF RootFirst
<1>3. n \in Node(AllTags)
  BY DEF Fresh
<1>4. /\ ms \in Seq(Node(AllTags)) /\ Len(ms) = L + 1 /\ ms[L + 1] = n
      /\ \A c \in 1..L : ms[c] = ns[c]
  BY <1>1, <1>3
<1> HIDE DEF ms
<1>5. \A c \in 1..L : ns[c].linked /\ ns[c].parent # L + 1
  <2> SUFFICES ASSUME NEW c \in 1..L PROVE ns[c].linked /\ ns[c].parent # L + 1
    OBVIOUS
  <2>1. ns[c].linked
    BY DEF AllLinked
  <2>2. CASE c = 1
    BY <2>1, <2>2, <1>1, <1>2 DEF RootFirst, NoNode
  <2>3. CASE c # 1
    <3>1. Ordered(ns, c)
      BY <2>3, <1>1
    <3> QED
      BY <3>1, <2>1, <1>1 DEF Ordered
  <2> QED
    BY <2>2, <2>3
<1>6. DOMAIN ms = 1..(L + 1) /\ DOMAIN ns = 1..L
  BY <1>1, <1>4
<1>7. /\ \A p : D(p) = {c \in 1..(L + 1) : ms[c].linked /\ ms[c].parent = p}
      /\ \A p : C(p) = {c \in 1..L : ns[c].linked /\ ns[c].parent = p}
  BY <1>6 DEF Children
<1>8. ~ms[L + 1].linked
  BY <1>4 DEF Fresh
<1> HIDE DEF C, D
<1>9. \A p : D(p) = C(p)
  <2> SUFFICES ASSUME NEW p PROVE D(p) = C(p)
    OBVIOUS
  <2>1. \A c \in 1..(L + 1) : c # L + 1 => c \in 1..L /\ ms[c] = ns[c]
    BY <1>1, <1>4
  <2>2. \A c \in 1..L : c \in 1..(L + 1) /\ ms[c] = ns[c]
    BY <1>1, <1>4
  <2> QED
    BY <2>1, <2>2, <1>7, <1>8
<1>10. C(L + 1) = {}
  BY <1>5, <1>7
<1>11. ASSUME NEW p \in 1..(L + 1) PROVE ListOf(ms, p)
  <2>1. CASE p = L + 1
    <3>1. ms[p].head = NoNode /\ ms[p].tail = NoNode /\ ms[p].count = 0
      BY <2>1, <1>4 DEF Fresh
    <3>2. D(p) = {} /\ Cardinality(D(p)) = 0
      BY <2>1, <1>9, <1>10, FS_EmptySet
    <3> QED
      BY <3>1, <3>2 DEF ListOf, D
  <2>2. CASE p # L + 1
    <3>1. p \in 1..L /\ ListOf(ns, p) /\ ms[p] = ns[p]
      BY <2>2, <1>1, <1>4
    <3>2. D(p) = C(p) /\ \A c \in C(p) : ms[c] = ns[c]
      BY <1>4, <1>7, <1>9
    <3> QED
      BY <3>1, <3>2 DEF ListOf, C, D
  <2> QED
    BY <2>1, <2>2
<1>12. RootFirst(ms)
  <2>1. ms[1] = ns[1] /\ ms # <<>>
    BY <1>1, <1>2, <1>4
  <2> QED
    BY <2>1, <1>1 DEF RootFirst
<1>13. ASSUME NEW c \in 2..(L + 1) PROVE Ordered(ms, c)
  <2>1. CASE c = L + 1
    BY <2>1, <1>4 DEF Ordered, Fresh
  <2>2. CASE c # L + 1
    <3>1. c \in 2..L /\ c \in 1..L /\ Ordered(ns, c) /\ ms[c] = ns[c] /\ ns[c].linked
      BY <2>2, <1>1, <1>4, <1>5
    <3>2. ns[c].parent \in 1..(c - 1) /\ ns[c].parent \in 1..L
      BY <3>1, <1>1 DEF Ordered
    <3>3. ms[ns[c].parent] = ns[ns[c].parent]
      BY <3>2, <1>4
    <3> QED
      BY <3>1, <3>2, <3>3 DEF Ordered
  <2> QED
    BY <2>1, <2>2
<1> QED
  BY <1>4, <1>11, <1>12, <1>13 DEF TreeShape, ms

\* The last node with other attributes or directives.
Likewise(m, n) ==
    /\ m.type = n.type /\ m.tag = n.tag /\ m.start = n.start /\ m.end = n.end
    /\ m.next = n.next /\ m.parent = n.parent /\ m.linked = n.linked
    /\ m.head = n.head /\ m.tail = n.tail /\ m.count = n.count

LEMMA LastShape ==
  ASSUME NEW ns, TreeShape(ns), NEW x \in Node(AllTags), Likewise(x, ns[Len(ns)])
  PROVE  LET ms == [ns EXCEPT ![Len(ns)] = x]
         IN  /\ TreeShape(ms) /\ Len(ms) = Len(ns)
             /\ \A c \in 1..Len(ns) : /\ Likewise(ms[c], ns[c])
                                      /\ c # Len(ns) => ms[c] = ns[c]
             /\ ms[Len(ns)] = x
<1> DEFINE L == Len(ns)
           ms == [ns EXCEPT ![L] = x]
<1>1. /\ ns \in Seq(Node(AllTags)) /\ L \in Nat /\ RootFirst(ns)
      /\ \A c \in 2..L : Ordered(ns, c)
      /\ \A p \in 1..L : ListOf(ns, p)
  BY DEF TreeShape
<1>2. L \in 1..L /\ 1 \in 1..L
  BY <1>1 DEF RootFirst
<1>3. /\ ms \in Seq(Node(AllTags)) /\ Len(ms) = L
      /\ \A c \in 1..L : ms[c] = IF c = L THEN x ELSE ns[c]
  BY <1>1, <1>2, Replaced
<1> HIDE DEF ms
<1>4. \A c \in 1..L : Likewise(ms[c], ns[c])
  BY <1>2, <1>3 DEF Likewise
<1>5. DOMAIN ms = 1..L /\ DOMAIN ns = 1..L
  BY <1>1, <1>3
<1>6. \A p : Children(ms, p) = Children(ns, p)
  BY <1>4, <1>5 DEF Children, Likewise
<1>7. ASSUME NEW p \in 1..L PROVE ListOf(ms, p)
  <2>1. ListOf(ns, p) /\ Children(ms, p) = Children(ns, p)
    BY <1>1, <1>6
  <2>2. \A c \in Children(ns, p) : ms[c].next = ns[c].next
    BY <1>4, <1>5 DEF Likewise, Children
  <2>3. ms[p].head = ns[p].head /\ ms[p].tail = ns[p].tail /\ ms[p].count = ns[p].count
    BY <1>4 DEF Likewise
  <2> QED
    BY <2>1, <2>2, <2>3 DEF ListOf
<1>8. RootFirst(ms)
  <2>1. ms # <<>>
    BY <1>2, <1>3
  <2> QED
    BY <2>1, <1>1, <1>2, <1>4 DEF RootFirst, Likewise
<1>9. ASSUME NEW c \in 2..L PROVE Ordered(ms, c)
  <2>1. Ordered(ns, c) /\ c \in 1..L /\ Likewise(ms[c], ns[c])
    BY <1>1, <1>4
  <2>2. ns[c].linked => ns[c].parent \in 1..L /\ ms[ns[c].parent].linked = ns[ns[c].parent].linked
                        /\ ms[ns[c].parent].type = ns[ns[c].parent].type
    <3> SUFFICES ASSUME ns[c].linked
                 PROVE  ns[c].parent \in 1..L /\ Likewise(ms[ns[c].parent], ns[ns[c].parent])
      BY DEF Likewise
    <3>1. ns[c].parent \in 1..L
      BY <2>1, <1>1 DEF Ordered
    <3> QED
      BY <3>1, <1>4
  <2> QED
    BY <2>1, <2>2, <1>3 DEF Ordered, Likewise
<1>10. TreeShape(ms)
  BY <1>3, <1>7, <1>8, <1>9 DEF TreeShape
<1> QED
  BY <1>2, <1>3, <1>4, <1>10 DEF ms

-----------------------------------------------------------------------------
(* The representation *)

Alike(m, n) == m.type = n.type /\ m.tag = n.tag /\ m.start = n.start /\ m.end = n.end

LEMMA PlacedAlike ==
  ASSUME NEW ns, NEW ms, NEW ts, Placed(ns, ts), Len(ns) \in Nat, Len(ms) = Len(ns),
         \A c \in 1..Len(ns) : Alike(ms[c], ns[c])
  PROVE  Placed(ms, ts)
<1>1. \A c \in 2..Len(ns) : c \in 1..Len(ns)
  OBVIOUS
<1>2. \A c \in 2..Len(ns) :
        1 <= ms[c].start /\ ms[c].start <= ms[c].end /\ ms[c].end <= Len(ts)
  BY <1>1 DEF Placed, Alike
<1>3. \A a, b \in 1..Len(ns) : a < b => ms[a].end < ms[b].start
  BY DEF Placed, Alike
<1>4. \A c \in 2..Len(ns) : ms[c].type = "element" =>
        ms[c].tag \in Tags /\ ts[ms[c].start].tag = ms[c].tag
  BY <1>1 DEF Placed, Alike
<1> QED
  BY <1>2, <1>3, <1>4 DEF Placed

\* ms has the nodes of ns, and may have more.
Grown(ns, ms) ==
    /\ Len(ns) <= Len(ms)
    /\ \A c \in 1..Len(ns) :
          /\ ms[c].type = ns[c].type /\ ms[c].tag = ns[c].tag
          /\ ms[c].start = ns[c].start /\ ms[c].end = ns[c].end
          /\ ns[c].linked => ms[c].linked /\ ms[c].parent = ns[c].parent

\* A token that is only read.
LEMMA RepToken ==
  ASSUME NEW ns, NEW ts \in Seq(Tokens), NEW bl, RepInv(ns, ts, bl),
         NEW t \in Tokens, Len(ts) + 1 <= MaxTokens
  PROVE  RepInv(ns, Append(ts, t), bl)
<1> DEFINE us == Append(ts, t)
<1>1. /\ Len(us) = Len(ts) + 1 /\ Len(ts) \in Nat
      /\ \A i \in 1..Len(ts) : us[i] = ts[i]
  OBVIOUS
<1>2. \A n \in 0..Len(ts) : OpenAfter(us)[n] = OpenAfter(ts)[n]
  BY OpenAppend
<1> HIDE DEF us
<1>3. TreeShape(ns) /\ Placed(ns, ts) /\ Nested(ns, ts) /\ bl = Total(ns)
  BY DEF RepInv
<1>4. ns \in Seq(Node(AllTags))
  BY <1>3 DEF TreeShape
<1>5. \A c \in 2..Len(ns) : ns[c].start \in 1..Len(ts) /\ ns[c].start - 1 \in 0..Len(ts)
                            /\ ns[c].end <= Len(us)
  <2> SUFFICES ASSUME NEW c \in 2..Len(ns)
               PROVE  ns[c].start \in 1..Len(ts) /\ ns[c].start - 1 \in 0..Len(ts)
                      /\ ns[c].end <= Len(us)
    OBVIOUS
  <2>1. c \in 1..Len(ns)
    BY <1>4
  <2>2. ns[c].start \in Nat /\ ns[c].end \in Nat
    <3>1. ns[c] \in Node(AllTags)
      BY <1>4, <2>1
    <3> QED
      BY <3>1 DEF Node
  <2>3. 1 <= ns[c].start /\ ns[c].start <= ns[c].end /\ ns[c].end <= Len(ts)
    BY <1>3 DEF Placed
  <2> QED
    BY <2>2, <2>3, <1>1
<1>6. Placed(ns, us)
  BY <1>1, <1>3, <1>5 DEF Placed
<1>7. Nested(ns, us)
  BY <1>2, <1>3, <1>5 DEF Nested
<1> QED
  BY <1>3, <1>6, <1>7 DEF RepInv, us

\* A constructor's node, before it is in the tree.
LEMMA RepAppend ==
  ASSUME NEW ns, NEW ts, NEW bl, RepInv(ns, ts, bl), AllLinked(ns),
         NEW n, Fresh(n), NodeBlocks(n) = 2,
         1 <= n.start, n.start <= n.end, n.end <= Len(ts),
         \A c \in 1..Len(ns) : ns[c].end < n.start,
         n.type = "element" => n.tag \in Tags /\ ts[n.start].tag = n.tag
  PROVE  LET ms == Append(ns, n)
         IN  RepInv(ms, ts, bl + 2) /\ Grown(ns, ms) /\ Len(ms) = Len(ns) + 1
             /\ ms[Len(ms)] = n /\ \A c \in 1..Len(ns) : ms[c] = ns[c]
<1> DEFINE L == Len(ns)
           ms == Append(ns, n)
<1>1. TreeShape(ns) /\ Placed(ns, ts) /\ Nested(ns, ts) /\ bl = Total(ns)
  BY DEF RepInv
<1>2. ns \in Seq(Node(AllTags)) /\ L \in Nat /\ n \in Node(AllTags)
  BY <1>1 DEF TreeShape, Fresh
<1>3. /\ Len(ms) = L + 1 /\ ms[L + 1] = n
      /\ \A c \in 1..L : ms[c] = ns[c]
  BY <1>2
<1>4. TreeShape(ms)
  BY <1>1, AppendShape
<1>5. Total(ms) = bl + 2
  BY <1>1, <1>2, TotalAppend
<1> HIDE DEF ms
<1>6. Placed(ms, ts)
  <2>1. \A c \in 1..(L + 1) : c # L + 1 => c \in 1..L
    BY <1>2
  <2>2. \A c \in 2..(L + 1) : c # L + 1 => c \in 2..L /\ c \in 1..L
    BY <1>2
  <2>3. \A c \in 2..(L + 1) : 1 <= ms[c].start /\ ms[c].start <= ms[c].end /\ ms[c].end <= Len(ts)
    BY <2>2, <1>1, <1>3 DEF Placed
  <2>4. \A c \in 2..(L + 1) :
          ms[c].type = "element" => ms[c].tag \in Tags /\ ts[ms[c].start].tag = ms[c].tag
    BY <2>2, <1>1, <1>3 DEF Placed
  <2>5. ASSUME NEW a \in 1..(L + 1), NEW b \in 1..(L + 1), a < b
        PROVE  ms[a].end < ms[b].start
    <3>1. a \in 1..L
      BY <2>5, <1>2
    <3>2. CASE b = L + 1
      BY <3>1, <3>2, <1>3
    <3>3. CASE b # L + 1
      BY <3>1, <3>3, <2>1, <2>5, <1>1, <1>3 DEF Placed
    <3> QED
      BY <3>2, <3>3
  <2> QED
    BY <2>3, <2>4, <2>5, <1>3 DEF Placed
<1>7. Nested(ms, ts)
  <2> SUFFICES ASSUME NEW c \in 2..(L + 1), ms[c].linked
               PROVE  ms[ms[c].parent].start = Innermost(OpenAfter(ts)[ms[c].start - 1])
    BY <1>3 DEF Nested
  <2>1. c # L + 1
    BY <1>3 DEF Fresh
  <2>2. c \in 2..L /\ c \in 1..L /\ ms[c] = ns[c]
    BY <2>1, <1>2, <1>3
  <2>3. Ordered(ns, c)
    BY <2>2, <1>1 DEF TreeShape
  <2>4. ns[c].parent \in 1..L
    BY <2>2, <2>3, <1>2 DEF Ordered
  <2> QED
    BY <2>2, <2>4, <1>1, <1>3 DEF Nested
<1>8. Grown(ns, ms)
  BY <1>2, <1>3 DEF Grown
<1> QED
  BY <1>3, <1>4, <1>5, <1>6, <1>7, <1>8 DEF RepInv, ms

\* The newest node comes into the tree.
LEMMA RepLink ==
  ASSUME NEW ns, NEW ts, NEW bl, RepInv(ns, ts, bl), Len(ns) >= 2, ~ns[Len(ns)].linked,
         NEW parent \in 1..Len(ns), ns[parent].linked,
         ns[parent].type \in {"root", "element"},
         ns[parent].start = Innermost(OpenAfter(ts)[ns[Len(ns)].start - 1])
  PROVE  LET ms == AppendChild(ns, parent, Len(ns))
         IN  /\ RepInv(ms, ts, bl) /\ AllLinked(ms) /\ Grown(ns, ms)
             /\ Len(ms) = Len(ns) /\ ms[Len(ns)].parent = parent
<1> DEFINE L == Len(ns)
           ms == AppendChild(ns, parent, L)
<1>1. TreeShape(ns) /\ Placed(ns, ts) /\ Nested(ns, ts) /\ bl = Total(ns)
  BY DEF RepInv
<1>2. ns \in Seq(Node(AllTags)) /\ L \in Nat
  BY <1>1 DEF TreeShape
<1>3. TreeShape(ms) /\ AllLinked(ms) /\ Linked(ns, ms, parent, L)
  BY <1>1, LinkShape
<1> HIDE DEF ms
<1>4. /\ ms \in Seq(Node(AllTags)) /\ Len(ms) = L
      /\ \A c \in 1..L : /\ Same(ms[c], ns[c])
                         /\ c # L => ms[c].parent = ns[c].parent /\ ms[c].linked = ns[c].linked
      /\ ms[L].parent = parent /\ ms[L].linked
  BY <1>3 DEF Linked
<1>5. Total(ms) = Total(ns)
  <2>1. \A k \in 1..L : NodeBlocks(ms[k]) = NodeBlocks(ns[k])
    BY <1>4 DEF Same, NodeBlocks
  <2>2. \A k \in 1..(L - 1) : NodeBlocks(ms[k]) = NodeBlocks(ns[k])
    BY <2>1, <1>2
  <2>3. Len(ms) = Len(ns) /\ Len(ns) >= 1 /\ L \in 1..L
    BY <1>2, <1>4
  <2>4. \E x \in Nat : Total(ns) = NodeBlocks(ns[L]) + x /\ Total(ms) = NodeBlocks(ms[L]) + x
    BY <2>2, <2>3, <1>2, <1>4, TotalLast
  <2> QED
    BY <2>1, <2>3, <2>4
<1>6. Placed(ms, ts)
  <2>1. \A c \in 1..L : Alike(ms[c], ns[c])
    BY <1>4 DEF Same, Alike
  <2> QED
    BY <2>1, <1>1, <1>2, <1>4, PlacedAlike
<1>7. Nested(ms, ts)
  <2> SUFFICES ASSUME NEW c \in 2..L
               PROVE  ms[ms[c].parent].start = Innermost(OpenAfter(ts)[ms[c].start - 1])
    BY <1>4 DEF Nested
  <2>1. c \in 1..L /\ Same(ms[c], ns[c])
    BY <1>2, <1>4
  <2>2. CASE c = L
    BY <2>1, <2>2, <1>4 DEF Same
  <2>3. CASE c # L
    <3>1. Ordered(ns, c)
      BY <1>1 DEF TreeShape
    <3>2. ns[c].linked /\ ns[c].parent \in 1..L /\ ms[c].parent = ns[c].parent
      BY <3>1, <2>1, <2>3, <1>2, <1>4 DEF Ordered
    <3>3. Same(ms[ns[c].parent], ns[ns[c].parent])
      BY <3>2, <1>4
    <3> QED
      BY <2>1, <3>2, <3>3, <1>1 DEF Nested, Same
  <2> QED
    BY <2>2, <2>3
<1>8. Grown(ns, ms)
  BY <1>2, <1>4 DEF Grown, Same
<1> QED
  BY <1>1, <1>3, <1>4, <1>5, <1>6, <1>7, <1>8 DEF RepInv, ms

\* The newest node gets attributes or directives.
LEMMA RepLast ==
  ASSUME NEW ns, NEW ts, NEW bl, RepInv(ns, ts, bl), NEW x \in Node(AllTags),
         Likewise(x, ns[Len(ns)]), NEW d \in Nat,
         NodeBlocks(x) = NodeBlocks(ns[Len(ns)]) + d
  PROVE  LET ms == [ns EXCEPT ![Len(ns)] = x]
         IN  /\ RepInv(ms, ts, bl + d) /\ Grown(ns, ms) /\ Len(ms) = Len(ns)
             /\ ms[Len(ns)] = x
<1> DEFINE L == Len(ns)
           ms == [ns EXCEPT ![L] = x]
<1>1. TreeShape(ns) /\ Placed(ns, ts) /\ Nested(ns, ts) /\ bl = Total(ns)
  BY DEF RepInv
<1>2. ns \in Seq(Node(AllTags)) /\ L \in Nat /\ L >= 1
  BY <1>1 DEF TreeShape, RootFirst
<1>3. /\ TreeShape(ms) /\ Len(ms) = L
      /\ \A c \in 1..L : Likewise(ms[c], ns[c]) /\ (c # L => ms[c] = ns[c])
      /\ ms[L] = x
  BY <1>1, LastShape
<1> HIDE DEF ms
<1>4. ms \in Seq(Node(AllTags))
  BY <1>3 DEF TreeShape
<1>5. Total(ms) = bl + d
  <2>1. \A k \in 1..(L - 1) : ms[k] = ns[k]
    BY <1>2, <1>3
  <2>2. PICK y \in Nat : Total(ns) = NodeBlocks(ns[L]) + y /\ Total(ms) = NodeBlocks(ms[L]) + y
    BY <2>1, <1>2, <1>3, <1>4, TotalLast
  <2>3. NodeBlocks(ns[L]) \in Nat
    BY <1>2, NodeBlocksNat
  <2> QED
    BY <2>2, <2>3, <1>1, <1>3
<1>6. Placed(ms, ts)
  <2>1. \A c \in 1..L : Alike(ms[c], ns[c])
    BY <1>3 DEF Likewise, Alike
  <2> QED
    BY <2>1, <1>1, <1>2, <1>3, PlacedAlike
<1>7. Nested(ms, ts)
  <2> SUFFICES ASSUME NEW c \in 2..L, ms[c].linked
               PROVE  ms[ms[c].parent].start = Innermost(OpenAfter(ts)[ms[c].start - 1])
    BY <1>3 DEF Nested
  <2>0. c \in 1..L
    BY <1>2
  <2>1. c \in 1..L /\ Likewise(ms[c], ns[c]) /\ ns[c].linked
    BY <2>0, <1>3 DEF Likewise
  <2>2. Ordered(ns, c)
    BY <1>1 DEF TreeShape
  <2>3. ns[c].parent \in 1..L
    BY <2>1, <2>2, <1>2 DEF Ordered
  <2>4. Likewise(ms[ns[c].parent], ns[ns[c].parent])
    BY <2>3, <1>3
  <2> QED
    BY <2>1, <2>4, <1>1 DEF Nested, Likewise
<1>8. Grown(ns, ms)
  BY <1>2, <1>3 DEF Grown, Likewise
<1> QED
  BY <1>3, <1>5, <1>6, <1>7, <1>8 DEF RepInv, ms

-----------------------------------------------------------------------------
(* The stack and the tree *)

LEMMA StackGrown ==
  ASSUME NEW ns, NEW ms, Grown(ns, ms), Len(ns) \in Nat, Len(ms) \in Nat,
         NEW stack, Len(stack) \in Nat, NEW top, NEW k \in 0..Len(stack), NEW open,
         StackIs(ns, stack, top, k, open)
  PROVE  StackIs(ms, stack, top, k, open)
<1>1. PICK P \in [1..Len(stack) -> 2..Len(ns)] :
        SpineOf(ns, stack, top, P) /\ open = StartsOf(ns, P, k)
  BY DEF StackIs
<1>2. /\ P \in [1..Len(stack) -> 2..Len(ms)]
      /\ \A i \in 1..Len(stack) : P[i] \in 1..Len(ns)
  BY DEF Grown
<1>3. SpineOf(ms, stack, top, P)
  <2>1. \A i \in 1..Len(stack) : ns[P[i]].linked
    BY <1>1 DEF SpineOf
  <2>2. \A i \in 1..Len(stack) :
          /\ ms[P[i]].type = ns[P[i]].type /\ ms[P[i]].tag = ns[P[i]].tag
          /\ ms[P[i]].linked /\ ms[P[i]].parent = ns[P[i]].parent
    BY <2>1, <1>2 DEF Grown
  <2>3. \A i \in 1..Len(stack) :
          /\ ms[P[i]].type = "element" /\ ms[P[i]].linked /\ ms[P[i]].tag = stack[i]
          /\ ms[P[i]].parent = IF i = 1 THEN 1 ELSE P[i - 1]
    <3> SUFFICES ASSUME NEW i \in 1..Len(stack)
                 PROVE  /\ ms[P[i]].type = "element" /\ ms[P[i]].linked
                        /\ ms[P[i]].tag = stack[i]
                        /\ ms[P[i]].parent = IF i = 1 THEN 1 ELSE P[i - 1]
      OBVIOUS
    <3>1. /\ ns[P[i]].type = "element" /\ ns[P[i]].tag = stack[i]
          /\ ns[P[i]].parent = IF i = 1 THEN 1 ELSE P[i - 1]
      BY <1>1 DEF SpineOf
    <3> QED
      BY <3>1, <2>2
  <2> QED
    BY <2>3, <1>1, <1>2 DEF SpineOf
<1>4. StartsOf(ms, P, k) = StartsOf(ns, P, k)
  <2>1. \A i \in 1..k : ms[P[i]].start = ns[P[i]].start
    BY <1>2 DEF Grown
  <2> QED
    BY <2>1 DEF StartsOf
<1> QED
  BY <1>1, <1>2, <1>3, <1>4 DEF StackIs

\* The start tags of the stack are in the order of the template.
LEMMA SpineStarts ==
  ASSUME NEW ns, TreeShape(ns), NEW ts, Placed(ns, ts), NEW stack, Len(stack) \in Nat,
         NEW top, NEW P, SpineOf(ns, stack, top, P)
  PROVE  /\ \A i \in 1..Len(stack) :
              /\ P[i] \in 2..Len(ns) /\ P[i] \in 1..Len(ns)
              /\ ns[P[i]].start \in Nat /\ ns[P[i]].start >= 1
              /\ ns[P[i]].tag \in Tags /\ ts[ns[P[i]].start].tag = stack[i]
         /\ \A i, j \in 1..Len(stack) :
              i < j => ns[P[i]].start < ns[P[j]].start
<1>1. ns \in Seq(Node(AllTags))
  BY DEF TreeShape
<1>2. ASSUME NEW i \in 1..Len(stack)
      PROVE  /\ P[i] \in 2..Len(ns) /\ P[i] \in 1..Len(ns)
             /\ ns[P[i]].start \in Nat /\ ns[P[i]].end \in Nat
             /\ ns[P[i]].start >= 1 /\ ns[P[i]].start <= ns[P[i]].end
             /\ ns[P[i]].tag \in Tags /\ ts[ns[P[i]].start].tag = stack[i]
  <2>1. P[i] \in 2..Len(ns) /\ P[i] \in 1..Len(ns)
    <3>1. P[i] \in 2..Len(ns)
      BY DEF SpineOf
    <3>2. Len(ns) \in Nat
      BY <1>1
    <3> QED
      BY <3>1, <3>2
  <2>2. ns[P[i]] \in Node(AllTags)
    BY <2>1, <1>1
  <2>3. ns[P[i]].start \in Nat /\ ns[P[i]].end \in Nat
    BY <2>2 DEF Node
  <2>4. ns[P[i]].type = "element" /\ ns[P[i]].tag = stack[i]
    BY DEF SpineOf
  <2> QED
    BY <2>1, <2>3, <2>4 DEF Placed
<1>3. ASSUME NEW i \in 1..Len(stack), NEW j \in 1..Len(stack), i < j
      PROVE  ns[P[i]].start < ns[P[j]].start
  <2>1. P[i] < P[j]
    BY <1>3 DEF SpineOf
  <2>2. ns[P[i]].end < ns[P[j]].start
    <3>1. P[i] \in 1..Len(ns) /\ P[j] \in 1..Len(ns)
      BY <1>2
    <3> QED
      BY <2>1, <3>1 DEF Placed
  <2> QED
    BY <2>2, <1>2
<1> QED
  BY <1>2, <1>3

\* The handler's current parent is the innermost open element.
LEMMA StackTop ==
  ASSUME NEW ns, TreeShape(ns), NEW ts, Placed(ns, ts), NEW stack, Len(stack) \in Nat,
         NEW top, NEW open, StackIs(ns, stack, top, Len(stack), open)
  PROVE  /\ top \in 1..Len(ns) /\ ns[top].linked
         /\ ns[top].type \in {"root", "element"}
         /\ ns[top].start = Innermost(open)
         /\ Len(stack) > 0 => ns[top].tag \in Tags
<1>1. PICK P \in [1..Len(stack) -> 2..Len(ns)] :
        SpineOf(ns, stack, top, P) /\ open = StartsOf(ns, P, Len(stack))
  BY DEF StackIs
<1>2. CASE Len(stack) = 0
  <2>1. top = 1 /\ RootFirst(ns) /\ ns \in Seq(Node(AllTags))
    BY <1>1, <1>2 DEF SpineOf, TreeShape
  <2>2. open = {} /\ Innermost({}) = 0
    BY <1>1, <1>2 DEF StartsOf, Innermost
  <2> QED
    BY <2>1, <2>2, <1>2 DEF RootFirst
<1>3. CASE Len(stack) > 0
  <2> DEFINE K == Len(stack)
             x == ns[top].start
  <2>1. K \in 1..K /\ top = P[K]
    BY <1>1, <1>3 DEF SpineOf
  <2>2. \A i \in 1..K : P[i] \in 1..Len(ns) /\ ns[P[i]].start \in Nat /\ ns[P[i]].tag \in Tags
    BY <1>1, SpineStarts
  <2>2a. \A i, j \in 1..K : i < j => ns[P[i]].start < ns[P[j]].start
    BY <1>1, SpineStarts
  <2>2b. ns[P[K]].linked /\ ns[P[K]].type = "element"
    BY <2>1, <1>1 DEF SpineOf
  <2>3. \A i \in 1..K : ns[P[i]].start <= x
    <3> SUFFICES ASSUME NEW i \in 1..K PROVE ns[P[i]].start <= x
      OBVIOUS
    <3>1. i < K \/ i = K
      BY <2>1
    <3> QED
      BY <3>1, <2>1, <2>2, <2>2a
  <2>4. x \in open /\ open \in SUBSET Nat /\ \A j \in open : j <= x
    <3>1. open = {ns[P[i]].start : i \in 1..K}
      BY <1>1 DEF StartsOf
    <3>2. x = ns[P[K]].start
      BY <2>1
    <3> HIDE DEF x
    <3> QED
      BY <3>1, <3>2, <2>1, <2>2, <2>3
  <2> HIDE DEF x
  <2>5. Innermost(open) = x
    <3>1. \A i \in open : (\A j \in open : j <= i) => i = x
      BY <2>4
    <3> QED
      BY <3>1, <2>4 DEF Innermost
  <2> QED
    BY <2>1, <2>2, <2>2b, <2>5, <1>3 DEF x
<1> QED
  BY <1>2, <1>3

\* on_start_tag_end of an element with content.
LEMMA StackPush ==
  ASSUME NEW ns, NEW stack \in Seq(Tags), NEW top, NEW open,
         StackIs(ns, stack, top, Len(stack), open), Len(ns) \in Nat,
         NEW child \in 2..Len(ns), ns[child].type = "element", ns[child].linked,
         ns[child].parent = top, top < child, ns[child].tag \in Tags
  PROVE  StackIs(ns, Append(stack, ns[child].tag), child, Len(stack) + 1,
                 open \cup {ns[child].start})
<1> DEFINE K == Len(stack)
           new == Append(stack, ns[child].tag)
<1>1. PICK P \in [1..K -> 2..Len(ns)] :
        SpineOf(ns, stack, top, P) /\ open = StartsOf(ns, P, K)
  BY DEF StackIs
<1>2. K \in Nat /\ Len(new) = K + 1 /\ new[K + 1] = ns[child].tag
      /\ \A i \in 1..K : new[i] = stack[i]
  OBVIOUS
<1> DEFINE Q == [i \in 1..(K + 1) |-> IF i = K + 1 THEN child ELSE P[i]]
<1>3. Q \in [1..(K + 1) -> 2..Len(ns)] /\ Q[K + 1] = child /\ \A i \in 1..K : Q[i] = P[i]
  BY <1>2
<1> HIDE DEF Q, new
<1>4. \A i \in 1..(K + 1) : i # K + 1 => i \in 1..K
  BY <1>2
<1>5. ASSUME NEW i \in 1..(K + 1)
      PROVE  /\ ns[Q[i]].type = "element" /\ ns[Q[i]].linked /\ ns[Q[i]].tag = new[i]
             /\ ns[Q[i]].parent = IF i = 1 THEN 1 ELSE Q[i - 1]
  <2>1. CASE i = K + 1
    <3>1. top = IF i = 1 THEN 1 ELSE Q[i - 1]
      BY <2>1, <1>1, <1>2, <1>3 DEF SpineOf
    <3> QED
      BY <3>1, <2>1, <1>2, <1>3
  <2>2. CASE i # K + 1
    <3>1. i \in 1..K /\ Q[i] = P[i] /\ new[i] = stack[i]
      BY <2>2, <1>2, <1>3, <1>4
    <3>2. i # 1 => i - 1 \in 1..K
      BY <3>1, <1>2
    <3>3. i # 1 => Q[i - 1] = P[i - 1]
      BY <3>2, <1>3
    <3> QED
      BY <3>1, <3>3, <1>1 DEF SpineOf
  <2> QED
    BY <2>1, <2>2
<1>6. ASSUME NEW i \in 1..(K + 1), NEW j \in 1..(K + 1), i < j
      PROVE  Q[i] < Q[j]
  <2>1. i \in 1..K /\ Q[i] = P[i] /\ P[i] \in Nat
    BY <1>6, <1>2, <1>3, <1>1
  <2>2. CASE j = K + 1
    <3>1. P[i] <= P[K] /\ P[K] = top
      <4>1. K \in 1..K /\ K # 0 /\ P[K] \in Nat
        BY <2>1, <1>1, <1>2
      <4>2. i < K \/ i = K
        BY <2>1, <1>2
      <4>3. P[K] = top
        BY <4>1, <1>1 DEF SpineOf
      <4>4. i < K => P[i] < P[K]
        BY <4>1, <2>1, <1>1 DEF SpineOf
      <4> QED
        BY <4>1, <4>2, <4>3, <4>4, <2>1
    <3> QED
      BY <3>1, <2>1, <2>2, <1>1, <1>3
  <2>3. CASE j # K + 1
    BY <2>1, <2>3, <1>1, <1>3, <1>4, <1>6 DEF SpineOf
  <2> QED
    BY <2>2, <2>3
<1>7. SpineOf(ns, new, child, Q)
  BY <1>2, <1>3, <1>5, <1>6 DEF SpineOf
<1>8. StartsOf(ns, Q, K + 1) = open \cup {ns[child].start}
  <2>1. 1..(K + 1) = (1..K) \cup {K + 1}
    BY <1>2
  <2>2. {ns[Q[i]].start : i \in 1..(K + 1)}
          = {ns[Q[i]].start : i \in 1..K} \cup {ns[Q[K + 1]].start}
    BY <2>1
  <2>3. {ns[Q[i]].start : i \in 1..K} = {ns[P[i]].start : i \in 1..K}
    BY <1>3
  <2>4. Q[K + 1] = child
    BY <1>3, <1>4
  <2> QED
    BY <1>1, <1>2, <2>2, <2>3, <2>4 DEF StartsOf
<1> QED
  BY <1>2, <1>3, <1>7, <1>8 DEF StackIs, new

LEMMA FrontOf ==
  ASSUME NEW D, NEW s \in Seq(D), Len(s) >= 1
  PROVE  /\ SubSeq(s, 1, Len(s) - 1) \in Seq(D)
         /\ Len(SubSeq(s, 1, Len(s) - 1)) = Len(s) - 1
         /\ \A i \in 1..(Len(s) - 1) : SubSeq(s, 1, Len(s) - 1)[i] = s[i]
<1> DEFINE n == Len(s) - 1
<1>1. n \in Int /\ n \in Nat /\ \A i \in 1..n : s[i] \in D
  OBVIOUS
<1> HIDE DEF n
<1>2. /\ SubSeq(s, 1, n) \in Seq(D)
      /\ Len(SubSeq(s, 1, n)) = IF 1 <= n THEN n - 1 + 1 ELSE 0
      /\ \A i \in 1..(n - 1 + 1) : SubSeq(s, 1, n)[i] = s[1 + i - 1]
  BY <1>1, SubSeqProperties
<1>3. Len(SubSeq(s, 1, n)) = n
  BY <1>1, <1>2
<1>4. \A i \in 1..n : SubSeq(s, 1, n)[i] = s[i]
  <2>1. \A i \in 1..n : i \in 1..(n - 1 + 1) /\ 1 + i - 1 = i
    BY <1>1
  <2> QED
    BY <1>2, <2>1
<1> QED
  BY <1>2, <1>3, <1>4 DEF n

\* on_element_end: the parent of the innermost element is the next one, and
\* what the stack's first k elements are does not change.
LEMMA StackPop ==
  ASSUME NEW ns, Len(ns) \in Nat, Len(ns) >= 1, NEW stack \in Seq(Tags), NEW top, NEW open,
         NEW k \in 0..(Len(stack) - 1), Len(stack) >= 1, StackIs(ns, stack, top, k, open)
  PROVE  /\ ns[top].type = "element" /\ ns[top].parent \in 1..Len(ns)
         /\ StackIs(ns, SubSeq(stack, 1, Len(stack) - 1), ns[top].parent, k, open)
<1> DEFINE K == Len(stack)
           rest == SubSeq(stack, 1, K - 1)
<1>1. PICK P \in [1..K -> 2..Len(ns)] :
        SpineOf(ns, stack, top, P) /\ open = StartsOf(ns, P, k)
  BY DEF StackIs
<1>2. K \in Nat /\ K \in 1..K /\ Len(rest) = K - 1 /\ \A i \in 1..(K - 1) : rest[i] = stack[i]
  <2>1. K \in Nat /\ K - 1 \in 0..K
    OBVIOUS
  <2>2. Len(rest) = K - 1 /\ \A i \in 1..(K - 1) : rest[i] = stack[i]
    BY FrontOf
  <2> QED
    BY <2>1, <2>2
<1> DEFINE Q == [i \in 1..(K - 1) |-> P[i]]
<1>3. Q \in [1..(K - 1) -> 2..Len(ns)] /\ \A i \in 1..(K - 1) : Q[i] = P[i] /\ i \in 1..K
  BY <1>2
<1> HIDE DEF Q, rest
<1>4. top = P[K] /\ ns[P[K]].type = "element"
      /\ ns[P[K]].parent = IF K = 1 THEN 1 ELSE P[K - 1]
  BY <1>1, <1>2 DEF SpineOf
<1>5. ns[top].parent \in 1..Len(ns)
  <2>1. CASE K = 1
    <3>1. ns[top].parent = 1
      BY <2>1, <1>4
    <3> QED
      BY <3>1
  <2>2. CASE K # 1
    <3>1. K - 1 \in 1..K
      BY <2>2, <1>2
    <3>2. P[K - 1] \in 2..Len(ns) /\ ns[top].parent = P[K - 1]
      BY <3>1, <2>2, <1>4
    <3> QED
      BY <3>2
  <2> QED
    BY <2>1, <2>2
<1>6. ns[top].parent = IF K - 1 = 0 THEN 1 ELSE Q[K - 1]
  <2>1. CASE K = 1
    BY <2>1, <1>4
  <2>2. CASE K # 1
    <3>1. K - 1 \in 1..(K - 1) /\ K - 1 # 0
      BY <2>2, <1>2
    <3>2. Q[K - 1] = P[K - 1]
      BY <3>1, <1>3
    <3> QED
      BY <3>1, <3>2, <2>2, <1>4
  <2> QED
    BY <2>1, <2>2
<1>7. ASSUME NEW i \in 1..(K - 1)
      PROVE  /\ ns[Q[i]].type = "element" /\ ns[Q[i]].linked /\ ns[Q[i]].tag = rest[i]
             /\ ns[Q[i]].parent = IF i = 1 THEN 1 ELSE Q[i - 1]
  <2>1. i \in 1..K /\ Q[i] = P[i] /\ rest[i] = stack[i]
    BY <1>2, <1>3
  <2>2. i # 1 => Q[i - 1] = P[i - 1]
    <3>1. i # 1 => i - 1 \in 1..(K - 1)
      BY <1>2
    <3> QED
      BY <3>1, <1>3
  <2>3. /\ ns[P[i]].type = "element" /\ ns[P[i]].linked /\ ns[P[i]].tag = stack[i]
        /\ ns[P[i]].parent = IF i = 1 THEN 1 ELSE P[i - 1]
    BY <2>1, <1>1 DEF SpineOf
  <2> QED
    BY <2>1, <2>2, <2>3
<1>8. \A i, j \in 1..(K - 1) : i < j => Q[i] < Q[j]
  BY <1>1, <1>3 DEF SpineOf
<1>9. SpineOf(ns, rest, ns[top].parent, Q)
  BY <1>2, <1>3, <1>6, <1>7, <1>8 DEF SpineOf
<1>10. StartsOf(ns, Q, k) = open
  <2>1. \A i \in 1..k : Q[i] = P[i]
    BY <1>2, <1>3
  <2> QED
    BY <2>1, <1>1 DEF StartsOf
<1> QED
  BY <1>2, <1>3, <1>4, <1>5, <1>9, <1>10 DEF StackIs, rest

\* What an end tag's name selects, of the start tags and of the stack.
Named(ts, open, tag) == {i \in open : ts[i].tag = tag}
Outside(open, named) == {i \in open : \E j \in named : i < j /\ \A k \in named : k <= j}

LEMMA StackUnmatched ==
  ASSUME NEW ns, TreeShape(ns), NEW ts, Placed(ns, ts), NEW stack, Len(stack) \in Nat,
         NEW top, NEW open, StackIs(ns, stack, top, Len(stack), open),
         NEW tag, \A i \in 1..Len(stack) : stack[i] # tag
  PROVE  Named(ts, open, tag) = {}
<1>1. PICK P \in [1..Len(stack) -> 2..Len(ns)] :
        SpineOf(ns, stack, top, P) /\ open = StartsOf(ns, P, Len(stack))
  BY DEF StackIs
<1>2. \A i \in 1..Len(stack) : ts[ns[P[i]].start].tag = stack[i]
  BY <1>1, SpineStarts
<1> QED
  BY <1>1, <1>2 DEF Named, StartsOf

\* An end tag keeps what is outside its innermost match m.
LEMMA StackMatched ==
  ASSUME NEW ns, TreeShape(ns), NEW ts, Placed(ns, ts), NEW stack, Len(stack) \in Nat,
         NEW top, NEW open, StackIs(ns, stack, top, Len(stack), open),
         NEW tag, NEW m \in 1..Len(stack), stack[m] = tag,
         \A i \in 1..Len(stack) : stack[i] = tag => i <= m
  PROVE  /\ Named(ts, open, tag) # {}
         /\ StackIs(ns, stack, top, m - 1, Outside(open, Named(ts, open, tag)))
<1> DEFINE K == Len(stack)
           named == Named(ts, open, tag)
<1>1. PICK P \in [1..K -> 2..Len(ns)] :
        SpineOf(ns, stack, top, P) /\ open = StartsOf(ns, P, K)
  BY DEF StackIs
<1> DEFINE x == [i \in 1..K |-> ns[P[i]].start]
<1>2. \A i \in 1..K : x[i] \in Nat /\ ts[x[i]].tag = stack[i]
  BY <1>1, SpineStarts
<1>3. \A i, j \in 1..K : i < j => x[i] < x[j]
  BY <1>1, SpineStarts
<1>4. open = {x[i] : i \in 1..K}
  BY <1>1 DEF StartsOf
<1>5. StartsOf(ns, P, m - 1) = {x[i] : i \in 1..(m - 1)}
  <2>1. \A i \in 1..(m - 1) : x[i] = ns[P[i]].start
    OBVIOUS
  <2> HIDE DEF x
  <2> QED
    BY <2>1 DEF StartsOf
<1> HIDE DEF x
<1>6. named = {x[i] : i \in {n \in 1..K : stack[n] = tag}}
  BY <1>2, <1>4 DEF Named
<1> HIDE DEF named
<1>7. x[m] \in named /\ \A y \in named : y <= x[m]
  <2>1. m \in {n \in 1..K : stack[n] = tag}
    OBVIOUS
  <2>2. ASSUME NEW i \in 1..K, stack[i] = tag PROVE x[i] <= x[m]
    <3>1. i < m \/ i = m
      BY <2>2
    <3> QED
      BY <3>1, <1>2, <1>3
  <2> QED
    BY <2>1, <2>2, <1>6
<1>8. ASSUME NEW i \in 1..K
      PROVE  (\E j \in named : x[i] < j /\ \A k \in named : k <= j) <=> i \in 1..(m - 1)
  <2>1. (\E j \in named : x[i] < j /\ \A k \in named : k <= j) <=> x[i] < x[m]
    <3>1. \A j \in named : (\A k \in named : k <= j) => j = x[m]
      <4>1. \A j \in named : j \in Nat
        BY <1>2, <1>6
      <4> QED
        BY <4>1, <1>2, <1>7
    <3> QED
      BY <3>1, <1>7
  <2>2. x[i] < x[m] <=> i < m
    <3>1. i < m \/ i = m \/ m < i
      OBVIOUS
    <3> QED
      BY <3>1, <1>2, <1>3
  <2> QED
    BY <2>1, <2>2
<1> HIDE DEF K
<1>9. Outside(open, named) = {x[i] : i \in 1..(m - 1)}
  <2>1. \A i \in 1..(m - 1) : i \in 1..K
    BY DEF K
  <2> QED
    BY <2>1, <1>4, <1>8 DEF Outside
<1> QED
  BY <1>1, <1>5, <1>7, <1>9 DEF StackIs, named, K

-----------------------------------------------------------------------------
(* New nodes *)

LEMMA NewNodeFresh ==
  ASSUME NEW type \in {"element", "text", "comment"}, NEW tag \in AllTags,
         NEW a \in Nat, NEW b \in Nat
  PROVE  LET n == InitNode(type, tag, a, b)
         IN  Fresh(n) /\ NodeBlocks(n) = 2 /\ n.type = type /\ n.tag = tag
             /\ n.start = a /\ n.end = b
<1> DEFINE n == InitNode(type, tag, a, b)
<1>1. n.type = type /\ n.tag = tag /\ n.start = a /\ n.end = b
      /\ n.linked = (type = "root") /\ n.parent = NoNode /\ n.next = NoNode /\ n.head = NoNode
      /\ n.tail = NoNode /\ n.count = 0 /\ n.attrs = 0 /\ n.directives = FALSE
  BY DEF InitNode
<1>2. n \in Node(AllTags)
  BY DEF InitNode, Node, NodeTypes, NoNode
<1> HIDE DEF n
<1>3. NodeBlocks(n) = 2
  BY <1>1 DEF NodeBlocks
<1> QED
  BY <1>1, <1>2, <1>3 DEF Fresh, n

\* A new node under parent, where its token is.
LEMMA RepNew ==
  ASSUME NEW ns, NEW ts, NEW bl, RepInv(ns, ts, bl), AllLinked(ns),
         NEW n, Fresh(n), NodeBlocks(n) = 2,
         1 <= n.start, n.start <= n.end, n.end <= Len(ts),
         \A c \in 1..Len(ns) : ns[c].end < n.start,
         n.type = "element" => n.tag \in Tags /\ ts[n.start].tag = n.tag,
         NEW parent \in 1..Len(ns), ns[parent].linked,
         ns[parent].type \in {"root", "element"},
         ns[parent].start = Innermost(OpenAfter(ts)[n.start - 1])
  PROVE  LET ms == AppendNew(ns, parent, n)
         IN  /\ RepInv(ms, ts, bl + 2) /\ AllLinked(ms) /\ Grown(ns, ms)
             /\ Len(ms) = Len(ns) + 1
             /\ ms[Len(ms)].start = n.start /\ ms[Len(ms)].end = n.end
<1> DEFINE ls == Append(ns, n)
           ms == AppendChild(ls, parent, Len(ls))
<1>1. ns \in Seq(Node(AllTags)) /\ Len(ns) \in Nat /\ Len(ns) >= 1
  BY DEF RepInv, TreeShape, RootFirst
<1>2. /\ RepInv(ls, ts, bl + 2) /\ Grown(ns, ls) /\ Len(ls) = Len(ns) + 1
      /\ ls[Len(ls)] = n /\ \A c \in 1..Len(ns) : ls[c] = ns[c]
  BY RepAppend
<1>3. AppendNew(ns, parent, n) = ms
  BY <1>2 DEF AppendNew
<1> HIDE DEF ls
<1>4. /\ Len(ls) >= 2 /\ ~ls[Len(ls)].linked /\ parent \in 1..Len(ls)
      /\ ls[parent].linked /\ ls[parent].type \in {"root", "element"}
      /\ ls[parent].start = Innermost(OpenAfter(ts)[ls[Len(ls)].start - 1])
  BY <1>1, <1>2 DEF Fresh
<1>5. /\ RepInv(ms, ts, bl + 2) /\ AllLinked(ms) /\ Grown(ls, ms) /\ Len(ms) = Len(ls)
  BY <1>2, <1>4, RepLink
<1> HIDE DEF ms
<1>6. Grown(ns, ms)
  <2>1. \A c \in 1..Len(ns) : c \in 1..Len(ls)
    BY <1>1, <1>2
  <2> QED
    BY <2>1, <1>1, <1>2, <1>5 DEF Grown
<1>7. ms[Len(ms)].start = n.start /\ ms[Len(ms)].end = n.end
  <2>1. Len(ms) \in 1..Len(ls)
    BY <1>1, <1>2, <1>5
  <2> QED
    BY <2>1, <1>2, <1>5 DEF Grown
<1> QED
  BY <1>2, <1>3, <1>5, <1>6, <1>7

\* What the nodes cover, when one more node is there, or none.
LEMMA CoveredMore ==
  ASSUME NEW ns, NEW ms, Grown(ns, ms), Len(ns) \in Nat, Len(ms) = Len(ns) + 1, NEW i
  PROVE  Covered(ms, i) <=> \/ Covered(ns, i)
                            \/ Covers(ms[Len(ms)].start, ms[Len(ms)].end, i)
<1>1. \A c \in 1..Len(ns) : c \in 1..Len(ms) /\ ms[c].start = ns[c].start
                            /\ ms[c].end = ns[c].end
  BY DEF Grown
<1>2. \A c \in 1..Len(ms) : c \in 1..Len(ns) \/ c = Len(ms)
  OBVIOUS
<1>3. Len(ms) \in 1..Len(ms)
  OBVIOUS
<1> QED
  BY <1>1, <1>2, <1>3 DEF Covered

LEMMA CoveredSame ==
  ASSUME NEW ns, NEW ms, Grown(ns, ms), Len(ns) \in Nat, Len(ms) = Len(ns), NEW i
  PROVE  Covered(ms, i) <=> Covered(ns, i)
  BY DEF Grown, Covered

\* One more token.
LEMMA CoveredNext ==
  ASSUME NEW ns, NEW ms, NEW ts, NEW us, NEW text, NEW new, AllCovered(ns, ts, text),
         Len(ts) \in Nat, Len(us) = Len(ts) + 1, \A i \in 1..Len(ts) : us[i] = ts[i],
         \A i \in 1..Len(ts) : Covered(ms, i) \/ Covers(new[1], new[2], i)
                               <=> Covered(ns, i) \/ Covers(text[1], text[2], i),
         us[Len(us)].kind \in {"text", "comment", "open"}
            <=> Covered(ms, Len(us)) \/ Covers(new[1], new[2], Len(us))
  PROVE  AllCovered(ms, us, new)
<1>1. \A i \in 1..Len(us) : i \in 1..Len(ts) \/ i = Len(us)
  OBVIOUS
<1> QED
  BY <1>1 DEF AllCovered

-----------------------------------------------------------------------------
(* The call *)

Running == {"token", "attrs", "push", "closing"}

LEMMA RepFacts ==
  ASSUME NEW ns, NEW ts, NEW bl, RepInv(ns, ts, bl)
  PROVE  /\ ns \in Seq(Node(AllTags)) /\ Len(ns) \in Nat /\ Len(ns) >= 1 /\ ns # <<>>
         /\ bl \in Nat /\ TreeShape(ns) /\ Placed(ns, ts)
<1>1. TreeShape(ns) /\ Placed(ns, ts) /\ bl = Total(ns)
  BY DEF RepInv
<1>2. ns \in Seq(Node(AllTags)) /\ Len(ns) \in Nat /\ Len(ns) >= 1 /\ ns # <<>>
  BY <1>1 DEF TreeShape, RootFirst
<1>3. \E f : Sums(ns, f) /\ Total(ns) = f[Len(ns)]
  BY <1>2, TotalSums
<1>4. Total(ns) \in Nat
  BY <1>2, <1>3 DEF Sums
<1> QED
  BY <1>1, <1>2, <1>4

LEMMA RunFacts ==
  ASSUME CompileInv, pc \in Running
  PROVE  /\ RepInv(nodes, tokens, blocks) /\ RunInv /\ TextInv
         /\ nodes \in Seq(Node(AllTags)) /\ Len(nodes) \in Nat /\ Len(nodes) >= 1
         /\ TreeShape(nodes) /\ Placed(nodes, tokens)
         /\ failure = "none" /\ structured_failure = FALSE
         /\ result \in Results /\ result \notin {"ir", "error_value"}
         /\ tokens \in Seq(Tokens) /\ Len(tokens) \in Nat /\ Len(tokens) <= MaxTokens
         /\ MaxTokens \in Nat
         /\ open_element \in Seq(Tags) /\ Len(open_element) \in Nat
         /\ closing \in 0..Len(open_element)
         /\ current_parent \in 0..Len(nodes) /\ pending_element \in 0..Len(nodes)
         /\ pending_text \in (0..MaxTokens) \X (0..MaxTokens)
<1>1. RunInv /\ failure = "none" /\ TypeOK /\ Len(tokens) <= MaxTokens
  BY DEF CompileInv, Running
<1>2. nodes # <<>>
  BY <1>1 DEF RunInv
<1>3. RepInv(nodes, tokens, blocks)
  BY <1>2 DEF CompileInv
<1>4. structured_failure = FALSE
  BY <1>1 DEF CompileInv, TypeOK
<1>5. TextInv /\ result \notin {"ir", "error_value"}
  BY <1>1 DEF CompileInv, Running
<1> QED
  BY <1>1, <1>3, <1>4, <1>5, RepFacts, CompileAssumption DEF TypeOK

\* The element that new nodes are added to, and the start tags around it.
LEMMA ParentFacts ==
  ASSUME CompileInv, pc \in {"token", "attrs", "push"}
  PROVE  /\ current_parent \in 1..Len(nodes) /\ nodes[current_parent].linked
         /\ nodes[current_parent].type \in {"root", "element"}
         /\ nodes[current_parent].start = Innermost(OpenAfter(tokens)[Counted])
         /\ Len(Stack) > 0 => nodes[current_parent].tag \in Tags
         /\ StackIs(nodes, Stack, current_parent, Len(Stack), OpenAfter(tokens)[Counted])
         /\ Len(Stack) \in Nat /\ closing = 0
<1>1. TreeShape(nodes) /\ Placed(nodes, tokens) /\ RunInv /\ Len(nodes) \in Nat
      /\ open_element \in Seq(Tags)
  BY RunFacts DEF Running
<1>2. closing = 0
  BY <1>1 DEF RunInv
<1>3. Len(Stack) \in Nat
  BY <1>1 DEF Stack
<1>4. Len(Stack) - closing = Len(Stack)
  BY <1>2, <1>3
<1>5. StackIs(nodes, Stack, current_parent, Len(Stack), OpenAfter(tokens)[Counted])
  BY <1>1, <1>4 DEF RunInv
<1> QED
  BY <1>1, <1>2, <1>3, <1>5, StackTop

\* A token is read.
LEMMA ReadFacts ==
  ASSUME CompileInv, NEW kind \in Kinds, NEW tag \in AllTags, Read(kind, tag)
  PROVE  /\ pc \in Running /\ pc = "token"
         /\ tokens' \in Seq(Tokens) /\ Len(tokens') = Len(tokens) + 1
         /\ Len(tokens') \in Nat /\ Len(tokens') <= MaxTokens
         /\ tokens'[Len(tokens')] = [kind |-> kind, tag |-> tag]
         /\ \A i \in 1..Len(tokens) : tokens'[i] = tokens[i]
         /\ RepInv(nodes, tokens', blocks)
         /\ \A n \in 0..Len(tokens) : OpenAfter(tokens')[n] = OpenAfter(tokens)[n]
         /\ OpenAfter(tokens')[Len(tokens')]
               = OpenStep(tokens', Len(tokens'), OpenAfter(tokens)[Len(tokens)])
         /\ result' = result
<1> DEFINE t == [kind |-> kind, tag |-> tag]
<1>1. pc = "token" /\ Len(tokens) < MaxTokens /\ tokens' = Append(tokens, t)
      /\ result' = result
  BY DEF Read
<1>2. t \in Tokens
  BY DEF Tokens, AllTags
<1> HIDE DEF t
<1>3. pc \in Running /\ tokens \in Seq(Tokens) /\ Len(tokens) \in Nat /\ MaxTokens \in Nat
      /\ RepInv(nodes, tokens, blocks)
  BY <1>1, RunFacts DEF Running
<1>4. Len(tokens) + 1 <= MaxTokens
  BY <1>1, <1>3
<1>5. /\ \A n \in 0..Len(tokens) : OpenAfter(tokens')[n] = OpenAfter(tokens)[n]
      /\ OpenAfter(tokens')[Len(tokens) + 1]
            = OpenStep(tokens', Len(tokens) + 1, OpenAfter(tokens)[Len(tokens)])
  BY <1>1, <1>2, <1>3, <1>4, OpenAppend
<1>6. RepInv(nodes, tokens', blocks)
  BY <1>1, <1>2, <1>3, <1>4, RepToken
<1>7. /\ tokens' \in Seq(Tokens) /\ Len(tokens') = Len(tokens) + 1
      /\ tokens'[Len(tokens')] = t /\ \A i \in 1..Len(tokens) : tokens'[i] = tokens[i]
  BY <1>1, <1>2, <1>3
<1> QED
  BY <1>1, <1>3, <1>4, <1>5, <1>6, <1>7 DEF t

\* html_flush_text, whichever tokens have been read since.
LEMMA FlushFacts ==
  ASSUME CompileInv, pc = "token", NEW ts, RepInv(nodes, ts, blocks),
         Len(ts) \in Nat, Len(tokens) <= Len(ts),
         \A n \in 0..Len(tokens) : OpenAfter(ts)[n] = OpenAfter(tokens)[n]
  PROVE  /\ RepInv(Flushed, ts, FlushedBlocks) /\ AllLinked(Flushed) /\ Grown(nodes, Flushed)
         /\ Len(Flushed) \in Nat /\ Len(nodes) <= Len(Flushed)
         /\ \A c \in 1..Len(Flushed) : Flushed[c].end <= Len(tokens)
         /\ \A i \in 1..Len(tokens) :
              Covered(Flushed, i)
                <=> Covered(nodes, i) \/ Covers(pending_text[1], pending_text[2], i)
         /\ \A c \in 1..Len(nodes) : c \in 1..Len(Flushed)
<1>1. /\ TreeShape(nodes) /\ Placed(nodes, tokens) /\ RunInv /\ TextInv
      /\ nodes \in Seq(Node(AllTags)) /\ Len(nodes) \in Nat /\ Len(nodes) >= 1
      /\ tokens \in Seq(Tokens) /\ Len(tokens) \in Nat
      /\ pending_text \in (0..MaxTokens) \X (0..MaxTokens)
      /\ MaxTokens \in Nat /\ RepInv(nodes, tokens, blocks)
  BY RunFacts DEF Running
<1>2. AllLinked(nodes)
  BY <1>1 DEF RunInv
<1>3. \A c \in 1..Len(nodes) : nodes[c].end <= Len(tokens)
  <2> SUFFICES ASSUME NEW c \in 1..Len(nodes) PROVE nodes[c].end <= Len(tokens)
    OBVIOUS
  <2>1. CASE c = 1
    BY <2>1, <1>1 DEF TreeShape, RootFirst
  <2>2. CASE c # 1
    BY <2>2, <1>1 DEF Placed
  <2> QED
    BY <2>1, <2>2
<1>4. CASE pending_text = NoText
  <2>1. Flushed = nodes /\ FlushedBlocks = blocks
    BY <1>4 DEF Flushed, FlushedBlocks
  <2>2. Grown(nodes, nodes)
    BY <1>1 DEF Grown
  <2>3. \A i \in 1..Len(tokens) : ~Covers(pending_text[1], pending_text[2], i)
    BY <1>4, <1>1 DEF NoText, Covers
  <2> QED
    BY <2>1, <2>2, <2>3, <1>1, <1>2, <1>3
<1>5. CASE pending_text # NoText
  <2> DEFINE a == pending_text[1]
             b == pending_text[2]
             n == InitNode("text", NoTag, a, b)
             ms == AppendNew(nodes, current_parent, n)
  <2>1. Flushed = ms /\ FlushedBlocks = blocks + 2
    BY <1>5 DEF Flushed, FlushedBlocks
  <2>2. /\ a \in Nat /\ b \in Nat /\ 1 <= a /\ a <= b /\ b <= Len(tokens)
        /\ \A c \in 1..Len(nodes) : nodes[c].end < a
        /\ OpenAfter(tokens)[a - 1] = OpenAfter(tokens)[Len(tokens)]
    BY <1>1, <1>5 DEF TextInv, PendingText
  <2>3. Fresh(n) /\ NodeBlocks(n) = 2 /\ n.type = "text" /\ n.start = a /\ n.end = b
    <3>1. NoTag \in AllTags
      BY DEF AllTags
    <3> QED
      BY <3>1, <2>2, NewNodeFresh
  <2>4. /\ current_parent \in 1..Len(nodes) /\ nodes[current_parent].linked
        /\ nodes[current_parent].type \in {"root", "element"}
        /\ nodes[current_parent].start = Innermost(OpenAfter(tokens)[Len(tokens)])
    BY ParentFacts DEF Counted
  <2> HIDE DEF a, b
  <2>5. OpenAfter(ts)[a - 1] = OpenAfter(tokens)[Len(tokens)]
    <3>1. a - 1 \in 0..Len(tokens)
      BY <2>2, <1>1
    <3> QED
      BY <3>1, <2>2
  <2> HIDE DEF n, ms
  <2>6. /\ RepInv(ms, ts, blocks + 2) /\ AllLinked(ms) /\ Grown(nodes, ms)
        /\ Len(ms) = Len(nodes) + 1
        /\ ms[Len(ms)].start = a /\ ms[Len(ms)].end = b
    <3>1. 1 <= n.start /\ n.start <= n.end /\ n.end <= Len(ts)
          /\ \A c \in 1..Len(nodes) : nodes[c].end < n.start
      BY <2>2, <2>3, <1>1
    <3>2. nodes[current_parent].start = Innermost(OpenAfter(ts)[n.start - 1])
      BY <2>3, <2>4, <2>5
    <3>3. n.type = "element" => n.tag \in Tags /\ ts[n.start].tag = n.tag
      BY <2>3
    <3> QED
      BY <3>1, <3>2, <3>3, <2>3, <2>4, <1>2, RepNew DEF ms
  <2>7. ASSUME NEW c \in 1..Len(ms) PROVE ms[c].end <= Len(tokens)
    <3>1. CASE c = Len(ms)
      BY <3>1, <2>2, <2>6
    <3>2. CASE c # Len(ms)
      <4>1. c \in 1..Len(nodes)
        BY <3>2, <2>6, <1>1
      <4> QED
        BY <4>1, <2>6, <1>3 DEF Grown
    <3> QED
      BY <3>1, <3>2
  <2>8. \A i : Covered(ms, i) <=> Covered(nodes, i) \/ Covers(a, b, i)
    BY <2>6, <1>1, CoveredMore
  <2> QED
    BY <2>1, <2>6, <2>7, <2>8, <1>1 DEF a, b
<1> QED
  BY <1>4, <1>5

-----------------------------------------------------------------------------
(* Constructors that fail *)

Constructors == {SetSource, NewRoot, NewElement, NewText, NewComment, AppendAttr, SetData}

\* They release every earlier block, whichever is refused.
LEMMA AllReleased ==
  ASSUME NEW c \in Constructors, NEW n \in DOMAIN c
  PROVE  n \in Nat /\ c[n] = 1..(n - 1)
<1>1. CASE c \in {NewRoot, SetData}
  <2>1. DOMAIN c = 1..1 /\ c[1] = {}
    BY <1>1 DEF NewRoot, SetData
  <2> QED
    BY <2>1
<1>2. CASE c \in {SetSource, NewElement, NewText, NewComment}
  <2>1. DOMAIN c = 1..2 /\ c[1] = {} /\ c[2] = {1}
    BY <1>2 DEF SetSource, NewElement, NewText, NewComment
  <2>2. n = 1 \/ n = 2
    BY <2>1
  <2>3. 1..(1 - 1) = {} /\ 1..(2 - 1) = {1}
    OBVIOUS
  <2>4. CASE n = 1
    BY <2>1, <2>3, <2>4
  <2>5. CASE n = 2
    BY <2>1, <2>3, <2>5
  <2> QED
    BY <2>2, <2>4, <2>5
<1>3. CASE c = AppendAttr
  <2>1. DOMAIN c = 1..3 /\ c[1] = {} /\ c[2] = {1} /\ c[3] = {1, 2}
    BY <1>3 DEF AppendAttr
  <2>2. n = 1 \/ n = 2 \/ n = 3
    BY <2>1
  <2>3. 1..(1 - 1) = {} /\ 1..(2 - 1) = {1} /\ 1..(3 - 1) = {1, 2}
    OBVIOUS
  <2>4. CASE n = 1
    BY <2>1, <2>3, <2>4
  <2>5. CASE n = 2
    BY <2>1, <2>3, <2>5
  <2>6. CASE n = 3
    BY <2>1, <2>3, <2>6
  <2> QED
    BY <2>2, <2>4, <2>5, <2>6
<1> QED
  BY <1>1, <1>2, <1>3 DEF Constructors

\* The code leaves nothing behind; the pool does on some versions of Lua.
LEMMA NothingLeft ==
  ASSUME NEW c \in Constructors, NEW f \in FailuresOf(c)
  PROVE  /\ f.left = 0 /\ f.stuck \in Nat
         /\ f.stuck # 0 => NilKeyAllocates \/ CallsRaise
<1>1. PICK n \in DOMAIN c : f \in Refusals(c, n)
  BY DEF FailuresOf
<1>2. n \in Nat /\ c[n] = 1..(n - 1)
  BY <1>1, AllReleased
<1>3. /\ (1..(n - 1)) \ c[n] = {} /\ IsFiniteSet(c[n])
  BY <1>2, FS_Interval
<1>4. Cardinality({}) = 0
  BY FS_EmptySet
<1> DEFINE Kept == IF NilKeyAllocates THEN {0, 1} ELSE {0}
           Freed == IF CallsRaise THEN SUBSET c[n] ELSE {c[n]}
           Raised == IF CallsRaise THEN BOOLEAN ELSE {FALSE}
           F(k, d, r) == [left |-> Cardinality((1..(n - 1)) \ c[n]),
                          stuck |-> k + Cardinality(c[n] \ d), raised |-> r]
<1>4a. Refusals(c, n) = {F(kept, freed, raised) : kept \in Kept, freed \in Freed,
                                                 raised \in Raised}
  BY DEF Refusals
<1> HIDE DEF F, Kept, Freed, Raised
<1>5. PICK kept \in Kept, freed \in Freed, raised \in Raised : f = F(kept, freed, raised)
  BY <1>1, <1>4a
<1>6. f.left = Cardinality((1..(n - 1)) \ c[n]) /\ f.stuck = kept + Cardinality(c[n] \ freed)
  BY <1>5 DEF F
<1>7. Cardinality(c[n] \ freed) \in Nat
  <2>1. IsFiniteSet(c[n] \ freed)
    BY <1>3, FS_Subset
  <2> QED
    BY <2>1, FS_CardinalityType
<1>8. ~CallsRaise => Cardinality(c[n] \ freed) = 0
  <2> SUFFICES ASSUME ~CallsRaise PROVE c[n] \ freed = {}
    BY <1>4
  <2> QED
    BY DEF Freed
<1>9. kept \in Nat /\ (~NilKeyAllocates => kept = 0)
  BY DEF Kept
<1>10. f.left = 0
  BY <1>3, <1>4, <1>6
<1> QED
  BY <1>6, <1>7, <1>8, <1>9, <1>10

\* A handler whose constructor fails.
LEMMA Built ==
  ASSUME NEW c \in Constructors, NEW before \in Nat, BuildFails(c, before)
  PROVE  blocks' = before /\ Raise
<1>1. PICK f \in FailuresOf(c) : Lose(f, before) /\ Raise
  BY DEF BuildFails
<1>2. f.left = 0
  BY NothingLeft
<1> QED
  BY <1>1, <1>2 DEF Lose

-----------------------------------------------------------------------------
(* What the pool keeps *)

\* Nothing before the compile fails, and then only on some versions of Lua.
StuckInv ==
    /\ stuck \in Nat
    /\ stuck # 0 => /\ NilKeyAllocates \/ CallsRaise
                    /\ \/ pc = "return" /\ failure # "none"
                       \/ pc = "done" /\ result # "ir"

LEMMA StuckBuilt ==
  ASSUME StuckInv, NEW c \in Constructors, NEW before, BuildFails(c, before)
  PROVE  StuckInv'
<1>1. PICK f \in FailuresOf(c) : Lose(f, before) /\ Raise
  BY DEF BuildFails
<1>2. f.stuck \in Nat /\ (f.stuck # 0 => NilKeyAllocates \/ CallsRaise)
  BY NothingLeft
<1>3. stuck' = stuck + f.stuck /\ pc' = "return" /\ failure' # "none"
  BY <1>1 DEF Lose, Raise
<1> QED
  BY <1>2, <1>3 DEF StuckInv

LEMMA StuckPrepared ==
  ASSUME StuckInv, NEW c \in Constructors, NEW before, PrepareFails(c, before)
  PROVE  StuckInv'
<1>1. PICK f \in FailuresOf(c) : Lose(f, before) /\ ReturnError
  BY DEF PrepareFails
<1>2. f.stuck \in Nat /\ (f.stuck # 0 => NilKeyAllocates \/ CallsRaise)
  BY NothingLeft
<1>3. stuck' = stuck + f.stuck /\ pc' = "done" /\ result' # "ir"
  BY <1>1 DEF Lose, ReturnError
<1> QED
  BY <1>2, <1>3 DEF StuckInv

\* A step that touches no constructor.
LEMMA StuckUnchanged ==
  ASSUME StuckInv, stuck' = stuck, pc # "return", pc # "done"
  PROVE  StuckInv'
  BY DEF StuckInv

LEMMA StuckStep == StuckInv /\ [Next]_vars => StuckInv'
<1> SUFFICES ASSUME StuckInv, [Next]_vars PROVE StuckInv'
  OBVIOUS
<1>1. {SetSource, NewRoot, NewElement, NewText, NewComment, AppendAttr, SetData}
        \subseteq Constructors
  BY DEF Constructors
<1>2. FlushFails => StuckInv'
  BY <1>1, StuckBuilt DEF FlushFails
<1>3. CASE Prepare
  <2>1. PrepareFails(SetSource, 0) \/ PrepareFails(NewRoot, SourceBlocks) => StuckInv'
    BY <1>1, StuckPrepared
  <2>2. stuck' = stuck /\ pc = "call" => StuckInv'
    BY StuckUnchanged
  <2> QED
    BY <1>3, <2>1, <2>2 DEF Prepare, Continue
<1>4. CASE Text
  BY <1>2, <1>4, StuckUnchanged DEF Text, Read, Continue
<1>5. CASE Dropped
  BY <1>5, StuckUnchanged DEF Dropped, Read, Continue
<1>6. CASE Comment
  <2>1. BuildFails(NewComment, FlushedBlocks) => StuckInv'
    BY <1>1, StuckBuilt
  <2> QED
    BY <1>2, <1>6, <2>1, StuckUnchanged DEF Comment, Read, Continue
<1>7. CASE Other
  BY <1>2, <1>7, StuckUnchanged DEF Other, FlushOnly, Read, Continue
<1>8. CASE \E tag \in Tags : Close(tag)
  BY <1>2, <1>8, StuckUnchanged DEF Close, FlushOnly, Read, Continue
<1>9. CASE CloseOne
  BY <1>9, StuckUnchanged DEF CloseOne, Continue, Abort
<1>10. CASE \E tag \in Tags : Open(tag)
  <2>1. BuildFails(NewElement, FlushedBlocks) => StuckInv'
    BY <1>1, StuckBuilt
  <2> QED
    BY <1>2, <1>10, <2>1, StuckUnchanged DEF Open, Read, Continue
<1>11. CASE PlainAttribute
  <2>1. BuildFails(AppendAttr, blocks) => StuckInv'
    BY <1>1, StuckBuilt
  <2> QED
    BY <1>11, <2>1, StuckUnchanged DEF PlainAttribute, Continue
<1>12. CASE Directive
  <2>1. BuildFails(SetData, blocks) => StuckInv'
    BY <1>1, StuckBuilt
  <2> QED
    BY <1>12, <2>1, StuckUnchanged DEF Directive, Continue
<1>13. CASE StartTagEnd
  BY <1>13, StuckUnchanged DEF StartTagEnd, Continue
<1>14. CASE PushOpen
  BY <1>14, StuckUnchanged DEF PushOpen, Continue, Abort
<1>15. CASE EndOfInput
  BY <1>2, <1>15, StuckUnchanged DEF EndOfInput, Continue
<1>16. CASE TokenizerFails
  BY <1>16, StuckUnchanged DEF TokenizerFails, Abort
<1>17. CASE Return
  BY <1>17 DEF Return, ReturnError, StuckInv
<1>18. CASE UNCHANGED vars
  BY <1>18 DEF vars, StuckInv
<1> QED
  BY <1>3, <1>4, <1>5, <1>6, <1>7, <1>8, <1>9, <1>10, <1>11, <1>12, <1>13, <1>14, <1>15,
     <1>16, <1>17, <1>18 DEF Next, Returned

-----------------------------------------------------------------------------
(* The ways in which a step ends *)

\* Something has failed: the call is about to return.
LEMMA Failing ==
  ASSUME CompileInv, stuck' \in Nat, pc \in Running, pc' = "return",
         failure' \in {"object", "lua_error", "status"},
         structured_failure' = (failure' = "object"), result' = result,
         RepInv(nodes', tokens', blocks'), tokens' \in Seq(Tokens), Len(tokens') <= MaxTokens,
         current_parent' \in 0..Len(nodes'), pending_element' \in 0..Len(nodes'),
         open_element' \in Seq(Tags), closing' \in 0..Len(open_element'),
         pending_text' \in (0..MaxTokens) \X (0..MaxTokens)
  PROVE  CompileInv'
<1>1. nodes' \in Seq(Node(AllTags)) /\ nodes' # <<>> /\ blocks' \in Nat
  BY RepFacts
<1>2. result \in Results /\ result \notin {"ir", "error_value"}
  BY RunFacts
<1>3. TypeOK'
  BY <1>1, <1>2 DEF TypeOK, Failures, AllTags
<1> QED
  BY <1>1, <1>2, <1>3 DEF CompileInv, Running

\* The call goes on.
LEMMA Going ==
  ASSUME CompileInv, stuck' \in Nat, pc \in Running, pc' \in Running,
         UNCHANGED <<failure, structured_failure, result>>,
         RepInv(nodes', tokens', blocks'), tokens' \in Seq(Tokens), Len(tokens') <= MaxTokens,
         current_parent' \in 0..Len(nodes'), pending_element' \in 0..Len(nodes'),
         open_element' \in Seq(Tags), closing' \in 0..Len(open_element'),
         pending_text' \in (0..MaxTokens) \X (0..MaxTokens),
         RunInv', PendingText(nodes', tokens', pending_text'),
         AllCovered(nodes', tokens', pending_text')
  PROVE  CompileInv'
<1>1. nodes' \in Seq(Node(AllTags)) /\ nodes' # <<>> /\ blocks' \in Nat
  BY RepFacts
<1>2. result \in Results /\ result \notin {"ir", "error_value"} /\ failure = "none"
      /\ structured_failure = FALSE
  BY RunFacts
<1>3. TypeOK'
  BY <1>1, <1>2 DEF TypeOK, Failures, AllTags, Running
<1>4. TextInv'
  BY DEF TextInv
<1> QED
  BY <1>1, <1>2, <1>3, <1>4 DEF CompileInv, Running

\* A token that opens and closes nothing.
LEMMA TokenDone ==
  ASSUME CompileInv, stuck' \in Nat, pc = "token", pc' = "token",
         UNCHANGED <<failure, structured_failure, result, handlerVars, open_element, closing>>,
         RepInv(nodes', tokens', blocks'), tokens' \in Seq(Tokens), Len(tokens') <= MaxTokens,
         AllLinked(nodes'), Grown(nodes, nodes'),
         OpenAfter(tokens')[Len(tokens')] = OpenAfter(tokens)[Len(tokens)],
         pending_text' \in (0..MaxTokens) \X (0..MaxTokens),
         PendingText(nodes', tokens', pending_text'),
         AllCovered(nodes', tokens', pending_text')
  PROVE  CompileInv'
<1>1. /\ RunInv /\ open_element \in Seq(Tags) /\ Len(open_element) \in Nat
      /\ closing \in 0..Len(open_element) /\ Len(nodes) \in Nat
  BY RunFacts DEF Running
<1>2. StackIs(nodes, open_element, current_parent, Len(open_element), OpenAfter(tokens)[Len(tokens)])
      /\ current_parent \in 1..Len(nodes) /\ closing = 0 /\ pending_element = NoNode
  BY ParentFacts, <1>1 DEF Stack, Counted, RunInv
<1>3. Len(nodes') \in Nat /\ nodes' # <<>>
  BY RepFacts
<1>4. StackIs(nodes', open_element, current_parent, Len(open_element),
              OpenAfter(tokens)[Len(tokens)])
  <2>1. Len(open_element) \in 0..Len(open_element)
    BY <1>1
  <2> QED
    BY <2>1, <1>1, <1>2, <1>3, StackGrown
<1>5. Stack' = open_element /\ Counted' = Len(tokens')
  BY DEF Stack, Counted
<1>6. current_parent' = current_parent /\ pending_element' = pending_element
      /\ closing' = closing /\ open_element' = open_element
  BY DEF handlerVars
<1>7. Len(Stack') - closing' = Len(open_element)
  BY <1>1, <1>2, <1>5, <1>6
<1>8. RunInv'
  BY <1>2, <1>3, <1>4, <1>5, <1>6, <1>7 DEF RunInv
<1>9. current_parent' \in 0..Len(nodes') /\ pending_element' \in 0..Len(nodes')
  BY <1>1, <1>2, <1>3, <1>6 DEF Grown, NoNode
<1> QED
  BY <1>1, <1>6, <1>8, <1>9, Going DEF Running

\* html_flush_text fails.
LEMMA FlushFailing ==
  ASSUME CompileInv, stuck' \in Nat, pc = "token", FlushFails, result' = result,
         RepInv(nodes, tokens', blocks), tokens' \in Seq(Tokens), Len(tokens') <= MaxTokens
  PROVE  CompileInv'
<1>1. /\ blocks' = blocks /\ nodes' = nodes /\ UNCHANGED <<handlerVars, parserVars>>
      /\ pc' = "return" /\ failure' \in {"object", "lua_error"}
      /\ structured_failure' = (failure' = "object")
  <2>1. blocks \in Nat /\ NewText \in Constructors
    BY RepFacts DEF Constructors
  <2>2. BuildFails(NewText, blocks) /\ UNCHANGED <<nodes, handlerVars, parserVars>>
    BY DEF FlushFails
  <2>3. blocks' = blocks /\ Raise
    BY <2>1, <2>2, Built
  <2> QED
    BY <2>2, <2>3 DEF Raise
<1>2. /\ open_element \in Seq(Tags) /\ closing \in 0..Len(open_element)
      /\ current_parent \in 0..Len(nodes) /\ pending_element \in 0..Len(nodes)
      /\ pending_text \in (0..MaxTokens) \X (0..MaxTokens)
  BY RunFacts DEF Running
<1> QED
  BY <1>1, <1>2, Failing DEF Running, handlerVars, parserVars

\* The text is flushed, and then the handler raises.
LEMMA FlushedThenRaised ==
  ASSUME CompileInv, stuck' \in Nat, pc = "token", Raise, result' = result,
         UNCHANGED <<handlerVars, open_element, closing>>, pending_text' = NoText,
         nodes' = Flushed, blocks' = FlushedBlocks,
         RepInv(Flushed, tokens', FlushedBlocks), Len(nodes) <= Len(Flushed),
         tokens' \in Seq(Tokens), Len(tokens') <= MaxTokens
  PROVE  CompileInv'
<1>1. FlushedBlocks \in Nat /\ Len(Flushed) \in Nat
  BY RepFacts
<1>3. /\ open_element \in Seq(Tags) /\ closing \in 0..Len(open_element) /\ Len(nodes) \in Nat
      /\ current_parent \in 0..Len(nodes) /\ pending_element \in 0..Len(nodes)
      /\ MaxTokens \in Nat
  BY RunFacts DEF Running
<1>4. current_parent' \in 0..Len(nodes') /\ pending_element' \in 0..Len(nodes')
  BY <1>1, <1>3 DEF handlerVars
<1>5. NoText \in (0..MaxTokens) \X (0..MaxTokens)
  BY <1>3 DEF NoText
<1> QED
  BY <1>3, <1>4, <1>5, Failing DEF Running, Raise

-----------------------------------------------------------------------------
(* The steps *)

LEMMA StepNeutral ==
  ASSUME NEW ts, NEW n, NEW x, ts[n].kind \notin {"open", "close"}
  PROVE  OpenStep(ts, n, x) = x
  BY DEF OpenStep

\* Nothing is pending after the flush, and the token itself is in no node.
LEMMA FlushOnlyStep ==
  ASSUME CompileInv, stuck' \in Nat, NEW kind \in {"other", "close"}, NEW tag \in AllTags, Read(kind, tag),
         FlushOnly,
         OpenAfter(tokens')[Len(tokens')] = OpenAfter(tokens)[Len(tokens)]
  PROVE  CompileInv'
<1>1. /\ pc = "token" /\ tokens' \in Seq(Tokens) /\ Len(tokens') = Len(tokens) + 1
      /\ Len(tokens') \in Nat /\ Len(tokens') <= MaxTokens
      /\ tokens'[Len(tokens')] = [kind |-> kind, tag |-> tag]
      /\ \A i \in 1..Len(tokens) : tokens'[i] = tokens[i]
      /\ RepInv(nodes, tokens', blocks)
      /\ \A n \in 0..Len(tokens) : OpenAfter(tokens')[n] = OpenAfter(tokens)[n]
      /\ result' = result
  BY ReadFacts DEF Kinds
<1>2. Len(tokens) \in Nat /\ TextInv /\ MaxTokens \in Nat
  BY <1>1, RunFacts DEF Running
<1>3. CASE FlushFails
  BY <1>1, <1>3, FlushFailing
<1>4. CASE /\ nodes' = Flushed /\ blocks' = FlushedBlocks
           /\ pending_text' = NoText
           /\ Continue("token")
           /\ UNCHANGED <<handlerVars, open_element, closing>>
  <2>1. /\ RepInv(Flushed, tokens', FlushedBlocks) /\ AllLinked(Flushed)
        /\ Grown(nodes, Flushed) /\ Len(Flushed) \in Nat
        /\ \A c \in 1..Len(Flushed) : Flushed[c].end <= Len(tokens)
        /\ \A i \in 1..Len(tokens) :
              Covered(Flushed, i)
                <=> Covered(nodes, i) \/ Covers(pending_text[1], pending_text[2], i)
    BY <1>1, <1>2, FlushFacts
  <2>2. \A i \in 1..Len(tokens') : ~Covers(NoText[1], NoText[2], i)
    BY <1>1 DEF NoText, Covers
  <2>3. ~Covered(Flushed, Len(tokens'))
    <3>1. Flushed \in Seq(Node(AllTags))
      BY <2>1, RepFacts
    <3>2. \A c \in 1..Len(Flushed) : Flushed[c].end \in Nat
      <4>1. \A c \in 1..Len(Flushed) : Flushed[c] \in Node(AllTags)
        BY <3>1
      <4> QED
        BY <4>1 DEF Node
    <3> QED
      BY <2>1, <3>2, <1>1, <1>2 DEF Covered, Covers
  <2>4. AllCovered(Flushed, tokens', NoText)
    <3>1. Len(tokens') \in 1..Len(tokens')
      BY <1>1, <1>2
    <3>2. \A i \in 1..Len(tokens) : i \in 1..Len(tokens')
      BY <1>1, <1>2
    <3>3. tokens'[Len(tokens')].kind \notin {"text", "comment", "open"}
      BY <1>1
    <3> QED
      BY <1>1, <1>2, <2>1, <2>2, <2>3, <3>1, <3>2, <3>3, CoveredNext DEF TextInv
  <2>5. PendingText(Flushed, tokens', NoText)
    BY DEF PendingText
  <2>6. NoText \in (0..MaxTokens) \X (0..MaxTokens)
    BY <1>2 DEF NoText
  <2> QED
    BY <1>1, <1>4, <2>1, <2>4, <2>5, <2>6, TokenDone DEF Continue
<1> QED
  BY <1>3, <1>4 DEF FlushOnly

LEMMA OtherStep ==
  ASSUME CompileInv, stuck' \in Nat, Other
  PROVE  CompileInv'
<1>1. Read("other", NoTag) /\ FlushOnly /\ NoTag \in AllTags
  BY DEF Other, AllTags
<1>2. OpenAfter(tokens')[Len(tokens')]
         = OpenStep(tokens', Len(tokens'), OpenAfter(tokens)[Len(tokens)])
      /\ tokens'[Len(tokens')] = [kind |-> "other", tag |-> NoTag]
  BY <1>1, ReadFacts DEF Kinds
<1>3. OpenAfter(tokens')[Len(tokens')] = OpenAfter(tokens)[Len(tokens)]
  BY <1>2, StepNeutral
<1> QED
  BY <1>1, <1>3, FlushOnlyStep

LEMMA DroppedStep ==
  ASSUME CompileInv, stuck' \in Nat, Dropped
  PROVE  CompileInv'
<1>1. /\ Read("dropped", NoTag) /\ NoTag \in AllTags /\ Continue("token")
      /\ UNCHANGED <<nodes, blocks, handlerVars, parserVars>>
  BY DEF Dropped, AllTags
<1>2. /\ pc = "token" /\ tokens' \in Seq(Tokens) /\ Len(tokens') = Len(tokens) + 1
      /\ Len(tokens') \in Nat /\ Len(tokens') <= MaxTokens
      /\ tokens'[Len(tokens')] = [kind |-> "dropped", tag |-> NoTag]
      /\ \A i \in 1..Len(tokens) : tokens'[i] = tokens[i]
      /\ RepInv(nodes, tokens', blocks)
      /\ \A n \in 0..Len(tokens) : OpenAfter(tokens')[n] = OpenAfter(tokens)[n]
      /\ OpenAfter(tokens')[Len(tokens')]
            = OpenStep(tokens', Len(tokens'), OpenAfter(tokens)[Len(tokens)])
      /\ result' = result
  BY <1>1, ReadFacts DEF Kinds
<1>3. /\ Len(tokens) \in Nat /\ TextInv /\ RunInv
      /\ nodes \in Seq(Node(AllTags)) /\ Len(nodes) \in Nat /\ Placed(nodes, tokens)
      /\ TreeShape(nodes)
      /\ pending_text \in (0..MaxTokens) \X (0..MaxTokens)
  BY <1>2, RunFacts DEF Running
<1>4. OpenAfter(tokens')[Len(tokens')] = OpenAfter(tokens)[Len(tokens)]
  BY <1>2, StepNeutral
<1>5. PendingText(nodes, tokens', pending_text)
  <2> SUFFICES ASSUME pending_text # NoText
               PROVE  /\ 1 <= pending_text[1] /\ pending_text[1] <= pending_text[2]
                      /\ pending_text[2] <= Len(tokens')
                      /\ \A c \in 1..Len(nodes) : nodes[c].end < pending_text[1]
                      /\ OpenAfter(tokens')[pending_text[1] - 1] = OpenAfter(tokens')[Len(tokens')]
    BY DEF PendingText
  <2>1. /\ 1 <= pending_text[1] /\ pending_text[1] <= pending_text[2]
        /\ pending_text[2] <= Len(tokens)
        /\ \A c \in 1..Len(nodes) : nodes[c].end < pending_text[1]
        /\ OpenAfter(tokens)[pending_text[1] - 1] = OpenAfter(tokens)[Len(tokens)]
    BY <1>3 DEF TextInv, PendingText
  <2>2. pending_text[1] \in Nat /\ pending_text[2] \in Nat
    BY <1>3
  <2>3. pending_text[1] - 1 \in 0..Len(tokens) /\ pending_text[2] <= Len(tokens')
    BY <2>1, <2>2, <1>2, <1>3
  <2> QED
    BY <2>1, <2>3, <1>2, <1>4
<1>6. ~Covered(nodes, Len(tokens')) /\ ~Covers(pending_text[1], pending_text[2], Len(tokens'))
  <2>1. \A c \in 1..Len(nodes) : nodes[c].end \in Nat
    <3>1. \A c \in 1..Len(nodes) : nodes[c] \in Node(AllTags)
      BY <1>3
    <3> QED
      BY <3>1 DEF Node
  <2>2. \A c \in 1..Len(nodes) : nodes[c].end <= Len(tokens)
    <3>1. Len(nodes) >= 1 /\ nodes[1].end = 0
      BY <1>3 DEF TreeShape, RootFirst
    <3> QED
      BY <3>1, <1>3 DEF Placed
  <2>3. pending_text[2] \in Nat /\ pending_text[2] <= Len(tokens)
    <3>1. CASE pending_text = NoText
      BY <3>1, <1>3 DEF NoText
    <3>2. CASE pending_text # NoText
      BY <3>2, <1>3 DEF TextInv, PendingText
    <3> QED
      BY <3>1, <3>2
  <2> QED
    BY <2>1, <2>2, <2>3, <1>2, <1>3 DEF Covered, Covers
<1>7. AllCovered(nodes, tokens', pending_text)
  <2>1. tokens'[Len(tokens')].kind \notin {"text", "comment", "open"}
    BY <1>2
  <2> QED
    BY <1>2, <1>3, <1>6, <2>1, CoveredNext DEF TextInv
<1>8. AllLinked(nodes) /\ Grown(nodes, nodes)
  BY <1>2, <1>3 DEF RunInv, Grown
<1> QED
  BY <1>1, <1>2, <1>3, <1>4, <1>5, <1>7, <1>8, TokenDone DEF Continue, handlerVars, parserVars

LEMMA NotCovered ==
  ASSUME NEW ns \in Seq(Node(AllTags)), NEW N \in Nat, \A c \in 1..Len(ns) : ns[c].end <= N
  PROVE  ~Covered(ns, N + 1)
<1>1. \A c \in 1..Len(ns) : ns[c] \in Node(AllTags)
  OBVIOUS
<1>2. \A c \in 1..Len(ns) : ns[c].end \in Nat
  BY <1>1 DEF Node
<1> QED
  BY <1>2 DEF Covered, Covers

LEMMA TextStep ==
  ASSUME CompileInv, stuck' \in Nat, Text
  PROVE  CompileInv'
<1>1. Read("text", NoTag) /\ NoTag \in AllTags
  BY DEF Text, AllTags
<1>2. /\ pc = "token" /\ tokens' \in Seq(Tokens) /\ Len(tokens') = Len(tokens) + 1
      /\ Len(tokens') \in Nat /\ Len(tokens') <= MaxTokens
      /\ tokens'[Len(tokens')] = [kind |-> "text", tag |-> NoTag]
      /\ \A i \in 1..Len(tokens) : tokens'[i] = tokens[i]
      /\ RepInv(nodes, tokens', blocks)
      /\ \A n \in 0..Len(tokens) : OpenAfter(tokens')[n] = OpenAfter(tokens)[n]
      /\ OpenAfter(tokens')[Len(tokens')]
            = OpenStep(tokens', Len(tokens'), OpenAfter(tokens)[Len(tokens)])
      /\ result' = result
  BY <1>1, ReadFacts DEF Kinds
<1>3. /\ Len(tokens) \in Nat /\ TextInv /\ RunInv /\ MaxTokens \in Nat
      /\ nodes \in Seq(Node(AllTags)) /\ Len(nodes) \in Nat
      /\ pending_text \in (0..MaxTokens) \X (0..MaxTokens)
  BY <1>2, RunFacts DEF Running
<1>4. OpenAfter(tokens')[Len(tokens')] = OpenAfter(tokens)[Len(tokens)]
  BY <1>2, StepNeutral
<1> DEFINE H == Len(tokens')
<1>5. Here = H /\ H \in 1..MaxTokens /\ H = Len(tokens) + 1
  BY <1>2, <1>3 DEF Here
<1>6. tokens'[H].kind \in {"text", "comment", "open"}
  BY <1>2
<1> DEFINE continues == pending_text # NoText /\ pending_text[2] = Here - 1
<1>7. CASE /\ continues
           /\ pending_text' = <<pending_text[1], Here>>
           /\ Continue("token")
           /\ UNCHANGED <<nodes, blocks, handlerVars, open_element, closing>>
  <2> DEFINE new == <<pending_text[1], H>>
  <2>1. /\ 1 <= pending_text[1] /\ pending_text[1] <= Len(tokens) /\ pending_text[2] = Len(tokens)
        /\ \A c \in 1..Len(nodes) : nodes[c].end < pending_text[1]
        /\ OpenAfter(tokens)[pending_text[1] - 1] = OpenAfter(tokens)[Len(tokens)]
        /\ pending_text[1] \in 0..MaxTokens
    BY <1>3, <1>5, <1>7 DEF TextInv, PendingText
  <2>2. new[1] = pending_text[1] /\ new[2] = H /\ new \in (0..MaxTokens) \X (0..MaxTokens)
        /\ pending_text' = new
    BY <1>5, <1>7, <2>1
  <2> HIDE DEF new
  <2>3. PendingText(nodes, tokens', new)
    <3>1. pending_text[1] - 1 \in 0..Len(tokens)
      BY <2>1, <1>3
    <3>2. OpenAfter(tokens')[new[1] - 1] = OpenAfter(tokens')[H]
      BY <3>1, <2>1, <2>2, <1>2, <1>4
    <3> QED
      BY <3>2, <2>1, <2>2, <1>3, <1>5 DEF PendingText
  <2>4. \A i \in 1..Len(tokens) : Covers(new[1], new[2], i)
                                    <=> Covers(pending_text[1], pending_text[2], i)
    BY <2>1, <2>2, <1>3, <1>5 DEF Covers
  <2>5. Covers(new[1], new[2], H)
    BY <2>1, <2>2, <1>3, <1>5 DEF Covers
  <2>6. AllCovered(nodes, tokens', new)
    BY <2>4, <2>5, <1>2, <1>3, <1>6, CoveredNext DEF TextInv
  <2>7. AllLinked(nodes) /\ Grown(nodes, nodes)
    BY <1>2, <1>3 DEF RunInv, Grown
  <2> QED
    BY <1>2, <1>4, <1>7, <2>2, <2>3, <2>6, <2>7, TokenDone DEF Continue
<1>8. CASE /\ ~continues
           /\ nodes' = Flushed /\ blocks' = FlushedBlocks
           /\ pending_text' = <<Here, Here>>
           /\ Continue("token")
           /\ UNCHANGED <<handlerVars, open_element, closing>>
  <2> DEFINE new == <<H, H>>
  <2>1. /\ RepInv(Flushed, tokens', FlushedBlocks) /\ AllLinked(Flushed)
        /\ Grown(nodes, Flushed) /\ Len(Flushed) \in Nat
        /\ \A c \in 1..Len(Flushed) : Flushed[c].end <= Len(tokens)
        /\ \A i \in 1..Len(tokens) :
              Covered(Flushed, i)
                <=> Covered(nodes, i) \/ Covers(pending_text[1], pending_text[2], i)
    BY <1>2, <1>3, FlushFacts
  <2>2. Flushed \in Seq(Node(AllTags))
    BY <2>1, RepFacts
  <2>3. new[1] = H /\ new[2] = H /\ new \in (0..MaxTokens) \X (0..MaxTokens)
        /\ pending_text' = new
    BY <1>5, <1>8
  <2> HIDE DEF new
  <2>4. \A c \in 1..Len(Flushed) : Flushed[c].end < H
    <3>1. \A c \in 1..Len(Flushed) : Flushed[c] \in Node(AllTags)
      BY <2>2
    <3>2. \A c \in 1..Len(Flushed) : Flushed[c].end \in Nat
      BY <3>1 DEF Node
    <3> QED
      BY <3>2, <2>1, <1>3, <1>5
  <2>5. PendingText(Flushed, tokens', new)
    <3>1. H - 1 = Len(tokens) /\ Len(tokens) \in 0..Len(tokens)
      BY <1>3, <1>5
    <3>2. OpenAfter(tokens')[H - 1] = OpenAfter(tokens')[H]
      BY <3>1, <1>2, <1>4
    <3> QED
      BY <3>2, <2>3, <2>4, <1>5 DEF PendingText
  <2>6. \A i \in 1..Len(tokens) : ~Covers(new[1], new[2], i)
    BY <2>3, <1>3, <1>5 DEF Covers
  <2>7. Covers(new[1], new[2], H)
    BY <2>3, <1>5 DEF Covers
  <2>8. AllCovered(Flushed, tokens', new)
    BY <2>1, <2>6, <2>7, <1>2, <1>3, <1>6, CoveredNext DEF TextInv
  <2> QED
    BY <1>2, <1>4, <1>8, <2>1, <2>3, <2>5, <2>8, TokenDone DEF Continue
<1>9. CASE ~continues /\ FlushFails
  BY <1>2, <1>9, FlushFailing
<1> HIDE DEF continues
<1> QED
  BY <1>7, <1>8, <1>9 DEF Text, continues

LEMMA CommentStep ==
  ASSUME CompileInv, stuck' \in Nat, Comment
  PROVE  CompileInv'
<1>1. Read("comment", NoTag) /\ NoTag \in AllTags
  BY DEF Comment, AllTags
<1>2. /\ pc = "token" /\ tokens' \in Seq(Tokens) /\ Len(tokens') = Len(tokens) + 1
      /\ Len(tokens') \in Nat /\ Len(tokens') <= MaxTokens
      /\ tokens'[Len(tokens')] = [kind |-> "comment", tag |-> NoTag]
      /\ \A i \in 1..Len(tokens) : tokens'[i] = tokens[i]
      /\ RepInv(nodes, tokens', blocks)
      /\ \A n \in 0..Len(tokens) : OpenAfter(tokens')[n] = OpenAfter(tokens)[n]
      /\ OpenAfter(tokens')[Len(tokens')]
            = OpenStep(tokens', Len(tokens'), OpenAfter(tokens)[Len(tokens)])
      /\ result' = result
  BY <1>1, ReadFacts DEF Kinds
<1>3. /\ Len(tokens) \in Nat /\ TextInv /\ MaxTokens \in Nat /\ Len(nodes) \in Nat
  BY <1>2, RunFacts DEF Running
<1>4. OpenAfter(tokens')[Len(tokens')] = OpenAfter(tokens)[Len(tokens)]
  BY <1>2, StepNeutral
<1> DEFINE H == Len(tokens')
<1>5. Here = H /\ H \in 1..MaxTokens /\ H = Len(tokens) + 1
  BY <1>2, <1>3 DEF Here
<1>6. tokens'[H].kind \in {"text", "comment", "open"}
  BY <1>2
<1>7. /\ RepInv(Flushed, tokens', FlushedBlocks) /\ AllLinked(Flushed)
      /\ Grown(nodes, Flushed) /\ Len(Flushed) \in Nat /\ Len(nodes) <= Len(Flushed)
      /\ \A c \in 1..Len(Flushed) : Flushed[c].end <= Len(tokens)
      /\ \A i \in 1..Len(tokens) :
            Covered(Flushed, i)
              <=> Covered(nodes, i) \/ Covers(pending_text[1], pending_text[2], i)
  BY <1>2, <1>3, FlushFacts
<1>8. CASE FlushFails
  BY <1>2, <1>8, FlushFailing
<1>9. CASE /\ nodes' = AppendNew(Flushed, current_parent,
                                 InitNode("comment", NoTag, Here, Here))
           /\ blocks' = FlushedBlocks + 2
           /\ pending_text' = NoText
           /\ Continue("token")
           /\ UNCHANGED <<handlerVars, open_element, closing>>
  <2> DEFINE n == InitNode("comment", NoTag, H, H)
             ms == AppendNew(Flushed, current_parent, n)
  <2>1. Fresh(n) /\ NodeBlocks(n) = 2 /\ n.type = "comment" /\ n.start = H /\ n.end = H
    <3>1. H \in Nat
      BY <1>5
    <3> QED
      BY <3>1, <1>1, NewNodeFresh
  <2>2. nodes' = ms
    BY <1>5, <1>9
  <2> HIDE DEF n
  <2>3. Flushed \in Seq(Node(AllTags))
    BY <1>7, RepFacts
  <2>4. \A c \in 1..Len(Flushed) : Flushed[c].end < H
    <3>1. \A c \in 1..Len(Flushed) : Flushed[c] \in Node(AllTags)
      BY <2>3
    <3>2. \A c \in 1..Len(Flushed) : Flushed[c].end \in Nat
      BY <3>1 DEF Node
    <3> QED
      BY <3>2, <1>7, <1>3, <1>5
  <2>5. /\ current_parent \in 1..Len(Flushed) /\ Flushed[current_parent].linked
        /\ Flushed[current_parent].type \in {"root", "element"}
        /\ Flushed[current_parent].start = Innermost(OpenAfter(tokens')[H - 1])
    <3>1. /\ current_parent \in 1..Len(nodes) /\ nodes[current_parent].linked
          /\ nodes[current_parent].type \in {"root", "element"}
          /\ nodes[current_parent].start = Innermost(OpenAfter(tokens)[Len(tokens)])
      BY <1>2, ParentFacts DEF Counted
    <3>2. H - 1 = Len(tokens) /\ Len(tokens) \in 0..Len(tokens)
      BY <1>3, <1>5
    <3>3. OpenAfter(tokens')[H - 1] = OpenAfter(tokens)[Len(tokens)]
      BY <3>2, <1>2
    <3> QED
      BY <3>1, <3>3, <1>3, <1>7 DEF Grown
  <2>6. /\ RepInv(ms, tokens', FlushedBlocks + 2) /\ AllLinked(ms) /\ Grown(Flushed, ms)
        /\ Len(ms) = Len(Flushed) + 1
        /\ ms[Len(ms)].start = H /\ ms[Len(ms)].end = H
    <3>1. 1 <= n.start /\ n.start <= n.end /\ n.end <= Len(tokens')
          /\ \A c \in 1..Len(Flushed) : Flushed[c].end < n.start
      BY <2>1, <2>4, <1>5
    <3>2. n.type = "element" => n.tag \in Tags /\ tokens'[n.start].tag = n.tag
      BY <2>1
    <3>3. Flushed[current_parent].start = Innermost(OpenAfter(tokens')[n.start - 1])
      BY <2>1, <2>5
    <3> HIDE DEF H
    <3> QED
      BY <3>1, <3>2, <3>3, <2>1, <2>5, <1>7, RepNew
  <2> HIDE DEF ms
  <2>7. Grown(nodes, ms)
    <3>1. \A c \in 1..Len(nodes) : c \in 1..Len(Flushed)
      BY <1>3, <1>7
    <3> QED
      BY <3>1, <1>3, <1>7, <2>6 DEF Grown
  <2>8. \A i : Covered(ms, i) <=> Covered(Flushed, i) \/ Covers(H, H, i)
    BY <2>6, <1>7, CoveredMore
  <2>9. AllCovered(ms, tokens', NoText)
    <3>1. \A i \in 1..Len(tokens) : ~Covers(H, H, i) /\ ~Covers(NoText[1], NoText[2], i)
      BY <1>3, <1>5 DEF Covers, NoText
    <3>2. Covers(H, H, H)
      BY <1>5 DEF Covers
    <3> HIDE DEF H
    <3>3. Covered(ms, H)
      BY <3>2, <2>8
    <3>4. \A i \in 1..Len(tokens) :
            Covered(ms, i) \/ Covers(NoText[1], NoText[2], i)
              <=> Covered(nodes, i) \/ Covers(pending_text[1], pending_text[2], i)
      BY <3>1, <2>8, <1>7
    <3> QED
      BY <3>3, <3>4, <1>2, <1>3, <1>6, CoveredNext DEF TextInv, H
  <2>10. PendingText(ms, tokens', NoText) /\ NoText \in (0..MaxTokens) \X (0..MaxTokens)
    BY <1>3 DEF PendingText, NoText
  <2> QED
    BY <1>2, <1>4, <1>9, <2>2, <2>6, <2>7, <2>9, <2>10, TokenDone DEF Continue
<1>10. CASE /\ nodes' = Flushed
            /\ BuildFails(NewComment, FlushedBlocks)
            /\ pending_text' = NoText
            /\ UNCHANGED <<handlerVars, open_element, closing>>
  <2>1. FlushedBlocks \in Nat /\ NewComment \in Constructors
    BY <1>7, RepFacts DEF Constructors
  <2>2. blocks' = FlushedBlocks /\ Raise
    BY <1>10, <2>1, Built
  <2> QED
    BY <1>2, <1>7, <1>10, <2>2, FlushedThenRaised
<1> QED
  BY <1>8, <1>9, <1>10 DEF Comment

LEMMA GreatestElement ==
  ASSUME NEW N \in Nat, NEW S \in SUBSET (1..N), S # {}
  PROVE  \E x \in S : \A y \in S : y <= x
<1> DEFINE T == {N - x : x \in S}
<1>0. PICK z \in S : TRUE
  OBVIOUS
<1>1. T \in SUBSET Nat /\ N - z \in T
  <2>1. \A x \in S : N - x \in Nat
    OBVIOUS
  <2> QED
    BY <2>1
<1> HIDE DEF T
<1>2. PICK t \in T : \A u \in T : t <= u
  BY <1>1, LeastElement
<1>3. PICK x \in S : t = N - x
  BY <1>2 DEF T
<1>4. ASSUME NEW y \in S PROVE y <= x
  <2>1. t <= N - y
    BY <1>2 DEF T
  <2> QED
    BY <2>1, <1>3
<1> QED
  BY <1>4

\* An end tag with a match: the elements to be closed are counted.
LEMMA CloseMatched ==
  ASSUME CompileInv, stuck' \in Nat, NEW tag \in Tags, Read("close", tag), Matches(tag) # {},
         nodes' = Flushed, blocks' = FlushedBlocks, pending_text' = NoText,
         closing' = Len(open_element) - InnermostMatch(tag) + 1,
         Continue("closing"), UNCHANGED <<handlerVars, open_element>>
  PROVE  CompileInv'
<1> DEFINE K == Len(open_element)
           m == InnermostMatch(tag)
           before == OpenAfter(tokens)[Len(tokens)]
           H == Len(tokens')
<1>1. /\ pc = "token" /\ tokens' \in Seq(Tokens) /\ H = Len(tokens) + 1
      /\ H \in Nat /\ H <= MaxTokens
      /\ tokens'[H] = [kind |-> "close", tag |-> tag]
      /\ \A i \in 1..Len(tokens) : tokens'[i] = tokens[i]
      /\ RepInv(nodes, tokens', blocks)
      /\ \A n \in 0..Len(tokens) : OpenAfter(tokens')[n] = OpenAfter(tokens)[n]
      /\ OpenAfter(tokens')[H] = OpenStep(tokens', H, before)
      /\ result' = result
  <2>1. tag \in AllTags
    BY DEF AllTags
  <2> QED
    BY <2>1, ReadFacts DEF Kinds
<1>2. /\ Len(tokens) \in Nat /\ TextInv /\ RunInv /\ MaxTokens \in Nat
      /\ TreeShape(nodes) /\ nodes \in Seq(Node(AllTags)) /\ Len(nodes) \in Nat
      /\ open_element \in Seq(Tags) /\ K \in Nat
  BY <1>1, RunFacts DEF Running
<1>3. /\ StackIs(nodes, open_element, current_parent, K, before)
      /\ current_parent \in 1..Len(nodes) /\ pending_element = NoNode
  BY <1>1, ParentFacts, <1>2 DEF Stack, Counted, RunInv
<1>4. m \in 1..K /\ open_element[m] = tag /\ \A i \in 1..K : open_element[i] = tag => i <= m
  <2>1. Matches(tag) \in SUBSET (1..K)
    BY DEF Matches
  <2>2. \E i \in Matches(tag) : \A j \in Matches(tag) : j <= i
    BY <2>1, <1>2, GreatestElement
  <2>3. m \in Matches(tag) /\ \A j \in Matches(tag) : j <= m
    BY <2>2 DEF InnermostMatch
  <2> HIDE DEF m
  <2> QED
    BY <2>3 DEF Matches
<1>5. /\ RepInv(Flushed, tokens', FlushedBlocks) /\ AllLinked(Flushed)
      /\ Grown(nodes, Flushed) /\ Len(Flushed) \in Nat /\ Len(nodes) <= Len(Flushed)
      /\ \A c \in 1..Len(Flushed) : Flushed[c].end <= Len(tokens)
      /\ \A i \in 1..Len(tokens) :
            Covered(Flushed, i)
              <=> Covered(nodes, i) \/ Covers(pending_text[1], pending_text[2], i)
  <2>1. Len(tokens') \in Nat /\ Len(tokens) <= Len(tokens')
    BY <1>1, <1>2
  <2>2. RepInv(nodes, tokens', blocks) /\ pc = "token"
        /\ \A n \in 0..Len(tokens) : OpenAfter(tokens')[n] = OpenAfter(tokens)[n]
    BY <1>1
  <2> QED
    BY <2>1, <2>2, FlushFacts
<1>6. Flushed \in Seq(Node(AllTags)) /\ Flushed # <<>>
  BY <1>5, RepFacts
<1> HIDE DEF K, m, H
<1>7. StackIs(nodes, open_element, current_parent, m - 1, OpenAfter(tokens')[H])
  <2> DEFINE named == Named(tokens', before, tag)
             kept == Outside(before, named)
  <2>1. Placed(nodes, tokens')
    BY <1>1 DEF RepInv
  <2> HIDE DEF before
  <2>2. named # {} /\ StackIs(nodes, open_element, current_parent, m - 1, kept)
    BY <2>1, <1>2, <1>3, <1>4, StackMatched DEF K
  <2>3. OpenStep(tokens', H, before) = kept
    <3>1. tokens'[H].kind = "close" /\ tokens'[H].tag = tag
      BY <1>1
    <3>2. named = {i \in before : tokens'[i].tag = tokens'[H].tag}
      BY <3>1 DEF Named
    <3> HIDE DEF named
    <3> QED
      BY <3>1, <3>2, <2>2 DEF OpenStep, Outside
  <2> QED
    BY <2>2, <2>3, <1>1
<1>8. StackIs(Flushed, open_element, current_parent, m - 1, OpenAfter(tokens')[H])
  <2>1. m - 1 \in 0..Len(open_element)
    BY <1>2, <1>4 DEF K
  <2> QED
    BY <2>1, <1>2, <1>5, <1>7, StackGrown DEF K
<1>9. closing' \in 1..K /\ K - closing' = m - 1
  BY <1>2, <1>4 DEF K, m
<1>10. Stack' = open_element /\ Counted' = H
  BY DEF Stack, Counted, Continue, H
<1>11. current_parent' = current_parent /\ pending_element' = pending_element
       /\ open_element' = open_element /\ pc' = "closing"
       /\ UNCHANGED <<failure, structured_failure>>
  BY DEF handlerVars, Continue
<1>12. RunInv'
  BY <1>3, <1>5, <1>6, <1>8, <1>9, <1>10, <1>11 DEF RunInv, K, H
<1>13. PendingText(Flushed, tokens', NoText) /\ NoText \in (0..MaxTokens) \X (0..MaxTokens)
  BY <1>2 DEF PendingText, NoText
<1>14. AllCovered(Flushed, tokens', NoText)
  <2>1. \A i \in 1..H : ~Covers(NoText[1], NoText[2], i)
    BY <1>1 DEF NoText, Covers
  <2>2. ~Covered(Flushed, H)
    BY <1>1, <1>2, <1>5, <1>6, NotCovered
  <2>3. H \in 1..H /\ \A i \in 1..Len(tokens) : i \in 1..H
    BY <1>1, <1>2
  <2>4. tokens'[H].kind \notin {"text", "comment", "open"}
    BY <1>1
  <2> QED
    BY <1>1, <1>2, <1>5, <2>1, <2>2, <2>3, <2>4, CoveredNext DEF TextInv, H
<1>15. current_parent' \in 0..Len(nodes') /\ pending_element' \in 0..Len(nodes')
       /\ closing' \in 0..Len(open_element')
  BY <1>2, <1>3, <1>5, <1>9, <1>11 DEF NoNode, K
<1> QED
  BY <1>1, <1>2, <1>5, <1>11, <1>12, <1>13, <1>14, <1>15, Going DEF Running, H

LEMMA CloseStep ==
  ASSUME CompileInv, stuck' \in Nat, NEW tag \in Tags, Close(tag)
  PROVE  CompileInv'
<1>1. Read("close", tag) /\ tag \in AllTags
  BY DEF Close, AllTags
<1>2. /\ pc = "token" /\ tokens' \in Seq(Tokens) /\ Len(tokens') <= MaxTokens
      /\ tokens'[Len(tokens')] = [kind |-> "close", tag |-> tag]
      /\ RepInv(nodes, tokens', blocks)
      /\ OpenAfter(tokens')[Len(tokens')]
            = OpenStep(tokens', Len(tokens'), OpenAfter(tokens)[Len(tokens)])
      /\ result' = result
  BY <1>1, ReadFacts DEF Kinds
<1>3. CASE Matches(tag) = {} /\ FlushOnly
  <2> DEFINE before == OpenAfter(tokens)[Len(tokens)]
  <2>1. TreeShape(nodes) /\ Len(open_element) \in Nat
    BY <1>2, RunFacts DEF Running
  <2>2. StackIs(nodes, open_element, current_parent, Len(open_element), before)
    BY <1>2, ParentFacts DEF Stack, Counted
  <2>3. \A i \in 1..Len(open_element) : open_element[i] # tag
    BY <1>3 DEF Matches
  <2>4. Named(tokens', before, tag) = {}
    BY <2>1, <2>2, <2>3, <1>2, StackUnmatched DEF RepInv
  <2> HIDE DEF before
  <2>5. OpenStep(tokens', Len(tokens'), before) = before
    <3>1. tokens'[Len(tokens')].kind = "close" /\ tokens'[Len(tokens')].tag = tag
      BY <1>2
    <3> QED
      BY <3>1, <2>4 DEF OpenStep, Named
  <2> QED
    BY <2>5, <1>1, <1>2, <1>3, FlushOnlyStep DEF before
<1>4. CASE Matches(tag) # {} /\ FlushFails
  BY <1>2, <1>4, FlushFailing
<1>5. CASE /\ Matches(tag) # {}
           /\ nodes' = Flushed /\ blocks' = FlushedBlocks
           /\ pending_text' = NoText
           /\ closing' = Len(open_element) - InnermostMatch(tag) + 1
           /\ Continue("closing")
           /\ UNCHANGED <<handlerVars, open_element>>
  BY <1>1, <1>5, CloseMatched
<1> QED
  BY <1>3, <1>4, <1>5 DEF Close


\* A step that only fails.
LEMMA StopHere ==
  ASSUME CompileInv, stuck' \in Nat, pc \in Running, pc' = "return",
         failure' \in {"object", "lua_error", "status"},
         structured_failure' = (failure' = "object"),
         UNCHANGED <<nodes, blocks, tokens, result, handlerVars, parserVars>>
  PROVE  CompileInv'
<1>1. /\ RepInv(nodes, tokens, blocks) /\ tokens \in Seq(Tokens) /\ Len(tokens) <= MaxTokens
      /\ open_element \in Seq(Tags) /\ closing \in 0..Len(open_element)
      /\ current_parent \in 0..Len(nodes) /\ pending_element \in 0..Len(nodes)
      /\ pending_text \in (0..MaxTokens) \X (0..MaxTokens)
  BY RunFacts
<1> QED
  BY <1>1, Failing DEF handlerVars, parserVars

LEMMA CloseOneStep ==
  ASSUME CompileInv, stuck' \in Nat, CloseOne
  PROVE  CompileInv'
<1> DEFINE K == Len(open_element)
           rest == SubSeq(open_element, 1, Len(open_element) - 1)
           up == nodes[current_parent].parent
           open == OpenAfter(tokens)[Len(tokens)]
<1>1. pc = "closing"
      /\ UNCHANGED <<nodes, blocks, pending_element, pending_text, tokens, result>>
  BY DEF CloseOne
<1>2. /\ RepInv(nodes, tokens, blocks) /\ RunInv /\ TextInv /\ Len(nodes) \in Nat
      /\ Len(nodes) >= 1 /\ open_element \in Seq(Tags) /\ K \in Nat
      /\ tokens \in Seq(Tokens) /\ Len(tokens) <= MaxTokens
      /\ current_parent \in 0..Len(nodes) /\ pending_element \in 0..Len(nodes)
      /\ pending_text \in (0..MaxTokens) \X (0..MaxTokens)
      /\ structured_failure = FALSE /\ failure = "none"
  BY <1>1, RunFacts DEF Running
<1>3. /\ closing \in 1..K /\ K >= 1 /\ K - closing \in 0..(K - 1)
      /\ StackIs(nodes, open_element, current_parent, K - closing, open)
      /\ pending_element = NoNode /\ AllLinked(nodes) /\ pending_text = NoText
      /\ nodes # <<>>
  BY <1>1, <1>2 DEF RunInv, Stack, Counted
<1>4. /\ nodes[current_parent].type = "element" /\ up \in 1..Len(nodes)
      /\ StackIs(nodes, rest, up, K - closing, open)
  BY <1>2, <1>3, StackPop
<1>5. rest \in Seq(Tags) /\ Len(rest) = K - 1
  BY <1>2, <1>3, FrontOf
<1> HIDE DEF rest, up, open
<1>6. CASE ~CanEnd
  BY <1>4, <1>6 DEF CanEnd, NoNode, up
<1>7. CASE /\ current_parent' = up /\ open_element' = rest /\ closing' = closing - 1
           /\ Continue(IF closing = 1 THEN "token" ELSE "closing")
  <2>1. /\ pc' = IF closing = 1 THEN "token" ELSE "closing"
        /\ UNCHANGED <<failure, structured_failure>>
    BY <1>7 DEF Continue
  <2>2. Stack' = rest /\ Counted' = Len(tokens)
    BY <1>1, <1>7, <2>1 DEF Stack, Counted
  <2>3. Len(rest) - closing' = K - closing /\ closing' \in 0..Len(rest)
    BY <1>2, <1>3, <1>5, <1>7
  <2>4. StackIs(nodes', Stack', current_parent', Len(Stack') - closing',
                OpenAfter(tokens')[Counted'])
    BY <1>1, <1>4, <1>7, <2>2, <2>3 DEF open
  <2>5. IF pc' = "closing" THEN closing' \in 1..Len(open_element') ELSE closing' = 0
    BY <1>2, <1>3, <1>5, <1>7, <2>1
  <2>6. RunInv'
    <3>1. pc' # "attrs" /\ pc' # "push"
      BY <2>1
    <3> QED
      BY <3>1, <1>1, <1>3, <2>4, <2>5 DEF RunInv
  <2>7. PendingText(nodes', tokens', pending_text') /\ AllCovered(nodes', tokens', pending_text')
    BY <1>1, <1>2 DEF TextInv
  <2>8. current_parent' \in 0..Len(nodes') /\ pending_element' \in 0..Len(nodes')
        /\ open_element' \in Seq(Tags) /\ closing' \in 0..Len(open_element')
    BY <1>1, <1>2, <1>4, <1>5, <1>7, <2>3
  <2> QED
    BY <1>1, <1>2, <2>1, <2>6, <2>7, <2>8, Going DEF Running
<1>8. CASE /\ current_parent' = up /\ open_element' = rest /\ closing' = closing - 1
           /\ Abort
  <2>1. current_parent' \in 0..Len(nodes') /\ pending_element' \in 0..Len(nodes')
        /\ open_element' \in Seq(Tags) /\ closing' \in 0..Len(open_element')
    BY <1>1, <1>2, <1>3, <1>4, <1>5, <1>8
  <2>2. pc' = "return" /\ failure' = "status" /\ structured_failure' = FALSE
    BY <1>2, <1>8 DEF Abort
  <2> QED
    BY <1>1, <1>2, <2>1, <2>2, Failing DEF Running
<1>9. CASE ~CanEnd /\ Raise /\ UNCHANGED <<stuck, current_parent, open_element, closing>>
  BY <1>6, <1>9
<1> QED
  BY <1>7, <1>8, <1>9 DEF CloseOne, rest, up

\* on_element_begin: the new element waits for its attributes.
LEMMA OpenTagStep ==
  ASSUME CompileInv, stuck' \in Nat, NEW tag \in Tags, Open(tag)
  PROVE  CompileInv'
<1> DEFINE H == Len(tokens')
           before == OpenAfter(tokens)[Len(tokens)]
<1>1. Read("open", tag) /\ tag \in AllTags
  BY DEF Open, AllTags
<1>2. /\ pc = "token" /\ tokens' \in Seq(Tokens) /\ H = Len(tokens) + 1
      /\ H \in Nat /\ H <= MaxTokens
      /\ tokens'[H] = [kind |-> "open", tag |-> tag]
      /\ \A i \in 1..Len(tokens) : tokens'[i] = tokens[i]
      /\ RepInv(nodes, tokens', blocks)
      /\ \A n \in 0..Len(tokens) : OpenAfter(tokens')[n] = OpenAfter(tokens)[n]
      /\ result' = result
  BY <1>1, ReadFacts DEF Kinds
<1>3. /\ Len(tokens) \in Nat /\ TextInv /\ RunInv /\ MaxTokens \in Nat /\ Len(nodes) \in Nat
      /\ open_element \in Seq(Tags) /\ Len(open_element) \in Nat
      /\ current_parent \in 0..Len(nodes)
  BY <1>2, RunFacts DEF Running
<1>4. Here = H /\ H \in 1..MaxTokens
  BY <1>2, <1>3 DEF Here
<1>5. /\ RepInv(Flushed, tokens', FlushedBlocks) /\ AllLinked(Flushed)
      /\ Grown(nodes, Flushed) /\ Len(Flushed) \in Nat /\ Len(nodes) <= Len(Flushed)
      /\ \A c \in 1..Len(Flushed) : Flushed[c].end <= Len(tokens)
      /\ \A i \in 1..Len(tokens) :
            Covered(Flushed, i)
              <=> Covered(nodes, i) \/ Covers(pending_text[1], pending_text[2], i)
  BY <1>2, <1>3, FlushFacts
<1>6. /\ StackIs(nodes, open_element, current_parent, Len(open_element), before) /\ closing = 0
  BY <1>2, ParentFacts DEF Stack, Counted
<1>7. CASE FlushFails
  BY <1>2, <1>7, FlushFailing
<1>8. CASE /\ pending_element = NoNode
           /\ nodes' = Append(Flushed, InitNode("element", tag, Here, Here))
           /\ blocks' = FlushedBlocks + 2
           /\ pending_text' = NoText
           /\ pending_element' = Len(nodes')
           /\ Continue("attrs")
           /\ UNCHANGED <<current_parent, open_element, closing>>
  <2> DEFINE n == InitNode("element", tag, H, H)
             ms == Append(Flushed, n)
  <2>1. Fresh(n) /\ NodeBlocks(n) = 2 /\ n.type = "element" /\ n.tag = tag
        /\ n.start = H /\ n.end = H
    <3>1. H \in Nat
      BY <1>4
    <3> QED
      BY <3>1, <1>1, NewNodeFresh
  <2>2. nodes' = ms
    BY <1>4, <1>8
  <2> HIDE DEF n
  <2>3. Flushed \in Seq(Node(AllTags)) /\ Len(Flushed) >= 1
    BY <1>5, RepFacts
  <2>4. \A c \in 1..Len(Flushed) : Flushed[c].end < H
    <3>1. \A c \in 1..Len(Flushed) : Flushed[c] \in Node(AllTags)
      BY <2>3
    <3>2. \A c \in 1..Len(Flushed) : Flushed[c].end \in Nat
      BY <3>1 DEF Node
    <3> QED
      BY <3>2, <1>5, <1>2, <1>3
  <2>5. /\ RepInv(ms, tokens', FlushedBlocks + 2) /\ Grown(Flushed, ms)
        /\ Len(ms) = Len(Flushed) + 1 /\ ms[Len(ms)] = n
    <3>1. 1 <= n.start /\ n.start <= n.end /\ n.end <= Len(tokens')
          /\ \A c \in 1..Len(Flushed) : Flushed[c].end < n.start
      BY <2>1, <2>4, <1>4
    <3>2. n.type = "element" => n.tag \in Tags /\ tokens'[n.start].tag = n.tag
      BY <2>1, <1>2
    <3> HIDE DEF H
    <3> QED
      BY <3>1, <3>2, <2>1, <1>5, RepAppend
  <2> HIDE DEF ms
  <2>6. Grown(nodes, ms) /\ Len(ms) \in Nat
    <3>1. \A c \in 1..Len(nodes) : c \in 1..Len(Flushed)
      BY <1>3, <1>5
    <3>2. Len(ms) \in Nat /\ Len(nodes) <= Len(ms)
      BY <1>3, <1>5, <2>5
    <3>3. Grown(nodes, Flushed) /\ Grown(Flushed, ms)
      BY <1>5, <2>5
    <3> QED
      BY <3>1, <3>2, <3>3 DEF Grown
  <2>7. PendingIs(ms, tokens', Len(ms))
    BY <1>2, <1>4, <1>5, <2>1, <2>3, <2>5 DEF PendingIs, Fresh
  <2>8. StackIs(ms, open_element, current_parent, Len(open_element), before)
    <3>1. Len(open_element) \in 0..Len(open_element)
      BY <1>3
    <3> QED
      BY <3>1, <2>6, <1>3, <1>6, StackGrown
  <2>9. before = OpenAfter(tokens')[H - 1]
    <3>1. H - 1 = Len(tokens) /\ Len(tokens) \in 0..Len(tokens)
      BY <1>2, <1>3
    <3> QED
      BY <3>1, <1>2
  <2> HIDE DEF before
  <2>10. pc' = "attrs" /\ UNCHANGED <<failure, structured_failure>>
    BY <1>8 DEF Continue
  <2>11. Stack' = open_element /\ Counted' = H - 1 /\ Len(Stack') - closing' = Len(open_element)
    BY <1>3, <1>6, <1>8, <2>10 DEF Stack, Counted
  <2>12. RunInv'
    <3>1. nodes' # <<>>
      BY <2>2, <2>3, <2>5, <1>5
    <3> QED
      BY <3>1, <1>6, <1>8, <2>2, <2>7, <2>8, <2>9, <2>10, <2>11 DEF RunInv
  <2>13. AllCovered(ms, tokens', NoText)
    <3>1. \A i : Covered(ms, i) <=> Covered(Flushed, i) \/ Covers(H, H, i)
      BY <2>1, <2>5, <1>5, CoveredMore
    <3>2. \A i \in 1..Len(tokens) : ~Covers(H, H, i) /\ ~Covers(NoText[1], NoText[2], i)
      BY <1>2, <1>3 DEF Covers, NoText
    <3>3. Covers(H, H, H) /\ tokens'[H].kind \in {"text", "comment", "open"}
      BY <1>2, <1>4 DEF Covers
    <3> HIDE DEF H
    <3>4. Covered(ms, H)
      BY <3>1, <3>3
    <3>5. \A i \in 1..Len(tokens) :
            Covered(ms, i) \/ Covers(NoText[1], NoText[2], i)
              <=> Covered(nodes, i) \/ Covers(pending_text[1], pending_text[2], i)
      BY <3>1, <3>2, <1>5
    <3> QED
      BY <3>3, <3>4, <3>5, <1>2, <1>3, CoveredNext DEF TextInv, H
  <2>14. PendingText(ms, tokens', NoText) /\ NoText \in (0..MaxTokens) \X (0..MaxTokens)
    BY <1>3 DEF PendingText, NoText
  <2>15. current_parent' \in 0..Len(nodes') /\ pending_element' \in 0..Len(nodes')
         /\ open_element' \in Seq(Tags) /\ closing' \in 0..Len(open_element')
    BY <1>3, <1>5, <1>6, <1>8, <2>2, <2>5
  <2> QED
    BY <1>2, <1>8, <2>2, <2>5, <2>10, <2>12, <2>13, <2>14, <2>15, Going DEF Running
<1>9. CASE /\ nodes' = Flushed
           /\ BuildFails(NewElement, FlushedBlocks)
           /\ pending_text' = NoText
           /\ UNCHANGED <<handlerVars, open_element, closing>>
  <2>1. FlushedBlocks \in Nat /\ NewElement \in Constructors
    BY <1>5, RepFacts DEF Constructors
  <2>2. blocks' = FlushedBlocks /\ Raise
    BY <1>9, <2>1, Built
  <2> QED
    BY <1>2, <1>5, <1>9, <2>2, FlushedThenRaised
<1> QED
  BY <1>7, <1>8, <1>9 DEF Open


\* An attribute or a directive was added to the element at hand.
LEMMA AttrsGrow ==
  ASSUME CompileInv, stuck' \in Nat, pc = "attrs", NEW x \in Node(AllTags), Likewise(x, nodes[Len(nodes)]),
         NEW d \in Nat, NodeBlocks(x) = NodeBlocks(nodes[Len(nodes)]) + d,
         nodes' = [nodes EXCEPT ![Len(nodes)] = x], blocks' = blocks + d, Continue("attrs"),
         UNCHANGED <<handlerVars, parserVars, tokens, result>>
  PROVE  CompileInv'
<1> DEFINE ms == [nodes EXCEPT ![Len(nodes)] = x]
           before == OpenAfter(tokens)[Counted]
<1>1. /\ RepInv(nodes, tokens, blocks) /\ RunInv /\ TextInv /\ Len(nodes) \in Nat
      /\ open_element \in Seq(Tags) /\ Len(open_element) \in Nat
      /\ tokens \in Seq(Tokens) /\ Len(tokens) <= MaxTokens
      /\ closing \in 0..Len(open_element)
      /\ current_parent \in 0..Len(nodes) /\ pending_element \in 0..Len(nodes)
      /\ pending_text \in (0..MaxTokens) \X (0..MaxTokens)
  BY RunFacts DEF Running
<1>2. RepInv(ms, tokens, blocks + d) /\ Grown(nodes, ms) /\ Len(ms) = Len(nodes)
      /\ ms[Len(nodes)] = x
  <2>1. RepInv(nodes, tokens, blocks)
    BY <1>1
  <2> QED
    BY <2>1, RepLast
<1>3. nodes' = ms
  OBVIOUS
<1> HIDE DEF ms
<1>4. ms # <<>>
  BY <1>2, RepFacts
<1>5. /\ StackIs(nodes, open_element, current_parent, Len(open_element), before)
      /\ closing = 0 /\ PendingIs(nodes, tokens, pending_element) /\ pending_text = NoText
  BY <1>1, ParentFacts DEF Stack, RunInv
<1>6. StackIs(ms, open_element, current_parent, Len(open_element), before)
  <2>1. Len(open_element) \in 0..Len(open_element)
    BY <1>1
  <2> QED
    BY <2>1, <1>1, <1>2, <1>5, StackGrown
<1>7. PendingIs(ms, tokens, pending_element)
  BY <1>2, <1>5 DEF PendingIs, Likewise
<1>8. /\ pc' = "attrs" /\ UNCHANGED <<failure, structured_failure>>
      /\ UNCHANGED <<current_parent, pending_element, open_element, pending_text, closing,
                     tokens, result>>
  BY DEF Continue, handlerVars, parserVars
<1>9. Stack' = open_element /\ OpenAfter(tokens')[Counted'] = before
      /\ Len(Stack') - closing' = Len(open_element)
  BY <1>1, <1>5, <1>8 DEF Stack, Counted
<1>10. RunInv'
  BY <1>3, <1>4, <1>5, <1>6, <1>7, <1>8, <1>9 DEF RunInv
<1>11. AllCovered(ms, tokens, pending_text)
  <2>1. \A i : Covered(ms, i) <=> Covered(nodes, i)
    BY <1>1, <1>2, CoveredSame
  <2> QED
    BY <2>1, <1>1 DEF TextInv, AllCovered
<1>12. PendingText(ms, tokens, pending_text)
  BY <1>5 DEF PendingText
<1> QED
  BY <1>1, <1>2, <1>3, <1>8, <1>10, <1>11, <1>12, Going DEF Running

\* The element at hand is the last node.
LEMMA AtHand ==
  ASSUME CompileInv, pc = "attrs"
  PROVE  /\ PendingIs(nodes, tokens, pending_element) /\ pending_element = Len(nodes)
         /\ nodes \in Seq(Node(AllTags)) /\ nodes[Len(nodes)] \in Node(AllTags)
         /\ Len(nodes) \in 2..Len(nodes) /\ blocks \in Nat
<1>1. /\ RunInv /\ RepInv(nodes, tokens, blocks)
  BY RunFacts DEF Running
<1>2. nodes \in Seq(Node(AllTags)) /\ Len(nodes) \in Nat /\ blocks \in Nat
  BY <1>1, RepFacts
<1>3. PendingIs(nodes, tokens, pending_element)
  BY <1>1 DEF RunInv
<1>4. pending_element = Len(nodes) /\ Len(nodes) \in 2..Len(nodes)
  BY <1>2, <1>3 DEF PendingIs
<1> QED
  BY <1>2, <1>3, <1>4

LEMMA MoreAttrs ==
  ASSUME NEW n \in Node(AllTags)
  PROVE  LET x == [n EXCEPT !.attrs = n.attrs + 1]
         IN  x \in Node(AllTags) /\ Likewise(x, n) /\ NodeBlocks(x) = NodeBlocks(n) + 3
<1> DEFINE x == [n EXCEPT !.attrs = n.attrs + 1]
<1>1. n.attrs \in Nat
  BY DEF Node
<1>2. x \in Node(AllTags)
  BY <1>1 DEF Node
<1>3. Likewise(x, n)
  BY DEF Node, Likewise
<1>4. x.attrs = n.attrs + 1 /\ x.type = n.type /\ x.directives = n.directives
  BY DEF Node
<1> HIDE DEF x
<1>5. NodeBlocks(x) = NodeBlocks(n) + 3
  BY <1>1, <1>4 DEF NodeBlocks
<1> QED
  BY <1>2, <1>3, <1>5 DEF x

LEMMA PlainAttributeStep ==
  ASSUME CompileInv, stuck' \in Nat, PlainAttribute
  PROVE  CompileInv'
<1> DEFINE last == nodes[Len(nodes)]
           x == [last EXCEPT !.attrs = last.attrs + 1]
<1>1. pc = "attrs" /\ UNCHANGED <<handlerVars, parserVars, tokens, result>>
  BY DEF PlainAttribute
<1>2. /\ pending_element = Len(nodes) /\ nodes \in Seq(Node(AllTags))
      /\ last \in Node(AllTags) /\ blocks \in Nat
  BY <1>1, AtHand
<1>3. CASE /\ nodes' = [nodes EXCEPT ![pending_element].attrs = @ + 1]
           /\ blocks' = blocks + 3
           /\ Continue("attrs")
  <2>1. nodes' = [nodes EXCEPT ![Len(nodes)] = x]
    BY <1>2, <1>3
  <2>2. x \in Node(AllTags) /\ Likewise(x, last) /\ NodeBlocks(x) = NodeBlocks(last) + 3
    BY <1>2, MoreAttrs
  <2> HIDE DEF x
  <2> QED
    BY <1>1, <1>3, <2>1, <2>2, AttrsGrow DEF last
<1>4. CASE BuildFails(AppendAttr, blocks) /\ UNCHANGED nodes
  <2>1. blocks' = blocks /\ Raise
    BY <1>2, <1>4, Built DEF Constructors
  <2> QED
    BY <2>1, <1>1, <1>4, StopHere DEF Raise, Running
<1> QED
  BY <1>3, <1>4 DEF PlainAttribute

LEMMA DirectiveStep ==
  ASSUME CompileInv, stuck' \in Nat, Directive
  PROVE  CompileInv'
<1> DEFINE last == nodes[Len(nodes)]
           x == [last EXCEPT !.directives = TRUE]
<1>1. pc = "attrs" /\ UNCHANGED <<handlerVars, parserVars, tokens, result>>
  BY DEF Directive
<1>2. /\ pending_element = Len(nodes) /\ nodes \in Seq(Node(AllTags))
      /\ last \in Node(AllTags) /\ blocks \in Nat
  BY <1>1, AtHand
<1>3. CASE /\ ~nodes[pending_element].directives
           /\ nodes' = [nodes EXCEPT ![pending_element].directives = TRUE]
           /\ blocks' = blocks + 1
           /\ Continue("attrs")
  <2>1. nodes' = [nodes EXCEPT ![Len(nodes)] = x] /\ ~last.directives
    BY <1>2, <1>3
  <2> HIDE DEF last
  <2>2. x \in Node(AllTags) /\ x.attrs = last.attrs /\ last.attrs \in Nat
        /\ x.type = last.type /\ x.directives = TRUE
    BY <1>2 DEF Node
  <2>3. Likewise(x, last)
    BY <1>2 DEF Node, Likewise
  <2> HIDE DEF x
  <2>4. NodeBlocks(x) = NodeBlocks(last) + 1
    BY <2>1, <2>2 DEF NodeBlocks
  <2> QED
    BY <1>1, <1>3, <2>1, <2>2, <2>3, <2>4, AttrsGrow DEF last
<1>4. CASE BuildFails(SetData, blocks) /\ UNCHANGED nodes
  <2>1. blocks' = blocks /\ Raise
    BY <1>2, <1>4, Built DEF Constructors
  <2> QED
    BY <2>1, <1>1, <1>4, StopHere DEF Raise, Running
<1>5. CASE Raise /\ UNCHANGED <<nodes, blocks, stuck>>
  BY <1>1, <1>5, StopHere DEF Raise, Running
<1> QED
  BY <1>3, <1>4, <1>5 DEF Directive

\* ir_append_child accepts the element at hand.
LEMMA AtHandFits ==
  ASSUME CompileInv, pc = "attrs"
  PROVE  CanAppend(nodes, current_parent, pending_element)
<1>1. /\ current_parent \in 1..Len(nodes) /\ nodes[current_parent].linked
      /\ nodes[current_parent].type \in {"root", "element"}
  BY ParentFacts
<1>2. pending_element = Len(nodes) /\ Len(nodes) \in 2..Len(nodes)
      /\ ~nodes[pending_element].linked /\ nodes[pending_element].type = "element"
  BY AtHand DEF PendingIs
<1> QED
  BY <1>1, <1>2 DEF CanAppend, NoNode


\* on_start_tag_end: the element is linked to its parent, and becomes the parent
\* if it has content.
LEMMA StartTagEndStep ==
  ASSUME CompileInv, stuck' \in Nat, StartTagEnd
  PROVE  CompileInv'
<1> DEFINE L == Len(nodes)
           ms == AppendChild(nodes, current_parent, pending_element)
           before == OpenAfter(tokens)[Len(tokens) - 1]
           tag == nodes[Len(nodes)].tag
           void == nodes[Len(nodes)].tag \in VoidTags
<1>1. pc = "attrs" /\ UNCHANGED <<blocks, parserVars, tokens, result>>
  BY DEF StartTagEnd
<1>2. /\ RepInv(nodes, tokens, blocks) /\ RunInv /\ TextInv /\ L \in Nat
      /\ Placed(nodes, tokens)
      /\ open_element \in Seq(Tags) /\ Len(open_element) \in Nat
      /\ tokens \in Seq(Tokens) /\ Len(tokens) <= MaxTokens
      /\ closing \in 0..Len(open_element)
      /\ pending_text \in (0..MaxTokens) \X (0..MaxTokens)
  BY <1>1, RunFacts DEF Running
<1>3. PendingIs(nodes, tokens, pending_element) /\ pending_element = L /\ L \in 2..L
  BY <1>1, AtHand
<1>4. /\ current_parent \in 1..L /\ nodes[current_parent].linked
      /\ nodes[current_parent].type \in {"root", "element"}
      /\ nodes[current_parent].start = Innermost(before)
      /\ StackIs(nodes, open_element, current_parent, Len(open_element), before)
      /\ closing = 0 /\ pending_text = NoText
  BY <1>1, <1>2, ParentFacts DEF Stack, Counted, RunInv
<1>5. /\ CanAppend(nodes, current_parent, pending_element)
      /\ nodes' = ms /\ pending_element' = NoNode
      /\ current_parent' = IF void THEN current_parent ELSE L
      /\ Continue(IF void THEN "token" ELSE "push")
  BY <1>1, <1>3, AtHandFits DEF StartTagEnd
<1>6. /\ nodes[L].start = Len(tokens) /\ ~nodes[L].linked /\ nodes[L].type = "element"
      /\ Len(tokens) \in 1..Len(tokens) /\ tokens[Len(tokens)].kind = "open"
      /\ tag \in Tags /\ tokens[Len(tokens)].tag = tag
  BY <1>2, <1>3 DEF PendingIs, Placed
<1> HIDE DEF ms, void
<1>7. /\ RepInv(ms, tokens, blocks) /\ AllLinked(ms) /\ Grown(nodes, ms)
      /\ Len(ms) = L /\ ms[L].parent = current_parent
  <2>1. nodes[current_parent].start = Innermost(OpenAfter(tokens)[nodes[Len(nodes)].start - 1])
    BY <1>4, <1>6
  <2>2. RepInv(nodes, tokens, blocks) /\ Len(nodes) >= 2 /\ ~nodes[Len(nodes)].linked
    BY <1>2, <1>3, <1>6
  <2>3. ms = AppendChild(nodes, current_parent, Len(nodes))
    BY <1>3 DEF ms
  <2>4. current_parent \in 1..Len(nodes) /\ nodes[current_parent].linked
        /\ nodes[current_parent].type \in {"root", "element"}
    BY <1>4
  <2> HIDE DEF before
  <2>5. /\ RepInv(AppendChild(nodes, current_parent, Len(nodes)), tokens, blocks)
        /\ AllLinked(AppendChild(nodes, current_parent, Len(nodes)))
        /\ Grown(nodes, AppendChild(nodes, current_parent, Len(nodes)))
        /\ Len(AppendChild(nodes, current_parent, Len(nodes))) = Len(nodes)
        /\ AppendChild(nodes, current_parent, Len(nodes))[Len(nodes)].parent = current_parent
    BY <2>1, <2>2, <2>4, RepLink
  <2> QED
    BY <2>3, <2>5
<1>8. OpenAfter(tokens)[Len(tokens)] = IF void THEN before ELSE before \cup {Len(tokens)}
  <2>1. OpenAfter(tokens)[Len(tokens)] = OpenStep(tokens, Len(tokens), before)
    BY <1>2, <1>6, OpenAt
  <2> HIDE DEF before
  <2> QED
    BY <2>1, <1>6 DEF OpenStep, void
<1> HIDE DEF before
<1>9. StackIs(ms, open_element, current_parent, Len(open_element), before)
  <2>1. Len(open_element) \in 0..Len(open_element)
    BY <1>2
  <2> QED
    BY <2>1, <1>2, <1>4, <1>7, StackGrown
<1>10. /\ pc' = (IF void THEN "token" ELSE "push")
       /\ UNCHANGED <<failure, structured_failure>>
       /\ UNCHANGED <<open_element, pending_text, closing, tokens, blocks, result>>
  BY <1>1, <1>5 DEF Continue, parserVars
<1>11. ms # <<>>
  BY <1>7, RepFacts
<1>12. ms[L].tag = tag /\ ms[L].start = Len(tokens) /\ ms[L].type = "element" /\ ms[L].linked
  BY <1>3, <1>6, <1>7 DEF Grown, AllLinked
<1>13. ASSUME void PROVE RunInv'
  <2>1. Stack' = open_element /\ Counted' = Len(tokens)
        /\ Len(Stack') - closing' = Len(open_element)
    BY <1>2, <1>4, <1>10, <1>13 DEF Stack, Counted
  <2>2. RunInv'
    BY <2>1, <1>4, <1>5, <1>7, <1>8, <1>9, <1>10, <1>11, <1>13 DEF RunInv
  <2> QED
    BY <2>2
<1>14. ASSUME ~void PROVE RunInv'
  <2>1. StackIs(ms, Append(open_element, tag), L, Len(open_element) + 1,
                before \cup {Len(tokens)})
    <3>1. L \in 2..Len(ms) /\ current_parent < L /\ Len(ms) \in Nat
      <4>1. current_parent # L
        BY <1>4, <1>6
      <4> QED
        BY <4>1, <1>2, <1>3, <1>4, <1>7
    <3>2. ms[L].tag \in Tags /\ ms[L].parent = current_parent
      BY <1>6, <1>7, <1>12
    <3> HIDE DEF L, tag
    <3>3. StackIs(ms, Append(open_element, ms[L].tag), L, Len(open_element) + 1,
                  before \cup {ms[L].start})
      BY <3>1, <3>2, <1>2, <1>9, <1>12, StackPush
    <3> QED
      BY <3>3, <1>12
  <2>2. Stack' = Append(open_element, tag) /\ Counted' = Len(tokens)
        /\ Len(Stack') - closing' = Len(open_element) + 1
    <3>1. nodes'[current_parent'].tag = tag
      BY <1>5, <1>12, <1>14
    <3>2. Stack' = Append(open_element, tag) /\ Counted' = Len(tokens)
      BY <3>1, <1>10, <1>14 DEF Stack, Counted
    <3>3. Len(Append(open_element, tag)) = Len(open_element) + 1
      BY <1>2, <1>6
    <3> QED
      BY <3>2, <3>3, <1>2, <1>4, <1>10
  <2>3. RunInv'
    BY <2>1, <2>2, <1>4, <1>5, <1>7, <1>8, <1>10, <1>11, <1>14 DEF RunInv
  <2> QED
    BY <2>3
<1>15. RunInv'
  BY <1>13, <1>14
<1>16. AllCovered(ms, tokens, pending_text)
  <2>1. \A i : Covered(ms, i) <=> Covered(nodes, i)
    BY <1>2, <1>7, CoveredSame
  <2> QED
    BY <2>1, <1>2 DEF TextInv, AllCovered
<1>17. PendingText(ms, tokens, pending_text)
  BY <1>4 DEF PendingText
<1>18. current_parent' \in 0..Len(nodes') /\ pending_element' \in 0..Len(nodes')
       /\ pc' \in Running
  BY <1>2, <1>3, <1>4, <1>5, <1>7, <1>10 DEF NoNode, Running
<1> QED
  BY <1>1, <1>2, <1>5, <1>7, <1>10, <1>15, <1>16, <1>17, <1>18, Going DEF Running

LEMMA PushOpenStep ==
  ASSUME CompileInv, stuck' \in Nat, PushOpen
  PROVE  CompileInv'
<1> DEFINE tag == nodes[current_parent].tag
           new == Append(open_element, nodes[current_parent].tag)
<1>1. pc = "push"
      /\ UNCHANGED <<nodes, blocks, handlerVars, pending_text, closing, tokens, result>>
  BY DEF PushOpen
<1>2. /\ RepInv(nodes, tokens, blocks) /\ RunInv /\ TextInv /\ nodes # <<>>
      /\ open_element \in Seq(Tags) /\ Len(open_element) \in Nat
      /\ tokens \in Seq(Tokens) /\ Len(tokens) <= MaxTokens
      /\ closing \in 0..Len(open_element)
      /\ current_parent \in 0..Len(nodes) /\ pending_element \in 0..Len(nodes)
      /\ pending_text \in (0..MaxTokens) \X (0..MaxTokens)
      /\ structured_failure = FALSE
  BY <1>1, RunFacts, RepFacts DEF Running
<1>3. /\ StackIs(nodes, new, current_parent, Len(new), OpenAfter(tokens)[Len(tokens)])
      /\ closing = 0 /\ pending_element = NoNode /\ AllLinked(nodes)
      /\ Len(new) > 0 => tag \in Tags
  BY <1>1, <1>2, ParentFacts DEF Stack, Counted, RunInv
<1>4. Len(new) = Len(open_element) + 1
  BY <1>2
<1>5. new \in Seq(Tags)
  BY <1>2, <1>3, <1>4
<1> HIDE DEF new
<1>6. CASE open_element' = new /\ Continue("token")
  <2>1. pc' = "token" /\ UNCHANGED <<failure, structured_failure>>
        /\ UNCHANGED <<nodes, blocks, current_parent, pending_element, pending_text, closing,
                       tokens, result>>
    BY <1>1, <1>6 DEF Continue, handlerVars
  <2>2. Stack' = new /\ Counted' = Len(tokens) /\ Len(Stack') - closing' = Len(new)
    BY <1>2, <1>3, <1>4, <1>6, <2>1 DEF Stack, Counted
  <2>3. RunInv'
    BY <1>2, <1>3, <2>1, <2>2 DEF RunInv
  <2>4. closing' \in 0..Len(open_element') /\ open_element' \in Seq(Tags)
    BY <1>2, <1>3, <1>4, <1>5, <1>6, <2>1
  <2> QED
    BY <1>1, <1>2, <2>1, <2>3, <2>4, Going DEF Running, TextInv
<1>7. CASE Abort /\ UNCHANGED open_element
  BY <1>1, <1>2, <1>7, StopHere DEF Abort, Running, parserVars
<1> QED
  BY <1>6, <1>7 DEF PushOpen, new

LEMMA EndOfInputStep ==
  ASSUME CompileInv, stuck' \in Nat, EndOfInput
  PROVE  CompileInv'
<1>1. pc = "token" /\ UNCHANGED <<tokens, result>>
  BY DEF EndOfInput
<1>2. /\ RepInv(nodes, tokens, blocks) /\ TextInv /\ Len(tokens) \in Nat /\ MaxTokens \in Nat
      /\ open_element \in Seq(Tags) /\ Len(nodes) \in Nat
      /\ tokens \in Seq(Tokens) /\ Len(tokens) <= MaxTokens
      /\ closing \in 0..Len(open_element)
      /\ current_parent \in 0..Len(nodes) /\ pending_element \in 0..Len(nodes)
      /\ result \in Results /\ result \notin {"ir", "error_value"}
      /\ structured_failure = FALSE /\ failure = "none"
  BY <1>1, RunFacts DEF Running
<1>3. CASE FlushFails
  <2>1. RepInv(nodes, tokens', blocks) /\ tokens' \in Seq(Tokens) /\ Len(tokens') <= MaxTokens
    BY <1>1, <1>2
  <2> QED
    BY <2>1, <1>1, <1>3, FlushFailing
<1>4. CASE /\ nodes' = Flushed /\ blocks' = FlushedBlocks
           /\ pending_text' = NoText
           /\ Continue("return")
           /\ UNCHANGED <<handlerVars, open_element, closing>>
  <2>1. /\ RepInv(Flushed, tokens, FlushedBlocks) /\ Len(Flushed) \in Nat
        /\ Len(nodes) <= Len(Flushed)
        /\ \A i \in 1..Len(tokens) :
              Covered(Flushed, i)
                <=> Covered(nodes, i) \/ Covers(pending_text[1], pending_text[2], i)
    BY <1>1, <1>2, FlushFacts
  <2>2. Flushed \in Seq(Node(AllTags)) /\ Flushed # <<>> /\ FlushedBlocks \in Nat
    BY <2>1, RepFacts
  <2>3. \A i \in 1..Len(tokens) : ~Covers(NoText[1], NoText[2], i)
    BY <1>2 DEF NoText, Covers
  <2>4. AllCovered(Flushed, tokens, NoText) /\ PendingText(Flushed, tokens, NoText)
    BY <1>2, <2>1, <2>3 DEF TextInv, AllCovered, PendingText
  <2>5. pc' = "return" /\ UNCHANGED <<failure, structured_failure, tokens, result>>
        /\ UNCHANGED <<current_parent, pending_element, open_element, closing>>
        /\ closing = 0
    BY <1>1, <1>4, ParentFacts DEF Continue, handlerVars
  <2>6. NoText \in (0..MaxTokens) \X (0..MaxTokens)
    BY <1>2 DEF NoText
  <2>7. TypeOK'
    <3>1. current_parent' \in 0..Len(nodes') /\ pending_element' \in 0..Len(nodes')
      BY <1>2, <1>4, <2>1, <2>5
    <3>2. closing' \in 0..Len(open_element') /\ open_element' \in Seq(Tags)
      BY <1>2, <2>5
    <3> QED
      BY <3>1, <3>2, <1>2, <1>4, <2>2, <2>5, <2>6 DEF TypeOK, Failures, AllTags
  <2>8. TextInv'
    BY <1>4, <2>4, <2>5 DEF TextInv
  <2> QED
    BY <1>2, <1>4, <2>1, <2>2, <2>5, <2>7, <2>8 DEF CompileInv
<1> QED
  BY <1>3, <1>4 DEF EndOfInput

LEMMA TokenizerFailsStep ==
  ASSUME CompileInv, stuck' \in Nat, TokenizerFails
  PROVE  CompileInv'
<1>1. pc \in Running
  BY DEF TokenizerFails, Running
<1>2. structured_failure = FALSE
  BY <1>1, RunFacts
<1>3. CASE UNCHANGED <<nodes, blocks, pending_text>>
  BY <1>1, <1>2, <1>3, StopHere DEF TokenizerFails, Abort, parserVars
<1>4. CASE /\ pc = "token" /\ nodes' = Flushed /\ blocks' = FlushedBlocks
           /\ pending_text' = NoText
  <2>1. RepInv(nodes, tokens, blocks) /\ Len(tokens) \in Nat /\ tokens \in Seq(Tokens)
        /\ Len(tokens) <= MaxTokens /\ TextInv
        /\ open_element \in Seq(Tags) /\ closing \in 0..Len(open_element)
        /\ current_parent \in 0..Len(nodes) /\ pending_element \in 0..Len(nodes)
        /\ Len(nodes) \in Nat /\ MaxTokens \in Nat
    BY <1>1, RunFacts
  <2>2. RepInv(Flushed, tokens, FlushedBlocks) /\ Len(nodes) <= Len(Flushed)
        /\ Len(Flushed) \in Nat
    BY <1>4, <2>1, FlushFacts
  <2>3. UNCHANGED <<current_parent, pending_element, open_element, closing, tokens, result>>
    BY DEF TokenizerFails, handlerVars
  <2>4. current_parent' \in 0..Len(nodes') /\ pending_element' \in 0..Len(nodes')
    BY <1>4, <2>1, <2>2, <2>3
  <2>5. NoText \in (0..MaxTokens) \X (0..MaxTokens)
    BY <2>1 DEF NoText
  <2>6. pc' = "return" /\ failure' = "status" /\ structured_failure' = FALSE
    BY <1>2 DEF TokenizerFails, Abort
  <2> QED
    BY <1>1, <1>4, <2>1, <2>2, <2>3, <2>4, <2>5, <2>6, Failing
<1> QED
  BY <1>3, <1>4 DEF TokenizerFails

LEMMA ReturnStep ==
  ASSUME CompileInv, stuck' \in Nat, Return
  PROVE  CompileInv'
<1>1. /\ pc = "return" /\ pc' = "done"
      /\ UNCHANGED <<nodes, blocks, current_parent, pending_element, structured_failure,
                     open_element, pending_text, closing, tokens, failure>>
  BY DEF Return, ReturnError, handlerVars, parserVars
<1>2. /\ result' \in Results /\ result' # "error_value"
      /\ result' = "ir" => failure = "none"
  BY DEF Return, ReturnError, CompileInv, Results
<1>3. TypeOK'
  BY <1>1, <1>2 DEF CompileInv, TypeOK
<1>4. TextInv' <=> TextInv
  BY <1>1 DEF TextInv
<1> QED
  BY <1>1, <1>2, <1>3, <1>4 DEF CompileInv


\* The representation with only its root.
LEMMA RootRep ==
  LET ns == <<InitNode("root", NoTag, 0, 0)>>
  IN  /\ RepInv(ns, <<>>, SourceBlocks + 1) /\ AllLinked(ns) /\ Len(ns) = 1
      /\ StackIs(ns, <<>>, 1, 0, {})
<1> DEFINE n == InitNode("root", NoTag, 0, 0)
           ns == <<n>>
<1>1. n \in Node(AllTags)
  BY DEF InitNode, Node, NodeTypes, NoNode, AllTags
<1>2. n.type = "root" /\ n.linked /\ n.parent = NoNode /\ n.start = 0 /\ n.end = 0
      /\ n.head = NoNode /\ n.tail = NoNode /\ n.count = 0
      /\ n.attrs = 0 /\ n.directives = FALSE
  BY DEF InitNode
<1> HIDE DEF n
<1>3. ns \in Seq(Node(AllTags)) /\ Len(ns) = 1 /\ ns[1] = n /\ DOMAIN ns = 1..1
      /\ ns = Append(<<>>, n) /\ ns # <<>>
  BY <1>1
<1>4. Total(ns) = SourceBlocks + 1
  <2>1. <<>> \in Seq(Node(AllTags)) /\ Len(<<>>) = 0
    OBVIOUS
  <2>2. Total(ns) = Total(<<>>) + NodeBlocks(n)
    BY <1>1, <1>3, <2>1, TotalAppend
  <2>3. PICK f : Sums(<<>>, f) /\ Total(<<>>) = f[Len(<<>>)]
    BY <2>1, TotalSums
  <2>4. Total(<<>>) = SourceBlocks
    BY <2>1, <2>3 DEF Sums
  <2> QED
    BY <2>2, <2>4, <1>2 DEF NodeBlocks, SourceBlocks
<1> HIDE DEF ns
<1>5. Children(ns, 1) = {}
  BY <1>2, <1>3 DEF Children, NoNode
<1>6. ListOf(ns, 1)
  <2>1. Cardinality({}) = 0
    BY FS_EmptySet
  <2> QED
    BY <2>1, <1>2, <1>3, <1>5 DEF ListOf
<1>7. RootFirst(ns)
  BY <1>2, <1>3 DEF RootFirst
<1>8. TreeShape(ns) /\ Placed(ns, <<>>) /\ Nested(ns, <<>>)
  <2>1. \A c \in 2..Len(ns) : FALSE
    BY <1>3
  <2>2. \A p \in 1..Len(ns) : p = 1
    BY <1>3
  <2> QED
    BY <2>1, <2>2, <1>3, <1>6, <1>7 DEF TreeShape, Placed, Nested
<1>9. AllLinked(ns)
  BY <1>2, <1>3 DEF AllLinked
<1>10. StackIs(ns, <<>>, 1, 0, {})
  <2> DEFINE P == [i \in 1..Len(<<>>) |-> 2]
  <2>1. Len(<<>>) = 0 /\ \A i \in 1..Len(<<>>) : FALSE
    OBVIOUS
  <2>2. P \in [1..Len(<<>>) -> 2..Len(ns)]
    BY <2>1
  <2> HIDE DEF P
  <2>3. SpineOf(ns, <<>>, 1, P)
    BY <2>1, <2>2 DEF SpineOf
  <2>4. StartsOf(ns, P, 0) = {}
    BY DEF StartsOf
  <2> QED
    BY <2>2, <2>3, <2>4 DEF StackIs
<1> QED
  BY <1>3, <1>4, <1>8, <1>9, <1>10 DEF RepInv, ns, n

\* The root node, or a failure before any token.
LEMMA PrepareStep ==
  ASSUME CompileInv, stuck' \in Nat, Prepare
  PROVE  CompileInv'
<1>1. /\ pc = "call" /\ UNCHANGED <<open_element, pending_text, closing, tokens>>
      /\ nodes = <<>> /\ tokens = <<>> /\ open_element = <<>>
      /\ pending_element = NoNode /\ pending_text = NoText /\ closing = 0
      /\ failure = "none" /\ TypeOK /\ TextInv /\ result \notin {"ir", "error_value"}
      /\ (structured_failure <=> failure = "object")
  BY DEF Prepare, parserVars, CompileInv
<1>2. CASE /\ \/ ReturnError /\ UNCHANGED <<blocks, stuck>>
              \/ PrepareFails(SetSource, 0)
              \/ PrepareFails(NewRoot, SourceBlocks)
           /\ UNCHANGED <<nodes, handlerVars, failure, structured_failure>>
  <2>1. /\ pc' = "done" /\ result' \in {"error_object", "raised"}
        /\ blocks' \in {0, SourceBlocks} /\ blocks' \in Nat
        /\ UNCHANGED <<nodes, current_parent, pending_element, failure, structured_failure>>
    <3>1. SetSource \in Constructors /\ NewRoot \in Constructors
      BY DEF Constructors
    <3>2. ASSUME NEW c \in Constructors, NEW before \in Nat, PrepareFails(c, before)
          PROVE  ReturnError /\ blocks' = before
      <4>1. PICK f \in FailuresOf(c) : Lose(f, before) /\ ReturnError
        BY <3>2 DEF PrepareFails
      <4>2. f.left = 0
        BY NothingLeft
      <4> QED
        BY <4>1, <4>2 DEF Lose
    <3>3. ReturnError /\ blocks' \in {0, SourceBlocks}
      <4>1. CASE ReturnError /\ UNCHANGED <<blocks, stuck>>
        <5>1. blocks \in {0, SourceBlocks}
          BY <1>1 DEF CompileInv
        <5> QED
          BY <4>1, <5>1
      <4>2. CASE PrepareFails(SetSource, 0)
        BY <3>1, <3>2, <4>2
      <4>3. CASE PrepareFails(NewRoot, SourceBlocks)
        BY <3>1, <3>2, <4>3 DEF SourceBlocks
      <4> QED
        BY <1>2, <4>1, <4>2, <4>3
    <3> QED
      BY <1>2, <3>3 DEF ReturnError, SourceBlocks, handlerVars
  <2>2. TypeOK'
    BY <1>1, <2>1 DEF TypeOK, Results
  <2>3. TextInv'
    BY <1>1, <2>1 DEF TextInv
  <2>4. Len(tokens') <= MaxTokens
    BY <1>1 DEF CompileInv
  <2> QED
    BY <1>1, <2>1, <2>2, <2>3, <2>4 DEF CompileInv
<1>3. CASE /\ nodes' = <<InitNode("root", NoTag, 0, 0)>>
           /\ blocks' = SourceBlocks + 1
           /\ current_parent' = 1
           /\ Continue("token")
           /\ UNCHANGED <<pending_element, result>>
  <2>1. /\ RepInv(nodes', tokens', blocks') /\ AllLinked(nodes') /\ Len(nodes') = 1
        /\ StackIs(nodes', <<>>, 1, 0, {})
    BY <1>1, <1>3, RootRep
  <2>2. /\ nodes' \in Seq(Node(AllTags)) /\ nodes' # <<>> /\ blocks' \in Nat
    BY <2>1, RepFacts
  <2>3. pc' = "token" /\ UNCHANGED <<pending_element, failure, structured_failure, result>>
    BY <1>3 DEF Continue
  <2>4. TypeOK'
    BY <1>1, <1>3, <2>1, <2>2, <2>3 DEF TypeOK, AllTags, NoNode
  <2>5. OpenAfter(<<>>)[0] = {} /\ Len(<<>>) = 0 /\ <<>> \in Seq(Tokens)
        /\ Len(<<>>) <= MaxTokens
    <3>1. Len(<<>>) = 0 /\ <<>> \in Seq(Tokens) /\ Len(<<>>) <= MaxTokens
      BY CompileAssumption
    <3> QED
      BY <3>1, OpenAt
  <2>6. Stack' = <<>> /\ Counted' = 0 /\ Len(Stack') - closing' = 0
    BY <1>1, <2>3, <2>5 DEF Stack, Counted
  <2>7. RunInv'
    BY <1>1, <1>3, <2>1, <2>2, <2>3, <2>5, <2>6 DEF RunInv
  <2>8. TextInv'
    <3>1. \A i \in 1..Len(tokens') : FALSE
      BY <1>1, <2>5
    <3> QED
      BY <3>1, <1>1 DEF TextInv, AllCovered, PendingText
  <2> QED
    BY <1>1, <2>1, <2>2, <2>3, <2>4, <2>5, <2>7, <2>8 DEF CompileInv
<1> QED
  BY <1>2, <1>3 DEF Prepare

LEMMA CompileInit == Init => CompileInv
<1> SUFFICES ASSUME Init PROVE CompileInv
  OBVIOUS
<1>1. MaxTokens \in Nat /\ Len(<<>>) = 0
  BY CompileAssumption
<1>2. /\ pc = "call" /\ nodes = <<>> /\ blocks = 0 /\ tokens = <<>> /\ open_element = <<>>
      /\ current_parent = NoNode /\ pending_element = NoNode /\ structured_failure = FALSE
      /\ pending_text = NoText /\ closing = 0 /\ failure = "none" /\ result = "none"
  BY DEF Init
<1>2a. stuck \in Nat
  BY DEF Init
<1>3. TypeOK
  <2>1. nodes \in Seq(Node(Tags \cup {NoTag})) /\ tokens \in Seq(Tokens)
        /\ open_element \in Seq(Tags)
    BY <1>2
  <2>2. pending_text \in (0..MaxTokens) \X (0..MaxTokens)
    BY <1>1, <1>2 DEF NoText
  <2>3. /\ current_parent \in 0..Len(nodes) /\ pending_element \in 0..Len(nodes)
        /\ closing \in 0..Len(open_element) /\ blocks \in Nat
    BY <1>1, <1>2 DEF NoNode
  <2> QED
    BY <2>1, <2>2, <2>3, <1>2, <1>2a DEF TypeOK, Failures, Results
<1>4. TextInv
  <2>1. \A i \in 1..Len(tokens) : FALSE
    BY <1>1, <1>2
  <2> QED
    BY <2>1, <1>2 DEF TextInv, AllCovered, PendingText
<1> QED
  BY <1>1, <1>2, <1>3, <1>4 DEF CompileInv

LEMMA CompileStep == CompileInv /\ StuckInv /\ [Next]_vars => CompileInv' /\ StuckInv'
<1> SUFFICES ASSUME CompileInv, StuckInv, [Next]_vars PROVE CompileInv'
  BY StuckStep
<1>0. stuck' \in Nat
  BY StuckStep DEF StuckInv
<1>1. CASE Prepare
  BY <1>0, <1>1, PrepareStep
<1>2. CASE Text
  BY <1>0, <1>2, TextStep
<1>3. CASE Dropped
  BY <1>0, <1>3, DroppedStep
<1>4. CASE Comment
  BY <1>0, <1>4, CommentStep
<1>5. CASE Other
  BY <1>0, <1>5, OtherStep
<1>6. CASE \E tag \in Tags : Close(tag)
  BY <1>0, <1>6, CloseStep
<1>7. CASE CloseOne
  BY <1>0, <1>7, CloseOneStep
<1>8. CASE \E tag \in Tags : Open(tag)
  BY <1>0, <1>8, OpenTagStep
<1>9. CASE PlainAttribute
  BY <1>0, <1>9, PlainAttributeStep
<1>10. CASE Directive
  BY <1>0, <1>10, DirectiveStep
<1>11. CASE StartTagEnd
  BY <1>0, <1>11, StartTagEndStep
<1>12. CASE PushOpen
  BY <1>0, <1>12, PushOpenStep
<1>13. CASE EndOfInput
  BY <1>0, <1>13, EndOfInputStep
<1>14. CASE TokenizerFails
  BY <1>0, <1>14, TokenizerFailsStep
<1>15. CASE Return
  BY <1>0, <1>15, ReturnStep
<1>16. CASE UNCHANGED vars
  <2>1. UNCHANGED <<pc, nodes, blocks, current_parent, pending_element, structured_failure,
                    open_element, pending_text, closing, tokens, failure, result>>
    BY <1>16 DEF vars, handlerVars, parserVars
  <2>2. TypeOK'
    BY <1>0, <2>1 DEF CompileInv, TypeOK
  <2>3. RunInv' <=> RunInv
    BY <2>1 DEF RunInv, Stack, Counted
  <2>4. TextInv' <=> TextInv
    BY <2>1 DEF TextInv
  <2> QED
    BY <2>1, <2>2, <2>3, <2>4 DEF CompileInv
<1> QED
  BY <1>1, <1>2, <1>3, <1>4, <1>5, <1>6, <1>7, <1>8, <1>9, <1>10, <1>11, <1>12, <1>13,
     <1>14, <1>15, <1>16 DEF Next, Returned

LEMMA CompileAlways == Spec => []CompileInv /\ []StuckInv
<1>1. Init => StuckInv
  BY DEF Init, StuckInv
<1> QED
  BY <1>1, CompileInit, CompileStep, PTL DEF Spec


-----------------------------------------------------------------------------
(* The path from the root *)

\* The equation of PathTo, for the first N nodes.
PathSolved(ns, N, f) ==
    f = [n \in 0..N |-> IF n = NoNode \/ ns[n].type = "root" THEN <<>>
                        ELSE Append(f[ns[n].parent], ns[n].tag)]

\* It has a solution, because a parent is older than its children.
LEMMA PathExists ==
  ASSUME NEW ns, TreeShape(ns)
  PROVE  \A N \in Nat : N <= Len(ns) => \E f : PathSolved(ns, N, f)
<1>1. /\ Len(ns) \in Nat /\ ns[1].type = "root"
      /\ \A c \in 2..Len(ns) : ns[c].parent \in 0..(c - 1)
  <2>1. Len(ns) \in Nat /\ RootFirst(ns) /\ \A c \in 2..Len(ns) : Ordered(ns, c)
    BY DEF TreeShape
  <2>2. \A c \in 2..Len(ns) : ns[c].parent \in 1..(c - 1) \/ ns[c].parent = NoNode
    BY <2>1 DEF Ordered
  <2> QED
    BY <2>1, <2>2 DEF RootFirst, NoNode
<1> DEFINE S == {N \in Nat : N <= Len(ns) => \E f : PathSolved(ns, N, f)}
<1>2. 0 \in S
  <2>1. PathSolved(ns, 0, [n \in 0..0 |-> <<>>])
    BY DEF PathSolved, NoNode
  <2> QED
    BY <2>1
<1>3. ASSUME NEW N \in S PROVE N + 1 \in S
  <2> SUFFICES ASSUME N + 1 <= Len(ns) PROVE \E f : PathSolved(ns, N + 1, f)
    OBVIOUS
  <2>1. N \in Nat
    OBVIOUS
  <2>2. PICK f : PathSolved(ns, N, f)
    BY <1>1
  <2> DEFINE Step(n, path) == IF n = NoNode \/ ns[n].type = "root" THEN <<>>
                              ELSE Append(path, ns[n].tag)
             up(n) == ns[n].parent
             g == [n \in 0..(N + 1) |-> Step(n, f[up(n)])]
  <2>3. f = [n \in 0..N |-> Step(n, f[up(n)])]
    BY <2>2 DEF PathSolved
  <2>4. \A x, y : Step(0, x) = Step(0, y) /\ Step(1, x) = Step(1, y)
    BY <1>1 DEF NoNode
  <2>5. \A n \in 2..(N + 1) : up(n) \in 0..N
    <3>1. \A n \in 2..(N + 1) : n \in 2..Len(ns) /\ n - 1 <= N
      BY <1>1, <2>1
    <3>2. \A n \in 2..(N + 1) : up(n) \in 0..(n - 1)
      BY <3>1, <1>1
    <3> HIDE DEF up
    <3> QED
      BY <3>1, <3>2, <2>1
  <2> HIDE DEF Step, up
  <2>6. \A n \in 0..N : g[n] = f[n]
    BY <2>1, <2>3
  <2>7. ASSUME NEW n \in 0..(N + 1) PROVE Step(n, f[up(n)]) = Step(n, g[up(n)])
    <3>1. CASE n \in 2..(N + 1)
      <4>1. g[up(n)] = f[up(n)]
        BY <3>1, <2>5, <2>6
      <4> HIDE DEF g
      <4> QED
        BY <4>1
    <3>2. CASE n = 0 \/ n = 1
      BY <3>2, <2>4
    <3> QED
      BY <3>1, <3>2, <2>1
  <2> DEFINE h == g
  <2>8. h = [n \in 0..(N + 1) |-> Step(n, h[up(n)])]
    BY <2>7
  <2> HIDE DEF h, g
  <2>9. PathSolved(ns, N + 1, h)
    BY <2>8 DEF PathSolved, Step, up
  <2> QED
    BY <2>9
<1>4. S \in SUBSET Nat
  OBVIOUS
<1> HIDE DEF S
<1>5. \A N \in Nat : N \in S
  BY <1>2, <1>3, <1>4, Induction
<1> QED
  BY <1>5 DEF S

LEMMA PathIsStack ==
  ASSUME NEW ns, TreeShape(ns), NEW f, PathSolved(ns, Len(ns), f),
         NEW stack \in Seq(Tags), NEW top, NEW k, NEW open, StackIs(ns, stack, top, k, open)
  PROVE  f[top] = stack
<1> DEFINE K == Len(stack)
<1>1. PICK P \in [1..K -> 2..Len(ns)] : SpineOf(ns, stack, top, P)
  BY DEF StackIs
<1> DEFINE at(n) == IF n = 0 THEN 1 ELSE P[n]
           Front(s, n) == s \in Seq(Tags) /\ Len(s) = n /\ \A i \in 1..n : s[i] = stack[i]
           S == {n \in Nat : n <= K => Front(f[at(n)], n)}
<1>2. K \in Nat /\ Len(ns) \in Nat /\ Len(ns) >= 1 /\ ns[1].type = "root"
  BY DEF TreeShape, RootFirst
<1>3. f[1] = <<>>
  BY <1>2 DEF PathSolved
<1>3a. \A q \in 0..Len(ns) : q # NoNode /\ ns[q].type # "root" =>
          f[q] = Append(f[ns[q].parent], ns[q].tag)
  BY DEF PathSolved
<1>4. 0 \in S
  <2>1. at(0) = 1 /\ Front(<<>>, 0)
    OBVIOUS
  <2> HIDE DEF at, Front
  <2> QED
    BY <1>3, <2>1
<1>5. ASSUME NEW n \in S PROVE n + 1 \in S
  <2> SUFFICES ASSUME n + 1 <= K PROVE Front(f[at(n + 1)], n + 1)
    OBVIOUS
  <2>1. n \in Nat /\ n + 1 \in 1..K /\ Front(f[at(n)], n)
    BY <1>2
  <2>2. /\ P[n + 1] \in 2..Len(ns) /\ ns[P[n + 1]].type = "element"
        /\ ns[P[n + 1]].tag = stack[n + 1]
    BY <1>1, <2>1 DEF SpineOf
  <2>3. ns[P[n + 1]].parent = IF n + 1 = 1 THEN 1 ELSE P[n + 1 - 1]
    BY <1>1, <2>1 DEF SpineOf
  <2>4. ns[P[n + 1]].parent = at(n)
    BY <2>1, <2>3
  <2>5. at(n + 1) = P[n + 1]
    BY <2>1
  <2> DEFINE s == f[at(n)]
             t == f[at(n + 1)]
             x == stack[n + 1]
  <2>6. t = Append(s, x)
    <3> DEFINE q == P[n + 1]
    <3>1. q \in 0..Len(ns) /\ q # NoNode /\ ns[q].type # "root"
      BY <2>2, <1>2 DEF NoNode
    <3>2. ns[q].parent = at(n) /\ ns[q].tag = x /\ at(n + 1) = q
      BY <2>2, <2>4, <2>5
    <3> HIDE DEF at, q, x
    <3>3. f[q] = Append(f[ns[q].parent], ns[q].tag)
      BY <3>1, <1>3a
    <3> QED
      BY <3>2, <3>3
  <2>7. s \in Seq(Tags) /\ Len(s) = n /\ (\A i \in 1..n : s[i] = stack[i]) /\ x \in Tags
    BY <2>1
  <2> HIDE DEF s, t, x
  <2>8. t \in Seq(Tags) /\ Len(t) = n + 1 /\ t[n + 1] = x /\ \A i \in 1..n : t[i] = s[i]
    BY <2>1, <2>6, <2>7
  <2>9. \A i \in 1..(n + 1) : t[i] = stack[i]
    <3>1. \A i \in 1..(n + 1) : i \in 1..n \/ i = n + 1
      BY <2>1
    <3> QED
      BY <3>1, <2>7, <2>8 DEF x
  <2> QED
    BY <2>8, <2>9 DEF t
<1>6. S \in SUBSET Nat
  OBVIOUS
<1> HIDE DEF S
<1>7. K \in S
  BY <1>2, <1>4, <1>5, <1>6, Induction
<1>8. Front(f[at(K)], K)
  BY <1>2, <1>7 DEF S
<1>9. at(K) = top
  BY <1>1 DEF SpineOf
<1> HIDE DEF at
<1>10. f[top] \in Seq(Tags) /\ Len(f[top]) = Len(stack)
       /\ \A i \in 1..Len(stack) : f[top][i] = stack[i]
  BY <1>8, <1>9
<1> DEFINE s == f[top]
<1> HIDE DEF s, K
<1>11. s = stack
  BY <1>10, SeqEqual DEF s
<1> QED
  BY <1>11 DEF s

-----------------------------------------------------------------------------
(* What the invariant says of the properties *)

LEMMA OpenIsStillOpen == StillOpen = OpenAfter(tokens)
  BY DEF StillOpen, OpenAfter, OpenStep

LEMMA TreeMatches ==
  ASSUME CompileInv
  PROVE  TreeMatchesTokens
<1> SUFFICES ASSUME NEW c \in DOMAIN nodes, nodes[c].type # "root", nodes[c].linked
             PROVE  nodes[nodes[c].parent].start = Enclosing(nodes[c].start)
  BY DEF TreeMatchesTokens
<1>1. nodes \in Seq(Node(AllTags)) /\ c \in 1..Len(nodes) /\ nodes # <<>>
  BY DEF CompileInv, TypeOK, AllTags
<1>2. TreeShape(nodes) /\ Nested(nodes, tokens)
  BY <1>1 DEF CompileInv, RepInv
<1>3. c \in 2..Len(nodes)
  <2>1. c # 1
    BY <1>2 DEF TreeShape, RootFirst
  <2> QED
    BY <2>1, <1>1
<1>4. nodes[nodes[c].parent].start = Innermost(OpenAfter(tokens)[nodes[c].start - 1])
  BY <1>2, <1>3 DEF Nested
<1> QED
  BY <1>4, OpenIsStillOpen DEF Enclosing, Innermost

LEMMA TokensKept ==
  ASSUME CompileInv
  PROVE  EveryTokenKept
<1> SUFFICES ASSUME failure = "none"
             PROVE  /\ \A i \in 1..Len(tokens) :
                         LET ofNodes == {c \in DOMAIN nodes :
                                           Covers(nodes[c].start, nodes[c].end, i)}
                             pending == Covers(pending_text[1], pending_text[2], i)
                         IN  IF tokens[i].kind \in {"text", "comment", "open"}
                             THEN Cardinality(ofNodes) + (IF pending THEN 1 ELSE 0) = 1
                             ELSE ofNodes = {} /\ ~pending
                    /\ \A a \in DOMAIN nodes : \A b \in DOMAIN nodes :
                         a < b => nodes[a].end < nodes[b].start
  BY DEF EveryTokenKept
<1>1. /\ TextInv /\ nodes \in Seq(Node(AllTags)) /\ Len(nodes) \in Nat
      /\ DOMAIN nodes = 1..Len(nodes)
      /\ pending_text \in (0..MaxTokens) \X (0..MaxTokens)
      /\ Len(tokens) \in Nat
  BY DEF CompileInv, TypeOK, AllTags
<1>2. \A a, b \in 1..Len(nodes) : a < b => nodes[a].end < nodes[b].start
  <2>1. CASE nodes = <<>>
    BY <2>1
  <2>2. CASE nodes # <<>>
    BY <2>2 DEF CompileInv, RepInv, Placed
  <2> QED
    BY <2>1, <2>2
<1>3. \A c \in 1..Len(nodes) : nodes[c].start \in Nat /\ nodes[c].end \in Nat
  <2>1. \A c \in 1..Len(nodes) : nodes[c] \in Node(AllTags)
    BY <1>1
  <2> QED
    BY <2>1 DEF Node
<1>4. ASSUME NEW i \in 1..Len(tokens)
      PROVE  LET ofNodes == {c \in DOMAIN nodes : Covers(nodes[c].start, nodes[c].end, i)}
                 pending == Covers(pending_text[1], pending_text[2], i)
             IN  IF tokens[i].kind \in {"text", "comment", "open"}
                 THEN Cardinality(ofNodes) + (IF pending THEN 1 ELSE 0) = 1
                 ELSE ofNodes = {} /\ ~pending
  <2> DEFINE ofNodes == {c \in DOMAIN nodes : Covers(nodes[c].start, nodes[c].end, i)}
             pending == Covers(pending_text[1], pending_text[2], i)
             kept == tokens[i].kind \in {"text", "comment", "open"}
  <2>1. kept <=> Covered(nodes, i) \/ pending
    BY <1>1 DEF TextInv, AllCovered
  <2>2. Covered(nodes, i) <=> ofNodes # {}
    BY <1>1 DEF Covered
  <2>3. \A c, d \in ofNodes : c = d
    <3> SUFFICES ASSUME NEW c \in ofNodes, NEW d \in ofNodes, c < d PROVE FALSE
      BY <1>1
    <3>1. nodes[c].end < nodes[d].start
      BY <1>1, <1>2
    <3> QED
      BY <3>1, <1>1, <1>3 DEF Covers
  <2>4. ~ (pending /\ ofNodes # {})
    <3> SUFFICES ASSUME pending, NEW c \in ofNodes PROVE FALSE
      OBVIOUS
    <3>1. pending_text # NoText
      BY DEF NoText, Covers
    <3>2. nodes[c].end < pending_text[1]
      BY <3>1, <1>1 DEF TextInv, PendingText
    <3> QED
      BY <3>2, <1>1, <1>3 DEF Covers
  <2> HIDE DEF ofNodes, pending, kept
  <2>5. ofNodes = {} \/ \E c : ofNodes = {c}
    <3> SUFFICES ASSUME NEW c \in ofNodes PROVE ofNodes = {c}
      OBVIOUS
    <3> QED
      BY <2>3
  <2>6. ofNodes = {} => Cardinality(ofNodes) = 0
    BY FS_EmptySet
  <2>7. (\E c : ofNodes = {c}) => Cardinality(ofNodes) = 1
    BY FS_Singleton
  <2>8. IF kept THEN Cardinality(ofNodes) + (IF pending THEN 1 ELSE 0) = 1
        ELSE ofNodes = {} /\ ~pending
    <3>1. CASE ofNodes = {}
      BY <3>1, <2>1, <2>2, <2>6
    <3>2. CASE \E c : ofNodes = {c}
      <4>1. ofNodes # {} /\ Cardinality(ofNodes) = 1
        BY <3>2, <2>7
      <4> QED
        BY <4>1, <2>1, <2>2, <2>4
    <3> QED
      BY <2>5, <3>1, <3>2
  <2> QED
    BY <2>8 DEF ofNodes, pending, kept
<1> QED
  BY <1>1, <1>2, <1>4

\* on_element_end's tests cannot fail.
LEMMA EndFits ==
  ASSUME CompileInv, pc = "closing"
  PROVE  CanEnd
<1>1. /\ RunInv /\ Len(nodes) \in Nat /\ Len(nodes) >= 1
      /\ open_element \in Seq(Tags) /\ Len(open_element) \in Nat
  BY RunFacts DEF Running
<1>2. /\ closing \in 1..Len(open_element) /\ Len(open_element) >= 1
      /\ Len(open_element) - closing \in 0..(Len(open_element) - 1)
      /\ StackIs(nodes, open_element, current_parent, Len(open_element) - closing,
                 OpenAfter(tokens)[Len(tokens)])
  BY <1>1 DEF RunInv, Stack, Counted
<1>3. nodes[current_parent].type = "element" /\ nodes[current_parent].parent \in 1..Len(nodes)
  BY <1>1, <1>2, StackPop
<1> QED
  BY <1>1, <1>3 DEF CanEnd, NoNode

LEMMA ParserAgrees ==
  ASSUME CompileInv
  PROVE  StacksAgree
<1>1. StackMatchesTree
  <2> SUFFICES ASSUME pc \in {"token", "closing"} PROVE open_element = PathTo[current_parent]
    BY DEF StackMatchesTree
  <2>1. RunInv /\ TreeShape(nodes) /\ open_element \in Seq(Tags)
    BY RunFacts DEF Running
  <2>2. \E k, open : StackIs(nodes, open_element, current_parent, k, open)
    BY <2>1 DEF RunInv, Stack
  <2>3. PathSolved(nodes, Len(nodes), PathTo)
    <3>1. PathTo = CHOOSE f : PathSolved(nodes, Len(nodes), f)
      BY DEF PathTo, PathSolved
    <3>2. \E f : PathSolved(nodes, Len(nodes), f)
      <4>1. Len(nodes) \in Nat /\ Len(nodes) <= Len(nodes)
        BY <2>1 DEF TreeShape
      <4> QED
        BY <4>1, <2>1, PathExists
    <3> QED
      BY <3>1, <3>2
  <2> QED
    BY <2>1, <2>2, <2>3, PathIsStack
<1>2. HandlersAgree
  <2>1. pc \in {"token", "push", "closing"} => pending_element = NoNode
    <3> SUFFICES ASSUME pc \in {"token", "push", "closing"} PROVE pending_element = NoNode
      OBVIOUS
    <3>1. RunInv
      BY RunFacts DEF Running
    <3> QED
      BY <3>1 DEF RunInv
  <2>2. result = "ir" => pending_text = NoText /\ closing = 0
    BY DEF CompileInv
  <2> QED
    BY <2>1, <2>2, EndFits, AtHandFits DEF HandlersAgree
<1> QED
  BY <1>1, <1>2 DEF StacksAgree

LEMMA RepresentationHolds ==
  ASSUME CompileInv, StuckInv
  PROVE  RepresentationSound
<1>0. stuck # 0 => (NilKeyAllocates \/ CallsRaise) /\ pc \in {"return", "done"} /\ result # "ir"
  <2>1. pc = "return" => result # "ir"
    BY RunFacts DEF CompileInv
  <2> QED
    BY <2>1 DEF StuckInv
<1>1. nodes \in Seq(Node(AllTags)) /\ DOMAIN nodes = 1..Len(nodes)
  BY DEF CompileInv, TypeOK, AllTags
<1>2. CASE nodes = <<>>
  <2>1. ListsSound
    BY <1>2 DEF ListsSound
  <2>2. NoBlockLost
    BY <1>0, <1>2 DEF NoBlockLost, CompileInv
  <2> QED
    BY <2>1, <2>2 DEF RepresentationSound
<1>3. CASE nodes # <<>>
  <2>1. TreeShape(nodes) /\ blocks = Total(nodes)
    BY <1>3 DEF CompileInv, RepInv
  <2>2. ListsSound
    BY <1>1, <2>1, ListIsSound DEF ListsSound
  <2>3. Total(nodes) = BlocksOf[Len(nodes)]
    BY DEF Total, BlocksOf
  <2> QED
    BY <1>0, <1>3, <2>1, <2>2, <2>3 DEF RepresentationSound, NoBlockLost
<1> QED
  BY <1>2, <1>3


-----------------------------------------------------------------------------
(* Theorems *)

(***************************************************************************)
(* The type invariant.                                                     *)
(***************************************************************************)
THEOREM CompileTypeCorrect == Spec => []TypeOK
<1>1. CompileInv => TypeOK
  BY DEF CompileInv
<1> QED
  BY <1>1, CompileAlways, PTL

(***************************************************************************)
(* Every node is a child of the node of the start tag that its token is    *)
(* in, for every sequence of tokens: whatever end tags are missing,        *)
(* superfluous or crossed, and whichever step of the compile fails.        *)
(***************************************************************************)
THEOREM TreeIsTheTemplates == Spec => []TreeMatchesTokens
<1>1. CompileInv => TreeMatchesTokens
  BY TreeMatches
<1> QED
  BY <1>1, CompileAlways, PTL

(***************************************************************************)
(* html_accumulate_text and html_flush_text neither lose a token nor       *)
(* report one twice, nor join texts that do not touch.                     *)
(***************************************************************************)
THEOREM NoTokenLost == Spec => []EveryTokenKept
<1>1. CompileInv => EveryTokenKept
  BY TokensKept
<1> QED
  BY <1>1, CompileAlways, PTL

(***************************************************************************)
(* The parser's stack of open elements and the path to the handlers'       *)
(* current_parent are the same between tokens, and no check of a handler   *)
(* on its parser can fail.                                                 *)
(***************************************************************************)
THEOREM ParserAndHandlersAgree == Spec => []StacksAgree
<1>1. CompileInv => StacksAgree
  BY ParserAgrees
<1> QED
  BY <1>1, CompileAlways, PTL

(***************************************************************************)
(* The child lists are well formed in document order.  Whichever           *)
(* allocation of whichever constructor fails, the code releases what it    *)
(* has made before, so that every block of the representation's pool       *)
(* belongs to a node or to the source; a block that the pool has kept is   *)
(* there only on the versions of Lua where its calls do that, and after a  *)
(* failure.                                                                *)
(***************************************************************************)
THEOREM RepresentationAlwaysSound == Spec => []RepresentationSound
<1>1. CompileInv /\ StuckInv => RepresentationSound
  BY RepresentationHolds
<1> QED
  BY <1>1, CompileAlways, PTL

(***************************************************************************)
(* compile returns no bare value in the place of an error object.          *)
(***************************************************************************)
THEOREM ErrorsAlwaysObjects == Spec => []ErrorsAreObjects
<1>1. CompileInv => ErrorsAreObjects
  BY DEF CompileInv, ErrorsAreObjects
<1> QED
  BY <1>1, CompileAlways, PTL
=============================================================================
