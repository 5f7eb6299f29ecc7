----------------------------- MODULE PoolProofs -----------------------------
(***************************************************************************)
(* Safety of the pool for every set of blocks, size classes, capacities    *)
(* and word size.  The first part is about the tables alone: each group of *)
(* table writes keeps TablesInv, the inductive core.                       *)
(***************************************************************************)
EXTENDS PoolRefinement, FiniteSetTheorems, TLAPS

\* The tables are sound over the heap m when the blocks in r are referenced
\* from the registry.
Owned(t, r) == t.used_mem_by_block \cup r
TablesInv(t, m, r) ==
    /\ t \in Tables
    /\ m \in [Blocks -> Class \cup {Nil}]
    /\ r \subseteq Blocks
    /\ \A b \in Owned(t, r) : m[b] # Nil
    /\ t.used_mem_by_block \cap r = {}
    /\ LinksOfIdle(t, m, Owned(t, r))
    /\ \E L \in SUBSET Blocks : ChainsOver(t, m, Owned(t, r), L)

-----------------------------------------------------------------------------
(* Lemmas about the tables *)

LEMMA EmptyTablesInv ==
  ASSUME NEW m \in [Blocks -> Class \cup {Nil}], NEW r \in SUBSET Blocks,
         \A b \in r : m[b] # Nil
  PROVE  TablesInv(EmptyTables, m, r)
<1>1. EmptyTables \in Tables
  BY DEF EmptyTables, Tables
<1>2. ChainsOver(EmptyTables, m, Owned(EmptyTables, r), {})
  BY DEF ChainsOver, HeadsIn, SuccessorsIn, SuccessorsDistinct, EmptyTables, ChainHead
<1> QED
  BY <1>1, <1>2 DEF TablesInv, LinksOfIdle, Owned, EmptyTables

(***************************************************************************)
(* The head of a chain is an idle block of the class of the chain.         *)
(***************************************************************************)
LEMMA HeadIsIdle ==
  ASSUME NEW t, NEW m, NEW r, TablesInv(t, m, r),
         NEW c \in Class, ChainHead(t, c) # Nil
  PROVE  /\ ChainHead(t, c) \in Blocks
         /\ ChainHead(t, c) \notin Owned(t, r)
         /\ m[ChainHead(t, c)] = c
  BY DEF TablesInv, ChainsOver, HeadsIn

LEMMA TakeUnusedFields ==
  ASSUME NEW t \in Tables, NEW c \in Class, ChainHead(t, c) \in Blocks
  PROVE  LET h == ChainHead(t, c)
             u == TakeUnused(t, c)
         IN  /\ u \in Tables
             /\ u.used_mem_by_block = t.used_mem_by_block \cup {h}
             /\ u.unused_mem_by_size =
                  [t.unused_mem_by_size EXCEPT ![c] = t.unused_mem_next[h]]
             /\ u.unused_mem_next = [t.unused_mem_next EXCEPT ![h] = Nil]
  BY DEF Tables, TakeUnused, ChainHead

LEMMA TakeUnusedInv ==
  ASSUME NEW t, NEW m, NEW r, TablesInv(t, m, r),
         NEW c \in Class, ChainHead(t, c) # Nil
  PROVE  TablesInv(TakeUnused(t, c), m, r)
<1> DEFINE h == ChainHead(t, c)
           u == TakeUnused(t, c)
<1>1. t \in Tables /\ h \in Blocks /\ h \notin Owned(t, r) /\ m[h] = c
  BY HeadIsIdle DEF TablesInv
<1>2. /\ u \in Tables
      /\ u.used_mem_by_block = t.used_mem_by_block \cup {h}
      /\ u.unused_mem_by_size =
           [t.unused_mem_by_size EXCEPT ![c] = t.unused_mem_next[h]]
      /\ u.unused_mem_next = [t.unused_mem_next EXCEPT ![h] = Nil]
  BY <1>1, TakeUnusedFields
<1>3. PICK L \in SUBSET Blocks : ChainsOver(t, m, Owned(t, r), L)
  BY DEF TablesInv
<1>4. h \in L
  BY <1>3 DEF ChainsOver, HeadsIn
<1> HIDE DEF u
<1>5. Owned(u, r) = Owned(t, r) \cup {h}
  BY <1>2 DEF Owned
<1>6. ASSUME NEW b \in Blocks, u.unused_mem_next[b] # Nil
      PROVE  b # h /\ u.unused_mem_next[b] = t.unused_mem_next[b]
  BY <1>1, <1>2, <1>6 DEF Tables
<1>7. LinksOfIdle(u, m, Owned(u, r))
  BY <1>5, <1>6 DEF LinksOfIdle, TablesInv
<1>8. \A b \in L : t.unused_mem_next[b] # h
  BY <1>1, <1>3, TablesAssumption DEF ChainsOver, SuccessorsIn
<1>9. ASSUME NEW d \in Class, ChainHead(u, d) # Nil
      PROVE  ChainHead(u, d) \in L \ {h} /\ m[ChainHead(u, d)] = d
  <2>1. CASE d = c
    <3>1. ChainHead(u, d) = t.unused_mem_next[h]
      BY <1>1, <1>2, <2>1 DEF ChainHead, Tables
    <3> QED
      BY <1>1, <1>3, <1>4, <1>8, <1>9, <2>1, <3>1 DEF ChainsOver, SuccessorsIn
  <2>2. CASE d # c
    <3>1. ChainHead(u, d) = ChainHead(t, d)
      BY <1>2, <2>2 DEF ChainHead, Tables
    <3> QED
      BY <1>1, <1>3, <1>9, <2>2, <3>1 DEF ChainsOver, HeadsIn
  <2> QED
    BY <2>1, <2>2
<1>10. SuccessorsIn(u, m, L \ {h})
  <2> SUFFICES ASSUME NEW b \in L \ {h}, u.unused_mem_next[b] # Nil
               PROVE  /\ u.unused_mem_next[b] \in L \ {h}
                      /\ m[u.unused_mem_next[b]] = m[b]
                      /\ u.unused_mem_next[b] # ChainHead(u, m[b])
    BY DEF SuccessorsIn
  <2>1. b \in Blocks /\ u.unused_mem_next[b] = t.unused_mem_next[b]
    BY <1>3, <1>6
  <2>2. /\ t.unused_mem_next[b] \in L
        /\ m[t.unused_mem_next[b]] = m[b]
        /\ t.unused_mem_next[b] # ChainHead(t, m[b])
    BY <1>3, <2>1 DEF ChainsOver, SuccessorsIn
  <2>3. CASE m[b] = c
    <3>1. ChainHead(u, m[b]) = t.unused_mem_next[h]
      BY <1>1, <1>2, <2>3 DEF ChainHead, Tables
    <3>2. t.unused_mem_next[b] # t.unused_mem_next[h]
      BY <1>3, <1>4, <2>1 DEF ChainsOver, SuccessorsDistinct
    <3> QED
      BY <1>8, <2>1, <2>2, <3>1, <3>2
  <2>4. CASE m[b] # c
    <3>1. m[b] \in Class
      BY <1>3, <2>1 DEF TablesInv, ChainsOver
    <3>2. ChainHead(u, m[b]) = ChainHead(t, m[b])
      BY <1>1, <1>2, <2>4, <3>1 DEF ChainHead, Tables
    <3> QED
      BY <1>8, <2>1, <2>2, <3>2
  <2> QED
    BY <2>3, <2>4
<1>11. SuccessorsDistinct(u, L \ {h})
  BY <1>3, <1>6 DEF SuccessorsDistinct, ChainsOver
<1>12. ChainsOver(u, m, Owned(u, r), L \ {h})
  BY <1>3, <1>5, <1>9, <1>10, <1>11 DEF ChainsOver, HeadsIn
<1>13. \A b \in Owned(u, r) : m[b] # Nil
  BY <1>1, <1>5, TablesAssumption DEF TablesInv
<1>14. u.used_mem_by_block \cap r = {}
  BY <1>1, <1>2 DEF TablesInv, Owned
<1> QED
  BY <1>2, <1>3, <1>7, <1>12, <1>13, <1>14 DEF TablesInv, u

(***************************************************************************)
(* A userdata that create_new_block made and nothing names yet.            *)
(***************************************************************************)
LEMMA NewBlockInv ==
  ASSUME NEW t, NEW m, NEW r, TablesInv(t, m, r),
         NEW b \in Blocks, m[b] = Nil, NEW c \in Class
  PROVE  /\ TablesInv(t, [m EXCEPT ![b] = c], r)
         /\ TablesInv(RegisterUsed(t, b), [m EXCEPT ![b] = c], r)
<1> DEFINE n == [m EXCEPT ![b] = c]
           u == RegisterUsed(t, b)
<1>1. /\ t \in Tables /\ m \in [Blocks -> Class \cup {Nil}] /\ r \subseteq Blocks
      /\ \A x \in Owned(t, r) : m[x] # Nil
      /\ LinksOfIdle(t, m, Owned(t, r))
      /\ t.used_mem_by_block \cap r = {}
  BY DEF TablesInv
<1>2. /\ n \in [Blocks -> Class \cup {Nil}]
      /\ n[b] = c /\ n[b] # Nil
      /\ \A x \in Blocks : x # b => n[x] = m[x]
      /\ \A x \in Blocks : m[x] # Nil => n[x] = m[x]
  BY <1>1, TablesAssumption
<1>3. /\ u \in Tables
      /\ u.used_mem_by_block = t.used_mem_by_block \cup {b}
      /\ u.unused_mem_by_size = t.unused_mem_by_size
      /\ u.unused_mem_next = t.unused_mem_next
      /\ \A d : ChainHead(u, d) = ChainHead(t, d)
  BY <1>1 DEF RegisterUsed, Tables, ChainHead
<1>4. PICK L \in SUBSET Blocks : ChainsOver(t, m, Owned(t, r), L)
  BY DEF TablesInv
<1> HIDE DEF n, u
<1>5. Owned(u, r) = Owned(t, r) \cup {b} /\ Owned(t, r) \subseteq Blocks
  BY <1>1, <1>3 DEF Owned, Tables
<1>6. b \notin L
  BY <1>4 DEF ChainsOver
<1>7. ASSUME NEW x \in Blocks, t.unused_mem_next[x] # Nil
      PROVE  /\ x # b /\ t.unused_mem_next[x] # b
             /\ t.unused_mem_next[x] \in Blocks
             /\ x \notin Owned(t, r) /\ n[x] # Nil
             /\ n[t.unused_mem_next[x]] # Nil
  BY <1>1, <1>2, <1>7 DEF LinksOfIdle, Tables
<1>8. LinksOfIdle(t, n, Owned(t, r)) /\ LinksOfIdle(u, n, Owned(u, r))
  BY <1>3, <1>5, <1>7 DEF LinksOfIdle
<1>9. \A x \in L : n[x] = m[x] /\ n[x] # Nil
  BY <1>2, <1>4 DEF ChainsOver
<1>10. ChainsOver(t, n, Owned(t, r), L)
  BY <1>4, <1>9 DEF ChainsOver, HeadsIn, SuccessorsIn
<1>11. ChainsOver(u, n, Owned(u, r), L)
  BY <1>3, <1>5, <1>6, <1>10
     DEF ChainsOver, HeadsIn, SuccessorsIn, SuccessorsDistinct
<1>12. b \notin r /\ b \notin t.used_mem_by_block
  BY <1>1 DEF Owned
<1>13. TablesInv(t, n, r)
  BY <1>1, <1>2, <1>4, <1>5, <1>8, <1>10 DEF TablesInv
<1>14. u.used_mem_by_block \cap r = {}
  BY <1>1, <1>3, <1>12
<1>15. TablesInv(u, n, r)
  BY <1>1, <1>2, <1>3, <1>4, <1>5, <1>8, <1>11, <1>14 DEF TablesInv
<1> QED
  BY <1>13, <1>15 DEF n, u

(***************************************************************************)
(* A used block leaves the used table and is not cached.                   *)
(***************************************************************************)
LEMMA ForgetFields ==
  ASSUME NEW t \in Tables, NEW b
  PROVE  /\ ForgetUsed(t, b) \in Tables
         /\ ForgetUsed(t, b).used_mem_by_block = t.used_mem_by_block \ {b}
         /\ ForgetUsed(t, b).unused_mem_by_size = t.unused_mem_by_size
         /\ ForgetUsed(t, b).unused_mem_next = t.unused_mem_next
         /\ \A d : ChainHead(ForgetUsed(t, b), d) = ChainHead(t, d)
  BY DEF ForgetUsed, Tables, ChainHead

(***************************************************************************)
(* Chains depend only on the links and the blocks that are kept off them.  *)
(***************************************************************************)
LEMMA SameChains ==
  ASSUME NEW t, NEW m, NEW owned, NEW L, ChainsOver(t, m, owned, L),
         NEW u, NEW owned2, owned2 \cap L = {},
         u.unused_mem_by_size = t.unused_mem_by_size,
         u.unused_mem_next = t.unused_mem_next
  PROVE  ChainsOver(u, m, owned2, L)
  BY DEF ChainsOver, HeadsIn, SuccessorsIn, SuccessorsDistinct, ChainHead

LEMMA ForgetInv ==
  ASSUME NEW t, NEW m, NEW r, TablesInv(t, m, r),
         NEW b \in t.used_mem_by_block
  PROVE  /\ TablesInv(ForgetUsed(t, b), m, r)
         /\ TablesInv(ForgetUsed(t, b), m, r \cup {b})
<1> DEFINE u == ForgetUsed(t, b)
<1>1. /\ t \in Tables /\ t.used_mem_by_block \subseteq Blocks
      /\ m \in [Blocks -> Class \cup {Nil}] /\ r \subseteq Blocks
      /\ \A x \in Owned(t, r) : m[x] # Nil
      /\ LinksOfIdle(t, m, Owned(t, r))
      /\ t.used_mem_by_block \cap r = {}
  BY DEF TablesInv, Tables
<1>2. /\ u \in Tables
      /\ u.used_mem_by_block = t.used_mem_by_block \ {b}
      /\ u.unused_mem_by_size = t.unused_mem_by_size
      /\ u.unused_mem_next = t.unused_mem_next
  BY <1>1, ForgetFields
<1>3. PICK L \in SUBSET Blocks : ChainsOver(t, m, Owned(t, r), L)
  BY DEF TablesInv
<1> HIDE DEF u
<1>4. Owned(u, r) \subseteq Owned(t, r) /\ Owned(u, r \cup {b}) = Owned(t, r)
  BY <1>1, <1>2 DEF Owned
<1>5. L \cap Owned(t, r) = {}
  BY <1>3 DEF ChainsOver
<1>6. /\ ChainsOver(u, m, Owned(u, r), L)
      /\ ChainsOver(u, m, Owned(u, r \cup {b}), L)
  BY <1>2, <1>3, <1>4, <1>5, SameChains
<1>7. /\ LinksOfIdle(u, m, Owned(u, r))
      /\ LinksOfIdle(u, m, Owned(u, r \cup {b}))
  BY <1>1, <1>2, <1>4 DEF LinksOfIdle
<1>8. u.used_mem_by_block \cap (r \cup {b}) = {} /\ u.used_mem_by_block \cap r = {}
  BY <1>1, <1>2
<1>9. /\ \A x \in Owned(u, r) : m[x] # Nil
      /\ \A x \in Owned(u, r \cup {b}) : m[x] # Nil
  BY <1>1, <1>4
<1> QED
  BY <1>1, <1>2, <1>3, <1>6, <1>7, <1>8, <1>9 DEF TablesInv, u

(***************************************************************************)
(* release_used_block: forgotten, linked but not cached, or cached.        *)
(***************************************************************************)
LEMMA LinkFields ==
  ASSUME NEW t \in Tables, NEW c \in Class, NEW b \in Blocks,
         t.unused_mem_next[b] = Nil
  PROVE  LET g == LinkUnused(t, c, b) IN
         /\ g \in Tables
         /\ g.used_mem_by_block = t.used_mem_by_block
         /\ g.unused_mem_by_size = t.unused_mem_by_size
         /\ g.unused_mem_next[b] = ChainHead(t, c)
         /\ \A x \in Blocks : x # b => g.unused_mem_next[x] = t.unused_mem_next[x]
<1>1. CASE ChainHead(t, c) = Nil
  BY <1>1 DEF LinkUnused, ChainHead, Tables
<1>2. CASE ChainHead(t, c) # Nil
  BY <1>2 DEF LinkUnused, ChainHead, Tables
<1> QED
  BY <1>1, <1>2

LEMMA PushFields ==
  ASSUME NEW t \in Tables, NEW c \in Class, NEW b \in Blocks,
         t.unused_mem_next[b] = Nil
  PROVE  LET g == LinkUnused(t, c, b)
             p == PushUnused(t, c, b)
         IN  /\ p \in Tables
             /\ p.used_mem_by_block = t.used_mem_by_block
             /\ p.unused_mem_next = g.unused_mem_next
             /\ ChainHead(p, c) = b
             /\ \A d \in Class : d # c => ChainHead(p, d) = ChainHead(t, d)
<1> DEFINE g == LinkUnused(t, c, b)
<1>1. /\ g \in Tables
      /\ g.used_mem_by_block = t.used_mem_by_block
      /\ g.unused_mem_by_size = t.unused_mem_by_size
  BY LinkFields
<1>2. PushUnused(t, c, b) = [g EXCEPT !.unused_mem_by_size[c] = b]
  BY DEF PushUnused
<1> HIDE DEF g
<1>3. LET p == [g EXCEPT !.unused_mem_by_size[c] = b] IN
        /\ p \in Tables
        /\ p.used_mem_by_block = g.used_mem_by_block
        /\ p.unused_mem_next = g.unused_mem_next
        /\ p.unused_mem_by_size[c] = b
        /\ \A d \in Class : d # c =>
              p.unused_mem_by_size[d] = g.unused_mem_by_size[d]
  BY <1>1 DEF Tables
<1> QED
  BY <1>1, <1>2, <1>3 DEF g, ChainHead

LEMMA LinkInv ==
  ASSUME NEW t, NEW m, NEW r, TablesInv(t, m, r),
         NEW c \in Class, NEW b \in Blocks \ Owned(t, r), m[b] = c,
         t.unused_mem_next[b] = Nil,
         NEW L \in SUBSET Blocks, ChainsOver(t, m, Owned(t, r), L), b \notin L
  PROVE  /\ TablesInv(LinkUnused(t, c, b), m, r)
         /\ TablesInv(PushUnused(t, c, b), m, r)
<1> DEFINE g == LinkUnused(t, c, b)
           p == PushUnused(t, c, b)
           h == ChainHead(t, c)
<1>1. /\ t \in Tables
      /\ m \in [Blocks -> Class \cup {Nil}] /\ r \subseteq Blocks
      /\ \A x \in Owned(t, r) : m[x] # Nil
      /\ LinksOfIdle(t, m, Owned(t, r))
      /\ t.used_mem_by_block \cap r = {}
  BY DEF TablesInv
<1>2. /\ g \in Tables
      /\ g.used_mem_by_block = t.used_mem_by_block
      /\ g.unused_mem_by_size = t.unused_mem_by_size
      /\ g.unused_mem_next[b] = h
      /\ \A x \in Blocks : x # b => g.unused_mem_next[x] = t.unused_mem_next[x]
  BY <1>1, LinkFields
<1>3. /\ p \in Tables
      /\ p.used_mem_by_block = t.used_mem_by_block
      /\ p.unused_mem_next = g.unused_mem_next
      /\ ChainHead(p, c) = b
      /\ \A d \in Class : d # c => ChainHead(p, d) = ChainHead(t, d)
  BY <1>1, PushFields
<1>4. h # Nil => h \in L /\ m[h] = c /\ m[h] # Nil
  BY TablesAssumption DEF ChainsOver, HeadsIn
<1>5. m[b] # Nil /\ b # Nil
  BY TablesAssumption
<1> HIDE DEF g, p, h
<1>6. Owned(g, r) = Owned(t, r) /\ Owned(p, r) = Owned(t, r)
  BY <1>2, <1>3 DEF Owned
<1>7. LinksOfIdle(g, m, Owned(g, r)) /\ LinksOfIdle(p, m, Owned(p, r))
  BY <1>1, <1>2, <1>3, <1>4, <1>5, <1>6 DEF LinksOfIdle
<1>8. \A x \in L : x \in Blocks /\ x # b
                  /\ g.unused_mem_next[x] = t.unused_mem_next[x]
  BY <1>2
<1>9. \A d : ChainHead(g, d) = ChainHead(t, d)
  BY <1>2 DEF ChainHead
<1>10. ChainsOver(g, m, Owned(g, r), L)
  BY <1>6, <1>8, <1>9
     DEF ChainsOver, HeadsIn, SuccessorsIn, SuccessorsDistinct
<1>11. HeadsIn(p, m, L \cup {b})
  BY <1>3 DEF HeadsIn, ChainsOver
<1>12. ASSUME NEW x \in L, g.unused_mem_next[x] # Nil
       PROVE  /\ g.unused_mem_next[x] \in L
              /\ m[g.unused_mem_next[x]] = m[x]
              /\ g.unused_mem_next[x] # ChainHead(t, m[x])
              /\ m[x] \in Class
  BY <1>1, <1>8, <1>12 DEF ChainsOver, SuccessorsIn
<1>13. SuccessorsIn(p, m, L \cup {b})
  <2> SUFFICES ASSUME NEW x \in L \cup {b}, p.unused_mem_next[x] # Nil
               PROVE  /\ p.unused_mem_next[x] \in L \cup {b}
                      /\ m[p.unused_mem_next[x]] = m[x]
                      /\ p.unused_mem_next[x] # ChainHead(p, m[x])
    BY DEF SuccessorsIn
  <2>1. CASE x = b
    BY <1>2, <1>3, <1>4, <2>1
  <2>2. CASE x \in L
    <3>1. /\ g.unused_mem_next[x] \in L
          /\ m[g.unused_mem_next[x]] = m[x]
          /\ g.unused_mem_next[x] # ChainHead(t, m[x])
          /\ m[x] \in Class
      BY <1>3, <1>12, <2>2
    <3>2. CASE m[x] = c
      BY <1>3, <3>1, <3>2
    <3>3. CASE m[x] # c
      BY <1>3, <3>1, <3>3
    <3> QED
      BY <3>2, <3>3
  <2> QED
    BY <2>1, <2>2
<1>14. \A x \in L : g.unused_mem_next[x] # Nil => g.unused_mem_next[x] # h
  <2> SUFFICES ASSUME NEW x \in L, g.unused_mem_next[x] # Nil,
                      g.unused_mem_next[x] = h
               PROVE  FALSE
    OBVIOUS
  <2>1. m[x] = c
    BY <1>4, <1>12
  <2> QED
    BY <1>12, <2>1 DEF h
<1>15. SuccessorsDistinct(p, L \cup {b})
  <2> SUFFICES ASSUME NEW x \in L \cup {b}, NEW y \in L \cup {b},
                      g.unused_mem_next[x] # Nil,
                      g.unused_mem_next[x] = g.unused_mem_next[y]
               PROVE  x = y
    BY <1>3 DEF SuccessorsDistinct
  <2>1. CASE x = b \/ y = b
    BY <1>2, <1>14, <2>1
  <2>2. CASE x \in L /\ y \in L
    BY <1>8, <2>2 DEF ChainsOver, SuccessorsDistinct
  <2> QED
    BY <2>1, <2>2
<1>16. ChainsOver(p, m, Owned(p, r), L \cup {b})
  BY <1>5, <1>6, <1>11, <1>13, <1>15 DEF ChainsOver
<1>17. L \cup {b} \in SUBSET Blocks
  OBVIOUS
<1>18. TablesInv(g, m, r)
  BY <1>1, <1>2, <1>6, <1>7, <1>10 DEF TablesInv
<1>19. TablesInv(p, m, r)
  BY <1>1, <1>3, <1>6, <1>7, <1>16, <1>17 DEF TablesInv
<1> QED
  BY <1>18, <1>19 DEF g, p

LEMMA ReleasedInv ==
  ASSUME NEW t, NEW m, NEW r, TablesInv(t, m, r),
         NEW b \in t.used_mem_by_block, NEW u \in Released(t, m[b], b)
  PROVE  /\ TablesInv(u, m, r)
         /\ u.used_mem_by_block = t.used_mem_by_block \ {b}
<1> DEFINE f == ForgetUsed(t, b)
<1>1. /\ t \in Tables /\ b \in Blocks /\ b \in Owned(t, r) /\ b \notin r
      /\ m[b] \in Class
      /\ t.unused_mem_next[b] = Nil
  BY DEF TablesInv, Owned, LinksOfIdle, Tables
<1>2. PICK L \in SUBSET Blocks : ChainsOver(t, m, Owned(t, r), L)
  BY DEF TablesInv
<1>3. TablesInv(f, m, r)
  BY ForgetInv
<1>4. /\ f \in Tables
      /\ f.used_mem_by_block = t.used_mem_by_block \ {b}
      /\ f.unused_mem_by_size = t.unused_mem_by_size
      /\ f.unused_mem_next = t.unused_mem_next
  BY <1>1, ForgetFields
<1>5. u \in {f, LinkUnused(f, m[b], b), PushUnused(f, m[b], b)}
  BY DEF Released
<1> HIDE DEF f
<1>6. b \notin L /\ Owned(f, r) \cap L = {} /\ b \notin Owned(f, r)
  BY <1>1, <1>2, <1>4 DEF ChainsOver, Owned
<1>7. ChainsOver(f, m, Owned(f, r), L)
  BY <1>2, <1>4, <1>6, SameChains
<1>8. /\ TablesInv(LinkUnused(f, m[b], b), m, r)
      /\ TablesInv(PushUnused(f, m[b], b), m, r)
  BY <1>1, <1>3, <1>4, <1>6, <1>7, LinkInv
<1>9. /\ LinkUnused(f, m[b], b).used_mem_by_block = f.used_mem_by_block
      /\ PushUnused(f, m[b], b).used_mem_by_block = f.used_mem_by_block
  BY <1>1, <1>4, LinkFields, PushFields
<1> QED
  BY <1>3, <1>4, <1>5, <1>8, <1>9

(***************************************************************************)
(* luaL_unref of a detached block, and a collection.                       *)
(***************************************************************************)
LEMMA UnrefInv ==
  ASSUME NEW t, NEW m, NEW r, TablesInv(t, m, r), NEW b
  PROVE  TablesInv(t, m, r \ {b})
<1>1. Owned(t, r \ {b}) \subseteq Owned(t, r)
  BY DEF Owned
<1>2. PICK L \in SUBSET Blocks : ChainsOver(t, m, Owned(t, r), L)
  BY DEF TablesInv
<1>3. ChainsOver(t, m, Owned(t, r \ {b}), L)
  BY <1>1, <1>2 DEF ChainsOver
<1>4. LinksOfIdle(t, m, Owned(t, r \ {b}))
  BY <1>1 DEF TablesInv, LinksOfIdle
<1> QED
  BY <1>1, <1>3, <1>4 DEF TablesInv

LEMMA CollectedInv ==
  ASSUME NEW t, NEW m, NEW r, TablesInv(t, m, r),
         NEW D \in SUBSET (Blocks \ Owned(t, r))
  PROVE  /\ TablesInv(Collected(t, D), [b \in Blocks |-> IF b \in D THEN Nil ELSE m[b]], r)
         /\ Collected(t, D).used_mem_by_block = t.used_mem_by_block
<1> DEFINE n == [b \in Blocks |-> IF b \in D THEN Nil ELSE m[b]]
           u == Collected(t, D)
<1>1. /\ t \in Tables
      /\ m \in [Blocks -> Class \cup {Nil}] /\ r \subseteq Blocks
      /\ \A x \in Owned(t, r) : m[x] # Nil
      /\ LinksOfIdle(t, m, Owned(t, r))
      /\ t.used_mem_by_block \cap r = {}
  BY DEF TablesInv
<1>2. /\ u \in Tables
      /\ u.used_mem_by_block = t.used_mem_by_block
      /\ \A c \in Class : ChainHead(u, c) =
            IF ChainHead(t, c) \in D THEN Nil ELSE ChainHead(t, c)
      /\ \A b \in Blocks : u.unused_mem_next[b] =
            IF b \in D \/ t.unused_mem_next[b] \in D THEN Nil
            ELSE t.unused_mem_next[b]
  BY <1>1 DEF Collected, Tables, ChainHead
<1>3. /\ n \in [Blocks -> Class \cup {Nil}]
      /\ \A b \in Blocks \ D : n[b] = m[b]
  BY <1>1
<1>4. PICK L \in SUBSET Blocks : ChainsOver(t, m, Owned(t, r), L)
  BY DEF TablesInv
<1> HIDE DEF n, u
<1>5. Owned(u, r) = Owned(t, r) /\ Owned(t, r) \subseteq Blocks
  BY <1>1, <1>2 DEF Owned, Tables
<1>6. \A x \in Owned(u, r) : n[x] # Nil
  BY <1>1, <1>3, <1>5
<1>7. LinksOfIdle(u, n, Owned(u, r))
  <2> SUFFICES ASSUME NEW b \in Blocks, u.unused_mem_next[b] # Nil
               PROVE  /\ b \notin Owned(u, r) /\ n[b] # Nil
                      /\ n[u.unused_mem_next[b]] # Nil
    BY DEF LinksOfIdle
  <2>1. /\ b \notin D /\ t.unused_mem_next[b] \notin D
        /\ u.unused_mem_next[b] = t.unused_mem_next[b]
        /\ t.unused_mem_next[b] \in Blocks
    BY <1>1, <1>2 DEF Tables
  <2> QED
    BY <1>1, <1>3, <1>5, <2>1 DEF LinksOfIdle
<1>8. HeadsIn(u, n, L \ D)
  BY <1>2, <1>3, <1>4 DEF HeadsIn, ChainsOver
<1>9. SuccessorsIn(u, n, L \ D)
  <2> SUFFICES ASSUME NEW b \in L \ D, u.unused_mem_next[b] # Nil
               PROVE  /\ u.unused_mem_next[b] \in L \ D
                      /\ n[u.unused_mem_next[b]] = n[b]
                      /\ u.unused_mem_next[b] # ChainHead(u, n[b])
    BY DEF SuccessorsIn
  <2>1. /\ t.unused_mem_next[b] \notin D /\ b \in Blocks
        /\ u.unused_mem_next[b] = t.unused_mem_next[b]
    BY <1>2, <1>4
  <2>2. /\ t.unused_mem_next[b] \in L
        /\ m[t.unused_mem_next[b]] = m[b]
        /\ t.unused_mem_next[b] # ChainHead(t, m[b])
        /\ m[b] \in Class
    BY <1>1, <1>4, <2>1 DEF ChainsOver, SuccessorsIn
  <2>3. n[b] = m[b] /\ n[t.unused_mem_next[b]] = m[t.unused_mem_next[b]]
    BY <1>3, <1>4, <2>1, <2>2
  <2>4. ChainHead(u, m[b]) = Nil \/ ChainHead(u, m[b]) = ChainHead(t, m[b])
    BY <1>2, <2>2
  <2> QED
    BY <2>1, <2>2, <2>3, <2>4
<1>10. SuccessorsDistinct(u, L \ D)
  BY <1>2, <1>4 DEF SuccessorsDistinct, ChainsOver
<1>11. ChainsOver(u, n, Owned(u, r), L \ D)
  BY <1>3, <1>4, <1>5, <1>8, <1>9, <1>10 DEF ChainsOver
<1>12. TablesInv(u, n, r)
  BY <1>1, <1>2, <1>3, <1>6, <1>7, <1>11 DEF TablesInv
<1> QED
  BY <1>2, <1>12 DEF n, u

-----------------------------------------------------------------------------
(* The structure of the pool, on every Lua version *)

Scalars ==
    /\ ref_L \in BOOLEAN
    /\ capacity \in SizeT
    /\ used \in SizeT
    /\ status \in {"ok", "EINVAL", "ENOMEM"}

\* The tables are sound where the blocks in r are the detached ones, what the
\* caller holds is in them, and a deleted pool owns nothing.
SoundOver(r) ==
    /\ Scalars
    /\ TablesInv(tables, mem, r)
    /\ held \subseteq tables.used_mem_by_block
    /\ handles = r
    /\ ~ref_L => tables.used_mem_by_block = {}

\* The inductive invariant of the first half: a registry reference is all that
\* keeps a detached block.
StructInv == SoundOver(refs)

LEMMA SizeArithmetic ==
  ASSUME NEW a \in SizeT, NEW b \in SizeT
  PROVE  PlusT(a, b) \in SizeT /\ MinusT(a, b) \in SizeT
  BY LayoutAssumption DEF SizeT, PlusT, MinusT

LEMMA ClassFacts ==
  /\ \A c \in Class : c.size \in SizeT /\ c.size \in Sizes /\ c.alignment \in NormalAlignments
  /\ \A s \in Sizes : DefaultClass(s) \in Class /\ DefaultClass(s).size = s
  /\ \A s \in Sizes, a \in Alignments : NormalizedAlignment(a) # 0 =>
        [size |-> s, alignment |-> NormalizedAlignment(a)] \in Class
<1>1. DefaultAlignment \in NormalAlignments
  <2>1. NormalizedAlignment(0) = DefaultAlignment /\ DefaultAlignment # 0
    BY LayoutAssumption DEF NormalizedAlignment
  <2> QED
    BY <2>1, TablesAssumption DEF NormalAlignments
<1> QED
  BY <1>1, TablesAssumption DEF Class, DefaultClass, NormalAlignments

LEMMA SoundTypes ==
  ASSUME NEW r, SoundOver(r)
  PROVE  /\ tables.used_mem_by_block \subseteq Blocks
         /\ r \subseteq Blocks
         /\ tables.used_mem_by_block \cap r = {}
         /\ mem \in [Blocks -> Class \cup {Nil}]
         /\ \A b \in tables.used_mem_by_block \cup r : mem[b] # Nil /\ mem[b] \in Class
  BY DEF SoundOver, TablesInv, Tables, Owned

(***************************************************************************)
(* acquire_used_block returns a block nobody has, of the class asked for.  *)
(***************************************************************************)
LEMMA AcquiredSound ==
  ASSUME NEW r, SoundOver(r), NEW c \in Class, NEW b \in Blocks, CanAcquire(c, b)
  PROVE  /\ TablesInv(TablesAfter(c, b), HeapAfter(c, b), r)
         /\ TablesAfter(c, b).used_mem_by_block = tables.used_mem_by_block \cup {b}
         /\ b \notin tables.used_mem_by_block /\ b \notin r
         /\ HeapAfter(c, b)[b] = c
         /\ \A x \in Blocks : x # b => HeapAfter(c, b)[x] = mem[x]
         /\ \A x \in Blocks : mem[x] # Nil => HeapAfter(c, b)[x] = mem[x]
<1>1. TablesInv(tables, mem, r)
  BY DEF SoundOver
<1>2. tables \in Tables /\ mem \in [Blocks -> Class \cup {Nil}]
  BY <1>1 DEF TablesInv
<1>3. CASE ChainHead(tables, c) # Nil
  <2>1. b = ChainHead(tables, c)
    BY <1>3 DEF CanAcquire
  <2>2. b \notin Owned(tables, r) /\ mem[b] = c
    BY <1>1, <1>3, <2>1, HeadIsIdle
  <2>3. TablesInv(TakeUnused(tables, c), mem, r)
    BY <1>1, <1>3, TakeUnusedInv
  <2>4. TakeUnused(tables, c).used_mem_by_block = tables.used_mem_by_block \cup {b}
    BY <1>2, <2>1, TakeUnusedFields
  <2> QED
    BY <1>3, <2>2, <2>3, <2>4 DEF TablesAfter, HeapAfter, Owned
<1>4. CASE ChainHead(tables, c) = Nil
  <2>1. mem[b] = Nil
    BY <1>4 DEF CanAcquire
  <2>2. TablesInv(RegisterUsed(tables, b), [mem EXCEPT ![b] = c], r)
    BY <1>1, <2>1, NewBlockInv
  <2>3. RegisterUsed(tables, b).used_mem_by_block = tables.used_mem_by_block \cup {b}
    BY <1>2 DEF RegisterUsed, Tables
  <2>4. b \notin Owned(tables, r)
    BY <1>1, <2>1 DEF TablesInv
  <2> QED
    BY <1>2, <1>4, <2>1, <2>2, <2>3, <2>4 DEF TablesAfter, HeapAfter, Owned
<1> QED
  BY <1>3, <1>4

LEMMA AnswerSound ==
  ASSUME NEW r, SoundOver(r), NEW outcome \in {"ok", "EINVAL", "ENOMEM"}, Answer(outcome)
  PROVE  SoundOver(r)'
  BY DEF SoundOver, Answer, Scalars

LEMMA AcquireFailsSound ==
  ASSUME NEW r, SoundOver(r), ref_L, NEW c \in Class, AcquireFails(c)
  PROVE  SoundOver(r)'
<1>1. /\ TablesInv(tables, mem, r) /\ Scalars
      /\ held \subseteq tables.used_mem_by_block /\ handles = r
      /\ tables \in Tables
  BY DEF SoundOver, TablesInv
<1>2. /\ status' = "ENOMEM"
      /\ UNCHANGED <<ref_L, capacity, used, refs, held, handles>>
  BY DEF AcquireFails
<1>3. TablesInv(tables', mem', r) /\ held \subseteq (tables').used_mem_by_block
  <2>1. CASE UNCHANGED <<tables, mem>>
    BY <1>1, <2>1
  <2>2. CASE UNCHANGED tables /\ \E b \in Blocks \ Live : mem' = [mem EXCEPT ![b] = c]
    <3>1. PICK b \in Blocks \ Live : mem' = [mem EXCEPT ![b] = c]
      BY <2>2
    <3>2. mem[b] = Nil
      BY DEF Live
    <3> QED
      BY <1>1, <2>2, <3>1, <3>2, NewBlockInv
  <2>3. CASE /\ ChainHead(tables, c) # Nil
             /\ tables' = TakeUnused(tables, c) /\ UNCHANGED mem
    <3>1. TablesInv(TakeUnused(tables, c), mem, r) /\ ChainHead(tables, c) \in Blocks
      BY <1>1, <2>3, TakeUnusedInv, HeadIsIdle
    <3>2. TakeUnused(tables, c).used_mem_by_block =
            tables.used_mem_by_block \cup {ChainHead(tables, c)}
      BY <1>1, <3>1, TakeUnusedFields
    <3> QED
      BY <1>1, <2>3, <3>1, <3>2
  <2> QED
    BY <2>1, <2>2, <2>3 DEF AcquireFails
<1> QED
  BY <1>1, <1>2, <1>3 DEF SoundOver, Scalars

LEMMA AllocateSound ==
  ASSUME NEW r, SoundOver(r), ref_L, NEW c \in Class, Allocate(c)
  PROVE  SoundOver(r)'
<1>1. CASE Answer("ENOMEM")
  BY <1>1, AnswerSound
<1>2. CASE AcquireFails(c)
  BY <1>2, AcquireFailsSound
<1>3. ASSUME NEW b \in Blocks, CanAcquire(c, b),
             tables' = TablesAfter(c, b), mem' = HeapAfter(c, b),
             held' = held \cup {b}, used' = PlusT(used, c.size), status' = "ok",
             UNCHANGED <<ref_L, capacity, refs, handles>>
      PROVE  SoundOver(r)'
  <2>1. /\ TablesInv(tables', mem', r)
        /\ (tables').used_mem_by_block = tables.used_mem_by_block \cup {b}
    BY <1>3, AcquiredSound
  <2>2. used' \in SizeT
    BY <1>3, ClassFacts, SizeArithmetic DEF SoundOver, Scalars
  <2> QED
    BY <1>3, <2>1, <2>2 DEF SoundOver, Scalars
<1> QED
  BY <1>1, <1>2, <1>3 DEF Allocate

LEMMA FreeSound ==
  ASSUME NEW r, SoundOver(r), NEW b \in Blocks \cup {Nil}, Free(b)
  PROVE  SoundOver(r)'
<1>1. CASE \E outcome \in {"ok", "EINVAL", "ENOMEM"} : Answer(outcome)
  BY <1>1, AnswerSound
<1>2. CASE /\ b \in tables.used_mem_by_block
           /\ tables' \in Released(tables, mem[b], b)
           /\ used' = MinusT(used, mem[b].size)
           /\ held' = held \ {b}
           /\ status' = "ok"
           /\ UNCHANGED <<ref_L, capacity, mem, refs, handles>>
  <2>1. /\ TablesInv(tables', mem, r)
        /\ (tables').used_mem_by_block = tables.used_mem_by_block \ {b}
    BY <1>2, ReleasedInv DEF SoundOver
  <2>2. used' \in SizeT
    BY <1>2, SoundTypes, ClassFacts, SizeArithmetic DEF SoundOver, Scalars
  <2> QED
    BY <1>2, <2>1, <2>2 DEF SoundOver, Scalars
<1> QED
  BY <1>1, <1>2 DEF Free

LEMMA MoveSound ==
  ASSUME NEW r, SoundOver(r), ref_L, NEW b \in tables.used_mem_by_block,
         NEW c \in Class, Move(b, c)
  PROVE  SoundOver(r)'
<1>1. PICK n \in Blocks :
        /\ CanAcquire(c, n)
        /\ tables' \in Released(TablesAfter(c, n), mem[b], b)
        /\ mem' = HeapAfter(c, n)
        /\ held' = (held \cup {n}) \ {b}
  BY DEF Move
<1> DEFINE t == TablesAfter(c, n)
<1>2. /\ TablesInv(t, mem', r)
      /\ t.used_mem_by_block = tables.used_mem_by_block \cup {n}
      /\ \A x \in Blocks : mem[x] # Nil => (mem')[x] = mem[x]
  BY <1>1, AcquiredSound
<1>3. mem[b] # Nil /\ b \in Blocks /\ mem[b] \in Class
  BY SoundTypes
<1>4. tables' \in Released(t, (mem')[b], b)
  BY <1>1, <1>2, <1>3
<1> HIDE DEF t
<1>5. /\ TablesInv(tables', mem', r)
      /\ (tables').used_mem_by_block = t.used_mem_by_block \ {b}
  BY <1>2, <1>4, ReleasedInv
<1>6. used' \in SizeT
  BY <1>3, ClassFacts, SizeArithmetic DEF SoundOver, Scalars, Move
<1> QED
  BY <1>1, <1>2, <1>5, <1>6 DEF SoundOver, Scalars, Move

LEMMA ReallocSound ==
  ASSUME NEW r, SoundOver(r), NEW b \in Blocks \cup {Nil}, NEW size \in Sizes,
         Realloc(b, size)
  PROVE  SoundOver(r)'
<1>1. DefaultClass(size) \in Class
  BY ClassFacts
<1>2. ref_L
  BY DEF Realloc
<1>3. CASE Allocate(DefaultClass(size))
  BY <1>1, <1>2, <1>3, AllocateSound
<1>4. CASE Free(b)
  BY <1>4, FreeSound
<1>5. CASE \E outcome \in {"ok", "EINVAL", "ENOMEM"} : Answer(outcome)
  BY <1>5, AnswerSound
<1>6. CASE AcquireFails(DefaultClass(size))
  BY <1>1, <1>2, <1>6, AcquireFailsSound
<1>7. CASE b \in tables.used_mem_by_block /\ Move(b, DefaultClass(size))
  BY <1>1, <1>2, <1>7, MoveSound
<1> QED
  BY <1>3, <1>4, <1>5, <1>6, <1>7 DEF Realloc, Resize

(***************************************************************************)
(* pool_detach: the block is the pool's until then and detached afterwards.*)
(***************************************************************************)
HandsOver(b) ==
    /\ b \in tables.used_mem_by_block
    /\ refs' = refs \cup {b}
    /\ tables' = ForgetUsed(tables, b)
    /\ used' = MinusT(used, mem[b].size)
    /\ held' = held \ {b}
    /\ handles' = handles \cup {b}
    /\ status' = "ok"
    /\ UNCHANGED <<ref_L, capacity, mem>>

LEMMA DetachCases ==
  ASSUME NEW b, Detach(b)
  PROVE  \/ \E outcome \in {"EINVAL", "ENOMEM"} : Answer(outcome)
         \/ HandsOver(b)
  BY DEF Detach, HandsOver

LEMMA HandsOverSound ==
  ASSUME NEW r, SoundOver(r), NEW b, HandsOver(b)
  PROVE  SoundOver(r \cup {b})'
<1> USE DEF HandsOver
<1>1. TablesInv(tables', mem, r \cup {b})
  BY ForgetInv DEF SoundOver
<1>2. (tables').used_mem_by_block = tables.used_mem_by_block \ {b}
  BY ForgetFields DEF SoundOver, TablesInv
<1>3. used' \in SizeT
  BY SoundTypes, ClassFacts, SizeArithmetic DEF SoundOver, Scalars
<1> QED
  BY <1>1, <1>2, <1>3 DEF SoundOver, Scalars

(***************************************************************************)
(* pool_mem_free, or the collection of a detached block's last reference.  *)
(***************************************************************************)
LEMMA UnrefSound ==
  ASSUME NEW r, SoundOver(r), NEW b, handles' = handles \ {b},
         UNCHANGED <<ref_L, capacity, used, tables, mem, held>>,
         status' \in {"ok", "EINVAL", "ENOMEM"}
  PROVE  SoundOver(r \ {b})'
  BY UnrefInv DEF SoundOver, Scalars

LEMMA NewSound ==
  ASSUME NEW r, SoundOver(r), NEW cap \in SizeT, New(cap)
  PROVE  SoundOver(r)'
<1>1. CASE Answer("ENOMEM")
  BY <1>1, AnswerSound
<1>2. CASE /\ ref_L' = TRUE /\ capacity' = cap /\ used' = 0
           /\ tables' = EmptyTables /\ held' = {} /\ status' = "ok"
           /\ UNCHANGED <<mem, refs, handles>>
  <2>1. TablesInv(tables', mem, r)
    BY <1>2, EmptyTablesInv, SoundTypes
  <2> QED
    BY <1>2, <2>1, LayoutAssumption DEF SoundOver, Scalars, SizeT
<1> QED
  BY <1>1, <1>2 DEF New

LEMMA DeleteSound ==
  ASSUME NEW r, SoundOver(r), Delete
  PROVE  SoundOver(r)'
<1>1. TablesInv(tables', mem, r)
  BY EmptyTablesInv, SoundTypes DEF Delete
<1>2. (tables').used_mem_by_block = {}
  BY DEF Delete, EmptyTables
<1> QED
  BY <1>1, <1>2 DEF Delete, SoundOver, Scalars

LEMMA AlignedAllocSound ==
  ASSUME NEW r, SoundOver(r), NEW size \in Sizes, NEW alignment \in Alignments,
         AlignedAlloc(size, alignment)
  PROVE  SoundOver(r)'
<1>1. CASE Answer("EINVAL")
  BY <1>1, AnswerSound
<1>2. CASE /\ NormalizedAlignment(alignment) # 0
           /\ Allocate([size |-> size, alignment |-> NormalizedAlignment(alignment)])
  BY <1>2, ClassFacts, AllocateSound DEF AlignedAlloc
<1> QED
  BY <1>1, <1>2 DEF AlignedAlloc

LEMMA CallocSound ==
  ASSUME NEW r, SoundOver(r), NEW count \in Sizes, NEW size \in Sizes,
         Calloc(count, size)
  PROVE  SoundOver(r)'
<1>1. CASE Answer("ENOMEM")
  BY <1>1, AnswerSound
<1>2. CASE count * size \in Sizes /\ Allocate(DefaultClass(count * size))
  BY <1>2, ClassFacts, AllocateSound DEF Calloc
<1> QED
  BY <1>1, <1>2 DEF Calloc

LEMMA CollectSound ==
  ASSUME NEW r, SoundOver(r), NEW D \in SUBSET Blocks, D \cap r = {}, Collect(D)
  PROVE  SoundOver(r)'
<1>1. D \subseteq Blocks \ Owned(tables, r)
  BY DEF Collect, Live, Reachable, Owned
<1>2. /\ TablesInv(tables', mem', r)
      /\ (tables').used_mem_by_block = tables.used_mem_by_block
  BY <1>1, CollectedInv DEF Collect, SoundOver
<1> QED
  BY <1>2 DEF Collect, SoundOver, Scalars

LEMMA SoundInit == Init => SoundOver({})
<1> SUFFICES ASSUME Init PROVE SoundOver({})
  OBVIOUS
<1>1. TablesInv(tables, mem, {})
  BY EmptyTablesInv DEF Init
<1>2. tables.used_mem_by_block = {}
  BY DEF Init, EmptyTables
<1>3. Scalars
  <2>1. ref_L \in BOOLEAN
    BY DEF Init
  <2>2. capacity \in SizeT /\ used \in SizeT
    BY LayoutAssumption DEF Init, SizeT
  <2>3. status \in {"ok", "EINVAL", "ENOMEM"}
    BY DEF Init
  <2> QED
    BY <2>1, <2>2, <2>3 DEF Scalars
<1> QED
  BY <1>1, <1>2, <1>3 DEF Init, SoundOver

LEMMA StructInit == Init => StructInv
  BY SoundInit DEF StructInv, Init

LEMMA StructStep == StructInv /\ [Next]_vars => StructInv'
<1> SUFFICES ASSUME StructInv, [Next]_vars PROVE StructInv'
  OBVIOUS
<1> PICK r : r = refs
  OBVIOUS
<1>a. SoundOver(r)
  BY DEF StructInv
<1>b. ASSUME SoundOver(r)', UNCHANGED refs PROVE StructInv'
  BY <1>b DEF StructInv, SoundOver
<1>1. ASSUME NEW cap \in Capacities, New(cap) PROVE StructInv'
  <2>1. cap \in SizeT /\ UNCHANGED refs
    BY <1>1, PoolAssumption DEF New, Answer
  <2> QED
    BY <1>1, <1>a, <1>b, <2>1, NewSound
<1>2. CASE Delete
  BY <1>2, <1>a, <1>b, DeleteSound DEF Delete
<1>c. ASSUME NEW c, Allocate(c) PROVE UNCHANGED refs
  BY <1>c DEF Allocate, Answer, AcquireFails
<1>3. ASSUME NEW size \in Sizes, NEW alignment \in Alignments,
             AlignedAlloc(size, alignment)
      PROVE  StructInv'
  <2>1. UNCHANGED refs
    BY <1>3, <1>c DEF AlignedAlloc, Answer
  <2> QED
    BY <1>3, <1>a, <1>b, <2>1, AlignedAllocSound
<1>4. ASSUME NEW count \in Sizes, NEW size \in Sizes, Calloc(count, size)
      PROVE  StructInv'
  <2>1. UNCHANGED refs
    BY <1>4, <1>c DEF Calloc, Answer
  <2> QED
    BY <1>4, <1>a, <1>b, <2>1, CallocSound
<1>5. ASSUME NEW b \in Blocks \cup {Nil}, NEW size \in Sizes, Realloc(b, size)
      PROVE  StructInv'
  <2>1. UNCHANGED refs
    BY <1>5, <1>c DEF Realloc, Resize, Free, Move, Answer, AcquireFails
  <2> QED
    BY <1>5, <1>a, <1>b, <2>1, ReallocSound
<1>6. ASSUME NEW b \in Blocks \cup {Nil}, Free(b) PROVE StructInv'
  <2>1. UNCHANGED refs
    BY <1>6 DEF Free, Answer
  <2> QED
    BY <1>6, <1>a, <1>b, <2>1, FreeSound
<1>7. ASSUME NEW b \in Blocks \cup {Nil}, Detach(b) PROVE StructInv'
  <2>1. CASE \E outcome \in {"EINVAL", "ENOMEM"} : Answer(outcome)
    BY <1>a, <1>b, <2>1, AnswerSound DEF Answer
  <2>2. CASE HandsOver(b)
    <3>1. SoundOver(r \cup {b})' /\ refs' = r \cup {b}
      BY <1>a, <2>2, HandsOverSound DEF HandsOver
    <3> QED
      BY <3>1 DEF StructInv, SoundOver
  <2> QED
    BY <1>7, <2>1, <2>2, DetachCases
<1>8. ASSUME NEW b \in Blocks, MemFree(b) PROVE StructInv'
  <2>1. SoundOver(r \ {b})' /\ refs' = r \ {b}
    BY <1>8, <1>a, UnrefSound DEF MemFree
  <2> QED
    BY <2>1 DEF StructInv, SoundOver
<1>9. ASSUME NEW D \in SUBSET Blocks, Collect(D) PROVE StructInv'
  <2>1. D \cap r = {} /\ UNCHANGED refs
    BY <1>9 DEF Collect, Live, Reachable
  <2> QED
    BY <1>9, <1>a, <1>b, <2>1, CollectSound
<1>10. CASE UNCHANGED vars
  BY <1>10 DEF vars, StructInv, SoundOver, Scalars
<1> QED
  BY <1>1, <1>2, <1>3, <1>4, <1>5, <1>6, <1>7, <1>8, <1>9, <1>10 DEF Next

(***************************************************************************)
(* The same facts in terms of the registry references.                     *)
(***************************************************************************)
LEMMA StructTypes ==
  ASSUME StructInv
  PROVE  /\ tables.used_mem_by_block \subseteq Blocks
         /\ refs \subseteq Blocks
         /\ tables.used_mem_by_block \cap refs = {}
         /\ mem \in [Blocks -> Class \cup {Nil}]
         /\ \A b \in tables.used_mem_by_block \cup refs : mem[b] # Nil /\ mem[b] \in Class
  BY DEF StructInv, SoundOver, TablesInv, Tables, Owned

LEMMA Acquired ==
  ASSUME StructInv, NEW c \in Class, NEW b \in Blocks, CanAcquire(c, b)
  PROVE  /\ TablesInv(TablesAfter(c, b), HeapAfter(c, b), refs)
         /\ TablesAfter(c, b).used_mem_by_block = tables.used_mem_by_block \cup {b}
         /\ b \notin tables.used_mem_by_block /\ b \notin refs
         /\ HeapAfter(c, b)[b] = c
         /\ \A x \in Blocks : x # b => HeapAfter(c, b)[x] = mem[x]
         /\ \A x \in Blocks : mem[x] # Nil => HeapAfter(c, b)[x] = mem[x]
<1> PICK r : r = refs
  OBVIOUS
<1>1. SoundOver(r)
  BY DEF StructInv
<1> QED
  BY <1>1, AcquiredSound

LEMMA StructAlways == Spec => []StructInv
  BY StructInit, StructStep, PTL DEF Spec

(***************************************************************************)
(* The type invariant.                                                     *)
(***************************************************************************)
THEOREM TypesCorrect == Spec => []TypeOK
<1>1. StructInv => TypeOK
  BY StructTypes DEF StructInv, SoundOver, Scalars, TypeOK, TablesInv
<1> QED
  BY <1>1, StructAlways, PTL

(***************************************************************************)
(* On every Lua version the free chains stay well formed, nothing the      *)
(* caller holds is ever collected and no block has two owners, whatever    *)
(* calls fail for lack of memory, whichever blocks are collected and       *)
(* whatever pointers are passed to pool_free, pool_realloc and pool_detach.*)
(***************************************************************************)
THEOREM StructureSafe ==
  Spec => []StructureSound
<1>1. StructInv => ChainsSound /\ NoStaleLink
  BY DEF StructInv, SoundOver, TablesInv, ChainsSound, NoStaleLink, Owned
<1>2. StructInv => NoDangling /\ OneOwner
  BY StructTypes DEF StructInv, SoundOver, NoDangling, OneOwner, Live
<1>3. StructInv => StructureSound
  BY <1>1, <1>2 DEF StructureSound
<1> QED
  BY <1>3, StructAlways, PTL

-----------------------------------------------------------------------------
(* Lemmas about the bytes of a set of blocks *)

LEMMA BytesFinite ==
  ASSUME NEW m \in [Blocks -> Class \cup {Nil}],
         NEW S \in SUBSET Blocks, \A b \in S : m[b] # Nil
  PROVE  IsFiniteSet(Bytes(m, S)) /\ Cardinality(Bytes(m, S)) \in Nat
<1>1. \A b \in S : m[b] \in Class /\ m[b].size \in 0..SizeMax
  BY ClassFacts DEF SizeT
<1>2. SizeMax \in Nat
  BY LayoutAssumption
<1>3. \A b \in S : 1..m[b].size \subseteq 1..SizeMax
  BY <1>1, <1>2
<1>4. Bytes(m, S) \subseteq Blocks \X (1..SizeMax)
  <2>1. \A b \in S : {b} \X (1..m[b].size) \subseteq Blocks \X (1..SizeMax)
    BY <1>3
  <2> QED
    BY <2>1 DEF Bytes
<1>5. IsFiniteSet(Blocks \X (1..SizeMax))
  <2>1. IsFiniteSet(1..SizeMax)
    BY <1>2, FS_Interval
  <2>2. IsFiniteSet(Blocks)
    BY PoolAssumption
  <2> QED
    BY <2>1, <2>2, FS_Product, Zenon
<1> QED
  BY <1>4, <1>5, FS_Subset, FS_CardinalityType

LEMMA BytesAdd ==
  ASSUME NEW m \in [Blocks -> Class \cup {Nil}],
         NEW S \in SUBSET Blocks, \A b \in S : m[b] # Nil,
         NEW b \in Blocks, m[b] # Nil, b \notin S
  PROVE  Cardinality(Bytes(m, S \cup {b})) = Cardinality(Bytes(m, S)) + m[b].size
<1> DEFINE N == {b} \X (1..m[b].size)
<1>1. m[b].size \in Nat
  BY ClassFacts, LayoutAssumption DEF SizeT
<1>2. Bytes(m, S \cup {b}) = Bytes(m, S) \cup N
  BY DEF Bytes
<1>3. Bytes(m, S) \cap N = {}
  BY DEF Bytes
<1>4. IsFiniteSet(Bytes(m, S)) /\ Cardinality(Bytes(m, S)) \in Nat
  BY BytesFinite
<1>5. /\ IsFiniteSet({b}) /\ Cardinality({b}) = 1
      /\ IsFiniteSet(1..m[b].size) /\ Cardinality(1..m[b].size) = m[b].size
  <2> DEFINE s == m[b].size
  <2>1. s \in Nat
    BY <1>1
  <2> HIDE DEF s
  <2>2. IsFiniteSet(1..s) /\ Cardinality(1..s) = IF 1 > s THEN 0 ELSE s - 1 + 1
    BY <2>1, FS_Interval
  <2>3. Cardinality(1..s) = s
    BY <2>1, <2>2
  <2> QED
    BY <2>2, <2>3, FS_Singleton, Zenon DEF s
<1>6. IsFiniteSet(N) /\ Cardinality(N) = m[b].size
  <2>1. IsFiniteSet(N) /\ Cardinality(N) = Cardinality({b}) * Cardinality(1..m[b].size)
    BY <1>5, FS_Product, Zenon
  <2> QED
    BY <1>1, <1>5, <2>1
<1> HIDE DEF N
<1>7. Cardinality(Bytes(m, S) \cup N) = Cardinality(Bytes(m, S)) + Cardinality(N)
                                        - Cardinality(Bytes(m, S) \cap N)
  BY <1>4, <1>6, FS_Union
<1>8. Cardinality(Bytes(m, S) \cap N) = 0
  BY <1>3, FS_EmptySet, Zenon
<1>9. Cardinality(Bytes(m, S) \cup N) = Cardinality(Bytes(m, S)) + m[b].size
  BY <1>1, <1>4, <1>6, <1>7, <1>8
<1> QED
  BY <1>2, <1>9, Zenon

LEMMA BytesRemove ==
  ASSUME NEW m \in [Blocks -> Class \cup {Nil}],
         NEW S \in SUBSET Blocks, \A b \in S : m[b] # Nil,
         NEW b \in S
  PROVE  Cardinality(Bytes(m, S)) = Cardinality(Bytes(m, S \ {b})) + m[b].size
<1>1. (S \ {b}) \cup {b} = S
  OBVIOUS
<1>2. Cardinality(Bytes(m, (S \ {b}) \cup {b})) =
        Cardinality(Bytes(m, S \ {b})) + m[b].size
  BY BytesAdd
<1> QED
  BY <1>1, <1>2

LEMMA BytesSubset ==
  ASSUME NEW m \in [Blocks -> Class \cup {Nil}],
         NEW T \in SUBSET Blocks, \A b \in T : m[b] # Nil,
         NEW S \in SUBSET T
  PROVE  Cardinality(Bytes(m, S)) <= Cardinality(Bytes(m, T))
<1>1. Bytes(m, S) \subseteq Bytes(m, T)
  BY DEF Bytes
<1> QED
  BY <1>1, BytesFinite, FS_Subset

LEMMA BytesSameHeap ==
  ASSUME NEW m, NEW n, NEW S, \A b \in S : n[b] = m[b]
  PROVE  Bytes(n, S) = Bytes(m, S)
  BY DEF Bytes

LEMMA BytesNone == ASSUME NEW m PROVE Cardinality(Bytes(m, {})) = 0
<1>1. Bytes(m, {}) = {}
  BY DEF Bytes
<1> QED
  BY <1>1, FS_EmptySet

-----------------------------------------------------------------------------
(* Accounting, where nil assignments do not allocate *)

LiveIn(m) == {b \in Blocks : m[b] # Nil}
HeapFits(m) == Cardinality(Bytes(m, LiveIn(m))) <= SizeMax

\* The inductive invariant of the second half, beside StructInv.  That the live
\* blocks fit the address space is what keeps used from wrapping when the pool
\* has no capacity.
AccountInv ==
    /\ OwnershipExact
    /\ UsedIsHeldBytes
    /\ CapacityRespected
    /\ HeapFits(mem)

\* What the accounting needs of the tables.
HoldingsTyped ==
    /\ Scalars
    /\ tables \in Tables
    /\ mem \in [Blocks -> Class \cup {Nil}]
    /\ \A b \in tables.used_mem_by_block : mem[b] # Nil
    /\ held \subseteq tables.used_mem_by_block

LEMMA StructTyped == StructInv => HoldingsTyped
  BY DEF StructInv, SoundOver, HoldingsTyped, TablesInv, Owned

LEMMA HeldFacts ==
  ASSUME HoldingsTyped
  PROVE  /\ held \in SUBSET Blocks /\ held \in SUBSET LiveIn(mem)
         /\ LiveIn(mem) \in SUBSET Blocks
         /\ mem \in [Blocks -> Class \cup {Nil}]
         /\ \A b \in held : mem[b] # Nil /\ mem[b] \in Class
         /\ \A b \in LiveIn(mem) : mem[b] # Nil
         /\ \A b \in held : mem[b].size \in Nat
         /\ SizeMax \in Nat /\ used \in SizeT /\ capacity \in SizeT
<1>1. /\ tables.used_mem_by_block \subseteq Blocks
      /\ \A b \in tables.used_mem_by_block : mem[b] # Nil /\ mem[b] \in Class
  BY DEF HoldingsTyped, Tables
<1> QED
  BY <1>1, ClassFacts, LayoutAssumption DEF HoldingsTyped, Scalars, LiveIn, SizeT

(***************************************************************************)
(* What acquiring a block does to the bytes held: the sum cannot wrap.     *)
(* The block is an idle one of the class, or new.                          *)
(***************************************************************************)
LEMMA AcquiredBytes ==
  ASSUME HoldingsTyped, AccountInv, ref_L,
         NEW c \in Class, NEW b \in Blocks, b \notin held, NEW m,
         \/ mem[b] = c /\ m = mem
         \/ mem[b] = Nil /\ Room(c.size) /\ m = [mem EXCEPT ![b] = c]
  PROVE  /\ Cardinality(Bytes(m, held \cup {b})) = used + c.size
         /\ used + c.size <= SizeMax
         /\ HeapFits(m)
<1>1. /\ m[b] = c
      /\ \A x \in Blocks : x # b => m[x] = mem[x]
      /\ \A x \in Blocks : mem[x] # Nil => m[x] = mem[x]
      /\ m \in [Blocks -> Class \cup {Nil}]
  BY HeldFacts
<1>2. c # Nil /\ c.size \in Nat
  BY TablesAssumption, ClassFacts, LayoutAssumption DEF SizeT
<1>3. \A x \in held : m[x] = mem[x] /\ m[x] # Nil /\ x \in Blocks
  BY <1>1, HeldFacts
<1>4. Bytes(m, held) = Bytes(mem, held)
  BY <1>3, BytesSameHeap
<1>5. Cardinality(Bytes(m, held \cup {b})) = Cardinality(Bytes(m, held)) + m[b].size
  BY <1>1, <1>2, <1>3, HeldFacts, BytesAdd
<1>6. Cardinality(Bytes(mem, held)) = used
  BY DEF AccountInv, UsedIsHeldBytes
<1>7. Cardinality(Bytes(m, held \cup {b})) = used + c.size
  BY <1>1, <1>4, <1>5, <1>6
<1>8. /\ LiveIn(m) = LiveIn(mem) \cup {b}
      /\ \A x \in LiveIn(m) : m[x] # Nil
      /\ LiveIn(m) \in SUBSET Blocks
  BY <1>1, <1>2 DEF LiveIn
<1>9. HeapFits(m)
  <2>1. CASE m = mem
    BY <2>1 DEF AccountInv
  <2>2. CASE mem[b] = Nil /\ Room(c.size)
    <3>1. Cardinality(Bytes(mem, Live)) + c.size <= SizeMax
      BY <2>2 DEF Room
    <3>2. b \notin LiveIn(mem) /\ Live = LiveIn(mem)
      BY <2>2 DEF LiveIn, Live
    <3>3. \A x \in LiveIn(mem) : m[x] = mem[x] /\ m[x] # Nil
      BY <1>1, <3>2 DEF LiveIn
    <3>4. Bytes(m, LiveIn(mem)) = Bytes(mem, LiveIn(mem))
      BY <3>3, BytesSameHeap
    <3>5. Cardinality(Bytes(m, LiveIn(mem) \cup {b}))
            = Cardinality(Bytes(m, LiveIn(mem))) + m[b].size
      BY <1>1, <1>2, <3>2, <3>3, HeldFacts, BytesAdd
    <3>6. Cardinality(Bytes(m, LiveIn(m))) <= SizeMax
      BY <1>1, <1>8, <3>1, <3>2, <3>4, <3>5
    <3> QED
      BY <3>6 DEF HeapFits
  <2> QED
    BY <2>1, <2>2
<1>10. held \cup {b} \in SUBSET LiveIn(m)
  BY <1>8, HeldFacts
<1>11. Cardinality(Bytes(m, held \cup {b})) <= Cardinality(Bytes(m, LiveIn(m)))
  BY <1>1, <1>8, <1>10, BytesSubset
<1>12. used + c.size <= SizeMax
  <2>1. /\ IsFiniteSet(Bytes(m, LiveIn(m)))
        /\ Cardinality(Bytes(m, LiveIn(m))) \in Nat
    BY <1>1, <1>8, BytesFinite
  <2> QED
    BY <1>2, <1>7, <1>9, <1>11, <2>1, HeldFacts DEF HeapFits, SizeT
<1> QED
  BY <1>7, <1>9, <1>12

\* The same of the block that acquire_used_block returns.
LEMMA CanAcquireBytes ==
  ASSUME StructInv, AccountInv, ref_L,
         NEW c \in Class, NEW b \in Blocks, CanAcquire(c, b)
  PROVE  /\ Cardinality(Bytes(HeapAfter(c, b), held \cup {b})) = used + c.size
         /\ used + c.size <= SizeMax
         /\ HeapFits(HeapAfter(c, b))
         /\ b \notin held
<1>1. HoldingsTyped
  BY StructTyped
<1>2. b \notin held /\ HeapAfter(c, b)[b] = c
  BY Acquired DEF AccountInv, OwnershipExact
<1>3. \/ mem[b] = c /\ HeapAfter(c, b) = mem
      \/ mem[b] = Nil /\ Room(c.size) /\ HeapAfter(c, b) = [mem EXCEPT ![b] = c]
  BY <1>2 DEF CanAcquire, HeapAfter
<1> QED
  BY <1>1, <1>2, <1>3, AcquiredBytes

(***************************************************************************)
(* What a held block leaves behind when the caller gives it up.            *)
(***************************************************************************)
LEMMA ReleasedBytes ==
  ASSUME HoldingsTyped, AccountInv, ref_L, NEW b \in held
  PROVE  /\ Cardinality(Bytes(mem, held \ {b})) = used - mem[b].size
         /\ mem[b].size <= used
         /\ MinusT(used, mem[b].size) = used - mem[b].size
<1>1. Cardinality(Bytes(mem, held)) =
        Cardinality(Bytes(mem, held \ {b})) + mem[b].size
  BY HeldFacts, BytesRemove
<1>2. Cardinality(Bytes(mem, held)) = used
  BY DEF AccountInv, UsedIsHeldBytes
<1>3. Cardinality(Bytes(mem, held \ {b})) \in Nat
  BY HeldFacts, BytesFinite
<1>4. used \in Nat /\ mem[b].size \in Nat
  BY HeldFacts DEF SizeT
<1> QED
  BY <1>1, <1>2, <1>3, <1>4 DEF MinusT

LEMMA AnswerAccount ==
  ASSUME AccountInv, NEW outcome, Answer(outcome)
  PROVE  AccountInv'
  BY DEF AccountInv, Answer, OwnershipExact, UsedIsHeldBytes, CapacityRespected

LEMMA AcquireFailsAccount ==
  ASSUME StructInv, AccountInv, ~NilKeyAllocates, NEW c \in Class, AcquireFails(c)
  PROVE  AccountInv'
<1>1. CASE UNCHANGED <<tables, mem>>
  BY <1>1 DEF AcquireFails, AccountInv, OwnershipExact, UsedIsHeldBytes, CapacityRespected
<1>2. ASSUME ChainHead(tables, c) = Nil, Room(c.size), UNCHANGED tables,
             NEW b \in Blocks \ Live, mem' = [mem EXCEPT ![b] = c]
      PROVE  AccountInv'
  <2>1. /\ mem[b] = Nil /\ c # Nil /\ b \notin held /\ Live = LiveIn(mem)
        /\ b \notin LiveIn(mem)
    BY HeldFacts, StructTyped, TablesAssumption DEF Live, LiveIn
  <2>2. /\ (mem')[b] = c
        /\ \A x \in Blocks : x # b => (mem')[x] = mem[x]
        /\ mem' \in [Blocks -> Class \cup {Nil}]
    BY <1>2, HeldFacts, StructTyped
  <2>3. LiveIn(mem') = LiveIn(mem) \cup {b}
    BY <2>1, <2>2 DEF LiveIn
  <2>4. /\ \A x \in LiveIn(mem) : (mem')[x] = mem[x] /\ (mem')[x] # Nil
        /\ \A x \in held : (mem')[x] = mem[x]
    BY <2>1, <2>2, HeldFacts, StructTyped DEF LiveIn
  <2>5. /\ Bytes(mem', LiveIn(mem)) = Bytes(mem, LiveIn(mem))
        /\ Bytes(mem', held) = Bytes(mem, held)
    BY <2>4, BytesSameHeap
  <2>6. Cardinality(Bytes(mem', LiveIn(mem) \cup {b}))
          = Cardinality(Bytes(mem', LiveIn(mem))) + (mem')[b].size
    BY <2>1, <2>2, <2>4, HeldFacts, StructTyped, BytesAdd
  <2>7. HeapFits(mem')
    BY <1>2, <2>1, <2>2, <2>3, <2>5, <2>6 DEF HeapFits, Room
  <2> QED
    BY <1>2, <2>5, <2>7
       DEF AcquireFails, AccountInv, OwnershipExact, UsedIsHeldBytes, CapacityRespected
<1> QED
  BY <1>1, <1>2 DEF AcquireFails

(***************************************************************************)
(* The capacity test of pool_alloc_protected leaves room for the request.  *)
(***************************************************************************)
LEMMA AllocateAccount ==
  ASSUME StructInv, AccountInv, ~NilKeyAllocates, ref_L,
         NEW c \in Class, Allocate(c)
  PROVE  AccountInv'
<1>1. CASE Answer("ENOMEM")
  BY <1>1, AnswerAccount
<1>2. CASE AcquireFails(c)
  BY <1>2, AcquireFailsAccount
<1>3. ASSUME ~Refused(c), NEW b \in Blocks, CanAcquire(c, b),
             tables' = TablesAfter(c, b), mem' = HeapAfter(c, b),
             held' = held \cup {b}, used' = PlusT(used, c.size), status' = "ok",
             UNCHANGED <<ref_L, capacity, refs, handles>>
      PROVE  AccountInv'
  <2>1. /\ Cardinality(Bytes(mem', held')) = used + c.size
        /\ used + c.size <= SizeMax
        /\ HeapFits(mem')
    BY <1>3, CanAcquireBytes
  <2>2. used \in Nat /\ capacity \in Nat /\ SizeMax \in Nat /\ c.size \in Nat
    BY HeldFacts, StructTyped, ClassFacts DEF SizeT
  <2>3. used' = used + c.size
    BY <1>3, <2>1, <2>2 DEF PlusT
  <2>4. OwnershipExact'
    BY <1>3, Acquired DEF AccountInv, OwnershipExact
  <2>5. capacity # 0 => used' <= capacity
    <3>1. capacity # 0 => used <= capacity /\ ~(c.size > MinusT(capacity, used))
      BY <1>3 DEF AccountInv, CapacityRespected, Refused
    <3> QED
      BY <2>2, <2>3, <3>1 DEF MinusT
  <2> QED
    BY <1>3, <2>1, <2>3, <2>4, <2>5 DEF AccountInv, UsedIsHeldBytes, CapacityRespected
<1> QED
  BY <1>1, <1>2, <1>3 DEF Allocate

LEMMA GiveUpAccount ==
  ASSUME HoldingsTyped, AccountInv, ref_L, NEW b \in tables.used_mem_by_block,
         (tables').used_mem_by_block = tables.used_mem_by_block \ {b},
         used' = MinusT(used, mem[b].size), held' = held \ {b},
         UNCHANGED <<ref_L, capacity, mem>>
  PROVE  AccountInv'
<1>1. b \in held
  BY DEF AccountInv, OwnershipExact
<1>2. /\ Cardinality(Bytes(mem, held')) = used'
      /\ used' = used - mem[b].size
  BY <1>1, ReleasedBytes
<1>3. used' <= used
  BY <1>1, <1>2, HeldFacts DEF SizeT
<1>4. capacity # 0 => used' <= capacity
  BY <1>1, <1>2, <1>3, HeldFacts DEF AccountInv, CapacityRespected, SizeT
<1> QED
  BY <1>2, <1>4 DEF AccountInv, OwnershipExact, UsedIsHeldBytes, CapacityRespected

LEMMA FreeAccount ==
  ASSUME StructInv, AccountInv, NEW b, Free(b)
  PROVE  AccountInv'
<1>1. CASE \E outcome \in {"ok", "EINVAL", "ENOMEM"} : Answer(outcome)
  BY <1>1, AnswerAccount
<1>2. CASE /\ b \in tables.used_mem_by_block
           /\ tables' \in Released(tables, mem[b], b)
           /\ used' = MinusT(used, mem[b].size)
           /\ held' = held \ {b}
           /\ UNCHANGED <<ref_L, capacity, mem, refs, handles>>
  <2>1. (tables').used_mem_by_block = tables.used_mem_by_block \ {b}
    BY <1>2, ReleasedInv DEF StructInv, SoundOver
  <2>2. ref_L
    BY DEF Free
  <2> QED
    BY <1>2, <2>1, <2>2, GiveUpAccount, StructTyped
<1> QED
  BY <1>1, <1>2 DEF Free

(***************************************************************************)
(* pool_realloc: both blocks count in between, and the capacity test has   *)
(* already taken the old one's bytes off.                                  *)
(***************************************************************************)
LEMMA MoveAccount ==
  ASSUME StructInv, AccountInv, ref_L, NEW b \in tables.used_mem_by_block,
         NEW c \in Class, ~RefusedResize(b, c), Move(b, c)
  PROVE  AccountInv'
<1>1. PICK n \in Blocks :
        /\ CanAcquire(c, n)
        /\ tables' \in Released(TablesAfter(c, n), mem[b], b)
        /\ mem' = HeapAfter(c, n)
        /\ held' = (held \cup {n}) \ {b}
  BY DEF Move
<1>2. /\ used' = MinusT(PlusT(used, c.size), mem[b].size)
      /\ UNCHANGED <<ref_L, capacity, refs, handles>>
  BY DEF Move
<1> DEFINE t == TablesAfter(c, n)
           S == held \cup {n}
<1>3. b \in held /\ held = tables.used_mem_by_block
  BY DEF AccountInv, OwnershipExact
<1>4. /\ TablesInv(t, mem', refs)
      /\ t.used_mem_by_block = tables.used_mem_by_block \cup {n}
      /\ \A x \in Blocks : mem[x] # Nil => (mem')[x] = mem[x]
      /\ (mem')[n] = c
      /\ n \notin held
  BY <1>1, <1>3, Acquired
<1>5. (mem')[b] = mem[b] /\ mem[b] # Nil /\ b \in Blocks /\ b \in S
  BY <1>3, <1>4, HeldFacts, StructTyped
<1>6. (tables').used_mem_by_block = t.used_mem_by_block \ {b}
  <2> HIDE DEF t
  <2>1. b \in t.used_mem_by_block /\ tables' \in Released(t, (mem')[b], b)
    BY <1>1, <1>4, <1>5 DEF t
  <2> QED
    BY <1>4, <2>1, ReleasedInv
<1>7. /\ Cardinality(Bytes(mem', S)) = used + c.size
      /\ used + c.size <= SizeMax
      /\ HeapFits(mem')
  BY <1>1, CanAcquireBytes
<1>8. /\ mem' \in [Blocks -> Class \cup {Nil}]
      /\ S \in SUBSET Blocks
      /\ \A x \in S : (mem')[x] # Nil
  BY <1>4, HeldFacts, StructTyped, TablesAssumption DEF TablesInv
<1> HIDE DEF S, t
<1>9. Cardinality(Bytes(mem', S)) = Cardinality(Bytes(mem', S \ {b})) + (mem')[b].size
  BY <1>5, <1>8, BytesRemove
<1>10. Cardinality(Bytes(mem', S \ {b})) \in Nat
  BY <1>8, BytesFinite
<1>11. /\ used \in Nat /\ capacity \in Nat /\ SizeMax \in Nat
       /\ c.size \in Nat /\ mem[b].size \in Nat
  BY <1>3, HeldFacts, StructTyped, ClassFacts DEF SizeT
<1>12. PlusT(used, c.size) = used + c.size
  BY <1>7, <1>11 DEF PlusT
<1>13. Cardinality(Bytes(mem', S \ {b})) = used + c.size - mem[b].size
  BY <1>5, <1>7, <1>9, <1>10, <1>11
<1>14. used' = used + c.size - mem[b].size
  BY <1>2, <1>10, <1>11, <1>12, <1>13 DEF MinusT
<1>15. capacity # 0 => used' <= capacity
  <2>1. /\ mem[b].size <= used
        /\ MinusT(used, mem[b].size) = used - mem[b].size
    BY <1>3, ReleasedBytes, StructTyped
  <2>2. capacity # 0 => /\ used <= capacity
                        /\ ~(c.size > MinusT(capacity, used - mem[b].size))
    BY <2>1 DEF AccountInv, CapacityRespected, RefusedResize
  <2> QED
    BY <1>11, <1>14, <2>1, <2>2 DEF MinusT
<1>16. held' = S \ {b} /\ OwnershipExact'
  BY <1>1, <1>3, <1>4, <1>6 DEF S, OwnershipExact
<1> QED
  BY <1>2, <1>7, <1>13, <1>14, <1>15, <1>16
     DEF AccountInv, UsedIsHeldBytes, CapacityRespected

LEMMA ReallocAccount ==
  ASSUME StructInv, AccountInv, ~NilKeyAllocates,
         NEW b \in Blocks \cup {Nil}, NEW size \in Sizes, Realloc(b, size)
  PROVE  AccountInv'
<1>1. DefaultClass(size) \in Class /\ ref_L
  BY ClassFacts DEF Realloc
<1>2. CASE Allocate(DefaultClass(size))
  BY <1>1, <1>2, AllocateAccount
<1>3. CASE Free(b)
  BY <1>3, FreeAccount
<1>4. CASE \E outcome \in {"ok", "EINVAL", "ENOMEM"} : Answer(outcome)
  BY <1>4, AnswerAccount
<1>5. CASE AcquireFails(DefaultClass(size))
  BY <1>1, <1>5, AcquireFailsAccount
<1>6. CASE /\ b \in tables.used_mem_by_block
           /\ ~RefusedResize(b, DefaultClass(size)) /\ Move(b, DefaultClass(size))
  BY <1>1, <1>6, MoveAccount
<1> QED
  BY <1>2, <1>3, <1>4, <1>5, <1>6 DEF Realloc, Resize

LEMMA DetachAccount ==
  ASSUME StructInv, AccountInv, NEW b, Detach(b)
  PROVE  AccountInv'
<1>1. CASE \E outcome \in {"ok", "EINVAL", "ENOMEM"} : Answer(outcome)
  BY <1>1, AnswerAccount
<1>2. CASE /\ b \in tables.used_mem_by_block
           /\ tables' = ForgetUsed(tables, b)
           /\ used' = MinusT(used, mem[b].size)
           /\ held' = held \ {b}
           /\ UNCHANGED <<ref_L, capacity, mem>>
  <2>1. (tables').used_mem_by_block = tables.used_mem_by_block \ {b}
    BY <1>2, ForgetFields DEF StructInv, SoundOver, TablesInv
  <2>2. ref_L
    BY DEF Detach
  <2> QED
    BY <1>2, <2>1, <2>2, GiveUpAccount, StructTyped
<1> QED
  BY <1>1, <1>2 DEF Detach

LEMMA CollectAccount ==
  ASSUME HoldingsTyped, AccountInv, NEW D \in SUBSET Blocks, Collect(D)
  PROVE  AccountInv'
<1>1. /\ D \subseteq Blocks \ Owned(tables, refs)
      /\ mem' = [b \in Blocks |-> IF b \in D THEN Nil ELSE mem[b]]
      /\ tables' = Collected(tables, D)
      /\ UNCHANGED <<ref_L, capacity, used, refs, held, handles>>
  BY DEF Collect, Live, Reachable, Owned
<1>2. (tables').used_mem_by_block = tables.used_mem_by_block
  BY <1>1 DEF HoldingsTyped, Tables, Collected
<1>3. held \cap D = {}
  BY <1>1 DEF AccountInv, OwnershipExact, Owned
<1>4. \A x \in held : (mem')[x] = mem[x]
  BY <1>1, <1>3, HeldFacts
<1>5. Bytes(mem', held) = Bytes(mem, held)
  BY <1>4, BytesSameHeap
<1>6. LiveIn(mem') = LiveIn(mem) \ D
  BY <1>1 DEF LiveIn
<1>7. \A x \in LiveIn(mem) \ D : (mem')[x] = mem[x]
  BY <1>1, HeldFacts
<1>8. Bytes(mem', LiveIn(mem')) = Bytes(mem, LiveIn(mem) \ D)
  BY <1>6, <1>7, BytesSameHeap
<1>9. Cardinality(Bytes(mem, LiveIn(mem) \ D)) <= Cardinality(Bytes(mem, LiveIn(mem)))
  BY HeldFacts, BytesSubset
<1>10. /\ Cardinality(Bytes(mem, LiveIn(mem) \ D)) \in Nat
       /\ Cardinality(Bytes(mem, LiveIn(mem))) \in Nat
  <2>1. LiveIn(mem) \ D \in SUBSET Blocks /\ \A x \in LiveIn(mem) \ D : mem[x] # Nil
    BY HeldFacts
  <2> QED
    BY <2>1, HeldFacts, BytesFinite
<1>11. HeapFits(mem')
  BY <1>8, <1>9, <1>10, LayoutAssumption DEF AccountInv, HeapFits
<1> QED
  BY <1>1, <1>2, <1>5, <1>11
     DEF AccountInv, OwnershipExact, UsedIsHeldBytes, CapacityRespected

LEMMA AccountInit == Init => AccountInv
<1> SUFFICES ASSUME Init PROVE AccountInv
  OBVIOUS
<1>1. LiveIn(mem) = {}
  BY DEF Init, LiveIn
<1>2. Cardinality(Bytes(mem, {})) = 0
  BY BytesNone
<1>3. HeapFits(mem)
  BY <1>1, <1>2, LayoutAssumption DEF HeapFits
<1>4. OwnershipExact
  BY DEF Init, OwnershipExact, EmptyTables
<1>5. ~ref_L
  BY DEF Init
<1> QED
  BY <1>3, <1>4, <1>5 DEF AccountInv, UsedIsHeldBytes, CapacityRespected

LEMMA AccountStep ==
  ASSUME ~NilKeyAllocates
  PROVE  StructInv /\ AccountInv /\ [Next]_vars => AccountInv'
<1> SUFFICES ASSUME StructInv, AccountInv, [Next]_vars PROVE AccountInv'
  OBVIOUS
<1>1. ASSUME NEW cap \in Capacities, New(cap) PROVE AccountInv'
  <2>1. CASE Answer("ENOMEM")
    BY <2>1, AnswerAccount
  <2>2. CASE /\ capacity' = cap /\ used' = 0
             /\ tables' = EmptyTables /\ held' = {}
             /\ UNCHANGED <<mem, refs, handles>>
    <3>1. Cardinality(Bytes(mem', held')) = 0
      BY <2>2, BytesNone
    <3>2. cap \in Nat
      BY PoolAssumption, LayoutAssumption DEF SizeT
    <3> QED
      BY <2>2, <3>1, <3>2 DEF AccountInv, OwnershipExact, UsedIsHeldBytes,
                              CapacityRespected, EmptyTables
  <2> QED
    BY <1>1, <2>1, <2>2 DEF New
<1>2. CASE Delete
  BY <1>2 DEF Delete, AccountInv, OwnershipExact, UsedIsHeldBytes,
              CapacityRespected, EmptyTables
<1>3. ASSUME NEW size \in Sizes, NEW alignment \in Alignments,
             AlignedAlloc(size, alignment)
      PROVE  AccountInv'
  <2>1. CASE Answer("EINVAL")
    BY <2>1, AnswerAccount
  <2>2. CASE /\ NormalizedAlignment(alignment) # 0
             /\ Allocate([size |-> size, alignment |-> NormalizedAlignment(alignment)])
    BY <1>3, <2>2, ClassFacts, AllocateAccount DEF AlignedAlloc
  <2> QED
    BY <1>3, <2>1, <2>2 DEF AlignedAlloc
<1>4. ASSUME NEW count \in Sizes, NEW size \in Sizes, Calloc(count, size)
      PROVE  AccountInv'
  <2>1. CASE Answer("ENOMEM")
    BY <2>1, AnswerAccount
  <2>2. CASE count * size \in Sizes /\ Allocate(DefaultClass(count * size))
    BY <1>4, <2>2, ClassFacts, AllocateAccount DEF Calloc
  <2> QED
    BY <1>4, <2>1, <2>2 DEF Calloc
<1>5. ASSUME NEW b \in Blocks \cup {Nil}, NEW size \in Sizes, Realloc(b, size)
      PROVE  AccountInv'
  BY <1>5, ReallocAccount
<1>6. ASSUME NEW b \in Blocks \cup {Nil}, Free(b) PROVE AccountInv'
  BY <1>6, FreeAccount
<1>7. ASSUME NEW b \in Blocks \cup {Nil}, Detach(b) PROVE AccountInv'
  BY <1>7, DetachAccount
<1>8. ASSUME NEW b \in Blocks, MemFree(b) PROVE AccountInv'
  BY <1>8 DEF MemFree, AccountInv, OwnershipExact, UsedIsHeldBytes, CapacityRespected
<1>9. ASSUME NEW D \in SUBSET Blocks, Collect(D) PROVE AccountInv'
  BY <1>9, CollectAccount, StructTyped
<1>10. CASE UNCHANGED vars
  BY <1>10 DEF vars, AccountInv, OwnershipExact, UsedIsHeldBytes, CapacityRespected
<1> QED
  BY <1>1, <1>2, <1>3, <1>4, <1>5, <1>6, <1>7, <1>8, <1>9, <1>10 DEF Next

(***************************************************************************)
(* Where nil assignments do not allocate, pool->used is at every moment    *)
(* the number of usable bytes the caller holds and stays within the        *)
(* capacity, and the pool owns exactly the pointers the caller may return: *)
(* no block is handed out twice, lost on an error path or released twice.  *)
(***************************************************************************)
THEOREM AccountingExact ==
  ASSUME ~NilKeyAllocates
  PROVE  Spec => []AccountsExact
<1>1. Init => StructInv /\ AccountInv
  BY StructInit, AccountInit
<1>2. StructInv /\ AccountInv /\ [Next]_vars => (StructInv /\ AccountInv)'
  BY StructStep, AccountStep
<1>3. StructInv /\ AccountInv => AccountsExact
  BY DEF AccountInv, AccountsExact
<1> QED
  BY <1>1, <1>2, <1>3, PTL DEF Spec

(***************************************************************************)
(* Where nil assignments do not allocate, a call that fails leaves the     *)
(* pool, its tables and everything the caller owns as they were.           *)
(***************************************************************************)
THEOREM FailureAtomic ==
  ASSUME ~NilKeyAllocates
  PROVE  Spec => FailureLeavesPoolUnchanged
<1> DEFINE Same == UNCHANGED <<ref_L, capacity, used, tables, refs, held, handles>>
<1>1. \A outcome : Answer(outcome) => Same
  BY DEF Answer
<1>2. \A c : AcquireFails(c) => Same
  BY DEF AcquireFails
<1>3. \A c : Allocate(c) => Same \/ status' = "ok"
  BY <1>1, <1>2 DEF Allocate
<1>4. \A b : Free(b) => Same \/ status' = "ok"
  BY <1>1 DEF Free
<1>5. \A b, size : Realloc(b, size) => Same \/ status' = "ok"
  BY <1>1, <1>2, <1>3, <1>4 DEF Realloc, Resize, Move
<1>6. \A b : Detach(b) => Same \/ status' = "ok"
  BY <1>1 DEF Detach
<1>7. Next => Same \/ status' = "ok"
  BY <1>1, <1>3, <1>4, <1>5, <1>6
     DEF Next, New, Delete, AlignedAlloc, Calloc, MemFree, Collect
<1>8. [Next]_vars => [status' # "ok" => Same]_vars
  BY <1>7
<1> QED
  BY <1>8, PTL DEF Spec, FailureLeavesPoolUnchanged

-----------------------------------------------------------------------------
(* The pool implements the promise of its header *)

\* What the caller sees of the pool.
View == <<ref_L, capacity, HeldClass, HandleClass>>

\* What is held or detached is alive, so it has a class, and nothing is both.
LEMMA ViewFacts ==
  ASSUME StructInv, AccountInv
  PROVE  /\ held = tables.used_mem_by_block /\ handles = refs
         /\ held \subseteq Blocks /\ handles \subseteq Blocks /\ held \cap handles = {}
         /\ mem \in [Blocks -> Class \cup {Nil}]
         /\ \A b \in held \cup handles : mem[b] # Nil /\ mem[b] \in Class
  BY StructTypes DEF StructInv, SoundOver, AccountInv, OwnershipExact

LEMMA SameCardinality ==
  ASSUME NEW S
  PROVE  Promise!Cardinality(S) = Cardinality(S)
  BY DEF Promise!Cardinality, Cardinality

(***************************************************************************)
(* The promise counts the bytes of what is held, as the pool does.         *)
(***************************************************************************)
LEMMA SameBytes ==
  ASSUME NEW m, NEW S \in SUBSET Blocks, \A b \in S : m[b] # Nil
  PROVE  Promise!HeldBytes([b \in Blocks |-> IF b \in S THEN m[b] ELSE Nil]) = Bytes(m, S)
<1> DEFINE h == [b \in Blocks |-> IF b \in S THEN m[b] ELSE Nil]
<1>1. {x \in Blocks : h[x] # Nil} = S /\ \A b \in S : h[b] = m[b]
  OBVIOUS
<1> HIDE DEF h
<1>2. Promise!HeldBytes(h) = UNION {{b} \X (1..h[b].size) : b \in S}
  BY <1>1 DEF Promise!HeldBytes
<1>3. Promise!HeldBytes(h) = Bytes(m, S)
  BY <1>1, <1>2 DEF Bytes
<1> QED
  BY <1>3 DEF h

(***************************************************************************)
(* After a call the capacity that the pool respects is the promised limit. *)
(***************************************************************************)
LEMMA LimitKept ==
  ASSUME AccountInv', ref_L', UNCHANGED capacity, held' \in SUBSET Blocks,
         \A b \in held' : (mem')[b] # Nil
  PROVE  Promise!WithinLimit(HeldClass')
<1>1. Promise!HeldBytes(HeldClass') = Bytes(mem', held')
  BY SameBytes DEF HeldClass
<1>2. capacity # 0 => Cardinality(Bytes(mem', held')) <= capacity
  BY DEF AccountInv, UsedIsHeldBytes, CapacityRespected
<1> QED
  BY <1>1, <1>2, SameCardinality DEF Promise!WithinLimit

(***************************************************************************)
(* A step that keeps what the caller owns, and its classes, is invisible.  *)
(***************************************************************************)
LEMMA Invisible ==
  ASSUME StructInv, AccountInv, UNCHANGED <<ref_L, capacity, held, handles>>,
         \A b \in held \cup handles : (mem')[b] = mem[b]
  PROVE  UNCHANGED View
<1>1. UNCHANGED HeldClass
  BY DEF HeldClass
<1>2. UNCHANGED HandleClass
  BY DEF HandleClass
<1> QED
  BY <1>1, <1>2 DEF View

LEMMA AnswerInvisible ==
  ASSUME StructInv, AccountInv, NEW outcome, Answer(outcome)
  PROVE  UNCHANGED View
  BY Invisible DEF Answer

LEMMA AcquireFailsInvisible ==
  ASSUME StructInv, AccountInv, NEW c \in Class, AcquireFails(c)
  PROVE  UNCHANGED View
<1>1. UNCHANGED <<ref_L, capacity, held, handles>>
  BY DEF AcquireFails
<1>2. \A b \in held \cup handles : (mem')[b] = mem[b]
  <2>1. CASE UNCHANGED mem
    BY <2>1
  <2>2. ASSUME NEW n \in Blocks \ Live, mem' = [mem EXCEPT ![n] = c]
        PROVE  \A b \in held \cup handles : (mem')[b] = mem[b]
    BY <2>2, ViewFacts DEF Live
  <2> QED
    BY <2>1, <2>2 DEF AcquireFails
<1> QED
  BY <1>1, <1>2, Invisible

(***************************************************************************)
(* pool_aligned_alloc and pool_calloc grant a block that nobody has.       *)
(***************************************************************************)
LEMMA AllocateGrants ==
  ASSUME StructInv, AccountInv, AccountInv', ref_L,
         NEW c \in Class, Allocate(c)
  PROVE  UNCHANGED View \/ \E b \in Blocks : Promise!Grant(b, c)
<1>1. CASE Answer("ENOMEM")
  BY <1>1, AnswerInvisible
<1>2. CASE AcquireFails(c)
  BY <1>2, AcquireFailsInvisible
<1>3. ASSUME NEW b \in Blocks, CanAcquire(c, b), mem' = HeapAfter(c, b),
             held' = held \cup {b}, UNCHANGED <<ref_L, capacity, refs, handles>>
      PROVE  Promise!Grant(b, c)
  <2>1. /\ b \notin held /\ b \notin handles /\ (mem')[b] = c
        /\ \A x \in Blocks : x # b => (mem')[x] = mem[x]
    BY <1>3, Acquired, ViewFacts
  <2>2. Promise!Unclaimed(b)
    BY <2>1 DEF Promise!Unclaimed, HeldClass, HandleClass
  <2>3. HeldClass' = [HeldClass EXCEPT ![b] = c]
    BY <1>3, <2>1 DEF HeldClass
  <2>4. UNCHANGED HandleClass
    BY <1>3, <2>1, ViewFacts DEF HandleClass
  <2>5. Promise!WithinLimit(HeldClass')
    <3>1. held' \in SUBSET Blocks /\ \A x \in held' : (mem')[x] # Nil
      BY <1>3, <2>1, ViewFacts, TablesAssumption
    <3> QED
      BY <1>3, <3>1, LimitKept
  <2> QED
    BY <1>3, <2>2, <2>3, <2>4, <2>5 DEF Promise!Grant
<1> QED
  BY <1>1, <1>2, <1>3 DEF Allocate

(***************************************************************************)
(* pool_free, pool_realloc, pool_detach, pool_mem_free and a collection.   *)
(***************************************************************************)
LEMMA FreeGivesBack ==
  ASSUME StructInv, AccountInv, NEW b \in Blocks \cup {Nil}, Free(b)
  PROVE  UNCHANGED View \/ \E x \in Blocks : Promise!GiveBack(x)
<1>1. CASE \E outcome \in {"ok", "EINVAL", "ENOMEM"} : Answer(outcome)
  BY <1>1, AnswerInvisible
<1>2. CASE /\ b \in tables.used_mem_by_block
           /\ held' = held \ {b}
           /\ UNCHANGED <<ref_L, capacity, mem, refs, handles>>
  <2>1. ref_L /\ b \in held /\ b \in Blocks /\ mem[b] # Nil
    BY <1>2, ViewFacts DEF Free
  <2>2. HeldClass[b] # Nil /\ HeldClass' = [HeldClass EXCEPT ![b] = Nil]
    BY <1>2, <2>1 DEF HeldClass
  <2>3. UNCHANGED HandleClass
    BY <1>2 DEF HandleClass
  <2> QED
    BY <1>2, <2>1, <2>2, <2>3 DEF Promise!GiveBack
<1> QED
  BY <1>1, <1>2 DEF Free

LEMMA MoveExchanges ==
  ASSUME StructInv, AccountInv, AccountInv', ref_L,
         NEW b \in tables.used_mem_by_block, NEW c \in Class, Move(b, c)
  PROVE  b \in Blocks /\ \E n \in Blocks : Promise!Exchange(b, n, c)
<1>1. PICK n \in Blocks :
        CanAcquire(c, n) /\ mem' = HeapAfter(c, n) /\ held' = (held \cup {n}) \ {b}
  BY DEF Move
<1>2. UNCHANGED <<ref_L, capacity, handles>>
  BY DEF Move
<1>3. /\ n \notin held /\ n \notin handles /\ (mem')[n] = c
      /\ \A x \in Blocks : x # n => (mem')[x] = mem[x]
  BY <1>1, Acquired, ViewFacts
<1>4. b \in held /\ b \in Blocks /\ b # n /\ mem[b] # Nil
  BY <1>3, ViewFacts
<1>5. Promise!Unclaimed(n) /\ HeldClass[b] # Nil
  BY <1>3, <1>4 DEF Promise!Unclaimed, HeldClass, HandleClass
<1>6. HeldClass' = [HeldClass EXCEPT ![b] = Nil, ![n] = c]
  BY <1>1, <1>3, <1>4 DEF HeldClass
<1>7. UNCHANGED HandleClass
  BY <1>2, <1>3 DEF HandleClass
<1>8. held' \in SUBSET Blocks /\ \A x \in held' : (mem')[x] # Nil
  BY <1>1, <1>3, ViewFacts, TablesAssumption
<1>9. Promise!WithinLimit(HeldClass')
  BY <1>2, <1>8, LimitKept
<1> QED
  BY <1>2, <1>4, <1>5, <1>6, <1>7, <1>9 DEF Promise!Exchange

LEMMA ReallocKeepsPromise ==
  ASSUME StructInv, AccountInv, AccountInv',
         NEW b \in Blocks \cup {Nil}, NEW size \in Sizes, Realloc(b, size)
  PROVE  UNCHANGED View \/ Promise!Next
<1> DEFINE c == DefaultClass(size)
<1>1. ref_L /\ c \in Class
  BY ClassFacts DEF Realloc
<1>2. \/ Allocate(c) \/ Free(b) \/ AcquireFails(c)
      \/ \E outcome \in {"ok", "EINVAL", "ENOMEM"} : Answer(outcome)
      \/ b \in tables.used_mem_by_block /\ Move(b, c)
  BY DEF Realloc, Resize
<1> HIDE DEF c
<1>3. CASE Allocate(c)
  BY <1>1, <1>3, AllocateGrants DEF Promise!Next
<1>4. CASE Free(b)
  BY <1>4, FreeGivesBack DEF Promise!Next
<1>5. CASE AcquireFails(c)
  BY <1>1, <1>5, AcquireFailsInvisible
<1>6. CASE \E outcome \in {"ok", "EINVAL", "ENOMEM"} : Answer(outcome)
  BY <1>6, AnswerInvisible
<1>7. CASE b \in tables.used_mem_by_block /\ Move(b, c)
  BY <1>1, <1>7, MoveExchanges DEF Promise!Next
<1> QED
  BY <1>2, <1>3, <1>4, <1>5, <1>6, <1>7

LEMMA DetachHandsOver ==
  ASSUME StructInv, AccountInv, NEW b, Detach(b)
  PROVE  UNCHANGED View \/ \E x \in Blocks : Promise!HandOver(x)
<1>1. CASE \E outcome \in {"EINVAL", "ENOMEM"} : Answer(outcome)
  BY <1>1, AnswerInvisible
<1>2. CASE HandsOver(b)
  <2>1. ref_L /\ b \in held /\ b \in Blocks /\ mem[b] # Nil
    BY <1>2, ViewFacts DEF Detach, HandsOver
  <2>2. HeldClass[b] = mem[b] /\ HeldClass' = [HeldClass EXCEPT ![b] = Nil]
    BY <1>2, <2>1 DEF HeldClass, HandsOver
  <2>3. HandleClass' = [HandleClass EXCEPT ![b] = HeldClass[b]]
    BY <1>2, <2>1, <2>2 DEF HandleClass, HandsOver
  <2> QED
    BY <1>2, <2>1, <2>2, <2>3 DEF Promise!HandOver, HandsOver
<1> QED
  BY <1>1, <1>2, DetachCases

LEMMA MemFreeDiscards ==
  ASSUME StructInv, AccountInv, NEW b \in Blocks, MemFree(b)
  PROVE  Promise!Discard(b)
<1>1. b \in handles /\ mem[b] # Nil
  BY ViewFacts DEF MemFree
<1>2. HandleClass[b] # Nil /\ HandleClass' = [HandleClass EXCEPT ![b] = Nil]
  BY <1>1 DEF HandleClass, MemFree
<1>3. UNCHANGED HeldClass
  BY DEF HeldClass, MemFree
<1> QED
  BY <1>2, <1>3 DEF Promise!Discard, MemFree

LEMMA CollectInvisible ==
  ASSUME StructInv, AccountInv, NEW D \in SUBSET Blocks, Collect(D)
  PROVE  UNCHANGED View
<1>1. D \cap (held \cup handles) = {}
  BY ViewFacts DEF Collect, Reachable
<1>2. \A b \in held \cup handles : (mem')[b] = mem[b]
  BY <1>1, ViewFacts DEF Collect
<1> QED
  BY <1>2, Invisible DEF Collect

LEMMA LifetimePromised ==
  ASSUME StructInv, AccountInv, Delete \/ \E cap \in Capacities : New(cap)
  PROVE  UNCHANGED View \/ Promise!Next
<1>1. ASSUME held' = {} PROVE HeldClass' = Promise!Nothing
  BY <1>1 DEF HeldClass, Promise!Nothing
<1>2. CASE Delete
  <2>1. UNCHANGED HandleClass
    BY <1>2 DEF Delete, HandleClass
  <2> QED
    BY <1>1, <1>2, <2>1 DEF Delete, Promise!Next, Promise!Close
<1>3. ASSUME NEW cap \in Capacities, New(cap) PROVE UNCHANGED View \/ Promise!Next
  <2>1. CASE Answer("ENOMEM")
    BY <2>1, AnswerInvisible
  <2>2. CASE /\ ref_L' = TRUE /\ capacity' = cap /\ held' = {}
             /\ UNCHANGED <<mem, refs, handles>>
    <3>1. UNCHANGED HandleClass
      BY <2>2 DEF HandleClass
    <3>2. Promise!Open(cap)
      BY <1>1, <1>3, <2>2, <3>1 DEF New, Promise!Open
    <3> QED
      BY <3>2 DEF Promise!Next
  <2> QED
    BY <1>3, <2>1, <2>2 DEF New
<1> QED
  BY <1>2, <1>3

LEMMA PromiseStart == Init => Promise!Init
<1> SUFFICES ASSUME Init PROVE Promise!Init
  OBVIOUS
<1>1. HeldClass = Promise!Nothing /\ HandleClass = Promise!Nothing
  BY DEF Init, HeldClass, HandleClass, Promise!Nothing
<1> QED
  BY <1>1 DEF Init, Promise!Init

LEMMA PromiseStep ==
  ASSUME StructInv, AccountInv, AccountInv', [Next]_vars
  PROVE  Promise!Next \/ UNCHANGED View
<1>1. ASSUME NEW size \in Sizes, NEW alignment \in Alignments,
             AlignedAlloc(size, alignment)
      PROVE  Promise!Next \/ UNCHANGED View
  <2>1. CASE Answer("EINVAL")
    BY <2>1, AnswerInvisible
  <2>2. CASE /\ NormalizedAlignment(alignment) # 0
             /\ Allocate([size |-> size, alignment |-> NormalizedAlignment(alignment)])
    BY <1>1, <2>2, ClassFacts, AllocateGrants DEF AlignedAlloc, Promise!Next
  <2> QED
    BY <1>1, <2>1, <2>2 DEF AlignedAlloc
<1>2. ASSUME NEW count \in Sizes, NEW size \in Sizes, Calloc(count, size)
      PROVE  Promise!Next \/ UNCHANGED View
  <2>1. CASE Answer("ENOMEM")
    BY <2>1, AnswerInvisible
  <2>2. CASE count * size \in Sizes /\ Allocate(DefaultClass(count * size))
    BY <1>2, <2>2, ClassFacts, AllocateGrants DEF Calloc, Promise!Next
  <2> QED
    BY <1>2, <2>1, <2>2 DEF Calloc
<1>3. ASSUME NEW b \in Blocks \cup {Nil}, Free(b)
      PROVE  Promise!Next \/ UNCHANGED View
  BY <1>3, FreeGivesBack DEF Promise!Next
<1>4. ASSUME NEW b \in Blocks \cup {Nil}, Detach(b)
      PROVE  Promise!Next \/ UNCHANGED View
  BY <1>4, DetachHandsOver DEF Promise!Next
<1>5. ASSUME NEW b \in Blocks, MemFree(b)
      PROVE  Promise!Next \/ UNCHANGED View
  BY <1>5, MemFreeDiscards DEF Promise!Next
<1>6. CASE UNCHANGED vars
  BY <1>6, Invisible DEF vars
<1> QED
  BY <1>1, <1>2, <1>3, <1>4, <1>5, <1>6, LifetimePromised, ReallocKeepsPromise,
     CollectInvisible DEF Next

(***************************************************************************)
(* Where nil assignments do not allocate, the pool implements what pool.h  *)
(* promises: a block is granted to nobody twice, keeps its class until it  *)
(* is given back, and what is held stays within the limit.                 *)
(***************************************************************************)
THEOREM PoolKeepsPromise ==
  ASSUME ~NilKeyAllocates
  PROVE  Spec => KeepsPromise
<1>1. Init => StructInv /\ AccountInv
  BY StructInit, AccountInit
<1>2. StructInv /\ AccountInv /\ [Next]_vars => (StructInv /\ AccountInv)'
  BY StructStep, AccountStep
<1>3. StructInv /\ AccountInv /\ AccountInv' /\ [Next]_vars
        => [Promise!Next]_Promise!vars
  BY PromiseStep DEF View, Promise!vars
<1>4. Init => Promise!Init
  BY PromiseStart
<1> QED
  BY <1>1, <1>2, <1>3, <1>4, PTL DEF Spec, KeepsPromise, Promise!Spec
=============================================================================
