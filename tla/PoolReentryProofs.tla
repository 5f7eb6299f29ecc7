------------------------- MODULE PoolReentryProofs -------------------------
(***************************************************************************)
(* Safety of pool calls that finalizers interrupt, for every instance and  *)
(* any number of interruptions: what holds whatever finalizers do, and     *)
(* what holds while they only release memory.                              *)
(***************************************************************************)
EXTENDS PoolReentry, PoolProofs

\* What remains true of the tables when a finalizer allocates, which can put a used
\* block at the head of a chain: no table names a dead block.
NamesLive(t, m) ==
    /\ t \in Tables
    /\ m \in [Blocks -> Class \cup {Nil}]
    /\ \A b \in t.used_mem_by_block : m[b] # Nil
    /\ \A c \in Class : ChainHead(t, c) # Nil => m[ChainHead(t, c)] # Nil
    /\ \A b \in Blocks : t.unused_mem_next[b] # Nil => m[t.unused_mem_next[b]] # Nil

\* Where the interrupted call is, and that its block is alive.
CallInv ==
    /\ pc \in Points \cup {"idle"}
    /\ class \in Class \cup {Nil}
    /\ old \in Blocks \cup {Nil}
    /\ allocations \in 0..MaxAllocations
    /\ pc = "idle" <=> class = Nil
    /\ pc = "idle" => old = Nil
    /\ pc \in {"cache_key", "cache_head"} => old # Nil
    /\ old # Nil => mem[old] # Nil

LoosePool ==
    /\ Scalars
    /\ NamesLive(tables, mem)
    /\ refs \subseteq Blocks /\ handles = refs
    /\ \A b \in refs : mem[b] # Nil
    /\ held \subseteq tables.used_mem_by_block

\* The inductive invariant of the first half.
LooseInv == LoosePool /\ CallInv

-----------------------------------------------------------------------------
\* The tables without the link that CacheLink has written, and what is off the
\* chains although it is not used: the detached blocks and the block being cached.
Caching == {"cache_key", "cache_head"}
Unlinked(t, b) == [t EXCEPT !.unused_mem_next[b] = Nil]
Plain(t, p, b) == IF p = "cache_head" THEN Unlinked(t, b) ELSE t
Pinned(r, p, b) == IF p \in Caching THEN r \cup {b} ELSE r

\* K is the rest of the chain that block b of class c will lead: the blocks behind
\* the head that CacheLink read.  Finalizers that release blocks may have put
\* others in front of it since.
RestOf(t, m, owned, b, c, K) ==
    LET h == t.unused_mem_next[b]
    IN  /\ h # Nil => h \in K
        /\ K \cap owned = {} /\ b \notin K
        /\ \A x \in K : m[x] = c
        /\ \A x \in K : t.unused_mem_next[x] # Nil =>
              t.unused_mem_next[x] \in K /\ t.unused_mem_next[x] # h
        /\ SuccessorsDistinct(t, K)

\* The tables at point p of a call that works on block b and class c.
CalmTables(t, m, r, p, b, c) ==
    /\ TablesInv(Plain(t, p, b), m, Pinned(r, p, b))
    /\ p \in Caching => b \in Blocks /\ m[b] = c /\ b \notin Owned(t, r)
    /\ p = "cache_head" =>
          t \in Tables /\ \E K \in SUBSET Blocks : RestOf(t, m, Owned(t, r), b, c, K)

\* What the capacity test has found, with what may have been released since.
StillFits ==
    /\ old # Nil => old \in tables.used_mem_by_block
    /\ capacity # 0 =>
          LET back == IF old = Nil THEN 0 ELSE mem[old].size
          IN  class.size + used <= capacity + back

\* The inductive invariant of the second half, while no finalizer has allocated.
CalmInv ==
    /\ CalmTables(tables, mem, refs, pc, old, class)
    /\ AccountInv
    /\ pc \in {"take_key", "create"} => StillFits
    /\ pc # "idle" => ref_L
    /\ ~ref_L => tables.used_mem_by_block = {}

\* A block has a second holder only after a finalizer has allocated.
SharedInv == shared \subseteq Blocks /\ (allocations = 0 => shared = {})

ReentryInv == LooseInv /\ SharedInv /\ (allocations = 0 => CalmInv)

-----------------------------------------------------------------------------
(* Whatever finalizers do: the tables name no dead block *)

LEMMA EmptyNames ==
  ASSUME NEW m \in [Blocks -> Class \cup {Nil}]
  PROVE  NamesLive(EmptyTables, m) /\ EmptyTables.used_mem_by_block = {}
  BY DEF NamesLive, EmptyTables, Tables, ChainHead

LEMMA TakeNames ==
  ASSUME NEW t, NEW m, NamesLive(t, m), NEW c \in Class, ChainHead(t, c) # Nil
  PROVE  /\ NamesLive(TakeUnused(t, c), m)
         /\ TakeUnused(t, c).used_mem_by_block = t.used_mem_by_block \cup {ChainHead(t, c)}
         /\ ChainHead(t, c) \in Blocks /\ m[ChainHead(t, c)] # Nil
<1> DEFINE h == ChainHead(t, c)
           u == TakeUnused(t, c)
<1>1. t \in Tables /\ h \in Blocks /\ m[h] # Nil
  BY DEF NamesLive, Tables, ChainHead
<1>2. /\ u \in Tables
      /\ u.used_mem_by_block = t.used_mem_by_block \cup {h}
      /\ u.unused_mem_by_size = [t.unused_mem_by_size EXCEPT ![c] = t.unused_mem_next[h]]
      /\ u.unused_mem_next = [t.unused_mem_next EXCEPT ![h] = Nil]
  BY <1>1, TakeUnusedFields
<1> HIDE DEF u
<1>3. \A d \in Class : ChainHead(u, d) =
         IF d = c THEN t.unused_mem_next[h] ELSE ChainHead(t, d)
  BY <1>1, <1>2 DEF Tables, ChainHead
<1>4. \A x \in Blocks : u.unused_mem_next[x] =
         IF x = h THEN Nil ELSE t.unused_mem_next[x]
  BY <1>1, <1>2 DEF Tables
<1> HIDE DEF h
<1>5. \A d \in Class : ChainHead(u, d) # Nil => m[ChainHead(u, d)] # Nil
  BY <1>1, <1>3 DEF NamesLive
<1> QED
  BY <1>1, <1>2, <1>4, <1>5 DEF NamesLive, h, u

LEMMA NewBlockNames ==
  ASSUME NEW t, NEW m, NamesLive(t, m), NEW b \in Blocks, m[b] = Nil, NEW c \in Class
  PROVE  /\ NamesLive(t, [m EXCEPT ![b] = c])
         /\ NamesLive(RegisterUsed(t, b), [m EXCEPT ![b] = c])
         /\ RegisterUsed(t, b).used_mem_by_block = t.used_mem_by_block \cup {b}
<1> DEFINE n == [m EXCEPT ![b] = c]
           u == RegisterUsed(t, b)
<1>1. /\ n \in [Blocks -> Class \cup {Nil}] /\ n[b] # Nil
      /\ \A x \in Blocks : m[x] # Nil => n[x] # Nil
  BY TablesAssumption DEF NamesLive
<1>2. /\ u \in Tables
      /\ u.used_mem_by_block = t.used_mem_by_block \cup {b}
      /\ u.unused_mem_by_size = t.unused_mem_by_size
      /\ u.unused_mem_next = t.unused_mem_next
      /\ \A d : ChainHead(u, d) = ChainHead(t, d)
  BY DEF NamesLive, RegisterUsed, Tables, ChainHead
<1>3. /\ t \in Tables /\ t.used_mem_by_block \subseteq Blocks
      /\ \A d \in Class : ChainHead(t, d) # Nil => ChainHead(t, d) \in Blocks
      /\ \A x \in Blocks : t.unused_mem_next[x] # Nil => t.unused_mem_next[x] \in Blocks
  BY DEF NamesLive, Tables, ChainHead
<1> HIDE DEF n, u
<1>4. NamesLive(t, n)
  BY <1>1, <1>3 DEF NamesLive
<1>5. NamesLive(u, n)
  BY <1>1, <1>2, <1>3, <1>4 DEF NamesLive
<1> QED
  BY <1>2, <1>4, <1>5 DEF n, u

LEMMA ForgetNames ==
  ASSUME NEW t, NEW m, NamesLive(t, m), NEW b
  PROVE  /\ NamesLive(ForgetUsed(t, b), m)
         /\ ForgetUsed(t, b).used_mem_by_block = t.used_mem_by_block \ {b}
<1> DEFINE u == ForgetUsed(t, b)
<1>1. /\ u \in Tables
      /\ u.used_mem_by_block = t.used_mem_by_block \ {b}
      /\ u.unused_mem_next = t.unused_mem_next
      /\ \A d : ChainHead(u, d) = ChainHead(t, d)
  BY ForgetFields DEF NamesLive
<1> HIDE DEF u
<1> QED
  BY <1>1 DEF NamesLive, u

\* The link, and the new head.
LEMMA LinkNames ==
  ASSUME NEW t, NEW m, NamesLive(t, m), NEW c \in Class, NEW b \in Blocks
  PROVE  /\ NamesLive(LinkUnused(t, c, b), m)
         /\ LinkUnused(t, c, b).used_mem_by_block = t.used_mem_by_block
<1> DEFINE u == LinkUnused(t, c, b)
<1>1. CASE ChainHead(t, c) = Nil
  BY <1>1 DEF LinkUnused
<1>2. CASE ChainHead(t, c) # Nil
  <2>1. ChainHead(t, c) \in Blocks /\ m[ChainHead(t, c)] # Nil /\ t \in Tables
    BY <1>2 DEF NamesLive, Tables, ChainHead
  <2>2. /\ u \in Tables
        /\ u.used_mem_by_block = t.used_mem_by_block
        /\ \A d : ChainHead(u, d) = ChainHead(t, d)
        /\ \A x \in Blocks : u.unused_mem_next[x] =
              IF x = b THEN ChainHead(t, c) ELSE t.unused_mem_next[x]
    BY <1>2, <2>1 DEF LinkUnused, Tables, ChainHead
  <2> HIDE DEF u
  <2> QED
    BY <2>1, <2>2 DEF NamesLive, u
<1> QED
  BY <1>1, <1>2

LEMMA HeadNames ==
  ASSUME NEW t, NEW m, NamesLive(t, m), NEW c \in Class, NEW b \in Blocks, m[b] # Nil
  PROVE  LET u == [t EXCEPT !.unused_mem_by_size[c] = b]
         IN  NamesLive(u, m) /\ u.used_mem_by_block = t.used_mem_by_block
<1> DEFINE u == [t EXCEPT !.unused_mem_by_size[c] = b]
<1>1. /\ u \in Tables
      /\ u.used_mem_by_block = t.used_mem_by_block
      /\ u.unused_mem_next = t.unused_mem_next
      /\ \A d \in Class : ChainHead(u, d) = IF d = c THEN b ELSE ChainHead(t, d)
  BY DEF NamesLive, Tables, ChainHead
<1> HIDE DEF u
<1>2. \A d \in Class : ChainHead(u, d) # Nil => m[ChainHead(u, d)] # Nil
  BY <1>1 DEF NamesLive
<1> QED
  BY <1>1, <1>2 DEF NamesLive, u

LEMMA ReleasedNames ==
  ASSUME NEW t, NEW m, NamesLive(t, m), NEW b \in t.used_mem_by_block,
         NEW u \in Released(t, m[b], b)
  PROVE  NamesLive(u, m) /\ u.used_mem_by_block = t.used_mem_by_block \ {b}
<1> DEFINE f == ForgetUsed(t, b)
           g == LinkUnused(f, m[b], b)
<1>1. b \in Blocks /\ m[b] # Nil /\ m[b] \in Class
  BY DEF NamesLive, Tables
<1>2. NamesLive(f, m) /\ f.used_mem_by_block = t.used_mem_by_block \ {b}
  BY ForgetNames
<1>3. u = f \/ u = g \/ u = [g EXCEPT !.unused_mem_by_size[m[b]] = b]
  BY DEF Released, PushUnused
<1> HIDE DEF f
<1>4. NamesLive(g, m) /\ g.used_mem_by_block = f.used_mem_by_block
  BY <1>1, <1>2, LinkNames
<1> DEFINE p == [g EXCEPT !.unused_mem_by_size[m[b]] = b]
<1> HIDE DEF g
<1>5. NamesLive(p, m) /\ p.used_mem_by_block = g.used_mem_by_block
  BY <1>1, <1>4, HeadNames
<1>6. u = f \/ u = g \/ u = p
  BY <1>3
<1> HIDE DEF p
<1> QED
  BY <1>2, <1>4, <1>5, <1>6

LEMMA CollectedNames ==
  ASSUME NEW t, NEW m, NamesLive(t, m), NEW D, D \cap t.used_mem_by_block = {}
  PROVE  /\ NamesLive(Collected(t, D), [b \in Blocks |-> IF b \in D THEN Nil ELSE m[b]])
         /\ Collected(t, D).used_mem_by_block = t.used_mem_by_block
<1> DEFINE n == [b \in Blocks |-> IF b \in D THEN Nil ELSE m[b]]
           u == Collected(t, D)
<1>1. /\ t \in Tables /\ m \in [Blocks -> Class \cup {Nil}]
      /\ t.used_mem_by_block \subseteq Blocks
      /\ \A d \in Class : ChainHead(t, d) # Nil => ChainHead(t, d) \in Blocks
      /\ \A x \in Blocks : t.unused_mem_next[x] # Nil => t.unused_mem_next[x] \in Blocks
  BY DEF NamesLive, Tables, ChainHead
<1>2. /\ u \in Tables
      /\ u.used_mem_by_block = t.used_mem_by_block
      /\ \A c \in Class : ChainHead(u, c) =
            IF ChainHead(t, c) \in D THEN Nil ELSE ChainHead(t, c)
      /\ \A b \in Blocks : u.unused_mem_next[b] =
            IF b \in D \/ t.unused_mem_next[b] \in D THEN Nil
            ELSE t.unused_mem_next[b]
  BY <1>1 DEF Collected, Tables, ChainHead
<1>3. n \in [Blocks -> Class \cup {Nil}] /\ \A b \in Blocks \ D : n[b] = m[b]
  BY <1>1
<1> HIDE DEF n, u
<1>4. \A c \in Class : ChainHead(u, c) # Nil => n[ChainHead(u, c)] # Nil
  BY <1>1, <1>2, <1>3 DEF NamesLive
<1>5. \A b \in Blocks : u.unused_mem_next[b] # Nil => n[u.unused_mem_next[b]] # Nil
  BY <1>1, <1>2, <1>3 DEF NamesLive
<1>6. \A b \in u.used_mem_by_block : n[b] # Nil
  BY <1>1, <1>2, <1>3 DEF NamesLive
<1> QED
  BY <1>2, <1>3, <1>4, <1>5, <1>6 DEF NamesLive, n, u

-----------------------------------------------------------------------------
(* The calls, and what they leave alive *)

NothingDies == \A x \in Blocks : mem[x] # Nil => (mem')[x] # Nil

LEMMA LooseFacts ==
  ASSUME LoosePool
  PROVE  /\ tables \in Tables /\ mem \in [Blocks -> Class \cup {Nil}]
         /\ tables.used_mem_by_block \subseteq Blocks
         /\ held \subseteq Blocks /\ refs \subseteq Blocks
         /\ \A b \in tables.used_mem_by_block :
               mem[b] # Nil /\ mem[b] \in Class /\ mem[b].size \in SizeT
  BY ClassFacts DEF LoosePool, NamesLive, Tables

LEMMA LooseAnswer ==
  ASSUME LoosePool, NEW outcome \in {"ok", "EINVAL", "ENOMEM"}, Answer(outcome)
  PROVE  LoosePool' /\ NothingDies
  BY DEF LoosePool, Answer, Scalars, NothingDies

\* The tables and the heap change and nothing else does, but for the amount
\* used, the pointers held and the outcome.
LEMMA LooseUpdate ==
  ASSUME LoosePool, NamesLive(tables', mem'), NothingDies,
         held' \subseteq (tables').used_mem_by_block, used' \in SizeT,
         status' \in {"ok", "EINVAL", "ENOMEM"}, UNCHANGED <<ref_L, capacity, refs, handles>>
  PROVE  LoosePool'
  BY DEF LoosePool, Scalars, NothingDies

LEMMA LooseAcquireFails ==
  ASSUME LoosePool, NEW c \in Class, AcquireFails(c)
  PROVE  LoosePool' /\ NothingDies
<1>1. /\ status' = "ENOMEM" /\ UNCHANGED <<ref_L, capacity, used, refs, held, handles>>
      /\ used' \in SizeT /\ held \subseteq tables.used_mem_by_block
  BY DEF AcquireFails, LoosePool, Scalars
<1>2. /\ NamesLive(tables', mem') /\ NothingDies
      /\ tables.used_mem_by_block \subseteq (tables').used_mem_by_block
  <2>1. CASE UNCHANGED <<tables, mem>>
    BY <2>1 DEF NothingDies, LoosePool
  <2>2. CASE UNCHANGED tables /\ \E b \in Blocks \ Live : mem' = [mem EXCEPT ![b] = c]
    <3>1. PICK b \in Blocks \ Live : mem' = [mem EXCEPT ![b] = c]
      BY <2>2
    <3>2. mem[b] = Nil /\ mem \in [Blocks -> Class \cup {Nil}]
      BY LooseFacts DEF Live
    <3>3. NamesLive(tables, mem')
      BY <3>1, <3>2, NewBlockNames DEF LoosePool
    <3> QED
      BY <2>2, <3>1, <3>2, <3>3 DEF NothingDies
  <2>3. CASE ChainHead(tables, c) # Nil /\ tables' = TakeUnused(tables, c) /\ UNCHANGED mem
    BY <2>3, TakeNames DEF LoosePool, NothingDies
  <2> QED
    BY <2>1, <2>2, <2>3 DEF AcquireFails
<1> QED
  BY <1>1, <1>2, LooseUpdate

LEMMA LooseAcquired ==
  ASSUME LoosePool, NEW c \in Class, NEW b \in Blocks, CanAcquire(c, b)
  PROVE  /\ NamesLive(TablesAfter(c, b), HeapAfter(c, b))
         /\ TablesAfter(c, b).used_mem_by_block = tables.used_mem_by_block \cup {b}
         /\ \A x \in Blocks : mem[x] # Nil => HeapAfter(c, b)[x] # Nil
<1>1. CASE ChainHead(tables, c) # Nil
  BY <1>1, TakeNames DEF LoosePool, CanAcquire, TablesAfter, HeapAfter
<1>2. CASE ChainHead(tables, c) = Nil
  <2>1. mem[b] = Nil /\ mem \in [Blocks -> Class \cup {Nil}]
    BY <1>2, LooseFacts DEF CanAcquire
  <2>2. /\ NamesLive(RegisterUsed(tables, b), [mem EXCEPT ![b] = c])
        /\ RegisterUsed(tables, b).used_mem_by_block = tables.used_mem_by_block \cup {b}
    BY <2>1, NewBlockNames DEF LoosePool
  <2>3. \A x \in Blocks : mem[x] # Nil => [mem EXCEPT ![b] = c][x] # Nil
    BY <2>1
  <2> QED
    BY <1>2, <2>2, <2>3 DEF TablesAfter, HeapAfter
<1> QED
  BY <1>1, <1>2

LEMMA LooseAllocate ==
  ASSUME LoosePool, NEW c \in Class, Allocate(c)
  PROVE  LoosePool' /\ NothingDies
<1>1. CASE Answer("ENOMEM")
  BY <1>1, LooseAnswer
<1>2. CASE AcquireFails(c)
  BY <1>2, LooseAcquireFails
<1>3. ASSUME NEW b \in Blocks, CanAcquire(c, b),
             tables' = TablesAfter(c, b), mem' = HeapAfter(c, b),
             held' = held \cup {b}, used' = PlusT(used, c.size), status' = "ok",
             UNCHANGED <<ref_L, capacity, refs, handles>>
      PROVE  LoosePool' /\ NothingDies
  <2>1. /\ NamesLive(tables', mem') /\ NothingDies
        /\ (tables').used_mem_by_block = tables.used_mem_by_block \cup {b}
    BY <1>3, LooseAcquired DEF NothingDies
  <2>2. used' \in SizeT /\ held' \subseteq (tables').used_mem_by_block
    BY <1>3, <2>1, ClassFacts, SizeArithmetic DEF LoosePool, Scalars
  <2> QED
    BY <1>3, <2>1, <2>2, LooseUpdate
<1> QED
  BY <1>1, <1>2, <1>3 DEF Allocate

LEMMA LooseFree ==
  ASSUME LoosePool, NEW b \in Blocks, Free(b)
  PROVE  LoosePool' /\ NothingDies
<1>1. CASE \E outcome \in {"ok", "EINVAL", "ENOMEM"} : Answer(outcome)
  BY <1>1, LooseAnswer
<1>2. CASE /\ b \in tables.used_mem_by_block
           /\ tables' \in Released(tables, mem[b], b)
           /\ used' = MinusT(used, mem[b].size)
           /\ held' = held \ {b}
           /\ status' = "ok"
           /\ UNCHANGED <<ref_L, capacity, mem, refs, handles>>
  <2>1. /\ NamesLive(tables', mem')
        /\ (tables').used_mem_by_block = tables.used_mem_by_block \ {b}
    BY <1>2, ReleasedNames DEF LoosePool
  <2>2. used' \in SizeT
    BY <1>2, LooseFacts, SizeArithmetic DEF LoosePool, Scalars
  <2>3. held' \subseteq (tables').used_mem_by_block /\ NothingDies
    BY <1>2, <2>1 DEF LoosePool, NothingDies
  <2> QED
    BY <1>2, <2>1, <2>2, <2>3, LooseUpdate
<1> QED
  BY <1>1, <1>2 DEF Free

LEMMA LooseMove ==
  ASSUME LoosePool, NEW c \in Class, NEW b \in tables.used_mem_by_block, Move(b, c)
  PROVE  LoosePool' /\ NothingDies
<1>1. PICK n \in Blocks :
         /\ CanAcquire(c, n)
         /\ tables' \in Released(TablesAfter(c, n), mem[b], b)
         /\ mem' = HeapAfter(c, n)
         /\ held' = (held \cup {n}) \ {b}
  BY DEF Move
<1>2. /\ NamesLive(TablesAfter(c, n), mem') /\ NothingDies
      /\ TablesAfter(c, n).used_mem_by_block = tables.used_mem_by_block \cup {n}
  BY <1>1, LooseAcquired DEF NothingDies
<1>3. mem[b] # Nil /\ mem[b].size \in SizeT /\ mem \in [Blocks -> Class \cup {Nil}]
  BY LooseFacts
<1>4. (mem')[b] = mem[b]
  BY <1>1, <1>3 DEF CanAcquire, HeapAfter
<1> DEFINE t == TablesAfter(c, n)
<1> HIDE DEF t
<1>5. t.used_mem_by_block = tables.used_mem_by_block \cup {n} /\ NamesLive(t, mem')
  BY <1>2 DEF t
<1>6. tables' \in Released(t, (mem')[b], b) /\ b \in t.used_mem_by_block
  BY <1>1, <1>4, <1>5 DEF t
<1>7. NamesLive(tables', mem') /\ (tables').used_mem_by_block = t.used_mem_by_block \ {b}
  <2> PICK m : m = mem'
    OBVIOUS
  <2>1. NamesLive(t, m) /\ tables' \in Released(t, m[b], b)
    BY <1>5, <1>6
  <2>2. NamesLive(tables', m) /\ (tables').used_mem_by_block = t.used_mem_by_block \ {b}
    BY <1>6, <2>1, ReleasedNames
  <2> QED
    BY <2>2
<1>8. /\ used' = MinusT(PlusT(used, c.size), mem[b].size) /\ status' = "ok"
      /\ UNCHANGED <<ref_L, capacity, refs, handles>>
  BY DEF Move
<1>9. used' \in SizeT /\ held' \subseteq (tables').used_mem_by_block
  BY <1>1, <1>3, <1>5, <1>7, <1>8, ClassFacts, SizeArithmetic DEF LoosePool, Scalars
<1> QED
  BY <1>2, <1>7, <1>8, <1>9, LooseUpdate

LEMMA LooseRealloc ==
  ASSUME LoosePool, NEW b \in Blocks, NEW size \in Sizes, Realloc(b, size)
  PROVE  LoosePool' /\ NothingDies
<1>1. ASSUME NEW outcome \in {"ok", "EINVAL", "ENOMEM"}, Answer(outcome)
      PROVE  LoosePool' /\ NothingDies
  BY <1>1, LooseAnswer
<1>2. CASE Free(b)
  BY <1>2, LooseFree
<1>3. CASE b \in tables.used_mem_by_block /\ Resize(b, size)
  <2>1. DefaultClass(size) \in Class
    BY ClassFacts
  <2>2. \/ \E outcome \in {"ok", "ENOMEM"} : Answer(outcome)
        \/ AcquireFails(DefaultClass(size)) \/ Move(b, DefaultClass(size))
    BY <1>3 DEF Resize
  <2> QED
    BY <1>1, <1>3, <2>1, <2>2, LooseAcquireFails, LooseMove
<1> QED
  BY <1>1, <1>2, <1>3, TablesAssumption DEF Realloc

LEMMA LooseDetach ==
  ASSUME LoosePool, NEW b \in Blocks, Detach(b)
  PROVE  LoosePool' /\ NothingDies
<1>1. CASE \E outcome \in {"EINVAL", "ENOMEM"} : Answer(outcome)
  BY <1>1, LooseAnswer
<1>2. CASE HandsOver(b)
  <2> USE DEF HandsOver
  <2>1. /\ NamesLive(tables', mem')
        /\ (tables').used_mem_by_block = tables.used_mem_by_block \ {b}
    BY <1>2, ForgetNames DEF LoosePool
  <2>2. used' \in SizeT
    BY <1>2, LooseFacts, SizeArithmetic DEF LoosePool, Scalars
  <2>3. /\ held' \subseteq (tables').used_mem_by_block /\ NothingDies
        /\ refs' \subseteq Blocks /\ handles' = refs'
        /\ \A x \in refs' : (mem')[x] # Nil
    BY <1>2, <2>1, LooseFacts DEF LoosePool, NothingDies
  <2> QED
    BY <1>2, <2>1, <2>2, <2>3 DEF LoosePool, Scalars
<1> QED
  BY <1>1, <1>2, DetachCases

LEMMA LooseMemFree ==
  ASSUME LoosePool, NEW b \in Blocks, MemFree(b)
  PROVE  LoosePool' /\ NothingDies
  BY DEF LoosePool, MemFree, Scalars, NothingDies

LEMMA LooseCollect ==
  ASSUME LoosePool, NEW D \in SUBSET Blocks, Collect(D)
  PROVE  /\ LoosePool'
         /\ \A x \in Blocks \ D : mem[x] # Nil => (mem')[x] # Nil
<1>1. D \cap tables.used_mem_by_block = {} /\ D \cap refs = {}
  BY DEF Collect, Live, Reachable
<1>2. /\ NamesLive(tables', mem')
      /\ (tables').used_mem_by_block = tables.used_mem_by_block
  BY <1>1, CollectedNames DEF Collect, LoosePool
<1>3. \A x \in Blocks \ D : (mem')[x] = mem[x]
  BY DEF Collect
<1>4. \A x \in refs : (mem')[x] # Nil
  BY <1>1, <1>3 DEF LoosePool
<1> QED
  BY <1>2, <1>3, <1>4 DEF Collect, LoosePool, Scalars

LEMMA LooseNew ==
  ASSUME LoosePool, NEW cap \in Capacities, New(cap)
  PROVE  LoosePool' /\ NothingDies
<1>1. CASE Answer("ENOMEM")
  BY <1>1, LooseAnswer
<1>2. CASE /\ ref_L' = TRUE /\ capacity' = cap /\ used' = 0
           /\ tables' = EmptyTables /\ held' = {} /\ status' = "ok"
           /\ UNCHANGED <<mem, refs, handles>>
  <2>1. NamesLive(tables', mem') /\ held' \subseteq (tables').used_mem_by_block
    BY <1>2, LooseFacts, EmptyNames
  <2>2. used' \in SizeT /\ capacity' \in SizeT
    BY <1>2, PoolAssumption, LayoutAssumption DEF SizeT
  <2> QED
    BY <1>2, <2>1, <2>2 DEF LoosePool, Scalars, NothingDies
<1> QED
  BY <1>1, <1>2 DEF New

LEMMA LooseDelete ==
  ASSUME LoosePool, Delete
  PROVE  LoosePool' /\ NothingDies
<1>1. NamesLive(tables', mem') /\ held' \subseteq (tables').used_mem_by_block
  BY LooseFacts, EmptyNames DEF Delete
<1> QED
  BY <1>1 DEF Delete, LoosePool, Scalars, NothingDies

-----------------------------------------------------------------------------
(* The running call *)

LEMMA CallFacts ==
  ASSUME CallInv
  PROVE  /\ pc # "idle" => class \in Class
         /\ old # Nil => old \in Blocks /\ mem[old] # Nil
         /\ MaxAllocations \in Nat /\ allocations \in Nat
  BY ReentryAssumption, TablesAssumption DEF CallInv

LEMMA SameCall ==
  ASSUME CallInv, UNCHANGED <<pc, class, old>>, allocations' \in 0..MaxAllocations,
         old # Nil => (mem')[old] # Nil
  PROVE  CallInv'
  BY DEF CallInv, Points

LEMMA UndisturbedCall ==
  ASSUME LooseInv, LoosePool', NothingDies, UNCHANGED callVars
  PROVE  LooseInv'
<1>1. UNCHANGED <<pc, class, old, allocations>>
  BY DEF callVars
<1>2. old # Nil => (mem')[old] # Nil
  BY CallFacts DEF LooseInv, NothingDies
<1>3. allocations' \in 0..MaxAllocations
  BY <1>1 DEF LooseInv, CallInv
<1> QED
  BY <1>1, <1>2, <1>3, SameCall DEF LooseInv

\* A call moves on to point p, or returns.
LEMMA CallGoes ==
  ASSUME CallInv, NEW p \in Points, NEW c \in Class, NEW b \in Blocks \cup {Nil},
         Proceed(p, c, b), b # Nil => (mem')[b] # Nil,
         p \in {"cache_key", "cache_head"} => b # Nil
  PROVE  CallInv'
  BY TablesAssumption DEF CallInv, Proceed, Points

LEMMA CallReturns ==
  ASSUME CallInv, Proceed("idle", Nil, Nil)
  PROVE  CallInv'
  BY DEF CallInv, Proceed, Points

LEMMA LooseFinish ==
  ASSUME LooseInv, pc \in {"take_key", "create"}, NEW b, NEW t,
         NamesLive(t, mem'), NothingDies,
         t.used_mem_by_block = tables.used_mem_by_block \cup {b},
         FinishAcquire(b, t)
  PROVE  LooseInv'
<1>1. /\ class \in Class /\ class.size \in SizeT /\ used \in SizeT
      /\ UNCHANGED <<ref_L, capacity, refs, handles>> /\ status' = "ok"
  BY CallFacts, ClassFacts DEF LooseInv, LoosePool, Scalars, FinishAcquire
<1>2. CASE /\ old = Nil
           /\ tables' = t
           /\ used' = PlusT(used, class.size)
           /\ held' = held \cup {b}
           /\ Proceed("idle", Nil, Nil)
  <2>1. used' \in SizeT /\ held' \subseteq (tables').used_mem_by_block
    BY <1>1, <1>2, SizeArithmetic DEF LooseInv, LoosePool
  <2>2. LoosePool'
    BY <1>1, <1>2, <2>1, LooseUpdate DEF LooseInv
  <2>3. CallInv'
    BY <1>2, CallReturns DEF LooseInv
  <2> QED
    BY <2>2, <2>3 DEF LooseInv
<1>3. CASE /\ old # Nil
           /\ tables' = ForgetUsed(t, old)
           /\ used' = MinusT(PlusT(used, class.size), mem[old].size)
           /\ held' = (held \cup {b}) \ {old}
           /\ Proceed("cache_key", mem[old], old)
  <2>1. /\ old \in Blocks /\ mem[old] \in Class /\ mem[old].size \in SizeT
        /\ (mem')[old] # Nil
    BY <1>3, CallFacts, LooseFacts, ClassFacts DEF LooseInv, NothingDies
  <2>2. used' \in SizeT
    BY <1>1, <1>3, <2>1, SizeArithmetic
  <2>3. /\ NamesLive(tables', mem')
        /\ (tables').used_mem_by_block = t.used_mem_by_block \ {old}
    BY <1>3, ForgetNames
  <2>4. held' \subseteq (tables').used_mem_by_block
    BY <1>3, <2>3 DEF LooseInv, LoosePool
  <2>5. LoosePool'
    BY <1>1, <1>3, <2>2, <2>3, <2>4, LooseUpdate DEF LooseInv
  <2>6. CallInv'
    BY <1>3, <2>1, CallGoes DEF LooseInv, Points
  <2> QED
    BY <2>5, <2>6 DEF LooseInv
<1> QED
  BY <1>2, <1>3 DEF FinishAcquire

LEMMA LooseRunning ==
  ASSUME LooseInv, Running
  PROVE  LooseInv'
<1>1. LoosePool /\ CallInv
  BY DEF LooseInv
<1>2. CASE Whole
  <2>1. LoosePool' /\ NothingDies
    BY <1>1, <1>2, LooseNew, LooseDelete, LooseDetach, LooseMemFree DEF Whole
  <2> QED
    BY <1>2, <2>1, UndisturbedCall DEF Whole
<1>a. ASSUME UNCHANGED vars, CallInv' PROVE LooseInv'
  BY <1>1, <1>a DEF vars, LooseInv, LoosePool, Scalars
<1>b. ASSUME UNCHANGED vars, NEW b, b # Nil => mem[b] # Nil PROVE b # Nil => (mem')[b] # Nil
  BY <1>b DEF vars
<1>3. ASSUME NEW size \in Sizes, StartAlloc(size) PROVE LooseInv'
  <2>1. Proceed("take_key", DefaultClass(size), Nil) /\ DefaultClass(size) \in Class
    BY <1>3, ClassFacts DEF StartAlloc, Goto
  <2>2. CallInv'
    BY <1>1, <2>1, CallGoes DEF Points
  <2> QED
    BY <1>3, <1>a, <2>2 DEF StartAlloc
<1>4. ASSUME NEW b \in Blocks, NEW size \in Sizes, StartResize(b, size) PROVE LooseInv'
  <2>1. /\ Proceed("take_key", DefaultClass(size), b) /\ DefaultClass(size) \in Class
        /\ mem[b] # Nil /\ UNCHANGED vars
    BY <1>1, <1>4, ClassFacts, LooseFacts DEF StartResize, Goto
  <2>2. CallInv'
    BY <1>1, <1>b, <2>1, CallGoes DEF Points
  <2> QED
    BY <1>a, <2>1, <2>2
<1>5. ASSUME NEW b \in Blocks, StartFree(b) PROVE LooseInv'
  <2>1. /\ mem[b] \in Class /\ mem[b] # Nil /\ mem[b].size \in SizeT /\ UNCHANGED mem
        /\ Proceed("cache_key", mem[b], b)
    BY <1>1, <1>5, LooseFacts DEF StartFree, Goto
  <2>2. /\ NamesLive(tables', mem')
        /\ (tables').used_mem_by_block = tables.used_mem_by_block \ {b}
    BY <1>1, <1>5, ForgetNames DEF StartFree, LoosePool
  <2>3. used' \in SizeT /\ held' \subseteq (tables').used_mem_by_block
    BY <1>1, <1>5, <2>1, <2>2, SizeArithmetic DEF StartFree, LoosePool, Scalars
  <2>4. LoosePool'
    BY <1>1, <1>5, <2>1, <2>2, <2>3, LooseUpdate DEF StartFree, NothingDies
  <2>5. b # Nil /\ (mem')[b] # Nil
    BY <2>1, TablesAssumption
  <2>6. CallInv'
    BY <1>1, <2>1, <2>5, CallGoes DEF Points
  <2> QED
    BY <2>4, <2>6 DEF LooseInv
<1>6. CASE Take
  <2>1. pc = "take_key" /\ class \in Class
    BY <1>1, <1>6, CallFacts DEF Take
  <2>2. CASE /\ ChainHead(tables, class) # Nil
             /\ FinishAcquire(ChainHead(tables, class), TakeUnused(tables, class))
             /\ UNCHANGED mem
    <3>1. /\ NamesLive(TakeUnused(tables, class), mem') /\ NothingDies
          /\ TakeUnused(tables, class).used_mem_by_block
               = tables.used_mem_by_block \cup {ChainHead(tables, class)}
      BY <1>1, <2>1, <2>2, TakeNames DEF LoosePool, NothingDies
    <3> QED
      BY <2>1, <2>2, <3>1, LooseFinish
  <2>3. CASE Goto("create", class, old) /\ UNCHANGED vars
    <3>1. old # Nil => (mem')[old] # Nil
      BY <1>1, <1>b, <2>3, CallFacts
    <3>2. Proceed("create", class, old)
      BY <2>3 DEF Goto
    <3>3. CallInv'
      BY <1>1, <2>1, <3>1, <3>2, CallGoes DEF Points, CallInv
    <3> QED
      BY <1>a, <2>3, <3>3
  <2> QED
    BY <1>6, <2>2, <2>3 DEF Take
<1>7. ASSUME NEW b \in Blocks, Create(b) PROVE LooseInv'
  <2>1. /\ pc = "create" /\ mem[b] = Nil /\ mem' = [mem EXCEPT ![b] = class]
        /\ FinishAcquire(b, RegisterUsed(tables, b))
        /\ class \in Class
    BY <1>1, <1>7, CallFacts DEF Create
  <2>2. /\ NamesLive(RegisterUsed(tables, b), mem')
        /\ RegisterUsed(tables, b).used_mem_by_block = tables.used_mem_by_block \cup {b}
    BY <1>1, <2>1, NewBlockNames DEF LoosePool
  <2>3. NothingDies
    BY <1>1, <2>1, LooseFacts DEF NothingDies
  <2> QED
    BY <2>1, <2>2, <2>3, LooseFinish
<1>8. CASE FailAcquire
  <2>1. class \in Class /\ status' = "ENOMEM" /\ Proceed("idle", Nil, Nil)
    BY <1>1, <1>8, CallFacts DEF FailAcquire, Return, Goto
  <2>2. NamesLive(tables, mem') /\ NothingDies
    <3>1. CASE UNCHANGED mem
      BY <1>1, <3>1 DEF NothingDies, LoosePool
    <3>2. ASSUME NEW b \in Blocks \ Live, mem' = [mem EXCEPT ![b] = class]
          PROVE  NamesLive(tables, mem') /\ NothingDies
      <4>1. mem[b] = Nil /\ mem \in [Blocks -> Class \cup {Nil}]
        BY <1>1, LooseFacts DEF Live
      <4> QED
        BY <1>1, <2>1, <3>2, <4>1, NewBlockNames DEF LoosePool, NothingDies
    <3> QED
      BY <1>8, <3>1, <3>2 DEF FailAcquire
  <2>3. LoosePool'
    BY <1>1, <1>8, <2>1, <2>2, LooseUpdate DEF FailAcquire, LoosePool, Scalars
  <2>4. CallInv'
    BY <1>1, <2>1, CallReturns
  <2> QED
    BY <2>3, <2>4 DEF LooseInv
<1>9. CASE CacheLink
  <2>1. /\ pc = "cache_key" /\ class \in Class /\ old \in Blocks /\ mem[old] # Nil
        /\ UNCHANGED mem /\ Proceed("cache_head", class, old)
    BY <1>1, <1>9, CallFacts DEF CacheLink, CallInv, Goto
  <2>2. /\ NamesLive(tables', mem')
        /\ (tables').used_mem_by_block = tables.used_mem_by_block
    BY <1>1, <1>9, <2>1, LinkNames DEF CacheLink, LoosePool
  <2>3. LoosePool'
    BY <1>1, <1>9, <2>2 DEF CacheLink, LoosePool, Scalars
  <2>4. CallInv'
    BY <1>1, <2>1, CallGoes, TablesAssumption DEF Points
  <2> QED
    BY <2>3, <2>4 DEF LooseInv
<1>10. CASE CacheHead
  <2>1. /\ pc = "cache_head" /\ class \in Class /\ old \in Blocks /\ mem[old] # Nil
        /\ UNCHANGED mem
    BY <1>1, <1>10, CallFacts DEF CacheHead, CallInv
  <2>2. /\ NamesLive(tables', mem')
        /\ (tables').used_mem_by_block = tables.used_mem_by_block
    BY <1>1, <1>10, <2>1, HeadNames DEF CacheHead, LoosePool
  <2>3. LoosePool'
    BY <1>1, <1>10, <2>2 DEF CacheHead, Return, LoosePool, Scalars
  <2>4. CallInv'
    BY <1>1, <1>10, CallReturns DEF CacheHead, Return, Goto
  <2> QED
    BY <2>3, <2>4 DEF LooseInv
<1>11. CASE CacheFails
  <2>1. LoosePool'
    BY <1>1, <1>11 DEF CacheFails, Return, LoosePool, Scalars
  <2>2. CallInv'
    BY <1>1, <1>11, CallReturns DEF CacheFails, Return, Goto
  <2> QED
    BY <2>1, <2>2 DEF LooseInv
<1> QED
  BY <1>2, <1>3, <1>4, <1>5, <1>6, <1>7, <1>8, <1>9, <1>10, <1>11 DEF Running

(***************************************************************************)
(* The collector and the finalizers it runs.                               *)
(***************************************************************************)
LEMMA LooseFinalizer ==
  ASSUME LooseInv, Finalizer
  PROVE  LooseInv'
<1>1. LoosePool /\ CallInv /\ UNCHANGED <<pc, class, old>>
  BY DEF LooseInv, Finalizer
<1>2. LoosePool' /\ NothingDies
  <2>1. ASSUME NEW size \in Sizes, AlignedAlloc(size, 0) PROVE LoosePool' /\ NothingDies
    <3>1. CASE Answer("EINVAL")
      BY <1>1, <3>1, LooseAnswer
    <3>2. CASE /\ NormalizedAlignment(0) # 0
               /\ Allocate([size |-> size, alignment |-> NormalizedAlignment(0)])
      BY <1>1, <3>2, ClassFacts, TablesAssumption, LooseAllocate
    <3> QED
      BY <2>1, <3>1, <3>2 DEF AlignedAlloc
  <2>2. CASE FinalizerAllocates
    BY <1>1, <2>1, <2>2, LooseRealloc DEF FinalizerAllocates, Acquires, Others
  <2>3. CASE FinalizerReleases
    BY <1>1, <2>3, LooseFree, LooseDetach, LooseMemFree DEF FinalizerReleases, Others
  <2> QED
    BY <2>2, <2>3 DEF Finalizer
<1>3. allocations' \in 0..MaxAllocations
  BY <1>1, CallFacts DEF Finalizer, FinalizerAllocates, FinalizerReleases, CallInv
<1>4. old # Nil => (mem')[old] # Nil
  BY <1>1, <1>2, CallFacts DEF NothingDies
<1> QED
  BY <1>1, <1>2, <1>3, <1>4, SameCall DEF LooseInv

LEMMA LooseInit == ReentryInit => LooseInv
<1> SUFFICES ASSUME ReentryInit PROVE LooseInv
  OBVIOUS
<1>1. Init /\ pc = "idle" /\ class = Nil /\ old = Nil /\ allocations = 0
  BY DEF ReentryInit
<1>2. SoundOver({})
  BY <1>1, SoundInit
<1>3. Scalars
  BY <1>2 DEF SoundOver
<1>4. NamesLive(tables, mem)
  BY <1>1, EmptyNames DEF Init
<1>5. LoosePool
  BY <1>1, <1>3, <1>4 DEF Init, LoosePool
<1>6. CallInv
  BY <1>1, ReentryAssumption DEF CallInv
<1> QED
  BY <1>5, <1>6 DEF LooseInv

LEMMA LooseStep == LooseInv /\ [ReentryNext]_allVars => LooseInv'
<1> SUFFICES ASSUME LooseInv, [ReentryNext]_allVars PROVE LooseInv'
  OBVIOUS
<1>1. LoosePool /\ CallInv
  BY DEF LooseInv
<1>2. CASE Running
  BY <1>2, LooseRunning
<1>3. CASE Finalizer
  BY <1>3, LooseFinalizer
<1>4. ASSUME NEW D \in SUBSET Blocks, CollectReentrant(D) PROVE LooseInv'
  <2>1. LoosePool' /\ (old # Nil => (mem')[old] # Nil)
    BY <1>1, <1>4, LooseCollect, CallFacts DEF CollectReentrant, OnStack
  <2>2. UNCHANGED <<pc, class, old>> /\ allocations' \in 0..MaxAllocations
    BY <1>1, <1>4 DEF CollectReentrant, callVars, CallInv
  <2> QED
    BY <1>1, <2>1, <2>2, SameCall DEF LooseInv
<1>5. CASE UNCHANGED allVars
  <2>1. UNCHANGED vars /\ UNCHANGED callVars
    BY <1>5 DEF allVars
  <2>2. LoosePool' /\ NothingDies
    BY <1>1, <2>1 DEF vars, LoosePool, Scalars, NothingDies
  <2> QED
    BY <2>1, <2>2, UndisturbedCall
<1> QED
  BY <1>2, <1>3, <1>4, <1>5 DEF ReentryNext

-----------------------------------------------------------------------------
(* While finalizers only release memory: the tables *)

LEMMA UnlinkedFields ==
  ASSUME NEW t \in Tables, NEW b \in Blocks
  PROVE  /\ Unlinked(t, b) \in Tables
         /\ Unlinked(t, b).used_mem_by_block = t.used_mem_by_block
         /\ Unlinked(t, b).unused_mem_by_size = t.unused_mem_by_size
         /\ Unlinked(t, b).unused_mem_next[b] = Nil
         /\ \A x \in Blocks : x # b => Unlinked(t, b).unused_mem_next[x] = t.unused_mem_next[x]
         /\ \A d : ChainHead(Unlinked(t, b), d) = ChainHead(t, d)
         /\ \A r : Owned(Unlinked(t, b), r) = Owned(t, r)
  BY DEF Unlinked, Tables, ChainHead, Owned

\* A table that differs in the link of a block that no chain in L holds.
LEMMA ChainsWithoutLink ==
  ASSUME NEW t, NEW u, NEW m, NEW owned, NEW owned2 \in SUBSET owned,
         NEW L \in SUBSET Blocks, ChainsOver(u, m, owned, L), NEW b, b \in owned,
         u.unused_mem_by_size = t.unused_mem_by_size,
         \A x \in Blocks : x # b => u.unused_mem_next[x] = t.unused_mem_next[x]
  PROVE  ChainsOver(t, m, owned2, L) /\ b \notin L
<1>1. b \notin L /\ \A x \in L : u.unused_mem_next[x] = t.unused_mem_next[x]
  BY DEF ChainsOver
<1>2. \A d : ChainHead(u, d) = ChainHead(t, d)
  BY DEF ChainHead
<1> QED
  BY <1>1, <1>2 DEF ChainsOver, HeadsIn, SuccessorsIn, SuccessorsDistinct

\* The links of idle blocks, when one more idle block has a link.
LEMMA LinksWithOne ==
  ASSUME NEW t, NEW u, NEW m, NEW owned, NEW owned2 \in SUBSET owned, NEW b,
         LinksOfIdle(u, m, owned), b \notin owned2, m[b] # Nil,
         t.unused_mem_next[b] # Nil => m[t.unused_mem_next[b]] # Nil,
         \A x \in Blocks : x # b => u.unused_mem_next[x] = t.unused_mem_next[x]
  PROVE  LinksOfIdle(t, m, owned2)
  BY DEF LinksOfIdle

LEMMA HeadParts ==
  ASSUME NEW t, NEW m, NEW r, NEW b, NEW c \in Class, CalmTables(t, m, r, "cache_head", b, c)
  PROVE  /\ TablesInv(Unlinked(t, b), m, r \cup {b})
         /\ t \in Tables /\ b \in Blocks /\ m[b] = c /\ m[b] # Nil /\ b \notin Owned(t, r)
         /\ t.unused_mem_next[b] # Nil => m[t.unused_mem_next[b]] # Nil
         /\ r \subseteq Blocks
         /\ Owned(t, r) \subseteq Owned(t, r \cup {b}) /\ b \in Owned(t, r \cup {b})
<1>1. /\ TablesInv(Unlinked(t, b), m, r \cup {b})
      /\ t \in Tables /\ b \in Blocks /\ m[b] = c /\ b \notin Owned(t, r)
      /\ \E K \in SUBSET Blocks : RestOf(t, m, Owned(t, r), b, c, K)
  BY DEF CalmTables, Plain, Pinned, Caching
<1>2. c # Nil
  BY TablesAssumption
<1>3. t.unused_mem_next[b] # Nil => m[t.unused_mem_next[b]] # Nil
  BY <1>1, <1>2 DEF RestOf
<1>4. r \subseteq Blocks
  BY <1>1 DEF TablesInv
<1> QED
  BY <1>1, <1>2, <1>3, <1>4 DEF Owned

\* The link of a block that no chain holds may stay behind.
LEMMA LinkLeftBehind ==
  ASSUME NEW t, NEW m, NEW r, NEW b, NEW c \in Class, CalmTables(t, m, r, "cache_head", b, c)
  PROVE  TablesInv(t, m, r)
<1> DEFINE u == Unlinked(t, b)
           o == Owned(t, r \cup {b})
<1>1. /\ TablesInv(u, m, r \cup {b})
      /\ t \in Tables /\ b \in Blocks /\ m[b] = c /\ m[b] # Nil /\ b \notin Owned(t, r)
      /\ t.unused_mem_next[b] # Nil => m[t.unused_mem_next[b]] # Nil
      /\ r \subseteq Blocks
      /\ Owned(t, r) \subseteq o /\ b \in o
  BY HeadParts
<1>2. /\ u.unused_mem_by_size = t.unused_mem_by_size
      /\ u.used_mem_by_block = t.used_mem_by_block
      /\ \A x \in Blocks : x # b => u.unused_mem_next[x] = t.unused_mem_next[x]
      /\ Owned(u, r \cup {b}) = o
  BY <1>1, UnlinkedFields
<1> HIDE DEF u, o
<1>3. PICK L \in SUBSET Blocks : ChainsOver(u, m, o, L)
  BY <1>1, <1>2 DEF TablesInv
<1>4. ChainsOver(t, m, Owned(t, r), L)
  BY <1>1, <1>2, <1>3, ChainsWithoutLink
<1>5. /\ LinksOfIdle(u, m, o) /\ m \in [Blocks -> Class \cup {Nil}]
      /\ t.used_mem_by_block \cap r = {} /\ \A x \in o : m[x] # Nil
  BY <1>1, <1>2 DEF TablesInv
<1>6. LinksOfIdle(t, m, Owned(t, r))
  BY <1>1, <1>2, <1>5, LinksWithOne
<1> QED
  BY <1>1, <1>4, <1>5, <1>6 DEF TablesInv

\* Wherever the call is, the tables are sound.
LEMMA CalmSound ==
  ASSUME NEW t, NEW m, NEW r, NEW p, NEW b, NEW c, p \in Caching => c \in Class,
         CalmTables(t, m, r, p, b, c)
  PROVE  TablesInv(t, m, r)
<1>1. CASE p \notin Caching
  BY <1>1 DEF CalmTables, Plain, Pinned, Caching
<1>2. CASE p = "cache_key"
  <2>1. TablesInv(t, m, r \cup {b}) /\ b \notin r
    BY <1>2 DEF CalmTables, Plain, Pinned, Caching, Owned
  <2>2. (r \cup {b}) \ {b} = r
    BY <2>1
  <2> QED
    BY <2>1, <2>2, UnrefInv
<1>3. CASE p = "cache_head"
  <2>1. c \in Class /\ CalmTables(t, m, r, "cache_head", b, c)
    BY <1>3 DEF Caching
  <2> QED
    BY <2>1, LinkLeftBehind
<1> QED
  BY <1>1, <1>2, <1>3 DEF Caching

\* cache_unused_block_protected, first half: the link.
LEMMA LinkCalm ==
  ASSUME NEW t, NEW m, NEW r, NEW b, NEW c \in Class,
         CalmTables(t, m, r, "cache_key", b, c)
  PROVE  /\ CalmTables(LinkUnused(t, c, b), m, r, "cache_head", b, c)
         /\ LinkUnused(t, c, b).used_mem_by_block = t.used_mem_by_block
<1> DEFINE u == LinkUnused(t, c, b)
<1>1. /\ TablesInv(t, m, r \cup {b})
      /\ b \in Blocks /\ m[b] = c /\ b \notin Owned(t, r)
  BY DEF CalmTables, Plain, Pinned, Caching
<1>2. t \in Tables /\ t.unused_mem_next[b] = Nil /\ b \in Owned(t, r \cup {b})
  BY <1>1 DEF TablesInv, LinksOfIdle, Owned
<1>3. /\ u \in Tables
      /\ u.used_mem_by_block = t.used_mem_by_block
      /\ u.unused_mem_by_size = t.unused_mem_by_size
      /\ u.unused_mem_next[b] = ChainHead(t, c)
      /\ \A x \in Blocks : x # b => u.unused_mem_next[x] = t.unused_mem_next[x]
  BY <1>1, <1>2, LinkFields
<1>4. Unlinked(u, b) = t
  <2>1. CASE ChainHead(t, c) = Nil
    BY <1>1, <1>2, <2>1 DEF LinkUnused, Unlinked, Tables
  <2>2. CASE ChainHead(t, c) # Nil
    BY <1>1, <1>2, <2>2 DEF LinkUnused, Unlinked, Tables
  <2> QED
    BY <2>1, <2>2
<1>5. PICK L \in SUBSET Blocks : ChainsOver(t, m, Owned(t, r \cup {b}), L)
  BY <1>1 DEF TablesInv
<1> DEFINE K == {x \in L : m[x] = c}
<1> HIDE DEF u
<1>6. RestOf(u, m, Owned(u, r), b, c, K)
  <2>1. /\ b \notin K /\ \A x \in K : u.unused_mem_next[x] = t.unused_mem_next[x]
        /\ Owned(u, r) = Owned(t, r) /\ Owned(t, r) \subseteq Owned(t, r \cup {b})
    BY <1>2, <1>3, <1>5 DEF ChainsOver, Owned
  <2>2. ChainHead(t, c) # Nil => ChainHead(t, c) \in K
    BY <1>5 DEF ChainsOver, HeadsIn
  <2>3. \A x \in K : t.unused_mem_next[x] # Nil =>
           t.unused_mem_next[x] \in K /\ t.unused_mem_next[x] # ChainHead(t, c)
    BY <1>5 DEF ChainsOver, SuccessorsIn
  <2>4. SuccessorsDistinct(u, K)
    BY <1>5, <2>1 DEF ChainsOver, SuccessorsDistinct
  <2>5. K \cap Owned(u, r) = {}
    BY <1>5, <2>1 DEF ChainsOver
  <2> QED
    BY <1>3, <2>1, <2>2, <2>3, <2>4, <2>5 DEF RestOf
<1>7. b \notin Owned(u, r)
  BY <1>1, <1>3 DEF Owned
<1>8. K \in SUBSET Blocks
  OBVIOUS
<1>9. TablesInv(Plain(u, "cache_head", b), m, Pinned(r, "cache_head", b))
  BY <1>1, <1>4 DEF Plain, Pinned, Caching
<1> QED
  BY <1>1, <1>3, <1>6, <1>7, <1>8, <1>9 DEF CalmTables, u

\* The second half: the block becomes the head of the chain it was linked to,
\* which may have lost blocks to the collector since.
LEMMA HeadCalm ==
  ASSUME NEW t, NEW m, NEW r, NEW b, NEW c \in Class,
         CalmTables(t, m, r, "cache_head", b, c)
  PROVE  /\ TablesInv([t EXCEPT !.unused_mem_by_size[c] = b], m, r)
         /\ [t EXCEPT !.unused_mem_by_size[c] = b].used_mem_by_block = t.used_mem_by_block
<1> DEFINE v == Unlinked(t, b)
           u == [t EXCEPT !.unused_mem_by_size[c] = b]
           o == Owned(t, r \cup {b})
<1>1. /\ TablesInv(v, m, r \cup {b})
      /\ t \in Tables /\ b \in Blocks /\ m[b] = c /\ m[b] # Nil /\ b \notin Owned(t, r)
      /\ t.unused_mem_next[b] # Nil => m[t.unused_mem_next[b]] # Nil
      /\ r \subseteq Blocks
      /\ Owned(t, r) \subseteq o /\ b \in o
  BY HeadParts
<1>2. /\ v.unused_mem_by_size = t.unused_mem_by_size
      /\ v.used_mem_by_block = t.used_mem_by_block
      /\ \A x \in Blocks : x # b => v.unused_mem_next[x] = t.unused_mem_next[x]
      /\ Owned(v, r \cup {b}) = o
  BY <1>1, UnlinkedFields
<1>3. /\ u \in Tables
      /\ u.used_mem_by_block = t.used_mem_by_block
      /\ u.unused_mem_next = t.unused_mem_next
      /\ ChainHead(u, c) = b
      /\ \A d \in Class : d # c => ChainHead(u, d) = ChainHead(t, d)
  BY <1>1 DEF Tables, ChainHead
<1>4. PICK K \in SUBSET Blocks : RestOf(t, m, Owned(t, r), b, c, K)
  BY DEF CalmTables
<1> HIDE DEF v, u, o
<1>5. PICK L \in SUBSET Blocks : ChainsOver(v, m, o, L)
  BY <1>1, <1>2 DEF TablesInv
<1>6. ChainsOver(t, m, Owned(t, r), L) /\ b \notin L
  BY <1>1, <1>2, <1>5, ChainsWithoutLink
<1>7. /\ LinksOfIdle(v, m, o) /\ m \in [Blocks -> Class \cup {Nil}]
      /\ t.used_mem_by_block \cap r = {} /\ \A x \in o : m[x] # Nil
  BY <1>1, <1>2 DEF TablesInv
<1>8. Owned(u, r) = Owned(t, r)
  BY <1>3 DEF Owned
<1>9. LinksOfIdle(u, m, Owned(u, r))
  BY <1>1, <1>2, <1>3, <1>7, <1>8, LinksWithOne
<1> DEFINE M == {x \in L : m[x] # c}
           J == M \cup K \cup {b}
           next(x) == t.unused_mem_next[x]
<1>10. \A x \in M : next(x) # Nil =>
          next(x) \in M /\ m[next(x)] = m[x] /\ next(x) # ChainHead(t, m[x]) /\ m[x] \in Class
  BY <1>6, <1>7 DEF ChainsOver, SuccessorsIn
<1>11. /\ \A x \in K \cup {b} : next(x) # Nil => next(x) \in K /\ m[next(x)] = c
       /\ \A x \in K : m[x] = c
       /\ b \notin K /\ K \cap Owned(t, r) = {}
  BY <1>4 DEF RestOf
<1>12. J \in SUBSET (Blocks \ Owned(u, r)) /\ \A x \in J : m[x] # Nil
  BY <1>1, <1>6, <1>8, <1>11, TablesAssumption DEF ChainsOver
<1>13. HeadsIn(u, m, J)
  <2> SUFFICES ASSUME NEW d \in Class, ChainHead(u, d) # Nil
               PROVE  ChainHead(u, d) \in J /\ m[ChainHead(u, d)] = d
    BY DEF HeadsIn
  <2>1. CASE d = c
    BY <1>1, <1>3, <2>1
  <2>2. CASE d # c
    <3>1. ChainHead(u, d) = ChainHead(t, d)
      BY <1>3, <2>2
    <3>2. ChainHead(t, d) \in L /\ m[ChainHead(t, d)] = d
      BY <1>6, <3>1 DEF ChainsOver, HeadsIn
    <3> QED
      BY <2>2, <3>1, <3>2
  <2> QED
    BY <2>1, <2>2
<1>14. SuccessorsIn(u, m, J)
  <2> SUFFICES ASSUME NEW x \in J, next(x) # Nil
               PROVE  /\ next(x) \in J /\ m[next(x)] = m[x]
                      /\ next(x) # ChainHead(u, m[x])
    BY <1>3 DEF SuccessorsIn
  <2>1. CASE x \in M
    <3>1. /\ next(x) \in M /\ m[next(x)] = m[x]
          /\ next(x) # ChainHead(t, m[x]) /\ m[x] \in Class
      BY <1>10, <2>1
    <3>2. ChainHead(u, m[x]) = ChainHead(t, m[x])
      BY <1>3, <2>1, <3>1
    <3> QED
      BY <3>1, <3>2
  <2>2. CASE x \in K \cup {b}
    <3>1. next(x) \in K /\ m[next(x)] = c /\ m[x] = c /\ ChainHead(u, c) = b /\ b \notin K
      BY <1>1, <1>3, <1>11, <2>2
    <3> QED
      BY <3>1
  <2> QED
    BY <2>1, <2>2
<1>15. SuccessorsDistinct(u, J)
  <2> SUFFICES ASSUME NEW x \in J, NEW y \in J, next(x) # Nil, next(x) = next(y)
               PROVE  x = y
    BY <1>3 DEF SuccessorsDistinct
  <2>1. CASE x \in M /\ y \in M
    BY <1>6, <2>1 DEF ChainsOver, SuccessorsDistinct
  <2>2. CASE x \in K /\ y \in K
    BY <1>4, <2>2 DEF RestOf, SuccessorsDistinct
  <2>3. CASE (x \in K /\ y = b) \/ (x = b /\ y \in K)
    BY <1>4, <2>3 DEF RestOf
  <2>4. CASE (x \in M /\ y \in K \cup {b}) \/ (x \in K \cup {b} /\ y \in M)
    BY <1>10, <1>11, <2>4
  <2>5. CASE x = b /\ y = b
    BY <2>5
  <2> QED
    BY <2>1, <2>2, <2>3, <2>4, <2>5
<1>16. ChainsOver(u, m, Owned(u, r), J) /\ J \in SUBSET Blocks
  BY <1>12, <1>13, <1>14, <1>15 DEF ChainsOver
<1> HIDE DEF J
<1>17. TablesInv(u, m, r)
  BY <1>1, <1>3, <1>7, <1>8, <1>9, <1>16 DEF TablesInv
<1> QED
  BY <1>3, <1>17 DEF u

(***************************************************************************)
(* What finalizers and the collector do to the tables in between.          *)
(***************************************************************************)
LEMMA RestKept ==
  ASSUME NEW t, NEW u, NEW m, NEW o, NEW o2, NEW b, NEW c, NEW K,
         RestOf(t, m, o, b, c, K), K \cap o2 = {},
         \A x \in K \cup {b} : u.unused_mem_next[x] = t.unused_mem_next[x]
  PROVE  RestOf(u, m, o2, b, c, K)
  BY DEF RestOf, SuccessorsDistinct

LEMMA UnlinkedReleased ==
  ASSUME NEW t \in Tables, NEW d \in Class, NEW x \in Blocks, NEW b \in Blocks, x # b,
         NEW u \in Released(t, d, x)
  PROVE  /\ u \in Tables
         /\ Unlinked(u, b) \in Released(Unlinked(t, b), d, x)
         /\ \A y \in Blocks : y # x => u.unused_mem_next[y] = t.unused_mem_next[y]
<1> DEFINE f == ForgetUsed(t, x)
           v == Unlinked(t, b)
           g == ForgetUsed(v, x)
           h == ChainHead(t, d)
<1>1. /\ f \in Tables /\ f.unused_mem_next = t.unused_mem_next
      /\ \A e : ChainHead(f, e) = ChainHead(t, e)
  BY ForgetFields
<1>2. g = Unlinked(f, b)
  BY DEF ForgetUsed, Unlinked, Tables
<1>3. ChainHead(g, d) = h
  BY <1>2 DEF ForgetUsed, Unlinked, Tables, ChainHead
<1>4. u = f \/ u = LinkUnused(f, d, x) \/ u = PushUnused(f, d, x)
  BY DEF Released
<1>5. {g, LinkUnused(g, d, x), PushUnused(g, d, x)} = Released(v, d, x)
  BY DEF Released
<1> HIDE DEF f, v, g
<1>6. /\ Unlinked(LinkUnused(f, d, x), b) = LinkUnused(g, d, x)
      /\ \A y \in Blocks : y # x =>
            LinkUnused(f, d, x).unused_mem_next[y] = f.unused_mem_next[y]
      /\ LinkUnused(f, d, x).unused_mem_by_size = f.unused_mem_by_size
      /\ LinkUnused(f, d, x).used_mem_by_block = f.used_mem_by_block
  <2>1. CASE h = Nil
    BY <1>1, <1>2, <1>3, <2>1 DEF LinkUnused, h
  <2>2. CASE h # Nil
    <3> DEFINE n == f.unused_mem_next
    <3>1. /\ LinkUnused(f, d, x) = [f EXCEPT !.unused_mem_next[x] = h]
          /\ LinkUnused(g, d, x) = [g EXCEPT !.unused_mem_next[x] = h]
      BY <1>1, <1>3, <2>2 DEF LinkUnused
    <3>2. [[n EXCEPT ![x] = h] EXCEPT ![b] = Nil] = [[n EXCEPT ![b] = Nil] EXCEPT ![x] = h]
      BY <1>1 DEF Tables
    <3>3. /\ g = [f EXCEPT !.unused_mem_next = [n EXCEPT ![b] = Nil]]
          /\ LinkUnused(f, d, x) = [f EXCEPT !.unused_mem_next = [n EXCEPT ![x] = h]]
      BY <1>1, <1>2, <3>1 DEF Unlinked, Tables
    <3> HIDE DEF h
    <3>4. LinkUnused(g, d, x)
            = [f EXCEPT !.unused_mem_next = [[n EXCEPT ![b] = Nil] EXCEPT ![x] = h]]
      BY <1>1, <3>1, <3>3 DEF Tables
    <3>5. Unlinked(LinkUnused(f, d, x), b)
            = [f EXCEPT !.unused_mem_next = [[n EXCEPT ![x] = h] EXCEPT ![b] = Nil]]
      BY <1>1, <3>3 DEF Unlinked, Tables
    <3>6. \A y \in Blocks : y # x => [n EXCEPT ![x] = h][y] = n[y]
      BY <1>1 DEF Tables
    <3> HIDE DEF n
    <3>7. /\ LinkUnused(f, d, x).unused_mem_next = [n EXCEPT ![x] = h]
          /\ LinkUnused(f, d, x).unused_mem_by_size = f.unused_mem_by_size
          /\ LinkUnused(f, d, x).used_mem_by_block = f.used_mem_by_block
      BY <1>1, <3>3 DEF Tables
    <3> QED
      BY <3>2, <3>4, <3>5, <3>6, <3>7 DEF n
  <2> QED
    BY <2>1, <2>2
<1> DEFINE w == LinkUnused(f, d, x)
           z == LinkUnused(g, d, x)
<1>7. /\ PushUnused(f, d, x) = [w EXCEPT !.unused_mem_by_size[d] = x]
      /\ PushUnused(g, d, x) = [z EXCEPT !.unused_mem_by_size[d] = x]
  BY DEF PushUnused
<1>8. w \in Tables
  <2>1. CASE ChainHead(f, d) = Nil
    BY <1>1, <2>1 DEF LinkUnused
  <2>2. CASE ChainHead(f, d) # Nil
    BY <1>1, <2>2 DEF LinkUnused, Tables, ChainHead
  <2> QED
    BY <2>1, <2>2
<1> HIDE DEF w, z
<1>9. /\ Unlinked([w EXCEPT !.unused_mem_by_size[d] = x], b)
           = [Unlinked(w, b) EXCEPT !.unused_mem_by_size[d] = x]
      /\ [w EXCEPT !.unused_mem_by_size[d] = x].unused_mem_next = w.unused_mem_next
      /\ [w EXCEPT !.unused_mem_by_size[d] = x] \in Tables
  BY <1>8 DEF Unlinked, Tables
<1>10. Unlinked(w, b) = z /\ \A y \in Blocks : y # x => w.unused_mem_next[y] = f.unused_mem_next[y]
  BY <1>6 DEF w, z
<1>11. Unlinked(u, b) \in {g, z, PushUnused(g, d, x)}
  BY <1>2, <1>4, <1>7, <1>9, <1>10 DEF w
<1>12. \A y \in Blocks : y # x => u.unused_mem_next[y] = t.unused_mem_next[y]
  BY <1>1, <1>4, <1>7, <1>9, <1>10 DEF w
<1>13. u \in Tables
  BY <1>1, <1>4, <1>7, <1>8, <1>9 DEF w
<1> QED
  BY <1>5, <1>11, <1>12, <1>13 DEF v, z

LEMMA ReleaseCalm ==
  ASSUME NEW t, NEW m, NEW r, NEW p, NEW b, NEW c, CalmTables(t, m, r, p, b, c),
         NEW x \in t.used_mem_by_block, NEW u \in Released(t, m[x], x)
  PROVE  /\ CalmTables(u, m, r, p, b, c)
         /\ u.used_mem_by_block = t.used_mem_by_block \ {x}
<1>1. CASE p # "cache_head"
  <2>1. TablesInv(t, m, Pinned(r, p, b))
    BY <1>1 DEF CalmTables, Plain
  <2>2. /\ TablesInv(u, m, Pinned(r, p, b))
        /\ u.used_mem_by_block = t.used_mem_by_block \ {x}
    BY <2>1, ReleasedInv
  <2>3. Owned(u, r) \subseteq Owned(t, r)
    BY <2>2 DEF Owned
  <2> QED
    BY <1>1, <2>2, <2>3 DEF CalmTables, Plain
<1>2. CASE p = "cache_head"
  <2> DEFINE v == Unlinked(t, b)
             w == Unlinked(u, b)
  <2>1. /\ TablesInv(v, m, r \cup {b})
        /\ t \in Tables /\ b \in Blocks /\ m[b] = c /\ b \notin Owned(t, r)
    BY <1>2 DEF CalmTables, Plain, Pinned, Caching
  <2>2. PICK K \in SUBSET Blocks : RestOf(t, m, Owned(t, r), b, c, K)
    BY <1>2 DEF CalmTables
  <2>3. v.used_mem_by_block = t.used_mem_by_block /\ x \in Blocks /\ x # b
    BY <2>1, UnlinkedFields DEF Owned, Tables
  <2>4. m[x] \in Class
    BY <2>1, <2>3 DEF TablesInv, Owned
  <2>5. w \in Released(v, m[x], x) /\ u \in Tables
        /\ \A y \in Blocks : y # x => u.unused_mem_next[y] = t.unused_mem_next[y]
    BY <2>1, <2>3, <2>4, UnlinkedReleased
  <2> HIDE DEF v
  <2>6. TablesInv(w, m, r \cup {b}) /\ w.used_mem_by_block = v.used_mem_by_block \ {x}
    <3> HIDE DEF w
    <3> QED
      BY <2>1, <2>3, <2>5, ReleasedInv
  <2>7. u.used_mem_by_block = t.used_mem_by_block \ {x}
    BY <2>1, <2>3, <2>5, <2>6, UnlinkedFields
  <2>8. /\ Owned(u, r) \subseteq Owned(t, r)
        /\ x \in Owned(t, r)
    BY <2>7 DEF Owned
  <2>9. K \cap Owned(t, r) = {}
    BY <2>2 DEF RestOf
  <2>10. RestOf(u, m, Owned(u, r), b, c, K)
    BY <2>1, <2>2, <2>3, <2>5, <2>8, <2>9, RestKept
  <2>11. b \notin Owned(u, r)
    BY <2>1, <2>8
  <2>12. TablesInv(Plain(u, p, b), m, Pinned(r, p, b))
    BY <1>2, <2>6 DEF Plain, Pinned, Caching
  <2> QED
    BY <1>2, <2>1, <2>5, <2>7, <2>10, <2>11, <2>12 DEF CalmTables
<1> QED
  BY <1>1, <1>2

\* pool_detach of another block than the one that is being cached.
LEMMA ForgetCalm ==
  ASSUME NEW t, NEW m, NEW r, NEW p, NEW b, NEW c, CalmTables(t, m, r, p, b, c),
         NEW x \in t.used_mem_by_block
  PROVE  /\ CalmTables(ForgetUsed(t, x), m, r \cup {x}, p, b, c)
         /\ ForgetUsed(t, x).used_mem_by_block = t.used_mem_by_block \ {x}
<1> DEFINE u == ForgetUsed(t, x)
<1>1. Pinned(r \cup {x}, p, b) = Pinned(r, p, b) \cup {x}
  BY DEF Pinned
<1>2. CASE p # "cache_head"
  <2>1. TablesInv(t, m, Pinned(r, p, b))
    BY <1>2 DEF CalmTables, Plain
  <2>2. TablesInv(u, m, Pinned(r \cup {x}, p, b))
    BY <1>1, <2>1, ForgetInv
  <2>3. u.used_mem_by_block = t.used_mem_by_block \ {x}
    BY <2>1, ForgetFields DEF TablesInv
  <2>4. Owned(u, r \cup {x}) = Owned(t, r)
    BY <2>3 DEF Owned
  <2> HIDE DEF u
  <2> QED
    BY <1>2, <2>2, <2>3, <2>4 DEF CalmTables, Plain, u
<1>3. CASE p = "cache_head"
  <2> DEFINE v == Unlinked(t, b)
  <2>1. /\ TablesInv(v, m, r \cup {b})
        /\ t \in Tables /\ b \in Blocks /\ m[b] = c /\ b \notin Owned(t, r)
    BY <1>3 DEF CalmTables, Plain, Pinned, Caching
  <2>2. PICK K \in SUBSET Blocks : RestOf(t, m, Owned(t, r), b, c, K)
    BY <1>3 DEF CalmTables
  <2>3. v.used_mem_by_block = t.used_mem_by_block
    BY <2>1, UnlinkedFields
  <2>4. /\ u \in Tables /\ u.unused_mem_next = t.unused_mem_next
        /\ u.used_mem_by_block = t.used_mem_by_block \ {x}
    BY <2>1, ForgetFields
  <2>5. ForgetUsed(v, x) = Unlinked(u, b)
    BY <2>1 DEF ForgetUsed, Unlinked, Tables
  <2> HIDE DEF v, u
  <2>6. TablesInv(ForgetUsed(v, x), m, (r \cup {b}) \cup {x})
    BY <2>1, <2>3, ForgetInv
  <2>7. Owned(u, r \cup {x}) = Owned(t, r)
    BY <2>4 DEF Owned
  <2>8. K \cap Owned(u, r \cup {x}) = {}
    BY <2>2, <2>7 DEF RestOf
  <2>9. RestOf(u, m, Owned(u, r \cup {x}), b, c, K)
    BY <2>2, <2>4, <2>8, RestKept
  <2>10. TablesInv(Plain(u, p, b), m, Pinned(r \cup {x}, p, b))
    BY <1>1, <1>3, <2>5, <2>6 DEF Plain, Pinned, Caching
  <2> QED
    BY <1>3, <2>1, <2>4, <2>7, <2>9, <2>10 DEF CalmTables, u
<1> QED
  BY <1>2, <1>3

LEMMA UnrefCalm ==
  ASSUME NEW t, NEW m, NEW r, NEW p, NEW b, NEW c, CalmTables(t, m, r, p, b, c),
         NEW x \in r
  PROVE  CalmTables(t, m, r \ {x}, p, b, c)
<1>1. p \in Caching => x # b
  BY DEF CalmTables, Owned
<1>2. Pinned(r \ {x}, p, b) = Pinned(r, p, b) \ {x}
  BY <1>1 DEF Pinned
<1>3. TablesInv(Plain(t, p, b), m, Pinned(r \ {x}, p, b))
  BY <1>2, UnrefInv DEF CalmTables
<1>4. Owned(t, r \ {x}) \subseteq Owned(t, r)
  BY DEF Owned
<1>5. ASSUME NEW K, RestOf(t, m, Owned(t, r), b, c, K)
      PROVE  RestOf(t, m, Owned(t, r \ {x}), b, c, K)
  <2>1. K \cap Owned(t, r \ {x}) = {}
    BY <1>4, <1>5 DEF RestOf
  <2> QED
    BY <1>5, <2>1, RestKept
<1> QED
  BY <1>3, <1>4, <1>5 DEF CalmTables

LEMMA CollectCalm ==
  ASSUME NEW t, NEW m, NEW r, NEW p, NEW b, NEW c, CalmTables(t, m, r, p, b, c),
         NEW D \in SUBSET (Blocks \ Owned(t, r)), p \in Caching => b \notin D
  PROVE  /\ CalmTables(Collected(t, D), [x \in Blocks |-> IF x \in D THEN Nil ELSE m[x]],
                       r, p, b, c)
         /\ t \in Tables =>
               Collected(t, D).used_mem_by_block = t.used_mem_by_block
<1> DEFINE u == Collected(t, D)
           n == [x \in Blocks |-> IF x \in D THEN Nil ELSE m[x]]
<1>1. t \in Tables => u.used_mem_by_block = t.used_mem_by_block
  BY DEF Collected, Tables
<1>2. CASE p # "cache_head"
  <2>1. TablesInv(t, m, Pinned(r, p, b))
    BY <1>2 DEF CalmTables, Plain
  <2>2. D \in SUBSET (Blocks \ Owned(t, Pinned(r, p, b)))
    BY DEF Pinned, Owned
  <2>3. TablesInv(u, n, Pinned(r, p, b)) /\ u.used_mem_by_block = t.used_mem_by_block
    BY <2>1, <2>2, CollectedInv
  <2>4. Owned(u, r) = Owned(t, r)
    BY <2>3 DEF Owned
  <2>5. p \in Caching => b \in Blocks /\ n[b] = m[b] /\ m[b] = c /\ b \notin Owned(t, r)
    BY DEF CalmTables
  <2> HIDE DEF u, n
  <2> QED
    BY <1>1, <1>2, <2>3, <2>4, <2>5 DEF CalmTables, Plain, u, n
<1>3. CASE p = "cache_head"
  <2> DEFINE v == Unlinked(t, b)
  <2>1. /\ TablesInv(v, m, r \cup {b})
        /\ t \in Tables /\ b \in Blocks /\ m[b] = c /\ b \notin Owned(t, r) /\ b \notin D
    BY <1>3 DEF CalmTables, Plain, Pinned, Caching
  <2>2. PICK K \in SUBSET Blocks : RestOf(t, m, Owned(t, r), b, c, K)
    BY <1>3 DEF CalmTables
  <2>3. Owned(v, r \cup {b}) = Owned(t, r \cup {b})
    BY <2>1, UnlinkedFields
  <2>4. D \in SUBSET (Blocks \ Owned(v, r \cup {b}))
    BY <2>1, <2>3 DEF Owned
  <2>5. Collected(v, D) = Unlinked(u, b)
    <3> DEFINE f == [y \in Blocks |-> IF y \in D \/ v.unused_mem_next[y] \in D
                                      THEN Nil ELSE v.unused_mem_next[y]]
               g == [y \in Blocks |-> IF y \in D \/ t.unused_mem_next[y] \in D
                                      THEN Nil ELSE t.unused_mem_next[y]]
               h == [d \in Class |-> IF ChainHead(t, d) \in D THEN Nil ELSE ChainHead(t, d)]
    <3>1. /\ v.unused_mem_next[b] = Nil
          /\ \A y \in Blocks : y # b => v.unused_mem_next[y] = t.unused_mem_next[y]
          /\ \A d : ChainHead(v, d) = ChainHead(t, d)
          /\ v \in Tables
      BY <2>1, UnlinkedFields
    <3>2. f = [g EXCEPT ![b] = Nil]
      BY <2>1, <3>1
    <3>3. Collected(v, D) = [v EXCEPT !.unused_mem_by_size = h, !.unused_mem_next = f]
      <4> DEFINE k == [d \in Class |-> IF ChainHead(v, d) \in D THEN Nil ELSE ChainHead(v, d)]
      <4>1. k = h
        BY <3>1
      <4>2. Collected(v, D) = [v EXCEPT !.unused_mem_by_size = k, !.unused_mem_next = f]
        BY DEF Collected
      <4> HIDE DEF k, h, f
      <4> QED
        BY <4>1, <4>2
    <3>4. u = [t EXCEPT !.unused_mem_by_size = h, !.unused_mem_next = g]
      BY DEF Collected
    <3> HIDE DEF u, f, g, h
    <3>5. Unlinked(u, b) = [t EXCEPT !.unused_mem_by_size = h,
                                     !.unused_mem_next = [g EXCEPT ![b] = Nil]]
      BY <2>1, <3>4 DEF Unlinked, Tables
    <3>6. [v EXCEPT !.unused_mem_by_size = h, !.unused_mem_next = f]
            = [t EXCEPT !.unused_mem_by_size = h, !.unused_mem_next = f]
      BY <2>1 DEF Unlinked, Tables
    <3> QED
      BY <3>2, <3>3, <3>5, <3>6
  <2>6. /\ u \in Tables
        /\ \A y \in Blocks : u.unused_mem_next[y] =
              IF y \in D \/ t.unused_mem_next[y] \in D THEN Nil ELSE t.unused_mem_next[y]
    BY <2>1 DEF Collected, Tables, ChainHead
  <2> HIDE DEF v, u
  <2>7. TablesInv(Collected(v, D), n, r \cup {b})
    BY <2>1, <2>4, CollectedInv
  <2>8. Owned(u, r) = Owned(t, r)
    BY <1>1, <2>1 DEF Owned
  <2>9. n[b] = c /\ \A y \in Blocks \ D : n[y] = m[y]
    BY <2>1
  <2> HIDE DEF n
  <2>10. RestOf(u, n, Owned(u, r), b, c, K \ D)
    <3> DEFINE next(y) == t.unused_mem_next[y]
    <3>1. /\ next(b) # Nil => next(b) \in K
          /\ K \cap Owned(t, r) = {} /\ b \notin K
          /\ \A y \in K : m[y] = c
          /\ \A y \in K : next(y) # Nil => next(y) \in K /\ next(y) # next(b)
          /\ \A y, z \in K : next(y) # Nil /\ next(y) = next(z) => y = z
      BY <2>2 DEF RestOf, SuccessorsDistinct
    <3>2. \A y \in (K \ D) \cup {b} : u.unused_mem_next[y] =
             IF next(y) \in D THEN Nil ELSE next(y)
      BY <2>1, <2>6
    <3>3. \A y \in K \ D : n[y] = c
      BY <2>9, <3>1
    <3>4. u.unused_mem_next[b] # Nil => u.unused_mem_next[b] \in K \ D
      BY <3>1, <3>2
    <3>5. \A y \in K \ D : u.unused_mem_next[y] # Nil =>
             u.unused_mem_next[y] \in K \ D /\ u.unused_mem_next[y] # u.unused_mem_next[b]
      BY <3>1, <3>2
    <3>6. SuccessorsDistinct(u, K \ D)
      BY <3>1, <3>2 DEF SuccessorsDistinct
    <3> QED
      BY <2>8, <3>1, <3>3, <3>4, <3>5, <3>6 DEF RestOf
  <2>11. TablesInv(Plain(u, p, b), n, Pinned(r, p, b))
    BY <1>3, <2>5, <2>7 DEF Plain, Pinned, Caching
  <2>12. K \ D \in SUBSET Blocks
    OBVIOUS
  <2> QED
    BY <1>1, <1>3, <2>1, <2>6, <2>8, <2>9, <2>10, <2>11, <2>12 DEF CalmTables, u, n
<1> QED
  BY <1>2, <1>3

-----------------------------------------------------------------------------
(* While finalizers only release memory: the calls *)

LEMMA LooseTyped == LooseInv => HoldingsTyped
  BY LooseFacts DEF LooseInv, LoosePool, HoldingsTyped

\* A call that is not interrupted starts from a sound pool.
LEMMA CalmIdle ==
  ASSUME LooseInv, CalmInv, pc = "idle"
  PROVE  StructInv
<1>1. TablesInv(tables, mem, refs)
  BY CalmSound DEF CalmInv, Caching
<1> QED
  BY <1>1 DEF CalmInv, LooseInv, LoosePool, StructInv, SoundOver

LEMMA IdleCalm ==
  ASSUME StructInv, AccountInv, pc = "idle"
  PROVE  CalmInv
  BY DEF StructInv, SoundOver, CalmInv, CalmTables, Plain, Pinned, Caching

LEMMA CalmHolding ==
  ASSUME LooseInv, CalmInv
  PROVE  /\ TablesInv(tables, mem, refs)
         /\ held = tables.used_mem_by_block
         /\ HoldingsTyped
         /\ ref_L => used = Cardinality(Bytes(mem, held)) /\ (capacity # 0 => used <= capacity)
         /\ used \in Nat /\ capacity \in Nat /\ SizeMax \in Nat
<1>1. pc \in Caching => class \in Class
  BY CallFacts DEF LooseInv, Caching
<1>2. TablesInv(tables, mem, refs)
  BY <1>1, CalmSound DEF CalmInv
<1>3. HoldingsTyped
  BY LooseTyped
<1>4. /\ held = tables.used_mem_by_block
      /\ ref_L => used = Cardinality(Bytes(mem, held)) /\ (capacity # 0 => used <= capacity)
  BY DEF CalmInv, AccountInv, OwnershipExact, UsedIsHeldBytes, CapacityRespected
<1>5. used \in Nat /\ capacity \in Nat /\ SizeMax \in Nat
  BY <1>3, HeldFacts DEF SizeT
<1> QED
  BY <1>2, <1>3, <1>4, <1>5

\* A call that has nothing to do with the amount held.
LEMMA SameAccount ==
  ASSUME AccountInv, (tables').used_mem_by_block = tables.used_mem_by_block,
         UNCHANGED <<ref_L, capacity, used, mem, held>>
  PROVE  AccountInv'
  BY DEF AccountInv, OwnershipExact, UsedIsHeldBytes, CapacityRespected

(***************************************************************************)
(* The request that the capacity test let through still fits when the      *)
(* block is there, whatever was released in between; both blocks of a      *)
(* resize count until the old one is forgotten.                            *)
(***************************************************************************)
LEMMA FinishCalm ==
  ASSUME LooseInv, CalmInv, pc \in {"take_key", "create"}, NEW b \in Blocks, NEW t,
         TablesInv(t, mem', refs), t.used_mem_by_block = tables.used_mem_by_block \cup {b},
         b \notin tables.used_mem_by_block,
         \/ mem[b] = class /\ mem' = mem
         \/ mem[b] = Nil /\ Room(class.size) /\ mem' = [mem EXCEPT ![b] = class],
         FinishAcquire(b, t)
  PROVE  CalmInv'
<1> DEFINE S == held \cup {b}
<1>1. /\ class \in Class /\ class.size \in Nat
      /\ ref_L /\ StillFits
      /\ UNCHANGED <<ref_L, capacity, refs, handles>>
  BY CallFacts, ClassFacts, LayoutAssumption DEF LooseInv, CalmInv, FinishAcquire, SizeT
<1>2. /\ held = tables.used_mem_by_block /\ HoldingsTyped
      /\ used = Cardinality(Bytes(mem, held))
      /\ used \in Nat /\ capacity \in Nat /\ SizeMax \in Nat
  BY <1>1, CalmHolding
<1>3. AccountInv /\ b \notin held
  BY <1>2 DEF CalmInv
<1>4. /\ Cardinality(Bytes(mem', S)) = used + class.size
      /\ used + class.size <= SizeMax
      /\ HeapFits(mem')
  <2> PICK m : m = mem'
    OBVIOUS
  <2>1. \/ mem[b] = class /\ m = mem
        \/ mem[b] = Nil /\ Room(class.size) /\ m = [mem EXCEPT ![b] = class]
    OBVIOUS
  <2>2. /\ Cardinality(Bytes(m, held \cup {b})) = used + class.size
        /\ used + class.size <= SizeMax
        /\ HeapFits(m)
    BY <1>1, <1>2, <1>3, <2>1, AcquiredBytes
  <2> QED
    BY <2>2
<1>5. PlusT(used, class.size) = used + class.size
  BY <1>1, <1>2, <1>4 DEF PlusT
<1>6. CASE /\ old = Nil
           /\ tables' = t
           /\ used' = PlusT(used, class.size)
           /\ held' = S
           /\ Proceed("idle", Nil, Nil)
  <2>1. pc' = "idle" /\ used' = used + class.size
    BY <1>5, <1>6 DEF Proceed
  <2>2. capacity # 0 => used' <= capacity
    BY <1>1, <1>2, <1>6, <2>1 DEF StillFits
  <2>3. OwnershipExact'
    BY <1>2, <1>6 DEF OwnershipExact
  <2>4. AccountInv'
    BY <1>1, <1>4, <1>6, <2>1, <2>2, <2>3 DEF AccountInv, UsedIsHeldBytes, CapacityRespected
  <2>5. CalmTables(tables', mem', refs', pc', old', class')
    BY <1>1, <1>6, <2>1 DEF CalmTables, Plain, Pinned, Caching
  <2> QED
    BY <1>1, <2>1, <2>4, <2>5 DEF CalmInv
<1>7. CASE /\ old # Nil
           /\ tables' = ForgetUsed(t, old)
           /\ used' = MinusT(PlusT(used, class.size), mem[old].size)
           /\ held' = S \ {old}
           /\ Proceed("cache_key", mem[old], old)
  <2>1. /\ old \in held /\ old \in S /\ old \in t.used_mem_by_block
        /\ old \in Blocks /\ mem[old] \in Class /\ mem[old].size \in Nat /\ old # b
    BY <1>1, <1>2, <1>3, <1>7, HeldFacts, LooseFacts DEF StillFits, LooseInv
  <2>2. (mem')[old] = mem[old]
    BY <1>2, <2>1, HeldFacts
  <2>3. /\ mem' \in [Blocks -> Class \cup {Nil}] /\ S \in SUBSET Blocks
        /\ \A x \in S : (mem')[x] # Nil
    BY <1>2 DEF TablesInv, Tables, Owned
  <2> HIDE DEF S
  <2>4. /\ Cardinality(Bytes(mem', S)) = Cardinality(Bytes(mem', S \ {old})) + (mem')[old].size
        /\ Cardinality(Bytes(mem', S \ {old})) \in Nat
    BY <2>1, <2>3, BytesRemove, BytesFinite
  <2>5. Cardinality(Bytes(mem', S \ {old})) = used + class.size - mem[old].size
    BY <1>1, <1>2, <1>4, <2>1, <2>2, <2>4
  <2>6. used' = used + class.size - mem[old].size
    BY <1>1, <1>2, <1>5, <1>7, <2>1, <2>4, <2>5 DEF MinusT
  <2>7. capacity # 0 => used' <= capacity
    BY <1>1, <1>2, <1>7, <2>1, <2>6 DEF StillFits
  <2>8. /\ TablesInv(tables', mem', refs \cup {old})
        /\ (tables').used_mem_by_block = t.used_mem_by_block \ {old}
    BY <1>7, <2>1, ForgetInv, ForgetFields DEF TablesInv
  <2>9. OwnershipExact'
    BY <1>2, <1>7, <2>8 DEF OwnershipExact, S
  <2>10. AccountInv'
    BY <1>1, <1>4, <1>7, <2>5, <2>6, <2>7, <2>9
       DEF AccountInv, UsedIsHeldBytes, CapacityRespected
  <2>11. old \notin Owned(tables', refs)
    BY <2>1, <2>8 DEF Owned, TablesInv
  <2>12. CalmTables(tables', mem', refs, "cache_key", old, mem[old])
    BY <2>1, <2>2, <2>8, <2>11 DEF CalmTables, Plain, Pinned, Caching
  <2> QED
    BY <1>1, <1>7, <2>10, <2>12 DEF CalmInv, Proceed
<1> QED
  BY <1>6, <1>7 DEF FinishAcquire

\* A userdata that create_new_block made and nobody registers.
LEMMA UnusedAccount ==
  ASSUME HoldingsTyped, AccountInv, ref_L, NEW c \in Class, NEW b \in Blocks \ Live,
         Room(c.size), mem' = [mem EXCEPT ![b] = c],
         UNCHANGED <<ref_L, capacity, used, tables, held>>
  PROVE  AccountInv'
<1>1. mem[b] = Nil /\ b \notin held
  BY HeldFacts DEF Live, LiveIn
<1>2. HeapFits(mem')
  <2> PICK m : m = mem'
    OBVIOUS
  <2>1. mem[b] = Nil /\ Room(c.size) /\ m = [mem EXCEPT ![b] = c]
    BY <1>1
  <2>2. HeapFits(m)
    BY <1>1, <2>1, AcquiredBytes
  <2> QED
    BY <2>2
<1>3. Bytes(mem', held) = Bytes(mem, held)
  <2>1. \A x \in held : (mem')[x] = mem[x]
    BY <1>1, HeldFacts
  <2> QED
    BY <2>1, BytesSameHeap
<1> QED
  BY <1>2, <1>3 DEF AccountInv, OwnershipExact, UsedIsHeldBytes, CapacityRespected

LEMMA CalmWhole ==
  ASSUME LooseInv, CalmInv, Whole
  PROVE  CalmInv'
<1>1. pc = "idle" /\ UNCHANGED <<pc, class, old, allocations>>
  BY DEF Whole, callVars
<1>2. StructInv /\ AccountInv
  BY <1>1, CalmIdle DEF CalmInv
<1>3. Next
  BY DEF Whole, Next
<1>4. StructInv' /\ AccountInv'
  BY <1>2, <1>3, StructStep, AccountStep, ReentryAssumption
<1>5. pc' = "idle" /\ TablesInv(tables', mem', refs') /\ (~ref_L' => (tables').used_mem_by_block = {})
  BY <1>1, <1>4 DEF StructInv, SoundOver
<1> QED
  BY <1>4, <1>5 DEF CalmInv, CalmTables, Plain, Pinned, Caching

(***************************************************************************)
(* Whom a block is handed to.                                              *)
(***************************************************************************)
LEMMA SharedTyped ==
  ASSUME LooseInv, shared \subseteq Blocks, NEW b, HandOut(b)
  PROVE  shared' \subseteq Blocks
  BY LooseFacts DEF LooseInv, LoosePool, HandOut

LEMMA SharedStep ==
  ASSUME ReentryInv, [ReentryNext]_allVars
  PROVE  SharedInv'
<1>1. /\ LooseInv /\ SharedInv /\ allocations \in Nat
      /\ held \subseteq Blocks /\ refs \subseteq Blocks /\ handles = refs
  BY CallFacts, LooseFacts DEF ReentryInv, LooseInv, LoosePool
<1>2. ASSUME UNCHANGED <<allocations, shared>> PROVE SharedInv'
  BY <1>1, <1>2 DEF SharedInv
<1>3. ASSUME NEW b \in Blocks, NEW t, FinishAcquire(b, t),
             CalmInv => b \notin Owned(tables, refs)
      PROVE  SharedInv'
  <2>1. shared' \subseteq Blocks /\ UNCHANGED allocations
    BY <1>1, <1>3, SharedTyped DEF FinishAcquire, Proceed, SharedInv
  <2>2. ASSUME allocations = 0 PROVE shared' = {}
    <3>1. CalmInv /\ shared = {}
      BY <1>1, <2>2 DEF ReentryInv, SharedInv
    <3>2. b \notin held \cup handles
      BY <1>1, <1>3, <3>1, CalmHolding DEF Owned
    <3> QED
      BY <1>3, <3>1, <3>2 DEF FinishAcquire, HandOut
  <2> QED
    BY <2>1, <2>2 DEF SharedInv
<1>4. CASE Take
  <2>1. CASE /\ ChainHead(tables, class) # Nil
             /\ FinishAcquire(ChainHead(tables, class), TakeUnused(tables, class))
    <3>1. class \in Class
      BY <1>1, <1>4, CallFacts DEF LooseInv, Take
    <3>2. ChainHead(tables, class) \in Blocks
      BY <1>1, <2>1, <3>1, LooseFacts DEF LooseInv, Tables, ChainHead
    <3>3. CalmInv => ChainHead(tables, class) \notin Owned(tables, refs)
      BY <1>1, <2>1, <3>1, CalmHolding, HeadIsIdle
    <3> QED
      BY <1>3, <2>1, <3>2, <3>3
  <2> QED
    BY <1>2, <1>4, <2>1 DEF Take, Goto, Proceed
<1>5. ASSUME NEW b \in Blocks, Create(b) PROVE SharedInv'
  <2>1. mem[b] = Nil /\ FinishAcquire(b, RegisterUsed(tables, b))
    BY <1>5 DEF Create
  <2>2. b \notin Owned(tables, refs)
    BY <1>1, <2>1 DEF LooseInv, LoosePool, NamesLive, Owned
  <2> QED
    BY <1>3, <2>1, <2>2
<1>6. CASE FinalizerAllocates
  <2>1. allocations' # 0
    BY <1>1, <1>6 DEF FinalizerAllocates
  <2>2. shared' \subseteq Blocks
    BY <1>1, <1>6, SharedTyped DEF FinalizerAllocates, Acquires, SharedInv
  <2> QED
    BY <2>1, <2>2 DEF SharedInv
<1>7. CASE Running
  <2>1. Take \/ (\E b \in Blocks : Create(b)) \/ UNCHANGED <<allocations, shared>>
    BY <1>7 DEF Running, Whole, callVars, StartAlloc, StartResize, StartFree, FailAcquire,
                CacheLink, CacheHead, CacheFails, Return, Goto, Proceed
  <2> QED
    BY <1>2, <1>4, <1>5, <2>1
<1>8. CASE Finalizer
  BY <1>2, <1>6, <1>8 DEF Finalizer, FinalizerReleases
<1>9. CASE (\E D \in SUBSET Blocks : CollectReentrant(D)) \/ UNCHANGED allVars
  BY <1>2, <1>9 DEF CollectReentrant, callVars, allVars
<1> QED
  BY <1>7, <1>8, <1>9 DEF ReentryNext

LEMMA CalmStarts ==
  ASSUME LooseInv, CalmInv, NEW size \in Sizes,
         StartAlloc(size) \/ \E b \in Blocks : StartResize(b, size)
  PROVE  CalmInv'
<1> DEFINE c == DefaultClass(size)
<1>1. c \in Class /\ c.size \in Nat /\ UNCHANGED vars /\ ref_L /\ pc = "idle"
  BY ClassFacts, LayoutAssumption DEF StartAlloc, StartResize, SizeT
<1>2. /\ UNCHANGED <<ref_L, capacity, used, tables, mem, refs, held>>
      /\ pc' = "take_key" /\ class' = c
  BY <1>1 DEF vars, StartAlloc, StartResize, Goto, Proceed
<1>3. /\ TablesInv(tables, mem, refs) /\ HoldingsTyped
      /\ held = tables.used_mem_by_block
      /\ capacity # 0 => used <= capacity
      /\ used \in Nat /\ capacity \in Nat /\ SizeMax \in Nat
  BY <1>1, CalmHolding
<1>4. StillFits'
  <2>1. CASE StartAlloc(size)
    <3>1. old' = Nil /\ (capacity # 0 => ~(c.size > MinusT(capacity, used)))
      BY <2>1 DEF StartAlloc, Goto, Proceed, Refused
    <3>2. capacity # 0 => c.size + used <= capacity + 0
      BY <1>1, <1>3, <3>1 DEF MinusT
    <3> HIDE DEF c
    <3> QED
      BY <1>2, <3>1, <3>2 DEF StillFits
  <2>2. ASSUME NEW b \in Blocks, StartResize(b, size) PROVE StillFits'
    <3>1. /\ old' = b /\ b \in tables.used_mem_by_block /\ b # Nil
          /\ capacity # 0 => ~(c.size > MinusT(capacity, MinusT(used, mem[b].size)))
      BY <2>2, TablesAssumption DEF StartResize, Goto, Proceed, RefusedResize
    <3>2. mem[b].size <= used /\ mem[b].size \in Nat
      BY <1>1, <1>3, <3>1, ReleasedBytes, HeldFacts DEF CalmInv
    <3>3. capacity # 0 => c.size + used <= capacity + mem[b].size
      BY <1>1, <1>3, <3>1, <3>2 DEF MinusT
    <3> HIDE DEF c
    <3> QED
      BY <1>2, <3>1, <3>3 DEF StillFits
  <2> QED
    BY <2>1, <2>2
<1>5. AccountInv'
  BY <1>2, SameAccount DEF CalmInv
<1>6. CalmTables(tables', mem', refs', pc', old', class')
  BY <1>2, <1>3 DEF CalmTables, Plain, Pinned, Caching
<1> QED
  BY <1>1, <1>2, <1>4, <1>5, <1>6 DEF CalmInv

LEMMA CalmRunning ==
  ASSUME LooseInv, CalmInv, Running
  PROVE  CalmInv'
<1>1. /\ TablesInv(tables, mem, refs) /\ HoldingsTyped /\ AccountInv
      /\ held = tables.used_mem_by_block
  BY CalmHolding DEF CalmInv
<1>2. pc # "idle" => class \in Class /\ ref_L
  BY CallFacts DEF LooseInv, CalmInv
<1>3. pc \in Caching => old \in Blocks
  BY DEF CalmInv, CalmTables
<1>4. ASSUME (tables').used_mem_by_block = tables.used_mem_by_block,
             UNCHANGED <<ref_L, capacity, used, mem, refs, held>>,
             pc' = "idle", TablesInv(tables', mem, refs)
      PROVE  CalmInv'
  <2>1. AccountInv'
    BY <1>1, <1>4, SameAccount
  <2> QED
    BY <1>4, <2>1 DEF CalmInv, CalmTables, Plain, Pinned, Caching
<1>5. ASSUME NEW b \in Blocks, StartFree(b) PROVE CalmInv'
  <2>1. /\ b \in tables.used_mem_by_block /\ ref_L
        /\ tables' = ForgetUsed(tables, b) /\ used' = MinusT(used, mem[b].size)
        /\ held' = held \ {b} /\ UNCHANGED <<ref_L, capacity, mem, refs>>
        /\ pc' = "cache_key" /\ class' = mem[b] /\ old' = b
    BY <1>5 DEF StartFree, Goto, Proceed
  <2>2. /\ TablesInv(tables', mem, refs \cup {b})
        /\ (tables').used_mem_by_block = tables.used_mem_by_block \ {b}
    BY <1>1, <2>1, ForgetInv, ForgetFields DEF TablesInv
  <2>3. AccountInv'
    BY <1>1, <2>1, <2>2, GiveUpAccount
  <2>4. b \notin Owned(tables', refs)
    BY <1>1, <2>1, <2>2 DEF Owned, TablesInv
  <2> QED
    BY <2>1, <2>2, <2>3, <2>4 DEF CalmInv, CalmTables, Plain, Pinned, Caching
<1>6. CASE Take
  <2>1. CASE /\ ChainHead(tables, class) # Nil
             /\ FinishAcquire(ChainHead(tables, class), TakeUnused(tables, class))
             /\ UNCHANGED mem
    <3> DEFINE b == ChainHead(tables, class)
               t == TakeUnused(tables, class)
    <3>1. b \in Blocks /\ b \notin Owned(tables, refs) /\ mem[b] = class
      BY <1>1, <1>2, <1>6, <2>1, HeadIsIdle DEF Take
    <3>2. /\ TablesInv(t, mem', refs)
          /\ t.used_mem_by_block = tables.used_mem_by_block \cup {b}
      <4>1. class \in Class /\ tables \in Tables /\ mem' = mem
        BY <1>1, <1>2, <1>6, <2>1 DEF Take, TablesInv
      <4>2. TablesInv(t, mem, refs)
        BY <1>1, <2>1, <4>1, TakeUnusedInv
      <4>3. t.used_mem_by_block = tables.used_mem_by_block \cup {b}
        BY <3>1, <4>1, TakeUnusedFields
      <4> QED
        BY <4>1, <4>2, <4>3
    <3>3. b \notin tables.used_mem_by_block
      BY <3>1 DEF Owned
    <3> HIDE DEF b, t
    <3>4. FinishAcquire(b, t) /\ mem' = mem /\ pc \in {"take_key", "create"}
      BY <1>6, <2>1 DEF Take, b, t
    <3> QED
      BY <3>1, <3>2, <3>3, <3>4, FinishCalm
  <2>2. CASE Goto("create", class, old) /\ UNCHANGED vars
    <3>1. /\ UNCHANGED <<ref_L, capacity, used, tables, mem, refs, held, class, old>>
          /\ pc = "take_key" /\ pc' = "create"
      BY <1>6, <2>2 DEF vars, Goto, Proceed, Take
    <3>2. AccountInv' /\ StillFits'
      BY <1>1, <3>1, SameAccount DEF CalmInv, StillFits
    <3> QED
      BY <3>1, <3>2 DEF CalmInv, CalmTables, Plain, Pinned, Caching
  <2> QED
    BY <1>6, <2>1, <2>2 DEF Take
<1>7. ASSUME NEW b \in Blocks, Create(b) PROVE CalmInv'
  <2> DEFINE t == RegisterUsed(tables, b)
  <2>1. /\ pc = "create" /\ mem[b] = Nil /\ Room(class.size)
        /\ mem' = [mem EXCEPT ![b] = class] /\ FinishAcquire(b, t)
    BY <1>7 DEF Create
  <2>2. TablesInv(t, mem', refs)
    BY <1>1, <1>2, <2>1, NewBlockInv
  <2>3. t.used_mem_by_block = tables.used_mem_by_block \cup {b}
    BY <1>1 DEF RegisterUsed, TablesInv, Tables
  <2>4. b \notin tables.used_mem_by_block
    BY <1>1, <2>1 DEF TablesInv, Owned
  <2> HIDE DEF t
  <2> QED
    BY <2>1, <2>2, <2>3, <2>4, FinishCalm
<1>8. CASE FailAcquire
  <2>1. /\ UNCHANGED <<ref_L, capacity, used, tables, refs, held>>
        /\ pc' = "idle" /\ class \in Class /\ ref_L
    BY <1>2, <1>8 DEF FailAcquire, Return, Goto, Proceed
  <2>2. CASE UNCHANGED mem
    BY <1>1, <1>4, <2>1, <2>2
  <2>3. ASSUME Room(class.size), NEW b \in Blocks \ Live, mem' = [mem EXCEPT ![b] = class]
        PROVE  CalmInv'
    <3>1. mem[b] = Nil
      BY <2>3 DEF Live
    <3>2. TablesInv(tables, mem', refs)
      BY <1>1, <2>1, <2>3, <3>1, NewBlockInv
    <3>3. AccountInv'
      BY <1>1, <2>1, <2>3, UnusedAccount
    <3> QED
      BY <2>1, <3>2, <3>3 DEF CalmInv, CalmTables, Plain, Pinned, Caching
  <2> QED
    BY <1>8, <2>2, <2>3 DEF FailAcquire
<1>9. CASE CacheLink
  <2>1. /\ pc = "cache_key" /\ pc' = "cache_head" /\ UNCHANGED <<class, old>>
        /\ tables' = LinkUnused(tables, class, old)
        /\ UNCHANGED <<ref_L, capacity, used, mem, refs, held>>
    BY <1>9 DEF CacheLink, Goto, Proceed
  <2>2. CalmTables(tables, mem, refs, "cache_key", old, class) /\ class \in Class /\ ref_L
    BY <1>2, <2>1 DEF CalmInv
  <2>3. /\ CalmTables(tables', mem, refs, "cache_head", old, class)
        /\ (tables').used_mem_by_block = tables.used_mem_by_block
    BY <2>1, <2>2, LinkCalm
  <2>4. AccountInv'
    BY <1>1, <2>1, <2>3, SameAccount
  <2> QED
    BY <2>1, <2>2, <2>3, <2>4 DEF CalmInv
<1>10. CASE CacheHead
  <2>1. /\ pc = "cache_head" /\ pc' = "idle"
        /\ tables' = [tables EXCEPT !.unused_mem_by_size[class] = old]
        /\ UNCHANGED <<ref_L, capacity, used, mem, refs, held>>
    BY <1>10 DEF CacheHead, Return, Goto, Proceed
  <2>2. CalmTables(tables, mem, refs, "cache_head", old, class) /\ class \in Class
    BY <1>2, <2>1 DEF CalmInv
  <2>3. /\ TablesInv(tables', mem, refs)
        /\ (tables').used_mem_by_block = tables.used_mem_by_block
    BY <2>1, <2>2, HeadCalm
  <2> QED
    BY <1>4, <2>1, <2>3
<1>11. CASE CacheFails
  BY <1>1, <1>4, <1>11 DEF CacheFails, Return, Goto, Proceed
<1> QED
  BY <1>5, <1>6, <1>7, <1>8, <1>9, <1>10, <1>11, CalmWhole, CalmStarts DEF Running

(***************************************************************************)
(* A finalizer that releases another block than the one the call is        *)
(* working on, and a collection.                                           *)
(***************************************************************************)
LEMMA StillFitsLess ==
  ASSUME StillFits, HoldingsTyped, UNCHANGED <<capacity, class, old>>,
         old # Nil => old \in (tables').used_mem_by_block /\ (mem')[old] = mem[old],
         class.size \in Nat, used' \in Nat, used' <= used
  PROVE  StillFits'
<1>1. used \in Nat /\ capacity \in Nat
  BY HeldFacts, LayoutAssumption DEF SizeT
<1>2. CASE old = Nil
  BY <1>1, <1>2 DEF StillFits
<1>3. CASE old # Nil
  <2>1. mem[old].size \in Nat
    BY <1>3, ClassFacts, LayoutAssumption DEF StillFits, HoldingsTyped, Tables, SizeT
  <2> QED
    BY <1>1, <1>3, <2>1 DEF StillFits
<1> QED
  BY <1>2, <1>3

LEMMA CalmRelease ==
  ASSUME LooseInv, CalmInv, ref_L, NEW b \in Blocks \ {old}, UNCHANGED <<pc, class, old>>,
         b \in tables.used_mem_by_block,
         used' = MinusT(used, mem[b].size), held' = held \ {b},
         UNCHANGED <<ref_L, capacity, mem>>,
         CalmTables(tables', mem, refs', pc, old, class),
         (tables').used_mem_by_block = tables.used_mem_by_block \ {b}
  PROVE  CalmInv'
<1>1. HoldingsTyped /\ AccountInv /\ held = tables.used_mem_by_block /\ used \in Nat
  BY CalmHolding DEF CalmInv
<1>2. AccountInv'
  BY <1>1, GiveUpAccount
<1>3. used' \in Nat /\ used' <= used
  <2>1. mem[b].size \in Nat /\ mem[b].size <= used
    BY <1>1, HeldFacts, ReleasedBytes
  <2> QED
    BY <1>1, <2>1 DEF MinusT
<1>4. pc \in {"take_key", "create"} => StillFits'
  <2> SUFFICES ASSUME pc \in {"take_key", "create"} PROVE StillFits'
    OBVIOUS
  <2>1. StillFits /\ class.size \in Nat
    BY CallFacts, ClassFacts, LayoutAssumption DEF CalmInv, LooseInv, SizeT
  <2>2. old # Nil => old \in (tables').used_mem_by_block /\ (mem')[old] = mem[old]
    BY <2>1 DEF StillFits
  <2> QED
    BY <1>1, <1>3, <2>1, <2>2, StillFitsLess
<1>5. CalmTables(tables', mem', refs', pc', old', class')
  OBVIOUS
<1> QED
  BY <1>2, <1>4, <1>5 DEF CalmInv

LEMMA CalmUntouched ==
  ASSUME CalmInv, UNCHANGED <<ref_L, capacity, used, tables, mem, held, pc, class, old>>,
         CalmTables(tables, mem, refs', pc, old, class)
  PROVE  CalmInv'
<1>1. AccountInv'
  BY SameAccount DEF CalmInv
<1>2. pc \in {"take_key", "create"} => StillFits'
  BY DEF CalmInv, StillFits
<1> QED
  BY <1>1, <1>2 DEF CalmInv

LEMMA CalmFinalizer ==
  ASSUME LooseInv, CalmInv, Finalizer, allocations' = 0
  PROVE  CalmInv'
<1>1. /\ ref_L /\ UNCHANGED <<pc, class, old>>
      /\ CalmTables(tables, mem, refs, pc, old, class)
      /\ handles = refs
  BY DEF Finalizer, CalmInv, LooseInv, LoosePool
<1>2. \/ \E b \in Blocks \ {old} : Free(b) \/ Detach(b)
      \/ \E b \in Blocks : MemFree(b)
  <2>1. allocations \in Nat
    BY CallFacts DEF LooseInv
  <2> QED
    BY <2>1 DEF Finalizer, FinalizerAllocates, FinalizerReleases, Others
<1>3. ASSUME NEW outcome, Answer(outcome) PROVE CalmInv'
  <2>1. UNCHANGED <<ref_L, capacity, used, tables, mem, held, refs>>
    BY <1>3 DEF Answer
  <2> QED
    BY <1>1, <2>1, CalmUntouched
<1>4. ASSUME NEW b \in Blocks \ {old}, b \in tables.used_mem_by_block,
             tables' \in Released(tables, mem[b], b),
             used' = MinusT(used, mem[b].size), held' = held \ {b},
             UNCHANGED <<ref_L, capacity, mem, refs, handles>>
      PROVE  CalmInv'
  <2>1. /\ CalmTables(tables', mem, refs', pc, old, class)
        /\ (tables').used_mem_by_block = tables.used_mem_by_block \ {b}
    BY <1>1, <1>4, ReleaseCalm
  <2> QED
    BY <1>1, <1>4, <2>1, CalmRelease
<1>5. ASSUME NEW b \in Blocks \ {old}, HandsOver(b) PROVE CalmInv'
  <2>1. /\ CalmTables(tables', mem, refs', pc, old, class)
        /\ (tables').used_mem_by_block = tables.used_mem_by_block \ {b}
    BY <1>1, <1>5, ForgetCalm DEF HandsOver
  <2> QED
    BY <1>1, <1>5, <2>1, CalmRelease DEF HandsOver
<1>6. ASSUME NEW b \in Blocks, MemFree(b) PROVE CalmInv'
  <2>1. CalmTables(tables, mem, refs', pc, old, class)
    BY <1>1, <1>6, UnrefCalm DEF MemFree
  <2> QED
    BY <1>1, <1>6, <2>1, CalmUntouched DEF MemFree
<1>7. ASSUME NEW b \in Blocks \ {old}, Free(b) PROVE CalmInv'
  BY <1>3, <1>4, <1>7 DEF Free
<1>8. ASSUME NEW b \in Blocks \ {old}, Detach(b) PROVE CalmInv'
  BY <1>3, <1>5, <1>8, DetachCases
<1> QED
  BY <1>2, <1>6, <1>7, <1>8

LEMMA CalmCollects ==
  ASSUME LooseInv, CalmInv, NEW D \in SUBSET Blocks, CollectReentrant(D)
  PROVE  CalmInv'
<1>1. /\ old \notin D /\ Collect(D) /\ UNCHANGED <<pc, class, old>>
      /\ D \in SUBSET (Blocks \ Owned(tables, refs))
      /\ mem' = [x \in Blocks |-> IF x \in D THEN Nil ELSE mem[x]]
      /\ tables' = Collected(tables, D)
      /\ UNCHANGED <<ref_L, capacity, used, refs, held>>
  BY DEF CollectReentrant, OnStack, callVars, Collect, Live, Reachable, Owned
<1>2. HoldingsTyped /\ AccountInv /\ tables \in Tables /\ used \in Nat
  BY CalmHolding DEF CalmInv, TablesInv
<1>3. /\ CalmTables(tables', mem', refs, pc, old, class)
      /\ (tables').used_mem_by_block = tables.used_mem_by_block
  BY <1>1, <1>2, CollectCalm DEF CalmInv
<1>4. AccountInv'
  BY <1>1, <1>2, CollectAccount
<1>5. pc \in {"take_key", "create"} => StillFits'
  <2> SUFFICES ASSUME pc \in {"take_key", "create"} PROVE StillFits'
    OBVIOUS
  <2>1. StillFits /\ class.size \in Nat
    BY CallFacts, ClassFacts, LayoutAssumption DEF CalmInv, LooseInv, SizeT
  <2>2. old # Nil => old \in (tables').used_mem_by_block /\ (mem')[old] = mem[old]
    BY <1>1, <1>2, <1>3, <2>1 DEF StillFits, Tables
  <2> QED
    BY <1>1, <1>2, <2>1, <2>2, StillFitsLess
<1> QED
  BY <1>1, <1>3, <1>4, <1>5 DEF CalmInv

-----------------------------------------------------------------------------
LEMMA ReentryStart == ReentryInit => ReentryInv
<1> SUFFICES ASSUME ReentryInit PROVE ReentryInv
  OBVIOUS
<1>1. LooseInv /\ Init /\ pc = "idle" /\ SharedInv
  BY LooseInit DEF ReentryInit, SharedInv
<1>2. StructInv /\ AccountInv
  BY <1>1, StructInit, AccountInit
<1> QED
  BY <1>1, <1>2, IdleCalm DEF ReentryInv

LEMMA ReentryStep == ReentryInv /\ [ReentryNext]_allVars => ReentryInv'
<1> SUFFICES ASSUME ReentryInv, [ReentryNext]_allVars PROVE ReentryInv'
  OBVIOUS
<1>1. LooseInv /\ LooseInv' /\ SharedInv'
  BY LooseStep, SharedStep DEF ReentryInv
<1>2. allocations \in Nat /\ allocations' = 0 => allocations = 0
  <2>1. allocations' = allocations \/ allocations' = allocations + 1
    BY DEF ReentryNext, Running, Whole, StartAlloc, StartResize, StartFree, Take, Create,
           FinishAcquire, FailAcquire, CacheLink, CacheHead, CacheFails, Return, Goto,
           Proceed, Finalizer, FinalizerAllocates, FinalizerReleases, CollectReentrant,
           callVars, allVars
  <2> QED
    BY <2>1
<1>3. allocations \in Nat
  BY <1>1, CallFacts DEF LooseInv
<1>4. ASSUME allocations' = 0 PROVE CalmInv'
  <2>1. CalmInv
    BY <1>2, <1>3, <1>4 DEF ReentryInv
  <2>2. CASE Running
    BY <1>1, <2>1, <2>2, CalmRunning
  <2>3. CASE Finalizer
    BY <1>1, <1>4, <2>1, <2>3, CalmFinalizer
  <2>4. ASSUME NEW D \in SUBSET Blocks, CollectReentrant(D) PROVE CalmInv'
    BY <1>1, <2>1, <2>4, CalmCollects
  <2>5. CASE UNCHANGED allVars
    <3>1. UNCHANGED <<ref_L, capacity, used, tables, mem, refs, held, pc, class, old>>
      BY <2>5 DEF allVars, vars, callVars
    <3>2. CalmTables(tables, mem, refs', pc, old, class)
      BY <2>1, <3>1 DEF CalmInv
    <3> QED
      BY <2>1, <3>1, <3>2, CalmUntouched
  <2> QED
    BY <2>2, <2>3, <2>4, <2>5 DEF ReentryNext
<1> QED
  BY <1>1, <1>4 DEF ReentryInv

(***************************************************************************)
(* Wherever a call is interrupted, by whatever collections and pool calls  *)
(* the model lets a finalizer make, the pool and the call keep their types *)
(* and the call knows what it is working on.                               *)
(***************************************************************************)
THEOREM ReentryTypeCorrect == ReentrySpec => []ReentryTypeOK
<1>1. ReentryInv => ReentryTypeOK
  <2> SUFFICES ASSUME ReentryInv PROVE ReentryTypeOK
    OBVIOUS
  <2>1. LooseInv /\ shared \subseteq Blocks
    BY DEF ReentryInv, SharedInv
  <2>2. TypeOK
    BY <2>1, LooseFacts DEF LooseInv, LoosePool, Scalars, TypeOK
  <2> QED
    BY <2>1, <2>2 DEF LooseInv, CallInv, ReentryTypeOK
<1> QED
  BY <1>1, ReentryStart, ReentryStep, PTL DEF ReentrySpec

(***************************************************************************)
(* No collection inside a call frees what somebody still uses: the block   *)
(* that the call itself is resizing or caching, which no table names any   *)
(* more, and a held pointer or detached block with one holder.  Two        *)
(* holders, of which the books remember one, appear only after a finalizer *)
(* has allocated or resized: while finalizers release, no block is handed  *)
(* out that somebody has.                                                  *)
(***************************************************************************)
THEOREM UsedNeverCollected == ReentrySpec => []NothingUsedIsCollected
<1>1. ReentryInv => NothingUsedIsCollected
  <2> SUFFICES ASSUME ReentryInv PROVE NothingUsedIsCollected
    OBVIOUS
  <2>1. LooseInv /\ SharedInv
    BY DEF ReentryInv
  <2>2. held \cup handles \subseteq Live
    BY <2>1, LooseFacts DEF LooseInv, LoosePool, Live
  <2>3. WorkedOnAlive
    BY <2>1 DEF LooseInv, CallInv, WorkedOnAlive
  <2> QED
    BY <2>1, <2>2, <2>3 DEF NothingUsedIsCollected, SharedInv
<1> QED
  BY <1>1, ReentryStart, ReentryStep, PTL DEF ReentrySpec

(***************************************************************************)
(* As long as finalizers only release memory, whichever calls they         *)
(* interrupt and wherever, pool->used is the number of bytes the caller    *)
(* holds and within the capacity, the chains are well formed and no head   *)
(* of a chain is in use, detached or dead.  A capacity tested before the   *)
(* interruption and a head read before it are not stale for it.            *)
(***************************************************************************)
THEOREM ReleasesDoNoHarm == ReentrySpec => []ReleasesHarmless
<1>1. ReentryInv => ReleasesHarmless
  <2> SUFFICES ASSUME ReentryInv, allocations = 0
               PROVE  UsedIsHeldBytes /\ CapacityRespected /\ ChainsSound /\ HeadsUnused
    BY DEF ReleasesHarmless, ReleasesKeepAccounts, ReleasesKeepChains
  <2>1. CalmInv /\ LooseInv
    BY DEF ReentryInv
  <2>2. TablesInv(tables, mem, refs)
    BY <2>1, CalmHolding
  <2>3. ChainsSound
    BY <2>2 DEF TablesInv, ChainsSound, Owned
  <2>4. HeadsUnused
    BY <2>2, HeadIsIdle DEF HeadsUnused, Owned
  <2> QED
    BY <2>1, <2>3, <2>4 DEF CalmInv, AccountInv
<1> QED
  BY <1>1, ReentryStart, ReentryStep, PTL DEF ReentrySpec
=============================================================================
