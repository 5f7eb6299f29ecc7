--------------------------- MODULE PoolLuaProofs ---------------------------
(***************************************************************************)
(* Safety of the Lua bridge and of who deletes a pool, on every Lua        *)
(* version: for every set of blocks, sizes, offsets and word size, and any *)
(* order of calls, failures, collections and finalizers.                   *)
(***************************************************************************)
EXTENDS PoolLua, PoolProofs

-----------------------------------------------------------------------------
(* The owners *)

\* What a creation has made at each of its points; nothing else exists yet.
Creating(p, objects, chain) ==
    point = p => alive = objects /\ armed = {"owner"} /\ links = chain

\* The inductive invariant of PoolOwner.  An owner that knows the pool has its
\* whole chain alive and is the only object with a finalizer; before it knows
\* the pool, or without an owner, the pool's userdata has one.
OwnerInv ==
    /\ OwnerTypeOK
    /\ IF point = "idle" THEN stack = {}
       ELSE due = {} /\ kept = {} /\ ~pointer
    /\ Creating("table", {"owner"}, {})
    /\ Creating("open", {"owner", "uservalue"}, {<<"owner", "uservalue">>})
    /\ Creating("connect", Objects, {<<"owner", "uservalue">>})
    /\ point \in {"table", "open"} => stack = {"owner"} /\ ~ref_L
    /\ point = "connect" => stack = {"owner", "pool"}
    /\ point = "metatable" =>
          alive = {"pool"} /\ stack = {"pool"} /\ armed = {} /\ links = {}
    /\ pointer =>
          /\ alive = Objects /\ armed \cup due = {"owner"}
          /\ {<<"owner", "uservalue">>, <<"uservalue", "pool">>} \subseteq links
    /\ SomeoneDeletes

(***************************************************************************)
(* What is reachable from S is S and objects that exist.                   *)
(***************************************************************************)
LEMMA KeptByBounds ==
  ASSUME NEW S
  PROVE  S \subseteq KeptBy(S) /\ KeptBy(S) \subseteq S \cup alive
  BY DEF KeptBy, WithLinked

LEMMA ChainKept ==
  ASSUME alive = Objects, NEW S, "owner" \in S,
         <<"owner", "uservalue">> \in links, <<"uservalue", "pool">> \in links
  PROVE  Objects \subseteq KeptBy(S)
<1>1. "owner" \in WithLinked(S) /\ "uservalue" \in WithLinked(S)
  BY DEF WithLinked, Objects
<1>2. "owner" \in KeptBy(S) /\ "uservalue" \in KeptBy(S)
  BY <1>1 DEF KeptBy, WithLinked
<1>3. "pool" \in KeptBy(S)
  <2> DEFINE W == WithLinked(S)
  <2> HIDE DEF W
  <2>1. "pool" \in WithLinked(W)
    BY <1>1 DEF WithLinked, Objects, W
  <2> QED
    BY <2>1 DEF KeptBy, W
<1> QED
  BY <1>2, <1>3 DEF Objects

LEMMA OwnerStart == OwnerInit /\ ~ref_L => OwnerInv
  BY DEF OwnerInit, OwnerInv, OwnerTypeOK, OwnerPoints, Objects, Creating, SomeoneDeletes

LEMMA OwnerSame ==
  ASSUME OwnerInv, UNCHANGED <<ownerVars, ref_L>>
  PROVE  OwnerInv'
  BY DEF OwnerInv, OwnerTypeOK, ownerVars, Creating, SomeoneDeletes

\* Nothing refers to what does not exist.
LEMMA EmptyHeap ==
  ASSUME OwnerInv, alive = {}
  PROVE  stack = {} /\ kept = {} /\ armed = {} /\ due = {} /\ links = {} /\ pointer = FALSE
<1>1. OwnerTypeOK /\ (pointer => alive = Objects)
  BY DEF OwnerInv
<1> QED
  BY <1>1 DEF OwnerTypeOK, Objects

\* The parts of ir_new_protected: a failure leaves an owner whose finalizer finds
\* no pool.
LEMMA CreationFailsStep ==
  ASSUME OwnerInv, point \in {"table", "open"}, CreationFails, ~ref_L'
  PROVE  OwnerInv'
<1>1. OwnerTypeOK /\ pointer = FALSE
  BY DEF OwnerInv, OwnerTypeOK
<1>2. /\ point' = "idle" /\ stack' = {}
      /\ UNCHANGED <<alive, kept, armed, due, links, pointer>>
  BY DEF CreationFails
<1>3. OwnerTypeOK'
  BY <1>1, <1>2 DEF OwnerTypeOK, OwnerPoints
<1> QED
  BY <1>1, <1>2, <1>3 DEF OwnerInv, Creating, SomeoneDeletes

LEMMA NewOwnerStep ==
  ASSUME OwnerInv, NewOwner
  PROVE  OwnerInv'
<1>1. CASE UNCHANGED <<ownerVars, ref_L>>
  BY <1>1, OwnerSame
<1>2. CASE /\ Answer("ok")
           /\ alive' = {"owner"} /\ stack' = {"owner"} /\ armed' = {"owner"}
           /\ point' = "table"
           /\ UNCHANGED <<kept, due, links, pointer>>
  <2>1. /\ kept' = {} /\ due' = {} /\ links' = {} /\ pointer' = FALSE /\ ~ref_L'
        /\ point' = "table"
    BY <1>2, EmptyHeap DEF NewOwner, Answer
  <2>2. OwnerTypeOK'
    BY <1>2, <2>1 DEF OwnerTypeOK, OwnerPoints, Objects
  <2> QED
    BY <1>2, <2>1, <2>2 DEF OwnerInv, Creating, SomeoneDeletes
<1> QED
  BY <1>1, <1>2 DEF NewOwner, Answer

LEMMA NewUservalueStep ==
  ASSUME OwnerInv, NewUservalue
  PROVE  OwnerInv'
<1>1. /\ point = "table" /\ alive = {"owner"} /\ armed = {"owner"} /\ links = {}
      /\ stack = {"owner"} /\ ~ref_L /\ due = {} /\ kept = {} /\ pointer = FALSE
  BY DEF NewUservalue, OwnerInv, OwnerTypeOK, Creating
<1>2. CASE /\ Answer("ok")
           /\ alive' = alive \cup {"uservalue"}
           /\ links' = links \cup {<<"owner", "uservalue">>}
           /\ point' = "open"
           /\ UNCHANGED <<stack, kept, armed, due, pointer>>
  <2>1. /\ kept' = {} /\ due' = {} /\ pointer' = FALSE /\ ~ref_L'
        /\ point' = "open" /\ alive' = {"owner", "uservalue"} /\ armed' = {"owner"}
        /\ links' = {<<"owner", "uservalue">>} /\ stack' = {"owner"}
    BY <1>1, <1>2 DEF Answer
  <2>a. links' \subseteq alive' \X alive'
    BY <2>1
  <2>2. OwnerTypeOK'
    BY <2>1, <2>a DEF OwnerTypeOK, OwnerPoints, Objects
  <2> QED
    BY <2>1, <2>2 DEF OwnerInv, Creating, SomeoneDeletes
<1> QED
  BY <1>1, <1>2, CreationFailsStep DEF NewUservalue, Answer

LEMMA OpenPoolStep ==
  ASSUME OwnerInv, OpenPool
  PROVE  OwnerInv'
<1>1. /\ point = "open" /\ alive = {"owner", "uservalue"} /\ armed = {"owner"}
      /\ links = {<<"owner", "uservalue">>}
      /\ stack = {"owner"} /\ due = {} /\ kept = {} /\ pointer = FALSE
  BY DEF OpenPool, OwnerInv, OwnerTypeOK, Creating
<1>2. CASE ref_L' = TRUE
  <2>1. /\ kept' = {} /\ due' = {} /\ pointer' = FALSE
        /\ point' = "connect" /\ alive' = Objects /\ armed' = {"owner"}
        /\ links' = {<<"owner", "uservalue">>} /\ stack' = {"owner", "pool"}
    BY <1>1, <1>2 DEF OpenPool, Objects
  <2>a. links' \subseteq alive' \X alive'
    BY <2>1 DEF Objects
  <2>2. OwnerTypeOK'
    BY <2>1, <2>a DEF OwnerTypeOK, OwnerPoints, Objects
  <2> QED
    BY <2>1, <2>2 DEF OwnerInv, Creating, SomeoneDeletes
<1>3. CASE ref_L' = FALSE
  BY <1>1, <1>3, CreationFailsStep DEF OpenPool
<1>4. ref_L' = TRUE \/ ref_L' = FALSE
  BY DEF OpenPool, New, Answer
<1> QED
  BY <1>2, <1>3, <1>4

LEMMA ConnectStep ==
  ASSUME OwnerInv, Connect
  PROVE  OwnerInv'
<1>1. /\ point = "connect" /\ alive = Objects /\ armed = {"owner"} /\ due = {}
      /\ links = {<<"owner", "uservalue">>}
  BY DEF Connect, OwnerInv, Creating
<1>2. /\ kept' = {"owner"} /\ due' = {} /\ pointer' = TRUE /\ stack' = {}
      /\ point' = "idle" /\ alive' = Objects /\ armed' = {"owner"}
      /\ links' = {<<"owner", "uservalue">>, <<"uservalue", "pool">>}
  BY <1>1 DEF Connect
<1>3. OwnerTypeOK'
  BY <1>2 DEF OwnerTypeOK, OwnerPoints, Objects
<1> QED
  BY <1>2, <1>3 DEF OwnerInv, Creating, SomeoneDeletes

LEMMA NewLuaStep ==
  ASSUME OwnerInv, NEW cap, NewLua(cap)
  PROVE  OwnerInv'
<1>1. CASE ref_L' = TRUE
  <2>1. /\ kept' = {} /\ due' = {} /\ pointer' = FALSE /\ links' = {} /\ armed' = {}
        /\ point' = "metatable" /\ alive' = {"pool"} /\ stack' = {"pool"}
    BY <1>1, EmptyHeap DEF NewLua
  <2>2. OwnerTypeOK'
    BY <2>1 DEF OwnerTypeOK, OwnerPoints, Objects
  <2> QED
    BY <2>1, <2>2 DEF OwnerInv, Creating, SomeoneDeletes
<1>2. CASE ref_L' = FALSE
  BY <1>2, OwnerSame DEF NewLua, New, Answer
<1>3. ref_L' = TRUE \/ ref_L' = FALSE
  BY DEF NewLua, New, Answer
<1> QED
  BY <1>1, <1>2, <1>3

LEMMA SetMetatableStep ==
  ASSUME OwnerInv, SetMetatable
  PROVE  OwnerInv'
<1>1. /\ point = "metatable" /\ alive = {"pool"} /\ due = {} /\ links = {}
      /\ pointer = FALSE
  BY DEF SetMetatable, OwnerInv, OwnerTypeOK
<1>2. /\ kept' = {"pool"} /\ due' = {} /\ pointer' = FALSE /\ links' = {}
      /\ armed' = {"pool"} /\ point' = "idle" /\ alive' = {"pool"} /\ stack' = {}
  BY <1>1 DEF SetMetatable
<1>3. OwnerTypeOK'
  BY <1>2 DEF OwnerTypeOK, OwnerPoints, Objects
<1> QED
  BY <1>2, <1>3 DEF OwnerInv, Creating, SomeoneDeletes

\* A collection while a creation runs finds nothing: all there is is on its stack,
\* or hangs on what is.
LEMMA SweepStep ==
  ASSUME OwnerInv, Sweep
  PROVE  OwnerInv'
<1> DEFINE reached == KeptBy(stack \cup kept \cup due)
           newlyDue == armed \ reached
           rest == KeptBy(reached \cup newlyDue)
<1>1. /\ alive # rest \/ newlyDue # {}
      /\ due' = due \cup newlyDue /\ armed' = armed \ newlyDue
      /\ alive' = rest /\ links' = links \cap (rest \X rest)
      /\ UNCHANGED <<poolVars, point, stack, kept, pointer>>
  BY DEF Sweep
<1>2. OwnerTypeOK
  BY DEF OwnerInv
<1>3. /\ stack \cup kept \cup due \subseteq reached /\ reached \subseteq alive
      /\ reached \cup newlyDue \subseteq rest /\ rest \subseteq alive
  <2> DEFINE roots == stack \cup kept \cup due
  <2> HIDE DEF roots
  <2>1. roots \subseteq KeptBy(roots) /\ KeptBy(roots) \subseteq roots \cup alive
    BY KeptByBounds
  <2>2. roots \subseteq alive /\ armed \subseteq alive
    BY <1>2 DEF OwnerTypeOK, roots
  <2>3. reached = KeptBy(roots)
    BY DEF roots
  <2> HIDE DEF reached
  <2> DEFINE more == reached \cup newlyDue
  <2> HIDE DEF more
  <2>4. more \subseteq KeptBy(more) /\ KeptBy(more) \subseteq more \cup alive
    BY KeptByBounds
  <2>5. rest = KeptBy(more)
    BY DEF more
  <2> HIDE DEF rest
  <2> QED
    BY <2>1, <2>2, <2>3, <2>4, <2>5 DEF roots, more
<1>4. point = "idle"
  <2> SUFFICES ASSUME point # "idle" PROVE reached = alive
    BY <1>1, <1>2, <1>3 DEF OwnerTypeOK
  <2>1. CASE point = "table" \/ point = "metatable"
    BY <1>3, <2>1 DEF OwnerInv, Creating
  <2>2. CASE point = "open" \/ point = "connect"
    <3>1. /\ "owner" \in stack /\ <<"owner", "uservalue">> \in links
          /\ "uservalue" \in alive
          /\ alive \subseteq stack \cup {"uservalue"}
      BY <2>2 DEF OwnerInv, Creating, Objects
    <3>2. "uservalue" \in WithLinked(stack \cup kept \cup due)
      BY <3>1 DEF WithLinked
    <3>3. "uservalue" \in reached
      BY <3>2 DEF KeptBy, WithLinked
    <3> QED
      BY <1>3, <3>1, <3>3
  <2> QED
    BY <1>2, <2>1, <2>2 DEF OwnerTypeOK, OwnerPoints
<1>5. OwnerTypeOK'
  <2> HIDE DEF reached, newlyDue, rest
  <2>1. newlyDue = armed \ reached
    BY DEF newlyDue
  <2> QED
    BY <1>1, <1>2, <1>3, <2>1 DEF OwnerTypeOK
<1>6. pointer => /\ alive' = Objects /\ (armed \cup due)' = {"owner"}
                 /\ {<<"owner", "uservalue">>, <<"uservalue", "pool">>} \subseteq links'
  <2> SUFFICES ASSUME pointer
               PROVE  /\ alive' = Objects /\ (armed \cup due)' = {"owner"}
                      /\ {<<"owner", "uservalue">>, <<"uservalue", "pool">>} \subseteq links'
    OBVIOUS
  <2>1. /\ alive = Objects /\ armed \cup due = {"owner"}
        /\ <<"owner", "uservalue">> \in links /\ <<"uservalue", "pool">> \in links
    BY DEF OwnerInv
  <2> HIDE DEF reached, newlyDue
  <2>2. "owner" \in reached \cup newlyDue
    BY <1>3, <2>1 DEF newlyDue
  <2>3. Objects \subseteq rest
    BY <2>1, <2>2, ChainKept
  <2> HIDE DEF rest
  <2>4. rest = Objects
    BY <1>3, <2>1, <2>3
  <2>5. (armed \cup due)' = armed \cup due
    BY <1>1, <1>3 DEF newlyDue
  <2> QED
    BY <1>1, <2>1, <2>4, <2>5 DEF Objects
<1> HIDE DEF reached, newlyDue, rest
<1>7. (armed \cup due)' = armed \cup due
  BY <1>1, <1>3 DEF newlyDue
<1>8. SomeoneDeletes'
  BY <1>1, <1>7 DEF OwnerInv, SomeoneDeletes, poolVars
<1> QED
  BY <1>1, <1>4, <1>5, <1>6, <1>8 DEF OwnerInv, Creating

\* The finalizer of the only object that knows the pool deletes it.
LEMMA FinalizeStep ==
  ASSUME OwnerInv, NEW o \in Objects, Finalize(o)
  PROVE  OwnerInv'
<1>1. /\ o \in due /\ due' = due \ {o} /\ pointer' = FALSE
      /\ UNCHANGED <<point, alive, stack, kept, armed, links>>
  BY DEF Finalize
<1>2. point = "idle"
  BY <1>1 DEF OwnerInv
<1>3. OwnerTypeOK'
  BY <1>1 DEF OwnerInv, OwnerTypeOK
<1>4. SomeoneDeletes'
  <2>1. CASE o = "pool" \/ pointer
    BY <2>1 DEF Finalize, Deletes, Delete, SomeoneDeletes
  <2>2. CASE o # "pool" /\ ~pointer
    <3>1. UNCHANGED ref_L
      BY <2>2 DEF Finalize, Deletes, Answer
    <3> QED
      BY <1>1, <2>2, <3>1 DEF OwnerInv, SomeoneDeletes
  <2> QED
    BY <2>1, <2>2
<1> QED
  BY <1>1, <1>2, <1>3, <1>4 DEF OwnerInv, Creating

LEMMA OwnerStep ==
  ASSUME OwnerInv, OwnerNext
  PROVE  OwnerInv'
<1>1. CASE Drop
  BY <1>1 DEF Drop, OwnerInv, OwnerTypeOK, Creating, SomeoneDeletes, poolVars
<1>2. CASE Elsewhere
  BY <1>2, OwnerSame DEF Elsewhere, poolVars
<1> QED
  BY <1>1, <1>2, NewOwnerStep, NewUservalueStep, OpenPoolStep, ConnectStep, NewLuaStep,
     SetMetatableStep, SweepStep, FinalizeStep DEF OwnerNext

-----------------------------------------------------------------------------
(* The bridge *)

\* The detached blocks, which only references and Lua values keep from the collector.
Detached == refs \cup values

\* The inductive invariant of PoolLua: the pool is sound over the detached blocks,
\* and a registry reference exists only while detach_lua has its block at hand.
BridgeInv ==
    /\ SoundOver(Detached)
    /\ OwnerInv
    /\ errno \in {"ok", "EINVAL", "ENOMEM"}
    /\ answer \in {"none", "value", "refused"}
    /\ moving \in Blocks \cup {Nil}
    /\ values \subseteq Blocks
    /\ outside = FALSE
    /\ refs = IF moving = Nil THEN {} ELSE {moving}
    /\ refs \cap values = {}
    /\ answer # "none" => (answer = "refused" <=> status # "ok")

(***************************************************************************)
(* A call that leaves the detached blocks alone, whatever else it does.    *)
(***************************************************************************)
LEMMA BridgeFrame ==
  ASSUME BridgeInv, NEW r, r = Detached, SoundOver(r)', OwnerInv',
         UNCHANGED <<moving, refs, values>>, outside' = FALSE,
         errno' \in {"ok", "EINVAL", "ENOMEM"},
         answer' \in {"none", "value", "refused"},
         answer' # "none" => (answer' = "refused" <=> status' # "ok")
  PROVE  BridgeInv'
<1>1. SoundOver(Detached)'
  BY DEF Detached, SoundOver
<1> QED
  BY <1>1 DEF BridgeInv

LEMMA StatusTypes ==
  ASSUME NEW r, SoundOver(r)'
  PROVE  status' \in {"ok", "EINVAL", "ENOMEM"}
  BY DEF SoundOver, Scalars

LEMMA TellsTruly ==
  ASSUME status' \in {"ok", "EINVAL", "ENOMEM"}, Told
  PROVE  /\ answer' \in {"none", "value", "refused"}
         /\ answer' # "none" => (answer' = "refused" <=> status' # "ok")
  BY DEF Told

LEMMA ErrnoTypes ==
  ASSUME status' \in {"ok", "EINVAL", "ENOMEM"},
         NEW before \in {"ok", "EINVAL", "ENOMEM"}, ErrnoAfter(before)
  PROVE  errno' \in {"ok", "EINVAL", "ENOMEM"}
  BY DEF ErrnoAfter

LEMMA AllocateEffect ==
  ASSUME NEW c, Allocate(c)
  PROVE  UNCHANGED <<ref_L, refs>>
  BY DEF Allocate, Answer, AcquireFails

LEMMA FreeEffect ==
  ASSUME NEW b, Free(b)
  PROVE  UNCHANGED <<ref_L, refs>>
  BY DEF Free, Answer

LEMMA ReallocEffect ==
  ASSUME NEW b, NEW size, Realloc(b, size)
  PROVE  UNCHANGED <<ref_L, refs>>
  BY AllocateEffect, FreeEffect DEF Realloc, Resize, Move, Answer, AcquireFails

LEMMA AlignedAllocEffect ==
  ASSUME NEW size, NEW alignment, AlignedAlloc(size, alignment)
  PROVE  UNCHANGED <<ref_L, refs>>
  BY AllocateEffect DEF AlignedAlloc, Answer

LEMMA CallocEffect ==
  ASSUME NEW count, NEW size, Calloc(count, size)
  PROVE  UNCHANGED <<ref_L, refs>>
  BY AllocateEffect DEF Calloc, Answer

(***************************************************************************)
(* The methods.                                                            *)
(***************************************************************************)
LEMMA BridgeFacts ==
  ASSUME BridgeInv
  PROVE  /\ SoundOver(Detached) /\ OwnerInv /\ outside = FALSE
         /\ errno \in {"ok", "EINVAL", "ENOMEM"}
         /\ refs \subseteq Blocks /\ values \subseteq Blocks
  BY DEF BridgeInv

LEMMA AllocMethodStep ==
  ASSUME BridgeInv, AllocMethod
  PROVE  BridgeInv'
<1> PICK r : r = Detached
  OBVIOUS
<1>1. SoundOver(r)
  BY BridgeFacts
<1>2. SoundOver(r)' /\ UNCHANGED <<ref_L, refs>>
  BY <1>1, AlignedAllocSound, CallocSound, AlignedAllocEffect, CallocEffect DEF AllocMethod
<1>3. OwnerInv'
  BY <1>2, OwnerSame, BridgeFacts DEF AllocMethod, Bridge
<1>4. errno' \in {"ok", "EINVAL", "ENOMEM"}
  BY <1>2, StatusTypes, ErrnoTypes, BridgeFacts DEF AllocMethod
<1> QED
  BY <1>2, <1>3, <1>4, StatusTypes, TellsTruly, BridgeFrame, BridgeFacts DEF AllocMethod

LEMMA FreeMethodStep ==
  ASSUME BridgeInv, NEW b \in Blocks \cup {Nil}, FreeMethod(b)
  PROVE  BridgeInv'
<1> PICK r : r = Detached
  OBVIOUS
<1>1. SoundOver(r)
  BY BridgeFacts
<1>2. SoundOver(r)' /\ UNCHANGED <<ref_L, refs>>
  BY <1>1, FreeSound, FreeEffect DEF FreeMethod
<1>3. OwnerInv'
  BY <1>2, OwnerSame, BridgeFacts DEF FreeMethod, Bridge
<1>4. errno' \in {"ok", "EINVAL", "ENOMEM"}
  BY <1>2, StatusTypes, BridgeFacts DEF FreeMethod
<1> QED
  BY <1>2, <1>3, <1>4, StatusTypes, TellsTruly, BridgeFrame, BridgeFacts DEF FreeMethod

\* A NULL from pool_realloc is a failure unless the call was a release and errno,
\* cleared before the call, is still clear.
LEMMA ReallocMethodStep ==
  ASSUME BridgeInv, NEW b \in Blocks \cup {Nil}, NEW size \in Sizes,
         ReallocMethod(b, size)
  PROVE  BridgeInv'
<1> PICK r : r = Detached
  OBVIOUS
<1>1. SoundOver(r)
  BY BridgeFacts
<1>2. SoundOver(r)' /\ UNCHANGED <<ref_L, refs>>
  BY <1>1, ReallocSound, ReallocEffect DEF ReallocMethod
<1>3. OwnerInv'
  BY <1>2, OwnerSame, BridgeFacts DEF ReallocMethod, Bridge
<1>s. status' \in {"ok", "EINVAL", "ENOMEM"}
  BY <1>2, StatusTypes
<1>4. errno' \in {"ok", "EINVAL", "ENOMEM"}
  BY <1>s DEF ReallocMethod, ReallocBefore, ErrnoAfter
<1>5. /\ answer' \in {"none", "value", "refused"}
      /\ answer' # "none" => (answer' = "refused" <=> status' # "ok")
  <2>1. CASE b # Nil /\ size = 0
    BY <2>1, <1>s DEF ReallocMethod, ReallocBefore
  <2>2. CASE ~(b # Nil /\ size = 0)
    BY <2>2, <1>s DEF ReallocMethod
  <2> QED
    BY <2>1, <2>2
<1>6. outside' = FALSE /\ UNCHANGED <<moving, refs, values>>
  BY <1>2, BridgeFacts DEF ReallocMethod
<1> QED
  BY <1>2, <1>3, <1>4, <1>5, <1>6, BridgeFrame

\* The block that is detached was used, so it is no Lua value yet.
LEMMA DetachMethodStep ==
  ASSUME BridgeInv, NEW b \in Blocks \cup {Nil}, DetachMethod(b)
  PROVE  BridgeInv'
<1> PICK r : r = Detached
  OBVIOUS
<1>1. SoundOver(r) /\ moving = Nil /\ refs = {}
  BY BridgeFacts DEF DetachMethod, Bridge, Quiet, BridgeInv
<1>2. CASE \E outcome \in {"EINVAL", "ENOMEM"} : Answer(outcome)
  <2>1. SoundOver(r)' /\ UNCHANGED <<ref_L, refs>> /\ status' # "ok"
    BY <1>1, <1>2, AnswerSound DEF Answer
  <2>2. OwnerInv'
    BY <2>1, OwnerSame, BridgeFacts DEF DetachMethod, Bridge
  <2>3. errno' \in {"ok", "EINVAL", "ENOMEM"}
    BY <2>1, StatusTypes, ErrnoTypes, BridgeFacts DEF DetachMethod
  <2> QED
    BY <1>1, <2>1, <2>2, <2>3, StatusTypes, TellsTruly, BridgeFrame, BridgeFacts
       DEF DetachMethod
<1>3. CASE HandsOver(b)
  <2>1. SoundOver(r \cup {b})' /\ UNCHANGED ref_L /\ refs' = {b} /\ status' = "ok"
    BY <1>1, <1>3, HandsOverSound DEF HandsOver
  <2>2. OwnerInv'
    BY <2>1, OwnerSame, BridgeFacts DEF DetachMethod, Bridge
  <2>3. errno' \in {"ok", "EINVAL", "ENOMEM"}
    BY <2>1, StatusTypes, ErrnoTypes, BridgeFacts DEF DetachMethod
  <2>4. b \in Blocks /\ b # Nil /\ b \notin values
    BY <1>1, <1>3, SoundTypes, TablesAssumption DEF HandsOver, Detached
  <2>5. moving' = b /\ UNCHANGED <<values, outside>>
    BY <2>1 DEF DetachMethod
  <2>6. r \cup {b} = Detached'
    BY <1>1, <2>1, <2>5 DEF Detached
  <2>7. SoundOver(Detached)'
    BY <2>1, <2>6 DEF SoundOver
  <2>8. answer' = "value"
    BY <2>1 DEF DetachMethod, Told
  <2> QED
    BY <1>1, <2>1, <2>2, <2>3, <2>4, <2>5, <2>7, <2>8 DEF BridgeInv
<1> QED
  BY <1>2, <1>3, DetachCases DEF DetachMethod

LEMMA TransferStep ==
  ASSUME BridgeInv, Transfer
  PROVE  BridgeInv'
<1>1. moving # Nil /\ refs = {moving} /\ moving \in Blocks
  BY DEF Transfer, BridgeInv
<1>2. refs' = {} /\ values' = values \cup {moving} /\ moving' = Nil
  BY <1>1 DEF Transfer
<1>3. UNCHANGED <<Detached, ref_L, capacity, used, tables, mem, held, handles, status,
                  ownerVars, errno, answer, outside>>
  BY <1>1, <1>2 DEF Transfer, Detached
<1>4. SoundOver(Detached)'
  BY <1>3 DEF BridgeInv, SoundOver, Scalars
<1>5. OwnerInv'
  BY <1>3, OwnerSame DEF BridgeInv
<1> QED
  BY <1>1, <1>2, <1>3, <1>4, <1>5 DEF BridgeInv

LEMMA DropValueStep ==
  ASSUME BridgeInv, NEW b \in Blocks, DropValue(b)
  PROVE  BridgeInv'
<1> PICK r : r = Detached
  OBVIOUS
<1>1. SoundOver(r)
  BY BridgeFacts
<1>2. SoundOver(r \ {b})'
  BY <1>1, UnrefSound DEF DropValue, SoundOver, Scalars
<1>3. b \in values /\ refs \cap values = {}
  BY DEF DropValue, BridgeInv
<1>4. values' = values \ {b} /\ UNCHANGED <<refs, ref_L, errno, moving, outside, ownerVars>>
  BY DEF DropValue
<1>5. r \ {b} = Detached'
  BY <1>3, <1>4 DEF Detached
<1>6. SoundOver(Detached)'
  BY <1>2, <1>5 DEF SoundOver
<1>7. OwnerInv'
  BY <1>4, OwnerSame, BridgeFacts
<1>8. answer' = "none"
  BY DEF DropValue
<1> QED
  BY <1>4, <1>6, <1>7, <1>8 DEF BridgeInv

(***************************************************************************)
(* read, write and is_aligned: neither subtraction wraps, because the      *)
(* offset is compared first, and what is in the used table is alive.       *)
(***************************************************************************)
LEMMA AccessStep ==
  ASSUME BridgeInv, NEW b \in Blocks, NEW offset \in Positions, NEW count \in Positions,
         Access(b, offset, count)
  PROVE  BridgeInv'
<1> PICK r : r = Detached
  OBVIOUS
<1>1. SoundOver(r)
  BY BridgeFacts
<1>2. PICK outcome \in {"ok", "EINVAL"} : Answer(outcome)
  BY DEF Access
<1>3. SoundOver(r)' /\ UNCHANGED <<ref_L, refs>>
  BY <1>1, <1>2, AnswerSound DEF Answer
<1>4. OwnerInv'
  BY <1>3, OwnerSame, BridgeFacts DEF Access, Bridge
<1>5. ASSUME b \in tables.used_mem_by_block, InBlock(mem[b].size, offset, count)
      PROVE  b \in Live /\ offset + count <= mem[b].size
  <2>1. mem[b] # Nil /\ mem[b].size \in SizeT
    BY <1>1, <1>5, SoundTypes, ClassFacts
  <2>2. offset \in Nat /\ count \in Nat /\ mem[b].size \in Nat
    BY <2>1, PositionsAssumption, LayoutAssumption DEF SizeT
  <2>3. offset <= mem[b].size /\ count <= MinusT(mem[b].size, offset)
    BY <1>5 DEF InBlock
  <2> QED
    BY <2>1, <2>2, <2>3 DEF MinusT, Live
<1>6. outside' = FALSE
  BY <1>5, BridgeFacts DEF Access
<1>7. Told /\ UNCHANGED <<errno, moving, values>>
  BY DEF Access
<1> QED
  BY <1>3, <1>4, <1>6, <1>7, StatusTypes, TellsTruly, BridgeFrame, BridgeFacts

LEMMA NotToldFrame ==
  ASSUME BridgeInv, NEW r, r = Detached, SoundOver(r)', OwnerInv', UNCHANGED refs, NotTold
  PROVE  BridgeInv'
  BY BridgeFrame, BridgeFacts DEF NotTold

LEMMA IrUseStep ==
  ASSUME BridgeInv, IrUse
  PROVE  BridgeInv'
<1> PICK r : r = Detached
  OBVIOUS
<1>1. SoundOver(r)
  BY BridgeFacts
<1>2. SoundOver(r)' /\ UNCHANGED <<ref_L, refs>>
  <2>1. CASE \E size \in Sizes : AlignedAlloc(size, 0)
    BY <1>1, <2>1, AlignedAllocSound, AlignedAllocEffect, TablesAssumption
  <2>2. CASE \E b \in Blocks : Free(b)
    BY <1>1, <2>2, FreeSound, FreeEffect
  <2> QED
    BY <2>1, <2>2 DEF IrUse
<1>3. OwnerInv'
  BY <1>2, OwnerSame, BridgeFacts DEF IrUse
<1> QED
  BY <1>2, <1>3, NotToldFrame DEF IrUse

LEMMA CollectBlocksStep ==
  ASSUME BridgeInv, NEW D \in SUBSET Blocks, CollectBlocks(D)
  PROVE  BridgeInv'
<1> PICK r : r = Detached
  OBVIOUS
<1>1. SoundOver(r)
  BY BridgeFacts
<1>2. D \cap r = {} /\ UNCHANGED <<ref_L, refs>>
  BY DEF CollectBlocks, Collect, Live, Reachable, Detached
<1>3. SoundOver(r)'
  BY <1>1, <1>2, CollectSound DEF CollectBlocks
<1>4. OwnerInv'
  BY <1>2, OwnerSame, BridgeFacts DEF CollectBlocks
<1> QED
  BY <1>2, <1>3, <1>4, NotToldFrame DEF CollectBlocks

LEMMA OwnersStep ==
  ASSUME BridgeInv, Owners
  PROVE  BridgeInv'
<1> PICK r : r = Detached
  OBVIOUS
<1>1. SoundOver(r) /\ OwnerInv
  BY BridgeFacts
<1>2. OwnerNext /\ NotTold
  BY DEF Owners
<1>3. \/ \E cap \in SizeT : New(cap)
      \/ Delete
      \/ \E outcome \in {"ok", "EINVAL", "ENOMEM"} : Answer(outcome)
      \/ UNCHANGED poolVars
  <2>1. 0 \in SizeT /\ Capacities \subseteq SizeT
    BY LayoutAssumption, PoolAssumption DEF SizeT
  <2> QED
    BY <1>2, <2>1 DEF OwnerNext, NewOwner, NewUservalue, OpenPool, Connect, NewLua,
                      SetMetatable, Drop, Elsewhere, Sweep, Finalize
<1>4. SoundOver(r)' /\ UNCHANGED refs
  <2>1. CASE UNCHANGED poolVars
    BY <1>1, <2>1 DEF poolVars, SoundOver, Scalars
  <2>2. CASE Delete
    BY <1>1, <2>2, DeleteSound DEF Delete
  <2>3. CASE \E cap \in SizeT : New(cap)
    BY <1>1, <2>3, NewSound DEF New, Answer
  <2>4. CASE \E outcome \in {"ok", "EINVAL", "ENOMEM"} : Answer(outcome)
    BY <1>1, <2>4, AnswerSound DEF Answer
  <2> QED
    BY <1>3, <2>1, <2>2, <2>3, <2>4
<1>5. OwnerInv'
  BY <1>1, <1>2, OwnerStep
<1> QED
  BY <1>2, <1>4, <1>5, NotToldFrame

LEMMA BridgeStart == BridgeInit => BridgeInv
<1> SUFFICES ASSUME BridgeInit PROVE BridgeInv
  OBVIOUS
<1>1. Init /\ refs = {} /\ values = {} /\ ~ref_L
  BY DEF BridgeInit, Init
<1>2. SoundOver({}) /\ Detached = {}
  BY <1>1, SoundInit DEF Detached
<1>3. OwnerInv
  BY <1>1, OwnerStart DEF BridgeInit
<1> QED
  BY <1>1, <1>2, <1>3 DEF BridgeInit, BridgeInv, Init

LEMMA BridgeStep == BridgeInv /\ [BridgeNext]_bridgeAll => BridgeInv'
<1> SUFFICES ASSUME BridgeInv, [BridgeNext]_bridgeAll PROVE BridgeInv'
  OBVIOUS
<1>1. CASE UNCHANGED bridgeAll
  <2>1. UNCHANGED <<poolVars, ownerVars, bridgeVars, Detached, ref_L>>
    BY <1>1 DEF bridgeAll, poolVars, bridgeVars, Detached
  <2>2. OwnerInv'
    BY <2>1, OwnerSame, BridgeFacts
  <2>3. SoundOver(Detached)'
    BY <2>1 DEF BridgeInv, SoundOver, Scalars, poolVars
  <2> QED
    BY <2>1, <2>2, <2>3 DEF BridgeInv, bridgeVars, poolVars
<1> QED
  BY <1>1, OwnersStep, AllocMethodStep, FreeMethodStep, ReallocMethodStep,
     DetachMethodStep, TransferStep, DropValueStep, AccessStep, IrUseStep,
     CollectBlocksStep DEF BridgeNext

LEMMA BridgeAlways == BridgeSpec => []BridgeInv
  BY BridgeStart, BridgeStep, PTL DEF BridgeSpec

-----------------------------------------------------------------------------
(* The theorems *)

(***************************************************************************)
(* The type invariant of the bridge, its pool and its owners.              *)
(***************************************************************************)
THEOREM BridgeTypeCorrect == BridgeSpec => []TypeCorrect
<1>1. BridgeInv => TypeCorrect
  <2> SUFFICES ASSUME BridgeInv PROVE TypeCorrect
    OBVIOUS
  <2>1. SoundOver(Detached) /\ OwnerTypeOK
    BY DEF BridgeInv, OwnerInv
  <2>2. refs \subseteq Blocks /\ Detached \subseteq Blocks
    BY BridgeFacts DEF Detached
  <2>3. TypeOK
    BY <2>1, <2>2 DEF SoundOver, Scalars, TablesInv, Tables, TypeOK
  <2> QED
    BY <2>1, <2>3 DEF BridgeInv, TypeCorrect
<1> QED
  BY <1>1, BridgeAlways, PTL

(***************************************************************************)
(* A registered pool always has somebody who will delete it and knows it,  *)
(* at every failure of ir_new and new_lua, and an owner's pointer never    *)
(* outlives the pool's userdata.                                           *)
(***************************************************************************)
THEOREM OwnersAlwaysSound == BridgeSpec => []OwnersSound
<1>1. BridgeInv => OwnersSound
  BY DEF BridgeInv, OwnerInv, OwnersSound, OwnedPoolAlive, Objects
<1> QED
  BY <1>1, BridgeAlways, PTL

(***************************************************************************)
(* Between two calls a detached block is a Lua value and nothing else: no  *)
(* registry reference is left, and the collector has not taken it.         *)
(***************************************************************************)
THEOREM DetachedBecomesLuas == BridgeSpec => []DetachedIsLuas
<1>1. BridgeInv => DetachedIsLuas
  <2> SUFFICES ASSUME BridgeInv PROVE DetachedIsLuas
    OBVIOUS
  <2> PICK r : r = Detached
    OBVIOUS
  <2>1. SoundOver(r) /\ handles = r
    BY DEF BridgeInv, SoundOver
  <2>2. values \subseteq r /\ values \subseteq Blocks
    BY BridgeFacts DEF Detached
  <2>3. values \subseteq Live
    BY <2>1, <2>2, SoundTypes DEF Live
  <2>4. moving = Nil => refs = {} /\ values = handles
    BY <2>1 DEF BridgeInv, Detached
  <2> QED
    BY <2>3, <2>4 DEF DetachedIsLuas
<1> QED
  BY <1>1, BridgeAlways, PTL

(***************************************************************************)
(* read, write and is_aligned never leave a used block, for any offset,    *)
(* length and pointer.                                                     *)
(***************************************************************************)
THEOREM AccessStaysInside == BridgeSpec => []AccessInside
<1>1. BridgeInv => AccessInside
  BY DEF BridgeInv, AccessInside
<1> QED
  BY <1>1, BridgeAlways, PTL

(***************************************************************************)
(* The program is told of a failure exactly when there was one.            *)
(***************************************************************************)
THEOREM AnswersAlwaysTrue == BridgeSpec => []AnswersTrue
<1>1. BridgeInv => AnswersTrue
  BY DEF BridgeInv, AnswersTrue
<1> QED
  BY <1>1, BridgeAlways, PTL

(***************************************************************************)
(* The chains of unused blocks are well formed and hold no used block, no  *)
(* referenced one and no Lua value, also where a nil assignment can fail.  *)
(***************************************************************************)
THEOREM ReuseAlwaysSound == BridgeSpec => []ReuseSound
<1>1. BridgeInv => ReuseSound
  <2> SUFFICES ASSUME BridgeInv PROVE ReuseSound
    OBVIOUS
  <2> DEFINE owned == tables.used_mem_by_block \cup refs \cup values
  <2>1. TablesInv(tables, mem, Detached) /\ Owned(tables, Detached) = owned
    BY DEF BridgeInv, SoundOver, Owned, Detached
  <2> HIDE DEF owned
  <2>2. /\ \E L \in SUBSET Blocks : ChainsOver(tables, mem, owned, L)
        /\ LinksOfIdle(tables, mem, owned)
    BY <2>1 DEF TablesInv
  <2> QED
    BY <2>2 DEF ReuseSound, owned
<1> QED
  BY <1>1, BridgeAlways, PTL
=============================================================================
