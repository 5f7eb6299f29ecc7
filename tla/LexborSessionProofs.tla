------------------------ MODULE LexborSessionProofs ------------------------
(***************************************************************************)
(* Safety of the tokenizer sessions for every set of pools, every depth of *)
(* nested compiles and every Lua version.                                  *)
(***************************************************************************)
EXTENDS LexborSession, SequenceTheorems, TLAPS

Early == {"pcall", "new", "ref"}
Late  == {"destroy", "clear"}

\* What a call in progress has, by the point it has reached: a pool once
\* pool_new has returned, a reference to it and the hooks from luaL_ref on, a
\* tokenizer from lxb_html_tokenizer_create on.
FrameInv(f) ==
    /\ f \in Frame
    /\ f.pc \in {"pcall", "new"} => f.pool = Nil
    /\ f.pc \in Early => f.pool_ref = Nil /\ ~f.tokenizer
    /\ f.pc \notin {"pcall", "new"} \cup Late => f.pool # Nil
    /\ f.pc \in Tokenizing => f.pool_ref = f.pool
    /\ f.pool_ref \in {Nil, f.pool}
    /\ f.tokenizer => f.pool_ref # Nil
    /\ f.pc = "clear" => ~f.tokenizer

\* The caller will be told OK only if the input has been read to its end.
VerdictInv(f) ==
    f.pc \in Late /\ f.status = "OK" /\ ~f.raised => f.ended

\* Calls that are interrupted have no hooks, and no two calls have one pool.
StackInv ==
    /\ \A d \in 1..Len(frames) : FrameInv(frames[d]) /\ VerdictInv(frames[d])
    /\ \A d \in 1..(Len(frames) - 1) : frames[d].pc \in Early
    /\ \A d, e \in 1..Len(frames) :
            frames[d].pool # Nil /\ frames[d].pool = frames[e].pool => d = e

\* The static variable and the registry hold what the calls in progress need.
GlobalInv ==
    /\ \A d \in 1..Len(frames) :
        /\ frames[d].pool # Nil => frames[d].pool \in states
        /\ frames[d].pool_ref # Nil =>
                /\ frames[d].pool_ref \in anchors
                /\ active_pool = frames[d].pool_ref
    /\ \A b \in blocks :
        /\ b.owner \in 1..Len(frames)
        /\ b.pool = frames[b.owner].pool

\* And nothing else, as long as every cleanup has come to its end.
NothingElse ==
    /\ \A p \in states : \E d \in 1..Len(frames) : frames[d].pool = p
    /\ \A p \in anchors : \E d \in 1..Len(frames) : frames[d].pool_ref = p
    /\ active_pool # Nil => \E d \in 1..Len(frames) : frames[d].pool_ref = active_pool

SessionInv == TypeOK /\ StackInv /\ GlobalInv /\ (~cut_short => NothingElse)

-----------------------------------------------------------------------------
(* The stack of calls *)

Last == Len(frames)
Replace(f) == frames' = [frames EXCEPT ![Last] = f]

LEMMA TopIsFrame ==
  ASSUME TypeOK, frames # <<>>
  PROVE  /\ Last \in Nat \ {0} /\ Last \in 1..Last
         /\ Depth = Last
         /\ Top = frames[Last] /\ Top \in Frame
         /\ \A d \in 1..Last : frames[d] \in Frame
  BY LenProperties, EmptySeq, ElementOfSeq DEF TypeOK, Last, Depth, Top

LEMMA ReplaceTop ==
  ASSUME TypeOK, frames # <<>>, NEW f \in Frame, Replace(f)
  PROVE  /\ frames' \in Seq(Frame)
         /\ Len(frames') = Last
         /\ frames'[Last] = f
         /\ \A d \in 1..Last : d # Last => frames'[d] = frames[d]
<1>1. frames \in Seq(Frame) /\ Last \in 1..Len(frames)
  BY TopIsFrame DEF TypeOK, Last
<1> QED
  BY <1>1, ExceptSeq DEF Replace, Last

LEMMA PopTop ==
  ASSUME TypeOK, frames # <<>>, frames' = PopFrame
  PROVE  /\ frames' \in Seq(Frame)
         /\ Len(frames') = Last - 1
         /\ \A d \in 1..(Last - 1) : frames'[d] = frames[d]
<1>1. Last \in Nat \ {0} /\ \A d \in 1..(Last - 1) : frames[d] \in Frame
  BY TopIsFrame
<1>2. frames' = SubSeq(frames, 1, Last - 1)
  BY DEF PopFrame, Depth, Last
<1> QED
  BY <1>1, <1>2, SubSeqProperties

LEMMA Pushed ==
  ASSUME TypeOK, NEW f \in Frame, frames' = Append(frames, f)
  PROVE  /\ frames' \in Seq(Frame)
         /\ Last \in Nat
         /\ Len(frames') = Last + 1
         /\ frames'[Last + 1] = f
         /\ \A d \in 1..Last : frames'[d] = frames[d]
  BY AppendProperties, LenProperties DEF TypeOK, Last

-----------------------------------------------------------------------------
(* Three kinds of steps *)

BlockSet == [owner : Nat, pool : Pools, n : 1..MaxHooks]
Owns(b) == b.owner \in 1..Last /\ b.pool = frames[b.owner].pool

(***************************************************************************)
(* The top call moves on and keeps its pool and its reference.             *)
(***************************************************************************)
LEMMA TopStep ==
  ASSUME SessionInv, frames # <<>>,
         NEW f, FrameInv(f), VerdictInv(f), Replace(f),
         f.pool = Top.pool, f.pool_ref = Top.pool_ref,
         blocks' \subseteq BlockSet, \A b \in blocks' : Owns(b),
         UNCHANGED <<active_pool, states, anchors, finalizers, result, cut_short>>
  PROVE  SessionInv'
<1>1. /\ Last \in Nat \ {0} /\ Last \in 1..Last
      /\ Top = frames[Last] /\ TypeOK
  BY TopIsFrame DEF SessionInv
<1>2. f \in Frame
  BY DEF FrameInv
<1>3. /\ frames' \in Seq(Frame) /\ Len(frames') = Last
      /\ frames'[Last] = f
      /\ \A d \in 1..Last : d # Last => frames'[d] = frames[d]
  BY <1>1, <1>2, ReplaceTop
<1>4. \A d \in 1..Last :
        frames'[d].pool = frames[d].pool /\ frames'[d].pool_ref = frames[d].pool_ref
  BY <1>1, <1>3
<1>5. TypeOK'
  BY <1>1, <1>3 DEF TypeOK, BlockSet
<1>6. StackInv'
  <2>1. \A d \in 1..Last : FrameInv(frames'[d]) /\ VerdictInv(frames'[d])
    BY <1>1, <1>3 DEF SessionInv, StackInv, Last
  <2>2. \A d \in 1..(Last - 1) : frames'[d].pc \in Early
    BY <1>1, <1>3 DEF SessionInv, StackInv, Last
  <2>3. \A d, e \in 1..Last :
          frames'[d].pool # Nil /\ frames'[d].pool = frames'[e].pool => d = e
    BY <1>4 DEF SessionInv, StackInv, Last
  <2> QED
    BY <1>3, <2>1, <2>2, <2>3 DEF StackInv, FrameInv, VerdictInv
<1>7. GlobalInv'
  BY <1>3, <1>4 DEF SessionInv, GlobalInv, Owns, Last
<1>8. NothingElse => NothingElse'
  BY <1>3, <1>4 DEF NothingElse, Last
<1> QED
  BY <1>5, <1>6, <1>7, <1>8 DEF SessionInv

(***************************************************************************)
(* The top call returns, and takes its pool, its reference and the hooks   *)
(* with it unless an error cuts that short.                                *)
(***************************************************************************)
LEMMA PopStep ==
  ASSUME SessionInv, frames # <<>>, frames' = PopFrame,
         active_pool' \in Pools \cup {Nil}, finalizers' = finalizers,
         states' \subseteq states, states \ {Top.pool} \subseteq states',
         anchors' \subseteq anchors,
         blocks' \subseteq {b \in blocks : b.owner # Depth},
         result' \in Results, cut_short' \in BOOLEAN,
         ~cut_short' =>
            /\ ~cut_short
            /\ states' \subseteq states \ {Top.pool}
            /\ anchors' \subseteq anchors \ {Top.pool_ref}
            /\ active_pool' # Nil => active_pool' = active_pool /\ active_pool # Top.pool
  PROVE  SessionInv'
<1>1. /\ Last \in Nat \ {0} /\ Last \in 1..Last /\ Depth = Last
      /\ Top = frames[Last] /\ TypeOK
  BY TopIsFrame DEF SessionInv
<1>2. /\ frames' \in Seq(Frame) /\ Len(frames') = Last - 1
      /\ \A d \in 1..(Last - 1) : frames'[d] = frames[d]
  BY <1>1, PopTop
<1>3. TypeOK'
  BY <1>1, <1>2 DEF TypeOK
<1>4. \A d \in 1..(Last - 1) :
        /\ d \in 1..Last /\ d # Last
        /\ frames[d].pc \in Early /\ frames[d].pool_ref = Nil
  BY <1>1 DEF SessionInv, StackInv, FrameInv, Last
<1>5. StackInv'
  <2>1. \A d \in 1..(Last - 1) : FrameInv(frames'[d]) /\ VerdictInv(frames'[d])
    BY <1>1, <1>2 DEF SessionInv, StackInv, Last
  <2>2. \A d \in 1..((Last - 1) - 1) : frames'[d].pc \in Early
    BY <1>1, <1>2, <1>4
  <2>3. ASSUME NEW d \in 1..(Last - 1), NEW e \in 1..(Last - 1),
               frames'[d].pool # Nil, frames'[d].pool = frames'[e].pool
        PROVE  d = e
    <3>1. frames'[d] = frames[d] /\ frames'[e] = frames[e] /\ d \in 1..Last /\ e \in 1..Last
      BY <1>2, <1>4
    <3> QED
      BY <2>3, <3>1 DEF SessionInv, StackInv, Last
  <2> QED
    BY <1>2, <2>1, <2>2, <2>3 DEF StackInv, FrameInv, VerdictInv
<1>6. GlobalInv'
  <2>1. \A d \in 1..(Last - 1) :
          /\ frames'[d].pool_ref = Nil
          /\ frames'[d].pool # Nil => frames'[d].pool \in states'
    <3> SUFFICES ASSUME NEW d \in 1..(Last - 1)
                 PROVE  /\ frames'[d].pool_ref = Nil
                        /\ frames'[d].pool # Nil => frames'[d].pool \in states'
      OBVIOUS
    <3>1. /\ frames'[d] = frames[d] /\ frames[d].pool_ref = Nil
          /\ d \in 1..Last /\ d # Last
      BY <1>2, <1>4
    <3>2. frames[d].pool # Nil => frames[d].pool \in states /\ frames[d].pool # Top.pool
      BY <1>1, <3>1 DEF SessionInv, StackInv, GlobalInv, Last
    <3> QED
      BY <3>1, <3>2
  <2>2. \A b \in blocks' :
          b.owner \in 1..(Last - 1) /\ b.pool = frames'[b.owner].pool
    BY <1>1, <1>2 DEF SessionInv, GlobalInv, Last
  <2> QED
    BY <1>2, <2>1, <2>2 DEF GlobalInv
<1>7. ASSUME ~cut_short'
      PROVE  NothingElse'
  <2>1. NothingElse
    BY <1>7 DEF SessionInv
  <2>2. \A p \in states' : \E d \in 1..(Last - 1) : frames'[d].pool = p
    BY <1>1, <1>2, <1>7, <2>1 DEF NothingElse, Last
  <2>3. \A p \in anchors' : \E d \in 1..(Last - 1) : frames'[d].pool_ref = p
    BY <1>1, <1>2, <1>7, <2>1 DEF NothingElse, Last
  <2>4. Top.pool_ref \in {Nil, Top.pool}
    BY <1>1 DEF SessionInv, StackInv, FrameInv, Last
  <2>5. active_pool' = Nil
    <3> SUFFICES ASSUME active_pool' # Nil PROVE FALSE
      OBVIOUS
    <3>1. active_pool # Nil /\ active_pool # Top.pool
      BY <1>7
    <3>2. PICK d \in 1..Last : frames[d].pool_ref = active_pool
      BY <2>1, <3>1 DEF NothingElse, Last
    <3>3. d = Last
      BY <1>1, <1>4, <3>1, <3>2
    <3> QED
      BY <1>1, <2>4, <3>1, <3>2, <3>3
  <2> QED
    BY <1>2, <2>2, <2>3, <2>5 DEF NothingElse
<1> QED
  BY <1>3, <1>5, <1>6, <1>7 DEF SessionInv

LEMMA AnswerIsResult ==
  ASSUME NEW status \in Statuses, NEW raised \in BOOLEAN, NEW ended \in BOOLEAN
  PROVE  [status |-> status, raised |-> raised, ended |-> ended] \in Results
  BY Zenon DEF Results

(***************************************************************************)
(* A compile is refused, or starts on top of calls without hooks.          *)
(***************************************************************************)
LEMMA EnterStep ==
  ASSUME SessionInv, Enter, frames # <<>> => Top.pc \in Early \/ active_pool # Nil,
         finalizers' \in 0..MaxFinalizers,
         UNCHANGED <<active_pool, states, anchors, blocks, cut_short>>
  PROVE  SessionInv'
<1>1. TypeOK /\ frames \in Seq(Frame)
  BY DEF SessionInv, TypeOK
<1>2. CASE active_pool # Nil
  <2>1. frames' = frames /\ Answer("WRONG_STAGE", FALSE, FALSE)
    BY <1>2 DEF Enter
  <2>3. result' \in Results
    BY <2>1, AnswerIsResult DEF Answer, Statuses
  <2>2. TypeOK'
    BY <1>1, <2>1, <2>3 DEF TypeOK
  <2> QED
    BY <2>1, <2>2
       DEF SessionInv, StackInv, GlobalInv, NothingElse, FrameInv, VerdictInv
<1>3. CASE active_pool = Nil
  <2>1. frames' = Append(frames, NewFrame) /\ result' = result
    BY <1>3 DEF Enter
  <2>2. NewFrame \in Frame
    BY SessionAssumption DEF NewFrame, Frame, Points, Statuses
  <2>3. FrameInv(NewFrame) /\ VerdictInv(NewFrame)
    BY <2>2 DEF FrameInv, VerdictInv, NewFrame, Early, Late, Tokenizing
  <2>4. /\ frames' \in Seq(Frame) /\ Last \in Nat /\ Len(frames') = Last + 1
        /\ frames'[Last + 1] = NewFrame
        /\ \A d \in 1..Last : frames'[d] = frames[d]
    BY <1>1, <2>1, <2>2, Pushed
  <2>5. TypeOK'
    BY <1>1, <2>1, <2>4 DEF TypeOK
  <2>6. NewFrame.pool = Nil /\ NewFrame.pool_ref = Nil
    BY DEF NewFrame
  <2>7. StackInv'
    <3>1. \A d \in 1..(Last + 1) : FrameInv(frames'[d]) /\ VerdictInv(frames'[d])
      BY <2>3, <2>4 DEF SessionInv, StackInv, Last
    <3>2. \A d \in 1..((Last + 1) - 1) : frames'[d].pc \in Early
      <4> SUFFICES ASSUME NEW d \in 1..Last PROVE frames[d].pc \in Early
        BY <2>4
      <4>1. CASE d = Last
        <5>1. frames # <<>>
          BY <1>1, EmptySeq DEF Last
        <5> QED
          BY <1>1, <1>3, <4>1, <5>1, TopIsFrame
      <4>2. CASE d # Last
        BY <2>4, <4>2 DEF SessionInv, StackInv, Last
      <4> QED
        BY <4>1, <4>2
    <3>3. \A d, e \in 1..(Last + 1) :
            frames'[d].pool # Nil /\ frames'[d].pool = frames'[e].pool => d = e
      BY <2>4, <2>6 DEF SessionInv, StackInv, Last
    <3> QED
      BY <2>4, <3>1, <3>2, <3>3 DEF StackInv, FrameInv, VerdictInv
  <2>8. GlobalInv'
    BY <2>4, <2>6 DEF SessionInv, GlobalInv, Last
  <2>9. NothingElse => NothingElse'
    BY <2>4, <2>6 DEF NothingElse, Last
  <2> QED
    BY <2>5, <2>7, <2>8, <2>9 DEF SessionInv
<1> QED
  BY <1>2, <1>3

-----------------------------------------------------------------------------
(* The actions *)

LEMMA SessionInit == Init => SessionInv /\ OkMeansTokenized
<1> SUFFICES ASSUME Init PROVE SessionInv /\ OkMeansTokenized
  OBVIOUS
<1>1. frames = <<>> /\ Len(frames) = 0 /\ frames \in Seq(Frame)
  BY EmptySeq DEF Init
<1>2. TypeOK
  <2>1. result = [status |-> "OK", raised |-> FALSE, ended |-> TRUE]
    BY Zenon DEF Init
  <2>2. "OK" \in Statuses
    BY DEF Statuses
  <2>3. result \in Results
    BY <2>1, <2>2, AnswerIsResult
  <2>4. finalizers \in 0..MaxFinalizers
    BY SessionAssumption DEF Init
  <2>5. cut_short \in BOOLEAN
    BY Zenon DEF Init
  <2> QED
    BY <1>1, <2>3, <2>4, <2>5, Zenon DEF Init, TypeOK
<1>3. StackInv /\ GlobalInv /\ NothingElse
  BY <1>1 DEF Init, StackInv, GlobalInv, NothingElse
<1> QED
  BY <1>2, <1>3 DEF SessionInv, OkMeansTokenized, Init

LEMMA CallKeeps == SessionInv /\ Call => SessionInv'
  BY EnterStep, SessionAssumption DEF Call

LEMMA NestedCallKeeps == SessionInv /\ NestedCall => SessionInv'
<1> SUFFICES ASSUME SessionInv, NestedCall PROVE SessionInv'
  OBVIOUS
<1>1. frames # <<>> /\ Top.pc \in Points \ {"clear"} /\ Enter
  BY DEF NestedCall, At
<1>2. FrameInv(Top) /\ Top = frames[Last] /\ Last \in 1..Last
  BY <1>1, TopIsFrame DEF SessionInv, StackInv, Last
<1>3. Top.pc \in Early \/ active_pool # Nil
  <2>1. CASE Top.pc \in Tokenizing
    BY <1>2, <2>1 DEF SessionInv, GlobalInv, FrameInv, Tokenizing, Late, Last
  <2>2. CASE Top.pc = "destroy"
    BY <1>2, <2>2 DEF NestedCall, At, SessionInv, GlobalInv, FrameInv, Last
  <2> QED
    BY <1>1, <2>1, <2>2 DEF Points, Early
<1>4. finalizers' \in 0..MaxFinalizers
  BY SessionAssumption DEF NestedCall, SessionInv, TypeOK
<1> QED
  BY <1>1, <1>3, <1>4, EnterStep DEF NestedCall

(***************************************************************************)
(* The steps that change the top call only: f is what it becomes.          *)
(***************************************************************************)
LEMMA TopFacts ==
  ASSUME SessionInv, frames # <<>>
  PROVE  /\ TypeOK /\ Depth = Last /\ Last \in 1..Last
         /\ Top = frames[Last]
         /\ FrameInv(Top) /\ VerdictInv(Top) /\ Top \in Frame
         /\ blocks \subseteq BlockSet /\ \A b \in blocks : Owns(b)
         /\ Top.pool # Nil => Top.pool \in Pools
<1>1. /\ TypeOK /\ Depth = Last /\ Last \in 1..Last
      /\ Top = frames[Last] /\ Top \in Frame
  BY TopIsFrame DEF SessionInv
<1>2. FrameInv(Top) /\ VerdictInv(Top)
  BY <1>1 DEF SessionInv, StackInv, Last
<1>3. blocks \subseteq BlockSet /\ \A b \in blocks : Owns(b)
  BY <1>1 DEF SessionInv, GlobalInv, TypeOK, BlockSet, Owns, Last
<1>4. Top.pool \in Pools \cup {Nil}
  BY <1>1 DEF Frame
<1> QED
  BY <1>1, <1>2, <1>3, <1>4

LEMMA EnterProtectedKeeps == SessionInv /\ EnterProtected => SessionInv'
<1> SUFFICES ASSUME SessionInv, EnterProtected PROVE SessionInv'
  OBVIOUS
<1>1. frames # <<>> /\ Top.pc = "pcall"
  BY DEF EnterProtected, At
<1>2. /\ TypeOK /\ FrameInv(Top) /\ VerdictInv(Top) /\ Top \in Frame
      /\ Depth = Last /\ Top = frames[Last]
      /\ blocks \subseteq BlockSet /\ \A b \in blocks : Owns(b)
  BY <1>1, TopFacts
<1>3. Top.pool = Nil /\ Top.pool_ref = Nil
  BY <1>1, <1>2 DEF FrameInv, Early
<1>4. CASE Goto("new") /\ UNCHANGED result
  <2> DEFINE f == [Top EXCEPT !.pc = "new"]
  <2>1. Replace(f)
    BY <1>2, <1>4 DEF Goto, Replace
  <2>2. FrameInv(f) /\ VerdictInv(f) /\ f.pool = Top.pool /\ f.pool_ref = Top.pool_ref
    BY <1>1, <1>2 DEF FrameInv, VerdictInv, Frame, Points, Early, Late, Tokenizing
  <2> HIDE DEF f
  <2> QED
    BY <1>1, <1>2, <1>4, <2>1, <2>2, TopStep DEF EnterProtected
<1>5. CASE frames' = PopFrame /\ Answer("OK", TRUE, FALSE)
  <2>1. result' \in Results
    BY <1>5, AnswerIsResult DEF Answer, Statuses
  <2>2. \A b \in blocks : b.owner # Depth
    BY <1>2, <1>3, SessionAssumption DEF BlockSet, Owns
  <2>3. ~cut_short => active_pool = Nil
    <3> SUFFICES ASSUME ~cut_short, active_pool # Nil PROVE FALSE
      OBVIOUS
    <3>1. PICK d \in 1..Last : frames[d].pool_ref = active_pool
      BY DEF SessionInv, NothingElse, Last
    <3>2. frames[d].pool_ref = Nil
      BY <1>1, <1>2, <1>3 DEF SessionInv, StackInv, FrameInv, Last
    <3> QED
      BY <3>1, <3>2
  <2>4. Nil \notin states /\ Nil \notin anchors /\ active_pool \in Pools \cup {Nil}
        /\ cut_short \in BOOLEAN
    BY <1>2, SessionAssumption DEF TypeOK
  <2>5. UNCHANGED <<active_pool, states, anchors, blocks, finalizers, cut_short>>
    BY DEF EnterProtected
  <2> QED
    BY <1>1, <1>3, <1>5, <2>1, <2>2, <2>3, <2>4, <2>5, PopStep
<1> QED
  BY <1>4, <1>5 DEF EnterProtected

LEMMA StopKeeps ==
  ASSUME SessionInv, frames # <<>>,
         NEW status \in Statuses, NEW raised \in BOOLEAN, status # "OK" \/ raised,
         Stop(status, raised),
         UNCHANGED <<active_pool, states, anchors, blocks, finalizers, result, cut_short>>
  PROVE  SessionInv'
<1> DEFINE f == [Top EXCEPT !.pc = "destroy", !.status = status, !.raised = raised]
<1>1. /\ FrameInv(Top) /\ Top \in Frame /\ Depth = Last /\ Top = frames[Last]
      /\ Last \in 1..Last /\ frames \in Seq(Frame)
      /\ blocks \subseteq BlockSet /\ \A b \in blocks : Owns(b)
  BY TopFacts DEF TypeOK
<1>2. Replace(f)
  BY <1>1, LenProperties DEF Stop, Replace, Last
<1>3. f \in Frame
  BY <1>1 DEF Frame, Points
<1>4. /\ f.pc = "destroy" /\ f.status = status /\ f.raised = raised
      /\ f.pool = Top.pool /\ f.pool_ref = Top.pool_ref /\ f.tokenizer = Top.tokenizer
  BY <1>1 DEF Frame
<1> HIDE DEF f
<1>5. FrameInv(f)
  BY <1>1, <1>3, <1>4 DEF FrameInv, Early, Late, Tokenizing
<1>6. VerdictInv(f)
  BY <1>4 DEF VerdictInv
<1> QED
  BY <1>1, <1>2, <1>4, <1>5, <1>6, TopStep

LEMMA NewPoolKeeps == SessionInv /\ NewPool => SessionInv'
<1> SUFFICES ASSUME SessionInv, NewPool PROVE SessionInv'
  OBVIOUS
<1>1. frames # <<>> /\ Top.pc = "new"
  BY DEF NewPool, At
<1>2. /\ TypeOK /\ FrameInv(Top) /\ Top \in Frame /\ Depth = Last /\ Top = frames[Last]
      /\ Last \in 1..Last /\ frames \in Seq(Frame)
      /\ blocks \subseteq BlockSet /\ \A b \in blocks : Owns(b)
  BY <1>1, TopFacts DEF TypeOK
<1>3. UNCHANGED <<active_pool, anchors, blocks, finalizers, result, cut_short>>
  BY DEF NewPool
<1>4. CASE Stop("MEMORY", FALSE) /\ UNCHANGED states
  BY <1>1, <1>3, <1>4, StopKeeps DEF Statuses
<1>5. CASE Stop("OK", TRUE) /\ UNCHANGED states
  BY <1>1, <1>3, <1>5, StopKeeps DEF Statuses
<1>6. ASSUME NEW p \in Pools \ (states \cup {frames[d].pool : d \in 1..Depth}),
             states' = states \cup {p},
             frames' = [frames EXCEPT ![Depth].pc = "ref", ![Depth].pool = p]
      PROVE  SessionInv'
  <2> DEFINE f == [Top EXCEPT !.pc = "ref", !.pool = p]
  <2>1. Replace(f)
    BY <1>2, <1>6, LenProperties DEF Replace, Last
  <2>2. f \in Frame
    BY <1>2 DEF Frame, Points
  <2>3. /\ f.pc = "ref" /\ f.pool = p /\ f.pool_ref = Top.pool_ref
        /\ f.tokenizer = Top.tokenizer
    BY <1>2 DEF Frame
  <2> HIDE DEF f
  <2>4. Top.pool = Nil /\ Top.pool_ref = Nil /\ ~Top.tokenizer /\ p # Nil
    BY <1>1, <1>2, SessionAssumption DEF FrameInv, Early
  <2>5. FrameInv(f) /\ VerdictInv(f)
    BY <2>2, <2>3, <2>4 DEF FrameInv, VerdictInv, Early, Late, Tokenizing
  <2>6. /\ frames' \in Seq(Frame) /\ Len(frames') = Last
        /\ frames'[Last] = f
        /\ \A d \in 1..Last : d # Last => frames'[d] = frames[d]
    BY <1>1, <1>2, <2>1, <2>2, ReplaceTop
  <2>7. TypeOK'
    BY <1>2, <1>3, <1>6, <2>6 DEF TypeOK
  <2>8. \A d \in 1..Last : frames[d].pool # p
    BY <1>2, <1>6
  <2>9. StackInv'
    <3>1. \A d \in 1..Last : FrameInv(frames'[d]) /\ VerdictInv(frames'[d])
      BY <1>2, <2>5, <2>6 DEF SessionInv, StackInv, Last
    <3>2. \A d \in 1..(Last - 1) : frames'[d].pc \in Early
      BY <1>2, <2>6 DEF SessionInv, StackInv, Last
    <3>3. \A d, e \in 1..Last :
            frames'[d].pool # Nil /\ frames'[d].pool = frames'[e].pool => d = e
      BY <2>3, <2>6, <2>8 DEF SessionInv, StackInv, Last
    <3> QED
      BY <2>6, <3>1, <3>2, <3>3 DEF StackInv, FrameInv, VerdictInv
  <2>10. \A d \in 1..Last : frames'[d].pool_ref = frames[d].pool_ref
    BY <1>2, <2>3, <2>6
  <2>11. GlobalInv'
    <3>1. \A b \in blocks : b.owner \in 1..Last /\ b.owner # Last
      BY <1>2, <2>4, SessionAssumption DEF BlockSet, Owns
    <3>2. \A b \in blocks : b.owner \in 1..Last /\ b.pool = frames'[b.owner].pool
      BY <1>2, <2>6, <3>1 DEF Owns
    <3>3. \A d \in 1..Last : frames'[d].pool # Nil => frames'[d].pool \in states'
      BY <1>6, <2>3, <2>6 DEF SessionInv, GlobalInv, Last
    <3> QED
      BY <1>3, <2>6, <2>10, <3>2, <3>3 DEF SessionInv, GlobalInv, Last
  <2>12. NothingElse => NothingElse'
    <3> SUFFICES ASSUME NothingElse PROVE NothingElse'
      OBVIOUS
    <3>1. \A q \in states : \E d \in 1..Last : frames'[d].pool = q
      <4> SUFFICES ASSUME NEW q \in states PROVE \E d \in 1..Last : frames'[d].pool = q
        OBVIOUS
      <4>1. PICK d \in 1..Last : frames[d].pool = q
        BY DEF NothingElse, Last
      <4>2. d # Last
        BY <1>2, <2>4, <4>1, SessionAssumption DEF TypeOK
      <4> QED
        BY <2>6, <4>1, <4>2
    <3>2. frames'[Last].pool = p
      BY <2>3, <2>6
    <3>3. \A q \in states' : \E d \in 1..Len(frames') : frames'[d].pool = q
      BY <1>2, <1>6, <2>6, <3>1, <3>2
    <3>4. ASSUME NEW q, \E d \in 1..Len(frames) : frames[d].pool_ref = q
          PROVE  \E d \in 1..Len(frames') : frames'[d].pool_ref = q
      BY <2>6, <2>10, <3>4 DEF Last
    <3> QED
      BY <1>3, <3>3, <3>4 DEF NothingElse
  <2> QED
    BY <1>3, <2>7, <2>9, <2>11, <2>12 DEF SessionInv
<1> QED
  BY <1>4, <1>5, <1>6 DEF NewPool

LEMMA AnchorPoolKeeps == SessionInv /\ AnchorPool => SessionInv'
<1> SUFFICES ASSUME SessionInv, AnchorPool PROVE SessionInv'
  OBVIOUS
<1>1. frames # <<>> /\ Top.pc = "ref"
  BY DEF AnchorPool, At
<1>2.  /\ TypeOK /\ FrameInv(Top) /\ VerdictInv(Top) /\ Top \in Frame
      /\ Depth = Last /\ Top = frames[Last]
      /\ Last \in 1..Last /\ frames \in Seq(Frame)
      /\ blocks \subseteq BlockSet /\ \A b \in blocks : Owns(b)
  BY <1>1, TopFacts DEF TypeOK
<1>3. UNCHANGED <<states, blocks, finalizers, result, cut_short>>
  BY DEF AnchorPool
<1>4. CASE Stop("OK", TRUE) /\ UNCHANGED <<anchors, active_pool>>
  BY <1>1, <1>3, <1>4, StopKeeps DEF Statuses
<1>5. ASSUME anchors' = anchors \cup {Top.pool}, active_pool' = Top.pool,
             frames' = [frames EXCEPT ![Depth].pc = "create",
                                      ![Depth].pool_ref = Top.pool]
      PROVE  SessionInv'
  <2> DEFINE f == [Top EXCEPT !.pc = "create", !.pool_ref = Top.pool]
  <2>1. Replace(f)
    BY <1>2, <1>5, LenProperties DEF Replace, Last
  <2>2. f \in Frame
    BY <1>2 DEF Frame, Points, Tokenizing
  <2>3. /\ f.pc = "create" /\ f.pool = Top.pool /\ f.pool_ref = Top.pool
        /\ f.tokenizer = Top.tokenizer
    BY <1>2 DEF Frame
  <2> HIDE DEF f
  <2>4. Top.pool # Nil /\ Top.pool \in Pools /\ Top.pool_ref = Nil /\ ~Top.tokenizer
    BY <1>1, <1>2, TopFacts DEF FrameInv, Early, Late
  <2>5. FrameInv(f) /\ VerdictInv(f)
    BY <2>2, <2>3, <2>4 DEF FrameInv, VerdictInv, Early, Late, Tokenizing
  <2>6. /\ frames' \in Seq(Frame) /\ Len(frames') = Last
        /\ frames'[Last] = f
        /\ \A d \in 1..Last : d # Last => frames'[d] = frames[d]
    BY <1>1, <1>2, <2>1, <2>2, ReplaceTop
  <2>7. TypeOK'
    BY <1>2, <1>3, <1>5, <2>4, <2>6 DEF TypeOK
  <2>8. \A d \in 1..Last : frames'[d].pool = frames[d].pool
    BY <1>2, <2>3, <2>6
  <2>9. StackInv'
    <3>1. \A d \in 1..Last : FrameInv(frames'[d]) /\ VerdictInv(frames'[d])
      BY <1>2, <2>5, <2>6 DEF SessionInv, StackInv, Last
    <3>2. \A d \in 1..(Last - 1) : frames'[d].pc \in Early
      BY <1>2, <2>6 DEF SessionInv, StackInv, Last
    <3>3. \A d, e \in 1..Last :
            frames'[d].pool # Nil /\ frames'[d].pool = frames'[e].pool => d = e
      BY <2>8 DEF SessionInv, StackInv, Last
    <3> QED
      BY <2>6, <3>1, <3>2, <3>3 DEF StackInv, FrameInv, VerdictInv
  <2>10. \A d \in 1..Last : d # Last => frames'[d].pool_ref = Nil /\ frames[d].pool_ref = Nil
    BY <1>2, <2>6 DEF SessionInv, StackInv, FrameInv, Last
  <2>11. GlobalInv'
    BY <1>3, <1>5, <2>3, <2>6, <2>8, <2>10 DEF SessionInv, GlobalInv, Last
  <2>12. NothingElse => NothingElse'
    <3> SUFFICES ASSUME NothingElse PROVE NothingElse'
      OBVIOUS
    <3>1. anchors = {}
      <4> SUFFICES ASSUME NEW q \in anchors PROVE FALSE
        OBVIOUS
      <4>1. PICK d \in 1..Last : frames[d].pool_ref = q
        BY DEF NothingElse, Last
      <4>2. q # Nil
        BY <1>2, SessionAssumption DEF TypeOK
      <4> QED
        BY <1>2, <2>4, <2>10, <4>1, <4>2
    <3>2. frames'[Last].pool_ref = Top.pool
      BY <2>3, <2>6
    <3> QED
      BY <1>2, <1>3, <1>5, <2>6, <2>8, <3>1, <3>2 DEF NothingElse, Last
  <2> QED
    BY <1>3, <2>7, <2>9, <2>11, <2>12 DEF SessionInv
<1> QED
  BY <1>4, <1>5 DEF AnchorPool

(***************************************************************************)
(* While the tokenizer works, the hooks serve the top call.                *)
(***************************************************************************)
LEMMA HooksServeTop ==
  ASSUME SessionInv, frames # <<>>, Top.pc \in Tokenizing \/ Top.tokenizer
  PROVE  /\ Top.pool # Nil /\ Top.pool_ref = Top.pool /\ active_pool = Top.pool
         /\ Top.pool \in states \cap anchors
<1>1. FrameInv(Top) /\ Top = frames[Last] /\ Last \in 1..Last
  BY TopFacts
<1>2. Top.pool # Nil /\ Top.pool_ref = Top.pool
  BY <1>1 DEF FrameInv, Tokenizing, Late
<1> QED
  BY <1>1, <1>2 DEF SessionInv, GlobalInv, Last

LEMMA HookAllocKeeps == SessionInv /\ HookAlloc => SessionInv'
<1> SUFFICES ASSUME SessionInv, HookAlloc PROVE SessionInv'
  OBVIOUS
<1>1. frames # <<>> /\ Top.pc \in Tokenizing /\ Top.hooks < MaxHooks
  BY DEF HookAlloc, At
<1>2.  /\ TypeOK /\ FrameInv(Top) /\ VerdictInv(Top) /\ Top \in Frame
      /\ Depth = Last /\ Top = frames[Last]
      /\ Last \in 1..Last /\ frames \in Seq(Frame)
      /\ blocks \subseteq BlockSet /\ \A b \in blocks : Owns(b)
  BY <1>1, TopFacts DEF TypeOK
<1> DEFINE f == [Top EXCEPT !.hooks = @ + 1]
<1>3. Replace(f)
  BY <1>2, LenProperties DEF HookAlloc, Replace, Last
<1>4. f \in Frame /\ Top.hooks + 1 \in 1..MaxHooks
  <2>1. Top.hooks \in 0..MaxHooks
    BY <1>2 DEF Frame
  <2>2. Top.hooks + 1 \in 0..MaxHooks /\ Top.hooks + 1 \in 1..MaxHooks
    BY <1>1, <2>1, SessionAssumption
  <2>3. f \in Frame
    BY <1>2, <2>2 DEF Frame
  <2> QED
    BY <2>2, <2>3
<1>5. /\ f.pc = Top.pc /\ f.pool = Top.pool /\ f.pool_ref = Top.pool_ref
      /\ f.tokenizer = Top.tokenizer
  BY <1>2 DEF Frame
<1> HIDE DEF f
<1>6. FrameInv(f) /\ VerdictInv(f)
  BY <1>1, <1>2, <1>4, <1>5 DEF FrameInv, VerdictInv, Tokenizing, Late
<1> DEFINE b == [owner |-> Depth, pool |-> active_pool, n |-> Top.hooks + 1]
<1>7. b \in BlockSet /\ Owns(b)
  BY <1>1, <1>2, <1>4, HooksServeTop, TopFacts, TopIsFrame DEF BlockSet, Owns
<1>8. blocks' = blocks \cup {b}
  BY DEF HookAlloc
<1> HIDE DEF b
<1>9. blocks' \subseteq BlockSet /\ \A x \in blocks' : Owns(x)
  BY <1>2, <1>7, <1>8
<1> QED
  BY <1>1, <1>3, <1>5, <1>6, <1>9, TopStep DEF HookAlloc

LEMMA HookFreeKeeps == SessionInv /\ HookFree => SessionInv'
<1> SUFFICES ASSUME SessionInv, HookFree PROVE SessionInv'
  OBVIOUS
<1>1. blocks' \subseteq blocks
  BY DEF HookFree
<1>2. UNCHANGED <<active_pool, frames, states, anchors, finalizers, result, cut_short>>
  BY DEF HookFree
<1> QED
  BY <1>1, <1>2
     DEF SessionInv, TypeOK, StackInv, FrameInv, VerdictInv, GlobalInv, NothingElse

LEMMA TokenizeKeeps == SessionInv /\ Tokenize => SessionInv'
<1> SUFFICES ASSUME SessionInv, Tokenize PROVE SessionInv'
  OBVIOUS
<1>1. frames # <<>> /\ Top.pc \in Tokenizing
  BY DEF Tokenize, At
<1>2.  /\ TypeOK /\ FrameInv(Top) /\ VerdictInv(Top) /\ Top \in Frame
      /\ Depth = Last /\ Top = frames[Last]
      /\ Last \in 1..Last /\ frames \in Seq(Frame)
      /\ blocks \subseteq BlockSet /\ \A b \in blocks : Owns(b)
  BY <1>1, TopFacts DEF TypeOK
<1>3. UNCHANGED <<active_pool, states, anchors, blocks, finalizers, result, cut_short>>
  BY DEF Tokenize
<1>4. ASSUME frames' = [frames EXCEPT ![Depth].pc = After(Top.pc),
                                      ![Depth].tokenizer = TRUE,
                                      ![Depth].ended = (Top.pc = "end")]
      PROVE  SessionInv'
  <2> DEFINE f == [Top EXCEPT !.pc = After(Top.pc), !.tokenizer = TRUE,
                              !.ended = (Top.pc = "end")]
  <2>1. Replace(f)
    BY <1>2, <1>4, LenProperties DEF Replace, Last
  <2>2. /\ After(Top.pc) \in (Tokenizing \ {"create"}) \cup {"destroy"}
        /\ After(Top.pc) = "destroy" => Top.pc = "end"
    BY <1>1 DEF After, Tokenizing
  <2>3. f \in Frame
    <3>1. After(Top.pc) \in Points
      BY <2>2 DEF Points, Tokenizing
    <3>2. \A p \in Points, e \in BOOLEAN :
            [Top EXCEPT !.pc = p, !.tokenizer = TRUE, !.ended = e] \in Frame
      BY <1>2 DEF Frame
    <3> QED
      BY <3>1, <3>2
  <2>4. /\ f.pc = After(Top.pc) /\ f.pool = Top.pool /\ f.pool_ref = Top.pool_ref
        /\ f.ended = (Top.pc = "end")
    BY <1>2 DEF Frame
  <2> HIDE DEF f
  <2>5. f.pc \in (Tokenizing \ {"create"}) \cup {"destroy"}
    BY <2>2, <2>4
  <2>6. f.pool # Nil /\ f.pool_ref = f.pool
    BY <1>1, <2>4, HooksServeTop
  <2>7. FrameInv(f)
    BY <2>3, <2>5, <2>6 DEF FrameInv, Early, Late, Tokenizing
  <2>8. VerdictInv(f)
    BY <2>2, <2>4, <2>5 DEF VerdictInv, Late, Tokenizing
  <2> QED
    BY <1>1, <1>2, <1>3, <2>1, <2>4, <2>7, <2>8, TopStep
<1>5. ASSUME NEW status \in FailureStatus(Top.pc), Stop(status, FALSE)
      PROVE  SessionInv'
  <2>1. status \in Statuses /\ status # "OK"
    BY DEF FailureStatus, Statuses
  <2> QED
    BY <1>1, <1>3, <1>5, <2>1, StopKeeps
<1>6. CASE Stop(Top.status, TRUE)
  <2>1. Top.status \in Statuses
    BY <1>2 DEF Frame
  <2> QED
    BY <1>1, <1>3, <1>6, <2>1, StopKeeps
<1> QED
  BY <1>4, <1>5, <1>6 DEF Tokenize

LEMMA DestroyedKeeps == SessionInv /\ Destroyed => SessionInv'
<1> SUFFICES ASSUME SessionInv, Destroyed PROVE SessionInv'
  OBVIOUS
<1>1. frames # <<>> /\ Top.pc = "destroy"
  BY DEF Destroyed, At
<1>2.  /\ TypeOK /\ FrameInv(Top) /\ VerdictInv(Top) /\ Top \in Frame
      /\ Depth = Last /\ Top = frames[Last]
      /\ Last \in 1..Last /\ frames \in Seq(Frame)
      /\ blocks \subseteq BlockSet /\ \A b \in blocks : Owns(b)
  BY <1>1, TopFacts DEF TypeOK
<1> DEFINE f == [Top EXCEPT !.pc = "clear", !.tokenizer = FALSE]
<1>3. Replace(f)
  BY <1>2, LenProperties DEF Destroyed, Replace, Last
<1>4. f \in Frame
  BY <1>2 DEF Frame, Points
<1>5. /\ f.pc = "clear" /\ f.pool = Top.pool /\ f.pool_ref = Top.pool_ref
      /\ ~f.tokenizer
  BY <1>2 DEF Frame
<1>6. f.status = Top.status /\ f.raised = Top.raised /\ f.ended = Top.ended
  BY <1>2 DEF Frame
<1> HIDE DEF f
<1>7. FrameInv(f)
  BY <1>2, <1>4, <1>5 DEF FrameInv, Early, Late, Tokenizing
<1>8. VerdictInv(f)
  BY <1>1, <1>2, <1>6 DEF VerdictInv, Late
<1> QED
  BY <1>1, <1>2, <1>3, <1>5, <1>7, <1>8, TopStep DEF Destroyed

LEMMA DestroyRaisesKeeps == SessionInv /\ DestroyRaises => SessionInv'
<1> SUFFICES ASSUME SessionInv, DestroyRaises PROVE SessionInv'
  OBVIOUS
<1>1. frames # <<>>
  BY DEF DestroyRaises, At
<1>2.  /\ TypeOK /\ FrameInv(Top) /\ VerdictInv(Top) /\ Top \in Frame
      /\ Depth = Last /\ Top = frames[Last]
      /\ Last \in 1..Last /\ frames \in Seq(Frame)
      /\ blocks \subseteq BlockSet /\ \A b \in blocks : Owns(b)
  BY <1>1, TopFacts DEF TypeOK
<1>3. Top.status \in Statuses
  BY <1>2 DEF Frame
<1>4. result' \in Results
  BY <1>3, AnswerIsResult DEF DestroyRaises, Answer
<1>5. active_pool' \in Pools \cup {Nil}
  BY <1>2 DEF DestroyRaises, TypeOK
<1>6. cut_short' \in BOOLEAN /\ cut_short'
  BY DEF DestroyRaises
<1> QED
  BY <1>1, <1>4, <1>5, <1>6, PopStep DEF DestroyRaises

LEMMA ClearKeeps == SessionInv /\ Clear => SessionInv'
<1> SUFFICES ASSUME SessionInv, Clear PROVE SessionInv'
  OBVIOUS
<1>1. frames # <<>>
  BY DEF Clear, At
<1>2.  /\ TypeOK /\ FrameInv(Top) /\ VerdictInv(Top) /\ Top \in Frame
      /\ Depth = Last /\ Top = frames[Last]
      /\ Last \in 1..Last /\ frames \in Seq(Frame)
      /\ blocks \subseteq BlockSet /\ \A b \in blocks : Owns(b)
  BY <1>1, TopFacts DEF TypeOK
<1>3. Top.status \in Statuses /\ Top.raised \in BOOLEAN /\ Top.ended \in BOOLEAN
  BY <1>2 DEF Frame
<1>4. result' \in Results
  BY <1>3, AnswerIsResult DEF Clear, Answer
<1>5. /\ active_pool' \in Pools \cup {Nil}
      /\ active_pool' # Nil => active_pool' = active_pool /\ active_pool # Top.pool
  BY <1>2 DEF Clear, TypeOK
<1>6. cut_short' = cut_short /\ cut_short \in BOOLEAN
  BY <1>2 DEF Clear, TypeOK
<1> QED
  BY <1>1, <1>4, <1>5, <1>6, PopStep DEF Clear

-----------------------------------------------------------------------------
(* The theorems *)

LEMMA SessionStep == SessionInv /\ [Next]_vars => SessionInv'
<1>1. SessionInv /\ Step => SessionInv'
  BY EnterProtectedKeeps, NewPoolKeeps, AnchorPoolKeeps, HookAllocKeeps,
     HookFreeKeeps, TokenizeKeeps, DestroyedKeeps, DestroyRaisesKeeps, ClearKeeps
     DEF Step
<1>2. SessionInv /\ UNCHANGED vars => SessionInv'
  BY DEF vars, SessionInv, TypeOK, StackInv, FrameInv, VerdictInv, GlobalInv,
         NothingElse
<1> QED
  BY <1>1, <1>2, CallKeeps, NestedCallKeeps DEF Next

LEMMA SessionAlways == Spec => []SessionInv
  BY SessionInit, SessionStep, PTL DEF Spec

(***************************************************************************)
(* The type invariant.                                                     *)
(***************************************************************************)
THEOREM SessionTypeCorrect == Spec => []TypeOK
<1>1. SessionInv => TypeOK
  BY DEF SessionInv
<1> QED
  BY <1>1, SessionAlways, PTL

(***************************************************************************)
(* Lexbor's hooks always serve the session that runs, from its own pool,   *)
(* and no session starts while another has a tokenizer, whatever compiles  *)
(* finalizers start and whichever step of any of them fails.               *)
(***************************************************************************)
THEOREM HooksExclusive == Spec => []HooksGuarded
<1>1. SessionInv => HooksReachOwnPool
  <2> SUFFICES ASSUME SessionInv PROVE HooksReachOwnPool
    OBVIOUS
  <2>1. At(Tokenizing) \/ (At({"destroy"}) /\ Top.tokenizer) =>
          active_pool = Top.pool /\ Top.pool \in states \cap anchors
    BY HooksServeTop DEF At
  <2>2. \A b \in blocks : b.owner <= Depth /\ b.pool = frames[b.owner].pool
    BY DEF SessionInv, GlobalInv, Depth
  <2> QED
    BY <2>1, <2>2 DEF HooksReachOwnPool
<1>2. SessionInv => OneTokenizer
  <2> SUFFICES ASSUME SessionInv, NEW d \in 1..(Len(frames) - 1)
               PROVE  frames[d].pc \in Early /\ ~frames[d].tokenizer
    BY DEF OneTokenizer, Depth, Early
  <2>1. frames[d].pc \in Early
    BY DEF SessionInv, StackInv
  <2>2. Len(frames) \in Nat
    BY LenProperties DEF SessionInv, TypeOK
  <2>3. FrameInv(frames[d])
    BY <2>2 DEF SessionInv, StackInv
  <2> QED
    BY <2>1, <2>3 DEF FrameInv
<1>3. SessionInv => HooksGuarded
  BY <1>1, <1>2 DEF HooksGuarded
<1> QED
  BY <1>3, SessionAlways, PTL

(***************************************************************************)
(* When no call is in progress nothing is left of any, unless an error has *)
(* cut a cleanup short.                                                    *)
(***************************************************************************)
THEOREM NothingLeft == Spec => []BalancedUnlessCut
<1>1. SessionInv => BalancedUnlessCut
  <2> SUFFICES ASSUME SessionInv, ~cut_short, frames = <<>>
               PROVE  active_pool = Nil /\ states = {} /\ anchors = {} /\ blocks = {}
    BY DEF BalancedUnlessCut, SessionsBalanced
  <2>1. Len(frames) = 0
    BY EmptySeq
  <2> QED
    BY <2>1 DEF SessionInv, GlobalInv, NothingElse
<1> QED
  BY <1>1, SessionAlways, PTL

(***************************************************************************)
(* From Lua 5.2 on nothing cuts a cleanup short.                           *)
(***************************************************************************)
THEOREM NothingLeftSince52 ==
  ASSUME ~CFunctionAllocates
  PROVE  Spec => []SessionsBalanced
<1>1. Init => ~cut_short
  BY DEF Init
<1>2. ~cut_short /\ [Next]_vars => ~cut_short'
  BY DEF Next, Step, vars, Call, NestedCall, EnterProtected, NewPool, AnchorPool,
         HookAlloc, HookFree, Tokenize, Destroyed, DestroyRaises, Clear
<1>3. ~cut_short /\ BalancedUnlessCut => SessionsBalanced
  BY DEF BalancedUnlessCut
<1> QED
  BY <1>1, <1>2, <1>3, NothingLeft, PTL DEF Spec

(***************************************************************************)
(* A caller that is told OK has had its whole input tokenized.             *)
(***************************************************************************)
THEOREM VerdictTrue == Spec => []OkMeansTokenized
<1>1. Init => OkMeansTokenized
  BY SessionInit
<1>2. SessionInv /\ OkMeansTokenized /\ [Next]_vars => OkMeansTokenized'
  <2> SUFFICES ASSUME SessionInv, OkMeansTokenized, [Next]_vars PROVE OkMeansTokenized'
    OBVIOUS
  <2>1. CASE result' = result
    BY <2>1 DEF OkMeansTokenized
  <2>2. CASE Enter
    BY <2>1, <2>2 DEF Enter, Answer, OkMeansTokenized
  <2>3. CASE EnterProtected
    BY <2>1, <2>3 DEF EnterProtected, Answer, OkMeansTokenized
  <2>4. CASE DestroyRaises
    BY <2>4 DEF DestroyRaises, Answer, OkMeansTokenized
  <2>5. CASE Clear
    <3>1. frames # <<>> /\ Top.pc = "clear"
      BY <2>5 DEF Clear, At
    <3>2. VerdictInv(Top)
      BY <3>1, TopFacts
    <3> QED
      BY <2>5, <3>1, <3>2 DEF Clear, Answer, OkMeansTokenized, VerdictInv, Late
  <2> QED
    BY <2>1, <2>2, <2>3, <2>4, <2>5
       DEF Next, Step, vars, Call, NestedCall, NewPool, AnchorPool,
           HookAlloc, HookFree, Tokenize, Destroyed
<1> QED
  BY <1>1, <1>2, SessionAlways, PTL DEF Spec
=============================================================================
