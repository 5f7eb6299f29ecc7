--------------------------- MODULE LexborSession ---------------------------
(***************************************************************************)
(* The tokenizer sessions of src/html_lexbor.c.  Lexbor has one allocator  *)
(* for the whole process; its hooks serve it from active_pool, the pool of *)
(* the session that runs.  Wherever a session calls into Lua the collector *)
(* may run a finalizer that compiles another template, so calls nest: the  *)
(* frames below the top of the stack are interrupted ones.                 *)
(***************************************************************************)
EXTENDS Integers, Sequences, FiniteSets

CONSTANTS
    Pools,              \* the pool userdata sessions can get
    Nil,                \* NULL, LUA_NOREF
    MaxHooks,           \* bound: blocks Lexbor asks for in one session
    MaxFinalizers,      \* bound: finalizers that compile, in one outer call
    CFunctionAllocates  \* lua_pushcfunction allocates: Lua 5.1 and LuaJIT

ASSUME SessionAssumption ==
    /\ IsFiniteSet(Pools) /\ Nil \notin Pools
    /\ MaxHooks \in Nat /\ MaxFinalizers \in Nat
    /\ CFunctionAllocates \in BOOLEAN

VARIABLES
    active_pool,    \* static: the pool the hooks use
    frames,         \* the calls of run_operation in progress, innermost last
    states,         \* pools whose state table is in the registry (pool->ref_L)
    anchors,        \* pools the registry keeps alive (ctx->pool_ref)
    blocks,         \* outstanding Lexbor blocks: [owner, pool, n]; owner is
                    \* the depth of the session whose tokenizer has the block
    finalizers,     \* finalizers that can still run and compile
    result,         \* what the last call to return told its caller
    cut_short       \* an error has left cleanup_operation half way (ghost)

vars == <<active_pool, frames, states, anchors, blocks, finalizers, result,
          cut_short>>

\* The points of an operation.
Tokenizing == {"create", "init", "begin", "chunk", "end"}
Points == {"pcall", "new", "ref"} \cup Tokenizing \cup {"destroy", "clear"}
Statuses == {"OK", "MEMORY", "WRONG_STAGE", "ERROR"}
Frame == [pc        : Points,
          pool      : Pools \cup {Nil},     \* ctx->pool
          pool_ref  : Pools \cup {Nil},     \* ctx->pool_ref: what it anchors
          tokenizer : BOOLEAN,              \* ctx->tokenizer # NULL
          status    : Statuses,             \* ctx->status
          raised    : BOOLEAN,              \* lua_pcall caught an error
          hooks     : 0..MaxHooks,          \* blocks Lexbor asked for so far
          ended     : BOOLEAN]              \* ghost: lxb_html_tokenizer_end
                                            \* returned with success

Results == [status : Statuses, raised : BOOLEAN, ended : BOOLEAN]

TypeOK ==
    /\ active_pool \in Pools \cup {Nil}
    /\ frames \in Seq(Frame)
    /\ states \subseteq Pools /\ anchors \subseteq Pools
    /\ blocks \subseteq [owner : Nat, pool : Pools, n : 1..MaxHooks]
    /\ finalizers \in 0..MaxFinalizers
    /\ result \in Results
    /\ cut_short \in BOOLEAN

Init ==
    /\ active_pool = Nil
    /\ frames = <<>>
    /\ states = {} /\ anchors = {} /\ blocks = {}
    /\ finalizers = MaxFinalizers
    /\ result = [status |-> "OK", raised |-> FALSE, ended |-> TRUE]
    /\ cut_short = FALSE

Depth == Len(frames)
Top == frames[Depth]
At(points) == frames # <<>> /\ Top.pc \in points

\* The top frame with some of its fields changed.
Goto(point) == frames' = [frames EXCEPT ![Depth].pc = point]
Stop(status, raised) ==
    frames' = [frames EXCEPT ![Depth].pc = "destroy",
                             ![Depth].status = status,
                             ![Depth].raised = raised]
PopFrame == SubSeq(frames, 1, Depth - 1)
Answer(status, raised, ended) ==
    result' = [status |-> status, raised |-> raised, ended |-> ended]

-----------------------------------------------------------------------------
(* Entering: run_operation *)

NewFrame ==
    [pc |-> "pcall", pool |-> Nil, pool_ref |-> Nil, tokenizer |-> FALSE,
     status |-> "OK", raised |-> FALSE, hooks |-> 0,
     ended |-> FALSE]

Enter_Unguarded ==
    /\ frames' = Append(frames, NewFrame)
    /\ UNCHANGED result

\* A session in progress refuses another one.  The arguments are valid, and
\* setup_allocator has installed the hooks: it fails for a missing hook only.
Enter ==
    \/ /\ active_pool # Nil
       /\ Answer("WRONG_STAGE", FALSE, FALSE)
       /\ UNCHANGED frames
    \/ /\ active_pool = Nil
       /\ frames' = Append(frames, NewFrame)
       /\ UNCHANGED result

\* The program compiles; finalizers of objects made meanwhile may, too.
Call ==
    /\ frames = <<>>
    /\ Enter
    /\ finalizers' = MaxFinalizers
    /\ UNCHANGED <<active_pool, states, anchors, blocks, cut_short>>

\* A finalizer compiles at a point of the top frame where Lua may collect.
NestedCall ==
    /\ At(Points \ {"clear"})
    /\ At({"destroy"}) => Top.tokenizer
    /\ finalizers > 0
    /\ finalizers' = finalizers - 1
    /\ Enter
    /\ UNCHANGED <<active_pool, states, anchors, blocks, cut_short>>

\* reflow_pcall_ex: the closure is pushed before the protected call, so an
\* error here leaves through run_operation and there is nothing to clean up.
EnterProtected ==
    /\ At({"pcall"})
    /\ \/ Goto("new") /\ UNCHANGED result
       \/ frames' = PopFrame /\ Answer("OK", TRUE, FALSE)
    /\ UNCHANGED <<active_pool, states, anchors, blocks, finalizers, cut_short>>

-----------------------------------------------------------------------------
(* The protected operation: begin_session, tokenize_operation *)

NewPool_StatusForgotten ==
    /\ At({"new"})
    /\ \/ \E p \in Pools \ (states \cup {frames[d].pool : d \in 1..Depth}) :
            /\ states' = states \cup {p}
            /\ frames' = [frames EXCEPT ![Depth].pc = "ref", ![Depth].pool = p]
       \/ \E raised \in BOOLEAN : Stop("OK", raised) /\ UNCHANGED states
    /\ UNCHANGED <<active_pool, anchors, blocks, finalizers, result,
                   cut_short>>

\* pool_new registers its state table, returns NULL or raises an error that is
\* not LUA_ERRMEM (an error of a finalizer, before Lua 5.4).
NewPool ==
    /\ At({"new"})
    /\ \/ \E p \in Pools \ (states \cup {frames[d].pool : d \in 1..Depth}) :
            /\ states' = states \cup {p}
            /\ frames' = [frames EXCEPT ![Depth].pc = "ref", ![Depth].pool = p]
       \/ Stop("MEMORY", FALSE) /\ UNCHANGED states
       \/ Stop("OK", TRUE) /\ UNCHANGED states
    /\ UNCHANGED <<active_pool, anchors, blocks, finalizers, result,
                   cut_short>>

\* luaL_ref may raise; only after it does the session become the active one.
AnchorPool ==
    /\ At({"ref"})
    /\ \/ /\ anchors' = anchors \cup {Top.pool}
          /\ active_pool' = Top.pool
          /\ frames' = [frames EXCEPT ![Depth].pc = "create",
                                      ![Depth].pool_ref = Top.pool]
       \/ Stop("OK", TRUE) /\ UNCHANGED <<anchors, active_pool>>
    /\ UNCHANGED <<states, blocks, finalizers, result,
                   cut_short>>

\* lexbor_pool_malloc, lexbor_pool_calloc and lexbor_pool_realloc give Lexbor
\* a block of active_pool.
HookAlloc ==
    /\ At(Tokenizing)
    /\ Top.hooks < MaxHooks
    /\ frames' = [frames EXCEPT ![Depth].hooks = @ + 1]
    /\ blocks' = blocks \cup
            {[owner |-> Depth, pool |-> active_pool, n |-> Top.hooks + 1]}
    /\ UNCHANGED <<active_pool, states, anchors, finalizers, result,
                   cut_short>>

\* lexbor_pool_free; pool_free answers EINVAL for a block of another pool.
HookFree ==
    /\ At(Tokenizing \cup {"destroy"})
    /\ At({"destroy"}) => Top.tokenizer
    /\ \E b \in {x \in blocks : x.owner = Depth /\ x.pool = active_pool} :
            blocks' = blocks \ {b}
    /\ UNCHANGED <<active_pool, frames, states, anchors, finalizers, result,
                   cut_short>>

\* The calls of tokenize_operation, in order: each succeeds, or stops the
\* operation with its status or with an error that crosses Lexbor.
After_ChunkAgain(point) ==
    CASE point = "create" -> "init"
      [] point = "init"   -> "begin"
      [] point = "begin"  -> "chunk"
      [] point = "chunk"  -> "end"
      [] point = "end"    -> "chunk"
After(point) ==
    CASE point = "create" -> "init"
      [] point = "init"   -> "begin"
      [] point = "begin"  -> "chunk"
      [] point = "chunk"  -> "end"
      [] point = "end"    -> "destroy"
FailureStatus(point) == IF point = "create" THEN {"MEMORY"} ELSE {"MEMORY", "ERROR"}

Tokenize ==
    /\ At(Tokenizing)
    /\ \/ frames' = [frames EXCEPT ![Depth].pc = After(Top.pc),
                                   ![Depth].tokenizer = TRUE,
                                   ![Depth].ended = (Top.pc = "end")]
       \/ \E status \in FailureStatus(Top.pc) : Stop(status, FALSE)
       \/ Stop(Top.status, TRUE)
    /\ UNCHANGED <<active_pool, states, anchors, blocks, finalizers, result,
                   cut_short>>

-----------------------------------------------------------------------------
(* Leaving: cleanup_operation *)

\* lxb_html_tokenizer_destroy has returned every block it knows of to the hook.
Destroyed ==
    /\ At({"destroy"})
    /\ Top.tokenizer =>
            ~\E b \in blocks : b.owner = Depth /\ b.pool = active_pool
    /\ frames' = [frames EXCEPT ![Depth].pc = "clear",
                                ![Depth].tokenizer = FALSE]
    /\ UNCHANGED <<active_pool, states, anchors, blocks, finalizers, result,
                   cut_short>>

\* The hook's pool_free pushes a C function outside any protected call: where
\* that allocates, its error leaves cleanup_operation half way.
DestroyRaises ==
    /\ CFunctionAllocates
    /\ At({"destroy"})
    /\ Top.tokenizer
    /\ frames' = PopFrame
    /\ blocks' = {b \in blocks : b.owner # Depth}
    /\ Answer(Top.status, TRUE, FALSE)
    /\ cut_short' = TRUE
    /\ UNCHANGED <<active_pool, states, anchors, finalizers>>

Clear_NotDeleted ==
    /\ At({"clear"})
    /\ active_pool' = IF active_pool = Top.pool THEN Nil ELSE active_pool
    /\ states' = states \ {Top.pool_ref}
    /\ anchors' = anchors \ {Top.pool_ref}
    /\ blocks' = {b \in blocks : b.owner # Depth}
    /\ frames' = PopFrame
    /\ Answer(Top.status, Top.raised, Top.ended)
    /\ UNCHANGED <<finalizers, cut_short>>

\* The session gives up the hooks if it has them, deletes its pool and drops
\* the reference; each is a no-op for a session that did not get so far.
Clear ==
    /\ At({"clear"})
    /\ active_pool' = IF active_pool = Top.pool THEN Nil ELSE active_pool
    /\ states' = states \ {Top.pool}
    /\ anchors' = anchors \ {Top.pool_ref}
    /\ blocks' = {b \in blocks : b.owner # Depth}
    /\ frames' = PopFrame
    /\ Answer(Top.status, Top.raised, Top.ended)
    /\ UNCHANGED <<finalizers, cut_short>>

\* The steps of the innermost call; every other call waits for it.
Step ==
    \/ EnterProtected
    \/ NewPool
    \/ AnchorPool
    \/ HookAlloc
    \/ HookFree
    \/ Tokenize
    \/ Destroyed
    \/ DestroyRaises
    \/ Clear

Next == Call \/ NestedCall \/ Step

\* C code runs on until it returns: the innermost call always takes a step.
Spec == Init /\ [][Next]_vars /\ WF_vars(Step)
-----------------------------------------------------------------------------
(* Properties *)

\* Whatever finalizers compile and whatever fails, the hooks serve a session
\* from its own pool, which is alive: Lexbor never gets a block of another
\* session's pool and never returns one to it.
HooksReachOwnPool ==
    /\ At(Tokenizing) \/ (At({"destroy"}) /\ Top.tokenizer) =>
            /\ active_pool = Top.pool
            /\ Top.pool \in states \cap anchors
    /\ \A b \in blocks : b.owner <= Depth /\ b.pool = frames[b.owner].pool

\* Of all calls in progress only the innermost can have a tokenizer: a session
\* that a finalizer interrupts has none, or the finalizer's was refused.
OneTokenizer == \A d \in 1..(Depth - 1) :
    frames[d].pc \in {"pcall", "new", "ref"} /\ ~frames[d].tokenizer

\* The process-wide hooks have one user at a time, who finds its own pool behind them.
HooksGuarded == HooksReachOwnPool /\ OneTokenizer

\* html_lexbor_internal.h: when the outermost call has returned, by whatever
\* path, no session is active, no state table and no pool is left in the
\* registry: the next compile finds things as the first one did.
SessionsBalanced ==
    frames = <<>> => active_pool = Nil /\ states = {} /\ anchors = {} /\ blocks = {}

\* That is so on every path through begin_session, tokenize_operation and
\* cleanup_operation but one: a cleanup that an error cuts short.
BalancedUnlessCut == cut_short \/ SessionsBalanced

\* A caller told LXB_STATUS_OK by a call that did not raise has had its whole
\* input tokenized.
OkMeansTokenized == result.status = "OK" /\ ~result.raised => result.ended

\* Every compile ends, the interrupted ones too.
EveryCallReturns == frames # <<>> ~> frames = <<>>
=============================================================================
