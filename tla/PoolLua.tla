------------------------------ MODULE PoolLua ------------------------------
(***************************************************************************)
(* The Lua bridge to the pool, src/pool_lua.c: each method as one call of  *)
(* the pool and what it makes of the outcome.  Lua programs pass any light *)
(* userdata as a pointer.  A representation's owner uses the same pool     *)
(* through pool_alloc and pool_free.                                       *)
(***************************************************************************)
EXTENDS PoolOwner

CONSTANT Positions   \* the offsets and lengths that programs pass

ASSUME PositionsAssumption == Positions \subseteq SizeT

VARIABLES
    errno,      \* "ok" for 0
    answer,     \* of the method just called: a value, or nil and an error
    moving,     \* the detached block that detach_lua has at hand, or Nil
    values,     \* the detached blocks that are Lua values
    outside     \* a method has touched memory outside a used block (ghost)

bridgeVars == <<errno, answer, moving, values, outside>>
bridgeAll == <<poolVars, ownerVars, bridgeVars>>

TypeCorrect ==
    /\ TypeOK
    /\ OwnerTypeOK
    /\ errno \in {"ok", "EINVAL", "ENOMEM"}
    /\ answer \in {"none", "value", "refused"}
    /\ moving \in Blocks \cup {Nil}
    /\ values \subseteq Blocks
    /\ outside \in BOOLEAN

BridgeInit ==
    /\ Init
    /\ OwnerInit
    /\ errno = "ok"
    /\ answer = "none"
    /\ moving = Nil
    /\ values = {}
    /\ outside = FALSE

Quiet == point = "idle" /\ moving = Nil
Bridge == Quiet /\ kept = {"pool"} /\ UNCHANGED ownerVars

\* errno after a pool call: its error; else as before, or what an allocation
\* that succeeded after an emergency collection left.
ErrnoAfter(before) ==
    errno' \in IF status' # "ok" THEN {status'} ELSE {before, "ENOMEM"}
\* The outcome of a step that is no method.
NotTold == answer' = "none" /\ UNCHANGED <<errno, moving, values, outside>>
Told == answer' = IF status' = "ok" THEN "value" ELSE "refused"

AllocMethod ==
    /\ Bridge
    /\ \/ \E size \in Sizes, alignment \in Alignments : AlignedAlloc(size, alignment)
       \/ \E count, size \in Sizes : Calloc(count, size)
    /\ ErrnoAfter(errno) /\ Told
    /\ UNCHANGED <<moving, values, outside>>

\* pool_free restores errno where it succeeds.
FreeMethod(b) ==
    /\ Bridge
    /\ Free(b)
    /\ errno' = IF status' = "ok" THEN errno ELSE status'
    /\ Told
    /\ UNCHANGED <<moving, values, outside>>

ReallocBefore_Stale == errno

\* pool_realloc_lua sets errno to 0 ahead of the call.
ReallocBefore == "ok"

\* NULL is the answer to a release as it is to a failure: errno tells.
ReallocMethod(b, size) ==
    /\ Bridge
    /\ Realloc(b, size)
    /\ IF b # Nil /\ size = 0
       THEN errno' = IF status' = "ok" THEN ReallocBefore ELSE status'
       ELSE ErrnoAfter(ReallocBefore)
    /\ LET null == status' # "ok" \/ (b # Nil /\ size = 0)
       IN  answer' = IF null /\ ~(b # Nil /\ size = 0 /\ errno' = "ok")
                     THEN "refused" ELSE "value"
    /\ UNCHANGED <<moving, values, outside>>

-----------------------------------------------------------------------------
(* pool_detach_lua *)

DetachMethod(b) ==
    /\ Bridge
    /\ Detach(b)
    /\ ErrnoAfter(errno) /\ Told
    /\ moving' = IF status' = "ok" THEN b ELSE Nil
    /\ UNCHANGED <<values, outside>>

Transfer_ClearedFirst ==
    /\ moving # Nil
    /\ refs' = refs \ {moving}
    /\ values' = IF moving \in refs' THEN values \cup {moving} ELSE values
    /\ moving' = Nil
    /\ UNCHANGED <<ref_L, capacity, used, tables, mem, held, handles, status,
                   ownerVars, errno, answer, outside>>

\* pool_mem_push by the registry reference, which is then given up.
Transfer ==
    /\ moving # Nil
    /\ values' = IF moving \in refs THEN values \cup {moving} ELSE values
    /\ refs' = refs \ {moving}
    /\ moving' = Nil
    /\ UNCHANGED <<ref_L, capacity, used, tables, mem, held, handles, status,
                   ownerVars, errno, answer, outside>>

\* The program forgets a detached block.
DropValue(b) ==
    /\ b \in values
    /\ values' = values \ {b} /\ handles' = handles \ {b}
    /\ answer' = "none"
    /\ UNCHANGED <<ref_L, capacity, used, tables, mem, refs, held, status,
                   ownerVars, errno, moving, outside>>

-----------------------------------------------------------------------------
(* pool_write_lua, pool_read_lua, and with no bytes pool_is_aligned_lua    *)

InBlock_SumWraps(size, offset, count) == PlusT(offset, count) <= size

InBlock(size, offset, count) == offset <= size /\ count <= MinusT(size, offset)

Access(b, offset, count) ==
    LET granted == b \in tables.used_mem_by_block /\ InBlock(mem[b].size, offset, count)
    IN  /\ Bridge
        /\ Answer(IF granted THEN "ok" ELSE "EINVAL")
        /\ outside' = (outside \/ (granted /\ ~(b \in Live /\ offset + count <= mem[b].size)))
        /\ Told
        /\ UNCHANGED <<errno, moving, values>>

-----------------------------------------------------------------------------
\* src/ir.c and src/value.c on the pool of a representation.
IrUse ==
    /\ Quiet /\ kept = {"owner"}
    /\ \/ \E size \in Sizes : AlignedAlloc(size, 0)
       \/ \E b \in Blocks : Free(b)
    /\ NotTold /\ UNCHANGED ownerVars

CollectBlocks(D) ==
    /\ D \cap values = {}
    /\ Collect(D)
    /\ NotTold /\ UNCHANGED ownerVars

Owners ==
    /\ moving = Nil
    /\ OwnerNext
    /\ NotTold

BridgeNext ==
    \/ Owners
    \/ AllocMethod
    \/ \E b \in Blocks \cup {Nil} : FreeMethod(b)
    \/ \E b \in Blocks \cup {Nil}, size \in Sizes : ReallocMethod(b, size)
    \/ \E b \in Blocks \cup {Nil} : DetachMethod(b)
    \/ Transfer
    \/ \E b \in Blocks : DropValue(b)
    \/ \E b \in Blocks, offset, count \in Positions : Access(b, offset, count)
    \/ IrUse
    \/ \E D \in SUBSET Blocks : CollectBlocks(D)

\* The collector completes its cycles and calls the finalizers that are due.
BridgeSpec ==
    /\ BridgeInit /\ [][BridgeNext]_bridgeAll
    /\ WF_bridgeAll(moving = Nil /\ Sweep /\ NotTold)
    /\ \A o \in Objects : WF_bridgeAll(moving = Nil /\ Finalize(o) /\ NotTold)
-----------------------------------------------------------------------------
(* Properties *)

\* A Lua program is told of a failure exactly when the pool refused, although
\* realloc's NULL has two meanings and errno may be left over from another call.
AnswersTrue == answer # "none" /\ moving = Nil => (answer = "refused" <=> status # "ok")

\* Between calls every detached block is a Lua value and no registry reference to
\* it is left, so that the collector frees it after the program has forgotten it,
\* and not before.
DetachedIsLuas ==
    /\ moving = Nil => refs = {} /\ values = handles
    /\ values \subseteq Live

\* read, write and is_aligned stay inside a block that is in use, for every offset
\* and length up to SIZE_MAX and every stale or foreign pointer.
AccessInside == ~outside

\* The chains of unused blocks stay well formed where nil assignments can fail, and
\* no block that has become a Lua value is on one or has a link.
ReuseSound ==
    LET owned == tables.used_mem_by_block \cup refs \cup values
    IN  /\ \E L \in SUBSET Blocks : ChainsOver(tables, mem, owned, L)
        /\ LinksOfIdle(tables, mem, owned)

\* A pool is deleted after the program has given up its owner, on whichever way the
\* owner came to be, or failed to be.
DeletedInTheEnd == kept = {} /\ point = "idle" ~> ~ref_L
=============================================================================
