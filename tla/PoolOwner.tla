----------------------------- MODULE PoolOwner -----------------------------
(***************************************************************************)
(* Who deletes a pool.  A pool is not released by its own reference count: *)
(* its state table is in the registry until pool_delete, which a Lua       *)
(* finalizer calls.  The finalizer belongs to the representation's owner   *)
(* (ir_new, ir_gc_lua of src/ir.c) or to the pool userdata that the Lua    *)
(* bridge returns (new_lua, pool_gc_lua of src/pool_lua.c).  Each call of  *)
(* ir_new that allocates is a step, after which a collection may run; one  *)
(* owner exists at a time.                                                 *)
(***************************************************************************)
EXTENDS Pool

VARIABLES
    point,      \* where a creation is: "idle" if none runs
    alive,      \* the userdata and tables on the Lua heap
    stack,      \* those that the creation has on its stack
    kept,       \* the one the Lua program refers to
    armed,      \* those whose finalizer the collector will call
    due,        \* those whose finalizer is to run
    links,      \* which object keeps which alive
    pointer     \* owner->pool # NULL

ownerVars == <<point, alive, stack, kept, armed, due, links, pointer>>
poolVars == <<ref_L, capacity, used, tables, mem, refs, held, handles, status>>

\* The representation's owner, its user value, and the pool's userdata.
Objects == {"owner", "uservalue", "pool"}
OwnerPoints == {"idle", "table", "open", "connect", "metatable"}

OwnerInit ==
    /\ point = "idle"
    /\ alive = {} /\ stack = {} /\ kept = {}
    /\ armed = {} /\ due = {}
    /\ links = {}
    /\ pointer = FALSE

\* What S keeps alive.
WithLinked(S) == S \cup {o \in alive : \E s \in S : <<s, o>> \in links}
KeptBy(S) == WithLinked(WithLinked(S))

-----------------------------------------------------------------------------
(* ir_new_protected *)

\* LUA_ERRMEM, or pool_new's NULL: ir_new restores the stack.
CreationFails ==
    /\ point' = "idle" /\ stack' = {}
    /\ UNCHANGED <<alive, kept, armed, due, links, pointer>>

\* The owner is zeroed and has its metatable before anything else can fail.
NewOwner ==
    /\ point = "idle" /\ alive = {} /\ ~ref_L
    /\ \/ /\ Answer("ok")
          /\ alive' = {"owner"} /\ stack' = {"owner"} /\ armed' = {"owner"}
          /\ point' = "table"
          /\ UNCHANGED <<kept, due, links, pointer>>
       \/ Answer("ENOMEM") /\ UNCHANGED ownerVars

NewUservalue ==
    /\ point = "table"
    /\ \/ /\ Answer("ok")
          /\ alive' = alive \cup {"uservalue"}
          /\ links' = links \cup {<<"owner", "uservalue">>}
          /\ point' = "open"
          /\ UNCHANGED <<stack, kept, armed, due, pointer>>
       \/ Answer("ENOMEM") /\ CreationFails

OpenPool ==
    /\ point = "open"
    /\ New(0)
    /\ IF ref_L' THEN /\ alive' = alive \cup {"pool"} /\ stack' = stack \cup {"pool"}
                      /\ point' = "connect"
                      /\ UNCHANGED <<kept, armed, due, links, pointer>>
       ELSE CreationFails

Connect_PointerOnly ==
    /\ point = "connect"
    /\ pointer' = TRUE
    /\ point' = "idle" /\ stack' = {} /\ kept' = {"owner"}
    /\ UNCHANGED <<poolVars, alive, armed, due, links>>

\* The reference in the reserved slot, then the pointer, then the return of
\* the owner to the caller.
Connect ==
    /\ point = "connect"
    /\ links' = links \cup {<<"uservalue", "pool">>}
    /\ pointer' = TRUE
    /\ point' = "idle" /\ stack' = {} /\ kept' = {"owner"}
    /\ UNCHANGED <<poolVars, alive, armed, due>>

-----------------------------------------------------------------------------
(* new_lua *)

NewLua(cap) ==
    /\ point = "idle" /\ alive = {}
    /\ New(cap)
    /\ IF ref_L' THEN /\ alive' = {"pool"} /\ stack' = {"pool"} /\ point' = "metatable"
                      /\ UNCHANGED <<kept, armed, due, links, pointer>>
       ELSE UNCHANGED ownerVars

\* Nothing that can fail lies between pool_new and the metatable.
SetMetatable ==
    /\ point = "metatable"
    /\ armed' = {"pool"}
    /\ point' = "idle" /\ stack' = {} /\ kept' = {"pool"}
    /\ UNCHANGED <<poolVars, alive, due, links, pointer>>

-----------------------------------------------------------------------------
(* The end of an owner *)

\* The program gives up its last reference.
Drop ==
    /\ kept # {}
    /\ kept' = {}
    /\ UNCHANGED <<poolVars, point, alive, stack, armed, due, links, pointer>>

\* The program does something else.
Elsewhere == point = "idle" /\ UNCHANGED <<poolVars, ownerVars>>

\* A collection: an unreachable object with a finalizer is kept, with what it
\* refers to, until that has run; the others are freed.
Sweep ==
    LET reached == KeptBy(stack \cup kept \cup due)
        newlyDue == armed \ reached
    IN  /\ alive # KeptBy(reached \cup newlyDue) \/ newlyDue # {}
        /\ due' = due \cup newlyDue
        /\ armed' = armed \ newlyDue
        /\ alive' = KeptBy(reached \cup newlyDue)
        /\ links' = links \cap (alive' \X alive')
        /\ UNCHANGED <<poolVars, point, stack, kept, pointer>>

\* Whether o's finalizer has a pool to delete: a pool userdata is one, and an
\* owner has one unless its creation failed.
Deletes(o) == o = "pool" \/ pointer

Finalize_ClearedFirst(o) ==
    /\ o \in due
    /\ due' = due \ {o}
    /\ IF o = "pool" THEN Delete ELSE Answer("ok")
    /\ pointer' = FALSE
    /\ UNCHANGED <<point, alive, stack, kept, armed, links>>

\* ir_gc_lua, pool_gc_lua.
Finalize(o) ==
    /\ o \in due
    /\ due' = due \ {o}
    /\ IF Deletes(o) THEN Delete ELSE Answer("ok")
    /\ pointer' = FALSE
    /\ UNCHANGED <<point, alive, stack, kept, armed, links>>

OwnerNext ==
    \/ NewOwner \/ NewUservalue \/ OpenPool \/ Connect
    \/ \E cap \in Capacities : NewLua(cap)
    \/ SetMetatable
    \/ Drop
    \/ Elsewhere
    \/ Sweep
    \/ \E o \in Objects : Finalize(o)

-----------------------------------------------------------------------------
(* Properties *)

OwnerTypeOK ==
    /\ point \in OwnerPoints
    /\ alive \subseteq Objects
    /\ stack \subseteq alive /\ kept \subseteq alive \cap {"owner", "pool"}
    /\ armed \subseteq alive /\ due \subseteq alive /\ armed \cap due = {}
    /\ links \subseteq alive \X alive
    /\ pointer \in BOOLEAN

\* The owner's pointer never outlives the pool's userdata: ir_pool's callers and the
\* finalizer, which runs when owner, user value and pool are all garbage, find it.
OwnedPoolAlive == pointer => "pool" \in alive

\* A registered state table always has someone who will delete it: the running
\* creation, or an object whose finalizer has yet to run and which knows the pool.
SomeoneDeletes ==
    ref_L => \/ point \in {"connect", "metatable"}
             \/ pointer /\ "owner" \in armed \cup due
             \/ "pool" \in armed \cup due

\* Neither a pool without a finalizer nor a finalizer without its pool.
OwnersSound == OwnedPoolAlive /\ SomeoneDeletes
=============================================================================
