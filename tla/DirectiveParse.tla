--------------------------- MODULE DirectiveParse ---------------------------
(***************************************************************************)
(* The directive attributes of one element: on_attribute of src/compile.c, *)
(* directive_parse_attribute and parse_data of src/directive_parse.c, with *)
(* json5_parse below them.  Every allocation may fail.  Where CallsRaise,  *)
(* a call into Lua may also leave by an error that parse_data cannot       *)
(* catch: that of a finalizer before Lua 5.4, or LUA_ERRMEM raised by      *)
(* lua_pushcfunction in Lua 5.1 and LuaJIT.                                *)
(***************************************************************************)
EXTENDS Json5

VARIABLES
    registered,     \* the temporary pool's state table is in the registry
    element_data,   \* element->directives->data_scopes
    message,        \* directive_parse_error_t: message
    answer,         \* what directive_parse_attribute last returned: 0, 1 or -1
    reported        \* the error that on_attribute raised

vars == <<json5Vars, registered, element_data, message, answer, reported>>

Messages == {"none", "duplicate", "invalid", "no memory to parse", "no memory to build",
             "failed to parse", "failed to build"}

\* The error object: its message, its cause, and whether it has the element's
\* place in the template.
Report == [message : Messages \cup {"not supported"}, cause : Causes, place : BOOLEAN]
NoReport == [message |-> "none", cause |-> "none", place |-> FALSE]

\* The points at which a call of parse_data into Lua or yyjson is running.
InParse == {"new", "wrap", "read", "root", "push", "loop", "free", "report", "cleanup"}

TypeOK ==
    /\ pc \in InParse \cup {"idle", "answered", "done", "raised"}
    /\ source = Invalid \/ IsDocument(source)
    /\ heap \in Heap
    /\ stuck \in Nat
    /\ frames \in Seq(Frame)
    /\ capacity \in Nat
    /\ pending \in Pending
    /\ status \in {0, -1}
    /\ cause \in Causes
    /\ errno \in Errnos
    /\ registered \in BOOLEAN
    /\ element_data \in 0..Len(heap.values)
    /\ message \in Messages
    /\ answer \in {"handled", "unmatched", "failed"}
    /\ reported \in Report
    /\ reason \in Reasons

Init ==
    /\ pc = "idle"
    /\ source = Invalid
    /\ heap = EmptyHeap
    /\ stuck = 0
    /\ frames = <<>> /\ capacity = 0
    /\ pending = [source |-> Null, target |-> Null]
    /\ status = -1
    /\ cause = "none"
    /\ errno \in Errnos
    /\ registered = FALSE
    /\ element_data = Null
    /\ message = "none"
    /\ answer = "unmatched"
    /\ reported = NoReport
    /\ reason = "none"

-----------------------------------------------------------------------------
(* on_attribute, directive_parse_attribute and the tests of parse_data     *)

\* No registered parser has the name.
Unknown ==
    /\ pc = "idle"
    /\ pc' = "answered" /\ answer' = "unmatched" /\ message' = "none"
    /\ UNCHANGED <<source, heap, stuck, frames, capacity, pending, status, cause, errno,
                   reason, registered, element_data, reported>>

\* ir_element_has_data: x-data twice on an element.
Duplicate ==
    /\ pc = "idle"
    /\ element_data # Null
    /\ pc' = "answered" /\ answer' = "failed"
    /\ errno' = "EINVAL" /\ message' = "duplicate" /\ reason' = "duplicate"
    /\ UNCHANGED <<source, heap, stuck, frames, capacity, pending, status, cause,
                   registered, element_data, reported>>

Begin(text) ==
    /\ pc = "idle"
    /\ element_data = Null
    /\ pc' = "new"
    /\ source' = text
    /\ UNCHANGED <<heap, stuck, frames, capacity, pending, status, cause, errno,
                   reason, registered, element_data, message, answer, reported>>

\* pool_new, whose failure needs no cleanup.
NewPool ==
    /\ pc = "new"
    /\ \/ /\ pc' = "wrap" /\ registered' = TRUE /\ MayTouchErrno
          /\ UNCHANGED <<answer, message, reason>>
       \/ /\ pc' = "answered" /\ answer' = "failed"
          /\ errno' = "ENOMEM" /\ message' = "no memory to parse" /\ reason' = "memory"
          /\ UNCHANGED registered
    /\ UNCHANGED <<source, heap, stuck, frames, capacity, pending, status, cause,
                   element_data, reported>>

\* The value in braces, in the temporary pool; SIZE_MAX - 3 is beyond any value.
Wrap ==
    /\ pc = "wrap"
    /\ \/ pc' = "read" /\ MayTouchErrno /\ UNCHANGED <<status, reason>>
       \/ FailMemory("cleanup")
    /\ UNCHANGED <<source, heap, stuck, frames, capacity, pending, cause, registered,
                   element_data, message, answer, reported>>

Parse ==
    /\ Read \/ CopyRoot \/ PushFrame \/ VisitChild \/ LeaveContainer \/ FreeDocument
    /\ UNCHANGED <<registered, element_data, message, answer, reported>>

-----------------------------------------------------------------------------
(* parse_data after json5_parse *)

ParseMessage_CauseFirst ==
    IF cause # "none" THEN "invalid"
    ELSE IF errno = "ENOMEM" THEN "no memory to parse" ELSE "failed to parse"

\* The message for a text that was not parsed.
ParseMessage ==
    IF errno = "EINVAL" /\ cause # "none" THEN "invalid"
    ELSE IF errno = "ENOMEM" THEN "no memory to parse" ELSE "failed to parse"

SetData_OnFailure ==
    /\ pc = "report"
    /\ pc' = "cleanup"
    /\ message' = IF status = 0 THEN message ELSE ParseMessage
    /\ element_data' = IF heap.values = <<>> THEN Null ELSE 1
    /\ UNCHANGED <<source, heap, stuck, frames, capacity, pending, status, cause, errno,
                   reason, registered, answer, reported>>

\* The message, or ir_set_data with the copied root.
SetData ==
    /\ pc = "report"
    /\ \/ /\ status # 0
          /\ message' = ParseMessage /\ pc' = "cleanup"
          /\ UNCHANGED <<status, errno, reason, element_data>>
       \/ /\ status = 0
          /\ element_data' = 1 /\ pc' = "cleanup" /\ MayTouchErrno
          /\ UNCHANGED <<status, message, reason>>
       \/ /\ status = 0
          /\ FailMemory("cleanup") /\ message' = "no memory to build"
          /\ UNCHANGED element_data
    /\ UNCHANGED <<source, heap, stuck, frames, capacity, pending, cause, registered,
                   answer, reported>>

DefaultMessage ==
    IF status = 0 \/ message # "none" THEN message
    ELSE IF errno = "ENOMEM" THEN "no memory to parse" ELSE "failed to parse"

Cleanup_EarlyReturn ==
    /\ pc = "cleanup"
    /\ message' = DefaultMessage
    /\ registered' = (registered /\ cause # "none")
    /\ answer' = (IF status = 0 THEN "handled" ELSE "failed") /\ pc' = "answered"
    /\ UNCHANGED <<source, heap, stuck, frames, capacity, pending, status, cause, errno, reason,
                   element_data, reported>>

\* pool_delete, and errno as it was.
Cleanup ==
    /\ pc = "cleanup"
    /\ message' = DefaultMessage
    /\ registered' = FALSE
    /\ answer' = (IF status = 0 THEN "handled" ELSE "failed") /\ pc' = "answered"
    /\ UNCHANGED <<source, heap, stuck, frames, capacity, pending, status, cause, errno, reason,
                   element_data, reported>>

\* An error leaves parse_data where it is; those of the constructors are in
\* BuildFails.
Raise ==
    /\ CallsRaise
    /\ pc \in InParse \ {"root", "loop", "cleanup"}
    /\ pc = "push" => Full
    /\ pc = "report" => status = 0
    /\ pc' = "raised"
    /\ UNCHANGED <<source, heap, stuck, frames, capacity, pending, status, cause, errno,
                   reason, registered, element_data, message, answer, reported>>

\* on_attribute with the answer: the next attribute, or an error.
Answered ==
    /\ pc = "answered"
    /\ \/ /\ answer = "handled"
          /\ pc' = "idle"
          /\ UNCHANGED reported
       \/ /\ answer # "handled"
          /\ pc' = "done"
          /\ reported' =
                CASE answer = "unmatched" -> [message |-> "not supported", cause |-> "none", place |-> FALSE]
                  [] answer = "failed" /\ errno = "ENOMEM" ->
                        [message |-> message, cause |-> "none", place |-> FALSE]
                  [] OTHER -> [message |-> message, cause |-> cause, place |-> TRUE]
    /\ UNCHANGED <<source, heap, stuck, frames, capacity, pending, status, cause, errno,
                   reason, registered, element_data, message, answer>>

Ended == pc \in {"done", "raised"} /\ UNCHANGED vars

Step == NewPool \/ Wrap \/ Parse \/ SetData \/ Cleanup \/ Answered

Next ==
    \/ Unknown
    \/ Duplicate
    \/ \E text \in Documents \cup {Invalid} : Begin(text)
    \/ Step
    \/ Raise
    \/ Ended

\* The C code goes on until it returns.
Spec == Init /\ [][Next]_vars /\ WF_vars(Step)
-----------------------------------------------------------------------------
(* Properties *)

\* What copy_tree's loop has established: the stack is the path from the root
\* to the node at hand, each frame stands at the next one's container, and the
\* values are copies of the first nodes of the document.
FramesFollowDocument ==
    pc \in {"push", "loop"} =>
        /\ \A i \in DOMAIN frames :
            /\ frames[i].target = frames[i].source
            /\ i < Len(frames) => frames[i].at = frames[i + 1].source
        /\ \A v \in DOMAIN heap.values : heap.values[v].type = source[v].type
        /\ pc = "push" =>
            /\ pending = [source |-> Len(heap.values), target |-> Len(heap.values)]
            /\ frames # <<>> => Top.at = pending.source

\* No frame is written outside the stack's block, at any depth and after any
\* number of moves.
FramesFit == Len(frames) <= capacity /\ capacity <= MaxFrames

\* The stack that moves while it is walked is sound.
FramesSound == FramesFollowDocument /\ FramesFit

\* Whichever allocation of whichever constructor fails, the code leaves no string
\* in the pool of the representation that no value refers to, and every list has the
\* tail and the count that its next append relies on.  The pool itself may keep
\* blocks, on the versions of Lua where its calls do, and only when the parse fails.
HeapSound ==
    /\ heap.blocks = BlocksNeeded(heap)
    /\ \A v \in DOMAIN heap.values : ListSound(heap, v)
    /\ stuck # 0 =>
        /\ NilKeyAllocates \/ CallsRaise
        /\ pc = "raised" \/ reason = "memory"

\* The temporary pool is given up on every path that returns.  An error that
\* crosses parse_data leaves it in the registry.
ReleasedUnlessRaised == pc \in {"idle", "answered", "done"} => ~registered

\* The user is told what went wrong, although between the failure and
\* on_attribute's test of errno pools are used and deleted: a text that is not
\* JSON5 with yyjson's reason and the element's place, a lack of memory as such,
\* wherever it occurs.
ReportTrue ==
    pc = "done" /\ answer = "failed" =>
        CASE reason = "duplicate" ->
                reported = [message |-> "duplicate", cause |-> "none", place |-> TRUE]
          [] reason = "syntax" ->
                reported = [message |-> "invalid", cause |-> "syntax", place |-> TRUE]
          [] reason = "memory" ->
                /\ reported.message \in {"no memory to parse", "no memory to build"}
                /\ reported.cause = "none" /\ ~reported.place

\* Every parse ends, whatever the document.
EveryParseEnds == pc \in InParse ~> pc \notin InParse

\* To the element, a directive takes one step.
Promise == INSTANCE DirectivePromise WITH
    NoData <- NoTree,
    value <- IF source = Invalid THEN NoTree ELSE DocumentTree(source),
    data <- IF pc = "cleanup" THEN NoTree ELSE TreeOf(heap, element_data)

\* What directive_parse.h says of the return value: a directive that is handled was
\* attached, the whole document in the order of the text, and with any other answer
\* the element is as before: a copy that failed half way is never attached, and a
\* later attribute that fails takes nothing back.
KeepsPromise == Promise!Spec
=============================================================================
