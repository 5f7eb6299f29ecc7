------------------------------- MODULE Json5 -------------------------------
(***************************************************************************)
(* json5_parse of src/json5.c: yyjson reads the text into a document in    *)
(* the temporary pool, copy_tree copies it into the pool of the            *)
(* representation with an explicit stack of frames, and the document is    *)
(* released.  One iteration of copy_tree's loop is one step.               *)
(*                                                                         *)
(* A document is a tree from the bottom up: a sequence of nodes in the     *)
(* order of the text, each with its parent.                                *)
(***************************************************************************)
EXTENDS Value, FiniteSetsExt, SequencesExt

CONSTANTS
    Documents,      \* the documents that attribute values can contain
    Invalid,        \* a text that is not JSON5
    FirstCapacity,  \* frames of the first stack, 16 in the code
    MaxFrames       \* SIZE_MAX / sizeof(json5_frame_t)

Node == [type : ValueTypes, parent : Nat, key : Keys \cup {NoKey}]

\* The text is wrapped in braces, so the root is an object.  In the order of
\* the text a node's predecessors back to its parent are the parent's.
IsDocument(d) ==
    /\ d \in Seq(Node) /\ d # <<>>
    /\ d[1] = [type |-> "object", parent |-> Null, key |-> NoKey]
    /\ \A k \in 2..Len(d) :
        /\ d[k].parent \in 1..(k - 1) /\ d[d[k].parent].type \in Containers
        /\ \A j \in (d[k].parent + 1)..(k - 1) : d[j].parent >= d[k].parent
        /\ IF d[d[k].parent].type = "object" THEN d[k].key \in Keys ELSE d[k].key = NoKey

ASSUME Json5Assumption ==
    /\ \A d \in Documents : IsDocument(d)
    /\ Invalid \notin Documents
    /\ FirstCapacity \in Nat \ {0} /\ MaxFrames \in Nat

VARIABLES
    pc,         \* where the call is
    source,     \* the document, or Invalid
    heap,       \* the values in the pool of the representation
    stuck,      \* blocks made for values that the pool did not take back
    frames,     \* the stack: source, target and the last child visited
    capacity,   \* frames the stack has room for
    pending,    \* the container at hand, which needs a frame
    status,     \* 0, or -1
    cause,      \* json5_error_t: what yyjson says of the text
    errno,
    reason      \* why the call fails (ghost)

json5Vars == <<pc, source, heap, stuck, frames, capacity, pending, status, cause, errno,
               reason>>

Frame == [source : Nat, target : Nat, at : Nat]
Pending == [source : Nat, target : Nat]
Causes == {"none", "memory", "syntax"}
Errnos == {"clean", "ENOMEM", "EINVAL"}
Reasons == {"none", "duplicate", "syntax", "memory"}

\* A call into Lua that succeeds may leave errno behind: an allocation that
\* succeeds after an emergency collection.
MayTouchErrno == errno' \in {errno, "ENOMEM"}

FailMemory(point) ==
    /\ pc' = point /\ status' = -1
    /\ errno' = "ENOMEM" /\ reason' = "memory"

-----------------------------------------------------------------------------
(* yyjson_read_opts *)

ReadErrno_InputOutput(kind) == IF kind = "memory" THEN "ENOMEM" ELSE "EIO"

\* yyjson's error code.
ReadErrno(kind) == IF kind = "memory" THEN "ENOMEM" ELSE "EINVAL"

\* It may run out of memory before it sees that the text is invalid.
Read ==
    /\ pc = "read"
    /\ \/ /\ source # Invalid
          /\ pc' = "root" /\ MayTouchErrno
          /\ UNCHANGED <<status, cause, reason>>
       \/ \E kind \in {"memory", "syntax"} :
            /\ kind = "syntax" => source = Invalid
            /\ pc' = "report" /\ status' = -1
            /\ cause' = kind /\ errno' = ReadErrno(kind) /\ reason' = kind
    /\ UNCHANGED <<source, heap, stuck, frames, capacity, pending>>

-----------------------------------------------------------------------------
(* copy_tree *)

\* The constructor c fails with the heap as h: NULL or -1 is returned, or an error
\* of Lua's leaves parse_data.
BuildFails(h, c) ==
    \E f \in FailuresOf(c) :
        /\ heap' = [h EXCEPT !.blocks = @ + f.left]
        /\ stuck' = stuck + f.stuck
        /\ IF f.raised THEN pc' = "raised" /\ UNCHANGED <<status, errno, reason>>
           ELSE FailMemory("free")

CopyRoot ==
    /\ pc = "root"
    /\ \/ /\ heap' = NewValue(heap, source[1].type)
          /\ pending' = [source |-> 1, target |-> Len(heap'.values)]
          /\ pc' = "push" /\ MayTouchErrno
          /\ UNCHANGED <<stuck, status, reason>>
       \/ BuildFails(heap, NewValueOf(source[1].type)) /\ UNCHANGED pending
    /\ UNCHANGED <<source, frames, capacity, cause>>

NewFrame_SameTarget(p) ==
    [source |-> p.source, at |-> p.source,
     target |-> IF frames = <<>> THEN p.target ELSE Last(frames).target]

NewFrame(p) == [source |-> p.source, at |-> p.source, target |-> p.target]

\* push_frame: a full stack is doubled, which moves it.
Full == Len(frames) = capacity
Doubled == IF capacity = 0 THEN FirstCapacity ELSE 2 * capacity
PushFrame ==
    /\ pc = "push"
    /\ \/ /\ Full => Doubled <= MaxFrames
          /\ capacity' = IF Full THEN Doubled ELSE capacity
          /\ IF Full THEN MayTouchErrno ELSE UNCHANGED errno
          /\ frames' = Append(frames, NewFrame(pending))
          /\ pc' = "loop"
          /\ UNCHANGED <<status, reason>>
       \/ Full /\ FailMemory("free") /\ UNCHANGED <<frames, capacity>>
    /\ UNCHANGED <<source, heap, stuck, pending, cause>>

\* yyjson_arr_iter_next, yyjson_obj_iter_next on the innermost frame.
Top == Last(frames)
Rest(frame) == {k \in DOMAIN source : source[k].parent = frame.source /\ k > frame.at}

\* The next child is copied and appended to the frame's target; one that is a
\* container gets a frame next.
CopyChild(k) ==
    /\ heap' = AppendValue(NewValue(heap, source[k].type), Top.target,
                           source[k].key, Len(heap.values) + 1)
    /\ pending' = [source |-> k, target |-> Len(heap'.values)]
    /\ frames' = [frames EXCEPT ![Len(frames)].at = k]
    /\ pc' = IF source[k].type \in Containers THEN "push" ELSE "loop"
    /\ MayTouchErrno
    /\ UNCHANGED <<stuck, status, reason>>

\* copy_value or the append fails, the latter with the copy made.
CopyChildFails(k) ==
    /\ \/ BuildFails(heap, NewValueOf(source[k].type))
       \/ BuildFails(NewValue(heap, source[k].type), AppendTo(heap.values[Top.target].type))
    /\ frames' = [frames EXCEPT ![Len(frames)].at = k]
    /\ UNCHANGED pending

VisitChild ==
    /\ pc = "loop"
    /\ Rest(Top) # {}
    /\ CopyChild(Min(Rest(Top))) \/ CopyChildFails(Min(Rest(Top)))
    /\ UNCHANGED <<source, capacity, cause>>

LeaveContainer_Kept ==
    /\ pc = "loop"
    /\ Rest(Top) = {}
    /\ frames' = IF Len(frames) = 1 THEN <<>> ELSE frames
    /\ IF Len(frames) = 1 THEN pc' = "free" /\ status' = 0
       ELSE UNCHANGED <<pc, status>>
    /\ UNCHANGED <<source, heap, stuck, capacity, pending, cause, errno, reason>>

\* No child is left: depth--, and with the last frame the copy is complete.
LeaveContainer ==
    /\ pc = "loop"
    /\ Rest(Top) = {}
    /\ frames' = Front(frames)
    /\ IF Len(frames) = 1 THEN pc' = "free" /\ status' = 0
       ELSE UNCHANGED <<pc, status>>
    /\ UNCHANGED <<source, heap, stuck, capacity, pending, cause, errno, reason>>

\* yyjson_doc_free, whose effect on errno is undone.
FreeDocument ==
    /\ pc = "free"
    /\ pc' = "report"
    /\ UNCHANGED <<source, heap, stuck, frames, capacity, pending, status, cause, errno,
                   reason>>

-----------------------------------------------------------------------------
(* The document as a tree, for comparison with TreeOf *)

ChildrenOf(d, p) == {k \in DOMAIN d : d[k].parent = p}

\* The child that n - 1 others come before.
NthChild(d, p, n) ==
    CHOOSE k \in ChildrenOf(d, p) :
        Cardinality({j \in ChildrenOf(d, p) : j < k}) = n - 1
DocumentTree(d) ==
    LET tree[k \in DOMAIN d] ==
            [type |-> d[k].type,
             members |-> [n \in 1..Cardinality(ChildrenOf(d, k)) |->
                <<d[NthChild(d, k, n)].key, tree[NthChild(d, k, n)]>>]]
    IN  tree[1]
=============================================================================
