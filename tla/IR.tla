--------------------------------- MODULE IR ---------------------------------
(***************************************************************************)
(* The intermediate representation of src/ir.c as a sequence of nodes; a   *)
(* node is named by its place in the sequence and 0 is NULL.  Children are *)
(* in singly linked lists with head, tail and count, as in the code.       *)
(* Strings are not modelled, only the pool blocks that hold them.          *)
(***************************************************************************)
EXTENDS Construction

NoNode == 0
NodeTypes == {"root", "element", "text", "comment"}

\* tag is the tag name of an element.  start and end (ghost) are the first and
\* the last token of the template that the node was made of.
Node(tags) ==
    [type : NodeTypes, tag : tags, next : Nat, parent : Nat, linked : BOOLEAN,
     head : Nat, tail : Nat, count : Nat, attrs : Nat, directives : BOOLEAN,
     start : Nat, end : Nat]

\* init_node
InitNode(type, tag, start, end) ==
    [type |-> type, tag |-> tag, next |-> NoNode, parent |-> NoNode,
     linked |-> type = "root", head |-> NoNode, tail |-> NoNode, count |-> 0,
     attrs |-> 0, directives |-> FALSE, start |-> start, end |-> end]

\* The pool blocks of a node: itself, the copied string of all but the root,
\* three blocks for an attribute (itself, name, value), one for directives.
NodeBlocks(n) ==
    (IF n.type = "root" THEN 1 ELSE 2)
        + 3 * n.attrs + (IF n.directives THEN 1 ELSE 0)

\* ir_set_source: the copies of the template's name and text.
SourceBlocks == 2

-----------------------------------------------------------------------------
(* The constructors, as in Construction *)

SetSource == <<{}, {1}>>                    \* the name, the text
NewRoot == <<{}>>
NewElement == <<{}, {1}>>                   \* the tag, the node
NewText == <<{}, {1}>>                      \* the text, the node
NewComment == <<{}, {1}>>
AppendAttr_ValueKept == <<{}, {1}, {1}>>
AppendAttr == <<{}, {1}, {1, 2}>>           \* the name, the value, the attribute
SetData == <<{}>>                           \* element->directives

-----------------------------------------------------------------------------
(* Child lists *)

AppendChild_TailKept(nodes, parent, child) ==
    LET tail == nodes[parent].tail
        linked == IF tail = NoNode
                  THEN [nodes EXCEPT ![parent].head = child, ![parent].tail = child]
                  ELSE [nodes EXCEPT ![tail].next = child]
    IN  [linked EXCEPT ![child].parent = parent, ![child].linked = TRUE,
                       ![parent].count = @ + 1]

\* ir_append_child, when CanAppend.
CanAppend(nodes, parent, child) ==
    /\ parent # NoNode /\ child # NoNode
    /\ nodes[parent].type \in {"root", "element"}
    /\ nodes[child].type # "root"
    /\ ~nodes[child].linked
    /\ parent # child
AppendChild(nodes, parent, child) ==
    LET tail == nodes[parent].tail
        linked == IF tail = NoNode
                  THEN [nodes EXCEPT ![parent].head = child]
                  ELSE [nodes EXCEPT ![tail].next = child]
    IN  [linked EXCEPT ![child].parent = parent, ![child].linked = TRUE,
                       ![parent].tail = child, ![parent].count = @ + 1]

\* A new node at the end of its parent's children.
AppendNew(nodes, parent, node) ==
    AppendChild(Append(nodes, node), parent, Len(nodes) + 1)

-----------------------------------------------------------------------------
Children(nodes, p) == {c \in DOMAIN nodes : nodes[c].linked /\ nodes[c].parent = p}

\* The list of p from head to tail is its children in the order they were made.
ListSound(nodes, p) ==
    LET C == Children(nodes, p)
        First(S) == IF S = {} THEN NoNode ELSE CHOOSE c \in S : \A d \in S : c <= d
        Last(S)  == IF S = {} THEN NoNode ELSE CHOOSE c \in S : \A d \in S : d <= c
    IN  /\ nodes[p].head = First(C)
        /\ nodes[p].tail = Last(C)
        /\ nodes[p].count = Cardinality(C)
        /\ \A c \in C : nodes[c].next = First({d \in C : c < d})
=============================================================================
