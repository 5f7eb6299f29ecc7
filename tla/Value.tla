------------------------------- MODULE Value -------------------------------
(***************************************************************************)
(* The data values of src/value.c in the pool of the representation.  A    *)
(* value and a list cell are named by their place in a sequence; 0 is      *)
(* NULL.  null, booleans and numbers differ only in their contents: they   *)
(* are the type "scalar".  NewValue and AppendValue give the heap after a  *)
(* call that succeeds.                                                     *)
(***************************************************************************)
EXTENDS Construction

CONSTANTS
    Keys,   \* the member names of objects
    NoKey   \* the place of a name in a list item of an array

ASSUME KeysAssumption == NoKey \notin Keys

Null == 0
Containers == {"array", "object"}
ValueTypes == {"scalar", "string"} \cup Containers

\* reflow_value_t with its list; reflow_value_item_t and reflow_value_member_t.
Value == [type : ValueTypes, head : Nat, tail : Nat, count : Nat]
Cell == [next : Nat, key : Keys \cup {NoKey}, value : Nat]

\* blocks counts the pool blocks in use for values, strings and cells.
Heap == [values : Seq(Value), cells : Seq(Cell), blocks : Nat]
EmptyHeap == [values |-> <<>>, cells |-> <<>>, blocks |-> 0]

\* A string has its bytes and a member its key in a block of their own.
ValueBlocks(type) == IF type = "string" THEN 2 ELSE 1
CellBlocks(container) == IF container = "object" THEN 2 ELSE 1

\* reflow_value_new_null ... reflow_value_new_object, as in Construction: the
\* bytes of a string come first.
NewValueOf(type) == IF type = "string" THEN <<{}, {1}>> ELSE <<{}>>
NewValue(h, type) ==
    [h EXCEPT !.values = Append(@, [type |-> type, head |-> Null, tail |-> Null,
                                    count |-> 0]),
              !.blocks = @ + ValueBlocks(type)]

\* The last cell once a cell is appended.
TailAfter(list, cell) == cell

AppendTo_KeyKept(container) == IF container = "object" THEN <<{}, {}>> ELSE <<{}>>

\* reflow_value_array_append, where key is NoKey, and reflow_value_object_append,
\* whose key comes first.
AppendTo(container) == IF container = "object" THEN <<{}, {1}>> ELSE <<{}>>
AppendValue(h, container, key, value) ==
    LET list == h.values[container]
        cell == Len(h.cells) + 1
        cells == Append(h.cells, [next |-> Null, key |-> key, value |-> value])
    IN  [values |-> [h.values EXCEPT ![container] =
                        [list EXCEPT !.head = IF list.tail = Null THEN cell ELSE @,
                                     !.tail = TailAfter(list, cell),
                                     !.count = @ + 1]],
         cells  |-> IF list.tail = Null THEN cells
                    ELSE [cells EXCEPT ![list.tail].next = cell],
         blocks |-> h.blocks + CellBlocks(list.type)]

-----------------------------------------------------------------------------
(* What the lists hold *)

\* The cells of a container as a reader meets them, from head along next.
CellsOf(h, v) ==
    LET nth[n \in 1..h.values[v].count] ==
            IF n = 1 THEN h.values[v].head
            ELSE IF nth[n - 1] = Null THEN Null ELSE h.cells[nth[n - 1]].next
    IN  nth

\* count, tail and the end of the chain agree with what the reader met.
ListSound(h, v) ==
    LET value == h.values[v]
        cells == CellsOf(h, v)
    IN  IF value.count = 0 THEN value.head = Null /\ value.tail = Null
        ELSE /\ value.tail = cells[value.count] /\ value.tail # Null
             /\ h.cells[value.tail].next = Null

\* A value as a tree: its type and its members in order, a key with each.
NoTree == [type |-> "none", members |-> <<>>]
TreeOf(h, root) ==
    LET tree[v \in 0..Len(h.values)] ==
            IF v = Null THEN NoTree
            ELSE [type |-> h.values[v].type,
                  members |-> [n \in 1..h.values[v].count |->
                      LET c == CellsOf(h, v)[n]
                      IN  IF c = Null THEN <<NoKey, NoTree>>
                          ELSE <<h.cells[c].key,
                                 IF h.cells[c].value > v THEN tree[h.cells[c].value]
                                 ELSE NoTree>>]]
    IN  tree[root]

\* The blocks that what was made needs: any other block is lost.
BlocksNeeded(h) ==
    LET strings == {v \in DOMAIN h.values : h.values[v].type = "string"}
        members == {c \in DOMAIN h.cells : h.cells[c].key # NoKey}
    IN  Len(h.values) + Cardinality(strings) + Len(h.cells) + Cardinality(members)
=============================================================================
