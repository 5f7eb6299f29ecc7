-------------------------- MODULE MCDirectiveParse --------------------------
(***************************************************************************)
(* DirectiveParse with every document of up to MaxNodes nodes, and two     *)
(* with as many containers in each other as the largest stack has frames,  *)
(* and one more.                                                           *)
(***************************************************************************)
EXTENDS DirectiveParse

CONSTANTS key1, key2, MaxNodes

MCKeys == {key1, key2}

\* The containers that a next node can be in: the last node and those around it.
Open(d) ==
    {p \in DOMAIN d : d[p].type \in Containers
                        /\ \A j \in (p + 1)..Len(d) : d[j].parent >= p}

\* The documents with one node more.
Extended(d) ==
    UNION {{Append(d, [type |-> type, parent |-> p, key |-> key]) :
              type \in ValueTypes,
              key \in IF d[p].type = "object" THEN Keys ELSE {NoKey}} : p \in Open(d)}

DocumentsOf[n \in 1..MaxNodes] ==
    IF n = 1 THEN {<<[type |-> "object", parent |-> Null, key |-> NoKey]>>}
    ELSE UNION {Extended(d) : d \in DocumentsOf[n - 1]}

\* n containers in each other and, but in the innermost, another member after it.
Nested(n) ==
    [k \in 1..(2 * n - 1) |->
        IF k <= n
        THEN [type   |-> IF k = 1 THEN "object" ELSE "array",
              parent |-> IF k = 1 THEN Null ELSE k - 1,
              key    |-> IF k = 2 THEN key1 ELSE NoKey]
        ELSE [type   |-> "scalar",
              parent |-> 2 * n - k,
              key    |-> IF k = 2 * n - 1 THEN key2 ELSE NoKey]]

MCDocuments ==
    {Nested(MaxFrames), Nested(MaxFrames + 1)} \cup UNION {DocumentsOf[n] : n \in 1..MaxNodes}
=============================================================================
