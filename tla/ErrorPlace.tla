----------------------------- MODULE ErrorPlace -----------------------------
(***************************************************************************)
(* Where a directive error is: html_start_tag_range of src/html_lexbor.c   *)
(* finds the bytes of the start tag from what Lexbor says of its token,    *)
(* push_directive_error_meta of src/compile.c shows them in a snippet.     *)
(* Snippets of any other range of any source are in the model as well.     *)
(***************************************************************************)
EXTENDS Snippet

CONSTANTS
    StartTags,      \* start tags in templates
    NoTag,
    NoPosition,     \* the NULL pointer
    LessThan, GreaterThan

\* A start tag: the template, the span of its name and, of each attribute, the
\* ends of its name and value as Lexbor gives them; where it really begins and ends.
\* Its names and values lie in it, and its other ">" lie in them.
EndsIn(t) ==
    {t.nameEnd} \cup {t.attrs[n].nameEnd : n \in DOMAIN t.attrs}
                \cup {t.attrs[n].valueEnd : n \in DOMAIN t.attrs}
ASSUME StartTagAssumption ==
    \A t \in StartTags :
        /\ t.text # NoSource /\ Sized(t.text)
        /\ t.first \in Nat /\ t.past \in (t.first + 1)..Len(t.text)
        /\ t.text[t.past] = GreaterThan
        /\ t.nameStart \in {t.first + 1, NoPosition}
        /\ Len(t.attrs) \in Nat /\ DOMAIN t.attrs = 1..Len(t.attrs)
        /\ EndsIn(t) \subseteq t.first..(t.past - 1) \cup {NoPosition}
        /\ \A k \in (t.first + 1)..(t.past - 1) :
              t.text[k] = GreaterThan => \E p \in EndsIn(t) \ {NoPosition} : k <= p

VARIABLES
    tag,        \* the token at hand
    attr        \* attributes passed so far

placeVars == <<vars, tag, attr>>

PlaceInit ==
    /\ attr = 0
    /\ \/ Init /\ tag = NoTag
       \/ /\ tag \in StartTags
          /\ pc = "range" /\ source = tag.text
          /\ start = 0 /\ end = 0 /\ context = 0
          /\ LocalsInit

\* html_source_offset
HasOffset(position) == position # NoPosition /\ position <= Length

TagBegins ==
    /\ HasOffset(tag.nameStart) /\ tag.nameStart > 0
    /\ Text[tag.nameStart] = LessThan
    /\ HasOffset(tag.nameEnd)

NameSpan ==
    /\ pc = "range"
    /\ TagBegins
    /\ start' = tag.nameStart - 1
    /\ end' = tag.nameEnd
    /\ pc' = "attributes"
    /\ UNCHANGED <<source, context, scan, startPlace, endPlace, bounds, cursor, line, rows,
                   tag, attr>>

\* html_open_element aborts.
Refuse ==
    /\ pc = "range"
    /\ ~TagBegins
    /\ pc' = "refused"
    /\ UNCHANGED <<arguments, scan, startPlace, endPlace, bounds, cursor, line, rows, tag, attr>>

EndsOf_Names(a) == {a.nameEnd}
EndsOf(a) == {a.nameEnd, a.valueEnd}

\* The cursor, here end, passes the attribute's name and value.
PassAttribute ==
    /\ pc = "attributes"
    /\ attr < Len(tag.attrs)
    /\ attr' = attr + 1
    /\ end' = Max({end} \cup {p \in EndsOf(tag.attrs[attr + 1]) : HasOffset(p)})
    /\ UNCHANGED <<pc, source, start, context, scan, startPlace, endPlace, bounds, cursor,
                   line, rows, tag>>

\* From there the next ">" ends the tag.
FindEnd ==
    /\ pc = "attributes"
    /\ attr = Len(tag.attrs)
    /\ IF end < Length /\ Text[end + 1] # GreaterThan
       THEN end' = end + 1 /\ UNCHANGED <<pc, context>>
       ELSE /\ end' = IF end < Length THEN end + 1 ELSE end
            /\ pc' = "call" /\ context' = 2
    /\ UNCHANGED <<source, start, scan, startPlace, endPlace, bounds, cursor, line, rows,
                   tag, attr>>

PlaceStep ==
    \/ NameSpan \/ Refuse \/ PassAttribute \/ FindEnd
    \/ Step /\ UNCHANGED <<tag, attr>>
PlaceNext ==
    \/ PlaceStep
    \/ pc \in {"done", "refused"} /\ UNCHANGED placeVars

PlaceSpec == PlaceInit /\ [][PlaceNext]_placeVars /\ WF_placeVars(PlaceStep)
-----------------------------------------------------------------------------
\* One type invariant for both modules.
PlaceTypeOK ==
    /\ pc \in {"range", "attributes", "refused"} \/ TypeOK
    /\ start \in SizeT /\ end \in 0..SizeMax
    /\ tag # NoTag => attr \in 0..Len(tag.attrs)

\* The range of an error is the start tag, from its "<" to its own ">": not to one in
\* an attribute's value, and the tag's other ">" is not passed over either.
RangeIsTheTag ==
    tag # NoTag /\ pc \in {"call", "done"} => start = tag.first /\ end = tag.past
=============================================================================
