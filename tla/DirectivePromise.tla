-------------------------- MODULE DirectivePromise --------------------------
(***************************************************************************)
(* What src/directive_parse.h promises of one element: a directive is      *)
(* handled at once and entirely, or not at all.                            *)
(***************************************************************************)
EXTENDS Integers

CONSTANT NoData     \* the value is not JSON5; the element has no x-data

VARIABLES
    value,      \* what the attribute at hand says
    data,       \* the element's data, or NoData
    answer      \* of the last call that returned

Init == data = NoData /\ answer = "unmatched"

NextAttribute == UNCHANGED <<data, answer>>
Handled ==
    /\ data = NoData /\ value # NoData
    /\ data' = value /\ answer' = "handled"
    /\ UNCHANGED value
NotMatched == answer' = "unmatched" /\ UNCHANGED <<value, data>>
Refused == answer' = "failed" /\ UNCHANGED <<value, data>>

Next == NextAttribute \/ Handled \/ NotMatched \/ Refused

Spec == Init /\ [][Next]_<<value, data, answer>>
=============================================================================
