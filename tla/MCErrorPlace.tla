---------------------------- MODULE MCErrorPlace ----------------------------
(***************************************************************************)
(* ErrorPlace with every source of up to MaxLength bytes, of which one is  *)
(* ordinary, and with start tags of up to two attributes, whose values     *)
(* contain a ">" or a line break, before, between and after other text.    *)
(***************************************************************************)
EXTENDS ErrorPlace

CONSTANTS byte, quote, MaxLength

MCSources == {NoSource} \cup UNION {[1..n -> {byte, NewLine}] : n \in 0..MaxLength}
MCInputs == 0..5 \cup {30, 31}

\* An attribute: its bytes after the space, and whether it has a value.
Values == {<<>>, <<GreaterThan>>, <<NewLine>>}
Attributes ==
    {[bytes |-> <<Blank, byte>>, valueEnd |-> NoPosition]} \cup
    {[bytes |-> <<Blank, byte, quote>> \o v \o <<quote>>, valueEnd |-> 3 + Len(v)] : v \in Values}

TagOf(before, attrs, after, nameStart) ==
    LET name == Len(before) + 2
        at[n \in 0..Len(attrs)] == IF n = 0 THEN name ELSE at[n - 1] + Len(attrs[n].bytes)
        bytes[n \in 0..Len(attrs)] == IF n = 0 THEN <<>> ELSE bytes[n - 1] \o attrs[n].bytes
    IN  [text      |-> before \o <<LessThan, byte>> \o bytes[Len(attrs)] \o <<GreaterThan>> \o after,
         nameStart |-> IF nameStart THEN name - 1 ELSE NoPosition,
         nameEnd   |-> name,
         attrs     |-> [n \in DOMAIN attrs |->
             [nameEnd  |-> at[n - 1] + 2,
              valueEnd |-> IF attrs[n].valueEnd = NoPosition THEN NoPosition
                           ELSE at[n - 1] + attrs[n].valueEnd]],
         first     |-> Len(before),
         past      |-> at[Len(attrs)] + 1]

MCStartTags ==
    {TagOf(before, attrs, after, named) :
        before \in {<<>>, <<NewLine>>, <<GreaterThan, NewLine, byte>>},
        attrs \in UNION {[1..n -> Attributes] : n \in 0..2},
        after \in {<<>>, <<GreaterThan>>, <<NewLine, byte>>},
        named \in BOOLEAN}
=============================================================================
