------------------------------ MODULE Snippet ------------------------------
(***************************************************************************)
(* src/snippet.c: reflow_source_location and reflow_snippet_push.  A loop  *)
(* over the source, or over its lines, is one action per iteration.        *)
(*                                                                         *)
(* Offsets are C's, from 0.  The snippet is a sequence of rows, each with  *)
(* the spaces before its number, the number and what follows the bar; a    *)
(* row of carets has no number.                                            *)
(***************************************************************************)
EXTENDS Integers, Sequences, FiniteSets, FiniteSetsExt

CONSTANTS
    Sources,    \* the templates
    NoSource,   \* the NULL pointer
    SizeMax,    \* SIZE_MAX
    Inputs,     \* the offsets and contexts that callers pass
    Base,       \* of the line numbers, 10 in the code
    NewLine, Blank, Caret,
    NoNumber

\* No template is near SIZE_MAX: an object has PTRDIFF_MAX bytes at most.
Sized(text) == Len(text) \in Nat /\ Len(text) + 2 <= SizeMax

ASSUME SnippetAssumption ==
    /\ SizeMax \in Nat \ {0, 1} /\ Inputs \subseteq 0..SizeMax
    /\ \A s \in Sources : s = NoSource \/ Sized(s)
    /\ Base \in Nat \ {0, 1}
    /\ Blank # Caret
    /\ NoNumber \notin Nat

SizeT == 0..SizeMax
Plus(a, b) == (a + b) % (SizeMax + 1)
Minus(a, b) == (a - b) % (SizeMax + 1)

VARIABLES
    pc,
    source, start, end, context,        \* the arguments
    i, lineStart, place,                \* reflow_source_location
    startPlace, endPlace,
    totalLines, firstLine, lastLine, gutter,
    cursor, line,
    rows                                \* the buffer

arguments == <<source, start, end, context>>
scan == <<i, lineStart, place>>
bounds == <<totalLines, firstLine, lastLine, gutter>>
vars == <<pc, arguments, scan, startPlace, endPlace, bounds, cursor, line, rows>>

Text == IF source = NoSource THEN <<>> ELSE source
Length == Len(Text)
IsNewLine(offset) == Text[offset + 1] = NewLine

Place == [line : SizeT, column : SizeT]
FirstPlace == [line |-> 1, column |-> 1]

LocalsInit ==
    /\ i = 0 /\ lineStart = 0 /\ place = FirstPlace
    /\ startPlace = FirstPlace /\ endPlace = FirstPlace
    /\ totalLines = 1 /\ firstLine = 1 /\ lastLine = 1 /\ gutter = 1
    /\ cursor = 0 /\ line = 1
    /\ rows = <<>>

Init ==
    /\ pc = "call"
    /\ source \in Sources
    /\ start \in Inputs /\ end \in Inputs /\ context \in Inputs
    /\ LocalsInit

-----------------------------------------------------------------------------
(* The range *)

Smaller(a, b) == IF a < b THEN a ELSE b
Larger(a, b) == IF a < b THEN b ELSE a

Clamp_StartFree ==
    /\ pc = "call"
    /\ end' = Larger(Smaller(end, Length), start)
    /\ pc' = "start"
    /\ UNCHANGED <<source, start, context, scan, startPlace, endPlace, bounds, cursor, line, rows>>

\* Both offsets in the source, the end not before the start.
Clamp ==
    /\ pc = "call"
    /\ start' = Smaller(start, Length)
    /\ end' = Larger(Smaller(end, Length), start')
    /\ pc' = "start"
    /\ UNCHANGED <<source, context, scan, startPlace, endPlace, bounds, cursor, line, rows>>

-----------------------------------------------------------------------------
(* reflow_source_location, for start and then for end *)

Offset == IF pc = "start" THEN start ELSE end

LocateStep_ColumnFromBreak ==
    /\ pc \in {"start", "end"}
    /\ i < Offset
    /\ i' = i + 1
    /\ IF IsNewLine(i) THEN place' = [place EXCEPT !.line = Plus(@, 1)] /\ lineStart' = i
       ELSE UNCHANGED <<place, lineStart>>
    /\ UNCHANGED <<pc, arguments, startPlace, endPlace, bounds, cursor, line, rows>>

LocateStep ==
    /\ pc \in {"start", "end"}
    /\ i < Offset
    /\ i' = i + 1
    /\ IF IsNewLine(i) THEN place' = [place EXCEPT !.line = Plus(@, 1)] /\ lineStart' = i + 1
       ELSE UNCHANGED <<place, lineStart>>
    /\ UNCHANGED <<pc, arguments, startPlace, endPlace, bounds, cursor, line, rows>>

Located ==
    LET found == [place EXCEPT !.column = Plus(Minus(Offset, lineStart), 1)] IN
    /\ pc \in {"start", "end"}
    /\ i >= Offset
    /\ IF pc = "start" THEN pc' = "end" /\ startPlace' = found /\ UNCHANGED endPlace
       ELSE pc' = "count" /\ endPlace' = found /\ UNCHANGED startPlace
    /\ i' = 0 /\ lineStart' = 0 /\ place' = FirstPlace
    /\ UNCHANGED <<arguments, bounds, cursor, line, rows>>

-----------------------------------------------------------------------------
(* The lines to show *)

CountLines ==
    /\ pc = "count"
    /\ i < Length
    /\ i' = i + 1
    /\ totalLines' = IF IsNewLine(i) THEN Plus(totalLines, 1) ELSE totalLines
    /\ UNCHANGED <<pc, arguments, lineStart, place, startPlace, endPlace, firstLine,
                   lastLine, gutter, cursor, line, rows>>

\* decimal_width.
DecimalWidth(value) ==
    LET width[n \in 0..value] == IF n >= Base THEN width[n \div Base] + 1 ELSE 1
    IN  width[value]

LastShown_Unclamped == Plus(endPlace.line, context)

\* The subtraction instead of a sum that could wrap.
LastShown == IF context > Minus(totalLines, endPlace.line) THEN totalLines
             ELSE Plus(endPlace.line, context)

Bounds ==
    /\ pc = "count"
    /\ i >= Length
    /\ firstLine' = IF startPlace.line > context THEN startPlace.line - context ELSE 1
    /\ lastLine' = LastShown
    /\ gutter' = DecimalWidth(lastLine')
    /\ pc' = "rows"
    /\ UNCHANGED <<arguments, scan, startPlace, endPlace, totalLines, cursor, line, rows>>

-----------------------------------------------------------------------------
(* The rows *)

\* The first line break from the cursor on, or the end of the source.
LineEnd ==
    LET breaks == {k \in cursor..(Length - 1) : IsNewLine(k)}
    IN  IF breaks = {} THEN Length ELSE Min(breaks)

\* What "%zu" prints has as many digits as the number needs.
Power[n \in Nat] == IF n = 0 THEN 1 ELSE Base * Power[n - 1]
Digits(number) == Min({n \in 1..(number + 1) : number < Power[n]})

\* add_gutter pads the number to the width of the gutter.
LineRow ==
    [pad |-> IF Digits(line) < gutter THEN gutter - Digits(line) ELSE 0,
     number |-> line,
     text |-> SubSeq(Text, cursor + 1, LineEnd)]

HighlightLength ==
    LET before == startPlace.column - 1
        width  == LineEnd - cursor
        length == IF startPlace.line = endPlace.line THEN end - start
                  ELSE IF width > before THEN width - before ELSE 0
    IN  IF length = 0 THEN 1 ELSE length

CaretRow ==
    LET before == startPlace.column - 1
    IN  [pad |-> gutter, number |-> NoNumber,
         text |-> [k \in 1..(before + HighlightLength) |->
                        IF k <= before THEN Blank ELSE Caret]]

NextLine_SkippedKept ==
    /\ pc = "rows"
    /\ line <= lastLine
    /\ rows' = IF line < firstLine THEN rows
               ELSE rows \o <<LineRow>> \o
                    (IF line = startPlace.line THEN <<CaretRow>> ELSE <<>>)
    /\ cursor' = IF LineEnd < Length THEN LineEnd + 1 ELSE LineEnd
    /\ line' = IF line < firstLine THEN line ELSE Plus(line, 1)
    /\ UNCHANGED <<pc, arguments, scan, startPlace, endPlace, bounds>>

\* One iteration: the line and, under the first of the range, the carets.
NextLine ==
    /\ pc = "rows"
    /\ line <= lastLine
    /\ rows' = IF line < firstLine THEN rows
               ELSE rows \o <<LineRow>> \o
                    (IF line = startPlace.line THEN <<CaretRow>> ELSE <<>>)
    /\ cursor' = IF LineEnd < Length THEN LineEnd + 1 ELSE LineEnd
    /\ line' = Plus(line, 1)
    /\ UNCHANGED <<pc, arguments, scan, startPlace, endPlace, bounds>>

Return ==
    /\ pc = "rows"
    /\ line > lastLine
    /\ pc' = "done"
    /\ UNCHANGED <<arguments, scan, startPlace, endPlace, bounds, cursor, line, rows>>

Returned == pc = "done" /\ UNCHANGED vars

Step == Clamp \/ LocateStep \/ Located \/ CountLines \/ Bounds \/ NextLine \/ Return
Next == Step \/ Returned

\* A single thread that goes on until it returns.
Spec == Init /\ [][Next]_vars /\ WF_vars(Step)
-----------------------------------------------------------------------------
(* Lines, said without a loop *)

Breaks == {k \in 0..(Length - 1) : IsNewLine(k)}
LineOf(offset) == Cardinality({k \in Breaks : k < offset}) + 1
OnLine(number) == {k \in 0..Length : LineOf(k) = number}
TextOf(number) ==
    LET offsets == OnLine(number) IN SubSeq(Text, Min(offsets) + 1, Max(offsets))

\* What is to be shown, in numbers without a width.
FirstShown == Larger(LineOf(start) - context, 1)
LastOfSource == Cardinality(Breaks) + 1
Shown == FirstShown..Smaller(LineOf(end) + context, LastOfSource)

-----------------------------------------------------------------------------
(* Properties *)

\* Once clamped the range lies in the source; no cursor leaves the source and no
\* line counter the lines, whatever offsets and context a caller passes.
TypeOK ==
    /\ pc \in {"call", "start", "end", "count", "rows", "done"}
    /\ start \in SizeT /\ end \in SizeT /\ context \in SizeT
    /\ pc # "call" => start <= end /\ end <= Length
    /\ i \in 0..Length /\ lineStart \in 0..i
    /\ {place, startPlace, endPlace} \subseteq Place
    /\ totalLines \in 1..LastOfSource
    /\ firstLine \in 1..LastOfSource /\ lastLine \in 1..LastOfSource
    /\ gutter \in SizeT
    /\ cursor \in 0..Length /\ line \in 1..(LastOfSource + 1)
    /\ Len(rows) <= LastOfSource + 1

\* The location of an offset is the one an editor shows: the line it is on, and one
\* more than the bytes before it on that line.
LocationsRight ==
    pc \in {"rows", "done"} =>
        /\ startPlace = [line |-> LineOf(start),
                         column |-> start - Min(OnLine(LineOf(start))) + 1]
        /\ endPlace = [line |-> LineOf(end),
                       column |-> end - Min(OnLine(LineOf(end))) + 1]

\* The snippet shows the lines of the range and the context around it that the source
\* has, each once, in order and whole, the last line too where the source ends in a
\* line break; no context is so large that a sum wraps and lines are missing.
RowsRight ==
    pc = "done" =>
        LET lines == {n \in DOMAIN rows : rows[n].number # NoNumber}
            Above(n) == {m \in lines : m < n}
        IN  /\ Cardinality(lines) = Cardinality(Shown)
            /\ \A n \in lines :
                /\ rows[n].number = FirstShown + Cardinality(Above(n))
                /\ rows[n].text = TextOf(rows[n].number)

\* One row of carets, under the line where the range starts, with a caret under each
\* byte of the range on that line, and one where the range has none there.
CaretRight ==
    pc = "done" =>
        LET carets == {n \in DOMAIN rows : rows[n].number = NoNumber}
            row == rows[Max(carets)]
            first == Min(OnLine(LineOf(start)))
            marked == {start} \cup {k \in start..(end - 1) :
                                        LineOf(k) = LineOf(start) /\ k \notin Breaks}
        IN  /\ Cardinality(carets) = 1
            /\ Max(carets) > 1 /\ rows[Max(carets) - 1].number = LineOf(start)
            /\ {first + k - 1 : k \in {k \in DOMAIN row.text : row.text[k] = Caret}} = marked

\* The bars are under each other: no number is wider than the gutter, although its
\* width is computed from one number before any is printed.
GutterAligned ==
    \A n \in DOMAIN rows :
        rows[n].pad + (IF rows[n].number = NoNumber THEN 0 ELSE Digits(rows[n].number)) = gutter

\* The snippet is what a reader expects of it, for every range and context.
SnippetRight == RowsRight /\ CaretRight /\ GutterAligned

\* Every call returns, with every context up to SIZE_MAX.
EveryCallReturns == pc = "call" ~> pc = "done"
=============================================================================
