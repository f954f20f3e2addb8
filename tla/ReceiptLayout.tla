----------------------------- MODULE ReceiptLayout -----------------------------
(***************************************************************************)
(* Fitting text to a line: dsl/src/text.cpp (decode, clip, ellipsize, pad, *)
(* wrap) and the columns row of dsl/src/render.cpp (planColumns,           *)
(* columnsRow).  A text is a sequence of glyphs: a letter, a wide glyph, a *)
(* combining mark, a space or a line break.  An input is a text block, a   *)
(* row of cells, or the UTF-8 bytes a model value arrives in.              *)
(***************************************************************************)
EXTENDS Integers, Sequences, FiniteSets, SequencesExt, TLC

CONSTANTS
    MaxText,     \* bound: glyphs in a text block, bytes in a value
    Columns      \* bound: the line widths tried

VARIABLES
    input,       \* the block
    laid         \* what it became: [state, lines, cells, widths, declared]

vars == <<input, laid>>

Total(s) == FoldLeft(LAMBDA a, b : a + b, 0, s)

-----------------------------------------------------------------------------
(* UTF-8 *)

\* Byte classes: "a" below 0x80, "c" a continuation, "2" to "4" the lead of a sequence of
\* that length, "o" a lead that can only be overlong, "f" a byte no sequence starts with.
ByteClasses == {"a", "c", "2", "3", "o", "f"}
SequenceLength(b) == CASE b = "a" -> 1 [] b \in {"2", "o"} -> 2 [] b = "3" -> 3 [] OTHER -> 0

WellFormedAt(bytes, i) ==
    LET n == SequenceLength(bytes[i]) IN
    /\ n > 0 /\ i + n - 1 <= Len(bytes) /\ bytes[i] # "o"
    /\ \A k \in i + 1 .. i + n - 1 : bytes[k] = "c"

\* The characters of the value: [at, length], length 0 for U+FFFD.
RECURSIVE Decode(_, _)
Decode(bytes, i) ==
    IF i > Len(bytes) THEN <<>>
    ELSE IF WellFormedAt(bytes, i)
         THEN <<[at |-> i, length |-> SequenceLength(bytes[i])]>>
              \o Decode(bytes, i + SequenceLength(bytes[i]))
         ELSE <<[at |-> i, length |-> 0]>> \o Decode(bytes, i + 1)

-----------------------------------------------------------------------------
(* Glyphs and lines *)

Glyphs == {" ", "x", "W", "m"}
Break == "n"
ColumnWidth(g) == CASE g = "W" -> 2 [] g = "m" -> 0 [] OTHER -> 1
WidthOf(text) == FoldLeft(LAMBDA n, g : n + ColumnWidth(g), 0, text)

\* The longest prefix that fits: a wide glyph that would straddle the edge is dropped.
Clip(text, columns) ==
    IF columns = 0 THEN <<>>
    ELSE LET over == SelectInSubSeq([i \in DOMAIN text |-> WidthOf(SubSeq(text, 1, i))], 1,
                                    Len(text), LAMBDA w : w > columns)
         IN  IF over = 0 THEN text ELSE SubSeq(text, 1, over - 1)

Ellipsize(text, columns) ==
    IF WidthOf(text) <= columns THEN text
    ELSE IF columns <= 3 THEN Clip(text, columns)
         ELSE Clip(text, columns - 3) \o <<".", ".", ".">>

Blanks(n) == [i \in 1..n |-> " "]
Pad(text, columns, align) ==
    LET clipped == Clip(text, columns)
        slack == columns - WidthOf(clipped)
        leading == CASE align = "right" -> slack [] align = "center" -> slack \div 2 [] OTHER -> 0
    IN  IF columns = 0 THEN <<>> ELSE Blanks(leading) \o clipped \o Blanks(slack - leading)

Split(text, at) ==
    FoldLeft(LAMBDA acc, g : IF g = at THEN Append(acc, <<>>)
                             ELSE Front(acc) \o <<Append(Last(acc), g)>>,
             <<<<>>>>, text)

CharWrap(text, columns) ==
    FoldLeft(LAMBDA acc, g :
                LET current == Last(acc) IN
                IF WidthOf(current) + ColumnWidth(g) > columns /\ current # <<>>
                THEN Append(acc, <<g>>) ELSE Front(acc) \o <<Append(current, g)>>,
             <<<<>>>>, text)

\* A token longer than the line is broken at its edge; a glyph wider than the line stays.
RECURSIVE HardBreak(_, _)
HardBreak(token, columns) ==
    LET head == Clip(token, columns) IN
    IF WidthOf(token) <= columns \/ head = <<>> THEN <<token>>
    ELSE <<head>> \o HardBreak(SubSeq(token, Len(head) + 1, Len(token)), columns)

\* Greedy fill: full lines, then the line being filled.
WordWrap(acc, token, columns) ==
    LET current == Last(acc)
        before == IF current = <<>> THEN Front(acc) ELSE acc
    IN  CASE WidthOf(token) > columns -> before \o HardBreak(token, columns)
          [] WidthOf(token) <= columns /\ current = <<>> -> before \o <<token>>
          [] WidthOf(token) <= columns /\ current # <<>> /\ WidthOf(current) + 1 + WidthOf(token) <= columns ->
                Front(acc) \o <<current \o <<" ">> \o token>>
          [] OTHER -> Append(acc, token)

Words(text, columns) ==
    FoldLeft(LAMBDA acc, token : WordWrap(acc, token, columns), <<<<>>>>,
             SelectSeq(Split(text, " "), LAMBDA t : t # <<>>))

\* Leading spaces are an indent that every line of the paragraph keeps.
WrapParagraph(text, columns, mode) ==
    LET first == SelectInSeq(text, LAMBDA g : g # " ")
        indent == IF first = 0 THEN Len(text) ELSE first - 1
        inner == Words(SubSeq(text, indent + 1, Len(text)), columns - indent)
    IN  CASE mode = "clip" -> <<Clip(text, columns)>>
          [] mode = "ellipsis" -> <<Ellipsize(text, columns)>>
          [] mode = "char" -> CharWrap(text, columns)
          [] mode = "word" /\ indent > 0 /\ indent < columns ->
                [i \in DOMAIN inner |-> Blanks(indent) \o inner[i]]
          [] OTHER -> Words(text, columns)

Wrap(text, columns, mode) ==
    IF columns = 0 THEN <<<<>>>>
    ELSE FoldLeft(LAMBDA acc, p : acc \o WrapParagraph(p, columns, mode), <<>>, Split(text, Break))

-----------------------------------------------------------------------------
(* planColumns *)

\* Fixed cells take what they ask for while there is room.
FixedPlan(cells, columns) ==
    FoldLeftDomain(
        LAMBDA plan, i :
            LET room == columns - Total(plan)
            IN  Append(plan, CASE cells[i].unit = "flex" -> 0
                               [] cells[i].unit # "flex" /\ cells[i].value > room -> room
                               [] OTHER -> cells[i].value),
        <<>>, cells)

Weight(cell) == IF cell.value < 1 THEN 1 ELSE cell.value

\* Flex cells share the rest by weight; each share is taken from what is left by then, and
\* the last cell takes it all.
Flex(room, weight, total, last) ==
    LET share == IF last THEN room ELSE (room * weight) \div total
    IN  IF share = 0 /\ room > 0 THEN 1 ELSE share

PlanColumns(cells, columns) ==
    LET fixed == FixedPlan(cells, columns)
        flex == {i \in DOMAIN cells : cells[i].unit = "flex"}
        total == Total([i \in DOMAIN cells |-> IF i \in flex THEN Weight(cells[i]) ELSE 0])
        Grant(plan, i) ==
            LET last == \A j \in flex : j <= i
            IN  IF i \in flex
                THEN [plan EXCEPT ![i] = Flex(columns - Total(plan), Weight(cells[i]), total, last)]
                ELSE plan
    IN  FoldLeftDomain(Grant, fixed, cells)

\* columnsRow: every cell is wrapped in its width, and the row is as tall as its tallest.
RowLines(cells, widths, wrapped, columns) ==
    LET rows == CHOOSE n \in {Len(w) : w \in ToSet(wrapped)} : \A w \in ToSet(wrapped) : Len(w) <= n
        Cell(i, r) == Pad(IF r <= Len(wrapped[i]) THEN wrapped[i][r] ELSE <<>>, widths[i], cells[i].align)
    IN  [r \in 1..rows |-> Pad(FoldLeftDomain(LAMBDA line, i : line \o Cell(i, r), <<>>, cells),
                               columns, "left")]

-----------------------------------------------------------------------------
Texts == UNION {[1..n -> Glyphs \cup {Break}] : n \in 0..MaxText}
CellTexts == {<<>>, <<"x">>, <<"W">>, <<"x", "x", " ", "x">>, <<"x", "x", "x">>}
Widths == {[unit |-> "flex", value |-> v] : v \in {0, 2}} \cup {[unit |-> "chars", value |-> v] : v \in {0, 1, 3}}
Cells == {w @@ [text |-> t, align |-> a] : w \in Widths, t \in CellTexts, a \in {"left", "right"}}

Short == {c \in Cells : c.text = <<"x">> /\ c.align = "left"}

NotLaid == [state |-> "pending", lines |-> <<>>, cells |-> <<>>, widths |-> <<>>, declared |-> FALSE]

Init ==
    /\ \/ input \in [kind : {"text"}, text : Texts, columns : Columns, mode : {"word", "char", "clip", "ellipsis"}]
       \/ input \in [kind : {"row"}, columns : Columns, mode : {"word", "char"},
                     cells : {<<c>> : c \in Cells} \cup {<<c, d>> : c \in Cells, d \in Cells}
                        \cup {<<a, b, c>> : a \in Short, b \in Short, c \in Short}]
       \/ input \in [kind : {"bytes"}, bytes : UNION {[1..n -> ByteClasses] : n \in 0..MaxText}]
    /\ laid = NotLaid

LayText ==
    /\ input.kind = "text" /\ laid.state = "pending"
    /\ laid' = [laid EXCEPT !.state = "done", !.lines = Wrap(input.text, input.columns, input.mode)]
    /\ UNCHANGED input

LayRow ==
    /\ input.kind = "row" /\ laid.state = "pending"
    /\ LET widths == PlanColumns(input.cells, input.columns)
           wrapped == [i \in DOMAIN input.cells |-> Wrap(input.cells[i].text, widths[i], input.mode)]
       IN  laid' = [state |-> "done", lines |-> RowLines(input.cells, widths, wrapped, input.columns),
                    cells |-> wrapped, widths |-> widths,
                    declared |-> \E i \in DOMAIN widths : input.cells[i].unit # "flex"
                                                          /\ widths[i] < input.cells[i].value]
    /\ UNCHANGED input

DecodeValue ==
    /\ input.kind = "bytes" /\ laid.state = "pending"
    /\ laid' = [laid EXCEPT !.state = "done", !.lines = Decode(input.bytes, 1)]
    /\ UNCHANGED input

Next == LayText \/ LayRow \/ DecodeValue

Spec == Init /\ [][Next]_vars

-----------------------------------------------------------------------------
Inked(text) == SelectSeq(text, LAMBDA g : g \notin {" ", Break})
Done(kind) == laid.state = "done" /\ input.kind = kind

(***************************************************************************)
(* wrap: no line is wider than its columns, unless its indent leaves less  *)
(* than the wide glyph it holds; a columns row is exactly as wide as the   *)
(* line, whatever its cells ask for.                                       *)
(***************************************************************************)
LinesFit ==
    /\ Done("text") => \A i \in DOMAIN laid.lines :
          LET l == laid.lines[i]
              indent == SelectInSeq(l, LAMBDA g : g # " ") - 1
          IN  WidthOf(l) > input.columns => Contains(l, "W") /\ indent + 2 > input.columns
    /\ Done("row") => /\ Total(laid.widths) <= input.columns
                      /\ \A i \in DOMAIN laid.lines : WidthOf(laid.lines[i]) = input.columns

(***************************************************************************)
(* Word and character wrapping keep every glyph of the text in its order,  *)
(* whatever the spaces, breaks and widths, unless the line is narrower     *)
(* than the glyph; and so does a cell that was given room for its glyphs.  *)
(***************************************************************************)
NothingLostInWrapping ==
    /\ Done("text") /\ input.mode \in {"word", "char"} =>
          Inked(FlattenSeq(laid.lines)) = Inked(input.text)
    /\ Done("row") => \A i \in DOMAIN input.cells :
          laid.widths[i] >= 2 => Inked(FlattenSeq(laid.cells[i])) = Inked(input.cells[i].text)

(***************************************************************************)
(* text.hpp: decode replaces every malformed byte and never loses length:  *)
(* a well-formed character is decoded whatever bytes surround it, and      *)
(* every other byte is replaced by one U+FFFD.                             *)
(***************************************************************************)
DecodeResynchronises ==
    Done("bytes") =>
        LET covered == Total([i \in DOMAIN laid.lines |->
                                  IF laid.lines[i].length = 0 THEN 1 ELSE laid.lines[i].length])
        IN  /\ covered = Len(input.bytes)
            /\ \A i \in DOMAIN input.bytes : WellFormedAt(input.bytes, i) =>
                  Contains(laid.lines, [at |-> i, length |-> SequenceLength(input.bytes[i])])
=============================================================================
