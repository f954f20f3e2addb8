------------------------------ MODULE ReceiptPage ------------------------------
(***************************************************************************)
(* A rendered document on the paper.  Layout::block (dsl/src/render.cpp)   *)
(* turns each block into operations or into a declared degradation; the    *)
(* Emitter and the escpos::Encoder send a command only when what they      *)
(* remember of the printer differs from what the line needs; the engine    *)
(* (PrinterRuntime::buildPayload, buildCut) puts ESC @, margins, reprint   *)
(* banner, verification trailer, feed and cut around it with an encoder of *)
(* its own.  The printer's registers outlive every line and every job.     *)
(*                                                                         *)
(* Abstracted: glyphs (module ReceiptLayout), images and symbols (a block  *)
(* that draws), dots (a media of Width dots).                              *)
(*                                                                         *)
(* CharsPerLine_NoSpacing is a faulty variant, kept to show that the       *)
(* properties can fail.                                                    *)
(***************************************************************************)
EXTENDS Integers, TLC, FiniteSets

CONSTANTS
    Width,          \* media.printable_width_dots
    HeadToCutter,   \* media.head_to_cutter_feed_dots
    MaxBlocks       \* bound: blocks of one document

VARIABLES
    features,       \* RenderProfile: what this printer's path can draw
    phase,          \* where the byte stream is: "idle", "document", "ended"
    reg,            \* the printer's registers
    core,           \* what the engine's encoder remembers of them
    memory,         \* what the document's Encoder and Emitter remember
    clear,          \* dots fed since the last ink, up to HeadToCutter
    line,           \* the last thing printed: [asked, declared, columns, at]
    cuts,           \* the clearance at the last cut, or NoCut
    blocksLeft

vars == <<features, phase, reg, core, memory, clear, line, cuts, blocksLeft>>

Most(a, b) == IF a >= b THEN a ELSE b
Least(a, b) == IF a <= b THEN a ELSE b
Clamp(v, lo, hi) == Most(lo, Least(v, hi))

\* Power-on state: what ESC @ restores and what Encoder and Emitter start from.
PowerOn == [font |-> "A", inverse |-> FALSE, upside |-> FALSE, line |-> 0, letter |-> 0,
            left |-> 0, area |-> Width, align |-> "left", bold |-> FALSE, underline |-> 0,
            size |-> <<1, 1>>, page |-> "PC437"]
NoLine == [asked |-> <<>>, declared |-> {}, columns |-> 0, at |-> PowerOn]
NoCut == -1

-----------------------------------------------------------------------------
(* Styles *)

Plain == [font |-> "A", italic |-> FALSE, rotate |-> FALSE, inverse |-> FALSE,
          upside |-> FALSE, line |-> 0, letter |-> 0, ml |-> 0, indent |-> 0, mr |-> 0,
          align |-> "left", bold |-> FALSE, underline |-> 0, ws |-> 1, hs |-> 1]
Touches == {<<>>, [font |-> "B"], [font |-> "named"], [italic |-> TRUE], [rotate |-> TRUE],
            [bold |-> TRUE, underline |-> 2], [inverse |-> TRUE], [upside |-> TRUE],
            [line |-> 300], [letter |-> 2, ws |-> 2], [letter |-> -1], [letter |-> 300],
            [ml |-> 5, indent |-> -2], [ml |-> 1, indent |-> -2, mr |-> -2],
            [ml |-> -3, indent |-> 4, mr |-> 2], [ml |-> 9, mr |-> 9], [ws |-> 9, hs |-> 0],
            [align |-> "center"], [align |-> "right", font |-> "B", letter |-> 1]}
Styles == {t @@ Plain : t \in Touches}

FontDots(font) == IF font = "B" THEN 2 ELSE 3

CharDots(s) == Most(1, (FontDots(s.font) + Most(0, s.letter)) * Clamp(s.ws, 1, 8))

CharsPerLine_NoSpacing(s) ==
    LET usable == Width - Most(0, s.ml) - Most(0, s.mr) - Most(0, s.indent)
        cell == FontDots(s.font)
    IN  IF usable < cell THEN 1 ELSE usable \div cell
CharsPerLine(s) ==
    LET usable == Width - Most(0, s.ml) - Most(0, s.mr) - Most(0, s.indent)
    IN  IF usable < CharDots(s) THEN 1 ELSE Most(1, usable \div CharDots(s))

\* clampScale: GS ! multiplies by 1..8; any other scale is clamped and declared.
ScaleNotes(s) == {f \in {"ws", "hs"} : s[f] \notin 1..8}

\* Layout::resolve: what this path cannot do is replaced and declared.
Degraded(s) == [s EXCEPT !.bold = @ \/ s.italic, !.rotate = FALSE,
                         !.font = IF @ = "named" THEN "A" ELSE @,
                         !.ws = Clamp(@, 1, 8), !.hs = Clamp(@, 1, 8)]
StyleNotes(s) == {f \in {"italic", "rotate"} : s[f]} \cup ScaleNotes(s)
                 \cup (IF s.font = "named" THEN {"font"} ELSE {})

\* The registers a style asks for.
Registers(s, page) ==
    LET left == Most(0, s.ml + s.indent) IN
    [font |-> s.font, inverse |-> s.inverse, upside |-> s.upside,
     line |-> Clamp(s.line, 0, 255), letter |-> Clamp(s.letter, 0, 255), left |-> left,
     area |-> Most(CharDots(s), Width - left - Most(0, s.mr)), align |-> s.align,
     bold |-> s.bold, underline |-> s.underline,
     size |-> <<Clamp(s.ws, 1, 8), Clamp(s.hs, 1, 8)>>, page |-> page]

-----------------------------------------------------------------------------
(* Sending only what changed *)

\* The registers after the commands for `want' go out, given what the sender remembers.
Sent(r, known, want) ==
    [f \in DOMAIN r |-> IF f \in DOMAIN want /\ want[f] # known[f] THEN want[f] ELSE r[f]]
Remember(known, want) == want @@ known

Ink(l) == line' = l /\ clear' = 0
Fed(dots) == clear' = Least(HeadToCutter, clear + dots) /\ UNCHANGED line

Init ==
    /\ features \in SUBSET {"qr", "barcodes", "images", "cutter", "drawer"}
    /\ phase = "idle" /\ reg = PowerOn /\ core = PowerOn /\ memory = PowerOn
    /\ clear = 0 /\ line = NoLine /\ cuts = NoCut /\ blocksLeft = 0

\* buildPayload up to the content: ESC @, code page, top margin, banner.  The banner's
\* encoder calls come back to left and light.

Begin(page, banner) ==
    /\ phase = "idle" /\ phase' = "document" /\ blocksLeft' = MaxBlocks
    /\ LET fresh == [PowerOn EXCEPT !.page = page]
       IN  IF banner
           THEN /\ reg' = fresh /\ core' = fresh
                /\ Ink([NoLine EXCEPT !.asked = [align |-> "center", page |-> page],
                                      !.at = [fresh EXCEPT !.align = "center"]])
           ELSE reg' = fresh /\ core' = fresh /\ UNCHANGED <<line, clear>>
    \* render starts from power-on defaults and selects the page itself.
    /\ memory' = [PowerOn EXCEPT !.page = page]
    /\ cuts' = NoCut /\ UNCHANGED features

-----------------------------------------------------------------------------
(* Blocks *)

Block == phase = "document" /\ blocksLeft > 0 /\ blocksLeft' = blocksLeft - 1
Quiet == UNCHANGED <<features, phase, core>>

\* Text, divider and columns row.  A padded row is not aligned again by the printer.
TextLine(s, padded) ==
    /\ Block /\ Quiet /\ UNCHANGED cuts
    /\ LET style == Degraded(s)
           want == [Registers(style, memory.page) EXCEPT !.align = IF padded THEN "left" ELSE @]
       IN  /\ reg' = Sent(reg, memory, want) /\ memory' = Remember(memory, want)
           /\ Ink([asked |-> [s EXCEPT !.align = want.align], declared |-> StyleNotes(s),
                   columns |-> CharsPerLine(style), at |-> reg'])

Feed(dots) ==
    /\ Block /\ Quiet /\ UNCHANGED <<reg, memory, cuts>>
    /\ Fed(dots)

\* A block the profile cannot draw is left out, and declared.
Omitted(what) == line' = [NoLine EXCEPT !.asked = [drawn |-> what], !.declared = {"drawn"}]

Omit(what) ==
    /\ Block /\ Quiet /\ UNCHANGED <<reg, memory, cuts, clear>>
    /\ Omitted(what)

\* qr, barcode, image: aligned by the encoder, otherwise as the registers stand.
Drawing(what, align) ==
    /\ Block /\ Quiet /\ UNCHANGED cuts
    /\ what \in features
    /\ LET want == [align |-> align]
       IN  /\ reg' = Sent(reg, memory, want) /\ memory' = Remember(memory, want)
           /\ Ink([asked |-> want, declared |-> {}, columns |-> 0, at |-> reg'])

\* Symbol data the symbology refuses, an image that is not there, a control block that was
\* never bound, a custom block whose handler is missing or declines.
Refused(what) ==
    /\ what \in {"barcodes", "images"} => what \in features
    /\ Omit(what)

Unsupported(what) == what \in {"qr", "barcodes", "images", "cutter", "drawer"} \ features /\ Omit(what)

\* Raw bytes, custom blocks: passed through.  Those that print move no register here.
Raw ==
    /\ Block /\ Quiet /\ UNCHANGED <<reg, memory, cuts>>
    /\ Ink(NoLine)

Kick == Block /\ Quiet /\ "drawer" \in features /\ UNCHANGED <<reg, memory, cuts, clear, line>>

\* max(profile, options): the caller can ask for more clearance and not for less.
Clearance(asked) == Most(HeadToCutter, asked)

CutBlock(asked) ==
    /\ Block /\ Quiet /\ "cutter" \in features /\ UNCHANGED <<reg, memory>>
    /\ Fed(Clearance(asked)) /\ cuts' = clear'

-----------------------------------------------------------------------------
(* The rest of the job *)

\* Verification trailer: the engine's own encoder centres it and comes back to the left.
Trailer ==
    /\ phase = "document" /\ phase' = "ended"
    /\ LET want == [align |-> "center"]
           centred == Sent(reg, core, want)
       IN  /\ Ink([asked |-> want, declared |-> {}, columns |-> 0, at |-> centred])
           /\ reg' = Sent(centred, Remember(core, want), [align |-> "left"])
           /\ core' = Remember(core, [align |-> "left"])
    /\ UNCHANGED <<features, memory, cuts, blocksLeft>>

NoTrailer ==
    /\ phase = "document" /\ phase' = "ended"
    /\ UNCHANGED <<features, reg, core, memory, clear, line, cuts, blocksLeft>>

\* buildCut, after final_feed_lines: feed, then cut.
TrailingCut(bottom) ==
    /\ phase = "ended" /\ phase' = "idle"
    /\ Fed(Clearance(bottom)) /\ cuts' = clear'
    /\ UNCHANGED <<features, reg, core, memory, blocksLeft>>

NoTrailingCut ==
    /\ phase = "ended" /\ phase' = "idle"
    /\ UNCHANGED <<features, reg, core, memory, clear, line, cuts, blocksLeft>>

Next ==
    \/ \E page \in {"PC437", "WPC1252"}, banner \in BOOLEAN : Begin(page, banner)
    \/ \E s \in Styles, padded \in BOOLEAN : TextLine(s, padded)
    \/ \E dots \in {0, 2} : Feed(dots)
    \/ \E what \in {"qr", "barcodes", "images"}, align \in {"left", "center"} : Drawing(what, align)
    \/ \E what \in {"barcodes", "images", "control", "custom"} : Refused(what)
    \/ \E what \in {"qr", "barcodes", "images", "cutter", "drawer"} : Unsupported(what)
    \/ Raw \/ Kick \/ Trailer \/ NoTrailer \/ NoTrailingCut
    \/ \E asked \in {0, 1, HeadToCutter + 1} : CutBlock(asked) \/ TrailingCut(asked)

Spec == Init /\ [][Next]_vars

-----------------------------------------------------------------------------
\* What Emitter::applyStyle brings into range and reports to nobody: spacing a byte cannot
\* hold, a left edge or a right margin below zero, an area without room for one character.
ClampedInSilence(f, s) ==
    CASE f \in {"line", "letter"} -> s[f] \notin 0..255
      [] f = "left" -> s.ml + s.indent < 0
      [] f = "area" -> \/ s.mr < 0
                       \/ Width - Most(0, s.ml + s.indent) - s.mr < CharDots(Degraded(s))
      [] OTHER -> FALSE

(***************************************************************************)
(* Degradation rules of the receipt DSL (docs/receipt-dsl.md): whatever    *)
(* lines, symbols, banners and jobs went before, a line prints with every  *)
(* attribute, scale, spacing and margin its block asked for, or the        *)
(* attribute is declared in the report; a block that is not drawn is       *)
(* declared.  The exceptions, which the code does not declare, are the     *)
(* values of ClampedInSilence.  It rests on three memories of the          *)
(* registers (the engine's encoder, the document's encoder, the Emitter)   *)
(* never being wrong about what they are about to print.                   *)
(***************************************************************************)
AsAskedOrDeclared ==
    LET l == line IN
    /\ \A f \in DOMAIN l.asked \cap DOMAIN l.at :
          \/ l.asked[f] = l.at[f] \/ f \in l.declared
          \/ f = "bold" /\ "italic" \in l.declared
          \/ ClampedInSilence(f, l.asked)
    /\ "ws" \in DOMAIN l.asked =>
          LET s == l.asked IN
          /\ l.at.size[1] = s.ws \/ "ws" \in l.declared
          /\ l.at.size[2] = s.hs \/ "hs" \in l.declared
          /\ l.at.left = s.ml + s.indent \/ ClampedInSilence("left", s)
          /\ l.at.area = Width - l.at.left - s.mr \/ ClampedInSilence("area", s)
          /\ \A f \in {"italic", "rotate"} : s[f] => f \in l.declared
    /\ "drawn" \in DOMAIN l.asked => "drawn" \in l.declared

(***************************************************************************)
(* The columns a line is laid out for (RenderProfile::charsPerLine) fit    *)
(* the print area the Emitter gives the printer for that line, in the      *)
(* character cell the printer then uses: two computations of the same      *)
(* margins that never meet in the code.                                    *)
(***************************************************************************)
LineFitsItsArea ==
    line.columns * (FontDots(line.at.font) + line.at.letter) * line.at.size[1] <= line.at.area

(***************************************************************************)
(* "No setting can reintroduce a clipped ticket": at every cut, in the     *)
(* document or at its end, at least the head-to-cutter distance has been   *)
(* fed since the last ink.                                                 *)
(***************************************************************************)
NothingIsClipped == cuts # NoCut => cuts = HeadToCutter
=============================================================================
