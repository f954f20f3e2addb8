--------------------------- MODULE StarDocument ---------------------------
(***************************************************************************)
(* A document on a Star printer: buildStarPayload (core/src/driver.cpp),   *)
(* the ESC/POS to Star Line Mode transcoder and the Star encoder           *)
(* (core/src/star.cpp).  The document is a sequence of ESC/POS commands,   *)
(* byte for byte; operands take the values that look like commands         *)
(* themselves.  StarReads is how a Star printer reads the bytes it gets.   *)
(* Documents hold the commands of escpos::Encoder; ESC M, GS L and GS k of *)
(* the receipt DSL are unknown to the transcoder and pass as text.         *)
(***************************************************************************)
EXTENDS Integers, Sequences, FiniteSets, SequencesExt

CONSTANT MaxCommands    \* bound: commands of one document

VARIABLES content,   \* the document's commands
          options,   \* the job's options and the profile's
          payload,   \* the bytes to send
          dropped,   \* what has no Star equivalent, by name
          built

vars == <<content, options, payload, dropped, built>>

ESC == 27
GS == 29
DLE == 16
LF == 10
Question == 63

-----------------------------------------------------------------------------
(* Star's encoder *)

Initialize == <<ESC, 64>>
Align(n) == <<ESC, GS, 97, n>>
Bold(on) == <<ESC, IF on THEN 69 ELSE 70>>
Underline(on) == <<ESC, 45, IF on THEN 1 ELSE 0>>
FeedLines(n) == IF n = 0 THEN <<>> ELSE <<ESC, 97, n>>
Cut(full) == <<ESC, 100, IF full THEN 2 ELSE 3>>

RECURSIVE FeedDots(_)
FeedDots(n) == IF n = 0 THEN <<>>
               ELSE LET step == IF n > 255 THEN 255 ELSE n
                    IN  <<ESC, 74, step>> \o FeedDots(n - step)

\* ESC * r A, one b command per row, ESC * r B.
RasterPacked(data, rowBytes, rows) ==
    <<ESC, 42, 114, 65>>
    \o FlattenSeq([r \in 1..rows |-> <<98, rowBytes, 0>>
                      \o SubSeq(data, (r - 1) * rowBytes + 1, r * rowBytes)])
    \o <<ESC, 42, 114, 66>>

-----------------------------------------------------------------------------
(* transcodeFromEscPos *)

\* One command at i: its length, its Star bytes and the note it leaves; length 0 when the
\* transcoder does not know it there, -1 when it is cut short and the rest goes as it is.
Known(n, out) == [length |-> n, out |-> out, name |-> ""]
Named(n, name) == [length |-> n, out |-> <<>>, name |-> name]
Unknown == Known(0, <<>>)
Short == Known(-1, <<>>)

EscCommand(d, i) ==
    LET have(n) == i + n - 1 <= Len(d)
        second == d[i + 1]
    IN  CASE second = 64 -> Known(2, <<ESC, 64>>)
          [] second = 116 /\ have(3) -> Named(3, "code page")
          [] second = 97 /\ have(3) -> Known(3, Align(d[i + 2]))
          [] second = 69 /\ have(3) -> Known(3, Bold(d[i + 2] # 0))
          [] second = 45 /\ have(3) -> Known(3, Underline(d[i + 2] # 0))
          [] second = 100 /\ have(3) -> Known(3, <<ESC, 97, d[i + 2]>>)
          [] second = 74 /\ have(3) -> Known(3, <<ESC, 74, d[i + 2]>>)
          [] second = 112 /\ have(5) -> Named(5, "drawer")
          [] OTHER -> Unknown

GsCommand(d, i, rasterMode) ==
    LET have(n) == i + n - 1 <= Len(d)
        second == d[i + 1]
        le16(j) == d[j] + 256 * d[j + 1]
    IN  CASE second = 33 /\ have(3) -> Known(3, <<ESC, 105, d[i + 2] % 8, (d[i + 2] \div 16) % 8>>)
          [] second = 86 /\ have(3) ->
                LET length == IF d[i + 2] \in {65, 66} THEN 4 ELSE 3
                IN  IF have(length) THEN Known(length, Cut(d[i + 2] \in {0, 48, 65})) ELSE Short
          [] second = 118 /\ have(3) /\ d[i + 2] = 48 ->
                IF ~have(8) THEN Short
                ELSE LET rowBytes == le16(i + 4)
                         rows == le16(i + 6)
                         total == 8 + rowBytes * rows
                     IN  CASE ~have(total) -> Short
                           [] have(total) /\ rasterMode /\ rowBytes > 0 /\ rows > 0 ->
                                Known(total, RasterPacked(SubSeq(d, i + 8, Len(d)), rowBytes, rows))
                           [] OTHER -> Named(total, "raster")
          [] second = 40 /\ have(5) ->
                LET total == 5 + le16(i + 3)
                IN  CASE ~have(total) -> Short
                      [] have(total) /\ d[i + 2] = 107 -> Named(total, "qr")
                      [] have(total) /\ d[i + 2] = 72 -> Named(total, "fence")
                      [] OTHER -> Named(total, "GS (")
          [] second = 114 /\ have(3) -> Named(3, "queued status")
          [] second = 97 /\ have(3) -> Named(3, "status back")
          [] OTHER -> Unknown

\* What is no command is text: 7-bit bytes as they are, the rest as question marks.
TextByte(b) == IF b < 128 THEN Known(1, <<b>>)
               ELSE [Known(1, <<Question>>) EXCEPT !.name = "non-ASCII"]

At(d, i, rasterMode) ==
    LET two == i < Len(d)
        c == CASE d[i] = ESC /\ two -> EscCommand(d, i)
               [] d[i] = GS /\ two -> GsCommand(d, i, rasterMode)
               [] d[i] = DLE /\ i + 2 <= Len(d) ->
                     IF d[i + 1] = 4 THEN Named(3, "realtime status") ELSE Unknown
               [] OTHER -> Unknown
    IN  IF c.length = 0 THEN TextByte(d[i]) ELSE c

RECURSIVE Transcode(_, _, _, _, _)
Transcode(d, i, rasterMode, out, names) ==
    IF i > Len(d) THEN [bytes |-> out, dropped |-> names]
    ELSE LET c == At(d, i, rasterMode)
         IN  IF c.length = -1 THEN [bytes |-> out \o SubSeq(d, i, Len(d)), dropped |-> names]
             ELSE Transcode(d, i + c.length, rasterMode, out \o c.out,
                            names \cup ({c.name} \ {""}))

-----------------------------------------------------------------------------
(* buildStarPayload *)

Command(name, bytes, star) == [name |-> name, bytes |-> bytes, star |-> star]

\* Commands of escpos::Encoder, and what a Star printer does for each.
Core == {Command("", <<ESC, 64>>, <<<<"init">>>>), Command("code page", <<ESC, 116, GS>>, <<>>),
         Command("", <<ESC, 97, 1>>, <<<<"align", 1>>>>), Command("", <<ESC, 69, 1>>, <<<<"bold", 1>>>>),
         Command("", <<ESC, 69, 0>>, <<<<"bold", 0>>>>), Command("", <<ESC, 45, 2>>, <<<<"underline", 1>>>>),
         Command("", <<ESC, 100, 3>>, <<<<"lines", 3>>>>), Command("", <<ESC, 74, ESC>>, <<<<"dots", ESC>>>>),
         Command("drawer", <<ESC, 112, 0, GS, ESC>>, <<>>),
         Command("", <<GS, 33, 33>>, <<<<"size", 1, 2>>>>),
         Command("", <<GS, 86, 0>>, <<<<"cut", 2>>>>), Command("", <<GS, 86, 66, ESC>>, <<<<"cut", 3>>>>),
         Command("raster", <<GS, 118, 48, 0, 1, 0, 2, 0, ESC, 100>>, <<<<"row", ESC>>, <<"row", 100>>>>),
         Command("qr", <<GS, 40, 107, 2, 0, ESC, 100>>, <<>>),
         Command("fence", <<GS, 40, 72, 1, 0, GS>>, <<>>),
         Command("queued status", <<GS, 114, 1>>, <<>>), Command("status back", <<GS, 97, 255>>, <<>>),
         Command("realtime status", <<DLE, 4, 1>>, <<>>),
         Command("", <<65, LF>>, <<<<"text", 65>>, <<"text", LF>>>>),
         Command("non-ASCII", <<200>>, <<<<"text", Question>>>>)}

Init ==
    /\ content \in UNION {[1..n -> Core] : n \in 0..MaxCommands}
    /\ options \in [raster : BOOLEAN, banner : BOOLEAN, drawer : BOOLEAN, verification : BOOLEAN,
                    top : {0, 300}, final : {0, 2}]
    /\ options.banner => options.top = 300 /\ options.final = 2
    /\ options.drawer = options.verification
    /\ payload = <<>> /\ dropped = {} /\ built = FALSE

Banner == Align(1) \o Bold(TRUE) \o <<66, LF>> \o Bold(FALSE) \o Align(0) \o <<LF>>

BuildStarPayload ==
    /\ ~built /\ built' = TRUE
    /\ LET t == Transcode(FlattenSeq([i \in DOMAIN content |-> content[i].bytes]), 1,
                          options.raster, <<>>, {})
       IN  /\ payload' = Initialize \o FeedDots(options.top)
                         \o (IF options.banner THEN Banner ELSE <<>>)
                         \o t.bytes \o FeedLines(options.final)
           /\ dropped' = t.dropped \cup (IF options.drawer THEN {"drawer"} ELSE {})
                         \cup (IF options.verification THEN {"verification"} ELSE {})
    /\ UNCHANGED <<content, options>>

Next == BuildStarPayload
Spec == Init /\ [][Next]_vars

-----------------------------------------------------------------------------
(* What the printer makes of it *)

RECURSIVE StarReads(_, _)
StarReads(b, i) ==
    LET one(n, effect) == <<effect>> \o StarReads(b, i + n)
        two == i + 1 <= Len(b)
    IN  CASE i > Len(b) -> <<>>
          [] i <= Len(b) /\ b[i] = ESC /\ two /\ b[i + 1] = 64 -> one(2, <<"init">>)
          [] i <= Len(b) /\ b[i] = ESC /\ two /\ b[i + 1] = GS -> one(4, <<"align", b[i + 3]>>)
          [] i <= Len(b) /\ b[i] = ESC /\ two /\ b[i + 1] \in {69, 70} -> one(2, <<"bold", 70 - b[i + 1]>>)
          [] i <= Len(b) /\ b[i] = ESC /\ two /\ b[i + 1] = 45 -> one(3, <<"underline", b[i + 2]>>)
          [] i <= Len(b) /\ b[i] = ESC /\ two /\ b[i + 1] = 97 -> one(3, <<"lines", b[i + 2]>>)
          [] i <= Len(b) /\ b[i] = ESC /\ two /\ b[i + 1] = 74 -> one(3, <<"dots", b[i + 2]>>)
          [] i <= Len(b) /\ b[i] = ESC /\ two /\ b[i + 1] = 100 -> one(3, <<"cut", b[i + 2]>>)
          [] i <= Len(b) /\ b[i] = ESC /\ two /\ b[i + 1] = 105 -> one(4, <<"size", b[i + 2], b[i + 3]>>)
          [] i <= Len(b) /\ b[i] = ESC /\ two /\ b[i + 1] = 42 -> StarReads(b, i + 4)
          \* Inside raster mode only rows and the end of raster mode come.
          [] i <= Len(b) /\ b[i] = 98 -> one(4, <<"row", b[i + 3]>>)
          [] OTHER -> one(1, <<"text", b[i]>>)

Effects(c) == IF c.name = "raster" /\ ~options.raster THEN <<>> ELSE c.star
Prelude == <<<<"init">>>> \o (IF options.top = 0 THEN <<>> ELSE <<<<"dots", 255>>, <<"dots", 45>>>>)
           \o (IF options.banner
               THEN <<<<"align", 1>>, <<"bold", 1>>, <<"text", 66>>, <<"text", LF>>, <<"bold", 0>>,
                      <<"align", 0>>, <<"text", LF>>>> ELSE <<>>)
Postlude == IF options.final = 0 THEN <<>> ELSE <<<<"lines", 2>>>>

-----------------------------------------------------------------------------
(* Properties *)

\* The printer does, in order, what each command asks that Star can do, and nothing else:
\* no operand or symbol data is ever read as a command, no feed becomes a cut
\* (transcodeFromEscPos, buildStarPayload).
ReadAsMeant ==
    built => StarReads(payload, 1) =
                 Prelude \o FlattenSeq([i \in DOMAIN content |-> Effects(content[i])]) \o Postlude

\* What does not reach the paper as asked is named in `dropped', and nothing else is.
MissingIsNamed ==
    built => dropped = ({content[i].name : i \in DOMAIN content}
                        \ (IF options.raster THEN {"", "raster"} ELSE {""}))
                       \cup (IF options.drawer THEN {"drawer", "verification"} ELSE {})

=============================================================================
