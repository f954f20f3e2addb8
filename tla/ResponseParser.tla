--------------------------- MODULE ResponseParser ---------------------------
(***************************************************************************)
(* The ESC/POS response parser: the bytes a printer sends back carry no    *)
(* delimiters, and the parser attributes each to a GS ( H acknowledgement, *)
(* an automatic status frame, the oldest real-time question, the oldest    *)
(* queued question, or nothing. It is fed whatever chunks the socket       *)
(* delivers, under the runtime's io_mutex_, while the worker registers     *)
(* questions, resets it between phases, and collects what it found.        *)
(*                                                                         *)
(* Bytes are real byte values. What the printer sends is any sequence of   *)
(* `Messages': whole frames and single answers, among them tokens whose    *)
(* characters carry a status signature, and stray bytes that begin a frame *)
(* nobody finishes. The drain loop is one action per turn.                 *)
(*                                                                         *)
(* Step_QueuedFirst is a faulty variant, kept to show that the properties  *)
(* can fail.                                                               *)
(***************************************************************************)
EXTENDS Integers, Sequences, FiniteSets

CONSTANTS
    MaxMessages,\* bound: messages of the printer
    MaxAsked    \* bound: questions since the last reset

\* External: two acknowledgements, an automatic status frame, a real-time answer, a
\* queued answer, and strays: a lone signature byte, a lone 0x37, a frame's first two.
Messages ==
    {<<55, 34, 48, 50, 55, 34, 0>>, <<55, 34, 48, 48, 48, 48, 0>>, <<16, 48, 16, 24>>,
     <<50>>, <<0>>, <<48>>, <<55>>, <<55, 34>>}

Kinds == {"PrinterStatus", "OfflineCause"}

VARIABLES
    buffer,     \* buffer_
    realtime,   \* realtime_: kinds asked with DLE EOT, oldest first
    queued,     \* queued_
    out,        \* the events reported since the last reset
    mode,       \* "ready", or the running drain: "feed" or "flush"
    stream,     \* every byte fed since the last reset
    asked,      \* questions registered since then, in order
    wire,       \* external: bytes sent and not yet delivered
    sent        \* external: messages sent

vars == <<buffer, realtime, queued, out, mode, stream, asked, wire, sent>>

Init ==
    /\ buffer = <<>> /\ realtime = <<>> /\ queued = 0
    /\ out = <<>> /\ mode = "ready" /\ stream = <<>> /\ asked = <<>>
    /\ wire = <<>> /\ sent = 0

-----------------------------------------------------------------------------
(* What a byte looks like. *)

Bit(value, n) == (value \div 2^n) % 2

\* The fixed bits 0, 1, 4 and 7 of a status byte: 0x10 in an ASB frame, 0x12 in a
\* real-time answer.
Fixed(value, b1) == Bit(value, 0) = 0 /\ Bit(value, 1) = b1 /\ Bit(value, 4) = 1 /\ Bit(value, 7) = 0

LooksLikeAsbByte(value) == Fixed(value, 0)

LooksLikeRealtimeByte(value) == Fixed(value, 1)

PrintableAscii == 32..126

\* The bytes of `b' that are in hand do not contradict a GS ( H frame: 0x37 0x22, four
\* printable bytes, 0x00.
CouldBeGsH(b) ==
    /\ b # <<>>
    /\ \A i \in 1..Len(b) :
         CASE i = 1 -> b[i] = 55
           [] i = 2 -> b[i] = 34
           [] i \in 3..6 -> b[i] \in PrintableAscii
           [] i = 7 -> b[i] = 0
           [] OTHER -> TRUE

CouldBeAsb(b) == b # <<>> /\ \A i \in 1..Len(b) : i <= 4 => LooksLikeAsbByte(b[i])

-----------------------------------------------------------------------------
(* One turn of the drain loop, ResponseParser::step. *)

Emit(kind, n, detail) ==
    /\ out' = Append(out, [kind |-> kind, bytes |-> SubSeq(buffer, 1, n), detail |-> detail])
    /\ buffer' = SubSeq(buffer, n + 1, Len(buffer))
    /\ UNCHANGED mode

\* Too few bytes to tell: a feed leaves them for the next one.
Waiting ==
    /\ mode = "feed"
    /\ \/ CouldBeGsH(buffer) /\ Len(buffer) < 7
       \/ CouldBeAsb(buffer) /\ Len(buffer) < 4

Step_QueuedFirst ==
    /\ mode \in {"feed", "flush"} /\ buffer # <<>> /\ ~Waiting
    /\ IF queued > 0
         THEN Emit("QueuedStatus", 1, "none") /\ queued' = queued - 1 /\ UNCHANGED realtime
         ELSE Emit("UnknownByte", 1, "none") /\ UNCHANGED <<realtime, queued>>
    /\ UNCHANGED <<stream, asked, wire, sent>>

\* The precedence of the reported event: frames, then the oldest real-time question if
\* the byte can answer it, then the oldest queued question, then nothing.
Step ==
    /\ mode \in {"feed", "flush"} /\ buffer # <<>> /\ ~Waiting
    /\ IF CouldBeGsH(buffer) /\ Len(buffer) >= 7
         THEN Emit("GsHAck", 7, SubSeq(buffer, 3, 6)) /\ UNCHANGED <<realtime, queued>>
       ELSE IF CouldBeAsb(buffer) /\ Len(buffer) >= 4
         THEN Emit("AsbStatus", 4, "none") /\ UNCHANGED <<realtime, queued>>
       ELSE IF realtime # <<>> /\ LooksLikeRealtimeByte(Head(buffer))
         THEN Emit("RealtimeStatus", 1, Head(realtime)) /\ realtime' = Tail(realtime) /\ UNCHANGED queued
       ELSE IF queued > 0
         THEN Emit("QueuedStatus", 1, "none") /\ queued' = queued - 1 /\ UNCHANGED realtime
       ELSE Emit("UnknownByte", 1, "none") /\ UNCHANGED <<realtime, queued>>
    /\ UNCHANGED <<stream, asked, wire, sent>>

DrainEnds ==
    /\ mode \in {"feed", "flush"} /\ (buffer = <<>> \/ Waiting) /\ mode' = "ready"
    /\ UNCHANGED <<buffer, realtime, queued, out, stream, asked, wire, sent>>

-----------------------------------------------------------------------------
(* The runtime's calls. *)

Feed ==
    /\ mode = "ready" /\ mode' = "feed"
    /\ \E n \in 1..Len(wire) :
         /\ buffer' = buffer \o SubSeq(wire, 1, n) /\ stream' = stream \o SubSeq(wire, 1, n)
         /\ wire' = SubSeq(wire, n + 1, Len(wire))
    /\ UNCHANGED <<realtime, queued, out, asked, sent>>

PrinterSends ==
    /\ mode = "ready" /\ sent < MaxMessages /\ sent' = sent + 1
    /\ \E m \in Messages : wire' = wire \o m
    /\ UNCHANGED <<buffer, realtime, queued, out, mode, stream, asked>>

\* The probe path's call, once the read side has gone idle as its contract asks.
Flush ==
    /\ mode = "ready" /\ wire = <<>> /\ buffer # <<>> /\ mode' = "flush"
    /\ UNCHANGED <<buffer, realtime, queued, out, stream, asked, wire, sent>>

ExpectRealtime ==
    /\ mode = "ready" /\ Len(asked) < MaxAsked
    /\ \E kind \in Kinds : realtime' = Append(realtime, kind) /\ asked' = Append(asked, kind)
    /\ UNCHANGED <<buffer, queued, out, mode, stream, wire, sent>>

ExpectQueued ==
    /\ mode = "ready" /\ Len(asked) < MaxAsked
    /\ queued' = queued + 1 /\ asked' = Append(asked, "queued")
    /\ UNCHANGED <<buffer, realtime, out, mode, stream, wire, sent>>

\* beginJobIo and the phases that give up on a question.
Reset ==
    /\ mode = "ready" /\ stream # <<>>
    /\ buffer' = <<>> /\ realtime' = <<>> /\ queued' = 0
    /\ out' = <<>> /\ stream' = <<>> /\ asked' = <<>> /\ UNCHANGED <<mode, wire, sent>>

Next == PrinterSends \/ Feed \/ Step \/ DrainEnds \/ Flush \/ ExpectRealtime \/ ExpectQueued \/ Reset

Spec == Init /\ [][Next]_vars

-----------------------------------------------------------------------------
(* Properties. *)

Reported(kind) == {i \in 1..Len(out) : out[i].kind = kind}

\* The bytes of the first n events, and where event n starts in the stream.
Offset(n) == LET before == [i \in 1..n |-> Len(out[i].bytes)]
             IN CASE n = 0 -> 0
                  [] OTHER -> Cardinality({<<i, k>> \in (1..n) \X (1..7) : k <= before[i]})

\* Reported, never dropped (precedence 4): the events' bytes in order, followed by what
\* is held, are exactly the bytes fed since the last reset.
NothingDropped ==
    /\ Offset(Len(out)) + Len(buffer) = Len(stream)
    /\ buffer = SubSeq(stream, Offset(Len(out)) + 1, Len(stream))
    /\ \A i \in 1..Len(out) : out[i].bytes = SubSeq(stream, Offset(i - 1) + 1, Offset(i))

\* The stream is never held hostage: between two feeds what is held could still become
\* a frame, so it is at most six bytes and the next bytes settle it.
HeldCouldBeAFrame ==
    mode = "ready" /\ buffer # <<>> =>
        \/ Len(buffer) < 4 /\ \A i \in 1..Len(buffer) : LooksLikeAsbByte(buffer[i])
        \/ \E f \in {<<55, 34>> \o t \o <<0>> : t \in [1..4 -> {34, 48, 50, 55}]} :
             Len(buffer) < 7 /\ buffer = SubSeq(f, 1, Len(buffer))

\* An acknowledgement is the one frame with a shape of its own: wherever the stream
\* holds one that no earlier frame overlaps, it has been found or is being held,
\* however it was cut into chunks and whatever stood before it; and nothing else is
\* ever reported as one.
AcknowledgementsFound ==
    LET at(p) == /\ p + 6 <= Len(stream) /\ stream[p] = 55 /\ stream[p + 1] = 34 /\ stream[p + 6] = 0
                 /\ \A k \in 2..5 : stream[p + k] \in PrintableAscii
        starts == {Offset(i - 1) + 1 : i \in Reported("GsHAck")}
    IN /\ \A p \in starts : at(p)
       /\ mode = "ready" => \A p \in 1..Len(stream) : at(p) =>
            \/ p \in starts \/ p > Offset(Len(out))
            \/ \E i \in 1..Len(out) : /\ Len(out[i].bytes) > 1
                                      /\ Offset(i - 1) < p + 6 /\ p <= Offset(i)

\* Each question has at most one answer, in the order asked, and a real-time question
\* is only ever answered by a byte of the real-time pattern: a queued question in front
\* of it never takes a byte that could have been its answer.
AnswersInOrder ==
    LET kindsOf(s) == SelectSeq(s, LAMBDA k : k # "queued")
        given == SelectSeq(out, LAMBDA e : e.kind = "RealtimeStatus")
    IN /\ [i \in 1..Len(given) |-> given[i].detail] \o realtime = kindsOf(asked)
       /\ Cardinality(Reported("QueuedStatus")) + queued = Len(asked) - Len(kindsOf(asked))
       /\ \A i \in Reported("RealtimeStatus") : LooksLikeRealtimeByte(out[i].bytes[1])

\* A step gives no real-time answer away while its question waits.
RealtimeFirst ==
    Len(out') > Len(out) /\ realtime # <<>> /\ LooksLikeRealtimeByte(Head(buffer)) =>
        out'[Len(out')].kind = "RealtimeStatus"
=============================================================================
