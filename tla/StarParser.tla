----------------------------- MODULE StarParser -----------------------------
(***************************************************************************)
(* The parser of a Star printer's answers, star::ResponseParser            *)
(* (core/src/star.cpp): eight-byte answers to ESC GS ETX and status blocks *)
(* of the length the profile declares, read from a stream that is cut into *)
(* chunks anywhere, dropped on a new job (reset) and forced out by flush.  *)
(*                                                                         *)
(* Classify_Hasty is a faulty variant, kept to show that the properties    *)
(* can fail.                                                               *)
(***************************************************************************)
EXTENDS Naturals, Sequences, SequencesExt

CONSTANTS AsbBytes,      \* asb_block_bytes_: the length of a status block, 0 for none
          CounterAt,     \* the offset of the byte that holds the counter
          MaxMessages    \* messages the printer sends

VARIABLES wire,      \* bytes sent and not read yet
          buffer,    \* buffer_
          events,    \* the events emitted
          stream,    \* the messages sent
          intact     \* nothing was forced out or dropped on the way

vars == <<wire, buffer, events, stream, intact>>

Prefix == <<27, 29, 3, 1>>
EtxBytes == 8
\* etbCounter, for the bits a status byte of this model has.
EtbCounter(b) == b \div 2

EtxAck(n1, n2, counter) == [kind |-> "EtxAck", n1 |-> n1, n2 |-> n2, counter |-> counter]
AsbStatus(frame) == [kind |-> "AsbStatus", frame |-> frame,
                     counter |-> IF Len(frame) > CounterAt THEN EtbCounter(frame[CounterAt + 1]) ELSE 0]
UnknownByte(b) == [kind |-> "UnknownByte", byte |-> b]

Init == wire = <<>> /\ buffer = <<>> /\ events = <<>> /\ stream = <<>> /\ intact = TRUE

-----------------------------------------------------------------------------
(* step *)

Need == [kind |-> "NeedMore"]

Whole(b) ==
    IF b[1] = Prefix[1] THEN EtxAck(b[5], b[6], b[7]) ELSE AsbStatus(SubSeq(b, 1, AsbBytes))

\* What the buffer starts with: a frame, the beginning of one, or a byte of neither.
Classify_Hasty(b, force) ==
    IF b[1] = Prefix[1]
    THEN IF Len(b) >= EtxBytes /\ SubSeq(b, 1, 4) = Prefix THEN Whole(b)
         ELSE IF Len(b) >= 4 /\ IsPrefix(Prefix, b) /\ ~force THEN Need ELSE UnknownByte(b[1])
    ELSE IF AsbBytes > 0 /\ Len(b) >= AsbBytes THEN Whole(b)
         ELSE IF AsbBytes > 0 /\ ~force THEN Need ELSE UnknownByte(b[1])
Classify(b, force) ==
    IF b[1] = Prefix[1]
    THEN LET known == IF Len(b) < 4 THEN Len(b) ELSE 4
         IN  IF SubSeq(b, 1, known) # SubSeq(Prefix, 1, known) THEN UnknownByte(b[1])
             ELSE IF Len(b) >= EtxBytes THEN Whole(b)
             ELSE IF force THEN UnknownByte(b[1]) ELSE Need
    ELSE IF AsbBytes > 0 /\ Len(b) >= AsbBytes THEN Whole(b)
         ELSE IF AsbBytes > 0 /\ ~force THEN Need ELSE UnknownByte(b[1])

Consumed(e) == IF e.kind = "EtxAck" THEN EtxBytes ELSE IF e.kind = "AsbStatus" THEN AsbBytes ELSE 1

RECURSIVE Steps(_, _, _)
Steps(b, out, force) ==
    IF b = <<>> THEN [rest |-> b, out |-> out]
    ELSE LET e == Classify(b, force)
         IN  IF e = Need THEN [rest |-> b, out |-> out]
             ELSE Steps(SubSeq(b, Consumed(e) + 1, Len(b)), Append(out, e), force)

Parsed(b, force) ==
    /\ buffer' = Steps(b, <<>>, force).rest
    /\ events' = events \o Steps(b, <<>>, force).out

-----------------------------------------------------------------------------

Messages ==
    {[bytes |-> Prefix \o <<n1, 27, c, 0>>, event |-> EtxAck(n1, 27, c)] : n1 \in {1, 27}, c \in {3}}
    \cup {[bytes |-> f, event |-> AsbStatus(f)] : f \in {<<35, 27, 2>>, <<35, 29, 0>>}}

PrinterSends ==
    /\ Len(stream) < MaxMessages
    /\ \E m \in Messages : stream' = Append(stream, m.event) /\ wire' = wire \o m.bytes
    /\ UNCHANGED <<buffer, events, intact>>

Feed ==
    \E n \in 1..Len(wire) :
        /\ Parsed(buffer \o SubSeq(wire, 1, n), FALSE)
        /\ wire' = SubSeq(wire, n + 1, Len(wire))
        /\ UNCHANGED <<stream, intact>>

\* Flush and reset disturb one run once; what follows is parsed as it is.
Flush ==
    /\ intact /\ buffer # <<>>
    /\ Parsed(buffer, TRUE)
    /\ intact' = FALSE
    /\ UNCHANGED <<wire, stream>>

\* A new job begins: what is buffered goes, what is still on its way does not.
Reset ==
    /\ intact /\ buffer # <<>>
    /\ buffer' = <<>>
    /\ intact' = FALSE
    /\ UNCHANGED <<wire, events, stream>>

Next == PrinterSends \/ Feed \/ Flush \/ Reset
Spec == Init /\ [][Next]_vars

-----------------------------------------------------------------------------
(* Properties *)

\* As long as nothing is forced out or dropped, every answer and status block is reported
\* once, whole and in order, however the stream is cut into reads: no answer is shredded
\* into stray bytes and no operand that looks like an ESC starts a frame
\* (ResponseParser::step).
ReportedWhole == intact => IsPrefix(events, stream)

\* Once everything has been read, an undisturbed parser holds nothing back and an unfinished
\* frame never grows beyond the longest frame (ResponseParser::feed).
NothingHeldBack ==
    /\ intact /\ wire = <<>> => buffer = <<>> /\ events = stream
    /\ Len(buffer) < EtxBytes

=============================================================================
