----------------------------- MODULE MCAnswers ------------------------------
(***************************************************************************)
(* What is concluded from what comes back: the two backchannel parsers and *)
(* the scanner of ePOS replies, which find answers in a stream cut         *)
(* anywhere, and the probe, the path probe and the identification, which   *)
(* conclude from answers what a printer can do, what the path to it proves *)
(* and who made it. They share no state: a behaviour is a behaviour of one *)
(* of them and `part' says of which. The properties are the promises they  *)
(* all make; each component states its share.                              *)
(***************************************************************************)
EXTENDS Naturals, Sequences

VARIABLE part   \* which component this behaviour is of

\* ResponseParser
VARIABLES parserBuffer, realtime, queued, out, mode, parserStream, asked, parserWire, sent
\* StarParser
VARIABLES starFramesWire, starFramesBuffer, events, starFramesStream, intact
\* EposXml
VARIABLES reply, scan
\* Probing
VARIABLES at, records, probe, owed, runtime, report, probes, swaps, late
\* PathProbe
VARIABLES pathStep, finding, heard, dropped, coming, fenced, own, strays
\* Identity
VARIABLES subject, assessment

Parser == INSTANCE ResponseParser WITH
    MaxMessages <- 3, MaxAsked <- 2, buffer <- parserBuffer, stream <- parserStream,
    wire <- parserWire

StarFrames == INSTANCE StarParser WITH
    AsbBytes <- 3, CounterAt <- 2, MaxMessages <- 3, wire <- starFramesWire,
    buffer <- starFramesBuffer, stream <- starFramesStream

Reply == INSTANCE EposXml WITH
    MaxElements <- 2

Probes == INSTANCE Probing WITH
    Endpoints <- {"e1"}, Devices <- {"full", "clone", "token", "status"},
    Policies <- {"Never", "UseStored", "IfUnknown", "Always"}, MaxProbes <- 2,
    MaxSwaps <- 1, MaxLate <- 1

Path == INSTANCE PathProbe WITH
    MaxStrays <- 2

Who == INSTANCE Identity WITH
    Vendors <- {"Epson", "Rongta", "Star"}

parserVars == <<parserBuffer, realtime, queued, out, mode, parserStream, asked, parserWire,
                sent>>
starFramesVars == <<starFramesWire, starFramesBuffer, events, starFramesStream, intact>>
replyVars == <<reply, scan>>
probesVars == <<at, records, probe, owed, runtime, report, probes, swaps, late>>
pathVars == <<pathStep, finding, heard, dropped, coming, fenced, own, strays>>
whoVars == <<subject, assessment>>
vars == <<part, parserVars, starFramesVars, replyVars, probesVars, pathVars, whoVars>>

\* A component the behaviour is not of stands still.
ParserOff ==
    /\ parserBuffer = "off" /\ realtime = "off" /\ queued = "off" /\ out = "off"
    /\ mode = "off" /\ parserStream = "off" /\ asked = "off" /\ parserWire = "off"
    /\ sent = "off"
StarFramesOff ==
    /\ starFramesWire = "off" /\ starFramesBuffer = "off" /\ events = "off"
    /\ starFramesStream = "off" /\ intact = "off"
ReplyOff ==
    /\ reply = "off" /\ scan = "off"
ProbesOff ==
    /\ at = "off" /\ records = "off" /\ probe = "off" /\ owed = "off" /\ runtime = "off"
    /\ report = "off" /\ probes = "off" /\ swaps = "off" /\ late = "off"
PathOff ==
    /\ pathStep = "off" /\ finding = "off" /\ heard = "off" /\ dropped = "off"
    /\ coming = "off" /\ fenced = "off" /\ own = "off" /\ strays = "off"
WhoOff ==
    /\ subject = "off" /\ assessment = "off"

-----------------------------------------------------------------------------
Init ==
    /\ part \in {"parser", "star parser", "epos reply", "probing", "path", "identity"}
    /\ IF part = "parser" THEN Parser!Init ELSE ParserOff
    /\ IF part = "star parser" THEN StarFrames!Init ELSE StarFramesOff
    /\ IF part = "epos reply" THEN Reply!Init ELSE ReplyOff
    /\ IF part = "probing" THEN Probes!Init ELSE ProbesOff
    /\ IF part = "path" THEN Path!Init ELSE PathOff
    /\ IF part = "identity" THEN Who!Init ELSE WhoOff

ParserOnly == UNCHANGED <<part, starFramesVars, replyVars, probesVars, pathVars, whoVars>>
StarFramesOnly == UNCHANGED <<part, parserVars, replyVars, probesVars, pathVars, whoVars>>
ReplyOnly == UNCHANGED <<part, parserVars, starFramesVars, probesVars, pathVars, whoVars>>
ProbesOnly == UNCHANGED <<part, parserVars, starFramesVars, replyVars, pathVars, whoVars>>
PathOnly == UNCHANGED <<part, parserVars, starFramesVars, replyVars, probesVars, whoVars>>
WhoOnly == UNCHANGED <<part, parserVars, starFramesVars, replyVars, probesVars, pathVars>>

ParserSteps == part = "parser" /\ Parser!Next /\ ParserOnly
StarFramesSteps == part = "star parser" /\ StarFrames!Next /\ StarFramesOnly
ReplySteps == part = "epos reply" /\ Reply!Next /\ ReplyOnly
ProbesSteps == part = "probing" /\ Probes!Next /\ ProbesOnly
PathSteps == part = "path" /\ Path!Next /\ PathOnly
WhoSteps == part = "identity" /\ Who!Next /\ WhoOnly

Next ==
    \/ ParserSteps \/ StarFramesSteps \/ ReplySteps \/ ProbesSteps \/ PathSteps \/ WhoSteps

Spec == Init /\ [][Next]_vars

-----------------------------------------------------------------------------
\* Every answer is found and nothing is lost or invented, however the stream is cut into
\* reads and whatever surrounds the answer: the bytes reported and held are the bytes fed, an
\* acknowledgement, a Star frame and the response element are found whole wherever they
\* stand, and what is held back could still become one (ResponseParser::step, star
\* ResponseParser::step, parseResponse).
StreamsReadWhole ==
    /\ part = "parser" =>
       /\ Parser!NothingDropped /\ Parser!HeldCouldBeAFrame
       /\ Parser!AcknowledgementsFound /\ Parser!AnswersInOrder
    /\ part = "star parser" => StarFrames!ReportedWhole /\ StarFrames!NothingHeldBack
    /\ part = "epos reply" => Reply!FindsTheResponse

\* No claim outruns its evidence, but for the two answers that the code takes for another's
\* and the components name: a token fence is only recorded for a device that echoes, and GS r 1
\* for one that answers it or whose earlier answer came late in that phase; silence demotes
\* only what was asked; a printless sweep reports no probed fence; a path is the printer's own
\* only after the printer executed this host's marker, or one that bore the same token; and a
\* maker is trusted only when the address agrees (completionFrom, classify, classifyPath,
\* identify).
ClaimsAreEarned ==
    /\ part = "probing" =>
       /\ Probes!TokenFenceIsReal /\ Probes!QueuedFenceIsReal
       /\ Probes!NeverDemotedUnasked /\ Probes!SweepClaimsNoFence
    /\ part = "path" => Path!AuthorityIsEarned /\ Path!SilenceWasAsked
    /\ part = "identity" => Who!TrustIsCorroborated /\ Who!AddressOutranksClaim

\* A byte that could answer the real-time question that waits is given to it, and to no
\* queued question asked before or after (ResponseParser::step).
RealtimeFirst == [][part = "parser" => Parser!RealtimeFirst]_vars
=============================================================================
