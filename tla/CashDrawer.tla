----------------------------- MODULE CashDrawer -----------------------------
(***************************************************************************)
(* The cash drawer of one ESC/POS printer: the verified opening sequence,  *)
(* the fire-and-forget pulse, the sensor read and the calibration of the   *)
(* switch's polarity.                                                      *)
(*                                                                         *)
(* All three device operations run as tasks of the printer's one worker    *)
(* (WorkerLane), so at most one of them is under way; `step' says where it *)
(* is. The switch is read with GS r 2, a queued question whose answer is   *)
(* one byte that carries no name: whatever byte arrives while a question   *)
(* is outstanding is its answer. An automatic status frame (ASB) reports   *)
(* the same level unasked. The drawer itself, the clerk who pushes it shut *)
(* and the printer are external.                                           *)
(*                                                                         *)
(* The drawer attached here is wired so that a high pin means open, which  *)
(* the engine knows only once it is calibrated.                            *)
(*                                                                         *)
(* Only openDrawer waits for the cooldown of its own pulses, by what this  *)
(* process remembers of them; a plain pulse does not, and is not           *)
(* remembered. The coil has its own memory: `coil'.                        *)
(*                                                                         *)
(* Pulse_Taken is a faulty variant, kept to show that the properties can   *)
(* fail.                                                                   *)
(***************************************************************************)
EXTENDS Integers, Sequences

CONSTANTS
    Late,       \* whether an answer may arrive after its poll has timed out
    MaxPolls,   \* bound: polls inside one verification window
    MaxInFlight,\* bound: status frames under way at one time
    MaxTasks    \* bound: device operations in a behaviour

VARIABLES
    caps,       \* the profile: [kickable, sensor, cooldown]
    polarity,   \* config_.profile.drawer.status.polarity.calibrated
    stored,     \* the calibration in drawer.polarity
    step,         \* where the worker's operation is, "idle" between two
    seq,        \* the operation: [calibrated, before, polls, answered]
    result,     \* what the last openDrawer returned
    pin,        \* drawer_pin_: the last level heard, "none" before any
    expect,     \* parser_.outstandingQueued()
    answers,    \* queued_bytes_
    pulsed,     \* drawer_pulsed_ and still within cooldown_ms of last_drawer_pulse_
    port,       \* the connection
    questions,      \* external: GS r 2 questions the printer has yet to answer
    replies,       \* external: bytes on their way back
    open,       \* external: the drawer is out
    coil,       \* external: who last energised it within the cooldown: "own", a sequence of
                \* this process, "other", a plain pulse or an earlier process, or "cold"
    facts       \* what the properties refer to

host == <<caps, polarity, stored, step, seq, result, pin, expect, answers, pulsed>>
world == <<port, questions, replies, open, coil, facts>>
vars == <<host, world>>

Levels == {"high", "low"}

LevelOf(out) == IF out THEN "high" ELSE "low"

States == {"Open", "KickSentUnverified", "OpenVerified", "FailedToOpen", "NoSensor", "Unknown",
           "Closed"}

\* The profile's facts this sequence turns on: kickable() and a drivable profile, a
\* sensor that can be read, and a non-zero cooldown.
DrawerCapabilities == [kickable : BOOLEAN, sensor : BOOLEAN, cooldown : BOOLEAN]

Blank == [calibrated |-> FALSE, before |-> "none", polls |-> 0, answered |-> FALSE]

NoResult == [state |-> "none", previous |-> "none", pulse |-> FALSE]

(***************************************************************************)
(* facts: `opened' the drawer has been out since the running sequence       *)
(* began, `closed' it has been shut since then, `measured' a level the      *)
(* printer measured after this sequence's pulse has reached the host,       *)
(* `bad' a sequence energised a coil that one of this process had energised *)
(* last, within the cooldown, `buzzed' it energised an open drawer's,       *)
(* `tasks' operations begun.                                                *)
(***************************************************************************)
Ghosts == [opened : BOOLEAN, closed : BOOLEAN, measured : BOOLEAN, bad : BOOLEAN,
           buzzed : BOOLEAN, tasks : 0..MaxTasks]

Init ==
    /\ caps \in DrawerCapabilities
    /\ polarity = FALSE /\ stored \in BOOLEAN
    /\ step = "start" /\ seq = Blank /\ result = NoResult
    /\ pin = "none" /\ expect = 0 /\ answers = <<>> /\ pulsed = FALSE
    /\ port \in BOOLEAN /\ questions = 0 /\ replies = <<>> /\ open = FALSE /\ coil = "cold"
    /\ facts = [opened |-> FALSE, closed |-> TRUE, measured |-> FALSE, bad |-> FALSE,
                buzzed |-> FALSE, tasks |-> 0]

\* The worker's constructor: a stored calibration replaces the profile's.
ApplyStoredDrawerPolarity ==
    /\ step = "start"
    /\ polarity' = stored /\ step' = "idle"
    /\ UNCHANGED <<caps, stored, seq, result, pin, expect, answers, pulsed, world>>

-----------------------------------------------------------------------------
(* The interpretation of a level. *)

DrawerStateFrom(level, calibrated) ==
    IF ~calibrated THEN "Unknown" ELSE IF level = "high" THEN "Open" ELSE "Closed"

\* The verdict on a level seen inside the window.
Opened(level) == IF seq.calibrated THEN level = "high" ELSE level # seq.before

-----------------------------------------------------------------------------
(* One poll of the switch: expectQueued, GS r 2, awaitQueued. *)

\* The question goes out; a refused write forgets it and the poll has no level.
SendPoll(waiting, failed) ==
    \/ /\ port
       /\ expect' = expect + 1 /\ questions' = questions + 1 /\ step' = waiting
       /\ UNCHANGED <<answers, port>>
    \/ /\ ~port
       /\ expect' = 0 /\ answers' = <<>> /\ step' = failed
       /\ UNCHANGED <<questions, port>>

\* awaitQueued takes the oldest queued answer and drawer_pin_ remembers it.
Answered == answers # <<>> /\ answers' = Tail(answers) /\ pin' = Head(answers) /\ UNCHANGED expect

\* The poll's timeout, a lost link or stop: the expectation is forgotten with the phase.
\* Without late answers the printer's reply is either here in time or lost.
Forget ==
    /\ answers = <<>>
    /\ Late \/ ~port \/ (questions = 0 /\ \A i \in 1..Len(replies) : replies[i].kind # "level")
    /\ expect' = 0 /\ answers' = <<>> /\ UNCHANGED pin

-----------------------------------------------------------------------------
(* openDrawer and runDrawerSequence. *)

Begin == [facts EXCEPT !.tasks = @ + 1, !.opened = open, !.closed = ~open, !.measured = FALSE]

Returns(state, previous, pulse) ==
    /\ result' = [state |-> state, previous |-> previous, pulse |-> pulse] /\ step' = "idle"

\* A profile the engine may not fire: zero bytes, nothing claimed.
OpenDrawerRefused ==
    /\ step = "idle" /\ facts.tasks < MaxTasks /\ ~caps.kickable
    /\ Returns("Unknown", "Unknown", FALSE) /\ facts' = Begin
    /\ UNCHANGED <<caps, polarity, stored, seq, pin, expect, answers, pulsed>>
    /\ UNCHANGED <<port, questions, replies, open, coil>>

\* ensureConnected failed: nothing reached the link.
OpenDrawerUnreachable ==
    /\ step = "idle" /\ facts.tasks < MaxTasks /\ caps.kickable /\ ~port
    /\ Returns("Unknown", "Unknown", FALSE) /\ facts' = Begin
    /\ UNCHANGED <<caps, polarity, stored, seq, pin, expect, answers, pulsed>>
    /\ UNCHANGED <<port, questions, replies, open, coil>>

\* The task starts with the profile openDrawer copied; beginJobIo resets the backchannel.
OpenDrawer ==
    /\ step = "idle" /\ facts.tasks < MaxTasks /\ caps.kickable /\ port
    /\ seq' = [Blank EXCEPT !.calibrated = polarity]
    /\ expect' = 0 /\ answers' = <<>> /\ facts' = Begin
    /\ step' = IF caps.sensor THEN "ask_before" ELSE "cool"
    /\ UNCHANGED <<caps, polarity, stored, result, pin, pulsed>>
    /\ UNCHANGED <<port, questions, replies, open, coil>>

AskBefore ==
    /\ step = "ask_before" /\ SendPoll("before", "cool")
    /\ UNCHANGED <<caps, polarity, stored, seq, result, pin, pulsed, replies, open, coil, facts>>

\* Step 1: a drawer read as open is not pulsed.
BeforeAnswered ==
    /\ step = "before" /\ Answered /\ seq' = [seq EXCEPT !.before = pin']
    /\ IF DrawerStateFrom(pin', seq.calibrated) = "Open"
         THEN Returns("Open", "Open", FALSE)
         ELSE step' = "cool" /\ UNCHANGED result
    /\ UNCHANGED <<caps, polarity, stored, pulsed, world>>

BeforeTimesOut ==
    /\ step = "before" /\ Forget /\ step' = "cool"
    /\ UNCHANGED <<caps, polarity, stored, seq, result, pulsed, world>>

\* What the pulse does: the coil takes it if it arrived, and the drawer comes out unless it is
\* locked, jammed or unwired.
Energise(arrived) ==
    /\ open' \in {open, open \/ arrived}
    /\ coil' = IF arrived THEN "own" ELSE coil
    /\ facts' = [facts EXCEPT
         !.bad = @ \/ (arrived /\ caps.cooldown /\ coil = "own"),
         !.buzzed = @ \/ (arrived /\ seq.calibrated /\ seq.before # "none" /\ ~facts.closed),
         !.opened = @ \/ open', !.measured = FALSE]

\* What the caller is told of the drawer as it was.
Previous ==
    IF seq.before # "none" THEN DrawerStateFrom(seq.before, seq.calibrated)
    ELSE IF caps.sensor THEN "Unknown" ELSE "NoSensor"

Pulse_Taken ==
    /\ step = "cool" /\ ~(pulsed /\ caps.cooldown)
    /\ pulsed' = (pulsed \/ port) /\ \E arrived \in {TRUE, port} : Energise(arrived)
    /\ \/ ~port /\ Returns("Unknown", Previous, TRUE)
       \/ port /\ seq.before = "none" /\ Returns("KickSentUnverified", Previous, TRUE)
       \/ port /\ seq.before # "none" /\ step' = "ask" /\ UNCHANGED result
    /\ UNCHANGED <<caps, polarity, stored, seq, pin, expect, answers, port, questions, replies>>

\* Step 8 of the previous pulse, then step 3: one pulse, remembered whether the link took it or
\* not. Of a write that failed nobody knows whether the printer has it.
Pulse ==
    /\ step = "cool" /\ ~(pulsed /\ caps.cooldown)
    /\ pulsed' = TRUE /\ \E arrived \in {TRUE, port} : Energise(arrived)
    /\ \/ ~port /\ Returns("Unknown", Previous, TRUE)
       \/ port /\ seq.before = "none" /\ Returns("KickSentUnverified", Previous, TRUE)
       \/ port /\ seq.before # "none" /\ step' = "ask" /\ UNCHANGED result
    /\ UNCHANGED <<caps, polarity, stored, seq, pin, expect, answers, port, questions, replies>>

\* Steps 4 to 6: the watch loop asks ...
Ask ==
    /\ step = "ask" /\ SendPoll("watch", "judge")
    /\ seq' = [seq EXCEPT !.polls = @ + 1]
    /\ UNCHANGED <<caps, polarity, stored, result, pin, pulsed, replies, open, coil, facts>>

WatchAnswered ==
    /\ step = "watch" /\ Answered /\ step' = "judge"
    /\ UNCHANGED <<caps, polarity, stored, seq, result, pulsed, world>>

WatchTimesOut ==
    /\ step = "watch" /\ Forget /\ step' = "judge"
    /\ UNCHANGED <<caps, polarity, stored, seq, result, pulsed, world>>

\* ... and judges drawer_pin_: the poll's own answer, or what was last heard.
Judge ==
    /\ step = "judge"
    /\ LET answered == pin # "none"
           previous == DrawerStateFrom(seq.before, seq.calibrated)
       IN \/ /\ answered /\ Opened(pin)
             /\ Returns("OpenVerified", previous, TRUE) /\ UNCHANGED seq
          \/ /\ ~(answered /\ Opened(pin)) /\ seq.polls < MaxPolls
             /\ seq' = [seq EXCEPT !.answered = @ \/ answered]
             /\ step' = "ask" /\ UNCHANGED result
          \/ /\ ~(answered /\ Opened(pin))
             /\ Returns(IF (seq.answered \/ answered) /\ seq.calibrated
                          THEN "FailedToOpen" ELSE "KickSentUnverified", previous, TRUE)
             /\ UNCHANGED seq
    /\ UNCHANGED <<caps, polarity, stored, pin, expect, answers, pulsed, world>>

-----------------------------------------------------------------------------
(* The other operations. *)

\* openCashDrawer and a job's open_drawer option: one ESC p, with no reading before it, no
\* cooldown waited for and none remembered.
OpenCashDrawer ==
    /\ step = "idle" /\ facts.tasks < MaxTasks /\ port
    /\ open' \in {TRUE, open} /\ coil' = "other"
    /\ facts' = [Begin EXCEPT !.opened = @ \/ open']
    /\ UNCHANGED <<host, port, questions, replies>>

\* readDrawerSensor: a poll of its own, at the front of the lane.
ReadDrawerSensor ==
    /\ step = "idle" /\ facts.tasks < MaxTasks /\ caps.sensor /\ port
    /\ expect' = 1 /\ answers' = <<>> /\ questions' = questions + 1 /\ step' = "read" /\ facts' = Begin
    /\ UNCHANGED <<caps, polarity, stored, seq, result, pin, pulsed, port, replies, open, coil>>

ReadAnswered ==
    /\ step = "read" /\ step' = "idle" /\ (Answered \/ Forget)
    /\ UNCHANGED <<caps, polarity, stored, seq, result, pulsed, world>>

\* calibrateDrawerPolarity, from any thread: the running sequence keeps its copy. The
\* file is replaced whole or, when it cannot be written, not at all.
CalibrateDrawerPolarity ==
    /\ step # "start" /\ ~polarity
    /\ polarity' = TRUE /\ stored' \in {stored, TRUE}
    /\ UNCHANGED <<caps, step, seq, result, pin, expect, answers, pulsed, world>>

\* The process ends and starts again: the file is what is left, and what the coil took.
Restart ==
    /\ step # "start" /\ facts.tasks < MaxTasks
    /\ step' = "start" /\ polarity' = FALSE /\ seq' = Blank /\ result' = NoResult
    /\ pin' = "none" /\ expect' = 0 /\ answers' = <<>> /\ pulsed' = FALSE
    /\ port' = TRUE /\ questions' = 0 /\ replies' = <<>> /\ facts' = Begin
    /\ coil' = (IF coil = "cold" THEN "cold" ELSE "other")
    /\ UNCHANGED <<caps, stored, open>>

-----------------------------------------------------------------------------
(* External: the printer, the link, the clerk and time. *)

\* onBytes and mergeStatus: a status frame sets drawer_pin_; a single byte answers the
\* outstanding question, or nothing.
OnBytes ==
    /\ replies # <<>> /\ replies' = Tail(replies)
    /\ LET byte == Head(replies) IN
       /\ IF byte.kind = "asb"
            THEN pin' = byte.level /\ UNCHANGED <<expect, answers>>
            ELSE /\ UNCHANGED pin
                 /\ IF expect > 0 THEN expect' = expect - 1 /\ answers' = Append(answers, byte.level)
                                  ELSE UNCHANGED <<expect, answers>>
       /\ facts' = [facts EXCEPT !.measured = @ \/ byte.fresh]
    /\ UNCHANGED <<caps, polarity, stored, step, seq, result, pulsed, port, questions, open, coil>>

Sends(kind) ==
    replies' = Append(replies, [kind |-> kind, level |-> LevelOf(open), fresh |-> step \in {"ask", "watch", "judge"}])

PrinterAnswers ==
    /\ port /\ questions > 0 /\ questions' = questions - 1 /\ (Sends("level") \/ UNCHANGED replies)
    /\ UNCHANGED <<host, port, open, coil, facts>>

\* The clerk pushes the drawer shut or opens it with the key; a printer with ASB
\* enabled says so, unless the frame is lost.
SwitchMoves ==
    /\ step # "start" /\ open' = ~open
    /\ facts' = [facts EXCEPT !.opened = @ \/ open', !.closed = @ \/ ~open']
    /\ \/ port /\ Len(replies) < MaxInFlight
          /\ replies' = Append(replies, [kind |-> "asb", level |-> LevelOf(open'),
                                   fresh |-> step \in {"ask", "watch", "judge"}])
       \/ UNCHANGED replies
    /\ UNCHANGED <<host, port, questions, coil>>

LinkDrops ==
    /\ port /\ step # "start" /\ port' = FALSE /\ questions' = 0 /\ replies' = <<>>
    /\ UNCHANGED <<host, open, coil, facts>>

\* ensureConnected at the head of the next operation reconnects.
LinkReturns ==
    /\ ~port /\ step = "idle" /\ port' = TRUE
    /\ UNCHANGED <<host, questions, replies, open, coil, facts>>

\* cooldown_ms have passed since the last pulse of a sequence ...
CooldownPasses ==
    /\ pulsed /\ pulsed' = FALSE /\ coil' = IF coil = "own" THEN "cold" ELSE coil
    /\ UNCHANGED <<caps, polarity, stored, step, seq, result, pin, expect, answers>>
    /\ UNCHANGED <<port, questions, replies, open, facts>>

\* ... or since a pulse this process does not remember.
CoilCools ==
    /\ coil = "other" /\ coil' = "cold"
    /\ UNCHANGED <<host, port, questions, replies, open, facts>>

-----------------------------------------------------------------------------
Sequence ==
    \/ ApplyStoredDrawerPolarity \/ AskBefore \/ BeforeAnswered \/ BeforeTimesOut \/ Pulse \/ Ask
    \/ WatchAnswered \/ WatchTimesOut \/ Judge \/ ReadAnswered

Callers ==
    \/ OpenDrawerRefused \/ OpenDrawerUnreachable \/ OpenDrawer \/ OpenCashDrawer
    \/ ReadDrawerSensor \/ CalibrateDrawerPolarity \/ Restart

Environment ==
    OnBytes \/ PrinterAnswers \/ SwitchMoves \/ LinkDrops \/ LinkReturns \/ CooldownPasses \/ CoilCools

Next == Sequence \/ Callers \/ Environment

Spec == Init /\ [][Next]_vars

-----------------------------------------------------------------------------
(* Properties. *)

\* Every variable stays in its type, and a question is outstanding only while an
\* operation waits for its answer: none survives into the next one.
TypeOK ==
    /\ caps \in DrawerCapabilities /\ polarity \in BOOLEAN /\ stored \in BOOLEAN
    /\ step \in {"start", "idle", "ask_before", "before", "cool", "ask", "watch", "judge", "read"}
    /\ seq \in [calibrated : BOOLEAN, before : Levels \cup {"none"}, polls : 0..MaxPolls, answered : BOOLEAN]
    /\ result \in [state : States \cup {"none"}, previous : States \cup {"none"}, pulse : BOOLEAN]
    /\ pin \in Levels \cup {"none"} /\ expect \in 0..1 /\ answers \in Seq(Levels) /\ pulsed \in BOOLEAN
    /\ port \in BOOLEAN /\ questions \in Nat /\ open \in BOOLEAN /\ facts \in Ghosts
    /\ coil \in {"cold", "own", "other"}
    /\ expect + Len(answers) > 0 => step \in {"before", "watch", "read"}

Verdict(state) == step = "judge" /\ step' = "idle" /\ result'.state = state

\* OpenVerified is the one verdict that claims movement (cash_drawer.hpp): when the
\* sequence returns it the drawer has been out since the call, and, uncalibrated, the
\* switch has at least stood at both levels since then.
OpenVerifiedMeansMoved ==
    Verdict("OpenVerified") =>
        IF seq.calibrated THEN facts.opened ELSE facts.opened /\ facts.closed

\* Step 1 of the sequence: with a calibrated switch that answered in time, a drawer that has
\* been out since the call began is not energised again by openDrawer.
NeverPulsesIntoOpen == ~facts.buzzed

\* Step 8: a sequence energises no coil that a sequence of this process was the last to energise
\* less than a cooldown ago, however that one ended and whatever became of the link. The code
\* promises nothing of a coil that a plain pulse or an earlier process heated.
CooldownHeld == ~facts.bad

\* FailedToOpen says the pulse went out, the sensor kept answering and never changed
\* (cash_drawer.hpp): a level the printer measured after the pulse must have arrived.
FailedToOpenIsMeasured ==
    [][Verdict("FailedToOpen") => facts.measured]_vars

\* The caller inside openDrawer. The sequence always reaches a verdict: no lost answer, dropped
\* link or cooldown holds the worker for ever.
InSequence == step # "idle"
=============================================================================
