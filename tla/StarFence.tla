------------------------------ MODULE StarFence ------------------------------
(***************************************************************************)
(* The Star job path (runStarJob) with its two completion fences, between  *)
(* one printer, the worker that runs its jobs one after the other, and the *)
(* reader thread that hands it the printer's frames.                       *)
(*                                                                         *)
(* ESC GS ETX echoes two correlation bytes, drawn here from a sequence.    *)
(* ETB increments a counter of the printer and broadcasts it in a status   *)
(* block to every connected host: the job clears the counter first and     *)
(* accepts the one value its fence should produce. The printer prints,     *)
(* cuts and answers in the order it was sent things, as late as it likes;  *)
(* another host on TCP 9100 may send an ETB of its own.                    *)
(*                                                                         *)
(* An operator named X_y is a faulty variant of X, kept to show that the   *)
(* properties can fail.                                                    *)
(***************************************************************************)
EXTENDS Integers, Sequences

CONSTANTS
    Methods,    \* completion mechanisms of the profiles considered
    MaxJobs,    \* bound: jobs in a behaviour
    MaxForeign, \* bound: ETBs of another host
    MaxDrops,   \* bound: times the link is lost
    Modulus     \* the ETB counter counts modulo this, 32 in the printer

VARIABLES
    method,     \* profile.completion
    pc,         \* where the worker is in runStarJob
    job,        \* the job it runs, 0 before the first
    cuts,       \* whether that job asks for a cut
    outcome,    \* job -> its state when it ended
    counter,    \* star_counter_, -1 when never heard
    fence,      \* [outstanding, etb, signalled, expect]: star_fence_* and star_expect_*
    sequence,   \* star_sequence_
    events,     \* ForeignWriterDetected has been raised
    link,
    tx,         \* external: commands on their way to the printer or in its buffer
    etbCount,   \* external: the printer's counter
    rx,         \* external: frames on their way back
    paper,      \* external: what the printer has done, [printed, cut] sets of jobs
    ghost       \* [owed, foreign, drops], see below

worker == <<method, pc, job, cuts, outcome>>
io == <<counter, fence, sequence, events>>
printer == <<tx, etbCount, rx, paper>>
vars == <<worker, io, link, printer, ghost>>

Jobs == 1..MaxJobs

Outcomes == {"none", "FailedKnown", "Unknown", "PrintConfirmed", "CutProcessed", "DoneSoftware"}

Idle == [outstanding |-> FALSE, etb |-> FALSE, signalled |-> FALSE, expect |-> 0]

Init ==
    /\ method \in Methods /\ pc = "idle" /\ job = 0 /\ cuts = FALSE
    /\ outcome = [j \in Jobs |-> "none"]
    /\ counter = -1 /\ fence = Idle /\ sequence = 0 /\ events = FALSE
    /\ link = TRUE /\ tx = <<>> /\ etbCount \in {0, Modulus - 1} /\ rx = <<>>
    /\ paper = [printed |-> {}, cut |-> {}]
    /\ ghost = [owed |-> FALSE, foreign |-> 0, drops |-> 0]

-----------------------------------------------------------------------------
(* The fence. *)

NextEtbCounter(n) == (n + 1) % Modulus

ArmStarFence_SameBytes ==
    IF method = "StarEtb"
      THEN /\ fence' = [outstanding |-> TRUE, etb |-> TRUE, signalled |-> FALSE,
                        expect |-> NextEtbCounter(IF counter = -1 THEN 0 ELSE counter)]
           /\ UNCHANGED sequence
      ELSE /\ fence' = [outstanding |-> TRUE, etb |-> FALSE, signalled |-> FALSE, expect |-> 1]
           /\ UNCHANGED sequence

\* armStarFence, before the bytes leave: the answer can arrive inside the write.
ArmStarFence ==
    IF method = "StarEtb"
      THEN /\ fence' = [outstanding |-> TRUE, etb |-> TRUE, signalled |-> FALSE,
                        expect |-> NextEtbCounter(IF counter = -1 THEN 0 ELSE counter)]
           /\ UNCHANGED sequence
      ELSE /\ sequence' = sequence + 1
           /\ fence' = [outstanding |-> TRUE, etb |-> FALSE, signalled |-> FALSE,
                        expect |-> sequence + 1]

\* The command of the fence that is armed, tagged with its job for the properties.
FenceBytes == IF fence.etb THEN [kind |-> "etb", of |-> job]
                           ELSE [kind |-> "etx", of |-> job, n |-> fence.expect]

\* awaitStarFence disarms whether or not the answer came.
Disarmed == [fence EXCEPT !.outstanding = FALSE, !.signalled = FALSE]

\* onBytes in star_mode_: an ETX echo must carry our bytes; a status block confirms only
\* if its counter moved and landed on the value awaited. Anything else is a foreign writer.
OnBytes ==
    /\ rx # <<>> /\ rx' = Tail(rx)
    /\ LET f == Head(rx)
           ours == /\ fence.outstanding /\ f.n = fence.expect
                   /\ fence.etb <=> f.kind = "asb"
       IN IF f.kind = "asb" /\ f.n = counter
            THEN UNCHANGED <<counter, fence, events>>
            ELSE /\ counter' = IF f.kind = "asb" THEN f.n ELSE counter
                 /\ fence' = [fence EXCEPT !.signalled = @ \/ ours]
                 /\ events' = (events \/ ~ours)
    /\ UNCHANGED <<worker, sequence, link, tx, etbCount, paper, ghost>>

-----------------------------------------------------------------------------
(* runStarJob, one step per send, wait or locked section. *)

Ends(state) == pc' = "idle" /\ outcome' = [outcome EXCEPT ![job] = state]

\* A job that ends Unknown with its fence sent leaves an answer the printer still owes.
Owes ==
    LET inBuffer == \E i \in 1..Len(tx) : tx[i].kind \in {"etb", "etx"}
    IN ghost' = [ghost EXCEPT !.owed = @ \/ inBuffer \/ rx # <<>>]

\* ensureConnected, then beginJobIo (which keeps star_counter_) and star_mode_.
RunStarJob ==
    /\ pc = "idle" /\ job < MaxJobs /\ job' = job + 1 /\ cuts' \in BOOLEAN
    /\ \/ /\ link' = TRUE
          /\ pc' = IF method = "StarEtb" THEN "preamble" ELSE "payload"
          /\ fence' = Disarmed /\ UNCHANGED outcome
       \/ /\ ~link /\ UNCHANGED <<link, fence, pc>>
          /\ outcome' = [outcome EXCEPT ![job + 1] = "FailedKnown"]
    /\ UNCHANGED <<method, counter, sequence, events, printer, ghost>>

\* ASB on and the counter cleared ...
SendPreamble ==
    /\ pc = "preamble"
    /\ IF link THEN /\ tx' = Append(tx, [kind |-> "clear", of |-> job]) /\ pc' = "baseline"
                    /\ UNCHANGED outcome
               ELSE Ends("FailedKnown") /\ UNCHANGED tx
    /\ UNCHANGED <<method, job, cuts, io, link, etbCount, rx, paper, ghost>>

\* ... and the driver's idea of it, under the lock, once the bytes are gone.
SetBaseline ==
    /\ pc = "baseline" /\ counter' = 0 /\ pc' = "payload"
    /\ UNCHANGED <<method, job, cuts, outcome, fence, sequence, events, link, printer, ghost>>

\* The receipt in Star's own commands: a Star document, or ESC/POS transcoded.
Receipt == [kind |-> "payload", of |-> job]

\* SendStarted is durable first (PrintEngine); a refused write sent nothing, a short one
\* leaves the receipt in doubt.
SendPayload ==
    /\ pc = "payload"
    /\ \/ link /\ tx' = Append(tx, Receipt) /\ pc' = "fence"
          /\ UNCHANGED outcome
       \/ ~link /\ Ends("FailedKnown") /\ UNCHANGED tx
       \/ ~link /\ Ends("Unknown") /\ UNCHANGED tx
    /\ UNCHANGED <<method, job, cuts, io, link, etbCount, rx, paper, ghost>>

\* No fence in this profile: a cut if asked for, and transport-level confidence only.
NoFence ==
    /\ pc = "fence" /\ method = "None" /\ Ends("DoneSoftware")
    /\ tx' = IF cuts /\ link THEN Append(tx, [kind |-> "cut", of |-> job]) ELSE tx
    /\ UNCHANGED <<method, job, cuts, io, link, etbCount, rx, paper, ghost>>

Arm(here, next) ==
    /\ pc = here /\ method # "None" /\ ArmStarFence /\ pc' = next
    /\ UNCHANGED <<method, job, cuts, outcome, counter, events, link, printer, ghost>>

\* The fence follows what it fences in one write; the cut travels with its own.
SendFence(here, next, before) ==
    /\ pc = here
    /\ IF link THEN tx' = tx \o before \o <<FenceBytes>> /\ pc' = next /\ UNCHANGED <<outcome, ghost>>
               ELSE Ends("Unknown") /\ Owes /\ UNCHANGED tx
    /\ UNCHANGED <<method, job, cuts, io, link, etbCount, rx, paper>>

PrintConfirmed ==
    /\ pc = "await_print" /\ fence.signalled /\ fence' = Disarmed
    /\ outcome' = [outcome EXCEPT ![job] = "PrintConfirmed"] /\ pc' = IF cuts THEN "cut" ELSE "idle"
    /\ UNCHANGED <<method, job, cuts, counter, sequence, events, link, printer, ghost>>

CutProcessed ==
    /\ pc = "await_cut" /\ fence.signalled /\ fence' = Disarmed /\ Ends("CutProcessed")
    /\ UNCHANGED <<method, job, cuts, counter, sequence, events, link, printer, ghost>>

FenceTimesOut_LinkOnly ==
    /\ pc \in {"await_print", "await_cut"} /\ ~fence.signalled /\ ~link
    /\ fence' = Disarmed /\ Ends("Unknown") /\ Owes
    /\ UNCHANGED <<method, job, cuts, counter, sequence, events, link, printer>>

\* The wait ran out, the link went down, or the driver is stopping.
FenceTimesOut ==
    /\ pc \in {"await_print", "await_cut"} /\ ~fence.signalled
    /\ fence' = Disarmed /\ Ends("Unknown") /\ Owes
    /\ UNCHANGED <<method, job, cuts, counter, sequence, events, link, printer>>

-----------------------------------------------------------------------------
(* External: the printer, the link and another host. *)

Status == [kind |-> "asb", n |-> etbCount']

\* The ETB counter after command c, n before it.
Counted(c, n) == CASE c.kind = "clear" -> 0
                   [] c.kind = "etb" -> (n + 1) % Modulus
                   [] OTHER -> n

PrinterActs ==
    /\ tx # <<>> /\ tx' = Tail(tx)
    /\ LET c == Head(tx) IN
       /\ etbCount' = Counted(c, etbCount)
       /\ paper' = CASE c.kind = "payload" -> [paper EXCEPT !.printed = @ \cup {c.of}]
                     [] c.kind = "cut" -> [paper EXCEPT !.cut = @ \cup {c.of}]
                     [] OTHER -> paper
       /\ rx' = CASE link /\ c.kind = "etb" -> Append(rx, Status)
                  [] link /\ c.kind = "etx" -> Append(rx, [kind |-> "etx", n |-> c.n])
                  [] OTHER -> rx
    /\ UNCHANGED <<worker, io, link, ghost>>

ForeignEtb ==
    /\ ghost.foreign < MaxForeign /\ link
    /\ ghost' = [ghost EXCEPT !.foreign = @ + 1]
    /\ etbCount' = (etbCount + 1) % Modulus /\ rx' = Append(rx, Status)
    /\ UNCHANGED <<worker, io, link, tx, paper>>

\* What the printer has not received is lost; what it has, it may still print.
LinkDrops ==
    /\ link /\ ghost.drops < MaxDrops /\ link' = FALSE /\ rx' = <<>>
    /\ ghost' = [ghost EXCEPT !.drops = @ + 1]
    /\ \E n \in 0..Len(tx) : tx' = SubSeq(tx, 1, n)
    /\ UNCHANGED <<worker, io, etbCount, paper>>

-----------------------------------------------------------------------------
Worker ==
    \/ RunStarJob \/ SendPreamble \/ SetBaseline \/ SendPayload \/ NoFence
    \/ Arm("fence", "send_print") \/ SendFence("send_print", "await_print", <<>>)
    \/ PrintConfirmed
    \/ Arm("cut", "send_cut")
    \/ SendFence("send_cut", "await_cut", <<[kind |-> "cut", of |-> job]>>)
    \/ CutProcessed \/ FenceTimesOut

Next == Worker \/ OnBytes \/ PrinterActs \/ ForeignEtb \/ LinkDrops

Spec == Init /\ [][Next]_vars

-----------------------------------------------------------------------------
(* Properties. *)

\* One type invariant. The counter awaited is one the printer can show: the expectation
\* wraps as the five-bit counter does.
TypeOK ==
    /\ method \in Methods /\ job \in 0..MaxJobs /\ cuts \in BOOLEAN
    /\ pc \in {"idle", "preamble", "baseline", "payload", "fence", "send_print", "await_print",
               "cut", "send_cut", "await_cut"}
    /\ outcome \in [Jobs -> Outcomes] /\ counter \in -1..(Modulus - 1) /\ sequence \in Nat
    /\ fence.etb => fence.expect \in 0..(Modulus - 1)
    /\ etbCount \in 0..(Modulus - 1) /\ paper.printed \subseteq Jobs /\ paper.cut \subseteq Jobs

Confirmed(j) == outcome[j] \in {"PrintConfirmed", "CutProcessed"}

\* awaitStarFence's rule, "a late answer to a fence whose job has already given up must
\* not be handed to the next job", with ESC GS ETX: whatever is late, lost or foreign, a
\* confirmed receipt is on paper and a processed cut has been made.
EtxConfirmsItsOwnJob ==
    method = "StarEtx" => \A j \in Jobs : /\ Confirmed(j) => j \in paper.printed
                                          /\ outcome[j] = "CutProcessed" => j \in paper.cut

\* The same with ETB, as far as it holds: on an exclusive session in which no earlier
\* job gave up on a fence the printer had yet to answer.
EtbConfirmsItsOwnJob ==
    method = "StarEtb" /\ ~ghost.owed /\ ghost.foreign = 0 /\ ghost.drops = 0 =>
        \A j \in Jobs : /\ Confirmed(j) => j \in paper.printed
                        /\ outcome[j] = "CutProcessed" => j \in paper.cut

\* The printer's counter shows v once it has worked off what it was sent.
SettlesAt(v) ==
    \E shown \in [0..Len(tx) -> 0..(Modulus - 1)] :
        /\ shown[0] = etbCount
        /\ \A i \in 1..Len(tx) : shown[i] = Counted(tx[i], shown[i - 1])
        /\ shown[Len(tx)] = v

\* And a healthy printer's answer is recognised: on such a session the value an
\* unanswered ETB fence awaits is the one the printer's counter comes to, or a frame on
\* its way carries it. A wrong baseline would make every such job Unknown.
EtbFenceIsReachable ==
    /\ fence.outstanding /\ fence.etb /\ ~fence.signalled /\ pc \in {"await_print", "await_cut"}
    /\ ~ghost.owed /\ ghost.foreign = 0 /\ ghost.drops = 0
    => \/ tx # <<>> /\ SettlesAt(fence.expect)
       \/ \E i \in 1..Len(rx) : rx[i].kind = "asb" /\ rx[i].n = fence.expect

\* FailedKnown is the promise that nothing printed: no payload of such a job is on paper
\* or on its way, so submitting it again cannot make a second receipt.
FailedKnownPrintedNothing ==
    \A j \in Jobs : outcome[j] = "FailedKnown" =>
        /\ j \notin paper.printed
        /\ \A i \in 1..Len(tx) : ~(tx[i].kind = "payload" /\ tx[i].of = j)

\* A job under way. It ends: a printer that stops answering costs a timeout, not the lane.
UnderWay == pc # "idle"
=============================================================================
