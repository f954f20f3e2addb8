------------------------------- MODULE Epos -------------------------------
(***************************************************************************)
(* The ePOS-Print client (core/src/epos.cpp): one Client::print call, the  *)
(* HTTP exchanges it makes and the print service that answers them.        *)
(*                                                                         *)
(* The service is external: it prints what a complete print request asks   *)
(* for, keeps the result of a spooled job under its JobID and may forget   *)
(* it, be stopped and be restarted.  Connections fail to open, break while *)
(* the request is being sent, or lose the answer.                          *)
(*                                                                         *)
(* PollRequest_WithDocument is a faulty variant, kept to show that the     *)
(* properties can fail.                                                    *)
(***************************************************************************)
EXTENDS Naturals

CONSTANTS Spoolers,   \* the values of ClientConfig::spooler to consider
          MaxPolls    \* retrievals counted; the count stays there

VARIABLES call,      \* the call: where it is, its configuration, its retrievals
          exchange,  \* the HTTP exchange under way
          outcome,   \* Client::print's return value
          spooled,   \* what the service knows of the job
          running,   \* FALSE while the service's spooler is stopped
          copies     \* receipts on paper

vars == <<call, exchange, outcome, spooled, running, copies>>

-----------------------------------------------------------------------------
(* Answers and what they are taken for *)

Refusals == {"EPTR_COVER_OPEN", "EX_SPOOLER", "EX_TIMEOUT", "SchemaError"}

\* A <response>, and a reply in which there is none.
Response(code, bits) == [parsed |-> TRUE, code |-> code, success |-> code = "", status |-> bits]
NoResponse == [parsed |-> FALSE, code |-> "", success |-> FALSE, status |-> {}]

NonTerminal(code) == code \in {"Printing", "JobSpooling"}

ReasonFor(code) ==
    CASE code = "EPTR_COVER_OPEN" -> "PreflightCoverOpen"
      [] code = "EPTR_CUTTER" -> "CutterFault"
      [] code = "EX_SPOOLER" -> "QueueOverflow"
      [] code = "EX_TIMEOUT" -> "TimeoutAwaitingCompletion"
      [] code = "SchemaError" -> "Unsupported"
      [] OTHER -> "Unknown"

\* toDeviceEvents, for the status bits of this model.
DeviceEvents(status) == {"Online"} \cup (IF "cutter" \in status THEN {"CutterError"} ELSE {})

Ended(state, reason, evidence) ==
    [terminal |-> TRUE, state |-> state, reason |-> reason, evidence |-> evidence]
NotYet == [terminal |-> FALSE, state |-> "BytesSent", reason |-> "None", evidence |-> "none"]
Failed(reason) == Ended("FailedKnown", reason, "status")
Fate(reason) == Ended("Unknown", reason, "transport")

OfStatus(status) ==
    CASE "completed" \in status -> Ended("DoneSoftware", "None", "JobID")
      [] "completed" \notin status /\ "stopped" \in status -> Failed("PreflightHardwareError")
      [] OTHER -> NotYet

\* On a spooler printer the first answer acknowledges the enqueueing: its bits say nothing.
Verdict(r, spooler, first) ==
    CASE ~r.parsed \/ r.code = "JobNotFound" -> Fate("Unknown")
      [] r.parsed /\ NonTerminal(r.code) -> NotYet
      [] r.parsed /\ r.code \notin {"", "Printing", "JobSpooling", "JobNotFound"} -> Failed(ReasonFor(r.code))
      [] r.parsed /\ r.code = "" /\ spooler /\ first -> NotYet
      [] OTHER -> IF "cutter" \in r.status THEN Failed("CutterFault")
                  ELSE IF spooler THEN OfStatus(r.status)
                       ELSE Ended("DoneSoftware", "None", "response")

-----------------------------------------------------------------------------
(* The state *)

\* Client::print's Outcome: a verdict, whether the service took the job, and what it reported.
OutcomeOf(v, accepted, events) ==
    [terminal |-> v.terminal, state |-> v.state, reason |-> v.reason, evidence |-> v.evidence,
     accepted |-> accepted, events |-> events]

Idle == [at |-> "none", body |-> "", reply |-> NoResponse]

Init ==
    /\ call \in [at : {"start"}, spooler : Spoolers, jobId : {"valid", "invalid", "none"},
                 polls : {0}, acked : {FALSE}, late : {FALSE}, failedOn : {"nothing"}]
    /\ exchange = Idle
    /\ outcome = OutcomeOf([NotYet EXCEPT !.state = "Running"], FALSE, {})
    /\ spooled = "unheard"
    /\ running \in BOOLEAN
    /\ copies = 0

\* Returns v from the call.
Return(v, on) ==
    /\ outcome' = [outcome EXCEPT !.terminal = TRUE, !.state = v.state, !.reason = v.reason,
                                  !.evidence = v.evidence]
    /\ call' = [call EXCEPT !.at = "returned", !.failedOn = on]

-----------------------------------------------------------------------------
(* socketPost *)

PrintRequest == "document"
PollRequest_WithDocument == "document"
PollRequest == "empty"

Open(body) == exchange' = [Idle EXCEPT !.at = "connecting", !.body = body]

Sends ==
    /\ exchange.at = "connecting"
    /\ exchange' = [exchange EXCEPT !.at = "sent"]
    /\ UNCHANGED <<call, outcome, spooled, running, copies>>

\* Not resolved, not connected, or broken before the last byte of the request was sent.
FailsToSend ==
    /\ exchange.at = "connecting"
    /\ exchange' = [exchange EXCEPT !.at = "failed"]
    /\ UNCHANGED <<call, outcome, spooled, running, copies>>

\* The deadline passes, or the connection ends, before an answer that can be read.
AnswerLost ==
    /\ exchange.at \in {"sent", "answered"}
    /\ exchange' = [exchange EXCEPT !.at = "failed", !.reply = NoResponse]
    /\ UNCHANGED <<call, outcome, spooled, running, copies>>

AnswerArrives ==
    /\ exchange.at = "answered"
    /\ exchange' = [exchange EXCEPT !.at = "read"]
    /\ UNCHANGED <<call, outcome, spooled, running, copies>>

-----------------------------------------------------------------------------
(* The service *)

Answers(r) == exchange' = [exchange EXCEPT !.at = "answered", !.reply = r]

\* Without a spooler the answer follows the paper.  A timeout of the device leaves the data
\* in the printer's buffer, where it may still be printed.
ServiceDirect ==
    /\ exchange.at = "sent" /\ exchange.body = "document" /\ ~call.spooler
    /\ \/ copies' = copies + 1 /\ Answers(Response("", {"completed"})) /\ UNCHANGED spooled
       \/ copies' = copies + 1 /\ Answers(Response("EPTR_CUTTER", {"cutter"})) /\ UNCHANGED spooled
       \/ spooled' = "buffered" /\ Answers(Response("EX_TIMEOUT", {})) /\ UNCHANGED copies
       \/ /\ \E code \in {"EPTR_COVER_OPEN", "SchemaError"} : Answers(Response(code, {}))
          /\ UNCHANGED <<copies, spooled>>
    /\ UNCHANGED <<call, outcome, running>>

\* With one the answer follows the enqueueing, and its bits may say anything.
ServiceEnqueues ==
    /\ exchange.at = "sent" /\ exchange.body = "document" /\ call.spooler
    /\ \/ /\ spooled' = "queued"
          /\ \E bits \in {{}, {"completed"}, {"stopped"}} : Answers(Response("", bits))
       \/ UNCHANGED spooled /\ Answers(Response("EX_SPOOLER", {}))
    /\ UNCHANGED <<call, outcome, running, copies>>

Known == spooled \notin {"unheard", "forgotten"}

ServiceRetrieves ==
    /\ exchange.at = "sent" /\ exchange.body = "empty"
    /\ Answers(CASE ~Known -> Response("JobNotFound", {})
                 [] spooled = "queued" /\ running -> Response("JobSpooling", {})
                 [] spooled = "queued" /\ ~running -> Response("", {"stopped"})
                 [] spooled = "printing" -> Response("Printing", {})
                 [] spooled = "printed" -> Response("", {"completed"})
                 [] spooled = "jammed" -> Response("", {"cutter"})
                 [] spooled = "refused" -> Response("EPTR_COVER_OPEN", {}))
    /\ UNCHANGED <<call, outcome, spooled, running, copies>>

\* Something that is not the service answers: a proxy, another device at the address.
Stranger ==
    /\ exchange.at = "sent"
    /\ Answers(NoResponse)
    /\ UNCHANGED <<call, outcome, spooled, running, copies>>

SpoolerPrints ==
    /\ \/ spooled = "queued" /\ running /\ spooled' \in {"printing", "refused"} /\ UNCHANGED copies
       \/ spooled = "printing" /\ spooled' \in {"printed", "jammed"} /\ copies' = copies + 1
       \/ spooled = "buffered" /\ spooled' = "forgotten" /\ copies' = copies + 1
    /\ UNCHANGED <<call, exchange, outcome, running>>

SpoolerForgets ==
    /\ spooled \in {"printed", "jammed", "refused"}
    /\ spooled' = "forgotten"
    /\ UNCHANGED <<call, exchange, outcome, running, copies>>

OperatorToggles ==
    /\ running' = ~running
    /\ UNCHANGED <<call, exchange, outcome, spooled, copies>>

-----------------------------------------------------------------------------
(* Client::print *)

\* A JobID that is not one fails before anything is sent.
Submit ==
    /\ call.at = "start"
    /\ \/ /\ call.jobId = "invalid"
          /\ Return(Ended("FailedKnown", "TransportUnreachable", "transport"), "nothing")
          /\ UNCHANGED exchange
       \/ /\ call.jobId # "invalid"
          /\ Open(PrintRequest)
          /\ call' = [call EXCEPT !.at = "submitting"]
          /\ UNCHANGED outcome
    /\ UNCHANGED <<spooled, running, copies>>

Over == exchange.at \in {"failed", "read"}

\* What a step of the call makes of a verdict: it returns, or goes on to retrieve.
Merge(v) ==
    outcome' = OutcomeOf(v, outcome.accepted \/ ~v.terminal,
                         outcome.events \cup (IF exchange.reply.parsed
                                                THEN DeviceEvents(exchange.reply.status) ELSE {}))

\* The submission is over: nothing readable fails the job, an answer is classified.
Submitted ==
    /\ call.at = "submitting" /\ Over
    /\ exchange' = Idle
    /\ LET r == exchange.reply
           v == Verdict(r, call.spooler, TRUE)
       IN  CASE ~r.parsed ->
                  Return(Ended("FailedKnown", "TransportUnreachable", "transport"), "no answer")
             [] r.parsed /\ v.terminal ->
                  /\ Merge(v)
                  /\ call' = [call EXCEPT !.at = "returned", !.failedOn = "answer"]
             [] r.parsed /\ ~v.terminal /\ call.jobId = "none" ->
                  \* A spooled job without a JobID cannot be asked about.
                  /\ outcome' = OutcomeOf(Fate("Unknown"), TRUE, DeviceEvents(r.status))
                  /\ call' = [call EXCEPT !.at = "returned", !.acked = TRUE]
             [] OTHER ->
                  /\ Merge(v)
                  /\ call' = [call EXCEPT !.at = "sleeping", !.acked = TRUE]
    /\ UNCHANGED <<spooled, running, copies>>

\* poll_budget_ms, counted from the acknowledgement, runs out.
DeadlinePasses ==
    /\ call.at \in {"sleeping", "polling"} /\ ~call.late
    /\ call' = [call EXCEPT !.late = TRUE]
    /\ UNCHANGED <<exchange, outcome, spooled, running, copies>>

Poll ==
    /\ call.at = "sleeping" /\ ~call.late
    /\ Open(PollRequest)
    /\ call' = [call EXCEPT !.at = "polling", !.polls = IF @ < MaxPolls THEN @ + 1 ELSE @]
    /\ UNCHANGED <<outcome, spooled, running, copies>>

\* A retrieval that did not answer is not a verdict.
Retrieved(r) == IF r.parsed THEN Verdict(r, call.spooler, FALSE) ELSE NotYet

Polled ==
    /\ call.at = "polling" /\ Over
    /\ exchange' = Idle
    /\ LET v == Retrieved(exchange.reply)
       IN  /\ Merge(v)
           /\ call' = [call EXCEPT !.at = IF v.terminal THEN "returned" ELSE "sleeping",
                                   !.failedOn = IF exchange.reply.parsed THEN "answer" ELSE "no answer"]
    /\ UNCHANGED <<spooled, running, copies>>

\* Out of the client's patience, not the printer's.
GivesUp ==
    /\ call.at = "sleeping" /\ call.late
    /\ Return(Fate("TimeoutAwaitingCompletion"), "budget")
    /\ UNCHANGED <<exchange, spooled, running, copies>>

-----------------------------------------------------------------------------

ClientSteps == Submit \/ Submitted \/ Poll \/ Polled \/ GivesUp

Next ==
    \/ ClientSteps \/ DeadlinePasses
    \/ Sends \/ FailsToSend \/ AnswerLost \/ AnswerArrives
    \/ ServiceDirect \/ ServiceEnqueues \/ ServiceRetrieves \/ Stranger
    \/ SpoolerPrints \/ SpoolerForgets \/ OperatorToggles

Spec == Init /\ [][Next]_vars

-----------------------------------------------------------------------------
(* Properties *)

\* DoneSoftware is reported for a receipt that is on paper: the acknowledgement of a spooler,
\* whatever its status bits say, is never read as the end of the job (Client::classify).
DoneMeansPrinted == outcome.state = "DoneSoftware" => copies >= 1

\* One call puts at most one receipt on paper, however often it asks for the result: a
\* retrieval carries no document (buildPollEnvelope).
OneCopy == copies <= 1

\* After the spooler took the job only an answer of the service fails it; lost and unreadable
\* retrievals and the end of the budget leave its fate Unknown (Client::print).
SilenceIsNoVerdict ==
    call.acked /\ outcome.state = "FailedKnown" => call.failedOn = "answer"

\* The caller inside Client::print. It returns, whatever is lost and however long the service
\* spools (poll_budget_ms, http_timeout_ms).
InPrint == call.at # "returned"

\* "the request never reached a service that answered it, which is the one ePOS failure that
\* is provably not on paper": a call that fails because nothing readable came back leaves no
\* receipt.  It does not hold: the answer, not the request, may be what was lost.
UnreachableMeansNoPaper ==
    outcome.state = "FailedKnown" /\ outcome.reason = "TransportUnreachable" => copies = 0

=============================================================================
