----------------------------- MODULE MCServices -----------------------------
(***************************************************************************)
(* The services that put receipts on paper or open a drawer beside the     *)
(* ESC/POS engine, each on its own instance: the agent's CloudPRNT server  *)
(* and its printers, the agent's handlers, the ePOS-Print client, the Star *)
(* job path and the cash drawer. They share no state: a behaviour is a     *)
(* behaviour of one of them, `part' says of which, and the others stay as  *)
(* they began. The properties are the promises they all make; each         *)
(* component states its share.                                             *)
(*                                                                         *)
(* The CloudPRNT server has three instances: one printer that may lose an  *)
(* answer and its power, two printers on one URL, and one that reports     *)
(* every kind of fault and sends no token. They are instances of           *)
(* CloudPrntSafety, which is CloudPrnt and what is proved of it.           *)
(***************************************************************************)
EXTENDS Services

CONSTANTS MaxTokens, MaxPending, MaxHistory, MaxLost, MaxRestarts   \* CloudPrnt

VARIABLE part   \* which component this behaviour is of

\* CloudPrnt
VARIABLES issued, pending, cloudJobs, history, mac, announced, fault, told, raced, device,
          net, receipts, faults

Cloud == INSTANCE CloudPrntSafety WITH
    Devices <- {"d1"}, Pins <- {"none", "d1"}, Tokenless <- {}, PollCodes <- {200}

Shared == INSTANCE CloudPrntSafety WITH
    Devices <- {"d1", "d2"}, Pins <- {"none", "d1"}, Tokenless <- {}, PollCodes <- {200},
    MaxRestarts <- 0

Faulty == INSTANCE CloudPrntSafety WITH
    Devices <- {"d1"}, Pins <- {"none"}, Tokenless <- {"d1"},
    PollCodes <- {0, 200, 211, 410, 411, 420}, MaxTokens <- 1, MaxPending <- 1,
    MaxRestarts <- 0

cloudVars == <<issued, pending, cloudJobs, history, mac, announced, fault, told, raced,
               device, net, receipts, faults>>
vars == <<part, cloudVars, agentVars, eposCallVars, starVars, drawerVars>>

-----------------------------------------------------------------------------
\* A component the behaviour is not of stays in one of its initial states.
Init ==
    /\ part \in {"cloud", "shared route", "faulty device", "agent", "epos", "star",
                "drawer"}
    /\ CASE part = "shared route" -> Shared!Init
         [] part = "faulty device" -> Faulty!Init
         [] OTHER -> Cloud!Init
    /\ part \notin {"cloud", "shared route", "faulty device"} => mac.bound = "none" /\ device["d1"].named
    /\ Agent!Init
    /\ EposCall!Init
    /\ part # "epos" => call.spooler /\ call.jobId = "valid" /\ running
    /\ Star!Init
    /\ part # "star" => method = "None" /\ etbCount = 0
    /\ Drawer!Init
    /\ part # "drawer" => caps = (CHOOSE c \in Drawer!DrawerCapabilities : TRUE) /\ ~stored /\ ~port

CloudOnly == UNCHANGED <<part, agentVars, eposCallVars, starVars, drawerVars>>
AgentOnly == UNCHANGED <<part, cloudVars, eposCallVars, starVars, drawerVars>>
EposCallOnly == UNCHANGED <<part, cloudVars, agentVars, starVars, drawerVars>>
StarOnly == UNCHANGED <<part, cloudVars, agentVars, eposCallVars, drawerVars>>
DrawerOnly == UNCHANGED <<part, cloudVars, agentVars, eposCallVars, starVars>>

CloudSteps == part = "cloud" /\ Cloud!Next /\ CloudOnly
SharedSteps == part = "shared route" /\ Shared!Next /\ CloudOnly
FaultySteps == part = "faulty device" /\ Faulty!Next /\ CloudOnly
AgentSteps == part = "agent" /\ Agent!Next /\ AgentOnly
EposCallSteps == part = "epos" /\ EposCall!Next /\ EposCallOnly
StarSteps == part = "star" /\ Star!Next /\ StarOnly
DrawerSteps == part = "drawer" /\ Drawer!Next /\ DrawerOnly

Next ==
    \/ CloudSteps \/ SharedSteps \/ FaultySteps \/ AgentSteps \/ EposCallSteps \/ StarSteps
    \/ DrawerSteps

Spec == Init /\ [][Next]_vars

\* The threads and devices that run: HTTP workers, a printer that is on and keeps polling, the
\* client's call and its deadlines, the Star worker, the drawer's worker, the reader and the
\* end of the cooldown. Nothing is asked of a lane or a service: it may take for ever.
Thread(n) ==
    \/ part = "cloud"
       /\ CASE n = 1 -> Cloud!Serve("d1") [] n = 2 -> Cloud!Firmware("d1") [] OTHER -> FALSE
    \/ part = "shared route"
       /\ CASE n = 1 -> Shared!Serve("d1") [] n = 2 -> Shared!Firmware("d1")
            [] n = 3 -> Shared!Serve("d2") [] n = 4 -> Shared!Firmware("d2")
    \/ part = "faulty device"
       /\ CASE n = 1 -> Faulty!Serve("d1") [] n = 2 -> Faulty!Firmware("d1") [] OTHER -> FALSE
    \/ part = "agent"
       /\ n \in Requests /\ Agent!Handler(n)
    \/ part = "epos"
       /\ CASE n = 1 -> EposCall!ClientSteps
            [] n = 2 -> EposCall!DeadlinePasses
            [] n = 3 -> EposCall!Sends \/ EposCall!FailsToSend
            [] n = 4 -> EposCall!AnswerLost \/ EposCall!AnswerArrives
    \/ part = "star" /\ n = 1 /\ Star!Worker
    \/ part = "drawer"
       /\ CASE n = 1 -> Drawer!Sequence       [] n = 2 -> Drawer!OnBytes
            [] n = 3 -> Drawer!PrinterAnswers [] n = 4 -> Drawer!CooldownPasses

\* The variables they change.
here ==
    CASE part \in {"cloud", "shared route", "faulty device"} -> cloudVars
      [] part = "agent" -> agentVars [] part = "epos" -> eposCallVars
      [] part = "star" -> starVars   [] part = "drawer" -> drawerVars

Fairness == \A n \in 1..4 : WF_here(Thread(n) /\ UNCHANGED part)

FairSpec == Spec /\ Fairness

-----------------------------------------------------------------------------
\* What is reported as done is on paper, and it is the job that was asked about: whatever
\* DELETEs were repeated, late or abandoned, whatever a spooler acknowledged, whatever Star
\* answer was late, lost or another host's. And a healthy Star printer's answer is one the
\* fence can recognise.
DoneMeansPrinted ==
    /\ part = "cloud" => Cloud!DoneMeansPrinted
    /\ part = "shared route" => Shared!DoneMeansPrinted
    /\ part = "epos" => EposCall!DoneMeansPrinted
    /\ part = "star" => /\ Star!TypeOK /\ Star!EtxConfirmsItsOwnJob
                        /\ Star!EtbConfirmsItsOwnJob /\ Star!EtbFenceIsReachable

\* One receipt per job: retried downloads, two printers on one URL, tills that submit the same
\* key at the same instant, and retrievals of a spooled result put no second copy on paper.
OneCopy ==
    /\ part = "cloud" => Cloud!OneCopy
    /\ part = "shared route" => Shared!OneCopy
    /\ part = "agent" => Agent!OneReceiptPerKey
    /\ part = "epos" => EposCall!OneCopy

\* A failure or an outcome is told only on evidence: silence of an ePOS service is no verdict,
\* a Star job that FailedKnown has nothing on paper or on its way there, and no answer of the
\* agent runs ahead of the job it is about.
ToldOnEvidence ==
    /\ part = "epos" => EposCall!SilenceIsNoVerdict
    /\ part = "star" => Star!FailedKnownPrintedNothing
    /\ part = "agent" => Agent!AnswersAreEvidence

\* The CloudPRNT server forgets nothing it still needs: a job is offered until a DELETE for it
\* is served, in the order of submission, and a device's fault has reached the subscribers or
\* is on its way to them, unless two polls published at once.
NothingForgotten ==
    /\ part = "cloud" => Cloud!TypeOK /\ Cloud!RetainedUntilConfirmed
    /\ part = "shared route" => Shared!TypeOK /\ Shared!RetainedUntilConfirmed
    /\ part = "faulty device" => Faulty!TypeOK /\ Faulty!FaultsAreTold

\* The drawer is spared: openDrawer energises neither a drawer that a calibrated switch has
\* shown open nor a coil that a sequence of its process heated within the cooldown. Plain
\* pulses, and what an earlier process did, are beyond it.
DrawerIsSpared ==
    part = "drawer" => Drawer!TypeOK /\ Drawer!NeverPulsesIntoOpen /\ Drawer!CooldownHeld

\* A verdict stands: the first code a printer confirmed with is the outcome for good, and
\* OpenVerified is given only for a drawer that has moved since the call.
VerdictsStand ==
    [][/\ part = "cloud" => Cloud!FirstCodeIsTheEvidence
       /\ part = "shared route" => Shared!FirstCodeIsTheEvidence
       /\ part = "drawer" => Drawer!OpenVerifiedMeansMoved]_vars

\* For each request under way, whether it is still without its end.
Unfinished ==
    CASE part = "cloud" -> <<Cloud!Unsettled(1), Cloud!Unsettled(2)>>
      [] part = "shared route" -> <<Shared!Unsettled(1), Shared!Unsettled(2)>>
      [] part = "faulty device" -> <<Faulty!Unsettled(1), FALSE>>
      [] part = "agent" -> [n \in Requests |-> Agent!Unanswered(n)]
      [] part = "epos" -> <<EposCall!InPrint, FALSE>>
      [] part = "star" -> <<Star!UnderWay, FALSE>>
      [] part = "drawer" -> <<Drawer!InSequence, FALSE>>

\* Everything asked for ends: a CloudPRNT job is confirmed, an HTTP request answered, an ePOS
\* call returns, a Star job and a drawer sequence reach their verdict, through lost answers,
\* dropped links and power losses.
EveryRequestEnds == \A n \in 1..2 : Unfinished[n] ~> ~Unfinished[n]
=============================================================================
