------------------------------ MODULE MCFences ------------------------------
(***************************************************************************)
(* The print engine on the printers and links other than the token fence   *)
(* over TCP (PrintEngine_token.cfg): a bare status byte as fence, no fence *)
(* at all, and the token fence over a serial link, where an answer may     *)
(* reach a later connection. `part' says which printer this behaviour is   *)
(* of. The instances are of PrintEngineSafety, which is PrintEngine and    *)
(* what is proved of it.                                                   *)
(***************************************************************************)
EXTENDS Naturals, Sequences

CONSTANTS
    Keys,
    MaxBareJobs, MaxJobs, MaxRestarts, MaxDrops   \* bounds: jobs, restarts and dropped links

VARIABLE part   \* which component this behaviour is of

\* PrintEngine
VARIABLES jobs, journal, pub, done, byKey, held, nextSlot, tasks, stopping, worker, io,
          link, toDev, fromDev, paper, spent

Bare == INSTANCE PrintEngineSafety WITH
    Completion <- "GsR1", CutModes <- BOOLEAN, StrictModes <- {TRUE}, ReprintKeys <- {},
    SessionBound <- TRUE, MaxJobs <- MaxBareJobs

WriteOnly == INSTANCE PrintEngineSafety WITH
    Completion <- "None", CutModes <- BOOLEAN, StrictModes <- {TRUE}, ReprintKeys <- {},
    SessionBound <- TRUE

Serial == INSTANCE PrintEngineSafety WITH
    Completion <- "GsParenH", CutModes <- {TRUE}, StrictModes <- {FALSE},
    ReprintKeys <- Keys, SessionBound <- FALSE, MaxRestarts <- 0

bareVars == <<jobs, journal, pub, done, byKey, held, nextSlot, tasks, stopping, worker, io,
              link, toDev, fromDev, paper, spent>>
vars == <<part, bareVars>>

-----------------------------------------------------------------------------
Init ==
    /\ part \in {"bare", "write only", "serial"}
    /\ CASE part = "bare" -> Bare!Init
         [] part = "write only" -> WriteOnly!Init
         [] part = "serial" -> Serial!Init

BareSteps == part = "bare" /\ Bare!Next /\ UNCHANGED part
WriteOnlySteps == part = "write only" /\ WriteOnly!Next /\ UNCHANGED part
SerialSteps == part = "serial" /\ Serial!Next /\ UNCHANGED part

Next ==
    \/ BareSteps \/ WriteOnlySteps \/ SerialSteps

Spec == Init /\ [][Next]_vars

\* The worker thread of the printer runs; nothing is asked of the printer, the link or the
\* clients: AwaitPrint, AwaitCut and AwaitCutter have their deadlines.
Worker ==
    CASE part = "bare"       -> Bare!Worker
      [] part = "write only" -> WriteOnly!Worker
      [] part = "serial"     -> Serial!Worker

Fairness == WF_bareVars(Worker /\ UNCHANGED part)

FairSpec == Spec /\ Fairness

-----------------------------------------------------------------------------
\* Without forceReprint one key never puts two receipts on paper: over repeated submissions,
\* timeouts, dropped links and a death of the process, with a fence and without.
OneCopyPerKey ==
    /\ part = "bare" => Bare!OneCopyPerKey
    /\ part = "write only" => WriteOnly!OneCopyPerKey

\* In one run of the process a token names one receipt, and a confirmed job is on paper,
\* even over a link that delivers an old connection's answers to the new one.
TokenNamesOneReceipt ==
    part = "serial" => Serial!TokenNamesOneReceipt /\ Serial!ConfirmedMeansPrinted

\* Every queued job ends, whatever the printer answers and however often the link drops.
EveryJobEnds == \A j \in 1..2 : journal[j].state = "Queued" ~> done[j]
=============================================================================
