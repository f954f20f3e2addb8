------------------------------ MODULE Services ------------------------------
(***************************************************************************)
(* Four of the services MCServices composes, each on its own instance: the *)
(* agent's handlers, the ePOS-Print client, the Star job path and the cash *)
(* drawer, whose polls are answered in time or never. They are declared    *)
(* apart so that what is proved of them (ServicesSafety) does not depend   *)
(* on the composition.                                                     *)
(***************************************************************************)
EXTENDS Naturals, Sequences

CONSTANTS
    Requests, Ids, Endpoints, Keys, AnyKind, MaxJobIds,   \* AgentJobs
    Spoolers, MaxRetrievals,                              \* Epos
    Methods, MaxJobs, MaxForeign, MaxDrops, Modulus,      \* StarFence
    MaxDrawerPolls, MaxReports, MaxOperations             \* CashDrawer

\* AgentJobs
VARIABLES owned, request, answer, byKey, jobs
\* Epos
VARIABLES call, exchange, eposCallOutcome, spooled, running, copies
\* StarFence
VARIABLES method, pc, job, cuts, starOutcome, counter, fence, sequence, events, link, tx,
          etbCount, rx, paper, ghost
\* CashDrawer
VARIABLES caps, polarity, stored, step, seq, result, pin, expect, answers, pulsed, port,
          questions, replies, open, coil, facts

Agent == INSTANCE AgentJobs

EposCall == INSTANCE Epos WITH MaxPolls <- MaxRetrievals, outcome <- eposCallOutcome

Star == INSTANCE StarFence WITH outcome <- starOutcome

Drawer == INSTANCE CashDrawer WITH
    Late <- FALSE, MaxPolls <- MaxDrawerPolls, MaxInFlight <- MaxReports,
    MaxTasks <- MaxOperations

agentVars == <<owned, request, answer, byKey, jobs>>
eposCallVars == <<call, exchange, eposCallOutcome, spooled, running, copies>>
starVars == <<method, pc, job, cuts, starOutcome, counter, fence, sequence, events, link,
              tx, etbCount, rx, paper, ghost>>
drawerVars == <<caps, polarity, stored, step, seq, result, pin, expect, answers, pulsed,
                port, questions, replies, open, coil, facts>>
=============================================================================
