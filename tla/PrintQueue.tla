----------------------------- MODULE PrintQueue -----------------------------
(***************************************************************************)
(* The print queue addon (queue/src/print_queue.cpp): lanes that hold jobs *)
(* while a printer is unusable, drain one at a time on recovery, expire    *)
(* what is stale and stop behind a job that ended Unknown; with the hooks  *)
(* of the core it calls, reserve() and submitReserved() of core/driver.cpp.*)
(*                                                                         *)
(* state_->mutex makes every host call and every pass of the pump one      *)
(* step; what the core's threads post goes to the inbox, behind a mutex of *)
(* its own, so it may arrive between any two of those steps.  The engine   *)
(* behind submitReserved() is PrintEngine's subject: here it ends the jobs *)
(* it is given, one at a time, in any of the ways it can.                  *)
(* Time: an item with a deadline may become overdue at any moment.         *)
(* An operator named X_y is a faulty variant of X, kept to show that the   *)
(* properties can fail.                                                    *)
(***************************************************************************)
EXTENDS Naturals, Sequences, FiniteSets, FiniteSetsExt, SequencesExt

CONSTANTS
  Printers,
  Keys,              \* idempotency keys
  Urgent,            \* those enqueued with the higher of two priorities
  Perishable,        \* those enqueued with a time to live
  Direct,            \* those a host may also pass to Printer::print()
  Failing, Doubtful, \* bound: those whose engine pass may fail, or end Unknown
  Faults,            \* what status bytes report: offline, cover_open, paper_out
  HoldWhileOffline,  \* QueuePolicy
  ByPriority,        \* QueuePolicy: DrainOrder::Priority
  MaxDepth,          \* QueuePolicy: 0 means unlimited
  MaxTurns           \* bound: status reports, lost links, operator calls and ticks

ASSUME QueueAssumption ==
  /\ UNION {Urgent, Perishable, Direct, Failing, Doubtful} \subseteq Keys
  /\ {HoldWhileOffline, ByPriority} \subseteq BOOLEAN
  /\ {MaxDepth, MaxTurns} \subseteq Nat
  /\ IsFiniteSet(Faults) /\ "link" \notin Faults

VARIABLES
  lane,       \* per printer, QueueLane
  inbox,      \* [events, completions, pending]
  thread,     \* the queue's thread: [pc, alarm]; alarm is what its wait covers
  stopping,   \* QueueState::stopping
  unsignalled,\* unblock() and resume() calls between the mutex and signal()
  index,      \* per key, the job the driver's index names
  engine,     \* per printer, the jobs handed to its worker
  status,     \* per printer, DeviceStatus and the events not dispatched yet
  up,         \* per printer, transport_->isConnected()
  overdue,    \* keys of items whose deadline has passed
  turns,      \* counts what MaxTurns bounds
  seen        \* history: what reached a worker, Unknown endings

vars == <<lane, inbox, thread, stopping, unsignalled, index, engine, status,
          up, overdue, turns, seen>>

Outcomes == {"Done", "Failed", "Unknown"}
JobStates == {"none", "held", "sent", "expired", "overflowed"} \cup Outcomes
Events == [printer : Printers, fault : Faults \cup {"link"}, on : BOOLEAN]

LaneRecord ==
  [is : {"absent", "bare", "ready"}, faults : SUBSET (Faults \cup {"link"}),
   blocked : BOOLEAN, paused : BOOLEAN, inFlight : BOOLEAN, waiting : Seq(Keys)]

Completion == [printer : Printers, state : Outcomes]
Item == [key : Keys, drained : BOOLEAN]

LaneOK ==
  /\ lane \in [Printers -> LaneRecord]
  /\ \A p \in Printers : MaxDepth # 0 => Len(lane[p].waiting) <= MaxDepth
InboxOK ==
  inbox \in [events : Seq(Events), completions : Seq(Completion), pending : BOOLEAN]
ThreadOK == thread \in [pc : {"pump", "rest", "asleep", "exited"}, alarm : SUBSET Keys]
StatusOK ==
  status \in [Printers -> [observed : BOOLEAN, faults : SUBSET Faults, toSend : Seq(Events)]]
IndexOK == index \in [Keys -> [state : JobStates, attempt : 0 .. 2]]
EngineOK == engine \in [Printers -> Seq(Item)]
SeenOK ==
  seen \in [passes : [Keys -> Seq(Outcomes)], unknown : SUBSET Printers, ticked : BOOLEAN]
OthersOK ==
  /\ stopping \in BOOLEAN /\ unsignalled \in Nat /\ up \in [Printers -> BOOLEAN]
  /\ overdue \in SUBSET Keys /\ turns \in 0 .. MaxTurns

TypeOK ==
  /\ LaneOK /\ InboxOK /\ ThreadOK /\ StatusOK
  /\ IndexOK /\ EngineOK /\ SeenOK /\ OthersOK

NoLane == [is |-> "absent", faults |-> {}, blocked |-> FALSE, paused |-> FALSE,
           inFlight |-> FALSE, waiting |-> <<>>]

Init ==
  /\ lane = [p \in Printers |-> NoLane]
  /\ inbox = [events |-> <<>>, completions |-> <<>>, pending |-> FALSE]
  /\ thread = [pc |-> "pump", alarm |-> {}]
  /\ stopping = FALSE
  /\ unsignalled = 0
  /\ index = [k \in Keys |-> [state |-> "none", attempt |-> 0]]
  /\ engine = [p \in Printers |-> <<>>]
  /\ status = [p \in Printers |-> [observed |-> FALSE, faults |-> {}, toSend |-> <<>>]]
  /\ up = [p \in Printers |-> TRUE]
  /\ overdue = {}
  /\ turns = 0
  /\ seen = [passes |-> [k \in Keys |-> <<>>], unknown |-> {}, ticked |-> FALSE]

-----------------------------------------------------------------------------
(* Lanes.                                                                  *)

Usable(ln) == ln.faults = {}

(* drainableLocked().                                                      *)
Drainable(ln) ==
  /\ ~ln.paused /\ ~ln.blocked /\ ~ln.inFlight
  /\ ~HoldWhileOffline \/ Usable(ln)

(* laneLocked(): a lane is seeded from the last status snapshot.           *)
Lane(p) ==
  IF lane[p].is = "ready" THEN lane[p]
  ELSE [lane[p] EXCEPT !.is = "ready",
                       !.faults = IF status[p].observed THEN status[p].faults
                                  ELSE @ \ {"link"}]

Before(ln, i, j) ==
  IF ByPriority /\ (ln.waiting[i] \in Urgent) # (ln.waiting[j] \in Urgent)
    THEN ln.waiting[i] \in Urgent
    ELSE i < j

Select_Last(ln) == Len(ln.waiting)

(* selectLocked(): sequence numbers grow along the vector.                 *)
Select(ln) ==
  CHOOSE i \in DOMAIN ln.waiting :
    \A j \in DOMAIN ln.waiting \ {i} : Before(ln, i, j)

-----------------------------------------------------------------------------
(* The inbox.                                                              *)

(* The condition variable: a post wakes the thread if it is waiting.       *)
Woken == IF thread.pc = "asleep" THEN [thread EXCEPT !.pc = "pump"] ELSE thread

Post(box) ==
  /\ inbox' = [box EXCEPT !.pending = TRUE]
  /\ thread' = Woken

PostEvent(p, fault, on) ==
  Post([inbox EXCEPT !.events =
          Append(@, [printer |-> p, fault |-> fault, on |-> on])])

(* The last event about a fault decides; without one the latch stays.      *)
Told(p, f) ==
  LET about == {i \in DOMAIN inbox.events :
                  inbox.events[i].printer = p /\ inbox.events[i].fault = f}
  IN IF about = {} THEN f \in lane[p].faults ELSE inbox.events[Max(about)].on

Applied_Forgives(p) ==
  LET ended == {inbox.completions[i] : i \in DOMAIN inbox.completions}
  IN [lane[p] EXCEPT !.faults = {f \in Faults \cup {"link"} : Told(p, f)},
                     !.inFlight = @ /\ ~\E c \in ended : c.printer = p]

(* applyInboxLocked(): the device events, then the completions.            *)
Applied(p) ==
  LET ended == {inbox.completions[i] : i \in DOMAIN inbox.completions}
  IN IF lane[p].is = "absent" THEN lane[p]
     ELSE [lane[p] EXCEPT
             !.faults = {f \in Faults \cup {"link"} : Told(p, f)},
             !.inFlight = @ /\ ~\E c \in ended : c.printer = p,
             !.blocked = @ \/ [printer |-> p, state |-> "Unknown"] \in ended]

-----------------------------------------------------------------------------
(* The pump.                                                               *)

(* startLocked(): the job goes to the printer's worker, marked as drained  *)
(* because the queue subscribes to its ending.                             *)
Sent(k) == [key |-> k, drained |-> TRUE]

Expired(ln) == {k \in overdue : Contains(ln.waiting, k)}

(* At most one job, and none more until its ending is in.                  *)
Started(ln, gone) ==
  IF ln.waiting # <<>> /\ Drainable(ln)
    THEN [to |-> [ln EXCEPT !.waiting = RemoveAt(@, Select(ln)), !.inFlight = TRUE],
          expired |-> gone, started |-> {ln.waiting[Select(ln)]}]
    ELSE [to |-> ln, expired |-> gone, started |-> {}]

(* What the pass leaves of a lane's jobs, in the order they came.          *)
Without(waiting, gone) ==
  LET kept[i \in 0 .. Len(waiting)] ==
        IF i = 0 THEN <<>>
        ELSE IF waiting[i] \in gone THEN kept[i - 1] ELSE Append(kept[i - 1], waiting[i])
  IN kept[Len(waiting)]

(* What one pass of pumpLocked() makes of a lane: the inbox, expiry        *)
(* whatever holds the lane, then at most one job started.                  *)
Pumped(p) ==
  Started([Applied(p) EXCEPT !.waiting = Without(lane[p].waiting, overdue)],
          Expired(lane[p]))

Pump ==
  LET after == [p \in Printers |-> Pumped(p)]
      gone == UNION {after[p].expired : p \in Printers}
      started == UNION {after[p].started : p \in Printers}
  IN /\ lane' = [p \in Printers |-> after[p].to]
     /\ index' = [k \in Keys |->
          IF k \in gone THEN [index[k] EXCEPT !.state = "expired"]
          ELSE IF k \in started THEN [index[k] EXCEPT !.state = "sent"]
          ELSE index[k]]
     /\ engine' = [p \in Printers |->
          IF after[p].started = {} THEN engine[p]
          ELSE Append(engine[p], Sent(CHOOSE k \in after[p].started : TRUE))]
     /\ inbox' = [events |-> <<>>, completions |-> <<>>, pending |-> FALSE]
     /\ overdue' = overdue \ gone

(* The deadlines the pass returns the earliest of.                         *)
Alarm == {k \in Perishable : \E p \in Printers : Contains(lane[p].waiting, k)}

(* run(): a pass of the pump, ...                                          *)
RunPump ==
  /\ thread.pc = "pump"
  /\ \/ /\ stopping
        /\ thread' = [thread EXCEPT !.pc = "exited"]
        /\ UNCHANGED <<lane, index, engine, inbox, overdue>>
     \/ /\ ~stopping
        /\ Pump
        /\ thread' = [pc |-> "rest", alarm |-> Alarm']
  /\ UNCHANGED <<stopping, unsignalled, status, up, turns, seen>>

(* ... then the inbox's mutex: something was posted, or it waits.          *)
RunRest ==
  /\ thread.pc = "rest"
  /\ thread' = [thread EXCEPT !.pc = IF inbox.pending THEN "pump"
                                     ELSE IF stopping THEN "exited" ELSE "asleep"]
  /\ inbox' = [inbox EXCEPT !.pending = FALSE]
  /\ UNCHANGED <<lane, stopping, unsignalled, index, engine, status, up, overdue, turns, seen>>

(* wait_until(next): next is the earliest deadline the last pass saw.      *)
RunTimeout ==
  /\ thread.pc = "asleep" /\ thread.alarm \cap overdue # {}
  /\ thread' = [thread EXCEPT !.pc = "pump"]
  /\ inbox' = [inbox EXCEPT !.pending = FALSE]
  /\ UNCHANGED <<lane, stopping, unsignalled, index, engine, status, up, overdue, turns, seen>>

QueueThread == RunPump \/ RunRest \/ RunTimeout

(* tick(): a pass of the pump on a host's thread.                          *)
Tick ==
  /\ turns < MaxTurns
  /\ Pump
  /\ turns' = turns + 1
  /\ seen' = [seen EXCEPT !.ticked = TRUE]
  /\ UNCHANGED <<thread, stopping, unsignalled, status, up>>

(* An item's deadline passes.                                              *)
Deadline(k) ==
  /\ k \in Perishable \ overdue /\ index[k].state = "held"
  /\ overdue' = overdue \cup {k}
  /\ UNCHANGED <<lane, inbox, thread, stopping, unsignalled, index, engine,
                 status, up, turns, seen>>

-----------------------------------------------------------------------------
(* Host calls.                                                             *)

Reserved_Again(k) == index[k].state \in {"none", "Done"}

(* reserve(): an existing key returns its job, whatever became of it.      *)
Reserved(k) == index[k].state = "none"

Full_OffByOne(ln) == MaxDepth # 0 /\ Len(ln.waiting) > MaxDepth

Full(ln) == MaxDepth # 0 /\ Len(ln.waiting) >= MaxDepth

(* enqueue(): started at once if the lane is drainable, refused at the     *)
(* depth limit, held otherwise.                                            *)
Enqueue(k, p) ==
  LET ln == Lane(p)
      Job(state) == [state |-> state, attempt |-> 1]
  IN /\ \/ /\ ~Reserved(k) /\ lane[p].is # "ready"
           /\ lane' = [lane EXCEPT ![p] = ln]
           /\ UNCHANGED <<index, engine, inbox, thread>>
        \/ /\ Reserved(k) /\ Drainable(ln)
           /\ lane' = [lane EXCEPT ![p] = [ln EXCEPT !.inFlight = TRUE]]
           /\ index' = [index EXCEPT ![k] = Job("sent")]
           /\ engine' = [engine EXCEPT ![p] = Append(@, Sent(k))]
           /\ UNCHANGED <<inbox, thread>>
        \/ /\ Reserved(k) /\ ~Drainable(ln)
           /\ Full(ln)
           /\ lane' = [lane EXCEPT ![p] = ln]
           /\ index' = [index EXCEPT ![k] = Job("overflowed")]
           /\ UNCHANGED <<engine, inbox, thread>>
        \/ /\ Reserved(k) /\ ~Drainable(ln)
           /\ ~Full(ln)
           /\ lane' = [lane EXCEPT ![p] = [ln EXCEPT !.waiting = Append(@, k)]]
           /\ index' = [index EXCEPT ![k] = Job("held")]
           /\ Post(inbox)
           /\ UNCHANGED engine
     /\ UNCHANGED <<stopping, unsignalled, status, up, overdue, turns, seen>>

(* submit() of the same driver: a key whose job failed gets a new attempt, *)
(* any other existing key returns its job (third attempts are left out).   *)
PrintDirect(k, p) ==
  /\ k \in Direct /\ index[k].attempt < 2
  /\ index[k].state \in {"none", "Failed", "expired", "overflowed"}
  /\ index' = [index EXCEPT ![k] = [state |-> "sent", attempt |-> @.attempt + 1]]
  /\ engine' = [engine EXCEPT ![p] = Append(@, [key |-> k, drained |-> FALSE])]
  /\ UNCHANGED <<lane, inbox, thread, stopping, unsignalled, status, up, overdue, turns, seen>>

Pause(p) ==
  /\ turns < MaxTurns /\ ~lane[p].paused
  /\ lane' = [lane EXCEPT ![p].paused = TRUE,
                          ![p].is = IF @ = "absent" THEN "bare" ELSE @]
  /\ turns' = turns + 1
  /\ UNCHANGED <<inbox, thread, stopping, unsignalled, index, engine, status, up, overdue, seen>>

(* resume() and unblock() change the lane under the mutex ...              *)
Resume(p) ==
  /\ lane[p].paused
  /\ lane' = [lane EXCEPT ![p].paused = FALSE]
  /\ unsignalled' = unsignalled + 1
  /\ UNCHANGED <<inbox, thread, stopping, index, engine, status, up, overdue, turns, seen>>

Unblock_Silent(p) ==
  /\ lane[p].blocked /\ turns < MaxTurns
  /\ lane' = [lane EXCEPT ![p].blocked = FALSE]
  /\ turns' = turns + 1
  /\ seen' = [seen EXCEPT !.unknown = @ \ {p}]
  /\ UNCHANGED <<inbox, thread, stopping, unsignalled, index, engine, status, up, overdue>>

Unblock(p) ==
  /\ lane[p].blocked /\ turns < MaxTurns
  /\ lane' = [lane EXCEPT ![p].blocked = FALSE]
  /\ unsignalled' = unsignalled + 1
  /\ turns' = turns + 1
  /\ seen' = [seen EXCEPT !.unknown = @ \ {p}]
  /\ UNCHANGED <<inbox, thread, stopping, index, engine, status, up, overdue>>

(* ... and signal() after it.                                              *)
Signal ==
  /\ unsignalled > 0
  /\ unsignalled' = unsignalled - 1
  /\ Post(inbox)
  /\ UNCHANGED <<lane, stopping, index, engine, status, up, overdue, turns, seen>>

Stop ==
  /\ turns < MaxTurns /\ ~stopping
  /\ stopping' = TRUE
  /\ turns' = turns + 1
  /\ Post(inbox)
  /\ UNCHANGED <<lane, unsignalled, index, engine, status, up, overdue, seen>>

-----------------------------------------------------------------------------
(* The core.                                                               *)

(* mergeStatus() on the reader's thread: the snapshot first, ...           *)
MergeStatus(p, flags, on) ==
  /\ turns < MaxTurns /\ status[p].toSend = <<>> /\ up[p]
  /\ turns' = turns + 1
  /\ status' = [status EXCEPT ![p] =
       [observed |-> TRUE, faults |-> (@.faults \ flags) \cup on,
        toSend |-> SetToSeq({[printer |-> p, fault |-> f, on |-> f \in on] : f \in flags})]]
  /\ UNCHANGED <<lane, inbox, thread, stopping, unsignalled, index, engine, up, overdue, seen>>

(* ... dispatchDeviceEvents() after it, one event at a time.               *)
Dispatch(p) ==
  /\ status[p].toSend # <<>>
  /\ LET e == Head(status[p].toSend) IN PostEvent(p, e.fault, e.on)
  /\ status' = [status EXCEPT ![p].toSend = Tail(@)]
  /\ UNCHANGED <<lane, stopping, unsignalled, index, engine, up, overdue, turns, seen>>

(* onDisconnected(), on the reader's thread as well.                       *)
ConnectionLost(p) ==
  /\ up[p] /\ turns < MaxTurns /\ status[p].toSend = <<>>
  /\ up' = [up EXCEPT ![p] = FALSE]
  /\ turns' = turns + 1
  /\ PostEvent(p, "link", TRUE)
  /\ UNCHANGED <<lane, stopping, unsignalled, index, engine, status, overdue, seen>>

(* ensureConnected(), run by a job's worker; refreshStatus() and the       *)
(* drawer run it for a host that asks.                                     *)
Connect(p) ==
  /\ ~up[p]
  /\ up' = [up EXCEPT ![p] = TRUE]
  /\ PostEvent(p, "link", FALSE)
  /\ UNCHANGED <<lane, stopping, unsignalled, index, engine, status, overdue, turns, seen>>

RefreshStatus(p) == engine[p] = <<>> /\ Connect(p)

(* The worker ends the job at the head of the lane; the subscription made  *)
(* by startLocked() posts the completion of a job the queue drained.       *)
JobEnds(p, outcome) ==
  /\ engine[p] # <<>>
  /\ up[p] \/ outcome = "Failed"
  /\ LET e == Head(engine[p])
     IN /\ outcome = "Failed" => e.key \in Failing
        /\ outcome = "Unknown" => e.key \in Doubtful
        /\ engine' = [engine EXCEPT ![p] = Tail(@)]
        /\ index' = [index EXCEPT ![e.key].state = outcome]
        /\ IF e.drained
             THEN Post([inbox EXCEPT !.completions =
                          Append(@, [printer |-> p, state |-> outcome])])
             ELSE UNCHANGED <<inbox, thread>>
        /\ seen' = [seen EXCEPT !.passes[e.key] = Append(@, outcome),
                                !.unknown = IF e.drained /\ outcome = "Unknown"
                                            THEN @ \cup {p} ELSE @]
  /\ UNCHANGED <<lane, stopping, unsignalled, status, up, overdue, turns>>

Worker(p) ==
  \/ engine[p] # <<>> /\ Connect(p)
  \/ \E outcome \in Outcomes : JobEnds(p, outcome)

Next ==
  \/ QueueThread \/ Tick \/ Signal \/ Stop
  \/ \E k \in Keys : Deadline(k)
  \/ \E k \in Keys, p \in Printers : Enqueue(k, p) \/ PrintDirect(k, p)
  \/ \E p \in Printers :
       \/ Pause(p) \/ Resume(p) \/ Unblock(p)
       \/ \E flags \in SUBSET Faults \ {{}} : \E on \in SUBSET flags : MergeStatus(p, flags, on)
       \/ Dispatch(p) \/ ConnectionLost(p) \/ RefreshStatus(p) \/ Worker(p)

Spec == Init /\ [][Next]_vars

(* The queue's thread runs, a caller of unblock() or resume() returns, a   *)
(* worker ends its jobs (every wait of the engine has a timeout) and the   *)
(* reader dispatches what it merged.  No host is obliged to call anything. *)
FairSpec ==
  /\ Spec
  /\ WF_vars(QueueThread) /\ WF_vars(Signal)
  /\ \A p \in Printers : WF_vars(Worker(p)) /\ WF_vars(Dispatch(p))

-----------------------------------------------------------------------------
(* Properties.                                                             *)

(* Rule 2 and what submit() adds to it: a key has at most one pass through *)
(* a worker that may have put it on paper, however it was submitted.       *)
OnePassPerKey ==
  \A k \in Keys :
    LET passes == seen.passes[k]
    IN /\ \A i \in 1 .. Len(passes) - 1 : passes[i] = "Failed"
       /\ passes # <<>> /\ Last(passes) # "Failed"
            => /\ ~\E p \in Printers : Contains(lane[p].waiting, k)
               /\ \A p \in Printers : \A i \in DOMAIN engine[p] : engine[p][i].key # k

(* The queue's jobs with p's worker, and their endings in the inbox.       *)
Running(p) == {i \in 1 .. Len(engine[p]) : engine[p][i].drained}
Posted(p) ==
  {i \in 1 .. Len(inbox.completions) : inbox.completions[i].printer = p}

(* A lane has one drained job at a time, from the start to the moment the  *)
(* pump has heard how it ended: no event, call or pass slips another one   *)
(* in while the ending of the last is still in the inbox.                  *)
OneInFlight ==
  \A p \in Printers :
    IF lane[p].inFlight
      THEN \/ Posted(p) = {} /\ (\E i \in Running(p) : Running(p) = {i})
           \/ Running(p) = {} /\ (\E i \in Posted(p) : Posted(p) = {i})
      ELSE Running(p) = {} /\ Posted(p) = {}

(* A job the queue ended (Expired, QueueOverflow) never reached a worker   *)
(* and is not left waiting: FailedKnown is honest.                         *)
EndedByQueueNeverSent ==
  \A k \in Keys : index[k].state \in {"expired", "overflowed"} =>
    /\ seen.passes[k] = <<>>
    /\ \A p \in Printers : /\ ~Contains(lane[p].waiting, k)
                           /\ \A i \in DOMAIN engine[p] : engine[p][i].key # k

(* Once the reader has dispatched what it merged and the pump has taken    *)
(* it, a lane's latched faults are the ones of the last status: seeding a  *)
(* lane in the middle of a report loses nothing.                           *)
LaneAgreesWithStatus ==
  \A p \in Printers :
    (lane[p].is = "ready" /\ inbox.events = <<>> /\ status[p].toSend = <<>>
       /\ status[p].observed)
      => lane[p].faults \ {"link"} = status[p].faults

(* What the pump and the core's threads agree on between any two steps.    *)
LaneIsSound ==
  TypeOK /\ OneInFlight /\ EndedByQueueNeverSent /\ LaneAgreesWithStatus

(* A job of the queue goes to p's worker.                                  *)
Starts(p) == Len(engine'[p]) > Len(engine[p]) /\ Last(engine'[p]).drained

(* Rule 1: after a drained job ended Unknown nothing more drains onto its  *)
(* printer until an operator has called unblock() on the blocked lane.     *)
UnknownStopsTheLane == [][\A p \in seen.unknown : ~Starts(p)]_vars

(* The pump releases held jobs in drain order: what leaves the waiting set *)
(* for a worker leaves nothing behind that goes before it.                 *)
DrainInOrder ==
  [][\A p \in Printers : \A i \in DOMAIN lane[p].waiting :
       (Starts(p) /\ Last(engine'[p]).key = lane[p].waiting[i])
         => \A j \in DOMAIN lane[p].waiting :
              Before(lane[p], j, i) => ~Contains(lane'[p].waiting, lane[p].waiting[j])]_vars

(* A held job on a drainable lane moves: whatever made the lane drainable  *)
(* (an event, an ending, unblock, resume) is followed by a pass.           *)
DrainableLanesMove ==
  \A p \in Printers :
    (lane[p].waiting # <<>> /\ Drainable(lane[p]))
      ~> (lane[p].waiting = <<>> \/ ~Drainable(lane[p]) \/ stopping)

(* A held job whose time to live has passed is ended by the queue's own    *)
(* thread, unless the host pumps the queue itself or stops it.             *)
OverdueJobsEnd ==
  \A k \in Perishable :
    (k \in overdue) ~> (index[k].state # "held" \/ stopping \/ seen.ticked)

(* Held jobs do not stay behind: they move, or expire.                     *)
HeldJobsMove == DrainableLanesMove /\ OverdueJobsEnd
=============================================================================
