----------------------------- MODULE WorkerLane -----------------------------
(***************************************************************************)
(* The lane of one printer (core/src/driver.cpp, PrinterRuntime): the task *)
(* queue, the worker thread that runs one task at a time, and the threads  *)
(* that submit jobs, call for a task and wait for it, drain or stop.  What *)
(* a task does is PrintEngine's subject; here it runs and ends.            *)
(*                                                                         *)
(* queue_mutex_ is explicit where a thread keeps it over two steps, which  *)
(* is a condition variable's loop: the predicate, then the enrolment.  The *)
(* other critical sections are one step and need the mutex free.           *)
(* Quiet_QueueOnly is a faulty variant, kept to show that the properties   *)
(* can fail.                                                               *)
(***************************************************************************)
EXTENDS Naturals, Sequences, SequencesExt

CONSTANTS
  Jobs,       \* submit(): the thread pushes a job and goes on
  Calls,      \* refreshStatus(), probeNow(), openDrawer(): it waits for its task
  Ahead,      \* those whose task pushPeripheral() puts ahead of queued jobs
  Drainers,   \* threads that call drain()
  Stoppers,   \* threads that call stop()
  Probe       \* the task scheduleProbe() queues

Tasks == Jobs \cup Calls \cup {Probe}

(* Where a task is: nowhere yet, its submitter has read stopping_, handed  *)
(* to the lane, being run; or how it ended.                                *)
Ended == {"ran", "cancelled", "refused"}
Fates == {"new", "checked", "pushed", "running"} \cup Ended

VARIABLES
  started,    \* start() has returned, so a Printer handle exists
  mutex,      \* queue_mutex_: "free", "worker" or a drainer
  stopped,    \* stopped_
  stopping,   \* stopping_
  tasks,      \* tasks_
  active,     \* active_
  worker,     \* [pc, task]
  fate,       \* per task
  drainer,    \* per drainer [pc, owed]: the tasks in the lane when it called
  stopper,    \* per stopper [pc, left, owed]
  order       \* the ordinary tasks, as pushed and as run

vars == <<started, mutex, stopped, stopping, tasks, active, worker, fate,
          drainer, stopper, order>>

TypeOK ==
  /\ {started, stopped, stopping, active} \subseteq BOOLEAN
  /\ mutex \in Drainers \cup {"free", "worker"}
  /\ tasks \in Seq(Tasks)
  /\ worker \in [pc : {"lock", "check", "enroll", "asleep", "run", "clear", "notify", "exited"},
                 task : Tasks]
  /\ fate \in [Tasks -> Fates]
  /\ drainer \in [Drainers -> [pc : {"idle", "lock", "check", "enroll", "asleep", "returned"},
                               owed : SUBSET Tasks]]
  /\ stopper \in [Stoppers -> [pc : {"idle", "store", "notify", "join", "sweep",
                                     "cancel", "wake", "returned"},
                               left : Seq(Tasks), owed : SUBSET Tasks]]
  /\ order \in [pushed : Seq(Tasks), run : Seq(Tasks)]
  /\ active = (worker.pc \in {"run", "clear"})

Init ==
  /\ started = FALSE
  /\ mutex = "free"
  /\ stopped = FALSE /\ stopping = FALSE
  /\ tasks = <<>>
  /\ active = FALSE
  /\ worker = [pc |-> "lock", task |-> Probe]
  /\ fate = [t \in Tasks |-> "new"]
  /\ drainer = [d \in Drainers |-> [pc |-> "idle", owed |-> {}]]
  /\ stopper = [s \in Stoppers |-> [pc |-> "idle", left |-> <<>>, owed |-> {}]]
  /\ order = [pushed |-> <<>>, run |-> <<>>]

InLane == {t \in Tasks : fate[t] \in {"pushed", "running"}}

-----------------------------------------------------------------------------
(* Submitting.                                                             *)

(* notify_all on queue_cv_, whose only waiter is the worker.               *)
WakeWorker ==
  worker' = IF worker.pc = "asleep" THEN [worker EXCEPT !.pc = "lock"] ELSE worker

(* A pulse that may fire while the mechanism prints goes in front.         *)
Queued(t) == IF t \in Ahead THEN <<t>> \o tasks ELSE Append(tasks, t)

Enqueue(t) ==
  /\ mutex = "free"
  /\ tasks' = Queued(t)
  /\ fate' = [fate EXCEPT ![t] = "pushed"]
  /\ order' = IF t \in Ahead THEN order ELSE [order EXCEPT !.pushed = Append(@, t)]
  /\ WakeWorker

(* start(): the worker is running already when the probe is queued.        *)
Start ==
  /\ ~started
  /\ started' = TRUE
  /\ \/ Enqueue(Probe)
     \/ UNCHANGED <<tasks, fate, order, worker>>
  /\ UNCHANGED <<mutex, stopped, stopping, active, drainer, stopper>>

(* submit() and the calls read stopping_ without the queue's mutex ...     *)
ReadStopping(t) ==
  /\ started /\ t # Probe /\ fate[t] = "new"
  /\ fate' = [fate EXCEPT ![t] = IF stopping THEN "refused" ELSE "checked"]
  /\ UNCHANGED <<started, mutex, stopped, stopping, tasks, active, worker,
                 drainer, stopper, order>>

(* ... and push in a critical section of their own.                        *)
Push(t) ==
  /\ fate[t] = "checked"
  /\ Enqueue(t)
  /\ UNCHANGED <<started, mutex, stopped, stopping, active, drainer, stopper>>

-----------------------------------------------------------------------------
(* The worker.                                                             *)

Lock ==
  /\ worker.pc = "lock" /\ mutex = "free"
  /\ mutex' = "worker"
  /\ worker' = [worker EXCEPT !.pc = "check"]
  /\ UNCHANGED <<started, stopped, stopping, tasks, active, fate, drainer, stopper, order>>

(* The predicate of queue_cv_ and what follows it under the same lock.     *)
Check ==
  /\ worker.pc = "check"
  /\ \/ /\ stopping
        /\ worker' = [worker EXCEPT !.pc = "exited"]
        /\ mutex' = "free"
        /\ UNCHANGED <<tasks, active, fate, order>>
     \/ /\ ~stopping /\ tasks = <<>>
        /\ worker' = [worker EXCEPT !.pc = "enroll"]
        /\ UNCHANGED <<mutex, tasks, active, fate, order>>
     \/ /\ ~stopping /\ tasks # <<>>
        /\ LET t == Head(tasks)
           IN /\ worker' = [pc |-> "run", task |-> t]
              /\ fate' = [fate EXCEPT ![t] = "running"]
              /\ order' = IF t \in Ahead THEN order
                          ELSE [order EXCEPT !.run = Append(@, t)]
        /\ tasks' = Tail(tasks)
        /\ active' = TRUE
        /\ mutex' = "free"
  /\ UNCHANGED <<started, stopped, stopping, drainer, stopper>>

Enroll ==
  /\ worker.pc = "enroll"
  /\ worker' = [worker EXCEPT !.pc = "asleep"]
  /\ mutex' = "free"
  /\ UNCHANGED <<started, stopped, stopping, tasks, active, fate, drainer, stopper, order>>

Run ==
  /\ worker.pc = "run"
  /\ fate' = [fate EXCEPT ![worker.task] = "ran"]
  /\ worker' = [worker EXCEPT !.pc = "clear"]
  /\ UNCHANGED <<started, mutex, stopped, stopping, tasks, active, drainer, stopper, order>>

ClearActive ==
  /\ worker.pc = "clear" /\ mutex = "free"
  /\ active' = FALSE
  /\ worker' = [worker EXCEPT !.pc = "notify"]
  /\ UNCHANGED <<started, mutex, stopped, stopping, tasks, fate, drainer, stopper, order>>

(* notify_all on idle_cv_.                                                 *)
WakeDrainers ==
  drainer' = [d \in Drainers |->
    IF drainer[d].pc = "asleep" THEN [drainer[d] EXCEPT !.pc = "lock"] ELSE drainer[d]]

NotifyIdle ==
  /\ worker.pc = "notify"
  /\ WakeDrainers
  /\ worker' = [worker EXCEPT !.pc = "lock"]
  /\ UNCHANGED <<started, mutex, stopped, stopping, tasks, active, fate, stopper, order>>

Worker == Lock \/ Check \/ Enroll \/ Run \/ ClearActive \/ NotifyIdle

-----------------------------------------------------------------------------
(* drain().                                                                *)

Quiet_QueueOnly == tasks = <<>>

Quiet == tasks = <<>> /\ ~active

Drain(d) ==
  /\ started /\ drainer[d].pc = "idle"
  /\ drainer' = [drainer EXCEPT ![d] = [pc |-> "lock", owed |-> InLane]]
  /\ UNCHANGED <<started, mutex, stopped, stopping, tasks, active, worker, fate,
                 stopper, order>>

DrainStep(d) ==
  /\ \/ /\ drainer[d].pc = "lock" /\ mutex = "free"
        /\ mutex' = d
        /\ drainer' = [drainer EXCEPT ![d].pc = "check"]
     \/ /\ drainer[d].pc = "check"
        /\ IF stopped \/ Quiet
             THEN drainer' = [drainer EXCEPT ![d].pc = "returned"] /\ mutex' = "free"
             ELSE drainer' = [drainer EXCEPT ![d].pc = "enroll"] /\ UNCHANGED mutex
     \/ /\ drainer[d].pc = "enroll"
        /\ drainer' = [drainer EXCEPT ![d].pc = "asleep"]
        /\ mutex' = "free"
  /\ UNCHANGED <<started, stopped, stopping, tasks, active, worker, fate, stopper, order>>

-----------------------------------------------------------------------------
(* stop().                                                                 *)

StopAt(s, pc) == stopper' = [stopper EXCEPT ![s].pc = pc]

(* Only the first caller does the work; the others return at once.         *)
Stop(s) ==
  /\ started /\ stopper[s].pc = "idle"
  /\ stopped' = TRUE
  /\ stopper' = [stopper EXCEPT ![s] =
       [@ EXCEPT !.pc = IF stopped THEN "returned" ELSE "store",
                 !.owed = IF stopped THEN {} ELSE InLane]]
  /\ UNCHANGED <<started, mutex, stopping, tasks, active, worker, fate, drainer, order>>

StoreStopping(s) ==
  /\ stopper[s].pc = "store" /\ mutex = "free"
  /\ stopping' = TRUE
  /\ StopAt(s, "notify")
  /\ UNCHANGED <<started, mutex, stopped, tasks, active, worker, fate, drainer, order>>

NotifyStop(s) ==
  /\ stopper[s].pc = "notify"
  /\ WakeWorker
  /\ StopAt(s, "join")
  /\ UNCHANGED <<started, mutex, stopped, stopping, tasks, active, fate, drainer, order>>

Join(s) ==
  /\ stopper[s].pc = "join" /\ worker.pc = "exited"
  /\ StopAt(s, "sweep")
  /\ UNCHANGED <<started, mutex, stopped, stopping, tasks, active, worker, fate,
                 drainer, order>>

(* The leftovers are swapped out of the queue.                             *)
Sweep(s) ==
  /\ stopper[s].pc = "sweep" /\ mutex = "free"
  /\ stopper' = [stopper EXCEPT ![s] = [@ EXCEPT !.pc = "cancel", !.left = tasks]]
  /\ tasks' = <<>>
  /\ UNCHANGED <<started, mutex, stopped, stopping, active, worker, fate, drainer, order>>

Cancel(s) ==
  /\ stopper[s].pc = "cancel"
  /\ \/ /\ stopper[s].left # <<>>
        /\ fate' = [fate EXCEPT ![Head(stopper[s].left)] = "cancelled"]
        /\ stopper' = [stopper EXCEPT ![s].left = Tail(@)]
     \/ /\ stopper[s].left = <<>>
        /\ StopAt(s, "wake") /\ UNCHANGED fate
  /\ UNCHANGED <<started, mutex, stopped, stopping, tasks, active, worker, drainer, order>>

WakeIdle(s) ==
  /\ stopper[s].pc = "wake"
  /\ WakeDrainers
  /\ StopAt(s, "returned")
  /\ UNCHANGED <<started, mutex, stopped, stopping, tasks, active, worker, fate, order>>

Stopper(s) ==
  StoreStopping(s) \/ NotifyStop(s) \/ Join(s) \/ Sweep(s) \/ Cancel(s) \/ WakeIdle(s)

-----------------------------------------------------------------------------

Next ==
  \/ Start
  \/ \E t \in Tasks : ReadStopping(t) \/ Push(t)
  \/ Worker
  \/ \E d \in Drainers : Drain(d) \/ DrainStep(d)
  \/ \E s \in Stoppers : Stop(s) \/ Stopper(s)

Spec == Init /\ [][Next]_vars

-----------------------------------------------------------------------------
(* Properties.                                                             *)

(* drain() with no shutdown returns only when every task that was in the   *)
(* lane at the call has run to its end, the one the worker holds included. *)
DrainCoversTheLane ==
  \A d \in Drainers :
    (drainer[d].pc = "returned" /\ ~stopped) => \A t \in drainer[d].owed : fate[t] = "ran"

(* When the stop that did the work returns, nothing runs, and no task that *)
(* was in the lane when it began is left without an end.                   *)
StopLeavesNothing ==
  \A s \in Stoppers :
    (stopper[s].pc = "returned" /\ \A o \in Stoppers \ {s} : stopper[o].pc \in {"idle", "returned"})
      => /\ \A t \in Tasks : fate[t] # "running"
         /\ \A t \in stopper[s].owed : fate[t] \in Ended

(* A pushed task is in one place only - queued, in the worker's hands or   *)
(* among a stopper's leftovers - so it ends once.                          *)
OnePlace ==
  /\ IsInjective(tasks) /\ \A t \in Range(tasks) : fate[t] = "pushed"
  /\ worker.pc = "run" => fate[worker.task] = "running"
  /\ \A s \in Stoppers :
       /\ IsInjective(stopper[s].left)
       /\ \A t \in Range(stopper[s].left) : fate[t] = "pushed" /\ t \notin Range(tasks)
       /\ \A o \in Stoppers \ {s} : Range(stopper[s].left) \cap Range(stopper[o].left) = {}

(* Ordinary tasks run in the order they were queued, the probe before any  *)
(* job; only a drawer pulse overtakes.                                     *)
RunInOrder ==
  /\ IsPrefix(order.run, order.pushed)
  /\ \A i \in DOMAIN order.pushed : order.pushed[i] = Probe => i = 1

(* A thread inside stop() or drain().  Neither stays: the worker stop()    *)
(* joins cannot sleep through the shutdown, drain() ends with or without.  *)
InStop(s) == stopper[s].pc \notin {"idle", "returned"}
InDrain(d) == drainer[d].pc \notin {"idle", "returned"}

(* A task handed to the lane while nobody has stopped the driver; it runs. *)
Handed(t) == fate[t] \in {"pushed", "running"} /\ ~stopped
=============================================================================
