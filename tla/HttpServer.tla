------------------------------ MODULE HttpServer ------------------------------
(***************************************************************************)
(* The agent's HTTP server: one accept thread, a pool of workers fed       *)
(* through a bounded queue and a condition variable, and stop() from a     *)
(* third thread. Every connection carries one request and gets one answer. *)
(* A worker tests its predicate and goes to sleep holding the lock, in two *)
(* steps, because stop() clears running_ without it.                       *)
(*                                                                         *)
(* StopNotifies_Unlocked is a faulty variant, kept to show that the        *)
(* properties can fail.                                                    *)
(***************************************************************************)
EXTENDS Integers, Sequences, FiniteSets

CONSTANTS
    Conns,     \* connections clients open
    Workers,   \* the worker threads
    MaxQueued, \* max_queued_connections
    Careful,   \* the host calls start() only on a server that is not running
    MaxStarts  \* bound: calls of start()

VARIABLES
    running,   \* running_
    listener,  \* the listening socket: "closed", "open" or "shut" down
    stopper,   \* where stop() is
    starts,    \* calls of start() so far
    acceptor,  \* [at, conn]: where acceptLoop is and the connection it just accepted
    worker,    \* worker -> where it is in workerLoop
    serving,   \* worker -> the connection it serves, "none"
    httpQueue, \* pending_
    conn       \* connection -> where it is

vars == <<running, listener, stopper, starts, acceptor, worker, serving, httpQueue, conn>>

Ended == {"answered", "refused", "closed", "reset"}

Init ==
    /\ running = FALSE /\ listener = "closed" /\ stopper = "idle" /\ starts = 0
    /\ acceptor = [at |-> "none", conn |-> "none"]
    /\ worker = [w \in Workers |-> "none"] /\ serving = [w \in Workers |-> "none"]
    /\ httpQueue = <<>> /\ conn = [c \in Conns |-> "out"]

\* A worker that tested its predicate holds mutex_ until it sleeps.
LockFree == \A w \in Workers : worker[w] # "dozing"

-----------------------------------------------------------------------------
(* start and stop. *)

\* start: the socket, the workers, the accept thread. A refused call goes through fail(),
\* which closes whatever socket is listening.
Start ==
    /\ starts < MaxStarts /\ starts' = starts + 1 /\ stopper \in {"idle", "done"}
    /\ Careful => ~running
    /\ IF running
         THEN listener' = "closed" /\ UNCHANGED <<running, stopper, acceptor, worker>>
         ELSE /\ running' = TRUE /\ listener' = "open" /\ stopper' = "idle"
              /\ acceptor' = [at |-> "check", conn |-> "none"]
              /\ worker' = [w \in Workers |-> "test"]
    /\ UNCHANGED <<serving, httpQueue, conn>>

StopBegins ==
    /\ stopper = "idle" /\ running
    /\ running' = FALSE /\ stopper' = "shutdown"
    /\ UNCHANGED <<listener, starts, acceptor, worker, serving, httpQueue, conn>>

\* shutdown() wakes an accept() that would block.
StopShutsDown ==
    /\ stopper = "shutdown" /\ stopper' = "joinAcceptor"
    /\ listener' = IF listener = "open" THEN "shut" ELSE listener
    /\ UNCHANGED <<running, starts, acceptor, worker, serving, httpQueue, conn>>

\* The kernel resets what the closed listener had not handed over.
Reset == [c \in Conns |-> IF conn[c] = "backlog" THEN "reset" ELSE conn[c]]

\* The accept thread is joined first, the descriptor closed only then.
StopJoinsAcceptor ==
    /\ stopper = "joinAcceptor" /\ acceptor.at = "exited"
    /\ listener' = "closed" /\ stopper' = "notify" /\ conn' = Reset
    /\ UNCHANGED <<running, starts, acceptor, worker, serving, httpQueue>>

StopNotifies_Unlocked ==
    /\ stopper = "notify" /\ stopper' = "joinWorkers"
    /\ worker' = [w \in Workers |-> IF worker[w] = "asleep" THEN "test" ELSE worker[w]]
    /\ UNCHANGED <<running, listener, starts, acceptor, serving, httpQueue, conn>>

\* notify_all under the lock.
StopNotifies ==
    /\ stopper = "notify" /\ LockFree /\ stopper' = "joinWorkers"
    /\ worker' = [w \in Workers |-> IF worker[w] = "asleep" THEN "test" ELSE worker[w]]
    /\ UNCHANGED <<running, listener, starts, acceptor, serving, httpQueue, conn>>

\* The workers are joined, and the connections none of them took are closed.
StopEnds ==
    /\ stopper = "joinWorkers" /\ \A w \in Workers : worker[w] = "exited"
    /\ stopper' = "done" /\ httpQueue' = <<>>
    /\ conn' = [c \in Conns |-> IF conn[c] = "queued" THEN "closed" ELSE conn[c]]
    /\ UNCHANGED <<running, listener, starts, acceptor, worker, serving>>

StopStep == StopShutsDown \/ StopJoinsAcceptor \/ StopNotifies \/ StopEnds

-----------------------------------------------------------------------------
(* acceptLoop. *)

\* A client connects while the socket listens.
Connect(c) ==
    /\ conn[c] = "out" /\ listener = "open"
    /\ conn' = [conn EXCEPT ![c] = "backlog"]
    /\ UNCHANGED <<running, listener, stopper, starts, acceptor, worker, serving, httpQueue>>

AcceptLoops ==
    /\ acceptor.at = "check"
    /\ acceptor' = [acceptor EXCEPT !.at = IF running THEN "poll" ELSE "exited"]
    /\ UNCHANGED <<running, listener, stopper, starts, worker, serving, httpQueue, conn>>

\* poll() times out, or accept() fails, or a connection comes out of the backlog.
Accept ==
    /\ acceptor.at = "poll"
    /\ \/ acceptor' = [acceptor EXCEPT !.at = "check"] /\ UNCHANGED conn
       \/ \E c \in Conns :
             /\ conn[c] = "backlog" /\ listener \in {"open", "shut"}
             /\ acceptor' = [at |-> "accepted", conn |-> c]
             /\ conn' = [conn EXCEPT ![c] = "accepted"]
    /\ UNCHANGED <<running, listener, stopper, starts, worker, serving, httpQueue>>

\* A full queue answers 503 at once.
Overflow == Len(httpQueue) >= MaxQueued

Enqueue ==
    /\ acceptor.at = "accepted" /\ LockFree
    /\ IF Overflow
         THEN /\ conn' = [conn EXCEPT ![acceptor.conn] = "refused"]
              /\ acceptor' = [at |-> "check", conn |-> "none"] /\ UNCHANGED httpQueue
         ELSE /\ conn' = [conn EXCEPT ![acceptor.conn] = "queued"]
              /\ httpQueue' = Append(httpQueue, acceptor.conn)
              /\ acceptor' = [at |-> "notify", conn |-> "none"]
    /\ UNCHANGED <<running, listener, stopper, starts, worker, serving>>

\* notify_one, after the lock is released.
NotifyOne ==
    /\ acceptor.at = "notify" /\ acceptor' = [acceptor EXCEPT !.at = "check"]
    /\ IF \E w \in Workers : worker[w] = "asleep"
         THEN \E w \in Workers : worker[w] = "asleep" /\ worker' = [worker EXCEPT ![w] = "test"]
         ELSE UNCHANGED worker
    /\ UNCHANGED <<running, listener, stopper, starts, serving, httpQueue, conn>>

AcceptStep == AcceptLoops \/ Accept \/ Enqueue \/ NotifyOne

-----------------------------------------------------------------------------
(* workerLoop and serve. *)

\* The predicate of ready_.wait, tested with the lock held: take a connection, leave, or doze.
WorkerTests(w) ==
    /\ worker[w] = "test" /\ LockFree
    /\ IF httpQueue # <<>>
         THEN /\ worker' = [worker EXCEPT ![w] = "serving"]
              /\ serving' = [serving EXCEPT ![w] = Head(httpQueue)]
              /\ conn' = [conn EXCEPT ![Head(httpQueue)] = "served"]
              /\ httpQueue' = Tail(httpQueue)
         ELSE /\ worker' = [worker EXCEPT ![w] = IF running THEN "dozing" ELSE "exited"]
              /\ UNCHANGED <<serving, httpQueue, conn>>
    /\ UNCHANGED <<running, listener, stopper, starts, acceptor>>

WorkerSleeps(w) ==
    /\ worker[w] = "dozing" /\ worker' = [worker EXCEPT ![w] = "asleep"]
    /\ UNCHANGED <<running, listener, stopper, starts, acceptor, serving, httpQueue, conn>>

\* serve: an answer, whatever the handler did, or a close when no request came in time.
WorkerServes(w) ==
    /\ worker[w] = "serving"
    /\ \E how \in {"answered", "closed"} : conn' = [conn EXCEPT ![serving[w]] = how]
    /\ worker' = [worker EXCEPT ![w] = "test"]
    /\ serving' = [serving EXCEPT ![w] = "none"]
    /\ UNCHANGED <<running, listener, stopper, starts, acceptor, httpQueue>>

WorkerStep(w) == WorkerTests(w) \/ WorkerSleeps(w) \/ WorkerServes(w)

Next ==
    \/ Start \/ StopBegins \/ StopStep \/ AcceptStep
    \/ \E w \in Workers : WorkerStep(w)
    \/ \E c \in Conns : Connect(c)

Spec == Init /\ [][Next]_vars

-----------------------------------------------------------------------------
(* Properties. *)

\* The queue never exceeds max_queued_connections, and every thread is where its loop allows.
TypeOK ==
    /\ running \in BOOLEAN /\ listener \in {"closed", "open", "shut"}
    /\ stopper \in {"idle", "shutdown", "joinAcceptor", "notify", "joinWorkers", "done"}
    /\ acceptor.at \in {"none", "check", "poll", "accepted", "notify", "exited"}
    /\ worker \in [Workers -> {"none", "test", "dozing", "asleep", "serving", "exited"}]
    /\ Len(httpQueue) <= MaxQueued
    /\ conn \in [Conns -> {"out", "backlog", "accepted", "queued", "served"} \cup Ended]

\* stop(): the descriptor is not handed back to the OS while the accept thread may still
\* poll on it or accept from it.
ListenerOutlivesItsUser == acceptor.at = "poll" => listener # "closed"

\* A thread inside stop(). It returns: no worker sleeps through its notification, however the
\* clearing of running_ falls between a worker's test and its sleep.
InStop == stopper \notin {"idle", "done"}

\* A connection the server accepted and has not answered, refused or closed. It is, also when
\* it is accepted while stop() runs and no worker is left to take it.
Pending(c) == conn[c] \in {"accepted", "queued", "served"}

\* It ends once and for good: nobody answers a connection that was closed or refused.
EndsForGood == \A c \in Conns : conn[c] \in Ended => conn'[c] = conn[c]
=============================================================================
