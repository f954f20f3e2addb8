----------------------------- MODULE MCThreads ------------------------------
(***************************************************************************)
(* The components in which threads of one process meet, each on its own    *)
(* instance: a job's observers, a printer's lane, the transports, the      *)
(* handles of the C API and of the Android binding, the React Native       *)
(* bridge, the registries of custom methods, the agent's HTTP server and   *)
(* the subnet sweep. They share no state: a behaviour is a behaviour of one*)
(* of them, `part' says of which, and the others stay as they began. The   *)
(* properties are the ones the components have in common; each component   *)
(* states its share of them.                                               *)
(*                                                                         *)
(* The instances are two threads of every kind that can collide (two       *)
(* observers, two stoppers, two callers, two workers), and as many items as*)
(* it takes to fill a queue of one, to close and reopen once, and to have  *)
(* one item overtake another.                                              *)
(***************************************************************************)
EXTENDS Naturals, Sequences

CONSTANTS
    Subscribers, Waiters, Timed, LastEvent,             \* of JobFeedback
    Jobs, Calls, Ahead, Drainers, Stoppers, Probe,      \* of WorkerLane
    LinkKinds, MaxBytes, MaxLinks,                      \* of LinkTransport
    Callers, Keys, MaxFeeds,                            \* of HandleLife
    CoreThreads, Pointers, MaxAsks,                     \* of JsBridge
    Registrars, Ids, MaxOps,                            \* of Registrations
    Conns, Workers, MaxQueued, MaxStarts,               \* of HttpServer
    W, Blocks, Sweepers, MinPrefix                      \* of SubnetSweep

VARIABLE part   \* which component this behaviour is of

\* JobFeedback
VARIABLES feedbackMutex, history, sub, seen, emitter, terminal, waiter, sleeping
\* WorkerLane
VARIABLES started, laneMutex, stopped, stopping, tasks, active, laneWorker, fate, drainer,
          laneStopper, order
\* LinkTransport
VARIABLES kind, links, field, opened, connected, closing, notified, pipe, wakeByte,
          readerAt, workerAt, peer, arriving, sentBytes, delivered, reports, afterClose
\* HandleLife
VARIABLES life, coreJob, interned, minted, handlesReturned, caller, contexts, subscribers,
          apiMutex, lifecycle, bound, session, feeds, touched
\* JsBridge
VARIABLES js, jsTasks, handlers, thread, table, nextId, asked, answer, mounted, driver,
          generation, jobTokens, given
\* Registrations
VARIABLES tables, registryMutex, frames, told, begun
\* HttpServer
VARIABLES running, listener, httpStopper, starts, acceptor, httpWorker, serving, httpQueue,
          conn
\* SubnetSweep
VARIABLES block, open, sweepNext, sweeper, completed, found, sweepReturned, probed

Feedback == INSTANCE JobFeedback WITH mutex <- feedbackMutex
Lane == INSTANCE WorkerLane WITH
    mutex <- laneMutex, worker <- laneWorker, stopper <- laneStopper
Link == INSTANCE LinkTransport WITH Kinds <- LinkKinds
Handles == INSTANCE HandleLife WITH Careful <- TRUE, returned <- handlesReturned
Bridge == INSTANCE JsBridge WITH JsMatcher <- TRUE, Recycle <- FALSE
Registry == INSTANCE Registrations WITH Threads <- Registrars, mutex <- registryMutex
Http == INSTANCE HttpServer WITH Careful <- TRUE, stopper <- httpStopper, worker <- httpWorker
Sweep == INSTANCE SubnetSweep WITH returned <- sweepReturned

feedbackVars == <<feedbackMutex, history, sub, seen, emitter, terminal, waiter, sleeping>>
laneVars == <<started, laneMutex, stopped, stopping, tasks, active, laneWorker, fate,
              drainer, laneStopper, order>>
linkVars == <<kind, links, field, opened, connected, closing, notified, pipe, wakeByte,
              readerAt, workerAt, peer, arriving, sentBytes, delivered, reports, afterClose>>
handlesVars == <<life, coreJob, interned, minted, handlesReturned, caller, contexts,
                 subscribers, apiMutex, lifecycle, bound, session, feeds, touched>>
bridgeVars == <<js, jsTasks, handlers, thread, table, nextId, asked, answer, mounted,
                driver, generation, jobTokens, given>>
registryVars == <<tables, registryMutex, frames, told, begun>>
httpVars == <<running, listener, httpStopper, starts, acceptor, httpWorker, serving,
              httpQueue, conn>>
sweepVars == <<block, open, sweepNext, sweeper, completed, found, sweepReturned, probed>>
vars == <<part, feedbackVars, laneVars, linkVars, handlesVars, bridgeVars, registryVars,
          httpVars, sweepVars>>

-----------------------------------------------------------------------------
AnyOf(S) == CHOOSE x \in S : TRUE

\* A component the behaviour is not of stays in one of its initial states.
Init ==
    /\ part \in {"feedback", "lane", "link", "handles", "bridge", "registry", "http",
                "sweep"}
    /\ Feedback!Init
    /\ Lane!Init
    /\ Link!Init
    /\ part # "link" => kind = AnyOf(LinkKinds)
    /\ Handles!Init
    /\ part # "handles" => \A c \in Callers : caller[c].key = AnyOf(Keys)
    /\ Bridge!Init
    /\ Registry!Init
    /\ Http!Init
    /\ Sweep!Init
    /\ part # "sweep" => open = {} /\ block = Sweep!Cidr(AnyOf(Blocks), W)

FeedbackOnly == UNCHANGED <<part, laneVars, linkVars, handlesVars, bridgeVars, registryVars,
                             httpVars, sweepVars>>
LaneOnly == UNCHANGED <<part, feedbackVars, linkVars, handlesVars, bridgeVars, registryVars,
                         httpVars, sweepVars>>
LinkOnly == UNCHANGED <<part, feedbackVars, laneVars, handlesVars, bridgeVars, registryVars,
                         httpVars, sweepVars>>
HandlesOnly == UNCHANGED <<part, feedbackVars, laneVars, linkVars, bridgeVars, registryVars,
                            httpVars, sweepVars>>
BridgeOnly == UNCHANGED <<part, feedbackVars, laneVars, linkVars, handlesVars, registryVars,
                           httpVars, sweepVars>>
RegistryOnly == UNCHANGED <<part, feedbackVars, laneVars, linkVars, handlesVars, bridgeVars,
                             httpVars, sweepVars>>
HttpOnly == UNCHANGED <<part, feedbackVars, laneVars, linkVars, handlesVars, bridgeVars,
                         registryVars, sweepVars>>
SweepOnly == UNCHANGED <<part, feedbackVars, laneVars, linkVars, handlesVars, bridgeVars,
                          registryVars, httpVars>>

FeedbackSteps == part = "feedback" /\ Feedback!Next /\ FeedbackOnly
\* Either nobody drains or nobody calls: together they make the instance four times as large.
LaneSteps ==
    /\ part = "lane" /\ Lane!Next /\ LaneOnly
    /\ \/ \A d \in Drainers : drainer'[d].pc = "idle"
       \/ \A c \in Calls : fate'[c] = "new"
LinkSteps == part = "link" /\ Link!Next /\ LinkOnly
HandlesSteps == part = "handles" /\ Handles!Next /\ HandlesOnly
BridgeSteps == part = "bridge" /\ Bridge!Next /\ BridgeOnly
RegistrySteps == part = "registry" /\ Registry!Next /\ RegistryOnly
HttpSteps == part = "http" /\ Http!Next /\ HttpOnly
SweepSteps == part = "sweep" /\ Sweep!Next /\ SweepOnly

Next ==
    \/ FeedbackSteps \/ LaneSteps \/ LinkSteps \/ HandlesSteps \/ BridgeSteps
    \/ RegistrySteps \/ HttpSteps \/ SweepSteps

Spec == Init /\ [][Next]_vars

\* The threads of the component at hand: a thread inside a call keeps running and a timed wait
\* ends, but nobody is obliged to make a call. What is fair, and what waits, is said of the
\* threads that MCThreads.cfg names.
Thread(n) ==
    \/ part = "feedback"
       /\ CASE n = 1 -> Feedback!Emitter          [] n = 2 -> Feedback!Subscriber("s1")
            [] n = 3 -> Feedback!Subscriber("s2") [] n = 4 -> Feedback!Waiter("w1")
            [] OTHER -> FALSE
    \/ part = "lane"
       /\ CASE n = 1 -> Lane!Worker        [] n = 2 -> Lane!Push("j1")
            [] n = 3 -> Lane!Push("c1")    [] n = 4 -> Lane!DrainStep("d1")
            [] n = 5 -> Lane!Stopper("s1") [] n = 6 -> Lane!Stopper("s2")
    \/ part = "link"
       /\ CASE n = 1 -> Link!WorkerStep [] n = 2 -> Link!ReaderStep [] OTHER -> FALSE
    \/ part = "handles"
       /\ CASE n \in {1, 2} -> LET c == IF n = 1 THEN "a" ELSE "b"
                               IN Handles!SetError(c) \/ Handles!LogHook(c)
                                  \/ Handles!internJob(c) \/ Handles!jobAwait(c)
            [] n = 3 -> Handles!WorkerStep  [] n = 4 -> Handles!ReaderStep
            [] n = 5 -> Handles!DestroyStep [] OTHER -> FALSE
    \/ part = "bridge"
       /\ CASE n = 1 -> Bridge!RunTask [] n = 2 -> Bridge!Destroyed
            [] n = 3 -> Bridge!Asks("w1") \/ Bridge!Join("w1")
            [] n = 4 -> Bridge!Asks("w2") \/ Bridge!Join("w2")
            [] n = 5 -> Bridge!Asks("js") [] OTHER -> FALSE
    \/ part = "registry"
       /\ CASE n = 1 -> Registry!Step("t1") [] n = 2 -> Registry!Step("t2") [] OTHER -> FALSE
    \/ part = "http"
       /\ CASE n = 1 -> Http!StopStep         [] n = 2 -> Http!AcceptStep
            [] n = 3 -> Http!WorkerStep("w1") [] n = 4 -> Http!WorkerStep("w2")
            [] OTHER -> FALSE
    \/ part = "sweep" /\ n = 1 /\ Sweep!Next

\* The variables those threads change.
here ==
    CASE part = "feedback" -> feedbackVars [] part = "lane" -> laneVars
      [] part = "link" -> linkVars         [] part = "handles" -> handlesVars
      [] part = "bridge" -> bridgeVars     [] part = "registry" -> registryVars
      [] part = "http" -> httpVars         [] part = "sweep" -> sweepVars

Fairness == \A n \in 1..6 : WF_here(Thread(n) /\ UNCHANGED part)

FairSpec == Spec /\ Fairness

-----------------------------------------------------------------------------
\* subscribe, emit, finish and result of a PrintJob: every observer gets the whole history in
\* order, however its replay interleaves with new events, and nobody has the result before.
ObserversInOrder ==
    part = "feedback" => /\ Feedback!TypeOK /\ Feedback!SeenInOrder
                         /\ Feedback!NothingLost /\ Feedback!ResultAfterEvents

\* The worker's lane: tasks run once and in order, drain() covers what was queued when it was
\* called, and stop() leaves nothing running and nothing without an end.
LaneIsOrderly ==
    part = "lane" => /\ Lane!TypeOK /\ Lane!OnePlace /\ Lane!RunInOrder
                     /\ Lane!DrainCoversTheLane /\ Lane!StopLeavesNothing

\* Closing is silent once it has returned and frees nothing a thread still uses: the C API's
\* handles and contexts, the agent's listener, and a transport's descriptor, which the code
\* closes under a thread in the windows OwnDescriptor names and in no other. A transport
\* reports only the drops it did not make itself.
ClosedIsClosed ==
    /\ part = "link" => Link!OnlyRealDropsOnce /\ Link!SilentAfterClose /\ Link!OwnDescriptor
    /\ part = "handles" => Handles!NothingUsedAfterFree
    /\ part = "http" => Http!TypeOK /\ Http!ListenerOutlivesItsUser

\* Threads that race for one thing agree on it: one handle and one JavaScript token for a job,
\* and one registration for an id.
OneForAll ==
    /\ part = "handles" => Handles!OneHandlePerJob
    /\ part = "bridge" => Bridge!TokenIsIdentity
    /\ part = "registry" => Registry!AcceptedIsFound

\* A thread that asks JavaScript gets the answer to its own question and no other, and the
\* JavaScript thread it waits for is not parked inside the driver, except where a matcher of
\* its own parks it until the deadline.
BridgeAnswers ==
    part = "bridge" => Bridge!AnswersItsOwnQuestion /\ Bridge!ParkedOnlyInMatcher

\* For each thread that may wait for others, whether it is inside such a call.
Waiting ==
    CASE part = "feedback" -> <<Feedback!InResult("w1")>>
      [] part = "lane" -> <<Lane!InStop("s1"), Lane!InStop("s2"), Lane!InDrain("d1")>>
      [] part = "link" -> <<Link!InClose>>
      [] part = "handles" -> <<Handles!InCall("a"), Handles!InCall("b"), Handles!InDestroy>>
      [] part = "bridge" -> <<Bridge!InQuestion("w1"), Bridge!InQuestion("w2"),
                              Bridge!InQuestion("js")>>
      [] part = "registry" -> <<Registry!InOperation("t1"), Registry!InOperation("t2")>>
      [] part = "http" -> <<Http!InStop>>
      [] part = "sweep" -> <<Sweep!InDiscover>>
InCall(n) == n <= Len(Waiting) /\ Waiting[n]

\* Every call that waits for another thread comes back: result(timeout), drain(), stop(),
\* close(), pd_job_await and pd_destroy, a question to JavaScript, a registration made from a
\* callback, HttpServer::stop and discover().
EveryCallReturns == \A n \in 1..3 : InCall(n) ~> ~InCall(n)

\* For each item handed to another thread, whether it is still without its end.
Unfinished ==
    CASE part = "feedback" -> <<Feedback!Owed("s1"), Feedback!Owed("s2")>>
      [] part = "lane" -> <<Lane!Handed("j1"), Lane!Handed("c1"), Lane!Handed("probe")>>
      [] part = "link" -> <<Link!DropUnreported>>
      [] part = "http" -> <<Http!Pending("c1"), Http!Pending("c2")>>
      [] OTHER -> <<>>
Hanging(n) == n <= Len(Unfinished) /\ Unfinished[n]

\* What was handed to another thread ends: a subscriber sees the terminal event, a queued task
\* runs unless the driver stops, a dropped link is reported and an accepted connection is
\* answered, refused or closed. A connection ends only once, and so does a host of a sweep:
\* the threads that share the block probe each address of it once, and what discover() returns
\* has every open one.
NothingIsLeftHanging ==
    /\ \A n \in 1..3 : Hanging(n) ~> ~Hanging(n)
    /\ [][part = "http" => Http!EndsForGood]_vars
    /\ [](part = "sweep" => Sweep!EveryHostOnce)
=============================================================================
