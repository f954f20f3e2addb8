----------------------------- MODULE HandleLife -----------------------------
(***************************************************************************)
(* The C ABI's handles (capi/src/pd_capi.cpp) and the Android binding on   *)
(* top of them (printerdriver_jni.cpp): who may still touch a handle, a    *)
(* callback context or a lock when the driver is destroyed.                *)
(*                                                                         *)
(* Four kinds of thread meet here.  Application threads submit by key,     *)
(* subscribe and await.  The printer's worker runs the jobs and calls the  *)
(* subscribers.  A custom transport's reader thread, which the core does   *)
(* not own, feeds received bytes into the printer handle.  One application *)
(* thread closes the driver.                                               *)
(*                                                                         *)
(* The memory the threads share is freed in the steps of closing: `life'   *)
(* says how far it got, and `touched' collects what a thread used after it *)
(* was freed.  Careful says that the application awaited its jobs before   *)
(* it closed, and that a reader the bounded join gave up on makes its last *)
(* call before the binding's own handle is deleted.                        *)
(*                                                                         *)
(* FeedAllowed_Always is a faulty variant, kept to show that the           *)
(* properties can fail.                                                    *)
(***************************************************************************)
EXTENDS Naturals, FiniteSets

CONSTANTS Callers,    \* application threads
          Keys,       \* idempotency keys they submit under
          Careful,    \* BOOLEAN, see above
          MaxFeeds    \* bytes the link delivers in one session

VARIABLES life,       \* how far closing the driver has got
          coreJob,    \* job of the core -> its state; a job is named by its key
          interned,   \* driver->jobs: core job -> handle
          minted,     \* handles made so far
          returned,   \* <<core job, handle>> pairs some thread was given
          caller,     \* where each application thread is, and its key
          contexts,   \* callback contexts whose GlobalRef is alive
          subscribers,\* subscriptions of the core: [job, handle, context]
          apiMutex,   \* holder of pd_driver::mutex across a step, or "free"
          lifecycle,  \* holder of lifecycleMutex, or "free"
          bound,      \* the custom link has a current transport
          session,    \* the reader thread of the Bluetooth session
          feeds,      \* bytes the link delivered
          touched     \* what was used after it was freed

vars == <<life, coreJob, interned, minted, returned, caller, contexts, subscribers,
          apiMutex, lifecycle, bound, session, feeds, touched>>

Stages == <<"open", "closed", "destroyed", "stopped", "freed", "refsGone", "gone">>
Past(stage) == \E i, j \in DOMAIN Stages : Stages[i] = stage /\ Stages[j] = life /\ j >= i

\* Touching a pd_ handle or the pd_driver, a context, or the binding's handle.
UseHandle == touched' = touched \cup (IF Past("freed") THEN {"handle"} ELSE {})
UseContext(c) == IF c \in contexts THEN {} ELSE {"context"}
UseBinding == touched' = touched \cup (IF Past("gone") THEN {"binding"} ELSE {})

Init == /\ life = "open" /\ coreJob = <<>> /\ interned = <<>> /\ minted = 0
        /\ returned = {} /\ contexts = {} /\ subscribers = {}
        /\ caller \in [Callers -> {[at |-> "start", key |-> k] : k \in Keys}]
        /\ apiMutex = "free" /\ lifecycle = "free" /\ bound = FALSE
        /\ session = "none" /\ feeds = 0 /\ touched = {}

At(c, at) == caller[c].at = at
Goto(c, at) == caller' = [caller EXCEPT ![c].at = at]
Job(c) == caller[c].key

-----------------------------------------------------------------------------
(* Application threads *)

\* pd_print, pd_queue_enqueue, pd_print_document_json: the core answers with the job of
\* the key, a new one or the one it already has; checkOpen came first.
Submit(c) ==
  /\ At(c, "start") /\ life = "open"
  /\ coreJob' = IF Job(c) \in DOMAIN coreJob THEN coreJob
                ELSE [k \in DOMAIN coreJob \cup {Job(c)} |->
                        IF k = Job(c) THEN "queued" ELSE coreJob[k]]
  /\ Goto(c, "submitted") /\ UseHandle
  /\ UNCHANGED <<life, interned, minted, returned, contexts, subscribers, apiMutex,
                 lifecycle, bound, session, feeds>>

\* A payload the C layer refuses: setError stores the message under the driver's mutex.
Refused(c) ==
  /\ At(c, "start") /\ life = "open" /\ apiMutex = "free"
  /\ apiMutex' = c /\ Goto(c, "refused") /\ UseHandle
  /\ UNCHANGED <<life, coreJob, interned, minted, returned, contexts, subscribers,
                 lifecycle, bound, session, feeds>>

\* setError: the hook runs after the lock is released.
SetError(c) ==
  /\ At(c, "refused") /\ apiMutex' = "free" /\ Goto(c, "logging")
  /\ UNCHANGED <<life, coreJob, interned, minted, returned, contexts, subscribers,
                 lifecycle, bound, session, feeds, touched>>

\* The log hook is the caller's code and may call straight back in: pd_last_error.
LogHook(c) ==
  /\ At(c, "logging") /\ apiMutex = "free"
  /\ Goto(c, "out") /\ UseHandle
  /\ UNCHANGED <<life, coreJob, interned, minted, returned, contexts, subscribers,
                 apiMutex, lifecycle, bound, session, feeds>>

\* internJob: one handle per core job, looked up and made in one hold of the mutex.
Interned(j) == [i \in DOMAIN interned \cup {j} |->
                  IF i \in DOMAIN interned THEN interned[i] ELSE minted + 1]
internJob(c) ==
  /\ At(c, "submitted") /\ apiMutex = "free"
  /\ interned' = Interned(Job(c))
  /\ minted' = minted + 1
  /\ returned' = returned \cup {<<Job(c), interned'[Job(c)]>>}
  /\ Goto(c, "holding") /\ UseHandle
  /\ UNCHANGED <<life, coreJob, contexts, subscribers, apiMutex, lifecycle, bound,
                 session, feeds>>

\* subscribeJob: the GlobalRef and the context exist before the core can call them; the
\* recorded events are replayed on this thread before the call returns.
subscribeJob(c) ==
  /\ At(c, "holding") /\ life = "open"
  /\ contexts' = contexts \cup {c}
  /\ subscribers' = subscribers \cup
       {[job |-> Job(c), handle |-> interned[Job(c)], context |-> c]}
  /\ Goto(c, "subscribed") /\ UseHandle
  /\ UNCHANGED <<life, coreJob, interned, minted, returned, apiMutex, lifecycle, bound,
                 session, feeds>>

\* pd_job_await: wakes on the terminal state, then writes the method into the handle
\* under the driver's mutex.
jobAwait(c) ==
  /\ At(c, "subscribed") /\ coreJob[Job(c)] = "ended" /\ apiMutex = "free"
  /\ Goto(c, "out") /\ UseHandle
  /\ UNCHANGED <<life, coreJob, interned, minted, returned, contexts, subscribers,
                 apiMutex, lifecycle, bound, session, feeds>>

\* The driver is closed: every further Kotlin call throws.
checkOpen(c) ==
  /\ caller[c].at \in {"start", "holding"} /\ life # "open"
  /\ Goto(c, "out")
  /\ UNCHANGED <<life, coreJob, interned, minted, returned, contexts, subscribers,
                 apiMutex, lifecycle, bound, session, feeds, touched>>

-----------------------------------------------------------------------------
(* The worker and its callbacks *)

\* CustomTransport::connect binds the link before the platform connects, and the
\* platform's connect starts the reader thread of the session.
TransportConnect ==
  /\ session = "none"
  /\ \E j \in DOMAIN coreJob : coreJob[j] = "queued"
  /\ bound' = TRUE /\ session' = "reading"
  /\ UNCHANGED <<life, coreJob, interned, minted, returned, caller, contexts,
                 subscribers, apiMutex, lifecycle, feeds, touched>>

\* A transition of a job calls each of its subscribers with its handle and context.
NextState == [queued |-> "running", running |-> "ended"]
JobEvent(j) ==
  /\ coreJob[j] # "ended" /\ session # "none"
  /\ coreJob' = [coreJob EXCEPT ![j] = NextState[@]]
  /\ touched' = touched \cup
       UNION {UseContext(s.context) \cup (IF s.job \in DOMAIN interned THEN {} ELSE {"handle"})
              : s \in {x \in subscribers : x.job = j}}
  /\ UNCHANGED <<life, interned, minted, returned, caller, contexts, subscribers,
                 apiMutex, lifecycle, bound, session, feeds>>

-----------------------------------------------------------------------------
(* The reader thread of the custom transport *)

\* The blocking read returned, with bytes or with the error of a dropped link.
ReadReturns ==
  /\ session = "reading" /\ feeds < MaxFeeds
  /\ session' = "calling" /\ feeds' = feeds + 1
  /\ UNCHANGED <<life, coreJob, interned, minted, returned, caller, contexts,
                 subscribers, apiMutex, lifecycle, bound, touched>>

\* transportFeedBytes and transportLinkDropped hold lifecycleMutex across the ABI call.
EnterFeed ==
  /\ session = "calling" /\ lifecycle = "free"
  /\ lifecycle' = "reader" /\ session' = "entered" /\ UseBinding
  /\ UNCHANGED <<life, coreJob, interned, minted, returned, caller, contexts,
                 subscribers, apiMutex, bound, feeds>>

\* Under the lock: refused once the flag is set, else into the printer handle's link.
FeedAllowed_Always == TRUE
FeedAllowed == ~Past("destroyed")
Feed ==
  /\ session = "entered"
  /\ IF FeedAllowed THEN UseHandle ELSE UNCHANGED touched
  /\ lifecycle' = "free" /\ session' = "reading"
  /\ UNCHANGED <<life, coreJob, interned, minted, returned, caller, contexts,
                 subscribers, apiMutex, bound, feeds>>

\* The loop saw `closing', or the stream ended.
ReaderEnds ==
  /\ session = "reading" /\ (life # "open" \/ feeds = MaxFeeds)
  /\ session' = "ended"
  /\ UNCHANGED <<life, coreJob, interned, minted, returned, caller, contexts,
                 subscribers, apiMutex, lifecycle, bound, feeds, touched>>

-----------------------------------------------------------------------------
(* Closing: PrinterDriver.close, driverDestroy, pd_destroy *)

Outside(c) == caller[c].at \in {"start", "holding", "out"}

\* closedFlag, then shutdown() of the transports: a join of the reader that is bounded,
\* so that the reader may still be running afterwards.
Close ==
  /\ life = "open" /\ (Careful => \A c \in Callers : Outside(c))
  /\ life' = "closed"
  /\ UNCHANGED <<coreJob, interned, minted, returned, caller, contexts, subscribers,
                 apiMutex, lifecycle, bound, session, feeds, touched>>

\* driverDestroy takes lifecycleMutex only to set the flag.
driverDestroy ==
  /\ life = "closed" /\ lifecycle = "free"
  /\ life' = "destroyed" /\ lifecycle' = lifecycle
  /\ UNCHANGED <<coreJob, interned, minted, returned, caller, contexts, subscribers,
                 apiMutex, bound, session, feeds, touched>>

\* pd_destroy: PrinterDriver::shutdown joins the workers, every job of theirs terminal;
\* closing the transport takes the link's mutex, and the reader may be inside it.
Joined == \A j \in DOMAIN coreJob : coreJob[j] = "ended"
Shutdown ==
  /\ life = "destroyed" /\ Joined
  /\ bound' = FALSE /\ life' = "stopped"
  /\ UNCHANGED <<coreJob, interned, minted, returned, caller, contexts, subscribers,
                 apiMutex, lifecycle, session, feeds, touched>>

\* The jobs no worker reached end at the shutdown as well.
EndUnreached(j) ==
  /\ life = "destroyed" /\ coreJob[j] # "ended" /\ session = "none"
  /\ coreJob' = [coreJob EXCEPT ![j] = "ended"]
  /\ touched' = touched \cup
       UNION {UseContext(s.context) : s \in {x \in subscribers : x.job = j}}
  /\ UNCHANGED <<life, interned, minted, returned, caller, contexts, subscribers,
                 apiMutex, lifecycle, bound, session, feeds>>

FreeHandles ==
  /\ life = "stopped"
  /\ life' = "freed" /\ interned' = <<>>
  /\ UNCHANGED <<coreJob, minted, returned, caller, contexts, subscribers, apiMutex,
                 lifecycle, bound, session, feeds, touched>>

DeleteRefs ==
  /\ life = "freed"
  /\ life' = "refsGone" /\ contexts' = {}
  /\ UNCHANGED <<coreJob, interned, minted, returned, caller, subscribers, apiMutex,
                 lifecycle, bound, session, feeds, touched>>

DeleteHandle ==
  /\ life = "refsGone" /\ (Careful => session \in {"none", "ended"})
  /\ life' = "gone"
  /\ UNCHANGED <<coreJob, interned, minted, returned, caller, contexts, subscribers,
                 apiMutex, lifecycle, bound, session, feeds, touched>>

-----------------------------------------------------------------------------
CallerStep(c) == \/ Submit(c) \/ Refused(c) \/ SetError(c) \/ LogHook(c) \/ internJob(c)
                 \/ subscribeJob(c) \/ jobAwait(c) \/ checkOpen(c)
WorkerStep == TransportConnect \/ \E j \in DOMAIN coreJob : JobEvent(j) \/ EndUnreached(j)
ReaderStep == ReadReturns \/ EnterFeed \/ Feed \/ ReaderEnds
DestroyStep == driverDestroy \/ Shutdown \/ FreeHandles \/ DeleteRefs \/ DeleteHandle

Next == \/ \E c \in Callers : CallerStep(c)
        \/ WorkerStep \/ ReaderStep \/ Close \/ DestroyStep

Spec == Init /\ [][Next]_vars

-----------------------------------------------------------------------------
(***************************************************************************)
(* pd.h, "Handle lifetime": the same core job always maps to the same      *)
(* handle, whichever threads race to submit its key, and two jobs never    *)
(* share one.                                                              *)
(***************************************************************************)
OneHandlePerJob ==
  \A p, q \in returned : (p[1] = q[1]) <=> (p[2] = q[2])

(***************************************************************************)
(* The order of pd_destroy and driverDestroy: no application thread, no    *)
(* callback of the worker and no feed of a reader thread uses a handle, a  *)
(* callback context or the binding's lock after it was freed.              *)
(***************************************************************************)
NothingUsedAfterFree == touched = {}

(***************************************************************************)
(* A caller inside a call, and the thread that closes the driver.  Both    *)
(* come out: setError releases the driver's mutex before the log hook,     *)
(* which may call back in; an await ends with its job; and driverDestroy   *)
(* drops lifecycleMutex before pd_destroy waits for the workers.           *)
(***************************************************************************)
InCall(c) == ~Outside(c)
InDestroy == life \notin {"open", "gone"}
=============================================================================
