---------------------------- MODULE PrintEngine ----------------------------
(***************************************************************************)
(* One PrinterRuntime (core/src/driver.cpp), the journal it writes         *)
(* (core/src/job_store.cpp), the response parser it listens through        *)
(* (core/src/response_parser.cpp), and the printer at the other end.       *)
(*                                                                         *)
(* Clients submit jobs under idempotency keys; one worker thread takes     *)
(* them in FIFO order and drives each through preflight, payload, print    *)
(* fence, cut and cut fence.  The process may die and start again between  *)
(* any two steps, the link may drop, a write may fail, a wait may time     *)
(* out, and the printer may answer late.                                   *)
(*                                                                         *)
(* Every transition a job makes is two steps of the worker: the journal    *)
(* line (Advance), then the publication (Publish).                         *)
(*                                                                         *)
(* An operator named X_y is a faulty variant of X, kept to show that the   *)
(* properties can fail.                                                    *)
(***************************************************************************)
EXTENDS Naturals, Sequences, FiniteSets

CONSTANTS
  Keys,            \* idempotency keys a client may use
  Completion,      \* "GsParenH" (token echo), "GsR1" (bare byte) or "None"
  CutModes,        \* subset of BOOLEAN: whether a job may ask for a cut
  StrictModes,     \* subset of BOOLEAN: PreflightMode::Strict / Skip
  ReprintKeys,     \* keys someone may call forceReprint on
  SessionBound,    \* TRUE: an answer reaches only the connection that asked (TCP)
  MaxJobs,         \* bound: jobs created over the whole behaviour
  MaxRestarts,     \* bound: process deaths
  MaxDrops         \* bound: link losses

ASSUME CompletionAssumption == Completion \in {"GsParenH", "GsR1", "None"}
ASSUME ModesAssumption == CutModes \subseteq BOOLEAN /\ StrictModes \subseteq BOOLEAN
ASSUME KeysAssumption == ReprintKeys \subseteq Keys
ASSUME BoundsAssumption ==
  MaxJobs \in Nat /\ MaxRestarts \in Nat /\ MaxDrops \in Nat /\ SessionBound \in BOOLEAN

VARIABLES
  jobs,       \* the jobs created so far, oldest first: what was asked for
  journal,    \* durable: per job [state, conf, reason, tok]
  pub,        \* PrintJob::state_, the state an observer has been told of
  done,       \* PrintJob::terminal_, set by finish()
  byKey,      \* JobIndex::by_key: the newest job of each key
  held,       \* keys whose index entry still carries a payload
  nextSlot,   \* MarkerAllocator::next_
  tasks,      \* PrinterRuntime::tasks_: job ids
  stopping,   \* PrinterRuntime::stopping_
  worker,     \* [pc, cur, conf, pend]: the thread inside runJob
  io,         \* per-job backchannel state under io_mutex_
  link,       \* [up, down]: the transport, and the link_down_ flag
  toDev,      \* bytes on their way into, or queued inside, the printer
  fromDev,    \* answers on their way back
  paper,      \* per job: how much of its receipt is on paper
  spent       \* [restarts, drops]: consumed bounds

vars == <<jobs, journal, pub, done, byKey, held, nextSlot, tasks, stopping, worker,
          io, link, toDev, fromDev, paper, spent>>

JobId == 1..MaxJobs
Created == DOMAIN jobs

(* JobState, without PhysicallyVerified and HeldOffline, which the core    *)
(* never produces, and with the absence of a journal line made explicit.   *)
BeforeSend == {"Queued", "PreflightOk"}
MidSend    == {"SendStarted", "BytesSent", "PrintConfirmed", "CutCommandProcessed"}
Terminals  == {"DoneSoftware", "FailedKnown", "Unknown"}
States     == {"Absent"} \cup BeforeSend \cup MidSend \cup Terminals

(* ConfidenceLevel by rank.                                                *)
TransportAccepted == 0
PrinterHealthy    == 1
PrintConfirmed    == 2
CutProcessed      == 3
CutFaultFree      == 4

(* CapabilityProfile::maxConfidence.                                       *)
Ceiling == CASE Completion = "GsParenH" -> CutFaultFree
             [] Completion = "GsR1"     -> CutProcessed
             [] Completion = "None"     -> TransportAccepted

Clamp(c) == IF c > Ceiling THEN Ceiling ELSE c

Reasons == {"None", "TransportUnreachable", "Preflight", "CutterFault",
            "TimeoutAwaitingCompletion", "Unknown"}

NoJob   == 0
NoSlot  == 0           \* slot numbers are 1.., so that 0 is "no token"
NoPend  == "nothing"
NoRecord == [state |-> "Absent", conf |-> 0, reason |-> "None", tok |-> NoSlot]

Pcs == {"idle", "connect", "begin", "preflight", "preWait", "lease", "start",
        "payload", "fence", "sent", "accepted", "awaitPrint", "cut", "awaitCut",
        "cutStatus", "statusWait", "finished", "ended"}

Idle == [pc |-> "idle", cur |-> NoJob, conf |-> 0, pend |-> NoPend]

(* What beginJobIo leaves behind: no expectation, no answer.               *)
QuietIo == [rtExp |-> FALSE, qExp |-> 0, rtAns |-> "none", qAns |-> 0, echoes |-> {}]

(* A token is a slot and which of the pair it is: even sequences fence the *)
(* print, odd ones the cut.                                                *)
Tokens == Nat \X {"fence", "cut"}
Items  == [k : {"query", "payload", "partial", "fence", "cut"}, j : JobId, live : BOOLEAN]
Answers == [k : {"echo"}, t : Tokens] \cup [k : {"queued"}] \cup [k : {"realtime"}, bad : BOOLEAN]

JobInfo == [key : Keys, attempt : Nat, reprint : BOOLEAN, cut : BOOLEAN, strict : BOOLEAN]
Entry   == [state : States, conf : 0..4, reason : Reasons, tok : Nat]
Threads == [pc : Pcs, cur : 0..MaxJobs, conf : 0..4, pend : {NoPend, "publish", "finish"}]
Ios     == [rtExp : BOOLEAN, qExp : Nat, rtAns : {"none", "ok", "bad"}, qAns : Nat,
            echoes : SUBSET Tokens]

TypeOK ==
  /\ jobs \in Seq(JobInfo) /\ Len(jobs) <= MaxJobs
  /\ journal \in [JobId -> Entry]
  /\ pub \in [JobId -> States]
  /\ done \in [JobId -> BOOLEAN]
  /\ byKey \in [Keys -> 0..Len(jobs)]
  /\ held \in SUBSET Keys
  /\ nextSlot \in Nat
  /\ tasks \in Seq(JobId)
  /\ stopping \in BOOLEAN
  /\ worker \in Threads /\ (worker.pc # "idle" => worker.cur \in JobId)
  /\ io \in Ios
  /\ link \in [up : BOOLEAN, down : BOOLEAN]
  /\ toDev \in Seq(Items)
  /\ fromDev \in Seq(Answers)
  /\ paper \in [JobId -> {"none", "part", "full"}]
  /\ spent \in [restarts : 0..MaxRestarts, drops : 0..MaxDrops]

Init ==
  /\ jobs = <<>>
  /\ journal = [j \in JobId |-> NoRecord]
  /\ pub = [j \in JobId |-> "Absent"]
  /\ done = [j \in JobId |-> FALSE]
  /\ byKey = [k \in Keys |-> NoJob]
  /\ held = {}
  /\ nextSlot = 0
  /\ tasks = <<>>
  /\ stopping = FALSE
  /\ worker = Idle
  /\ io = QuietIo
  /\ link = [up |-> FALSE, down |-> FALSE]
  /\ toDev = <<>>
  /\ fromDev = <<>>
  /\ paper = [j \in JobId |-> "none"]
  /\ spent = [restarts |-> 0, drops |-> 0]

-----------------------------------------------------------------------------
(* The client side.                                                        *)

FailedAndFinished_UnknownToo(j) ==
  j # NoJob /\ done[j] /\ pub[j] \in {"FailedKnown", "Unknown"}

(* submit's failed_and_finished: two separate reads of the previous job.   *)
FailedAndFinished(j) == j # NoJob /\ done[j] /\ pub[j] = "FailedKnown"

(* Whether a submission under k makes a new job or returns the old one.    *)
FreshAttempt(k, reprint) ==
  byKey[k] = NoJob \/ reprint \/ FailedAndFinished(byKey[k])

(* createJob, emit(Queued), the index entry, then either the push or, once *)
(* the runtime is stopping, the termination in the caller's thread.  All   *)
(* of it happens under the index mutex.  (The window between the read of   *)
(* stopping_ and the push is WorkerLane's subject.)                        *)
Create(k, reprint, cut, strict) ==
  LET j == Len(jobs) + 1
      attempt == IF byKey[k] = NoJob THEN 1 ELSE jobs[byKey[k]].attempt + 1
      born == IF stopping
                THEN [NoRecord EXCEPT !.state = "FailedKnown", !.reason = "TransportUnreachable"]
                ELSE [NoRecord EXCEPT !.state = "Queued"]
  IN /\ j \in JobId
     /\ jobs' = Append(jobs, [key |-> k, attempt |-> attempt, reprint |-> reprint,
                              cut |-> cut, strict |-> strict])
     /\ journal' = [journal EXCEPT ![j] = born]
     /\ pub' = [pub EXCEPT ![j] = born.state]
     /\ done' = [done EXCEPT ![j] = stopping]
     /\ byKey' = [byKey EXCEPT ![k] = j]
     /\ held' = held \cup {k}
     /\ tasks' = IF stopping THEN tasks ELSE Append(tasks, j)
     /\ UNCHANGED <<nextSlot, stopping, worker, io, link, toDev, fromDev, paper, spent>>

(* Printer::print.  A submission FreshAttempt refuses returns the previous *)
(* handle and changes nothing.                                             *)
Submit(k, cut, strict) ==
  /\ FreshAttempt(k, FALSE)
  /\ Create(k, FALSE, cut, strict)

(* forceReprint, with a payload supplied again or with the one the entry   *)
(* kept, which a job that came back from the journal does not have.        *)
ForceReprint(k, supplied, cut, strict) ==
  /\ k \in ReprintKeys
  /\ supplied \/ k \in held
  /\ Create(k, TRUE, cut, strict)

Stop ==
  /\ ~stopping
  /\ stopping' = TRUE
  /\ UNCHANGED <<jobs, journal, pub, done, byKey, held, nextSlot, tasks, worker, io, link,
                 toDev, fromDev, paper, spent>>

Client ==
  \/ \E k \in Keys, cut \in CutModes, strict \in StrictModes :
       \/ Submit(k, cut, strict)
       \/ \E supplied \in BOOLEAN : ForceReprint(k, supplied, cut, strict)
  \/ Stop

(* What can be left of the bytes under way when a connection dies: any     *)
(* prefix, its last payload possibly torn.  A printer that answers only    *)
(* the connection that asked will not answer any of it.                    *)
Torn(item) == IF item.k = "payload" THEN [item EXCEPT !.k = "partial"] ELSE item
Cutoffs(q) ==
  {SubSeq(q, 1, n) : n \in 0..Len(q)} \cup
  {Append(SubSeq(q, 1, n - 1), Torn(q[n])) : n \in 1..Len(q)}
Orphaned(q) == [i \in 1..Len(q) |-> [q[i] EXCEPT !.live = @ /\ ~SessionBound]]

-----------------------------------------------------------------------------
(* The worker thread.  Between two of its steps every other thread may run. *)

Cur == worker.cur
At(pc) == worker.pc = pc /\ worker.pend = NoPend
Goto(pc) == worker' = [worker EXCEPT !.pc = pc]

(* advance(), first half: the journal line.  Publish is the second half    *)
(* and is the worker's only possible next step.                            *)
Record(state, conf, reason) ==
  journal' = [journal EXCEPT ![Cur].state = state, ![Cur].conf = Clamp(conf),
                             ![Cur].reason = reason]

Advance(state, conf, pc) ==
  /\ Record(state, conf, "None")
  /\ worker' = [worker EXCEPT !.pc = pc, !.conf = conf, !.pend = "publish"]

(* terminate(): an advance followed by finish().                           *)
Terminate(state, conf, reason) ==
  /\ Record(state, conf, reason)
  /\ worker' = [worker EXCEPT !.pc = "ended", !.conf = conf, !.pend = "publish"]

Publish ==
  /\ worker.pend = "publish"
  /\ pub' = [pub EXCEPT ![Cur] = journal[Cur].state]
  /\ worker' = [worker EXCEPT !.pend = IF worker.pc = "ended" THEN "finish" ELSE NoPend]
  /\ UNCHANGED <<jobs, journal, done, byKey, held, nextSlot, tasks, stopping, io, link,
                 toDev, fromDev, paper, spent>>

(* finish(), after which runJob returns, the token lease is released and   *)
(* the worker goes back to its queue.                                      *)
Finish ==
  /\ worker.pend = "finish"
  /\ done' = [done EXCEPT ![Cur] = TRUE]
  /\ worker' = Idle
  /\ UNCHANGED <<jobs, journal, pub, byKey, held, nextSlot, tasks, stopping, io, link,
                 toDev, fromDev, paper, spent>>

(* workerLoop: stopping_ is looked at before the queue.                    *)
Take ==
  /\ At("idle") /\ ~stopping /\ tasks # <<>>
  /\ worker' = [Idle EXCEPT !.pc = "connect", !.cur = Head(tasks)]
  /\ tasks' = Tail(tasks)
  /\ UNCHANGED <<jobs, journal, pub, done, byKey, held, nextSlot, stopping, io, link,
                 toDev, fromDev, paper, spent>>

CancelLeftover_Forgotten ==
  /\ At("idle") /\ stopping /\ tasks # <<>>
  /\ tasks' = <<>>
  /\ UNCHANGED <<jobs, journal, pub, done, byKey, held, nextSlot, stopping, worker, io, link,
                 toDev, fromDev, paper, spent>>

(* stop(), once the worker has returned: every task still queued is        *)
(* cancelled, then the transport is closed.                                *)
CancelLeftover ==
  /\ At("idle") /\ stopping /\ tasks # <<>>
  /\ LET j == Head(tasks)
     IN /\ journal' = [journal EXCEPT ![j].state = "FailedKnown", ![j].conf = 0,
                                      ![j].reason = "Unknown"]
        /\ pub' = [pub EXCEPT ![j] = "FailedKnown"]
        /\ done' = [done EXCEPT ![j] = TRUE]
  /\ tasks' = Tail(tasks)
  /\ UNCHANGED <<jobs, byKey, held, nextSlot, stopping, worker, io, link, toDev, fromDev,
                 paper, spent>>

CloseTransport ==
  /\ At("idle") /\ stopping /\ tasks = <<>> /\ link.up
  /\ link' = [link EXCEPT !.up = FALSE]
  /\ fromDev' = <<>>
  /\ toDev' = Orphaned(toDev)
  /\ UNCHANGED <<jobs, journal, pub, done, byKey, held, nextSlot, tasks, stopping, worker,
                 io, paper, spent>>

(* ensureConnected.  Opening a connection discards whatever arrived before *)
(* it: a socket is new, a serial port is flushed.                          *)
Connect ==
  /\ At("connect")
  /\ \/ /\ link.up
        /\ Goto("begin") /\ UNCHANGED <<journal, link, fromDev>>
     \/ /\ ~link.up
        /\ link' = [link EXCEPT !.up = TRUE]
        /\ fromDev' = <<>>
        /\ Goto("begin") /\ UNCHANGED journal
     \/ /\ ~link.up
        /\ Terminate("FailedKnown", worker.conf, "TransportUnreachable")
        /\ UNCHANGED <<link, fromDev>>
  /\ UNCHANGED <<jobs, pub, done, byKey, held, nextSlot, tasks, stopping, io, toDev, paper, spent>>

(* beginJobIo: also forgets a link loss reported since ensureConnected.    *)
BeginJobIo ==
  /\ At("begin")
  /\ io' = QuietIo
  /\ link' = [link EXCEPT !.down = FALSE]
  /\ Goto(IF jobs[Cur].strict THEN "preflight" ELSE "lease")
  /\ UNCHANGED <<jobs, journal, pub, done, byKey, held, nextSlot, tasks, stopping, toDev,
                 fromDev, paper, spent>>

(* sendPaced.  A closed link takes nothing; an open one may take all, or   *)
(* time out having taken nothing or a part.                                *)
Sent(kind) == link.up /\ toDev' = Append(toDev, [k |-> kind, j |-> Cur, live |-> TRUE])
SentNothing == UNCHANGED toDev
SentPart == link.up /\ toDev' = Append(toDev, [k |-> "partial", j |-> Cur, live |-> TRUE])

(* The four DLE EOT questions are one query here, answered as a group or   *)
(* not at all.                                                             *)
SendPreflight ==
  /\ At("preflight")
  /\ io' = [io EXCEPT !.rtExp = TRUE]
  /\ \/ Sent("query") /\ Goto("preWait") /\ UNCHANGED journal
     \/ SentNothing /\ Terminate("FailedKnown", worker.conf, "TransportUnreachable")
  /\ UNCHANGED <<jobs, pub, done, byKey, held, nextSlot, tasks, stopping, link, fromDev,
                 paper, spent>>

(* clearRealtime: dropping an unanswered question resets the whole parser. *)
ClearedRealtime ==
  [io EXCEPT !.rtAns = "none", !.rtExp = FALSE, !.qExp = IF io.rtExp THEN 0 ELSE @]

(* awaitRealtime(4) and the decision after it.  Only a lost link stops the *)
(* job without an answer: a timeout, or a shutdown, lets it go on.         *)
AwaitPreflight ==
  /\ At("preWait")
  /\ \/ /\ io.rtAns = "none" /\ link.down
        /\ Terminate("FailedKnown", worker.conf, "TransportUnreachable")
        /\ UNCHANGED io
     \/ /\ io.rtAns = "none" /\ ~link.down
        /\ io' = ClearedRealtime /\ Goto("lease") /\ UNCHANGED journal
     \/ /\ io.rtAns = "bad"
        /\ io' = ClearedRealtime
        /\ Terminate("FailedKnown", worker.conf, "Preflight")
     \/ /\ io.rtAns = "ok"
        /\ io' = ClearedRealtime
        /\ Advance("PreflightOk", PrinterHealthy, "lease")
  /\ UNCHANGED <<jobs, pub, done, byKey, held, nextSlot, tasks, stopping, link, toDev,
                 fromDev, paper, spent>>

LeaseTokens_SameSlot ==
  /\ At("lease")
  /\ journal' = [journal EXCEPT ![Cur].tok = nextSlot + 1]
  /\ Goto("start")
  /\ UNCHANGED <<jobs, pub, done, byKey, held, nextSlot, tasks, stopping, io, link, toDev,
                 fromDev, paper, spent>>

(* leaseTokens: only a token-echoing fence has a token to lease.  With one *)
(* printer no other lease is outstanding, so the next slot is free.  The   *)
(* pair is in the journal before any byte that carries it.                 *)
LeaseTokens ==
  /\ At("lease")
  /\ IF Completion = "GsParenH"
       THEN /\ nextSlot' = nextSlot + 1
            /\ journal' = [journal EXCEPT ![Cur].tok = nextSlot + 1]
       ELSE UNCHANGED <<nextSlot, journal>>
  /\ Goto("start")
  /\ UNCHANGED <<jobs, pub, done, byKey, held, tasks, stopping, io, link, toDev, fromDev,
                 paper, spent>>

StartSend_NotJournalled ==
  /\ At("start")
  /\ Goto("payload")
  /\ UNCHANGED <<jobs, journal, pub, done, byKey, held, nextSlot, tasks, stopping, io, link,
                 toDev, fromDev, paper, spent>>

(* The ordering rule: SendStarted is durable before the first byte leaves. *)
StartSend ==
  /\ At("start")
  /\ Advance("SendStarted", worker.conf, "payload")
  /\ UNCHANGED <<jobs, pub, done, byKey, held, nextSlot, tasks, stopping, io, link, toDev,
                 fromDev, paper, spent>>

SendPayload_AnyFailureIsKnown ==
  /\ At("payload")
  /\ \/ Sent("payload") /\ Goto("fence") /\ UNCHANGED journal
     \/ (SentNothing \/ SentPart)
        /\ Terminate("FailedKnown", worker.conf, "TransportUnreachable")
  /\ UNCHANGED <<jobs, pub, done, byKey, held, nextSlot, tasks, stopping, io, link, fromDev,
                 paper, spent>>

SendPayload ==
  /\ At("payload")
  /\ \/ Sent("payload") /\ Goto("fence") /\ UNCHANGED journal
     \/ SentNothing /\ Terminate("FailedKnown", worker.conf, "TransportUnreachable")
     \/ SentPart /\ Terminate("Unknown", worker.conf, "Unknown")
  /\ UNCHANGED <<jobs, pub, done, byKey, held, nextSlot, tasks, stopping, io, link, fromDev,
                 paper, spent>>

(* expectQueued() precedes the send that provokes the answer.              *)
ArmQueued ==
  io' = IF Completion = "GsR1" THEN [io EXCEPT !.qExp = @ + 1] ELSE io

(* The print fence; without a fence the cut rides here, if there is one.   *)
SendFence ==
  /\ At("fence")
  /\ ArmQueued
  /\ IF Completion = "None" /\ ~jobs[Cur].cut
       THEN Goto("sent") /\ UNCHANGED <<journal, toDev>>
       ELSE \/ /\ Sent(IF Completion = "None" THEN "cut" ELSE "fence")
               /\ Goto("sent") /\ UNCHANGED journal
            \/ SentNothing /\ Terminate("Unknown", worker.conf, "Unknown")
  /\ UNCHANGED <<jobs, pub, done, byKey, held, nextSlot, tasks, stopping, link, fromDev,
                 paper, spent>>

BytesSent ==
  /\ At("sent")
  /\ Advance("BytesSent", worker.conf,
             IF Completion = "None" THEN "accepted" ELSE "awaitPrint")
  /\ UNCHANGED <<jobs, pub, done, byKey, held, nextSlot, tasks, stopping, io, link, toDev,
                 fromDev, paper, spent>>

(* awaitToken / awaitQueued: an answer wins over a lost link, a lost link  *)
(* over a shutdown, and what is left is a timeout.  A token stays; a bare  *)
(* answer is consumed.                                                     *)
Signalled_AnyEcho(part) ==
  IF Completion = "GsParenH" THEN io.echoes # {} ELSE io.qAns > 0
Signalled(part) ==
  IF Completion = "GsParenH" THEN <<journal[Cur].tok, part>> \in io.echoes ELSE io.qAns > 0
Consumed == IF Completion = "GsParenH" THEN io ELSE [io EXCEPT !.qAns = @ - 1]
SilenceReason == IF link.down \/ stopping THEN "Unknown" ELSE "TimeoutAwaitingCompletion"

AwaitPrint ==
  /\ At("awaitPrint")
  /\ \/ /\ Signalled("fence")
        /\ io' = Consumed
        /\ Advance("PrintConfirmed", PrintConfirmed,
                   IF jobs[Cur].cut THEN "cut" ELSE "finished")
     \/ /\ ~Signalled("fence")
        /\ Terminate("Unknown", worker.conf, SilenceReason)
        /\ UNCHANGED io
  /\ UNCHANGED <<jobs, pub, done, byKey, held, nextSlot, tasks, stopping, link, toDev,
                 fromDev, paper, spent>>

SendCut ==
  /\ At("cut")
  /\ ArmQueued
  /\ \/ Sent("cut") /\ Goto("awaitCut") /\ UNCHANGED journal
     \/ SentNothing /\ Terminate("Unknown", worker.conf, "Unknown")
  /\ UNCHANGED <<jobs, pub, done, byKey, held, nextSlot, tasks, stopping, link, fromDev,
                 paper, spent>>

AwaitCut ==
  /\ At("awaitCut")
  /\ \/ /\ Signalled("cut")
        /\ io' = Consumed
        /\ Advance("CutCommandProcessed", CutProcessed,
                   IF Completion = "GsParenH" THEN "cutStatus" ELSE "finished")
     \/ /\ ~Signalled("cut")
        /\ Terminate("Unknown", worker.conf, SilenceReason)
        /\ UNCHANGED io
  /\ UNCHANGED <<jobs, pub, done, byKey, held, nextSlot, tasks, stopping, link, toDev,
                 fromDev, paper, spent>>

(* The cutter's status is asked for once the cut fence is back.            *)
QueryCutter ==
  /\ At("cutStatus")
  /\ io' = [ClearedRealtime EXCEPT !.rtExp = TRUE]
  /\ \/ Sent("query") /\ Goto("statusWait")
     \/ SentNothing /\ Goto("finished")
  /\ UNCHANGED <<jobs, journal, pub, done, byKey, held, nextSlot, tasks, stopping, link,
                 fromDev, paper, spent>>

AwaitCutter ==
  /\ At("statusWait")
  /\ CASE io.rtAns = "bad"  -> Terminate("FailedKnown", worker.conf, "CutterFault")
       [] io.rtAns = "ok"   -> Terminate("DoneSoftware", CutFaultFree, "None")
       [] io.rtAns = "none" -> Terminate("DoneSoftware", worker.conf, "None")
  /\ UNCHANGED <<jobs, pub, done, byKey, held, nextSlot, tasks, stopping, io, link, toDev,
                 fromDev, paper, spent>>

(* The exits that claim what was earned: no cut to make, no cutter to ask, *)
(* or no backchannel at all.                                               *)
Complete ==
  /\ At("finished") \/ At("accepted")
  /\ Terminate("DoneSoftware",
               IF worker.pc = "accepted" THEN TransportAccepted ELSE worker.conf, "None")
  /\ UNCHANGED <<jobs, pub, done, byKey, held, nextSlot, tasks, stopping, io, link, toDev,
                 fromDev, paper, spent>>

RunJob ==
  \/ Connect \/ BeginJobIo \/ SendPreflight \/ AwaitPreflight \/ LeaseTokens
  \/ StartSend \/ SendPayload \/ SendFence \/ BytesSent \/ AwaitPrint
  \/ SendCut \/ AwaitCut \/ QueryCutter \/ AwaitCutter \/ Complete

Worker == Publish \/ Finish \/ Take \/ RunJob \/ CancelLeftover \/ CloseTransport

-----------------------------------------------------------------------------
Receive_Unasked ==
  /\ link.up /\ fromDev # <<>>
  /\ LET a == Head(fromDev)
     IN io' = CASE a.k = "echo" -> [io EXCEPT !.echoes = @ \cup {a.t}]
                [] a.k = "realtime" /\ io.rtExp ->
                     [io EXCEPT !.rtExp = FALSE, !.rtAns = IF a.bad THEN "bad" ELSE "ok"]
                [] OTHER -> [io EXCEPT !.qExp = @ - 1, !.qAns = @ + 1]
  /\ fromDev' = Tail(fromDev)
  /\ UNCHANGED <<jobs, journal, pub, done, byKey, held, nextSlot, tasks, stopping, worker,
                 link, toDev, paper, spent>>

(* onBytes, in the transport's reader thread.  An echo that carries our    *)
(* nonce is kept whatever job it belongs to.  A byte with the realtime     *)
(* pattern answers an outstanding realtime question; any byte answers a    *)
(* queued one; the rest is dropped.                                        *)
Receive ==
  /\ link.up /\ fromDev # <<>>
  /\ LET a == Head(fromDev)
     IN io' = CASE a.k = "echo" -> [io EXCEPT !.echoes = @ \cup {a.t}]
                [] a.k = "realtime" /\ io.rtExp ->
                     [io EXCEPT !.rtExp = FALSE, !.rtAns = IF a.bad THEN "bad" ELSE "ok"]
                [] a.k # "echo" /\ ~(a.k = "realtime" /\ io.rtExp) /\ io.qExp > 0 ->
                     [io EXCEPT !.qExp = @ - 1, !.qAns = @ + 1]
                [] OTHER -> io
  /\ fromDev' = Tail(fromDev)
  /\ UNCHANGED <<jobs, journal, pub, done, byKey, held, nextSlot, tasks, stopping, worker,
                 link, toDev, paper, spent>>

-----------------------------------------------------------------------------
(* The printer.  It works through its buffer in order, as slowly as it     *)
(* likes, and answers a fence once everything before it is on paper.       *)

Answered(item, answers) ==
  fromDev' = IF item.live /\ link.up THEN fromDev \o answers ELSE fromDev

FenceAnswer(item) ==
  CASE Completion = "GsParenH" -> <<[k |-> "echo", t |-> <<journal[item.j].tok, item.k>>]>>
    [] Completion = "GsR1"     -> <<[k |-> "queued"]>>
    [] Completion = "None"     -> <<>>

PrinterPrints ==
  /\ toDev # <<>> /\ Head(toDev).k # "query"
  /\ LET item == Head(toDev)
     IN \/ /\ item.k \in {"payload", "partial"}
           /\ paper' = [paper EXCEPT ![item.j] =
                          IF item.k = "payload" THEN "full" ELSE "part"]
           /\ UNCHANGED fromDev
        \/ /\ item.k \in {"fence", "cut"}
           /\ Answered(item, FenceAnswer(item))
           /\ UNCHANGED paper
  /\ toDev' = Tail(toDev)
  /\ UNCHANGED <<jobs, journal, pub, done, byKey, held, nextSlot, tasks, stopping, worker,
                 io, link, spent>>

(* DLE EOT is answered on receipt, past whatever print data is queued      *)
(* before it; a printer whose interface does not forward it stays silent.  *)
PrinterAnswersQuery ==
  /\ \E i \in DOMAIN toDev :
       /\ toDev[i].k = "query"
       /\ \A h \in 1..(i - 1) : toDev[h].k # "query"
       /\ \/ \E bad \in BOOLEAN : Answered(toDev[i], <<[k |-> "realtime", bad |-> bad]>>)
          \/ UNCHANGED fromDev
       /\ toDev' = SubSeq(toDev, 1, i - 1) \o SubSeq(toDev, i + 1, Len(toDev))
  /\ UNCHANGED <<jobs, journal, pub, done, byKey, held, nextSlot, tasks, stopping, worker,
                 io, link, paper, spent>>

(* onDisconnected.                                                         *)
LinkDrops ==
  /\ link.up /\ spent.drops < MaxDrops
  /\ spent' = [spent EXCEPT !.drops = @ + 1]
  /\ link' = [up |-> FALSE, down |-> TRUE]
  /\ \E q \in Cutoffs(toDev) : toDev' = Orphaned(q)
  /\ fromDev' = <<>>
  /\ UNCHANGED <<jobs, journal, pub, done, byKey, held, nextSlot, tasks, stopping, worker,
                 io, paper>>

-----------------------------------------------------------------------------
(* The process dies, or exits, and its successor loads the journal.  The   *)
(* index is rebuilt from the records in creation order, so every key finds *)
(* its newest job again, but no entry has a payload.                       *)

Recovered_MissesCut(r) ==
  CASE r.state \in MidSend \ {"CutCommandProcessed"} ->
         [r EXCEPT !.state = "Unknown", !.reason = "Unknown"]
    [] r.state \in BeforeSend -> [r EXCEPT !.state = "FailedKnown", !.reason = "Unknown"]
    [] OTHER                  -> r
Recovered_RetriesUnknown(r) ==
  IF r.state = "DoneSoftware" \/ r.state = "Absent" THEN r
  ELSE [r EXCEPT !.state = "FailedKnown", !.reason = "Unknown"]
Recovered_NothingPrinted(r) ==
  IF r.state \in MidSend \cup BeforeSend
    THEN [r EXCEPT !.state = "FailedKnown", !.reason = "Unknown"] ELSE r

(* JobStore::load: a job found mid-send may have printed; one found before *)
(* SendStarted provably has not.                                           *)
Recovered(r) ==
  CASE r.state \in MidSend    -> [r EXCEPT !.state = "Unknown", !.reason = "Unknown"]
    [] r.state \in BeforeSend -> [r EXCEPT !.state = "FailedKnown", !.reason = "Unknown"]
    [] OTHER                  -> r

(* A death inside sendPaced leaves part of the payload behind.             *)
InFlightAtDeath ==
  {toDev} \cup (IF At("payload") /\ link.up
                  THEN {Append(toDev, [k |-> "partial", j |-> Cur, live |-> TRUE])}
                  ELSE {})

Restart ==
  /\ spent.restarts < MaxRestarts
  /\ spent' = [spent EXCEPT !.restarts = @ + 1]
  /\ journal' = [j \in JobId |-> Recovered(journal[j])]
  /\ pub' = [j \in JobId |-> Recovered(journal[j]).state]
  /\ done' = [j \in JobId |-> j \in Created]
  /\ held' = {}
  /\ nextSlot' = 0
  /\ tasks' = <<>>
  /\ stopping' = FALSE
  /\ worker' = Idle
  /\ io' = QuietIo
  /\ link' = [up |-> FALSE, down |-> FALSE]
  /\ \E sent \in InFlightAtDeath : \E q \in Cutoffs(sent) : toDev' = Orphaned(q)
  /\ fromDev' = <<>>
  /\ UNCHANGED <<jobs, byKey, paper>>

Environment == Receive \/ PrinterPrints \/ PrinterAnswersQuery \/ LinkDrops \/ Restart

Next == Client \/ Worker \/ Environment

Spec == Init /\ [][Next]_vars

-----------------------------------------------------------------------------
(* Properties.                                                             *)

(* Payload bytes of j that are on paper or on their way to it.             *)
OnTheWire(j) == \E i \in DOMAIN toDev : toDev[i].j = j /\ toDev[i].k \in {"payload", "partial"}
MayHaveInk(j) == paper[j] # "none" \/ OnTheWire(j)

(* No receipt byte leaves before the journal says that it may have: at     *)
(* every instant, so at every crash, a job whose record is not yet         *)
(* SendStarted has put nothing on paper (runJob's ordering rule).          *)
DurableBeforeWire ==
  \A j \in JobId : journal[j].state \in {"Absent"} \cup BeforeSend => ~MayHaveInk(j)

(* FailedKnown means nothing was printed, whoever says so: a refusal, a    *)
(* failed write, a cancelled task or the recovery of a dead process.  The  *)
(* cutter fault, read after the receipt is out, is the one exception.      *)
FailedKnownPrintedNothing ==
  \A j \in JobId :
    journal[j].state = "FailedKnown" /\ journal[j].reason # "CutterFault" => ~MayHaveInk(j)

(* An observer never learns of a transition the journal has not committed  *)
(* (advance: persist, then publish), so that nothing a client was told is  *)
(* withdrawn by a crash.                                                   *)
Progress(s) ==
  CASE s = "Absent" -> 0 [] s = "Queued" -> 1 [] s = "PreflightOk" -> 2
    [] s = "SendStarted" -> 3 [] s = "BytesSent" -> 4 [] s = "PrintConfirmed" -> 5
    [] s = "CutCommandProcessed" -> 6 [] s \in Terminals -> 7
PublishedIsDurable ==
  \A j \in JobId : /\ Progress(pub[j]) <= Progress(journal[j].state)
                   /\ pub[j] \in Terminals => pub[j] = journal[j].state
                   /\ done[j] => pub[j] \in Terminals

(* Whatever is claimed as PrintConfirmed or better is wholly on paper.     *)
ConfirmedMeansPrinted ==
  \A j \in JobId : journal[j].conf >= PrintConfirmed => paper[j] = "full"

(* Without an explicit reprint, a key reaches paper at most once, however  *)
(* often it is submitted, across failures and restarts.                    *)
OneCopyPerKey ==
  \A i, j \in Created :
    i # j /\ jobs[i].key = jobs[j].key /\ MayHaveInk(i) /\ MayHaveInk(j)
      => jobs[i].reprint \/ jobs[j].reprint

(* A printed identifier names one receipt: no two jobs that may be on      *)
(* paper carry the same token (jobByToken could not tell them apart).      *)
TokenNamesOneReceipt ==
  \A i, j \in Created :
    ( /\ i # j /\ MayHaveInk(i) /\ MayHaveInk(j)
      /\ journal[i].tok # NoSlot /\ journal[j].tok # NoSlot )
    => journal[i].tok # journal[j].tok

(* The journal only moves forward and never leaves a terminal state, over  *)
(* a crash too.                                                            *)
ForwardOnly ==
  [][\A j \in JobId :
       /\ Progress(journal[j].state) <= Progress(journal'[j].state)
       /\ journal[j].state \in Terminals => journal'[j] = journal[j]]_vars

(* Where the worker may be, given what the journal says of its job.        *)
OnSchedule(pc, s) ==
  /\ pc \in {"connect", "begin", "preflight", "preWait"} => s = "Queued"
  /\ pc \in {"lease", "start"} => s \in BeforeSend
  /\ pc \in {"payload", "fence", "sent"} => s = "SendStarted"
  /\ pc \in {"accepted", "awaitPrint"} => s = "BytesSent"
  /\ pc \in {"cut", "awaitCut"} => s = "PrintConfirmed"
  /\ pc \in {"cutStatus", "statusWait"} => s = "CutCommandProcessed"
  /\ pc = "finished" => s \in {"PrintConfirmed", "CutCommandProcessed"}
  /\ pc = "ended" => s \in Terminals

(* The worker, its queue, the journal and the wire agree about every job:  *)
(* the queued ones are distinct and untouched, the worker's own record is  *)
(* the one its place in runJob calls for, and nothing has left before the  *)
(* payload step.  This is what makes the three invariants above inductive. *)
QueueUntouched ==
  \A i \in 1..Len(tasks) :
    /\ tasks[i] \in 1..Len(jobs) /\ journal[tasks[i]].state = "Queued"
    /\ worker.pc # "idle" => tasks[i] # worker.cur
    /\ \A h \in 1..Len(tasks) : h # i => tasks[h] # tasks[i]
WorkerOnSchedule ==
  /\ worker.pc = "idle" => worker.pend = NoPend
  /\ worker.pc # "idle" =>
       /\ worker.cur \in 1..Len(jobs)
       /\ OnSchedule(worker.pc, journal[worker.cur].state)
       /\ worker.pc = "payload" => ~MayHaveInk(worker.cur)
       /\ worker.pend = "finish" => pub[worker.cur] \in Terminals
OneRecordEach == \A j \in JobId : j > Len(jobs) <=> journal[j].state = "Absent"
InStep == QueueUntouched /\ WorkerOnSchedule /\ OneRecordEach

(* What all of this promises a client, as JobLedger states it.             *)
Stage(r) ==
  CASE r.state \in BeforeSend    -> "safe"
    [] r.state \in MidSend       -> "exposed"
    [] r.state = "Absent"        -> "absent"
    [] r.state = "DoneSoftware"  -> "complete"
    [] r.state = "Unknown"       -> "unknown"
    [] r.state = "FailedKnown"   -> IF r.reason = "CutterFault" THEN "faulted" ELSE "failed"
Told(j) == Stage([journal[j] EXCEPT !.state = pub[j]])

Ledger == INSTANCE JobLedger WITH
  Job    <- JobId,
  ledger <- [j \in JobId |-> Stage(journal[j])],
  told   <- [j \in JobId |-> Told(j)],
  out    <- [j \in JobId |-> MayHaveInk(j)]

(* The engine implements the ledger.                                       *)
KeepsTheLedger == Ledger!LedgerSpec
=============================================================================
