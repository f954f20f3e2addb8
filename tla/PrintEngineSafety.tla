------------------------- MODULE PrintEngineSafety -------------------------
(***************************************************************************)
(* The safety of PrintEngine, for every set of keys, kind of fence and     *)
(* value of the bounds.  First every variable keeps its type.  Then what   *)
(* is on paper, what the journal says and what an observer was told never  *)
(* contradict each other: IInv is the inductive invariant, the three       *)
(* properties and InStep, which ties the worker's place in runJob to the   *)
(* record of its job. Then that each step is one of the abstract ledger.   *)
(* Last, what a fence proves and how often a key reaches paper.            *)
(***************************************************************************)
EXTENDS PrintEngine, TLAPS, SequenceTheorems

-----------------------------------------------------------------------------
(* What the worker's building blocks leave behind.                         *)

WorkerOK == worker \in Threads /\ (worker.pc # "idle" => worker.cur \in JobId)

LEMMA ClampType == ASSUME NEW c \in 0..4 PROVE Clamp(c) \in 0..4
  BY CompletionAssumption
     DEF Clamp, Ceiling, CutFaultFree, CutProcessed, TransportAccepted

LEMMA RecordType ==
  ASSUME TypeOK, NEW s \in States, NEW c \in 0..4, NEW r \in Reasons, Record(s, c, r)
  PROVE  journal' \in [JobId -> Entry]
<1> DEFINE k == Clamp(c)
<1>1. k \in 0..4 BY ClampType
<1>2. journal' = [journal EXCEPT ![Cur].state = s, ![Cur].conf = k, ![Cur].reason = r]
  BY DEF Record
<1> HIDE DEF k
<1>3. ASSUME NEW j \in JobId PROVE journal'[j] \in Entry
  <2>1. journal[j] \in Entry BY DEF TypeOK
  <2>2. CASE j = Cur
    <3>1. journal'[j] = [journal[j] EXCEPT !.state = s, !.conf = k, !.reason = r]
      BY <1>2, <2>2 DEF TypeOK
    <3> QED BY <1>1, <2>1, <3>1 DEF Entry
  <2>3. CASE j # Cur
    BY <1>2, <2>1, <2>3 DEF TypeOK
  <2> QED BY <2>2, <2>3
<1>4. journal' = [j \in JobId |-> journal'[j]] BY <1>2 DEF TypeOK
<1> QED BY <1>3, <1>4

LEMMA AdvanceType ==
  ASSUME TypeOK, worker.pc # "idle", NEW s \in States, NEW c \in 0..4,
         NEW pc \in Pcs, Advance(s, c, pc)
  PROVE  journal' \in [JobId -> Entry] /\ WorkerOK'
<1>1. "None" \in Reasons BY DEF Reasons
<1>2. journal' \in [JobId -> Entry] BY <1>1, RecordType DEF Advance
<1>3. WorkerOK' BY DEF Advance, TypeOK, WorkerOK, Threads
<1> QED BY <1>2, <1>3

LEMMA TerminateType ==
  ASSUME TypeOK, worker.pc # "idle", NEW s \in States, NEW c \in 0..4,
         NEW r \in Reasons, Terminate(s, c, r)
  PROVE  journal' \in [JobId -> Entry] /\ WorkerOK'
<1>1. journal' \in [JobId -> Entry] BY RecordType DEF Terminate
<1>2. WorkerOK' BY DEF Terminate, TypeOK, WorkerOK, Threads, Pcs
<1> QED BY <1>1, <1>2

LEMMA GotoType ==
  ASSUME TypeOK, worker.pc # "idle", NEW pc \in Pcs, Goto(pc)
  PROVE  WorkerOK'
BY DEF TypeOK, WorkerOK, Goto, Threads

LEMMA SendType ==
  ASSUME TypeOK, worker.pc # "idle",
         NEW kind \in {"query", "payload", "fence", "cut"},
         Sent(kind) \/ SentNothing \/ SentPart
  PROVE  toDev' \in Seq(Items)
<1> DEFINE item(k) == [k |-> k, j |-> Cur, live |-> TRUE]
<1>1. item(kind) \in Items /\ item("partial") \in Items BY DEF TypeOK, Items, Cur
<1>2. toDev \in Seq(Items) BY DEF TypeOK
<1>3. toDev' \in {toDev, Append(toDev, item(kind)), Append(toDev, item("partial"))}
  BY DEF Sent, SentNothing, SentPart
<1> HIDE DEF item
<1> QED BY <1>1, <1>2, <1>3

-----------------------------------------------------------------------------
(* Type correctness.                                                       *)

LEMMA InitType == Init => TypeOK
<1> SUFFICES ASSUME Init PROVE TypeOK OBVIOUS
<1>1. jobs \in Seq(JobInfo) /\ Len(jobs) <= MaxJobs BY BoundsAssumption DEF Init
<1>2. journal \in [JobId -> Entry]
  BY DEF Init, Entry, NoRecord, States, Reasons, NoSlot
<1>3. pub \in [JobId -> States] BY DEF Init, States
<1>4. WorkerOK BY BoundsAssumption DEF Init, WorkerOK, Threads, Idle, Pcs, NoJob, NoPend
<1>5. io \in Ios BY DEF Init, Ios, QuietIo
<1>6. spent \in [restarts : 0..MaxRestarts, drops : 0..MaxDrops]
  BY BoundsAssumption DEF Init
<1>7. toDev \in Seq(Items) /\ fromDev \in Seq(Answers) /\ tasks \in Seq(JobId)
  BY DEF Init
<1>8. /\ done \in [JobId -> BOOLEAN] /\ held \in SUBSET Keys /\ nextSlot \in Nat
      /\ stopping \in BOOLEAN /\ link \in [up : BOOLEAN, down : BOOLEAN]
      /\ paper \in [JobId -> {"none", "part", "full"}]
  BY DEF Init
<1>9. byKey \in [Keys -> 0..Len(jobs)]
  <2>1. byKey = [k \in Keys |-> 0] /\ Len(jobs) = 0 BY DEF Init, NoJob
  <2> QED BY <2>1
<1> QED BY <1>1, <1>2, <1>3, <1>4, <1>5, <1>6, <1>7, <1>8, <1>9 DEF TypeOK, WorkerOK

LEMMA CreateType ==
  ASSUME TypeOK, NEW k \in Keys, NEW rep \in BOOLEAN,
         NEW cut \in CutModes, NEW strict \in StrictModes, Create(k, rep, cut, strict)
  PROVE  TypeOK'
<1> DEFINE j == Len(jobs) + 1
           attempt == IF byKey[k] = NoJob THEN 1 ELSE jobs[byKey[k]].attempt + 1
           info == [key |-> k, attempt |-> attempt, reprint |-> rep,
                    cut |-> cut, strict |-> strict]
           born == IF stopping
                     THEN [NoRecord EXCEPT !.state = "FailedKnown",
                                           !.reason = "TransportUnreachable"]
                     ELSE [NoRecord EXCEPT !.state = "Queued"]
<1>1. jobs \in Seq(JobInfo) /\ byKey \in [Keys -> 0..Len(jobs)] /\ j \in JobId
  BY DEF TypeOK, Create
<1>2. attempt \in Nat
  <2>1. CASE byKey[k] = NoJob BY <2>1
  <2>2. CASE byKey[k] # NoJob
    <3>1. byKey[k] \in 1..Len(jobs) BY <1>1, <2>2 DEF NoJob
    <3>2. jobs[byKey[k]] \in JobInfo BY <1>1, <3>1, ElementOfSeq
    <3> QED BY <3>2, <2>2 DEF JobInfo
  <2> QED BY <2>1, <2>2
<1>3. info \in JobInfo
  <2> HIDE DEF attempt
  <2> QED BY <1>2, ModesAssumption DEF JobInfo
<1>4. born \in Entry /\ born.state \in States
  <2>1. NoRecord \in Entry BY DEF NoRecord, Entry, States, Reasons, NoSlot
  <2>2. /\ "FailedKnown" \in States /\ "Queued" \in States
        /\ "TransportUnreachable" \in Reasons
    BY DEF States, BeforeSend, Terminals, Reasons
  <2>3. CASE stopping
    <3>1. born = [NoRecord EXCEPT !.state = "FailedKnown",
                                  !.reason = "TransportUnreachable"]
      BY <2>3
    <3> QED BY <2>1, <2>2, <3>1 DEF Entry
  <2>4. CASE ~stopping
    <3>1. born = [NoRecord EXCEPT !.state = "Queued"] BY <2>4
    <3> QED BY <2>1, <2>2, <3>1 DEF Entry
  <2> QED BY <2>3, <2>4
<1>5. /\ jobs' = Append(jobs, info)
      /\ journal' = [journal EXCEPT ![j] = born]
      /\ pub' = [pub EXCEPT ![j] = born.state]
      /\ done' = [done EXCEPT ![j] = stopping]
      /\ byKey' = [byKey EXCEPT ![k] = j]
      /\ held' = held \cup {k}
      /\ tasks' = IF stopping THEN tasks ELSE Append(tasks, j)
      /\ UNCHANGED <<nextSlot, stopping, worker, io, link, toDev, fromDev, paper, spent>>
  BY DEF Create
<1> HIDE DEF info, born
<1>6. jobs' \in Seq(JobInfo) /\ Len(jobs') = j BY <1>1, <1>3, <1>5
<1>7. Len(jobs') <= MaxJobs BY <1>6, <1>1, BoundsAssumption DEF JobId
<1>8. byKey' \in [Keys -> 0..Len(jobs')] BY <1>1, <1>5, <1>6
<1>9. journal' \in [JobId -> Entry] BY <1>4, <1>5 DEF TypeOK
<1>10. pub' \in [JobId -> States] /\ done' \in [JobId -> BOOLEAN]
  BY <1>4, <1>5 DEF TypeOK
<1>11. tasks' \in Seq(JobId) BY <1>1, <1>5 DEF TypeOK
<1> QED BY <1>5, <1>6, <1>7, <1>8, <1>9, <1>10, <1>11 DEF TypeOK

LEMMA ClientType == TypeOK /\ Client => TypeOK'
<1> SUFFICES ASSUME TypeOK, Client PROVE TypeOK' OBVIOUS
<1>1. CASE Stop BY <1>1 DEF Stop, TypeOK
<1>2. ASSUME NEW k \in Keys, NEW cut \in CutModes, NEW strict \in StrictModes,
             Submit(k, cut, strict)
      PROVE  TypeOK'
  BY <1>2, CreateType DEF Submit
<1>3. ASSUME NEW k \in Keys, NEW cut \in CutModes, NEW strict \in StrictModes,
             NEW supplied \in BOOLEAN, ForceReprint(k, supplied, cut, strict)
      PROVE  TypeOK'
  BY <1>3, CreateType DEF ForceReprint
<1> QED BY <1>1, <1>2, <1>3 DEF Client

(* The variables a step of runJob may change.                              *)
LEMMA RunJobFrame ==
  ASSUME TypeOK, journal' \in [JobId -> Entry], WorkerOK', io' \in Ios,
         link' \in [up : BOOLEAN, down : BOOLEAN], nextSlot' \in Nat,
         toDev' \in Seq(Items), fromDev' \in Seq(Answers),
         UNCHANGED <<jobs, pub, done, byKey, held, tasks, stopping, paper, spent>>
  PROVE  TypeOK'
BY DEF TypeOK, WorkerOK

LEMMA AtWorks ==
  ASSUME TypeOK, NEW pc \in Pcs \ {"idle"}, At(pc)
  PROVE  worker.pc # "idle" /\ Cur \in JobId /\ worker.conf \in 0..4
BY DEF TypeOK, At, Cur, Threads

LEMMA ConstantsType ==
  /\ {"Absent", "Queued", "PreflightOk", "SendStarted", "BytesSent", "PrintConfirmed",
      "CutCommandProcessed", "DoneSoftware", "FailedKnown", "Unknown"} \subseteq States
  /\ {"None", "TransportUnreachable", "Preflight", "CutterFault",
      "TimeoutAwaitingCompletion", "Unknown"} \subseteq Reasons
BY DEF States, BeforeSend, MidSend, Terminals, Reasons

LEMMA IoTypes ==
  ASSUME TypeOK
  PROVE  /\ QuietIo \in Ios /\ ClearedRealtime \in Ios
         /\ [io EXCEPT !.rtExp = TRUE] \in Ios
         /\ [io EXCEPT !.qExp = @ + 1] \in Ios
         /\ [ClearedRealtime EXCEPT !.rtExp = TRUE] \in Ios
<1>1. io \in Ios BY DEF TypeOK
<1>2. QuietIo \in Ios BY DEF QuietIo, Ios
<1>3. ClearedRealtime \in Ios BY <1>1 DEF ClearedRealtime, Ios
<1>4. [io EXCEPT !.rtExp = TRUE] \in Ios BY <1>1 DEF Ios
<1>5. [io EXCEPT !.qExp = @ + 1] \in Ios BY <1>1 DEF Ios
<1>6. [ClearedRealtime EXCEPT !.rtExp = TRUE] \in Ios BY <1>3 DEF Ios
<1> QED BY <1>2, <1>3, <1>4, <1>5, <1>6

LEMMA ConnectType == TypeOK /\ Connect => TypeOK'
<1> SUFFICES ASSUME TypeOK, Connect PROVE TypeOK' OBVIOUS
<1>1. worker.pc # "idle" /\ worker.conf \in 0..4 BY AtWorks DEF Connect, Pcs
<1>2. /\ link' \in [up : BOOLEAN, down : BOOLEAN]
      /\ fromDev' \in Seq(Answers)
  <2>1. link \in [up : BOOLEAN, down : BOOLEAN] /\ fromDev \in Seq(Answers)
    BY DEF TypeOK
  <2>2. link' = link \/ link' = [link EXCEPT !.up = TRUE] BY DEF Connect
  <2>3. link' \in [up : BOOLEAN, down : BOOLEAN] BY <2>1, <2>2
  <2>4. fromDev' = fromDev \/ fromDev' = <<>> BY DEF Connect
  <2>5. <<>> \in Seq(Answers) OBVIOUS
  <2> QED BY <2>1, <2>3, <2>4, <2>5
<1>3. journal' \in [JobId -> Entry] /\ WorkerOK'
  <2>1. CASE Goto("begin") /\ UNCHANGED journal
    BY <1>1, <2>1, GotoType DEF TypeOK, Pcs
  <2>2. CASE Terminate("FailedKnown", worker.conf, "TransportUnreachable")
    BY <1>1, <2>2, TerminateType, ConstantsType
  <2> QED BY <2>1, <2>2 DEF Connect
<1> QED BY <1>2, <1>3, RunJobFrame DEF Connect, TypeOK

LEMMA BeginJobIoType == TypeOK /\ BeginJobIo => TypeOK'
<1> SUFFICES ASSUME TypeOK, BeginJobIo PROVE TypeOK' OBVIOUS
<1>1. WorkerOK'
  <2>1. worker.pc # "idle" BY AtWorks DEF BeginJobIo, Pcs
  <2>2. PICK pc \in Pcs : Goto(pc) BY DEF BeginJobIo, Pcs
  <2> QED BY <2>1, <2>2, GotoType
<1>2. link' \in [up : BOOLEAN, down : BOOLEAN] BY DEF BeginJobIo, TypeOK
<1>3. io' \in Ios BY IoTypes DEF BeginJobIo
<1> QED BY <1>1, <1>2, <1>3, RunJobFrame DEF BeginJobIo, TypeOK

LEMMA SendPreflightType == TypeOK /\ SendPreflight => TypeOK'
<1> SUFFICES ASSUME TypeOK, SendPreflight PROVE TypeOK' OBVIOUS
<1>1. worker.pc # "idle" /\ worker.conf \in 0..4 BY AtWorks DEF SendPreflight, Pcs
<1>2. toDev' \in Seq(Items) BY <1>1, SendType DEF SendPreflight
<1>3. io' \in Ios BY IoTypes DEF SendPreflight
<1>4. journal' \in [JobId -> Entry] /\ WorkerOK'
  <2>1. CASE Goto("preWait") /\ UNCHANGED journal
    BY <1>1, <2>1, GotoType DEF TypeOK, Pcs
  <2>2. CASE Terminate("FailedKnown", worker.conf, "TransportUnreachable")
    BY <1>1, <2>2, TerminateType, ConstantsType
  <2> QED BY <2>1, <2>2 DEF SendPreflight
<1> QED BY <1>2, <1>3, <1>4, RunJobFrame DEF SendPreflight, TypeOK

LEMMA AwaitPreflightType == TypeOK /\ AwaitPreflight => TypeOK'
<1> SUFFICES ASSUME TypeOK, AwaitPreflight PROVE TypeOK' OBVIOUS
<1>1. worker.pc # "idle" /\ worker.conf \in 0..4 BY AtWorks DEF AwaitPreflight, Pcs
<1>2. io' \in Ios
  <2>1. io' = io \/ io' = ClearedRealtime BY DEF AwaitPreflight
  <2> QED BY <2>1, IoTypes DEF TypeOK
<1>3. journal' \in [JobId -> Entry] /\ WorkerOK'
  <2>1. CASE Goto("lease") /\ UNCHANGED journal
    BY <1>1, <2>1, GotoType DEF TypeOK, Pcs
  <2>2. CASE Terminate("FailedKnown", worker.conf, "TransportUnreachable")
    BY <1>1, <2>2, TerminateType, ConstantsType
  <2>3. CASE Terminate("FailedKnown", worker.conf, "Preflight")
    BY <1>1, <2>3, TerminateType, ConstantsType
  <2>4. CASE Advance("PreflightOk", PrinterHealthy, "lease")
    BY <1>1, <2>4, AdvanceType, ConstantsType DEF PrinterHealthy, Pcs
  <2> QED BY <2>1, <2>2, <2>3, <2>4 DEF AwaitPreflight
<1> QED BY <1>2, <1>3, RunJobFrame DEF AwaitPreflight, TypeOK

LEMMA LeaseTokensType == TypeOK /\ LeaseTokens => TypeOK'
<1> SUFFICES ASSUME TypeOK, LeaseTokens PROVE TypeOK' OBVIOUS
<1>1. worker.pc # "idle" /\ Cur \in JobId BY AtWorks DEF LeaseTokens, Pcs
<1>2. WorkerOK' BY <1>1, GotoType DEF LeaseTokens, Pcs
<1>3. nextSlot' \in Nat BY DEF LeaseTokens, TypeOK
<1>4. journal' \in [JobId -> Entry]
  <2>1. CASE journal' = journal BY <2>1 DEF TypeOK
  <2>2. CASE journal' = [journal EXCEPT ![Cur].tok = nextSlot + 1]
    <3>1. journal[Cur] \in Entry /\ nextSlot + 1 \in Nat BY <1>1 DEF TypeOK
    <3>2. [journal[Cur] EXCEPT !.tok = nextSlot + 1] \in Entry BY <3>1 DEF Entry
    <3>3. journal' = [journal EXCEPT ![Cur] = [journal[Cur] EXCEPT !.tok = nextSlot + 1]]
      BY <2>2, <1>1 DEF TypeOK
    <3> QED BY <3>2, <3>3 DEF TypeOK
  <2> QED BY <2>1, <2>2 DEF LeaseTokens
<1> QED BY <1>2, <1>3, <1>4, RunJobFrame DEF LeaseTokens, TypeOK

LEMMA StartSendType == TypeOK /\ StartSend => TypeOK'
<1> SUFFICES ASSUME TypeOK, StartSend PROVE TypeOK' OBVIOUS
<1>1. worker.pc # "idle" /\ worker.conf \in 0..4 BY AtWorks DEF StartSend, Pcs
<1>2. journal' \in [JobId -> Entry] /\ WorkerOK'
  BY <1>1, AdvanceType, ConstantsType DEF StartSend, Pcs
<1> QED BY <1>2, RunJobFrame DEF StartSend, TypeOK

LEMMA SendPayloadType == TypeOK /\ SendPayload => TypeOK'
<1> SUFFICES ASSUME TypeOK, SendPayload PROVE TypeOK' OBVIOUS
<1>1. worker.pc # "idle" /\ worker.conf \in 0..4 BY AtWorks DEF SendPayload, Pcs
<1>2. toDev' \in Seq(Items) BY <1>1, SendType DEF SendPayload
<1>3. journal' \in [JobId -> Entry] /\ WorkerOK'
  <2>1. CASE Goto("fence") /\ UNCHANGED journal
    BY <1>1, <2>1, GotoType DEF TypeOK, Pcs
  <2>2. CASE Terminate("FailedKnown", worker.conf, "TransportUnreachable")
    BY <1>1, <2>2, TerminateType, ConstantsType
  <2>3. CASE Terminate("Unknown", worker.conf, "Unknown")
    BY <1>1, <2>3, TerminateType, ConstantsType
  <2> QED BY <2>1, <2>2, <2>3 DEF SendPayload
<1> QED BY <1>2, <1>3, RunJobFrame DEF SendPayload, TypeOK

LEMMA ArmType == ASSUME TypeOK, ArmQueued PROVE io' \in Ios
<1>1. io' = io \/ io' = [io EXCEPT !.qExp = @ + 1] BY DEF ArmQueued
<1> QED BY <1>1, IoTypes DEF TypeOK

LEMMA ConsumedType ==
  ASSUME TypeOK, NEW part, Signalled(part), io' = Consumed
  PROVE  io' \in Ios
<1>1. io \in Ios BY DEF TypeOK
<1>2. CASE Completion = "GsParenH" BY <1>1, <1>2 DEF Consumed
<1>3. CASE Completion # "GsParenH"
  <2>1. io.qAns > 0 BY <1>3 DEF Signalled
  <2>2. io.qAns - 1 \in Nat BY <1>1, <2>1 DEF Ios
  <2> QED BY <1>1, <1>3, <2>2 DEF Consumed, Ios
<1> QED BY <1>2, <1>3

LEMMA SendFenceType == TypeOK /\ SendFence => TypeOK'
<1> SUFFICES ASSUME TypeOK, SendFence PROVE TypeOK' OBVIOUS
<1>1. worker.pc # "idle" /\ worker.conf \in 0..4 BY AtWorks DEF SendFence, Pcs
<1>2. toDev' \in Seq(Items)
  <2>1. CASE toDev' = toDev BY <2>1 DEF TypeOK
  <2>2. CASE Sent("fence") BY <1>1, <2>2, SendType
  <2>3. CASE Sent("cut") BY <1>1, <2>3, SendType
  <2> QED BY <2>1, <2>2, <2>3 DEF SendFence, SentNothing
<1>3. io' \in Ios BY ArmType DEF SendFence
<1>4. journal' \in [JobId -> Entry] /\ WorkerOK'
  <2>1. CASE Goto("sent") /\ UNCHANGED journal
    BY <1>1, <2>1, GotoType DEF TypeOK, Pcs
  <2>2. CASE Terminate("Unknown", worker.conf, "Unknown")
    BY <1>1, <2>2, TerminateType, ConstantsType
  <2> QED BY <2>1, <2>2 DEF SendFence
<1> QED BY <1>2, <1>3, <1>4, RunJobFrame DEF SendFence, TypeOK

LEMMA BytesSentType == TypeOK /\ BytesSent => TypeOK'
<1> SUFFICES ASSUME TypeOK, BytesSent PROVE TypeOK' OBVIOUS
<1>1. worker.pc # "idle" /\ worker.conf \in 0..4 BY AtWorks DEF BytesSent, Pcs
<1>2. PICK pc \in Pcs : Advance("BytesSent", worker.conf, pc) BY DEF BytesSent, Pcs
<1>3. journal' \in [JobId -> Entry] /\ WorkerOK'
  BY <1>1, <1>2, AdvanceType, ConstantsType
<1> QED BY <1>3, RunJobFrame DEF BytesSent, TypeOK

LEMMA AwaitPrintType == TypeOK /\ AwaitPrint => TypeOK'
<1> SUFFICES ASSUME TypeOK, AwaitPrint PROVE TypeOK' OBVIOUS
<1>1. worker.pc # "idle" /\ worker.conf \in 0..4 BY AtWorks DEF AwaitPrint, Pcs
<1>2. io' \in Ios
  <2>1. io' = io \/ (Signalled("fence") /\ io' = Consumed) BY DEF AwaitPrint
  <2> QED BY <2>1, ConsumedType DEF TypeOK
<1>3. journal' \in [JobId -> Entry] /\ WorkerOK'
  <2>1. CASE \E pc \in Pcs : Advance("PrintConfirmed", PrintConfirmed, pc)
    BY <1>1, <2>1, AdvanceType, ConstantsType DEF PrintConfirmed
  <2>2. CASE \E r \in Reasons : Terminate("Unknown", worker.conf, r)
    BY <1>1, <2>2, TerminateType, ConstantsType
  <2> QED BY <2>1, <2>2 DEF AwaitPrint, SilenceReason, Reasons, Pcs
<1> QED BY <1>2, <1>3, RunJobFrame DEF AwaitPrint, TypeOK

LEMMA SendCutType == TypeOK /\ SendCut => TypeOK'
<1> SUFFICES ASSUME TypeOK, SendCut PROVE TypeOK' OBVIOUS
<1>1. worker.pc # "idle" /\ worker.conf \in 0..4 BY AtWorks DEF SendCut, Pcs
<1>2. toDev' \in Seq(Items) BY <1>1, SendType DEF SendCut
<1>3. io' \in Ios BY ArmType DEF SendCut
<1>4. journal' \in [JobId -> Entry] /\ WorkerOK'
  <2>1. CASE Goto("awaitCut") /\ UNCHANGED journal
    BY <1>1, <2>1, GotoType DEF TypeOK, Pcs
  <2>2. CASE Terminate("Unknown", worker.conf, "Unknown")
    BY <1>1, <2>2, TerminateType, ConstantsType
  <2> QED BY <2>1, <2>2 DEF SendCut
<1> QED BY <1>2, <1>3, <1>4, RunJobFrame DEF SendCut, TypeOK

LEMMA AwaitCutType == TypeOK /\ AwaitCut => TypeOK'
<1> SUFFICES ASSUME TypeOK, AwaitCut PROVE TypeOK' OBVIOUS
<1>1. worker.pc # "idle" /\ worker.conf \in 0..4 BY AtWorks DEF AwaitCut, Pcs
<1>2. io' \in Ios
  <2>1. io' = io \/ (Signalled("cut") /\ io' = Consumed) BY DEF AwaitCut
  <2> QED BY <2>1, ConsumedType DEF TypeOK
<1>3. journal' \in [JobId -> Entry] /\ WorkerOK'
  <2>1. CASE \E pc \in Pcs : Advance("CutCommandProcessed", CutProcessed, pc)
    BY <1>1, <2>1, AdvanceType, ConstantsType DEF CutProcessed
  <2>2. CASE \E r \in Reasons : Terminate("Unknown", worker.conf, r)
    BY <1>1, <2>2, TerminateType, ConstantsType
  <2> QED BY <2>1, <2>2 DEF AwaitCut, SilenceReason, Reasons, Pcs
<1> QED BY <1>2, <1>3, RunJobFrame DEF AwaitCut, TypeOK

LEMMA QueryCutterType == TypeOK /\ QueryCutter => TypeOK'
<1> SUFFICES ASSUME TypeOK, QueryCutter PROVE TypeOK' OBVIOUS
<1>1. worker.pc # "idle" BY AtWorks DEF QueryCutter, Pcs
<1>2. toDev' \in Seq(Items) BY <1>1, SendType DEF QueryCutter
<1>3. io' \in Ios BY IoTypes DEF QueryCutter
<1>4. WorkerOK'
  <2>1. Goto("statusWait") \/ Goto("finished") BY DEF QueryCutter
  <2> QED BY <1>1, <2>1, GotoType DEF Pcs
<1> QED BY <1>2, <1>3, <1>4, RunJobFrame DEF QueryCutter, TypeOK

LEMMA AwaitCutterType == TypeOK /\ AwaitCutter => TypeOK'
<1> SUFFICES ASSUME TypeOK, AwaitCutter PROVE TypeOK' OBVIOUS
<1>1. worker.pc # "idle" /\ worker.conf \in 0..4 BY AtWorks DEF AwaitCutter, Pcs
<1>2. io.rtAns \in {"none", "ok", "bad"} BY DEF TypeOK, Ios
<1>3. \E s \in States, c \in 0..4, r \in Reasons : Terminate(s, c, r)
  <2>1. CASE Terminate("FailedKnown", worker.conf, "CutterFault")
    BY <1>1, <2>1, ConstantsType
  <2>2. CASE Terminate("DoneSoftware", CutFaultFree, "None")
    BY <2>2, ConstantsType DEF CutFaultFree
  <2>3. CASE Terminate("DoneSoftware", worker.conf, "None")
    BY <1>1, <2>3, ConstantsType
  <2> QED BY <1>2, <2>1, <2>2, <2>3 DEF AwaitCutter
<1>4. journal' \in [JobId -> Entry] /\ WorkerOK' BY <1>1, <1>3, TerminateType
<1> QED BY <1>4, RunJobFrame DEF AwaitCutter, TypeOK

LEMMA CompleteType == TypeOK /\ Complete => TypeOK'
<1> SUFFICES ASSUME TypeOK, Complete PROVE TypeOK' OBVIOUS
<1>1. worker.pc # "idle" /\ worker.conf \in 0..4 BY AtWorks DEF Complete, Pcs
<1>2. PICK c \in 0..4 : Terminate("DoneSoftware", c, "None")
  BY <1>1 DEF Complete, TransportAccepted
<1>3. journal' \in [JobId -> Entry] /\ WorkerOK'
  BY <1>1, <1>2, TerminateType, ConstantsType
<1> QED BY <1>3, RunJobFrame DEF Complete, TypeOK

-----------------------------------------------------------------------------
(* The steps around runJob.                                                *)

LEMMA PublishType == TypeOK /\ Publish => TypeOK'
<1> SUFFICES ASSUME TypeOK, Publish PROVE TypeOK' OBVIOUS
<1>1. pub' \in [JobId -> States]
  <2>1. \A j \in JobId : journal[j].state \in States BY DEF TypeOK, Entry
  <2> QED BY <2>1 DEF Publish, TypeOK
<1>2. WorkerOK' BY DEF Publish, WorkerOK, TypeOK, Threads, NoPend
<1> QED BY <1>1, <1>2 DEF Publish, TypeOK, WorkerOK

LEMMA IdleOK == Idle \in Threads /\ Idle.pc = "idle" /\ Idle.cur = 0
  BY BoundsAssumption DEF Idle, Threads, Pcs, NoJob, NoPend

LEMMA FinishType == TypeOK /\ Finish => TypeOK'
<1> SUFFICES ASSUME TypeOK, Finish PROVE TypeOK' OBVIOUS
<1>1. done' \in [JobId -> BOOLEAN] BY DEF Finish, TypeOK
<1>2. WorkerOK' BY IdleOK DEF Finish, WorkerOK
<1> QED BY <1>1, <1>2 DEF Finish, TypeOK, WorkerOK

LEMMA TakeType == TypeOK /\ Take => TypeOK'
<1> SUFFICES ASSUME TypeOK, Take PROVE TypeOK' OBVIOUS
<1>1. Head(tasks) \in JobId /\ tasks' \in Seq(JobId)
  BY HeadTailProperties DEF Take, TypeOK
<1> DEFINE h == Head(tasks)
<1>2. worker' = [Idle EXCEPT !.pc = "connect", !.cur = h] BY DEF Take
<1>3. h \in JobId /\ h \in 0..MaxJobs BY <1>1, BoundsAssumption DEF JobId
<1> HIDE DEF h
<1>4. worker' = [pc |-> "connect", cur |-> h, conf |-> 0, pend |-> NoPend]
  BY <1>2 DEF Idle
<1>5. WorkerOK' BY <1>3, <1>4 DEF WorkerOK, Threads, Pcs
<1> QED BY <1>1, <1>5 DEF Take, TypeOK, WorkerOK

LEMMA CancelledType ==
  ASSUME NEW r \in Entry
  PROVE  [r EXCEPT !.state = "FailedKnown", !.conf = 0, !.reason = "Unknown"] \in Entry
<1>1. "FailedKnown" \in States /\ "Unknown" \in Reasons /\ 0 \in 0..4 BY ConstantsType
<1> QED BY <1>1 DEF Entry

LEMMA CancelLeftoverType == TypeOK /\ CancelLeftover => TypeOK'
<1> SUFFICES ASSUME TypeOK, CancelLeftover PROVE TypeOK' OBVIOUS
<1> DEFINE j == Head(tasks)
<1>1. j \in JobId /\ tasks' \in Seq(JobId)
  BY HeadTailProperties DEF CancelLeftover, TypeOK
<1>2. journal' \in [JobId -> Entry]
  <2>1. [journal[j] EXCEPT !.state = "FailedKnown", !.conf = 0, !.reason = "Unknown"] \in Entry
    BY <1>1, CancelledType DEF TypeOK
  <2>2. journal' = [journal EXCEPT ![j] =
           [journal[j] EXCEPT !.state = "FailedKnown", !.conf = 0, !.reason = "Unknown"]]
    BY <1>1 DEF CancelLeftover, TypeOK
  <2> QED BY <2>1, <2>2 DEF TypeOK
<1>3. pub' \in [JobId -> States] BY ConstantsType DEF CancelLeftover, TypeOK
<1>4. done' \in [JobId -> BOOLEAN] BY DEF CancelLeftover, TypeOK
<1> QED BY <1>1, <1>2, <1>3, <1>4 DEF CancelLeftover, TypeOK

(* What a dead connection leaves under way is still a sequence of items.   *)
LEMMA OrphanedType == ASSUME NEW q \in Seq(Items) PROVE Orphaned(q) \in Seq(Items)
<1> DEFINE o(i) == [q[i] EXCEPT !.live = @ /\ ~SessionBound]
<1>1. Len(q) \in Nat BY LenProperties
<1>2. ASSUME NEW i \in 1..Len(q) PROVE o(i) \in Items
  <2>1. q[i] \in Items BY ElementOfSeq
  <2>2. (q[i].live /\ ~SessionBound) \in BOOLEAN OBVIOUS
  <2> QED BY <2>1, <2>2 DEF Items
<1> HIDE DEF o
<1>3. [i \in 1..Len(q) |-> o(i)] \in [1..Len(q) -> Items] BY <1>2
<1>4. [i \in 1..Len(q) |-> o(i)] \in Seq(Items) BY <1>1, <1>3, SeqDef
<1> QED BY <1>4 DEF Orphaned, o

LEMMA TornType == ASSUME NEW item \in Items PROVE Torn(item) \in Items
BY DEF Torn, Items

LEMMA PrefixType ==
  ASSUME NEW S, NEW q \in Seq(S), NEW n \in 0..Len(q)
  PROVE  SubSeq(q, 1, n) \in Seq(S)
<1>1. \A i \in 1..n : q[i] \in S BY ElementOfSeq, LenProperties
<1> QED BY <1>1, SubSeqProperties

LEMMA CutoffsType ==
  ASSUME NEW q \in Seq(Items), NEW c \in Cutoffs(q) PROVE c \in Seq(Items)
<1>1. ASSUME NEW n \in 0..Len(q) PROVE SubSeq(q, 1, n) \in Seq(Items) BY PrefixType
<1>2. ASSUME NEW n \in 1..Len(q)
      PROVE  Append(SubSeq(q, 1, n - 1), Torn(q[n])) \in Seq(Items)
  <2>1. n - 1 \in 0..Len(q) BY LenProperties
  <2>2. Torn(q[n]) \in Items BY TornType, ElementOfSeq
  <2> QED BY <2>1, <2>2, <1>1, AppendProperties
<1> QED BY <1>1, <1>2 DEF Cutoffs

LEMMA CloseTransportType == TypeOK /\ CloseTransport => TypeOK'
<1> SUFFICES ASSUME TypeOK, CloseTransport PROVE TypeOK' OBVIOUS
<1>1. toDev' \in Seq(Items) BY OrphanedType DEF CloseTransport, TypeOK
<1>2. fromDev' \in Seq(Answers) BY DEF CloseTransport
<1>3. link' \in [up : BOOLEAN, down : BOOLEAN] BY DEF CloseTransport, TypeOK
<1> QED BY <1>1, <1>2, <1>3 DEF CloseTransport, TypeOK

-----------------------------------------------------------------------------
(* The environment.                                                        *)

LEMMA ReceiveType == TypeOK /\ Receive => TypeOK'
<1> SUFFICES ASSUME TypeOK, Receive PROVE TypeOK' OBVIOUS
<1> DEFINE a == Head(fromDev)
<1>1. a \in Answers /\ fromDev' \in Seq(Answers)
  BY HeadTailProperties DEF Receive, TypeOK
<1>2. io \in Ios BY DEF TypeOK
<1>3. io' \in Ios
  <2>1. CASE a.k = "echo"
    <3>1. a.t \in Tokens BY <1>1, <2>1 DEF Answers
    <3>2. io' = [io EXCEPT !.echoes = @ \cup {a.t}] BY <2>1 DEF Receive
    <3> HIDE DEF a
    <3> QED BY <1>2, <3>1, <3>2 DEF Ios
  <2>2. CASE a.k = "realtime" /\ io.rtExp
    <3>1. PICK w \in {"ok", "bad"} : io' = [io EXCEPT !.rtExp = FALSE, !.rtAns = w]
      BY <2>2 DEF Receive
    <3> QED BY <1>2, <3>1 DEF Ios
  <2>3. CASE a.k # "echo" /\ ~(a.k = "realtime" /\ io.rtExp) /\ io.qExp > 0
    <3>1. io' = [io EXCEPT !.qExp = @ - 1, !.qAns = @ + 1] BY <2>3 DEF Receive
    <3>2. io.qExp - 1 \in Nat /\ io.qAns + 1 \in Nat BY <1>2, <2>3 DEF Ios
    <3> DEFINE exp == io.qExp - 1
               ans == io.qAns + 1
    <3>3. exp \in Nat /\ ans \in Nat /\ io' = [io EXCEPT !.qExp = exp, !.qAns = ans]
      BY <3>1, <3>2
    <3> HIDE DEF exp, ans
    <3> QED BY <1>2, <3>3 DEF Ios
  <2>4. CASE a.k # "echo" /\ ~(a.k = "realtime" /\ io.rtExp) /\ ~(io.qExp > 0)
    BY <1>2, <2>4 DEF Receive
  <2> QED BY <2>1, <2>2, <2>3, <2>4
<1> QED BY <1>1, <1>3 DEF Receive, TypeOK

LEMMA AnsweredType ==
  ASSUME TypeOK, NEW item, NEW answers \in Seq(Answers), Answered(item, answers)
  PROVE  fromDev' \in Seq(Answers)
<1>1. fromDev \in Seq(Answers) BY DEF TypeOK
<1>2. fromDev \o answers \in Seq(Answers) BY <1>1, ConcatProperties
<1> QED BY <1>1, <1>2 DEF Answered

LEMMA FenceAnswerType ==
  ASSUME TypeOK, NEW item \in Items, item.k \in {"fence", "cut"}
  PROVE  FenceAnswer(item) \in Seq(Answers)
<1>1. CASE Completion = "GsParenH"
  <2> DEFINE echo == [k |-> "echo", t |-> <<journal[item.j].tok, item.k>>]
  <2>1. item.j \in JobId BY DEF Items
  <2>2. journal[item.j].tok \in Nat BY <2>1 DEF TypeOK, Entry
  <2>3. echo \in Answers BY <2>2 DEF Answers, Tokens
  <2> HIDE DEF echo
  <2>4. <<echo>> \in Seq(Answers) BY <2>3
  <2> QED BY <1>1, <2>4 DEF FenceAnswer, echo
<1>2. CASE Completion = "GsR1"
  <2>1. [k |-> "queued"] \in Answers BY DEF Answers
  <2> QED BY <1>2, <2>1 DEF FenceAnswer
<1>3. CASE Completion = "None" BY <1>3 DEF FenceAnswer
<1> QED BY <1>1, <1>2, <1>3, CompletionAssumption

LEMMA PrinterPrintsType == TypeOK /\ PrinterPrints => TypeOK'
<1> SUFFICES ASSUME TypeOK, PrinterPrints PROVE TypeOK' OBVIOUS
<1> DEFINE item == Head(toDev)
<1>1. item \in Items /\ toDev' \in Seq(Items)
  BY HeadTailProperties DEF PrinterPrints, TypeOK
<1>2. paper' \in [JobId -> {"none", "part", "full"}] BY DEF PrinterPrints, TypeOK
<1>3. fromDev' \in Seq(Answers)
  <2>1. CASE UNCHANGED fromDev BY <2>1 DEF TypeOK
  <2>2. CASE item.k \in {"fence", "cut"} /\ Answered(item, FenceAnswer(item))
    BY <1>1, <2>2, FenceAnswerType, AnsweredType
  <2> QED BY <2>1, <2>2 DEF PrinterPrints
<1> QED BY <1>1, <1>2, <1>3 DEF PrinterPrints, TypeOK

LEMMA PrinterAnswersQueryType == TypeOK /\ PrinterAnswersQuery => TypeOK'
<1> SUFFICES ASSUME TypeOK, PrinterAnswersQuery PROVE TypeOK' OBVIOUS
<1>1. toDev \in Seq(Items) BY DEF TypeOK
<1>2. PICK i \in DOMAIN toDev :
        /\ \/ \E bad \in BOOLEAN : Answered(toDev[i], <<[k |-> "realtime", bad |-> bad]>>)
           \/ UNCHANGED fromDev
        /\ toDev' = SubSeq(toDev, 1, i - 1) \o SubSeq(toDev, i + 1, Len(toDev))
  BY DEF PrinterAnswersQuery
<1>3. i \in 1..Len(toDev) /\ Len(toDev) \in Nat BY <1>1, LenProperties
<1>4. toDev' \in Seq(Items)
  <2>1. SubSeq(toDev, 1, i - 1) \in Seq(Items)
    BY <1>1, <1>3, PrefixType
  <2>2. SubSeq(toDev, i + 1, Len(toDev)) \in Seq(Items)
    <3>1. \A h \in (i + 1)..Len(toDev) : toDev[h] \in Items
      BY <1>1, <1>3, ElementOfSeq
    <3> QED BY <1>3, <3>1, SubSeqProperties
  <2> QED BY <1>2, <2>1, <2>2, ConcatProperties
<1>5. fromDev' \in Seq(Answers)
  <2>1. CASE UNCHANGED fromDev BY <2>1 DEF TypeOK
  <2>2. ASSUME NEW bad \in BOOLEAN, Answered(toDev[i], <<[k |-> "realtime", bad |-> bad]>>)
        PROVE  fromDev' \in Seq(Answers)
    <3>1. [k |-> "realtime", bad |-> bad] \in Answers BY DEF Answers
    <3>2. <<[k |-> "realtime", bad |-> bad]>> \in Seq(Answers) BY <3>1
    <3> QED BY <2>2, <3>2, AnsweredType
  <2> QED BY <1>2, <2>1, <2>2
<1> QED BY <1>4, <1>5 DEF PrinterAnswersQuery, TypeOK

LEMMA LinkDropsType == TypeOK /\ LinkDrops => TypeOK'
<1> SUFFICES ASSUME TypeOK, LinkDrops PROVE TypeOK' OBVIOUS
<1>1. toDev' \in Seq(Items)
  BY CutoffsType, OrphanedType DEF LinkDrops, TypeOK
<1>2. fromDev' \in Seq(Answers) BY DEF LinkDrops
<1>3. link' \in [up : BOOLEAN, down : BOOLEAN] BY DEF LinkDrops
<1>4. spent' \in [restarts : 0..MaxRestarts, drops : 0..MaxDrops]
  <2> DEFINE n == spent.drops + 1
  <2>1. spent \in [restarts : 0..MaxRestarts, drops : 0..MaxDrops] BY DEF TypeOK
  <2>2. n \in 0..MaxDrops BY <2>1, BoundsAssumption DEF LinkDrops
  <2>3. spent' = [spent EXCEPT !.drops = n] BY DEF LinkDrops
  <2> HIDE DEF n
  <2> QED BY <2>1, <2>2, <2>3
<1> QED BY <1>1, <1>2, <1>3, <1>4 DEF LinkDrops, TypeOK

LEMMA RecoveredType == ASSUME NEW r \in Entry PROVE Recovered(r) \in Entry
<1>1. [r EXCEPT !.state = "Unknown", !.reason = "Unknown"] \in Entry
  BY ConstantsType DEF Entry
<1>2. [r EXCEPT !.state = "FailedKnown", !.reason = "Unknown"] \in Entry
  BY ConstantsType DEF Entry
<1> QED BY <1>1, <1>2 DEF Recovered

LEMMA RestartType == TypeOK /\ Restart => TypeOK'
<1> SUFFICES ASSUME TypeOK, Restart PROVE TypeOK' OBVIOUS
<1>1. \A j \in JobId : Recovered(journal[j]) \in Entry BY RecoveredType DEF TypeOK
<1>2. journal' \in [JobId -> Entry] BY <1>1 DEF Restart
<1>3. pub' \in [JobId -> States]
  <2>1. \A j \in JobId : Recovered(journal[j]).state \in States BY <1>1 DEF Entry
  <2> QED BY <2>1 DEF Restart
<1>4. done' \in [JobId -> BOOLEAN] BY DEF Restart
<1>5. WorkerOK' /\ io' \in Ios BY IdleOK, IoTypes DEF Restart, WorkerOK
<1>6. toDev' \in Seq(Items)
  <2>1. ASSUME NEW sent \in InFlightAtDeath PROVE sent \in Seq(Items)
    <3>1. CASE sent = toDev BY <3>1 DEF TypeOK
    <3>2. CASE At("payload") /\ sent = Append(toDev, [k |-> "partial", j |-> Cur, live |-> TRUE])
      <4>1. Cur \in JobId BY <3>2, AtWorks DEF Pcs
      <4>2. [k |-> "partial", j |-> Cur, live |-> TRUE] \in Items BY <4>1 DEF Items
      <4> QED BY <3>2, <4>2, AppendProperties DEF TypeOK
    <3> QED BY <3>1, <3>2 DEF InFlightAtDeath
  <2> QED BY <2>1, CutoffsType, OrphanedType DEF Restart
<1>7. spent' \in [restarts : 0..MaxRestarts, drops : 0..MaxDrops]
  <2> DEFINE n == spent.restarts + 1
  <2>1. spent \in [restarts : 0..MaxRestarts, drops : 0..MaxDrops] BY DEF TypeOK
  <2>2. n \in 0..MaxRestarts BY <2>1, BoundsAssumption DEF Restart
  <2>3. spent' = [spent EXCEPT !.restarts = n] BY DEF Restart
  <2> HIDE DEF n
  <2> QED BY <2>1, <2>2, <2>3
<1>8. fromDev' \in Seq(Answers) /\ tasks' \in Seq(JobId) BY DEF Restart
<1>9. /\ nextSlot' \in Nat /\ link' \in [up : BOOLEAN, down : BOOLEAN]
      /\ stopping' \in BOOLEAN /\ held' \in SUBSET Keys
  BY DEF Restart
<1>10. UNCHANGED <<jobs, byKey, paper>> BY DEF Restart
<1> QED BY <1>2, <1>3, <1>4, <1>5, <1>6, <1>7, <1>8, <1>9, <1>10 DEF TypeOK, WorkerOK

-----------------------------------------------------------------------------
LEMMA StepType == TypeOK /\ [Next]_vars => TypeOK'
<1> SUFFICES ASSUME TypeOK, [Next]_vars PROVE TypeOK' OBVIOUS
<1>1. CASE Client BY <1>1, ClientType
<1>2. CASE RunJob
  BY <1>2, ConnectType, BeginJobIoType, SendPreflightType, AwaitPreflightType,
     LeaseTokensType, StartSendType, SendPayloadType, SendFenceType, BytesSentType,
     AwaitPrintType, SendCutType, AwaitCutType, QueryCutterType, AwaitCutterType,
     CompleteType
     DEF RunJob
<1>3. CASE Worker
  BY <1>2, <1>3, PublishType, FinishType, TakeType, CancelLeftoverType, CloseTransportType
     DEF Worker
<1>4. CASE Environment
  BY <1>4, ReceiveType, PrinterPrintsType, PrinterAnswersQueryType, LinkDropsType,
     RestartType
     DEF Environment
<1>5. CASE UNCHANGED vars BY <1>5 DEF vars, TypeOK
<1> QED BY <1>1, <1>3, <1>4, <1>5 DEF Next

(* Every variable keeps its type, whatever the clients, the printer, the   *)
(* link and the operating system do.                                       *)
THEOREM TypeCorrect == Spec => []TypeOK
BY InitType, StepType, PTL DEF Spec

-----------------------------------------------------------------------------
(* What is on paper, what is journalled and what was told.                 *)

(* The records of a job whose receipt may be on paper.                     *)
InkAllowed(r) ==
  \/ r.state \in MidSend \cup {"DoneSoftware", "Unknown"}
  \/ r.state = "FailedKnown" /\ r.reason = "CutterFault"

(* What ForwardOnly says of one step.                                      *)
Forward ==
  \A j \in JobId :
    /\ Progress(journal[j].state) <= Progress(journal'[j].state)
    /\ journal[j].state \in Terminals => journal'[j] = journal[j]

Safe == DurableBeforeWire /\ FailedKnownPrintedNothing /\ PublishedIsDurable
IInv == TypeOK /\ InStep /\ Safe

-----------------------------------------------------------------------------
(* Facts about states, ink and the wire.                                   *)

LEMMA InkNeedsARecord ==
  ASSUME TypeOK, DurableBeforeWire, FailedKnownPrintedNothing,
         NEW j \in JobId, MayHaveInk(j)
  PROVE  InkAllowed(journal[j])
<1>1. journal[j].state \in States BY DEF TypeOK, Entry
<1> QED BY <1>1 DEF DurableBeforeWire, FailedKnownPrintedNothing, InkAllowed, States, Terminals

LEMMA TerminalIsLast ==
  \A s \in States : /\ Progress(s) \in 0..7
                    /\ s \in Terminals <=> Progress(s) = 7
                    /\ s = "Absent" <=> Progress(s) = 0
BY DEF Progress, States, BeforeSend, MidSend, Terminals

LEMMA SendInk ==
  ASSUME TypeOK, worker.pc # "idle", UNCHANGED paper,
         NEW kind \in {"query", "fence", "cut"}, Sent(kind) \/ SentNothing,
         NEW j \in JobId, MayHaveInk(j)'
  PROVE  MayHaveInk(j)
<1>1. CASE UNCHANGED toDev BY <1>1 DEF MayHaveInk, OnTheWire
<1>2. CASE Sent(kind)
  <2> DEFINE item == [k |-> kind, j |-> Cur, live |-> TRUE]
  <2>1. item \in Items /\ item.k \notin {"payload", "partial"}
    BY DEF TypeOK, Items, Cur
  <2>2. toDev \in Seq(Items) /\ toDev' = Append(toDev, item) BY <1>2 DEF TypeOK, Sent
  <2> HIDE DEF item
  <2>3. toDev' \in Seq(Items) /\ Len(toDev') = Len(toDev) + 1 /\ Len(toDev) \in Nat
        /\ (\A i \in 1..Len(toDev) : toDev'[i] = toDev[i])
        /\ toDev'[Len(toDev) + 1] = item
    BY <2>1, <2>2, AppendProperties, LenProperties
  <2>4. DOMAIN toDev = 1..Len(toDev) /\ DOMAIN toDev' = 1..(Len(toDev) + 1)
    BY <2>2, <2>3, LenProperties
  <2> QED BY <2>1, <2>3, <2>4 DEF MayHaveInk, OnTheWire
<1> QED BY <1>1, <1>2 DEF SentNothing

LEMMA PayloadInk ==
  ASSUME TypeOK, worker.pc # "idle", UNCHANGED paper,
         NEW kind \in {"payload", "partial"},
         toDev' = Append(toDev, [k |-> kind, j |-> Cur, live |-> TRUE]),
         NEW j \in JobId, j # Cur, MayHaveInk(j)'
  PROVE  MayHaveInk(j)
<1> DEFINE item == [k |-> kind, j |-> Cur, live |-> TRUE]
<1>1. item \in Items /\ item.j = Cur BY DEF TypeOK, Items, Cur
<1>2. toDev \in Seq(Items) /\ toDev' = Append(toDev, item) BY DEF TypeOK
<1> HIDE DEF item
<1>3. toDev' \in Seq(Items) /\ Len(toDev') = Len(toDev) + 1 /\ Len(toDev) \in Nat
      /\ (\A i \in 1..Len(toDev) : toDev'[i] = toDev[i])
      /\ toDev'[Len(toDev) + 1] = item
  BY <1>1, <1>2, AppendProperties, LenProperties
<1>4. DOMAIN toDev = 1..Len(toDev) /\ DOMAIN toDev' = 1..(Len(toDev) + 1)
  BY <1>2, <1>3, LenProperties
<1> QED BY <1>1, <1>3, <1>4 DEF MayHaveInk, OnTheWire

-----------------------------------------------------------------------------
(* A step of runJob on the worker's own job, in general.                   *)
LEMMA JobStep ==
  ASSUME IInv, worker.pc # "idle",
         NEW r \in Entry, NEW pc \in Pcs \ {"idle"},
         journal' = [journal EXCEPT ![Cur] = r],
         worker'.pc = pc, worker'.cur = Cur, worker'.pend \in {NoPend, "publish"},
         OnSchedule(pc, r.state),
         journal[Cur].state \notin Terminals,
         Progress(journal[Cur].state) <= Progress(r.state),
         UNCHANGED <<jobs, tasks, pub, done>>,
         \A j \in JobId : MayHaveInk(j)' => IF j = Cur THEN InkAllowed(r) ELSE MayHaveInk(j),
         pc = "payload" => ~MayHaveInk(Cur)'
  PROVE  InStep' /\ Safe' /\ Forward
<1>1. Cur \in JobId /\ Cur \in 1..Len(jobs) /\ Len(jobs) \in Nat
  BY LenProperties DEF IInv, InStep, WorkerOnSchedule, TypeOK, Cur
<1>2. /\ journal'[Cur] = r
      /\ \A j \in JobId \ {Cur} : journal'[j] = journal[j]
  BY <1>1 DEF IInv, TypeOK
<1>3. QueueUntouched'
  <2>1. \A i \in 1..Len(tasks) : tasks[i] \in JobId BY ElementOfSeq DEF IInv, TypeOK
  <2> QED BY <1>1, <1>2, <2>1 DEF IInv, InStep, QueueUntouched, Cur
<1>4. WorkerOnSchedule'
  <2>1. OnSchedule(worker.pc, journal[worker.cur].state)'
    BY <1>1, <1>2 DEF OnSchedule, Cur
  <2>2. worker'.pc = "payload" => ~MayHaveInk(worker.cur)'
    BY DEF MayHaveInk, OnTheWire, Cur
  <2> QED BY <1>1, <2>1, <2>2 DEF WorkerOnSchedule, NoPend, Cur
<1>5. OneRecordEach'
  <2>1. journal[Cur].state \in States /\ journal[Cur].state # "Absent"
    BY <1>1 DEF IInv, TypeOK, Entry, InStep, OneRecordEach
  <2>2. r.state \in States /\ r.state # "Absent" BY <2>1, TerminalIsLast DEF Entry
  <2> QED BY <1>1, <1>2, <2>2 DEF IInv, InStep, OneRecordEach
<1>6. DurableBeforeWire' /\ FailedKnownPrintedNothing'
  <2>1. ASSUME NEW j \in JobId, MayHaveInk(j)' PROVE InkAllowed(journal'[j])
    BY <1>2, <2>1, InkNeedsARecord DEF IInv, Safe
  <2>2. \A j \in JobId : InkAllowed(journal'[j]) =>
           /\ journal'[j].state \notin {"Absent"} \cup BeforeSend
           /\ ~(journal'[j].state = "FailedKnown" /\ journal'[j].reason # "CutterFault")
    BY DEF InkAllowed, MidSend, BeforeSend
  <2> QED BY <2>1, <2>2 DEF DurableBeforeWire, FailedKnownPrintedNothing
<1>7. PublishedIsDurable'
  <2> SUFFICES ASSUME NEW j \in JobId
               PROVE  /\ Progress(pub[j]) <= Progress(journal'[j].state)
                      /\ pub[j] \in Terminals => pub[j] = journal'[j].state
                      /\ done[j] => pub[j] \in Terminals
    BY DEF PublishedIsDurable
  <2>1. /\ Progress(pub[j]) <= Progress(journal[j].state)
        /\ pub[j] \in Terminals => pub[j] = journal[j].state
        /\ done[j] => pub[j] \in Terminals
    BY DEF IInv, Safe, PublishedIsDurable
  <2>2. pub[j] \in States /\ journal[j].state \in States /\ r.state \in States
    BY DEF IInv, TypeOK, Entry
  <2>3. Progress(pub[j]) \in 0..7 /\ Progress(journal[j].state) \in 0..7
        /\ Progress(r.state) \in 0..7
    BY <2>2, TerminalIsLast
  <2> QED BY <1>2, <2>1, <2>3
<1>8. Forward
  <2>1. \A j \in JobId : Progress(journal[j].state) \in 0..7
    BY TerminalIsLast DEF IInv, TypeOK, Entry
  <2> QED BY <1>2, <2>1 DEF Forward
<1> QED BY <1>3, <1>4, <1>5, <1>6, <1>7, <1>8 DEF InStep, Safe

LEMMA RecordIs ==
  ASSUME TypeOK, Cur \in JobId, NEW s \in States, NEW c \in 0..4, NEW why \in Reasons,
         Record(s, c, why)
  PROVE  \E r \in Entry : /\ r.state = s /\ r.reason = why
                          /\ journal' = [journal EXCEPT ![Cur] = r]
<1> DEFINE k == Clamp(c)
           r == [journal[Cur] EXCEPT !.state = s, !.conf = k, !.reason = why]
<1>1. k \in 0..4 BY ClampType
<1>2. journal[Cur] \in Entry BY DEF TypeOK
<1>3. journal' = [journal EXCEPT ![Cur].state = s, ![Cur].conf = k, ![Cur].reason = why]
  BY DEF Record
<1> HIDE DEF k
<1>4. r \in Entry /\ r.state = s /\ r.reason = why BY <1>1, <1>2 DEF Entry
<1>5. journal' = [journal EXCEPT ![Cur] = r] BY <1>3 DEF TypeOK
<1> QED BY <1>4, <1>5

LEMMA AtSchedule ==
  ASSUME IInv, NEW pc \in Pcs \ {"idle"}, At(pc)
  PROVE  /\ worker.pc = pc /\ worker.pc # "idle" /\ worker.pend = NoPend
         /\ worker.conf \in 0..4 /\ Cur \in JobId
         /\ OnSchedule(pc, journal[Cur].state)
         /\ journal[Cur].state \in States
         /\ pc = "payload" => ~MayHaveInk(Cur)
<1>1. worker.pc # "idle" /\ Cur \in JobId /\ worker.conf \in 0..4 BY AtWorks DEF IInv
<1>2. journal[Cur].state \in States BY <1>1 DEF IInv, TypeOK, Entry
<1> QED BY <1>1, <1>2 DEF IInv, InStep, WorkerOnSchedule, At, Cur

LEMMA SameInk ==
  ASSUME UNCHANGED <<toDev, paper>>, NEW j \in JobId PROVE MayHaveInk(j)' <=> MayHaveInk(j)
BY DEF MayHaveInk, OnTheWire

(* The three ways a step of runJob can go.                                 *)
LEMMA GotoStep ==
  ASSUME IInv, worker.pc # "idle", worker.pend = NoPend, UNCHANGED journal,
         NEW pc \in Pcs \ {"idle", "payload"}, Goto(pc),
         OnSchedule(pc, journal[Cur].state), journal[Cur].state \notin Terminals,
         UNCHANGED <<jobs, tasks, pub, done>>,
         \A j \in JobId :
           MayHaveInk(j)' => IF j = Cur THEN InkAllowed(journal[Cur]) ELSE MayHaveInk(j)
  PROVE  InStep' /\ Safe' /\ Forward
<1>1. Cur \in JobId /\ worker \in Threads BY DEF IInv, TypeOK, Cur
<1>2. journal[Cur] \in Entry /\ journal' = [journal EXCEPT ![Cur] = journal[Cur]]
  BY <1>1 DEF IInv, TypeOK
<1>3. journal[Cur].state \in States BY <1>2 DEF Entry
<1>4. Progress(journal[Cur].state) <= Progress(journal[Cur].state)
  BY <1>3, TerminalIsLast
<1>5. worker'.pc = pc /\ worker'.cur = Cur /\ worker'.pend \in {NoPend, "publish"}
  BY <1>1 DEF Goto, Threads, Cur
<1> QED BY <1>2, <1>4, <1>5, JobStep

LEMMA AdvanceStep ==
  ASSUME IInv, worker.pc # "idle",
         NEW s \in MidSend \cup {"PreflightOk"}, NEW c \in 0..4, NEW pc \in Pcs \ {"idle"},
         Advance(s, c, pc), OnSchedule(pc, s),
         Progress(journal[Cur].state) < Progress(s),
         MayHaveInk(Cur) => s \in MidSend,
         pc = "payload" => ~MayHaveInk(Cur),
         UNCHANGED <<jobs, tasks, pub, done, toDev, paper>>
  PROVE  InStep' /\ Safe' /\ Forward
<1>1. Cur \in JobId /\ worker \in Threads BY DEF IInv, TypeOK, Cur
<1>2. s \in States /\ "None" \in Reasons /\ journal[Cur].state \in States
  BY <1>1 DEF States, BeforeSend, Reasons, IInv, TypeOK, Entry
<1>3. PICK r \in Entry : /\ r.state = s
                         /\ journal' = [journal EXCEPT ![Cur] = r]
  BY <1>1, <1>2, RecordIs DEF Advance, IInv
<1>4. journal[Cur].state \notin Terminals /\ Progress(journal[Cur].state) <= Progress(r.state)
  BY <1>2, <1>3, TerminalIsLast
<1>5. worker'.pc = pc /\ worker'.cur = Cur /\ worker'.pend \in {NoPend, "publish"}
  BY <1>1 DEF Advance, Threads, Cur
<1>6. \A j \in JobId : MayHaveInk(j)' => IF j = Cur THEN InkAllowed(r) ELSE MayHaveInk(j)
  BY <1>3, SameInk DEF InkAllowed
<1>7. pc = "payload" => ~MayHaveInk(Cur)'
  BY <1>5 DEF MayHaveInk, OnTheWire, Cur
<1> QED BY <1>3, <1>4, <1>5, <1>6, <1>7, JobStep

LEMMA TerminateStep ==
  ASSUME IInv, worker.pc # "idle",
         NEW s \in Terminals, NEW c \in 0..4, NEW why \in Reasons, Terminate(s, c, why),
         journal[Cur].state \notin Terminals,
         UNCHANGED <<jobs, tasks, pub, done>>,
         \A j \in JobId :
           MayHaveInk(j)' => IF j = Cur THEN s # "FailedKnown" \/ why = "CutterFault"
                                        ELSE MayHaveInk(j)
  PROVE  InStep' /\ Safe' /\ Forward
<1>1. Cur \in JobId /\ worker \in Threads BY DEF IInv, TypeOK, Cur
<1>2. s \in States /\ journal[Cur].state \in States
  BY <1>1 DEF States, IInv, TypeOK, Entry
<1>3. PICK r \in Entry : /\ r.state = s /\ r.reason = why
                         /\ journal' = [journal EXCEPT ![Cur] = r]
  BY <1>1, <1>2, RecordIs DEF Terminate, IInv
<1>4. Progress(journal[Cur].state) <= Progress(r.state)
  BY <1>2, <1>3, TerminalIsLast
<1>5. worker'.pc = "ended" /\ worker'.cur = Cur /\ worker'.pend \in {NoPend, "publish"}
  BY <1>1 DEF Terminate, Threads, Cur
<1>6. \A j \in JobId : MayHaveInk(j)' => IF j = Cur THEN InkAllowed(r) ELSE MayHaveInk(j)
  BY <1>3 DEF InkAllowed, Terminals
<1>7. OnSchedule("ended", r.state) /\ "ended" \in Pcs \ {"idle"} BY <1>3 DEF OnSchedule, Pcs
<1> QED BY <1>3, <1>4, <1>5, <1>6, <1>7, JobStep

LEMMA ProgressValues ==
  /\ Progress("Absent") = 0 /\ Progress("Queued") = 1 /\ Progress("PreflightOk") = 2
  /\ Progress("SendStarted") = 3 /\ Progress("BytesSent") = 4
  /\ Progress("PrintConfirmed") = 5 /\ Progress("CutCommandProcessed") = 6
BY DEF Progress, Terminals

-----------------------------------------------------------------------------
(* The actions of runJob.                                                  *)

LEMMA ConnectSafe == IInv /\ Connect => InStep' /\ Safe' /\ Forward
<1> SUFFICES ASSUME IInv, Connect PROVE InStep' /\ Safe' /\ Forward OBVIOUS
<1>1. /\ worker.pc # "idle" /\ worker.pend = NoPend /\ worker.conf \in 0..4
      /\ Cur \in JobId /\ journal[Cur].state = "Queued"
  BY AtSchedule DEF Connect, OnSchedule, Pcs
<1>2. ~MayHaveInk(Cur)
  BY <1>1 DEF IInv, Safe, DurableBeforeWire, BeforeSend
<1>3. \A j \in JobId : MayHaveInk(j)' => MayHaveInk(j) /\ j # Cur
  BY <1>2, SameInk DEF Connect
<1>4. journal[Cur].state \notin Terminals BY <1>1 DEF Terminals
<1>5. CASE Goto("begin") /\ UNCHANGED journal
  <2>1. OnSchedule("begin", journal[Cur].state) BY <1>1 DEF OnSchedule
  <2> QED BY <1>1, <1>3, <1>4, <1>5, <2>1, GotoStep DEF Connect, Pcs
<1>6. CASE Terminate("FailedKnown", worker.conf, "TransportUnreachable")
  BY <1>1, <1>3, <1>4, <1>6, TerminateStep DEF Connect, Terminals, Reasons
<1> QED BY <1>5, <1>6 DEF Connect

LEMMA BeginJobIoSafe == IInv /\ BeginJobIo => InStep' /\ Safe' /\ Forward
<1> SUFFICES ASSUME IInv, BeginJobIo PROVE InStep' /\ Safe' /\ Forward OBVIOUS
<1>1. /\ worker.pc # "idle" /\ worker.pend = NoPend
      /\ Cur \in JobId /\ journal[Cur].state = "Queued"
  BY AtSchedule DEF BeginJobIo, OnSchedule, Pcs
<1>2. ~MayHaveInk(Cur)
  BY <1>1 DEF IInv, Safe, DurableBeforeWire, BeforeSend
<1>3. \A j \in JobId : MayHaveInk(j)' => MayHaveInk(j) /\ j # Cur
  BY <1>2, SameInk DEF BeginJobIo
<1>4. journal[Cur].state \notin Terminals BY <1>1 DEF Terminals
<1>5. PICK pc \in {"preflight", "lease"} : Goto(pc) BY DEF BeginJobIo
<1>6. OnSchedule(pc, journal[Cur].state) BY <1>1 DEF OnSchedule, BeforeSend
<1> QED BY <1>1, <1>3, <1>4, <1>5, <1>6, GotoStep DEF BeginJobIo, Pcs

LEMMA SendPreflightSafe == IInv /\ SendPreflight => InStep' /\ Safe' /\ Forward
<1> SUFFICES ASSUME IInv, SendPreflight PROVE InStep' /\ Safe' /\ Forward OBVIOUS
<1>1. /\ worker.pc # "idle" /\ worker.pend = NoPend /\ worker.conf \in 0..4
      /\ Cur \in JobId /\ journal[Cur].state = "Queued"
  BY AtSchedule DEF SendPreflight, OnSchedule, Pcs
<1>2. ~MayHaveInk(Cur)
  BY <1>1 DEF IInv, Safe, DurableBeforeWire, BeforeSend
<1>3. \A j \in JobId : MayHaveInk(j)' => MayHaveInk(j) /\ j # Cur
  BY <1>1, <1>2, SendInk DEF SendPreflight, IInv
<1>4. journal[Cur].state \notin Terminals BY <1>1 DEF Terminals
<1>5. CASE Goto("preWait") /\ UNCHANGED journal
  <2>1. OnSchedule("preWait", journal[Cur].state) BY <1>1 DEF OnSchedule
  <2> QED BY <1>1, <1>3, <1>4, <1>5, <2>1, GotoStep DEF SendPreflight, Pcs
<1>6. CASE Terminate("FailedKnown", worker.conf, "TransportUnreachable")
  BY <1>1, <1>3, <1>4, <1>6, TerminateStep DEF SendPreflight, Terminals, Reasons
<1> QED BY <1>5, <1>6 DEF SendPreflight

LEMMA AwaitPreflightSafe == IInv /\ AwaitPreflight => InStep' /\ Safe' /\ Forward
<1> SUFFICES ASSUME IInv, AwaitPreflight PROVE InStep' /\ Safe' /\ Forward OBVIOUS
<1>1. /\ worker.pc # "idle" /\ worker.pend = NoPend /\ worker.conf \in 0..4
      /\ Cur \in JobId /\ journal[Cur].state = "Queued"
  BY AtSchedule DEF AwaitPreflight, OnSchedule, Pcs
<1>2. ~MayHaveInk(Cur)
  BY <1>1 DEF IInv, Safe, DurableBeforeWire, BeforeSend
<1>3. \A j \in JobId : MayHaveInk(j)' => MayHaveInk(j) /\ j # Cur
  BY <1>2, SameInk DEF AwaitPreflight
<1>4. journal[Cur].state \notin Terminals BY <1>1 DEF Terminals
<1>5. CASE Goto("lease") /\ UNCHANGED journal
  <2>1. OnSchedule("lease", journal[Cur].state) BY <1>1 DEF OnSchedule, BeforeSend
  <2> QED BY <1>1, <1>3, <1>4, <1>5, <2>1, GotoStep DEF AwaitPreflight, Pcs
<1>6. CASE \E why \in Reasons : Terminate("FailedKnown", worker.conf, why)
  BY <1>1, <1>3, <1>4, <1>6, TerminateStep DEF AwaitPreflight, Terminals
<1>7. CASE Advance("PreflightOk", PrinterHealthy, "lease")
  <2>1. OnSchedule("lease", "PreflightOk") BY DEF OnSchedule, BeforeSend
  <2>2. Progress(journal[Cur].state) < Progress("PreflightOk") BY <1>1, ProgressValues
  <2>3. PrinterHealthy \in 0..4 /\ "lease" \in Pcs \ {"idle"} BY DEF PrinterHealthy, Pcs
  <2> QED BY <1>1, <1>2, <1>7, <2>1, <2>2, <2>3, AdvanceStep DEF AwaitPreflight
<1> QED BY <1>5, <1>6, <1>7 DEF AwaitPreflight, Reasons

LEMMA LeaseTokensSafe == IInv /\ LeaseTokens => InStep' /\ Safe' /\ Forward
<1> SUFFICES ASSUME IInv, LeaseTokens PROVE InStep' /\ Safe' /\ Forward OBVIOUS
<1>1. /\ worker.pc # "idle" /\ worker.pend = NoPend
      /\ Cur \in JobId /\ journal[Cur].state \in BeforeSend
  BY AtSchedule DEF LeaseTokens, OnSchedule, Pcs
<1>2. ~MayHaveInk(Cur) BY <1>1 DEF IInv, Safe, DurableBeforeWire
<1>3. \A j \in JobId : MayHaveInk(j)' => MayHaveInk(j) /\ j # Cur
  BY <1>2, SameInk DEF LeaseTokens
<1>4. journal[Cur].state \notin Terminals BY <1>1 DEF BeforeSend, Terminals
<1>5. OnSchedule("start", journal[Cur].state) BY <1>1 DEF OnSchedule
<1>6. CASE UNCHANGED journal
  BY <1>1, <1>3, <1>4, <1>5, <1>6, GotoStep DEF LeaseTokens, Pcs
<1>7. CASE journal' = [journal EXCEPT ![Cur].tok = nextSlot + 1]
  <2> DEFINE slot == nextSlot + 1
             r == [journal[Cur] EXCEPT !.tok = slot]
  <2>1. journal[Cur] \in Entry /\ slot \in Nat BY <1>1 DEF IInv, TypeOK
  <2>2. journal' = [journal EXCEPT ![Cur].tok = slot] BY <1>7
  <2> HIDE DEF slot
  <2>3. r \in Entry /\ r.state = journal[Cur].state BY <2>1 DEF Entry
  <2>4. journal' = [journal EXCEPT ![Cur] = r] BY <2>2 DEF IInv, TypeOK
  <2>5. worker'.pc = "start" /\ worker'.cur = Cur /\ worker'.pend \in {NoPend, "publish"}
    BY <1>1 DEF LeaseTokens, Goto, IInv, TypeOK, Threads, Cur
  <2>6. Progress(journal[Cur].state) <= Progress(r.state)
    BY <2>1, <2>3, TerminalIsLast DEF Entry
  <2> HIDE DEF r
  <2> QED BY <1>1, <1>3, <1>4, <1>5, <2>3, <2>4, <2>5, <2>6, JobStep DEF LeaseTokens, Pcs
<1> QED BY <1>6, <1>7 DEF LeaseTokens

LEMMA StartSendSafe == IInv /\ StartSend => InStep' /\ Safe' /\ Forward
<1> SUFFICES ASSUME IInv, StartSend PROVE InStep' /\ Safe' /\ Forward OBVIOUS
<1>1. /\ worker.pc # "idle" /\ worker.conf \in 0..4
      /\ Cur \in JobId /\ journal[Cur].state \in BeforeSend
  BY AtSchedule DEF StartSend, OnSchedule, Pcs
<1>2. ~MayHaveInk(Cur) BY <1>1 DEF IInv, Safe, DurableBeforeWire
<1>3. Progress(journal[Cur].state) < Progress("SendStarted")
  BY <1>1, ProgressValues DEF BeforeSend
<1>4. OnSchedule("payload", "SendStarted") BY DEF OnSchedule
<1> QED BY <1>1, <1>2, <1>3, <1>4, AdvanceStep DEF StartSend, MidSend, Pcs

LEMMA SendPayloadSafe == IInv /\ SendPayload => InStep' /\ Safe' /\ Forward
<1> SUFFICES ASSUME IInv, SendPayload PROVE InStep' /\ Safe' /\ Forward OBVIOUS
<1>1. /\ worker.pc # "idle" /\ worker.pend = NoPend /\ worker.conf \in 0..4
      /\ Cur \in JobId /\ journal[Cur].state = "SendStarted" /\ ~MayHaveInk(Cur)
  BY AtSchedule DEF SendPayload, OnSchedule, Pcs
<1>2. journal[Cur].state \notin Terminals BY <1>1 DEF Terminals
<1>3. CASE Sent("payload") /\ Goto("fence") /\ UNCHANGED journal
  <2>1. \A j \in JobId : MayHaveInk(j)' => j = Cur \/ MayHaveInk(j)
    BY <1>1, <1>3, PayloadInk DEF SendPayload, Sent, IInv
  <2>2. InkAllowed(journal[Cur]) BY <1>1 DEF InkAllowed, MidSend
  <2>3. OnSchedule("fence", journal[Cur].state) BY <1>1 DEF OnSchedule
  <2> QED BY <1>1, <1>2, <1>3, <2>1, <2>2, <2>3, GotoStep DEF SendPayload, Pcs
<1>4. CASE SentNothing /\ Terminate("FailedKnown", worker.conf, "TransportUnreachable")
  <2>1. \A j \in JobId : MayHaveInk(j)' => MayHaveInk(j) /\ j # Cur
    BY <1>1, <1>4, SameInk DEF SendPayload, SentNothing
  <2> QED BY <1>1, <1>2, <1>4, <2>1, TerminateStep DEF SendPayload, Terminals, Reasons
<1>5. CASE SentPart /\ Terminate("Unknown", worker.conf, "Unknown")
  <2>1. \A j \in JobId : MayHaveInk(j)' => j = Cur \/ MayHaveInk(j)
    BY <1>1, <1>5, PayloadInk DEF SendPayload, SentPart, IInv
  <2> QED BY <1>1, <1>2, <1>5, <2>1, TerminateStep DEF SendPayload, Terminals, Reasons
<1> QED BY <1>3, <1>4, <1>5 DEF SendPayload

(* From here on the receipt may be out and the record says so.             *)
LEMMA ExposedFacts ==
  ASSUME IInv, worker.pc # "idle", journal[Cur].state \in MidSend
  PROVE  journal[Cur].state \notin Terminals /\ InkAllowed(journal[Cur])
BY DEF MidSend, Terminals, InkAllowed

LEMMA SendFenceSafe == IInv /\ SendFence => InStep' /\ Safe' /\ Forward
<1> SUFFICES ASSUME IInv, SendFence PROVE InStep' /\ Safe' /\ Forward OBVIOUS
<1>1. /\ worker.pc # "idle" /\ worker.pend = NoPend /\ worker.conf \in 0..4
      /\ Cur \in JobId /\ journal[Cur].state = "SendStarted"
  BY AtSchedule DEF SendFence, OnSchedule, Pcs
<1>2. journal[Cur].state \notin Terminals /\ InkAllowed(journal[Cur])
  BY <1>1, ExposedFacts DEF MidSend
<1>3. \A j \in JobId : MayHaveInk(j)' => MayHaveInk(j)
  BY <1>1, SendInk DEF SendFence, SentNothing, IInv
<1>4. CASE Goto("sent") /\ UNCHANGED journal
  <2>1. OnSchedule("sent", journal[Cur].state) BY <1>1 DEF OnSchedule
  <2> QED BY <1>1, <1>2, <1>3, <1>4, <2>1, GotoStep DEF SendFence, Pcs
<1>5. CASE Terminate("Unknown", worker.conf, "Unknown")
  BY <1>1, <1>2, <1>3, <1>5, TerminateStep DEF SendFence, Terminals, Reasons
<1> QED BY <1>4, <1>5 DEF SendFence

LEMMA BytesSentSafe == IInv /\ BytesSent => InStep' /\ Safe' /\ Forward
<1> SUFFICES ASSUME IInv, BytesSent PROVE InStep' /\ Safe' /\ Forward OBVIOUS
<1>1. /\ worker.pc # "idle" /\ worker.conf \in 0..4
      /\ Cur \in JobId /\ journal[Cur].state = "SendStarted"
  BY AtSchedule DEF BytesSent, OnSchedule, Pcs
<1>2. PICK pc \in {"accepted", "awaitPrint"} : Advance("BytesSent", worker.conf, pc)
  BY DEF BytesSent
<1>3. Progress(journal[Cur].state) < Progress("BytesSent") BY <1>1, ProgressValues
<1>4. OnSchedule(pc, "BytesSent") BY DEF OnSchedule
<1> QED BY <1>1, <1>2, <1>3, <1>4, AdvanceStep DEF BytesSent, MidSend, Pcs

LEMMA AwaitPrintSafe == IInv /\ AwaitPrint => InStep' /\ Safe' /\ Forward
<1> SUFFICES ASSUME IInv, AwaitPrint PROVE InStep' /\ Safe' /\ Forward OBVIOUS
<1>1. /\ worker.pc # "idle" /\ worker.conf \in 0..4
      /\ Cur \in JobId /\ journal[Cur].state = "BytesSent"
  BY AtSchedule DEF AwaitPrint, OnSchedule, Pcs
<1>2. CASE \E pc \in {"cut", "finished"} : Advance("PrintConfirmed", PrintConfirmed, pc)
  <2>1. PICK pc \in {"cut", "finished"} : Advance("PrintConfirmed", PrintConfirmed, pc)
    BY <1>2
  <2>2. Progress(journal[Cur].state) < Progress("PrintConfirmed") BY <1>1, ProgressValues
  <2>3. OnSchedule(pc, "PrintConfirmed") BY DEF OnSchedule
  <2>4. PrintConfirmed \in 0..4 /\ pc \in Pcs \ {"idle"} BY DEF PrintConfirmed, Pcs
  <2> QED BY <1>1, <2>1, <2>2, <2>3, <2>4, AdvanceStep DEF AwaitPrint, MidSend
<1>3. CASE \E why \in Reasons : Terminate("Unknown", worker.conf, why)
  <2>1. journal[Cur].state \notin Terminals BY <1>1, ExposedFacts DEF MidSend
  <2>2. \A j \in JobId : MayHaveInk(j)' => MayHaveInk(j) BY SameInk DEF AwaitPrint
  <2> QED BY <1>1, <1>3, <2>1, <2>2, TerminateStep DEF AwaitPrint, Terminals
<1> QED BY <1>2, <1>3 DEF AwaitPrint, SilenceReason, Reasons

LEMMA SendCutSafe == IInv /\ SendCut => InStep' /\ Safe' /\ Forward
<1> SUFFICES ASSUME IInv, SendCut PROVE InStep' /\ Safe' /\ Forward OBVIOUS
<1>1. /\ worker.pc # "idle" /\ worker.pend = NoPend /\ worker.conf \in 0..4
      /\ Cur \in JobId /\ journal[Cur].state = "PrintConfirmed"
  BY AtSchedule DEF SendCut, OnSchedule, Pcs
<1>2. journal[Cur].state \notin Terminals /\ InkAllowed(journal[Cur])
  BY <1>1, ExposedFacts DEF MidSend
<1>3. \A j \in JobId : MayHaveInk(j)' => MayHaveInk(j)
  BY <1>1, SendInk DEF SendCut, SentNothing, IInv
<1>4. CASE Goto("awaitCut") /\ UNCHANGED journal
  <2>1. OnSchedule("awaitCut", journal[Cur].state) BY <1>1 DEF OnSchedule
  <2> QED BY <1>1, <1>2, <1>3, <1>4, <2>1, GotoStep DEF SendCut, Pcs
<1>5. CASE Terminate("Unknown", worker.conf, "Unknown")
  BY <1>1, <1>2, <1>3, <1>5, TerminateStep DEF SendCut, Terminals, Reasons
<1> QED BY <1>4, <1>5 DEF SendCut

LEMMA AwaitCutSafe == IInv /\ AwaitCut => InStep' /\ Safe' /\ Forward
<1> SUFFICES ASSUME IInv, AwaitCut PROVE InStep' /\ Safe' /\ Forward OBVIOUS
<1>1. /\ worker.pc # "idle" /\ worker.conf \in 0..4
      /\ Cur \in JobId /\ journal[Cur].state = "PrintConfirmed"
  BY AtSchedule DEF AwaitCut, OnSchedule, Pcs
<1>2. CASE \E pc \in {"cutStatus", "finished"} : Advance("CutCommandProcessed", CutProcessed, pc)
  <2>1. PICK pc \in {"cutStatus", "finished"} : Advance("CutCommandProcessed", CutProcessed, pc)
    BY <1>2
  <2>2. Progress(journal[Cur].state) < Progress("CutCommandProcessed") BY <1>1, ProgressValues
  <2>3. OnSchedule(pc, "CutCommandProcessed") BY DEF OnSchedule
  <2>4. CutProcessed \in 0..4 /\ pc \in Pcs \ {"idle"} BY DEF CutProcessed, Pcs
  <2> QED BY <1>1, <2>1, <2>2, <2>3, <2>4, AdvanceStep DEF AwaitCut, MidSend
<1>3. CASE \E why \in Reasons : Terminate("Unknown", worker.conf, why)
  <2>1. journal[Cur].state \notin Terminals BY <1>1, ExposedFacts DEF MidSend
  <2>2. \A j \in JobId : MayHaveInk(j)' => MayHaveInk(j) BY SameInk DEF AwaitCut
  <2> QED BY <1>1, <1>3, <2>1, <2>2, TerminateStep DEF AwaitCut, Terminals
<1> QED BY <1>2, <1>3 DEF AwaitCut, SilenceReason, Reasons

LEMMA QueryCutterSafe == IInv /\ QueryCutter => InStep' /\ Safe' /\ Forward
<1> SUFFICES ASSUME IInv, QueryCutter PROVE InStep' /\ Safe' /\ Forward OBVIOUS
<1>1. /\ worker.pc # "idle" /\ worker.pend = NoPend
      /\ Cur \in JobId /\ journal[Cur].state = "CutCommandProcessed"
  BY AtSchedule DEF QueryCutter, OnSchedule, Pcs
<1>2. journal[Cur].state \notin Terminals /\ InkAllowed(journal[Cur])
  BY <1>1, ExposedFacts DEF MidSend
<1>3. \A j \in JobId : MayHaveInk(j)' => MayHaveInk(j)
  BY <1>1, SendInk DEF QueryCutter, SentNothing, IInv
<1>4. PICK pc \in {"statusWait", "finished"} : Goto(pc) BY DEF QueryCutter
<1>5. OnSchedule(pc, journal[Cur].state) BY <1>1 DEF OnSchedule
<1> QED BY <1>1, <1>2, <1>3, <1>4, <1>5, GotoStep DEF QueryCutter, Pcs

LEMMA AwaitCutterSafe == IInv /\ AwaitCutter => InStep' /\ Safe' /\ Forward
<1> SUFFICES ASSUME IInv, AwaitCutter PROVE InStep' /\ Safe' /\ Forward OBVIOUS
<1>1. /\ worker.pc # "idle" /\ worker.conf \in 0..4
      /\ Cur \in JobId /\ journal[Cur].state = "CutCommandProcessed"
  BY AtSchedule DEF AwaitCutter, OnSchedule, Pcs
<1>2. journal[Cur].state \notin Terminals BY <1>1, ExposedFacts DEF MidSend
<1>3. \A j \in JobId : MayHaveInk(j)' => MayHaveInk(j) BY SameInk DEF AwaitCutter
<1>4. io.rtAns \in {"none", "ok", "bad"} BY DEF IInv, TypeOK, Ios
<1>5. CASE Terminate("FailedKnown", worker.conf, "CutterFault")
  BY <1>1, <1>2, <1>3, <1>5, TerminateStep DEF AwaitCutter, Terminals, Reasons
<1>6. CASE Terminate("DoneSoftware", CutFaultFree, "None")
  <2>1. CutFaultFree \in 0..4 BY DEF CutFaultFree
  <2> QED BY <1>1, <1>2, <1>3, <1>6, <2>1, TerminateStep DEF AwaitCutter, Terminals, Reasons
<1>7. CASE Terminate("DoneSoftware", worker.conf, "None")
  BY <1>1, <1>2, <1>3, <1>7, TerminateStep DEF AwaitCutter, Terminals, Reasons
<1> QED BY <1>4, <1>5, <1>6, <1>7 DEF AwaitCutter

LEMMA CompleteSafe == IInv /\ Complete => InStep' /\ Safe' /\ Forward
<1> SUFFICES ASSUME IInv, Complete PROVE InStep' /\ Safe' /\ Forward OBVIOUS
<1>1. /\ worker.pc # "idle" /\ worker.conf \in 0..4
      /\ Cur \in JobId /\ journal[Cur].state \in MidSend
  BY AtSchedule DEF Complete, OnSchedule, Pcs, MidSend
<1>2. journal[Cur].state \notin Terminals BY <1>1, ExposedFacts
<1>3. \A j \in JobId : MayHaveInk(j)' => MayHaveInk(j) BY SameInk DEF Complete
<1>4. PICK c \in 0..4 : Terminate("DoneSoftware", c, "None")
  BY <1>1 DEF Complete, TransportAccepted
<1> QED BY <1>1, <1>2, <1>3, <1>4, TerminateStep DEF Complete, Terminals, Reasons

-----------------------------------------------------------------------------
LEMMA SameJournal == ASSUME TypeOK, UNCHANGED journal PROVE Forward
<1>1. \A j \in JobId : Progress(journal[j].state) \in 0..7
  BY TerminalIsLast DEF TypeOK, Entry
<1> QED BY <1>1 DEF Forward

(* Steps that leave the jobs alone.                                        *)
LEMMA FrameStep ==
  ASSUME IInv, UNCHANGED <<jobs, journal, pub, done, tasks, worker>>,
         \A j \in JobId : MayHaveInk(j)' => MayHaveInk(j)
  PROVE  InStep' /\ Safe' /\ Forward
<1>1. QueueUntouched' /\ OneRecordEach' BY DEF IInv, InStep, QueueUntouched, OneRecordEach
<1>2. WorkerOnSchedule'
  <2>1. worker.pc # "idle" => Cur \in JobId BY DEF IInv, TypeOK, Cur
  <2>2. worker.pc = "payload" => ~MayHaveInk(worker.cur)'
    <3> SUFFICES ASSUME worker.pc = "payload", MayHaveInk(worker.cur)' PROVE FALSE
      OBVIOUS
    <3>1. PICK j \in JobId : j = worker.cur BY <2>1 DEF Cur
    <3>2. MayHaveInk(j)' BY <3>1 DEF MayHaveInk, OnTheWire
    <3>3. ~MayHaveInk(j) BY <3>1 DEF IInv, InStep, WorkerOnSchedule
    <3> QED BY <3>2, <3>3
  <2>3. OnSchedule(worker.pc, journal[worker.cur].state)
          => OnSchedule(worker.pc, journal[worker.cur].state)'
    BY DEF OnSchedule
  <2> QED BY <2>2, <2>3 DEF IInv, InStep, WorkerOnSchedule
<1>3. Safe'
  BY DEF IInv, Safe, DurableBeforeWire, FailedKnownPrintedNothing, PublishedIsDurable
<1>4. Forward BY SameJournal DEF IInv
<1> QED BY <1>1, <1>2, <1>3, <1>4 DEF InStep

(* The ink of a queue of items; OnTheWire is the ink of toDev.             *)
InkIn(q, j) == \E i \in 1..Len(q) : q[i].j = j /\ q[i].k \in {"payload", "partial"}

LEMMA WireInk ==
  ASSUME TypeOK, NEW j \in JobId PROVE OnTheWire(j) <=> InkIn(toDev, j)
<1>1. DOMAIN toDev = 1..Len(toDev) BY LenProperties DEF TypeOK
<1> QED BY <1>1 DEF OnTheWire, InkIn

LEMMA OrphanedInk ==
  ASSUME NEW q \in Seq(Items), NEW j, InkIn(Orphaned(q), j) PROVE InkIn(q, j)
<1>1. Len(q) \in Nat BY LenProperties
<1>2. Len(Orphaned(q)) = Len(q) BY <1>1 DEF Orphaned
<1>3. ASSUME NEW i \in 1..Len(q)
      PROVE  Orphaned(q)[i].j = q[i].j /\ Orphaned(q)[i].k = q[i].k
  <2>1. q[i] \in Items BY ElementOfSeq
  <2>2. Orphaned(q)[i] = [q[i] EXCEPT !.live = @ /\ ~SessionBound] BY DEF Orphaned
  <2> QED BY <2>1, <2>2 DEF Items
<1> QED BY <1>2, <1>3 DEF InkIn

LEMMA CutoffsInk ==
  ASSUME NEW q \in Seq(Items), NEW c \in Cutoffs(q), NEW j, InkIn(c, j) PROVE InkIn(q, j)
<1>1. Len(q) \in Nat BY LenProperties
<1>2. ASSUME NEW n \in 0..Len(q)
      PROVE  /\ Len(SubSeq(q, 1, n)) = n /\ SubSeq(q, 1, n) \in Seq(Items)
             /\ \A i \in 1..n : SubSeq(q, 1, n)[i] = q[i]
  <2>1. \A i \in 1..n : q[i] \in Items BY ElementOfSeq, <1>1
  <2> QED BY <2>1, <1>1, SubSeqProperties
<1>3. CASE \E n \in 0..Len(q) : c = SubSeq(q, 1, n)
  BY <1>1, <1>2, <1>3 DEF InkIn
<1>4. ASSUME NEW n \in 1..Len(q), c = Append(SubSeq(q, 1, n - 1), Torn(q[n]))
      PROVE  InkIn(q, j)
  <2> DEFINE p == SubSeq(q, 1, n - 1)
  <2>1. n - 1 \in 0..Len(q) BY <1>1
  <2>2. p \in Seq(Items) /\ Len(p) = n - 1 /\ \A i \in 1..(n - 1) : p[i] = q[i]
    BY <1>2, <2>1
  <2>3. q[n] \in Items /\ Torn(q[n]) \in Items BY ElementOfSeq, TornType
  <2> HIDE DEF p
  <2>4. /\ Len(c) = n /\ c[n] = Torn(q[n])
        /\ \A i \in 1..(n - 1) : c[i] = q[i]
    BY <1>1, <1>4, <2>2, <2>3, AppendProperties DEF p
  <2>5. /\ Torn(q[n]).j = q[n].j
        /\ Torn(q[n]).k \in {"payload", "partial"} => q[n].k \in {"payload", "partial"}
    BY <2>3 DEF Torn, Items
  <2>6. PICK i \in 1..n : c[i].j = j /\ c[i].k \in {"payload", "partial"}
    BY <2>4 DEF InkIn
  <2> QED BY <1>1, <2>4, <2>5, <2>6 DEF InkIn
<1> QED BY <1>3, <1>4 DEF Cutoffs

LEMMA QueueShrinks ==
  ASSUME NEW S, NEW q \in Seq(S), q # <<>>
  PROVE  /\ Len(q) \in Nat /\ Len(Tail(q)) = Len(q) - 1 /\ Head(q) = q[1]
         /\ \A i \in 1..Len(Tail(q)) : Tail(q)[i] = q[i + 1]
BY LenProperties, HeadTailProperties

-----------------------------------------------------------------------------
(* The steps around runJob.                                                *)

LEMMA PublishSafe == IInv /\ Publish => InStep' /\ Safe' /\ Forward
<1> SUFFICES ASSUME IInv, Publish PROVE InStep' /\ Safe' /\ Forward OBVIOUS
<1>1. worker.pc # "idle" /\ Cur \in JobId /\ Cur \in 1..Len(jobs)
      /\ OnSchedule(worker.pc, journal[Cur].state)
  BY DEF Publish, IInv, InStep, WorkerOnSchedule, TypeOK, Cur, NoPend
<1>2. /\ worker'.pc = worker.pc /\ worker'.cur = worker.cur
      /\ worker'.pend = IF worker.pc = "ended" THEN "finish" ELSE NoPend
  BY DEF Publish, IInv, TypeOK, Threads
<1>3. /\ pub'[Cur] = journal[Cur].state
      /\ \A j \in JobId \ {Cur} : pub'[j] = pub[j]
  BY <1>1 DEF Publish, IInv, TypeOK
<1>4. QueueUntouched' /\ OneRecordEach'
  BY <1>2 DEF Publish, IInv, InStep, QueueUntouched, OneRecordEach
<1>5. WorkerOnSchedule'
  <2>1. OnSchedule(worker.pc, journal[worker.cur].state)'
    BY <1>1, <1>2 DEF OnSchedule, Publish, Cur
  <2>2. worker'.pc = "payload" => ~MayHaveInk(worker.cur)'
    BY <1>1, <1>2 DEF Publish, IInv, InStep, WorkerOnSchedule, MayHaveInk, OnTheWire
  <2>3. worker'.pend = "finish" => pub'[worker'.cur] \in Terminals
    BY <1>1, <1>2, <1>3 DEF OnSchedule, NoPend, Cur
  <2> QED BY <1>1, <1>2, <2>1, <2>2, <2>3 DEF WorkerOnSchedule, Publish, Cur
<1>6. DurableBeforeWire' /\ FailedKnownPrintedNothing'
  <2>1. \A j \in JobId : MayHaveInk(j)' => MayHaveInk(j) BY SameInk DEF Publish
  <2> QED BY <2>1 DEF Publish, IInv, Safe, DurableBeforeWire, FailedKnownPrintedNothing
<1>7. PublishedIsDurable'
  <2> SUFFICES ASSUME NEW j \in JobId
               PROVE  /\ Progress(pub'[j]) <= Progress(journal[j].state)
                      /\ pub'[j] \in Terminals => pub'[j] = journal[j].state
                      /\ done[j] => pub'[j] \in Terminals
    BY DEF PublishedIsDurable, Publish
  <2>1. /\ Progress(pub[j]) <= Progress(journal[j].state)
        /\ pub[j] \in Terminals => pub[j] = journal[j].state
        /\ done[j] => pub[j] \in Terminals
    BY DEF IInv, Safe, PublishedIsDurable
  <2>2. Progress(journal[j].state) \in 0..7
    BY TerminalIsLast DEF IInv, TypeOK, Entry
  <2> QED BY <1>3, <2>1, <2>2
<1>8. Forward BY SameJournal DEF Publish, IInv
<1> QED BY <1>4, <1>5, <1>6, <1>7, <1>8 DEF InStep, Safe

LEMMA FinishSafe == IInv /\ Finish => InStep' /\ Safe' /\ Forward
<1> SUFFICES ASSUME IInv, Finish PROVE InStep' /\ Safe' /\ Forward OBVIOUS
<1>1. worker.pc # "idle" /\ Cur \in JobId /\ pub[Cur] \in Terminals
  BY DEF Finish, IInv, InStep, WorkerOnSchedule, TypeOK, Cur, NoPend
<1>2. worker'.pc = "idle" /\ worker'.pend = NoPend BY DEF Finish, Idle
<1>3. QueueUntouched' /\ OneRecordEach' /\ WorkerOnSchedule'
  BY <1>2 DEF Finish, IInv, InStep, QueueUntouched, OneRecordEach, WorkerOnSchedule
<1>4. DurableBeforeWire' /\ FailedKnownPrintedNothing'
  <2>1. \A j \in JobId : MayHaveInk(j)' => MayHaveInk(j) BY SameInk DEF Finish
  <2> QED BY <2>1 DEF Finish, IInv, Safe, DurableBeforeWire, FailedKnownPrintedNothing
<1>5. PublishedIsDurable'
  <2>1. \A j \in JobId : done'[j] => j = Cur \/ done[j] BY DEF Finish, IInv, TypeOK
  <2> QED BY <1>1, <2>1 DEF Finish, IInv, Safe, PublishedIsDurable
<1>6. Forward BY SameJournal DEF Finish, IInv
<1> QED BY <1>3, <1>4, <1>5, <1>6 DEF InStep, Safe

LEMMA TakeSafe == IInv /\ Take => InStep' /\ Safe' /\ Forward
<1> SUFFICES ASSUME IInv, Take PROVE InStep' /\ Safe' /\ Forward OBVIOUS
<1> DEFINE j0 == Head(tasks)
<1>1. /\ tasks \in Seq(JobId) /\ tasks # <<>> /\ tasks' = Tail(tasks)
      /\ worker.pc = "idle"
  BY DEF Take, At, IInv, TypeOK
<1>2. /\ Len(tasks) \in Nat \ {0} /\ Len(tasks') = Len(tasks) - 1 /\ j0 = tasks[1]
      /\ \A i \in 1..Len(tasks') : tasks'[i] = tasks[i + 1]
  BY <1>1, QueueShrinks, EmptySeq
<1>3. worker'.pc = "connect" /\ worker'.cur = j0 /\ worker'.pend = NoPend
  BY DEF Take, Idle
<1>4. QueueUntouched BY DEF IInv, InStep
<1>5. j0 \in 1..Len(jobs) /\ journal[j0].state = "Queued"
  BY <1>2, <1>4 DEF QueueUntouched
<1> HIDE DEF j0
<1>6. QueueUntouched'
  <2> SUFFICES ASSUME NEW i \in 1..Len(tasks')
               PROVE  /\ tasks'[i] \in 1..Len(jobs) /\ journal[tasks'[i]].state = "Queued"
                      /\ tasks'[i] # j0
                      /\ \A h \in 1..Len(tasks') : h # i => tasks'[h] # tasks'[i]
    BY <1>3 DEF QueueUntouched, Take
  <2>1. i + 1 \in 1..Len(tasks) /\ 1 \in 1..Len(tasks) /\ i + 1 # 1 BY <1>2
  <2>2. ASSUME NEW h \in 1..Len(tasks'), h # i
        PROVE  h + 1 \in 1..Len(tasks) /\ h + 1 # i + 1
    BY <1>2, <2>2
  <2> QED BY <1>2, <1>4, <2>1, <2>2 DEF QueueUntouched
<1>7. WorkerOnSchedule'
  BY <1>3, <1>5 DEF WorkerOnSchedule, OnSchedule, Take, NoPend
<1>8. OneRecordEach' BY DEF Take, IInv, InStep, OneRecordEach
<1>9. Safe'
  <2>1. \A j \in JobId : MayHaveInk(j)' => MayHaveInk(j) BY SameInk DEF Take
  <2> QED BY <2>1
          DEF Take, IInv, Safe, DurableBeforeWire, FailedKnownPrintedNothing, PublishedIsDurable
<1>10. Forward BY SameJournal DEF Take, IInv
<1> QED BY <1>6, <1>7, <1>8, <1>9, <1>10 DEF InStep

LEMMA CancelLeftoverSafe == IInv /\ CancelLeftover => InStep' /\ Safe' /\ Forward
<1> SUFFICES ASSUME IInv, CancelLeftover PROVE InStep' /\ Safe' /\ Forward OBVIOUS
<1> DEFINE j0 == Head(tasks)
<1>1. /\ tasks \in Seq(JobId) /\ tasks # <<>> /\ tasks' = Tail(tasks)
      /\ worker.pc = "idle" /\ worker' = worker /\ jobs' = jobs
  BY DEF CancelLeftover, At, IInv, TypeOK
<1>2. /\ Len(tasks) \in Nat \ {0} /\ Len(tasks') = Len(tasks) - 1 /\ j0 = tasks[1]
      /\ \A i \in 1..Len(tasks') : tasks'[i] = tasks[i + 1]
  BY <1>1, QueueShrinks, EmptySeq
<1>3. QueueUntouched BY DEF IInv, InStep
<1>4. j0 \in JobId /\ j0 \in 1..Len(jobs) /\ journal[j0].state = "Queued"
  BY <1>1, <1>2, <1>3, HeadTailProperties DEF QueueUntouched
<1>5. /\ journal'[j0].state = "FailedKnown" /\ pub'[j0] = "FailedKnown"
      /\ \A j \in JobId \ {j0} :
           journal'[j] = journal[j] /\ pub'[j] = pub[j] /\ done'[j] = done[j]
  <2>1. journal[j0] \in Entry BY <1>4 DEF IInv, TypeOK
  <2> QED BY <1>4, <2>1 DEF CancelLeftover, IInv, TypeOK, Entry
<1>6. ~MayHaveInk(j0) BY <1>4 DEF IInv, Safe, DurableBeforeWire, BeforeSend
<1> HIDE DEF j0
<1>7. QueueUntouched'
  <2> SUFFICES ASSUME NEW i \in 1..Len(tasks')
               PROVE  /\ tasks'[i] \in 1..Len(jobs) /\ journal'[tasks'[i]].state = "Queued"
                      /\ \A h \in 1..Len(tasks') : h # i => tasks'[h] # tasks'[i]
    BY <1>1 DEF QueueUntouched
  <2>1. i + 1 \in 1..Len(tasks) /\ 1 \in 1..Len(tasks) /\ i + 1 # 1 BY <1>2
  <2>2. ASSUME NEW h \in 1..Len(tasks'), h # i
        PROVE  h + 1 \in 1..Len(tasks) /\ h + 1 # i + 1
    BY <1>2, <2>2
  <2>3. tasks'[i] # j0 /\ tasks'[i] \in 1..Len(jobs) /\ journal[tasks'[i]].state = "Queued"
        /\ \A h \in 1..Len(tasks') : h # i => tasks'[h] # tasks'[i]
    BY <1>2, <1>3, <2>1, <2>2 DEF QueueUntouched
  <2>4. tasks'[i] \in JobId BY <1>1, <1>2, <2>1, ElementOfSeq
  <2> QED BY <1>5, <2>3, <2>4
<1>8. WorkerOnSchedule' BY <1>1 DEF IInv, InStep, WorkerOnSchedule
<1>9. OneRecordEach' BY <1>1, <1>4, <1>5 DEF IInv, InStep, OneRecordEach
<1>10. DurableBeforeWire' /\ FailedKnownPrintedNothing'
  <2>1. \A j \in JobId : MayHaveInk(j)' => MayHaveInk(j) BY SameInk DEF CancelLeftover
  <2> QED BY <1>5, <1>6, <2>1 DEF IInv, Safe, DurableBeforeWire, FailedKnownPrintedNothing
<1>11. PublishedIsDurable'
  <2> SUFFICES ASSUME NEW j \in JobId
               PROVE  /\ Progress(pub'[j]) <= Progress(journal'[j].state)
                      /\ pub'[j] \in Terminals => pub'[j] = journal'[j].state
                      /\ done'[j] => pub'[j] \in Terminals
    BY DEF PublishedIsDurable
  <2>1. CASE j = j0
    <3>1. Progress("FailedKnown") \in 0..7 /\ "FailedKnown" \in Terminals
      BY TerminalIsLast, ConstantsType DEF Terminals
    <3> QED BY <1>5, <2>1, <3>1
  <2>2. CASE j # j0 BY <1>5, <2>2 DEF IInv, Safe, PublishedIsDurable
  <2> QED BY <2>1, <2>2
<1>12. Forward
  <2>1. \A j \in JobId : Progress(journal[j].state) \in 0..7
    BY TerminalIsLast DEF IInv, TypeOK, Entry
  <2>2. Progress("Queued") <= Progress("FailedKnown") /\ "Queued" \notin Terminals
    BY DEF Progress, Terminals
  <2> QED BY <1>4, <1>5, <2>1, <2>2 DEF Forward
<1> QED BY <1>7, <1>8, <1>9, <1>10, <1>11, <1>12 DEF InStep, Safe

LEMMA CloseTransportInk ==
  ASSUME IInv, CloseTransport, NEW j \in JobId, MayHaveInk(j)' PROVE MayHaveInk(j)
<1>1. TypeOK' BY CloseTransportType DEF IInv
<1>2. toDev \in Seq(Items) BY DEF IInv, TypeOK
<1>3. CASE OnTheWire(j)'
  <2>1. InkIn(toDev', j) BY <1>1, <1>3, LenProperties DEF TypeOK, OnTheWire, InkIn
  <2>2. InkIn(toDev, j) BY <2>1, <1>2, OrphanedInk DEF CloseTransport
  <2> QED BY <2>2, WireInk DEF MayHaveInk, IInv
<1> QED BY <1>3 DEF MayHaveInk, CloseTransport

LEMMA CloseTransportSafe == IInv /\ CloseTransport => InStep' /\ Safe' /\ Forward
BY CloseTransportInk, FrameStep DEF CloseTransport

-----------------------------------------------------------------------------
(* The clients.                                                            *)

LEMMA CreateSafe ==
  ASSUME IInv, NEW k \in Keys, NEW rep \in BOOLEAN, NEW cut, NEW strict,
         Create(k, rep, cut, strict)
  PROVE  InStep' /\ Safe' /\ Forward
<1> DEFINE j0 == Len(jobs) + 1
<1>1. /\ j0 \in JobId /\ Len(jobs) \in Nat /\ jobs \in Seq(JobInfo)
      /\ worker' = worker /\ stopping \in BOOLEAN
  BY LenProperties DEF Create, IInv, TypeOK
<1>2. Len(jobs') = j0 BY <1>1 DEF Create
<1>3. /\ journal'[j0].state = IF stopping THEN "FailedKnown" ELSE "Queued"
      /\ stopping => journal'[j0].reason = "TransportUnreachable"
      /\ pub'[j0] = journal'[j0].state /\ done'[j0] = stopping
      /\ \A j \in JobId \ {j0} :
           journal'[j] = journal[j] /\ pub'[j] = pub[j] /\ done'[j] = done[j]
  BY <1>1 DEF Create, IInv, TypeOK, NoRecord
<1>4. tasks' = IF stopping THEN tasks ELSE Append(tasks, j0) BY DEF Create
<1>5. journal[j0].state = "Absent" /\ ~MayHaveInk(j0)
  BY <1>1 DEF IInv, InStep, OneRecordEach, Safe, DurableBeforeWire
<1>6. UNCHANGED <<toDev, paper>> BY DEF Create
<1> HIDE DEF j0
<1>7. /\ QueueUntouched /\ tasks \in Seq(JobId) /\ Len(tasks) \in Nat
      /\ worker.pc # "idle" => worker.cur \in 1..Len(jobs) /\ worker.cur \in JobId
  BY LenProperties DEF IInv, InStep, WorkerOnSchedule, TypeOK
<1>8. j0 \notin 1..Len(jobs) /\ 1..Len(jobs) \subseteq 1..j0 /\ j0 \in 1..j0
  BY <1>1 DEF j0
<1>9. \A i \in 1..Len(tasks) :
        /\ tasks[i] \in 1..j0 /\ tasks[i] # j0 /\ journal'[tasks[i]].state = "Queued"
  <2>1. \A i \in 1..Len(tasks) : tasks[i] \in JobId BY <1>7, ElementOfSeq
  <2> QED BY <1>3, <1>7, <1>8, <2>1 DEF QueueUntouched
<1>10. QueueUntouched'
  <2>1. CASE stopping
    BY <1>1, <1>2, <1>4, <1>7, <1>9, <2>1 DEF QueueUntouched
  <2>2. CASE ~stopping
    <3>1. /\ Len(tasks') = Len(tasks) + 1 /\ tasks'[Len(tasks) + 1] = j0
          /\ \A i \in 1..Len(tasks) : tasks'[i] = tasks[i]
      BY <1>1, <1>4, <1>7, <2>2, AppendProperties
    <3>2. \A i \in 1..Len(tasks') : i \in 1..Len(tasks) \/ i = Len(tasks) + 1
      BY <1>7, <3>1
    <3>3. worker.pc # "idle" => worker.cur # j0 BY <1>7, <1>8
    <3>4. journal'[j0].state = "Queued" BY <1>3, <2>2
    <3>5. ASSUME NEW i \in 1..Len(tasks')
          PROVE  /\ tasks'[i] \in 1..j0 /\ journal'[tasks'[i]].state = "Queued"
                 /\ worker.pc # "idle" => tasks'[i] # worker.cur
      <4>1. CASE i \in 1..Len(tasks) BY <1>7, <1>9, <3>1, <4>1 DEF QueueUntouched
      <4>2. CASE i = Len(tasks) + 1 BY <1>8, <3>1, <3>3, <3>4, <4>2
      <4> QED BY <3>2, <4>1, <4>2
    <3>6. ASSUME NEW i \in 1..Len(tasks'), NEW h \in 1..Len(tasks'), h # i
          PROVE  tasks'[h] # tasks'[i]
      <4>1. CASE i \in 1..Len(tasks) /\ h \in 1..Len(tasks)
        BY <1>7, <3>1, <3>6, <4>1 DEF QueueUntouched
      <4>2. CASE i \in 1..Len(tasks) /\ h = Len(tasks) + 1 BY <1>9, <3>1, <4>2
      <4>3. CASE i = Len(tasks) + 1 /\ h \in 1..Len(tasks) BY <1>9, <3>1, <4>3
      <4> QED BY <3>2, <3>6, <4>1, <4>2, <4>3
    <3> QED BY <1>1, <1>2, <3>5, <3>6 DEF QueueUntouched
  <2> QED BY <2>1, <2>2
<1>11. WorkerOnSchedule'
  <2>1. /\ worker.pc = "idle" => worker.pend = NoPend
        /\ worker.pc # "idle" =>
             /\ worker.cur \in 1..j0 /\ worker.cur # j0 /\ worker.cur \in JobId
             /\ OnSchedule(worker.pc, journal[worker.cur].state)
             /\ worker.pc = "payload" => ~MayHaveInk(worker.cur)
             /\ worker.pend = "finish" => pub[worker.cur] \in Terminals
    BY <1>7, <1>8 DEF IInv, InStep, WorkerOnSchedule
  <2>2. worker.pc # "idle" => journal'[worker.cur] = journal[worker.cur]
                              /\ pub'[worker.cur] = pub[worker.cur]
    BY <1>3, <2>1
  <2>3. MayHaveInk(worker.cur)' = MayHaveInk(worker.cur)
    BY <1>1, <1>6 DEF MayHaveInk, OnTheWire
  <2>4. worker.pc # "idle" => OnSchedule(worker.pc, journal[worker.cur].state)'
    BY <1>1, <2>1, <2>2 DEF OnSchedule
  <2> QED BY <1>1, <1>2, <2>1, <2>2, <2>3, <2>4 DEF WorkerOnSchedule
<1>12. OneRecordEach'
  <2>1. \A j \in JobId : j > Len(jobs) <=> journal[j].state = "Absent"
    BY DEF IInv, InStep, OneRecordEach
  <2>2. \A j \in JobId \ {j0} : j > j0 <=> j > Len(jobs) BY <1>1 DEF j0, JobId
  <2>3. ~(j0 > j0) /\ journal'[j0].state # "Absent" BY <1>1, <1>3 DEF JobId
  <2> QED BY <1>2, <1>3, <2>1, <2>2, <2>3 DEF OneRecordEach
<1>13. DurableBeforeWire' /\ FailedKnownPrintedNothing'
  <2>1. \A j \in JobId : MayHaveInk(j)' => MayHaveInk(j) BY <1>6, SameInk
  <2> QED BY <1>3, <1>5, <2>1 DEF IInv, Safe, DurableBeforeWire, FailedKnownPrintedNothing
<1>14. PublishedIsDurable'
  <2> SUFFICES ASSUME NEW j \in JobId
               PROVE  /\ Progress(pub'[j]) <= Progress(journal'[j].state)
                      /\ pub'[j] \in Terminals => pub'[j] = journal'[j].state
                      /\ done'[j] => pub'[j] \in Terminals
    BY DEF PublishedIsDurable
  <2>1. CASE j = j0
    <3>1. /\ Progress("FailedKnown") \in 0..7 /\ Progress("Queued") \in 0..7
          /\ "FailedKnown" \in Terminals
      BY TerminalIsLast, ConstantsType DEF Terminals
    <3> QED BY <1>3, <2>1, <3>1
  <2>2. CASE j # j0 BY <1>3, <2>2 DEF IInv, Safe, PublishedIsDurable
  <2> QED BY <2>1, <2>2
<1>15. Forward
  <2>1. \A j \in JobId : Progress(journal[j].state) \in 0..7
    BY TerminalIsLast DEF IInv, TypeOK, Entry
  <2>2. /\ Progress("Absent") <= Progress("FailedKnown")
        /\ Progress("Absent") <= Progress("Queued") /\ "Absent" \notin Terminals
    BY DEF Progress, Terminals
  <2> QED BY <1>3, <1>5, <2>1, <2>2 DEF Forward
<1> QED BY <1>10, <1>11, <1>12, <1>13, <1>14, <1>15 DEF InStep, Safe

LEMMA ClientSafe == IInv /\ Client => InStep' /\ Safe' /\ Forward
<1> SUFFICES ASSUME IInv, Client PROVE InStep' /\ Safe' /\ Forward OBVIOUS
<1>1. CASE Stop BY <1>1, FrameStep, SameInk DEF Stop
<1>2. ASSUME NEW k \in Keys, NEW cut \in CutModes, NEW strict \in StrictModes,
             Submit(k, cut, strict)
      PROVE  InStep' /\ Safe' /\ Forward
  BY <1>2, CreateSafe DEF Submit
<1>3. ASSUME NEW k \in Keys, NEW cut \in CutModes, NEW strict \in StrictModes,
             NEW supplied \in BOOLEAN, ForceReprint(k, supplied, cut, strict)
      PROVE  InStep' /\ Safe' /\ Forward
  BY <1>3, CreateSafe DEF ForceReprint
<1> QED BY <1>1, <1>2, <1>3 DEF Client

-----------------------------------------------------------------------------
(* The environment.                                                        *)

LEMMA ReceiveSafe == IInv /\ Receive => InStep' /\ Safe' /\ Forward
BY FrameStep, SameInk DEF Receive

LEMMA PrinterPrintsInk ==
  ASSUME IInv, PrinterPrints, NEW j \in JobId, MayHaveInk(j)' PROVE MayHaveInk(j)
<1> DEFINE item == Head(toDev)
<1>1. toDev \in Seq(Items) /\ toDev # <<>> /\ toDev' = Tail(toDev) /\ toDev' \in Seq(Items)
  BY HeadTailProperties DEF PrinterPrints, IInv, TypeOK
<1>2. /\ Len(toDev) \in Nat \ {0} /\ Len(toDev') = Len(toDev) - 1 /\ item = toDev[1]
      /\ \A i \in 1..Len(toDev') : toDev'[i] = toDev[i + 1]
  BY <1>1, QueueShrinks, EmptySeq
<1>3. CASE OnTheWire(j)'
  <2>1. PICK i \in 1..Len(toDev') :
          toDev'[i].j = j /\ toDev'[i].k \in {"payload", "partial"}
    BY <1>1, <1>3, LenProperties DEF OnTheWire
  <2>2. i + 1 \in 1..Len(toDev) BY <1>2
  <2>3. InkIn(toDev, j) BY <1>2, <2>1, <2>2 DEF InkIn
  <2> QED BY <2>3, WireInk DEF MayHaveInk, IInv
<1>4. CASE paper'[j] # "none" /\ paper'[j] = paper[j] BY <1>4 DEF MayHaveInk
<1>5. CASE paper'[j] # paper[j]
  <2>1. item.k \in {"payload", "partial"} /\ item.j = j
    BY <1>5 DEF PrinterPrints, IInv, TypeOK
  <2>2. InkIn(toDev, j) BY <1>2, <2>1 DEF InkIn
  <2> QED BY <2>2, WireInk DEF MayHaveInk, IInv
<1> QED BY <1>3, <1>4, <1>5 DEF MayHaveInk

LEMMA PrinterPrintsSafe == IInv /\ PrinterPrints => InStep' /\ Safe' /\ Forward
BY PrinterPrintsInk, FrameStep DEF PrinterPrints

LEMMA PrinterAnswersQueryInk ==
  ASSUME IInv, PrinterAnswersQuery, NEW j \in JobId, MayHaveInk(j)' PROVE MayHaveInk(j)
<1>1. toDev \in Seq(Items) /\ Len(toDev) \in Nat /\ toDev' \in Seq(Items)
  BY LenProperties, PrinterAnswersQueryType DEF IInv, TypeOK
<1>2. PICK i \in DOMAIN toDev :
        toDev' = SubSeq(toDev, 1, i - 1) \o SubSeq(toDev, i + 1, Len(toDev))
  BY DEF PrinterAnswersQuery
<1>3. i \in 1..Len(toDev) BY <1>1, LenProperties
<1> DEFINE a == SubSeq(toDev, 1, i - 1)
           b == SubSeq(toDev, i + 1, Len(toDev))
<1>4. /\ a \in Seq(Items) /\ Len(a) = i - 1
      /\ \A h \in 1..(i - 1) : a[h] = toDev[h]
  <2>1. \A h \in 1..(i - 1) : toDev[h] \in Items BY <1>1, <1>3, ElementOfSeq
  <2> QED BY <1>3, <2>1, SubSeqProperties
<1>5. /\ b \in Seq(Items) /\ Len(b) = Len(toDev) - i
      /\ \A h \in 1..(Len(toDev) - i) : b[h] = toDev[i + h]
  <2>1. \A h \in (i + 1)..Len(toDev) : toDev[h] \in Items BY <1>1, <1>3, ElementOfSeq
  <2> QED BY <1>1, <1>3, <2>1, SubSeqProperties
<1>6. toDev' = a \o b BY <1>2
<1> HIDE DEF a, b
<1>7. ASSUME NEW n \in 1..Len(toDev') PROVE \E m \in 1..Len(toDev) : toDev'[n] = toDev[m]
  <2>0. /\ Len(toDev') = Len(a) + Len(b)
        /\ \A h \in 1..(Len(a) + Len(b)) :
             toDev'[h] = IF h <= Len(a) THEN a[h] ELSE b[h - Len(a)]
    BY <1>4, <1>5, <1>6, ConcatProperties
  <2>1. /\ n \in 1..(Len(toDev) - 1)
        /\ toDev'[n] = IF n <= i - 1 THEN a[n] ELSE b[n - (i - 1)]
    BY <1>1, <1>3, <1>4, <1>5, <2>0
  <2>2. CASE n <= i - 1
    <3>1. n \in 1..Len(toDev) /\ toDev'[n] = toDev[n] BY <1>1, <1>3, <1>4, <2>1, <2>2
    <3> QED BY <3>1
  <2>3. CASE n > i - 1
    <3>1. n - (i - 1) \in 1..(Len(toDev) - i) BY <1>1, <1>3, <2>1, <2>3
    <3>2. toDev'[n] = toDev[i + (n - (i - 1))] BY <1>3, <1>5, <2>1, <2>3, <3>1
    <3>3. i + (n - (i - 1)) \in 1..Len(toDev) BY <1>1, <1>3, <3>1
    <3> QED BY <3>2, <3>3
  <2> QED BY <1>3, <2>2, <2>3
<1>8. CASE OnTheWire(j)'
  <2>1. PICK n \in 1..Len(toDev') :
          toDev'[n].j = j /\ toDev'[n].k \in {"payload", "partial"}
    BY <1>1, <1>8, LenProperties DEF OnTheWire
  <2>2. InkIn(toDev, j) BY <1>7, <2>1 DEF InkIn
  <2> QED BY <2>2, WireInk DEF MayHaveInk, IInv
<1> QED BY <1>8 DEF MayHaveInk, PrinterAnswersQuery

LEMMA PrinterAnswersQuerySafe == IInv /\ PrinterAnswersQuery => InStep' /\ Safe' /\ Forward
BY PrinterAnswersQueryInk, FrameStep DEF PrinterAnswersQuery

LEMMA LinkDropsInk ==
  ASSUME IInv, LinkDrops, NEW j \in JobId, MayHaveInk(j)' PROVE MayHaveInk(j)
<1>1. toDev \in Seq(Items) /\ toDev' \in Seq(Items)
  BY LinkDropsType DEF IInv, TypeOK
<1>2. PICK q \in Cutoffs(toDev) : toDev' = Orphaned(q) BY DEF LinkDrops
<1>3. q \in Seq(Items) BY <1>1, CutoffsType
<1>4. CASE OnTheWire(j)'
  <2>1. InkIn(toDev', j) BY <1>1, <1>4, LenProperties DEF OnTheWire, InkIn
  <2>2. InkIn(toDev, j) BY <1>1, <1>2, <1>3, <2>1, OrphanedInk, CutoffsInk
  <2> QED BY <2>2, WireInk DEF MayHaveInk, IInv
<1> QED BY <1>4 DEF MayHaveInk, LinkDrops

LEMMA LinkDropsSafe == IInv /\ LinkDrops => InStep' /\ Safe' /\ Forward
BY LinkDropsInk, FrameStep DEF LinkDrops

LEMMA RecoveredKeeps ==
  ASSUME NEW r \in Entry
  PROVE  /\ Recovered(r) \in Entry
         /\ r.state = "Absent" <=> Recovered(r).state = "Absent"
         /\ Recovered(r).state \in Terminals \cup {"Absent"}
         /\ r.state \in MidSend => Recovered(r).state = "Unknown"
         /\ InkAllowed(r) => InkAllowed(Recovered(r))
         /\ Progress(r.state) <= Progress(Recovered(r).state)
         /\ r.state \in Terminals => Recovered(r) = r
<1>1. r.state \in States BY DEF Entry
<1>0. /\ Progress(r.state) \in 0..7 /\ Progress("Unknown") = 7 /\ Progress("FailedKnown") = 7
      /\ r.state \in MidSend \cup BeforeSend => r.state \notin Terminals
  BY <1>1, TerminalIsLast, ConstantsType DEF Terminals, MidSend, BeforeSend
<1>2. CASE r.state \in MidSend
  <2>1. r.state \notin BeforeSend /\ r.state # "Absent" BY <1>2 DEF MidSend, BeforeSend
  <2>2. Recovered(r) = [r EXCEPT !.state = "Unknown", !.reason = "Unknown"]
    BY <1>2, <2>1 DEF Recovered
  <2>3. Recovered(r).state = "Unknown" BY <2>2 DEF Entry
  <2> QED BY <1>0, <1>2, <2>1, <2>3, RecoveredType DEF InkAllowed, Terminals
<1>3. CASE r.state \in BeforeSend
  <2>1. r.state \notin MidSend /\ r.state # "Absent" /\ ~InkAllowed(r)
    BY <1>3 DEF MidSend, BeforeSend, InkAllowed
  <2>2. Recovered(r) = [r EXCEPT !.state = "FailedKnown", !.reason = "Unknown"]
    BY <1>3, <2>1 DEF Recovered
  <2>3. Recovered(r).state = "FailedKnown" BY <2>2 DEF Entry
  <2> QED BY <1>0, <1>3, <2>1, <2>3, RecoveredType DEF Terminals
<1>4. CASE r.state \notin MidSend \cup BeforeSend
  <2>1. Recovered(r) = r BY <1>4 DEF Recovered
  <2> QED BY <1>0, <1>1, <1>4, <2>1 DEF States
<1> QED BY <1>2, <1>3, <1>4

(* A death in the middle of a write may have sent more of the payload.     *)
LEMMA RestartInk ==
  ASSUME IInv, Restart, NEW j \in JobId, MayHaveInk(j)', ~MayHaveInk(j)
  PROVE  journal[j].state = "SendStarted"
<1>1. PICK sent \in InFlightAtDeath : \E q \in Cutoffs(sent) : toDev' = Orphaned(q)
  BY DEF Restart
<1>0. PICK q \in Cutoffs(sent) : toDev' = Orphaned(q) BY <1>1
<1>2. paper'[j] = "none" /\ OnTheWire(j)' BY DEF MayHaveInk, Restart
<1>3. toDev' \in Seq(Items) BY RestartType DEF IInv, TypeOK
<1>4. InkIn(toDev', j) BY <1>2, <1>3, LenProperties DEF OnTheWire, InkIn
<1>5. ~InkIn(toDev, j) BY WireInk DEF MayHaveInk, IInv
<1> DEFINE bit == [k |-> "partial", j |-> Cur, live |-> TRUE]
<1>6. CASE sent = toDev
  <2>1. toDev \in Seq(Items) /\ q \in Seq(Items)
    BY <1>6, CutoffsType DEF IInv, TypeOK
  <2> QED BY <1>0, <1>4, <1>5, <1>6, <2>1, OrphanedInk, CutoffsInk
<1>7. CASE At("payload") /\ sent = Append(toDev, bit)
  <2>1. Cur \in JobId /\ journal[Cur].state = "SendStarted"
    BY <1>7, AtSchedule DEF OnSchedule, Pcs
  <2>2. bit \in Items /\ bit.j = Cur BY <2>1 DEF Items
  <2> HIDE DEF bit
  <2>3. /\ toDev \in Seq(Items) /\ sent \in Seq(Items)
        /\ Len(toDev) \in Nat /\ Len(sent) = Len(toDev) + 1
        /\ sent[Len(toDev) + 1] = bit
        /\ \A i \in 1..Len(toDev) : sent[i] = toDev[i]
    BY <1>7, <2>2, AppendProperties, LenProperties DEF IInv, TypeOK
  <2>4. InkIn(sent, j)
    <3>1. q \in Seq(Items) BY <1>0, <2>3, CutoffsType
    <3> QED BY <1>0, <1>4, <2>3, <3>1, OrphanedInk, CutoffsInk
  <2>5. j = Cur BY <1>5, <2>2, <2>3, <2>4 DEF InkIn
  <2> QED BY <2>1, <2>5
<1> QED BY <1>1, <1>6, <1>7 DEF InFlightAtDeath

LEMMA RestartSafe == IInv /\ Restart => InStep' /\ Safe' /\ Forward
<1> SUFFICES ASSUME IInv, Restart PROVE InStep' /\ Safe' /\ Forward OBVIOUS
<1>1. \A j \in JobId : journal[j] \in Entry /\ journal'[j] = Recovered(journal[j])
                       /\ pub'[j] = journal'[j].state
  BY DEF Restart, IInv, TypeOK
<1>2. tasks' = <<>> /\ worker'.pc = "idle" /\ worker'.pend = NoPend /\ jobs' = jobs
  BY DEF Restart, Idle
<1>3. QueueUntouched' /\ WorkerOnSchedule'
  <2>1. Len(tasks') = 0 BY <1>2
  <2> QED BY <1>2, <2>1 DEF QueueUntouched, WorkerOnSchedule
<1>4. OneRecordEach'
  BY <1>1, <1>2, RecoveredKeeps DEF IInv, InStep, OneRecordEach
<1>5. ASSUME NEW j \in JobId, MayHaveInk(j)' PROVE InkAllowed(journal'[j])
  <2>1. CASE MayHaveInk(j)
    BY <1>1, <2>1, InkNeedsARecord, RecoveredKeeps DEF IInv, Safe
  <2>2. CASE ~MayHaveInk(j)
    <3>1. journal[j].state \in MidSend BY <1>5, <2>2, RestartInk DEF MidSend
    <3> QED BY <1>1, <3>1, RecoveredKeeps DEF InkAllowed
  <2> QED BY <2>1, <2>2
<1>6. DurableBeforeWire' /\ FailedKnownPrintedNothing'
  <2>1. \A j \in JobId : InkAllowed(journal'[j]) =>
           /\ journal'[j].state \notin {"Absent"} \cup BeforeSend
           /\ ~(journal'[j].state = "FailedKnown" /\ journal'[j].reason # "CutterFault")
    BY DEF InkAllowed, MidSend, BeforeSend
  <2> QED BY <1>5, <2>1 DEF DurableBeforeWire, FailedKnownPrintedNothing
<1>7. PublishedIsDurable'
  <2>1. ASSUME NEW j \in JobId PROVE done'[j] => pub'[j] \in Terminals
    <3>1. done'[j] => j \in 1..Len(jobs)
      BY LenProperties DEF Restart, Created, IInv, TypeOK
    <3>2. j \in 1..Len(jobs) => journal[j].state # "Absent"
      BY LenProperties DEF IInv, InStep, OneRecordEach, TypeOK
    <3> QED BY <1>1, <3>1, <3>2, RecoveredKeeps
  <2>2. \A j \in JobId : Progress(pub'[j]) <= Progress(journal'[j].state)
    BY <1>1, RecoveredKeeps, TerminalIsLast DEF Entry
  <2> QED BY <1>1, <2>1, <2>2 DEF PublishedIsDurable
<1>8. Forward BY <1>1, RecoveredKeeps DEF Forward
<1> QED BY <1>3, <1>4, <1>6, <1>7, <1>8 DEF InStep, Safe

-----------------------------------------------------------------------------

LEMMA InitSafe == Init => InStep /\ Safe
<1> SUFFICES ASSUME Init PROVE InStep /\ Safe OBVIOUS
<1>1. Len(tasks) = 0 /\ Len(jobs) = 0 /\ worker.pc = "idle" /\ worker.pend = NoPend
  BY DEF Init, Idle
<1>2. QueueUntouched /\ WorkerOnSchedule BY <1>1 DEF QueueUntouched, WorkerOnSchedule
<1>3. \A j \in JobId : journal[j].state = "Absent" /\ pub[j] = "Absent" /\ ~done[j]
  BY DEF Init, NoRecord
<1>4. OneRecordEach BY <1>1, <1>3 DEF OneRecordEach, JobId
<1>5. \A j \in JobId : ~MayHaveInk(j) BY DEF Init, MayHaveInk, OnTheWire
<1>6. "Absent" \notin Terminals BY DEF Terminals
<1> QED BY <1>2, <1>3, <1>4, <1>5, <1>6, ProgressValues
        DEF InStep, Safe, DurableBeforeWire, FailedKnownPrintedNothing, PublishedIsDurable

LEMMA NextSafe == IInv /\ [Next]_vars => IInv' /\ Forward
<1> SUFFICES ASSUME IInv, [Next]_vars PROVE InStep' /\ Safe' /\ Forward
  BY StepType DEF IInv
<1>1. CASE Client BY <1>1, ClientSafe
<1>2. CASE RunJob
  BY <1>2, ConnectSafe, BeginJobIoSafe, SendPreflightSafe, AwaitPreflightSafe,
     LeaseTokensSafe, StartSendSafe, SendPayloadSafe, SendFenceSafe, BytesSentSafe,
     AwaitPrintSafe, SendCutSafe, AwaitCutSafe, QueryCutterSafe, AwaitCutterSafe,
     CompleteSafe
     DEF RunJob
<1>3. CASE Worker
  BY <1>2, <1>3, PublishSafe, FinishSafe, TakeSafe, CancelLeftoverSafe, CloseTransportSafe
     DEF Worker
<1>4. CASE Environment
  BY <1>4, ReceiveSafe, PrinterPrintsSafe, PrinterAnswersQuerySafe, LinkDropsSafe,
     RestartSafe
     DEF Environment
<1>5. CASE UNCHANGED vars
  BY <1>5, FrameStep, SameInk DEF vars
<1> QED BY <1>1, <1>3, <1>4, <1>5 DEF Next

(* Each step of submit(), runJob(), the connection, the printer and a      *)
(* restart keeps the journal, what observers were told, the wire, the      *)
(* paper, the task queue and the worker's position in agreement.           *)
THEOREM Inductive == Spec => []IInv
<1>1. Init => IInv BY InitType, InitSafe DEF IInv
<1>2. IInv /\ [Next]_vars => IInv' BY NextSafe
<1> QED BY <1>1, <1>2, PTL DEF Spec

(* The worker, its queue, the journal and the wire agree about every job   *)
(* at every instant.                                                       *)
THEOREM AlwaysInStep == Spec => []InStep
<1>1. IInv => InStep BY DEF IInv
<1> QED BY <1>1, Inductive, PTL

(* runJob's ordering rule: no receipt byte leaves before the journal says  *)
(* that it may.                                                            *)
THEOREM JournalLeadsWire == Spec => []DurableBeforeWire
<1>1. IInv => DurableBeforeWire BY DEF IInv, Safe
<1> QED BY <1>1, Inductive, PTL

(* A job reported FailedKnown, by the worker, by stop() or by the recovery *)
(* of a dead process, printed nothing, the cutter fault excepted.          *)
THEOREM FailureIsClean == Spec => []FailedKnownPrintedNothing
<1>1. IInv => FailedKnownPrintedNothing BY DEF IInv, Safe
<1> QED BY <1>1, Inductive, PTL

(* advance() persists before it publishes: no observer is ahead of the     *)
(* journal, and a terminal state, once told, is the recorded one.          *)
THEOREM JournalLeadsObservers == Spec => []PublishedIsDurable
<1>1. IInv => PublishedIsDurable BY DEF IInv, Safe
<1> QED BY <1>1, Inductive, PTL

(* The journal of a job only moves forward and never leaves a terminal     *)
(* state, over a crash and its recovery too.                               *)
THEOREM JournalMovesForward == Spec => ForwardOnly
<1>1. IInv /\ [Next]_vars => Forward BY NextSafe
<1>2. IInv /\ [Next]_vars => [Forward]_vars BY <1>1
<1>3. Spec => [][Forward]_vars BY <1>2, Inductive, PTL DEF Spec
<1> QED BY <1>3 DEF ForwardOnly, Forward

-----------------------------------------------------------------------------
(***************************************************************************)
(* PrintEngine implements JobLedger under the mapping PrintEngine!Ledger:  *)
(* the initial states map to the ledger's, and every step of a client, of  *)
(* the worker, of the link, of the printer or of a dying process is one    *)
(* step of the ledger or leaves it alone.  IInv supplies what a step of    *)
(* the ledger requires of the journal and of the wire.                     *)
(***************************************************************************)

LedgerStep == [Ledger!LedgerNext]_(Ledger!lvars)

(* What the ledger shows of one job, before and after a step.              *)
SameLedger(j) == Stage(journal[j])' = Stage(journal[j])
SameTold(j)   == Told(j)' = Told(j)
SameOut(j)    == MayHaveInk(j)' <=> MayHaveInk(j)
Untouched(j)  == SameLedger(j) /\ SameTold(j) /\ SameOut(j)

(* The ledger's actions on one job, read at that job alone.                *)
AcceptAt(j) ==
  /\ Stage(journal[j]) = "absent"
  /\ Stage(journal[j])' \in {"safe", "failed"} /\ Told(j)' = Stage(journal[j])'
  /\ SameOut(j)
ExposeAt(j) ==
  /\ Stage(journal[j]) = "safe" /\ Stage(journal[j])' = "exposed"
  /\ SameTold(j) /\ SameOut(j)
SendAt(j) ==
  /\ Stage(journal[j]) = "exposed" /\ SameLedger(j)
  /\ SameTold(j) /\ MayHaveInk(j)'
FailAt(j) ==
  /\ Stage(journal[j]) \in {"safe", "exposed"} /\ ~MayHaveInk(j)
  /\ Stage(journal[j])' = "failed"
  /\ SameTold(j) \/ Told(j)' = "failed"
  /\ SameOut(j)
SettleAt(j) ==
  /\ Stage(journal[j]) = "exposed"
  /\ \/ Stage(journal[j])' \in {"faulted", "complete", "unknown"} /\ SameOut(j)
     \/ Stage(journal[j])' = "unknown" /\ MayHaveInk(j)'
  /\ SameTold(j)
TellAt(j) ==
  SameLedger(j) /\ Told(j)' = Stage(journal[j]) /\ SameOut(j)

StepAt(j) ==
  \/ Untouched(j) \/ AcceptAt(j) \/ ExposeAt(j) \/ SendAt(j) \/ FailAt(j) \/ SettleAt(j)
  \/ TellAt(j)

-----------------------------------------------------------------------------
(* From one job to the ledger.                                             *)

(* A function changed at one place.                                        *)
LEMMA ChangedAt ==
  ASSUME NEW f, f = [j \in JobId |-> f[j]], NEW g, g = [j \in JobId |-> g[j]],
         NEW j0 \in JobId, \A j \in JobId \ {j0} : g[j] = f[j]
  PROVE  g = [f EXCEPT ![j0] = g[j0]] /\ (g[j0] = f[j0] => g = f)
OBVIOUS

LEMMA OneJobMoves ==
  ASSUME NEW j0 \in JobId, StepAt(j0), \A j \in JobId \ {j0} : Untouched(j)
  PROVE  LedgerStep
<1> DEFINE L == [j \in JobId |-> Stage(journal[j])]
           T == [j \in JobId |-> Told(j)]
           O == [j \in JobId |-> MayHaveInk(j)]
<1>1. /\ L' = [L EXCEPT ![j0] = L'[j0]]
      /\ L'[j0] = L[j0] => L' = L
      /\ L[j0] = Stage(journal[j0]) /\ L'[j0] = Stage(journal[j0])'
  <2>1. \A j \in JobId \ {j0} : L'[j] = L[j] BY DEF Untouched, SameLedger
  <2>2. L = [j \in JobId |-> L[j]] /\ L' = [j \in JobId |-> L'[j]] OBVIOUS
  <2>3. L[j0] = Stage(journal[j0]) /\ L'[j0] = Stage(journal[j0])' OBVIOUS
  <2> HIDE DEF L
  <2> QED BY <2>1, <2>2, <2>3, ChangedAt
<1>2. /\ T' = [T EXCEPT ![j0] = T'[j0]]
      /\ T'[j0] = T[j0] => T' = T
      /\ T[j0] = Told(j0) /\ T'[j0] = Told(j0)'
  <2>1. \A j \in JobId \ {j0} : T'[j] = T[j] BY DEF Untouched, SameTold
  <2>2. T = [j \in JobId |-> T[j]] /\ T' = [j \in JobId |-> T'[j]] OBVIOUS
  <2>3. T[j0] = Told(j0) /\ T'[j0] = Told(j0)' OBVIOUS
  <2> HIDE DEF T
  <2> QED BY <2>1, <2>2, <2>3, ChangedAt
<1>3. /\ O' = [O EXCEPT ![j0] = O'[j0]]
      /\ O'[j0] = O[j0] => O' = O
      /\ O[j0] = MayHaveInk(j0) /\ O'[j0] = MayHaveInk(j0)'
  <2>1. \A j \in JobId \ {j0} : O'[j] = O[j]
    BY DEF Untouched, SameOut, MayHaveInk
  <2>2. O = [j \in JobId |-> O[j]] /\ O' = [j \in JobId |-> O'[j]] OBVIOUS
  <2>3. O[j0] = MayHaveInk(j0) /\ O'[j0] = MayHaveInk(j0)' OBVIOUS
  <2> HIDE DEF O
  <2> QED BY <2>1, <2>2, <2>3, ChangedAt
<1> HIDE DEF L, T, O
<1>4. CASE Untouched(j0)
  <2>1. L' = L /\ T' = T /\ O' = O
    BY <1>1, <1>2, <1>3, <1>4 DEF Untouched, SameLedger, SameTold, SameOut, MayHaveInk
  <2>2. UNCHANGED Ledger!lvars BY <2>1 DEF Ledger!lvars, L, T, O
  <2> QED BY <2>2 DEF LedgerStep
<1>5. CASE AcceptAt(j0)
  <2>1. /\ L[j0] = "absent" /\ L'[j0] \in {"safe", "failed"} /\ T'[j0] = L'[j0]
        /\ O' = O
    BY <1>1, <1>2, <1>3, <1>5 DEF AcceptAt, SameOut, MayHaveInk
  <2>2. /\ L[j0] = "absent" /\ O' = O
        /\ \E s \in {"safe", "failed"} : L' = [L EXCEPT ![j0] = s] /\ T' = [T EXCEPT ![j0] = s]
    BY <1>1, <1>2, <2>1
  <2>3. Ledger!Accept(j0) BY <2>2 DEF Ledger!Accept, L, T, O
  <2> QED BY <2>3 DEF LedgerStep, Ledger!LedgerNext
<1>6. CASE ExposeAt(j0)
  <2>1. L[j0] = "safe" /\ L'[j0] = "exposed" /\ T' = T /\ O' = O
    BY <1>1, <1>2, <1>3, <1>6 DEF ExposeAt, SameTold, SameOut, MayHaveInk
  <2>2. L[j0] = "safe" /\ L' = [L EXCEPT ![j0] = "exposed"] /\ T' = T /\ O' = O
    BY <1>1, <2>1
  <2>3. Ledger!Expose(j0) BY <2>2 DEF Ledger!Expose, L, T, O
  <2> QED BY <2>3 DEF LedgerStep, Ledger!LedgerNext
<1>7. CASE SendAt(j0)
  <2>1. L[j0] = "exposed" /\ L' = L /\ T' = T /\ O'[j0] = TRUE
    BY <1>1, <1>2, <1>3, <1>7 DEF SendAt, SameLedger, SameTold, MayHaveInk
  <2>2. L[j0] = "exposed" /\ L' = L /\ T' = T /\ O' = [O EXCEPT ![j0] = TRUE]
    BY <1>3, <2>1
  <2>3. Ledger!Send(j0) BY <2>2 DEF Ledger!Send, L, T, O
  <2> QED BY <2>3 DEF LedgerStep, Ledger!LedgerNext
<1>8. CASE FailAt(j0)
  <2>1. /\ L[j0] \in {"safe", "exposed"} /\ ~O[j0] /\ L'[j0] = "failed"
        /\ T' = T \/ T'[j0] = "failed"
        /\ O' = O
    BY <1>1, <1>2, <1>3, <1>8 DEF FailAt, SameTold, SameOut, MayHaveInk
  <2>2. /\ L[j0] \in {"safe", "exposed"} /\ ~O[j0] /\ L' = [L EXCEPT ![j0] = "failed"]
        /\ T' \in {T, [T EXCEPT ![j0] = "failed"]} /\ O' = O
    BY <1>1, <1>2, <2>1
  <2>3. Ledger!Fail(j0) BY <2>2 DEF Ledger!Fail, L, T, O
  <2> QED BY <2>3 DEF LedgerStep, Ledger!LedgerNext
<1>9. CASE SettleAt(j0)
  <2>1. /\ L[j0] = "exposed" /\ T' = T
        /\ \/ L'[j0] \in {"faulted", "complete", "unknown"} /\ O' = O
           \/ L'[j0] = "unknown" /\ O'[j0] = TRUE
    BY <1>1, <1>2, <1>3, <1>9 DEF SettleAt, SameTold, SameOut, MayHaveInk
  <2>2. /\ L[j0] = "exposed" /\ T' = T
        /\ \/ /\ \E s \in {"faulted", "complete", "unknown"} : L' = [L EXCEPT ![j0] = s]
              /\ O' = O
           \/ L' = [L EXCEPT ![j0] = "unknown"] /\ O' = [O EXCEPT ![j0] = TRUE]
    BY <1>1, <1>3, <2>1
  <2>3. Ledger!Settle(j0) BY <2>2 DEF Ledger!Settle, L, T, O
  <2> QED BY <2>3 DEF LedgerStep, Ledger!LedgerNext
<1>10. CASE TellAt(j0)
  <2>1. L' = L /\ O' = O /\ T'[j0] = L[j0]
    BY <1>1, <1>2, <1>3, <1>10 DEF TellAt, SameLedger, SameOut, MayHaveInk
  <2>2. L' = L /\ O' = O /\ T' = [T EXCEPT ![j0] = L[j0]] BY <1>2, <2>1
  <2>3. Ledger!Tell(j0) BY <2>2 DEF Ledger!Tell, L, T, O
  <2> QED BY <2>3 DEF LedgerStep, Ledger!LedgerNext
<1> QED BY <1>4, <1>5, <1>6, <1>7, <1>8, <1>9, <1>10 DEF StepAt

-----------------------------------------------------------------------------
(* Stages.                                                                 *)

LEMMA StageOf ==
  ASSUME NEW r \in Entry
  PROVE  /\ r.state \in BeforeSend => Stage(r) = "safe"
         /\ r.state \in MidSend => Stage(r) = "exposed"
         /\ r.state = "Absent" => Stage(r) = "absent"
         /\ r.state = "DoneSoftware" => Stage(r) = "complete"
         /\ r.state = "Unknown" => Stage(r) = "unknown"
         /\ r.state = "FailedKnown" /\ r.reason = "CutterFault" => Stage(r) = "faulted"
         /\ r.state = "FailedKnown" /\ r.reason # "CutterFault" => Stage(r) = "failed"
BY DEF Stage, BeforeSend, MidSend

(* What was told of a job that has not failed does not depend on why it    *)
(* might have.                                                             *)
LEMMA ToldStays ==
  ASSUME NEW j \in JobId, journal[j] \in Entry, journal'[j] \in Entry,
         pub'[j] = pub[j], pub[j] # "FailedKnown"
  PROVE  SameTold(j)
<1> DEFINE a == [journal[j] EXCEPT !.state = pub[j]]
           b == [journal'[j] EXCEPT !.state = pub[j]]
<1>1. a.state = pub[j] /\ b.state = pub[j] BY DEF Entry
<1>2. Told(j) = Stage(a) /\ Told(j)' = Stage(b) BY DEF Told, Stage
<1> HIDE DEF a, b
<1>3. Stage(a) = Stage(b) BY <1>1 DEF Stage
<1> QED BY <1>2, <1>3 DEF SameTold

LEMMA AllStay ==
  ASSUME UNCHANGED <<journal, pub>>, NEW j \in JobId, SameOut(j) PROVE Untouched(j)
BY DEF Untouched, SameLedger, SameTold, Told, Stage

LEMMA LeftAlone ==
  ASSUME UNCHANGED <<journal, pub>>, \A j \in JobId : SameOut(j) PROVE LedgerStep
<1>1. \A j \in JobId : Untouched(j) BY AllStay
<1>2. CASE JobId = {}
  <2>1. UNCHANGED Ledger!lvars BY <1>2 DEF Ledger!lvars
  <2> QED BY <2>1 DEF LedgerStep
<1>3. CASE JobId # {}
  <2>1. PICK j0 \in JobId : TRUE BY <1>3
  <2> QED BY <1>1, <2>1, OneJobMoves DEF StepAt
<1> QED BY <1>2, <1>3

-----------------------------------------------------------------------------
(* A step of runJob changes the record of its job only.                    *)

LEMMA WorkingRecord ==
  ASSUME IInv, worker.pc # "idle", journal[Cur].state \notin Terminals
  PROVE  /\ Cur \in JobId /\ journal[Cur] \in Entry
         /\ journal[Cur].state \in BeforeSend \cup MidSend
         /\ pub[Cur] # "FailedKnown"
<1>1. Cur \in JobId /\ Cur \in 1..Len(jobs) /\ Len(jobs) \in Nat
  BY LenProperties DEF IInv, InStep, WorkerOnSchedule, TypeOK, Cur
<1>2. journal[Cur] \in Entry BY <1>1 DEF IInv, TypeOK
<1>3. journal[Cur].state # "Absent"
  BY <1>1 DEF IInv, InStep, OneRecordEach
<1>4. pub[Cur] # "FailedKnown"
  BY <1>1 DEF IInv, Safe, PublishedIsDurable, Terminals
<1> QED BY <1>1, <1>2, <1>3, <1>4 DEF Entry, States, Terminals

LEMMA JobMoves ==
  ASSUME IInv, worker.pc # "idle", journal[Cur].state \notin Terminals,
         NEW j0, j0 = Cur,
         NEW r \in Entry, journal' = [journal EXCEPT ![Cur] = r], UNCHANGED pub,
         \A j \in JobId \ {j0} : SameOut(j)
  PROVE  /\ j0 \in JobId /\ Stage(journal[j0])' = Stage(r) /\ SameTold(j0)
         /\ StepAt(j0) => LedgerStep
<1>1. j0 \in JobId /\ journal[j0] \in Entry /\ pub[j0] # "FailedKnown"
  BY WorkingRecord
<1>2. journal'[j0] = r /\ \A j \in JobId \ {j0} : journal'[j] = journal[j]
  BY <1>1 DEF IInv, TypeOK
<1>3. Stage(journal[j0])' = Stage(r) BY <1>2 DEF Stage
<1>4. SameTold(j0) BY <1>1, <1>2, ToldStays
<1>5. \A j \in JobId \ {j0} : Untouched(j)
  BY <1>2 DEF Untouched, SameLedger, SameTold, Told, Stage
<1> QED BY <1>1, <1>3, <1>4, <1>5, OneJobMoves

LEMMA AdvanceShows ==
  ASSUME IInv, worker.pc # "idle", journal[Cur].state \notin Terminals,
         NEW s \in MidSend \cup {"PreflightOk"}, NEW c \in 0..4, NEW pc, Advance(s, c, pc),
         s = "PreflightOk" => journal[Cur].state \in BeforeSend,
         UNCHANGED <<pub, toDev, paper>>
  PROVE  LedgerStep
<1>1. PICK j0 \in JobId : j0 = Cur BY WorkingRecord
<1>2. s \in States /\ "None" \in Reasons BY DEF States, BeforeSend, Reasons
<1>3. PICK r \in Entry : /\ r.state = s
                         /\ journal' = [journal EXCEPT ![Cur] = r]
  BY <1>1, <1>2, RecordIs DEF Advance, IInv
<1>4. \A j \in JobId : SameOut(j) BY SameInk DEF SameOut
<1>5. /\ Stage(journal[j0])' = Stage(r) /\ SameTold(j0)
      /\ StepAt(j0) => LedgerStep
  BY <1>1, <1>3, <1>4, JobMoves
<1>6. journal[j0] \in Entry /\ journal[j0].state \in BeforeSend \cup MidSend
  BY <1>1, WorkingRecord
<1>7. CASE s = "PreflightOk"
  <2>1. Stage(journal[j0]) = "safe" /\ Stage(r) = "safe"
    BY <1>1, <1>3, <1>6, <1>7, StageOf DEF BeforeSend
  <2> QED BY <1>4, <1>5, <2>1 DEF StepAt, Untouched, SameLedger
<1>8. CASE s \in MidSend
  <2>1. Stage(journal[j0]) \in {"safe", "exposed"} /\ Stage(r) = "exposed"
    BY <1>3, <1>6, <1>8, StageOf
  <2> QED BY <1>4, <1>5, <2>1 DEF StepAt, Untouched, SameLedger, ExposeAt
<1> QED BY <1>7, <1>8

LEMMA TerminateShows ==
  ASSUME IInv, worker.pc # "idle", journal[Cur].state \notin Terminals,
         NEW s \in Terminals, NEW c \in 0..4, NEW why \in Reasons, Terminate(s, c, why),
         s # "FailedKnown" \/ why = "CutterFault" => journal[Cur].state \in MidSend,
         s = "FailedKnown" /\ why # "CutterFault" => ~MayHaveInk(Cur),
         UNCHANGED pub, \A j \in JobId : SameOut(j)
  PROVE  LedgerStep
<1>1. PICK j0 \in JobId : j0 = Cur BY WorkingRecord
<1>2. s \in States BY DEF States
<1>3. PICK r \in Entry : /\ r.state = s /\ r.reason = why
                         /\ journal' = [journal EXCEPT ![Cur] = r]
  BY <1>1, <1>2, RecordIs DEF Terminate, IInv
<1>4. /\ Stage(journal[j0])' = Stage(r) /\ SameTold(j0)
      /\ StepAt(j0) => LedgerStep
  BY <1>1, <1>3, JobMoves
<1>5. journal[j0] \in Entry /\ journal[j0].state \in BeforeSend \cup MidSend
  BY <1>1, WorkingRecord
<1>6. CASE s = "FailedKnown" /\ why # "CutterFault"
  <2>1. Stage(journal[j0]) \in {"safe", "exposed"} /\ Stage(r) = "failed"
    BY <1>3, <1>5, <1>6, StageOf
  <2>2. ~MayHaveInk(j0) BY <1>1, <1>6
  <2> QED BY <1>4, <2>1, <2>2 DEF StepAt, FailAt
<1>7. CASE s # "FailedKnown" \/ why = "CutterFault"
  <2>1. Stage(journal[j0]) = "exposed" BY <1>1, <1>5, <1>7, StageOf
  <2>2. Stage(r) \in {"faulted", "complete", "unknown"}
    BY <1>3, <1>7, StageOf DEF Terminals
  <2> QED BY <1>4, <2>1, <2>2 DEF StepAt, SettleAt
<1> QED BY <1>6, <1>7

(* What is sent stays out.                                                 *)
LEMMA SendKeepsInk ==
  ASSUME TypeOK, worker.pc # "idle", UNCHANGED paper,
         NEW kind \in {"query", "payload", "partial", "fence", "cut"},
         toDev' = Append(toDev, [k |-> kind, j |-> Cur, live |-> TRUE]),
         NEW j \in JobId
  PROVE  /\ MayHaveInk(j) => MayHaveInk(j)'
         /\ kind \in {"payload", "partial"} /\ j = Cur => MayHaveInk(j)'
<1> DEFINE item == [k |-> kind, j |-> Cur, live |-> TRUE]
<1>1. item \in Items /\ item.j = Cur /\ item.k = kind BY DEF TypeOK, Items, Cur
<1>2. toDev \in Seq(Items) /\ toDev' = Append(toDev, item) BY DEF TypeOK
<1> HIDE DEF item
<1>3. toDev' \in Seq(Items) /\ Len(toDev') = Len(toDev) + 1 /\ Len(toDev) \in Nat
      /\ (\A i \in 1..Len(toDev) : toDev'[i] = toDev[i])
      /\ toDev'[Len(toDev) + 1] = item
  BY <1>1, <1>2, AppendProperties, LenProperties
<1>4. DOMAIN toDev = 1..Len(toDev) /\ DOMAIN toDev' = 1..(Len(toDev) + 1)
  BY <1>2, <1>3, LenProperties
<1> QED BY <1>1, <1>3, <1>4 DEF MayHaveInk, OnTheWire

LEMMA QuietSend ==
  ASSUME TypeOK, worker.pc # "idle", UNCHANGED paper,
         NEW kind \in {"query", "fence", "cut"}, Sent(kind) \/ SentNothing
  PROVE  \A j \in JobId : SameOut(j)
<1>1. CASE SentNothing BY <1>1, SameInk DEF SentNothing, SameOut
<1>2. CASE Sent(kind) BY <1>2, SendInk, SendKeepsInk DEF Sent, SameOut
<1> QED BY <1>1, <1>2

-----------------------------------------------------------------------------
(* The actions of runJob.                                                  *)

LEMMA ConnectMaps == IInv /\ Connect => LedgerStep
<1> SUFFICES ASSUME IInv, Connect PROVE LedgerStep OBVIOUS
<1>1. /\ worker.pc # "idle" /\ worker.conf \in 0..4
      /\ Cur \in JobId /\ journal[Cur].state = "Queued"
  BY AtSchedule DEF Connect, OnSchedule, Pcs
<1>2. ~MayHaveInk(Cur) BY <1>1 DEF IInv, Safe, DurableBeforeWire, BeforeSend
<1>3. \A j \in JobId : SameOut(j) BY SameInk DEF Connect, SameOut
<1>4. CASE UNCHANGED journal BY <1>3, <1>4, LeftAlone DEF Connect
<1>5. CASE Terminate("FailedKnown", worker.conf, "TransportUnreachable")
  BY <1>1, <1>2, <1>3, <1>5, TerminateShows DEF Connect, Terminals, Reasons
<1> QED BY <1>4, <1>5 DEF Connect

LEMMA BeginJobIoMaps == IInv /\ BeginJobIo => LedgerStep
BY SameInk, LeftAlone DEF BeginJobIo, SameOut

LEMMA SendPreflightMaps == IInv /\ SendPreflight => LedgerStep
<1> SUFFICES ASSUME IInv, SendPreflight PROVE LedgerStep OBVIOUS
<1>1. /\ worker.pc # "idle" /\ worker.conf \in 0..4
      /\ Cur \in JobId /\ journal[Cur].state = "Queued"
  BY AtSchedule DEF SendPreflight, OnSchedule, Pcs
<1>2. ~MayHaveInk(Cur) BY <1>1 DEF IInv, Safe, DurableBeforeWire, BeforeSend
<1>3. \A j \in JobId : SameOut(j) BY <1>1, QuietSend DEF SendPreflight, IInv
<1>4. CASE UNCHANGED journal BY <1>3, <1>4, LeftAlone DEF SendPreflight
<1>5. CASE Terminate("FailedKnown", worker.conf, "TransportUnreachable")
  BY <1>1, <1>2, <1>3, <1>5, TerminateShows DEF SendPreflight, Terminals, Reasons
<1> QED BY <1>4, <1>5 DEF SendPreflight

LEMMA AwaitPreflightMaps == IInv /\ AwaitPreflight => LedgerStep
<1> SUFFICES ASSUME IInv, AwaitPreflight PROVE LedgerStep OBVIOUS
<1>1. /\ worker.pc # "idle" /\ worker.conf \in 0..4
      /\ Cur \in JobId /\ journal[Cur].state = "Queued"
  BY AtSchedule DEF AwaitPreflight, OnSchedule, Pcs
<1>2. ~MayHaveInk(Cur) BY <1>1 DEF IInv, Safe, DurableBeforeWire, BeforeSend
<1>3. \A j \in JobId : SameOut(j) BY SameInk DEF AwaitPreflight, SameOut
<1>4. CASE UNCHANGED journal BY <1>3, <1>4, LeftAlone DEF AwaitPreflight
<1>5. CASE \E why \in {"TransportUnreachable", "Preflight"} :
             Terminate("FailedKnown", worker.conf, why)
  BY <1>1, <1>2, <1>3, <1>5, TerminateShows DEF AwaitPreflight, Terminals, Reasons
<1>6. CASE Advance("PreflightOk", PrinterHealthy, "lease")
  BY <1>1, <1>6, AdvanceShows DEF AwaitPreflight, PrinterHealthy, BeforeSend, Terminals
<1> QED BY <1>4, <1>5, <1>6 DEF AwaitPreflight

LEMMA LeaseTokensMaps == IInv /\ LeaseTokens => LedgerStep
<1> SUFFICES ASSUME IInv, LeaseTokens PROVE LedgerStep OBVIOUS
<1>1. /\ worker.pc # "idle" /\ Cur \in JobId /\ journal[Cur].state \in BeforeSend
      /\ journal[Cur].state \notin Terminals
  BY AtSchedule DEF LeaseTokens, OnSchedule, Pcs, BeforeSend, Terminals
<1>2. \A j \in JobId : SameOut(j) BY SameInk DEF LeaseTokens, SameOut
<1>3. CASE UNCHANGED journal BY <1>2, <1>3, LeftAlone DEF LeaseTokens
<1>4. CASE journal' = [journal EXCEPT ![Cur].tok = nextSlot + 1]
  <2> DEFINE slot == nextSlot + 1
             r == [journal[Cur] EXCEPT !.tok = slot]
  <2>1. journal[Cur] \in Entry /\ slot \in Nat BY <1>1 DEF IInv, TypeOK
  <2>2. journal' = [journal EXCEPT ![Cur].tok = slot] BY <1>4
  <2> HIDE DEF slot
  <2>3. r \in Entry /\ r.state = journal[Cur].state BY <2>1 DEF Entry
  <2>4. journal' = [journal EXCEPT ![Cur] = r] BY <2>2 DEF IInv, TypeOK
  <2> HIDE DEF r
  <2>5. PICK j0 \in JobId, r0 \in Entry : j0 = Cur /\ r0 = r BY <1>1, <2>3
  <2>6. /\ Stage(journal[j0])' = Stage(r0) /\ SameTold(j0)
        /\ StepAt(j0) => LedgerStep
    BY <1>1, <1>2, <2>4, <2>5, JobMoves DEF LeaseTokens
  <2>7. Stage(journal[j0]) = "safe" /\ Stage(r0) = "safe"
    BY <1>1, <2>1, <2>3, <2>5, StageOf
  <2> QED BY <1>1, <1>2, <2>5, <2>6, <2>7 DEF StepAt, Untouched, SameLedger
<1> QED BY <1>3, <1>4 DEF LeaseTokens

LEMMA StartSendMaps == IInv /\ StartSend => LedgerStep
<1> SUFFICES ASSUME IInv, StartSend PROVE LedgerStep OBVIOUS
<1>1. /\ worker.pc # "idle" /\ worker.conf \in 0..4 /\ journal[Cur].state \in BeforeSend
  BY AtSchedule DEF StartSend, OnSchedule, Pcs
<1> QED BY <1>1, AdvanceShows DEF StartSend, MidSend, BeforeSend, Terminals

LEMMA SendPayloadMaps == IInv /\ SendPayload => LedgerStep
<1> SUFFICES ASSUME IInv, SendPayload PROVE LedgerStep OBVIOUS
<1>1. /\ worker.pc # "idle" /\ worker.conf \in 0..4
      /\ Cur \in JobId /\ journal[Cur].state = "SendStarted" /\ ~MayHaveInk(Cur)
  BY AtSchedule DEF SendPayload, OnSchedule, Pcs
<1>2. PICK j0 \in JobId : j0 = Cur BY <1>1
<1>3. CASE SentNothing /\ Terminate("FailedKnown", worker.conf, "TransportUnreachable")
  <2>1. \A j \in JobId : SameOut(j) BY <1>3, SameInk DEF SendPayload, SentNothing, SameOut
  <2> QED BY <1>1, <1>3, <2>1, TerminateShows DEF SendPayload, Terminals, Reasons
<1>4. CASE Sent("payload") /\ UNCHANGED journal
  <2>1. MayHaveInk(j0)' /\ \A j \in JobId \ {j0} : SameOut(j)
    BY <1>1, <1>2, <1>4, PayloadInk, SendKeepsInk DEF SendPayload, Sent, SameOut, IInv
  <2>2. \A j \in JobId \ {j0} : Untouched(j) BY <1>4, <2>1, AllStay DEF SendPayload
  <2>3. SameLedger(j0) /\ SameTold(j0) /\ journal[j0] \in Entry
    BY <1>4 DEF SendPayload, SameLedger, SameTold, Told, Stage, IInv, TypeOK
  <2>4. Stage(journal[j0]) = "exposed" BY <1>1, <1>2, <2>3, StageOf DEF MidSend
  <2> QED BY <2>1, <2>2, <2>3, <2>4, OneJobMoves DEF StepAt, SendAt
<1>5. CASE SentPart /\ Terminate("Unknown", worker.conf, "Unknown")
  <2>1. MayHaveInk(j0)' /\ \A j \in JobId \ {j0} : SameOut(j)
    BY <1>1, <1>2, <1>5, PayloadInk, SendKeepsInk DEF SendPayload, SentPart, SameOut, IInv
  <2>2. "Unknown" \in States /\ "Unknown" \in Reasons BY ConstantsType
  <2>3. PICK r \in Entry : /\ r.state = "Unknown"
                           /\ journal' = [journal EXCEPT ![Cur] = r]
    BY <1>1, <1>5, <2>2, RecordIs DEF Terminate, IInv
  <2>4. journal[Cur].state \notin Terminals BY <1>1 DEF Terminals
  <2>5. /\ Stage(journal[j0])' = Stage(r) /\ SameTold(j0)
        /\ StepAt(j0) => LedgerStep
    BY <1>1, <1>2, <2>1, <2>3, <2>4, JobMoves DEF SendPayload
  <2>6. Stage(journal[j0]) = "exposed" /\ Stage(r) = "unknown"
    BY <1>1, <1>2, <2>3, StageOf DEF MidSend, IInv, TypeOK
  <2> QED BY <2>1, <2>5, <2>6 DEF StepAt, SettleAt
<1> QED BY <1>3, <1>4, <1>5 DEF SendPayload

LEMMA SendFenceMaps == IInv /\ SendFence => LedgerStep
<1> SUFFICES ASSUME IInv, SendFence PROVE LedgerStep OBVIOUS
<1>1. /\ worker.pc # "idle" /\ worker.conf \in 0..4 /\ journal[Cur].state = "SendStarted"
  BY AtSchedule DEF SendFence, OnSchedule, Pcs
<1>2. \A j \in JobId : SameOut(j)
  <2>1. Sent("fence") \/ Sent("cut") \/ SentNothing BY DEF SendFence, SentNothing
  <2> QED BY <1>1, <2>1, QuietSend DEF SendFence, IInv
<1>3. CASE UNCHANGED journal BY <1>2, <1>3, LeftAlone DEF SendFence
<1>4. CASE Terminate("Unknown", worker.conf, "Unknown")
  BY <1>1, <1>2, <1>4, TerminateShows DEF SendFence, Terminals, Reasons, MidSend
<1> QED BY <1>3, <1>4 DEF SendFence

LEMMA BytesSentMaps == IInv /\ BytesSent => LedgerStep
<1> SUFFICES ASSUME IInv, BytesSent PROVE LedgerStep OBVIOUS
<1>1. /\ worker.pc # "idle" /\ worker.conf \in 0..4 /\ journal[Cur].state = "SendStarted"
  BY AtSchedule DEF BytesSent, OnSchedule, Pcs
<1> QED BY <1>1, AdvanceShows DEF BytesSent, MidSend, Terminals

LEMMA AwaitPrintMaps == IInv /\ AwaitPrint => LedgerStep
<1> SUFFICES ASSUME IInv, AwaitPrint PROVE LedgerStep OBVIOUS
<1>1. /\ worker.pc # "idle" /\ worker.conf \in 0..4 /\ journal[Cur].state = "BytesSent"
  BY AtSchedule DEF AwaitPrint, OnSchedule, Pcs
<1>2. \A j \in JobId : SameOut(j) BY SameInk DEF AwaitPrint, SameOut
<1>3. CASE \E pc : Advance("PrintConfirmed", PrintConfirmed, pc)
  BY <1>1, <1>3, AdvanceShows DEF AwaitPrint, MidSend, Terminals, PrintConfirmed
<1>4. CASE \E why \in Reasons : Terminate("Unknown", worker.conf, why)
  BY <1>1, <1>2, <1>4, TerminateShows DEF AwaitPrint, Terminals, MidSend
<1> QED BY <1>3, <1>4 DEF AwaitPrint, SilenceReason, Reasons

LEMMA SendCutMaps == IInv /\ SendCut => LedgerStep
<1> SUFFICES ASSUME IInv, SendCut PROVE LedgerStep OBVIOUS
<1>1. /\ worker.pc # "idle" /\ worker.conf \in 0..4 /\ journal[Cur].state = "PrintConfirmed"
  BY AtSchedule DEF SendCut, OnSchedule, Pcs
<1>2. \A j \in JobId : SameOut(j) BY <1>1, QuietSend DEF SendCut, IInv
<1>3. CASE UNCHANGED journal BY <1>2, <1>3, LeftAlone DEF SendCut
<1>4. CASE Terminate("Unknown", worker.conf, "Unknown")
  BY <1>1, <1>2, <1>4, TerminateShows DEF SendCut, Terminals, Reasons, MidSend
<1> QED BY <1>3, <1>4 DEF SendCut

LEMMA AwaitCutMaps == IInv /\ AwaitCut => LedgerStep
<1> SUFFICES ASSUME IInv, AwaitCut PROVE LedgerStep OBVIOUS
<1>1. /\ worker.pc # "idle" /\ worker.conf \in 0..4 /\ journal[Cur].state = "PrintConfirmed"
  BY AtSchedule DEF AwaitCut, OnSchedule, Pcs
<1>2. \A j \in JobId : SameOut(j) BY SameInk DEF AwaitCut, SameOut
<1>3. CASE \E pc : Advance("CutCommandProcessed", CutProcessed, pc)
  BY <1>1, <1>3, AdvanceShows DEF AwaitCut, MidSend, Terminals, CutProcessed
<1>4. CASE \E why \in Reasons : Terminate("Unknown", worker.conf, why)
  BY <1>1, <1>2, <1>4, TerminateShows DEF AwaitCut, Terminals, MidSend
<1> QED BY <1>3, <1>4 DEF AwaitCut, SilenceReason, Reasons

LEMMA QueryCutterMaps == IInv /\ QueryCutter => LedgerStep
<1> SUFFICES ASSUME IInv, QueryCutter PROVE LedgerStep OBVIOUS
<1>1. worker.pc # "idle" BY AtSchedule DEF QueryCutter, Pcs
<1>2. \A j \in JobId : SameOut(j) BY <1>1, QuietSend DEF QueryCutter, IInv
<1> QED BY <1>2, LeftAlone DEF QueryCutter

LEMMA AwaitCutterMaps == IInv /\ AwaitCutter => LedgerStep
<1> SUFFICES ASSUME IInv, AwaitCutter PROVE LedgerStep OBVIOUS
<1>1. /\ worker.pc # "idle" /\ worker.conf \in 0..4
      /\ journal[Cur].state = "CutCommandProcessed" /\ journal[Cur].state \notin Terminals
  BY AtSchedule DEF AwaitCutter, OnSchedule, Pcs, Terminals
<1>2. \A j \in JobId : SameOut(j) BY SameInk DEF AwaitCutter, SameOut
<1>3. io.rtAns \in {"none", "ok", "bad"} BY DEF IInv, TypeOK, Ios
<1>4. PICK s \in {"FailedKnown", "DoneSoftware"}, c \in {worker.conf, CutFaultFree},
           why \in {"CutterFault", "None"} :
        Terminate(s, c, why) /\ (s = "FailedKnown" => why = "CutterFault")
  BY <1>3 DEF AwaitCutter
<1>5. s \in Terminals /\ c \in 0..4 /\ why \in Reasons
  BY <1>1, <1>4 DEF Terminals, CutFaultFree, Reasons
<1> QED BY <1>1, <1>2, <1>4, <1>5, TerminateShows DEF AwaitCutter, MidSend

LEMMA CompleteMaps == IInv /\ Complete => LedgerStep
<1> SUFFICES ASSUME IInv, Complete PROVE LedgerStep OBVIOUS
<1>1. /\ worker.pc # "idle" /\ worker.conf \in 0..4 /\ journal[Cur].state \in MidSend
  BY AtSchedule DEF Complete, OnSchedule, Pcs, MidSend
<1>2. journal[Cur].state \notin Terminals BY <1>1, ExposedFacts
<1>3. \A j \in JobId : SameOut(j) BY SameInk DEF Complete, SameOut
<1>4. PICK c \in 0..4 : Terminate("DoneSoftware", c, "None")
  BY <1>1 DEF Complete, TransportAccepted
<1> QED BY <1>1, <1>2, <1>3, <1>4, TerminateShows DEF Complete, Terminals, Reasons

-----------------------------------------------------------------------------
(* The steps around runJob.                                                *)

LEMMA PublishMaps == IInv /\ Publish => LedgerStep
<1> SUFFICES ASSUME IInv, Publish PROVE LedgerStep OBVIOUS
<1>1. PICK j0 \in JobId : j0 = Cur
  BY DEF Publish, IInv, InStep, WorkerOnSchedule, TypeOK, Cur, NoPend
<1>2. /\ pub'[j0] = journal[j0].state
      /\ \A j \in JobId \ {j0} : pub'[j] = pub[j]
  BY <1>1 DEF Publish, IInv, TypeOK
<1>3. \A j \in JobId : SameLedger(j) /\ SameOut(j)
  BY SameInk DEF Publish, SameLedger, Stage, SameOut
<1>4. \A j \in JobId \ {j0} : Untouched(j)
  BY <1>2, <1>3 DEF Publish, Untouched, SameTold, Told, Stage
<1>5. Told(j0)' = Stage(journal[j0])
  <2> DEFINE r == [journal[j0] EXCEPT !.state = journal[j0].state]
  <2>1. journal[j0] \in Entry BY DEF IInv, TypeOK
  <2>2. r = journal[j0] BY <2>1 DEF Entry
  <2>3. Told(j0)' = Stage(r) BY <1>2 DEF Publish, Told, Stage
  <2> QED BY <2>2, <2>3
<1> QED BY <1>3, <1>4, <1>5, OneJobMoves DEF StepAt, TellAt

LEMMA FinishMaps == IInv /\ Finish => LedgerStep
BY SameInk, LeftAlone DEF Finish, SameOut

LEMMA TakeMaps == IInv /\ Take => LedgerStep
BY SameInk, LeftAlone DEF Take, SameOut

LEMMA CancelLeftoverMaps == IInv /\ CancelLeftover => LedgerStep
<1> SUFFICES ASSUME IInv, CancelLeftover PROVE LedgerStep OBVIOUS
<1>1. tasks \in Seq(JobId) /\ tasks # <<>> BY DEF CancelLeftover, IInv, TypeOK
<1>2. PICK j0 \in JobId : j0 = Head(tasks) BY <1>1, HeadTailProperties
<1>3. journal[j0].state = "Queued" /\ journal[j0] \in Entry
  <2>1. Len(tasks) \in Nat \ {0} /\ j0 = tasks[1] BY <1>1, <1>2, QueueShrinks, EmptySeq
  <2> QED BY <1>2, <2>1 DEF IInv, InStep, QueueUntouched, TypeOK
<1>4. ~MayHaveInk(j0) BY <1>3 DEF IInv, Safe, DurableBeforeWire, BeforeSend
<1>5. /\ journal' = [journal EXCEPT ![j0].state = "FailedKnown", ![j0].conf = 0,
                                    ![j0].reason = "Unknown"]
      /\ pub' = [pub EXCEPT ![j0] = "FailedKnown"]
  BY <1>2 DEF CancelLeftover
<1>6. \A j \in JobId : SameOut(j) BY SameInk DEF CancelLeftover, SameOut
<1>7. \A j \in JobId \ {j0} : Untouched(j)
  <2>1. \A j \in JobId \ {j0} : journal'[j] = journal[j] /\ pub'[j] = pub[j]
    BY <1>5 DEF IInv, TypeOK
  <2> QED BY <1>6, <2>1 DEF Untouched, SameLedger, SameTold, Told, Stage
<1>8. Stage(journal[j0]) = "safe" BY <1>3, StageOf DEF BeforeSend
<1>9. Stage(journal[j0])' = "failed" /\ Told(j0)' = "failed"
  <2> DEFINE r == [journal[j0] EXCEPT !.state = "FailedKnown", !.conf = 0,
                                      !.reason = "Unknown"]
             t == [r EXCEPT !.state = "FailedKnown"]
  <2>1. journal'[j0] = r /\ pub'[j0] = "FailedKnown" BY <1>5 DEF IInv, TypeOK
  <2>2. /\ r \in Entry /\ r.state = "FailedKnown" /\ r.reason = "Unknown"
        /\ t \in Entry /\ t.state = "FailedKnown" /\ t.reason = "Unknown"
    <3>1. /\ journal[j0] \in Entry /\ "FailedKnown" \in States /\ "Unknown" \in Reasons
          /\ 0 \in 0..4
      BY <1>3, ConstantsType
    <3>2. r \in Entry /\ r.state = "FailedKnown" /\ r.reason = "Unknown"
      BY <3>1 DEF Entry
    <3> HIDE DEF r
    <3> QED BY <3>1, <3>2 DEF Entry
  <2>3. Stage(journal[j0])' = Stage(r) /\ Told(j0)' = Stage(t)
    BY <2>1 DEF Told, Stage
  <2> HIDE DEF r, t
  <2> QED BY <2>2, <2>3, StageOf
<1> QED BY <1>4, <1>6, <1>7, <1>8, <1>9, OneJobMoves DEF StepAt, FailAt

(* Bytes under way can only be lost.                                       *)
LEMMA Loses ==
  ASSUME UNCHANGED <<journal, pub>>, \A j \in JobId : MayHaveInk(j)' => MayHaveInk(j)
  PROVE  LedgerStep
<1> DEFINE L == [j \in JobId |-> Stage(journal[j])]
           T == [j \in JobId |-> Told(j)]
           O == [j \in JobId |-> MayHaveInk(j)]
<1>1. L' = L BY DEF Stage
<1>2. T' = T BY DEF Told, Stage
<1>3. O' \in [JobId -> BOOLEAN] /\ \A j \in JobId : O'[j] => O[j] BY DEF MayHaveInk
<1> HIDE DEF L, T, O
<1>4. Ledger!LoseBytes BY <1>1, <1>2, <1>3 DEF Ledger!LoseBytes, Ledger!Lost, L, T, O
<1> QED BY <1>4 DEF LedgerStep, Ledger!LedgerNext

LEMMA CloseTransportMaps == IInv /\ CloseTransport => LedgerStep
BY CloseTransportInk, Loses DEF CloseTransport

-----------------------------------------------------------------------------
(* The clients.                                                            *)

LEMMA CreateMaps ==
  ASSUME IInv, NEW k \in Keys, NEW rep \in BOOLEAN, NEW cut, NEW strict,
         Create(k, rep, cut, strict)
  PROVE  LedgerStep
<1>1. PICK j0 \in JobId : j0 = Len(jobs) + 1 BY DEF Create
<1>2. journal[j0].state = "Absent" /\ journal[j0] \in Entry
  BY <1>1, LenProperties DEF IInv, InStep, OneRecordEach, TypeOK
<1> DEFINE born == IF stopping
                     THEN [NoRecord EXCEPT !.state = "FailedKnown",
                                           !.reason = "TransportUnreachable"]
                     ELSE [NoRecord EXCEPT !.state = "Queued"]
           told == [born EXCEPT !.state = born.state]
<1>3. /\ journal' = [journal EXCEPT ![j0] = born]
      /\ pub' = [pub EXCEPT ![j0] = born.state]
      /\ UNCHANGED <<toDev, paper>>
  BY <1>1 DEF Create
<1>4. /\ born \in Entry /\ told = born
      /\ \/ born.state = "Queued"
         \/ born.state = "FailedKnown" /\ born.reason = "TransportUnreachable"
  <2>1. NoRecord \in Entry BY ConstantsType DEF Entry, NoRecord, NoSlot
  <2>2. /\ born \in Entry
        /\ \/ born.state = "Queued"
           \/ born.state = "FailedKnown" /\ born.reason = "TransportUnreachable"
    <3>1. CASE stopping
      <4>1. born = [NoRecord EXCEPT !.state = "FailedKnown",
                                    !.reason = "TransportUnreachable"]
        BY <3>1
      <4> QED BY <2>1, <4>1, ConstantsType DEF Entry
    <3>2. CASE ~stopping
      <4>1. born = [NoRecord EXCEPT !.state = "Queued"] BY <3>2
      <4> QED BY <2>1, <4>1, ConstantsType DEF Entry
    <3> QED BY <3>1, <3>2
  <2> HIDE DEF born
  <2>3. told = born BY <2>2 DEF Entry
  <2> QED BY <2>2, <2>3
<1>5. Stage(journal[j0])' = Stage(born) /\ Told(j0)' = Stage(told)
  <2> HIDE DEF born
  <2>1. journal'[j0] = born /\ pub'[j0] = born.state BY <1>3 DEF IInv, TypeOK
  <2> QED BY <2>1 DEF Told, Stage
<1> HIDE DEF born, told
<1>6. Stage(born) \in {"safe", "failed"} BY <1>4, StageOf DEF BeforeSend
<1>7. \A j \in JobId : SameOut(j) BY <1>3, SameInk DEF SameOut
<1>8. \A j \in JobId \ {j0} : Untouched(j)
  <2>1. \A j \in JobId \ {j0} : journal'[j] = journal[j] /\ pub'[j] = pub[j]
    BY <1>3 DEF IInv, TypeOK
  <2> QED BY <1>7, <2>1 DEF Untouched, SameLedger, SameTold, Told, Stage
<1>9. Stage(journal[j0]) = "absent" BY <1>2, StageOf
<1> QED BY <1>4, <1>5, <1>6, <1>7, <1>8, <1>9, OneJobMoves DEF StepAt, AcceptAt

LEMMA ClientMaps == IInv /\ Client => LedgerStep
<1> SUFFICES ASSUME IInv, Client PROVE LedgerStep OBVIOUS
<1>1. CASE Stop BY <1>1, SameInk, LeftAlone DEF Stop, SameOut
<1>2. ASSUME NEW k \in Keys, NEW cut \in CutModes, NEW strict \in StrictModes,
             Submit(k, cut, strict)
      PROVE  LedgerStep
  BY <1>2, CreateMaps DEF Submit
<1>3. ASSUME NEW k \in Keys, NEW cut \in CutModes, NEW strict \in StrictModes,
             NEW supplied \in BOOLEAN, ForceReprint(k, supplied, cut, strict)
      PROVE  LedgerStep
  BY <1>3, CreateMaps DEF ForceReprint
<1> QED BY <1>1, <1>2, <1>3 DEF Client

-----------------------------------------------------------------------------
(* The environment.                                                        *)

LEMMA ReceiveMaps == IInv /\ Receive => LedgerStep
BY SameInk, LeftAlone DEF Receive, SameOut

LEMMA PrinterPrintsMaps == IInv /\ PrinterPrints => LedgerStep
BY PrinterPrintsInk, Loses DEF PrinterPrints

LEMMA PrinterAnswersQueryMaps == IInv /\ PrinterAnswersQuery => LedgerStep
BY PrinterAnswersQueryInk, Loses DEF PrinterAnswersQuery

LEMMA LinkDropsMaps == IInv /\ LinkDrops => LedgerStep
BY LinkDropsInk, Loses DEF LinkDrops

LEMMA VerdictOf ==
  ASSUME NEW r \in Entry PROVE Stage(Recovered(r)) = Ledger!Verdict(Stage(r))
<1>1. r.state \in States /\ Recovered(r) \in Entry BY RecoveredType DEF Entry
<1>2. CASE r.state \in MidSend
  <2>1. Stage(r) = "exposed" /\ Recovered(r).state = "Unknown"
    BY <1>2, StageOf, RecoveredKeeps
  <2> QED BY <1>1, <2>1, StageOf DEF Ledger!Verdict
<1>3. CASE r.state \in BeforeSend
  <2>1. Recovered(r) = [r EXCEPT !.state = "FailedKnown", !.reason = "Unknown"]
    BY <1>3 DEF Recovered, BeforeSend, MidSend
  <2>2. Recovered(r).state = "FailedKnown" /\ Recovered(r).reason = "Unknown"
    BY <2>1 DEF Entry
  <2> QED BY <1>1, <1>3, <2>2, StageOf DEF Ledger!Verdict
<1>4. CASE r.state \notin MidSend \cup BeforeSend
  <2>1. Recovered(r) = r BY <1>4 DEF Recovered
  <2>2. Stage(r) \in {"absent", "complete", "unknown", "faulted", "failed"}
    BY <1>1, <1>4, StageOf DEF States, Terminals
  <2> QED BY <2>1, <2>2 DEF Ledger!Verdict
<1> QED BY <1>2, <1>3, <1>4

LEMMA RestartMaps == IInv /\ Restart => LedgerStep
<1> SUFFICES ASSUME IInv, Restart PROVE LedgerStep OBVIOUS
<1> DEFINE L == [j \in JobId |-> Stage(journal[j])]
           T == [j \in JobId |-> Told(j)]
           O == [j \in JobId |-> MayHaveInk(j)]
<1>1. \A j \in JobId : /\ journal[j] \in Entry /\ journal'[j] = Recovered(journal[j])
                       /\ pub'[j] = journal'[j].state
  BY DEF Restart, IInv, TypeOK
<1>2. \A j \in JobId : Stage(journal[j])' = Ledger!Verdict(Stage(journal[j]))
  <2>1. \A j \in JobId : Stage(journal[j])' = Stage(Recovered(journal[j]))
    BY <1>1 DEF Stage
  <2> QED BY <1>1, <2>1, VerdictOf
<1>3. ASSUME NEW j \in JobId PROVE Told(j)' = Stage(journal[j])'
  <2> DEFINE r == Recovered(journal[j])
             t == [r EXCEPT !.state = r.state]
  <2>1. r \in Entry BY <1>1, RecoveredType
  <2>2. Told(j)' = Stage(t) /\ Stage(journal[j])' = Stage(r)
    <3> HIDE DEF r
    <3>1. journal'[j] = r /\ pub'[j] = r.state BY <1>1 DEF r
    <3> QED BY <3>1 DEF Told, Stage
  <2> HIDE DEF r
  <2>3. t = r BY <2>1 DEF Entry
  <2> QED BY <2>2, <2>3
<1>4. ASSUME NEW j \in JobId, MayHaveInk(j)'
      PROVE  MayHaveInk(j) \/ Stage(journal[j]) = "exposed"
  BY <1>1, <1>4, RestartInk, StageOf DEF MidSend
<1>5. L' = [j \in JobId |-> Ledger!Verdict(L[j])] BY <1>2
<1>6. T' = L' BY <1>3
<1>7. /\ O' \in [JobId -> BOOLEAN]
      /\ \A j \in JobId : O'[j] => O[j] \/ L[j] = "exposed"
  BY <1>4 DEF MayHaveInk
<1> HIDE DEF L, T, O
<1>8. Ledger!Recover BY <1>5, <1>6, <1>7 DEF Ledger!Recover, L, T, O
<1> QED BY <1>8 DEF LedgerStep, Ledger!LedgerNext

-----------------------------------------------------------------------------

LEMMA InitMaps == Init => Ledger!LedgerInit
<1> SUFFICES ASSUME Init PROVE Ledger!LedgerInit OBVIOUS
<1>1. ASSUME NEW j \in JobId
      PROVE  Stage(journal[j]) = "absent" /\ Told(j) = "absent" /\ MayHaveInk(j) = FALSE
  <2> DEFINE t == [NoRecord EXCEPT !.state = "Absent"]
  <2>1. journal[j] = NoRecord /\ Told(j) = Stage(t) BY DEF Init, Told
  <2>2. NoRecord \in Entry /\ NoRecord.state = "Absent" /\ t = NoRecord
    BY ConstantsType DEF NoRecord, Entry, NoSlot
  <2>3. ~MayHaveInk(j) BY DEF Init, MayHaveInk, OnTheWire
  <2> QED BY <2>1, <2>2, <2>3, StageOf DEF MayHaveInk
<1> QED BY <1>1 DEF Ledger!LedgerInit

LEMMA NextMaps == IInv /\ [Next]_vars => LedgerStep
<1> SUFFICES ASSUME IInv, [Next]_vars PROVE LedgerStep OBVIOUS
<1>1. CASE Client BY <1>1, ClientMaps
<1>2. CASE RunJob
  BY <1>2, ConnectMaps, BeginJobIoMaps, SendPreflightMaps, AwaitPreflightMaps,
     LeaseTokensMaps, StartSendMaps, SendPayloadMaps, SendFenceMaps, BytesSentMaps,
     AwaitPrintMaps, SendCutMaps, AwaitCutMaps, QueryCutterMaps, AwaitCutterMaps,
     CompleteMaps
     DEF RunJob
<1>3. CASE Worker
  BY <1>2, <1>3, PublishMaps, FinishMaps, TakeMaps, CancelLeftoverMaps, CloseTransportMaps
     DEF Worker
<1>4. CASE Environment
  BY <1>4, ReceiveMaps, PrinterPrintsMaps, PrinterAnswersQueryMaps, LinkDropsMaps,
     RestartMaps
     DEF Environment
<1>5. CASE UNCHANGED vars BY <1>5, SameInk, LeftAlone DEF vars, SameOut
<1> QED BY <1>1, <1>3, <1>4, <1>5 DEF Next

(* The engine keeps the ledger's promise: whatever the clients, the link,  *)
(* the printer and a dying process do, the journal, the observers and the  *)
(* wire go through the stages of JobLedger and no others.                  *)
THEOREM EngineKeepsTheLedger == Spec => KeepsTheLedger
<1>1. IInv /\ [Next]_vars => [Ledger!LedgerNext]_(Ledger!lvars)
  BY NextMaps DEF LedgerStep
<1>2. Spec => []IInv BY Inductive
<1> QED BY <1>1, <1>2, InitMaps, PTL DEF Spec, KeepsTheLedger, Ledger!LedgerSpec

-----------------------------------------------------------------------------
(***************************************************************************)
(* Why a token fence can be believed: a job recorded as PrintConfirmed is  *)
(* wholly on paper, on a TCP link for every value of the bounds, and on a  *)
(* serial link for as long as the process does not restart.                *)
(*                                                                         *)
(* The argument.  The stream into the printer carries each receipt once    *)
(* (InkOnce) and each fence behind its receipt (FenceAfterPayload), over   *)
(* losses too, because a payload that is lost takes what follows it along, *)
(* and because nobody reconnects between the payload and its fence         *)
(* (FenceHasItsPayload).  The token of the job in hand is the newest slot  *)
(* (NewestSlot), so that no older answer can carry it (SlotsAreSpent), and *)
(* its own answer exists only once the receipt is out (AnswerIsEarned).    *)
(***************************************************************************)

(* A printer whose answers can be told apart: the fence echoes a token,    *)
(* and no answer owed to an earlier process reaches this one.              *)
TellsApart == Completion = "GsParenH" /\ (SessionBound \/ MaxRestarts = 0)

Ink == {"payload", "partial"}
Working == worker.pc # "idle"
Leased == {"start", "payload", "fence", "sent", "awaitPrint"}
Confirmed == {"cut", "awaitCut", "cutStatus", "statusWait", "finished"}

(* The fence answer that carries slot s has been heard, or is on its way.  *)
AnswerFor(s) ==
  \/ <<s, "fence">> \in io.echoes
  \/ \E i \in 1..Len(fromDev) : fromDev[i].k = "echo" /\ fromDev[i].t = <<s, "fence">>

(* Order within a stream q of items, when P is what is on paper already.   *)
InkOnce(q, P) ==
  /\ \A i, h \in 1..Len(q) : q[i].k \in Ink /\ q[h].k \in Ink /\ q[i].j = q[h].j => i = h
  /\ \A i \in 1..Len(q) : q[i].k \in Ink => P[q[i].j] = "none"
PayloadAhead(q, i) == \E h \in 1..(i - 1) : q[h].k = "payload" /\ q[h].j = q[i].j
FenceAfterPayload(q, P) ==
  \A i \in 1..Len(q) : q[i].k = "fence" => P[q[i].j] = "full" \/ PayloadAhead(q, i)
Ordered(q, P) == InkOnce(q, P) /\ FenceAfterPayload(q, P)

(* A fence is sent under the record of its job, like the payload.          *)
Exposed(r) == r.state \notin {"Absent"} \cup BeforeSend
FenceIsDurable ==
  \A i \in 1..Len(toDev) : toDev[i].k = "fence" => Exposed(journal[toDev[i].j])

(* No slot beyond the newest is in use, and the newest is the job's.       *)
SlotsAreSpent ==
  /\ \A s \in Nat : AnswerFor(s) => s <= nextSlot
  /\ \A i \in 1..Len(toDev) :
       toDev[i].k = "fence" /\ toDev[i].live =>
         /\ journal[toDev[i].j].tok <= nextSlot
         /\ worker.pc \in Leased /\ toDev[i].j # Cur => journal[toDev[i].j].tok < nextSlot
NewestSlot == worker.pc \in Leased => journal[Cur].tok = nextSlot
AnswerIsEarned == worker.pc \in Leased /\ AnswerFor(nextSlot) => paper[Cur] = "full"
FenceHasItsPayload ==
  worker.pc = "fence" /\ link.up =>
    \/ paper[Cur] = "full"
    \/ \E i \in 1..Len(toDev) : toDev[i].k = "payload" /\ toDev[i].j = Cur
Claiming == Working /\ (worker.pc \in Confirmed \/ worker.conf >= PrintConfirmed)
ClaimIsEarned == Claiming => paper[Cur] = "full"

OnTheStream == Ordered(toDev, paper) /\ FenceIsDurable
OwnAnswers == SlotsAreSpent /\ NewestSlot /\ AnswerIsEarned
Claims == FenceHasItsPayload /\ ClaimIsEarned /\ ConfirmedMeansPrinted
FInv == OnTheStream /\ OwnAnswers /\ Claims

(* What every step may take for granted, and what all steps but two do:    *)
(* the stream keeps its order, an answer that is new is true, tokens stay, *)
(* and nobody claims what is not on paper.                                 *)
Here == TellsApart /\ IInv /\ IInv' /\ Forward /\ FInv
StreamKept ==
  /\ OnTheStream'
  /\ \A j \in JobId : paper[j] = "full" => paper'[j] = "full"
  /\ \A i \in 1..Len(toDev') :
       toDev'[i].k = "fence" /\ toDev'[i].live =>
         \/ worker.pc \in Leased /\ toDev'[i].j = Cur
         \/ \E h \in 1..Len(toDev) :
              toDev[h].k = "fence" /\ toDev[h].live /\ toDev[h].j = toDev'[i].j
HearsTheTruth ==
  \A s \in Nat :
    AnswerFor(s)' =>
      \/ AnswerFor(s)
      \/ s <= nextSlot /\ (worker.pc \in Leased /\ s = nextSlot => paper[Cur] = "full")
SameSlots ==
  /\ nextSlot' = nextSlot
  /\ \A j \in JobId :
       Exposed(journal[j]) \/ (Working /\ j = Cur) => journal'[j].tok = journal[j].tok
StaysLeased == worker'.pc \in Leased => worker.pc \in Leased /\ worker'.cur = Cur
ClaimsTheTruth ==
  /\ Claiming' => Working /\ worker'.cur = Cur /\ paper[Cur] = "full"
  /\ \A j \in JobId :
       journal'[j].conf >= PrintConfirmed =>
         journal[j].conf >= PrintConfirmed \/ (Working /\ j = Cur /\ paper[j] = "full")

-----------------------------------------------------------------------------
(* Streams that lose items.                                                *)

(* q2 is what is left of q: its items in their order, the last one         *)
(* possibly torn, and behind every item that is kept all that was ahead of *)
(* it, the questions excepted.                                             *)
Embeds(f, q2, q) ==
  /\ \A i, h \in 1..Len(q2) : i # h => f[i] # f[h]
  /\ \A i \in 1..Len(q2) :
       /\ q2[i].j = q[f[i]].j
       /\ q2[i].live => q[f[i]].live
       /\ \/ q2[i].k = q[f[i]].k
          \/ i = Len(q2) /\ q2[i].k = "partial" /\ q[f[i]].k = "payload"
  /\ \A i \in 1..Len(q2) : \A h \in 1..(f[i] - 1) :
       q[h].k # "query" => \E g \in 1..(i - 1) : f[g] = h
Within(q2, q) == \E f \in [1..Len(q2) -> 1..Len(q)] : Embeds(f, q2, q)

LEMMA WithinKeepsOrder ==
  ASSUME NEW q \in Seq(Items), NEW q2 \in Seq(Items), NEW P, Within(q2, q), Ordered(q, P)
  PROVE  Ordered(q2, P)
<1>0. Len(q) \in Nat /\ Len(q2) \in Nat BY LenProperties
<1>f. PICK f \in [1..Len(q2) -> 1..Len(q)] : Embeds(f, q2, q) BY DEF Within
<1>1. /\ \A i, h \in 1..Len(q2) : i # h => f[i] # f[h]
      /\ \A i \in 1..Len(q2) :
           /\ q2[i].j = q[f[i]].j
           /\ q2[i].live => q[f[i]].live
           /\ \/ q2[i].k = q[f[i]].k
              \/ i = Len(q2) /\ q2[i].k = "partial" /\ q[f[i]].k = "payload"
      /\ \A i \in 1..Len(q2) : \A h \in 1..(f[i] - 1) :
           q[h].k # "query" => \E g \in 1..(i - 1) : f[g] = h
  BY <1>f DEF Embeds
<1>2. \A i \in 1..Len(q2) : q2[i].k \in Ink => q[f[i]].k \in Ink BY <1>1 DEF Ink
<1>3. InkOnce(q2, P)
  <2>1. ASSUME NEW i \in 1..Len(q2), NEW h \in 1..Len(q2),
               q2[i].k \in Ink, q2[h].k \in Ink, q2[i].j = q2[h].j
        PROVE  i = h
    <3>1. /\ f[i] \in 1..Len(q) /\ f[h] \in 1..Len(q)
          /\ q[f[i]].k \in Ink /\ q[f[h]].k \in Ink /\ q[f[i]].j = q[f[h]].j
      BY <1>1, <1>2, <2>1
    <3>2. f[i] = f[h] BY <3>1 DEF Ordered, InkOnce
    <3> QED BY <1>1, <3>2
  <2>2. ASSUME NEW i \in 1..Len(q2), q2[i].k \in Ink PROVE P[q2[i].j] = "none"
    BY <1>1, <1>2, <2>2 DEF Ordered, InkOnce
  <2> QED BY <2>1, <2>2 DEF InkOnce
<1>4. ASSUME NEW i \in 1..Len(q2), q2[i].k = "fence", P[q2[i].j] # "full"
      PROVE  PayloadAhead(q2, i)
  <2>1. f[i] \in 1..Len(q) /\ q[f[i]].k = "fence" /\ q[f[i]].j = q2[i].j BY <1>1, <1>4
  <2>2. PICK h \in 1..(f[i] - 1) : q[h].k = "payload" /\ q[h].j = q2[i].j
    BY <1>4, <2>1 DEF Ordered, FenceAfterPayload, PayloadAhead
  <2>3. PICK g \in 1..(i - 1) : f[g] = h
    <3>1. q[h].k # "query" BY <2>2
    <3> QED BY <1>1, <1>4, <3>1
  <2>4. g \in 1..Len(q2) /\ g # Len(q2) BY <1>0, <2>3
  <2>5. q2[g].k = "payload" /\ q2[g].j = q2[i].j BY <1>1, <2>2, <2>3, <2>4
  <2> QED BY <2>5 DEF PayloadAhead
<1> QED BY <1>3, <1>4 DEF Ordered, FenceAfterPayload

LEMMA OrphanedItems ==
  ASSUME NEW q \in Seq(Items)
  PROVE  /\ Orphaned(q) \in Seq(Items) /\ Len(Orphaned(q)) = Len(q) /\ Len(q) \in Nat
         /\ \A i \in 1..Len(q) :
              /\ Orphaned(q)[i].j = q[i].j /\ Orphaned(q)[i].k = q[i].k
              /\ Orphaned(q)[i].live => q[i].live /\ ~SessionBound
<1>1. Len(q) \in Nat BY LenProperties
<1>2. Len(Orphaned(q)) = Len(q) BY <1>1 DEF Orphaned
<1>3. ASSUME NEW i \in 1..Len(q)
      PROVE  /\ Orphaned(q)[i].j = q[i].j /\ Orphaned(q)[i].k = q[i].k
             /\ Orphaned(q)[i].live => q[i].live /\ ~SessionBound
             /\ Orphaned(q)[i] \in Items
  <2>1. q[i] \in Items BY ElementOfSeq
  <2>2. Orphaned(q)[i] = [q[i] EXCEPT !.live = @ /\ ~SessionBound] BY DEF Orphaned
  <2> QED BY <2>1, <2>2 DEF Items
<1>4. Orphaned(q) \in Seq(Items) BY OrphanedType
<1> QED BY <1>1, <1>2, <1>3, <1>4

LEMMA HeadWithin ==
  ASSUME NEW q \in Seq(Items), NEW c \in Seq(Items), Len(c) <= Len(q),
         \A i \in 1..Len(c) :
           /\ c[i].j = q[i].j
           /\ (c[i].live => q[i].live)
           /\ \/ c[i].k = q[i].k
              \/ i = Len(c) /\ c[i].k = "partial" /\ q[i].k = "payload"
  PROVE  Within(c, q)
<1> DEFINE f == [i \in 1..Len(c) |-> i]
<1>1. Len(q) \in Nat /\ Len(c) \in Nat BY LenProperties
<1>2. f \in [1..Len(c) -> 1..Len(q)] BY <1>1
<1>3. \A i \in 1..Len(c) : f[i] = i OBVIOUS
<1> HIDE DEF f
<1>4. \A i, h \in 1..Len(c) : i # h => f[i] # f[h] BY <1>3
<1>5. ASSUME NEW i \in 1..Len(c), NEW h \in 1..(f[i] - 1) PROVE \E g \in 1..(i - 1) : f[g] = h
  <2>1. h \in 1..(i - 1) /\ h \in 1..Len(c) BY <1>1, <1>3
  <2> QED BY <1>3, <2>1
<1>6. \A i \in 1..Len(c) :
        /\ c[i].j = q[f[i]].j
        /\ (c[i].live => q[f[i]].live)
        /\ \/ c[i].k = q[f[i]].k
           \/ i = Len(c) /\ c[i].k = "partial" /\ q[f[i]].k = "payload"
  BY <1>3
<1>7. Embeds(f, c, q) BY <1>4, <1>5, <1>6 DEF Embeds
<1> QED BY <1>2, <1>7 DEF Within

LEMMA CutoffsWithin ==
  ASSUME NEW q \in Seq(Items), NEW c \in Cutoffs(q)
  PROVE  Within(c, q) /\ c \in Seq(Items)
<1>0. Len(q) \in Nat /\ c \in Seq(Items) BY LenProperties, CutoffsType
<1>1. ASSUME NEW n \in 0..Len(q)
      PROVE  /\ Len(SubSeq(q, 1, n)) = n /\ SubSeq(q, 1, n) \in Seq(Items)
             /\ \A i \in 1..n : SubSeq(q, 1, n)[i] = q[i]
  <2>1. \A i \in 1..n : q[i] \in Items BY ElementOfSeq, <1>0
  <2> QED BY <2>1, <1>0, SubSeqProperties
<1>2. ASSUME NEW n \in 0..Len(q), Len(c) = n,
             \A i \in 1..n : c[i] = q[i] \/ (i = n /\ c[i] = Torn(q[i]))
      PROVE  Within(c, q)
  <2>1. ASSUME NEW i \in 1..Len(c)
        PROVE  /\ c[i].j = q[i].j
               /\ (c[i].live => q[i].live)
               /\ \/ c[i].k = q[i].k
                  \/ i = Len(c) /\ c[i].k = "partial" /\ q[i].k = "payload"
    <3>1. q[i] \in Items BY <1>0, <1>2, ElementOfSeq
    <3> QED BY <1>2, <3>1 DEF Torn, Items
  <2>2. Len(c) <= Len(q) BY <1>0, <1>2
  <2> QED BY <1>0, <2>1, <2>2, HeadWithin
<1>3. ASSUME NEW n \in 0..Len(q), c = SubSeq(q, 1, n) PROVE Within(c, q)
  <2>1. Len(c) = n BY <1>1, <1>3
  <2>2. \A i \in 1..n : c[i] = q[i] \/ (i = n /\ c[i] = Torn(q[i])) BY <1>1, <1>3
  <2> QED BY <1>2, <2>1, <2>2
<1>4. ASSUME NEW n \in 1..Len(q), c = Append(SubSeq(q, 1, n - 1), Torn(q[n]))
      PROVE  Within(c, q)
  <2> DEFINE p == SubSeq(q, 1, n - 1)
  <2>1. n - 1 \in 0..Len(q) /\ n \in 0..Len(q) BY <1>0
  <2>2. p \in Seq(Items) /\ Len(p) = n - 1 /\ \A i \in 1..(n - 1) : p[i] = q[i]
    BY <1>1, <2>1
  <2>3. Torn(q[n]) \in Items BY ElementOfSeq, TornType
  <2>4. c = Append(p, Torn(q[n])) BY <1>4
  <2> HIDE DEF p
  <2>5. /\ Len(c) = n /\ c[n] = Torn(q[n])
        /\ \A i \in 1..(n - 1) : c[i] = q[i]
    BY <1>0, <2>2, <2>3, <2>4, AppendProperties
  <2>6. \A i \in 1..n : c[i] = q[i] \/ (i = n /\ c[i] = Torn(q[i]))
    <3> SUFFICES ASSUME NEW i \in 1..n PROVE c[i] = q[i] \/ (i = n /\ c[i] = Torn(q[i]))
      OBVIOUS
    <3>1. i = n \/ i \in 1..(n - 1) BY <1>0
    <3> QED BY <3>1, <2>5
  <2> QED BY <1>2, <2>1, <2>5, <2>6
<1> QED BY <1>0, <1>3, <1>4 DEF Cutoffs

LEMMA OrphanedWithin ==
  ASSUME NEW q \in Seq(Items), NEW q2 \in Seq(Items), Within(q2, q)
  PROVE  Within(Orphaned(q2), q) /\ Orphaned(q2) \in Seq(Items)
<1>f. PICK f \in [1..Len(q2) -> 1..Len(q)] : Embeds(f, q2, q) BY DEF Within
<1>1. /\ \A i, h \in 1..Len(q2) : i # h => f[i] # f[h]
      /\ \A i \in 1..Len(q2) :
           /\ q2[i].j = q[f[i]].j
           /\ q2[i].live => q[f[i]].live
           /\ \/ q2[i].k = q[f[i]].k
              \/ i = Len(q2) /\ q2[i].k = "partial" /\ q[f[i]].k = "payload"
      /\ \A i \in 1..Len(q2) : \A h \in 1..(f[i] - 1) :
           q[h].k # "query" => \E g \in 1..(i - 1) : f[g] = h
  BY <1>f DEF Embeds
<1> DEFINE o == Orphaned(q2)
<1>2. /\ o \in Seq(Items) /\ Len(o) = Len(q2)
      /\ \A i \in 1..Len(q2) :
           o[i].j = q2[i].j /\ o[i].k = q2[i].k /\ (o[i].live => q2[i].live)
  BY OrphanedItems
<1> HIDE DEF o
<1>3. Within(o, q)
  <2>1. f \in [1..Len(o) -> 1..Len(q)] BY <1>2
  <2>2. \A i, h \in 1..Len(o) : i # h => f[i] # f[h] BY <1>1, <1>2
  <2>3. \A i \in 1..Len(o) :
          /\ o[i].j = q[f[i]].j
          /\ (o[i].live => q[f[i]].live)
          /\ \/ o[i].k = q[f[i]].k
             \/ i = Len(o) /\ o[i].k = "partial" /\ q[f[i]].k = "payload"
    BY <1>1, <1>2
  <2>4. \A i \in 1..Len(o) : \A h \in 1..(f[i] - 1) :
          q[h].k # "query" => \E g \in 1..(i - 1) : f[g] = h
    BY <1>1, <1>2
  <2>5. Embeds(f, o, q) BY <2>2, <2>3, <2>4 DEF Embeds
  <2> QED BY <2>1, <2>5 DEF Within
<1> QED BY <1>2, <1>3 DEF o

LEMMA AllWithin == ASSUME NEW q \in Seq(Items) PROVE Within(q, q)
<1>1. Len(q) \in Nat BY LenProperties
<1> QED BY <1>1, HeadWithin

(* A question taken out of the middle.                                     *)
LEMMA QueryTakenOut ==
  ASSUME NEW q \in Seq(Items), NEW n \in 1..Len(q), q[n].k = "query"
  PROVE  LET c == SubSeq(q, 1, n - 1) \o SubSeq(q, n + 1, Len(q))
         IN  /\ Within(c, q)
             /\ \A h \in 1..Len(q) : h # n => \E m \in 1..Len(c) : c[m] = q[h]
<1> DEFINE a == SubSeq(q, 1, n - 1)
           b == SubSeq(q, n + 1, Len(q))
           c == a \o b
<1>1. Len(q) \in Nat BY LenProperties
<1>2. /\ a \in Seq(Items) /\ Len(a) = n - 1 /\ \A h \in 1..(n - 1) : a[h] = q[h]
  <2>1. \A h \in 1..(n - 1) : q[h] \in Items BY <1>1, ElementOfSeq
  <2> QED BY <1>1, <2>1, SubSeqProperties
<1>3. /\ b \in Seq(Items) /\ Len(b) = Len(q) - n
      /\ \A h \in 1..(Len(q) - n) : b[h] = q[n + h]
  <2>1. \A h \in (n + 1)..Len(q) : q[h] \in Items BY <1>1, ElementOfSeq
  <2> QED BY <1>1, <2>1, SubSeqProperties
<1> HIDE DEF a, b
<1>4. /\ Len(c) = Len(a) + Len(b)
      /\ \A h \in 1..(Len(a) + Len(b)) : c[h] = IF h <= Len(a) THEN a[h] ELSE b[h - Len(a)]
  BY <1>2, <1>3, ConcatProperties
<1> HIDE DEF c
<1> DEFINE f == [i \in 1..Len(c) |-> IF i < n THEN i ELSE i + 1]
<1>5. Len(c) = Len(q) - 1 BY <1>1, <1>2, <1>3, <1>4
<1>6. f \in [1..Len(c) -> 1..Len(q)] BY <1>1, <1>5
<1>7. ASSUME NEW i \in 1..Len(c) PROVE c[i] = q[f[i]]
  <2>1. CASE i < n
    <3>1. i <= Len(a) /\ i \in 1..(n - 1) /\ i \in 1..(Len(a) + Len(b))
      BY <1>1, <1>2, <1>3, <1>5, <2>1
    <3> QED BY <1>2, <1>4, <2>1, <3>1
  <2>2. CASE ~(i < n)
    <3>1. /\ ~(i <= Len(a)) /\ i - Len(a) \in 1..(Len(q) - n) /\ i \in 1..(Len(a) + Len(b))
          /\ n + (i - Len(a)) = i + 1
      BY <1>1, <1>2, <1>3, <1>5, <2>2
    <3> QED BY <1>3, <1>4, <2>2, <3>1
  <2> QED BY <2>1, <2>2
<1>8. ASSUME NEW i \in 1..Len(c), NEW h \in 1..(f[i] - 1), q[h].k # "query"
      PROVE  \E g \in 1..(i - 1) : f[g] = h
  <2>0. h \in Nat /\ n \in Nat BY <1>1, <1>6
  <2>1. h # n BY <1>8
  <2>2. CASE h < n
    <3>1. h \in 1..(i - 1) /\ h \in 1..Len(c) BY <1>1, <1>5, <2>2
    <3> QED BY <2>2, <3>1
  <2>3. CASE h > n
    <3>1. h - 1 \in 1..(i - 1) /\ h - 1 \in 1..Len(c) /\ ~(h - 1 < n) /\ (h - 1) + 1 = h
      BY <1>1, <1>5, <2>3
    <3> QED BY <3>1
  <2>4. h < n \/ h > n
    <3> HIDE DEF f
    <3> QED BY <2>0, <2>1
  <2> HIDE DEF f
  <2> QED BY <2>2, <2>3, <2>4
<1>9. \A i, h \in 1..Len(c) : i # h => f[i] # f[h] BY <1>1, <1>5
<1>12. ASSUME NEW h \in 1..Len(q), h # n PROVE \E m \in 1..Len(c) : c[m] = q[h]
  <2>1. CASE h < n
    <3>1. h \in 1..Len(c) /\ f[h] = h BY <1>1, <1>5, <2>1
    <3> QED BY <1>7, <3>1
  <2>2. CASE h > n
    <3>1. h - 1 \in 1..Len(c) /\ f[h - 1] = h BY <1>1, <1>5, <2>2
    <3> QED BY <1>7, <3>1
  <2> QED BY <1>1, <1>12, <2>1, <2>2
<1> HIDE DEF f
<1>10. Embeds(f, c, q) BY <1>7, <1>8, <1>9 DEF Embeds
<1>11. Within(c, q) BY <1>6, <1>10 DEF Within
<1> QED BY <1>11, <1>12 DEF c, a, b

LEMMA AppendKeepsOrder ==
  ASSUME NEW q \in Seq(Items), NEW item \in Items, NEW P, Ordered(q, P),
         item.k \in Ink => P[item.j] = "none" /\ ~InkIn(q, item.j),
         item.k = "fence" =>
           \/ P[item.j] = "full"
           \/ \E h \in 1..Len(q) : q[h].k = "payload" /\ q[h].j = item.j
  PROVE  Ordered(Append(q, item), P)
<1> DEFINE c == Append(q, item)
<1>1. Len(q) \in Nat /\ c \in Seq(Items) /\ Len(c) = Len(q) + 1 /\ c[Len(q) + 1] = item
      /\ \A i \in 1..Len(q) : c[i] = q[i]
  BY AppendProperties, LenProperties
<1>2. \A i \in 1..Len(c) : i = Len(q) + 1 \/ i \in 1..Len(q) BY <1>1
<1> HIDE DEF c
<1>3. \A i \in 1..Len(q) : q[i].k \in Ink => q[i].j # item.j \/ item.k \notin Ink
  BY DEF InkIn, Ink
<1>4. InkOnce(c, P)
  <2>1. ASSUME NEW i \in 1..Len(c), NEW h \in 1..Len(c),
               c[i].k \in Ink, c[h].k \in Ink, c[i].j = c[h].j
        PROVE  i = h
    <3>1. CASE i \in 1..Len(q) /\ h \in 1..Len(q)
      BY <1>1, <2>1, <3>1 DEF Ordered, InkOnce
    <3>2. CASE i = Len(q) + 1 \/ h = Len(q) + 1 BY <1>1, <1>2, <1>3, <2>1, <3>2
    <3> QED BY <1>2, <3>1, <3>2
  <2>2. ASSUME NEW i \in 1..Len(c), c[i].k \in Ink PROVE P[c[i].j] = "none"
    BY <1>1, <1>2, <2>2 DEF Ordered, InkOnce
  <2> QED BY <2>1, <2>2 DEF InkOnce
<1>5. ASSUME NEW i \in 1..Len(c), c[i].k = "fence", P[c[i].j] # "full"
      PROVE  PayloadAhead(c, i)
  <2>1. PICK h \in 1..(i - 1) : h \in 1..Len(q) /\ q[h].k = "payload" /\ q[h].j = c[i].j
    <3>1. CASE i = Len(q) + 1 BY <1>1, <1>5, <3>1
    <3>2. CASE i \in 1..Len(q)
      BY <1>1, <1>5, <3>2 DEF Ordered, FenceAfterPayload, PayloadAhead
    <3> QED BY <1>2, <3>1, <3>2
  <2>2. c[h] = q[h] BY <1>1, <2>1
  <2> QED BY <2>1, <2>2 DEF PayloadAhead
<1> QED BY <1>4, <1>5 DEF Ordered, FenceAfterPayload, c

(* The head of the stream is printed; P2 is the paper afterwards.          *)
LEMMA PrintingKeepsOrder ==
  ASSUME NEW q \in Seq(Items), q # <<>>, NEW P, NEW P2, Ordered(q, P),
         \A j \in JobId \ {Head(q).j} : P2[j] = P[j],
         Head(q).k \notin Ink => P2[Head(q).j] = P[Head(q).j],
         Head(q).k = "payload" => P2[Head(q).j] = "full"
  PROVE  Ordered(Tail(q), P2) /\ \A j \in JobId : P[j] = "full" => P2[j] = "full"
<1> DEFINE c == Tail(q)
<1>1. /\ Len(q) \in Nat /\ Len(c) = Len(q) - 1 /\ Head(q) = q[1]
      /\ \A i \in 1..Len(c) : c[i] = q[i + 1]
  BY QueueShrinks
<1>2. 1 \in 1..Len(q) /\ \A i \in 1..Len(c) : i + 1 \in 1..Len(q) /\ i + 1 # 1
  BY <1>1, EmptySeq, LenProperties
<1> HIDE DEF c
<1>3. ASSUME NEW i \in 1..Len(q) PROVE q[i].j \in JobId
  <2>1. q[i] \in Items BY ElementOfSeq
  <2> QED BY <2>1 DEF Items
<1>4. q[1].k \in Ink => P[q[1].j] = "none" BY <1>2 DEF Ordered, InkOnce
<1>5. ASSUME NEW j \in JobId, P[j] = "full" PROVE P2[j] = "full" BY <1>1, <1>4, <1>5
<1>6. InkOnce(c, P2)
  <2>1. ASSUME NEW i \in 1..Len(c), NEW h \in 1..Len(c),
               c[i].k \in Ink, c[h].k \in Ink, c[i].j = c[h].j
        PROVE  i = h
    <3>1. i + 1 = h + 1 BY <1>1, <1>2, <2>1 DEF Ordered, InkOnce
    <3> QED BY <3>1
  <2>2. ASSUME NEW i \in 1..Len(c), c[i].k \in Ink PROVE P2[c[i].j] = "none"
    <3>1. P[c[i].j] = "none" /\ c[i].j \in JobId
      BY <1>1, <1>2, <1>3, <2>2 DEF Ordered, InkOnce
    <3>2. q[1].k \in Ink => q[1].j # c[i].j BY <1>1, <1>2, <2>2 DEF Ordered, InkOnce
    <3> QED BY <1>1, <3>1, <3>2
  <2> QED BY <2>1, <2>2 DEF InkOnce
<1>7. ASSUME NEW i \in 1..Len(c), c[i].k = "fence", P2[c[i].j] # "full"
      PROVE  PayloadAhead(c, i)
  <2>1. P[c[i].j] # "full" BY <1>1, <1>2, <1>3, <1>5, <1>7
  <2>2. PICK h \in 1..i : q[h].k = "payload" /\ q[h].j = c[i].j
    <3>1. c[i] = q[i + 1] /\ i + 1 \in 1..Len(q) /\ (i + 1) - 1 = i BY <1>1, <1>2
    <3> QED BY <1>7, <2>1, <3>1 DEF Ordered, FenceAfterPayload, PayloadAhead
  <2>3. h # 1 BY <1>1, <1>7, <2>2
  <2>4. h - 1 \in 1..(i - 1) /\ h - 1 \in 1..Len(c) /\ (h - 1) + 1 = h BY <1>1, <2>3
  <2>5. c[h - 1] = q[h] BY <1>1, <2>4
  <2> QED BY <2>2, <2>4, <2>5 DEF PayloadAhead
<1> QED BY <1>5, <1>6, <1>7 DEF Ordered, FenceAfterPayload, c

-----------------------------------------------------------------------------
(* What the steps do to the stream.                                        *)

(* What has been exposed stays so: the journal only moves forward.         *)
LEMMA SentStays ==
  ASSUME IInv, IInv', Forward, NEW j \in JobId, Exposed(journal[j])
  PROVE  Exposed(journal'[j])
<1>1. journal[j].state \in States /\ journal'[j].state \in States
  BY DEF IInv, TypeOK, Entry
<1>2. Progress(journal[j].state) <= Progress(journal'[j].state) BY DEF Forward
<1>3. \A s \in States : s \notin {"Absent"} \cup BeforeSend <=> Progress(s) >= 3
  BY ProgressValues, TerminalIsLast DEF States, BeforeSend, MidSend, Terminals
<1>4. Progress(journal[j].state) \in 0..7 /\ Progress(journal'[j].state) \in 0..7
  BY <1>1, TerminalIsLast
<1> QED BY <1>1, <1>2, <1>3, <1>4 DEF Exposed

LEMMA FencesStayDurable ==
  ASSUME IInv, IInv', Forward, FenceIsDurable,
         \A i \in 1..Len(toDev') :
           toDev'[i].k = "fence" =>
             \E h \in 1..Len(toDev) : toDev[h].k = "fence" /\ toDev[h].j = toDev'[i].j
  PROVE  FenceIsDurable'
<1>1. ASSUME NEW i \in 1..Len(toDev'), toDev'[i].k = "fence"
      PROVE  Exposed(journal'[toDev'[i].j])
  <2>1. toDev'[i] \in Items BY ElementOfSeq DEF IInv, TypeOK
  <2>2. toDev'[i].j \in JobId BY <2>1 DEF Items
  <2>3. PICK h \in 1..Len(toDev) : toDev[h].k = "fence" /\ toDev[h].j = toDev'[i].j BY <1>1
  <2>4. Exposed(journal[toDev'[i].j]) BY <2>3 DEF FenceIsDurable
  <2> QED BY <2>2, <2>4, SentStays
<1> QED BY <1>1 DEF FenceIsDurable, Exposed

LEMMA StreamSame == ASSUME Here, UNCHANGED <<toDev, paper>> PROVE StreamKept
<1>1. toDev \in Seq(Items) BY DEF Here, IInv, TypeOK
<1>2. FenceIsDurable' BY FencesStayDurable DEF Here, FInv, OnTheStream
<1>3. Ordered(toDev, paper)' BY DEF Here, FInv, OnTheStream, Ordered, InkOnce, FenceAfterPayload, PayloadAhead
<1> QED BY <1>2, <1>3 DEF StreamKept, OnTheStream

LEMMA StreamThinned ==
  ASSUME Here, UNCHANGED paper, Within(toDev', toDev) PROVE StreamKept
<1>1. toDev \in Seq(Items) /\ toDev' \in Seq(Items) BY DEF Here, IInv, TypeOK
<1>2. ASSUME NEW i \in 1..Len(toDev'), toDev'[i].k = "fence"
      PROVE  \E h \in 1..Len(toDev) : /\ toDev[h].k = "fence" /\ toDev[h].j = toDev'[i].j
                                     /\ (toDev'[i].live => toDev[h].live)
  BY <1>2 DEF Within, Embeds
<1>3. FenceIsDurable' BY <1>2, FencesStayDurable DEF Here, FInv, OnTheStream
<1>4. Ordered(toDev', paper) BY <1>1, WithinKeepsOrder DEF Here, FInv, OnTheStream
<1>5. Ordered(toDev, paper)'
  BY <1>4 DEF Ordered, InkOnce, FenceAfterPayload, PayloadAhead
<1>6. ASSUME NEW i \in 1..Len(toDev'), toDev'[i].k = "fence", toDev'[i].live
      PROVE  \E h \in 1..Len(toDev) :
               toDev[h].k = "fence" /\ toDev[h].live /\ toDev[h].j = toDev'[i].j
  BY <1>2, <1>6
<1> QED BY <1>3, <1>5, <1>6 DEF StreamKept, OnTheStream

LEMMA StreamAppended ==
  ASSUME Here, UNCHANGED paper, NEW item \in Items, toDev' = Append(toDev, item),
         item.k \in Ink => ~MayHaveInk(item.j),
         item.k = "fence" =>
           /\ worker.pc \in Leased /\ item.j = Cur /\ Exposed(journal'[item.j])
           /\ \/ paper[item.j] = "full"
              \/ \E h \in 1..Len(toDev) : toDev[h].k = "payload" /\ toDev[h].j = item.j
  PROVE  StreamKept
<1>1. toDev \in Seq(Items) /\ item.j \in JobId BY DEF Here, IInv, TypeOK, Items
<1>2. Len(toDev) \in Nat /\ Len(toDev') = Len(toDev) + 1 /\ toDev'[Len(toDev) + 1] = item
      /\ \A i \in 1..Len(toDev) : toDev'[i] = toDev[i]
  BY <1>1, AppendProperties, LenProperties
<1>3. \A i \in 1..Len(toDev') : i = Len(toDev) + 1 \/ i \in 1..Len(toDev) BY <1>2
<1>4. FenceIsDurable'
  <2>1. ASSUME NEW i \in 1..Len(toDev), toDev[i].k = "fence" PROVE Exposed(journal'[toDev[i].j])
    <3>1. toDev[i] \in Items BY <1>1, ElementOfSeq
    <3>2. toDev[i].j \in JobId BY <3>1 DEF Items
    <3>3. Exposed(journal[toDev[i].j]) BY <2>1 DEF Here, FInv, OnTheStream, FenceIsDurable
    <3> QED BY <3>2, <3>3, SentStays DEF Here
  <2>2. \A i \in 1..Len(toDev') : toDev'[i].k = "fence" => Exposed(journal'[toDev'[i].j])
    BY <1>2, <1>3, <2>1
  <2> QED BY <2>2 DEF FenceIsDurable, Exposed
<1>5. Ordered(toDev', paper)
  <2>1. item.k \in Ink => paper[item.j] = "none" /\ ~InkIn(toDev, item.j)
    BY <1>1, WireInk DEF MayHaveInk, Here, IInv
  <2>2. Ordered(toDev, paper) BY DEF Here, FInv, OnTheStream
  <2> QED BY <1>1, <2>1, <2>2, AppendKeepsOrder
<1>6. Ordered(toDev, paper)'
  BY <1>5 DEF Ordered, InkOnce, FenceAfterPayload, PayloadAhead
<1>7. ASSUME NEW i \in 1..Len(toDev'), toDev'[i].k = "fence", toDev'[i].live
      PROVE  \/ worker.pc \in Leased /\ toDev'[i].j = Cur
             \/ \E h \in 1..Len(toDev) :
                  toDev[h].k = "fence" /\ toDev[h].live /\ toDev[h].j = toDev'[i].j
  BY <1>2, <1>3, <1>7
<1> QED BY <1>4, <1>6, <1>7 DEF StreamKept, OnTheStream

LEMMA StreamPrinted == ASSUME Here, PrinterPrints PROVE StreamKept
<1> DEFINE item == Head(toDev)
<1>1. toDev \in Seq(Items) /\ toDev # <<>> /\ toDev' = Tail(toDev)
  BY DEF Here, IInv, TypeOK, PrinterPrints
<1>2. /\ Len(toDev) \in Nat /\ Len(toDev') = Len(toDev) - 1 /\ item = toDev[1]
      /\ \A i \in 1..Len(toDev') : toDev'[i] = toDev[i + 1]
  BY <1>1, QueueShrinks
<1>3. \A i \in 1..Len(toDev') : i + 1 \in 1..Len(toDev) BY <1>2
<1>4. item \in Items /\ item.j \in JobId
  <2>1. item \in Items BY <1>1, HeadTailProperties
  <2> QED BY <2>1 DEF Items
<1>5. /\ \A j \in JobId \ {item.j} : paper'[j] = paper[j]
      /\ item.k \notin Ink => paper'[item.j] = paper[item.j]
      /\ item.k = "payload" => paper'[item.j] = "full"
  <2> HIDE DEF item
  <2>1. paper \in [JobId -> {"none", "part", "full"}] BY DEF Here, IInv, TypeOK
  <2>2. \/ item.k \in Ink /\ paper' = [paper EXCEPT ![item.j] = IF item.k = "payload" THEN "full" ELSE "part"]
        \/ item.k \in {"fence", "cut"} /\ paper' = paper
    BY DEF PrinterPrints, Ink, item
  <2> QED BY <1>4, <2>1, <2>2 DEF Ink
<1>6. Ordered(toDev', paper') /\ \A j \in JobId : paper[j] = "full" => paper'[j] = "full"
  BY <1>1, <1>5, PrintingKeepsOrder DEF Here, FInv, OnTheStream
<1> HIDE DEF item
<1>7. Ordered(toDev, paper)'
  BY <1>6 DEF Ordered, InkOnce, FenceAfterPayload, PayloadAhead
<1>8. FenceIsDurable' BY <1>2, <1>3, FencesStayDurable DEF Here, FInv, OnTheStream
<1> QED BY <1>2, <1>3, <1>6, <1>7, <1>8 DEF StreamKept, OnTheStream

-----------------------------------------------------------------------------
(* The steps, but for the lease of a new slot and the death of a process.  *)
LEMMA QuietKeeps ==
  ASSUME Here, StreamKept, HearsTheTruth, SameSlots, StaysLeased, ClaimsTheTruth,
         FenceHasItsPayload'
  PROVE  FInv'
<1>1. /\ nextSlot \in Nat /\ nextSlot' = nextSlot
      /\ \A j \in JobId : journal[j].tok \in Nat
      /\ toDev \in Seq(Items) /\ toDev' \in Seq(Items)
      /\ worker.pc # "idle" => Cur \in JobId
      /\ worker'.pc # "idle" => worker'.cur \in JobId
  BY DEF Here, IInv, TypeOK, Entry, SameSlots, Cur
<1>2. SlotsAreSpent'
  <2>1. ASSUME NEW s \in Nat, AnswerFor(s)' PROVE s <= nextSlot'
    <3>1. AnswerFor(s) => s <= nextSlot BY DEF Here, FInv, OwnAnswers, SlotsAreSpent
    <3> QED BY <1>1, <2>1, <3>1 DEF HearsTheTruth
  <2>2. ASSUME NEW i \in 1..Len(toDev'), toDev'[i].k = "fence", toDev'[i].live
        PROVE  /\ journal'[toDev'[i].j].tok <= nextSlot
               /\ (worker'.pc \in Leased /\ toDev'[i].j # worker'.cur =>
                     journal'[toDev'[i].j].tok < nextSlot)
    <3> DEFINE j == toDev'[i].j
    <3>1. j \in JobId
      <4>1. toDev'[i] \in Items BY <1>1, ElementOfSeq
      <4> QED BY <4>1 DEF Items
    <3>2. CASE worker.pc \in Leased /\ j = Cur
      <4>1. journal'[j].tok = journal[j].tok BY <3>1, <3>2 DEF SameSlots, Working, Leased
      <4>2. journal[j].tok = nextSlot BY <3>2 DEF Here, FInv, OwnAnswers, NewestSlot
      <4>3. worker'.pc \in Leased => worker'.cur = j BY <3>2 DEF StaysLeased
      <4> QED BY <1>1, <4>1, <4>2, <4>3
    <3>3. CASE \E h \in 1..Len(toDev) :
                 toDev[h].k = "fence" /\ toDev[h].live /\ toDev[h].j = j
      <4>1. PICK h \in 1..Len(toDev) :
              toDev[h].k = "fence" /\ toDev[h].live /\ toDev[h].j = j
        BY <3>3
      <4>2. Exposed(journal[j]) BY <4>1 DEF Here, FInv, OnTheStream, FenceIsDurable
      <4>3. journal'[j].tok = journal[j].tok BY <3>1, <4>2 DEF SameSlots
      <4>4. /\ journal[j].tok <= nextSlot
            /\ (worker.pc \in Leased /\ j # Cur => journal[j].tok < nextSlot)
        BY <4>1 DEF Here, FInv, OwnAnswers, SlotsAreSpent
      <4>5. worker'.pc \in Leased => worker.pc \in Leased /\ worker'.cur = Cur
        BY DEF StaysLeased
      <4> QED BY <4>3, <4>4, <4>5
    <3> QED BY <2>2, <3>2, <3>3 DEF StreamKept
  <2> QED BY <1>1, <2>1, <2>2 DEF SlotsAreSpent, Cur
<1>3. NewestSlot'
  <2>1. ASSUME worker'.pc \in Leased PROVE journal'[worker'.cur].tok = nextSlot
    <3>1. worker.pc \in Leased /\ worker'.cur = Cur /\ Cur \in JobId
      BY <1>1, <2>1 DEF StaysLeased, Leased
    <3>2. journal'[Cur].tok = journal[Cur].tok BY <3>1 DEF SameSlots, Working, Leased
    <3> QED BY <3>1, <3>2 DEF Here, FInv, OwnAnswers, NewestSlot
  <2> QED BY <1>1, <2>1 DEF NewestSlot, Cur
<1>4. AnswerIsEarned'
  <2>1. ASSUME NEW s \in Nat, s = nextSlot, worker'.pc \in Leased, AnswerFor(s)'
        PROVE  paper'[worker'.cur] = "full"
    <3>1. worker.pc \in Leased /\ worker'.cur = Cur /\ Cur \in JobId
      BY <1>1, <2>1 DEF StaysLeased, Leased
    <3>2. AnswerFor(s) => paper[Cur] = "full"
      BY <2>1, <3>1 DEF Here, FInv, OwnAnswers, AnswerIsEarned
    <3>3. paper[Cur] = "full" BY <2>1, <3>1, <3>2 DEF HearsTheTruth
    <3> QED BY <3>1, <3>3 DEF StreamKept
  <2> QED BY <1>1, <2>1 DEF AnswerIsEarned, AnswerFor, Cur
<1>5. ClaimIsEarned' /\ ConfirmedMeansPrinted'
  <2>1. ClaimIsEarned'
    <3>1. Claiming' => worker'.cur = Cur /\ Cur \in JobId /\ paper[Cur] = "full"
      BY <1>1 DEF ClaimsTheTruth, Working
    <3>2. Claiming' => paper'[worker'.cur] = "full" BY <3>1 DEF StreamKept
    <3> QED BY <3>2 DEF ClaimIsEarned, Cur
  <2>2. ASSUME NEW j \in JobId, journal'[j].conf >= PrintConfirmed PROVE paper'[j] = "full"
    <3>1. paper[j] = "full"
      BY <2>2 DEF ClaimsTheTruth, Here, FInv, Claims, ConfirmedMeansPrinted
    <3> QED BY <3>1 DEF StreamKept
  <2> QED BY <2>1, <2>2 DEF ConfirmedMeansPrinted, PrintConfirmed
<1> QED BY <1>2, <1>3, <1>4, <1>5 DEF FInv, OwnAnswers, Claims, StreamKept

LEMMA HearsNoMore ==
  ASSUME fromDev' = fromDev \/ fromDev' = <<>>, io'.echoes \subseteq io.echoes
  PROVE  HearsTheTruth
<1>1. ASSUME NEW s \in Nat, AnswerFor(s)' PROVE AnswerFor(s)
  <2>1. CASE <<s, "fence">> \in io'.echoes BY <2>1 DEF AnswerFor
  <2>2. CASE ~(<<s, "fence">> \in io'.echoes)
    <3>1. PICK i \in 1..Len(fromDev') : fromDev'[i].k = "echo" /\ fromDev'[i].t = <<s, "fence">>
      BY <1>1, <2>2 DEF AnswerFor
    <3>2. fromDev' = fromDev BY <3>1
    <3> QED BY <3>1, <3>2 DEF AnswerFor
  <2> QED BY <2>1, <2>2
<1> QED BY <1>1 DEF HearsTheTruth

(* A step of runJob that goes to pc with the confidence c.                 *)
Moves(pc, c) ==
  /\ worker'.pc = pc /\ worker'.cur = Cur /\ worker'.conf = c
  /\ \A j \in JobId :
       /\ journal'[j].tok = journal[j].tok
       /\ journal'[j].conf >= PrintConfirmed =>
            journal[j].conf >= PrintConfirmed \/ (j = Cur /\ c >= PrintConfirmed)

LEMMA GotoMoves ==
  ASSUME IInv, NEW pc, Goto(pc), UNCHANGED journal PROVE Moves(pc, worker.conf)
BY DEF Moves, Goto, IInv, TypeOK, Threads, Cur

LEMMA RecordMoves ==
  ASSUME IInv, Working, NEW s, NEW c \in 0..4, NEW why, Record(s, c, why), NEW j \in JobId
  PROVE  /\ journal'[j].tok = journal[j].tok
         /\ journal'[j].conf >= PrintConfirmed =>
              journal[j].conf >= PrintConfirmed \/ (j = Cur /\ c >= PrintConfirmed)
<1> DEFINE k == Clamp(c)
<1>1. k >= PrintConfirmed => c >= PrintConfirmed
  BY CompletionAssumption
     DEF Clamp, Ceiling, CutFaultFree, CutProcessed, TransportAccepted, PrintConfirmed
<1>2. journal' = [journal EXCEPT ![Cur].state = s, ![Cur].conf = k, ![Cur].reason = why]
  BY DEF Record
<1> HIDE DEF k
<1>3. journal \in [JobId -> Entry] /\ Cur \in JobId BY DEF IInv, TypeOK, Working, Cur
<1>4. CASE j # Cur
  <2>1. journal'[j] = journal[j] BY <1>2, <1>3, <1>4
  <2> QED BY <2>1
<1>5. CASE j = Cur
  <2>1. journal'[j] = [journal[j] EXCEPT !.state = s, !.conf = k, !.reason = why]
    BY <1>2, <1>3, <1>5
  <2>2. journal[j] \in Entry BY <1>3
  <2>3. journal'[j].tok = journal[j].tok /\ journal'[j].conf = k BY <2>1, <2>2 DEF Entry
  <2> QED BY <1>1, <1>5, <2>3
<1> QED BY <1>4, <1>5

LEMMA AdvanceMoves ==
  ASSUME IInv, Working, NEW s, NEW c \in 0..4, NEW pc, Advance(s, c, pc) PROVE Moves(pc, c)
<1>1. worker'.pc = pc /\ worker'.cur = Cur /\ worker'.conf = c
  BY DEF Advance, IInv, TypeOK, Threads, Cur
<1>2. Record(s, c, "None") BY DEF Advance
<1> QED BY <1>1, <1>2, RecordMoves DEF Moves

LEMMA TerminateMoves ==
  ASSUME IInv, Working, NEW s, NEW c \in 0..4, NEW why, Terminate(s, c, why)
  PROVE  Moves("ended", c)
<1>1. worker'.pc = "ended" /\ worker'.cur = Cur /\ worker'.conf = c
  BY DEF Terminate, IInv, TypeOK, Threads, Cur
<1>2. Record(s, c, why) BY DEF Terminate
<1> QED BY <1>1, <1>2, RecordMoves DEF Moves

LEMMA RunStep ==
  ASSUME Here, Working, NEW pc, NEW c, Moves(pc, c), UNCHANGED nextSlot,
         StreamKept, HearsTheTruth, pc \in Leased => worker.pc \in Leased,
         pc \in Confirmed \/ c >= PrintConfirmed => paper[Cur] = "full",
         FenceHasItsPayload'
  PROVE  FInv'
<1>1. SameSlots /\ StaysLeased BY DEF Moves, SameSlots, StaysLeased
<1>2. ClaimsTheTruth
  <2>1. Claiming' => paper[Cur] = "full" BY DEF Claiming, Moves, PrintConfirmed
  <2> QED BY <2>1 DEF ClaimsTheTruth, Moves
<1> QED BY <1>1, <1>2, QuietKeeps

(* The common case: the confidence stays, and no fence is due next.        *)
LEMMA PlainStep ==
  ASSUME Here, Working, NEW pc, Moves(pc, worker.conf), UNCHANGED nextSlot,
         StreamKept, HearsTheTruth, pc \in Leased => worker.pc \in Leased,
         pc \in Confirmed => worker.pc \in Confirmed, pc # "fence"
  PROVE  FInv'
<1>1. pc \in Confirmed \/ worker.conf >= PrintConfirmed => paper[Cur] = "full"
  BY DEF Here, FInv, Claims, ClaimIsEarned, Claiming
<1>2. FenceHasItsPayload' BY DEF FenceHasItsPayload, Moves
<1> QED BY <1>1, <1>2, RunStep

LEMMA StreamAsked ==
  ASSUME Here, Working, UNCHANGED paper, NEW kind \in {"query", "cut"},
         Sent(kind) \/ SentNothing
  PROVE  StreamKept
<1>1. CASE SentNothing BY <1>1, StreamSame DEF SentNothing
<1>2. CASE Sent(kind)
  <2> DEFINE item == [k |-> kind, j |-> Cur, live |-> TRUE]
  <2>1. item \in Items /\ item.k \notin Ink /\ item.k # "fence"
    BY DEF Here, IInv, TypeOK, Items, Cur, Ink, Working
  <2>2. toDev' = Append(toDev, item) BY <1>2 DEF Sent
  <2> HIDE DEF item
  <2> QED BY <2>1, <2>2, StreamAppended
<1> QED BY <1>1, <1>2

LEMMA Awake ==
  ASSUME Here, NEW pc \in Pcs \ {"idle"}, At(pc)
  PROVE  Working /\ worker.pc = pc /\ worker.conf \in 0..4 /\ Cur \in JobId /\ IInv
BY AtWorks DEF Here, IInv, Working, At

LEMMA ConnectFence == Here /\ Connect => FInv'
<1> SUFFICES ASSUME Here, Connect PROVE FInv' OBVIOUS
<1>1. Working /\ worker.pc = "connect" /\ worker.conf \in 0..4 /\ IInv
  BY Awake DEF Connect, Pcs
<1>2. StreamKept BY StreamSame DEF Connect
<1>3. HearsTheTruth BY HearsNoMore DEF Connect
<1>4. PICK pc \in {"begin", "ended"} : Moves(pc, worker.conf)
  BY <1>1, GotoMoves, TerminateMoves DEF Connect
<1> QED BY <1>1, <1>2, <1>3, <1>4, PlainStep DEF Connect, Leased, Confirmed

LEMMA BeginJobIoFence == Here /\ BeginJobIo => FInv'
<1> SUFFICES ASSUME Here, BeginJobIo PROVE FInv' OBVIOUS
<1>1. Working /\ worker.pc = "begin" /\ worker.conf \in 0..4 /\ IInv
  BY Awake DEF BeginJobIo, Pcs
<1>2. StreamKept BY StreamSame DEF BeginJobIo
<1>3. HearsTheTruth BY HearsNoMore DEF BeginJobIo, QuietIo
<1>4. PICK pc \in {"preflight", "lease"} : Moves(pc, worker.conf)
  BY <1>1, GotoMoves DEF BeginJobIo
<1> QED BY <1>1, <1>2, <1>3, <1>4, PlainStep DEF BeginJobIo, Leased, Confirmed

LEMMA SendPreflightFence == Here /\ SendPreflight => FInv'
<1> SUFFICES ASSUME Here, SendPreflight PROVE FInv' OBVIOUS
<1>1. Working /\ worker.pc = "preflight" /\ worker.conf \in 0..4 /\ IInv
  BY Awake DEF SendPreflight, Pcs
<1>2. StreamKept BY <1>1, StreamAsked DEF SendPreflight
<1>3. io'.echoes = io.echoes BY DEF SendPreflight, Here, IInv, TypeOK, Ios
<1>4. HearsTheTruth BY <1>3, HearsNoMore DEF SendPreflight
<1>5. PICK pc \in {"preWait", "ended"} : Moves(pc, worker.conf)
  BY <1>1, GotoMoves, TerminateMoves DEF SendPreflight
<1> QED BY <1>1, <1>2, <1>4, <1>5, PlainStep DEF SendPreflight, Leased, Confirmed

LEMMA AwaitPreflightFence == Here /\ AwaitPreflight => FInv'
<1> SUFFICES ASSUME Here, AwaitPreflight PROVE FInv' OBVIOUS
<1>1. Working /\ worker.pc = "preWait" /\ worker.conf \in 0..4 /\ IInv
  BY Awake DEF AwaitPreflight, Pcs
<1>2. StreamKept BY StreamSame DEF AwaitPreflight
<1>3. io'.echoes = io.echoes
  BY DEF AwaitPreflight, ClearedRealtime, Here, IInv, TypeOK, Ios
<1>4. HearsTheTruth BY <1>3, HearsNoMore DEF AwaitPreflight
<1>5. CASE \E pc \in {"lease", "ended"} : Moves(pc, worker.conf)
  BY <1>1, <1>2, <1>4, <1>5, PlainStep DEF AwaitPreflight, Leased, Confirmed
<1>6. CASE Moves("lease", PrinterHealthy)
  <2>1. FenceHasItsPayload' BY <1>6 DEF FenceHasItsPayload, Moves
  <2> QED BY <1>1, <1>2, <1>4, <1>6, <2>1, RunStep
          DEF AwaitPreflight, Leased, Confirmed, PrinterHealthy, PrintConfirmed
<1>7. PrinterHealthy \in 0..4 BY DEF PrinterHealthy
<1> QED BY <1>1, <1>5, <1>6, <1>7, GotoMoves, TerminateMoves, AdvanceMoves DEF AwaitPreflight

(* A new slot: no answer can carry it yet, and no fence under way does.    *)
LEMMA LeaseTokensFence == Here /\ LeaseTokens => FInv'
<1> SUFFICES ASSUME Here, LeaseTokens PROVE FInv' OBVIOUS
<1>1. Working /\ worker.pc = "lease" /\ Cur \in JobId /\ IInv
  BY Awake DEF LeaseTokens, Pcs
<1>2. journal[Cur].state \in BeforeSend
  BY <1>1, AtSchedule DEF LeaseTokens, OnSchedule, Pcs
<1>3. /\ nextSlot \in Nat /\ nextSlot' = nextSlot + 1
      /\ UNCHANGED <<io, fromDev, toDev, paper, link>>
      /\ worker'.pc = "start" /\ worker'.cur = Cur /\ worker'.conf = worker.conf
  BY DEF LeaseTokens, Goto, Here, TellsApart, IInv, TypeOK, Threads, Cur
<1>4. /\ journal'[Cur].tok = nextSlot + 1
      /\ \A j \in JobId : /\ journal'[j].conf = journal[j].conf
                          /\ (j # Cur => journal'[j].tok = journal[j].tok)
                          /\ journal[j].tok \in Nat
  <2> DEFINE slot == nextSlot + 1
  <2>1. journal' = [journal EXCEPT ![Cur].tok = slot]
    BY DEF LeaseTokens, Here, TellsApart
  <2> HIDE DEF slot
  <2>2. journal \in [JobId -> Entry] BY DEF Here, IInv, TypeOK
  <2>3. journal'[Cur].tok = slot BY <1>1, <2>1, <2>2 DEF Entry
  <2>4. ASSUME NEW j \in JobId
        PROVE  /\ journal'[j].conf = journal[j].conf
               /\ (j # Cur => journal'[j].tok = journal[j].tok)
               /\ journal[j].tok \in Nat
    BY <1>1, <2>1, <2>2 DEF Entry
  <2> QED BY <2>3, <2>4 DEF slot
<1>5. OnTheStream' BY <1>3, StreamSame DEF StreamKept
<1>6. \A s \in Nat : AnswerFor(s)' => s <= nextSlot
  BY <1>3 DEF AnswerFor, Here, FInv, OwnAnswers, SlotsAreSpent
<1>7. SlotsAreSpent'
  <2>1. ASSUME NEW i \in 1..Len(toDev), toDev[i].k = "fence", toDev[i].live
        PROVE  journal'[toDev[i].j].tok <= nextSlot
    <3>1. toDev[i] \in Items BY ElementOfSeq DEF Here, IInv, TypeOK
    <3>2. toDev[i].j \in JobId BY <3>1 DEF Items
    <3>3. Exposed(journal[toDev[i].j]) BY <2>1 DEF Here, FInv, OnTheStream, FenceIsDurable
    <3>4. toDev[i].j # Cur BY <1>2, <3>3 DEF Exposed
    <3>5. journal[toDev[i].j].tok <= nextSlot
      BY <2>1 DEF Here, FInv, OwnAnswers, SlotsAreSpent
    <3> QED BY <1>4, <3>2, <3>4, <3>5
  <2>2. \A s \in Nat : AnswerFor(s)' => s <= nextSlot' BY <1>3, <1>6
  <2>3. \A i \in 1..Len(toDev) :
          toDev[i].k = "fence" /\ toDev[i].live =>
            /\ journal'[toDev[i].j].tok <= nextSlot'
            /\ journal'[toDev[i].j].tok < nextSlot'
    <3> SUFFICES ASSUME NEW i \in 1..Len(toDev), toDev[i].k = "fence", toDev[i].live
                 PROVE  /\ journal'[toDev[i].j].tok <= nextSlot'
                        /\ journal'[toDev[i].j].tok < nextSlot'
      OBVIOUS
    <3>1. toDev[i] \in Items BY ElementOfSeq DEF Here, IInv, TypeOK
    <3>2. toDev[i].j \in JobId BY <3>1 DEF Items
    <3>3. journal'[toDev[i].j].tok \in Nat BY <3>2 DEF Here, IInv, TypeOK, Entry
    <3>4. journal'[toDev[i].j].tok <= nextSlot BY <2>1
    <3> QED BY <1>3, <3>3, <3>4
  <2> QED BY <1>3, <2>2, <2>3 DEF SlotsAreSpent
<1>8. NewestSlot' BY <1>3, <1>4 DEF NewestSlot, Cur
<1>9. AnswerIsEarned'
  <2>1. ASSUME NEW s \in Nat, s = nextSlot + 1 PROVE ~AnswerFor(s)' BY <1>3, <1>6, <2>1
  <2> QED BY <1>3, <2>1 DEF AnswerIsEarned, AnswerFor
<1>10. Claims'
  <2>1. FenceHasItsPayload' BY <1>3 DEF FenceHasItsPayload
  <2>2. ClaimIsEarned'
    BY <1>1, <1>3 DEF ClaimIsEarned, Claiming, Confirmed, Working, PrintConfirmed, Cur,
                      Here, FInv, Claims
  <2>3. ConfirmedMeansPrinted'
    BY <1>3, <1>4 DEF ConfirmedMeansPrinted, PrintConfirmed, Here, FInv, Claims
  <2> QED BY <2>1, <2>2, <2>3 DEF Claims
<1> QED BY <1>5, <1>7, <1>8, <1>9, <1>10 DEF FInv, OwnAnswers

LEMMA StartSendFence == Here /\ StartSend => FInv'
<1> SUFFICES ASSUME Here, StartSend PROVE FInv' OBVIOUS
<1>1. Working /\ worker.pc = "start" /\ worker.conf \in 0..4 /\ IInv
  BY Awake DEF StartSend, Pcs
<1>2. StreamKept BY StreamSame DEF StartSend
<1>3. HearsTheTruth BY HearsNoMore DEF StartSend
<1>4. Moves("payload", worker.conf) BY <1>1, AdvanceMoves DEF StartSend
<1> QED BY <1>1, <1>2, <1>3, <1>4, PlainStep DEF StartSend, Leased, Confirmed

LEMMA SendPayloadFence == Here /\ SendPayload => FInv'
<1> SUFFICES ASSUME Here, SendPayload PROVE FInv' OBVIOUS
<1>1. Working /\ worker.pc = "payload" /\ worker.conf \in 0..4 /\ Cur \in JobId /\ IInv
  BY Awake DEF SendPayload, Pcs
<1>2. ~MayHaveInk(Cur) BY <1>1, AtSchedule DEF SendPayload, Pcs
<1>3. HearsTheTruth BY HearsNoMore DEF SendPayload
<1>4. ASSUME NEW kind \in Ink, toDev' = Append(toDev, [k |-> kind, j |-> Cur, live |-> TRUE])
      PROVE  /\ StreamKept
             /\ \E i \in 1..Len(toDev') : toDev'[i].k = kind /\ toDev'[i].j = Cur
  <2> DEFINE item == [k |-> kind, j |-> Cur, live |-> TRUE]
  <2>1. item \in Items /\ item.k = kind /\ item.j = Cur /\ item.k # "fence"
    BY <1>1 DEF Items, Ink
  <2>2. toDev' = Append(toDev, item) BY <1>4
  <2> HIDE DEF item
  <2>3. StreamKept BY <1>2, <2>1, <2>2, StreamAppended DEF SendPayload
  <2>4. Len(toDev') = Len(toDev) + 1 /\ Len(toDev) \in Nat /\ toDev'[Len(toDev) + 1] = item
    BY <2>1, <2>2, AppendProperties, LenProperties DEF Here, IInv, TypeOK
  <2>5. Len(toDev) + 1 \in 1..Len(toDev') BY <2>4
  <2> QED BY <2>1, <2>3, <2>4, <2>5
<1>5. CASE Sent("payload") /\ Goto("fence") /\ UNCHANGED journal
  <2>1. Moves("fence", worker.conf) BY <1>1, <1>5, GotoMoves
  <2>2. StreamKept /\ \E i \in 1..Len(toDev') : toDev'[i].k = "payload" /\ toDev'[i].j = Cur
    BY <1>4, <1>5 DEF Sent, Ink
  <2>3. FenceHasItsPayload' BY <2>1, <2>2 DEF FenceHasItsPayload, Moves, Cur
  <2>4. worker.conf >= PrintConfirmed => paper[Cur] = "full"
    BY <1>1 DEF Here, FInv, Claims, ClaimIsEarned, Claiming
  <2> QED BY <1>1, <1>3, <2>1, <2>2, <2>3, <2>4, RunStep DEF SendPayload, Leased, Confirmed
<1>6. CASE SentNothing /\ Terminate("FailedKnown", worker.conf, "TransportUnreachable")
  <2>1. StreamKept BY <1>6, StreamSame DEF SendPayload, SentNothing
  <2>2. Moves("ended", worker.conf) BY <1>1, <1>6, TerminateMoves
  <2> QED BY <1>1, <1>3, <2>1, <2>2, PlainStep DEF SendPayload, Leased, Confirmed
<1>7. CASE SentPart /\ Terminate("Unknown", worker.conf, "Unknown")
  <2>1. StreamKept BY <1>4, <1>7 DEF SentPart, Ink
  <2>2. Moves("ended", worker.conf) BY <1>1, <1>7, TerminateMoves
  <2> QED BY <1>1, <1>3, <2>1, <2>2, PlainStep DEF SendPayload, Leased, Confirmed
<1> QED BY <1>5, <1>6, <1>7 DEF SendPayload

(* The fence leaves only behind its receipt.                               *)
LEMMA SendFenceFence == Here /\ SendFence => FInv'
<1> SUFFICES ASSUME Here, SendFence PROVE FInv' OBVIOUS
<1>1. Working /\ worker.pc = "fence" /\ worker.conf \in 0..4 /\ Cur \in JobId /\ IInv
  BY Awake DEF SendFence, Pcs
<1>2. journal[Cur].state = "SendStarted"
  BY <1>1, AtSchedule DEF SendFence, OnSchedule, Pcs
<1>3. HearsTheTruth BY HearsNoMore DEF SendFence, ArmQueued, Here, TellsApart
<1>4. CASE Sent("fence") /\ Goto("sent") /\ UNCHANGED journal
  <2> DEFINE item == [k |-> "fence", j |-> Cur, live |-> TRUE]
  <2>1. item \in Items /\ item.k = "fence" /\ item.j = Cur BY <1>1 DEF Items
  <2>2. toDev' = Append(toDev, item) /\ link.up BY <1>4 DEF Sent
  <2> HIDE DEF item
  <2>3. Exposed(journal'[Cur]) BY <1>2, <1>4 DEF Exposed, BeforeSend
  <2>4. \/ paper[Cur] = "full"
        \/ \E h \in 1..Len(toDev) : toDev[h].k = "payload" /\ toDev[h].j = Cur
    BY <1>1, <2>2 DEF Here, FInv, Claims, FenceHasItsPayload
  <2>5. worker.pc \in Leased /\ item.k \notin Ink BY <1>1, <2>1 DEF Leased, Ink
  <2>6. StreamKept BY <2>1, <2>2, <2>3, <2>4, <2>5, StreamAppended DEF SendFence
  <2>7. Moves("sent", worker.conf) BY <1>1, <1>4, GotoMoves
  <2> QED BY <1>1, <1>3, <2>6, <2>7, PlainStep DEF SendFence, Leased, Confirmed
<1>5. CASE SentNothing /\ Terminate("Unknown", worker.conf, "Unknown")
  <2>1. StreamKept BY <1>5, StreamSame DEF SendFence, SentNothing
  <2>2. Moves("ended", worker.conf) BY <1>1, <1>5, TerminateMoves
  <2> QED BY <1>1, <1>3, <2>1, <2>2, PlainStep DEF SendFence, Leased, Confirmed
<1> QED BY <1>4, <1>5 DEF SendFence, Here, TellsApart

LEMMA BytesSentFence == Here /\ BytesSent => FInv'
<1> SUFFICES ASSUME Here, BytesSent PROVE FInv' OBVIOUS
<1>1. Working /\ worker.pc = "sent" /\ worker.conf \in 0..4 /\ IInv
  BY Awake DEF BytesSent, Pcs
<1>2. StreamKept BY StreamSame DEF BytesSent
<1>3. HearsTheTruth BY HearsNoMore DEF BytesSent
<1>4. Moves("awaitPrint", worker.conf)
  BY <1>1, AdvanceMoves DEF BytesSent, Here, TellsApart
<1> QED BY <1>1, <1>2, <1>3, <1>4, PlainStep DEF BytesSent, Leased, Confirmed

(* The answer that carries the job's slot is believed, and may be.         *)
LEMMA AwaitPrintFence == Here /\ AwaitPrint => FInv'
<1> SUFFICES ASSUME Here, AwaitPrint PROVE FInv' OBVIOUS
<1>1. Working /\ worker.pc = "awaitPrint" /\ worker.conf \in 0..4 /\ IInv
  BY Awake DEF AwaitPrint, Pcs
<1>2. StreamKept BY StreamSame DEF AwaitPrint
<1>3. HearsTheTruth BY HearsNoMore DEF AwaitPrint, Consumed, Here, TellsApart
<1>4. CASE \E why : Terminate("Unknown", worker.conf, why)
  <2>1. Moves("ended", worker.conf) BY <1>1, <1>4, TerminateMoves
  <2> QED BY <1>1, <1>2, <1>3, <2>1, PlainStep DEF AwaitPrint, Leased, Confirmed
<1>5. CASE Signalled("fence") /\ \E pc \in {"cut", "finished"} :
             Advance("PrintConfirmed", PrintConfirmed, pc)
  <2>1. PrintConfirmed \in 0..4 BY DEF PrintConfirmed
  <2>2. PICK pc \in {"cut", "finished"} : Moves(pc, PrintConfirmed)
    BY <1>1, <1>5, <2>1, AdvanceMoves
  <2>3. worker.pc \in Leased BY <1>1 DEF Leased
  <2>4. journal[Cur].tok = nextSlot BY <2>3 DEF Here, FInv, OwnAnswers, NewestSlot
  <2>5. AnswerFor(nextSlot) BY <1>5, <2>4 DEF Signalled, AnswerFor, Here, TellsApart
  <2>6. paper[Cur] = "full" BY <2>3, <2>5 DEF Here, FInv, OwnAnswers, AnswerIsEarned
  <2>7. FenceHasItsPayload' BY <2>2 DEF FenceHasItsPayload, Moves
  <2> QED BY <1>1, <1>2, <1>3, <2>2, <2>6, <2>7, RunStep DEF AwaitPrint, Leased
<1> QED BY <1>4, <1>5 DEF AwaitPrint

LEMMA SendCutFence == Here /\ SendCut => FInv'
<1> SUFFICES ASSUME Here, SendCut PROVE FInv' OBVIOUS
<1>1. Working /\ worker.pc = "cut" /\ worker.conf \in 0..4 /\ IInv
  BY Awake DEF SendCut, Pcs
<1>2. StreamKept BY <1>1, StreamAsked DEF SendCut
<1>3. HearsTheTruth BY HearsNoMore DEF SendCut, ArmQueued, Here, TellsApart
<1>4. PICK pc \in {"awaitCut", "ended"} : Moves(pc, worker.conf)
  BY <1>1, GotoMoves, TerminateMoves DEF SendCut
<1> QED BY <1>1, <1>2, <1>3, <1>4, PlainStep DEF SendCut, Leased, Confirmed

LEMMA AwaitCutFence == Here /\ AwaitCut => FInv'
<1> SUFFICES ASSUME Here, AwaitCut PROVE FInv' OBVIOUS
<1>1. Working /\ worker.pc = "awaitCut" /\ worker.conf \in 0..4 /\ IInv
  BY Awake DEF AwaitCut, Pcs
<1>2. StreamKept BY StreamSame DEF AwaitCut
<1>3. HearsTheTruth BY HearsNoMore DEF AwaitCut, Consumed, Here, TellsApart
<1>4. PICK pc \in {"cutStatus", "finished", "ended"}, c \in 0..4 : Moves(pc, c)
  BY <1>1, TerminateMoves, AdvanceMoves DEF AwaitCut, CutProcessed
<1>5. paper[Cur] = "full"
  BY <1>1 DEF Here, FInv, Claims, ClaimIsEarned, Claiming, Confirmed
<1>6. FenceHasItsPayload' BY <1>4 DEF FenceHasItsPayload, Moves
<1> QED BY <1>1, <1>2, <1>3, <1>4, <1>5, <1>6, RunStep DEF AwaitCut, Leased

LEMMA QueryCutterFence == Here /\ QueryCutter => FInv'
<1> SUFFICES ASSUME Here, QueryCutter PROVE FInv' OBVIOUS
<1>1. Working /\ worker.pc = "cutStatus" /\ worker.conf \in 0..4 /\ IInv
  BY Awake DEF QueryCutter, Pcs
<1>2. StreamKept BY <1>1, StreamAsked DEF QueryCutter
<1>3. io'.echoes = io.echoes
  BY DEF QueryCutter, ClearedRealtime, Here, IInv, TypeOK, Ios
<1>4. HearsTheTruth BY <1>3, HearsNoMore DEF QueryCutter
<1>5. PICK pc \in {"statusWait", "finished"} : Moves(pc, worker.conf)
  BY <1>1, GotoMoves DEF QueryCutter
<1> QED BY <1>1, <1>2, <1>4, <1>5, PlainStep DEF QueryCutter, Leased, Confirmed

LEMMA AwaitCutterFence == Here /\ AwaitCutter => FInv'
<1> SUFFICES ASSUME Here, AwaitCutter PROVE FInv' OBVIOUS
<1>1. Working /\ worker.pc = "statusWait" /\ worker.conf \in 0..4 /\ IInv
  BY Awake DEF AwaitCutter, Pcs
<1>2. StreamKept BY StreamSame DEF AwaitCutter
<1>3. HearsTheTruth BY HearsNoMore DEF AwaitCutter
<1>4. io.rtAns \in {"none", "ok", "bad"} BY DEF Here, IInv, TypeOK, Ios
<1>5. PICK c \in 0..4 : Moves("ended", c)
  <2>1. CASE Terminate("FailedKnown", worker.conf, "CutterFault")
    BY <1>1, <2>1, TerminateMoves
  <2>2. CASE Terminate("DoneSoftware", CutFaultFree, "None")
    BY <1>1, <2>2, TerminateMoves DEF CutFaultFree
  <2>3. CASE Terminate("DoneSoftware", worker.conf, "None")
    BY <1>1, <2>3, TerminateMoves
  <2> QED BY <1>4, <2>1, <2>2, <2>3 DEF AwaitCutter
<1>6. paper[Cur] = "full"
  BY <1>1 DEF Here, FInv, Claims, ClaimIsEarned, Claiming, Confirmed
<1>7. FenceHasItsPayload' BY <1>5 DEF FenceHasItsPayload, Moves
<1> QED BY <1>1, <1>2, <1>3, <1>5, <1>6, <1>7, RunStep DEF AwaitCutter, Leased

LEMMA CompleteFence == Here /\ Complete => FInv'
<1> SUFFICES ASSUME Here, Complete PROVE FInv' OBVIOUS
<1>1. Working /\ worker.pc \in {"finished", "accepted"} /\ worker.conf \in 0..4 /\ IInv
  BY Awake DEF Complete, Pcs
<1>2. StreamKept BY StreamSame DEF Complete
<1>3. HearsTheTruth BY HearsNoMore DEF Complete
<1>4. PICK c \in {TransportAccepted, worker.conf} : Moves("ended", c)
  BY <1>1, TerminateMoves DEF Complete, TransportAccepted
<1>5. c >= PrintConfirmed => paper[Cur] = "full"
  BY <1>1 DEF Here, FInv, Claims, ClaimIsEarned, Claiming, TransportAccepted, PrintConfirmed
<1>6. FenceHasItsPayload' BY <1>4 DEF FenceHasItsPayload, Moves
<1> QED BY <1>1, <1>2, <1>3, <1>4, <1>5, <1>6, RunStep DEF Complete, Leased, Confirmed

(* Steps that leave the job in hand, and what it claims, alone.            *)
LEMMA StillStep ==
  ASSUME Here, worker'.pc = worker.pc, worker'.cur = Cur, worker'.conf = worker.conf,
         SameSlots, StreamKept, HearsTheTruth, FenceHasItsPayload',
         \A j \in JobId :
           journal'[j].conf >= PrintConfirmed => journal[j].conf >= PrintConfirmed
  PROVE  FInv'
<1>1. StaysLeased BY DEF StaysLeased
<1>2. Claiming' => Claiming BY DEF Claiming, Working, Confirmed, PrintConfirmed
<1>3. ClaimsTheTruth
  BY <1>2 DEF ClaimsTheTruth, Claiming, Here, FInv, Claims, ClaimIsEarned
<1> QED BY <1>1, <1>3, QuietKeeps

LEMMA SamePromise ==
  ASSUME Here, UNCHANGED <<toDev, paper, link>>, worker'.pc = worker.pc, worker'.cur = Cur
  PROVE  FenceHasItsPayload'
BY DEF FenceHasItsPayload, Here, FInv, Claims, Cur

LEMMA SameRecords ==
  ASSUME UNCHANGED <<journal, nextSlot>>
  PROVE  /\ SameSlots
         /\ \A j \in JobId :
              journal'[j].conf >= PrintConfirmed => journal[j].conf >= PrintConfirmed
BY DEF SameSlots

LEMMA PublishFence == Here /\ Publish => FInv'
<1> SUFFICES ASSUME Here, Publish PROVE FInv' OBVIOUS
<1>1. worker'.pc = worker.pc /\ worker'.cur = Cur /\ worker'.conf = worker.conf
  BY DEF Publish, Here, IInv, TypeOK, Threads, Cur
<1>2. StreamKept BY StreamSame DEF Publish
<1>3. HearsTheTruth BY HearsNoMore DEF Publish
<1> QED BY <1>1, <1>2, <1>3, SamePromise, SameRecords, StillStep DEF Publish

(* A worker that takes a job, or has none, claims nothing.                 *)
LEMMA FreshWorker ==
  ASSUME Here, worker'.pc \in {"idle", "connect"}, worker'.conf = 0,
         StreamKept, HearsTheTruth, UNCHANGED <<journal, nextSlot>>
  PROVE  FInv'
<1>1. StaysLeased BY DEF StaysLeased, Leased
<1>2. ~Claiming' BY DEF Claiming, Confirmed, PrintConfirmed
<1>3. ClaimsTheTruth BY <1>2 DEF ClaimsTheTruth
<1>4. FenceHasItsPayload' BY DEF FenceHasItsPayload
<1> QED BY <1>1, <1>3, <1>4, SameRecords, QuietKeeps

LEMMA FinishFence == Here /\ Finish => FInv'
<1> SUFFICES ASSUME Here, Finish PROVE FInv' OBVIOUS
<1>1. StreamKept BY StreamSame DEF Finish
<1>2. HearsTheTruth BY HearsNoMore DEF Finish
<1> QED BY <1>1, <1>2, FreshWorker DEF Finish, Idle

LEMMA TakeFence == Here /\ Take => FInv'
<1> SUFFICES ASSUME Here, Take PROVE FInv' OBVIOUS
<1>1. StreamKept BY StreamSame DEF Take
<1>2. HearsTheTruth BY HearsNoMore DEF Take
<1> QED BY <1>1, <1>2, FreshWorker DEF Take, Idle

LEMMA CancelLeftoverFence == Here /\ CancelLeftover => FInv'
<1> SUFFICES ASSUME Here, CancelLeftover PROVE FInv' OBVIOUS
<1> DEFINE j0 == Head(tasks)
<1>1. StreamKept BY StreamSame DEF CancelLeftover
<1>2. HearsTheTruth BY HearsNoMore DEF CancelLeftover
<1>3. journal \in [JobId -> Entry] BY DEF Here, IInv, TypeOK
<1>4. journal' = [journal EXCEPT ![j0].state = "FailedKnown", ![j0].conf = 0, ![j0].reason = "Unknown"]
  BY DEF CancelLeftover
<1> HIDE DEF j0
<1>5. ASSUME NEW j \in JobId
      PROVE  /\ journal'[j].tok = journal[j].tok
             /\ journal'[j].conf >= PrintConfirmed => journal[j].conf >= PrintConfirmed
  <2>1. CASE j # j0
    <3>1. journal'[j] = journal[j] BY <1>3, <1>4, <2>1
    <3> QED BY <3>1
  <2>2. CASE j = j0
    <3>1. journal'[j] = [journal[j] EXCEPT !.state = "FailedKnown", !.conf = 0, !.reason = "Unknown"]
      BY <1>3, <1>4, <2>2
    <3>2. journal[j] \in Entry BY <1>3
    <3> QED BY <3>1, <3>2 DEF Entry, PrintConfirmed
  <2> QED BY <2>1, <2>2
<1>6. SameSlots BY <1>5 DEF SameSlots, CancelLeftover
<1>7. FenceHasItsPayload' BY SamePromise DEF CancelLeftover, Cur
<1> QED BY <1>1, <1>2, <1>5, <1>6, <1>7, StillStep DEF CancelLeftover, Cur

LEMMA CloseTransportFence == Here /\ CloseTransport => FInv'
<1> SUFFICES ASSUME Here, CloseTransport PROVE FInv' OBVIOUS
<1>1. Within(Orphaned(toDev), toDev)
  BY AllWithin, OrphanedWithin DEF Here, IInv, TypeOK
<1>2. StreamKept BY <1>1, StreamThinned DEF CloseTransport
<1>3. HearsTheTruth BY HearsNoMore DEF CloseTransport
<1>4. FenceHasItsPayload' BY DEF FenceHasItsPayload, CloseTransport, At
<1> QED BY <1>2, <1>3, <1>4, SameRecords, StillStep DEF CloseTransport, Cur

(* A new job gets a record of its own, without a slot and without a claim. *)
LEMMA CreateFence ==
  ASSUME Here, NEW k, NEW rep, NEW cut, NEW strict, Create(k, rep, cut, strict) PROVE FInv'
<1> DEFINE j0 == Len(jobs) + 1
<1>1. StreamKept BY StreamSame DEF Create
<1>2. HearsTheTruth BY HearsNoMore DEF Create
<1>3. journal \in [JobId -> Entry] /\ j0 \in JobId /\ Len(jobs) \in Nat
  BY LenProperties DEF Here, IInv, TypeOK, Create
<1> DEFINE born == IF stopping
                     THEN [NoRecord EXCEPT !.state = "FailedKnown",
                                           !.reason = "TransportUnreachable"]
                     ELSE [NoRecord EXCEPT !.state = "Queued"]
<1>4. journal' = [journal EXCEPT ![j0] = born] BY DEF Create
<1>n. born.conf = 0 BY DEF NoRecord
<1> HIDE DEF born
<1>5. journal[j0].state = "Absent" /\ (Working => Cur # j0)
  BY <1>3 DEF Here, IInv, InStep, OneRecordEach, WorkerOnSchedule, Working, Cur
<1> HIDE DEF j0
<1>6. journal'[j0].conf = 0 /\ \A j \in JobId \ {j0} : journal'[j] = journal[j]
  BY <1>3, <1>4, <1>n
<1>7. SameSlots BY <1>5, <1>6 DEF SameSlots, Exposed, Create
<1>8. FenceHasItsPayload' BY SamePromise DEF Create, Cur
<1>9. \A j \in JobId :
        journal'[j].conf >= PrintConfirmed => journal[j].conf >= PrintConfirmed
  BY <1>6 DEF PrintConfirmed
<1> QED BY <1>1, <1>2, <1>7, <1>8, <1>9, StillStep DEF Create, Cur

LEMMA ClientFence == Here /\ Client => FInv'
<1> SUFFICES ASSUME Here, Client PROVE FInv' OBVIOUS
<1>1. CASE Stop
  <2>1. StreamKept BY <1>1, StreamSame DEF Stop
  <2>2. HearsTheTruth BY <1>1, HearsNoMore DEF Stop
  <2> QED BY <1>1, <2>1, <2>2, SamePromise, SameRecords, StillStep DEF Stop, Cur
<1>2. ASSUME NEW k \in Keys, NEW cut \in CutModes, NEW strict \in StrictModes,
             Submit(k, cut, strict)
      PROVE  FInv'
  BY <1>2, CreateFence DEF Submit
<1>3. ASSUME NEW k \in Keys, NEW cut \in CutModes, NEW strict \in StrictModes,
             NEW supplied \in BOOLEAN, ForceReprint(k, supplied, cut, strict)
      PROVE  FInv'
  BY <1>3, CreateFence DEF ForceReprint
<1> QED BY <1>1, <1>2, <1>3 DEF Client

-----------------------------------------------------------------------------
(* The environment.                                                        *)

LEMMA ReceiveFence == Here /\ Receive => FInv'
<1> SUFFICES ASSUME Here, Receive PROVE FInv' OBVIOUS
<1> DEFINE a == Head(fromDev)
<1>1. /\ fromDev \in Seq(Answers) /\ fromDev # <<>> /\ fromDev' = Tail(fromDev)
      /\ io \in Ios
  BY DEF Here, IInv, TypeOK, Receive
<1>2. /\ Len(fromDev) \in Nat \ {0} /\ Len(fromDev') = Len(fromDev) - 1 /\ a = fromDev[1]
      /\ \A i \in 1..Len(fromDev') : fromDev'[i] = fromDev[i + 1]
  BY <1>1, QueueShrinks, EmptySeq
<1>3. io' = CASE a.k = "echo" -> [io EXCEPT !.echoes = @ \cup {a.t}]
              [] a.k = "realtime" /\ io.rtExp ->
                   [io EXCEPT !.rtExp = FALSE, !.rtAns = IF a.bad THEN "bad" ELSE "ok"]
              [] a.k # "echo" /\ ~(a.k = "realtime" /\ io.rtExp) /\ io.qExp > 0 ->
                   [io EXCEPT !.qExp = @ - 1, !.qAns = @ + 1]
              [] OTHER -> io
  BY DEF Receive
<1> HIDE DEF a
<1>4. io'.echoes = io.echoes \/ (a.k = "echo" /\ io'.echoes = io.echoes \cup {a.t})
  BY <1>1, <1>3 DEF Ios
<1>5. ASSUME NEW s \in Nat, AnswerFor(s)' PROVE AnswerFor(s)
  <2>1. 1 \in 1..Len(fromDev) BY <1>2
  <2>2. CASE <<s, "fence">> \in io'.echoes BY <1>2, <1>4, <2>1, <2>2 DEF AnswerFor
  <2>3. CASE \E i \in 1..Len(fromDev') : fromDev'[i].k = "echo" /\ fromDev'[i].t = <<s, "fence">>
    <3>1. PICK i \in 1..Len(fromDev') : fromDev'[i].k = "echo" /\ fromDev'[i].t = <<s, "fence">>
      BY <2>3
    <3>2. i + 1 \in 1..Len(fromDev) /\ fromDev'[i] = fromDev[i + 1] BY <1>2
    <3> QED BY <3>1, <3>2 DEF AnswerFor
  <2> QED BY <1>5, <2>2, <2>3 DEF AnswerFor
<1>6. HearsTheTruth BY <1>5 DEF HearsTheTruth
<1>7. StreamKept BY StreamSame DEF Receive
<1> QED BY <1>6, <1>7, SamePromise, SameRecords, StillStep DEF Receive, Cur

(* An answer more: the ones that were owed, and a.                         *)
LEMMA OneAnswerMore ==
  ASSUME TypeOK, NEW a \in Answers, fromDev' = fromDev \o <<a>>,
         NEW s, NEW i \in 1..Len(fromDev'), fromDev'[i].k = "echo", fromDev'[i].t = s
  PROVE  \/ a.k = "echo" /\ a.t = s
         \/ \E h \in 1..Len(fromDev) : fromDev[h].k = "echo" /\ fromDev[h].t = s
<1>1. fromDev \in Seq(Answers) /\ Len(fromDev) \in Nat BY LenProperties DEF TypeOK
<1>2. <<a>> \in Seq(Answers) /\ Len(<<a>>) = 1 /\ <<a>>[1] = a OBVIOUS
<1>3. /\ Len(fromDev') = Len(fromDev) + 1
      /\ \A h \in 1..(Len(fromDev) + 1) :
           fromDev'[h] = IF h <= Len(fromDev) THEN fromDev[h] ELSE <<a>>[h - Len(fromDev)]
  BY <1>1, <1>2, ConcatProperties
<1>4. CASE i <= Len(fromDev) BY <1>1, <1>3, <1>4
<1>5. CASE ~(i <= Len(fromDev))
  <2>1. i - Len(fromDev) = 1 BY <1>1, <1>3, <1>5
  <2> QED BY <1>2, <1>3, <1>5, <2>1
<1> QED BY <1>4, <1>5

(* The printer answers a fence once what is ahead of it is on paper.       *)
LEMMA PrinterPrintsFence == Here /\ PrinterPrints => FInv'
<1> SUFFICES ASSUME Here, PrinterPrints PROVE FInv' OBVIOUS
<1> DEFINE item == Head(toDev)
<1>1. /\ toDev \in Seq(Items) /\ toDev # <<>> /\ toDev' = Tail(toDev)
      /\ UNCHANGED <<journal, nextSlot, worker, io, link>>
  BY DEF Here, IInv, TypeOK, PrinterPrints
<1>2. /\ Len(toDev) \in Nat \ {0} /\ Len(toDev') = Len(toDev) - 1 /\ item = toDev[1]
      /\ \A i \in 1..Len(toDev') : toDev'[i] = toDev[i + 1]
  BY <1>1, QueueShrinks, EmptySeq
<1>3. 1 \in 1..Len(toDev) /\ item \in Items /\ item.j \in JobId
  <2>1. 1 \in 1..Len(toDev) BY <1>2
  <2>2. item \in Items BY <1>1, <1>2, <2>1, ElementOfSeq
  <2> QED BY <2>1, <2>2 DEF Items
<1>4. StreamKept BY StreamPrinted
<1> HIDE DEF item
<1>5. HearsTheTruth
  <2>1. CASE fromDev' = fromDev BY <1>1, <2>1, HearsNoMore
  <2>2. CASE /\ item.k \in {"fence", "cut"} /\ item.live
             /\ fromDev' = fromDev \o FenceAnswer(item)
    <3> DEFINE a == [k |-> "echo", t |-> <<journal[item.j].tok, item.k>>]
    <3>1. journal[item.j].tok \in Nat BY <1>3 DEF Here, IInv, TypeOK, Entry
    <3>2. a \in Answers BY <2>2, <3>1 DEF Answers, Tokens
    <3>3. fromDev' = fromDev \o <<a>> BY <2>2 DEF FenceAnswer, Here, TellsApart
    <3>4. a.t = <<journal[item.j].tok, item.k>> OBVIOUS
    <3> HIDE DEF a
    <3>5. ASSUME NEW s \in Nat, AnswerFor(s)', ~AnswerFor(s)
          PROVE  s <= nextSlot /\ (worker.pc \in Leased /\ s = nextSlot => paper[Cur] = "full")
      <4>1. PICK i \in 1..Len(fromDev') :
              fromDev'[i].k = "echo" /\ fromDev'[i].t = <<s, "fence">>
        BY <1>1, <3>5 DEF AnswerFor
      <4>2. a.t = <<s, "fence">>
        BY <3>2, <3>3, <3>5, <4>1, OneAnswerMore DEF AnswerFor, Here, IInv
      <4>3. s = journal[item.j].tok /\ item.k = "fence" BY <3>4, <4>2
      <4>4. /\ s <= nextSlot
            /\ (worker.pc \in Leased /\ item.j # Cur => s < nextSlot)
        BY <1>2, <1>3, <2>2, <4>3 DEF Here, FInv, OwnAnswers, SlotsAreSpent
      <4>5. paper[item.j] = "full"
        BY <1>2, <1>3, <4>3
           DEF Here, FInv, OnTheStream, Ordered, FenceAfterPayload, PayloadAhead
      <4>6. nextSlot \in Nat BY DEF Here, IInv, TypeOK
      <4> QED BY <4>4, <4>5, <4>6
    <3> QED BY <3>5 DEF HearsTheTruth
  <2> QED BY <2>1, <2>2 DEF PrinterPrints, Answered, item
<1>6. FenceHasItsPayload'
  <2>1. ASSUME worker.pc = "fence", link.up, paper'[Cur] # "full"
        PROVE  \E i \in 1..Len(toDev') : toDev'[i].k = "payload" /\ toDev'[i].j = Cur
    <3>1. Cur \in JobId BY <2>1 DEF Here, IInv, TypeOK, Cur
    <3>2. paper[Cur] # "full" BY <1>4, <2>1, <3>1 DEF StreamKept
    <3>3. PICK i \in 1..Len(toDev) : toDev[i].k = "payload" /\ toDev[i].j = Cur
      BY <2>1, <3>2 DEF Here, FInv, Claims, FenceHasItsPayload
    <3>4. i # 1
      <4>1. ASSUME i = 1 PROVE paper'[Cur] = "full"
        <5>1. item.k = "payload" /\ item.j = Cur BY <1>2, <3>3, <4>1
        <5>2. paper' = [paper EXCEPT ![item.j] = IF item.k = "payload" THEN "full" ELSE "part"]
          BY <5>1 DEF PrinterPrints, item
        <5> QED BY <3>1, <5>1, <5>2 DEF Here, IInv, TypeOK
      <4> QED BY <2>1, <4>1
    <3>5. i - 1 \in 1..Len(toDev') /\ (i - 1) + 1 = i BY <1>2, <3>4
    <3> QED BY <1>2, <3>3, <3>5
  <2> QED BY <1>1, <2>1 DEF FenceHasItsPayload, Cur
<1> QED BY <1>1, <1>4, <1>5, <1>6, SameRecords, StillStep DEF Cur

LEMMA PrinterAnswersQueryFence == Here /\ PrinterAnswersQuery => FInv'
<1> SUFFICES ASSUME Here, PrinterAnswersQuery PROVE FInv' OBVIOUS
<1>1. PICK n \in DOMAIN toDev :
        /\ toDev[n].k = "query"
        /\ \/ \E bad \in BOOLEAN : Answered(toDev[n], <<[k |-> "realtime", bad |-> bad]>>)
           \/ UNCHANGED fromDev
        /\ toDev' = SubSeq(toDev, 1, n - 1) \o SubSeq(toDev, n + 1, Len(toDev))
  BY DEF PrinterAnswersQuery
<1>2. toDev \in Seq(Items) /\ n \in 1..Len(toDev) BY LenProperties DEF Here, IInv, TypeOK
<1>3. /\ Within(toDev', toDev)
      /\ \A h \in 1..Len(toDev) : h # n => \E m \in 1..Len(toDev') : toDev'[m] = toDev[h]
  BY <1>1, <1>2, QueryTakenOut
<1>4. UNCHANGED <<journal, nextSlot, worker, io, link, paper>> BY DEF PrinterAnswersQuery
<1>5. StreamKept BY <1>3, <1>4, StreamThinned
<1>6. HearsTheTruth
  <2>1. CASE fromDev' = fromDev BY <1>4, <2>1, HearsNoMore
  <2>2. ASSUME NEW bad \in BOOLEAN, fromDev' = fromDev \o <<[k |-> "realtime", bad |-> bad]>>
        PROVE  HearsTheTruth
    <3> DEFINE a == [k |-> "realtime", bad |-> bad]
    <3>1. a \in Answers /\ a.k # "echo" /\ fromDev' = fromDev \o <<a>> BY <2>2 DEF Answers
    <3> HIDE DEF a
    <3>2. ASSUME NEW s \in Nat, AnswerFor(s)', ~AnswerFor(s) PROVE FALSE
      <4>1. PICK i \in 1..Len(fromDev') :
              fromDev'[i].k = "echo" /\ fromDev'[i].t = <<s, "fence">>
        BY <1>4, <3>2 DEF AnswerFor
      <4> QED BY <3>1, <3>2, <4>1, OneAnswerMore DEF AnswerFor, Here, IInv
    <3> QED BY <3>2 DEF HearsTheTruth
  <2> QED BY <1>1, <2>1, <2>2 DEF Answered
<1>7. FenceHasItsPayload'
  <2>1. ASSUME worker.pc = "fence", link.up, paper[Cur] # "full"
        PROVE  \E i \in 1..Len(toDev') : toDev'[i].k = "payload" /\ toDev'[i].j = Cur
    <3>1. PICK h \in 1..Len(toDev) : toDev[h].k = "payload" /\ toDev[h].j = Cur
      BY <2>1 DEF Here, FInv, Claims, FenceHasItsPayload
    <3>2. h # n BY <1>1, <3>1
    <3> QED BY <1>3, <3>1, <3>2
  <2> QED BY <1>4, <2>1 DEF FenceHasItsPayload, Cur
<1> QED BY <1>4, <1>5, <1>6, <1>7, SameRecords, StillStep DEF Cur

LEMMA LinkDropsFence == Here /\ LinkDrops => FInv'
<1> SUFFICES ASSUME Here, LinkDrops PROVE FInv' OBVIOUS
<1>1. PICK q \in Cutoffs(toDev) : toDev' = Orphaned(q) BY DEF LinkDrops
<1>2. Within(toDev', toDev)
  BY <1>1, CutoffsWithin, OrphanedWithin DEF Here, IInv, TypeOK
<1>3. StreamKept BY <1>2, StreamThinned DEF LinkDrops
<1>4. HearsTheTruth BY HearsNoMore DEF LinkDrops
<1>5. FenceHasItsPayload' BY DEF FenceHasItsPayload, LinkDrops
<1> QED BY <1>3, <1>4, <1>5, SameRecords, StillStep DEF LinkDrops, Cur

(* A death forgets the slots; nothing that still carries one will be       *)
(* answered, and the records claim no more than before.                    *)
LEMMA RestartFence == Here /\ Restart => FInv'
<1> SUFFICES ASSUME Here, Restart PROVE FInv' OBVIOUS
<1>1. PICK sent \in InFlightAtDeath : \E q \in Cutoffs(sent) : toDev' = Orphaned(q)
  BY DEF Restart
<1>2. PICK q \in Cutoffs(sent) : toDev' = Orphaned(q) BY <1>1
<1>3. SessionBound
  BY BoundsAssumption DEF Restart, Here, TellsApart, IInv, TypeOK
<1>4. /\ worker'.pc = "idle" /\ nextSlot' = 0 /\ fromDev' = <<>> /\ io'.echoes = {}
      /\ paper' = paper
  BY DEF Restart, Idle, QuietIo
<1>5. /\ sent \in Seq(Items) /\ Ordered(sent, paper)
      /\ \A i \in 1..Len(sent) :
           sent[i].k = "fence" =>
             \E h \in 1..Len(toDev) : toDev[h].k = "fence" /\ toDev[h].j = sent[i].j
  <2>1. toDev \in Seq(Items) /\ Ordered(toDev, paper)
    BY DEF Here, IInv, TypeOK, FInv, OnTheStream
  <2>2. CASE sent = toDev BY <2>1, <2>2
  <2>3. CASE /\ At("payload")
             /\ sent = Append(toDev, [k |-> "partial", j |-> Cur, live |-> TRUE])
    <3> DEFINE item == [k |-> "partial", j |-> Cur, live |-> TRUE]
    <3>1. Cur \in JobId /\ ~MayHaveInk(Cur) BY <2>3, AtSchedule DEF Here, Pcs
    <3>2. item \in Items /\ item.k = "partial" /\ item.j = Cur BY <3>1 DEF Items
    <3>3. sent = Append(toDev, item) BY <2>3
    <3> HIDE DEF item
    <3>4. paper[Cur] = "none" /\ ~InkIn(toDev, Cur)
      BY <3>1, WireInk DEF MayHaveInk, Here, IInv
    <3>5. Ordered(sent, paper) BY <2>1, <3>2, <3>3, <3>4, AppendKeepsOrder
    <3>6. /\ Len(toDev) \in Nat /\ sent \in Seq(Items) /\ Len(sent) = Len(toDev) + 1
          /\ sent[Len(toDev) + 1] = item
          /\ \A i \in 1..Len(toDev) : sent[i] = toDev[i]
      BY <2>1, <3>2, <3>3, AppendProperties, LenProperties
    <3>7. ASSUME NEW i \in 1..Len(sent), sent[i].k = "fence"
          PROVE  i \in 1..Len(toDev) /\ sent[i] = toDev[i]
      <4>1. i # Len(toDev) + 1 BY <3>2, <3>6, <3>7
      <4>2. i \in 1..Len(toDev) BY <3>6, <4>1
      <4> QED BY <3>6, <4>2
    <3> QED BY <3>5, <3>6, <3>7
  <2> QED BY <2>2, <2>3 DEF InFlightAtDeath
<1>6. q \in Seq(Items) /\ Within(toDev', sent) /\ toDev' \in Seq(Items)
  BY <1>2, <1>5, CutoffsWithin, OrphanedWithin
<1>7. \A i \in 1..Len(toDev') : ~toDev'[i].live BY <1>2, <1>3, <1>6, OrphanedItems
<1>8. OnTheStream'
  <2>1. Ordered(toDev', paper) BY <1>5, <1>6, WithinKeepsOrder
  <2>2. Ordered(toDev, paper)'
    BY <1>4, <2>1 DEF Ordered, InkOnce, FenceAfterPayload, PayloadAhead
  <2>3. ASSUME NEW i \in 1..Len(toDev'), toDev'[i].k = "fence"
        PROVE  \E h \in 1..Len(toDev) : toDev[h].k = "fence" /\ toDev[h].j = toDev'[i].j
    <3>1. PICK h \in 1..Len(sent) : sent[h].k = "fence" /\ sent[h].j = toDev'[i].j
      BY <1>6, <2>3 DEF Within, Embeds
    <3> QED BY <1>5, <3>1
  <2>4. FenceIsDurable' BY <2>3, FencesStayDurable DEF Here, FInv, OnTheStream
  <2> QED BY <2>2, <2>4 DEF OnTheStream
<1>9. \A s \in Nat : ~AnswerFor(s)' BY <1>4 DEF AnswerFor
<1>10. OwnAnswers'
  <2>1. SlotsAreSpent' BY <1>7, <1>9 DEF SlotsAreSpent
  <2>2. NewestSlot' /\ AnswerIsEarned' BY <1>4 DEF NewestSlot, AnswerIsEarned, Leased
  <2> QED BY <2>1, <2>2 DEF OwnAnswers
<1>11. Claims'
  <2>1. FenceHasItsPayload' /\ ClaimIsEarned'
    BY <1>4 DEF FenceHasItsPayload, ClaimIsEarned, Claiming, Working
  <2>2. ASSUME NEW j \in JobId, journal'[j].conf >= PrintConfirmed PROVE paper[j] = "full"
    <3>1. journal'[j] = Recovered(journal[j]) /\ journal[j] \in Entry
      BY DEF Restart, Here, IInv, TypeOK
    <3>2. journal'[j].conf = journal[j].conf BY <3>1 DEF Recovered, Entry
    <3> QED BY <2>2, <3>2 DEF Here, FInv, Claims, ConfirmedMeansPrinted
  <2> QED BY <1>4, <2>1, <2>2 DEF Claims, ConfirmedMeansPrinted, PrintConfirmed
<1> QED BY <1>8, <1>10, <1>11 DEF FInv

-----------------------------------------------------------------------------

LEMMA InitFence == Init => FInv
<1> SUFFICES ASSUME Init PROVE FInv OBVIOUS
<1>1. /\ toDev = <<>> /\ fromDev = <<>> /\ io.echoes = {} /\ worker.pc = "idle"
      /\ \A j \in JobId : journal[j].conf = 0
  BY DEF Init, QuietIo, Idle, NoRecord
<1>2. Len(toDev) = 0 /\ Len(fromDev) = 0 BY <1>1
<1>3. OnTheStream
  BY <1>2 DEF OnTheStream, Ordered, InkOnce, FenceAfterPayload, FenceIsDurable
<1>4. OwnAnswers
  BY <1>1, <1>2 DEF OwnAnswers, SlotsAreSpent, NewestSlot, AnswerIsEarned, AnswerFor, Leased
<1>5. Claims
  BY <1>1 DEF Claims, FenceHasItsPayload, ClaimIsEarned, Claiming, Working,
              ConfirmedMeansPrinted, PrintConfirmed
<1> QED BY <1>3, <1>4, <1>5 DEF FInv

LEMMA NextFence == TellsApart /\ IInv /\ FInv /\ [Next]_vars => FInv'
<1> SUFFICES ASSUME TellsApart, IInv, FInv, [Next]_vars PROVE FInv' OBVIOUS
<1>1. Here BY NextSafe DEF Here
<1>2. CASE Client BY <1>1, <1>2, ClientFence
<1>3. CASE RunJob
  BY <1>1, <1>3, ConnectFence, BeginJobIoFence, SendPreflightFence, AwaitPreflightFence,
     LeaseTokensFence, StartSendFence, SendPayloadFence, SendFenceFence, BytesSentFence,
     AwaitPrintFence, SendCutFence, AwaitCutFence, QueryCutterFence, AwaitCutterFence,
     CompleteFence
     DEF RunJob
<1>4. CASE Worker
  BY <1>1, <1>3, <1>4, PublishFence, FinishFence, TakeFence, CancelLeftoverFence,
     CloseTransportFence DEF Worker
<1>5. CASE Environment
  BY <1>1, <1>5, ReceiveFence, PrinterPrintsFence, PrinterAnswersQueryFence, LinkDropsFence,
     RestartFence DEF Environment
<1>6. CASE UNCHANGED vars
  <2>1. StreamKept BY <1>1, <1>6, StreamSame DEF vars
  <2>2. HearsTheTruth BY <1>6, HearsNoMore DEF vars
  <2>3. UNCHANGED <<toDev, paper, link, journal, nextSlot, worker>> BY <1>6 DEF vars
  <2> QED BY <1>1, <2>1, <2>2, <2>3, SamePromise, SameRecords, StillStep DEF Cur
<1> QED BY <1>2, <1>4, <1>5, <1>6 DEF Next

(* A token fence can be believed: whatever is recorded as PrintConfirmed   *)
(* or better is wholly on paper, whatever is lost, delayed or answered     *)
(* late, and across restarts, on a link whose answers die with their       *)
(* connection; on a serial link, until the process restarts.               *)
THEOREM TokenFenceIsProof == ASSUME TellsApart PROVE Spec => []ConfirmedMeansPrinted
<1>1. Init => FInv BY InitFence
<1>2. IInv /\ FInv /\ [Next]_vars => FInv' BY NextFence
<1>3. FInv => ConfirmedMeansPrinted BY DEF FInv, Claims
<1> QED BY <1>1, <1>2, <1>3, Inductive, PTL DEF Spec

-----------------------------------------------------------------------------
(***************************************************************************)
(* What names a job: the key a client submits it under and the slot its    *)
(* token is made of.  An attempt is followed by another one under the same *)
(* key only once it is known to have failed, so that a key that is never   *)
(* reprinted reaches paper once; and no two jobs of one process share a    *)
(* slot.                                                                   *)
(***************************************************************************)

(* JobIndex::by_key holds the newest job of each key.                      *)
NewestIsIndexed ==
  /\ \A k \in Keys : byKey[k] # NoJob => jobs[byKey[k]].key = k
  /\ \A i \in 1..Len(jobs) : i <= byKey[jobs[i].key]

(* Of the attempts under a key nobody reprints, all but the newest failed. *)
OlderAttemptsFailed ==
  \A i, j \in 1..Len(jobs) :
    i < j /\ jobs[i].key = jobs[j].key /\ jobs[i].key \notin ReprintKeys
      => journal[i].state = "FailedKnown"

AttemptsInOrder == NewestIsIndexed /\ OlderAttemptsFailed

(* Nobody who does not ask the cutter reports its fault.                   *)
CutterUnasked ==
  /\ worker.pc \notin {"cutStatus", "statusWait"}
  /\ \A j \in JobId : journal[j].reason # "CutterFault"

(* A slot is given once.                                                   *)
SlotsAreDistinct ==
  /\ \A j \in JobId : journal[j].tok <= nextSlot
  /\ \A i, j \in JobId : i # j /\ journal[i].tok # NoSlot => journal[i].tok # journal[j].tok

-----------------------------------------------------------------------------
(* What the steps of a job leave alone.                                    *)

(* A step that keeps every token and gives no reason but why.              *)
Reasoned(pc, why) ==
  /\ worker'.pc = pc
  /\ \A j \in JobId : /\ journal'[j].tok = journal[j].tok
                      /\ journal'[j].reason \in {journal[j].reason, why}

LEMMA GotoReasoned ==
  ASSUME IInv, NEW pc, NEW why, Goto(pc), UNCHANGED journal PROVE Reasoned(pc, why)
BY DEF Reasoned, Goto, IInv, TypeOK, Threads

LEMMA RecordReasoned ==
  ASSUME IInv, Working, NEW s, NEW c, NEW why, Record(s, c, why), NEW j \in JobId
  PROVE  journal'[j].tok = journal[j].tok /\ journal'[j].reason \in {journal[j].reason, why}
<1> DEFINE k == Clamp(c)
<1>1. journal' = [journal EXCEPT ![Cur].state = s, ![Cur].conf = k, ![Cur].reason = why]
  BY DEF Record
<1> HIDE DEF k
<1>2. journal \in [JobId -> Entry] /\ Cur \in JobId BY DEF IInv, TypeOK, Working, Cur
<1>3. CASE j # Cur
  <2>1. journal'[j] = journal[j] BY <1>1, <1>2, <1>3
  <2> QED BY <2>1
<1>4. CASE j = Cur
  <2>1. journal'[j] = [journal[j] EXCEPT !.state = s, !.conf = k, !.reason = why]
    BY <1>1, <1>2, <1>4
  <2>2. journal[j] \in Entry BY <1>2
  <2> QED BY <2>1, <2>2 DEF Entry
<1> QED BY <1>3, <1>4

LEMMA AdvanceReasoned ==
  ASSUME IInv, Working, NEW s, NEW c, NEW pc, Advance(s, c, pc) PROVE Reasoned(pc, "None")
<1>1. worker'.pc = pc BY DEF Advance, IInv, TypeOK, Threads
<1>2. Record(s, c, "None") BY DEF Advance
<1> QED BY <1>1, <1>2, RecordReasoned DEF Reasoned

LEMMA TerminateReasoned ==
  ASSUME IInv, Working, NEW s, NEW c, NEW why, Terminate(s, c, why)
  PROVE  Reasoned("ended", why)
<1>1. worker'.pc = "ended" BY DEF Terminate, IInv, TypeOK, Threads
<1>2. Record(s, c, why) BY DEF Terminate
<1> QED BY <1>1, <1>2, RecordReasoned DEF Reasoned

(* Only a wait for the cutter's status can end in a cutter fault, and only *)
(* a token fence leads there.                                              *)
Plain == Pcs \ {"cutStatus", "statusWait"}
Excuses == Reasons \ {"CutterFault"}
Ordinary ==
  /\ UNCHANGED <<jobs, byKey, nextSlot>>
  /\ \E pc \in Pcs, why \in Reasons :
       /\ Reasoned(pc, why)
       /\ why = "CutterFault" => worker.pc = "statusWait"
       /\ pc = "statusWait" => worker.pc \in {"cutStatus", "statusWait"}
       /\ pc = "cutStatus" => Completion = "GsParenH" \/ worker.pc = "cutStatus"

LEMMA PlainIsOrdinary ==
  ASSUME UNCHANGED <<jobs, byKey, nextSlot>>, NEW pc \in Plain, NEW why \in Excuses,
         Reasoned(pc, why)
  PROVE  Ordinary
BY DEF Ordinary, Plain, Excuses

LEMMA AtWorking == ASSUME IInv, NEW pc \in Pcs \ {"idle"}, At(pc) PROVE Working /\ worker.pc = pc
BY AtWorks DEF IInv, Working, At

LEMMA RunJobOrdinary == ASSUME IInv, RunJob, ~LeaseTokens PROVE Ordinary
<1>1. CASE Connect
  <2>1. Working BY <1>1, AtWorking DEF Connect, Pcs
  <2>2. \E pc \in Plain : Reasoned(pc, "TransportUnreachable")
    BY <1>1, <2>1, GotoReasoned, TerminateReasoned DEF Connect, Plain, Pcs
  <2> QED BY <1>1, <2>2, PlainIsOrdinary DEF Connect, Excuses, Reasons
<1>2. CASE BeginJobIo
  <2>1. \E pc \in Plain : Reasoned(pc, "None")
    BY <1>2, GotoReasoned DEF BeginJobIo, Plain, Pcs
  <2> QED BY <1>2, <2>1, PlainIsOrdinary DEF BeginJobIo, Excuses, Reasons
<1>3. CASE SendPreflight
  <2>1. Working BY <1>3, AtWorking DEF SendPreflight, Pcs
  <2>2. \E pc \in Plain : Reasoned(pc, "TransportUnreachable")
    BY <1>3, <2>1, GotoReasoned, TerminateReasoned DEF SendPreflight, Plain, Pcs
  <2> QED BY <1>3, <2>2, PlainIsOrdinary DEF SendPreflight, Excuses, Reasons
<1>4. CASE AwaitPreflight
  <2>1. Working BY <1>4, AtWorking DEF AwaitPreflight, Pcs
  <2>2. \E pc \in Plain, why \in Excuses : Reasoned(pc, why)
    BY <1>4, <2>1, GotoReasoned, AdvanceReasoned, TerminateReasoned
       DEF AwaitPreflight, Plain, Pcs, Excuses, Reasons
  <2> QED BY <1>4, <2>2, PlainIsOrdinary DEF AwaitPreflight
<1>5. CASE StartSend
  <2>1. Working BY <1>5, AtWorking DEF StartSend, Pcs
  <2>2. Reasoned("payload", "None") BY <1>5, <2>1, AdvanceReasoned DEF StartSend
  <2> QED BY <1>5, <2>2, PlainIsOrdinary DEF StartSend, Plain, Pcs, Excuses, Reasons
<1>6. CASE SendPayload
  <2>1. Working BY <1>6, AtWorking DEF SendPayload, Pcs
  <2>2. \E pc \in Plain, why \in Excuses : Reasoned(pc, why)
    BY <1>6, <2>1, GotoReasoned, TerminateReasoned
       DEF SendPayload, Plain, Pcs, Excuses, Reasons
  <2> QED BY <1>6, <2>2, PlainIsOrdinary DEF SendPayload
<1>7. CASE SendFence
  <2>1. Working BY <1>7, AtWorking DEF SendFence, Pcs
  <2>2. \E pc \in Plain : Reasoned(pc, "Unknown")
    BY <1>7, <2>1, GotoReasoned, TerminateReasoned DEF SendFence, Plain, Pcs
  <2> QED BY <1>7, <2>2, PlainIsOrdinary DEF SendFence, Excuses, Reasons
<1>8. CASE BytesSent
  <2>1. Working BY <1>8, AtWorking DEF BytesSent, Pcs
  <2>2. \E pc \in Plain : Reasoned(pc, "None")
    BY <1>8, <2>1, AdvanceReasoned DEF BytesSent, Plain, Pcs
  <2> QED BY <1>8, <2>2, PlainIsOrdinary DEF BytesSent, Excuses, Reasons
<1>9. CASE AwaitPrint
  <2>1. Working BY <1>9, AtWorking DEF AwaitPrint, Pcs
  <2>2. \E pc \in Plain, why \in Excuses : Reasoned(pc, why)
    BY <1>9, <2>1, AdvanceReasoned, TerminateReasoned
       DEF AwaitPrint, SilenceReason, Plain, Pcs, Excuses, Reasons
  <2> QED BY <1>9, <2>2, PlainIsOrdinary DEF AwaitPrint
<1>10. CASE SendCut
  <2>1. Working BY <1>10, AtWorking DEF SendCut, Pcs
  <2>2. \E pc \in Plain : Reasoned(pc, "Unknown")
    BY <1>10, <2>1, GotoReasoned, TerminateReasoned DEF SendCut, Plain, Pcs
  <2> QED BY <1>10, <2>2, PlainIsOrdinary DEF SendCut, Excuses, Reasons
<1>11. CASE AwaitCut
  <2>1. Working BY <1>11, AtWorking DEF AwaitCut, Pcs
  <2>2. CASE \E why \in Excuses : Terminate("Unknown", worker.conf, why)
    <3>1. \E why \in Excuses : Reasoned("ended", why) BY <2>1, <2>2, TerminateReasoned
    <3> QED BY <1>11, <3>1, PlainIsOrdinary DEF AwaitCut, Plain, Pcs
  <2>3. CASE \E pc \in {"cutStatus", "finished"} :
               /\ Advance("CutCommandProcessed", CutProcessed, pc)
               /\ pc = "cutStatus" => Completion = "GsParenH"
    <3>1. PICK pc \in {"cutStatus", "finished"} :
            /\ Advance("CutCommandProcessed", CutProcessed, pc)
            /\ pc = "cutStatus" => Completion = "GsParenH"
      BY <2>3
    <3>2. Reasoned(pc, "None") BY <2>1, <3>1, AdvanceReasoned
    <3> QED BY <1>11, <3>1, <3>2 DEF AwaitCut, Ordinary, Pcs, Reasons
  <2> QED BY <1>11, <2>2, <2>3 DEF AwaitCut, SilenceReason, Excuses, Reasons
<1>12. CASE QueryCutter
  <2>1. worker.pc = "cutStatus" BY <1>12 DEF QueryCutter, At
  <2>2. \E pc \in {"statusWait", "finished"} : Reasoned(pc, "None")
    BY <1>12, GotoReasoned DEF QueryCutter
  <2> QED BY <1>12, <2>1, <2>2 DEF QueryCutter, Ordinary, Pcs, Reasons
<1>13. CASE AwaitCutter
  <2>1. Working /\ worker.pc = "statusWait" BY <1>13, AtWorking DEF AwaitCutter, Pcs
  <2>2. io.rtAns \in {"none", "ok", "bad"} BY DEF IInv, TypeOK, Ios
  <2>3. CASE Terminate("FailedKnown", worker.conf, "CutterFault")
    <3>1. Reasoned("ended", "CutterFault") BY <2>1, <2>3, TerminateReasoned
    <3> QED BY <1>13, <2>1, <3>1 DEF AwaitCutter, Ordinary, Pcs, Reasons
  <2>4. CASE \E c : Terminate("DoneSoftware", c, "None")
    <3>1. Reasoned("ended", "None") BY <2>1, <2>4, TerminateReasoned
    <3> QED BY <1>13, <3>1, PlainIsOrdinary DEF AwaitCutter, Plain, Pcs, Excuses, Reasons
  <2> QED BY <1>13, <2>2, <2>3, <2>4 DEF AwaitCutter
<1>14. CASE Complete
  <2>1. Working BY <1>14, AtWorking DEF Complete, Pcs
  <2>2. Reasoned("ended", "None") BY <1>14, <2>1, TerminateReasoned DEF Complete
  <2> QED BY <1>14, <2>2, PlainIsOrdinary DEF Complete, Plain, Pcs, Excuses, Reasons
<1> QED BY <1>1, <1>2, <1>3, <1>4, <1>5, <1>6, <1>7, <1>8, <1>9, <1>10, <1>11, <1>12, <1>13,
           <1>14 DEF RunJob

LEMMA StillOrdinary ==
  ASSUME IInv, UNCHANGED <<jobs, byKey, nextSlot, journal>>, worker'.pc = worker.pc
  PROVE  Ordinary
BY DEF Ordinary, Reasoned, IInv, TypeOK, Threads, Reasons

LEMMA AroundRunJobOrdinary ==
  ASSUME IInv, Publish \/ Finish \/ Take \/ CancelLeftover \/ CloseTransport PROVE Ordinary
<1>1. CASE Publish
  <2>1. worker'.pc = worker.pc BY <1>1 DEF Publish, IInv, TypeOK, Threads
  <2> QED BY <1>1, <2>1, StillOrdinary DEF Publish
<1>2. CASE Finish
  <2>1. Reasoned("idle", "None") BY <1>2 DEF Finish, Idle, Reasoned
  <2> QED BY <1>2, <2>1, PlainIsOrdinary DEF Finish, Plain, Pcs, Excuses, Reasons
<1>3. CASE Take
  <2>1. Reasoned("connect", "None") BY <1>3 DEF Take, Idle, Reasoned
  <2> QED BY <1>3, <2>1, PlainIsOrdinary DEF Take, Plain, Pcs, Excuses, Reasons
<1>4. CASE CancelLeftover
  <2> DEFINE j0 == Head(tasks)
  <2>1. journal' = [journal EXCEPT ![j0].state = "FailedKnown", ![j0].conf = 0, ![j0].reason = "Unknown"]
    BY <1>4 DEF CancelLeftover
  <2> HIDE DEF j0
  <2>2. ASSUME NEW j \in JobId
        PROVE  /\ journal'[j].tok = journal[j].tok
               /\ journal'[j].reason \in {journal[j].reason, "Unknown"}
    <3>1. journal \in [JobId -> Entry] /\ journal[j] \in Entry BY DEF IInv, TypeOK
    <3>2. CASE j = j0
      <4>1. journal'[j] = [journal[j] EXCEPT !.state = "FailedKnown", !.conf = 0, !.reason = "Unknown"]
        BY <2>1, <3>1, <3>2
      <4> QED BY <3>1, <4>1 DEF Entry
    <3>3. CASE j # j0
      <4>1. journal'[j] = journal[j] BY <2>1, <3>1, <3>3
      <4> QED BY <4>1
    <3> QED BY <3>2, <3>3
  <2>3. Reasoned("idle", "Unknown") BY <1>4, <2>2 DEF CancelLeftover, At, Reasoned
  <2> QED BY <1>4, <2>3, PlainIsOrdinary DEF CancelLeftover, Plain, Pcs, Excuses, Reasons
<1>5. CASE CloseTransport BY <1>5, StillOrdinary DEF CloseTransport
<1> QED BY <1>1, <1>2, <1>3, <1>4, <1>5

(* The steps that are not ordinary, one by one.                            *)
LEMMA StepsByKind ==
  ASSUME IInv, [Next]_vars
  PROVE  \/ Ordinary
         \/ LeaseTokens
         \/ Restart
         \/ \E k \in Keys : \E rep, cut, strict :
              Create(k, rep, cut, strict) /\ (FreshAttempt(k, FALSE) \/ k \in ReprintKeys)
<1>1. CASE Client
  <2>1. CASE Stop BY <2>1, StillOrdinary DEF Stop
  <2>2. ASSUME NEW k \in Keys, NEW cut, NEW strict, Submit(k, cut, strict)
        PROVE  Create(k, FALSE, cut, strict) /\ FreshAttempt(k, FALSE)
    BY <2>2 DEF Submit
  <2>3. ASSUME NEW k \in Keys, NEW cut, NEW strict, NEW supplied,
               ForceReprint(k, supplied, cut, strict)
        PROVE  Create(k, TRUE, cut, strict) /\ k \in ReprintKeys
    BY <2>3 DEF ForceReprint
  <2> QED BY <1>1, <2>1, <2>2, <2>3 DEF Client
<1>2. CASE Worker BY <1>2, RunJobOrdinary, AroundRunJobOrdinary DEF Worker
<1>3. CASE Environment
  BY <1>3, StillOrdinary
     DEF Environment, Receive, PrinterPrints, PrinterAnswersQuery, LinkDrops
<1>4. CASE UNCHANGED vars BY <1>4, StillOrdinary DEF vars
<1> QED BY <1>1, <1>2, <1>3, <1>4 DEF Next

-----------------------------------------------------------------------------
(* One key, one copy.                                                      *)

LEMMA SameAttempts ==
  ASSUME IInv, Forward, UNCHANGED <<jobs, byKey>>, AttemptsInOrder PROVE AttemptsInOrder'
<1>1. \A i \in 1..Len(jobs) : i \in JobId
  BY BoundsAssumption, LenProperties DEF IInv, TypeOK, JobId
<1>2. ASSUME NEW i \in 1..Len(jobs), journal[i].state = "FailedKnown"
      PROVE  journal'[i].state = "FailedKnown"
  BY <1>1, <1>2 DEF Forward, Terminals
<1> QED BY <1>2 DEF AttemptsInOrder, NewestIsIndexed, OlderAttemptsFailed

(* A new attempt: the one before it has failed, or is being reprinted.     *)
LEMMA NewAttempt ==
  ASSUME IInv, Forward, AttemptsInOrder,
         NEW k \in Keys, NEW rep, NEW cut, NEW strict, Create(k, rep, cut, strict),
         FreshAttempt(k, FALSE) \/ k \in ReprintKeys
  PROVE  AttemptsInOrder'
<1> DEFINE n == Len(jobs) + 1
           attempt == IF byKey[k] = NoJob THEN 1 ELSE jobs[byKey[k]].attempt + 1
           job == [key |-> k, attempt |-> attempt, reprint |-> rep, cut |-> cut, strict |-> strict]
<1>1. /\ jobs \in Seq(JobInfo) /\ Len(jobs) \in Nat /\ n \in JobId
      /\ jobs' = Append(jobs, job) /\ byKey \in [Keys -> 0..Len(jobs)]
      /\ byKey' = [byKey EXCEPT ![k] = n]
  BY LenProperties DEF IInv, TypeOK, Create
<1>2. job.key = k OBVIOUS
<1> HIDE DEF job
<1>3. DOMAIN jobs = 1..Len(jobs) /\ Len(jobs') = n /\ jobs'[n] = job
      /\ \A i \in 1..Len(jobs) : jobs'[i] = jobs[i]
  BY <1>1, LenProperties
<1>4. \A i \in 1..n : i = n \/ i \in 1..Len(jobs) BY <1>1
<1>5. \A i \in 1..Len(jobs) : i \in JobId /\ i # n BY <1>1, BoundsAssumption DEF JobId
<1>6. \A i \in 1..Len(jobs) : jobs[i].key \in Keys
  <2>1. \A i \in 1..Len(jobs) : jobs[i] \in JobInfo BY <1>1, ElementOfSeq
  <2> QED BY <2>1 DEF JobInfo
<1> HIDE DEF n
<1>7. NewestIsIndexed'
  <2>1. ASSUME NEW k2 \in Keys, byKey'[k2] # NoJob PROVE jobs'[byKey'[k2]].key = k2
    <3>1. CASE k2 = k BY <1>1, <1>2, <1>3, <3>1
    <3>2. CASE k2 # k
      <4>1. byKey'[k2] = byKey[k2] /\ byKey[k2] \in 1..Len(jobs)
        BY <1>1, <2>1, <3>2 DEF NoJob
      <4> QED BY <1>3, <2>1, <4>1 DEF AttemptsInOrder, NewestIsIndexed
    <3> QED BY <3>1, <3>2
  <2>2. ASSUME NEW i \in 1..n PROVE i <= byKey'[jobs'[i].key]
    <3>1. CASE i = n BY <1>1, <1>2, <1>3, <3>1 DEF JobId
    <3>2. CASE i \in 1..Len(jobs)
      <4>1. jobs'[i].key \in Keys /\ i <= byKey[jobs'[i].key]
        BY <1>3, <1>6, <3>2 DEF AttemptsInOrder, NewestIsIndexed
      <4>2. CASE jobs'[i].key = k BY <1>1, <3>2, <4>2 DEF n
      <4>3. CASE jobs'[i].key # k BY <1>1, <4>1, <4>3
      <4> QED BY <4>2, <4>3
    <3> QED BY <1>4, <3>1, <3>2
  <2> QED BY <1>3, <2>1, <2>2 DEF NewestIsIndexed
<1>8. \A i \in 1..Len(jobs) : journal[i].state = "FailedKnown" => journal'[i].state = "FailedKnown"
  BY <1>5 DEF Forward, Terminals
<1>9. ASSUME NEW i \in 1..n, NEW j \in 1..n,
             i < j, jobs'[i].key = jobs'[j].key, jobs'[i].key \notin ReprintKeys
      PROVE  journal'[i].state = "FailedKnown"
  <2>1. i \in 1..Len(jobs) BY <1>1, <1>4, <1>9 DEF n
  <2>2. CASE j \in 1..Len(jobs)
    BY <1>3, <1>8, <1>9, <2>1, <2>2 DEF AttemptsInOrder, OlderAttemptsFailed
  <2>3. CASE j = n
    <3> DEFINE b == byKey[k]
    <3>1. jobs[i].key = k /\ k \notin ReprintKeys BY <1>2, <1>3, <1>9, <2>1, <2>3
    <3>2. i <= b /\ b \in 0..Len(jobs) BY <1>1, <2>1, <3>1 DEF AttemptsInOrder, NewestIsIndexed
    <3>3. b \in 1..Len(jobs) /\ b # NoJob BY <1>1, <2>1, <3>2 DEF NoJob
    <3>4. done[b] /\ pub[b] = "FailedKnown" BY <3>1, <3>3 DEF FreshAttempt, FailedAndFinished
    <3>5. journal[b].state = "FailedKnown"
      BY <1>5, <3>3, <3>4 DEF IInv, Safe, PublishedIsDurable, Terminals
    <3>6. jobs[b].key = k BY <3>3 DEF AttemptsInOrder, NewestIsIndexed
    <3>7. CASE i = b BY <1>8, <2>1, <3>5, <3>7
    <3>8. CASE i # b
      <4>1. i < b BY <1>1, <2>1, <3>2, <3>3, <3>8
      <4> QED BY <1>8, <2>1, <3>1, <3>3, <3>6, <4>1 DEF AttemptsInOrder, OlderAttemptsFailed
    <3> QED BY <3>7, <3>8
  <2> QED BY <1>4, <2>2, <2>3
<1>10. OlderAttemptsFailed' BY <1>3, <1>9 DEF OlderAttemptsFailed
<1> QED BY <1>7, <1>10 DEF AttemptsInOrder

LEMMA NextAttempts == IInv /\ AttemptsInOrder /\ [Next]_vars => AttemptsInOrder'
<1> SUFFICES ASSUME IInv, AttemptsInOrder, [Next]_vars PROVE AttemptsInOrder' OBVIOUS
<1>1. Forward BY NextSafe
<1>2. CASE UNCHANGED <<jobs, byKey>> BY <1>1, <1>2, SameAttempts
<1>3. CASE \E k \in Keys : \E rep, cut, strict :
             Create(k, rep, cut, strict) /\ (FreshAttempt(k, FALSE) \/ k \in ReprintKeys)
  BY <1>1, <1>3, NewAttempt
<1> QED BY <1>2, <1>3, StepsByKind DEF Ordinary, LeaseTokens, Restart

LEMMA NextCutterUnasked ==
  ASSUME Completion # "GsParenH", IInv, CutterUnasked, [Next]_vars PROVE CutterUnasked'
<1>1. CASE Ordinary
  BY <1>1 DEF Ordinary, Reasoned, CutterUnasked
<1>2. CASE LeaseTokens
  BY <1>2 DEF LeaseTokens, Goto, CutterUnasked, IInv, TypeOK, Threads
<1>3. CASE Restart
  <2>1. ASSUME NEW j \in JobId PROVE journal'[j].reason # "CutterFault"
    <3>1. journal'[j] = Recovered(journal[j]) /\ journal[j] \in Entry
      BY <1>3 DEF Restart, IInv, TypeOK
    <3> QED BY <3>1 DEF Recovered, Entry, CutterUnasked
  <2> QED BY <1>3, <2>1 DEF Restart, Idle, CutterUnasked
<1>4. ASSUME NEW k, NEW rep, NEW cut, NEW strict, Create(k, rep, cut, strict)
      PROVE  CutterUnasked'
  <2> DEFINE n == Len(jobs) + 1
             born == IF stopping
                       THEN [NoRecord EXCEPT !.state = "FailedKnown",
                                             !.reason = "TransportUnreachable"]
                       ELSE [NoRecord EXCEPT !.state = "Queued"]
  <2>1. journal' = [journal EXCEPT ![n] = born] /\ worker' = worker BY <1>4 DEF Create
  <2>2. born.reason # "CutterFault" BY DEF NoRecord
  <2> HIDE DEF n, born
  <2>3. \A j \in JobId : journal'[j] = journal[j] \/ journal'[j] = born
    BY <2>1 DEF IInv, TypeOK
  <2> QED BY <2>1, <2>2, <2>3 DEF CutterUnasked
<1> QED BY <1>1, <1>2, <1>3, <1>4, StepsByKind

LEMMA InitAttempts == Init => AttemptsInOrder /\ CutterUnasked /\ SlotsAreDistinct
<1> SUFFICES ASSUME Init PROVE AttemptsInOrder /\ CutterUnasked /\ SlotsAreDistinct OBVIOUS
<1>1. Len(jobs) = 0 /\ \A k \in Keys : byKey[k] = NoJob BY DEF Init
<1>2. AttemptsInOrder BY <1>1 DEF AttemptsInOrder, NewestIsIndexed, OlderAttemptsFailed
<1>3. worker.pc = "idle" /\ nextSlot = 0 /\ \A j \in JobId : journal[j] = NoRecord
  BY DEF Init, Idle
<1>4. CutterUnasked BY <1>3 DEF CutterUnasked, NoRecord
<1>5. SlotsAreDistinct BY <1>3 DEF SlotsAreDistinct, NoRecord, NoSlot
<1> QED BY <1>2, <1>4, <1>5

(* A receipt that may be on paper is never printed again under a key that  *)
(* nobody reprints, unless its job failed on the cutter after the receipt  *)
(* was out (submit's failed_and_finished).                                 *)
CopiesAreAccountedFor ==
  \A i, j \in Created :
    i < j /\ jobs[i].key = jobs[j].key /\ jobs[i].key \notin ReprintKeys /\ MayHaveInk(i)
      => journal[i].state = "FailedKnown" /\ journal[i].reason = "CutterFault"

LEMMA OlderHasNoInk == IInv /\ AttemptsInOrder => CopiesAreAccountedFor
<1> SUFFICES ASSUME IInv, AttemptsInOrder, NEW i \in Created, NEW j \in Created,
                    i < j, jobs[i].key = jobs[j].key, jobs[i].key \notin ReprintKeys,
                    MayHaveInk(i)
             PROVE  journal[i].state = "FailedKnown" /\ journal[i].reason = "CutterFault"
  BY DEF CopiesAreAccountedFor
<1>1. Created = 1..Len(jobs) /\ i \in JobId
  BY BoundsAssumption, LenProperties DEF IInv, TypeOK, Created, JobId
<1>2. journal[i].state = "FailedKnown" BY <1>1 DEF AttemptsInOrder, OlderAttemptsFailed
<1> QED BY <1>1, <1>2 DEF IInv, Safe, FailedKnownPrintedNothing

(* Over every printer, restart, loss and resubmission: only a receipt      *)
(* whose cut failed is printed again without a call of forceReprint.       *)
THEOREM RepeatsAreAccountedFor == Spec => []CopiesAreAccountedFor
<1>1. Init => AttemptsInOrder BY InitAttempts
<1>2. IInv /\ AttemptsInOrder /\ [Next]_vars => AttemptsInOrder' BY NextAttempts
<1>3. IInv /\ AttemptsInOrder => CopiesAreAccountedFor BY OlderHasNoInk
<1> QED BY <1>1, <1>2, <1>3, Inductive, PTL DEF Spec

(* What keeps a second receipt of one key off the paper.                   *)
KeysInv == IInv /\ AttemptsInOrder /\ CutterUnasked

LEMMA KeysBegin == Init => KeysInv
BY InitType, InitSafe, InitAttempts DEF KeysInv, IInv

LEMMA KeysStep ==
  ASSUME Completion # "GsParenH", KeysInv, [Next]_vars PROVE KeysInv'
BY NextSafe, NextAttempts, NextCutterUnasked DEF KeysInv

(* Where no key is reprinted and no cutter asked, no receipt that may be   *)
(* on paper has a second one.                                              *)
LEMMA OneCopyFollows == ASSUME ReprintKeys = {}, KeysInv PROVE OneCopyPerKey
<1> SUFFICES ASSUME NEW i \in Created, NEW j \in Created,
                    i # j, jobs[i].key = jobs[j].key, MayHaveInk(i), MayHaveInk(j)
             PROVE  FALSE
  BY DEF OneCopyPerKey
<1>1. IInv /\ CutterUnasked /\ CopiesAreAccountedFor BY OlderHasNoInk DEF KeysInv
<1>2. Created = 1..Len(jobs) /\ i \in JobId /\ j \in JobId /\ Len(jobs) \in Nat
  BY <1>1, BoundsAssumption, LenProperties DEF IInv, TypeOK, Created, JobId
<1>3. i < j \/ j < i BY <1>2
<1> QED BY <1>1, <1>2, <1>3 DEF CopiesAreAccountedFor, CutterUnasked

(* Without forceReprint, and on a printer that is not asked for its        *)
(* cutter's status, a key reaches paper at most once, however often it is  *)
(* submitted, across failures and restarts.                                *)
THEOREM OneKeyOneCopy ==
  ASSUME ReprintKeys = {}, Completion # "GsParenH" PROVE Spec => []OneCopyPerKey
<1>1. Init => KeysInv BY KeysBegin
<1>2. KeysInv /\ [Next]_vars => KeysInv' BY KeysStep
<1>3. KeysInv => OneCopyPerKey BY OneCopyFollows
<1> QED BY <1>1, <1>2, <1>3, PTL DEF Spec

-----------------------------------------------------------------------------
(* One slot, one receipt.                                                  *)

LEMMA NextSlots ==
  ASSUME MaxRestarts = 0, IInv, SlotsAreDistinct, [Next]_vars PROVE SlotsAreDistinct'
<1>0. nextSlot \in Nat /\ \A j \in JobId : journal[j].tok \in Nat
  BY DEF IInv, TypeOK, Entry
<1>1. CASE Ordinary BY <1>1 DEF Ordinary, Reasoned, SlotsAreDistinct
<1>2. CASE LeaseTokens
  <2> DEFINE slot == nextSlot + 1
  <2>1. CASE UNCHANGED <<nextSlot, journal>> BY <2>1 DEF SlotsAreDistinct
  <2>2. CASE nextSlot' = slot /\ journal' = [journal EXCEPT ![Cur].tok = slot]
    <3>1. slot \in Nat /\ slot > nextSlot BY <1>0
    <3> HIDE DEF slot
    <3>2. Cur \in JobId BY <1>2, AtWorks DEF LeaseTokens, IInv, Pcs
    <3>3. \A j \in JobId : journal'[j].tok = IF j = Cur THEN slot ELSE journal[j].tok
      BY <2>2, <3>2 DEF IInv, TypeOK, Entry
    <3>4. \A j \in JobId : journal[j].tok <= nextSlot /\ journal[j].tok # slot
      BY <1>0, <3>1 DEF SlotsAreDistinct
    <3>5. \A j \in JobId : journal'[j].tok <= slot
      <4> SUFFICES ASSUME NEW j \in JobId PROVE journal'[j].tok <= slot OBVIOUS
      <4>1. CASE j = Cur BY <3>1, <3>3, <4>1
      <4>2. CASE j # Cur BY <1>0, <3>1, <3>3, <3>4, <4>2
      <4> QED BY <4>1, <4>2
    <3>6. \A i, j \in JobId :
            i # j /\ journal'[i].tok # NoSlot => journal'[i].tok # journal'[j].tok
      BY <3>3, <3>4 DEF SlotsAreDistinct
    <3> QED BY <2>2, <3>5, <3>6 DEF SlotsAreDistinct, NoSlot
  <2> QED BY <1>2, <2>1, <2>2 DEF LeaseTokens
<1>3. CASE Restart BY <1>3 DEF Restart, IInv, TypeOK
<1>4. ASSUME NEW k, NEW rep, NEW cut, NEW strict, Create(k, rep, cut, strict)
      PROVE  SlotsAreDistinct'
  <2> DEFINE n == Len(jobs) + 1
             born == IF stopping
                       THEN [NoRecord EXCEPT !.state = "FailedKnown",
                                             !.reason = "TransportUnreachable"]
                       ELSE [NoRecord EXCEPT !.state = "Queued"]
  <2>1. journal' = [journal EXCEPT ![n] = born] /\ nextSlot' = nextSlot BY <1>4 DEF Create
  <2>2. born.tok = 0 BY DEF NoRecord, NoSlot
  <2> HIDE DEF n, born
  <2>3. \A j \in JobId : journal'[j].tok = IF j = n THEN 0 ELSE journal[j].tok
    BY <2>1, <2>2 DEF IInv, TypeOK
  <2> QED BY <1>0, <2>1, <2>3 DEF SlotsAreDistinct, NoSlot
<1> QED BY <1>1, <1>2, <1>3, <1>4, StepsByKind

(* What makes a token good for one run of the process.                     *)
TokenInv == IInv /\ FInv /\ SlotsAreDistinct

LEMMA TokenBegins == Init => TokenInv
BY InitType, InitSafe, InitFence, InitAttempts DEF TokenInv, IInv

LEMMA TokenStep ==
  ASSUME Completion = "GsParenH", MaxRestarts = 0, TokenInv, [Next]_vars PROVE TokenInv'
BY NextSafe, NextFence, NextSlots DEF TokenInv, TellsApart

(* It names one receipt, and what it confirmed is on paper.                *)
LEMMA TokenFollows == ASSUME TokenInv PROVE TokenNamesOneReceipt /\ ConfirmedMeansPrinted
<1>1. \A i \in Created : i \in JobId
  BY BoundsAssumption, LenProperties DEF TokenInv, IInv, TypeOK, Created, JobId
<1>2. TokenNamesOneReceipt BY <1>1 DEF TokenInv, SlotsAreDistinct, TokenNamesOneReceipt
<1>3. ConfirmedMeansPrinted BY DEF TokenInv, FInv, Claims
<1> QED BY <1>2, <1>3

(* Within one run of the process a token names one receipt: jobByToken     *)
(* cannot mistake one job for another.                                     *)
THEOREM OneSlotOneReceipt == ASSUME MaxRestarts = 0 PROVE Spec => []TokenNamesOneReceipt
<1>1. Init => SlotsAreDistinct BY InitAttempts
<1>2. IInv /\ SlotsAreDistinct /\ [Next]_vars => SlotsAreDistinct' BY NextSlots
<1>3. IInv /\ SlotsAreDistinct => TokenNamesOneReceipt
  <2> SUFFICES ASSUME IInv, SlotsAreDistinct PROVE TokenNamesOneReceipt OBVIOUS
  <2>1. \A i \in Created : i \in JobId
    BY BoundsAssumption, LenProperties DEF IInv, TypeOK, Created, JobId
  <2> QED BY <2>1 DEF SlotsAreDistinct, TokenNamesOneReceipt
<1> QED BY <1>1, <1>2, <1>3, Inductive, PTL DEF Spec

=============================================================================
