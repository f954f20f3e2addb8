--------------------------- MODULE ServicesSafety ---------------------------
(***************************************************************************)
(* Safety of the agent's handlers, of the ePOS-Print client, of the Star   *)
(* job path and of the cash drawer, for every value of the bounds, each    *)
(* with an inductive invariant of its own: AgentInv, EposInv, StarInv and  *)
(* DrawerInv. MCServicesSafety carries them, and what CloudPrntSafety      *)
(* proves of the CloudPRNT server, over to the composition.                *)
(***************************************************************************)
EXTENDS Services, TLAPS, NaturalsInduction, SequenceTheorems, FiniteSetTheorems

-----------------------------------------------------------------------------
(* The agent: what a handler and an answer may say of the jobs, and what   *)
(* the index of keys says of them.                                         *)

AgentStates == {"none", "Queued", "SendStarted"} \cup Agent!Terminal
AgentKeys == Keys \cup {Agent!NoKey}

AgentJobRecords ==
  [key : AgentKeys \cup {"none"}, state : AgentStates, record : AgentStates, printed : BOOLEAN]

HandStates ==
  [at : {"none", "answered"}]
  \cup [at : {"check", "register"}, id : Ids, endpoint : Endpoints]
  \cup [at : {"dedupe", "build", "submit", "wait", "record"}, key : AgentKeys, job : 0..MaxJobIds]
  \cup [at : {"submit", "ends"}, key : AgentKeys, job : 0..MaxJobIds, selfTest : {TRUE}]
  \cup [at : {"record"}, key : AgentKeys, job : 0..MaxJobIds, terminal : BOOLEAN]
  \cup [at : {"answer"}, job : 0..MaxJobIds, record : AgentStates, status : {200, 201, 202}]

Begun(js, j) == j \in Agent!JobIds /\ js[j].state # "none"
Concluded(js, j) == j \in Agent!JobIds /\ js[j].state \in Agent!Terminal

(* A handler past its submission holds a job; what it remembers of the     *)
(* job's end is so for good.                                               *)
HandOk(q, js) ==
  /\ q \in HandStates
  /\ q.at \in {"wait", "record", "ends", "answer"} => Begun(js, q.job)
  /\ q.at = "record" /\ "terminal" \in DOMAIN q /\ q.terminal => Concluded(js, q.job)
  /\ q.at = "answer" => /\ q.status = 201 => Concluded(js, q.job)
                        /\ q.record \in Agent!Terminal => js[q.job].record = q.record

AnswerOk(a, js) ==
  /\ a.outcome # "none" => /\ a.job \in Agent!JobIds /\ a.outcome \in Agent!Terminal
                           /\ js[a.job].record = a.outcome
  /\ a.status = 201 /\ a.job # 0 => a.outcome # "none"

(* The journal runs ahead of the job object, and the paper behind neither. *)
JobsOk ==
  /\ jobs \in [Agent!JobIds -> AgentJobRecords]
  /\ \A j \in Agent!JobIds :
        /\ jobs[j].state = "none" <=> jobs[j].record = "none"
        /\ jobs[j].state \in Agent!Terminal => jobs[j].record = jobs[j].state
        /\ jobs[j].printed => jobs[j].record \in {"SendStarted", "Done", "Unknown"}
        /\ jobs[j].state # "none" => jobs[j].key \in AgentKeys

(* The index names the newest job of a key; every older one has failed.    *)
IndexOk ==
  /\ byKey \in [Keys -> 0..MaxJobIds]
  /\ \A k \in Keys : byKey[k] # 0 => jobs[byKey[k]].state # "none"
  /\ \A j \in Agent!JobIds :
        jobs[j].state # "none" /\ jobs[j].key \in Keys \ {Agent!NoKey}
          => byKey[jobs[j].key] = j \/ jobs[j].state = "FailedKnown"

HandsOk ==
  /\ request \in [Requests -> HandStates] /\ answer = [r \in Requests |-> answer[r]]
  /\ \A r \in Requests : HandOk(request[r], jobs) /\ AnswerOk(answer[r], jobs)

AgentInv == JobsOk /\ IndexOk /\ HandsOk

(* What no step undoes.                                                    *)
Grew(js, ks) ==
  \A j \in Agent!JobIds :
     /\ js[j].state # "none" => ks[j].state # "none"
     /\ js[j].state \in Agent!Terminal => ks[j].state \in Agent!Terminal
     /\ js[j].record \in Agent!Terminal => ks[j].record = js[j].record

LEMMA HandGrows ==
  ASSUME NEW q, NEW js, NEW ks, Grew(js, ks), HandOk(q, js)
  PROVE  HandOk(q, ks)
<1>1. \A j : Begun(js, j) => Begun(ks, j)  BY DEF Begun, Grew
<1>2. \A j : Concluded(js, j) => Concluded(ks, j)  BY DEF Concluded, Grew
<1>3. q.at \in {"wait", "record", "ends", "answer"} => Begun(ks, q.job)  BY <1>1 DEF HandOk
<1>4. q.at = "record" /\ "terminal" \in DOMAIN q /\ q.terminal => Concluded(ks, q.job)
  BY <1>2 DEF HandOk
<1>5. ASSUME q.at = "answer" PROVE /\ q.status = 201 => Concluded(ks, q.job)
                                   /\ q.record \in Agent!Terminal => ks[q.job].record = q.record
  <2>1. q.status = 201 => Concluded(ks, q.job)  BY <1>2, <1>5 DEF HandOk
  <2>2. Begun(js, q.job)  BY <1>5 DEF HandOk
  <2>3. q.record \in Agent!Terminal => js[q.job].record = q.record  BY <1>5 DEF HandOk
  <2> QED BY <2>1, <2>2, <2>3 DEF Begun, Grew
<1> QED BY <1>3, <1>4, <1>5 DEF HandOk

LEMMA AnswerGrows ==
  ASSUME NEW a, NEW js, NEW ks, Grew(js, ks), AnswerOk(a, js)
  PROVE  AnswerOk(a, ks)
BY DEF AnswerOk, Grew

(* A step of one handler leaves the others' hands and answers as good as   *)
(* they were.                                                              *)
LEMMA OneHandMoves ==
  ASSUME HandsOk, NEW r \in Requests, NEW q, NEW a, Grew(jobs, jobs'),
         request' = [request EXCEPT ![r] = q], answer' = [answer EXCEPT ![r] = a],
         HandOk(q, jobs'), AnswerOk(a, jobs')
  PROVE  HandsOk'
<1>1. q \in HandStates  BY DEF HandOk
<1>2. request' \in [Requests -> HandStates] /\ answer' = [s \in Requests |-> answer'[s]]
  BY <1>1 DEF HandsOk
<1>3. ASSUME NEW s \in Requests PROVE HandOk(request'[s], jobs') /\ AnswerOk(answer'[s], jobs')
  <2>1. CASE s = r
    <3>1. request'[s] = q /\ answer'[s] = a  BY <2>1 DEF HandsOk
    <3> QED BY <3>1
  <2>2. CASE s # r
    <3>1. request'[s] = request[s] /\ answer'[s] = answer[s]  BY <2>2 DEF HandsOk
    <3>2. HandOk(request[s], jobs) /\ AnswerOk(answer[s], jobs)  BY DEF HandsOk
    <3> QED BY <3>1, <3>2, HandGrows, AnswerGrows
  <2> QED BY <2>1, <2>2
<1> QED BY <1>2, <1>3 DEF HandsOk

LEMMA NoHandMoves ==
  ASSUME HandsOk, Grew(jobs, jobs'), UNCHANGED <<request, answer>>
  PROVE  HandsOk'
BY HandGrows, AnswerGrows DEF HandsOk

LEMMA SameJobs == ASSUME NEW js PROVE Grew(js, js)
BY DEF Grew

Handed(r, q) == request' = [request EXCEPT ![r] = q] /\ UNCHANGED answer
Told(r, a) ==
  /\ request' = [request EXCEPT ![r] = [at |-> "answered"]]
  /\ answer' = [answer EXCEPT ![r] = a]

(* A handler's step that submits nothing.                                  *)
LEMMA HandlerReads ==
  ASSUME AgentInv, UNCHANGED Agent!engine, NEW r \in Requests,
         \/ \E q : HandOk(q, jobs) /\ Handed(r, q)
         \/ \E a : AnswerOk(a, jobs) /\ Told(r, a)
  PROVE  AgentInv'
<1>1. jobs' = jobs /\ byKey' = byKey  BY DEF Agent!engine
<1>2. JobsOk' /\ IndexOk'  BY <1>1 DEF AgentInv, JobsOk, IndexOk
<1>3. Grew(jobs, jobs')  BY <1>1, SameJobs
<1>4. CASE \E q : HandOk(q, jobs) /\ Handed(r, q)
  <2>1. PICK q : HandOk(q, jobs) /\ Handed(r, q)  BY <1>4
  <2>2. answer' = [answer EXCEPT ![r] = answer[r]]  BY <2>1 DEF Handed, AgentInv, HandsOk
  <2>3. AnswerOk(answer[r], jobs')  BY <1>1 DEF AgentInv, HandsOk
  <2>4. HandOk(q, jobs')  BY <1>1, <2>1
  <2>5. request' = [request EXCEPT ![r] = q]  BY <2>1 DEF Handed
  <2>6. HandsOk'  BY <1>3, <2>2, <2>3, <2>4, <2>5, OneHandMoves DEF AgentInv
  <2> QED BY <1>2, <2>6 DEF AgentInv
<1>5. CASE \E a : AnswerOk(a, jobs) /\ Told(r, a)
  <2>1. PICK a : AnswerOk(a, jobs) /\ Told(r, a)  BY <1>5
  <2>2. HandOk([at |-> "answered"], jobs')  BY DEF HandOk, HandStates
  <2>3. AnswerOk(a, jobs')  BY <1>1, <2>1
  <2>4. HandsOk'  BY <1>3, <2>1, <2>2, <2>3, OneHandMoves DEF AgentInv, Told
  <2> QED BY <1>2, <2>4 DEF AgentInv
<1> QED BY <1>4, <1>5

LEMMA AnswersTell ==
  ASSUME NEW r, NEW s, NEW j, NEW o, Agent!Answers(r, s, j, o)
  PROVE  Told(r, [status |-> s, job |-> j, outcome |-> o])
BY DEF Agent!Answers, Told

(* An answer without an outcome.                                           *)
LEMMA PlainAnswer ==
  ASSUME AgentInv, UNCHANGED Agent!engine, NEW r \in Requests, NEW s,
         Agent!Answers(r, s, 0, "none")
  PROVE  AgentInv'
<1> DEFINE a == [status |-> s, job |-> 0, outcome |-> "none"]
<1>1. AnswerOk(a, jobs)  BY DEF AnswerOk
<1>2. Told(r, a)  BY AnswersTell
<1> HIDE DEF a
<1> QED BY <1>1, <1>2, HandlerReads

LEMMA AgentHands ==
  ASSUME AgentInv, NEW r \in Requests
  PROVE  HandOk(request[r], jobs) /\ request[r] \in HandStates
BY DEF AgentInv, HandsOk

(* A handler that waits, or that is about to submit, by its place.         *)
LEMMA HandByPlace ==
  ASSUME NEW q \in HandStates
  PROVE  /\ q.at = "wait" => q \in [at : {"wait"}, key : AgentKeys, job : 0..MaxJobIds]
         /\ q.at = "submit" =>
              q \in [at : {"submit"}, key : AgentKeys, job : 0..MaxJobIds]
                \cup [at : {"submit"}, key : AgentKeys, job : 0..MaxJobIds, selfTest : {TRUE}]
<1>1. CASE q \in [at : {"none", "answered"}]  BY <1>1
<1>2. CASE q \in [at : {"check", "register"}, id : Ids, endpoint : Endpoints]  BY <1>2
<1>3. CASE q \in [at : {"dedupe", "build", "submit", "wait", "record"}, key : AgentKeys,
                  job : 0..MaxJobIds]
  BY <1>3
<1>4. CASE q \in [at : {"submit", "ends"}, key : AgentKeys, job : 0..MaxJobIds,
                  selfTest : {TRUE}]
  BY <1>4
<1>5. CASE q \in [at : {"record"}, key : AgentKeys, job : 0..MaxJobIds, terminal : BOOLEAN]
  BY <1>5
<1>6. CASE q \in [at : {"answer"}, job : 0..MaxJobIds, record : AgentStates,
                  status : {200, 201, 202}]
  BY <1>6
<1> QED BY <1>1, <1>2, <1>3, <1>4, <1>5, <1>6 DEF HandStates

(* The step of a handler that only goes on.                                *)
LEMMA HandGoes ==
  ASSUME AgentInv, UNCHANGED Agent!engine, UNCHANGED answer, NEW r \in Requests, NEW at,
         Agent!Goes(r, at), HandOk([request[r] EXCEPT !.at = at], jobs)
  PROVE  AgentInv'
<1> DEFINE q == [request[r] EXCEPT !.at = at]
<1>1. Handed(r, q)  BY DEF Handed, Agent!Goes, AgentInv, HandsOk
<1>2. HandOk(q, jobs)  OBVIOUS
<1> HIDE DEF q
<1> QED BY <1>1, <1>2, HandlerReads

-----------------------------------------------------------------------------
(* The handlers.                                                           *)

LEMMA PostPrintersKeeps ==
  ASSUME AgentInv, NEW r \in Requests, Agent!PostPrinters(r)
  PROVE  AgentInv'
<1>1. UNCHANGED Agent!engine  BY DEF Agent!PostPrinters
<1>2. CASE Agent!Answers(r, 400, 0, "none")  BY <1>1, <1>2, PlainAnswer
<1>3. ASSUME NEW i \in Ids, NEW e \in Endpoints, UNCHANGED answer,
             request' = [request EXCEPT ![r] = [at |-> "check", id |-> i, endpoint |-> e]]
      PROVE  AgentInv'
  <2> DEFINE q == [at |-> "check", id |-> i, endpoint |-> e]
  <2>1. HandOk(q, jobs)  BY DEF HandOk, HandStates
  <2>2. Handed(r, q)  BY <1>3 DEF Handed
  <2> HIDE DEF q
  <2> QED BY <1>1, <2>1, <2>2, HandlerReads
<1> QED BY <1>2, <1>3 DEF Agent!PostPrinters

LEMMA AddKeeps ==
  ASSUME AgentInv, NEW r \in Requests, Agent!AddChecks(r) \/ Agent!AddRegisters(r)
  PROVE  AgentInv'
<1>1. UNCHANGED Agent!engine  BY DEF Agent!AddChecks, Agent!AddRegisters
<1>2. CASE \E s : Agent!Answers(r, s, 0, "none")  BY <1>1, <1>2, PlainAnswer
<1>3. CASE request[r].at = "check" /\ Agent!Goes(r, "register") /\ UNCHANGED answer
  <2>1. request[r] \in [at : {"check", "register"}, id : Ids, endpoint : Endpoints]
    BY <1>3, AgentHands DEF HandStates
  <2>2. HandOk([request[r] EXCEPT !.at = "register"], jobs)  BY <2>1 DEF HandOk, HandStates
  <2> QED BY <1>1, <1>3, <2>2, HandGoes
<1> QED BY <1>2, <1>3 DEF Agent!AddChecks, Agent!AddRegisters

LEMMA PostJobsKeeps ==
  ASSUME MaxJobIds \in Nat, AgentInv, NEW r \in Requests, Agent!PostJobs(r)
  PROVE  AgentInv'
<1>1. UNCHANGED Agent!engine  BY DEF Agent!PostJobs
<1>2. CASE \E s : Agent!Answers(r, s, 0, "none")  BY <1>1, <1>2, PlainAnswer
<1>3. ASSUME NEW k \in AgentKeys, UNCHANGED answer,
             request' = [request EXCEPT ![r] = [at |-> "dedupe", key |-> k, job |-> 0]]
      PROVE  AgentInv'
  <2> DEFINE q == [at |-> "dedupe", key |-> k, job |-> 0]
  <2>1. q \in [at : {"dedupe"}, key : AgentKeys, job : 0..MaxJobIds]  OBVIOUS
  <2>2. Handed(r, q)  BY <1>3 DEF Handed
  <2> HIDE DEF q
  <2>3. HandOk(q, jobs)  BY <2>1 DEF HandOk, HandStates
  <2> QED BY <1>1, <2>2, <2>3, HandlerReads
<1> QED BY <1>2, <1>3 DEF Agent!PostJobs, AgentKeys

LEMMA NamedJob ==
  ASSUME AgentInv, NEW k \in AgentKeys, Agent!Named(k) # 0
  PROVE  k \in Keys /\ Agent!Named(k) = byKey[k] /\ Begun(jobs, byKey[k])
<1>1. k \in Keys /\ Agent!Named(k) = byKey[k]  BY DEF Agent!Named, AgentKeys
<1>2. byKey[k] \in 0..MaxJobIds /\ jobs[byKey[k]].state # "none"
  BY <1>1 DEF AgentInv, IndexOk
<1> QED BY <1>1, <1>2 DEF Begun, Agent!JobIds

LEMMA PostDedupesKeeps ==
  ASSUME AgentInv, NEW r \in Requests, Agent!PostDedupes(r)
  PROVE  AgentInv'
<1>1. UNCHANGED Agent!engine /\ UNCHANGED answer  BY DEF Agent!PostDedupes
<1>2. request[r] \in [at : {"dedupe"}, key : AgentKeys, job : 0..MaxJobIds]
  BY AgentHands DEF Agent!PostDedupes, HandStates
<1>3. CASE Agent!Named(request[r].key) # 0
  <2> DEFINE j == byKey[request[r].key]
             q == [request[r] EXCEPT !.at = "record", !.job = j]
  <2>1. request[r].key \in AgentKeys  BY <1>2
  <2>2. Agent!Named(request[r].key) = j /\ Begun(jobs, j)  BY <1>3, <2>1, NamedJob
  <2>3. request' = [request EXCEPT ![r].at = "record", ![r].job = j]
    BY <1>3, <2>2 DEF Agent!PostDedupes
  <2>4. Handed(r, q)  BY <1>1, <2>3 DEF Handed, AgentInv, HandsOk
  <2>5. j \in 0..MaxJobIds  BY <2>2 DEF Begun, Agent!JobIds
  <2>6. q \in [at : {"record"}, key : AgentKeys, job : 0..MaxJobIds] /\ q.job = j
    BY <1>2, <2>5
  <2> HIDE DEF q
  <2>7. HandOk(q, jobs)  BY <2>2, <2>6 DEF HandOk, HandStates
  <2> QED BY <1>1, <2>4, <2>7, HandlerReads
<1>4. CASE Agent!Named(request[r].key) = 0
  <2>1. Agent!Goes(r, "build")  BY <1>4 DEF Agent!PostDedupes
  <2>2. HandOk([request[r] EXCEPT !.at = "build"], jobs)  BY <1>2 DEF HandOk, HandStates
  <2> QED BY <1>1, <2>1, <2>2, HandGoes
<1> QED BY <1>3, <1>4

LEMMA PostBuildsKeeps ==
  ASSUME AgentInv, NEW r \in Requests, Agent!PostBuilds(r)
  PROVE  AgentInv'
<1>1. UNCHANGED Agent!engine  BY DEF Agent!PostBuilds
<1>2. CASE Agent!Answers(r, 400, 0, "none")  BY <1>1, <1>2, PlainAnswer
<1>3. CASE Agent!Goes(r, "submit") /\ UNCHANGED answer
  <2>1. request[r] \in [at : {"build"}, key : AgentKeys, job : 0..MaxJobIds]
    BY AgentHands DEF Agent!PostBuilds, HandStates
  <2>2. HandOk([request[r] EXCEPT !.at = "submit"], jobs)  BY <2>1 DEF HandOk, HandStates
  <2> QED BY <1>1, <1>3, <2>2, HandGoes
<1> QED BY <1>2, <1>3 DEF Agent!PostBuilds

LEMMA PostWaitsKeeps ==
  ASSUME AgentInv, NEW r \in Requests, Agent!PostWaits(r)
  PROVE  AgentInv'
<1>1. UNCHANGED Agent!engine /\ UNCHANGED answer  BY DEF Agent!PostWaits
<1>2. request[r] \in [at : {"wait"}, key : AgentKeys, job : 0..MaxJobIds]
  BY AgentHands, HandByPlace DEF Agent!PostWaits
<1>3. Begun(jobs, request[r].job)  BY AgentHands DEF Agent!PostWaits, HandOk
<1> DEFINE over == jobs[request[r].job].state \in Agent!Terminal
           q == [at |-> "record", key |-> request[r].key, job |-> request[r].job,
                 terminal |-> over]
<1>4. over \in BOOLEAN /\ (over => Concluded(jobs, request[r].job))
  BY <1>3 DEF Concluded, Begun
<1>5. request' = [request EXCEPT ![r] = q]  BY DEF Agent!PostWaits
<1> HIDE DEF over
<1>6. HandOk(q, jobs)  BY <1>2, <1>3, <1>4 DEF HandOk, HandStates
<1>7. Handed(r, q)  BY <1>1, <1>5 DEF Handed
<1> HIDE DEF q
<1> QED BY <1>1, <1>6, <1>7, HandlerReads

LEMMA PostRecordsKeeps ==
  ASSUME AgentInv, NEW r \in Requests, Agent!PostRecords(r)
  PROVE  AgentInv'
<1>1. UNCHANGED Agent!engine /\ UNCHANGED answer  BY DEF Agent!PostRecords
<1> DEFINE old == request[r]
           status == IF "terminal" \notin DOMAIN old THEN 200
                     ELSE IF old.terminal THEN 201 ELSE 202
           q == [at |-> "answer", job |-> old.job, record |-> jobs[old.job].record,
                 status |-> status]
<1>2. old.at = "record" /\ HandOk(old, jobs)  BY AgentHands DEF Agent!PostRecords
<1>3. Handed(r, q)  BY <1>1 DEF Agent!PostRecords, Handed
<1> HIDE DEF old
<1>4. Begun(jobs, old.job)  BY <1>2 DEF HandOk
<1>5. status \in {200, 201, 202}  OBVIOUS
<1>6. status = 201 => "terminal" \in DOMAIN old /\ old.terminal  OBVIOUS
<1>7. status = 201 => Concluded(jobs, old.job)  BY <1>2, <1>6 DEF HandOk
<1> HIDE DEF status
<1>8. jobs[old.job].record \in AgentStates /\ old.job \in 0..MaxJobIds
  BY <1>4 DEF Begun, AgentInv, JobsOk, AgentJobRecords, Agent!JobIds
<1>9. q \in HandStates  BY <1>5, <1>8 DEF HandStates
<1>10. HandOk(q, jobs)  BY <1>4, <1>7, <1>9 DEF HandOk
<1> HIDE DEF q
<1> QED BY <1>1, <1>3, <1>10, HandlerReads

LEMMA PostAnswersKeeps ==
  ASSUME AgentInv, NEW r \in Requests, Agent!PostAnswers(r)
  PROVE  AgentInv'
<1>1. UNCHANGED Agent!engine  BY DEF Agent!PostAnswers
<1> DEFINE q == request[r]
           o == Agent!Outcome(q.job, q.record)
           a == [status |-> q.status, job |-> q.job, outcome |-> o]
<1>2. q.at = "answer" /\ HandOk(q, jobs)  BY AgentHands DEF Agent!PostAnswers
<1>3. Told(r, a)  BY AnswersTell DEF Agent!PostAnswers
<1> HIDE DEF q
<1>4. Begun(jobs, q.job)  BY <1>2 DEF HandOk
<1>5. q.job \in Agent!JobIds  BY <1>4 DEF Begun
<1>6. jobs[q.job].state \in Agent!Terminal => jobs[q.job].record = jobs[q.job].state
  BY <1>5 DEF AgentInv, JobsOk
<1>7. q.record \in Agent!Terminal => jobs[q.job].record = q.record  BY <1>2 DEF HandOk
<1>8. o # "none" => o \in Agent!Terminal /\ jobs[q.job].record = o
  BY <1>6, <1>7 DEF Agent!Outcome
<1>9. q.status = 201 => jobs[q.job].state \in Agent!Terminal  BY <1>2 DEF HandOk, Concluded
<1>10. q.status = 201 => o # "none"  BY <1>9 DEF Agent!Outcome, Agent!Terminal
<1> HIDE DEF o
<1>11. AnswerOk(a, jobs)  BY <1>5, <1>8, <1>10 DEF AnswerOk
<1> HIDE DEF a
<1> QED BY <1>1, <1>3, <1>11, HandlerReads

LEMMA GetJobKeeps ==
  ASSUME AgentInv, NEW r \in Requests, Agent!GetJob(r)
  PROVE  AgentInv'
<1>1. UNCHANGED Agent!engine  BY DEF Agent!GetJob
<1>2. CASE Agent!Answers(r, 404, 0, "none")  BY <1>1, <1>2, PlainAnswer
<1>3. ASSUME NEW k \in Keys, byKey[k] # 0, UNCHANGED answer,
             request' = [request EXCEPT ![r] = [at |-> "record", key |-> k, job |-> byKey[k]]]
      PROVE  AgentInv'
  <2> DEFINE q == [at |-> "record", key |-> k, job |-> byKey[k]]
  <2>1. byKey[k] \in 0..MaxJobIds /\ jobs[byKey[k]].state # "none"
    BY <1>3 DEF AgentInv, IndexOk
  <2>2. Begun(jobs, byKey[k])  BY <1>3, <2>1 DEF Begun, Agent!JobIds
  <2>3. HandOk(q, jobs)  BY <2>1, <2>2 DEF HandOk, HandStates, AgentKeys
  <2>4. Handed(r, q)  BY <1>3 DEF Handed
  <2> HIDE DEF q
  <2> QED BY <1>1, <2>3, <2>4, HandlerReads
<1> QED BY <1>2, <1>3 DEF Agent!GetJob

LEMMA PostPrinterSelfTestKeeps ==
  ASSUME MaxJobIds \in Nat, AgentInv, NEW r \in Requests, Agent!PostPrinterSelfTest(r)
  PROVE  AgentInv'
<1>1. UNCHANGED Agent!engine  BY DEF Agent!PostPrinterSelfTest
<1>2. CASE \E s : Agent!Answers(r, s, 0, "none")  BY <1>1, <1>2, PlainAnswer
<1>3. ASSUME NEW k \in AgentKeys, UNCHANGED answer,
             request' = [request EXCEPT ![r] = [at |-> "submit", key |-> k, job |-> 0,
                                                selfTest |-> TRUE]]
      PROVE  AgentInv'
  <2> DEFINE q == [at |-> "submit", key |-> k, job |-> 0, selfTest |-> TRUE]
  <2>1. HandOk(q, jobs)  BY DEF HandOk, HandStates
  <2>2. Handed(r, q)  BY <1>3 DEF Handed
  <2> HIDE DEF q
  <2> QED BY <1>1, <2>1, <2>2, HandlerReads
<1> QED BY <1>2, <1>3 DEF Agent!PostPrinterSelfTest, AgentKeys

LEMMA SelfTestAnswersKeeps ==
  ASSUME AgentInv, NEW r \in Requests, Agent!SelfTestAnswers(r)
  PROVE  AgentInv'
<1>1. UNCHANGED Agent!engine  BY DEF Agent!SelfTestAnswers
<1> DEFINE q == request[r]
           o == jobs[q.job].state
<1>2. q.at = "ends" /\ HandOk(q, jobs) /\ o \in Agent!Terminal
  BY AgentHands DEF Agent!SelfTestAnswers
<1>3. PICK s \in {200, 409, 202} : Agent!Answers(r, s, q.job, o)
  BY DEF Agent!SelfTestAnswers
<1> DEFINE a == [status |-> s, job |-> q.job, outcome |-> o]
<1>4. Told(r, a)  BY <1>3, AnswersTell
<1> HIDE DEF q
<1>5. q.job \in Agent!JobIds  BY <1>2 DEF HandOk, Begun
<1>6. jobs[q.job].record = o  BY <1>2, <1>5 DEF AgentInv, JobsOk
<1> HIDE DEF o
<1>7. AnswerOk(a, jobs)  BY <1>2, <1>3, <1>5, <1>6 DEF AnswerOk
<1> HIDE DEF a
<1> QED BY <1>1, <1>4, <1>7, HandlerReads

(* A set of numbers has a least one.                                       *)
LEMMA LeastNumber ==
  ASSUME NEW T \in SUBSET Nat, T # {}
  PROVE  \E m \in T : \A n \in T : m <= n
<1>1. PICK m \in T : \A n \in T : ~(<<n, m>> \in OpToRel(<, Nat))
  BY NatLessThanWellFounded, WFMin, Zenon
<1>2. \A n \in T : ~(n < m)  BY <1>1 DEF OpToRel
<1> QED BY <1>2

(* print(): a key's first job, and the next one after a failure, are new;  *)
(* any other submission gets the job that is there.                        *)
LEMMA PostSubmitsKeeps ==
  ASSUME MaxJobIds \in Nat, AgentInv, NEW r \in Requests, Agent!PostSubmits(r)
  PROVE  AgentInv'
<1> DEFINE k == request[r].key
           at == Agent!Then(r)
<1>1. UNCHANGED answer  BY DEF Agent!PostSubmits
<1>2. request[r] \in [at : {"submit"}, key : AgentKeys, job : 0..MaxJobIds]
        \cup [at : {"submit"}, key : AgentKeys, job : 0..MaxJobIds, selfTest : {TRUE}]
  BY AgentHands, HandByPlace DEF Agent!PostSubmits
<1>3. k \in AgentKeys  BY <1>2
<1>4. ASSUME NEW j \in Agent!JobIds
      PROVE  LET q == [request[r] EXCEPT !.at = at, !.job = j]
             IN q \in HandStates /\ q.job = j /\ q.at \notin {"record", "answer"}
  <2>1. j \in 0..MaxJobIds  BY DEF Agent!JobIds
  <2>2. CASE request[r] \in [at : {"submit"}, key : AgentKeys, job : 0..MaxJobIds]
    <3>1. at = "wait"  BY <2>2 DEF Agent!Then
    <3> HIDE DEF at
    <3> QED BY <2>1, <2>2, <3>1 DEF HandStates
  <2>3. CASE request[r] \in [at : {"submit"}, key : AgentKeys, job : 0..MaxJobIds,
                             selfTest : {TRUE}]
    <3>1. at = "ends"  BY <2>3 DEF Agent!Then
    <3> HIDE DEF at
    <3> QED BY <2>1, <2>3, <3>1 DEF HandStates
  <2> QED BY <1>2, <2>2, <2>3
<1>5. CASE ~Agent!Resolves(k)
  <2>1. Agent!Named(k) # 0  BY <1>5 DEF Agent!Resolves
  <2>2. Begun(jobs, byKey[k])  BY <1>3, <2>1, NamedJob
  <2> DEFINE q == [request[r] EXCEPT !.at = at, !.job = byKey[k]]
  <2>3. byKey[k] \in Agent!JobIds  BY <2>2 DEF Begun
  <2>4. q \in HandStates /\ q.job = byKey[k] /\ q.at \notin {"record", "answer"}
    BY <1>4, <2>3
  <2>5. request' = [request EXCEPT ![r].at = at, ![r].job = byKey[k]]
        /\ UNCHANGED Agent!engine
    BY <1>5 DEF Agent!PostSubmits
  <2>6. Handed(r, q)  BY <1>1, <2>5 DEF Handed, AgentInv, HandsOk
  <2> HIDE DEF q
  <2>7. HandOk(q, jobs)  BY <2>2, <2>4 DEF HandOk
  <2> QED BY <2>5, <2>6, <2>7, HandlerReads
<1>6. CASE Agent!Resolves(k)
  <2> DEFINE fresh == {i \in Agent!JobIds : jobs[i].state = "none"}
             j == CHOOSE j \in fresh : \A i \in fresh : j <= i
             new == [key |-> k, state |-> "Queued", record |-> "Queued", printed |-> FALSE]
             q == [request[r] EXCEPT !.at = at, !.job = j]
  <2>1. /\ fresh # {}
        /\ byKey' = [x \in Keys |-> IF x = k THEN j ELSE byKey[x]]
        /\ jobs' = [jobs EXCEPT ![j] = new]
        /\ request' = [request EXCEPT ![r].at = at, ![r].job = j]
    BY <1>6 DEF Agent!PostSubmits
  <2>2. fresh \in SUBSET Nat  BY DEF Agent!JobIds
  <2>3. \E m \in fresh : \A n \in fresh : m <= n
    <3> HIDE DEF fresh
    <3> QED BY <2>1, <2>2, LeastNumber
  <2>4. j \in fresh
    <3> HIDE DEF fresh
    <3> QED BY <2>3
  <2> HIDE DEF j
  <2>5. j \in Agent!JobIds /\ jobs[j].state = "none"  BY <2>4
  <2>6. jobs[j].record = "none"  BY <2>5 DEF AgentInv, JobsOk
  <2>7. j \in 1..MaxJobIds  BY <2>5 DEF Agent!JobIds
  <2>8. jobs \in [Agent!JobIds -> AgentJobRecords]  BY DEF AgentInv, JobsOk
  <2>9. \A i \in Agent!JobIds : jobs'[i] = IF i = j THEN new ELSE jobs[i]
    BY <2>1, <2>8
  <2>10. new \in AgentJobRecords  BY <1>3 DEF AgentJobRecords, AgentStates
  <2>11. jobs' \in [Agent!JobIds -> AgentJobRecords]  BY <2>1, <2>8, <2>10
  <2>12. /\ new.key = k /\ new.state = "Queued" /\ new.record = "Queued" /\ new.printed = FALSE
    OBVIOUS
  <2> HIDE DEF new
  <2>13. JobsOk'
    <3>1. ASSUME NEW i \in Agent!JobIds
          PROVE  /\ jobs'[i].state = "none" <=> jobs'[i].record = "none"
                 /\ jobs'[i].state \in Agent!Terminal => jobs'[i].record = jobs'[i].state
                 /\ jobs'[i].printed => jobs'[i].record \in {"SendStarted", "Done", "Unknown"}
                 /\ jobs'[i].state # "none" => jobs'[i].key \in AgentKeys
      <4>1. CASE i = j
        <5>1. jobs'[i] = new  BY <2>9, <4>1
        <5> QED BY <1>3, <2>12, <5>1 DEF Agent!Terminal
      <4>2. CASE i # j
        <5>1. jobs'[i] = jobs[i]  BY <2>9, <4>2
        <5> QED BY <5>1 DEF AgentInv, JobsOk
      <4> QED BY <4>1, <4>2
    <3> QED BY <2>11, <3>1 DEF JobsOk
  <2>14. Grew(jobs, jobs')
    <3>1. ASSUME NEW i \in Agent!JobIds
          PROVE  /\ jobs[i].state # "none" => jobs'[i].state # "none"
                 /\ jobs[i].state \in Agent!Terminal => jobs'[i].state \in Agent!Terminal
                 /\ jobs[i].record \in Agent!Terminal => jobs'[i].record = jobs[i].record
      BY <2>5, <2>6, <2>9 DEF Agent!Terminal
    <3> QED BY <3>1 DEF Grew
  <2>15. IndexOk'
    <3>1. byKey' \in [Keys -> 0..MaxJobIds]  BY <2>1, <2>7 DEF AgentInv, IndexOk
    <3>2. \A x \in Keys : byKey'[x] = IF x = k THEN j ELSE byKey[x]  BY <2>1
    <3>3. \A i \in Agent!JobIds : jobs[i].state # "none" => jobs'[i].state # "none"
      BY <2>14 DEF Grew
    <3>4. ASSUME NEW x \in Keys, byKey'[x] # 0 PROVE jobs'[byKey'[x]].state # "none"
      <4>1. CASE x = k
        <5>1. byKey'[x] = j /\ jobs'[j] = new  BY <2>5, <2>9, <3>2, <4>1
        <5> QED BY <2>12, <5>1
      <4>2. CASE x # k
        <5>1. byKey'[x] = byKey[x]  BY <3>2, <4>2
        <5>2. byKey[x] \in 0..MaxJobIds /\ jobs[byKey[x]].state # "none"
          BY <3>4, <5>1 DEF AgentInv, IndexOk
        <5>3. byKey[x] \in Agent!JobIds  BY <3>4, <5>1, <5>2 DEF Agent!JobIds
        <5> QED BY <3>3, <5>1, <5>2, <5>3
      <4> QED BY <4>1, <4>2
    <3>5. ASSUME NEW i \in Agent!JobIds, jobs'[i].state # "none",
                 jobs'[i].key \in Keys \ {Agent!NoKey}
          PROVE  byKey'[jobs'[i].key] = i \/ jobs'[i].state = "FailedKnown"
      <4>1. CASE i = j
        <5>1. jobs'[i].key = k  BY <2>9, <2>12, <4>1
        <5> QED BY <3>2, <3>5, <4>1, <5>1
      <4>2. CASE i # j
        <5>1. jobs'[i] = jobs[i]  BY <2>9, <4>2
        <5>2. byKey[jobs[i].key] = i \/ jobs[i].state = "FailedKnown"
          BY <3>5, <5>1 DEF AgentInv, IndexOk
        <5>3. CASE jobs[i].key # k
          <6>1. byKey'[jobs[i].key] = byKey[jobs[i].key]  BY <3>2, <3>5, <5>1, <5>3
          <6> QED BY <5>1, <5>2, <6>1
        <5>4. CASE jobs[i].key = k /\ byKey[k] = i
          <6>1. Agent!Named(k) = i  BY <3>5, <5>1, <5>4 DEF Agent!Named
          <6>2. i # 0  BY DEF Agent!JobIds
          <6>3. jobs[i].state = "FailedKnown"  BY <1>6, <6>1, <6>2 DEF Agent!Resolves
          <6> QED BY <5>1, <6>3
        <5> QED BY <5>1, <5>2, <5>3, <5>4
      <4> QED BY <4>1, <4>2
    <3> QED BY <3>1, <3>4, <3>5 DEF IndexOk
  <2>16. HandsOk'
    <3>1. q \in HandStates /\ q.job = j /\ q.at \notin {"record", "answer"}  BY <1>4, <2>5
    <3>2. request' = [request EXCEPT ![r] = q]  BY <2>1 DEF AgentInv, HandsOk
    <3>3. jobs'[j].state # "none"  BY <2>5, <2>9, <2>12
    <3> HIDE DEF q
    <3>4. HandOk(q, jobs')  BY <2>5, <3>1, <3>3 DEF HandOk, Begun
    <3>5. AnswerOk(answer[r], jobs')  BY <2>14, AnswerGrows DEF AgentInv, HandsOk
    <3>6. answer' = [answer EXCEPT ![r] = answer[r]]  BY <1>1 DEF AgentInv, HandsOk
    <3> QED BY <2>14, <3>2, <3>4, <3>5, <3>6, OneHandMoves DEF AgentInv
  <2> QED BY <2>13, <2>15, <2>16 DEF AgentInv
<1> QED BY <1>5, <1>6

-----------------------------------------------------------------------------
(* The lane.                                                               *)

(* What a step of the lane makes of job j.                                 *)
LEMMA LaneKeeps ==
  ASSUME AgentInv, UNCHANGED <<request, answer, byKey>>, NEW j \in Agent!JobIds, NEW new,
         new \in AgentJobRecords, jobs' = [jobs EXCEPT ![j] = new],
         new.key = jobs[j].key,
         jobs[j].state # "none", new.state # "none", new.record # "none",
         jobs[j].state \in Agent!Terminal => new.state = jobs[j].state,
         jobs[j].record \in Agent!Terminal => new.record = jobs[j].record,
         new.state \in Agent!Terminal => new.record = new.state,
         new.printed => new.record \in {"SendStarted", "Done", "Unknown"}
  PROVE  AgentInv'
<1>1. jobs \in [Agent!JobIds -> AgentJobRecords]  BY DEF AgentInv, JobsOk
<1>2. \A i \in Agent!JobIds : jobs'[i] = IF i = j THEN new ELSE jobs[i]  BY <1>1
<1>3. JobsOk'
  <2>1. jobs' \in [Agent!JobIds -> AgentJobRecords]  BY <1>1
  <2>2. ASSUME NEW i \in Agent!JobIds
        PROVE  /\ jobs'[i].state = "none" <=> jobs'[i].record = "none"
               /\ jobs'[i].state \in Agent!Terminal => jobs'[i].record = jobs'[i].state
               /\ jobs'[i].printed => jobs'[i].record \in {"SendStarted", "Done", "Unknown"}
               /\ jobs'[i].state # "none" => jobs'[i].key \in AgentKeys
    <3>1. CASE i = j
      <4>1. jobs'[i] = new  BY <1>2, <3>1
      <4>2. jobs[j].key \in AgentKeys  BY DEF AgentInv, JobsOk
      <4> QED BY <4>1, <4>2
    <3>2. CASE i # j
      <4>1. jobs'[i] = jobs[i]  BY <1>2, <3>2
      <4> QED BY <4>1 DEF AgentInv, JobsOk
    <3> QED BY <3>1, <3>2
  <2> QED BY <2>1, <2>2 DEF JobsOk
<1>4. Grew(jobs, jobs')
  <2>1. ASSUME NEW i \in Agent!JobIds
        PROVE  /\ jobs[i].state # "none" => jobs'[i].state # "none"
               /\ jobs[i].state \in Agent!Terminal => jobs'[i].state \in Agent!Terminal
               /\ jobs[i].record \in Agent!Terminal => jobs'[i].record = jobs[i].record
    <3>1. CASE i = j  BY <1>2, <3>1
    <3>2. CASE i # j  BY <1>2, <3>2
    <3> QED BY <3>1, <3>2
  <2> QED BY <2>1 DEF Grew
<1>5. IndexOk'
  <2>1. byKey' = byKey  OBVIOUS
  <2>2. ASSUME NEW k \in Keys, byKey[k] # 0 PROVE jobs'[byKey[k]].state # "none"
    <3>1. byKey[k] \in 0..MaxJobIds /\ jobs[byKey[k]].state # "none"
      BY <2>2 DEF AgentInv, IndexOk
    <3>2. byKey[k] \in Agent!JobIds  BY <2>2, <3>1 DEF Agent!JobIds
    <3> QED BY <1>4, <3>1, <3>2 DEF Grew
  <2>3. ASSUME NEW i \in Agent!JobIds, jobs'[i].state # "none",
               jobs'[i].key \in Keys \ {Agent!NoKey}
        PROVE  byKey[jobs'[i].key] = i \/ jobs'[i].state = "FailedKnown"
    <3>1. jobs'[i].key = jobs[i].key /\ jobs[i].state # "none"  BY <1>2, <2>3
    <3>2. jobs[i].key \in Keys \ {Agent!NoKey}  BY <2>3, <3>1
    <3>3. byKey[jobs[i].key] = i \/ jobs[i].state = "FailedKnown"
      BY <3>1, <3>2 DEF AgentInv, IndexOk
    <3>4. jobs[i].state = "FailedKnown" => jobs'[i].state = "FailedKnown"
      BY <1>2 DEF Agent!Terminal
    <3> QED BY <3>1, <3>3, <3>4
  <2>4. byKey \in [Keys -> 0..MaxJobIds]  BY DEF AgentInv, IndexOk
  <2> QED BY <2>1, <2>2, <2>3, <2>4 DEF IndexOk
<1>6. HandsOk'  BY <1>4, NoHandMoves DEF AgentInv
<1> QED BY <1>3, <1>5, <1>6 DEF AgentInv

LEMMA LaneStepKeeps ==
  ASSUME AgentInv, NEW j \in Agent!JobIds,
         Agent!LaneSends(j) \/ Agent!LaneJournals(j) \/ Agent!LaneFinishes(j)
  PROVE  AgentInv'
<1>1. jobs \in [Agent!JobIds -> AgentJobRecords]  BY DEF AgentInv, JobsOk
<1>2. jobs[j] \in AgentJobRecords  BY <1>1
<1>3. /\ jobs[j].state = "none" <=> jobs[j].record = "none"
      /\ jobs[j].state \in Agent!Terminal => jobs[j].record = jobs[j].state
      /\ jobs[j].printed => jobs[j].record \in {"SendStarted", "Done", "Unknown"}
  BY DEF AgentInv, JobsOk
<1>4. CASE Agent!LaneSends(j)
  <2>1. PICK p \in BOOLEAN :
           jobs' = [jobs EXCEPT ![j] = [@ EXCEPT !.state = "SendStarted",
                                                 !.record = "SendStarted", !.printed = p]]
    BY <1>4 DEF Agent!LaneSends
  <2> DEFINE new == [jobs[j] EXCEPT !.state = "SendStarted", !.record = "SendStarted",
                                    !.printed = p]
  <2>2. jobs' = [jobs EXCEPT ![j] = new]  BY <2>1
  <2>3. new \in AgentJobRecords /\ new.key = jobs[j].key /\ new.state = "SendStarted"
        /\ new.record = "SendStarted"
    BY <1>2 DEF AgentJobRecords, AgentStates
  <2> HIDE DEF new
  <2>4. jobs[j].record = "Queued" /\ UNCHANGED <<request, answer, byKey>>
    BY <1>4 DEF Agent!LaneSends
  <2>5. jobs[j].state # "none" /\ jobs[j].state \notin Agent!Terminal
        /\ jobs[j].record \notin Agent!Terminal
    BY <1>3, <2>4 DEF Agent!Terminal
  <2>6. "SendStarted" \notin Agent!Terminal  BY DEF Agent!Terminal
  <2> QED BY <2>2, <2>3, <2>4, <2>5, <2>6, LaneKeeps
<1>5. CASE Agent!LaneJournals(j)
  <2>1. PICK s \in Agent!Terminal :
           /\ jobs[j].record = (IF s = "FailedKnown" THEN "Queued" ELSE "SendStarted")
           /\ s = "Done" => jobs[j].printed
           /\ jobs' = [jobs EXCEPT ![j].record = s]
    BY <1>5 DEF Agent!LaneJournals
  <2> DEFINE new == [jobs[j] EXCEPT !.record = s]
  <2>2. jobs' = [jobs EXCEPT ![j] = new]  BY <1>1, <2>1
  <2>3. new \in AgentJobRecords /\ new.key = jobs[j].key /\ new.state = jobs[j].state
        /\ new.record = s /\ new.printed = jobs[j].printed
    BY <1>2 DEF AgentJobRecords, AgentStates
  <2> HIDE DEF new
  <2>4. UNCHANGED <<request, answer, byKey>>  BY <1>5 DEF Agent!LaneJournals
  <2>5. jobs[j].record \notin Agent!Terminal /\ jobs[j].state \notin Agent!Terminal
        /\ jobs[j].state # "none" /\ s # "none"
    BY <1>3, <2>1 DEF Agent!Terminal
  <2>6. new.printed => new.record \in {"SendStarted", "Done", "Unknown"}
    <3>1. jobs[j].printed => s # "FailedKnown"  BY <1>3, <2>1
    <3> QED BY <2>3, <3>1 DEF Agent!Terminal
  <2> QED BY <2>2, <2>3, <2>4, <2>5, <2>6, LaneKeeps
<1>6. CASE Agent!LaneFinishes(j)
  <2> DEFINE new == [jobs[j] EXCEPT !.state = jobs[j].record]
  <2>1. jobs[j].state \notin Agent!Terminal /\ jobs[j].record \in Agent!Terminal
        /\ jobs' = [jobs EXCEPT ![j] = new] /\ UNCHANGED <<request, answer, byKey>>
    BY <1>1, <1>6 DEF Agent!LaneFinishes
  <2>2. new \in AgentJobRecords /\ new.key = jobs[j].key /\ new.state = jobs[j].record
        /\ new.record = jobs[j].record /\ new.printed = jobs[j].printed
    BY <1>2 DEF AgentJobRecords
  <2> HIDE DEF new
  <2>3. jobs[j].state # "none" /\ jobs[j].record # "none"  BY <1>3, <2>1 DEF Agent!Terminal
  <2> QED BY <1>3, <2>1, <2>2, <2>3, LaneKeeps
<1> QED BY <1>4, <1>5, <1>6

-----------------------------------------------------------------------------

LEMMA AgentInit == ASSUME MaxJobIds \in Nat, Agent!Init PROVE AgentInv
<1>1. JobsOk
  BY DEF Agent!Init, JobsOk, AgentJobRecords, AgentStates, Agent!Terminal
<1>2. IndexOk
  BY DEF Agent!Init, IndexOk
<1>3. ASSUME NEW r \in Requests PROVE HandOk(request[r], jobs) /\ AnswerOk(answer[r], jobs)
  <2>1. request[r] = [at |-> "none"] /\ answer[r] = [status |-> 0, job |-> 0, outcome |-> "none"]
    BY DEF Agent!Init, Agent!NoAnswer
  <2>2. HandOk([at |-> "none"], jobs)  BY DEF HandOk, HandStates
  <2>3. AnswerOk([status |-> 0, job |-> 0, outcome |-> "none"], jobs)  BY DEF AnswerOk
  <2> QED BY <2>1, <2>2, <2>3
<1>4. request \in [Requests -> HandStates] /\ answer = [r \in Requests |-> answer[r]]
  <2>1. request = [r \in Requests |-> [at |-> "none"]]
        /\ answer = [r \in Requests |-> Agent!NoAnswer]
    BY DEF Agent!Init
  <2>2. [at |-> "none"] \in HandStates  BY DEF HandStates
  <2> QED BY <2>1, <2>2
<1> QED BY <1>1, <1>2, <1>3, <1>4 DEF AgentInv, HandsOk

LEMMA AgentStep ==
  ASSUME MaxJobIds \in Nat, AgentInv, [Agent!Next]_(Agent!vars)
  PROVE  AgentInv'
<1>1. CASE UNCHANGED Agent!vars
  BY <1>1 DEF Agent!vars, AgentInv, JobsOk, IndexOk, HandsOk
<1>2. ASSUME NEW r \in Requests, Agent!Handler(r) PROVE AgentInv'
  BY <1>2, AddKeeps, PostDedupesKeeps, PostBuildsKeeps, PostSubmitsKeeps, PostWaitsKeeps,
     PostRecordsKeeps, PostAnswersKeeps, SelfTestAnswersKeeps DEF Agent!Handler
<1>3. ASSUME NEW r \in Requests,
             Agent!PostPrinters(r) \/ Agent!PostJobs(r) \/ Agent!GetJob(r)
               \/ Agent!PostPrinterSelfTest(r)
      PROVE  AgentInv'
  BY <1>3, PostPrintersKeeps, PostJobsKeeps, GetJobKeeps, PostPrinterSelfTestKeeps
<1> QED BY <1>1, <1>2, <1>3, LaneStepKeeps DEF Agent!Next

LEMMA KeysPrintOnce == ASSUME AgentInv PROVE Agent!OneReceiptPerKey
<1>1. SUFFICES ASSUME NEW i \in Agent!JobIds, NEW j \in Agent!JobIds,
                      jobs[i].printed, jobs[j].printed, jobs[i].key = jobs[j].key,
                      jobs[i].key # Agent!NoKey
               PROVE  i = j
  BY DEF Agent!OneReceiptPerKey
<1>2. \A x \in Agent!JobIds : jobs[x].printed =>
         jobs[x].state \notin {"none", "FailedKnown"} /\ jobs[x].key \in AgentKeys
  BY DEF AgentInv, JobsOk, Agent!Terminal
<1>3. \A x \in Agent!JobIds :
         jobs[x].state # "none" /\ jobs[x].key \in Keys \ {Agent!NoKey}
           => byKey[jobs[x].key] = x \/ jobs[x].state = "FailedKnown"
  BY DEF AgentInv, IndexOk
<1>4. byKey[jobs[i].key] = i /\ byKey[jobs[j].key] = j
  BY <1>1, <1>2, <1>3 DEF AgentKeys
<1> QED BY <1>1, <1>4

LEMMA AnswersHoldEvidence == ASSUME AgentInv PROVE Agent!AnswersAreEvidence
BY DEF AgentInv, HandsOk, AnswerOk, Agent!AnswersAreEvidence

-----------------------------------------------------------------------------
(* The ePOS-Print client: what an answer on its way says of the paper, and *)
(* what the service can still print.                                       *)

EposCodes ==
  {"", "Printing", "JobSpooling", "JobNotFound", "EPTR_CUTTER", "EX_TIMEOUT",
   "EPTR_COVER_OPEN", "SchemaError", "EX_SPOOLER"}

EposReplies ==
  [parsed : BOOLEAN, code : EposCodes, success : BOOLEAN,
   status : SUBSET {"completed", "stopped", "cutter"}]

EposCalls ==
  [at : {"start", "submitting", "sleeping", "polling", "returned"}, spooler : BOOLEAN,
   jobId : {"valid", "invalid", "none"}, polls : Nat, acked : BOOLEAN, late : BOOLEAN,
   failedOn : {"nothing", "no answer", "answer", "budget"}]

EposExchanges ==
  [at : {"none", "connecting", "sent", "answered", "read", "failed"},
   body : {"", "document", "empty"}, reply : EposReplies]

EposTyped ==
  /\ call \in EposCalls /\ exchange \in EposExchanges
  /\ spooled \in {"unheard", "queued", "printing", "printed", "jammed", "refused", "buffered",
                  "forgotten"}
  /\ copies \in {0, 1}
  /\ "state" \in DOMAIN eposCallOutcome

(* The exchange is that of the call's own step, and a document is sent in  *)
(* one exchange only.                                                      *)
EposExchange ==
  /\ call.at \in {"start", "sleeping", "returned"} => exchange.at = "none"
  /\ call.at = "submitting" => exchange.body = "document" /\ exchange.at # "none"
  /\ call.at = "polling" => exchange.body = "empty" /\ exchange.at # "none"
  /\ exchange.at \in {"connecting", "sent", "failed"} => ~exchange.reply.parsed
  /\ call.at = "start" => copies = 0 /\ spooled = "unheard"
  /\ call.at = "submitting" /\ exchange.at \in {"connecting", "sent"}
       => copies = 0 /\ spooled = "unheard"
  /\ call.at \in {"sleeping", "polling"} => call.spooler

(* What the service holds, and what it has said of it.                     *)
EposService ==
  /\ spooled \in {"queued", "printing", "buffered"} => copies = 0
  /\ spooled \in {"printed", "jammed"} => copies = 1
  /\ spooled = "buffered" => ~call.spooler
  /\ call.at = "submitting" /\ exchange.reply.parsed
       => /\ exchange.reply.code \notin {"Printing", "JobSpooling", "JobNotFound"}
          /\ ~call.spooler /\ exchange.reply.code = "" => copies = 1
  /\ call.at = "polling" /\ exchange.reply.parsed /\ exchange.reply.code = ""
       /\ "completed" \in exchange.reply.status => copies = 1

EposOutcome ==
  /\ call.at # "returned" => eposCallOutcome.state \notin {"FailedKnown", "DoneSoftware"}
  /\ call.at \in {"start", "submitting"} => ~call.acked
  /\ eposCallOutcome.state = "DoneSoftware" => copies = 1
  /\ call.acked /\ eposCallOutcome.state = "FailedKnown" => call.failedOn = "answer"

EposInv == EposTyped /\ EposExchange /\ EposService /\ EposOutcome

(* Client::classify.                                                       *)
LEMMA VerdictFacts ==
  ASSUME NEW r \in EposReplies, NEW spooler \in BOOLEAN, NEW first \in BOOLEAN,
         NEW v, v = EposCall!Verdict(r, spooler, first)
  PROVE  /\ v.terminal \in BOOLEAN
         /\ ~v.terminal => v.state = "BytesSent"
         /\ v.state = "DoneSoftware" =>
              /\ v.terminal /\ r.parsed /\ r.code = ""
              /\ ~spooler \/ (~first /\ "completed" \in r.status)
         /\ v.state = "FailedKnown" => v.terminal /\ r.parsed
         /\ ~spooler /\ r.code \notin {"Printing", "JobSpooling"} => v.terminal
<1> DEFINE Done == EposCall!Ended("DoneSoftware", "None", "response")
           DoneById == EposCall!Ended("DoneSoftware", "None", "JobID")
<1>1. ASSUME NEW reason, v = EposCall!Failed(reason)
      PROVE  v.terminal = TRUE /\ v.state = "FailedKnown"
  BY <1>1 DEF EposCall!Failed, EposCall!Ended
<1>2. ASSUME NEW reason, v = EposCall!Fate(reason)
      PROVE  v.terminal = TRUE /\ v.state = "Unknown"
  BY <1>2 DEF EposCall!Fate, EposCall!Ended
<1>3. v = EposCall!NotYet => v.terminal = FALSE /\ v.state = "BytesSent"
  BY DEF EposCall!NotYet
<1>4. v = Done \/ v = DoneById => v.terminal = TRUE /\ v.state = "DoneSoftware"
  BY DEF EposCall!Ended
<1>5. r.parsed \in BOOLEAN /\ r.code \in EposCodes  BY DEF EposReplies
<1> HIDE DEF Done, DoneById
<1> USE DEF EposCall!NonTerminal
<1>6. CASE ~r.parsed \/ r.code = "JobNotFound"
  <2>1. v = EposCall!Fate("Unknown")  BY <1>6 DEF EposCall!Verdict
  <2> QED BY <1>2, <2>1
<1>7. CASE r.parsed /\ r.code \in {"Printing", "JobSpooling"}
  <2>1. v = EposCall!NotYet  BY <1>7 DEF EposCall!Verdict
  <2> QED BY <1>3, <1>7, <2>1
<1>8. CASE r.parsed /\ r.code \notin {"", "Printing", "JobSpooling", "JobNotFound"}
  <2>1. v = EposCall!Failed(EposCall!ReasonFor(r.code))  BY <1>8 DEF EposCall!Verdict
  <2> QED BY <1>1, <1>8, <2>1
<1>9. CASE r.parsed /\ r.code = "" /\ spooler /\ first
  <2>1. v = EposCall!NotYet  BY <1>9 DEF EposCall!Verdict
  <2> QED BY <1>3, <1>9, <2>1
<1>10. CASE r.parsed /\ r.code = "" /\ ~(spooler /\ first)
  <2>1. v = IF "cutter" \in r.status THEN EposCall!Failed("CutterFault")
            ELSE IF spooler THEN EposCall!OfStatus(r.status) ELSE Done
    BY <1>10 DEF EposCall!Verdict, Done
  <2>2. CASE "cutter" \in r.status
    <3>1. v = EposCall!Failed("CutterFault")  BY <2>1, <2>2
    <3> QED BY <1>1, <1>10, <3>1
  <2>3. CASE "cutter" \notin r.status /\ ~spooler
    <3>1. v = Done  BY <2>1, <2>3
    <3> QED BY <1>4, <1>10, <2>3, <3>1
  <2>4. CASE "cutter" \notin r.status /\ spooler
    <3>1. v = EposCall!OfStatus(r.status)  BY <2>1, <2>4
    <3>2. CASE "completed" \in r.status
      <4>1. v = DoneById  BY <3>1, <3>2 DEF EposCall!OfStatus, DoneById
      <4> QED BY <1>4, <1>10, <2>4, <3>2, <4>1
    <3>3. CASE "completed" \notin r.status
      <4>1. v = EposCall!Failed("PreflightHardwareError") \/ v = EposCall!NotYet
        BY <3>1, <3>3 DEF EposCall!OfStatus
      <4> QED BY <1>1, <1>3, <1>10, <2>4, <4>1
    <3> QED BY <3>2, <3>3
  <2> QED BY <2>2, <2>3, <2>4
<1> QED BY <1>5, <1>6, <1>7, <1>8, <1>9, <1>10 DEF EposCodes

LEMMA IdleExchange ==
  /\ EposCall!Idle.at = "none" /\ EposCall!Idle.body = "" /\ ~EposCall!Idle.reply.parsed
  /\ EposCall!Idle.reply \in EposReplies /\ EposCall!NoResponse \in EposReplies
  /\ EposCall!Idle \in [at : {"none"}, body : {""}, reply : EposReplies]
BY DEF EposCall!Idle, EposCall!NoResponse, EposReplies, EposCodes

LEMMA NewCall ==
  ASSUME NEW s \in BOOLEAN, NEW a \in BOOLEAN, NEW l \in BOOLEAN,
         NEW i \in {"valid", "invalid", "none"}
  PROVE  [at |-> "start", spooler |-> s, jobId |-> i, polls |-> 0, acked |-> a, late |-> l,
          failedOn |-> "nothing"] \in EposCalls
BY DEF EposCalls

LEMMA EposInit == ASSUME Spoolers \subseteq BOOLEAN, EposCall!Init PROVE EposInv
<1>1. /\ call \in [at : {"start"}, spooler : Spoolers, jobId : {"valid", "invalid", "none"},
                   polls : {0}, acked : {FALSE}, late : {FALSE}, failedOn : {"nothing"}]
      /\ exchange = EposCall!Idle /\ spooled = "unheard" /\ copies = 0
  BY DEF EposCall!Init
<1>2. "state" \in DOMAIN eposCallOutcome /\ eposCallOutcome.state = "Running"
  BY DEF EposCall!Init, EposCall!NotYet, EposCall!OutcomeOf
<1>3. EposTyped
  <2>1. call.spooler \in BOOLEAN  BY <1>1
  <2>2. call = [at |-> "start", spooler |-> call.spooler, jobId |-> call.jobId, polls |-> 0,
                acked |-> FALSE, late |-> FALSE, failedOn |-> "nothing"]
    BY <1>1
  <2>3. call.jobId \in {"valid", "invalid", "none"}  BY <1>1
  <2>4. call \in EposCalls  BY <2>1, <2>2, <2>3, NewCall, Zenon
  <2>5. exchange \in EposExchanges  BY <1>1, IdleExchange DEF EposExchanges
  <2> QED BY <1>1, <1>2, <2>4, <2>5 DEF EposTyped
<1>4. EposExchange /\ EposService  BY <1>1, IdleExchange DEF EposExchange, EposService
<1>5. EposOutcome  BY <1>1, <1>2 DEF EposOutcome
<1> QED BY <1>3, <1>4, <1>5 DEF EposInv

-----------------------------------------------------------------------------
(* The network and the service.                                            *)

(* The exchange moves, and nothing else does.                              *)
LEMMA ExchangeMoves ==
  ASSUME EposInv, UNCHANGED <<call, eposCallOutcome, copies, spooled>>,
         exchange' \in EposExchanges, exchange'.body = exchange.body,
         exchange.at # "none", exchange'.at # "none",
         exchange'.at # "connecting",
         exchange'.at = "sent" => exchange.at = "connecting",
         exchange'.reply = exchange.reply \/ ~exchange'.reply.parsed,
         exchange'.at \in {"sent", "failed"} => ~exchange'.reply.parsed
  PROVE  EposInv'
<1>1. EposTyped'  BY DEF EposInv, EposTyped
<1>2. EposExchange'  BY DEF EposInv, EposExchange
<1>3. EposService'  BY DEF EposInv, EposService
<1>4. EposOutcome'  BY DEF EposInv, EposOutcome
<1> QED BY <1>1, <1>2, <1>3, <1>4 DEF EposInv

LEMMA NetworkKeeps ==
  ASSUME EposInv,
         EposCall!Sends \/ EposCall!FailsToSend \/ EposCall!AnswerLost \/ EposCall!AnswerArrives
  PROVE  EposInv'
<1>1. /\ exchange \in EposExchanges
      /\ exchange.at \in {"connecting", "sent", "failed"} => ~exchange.reply.parsed
  BY DEF EposInv, EposTyped, EposExchange
<1>2. UNCHANGED <<call, eposCallOutcome, copies, spooled>>
  BY DEF EposCall!Sends, EposCall!FailsToSend, EposCall!AnswerLost, EposCall!AnswerArrives
<1>3. ASSUME NEW at \in {"sent", "failed", "read"}, exchange' = [exchange EXCEPT !.at = at]
      PROVE  /\ exchange' \in EposExchanges /\ exchange'.body = exchange.body
             /\ exchange'.at = at /\ exchange'.reply = exchange.reply
  BY <1>1, <1>3 DEF EposExchanges
<1>4. CASE EposCall!Sends
  <2>1. exchange' = [exchange EXCEPT !.at = "sent"] /\ exchange.at = "connecting"
    BY <1>4 DEF EposCall!Sends
  <2> QED BY <1>1, <1>2, <1>3, <2>1, ExchangeMoves
<1>5. CASE EposCall!FailsToSend
  <2>1. exchange' = [exchange EXCEPT !.at = "failed"] /\ exchange.at = "connecting"
    BY <1>5 DEF EposCall!FailsToSend
  <2> QED BY <1>1, <1>2, <1>3, <2>1, ExchangeMoves
<1>6. CASE EposCall!AnswerLost
  <2>1. exchange' = [exchange EXCEPT !.at = "failed", !.reply = EposCall!NoResponse]
        /\ exchange.at \in {"sent", "answered"}
    BY <1>6 DEF EposCall!AnswerLost
  <2>2. EposCall!NoResponse \in EposReplies /\ ~EposCall!NoResponse.parsed
    BY IdleExchange DEF EposCall!NoResponse
  <2>3. /\ exchange' \in EposExchanges /\ exchange'.body = exchange.body
        /\ exchange'.at = "failed" /\ exchange'.reply = EposCall!NoResponse
    BY <1>1, <2>1, <2>2 DEF EposExchanges
  <2> QED BY <1>2, <2>1, <2>2, <2>3, ExchangeMoves
<1>7. CASE EposCall!AnswerArrives
  <2>1. exchange' = [exchange EXCEPT !.at = "read"] /\ exchange.at = "answered"
    BY <1>7 DEF EposCall!AnswerArrives
  <2> QED BY <1>1, <1>2, <1>3, <2>1, ExchangeMoves
<1> QED BY <1>4, <1>5, <1>6, <1>7

(* The service answers, and has printed or spooled before it does.         *)
LEMMA ServiceAnswers ==
  ASSUME EposInv, UNCHANGED <<call, eposCallOutcome>>, exchange.at = "sent",
         NEW r \in EposReplies, EposCall!Answers(r), copies' \in {0, 1}, copies = 1 => copies' = 1,
         spooled' \in {"unheard", "queued", "printing", "printed", "jammed", "refused",
                       "buffered", "forgotten"},
         spooled' \in {"queued", "printing", "buffered"} => copies' = 0,
         spooled' \in {"printed", "jammed"} => copies' = 1,
         spooled' = "buffered" => ~call.spooler,
         exchange.body = "document" /\ r.parsed =>
           /\ r.code \notin {"Printing", "JobSpooling", "JobNotFound"}
           /\ ~call.spooler /\ r.code = "" => copies' = 1,
         exchange.body = "empty" /\ r.parsed /\ r.code = "" /\ "completed" \in r.status
           => copies' = 1
  PROVE  EposInv'
<1>1. /\ exchange'.at = "answered" /\ exchange'.body = exchange.body /\ exchange'.reply = r
      /\ exchange' \in EposExchanges
  BY DEF EposInv, EposTyped, EposExchanges, EposCall!Answers
<1>2. EposTyped'  BY <1>1 DEF EposInv, EposTyped
<1>3. call.at \notin {"start", "sleeping", "returned"}  BY DEF EposInv, EposExchange
<1>4. EposExchange'  BY <1>1, <1>3 DEF EposInv, EposExchange
<1>5. EposService'
  <2>1. call.at = "submitting" => exchange.body = "document"  BY DEF EposInv, EposExchange
  <2>2. call.at = "polling" => exchange.body = "empty"  BY DEF EposInv, EposExchange
  <2>3. ASSUME call.at = "submitting", r.parsed
        PROVE  /\ r.code \notin {"Printing", "JobSpooling", "JobNotFound"}
               /\ ~call.spooler /\ r.code = "" => copies' = 1
    BY <2>1, <2>3
  <2>4. call.at = "polling" /\ r.parsed /\ r.code = "" /\ "completed" \in r.status => copies' = 1
    BY <2>2
  <2> QED BY <1>1, <2>3, <2>4 DEF EposService
<1>6. EposOutcome'
  <2>1. copies = 1 => copies' = 1  OBVIOUS
  <2>2. call' = call /\ eposCallOutcome' = eposCallOutcome  OBVIOUS
  <2> QED BY ONLY EposInv, <2>1, <2>2 DEF EposInv, EposOutcome
<1> QED BY <1>2, <1>4, <1>5, <1>6 DEF EposInv

LEMMA ResponseTyped ==
  ASSUME NEW code \in EposCodes, NEW bits \in SUBSET {"completed", "stopped", "cutter"}
  PROVE  LET r == EposCall!Response(code, bits)
         IN r \in EposReplies /\ r.parsed /\ r.code = code /\ r.status = bits
BY DEF EposCall!Response, EposReplies

LEMMA ServiceKeeps ==
  ASSUME EposInv,
         \/ EposCall!ServiceDirect \/ EposCall!ServiceEnqueues \/ EposCall!ServiceRetrieves
         \/ EposCall!Stranger
  PROVE  EposInv'
<1> DEFINE Bits == SUBSET {"completed", "stopped", "cutter"}
<1>0. /\ \A code \in {"", "Printing", "JobSpooling", "JobNotFound", "EPTR_CUTTER", "EX_TIMEOUT",
                     "EPTR_COVER_OPEN", "SchemaError", "EX_SPOOLER"} : code \in EposCodes
      /\ \A bits \in {{}, {"completed"}, {"stopped"}, {"cutter"}} : bits \in Bits
      /\ "completed" \notin {} /\ "completed" \notin {"stopped"} /\ "completed" \notin {"cutter"}
  BY DEF EposCodes
<1> HIDE DEF Bits
<1>1. \A code \in EposCodes, bits \in Bits :
         LET r == EposCall!Response(code, bits)
         IN r \in EposReplies /\ r.parsed /\ r.code = code /\ r.status = bits
  BY ResponseTyped DEF Bits
<1>2. /\ exchange.at = "sent" /\ UNCHANGED <<call, eposCallOutcome>>
  BY DEF EposCall!ServiceDirect, EposCall!ServiceEnqueues, EposCall!ServiceRetrieves,
         EposCall!Stranger
<1>3. /\ copies \in {0, 1} /\ call.spooler \in BOOLEAN
      /\ spooled \in {"unheard", "queued", "printing", "printed", "jammed", "refused",
                      "buffered", "forgotten"}
      /\ spooled \in {"queued", "printing", "buffered"} => copies = 0
      /\ spooled \in {"printed", "jammed"} => copies = 1
      /\ spooled = "buffered" => ~call.spooler
  BY DEF EposInv, EposTyped, EposService, EposCalls
<1>4. exchange.body = "document" => copies = 0 /\ spooled = "unheard"
  BY <1>2 DEF EposInv, EposTyped, EposExchange, EposCalls
<1>5. CASE EposCall!ServiceDirect
  <2>0. exchange.body = "document" /\ ~call.spooler  BY <1>5 DEF EposCall!ServiceDirect
  <2>1. CASE /\ copies' = copies + 1 /\ UNCHANGED spooled
             /\ EposCall!Answers(EposCall!Response("", {"completed"}))
    <3> DEFINE r == EposCall!Response("", {"completed"})
    <3>0. "" \in EposCodes /\ {"completed"} \in Bits  BY <1>0
    <3>1. r \in EposReplies /\ r.parsed /\ r.code = ""  BY <1>1, <3>0
    <3>2. EposCall!Answers(r)  BY <2>1
    <3>3. copies = 0 /\ copies' = copies + 1  BY <1>4, <2>0, <2>1
    <3>4. spooled' = "unheard"  BY <1>4, <2>0, <2>1
    <3>5. copies' = 1  BY ONLY <3>3
    <3> HIDE DEF r
    <3> QED BY <1>2, <2>0, <3>1, <3>2, <3>4, <3>5, ServiceAnswers
  <2>2. CASE /\ copies' = copies + 1 /\ UNCHANGED spooled
             /\ EposCall!Answers(EposCall!Response("EPTR_CUTTER", {"cutter"}))
    <3> DEFINE r == EposCall!Response("EPTR_CUTTER", {"cutter"})
    <3>0. "EPTR_CUTTER" \in EposCodes /\ {"cutter"} \in Bits  BY <1>0
    <3>1. r \in EposReplies /\ r.code = "EPTR_CUTTER"  BY <1>1, <3>0
    <3>2. EposCall!Answers(r)  BY <2>2
    <3>3. copies = 0 /\ copies' = copies + 1  BY <1>4, <2>0, <2>2
    <3>4. spooled' = "unheard"  BY <1>4, <2>0, <2>2
    <3>5. copies' = 1  BY ONLY <3>3
    <3> HIDE DEF r
    <3> QED BY <1>2, <2>0, <3>1, <3>2, <3>4, <3>5, ServiceAnswers
  <2>3. CASE /\ spooled' = "buffered" /\ UNCHANGED copies
             /\ EposCall!Answers(EposCall!Response("EX_TIMEOUT", {}))
    <3> DEFINE r == EposCall!Response("EX_TIMEOUT", {})
    <3>0. "EX_TIMEOUT" \in EposCodes /\ {} \in Bits  BY <1>0
    <3>1. r \in EposReplies /\ r.code = "EX_TIMEOUT"  BY <1>1, <3>0
    <3>2. EposCall!Answers(r)  BY <2>3
    <3>3. copies' = 0 /\ copies = 0  BY <1>4, <2>0, <2>3
    <3> HIDE DEF r
    <3> QED BY <1>2, <2>0, <2>3, <3>1, <3>2, <3>3, ServiceAnswers
  <2>4. ASSUME NEW code \in {"EPTR_COVER_OPEN", "SchemaError"}, UNCHANGED <<copies, spooled>>,
               EposCall!Answers(EposCall!Response(code, {}))
        PROVE  EposInv'
    <3> DEFINE r == EposCall!Response(code, {})
    <3>0. code \in EposCodes /\ {} \in Bits  BY <1>0
    <3>1. r \in EposReplies /\ r.code = code  BY <1>1, <3>0
    <3>2. EposCall!Answers(r)  BY <2>4
    <3>3. copies' = copies /\ spooled' = spooled  BY <2>4
    <3> HIDE DEF r
    <3> QED BY <1>2, <1>3, <2>0, <3>1, <3>2, <3>3, ServiceAnswers
  <2> QED BY <1>5, <2>1, <2>2, <2>3, <2>4 DEF EposCall!ServiceDirect
<1>6. CASE EposCall!ServiceEnqueues
  <2>0. exchange.body = "document" /\ call.spooler /\ copies' = copies
    BY <1>6 DEF EposCall!ServiceEnqueues
  <2>1. ASSUME NEW bits \in {{}, {"completed"}, {"stopped"}}, spooled' = "queued",
               EposCall!Answers(EposCall!Response("", bits))
        PROVE  EposInv'
    <3> DEFINE r == EposCall!Response("", bits)
    <3>0. "" \in EposCodes /\ bits \in Bits  BY <1>0
    <3>1. r \in EposReplies /\ r.code = ""  BY <1>1, <3>0
    <3>2. EposCall!Answers(r)  BY <2>1
    <3>3. copies' = 0 /\ copies = 0  BY <1>4, <2>0
    <3> HIDE DEF r
    <3> QED BY <1>2, <2>0, <2>1, <3>1, <3>2, <3>3, ServiceAnswers
  <2>2. CASE UNCHANGED spooled /\ EposCall!Answers(EposCall!Response("EX_SPOOLER", {}))
    <3> DEFINE r == EposCall!Response("EX_SPOOLER", {})
    <3>0. "EX_SPOOLER" \in EposCodes /\ {} \in Bits  BY <1>0
    <3>1. r \in EposReplies /\ r.code = "EX_SPOOLER"  BY <1>1, <3>0
    <3>2. EposCall!Answers(r)  BY <2>2
    <3>3. copies' = 0 /\ copies = 0 /\ spooled' = "unheard"  BY <1>4, <2>0, <2>2
    <3> HIDE DEF r
    <3> QED BY <1>2, <2>0, <3>1, <3>2, <3>3, ServiceAnswers
  <2> QED BY <1>6, <2>1, <2>2 DEF EposCall!ServiceEnqueues
<1>7. CASE EposCall!ServiceRetrieves
  <2>0. exchange.body = "empty" /\ copies' = copies /\ spooled' = spooled
    BY <1>7 DEF EposCall!ServiceRetrieves
  <2>1. PICK code \in EposCodes, bits \in Bits :
           /\ EposCall!Answers(EposCall!Response(code, bits))
           /\ code = "" /\ "completed" \in bits => spooled = "printed"
    <3>1. CASE ~EposCall!Known
      <4>1. EposCall!Answers(EposCall!Response("JobNotFound", {}))
        BY <1>7, <3>1 DEF EposCall!ServiceRetrieves, EposCall!Known
      <4> QED BY <1>0, <4>1
    <3>2. CASE spooled = "queued" /\ running
      <4>1. EposCall!Answers(EposCall!Response("JobSpooling", {}))
        BY <1>7, <3>2 DEF EposCall!ServiceRetrieves, EposCall!Known
      <4> QED BY <1>0, <4>1
    <3>3. CASE spooled = "queued" /\ ~running
      <4>1. EposCall!Answers(EposCall!Response("", {"stopped"}))
        BY <1>7, <3>3 DEF EposCall!ServiceRetrieves, EposCall!Known
      <4> QED BY <1>0, <4>1
    <3>4. CASE spooled = "printing"
      <4>1. EposCall!Answers(EposCall!Response("Printing", {}))
        BY <1>7, <3>4 DEF EposCall!ServiceRetrieves, EposCall!Known
      <4> QED BY <1>0, <4>1
    <3>5. CASE spooled = "printed"
      <4>1. EposCall!Answers(EposCall!Response("", {"completed"}))
        BY <1>7, <3>5 DEF EposCall!ServiceRetrieves, EposCall!Known
      <4> QED BY <1>0, <3>5, <4>1
    <3>6. CASE spooled = "jammed"
      <4>1. EposCall!Answers(EposCall!Response("", {"cutter"}))
        BY <1>7, <3>6 DEF EposCall!ServiceRetrieves, EposCall!Known
      <4> QED BY <1>0, <4>1
    <3>7. CASE spooled = "refused"
      <4>1. EposCall!Answers(EposCall!Response("EPTR_COVER_OPEN", {}))
        BY <1>7, <3>7 DEF EposCall!ServiceRetrieves, EposCall!Known
      <4> QED BY <1>0, <4>1
    <3>8. spooled # "buffered"
      BY <1>2, <1>3, <2>0 DEF EposInv, EposExchange, EposTyped, EposCalls
    <3> QED BY <1>3, <3>1, <3>2, <3>3, <3>4, <3>5, <3>6, <3>7, <3>8 DEF EposCall!Known
  <2> DEFINE r == EposCall!Response(code, bits)
  <2>2. r \in EposReplies /\ r.code = code /\ r.status = bits  BY <1>1
  <2>3. EposCall!Answers(r)  BY <2>1
  <2>4. r.code = "" /\ "completed" \in r.status => copies' = 1  BY <1>3, <2>0, <2>1, <2>2
  <2> HIDE DEF r
  <2> QED BY <1>2, <1>3, <2>0, <2>2, <2>3, <2>4, ServiceAnswers
<1>8. CASE EposCall!Stranger
  <2>1. EposCall!Answers(EposCall!NoResponse) /\ copies' = copies /\ spooled' = spooled
    BY <1>8 DEF EposCall!Stranger
  <2>2. EposCall!NoResponse \in EposReplies /\ ~EposCall!NoResponse.parsed
    BY IdleExchange DEF EposCall!NoResponse
  <2> QED BY <1>2, <1>3, <2>1, <2>2, ServiceAnswers
<1> QED BY <1>5, <1>6, <1>7, <1>8

LEMMA SpoolerKeeps ==
  ASSUME EposInv,
         EposCall!SpoolerPrints \/ EposCall!SpoolerForgets \/ EposCall!OperatorToggles
  PROVE  EposInv'
<1>1. UNCHANGED <<call, exchange, eposCallOutcome>>
  BY DEF EposCall!SpoolerPrints, EposCall!SpoolerForgets, EposCall!OperatorToggles
<1>2. /\ copies \in {0, 1}
      /\ spooled \in {"queued", "printing", "buffered"} => copies = 0
      /\ spooled \in {"printed", "jammed"} => copies = 1
  BY DEF EposInv, EposTyped, EposService
<1>3. \/ spooled' = spooled /\ copies' = copies
      \/ /\ spooled \in {"queued", "printed", "jammed", "refused"} /\ copies' = copies
         /\ spooled' \in {"printing", "refused", "forgotten"}
         /\ spooled' = "printing" => copies = 0
      \/ /\ spooled \in {"printing", "buffered"} /\ copies' = copies + 1
         /\ spooled' \in {"printed", "jammed", "forgotten"}
  BY <1>2 DEF EposCall!SpoolerPrints, EposCall!SpoolerForgets, EposCall!OperatorToggles
<1>4. /\ copies' \in {0, 1}
      /\ copies = 1 => copies' = 1
      /\ spooled' = "printing" => copies' = 0
      /\ spooled' \in {"printed", "jammed"} => copies' = 1
  BY <1>2, <1>3
<1>5. \/ spooled' = spooled /\ copies' = copies
      \/ spooled # "unheard" /\ spooled' \in {"printing", "refused", "forgotten", "printed", "jammed"}
  BY <1>3
<1>6. EposTyped'  BY <1>1, <1>4, <1>5 DEF EposInv, EposTyped
<1>7. EposExchange'  BY <1>1, <1>5 DEF EposInv, EposExchange
<1>8. EposService'
  <2>1. spooled' \in {"queued", "printing", "buffered"} => copies' = 0
    <3>1. CASE spooled' = spooled /\ copies' = copies  BY <1>2, <3>1
    <3>2. CASE spooled' \in {"printing", "refused", "forgotten", "printed", "jammed"}
      BY <1>4, <3>2
    <3> QED BY <1>5, <3>1, <3>2
  <2>2. spooled' = "buffered" => ~call.spooler  BY <1>5 DEF EposInv, EposService
  <2> QED BY <1>1, <1>4, <2>1, <2>2 DEF EposInv, EposService
<1>9. EposOutcome'  BY <1>1, <1>4 DEF EposInv, EposOutcome
<1> QED BY <1>6, <1>7, <1>8, <1>9 DEF EposInv

-----------------------------------------------------------------------------
(* The call.                                                               *)

(* What is left to show of a step of the call: the types of what it        *)
(* assigned, the exchange that goes with its new place, and its outcome.   *)
LEMMA CallMoves ==
  ASSUME EposInv, UNCHANGED <<spooled, copies>>, call' \in EposCalls,
         call'.spooler = call.spooler, call'.at # "start",
         call'.at \in {"sleeping", "polling"} => call.spooler,
         call'.at = "submitting" => call.at = "start",
         \/ exchange' = EposCall!Idle /\ call'.at \in {"sleeping", "returned"}
         \/ /\ exchange' \in EposExchanges /\ ~exchange'.reply.parsed
            /\ exchange'.at = "connecting"
            /\ \/ call'.at = "submitting" /\ exchange'.body = "document"
               \/ call'.at = "polling" /\ exchange'.body = "empty",
         "state" \in DOMAIN eposCallOutcome',
         call'.at # "returned" => eposCallOutcome'.state \notin {"FailedKnown", "DoneSoftware"},
         call'.at = "submitting" => ~call'.acked,
         eposCallOutcome'.state = "DoneSoftware" => copies = 1,
         call'.acked /\ eposCallOutcome'.state = "FailedKnown" => call'.failedOn = "answer"
  PROVE  EposInv'
<1>1. exchange' \in EposExchanges /\ ~exchange'.reply.parsed
      /\ (exchange' = EposCall!Idle => exchange'.at = "none")
  BY IdleExchange DEF EposExchanges
<1>2. EposTyped'  BY <1>1 DEF EposInv, EposTyped
<1>3. EposExchange'  BY <1>1 DEF EposInv, EposExchange
<1>4. EposService'  BY <1>1 DEF EposInv, EposService
<1>5. EposOutcome'  BY DEF EposInv, EposOutcome
<1> QED BY <1>2, <1>3, <1>4, <1>5 DEF EposInv

LEMMA OpenDoes ==
  ASSUME NEW body \in {"document", "empty"}, EposCall!Open(body)
  PROVE  /\ exchange' \in EposExchanges /\ ~exchange'.reply.parsed
         /\ exchange'.at = "connecting" /\ exchange'.body = body
BY IdleExchange DEF EposCall!Open, EposExchanges, EposCall!Idle

LEMMA ReturnDoes ==
  ASSUME EposInv, NEW v, NEW on \in {"nothing", "no answer", "answer", "budget"},
         EposCall!Return(v, on)
  PROVE  /\ call' \in EposCalls /\ call'.at = "returned" /\ call'.spooler = call.spooler
         /\ call'.acked = call.acked /\ call'.failedOn = on
         /\ "state" \in DOMAIN eposCallOutcome' /\ eposCallOutcome'.state = v.state
<1>1. call \in EposCalls /\ "state" \in DOMAIN eposCallOutcome  BY DEF EposInv, EposTyped
<1>2. call' = [call EXCEPT !.at = "returned", !.failedOn = on]  BY DEF EposCall!Return
<1>3. call' \in EposCalls /\ call'.at = "returned" /\ call'.spooler = call.spooler
      /\ call'.acked = call.acked /\ call'.failedOn = on
  BY <1>1, <1>2 DEF EposCalls
<1>4. DOMAIN eposCallOutcome' = DOMAIN eposCallOutcome  BY DEF EposCall!Return
<1>5. eposCallOutcome'.state = v.state  BY <1>1 DEF EposCall!Return
<1> QED BY <1>1, <1>3, <1>4, <1>5

LEMMA MergeDoes ==
  ASSUME NEW v, EposCall!Merge(v)
  PROVE  "state" \in DOMAIN eposCallOutcome' /\ eposCallOutcome'.state = v.state
BY DEF EposCall!Merge, EposCall!OutcomeOf

LEMMA SubmitKeeps == ASSUME EposInv, EposCall!Submit PROVE EposInv'
<1>1. /\ call.at = "start" /\ exchange.at = "none" /\ ~call.acked /\ call \in EposCalls
      /\ eposCallOutcome.state \notin {"FailedKnown", "DoneSoftware"}
      /\ "state" \in DOMAIN eposCallOutcome /\ UNCHANGED <<spooled, copies>>
  BY DEF EposCall!Submit, EposInv, EposTyped, EposExchange, EposOutcome
<1>2. CASE /\ EposCall!Return(EposCall!Ended("FailedKnown", "TransportUnreachable", "transport"),
                              "nothing")
           /\ UNCHANGED exchange
  <2> DEFINE v == EposCall!Ended("FailedKnown", "TransportUnreachable", "transport")
  <2>1. v.state = "FailedKnown"  BY DEF EposCall!Ended
  <2> HIDE DEF v
  <2>2. EposCall!Return(v, "nothing") /\ exchange' = exchange  BY <1>2 DEF v
  <2>3. /\ call' \in EposCalls /\ call'.at = "returned" /\ call'.acked = call.acked
        /\ "state" \in DOMAIN eposCallOutcome' /\ eposCallOutcome'.state = "FailedKnown"
        /\ call'.spooler = call.spooler
    BY <2>1, <2>2, ReturnDoes
  <2>4. EposTyped'  BY <1>1, <2>2, <2>3 DEF EposInv, EposTyped
  <2>5. EposExchange' /\ EposService'
    BY <1>1, <2>2, <2>3 DEF EposInv, EposExchange, EposService
  <2>6. EposOutcome'  BY <1>1, <2>3 DEF EposOutcome
  <2> QED BY <2>4, <2>5, <2>6 DEF EposInv
<1>3. CASE /\ EposCall!Open(EposCall!PrintRequest) /\ UNCHANGED eposCallOutcome
           /\ call' = [call EXCEPT !.at = "submitting"]
  <2>1. /\ call' \in EposCalls /\ call'.at = "submitting" /\ call'.acked = call.acked
        /\ call'.spooler = call.spooler
    BY <1>1, <1>3 DEF EposCalls
  <2>2. /\ exchange' \in EposExchanges /\ ~exchange'.reply.parsed
        /\ exchange'.at = "connecting" /\ exchange'.body = "document"
    BY <1>3, OpenDoes DEF EposCall!PrintRequest
  <2>3. eposCallOutcome' = eposCallOutcome  BY <1>3
  <2> QED BY <1>1, <2>1, <2>2, <2>3, CallMoves
<1> QED BY <1>2, <1>3 DEF EposCall!Submit

LEMMA SubmittedKeeps == ASSUME EposInv, EposCall!Submitted PROVE EposInv'
<1> DEFINE r == exchange.reply
           v == EposCall!Verdict(r, call.spooler, TRUE)
<1>1. /\ call.at = "submitting" /\ call \in EposCalls /\ r \in EposReplies /\ ~call.acked
      /\ exchange' = EposCall!Idle /\ UNCHANGED <<spooled, copies>>
      /\ r.parsed => /\ r.code \notin {"Printing", "JobSpooling", "JobNotFound"}
                     /\ ~call.spooler /\ r.code = "" => copies = 1
  BY DEF EposCall!Submitted, EposInv, EposTyped, EposExchanges, EposOutcome, EposService
<1>2. r.parsed \in BOOLEAN /\ call.spooler \in BOOLEAN
  BY <1>1 DEF EposReplies, EposCalls
<1>3. /\ v.terminal \in BOOLEAN
      /\ ~v.terminal => v.state = "BytesSent"
      /\ v.state = "DoneSoftware" =>
           /\ v.terminal /\ r.parsed /\ r.code = ""
           /\ ~call.spooler \/ (~TRUE /\ "completed" \in r.status)
      /\ ~call.spooler /\ r.code \notin {"Printing", "JobSpooling"} => v.terminal
  <2> HIDE DEF r
  <2> QED BY <1>1, <1>2, VerdictFacts
<1>4. CASE ~r.parsed
  <2> DEFINE w == EposCall!Ended("FailedKnown", "TransportUnreachable", "transport")
  <2>1. EposCall!Return(w, "no answer")  BY <1>4 DEF EposCall!Submitted
  <2>2. w.state = "FailedKnown"  BY DEF EposCall!Ended
  <2> HIDE DEF w
  <2>3. /\ call' \in EposCalls /\ call'.at = "returned" /\ call'.acked = call.acked
        /\ call'.spooler = call.spooler
        /\ "state" \in DOMAIN eposCallOutcome' /\ eposCallOutcome'.state = "FailedKnown"
    BY <2>1, <2>2, ReturnDoes
  <2> QED BY <1>1, <2>3, CallMoves
<1>5. CASE r.parsed /\ v.terminal
  <2>1. EposCall!Merge(v) /\ call' = [call EXCEPT !.at = "returned", !.failedOn = "answer"]
    BY <1>5 DEF EposCall!Submitted
  <2>2. "state" \in DOMAIN eposCallOutcome' /\ eposCallOutcome'.state = v.state
    BY <2>1, MergeDoes
  <2>3. /\ call' \in EposCalls /\ call'.at = "returned" /\ call'.acked = call.acked
        /\ call'.spooler = call.spooler /\ call'.failedOn = "answer"
    BY <1>1, <2>1 DEF EposCalls
  <2>4. v.state = "DoneSoftware" => copies = 1  BY <1>1, <1>3
  <2> HIDE DEF v
  <2> QED BY <1>1, <2>2, <2>3, <2>4, CallMoves
<1>6. CASE r.parsed /\ ~v.terminal /\ call.jobId = "none"
  <2>1. /\ eposCallOutcome' = EposCall!OutcomeOf(EposCall!Fate("Unknown"), TRUE,
                                                  EposCall!DeviceEvents(r.status))
        /\ call' = [call EXCEPT !.at = "returned", !.acked = TRUE]
    BY <1>6 DEF EposCall!Submitted
  <2>2. "state" \in DOMAIN eposCallOutcome' /\ eposCallOutcome'.state = "Unknown"
    BY <2>1 DEF EposCall!OutcomeOf, EposCall!Fate, EposCall!Ended
  <2>3. /\ call' \in EposCalls /\ call'.at = "returned" /\ call'.spooler = call.spooler
    BY <1>1, <2>1 DEF EposCalls
  <2> QED BY <1>1, <2>2, <2>3, CallMoves
<1>7. CASE r.parsed /\ ~v.terminal /\ call.jobId # "none"
  <2>1. EposCall!Merge(v) /\ call' = [call EXCEPT !.at = "sleeping", !.acked = TRUE]
    BY <1>7 DEF EposCall!Submitted
  <2>2. "state" \in DOMAIN eposCallOutcome' /\ eposCallOutcome'.state = "BytesSent"
    BY <1>3, <1>7, <2>1, MergeDoes
  <2>3. /\ call' \in EposCalls /\ call'.at = "sleeping" /\ call'.spooler = call.spooler
    BY <1>1, <2>1 DEF EposCalls
  <2>4. call.spooler  BY <1>1, <1>2, <1>3, <1>7
  <2> QED BY <1>1, <2>2, <2>3, <2>4, CallMoves
<1> QED BY <1>2, <1>3, <1>4, <1>5, <1>6, <1>7

LEMMA PollKeeps == ASSUME EposInv, EposCall!Poll PROVE EposInv'
<1>1. /\ call.at = "sleeping" /\ call \in EposCalls /\ call.spooler
      /\ UNCHANGED <<eposCallOutcome, spooled, copies>>
      /\ eposCallOutcome.state \notin {"FailedKnown", "DoneSoftware"}
      /\ "state" \in DOMAIN eposCallOutcome
  BY DEF EposCall!Poll, EposInv, EposTyped, EposExchange, EposOutcome
<1>2. PICK n \in Nat : call' = [call EXCEPT !.at = "polling", !.polls = n]
  <2>1. call' = [call EXCEPT !.at = "polling",
                             !.polls = IF call.polls < MaxRetrievals THEN call.polls + 1
                                       ELSE call.polls]
    BY DEF EposCall!Poll
  <2>2. call.polls \in Nat  BY <1>1 DEF EposCalls
  <2>3. (IF call.polls < MaxRetrievals THEN call.polls + 1 ELSE call.polls) \in Nat
    BY <2>2
  <2> QED BY <2>1, <2>3, Zenon
<1>3. call' \in EposCalls /\ call'.at = "polling" /\ call'.spooler = call.spooler
  BY <1>1, <1>2 DEF EposCalls
<1>4. /\ exchange' \in EposExchanges /\ ~exchange'.reply.parsed
      /\ exchange'.at = "connecting" /\ exchange'.body = "empty"
  BY OpenDoes DEF EposCall!Poll, EposCall!PollRequest
<1> QED BY <1>1, <1>3, <1>4, CallMoves

LEMMA PolledKeeps == ASSUME EposInv, EposCall!Polled PROVE EposInv'
<1> DEFINE r == exchange.reply
           v == EposCall!Retrieved(r)
           at == IF v.terminal THEN "returned" ELSE "sleeping"
           on == IF r.parsed THEN "answer" ELSE "no answer"
<1>1. /\ call.at = "polling" /\ call \in EposCalls /\ r \in EposReplies /\ call.spooler
      /\ exchange' = EposCall!Idle /\ UNCHANGED <<spooled, copies>>
      /\ r.parsed /\ r.code = "" /\ "completed" \in r.status => copies = 1
      /\ EposCall!Merge(v) /\ call' = [call EXCEPT !.at = at, !.failedOn = on]
  BY DEF EposCall!Polled, EposInv, EposTyped, EposExchanges, EposExchange, EposService
<1>2. r.parsed \in BOOLEAN /\ call.spooler \in BOOLEAN
  BY <1>1 DEF EposReplies, EposCalls
<1>3. /\ v.terminal \in BOOLEAN
      /\ ~v.terminal => v.state = "BytesSent"
      /\ v.state = "DoneSoftware" => copies = 1
      /\ v.state = "FailedKnown" => r.parsed
  <2>1. CASE r.parsed
    <3>1. v = EposCall!Verdict(r, call.spooler, FALSE)  BY <2>1 DEF EposCall!Retrieved
    <3> HIDE DEF r, v
    <3>2. /\ v.terminal \in BOOLEAN
          /\ ~v.terminal => v.state = "BytesSent"
          /\ v.state = "DoneSoftware" =>
               /\ r.parsed /\ r.code = ""
               /\ ~call.spooler \/ "completed" \in r.status
      BY <1>1, <1>2, <3>1, VerdictFacts
    <3> QED BY <1>1, <2>1, <3>2
  <2>2. CASE ~r.parsed
    <3>1. v = EposCall!NotYet  BY <2>2 DEF EposCall!Retrieved
    <3> HIDE DEF r, v
    <3>2. v.terminal = FALSE /\ v.state = "BytesSent"  BY <3>1 DEF EposCall!NotYet
    <3> QED BY <3>2
  <2> QED BY <1>2, <2>1, <2>2
<1>4. "state" \in DOMAIN eposCallOutcome' /\ eposCallOutcome'.state = v.state
  BY <1>1, MergeDoes
<1>5. at \in {"returned", "sleeping"} /\ (at # "returned" => ~v.terminal)  OBVIOUS
<1>6. on \in {"answer", "no answer"} /\ (r.parsed => on = "answer")  OBVIOUS
<1> HIDE DEF at, on, r, v
<1>7. call' \in EposCalls /\ call'.at = at /\ call'.spooler = call.spooler /\ call'.failedOn = on
  BY <1>1, <1>5, <1>6 DEF EposCalls
<1> QED BY <1>1, <1>3, <1>4, <1>5, <1>6, <1>7, CallMoves

LEMMA GivesUpKeeps == ASSUME EposInv, EposCall!GivesUp PROVE EposInv'
<1> DEFINE v == EposCall!Fate("TimeoutAwaitingCompletion")
<1>1. call.at = "sleeping" /\ exchange.at = "none" /\ EposCall!Return(v, "budget")
      /\ UNCHANGED <<exchange, spooled, copies>>
  BY DEF EposCall!GivesUp, EposInv, EposExchange
<1>2. v.state = "Unknown"  BY DEF EposCall!Fate, EposCall!Ended
<1> HIDE DEF v
<1>3. /\ call' \in EposCalls /\ call'.at = "returned" /\ call'.spooler = call.spooler
      /\ "state" \in DOMAIN eposCallOutcome' /\ eposCallOutcome'.state = "Unknown"
  BY <1>1, <1>2, ReturnDoes
<1>4. EposTyped'  BY <1>1, <1>3 DEF EposInv, EposTyped
<1>5. EposExchange' /\ EposService'
  BY <1>1, <1>3 DEF EposInv, EposExchange, EposService
<1>6. EposOutcome'  BY <1>3 DEF EposOutcome
<1> QED BY <1>4, <1>5, <1>6 DEF EposInv

LEMMA DeadlinePassesKeeps == ASSUME EposInv, EposCall!DeadlinePasses PROVE EposInv'
<1>1. call \in EposCalls /\ call' = [call EXCEPT !.late = TRUE]
      /\ UNCHANGED <<exchange, eposCallOutcome, spooled, copies>>
  BY DEF EposCall!DeadlinePasses, EposInv, EposTyped
<1>2. /\ call' \in EposCalls /\ call'.at = call.at /\ call'.spooler = call.spooler
      /\ call'.acked = call.acked /\ call'.failedOn = call.failedOn
  BY <1>1 DEF EposCalls
<1>3. EposTyped'  BY <1>1, <1>2 DEF EposInv, EposTyped
<1>4. EposExchange' /\ EposService'
  BY <1>1, <1>2 DEF EposInv, EposExchange, EposService
<1>5. EposOutcome'  BY <1>1, <1>2 DEF EposInv, EposOutcome
<1> QED BY <1>3, <1>4, <1>5 DEF EposInv

LEMMA EposStep ==
  ASSUME EposInv, [EposCall!Next]_(EposCall!vars)
  PROVE  EposInv'
<1>1. CASE UNCHANGED EposCall!vars
  BY <1>1 DEF EposCall!vars, EposInv, EposTyped, EposExchange, EposService, EposOutcome
<1>2. CASE EposCall!ClientSteps
  BY <1>2, SubmitKeeps, SubmittedKeeps, PollKeeps, PolledKeeps, GivesUpKeeps
  DEF EposCall!ClientSteps
<1> QED BY <1>1, <1>2, DeadlinePassesKeeps, NetworkKeeps, ServiceKeeps, SpoolerKeeps
        DEF EposCall!Next

LEMMA EposPromises ==
  ASSUME EposInv
  PROVE  EposCall!DoneMeansPrinted /\ EposCall!OneCopy /\ EposCall!SilenceIsNoVerdict
BY DEF EposInv, EposTyped, EposOutcome, EposCall!DoneMeansPrinted, EposCall!OneCopy,
       EposCall!SilenceIsNoVerdict

-----------------------------------------------------------------------------
(* The Star job path: what is on the wires, and what each place of the     *)
(* worker says of it.                                                      *)

StarCommands ==
  [kind : {"clear", "payload", "cut", "etb"}, of : Star!Jobs]
  \cup [kind : {"etx"}, of : Star!Jobs, n : Nat]

StarFrames == [kind : {"asb"}, n : 0..(Modulus - 1)] \cup [kind : {"etx"}, n : Nat]

StarPlaces ==
  {"idle", "preamble", "baseline", "payload", "fence", "send_print", "await_print", "cut",
   "send_cut", "await_cut"}

StarFences == [outstanding : BOOLEAN, etb : BOOLEAN, signalled : BOOLEAN, expect : Nat]

StarWorker ==
  /\ method \in Methods /\ job \in 0..MaxJobs /\ cuts \in BOOLEAN /\ pc \in StarPlaces
  /\ starOutcome \in [Star!Jobs -> Star!Outcomes]
  /\ pc # "idle" => job \in Star!Jobs

StarIo ==
  /\ counter \in -1..(Modulus - 1) /\ sequence \in Nat /\ fence \in StarFences
  /\ fence.etb => fence.expect \in 0..(Modulus - 1)

StarWires ==
  /\ link \in BOOLEAN /\ tx \in Seq(StarCommands) /\ rx \in Seq(StarFrames)
  /\ etbCount \in 0..(Modulus - 1)
  /\ paper \in [printed : SUBSET Star!Jobs, cut : SUBSET Star!Jobs]
  /\ ghost \in [owed : BOOLEAN, foreign : Nat, drops : Nat]

StarTyped == StarWorker /\ StarIo /\ StarWires

StarBounds == MaxJobs \in Nat /\ Modulus \in Nat /\ Modulus > 1

(* The printer's counter wraps.                                            *)
LEMMA StarCounts ==
  ASSUME StarBounds, NEW n \in Nat
  PROVE  (n + 1) % Modulus \in 0..(Modulus - 1)
<1>1. Modulus \in Nat /\ Modulus > 0  BY DEF StarBounds
<1> QED BY <1>1

LEMMA StarTypes == ASSUME StarTyped PROVE Star!TypeOK
BY DEF StarTyped, StarWorker, StarIo, StarWires, StarPlaces, Star!TypeOK

LEMMA StarTypedInit == ASSUME StarBounds, Star!Init PROVE StarTyped
<1>1. StarWorker
  <2>1. starOutcome = [j \in Star!Jobs |-> "none"]  BY DEF Star!Init
  <2>2. job = 0 /\ pc = "idle" /\ cuts = FALSE /\ method \in Methods  BY DEF Star!Init
  <2>3. starOutcome \in [Star!Jobs -> Star!Outcomes]  BY <2>1 DEF Star!Outcomes
  <2>4. job \in 0..MaxJobs  BY <2>2 DEF StarBounds
  <2>5. cuts \in BOOLEAN  BY <2>2
  <2> QED BY <2>2, <2>3, <2>4, <2>5 DEF StarWorker, StarPlaces
<1>2. StarIo
  <2>1. counter = -1 /\ sequence = 0 /\ fence = Star!Idle  BY DEF Star!Init
  <2>2. fence \in StarFences /\ fence.etb = FALSE  BY <2>1 DEF Star!Idle, StarFences
  <2>3. counter \in -1..(Modulus - 1)  BY <2>1 DEF StarBounds
  <2> QED BY <2>1, <2>2, <2>3 DEF StarIo
<1>3. StarWires
  <2>1. /\ link = TRUE /\ tx = <<>> /\ rx = <<>> /\ etbCount \in {0, Modulus - 1}
        /\ paper = [printed |-> {}, cut |-> {}]
        /\ ghost = [owed |-> FALSE, foreign |-> 0, drops |-> 0]
    BY DEF Star!Init
  <2>2. etbCount \in 0..(Modulus - 1)  BY <2>1 DEF StarBounds
  <2>3. link \in BOOLEAN /\ ghost \in [owed : BOOLEAN, foreign : Nat, drops : Nat]
    BY <2>1
  <2>4. tx \in Seq(StarCommands) /\ rx \in Seq(StarFrames)  BY <2>1
  <2> QED BY <2>1, <2>2, <2>3, <2>4 DEF StarWires
<1> QED BY <1>1, <1>2, <1>3 DEF StarTyped

(* A verdict is about the job under way.                                   *)
LEMMA StarEnds ==
  ASSUME StarTyped, NEW s \in Star!Outcomes, Star!Ends(s)
  PROVE  /\ starOutcome' \in [Star!Jobs -> Star!Outcomes] /\ pc' = "idle"
         /\ job \in Star!Jobs => starOutcome'[job] = s
         /\ \A j \in Star!Jobs : j # job => starOutcome'[j] = starOutcome[j]
BY DEF Star!Ends, StarTyped, StarWorker

LEMMA StarDisarms ==
  ASSUME StarTyped, fence' = Star!Disarmed
  PROVE  /\ fence' \in StarFences /\ fence'.etb = fence.etb /\ fence'.expect = fence.expect
         /\ fence'.outstanding = FALSE /\ fence'.signalled = FALSE
BY DEF Star!Disarmed, StarTyped, StarIo, StarFences

LEMMA StarArms ==
  ASSUME StarTyped, StarBounds, Star!ArmStarFence
  PROVE  /\ fence' \in StarFences /\ sequence' \in Nat
         /\ fence'.outstanding = TRUE /\ fence'.signalled = FALSE
         /\ method = "StarEtb" =>
              /\ fence'.etb = TRUE /\ fence'.expect \in 0..(Modulus - 1)
              /\ fence'.expect = ((IF counter = -1 THEN 0 ELSE counter) + 1) % Modulus
         /\ method # "StarEtb" =>
              fence'.etb = FALSE /\ sequence' = sequence + 1 /\ fence'.expect = sequence'
<1> DEFINE c == IF counter = -1 THEN 0 ELSE counter
<1>1. c \in Nat /\ sequence \in Nat  BY DEF StarTyped, StarIo, StarBounds
<1>2. CASE method = "StarEtb"
  <2>1. (c + 1) % Modulus \in 0..(Modulus - 1)  BY <1>1, StarCounts
  <2>2. /\ sequence' = sequence
        /\ fence' = [outstanding |-> TRUE, etb |-> TRUE, signalled |-> FALSE,
                     expect |-> (c + 1) % Modulus]
    BY <1>2 DEF Star!ArmStarFence, Star!NextEtbCounter
  <2> HIDE DEF c
  <2>3. (c + 1) % Modulus \in Nat  BY <2>1
  <2>4. fence' \in StarFences  BY <2>2, <2>3 DEF StarFences
  <2>5. fence'.expect = (c + 1) % Modulus  BY <2>2
  <2> QED BY <1>1, <1>2, <2>1, <2>2, <2>4, <2>5 DEF c
<1>3. CASE method # "StarEtb"
  <2>1. /\ sequence' = sequence + 1
        /\ fence' = [outstanding |-> TRUE, etb |-> FALSE, signalled |-> FALSE,
                     expect |-> sequence + 1]
    BY <1>3 DEF Star!ArmStarFence
  <2>2. fence' \in StarFences  BY <1>1, <2>1 DEF StarFences
  <2> QED BY <1>1, <1>3, <2>1, <2>2
<1> QED BY <1>2, <1>3

(* The commands a job writes.                                              *)
LEMMA StarWrites ==
  ASSUME StarTyped, NEW c \in StarCommands, tx' = Append(tx, c)
  PROVE  /\ tx' \in Seq(StarCommands) /\ Len(tx) \in Nat /\ Len(tx') = Len(tx) + 1
         /\ \A i \in 1..Len(tx) : tx'[i] = tx[i]
         /\ tx'[Len(tx) + 1] = c
BY AppendProperties, LenProperties DEF StarTyped, StarWires

LEMMA StarJobCommands ==
  ASSUME job \in Star!Jobs
  PROVE  /\ Star!Receipt \in StarCommands
         /\ \A k \in {"clear", "cut", "etb"} : [kind |-> k, of |-> job] \in StarCommands
BY DEF StarCommands, Star!Receipt

LEMMA StarFenceBytes ==
  ASSUME StarTyped, job \in Star!Jobs
  PROVE  /\ Star!FenceBytes \in StarCommands /\ Star!FenceBytes.of = job
         /\ fence.etb => Star!FenceBytes = [kind |-> "etb", of |-> job]
         /\ ~fence.etb => /\ Star!FenceBytes = [kind |-> "etx", of |-> job, n |-> fence.expect]
                          /\ Star!FenceBytes.kind = "etx" /\ Star!FenceBytes.n = fence.expect
<1>1. fence.etb \in BOOLEAN /\ fence.expect \in Nat  BY DEF StarTyped, StarIo, StarFences
<1>2. CASE fence.etb
  <2>1. Star!FenceBytes = [kind |-> "etb", of |-> job]  BY <1>2 DEF Star!FenceBytes
  <2> QED BY <1>2, <2>1 DEF StarCommands
<1>3. CASE ~fence.etb
  <2>1. Star!FenceBytes = [kind |-> "etx", of |-> job, n |-> fence.expect]
    BY <1>3 DEF Star!FenceBytes
  <2> QED BY <1>1, <1>3, <2>1 DEF StarCommands
<1> QED BY <1>2, <1>3

LEMMA AppendsAny ==
  ASSUME NEW S, NEW s \in Seq(S), NEW e, NEW t, t = Append(s, e)
  PROVE  /\ Len(s) \in Nat /\ Len(t) = Len(s) + 1
         /\ \A i \in 1..Len(s) : t[i] = s[i]
         /\ t[Len(s) + 1] = e
<1>1. s \in Seq(S \cup {e}) /\ e \in S \cup {e}  BY SeqMonotonic
<1> QED BY <1>1, AppendProperties, LenProperties

(* Concatenation with one element.                                         *)
LEMMA OneMore ==
  ASSUME NEW S, NEW s \in Seq(S), NEW e \in S, NEW t, t = s \o <<e>>
  PROVE  /\ t \in Seq(S) /\ Len(t) = Len(s) + 1
         /\ \A i \in 1..Len(s) : t[i] = s[i]
         /\ t[Len(s) + 1] = e
<1>1. t = Append(s, e)  BY AppendIsConcat
<1>2. QED BY ONLY <1>1, s \in Seq(S), e \in S, AppendProperties

LEMMA OneOrTwoMore ==
  ASSUME NEW S, NEW s \in Seq(S), NEW b \in Seq(S), Len(b) \in {0, 1}, NEW e \in S,
         NEW t, t = s \o b \o <<e>>
  PROVE  /\ t \in Seq(S) /\ Len(s) \in Nat /\ Len(t) = Len(s) + Len(b) + 1
         /\ \A i \in 1..Len(s) : t[i] = s[i]
         /\ Len(b) = 1 => t[Len(s) + 1] = b[1]
         /\ t[Len(t)] = e
<1>0. PICK u : u = s \o b  OBVIOUS
<1>1. /\ u \in Seq(S) /\ Len(u) = Len(s) + Len(b)
      /\ \A i \in 1..(Len(s) + Len(b)) : u[i] = IF i <= Len(s) THEN s[i] ELSE b[i - Len(s)]
  BY <1>0, ConcatProperties
<1>2. Len(s) \in Nat  BY LenProperties
<1>3. /\ t \in Seq(S) /\ Len(t) = Len(u) + 1
      /\ \A i \in 1..Len(u) : t[i] = u[i]
      /\ t[Len(u) + 1] = e
  BY <1>0, <1>1, OneMore
<1>4. \A i \in 1..Len(s) : t[i] = s[i]  BY ONLY Len(b) \in {0, 1}, <1>1, <1>2, <1>3
<1>5. ASSUME Len(b) = 1 PROVE t[Len(s) + 1] = b[1]
  <2>1. (Len(s) + 1) - Len(s) = 1  BY <1>2
  <2>2. u[Len(s) + 1] = b[(Len(s) + 1) - Len(s)]  BY ONLY <1>1, <1>2, <1>5
  <2>3. t[Len(s) + 1] = u[Len(s) + 1]  BY ONLY <1>1, <1>2, <1>3, <1>5
  <2> QED BY <2>1, <2>2, <2>3
<1> QED BY ONLY Len(b) \in {0, 1}, <1>1, <1>2, <1>3, <1>4, <1>5

(* A fence is one command, or two with the cut before it.                  *)
LEMMA StarFenceWrites ==
  ASSUME StarTyped, NEW before \in Seq(StarCommands), Len(before) \in {0, 1},
         job \in Star!Jobs, tx' = tx \o before \o <<Star!FenceBytes>>
  PROVE  /\ tx' \in Seq(StarCommands) /\ Len(tx) \in Nat /\ Len(tx') = Len(tx) + Len(before) + 1
         /\ \A i \in 1..Len(tx) : tx'[i] = tx[i]
         /\ Len(before) = 1 => tx'[Len(tx) + 1] = before[1]
         /\ tx'[Len(tx')] = Star!FenceBytes
<1>1. Star!FenceBytes \in StarCommands  BY StarFenceBytes
<1>2. tx \in Seq(StarCommands)  BY DEF StarTyped, StarWires
<1> QED BY <1>1, <1>2, OneOrTwoMore

(* The printer works off the first of its commands.                        *)
LEMMA StarWorksOff ==
  ASSUME StarTyped, Star!PrinterActs
  PROVE  /\ Len(tx) \in Nat \ {0} /\ tx[1] \in StarCommands
         /\ tx' \in Seq(StarCommands) /\ Len(tx') = Len(tx) - 1
         /\ \A i \in 1..Len(tx') : tx'[i] = tx[i + 1]
         /\ etbCount' = CASE tx[1].kind = "clear" -> 0
                          [] tx[1].kind = "etb" -> (etbCount + 1) % Modulus
                          [] OTHER -> etbCount
         /\ paper' = CASE tx[1].kind = "payload" -> [paper EXCEPT !.printed = @ \cup {tx[1].of}]
                       [] tx[1].kind = "cut" -> [paper EXCEPT !.cut = @ \cup {tx[1].of}]
                       [] OTHER -> paper
         /\ rx' = CASE link /\ tx[1].kind = "etb" -> Append(rx, Star!Status)
                    [] link /\ tx[1].kind = "etx" -> Append(rx, [kind |-> "etx", n |-> tx[1].n])
                    [] OTHER -> rx
         /\ UNCHANGED <<method, pc, job, cuts, starOutcome, counter, fence, sequence, link, ghost>>
<1>1. tx \in Seq(StarCommands) /\ tx # <<>> /\ tx' = Tail(tx)
  BY DEF StarTyped, StarWires, Star!PrinterActs
<1>2. Len(tx) \in Nat \ {0}  BY <1>1, EmptySeq
<1>3. Head(tx) = tx[1] /\ tx[1] \in StarCommands  BY <1>1, <1>2, ElementOfSeq
<1>4. tx' \in Seq(StarCommands) /\ Len(tx') = Len(tx) - 1 /\ \A i \in 1..Len(tx') : tx'[i] = tx[i + 1]
  BY <1>1, HeadTailProperties
<1>5. UNCHANGED <<method, pc, job, cuts, starOutcome, counter, fence, sequence, link, ghost>>
  BY DEF Star!PrinterActs, Star!worker, Star!io
<1>6. etbCount' = CASE tx[1].kind = "clear" -> 0
                    [] tx[1].kind = "etb" -> (etbCount + 1) % Modulus
                    [] OTHER -> etbCount
  BY <1>3, Zenon DEF Star!PrinterActs, Star!Counted
<1>7. paper' = CASE tx[1].kind = "payload" -> [paper EXCEPT !.printed = @ \cup {tx[1].of}]
                 [] tx[1].kind = "cut" -> [paper EXCEPT !.cut = @ \cup {tx[1].of}]
                 [] OTHER -> paper
  BY <1>3, Zenon DEF Star!PrinterActs
<1>8. rx' = CASE link /\ tx[1].kind = "etb" -> Append(rx, Star!Status)
              [] link /\ tx[1].kind = "etx" -> Append(rx, [kind |-> "etx", n |-> tx[1].n])
              [] OTHER -> rx
  BY <1>3, Zenon DEF Star!PrinterActs
<1> QED BY <1>2, <1>3, <1>4, <1>5, <1>6, <1>7, <1>8

(* A new frame goes behind the others.                                     *)
LEMMA StarAnswers ==
  ASSUME StarTyped, NEW f \in StarFrames, rx' = Append(rx, f)
  PROVE  /\ rx' \in Seq(StarFrames) /\ Len(rx) \in Nat /\ Len(rx') = Len(rx) + 1
         /\ \A i \in 1..Len(rx) : rx'[i] = rx[i]
         /\ rx'[Len(rx) + 1] = f
BY AppendProperties, LenProperties DEF StarTyped, StarWires

(* The reader takes the first frame.                                       *)
LEMMA StarReads ==
  ASSUME StarTyped, Star!OnBytes
  PROVE  /\ Len(rx) \in Nat \ {0} /\ rx[1] \in StarFrames
         /\ rx' \in Seq(StarFrames) /\ Len(rx') = Len(rx) - 1
         /\ \A i \in 1..Len(rx') : rx'[i] = rx[i + 1]
         /\ fence' \in StarFences /\ fence'.outstanding = fence.outstanding
         /\ fence'.etb = fence.etb /\ fence'.expect = fence.expect
         /\ fence.signalled => fence'.signalled
         /\ fence'.signalled /\ ~fence.signalled
              => /\ fence.outstanding /\ rx[1].n = fence.expect
                 /\ fence.etb <=> rx[1].kind = "asb"
         /\ fence.outstanding /\ rx[1].n = fence.expect /\ fence.etb /\ rx[1].kind = "asb"
              /\ rx[1].n # counter => fence'.signalled
         /\ counter' = IF rx[1].kind = "asb" THEN rx[1].n ELSE counter
         /\ UNCHANGED <<method, pc, job, cuts, starOutcome, sequence, link, tx, etbCount,
                        paper, ghost>>
<1>1. rx \in Seq(StarFrames) /\ rx # <<>> /\ rx' = Tail(rx)
  BY DEF StarTyped, StarWires, Star!OnBytes
<1>2. Len(rx) \in Nat \ {0}  BY <1>1, EmptySeq
<1>3. Head(rx) = rx[1] /\ rx[1] \in StarFrames  BY <1>1, <1>2, ElementOfSeq
<1>4. rx' \in Seq(StarFrames) /\ Len(rx') = Len(rx) - 1 /\ \A i \in 1..Len(rx') : rx'[i] = rx[i + 1]
  BY <1>1, HeadTailProperties
<1>5. UNCHANGED <<method, pc, job, cuts, starOutcome, sequence, link, tx, etbCount, paper, ghost>>
  BY DEF Star!OnBytes, Star!worker
<1> DEFINE ours == /\ fence.outstanding /\ rx[1].n = fence.expect
                   /\ fence.etb <=> rx[1].kind = "asb"
<1>6. \/ rx[1].kind = "asb" /\ rx[1].n = counter /\ counter' = counter /\ fence' = fence
      \/ /\ ~(rx[1].kind = "asb" /\ rx[1].n = counter)
         /\ counter' = IF rx[1].kind = "asb" THEN rx[1].n ELSE counter
         /\ fence' = [fence EXCEPT !.signalled = @ \/ ours]
  BY <1>3 DEF Star!OnBytes
<1>7. fence \in StarFences  BY DEF StarTyped, StarIo
<1>8. /\ fence' \in StarFences /\ fence'.outstanding = fence.outstanding
      /\ fence'.etb = fence.etb /\ fence'.expect = fence.expect
      /\ fence'.signalled <=>
           fence.signalled \/ (~(rx[1].kind = "asb" /\ rx[1].n = counter) /\ ours)
  <2>1. CASE fence' = fence /\ rx[1].kind = "asb" /\ rx[1].n = counter  BY <1>7, <2>1
  <2>2. CASE ~(rx[1].kind = "asb" /\ rx[1].n = counter)
    <3>1. fence' = [fence EXCEPT !.signalled = fence.signalled \/ ours]  BY <1>6, <2>2
    <3>2. fence.signalled \in BOOLEAN /\ ours \in BOOLEAN  BY <1>7 DEF StarFences
    <3>3. (fence.signalled \/ ours) \in BOOLEAN  BY <3>2
    <3> HIDE DEF ours
    <3>4. fence' \in StarFences  BY <1>7, <3>1, <3>3 DEF StarFences
    <3>5. fence'.signalled = (fence.signalled \/ ours)  BY <1>7, <3>1 DEF StarFences
    <3>6. /\ fence'.outstanding = fence.outstanding
          /\ fence'.etb = fence.etb /\ fence'.expect = fence.expect
      BY <1>7, <3>1 DEF StarFences
    <3> QED BY <2>2, <3>4, <3>5, <3>6
  <2> QED BY <1>6, <2>1, <2>2
<1>9. counter' = IF rx[1].kind = "asb" THEN rx[1].n ELSE counter  BY <1>6
<1> QED BY <1>2, <1>3, <1>4, <1>5, <1>8, <1>9

(* A dropped link costs the end of what was written.                       *)
LEMMA StarCutOff ==
  ASSUME StarTyped, Star!LinkDrops
  PROVE  /\ tx' \in Seq(StarCommands) /\ Len(tx) \in Nat /\ Len(tx') \in 0..Len(tx)
         /\ \A i \in 1..Len(tx') : tx'[i] = tx[i]
<1>1. tx \in Seq(StarCommands) /\ Len(tx) \in Nat  BY LenProperties DEF StarTyped, StarWires
<1>2. PICK n \in 0..Len(tx) : tx' = SubSeq(tx, 1, n)  BY DEF Star!LinkDrops
<1>3. \A i \in 1..n : tx[i] \in StarCommands  BY <1>1, <1>2, ElementOfSeq
<1>4. n \in Nat  BY <1>1
<1>5. /\ SubSeq(tx, 1, n) \in Seq(StarCommands)
      /\ Len(SubSeq(tx, 1, n)) = IF 1 <= n THEN n - 1 + 1 ELSE 0
      /\ \A i \in 1..(n - 1 + 1) : SubSeq(tx, 1, n)[i] = tx[1 + i - 1]
  BY <1>3, <1>4, SubSeqProperties
<1>6. Len(tx') = n  BY <1>2, <1>4, <1>5
<1>7. \A i \in 1..n : tx'[i] = tx[i]
  <2>1. TAKE i \in 1..n
  <2>2. n - 1 + 1 = n /\ 1 + i - 1 = i  BY <1>4
  <2>3. \A k \in 1..n : SubSeq(tx, 1, n)[k] = tx[1 + k - 1]  BY <1>5, <2>2
  <2> QED BY <1>2, <2>2, <2>3
<1> QED BY <1>1, <1>2, <1>5, <1>6, <1>7

(* Types, action by action.                                                *)
LEMMA StarSendsOne ==
  ASSUME StarTyped, NEW c \in StarCommands, tx' = Append(tx, c),
         UNCHANGED <<link, etbCount, rx, paper, ghost>>
  PROVE  StarWires'
BY StarWrites DEF StarTyped, StarWires

LEMMA StarVerdicts ==
  ASSUME StarTyped, NEW s \in Star!Outcomes, Star!Ends(s), UNCHANGED <<method, job, cuts>>
  PROVE  StarWorker'
BY StarEnds DEF StarTyped, StarWorker, StarPlaces

LEMMA StarOutcomes ==
  \A s \in {"none", "FailedKnown", "Unknown", "PrintConfirmed", "CutProcessed", "DoneSoftware"} :
     s \in Star!Outcomes
BY DEF Star!Outcomes

LEMMA StarOwes ==
  ASSUME StarTyped, Star!Owes
  PROVE  /\ ghost' \in [owed : BOOLEAN, foreign : Nat, drops : Nat]
         /\ ghost'.foreign = ghost.foreign /\ ghost'.drops = ghost.drops
         /\ ghost.owed => ghost'.owed
         /\ ~ghost'.owed => /\ \A i \in 1..Len(tx) : tx[i].kind \notin {"etb", "etx"}
                            /\ rx = <<>>
<1> DEFINE o == \/ ghost.owed \/ \E i \in 1..Len(tx) : tx[i].kind \in {"etb", "etx"}
                \/ rx # <<>>
<1>1. ghost \in [owed : BOOLEAN, foreign : Nat, drops : Nat]  BY DEF StarTyped, StarWires
<1>2. ghost' = [ghost EXCEPT !.owed = o]  BY DEF Star!Owes
<1>3. o \in BOOLEAN  BY <1>1
<1>4. /\ ghost.owed => o
      /\ ~o => /\ \A i \in 1..Len(tx) : tx[i].kind \notin {"etb", "etx"}
               /\ rx = <<>>
  OBVIOUS
<1> HIDE DEF o
<1>5. ghost'.owed = o  BY <1>1, <1>2
<1> QED BY <1>1, <1>2, <1>3, <1>4, <1>5

LEMMA StarWorkerTyped ==
  ASSUME StarBounds, StarTyped, Star!Worker
  PROVE  StarTyped'
<1>0. StarWorker /\ StarIo /\ StarWires  BY DEF StarTyped
<1>1. CASE Star!RunStarJob
  <2>1. /\ job < MaxJobs /\ job' = job + 1 /\ cuts' \in BOOLEAN /\ method' = method
        /\ UNCHANGED <<counter, sequence, tx, etbCount, rx, paper, ghost>>
    BY <1>1 DEF Star!RunStarJob, Star!printer
  <2>2. job' \in Star!Jobs /\ job' \in 0..MaxJobs
    BY <1>0, <2>1 DEF Star!Jobs, StarWorker, StarBounds
  <2>3. \/ /\ link' = TRUE /\ pc' \in {"preamble", "payload"} /\ fence' = Star!Disarmed
           /\ UNCHANGED starOutcome
        \/ /\ UNCHANGED <<link, fence, pc>>
           /\ starOutcome' = [starOutcome EXCEPT ![job + 1] = "FailedKnown"]
    BY <1>1 DEF Star!RunStarJob
  <2>4. starOutcome' \in [Star!Jobs -> Star!Outcomes]
    BY <1>0, <2>3, StarOutcomes DEF StarWorker
  <2>5. StarWorker'
    BY <1>0, <2>1, <2>2, <2>3, <2>4 DEF StarWorker, StarPlaces
  <2>6. StarIo'
    BY <1>0, <2>1, <2>3, StarDisarms DEF StarIo
  <2>7. link' \in BOOLEAN  BY <1>0, <2>3 DEF StarWires
  <2>8. StarWires'  BY <1>0, <2>1, <2>7 DEF StarWires
  <2> QED BY <2>5, <2>6, <2>8 DEF StarTyped
<1>2. CASE Star!SendPreamble
  <2>1. /\ job \in Star!Jobs /\ UNCHANGED <<method, job, cuts, counter, fence, sequence>>
        /\ UNCHANGED <<link, etbCount, rx, paper, ghost>>
    BY <1>0, <1>2 DEF Star!SendPreamble, Star!io, StarWorker
  <2>2. CASE link
    <3>1. /\ tx' = Append(tx, [kind |-> "clear", of |-> job]) /\ pc' = "baseline"
          /\ starOutcome' = starOutcome
      BY <1>2, <2>2 DEF Star!SendPreamble
    <3>2. StarWires'  BY <2>1, <3>1, StarJobCommands, StarSendsOne
    <3>3. StarWorker' /\ StarIo'
      BY <1>0, <2>1, <3>1 DEF StarWorker, StarPlaces, StarIo
    <3> QED BY <3>2, <3>3 DEF StarTyped
  <2>3. CASE ~link
    <3>1. Star!Ends("FailedKnown") /\ tx' = tx  BY <1>2, <2>3 DEF Star!SendPreamble
    <3>2. StarWorker'  BY <2>1, <3>1, StarOutcomes, StarVerdicts
    <3>3. StarWires' /\ StarIo'  BY <1>0, <2>1, <3>1 DEF StarWires, StarIo
    <3> QED BY <3>2, <3>3 DEF StarTyped
  <2> QED BY <2>2, <2>3
<1>3. CASE Star!SetBaseline
  <2>1. /\ counter' = 0 /\ pc' = "payload" /\ pc = "baseline"
        /\ UNCHANGED <<method, job, cuts, starOutcome, fence, sequence>>
        /\ UNCHANGED <<link, tx, etbCount, rx, paper, ghost>>
    BY <1>3 DEF Star!SetBaseline, Star!printer
  <2>2. StarWorker'  BY <1>0, <2>1 DEF StarWorker, StarPlaces
  <2>3. counter' \in -1..(Modulus - 1)  BY <2>1 DEF StarBounds
  <2>4. StarIo' /\ StarWires'  BY <1>0, <2>1, <2>3 DEF StarIo, StarWires
  <2> QED BY <2>2, <2>4 DEF StarTyped
<1>4. CASE Star!SendPayload
  <2>1. /\ job \in Star!Jobs /\ UNCHANGED <<method, job, cuts, counter, fence, sequence>>
        /\ UNCHANGED <<link, etbCount, rx, paper, ghost>>
    BY <1>0, <1>4 DEF Star!SendPayload, Star!io, StarWorker
  <2>2. StarIo'  BY <1>0, <2>1 DEF StarIo
  <2>3. CASE tx' = Append(tx, Star!Receipt) /\ pc' = "fence" /\ UNCHANGED starOutcome
    <3>1. StarWires'  BY <2>1, <2>3, StarJobCommands, StarSendsOne
    <3>2. StarWorker'  BY <1>0, <2>1, <2>3 DEF StarWorker, StarPlaces
    <3> QED BY <2>2, <3>1, <3>2 DEF StarTyped
  <2>4. CASE (Star!Ends("FailedKnown") \/ Star!Ends("Unknown")) /\ UNCHANGED tx
    <3>1. StarWorker'  BY <2>1, <2>4, StarOutcomes, StarVerdicts
    <3>2. StarWires'  BY <1>0, <2>1, <2>4 DEF StarWires
    <3> QED BY <2>2, <3>1, <3>2 DEF StarTyped
  <2> QED BY <1>4, <2>3, <2>4 DEF Star!SendPayload
<1>5. CASE Star!NoFence
  <2>1. /\ job \in Star!Jobs /\ UNCHANGED <<method, job, cuts, counter, fence, sequence>>
        /\ UNCHANGED <<link, etbCount, rx, paper, ghost>> /\ Star!Ends("DoneSoftware")
        /\ tx' = Append(tx, [kind |-> "cut", of |-> job]) \/ tx' = tx
    BY <1>0, <1>5 DEF Star!NoFence, Star!io, StarWorker
  <2>2. StarWorker'  BY <2>1, StarOutcomes, StarVerdicts
  <2>3. StarWires'
    <3>1. CASE tx' = tx  BY <1>0, <2>1, <3>1 DEF StarWires
    <3>2. CASE tx' = Append(tx, [kind |-> "cut", of |-> job])
      BY <2>1, <3>2, StarJobCommands, StarSendsOne
    <3> QED BY <2>1, <3>1, <3>2
  <2> QED BY <1>0, <2>1, <2>2, <2>3 DEF StarTyped, StarIo
<1>6. ASSUME NEW here \in StarPlaces \ {"idle"}, NEW next \in StarPlaces, Star!Arm(here, next)
      PROVE  StarTyped'
  <2>1. /\ job \in Star!Jobs /\ pc' = next /\ Star!ArmStarFence
        /\ UNCHANGED <<method, job, cuts, starOutcome, counter>>
        /\ UNCHANGED <<link, tx, etbCount, rx, paper, ghost>>
    BY <1>0, <1>6 DEF Star!Arm, Star!printer, StarWorker
  <2>2. StarWorker' /\ StarWires'  BY <1>0, <2>1 DEF StarWorker, StarWires
  <2>3. StarIo'  BY <1>0, <2>1, StarArms DEF StarIo
  <2> QED BY <2>2, <2>3 DEF StarTyped
<1>7. ASSUME NEW here \in StarPlaces \ {"idle"}, NEW next \in StarPlaces,
             NEW before \in Seq(StarCommands), Len(before) \in {0, 1},
             Star!SendFence(here, next, before)
      PROVE  StarTyped'
  <2>1. /\ job \in Star!Jobs /\ UNCHANGED <<method, job, cuts, counter, fence, sequence>>
        /\ UNCHANGED <<link, etbCount, rx, paper>>
    BY <1>0, <1>7 DEF Star!SendFence, Star!io, StarWorker
  <2>2. StarIo'  BY <1>0, <2>1 DEF StarIo
  <2>3. CASE link
    <3>1. /\ tx' = tx \o before \o <<Star!FenceBytes>> /\ pc' = next
          /\ UNCHANGED <<starOutcome, ghost>>
      BY <1>7, <2>3 DEF Star!SendFence
    <3>2. tx' \in Seq(StarCommands)  BY <1>7, <2>1, <3>1, StarFenceWrites
    <3>3. StarWires'  BY <1>0, <2>1, <3>1, <3>2 DEF StarWires
    <3>4. StarWorker'  BY <1>0, <2>1, <3>1 DEF StarWorker
    <3> QED BY <2>2, <3>3, <3>4 DEF StarTyped
  <2>4. CASE ~link
    <3>1. Star!Ends("Unknown") /\ Star!Owes /\ tx' = tx  BY <1>7, <2>4 DEF Star!SendFence
    <3>2. StarWorker'  BY <2>1, <3>1, StarOutcomes, StarVerdicts
    <3>3. StarWires'  BY <1>0, <2>1, <3>1, StarOwes DEF StarWires
    <3> QED BY <2>2, <3>2, <3>3 DEF StarTyped
  <2> QED BY <2>3, <2>4
<1>8. CASE Star!PrintConfirmed
  <2>1. /\ starOutcome' = [starOutcome EXCEPT ![job] = "PrintConfirmed"]
        /\ pc' \in {"cut", "idle"} /\ fence' = Star!Disarmed /\ pc = "await_print"
        /\ UNCHANGED <<method, job, cuts, counter, sequence>>
        /\ UNCHANGED <<link, tx, etbCount, rx, paper, ghost>>
    BY <1>8 DEF Star!PrintConfirmed, Star!printer
  <2>2. starOutcome' \in [Star!Jobs -> Star!Outcomes]
    BY <1>0, <2>1, StarOutcomes DEF StarWorker
  <2>3. StarWorker'  BY <1>0, <2>1, <2>2 DEF StarWorker, StarPlaces
  <2>4. StarIo' /\ StarWires'  BY <1>0, <2>1, StarDisarms DEF StarIo, StarWires
  <2> QED BY <2>3, <2>4 DEF StarTyped
<1>9. CASE Star!CutProcessed
  <2>1. /\ fence' = Star!Disarmed /\ Star!Ends("CutProcessed")
        /\ UNCHANGED <<method, job, cuts, counter, sequence>>
        /\ UNCHANGED <<link, tx, etbCount, rx, paper, ghost>>
    BY <1>9 DEF Star!CutProcessed, Star!printer
  <2>2. StarWorker'  BY <2>1, StarOutcomes, StarVerdicts
  <2>3. StarIo' /\ StarWires'  BY <1>0, <2>1, StarDisarms DEF StarIo, StarWires
  <2> QED BY <2>2, <2>3 DEF StarTyped
<1>10. CASE Star!FenceTimesOut
  <2>1. /\ fence' = Star!Disarmed /\ Star!Ends("Unknown") /\ Star!Owes
        /\ UNCHANGED <<method, job, cuts, counter, sequence>>
        /\ UNCHANGED <<link, tx, etbCount, rx, paper>>
    BY <1>10 DEF Star!FenceTimesOut, Star!printer
  <2>2. StarWorker'  BY <2>1, StarOutcomes, StarVerdicts
  <2>3. StarIo'  BY <1>0, <2>1, StarDisarms DEF StarIo
  <2>4. StarWires'  BY <1>0, <2>1, StarOwes DEF StarWires
  <2> QED BY <2>2, <2>3, <2>4 DEF StarTyped
<1>11. CASE Star!Arm("fence", "send_print") \/ Star!Arm("cut", "send_cut")
  BY <1>6, <1>11 DEF StarPlaces
<1>12. CASE Star!SendFence("send_print", "await_print", <<>>)
  <2>1. <<>> \in Seq(StarCommands) /\ Len(<<>>) \in {0, 1}  BY EmptySeq
  <2>2. "send_print" \in StarPlaces \ {"idle"} /\ "await_print" \in StarPlaces
    BY DEF StarPlaces
  <2> QED BY <1>7, <1>12, <2>1, <2>2
<1>13. CASE Star!SendFence("send_cut", "await_cut", <<[kind |-> "cut", of |-> job]>>)
  <2>1. job \in Star!Jobs  BY <1>0, <1>13 DEF Star!SendFence, StarWorker
  <2>2. [kind |-> "cut", of |-> job] \in StarCommands  BY <2>1, StarJobCommands
  <2>3. <<[kind |-> "cut", of |-> job]>> \in Seq(StarCommands)
        /\ Len(<<[kind |-> "cut", of |-> job]>>) \in {0, 1}
    BY <2>2
  <2>4. "send_cut" \in StarPlaces \ {"idle"} /\ "await_cut" \in StarPlaces
    BY DEF StarPlaces
  <2> QED BY <1>7, <1>13, <2>3, <2>4
<1> QED BY <1>1, <1>2, <1>3, <1>4, <1>5, <1>8, <1>9, <1>10, <1>11, <1>12, <1>13
        DEF Star!Worker

LEMMA StarWiresTyped ==
  ASSUME StarBounds, StarTyped,
         Star!OnBytes \/ Star!PrinterActs \/ Star!ForeignEtb \/ Star!LinkDrops
  PROVE  StarTyped'
<1>0. StarWorker /\ StarIo /\ StarWires  BY DEF StarTyped
<1>1. CASE Star!OnBytes
  <2>1. counter' \in -1..(Modulus - 1)
    BY <1>0, <1>1, StarReads DEF StarFrames, StarIo, StarBounds
  <2>2. StarWorker'  BY <1>0, <1>1, StarReads DEF StarWorker
  <2>3. StarIo'  BY <1>0, <1>1, <2>1, StarReads DEF StarIo
  <2>4. StarWires'  BY <1>0, <1>1, StarReads DEF StarWires
  <2> QED BY <2>2, <2>3, <2>4 DEF StarTyped
<1>2. CASE Star!PrinterActs
  <2>1. StarWorker' /\ StarIo'  BY <1>0, <1>2, StarWorksOff DEF StarWorker, StarIo
  <2>2. etbCount' \in 0..(Modulus - 1)
    BY <1>0, <1>2, StarWorksOff, StarCounts DEF StarWires, StarBounds
  <2>3. paper' \in [printed : SUBSET Star!Jobs, cut : SUBSET Star!Jobs]
    BY <1>0, <1>2, StarWorksOff DEF StarWires, StarCommands
  <2>4. rx' \in Seq(StarFrames)
    <3>1. Star!Status \in StarFrames  BY <2>2 DEF Star!Status, StarFrames
    <3>2. CASE link /\ tx[1].kind = "etx"
      <4>1. [kind |-> "etx", n |-> tx[1].n] \in StarFrames
        BY <1>2, <3>2, StarWorksOff DEF StarCommands, StarFrames
      <4>2. rx' = Append(rx, [kind |-> "etx", n |-> tx[1].n])  BY <1>2, <3>2, StarWorksOff
      <4> QED BY <4>1, <4>2, StarAnswers
    <3>3. CASE link /\ tx[1].kind = "etb"
      <4>1. rx' = Append(rx, Star!Status)  BY <1>2, <3>3, StarWorksOff
      <4> QED BY <3>1, <4>1, StarAnswers
    <3>4. CASE ~link \/ tx[1].kind \notin {"etb", "etx"}
      BY <1>0, <1>2, <3>4, StarWorksOff DEF StarWires
    <3> QED BY <3>2, <3>3, <3>4
  <2>5. StarWires'  BY <1>0, <1>2, <2>2, <2>3, <2>4, StarWorksOff DEF StarWires
  <2> QED BY <2>1, <2>5 DEF StarTyped
<1>3. CASE Star!ForeignEtb
  <2>1. /\ ghost' = [ghost EXCEPT !.foreign = ghost.foreign + 1]
        /\ etbCount' = (etbCount + 1) % Modulus /\ rx' = Append(rx, Star!Status)
        /\ UNCHANGED <<method, pc, job, cuts, starOutcome, counter, fence, sequence>>
        /\ UNCHANGED <<link, tx, paper>>
    BY <1>3 DEF Star!ForeignEtb, Star!worker, Star!io
  <2>2. etbCount' \in 0..(Modulus - 1)  BY <1>0, <2>1, StarCounts DEF StarWires, StarBounds
  <2>3. Star!Status \in StarFrames  BY <2>2 DEF Star!Status, StarFrames
  <2>4. rx' \in Seq(StarFrames)  BY <2>1, <2>3, StarAnswers
  <2>5. ghost' \in [owed : BOOLEAN, foreign : Nat, drops : Nat]
    <3>1. ghost \in [owed : BOOLEAN, foreign : Nat, drops : Nat]  BY <1>0 DEF StarWires
    <3>2. ghost.foreign + 1 \in Nat  BY <3>1
    <3> QED BY ONLY <2>1, <3>1, <3>2
  <2>6. StarWires'  BY <1>0, <2>1, <2>2, <2>4, <2>5 DEF StarWires
  <2>7. StarWorker' /\ StarIo'  BY <1>0, <2>1 DEF StarWorker, StarIo
  <2> QED BY <2>6, <2>7 DEF StarTyped
<1>4. CASE Star!LinkDrops
  <2>1. /\ link' = FALSE /\ rx' = <<>> /\ ghost' = [ghost EXCEPT !.drops = ghost.drops + 1]
        /\ UNCHANGED <<method, pc, job, cuts, starOutcome, counter, fence, sequence>>
        /\ UNCHANGED <<etbCount, paper>>
    BY <1>4 DEF Star!LinkDrops, Star!worker, Star!io
  <2>2. tx' \in Seq(StarCommands)  BY <1>4, StarCutOff
  <2>3. rx' \in Seq(StarFrames) /\ link' \in BOOLEAN
    <3>1. rx' \in Seq(StarFrames)  BY <2>1, EmptySeq
    <3>2. link' \in BOOLEAN  BY <2>1
    <3> QED BY <3>1, <3>2
  <2>4. ghost' \in [owed : BOOLEAN, foreign : Nat, drops : Nat]
    BY <1>0, <2>1 DEF StarWires
  <2>5. StarWires'  BY <1>0, <2>1, <2>2, <2>3, <2>4 DEF StarWires
  <2>6. StarWorker' /\ StarIo'  BY <1>0, <2>1 DEF StarWorker, StarIo
  <2> QED BY <2>5, <2>6 DEF StarTyped
<1> QED BY <1>1, <1>2, <1>3, <1>4

-----------------------------------------------------------------------------
(* The receipts of the Star path: on paper, or on their way there.         *)

StarSent(j) ==
  \/ j \in paper.printed
  \/ \E i \in 1..Len(tx) : tx[i].kind = "payload" /\ tx[i].of = j

StarReceipts ==
  \A j \in Star!Jobs : StarSent(j) =>
     /\ j <= job /\ starOutcome[j] # "FailedKnown"
     /\ j = job => pc \notin {"preamble", "baseline", "payload"}

(* A job that has not begun has no verdict, and one under way has not      *)
(* failed.                                                                 *)
StarFresh ==
  /\ \A j \in Star!Jobs : j > job => starOutcome[j] = "none"
  /\ pc # "idle" => starOutcome[job] # "FailedKnown"

LEMMA StarFreshStep ==
  ASSUME StarBounds, StarTyped, StarFresh, Star!Next
  PROVE  StarFresh'
<1>0. /\ job \in Nat /\ starOutcome \in [Star!Jobs -> Star!Outcomes]
      /\ pc # "idle" => job \in Star!Jobs
      /\ \A j \in Star!Jobs : j \in Nat
  BY DEF StarTyped, StarWorker, StarBounds, Star!Jobs
<1>1. CASE Star!RunStarJob
  <2>1. job' = job + 1 /\ job + 1 \in Star!Jobs /\ pc = "idle"
    BY <1>1, <1>0 DEF Star!RunStarJob, Star!Jobs, StarBounds
  <2>2. CASE starOutcome' = starOutcome
    <3>1. starOutcome[job + 1] = "none"  BY <1>0, <2>1 DEF StarFresh
    <3> QED BY <1>0, <2>1, <2>2, <3>1 DEF StarFresh
  <2>3. CASE pc' = pc /\ starOutcome' = [starOutcome EXCEPT ![job + 1] = "FailedKnown"]
    BY <1>0, <2>1, <2>3 DEF StarFresh
  <2> QED BY <1>1, <2>2, <2>3 DEF Star!RunStarJob
<1>2. ASSUME job' = job, NEW s \in Star!Outcomes, Star!Ends(s) PROVE StarFresh'
  BY <1>0, <1>2, StarEnds DEF StarFresh
<1>3. ASSUME job' = job, starOutcome' = starOutcome, pc # "idle" \/ pc' = pc PROVE StarFresh'
  BY <1>3 DEF StarFresh
<1>4. CASE Star!SendPreamble
  BY <1>2, <1>3, <1>4, StarOutcomes DEF Star!SendPreamble
<1>5. CASE Star!SetBaseline  BY <1>3, <1>5 DEF Star!SetBaseline
<1>6. CASE Star!SendPayload
  BY <1>2, <1>3, <1>6, StarOutcomes DEF Star!SendPayload
<1>7. CASE Star!NoFence  BY <1>2, <1>7, StarOutcomes DEF Star!NoFence
<1>8. ASSUME NEW here \in StarPlaces \ {"idle"}, NEW next, Star!Arm(here, next)
      PROVE  StarFresh'
  BY <1>3, <1>8 DEF Star!Arm
<1>9. ASSUME NEW here \in StarPlaces \ {"idle"}, NEW next, NEW before,
             Star!SendFence(here, next, before)
      PROVE  StarFresh'
  BY <1>2, <1>3, <1>9, StarOutcomes DEF Star!SendFence
<1>10. CASE Star!PrintConfirmed
  <2>1. /\ job' = job /\ starOutcome' = [starOutcome EXCEPT ![job] = "PrintConfirmed"]
        /\ pc = "await_print"
    BY <1>10 DEF Star!PrintConfirmed
  <2> QED BY <1>0, <2>1 DEF StarFresh
<1>11. CASE Star!CutProcessed  BY <1>2, <1>11, StarOutcomes DEF Star!CutProcessed
<1>12. CASE Star!FenceTimesOut  BY <1>2, <1>12, StarOutcomes DEF Star!FenceTimesOut
<1>13. CASE Star!OnBytes  BY <1>3, <1>13, StarReads
<1>14. CASE Star!PrinterActs  BY <1>3, <1>14, StarWorksOff
<1>15. CASE Star!ForeignEtb \/ Star!LinkDrops
  BY <1>3, <1>15 DEF Star!ForeignEtb, Star!LinkDrops, Star!worker
<1>16. {"fence", "cut", "send_print", "send_cut"} \subseteq StarPlaces \ {"idle"}
  BY DEF StarPlaces
<1> QED BY <1>1, <1>4, <1>5, <1>6, <1>7, <1>8, <1>9, <1>10, <1>11, <1>12, <1>13, <1>14, <1>15,
           <1>16 DEF Star!Next, Star!Worker

LEMMA StarSendsNoReceipt ==
  ASSUME StarTyped, NEW c \in StarCommands, c.kind # "payload", tx' = Append(tx, c),
         paper' = paper, NEW j, StarSent(j)'
  PROVE  StarSent(j)
<1>1. CASE j \in paper.printed  BY <1>1 DEF StarSent
<1>2. CASE \E i \in 1..Len(tx') : tx'[i].kind = "payload" /\ tx'[i].of = j
  <2>1. PICK i \in 1..Len(tx') : tx'[i].kind = "payload" /\ tx'[i].of = j  BY <1>2
  <2>2. i # Len(tx) + 1  BY <2>1, StarWrites
  <2>3. i \in 1..Len(tx)  BY <2>1, <2>2, StarWrites
  <2>4. tx'[i] = tx[i]  BY <2>3, StarWrites
  <2> QED BY <2>1, <2>3, <2>4 DEF StarSent
<1> QED BY <1>1, <1>2 DEF StarSent

LEMMA StarSentSame ==
  ASSUME UNCHANGED <<tx, paper>>
  PROVE  \A j : StarSent(j)' <=> StarSent(j)
BY DEF StarSent

LEMMA StarFenceSendsNoReceipt ==
  ASSUME StarTyped, NEW before \in Seq(StarCommands), Len(before) \in {0, 1},
         Len(before) = 1 => before[1].kind # "payload",
         job \in Star!Jobs, tx' = tx \o before \o <<Star!FenceBytes>>, paper' = paper,
         NEW j, StarSent(j)'
  PROVE  StarSent(j)
<1>0. /\ Star!FenceBytes.kind \in {"etb", "etx"} /\ Len(tx) \in Nat
      /\ Len(tx') = Len(tx) + Len(before) + 1
      /\ \A i \in 1..Len(tx) : tx'[i] = tx[i]
      /\ Len(before) = 1 => tx'[Len(tx) + 1] = before[1]
      /\ tx'[Len(tx')] = Star!FenceBytes
  BY StarFenceBytes, StarFenceWrites
<1>1. CASE j \in paper.printed  BY <1>1 DEF StarSent
<1>2. CASE \E i \in 1..Len(tx') : tx'[i].kind = "payload" /\ tx'[i].of = j
  <2>1. PICK i \in 1..Len(tx') : tx'[i].kind = "payload" /\ tx'[i].of = j  BY <1>2
  <2>2. i # Len(tx')  BY <1>0, <2>1
  <2>3. Len(before) = 1 => i # Len(tx) + 1  BY <1>0, <2>1
  <2>4. i \in 1..Len(tx)  BY <1>0, <2>1, <2>2, <2>3
  <2>5. tx'[i] = tx[i]  BY <1>0, <2>4
  <2> QED BY <2>1, <2>4, <2>5 DEF StarSent
<1> QED BY <1>1, <1>2 DEF StarSent

(* What the printer prints was on its way, and a dropped link adds nothing.*)
LEMMA StarWiresSendNothing ==
  ASSUME StarTyped,
         Star!OnBytes \/ Star!PrinterActs \/ Star!ForeignEtb \/ Star!LinkDrops,
         NEW j, StarSent(j)'
  PROVE  StarSent(j)
<1>1. CASE Star!OnBytes  BY <1>1, StarReads, StarSentSame
<1>2. CASE Star!PrinterActs
  <2>1. CASE j \in paper'.printed
    <3>1. CASE tx[1].kind = "payload"
      <4>1. j \in paper.printed \/ j = tx[1].of
        BY <1>2, <2>1, <3>1, StarWorksOff DEF StarTyped, StarWires
      <4>2. 1 \in 1..Len(tx)  BY <1>2, StarWorksOff
      <4> QED BY <3>1, <4>1, <4>2 DEF StarSent
    <3>2. CASE tx[1].kind # "payload"
      <4>1. paper'.printed = paper.printed
        BY <1>2, <3>2, StarWorksOff DEF StarTyped, StarWires
      <4> QED BY <2>1, <4>1 DEF StarSent
    <3> QED BY <3>1, <3>2
  <2>2. CASE \E i \in 1..Len(tx') : tx'[i].kind = "payload" /\ tx'[i].of = j
    <3>1. PICK i \in 1..Len(tx') : tx'[i].kind = "payload" /\ tx'[i].of = j  BY <2>2
    <3>2. tx'[i] = tx[i + 1] /\ i + 1 \in 1..Len(tx)  BY <1>2, <3>1, StarWorksOff
    <3> QED BY <3>1, <3>2 DEF StarSent
  <2> QED BY <2>1, <2>2 DEF StarSent
<1>3. CASE Star!ForeignEtb  BY <1>3, StarSentSame DEF Star!ForeignEtb
<1>4. CASE Star!LinkDrops
  <2>1. paper' = paper  BY <1>4 DEF Star!LinkDrops
  <2>2. \A i \in 1..Len(tx') : tx'[i] = tx[i] /\ i \in 1..Len(tx)  BY <1>4, StarCutOff
  <2> QED BY <2>1, <2>2 DEF StarSent
<1> QED BY <1>1, <1>2, <1>3, <1>4

LEMMA StarReceiptsInit == ASSUME StarBounds, Star!Init PROVE StarReceipts
<1>1. tx = <<>> /\ paper.printed = {}  BY DEF Star!Init
<1>2. Len(tx) = 0  BY <1>1
<1>3. \A j : ~StarSent(j)  BY <1>1, <1>2 DEF StarSent
<1> QED BY <1>3 DEF StarReceipts

(* The worker stays in its job and sends no receipt.                       *)
LEMMA StarReceiptsKept ==
  ASSUME StarReceipts, \A j : StarSent(j)' => StarSent(j), job' = job,
         \A j \in Star!Jobs : starOutcome'[j] = "FailedKnown"
            => starOutcome[j] = "FailedKnown" \/ (j = job /\ pc \in {"preamble", "payload"}),
         pc' \in {"preamble", "baseline", "payload"} => pc \in {"preamble", "baseline"}
  PROVE  StarReceipts'
BY DEF StarReceipts, Star!Jobs

LEMMA StarReceiptsStep ==
  ASSUME StarBounds, StarTyped, StarFresh, StarReceipts, Star!Next
  PROVE  StarReceipts'
<1>0. /\ job \in Nat /\ starOutcome \in [Star!Jobs -> Star!Outcomes]
      /\ pc # "idle" => job \in Star!Jobs
  BY DEF StarTyped, StarWorker, StarBounds
<1> DEFINE Early(j) == j = job /\ pc \in {"preamble", "payload"}
           NoNews == \A j \in Star!Jobs : starOutcome'[j] = "FailedKnown"
                                            => starOutcome[j] = "FailedKnown" \/ Early(j)
<1>1. ASSUME NEW s \in Star!Outcomes, Star!Ends(s),
             s # "FailedKnown" \/ pc \in {"preamble", "payload"}
      PROVE  NoNews /\ pc' = "idle"
  <2>1. ASSUME NEW j \in Star!Jobs, starOutcome'[j] = "FailedKnown", starOutcome[j] # "FailedKnown"
        PROVE  Early(j)
    <3>1. j = job  BY <1>1, <2>1, StarEnds
    <3>2. s = "FailedKnown"  BY <1>1, <2>1, <3>1, StarEnds
    <3> QED BY <1>1, <3>1, <3>2
  <2> QED BY <1>1, <2>1, StarEnds
<1>2. starOutcome' = starOutcome => NoNews  OBVIOUS
<1>3. CASE Star!RunStarJob
  <2>1. \A j : StarSent(j)' <=> StarSent(j)
    BY <1>3, StarSentSame DEF Star!RunStarJob, Star!printer
  <2>2. job' = job + 1 /\ pc = "idle"  BY <1>3 DEF Star!RunStarJob
  <2>3. \A j \in Star!Jobs : starOutcome'[j] = "FailedKnown"
                               => starOutcome[j] = "FailedKnown" \/ j = job + 1
    BY <1>0, <1>3 DEF Star!RunStarJob
  <2>4. ASSUME NEW j \in Star!Jobs, StarSent(j)'
        PROVE  j <= job' /\ starOutcome'[j] # "FailedKnown" /\ j # job'
    <3>1. j <= job /\ starOutcome[j] # "FailedKnown"  BY <2>1, <2>4 DEF StarReceipts
    <3>2. j \in Nat  BY DEF Star!Jobs
    <3> QED BY <1>0, <2>2, <2>3, <3>1, <3>2
  <2> QED BY <2>4 DEF StarReceipts
<1>4. CASE Star!SendPreamble
  <2>1. job' = job /\ paper' = paper /\ job \in Star!Jobs /\ pc = "preamble"
    BY <1>0, <1>4 DEF Star!SendPreamble
  <2>2. CASE link
    <3> DEFINE c == [kind |-> "clear", of |-> job]
    <3>1. c \in StarCommands /\ c.kind # "payload"  BY <2>1, StarJobCommands
    <3>2. tx' = Append(tx, c) /\ starOutcome' = starOutcome  BY <1>4, <2>2 DEF Star!SendPreamble
    <3> HIDE DEF c
    <3>3. \A j : StarSent(j)' => StarSent(j)  BY <2>1, <3>1, <3>2, StarSendsNoReceipt
    <3> QED BY <1>2, <2>1, <3>2, <3>3, StarReceiptsKept
  <2>3. CASE ~link
    <3>1. Star!Ends("FailedKnown") /\ tx' = tx  BY <1>4, <2>3 DEF Star!SendPreamble
    <3>2. NoNews /\ pc' = "idle"  BY <1>1, <2>1, <3>1, StarOutcomes
    <3>3. \A j : StarSent(j)' => StarSent(j)  BY <2>1, <3>1, StarSentSame
    <3> QED BY <2>1, <3>2, <3>3, StarReceiptsKept
  <2> QED BY <2>2, <2>3
<1>5. CASE Star!SetBaseline
  <2>1. /\ job' = job /\ starOutcome' = starOutcome /\ pc = "baseline"
        /\ UNCHANGED <<tx, paper>>
    BY <1>5 DEF Star!SetBaseline, Star!printer
  <2>2. \A j : StarSent(j)' => StarSent(j)  BY <2>1, StarSentSame
  <2> QED BY <1>2, <2>1, <2>2, StarReceiptsKept
<1>6. CASE Star!SendPayload
  <2>1. job' = job /\ paper' = paper /\ job \in Star!Jobs /\ pc = "payload"
    BY <1>0, <1>6 DEF Star!SendPayload
  <2>2. CASE tx' = Append(tx, Star!Receipt) /\ pc' = "fence" /\ UNCHANGED starOutcome
    <3>1. Star!Receipt.of = job  BY DEF Star!Receipt
    <3>2. ASSUME NEW j \in Star!Jobs, StarSent(j)', j # job PROVE StarSent(j)
      <4>1. CASE j \in paper'.printed  BY <2>1, <4>1 DEF StarSent
      <4>2. CASE \E i \in 1..Len(tx') : tx'[i].kind = "payload" /\ tx'[i].of = j
        <5>1. PICK i \in 1..Len(tx') : tx'[i].kind = "payload" /\ tx'[i].of = j  BY <4>2
        <5>2. i # Len(tx) + 1  BY <2>1, <2>2, <3>1, <3>2, <5>1, StarWrites, StarJobCommands
        <5>3. i \in 1..Len(tx) /\ tx'[i] = tx[i]
          BY <2>1, <2>2, <5>1, <5>2, StarWrites, StarJobCommands
        <5> QED BY <5>1, <5>3 DEF StarSent
      <4> QED BY <3>2, <4>1, <4>2 DEF StarSent
    <3>3. starOutcome[job] # "FailedKnown"  BY <2>1 DEF StarFresh
    <3>4. ASSUME NEW j \in Star!Jobs, StarSent(j)'
          PROVE  j <= job' /\ starOutcome'[j] # "FailedKnown"
      <4>1. CASE j = job  BY <1>0, <2>1, <2>2, <3>3, <4>1
      <4>2. CASE j # job  BY <2>1, <2>2, <3>2, <3>4, <4>2 DEF StarReceipts
      <4> QED BY <4>1, <4>2
    <3> QED BY <2>2, <3>4 DEF StarReceipts
  <2>3. CASE (Star!Ends("FailedKnown") \/ Star!Ends("Unknown")) /\ UNCHANGED tx
    <3>1. NoNews /\ pc' = "idle"  BY <1>1, <2>1, <2>3, StarOutcomes
    <3>2. \A j : StarSent(j)' => StarSent(j)  BY <2>1, <2>3, StarSentSame
    <3> QED BY <2>1, <3>1, <3>2, StarReceiptsKept
  <2> QED BY <1>6, <2>2, <2>3 DEF Star!SendPayload
<1>7. CASE Star!NoFence
  <2>1. /\ job' = job /\ paper' = paper /\ job \in Star!Jobs /\ Star!Ends("DoneSoftware")
        /\ tx' = Append(tx, [kind |-> "cut", of |-> job]) \/ tx' = tx
    BY <1>0, <1>7 DEF Star!NoFence
  <2>2. NoNews /\ pc' = "idle"  BY <1>1, <2>1, StarOutcomes
  <2>3. \A j : StarSent(j)' => StarSent(j)
    <3>1. CASE tx' = tx  BY <2>1, <3>1, StarSentSame
    <3>2. CASE tx' = Append(tx, [kind |-> "cut", of |-> job])
      <4> DEFINE c == [kind |-> "cut", of |-> job]
      <4>1. c \in StarCommands /\ c.kind # "payload"  BY <2>1, StarJobCommands
      <4>2. tx' = Append(tx, c)  BY <3>2
      <4> HIDE DEF c
      <4> QED BY <2>1, <4>1, <4>2, StarSendsNoReceipt
    <3> QED BY <2>1, <3>1, <3>2
  <2> QED BY <2>1, <2>2, <2>3, StarReceiptsKept
<1>8. ASSUME NEW here, NEW next \in {"send_print", "send_cut"}, Star!Arm(here, next)
      PROVE  StarReceipts'
  <2>1. /\ job' = job /\ starOutcome' = starOutcome /\ UNCHANGED <<tx, paper>>
        /\ pc' \notin {"preamble", "baseline", "payload"}
    BY <1>8 DEF Star!Arm, Star!printer
  <2>2. \A j : StarSent(j)' => StarSent(j)  BY <2>1, StarSentSame
  <2> QED BY <1>2, <2>1, <2>2, StarReceiptsKept
<1>9. ASSUME NEW here \in StarPlaces \ {"idle"}, NEW next \in {"await_print", "await_cut"},
             NEW before \in Seq(StarCommands), Len(before) \in {0, 1},
             Len(before) = 1 => before[1].kind # "payload",
             Star!SendFence(here, next, before)
      PROVE  StarReceipts'
  <2>1. job' = job /\ paper' = paper /\ job \in Star!Jobs
    BY <1>0, <1>9 DEF Star!SendFence
  <2>2. CASE link
    <3>1. /\ tx' = tx \o before \o <<Star!FenceBytes>> /\ pc' = next
          /\ starOutcome' = starOutcome
      BY <1>9, <2>2 DEF Star!SendFence
    <3>2. \A j : StarSent(j)' => StarSent(j)
      BY <1>9, <2>1, <3>1, StarFenceSendsNoReceipt
    <3> QED BY <1>2, <2>1, <3>1, <3>2, StarReceiptsKept
  <2>3. CASE ~link
    <3>1. Star!Ends("Unknown") /\ tx' = tx  BY <1>9, <2>3 DEF Star!SendFence
    <3>2. NoNews /\ pc' = "idle"  BY <1>1, <3>1, StarOutcomes
    <3>3. \A j : StarSent(j)' => StarSent(j)  BY <2>1, <3>1, StarSentSame
    <3> QED BY <2>1, <3>2, <3>3, StarReceiptsKept
  <2> QED BY <2>2, <2>3
<1>10. CASE Star!PrintConfirmed
  <2>1. /\ job' = job /\ starOutcome' = [starOutcome EXCEPT ![job] = "PrintConfirmed"]
        /\ pc' \in {"cut", "idle"} /\ UNCHANGED <<tx, paper>>
    BY <1>10 DEF Star!PrintConfirmed, Star!printer
  <2>2. NoNews  BY <1>0, <2>1
  <2>3. \A j : StarSent(j)' => StarSent(j)  BY <2>1, StarSentSame
  <2> QED BY <2>1, <2>2, <2>3, StarReceiptsKept
<1>11. CASE Star!CutProcessed \/ Star!FenceTimesOut
  <2>1. /\ job' = job /\ (Star!Ends("CutProcessed") \/ Star!Ends("Unknown"))
        /\ UNCHANGED <<tx, paper>>
    BY <1>11 DEF Star!CutProcessed, Star!FenceTimesOut, Star!printer
  <2>2. NoNews /\ pc' = "idle"  BY <1>1, <2>1, StarOutcomes
  <2>3. \A j : StarSent(j)' => StarSent(j)  BY <2>1, StarSentSame
  <2> QED BY <2>1, <2>2, <2>3, StarReceiptsKept
<1>12. CASE Star!OnBytes \/ Star!PrinterActs \/ Star!ForeignEtb \/ Star!LinkDrops
  <2>1. UNCHANGED <<job, starOutcome, pc>>
    BY <1>12, StarReads, StarWorksOff DEF Star!ForeignEtb, Star!LinkDrops, Star!worker
  <2>2. \A j : StarSent(j)' => StarSent(j)  BY <1>12, StarWiresSendNothing
  <2>3. NoNews  BY <2>1
  <2> QED BY <2>1, <2>2, <2>3 DEF StarReceipts
<1>13. CASE Star!SendFence("send_print", "await_print", <<>>)
  <2> DEFINE b == <<>>
  <2>1. b \in Seq(StarCommands) /\ Len(b) = 0  BY EmptySeq
  <2>2. "send_print" \in StarPlaces \ {"idle"}  BY DEF StarPlaces
  <2>3. Star!SendFence("send_print", "await_print", b)  BY <1>13
  <2> HIDE DEF b
  <2>4. Len(b) \in {0, 1} /\ (Len(b) = 1 => b[1].kind # "payload")  BY <2>1
  <2> QED BY <1>9, <2>1, <2>2, <2>3, <2>4
<1>14. CASE Star!SendFence("send_cut", "await_cut", <<[kind |-> "cut", of |-> job]>>)
  <2> DEFINE b == <<[kind |-> "cut", of |-> job]>>
  <2>1. job \in Star!Jobs  BY <1>0, <1>14 DEF Star!SendFence
  <2>2. [kind |-> "cut", of |-> job] \in StarCommands  BY <2>1, StarJobCommands
  <2>3. b \in Seq(StarCommands) /\ Len(b) = 1 /\ b[1].kind = "cut"  BY <2>2
  <2>4. "send_cut" \in StarPlaces \ {"idle"}  BY DEF StarPlaces
  <2>5. Star!SendFence("send_cut", "await_cut", b)  BY <1>14
  <2> HIDE DEF b
  <2> QED BY <1>9, <2>3, <2>4, <2>5
<1> QED BY <1>3, <1>4, <1>5, <1>6, <1>7, <1>8, <1>10, <1>11, <1>12, <1>13, <1>14
        DEF Star!Next, Star!Worker

LEMMA StarFailsClean ==
  ASSUME StarTyped, StarReceipts
  PROVE  Star!FailedKnownPrintedNothing
BY DEF StarReceipts, StarSent, Star!FailedKnownPrintedNothing

-----------------------------------------------------------------------------
(* ESC GS ETX: an echo with the bytes awaited comes from behind the work.  *)

StarDoing == IF pc = "await_print" THEN "payload" ELSE "cut"
StarMade == IF pc = "await_print" THEN job \in paper.printed ELSE job \in paper.cut

(* The bytes of a fence are new when it is armed, and nobody else's.       *)
EtxNumbers ==
  /\ fence.etb = FALSE
  /\ \A i \in 1..Len(tx) : tx[i].kind = "etx"
       => tx[i].n <= sequence /\ (pc \in {"send_print", "send_cut"} => tx[i].n # sequence)
  /\ \A i \in 1..Len(rx) : rx[i].kind = "etx"
       => rx[i].n <= sequence /\ (pc \in {"send_print", "send_cut"} => rx[i].n # sequence)
  /\ pc \in {"send_print", "send_cut", "await_print", "await_cut"} => fence.expect = sequence
  /\ pc \in {"send_print", "send_cut"} => ~fence.signalled

(* The echo awaited stands behind what it fences.                          *)
EtxOrder ==
  pc \in {"await_print", "await_cut"} =>
     /\ \A i \in 1..Len(tx) : tx[i].kind = "etx" /\ tx[i].n = sequence
          => StarMade \/ \E k \in 1..(i - 1) : tx[k].kind = StarDoing /\ tx[k].of = job
     /\ \A i \in 1..Len(rx) : rx[i].kind = "etx" /\ rx[i].n = sequence => StarMade
     /\ fence.signalled => StarMade

EtxPaper ==
  /\ pc \in {"fence", "send_print"} /\ link => StarSent(job)
  /\ pc \in {"cut", "send_cut", "await_cut"} => job \in paper.printed
  /\ \A j \in Star!Jobs : /\ Star!Confirmed(j) => j \in paper.printed
                          /\ starOutcome[j] = "CutProcessed" => j \in paper.cut

EtxInv == method = "StarEtx" => EtxNumbers /\ EtxOrder /\ EtxPaper

LEMMA EtxInit == ASSUME StarBounds, Star!Init PROVE EtxInv
<1>1. /\ pc = "idle" /\ fence.etb = FALSE /\ Len(tx) = 0 /\ Len(rx) = 0
      /\ starOutcome = [j \in Star!Jobs |-> "none"]
  BY DEF Star!Init, Star!Idle
<1> QED BY <1>1 DEF EtxInv, EtxNumbers, EtxOrder, EtxPaper, Star!Confirmed

LEMMA EtxDone ==
  ASSUME EtxInv, method = "StarEtx"
  PROVE  \A j \in Star!Jobs : /\ Star!Confirmed(j) => j \in paper.printed
                              /\ starOutcome[j] = "CutProcessed" => j \in paper.cut
BY DEF EtxInv, EtxPaper

(* What is on paper stays there.                                           *)
LEMMA StarPaperStays ==
  ASSUME StarTyped, Star!PrinterActs
  PROVE  /\ paper.printed \subseteq paper'.printed /\ paper.cut \subseteq paper'.cut
         /\ tx[1].kind = "payload" => tx[1].of \in paper'.printed
         /\ tx[1].kind = "cut" => tx[1].of \in paper'.cut
BY StarWorksOff DEF StarTyped, StarWires

LEMMA EtxWires ==
  ASSUME StarTyped, EtxInv, method = "StarEtx",
         Star!OnBytes \/ Star!PrinterActs \/ Star!ForeignEtb \/ Star!LinkDrops
  PROVE  EtxNumbers' /\ EtxOrder' /\ EtxPaper'
<1>0. EtxNumbers /\ EtxOrder /\ EtxPaper /\ sequence \in Nat
  BY DEF EtxInv, StarTyped, StarIo
<1>1. CASE Star!OnBytes
  <2>0. StarMade' <=> StarMade  BY <1>1, StarReads DEF StarMade
  <2>1. \A i \in 1..Len(rx') : rx'[i] = rx[i + 1] /\ i + 1 \in 1..Len(rx)
    BY <1>1, StarReads
  <2>2. 1 \in 1..Len(rx)  BY <1>1, StarReads
  <2>3. ASSUME fence'.signalled, ~fence.signalled
        PROVE  rx[1].kind = "etx" /\ rx[1].n = fence.expect
    BY <1>0, <1>1, <2>3, StarReads DEF EtxNumbers, StarFrames
  <2>4. EtxNumbers'
    <3>1. pc \in {"send_print", "send_cut"} => ~fence'.signalled
      BY <1>0, <2>2, <2>3 DEF EtxNumbers
    <3>2. \A i \in 1..Len(rx') : rx'[i].kind = "etx"
            => rx'[i].n <= sequence /\ (pc \in {"send_print", "send_cut"} => rx'[i].n # sequence)
      BY <1>0, <2>1 DEF EtxNumbers
    <3> QED BY <1>0, <1>1, <3>1, <3>2, StarReads DEF EtxNumbers
  <2>5. EtxOrder'
    <3>1. SUFFICES ASSUME pc \in {"await_print", "await_cut"}
                   PROVE  EtxOrder'
      BY <1>1, StarReads DEF EtxOrder
    <3>2. \A i \in 1..Len(rx) : rx[i].kind = "etx" /\ rx[i].n = sequence => StarMade
      BY <1>0, <3>1 DEF EtxOrder
    <3>3. fence'.signalled => StarMade
      <4>1. fence.signalled => StarMade  BY <1>0, <3>1 DEF EtxOrder
      <4>2. fence.expect = sequence  BY <1>0, <3>1 DEF EtxNumbers
      <4> QED BY <2>2, <2>3, <3>2, <4>1, <4>2
    <3>4. \A i \in 1..Len(rx') : rx'[i].kind = "etx" /\ rx'[i].n = sequence => StarMade
      BY <2>1, <3>2
    <3>5. \A i \in 1..Len(tx) : tx[i].kind = "etx" /\ tx[i].n = sequence
            => StarMade \/ \E k \in 1..(i - 1) : tx[k].kind = StarDoing /\ tx[k].of = job
      BY <1>0, <3>1 DEF EtxOrder
    <3>6. UNCHANGED <<pc, job, tx, sequence>> /\ StarDoing' = StarDoing
      BY <1>1, StarReads DEF StarDoing
    <3> QED BY <2>0, <3>3, <3>4, <3>5, <3>6 DEF EtxOrder
  <2>6. EtxPaper'
    <3>1. StarSent(job)' <=> StarSent(job)  BY <1>1, StarReads DEF StarSent
    <3> QED BY <1>0, <1>1, <3>1, StarReads DEF EtxPaper, Star!Confirmed
  <2> QED BY <2>4, <2>5, <2>6
<1>2. CASE Star!PrinterActs
  <2>0. StarMade => StarMade'  BY <1>2, StarWorksOff, StarPaperStays DEF StarMade
  <2>1. /\ \A i \in 1..Len(tx') : tx'[i] = tx[i + 1] /\ i + 1 \in 1..Len(tx)
        /\ 1 \in 1..Len(tx)
    BY <1>2, StarWorksOff
  <2>2. ASSUME NEW i \in 1..Len(rx'), rx'[i].kind = "etx"
        PROVE  \/ i \in 1..Len(rx) /\ rx'[i] = rx[i]
               \/ tx[1].kind = "etx" /\ rx'[i].n = tx[1].n
    <3>1. CASE rx' = rx  BY <2>2, <3>1
    <3>2. CASE tx[1].kind = "etx" /\ rx' = Append(rx, [kind |-> "etx", n |-> tx[1].n])
      <4> DEFINE f == [kind |-> "etx", n |-> tx[1].n]
      <4>1. f \in StarFrames  BY <1>2, <3>2, StarWorksOff DEF StarCommands, StarFrames
      <4>2. f.n = tx[1].n /\ rx' = Append(rx, f)  BY <3>2
      <4> HIDE DEF f
      <4> QED BY <2>2, <3>2, <4>1, <4>2, StarAnswers
    <3>3. CASE rx' = Append(rx, Star!Status)
      <4>1. Star!Status.kind = "asb"  BY DEF Star!Status
      <4>2. rx \in Seq(StarFrames)  BY DEF StarTyped, StarWires
      <4>3. /\ Len(rx) \in Nat /\ Len(rx') = Len(rx) + 1
            /\ \A k \in 1..Len(rx) : rx'[k] = rx[k]
            /\ rx'[Len(rx) + 1] = Star!Status
        BY <3>3, <4>2, AppendsAny
      <4>4. i # Len(rx) + 1  BY <2>2, <4>1, <4>3
      <4> QED BY <2>2, <4>3, <4>4
    <3> QED BY <1>2, <3>1, <3>2, <3>3, StarWorksOff
  <2>3. UNCHANGED <<method, pc, job, starOutcome, fence, sequence, link>>  BY <1>2, StarWorksOff
  <2>4. EtxNumbers'
    <3>1. \A i \in 1..Len(tx') : tx'[i].kind = "etx"
            => tx'[i].n <= sequence /\ (pc \in {"send_print", "send_cut"} => tx'[i].n # sequence)
      BY <1>0, <2>1 DEF EtxNumbers
    <3>2. \A i \in 1..Len(rx') : rx'[i].kind = "etx"
            => rx'[i].n <= sequence /\ (pc \in {"send_print", "send_cut"} => rx'[i].n # sequence)
      BY <1>0, <2>1, <2>2 DEF EtxNumbers
    <3> QED BY <1>0, <2>3, <3>1, <3>2 DEF EtxNumbers
  <2>5. EtxOrder'
    <3>1. SUFFICES ASSUME pc \in {"await_print", "await_cut"} PROVE EtxOrder'
      BY <2>3 DEF EtxOrder
    <3>2. \A i \in 1..Len(tx) : tx[i].kind = "etx" /\ tx[i].n = sequence
            => StarMade \/ \E k \in 1..(i - 1) : tx[k].kind = StarDoing /\ tx[k].of = job
      BY <1>0, <3>1 DEF EtxOrder
    <3>3. tx[1].kind = StarDoing /\ tx[1].of = job => StarMade'
      BY <1>2, <2>3, <3>1, StarPaperStays DEF StarDoing, StarMade
    <3>4. ASSUME NEW i \in 1..Len(tx'), tx'[i].kind = "etx", tx'[i].n = sequence
          PROVE  StarMade' \/ \E k \in 1..(i - 1) : tx'[k].kind = StarDoing /\ tx'[k].of = job
      <4>1. i + 1 \in 1..Len(tx) /\ tx'[i] = tx[i + 1] /\ i \in Nat  BY <2>1
      <4>2. CASE StarMade  BY <2>0, <4>2
      <4>3. CASE \E k \in 1..i : tx[k].kind = StarDoing /\ tx[k].of = job
        <5>1. PICK k \in 1..i : tx[k].kind = StarDoing /\ tx[k].of = job  BY <4>3
        <5>2. CASE k = 1  BY <3>3, <5>1, <5>2
        <5>3. CASE k # 1
          <6>1. k - 1 \in 1..(i - 1) /\ k - 1 \in 1..Len(tx') /\ (k - 1) + 1 = k
            BY <4>1, <5>3
          <6>2. tx'[k - 1] = tx[k]  BY <2>1, <6>1
          <6> QED BY <5>1, <6>1, <6>2
        <5> QED BY <5>2, <5>3
      <4>4. (i + 1) - 1 = i  BY <4>1
      <4> QED BY <3>2, <3>4, <4>1, <4>2, <4>3, <4>4
    <3>5. ASSUME tx[1].kind = "etx", tx[1].n = sequence PROVE StarMade
      BY <2>1, <3>2, <3>5
    <3>6. \A i \in 1..Len(rx') : rx'[i].kind = "etx" /\ rx'[i].n = sequence => StarMade'
      <4>1. \A i \in 1..Len(rx) : rx[i].kind = "etx" /\ rx[i].n = sequence => StarMade
        BY <1>0, <3>1 DEF EtxOrder
      <4> QED BY <2>0, <2>2, <3>5, <4>1
    <3>7. fence.signalled => StarMade'  BY <1>0, <2>0, <3>1 DEF EtxOrder
    <3>8. StarDoing' = StarDoing  BY <2>3 DEF StarDoing
    <3> QED BY <2>3, <3>4, <3>6, <3>7, <3>8 DEF EtxOrder
  <2>6. EtxPaper'
    <3>1. StarSent(job) => StarSent(job)'
      <4>1. CASE job \in paper.printed  BY <1>2, <2>3, <4>1, StarPaperStays DEF StarSent
      <4>2. CASE \E i \in 1..Len(tx) : tx[i].kind = "payload" /\ tx[i].of = job
        <5>1. PICK i \in 1..Len(tx) : tx[i].kind = "payload" /\ tx[i].of = job  BY <4>2
        <5>2. CASE i = 1  BY <1>2, <2>3, <5>1, <5>2, StarPaperStays DEF StarSent
        <5>3. CASE i # 1
          <6>1. i - 1 \in 1..Len(tx') /\ (i - 1) + 1 = i  BY <1>2, <5>3, StarWorksOff
          <6>2. tx'[i - 1] = tx[i]  BY <2>1, <6>1
          <6> QED BY <2>3, <5>1, <6>1, <6>2 DEF StarSent
        <5> QED BY <5>2, <5>3
      <4> QED BY <4>1, <4>2 DEF StarSent
    <3> QED BY <1>0, <1>2, <2>3, <3>1, StarPaperStays DEF EtxPaper, Star!Confirmed
  <2> QED BY <2>4, <2>5, <2>6
<1>3. CASE Star!ForeignEtb
  <2>1. /\ UNCHANGED <<method, pc, job, starOutcome, fence, sequence, link, tx, paper>>
        /\ rx' = Append(rx, Star!Status)
    BY <1>3 DEF Star!ForeignEtb, Star!worker, Star!io
  <2>2. /\ Star!Status.kind = "asb" /\ Len(rx) \in Nat /\ Len(rx') = Len(rx) + 1
        /\ \A k \in 1..Len(rx) : rx'[k] = rx[k]
        /\ rx'[Len(rx) + 1] = Star!Status
    <3>1. rx \in Seq(StarFrames)  BY DEF StarTyped, StarWires
    <3> QED BY <2>1, <3>1, AppendsAny DEF Star!Status
  <2>3. \A i \in 1..Len(rx') : rx'[i].kind = "etx" => i \in 1..Len(rx) /\ rx'[i] = rx[i]
    <3>1. TAKE i \in 1..Len(rx')
    <3>2. CASE i = Len(rx) + 1  BY <2>2, <3>2
    <3>3. CASE i # Len(rx) + 1  BY <2>2, <3>3
    <3> QED BY <3>2, <3>3
  <2>4. EtxNumbers'  BY <1>0, <2>1, <2>3 DEF EtxNumbers
  <2>5. (StarMade' <=> StarMade) /\ StarDoing' = StarDoing  BY <2>1 DEF StarMade, StarDoing
  <2>6. EtxOrder'  BY <1>0, <2>1, <2>3, <2>5 DEF EtxOrder
  <2>7. EtxPaper'  BY <1>0, <2>1, StarSentSame DEF EtxPaper, Star!Confirmed
  <2> QED BY <2>4, <2>6, <2>7
<1>4. CASE Star!LinkDrops
  <2>1. /\ UNCHANGED <<method, pc, job, starOutcome, fence, sequence, paper>>
        /\ link' = FALSE /\ Len(rx') = 0
    BY <1>4 DEF Star!LinkDrops, Star!worker, Star!io
  <2>2. \A i \in 1..Len(tx') : tx'[i] = tx[i] /\ i \in 1..Len(tx)
    BY <1>4, StarCutOff
  <2>3. EtxNumbers'  BY <1>0, <2>1, <2>2 DEF EtxNumbers
  <2>4. (StarMade' <=> StarMade) /\ StarDoing' = StarDoing  BY <2>1 DEF StarMade, StarDoing
  <2>5. EtxOrder'
    <3>1. SUFFICES ASSUME pc \in {"await_print", "await_cut"} PROVE EtxOrder'
      BY <2>1 DEF EtxOrder
    <3>2. ASSUME NEW i \in 1..Len(tx'), tx'[i].kind = "etx", tx'[i].n = sequence
          PROVE  StarMade \/ \E k \in 1..(i - 1) : tx'[k].kind = StarDoing /\ tx'[k].of = job
      <4>1. StarMade \/ \E k \in 1..(i - 1) : tx[k].kind = StarDoing /\ tx[k].of = job
        BY <1>0, <2>2, <3>1, <3>2 DEF EtxOrder
      <4>2. \A k \in 1..(i - 1) : tx'[k] = tx[k]  BY <1>4, <2>2, StarCutOff
      <4> QED BY <4>1, <4>2
    <3>3. fence.signalled => StarMade  BY <1>0, <3>1 DEF EtxOrder
    <3> QED BY <2>1, <2>4, <3>2, <3>3 DEF EtxOrder
  <2>6. EtxPaper'  BY <1>0, <2>1 DEF EtxPaper, Star!Confirmed
  <2> QED BY <2>3, <2>5, <2>6
<1> QED BY <1>1, <1>2, <1>3, <1>4

(* A step of the worker outside a wait: nothing new on the wires but what  *)
(* is no echo.                                                             *)
LEMMA EtxWorker ==
  ASSUME StarBounds, StarTyped, EtxInv, method = "StarEtx", Star!Worker
  PROVE  EtxNumbers' /\ EtxOrder' /\ EtxPaper'
<1>0. /\ EtxNumbers /\ EtxOrder /\ EtxPaper /\ sequence \in Nat
      /\ starOutcome \in [Star!Jobs -> Star!Outcomes] /\ fence \in StarFences
      /\ pc # "idle" => job \in Star!Jobs
  BY DEF EtxInv, StarTyped, StarIo, StarWorker
<1>1. ASSUME UNCHANGED <<sequence, rx, fence>>, pc' = "idle",
             \A i \in 1..Len(tx') : tx'[i].kind = "etx" => i \in 1..Len(tx) /\ tx'[i] = tx[i]
      PROVE  EtxNumbers' /\ EtxOrder'
  BY <1>0, <1>1 DEF EtxNumbers, EtxOrder
<1>2. ASSUME NEW s \in Star!Outcomes, Star!Ends(s), s \notin {"PrintConfirmed", "CutProcessed"},
             paper' = paper
      PROVE  EtxPaper'
  <2>1. \A j \in Star!Jobs : starOutcome'[j] = starOutcome[j] \/ starOutcome'[j] = s
    BY <1>2, StarEnds
  <2>2. pc' = "idle"  BY <1>2, StarEnds
  <2> QED BY <1>0, <1>2, <2>1, <2>2 DEF EtxPaper, Star!Confirmed
<1>3. CASE Star!RunStarJob
  <2>1. /\ job < MaxJobs /\ job' = job + 1 /\ pc = "idle" /\ pc' \in {"payload", "idle"}
        /\ UNCHANGED <<sequence, tx, rx, paper>>
        /\ fence' = Star!Disarmed \/ fence' = fence
        /\ starOutcome' = starOutcome
           \/ starOutcome' = [starOutcome EXCEPT ![job + 1] = "FailedKnown"]
    BY <1>3 DEF Star!RunStarJob, Star!printer
  <2>2. fence'.etb = FALSE  BY <1>0, <2>1, StarDisarms DEF EtxNumbers
  <2>3. EtxNumbers' /\ EtxOrder'  BY <1>0, <2>1, <2>2 DEF EtxNumbers, EtxOrder
  <2>4. \A j \in Star!Jobs : starOutcome'[j] = starOutcome[j] \/ starOutcome'[j] = "FailedKnown"
    BY <1>0, <2>1
  <2> QED BY <1>0, <2>1, <2>3, <2>4 DEF EtxPaper, Star!Confirmed
<1>4. CASE Star!SendPreamble
  <2>1. /\ job' = job /\ job \in Star!Jobs /\ pc = "preamble"
        /\ UNCHANGED <<sequence, rx, fence, link, paper>>
    BY <1>0, <1>4 DEF Star!SendPreamble, Star!io
  <2>2. CASE link
    <3> DEFINE c == [kind |-> "clear", of |-> job]
    <3>1. c \in StarCommands /\ c.kind # "etx"  BY <2>1, StarJobCommands
    <3>2. tx' = Append(tx, c) /\ starOutcome' = starOutcome /\ pc' = "baseline"
      BY <1>4, <2>2 DEF Star!SendPreamble
    <3> HIDE DEF c
    <3>3. \A i \in 1..Len(tx') : tx'[i].kind = "etx" => i \in 1..Len(tx) /\ tx'[i] = tx[i]
      <4>1. TAKE i \in 1..Len(tx')
      <4> QED BY <3>1, <3>2, StarWrites
    <3>4. EtxNumbers' /\ EtxOrder'  BY <1>0, <2>1, <3>2, <3>3 DEF EtxNumbers, EtxOrder
    <3> QED BY <1>0, <2>1, <3>2, <3>4 DEF EtxPaper, Star!Confirmed
  <2>3. CASE ~link
    <3>1. Star!Ends("FailedKnown") /\ tx' = tx  BY <1>4, <2>3 DEF Star!SendPreamble
    <3> QED BY <1>1, <1>2, <2>1, <3>1, StarEnds, StarOutcomes
  <2> QED BY <2>2, <2>3
<1>5. CASE Star!SetBaseline
  <2>1. /\ job' = job /\ starOutcome' = starOutcome /\ pc = "baseline" /\ pc' = "payload"
        /\ UNCHANGED <<tx, rx, paper, fence, sequence, link>>
    BY <1>5 DEF Star!SetBaseline, Star!printer
  <2> QED BY <1>0, <2>1 DEF EtxNumbers, EtxOrder, EtxPaper, Star!Confirmed
<1>6. CASE Star!SendPayload
  <2>1. /\ job' = job /\ job \in Star!Jobs /\ pc = "payload"
        /\ UNCHANGED <<sequence, rx, fence, link, paper>>
    BY <1>0, <1>6 DEF Star!SendPayload, Star!io
  <2>2. CASE tx' = Append(tx, Star!Receipt) /\ pc' = "fence" /\ UNCHANGED starOutcome
    <3>1. Star!Receipt.kind = "payload" /\ Star!Receipt.of = job  BY DEF Star!Receipt
    <3>2. \A i \in 1..Len(tx') : tx'[i].kind = "etx" => i \in 1..Len(tx) /\ tx'[i] = tx[i]
      <4>1. TAKE i \in 1..Len(tx')
      <4> QED BY <2>1, <2>2, <3>1, StarWrites, StarJobCommands
    <3>3. StarSent(job)'
      <4>1. Len(tx) + 1 \in 1..Len(tx') /\ tx'[Len(tx) + 1] = Star!Receipt
        BY <2>1, <2>2, StarWrites, StarJobCommands
      <4> QED BY <2>1, <3>1, <4>1 DEF StarSent
    <3>4. EtxNumbers' /\ EtxOrder'  BY <1>0, <2>1, <2>2, <3>2 DEF EtxNumbers, EtxOrder
    <3> QED BY <1>0, <2>1, <2>2, <3>3, <3>4 DEF EtxPaper, Star!Confirmed
  <2>3. CASE (Star!Ends("FailedKnown") \/ Star!Ends("Unknown")) /\ UNCHANGED tx
    BY <1>1, <1>2, <2>1, <2>3, StarEnds, StarOutcomes
  <2> QED BY <1>6, <2>2, <2>3 DEF Star!SendPayload
<1>7. ~Star!NoFence  BY DEF Star!NoFence
<1>8. ASSUME NEW next \in {"send_print", "send_cut"},
             Star!ArmStarFence, pc' = next,
             UNCHANGED <<job, starOutcome, link, tx, rx, paper>>,
             next = "send_print" => pc = "fence", next = "send_cut" => pc = "cut"
      PROVE  EtxNumbers' /\ EtxOrder' /\ EtxPaper'
  <2>1. /\ fence'.etb = FALSE /\ fence'.signalled = FALSE /\ fence'.expect = sequence'
        /\ sequence' = sequence + 1
    BY <1>8, StarArms
  <2>2. \A i \in 1..Len(tx) : tx[i].kind = "etx" => tx[i].n <= sequence + 1 /\ tx[i].n # sequence + 1
    <3>1. SUFFICES ASSUME NEW i \in 1..Len(tx), tx[i].kind = "etx"
                   PROVE  tx[i].n <= sequence + 1 /\ tx[i].n # sequence + 1
      OBVIOUS
    <3>2. tx[i].n <= sequence  BY <1>0, <3>1 DEF EtxNumbers
    <3>3. tx[i] \in StarCommands  BY ElementOfSeq DEF StarTyped, StarWires
    <3>4. tx[i].n \in Nat  BY <3>1, <3>3 DEF StarCommands
    <3> QED BY <1>0, <3>2, <3>4
  <2>3. \A i \in 1..Len(rx) : rx[i].kind = "etx" => rx[i].n <= sequence + 1 /\ rx[i].n # sequence + 1
    <3>1. SUFFICES ASSUME NEW i \in 1..Len(rx), rx[i].kind = "etx"
                   PROVE  rx[i].n <= sequence + 1 /\ rx[i].n # sequence + 1
      OBVIOUS
    <3>2. rx[i].n <= sequence  BY <1>0, <3>1 DEF EtxNumbers
    <3>3. rx[i] \in StarFrames  BY ElementOfSeq DEF StarTyped, StarWires
    <3>4. rx[i].n \in Nat  BY <3>1, <3>3 DEF StarFrames
    <3> QED BY <1>0, <3>2, <3>4
  <2>4. EtxNumbers'  BY <1>8, <2>1, <2>2, <2>3 DEF EtxNumbers
  <2>5. EtxOrder'  BY <1>8 DEF EtxOrder
  <2>6. StarSent(job)' <=> StarSent(job)  BY <1>8, StarSentSame
  <2>7. EtxPaper'  BY <1>0, <1>8, <2>6 DEF EtxPaper, Star!Confirmed
  <2> QED BY <2>4, <2>5, <2>7
<1>9. CASE Star!Arm("fence", "send_print")
  BY <1>8, <1>9 DEF Star!Arm, Star!printer
<1>10. CASE Star!Arm("cut", "send_cut")
  BY <1>8, <1>10 DEF Star!Arm, Star!printer
<1>11. ASSUME NEW here \in StarPlaces \ {"idle"}, NEW next, NEW before, ~link,
              Star!SendFence(here, next, before)
       PROVE  EtxNumbers' /\ EtxOrder' /\ EtxPaper'
  <2>1. /\ Star!Ends("Unknown") /\ tx' = tx /\ UNCHANGED <<sequence, rx, fence, paper>>
    BY <1>11 DEF Star!SendFence, Star!io
  <2> QED BY <1>1, <1>2, <2>1, StarEnds, StarOutcomes
<1>12. ASSUME NEW here \in {"send_print", "send_cut"}, NEW next \in {"await_print", "await_cut"},
              NEW before \in Seq(StarCommands), Len(before) \in {0, 1},
              Len(before) = 1 => before[1].kind # "etx", link,
              Star!SendFence(here, next, before),
              next = "await_cut" => /\ job \in paper.printed
                                    /\ Len(before) = 1 /\ before[1].kind = "cut"
                                    /\ before[1].of = job,
              next = "await_print" => StarSent(job) /\ Len(before) = 0
       PROVE  EtxNumbers' /\ EtxOrder' /\ EtxPaper'
  <2>1. /\ job \in Star!Jobs /\ pc = here /\ pc' = next
        /\ tx' = tx \o before \o <<Star!FenceBytes>>
        /\ UNCHANGED <<job, starOutcome, sequence, rx, fence, paper, link>>
    BY <1>0, <1>12 DEF Star!SendFence, Star!io
  <2>2. /\ fence.etb = FALSE /\ fence.expect = sequence /\ ~fence.signalled
    BY <1>0, <1>12, <2>1 DEF EtxNumbers
  <2>3. Star!FenceBytes.kind = "etx" /\ Star!FenceBytes.n = sequence
    BY <2>1, <2>2, StarFenceBytes
  <2>4. /\ Len(tx) \in Nat /\ Len(tx') = Len(tx) + Len(before) + 1
        /\ \A i \in 1..Len(tx) : tx'[i] = tx[i]
        /\ Len(before) = 1 => tx'[Len(tx) + 1] = before[1]
        /\ tx'[Len(tx')] = Star!FenceBytes
    BY <1>12, <2>1, StarFenceWrites
  <2>5. ASSUME NEW i \in 1..Len(tx'), tx'[i].kind = "etx", i # Len(tx')
        PROVE  i \in 1..Len(tx) /\ tx'[i] = tx[i]
    <3>1. Len(before) = 1 => i # Len(tx) + 1  BY <1>12, <2>4, <2>5
    <3>2. Len(before) \in {0, 1} /\ Len(tx) \in Nat /\ Len(tx') = Len(tx) + Len(before) + 1
      BY <1>12, <2>4
    <3>3. i \in 1..Len(tx)
      <4>1. CASE Len(before) = 0  BY <2>5, <3>2, <4>1
      <4>2. CASE Len(before) = 1  BY <2>5, <3>1, <3>2, <4>2
      <4> QED BY <3>2, <4>1, <4>2
    <3> QED BY <2>4, <3>3
  <2>6. EtxNumbers'
    <3>1. \A i \in 1..Len(tx') : tx'[i].kind = "etx" => tx'[i].n <= sequence
      <4>1. TAKE i \in 1..Len(tx')
      <4>2. CASE i = Len(tx')  BY <1>0, <2>3, <2>4, <4>2
      <4>3. CASE i # Len(tx')  BY <1>0, <2>5, <4>3 DEF EtxNumbers
      <4> QED BY <4>2, <4>3
    <3> QED BY <1>0, <1>12, <2>1, <2>2, <3>1 DEF EtxNumbers
  <2>7. EtxOrder'
    <3>1. \A i \in 1..Len(tx) : tx[i].kind = "etx" => tx[i].n # sequence
      BY <1>0, <1>12, <2>1 DEF EtxNumbers
    <3>2. \A i \in 1..Len(rx) : rx[i].kind = "etx" => rx[i].n # sequence
      BY <1>0, <1>12, <2>1 DEF EtxNumbers
    <3>3. ASSUME NEW i \in 1..Len(tx'), tx'[i].kind = "etx", tx'[i].n = sequence
          PROVE  StarMade' \/ \E k \in 1..(i - 1) : tx'[k].kind = StarDoing' /\ tx'[k].of = job
      <4>1. i = Len(tx')  BY <2>5, <3>1, <3>3
      <4>2. CASE next = "await_cut"
        <5>0. Len(before) = 1  BY <1>12, <4>2
        <5>1. Len(tx) + 1 \in 1..(i - 1)  BY <2>4, <4>1, <5>0
        <5>2. tx'[Len(tx) + 1].kind = "cut" /\ tx'[Len(tx) + 1].of = job
          BY <1>12, <2>4, <4>2
        <5>3. StarDoing' = "cut"  BY <2>1, <4>2 DEF StarDoing
        <5> QED BY <5>1, <5>2, <5>3
      <4>3. CASE next = "await_print"
        <5>1. StarDoing' = "payload"  BY <2>1, <4>3 DEF StarDoing
        <5>2. CASE job \in paper.printed
          <6>1. StarMade'  BY <2>1, <4>3, <5>2 DEF StarMade
          <6> QED BY <6>1
        <5>3. CASE \E k \in 1..Len(tx) : tx[k].kind = "payload" /\ tx[k].of = job
          <6>1. PICK k \in 1..Len(tx) : tx[k].kind = "payload" /\ tx[k].of = job  BY <5>3
          <6>2. k \in 1..(i - 1) /\ tx'[k] = tx[k]  BY <1>12, <2>4, <4>1, <4>3
          <6> QED BY <5>1, <6>1, <6>2
        <5> QED BY <1>12, <4>3, <5>2, <5>3 DEF StarSent
      <4> QED BY <1>12, <4>2, <4>3
    <3> QED BY <2>1, <2>2, <3>2, <3>3 DEF EtxOrder
  <2>8. EtxPaper'  BY <1>0, <1>12, <2>1 DEF EtxPaper, Star!Confirmed
  <2> QED BY <2>6, <2>7, <2>8
<1>13. CASE Star!SendFence("send_print", "await_print", <<>>)
  <2> DEFINE b == <<>>
  <2>1. b \in Seq(StarCommands) /\ Len(b) = 0  BY EmptySeq
  <2>2. Star!SendFence("send_print", "await_print", b) /\ pc = "send_print"
    BY <1>13 DEF Star!SendFence
  <2> HIDE DEF b
  <2>3. Len(b) \in {0, 1} /\ (Len(b) = 1 => b[1].kind # "etx")  BY <2>1
  <2>4. CASE link
    <3>1. StarSent(job)  BY <1>0, <2>2, <2>4 DEF EtxPaper
    <3> QED BY <1>12, <2>1, <2>2, <2>3, <2>4, <3>1
  <2>5. CASE ~link
    <3>1. "send_print" \in StarPlaces \ {"idle"}  BY DEF StarPlaces
    <3> QED BY <1>11, <2>2, <2>5, <3>1
  <2> QED BY <2>4, <2>5
<1>14. CASE Star!SendFence("send_cut", "await_cut", <<[kind |-> "cut", of |-> job]>>)
  <2> DEFINE b == <<[kind |-> "cut", of |-> job]>>
  <2>1. Star!SendFence("send_cut", "await_cut", b) /\ pc = "send_cut"
    BY <1>14 DEF Star!SendFence
  <2>2. job \in Star!Jobs  BY <1>0, <2>1
  <2>3. [kind |-> "cut", of |-> job] \in StarCommands  BY <2>2, StarJobCommands
  <2>4. b \in Seq(StarCommands) /\ Len(b) = 1 /\ b[1].kind = "cut" /\ b[1].of = job  BY <2>3
  <2> HIDE DEF b
  <2>5. Len(b) \in {0, 1} /\ (Len(b) = 1 => b[1].kind # "etx")  BY <2>4
  <2>6. CASE link
    <3>1. job \in paper.printed  BY <1>0, <2>1 DEF EtxPaper
    <3> QED BY <1>12, <2>1, <2>4, <2>5, <2>6, <3>1
  <2>7. CASE ~link
    <3>1. "send_cut" \in StarPlaces \ {"idle"}  BY DEF StarPlaces
    <3> QED BY <1>11, <2>1, <2>7, <3>1
  <2> QED BY <2>6, <2>7
<1>15. ASSUME UNCHANGED <<job, tx, rx, sequence, paper, link>>, fence' = Star!Disarmed,
              pc' \in {"idle", "cut"}
       PROVE  EtxNumbers' /\ EtxOrder'
  <2>1. fence'.etb = FALSE  BY <1>0, <1>15, StarDisarms DEF EtxNumbers
  <2> QED BY <1>0, <1>15, <2>1 DEF EtxNumbers, EtxOrder
<1>16. CASE Star!PrintConfirmed
  <2>1. /\ starOutcome' = [starOutcome EXCEPT ![job] = "PrintConfirmed"]
        /\ pc' \in {"cut", "idle"} /\ fence' = Star!Disarmed /\ pc = "await_print"
        /\ fence.signalled /\ UNCHANGED <<job, tx, rx, sequence, paper, link>>
    BY <1>16 DEF Star!PrintConfirmed, Star!printer
  <2>2. job \in paper.printed  BY <1>0, <2>1 DEF EtxOrder, StarMade
  <2>3. \A j \in Star!Jobs : \/ starOutcome'[j] = starOutcome[j]
                             \/ j = job /\ starOutcome'[j] = "PrintConfirmed"
    BY <1>0, <2>1
  <2>4. EtxPaper'  BY <1>0, <2>1, <2>2, <2>3 DEF EtxPaper, Star!Confirmed
  <2> QED BY <1>15, <2>1, <2>4
<1>17. CASE Star!CutProcessed
  <2>1. /\ fence' = Star!Disarmed /\ Star!Ends("CutProcessed") /\ pc = "await_cut"
        /\ fence.signalled /\ UNCHANGED <<job, tx, rx, sequence, paper, link>>
    BY <1>17 DEF Star!CutProcessed, Star!printer
  <2>2. job \in paper.printed /\ job \in paper.cut
    BY <1>0, <2>1 DEF EtxOrder, EtxPaper, StarMade
  <2>3. \A j \in Star!Jobs : j # job => starOutcome'[j] = starOutcome[j]
    BY <2>1, StarEnds, StarOutcomes
  <2>4. pc' = "idle"  BY <2>1, StarEnds, StarOutcomes
  <2>5. EtxPaper'  BY <1>0, <2>1, <2>2, <2>3, <2>4 DEF EtxPaper, Star!Confirmed
  <2> QED BY <1>15, <2>1, <2>4, <2>5
<1>18. CASE Star!FenceTimesOut
  <2>1. /\ fence' = Star!Disarmed /\ Star!Ends("Unknown")
        /\ UNCHANGED <<job, tx, rx, sequence, paper, link>>
    BY <1>18 DEF Star!FenceTimesOut, Star!printer
  <2> QED BY <1>2, <1>15, <2>1, StarEnds, StarOutcomes
<1> QED BY <1>3, <1>4, <1>5, <1>6, <1>7, <1>9, <1>10, <1>13, <1>14, <1>16, <1>17, <1>18
        DEF Star!Worker

LEMMA EtxStep ==
  ASSUME StarBounds, StarTyped, EtxInv, Star!Next
  PROVE  EtxInv'
<1>1. method' = method
  <2>1. CASE Star!Worker
    BY <2>1 DEF Star!Worker, Star!RunStarJob, Star!SendPreamble, Star!SetBaseline,
                Star!SendPayload, Star!NoFence, Star!Arm, Star!SendFence, Star!PrintConfirmed,
                Star!CutProcessed, Star!FenceTimesOut
  <2>2. CASE Star!OnBytes \/ Star!PrinterActs \/ Star!ForeignEtb \/ Star!LinkDrops
    BY <2>2 DEF Star!OnBytes, Star!PrinterActs, Star!ForeignEtb, Star!LinkDrops, Star!worker
  <2> QED BY <2>1, <2>2 DEF Star!Next
<1>2. CASE method # "StarEtx"  BY <1>1, <1>2 DEF EtxInv
<1>3. CASE method = "StarEtx"
  BY <1>3, EtxWires, EtxWorker DEF Star!Next, EtxInv
<1> QED BY <1>2, <1>3

-----------------------------------------------------------------------------
(* ETB, on an exclusive session in which no job has given up on a fence    *)
(* that the printer had yet to answer.                                     *)

IsFor(c, kind) == c.kind = kind /\ c.of = job
TxNone == Len(tx) = 0
TxOne(a) == Len(tx) = 1 /\ IsFor(tx[1], a)
TxTwo(a, b) == Len(tx) = 2 /\ IsFor(tx[1], a) /\ IsFor(tx[2], b)
TxThree(a, b, c) == Len(tx) = 3 /\ IsFor(tx[1], a) /\ IsFor(tx[2], b) /\ IsFor(tx[3], c)

Quiet == Len(rx) = 0
Printed == job \in paper.printed
HasCut == job \in paper.cut

(* The counter is cleared, or will be before anything else.                *)
Clearing == TxOne("clear") \/ (TxNone /\ etbCount = 0)

PrintsFirst ==
  \/ TxTwo("clear", "payload")
  \/ etbCount = 0 /\ (TxOne("payload") \/ (TxNone /\ Printed))

(* The answer is on its way, or has been heard.                            *)
EtbAnswered(before, after) ==
  \/ Len(rx) = 1 /\ rx[1].kind = "asb" /\ rx[1].n = after /\ counter = before /\ ~fence.signalled
  \/ Quiet /\ counter = after /\ fence.signalled

EtbPrintWaits ==
  \/ /\ counter = 0 /\ ~fence.signalled /\ Quiet
     /\ \/ TxThree("clear", "payload", "etb")
        \/ etbCount = 0 /\ (TxTwo("payload", "etb") \/ (TxOne("etb") /\ Printed))
  \/ TxNone /\ etbCount = 1 /\ Printed /\ EtbAnswered(0, 1)

EtbCutWaits ==
  \/ /\ counter = 1 /\ ~fence.signalled /\ Quiet /\ etbCount = 1
     /\ TxTwo("cut", "etb") \/ (TxOne("etb") /\ HasCut)
  \/ TxNone /\ etbCount = 2 % Modulus /\ HasCut /\ EtbAnswered(1, 2 % Modulus)

EtbPlaces ==
  /\ pc \in {"idle", "preamble"} => TxNone /\ Quiet
  /\ pc = "baseline" => Quiet /\ Clearing
  /\ pc = "payload" => Quiet /\ counter = 0 /\ Clearing
  /\ pc \in {"fence", "send_print"} => Quiet /\ counter = 0 /\ PrintsFirst
  /\ pc \in {"cut", "send_cut"} => Quiet /\ counter = 1 /\ etbCount = 1 /\ TxNone
  /\ pc \in {"cut", "send_cut", "await_cut"} => Printed
  /\ pc = "await_print" => EtbPrintWaits
  /\ pc = "await_cut" => EtbCutWaits

EtbFences ==
  /\ pc \in {"send_print", "await_print"} => fence.outstanding /\ fence.etb /\ fence.expect = 1
  /\ pc \in {"send_cut", "await_cut"}
       => fence.outstanding /\ fence.etb /\ fence.expect = 2 % Modulus
  /\ pc \in {"send_print", "send_cut"} => ~fence.signalled

EtbPaper ==
  \A j \in Star!Jobs : /\ Star!Confirmed(j) => j \in paper.printed
                       /\ starOutcome[j] = "CutProcessed" => j \in paper.cut

Exclusive == ~ghost.owed /\ ghost.foreign = 0 /\ ghost.drops = 0

EtbInv ==
  /\ fence.etb => method = "StarEtb"
  /\ method = "StarEtb" /\ Exclusive => link /\ EtbPlaces /\ EtbFences /\ EtbPaper

LEMMA EtbInit == ASSUME StarBounds, Star!Init PROVE EtbInv
<1>1. /\ pc = "idle" /\ fence.etb = FALSE /\ Len(tx) = 0 /\ Len(rx) = 0 /\ link = TRUE
      /\ starOutcome = [j \in Star!Jobs |-> "none"]
  BY DEF Star!Init, Star!Idle
<1> QED BY <1>1 DEF EtbInv, EtbPlaces, EtbFences, EtbPaper, Star!Confirmed, TxNone, Quiet

LEMMA EtbDone ==
  ASSUME EtbInv
  PROVE  Star!EtbConfirmsItsOwnJob
BY DEF EtbInv, Exclusive, EtbPaper, Star!EtbConfirmsItsOwnJob

(* The printer works off its line.                                         *)
LEMMA LineMoves ==
  ASSUME StarTyped, Star!PrinterActs
  PROVE  /\ ~TxNone
         /\ \A a \in {"clear", "payload", "cut", "etb"} : TxOne(a) => TxNone'
         /\ \A a, b \in {"clear", "payload", "cut", "etb"} : TxTwo(a, b) => TxOne(b)'
         /\ \A a, b, c \in {"clear", "payload", "cut", "etb"} : TxThree(a, b, c) => TxTwo(b, c)'
<1>1. /\ Len(tx) \in Nat \ {0} /\ Len(tx') = Len(tx) - 1
      /\ \A i \in 1..Len(tx') : tx'[i] = tx[i + 1]
      /\ job' = job
  BY StarWorksOff
<1>2. ~TxNone  BY <1>1 DEF TxNone
<1>3. ASSUME NEW a, TxOne(a) PROVE TxNone'  BY <1>1, <1>3 DEF TxOne, TxNone
<1>4. ASSUME NEW a, NEW b, TxTwo(a, b) PROVE TxOne(b)'
  <2>1. Len(tx') = 1 /\ tx'[1] = tx[2]  BY <1>1, <1>4 DEF TxTwo
  <2> QED BY <1>1, <1>4, <2>1 DEF TxTwo, TxOne, IsFor
<1>5. ASSUME NEW a, NEW b, NEW c, TxThree(a, b, c) PROVE TxTwo(b, c)'
  <2>1. Len(tx') = 2 /\ tx'[1] = tx[2] /\ tx'[2] = tx[3]  BY <1>1, <1>5 DEF TxThree
  <2> QED BY <1>1, <1>5, <2>1 DEF TxThree, TxTwo, IsFor
<1> QED BY <1>2, <1>3, <1>4, <1>5

(* What it does with the first of it.                                      *)
LEMMA FirstIsDone ==
  ASSUME StarTyped, Star!PrinterActs, link
  PROVE  /\ paper.printed \subseteq paper'.printed /\ paper.cut \subseteq paper'.cut
         /\ IsFor(tx[1], "clear") => etbCount' = 0 /\ rx' = rx
         /\ IsFor(tx[1], "payload") => etbCount' = etbCount /\ rx' = rx /\ Printed'
         /\ IsFor(tx[1], "cut") => etbCount' = etbCount /\ rx' = rx /\ HasCut'
         /\ IsFor(tx[1], "etb") => /\ etbCount' = (etbCount + 1) % Modulus
                                   /\ Quiet => Len(rx') = 1 /\ rx'[1].kind = "asb"
                                               /\ rx'[1].n = etbCount'
         /\ Printed => Printed'
         /\ HasCut => HasCut'
<1>1. job' = job  BY StarWorksOff
<1>2. paper.printed \subseteq paper'.printed /\ paper.cut \subseteq paper'.cut
  BY StarPaperStays
<1>3. IsFor(tx[1], "clear") => etbCount' = 0 /\ rx' = rx  BY StarWorksOff DEF IsFor
<1>4. IsFor(tx[1], "payload") => etbCount' = etbCount /\ rx' = rx /\ Printed'
  BY <1>1, StarWorksOff, StarPaperStays DEF IsFor, Printed
<1>5. IsFor(tx[1], "cut") => etbCount' = etbCount /\ rx' = rx /\ HasCut'
  BY <1>1, StarWorksOff, StarPaperStays DEF IsFor, HasCut
<1>6. ASSUME IsFor(tx[1], "etb")
      PROVE  /\ etbCount' = (etbCount + 1) % Modulus
             /\ Quiet => Len(rx') = 1 /\ rx'[1].kind = "asb" /\ rx'[1].n = etbCount'
  <2>1. etbCount' = (etbCount + 1) % Modulus  BY <1>6, StarWorksOff DEF IsFor
  <2>2. rx' = Append(rx, Star!Status)  BY <1>6, StarWorksOff DEF IsFor
  <2>3. rx \in Seq(StarFrames)  BY DEF StarTyped, StarWires
  <2>4. /\ Len(rx) \in Nat /\ Len(rx') = Len(rx) + 1 /\ rx'[Len(rx) + 1] = Star!Status
    BY <2>2, <2>3, AppendsAny
  <2>5. Quiet => Len(rx') = 1 /\ rx'[1] = Star!Status  BY <2>4 DEF Quiet
  <2>6. Star!Status.kind = "asb" /\ Star!Status.n = etbCount'  BY DEF Star!Status
  <2> QED BY <2>1, <2>5, <2>6
<1>7. (Printed => Printed') /\ (HasCut => HasCut')  BY <1>1, <1>2 DEF Printed, HasCut
<1> QED BY <1>2, <1>3, <1>4, <1>5, <1>6, <1>7

LEMMA EtbPrinterActs ==
  ASSUME StarBounds, StarTyped, link, EtbPlaces, EtbFences, EtbPaper, Star!PrinterActs
  PROVE  link' /\ EtbPlaces' /\ EtbFences' /\ EtbPaper'
<1>0. UNCHANGED <<method, pc, job, starOutcome, counter, fence, link>> /\ pc \in StarPlaces
  BY StarWorksOff DEF StarTyped, StarWorker
<1>1. EtbFences'  BY <1>0 DEF EtbFences
<1>2. EtbPaper'  BY <1>0, FirstIsDone DEF EtbPaper, Star!Confirmed
<1>3. (0 + 1) % Modulus = 1 /\ (1 + 1) % Modulus = 2 % Modulus
  BY DEF StarBounds
<1>4. CASE pc \in {"idle", "preamble", "cut", "send_cut"}
  BY <1>4, LineMoves DEF EtbPlaces
<1>5. CASE pc \in {"baseline", "payload"}
  <2>1. TxOne("clear")  BY <1>5, LineMoves DEF EtbPlaces, Clearing
  <2>2. TxNone' /\ etbCount' = 0 /\ rx' = rx  BY <2>1, LineMoves, FirstIsDone DEF TxOne
  <2>3. Quiet'  BY <1>5, <2>2 DEF EtbPlaces, Quiet
  <2> QED BY <1>0, <1>1, <1>2, <1>5, <2>2, <2>3 DEF EtbPlaces, Clearing
<1>6. CASE pc \in {"fence", "send_print"}
  <2>1. /\ Quiet /\ counter = 0
        /\ TxTwo("clear", "payload") \/ (etbCount = 0 /\ TxOne("payload"))
    BY <1>6, LineMoves DEF EtbPlaces, PrintsFirst
  <2>2. CASE TxTwo("clear", "payload")
    <3>1. TxOne("payload")' /\ etbCount' = 0 /\ rx' = rx
      BY <2>2, LineMoves, FirstIsDone DEF TxTwo
    <3> QED BY <1>0, <1>1, <1>2, <1>6, <2>1, <3>1 DEF EtbPlaces, PrintsFirst, Quiet
  <2>3. CASE etbCount = 0 /\ TxOne("payload")
    <3>1. TxNone' /\ etbCount' = 0 /\ rx' = rx /\ Printed'
      BY <2>3, LineMoves, FirstIsDone DEF TxOne
    <3> QED BY <1>0, <1>1, <1>2, <1>6, <2>1, <3>1 DEF EtbPlaces, PrintsFirst, Quiet
  <2> QED BY <2>1, <2>2, <2>3
<1>7. CASE pc = "await_print"
  <2>1. /\ counter = 0 /\ ~fence.signalled /\ Quiet
        /\ \/ TxThree("clear", "payload", "etb")
           \/ etbCount = 0 /\ TxTwo("payload", "etb")
           \/ etbCount = 0 /\ TxOne("etb") /\ Printed
    BY <1>7, LineMoves DEF EtbPlaces, EtbPrintWaits
  <2>2. CASE TxThree("clear", "payload", "etb")
    <3>1. TxTwo("payload", "etb")' /\ etbCount' = 0 /\ rx' = rx
      BY <2>2, LineMoves, FirstIsDone DEF TxThree
    <3>2. Quiet'  BY <2>1, <3>1 DEF Quiet
    <3>3. EtbPrintWaits'  BY <1>0, <2>1, <3>1, <3>2 DEF EtbPrintWaits
    <3> QED BY <1>0, <1>1, <1>2, <1>7, <3>3 DEF EtbPlaces
  <2>3. CASE etbCount = 0 /\ TxTwo("payload", "etb")
    <3>1. TxOne("etb")' /\ etbCount' = 0 /\ rx' = rx /\ Printed'
      BY <2>3, LineMoves, FirstIsDone DEF TxTwo
    <3>2. Quiet'  BY <2>1, <3>1 DEF Quiet
    <3>3. EtbPrintWaits'  BY <1>0, <2>1, <3>1, <3>2 DEF EtbPrintWaits
    <3> QED BY <1>0, <1>1, <1>2, <1>7, <3>3 DEF EtbPlaces
  <2>4. CASE etbCount = 0 /\ TxOne("etb") /\ Printed
    <3>1. TxNone' /\ etbCount' = (etbCount + 1) % Modulus /\ Printed'
      BY <2>4, LineMoves, FirstIsDone DEF TxOne
    <3>2. etbCount' = 1  BY <1>3, <2>4, <3>1
    <3>3. Len(rx') = 1 /\ rx'[1].kind = "asb" /\ rx'[1].n = 1
      BY <2>1, <2>4, <3>2, FirstIsDone DEF TxOne
    <3>4. EtbAnswered(0, 1)'  BY <1>0, <2>1, <3>3 DEF EtbAnswered
    <3>5. EtbPrintWaits'  BY <3>1, <3>2, <3>4 DEF EtbPrintWaits
    <3> QED BY <1>0, <1>1, <1>2, <1>7, <3>5 DEF EtbPlaces
  <2> QED BY <2>1, <2>2, <2>3, <2>4
<1>8. CASE pc = "await_cut"
  <2>1. /\ counter = 1 /\ ~fence.signalled /\ Quiet /\ etbCount = 1 /\ Printed
        /\ TxTwo("cut", "etb") \/ (TxOne("etb") /\ HasCut)
    BY <1>8, LineMoves DEF EtbPlaces, EtbCutWaits
  <2>2. Printed'  BY <2>1, FirstIsDone
  <2>3. CASE TxTwo("cut", "etb")
    <3>1. TxOne("etb")' /\ etbCount' = 1 /\ rx' = rx /\ HasCut'
      BY <2>1, <2>3, LineMoves, FirstIsDone DEF TxTwo
    <3>2. Quiet'  BY <2>1, <3>1 DEF Quiet
    <3>3. EtbCutWaits'  BY <1>0, <2>1, <3>1, <3>2 DEF EtbCutWaits
    <3> QED BY <1>0, <1>1, <1>2, <1>8, <2>2, <3>3 DEF EtbPlaces
  <2>4. CASE TxOne("etb") /\ HasCut
    <3>1. TxNone' /\ etbCount' = (etbCount + 1) % Modulus /\ HasCut'
      BY <2>4, LineMoves, FirstIsDone DEF TxOne
    <3>2. etbCount' = 2 % Modulus  BY <1>3, <2>1, <3>1
    <3>3. Len(rx') = 1 /\ rx'[1].kind = "asb" /\ rx'[1].n = 2 % Modulus
      BY <2>1, <2>4, <3>2, FirstIsDone DEF TxOne
    <3>4. EtbAnswered(1, 2 % Modulus)'  BY <1>0, <2>1, <3>3 DEF EtbAnswered
    <3>5. EtbCutWaits'  BY <3>1, <3>2, <3>4 DEF EtbCutWaits
    <3> QED BY <1>0, <1>1, <1>2, <1>8, <2>2, <3>5 DEF EtbPlaces
  <2> QED BY <2>1, <2>3, <2>4
<1> QED BY <1>0, <1>4, <1>5, <1>6, <1>7, <1>8 DEF StarPlaces

(* An answer that is awaited is heard, and taken for what it is.           *)
LEMMA EtbHears ==
  ASSUME StarBounds, StarTyped, link, EtbPlaces, EtbFences, EtbPaper, Star!OnBytes
  PROVE  link' /\ EtbPlaces' /\ EtbFences' /\ EtbPaper'
<1>0. /\ UNCHANGED <<method, pc, job, starOutcome, link, tx, etbCount, paper>>
      /\ fence'.outstanding = fence.outstanding /\ fence'.etb = fence.etb
      /\ fence'.expect = fence.expect
      /\ Len(rx) \in Nat \ {0} /\ Len(rx') = Len(rx) - 1
      /\ counter' = IF rx[1].kind = "asb" THEN rx[1].n ELSE counter
  BY StarReads
<1>1. ~Quiet /\ pc \in StarPlaces  BY <1>0 DEF Quiet, StarTyped, StarWorker
<1>2. pc \in {"await_print", "await_cut"}  BY <1>1 DEF EtbPlaces, StarPlaces
<1>3. EtbFences' /\ EtbPaper'  BY <1>0, <1>2 DEF EtbFences, EtbPaper, Star!Confirmed
<1>4. ASSUME NEW before, NEW after, EtbAnswered(before, after), after # before,
             fence.outstanding, fence.etb, fence.expect = after
      PROVE  Quiet' /\ counter' = after /\ fence'.signalled
  <2>1. Len(rx) = 1 /\ rx[1].kind = "asb" /\ rx[1].n = after /\ counter = before
    BY <1>1, <1>4 DEF EtbAnswered
  <2>2. Quiet' /\ counter' = after  BY <1>0, <2>1 DEF Quiet
  <2>3. fence'.signalled  BY <1>4, <2>1, StarReads
  <2> QED BY <2>2, <2>3
<1>5. TxNone' = TxNone /\ (Printed' <=> Printed) /\ (HasCut' <=> HasCut)
  BY <1>0 DEF TxNone, Printed, HasCut
<1>6. CASE pc = "await_print"
  <2>1. TxNone /\ etbCount = 1 /\ Printed /\ EtbAnswered(0, 1)
    BY <1>1, <1>6 DEF EtbPlaces, EtbPrintWaits
  <2>2. fence.outstanding /\ fence.etb /\ fence.expect = 1  BY <1>6 DEF EtbFences
  <2>3. Quiet' /\ counter' = 1 /\ fence'.signalled  BY <1>4, <2>1, <2>2
  <2>4. EtbAnswered(0, 1)'  BY <2>3 DEF EtbAnswered
  <2>5. EtbPrintWaits'  BY <1>0, <1>5, <2>1, <2>4 DEF EtbPrintWaits
  <2> QED BY <1>0, <1>3, <1>6, <2>5 DEF EtbPlaces
<1>7. CASE pc = "await_cut"
  <2>1. TxNone /\ etbCount = 2 % Modulus /\ HasCut /\ EtbAnswered(1, 2 % Modulus) /\ Printed
    BY <1>1, <1>7 DEF EtbPlaces, EtbCutWaits
  <2>2. fence.outstanding /\ fence.etb /\ fence.expect = 2 % Modulus  BY <1>7 DEF EtbFences
  <2>3. 2 % Modulus # 1
    <3>1. Modulus \in Nat /\ Modulus > 1  BY DEF StarBounds
    <3>2. CASE Modulus = 2  BY <3>2
    <3>3. CASE Modulus > 2  BY <3>1, <3>3
    <3> QED BY <3>1, <3>2, <3>3
  <2>4. Quiet' /\ counter' = 2 % Modulus /\ fence'.signalled  BY <1>4, <2>1, <2>2, <2>3
  <2>5. EtbAnswered(1, 2 % Modulus)'  BY <2>4 DEF EtbAnswered
  <2>6. EtbCutWaits'  BY <1>0, <1>5, <2>1, <2>5 DEF EtbCutWaits
  <2> QED BY <1>0, <1>3, <1>5, <1>7, <2>1, <2>6 DEF EtbPlaces
<1> QED BY <1>2, <1>6, <1>7

(* The worker; the link is up, so every send leaves.                       *)
LEMMA EtbWorker ==
  ASSUME StarBounds, StarTyped, method = "StarEtb", link, EtbPlaces, EtbFences, EtbPaper,
         Star!Worker, ~ghost'.owed
  PROVE  link' /\ EtbPlaces' /\ EtbFences' /\ EtbPaper'
<1>0. /\ pc # "idle" => job \in Star!Jobs
      /\ starOutcome \in [Star!Jobs -> Star!Outcomes]
      /\ Len(tx) \in Nat
  BY LenProperties DEF StarTyped, StarWorker, StarWires
<1>1. CASE Star!RunStarJob
  <2>1. /\ pc = "idle" /\ pc' = "preamble" /\ link' = TRUE
        /\ UNCHANGED <<starOutcome, tx, rx, paper>>
    BY <1>1 DEF Star!RunStarJob, Star!printer
  <2>2. TxNone' /\ Quiet'  BY <2>1 DEF EtbPlaces, TxNone, Quiet
  <2> QED BY <2>1, <2>2 DEF EtbPlaces, EtbFences, EtbPaper, Star!Confirmed
<1>2. CASE Star!SendPreamble
  <2> DEFINE c == [kind |-> "clear", of |-> job]
  <2>1. /\ pc = "preamble" /\ pc' = "baseline" /\ tx' = Append(tx, c)
        /\ UNCHANGED <<job, link, rx, paper, starOutcome>>
    BY <1>2 DEF Star!SendPreamble
  <2>2. c \in StarCommands /\ c.kind = "clear" /\ c.of = job  BY <1>0, <2>1, StarJobCommands
  <2> HIDE DEF c
  <2>3. TxNone /\ Quiet  BY <2>1 DEF EtbPlaces
  <2>4. TxOne("clear")'
    <3>1. Len(tx') = 1 /\ tx'[1] = c  BY <2>1, <2>2, <2>3, StarWrites DEF TxNone
    <3> QED BY <2>1, <2>2, <3>1 DEF TxOne, IsFor
  <2>5. Quiet'  BY <2>1, <2>3 DEF Quiet
  <2> QED BY <2>1, <2>4, <2>5 DEF EtbPlaces, EtbFences, EtbPaper, Star!Confirmed, Clearing
<1>3. CASE Star!SetBaseline
  <2>1. /\ pc = "baseline" /\ pc' = "payload" /\ counter' = 0
        /\ UNCHANGED <<job, link, tx, rx, etbCount, paper, starOutcome>>
    BY <1>3 DEF Star!SetBaseline, Star!printer
  <2>2. Quiet' /\ Clearing'
    BY <2>1 DEF EtbPlaces, Quiet, Clearing, TxOne, TxNone, IsFor
  <2> QED BY <2>1, <2>2 DEF EtbPlaces, EtbFences, EtbPaper, Star!Confirmed
<1>4. CASE Star!SendPayload
  <2>1. /\ pc = "payload" /\ pc' = "fence" /\ tx' = Append(tx, Star!Receipt)
        /\ UNCHANGED <<job, link, rx, counter, etbCount, paper, starOutcome>>
    BY <1>4 DEF Star!SendPayload, Star!io
  <2>2. Star!Receipt \in StarCommands /\ Star!Receipt.kind = "payload" /\ Star!Receipt.of = job
    BY <1>0, <2>1, StarJobCommands DEF Star!Receipt
  <2>3. Quiet /\ counter = 0 /\ Clearing  BY <2>1 DEF EtbPlaces
  <2>4. /\ Len(tx') = Len(tx) + 1 /\ tx'[Len(tx) + 1] = Star!Receipt
        /\ \A i \in 1..Len(tx) : tx'[i] = tx[i]
    BY <2>1, <2>2, StarWrites
  <2>5. PrintsFirst'
    <3>1. CASE TxOne("clear")
      <4>1. TxTwo("clear", "payload")'  BY <2>1, <2>2, <2>4, <3>1 DEF TxOne, TxTwo, IsFor
      <4> QED BY <4>1 DEF PrintsFirst
    <3>2. CASE TxNone /\ etbCount = 0
      <4>1. TxOne("payload")'  BY <2>1, <2>2, <2>4, <3>2 DEF TxOne, TxNone, IsFor
      <4> QED BY <2>1, <3>2, <4>1 DEF PrintsFirst
    <3> QED BY <2>3, <3>1, <3>2 DEF Clearing
  <2>6. Quiet'  BY <2>1, <2>3 DEF Quiet
  <2> QED BY <2>1, <2>3, <2>5, <2>6 DEF EtbPlaces, EtbFences, EtbPaper, Star!Confirmed
<1>5. ~Star!NoFence  BY DEF Star!NoFence
<1>6. CASE Star!Arm("fence", "send_print")
  <2>1. /\ pc = "fence" /\ pc' = "send_print" /\ Star!ArmStarFence
        /\ UNCHANGED <<job, link, tx, rx, counter, etbCount, paper, starOutcome>>
    BY <1>6 DEF Star!Arm, Star!printer
  <2>2. Quiet /\ counter = 0 /\ PrintsFirst  BY <2>1 DEF EtbPlaces
  <2>3. (0 + 1) % Modulus = 1  BY DEF StarBounds
  <2>4. fence'.outstanding /\ fence'.etb /\ fence'.expect = 1 /\ ~fence'.signalled
    BY <2>1, <2>2, <2>3, StarArms
  <2>5. Quiet' /\ PrintsFirst'
    BY <2>1, <2>2 DEF Quiet, PrintsFirst, TxOne, TxTwo, TxNone, IsFor, Printed
  <2> QED BY <2>1, <2>2, <2>4, <2>5 DEF EtbPlaces, EtbFences, EtbPaper, Star!Confirmed
<1>7. CASE Star!Arm("cut", "send_cut")
  <2>1. /\ pc = "cut" /\ pc' = "send_cut" /\ Star!ArmStarFence
        /\ UNCHANGED <<job, link, tx, rx, counter, etbCount, paper, starOutcome>>
    BY <1>7 DEF Star!Arm, Star!printer
  <2>2. Quiet /\ counter = 1 /\ etbCount = 1 /\ TxNone /\ Printed  BY <2>1 DEF EtbPlaces
  <2>3. fence'.outstanding /\ fence'.etb /\ fence'.expect = 2 % Modulus /\ ~fence'.signalled
    <3>1. (IF counter = -1 THEN 0 ELSE counter) + 1 = 2  BY <2>2
    <3>2. fence'.expect = ((IF counter = -1 THEN 0 ELSE counter) + 1) % Modulus
          /\ fence'.outstanding = TRUE /\ fence'.etb = TRUE /\ fence'.signalled = FALSE
      BY <2>1, StarArms
    <3> QED BY <3>1, <3>2
  <2>4. Quiet' /\ TxNone' /\ Printed'  BY <2>1, <2>2 DEF Quiet, TxNone, Printed
  <2> QED BY <2>1, <2>2, <2>3, <2>4 DEF EtbPlaces, EtbFences, EtbPaper, Star!Confirmed
<1>8. CASE Star!SendFence("send_print", "await_print", <<>>)
  <2> DEFINE b == <<>>
             f == Star!FenceBytes
  <2>1. /\ pc = "send_print" /\ pc' = "await_print" /\ tx' = tx \o b \o <<f>>
        /\ UNCHANGED <<job, link, rx, counter, fence, etbCount, paper, starOutcome>>
    BY <1>8 DEF Star!SendFence, Star!io
  <2>2. b \in Seq(StarCommands) /\ Len(b) = 0  BY EmptySeq
  <2> HIDE DEF b
  <2>3. /\ Quiet /\ counter = 0 /\ PrintsFirst /\ fence.outstanding /\ fence.etb
        /\ fence.expect = 1 /\ ~fence.signalled
    BY <2>1 DEF EtbPlaces, EtbFences
  <2>4. f.kind = "etb" /\ f.of = job  BY <1>0, <2>1, <2>3, StarFenceBytes
  <2>5. /\ Len(tx') = Len(tx) + 1 /\ \A i \in 1..Len(tx) : tx'[i] = tx[i]
        /\ tx'[Len(tx) + 1] = f
    <3>1. Len(b) \in {0, 1} /\ job \in Star!Jobs  BY <1>0, <2>1, <2>2
    <3>2. /\ Len(tx') = Len(tx) + Len(b) + 1 /\ \A i \in 1..Len(tx) : tx'[i] = tx[i]
          /\ tx'[Len(tx')] = f
      BY <2>1, <2>2, <3>1, StarFenceWrites
    <3>3. Len(tx') = Len(tx) + 1  BY <1>0, <2>2, <3>2
    <3> QED BY <3>2, <3>3
  <2> HIDE DEF f
  <2>6. /\ TxTwo("clear", "payload") => TxThree("clear", "payload", "etb")'
        /\ TxOne("payload") => TxTwo("payload", "etb")'
        /\ TxNone => TxOne("etb")'
    <3>1. TxTwo("clear", "payload") => TxThree("clear", "payload", "etb")'
      BY <2>1, <2>4, <2>5 DEF TxTwo, TxThree, IsFor
    <3>2. TxOne("payload") => TxTwo("payload", "etb")'
      BY <2>1, <2>4, <2>5 DEF TxTwo, TxOne, IsFor
    <3>3. TxNone => TxOne("etb")'  BY <2>1, <2>4, <2>5 DEF TxNone, TxOne, IsFor
    <3> QED BY <3>1, <3>2, <3>3
  <2>7. Quiet' /\ (Printed' <=> Printed)  BY <2>1, <2>3 DEF Quiet, Printed
  <2>8. EtbPrintWaits'  BY <2>1, <2>3, <2>6, <2>7 DEF PrintsFirst, EtbPrintWaits
  <2> QED BY <2>1, <2>3, <2>8 DEF EtbPlaces, EtbFences, EtbPaper, Star!Confirmed
<1>9. CASE Star!SendFence("send_cut", "await_cut", <<[kind |-> "cut", of |-> job]>>)
  <2> DEFINE b == <<[kind |-> "cut", of |-> job]>>
             f == Star!FenceBytes
  <2>1. /\ pc = "send_cut" /\ pc' = "await_cut" /\ tx' = tx \o b \o <<f>>
        /\ UNCHANGED <<job, link, rx, counter, fence, etbCount, paper, starOutcome>>
    BY <1>9 DEF Star!SendFence, Star!io
  <2>2. [kind |-> "cut", of |-> job] \in StarCommands /\ job \in Star!Jobs
    BY <1>0, <2>1, StarJobCommands
  <2>3. b \in Seq(StarCommands) /\ Len(b) = 1 /\ b[1].kind = "cut" /\ b[1].of = job
    BY <2>2
  <2> HIDE DEF b
  <2>4. /\ Quiet /\ counter = 1 /\ etbCount = 1 /\ TxNone /\ Printed /\ fence.outstanding
        /\ fence.etb /\ fence.expect = 2 % Modulus /\ ~fence.signalled
    BY <2>1 DEF EtbPlaces, EtbFences
  <2>5. f.kind = "etb" /\ f.of = job  BY <2>2, <2>4, StarFenceBytes
  <2>6. Len(tx') = 2 /\ tx'[1] = b[1] /\ tx'[2] = f
    <3>1. Len(b) \in {0, 1}  BY <2>3
    <3>2. /\ Len(tx') = Len(tx) + Len(b) + 1
          /\ Len(b) = 1 => tx'[Len(tx) + 1] = b[1]
          /\ tx'[Len(tx')] = f
      BY <2>1, <2>2, <2>3, <3>1, StarFenceWrites
    <3>3. Len(tx) = 0  BY <2>4 DEF TxNone
    <3> QED BY <2>3, <3>2, <3>3
  <2> HIDE DEF f
  <2>7. TxTwo("cut", "etb")'  BY <2>1, <2>3, <2>5, <2>6 DEF TxTwo, IsFor
  <2>8. Quiet' /\ Printed'  BY <2>1, <2>4 DEF Quiet, Printed
  <2>9. EtbCutWaits'  BY <2>1, <2>4, <2>7, <2>8 DEF EtbCutWaits
  <2> QED BY <2>1, <2>4, <2>8, <2>9 DEF EtbPlaces, EtbFences, EtbPaper, Star!Confirmed
<1>10. CASE Star!PrintConfirmed
  <2>1. /\ pc = "await_print" /\ fence.signalled /\ pc' \in {"cut", "idle"}
        /\ starOutcome' = [starOutcome EXCEPT ![job] = "PrintConfirmed"]
        /\ UNCHANGED <<job, link, tx, rx, counter, etbCount, paper>>
    BY <1>10 DEF Star!PrintConfirmed, Star!printer
  <2>2. TxNone /\ etbCount = 1 /\ Printed /\ Quiet /\ counter = 1
    BY <2>1 DEF EtbPlaces, EtbPrintWaits, EtbAnswered
  <2>3. \A j \in Star!Jobs : \/ starOutcome'[j] = starOutcome[j]
                             \/ j = job /\ starOutcome'[j] = "PrintConfirmed"
    BY <1>0, <2>1
  <2>4. EtbPaper'  BY <2>1, <2>2, <2>3 DEF EtbPaper, Star!Confirmed, Printed
  <2>5. TxNone' /\ Quiet' /\ Printed'  BY <2>1, <2>2 DEF TxNone, Quiet, Printed
  <2> QED BY <2>1, <2>2, <2>4, <2>5 DEF EtbPlaces, EtbFences
<1>11. CASE Star!CutProcessed
  <2>1. /\ pc = "await_cut" /\ fence.signalled /\ Star!Ends("CutProcessed")
        /\ UNCHANGED <<job, link, tx, rx, paper>>
    BY <1>11 DEF Star!CutProcessed, Star!printer
  <2>2. TxNone /\ HasCut /\ Printed /\ Quiet
    BY <2>1 DEF EtbPlaces, EtbCutWaits, EtbAnswered
  <2>3. pc' = "idle" /\ \A j \in Star!Jobs : j # job => starOutcome'[j] = starOutcome[j]
    BY <2>1, StarEnds, StarOutcomes
  <2>4. EtbPaper'  BY <2>1, <2>2, <2>3 DEF EtbPaper, Star!Confirmed, Printed, HasCut
  <2>5. TxNone' /\ Quiet'  BY <2>1, <2>2 DEF TxNone, Quiet
  <2> QED BY <2>1, <2>3, <2>4, <2>5 DEF EtbPlaces, EtbFences
<1>12. CASE Star!FenceTimesOut
  <2>1. /\ pc \in {"await_print", "await_cut"} /\ ~fence.signalled /\ Star!Owes
        /\ UNCHANGED <<tx, rx>>
    BY <1>12 DEF Star!FenceTimesOut, Star!printer
  <2>2. (\A i \in 1..Len(tx) : tx[i].kind \notin {"etb", "etx"}) /\ rx = <<>>
    BY <2>1, StarOwes
  <2>3. Quiet  BY <2>2 DEF Quiet
  <2>4. ~EtbAnswered(0, 1) /\ ~EtbAnswered(1, 2 % Modulus)
    BY <2>1, <2>3 DEF EtbAnswered, Quiet
  <2>5. ~TxThree("clear", "payload", "etb") /\ ~TxOne("etb")
        /\ ~TxTwo("payload", "etb") /\ ~TxTwo("cut", "etb")
    BY <2>2 DEF TxOne, TxTwo, TxThree, IsFor
  <2> QED BY <2>1, <2>4, <2>5 DEF EtbPlaces, EtbPrintWaits, EtbCutWaits
<1> QED BY <1>1, <1>2, <1>3, <1>4, <1>5, <1>6, <1>7, <1>8, <1>9, <1>10, <1>11, <1>12
        DEF Star!Worker

LEMMA EtbStep ==
  ASSUME StarBounds, StarTyped, EtbInv, Star!Next
  PROVE  EtbInv'
<1>1. method' = method
  <2>1. CASE Star!Worker
    BY <2>1 DEF Star!Worker, Star!RunStarJob, Star!SendPreamble, Star!SetBaseline,
                Star!SendPayload, Star!NoFence, Star!Arm, Star!SendFence, Star!PrintConfirmed,
                Star!CutProcessed, Star!FenceTimesOut
  <2>2. CASE Star!OnBytes \/ Star!PrinterActs \/ Star!ForeignEtb \/ Star!LinkDrops
    BY <2>2 DEF Star!OnBytes, Star!PrinterActs, Star!ForeignEtb, Star!LinkDrops, Star!worker
  <2> QED BY <2>1, <2>2 DEF Star!Next
<1>2. fence'.etb => method = "StarEtb"
  <2>1. CASE fence' = fence  BY <2>1 DEF EtbInv
  <2>2. CASE fence' = Star!Disarmed  BY <2>2, StarDisarms DEF EtbInv
  <2>3. CASE Star!ArmStarFence  BY <2>3, StarArms
  <2>4. CASE Star!OnBytes  BY <2>4, StarReads DEF EtbInv
  <2>5. \/ fence' = fence \/ fence' = Star!Disarmed \/ Star!ArmStarFence \/ Star!OnBytes
    <3>1. CASE Star!Worker
      BY <3>1 DEF Star!Worker, Star!RunStarJob, Star!SendPreamble, Star!SetBaseline,
                  Star!SendPayload, Star!NoFence, Star!Arm, Star!SendFence,
                  Star!PrintConfirmed, Star!CutProcessed, Star!FenceTimesOut, Star!io
    <3>2. CASE Star!PrinterActs \/ Star!ForeignEtb \/ Star!LinkDrops
      BY <3>2 DEF Star!PrinterActs, Star!ForeignEtb, Star!LinkDrops, Star!io
    <3> QED BY <3>1, <3>2 DEF Star!Next
  <2> QED BY <2>1, <2>2, <2>3, <2>4, <2>5
<1>3. ASSUME method = "StarEtb", Exclusive'
      PROVE  link' /\ EtbPlaces' /\ EtbFences' /\ EtbPaper'
  <2>0. ghost \in [owed : BOOLEAN, foreign : Nat, drops : Nat]  BY DEF StarTyped, StarWires
  <2>1. CASE ghost' = ghost /\ (Star!Worker \/ Star!OnBytes \/ Star!PrinterActs)
    <3>1. Exclusive  BY <1>3, <2>1 DEF Exclusive
    <3>2. link /\ EtbPlaces /\ EtbFences /\ EtbPaper  BY <1>3, <3>1 DEF EtbInv
    <3>3. ~ghost'.owed  BY <1>3 DEF Exclusive
    <3> QED BY <1>3, <2>1, <3>2, <3>3, EtbHears, EtbPrinterActs, EtbWorker
  <2>2. CASE Star!Owes /\ Star!Worker
    <3>1. Exclusive  BY <1>3, <2>0, <2>2, StarOwes DEF Exclusive
    <3>2. link /\ EtbPlaces /\ EtbFences /\ EtbPaper  BY <1>3, <3>1 DEF EtbInv
    <3>3. ~ghost'.owed  BY <1>3 DEF Exclusive
    <3> QED BY <1>3, <2>2, <3>2, <3>3, EtbWorker
  <2>3. ~Star!ForeignEtb
    <3>1. ASSUME Star!ForeignEtb PROVE FALSE
      <4>1. ghost' = [ghost EXCEPT !.foreign = ghost.foreign + 1]  BY <3>1 DEF Star!ForeignEtb
      <4>2. ghost'.foreign = ghost.foreign + 1 /\ ghost.foreign \in Nat  BY <2>0, <4>1
      <4>3. ghost'.foreign = 0  BY <1>3 DEF Exclusive
      <4> QED BY <4>2, <4>3
    <3> QED BY <3>1
  <2>4. ~Star!LinkDrops
    <3>1. ASSUME Star!LinkDrops PROVE FALSE
      <4>1. ghost' = [ghost EXCEPT !.drops = ghost.drops + 1]  BY <3>1 DEF Star!LinkDrops
      <4>2. ghost'.drops = ghost.drops + 1 /\ ghost.drops \in Nat  BY <2>0, <4>1
      <4>3. ghost'.drops = 0  BY <1>3 DEF Exclusive
      <4> QED BY <4>2, <4>3
    <3> QED BY <3>1
  <2>5. Star!Worker => ghost' = ghost \/ Star!Owes
    BY DEF Star!Worker, Star!RunStarJob, Star!SendPreamble, Star!SetBaseline,
           Star!SendPayload, Star!NoFence, Star!Arm, Star!SendFence, Star!PrintConfirmed,
           Star!CutProcessed, Star!FenceTimesOut
  <2>6. Star!OnBytes \/ Star!PrinterActs => ghost' = ghost
    BY DEF Star!OnBytes, Star!PrinterActs
  <2> QED BY <2>1, <2>2, <2>3, <2>4, <2>5, <2>6 DEF Star!Next
<1> QED BY <1>1, <1>2, <1>3 DEF EtbInv

(* The value awaited is one the counter will take.                         *)
LEMMA OneFenceAhead ==
  ASSUME StarBounds, StarTyped, NEW base \in Nat,
         \/ base = etbCount /\ \A i \in 1..Len(tx) : tx[i].kind # "clear"
         \/ base = 0 /\ tx[1].kind = "clear",
         Len(tx) \in Nat \ {0}, tx[Len(tx)].kind = "etb",
         \A i \in 1..(Len(tx) - 1) : tx[i].kind # "etb"
  PROVE  tx # <<>> /\ Star!SettlesAt((base + 1) % Modulus)
<1> DEFINE last == (base + 1) % Modulus
           f == [i \in 0..Len(tx) |-> IF i = Len(tx) THEN last ELSE IF i = 0 THEN etbCount ELSE base]
<1>1. last \in 0..(Modulus - 1)  BY StarCounts
<1>2. etbCount \in 0..(Modulus - 1) /\ base \in 0..(Modulus - 1) /\ tx \in Seq(StarCommands)
  BY DEF StarTyped, StarWires, StarBounds
<1>3. Len(tx) \in Nat /\ Len(tx) # 0  OBVIOUS
<1>4. tx # <<>>  BY <1>3
<1>5. \A n, c : /\ c.kind = "clear" => Star!Counted(c, n) = 0
                /\ c.kind = "etb" => Star!Counted(c, n) = (n + 1) % Modulus
                /\ c.kind \notin {"clear", "etb"} => Star!Counted(c, n) = n
  BY DEF Star!Counted
<1> HIDE DEF last
<1>6. f \in [0..Len(tx) -> 0..(Modulus - 1)]  BY <1>1, <1>2
<1>7. f[0] = etbCount /\ f[Len(tx)] = last  BY <1>3
<1>8. ASSUME NEW i \in 1..Len(tx) PROVE f[i] = Star!Counted(tx[i], f[i - 1])
  <2>1. i \in 0..Len(tx) /\ i - 1 \in 0..Len(tx) /\ i - 1 # Len(tx)  BY <1>3
  <2>2. CASE i = Len(tx)
    <3>1. f[i] = last /\ tx[i].kind = "etb"  BY <2>1, <2>2
    <3>2. f[i - 1] = base
      <4>1. CASE i = 1
        <5>1. f[i - 1] = etbCount  BY <1>3, <4>1
        <5>2. base = etbCount  BY <2>2, <3>1, <4>1
        <5> QED BY <5>1, <5>2
      <4>2. CASE i # 1  BY <2>1, <4>2
      <4> QED BY <4>1, <4>2
    <3> QED BY <1>5, <3>1, <3>2 DEF last
  <2>3. CASE i # Len(tx)
    <3>1. f[i] = base /\ i \in 1..(Len(tx) - 1)  BY <1>3, <2>1, <2>3
    <3>2. tx[i].kind # "etb"  BY <3>1
    <3>3. CASE tx[i].kind = "clear"
      <4>1. base = 0  BY <3>3
      <4> QED BY <1>5, <3>1, <3>3, <4>1
    <3>4. CASE tx[i].kind # "clear"
      <4>1. f[i - 1] = base
        <5>1. CASE i = 1
          <6>1. f[i - 1] = etbCount  BY <1>3, <5>1
          <6>2. base = etbCount  BY <3>4, <5>1
          <6> QED BY <6>1, <6>2
        <5>2. CASE i # 1  BY <2>1, <5>2
        <5> QED BY <5>1, <5>2
      <4> QED BY <1>5, <3>1, <3>2, <3>4, <4>1
    <3> QED BY <3>3, <3>4
  <2> QED BY <2>2, <2>3
<1> HIDE DEF f
<1>9. Star!SettlesAt(last)  BY <1>6, <1>7, <1>8 DEF Star!SettlesAt
<1> QED BY <1>4, <1>9 DEF last

LEMMA EtbReachable ==
  ASSUME StarBounds, StarTyped, EtbInv
  PROVE  Star!EtbFenceIsReachable
<1>1. SUFFICES ASSUME fence.etb, ~fence.signalled, pc \in {"await_print", "await_cut"}, Exclusive
               PROVE  \/ tx # <<>> /\ Star!SettlesAt(fence.expect)
                      \/ \E i \in 1..Len(rx) : rx[i].kind = "asb" /\ rx[i].n = fence.expect
  BY DEF Star!EtbFenceIsReachable, Exclusive
<1>2. EtbPlaces /\ EtbFences  BY <1>1 DEF EtbInv
<1>3. etbCount \in Nat /\ (0 + 1) % Modulus = 1 /\ (1 + 1) % Modulus = 2 % Modulus
  BY DEF StarTyped, StarWires, StarBounds
<1>4. ASSUME NEW before, NEW after, EtbAnswered(before, after), fence.expect = after
      PROVE  \E i \in 1..Len(rx) : rx[i].kind = "asb" /\ rx[i].n = fence.expect
  <2>1. Len(rx) = 1 /\ rx[1].kind = "asb" /\ rx[1].n = after  BY <1>1, <1>4 DEF EtbAnswered
  <2>2. 1 \in 1..Len(rx)  BY <2>1
  <2> QED BY <1>4, <2>1, <2>2
<1>5. CASE pc = "await_print"
  <2>1. EtbPrintWaits /\ fence.expect = 1  BY <1>2, <1>5 DEF EtbPlaces, EtbFences
  <2>2. CASE TxThree("clear", "payload", "etb")
    <3>1. tx[1].kind = "clear"  BY <2>2 DEF TxThree, IsFor
    <3>2. Len(tx) = 3 /\ tx[Len(tx)].kind = "etb" /\ \A i \in 1..(Len(tx) - 1) : tx[i].kind # "etb"
      BY <2>2 DEF TxThree, IsFor
    <3>3. tx # <<>> /\ Star!SettlesAt((0 + 1) % Modulus)  BY <3>1, <3>2, OneFenceAhead
    <3> QED BY <1>3, <2>1, <3>3
  <2>3. CASE etbCount = 0 /\ TxTwo("payload", "etb")
    <3>1. \A i \in 1..Len(tx) : tx[i].kind # "clear"  BY <2>3 DEF TxTwo, IsFor
    <3>2. Len(tx) = 2 /\ tx[Len(tx)].kind = "etb" /\ \A i \in 1..(Len(tx) - 1) : tx[i].kind # "etb"
      BY <2>3 DEF TxTwo, IsFor
    <3>3. tx # <<>> /\ Star!SettlesAt((0 + 1) % Modulus)  BY <2>3, <3>1, <3>2, OneFenceAhead
    <3> QED BY <1>3, <2>1, <3>3
  <2>4. CASE etbCount = 0 /\ TxOne("etb")
    <3>1. \A i \in 1..Len(tx) : tx[i].kind # "clear"  BY <2>4 DEF TxOne, IsFor
    <3>2. Len(tx) = 1 /\ tx[Len(tx)].kind = "etb" /\ \A i \in 1..(Len(tx) - 1) : tx[i].kind # "etb"
      BY <2>4 DEF TxOne, IsFor
    <3>3. tx # <<>> /\ Star!SettlesAt((0 + 1) % Modulus)  BY <2>4, <3>1, <3>2, OneFenceAhead
    <3> QED BY <1>3, <2>1, <3>3
  <2>5. CASE EtbAnswered(0, 1)  BY <1>4, <2>1, <2>5
  <2> QED BY <2>1, <2>2, <2>3, <2>4, <2>5 DEF EtbPrintWaits
<1>6. CASE pc = "await_cut"
  <2>1. EtbCutWaits /\ fence.expect = 2 % Modulus  BY <1>2, <1>6 DEF EtbPlaces, EtbFences
  <2>2. CASE etbCount = 1 /\ TxTwo("cut", "etb")
    <3>1. \A i \in 1..Len(tx) : tx[i].kind # "clear"  BY <2>2 DEF TxTwo, IsFor
    <3>2. Len(tx) = 2 /\ tx[Len(tx)].kind = "etb" /\ \A i \in 1..(Len(tx) - 1) : tx[i].kind # "etb"
      BY <2>2 DEF TxTwo, IsFor
    <3>3. tx # <<>> /\ Star!SettlesAt((1 + 1) % Modulus)  BY <2>2, <3>1, <3>2, OneFenceAhead
    <3> QED BY <1>3, <2>1, <3>3
  <2>3. CASE etbCount = 1 /\ TxOne("etb")
    <3>1. \A i \in 1..Len(tx) : tx[i].kind # "clear"  BY <2>3 DEF TxOne, IsFor
    <3>2. Len(tx) = 1 /\ tx[Len(tx)].kind = "etb" /\ \A i \in 1..(Len(tx) - 1) : tx[i].kind # "etb"
      BY <2>3 DEF TxOne, IsFor
    <3>3. tx # <<>> /\ Star!SettlesAt((1 + 1) % Modulus)  BY <2>3, <3>1, <3>2, OneFenceAhead
    <3> QED BY <1>3, <2>1, <3>3
  <2>4. CASE EtbAnswered(1, 2 % Modulus)  BY <1>4, <2>1, <2>4
  <2> QED BY <2>1, <2>2, <2>3, <2>4 DEF EtbCutWaits
<1> QED BY <1>1, <1>5, <1>6

(* The Star path as a whole.                                               *)
StarInv == StarTyped /\ StarFresh /\ StarReceipts /\ EtxInv /\ EtbInv

LEMMA StarInit == ASSUME StarBounds, Star!Init PROVE StarInv
<1>1. StarFresh  BY DEF Star!Init, StarFresh
<1> QED BY <1>1, StarTypedInit, StarReceiptsInit, EtxInit, EtbInit DEF StarInv

LEMMA StarStep ==
  ASSUME StarBounds, StarInv, [Star!Next]_(Star!vars)
  PROVE  StarInv'
<1>1. CASE Star!Next
  <2>1. StarTyped'
    BY <1>1, StarWorkerTyped, StarWiresTyped DEF StarInv, Star!Next
  <2>2. StarFresh' /\ StarReceipts'
    BY <1>1, StarFreshStep, StarReceiptsStep DEF StarInv
  <2>3. EtxInv' /\ EtbInv'  BY <1>1, EtxStep, EtbStep DEF StarInv
  <2> QED BY <2>1, <2>2, <2>3 DEF StarInv
<1>2. CASE UNCHANGED Star!vars
  <2>1. UNCHANGED <<method, pc, job, cuts, starOutcome, counter, fence, sequence, link, tx,
                    etbCount, rx, paper, ghost>>
    BY <1>2 DEF Star!vars, Star!worker, Star!io, Star!printer
  <2>2. StarTyped'  BY <2>1 DEF StarInv, StarTyped, StarWorker, StarIo, StarWires
  <2>3. StarFresh' /\ StarReceipts'
    BY <2>1 DEF StarInv, StarFresh, StarReceipts, StarSent
  <2>4. EtxInv'
    BY <2>1 DEF StarInv, EtxInv, EtxNumbers, EtxOrder, EtxPaper, StarMade, StarDoing, StarSent,
                Star!Confirmed
  <2>5. EtbPlaces' = EtbPlaces
    BY <2>1 DEF EtbPlaces, EtbPrintWaits, EtbCutWaits, EtbAnswered, PrintsFirst, Clearing,
                TxNone, TxOne, TxTwo, TxThree, IsFor, Quiet, Printed, HasCut
  <2>6. EtbInv'
    BY <2>1, <2>5 DEF StarInv, EtbInv, EtbFences, EtbPaper, Exclusive, Star!Confirmed
  <2> QED BY <2>2, <2>3, <2>4, <2>6 DEF StarInv
<1> QED BY <1>1, <1>2

LEMMA StarPromises ==
  ASSUME StarBounds, StarInv
  PROVE  /\ Star!TypeOK /\ Star!EtxConfirmsItsOwnJob /\ Star!EtbConfirmsItsOwnJob
         /\ Star!EtbFenceIsReachable /\ Star!FailedKnownPrintedNothing
<1>1. Star!EtxConfirmsItsOwnJob  BY EtxDone DEF StarInv, Star!EtxConfirmsItsOwnJob
<1> QED BY <1>1, StarTypes, EtbDone, EtbReachable, StarFailsClean DEF StarInv
-----------------------------------------------------------------------------
(* The cash drawer. What the switch says can be believed for the sequence  *)
(* that asked, because a question is answered within its poll or never:    *)
(* DrawerPolls says where the one outstanding answer is, and DrawerHeard   *)
(* that the levels a running sequence holds were all measured since it     *)
(* began, so that "low" means the drawer has been shut since then, and     *)
(* "high" that it has been out.                                            *)

DrawerReplies == [kind : {"level", "asb"}, level : Drawer!Levels, fresh : BOOLEAN]
DrawerWaits == {"before", "watch", "read"}
DrawerSteps_ == {"start", "idle", "ask_before", "cool", "ask", "judge"} \cup DrawerWaits
DrawerSeqs ==
  [calibrated : BOOLEAN, before : Drawer!Levels \cup {"none"}, polls : 0..MaxDrawerPolls,
   answered : BOOLEAN]
DrawerResults ==
  [state : Drawer!States \cup {"none"}, previous : Drawer!States \cup {"none"}, pulse : BOOLEAN]

DrawerHost ==
  /\ caps \in Drawer!DrawerCapabilities /\ polarity \in BOOLEAN /\ stored \in BOOLEAN
  /\ step \in DrawerSteps_ /\ seq \in DrawerSeqs /\ result \in DrawerResults
  /\ pin \in Drawer!Levels \cup {"none"} /\ answers \in Seq(Drawer!Levels)
  /\ pulsed \in BOOLEAN
  /\ step \in {"ask_before", "before", "cool"} => seq.polls = 0
  /\ step = "ask" => seq.polls < MaxDrawerPolls
DrawerWorld ==
  /\ port \in BOOLEAN /\ replies \in Seq(DrawerReplies)
  /\ open \in BOOLEAN /\ facts \in Drawer!Ghosts

\* A coil that a sequence energised last is one this process remembers having pulsed.
DrawerCoil == coil \in {"cold", "own", "other"} /\ (coil = "own" => pulsed)

DrawerTyped == DrawerHost /\ DrawerWorld /\ DrawerCoil

DrawerBounds == MaxDrawerPolls \in Nat /\ MaxDrawerPolls > 0 /\ MaxOperations \in Nat

(* A sequence that starts, with a profile's copy of the polarity.          *)
LEMMA DrawerBlank ==
  ASSUME DrawerBounds, NEW p \in BOOLEAN
  PROVE  /\ [Drawer!Blank EXCEPT !.calibrated = p] \in DrawerSeqs
         /\ [Drawer!Blank EXCEPT !.calibrated = p].before = "none"
         /\ [Drawer!Blank EXCEPT !.calibrated = p].polls = 0
         /\ Drawer!Blank \in DrawerSeqs /\ Drawer!Blank.before = "none" /\ Drawer!Blank.polls = 0
         /\ Drawer!NoResult \in DrawerResults
<1>1. Drawer!NoResult \in DrawerResults BY DEF Drawer!NoResult, DrawerResults
<1>2. Drawer!Blank \in DrawerSeqs /\ Drawer!Blank.before = "none" /\ Drawer!Blank.polls = 0
  BY DEF DrawerBounds, Drawer!Blank, DrawerSeqs
<1>3. ASSUME NEW b \in DrawerSeqs
      PROVE  /\ [b EXCEPT !.calibrated = p] \in DrawerSeqs
             /\ [b EXCEPT !.calibrated = p].before = b.before
             /\ [b EXCEPT !.calibrated = p].polls = b.polls
  BY DEF DrawerSeqs
<1> QED BY <1>1, <1>2, <1>3

(* What is known of the switch when an operation begins is where it is.    *)
LEMMA DrawerBegins ==
  ASSUME DrawerTyped, facts.tasks < MaxOperations, DrawerBounds
  PROVE  /\ Drawer!Begin \in Drawer!Ghosts
         /\ (Drawer!Begin.opened <=> open) /\ (Drawer!Begin.closed <=> ~open)
         /\ (Drawer!Begin.bad <=> facts.bad) /\ (Drawer!Begin.buzzed <=> facts.buzzed)
<1>1. facts.tasks + 1 \in 0..MaxOperations
  BY DEF DrawerTyped, DrawerWorld, Drawer!Ghosts, DrawerBounds
<1>2. (~open) \in BOOLEAN OBVIOUS
<1>3. ASSUME NEW f \in Drawer!Ghosts, NEW n \in 0..MaxOperations, NEW o \in BOOLEAN,
             NEW c \in BOOLEAN
      PROVE  /\ [f EXCEPT !.tasks = n, !.opened = o, !.closed = c, !.measured = FALSE] \in Drawer!Ghosts
  BY DEF Drawer!Ghosts
<1>4. facts \in Drawer!Ghosts /\ open \in BOOLEAN BY DEF DrawerTyped, DrawerWorld
<1>5. Drawer!Begin \in Drawer!Ghosts BY <1>1, <1>2, <1>3, <1>4 DEF Drawer!Begin
<1> QED BY <1>4, <1>5 DEF Drawer!Begin, Drawer!Ghosts

LEMMA DrawerTypedInit == ASSUME DrawerBounds, Drawer!Init PROVE DrawerTyped
<1>1. facts \in Drawer!Ghosts BY DEF Drawer!Init, Drawer!Ghosts, DrawerBounds
<1>2. <<>> \in Seq(Drawer!Levels) /\ <<>> \in Seq(DrawerReplies) OBVIOUS
<1>3. seq \in DrawerSeqs /\ result \in DrawerResults BY DrawerBlank DEF Drawer!Init
<1> QED BY <1>1, <1>2, <1>3
        DEF Drawer!Init, DrawerTyped, DrawerHost, DrawerWorld, DrawerCoil, DrawerSteps_

(* What each action that moves the drawer, or hears of it, leaves behind.  *)
LEMMA DrawerPulses ==
  ASSUME DrawerTyped, Drawer!Pulse
  PROVE  /\ facts' \in Drawer!Ghosts /\ open' \in BOOLEAN /\ (open => open')
         /\ (facts'.opened <=> facts.opened \/ open') /\ (facts'.closed <=> facts.closed)
         /\ (facts'.bad <=> facts.bad)
         /\ facts'.buzzed => \/ facts.buzzed
                             \/ seq.calibrated /\ seq.before # "none" /\ ~facts.closed
<1>1. facts \in Drawer!Ghosts /\ open \in BOOLEAN /\ port \in BOOLEAN
  BY DEF DrawerTyped, DrawerWorld
<1>2. PICK arrived \in {TRUE, port} : Drawer!Energise(arrived) BY DEF Drawer!Pulse
<1> DEFINE hot == arrived /\ caps.cooldown /\ coil = "own"
           out == arrived /\ seq.calibrated /\ seq.before # "none" /\ ~facts.closed
           bad == facts.bad \/ hot
           buzzed == facts.buzzed \/ out
           opened == facts.opened \/ open'
<1>3. ~hot BY DEF Drawer!Pulse, DrawerTyped, DrawerCoil
<1>4. open' \in BOOLEAN /\ (open => open') BY <1>1, <1>2 DEF Drawer!Energise
<1>5. facts' = [facts EXCEPT !.bad = bad, !.buzzed = buzzed, !.opened = opened, !.measured = FALSE]
  BY <1>2 DEF Drawer!Energise
<1>6. bad \in BOOLEAN /\ buzzed \in BOOLEAN /\ opened \in BOOLEAN OBVIOUS
<1>7. ASSUME NEW b \in BOOLEAN, NEW z \in BOOLEAN, NEW o \in BOOLEAN,
             facts' = [facts EXCEPT !.bad = b, !.buzzed = z, !.opened = o, !.measured = FALSE]
      PROVE  /\ facts' \in Drawer!Ghosts
             /\ (facts'.opened <=> o) /\ (facts'.closed <=> facts.closed)
             /\ (facts'.bad <=> b) /\ (facts'.buzzed <=> z)
  BY <1>1, <1>7 DEF Drawer!Ghosts
<1> HIDE DEF bad, buzzed, opened
<1>8. /\ facts' \in Drawer!Ghosts
      /\ (facts'.opened <=> opened) /\ (facts'.closed <=> facts.closed) /\ (facts'.bad <=> bad)
      /\ (facts'.buzzed <=> buzzed)
  BY ONLY <1>5, <1>6, <1>7, Zenon
<1> QED BY <1>3, <1>4, <1>8 DEF bad, buzzed, opened

LEMMA DrawerMoves ==
  ASSUME DrawerTyped, Drawer!SwitchMoves
  PROVE  /\ facts' \in Drawer!Ghosts /\ open' \in BOOLEAN /\ (open' <=> ~open)
         /\ (facts'.opened <=> facts.opened \/ open') /\ (facts'.closed <=> facts.closed \/ ~open')
         /\ (facts'.bad <=> facts.bad) /\ (facts'.buzzed <=> facts.buzzed)
<1> DEFINE closed == facts.closed \/ ~open'
           opened == facts.opened \/ open'
<1>1. facts \in Drawer!Ghosts /\ open \in BOOLEAN BY DEF DrawerTyped, DrawerWorld
<1>2. open' \in BOOLEAN /\ (open' <=> ~open) BY <1>1 DEF Drawer!SwitchMoves
<1>4. facts' = [facts EXCEPT !.opened = opened, !.closed = closed]
  BY DEF Drawer!SwitchMoves
<1>5. closed \in BOOLEAN /\ opened \in BOOLEAN OBVIOUS
<1>6. ASSUME NEW f \in Drawer!Ghosts, NEW o \in BOOLEAN, NEW c \in BOOLEAN,
             NEW g, g = [f EXCEPT !.opened = o, !.closed = c]
      PROVE  /\ g \in Drawer!Ghosts
             /\ (g.opened <=> o) /\ (g.closed <=> c) /\ (g.bad <=> f.bad)
             /\ (g.buzzed <=> f.buzzed)
  BY <1>6 DEF Drawer!Ghosts
<1> HIDE DEF closed, opened
<1>7. /\ facts' \in Drawer!Ghosts
      /\ (facts'.opened <=> opened) /\ (facts'.closed <=> closed)
      /\ (facts'.bad <=> facts.bad) /\ (facts'.buzzed <=> facts.buzzed)
  BY <1>1, <1>4, <1>5, <1>6
<1> QED BY <1>2, <1>7 DEF closed, opened

LEMMA DrawerKicked ==
  ASSUME DrawerTyped, DrawerBounds, Drawer!OpenCashDrawer
  PROVE  /\ facts' \in Drawer!Ghosts /\ open' \in BOOLEAN /\ (open => open')
         /\ (facts'.opened <=> open') /\ (facts'.closed <=> ~open)
         /\ (facts'.bad <=> facts.bad) /\ (facts'.buzzed <=> facts.buzzed)
<1> DEFINE begun == Drawer!Begin
           opened == begun.opened \/ open'
<1>1. open \in BOOLEAN /\ facts.tasks < MaxOperations
  BY DEF DrawerTyped, DrawerWorld, Drawer!OpenCashDrawer
<1>2. open' \in BOOLEAN /\ (open => open') BY <1>1 DEF Drawer!OpenCashDrawer
<1>3. /\ begun \in Drawer!Ghosts /\ (begun.opened <=> open) /\ (begun.closed <=> ~open)
      /\ (begun.bad <=> facts.bad) /\ (begun.buzzed <=> facts.buzzed)
  BY <1>1, DrawerBegins
<1>4. facts' = [begun EXCEPT !.opened = opened] BY DEF Drawer!OpenCashDrawer
<1>5. opened \in BOOLEAN OBVIOUS
<1>6. ASSUME NEW f \in Drawer!Ghosts, NEW o \in BOOLEAN, NEW g, g = [f EXCEPT !.opened = o]
      PROVE  /\ g \in Drawer!Ghosts
             /\ (g.opened <=> o) /\ (g.closed <=> f.closed) /\ (g.bad <=> f.bad)
             /\ (g.buzzed <=> f.buzzed)
  BY <1>6 DEF Drawer!Ghosts
<1> HIDE DEF begun, opened
<1>7. /\ facts' \in Drawer!Ghosts
      /\ (facts'.opened <=> opened) /\ (facts'.closed <=> begun.closed)
      /\ (facts'.bad <=> begun.bad) /\ (facts'.buzzed <=> begun.buzzed)
  BY <1>3, <1>4, <1>5, <1>6
<1> QED BY <1>2, <1>3, <1>7 DEF opened

LEMMA DrawerHears ==
  ASSUME DrawerTyped, Drawer!OnBytes
  PROVE  /\ facts' \in Drawer!Ghosts
         /\ (facts'.opened <=> facts.opened) /\ (facts'.closed <=> facts.closed)
         /\ (facts'.bad <=> facts.bad) /\ (facts'.buzzed <=> facts.buzzed)
         /\ Len(replies) > 0 /\ Len(replies') = Len(replies) - 1 /\ replies' \in Seq(DrawerReplies)
         /\ \A i \in 1..Len(replies') : i + 1 \in 1..Len(replies) /\ replies'[i] = replies[i + 1]
         /\ replies[1] \in DrawerReplies /\ Head(replies) = replies[1]
<1>1. facts \in Drawer!Ghosts /\ replies \in Seq(DrawerReplies) BY DEF DrawerTyped, DrawerWorld
<1>2. replies # <<>> /\ replies' = Tail(replies) BY DEF Drawer!OnBytes
<1>3. ASSUME NEW f \in Drawer!Ghosts, NEW m \in BOOLEAN, NEW g, g = [f EXCEPT !.measured = m]
      PROVE  /\ g \in Drawer!Ghosts
             /\ (g.opened <=> f.opened) /\ (g.closed <=> f.closed) /\ (g.bad <=> f.bad)
             /\ (g.buzzed <=> f.buzzed)
  BY <1>3 DEF Drawer!Ghosts
<1> DEFINE m == facts.measured \/ Head(replies).fresh
<1>4. m \in BOOLEAN /\ facts' = [facts EXCEPT !.measured = m] BY DEF Drawer!OnBytes
<1> HIDE DEF m
<1>5. /\ facts' \in Drawer!Ghosts
      /\ (facts'.opened <=> facts.opened) /\ (facts'.closed <=> facts.closed)
      /\ (facts'.bad <=> facts.bad) /\ (facts'.buzzed <=> facts.buzzed)
  BY <1>1, <1>3, <1>4
<1>6. Len(replies) > 0 /\ Len(replies') = Len(replies) - 1 /\ replies' \in Seq(DrawerReplies)
  BY <1>1, <1>2
<1>7. \A i \in 1..Len(replies') : i + 1 \in 1..Len(replies) /\ replies'[i] = replies[i + 1]
  BY <1>1, <1>2, <1>6
<1>8. replies[1] \in DrawerReplies /\ Head(replies) = replies[1] BY <1>1, <1>6
<1> QED BY <1>5, <1>6, <1>7, <1>8

(* Nothing heard and nothing on its way.                                   *)
LEMMA DrawerNone == <<>> \in Seq(Drawer!Levels) /\ <<>> \in Seq(DrawerReplies)
OBVIOUS

(* A reply is put behind those already on their way.                       *)
LEMMA DrawerSays ==
  ASSUME DrawerTyped, NEW k \in {"level", "asb"}, NEW o \in BOOLEAN, NEW f \in BOOLEAN,
         replies' = Append(replies, [kind |-> k, level |-> Drawer!LevelOf(o), fresh |-> f])
  PROVE  /\ replies' \in Seq(DrawerReplies) /\ Len(replies) \in Nat
         /\ Len(replies') = Len(replies) + 1
         /\ \A i \in 1..Len(replies) : replies'[i] = replies[i]
         /\ replies'[Len(replies')].kind = k /\ replies'[Len(replies')].level = Drawer!LevelOf(o)
<1> DEFINE r == [kind |-> k, level |-> Drawer!LevelOf(o), fresh |-> f]
<1>1. r \in DrawerReplies BY DEF DrawerReplies, Drawer!LevelOf, Drawer!Levels
<1>2. r.kind = k /\ r.level = Drawer!LevelOf(o) OBVIOUS
<1> HIDE DEF r
<1>3. replies \in Seq(DrawerReplies) BY DEF DrawerTyped, DrawerWorld
<1>4. replies' = Append(replies, r) BY DEF r
<1> QED BY ONLY <1>1, <1>2, <1>3, <1>4

LEMMA DrawerMovesSay ==
  ASSUME DrawerTyped, Drawer!SwitchMoves
  PROVE  \/ replies' = replies
         \/ /\ port /\ replies' \in Seq(DrawerReplies) /\ Len(replies) \in Nat
            /\ Len(replies') = Len(replies) + 1
            /\ \A i \in 1..Len(replies) : replies'[i] = replies[i]
            /\ replies'[Len(replies')].kind = "asb"
            /\ replies'[Len(replies')].level = Drawer!LevelOf(open')
<1> DEFINE f == step \in {"ask", "watch", "judge"}
<1>1. f \in BOOLEAN /\ open' \in BOOLEAN BY DrawerMoves
<1>2. \/ replies' = replies
      \/ port /\ replies' = Append(replies, [kind |-> "asb", level |-> Drawer!LevelOf(open'),
                                             fresh |-> f])
  BY DEF Drawer!SwitchMoves
<1> HIDE DEF f
<1> QED BY <1>1, <1>2, DrawerSays

LEMMA DrawerAnswersSay ==
  ASSUME DrawerTyped, Drawer!PrinterAnswers
  PROVE  \/ replies' = replies
         \/ /\ port /\ replies' \in Seq(DrawerReplies) /\ Len(replies) \in Nat
            /\ Len(replies') = Len(replies) + 1
            /\ \A i \in 1..Len(replies) : replies'[i] = replies[i]
            /\ replies'[Len(replies')].kind = "level"
            /\ replies'[Len(replies')].level = Drawer!LevelOf(open)
<1> DEFINE f == step \in {"ask", "watch", "judge"}
<1>1. f \in BOOLEAN /\ open \in BOOLEAN BY DEF DrawerTyped, DrawerWorld
<1>2. \/ replies' = replies
      \/ port /\ replies' = Append(replies, [kind |-> "level", level |-> Drawer!LevelOf(open),
                                             fresh |-> f])
  BY DEF Drawer!PrinterAnswers, Drawer!Sends
<1> HIDE DEF f
<1> QED BY <1>1, <1>2, DrawerSays

(* The printer's side keeps its types.                                     *)
LEMMA DrawerWorldStep ==
  ASSUME DrawerBounds, DrawerTyped, Drawer!Next PROVE DrawerWorld'
<1>1. CASE UNCHANGED <<port, replies, open, facts>> BY <1>1 DEF DrawerTyped, DrawerWorld
<1>2. CASE Drawer!OpenDrawerRefused \/ Drawer!OpenDrawerUnreachable \/ Drawer!OpenDrawer
           \/ Drawer!ReadDrawerSensor
  <2>1. UNCHANGED <<port, replies, open>> /\ facts' = Drawer!Begin /\ facts.tasks < MaxOperations
    BY <1>2 DEF Drawer!OpenDrawerRefused, Drawer!OpenDrawerUnreachable, Drawer!OpenDrawer,
                Drawer!ReadDrawerSensor
  <2> QED BY <2>1, DrawerBegins DEF DrawerTyped, DrawerWorld
<1>3. CASE Drawer!Pulse
  BY <1>3, DrawerPulses DEF Drawer!Pulse, DrawerTyped, DrawerWorld
<1>4. CASE Drawer!OpenCashDrawer
  BY <1>4, DrawerKicked DEF Drawer!OpenCashDrawer, DrawerTyped, DrawerWorld
<1>5. CASE Drawer!Restart
  <2>1. /\ port' = TRUE /\ replies' = <<>> /\ open' = open /\ facts' = Drawer!Begin
        /\ facts.tasks < MaxOperations
    BY <1>5 DEF Drawer!Restart
  <2> QED BY <2>1, DrawerBegins DEF DrawerTyped, DrawerWorld
<1>6. CASE Drawer!OnBytes
  BY <1>6, DrawerHears DEF Drawer!OnBytes, DrawerTyped, DrawerWorld
<1>7. CASE Drawer!PrinterAnswers
  BY <1>7, DrawerAnswersSay DEF Drawer!PrinterAnswers, Drawer!host, DrawerTyped, DrawerWorld
<1>8. CASE Drawer!SwitchMoves
  <2>1. facts' \in Drawer!Ghosts /\ open' \in BOOLEAN BY <1>8, DrawerMoves
  <2>2. replies' \in Seq(DrawerReplies) BY <1>8, DrawerMovesSay DEF DrawerTyped, DrawerWorld
  <2>3. port' = port BY <1>8 DEF Drawer!SwitchMoves
  <2> QED BY <2>1, <2>2, <2>3 DEF DrawerTyped, DrawerWorld
<1>9. CASE Drawer!LinkDrops \/ Drawer!LinkReturns
  <2>1. port' \in BOOLEAN /\ UNCHANGED <<open, facts>>
    BY <1>9 DEF Drawer!LinkDrops, Drawer!LinkReturns
  <2>2. replies' = <<>> \/ replies' = replies BY <1>9 DEF Drawer!LinkDrops, Drawer!LinkReturns
  <2>3. replies' \in Seq(DrawerReplies) BY <2>2, DrawerNone DEF DrawerTyped, DrawerWorld
  <2> QED BY <2>1, <2>3 DEF DrawerTyped, DrawerWorld
<1>10. CASE Drawer!AskBefore \/ Drawer!Ask
  BY <1>10 DEF Drawer!AskBefore, Drawer!Ask, Drawer!SendPoll, DrawerTyped, DrawerWorld
<1>11. CASE \/ Drawer!ApplyStoredDrawerPolarity \/ Drawer!BeforeAnswered \/ Drawer!BeforeTimesOut
            \/ Drawer!WatchAnswered \/ Drawer!WatchTimesOut \/ Drawer!Judge \/ Drawer!ReadAnswered
            \/ Drawer!CalibrateDrawerPolarity \/ Drawer!CooldownPasses \/ Drawer!CoilCools
  BY <1>1, <1>11 DEF Drawer!ApplyStoredDrawerPolarity, Drawer!BeforeAnswered, Drawer!BeforeTimesOut,
         Drawer!WatchAnswered, Drawer!WatchTimesOut, Drawer!Judge, Drawer!ReadAnswered,
         Drawer!CalibrateDrawerPolarity, Drawer!CooldownPasses, Drawer!CoilCools, Drawer!world
<1> QED BY <1>2, <1>3, <1>4, <1>5, <1>6, <1>7, <1>8, <1>9, <1>10, <1>11
        DEF Drawer!Next, Drawer!Sequence, Drawer!Callers, Drawer!Environment

(* A coil is "own" only from a pulse that pulsed remembers, and until the  *)
(* cooldown that both forget, or another's pulse or a restart comes.       *)
LEMMA DrawerCoilStep ==
  ASSUME DrawerTyped, Drawer!Next PROVE DrawerCoil'
<1>1. DrawerCoil BY DEF DrawerTyped
<1>2. CASE UNCHANGED <<pulsed, coil>> BY <1>1, <1>2 DEF DrawerCoil
<1>3. CASE Drawer!Pulse
  <2>1. (pulsed' = TRUE) /\ (coil' = "own" \/ coil' = coil) BY <1>3 DEF Drawer!Pulse, Drawer!Energise
  <2> QED BY <1>1, <2>1 DEF DrawerCoil
<1>4. CASE Drawer!OpenCashDrawer BY <1>4 DEF Drawer!OpenCashDrawer, DrawerCoil
<1>5. CASE Drawer!Restart BY <1>1, <1>5 DEF Drawer!Restart, DrawerCoil
<1>6. CASE Drawer!CooldownPasses
  <2>1. coil' # "own" /\ (coil' = "cold" \/ coil' = coil) BY <1>6 DEF Drawer!CooldownPasses
  <2> QED BY <1>1, <2>1 DEF DrawerCoil
<1>7. CASE Drawer!CoilCools BY <1>7 DEF Drawer!CoilCools, DrawerCoil
<1>8. CASE \/ Drawer!ApplyStoredDrawerPolarity \/ Drawer!AskBefore \/ Drawer!BeforeAnswered
           \/ Drawer!BeforeTimesOut \/ Drawer!Ask \/ Drawer!WatchAnswered \/ Drawer!WatchTimesOut
           \/ Drawer!Judge \/ Drawer!ReadAnswered
  BY <1>2, <1>8 DEF Drawer!ApplyStoredDrawerPolarity, Drawer!AskBefore, Drawer!BeforeAnswered,
         Drawer!BeforeTimesOut, Drawer!Ask, Drawer!WatchAnswered, Drawer!WatchTimesOut,
         Drawer!Judge, Drawer!ReadAnswered, Drawer!world
<1>9. CASE \/ Drawer!OpenDrawerRefused \/ Drawer!OpenDrawerUnreachable \/ Drawer!OpenDrawer
           \/ Drawer!ReadDrawerSensor \/ Drawer!CalibrateDrawerPolarity
  BY <1>2, <1>9 DEF Drawer!OpenDrawerRefused, Drawer!OpenDrawerUnreachable, Drawer!OpenDrawer,
         Drawer!ReadDrawerSensor, Drawer!CalibrateDrawerPolarity, Drawer!world
<1>10. CASE Drawer!OnBytes \/ Drawer!PrinterAnswers \/ Drawer!SwitchMoves \/ Drawer!LinkDrops
            \/ Drawer!LinkReturns
  BY <1>2, <1>10 DEF Drawer!OnBytes, Drawer!PrinterAnswers, Drawer!SwitchMoves, Drawer!LinkDrops,
         Drawer!LinkReturns, Drawer!host
<1> QED BY <1>3, <1>4, <1>5, <1>6, <1>7, <1>8, <1>9, <1>10
        DEF Drawer!Next, Drawer!Sequence, Drawer!Callers, Drawer!Environment

(* awaitQueued takes the oldest answer.                                    *)
LEMMA DrawerTakes ==
  ASSUME DrawerTyped, Drawer!Answered
  PROVE  /\ pin' \in Drawer!Levels /\ Len(answers) > 0 /\ pin' = answers[1]
         /\ answers' \in Seq(Drawer!Levels) /\ Len(answers') = Len(answers) - 1 /\ expect' = expect
<1>1. answers \in Seq(Drawer!Levels) /\ answers # <<>> BY DEF DrawerTyped, DrawerHost, Drawer!Answered
<1>2. answers' = Tail(answers) /\ pin' = Head(answers) /\ expect' = expect BY DEF Drawer!Answered
<1> QED BY <1>1, <1>2

(* What openDrawer returns is a result.                                    *)
LEMMA DrawerReturns ==
  ASSUME NEW s \in Drawer!States, NEW q \in Drawer!States, NEW b \in BOOLEAN, Drawer!Returns(s, q, b)
  PROVE  result' \in DrawerResults /\ step' = "idle" /\ result'.state = s
BY DEF Drawer!Returns, DrawerResults

LEMMA DrawerReadsLevel ==
  ASSUME NEW l, NEW c PROVE Drawer!DrawerStateFrom(l, c) \in Drawer!States
BY DEF Drawer!DrawerStateFrom, Drawer!States

LEMMA DrawerSeqMoves ==
  ASSUME NEW s \in DrawerSeqs
  PROVE  /\ \A b \in Drawer!Levels :
              [s EXCEPT !.before = b] \in DrawerSeqs /\ [s EXCEPT !.before = b].polls = s.polls
         /\ s.polls + 1 \in 0..MaxDrawerPolls => [s EXCEPT !.polls = s.polls + 1] \in DrawerSeqs
         /\ \A a \in BOOLEAN :
              [s EXCEPT !.answered = a] \in DrawerSeqs /\ [s EXCEPT !.answered = a].polls = s.polls
BY DEF DrawerSeqs

(* The host's side keeps its types, and never polls more often than the    *)
(* window allows.                                                          *)
LEMMA DrawerHostStep ==
  ASSUME DrawerBounds, DrawerTyped, Drawer!Next PROVE DrawerHost'
<1> USE DEF DrawerHost, DrawerTyped, DrawerSteps_, DrawerWaits
<1>1. DrawerHost OBVIOUS
<1>2. CASE UNCHANGED Drawer!host BY <1>2 DEF Drawer!host
<1>3. CASE Drawer!ApplyStoredDrawerPolarity
  <2>1. /\ polarity' = stored /\ step' = "idle"
        /\ UNCHANGED <<caps, stored, seq, result, pin, answers, pulsed>>
    BY <1>3 DEF Drawer!ApplyStoredDrawerPolarity
  <2> QED BY <2>1
<1>4. CASE Drawer!AskBefore
  <2>1. (answers' = answers \/ answers' = <<>>) /\ (step' = "before" \/ step' = "cool")
    BY <1>4 DEF Drawer!AskBefore, Drawer!SendPoll
  <2>2. answers' \in Seq(Drawer!Levels) BY <2>1, DrawerNone
  <2>3. UNCHANGED <<caps, polarity, stored, seq, result, pin, pulsed>> /\ seq.polls = 0
    BY <1>4 DEF Drawer!AskBefore
  <2> QED BY <2>1, <2>2, <2>3
<1>5. CASE Drawer!BeforeAnswered
  <2>1. pin' \in Drawer!Levels /\ answers' \in Seq(Drawer!Levels)
    BY <1>5, DrawerTakes DEF Drawer!BeforeAnswered
  <2>2. seq' = [seq EXCEPT !.before = pin'] BY <1>5 DEF Drawer!BeforeAnswered
  <2>3. seq' \in DrawerSeqs /\ seq'.polls = seq.polls BY <2>1, <2>2, DrawerSeqMoves
  <2>4. \/ step' = "idle" /\ result' \in DrawerResults
        \/ step' = "cool" /\ result' = result
    <3>1. "Open" \in Drawer!States BY DEF Drawer!States
    <3> QED BY <1>5, <3>1, DrawerReturns DEF Drawer!BeforeAnswered
  <2>5. UNCHANGED <<caps, polarity, stored, pulsed>> /\ seq.polls = 0 BY <1>5 DEF Drawer!BeforeAnswered
  <2> QED BY <2>1, <2>3, <2>4, <2>5
<1>6. CASE Drawer!BeforeTimesOut \/ Drawer!WatchTimesOut
  BY <1>6 DEF Drawer!BeforeTimesOut, Drawer!WatchTimesOut, Drawer!Forget
<1>7. CASE Drawer!Pulse
  <2>1. \/ step' = "idle" /\ result' \in DrawerResults
        \/ step' = "ask" /\ result' = result
    <3>1. Drawer!Previous \in Drawer!States
      BY DrawerReadsLevel DEF Drawer!Previous, Drawer!States
    <3>2. \/ Drawer!Returns("Unknown", Drawer!Previous, TRUE)
          \/ Drawer!Returns("KickSentUnverified", Drawer!Previous, TRUE)
          \/ step' = "ask" /\ UNCHANGED result
      BY <1>7 DEF Drawer!Pulse
    <3>3. {"Unknown", "KickSentUnverified"} \subseteq Drawer!States BY DEF Drawer!States
    <3> QED BY <3>1, <3>2, <3>3, DrawerReturns
  <2>2. /\ UNCHANGED <<caps, polarity, stored, seq, pin, answers>> /\ pulsed' = TRUE
        /\ seq.polls = 0
    BY <1>7 DEF Drawer!Pulse
  <2> QED BY <2>1, <2>2 DEF DrawerBounds
<1>8. CASE Drawer!Ask
  <2>1. (answers' = answers \/ answers' = <<>>) /\ (step' = "watch" \/ step' = "judge")
    BY <1>8 DEF Drawer!Ask, Drawer!SendPoll
  <2>2. seq.polls + 1 \in 0..MaxDrawerPolls BY <1>8 DEF Drawer!Ask, DrawerSeqs, DrawerBounds
  <2>3. seq' \in DrawerSeqs BY <1>8, <2>2, DrawerSeqMoves DEF Drawer!Ask
  <2>4. UNCHANGED <<caps, polarity, stored, result, pin, pulsed>> BY <1>8 DEF Drawer!Ask
  <2>5. answers' \in Seq(Drawer!Levels) BY <2>1, DrawerNone
  <2> QED BY <2>1, <2>3, <2>4, <2>5
<1>9. CASE Drawer!WatchAnswered
  BY <1>9, DrawerTakes DEF Drawer!WatchAnswered
<1>10. CASE Drawer!Judge
  <2> DEFINE answered == pin # "none"
             previous == Drawer!DrawerStateFrom(seq.before, seq.calibrated)
             last == IF (seq.answered \/ answered) /\ seq.calibrated
                       THEN "FailedToOpen" ELSE "KickSentUnverified"
  <2>1. previous \in Drawer!States BY DrawerReadsLevel
  <2>2. last \in Drawer!States /\ "OpenVerified" \in Drawer!States BY DEF Drawer!States
  <2>3. \/ Drawer!Returns("OpenVerified", previous, TRUE) /\ UNCHANGED seq
        \/ /\ seq.polls < MaxDrawerPolls /\ seq' = [seq EXCEPT !.answered = @ \/ answered]
           /\ step' = "ask" /\ UNCHANGED result
        \/ Drawer!Returns(last, previous, TRUE) /\ UNCHANGED seq
    BY <1>10 DEF Drawer!Judge
  <2>4. UNCHANGED <<caps, polarity, stored, pin, answers, pulsed>> BY <1>10 DEF Drawer!Judge
  <2> HIDE DEF previous, last
  <2>5. \/ step' = "idle" /\ result' \in DrawerResults /\ seq' = seq
        \/ /\ seq.polls < MaxDrawerPolls /\ seq' = [seq EXCEPT !.answered = @ \/ answered]
           /\ step' = "ask" /\ UNCHANGED result
    BY <2>1, <2>2, <2>3, DrawerReturns
  <2>6. CASE step' = "idle" /\ result' \in DrawerResults /\ seq' = seq BY <2>4, <2>6
  <2>7. CASE /\ seq.polls < MaxDrawerPolls /\ seq' = [seq EXCEPT !.answered = @ \/ answered]
             /\ step' = "ask" /\ UNCHANGED result
    <3> DEFINE a == seq.answered \/ answered
    <3>1. a \in BOOLEAN /\ seq' = [seq EXCEPT !.answered = a] BY <2>7
    <3> HIDE DEF a
    <3>2. seq' \in DrawerSeqs /\ seq'.polls = seq.polls BY <3>1, DrawerSeqMoves
    <3> QED BY <2>4, <2>7, <3>2
  <2> QED BY <2>5, <2>6, <2>7
<1>11. CASE Drawer!ReadAnswered
  BY <1>11, DrawerTakes DEF Drawer!ReadAnswered, Drawer!Forget
<1>12. CASE Drawer!OpenDrawerRefused \/ Drawer!OpenDrawerUnreachable
  <2>1. "Unknown" \in Drawer!States BY DEF Drawer!States
  <2>2. step' = "idle" /\ result' \in DrawerResults
    BY <1>12, <2>1, DrawerReturns DEF Drawer!OpenDrawerRefused, Drawer!OpenDrawerUnreachable
  <2> QED BY <1>12, <2>2 DEF Drawer!OpenDrawerRefused, Drawer!OpenDrawerUnreachable
<1>13. CASE Drawer!OpenDrawer
  <2>1. seq' = [Drawer!Blank EXCEPT !.calibrated = polarity] BY <1>13 DEF Drawer!OpenDrawer
  <2>2. seq' \in DrawerSeqs /\ seq'.polls = 0 BY <2>1, DrawerBlank
  <2>3. answers' = <<>> /\ step' \in {"ask_before", "cool"}
    BY <1>13 DEF Drawer!OpenDrawer
  <2>4. UNCHANGED <<caps, polarity, stored, result, pin, pulsed>> BY <1>13 DEF Drawer!OpenDrawer
  <2> QED BY <2>2, <2>3, <2>4
<1>14. CASE Drawer!OpenCashDrawer BY <1>2, <1>14 DEF Drawer!OpenCashDrawer
<1>15. CASE Drawer!ReadDrawerSensor BY <1>15 DEF Drawer!ReadDrawerSensor
<1>16. CASE Drawer!CalibrateDrawerPolarity BY <1>16 DEF Drawer!CalibrateDrawerPolarity
<1>17. CASE Drawer!Restart
  <2>1. /\ step' = "start" /\ polarity' = FALSE /\ seq' = Drawer!Blank /\ result' = Drawer!NoResult
        /\ pin' = "none" /\ answers' = <<>> /\ pulsed' = FALSE /\ UNCHANGED <<caps, stored>>
    BY <1>17 DEF Drawer!Restart
  <2>2. seq' \in DrawerSeqs /\ result' \in DrawerResults BY <2>1, DrawerBlank
  <2>3. answers' \in Seq(Drawer!Levels) BY <2>1, DrawerNone
  <2>4. polarity' \in BOOLEAN /\ pulsed' \in BOOLEAN BY <2>1
  <2> QED BY <2>1, <2>2, <2>3, <2>4
<1>18. CASE Drawer!OnBytes
  <2>1. replies[1].level \in Drawer!Levels /\ Head(replies) = replies[1]
    BY <1>18, DrawerHears DEF DrawerReplies
  <2>2. \/ pin' = replies[1].level /\ answers' = answers
        \/ pin' = pin /\ answers' = answers
        \/ pin' = pin /\ answers' = Append(answers, replies[1].level)
    BY <1>18, <2>1 DEF Drawer!OnBytes
  <2>3. answers' \in Seq(Drawer!Levels) BY <2>1, <2>2
  <2>4. UNCHANGED <<caps, polarity, stored, step, seq, result, pulsed>> BY <1>18 DEF Drawer!OnBytes
  <2> QED BY <2>1, <2>2, <2>3, <2>4
<1>19. CASE \/ Drawer!PrinterAnswers \/ Drawer!SwitchMoves \/ Drawer!LinkDrops
            \/ Drawer!LinkReturns \/ Drawer!CoilCools
  BY <1>2, <1>19 DEF Drawer!PrinterAnswers, Drawer!SwitchMoves, Drawer!LinkDrops,
         Drawer!LinkReturns, Drawer!CoilCools
<1>20. CASE Drawer!CooldownPasses BY <1>20 DEF Drawer!CooldownPasses
<1> QED BY <1>3, <1>4, <1>5, <1>6, <1>7, <1>8, <1>9, <1>10, <1>11, <1>12, <1>13, <1>14, <1>15,
           <1>16, <1>17, <1>18, <1>19, <1>20
        DEF Drawer!Next, Drawer!Sequence, Drawer!Callers, Drawer!Environment

DrawerNoLevel == \A i \in 1..Len(replies) : replies[i].kind # "level"
DrawerOneLevel ==
  \A i, j \in 1..Len(replies) : replies[i].kind = "level" /\ replies[j].kind = "level" => i = j

DrawerAsked == questions = 1 /\ expect = 1 /\ Len(answers) = 0 /\ DrawerNoLevel
DrawerOwed == questions = 0 /\ expect = 1 /\ Len(answers) = 0
DrawerGiven == questions = 0 /\ expect = 0 /\ Len(answers) = 1 /\ DrawerNoLevel
DrawerQuiet == questions = 0 /\ expect = 0 /\ Len(answers) = 0 /\ DrawerNoLevel

(* The one outstanding answer: asked of the printer, on its way or lost,   *)
(* or here. None is outstanding outside a poll.                            *)
DrawerPolls ==
  /\ ~port => questions = 0 /\ Len(replies) = 0
  /\ DrawerOneLevel
  /\ IF step \in DrawerWaits THEN DrawerAsked \/ DrawerOwed \/ DrawerGiven ELSE DrawerQuiet

LEMMA DrawerPollsInit == ASSUME DrawerBounds, Drawer!Init PROVE DrawerPolls
<1>1. Len(answers) = 0 /\ Len(replies) = 0 BY DEF Drawer!Init
<1> QED BY <1>1 DEF Drawer!Init, DrawerPolls, DrawerOneLevel, DrawerWaits, DrawerQuiet, DrawerNoLevel

(* No replies, no level among them.                                        *)
LEMMA DrawerSilent ==
  ASSUME replies' = <<>> PROVE Len(replies') = 0 /\ DrawerNoLevel' /\ DrawerOneLevel'
<1>1. Len(replies') = 0 OBVIOUS
<1> QED BY <1>1 DEF DrawerNoLevel, DrawerOneLevel

(* A poll that ends leaves nothing outstanding, whether it was answered or *)
(* timed out: without late answers nothing is then on its way.             *)
LEMMA DrawerPollEnds ==
  ASSUME DrawerTyped, DrawerPolls, step \in DrawerWaits, UNCHANGED <<port, questions, replies>>,
         step' \notin DrawerWaits, Drawer!Answered \/ Drawer!Forget
  PROVE  DrawerPolls'
<1>1. CASE Drawer!Answered
  <2>1. Len(answers) > 0 /\ Len(answers') = Len(answers) - 1 /\ expect' = expect
    BY <1>1, DrawerTakes
  <2>2. DrawerGiven BY <2>1 DEF DrawerPolls, DrawerAsked, DrawerOwed
  <2> QED BY <2>1, <2>2 DEF DrawerPolls, DrawerGiven, DrawerQuiet, DrawerNoLevel, DrawerOneLevel
<1>2. CASE Drawer!Forget
  <2>1. /\ answers = <<>> /\ expect' = 0 /\ answers' = <<>>
        /\ ~port \/ (questions = 0 /\ \A i \in 1..Len(replies) : replies[i].kind # "level")
    BY <1>2 DEF Drawer!Forget
  <2>2. Len(answers') = 0 BY <2>1
  <2>3. questions = 0 /\ DrawerNoLevel BY <2>1 DEF DrawerPolls, DrawerNoLevel
  <2> QED BY <2>1, <2>2, <2>3 DEF DrawerPolls, DrawerQuiet, DrawerNoLevel, DrawerOneLevel
<1> QED BY <1>1, <1>2

(* A poll that begins has its one question out, or was refused.            *)
LEMMA DrawerPollBegins ==
  ASSUME DrawerTyped, DrawerPolls, step \notin DrawerWaits, UNCHANGED replies,
         NEW w \in DrawerWaits, NEW f, f \notin DrawerWaits, Drawer!SendPoll(w, f)
  PROVE  DrawerPolls'
<1>1. DrawerQuiet BY DEF DrawerPolls
<1>2. CASE /\ port /\ expect' = expect + 1 /\ questions' = questions + 1 /\ step' = w
           /\ UNCHANGED <<answers, port>>
  BY <1>1, <1>2 DEF DrawerPolls, DrawerQuiet, DrawerAsked, DrawerNoLevel, DrawerOneLevel
<1>3. CASE ~port /\ expect' = 0 /\ answers' = <<>> /\ step' = f /\ UNCHANGED <<questions, port>>
  <2>1. Len(answers') = 0 BY <1>3
  <2> QED BY <1>1, <1>3, <2>1 DEF DrawerPolls, DrawerQuiet, DrawerNoLevel, DrawerOneLevel
<1> QED BY <1>2, <1>3 DEF Drawer!SendPoll

(* A step that touches none of the poll's state.                           *)
LEMMA DrawerPollStays ==
  ASSUME DrawerPolls, UNCHANGED <<questions, expect, answers, replies>>, port => port',
         step \in DrawerWaits <=> step' \in DrawerWaits
  PROVE  DrawerPolls'
BY DEF DrawerPolls, DrawerAsked, DrawerOwed, DrawerGiven, DrawerQuiet, DrawerNoLevel, DrawerOneLevel

(* A status frame behind what is on its way is no answer.                  *)
LEMMA DrawerFrame ==
  ASSUME DrawerPolls, UNCHANGED <<questions, expect, answers, step, port>>,
         port, Len(replies) \in Nat, Len(replies') = Len(replies) + 1,
         \A i \in 1..Len(replies) : replies'[i] = replies[i],
         replies'[Len(replies')].kind = "asb"
  PROVE  DrawerPolls'
<1>1. DrawerOneLevel' /\ (DrawerNoLevel => DrawerNoLevel')
  <2>1. ASSUME NEW i \in 1..Len(replies'), replies'[i].kind = "level"
        PROVE  i \in 1..Len(replies) /\ replies[i].kind = "level"
    BY <2>1
  <2> QED BY <2>1 DEF DrawerPolls, DrawerOneLevel, DrawerNoLevel
<1> QED BY <1>1 DEF DrawerPolls, DrawerAsked, DrawerOwed, DrawerGiven, DrawerQuiet

LEMMA DrawerAnswerSent == ASSUME DrawerTyped, DrawerPolls, Drawer!PrinterAnswers PROVE DrawerPolls'
<1>1. /\ port /\ questions > 0 /\ questions' = questions - 1
      /\ UNCHANGED <<step, expect, answers, port>>
  BY DEF Drawer!PrinterAnswers, Drawer!host
<1>2. DrawerAsked /\ step \in DrawerWaits
  BY <1>1 DEF DrawerPolls, DrawerOwed, DrawerGiven, DrawerQuiet
<1>3. DrawerOneLevel'
  <2>1. CASE replies' = replies BY <2>1 DEF DrawerPolls, DrawerOneLevel
  <2>2. CASE replies' # replies
    <3>1. /\ Len(replies) \in Nat /\ Len(replies') = Len(replies) + 1
          /\ \A i \in 1..Len(replies) : replies'[i] = replies[i]
      BY <2>2, DrawerAnswersSay
    <3>2. ASSUME NEW i \in 1..Len(replies'), replies'[i].kind = "level" PROVE i = Len(replies')
      BY <1>2, <3>1, <3>2 DEF DrawerAsked, DrawerNoLevel
    <3> QED BY <3>2 DEF DrawerOneLevel
  <2> QED BY <2>1, <2>2
<1>4. DrawerOwed' BY <1>1, <1>2 DEF DrawerAsked, DrawerOwed
<1> QED BY <1>1, <1>2, <1>3, <1>4 DEF DrawerPolls

LEMMA DrawerPollHears == ASSUME DrawerTyped, DrawerPolls, Drawer!OnBytes PROVE DrawerPolls'
<1> DEFINE byte == replies[1]
<1>1. /\ Len(replies) > 0 /\ Len(replies') = Len(replies) - 1 /\ Len(replies) \in Nat
      /\ \A i \in 1..Len(replies') : i + 1 \in 1..Len(replies) /\ replies'[i] = replies[i + 1]
      /\ byte \in DrawerReplies /\ Head(replies) = byte
  <2>1. Len(replies) \in Nat BY DEF DrawerTyped, DrawerWorld
  <2> QED BY <2>1, DrawerHears
<1>2. /\ UNCHANGED <<step, port, questions>>
      /\ IF byte.kind = "asb" THEN UNCHANGED <<expect, answers>>
         ELSE IF expect > 0 THEN expect' = expect - 1 /\ answers' = Append(answers, byte.level)
                            ELSE UNCHANGED <<expect, answers>>
  BY <1>1 DEF Drawer!OnBytes
<1> HIDE DEF byte
<1>3. port BY <1>1 DEF DrawerPolls, DrawerTyped, DrawerWorld
<1>4. DrawerOneLevel' /\ (DrawerNoLevel => DrawerNoLevel')
  BY <1>1 DEF DrawerPolls, DrawerOneLevel, DrawerNoLevel
<1>5. CASE byte.kind = "asb"
  BY <1>2, <1>3, <1>4, <1>5 DEF DrawerPolls, DrawerAsked, DrawerOwed, DrawerGiven, DrawerQuiet
<1>6. CASE byte.kind # "asb"
  <2>1. byte.kind = "level" BY <1>1, <1>6 DEF DrawerReplies
  <2>2. ~DrawerNoLevel BY <1>1, <2>1 DEF DrawerNoLevel, byte
  <2>3. DrawerOwed /\ step \in DrawerWaits
    BY <2>2 DEF DrawerPolls, DrawerAsked, DrawerGiven, DrawerQuiet
  <2>4. DrawerNoLevel'
    <3>1. ASSUME NEW i \in 1..Len(replies'), replies'[i].kind = "level" PROVE FALSE
      <4>1. i + 1 \in 1..Len(replies) /\ replies[i + 1].kind = "level" /\ 1 \in 1..Len(replies)
        BY <1>1, <3>1
      <4>2. i + 1 = 1 BY <2>1, <4>1 DEF DrawerPolls, DrawerOneLevel, byte
      <4> QED BY <4>2, <3>1, <1>1
    <3> QED BY <3>1 DEF DrawerNoLevel
  <2>5. expect' = 0 /\ Len(answers') = 1
    <3>1. answers \in Seq(Drawer!Levels) /\ byte.level \in Drawer!Levels
      BY <1>1 DEF DrawerTyped, DrawerHost, DrawerReplies
    <3>2. expect' = expect - 1 /\ answers' = Append(answers, byte.level)
      BY <1>2, <1>6, <2>3 DEF DrawerOwed
    <3> QED BY <2>3, <3>1, <3>2 DEF DrawerOwed
  <2>6. DrawerGiven' BY <1>2, <2>3, <2>4, <2>5 DEF DrawerOwed, DrawerGiven
  <2> QED BY <1>2, <1>3, <1>4, <2>3, <2>6 DEF DrawerPolls
<1> QED BY <1>5, <1>6

(* Every step keeps count of the one question.                             *)
LEMMA DrawerPollsStep ==
  ASSUME DrawerTyped, DrawerPolls, Drawer!Next PROVE DrawerPolls'
<1>1. CASE Drawer!AskBefore
  <2>1. Drawer!SendPoll("before", "cool") /\ step \notin DrawerWaits /\ UNCHANGED replies
    BY <1>1 DEF Drawer!AskBefore, DrawerWaits
  <2> QED BY <2>1, DrawerPollBegins DEF DrawerWaits
<1>2. CASE Drawer!Ask
  <2>1. Drawer!SendPoll("watch", "judge") /\ step \notin DrawerWaits /\ UNCHANGED replies
    BY <1>2 DEF Drawer!Ask, DrawerWaits
  <2> QED BY <2>1, DrawerPollBegins DEF DrawerWaits
<1>3. CASE \/ Drawer!BeforeAnswered \/ Drawer!BeforeTimesOut \/ Drawer!WatchAnswered
           \/ Drawer!WatchTimesOut \/ Drawer!ReadAnswered
  <2>1. /\ step \in DrawerWaits /\ UNCHANGED <<port, questions, replies>>
        /\ Drawer!Answered \/ Drawer!Forget
    BY <1>3 DEF Drawer!BeforeAnswered, Drawer!BeforeTimesOut, Drawer!WatchAnswered,
                Drawer!WatchTimesOut, Drawer!ReadAnswered, Drawer!world, DrawerWaits
  <2>2. step' \notin DrawerWaits
    BY <1>3 DEF Drawer!BeforeAnswered, Drawer!BeforeTimesOut, Drawer!WatchAnswered,
                Drawer!WatchTimesOut, Drawer!ReadAnswered, Drawer!Returns, DrawerWaits
  <2> QED BY <2>1, <2>2, DrawerPollEnds
<1>4. CASE Drawer!OpenDrawer \/ Drawer!Restart
  <2>1. questions' = 0 /\ expect' = 0 /\ answers' = <<>> /\ step' \notin DrawerWaits
    BY <1>4 DEF Drawer!OpenDrawer, Drawer!Restart, DrawerWaits, DrawerPolls, DrawerQuiet
  <2>2. Len(answers') = 0 BY <2>1
  <2>3. /\ DrawerNoLevel' /\ DrawerOneLevel' /\ (~port' => Len(replies') = 0)
    <3>1. CASE Drawer!OpenDrawer
      <4>1. step \notin DrawerWaits /\ UNCHANGED <<port, replies>>
        BY <3>1 DEF Drawer!OpenDrawer, DrawerWaits
      <4> QED BY <4>1 DEF DrawerPolls, DrawerQuiet, DrawerNoLevel, DrawerOneLevel
    <3>2. CASE Drawer!Restart
      <4>1. replies' = <<>> BY <3>2 DEF Drawer!Restart
      <4> QED BY <4>1, DrawerSilent
    <3> QED BY <1>4, <3>1, <3>2
  <2> QED BY <2>1, <2>2, <2>3 DEF DrawerPolls, DrawerQuiet
<1>5. CASE Drawer!ReadDrawerSensor
  <2>1. /\ step \notin DrawerWaits /\ step' \in DrawerWaits /\ port /\ UNCHANGED <<port, replies>>
        /\ expect' = 1 /\ answers' = <<>> /\ questions' = questions + 1
    BY <1>5 DEF Drawer!ReadDrawerSensor, DrawerWaits
  <2>2. Len(answers') = 0 BY <2>1
  <2> QED BY <2>1, <2>2 DEF DrawerPolls, DrawerQuiet, DrawerAsked, DrawerNoLevel, DrawerOneLevel
<1>6. CASE \/ Drawer!ApplyStoredDrawerPolarity \/ Drawer!Pulse \/ Drawer!Judge
           \/ Drawer!OpenDrawerRefused \/ Drawer!OpenDrawerUnreachable \/ Drawer!OpenCashDrawer
           \/ Drawer!CalibrateDrawerPolarity \/ Drawer!LinkReturns \/ Drawer!CooldownPasses
           \/ Drawer!CoilCools
  <2>1. UNCHANGED <<questions, expect, answers, replies>>
    BY <1>6 DEF Drawer!ApplyStoredDrawerPolarity, Drawer!Pulse, Drawer!Judge,
         Drawer!OpenDrawerRefused, Drawer!OpenDrawerUnreachable, Drawer!OpenCashDrawer,
         Drawer!CalibrateDrawerPolarity, Drawer!LinkReturns, Drawer!CooldownPasses,
         Drawer!CoilCools, Drawer!host, Drawer!world
  <2>3. port' = port \/ port' = TRUE
    BY <1>6 DEF Drawer!ApplyStoredDrawerPolarity, Drawer!Pulse, Drawer!Judge,
         Drawer!OpenDrawerRefused, Drawer!OpenDrawerUnreachable, Drawer!OpenCashDrawer,
         Drawer!CalibrateDrawerPolarity, Drawer!LinkReturns, Drawer!CooldownPasses,
         Drawer!CoilCools, Drawer!host, Drawer!world
  <2>4. port => port' BY <2>3
  <2>2. step' = step \/ (step \notin DrawerWaits /\ step' \notin DrawerWaits)
    BY <1>6 DEF Drawer!ApplyStoredDrawerPolarity, Drawer!Pulse, Drawer!Judge,
         Drawer!OpenDrawerRefused, Drawer!OpenDrawerUnreachable, Drawer!OpenCashDrawer,
         Drawer!CalibrateDrawerPolarity, Drawer!LinkReturns, Drawer!CooldownPasses,
         Drawer!CoilCools, Drawer!host, Drawer!world, Drawer!Returns, DrawerWaits
  <2> QED BY <2>1, <2>2, <2>4, DrawerPollStays
<1>7. CASE Drawer!OnBytes BY <1>7, DrawerPollHears
<1>8. CASE Drawer!PrinterAnswers BY <1>8, DrawerAnswerSent
<1>9. CASE Drawer!SwitchMoves
  <2>1. UNCHANGED <<questions, expect, answers, step, port>>
    BY <1>9 DEF Drawer!SwitchMoves, Drawer!host
  <2> QED BY <1>9, <2>1, DrawerMovesSay, DrawerFrame, DrawerPollStays
<1>10. CASE Drawer!LinkDrops
  <2>1. replies' = <<>> /\ questions' = 0 /\ UNCHANGED <<step, expect, answers>>
    BY <1>10 DEF Drawer!LinkDrops, Drawer!host
  <2>2. Len(replies') = 0 /\ DrawerNoLevel' /\ DrawerOneLevel' BY <2>1, DrawerSilent
  <2> QED BY <2>1, <2>2 DEF DrawerPolls, DrawerAsked, DrawerOwed, DrawerGiven, DrawerQuiet
<1> QED BY <1>1, <1>2, <1>3, <1>4, <1>5, <1>6, <1>7, <1>8, <1>9, <1>10
        DEF Drawer!Next, Drawer!Sequence, Drawer!Callers, Drawer!Environment

-----------------------------------------------------------------------------
(* Where the drawer has been since the operation began.                    *)
DrawerSwitch == (open => facts.opened) /\ (~open => facts.closed)

(* A level that was measured since then tells where it has been.           *)
DrawerTells(l) == (l = "high" => facts.opened) /\ (l = "low" => facts.closed)

DrawerToldBy(i) == \A j \in 1..Len(replies) : i <= j => DrawerTells(replies[j].level)

DrawerHeard ==
  /\ step \in {"ask_before", "before"} => seq.before = "none"
  /\ step \in {"ask", "watch", "judge"} => seq.before # "none"
  /\ step = "before" =>
       /\ \A i \in 1..Len(replies) : replies[i].kind = "level" => DrawerToldBy(i)
       /\ Len(answers) > 0 => DrawerTells(answers[1]) /\ DrawerToldBy(1)
  /\ step \in {"cool", "ask", "watch", "judge"} /\ seq.before # "none" =>
       DrawerTells(seq.before) /\ DrawerTells(pin) /\ DrawerToldBy(1)
  /\ step = "watch" /\ Len(answers) > 0 => DrawerTells(answers[1])
  /\ step = "cool" /\ seq.before # "none" /\ seq.calibrated => seq.before = "low"

DrawerInv == DrawerTyped /\ DrawerPolls /\ DrawerSwitch /\ DrawerHeard /\ ~facts.bad /\ ~facts.buzzed

(* The switch's history since the operation began includes where it is.    *)
LEMMA DrawerSwitchStep ==
  ASSUME DrawerBounds, DrawerTyped, DrawerSwitch, Drawer!Next PROVE DrawerSwitch'
<1>1. CASE UNCHANGED <<open, facts>> BY <1>1 DEF DrawerSwitch
<1>2. CASE \/ Drawer!OpenDrawerRefused \/ Drawer!OpenDrawerUnreachable \/ Drawer!OpenDrawer
           \/ Drawer!ReadDrawerSensor \/ Drawer!Restart
  <2>1. open' = open /\ facts' = Drawer!Begin /\ facts.tasks < MaxOperations
    BY <1>2 DEF Drawer!OpenDrawerRefused, Drawer!OpenDrawerUnreachable, Drawer!OpenDrawer,
                Drawer!ReadDrawerSensor, Drawer!Restart
  <2> QED BY <2>1, DrawerBegins DEF DrawerSwitch
<1>3. CASE Drawer!Pulse BY <1>3, DrawerPulses DEF DrawerSwitch
<1>4. CASE Drawer!OpenCashDrawer BY <1>4, DrawerKicked DEF DrawerSwitch
<1>5. CASE Drawer!SwitchMoves BY <1>5, DrawerMoves DEF DrawerSwitch
<1>6. CASE Drawer!OnBytes
  <2>1. open' = open BY <1>6 DEF Drawer!OnBytes
  <2> QED BY <1>6, <2>1, DrawerHears DEF DrawerSwitch
<1>7. CASE \/ Drawer!AskBefore \/ Drawer!Ask \/ Drawer!PrinterAnswers \/ Drawer!LinkDrops
           \/ Drawer!LinkReturns
  BY <1>1, <1>7 DEF Drawer!AskBefore, Drawer!Ask, Drawer!PrinterAnswers, Drawer!LinkDrops,
         Drawer!LinkReturns
<1>8. CASE \/ Drawer!ApplyStoredDrawerPolarity \/ Drawer!BeforeAnswered \/ Drawer!BeforeTimesOut
           \/ Drawer!WatchAnswered \/ Drawer!WatchTimesOut \/ Drawer!Judge \/ Drawer!ReadAnswered
           \/ Drawer!CalibrateDrawerPolarity \/ Drawer!CooldownPasses \/ Drawer!CoilCools
  BY <1>1, <1>8 DEF Drawer!ApplyStoredDrawerPolarity, Drawer!BeforeAnswered, Drawer!BeforeTimesOut,
         Drawer!WatchAnswered, Drawer!WatchTimesOut, Drawer!Judge, Drawer!ReadAnswered,
         Drawer!CalibrateDrawerPolarity, Drawer!CooldownPasses, Drawer!CoilCools,
         Drawer!world, Drawer!host
<1> QED BY <1>2, <1>3, <1>4, <1>5, <1>6, <1>7, <1>8
        DEF Drawer!Next, Drawer!Sequence, Drawer!Callers, Drawer!Environment

(* A step that at most sends one more honest level, while the history only *)
(* grows, leaves what the sequence has heard true.                         *)
LEMMA DrawerHonestReply ==
  ASSUME DrawerHeard, UNCHANGED <<step, seq, pin, answers>>,
         facts.opened => facts'.opened, facts.closed => facts'.closed,
         \/ replies' = replies
         \/ /\ Len(replies) \in Nat /\ Len(replies') = Len(replies) + 1
            /\ \A i \in 1..Len(replies) : replies'[i] = replies[i]
            /\ replies'[Len(replies')].level = "high" => facts'.opened
            /\ replies'[Len(replies')].level = "low" => facts'.closed
  PROVE  DrawerHeard'
<1>1. ASSUME NEW l, DrawerTells(l) PROVE DrawerTells(l)' BY <1>1 DEF DrawerTells
<1>2. DrawerToldBy(1) => DrawerToldBy(1)'
  <2>1. CASE replies' = replies BY <1>1, <2>1 DEF DrawerToldBy, DrawerTells
  <2>2. CASE replies' # replies BY <1>1, <2>2 DEF DrawerToldBy, DrawerTells
  <2> QED BY <2>1, <2>2
<1>3. (\A i \in 1..Len(replies) : replies[i].kind = "level" => DrawerToldBy(i))
        => (\A i \in 1..Len(replies) : replies[i].kind = "level" => DrawerToldBy(i))'
  <2>1. CASE replies' = replies BY <1>1, <2>1 DEF DrawerToldBy, DrawerTells
  <2>2. CASE replies' # replies BY <1>1, <2>2 DEF DrawerToldBy, DrawerTells
  <2> QED BY <2>1, <2>2
<1>4. /\ DrawerTells(pin) => DrawerTells(pin)'
      /\ DrawerTells(seq.before) => DrawerTells(seq.before)'
      /\ DrawerTells(answers[1]) => DrawerTells(answers[1])'
  BY DEF DrawerTells
<1> QED BY <1>2, <1>3, <1>4 DEF DrawerHeard

(* The switch's level, as it stands, tells of the history.                 *)
LEMMA DrawerHonestLevel ==
  ASSUME DrawerSwitch PROVE DrawerTells(Drawer!LevelOf(open))
BY DEF DrawerSwitch, DrawerTells, Drawer!LevelOf

(* A byte that arrives is one of those that were on their way.             *)
LEMMA DrawerHeardBytes ==
  ASSUME DrawerTyped, DrawerPolls, DrawerHeard, Drawer!OnBytes PROVE DrawerHeard'
<1> DEFINE byte == replies[1]
<1>1. /\ (facts'.opened <=> facts.opened) /\ (facts'.closed <=> facts.closed)
      /\ Len(replies) > 0 /\ Len(replies') = Len(replies) - 1 /\ Len(replies) \in Nat
      /\ \A i \in 1..Len(replies') : i + 1 \in 1..Len(replies) /\ replies'[i] = replies[i + 1]
      /\ byte \in DrawerReplies /\ Head(replies) = byte
  <2>1. Len(replies) \in Nat BY DEF DrawerTyped, DrawerWorld
  <2> QED BY <2>1, DrawerHears
<1>2. /\ UNCHANGED <<step, seq>>
      /\ IF byte.kind = "asb" THEN pin' = byte.level /\ answers' = answers
         ELSE pin' = pin /\ (answers' = answers \/ answers' = Append(answers, byte.level))
  BY <1>1 DEF Drawer!OnBytes
<1>3. byte.kind # "asb" => byte.kind = "level" BY <1>1 DEF DrawerReplies
<1>4. DrawerToldBy(1) => DrawerToldBy(1)' /\ DrawerTells(byte.level)
  <2>1. ASSUME DrawerToldBy(1) PROVE DrawerTells(byte.level)
    BY <1>1, <2>1 DEF DrawerToldBy
  <2>2. ASSUME DrawerToldBy(1) PROVE DrawerToldBy(1)'
    <3>1. ASSUME NEW j \in 1..Len(replies') PROVE DrawerTells(replies[j].level)'
      <4>1. j + 1 \in 1..Len(replies) /\ 1 <= j + 1 /\ replies'[j] = replies[j + 1] BY <1>1
      <4>2. DrawerTells(replies[j + 1].level) BY <2>2, <4>1 DEF DrawerToldBy
      <4> QED BY <1>1, <4>1, <4>2 DEF DrawerTells
    <3> QED BY <3>1 DEF DrawerToldBy, DrawerTells
  <2> QED BY <2>1, <2>2
<1>5. (\A i \in 1..Len(replies) : replies[i].kind = "level" => DrawerToldBy(i))
        => (\A i \in 1..Len(replies) : replies[i].kind = "level" => DrawerToldBy(i))'
  <2>1. ASSUME \A i \in 1..Len(replies) : replies[i].kind = "level" => DrawerToldBy(i),
               NEW i \in 1..Len(replies'), replies'[i].kind = "level",
               NEW j \in 1..Len(replies'), i <= j
        PROVE  DrawerTells(replies[j].level)'
    <3>1. i + 1 \in 1..Len(replies) /\ replies[i + 1].kind = "level" BY <1>1, <2>1
    <3>2. j + 1 \in 1..Len(replies) /\ replies'[j] = replies[j + 1] /\ i + 1 <= j + 1 BY <1>1, <2>1
    <3>3. DrawerTells(replies[j + 1].level) BY <2>1, <3>1, <3>2 DEF DrawerToldBy
    <3> QED BY <1>1, <3>2, <3>3 DEF DrawerTells
  <2> QED BY <2>1 DEF DrawerToldBy, DrawerTells
<1>6. /\ DrawerTells(pin) /\ pin' = pin => DrawerTells(pin)'
      /\ DrawerTells(seq.before) => DrawerTells(seq.before)'
      /\ DrawerTells(byte.level) /\ pin' = byte.level => DrawerTells(pin)'
  BY <1>1, <1>2 DEF DrawerTells
<1>7. ASSUME Len(answers) > 0 => DrawerTells(answers[1]),
             Len(answers') > 0, byte.kind = "level" => DrawerTells(byte.level)
      PROVE  DrawerTells(answers[1])'
  <2>1. CASE answers' = answers BY <1>1, <1>7, <2>1 DEF DrawerTells
  <2>2. CASE answers' # answers
    <3>1. answers \in Seq(Drawer!Levels) /\ byte.level \in Drawer!Levels
      BY <1>1 DEF DrawerTyped, DrawerHost, DrawerReplies
    <3>2. answers' = Append(answers, byte.level) /\ byte.kind = "level" BY <1>2, <1>3, <2>2
    <3> HIDE DEF byte
    <3>3. CASE Len(answers) > 0
      <4>1. answers'[1] = answers[1] BY <3>1, <3>2, <3>3
      <4> QED BY <1>1, <1>7, <3>3, <4>1 DEF DrawerTells
    <3>4. CASE ~(Len(answers) > 0)
      <4>1. answers'[1] = byte.level BY <3>1, <3>2, <3>4
      <4> QED BY <1>1, <1>7, <3>2, <4>1 DEF DrawerTells
    <3> QED BY <3>3, <3>4
  <2> QED BY <2>1, <2>2
<1>8. 1 \in 1..Len(replies) BY <1>1
<1> HIDE DEF byte
<1>9. CASE step = "before"
  <2>1. \A i \in 1..Len(replies) : replies[i].kind = "level" => DrawerToldBy(i) BY <1>9 DEF DrawerHeard
  <2>2. byte.kind = "level" => DrawerToldBy(1) /\ DrawerTells(byte.level)
    BY <1>4, <1>8, <2>1 DEF byte
  <2>3. Len(answers') > 0 => DrawerTells(answers[1])' BY <1>7, <1>9, <2>2 DEF DrawerHeard
  <2>4. Len(answers') > 0 => DrawerToldBy(1)'
    <3>1. CASE answers' = answers BY <1>4, <1>9, <3>1 DEF DrawerHeard
    <3>2. CASE answers' # answers BY <1>2, <1>3, <1>4, <2>2, <3>2
    <3> QED BY <3>1, <3>2
  <2> QED BY <1>2, <1>5, <1>9, <2>1, <2>3, <2>4 DEF DrawerHeard
<1>10. CASE step \in {"cool", "ask", "watch", "judge"} /\ seq.before # "none"
  <2>1. DrawerTells(seq.before) /\ DrawerTells(pin) /\ DrawerToldBy(1) BY <1>10 DEF DrawerHeard
  <2>2. DrawerTells(byte.level) /\ DrawerToldBy(1)' BY <1>4, <2>1
  <2>3. DrawerTells(pin)' BY <1>2, <1>6, <2>1, <2>2
  <2>4. DrawerTells(seq.before)' BY <1>6, <2>1
  <2>5. step = "watch" /\ Len(answers') > 0 => DrawerTells(answers[1])'
    BY <1>7, <2>2 DEF DrawerHeard
  <2> QED BY <1>2, <1>10, <2>2, <2>3, <2>4, <2>5 DEF DrawerHeard
<1>11. CASE step # "before" /\ ~(step \in {"cool", "ask", "watch", "judge"} /\ seq.before # "none")
  BY <1>2, <1>11 DEF DrawerHeard
<1> QED BY <1>9, <1>10, <1>11

(* What a running sequence has heard stays true of it.                     *)
LEMMA DrawerHeardStep ==
  ASSUME DrawerBounds, DrawerTyped, DrawerPolls, DrawerSwitch, DrawerHeard, Drawer!Next,
         DrawerSwitch'
  PROVE  DrawerHeard'
<1>1. ASSUME step' \in {"idle", "start", "read"} PROVE DrawerHeard' BY <1>1 DEF DrawerHeard
<1>2. ASSUME step' \in {"ask_before", "before", "cool"}, seq'.before = "none",
             step' = "before" => Len(answers') = 0 /\ DrawerNoLevel'
      PROVE  DrawerHeard'
  <2>1. step' # "ask" /\ step' # "watch" /\ step' # "judge" BY <1>2
  <2>2. step' = "before" => \A i \in 1..Len(replies') : replies'[i].kind # "level"
    BY <1>2 DEF DrawerNoLevel
  <2> QED BY <1>2, <2>1, <2>2 DEF DrawerHeard
<1>3. CASE \/ Drawer!OpenDrawerRefused \/ Drawer!OpenDrawerUnreachable \/ Drawer!ReadDrawerSensor
           \/ Drawer!Restart \/ Drawer!ApplyStoredDrawerPolarity \/ Drawer!ReadAnswered
           \/ Drawer!OpenCashDrawer \/ Drawer!LinkReturns
  <2>1. step' \in {"idle", "start", "read"}
    BY <1>3 DEF Drawer!OpenDrawerRefused, Drawer!OpenDrawerUnreachable, Drawer!ReadDrawerSensor,
         Drawer!Restart, Drawer!ApplyStoredDrawerPolarity, Drawer!ReadAnswered,
         Drawer!OpenCashDrawer, Drawer!LinkReturns, Drawer!Returns, Drawer!host
  <2> QED BY <1>1, <2>1
<1>4. CASE Drawer!OpenDrawer
  <2>1. seq' = [Drawer!Blank EXCEPT !.calibrated = polarity] /\ step' \in {"ask_before", "cool"}
    BY <1>4 DEF Drawer!OpenDrawer
  <2>2. seq'.before = "none" BY <2>1, DrawerBlank DEF DrawerTyped, DrawerHost
  <2> QED BY <1>2, <2>1, <2>2
<1>5. CASE Drawer!AskBefore
  <2>1. DrawerQuiet /\ seq.before = "none"
    BY <1>5 DEF Drawer!AskBefore, DrawerPolls, DrawerWaits, DrawerHeard
  <2>2. seq' = seq /\ replies' = replies /\ step' \in {"before", "cool"}
        /\ (step' = "before" => answers' = answers)
    BY <1>5 DEF Drawer!AskBefore, Drawer!SendPoll
  <2>3. DrawerNoLevel' BY <2>1, <2>2 DEF DrawerQuiet, DrawerNoLevel
  <2> QED BY <1>2, <2>1, <2>2, <2>3 DEF DrawerQuiet
<1>6. CASE Drawer!BeforeAnswered
  <2>1. pin' \in Drawer!Levels /\ Len(answers) > 0 /\ pin' = answers[1]
    BY <1>6, DrawerTakes DEF Drawer!BeforeAnswered
  <2>2. seq' = [seq EXCEPT !.before = pin'] /\ UNCHANGED <<replies, facts>> /\ step = "before"
    BY <1>6 DEF Drawer!BeforeAnswered, Drawer!world
  <2>3. seq'.before = pin' /\ seq'.calibrated = seq.calibrated
    BY <2>2 DEF DrawerTyped, DrawerHost, DrawerSeqs
  <2>4. DrawerTells(answers[1]) /\ DrawerToldBy(1) BY <2>1, <2>2 DEF DrawerHeard
  <2>5. DrawerTells(pin)' /\ DrawerTells(seq.before)' /\ DrawerToldBy(1)'
    BY <2>1, <2>2, <2>3, <2>4 DEF DrawerTells, DrawerToldBy
  <2>6. \/ step' = "idle"
        \/ step' = "cool" /\ Drawer!DrawerStateFrom(pin', seq.calibrated) # "Open"
    BY <1>6 DEF Drawer!BeforeAnswered, Drawer!Returns
  <2>7. step' = "cool" /\ seq'.calibrated => seq'.before = "low"
    BY <2>1, <2>3, <2>6 DEF Drawer!DrawerStateFrom, Drawer!Levels
  <2>8. CASE step' = "idle" BY <1>1, <2>8
  <2>9. CASE step' = "cool" BY <2>5, <2>7, <2>9 DEF DrawerHeard
  <2> QED BY <2>6, <2>8, <2>9
<1>7. CASE Drawer!BeforeTimesOut
  <2>1. seq' = seq /\ step' = "cool" /\ step = "before" BY <1>7 DEF Drawer!BeforeTimesOut
  <2> QED BY <1>2, <2>1 DEF DrawerHeard
<1>8. CASE Drawer!Pulse
  <2>1. UNCHANGED <<seq, pin, replies>> /\ step = "cool" BY <1>8 DEF Drawer!Pulse
  <2>2. step' = "idle" \/ (step' = "ask" /\ seq.before # "none")
    BY <1>8 DEF Drawer!Pulse, Drawer!Returns
  <2>3. (facts.opened => facts'.opened) /\ (facts.closed => facts'.closed)
    BY <1>8, DrawerPulses
  <2>4. CASE step' = "idle" BY <1>1, <2>4
  <2>5. CASE step' = "ask" /\ seq.before # "none"
    <3>1. DrawerTells(seq.before) /\ DrawerTells(pin) /\ DrawerToldBy(1)
      BY <2>1, <2>5 DEF DrawerHeard
    <3>2. DrawerTells(seq.before)' /\ DrawerTells(pin)' /\ DrawerToldBy(1)'
      BY <2>1, <2>3, <3>1 DEF DrawerTells, DrawerToldBy
    <3> QED BY <2>1, <2>5, <3>2 DEF DrawerHeard
  <2> QED BY <2>2, <2>4, <2>5
<1>9. CASE Drawer!Ask \/ Drawer!WatchAnswered \/ Drawer!WatchTimesOut \/ Drawer!Judge
  <2>1. step \in {"ask", "watch", "judge"} /\ UNCHANGED <<replies, facts>>
    BY <1>9 DEF Drawer!Ask, Drawer!WatchAnswered, Drawer!WatchTimesOut, Drawer!Judge, Drawer!world
  <2>2. seq'.before = seq.before
    <3>1. \/ seq' = seq \/ seq' = [seq EXCEPT !.polls = seq.polls + 1]
          \/ seq' = [seq EXCEPT !.answered = seq.answered \/ pin # "none"]
      BY <1>9 DEF Drawer!Ask, Drawer!WatchAnswered, Drawer!WatchTimesOut, Drawer!Judge
    <3> QED BY <3>1 DEF DrawerTyped, DrawerHost, DrawerSeqs
  <2>3. /\ seq.before # "none" /\ DrawerTells(seq.before) /\ DrawerTells(pin) /\ DrawerToldBy(1)
        /\ step = "watch" /\ Len(answers) > 0 => DrawerTells(answers[1])
    BY <2>1 DEF DrawerHeard
  <2>4. DrawerTells(pin')
    <3>1. CASE pin' = pin BY <2>3, <3>1
    <3>2. CASE pin' # pin
      <4>1. Drawer!WatchAnswered
        BY <1>9, <3>2 DEF Drawer!Ask, Drawer!WatchTimesOut, Drawer!Judge, Drawer!Forget
      <4>2. pin' = answers[1] /\ Len(answers) > 0 /\ step = "watch"
        BY <4>1, DrawerTakes DEF Drawer!WatchAnswered
      <4> QED BY <2>3, <4>2
    <3> QED BY <3>1, <3>2
  <2>5. DrawerTells(pin)' /\ DrawerTells(seq.before)' /\ DrawerToldBy(1)'
    BY <2>1, <2>2, <2>3, <2>4 DEF DrawerTells, DrawerToldBy
  <2>6. step' \in {"ask", "watch", "judge", "idle"}
    BY <1>9 DEF Drawer!Ask, Drawer!SendPoll, Drawer!WatchAnswered, Drawer!WatchTimesOut,
                Drawer!Judge, Drawer!Returns
  <2>7. step' = "watch" => Len(answers') = 0
    <3>1. ASSUME step' = "watch" PROVE Drawer!Ask
      BY <1>9, <3>1 DEF Drawer!WatchAnswered, Drawer!WatchTimesOut, Drawer!Judge, Drawer!Returns
    <3>2. ASSUME Drawer!Ask, step' = "watch" PROVE answers' = answers /\ DrawerQuiet
      BY <3>2 DEF Drawer!Ask, Drawer!SendPoll, DrawerPolls, DrawerWaits
    <3> QED BY <3>1, <3>2 DEF DrawerQuiet
  <2> QED BY <2>2, <2>3, <2>5, <2>6, <2>7 DEF DrawerHeard
<1>10. CASE Drawer!OnBytes BY <1>10, DrawerHeardBytes
<1>11. CASE Drawer!PrinterAnswers
  <2>1. UNCHANGED <<step, seq, pin, answers, facts>> BY <1>11 DEF Drawer!PrinterAnswers, Drawer!host
  <2>2. DrawerTells(Drawer!LevelOf(open)) BY DrawerHonestLevel
  <2>3. \/ replies' = replies
        \/ /\ Len(replies) \in Nat /\ Len(replies') = Len(replies) + 1
           /\ \A i \in 1..Len(replies) : replies'[i] = replies[i]
           /\ replies'[Len(replies')].level = Drawer!LevelOf(open)
    BY <1>11, DrawerAnswersSay
  <2> QED BY <2>1, <2>2, <2>3, DrawerHonestReply DEF DrawerTells
<1>12. CASE Drawer!SwitchMoves
  <2>1. UNCHANGED <<step, seq, pin, answers>> BY <1>12 DEF Drawer!SwitchMoves, Drawer!host
  <2>2. /\ open' => facts'.opened
        /\ ~open' => facts'.closed
    BY DEF DrawerSwitch
  <2>3. (Drawer!LevelOf(open') = "high" => facts'.opened) /\ (Drawer!LevelOf(open') = "low" => facts'.closed)
    BY <2>2 DEF Drawer!LevelOf
  <2>4. (facts.opened => facts'.opened) /\ (facts.closed => facts'.closed) BY <1>12, DrawerMoves
  <2>5. \/ replies' = replies
        \/ /\ Len(replies) \in Nat /\ Len(replies') = Len(replies) + 1
           /\ \A i \in 1..Len(replies) : replies'[i] = replies[i]
           /\ replies'[Len(replies')].level = Drawer!LevelOf(open')
    BY <1>12, DrawerMovesSay
  <2> QED BY <2>1, <2>3, <2>4, <2>5, DrawerHonestReply
<1>13. CASE Drawer!LinkDrops
  <2>1. UNCHANGED <<step, seq, pin, answers, facts>> /\ replies' = <<>>
    BY <1>13 DEF Drawer!LinkDrops, Drawer!host
  <2>2. Len(replies') = 0 BY <2>1
  <2>3. DrawerToldBy(1)' BY <2>2 DEF DrawerToldBy
  <2>4. \A i \in 1..Len(replies') : FALSE BY <2>2
  <2> QED BY <2>1, <2>3, <2>4 DEF DrawerHeard, DrawerTells
<1>14. CASE Drawer!CalibrateDrawerPolarity \/ Drawer!CooldownPasses \/ Drawer!CoilCools
  <2>1. UNCHANGED <<step, seq, pin, answers, facts, replies>>
    BY <1>14 DEF Drawer!CalibrateDrawerPolarity, Drawer!CooldownPasses, Drawer!CoilCools,
         Drawer!world, Drawer!host
  <2> QED BY <2>1, DrawerHonestReply
<1> QED BY <1>3, <1>4, <1>5, <1>6, <1>7, <1>8, <1>9, <1>10, <1>11, <1>12, <1>13, <1>14
        DEF Drawer!Next, Drawer!Sequence, Drawer!Callers, Drawer!Environment

(* No sequence energises the coil that one of this process was the last to *)
(* energise, within the cooldown, or that of a drawer that has been out    *)
(* and not shut since: a calibrated sequence pulses only after "low".      *)
LEMMA DrawerSparedStep ==
  ASSUME DrawerBounds, DrawerTyped, DrawerHeard, ~facts.bad, ~facts.buzzed, Drawer!Next
  PROVE  ~facts'.bad /\ ~facts'.buzzed
<1>1. CASE facts' = facts BY <1>1
<1>2. CASE \/ Drawer!OpenDrawerRefused \/ Drawer!OpenDrawerUnreachable \/ Drawer!OpenDrawer
           \/ Drawer!ReadDrawerSensor \/ Drawer!Restart
  <2>1. facts' = Drawer!Begin /\ facts.tasks < MaxOperations
    BY <1>2 DEF Drawer!OpenDrawerRefused, Drawer!OpenDrawerUnreachable, Drawer!OpenDrawer,
                Drawer!ReadDrawerSensor, Drawer!Restart
  <2> QED BY <2>1, DrawerBegins
<1>3. CASE Drawer!Pulse
  <2>1. seq.calibrated /\ seq.before # "none" => facts.closed
    BY <1>3 DEF Drawer!Pulse, DrawerHeard, DrawerTells
  <2> QED BY <1>3, <2>1, DrawerPulses
<1>4. CASE Drawer!OpenCashDrawer BY <1>4, DrawerKicked
<1>5. CASE Drawer!SwitchMoves BY <1>5, DrawerMoves
<1>6. CASE Drawer!OnBytes BY <1>6, DrawerHears
<1>7. CASE \/ Drawer!AskBefore \/ Drawer!Ask \/ Drawer!PrinterAnswers \/ Drawer!LinkDrops
           \/ Drawer!LinkReturns
  BY <1>1, <1>7 DEF Drawer!AskBefore, Drawer!Ask, Drawer!PrinterAnswers, Drawer!LinkDrops,
         Drawer!LinkReturns
<1>8. CASE \/ Drawer!ApplyStoredDrawerPolarity \/ Drawer!BeforeAnswered \/ Drawer!BeforeTimesOut
           \/ Drawer!WatchAnswered \/ Drawer!WatchTimesOut \/ Drawer!Judge \/ Drawer!ReadAnswered
           \/ Drawer!CalibrateDrawerPolarity \/ Drawer!CooldownPasses \/ Drawer!CoilCools
  BY <1>1, <1>8 DEF Drawer!ApplyStoredDrawerPolarity, Drawer!BeforeAnswered, Drawer!BeforeTimesOut,
         Drawer!WatchAnswered, Drawer!WatchTimesOut, Drawer!Judge, Drawer!ReadAnswered,
         Drawer!CalibrateDrawerPolarity, Drawer!CooldownPasses, Drawer!CoilCools,
         Drawer!world, Drawer!host
<1> QED BY <1>2, <1>3, <1>4, <1>5, <1>6, <1>7, <1>8
        DEF Drawer!Next, Drawer!Sequence, Drawer!Callers, Drawer!Environment

(* The invariant holds at the start.                                       *)
LEMMA DrawerInit == ASSUME DrawerBounds, Drawer!Init PROVE DrawerInv
<1>1. DrawerTyped /\ DrawerPolls BY DrawerTypedInit, DrawerPollsInit
<1>2. DrawerHeard BY DEF Drawer!Init, DrawerHeard
<1>3. open = FALSE /\ facts.closed /\ ~facts.bad /\ ~facts.buzzed BY DEF Drawer!Init
<1> QED BY <1>1, <1>2, <1>3 DEF DrawerInv, DrawerSwitch

(* Every step of the drawer keeps the invariant.                           *)
LEMMA DrawerStep ==
  ASSUME DrawerBounds, DrawerInv, [Drawer!Next]_(Drawer!vars) PROVE DrawerInv'
<1>1. CASE Drawer!Next
  <2>1. DrawerTyped' BY <1>1, DrawerHostStep, DrawerWorldStep, DrawerCoilStep
    DEF DrawerInv, DrawerTyped
  <2>2. DrawerPolls' BY <1>1, DrawerPollsStep DEF DrawerInv
  <2>3. DrawerSwitch' BY <1>1, DrawerSwitchStep DEF DrawerInv
  <2>4. DrawerHeard' BY <1>1, <2>3, DrawerHeardStep DEF DrawerInv
  <2>5. ~facts'.bad /\ ~facts'.buzzed BY <1>1, DrawerSparedStep DEF DrawerInv
  <2> QED BY <2>1, <2>2, <2>3, <2>4, <2>5 DEF DrawerInv
<1>2. CASE UNCHANGED Drawer!vars
  BY <1>2 DEF Drawer!vars, Drawer!host, Drawer!world, DrawerInv, DrawerTyped, DrawerHost, DrawerWorld, DrawerCoil,
       DrawerPolls, DrawerOneLevel, DrawerNoLevel, DrawerAsked, DrawerOwed, DrawerGiven, DrawerQuiet,
       DrawerSwitch, DrawerHeard, DrawerTells, DrawerToldBy
<1> QED BY <1>1, <1>2

(* What the invariant says of the drawer: the types, no answer outstanding *)
(* between two polls, no sequence too soon after a sequence's pulse and    *)
(* none into an open drawer.                                               *)
LEMMA DrawerPromises ==
  ASSUME DrawerInv
  PROVE  Drawer!TypeOK /\ Drawer!NeverPulsesIntoOpen /\ Drawer!CooldownHeld
<1>1. Len(answers) \in Nat BY DEF DrawerInv, DrawerTyped, DrawerHost
<1>2. /\ expect \in 0..1 /\ questions \in Nat
      /\ expect + Len(answers) > 0 => step \in {"before", "watch", "read"}
  BY <1>1 DEF DrawerInv, DrawerPolls, DrawerAsked, DrawerOwed, DrawerGiven, DrawerQuiet, DrawerWaits
<1>3. Drawer!TypeOK
  BY <1>2 DEF DrawerInv, DrawerTyped, DrawerHost, DrawerWorld, DrawerCoil, Drawer!TypeOK, DrawerSeqs, DrawerResults,
       DrawerSteps_, DrawerWaits
<1> QED BY <1>3 DEF DrawerInv, Drawer!NeverPulsesIntoOpen, Drawer!CooldownHeld

(* The verdict that claims movement is given on levels this sequence       *)
(* measured: "high" seen with a calibrated switch, or two different levels *)
(* seen with one that is not.                                              *)
LEMMA DrawerVerdict ==
  ASSUME DrawerInv, [Drawer!Next]_(Drawer!vars) PROVE Drawer!OpenVerifiedMeansMoved
<1> SUFFICES ASSUME step = "judge", step' = "idle", result'.state = "OpenVerified"
             PROVE  IF seq.calibrated THEN facts.opened ELSE facts.opened /\ facts.closed
  BY DEF Drawer!OpenVerifiedMeansMoved, Drawer!Verdict
<1>1. Drawer!Judge
  <2>1. Drawer!Next BY DEF Drawer!vars, Drawer!host
  <2> QED BY <2>1 DEF Drawer!Next, Drawer!Sequence, Drawer!Callers, Drawer!Environment,
       Drawer!ApplyStoredDrawerPolarity, Drawer!AskBefore, Drawer!BeforeAnswered,
       Drawer!BeforeTimesOut, Drawer!Pulse, Drawer!Ask, Drawer!WatchAnswered, Drawer!WatchTimesOut,
       Drawer!ReadAnswered, Drawer!OpenDrawerRefused, Drawer!OpenDrawerUnreachable,
       Drawer!OpenDrawer, Drawer!OpenCashDrawer, Drawer!ReadDrawerSensor,
       Drawer!CalibrateDrawerPolarity, Drawer!Restart, Drawer!OnBytes, Drawer!PrinterAnswers,
       Drawer!SwitchMoves, Drawer!LinkDrops, Drawer!LinkReturns, Drawer!CooldownPasses,
       Drawer!CoilCools, Drawer!host
<1>2. pin # "none" /\ Drawer!Opened(pin)
  BY <1>1 DEF Drawer!Judge, Drawer!Returns
<1>3. /\ DrawerTells(seq.before) /\ DrawerTells(pin) /\ seq.before # "none"
  BY DEF DrawerInv, DrawerHeard
<1>4. {pin, seq.before} \subseteq {"high", "low"}
  BY <1>2, <1>3 DEF DrawerInv, DrawerTyped, DrawerHost, DrawerSeqs, Drawer!Levels
<1> QED BY <1>2, <1>3, <1>4 DEF Drawer!Opened, DrawerTells

=============================================================================
