------------------------------ MODULE AgentJobs ------------------------------
(***************************************************************************)
(* The agent behind its HTTP server: requests of several tills, each on a  *)
(* worker thread of its own, that add printers and submit jobs to the one  *)
(* driver of the deployment. A handler is a process here: it lets go of    *)
(* the agent's mutex between its steps, so what it checked may have        *)
(* changed by the time it acts. The driver's index of keys and the life of *)
(* a job are those of the engine, whose own model is PrintEngine.          *)
(*                                                                         *)
(* Outcome_Optimistic is a faulty variant, kept to show that the           *)
(* properties can fail.                                                    *)
(***************************************************************************)
EXTENDS Integers, Sequences, SequencesExt

CONSTANTS
    Requests,  \* HTTP requests in a behaviour
    Ids,       \* printer ids a POST /printers may name
    Endpoints, \* host:port pairs
    Keys,      \* idempotency keys of the tills
    AnyKind,   \* requests of any kind: the others submit a job under a key
    MaxJobIds  \* bound: jobs of the driver

VARIABLES
    owned,     \* printers_: sequence of [id, endpoint]
    request,   \* request -> [at, id, endpoint, key, job, record], a handler and its locals
    answer,    \* request -> [status, job, outcome] it got
    byKey,     \* the driver's index: key -> newest job, 0 for none
    jobs       \* job -> [key, state, record, printed]: the job object's state, that of its
               \* journal record, and whether its receipt is on paper

vars == <<owned, request, answer, byKey, jobs>>

JobIds == 1..MaxJobIds

Terminal == {"Done", "Unknown", "FailedKnown"}

\* A submission without a key gets one of its own from the driver.
NoKey == "no key"

NoAnswer == [status |-> 0, job |-> 0, outcome |-> "none"]

\* start() adds the configured printers, here one, before the server listens.
Init ==
    /\ owned = <<[id |-> CHOOSE i \in Ids : TRUE, endpoint |-> CHOOSE e \in Endpoints : TRUE]>>
    /\ request = [r \in Requests |-> [at |-> "none"]]
    /\ answer = [r \in Requests |-> NoAnswer]
    /\ byKey = [k \in Keys |-> 0]
    /\ jobs = [j \in JobIds |-> [key |-> "none", state |-> "none", record |-> "none",
                                 printed |-> FALSE]]

Goes(r, at) == request' = [request EXCEPT ![r].at = at]

Answers(r, status, job, outcome) ==
    /\ answer' = [answer EXCEPT ![r] = [status |-> status, job |-> job, outcome |-> outcome]]
    /\ request' = [request EXCEPT ![r] = [at |-> "answered"]]

engine == <<byKey, jobs>>

-----------------------------------------------------------------------------
(* POST /printers. *)

PostPrinters(r) ==
    /\ request[r].at = "none" /\ r \in AnyKind
    /\ \/ Answers(r, 400, 0, "none")
       \/ UNCHANGED answer /\ \E i \in Ids, e \in Endpoints :
             request' = [request EXCEPT ![r] = [at |-> "check", id |-> i, endpoint |-> e]]
    /\ UNCHANGED <<owned, engine>>

\* addPrinter's locked check: neither the id nor the endpoint may be owned.
AddChecks(r) ==
    /\ request[r].at = "check"
    /\ IF \E p \in Range(owned) : p.id = request[r].id \/ p.endpoint = request[r].endpoint
         THEN Answers(r, 409, 0, "none")
         ELSE Goes(r, "register") /\ UNCHANGED answer
    /\ UNCHANGED <<owned, engine>>

\* The lane has been started without the lock; it is now registered.
AddRegisters(r) ==
    /\ request[r].at = "register"
    /\ owned' = Append(owned, [id |-> request[r].id, endpoint |-> request[r].endpoint])
    /\ Answers(r, 201, 0, "none")
    /\ UNCHANGED engine

-----------------------------------------------------------------------------
(* POST /jobs. *)

\* A job for printer i. A body that does not parse is answered 400, an unknown printer 404.
PostJobs(r) ==
    /\ request[r].at = "none"
    /\ \/ Answers(r, 400, 0, "none")
       \/ \E i \in Ids, k \in Keys \cup {NoKey : x \in {r} \cap AnyKind} :
             IF \E p \in Range(owned) : p.id = i
               THEN /\ request' = [request EXCEPT ![r] = [at |-> "dedupe", key |-> k, job |-> 0]]
                    /\ UNCHANGED answer
               ELSE Answers(r, 404, 0, "none")
    /\ UNCHANGED <<owned, engine>>

Named(key) == IF key = NoKey THEN 0 ELSE byKey[key]

\* The fleet-wide dedupe: whatever job the key names is the answer, and nothing is printed.
PostDedupes(r) ==
    /\ request[r].at = "dedupe"
    /\ LET j == Named(request[r].key)
       IN IF j # 0 THEN request' = [request EXCEPT ![r].at = "record", ![r].job = j]
                   ELSE Goes(r, "build")
    /\ UNCHANGED <<owned, answer, engine>>

\* The options and the payload: text, a raster or a template, or a 400 and no job.
PostBuilds(r) ==
    /\ request[r].at = "build"
    /\ Answers(r, 400, 0, "none") \/ (Goes(r, "submit") /\ UNCHANGED answer)
    /\ UNCHANGED <<owned, engine>>

\* The job a submission resolves to: a key in the index keeps its job, unless that failed.
Resolves(key) == Named(key) = 0 \/ jobs[Named(key)].state = "FailedKnown"

\* A self-test waits for the job's own end, a till at most wait_ms.
Then(r) == IF "selfTest" \in DOMAIN request[r] THEN "ends" ELSE "wait"

\* Printer::print: one lock for the index, the journal record and the lane.
PostSubmits(r) ==
    /\ request[r].at = "submit"
    /\ LET k == request[r].key
           fresh == {j \in JobIds : jobs[j].state = "none"}
           j == CHOOSE j \in fresh : \A i \in fresh : j <= i
       IN IF Resolves(k)
            THEN /\ fresh # {}
                 /\ byKey' = [x \in Keys |-> IF x = k THEN j ELSE byKey[x]]
                 /\ jobs' = [jobs EXCEPT ![j] = [key |-> k, state |-> "Queued",
                                                 record |-> "Queued", printed |-> FALSE]]
                 /\ request' = [request EXCEPT ![r].at = Then(r), ![r].job = j]
            ELSE /\ request' = [request EXCEPT ![r].at = Then(r), ![r].job = byKey[k]]
                 /\ UNCHANGED engine
    /\ UNCHANGED <<owned, answer>>

\* result(wait_ms): the job ended, or the wait did.
PostWaits(r) ==
    /\ request[r].at = "wait"
    /\ request' = [request EXCEPT ![r] =
                     [at |-> "record", key |-> request[r].key, job |-> request[r].job,
                      terminal |-> jobs[request[r].job].state \in Terminal]]
    /\ UNCHANGED <<owned, answer, engine>>

\* store().findById, before the agent's mutex is taken for the answer.
PostRecords(r) ==
    /\ request[r].at = "record"
    /\ request' = [request EXCEPT ![r] = [at |-> "answer", job |-> request[r].job,
                     record |-> jobs[request[r].job].record,
                     status |-> IF "terminal" \notin DOMAIN request[r] THEN 200
                                ELSE IF request[r].terminal THEN 201 ELSE 202]]
    /\ UNCHANGED <<owned, answer, engine>>

Outcome_Optimistic(j, record) ==
    IF jobs[j].state \in Terminal THEN jobs[j].state
    ELSE IF record # "Queued" THEN "Done" ELSE "none"

\* evidenceJson: the job's own result when it has one by now, the record's state otherwise.
Outcome(j, record) ==
    IF jobs[j].state \in Terminal THEN jobs[j].state
    ELSE IF record \in Terminal THEN record ELSE "none"

PostAnswers(r) ==
    /\ request[r].at = "answer"
    /\ Answers(r, request[r].status, request[r].job, Outcome(request[r].job, request[r].record))
    /\ UNCHANGED <<owned, engine>>

-----------------------------------------------------------------------------
(* The other handlers. *)

\* GET /jobs/<key or token>.
GetJob(r) ==
    /\ request[r].at = "none" /\ r \in AnyKind
    /\ \E k \in Keys :
          IF byKey[k] = 0 THEN Answers(r, 404, 0, "none")
          ELSE /\ request' = [request EXCEPT ![r] = [at |-> "record", key |-> k, job |-> byKey[k]]]
               /\ UNCHANGED answer
    /\ UNCHANGED <<owned, engine>>

\* POST /printers/<id>/self-test: a ticket through the same engine, under the key it was
\* given, past the agent's dedupe.
PostPrinterSelfTest(r) ==
    /\ request[r].at = "none" /\ r \in AnyKind
    /\ \/ \E status \in {400, 404} : Answers(r, status, 0, "none")
       \/ /\ \E k \in Keys \cup {NoKey} :
                request' = [request EXCEPT ![r] = [at |-> "submit", key |-> k, job |-> 0,
                                                   selfTest |-> TRUE]]
          /\ UNCHANGED answer
    /\ UNCHANGED <<owned, engine>>

\* PrintJob::result without a timeout, and the three-way answer.
SelfTestAnswers(r) ==
    /\ request[r].at = "ends"
    /\ LET state == jobs[request[r].job].state
       IN /\ state \in Terminal
          /\ Answers(r, CASE state = "Done" -> 200 [] state = "FailedKnown" -> 409 [] OTHER -> 202,
                     request[r].job, state)
    /\ UNCHANGED <<owned, engine>>

-----------------------------------------------------------------------------
(* The lane that runs job j: it starts sending, prints or not, journals, then tells. *)

LaneSends(j) ==
    /\ jobs[j].record = "Queued"
    /\ \E printed \in BOOLEAN :
          jobs' = [jobs EXCEPT ![j] = [@ EXCEPT !.state = "SendStarted", !.record = "SendStarted",
                                                !.printed = printed]]
    /\ UNCHANGED <<owned, request, answer, byKey>>

\* terminate: the journal first. A job that ended FailedKnown never sent its payload.
LaneJournals(j) ==
    /\ \E s \in Terminal :
          /\ jobs[j].record = (IF s = "FailedKnown" THEN "Queued" ELSE "SendStarted")
          /\ s = "Done" => jobs[j].printed
          /\ jobs' = [jobs EXCEPT ![j].record = s]
    /\ UNCHANGED <<owned, request, answer, byKey>>

LaneFinishes(j) ==
    /\ jobs[j].state \notin Terminal /\ jobs[j].record \in Terminal
    /\ jobs' = [jobs EXCEPT ![j].state = jobs[j].record]
    /\ UNCHANGED <<owned, request, answer, byKey>>

Handler(r) ==
    \/ AddChecks(r) \/ AddRegisters(r)
    \/ PostDedupes(r) \/ PostBuilds(r) \/ PostSubmits(r) \/ PostWaits(r) \/ PostRecords(r) \/ PostAnswers(r)
    \/ SelfTestAnswers(r)

Next ==
    \/ \E r \in Requests : \/ PostPrinters(r) \/ PostJobs(r) \/ GetJob(r)
                         \/ PostPrinterSelfTest(r) \/ Handler(r)
    \/ \E j \in JobIds : LaneSends(j) \/ LaneJournals(j) \/ LaneFinishes(j)

Spec == Init /\ [][Next]_vars

-----------------------------------------------------------------------------
(* Properties. *)

\* Fleet-wide dedupe: the same key from two tills, at the same instant and to different
\* printers, puts one receipt on paper. Only a key whose job failed without printing may be
\* attempted again.
OneReceiptPerKey ==
    \A i, j \in JobIds : 
        /\ jobs[i].printed /\ jobs[j].printed
        /\ jobs[i].key = jobs[j].key /\ jobs[i].key # NoKey
        => i = j

\* No answer runs ahead of the evidence: an outcome in the answer is that of the job the
\* handler holds, 201 has one, and 202 or 200 without one say that the job was not over.
\* An outcome once told stays true.
AnswersAreEvidence ==
    \A r \in Requests :
        /\ answer[r].outcome # "none" => jobs[answer[r].job].record = answer[r].outcome
        /\ answer[r].status = 201 /\ answer[r].job # 0 => answer[r].outcome # "none"

\* A request without its answer. It gets one, however long its printer takes: wait_ms bounds the
\* wait. Only a self-test is in the hands of its lane until the job ends.
Unanswered(r) == request[r].at \notin {"none", "answered", "ends"}
=============================================================================
