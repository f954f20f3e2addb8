------------------------------ MODULE CloudPrnt ------------------------------
(***************************************************************************)
(* The agent's CloudPRNT server for one route, and the printers that poll  *)
(* it. The printer dials the server: it polls, downloads the job the       *)
(* answer names, prints it, and confirms with a DELETE carrying a status   *)
(* code. A handler's work under the mutex is one step; poll() then, with   *)
(* no lock held, publishes what the status code told it, one callback at a *)
(* time, and answers last. What makes it hard is the other side: an HTTP   *)
(* answer may be lost, the printer then repeats the request, and the       *)
(* abandoned one may still be served, much later, or be publishing; the    *)
(* printer may lose power with a receipt printed and not confirmed; and a  *)
(* second device may poll the same URL.                                    *)
(*                                                                         *)
(* An operator named X_y is a faulty variant of X, kept to show that the   *)
(* properties can fail.                                                    *)
(***************************************************************************)
EXTENDS Integers, Sequences, FiniteSets, SequencesExt

CONSTANTS
    Devices,     \* printers that know the URL
    Pins,        \* CloudPrntSpec::mac in the configurations considered, "none" for no pin
    Tokenless,   \* those whose firmware sends no token with a download or a DELETE
    PollCodes,   \* status codes a poll may carry, 0 for none
    MaxTokens,   \* bound: jobs submitted
    MaxPending,  \* CloudPrntSpec::max_pending
    MaxHistory,  \* CloudPrntSpec::max_history
    MaxLost,     \* bound: requests a printer gives up on
    MaxRestarts  \* bound: times a printer loses power

VARIABLES
    issued,    \* sequence_, which makes the tokens distinct
    pending,   \* tokens waiting, the head is the one offered
    cloudJobs, \* token -> "absent", "queued", "delivered" or the outcome of its confirmation
    history,   \* confirmed tokens, oldest first
    mac,       \* [pinned, bound]: the identity the route belongs to, "none" when unclaimed
    announced, \* printer.announced: Online has been collected once
    fault,     \* printer.fault, "none" when there is none
    told,      \* what a subscriber to the device events believes to be at fault
    raced,     \* the last events were collected while a poll still had earlier ones to publish
    device,    \* external: device -> [at, token, code, try, named], its firmware
    net,       \* requests not yet answered; a poll that has left the lock is `served', with
               \* the job its answer offers and the events it has yet to publish
    receipts,  \* external: token -> copies on paper
    faults     \* [lost, restarts] so far

server == <<issued, pending, cloudJobs, history, mac>>
reported == <<announced, fault, told, raced>>
vars == <<server, reported, device, net, receipts, faults>>

Tokens == 1..MaxTokens

Outcomes == {"Done", "Failed", "Unknown"}

\* Tokens never issued, or evicted from the history: an unknown job either way.
Forgotten == {t \in Tokens : cloudJobs[t] = "absent"}

Open == {t \in Tokens : cloudJobs[t] \in {"queued", "delivered"}}

Init ==
    /\ issued = 0 /\ pending = <<>> /\ cloudJobs = [t \in Tokens |-> "absent"] /\ history = <<>>
    /\ \E owner \in Pins, named \in SUBSET Devices :
          \* a pinned route serves its owner when it says who it is; an unpinned one is
          \* shared by all who do not say
          /\ named = Devices \/ owner \in named
          /\ mac = [pinned |-> owner # "none", bound |-> owner]
          /\ device = [d \in Devices |->
                         [at |-> "idle", token |-> 0, code |-> 0, try |-> 0,
                          named |-> d \in named]]
    /\ announced = FALSE /\ fault = "none" /\ told = {} /\ raced = FALSE /\ net = {}
    /\ receipts = [t \in Tokens |-> 0] /\ faults = [lost |-> 0, restarts |-> 0]

-----------------------------------------------------------------------------
(* The documented status table. *)

DeviceFaults == {211, 410, 411, 412, 420}

JobRefusals == {510, 511, 512, 520, 521, 1000, 1001}

\* cloudPrntDisposition, with 0 for a DELETE that carries no readable code.
Disposition(code) ==
    CASE code = 200 -> "Done"
      [] code \in (DeviceFaults \ {211}) \cup JobRefusals \cup 400..599 -> "Failed"
      [] OTHER -> "Unknown"

Healthy(code) == code \in {200, 201, 220, 221}

\* cloudPrntDeviceEvent, "none" for a code that maps to no event.
FaultOf(code) ==
    CASE code = 211 -> "PaperNearEnd" [] code = 410 -> "PaperOut" [] code = 420 -> "CoverOpen"
      [] code \in {411, 412} -> "RecoverableError" [] OTHER -> "none"

\* The way back from a fault.
Recovery(f) ==
    CASE f \in {"PaperOut", "PaperNearEnd"} -> "PaperOk" [] f = "CoverOpen" -> "CoverClosed"
      [] OTHER -> "Online"

FaultEvents == {"PaperNearEnd", "PaperOut", "CoverOpen", "RecoverableError"}
DeviceEvents == FaultEvents \cup {"PaperOk", "CoverClosed", "Online"}

\* What an event speaks of: paper, cover and mechanism apart.
Concern(e) ==
    CASE e \in {"PaperNearEnd", "PaperOut", "PaperOk"} -> "paper"
      [] e \in {"CoverOpen", "CoverClosed"} -> "cover" [] OTHER -> "mechanism"

\* What a subscriber believes to be at fault once event e has reached it.
Believed(e) == IF e \in FaultEvents THEN told \cup {Concern(e)} ELSE told \ {Concern(e)}

\* The fault a poll with this code leaves on record.
FaultAfter(code) ==
    CASE FaultOf(code) # "none" -> FaultOf(code) [] Healthy(code) -> "none" [] OTHER -> fault

Observed_Masked(code) ==
    (IF announced THEN <<>> ELSE <<"Online">>)
    \o (IF FaultAfter(code) = fault THEN <<>>
        ELSE IF FaultAfter(code) = "none" THEN <<Recovery(fault)>>
        ELSE IF fault = "none" THEN <<FaultAfter(code)>> ELSE <<>>)

\* The events observe() collects: Online with the first poll, a fault that is not the one on
\* record, and the way back from that one.
Observed(code) ==
    (IF announced THEN <<>> ELSE <<"Online">>)
    \o (IF FaultAfter(code) = fault THEN <<>>
        ELSE IF FaultAfter(code) = "none" THEN <<Recovery(fault)>> ELSE <<FaultAfter(code)>>)

\* A poll between the lock and its last callback.
Publishing(r) == r.served /\ r.events # <<>>

\* observe.
Observe(code) ==
    /\ announced' = TRUE /\ fault' = FaultAfter(code)
    /\ raced' = IF Observed(code) = <<>> THEN raced ELSE \E s \in net : Publishing(s)
    /\ UNCHANGED told

-----------------------------------------------------------------------------
(* The handlers. Each answers the device that still waits for it, or nobody. *)

\* identityMatches, without the adoption: only a poll may claim an unclaimed route.
IdentityMatches(name, adopt) ==
    IF name = "none" THEN ~(mac.pinned /\ adopt)
                     ELSE mac.bound \in {name, "none"}

\* The answer travels on the request's own connection: it reaches the device that still
\* waits on it, and nobody once that device has given up.
Answer(r, next) ==
    device' = IF device[r.dev].at = r.op /\ device[r.dev].try = r.try
                THEN [device EXCEPT ![r.dev] = next] ELSE device

Idle(d) == [device[d] EXCEPT !.at = "idle", !.token = 0, !.code = 0]

\* An answer that leaves the queue as it is and sends the device back to polling.
Dismissed(r) == Answer(r, Idle(r.dev)) /\ UNCHANGED <<pending, cloudJobs, history>>

Offered_Newest == IF pending = <<>> THEN 0 ELSE Last(pending)

\* The job poll() offers: the head, for as long as it is unconfirmed.
Offered == IF pending = <<>> THEN 0 ELSE Head(pending)

\* poll, after the identity check: it may bind the route. The answer is made under the lock
\* and given after the events have been published.
Poll(r) ==
    /\ r.op = "polling" /\ ~r.served
    /\ IF IdentityMatches(r.name, TRUE)
         THEN /\ mac' = IF mac.bound = "none" THEN [mac EXCEPT !.bound = r.name] ELSE mac
              /\ Observe(r.code)
              /\ net' = (net \ {r})
                          \cup {[r EXCEPT !.served = TRUE, !.offer = Offered,
                                          !.events = Observed(r.code)]}
              /\ UNCHANGED <<pending, cloudJobs, history, device>>
         ELSE Dismissed(r) /\ net' = net \ {r} /\ UNCHANGED <<mac, reported>>

\* publish, one callback a step, and then the answer to the poll.
Publish(r) ==
    /\ r.op = "polling" /\ r.served
    /\ IF Publishing(r)
         THEN /\ told' = Believed(Head(r.events))
              /\ net' = (net \ {r}) \cup {[r EXCEPT !.events = Tail(@)]}
              /\ UNCHANGED device
         ELSE /\ Answer(r, IF r.offer = 0 THEN Idle(r.dev)
                           ELSE [device[r.dev] EXCEPT !.at = "offered", !.token = r.offer])
              /\ net' = net \ {r} /\ UNCHANGED told
    /\ UNCHANGED <<pending, cloudJobs, history, mac, announced, fault, raced>>

\* The job a download or a DELETE is about: the one it names, or the head.
Wanted(r) == IF r.sends = 0 THEN Offered ELSE r.sends

\* fetchJob: counted, never consumed. A device always asks for a type it was offered.
FetchJob(r) ==
    /\ r.op = "fetching"
    /\ LET t == Wanted(r)
       IN IF IdentityMatches(r.name, FALSE) /\ t \in Open
            THEN /\ cloudJobs' = [cloudJobs EXCEPT ![t] = "delivered"]
                 /\ Answer(r, [device[r.dev] EXCEPT !.at = "have", !.token = t])
                 /\ UNCHANGED <<pending, history>>
            ELSE Dismissed(r)
    /\ net' = net \ {r} /\ UNCHANGED <<mac, reported>>

\* The end of confirm: the job leaves the queue, the oldest results are forgotten.
Retired(t, outcome) ==
    LET remembered == Append(history, t)
        excess == IF Len(remembered) > MaxHistory THEN Len(remembered) - MaxHistory ELSE 0
        kept == SubSeq(remembered, excess + 1, Len(remembered))
    IN /\ pending' = RemoveFirst(pending, t)
       /\ history' = kept
       /\ cloudJobs' = [u \in Tokens |-> IF u = t THEN outcome
                                         ELSE IF u \in Range(remembered) \ Range(kept) THEN "absent"
                                         ELSE cloudJobs[u]]

Confirm_LastCode(r) ==
    /\ r.op = "deleting"
    /\ LET t == Wanted(r)
       IN CASE ~IdentityMatches(r.name, FALSE) \/ t = 0 \/ t \in Forgotten -> Dismissed(r)
            [] cloudJobs[t] \in Outcomes ->
                 /\ cloudJobs' = [cloudJobs EXCEPT ![t] = Disposition(r.code)]
                 /\ Answer(r, Idle(r.dev)) /\ UNCHANGED <<pending, history>>
            [] OTHER -> Retired(t, Disposition(r.code)) /\ Answer(r, Idle(r.dev))
    /\ net' = net \ {r} /\ UNCHANGED <<mac, reported>>

\* confirm. A job already confirmed gets the same answer again and keeps its first code.
Confirm(r) ==
    /\ r.op = "deleting"
    /\ LET t == Wanted(r)
       IN CASE ~IdentityMatches(r.name, FALSE) \/ t = 0 \/ t \in Forgotten -> Dismissed(r)
            [] cloudJobs[t] \in Outcomes -> Dismissed(r)
            [] OTHER -> Retired(t, Disposition(r.code)) /\ Answer(r, Idle(r.dev))
    /\ net' = net \ {r} /\ UNCHANGED <<mac, reported>>

\* An HTTP worker goes on with a request of device d, an abandoned one perhaps.
Serve(d) ==
    \E r \in net :
        /\ r.dev = d
        /\ Poll(r) \/ Publish(r) \/ FetchJob(r) \/ Confirm(r)
        /\ UNCHANGED <<issued, receipts, faults>>

\* postJob and submit: a full queue refuses, and tokens never repeat.
Submit ==
    /\ issued < MaxTokens /\ Len(pending) < MaxPending
    /\ issued' = issued + 1
    /\ pending' = Append(pending, issued + 1)
    /\ cloudJobs' = [cloudJobs EXCEPT ![issued + 1] = "queued"]
    /\ UNCHANGED <<history, mac, reported, device, net, receipts, faults>>

-----------------------------------------------------------------------------
(* The printers. *)

\* Device d sends a request and waits for its answer.
Sends(d, op, code) ==
    /\ device' = [device EXCEPT ![d].at = op]
    /\ net' = net \cup {[dev |-> d, op |-> op, try |-> device[d].try, code |-> code,
                         sends |-> IF d \in Tokenless THEN 0 ELSE device[d].token,
                         name |-> IF device[d].named THEN d ELSE "none",
                         served |-> FALSE, offer |-> 0, events |-> <<>>]}
    /\ UNCHANGED <<server, reported, receipts, faults>>

SendPoll(d) == device[d].at = "idle" /\ \E code \in PollCodes : Sends(d, "polling", code)

SendGet(d) == device[d].at = "offered" /\ Sends(d, "fetching", 0)

\* The printer prints and has a code to say so, or cannot and has a code to say that; some
\* codes say neither.
PrintReceipt(d) ==
    /\ device[d].at = "have"
    /\ \E printed \in BOOLEAN, code \in {200, 410, 220, 0} :
          /\ code = 200 => printed
          /\ code = 410 => ~printed
          /\ device' = [device EXCEPT ![d].at = "printed", ![d].code = code]
          /\ receipts' = [receipts EXCEPT ![device[d].token] = @ + (IF printed THEN 1 ELSE 0)]
    /\ UNCHANGED <<server, reported, net, faults>>

SendDelete(d) == device[d].at = "printed" /\ Sends(d, "deleting", device[d].code)

\* The printer gives up on an answer and sends the request again. The server may have served
\* it already, may serve it later, or never.
GiveUp(d) ==
    /\ faults.lost < MaxLost /\ device[d].at \in {"polling", "fetching", "deleting"}
    /\ faults' = [faults EXCEPT !.lost = @ + 1]
    /\ device' = [device EXCEPT ![d].try = @ + 1,
                     ![d].at = CASE @ = "polling" -> "idle"
                                 [] @ = "fetching" -> "offered"
                                 [] OTHER -> "printed"]
    /\ \/ net' = net
       \/ net' = {r \in net : r.dev = d /\ r.try = device[d].try => r.served} /\ net' # net
    /\ UNCHANGED <<server, reported, receipts>>

\* The printer loses power: what it held is gone, what it printed is not.
PowerLoss(d) ==
    /\ faults.restarts < MaxRestarts /\ device[d].at # "idle"
    /\ faults' = [faults EXCEPT !.restarts = @ + 1]
    /\ device' = [device EXCEPT ![d] = [Idle(d) EXCEPT !.try = @ + 1]]
    /\ UNCHANGED <<server, reported, net, receipts>>

Firmware(d) == SendPoll(d) \/ SendGet(d) \/ PrintReceipt(d) \/ SendDelete(d)

Next == Submit \/ \E d \in Devices : Serve(d) \/ Firmware(d) \/ GiveUp(d) \/ PowerLoss(d)

Spec == Init /\ [][Next]_vars

-----------------------------------------------------------------------------
(* Properties. *)

TypeOK ==
    /\ issued \in 0..MaxTokens
    /\ pending \in BoundedSeq(Tokens, MaxPending) /\ history \in BoundedSeq(Tokens, MaxHistory)
    /\ cloudJobs \in [Tokens -> {"absent", "queued", "delivered"} \cup Outcomes]
    /\ mac.bound \in Devices \cup {"none"} /\ fault \in FaultEvents \cup {"none"}
    /\ told \subseteq {"paper", "cover", "mechanism"}

\* Rule 1 and rule 3: a job stays in the queue, offered in its turn, until a DELETE is served
\* for it. Neither a download, interrupted or not, nor a power loss takes it out, and the
\* receipts are retired in the order they were submitted.
RetainedUntilConfirmed ==
    /\ Range(pending) = Open
    /\ LET all == history \o pending IN \A i, j \in 1..Len(all) : i < j => all[i] < all[j]

\* Rule 4: a job reads Done only if a printer put that very job on paper, whatever repeated,
\* late or abandoned DELETEs the server was served before.
DoneMeansPrinted == \A t \in Tokens : cloudJobs[t] = "Done" => receipts[t] > 0

\* A receipt comes out once. Only a printer that lost power between its paper and its DELETE
\* prints again; a job that reads Failed has no other copy on paper.
OneCopy ==
    \A t \in Tokens : receipts[t] <= faults.restarts + (IF cloudJobs[t] = "Failed" THEN 0 ELSE 1)

\* confirm: the first code served is the evidence. A later DELETE, of the same printer or of
\* its previous life, changes no outcome; only the eviction of the history forgets it.
FirstCodeIsTheEvidence ==
    \A t \in Tokens : cloudJobs[t] \in Outcomes => cloudJobs'[t] \in {cloudJobs[t], "absent"}

\* observe and publish: a fault on record is believed by the subscribers or is on its way to
\* them, unless two polls published at once. Then the callbacks of the earlier may come last
\* and leave the subscribers without the fault, until the next event.
FaultsAreTold ==
    fault # "none" /\ ~raced
      => Concern(fault) \in told \/ \E r \in net : fault \in Range(r.events)

\* A job the printer has not confirmed. It is in the end, on a route that has a printer: lost
\* answers and power losses delay it and never strand it.
Unsettled(t) == t \in Open
=============================================================================
