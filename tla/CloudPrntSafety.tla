--------------------------- MODULE CloudPrntSafety ---------------------------
(***************************************************************************)
(* Safety of the CloudPRNT server and of the printers that poll it, for    *)
(* any number of jobs, printers, lost answers and power losses.  QueueInv  *)
(* says what the server's queue and history hold, and that of the tokens a *)
(* printer or a request still carries only the head of the queue can be    *)
(* unconfirmed; PaperInv relates the receipts on paper to where each       *)
(* printer is and to every request it has abandoned.                       *)
(***************************************************************************)
EXTENDS CloudPrnt, TLAPS, SequenceTheorems

(* What the theorems assume of a deployment: the bounds of the model, and  *)
(* that "none" names no printer.                                           *)
Deployment ==
  /\ MaxTokens \in Nat /\ MaxPending \in Nat /\ MaxHistory \in Nat
  /\ Pins \subseteq Devices \cup {"none"} /\ "none" \notin Devices

-----------------------------------------------------------------------------
(* The inductive invariant.                                                *)

Phases == {"idle", "polling", "offered", "fetching", "have", "printed", "deleting"}
Calls == {"polling", "fetching", "deleting"}
PrintCodes == {200, 410, 220, 0}

DeviceStates ==
  [at : Phases, token : 0..MaxTokens, code : PrintCodes, try : Nat, named : BOOLEAN]

Messages ==
  [dev : Devices, op : Calls, try : Nat, code : PollCodes \cup PrintCodes,
   sends : 0..MaxTokens, name : Devices \cup {"none"},
   served : BOOLEAN, offer : 0..MaxTokens, events : Seq(DeviceEvents)]

JobStates == {"absent", "queued", "delivered"} \cup Outcomes

TypedServer ==
  /\ issued \in 0..MaxTokens
  /\ pending \in Seq(Tokens) /\ history \in Seq(Tokens)
  /\ cloudJobs \in [Tokens -> JobStates]
  /\ mac \in [pinned : BOOLEAN, bound : Devices \cup {"none"}]
TypedEvents ==
  /\ announced \in BOOLEAN /\ raced \in BOOLEAN
  /\ fault \in FaultEvents \cup {"none"} /\ told \subseteq {"paper", "cover", "mechanism"}
  /\ fault # "none" => announced
TypedPrinters ==
  /\ device \in [Devices -> DeviceStates] /\ net \subseteq Messages
  /\ receipts \in [Tokens -> Nat] /\ faults \in [lost : Nat, restarts : Nat]
Typed == TypedServer /\ TypedEvents /\ TypedPrinters

Bounded == Len(pending) <= MaxPending /\ Len(history) <= MaxHistory

(* Tokens are queued, and then remembered, in the order they were issued.  *)
Ordered ==
  /\ \A i, j \in 1..Len(pending) : i < j => pending[i] < pending[j]
  /\ \A i, j \in 1..Len(history) : i < j => history[i] < history[j]
  /\ \A i \in 1..Len(history), j \in 1..Len(pending) : history[i] < pending[j]

QueuedIsOpen ==
  /\ \A i \in 1..Len(pending) : pending[i] \in Open
  /\ \A t \in Open : \E i \in 1..Len(pending) : pending[i] = t

(* A token that was never issued is in no hand.                            *)
Unissued ==
  /\ \A t \in Tokens : t > issued => cloudJobs[t] = "absent" /\ receipts[t] = 0
  /\ \A i \in 1..Len(history) : history[i] <= issued
  /\ \A d \in Devices : device[d].token <= issued
  /\ \A r \in net : r.sends <= issued /\ r.offer <= issued

(* Of the tokens a printer has, a request names or an answer is to offer,  *)
(* only the head can still be unconfirmed, however old the request.        *)
HeadOnly ==
  /\ \A d \in Devices : device[d].token \in Open => device[d].token = pending[1]
  /\ \A r \in net : r.sends \in Open => r.sends = pending[1]
  /\ \A r \in net : r.offer \in Open => r.offer = pending[1]

Busy(d) == device[d].at \notin {"idle", "polling"}

(* A printer past its polls has a token, whatever its firmware sends.      *)
HandsFull == \A d \in Devices : Busy(d) => device[d].token # 0

QueueInv == Typed /\ Bounded /\ Ordered /\ QueuedIsOpen /\ Unissued /\ HeadOnly

SInv == QueueInv /\ HandsFull

(* Only the printer the route is bound to gets past its polls.             *)
Alone ==
  /\ mac.pinned \/ \A d \in Devices : device[d].named
  /\ mac.pinned => mac.bound # "none"
  /\ \A d \in Devices : Busy(d) => mac.bound = d /\ device[d].named
  /\ \A r \in net : r.name = IF device[r.dev].named THEN r.dev ELSE "none"
  /\ \A r \in net : r.served \/ r.op # "polling" => mac.bound = r.dev /\ device[r.dev].named

(* A printer waits on at most one of its requests, the one of its last     *)
(* attempt; the others it has abandoned.                                   *)
Current ==
  /\ \A r \in net : r.try <= device[r.dev].try
  /\ \A r \in net : r.try = device[r.dev].try =>
        /\ device[r.dev].at = r.op
        /\ r.sends = device[r.dev].token
        /\ r.op = "deleting" => r.code = device[r.dev].code
  /\ \A r, s \in net : r.dev = s.dev /\ r.try = s.try /\ r.try = device[r.dev].try => r = s

Tokened ==
  /\ \A r \in net : r.op # "polling" => r.sends # 0
  /\ \A r \in net : r.op = "deleting" => r.code \in PrintCodes

(* Code 200 is only ever sent for a receipt that is on paper.              *)
Evidence ==
  /\ \A d \in Devices :
        device[d].at \in {"printed", "deleting"} /\ device[d].code = 200
          => receipts[device[d].token] > 0
  /\ \A r \in net : r.op = "deleting" /\ r.code = 200 => receipts[r.sends] > 0

(* A printer has dealt with t and not yet heard that it is confirmed; the  *)
(* answer it waits for will offer t; t can still be printed; the server has been, or may yet be, told that t   *)
(* was not printed.                                                        *)
Holding(t) == \E d \in Devices : device[d].at \in {"printed", "deleting"} /\ device[d].token = t
Promised(t) == \E r \in net : r.served /\ r.offer = t /\ r.try = device[r.dev].try
Obtainable(t) ==
  \/ t \in Open
  \/ \E d \in Devices : device[d].at \in {"offered", "fetching", "have"} /\ device[d].token = t
  \/ Promised(t)
Refused(t) ==
  \/ cloudJobs[t] = "Failed"
  \/ t \in Open /\ \E r \in net : r.op = "deleting" /\ r.code = 410 /\ r.sends = t

(* Each copy but one cost a power loss; a token that can still be printed  *)
(* has a copy less, and so has one that was refused.                       *)
CopiesOf(t) ==
  /\ receipts[t] <= faults.restarts + 1
  /\ Obtainable(t) => Holding(t) \/ receipts[t] <= faults.restarts
  /\ Refused(t) => /\ receipts[t] <= faults.restarts
                   /\ Obtainable(t) => Holding(t) \/ receipts[t] < faults.restarts
Copies ==
  /\ \A t \in Tokens : CopiesOf(t)
  /\ \A d \in Devices :
        device[d].at \in {"printed", "deleting"} /\ device[d].code = 410
          => receipts[device[d].token] <= faults.restarts

PaperInv == SInv /\ Alone /\ Current /\ Tokened /\ Evidence /\ Copies

-----------------------------------------------------------------------------
(* Operators.                                                              *)

(* What poll and fetchJob answer, and what happens to the queue when the   *)
(* head is confirmed.                                                      *)
LEMMA HeadRemoved ==
  ASSUME NEW q \in Seq(Tokens), q # <<>>, \A i \in 2..Len(q) : q[i] # q[1]
  PROVE  RemoveFirst(q, q[1]) = Tail(q)
<1>1. Len(q) \in Nat /\ Len(q) >= 1 BY EmptySeq, LenProperties
<1>2. SelectInSeq(q, LAMBDA v: v = q[1]) = 1
  <2> DEFINE I == {i \in 1..Len(q) : q[i] = q[1]}
  <2>1. I = {1} BY <1>1
  <2>2. SelectInSeq(q, LAMBDA v: v = q[1]) = IF I # {} THEN Min(I) ELSE 0 BY DEF SelectInSeq
  <2>3. Min(I) = 1 BY <2>1 DEF Min
  <2> QED BY <2>1, <2>2, <2>3
<1>3. RemoveFirst(q, q[1]) = RemoveAt(q, 1) BY <1>1, <1>2 DEF RemoveFirst
<1> QED BY <1>1, <1>3 DEF RemoveAt

LEMMA TailFacts ==
  ASSUME NEW q \in Seq(Tokens), q # <<>>
  PROVE  /\ Len(q) \in Nat /\ Len(q) >= 1 /\ Head(q) = q[1] /\ q[1] \in Tokens
         /\ Tail(q) \in Seq(Tokens) /\ Len(Tail(q)) = Len(q) - 1
         /\ \A i \in 1..Len(q) - 1 : Tail(q)[i] = q[i + 1]
BY EmptySeq, LenProperties, HeadTailProperties

LEMMA AppendFacts ==
  ASSUME NEW q \in Seq(Tokens), NEW t \in Tokens
  PROVE  /\ Len(q) \in Nat /\ Append(q, t) \in Seq(Tokens)
         /\ Len(Append(q, t)) = Len(q) + 1
         /\ \A i \in 1..Len(q) : Append(q, t)[i] = q[i]
         /\ Append(q, t)[Len(q) + 1] = t
BY LenProperties, AppendProperties

LEMMA SuffixFacts ==
  ASSUME NEW q \in Seq(Tokens), NEW m \in 1..Len(q) + 1
  PROVE  /\ SubSeq(q, m, Len(q)) \in Seq(Tokens)
         /\ Len(SubSeq(q, m, Len(q))) = Len(q) - m + 1
         /\ \A i \in 1..Len(q) - m + 1 : SubSeq(q, m, Len(q))[i] = q[i + m - 1]
<1>1. Len(q) \in Nat /\ \A i \in m..Len(q) : q[i] \in Tokens BY LenProperties, ElementOfSeq
<1>2. /\ SubSeq(q, m, Len(q)) \in Seq(Tokens)
      /\ Len(SubSeq(q, m, Len(q))) = IF m <= Len(q) THEN Len(q) - m + 1 ELSE 0
      /\ \A i \in 1..Len(q) - m + 1 : SubSeq(q, m, Len(q))[i] = q[m + i - 1]
  BY <1>1, SubSeqProperties
<1>3. \A i \in 1..Len(q) - m + 1 : m + i - 1 = i + m - 1 BY <1>1
<1> QED BY <1>1, <1>2, <1>3

(* The history that confirm leaves: at most one token, the oldest, goes.   *)
Excess(h, t) == IF Len(Append(h, t)) > MaxHistory THEN Len(Append(h, t)) - MaxHistory ELSE 0
Kept(h, t) == SubSeq(Append(h, t), Excess(h, t) + 1, Len(Append(h, t)))

LEMMA HistoryKept ==
  ASSUME MaxHistory \in Nat, NEW h \in Seq(Tokens), Len(h) <= MaxHistory, NEW t \in Tokens
  PROVE  /\ Kept(h, t) \in Seq(Tokens) /\ Len(Kept(h, t)) <= MaxHistory
         /\ Excess(h, t) \in {0, 1} /\ Len(Kept(h, t)) = Len(h) + 1 - Excess(h, t)
         /\ \A i \in 1..Len(Kept(h, t)) : Kept(h, t)[i] = Append(h, t)[i + Excess(h, t)]
<1> DEFINE q == Append(h, t)
           m == Excess(h, t) + 1
<1>1. Len(h) \in Nat /\ q \in Seq(Tokens) /\ Len(q) = Len(h) + 1 BY AppendFacts
<1>2. /\ Excess(h, t) \in {0, 1}
      /\ Len(h) + 1 - Excess(h, t) <= MaxHistory
  BY <1>1 DEF Excess
<1>3. m \in 1..Len(q) + 1 /\ Len(q) - m + 1 = Len(h) + 1 - Excess(h, t) BY <1>1, <1>2
<1>4. \A i \in 1..Len(q) - m + 1 : i + m - 1 = i + Excess(h, t) BY <1>1, <1>2
<1>5. Kept(h, t) = SubSeq(q, m, Len(q)) BY DEF Kept
<1> HIDE DEF q, m
<1>6. /\ Kept(h, t) \in Seq(Tokens) /\ Len(Kept(h, t)) = Len(q) - m + 1
      /\ \A i \in 1..Len(q) - m + 1 : Kept(h, t)[i] = q[i + m - 1]
  BY <1>1, <1>3, <1>5, SuffixFacts
<1> QED BY <1>1, <1>2, <1>3, <1>4, <1>6 DEF q

LEMMA TokensAreNat == ASSUME Deployment PROVE Tokens \subseteq Nat \ {0}
BY DEF Deployment, Tokens

(* An answer reaches the printer it is for, or nobody.                     *)
LEMMA AnswerReaches ==
  ASSUME TypedPrinters, NEW r \in net, NEW next \in DeviceStates, Answer(r, next)
  PROVE  /\ device' \in [Devices -> DeviceStates]
         /\ \A d \in Devices : \/ device'[d] = device[d]
                               \/ /\ d = r.dev /\ device[d].at = r.op /\ device[d].try = r.try
                                  /\ device'[d] = next
         /\ device[r.dev].at = r.op /\ device[r.dev].try = r.try => device'[r.dev] = next
<1>1. r.dev \in Devices BY DEF TypedPrinters, Messages
<1>2. CASE device[r.dev].at = r.op /\ device[r.dev].try = r.try
  <2>1. device' = [device EXCEPT ![r.dev] = next] BY <1>2 DEF Answer
  <2> QED BY <1>1, <1>2, <2>1 DEF TypedPrinters
<1>3. CASE ~(device[r.dev].at = r.op /\ device[r.dev].try = r.try)
  <2>1. device' = device BY <1>3 DEF Answer
  <2> QED BY <1>3, <2>1 DEF TypedPrinters
<1> QED BY <1>2, <1>3

LEMMA IdleState ==
  ASSUME Deployment, TypedPrinters, NEW d \in Devices
  PROVE  /\ Idle(d) \in DeviceStates
         /\ Idle(d).at = "idle" /\ Idle(d).token = 0 /\ Idle(d).code = 0
         /\ Idle(d).try = device[d].try /\ Idle(d).named = device[d].named
<1>1. device[d] \in DeviceStates BY DEF TypedPrinters
<1>2. 0 \in 0..MaxTokens BY DEF Deployment
<1>3. Idle(d) \in DeviceStates
  <2>1. "idle" \in Phases /\ 0 \in PrintCodes BY DEF Phases, PrintCodes
  <2> QED BY <1>1, <1>2, <2>1 DEF Idle, DeviceStates
<1>4. /\ Idle(d).at = "idle" /\ Idle(d).token = 0 /\ Idle(d).code = 0
      /\ Idle(d).try = device[d].try
  BY <1>1 DEF Idle, DeviceStates
<1>5. Idle(d).named = device[d].named BY <1>1 DEF Idle, DeviceStates
<1> QED BY <1>3, <1>4, <1>5

(* The head of the queue is open, and no other open token is in any hand.  *)
LEMMA HeadIsOpen ==
  ASSUME Deployment, QueueInv
  PROVE  /\ Open # {} => pending # <<>>
         /\ pending # <<>> => /\ Head(pending) = pending[1] /\ pending[1] \in Open
                              /\ pending[1] \in 1..MaxTokens /\ pending[1] <= issued
<1>1. ASSUME NEW t \in Open PROVE pending # <<>>
  <2>1. PICK i \in 1..Len(pending) : pending[i] = t BY <1>1 DEF QueueInv, QueuedIsOpen
  <2>2. pending \in Seq(Tokens) BY DEF QueueInv, Typed, TypedServer
  <2> QED BY <2>1, <2>2, EmptySeq
<1>2. ASSUME pending # <<>>
      PROVE  Head(pending) = pending[1] /\ pending[1] \in Open
  <2>1. pending \in Seq(Tokens) BY DEF QueueInv, Typed, TypedServer
  <2>2. Len(pending) >= 1 /\ Len(pending) \in Nat /\ Head(pending) = pending[1]
    BY <1>2, <2>1, TailFacts
  <2> QED BY <2>2 DEF QueueInv, QueuedIsOpen
<1>3. ASSUME NEW t \in Open PROVE t \in 1..MaxTokens /\ t <= issued
  <2>1. t \in Tokens /\ cloudJobs[t] # "absent" BY DEF Open
  <2>2. ~(t > issued) BY <2>1 DEF QueueInv, Unissued
  <2>3. issued \in 0..MaxTokens BY DEF QueueInv, Typed, TypedServer
  <2> QED BY <2>1, <2>2, <2>3 DEF Tokens, Deployment
<1> QED BY <1>1, <1>2, <1>3

LEMMA WantedIsHead ==
  ASSUME Deployment, QueueInv, NEW r \in net, Wanted(r) \in Open
  PROVE  pending # <<>> /\ Wanted(r) = pending[1] /\ Wanted(r) \in Tokens
<1>1. pending # <<>> /\ Head(pending) = pending[1] BY HeadIsOpen
<1>2. CASE r.sends = 0 BY <1>1, <1>2 DEF Wanted, Offered, Open
<1>3. CASE r.sends # 0 BY <1>1, <1>3 DEF Wanted, Open, QueueInv, HeadOnly
<1> QED BY <1>2, <1>3

(* What the end of confirm does, for the head.                             *)
LEMMA RetiredHead ==
  ASSUME Deployment, QueueInv, NEW t, t \in Open, t = pending[1],
         NEW outcome \in Outcomes, Retired(t, outcome)
  PROVE  /\ pending # <<>> /\ pending' = Tail(pending)
         /\ history' = Kept(history, t)
         /\ cloudJobs' \in [Tokens -> JobStates] /\ cloudJobs'[t] = outcome
         /\ \A u \in Tokens : u # t => cloudJobs'[u] \in {cloudJobs[u], "absent"}
         /\ Open' = Open \ {t}
<1>1. pending # <<>> /\ pending \in Seq(Tokens) /\ history \in Seq(Tokens) /\ t \in Tokens
  BY HeadIsOpen DEF QueueInv, Typed, TypedServer, Open
<1>2. \A i \in 2..Len(pending) : pending[i] # pending[1]
  <2>1. Len(pending) \in Nat /\ \A i \in 1..Len(pending) : pending[i] \in Nat
    BY <1>1, TokensAreNat, LenProperties, ElementOfSeq
  <2> QED BY <2>1 DEF QueueInv, Ordered
<1>3. pending' = Tail(pending) BY <1>1, <1>2, HeadRemoved DEF Retired
<1>4. history' = Kept(history, t) BY DEF Retired, Kept, Excess
<1> DEFINE gone == Range(Append(history, t)) \ Range(Kept(history, t))
<1>5. cloudJobs' = [u \in Tokens |-> IF u = t THEN outcome ELSE IF u \in gone THEN "absent" ELSE cloudJobs[u]]
  BY DEF Retired, Kept, Excess
<1>6. \A u \in Open : u # t => u \notin gone
  <2> SUFFICES ASSUME NEW u \in Open, u # t, u \in gone PROVE FALSE
    OBVIOUS
  <2>1. PICK i \in 1..Len(pending) : pending[i] = u BY DEF QueueInv, QueuedIsOpen
  <2>2. /\ Len(history) \in Nat /\ Len(Append(history, t)) = Len(history) + 1
        /\ Append(history, t) \in Seq(Tokens)
        /\ \A j \in 1..Len(history) : Append(history, t)[j] = history[j]
        /\ Append(history, t)[Len(history) + 1] = t
    BY <1>1, AppendFacts
  <2>3. PICK j \in 1..Len(history) + 1 : Append(history, t)[j] = u
    BY <2>2, LenProperties DEF Range
  <2>4. j \in 1..Len(history) /\ history[j] = u BY <2>2, <2>3
  <2>5. history[j] < pending[i] BY <2>4 DEF QueueInv, Ordered
  <2>6. u \in Nat BY TokensAreNat DEF Open
  <2> QED BY <2>1, <2>4, <2>5, <2>6
<1> HIDE DEF gone
<1>7. /\ cloudJobs' \in [Tokens -> JobStates] /\ cloudJobs'[t] = outcome
      /\ \A u \in Tokens : u # t => cloudJobs'[u] \in {cloudJobs[u], "absent"}
      /\ \A u \in Open : u # t => cloudJobs'[u] = cloudJobs[u]
  BY <1>1, <1>5, <1>6 DEF QueueInv, Typed, TypedServer, JobStates, Open
<1>8. Open' = Open \ {t}
  BY <1>1, <1>7 DEF Open, Outcomes
<1> QED BY <1>1, <1>3, <1>4, <1>7, <1>8

-----------------------------------------------------------------------------
(* What each handler does to the server and to the printer it answers.     *)

(* Printer d got the answer it was waiting for and went back to polling.   *)
SentHome(d) ==
  /\ device'[d].at = "idle" /\ device'[d].token = 0 /\ device'[d].code = 0
  /\ device'[d].try = device[d].try /\ device'[d].named = device[d].named

(* Printer d went on to phase `at' with token t.                           *)
GoesOn(d, at, t) ==
  /\ device'[d].at = at /\ device'[d].token = t /\ device'[d].code = device[d].code
  /\ device'[d].try = device[d].try /\ device'[d].named = device[d].named

Awaits(d, r) == d = r.dev /\ device[d].at = r.op /\ device[d].try = r.try

LEMMA DismissedDoes ==
  ASSUME Deployment, TypedPrinters, NEW r \in net, Answer(r, Idle(r.dev))
  PROVE  /\ device' \in [Devices -> DeviceStates]
         /\ \A d \in Devices : device'[d] = device[d] \/ (Awaits(d, r) /\ SentHome(d))
         /\ Awaits(r.dev, r) => SentHome(r.dev)
<1>1. r.dev \in Devices BY DEF TypedPrinters, Messages
<1> DEFINE next == Idle(r.dev)
<1>2. next \in DeviceStates BY <1>1, IdleState
<1>3. /\ next.at = "idle" /\ next.token = 0 /\ next.code = 0
      /\ next.try = device[r.dev].try /\ next.named = device[r.dev].named
  BY <1>1, IdleState
<1>4. Answer(r, next) OBVIOUS
<1> HIDE DEF next
<1>5. /\ device' \in [Devices -> DeviceStates]
      /\ \A d \in Devices : device'[d] = device[d] \/ (Awaits(d, r) /\ device'[d] = next)
      /\ Awaits(r.dev, r) => device'[r.dev] = next
  BY <1>2, <1>4, AnswerReaches DEF Awaits
<1>6. \A d \in Devices : Awaits(d, r) /\ device'[d] = next => SentHome(d)
  BY <1>3 DEF SentHome, Awaits
<1> QED BY <1>1, <1>5, <1>6

LEMMA GoesOnDoes ==
  ASSUME Deployment, TypedPrinters, NEW r \in net, NEW at \in Phases, NEW t \in 0..MaxTokens,
         Answer(r, [device[r.dev] EXCEPT !.at = at, !.token = t])
  PROVE  /\ device' \in [Devices -> DeviceStates]
         /\ \A d \in Devices : device'[d] = device[d] \/ (Awaits(d, r) /\ GoesOn(d, at, t))
         /\ Awaits(r.dev, r) => GoesOn(r.dev, at, t)
<1>1. r.dev \in Devices /\ device[r.dev] \in DeviceStates BY DEF TypedPrinters, Messages
<1> DEFINE next == [device[r.dev] EXCEPT !.at = at, !.token = t]
<1>2. next \in DeviceStates BY <1>1 DEF DeviceStates
<1>3. /\ next.at = at /\ next.token = t /\ next.code = device[r.dev].code
      /\ next.try = device[r.dev].try
  BY <1>1 DEF DeviceStates
<1>4. next.named = device[r.dev].named BY <1>1 DEF DeviceStates
<1>5. Answer(r, next) OBVIOUS
<1> HIDE DEF next
<1>6. /\ device' \in [Devices -> DeviceStates]
      /\ \A d \in Devices : device'[d] = device[d] \/ (Awaits(d, r) /\ device'[d] = next)
      /\ Awaits(r.dev, r) => device'[r.dev] = next
  BY <1>2, <1>5, AnswerReaches DEF Awaits
<1>7. \A d \in Devices : Awaits(d, r) /\ device'[d] = next => GoesOn(d, at, t)
  BY <1>3, <1>4 DEF GoesOn, Awaits
<1> QED BY <1>1, <1>6, <1>7

LEMMA FaultTyped ==
  ASSUME TypedEvents, NEW code
  PROVE  /\ FaultOf(code) \in FaultEvents \cup {"none"}
         /\ FaultAfter(code) \in FaultEvents \cup {"none"}
         /\ Recovery(fault) \in DeviceEvents
<1>1. FaultOf(code) \in FaultEvents \cup {"none"} BY DEF FaultOf, FaultEvents
<1> QED BY <1>1 DEF FaultAfter, TypedEvents, Recovery, DeviceEvents

(* What observe() collects is nothing, or ends with the fault it leaves on *)
(* record, if it leaves one.                                               *)
LEMMA ObservedDoes ==
  ASSUME TypedEvents, NEW code
  PROVE  /\ Observed(code) \in Seq(DeviceEvents)
         /\ Observed(code) = <<>> => announced /\ FaultAfter(code) = fault
         /\ Observed(code) # <<>> =>
              FaultAfter(code) = "none" \/ Last(Observed(code)) = FaultAfter(code)
<1> DEFINE greeting == IF announced THEN <<>> ELSE <<"Online">>
           f == FaultAfter(code)
           news == IF f = fault THEN <<>> ELSE IF f = "none" THEN <<Recovery(fault)>> ELSE <<f>>
<1>1. Observed(code) = greeting \o news BY DEF Observed
<1>2. /\ f \in FaultEvents \cup {"none"} /\ Recovery(fault) \in DeviceEvents
      /\ "Online" \in DeviceEvents /\ announced \in BOOLEAN
  BY FaultTyped DEF DeviceEvents, TypedEvents
<1>3. f # "none" => f \in DeviceEvents BY <1>2 DEF DeviceEvents
<1>4. greeting \in Seq(DeviceEvents) /\ Len(greeting) \in {0, 1} /\ (Len(greeting) = 0 => announced)
  BY <1>2, EmptySeq, LenProperties
<1>5. /\ news \in Seq(DeviceEvents) /\ Len(news) \in {0, 1} /\ (Len(news) = 0 <=> f = fault)
      /\ f # fault /\ f # "none" => news[1] = f
  BY <1>2, <1>3, EmptySeq, LenProperties
<1>6. fault # "none" => announced BY DEF TypedEvents
<1> HIDE DEF greeting, news, f
<1>7. /\ greeting \o news \in Seq(DeviceEvents)
      /\ Len(greeting \o news) = Len(greeting) + Len(news)
      /\ \A i \in 1..Len(greeting) + Len(news) :
            (greeting \o news)[i] = IF i <= Len(greeting) THEN greeting[i] ELSE news[i - Len(greeting)]
  BY <1>4, <1>5, ConcatProperties
<1>8. greeting \o news = <<>> <=> Len(greeting) + Len(news) = 0
  BY <1>7, EmptySeq
<1>9. Observed(code) = <<>> => announced /\ f = fault BY <1>1, <1>4, <1>5, <1>8
<1>10. ASSUME Observed(code) # <<>>, f # "none" PROVE Last(Observed(code)) = f
  <2>1. CASE f # fault
    <3>1. Len(news) = 1 /\ news[1] = f BY <1>5, <1>10, <2>1
    <3>2. /\ Len(greeting) + Len(news) \in 1..Len(greeting) + Len(news)
          /\ ~(Len(greeting) + Len(news) <= Len(greeting))
          /\ Len(greeting) + Len(news) - Len(greeting) = 1
      BY <1>4, <3>1
    <3>3. (greeting \o news)[Len(greeting \o news)] = f BY <1>7, <3>1, <3>2
    <3> QED BY <1>1, <3>3 DEF Last
  <2>2. CASE f = fault
    <3>1. announced BY <1>6, <1>10, <2>2
    <3>2. Len(greeting) = 0 /\ Len(news) = 0 BY <1>4, <1>5, <2>2, <3>1 DEF greeting
    <3> QED BY <1>1, <1>8, <1>10, <3>2
  <2> QED BY <2>1, <2>2
<1> QED BY <1>1, <1>7, <1>9, <1>10 DEF f

LEMMA ObserveTyped == ASSUME TypedEvents, NEW code, Observe(code) PROVE TypedEvents'
<1>1. FaultAfter(code) \in FaultEvents \cup {"none"} BY FaultTyped
<1>2. raced' \in BOOLEAN BY DEF Observe, TypedEvents
<1> QED BY <1>1, <1>2 DEF Observe, TypedEvents

(* A poll that goes on without its answer: it has left the lock, with what *)
(* the head was, or it has made a callback.                                *)
SameRequest(r, s) ==
  /\ s.dev = r.dev /\ s.op = r.op /\ s.try = r.try /\ s.code = r.code
  /\ s.sends = r.sends /\ s.name = r.name

Moves(r, s) ==
  /\ net' = (net \ {r}) \cup {s} /\ SameRequest(r, s) /\ r.op = "polling" /\ s.served
  /\ UNCHANGED <<pending, cloudJobs, history, device>>
  /\ \/ /\ r.served /\ mac' = mac /\ s.offer = r.offer
     \/ /\ IdentityMatches(r.name, TRUE)
        /\ mac'.bound = (IF mac.bound = "none" THEN r.name ELSE mac.bound)
        /\ mac'.pinned = mac.pinned /\ (mac.bound # "none" => mac' = mac)
        /\ s.offer = 0 \/ (pending # <<>> /\ s.offer = pending[1])

(* A poll that gets its answer: it is turned away, or has published all.   *)
Replies(r) ==
  /\ net' = net \ {r} /\ r.op = "polling"
  /\ UNCHANGED <<pending, cloudJobs, history, mac>>
  /\ device' \in [Devices -> DeviceStates]
  /\ \A d \in Devices :
       \/ device'[d] = device[d]
       \/ Awaits(d, r) /\ SentHome(d)
       \/ Awaits(d, r) /\ r.served /\ r.offer # 0 /\ GoesOn(d, "offered", r.offer)
  /\ Awaits(r.dev, r) => device'[r.dev].at # r.op

LEMMA PollDoes ==
  ASSUME Deployment, QueueInv, NEW r \in net, Poll(r)
  PROVE  /\ TypedEvents' /\ mac' \in [pinned : BOOLEAN, bound : Devices \cup {"none"}]
         /\ Replies(r) \/ \E s \in Messages : Moves(r, s)
<1>1. Typed /\ TypedPrinters /\ TypedEvents /\ r \in Messages /\ r.op = "polling"
  BY DEF QueueInv, Typed, TypedPrinters, Poll
<1>2. r.name \in Devices \cup {"none"} BY <1>1 DEF Messages
<1>3. mac \in [pinned : BOOLEAN, bound : Devices \cup {"none"}] BY <1>1 DEF Typed, TypedServer
<1>4. CASE ~IdentityMatches(r.name, TRUE)
  <2>1. /\ UNCHANGED <<pending, cloudJobs, history, mac, reported>> /\ net' = net \ {r}
        /\ Answer(r, Idle(r.dev))
    BY <1>4 DEF Poll, Dismissed
  <2>2. TypedEvents' BY <1>1, <2>1 DEF TypedEvents, reported
  <2>3. Replies(r) BY <1>1, <2>1, DismissedDoes DEF SentHome, Replies
  <2> QED BY <1>3, <2>1, <2>2, <2>3
<1>5. CASE IdentityMatches(r.name, TRUE)
  <2> DEFINE s == [r EXCEPT !.served = TRUE, !.offer = Offered, !.events = Observed(r.code)]
  <2>1. /\ UNCHANGED <<pending, cloudJobs, history, device>>
        /\ mac' = IF mac.bound = "none" THEN [mac EXCEPT !.bound = r.name] ELSE mac
        /\ Observe(r.code) /\ net' = (net \ {r}) \cup {s}
    BY <1>5 DEF Poll
  <2>2. TypedEvents' BY <1>1, <2>1, ObserveTyped
  <2>3. /\ mac' \in [pinned : BOOLEAN, bound : Devices \cup {"none"}]
        /\ mac'.bound = IF mac.bound = "none" THEN r.name ELSE mac.bound
        /\ mac'.pinned = mac.pinned /\ (mac.bound # "none" => mac' = mac)
    BY <1>2, <1>3, <2>1
  <2>4. /\ Offered \in 0..MaxTokens
        /\ Offered = 0 \/ (pending # <<>> /\ Offered = pending[1])
    BY HeadIsOpen DEF Offered, Deployment
  <2>5. Observed(r.code) \in Seq(DeviceEvents) BY <1>1, ObservedDoes
  <2>6. s \in Messages BY <1>1, <2>4, <2>5 DEF Messages
  <2>7. SameRequest(r, s) /\ s.served /\ s.offer = Offered BY <1>1 DEF Messages, SameRequest
  <2> HIDE DEF s
  <2>8. Moves(r, s) BY <1>1, <1>5, <2>1, <2>3, <2>4, <2>7 DEF Moves
  <2> QED BY <2>2, <2>3, <2>6, <2>8
<1> QED BY <1>4, <1>5

LEMMA PublishDoes ==
  ASSUME Deployment, QueueInv, NEW r \in net, Publish(r)
  PROVE  /\ TypedEvents' /\ mac' \in [pinned : BOOLEAN, bound : Devices \cup {"none"}]
         /\ Replies(r) \/ \E s \in Messages : Moves(r, s)
<1>1. Typed /\ TypedPrinters /\ TypedEvents /\ r \in Messages /\ r.op = "polling" /\ r.served
  BY DEF QueueInv, Typed, TypedPrinters, Publish
<1>2. /\ mac \in [pinned : BOOLEAN, bound : Devices \cup {"none"}]
      /\ UNCHANGED <<pending, cloudJobs, history, mac, announced, fault, raced>>
  BY <1>1 DEF Typed, TypedServer, Publish
<1>3. r.events \in Seq(DeviceEvents) /\ r.offer \in 0..MaxTokens BY <1>1 DEF Messages
<1>4. CASE Publishing(r)
  <2> DEFINE s == [r EXCEPT !.events = Tail(r.events)]
  <2>1. /\ told' = Believed(Head(r.events)) /\ net' = (net \ {r}) \cup {s}
        /\ UNCHANGED device
    BY <1>4 DEF Publish
  <2>2. TypedEvents' BY <1>1, <1>2, <2>1 DEF TypedEvents, Believed, Concern
  <2>3. Tail(r.events) \in Seq(DeviceEvents)
    BY <1>3, <1>4, EmptySeq, HeadTailProperties DEF Publishing
  <2>4. s \in Messages BY <1>1, <2>3 DEF Messages
  <2>5. SameRequest(r, s) /\ s.served /\ s.offer = r.offer BY <1>1 DEF Messages, SameRequest
  <2> HIDE DEF s
  <2>6. Moves(r, s) BY <1>1, <1>2, <2>1, <2>5 DEF Moves
  <2> QED BY <1>2, <2>2, <2>4, <2>6
<1>5. CASE ~Publishing(r)
  <2>1. /\ Answer(r, IF r.offer = 0 THEN Idle(r.dev)
                     ELSE [device[r.dev] EXCEPT !.at = "offered", !.token = r.offer])
        /\ net' = net \ {r} /\ UNCHANGED told
    BY <1>5 DEF Publish
  <2>2. TypedEvents' BY <1>1, <1>2, <2>1 DEF TypedEvents
  <2>3. CASE r.offer = 0
    <3>1. Answer(r, Idle(r.dev)) BY <2>1, <2>3
    <3>2. Replies(r) BY <1>1, <1>2, <2>1, <3>1, DismissedDoes DEF SentHome, Replies
    <3> QED BY <1>2, <2>2, <3>2
  <2>4. CASE r.offer # 0
    <3>1. Answer(r, [device[r.dev] EXCEPT !.at = "offered", !.token = r.offer])
      BY <2>1, <2>4
    <3>2. "offered" \in Phases BY DEF Phases
    <3>3. /\ device' \in [Devices -> DeviceStates]
          /\ \A d \in Devices : \/ device'[d] = device[d]
                                \/ Awaits(d, r) /\ GoesOn(d, "offered", r.offer)
          /\ Awaits(r.dev, r) => GoesOn(r.dev, "offered", r.offer)
      BY <1>1, <1>3, <3>1, <3>2, GoesOnDoes
    <3>4. Awaits(r.dev, r) => device'[r.dev].at # r.op BY <1>1, <3>3 DEF GoesOn
    <3>5. Replies(r) BY <1>1, <1>2, <2>1, <2>4, <3>3, <3>4 DEF Replies
    <3> QED BY <1>2, <2>2, <3>5
  <2> QED BY <2>3, <2>4
<1> QED BY <1>4, <1>5

LEMMA FetchDoes ==
  ASSUME Deployment, QueueInv, NEW r \in net, FetchJob(r)
  PROVE  /\ UNCHANGED <<pending, history, mac, reported>>
         /\ cloudJobs' \in [Tokens -> JobStates] /\ Open' = Open
         /\ \A t \in Tokens : t \notin Open => cloudJobs'[t] = cloudJobs[t]
         /\ device' \in [Devices -> DeviceStates]
         /\ \A d \in Devices :
              \/ device'[d] = device[d]
              \/ Awaits(d, r) /\ SentHome(d)
              \/ /\ Awaits(d, r) /\ GoesOn(d, "have", Wanted(r)) /\ Wanted(r) \in Open
                 /\ Wanted(r) = pending[1]
         /\ Awaits(r.dev, r) => device'[r.dev].at # r.op
<1>1. Typed /\ TypedPrinters /\ r.op = "fetching" /\ UNCHANGED <<mac, reported>>
  BY DEF QueueInv, Typed, FetchJob
<1>2. cloudJobs \in [Tokens -> JobStates] BY <1>1 DEF Typed, TypedServer
<1>3. CASE IdentityMatches(r.name, FALSE) /\ Wanted(r) \in Open
  <2>1. /\ cloudJobs' = [cloudJobs EXCEPT ![Wanted(r)] = "delivered"]
        /\ Answer(r, [device[r.dev] EXCEPT !.at = "have", !.token = Wanted(r)])
        /\ UNCHANGED <<pending, history>>
    BY <1>3 DEF FetchJob
  <2>2. Wanted(r) \in Tokens /\ Wanted(r) = pending[1] BY <1>3, WantedIsHead
  <2>3. Wanted(r) \in 0..MaxTokens BY <2>2 DEF Tokens, Deployment
  <2>4. /\ cloudJobs' \in [Tokens -> JobStates]
        /\ \A t \in Tokens : cloudJobs'[t] = IF t = Wanted(r) THEN "delivered" ELSE cloudJobs[t]
    BY <1>2, <2>1, <2>2 DEF JobStates
  <2>5. Open' = Open BY <1>3, <2>4 DEF Open
  <2>6. "have" \in Phases BY DEF Phases
  <2>7. /\ device' \in [Devices -> DeviceStates]
        /\ \A d \in Devices : \/ device'[d] = device[d]
                              \/ Awaits(d, r) /\ GoesOn(d, "have", Wanted(r))
        /\ Awaits(r.dev, r) => GoesOn(r.dev, "have", Wanted(r))
    BY <1>1, <2>1, <2>3, <2>6, GoesOnDoes
  <2>8. Awaits(r.dev, r) => device'[r.dev].at # r.op BY <1>1, <2>7 DEF GoesOn
  <2>9. \A t \in Tokens : t \notin Open => cloudJobs'[t] = cloudJobs[t] BY <1>3, <2>4
  <2> QED BY <1>1, <1>3, <2>1, <2>2, <2>4, <2>5, <2>7, <2>8, <2>9
<1>4. CASE ~(IdentityMatches(r.name, FALSE) /\ Wanted(r) \in Open)
  <2>1. Answer(r, Idle(r.dev)) /\ UNCHANGED <<pending, cloudJobs, history>>
    BY <1>4 DEF FetchJob, Dismissed
  <2>2. Open' = Open BY <2>1 DEF Open
  <2> QED BY <1>1, <1>2, <2>1, <2>2, DismissedDoes DEF SentHome
<1> QED BY <1>3, <1>4

(* A DELETE retires the head, with the outcome of its code, or changes     *)
(* nothing, and then it names no open job or comes from a stranger.        *)
Retires(r) ==
  /\ Wanted(r) \in Open /\ Wanted(r) = pending[1] /\ pending # <<>>
  /\ pending' = Tail(pending) /\ history' = Kept(history, Wanted(r))
  /\ cloudJobs'[Wanted(r)] = Disposition(r.code)
  /\ \A u \in Tokens : u # Wanted(r) => cloudJobs'[u] \in {cloudJobs[u], "absent"}
  /\ Open' = Open \ {Wanted(r)}

Ignores(r) ==
  /\ UNCHANGED <<pending, history, cloudJobs>> /\ Open' = Open
  /\ ~IdentityMatches(r.name, FALSE) \/ Wanted(r) \notin Open

LEMMA ConfirmDoes ==
  ASSUME Deployment, QueueInv, NEW r \in net, Confirm(r)
  PROVE  /\ UNCHANGED <<mac, reported>>
         /\ Retires(r) \/ Ignores(r)
         /\ cloudJobs' \in [Tokens -> JobStates]
         /\ device' \in [Devices -> DeviceStates]
         /\ \A d \in Devices : device'[d] = device[d] \/ (Awaits(d, r) /\ SentHome(d))
         /\ Awaits(r.dev, r) => SentHome(r.dev)
<1>1. Typed /\ TypedPrinters /\ UNCHANGED <<mac, reported>>
  BY DEF QueueInv, Typed, Confirm
<1>2. cloudJobs \in [Tokens -> JobStates] BY <1>1 DEF Typed, TypedServer
<1> DEFINE t == Wanted(r)
           stranger == ~IdentityMatches(r.name, FALSE) \/ t = 0 \/ t \in Forgotten
<1>3. Wanted(r) \in Tokens \/ Wanted(r) = 0
  <2>1. r.sends \in 0..MaxTokens BY <1>1 DEF TypedPrinters, Messages
  <2>2. Offered = 0 \/ Offered \in Tokens BY HeadIsOpen DEF Offered, Open
  <2> QED BY <2>1, <2>2 DEF Wanted, Tokens, Deployment
<1>4. Answer(r, Idle(r.dev)) BY DEF Confirm, Dismissed
<1>5. CASE t \in Open /\ ~stranger
  <2>1. cloudJobs[t] \notin Outcomes BY <1>5 DEF Open, Outcomes
  <2>2. Retired(t, Disposition(r.code)) BY <1>5, <2>1 DEF Confirm
  <2>3. Disposition(r.code) \in Outcomes BY DEF Disposition, Outcomes
  <2>4. t \in Open /\ t = pending[1] BY <1>5, WantedIsHead
  <2> HIDE DEF t
  <2>5. /\ pending # <<>> /\ pending' = Tail(pending)
        /\ history' = Kept(history, t)
        /\ cloudJobs' \in [Tokens -> JobStates] /\ cloudJobs'[t] = Disposition(r.code)
        /\ \A u \in Tokens : u # t => cloudJobs'[u] \in {cloudJobs[u], "absent"}
        /\ Open' = Open \ {t}
    BY <2>2, <2>3, <2>4, RetiredHead
  <2>6. Retires(r) BY <2>4, <2>5 DEF Retires, t
  <2> QED BY <1>1, <1>4, <2>5, <2>6, DismissedDoes
<1>6. CASE t \notin Open \/ stranger
  <2>1. stranger \/ cloudJobs[t] \in Outcomes
    BY <1>2, <1>3, <1>6 DEF Open, Forgotten, JobStates
  <2>2. UNCHANGED <<pending, cloudJobs, history>>
    <3>1. CASE stranger BY <3>1 DEF Confirm, Dismissed
    <3>2. CASE ~stranger BY <2>1, <3>2 DEF Confirm, Dismissed
    <3> QED BY <3>1, <3>2
  <2>3. ~IdentityMatches(r.name, FALSE) \/ t \notin Open
    <3>1. t = 0 => t \notin Open BY TokensAreNat DEF Open
    <3>2. t \in Forgotten => t \notin Open BY DEF Open, Forgotten
    <3> QED BY <1>6, <3>1, <3>2
  <2>4. Open' = Open BY <2>2 DEF Open
  <2>5. Ignores(r) BY <2>2, <2>3, <2>4 DEF Ignores
  <2> QED BY <1>1, <1>2, <1>4, <2>2, <2>5, DismissedDoes
<1> QED BY <1>5, <1>6

-----------------------------------------------------------------------------
(* What each step of a printer does.                                       *)

(* The request printer d sends in its present state.                       *)
Message(d, op, code) ==
  [dev |-> d, op |-> op, try |-> device[d].try, code |-> code,
   sends |-> IF d \in Tokenless THEN 0 ELSE device[d].token,
   name |-> IF device[d].named THEN d ELSE "none",
   served |-> FALSE, offer |-> 0, events |-> <<>>]

LEMMA SendsDoes ==
  ASSUME Deployment, TypedPrinters, NEW d \in Devices, NEW op \in Calls,
         NEW code \in PollCodes \cup PrintCodes, Sends(d, op, code)
  PROVE  /\ device' \in [Devices -> DeviceStates]
         /\ \A e \in Devices : e # d => device'[e] = device[e]
         /\ GoesOn(d, op, device[d].token)
         /\ net' = net \cup {Message(d, op, code)} /\ net' \subseteq Messages
         /\ UNCHANGED <<server, reported, receipts, faults>>
<1>1. device[d] \in DeviceStates /\ op \in Phases BY DEF TypedPrinters, Calls, Phases
<1>2. device' = [device EXCEPT ![d] = [device[d] EXCEPT !.at = op]] BY DEF Sends
<1>3. device'[d] = [device[d] EXCEPT !.at = op] /\ \A e \in Devices : e # d => device'[e] = device[e]
  BY <1>2 DEF TypedPrinters
<1>4. device'[d] \in DeviceStates BY <1>1, <1>3 DEF DeviceStates
<1>5. device' \in [Devices -> DeviceStates]
  BY <1>2, <1>3, <1>4 DEF TypedPrinters
<1>6. GoesOn(d, op, device[d].token) 
  <2>1. /\ device'[d].at = op /\ device'[d].token = device[d].token
        /\ device'[d].code = device[d].code /\ device'[d].try = device[d].try
    BY <1>1, <1>3 DEF DeviceStates
  <2>2. device'[d].named = device[d].named BY <1>1, <1>3 DEF DeviceStates
  <2> QED BY <2>1, <2>2 DEF GoesOn
<1>7. net' = net \cup {Message(d, op, code)} BY DEF Sends, Message
<1>8. Message(d, op, code) \in Messages
  <2>1. /\ device[d].try \in Nat
        /\ (IF d \in Tokenless THEN 0 ELSE device[d].token) \in 0..MaxTokens
    BY <1>1 DEF DeviceStates, Deployment
  <2>2. (IF device[d].named THEN d ELSE "none") \in Devices \cup {"none"} OBVIOUS
  <2>3. <<>> \in Seq(DeviceEvents) BY EmptySeq
  <2>4. 0 \in 0..MaxTokens BY DEF Deployment
  <2> QED BY <2>1, <2>2, <2>3, <2>4 DEF Message, Messages
<1>9. net' \subseteq Messages BY <1>7, <1>8 DEF TypedPrinters
<1> QED BY <1>3, <1>5, <1>6, <1>7, <1>9 DEF Sends

LEMMA MessageFields ==
  ASSUME NEW d, NEW op, NEW code
  PROVE  /\ Message(d, op, code).dev = d /\ Message(d, op, code).op = op
         /\ Message(d, op, code).try = device[d].try /\ Message(d, op, code).code = code
         /\ Message(d, op, code).sends = IF d \in Tokenless THEN 0 ELSE device[d].token
         /\ Message(d, op, code).name = IF device[d].named THEN d ELSE "none"
         /\ ~Message(d, op, code).served /\ Message(d, op, code).offer = 0
         /\ Message(d, op, code).events = <<>>
BY DEF Message

LEMMA PrintDoes ==
  ASSUME Deployment, TypedPrinters, HandsFull,
         NEW d \in Devices, PrintReceipt(d)
  PROVE  /\ device[d].at = "have" /\ device[d].token \in Tokens
         /\ device' \in [Devices -> DeviceStates] /\ receipts' \in [Tokens -> Nat]
         /\ \A e \in Devices : e # d => device'[e] = device[e]
         /\ device'[d].at = "printed" /\ device'[d].token = device[d].token
         /\ device'[d].try = device[d].try /\ device'[d].named = device[d].named
         /\ \A t \in Tokens : t # device[d].token => receipts'[t] = receipts[t]
         /\ \/ /\ receipts'[device[d].token] = receipts[device[d].token] + 1
               /\ device'[d].code # 410
            \/ /\ receipts'[device[d].token] = receipts[device[d].token]
               /\ device'[d].code # 200
         /\ UNCHANGED <<server, reported, net, faults>>
<1>1. device[d] \in DeviceStates /\ device[d].at = "have" BY DEF TypedPrinters, PrintReceipt
<1>2. device[d].token \in Tokens
  <2>1. device[d].token # 0 BY <1>1 DEF HandsFull, Busy
  <2> QED BY <1>1, <2>1 DEF DeviceStates, Tokens, Deployment
<1>3. PICK printed \in BOOLEAN, code \in PrintCodes :
        /\ code = 200 => printed
        /\ code = 410 => ~printed
        /\ device' = [device EXCEPT ![d].at = "printed", ![d].code = code]
        /\ receipts' = [receipts EXCEPT ![device[d].token] = @ + (IF printed THEN 1 ELSE 0)]
  BY DEF PrintReceipt, PrintCodes
<1>4. /\ device'[d] = [device[d] EXCEPT !.at = "printed", !.code = code]
      /\ \A e \in Devices : e # d => device'[e] = device[e]
  BY <1>3 DEF TypedPrinters
<1>5. device'[d] \in DeviceStates BY <1>1, <1>4 DEF DeviceStates, Phases
<1>6. device' \in [Devices -> DeviceStates]
  BY <1>3, <1>4, <1>5 DEF TypedPrinters
<1>7. /\ device'[d].at = "printed" /\ device'[d].token = device[d].token
      /\ device'[d].try = device[d].try /\ device'[d].code = code
  BY <1>1, <1>4 DEF DeviceStates
<1>8. device'[d].named = device[d].named BY <1>1, <1>4 DEF DeviceStates
<1>9. CASE printed
  <2>1. receipts' = [receipts EXCEPT ![device[d].token] = receipts[device[d].token] + 1]
    BY <1>3, <1>9
  <2>2. receipts' \in [Tokens -> Nat] BY <1>2, <2>1 DEF TypedPrinters
  <2> QED BY <1>1, <1>2, <1>3, <1>4, <1>6, <1>7, <1>8, <1>9, <2>1, <2>2
          DEF TypedPrinters, PrintReceipt
<1>10. CASE ~printed
  <2>1. receipts' = receipts BY <1>2, <1>3, <1>10 DEF TypedPrinters
  <2> QED BY <1>1, <1>2, <1>3, <1>4, <1>6, <1>7, <1>8, <1>10, <2>1
          DEF TypedPrinters, PrintReceipt
<1> QED BY <1>9, <1>10

LEMMA GiveUpDoes ==
  ASSUME Deployment, TypedPrinters, NEW d \in Devices, GiveUp(d)
  PROVE  /\ device' \in [Devices -> DeviceStates]
         /\ \A e \in Devices : e # d => device'[e] = device[e]
         /\ device'[d].token = device[d].token /\ device'[d].code = device[d].code
         /\ device'[d].named = device[d].named /\ device'[d].try = device[d].try + 1
         /\ \/ device[d].at = "polling" /\ device'[d].at = "idle"
            \/ device[d].at = "fetching" /\ device'[d].at = "offered"
            \/ device[d].at = "deleting" /\ device'[d].at = "printed"
         /\ net' \subseteq net
         /\ faults' \in [lost : Nat, restarts : Nat] /\ faults'.restarts = faults.restarts
         /\ UNCHANGED <<server, reported, receipts>>
<1> DEFINE back == CASE device[d].at = "polling" -> "idle"
                     [] device[d].at = "fetching" -> "offered"
                     [] OTHER -> "printed"
<1>1. device[d] \in DeviceStates /\ device[d].at \in {"polling", "fetching", "deleting"}
  BY DEF TypedPrinters, GiveUp
<1>2. /\ device' = [device EXCEPT ![d].try = @ + 1,
                       ![d].at = CASE @ = "polling" -> "idle"
                                   [] @ = "fetching" -> "offered"
                                   [] OTHER -> "printed"]
      /\ faults' = [faults EXCEPT !.lost = @ + 1] /\ net' \subseteq net
      /\ UNCHANGED <<server, reported, receipts>>
  BY DEF GiveUp
<1>3. /\ device'[d] = [device[d] EXCEPT !.try = device[d].try + 1, !.at = back]
      /\ \A e \in Devices : e # d => device'[e] = device[e]
  BY <1>1, <1>2 DEF TypedPrinters
<1>4. /\ \/ device[d].at = "polling" /\ back = "idle"
         \/ device[d].at = "fetching" /\ back = "offered"
         \/ device[d].at = "deleting" /\ back = "printed"
      /\ back \in Phases
  BY <1>1 DEF Phases
<1> HIDE DEF back
<1>5. device[d].try + 1 \in Nat BY <1>1 DEF DeviceStates
<1>6. device'[d] \in DeviceStates BY <1>1, <1>3, <1>4, <1>5 DEF DeviceStates
<1>7. device' \in [Devices -> DeviceStates]
  BY <1>2, <1>3, <1>6 DEF TypedPrinters
<1>8. /\ device'[d].token = device[d].token /\ device'[d].code = device[d].code
      /\ device'[d].try = device[d].try + 1 /\ device'[d].at = back
  BY <1>1, <1>3 DEF DeviceStates
<1>9. device'[d].named = device[d].named BY <1>1, <1>3 DEF DeviceStates
<1>10. faults' \in [lost : Nat, restarts : Nat] /\ faults'.restarts = faults.restarts
  BY <1>2 DEF TypedPrinters
<1> QED BY <1>2, <1>3, <1>4, <1>7, <1>8, <1>9, <1>10

LEMMA PowerLossDoes ==
  ASSUME Deployment, TypedPrinters, NEW d \in Devices, PowerLoss(d)
  PROVE  /\ device' \in [Devices -> DeviceStates]
         /\ \A e \in Devices : e # d => device'[e] = device[e]
         /\ device'[d].at = "idle" /\ device'[d].token = 0 /\ device'[d].code = 0
         /\ device'[d].named = device[d].named /\ device'[d].try = device[d].try + 1
         /\ faults' \in [lost : Nat, restarts : Nat] /\ faults'.restarts = faults.restarts + 1
         /\ UNCHANGED <<server, reported, net, receipts>>
<1>1. /\ device' = [device EXCEPT ![d] = [Idle(d) EXCEPT !.try = @ + 1]]
      /\ faults' = [faults EXCEPT !.restarts = @ + 1]
      /\ UNCHANGED <<server, reported, net, receipts>>
  BY DEF PowerLoss
<1>2. device'[d] = [Idle(d) EXCEPT !.try = @ + 1] /\ \A e \in Devices : e # d => device'[e] = device[e]
  BY <1>1 DEF TypedPrinters
<1>3. /\ Idle(d) \in DeviceStates /\ Idle(d).at = "idle" /\ Idle(d).token = 0 /\ Idle(d).code = 0
      /\ Idle(d).try = device[d].try /\ Idle(d).named = device[d].named
  BY IdleState
<1>4. device'[d] \in DeviceStates BY <1>2, <1>3 DEF DeviceStates
<1>5. device' \in [Devices -> DeviceStates]
  BY <1>1, <1>2, <1>4 DEF TypedPrinters
<1>6. /\ device'[d].at = "idle" /\ device'[d].token = 0 /\ device'[d].code = 0
      /\ device'[d].try = device[d].try + 1
  BY <1>2, <1>3 DEF DeviceStates
<1>7. device'[d].named = device[d].named BY <1>2, <1>3 DEF DeviceStates
<1>8. faults' \in [lost : Nat, restarts : Nat] /\ faults'.restarts = faults.restarts + 1
  BY <1>1 DEF TypedPrinters
<1> QED BY <1>1, <1>2, <1>5, <1>6, <1>7, <1>8

-----------------------------------------------------------------------------
(* QueueInv is inductive.                                                  *)

LEMMA InitQueue == ASSUME Deployment, Init PROVE QueueInv
<1>1. /\ issued = 0 /\ pending = <<>> /\ cloudJobs = [t \in Tokens |-> "absent"] /\ history = <<>>
      /\ announced = FALSE /\ fault = "none" /\ told = {} /\ raced = FALSE /\ net = {}
      /\ receipts = [t \in Tokens |-> 0] /\ faults = [lost |-> 0, restarts |-> 0]
  BY DEF Init
<1>2. PICK owner \in Pins, named \in SUBSET Devices :
        /\ mac = [pinned |-> owner # "none", bound |-> owner]
        /\ device = [d \in Devices |-> [at |-> "idle", token |-> 0, code |-> 0, try |-> 0,
                                        named |-> d \in named]]
  BY DEF Init
<1>3. \A d \in Devices : device[d] \in DeviceStates /\ device[d].token = 0
  BY <1>2 DEF DeviceStates, Phases, PrintCodes, Deployment
<1>4. mac \in [pinned : BOOLEAN, bound : Devices \cup {"none"}] BY <1>2 DEF Deployment
<1>5. Open = {} BY <1>1 DEF Open
<1>6. Len(pending) = 0 /\ Len(history) = 0 /\ pending \in Seq(Tokens) /\ history \in Seq(Tokens)
  BY <1>1, EmptySeq
<1>7. Typed
  <2>1. TypedServer BY <1>1, <1>4, <1>6 DEF TypedServer, JobStates, Deployment
  <2>2. TypedEvents BY <1>1 DEF TypedEvents
  <2>3. TypedPrinters
    <3>1. device \in [Devices -> DeviceStates] BY <1>2, <1>3
    <3>2. receipts \in [Tokens -> Nat] /\ faults \in [lost : Nat, restarts : Nat] BY <1>1
    <3> QED BY <1>1, <3>1, <3>2 DEF TypedPrinters
  <2> QED BY <2>1, <2>2, <2>3 DEF Typed
<1>8. Bounded BY <1>6 DEF Bounded, Deployment
<1>9. Ordered /\ QueuedIsOpen BY <1>5, <1>6 DEF Ordered, QueuedIsOpen
<1>10. Unissued BY <1>1, <1>3, <1>6 DEF Unissued
<1>11. HeadOnly BY <1>1, <1>5 DEF HeadOnly
<1> QED BY <1>7, <1>8, <1>9, <1>10, <1>11 DEF QueueInv

(* A step of a printer takes no token from the server.                     *)
LEMMA PrintersKeepQueue ==
  ASSUME Deployment, QueueInv, UNCHANGED <<server, reported>>, TypedPrinters',
         \A t \in Tokens : t > issued => receipts'[t] = 0,
         \A d \in Devices : device'[d].token \in {0, device[d].token},
         \A r \in net' : \/ r \in net
                         \/ r.offer = 0 /\ \E d \in Devices : r.sends \in {0, device[d].token}
  PROVE  QueueInv'
<1>1. /\ issued' = issued /\ pending' = pending /\ cloudJobs' = cloudJobs
      /\ history' = history /\ mac' = mac
      /\ announced' = announced /\ fault' = fault /\ told' = told /\ raced' = raced
  BY DEF server, reported
<1>2. Open' = Open BY <1>1 DEF Open
<1>3. 0 \notin Open /\ 0 <= issued
  BY TokensAreNat DEF Open, QueueInv, Typed, TypedServer, Deployment
<1>4. Typed' BY <1>1 DEF QueueInv, Typed, TypedServer, TypedEvents
<1>5. Bounded' /\ Ordered' /\ QueuedIsOpen'
  BY <1>1, <1>2 DEF QueueInv, Bounded, Ordered, QueuedIsOpen
<1>6. Unissued' BY <1>1, <1>3 DEF QueueInv, Unissued
<1>7. HeadOnly' BY <1>1, <1>2, <1>3 DEF QueueInv, HeadOnly
<1> QED BY <1>4, <1>5, <1>6, <1>7 DEF QueueInv

LEMMA SubmitKeepsQueue == ASSUME Deployment, QueueInv, Submit PROVE QueueInv'
<1> DEFINE t == issued + 1
<1>1. /\ issued < MaxTokens /\ Len(pending) < MaxPending
      /\ issued' = t /\ pending' = Append(pending, t)
      /\ cloudJobs' = [cloudJobs EXCEPT ![t] = "queued"]
      /\ UNCHANGED <<history, mac, reported, device, net, receipts, faults>>
  BY DEF Submit
<1>2. issued \in 0..MaxTokens /\ MaxTokens \in Nat /\ MaxPending \in Nat
  BY DEF QueueInv, Typed, TypedServer, Deployment
<1>3. t \in Tokens /\ t \in 1..MaxTokens /\ t > issued BY <1>1, <1>2 DEF Tokens
<1>4. pending \in Seq(Tokens) /\ history \in Seq(Tokens) /\ cloudJobs \in [Tokens -> JobStates]
  BY DEF QueueInv, Typed, TypedServer
<1> HIDE DEF t
<1>5. /\ Len(pending) \in Nat /\ pending' \in Seq(Tokens) /\ Len(pending') = Len(pending) + 1
      /\ \A i \in 1..Len(pending) : pending'[i] = pending[i]
      /\ pending'[Len(pending) + 1] = t
  BY <1>1, <1>3, <1>4, AppendFacts
<1>6. /\ cloudJobs' \in [Tokens -> JobStates]
      /\ \A u \in Tokens : cloudJobs'[u] = IF u = t THEN "queued" ELSE cloudJobs[u]
  BY <1>1, <1>3, <1>4 DEF JobStates
<1>7. Open' = Open \cup {t} BY <1>3, <1>6 DEF Open
<1>8. \A u \in Open : u <= issued /\ u \in Nat
  <2> SUFFICES ASSUME NEW u \in Open PROVE u <= issued /\ u \in Nat OBVIOUS
  <2>1. u \in Tokens /\ cloudJobs[u] # "absent" BY DEF Open
  <2>2. ~(u > issued) BY <2>1 DEF QueueInv, Unissued
  <2> QED BY <1>2, <2>1, <2>2 DEF Tokens
<1>9. Typed'
  <2>1. TypedServer'
    BY <1>1, <1>2, <1>3, <1>5, <1>6 DEF QueueInv, Typed, TypedServer
  <2>2. TypedEvents' /\ TypedPrinters'
    BY <1>1 DEF QueueInv, Typed, TypedEvents, TypedPrinters, reported
  <2> QED BY <2>1, <2>2 DEF Typed
<1>10. Bounded' BY <1>1, <1>2, <1>5 DEF QueueInv, Bounded
<1>11. \A i \in 1..Len(pending) : pending[i] <= issued /\ pending[i] \in Nat
  BY <1>8 DEF QueueInv, QueuedIsOpen
<1>12. \A i \in 1..Len(history) : history[i] <= issued /\ history[i] \in Nat
  BY <1>4, TokensAreNat, ElementOfSeq DEF QueueInv, Unissued
<1>13. Ordered'
  <2>1. ASSUME NEW i \in 1..Len(pending'), NEW j \in 1..Len(pending'), i < j
        PROVE  pending'[i] < pending'[j]
    <3>1. i \in 1..Len(pending) BY <1>5, <2>1
    <3>2. CASE j \in 1..Len(pending) BY <1>5, <2>1, <3>1, <3>2 DEF QueueInv, Ordered
    <3>3. CASE j = Len(pending) + 1 BY <1>2, <1>3, <1>5, <1>11, <3>1, <3>3
    <3> QED BY <1>5, <3>2, <3>3
  <2>2. \A i, j \in 1..Len(history') : i < j => history'[i] < history'[j]
    BY <1>1 DEF QueueInv, Ordered
  <2>3. ASSUME NEW i \in 1..Len(history'), NEW j \in 1..Len(pending')
        PROVE  history'[i] < pending'[j]
    <3>1. i \in 1..Len(history) /\ history'[i] = history[i] BY <1>1
    <3>2. CASE j \in 1..Len(pending) BY <1>5, <3>1, <3>2 DEF QueueInv, Ordered
    <3>3. CASE j = Len(pending) + 1 BY <1>2, <1>3, <1>5, <1>12, <3>1, <3>3
    <3> QED BY <1>5, <3>2, <3>3
  <2> QED BY <2>1, <2>2, <2>3 DEF Ordered
<1>14. QueuedIsOpen'
  <2>1. ASSUME NEW i \in 1..Len(pending') PROVE pending'[i] \in Open'
    <3>1. CASE i \in 1..Len(pending) BY <1>5, <1>7, <3>1 DEF QueueInv, QueuedIsOpen
    <3>2. CASE i = Len(pending) + 1 BY <1>5, <1>7, <3>2
    <3> QED BY <1>5, <3>1, <3>2
  <2>2. ASSUME NEW u \in Open' PROVE \E i \in 1..Len(pending') : pending'[i] = u
    <3>1. CASE u = t BY <1>5, <3>1
    <3>2. CASE u # t
      <4>1. PICK i \in 1..Len(pending) : pending[i] = u
        BY <1>7, <2>2, <3>2 DEF QueueInv, QueuedIsOpen
      <4> QED BY <1>5, <4>1
    <3> QED BY <3>1, <3>2
  <2> QED BY <2>1, <2>2 DEF QueuedIsOpen
<1>15. Unissued'
  <2>1. \A u \in Tokens : u > t => u # t /\ u > issued BY <1>2, <1>3, TokensAreNat
  <2>2. \A u \in Tokens : u > t => cloudJobs'[u] = "absent" /\ receipts'[u] = 0
    BY <1>1, <1>6, <2>1 DEF QueueInv, Unissued
  <2>3. \A i \in 1..Len(history') : history'[i] <= t BY <1>1, <1>2, <1>3, <1>12
  <2>4. ASSUME NEW d \in Devices PROVE device'[d].token <= t
    <3>1. device[d].token \in Nat /\ device[d].token <= issued /\ device'[d] = device[d]
      BY <1>1 DEF QueueInv, Typed, TypedPrinters, DeviceStates, Unissued, Deployment
    <3> QED BY <1>2, <1>3, <3>1
  <2>5. ASSUME NEW r \in net' PROVE r.sends <= t /\ r.offer <= t
    <3>1. r \in Messages /\ r.sends <= issued /\ r.offer <= issued
      BY <1>1 DEF QueueInv, Typed, TypedPrinters, Unissued
    <3>2. r.sends \in Nat /\ r.offer \in Nat BY <3>1 DEF Messages, Deployment
    <3> QED BY <1>2, <1>3, <3>1, <3>2
  <2> QED BY <1>1, <2>2, <2>3, <2>4, <2>5 DEF Unissued
<1>16. HeadOnly'
  <2>1. Open # {} => pending'[1] = pending[1]
    <3>1. Open # {} => pending # <<>> BY HeadIsOpen
    <3>2. pending # <<>> => 1 \in 1..Len(pending) BY <1>4, TailFacts
    <3> QED BY <1>5, <3>1, <3>2
  <2>2. ASSUME NEW d \in Devices, device'[d].token \in Open' PROVE device'[d].token = pending'[1]
    <3>1. device'[d] = device[d] /\ device[d].token <= issued BY <1>1 DEF QueueInv, Unissued
    <3>2. device[d].token # t BY <1>2, <1>3, <3>1
    <3>3. device[d].token \in Open BY <1>7, <2>2, <3>1, <3>2
    <3> QED BY <2>1, <3>1, <3>3 DEF QueueInv, HeadOnly
  <2>3. ASSUME NEW r \in net', r.sends \in Open' PROVE r.sends = pending'[1]
    <3>1. r \in net /\ r.sends <= issued BY <1>1 DEF QueueInv, Unissued
    <3>2. r.sends # t BY <1>2, <1>3, <3>1
    <3>3. r.sends \in Open BY <1>7, <2>3, <3>2
    <3> QED BY <2>1, <3>1, <3>3 DEF QueueInv, HeadOnly
  <2>4. ASSUME NEW r \in net', r.offer \in Open' PROVE r.offer = pending'[1]
    <3>1. r \in net /\ r.offer <= issued BY <1>1 DEF QueueInv, Unissued
    <3>2. r.offer # t BY <1>2, <1>3, <3>1
    <3>3. r.offer \in Open BY <1>7, <2>4, <3>2
    <3> QED BY <2>1, <3>1, <3>3 DEF QueueInv, HeadOnly
  <2> QED BY <2>2, <2>3, <2>4 DEF HeadOnly
<1> QED BY <1>9, <1>10, <1>13, <1>14, <1>15, <1>16 DEF QueueInv

(* A poll and a download leave the queue as it is; what they answer or are *)
(* to answer is the head, or nothing, or what was the head before.         *)
LEMMA AnswersKeepQueue ==
  ASSUME Deployment, QueueInv, UNCHANGED <<issued, pending, history, receipts, faults>>,
         Open' = Open, cloudJobs' \in [Tokens -> JobStates],
         \A t \in Tokens : t \notin Open => cloudJobs'[t] = cloudJobs[t],
         mac' \in [pinned : BOOLEAN, bound : Devices \cup {"none"}], TypedEvents',
         device' \in [Devices -> DeviceStates], net' \subseteq Messages,
         \A s \in net' : \E r \in net :
            /\ s.sends = r.sends
            /\ s.offer \in {0, r.offer} \/ (pending # <<>> /\ s.offer = pending[1]),
         \A d \in Devices : \/ device'[d].token \in {0, device[d].token}
                            \/ pending # <<>> /\ device'[d].token = pending[1]
                            \/ \E r \in net : device'[d].token = r.offer
  PROVE  QueueInv'
<1>1. Typed' BY DEF QueueInv, Typed, TypedServer, TypedPrinters
<1>2. Bounded' /\ Ordered' /\ QueuedIsOpen'
  BY DEF QueueInv, Bounded, Ordered, QueuedIsOpen
<1>3. 0 \notin Open /\ 0 <= issued
  BY TokensAreNat DEF Open, QueueInv, Typed, TypedServer, Deployment
<1>4. pending # <<>> => pending[1] <= issued BY HeadIsOpen
<1>5. \A t \in Tokens : t > issued => t \notin Open BY DEF QueueInv, Unissued, Open
<1>6. Unissued' BY <1>3, <1>4, <1>5 DEF QueueInv, Unissued
<1>7. HeadOnly' BY <1>3 DEF QueueInv, HeadOnly
<1> QED BY <1>1, <1>2, <1>6, <1>7 DEF QueueInv

(* A DELETE retires the head and no other token.                           *)
LEMMA ConfirmKeepsQueue ==
  ASSUME Deployment, QueueInv, NEW r \in net, Retires(r),
         UNCHANGED <<issued, mac, reported, receipts, faults>>,
         cloudJobs' \in [Tokens -> JobStates],
         device' \in [Devices -> DeviceStates], net' \subseteq net,
         \A d \in Devices : device'[d].token \in {0, device[d].token}
  PROVE  QueueInv'
<1> DEFINE t == Wanted(r)
<1>1. /\ t \in Open /\ t = pending[1] /\ pending # <<>> /\ t \in Tokens
      /\ pending' = Tail(pending) /\ history' = Kept(history, t)
      /\ \A u \in Tokens : u # t => cloudJobs'[u] \in {cloudJobs[u], "absent"}
      /\ Open' = Open \ {t}
  BY DEF Retires, Open
<1> HIDE DEF t
<1>2. /\ pending \in Seq(Tokens) /\ history \in Seq(Tokens) /\ Len(history) <= MaxHistory
      /\ MaxHistory \in Nat /\ issued \in Nat
  BY DEF QueueInv, Typed, TypedServer, Bounded, Deployment
<1>3. /\ Len(pending) \in Nat /\ Len(pending) >= 1 /\ pending' \in Seq(Tokens)
      /\ Len(pending') = Len(pending) - 1
      /\ \A i \in 1..Len(pending) - 1 : pending'[i] = pending[i + 1]
  BY <1>1, <1>2, TailFacts
<1> DEFINE x == Excess(history, t)
           n == Len(history)
<1>4. /\ n \in Nat /\ history' \in Seq(Tokens) /\ Len(history') <= MaxHistory
      /\ x \in {0, 1} /\ Len(history') = n + 1 - x
      /\ \A i \in 1..Len(history') : history'[i] = IF i + x <= n THEN history[i + x] ELSE t
  <2>1. /\ n \in Nat /\ \A i \in 1..n : Append(history, t)[i] = history[i]
        /\ Append(history, t)[n + 1] = t
    BY <1>1, <1>2, AppendFacts
  <2>2. /\ history' \in Seq(Tokens) /\ Len(history') <= MaxHistory
        /\ x \in {0, 1} /\ Len(history') = n + 1 - x
        /\ \A i \in 1..Len(history') : history'[i] = Append(history, t)[i + x]
    BY <1>1, <1>2, HistoryKept
  <2> HIDE DEF x, n
  <2>3. ASSUME NEW i \in 1..Len(history')
        PROVE  history'[i] = IF i + x <= n THEN history[i + x] ELSE t
    <3> DEFINE k == i + x
    <3>1. k \in 1..n + 1 BY <2>1, <2>2
    <3>2. history'[i] = Append(history, t)[k] BY <2>2
    <3> HIDE DEF k
    <3>3. CASE k <= n
      <4>1. k \in 1..n BY <2>1, <3>1, <3>3
      <4> QED BY <2>1, <3>2, <3>3, <4>1 DEF k
    <3>4. CASE ~(k <= n)
      <4>1. k = n + 1 BY <2>1, <3>1, <3>4
      <4> QED BY <2>1, <3>2, <3>4, <4>1 DEF k
    <3> QED BY <3>3, <3>4
  <2> QED BY <2>1, <2>2, <2>3
<1>5. /\ \A i \in 1..Len(pending) : pending[i] \in Nat /\ pending[i] <= issued
      /\ \A i \in 1..n : history[i] \in Nat /\ history[i] <= issued
      /\ t \in Nat /\ t <= issued
  <2>1. \A u \in Open : u \in Nat /\ u <= issued
    <3> SUFFICES ASSUME NEW u \in Open PROVE u \in Nat /\ u <= issued OBVIOUS
    <3>1. u \in Tokens /\ u \in Nat /\ cloudJobs[u] # "absent" BY TokensAreNat DEF Open
    <3> QED BY <1>2, <3>1 DEF QueueInv, Unissued
  <2>2. \A i \in 1..n : history[i] \in Nat
    BY <1>2, <1>4, TokensAreNat, ElementOfSeq
  <2> QED BY <1>1, <2>1, <2>2 DEF QueueInv, QueuedIsOpen, Unissued
<1>6. /\ \A i, j \in 1..Len(pending) : i < j => pending[i] < pending[j]
      /\ \A i, j \in 1..n : i < j => history[i] < history[j]
      /\ \A i \in 1..n, j \in 1..Len(pending) : history[i] < pending[j]
  BY DEF QueueInv, Ordered
<1> HIDE DEF x, n
<1>7. Ordered'
  <2>1. ASSUME NEW i \in 1..Len(pending'), NEW j \in 1..Len(pending'), i < j
        PROVE  pending'[i] < pending'[j]
    <3>1. /\ i + 1 \in 1..Len(pending) /\ j + 1 \in 1..Len(pending) /\ i + 1 < j + 1
          /\ i \in 1..Len(pending) - 1 /\ j \in 1..Len(pending) - 1
      BY <1>3, <2>1
    <3> QED BY <1>3, <1>6, <3>1
  <2>2. ASSUME NEW i \in 1..Len(history'), NEW j \in 1..Len(history'), i < j
        PROVE  history'[i] < history'[j]
    <3>1. i + x < j + x /\ i + x \in 1..n /\ j + x \in 1..n + 1 BY <1>4, <2>2
    <3>2. history'[i] = history[i + x] BY <1>4, <3>1
    <3>3. CASE j + x <= n
      <4>1. j + x \in 1..n /\ history'[j] = history[j + x] BY <1>4, <3>1, <3>3
      <4> QED BY <1>6, <3>1, <3>2, <4>1
    <3>4. CASE ~(j + x <= n)
      <4>1. history'[j] = pending[1] /\ 1 \in 1..Len(pending) BY <1>1, <1>3, <1>4, <3>4
      <4> QED BY <1>6, <3>1, <3>2, <4>1
    <3> QED BY <3>3, <3>4
  <2>3. ASSUME NEW i \in 1..Len(history'), NEW j \in 1..Len(pending')
        PROVE  history'[i] < pending'[j]
    <3>1. /\ j + 1 \in 1..Len(pending) /\ 1 \in 1..Len(pending) /\ 1 < j + 1
          /\ pending'[j] = pending[j + 1]
      BY <1>3
    <3>2. CASE i + x <= n
      <4>1. i + x \in 1..n /\ history'[i] = history[i + x] BY <1>4, <3>2
      <4> QED BY <1>6, <3>1, <4>1
    <3>3. CASE ~(i + x <= n)
      <4>1. history'[i] = pending[1] BY <1>1, <1>4, <3>3
      <4> QED BY <1>6, <3>1, <4>1
    <3> QED BY <3>2, <3>3
  <2> QED BY <2>1, <2>2, <2>3 DEF Ordered
<1>8. QueuedIsOpen'
  <2>1. ASSUME NEW i \in 1..Len(pending') PROVE pending'[i] \in Open'
    <3>1. /\ i + 1 \in 1..Len(pending) /\ 1 \in 1..Len(pending) /\ 1 < i + 1
          /\ pending'[i] = pending[i + 1]
      BY <1>3
    <3>2. pending[i + 1] # t BY <1>1, <1>5, <1>6, <3>1
    <3> QED BY <1>1, <3>1, <3>2 DEF QueueInv, QueuedIsOpen
  <2>2. ASSUME NEW u \in Open' PROVE \E i \in 1..Len(pending') : pending'[i] = u
    <3>1. PICK i \in 1..Len(pending) : pending[i] = u
      BY <1>1, <2>2 DEF QueueInv, QueuedIsOpen
    <3>2. i # 1 BY <1>1, <2>2, <3>1
    <3>3. i - 1 \in 1..Len(pending') /\ i - 1 + 1 = i /\ i - 1 \in 1..Len(pending) - 1 BY <1>3, <3>1, <3>2
    <3>4. pending'[i - 1] = pending[i] BY <1>3, <3>3
    <3> QED BY <3>1, <3>3, <3>4
  <2> QED BY <2>1, <2>2 DEF QueuedIsOpen
<1>9. Typed'
  BY <1>3, <1>4 DEF QueueInv, Typed, TypedServer, TypedEvents, TypedPrinters, reported
<1>10. Bounded' BY <1>3, <1>4 DEF QueueInv, Bounded, Deployment
<1>11. Unissued'
  <2>1. ASSUME NEW u \in Tokens, u > issued PROVE cloudJobs'[u] = "absent" /\ receipts[u] = 0
    <3>1. u # t BY <1>2, <1>5, <2>1
    <3> QED BY <1>1, <2>1, <3>1 DEF QueueInv, Unissued
  <2>2. ASSUME NEW i \in 1..Len(history') PROVE history'[i] <= issued
    <3>1. CASE i + x <= n
      <4>1. i + x \in 1..n /\ history'[i] = history[i + x] BY <1>4, <3>1
      <4> QED BY <1>5, <4>1
    <3>2. CASE ~(i + x <= n) BY <1>4, <1>5, <3>2
    <3> QED BY <3>1, <3>2
  <2>3. \A d \in Devices : device'[d].token <= issued BY <1>2 DEF QueueInv, Unissued
  <2>4. \A s \in net' : s.sends <= issued /\ s.offer <= issued BY DEF QueueInv, Unissued
  <2> QED BY <2>1, <2>2, <2>3, <2>4 DEF Unissued
<1>12. HeadOnly'
  <2>1. \A d \in Devices : device'[d].token \notin Open'
    <3>1. 0 \notin Open BY TokensAreNat DEF Open
    <3> QED BY <1>1, <3>1 DEF QueueInv, HeadOnly
  <2>2. \A s \in net' : s.sends \notin Open' /\ s.offer \notin Open'
    BY <1>1 DEF QueueInv, HeadOnly
  <2> QED BY <2>1, <2>2 DEF HeadOnly
<1> QED BY <1>7, <1>8, <1>9, <1>10, <1>11, <1>12 DEF QueueInv

LEMMA TokenAfter ==
  ASSUME NEW d
  PROVE  /\ SentHome(d) => device'[d].token = 0
         /\ \A at, t : GoesOn(d, at, t) => device'[d].token = t
BY DEF SentHome, GoesOn

LEMMA InitS == ASSUME Deployment, Init PROVE SInv
<1>1. \A d \in Devices : ~Busy(d) BY DEF Init, Busy
<1> QED BY <1>1, InitQueue DEF SInv, HandsFull

(* The request an HTTP worker goes on with.                                *)
LEMMA ServeDoes ==
  ASSUME Deployment, QueueInv, NEW d \in Devices, Serve(d)
  PROVE  /\ UNCHANGED <<issued, receipts, faults>>
         /\ \E r \in net :
              \/ /\ TypedEvents' /\ mac' \in [pinned : BOOLEAN, bound : Devices \cup {"none"}]
                 /\ Replies(r) \/ \E s \in Messages : Moves(r, s)
              \/ net' = net \ {r} /\ (FetchJob(r) \/ Confirm(r))
<1>1. PICK r \in net : Poll(r) \/ Publish(r) \/ FetchJob(r) \/ Confirm(r) BY DEF Serve
<1>2. CASE Poll(r) BY <1>2, PollDoes DEF Serve
<1>3. CASE Publish(r) BY <1>3, PublishDoes DEF Serve
<1>4. CASE FetchJob(r) BY <1>4 DEF Serve, FetchJob
<1>5. CASE Confirm(r) BY <1>5 DEF Serve, Confirm
<1> QED BY <1>1, <1>2, <1>3, <1>4, <1>5

LEMMA RepliesKeepS ==
  ASSUME Deployment, SInv, NEW r \in net, Replies(r), TypedEvents',
         mac' \in [pinned : BOOLEAN, bound : Devices \cup {"none"}],
         UNCHANGED <<issued, receipts, faults>>
  PROVE  SInv'
<1>1. QueueInv /\ Typed /\ TypedPrinters BY DEF SInv, QueueInv, Typed
<1>2. /\ UNCHANGED <<pending, cloudJobs, history>> /\ net' = net \ {r}
      /\ device' \in [Devices -> DeviceStates]
      /\ \A d \in Devices :
           \/ device'[d] = device[d]
           \/ SentHome(d)
           \/ r.offer # 0 /\ GoesOn(d, "offered", r.offer)
  BY DEF Replies
<1>3. Open' = Open /\ cloudJobs' \in [Tokens -> JobStates]
  BY <1>1, <1>2 DEF Open, QueueInv, Typed, TypedServer
<1>4. \A d \in Devices : \/ device'[d].token \in {0, device[d].token}
                         \/ pending # <<>> /\ device'[d].token = pending[1]
                         \/ \E s \in net : device'[d].token = s.offer
  <2> SUFFICES ASSUME NEW d \in Devices
               PROVE  \/ device'[d].token \in {0, device[d].token}
                      \/ \E s \in net : device'[d].token = s.offer
    OBVIOUS
  <2>1. CASE device'[d] = device[d] BY <2>1
  <2>2. CASE SentHome(d) BY <2>2, TokenAfter
  <2>3. CASE r.offer # 0 /\ GoesOn(d, "offered", r.offer) BY <2>3, TokenAfter
  <2> QED BY <1>2, <2>1, <2>2, <2>3
<1>5. net' \subseteq Messages /\ net' \subseteq net BY <1>1, <1>2 DEF TypedPrinters
<1>6. \A s \in net' : \E u \in net :
        /\ s.sends = u.sends
        /\ s.offer \in {0, u.offer} \/ (pending # <<>> /\ s.offer = pending[1])
  BY <1>5
<1>7. QueueInv' BY <1>1, <1>2, <1>3, <1>4, <1>5, <1>6, AnswersKeepQueue
<1>8. HandsFull' BY <1>2 DEF SInv, HandsFull, Busy, SentHome, GoesOn
<1> QED BY <1>7, <1>8 DEF SInv

LEMMA MovesKeepS ==
  ASSUME Deployment, SInv, NEW r \in net, NEW s \in Messages, Moves(r, s), TypedEvents',
         mac' \in [pinned : BOOLEAN, bound : Devices \cup {"none"}],
         UNCHANGED <<issued, receipts, faults>>
  PROVE  SInv'
<1>1. QueueInv /\ Typed /\ TypedPrinters BY DEF SInv, QueueInv, Typed
<1>2. /\ UNCHANGED <<pending, cloudJobs, history, device>> /\ net' = (net \ {r}) \cup {s}
      /\ s.sends = r.sends
      /\ s.offer \in {0, r.offer} \/ (pending # <<>> /\ s.offer = pending[1])
  BY DEF Moves, SameRequest
<1>3. Open' = Open /\ cloudJobs' \in [Tokens -> JobStates] /\ device' \in [Devices -> DeviceStates]
  BY <1>1, <1>2 DEF Open, Typed, TypedServer, TypedPrinters
<1>4. net' \subseteq Messages BY <1>1, <1>2 DEF TypedPrinters
<1>5. \A v \in net' : \E u \in net :
        /\ v.sends = u.sends
        /\ v.offer \in {0, u.offer} \/ (pending # <<>> /\ v.offer = pending[1])
  BY <1>2
<1>6. QueueInv' BY <1>1, <1>2, <1>3, <1>4, <1>5, AnswersKeepQueue
<1>7. HandsFull' BY <1>2 DEF SInv, HandsFull, Busy
<1> QED BY <1>6, <1>7 DEF SInv

LEMMA FetchKeepsS ==
  ASSUME Deployment, SInv, NEW r \in net, FetchJob(r), net' = net \ {r},
         UNCHANGED <<issued, receipts, faults>>
  PROVE  SInv'
<1>1. QueueInv BY DEF SInv
<1>2. /\ UNCHANGED <<pending, history, mac, reported>>
      /\ cloudJobs' \in [Tokens -> JobStates] /\ Open' = Open
      /\ \A t \in Tokens : t \notin Open => cloudJobs'[t] = cloudJobs[t]
      /\ device' \in [Devices -> DeviceStates]
      /\ \A d \in Devices :
           \/ device'[d] = device[d]
           \/ SentHome(d)
           \/ GoesOn(d, "have", Wanted(r)) /\ Wanted(r) \in Open /\ Wanted(r) = pending[1]
  BY <1>1, FetchDoes
<1>3. Open # {} => pending # <<>> BY <1>1, HeadIsOpen
<1>4. \A d \in Devices : \/ device'[d].token \in {0, device[d].token}
                         \/ pending # <<>> /\ device'[d].token = pending[1]
  <2> SUFFICES ASSUME NEW d \in Devices
               PROVE  \/ device'[d].token \in {0, device[d].token}
                      \/ pending # <<>> /\ device'[d].token = pending[1]
    OBVIOUS
  <2>1. CASE device'[d] = device[d] BY <2>1
  <2>2. CASE SentHome(d) BY <2>2, TokenAfter
  <2>3. CASE GoesOn(d, "have", Wanted(r)) /\ Wanted(r) \in Open /\ Wanted(r) = pending[1]
    BY <1>3, <2>3, TokenAfter
  <2> QED BY <1>2, <2>1, <2>2, <2>3
<1>5. TypedEvents' /\ mac' \in [pinned : BOOLEAN, bound : Devices \cup {"none"}]
  BY <1>1, <1>2 DEF QueueInv, Typed, TypedEvents, TypedServer, reported
<1>6. /\ net' \subseteq Messages
      /\ \A s \in net' : \E u \in net :
            /\ s.sends = u.sends
            /\ s.offer \in {0, u.offer} \/ (pending # <<>> /\ s.offer = pending[1])
  BY <1>1 DEF QueueInv, Typed, TypedPrinters
<1>7. QueueInv' BY <1>1, <1>2, <1>4, <1>5, <1>6, AnswersKeepQueue
<1>8. HandsFull'
  <2>1. \A t \in Open : t # 0 BY TokensAreNat DEF Open
  <2> QED BY <1>2, <2>1 DEF SInv, HandsFull, Busy, SentHome, GoesOn
<1> QED BY <1>7, <1>8 DEF SInv

LEMMA ConfirmKeepsS ==
  ASSUME Deployment, SInv, NEW r \in net, Confirm(r), net' = net \ {r},
         UNCHANGED <<issued, receipts, faults>>
  PROVE  SInv'
<1>1. QueueInv BY DEF SInv
<1>2. /\ UNCHANGED <<mac, reported>> /\ (Retires(r) \/ Ignores(r))
      /\ cloudJobs' \in [Tokens -> JobStates]
      /\ device' \in [Devices -> DeviceStates]
      /\ \A d \in Devices : device'[d] = device[d] \/ SentHome(d)
  BY <1>1, ConfirmDoes
<1>3. \A d \in Devices : device'[d].token \in {0, device[d].token}
  BY <1>2, TokenAfter
<1>4. ASSUME Retires(r) PROVE QueueInv' BY <1>1, <1>2, <1>3, <1>4, ConfirmKeepsQueue
<1>5. ASSUME Ignores(r) PROVE QueueInv'
  <2>1. UNCHANGED <<pending, history, cloudJobs>> /\ Open' = Open BY <1>5 DEF Ignores
  <2>2. mac' \in [pinned : BOOLEAN, bound : Devices \cup {"none"}] /\ TypedEvents'
    BY <1>1, <1>2 DEF QueueInv, Typed, TypedServer, TypedEvents, reported
  <2>3. \A d \in Devices : \/ device'[d].token \in {0, device[d].token}
                           \/ pending # <<>> /\ device'[d].token = pending[1]
    BY <1>3
  <2>4. \A t \in Tokens : t \notin Open => cloudJobs'[t] = cloudJobs[t] BY <2>1
  <2>5. /\ net' \subseteq Messages
        /\ \A s \in net' : \E u \in net :
              /\ s.sends = u.sends
              /\ s.offer \in {0, u.offer} \/ (pending # <<>> /\ s.offer = pending[1])
    BY <1>1 DEF QueueInv, Typed, TypedPrinters
  <2> QED BY <1>1, <1>2, <2>1, <2>2, <2>3, <2>4, <2>5, AnswersKeepQueue
<1>6. HandsFull' BY <1>2 DEF SInv, HandsFull, Busy, SentHome
<1> QED BY <1>2, <1>4, <1>5, <1>6 DEF SInv

LEMMA SendsKeepS ==
  ASSUME Deployment, SInv, NEW d \in Devices, NEW op \in Calls,
         NEW code \in PollCodes \cup PrintCodes, Sends(d, op, code),
         op # "polling" => Busy(d)
  PROVE  SInv'
<1>1. QueueInv /\ TypedPrinters BY DEF SInv, QueueInv, Typed
<1>2. /\ device' \in [Devices -> DeviceStates]
      /\ \A e \in Devices : e # d => device'[e] = device[e]
      /\ GoesOn(d, op, device[d].token)
      /\ net' = net \cup {Message(d, op, code)} /\ net' \subseteq Messages
      /\ UNCHANGED <<server, reported, receipts, faults>>
  BY <1>1, SendsDoes
<1>3. TypedPrinters' BY <1>1, <1>2 DEF TypedPrinters
<1>4. \A e \in Devices : device'[e].token \in {0, device[e].token} BY <1>2 DEF GoesOn
<1>5. \A r \in net' : \/ r \in net
                      \/ r.offer = 0 /\ \E e \in Devices : r.sends \in {0, device[e].token}
  BY <1>2, MessageFields
<1>6. QueueInv' BY <1>1, <1>2, <1>3, <1>4, <1>5, PrintersKeepQueue DEF QueueInv, Unissued
<1>7. HandsFull' BY <1>2 DEF SInv, HandsFull, Busy, GoesOn
<1> QED BY <1>6, <1>7 DEF SInv

LEMMA PrintKeepsS ==
  ASSUME Deployment, SInv, NEW d \in Devices, PrintReceipt(d)
  PROVE  SInv'
<1>1. QueueInv /\ TypedPrinters /\ HandsFull BY DEF SInv, QueueInv, Typed
<1>2. /\ device[d].at = "have" /\ device[d].token \in Tokens
      /\ device' \in [Devices -> DeviceStates] /\ receipts' \in [Tokens -> Nat]
      /\ \A e \in Devices : e # d => device'[e] = device[e]
      /\ device'[d].token = device[d].token
      /\ \A t \in Tokens : t # device[d].token => receipts'[t] = receipts[t]
      /\ UNCHANGED <<server, reported, net, faults>>
  BY <1>1, PrintDoes
<1>3. TypedPrinters' BY <1>1, <1>2 DEF TypedPrinters
<1>4. \A e \in Devices : device'[e].token \in {0, device[e].token} BY <1>2
<1>5. \A t \in Tokens : t > issued => receipts'[t] = 0
  <2>1. device[d].token <= issued /\ device[d].token \in Nat /\ issued \in Nat
    BY <1>1, <1>2, TokensAreNat DEF QueueInv, Unissued, Typed, TypedServer, Deployment
  <2>2. \A t \in Tokens : t > issued => t # device[d].token BY <2>1
  <2> QED BY <1>1, <1>2, <2>2 DEF QueueInv, Unissued
<1>6. QueueInv' BY <1>1, <1>2, <1>3, <1>4, <1>5, PrintersKeepQueue
<1>7. HandsFull' BY <1>1, <1>2 DEF HandsFull, Busy
<1> QED BY <1>6, <1>7 DEF SInv

LEMMA GiveUpKeepsS ==
  ASSUME Deployment, SInv, NEW d \in Devices, GiveUp(d)
  PROVE  SInv'
<1>1. QueueInv /\ TypedPrinters /\ HandsFull BY DEF SInv, QueueInv, Typed
<1>2. /\ device' \in [Devices -> DeviceStates]
      /\ \A e \in Devices : e # d => device'[e] = device[e]
      /\ device'[d].token = device[d].token
      /\ \/ device[d].at = "polling" /\ device'[d].at = "idle"
         \/ device[d].at = "fetching" /\ device'[d].at = "offered"
         \/ device[d].at = "deleting" /\ device'[d].at = "printed"
      /\ net' \subseteq net /\ faults' \in [lost : Nat, restarts : Nat]
      /\ UNCHANGED <<server, reported, receipts>>
  BY <1>1, GiveUpDoes
<1>3. TypedPrinters' BY <1>1, <1>2 DEF TypedPrinters
<1>4. \A e \in Devices : device'[e].token \in {0, device[e].token} BY <1>2
<1>5. QueueInv' BY <1>1, <1>2, <1>3, <1>4, PrintersKeepQueue DEF QueueInv, Unissued
<1>6. HandsFull' BY <1>1, <1>2 DEF HandsFull, Busy
<1> QED BY <1>5, <1>6 DEF SInv

LEMMA PowerLossKeepsS ==
  ASSUME Deployment, SInv, NEW d \in Devices, PowerLoss(d)
  PROVE  SInv'
<1>1. QueueInv /\ TypedPrinters /\ HandsFull BY DEF SInv, QueueInv, Typed
<1>2. /\ device' \in [Devices -> DeviceStates]
      /\ \A e \in Devices : e # d => device'[e] = device[e]
      /\ device'[d].at = "idle" /\ device'[d].token = 0
      /\ faults' \in [lost : Nat, restarts : Nat]
      /\ UNCHANGED <<server, reported, net, receipts>>
  BY <1>1, PowerLossDoes
<1>3. TypedPrinters' BY <1>1, <1>2 DEF TypedPrinters
<1>4. \A e \in Devices : device'[e].token \in {0, device[e].token} BY <1>2
<1>5. QueueInv' BY <1>1, <1>2, <1>3, <1>4, PrintersKeepQueue DEF QueueInv, Unissued
<1>6. HandsFull' BY <1>1, <1>2 DEF HandsFull, Busy
<1> QED BY <1>5, <1>6 DEF SInv

LEMMA FirmwareSends ==
  ASSUME Deployment, TypedPrinters, NEW d \in Devices,
         SendPoll(d) \/ SendGet(d) \/ SendDelete(d)
  PROVE  \E op \in Calls, code \in PollCodes \cup PrintCodes :
            /\ Sends(d, op, code)
            /\ \/ op = "polling" /\ device[d].at = "idle"
               \/ op = "fetching" /\ device[d].at = "offered"
               \/ /\ op = "deleting" /\ device[d].at = "printed" /\ code = device[d].code
                  /\ code \in PrintCodes
<1>1. device[d].code \in PrintCodes BY DEF TypedPrinters, DeviceStates
<1>2. CASE SendPoll(d) BY <1>2 DEF SendPoll, Calls
<1>3. CASE SendGet(d) BY <1>3 DEF SendGet, Calls, PrintCodes
<1>4. CASE SendDelete(d) BY <1>1, <1>4 DEF SendDelete, Calls
<1> QED BY <1>2, <1>3, <1>4

LEMMA SStep == ASSUME Deployment, SInv, [Next]_vars PROVE SInv'
<1>1. CASE Submit
  <2>1. QueueInv' BY <1>1, SubmitKeepsQueue DEF SInv
  <2>2. HandsFull' BY <1>1 DEF SInv, HandsFull, Busy, Submit
  <2> QED BY <2>1, <2>2 DEF SInv
<1>2. ASSUME NEW d \in Devices, Serve(d) PROVE SInv'
  <2>1. QueueInv BY DEF SInv
  <2>2. UNCHANGED <<issued, receipts, faults>> BY <1>2, <2>1, ServeDoes
  <2>3. PICK r \in net :
          \/ /\ TypedEvents' /\ mac' \in [pinned : BOOLEAN, bound : Devices \cup {"none"}]
             /\ Replies(r) \/ \E s \in Messages : Moves(r, s)
          \/ net' = net \ {r} /\ (FetchJob(r) \/ Confirm(r))
    BY <1>2, <2>1, ServeDoes
  <2>4. CASE net' = net \ {r} /\ FetchJob(r) BY <2>2, <2>4, FetchKeepsS
  <2>5. CASE net' = net \ {r} /\ Confirm(r) BY <2>2, <2>5, ConfirmKeepsS
  <2>6. CASE /\ TypedEvents' /\ mac' \in [pinned : BOOLEAN, bound : Devices \cup {"none"}]
             /\ Replies(r)
    BY <2>2, <2>6, RepliesKeepS
  <2>7. CASE /\ TypedEvents' /\ mac' \in [pinned : BOOLEAN, bound : Devices \cup {"none"}]
             /\ \E s \in Messages : Moves(r, s)
    BY <2>2, <2>7, MovesKeepS
  <2> QED BY <2>3, <2>4, <2>5, <2>6, <2>7
<1>3. ASSUME NEW d \in Devices, SendPoll(d) \/ SendGet(d) \/ SendDelete(d) PROVE SInv'
  <2>1. TypedPrinters BY DEF SInv, QueueInv, Typed
  <2>2. PICK op \in Calls, code \in PollCodes \cup PrintCodes :
          Sends(d, op, code) /\ (op # "polling" => Busy(d))
    BY <1>3, <2>1, FirmwareSends DEF Busy
  <2> QED BY <2>2, SendsKeepS
<1>4. ASSUME NEW d \in Devices, PrintReceipt(d) PROVE SInv' BY <1>4, PrintKeepsS
<1>5. ASSUME NEW d \in Devices, GiveUp(d) PROVE SInv' BY <1>5, GiveUpKeepsS
<1>6. ASSUME NEW d \in Devices, PowerLoss(d) PROVE SInv' BY <1>6, PowerLossKeepsS
<1>7. CASE UNCHANGED vars
  <2>1. /\ UNCHANGED <<issued, pending, cloudJobs, history, mac>>
        /\ UNCHANGED <<reported, device, net, receipts, faults>>
    BY <1>7 DEF vars, server
  <2> QED BY <2>1 DEF SInv, QueueInv, Typed, TypedServer, TypedEvents, TypedPrinters, reported,
                      Bounded, Ordered, QueuedIsOpen, Unissued, HeadOnly, HandsFull, Busy, Open
<1> QED BY <1>1, <1>2, <1>3, <1>4, <1>5, <1>6, <1>7 DEF Next, Firmware

-----------------------------------------------------------------------------
(* PaperInv is inductive where every printer sends the token of its job.   *)

LEMMA InitPaper == ASSUME Deployment, Init PROVE PaperInv
<1>1. SInv BY InitS
<1>2. /\ net = {} /\ issued = 0 /\ cloudJobs = [t \in Tokens |-> "absent"]
      /\ receipts = [t \in Tokens |-> 0] /\ faults = [lost |-> 0, restarts |-> 0]
  BY DEF Init
<1>3. PICK owner \in Pins, named \in SUBSET Devices :
        /\ named = Devices \/ owner \in named
        /\ mac = [pinned |-> owner # "none", bound |-> owner]
        /\ device = [d \in Devices |-> [at |-> "idle", token |-> 0, code |-> 0, try |-> 0,
                                        named |-> d \in named]]
  BY DEF Init
<1>4. /\ mac.pinned = (owner # "none") /\ mac.bound = owner
      /\ \A d \in Devices : device[d].at = "idle" /\ device[d].named = (d \in named)
  BY <1>3
<1>5. owner = "none" => named = Devices BY <1>3 DEF Deployment
<1>6. Alone
  <2>1. mac.pinned \/ \A d \in Devices : device[d].named BY <1>4, <1>5
  <2>2. mac.pinned => mac.bound # "none" BY <1>4
  <2>3. \A d \in Devices : ~Busy(d) BY <1>4 DEF Busy
  <2> QED BY <1>2, <2>1, <2>2, <2>3 DEF Alone
<1>7. Current /\ Tokened /\ Evidence BY <1>2, <1>4 DEF Current, Tokened, Evidence
<1>8. Copies
  <2>1. \A t \in Tokens : receipts[t] = 0 /\ ~Refused(t) BY <1>2 DEF Refused
  <2>2. faults.restarts = 0 BY <1>2
  <2> QED BY <1>4, <2>1, <2>2 DEF Copies, CopiesOf
<1> QED BY <1>1, <1>6, <1>7, <1>8 DEF PaperInv

(* What any answer of the server leaves of where the printers are.         *)
Answered(r) ==
  /\ net' = net \ {r} /\ UNCHANGED <<receipts, faults>>
  /\ \A d \in Devices :
       \/ device'[d] = device[d]
       \/ Awaits(d, r) /\ SentHome(d)
       \/ Awaits(d, r) /\ r.op = "polling" /\ r.served /\ GoesOn(d, "offered", r.offer)
       \/ Awaits(d, r) /\ r.op = "fetching" /\ Wanted(r) \in Open /\ GoesOn(d, "have", Wanted(r))
  /\ Awaits(r.dev, r) => device'[r.dev].at # r.op

LEMMA AnsweredKeeps ==
  ASSUME NEW r \in net, Answered(r), PaperInv, Deployment, SInv'
  PROVE  /\ \A d \in Devices : device'[d].try = device[d].try /\ device'[d].named = device[d].named
         /\ Current' /\ Tokened' /\ Evidence'
         /\ \A d \in Devices : device'[d].at \in {"printed", "deleting"} => device'[d] = device[d]
<1>1. \A d \in Devices : device'[d].try = device[d].try
  BY DEF Answered, SentHome, GoesOn
<1>2. ASSUME NEW d \in Devices PROVE device'[d].named = device[d].named
  <2>1. CASE device'[d] = device[d] BY <2>1
  <2>2. CASE SentHome(d) BY <2>2 DEF SentHome
  <2>3. CASE GoesOn(d, "offered", r.offer) BY <2>3 DEF GoesOn
  <2>4. CASE GoesOn(d, "have", Wanted(r)) BY <2>4 DEF GoesOn
  <2> QED BY <2>1, <2>2, <2>3, <2>4 DEF Answered
<1>3. \A d \in Devices : device'[d].at \in {"printed", "deleting"} => device'[d] = device[d]
  BY DEF Answered, SentHome, GoesOn
<1>4. Current'
  <2>1. net' \subseteq net /\ r \notin net' /\ \A s \in net : s.dev \in Devices
    BY DEF Answered, PaperInv, SInv, QueueInv, Typed, TypedPrinters, Messages
  <2>2. ASSUME NEW s \in net', s.try = device'[s.dev].try PROVE device'[s.dev] = device[s.dev]
    <3>1. s \in net /\ s # r /\ s.dev \in Devices /\ s.try = device[s.dev].try
      BY <1>1, <2>1, <2>2
    <3>2. ~Awaits(s.dev, r)
      BY <3>1 DEF Awaits, PaperInv, Current
    <3> QED BY <3>1, <3>2 DEF Answered
  <2>3. \A s \in net' : s.try <= device'[s.dev].try BY <1>1, <2>1 DEF PaperInv, Current
  <2>4. ASSUME NEW s \in net', s.try = device'[s.dev].try
        PROVE  /\ device'[s.dev].at = s.op
               /\ s.sends = device'[s.dev].token
               /\ s.op = "deleting" => s.code = device'[s.dev].code
    BY <2>1, <2>2, <2>4 DEF PaperInv, Current
  <2>5. \A s, u \in net' : s.dev = u.dev /\ s.try = u.try /\ s.try = device'[s.dev].try => s = u
    <3> SUFFICES ASSUME NEW s \in net', NEW u \in net', s.dev = u.dev, s.try = u.try,
                        s.try = device'[s.dev].try
                 PROVE  s = u
      OBVIOUS
    <3>1. s \in net /\ u \in net /\ s.try = device[s.dev].try BY <1>1, <2>1
    <3> QED BY <3>1 DEF PaperInv, Current
  <2> QED BY <2>3, <2>4, <2>5 DEF Current
<1>5. Tokened' BY DEF Answered, PaperInv, Tokened
<1>6. Evidence' BY <1>3 DEF Answered, PaperInv, Evidence
<1> QED BY <1>1, <1>2, <1>3, <1>4, <1>5, <1>6

(* Who may get past a poll does not change once the route is bound.        *)
LEMMA AloneKept ==
  ASSUME Alone, TypedPrinters, net' \subseteq net, UNCHANGED mac,
         \A d \in Devices : device'[d].named = device[d].named /\ (Busy(d)' => Busy(d))
  PROVE  Alone'
<1>1. \A r \in net : r.dev \in Devices BY DEF TypedPrinters, Messages
<1>2. mac'.pinned \/ \A d \in Devices : device'[d].named BY DEF Alone
<1>3. mac'.pinned => mac'.bound # "none" BY DEF Alone
<1>4. \A d \in Devices : Busy(d)' => mac'.bound = d /\ device'[d].named BY DEF Alone
<1>5. \A r \in net' : r.name = IF device'[r.dev].named THEN r.dev ELSE "none"
  BY <1>1 DEF Alone
<1>6. \A r \in net' : r.served \/ r.op # "polling" =>
                        mac'.bound = r.dev /\ device'[r.dev].named
  BY <1>1 DEF Alone
<1> QED BY <1>2, <1>3, <1>4, <1>5, <1>6 DEF Alone

(* A step that hands nobody a receipt, and tells the server of no refusal. *)
LEMMA CopiesCarry ==
  ASSUME NEW t \in Tokens, CopiesOf(t), TypedPrinters, TypedPrinters',
         receipts'[t] = receipts[t], faults'.restarts = faults.restarts,
         Obtainable(t)' => Obtainable(t), Obtainable(t)' /\ Holding(t) => Holding(t)',
         Refused(t)' => Refused(t)
  PROVE  CopiesOf(t)'
BY DEF CopiesOf

(* What a printer that waits for r has, r being current.                   *)
LEMMA AwaitsHas ==
  ASSUME PaperInv, NEW r \in net, NEW d \in Devices, Awaits(d, r)
  PROVE  device[d].token = r.sends /\ d = r.dev /\ device[d].at = r.op
BY DEF Awaits, PaperInv, Current

(* No printer comes to wait for an answer that was made for an earlier     *)
(* attempt.                                                                *)
LEMMA PromisedCarry ==
  ASSUME PaperInv, NEW t, \A s \in net' : s.served => s \in net,
         \A d \in Devices : device'[d].try \in {device[d].try, device[d].try + 1}
  PROVE  Promised(t)' => Promised(t)
<1> SUFFICES ASSUME NEW s \in net', s.served, s.offer = t, s.try = device'[s.dev].try
             PROVE  s \in net /\ s.try = device[s.dev].try
  BY DEF Promised
<1>1. s \in net /\ s.try <= device[s.dev].try BY DEF PaperInv, Current
<1>2. TypedPrinters BY DEF PaperInv, SInv, QueueInv, Typed
<1>3. s.dev \in Devices /\ s.try \in Nat /\ device[s.dev] \in DeviceStates
  BY <1>1, <1>2 DEF TypedPrinters, Messages
<1>4. device[s.dev].try \in Nat BY <1>3 DEF DeviceStates
<1> QED BY <1>1, <1>3, <1>4

LEMMA RepliesKeepPaper ==
  ASSUME Deployment, PaperInv, NEW r \in net, Replies(r), TypedEvents',
         mac' \in [pinned : BOOLEAN, bound : Devices \cup {"none"}],
         UNCHANGED <<issued, receipts, faults>>
  PROVE  PaperInv'
<1>1. SInv /\ QueueInv /\ TypedPrinters /\ r.op = "polling" /\ r.dev \in Devices /\ Alone
  BY DEF PaperInv, SInv, QueueInv, Typed, TypedPrinters, Messages, Replies
<1>2. SInv' BY <1>1, RepliesKeepS
<1>3. /\ UNCHANGED <<pending, cloudJobs, history, mac>> /\ net' \subseteq net
      /\ \A d \in Devices :
           \/ device'[d] = device[d]
           \/ Awaits(d, r) /\ SentHome(d)
           \/ Awaits(d, r) /\ r.served /\ r.offer # 0 /\ GoesOn(d, "offered", r.offer)
      /\ Awaits(r.dev, r) => device'[r.dev].at # r.op
  BY DEF Replies
<1>4. Answered(r) BY <1>1, <1>3 DEF Answered, Replies
<1>5. /\ \A d \in Devices : device'[d].try = device[d].try /\ device'[d].named = device[d].named
      /\ Current' /\ Tokened' /\ Evidence'
      /\ \A d \in Devices : device'[d].at \in {"printed", "deleting"} => device'[d] = device[d]
  BY <1>2, <1>4, AnsweredKeeps
<1>6. Alone'
  <2>1. \A s \in net : s.dev \in Devices BY <1>1 DEF TypedPrinters, Messages
  <2>2. mac'.pinned \/ \A d \in Devices : device'[d].named BY <1>1, <1>3, <1>5 DEF Alone
  <2>3. mac'.pinned => mac'.bound # "none" BY <1>1, <1>3 DEF Alone
  <2>4. ASSUME NEW d \in Devices, Busy(d)' PROVE mac'.bound = d /\ device'[d].named
    <3>1. CASE device'[d] = device[d]
      <4>1. Busy(d) BY <2>4, <3>1 DEF Busy
      <4> QED BY <1>1, <1>3, <3>1, <4>1 DEF Alone
    <3>2. CASE SentHome(d) BY <2>4, <3>2 DEF SentHome, Busy
    <3>3. CASE Awaits(d, r) /\ r.served
      <4>1. d = r.dev BY <3>3 DEF Awaits
      <4> QED BY <1>1, <1>3, <1>5, <3>3, <4>1 DEF Alone
    <3> QED BY <1>3, <3>1, <3>2, <3>3
  <2>5. \A s \in net' : s.name = IF device'[s.dev].named THEN s.dev ELSE "none"
    BY <1>1, <1>3, <1>5, <2>1 DEF Alone
  <2>6. \A s \in net' : s.served \/ s.op # "polling" =>
                          mac'.bound = s.dev /\ device'[s.dev].named
    BY <1>1, <1>3, <1>5, <2>1 DEF Alone
  <2> QED BY <2>2, <2>3, <2>4, <2>5, <2>6 DEF Alone
<1>7. Copies'
  <2>1. Open' = Open BY <1>3 DEF Open
  <2>2. ASSUME NEW t \in Tokens PROVE CopiesOf(t)'
    <3>1. Holding(t) => Holding(t)'
      <4> SUFFICES ASSUME NEW d \in Devices, device[d].at \in {"printed", "deleting"},
                          device[d].token = t
                   PROVE  Holding(t)'
        BY DEF Holding
      <4>1. ~Awaits(d, r) BY <1>1 DEF Awaits
      <4>2. device'[d] = device[d] BY <1>3, <4>1
      <4> QED BY <4>2 DEF Holding
    <3>2. Obtainable(t)' => Obtainable(t)
      <4>1. ASSUME NEW d \in Devices, device'[d].at \in {"offered", "fetching", "have"},
                   device'[d].token = t
            PROVE  Obtainable(t)
        <5>1. CASE device'[d] = device[d] BY <4>1, <5>1 DEF Obtainable, Promised
        <5>2. CASE SentHome(d) BY <4>1, <5>2 DEF SentHome
        <5>3. CASE Awaits(d, r) /\ r.served /\ GoesOn(d, "offered", r.offer)
          <6>1. r.offer = t /\ r.try = device[r.dev].try
            BY <4>1, <5>3 DEF GoesOn, Awaits
          <6> QED BY <5>3, <6>1 DEF Obtainable, Promised
        <5> QED BY <1>3, <5>1, <5>2, <5>3
      <4>2. ASSUME NEW s \in net', s.served, s.offer = t, s.try = device'[s.dev].try
            PROVE  Obtainable(t)
        <5>1. s \in net /\ s.dev \in Devices BY <1>1, <1>3 DEF TypedPrinters, Messages
        <5>2. s.try = device[s.dev].try BY <1>5, <4>2, <5>1
        <5> QED BY <4>2, <5>1, <5>2 DEF Obtainable, Promised
      <4> QED BY <2>1, <4>1, <4>2 DEF Obtainable, Promised
    <3>3. Refused(t)' => Refused(t) BY <1>3, <2>1 DEF Refused
    <3>4. CopiesOf(t) BY DEF PaperInv, Copies
    <3>5. TypedPrinters' BY <1>2 DEF SInv, QueueInv, Typed
    <3> QED BY <1>1, <3>1, <3>2, <3>3, <3>4, <3>5, CopiesCarry
  <2>3. \A d \in Devices : device'[d].at \in {"printed", "deleting"} /\ device'[d].code = 410
           => receipts'[device'[d].token] <= faults'.restarts
    BY <1>5 DEF PaperInv, Copies
  <2> QED BY <2>2, <2>3 DEF Copies
<1> QED BY <1>2, <1>5, <1>6, <1>7 DEF PaperInv

LEMMA MovesKeepPaper ==
  ASSUME Deployment, PaperInv, NEW r \in net, NEW s \in Messages, Moves(r, s), TypedEvents',
         mac' \in [pinned : BOOLEAN, bound : Devices \cup {"none"}],
         UNCHANGED <<issued, receipts, faults>>
  PROVE  PaperInv'
<1>1. SInv /\ QueueInv /\ TypedPrinters /\ r.op = "polling" /\ r.dev \in Devices /\ Alone
  BY DEF PaperInv, SInv, QueueInv, Typed, TypedPrinters, Messages, Moves
<1>2. SInv' BY <1>1, MovesKeepS
<1>3. /\ UNCHANGED <<pending, cloudJobs, history, device>> /\ net' = (net \ {r}) \cup {s}
      /\ s.dev = r.dev /\ s.op = r.op /\ s.try = r.try /\ s.code = r.code
      /\ s.sends = r.sends /\ s.name = r.name /\ s.served
  BY DEF Moves, SameRequest
<1>4. Open' = Open /\ (pending # <<>> => pending[1] \in Open) BY <1>1, <1>3, HeadIsOpen DEF Open
<1>5. mac'.bound = r.dev /\ device[r.dev].named /\ r.dev # "none"
  <2>1. r.dev # "none" BY <1>1 DEF Deployment
  <2>2. CASE r.served /\ mac' = mac BY <1>1, <2>1, <2>2 DEF Alone
  <2>3. CASE /\ IdentityMatches(r.name, TRUE)
             /\ mac'.bound = (IF mac.bound = "none" THEN r.name ELSE mac.bound)
    <3>1. CASE device[r.dev].named
      <4>1. r.name = r.dev BY <1>1, <3>1 DEF Alone
      <4> QED BY <2>1, <2>3, <3>1, <4>1 DEF IdentityMatches
    <3>2. CASE ~device[r.dev].named
      <4>1. r.name = "none" /\ mac.pinned BY <1>1, <3>2 DEF Alone
      <4> QED BY <2>3, <4>1 DEF IdentityMatches
    <3> QED BY <3>1, <3>2
  <2> QED BY <2>2, <2>3 DEF Moves
<1>6. Alone'
  <2>1. \A u \in net : u.dev \in Devices BY <1>1 DEF TypedPrinters, Messages
  <2>2. mac'.pinned = mac.pinned /\ (mac.bound # "none" => mac' = mac) BY DEF Moves
  <2>3. mac'.pinned \/ \A d \in Devices : device'[d].named BY <1>1, <1>3, <2>2 DEF Alone
  <2>4. mac'.pinned => mac'.bound # "none" BY <1>5
  <2>5. ASSUME NEW d \in Devices, Busy(d)' PROVE mac'.bound = d /\ device'[d].named
    <3>1. Busy(d) BY <1>3, <2>5 DEF Busy
    <3>2. mac.bound = d /\ device[d].named /\ d # "none" BY <1>1, <3>1 DEF Alone, Deployment
    <3> QED BY <1>3, <2>2, <3>2
  <2>6. \A u \in net' : u.name = IF device'[u.dev].named THEN u.dev ELSE "none"
    BY <1>1, <1>3, <2>1 DEF Alone
  <2>7. ASSUME NEW u \in net', u.served \/ u.op # "polling"
        PROVE  mac'.bound = u.dev /\ device'[u.dev].named
    <3>1. CASE u = s BY <1>3, <1>5, <3>1
    <3>2. CASE u # s
      <4>1. u \in net /\ mac.bound = u.dev /\ device[u.dev].named /\ u.dev # "none"
        BY <1>1, <1>3, <2>1, <2>7, <3>2 DEF Alone, Deployment
      <4> QED BY <1>3, <2>2, <4>1
    <3> QED BY <3>1, <3>2
  <2> QED BY <2>3, <2>4, <2>5, <2>6, <2>7 DEF Alone
<1>7. Current'
  <2>1. \A u \in net' : u.try <= device'[u.dev].try BY <1>3 DEF PaperInv, Current
  <2>2. \A u \in net' : u.try = device'[u.dev].try =>
          /\ device'[u.dev].at = u.op
          /\ u.sends = device'[u.dev].token
          /\ u.op = "deleting" => u.code = device'[u.dev].code
    BY <1>3 DEF PaperInv, Current
  <2>3. ASSUME NEW u \in net', NEW v \in net', u.dev = v.dev, u.try = v.try,
               u.try = device'[u.dev].try
        PROVE  u = v
    <3> DEFINE was(x) == IF x = s THEN r ELSE x
    <3>1. was(u) \in net /\ was(v) \in net BY <1>3
    <3>2. was(u).dev = was(v).dev /\ was(u).try = was(v).try /\ was(u).try = device[was(u).dev].try
      BY <1>3, <2>3
    <3>3. was(u) = was(v)
      <4> HIDE DEF was
      <4> QED BY <3>1, <3>2 DEF PaperInv, Current
    <3>4. u # s => u # r BY <1>3
    <3>5. v # s => v # r BY <1>3
    <3> QED BY <3>3, <3>4, <3>5
  <2> QED BY <2>1, <2>2, <2>3 DEF Current
<1>8. Tokened' /\ Evidence' BY <1>1, <1>3 DEF PaperInv, Tokened, Evidence
<1>9. Copies'
  <2>1. ASSUME NEW t \in Tokens PROVE CopiesOf(t)'
    <3>1. Holding(t)' <=> Holding(t) BY <1>3 DEF Holding
    <3>2. Obtainable(t)' => Obtainable(t)
      <4>1. ASSUME NEW d \in Devices, device'[d].at \in {"offered", "fetching", "have"},
                   device'[d].token = t
            PROVE  Obtainable(t)
        BY <1>3, <4>1 DEF Obtainable, Promised
      <4>2. ASSUME NEW u \in net', u.served, u.offer = t, u.try = device'[u.dev].try
            PROVE  Obtainable(t)
        <5>1. CASE u # s BY <1>3, <4>2, <5>1 DEF Obtainable, Promised
        <5>2. CASE u = s /\ r.served /\ s.offer = r.offer
          BY <1>3, <4>2, <5>2 DEF Obtainable, Promised
        <5>3. CASE u = s /\ s.offer = 0
          BY <4>2, <5>3, TokensAreNat
        <5>4. CASE u = s /\ pending # <<>> /\ s.offer = pending[1]
          BY <1>4, <4>2, <5>4 DEF Obtainable, Promised
        <5> QED BY <5>1, <5>2, <5>3, <5>4 DEF Moves
      <4> QED BY <1>4, <4>1, <4>2 DEF Obtainable, Promised
    <3>3. Refused(t)' => Refused(t) BY <1>1, <1>3, <1>4 DEF Refused
    <3>4. CopiesOf(t) BY DEF PaperInv, Copies
    <3>5. TypedPrinters' BY <1>2 DEF SInv, QueueInv, Typed
    <3> QED BY <1>1, <3>1, <3>2, <3>3, <3>4, <3>5, CopiesCarry
  <2> QED BY <1>3, <2>1 DEF Copies, PaperInv
<1> QED BY <1>2, <1>6, <1>7, <1>8, <1>9 DEF PaperInv

LEMMA FetchKeepsPaper ==
  ASSUME Deployment, PaperInv, NEW r \in net, FetchJob(r), net' = net \ {r},
         UNCHANGED <<issued, receipts, faults>>
  PROVE  PaperInv'
<1>1. SInv /\ QueueInv /\ TypedPrinters /\ r.op = "fetching" /\ r.dev \in Devices /\ Alone
  BY DEF PaperInv, SInv, QueueInv, Typed, TypedPrinters, Messages, FetchJob
<1>2. SInv' BY <1>1, FetchKeepsS
<1>3. /\ UNCHANGED <<pending, history, mac, reported>>
      /\ Open' = Open
      /\ \A t \in Tokens : t \notin Open => cloudJobs'[t] = cloudJobs[t]
      /\ \A d \in Devices :
           \/ device'[d] = device[d]
           \/ Awaits(d, r) /\ SentHome(d)
           \/ Awaits(d, r) /\ GoesOn(d, "have", Wanted(r)) /\ Wanted(r) \in Open
      /\ Awaits(r.dev, r) => device'[r.dev].at # r.op
  BY <1>1, FetchDoes
<1>4. Answered(r) BY <1>1, <1>3 DEF Answered
<1>5. /\ \A d \in Devices : device'[d].try = device[d].try /\ device'[d].named = device[d].named
      /\ Current' /\ Tokened' /\ Evidence'
      /\ \A d \in Devices : device'[d].at \in {"printed", "deleting"} => device'[d] = device[d]
  BY <1>2, <1>4, AnsweredKeeps
<1>6. Alone'
  <2>1. ASSUME NEW d \in Devices, Busy(d)' PROVE Busy(d)
    <3>1. CASE device'[d] = device[d] BY <2>1, <3>1 DEF Busy
    <3>2. CASE SentHome(d) BY <2>1, <3>2 DEF Busy, SentHome
    <3>3. CASE Awaits(d, r) BY <1>1, <3>3 DEF Awaits, Busy
    <3> QED BY <1>3, <3>1, <3>2, <3>3
  <2>2. net' \subseteq net /\ UNCHANGED mac BY <1>3
  <2> QED BY <1>1, <1>5, <2>1, <2>2, AloneKept
<1>7. Copies'
  <2>kept. \A t \in Tokens : Promised(t)' => Promised(t) BY <1>5, PromisedCarry
  <2>1. ASSUME NEW t \in Tokens PROVE CopiesOf(t)'
    <3>1. Holding(t) => Holding(t)'
      <4> SUFFICES ASSUME NEW d \in Devices, device[d].at \in {"printed", "deleting"},
                          device[d].token = t
                   PROVE  Holding(t)'
        BY DEF Holding
      <4>1. ~Awaits(d, r) BY <1>1 DEF Awaits
      <4>2. device'[d] = device[d] BY <1>3, <4>1
      <4> QED BY <4>2 DEF Holding
    <3>2. Obtainable(t)' => Obtainable(t)
      <4> SUFFICES ASSUME NEW d \in Devices, device'[d].at \in {"offered", "fetching", "have"},
                          device'[d].token = t
                   PROVE  Obtainable(t)
        BY <1>3, <2>kept DEF Obtainable
      <4>1. CASE device'[d] = device[d] BY <4>1 DEF Obtainable
      <4>2. CASE SentHome(d) BY <4>2 DEF SentHome
      <4>3. CASE Wanted(r) \in Open /\ GoesOn(d, "have", Wanted(r))
        BY <4>3 DEF GoesOn, Obtainable
      <4> QED BY <1>3, <4>1, <4>2, <4>3
    <3>3. Refused(t)' => Refused(t)
      <4>1. cloudJobs'[t] = "Failed" => cloudJobs[t] = "Failed"
        <5>1. t \in Open' => cloudJobs'[t] # "Failed" BY DEF Open
        <5> QED BY <1>3, <5>1
      <4> QED BY <1>3, <4>1 DEF Refused
    <3>4. CopiesOf(t) BY DEF PaperInv, Copies
    <3>5. TypedPrinters' BY <1>2 DEF SInv, QueueInv, Typed
    <3> QED BY <1>1, <3>1, <3>2, <3>3, <3>4, <3>5, CopiesCarry
  <2>2. \A d \in Devices : device'[d].at \in {"printed", "deleting"} /\ device'[d].code = 410
           => receipts'[device'[d].token] <= faults'.restarts
    BY <1>5 DEF PaperInv, Copies
  <2> QED BY <2>1, <2>2 DEF Copies
<1> QED BY <1>2, <1>5, <1>6, <1>7 DEF PaperInv

(* Whoever confirms is the printer the route is bound to, and after its    *)
(* DELETE is served the job is closed.                                     *)
LEMMA ConfirmKeepsPaper ==
  ASSUME Deployment, PaperInv, NEW r \in net, Confirm(r), net' = net \ {r},
         UNCHANGED <<issued, receipts, faults>>
  PROVE  PaperInv'
<1>1. /\ SInv /\ QueueInv /\ TypedPrinters /\ r.op = "deleting" /\ r.dev \in Devices /\ Alone
      /\ r.sends \in 0..MaxTokens
  BY DEF PaperInv, SInv, QueueInv, Typed, TypedPrinters, Messages, Confirm
<1>2. SInv' BY <1>1, ConfirmKeepsS
<1>3. /\ UNCHANGED <<mac, reported>>
      /\ Retires(r) \/ Ignores(r)
      /\ \A d \in Devices : device'[d] = device[d] \/ (Awaits(d, r) /\ SentHome(d))
      /\ Awaits(r.dev, r) => SentHome(r.dev)
  BY <1>1, ConfirmDoes
<1>4. Answered(r)
  <2>1. Awaits(r.dev, r) => device'[r.dev].at # r.op BY <1>1, <1>3 DEF SentHome
  <2> QED BY <1>3, <2>1 DEF Answered
<1>5. /\ \A d \in Devices : device'[d].try = device[d].try /\ device'[d].named = device[d].named
      /\ Current' /\ Tokened' /\ Evidence'
      /\ \A d \in Devices : device'[d].at \in {"printed", "deleting"} => device'[d] = device[d]
  BY <1>2, <1>4, AnsweredKeeps
<1>6. Alone'
  <2>1. \A d \in Devices : Busy(d)' => Busy(d) BY <1>3 DEF Busy, SentHome
  <2>2. net' \subseteq net OBVIOUS
  <2> QED BY <1>1, <1>3, <1>5, <2>1, <2>2, AloneKept
<1> DEFINE t0 == r.sends
<1>7. Wanted(r) = t0 /\ t0 \in Tokens /\ r.code \in PrintCodes
  <2>1. r.sends # 0 /\ r.code \in PrintCodes BY <1>1 DEF PaperInv, Tokened
  <2> QED BY <1>1, <2>1 DEF Wanted, Tokens, Deployment
<1>8. IdentityMatches(r.name, FALSE)
  <2>1. r.name = r.dev /\ mac.bound = r.dev BY <1>1 DEF Alone
  <2>2. r.dev # "none" BY <1>1 DEF Deployment
  <2> QED BY <2>1, <2>2 DEF IdentityMatches
<1>9. t0 \notin Open' /\ \A t \in Open' : t \in Open
  BY <1>3, <1>7, <1>8 DEF Retires, Ignores
<1>10. \A t \in Tokens : cloudJobs'[t] = "Failed" =>
          cloudJobs[t] = "Failed" \/ (t = t0 /\ t0 \in Open /\ r.code = 410)
  <2>1. r.code # 410 => Disposition(r.code) # "Failed"
    BY <1>7 DEF PrintCodes, Disposition, DeviceFaults, JobRefusals
  <2>2. CASE Retires(r) BY <1>7, <2>1, <2>2 DEF Retires
  <2>3. CASE Ignores(r) BY <2>3 DEF Ignores
  <2> QED BY <1>3, <2>2, <2>3
<1> HIDE DEF t0
<1>11. Copies'
  <2>kept. \A t \in Tokens : Promised(t)' => Promised(t) BY <1>5, PromisedCarry
  <2>1. ASSUME NEW t \in Tokens PROVE CopiesOf(t)'
    <3>1. Obtainable(t)' => Obtainable(t)
      <4> SUFFICES ASSUME NEW d \in Devices, device'[d].at \in {"offered", "fetching", "have"},
                          device'[d].token = t
                   PROVE  Obtainable(t)
        BY <1>9, <2>kept DEF Obtainable
      <4>1. device'[d] = device[d] BY <1>3 DEF SentHome
      <4> QED BY <4>1 DEF Obtainable
    <3>2. Obtainable(t)' /\ Holding(t) => Holding(t)'
      <4> SUFFICES ASSUME Obtainable(t)',
                          NEW d \in Devices, device[d].at \in {"printed", "deleting"},
                          device[d].token = t
                   PROVE  Holding(t)'
        BY DEF Holding
      <4>1. CASE device'[d] = device[d] BY <4>1 DEF Holding
      <4>2. CASE Awaits(d, r)
        <5>1. t = t0 BY <4>2, AwaitsHas DEF t0
        <5>2. t \notin Open' BY <1>9, <5>1
        <5>no. ~Promised(t)'
          <6> SUFFICES ASSUME NEW s \in net', s.served, s.try = device'[s.dev].try PROVE FALSE
            BY DEF Promised
          <6>1. s \in net /\ s # r /\ s.dev = r.dev BY <1>1 DEF Alone
          <6>2. s.try = device[r.dev].try /\ r.try = device[r.dev].try
            BY <1>1, <1>5, <4>2, <6>1 DEF Awaits
          <6> QED BY <6>1, <6>2 DEF PaperInv, Current
        <5>3. PICK e \in Devices : device'[e].at \in {"offered", "fetching", "have"}
          BY <5>2, <5>no DEF Obtainable
        <5>4. device'[e] = device[e] BY <1>3, <5>3 DEF SentHome
        <5>5. Busy(d) /\ Busy(e) BY <5>3, <5>4 DEF Busy
        <5>6. d = e BY <1>1, <5>5 DEF Alone
        <5> QED BY <5>3, <5>4, <5>6
      <4> QED BY <1>3, <4>1, <4>2
    <3>3. Refused(t)' => Refused(t)
      <4>1. CASE cloudJobs'[t] = "Failed"
        <5>1. cloudJobs[t] = "Failed" \/ (t = t0 /\ t0 \in Open /\ r.code = 410) BY <1>10, <4>1
        <5>2. r \in net /\ r.op = "deleting" /\ r.sends = t0 BY <1>1 DEF t0
        <5> QED BY <5>1, <5>2 DEF Refused
      <4>2. CASE t \in Open' /\ \E s \in net' : s.op = "deleting" /\ s.code = 410 /\ s.sends = t
        <5>1. t \in Open /\ \E s \in net : s.op = "deleting" /\ s.code = 410 /\ s.sends = t
          BY <1>9, <4>2
        <5> QED BY <5>1 DEF Refused
      <4> QED BY <4>1, <4>2 DEF Refused
    <3>4. CopiesOf(t) BY DEF PaperInv, Copies
    <3>5. TypedPrinters' BY <1>2 DEF SInv, QueueInv, Typed
    <3> QED BY <1>1, <3>1, <3>2, <3>3, <3>4, <3>5, CopiesCarry
  <2>2. \A d \in Devices : device'[d].at \in {"printed", "deleting"} /\ device'[d].code = 410
           => receipts'[device'[d].token] <= faults'.restarts
    BY <1>5 DEF PaperInv, Copies
  <2> QED BY <2>1, <2>2 DEF Copies
<1> QED BY <1>2, <1>5, <1>6, <1>11 DEF PaperInv

LEMMA SubmitKeepsPaper == ASSUME Deployment, PaperInv, Submit PROVE PaperInv'
<1> DEFINE n == issued + 1
<1>1. SInv /\ QueueInv /\ TypedPrinters /\ TypedServer
  BY DEF PaperInv, SInv, QueueInv, Typed
<1>2. /\ issued < MaxTokens /\ cloudJobs' = [cloudJobs EXCEPT ![n] = "queued"]
      /\ UNCHANGED <<mac, device, net, receipts, faults>>
  BY DEF Submit
<1>3. SInv'
  <2>1. QueueInv' BY <1>1, SubmitKeepsQueue
  <2> QED BY <1>1, <1>2, <2>1 DEF SInv, HandsFull, Busy
<1>4. issued \in Nat /\ n \in Tokens /\ n > issued
  BY <1>1, <1>2 DEF TypedServer, Tokens, Deployment
<1> HIDE DEF n
<1>5. \A t \in Tokens : cloudJobs'[t] = IF t = n THEN "queued" ELSE cloudJobs[t]
  BY <1>1, <1>2 DEF TypedServer
<1>6. Open' = Open \cup {n} BY <1>4, <1>5 DEF Open
<1>7. Alone' /\ Current' /\ Tokened' /\ Evidence'
  <2>1. Alone' BY <1>2 DEF PaperInv, Alone, Busy
  <2>2. Current' /\ Tokened' /\ Evidence' BY <1>2 DEF PaperInv, Current, Tokened, Evidence
  <2> QED BY <2>1, <2>2
<1>8. Copies'
  <2>1. ASSUME NEW t \in Tokens PROVE CopiesOf(t)'
    <3>1. CopiesOf(t) BY DEF PaperInv, Copies
    <3>2. CASE t = n
      <4>1. receipts'[t] = 0 BY <1>1, <1>2, <1>4, <3>2 DEF QueueInv, Unissued
      <4>2. ~Refused(t)'
        <5>1. \A r \in net' : r.sends # t
          BY <1>1, <1>2, <1>4, <3>2 DEF QueueInv, Unissued, TypedPrinters, Messages, Deployment
        <5> QED BY <1>5, <3>2, <5>1 DEF Refused
      <4>3. faults'.restarts \in Nat BY <1>1, <1>2 DEF TypedPrinters
      <4> QED BY <4>1, <4>2, <4>3 DEF CopiesOf
    <3>3. CASE t # n
      <4>1. (t \in Open') = (t \in Open) /\ cloudJobs'[t] = cloudJobs[t] BY <1>5, <1>6, <3>3
      <4>2. /\ Obtainable(t)' => Obtainable(t) /\ (Holding(t) => Holding(t)')
        BY <1>2, <4>1 DEF Obtainable, Promised, Holding
      <4>3. Refused(t)' => Refused(t) BY <1>2, <4>1 DEF Refused
      <4>4. TypedPrinters' BY <1>3 DEF SInv, QueueInv, Typed
      <4> QED BY <1>1, <1>2, <3>1, <4>2, <4>3, <4>4, CopiesCarry
    <3> QED BY <3>2, <3>3
  <2> QED BY <1>2, <2>1 DEF PaperInv, Copies
<1> QED BY <1>3, <1>7, <1>8 DEF PaperInv

(* The steps of printer d: the others keep what they have, and an older    *)
(* request of d stays older.                                               *)
LEMMA SendsKeepPaper ==
  ASSUME Deployment, Tokenless = {}, PaperInv, NEW d \in Devices, NEW op \in Calls,
         NEW code \in PollCodes \cup PrintCodes, Sends(d, op, code),
         \/ op = "polling" /\ device[d].at = "idle"
         \/ op = "fetching" /\ device[d].at = "offered"
         \/ op = "deleting" /\ device[d].at = "printed" /\ code = device[d].code /\ code \in PrintCodes
  PROVE  PaperInv'
<1>1. SInv /\ QueueInv /\ TypedPrinters /\ Alone /\ HandsFull
  BY DEF PaperInv, SInv, QueueInv, Typed
<1>2. op # "polling" => Busy(d) BY DEF Busy
<1>3. SInv' BY <1>1, <1>2, SendsKeepS
<1> DEFINE m == Message(d, op, code)
<1>4. /\ \A e \in Devices : e # d => device'[e] = device[e]
      /\ GoesOn(d, op, device[d].token)
      /\ net' = net \cup {m} /\ m \in net'
      /\ UNCHANGED <<server, receipts, faults>>
  BY <1>1, SendsDoes
<1>5. /\ m.dev = d /\ m.op = op /\ m.try = device[d].try /\ m.code = code
      /\ m.sends = device[d].token
      /\ m.name = IF device[d].named THEN d ELSE "none"
      /\ ~m.served
  BY MessageFields
<1> HIDE DEF m
<1>6. /\ mac' = mac /\ cloudJobs' = cloudJobs BY <1>4 DEF server
<1>7. /\ device'[d].at = op /\ device'[d].token = device[d].token
      /\ device'[d].code = device[d].code /\ device'[d].try = device[d].try
  BY <1>4 DEF GoesOn
<1>8. \A e \in Devices : device'[e].named = device[e].named /\ device'[e].try = device[e].try
  BY <1>4 DEF GoesOn
<1>9. \A r \in net : r.dev \in Devices BY <1>1 DEF TypedPrinters, Messages
<1>10. Alone'
  <2>1. mac'.pinned \/ \A e \in Devices : device'[e].named BY <1>1, <1>6, <1>8 DEF Alone
  <2>2. mac'.pinned => mac'.bound # "none" BY <1>1, <1>6 DEF Alone
  <2>3. ASSUME NEW e \in Devices, Busy(e)' PROVE mac'.bound = e /\ device'[e].named
    <3>1. Busy(e)
      <4>1. CASE e = d BY <1>7, <2>3, <4>1 DEF Busy
      <4>2. CASE e # d BY <1>4, <2>3, <4>2 DEF Busy
      <4> QED BY <4>1, <4>2
    <3> QED BY <1>1, <1>6, <1>8, <3>1 DEF Alone
  <2>4. ASSUME NEW r \in net'
        PROVE  /\ r.name = IF device'[r.dev].named THEN r.dev ELSE "none"
               /\ r.served \/ r.op # "polling"
                    => mac'.bound = r.dev /\ device'[r.dev].named
    <3>1. CASE r \in net BY <1>1, <1>6, <1>8, <1>9, <3>1 DEF Alone
    <3>2. CASE r = m
      <4>1. r.served \/ r.op # "polling" => Busy(d) BY <1>2, <1>5, <3>2
      <4> QED BY <1>1, <1>5, <1>6, <1>8, <3>2, <4>1 DEF Alone
    <3> QED BY <1>4, <3>1, <3>2
  <2> QED BY <2>1, <2>2, <2>3, <2>4 DEF Alone
<1>11. \A r \in net : r.dev = d => r.try # device[d].try
  <2> SUFFICES ASSUME NEW r \in net, r.dev = d, r.try = device[d].try PROVE FALSE
    OBVIOUS
  <2>1. device[d].at = r.op BY DEF PaperInv, Current
  <2>2. r.op \in Calls BY <1>1 DEF TypedPrinters, Messages
  <2> QED BY <2>1, <2>2 DEF Calls
<1>12. Current'
  <2>1. ASSUME NEW r \in net'
        PROVE  /\ r.try <= device'[r.dev].try
               /\ r.try = device'[r.dev].try =>
                    /\ device'[r.dev].at = r.op
                    /\ r.sends = device'[r.dev].token
                    /\ r.op = "deleting" => r.code = device'[r.dev].code
    <3>1. CASE r = m
      <4>1. device[d].try \in Nat BY <1>1 DEF TypedPrinters, DeviceStates
      <4>2. op = "deleting" => code = device[d].code OBVIOUS
      <4> QED BY <1>5, <1>7, <3>1, <4>1, <4>2
    <3>2. CASE r \in net /\ r.dev = d
      <4>1. r.try <= device[d].try BY <3>2 DEF PaperInv, Current
      <4> QED BY <1>7, <1>11, <3>2, <4>1
    <3>3. CASE r \in net /\ r.dev # d BY <1>4, <1>9, <3>3 DEF PaperInv, Current
    <3> QED BY <1>4, <3>1, <3>2, <3>3
  <2>2. ASSUME NEW r \in net', NEW s \in net', r.dev = s.dev, r.try = s.try,
               r.try = device'[r.dev].try
        PROVE  r = s
    <3>1. CASE r.dev = d
      <4>1. r.try = device[d].try /\ s.try = device[d].try /\ s.dev = d BY <1>7, <2>2, <3>1
      <4> QED BY <1>4, <1>11, <3>1, <4>1
    <3>2. CASE r.dev # d
      <4>1. r \in net /\ s \in net /\ device'[r.dev] = device[r.dev]
        BY <1>4, <1>5, <1>9, <2>2, <3>2
      <4>2. r.try = device[r.dev].try BY <2>2, <4>1
      <4>3. \A u, v \in net : u.dev = v.dev /\ u.try = v.try /\ u.try = device[u.dev].try => u = v
        BY DEF PaperInv, Current
      <4> QED BY <2>2, <4>1, <4>2, <4>3
    <3> QED BY <3>1, <3>2
  <2> QED BY <2>1, <2>2 DEF Current
<1>13. Tokened'
  <2>1. op # "polling" => device[d].token # 0 BY <1>1, <1>2 DEF HandsFull
  <2>2. op = "deleting" => code \in PrintCodes OBVIOUS
  <2> QED BY <1>4, <1>5, <2>1, <2>2 DEF PaperInv, Tokened
<1>14. ASSUME NEW e \in Devices, device'[e].at \in {"printed", "deleting"}
       PROVE  /\ device[e].at \in {"printed", "deleting"}
              /\ device'[e].token = device[e].token /\ device'[e].code = device[e].code
  <2>1. CASE e = d BY <1>7, <1>14, <2>1
  <2>2. CASE e # d BY <1>4, <1>14, <2>2
  <2> QED BY <2>1, <2>2
<1>15. Evidence'
  <2>1. \A e \in Devices : device'[e].at \in {"printed", "deleting"} /\ device'[e].code = 200
           => receipts'[device'[e].token] > 0
    BY <1>4, <1>14 DEF PaperInv, Evidence
  <2>2. ASSUME NEW r \in net', r.op = "deleting", r.code = 200 PROVE receipts'[r.sends] > 0
    <3>1. CASE r \in net BY <1>4, <2>2, <3>1 DEF PaperInv, Evidence
    <3>2. CASE r = m
      <4>1. device[d].at = "printed" /\ device[d].code = 200 BY <1>5, <2>2, <3>2
      <4>2. receipts[device[d].token] > 0 BY <4>1 DEF PaperInv, Evidence
      <4> QED BY <1>4, <1>5, <3>2, <4>2
    <3> QED BY <1>4, <3>1, <3>2
  <2> QED BY <2>1, <2>2 DEF Evidence
<1>16. Copies'
  <2>1. \A e \in Devices : device'[e].at \in {"printed", "deleting"} /\ device'[e].code = 410
           => receipts'[device'[e].token] <= faults'.restarts
    BY <1>4, <1>14 DEF PaperInv, Copies
  <2>2. Open' = Open BY <1>6 DEF Open
  <2>kept. \A t \in Tokens : Promised(t)' => Promised(t)
    <3>1. \A s \in net' : s.served => s \in net BY <1>4, <1>5
    <3> QED BY <1>8, <3>1, PromisedCarry
  <2>3. ASSUME NEW t \in Tokens PROVE CopiesOf(t)'
    <3>1. Holding(t) => Holding(t)'
      <4> SUFFICES ASSUME NEW e \in Devices, device[e].at \in {"printed", "deleting"},
                          device[e].token = t
                   PROVE  Holding(t)'
        BY DEF Holding
      <4>1. CASE e = d BY <1>7, <4>1 DEF Holding
      <4>2. CASE e # d BY <1>4, <4>2 DEF Holding
      <4> QED BY <4>1, <4>2
    <3>2. Obtainable(t)' => Obtainable(t)
      <4> SUFFICES ASSUME NEW e \in Devices, device'[e].at \in {"offered", "fetching", "have"},
                          device'[e].token = t
                   PROVE  Obtainable(t)
        BY <2>2, <2>kept DEF Obtainable
      <4>1. CASE e = d BY <1>7, <4>1 DEF Obtainable
      <4>2. CASE e # d BY <1>4, <4>2 DEF Obtainable
      <4> QED BY <4>1, <4>2
    <3>3. CopiesOf(t) BY DEF PaperInv, Copies
    <3>4. CASE op = "deleting" /\ code = 410 /\ device[d].token = t
      <4>1. device[d].at = "printed" /\ device[d].code = 410 BY <3>4
      <4>2. receipts[t] <= faults.restarts BY <3>4, <4>1 DEF PaperInv, Copies
      <4>3. Holding(t)' BY <1>7, <3>4 DEF Holding
      <4> QED BY <1>4, <3>3, <4>2, <4>3 DEF CopiesOf
    <3>5. CASE ~(op = "deleting" /\ code = 410 /\ device[d].token = t)
      <4>1. Refused(t)' => Refused(t) BY <1>4, <1>5, <1>6, <2>2, <3>5 DEF Refused
      <4>2. TypedPrinters' BY <1>3 DEF SInv, QueueInv, Typed
      <4> QED BY <1>1, <1>4, <3>1, <3>2, <3>3, <4>1, <4>2, CopiesCarry
    <3> QED BY <3>4, <3>5
  <2> QED BY <2>1, <2>3 DEF Copies
<1> QED BY <1>3, <1>10, <1>12, <1>13, <1>15, <1>16 DEF PaperInv

(* Only the one printer that has the job can print it, and it has not yet. *)
LEMMA PrintKeepsPaper ==
  ASSUME Deployment, PaperInv, NEW d \in Devices, PrintReceipt(d)
  PROVE  PaperInv'
<1>1. SInv /\ QueueInv /\ TypedPrinters /\ Alone /\ HandsFull
  BY DEF PaperInv, SInv, QueueInv, Typed
<1>2. SInv' BY <1>1, PrintKeepsS
<1> DEFINE t0 == device[d].token
<1>3. /\ device[d].at = "have" /\ t0 \in Tokens
      /\ \A e \in Devices : e # d => device'[e] = device[e]
      /\ device'[d].at = "printed" /\ device'[d].token = t0
      /\ device'[d].try = device[d].try /\ device'[d].named = device[d].named
      /\ \A t \in Tokens : t # t0 => receipts'[t] = receipts[t]
      /\ \/ receipts'[t0] = receipts[t0] + 1 /\ device'[d].code # 410
         \/ receipts'[t0] = receipts[t0] /\ device'[d].code # 200
      /\ UNCHANGED <<server, net, faults>>
  BY <1>1, PrintDoes
<1>4. receipts \in [Tokens -> Nat] /\ faults.restarts \in Nat BY <1>1 DEF TypedPrinters
<1>5. mac' = mac /\ cloudJobs' = cloudJobs /\ net' = net /\ faults' = faults BY <1>3 DEF server
<1>6. Open' = Open BY <1>5 DEF Open
<1>7. \A e \in Devices : Busy(e) => e = d
  <2>1. Busy(d) BY <1>3 DEF Busy
  <2> QED BY <1>1, <2>1 DEF Alone
<1>8. ~Holding(t0) /\ Obtainable(t0) /\ \A t : t = t0 => Holding(t)'
  <2>1. ~Holding(t0) BY <1>3, <1>7 DEF Holding, Busy
  <2> QED BY <1>3, <2>1 DEF Obtainable, Holding
<1>9. \A r \in net : r.dev \in Devices /\ r.op \in Calls BY <1>1 DEF TypedPrinters, Messages
<1>10. \A r \in net : r.dev = d => r.try # device[d].try
  <2> SUFFICES ASSUME NEW r \in net, r.dev = d, r.try = device[d].try PROVE FALSE
    OBVIOUS
  <2>1. device[d].at = r.op BY DEF PaperInv, Current
  <2> QED BY <1>3, <1>9, <2>1 DEF Calls
<1> HIDE DEF t0
<1>11. Alone'
  <2>1. \A e \in Devices : device'[e].named = device[e].named /\ (Busy(e)' => Busy(e))
    BY <1>3 DEF Busy
  <2> QED BY <1>1, <1>5, <2>1, AloneKept
<1>12. Current'
  <2>1. \A r \in net : r.dev # d => device'[r.dev] = device[r.dev] BY <1>3, <1>9
  <2>2. \A r \in net : r.try <= device'[r.dev].try BY <1>3, <2>1 DEF PaperInv, Current
  <2>3. ASSUME NEW r \in net, r.try = device'[r.dev].try PROVE r.dev # d
    BY <1>3, <1>10, <2>3
  <2>4. ASSUME NEW r \in net, r.try = device'[r.dev].try
        PROVE  /\ device'[r.dev].at = r.op
               /\ r.sends = device'[r.dev].token
               /\ r.op = "deleting" => r.code = device'[r.dev].code
    <3>1. device'[r.dev] = device[r.dev] BY <2>1, <2>3, <2>4
    <3> QED BY <2>4, <3>1 DEF PaperInv, Current
  <2>5. ASSUME NEW r \in net, NEW s \in net, r.dev = s.dev, r.try = s.try,
               r.try = device'[r.dev].try
        PROVE  r = s
    <3>1. r.try = device[r.dev].try BY <2>1, <2>3, <2>5
    <3>2. \A u, v \in net : u.dev = v.dev /\ u.try = v.try /\ u.try = device[u.dev].try => u = v
      BY DEF PaperInv, Current
    <3> QED BY <2>5, <3>1, <3>2
  <2> QED BY <1>5, <2>2, <2>4, <2>5 DEF Current
<1>13. Tokened' BY <1>5 DEF PaperInv, Tokened
<1>14. \A t \in Tokens : receipts'[t] \in Nat /\ receipts'[t] >= receipts[t]
  BY <1>2, <1>3, <1>4 DEF SInv, QueueInv, Typed, TypedPrinters
<1>15. Evidence'
  <2>1. ASSUME NEW e \in Devices, device'[e].at \in {"printed", "deleting"}, device'[e].code = 200
        PROVE  receipts'[device'[e].token] > 0
    <3>1. CASE e = d BY <1>3, <1>4, <2>1, <3>1
    <3>2. CASE e # d BY <1>3, <1>7, <2>1, <3>2 DEF Busy
    <3> QED BY <3>1, <3>2
  <2>2. ASSUME NEW r \in net, r.op = "deleting", r.code = 200 PROVE receipts'[r.sends] > 0
    <3>1. receipts[r.sends] > 0 BY <2>2 DEF PaperInv, Evidence
    <3>2. r.sends \in Tokens
      <4>1. r.sends # 0 /\ r.sends \in 0..MaxTokens
        BY <1>1, <2>2 DEF PaperInv, Tokened, TypedPrinters, Messages
      <4> QED BY <4>1 DEF Tokens, Deployment
    <3> QED BY <1>4, <1>14, <3>1, <3>2
  <2> QED BY <1>5, <2>1, <2>2 DEF Evidence
<1>16. Copies'
  <2>kept. \A t \in Tokens : Promised(t)' => Promised(t)
    <3>1. \A e \in Devices : device'[e].try = device[e].try BY <1>3
    <3> QED BY <1>5, <3>1, PromisedCarry
  <2>1. ASSUME NEW e \in Devices, device'[e].at \in {"printed", "deleting"}, device'[e].code = 410
        PROVE  receipts'[device'[e].token] <= faults'.restarts
    <3>1. e = d BY <1>3, <1>7, <2>1 DEF Busy
    <3>2. receipts[t0] <= faults.restarts BY <1>3, <1>8 DEF PaperInv, Copies, CopiesOf
    <3> QED BY <1>3, <1>5, <2>1, <3>1, <3>2
  <2>2. ASSUME NEW t \in Tokens PROVE CopiesOf(t)'
    <3>1. CopiesOf(t) BY DEF PaperInv, Copies
    <3>2. Refused(t)' => Refused(t) BY <1>5, <1>6 DEF Refused
    <3>3. CASE t = t0
      <4>1. /\ receipts[t] <= faults.restarts
            /\ Refused(t) => receipts[t] < faults.restarts
        BY <1>8, <3>1, <3>3 DEF CopiesOf
      <4>2. receipts'[t] <= receipts[t] + 1 BY <1>3, <1>4, <3>3
      <4>3. Holding(t)' BY <1>8, <3>3
      <4>4. receipts[t] \in Nat /\ receipts'[t] \in Nat BY <1>4, <1>14
      <4> QED BY <1>4, <1>5, <3>2, <4>1, <4>2, <4>3, <4>4 DEF CopiesOf
    <3>4. CASE t # t0
      <4>1. Obtainable(t)' => Obtainable(t)
        <5> SUFFICES ASSUME NEW e \in Devices, device'[e].at \in {"offered", "fetching", "have"},
                            device'[e].token = t
                     PROVE  Obtainable(t)
          BY <1>6, <2>kept DEF Obtainable
        <5>1. e # d BY <1>3
        <5> QED BY <1>3, <5>1 DEF Obtainable
      <4>2. ~Holding(t) BY <1>3, <1>7 DEF Holding, Busy
      <4>3. receipts'[t] = receipts[t] BY <1>3, <3>4
      <4>4. TypedPrinters' BY <1>2 DEF SInv, QueueInv, Typed
      <4> QED BY <1>1, <1>5, <3>1, <3>2, <4>1, <4>2, <4>3, <4>4, CopiesCarry
    <3> QED BY <3>3, <3>4
  <2> QED BY <2>1, <2>2 DEF Copies
<1> QED BY <1>2, <1>11, <1>12, <1>13, <1>15, <1>16 DEF PaperInv

LEMMA GiveUpKeepsPaper ==
  ASSUME Deployment, PaperInv, NEW d \in Devices, GiveUp(d)
  PROVE  PaperInv'
<1>1. SInv /\ QueueInv /\ TypedPrinters /\ Alone
  BY DEF PaperInv, SInv, QueueInv, Typed
<1>2. SInv' BY <1>1, GiveUpKeepsS
<1>3. /\ \A e \in Devices : e # d => device'[e] = device[e]
      /\ device'[d].token = device[d].token /\ device'[d].code = device[d].code
      /\ device'[d].named = device[d].named /\ device'[d].try = device[d].try + 1
      /\ \/ device[d].at = "polling" /\ device'[d].at = "idle"
         \/ device[d].at = "fetching" /\ device'[d].at = "offered"
         \/ device[d].at = "deleting" /\ device'[d].at = "printed"
      /\ net' \subseteq net /\ faults'.restarts = faults.restarts
      /\ UNCHANGED <<server, receipts>>
  BY <1>1, GiveUpDoes
<1>4. mac' = mac /\ cloudJobs' = cloudJobs BY <1>3 DEF server
<1>5. Open' = Open BY <1>4 DEF Open
<1>6. \A r \in net : r.dev \in Devices BY <1>1 DEF TypedPrinters, Messages
<1>7. Alone'
  <2>1. \A e \in Devices : device'[e].named = device[e].named /\ (Busy(e)' => Busy(e))
    BY <1>3 DEF Busy
  <2> QED BY <1>1, <1>3, <1>4, <2>1, AloneKept
<1>8. Current'
  <2>1. ASSUME NEW r \in net' PROVE r.try <= device'[r.dev].try
    <3>1. r.try <= device[r.dev].try /\ r \in net /\ r.try \in Nat /\ device[r.dev].try \in Nat
      BY <1>1, <1>3, <1>6 DEF PaperInv, Current, TypedPrinters, Messages, DeviceStates
    <3>2. CASE r.dev = d BY <1>3, <3>1, <3>2
    <3>3. CASE r.dev # d BY <1>3, <1>6, <3>1, <3>3
    <3> QED BY <3>2, <3>3
  <2>2. ASSUME NEW r \in net', r.try = device'[r.dev].try PROVE device'[r.dev] = device[r.dev]
    <3>1. r.try <= device[r.dev].try /\ r \in net /\ r.try \in Nat /\ device[r.dev].try \in Nat
      BY <1>1, <1>3, <1>6 DEF PaperInv, Current, TypedPrinters, Messages, DeviceStates
    <3>2. r.dev # d BY <1>3, <2>2, <3>1
    <3> QED BY <1>3, <1>6, <3>1, <3>2
  <2>3. ASSUME NEW r \in net', r.try = device'[r.dev].try
        PROVE  /\ device'[r.dev].at = r.op
               /\ r.sends = device'[r.dev].token
               /\ r.op = "deleting" => r.code = device'[r.dev].code
    BY <1>3, <2>2, <2>3 DEF PaperInv, Current
  <2>4. ASSUME NEW r \in net', NEW s \in net', r.dev = s.dev, r.try = s.try,
               r.try = device'[r.dev].try
        PROVE  r = s
    <3>1. r \in net /\ s \in net /\ r.try = device[r.dev].try BY <1>3, <2>2, <2>4
    <3>2. \A u, v \in net : u.dev = v.dev /\ u.try = v.try /\ u.try = device[u.dev].try => u = v
      BY DEF PaperInv, Current
    <3> QED BY <2>4, <3>1, <3>2
  <2> QED BY <2>1, <2>3, <2>4 DEF Current
<1>9. Tokened' BY <1>3 DEF PaperInv, Tokened
<1>10. ASSUME NEW e \in Devices, device'[e].at \in {"printed", "deleting"}
       PROVE  /\ device[e].at \in {"printed", "deleting"}
              /\ device'[e].token = device[e].token /\ device'[e].code = device[e].code
  <2>1. CASE e = d BY <1>3, <1>10, <2>1
  <2>2. CASE e # d BY <1>3, <1>10, <2>2
  <2> QED BY <2>1, <2>2
<1>11. Evidence' BY <1>3, <1>10 DEF PaperInv, Evidence
<1>12. Copies'
  <2>kept. \A t \in Tokens : Promised(t)' => Promised(t)
    <3>1. \A e \in Devices : device'[e].try \in {device[e].try, device[e].try + 1} BY <1>3
    <3> QED BY <1>3, <3>1, PromisedCarry
  <2>1. \A e \in Devices : device'[e].at \in {"printed", "deleting"} /\ device'[e].code = 410
           => receipts'[device'[e].token] <= faults'.restarts
    BY <1>3, <1>10 DEF PaperInv, Copies
  <2>2. ASSUME NEW t \in Tokens PROVE CopiesOf(t)'
    <3>1. Holding(t) => Holding(t)'
      <4> SUFFICES ASSUME NEW e \in Devices, device[e].at \in {"printed", "deleting"},
                          device[e].token = t
                   PROVE  Holding(t)'
        BY DEF Holding
      <4>1. CASE e = d BY <1>3, <4>1 DEF Holding
      <4>2. CASE e # d BY <1>3, <4>2 DEF Holding
      <4> QED BY <4>1, <4>2
    <3>2. Obtainable(t)' => Obtainable(t)
      <4> SUFFICES ASSUME NEW e \in Devices, device'[e].at \in {"offered", "fetching", "have"},
                          device'[e].token = t
                   PROVE  Obtainable(t)
        BY <1>5, <2>kept DEF Obtainable
      <4>1. CASE e = d BY <1>3, <4>1 DEF Obtainable
      <4>2. CASE e # d BY <1>3, <4>2 DEF Obtainable
      <4> QED BY <4>1, <4>2
    <3>3. Refused(t)' => Refused(t) BY <1>3, <1>4, <1>5 DEF Refused
    <3>4. CopiesOf(t) BY DEF PaperInv, Copies
    <3>5. TypedPrinters' BY <1>2 DEF SInv, QueueInv, Typed
    <3> QED BY <1>1, <1>3, <3>1, <3>2, <3>3, <3>4, <3>5, CopiesCarry
  <2> QED BY <2>1, <2>2 DEF Copies
<1> QED BY <1>2, <1>7, <1>8, <1>9, <1>11, <1>12 DEF PaperInv

(* A power loss forgets what the printer had; what the server may still    *)
(* offer it costs the copy that the power loss allows.                     *)
LEMMA PowerLossKeepsPaper ==
  ASSUME Deployment, PaperInv, NEW d \in Devices, PowerLoss(d)
  PROVE  PaperInv'
<1>1. SInv /\ QueueInv /\ TypedPrinters /\ Alone
  BY DEF PaperInv, SInv, QueueInv, Typed
<1>2. SInv' BY <1>1, PowerLossKeepsS
<1>3. /\ \A e \in Devices : e # d => device'[e] = device[e]
      /\ device'[d].at = "idle"
      /\ device'[d].named = device[d].named /\ device'[d].try = device[d].try + 1
      /\ faults'.restarts = faults.restarts + 1
      /\ UNCHANGED <<server, net, receipts>>
  BY <1>1, PowerLossDoes
<1>4. mac' = mac /\ cloudJobs' = cloudJobs /\ net' = net BY <1>3 DEF server
<1>5. Open' = Open BY <1>4 DEF Open
<1>6. \A r \in net : r.dev \in Devices BY <1>1 DEF TypedPrinters, Messages
<1>7. Alone'
  <2>1. \A e \in Devices : device'[e].named = device[e].named /\ (Busy(e)' => Busy(e))
    BY <1>3 DEF Busy
  <2> QED BY <1>1, <1>4, <2>1, AloneKept
<1>8. Current'
  <2>1. ASSUME NEW r \in net' PROVE r.try <= device'[r.dev].try
    <3>1. r.try <= device[r.dev].try /\ r \in net /\ r.try \in Nat /\ device[r.dev].try \in Nat
      BY <1>1, <1>4, <1>6 DEF PaperInv, Current, TypedPrinters, Messages, DeviceStates
    <3>2. CASE r.dev = d BY <1>3, <3>1, <3>2
    <3>3. CASE r.dev # d BY <1>3, <1>6, <3>1, <3>3
    <3> QED BY <3>2, <3>3
  <2>2. ASSUME NEW r \in net', r.try = device'[r.dev].try PROVE device'[r.dev] = device[r.dev]
    <3>1. r.try <= device[r.dev].try /\ r \in net /\ r.try \in Nat /\ device[r.dev].try \in Nat
      BY <1>1, <1>4, <1>6 DEF PaperInv, Current, TypedPrinters, Messages, DeviceStates
    <3>2. r.dev # d BY <1>3, <2>2, <3>1
    <3> QED BY <1>3, <1>6, <3>1, <3>2
  <2>3. ASSUME NEW r \in net', r.try = device'[r.dev].try
        PROVE  /\ device'[r.dev].at = r.op
               /\ r.sends = device'[r.dev].token
               /\ r.op = "deleting" => r.code = device'[r.dev].code
    BY <1>4, <2>2, <2>3 DEF PaperInv, Current
  <2>4. ASSUME NEW r \in net', NEW s \in net', r.dev = s.dev, r.try = s.try,
               r.try = device'[r.dev].try
        PROVE  r = s
    <3>1. r \in net /\ s \in net /\ r.try = device[r.dev].try BY <1>4, <2>2, <2>4
    <3>2. \A u, v \in net : u.dev = v.dev /\ u.try = v.try /\ u.try = device[u.dev].try => u = v
      BY DEF PaperInv, Current
    <3> QED BY <2>4, <3>1, <3>2
  <2> QED BY <2>1, <2>3, <2>4 DEF Current
<1>9. Tokened' BY <1>4 DEF PaperInv, Tokened
<1>10. \A e \in Devices : device'[e].at \in {"offered", "fetching", "have", "printed", "deleting"}
          => device'[e] = device[e]
  BY <1>3
<1>11. Evidence' BY <1>3, <1>4, <1>10 DEF PaperInv, Evidence
<1>12. Copies'
  <2>1. /\ faults.restarts \in Nat /\ receipts' = receipts
        /\ \A t \in Tokens : receipts[t] \in Nat
    BY <1>1, <1>3 DEF TypedPrinters
  <2>2. ASSUME NEW e \in Devices, device'[e].at \in {"printed", "deleting"}, device'[e].code = 410
        PROVE  receipts'[device'[e].token] <= faults'.restarts
    <3>1. device'[e] = device[e] BY <1>10, <2>2
    <3>2. receipts[device[e].token] <= faults.restarts BY <2>2, <3>1 DEF PaperInv, Copies
    <3>3. device[e].token \in Tokens
      <4>1. Busy(e) BY <2>2, <3>1 DEF Busy
      <4>2. device[e].token # 0 BY <1>1, <4>1 DEF SInv, HandsFull
      <4> QED BY <1>1, <4>2 DEF TypedPrinters, DeviceStates, Tokens, Deployment
    <3> QED BY <1>3, <2>1, <3>1, <3>2, <3>3
  <2>3. ASSUME NEW t \in Tokens PROVE CopiesOf(t)'
    <3>1. CopiesOf(t) BY DEF PaperInv, Copies
    <3>2. Refused(t)' => Refused(t) BY <1>4, <1>5 DEF Refused
    <3>3. receipts[t] <= faults.restarts + 1 /\ (Refused(t) => receipts[t] <= faults.restarts)
      BY <3>1 DEF CopiesOf
    <3>4. /\ receipts'[t] <= faults'.restarts
          /\ Refused(t)' => receipts'[t] < faults'.restarts
      BY <1>3, <2>1, <3>2, <3>3
    <3>5. faults'.restarts \in Nat /\ receipts'[t] \in Nat BY <1>3, <2>1
    <3> QED BY <3>4, <3>5 DEF CopiesOf
  <2> QED BY <2>2, <2>3 DEF Copies
<1> QED BY <1>2, <1>7, <1>8, <1>9, <1>11, <1>12 DEF PaperInv

LEMMA PaperStep == ASSUME Deployment, Tokenless = {}, PaperInv, [Next]_vars PROVE PaperInv'
<1>1. CASE Submit BY <1>1, SubmitKeepsPaper
<1>2. ASSUME NEW d \in Devices, Serve(d) PROVE PaperInv'
  <2>1. QueueInv BY DEF PaperInv, SInv
  <2>2. UNCHANGED <<issued, receipts, faults>> BY <1>2, <2>1, ServeDoes
  <2>3. PICK r \in net :
          \/ /\ TypedEvents' /\ mac' \in [pinned : BOOLEAN, bound : Devices \cup {"none"}]
             /\ Replies(r) \/ \E s \in Messages : Moves(r, s)
          \/ net' = net \ {r} /\ (FetchJob(r) \/ Confirm(r))
    BY <1>2, <2>1, ServeDoes
  <2>4. CASE net' = net \ {r} /\ FetchJob(r) BY <2>2, <2>4, FetchKeepsPaper
  <2>5. CASE net' = net \ {r} /\ Confirm(r) BY <2>2, <2>5, ConfirmKeepsPaper
  <2>6. CASE /\ TypedEvents' /\ mac' \in [pinned : BOOLEAN, bound : Devices \cup {"none"}]
             /\ Replies(r)
    BY <2>2, <2>6, RepliesKeepPaper
  <2>7. CASE /\ TypedEvents' /\ mac' \in [pinned : BOOLEAN, bound : Devices \cup {"none"}]
             /\ \E s \in Messages : Moves(r, s)
    BY <2>2, <2>7, MovesKeepPaper
  <2> QED BY <2>3, <2>4, <2>5, <2>6, <2>7
<1>3. ASSUME NEW d \in Devices, SendPoll(d) \/ SendGet(d) \/ SendDelete(d) PROVE PaperInv'
  <2>1. TypedPrinters BY DEF PaperInv, SInv, QueueInv, Typed
  <2>2. PICK op \in Calls, code \in PollCodes \cup PrintCodes :
          /\ Sends(d, op, code)
          /\ \/ op = "polling" /\ device[d].at = "idle"
             \/ op = "fetching" /\ device[d].at = "offered"
             \/ /\ op = "deleting" /\ device[d].at = "printed" /\ code = device[d].code
                /\ code \in PrintCodes
    BY <1>3, <2>1, FirmwareSends
  <2> QED BY <2>2, SendsKeepPaper
<1>4. ASSUME NEW d \in Devices, PrintReceipt(d) PROVE PaperInv' BY <1>4, PrintKeepsPaper
<1>5. ASSUME NEW d \in Devices, GiveUp(d) PROVE PaperInv' BY <1>5, GiveUpKeepsPaper
<1>6. ASSUME NEW d \in Devices, PowerLoss(d) PROVE PaperInv' BY <1>6, PowerLossKeepsPaper
<1>7. CASE UNCHANGED vars
  <2>1. /\ UNCHANGED <<issued, pending, cloudJobs, history, mac>>
        /\ UNCHANGED <<reported, device, net, receipts, faults>>
    BY <1>7 DEF vars, server
  <2>2. SInv' BY <1>7, SStep DEF PaperInv
  <2>3. Alone' /\ Current' /\ Tokened' /\ Evidence'
    BY <2>1 DEF PaperInv, Alone, Current, Tokened, Evidence, Busy
  <2>4. Copies' BY <2>1 DEF PaperInv, Copies, CopiesOf, Holding, Obtainable, Promised,
                              Refused, Open
  <2> QED BY <2>2, <2>3, <2>4 DEF PaperInv
<1> QED BY <1>1, <1>2, <1>3, <1>4, <1>5, <1>6, <1>7 DEF Next, Firmware

-----------------------------------------------------------------------------
(* What a step does to the outcomes told and to the copies on paper.       *)
LEMMA OutcomeStep ==
  ASSUME Deployment, SInv, [Next]_vars, NEW t \in Tokens
  PROVE  /\ receipts'[t] >= receipts[t] /\ receipts[t] \in Nat /\ receipts'[t] \in Nat
         /\ cloudJobs[t] \in Outcomes => cloudJobs'[t] \in {cloudJobs[t], "absent"}
         /\ cloudJobs'[t] \in Outcomes =>
              \/ cloudJobs'[t] = cloudJobs[t]
              \/ \E r \in net : /\ r.op = "deleting" /\ Wanted(r) = t
                                /\ cloudJobs'[t] = Disposition(r.code)
<1>1. QueueInv /\ TypedPrinters /\ HandsFull /\ receipts[t] \in Nat
  BY DEF SInv, QueueInv, Typed, TypedPrinters
<1>2. cloudJobs[t] \in JobStates BY <1>1 DEF QueueInv, Typed, TypedServer
<1>3. CASE UNCHANGED cloudJobs /\ UNCHANGED receipts BY <1>1, <1>3
<1>4. CASE Submit
  <2>1. /\ issued < MaxTokens /\ cloudJobs' = [cloudJobs EXCEPT ![issued + 1] = "queued"]
        /\ receipts' = receipts
    BY <1>4 DEF Submit
  <2>2. cloudJobs'[t] = IF t = issued + 1 THEN "queued" ELSE cloudJobs[t]
    BY <1>1, <2>1 DEF QueueInv, Typed, TypedServer
  <2>3. t = issued + 1 => cloudJobs[t] = "absent"
    <3>1. issued + 1 > issued BY <1>1 DEF QueueInv, Typed, TypedServer, Deployment
    <3> QED BY <1>1, <3>1 DEF QueueInv, Unissued
  <2> QED BY <1>1, <2>1, <2>2, <2>3 DEF Outcomes
<1>5. ASSUME NEW d \in Devices, Serve(d)
      PROVE  /\ receipts' = receipts
             /\ cloudJobs[t] \in Outcomes => cloudJobs'[t] \in {cloudJobs[t], "absent"}
             /\ cloudJobs'[t] \in Outcomes =>
                  \/ cloudJobs'[t] = cloudJobs[t]
                  \/ \E r \in net : /\ r.op = "deleting" /\ Wanted(r) = t
                                    /\ cloudJobs'[t] = Disposition(r.code)
  <2>1. receipts' = receipts BY <1>1, <1>5, ServeDoes
  <2>2. PICK r \in net : cloudJobs' = cloudJobs \/ FetchJob(r) \/ Confirm(r)
    BY <1>1, <1>5, ServeDoes DEF Replies, Moves
  <2>5. CASE cloudJobs' = cloudJobs BY <2>1, <2>5
  <2>3. CASE FetchJob(r)
    <3>1. Open' = Open /\ (t \notin Open => cloudJobs'[t] = cloudJobs[t])
      BY <1>1, <2>3, FetchDoes
    <3>2. t \in Open => cloudJobs[t] \notin Outcomes BY DEF Open, Outcomes
    <3>3. t \in Open' => cloudJobs'[t] \notin Outcomes BY DEF Open, Outcomes
    <3> QED BY <2>1, <3>1, <3>2, <3>3
  <2>4. CASE Confirm(r)
    <3>1. Retires(r) \/ Ignores(r) BY <1>1, <2>4, ConfirmDoes
    <3>2. CASE Ignores(r)
      <4>1. cloudJobs' = cloudJobs BY <3>2 DEF Ignores
      <4> QED BY <2>1, <4>1
    <3>3. CASE Retires(r) /\ t = Wanted(r)
      <4>1. cloudJobs[t] \notin Outcomes BY <3>3 DEF Retires, Open, Outcomes
      <4>2. cloudJobs'[t] = Disposition(r.code) /\ r.op = "deleting"
        BY <2>4, <3>3 DEF Retires, Confirm
      <4> QED BY <2>1, <3>3, <4>1, <4>2
    <3>4. CASE Retires(r) /\ t # Wanted(r)
      <4>1. cloudJobs'[t] \in {cloudJobs[t], "absent"} BY <3>4 DEF Retires
      <4> QED BY <2>1, <4>1 DEF Outcomes
    <3> QED BY <3>1, <3>2, <3>3, <3>4
  <2> QED BY <2>2, <2>3, <2>4, <2>5
<1>6. ASSUME NEW d \in Devices, PrintReceipt(d)
      PROVE  cloudJobs' = cloudJobs /\ receipts'[t] \in Nat /\ receipts'[t] >= receipts[t]
  <2>1. /\ device[d].token \in Tokens /\ UNCHANGED server
        /\ t # device[d].token => receipts'[t] = receipts[t]
        /\ \/ receipts'[device[d].token] = receipts[device[d].token] + 1
           \/ receipts'[device[d].token] = receipts[device[d].token]
    BY <1>1, <1>6, PrintDoes
  <2> QED BY <1>1, <2>1 DEF server
<1>7. ASSUME NEW d \in Devices,
             \/ SendPoll(d) \/ SendGet(d) \/ SendDelete(d) \/ GiveUp(d) \/ PowerLoss(d)
      PROVE  UNCHANGED cloudJobs /\ UNCHANGED receipts
  BY <1>7 DEF SendPoll, SendGet, SendDelete, Sends, GiveUp, PowerLoss, server
<1>8. CASE UNCHANGED vars BY <1>3, <1>8 DEF vars, server
<1>9. CASE \E d \in Devices : Serve(d)
  <2>1. receipts'[t] = receipts[t] BY <1>5, <1>9
  <2> QED BY <1>1, <1>5, <1>9, <2>1
<1>10. CASE \E d \in Devices : PrintReceipt(d) BY <1>1, <1>6, <1>10
<1> QED BY <1>3, <1>4, <1>7, <1>8, <1>9, <1>10 DEF Next, Firmware

LEMMA SIsInvariant == ASSUME Deployment PROVE Spec => []SInv
<1>1. Init => SInv BY InitS
<1>2. SInv /\ [Next]_vars => SInv' BY SStep
<1> QED BY <1>1, <1>2, PTL DEF Spec

LEMMA PaperIsInvariant == ASSUME Deployment, Tokenless = {} PROVE Spec => []PaperInv
<1>1. Init => PaperInv BY InitPaper
<1>2. PaperInv /\ [Next]_vars => PaperInv' BY PaperStep
<1> QED BY <1>1, <1>2, PTL DEF Spec

LEMMA IsBounded ==
  ASSUME NEW q \in Seq(Tokens), NEW n \in Nat, Len(q) <= n
  PROVE  q \in BoundedSeq(Tokens, n)
<1>1. q \in [1..Len(q) -> Tokens] /\ Len(q) \in 0..n BY LenProperties
<1> QED BY <1>1 DEF BoundedSeq, SeqOf

(* The types and the sizes that the inductive invariant implies.           *)
LEMMA QueueTyped == ASSUME Deployment, SInv PROVE TypeOK
<1>1. TypedServer /\ TypedEvents /\ Bounded BY DEF SInv, QueueInv, Typed
<1>2. pending \in BoundedSeq(Tokens, MaxPending) /\ history \in BoundedSeq(Tokens, MaxHistory)
  BY <1>1, IsBounded DEF TypedServer, Bounded, Deployment
<1> QED BY <1>1, <1>2 DEF TypedServer, TypedEvents, TypeOK, JobStates

(* The queue is the jobs that wait for their DELETE, and it continues the  *)
(* order of the history.                                                   *)
LEMMA QueueRetained == ASSUME SInv PROVE RetainedUntilConfirmed
<1>1. QueuedIsOpen /\ Ordered /\ pending \in Seq(Tokens) /\ history \in Seq(Tokens)
  BY DEF SInv, QueueInv, Typed, TypedServer
<1>2. Range(pending) = Open
  <2>1. DOMAIN pending = 1..Len(pending) BY <1>1, LenProperties
  <2> QED BY <1>1, <2>1 DEF Range, QueuedIsOpen
<1> DEFINE all == history \o pending
           n == Len(history)
<1>3. /\ n \in Nat /\ Len(pending) \in Nat /\ Len(all) = n + Len(pending)
      /\ \A i \in 1..n + Len(pending) : all[i] = IF i <= n THEN history[i] ELSE pending[i - n]
  BY <1>1, LenProperties, ConcatProperties
<1>4. /\ \A i, j \in 1..n : i < j => history[i] < history[j]
      /\ \A i, j \in 1..Len(pending) : i < j => pending[i] < pending[j]
      /\ \A i \in 1..n, j \in 1..Len(pending) : history[i] < pending[j]
  BY <1>1 DEF Ordered
<1> HIDE DEF all, n
<1>5. ASSUME NEW i \in 1..Len(all), NEW j \in 1..Len(all), i < j PROVE all[i] < all[j]
  <2>1. CASE j <= n
    <3>1. i \in 1..n /\ j \in 1..n /\ all[i] = history[i] /\ all[j] = history[j]
      BY <1>3, <1>5, <2>1
    <3> QED BY <1>4, <1>5, <3>1
  <2>2. CASE i <= n /\ ~(j <= n)
    <3>1. i \in 1..n /\ j - n \in 1..Len(pending) /\ all[i] = history[i] /\ all[j] = pending[j - n]
      BY <1>3, <2>2
    <3> QED BY <1>4, <3>1
  <2>3. CASE ~(i <= n)
    <3>1. /\ i - n \in 1..Len(pending) /\ j - n \in 1..Len(pending) /\ i - n < j - n
          /\ all[i] = pending[i - n] /\ all[j] = pending[j - n]
      BY <1>3, <1>5, <2>3
    <3> QED BY <1>4, <3>1
  <2> QED BY <1>3, <1>5, <2>1, <2>2, <2>3
<1> QED BY <1>2, <1>5 DEF RetainedUntilConfirmed, all

(* The registry, the queue and the history of the route keep their types   *)
(* and their sizes: submit() refuses when max_pending jobs wait and        *)
(* confirm() evicts beyond max_history.                                    *)
THEOREM CloudTyped == ASSUME Deployment PROVE Spec => []TypeOK
<1>1. SInv => TypeOK BY QueueTyped
<1> QED BY <1>1, SIsInvariant, PTL

(* Rules 1 and 3 of the server: what waits in the queue is exactly what no *)
(* DELETE was served for, and jobs leave the queue, as they are remembered, *)
(* in the order of their submission, whatever the printers lose or repeat. *)
THEOREM JobsAreRetained == ASSUME Deployment PROVE Spec => []RetainedUntilConfirmed
<1>1. SInv => RetainedUntilConfirmed BY QueueRetained
<1> QED BY <1>1, SIsInvariant, PTL

(* confirm() keeps the first code it is given: no later, repeated or       *)
(* abandoned DELETE changes the outcome of a job.                          *)
THEOREM FirstCodeStands == ASSUME Deployment PROVE Spec => [][FirstCodeIsTheEvidence]_vars
<1>1. SInv /\ [Next]_vars => [FirstCodeIsTheEvidence]_vars
  BY OutcomeStep DEF FirstCodeIsTheEvidence
<1> QED BY <1>1, SIsInvariant, PTL DEF Spec

-----------------------------------------------------------------------------
(* The fault on record is the last event collected. Until another poll     *)
(* collects events while that one publishes, it is the last of what is     *)
(* still to be published, or has reached the subscribers.                  *)
Publications == {r \in net : Publishing(r)}

FaultInv ==
  /\ \A r \in Publications : r.op = "polling"
  /\ fault # "none" /\ ~raced =>
       \/ \E r \in Publications : Publications = {r} /\ Last(r.events) = fault
       \/ Publications = {} /\ Concern(fault) \in told

LEMMA FaultsTold == ASSUME SInv, FaultInv PROVE FaultsAreTold
<1> SUFFICES ASSUME fault # "none", ~raced, NEW r \in net, Publishing(r), Last(r.events) = fault
             PROVE  fault \in Range(r.events)
  BY DEF FaultInv, FaultsAreTold, Publications
<1>1. r.events \in Seq(DeviceEvents) /\ r.events # <<>>
  BY DEF SInv, QueueInv, Typed, TypedPrinters, Messages, Publishing
<1>2. Len(r.events) \in DOMAIN r.events BY <1>1, EmptySeq, LenProperties
<1> QED BY <1>2 DEF Last, Range

(* A step that neither collects an event nor publishes one.                *)
LEMMA FaultKept ==
  ASSUME FaultInv, UNCHANGED <<fault, told, raced>>, Publications' = Publications
  PROVE  FaultInv'
BY DEF FaultInv

LEMMA PollKeepsFault ==
  ASSUME SInv, FaultInv, NEW r \in net, Poll(r) PROVE FaultInv'
<1>1. TypedEvents /\ r \in Messages /\ ~Publishing(r) /\ r.op = "polling"
  BY DEF SInv, QueueInv, Typed, TypedPrinters, Poll, Publishing
<1>2. CASE ~IdentityMatches(r.name, TRUE)
  <2>1. net' = net \ {r} /\ UNCHANGED <<fault, told, raced>> BY <1>2 DEF Poll, reported
  <2>2. Publications' = Publications BY <1>1, <2>1 DEF Publications, Publishing
  <2> QED BY <2>1, <2>2, FaultKept
<1>3. CASE IdentityMatches(r.name, TRUE)
  <2> DEFINE s == [r EXCEPT !.served = TRUE, !.offer = Offered, !.events = Observed(r.code)]
  <2>1. Observe(r.code) /\ net' = (net \ {r}) \cup {s} BY <1>3 DEF Poll
  <2>2. s.served /\ s.events = Observed(r.code) /\ s.op = "polling" BY <1>1 DEF Messages
  <2> HIDE DEF s
  <2>3. Publishing(s) <=> Observed(r.code) # <<>> BY <2>2 DEF Publishing
  <2>4. CASE Observed(r.code) = <<>>
    <3>1. UNCHANGED <<fault, told, raced>> BY <1>1, <2>1, <2>4, ObservedDoes DEF Observe
    <3>2. Publications' = Publications BY <1>1, <2>1, <2>3, <2>4 DEF Publications, Publishing
    <3> QED BY <3>1, <3>2, FaultKept
  <2>5. CASE Observed(r.code) # <<>>
    <3>1. Publications' = Publications \cup {s}
      BY <1>1, <2>1, <2>3, <2>5 DEF Publications, Publishing
    <3>2. ASSUME fault' # "none", ~raced'
          PROVE  Publications' = {s} /\ Last(s.events) = fault'
      <4>1. fault' = FaultAfter(r.code) BY <2>1 DEF Observe
      <4>2. Publications = {} BY <2>1, <2>5, <3>2 DEF Observe, Publications
      <4> QED BY <1>1, <2>2, <2>5, <3>1, <3>2, <4>1, <4>2, ObservedDoes
    <3> QED BY <2>2, <3>1, <3>2 DEF FaultInv
  <2> QED BY <2>4, <2>5
<1> QED BY <1>2, <1>3

LEMMA PublishKeepsFault ==
  ASSUME SInv, FaultInv, NEW r \in net, Publish(r) PROVE FaultInv'
<1>1. TypedEvents /\ r \in Messages /\ r.op = "polling" /\ r.served /\ UNCHANGED <<fault, raced>>
  BY DEF SInv, QueueInv, Typed, TypedPrinters, Publish
<1>2. CASE ~Publishing(r)
  <2>1. net' = net \ {r} /\ UNCHANGED told BY <1>2 DEF Publish
  <2>2. Publications' = Publications BY <1>2, <2>1 DEF Publications, Publishing
  <2> QED BY <1>1, <2>1, <2>2, FaultKept
<1>3. CASE Publishing(r)
  <2> DEFINE s == [r EXCEPT !.events = Tail(r.events)]
  <2>1. told' = Believed(Head(r.events)) /\ net' = (net \ {r}) \cup {s} BY <1>3 DEF Publish
  <2>2. s.served /\ s.events = Tail(r.events) /\ s.op = "polling" BY <1>1 DEF Messages
  <2> HIDE DEF s
  <2>3. r.events \in Seq(DeviceEvents) /\ r.events # <<>> BY <1>1, <1>3 DEF Messages, Publishing
  <2>4. /\ Len(r.events) \in Nat /\ Len(r.events) >= 1 /\ Head(r.events) = r.events[1]
        /\ Tail(r.events) \in Seq(DeviceEvents) /\ Len(Tail(r.events)) = Len(r.events) - 1
        /\ \A i \in 1..Len(r.events) - 1 : Tail(r.events)[i] = r.events[i + 1]
    BY <2>3, EmptySeq, LenProperties, HeadTailProperties
  <2>none. s.events = <<>> <=> Len(r.events) = 1
    <3> DEFINE rest == Tail(r.events)
    <3>1. rest \in Seq(DeviceEvents) /\ Len(rest) = Len(r.events) - 1 BY <2>4
    <3>2. s.events = rest BY <2>2
    <3> HIDE DEF rest
    <3>3. rest = <<>> <=> Len(rest) = 0 BY <3>1, EmptySeq
    <3> QED BY <2>4, <3>1, <3>2, <3>3
  <2>5. r \in Publications BY <1>3 DEF Publications
  <2>6. Publications' = (Publications \ {r}) \cup (IF Publishing(s) THEN {s} ELSE {})
    BY <2>1 DEF Publications, Publishing
  <2>7. ASSUME fault' # "none", ~raced'
        PROVE  \/ \E u \in Publications' : Publications' = {u} /\ Last(u.events) = fault'
               \/ Publications' = {} /\ Concern(fault') \in told'
    <3>1. Publications = {r} /\ Last(r.events) = fault BY <1>1, <2>5, <2>7 DEF FaultInv
    <3>2. CASE Len(r.events) = 1
      <4>1. ~Publishing(s) BY <2>none, <3>2 DEF Publishing
      <4>2. Head(r.events) = fault BY <2>4, <3>1, <3>2 DEF Last
      <4>3. Concern(fault') \in told'
        <5>1. fault' = fault BY <1>1
        <5>2. fault \in FaultEvents BY <1>1, <2>7, <5>1 DEF TypedEvents
        <5>3. Believed(fault) = told \cup {Concern(fault)} BY <5>2 DEF Believed
        <5>4. told' = Believed(fault) BY <2>1, <4>2
        <5>5. Concern(fault) \in told' BY <5>3, <5>4
        <5> QED BY <5>1, <5>5
      <4> QED BY <2>6, <3>1, <4>1, <4>3
    <3>3. CASE Len(r.events) # 1
      <4> DEFINE n == Len(r.events)
      <4>1. n - 1 \in 1..n - 1 /\ n - 1 + 1 = n
        <5>1. n \in Nat /\ n >= 1 /\ n # 1 BY <2>4, <3>3
        <5> HIDE DEF n
        <5> QED BY <5>1
      <4>2. Publishing(s) BY <2>2, <2>none, <3>3 DEF Publishing
      <4>3. Last(s.events) = Last(r.events) BY <2>2, <2>4, <4>1 DEF Last
      <4> QED BY <1>1, <2>6, <3>1, <4>2, <4>3
    <3> QED BY <3>2, <3>3
  <2> QED BY <2>2, <2>6, <2>7 DEF FaultInv
<1> QED BY <1>2, <1>3

LEMMA FaultStep == ASSUME Deployment, SInv, FaultInv, [Next]_vars PROVE FaultInv'
<1>1. ASSUME NEW r \in net, FetchJob(r) \/ Confirm(r) PROVE FaultInv'
  <2>1. net' = net \ {r} /\ UNCHANGED <<fault, told, raced>> /\ r.op # "polling"
    BY <1>1 DEF FetchJob, Confirm, reported
  <2>2. Publications' = Publications BY <2>1 DEF Publications, Publishing, FaultInv
  <2> QED BY <2>1, <2>2, FaultKept
<1>2. ASSUME NEW d \in Devices, Serve(d) PROVE FaultInv'
  <2>1. PICK r \in net : Poll(r) \/ Publish(r) \/ FetchJob(r) \/ Confirm(r) BY <1>2 DEF Serve
  <2> QED BY <1>1, <2>1, PollKeepsFault, PublishKeepsFault
<1>3. ASSUME NEW d \in Devices, SendPoll(d) \/ SendGet(d) \/ SendDelete(d) PROVE FaultInv'
  <2>1. TypedPrinters BY DEF SInv, QueueInv, Typed
  <2>2. PICK op, code : Sends(d, op, code) BY <1>3 DEF SendPoll, SendGet, SendDelete
  <2>3. net' = net \cup {Message(d, op, code)} /\ UNCHANGED reported BY <2>2 DEF Sends, Message
  <2>4. ~Publishing(Message(d, op, code)) BY MessageFields DEF Publishing
  <2>5. Publications' = Publications BY <2>3, <2>4 DEF Publications, Publishing
  <2> QED BY <2>3, <2>5, FaultKept DEF reported
<1>4. ASSUME NEW d \in Devices, PrintReceipt(d) \/ PowerLoss(d) PROVE FaultInv'
  <2>1. UNCHANGED <<net, reported>> BY <1>4 DEF PrintReceipt, PowerLoss
  <2>2. Publications' = Publications BY <2>1 DEF Publications, Publishing
  <2> QED BY <2>1, <2>2, FaultKept DEF reported
<1>5. ASSUME NEW d \in Devices, GiveUp(d) PROVE FaultInv'
  <2>1. /\ UNCHANGED reported
        /\ \/ net' = net
           \/ net' = {r \in net : r.dev = d /\ r.try = device[d].try => r.served}
    BY <1>5 DEF GiveUp
  <2>2. Publications' = Publications BY <2>1 DEF Publications, Publishing
  <2> QED BY <2>1, <2>2, FaultKept DEF reported
<1>6. CASE Submit \/ UNCHANGED vars
  <2>1. UNCHANGED <<net, reported>> BY <1>6 DEF Submit, vars
  <2>2. Publications' = Publications BY <2>1 DEF Publications, Publishing
  <2> QED BY <2>1, <2>2, FaultKept DEF reported
<1> QED BY <1>2, <1>3, <1>4, <1>5, <1>6 DEF Next, Firmware

LEMMA InitFault == ASSUME Init PROVE FaultInv
BY DEF Init, FaultInv, Publications

(* observe() and publish(): the fault on record has reached the            *)
(* subscribers or is on its way to them, whatever codes the polls carry    *)
(* and wherever the publication of each stands; it may stay untold only    *)
(* when polls published at once.                                           *)
THEOREM FaultsReachReaders == ASSUME Deployment PROVE Spec => []FaultsAreTold
<1>1. Init => FaultInv BY InitFault
<1>2. SInv /\ FaultInv /\ [Next]_vars => FaultInv' BY FaultStep
<1>3. SInv /\ FaultInv => FaultsAreTold BY FaultsTold
<1> QED BY <1>1, <1>2, <1>3, SIsInvariant, PTL DEF Spec

(* A job that comes to read Done had its receipt on paper when the DELETE  *)
(* was sent.                                                               *)
LEMMA DoneStep ==
  ASSUME Deployment, PaperInv, DoneMeansPrinted, [Next]_vars PROVE DoneMeansPrinted'
<1> SUFFICES ASSUME NEW t \in Tokens, cloudJobs'[t] = "Done"
             PROVE  receipts'[t] > 0
  BY DEF DoneMeansPrinted
<1>1. SInv BY DEF PaperInv
<1>2. /\ receipts'[t] >= receipts[t] /\ receipts[t] \in Nat /\ receipts'[t] \in Nat
      /\ \/ cloudJobs'[t] = cloudJobs[t]
         \/ \E r \in net : /\ r.op = "deleting" /\ Wanted(r) = t
                           /\ cloudJobs'[t] = Disposition(r.code)
  BY <1>1, OutcomeStep DEF Outcomes
<1>3. CASE cloudJobs'[t] = cloudJobs[t] BY <1>2, <1>3 DEF DoneMeansPrinted
<1>4. ASSUME NEW r \in net, r.op = "deleting", Wanted(r) = t, cloudJobs'[t] = Disposition(r.code)
      PROVE  receipts'[t] > 0
  <2>1. r.code = 200 BY <1>4 DEF Disposition
  <2>2. r.sends = t BY <1>4 DEF Wanted, PaperInv, Tokened
  <2>3. receipts[r.sends] > 0 BY <1>4, <2>1 DEF PaperInv, Evidence
  <2> QED BY <1>2, <2>2, <2>3
<1> QED BY <1>2, <1>3, <1>4

(* Rule 4: a job reads Done only when a printer has put it on paper, where *)
(* every printer names the job its DELETE is about. The DELETE of one that *)
(* does not is about the head, which may by then be the next job.          *)
THEOREM DoneIsPrinted ==
  ASSUME Deployment, Tokenless = {} PROVE Spec => []DoneMeansPrinted
<1>1. Init => DoneMeansPrinted BY DEF Init, DoneMeansPrinted
<1>2. PaperInv /\ DoneMeansPrinted /\ [Next]_vars => DoneMeansPrinted' BY DoneStep
<1> QED BY <1>1, <1>2, PaperIsInvariant, PTL DEF Spec

(* The bound on the copies that the invariant implies.                     *)
LEMMA CopiesBounded == ASSUME PaperInv PROVE OneCopy
<1> SUFFICES ASSUME NEW t \in Tokens
             PROVE  receipts[t] <= faults.restarts + (IF cloudJobs[t] = "Failed" THEN 0 ELSE 1)
  BY DEF OneCopy
<1>1. CopiesOf(t) /\ faults.restarts \in Nat
  BY DEF PaperInv, Copies, SInv, QueueInv, Typed, TypedPrinters
<1>2. /\ receipts[t] <= faults.restarts + 1
      /\ cloudJobs[t] = "Failed" => receipts[t] <= faults.restarts
  BY <1>1 DEF CopiesOf, Refused
<1> QED BY <1>1, <1>2

(* One receipt per job: retried downloads and DELETEs, two printers on one *)
(* URL and requests served long after they were given up put no second     *)
(* copy on paper; only a power loss between the paper and the DELETE does, *)
(* and one receipt less is there when the job reads Failed.                *)
THEOREM OneReceipt ==
  ASSUME Deployment, Tokenless = {} PROVE Spec => []OneCopy
<1>1. PaperInv => OneCopy BY CopiesBounded
<1> QED BY <1>1, PaperIsInvariant, PTL

=============================================================================
