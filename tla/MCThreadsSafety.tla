--------------------------- MODULE MCThreadsSafety ---------------------------
(***************************************************************************)
(* What the components in which threads meet promise, for any threads,     *)
(* tasks, links and items: the invariants MCThreads checks on two threads  *)
(* of each kind.  Each component has its inductive invariant (FeedbackInv, *)
(* LaneInv, ...), a lemma that it holds at first and is kept by every step *)
(* of the component, and lemmas that it implies what the component         *)
(* promises; the theorems at the end put them together.                    *)
(***************************************************************************)
EXTENDS MCThreads, TLAPS, SequenceTheorems, FiniteSetTheorems

-----------------------------------------------------------------------------


(* A callback of this subscriber for the newest event is still to be made. *)
Due(s) == IF s \in emitter.calling THEN 1 ELSE 0

(* The history, piece after piece: what was given, what is replayed, what  *)
(* is parked, and d events due.                                            *)
Covers(h, got, todo, pending, d) ==
  /\ Len(h) = Len(got) + Len(todo) + Len(pending) + d
  /\ \A i \in 1..Len(got) : got[i] = h[i]
  /\ \A i \in 1..Len(todo) : todo[i] = h[Len(got) + i]
  /\ \A i \in 1..Len(pending) : pending[i] = h[Len(got) + Len(todo) + i]

Split(s) == Covers(history, seen[s], sub[s].todo, sub[s].pending, Due(s))

(* Before subscribe() nothing is given, and only a live subscriber, with   *)
(* nothing left to replay, is called by the emitting thread.               *)
Standing(s) ==
  /\ sub[s].st = "absent" => seen[s] = <<>> /\ sub[s].todo = <<>> /\ s \notin emitter.calling
  /\ sub[s].st = "draining" => s \notin emitter.calling
  /\ sub[s].st = "live" => sub[s].todo = <<>> /\ sub[s].pending = <<>>

(* finish() comes after the last event, a result after finish().           *)
Ending ==
  /\ emitter.pc \in {"store", "notify", "done"} => Len(history) = LastEvent
  /\ \A w \in Waiters : waiter[w] = "result" => terminal

FeedbackInv ==
  /\ Feedback!TypeOK
  /\ \A s \in Subscribers : Standing(s) /\ (sub[s].st # "absent" => Split(s))
  /\ Ending

-----------------------------------------------------------------------------
(* How the pieces of a history change.                                     *)

LEMMA CoversParked ==
  ASSUME NEW S, NEW h \in Seq(S), NEW a \in Seq(S), NEW b \in Seq(S), NEW c \in Seq(S),
         NEW e \in S, Covers(h, a, b, c, 0)
  PROVE  Covers(Append(h, e), a, b, Append(c, e), 0)
<1>1. Len(h) \in Nat /\ Len(a) \in Nat /\ Len(b) \in Nat /\ Len(c) \in Nat
  BY LenProperties
<1>2. /\ Len(Append(h, e)) = Len(h) + 1 /\ Append(h, e)[Len(h) + 1] = e
      /\ \A i \in 1..Len(h) : Append(h, e)[i] = h[i]
  BY AppendProperties
<1>3. /\ Len(Append(c, e)) = Len(c) + 1 /\ Append(c, e)[Len(c) + 1] = e
      /\ \A i \in 1..Len(c) : Append(c, e)[i] = c[i]
  BY AppendProperties
<1> DEFINE g == Append(h, e)
           p == Append(c, e)
<1> HIDE DEF g, p
<1>4. Covers(g, a, b, p, 0)
  <2>1. Len(g) = Len(a) + Len(b) + Len(p)
    BY <1>1, <1>2, <1>3 DEF Covers, g, p
  <2>2. Len(h) = Len(a) + Len(b) + Len(c)
    BY <1>1 DEF Covers
  <2>3. \A i \in 1..Len(a) : a[i] = g[i]
    BY <1>1, <1>2, <2>2 DEF Covers, g
  <2>4. \A i \in 1..Len(b) : b[i] = g[Len(a) + i]
    <3> SUFFICES ASSUME NEW i \in 1..Len(b) PROVE b[i] = g[Len(a) + i]
      OBVIOUS
    <3>1. Len(a) + i \in 1..Len(h)
      BY <1>1, <2>2
    <3> QED
      BY <1>2, <3>1 DEF Covers, g
  <2>5. \A i \in 1..Len(p) : p[i] = g[Len(a) + Len(b) + i]
    <3> SUFFICES ASSUME NEW i \in 1..Len(p) PROVE p[i] = g[Len(a) + Len(b) + i]
      OBVIOUS
    <3>1. CASE i = Len(c) + 1
      <4>1. Len(a) + Len(b) + i = Len(h) + 1
        BY <1>1, <2>2, <3>1
      <4> QED
        BY <1>2, <1>3, <3>1, <4>1 DEF g, p
    <3>2. CASE i \in 1..Len(c)
      <4>1. Len(a) + Len(b) + i \in 1..Len(h)
        BY <1>1, <2>2, <3>2
      <4> QED
        BY <1>2, <1>3, <3>2, <4>1 DEF Covers, g, p
    <3> QED
      BY <1>1, <1>3, <3>1, <3>2 DEF p
  <2> QED
    BY <1>1, <2>1, <2>3, <2>4, <2>5 DEF Covers
<1> QED
  BY <1>4 DEF g, p

LEMMA CoversLive ==
  ASSUME NEW S, NEW h \in Seq(S), NEW a \in Seq(S), NEW e \in S, Covers(h, a, <<>>, <<>>, 0)
  PROVE  Covers(Append(h, e), a, <<>>, <<>>, 1)
<1>1. Len(h) \in Nat /\ Len(a) \in Nat
  BY LenProperties
<1>2. /\ Len(Append(h, e)) = Len(h) + 1
      /\ \A i \in 1..Len(h) : Append(h, e)[i] = h[i]
  BY AppendProperties
<1> QED
  BY <1>1, <1>2 DEF Covers

LEMMA CoversDelivered ==
  ASSUME NEW S, NEW h \in Seq(S), NEW a \in Seq(S), Covers(h, a, <<>>, <<>>, 1)
  PROVE  /\ h[Len(h)] \in S
         /\ Covers(h, Append(a, h[Len(h)]), <<>>, <<>>, 0)
<1>1. Len(h) \in Nat /\ Len(a) \in Nat /\ Len(h) = Len(a) + 1
  BY LenProperties DEF Covers
<1>2. h[Len(h)] \in S
  BY <1>1, ElementOfSeq
<1> DEFINE e == h[Len(h)]
<1>3. /\ Len(Append(a, e)) = Len(a) + 1 /\ Append(a, e)[Len(a) + 1] = e
      /\ \A i \in 1..Len(a) : Append(a, e)[i] = a[i]
  BY <1>2, AppendProperties
<1> QED
  BY <1>1, <1>2, <1>3 DEF Covers

LEMMA CoversReplayed ==
  ASSUME NEW S, NEW h \in Seq(S), NEW a \in Seq(S), NEW b \in Seq(S), NEW c \in Seq(S),
         b # <<>>, Covers(h, a, b, c, 0)
  PROVE  /\ Head(b) \in S /\ Tail(b) \in Seq(S)
         /\ Covers(h, Append(a, Head(b)), Tail(b), c, 0)
<1>1. Len(h) \in Nat /\ Len(a) \in Nat /\ Len(b) \in Nat \ {0} /\ Len(c) \in Nat
  BY LenProperties, EmptySeq
<1>2. /\ Head(b) \in S /\ Tail(b) \in Seq(S) /\ Head(b) = b[1]
      /\ Len(Tail(b)) = Len(b) - 1
  BY <1>1
<1>3. \A i \in 1..(Len(b) - 1) : Tail(b)[i] = b[i + 1]
  BY <1>1
<1>4. /\ Len(Append(a, Head(b))) = Len(a) + 1 /\ Append(a, Head(b))[Len(a) + 1] = Head(b)
      /\ \A i \in 1..Len(a) : Append(a, Head(b))[i] = a[i]
  BY <1>2, AppendProperties
<1> DEFINE g == Append(a, Head(b))
           t == Tail(b)
<1> HIDE DEF g, t
<1>5. Covers(h, g, t, c, 0)
  <2>1. \A i \in 1..Len(g) : g[i] = h[i]
    BY <1>1, <1>2, <1>4 DEF Covers, g
  <2>2. \A i \in 1..Len(t) : t[i] = h[Len(g) + i]
    <3> SUFFICES ASSUME NEW i \in 1..Len(t) PROVE t[i] = h[Len(g) + i]
      OBVIOUS
    <3>1. i + 1 \in 1..Len(b) /\ t[i] = b[i + 1] /\ Len(g) + i = Len(a) + (i + 1)
      BY <1>1, <1>2, <1>3, <1>4 DEF g, t
    <3> QED
      BY <3>1 DEF Covers
  <2>3. Len(g) + Len(t) = Len(a) + Len(b)
    BY <1>1, <1>2, <1>4 DEF g, t
  <2> QED
    BY <1>1, <2>1, <2>2, <2>3 DEF Covers
<1> QED
  BY <1>2, <1>5 DEF g, t

LEMMA CoversTaken ==
  ASSUME NEW S, NEW h \in Seq(S), NEW a \in Seq(S), NEW c \in Seq(S), Covers(h, a, <<>>, c, 0)
  PROVE  Covers(h, a, c, <<>>, 0)
<1>1. Len(h) \in Nat /\ Len(a) \in Nat /\ Len(c) \in Nat
  BY LenProperties
<1> QED
  BY <1>1 DEF Covers

-----------------------------------------------------------------------------
(* The emitting thread.                                                    *)

Sub == [st : {"absent", "draining", "live"},
        todo : Seq(1..LastEvent), pending : Seq(1..LastEvent)]

LEMMA EmitType == ASSUME LastEvent \in Nat, Feedback!TypeOK, Feedback!Emit PROVE Feedback!TypeOK'
<1> DEFINE e == Len(history) + 1
<1>1. e \in 1..LastEvent
  BY DEF Feedback!TypeOK, Feedback!Emit
<1>2. history' \in Seq(1..LastEvent)
  BY <1>1 DEF Feedback!TypeOK, Feedback!Emit
<1>3. ASSUME NEW s \in Subscribers PROVE Feedback!Parked(s, e) \in Sub
  <2>1. sub[s] \in Sub
    BY DEF Feedback!TypeOK, Sub
  <2>2. CASE sub[s].st = "draining"
    <3>1. Append(sub[s].pending, e) \in Seq(1..LastEvent)
      BY <1>1, <2>1, AppendProperties DEF Sub
    <3> QED
      BY <2>1, <2>2, <3>1 DEF Feedback!Parked, Sub
  <2> QED
    BY <2>1, <2>2 DEF Feedback!Parked
<1>4. sub' \in [Subscribers -> Sub]
  BY <1>3 DEF Feedback!Emit
<1> QED
  BY <1>2, <1>4 DEF Feedback!TypeOK, Feedback!Emit, Sub

LEMMA EmitKeeps == ASSUME LastEvent \in Nat, FeedbackInv, Feedback!Emit PROVE FeedbackInv'
<1>1. Feedback!TypeOK'
  BY EmitType DEF FeedbackInv
<1>2. /\ emitter.pc = "emit" /\ emitter.calling = {} /\ Len(history) \in Nat
      /\ history \in Seq(1..LastEvent)
  BY DEF FeedbackInv, Feedback!TypeOK, Feedback!Emit
<1> DEFINE e == Len(history) + 1
<1>3. e \in 1..LastEvent /\ history' = Append(history, e)
  BY <1>2 DEF Feedback!Emit
<1>4. ASSUME NEW s \in Subscribers PROVE Standing(s)' /\ (sub'[s].st # "absent" => Split(s)')
  <2>1. sub[s] \in Sub /\ seen[s] \in Seq(1..LastEvent) /\ UNCHANGED seen
    BY DEF FeedbackInv, Feedback!TypeOK, Sub, Feedback!Emit
  <2>2. sub'[s] = Feedback!Parked(s, e) /\ Standing(s) /\ (sub[s].st # "absent" => Split(s))
    BY DEF FeedbackInv, Feedback!Emit
  <2>3. s \in emitter'.calling <=> sub[s].st = "live"
    BY DEF Feedback!Emit
  <2>4. CASE sub[s].st = "draining"
    <3>1. PICK r \in Sub : r = sub[s]
      BY <2>1
    <3>2. PICK g : g = Append(r.pending, e)
      OBVIOUS
    <3>3. sub'[s] = [r EXCEPT !.pending = g]
      BY <2>2, <2>4, <3>1, <3>2 DEF Feedback!Parked
    <3>4. sub'[s].st = "draining" /\ sub'[s].todo = r.todo /\ sub'[s].pending = g
      BY <2>4, <3>1, <3>3 DEF Sub
    <3>5. Due(s) = 0 /\ Due(s)' = 0
      BY <2>2, <2>3, <2>4 DEF Due, Standing
    <3>6. Covers(history, seen[s], r.todo, r.pending, 0)
      BY <2>2, <2>4, <3>1, <3>5 DEF Split
    <3>7. Covers(history', seen[s], r.todo, g, 0)
      BY <1>2, <1>3, <2>1, <3>1, <3>2, <3>6, CoversParked DEF Sub, Feedback!Emit
    <3>8. Split(s)'
      BY <2>1, <3>4, <3>5, <3>7 DEF Split
    <3> QED
      BY <2>3, <2>4, <3>4, <3>8 DEF Standing
  <2>5. CASE sub[s].st # "draining"
    <3>1. sub'[s] = sub[s]
      BY <2>2, <2>5 DEF Feedback!Parked
    <3>2. Standing(s)'
      BY <1>2, <2>1, <2>2, <2>3, <2>5, <3>1 DEF Standing
    <3>3. ASSUME sub[s].st = "live" PROVE Split(s)'
      <4>1. Due(s) = 0 /\ Due(s)' = 1
        BY <1>2, <2>3, <3>3 DEF Due
      <4>2. Covers(history, seen[s], <<>>, <<>>, 0)
        BY <2>2, <3>3, <4>1 DEF Split, Standing
      <4>3. Covers(history', seen[s], <<>>, <<>>, 1)
        BY <1>2, <1>3, <2>1, <4>2, CoversLive DEF Feedback!Emit
      <4> QED
        BY <2>1, <2>2, <3>1, <3>3, <4>1, <4>3 DEF Split, Standing
    <3>4. sub[s].st \in {"absent", "draining", "live"}
      BY <2>1 DEF Sub
    <3> QED
      BY <2>5, <3>1, <3>2, <3>3, <3>4
  <2> QED
    BY <2>4, <2>5
<1>5. Ending'
  BY DEF FeedbackInv, Ending, Feedback!Emit
<1> QED
  BY <1>1, <1>4, <1>5 DEF FeedbackInv

LEMMA DeliverKeeps == ASSUME LastEvent \in Nat, FeedbackInv, Feedback!Deliver PROVE FeedbackInv'
<1>1. CASE /\ emitter.calling = {} /\ emitter' = [emitter EXCEPT !.pc = "emit"]
           /\ UNCHANGED seen
  <2>1. emitter'.calling = {} /\ emitter'.pc = "emit"
    BY <1>1 DEF FeedbackInv, Feedback!TypeOK
  <2>2. Feedback!TypeOK'
    <3>1. terminal = (emitter.pc \in {"notify", "done"}) /\ emitter.pc = "deliver"
      BY DEF FeedbackInv, Feedback!TypeOK, Feedback!Deliver
    <3>2. terminal' = (emitter'.pc \in {"notify", "done"})
      BY <2>1, <3>1 DEF Feedback!Deliver
    <3> QED
      BY <1>1, <2>1, <3>2 DEF FeedbackInv, Feedback!TypeOK, Feedback!Deliver
  <2>3. \A s \in Subscribers : Standing(s)' /\ (sub'[s].st # "absent" => Split(s)')
    BY <1>1, <2>1 DEF FeedbackInv, Standing, Split, Due, Feedback!Deliver
  <2>4. Ending'
    BY <1>1, <2>1 DEF FeedbackInv, Ending, Feedback!Deliver
  <2> QED
    BY <2>2, <2>3, <2>4 DEF FeedbackInv
<1>2. ASSUME NEW c \in emitter.calling,
             seen' = [seen EXCEPT ![c] = Append(@, history[Len(history)])],
             emitter' = [emitter EXCEPT !.calling = @ \ {c}]
      PROVE  FeedbackInv'
  <2>1. /\ c \in Subscribers /\ history \in Seq(1..LastEvent) /\ emitter.pc = "deliver"
        /\ UNCHANGED <<feedbackMutex, history, sub, terminal, waiter, sleeping>>
    BY DEF FeedbackInv, Feedback!TypeOK, Feedback!Deliver
  <2>2. emitter'.calling = emitter.calling \ {c} /\ emitter'.pc = "deliver"
    BY <1>2, <2>1 DEF FeedbackInv, Feedback!TypeOK
  <2>3. /\ sub[c] \in Sub /\ seen[c] \in Seq(1..LastEvent) /\ sub[c].st = "live"
        /\ Split(c) /\ sub[c].todo = <<>> /\ sub[c].pending = <<>> /\ Due(c) = 1
    BY <1>2, <2>1 DEF FeedbackInv, Feedback!TypeOK, Sub, Standing, Due
  <2>4. Covers(history, seen[c], <<>>, <<>>, 1)
    BY <2>3 DEF Split
  <2>5. /\ history[Len(history)] \in 1..LastEvent
        /\ Covers(history, Append(seen[c], history[Len(history)]), <<>>, <<>>, 0)
    BY <2>1, <2>3, <2>4, CoversDelivered
  <2>6. Feedback!TypeOK'
    <3>1. seen' \in [Subscribers -> Seq(1..LastEvent)]
      BY <1>2, <2>1, <2>3, <2>5, AppendProperties DEF FeedbackInv, Feedback!TypeOK
    <3> QED
      BY <1>2, <2>1, <2>2, <3>1 DEF FeedbackInv, Feedback!TypeOK
  <2>7. ASSUME NEW s \in Subscribers
        PROVE  Standing(s)' /\ (sub'[s].st # "absent" => Split(s)')
    <3>1. Standing(s) /\ (sub[s].st # "absent" => Split(s))
      BY DEF FeedbackInv
    <3>2. CASE s # c
      <4>1. seen'[s] = seen[s] /\ (s \in emitter'.calling <=> s \in emitter.calling)
        BY <1>2, <2>1, <2>2, <3>2 DEF FeedbackInv, Feedback!TypeOK
      <4> QED
        BY <2>1, <3>1, <4>1 DEF Standing, Split, Due
    <3>3. CASE s = c
      <4>1. seen'[c] = Append(seen[c], history[Len(history)])
        BY <1>2, <2>1 DEF FeedbackInv, Feedback!TypeOK
      <4>2. Due(c)' = 0
        BY <2>2 DEF Due
      <4>3. Split(c)'
        BY <2>1, <2>3, <2>5, <4>1, <4>2 DEF Split
      <4> QED
        BY <2>1, <2>2, <2>3, <3>3, <4>3 DEF Standing
    <3> QED
      BY <3>2, <3>3
  <2>8. Ending'
    BY <2>1, <2>2 DEF FeedbackInv, Ending
  <2> QED
    BY <2>6, <2>7, <2>8 DEF FeedbackInv
<1> QED
  BY <1>1, <1>2 DEF Feedback!Deliver

LEMMA FinishKeeps ==
  ASSUME LastEvent \in Nat, FeedbackInv, Feedback!SetResult \/ Feedback!StoreTerminal \/ Feedback!NotifyDone PROVE FeedbackInv'
<1>1. /\ UNCHANGED <<history, sub, seen, waiter>> /\ emitter'.calling = emitter.calling
      /\ emitter.calling = {}
  BY DEF FeedbackInv, Feedback!TypeOK, Feedback!SetResult, Feedback!StoreTerminal,
     Feedback!NotifyDone
<1>2. Feedback!TypeOK'
  <2>1. CASE Feedback!SetResult
    <3>1. terminal = (emitter.pc \in {"notify", "done"}) /\ emitter.pc = "emit"
      BY <2>1 DEF FeedbackInv, Feedback!TypeOK, Feedback!SetResult
    <3>2. emitter'.pc = "store"
      BY <2>1 DEF FeedbackInv, Feedback!TypeOK, Feedback!SetResult
    <3>3. terminal' = (emitter'.pc \in {"notify", "done"})
      BY <2>1, <3>1, <3>2 DEF Feedback!SetResult
    <3> QED
      BY <2>1, <3>2, <3>3 DEF FeedbackInv, Feedback!TypeOK, Feedback!SetResult
  <2>2. CASE Feedback!StoreTerminal
    BY <2>2 DEF FeedbackInv, Feedback!TypeOK, Feedback!StoreTerminal
  <2>3. CASE Feedback!NotifyDone
    BY <2>3 DEF FeedbackInv, Feedback!TypeOK, Feedback!NotifyDone
  <2> QED
    BY <2>1, <2>2, <2>3
<1>3. \A s \in Subscribers : Standing(s)' /\ (sub'[s].st # "absent" => Split(s)')
  BY <1>1 DEF FeedbackInv, Standing, Split, Due
<1>4. Ending'
  BY <1>1 DEF FeedbackInv, Feedback!TypeOK, Ending, Feedback!SetResult, Feedback!StoreTerminal,
     Feedback!NotifyDone
<1> QED
  BY <1>2, <1>3, <1>4 DEF FeedbackInv

-----------------------------------------------------------------------------
(* A subscribing thread.                                                   *)

(* A step that touches one subscriber's record and what it was given.      *)
LEMMA OneSubscriber ==
  ASSUME LastEvent \in Nat, FeedbackInv, NEW c \in Subscribers, NEW r \in Sub, NEW q \in Seq(1..LastEvent),
         sub' = [sub EXCEPT ![c] = r], seen' = [seen EXCEPT ![c] = q],
         UNCHANGED <<feedbackMutex, history, emitter, terminal, waiter, sleeping>>,
         Standing(c)', sub'[c].st # "absent" => Split(c)'
  PROVE  FeedbackInv'
<1>1. Feedback!TypeOK'
  <2>1. sub \in [Subscribers -> Sub] /\ seen \in [Subscribers -> Seq(1..LastEvent)]
    BY DEF FeedbackInv, Feedback!TypeOK, Sub
  <2>2. sub' \in [Subscribers -> Sub] /\ seen' \in [Subscribers -> Seq(1..LastEvent)]
    BY <2>1
  <2> QED
    BY <2>2 DEF FeedbackInv, Feedback!TypeOK, Sub
<1>2. ASSUME NEW s \in Subscribers, s # c
      PROVE  Standing(s)' /\ (sub'[s].st # "absent" => Split(s)')
  <2>1. sub'[s] = sub[s] /\ seen'[s] = seen[s]
    BY <1>2 DEF FeedbackInv, Feedback!TypeOK
  <2> QED
    BY <2>1 DEF FeedbackInv, Standing, Split, Due
<1>3. Ending'
  BY DEF FeedbackInv, Ending
<1> QED
  BY <1>1, <1>2, <1>3 DEF FeedbackInv

LEMMA SubscribeKeeps ==
  ASSUME LastEvent \in Nat, FeedbackInv, NEW c \in Subscribers, Feedback!Subscribe(c) PROVE FeedbackInv'
<1> DEFINE r == [st |-> "draining", todo |-> history, pending |-> <<>>]
<1>1. /\ sub[c] \in Sub /\ seen[c] = <<>> /\ c \notin emitter.calling
      /\ history \in Seq(1..LastEvent) /\ Len(history) \in Nat
  BY DEF FeedbackInv, Feedback!TypeOK, Sub, Standing, Feedback!Subscribe
<1>2. r \in Sub
  BY <1>1, EmptySeq DEF Sub
<1>3. sub' = [sub EXCEPT ![c] = r] /\ sub'[c] = r /\ UNCHANGED <<history, emitter, seen>>
  BY DEF FeedbackInv, Feedback!TypeOK, Feedback!Subscribe
<1>4. seen' = [seen EXCEPT ![c] = seen[c]] /\ seen[c] \in Seq(1..LastEvent)
  BY <1>3 DEF FeedbackInv, Feedback!TypeOK
<1>5. Covers(history, <<>>, history, <<>>, 0)
  BY <1>1 DEF Covers
<1>6. Due(c)' = 0
  BY <1>1, <1>3 DEF Due
<1>7. Standing(c)' /\ Split(c)'
  BY <1>1, <1>3, <1>5, <1>6 DEF Standing, Split
<1> HIDE DEF r
<1> QED
  BY <1>2, <1>3, <1>4, <1>7, OneSubscriber DEF Feedback!Subscribe

LEMMA ReplayKeeps ==
  ASSUME LastEvent \in Nat, FeedbackInv, NEW c \in Subscribers, Feedback!Replay(c) PROVE FeedbackInv'
<1> DEFINE r == [sub[c] EXCEPT !.todo = Tail(@)]
           q == Append(seen[c], Head(sub[c].todo))
<1>1. /\ sub[c] \in Sub /\ seen[c] \in Seq(1..LastEvent) /\ sub[c].todo # <<>>
      /\ sub[c].st = "draining" /\ c \notin emitter.calling /\ Split(c)
  BY DEF FeedbackInv, Feedback!TypeOK, Sub, Standing, Feedback!Replay
<1>2. Covers(history, seen[c], sub[c].todo, sub[c].pending, 0) /\ history \in Seq(1..LastEvent)
  BY <1>1 DEF Split, Due, FeedbackInv, Feedback!TypeOK
<1>3. /\ Head(sub[c].todo) \in 1..LastEvent /\ Tail(sub[c].todo) \in Seq(1..LastEvent)
      /\ Covers(history, q, Tail(sub[c].todo), sub[c].pending, 0)
  BY <1>1, <1>2, CoversReplayed DEF Sub
<1>4. /\ r \in Sub /\ r.todo = Tail(sub[c].todo) /\ r.st = "draining"
      /\ r.pending = sub[c].pending /\ q \in Seq(1..LastEvent)
  BY <1>1, <1>3, AppendProperties DEF Sub
<1>5. sub' = [sub EXCEPT ![c] = r] /\ sub'[c] = r
  BY DEF FeedbackInv, Feedback!TypeOK, Feedback!Replay
<1>6. seen' = [seen EXCEPT ![c] = q] /\ seen'[c] = q
  BY DEF FeedbackInv, Feedback!TypeOK, Feedback!Replay
<1>7. Due(c)' = 0
  BY <1>1 DEF Due, Feedback!Replay
<1> HIDE DEF r, q
<1>8. Split(c)'
  BY <1>3, <1>4, <1>5, <1>6, <1>7 DEF Split, Feedback!Replay
<1>9. Standing(c)'
  BY <1>1, <1>4, <1>5 DEF Standing, Feedback!Replay
<1> QED
  BY <1>4, <1>5, <1>6, <1>8, <1>9, OneSubscriber DEF Feedback!Replay

LEMMA TakeParkedKeeps ==
  ASSUME LastEvent \in Nat, FeedbackInv, NEW c \in Subscribers, Feedback!TakeParked(c) PROVE FeedbackInv'
<1>1. /\ sub[c] \in Sub /\ seen[c] \in Seq(1..LastEvent) /\ sub[c].st = "draining"
      /\ sub[c].todo = <<>> /\ c \notin emitter.calling /\ Split(c)
      /\ UNCHANGED <<feedbackMutex, history, seen, emitter, terminal, waiter, sleeping>>
  BY DEF FeedbackInv, Feedback!TypeOK, Sub, Standing, Feedback!TakeParked
<1>2. seen' = [seen EXCEPT ![c] = seen[c]] /\ seen'[c] = seen[c]
  BY <1>1 DEF FeedbackInv, Feedback!TypeOK
<1>3. CASE sub[c].pending = <<>>
  <2> DEFINE r == [sub[c] EXCEPT !.st = "live"]
  <2>1. r \in Sub /\ r.st = "live" /\ r.todo = <<>> /\ r.pending = <<>>
    BY <1>1, <1>3 DEF Sub
  <2>2. sub' = [sub EXCEPT ![c] = r] /\ sub'[c] = r
    BY <1>3 DEF FeedbackInv, Feedback!TypeOK, Feedback!TakeParked
  <2> HIDE DEF r
  <2>3. Due(c) = 0 /\ Due(c)' = 0
    BY <1>1 DEF Due
  <2>4. Standing(c)' /\ Split(c)'
    BY <1>1, <1>2, <1>3, <2>1, <2>2, <2>3 DEF Standing, Split
  <2> QED
    BY <1>1, <1>2, <2>1, <2>2, <2>4, OneSubscriber
<1>4. CASE sub[c].pending # <<>>
  <2> DEFINE r == [sub[c] EXCEPT !.todo = sub[c].pending, !.pending = <<>>]
  <2>1. r \in Sub /\ r.st = "draining" /\ r.todo = sub[c].pending /\ r.pending = <<>>
    BY <1>1, EmptySeq DEF Sub
  <2>2. sub' = [sub EXCEPT ![c] = r] /\ sub'[c] = r
    BY <1>4 DEF FeedbackInv, Feedback!TypeOK, Feedback!TakeParked
  <2> HIDE DEF r
  <2>3. Due(c) = 0 /\ Due(c)' = 0
    BY <1>1 DEF Due
  <2>4. Covers(history, seen[c], sub[c].pending, <<>>, 0)
    <3>1. Covers(history, seen[c], <<>>, sub[c].pending, 0)
      BY <1>1, <2>3 DEF Split
    <3>2. sub[c].pending \in Seq(1..LastEvent) /\ history \in Seq(1..LastEvent)
      BY <1>1 DEF Sub, FeedbackInv, Feedback!TypeOK
    <3> QED
      BY <1>1, <3>1, <3>2, CoversTaken
  <2>5. Standing(c)' /\ Split(c)'
    BY <1>1, <1>2, <2>1, <2>2, <2>3, <2>4 DEF Standing, Split
  <2> QED
    BY <1>1, <1>2, <2>1, <2>2, <2>5, OneSubscriber
<1> QED
  BY <1>3, <1>4

-----------------------------------------------------------------------------
(* A thread in result().                                                   *)

LEMMA ResultKeeps ==
  ASSUME LastEvent \in Nat, FeedbackInv, NEW w \in Waiters, Feedback!Enter(w) \/ Feedback!Waiter(w) PROVE FeedbackInv'
<1>1. UNCHANGED <<history, sub, seen, emitter, terminal>>
  BY DEF Feedback!Enter, Feedback!Waiter, Feedback!Check, Feedback!Enroll, Feedback!Wake,
     Feedback!TimesOut
<1>2. Feedback!TypeOK'
  <2>1. feedbackMutex' \in Waiters \cup {"free"} /\ sleeping' \in SUBSET Waiters
    BY DEF FeedbackInv, Feedback!TypeOK, Feedback!Enter, Feedback!Waiter, Feedback!Check,
       Feedback!Enroll, Feedback!Wake, Feedback!TimesOut, Feedback!Return
  <2>2. PICK a \in {"idle", "check", "enroll", "asleep", "result", "nothing"} :
          waiter' = [waiter EXCEPT ![w] = a]
    BY DEF Feedback!Enter, Feedback!Waiter, Feedback!Check, Feedback!Enroll, Feedback!Wake,
       Feedback!TimesOut, Feedback!Return
  <2> QED
    BY <1>1, <2>1, <2>2 DEF FeedbackInv, Feedback!TypeOK
<1>3. \A s \in Subscribers : Standing(s)' /\ (sub'[s].st # "absent" => Split(s)')
  BY <1>1 DEF FeedbackInv, Standing, Split, Due
<1>4. Ending'
  <2>1. \A v \in Waiters \ {w} : waiter'[v] = waiter[v]
    BY DEF FeedbackInv, Feedback!TypeOK, Feedback!Enter, Feedback!Waiter, Feedback!Check,
       Feedback!Enroll, Feedback!Wake, Feedback!TimesOut, Feedback!Return
  <2>2. waiter'[w] = "result" => terminal
    BY DEF FeedbackInv, Feedback!TypeOK, Feedback!Enter, Feedback!Waiter, Feedback!Check,
       Feedback!Enroll, Feedback!Wake, Feedback!TimesOut, Feedback!Return
  <2> QED
    BY <1>1, <2>1, <2>2 DEF FeedbackInv, Ending
<1> QED
  BY <1>2, <1>3, <1>4 DEF FeedbackInv

-----------------------------------------------------------------------------
(* Where every event of the history is, whatever the threads' interleaving *)
(* of subscribe(), emit() and result(): before the first step ...          *)
LEMMA FeedbackBegins == Feedback!Init => FeedbackInv
<1> SUFFICES ASSUME Feedback!Init PROVE FeedbackInv
  OBVIOUS
<1>1. Feedback!TypeOK
  <2>1. terminal = (emitter.pc \in {"notify", "done"})
    <3>1. terminal = FALSE /\ emitter.pc \notin {"notify", "done"}
      BY DEF Feedback!Init
    <3>2. (emitter.pc \in {"notify", "done"}) = FALSE
      BY <3>1
    <3> QED
      BY <3>1, <3>2
  <2>2. history \in Seq(1..LastEvent) /\ seen \in [Subscribers -> Seq(1..LastEvent)]
    BY EmptySeq DEF Feedback!Init
  <2>3. sub \in [Subscribers -> Sub]
    BY EmptySeq DEF Feedback!Init, Sub
  <2> QED
    BY <2>1, <2>2, <2>3 DEF Feedback!Init, Feedback!TypeOK, Sub
<1> QED
  BY <1>1 DEF Feedback!Init, FeedbackInv, Standing, Ending

(* ... and after each.                                                     *)
LEMMA FeedbackStep ==
  ASSUME LastEvent \in Nat PROVE FeedbackInv /\ [Feedback!Next]_(Feedback!vars) => FeedbackInv'
<1> SUFFICES ASSUME FeedbackInv, [Feedback!Next]_(Feedback!vars) PROVE FeedbackInv'
  OBVIOUS
<1>1. CASE Feedback!Emitter
  BY <1>1, EmitKeeps, DeliverKeeps, FinishKeeps DEF Feedback!Emitter
<1>2. CASE \E s \in Subscribers : Feedback!Subscribe(s) \/ Feedback!Subscriber(s)
  BY <1>2, SubscribeKeeps, ReplayKeeps, TakeParkedKeeps DEF Feedback!Subscriber
<1>3. CASE \E w \in Waiters : Feedback!Enter(w) \/ Feedback!Waiter(w)
  BY <1>3, ResultKeeps
<1>4. CASE UNCHANGED Feedback!vars
  BY <1>4 DEF Feedback!vars, FeedbackInv, Feedback!TypeOK, Standing, Split, Due, Ending
<1> QED
  BY <1>1, <1>2, <1>3, <1>4 DEF Feedback!Next

(* A subscriber has been given a beginning of the job's history: nothing   *)
(* twice, nothing skipped, nothing early, however late it subscribed.      *)
LEMMA ObserversSeeThePast == FeedbackInv => Feedback!SeenInOrder
<1> SUFFICES ASSUME FeedbackInv, NEW s \in Subscribers PROVE Feedback!IsPrefix(seen[s], history)
  BY DEF Feedback!SeenInOrder
<1>1. seen[s] \in Seq(1..LastEvent) /\ history \in Seq(1..LastEvent) /\ sub[s] \in Sub
  BY DEF FeedbackInv, Feedback!TypeOK, Sub
<1>2. Len(seen[s]) \in Nat /\ Len(history) \in Nat /\ Len(sub[s].todo) \in Nat
      /\ Len(sub[s].pending) \in Nat
  BY <1>1, LenProperties DEF Sub
<1>3. Len(seen[s]) <= Len(history) /\ \A i \in 1..Len(seen[s]) : seen[s][i] = history[i]
  <2>1. CASE sub[s].st = "absent"
    <3>1. seen[s] = <<>>
      BY <2>1 DEF FeedbackInv, Standing
    <3> QED
      BY <1>2, <3>1
  <2>2. CASE sub[s].st # "absent"
    <3>1. Covers(history, seen[s], sub[s].todo, sub[s].pending, Due(s)) /\ Due(s) \in 0..1
      BY <2>2 DEF FeedbackInv, Split, Due
    <3> QED
      <4>1. Len(history) = Len(seen[s]) + Len(sub[s].todo) + Len(sub[s].pending) + Due(s)
        BY <3>1 DEF Covers
      <4>2. \A i \in 1..Len(seen[s]) : seen[s][i] = history[i]
        BY <3>1 DEF Covers
      <4>3. Len(seen[s]) <= Len(history)
        <5>1. PICK n \in Nat, m \in Nat, k \in Nat, d \in 0..1 :
                Len(seen[s]) = n /\ Len(sub[s].todo) = m /\ Len(sub[s].pending) = k
                /\ Due(s) = d
          BY <1>2, <3>1
        <5>2. Len(history) = n + m + k + d
          BY <4>1, <5>1
        <5>3. n <= n + m + k + d
          OBVIOUS
        <5> QED
          BY <5>1, <5>2, <5>3
      <4> QED
        BY <4>2, <4>3
  <2> QED
    BY <2>1, <2>2
<1>4. SubSeq(seen[s], 1, Len(seen[s])) = SubSeq(history, 1, Len(seen[s]))
  BY <1>1, <1>2, <1>3
<1> QED
  BY <1>3, <1>4 DEF Feedback!IsPrefix

(* Every event a subscriber has not been given is on its way to it, also   *)
(* one that was emitted while it replayed.                                 *)
LEMMA NoEventIsLost == FeedbackInv => Feedback!NothingLost
BY DEF FeedbackInv, Split, Covers, Due, Feedback!NothingLost

(* result() returns the result only after the callbacks of the terminal    *)
(* event have returned.                                                    *)
LEMMA ResultsComeLast == FeedbackInv => Feedback!ResultAfterEvents
<1> SUFFICES ASSUME FeedbackInv, NEW w \in Waiters, waiter[w] = "result"
             PROVE  Len(history) = LastEvent /\ emitter.calling = {}
  BY DEF Feedback!ResultAfterEvents
<1>1. terminal
  BY DEF FeedbackInv, Ending
<1>2. emitter.pc \in {"notify", "done"}
  BY <1>1 DEF FeedbackInv, Feedback!TypeOK
<1> QED
  BY <1>2 DEF FeedbackInv, Feedback!TypeOK, Ending

-----------------------------------------------------------------------------


In(t, q) == \E i \in 1..Len(q) : q[i] = t
Apart(q) == \A i, j \in 1..Len(q) : q[i] = q[j] => i = j

(* stop() is under way in this thread.                                     *)
Working(s) == laneStopper[s].pc \notin {"idle", "returned"}

(* One thread does the work of stop(), what it sweeps comes after the      *)
(* worker has exited, and when it is through the worker has.               *)
Shutdown ==
  /\ \A s \in Stoppers : laneStopper[s].pc # "idle" => stopped
  /\ \A s, o \in Stoppers : Working(s) /\ Working(o) => s = o
  /\ \A s \in Stoppers : laneStopper[s].pc \in {"sweep", "cancel", "wake"} => laneWorker.pc = "exited"
  /\ \A s \in Stoppers : laneStopper[s].pc # "cancel" => laneStopper[s].left = <<>>
  /\ stopped /\ (\A s \in Stoppers : ~Working(s)) => laneWorker.pc = "exited"

(* Where the tasks of each fate are.                                       *)
Places ==
  /\ Apart(tasks)
  /\ \A t \in Lane!Tasks : In(t, tasks) => fate[t] = "pushed"
  /\ \A s \in Stoppers : Apart(laneStopper[s].left)
  /\ \A s \in Stoppers : \A t \in Lane!Tasks :
       In(t, laneStopper[s].left) => fate[t] = "pushed" /\ ~In(t, tasks)
  /\ laneWorker.pc = "run" => fate[laneWorker.task] = "running"
  /\ \A t \in Lane!Tasks : fate[t] = "running" => laneWorker.pc = "run" /\ laneWorker.task = t
  /\ \A t \in Lane!Tasks :
       fate[t] = "pushed" => In(t, tasks) \/ \E s \in Stoppers : In(t, laneStopper[s].left)
  /\ \A t \in Lane!Tasks : fate[t] = "cancelled" => stopped
  /\ fate[Probe] # "checked"
  /\ ~started => \A t \in Lane!Tasks : fate[t] = "new"

(* The fates of a task that was handed to the lane.                        *)
TakenFates == {"pushed", "running", "ran", "cancelled"}

(* What drain() and stop() owe to the tasks that were in the lane.         *)
Debts ==
  /\ \A d \in Drainers : \A t \in drainer[d].owed : fate[t] \in TakenFates
  /\ Lane!DrainCoversTheLane
  /\ \A s \in Stoppers : \A t \in laneStopper[s].owed :
       /\ fate[t] \in TakenFates
       /\ laneStopper[s].pc = "cancel" /\ fate[t] = "pushed" => In(t, laneStopper[s].left)
       /\ laneStopper[s].pc \in {"wake", "returned"} => fate[t] \in Lane!Ended

(* The queue holds the ordinary tasks pushed after the n-th, in the order  *)
(* they were pushed.                                                       *)
Lined(q, pushed, n) ==
  /\ \A i \in 1..Len(q) : q[i] \notin Ahead => \E j \in (n + 1)..Len(pushed) : pushed[j] = q[i]
  /\ \A j \in (n + 1)..Len(pushed) : In(pushed[j], q)
  /\ \A a, b \in 1..Len(q) : \A i, j \in 1..Len(pushed) :
       a < b /\ q[a] = pushed[i] /\ q[b] = pushed[j] => i < j

Begins(run, pushed) ==
  Len(run) <= Len(pushed) /\ \A i \in 1..Len(run) : run[i] = pushed[i]

(* The ordinary tasks that were pushed, against those that are still to    *)
(* run while the worker lives.                                             *)
Sequel ==
  /\ Begins(order.run, order.pushed)
  /\ Apart(order.pushed)
  /\ \A i \in 1..Len(order.pushed) :
       order.pushed[i] \notin Ahead /\ fate[order.pushed[i]] \in TakenFates
  /\ \A i \in 1..Len(order.pushed) : order.pushed[i] = Probe => i = 1
  /\ ~started => order.pushed = <<>>
  /\ laneWorker.pc # "exited" => Lined(tasks, order.pushed, Len(order.run))

LaneInv == Lane!TypeOK /\ Shutdown /\ Places /\ Debts /\ Sequel

-----------------------------------------------------------------------------
(* The lane: its queues.                                                   *)

LEMMA Behind ==
  ASSUME NEW S, NEW q \in Seq(S), NEW t \in S
  PROVE  /\ Append(q, t) \in Seq(S)
         /\ \A u : In(u, Append(q, t)) <=> u = t \/ In(u, q)
         /\ Apart(q) /\ ~In(t, q) => Apart(Append(q, t))
<1> DEFINE p == Append(q, t)
<1>1. /\ p \in Seq(S) /\ Len(p) = Len(q) + 1 /\ p[Len(q) + 1] = t
      /\ \A i \in 1..Len(q) : p[i] = q[i]
  BY AppendProperties
<1>2. Len(q) \in Nat
  BY LenProperties
<1> HIDE DEF p
<1>3. \A u : In(u, p) <=> u = t \/ In(u, q)
  <2> SUFFICES ASSUME NEW u PROVE In(u, p) <=> u = t \/ In(u, q)
    OBVIOUS
  <2>1. ASSUME NEW i \in 1..Len(p), p[i] = u PROVE u = t \/ In(u, q)
    <3>1. CASE i = Len(q) + 1
      BY <1>1, <2>1, <3>1
    <3>2. CASE i \in 1..Len(q)
      BY <1>1, <2>1, <3>2 DEF In
    <3> QED
      BY <1>1, <1>2, <3>1, <3>2
  <2>2. In(t, p)
    <3>1. Len(q) + 1 \in 1..Len(p)
      BY <1>1, <1>2
    <3> QED
      BY <1>1, <3>1 DEF In
  <2>3. ASSUME NEW i \in 1..Len(q), q[i] = u PROVE In(u, p)
    <3>1. i \in 1..Len(p)
      BY <1>1, <1>2
    <3> QED
      BY <1>1, <2>3, <3>1 DEF In
  <2> QED
    BY <2>1, <2>2, <2>3 DEF In
<1>4. ASSUME Apart(q), ~In(t, q) PROVE Apart(p)
  <2> SUFFICES ASSUME NEW i \in 1..Len(p), NEW j \in 1..Len(p), p[i] = p[j] PROVE i = j
    BY DEF Apart
  <2>1. CASE i \in 1..Len(q) /\ j \in 1..Len(q)
    BY <1>1, <1>4, <2>1 DEF Apart
  <2>2. CASE i = Len(q) + 1 /\ j \in 1..Len(q)
    BY <1>1, <1>4, <2>2 DEF In
  <2>3. CASE i \in 1..Len(q) /\ j = Len(q) + 1
    BY <1>1, <1>4, <2>3 DEF In
  <2> QED
    BY <1>1, <1>2, <2>1, <2>2, <2>3
<1> QED
  BY <1>1, <1>3, <1>4 DEF p

LEMMA InFront ==
  ASSUME NEW S, NEW q \in Seq(S), NEW t \in S
  PROVE  /\ <<t>> \o q \in Seq(S)
         /\ Len(<<t>> \o q) = Len(q) + 1 /\ (<<t>> \o q)[1] = t
         /\ \A i \in 1..Len(q) : (<<t>> \o q)[i + 1] = q[i]
         /\ \A i \in 2..(Len(q) + 1) : (<<t>> \o q)[i] = q[i - 1]
         /\ \A u : In(u, <<t>> \o q) <=> u = t \/ In(u, q)
         /\ Apart(q) /\ ~In(t, q) => Apart(<<t>> \o q)
<1> DEFINE p == <<t>> \o q
<1>1. <<t>> \in Seq(S) /\ Len(<<t>>) = 1 /\ <<t>>[1] = t /\ Len(q) \in Nat
  BY LenProperties
<1>2. p \in Seq(S) /\ Len(p) = Len(q) + 1
  BY <1>1, ConcatProperties
<1>3. /\ p[1] = t
      /\ \A i \in 2..(Len(q) + 1) : p[i] = q[i - 1]
  BY <1>1, ConcatProperties
<1> HIDE DEF p
<1>4. \A i \in 1..Len(q) : p[i + 1] = q[i]
  <2> SUFFICES ASSUME NEW i \in 1..Len(q) PROVE p[i + 1] = q[i]
    OBVIOUS
  <2>1. i + 1 \in 2..(Len(q) + 1) /\ (i + 1) - 1 = i
    BY <1>1
  <2> QED
    BY <1>3, <2>1
<1>5. \A u : In(u, p) <=> u = t \/ In(u, q)
  <2> SUFFICES ASSUME NEW u PROVE In(u, p) <=> u = t \/ In(u, q)
    OBVIOUS
  <2>1. ASSUME NEW i \in 1..Len(p), p[i] = u PROVE u = t \/ In(u, q)
    <3>1. CASE i = 1
      BY <1>3, <2>1, <3>1
    <3>2. CASE i \in 2..(Len(q) + 1)
      <4>1. i - 1 \in 1..Len(q)
        BY <1>1, <3>2
      <4> QED
        BY <1>3, <2>1, <3>2, <4>1 DEF In
    <3> QED
      BY <1>1, <1>2, <3>1, <3>2
  <2>2. In(t, p)
    <3>1. 1 \in 1..Len(p)
      BY <1>1, <1>2
    <3> QED
      BY <1>3, <3>1 DEF In
  <2>3. ASSUME NEW i \in 1..Len(q), q[i] = u PROVE In(u, p)
    <3>1. i + 1 \in 1..Len(p)
      BY <1>1, <1>2
    <3> QED
      BY <1>4, <2>3, <3>1 DEF In
  <2> QED
    BY <2>1, <2>2, <2>3 DEF In
<1>6. ASSUME Apart(q), ~In(t, q) PROVE Apart(p)
  <2> SUFFICES ASSUME NEW i \in 1..Len(p), NEW j \in 1..Len(p), p[i] = p[j] PROVE i = j
    BY DEF Apart
  <2>1. \A k \in 2..(Len(q) + 1) : k - 1 \in 1..Len(q) /\ p[k] = q[k - 1]
    BY <1>1, <1>3
  <2>2. CASE i # 1 /\ j # 1
    <3>1. i - 1 \in 1..Len(q) /\ j - 1 \in 1..Len(q) /\ q[i - 1] = q[j - 1]
      BY <1>1, <1>2, <2>1, <2>2
    <3>2. i - 1 = j - 1
      BY <1>6, <3>1 DEF Apart
    <3> QED
      BY <1>1, <1>2, <3>2
  <2>3. CASE i = 1 /\ j # 1
    <3>1. j - 1 \in 1..Len(q) /\ q[j - 1] = t
      BY <1>1, <1>2, <1>3, <2>1, <2>3
    <3> QED
      BY <1>6, <3>1 DEF In
  <2>4. CASE i # 1 /\ j = 1
    <3>1. i - 1 \in 1..Len(q) /\ q[i - 1] = t
      BY <1>1, <1>2, <1>3, <2>1, <2>4
    <3> QED
      BY <1>6, <3>1 DEF In
  <2> QED
    BY <2>2, <2>3, <2>4
<1> QED
  BY <1>2, <1>3, <1>4, <1>5, <1>6 DEF p

LEMMA Popped ==
  ASSUME NEW S, NEW q \in Seq(S), q # <<>>
  PROVE  /\ Head(q) \in S /\ Tail(q) \in Seq(S) /\ Head(q) = q[1] /\ In(Head(q), q)
         /\ Len(q) \in Nat \ {0} /\ Len(Tail(q)) = Len(q) - 1
         /\ \A i \in 1..Len(Tail(q)) : Tail(q)[i] = q[i + 1] /\ i + 1 \in 2..Len(q)
         /\ \A i \in 2..Len(q) : i - 1 \in 1..Len(Tail(q)) /\ Tail(q)[i - 1] = q[i]
         /\ \A u : In(u, q) <=> u = Head(q) \/ In(u, Tail(q))
         /\ Apart(q) => Apart(Tail(q)) /\ ~In(Head(q), Tail(q))
<1> DEFINE p == Tail(q)
           h == Head(q)
<1>1. Len(q) \in Nat \ {0}
  BY LenProperties, EmptySeq
<1>2. h \in S /\ p \in Seq(S) /\ h = q[1] /\ Len(p) = Len(q) - 1
  BY <1>1
<1>3. \A i \in 1..(Len(q) - 1) : p[i] = q[i + 1]
  BY <1>1
<1> HIDE DEF p, h
<1>4. \A i \in 1..Len(p) : p[i] = q[i + 1] /\ i + 1 \in 2..Len(q)
  BY <1>1, <1>2, <1>3
<1>5. \A i \in 2..Len(q) : i - 1 \in 1..Len(p) /\ p[i - 1] = q[i]
  <2> SUFFICES ASSUME NEW i \in 2..Len(q) PROVE i - 1 \in 1..Len(p) /\ p[i - 1] = q[i]
    OBVIOUS
  <2>1. i - 1 \in 1..Len(p) /\ (i - 1) + 1 = i
    BY <1>1, <1>2
  <2> QED
    BY <1>4, <2>1
<1>6. In(h, q)
  <2>1. 1 \in 1..Len(q)
    BY <1>1
  <2> QED
    BY <1>2, <2>1 DEF In
<1>7. ASSUME NEW u PROVE In(u, q) <=> u = h \/ In(u, p)
  <2>1. ASSUME NEW i \in 1..Len(q), q[i] = u PROVE u = h \/ In(u, p)
    <3>1. CASE i = 1
      BY <1>2, <2>1, <3>1
    <3>2. CASE i \in 2..Len(q)
      BY <1>5, <2>1, <3>2 DEF In
    <3> QED
      BY <1>1, <3>1, <3>2
  <2>2. ASSUME NEW i \in 1..Len(p), p[i] = u PROVE In(u, q)
    <3>1. i + 1 \in 1..Len(q) /\ q[i + 1] = u
      BY <1>1, <1>2, <1>4, <2>2
    <3> QED
      BY <3>1 DEF In
  <2> QED
    BY <1>6, <2>1, <2>2 DEF In
<1>8. ASSUME Apart(q) PROVE Apart(p) /\ ~In(h, p)
  <2>1. ASSUME NEW i \in 1..Len(p), NEW j \in 1..Len(p), p[i] = p[j] PROVE i = j
    <3>1. q[i + 1] = q[j + 1] /\ i + 1 \in 1..Len(q) /\ j + 1 \in 1..Len(q)
      BY <1>1, <1>4, <2>1
    <3>2. i + 1 = j + 1
      BY <1>8, <3>1 DEF Apart
    <3> QED
      BY <1>1, <1>2, <3>2
  <2>2. ASSUME NEW i \in 1..Len(p), p[i] = h PROVE FALSE
    <3>1. q[i + 1] = q[1] /\ i + 1 \in 1..Len(q) /\ 1 \in 1..Len(q)
      BY <1>1, <1>2, <1>4, <2>2
    <3>2. i + 1 = 1
      BY <1>8, <3>1 DEF Apart
    <3> QED
      BY <1>1, <1>2, <3>2
  <2> QED
    BY <2>1, <2>2 DEF Apart, In
<1> QED
  BY <1>1, <1>2, <1>4, <1>5, <1>6, <1>7, <1>8 DEF p, h

LEMMA NoneInEmpty == \A t : ~In(t, <<>>)
BY DEF In

-----------------------------------------------------------------------------
(* The queue against the order of the ordinary tasks.                      *)

LEMMA WaitingBehind ==
  ASSUME NEW S, NEW q \in Seq(S), NEW pushed \in Seq(S), NEW n \in 0..Len(pushed),
         NEW t \in S, ~In(t, q), ~In(t, pushed), Lined(q, pushed, n)
  PROVE  Lined(Append(q, t), Append(pushed, t), n)
<1> DEFINE p == Append(q, t)
           o == Append(pushed, t)
<1>1. /\ Len(p) = Len(q) + 1 /\ p[Len(q) + 1] = t
      /\ \A i \in 1..Len(q) : p[i] = q[i]
  BY AppendProperties
<1>2. /\ Len(o) = Len(pushed) + 1 /\ o[Len(pushed) + 1] = t
      /\ \A i \in 1..Len(pushed) : o[i] = pushed[i]
  BY AppendProperties
<1>3. Len(q) \in Nat /\ Len(pushed) \in Nat
  BY LenProperties
<1>4. \A u : In(u, p) <=> u = t \/ In(u, q)
  BY Behind
<1> HIDE DEF p, o
<1>5. ASSUME NEW i \in 1..Len(p), p[i] \notin Ahead
      PROVE  \E j \in (n + 1)..Len(o) : o[j] = p[i]
  <2>1. CASE i = Len(q) + 1
    <3>1. Len(pushed) + 1 \in (n + 1)..Len(o)
      BY <1>2, <1>3
    <3> QED
      BY <1>1, <1>2, <2>1, <3>1
  <2>2. CASE i \in 1..Len(q)
    <3>1. PICK j \in (n + 1)..Len(pushed) : pushed[j] = q[i]
      BY <1>1, <1>5, <2>2 DEF Lined
    <3>2. j \in (n + 1)..Len(o) /\ j \in 1..Len(pushed)
      BY <1>2, <1>3
    <3> QED
      BY <1>1, <1>2, <2>2, <3>1, <3>2
  <2> QED
    BY <1>1, <1>3, <2>1, <2>2
<1>6. ASSUME NEW j \in (n + 1)..Len(o) PROVE In(o[j], p)
  <2>1. CASE j = Len(pushed) + 1
    BY <1>2, <1>4, <2>1
  <2>2. CASE j \in (n + 1)..Len(pushed)
    <3>1. j \in 1..Len(pushed) /\ In(pushed[j], q)
      BY <1>3, <2>2 DEF Lined
    <3> QED
      BY <1>2, <1>4, <3>1
  <2> QED
    BY <1>2, <1>3, <2>1, <2>2
<1>7. ASSUME NEW a \in 1..Len(p), NEW b \in 1..Len(p), NEW i \in 1..Len(o), NEW j \in 1..Len(o),
             a < b, p[a] = o[i], p[b] = o[j]
      PROVE  i < j
  <2>1. a \in 1..Len(q) /\ p[a] = q[a] /\ p[a] # t
    BY <1>1, <1>3, <1>7 DEF In
  <2>2. i \in 1..Len(pushed) /\ o[i] = pushed[i]
    <3>1. o[i] # t
      BY <1>7, <2>1
    <3>2. i # Len(pushed) + 1
      BY <1>2, <3>1
    <3> QED
      BY <1>2, <1>3, <3>2
  <2>3. CASE b \in 1..Len(q)
    <3>1. p[b] = q[b] /\ p[b] # t
      BY <1>1, <2>3 DEF In
    <3>2. j \in 1..Len(pushed) /\ o[j] = pushed[j]
      <4>1. o[j] # t
        BY <1>7, <3>1
      <4>2. j # Len(pushed) + 1
        BY <1>2, <4>1
      <4> QED
        BY <1>2, <1>3, <4>2
    <3> QED
      BY <1>7, <2>1, <2>2, <2>3, <3>1, <3>2 DEF Lined
  <2>4. CASE b = Len(q) + 1
    <3>1. o[j] = t
      BY <1>1, <1>7, <2>4
    <3>2. j = Len(pushed) + 1
      BY <1>2, <1>3, <3>1 DEF In
    <3> QED
      BY <1>3, <2>2, <3>2
  <2> QED
    BY <1>1, <1>3, <2>3, <2>4
<1>8. Lined(p, o, n)
  BY <1>5, <1>6, <1>7 DEF Lined
<1> QED
  BY <1>8 DEF p, o

LEMMA WaitingInFront ==
  ASSUME NEW S, NEW q \in Seq(S), NEW pushed \in Seq(S), NEW n \in 0..Len(pushed),
         NEW t \in S, t \in Ahead, ~In(t, pushed), Lined(q, pushed, n)
  PROVE  Lined(<<t>> \o q, pushed, n)
<1> DEFINE p == <<t>> \o q
<1>1. /\ Len(p) = Len(q) + 1 /\ p[1] = t
      /\ \A i \in 2..(Len(q) + 1) : p[i] = q[i - 1]
      /\ \A u : In(u, p) <=> u = t \/ In(u, q)
  BY InFront
<1>2. Len(q) \in Nat /\ Len(pushed) \in Nat
  BY LenProperties
<1> HIDE DEF p
<1>3. \A i \in 2..Len(p) : i - 1 \in 1..Len(q) /\ p[i] = q[i - 1]
  BY <1>1, <1>2
<1>4. ASSUME NEW i \in 1..Len(p), p[i] \notin Ahead
      PROVE  \E j \in (n + 1)..Len(pushed) : pushed[j] = p[i]
  <2>1. i \in 2..Len(p)
    BY <1>1, <1>2, <1>4
  <2> QED
    BY <1>3, <1>4, <2>1 DEF Lined
<1>5. ASSUME NEW j \in (n + 1)..Len(pushed) PROVE In(pushed[j], p)
  BY <1>1 DEF Lined
<1>6. ASSUME NEW a \in 1..Len(p), NEW b \in 1..Len(p),
             NEW i \in 1..Len(pushed), NEW j \in 1..Len(pushed),
             a < b, p[a] = pushed[i], p[b] = pushed[j]
      PROVE  i < j
  <2>1. a # 1
    BY <1>1, <1>6 DEF In
  <2>2. /\ a \in 2..Len(p) /\ b \in 2..Len(p) /\ a - 1 < b - 1
    BY <1>1, <1>2, <1>6, <2>1
  <2>3. q[a - 1] = pushed[i] /\ q[b - 1] = pushed[j]
        /\ a - 1 \in 1..Len(q) /\ b - 1 \in 1..Len(q)
    BY <1>3, <1>6, <2>2
  <2> QED
    BY <2>2, <2>3, SMTT(30) DEF Lined
<1>7. Lined(p, pushed, n)
  BY <1>4, <1>5, <1>6 DEF Lined
<1> QED
  BY <1>7 DEF p

LEMMA WaitingTail ==
  ASSUME NEW S, NEW q \in Seq(S), NEW pushed, NEW n, q # <<>>, Lined(q, pushed, n)
  PROVE  \A a, b \in 1..Len(Tail(q)) : \A i, j \in 1..Len(pushed) :
           a < b /\ Tail(q)[a] = pushed[i] /\ Tail(q)[b] = pushed[j] => i < j
<1> SUFFICES ASSUME NEW a \in 1..Len(Tail(q)), NEW b \in 1..Len(Tail(q)),
                    NEW i \in 1..Len(pushed), NEW j \in 1..Len(pushed),
                    a < b, Tail(q)[a] = pushed[i], Tail(q)[b] = pushed[j]
             PROVE  i < j
  OBVIOUS
<1>1. /\ q[a + 1] = pushed[i] /\ a + 1 \in 2..Len(q)
      /\ q[b + 1] = pushed[j] /\ b + 1 \in 2..Len(q) /\ Len(q) \in Nat
      /\ Len(Tail(q)) = Len(q) - 1
  BY Popped
<1>2. a + 1 \in 1..Len(q) /\ b + 1 \in 1..Len(q) /\ a + 1 < b + 1
  BY <1>1
<1> QED
  BY <1>1, <1>2 DEF Lined

LEMMA WaitingSkipped ==
  ASSUME NEW S, NEW q \in Seq(S), NEW pushed \in Seq(S), NEW n \in 0..Len(pushed),
         q # <<>>, Head(q) \in Ahead, ~In(Head(q), pushed), Lined(q, pushed, n)
  PROVE  Lined(Tail(q), pushed, n)
<1>1. /\ \A i \in 1..Len(Tail(q)) : Tail(q)[i] = q[i + 1] /\ i + 1 \in 2..Len(q)
      /\ \A u : In(u, q) <=> u = Head(q) \/ In(u, Tail(q))
      /\ Len(q) \in Nat
  BY Popped
<1>2. Len(pushed) \in Nat
  BY LenProperties
<1>3. ASSUME NEW i \in 1..Len(Tail(q)), Tail(q)[i] \notin Ahead
      PROVE  \E j \in (n + 1)..Len(pushed) : pushed[j] = Tail(q)[i]
  <2>1. Tail(q)[i] = q[i + 1] /\ i + 1 \in 1..Len(q)
    BY <1>1
  <2> QED
    BY <1>3, <2>1 DEF Lined
<1>4. ASSUME NEW j \in (n + 1)..Len(pushed) PROVE In(pushed[j], Tail(q))
  <2>1. j \in 1..Len(pushed) /\ In(pushed[j], q)
    BY <1>2 DEF Lined
  <2> QED
    BY <1>1, <2>1 DEF In
<1> QED
  BY <1>3, <1>4, WaitingTail DEF Lined

LEMMA WaitingTaken ==
  ASSUME NEW S, NEW q \in Seq(S), NEW pushed \in Seq(S), NEW n \in 0..Len(pushed),
         q # <<>>, Head(q) \notin Ahead, Apart(q), Apart(pushed), Lined(q, pushed, n)
  PROVE  /\ n + 1 \in 1..Len(pushed) /\ pushed[n + 1] = Head(q)
         /\ Lined(Tail(q), pushed, n + 1)
<1> DEFINE h == Head(q)
<1>1. /\ \A i \in 1..Len(Tail(q)) : Tail(q)[i] = q[i + 1] /\ i + 1 \in 2..Len(q)
      /\ \A u : In(u, q) <=> u = h \/ In(u, Tail(q))
      /\ Len(q) \in Nat \ {0} /\ h = q[1] /\ ~In(h, Tail(q))
  BY Popped
<1>2. Len(pushed) \in Nat /\ n \in Nat
  BY LenProperties
<1>3. PICK k \in (n + 1)..Len(pushed) : pushed[k] = h
  <2>1. 1 \in 1..Len(q)
    BY <1>1
  <2> QED
    BY <1>1, <2>1 DEF Lined
<1> HIDE DEF h
<1>4. k \in 1..Len(pushed) /\ n + 1 \in 1..Len(pushed) /\ n + 1 \in (n + 1)..Len(pushed)
  BY <1>2
<1>5. k = n + 1
  <2> SUFFICES ASSUME k # n + 1 PROVE FALSE
    OBVIOUS
  <2>1. PICK b \in 1..Len(q) : q[b] = pushed[n + 1]
    BY <1>4 DEF Lined, In
  <2>2. b # 1
    BY <1>1, <1>3, <1>4, <2>1 DEF Apart
  <2>3. 1 \in 1..Len(q) /\ 1 < b
    BY <1>1, <2>2
  <2>4. k < n + 1
    BY <1>1, <1>3, <1>4, <2>1, <2>3 DEF Lined
  <2> QED
    BY <1>2, <2>4
<1>6. ASSUME NEW i \in 1..Len(Tail(q)), Tail(q)[i] \notin Ahead
      PROVE  \E j \in ((n + 1) + 1)..Len(pushed) : pushed[j] = Tail(q)[i]
  <2>1. Tail(q)[i] = q[i + 1] /\ i + 1 \in 1..Len(q) /\ Tail(q)[i] # h
    BY <1>1 DEF In
  <2>2. PICK j \in (n + 1)..Len(pushed) : pushed[j] = q[i + 1]
    BY <1>6, <2>1 DEF Lined
  <2>3. j # n + 1
    BY <1>3, <1>5, <2>1, <2>2
  <2>4. j \in ((n + 1) + 1)..Len(pushed)
    BY <1>2, <2>3
  <2> QED
    BY <2>1, <2>2, <2>4
<1>7. ASSUME NEW j \in ((n + 1) + 1)..Len(pushed) PROVE In(pushed[j], Tail(q))
  <2>1. j \in (n + 1)..Len(pushed) /\ j \in 1..Len(pushed) /\ j # n + 1
    BY <1>2
  <2>2. In(pushed[j], q) /\ pushed[j] # h
    BY <1>3, <1>4, <1>5, <2>1 DEF Lined, Apart
  <2> QED
    BY <1>1, <2>2
<1>8. Lined(Tail(q), pushed, n + 1)
  BY <1>6, <1>7, WaitingTail DEF Lined
<1> QED
  BY <1>3, <1>4, <1>5, <1>8 DEF h

-----------------------------------------------------------------------------
(* Types.                                                                  *)

WorkerPcs == {"lock", "check", "enroll", "asleep", "run", "clear", "notify", "exited"}
StopperPcs == {"idle", "store", "notify", "join", "sweep", "cancel", "wake", "returned"}
StopperType == [pc : StopperPcs, left : Seq(Lane!Tasks), owed : SUBSET Lane!Tasks]

(* The worker's place as an enqueue or a stop leaves it.                   *)
LEMMA WakeWorkerPlace ==
  ASSUME Lane!TypeOK, Lane!WakeWorker
  PROVE  /\ laneWorker' \in [pc : WorkerPcs, task : Lane!Tasks] /\ laneWorker'.task = laneWorker.task
         /\ laneWorker.pc # "asleep" => laneWorker'.pc = laneWorker.pc
         /\ laneWorker.pc = "asleep" => laneWorker'.pc = "lock"
<1>1. laneWorker \in [pc : WorkerPcs, task : Lane!Tasks]
  BY DEF Lane!TypeOK, WorkerPcs
<1>2. CASE laneWorker.pc = "asleep"
  <2>1. laneWorker' = [laneWorker EXCEPT !.pc = "lock"]
    BY <1>2 DEF Lane!WakeWorker
  <2> QED
    BY <1>1, <1>2, <2>1 DEF WorkerPcs
<1>3. CASE laneWorker.pc # "asleep"
  BY <1>1, <1>3 DEF Lane!WakeWorker
<1> QED
  BY <1>2, <1>3

LEMMA QueuedTasks ==
  ASSUME Lane!TypeOK, NEW t \in Lane!Tasks
  PROVE  /\ Lane!Queued(t) \in Seq(Lane!Tasks)
         /\ \A u : In(u, Lane!Queued(t)) <=> u = t \/ In(u, tasks)
         /\ Apart(tasks) /\ ~In(t, tasks) => Apart(Lane!Queued(t))
<1>1. tasks \in Seq(Lane!Tasks)
  BY DEF Lane!TypeOK
<1>2. CASE t \in Ahead
  BY <1>1, <1>2, InFront DEF Lane!Queued
<1>3. CASE t \notin Ahead
  BY <1>1, <1>3, Behind DEF Lane!Queued
<1> QED
  BY <1>2, <1>3

(* active_ as the worker's place has it.                                   *)
ActiveOK == active = (laneWorker.pc \in {"run", "clear"})

LEMMA ActiveStays ==
  ASSUME ActiveOK, UNCHANGED active,
         laneWorker'.pc \in {"run", "clear"} <=> laneWorker.pc \in {"run", "clear"}
  PROVE  ActiveOK'
<1>1. (laneWorker'.pc \in {"run", "clear"}) = (laneWorker.pc \in {"run", "clear"})
  OBVIOUS
<1> QED
  BY <1>1 DEF ActiveOK

LEMMA ActiveSet ==
  ASSUME active' = TRUE, laneWorker'.pc \in {"run", "clear"} PROVE ActiveOK'
<1>1. (laneWorker'.pc \in {"run", "clear"}) = TRUE
  OBVIOUS
<1> QED
  BY <1>1 DEF ActiveOK

LEMMA ActiveCleared ==
  ASSUME active' = FALSE, laneWorker'.pc \notin {"run", "clear"} PROVE ActiveOK'
<1>1. (laneWorker'.pc \in {"run", "clear"}) = FALSE
  OBVIOUS
<1> QED
  BY <1>1 DEF ActiveOK

LEMMA EnqueueType ==
  ASSUME Lane!TypeOK, NEW t \in Lane!Tasks, Lane!Enqueue(t),
         UNCHANGED <<laneMutex, stopped, stopping, active, drainer, laneStopper>>, started' \in BOOLEAN
  PROVE  Lane!TypeOK'
<1>1. tasks' \in Seq(Lane!Tasks)
  BY QueuedTasks DEF Lane!Enqueue
<1>2. fate' \in [Lane!Tasks -> Lane!Fates]
  BY DEF Lane!TypeOK, Lane!Enqueue, Lane!Fates
<1>3. order' \in [pushed : Seq(Lane!Tasks), run : Seq(Lane!Tasks)]
  <2>1. order \in [pushed : Seq(Lane!Tasks), run : Seq(Lane!Tasks)]
    BY DEF Lane!TypeOK
  <2>2. CASE t \in Ahead
    BY <2>1, <2>2 DEF Lane!Enqueue
  <2>3. CASE t \notin Ahead
    <3>1. PICK p : p = Append(order.pushed, t)
      OBVIOUS
    <3>2. p \in Seq(Lane!Tasks) /\ order' = [order EXCEPT !.pushed = p]
      BY <2>1, <2>3, <3>1, AppendProperties DEF Lane!Enqueue
    <3> QED
      BY <2>1, <3>2
  <2> QED
    BY <2>2, <2>3
<1>4. laneWorker' \in [pc : WorkerPcs, task : Lane!Tasks] /\ ActiveOK'
  <2>1. ActiveOK
    BY DEF Lane!TypeOK, ActiveOK
  <2> QED
    BY <2>1, WakeWorkerPlace, ActiveStays DEF Lane!Enqueue
<1> QED
  BY <1>1, <1>2, <1>3, <1>4 DEF Lane!TypeOK, ActiveOK, WorkerPcs

LEMMA WakeDrainersPlace ==
  ASSUME Lane!TypeOK, Lane!WakeDrainers, NEW d \in Drainers
  PROVE  /\ drainer'[d].pc \in {"idle", "lock", "check", "enroll", "asleep", "returned"}
         /\ drainer'[d] = [pc |-> drainer'[d].pc, owed |-> drainer[d].owed]
         /\ drainer'[d].owed = drainer[d].owed
         /\ drainer'[d].pc = "returned" => drainer[d].pc = "returned"
<1>1. drainer[d] \in [pc : {"idle", "lock", "check", "enroll", "asleep", "returned"},
                     owed : SUBSET Lane!Tasks]
  BY DEF Lane!TypeOK
<1>2. CASE drainer[d].pc = "asleep"
  <2>1. drainer'[d] = [drainer[d] EXCEPT !.pc = "lock"]
    BY <1>2 DEF Lane!WakeDrainers
  <2> QED
    BY <1>1, <2>1
<1>3. CASE drainer[d].pc # "asleep"
  BY <1>1, <1>3 DEF Lane!WakeDrainers
<1> QED
  BY <1>2, <1>3

LEMMA WakeDrainersType ==
  ASSUME Lane!TypeOK, Lane!WakeDrainers
  PROVE  drainer' \in [Drainers -> [pc : {"idle", "lock", "check", "enroll", "asleep", "returned"},
                                   owed : SUBSET Lane!Tasks]]
<1> DEFINE D == [pc : {"idle", "lock", "check", "enroll", "asleep", "returned"}, owed : SUBSET Lane!Tasks]
<1>1. ASSUME NEW d \in Drainers PROVE drainer'[d] \in D
  <2>1. drainer[d].owed \in SUBSET Lane!Tasks
    BY DEF Lane!TypeOK
  <2>2. PICK pc \in {"idle", "lock", "check", "enroll", "asleep", "returned"},
             o \in SUBSET Lane!Tasks : drainer'[d] = [pc |-> pc, owed |-> o]
    <3>1. /\ drainer'[d].pc \in {"idle", "lock", "check", "enroll", "asleep", "returned"}
          /\ drainer'[d] = [pc |-> drainer'[d].pc, owed |-> drainer[d].owed]
      BY WakeDrainersPlace
    <3> QED
      BY <2>1, <3>1, Zenon
  <2> QED
    BY <2>2
<1>2. drainer' = [d \in Drainers |-> drainer'[d]]
  BY DEF Lane!WakeDrainers
<1> HIDE DEF D
<1>3. drainer' \in [Drainers -> D]
  BY <1>1, <1>2
<1> QED
  BY <1>3 DEF D

LEMMA WorkerType == ASSUME Lane!TypeOK, Lane!Worker PROVE Lane!TypeOK'
<1>1. laneWorker \in [pc : WorkerPcs, task : Lane!Tasks] /\ ActiveOK
  BY DEF Lane!TypeOK, WorkerPcs, ActiveOK
<1>2. CASE Lane!Lock \/ Lane!Enroll \/ Lane!NotifyIdle
  <2>1. laneWorker' \in [pc : WorkerPcs, task : Lane!Tasks]
        /\ laneWorker'.pc \notin {"run", "clear"} /\ laneWorker.pc \notin {"run", "clear"}
    BY <1>1, <1>2 DEF Lane!Lock, Lane!Enroll, Lane!NotifyIdle, WorkerPcs
  <2>2. ActiveOK'
    BY <1>1, <1>2, <2>1, ActiveStays DEF Lane!Lock, Lane!Enroll, Lane!NotifyIdle
  <2>3. drainer' \in [Drainers -> [pc : {"idle", "lock", "check", "enroll", "asleep", "returned"},
                                   owed : SUBSET Lane!Tasks]]
    BY <1>2, WakeDrainersType DEF Lane!TypeOK, Lane!Lock, Lane!Enroll, Lane!NotifyIdle
  <2> QED
    BY <1>2, <2>1, <2>2, <2>3 DEF Lane!TypeOK, ActiveOK, WorkerPcs, Lane!Lock, Lane!Enroll,
       Lane!NotifyIdle
<1>3. CASE Lane!Run
  <2>1. laneWorker' \in [pc : WorkerPcs, task : Lane!Tasks] /\ laneWorker'.pc = "clear" /\ laneWorker.pc = "run"
    BY <1>1, <1>3 DEF Lane!Run, WorkerPcs
  <2>2. ActiveOK'
    BY <1>1, <1>3, <2>1, ActiveStays DEF Lane!Run
  <2>3. fate' \in [Lane!Tasks -> Lane!Fates]
    BY <1>3 DEF Lane!TypeOK, Lane!Run, Lane!Fates, Lane!Ended
  <2> QED
    BY <1>3, <2>1, <2>2, <2>3 DEF Lane!TypeOK, ActiveOK, WorkerPcs, Lane!Run
<1>4. CASE Lane!ClearActive
  <2>1. laneWorker' \in [pc : WorkerPcs, task : Lane!Tasks] /\ laneWorker'.pc = "notify"
    BY <1>1, <1>4 DEF Lane!ClearActive, WorkerPcs
  <2>2. ActiveOK'
    BY <1>4, <2>1, ActiveCleared DEF Lane!ClearActive
  <2> QED
    BY <1>4, <2>1, <2>2 DEF Lane!TypeOK, ActiveOK, WorkerPcs, Lane!ClearActive
<1>5. CASE Lane!Check
  <2>1. CASE UNCHANGED <<tasks, active, fate, order>> /\ laneMutex' \in {"free", laneMutex}
             /\ (laneWorker' = [laneWorker EXCEPT !.pc = "exited"] \/ laneWorker' = [laneWorker EXCEPT !.pc = "enroll"])
    <3>1. laneWorker' \in [pc : WorkerPcs, task : Lane!Tasks] /\ laneWorker'.pc \notin {"run", "clear"}
      BY <1>1, <2>1 DEF WorkerPcs
    <3>2. ActiveOK'
      BY <1>1, <1>5, <2>1, <3>1, ActiveStays DEF Lane!Check
    <3> QED
      BY <1>5, <2>1, <3>1, <3>2 DEF Lane!TypeOK, ActiveOK, WorkerPcs, Lane!Check
  <2>2. CASE /\ tasks # <<>> /\ tasks' = Tail(tasks) /\ active' = TRUE /\ laneMutex' = "free"
             /\ laneWorker' = [pc |-> "run", task |-> Head(tasks)]
             /\ fate' = [fate EXCEPT ![Head(tasks)] = "running"]
             /\ order' = IF Head(tasks) \in Ahead THEN order
                         ELSE [order EXCEPT !.run = Append(@, Head(tasks))]
    <3>1. Head(tasks) \in Lane!Tasks /\ tasks' \in Seq(Lane!Tasks)
      BY <2>2, Popped DEF Lane!TypeOK
    <3>2. laneWorker' \in [pc : WorkerPcs, task : Lane!Tasks] /\ laneWorker'.pc = "run"
      BY <2>2, <3>1 DEF WorkerPcs
    <3>3. ActiveOK'
      BY <2>2, <3>2, ActiveSet
    <3>4. fate' \in [Lane!Tasks -> Lane!Fates]
      BY <2>2, <3>1 DEF Lane!TypeOK, Lane!Fates
    <3>5. order' \in [pushed : Seq(Lane!Tasks), run : Seq(Lane!Tasks)]
      <4>1. order \in [pushed : Seq(Lane!Tasks), run : Seq(Lane!Tasks)]
        BY DEF Lane!TypeOK
      <4>2. PICK r : r = Append(order.run, Head(tasks))
        OBVIOUS
      <4>3. r \in Seq(Lane!Tasks)
        BY <3>1, <4>1, <4>2, AppendProperties
      <4>4. order' = order \/ order' = [order EXCEPT !.run = r]
        BY <2>2, <4>2
      <4> QED
        BY <4>1, <4>3, <4>4
    <3> QED
      BY <1>5, <2>2, <3>1, <3>2, <3>3, <3>4, <3>5 DEF Lane!TypeOK, ActiveOK, WorkerPcs, Lane!Check
  <2> QED
    BY <1>5, <2>1, <2>2 DEF Lane!Check
<1> QED
  BY <1>2, <1>3, <1>4, <1>5 DEF Lane!Worker

LEMMA DrainerType == ASSUME Lane!TypeOK, NEW d \in Drainers, Lane!Drain(d) \/ Lane!DrainStep(d) PROVE Lane!TypeOK'
<1>1. drainer' \in [Drainers -> [pc : {"idle", "lock", "check", "enroll", "asleep", "returned"},
                                 owed : SUBSET Lane!Tasks]]
  <2>1. drainer \in [Drainers -> [pc : {"idle", "lock", "check", "enroll", "asleep", "returned"},
                                  owed : SUBSET Lane!Tasks]]
    BY DEF Lane!TypeOK
  <2>2. CASE Lane!Drain(d)
    <3>1. Lane!InLane \in SUBSET Lane!Tasks
      BY DEF Lane!InLane
    <3> QED
      BY <2>1, <2>2, <3>1 DEF Lane!Drain
  <2>3. CASE Lane!DrainStep(d)
    BY <2>1, <2>3 DEF Lane!DrainStep
  <2> QED
    BY <2>2, <2>3
<1>2. laneMutex' \in Drainers \cup {"free", "worker"}
  BY DEF Lane!TypeOK, Lane!Drain, Lane!DrainStep
<1>3. UNCHANGED <<started, stopped, stopping, tasks, active, laneWorker, fate, laneStopper, order>>
  BY DEF Lane!Drain, Lane!DrainStep
<1> QED
  BY <1>1, <1>2, <1>3 DEF Lane!TypeOK

LEMMA StopperStepType == ASSUME Lane!TypeOK, NEW s \in Stoppers, Lane!Stop(s) \/ Lane!Stopper(s) PROVE Lane!TypeOK'
<1>1. laneStopper \in [Stoppers -> StopperType] /\ laneStopper[s] \in StopperType
  BY DEF Lane!TypeOK, StopperType, StopperPcs
<1>2. ASSUME NEW pc \in StopperPcs, Lane!StopAt(s, pc) PROVE laneStopper' \in [Stoppers -> StopperType]
  BY <1>1, <1>2 DEF Lane!StopAt, StopperType
<1>3. CASE Lane!Stop(s)
  <2>1. PICK o \in SUBSET Lane!Tasks, pc \in StopperPcs :
          laneStopper' = [laneStopper EXCEPT ![s] = [@ EXCEPT !.pc = pc, !.owed = o]]
    <3>1. Lane!InLane \in SUBSET Lane!Tasks /\ {} \in SUBSET Lane!Tasks
      BY DEF Lane!InLane
    <3>2. CASE stopped
      <4>1. laneStopper' = [laneStopper EXCEPT ![s] = [@ EXCEPT !.pc = "returned", !.owed = {}]]
        BY <1>3, <3>2 DEF Lane!Stop
      <4> QED
        BY <3>1, <4>1 DEF StopperPcs
    <3>3. CASE ~stopped
      <4>1. laneStopper' = [laneStopper EXCEPT ![s] = [@ EXCEPT !.pc = "store", !.owed = Lane!InLane]]
        BY <1>3, <3>3 DEF Lane!Stop
      <4> QED
        BY <3>1, <4>1 DEF StopperPcs
    <3> QED
      BY <3>2, <3>3
  <2>2. laneStopper' \in [Stoppers -> StopperType]
    BY <1>1, <2>1 DEF StopperType
  <2> QED
    BY <1>3, <2>2 DEF Lane!TypeOK, Lane!Stop, StopperType, StopperPcs
<1>4. CASE Lane!StoreStopping(s)
  <2>1. laneStopper' \in [Stoppers -> StopperType]
    BY <1>2, <1>4 DEF Lane!StoreStopping, StopperPcs
  <2> QED
    BY <1>4, <2>1 DEF Lane!TypeOK, Lane!StoreStopping, StopperType, StopperPcs
<1>5. CASE Lane!NotifyStop(s)
  <2>1. laneStopper' \in [Stoppers -> StopperType]
    BY <1>2, <1>5 DEF Lane!NotifyStop, StopperPcs
  <2>2. ActiveOK
    BY DEF Lane!TypeOK, ActiveOK
  <2>3. laneWorker' \in [pc : WorkerPcs, task : Lane!Tasks] /\ ActiveOK'
    BY <1>5, <2>2, WakeWorkerPlace, ActiveStays DEF Lane!NotifyStop
  <2> QED
    BY <1>5, <2>1, <2>3 DEF Lane!TypeOK, Lane!NotifyStop, StopperType, StopperPcs, WorkerPcs,
       ActiveOK
<1>6. CASE Lane!Join(s)
  <2>1. laneStopper' \in [Stoppers -> StopperType]
    BY <1>2, <1>6 DEF Lane!Join, StopperPcs
  <2> QED
    BY <1>6, <2>1 DEF Lane!TypeOK, Lane!Join, StopperType, StopperPcs
<1>7. CASE Lane!Sweep(s)
  <2>1. tasks \in Seq(Lane!Tasks) /\ tasks' \in Seq(Lane!Tasks)
    BY <1>7, EmptySeq DEF Lane!TypeOK, Lane!Sweep
  <2>2. laneStopper' \in [Stoppers -> StopperType]
    BY <1>1, <1>7, <2>1 DEF Lane!Sweep, StopperType, StopperPcs
  <2> QED
    BY <1>7, <2>1, <2>2 DEF Lane!TypeOK, Lane!Sweep, StopperType, StopperPcs
<1>8. CASE Lane!Cancel(s)
  <2>1. CASE laneStopper[s].left = <<>>
    <3>1. laneStopper' \in [Stoppers -> StopperType] /\ UNCHANGED fate
      BY <1>2, <1>8, <2>1 DEF Lane!Cancel, StopperPcs
    <3> QED
      BY <1>8, <3>1 DEF Lane!TypeOK, Lane!Cancel, StopperType, StopperPcs
  <2>2. CASE laneStopper[s].left # <<>>
    <3>1. laneStopper[s].left \in Seq(Lane!Tasks)
      BY <1>1 DEF StopperType
    <3>2. Head(laneStopper[s].left) \in Lane!Tasks /\ Tail(laneStopper[s].left) \in Seq(Lane!Tasks)
      BY <2>2, <3>1, Popped
    <3>3. laneStopper' \in [Stoppers -> StopperType]
      BY <1>1, <1>8, <2>2, <3>2, ZenonT(60) DEF Lane!Cancel, StopperType
    <3>4. fate' \in [Lane!Tasks -> Lane!Fates]
      BY <1>8, <2>2, <3>2 DEF Lane!Cancel, Lane!TypeOK, Lane!Fates, Lane!Ended
    <3> QED
      BY <1>8, <3>3, <3>4 DEF Lane!TypeOK, Lane!Cancel, StopperType, StopperPcs
  <2> QED
    BY <2>1, <2>2
<1>9. CASE Lane!WakeIdle(s)
  <2>1. laneStopper' \in [Stoppers -> StopperType]
    BY <1>2, <1>9 DEF Lane!WakeIdle, StopperPcs
  <2>2. drainer' \in [Drainers -> [pc : {"idle", "lock", "check", "enroll", "asleep", "returned"},
                                   owed : SUBSET Lane!Tasks]]
    BY <1>9, WakeDrainersType DEF Lane!WakeIdle
  <2> QED
    BY <1>9, <2>1, <2>2 DEF Lane!TypeOK, Lane!WakeIdle, StopperType, StopperPcs
<1> QED
  BY <1>3, <1>4, <1>5, <1>6, <1>7, <1>8, <1>9 DEF Lane!Stopper

LEMMA LaneStepType == Lane!TypeOK /\ [Lane!Next]_(Lane!vars) => Lane!TypeOK'
<1> SUFFICES ASSUME Lane!TypeOK, [Lane!Next]_(Lane!vars) PROVE Lane!TypeOK'
  OBVIOUS
<1>1. CASE Lane!Start
  <2>1. CASE Lane!Enqueue(Probe)
    <3>1. Probe \in Lane!Tasks /\ started' \in BOOLEAN
      BY <1>1 DEF Lane!Tasks, Lane!Start
    <3> QED
      BY <1>1, <2>1, <3>1, EnqueueType DEF Lane!Start
  <2>2. CASE UNCHANGED <<tasks, fate, order, laneWorker>>
    BY <1>1, <2>2 DEF Lane!TypeOK, Lane!Start
  <2> QED
    BY <1>1, <2>1, <2>2 DEF Lane!Start
<1>2. ASSUME NEW t \in Lane!Tasks, Lane!ReadStopping(t) PROVE Lane!TypeOK'
  <2>1. fate' \in [Lane!Tasks -> Lane!Fates]
    BY <1>2 DEF Lane!TypeOK, Lane!ReadStopping, Lane!Fates, Lane!Ended
  <2> QED
    BY <1>2, <2>1 DEF Lane!TypeOK, Lane!ReadStopping
<1>3. ASSUME NEW t \in Lane!Tasks, Lane!Push(t) PROVE Lane!TypeOK'
  <2>1. started' \in BOOLEAN
    BY <1>3 DEF Lane!TypeOK, Lane!Push
  <2> QED
    BY <1>3, <2>1, EnqueueType DEF Lane!Push
<1>4. CASE UNCHANGED Lane!vars
  BY <1>4 DEF Lane!vars, Lane!TypeOK
<1> QED
  BY <1>1, <1>2, <1>3, <1>4, WorkerType, DrainerType, StopperStepType DEF Lane!Next

-----------------------------------------------------------------------------
(* Steps that move no task.                                                *)

LEMMA LaneInitHolds == Lane!Init => LaneInv
<1> SUFFICES ASSUME Lane!Init PROVE LaneInv
  OBVIOUS
<1>1. Len(tasks) = 0 /\ Len(order.pushed) = 0 /\ Len(order.run) = 0
      /\ \A s \in Stoppers : Len(laneStopper[s].left) = 0
  BY EmptySeq DEF Lane!Init
<1>2. Lane!TypeOK
  <2>1. ActiveOK
    <3>1. active = FALSE /\ laneWorker.pc \notin {"run", "clear"}
      BY DEF Lane!Init
    <3>2. (laneWorker.pc \in {"run", "clear"}) = FALSE
      BY <3>1
    <3> QED
      BY <3>1, <3>2 DEF ActiveOK
  <2>2. <<>> \in Seq(Lane!Tasks) /\ Probe \in Lane!Tasks
    BY EmptySeq DEF Lane!Tasks
  <2>3. laneWorker \in [pc : WorkerPcs, task : Lane!Tasks]
    BY <2>2 DEF Lane!Init, WorkerPcs
  <2>4. laneStopper \in [Stoppers -> StopperType]
    BY <2>2 DEF Lane!Init, StopperType, StopperPcs
  <2> QED
    BY <2>1, <2>2, <2>3, <2>4
       DEF Lane!Init, Lane!TypeOK, ActiveOK, WorkerPcs, StopperType, StopperPcs, Lane!Fates
<1>3. Shutdown
  BY DEF Lane!Init, Shutdown, Working
<1>4. Places
  BY <1>1 DEF Lane!Init, Places, Apart, In, Lane!Tasks
<1>5. Debts
  BY DEF Lane!Init, Debts, Lane!DrainCoversTheLane
<1>6. Sequel
  BY <1>1 DEF Lane!Init, Sequel, Begins, Apart, Lined
<1> QED
  BY <1>2, <1>3, <1>4, <1>5, <1>6 DEF LaneInv

(* The worker changes its place, and drainers are woken.                   *)
LEMMA WorkerMoves ==
  ASSUME LaneInv, Lane!TypeOK', UNCHANGED <<stopped, tasks, fate, laneStopper, order>>,
         started' \in {started, TRUE},
         laneWorker'.pc = "run" <=> laneWorker.pc = "run",
         laneWorker.pc = "run" => laneWorker'.task = laneWorker.task,
         laneWorker.pc = "exited" => laneWorker'.pc = "exited",
         \A d \in Drainers : /\ drainer'[d].owed = drainer[d].owed
                             /\ drainer'[d].pc = "returned" => drainer[d].pc = "returned"
  PROVE  LaneInv'
<1>1. Shutdown'
  BY DEF LaneInv, Shutdown, Working
<1>2. Places'
  BY DEF LaneInv, Places
<1>3. Debts'
  BY DEF LaneInv, Debts, Lane!DrainCoversTheLane
<1>4. Sequel'
  BY DEF LaneInv, Sequel
<1> QED
  BY <1>1, <1>2, <1>3, <1>4 DEF LaneInv

LEMMA DrainKeeps ==
  ASSUME LaneInv, Lane!TypeOK', NEW d \in Drainers, Lane!Drain(d) \/ Lane!DrainStep(d) PROVE LaneInv'
<1>1. UNCHANGED <<started, stopped, stopping, tasks, active, laneWorker, fate, laneStopper, order>>
  BY DEF Lane!Drain, Lane!DrainStep
<1>2. Shutdown' /\ Places' /\ Sequel'
  BY <1>1 DEF LaneInv, Shutdown, Working, Places, Sequel
<1>3. \A e \in Drainers \ {d} : drainer'[e] = drainer[e]
  BY DEF LaneInv, Lane!TypeOK, Lane!Drain, Lane!DrainStep
<1>4. ASSUME NEW t \in drainer'[d].owed
      PROVE  /\ fate[t] \in TakenFates
             /\ drainer'[d].pc = "returned" /\ ~stopped => fate[t] = "ran"
  <2>1. CASE Lane!Drain(d)
    <3>1. drainer'[d] = [pc |-> "lock", owed |-> Lane!InLane]
      BY <2>1 DEF LaneInv, Lane!TypeOK, Lane!Drain
    <3>2. t \in Lane!InLane
      BY <1>4, <3>1
    <3> QED
      BY <3>1, <3>2 DEF Lane!InLane, TakenFates
  <2>2. CASE Lane!DrainStep(d)
    <3>1. PICK pc \in {"check", "enroll", "asleep", "returned"} :
            drainer' = [drainer EXCEPT ![d].pc = pc]
            /\ (pc = "returned" => stopped \/ Lane!Quiet)
      BY <2>2 DEF Lane!DrainStep
    <3>2. drainer'[d].owed = drainer[d].owed /\ drainer'[d].pc = pc
      BY <3>1 DEF LaneInv, Lane!TypeOK
    <3>3. t \in Lane!Tasks /\ fate[t] \in TakenFates
      BY <1>4, <3>2 DEF LaneInv, Lane!TypeOK, Debts
    <3>4. ASSUME pc = "returned", ~stopped PROVE fate[t] = "ran"
      <4>1. Len(tasks) = 0 /\ ~active
        BY <3>1, <3>4, EmptySeq DEF Lane!Quiet
      <4>2. laneWorker.pc # "run"
        BY <4>1 DEF LaneInv, Lane!TypeOK
      <4>3. \A s \in Stoppers : Len(laneStopper[s].left) = 0
        BY <3>4, EmptySeq DEF LaneInv, Shutdown
      <4>4. fate[t] \notin {"running", "pushed", "cancelled"}
        BY <3>3, <3>4, <4>1, <4>2, <4>3 DEF LaneInv, Places, In
      <4> QED
        BY <3>3, <4>4 DEF TakenFates
    <3> QED
      BY <3>2, <3>3, <3>4
  <2> QED
    BY <2>1, <2>2
<1>5. Debts'
  BY <1>1, <1>3, <1>4 DEF LaneInv, Debts, Lane!DrainCoversTheLane
<1> QED
  BY <1>2, <1>5 DEF LaneInv

(* Reading stopping_ hands nothing over yet.                               *)
LEMMA ReadStoppingKeeps ==
  ASSUME LaneInv, Lane!TypeOK', NEW t \in Lane!Tasks, Lane!ReadStopping(t) PROVE LaneInv'
<1>1. /\ UNCHANGED <<started, laneMutex, stopped, stopping, tasks, active, laneWorker, drainer,
                     laneStopper, order>>
      /\ fate[t] = "new" /\ t # Probe /\ fate'[t] \in {"checked", "refused"} /\ started
      /\ \A u \in Lane!Tasks \ {t} : fate'[u] = fate[u]
  BY DEF LaneInv, Lane!TypeOK, Lane!ReadStopping
<1>2. Shutdown'
  BY <1>1 DEF LaneInv, Shutdown, Working
<1>3. Places'
  <2>1. Probe \in Lane!Tasks /\ laneWorker.task \in Lane!Tasks
    BY DEF Lane!Tasks, LaneInv, Lane!TypeOK
  <2> QED
    BY <1>1, <2>1 DEF LaneInv, Places
<1>4. Debts'
  <2>1. ASSUME NEW u \in Lane!Tasks, fate[u] \in TakenFates PROVE fate'[u] = fate[u]
    BY <1>1, <2>1 DEF TakenFates
  <2>2. /\ \A d \in Drainers : drainer[d].owed \subseteq Lane!Tasks
        /\ \A s \in Stoppers : laneStopper[s].owed \subseteq Lane!Tasks
    BY DEF LaneInv, Lane!TypeOK
  <2> QED
    BY <1>1, <2>1, <2>2 DEF LaneInv, Debts, Lane!DrainCoversTheLane
<1>5. Sequel'
  <2>1. ASSUME NEW i \in 1..Len(order.pushed)
        PROVE  fate'[order.pushed[i]] = fate[order.pushed[i]]
    <3>1. order.pushed[i] \in Lane!Tasks /\ fate[order.pushed[i]] \in TakenFates
      BY ElementOfSeq DEF LaneInv, Lane!TypeOK, Sequel
    <3> QED
      BY <1>1, <3>1 DEF TakenFates
  <2> QED
    BY <1>1, <2>1 DEF LaneInv, Sequel
<1> QED
  BY <1>2, <1>3, <1>4, <1>5 DEF LaneInv

-----------------------------------------------------------------------------
(* A task enters the lane.                                                 *)

LEMMA EnqueueKeeps ==
  ASSUME LaneInv, Lane!TypeOK', NEW t \in Lane!Tasks, Lane!Enqueue(t), fate[t] \in {"new", "checked"},
         t = Probe => ~started, started' = TRUE,
         UNCHANGED <<laneMutex, stopped, stopping, active, drainer, laneStopper>>
  PROVE  LaneInv'
<1>1. /\ tasks' = Lane!Queued(t) /\ fate'[t] = "pushed" /\ Probe \in Lane!Tasks
      /\ \A u \in Lane!Tasks \ {t} : fate'[u] = fate[u]
  BY DEF LaneInv, Lane!TypeOK, Lane!Enqueue, Lane!Tasks
<1>2. /\ laneWorker'.pc = "exited" <=> laneWorker.pc = "exited"
      /\ laneWorker'.pc = "run" <=> laneWorker.pc = "run"
      /\ laneWorker'.task = laneWorker.task /\ laneWorker.task \in Lane!Tasks
  <2>1. laneWorker'.task = laneWorker.task /\ laneWorker.task \in Lane!Tasks
    BY WakeWorkerPlace DEF Lane!Enqueue, LaneInv, Lane!TypeOK
  <2>2. CASE laneWorker.pc = "asleep"
    BY <2>1, <2>2, WakeWorkerPlace DEF Lane!Enqueue, LaneInv
  <2>3. CASE laneWorker.pc # "asleep"
    BY <2>1, <2>3, WakeWorkerPlace DEF Lane!Enqueue, LaneInv
  <2> QED
    BY <2>1, <2>2, <2>3
<1>3. ~In(t, tasks) /\ \A s \in Stoppers : ~In(t, laneStopper[s].left)
  BY DEF LaneInv, Places
<1>4. /\ \A u : In(u, tasks') <=> u = t \/ In(u, tasks)
      /\ Apart(tasks')
  BY <1>1, <1>3, QueuedTasks DEF LaneInv, Places
<1>5. Shutdown'
  BY <1>2 DEF LaneInv, Shutdown, Working
<1>6. Places'
  <2>1. \A u \in Lane!Tasks : In(u, tasks') => fate'[u] = "pushed"
    BY <1>1, <1>4 DEF LaneInv, Places
  <2>2. \A s \in Stoppers : \A u \in Lane!Tasks :
          In(u, laneStopper'[s].left) => fate'[u] = "pushed" /\ ~In(u, tasks')
    BY <1>1, <1>3, <1>4 DEF LaneInv, Places
  <2>3. laneWorker'.pc = "run" => fate'[laneWorker'.task] = "running"
    BY <1>1, <1>2 DEF LaneInv, Places
  <2>4. \A u \in Lane!Tasks : fate'[u] = "running" => laneWorker'.pc = "run" /\ laneWorker'.task = u
    BY <1>1, <1>2 DEF LaneInv, Places
  <2>5. \A u \in Lane!Tasks :
          fate'[u] = "pushed" => In(u, tasks') \/ \E s \in Stoppers : In(u, laneStopper'[s].left)
    BY <1>1, <1>4 DEF LaneInv, Places
  <2>6. \A u \in Lane!Tasks : fate'[u] = "cancelled" => stopped'
    BY <1>1 DEF LaneInv, Places
  <2>7. fate'[Probe] # "checked"
    BY <1>1 DEF LaneInv, Places
  <2>8. \A s \in Stoppers : Apart(laneStopper'[s].left)
    BY DEF LaneInv, Places
  <2> QED
    BY <1>4, <2>1, <2>2, <2>3, <2>4, <2>5, <2>6, <2>7, <2>8 DEF Places
<1>7. Debts'
  <2>1. ASSUME NEW u \in Lane!Tasks, fate[u] \in TakenFates PROVE fate'[u] = fate[u]
    BY <1>1, <2>1 DEF TakenFates
  <2>2. /\ \A d \in Drainers : drainer[d].owed \subseteq Lane!Tasks
        /\ \A s \in Stoppers : laneStopper[s].owed \subseteq Lane!Tasks
    BY DEF LaneInv, Lane!TypeOK
  <2> QED
    BY <2>1, <2>2 DEF LaneInv, Debts, Lane!DrainCoversTheLane
<1>8. Sequel'
  <2>1. ASSUME NEW i \in 1..Len(order.pushed)
        PROVE  /\ fate'[order.pushed[i]] = fate[order.pushed[i]]
               /\ order.pushed[i] # t
    <3>1. order.pushed[i] \in Lane!Tasks /\ fate[order.pushed[i]] \in TakenFates
      BY ElementOfSeq DEF LaneInv, Lane!TypeOK, Sequel
    <3> QED
      BY <1>1, <3>1 DEF TakenFates
  <2>2. ~In(t, order.pushed)
    BY <2>1 DEF In
  <2>3. /\ order.pushed \in Seq(Lane!Tasks) /\ order.run \in Seq(Lane!Tasks) /\ tasks \in Seq(Lane!Tasks)
        /\ Len(order.run) \in 0..Len(order.pushed) /\ Len(order.pushed) \in Nat
    <3>1. order.pushed \in Seq(Lane!Tasks) /\ order.run \in Seq(Lane!Tasks) /\ tasks \in Seq(Lane!Tasks)
      BY DEF LaneInv, Lane!TypeOK
    <3>2. Len(order.run) \in Nat /\ Len(order.pushed) \in Nat
      BY <3>1, LenProperties
    <3> QED
      BY <3>1, <3>2 DEF LaneInv, Sequel, Begins
  <2>4. CASE t \in Ahead
    <3>1. order' = order /\ tasks' = <<t>> \o tasks
      BY <1>1, <2>4 DEF Lane!Enqueue, Lane!Queued
    <3>2. laneWorker.pc # "exited" => Lined(<<t>> \o tasks, order.pushed, Len(order.run))
      BY <2>2, <2>3, <2>4, WaitingInFront DEF LaneInv, Sequel
    <3> QED
      BY <1>2, <2>1, <3>1, <3>2 DEF LaneInv, Sequel
  <2>5. CASE t \notin Ahead
    <3>1. PICK p : p = Append(order.pushed, t)
      OBVIOUS
    <3>2. /\ order'.pushed = p /\ order'.run = order.run
          /\ tasks' = Append(tasks, t)
      <4>1. order \in [pushed : Seq(Lane!Tasks), run : Seq(Lane!Tasks)]
        BY DEF LaneInv, Lane!TypeOK
      <4> QED
        BY <1>1, <2>5, <3>1, <4>1 DEF Lane!Enqueue, Lane!Queued
    <3>3. /\ Len(p) = Len(order.pushed) + 1 /\ p[Len(order.pushed) + 1] = t
          /\ \A i \in 1..Len(order.pushed) : p[i] = order.pushed[i]
      BY <2>3, <3>1, AppendProperties
    <3>4. Begins(order.run, p)
      BY <2>3, <3>3 DEF LaneInv, Sequel, Begins
    <3>5. Apart(p)
      BY <2>2, <2>3, <3>1, Behind DEF LaneInv, Sequel
    <3>6. ASSUME NEW i \in 1..Len(p)
          PROVE  p[i] \notin Ahead /\ fate'[p[i]] \in TakenFates /\ (p[i] = Probe => i = 1)
      <4>1. CASE i = Len(order.pushed) + 1
        <5>1. t = Probe => Len(order.pushed) = 0
          BY EmptySeq DEF LaneInv, Sequel
        <5> QED
          BY <1>1, <2>5, <3>3, <4>1, <5>1 DEF TakenFates
      <4>2. CASE i \in 1..Len(order.pushed)
        BY <2>1, <3>3, <4>2 DEF LaneInv, Sequel
      <4> QED
        BY <2>3, <3>3, <4>1, <4>2
    <3>7. laneWorker.pc # "exited" => Lined(Append(tasks, t), p, Len(order.run))
      BY <1>3, <2>2, <2>3, <3>1, WaitingBehind DEF LaneInv, Sequel
    <3> QED
      BY <1>2, <3>2, <3>4, <3>5, <3>6, <3>7 DEF Sequel
  <2> QED
    BY <2>4, <2>5
<1> QED
  BY <1>5, <1>6, <1>7, <1>8 DEF LaneInv

-----------------------------------------------------------------------------
(* The worker takes a task and runs it.                                    *)

LEMMA TakeKeeps ==
  ASSUME LaneInv, Lane!TypeOK', laneWorker.pc = "check", tasks # <<>>,
         laneWorker' = [pc |-> "run", task |-> Head(tasks)],
         fate' = [fate EXCEPT ![Head(tasks)] = "running"],
         order' = IF Head(tasks) \in Ahead THEN order
                  ELSE [order EXCEPT !.run = Append(@, Head(tasks))],
         tasks' = Tail(tasks),
         UNCHANGED <<started, stopped, stopping, drainer, laneStopper>>
  PROVE  LaneInv'
<1>1. PICK t, q : t = Head(tasks) /\ q = Tail(tasks)
  OBVIOUS
<1>2. /\ t \in Lane!Tasks /\ In(t, tasks) /\ q \in Seq(Lane!Tasks)
      /\ \A u : In(u, tasks) <=> u = t \/ In(u, q)
      /\ Apart(q) /\ ~In(t, q)
  BY <1>1, Popped DEF LaneInv, Lane!TypeOK, Places
<1>3. /\ fate[t] = "pushed" /\ fate'[t] = "running" /\ tasks' = q
      /\ \A u \in Lane!Tasks \ {t} : fate'[u] = fate[u]
      /\ laneWorker'.pc = "run" /\ laneWorker'.task = t
  BY <1>1, <1>2 DEF LaneInv, Lane!TypeOK, Places
<1>4. Probe \in Lane!Tasks
  BY DEF Lane!Tasks
<1>5. \A s \in Stoppers : ~In(t, laneStopper[s].left)
  BY <1>2 DEF LaneInv, Places
<1>6. Shutdown'
  BY <1>3 DEF LaneInv, Shutdown, Working
<1>7. Places'
  <2>0. \A u \in Lane!Tasks : In(u, tasks') => In(u, tasks) /\ u # t
    BY <1>2, <1>3
  <2>1. Apart(tasks') /\ \A u \in Lane!Tasks : In(u, tasks') => fate'[u] = "pushed"
    <3>1. Apart(tasks')
      BY <1>2, <1>3
    <3>2. \A u \in Lane!Tasks : In(u, tasks) => fate[u] = "pushed"
      BY DEF LaneInv, Places
    <3> QED
      BY <1>3, <2>0, <3>1, <3>2
  <2>2. \A s \in Stoppers : \A u \in Lane!Tasks :
          In(u, laneStopper'[s].left) => fate'[u] = "pushed" /\ ~In(u, tasks')
    <3>1. \A s \in Stoppers : \A u \in Lane!Tasks :
            In(u, laneStopper[s].left) => fate[u] = "pushed" /\ ~In(u, tasks)
      BY DEF LaneInv, Places
    <3> QED
      BY <1>3, <1>5, <2>0, <3>1
  <2>3. \A u \in Lane!Tasks : fate'[u] = "running" => u = t
    BY <1>3 DEF LaneInv, Places
  <2>4. \A u \in Lane!Tasks :
          fate'[u] = "pushed" => In(u, tasks') \/ \E s \in Stoppers : In(u, laneStopper'[s].left)
    BY <1>2, <1>3, ZenonT(60) DEF LaneInv, Places
  <2>5. \A u \in Lane!Tasks : fate'[u] = "cancelled" => stopped'
    BY <1>3 DEF LaneInv, Places
  <2>6. fate'[Probe] # "checked" /\ started'
    BY <1>2, <1>3, <1>4 DEF LaneInv, Places
  <2>7. \A s \in Stoppers : Apart(laneStopper'[s].left)
    BY DEF LaneInv, Places
  <2> QED
    BY <1>3, <2>1, <2>2, <2>3, <2>4, <2>5, <2>6, <2>7 DEF Places
<1>8. Debts'
  <2>1. /\ \A d \in Drainers : drainer[d].owed \subseteq Lane!Tasks
        /\ \A s \in Stoppers : laneStopper[s].owed \subseteq Lane!Tasks
    BY DEF LaneInv, Lane!TypeOK
  <2>2. \A u \in Lane!Tasks : fate[u] \in TakenFates => fate'[u] \in TakenFates
    BY <1>3 DEF TakenFates
  <2>3. \A u \in Lane!Tasks : fate[u] \in Lane!Ended => fate'[u] = fate[u]
    BY <1>3 DEF Lane!Ended
  <2>4. \A d \in Drainers : \A u \in drainer'[d].owed : fate'[u] \in TakenFates
    BY <2>1, <2>2 DEF LaneInv, Debts
  <2>5. Lane!DrainCoversTheLane'
    BY <2>1, <2>3 DEF LaneInv, Debts, Lane!DrainCoversTheLane, Lane!Ended
  <2>6. ASSUME NEW s \in Stoppers, NEW u \in laneStopper'[s].owed
        PROVE  /\ fate'[u] \in TakenFates
               /\ laneStopper'[s].pc = "cancel" /\ fate'[u] = "pushed" => In(u, laneStopper'[s].left)
               /\ laneStopper'[s].pc \in {"wake", "returned"} => fate'[u] \in Lane!Ended
    <3>1. u \in Lane!Tasks /\ u \in laneStopper[s].owed
      BY <2>1, <2>6
    <3>2. fate'[u] = "pushed" => fate[u] = "pushed"
      BY <1>3, <3>1
    <3> QED
      BY <2>2, <2>3, <3>1, <3>2 DEF LaneInv, Debts
  <2> QED
    BY <2>4, <2>5, <2>6 DEF Debts
<1>9. Sequel'
  <2>1. ASSUME NEW i \in 1..Len(order.pushed)
        PROVE  fate'[order.pushed[i]] \in TakenFates
    <3>1. order.pushed[i] \in Lane!Tasks /\ fate[order.pushed[i]] \in TakenFates
      BY ElementOfSeq DEF LaneInv, Lane!TypeOK, Sequel
    <3> QED
      BY <1>3, <3>1 DEF TakenFates
  <2>2. /\ order.pushed \in Seq(Lane!Tasks) /\ order.run \in Seq(Lane!Tasks) /\ tasks \in Seq(Lane!Tasks)
        /\ Len(order.run) \in 0..Len(order.pushed) /\ Len(order.pushed) \in Nat
    <3>1. order.pushed \in Seq(Lane!Tasks) /\ order.run \in Seq(Lane!Tasks) /\ tasks \in Seq(Lane!Tasks)
      BY DEF LaneInv, Lane!TypeOK
    <3>2. Len(order.run) \in Nat /\ Len(order.pushed) \in Nat
      BY <3>1, LenProperties
    <3> QED
      BY <3>1, <3>2 DEF LaneInv, Sequel, Begins
  <2>3. Lined(tasks, order.pushed, Len(order.run)) /\ Apart(tasks) /\ Apart(order.pushed)
    BY DEF LaneInv, Sequel, Places
  <2>4. started'
    BY <1>2, <1>3 DEF LaneInv, Places
  <2>5. CASE t \in Ahead
    <3>1. order' = order
      BY <1>1, <2>5
    <3>2. ~In(t, order.pushed)
      BY <2>5 DEF LaneInv, Sequel, In
    <3>3. Lined(q, order.pushed, Len(order.run))
      BY <1>1, <2>2, <2>3, <2>5, <3>2, WaitingSkipped
    <3>4. \A i \in 1..Len(order.pushed) :
            order.pushed[i] \notin Ahead /\ fate'[order.pushed[i]] \in TakenFates
      BY <2>1 DEF LaneInv, Sequel
    <3>5. /\ Begins(order.run, order.pushed)
          /\ Apart(order.pushed)
          /\ \A i \in 1..Len(order.pushed) : order.pushed[i] = Probe => i = 1
      BY DEF LaneInv, Sequel
    <3>6. laneWorker'.pc # "exited" => Lined(tasks', order.pushed, Len(order.run))
      BY <1>3, <3>3
    <3> QED
      BY <2>4, <3>1, <3>4, <3>5, <3>6 DEF Sequel
  <2>6. CASE t \notin Ahead
    <3>1. PICK r : r = Append(order.run, t)
      OBVIOUS
    <3>2. order'.pushed = order.pushed /\ order'.run = r
      <4>1. order \in [pushed : Seq(Lane!Tasks), run : Seq(Lane!Tasks)]
        BY DEF LaneInv, Lane!TypeOK
      <4>2. order' = [order EXCEPT !.run = r]
        BY <1>1, <2>6, <3>1
      <4> QED
        BY <4>1, <4>2
    <3>3. /\ Len(r) = Len(order.run) + 1 /\ r[Len(order.run) + 1] = t
          /\ \A i \in 1..Len(order.run) : r[i] = order.run[i]
      BY <1>2, <2>2, <3>1, AppendProperties
    <3>4. /\ Len(order.run) + 1 \in 1..Len(order.pushed)
          /\ order.pushed[Len(order.run) + 1] = t
          /\ Lined(q, order.pushed, Len(order.run) + 1)
      BY <1>1, <2>2, <2>3, <2>6, WaitingTaken
    <3>5. Begins(r, order.pushed)
      <4>1. ASSUME NEW i \in 1..Len(r) PROVE r[i] = order.pushed[i]
        <5>1. CASE i = Len(order.run) + 1
          BY <3>3, <3>4, <5>1
        <5>2. CASE i \in 1..Len(order.run)
          BY <3>3, <5>2 DEF LaneInv, Sequel, Begins
        <5> QED
          BY <2>2, <3>3, <5>1, <5>2
      <4> QED
        BY <2>2, <3>3, <3>4, <4>1 DEF Begins
    <3> QED
      BY <1>3, <2>1, <2>4, <3>2, <3>3, <3>4, <3>5 DEF LaneInv, Sequel
  <2> QED
    BY <2>5, <2>6
<1> QED
  BY <1>6, <1>7, <1>8, <1>9 DEF LaneInv

(* A task that ends: what was promised about it stays so.                  *)
LEMMA EndingKeeps ==
  ASSUME LaneInv, NEW t \in Lane!Tasks, NEW f \in {"ran", "cancelled"}, fate[t] \in {"pushed", "running"},
         fate' = [fate EXCEPT ![t] = f], UNCHANGED <<stopped, drainer>>, f = "cancelled" => stopped
  PROVE  /\ \A u \in Lane!Tasks \ {t} : fate'[u] = fate[u]
         /\ fate'[t] = f
         /\ \A d \in Drainers : \A u \in drainer'[d].owed : fate'[u] \in TakenFates
         /\ Lane!DrainCoversTheLane'
         /\ \A i \in 1..Len(order.pushed) : fate'[order.pushed[i]] \in TakenFates
<1>1. /\ \A u \in Lane!Tasks \ {t} : fate'[u] = fate[u]
      /\ fate'[t] = f
  BY DEF LaneInv, Lane!TypeOK
<1>2. \A d \in Drainers : drainer[d].owed \subseteq Lane!Tasks
  BY DEF LaneInv, Lane!TypeOK
<1>3. \A d \in Drainers : \A u \in drainer'[d].owed : fate'[u] \in TakenFates
  BY <1>1, <1>2 DEF LaneInv, Debts, TakenFates
<1>4. Lane!DrainCoversTheLane'
  BY <1>1, <1>2 DEF LaneInv, Debts, Lane!DrainCoversTheLane
<1>5. ASSUME NEW i \in 1..Len(order.pushed) PROVE fate'[order.pushed[i]] \in TakenFates
  <2>1. order.pushed[i] \in Lane!Tasks /\ fate[order.pushed[i]] \in TakenFates
    BY ElementOfSeq DEF LaneInv, Lane!TypeOK, Sequel
  <2> QED
    BY <1>1, <2>1 DEF TakenFates
<1> QED
  BY <1>1, <1>3, <1>4, <1>5

LEMMA RunKeeps == ASSUME LaneInv, Lane!TypeOK', Lane!Run PROVE LaneInv'
<1>1. PICK t \in Lane!Tasks : t = laneWorker.task
  BY DEF LaneInv, Lane!TypeOK
<1>2. /\ fate[t] = "running" /\ fate' = [fate EXCEPT ![t] = "ran"]
      /\ UNCHANGED <<started, laneMutex, stopped, stopping, tasks, active, drainer, laneStopper, order>>
  BY <1>1 DEF LaneInv, Places, Lane!Run
<1>3. laneWorker.pc = "run" /\ laneWorker'.pc = "clear"
  BY DEF LaneInv, Lane!TypeOK, Lane!Run
<1>4. /\ \A u \in Lane!Tasks \ {t} : fate'[u] = fate[u]
      /\ fate'[t] = "ran"
      /\ \A d \in Drainers : \A u \in drainer'[d].owed : fate'[u] \in TakenFates
      /\ Lane!DrainCoversTheLane'
      /\ \A i \in 1..Len(order.pushed) : fate'[order.pushed[i]] \in TakenFates
  BY <1>2, EndingKeeps
<1>5. Shutdown'
  BY <1>2, <1>3 DEF LaneInv, Shutdown, Working
<1>6. Places'
  <2>1. Probe \in Lane!Tasks
    BY DEF Lane!Tasks
  <2>2. ~In(t, tasks) /\ \A s \in Stoppers : ~In(t, laneStopper[s].left)
    BY <1>2 DEF LaneInv, Places
  <2>3. \A u \in Lane!Tasks : fate[u] = "running" => u = t
    BY <1>1 DEF LaneInv, Places
  <2>4. started
    BY <1>2 DEF LaneInv, Places
  <2> QED
    BY <1>2, <1>3, <1>4, <2>1, <2>2, <2>3, <2>4 DEF LaneInv, Places
<1>7. Debts'
  <2>1. ASSUME NEW s \in Stoppers, NEW u \in laneStopper'[s].owed
        PROVE  /\ fate'[u] \in TakenFates
               /\ laneStopper'[s].pc = "cancel" /\ fate'[u] = "pushed" => In(u, laneStopper'[s].left)
               /\ laneStopper'[s].pc \in {"wake", "returned"} => fate'[u] \in Lane!Ended
    <3>1. u \in Lane!Tasks /\ u \in laneStopper[s].owed
      BY <1>2, <2>1 DEF LaneInv, Lane!TypeOK
    <3>2. CASE u = t
      BY <1>4, <3>2 DEF TakenFates, Lane!Ended
    <3>3. CASE u # t
      BY <1>2, <1>4, <3>1, <3>3 DEF LaneInv, Debts
    <3> QED
      BY <3>2, <3>3
  <2> QED
    BY <1>4, <2>1 DEF Debts
<1>8. Sequel'
  BY <1>2, <1>3, <1>4 DEF LaneInv, Sequel
<1> QED
  BY <1>5, <1>6, <1>7, <1>8 DEF LaneInv

-----------------------------------------------------------------------------
(* stop().                                                                 *)

(* One stopper's record after a step.                                      *)
LEMMA OneStopper ==
  ASSUME LaneInv, NEW s \in Stoppers, NEW pc, Lane!StopAt(s, pc)
  PROVE  /\ \A o \in Stoppers \ {s} : laneStopper'[o] = laneStopper[o]
         /\ laneStopper'[s].pc = pc /\ laneStopper'[s].left = laneStopper[s].left
         /\ laneStopper'[s].owed = laneStopper[s].owed
<1>1. laneStopper[s] \in StopperType
  BY DEF LaneInv, Lane!TypeOK, StopperType, StopperPcs
<1> QED
  BY <1>1 DEF LaneInv, Lane!TypeOK, Lane!StopAt, StopperType

LEMMA StopKeeps == ASSUME LaneInv, Lane!TypeOK', NEW s \in Stoppers, Lane!Stop(s) PROVE LaneInv'
<1>1. /\ UNCHANGED <<started, laneMutex, stopping, tasks, active, laneWorker, fate, drainer, order>>
      /\ stopped' = TRUE /\ laneStopper[s].pc = "idle" /\ started
  BY DEF Lane!Stop
<1>2. /\ \A o \in Stoppers \ {s} : laneStopper'[o] = laneStopper[o]
      /\ laneStopper'[s].left = laneStopper[s].left
      /\ stopped => laneStopper'[s].pc = "returned" /\ laneStopper'[s].owed = {}
      /\ ~stopped => laneStopper'[s].pc = "store" /\ laneStopper'[s].owed = Lane!InLane
  <2>1. laneStopper[s] \in StopperType
    BY DEF LaneInv, Lane!TypeOK, StopperType, StopperPcs
  <2>2. CASE stopped
    <3>1. laneStopper' = [laneStopper EXCEPT ![s] = [@ EXCEPT !.pc = "returned", !.owed = {}]]
      BY <2>2 DEF Lane!Stop
    <3> QED
      BY <2>1, <2>2, <3>1 DEF LaneInv, Lane!TypeOK, StopperType
  <2>3. CASE ~stopped
    <3>1. laneStopper' = [laneStopper EXCEPT ![s] = [@ EXCEPT !.pc = "store", !.owed = Lane!InLane]]
      BY <2>3 DEF Lane!Stop
    <3> QED
      BY <2>1, <2>3, <3>1 DEF LaneInv, Lane!TypeOK, StopperType
  <2> QED
    BY <2>2, <2>3
<1>3. Shutdown'
  <2>1. CASE stopped
    BY <1>1, <1>2, <2>1 DEF LaneInv, Shutdown, Working
  <2>2. CASE ~stopped
    <3>1. \A o \in Stoppers : laneStopper[o].pc = "idle"
      BY <2>2 DEF LaneInv, Shutdown
    <3> QED
      BY <1>1, <1>2, <2>2, <3>1 DEF LaneInv, Shutdown, Working
  <2> QED
    BY <2>1, <2>2
<1>4. \A o \in Stoppers : laneStopper'[o].left = laneStopper[o].left
  BY <1>2
<1>5. Places'
  BY <1>1, <1>4 DEF LaneInv, Places
<1>6. Debts'
  <2>1. \A o \in Stoppers \ {s} : \A t \in laneStopper'[o].owed :
          /\ fate[t] \in TakenFates
          /\ laneStopper'[o].pc = "cancel" /\ fate[t] = "pushed" => In(t, laneStopper'[o].left)
          /\ laneStopper'[o].pc \in {"wake", "returned"} => fate[t] \in Lane!Ended
    BY <1>2 DEF LaneInv, Debts
  <2>2. \A t \in laneStopper'[s].owed :
          /\ fate[t] \in TakenFates
          /\ laneStopper'[s].pc = "cancel" /\ fate[t] = "pushed" => In(t, laneStopper'[s].left)
          /\ laneStopper'[s].pc \in {"wake", "returned"} => fate[t] \in Lane!Ended
    BY <1>2 DEF Lane!InLane, TakenFates
  <2>3. Lane!DrainCoversTheLane'
    BY <1>1 DEF Lane!DrainCoversTheLane
  <2> QED
    BY <1>1, <2>1, <2>2, <2>3 DEF LaneInv, Debts
<1>7. Sequel'
  BY <1>1 DEF LaneInv, Sequel
<1> QED
  BY <1>3, <1>5, <1>6, <1>7 DEF LaneInv

(* The thread that does the work goes on to its next step.                 *)
LEMMA StopperMoves ==
  ASSUME LaneInv, Lane!TypeOK', NEW s \in Stoppers, NEW pc \in StopperPcs, Lane!StopAt(s, pc),
         UNCHANGED <<started, stopped, tasks, fate, order>>,
         Working(s), pc # "idle", pc # "cancel", laneStopper[s].left = <<>>,
         pc \in {"sweep", "wake", "returned"} => laneWorker.pc = "exited",
         pc \in {"wake", "returned"} => \A t \in laneStopper[s].owed : fate[t] \in Lane!Ended,
         laneWorker'.pc = "run" <=> laneWorker.pc = "run",
         laneWorker.pc = "run" => laneWorker'.task = laneWorker.task,
         laneWorker.pc = "exited" => laneWorker'.pc = "exited",
         \A d \in Drainers : /\ drainer'[d].owed = drainer[d].owed
                             /\ drainer'[d].pc = "returned" => drainer[d].pc = "returned"
  PROVE  LaneInv'
<1>1. /\ \A o \in Stoppers \ {s} : laneStopper'[o] = laneStopper[o]
      /\ laneStopper'[s].pc = pc /\ laneStopper'[s].left = <<>> /\ laneStopper'[s].owed = laneStopper[s].owed
  BY OneStopper
<1>2. \A o \in Stoppers : laneStopper'[o].left = laneStopper[o].left /\ laneStopper'[o].owed = laneStopper[o].owed
  BY <1>1
<1>3. Shutdown'
  <2>1. stopped'
    BY DEF LaneInv, Shutdown, Working
  <2>2. \A o, u \in Stoppers : Working(o)' /\ Working(u)' => o = u
    BY <1>1 DEF LaneInv, Shutdown, Working
  <2>3. \A o \in Stoppers : laneStopper'[o].pc \in {"sweep", "cancel", "wake"} => laneWorker'.pc = "exited"
    BY <1>1 DEF LaneInv, Shutdown
  <2>4. \A o \in Stoppers : laneStopper'[o].pc # "cancel" => laneStopper'[o].left = <<>>
    BY <1>1 DEF LaneInv, Shutdown
  <2>5. (\A o \in Stoppers : ~Working(o)') => laneWorker'.pc = "exited"
    BY <1>1 DEF Working, StopperPcs
  <2> QED
    BY <2>1, <2>2, <2>3, <2>4, <2>5 DEF Shutdown
<1>4. Places'
  BY <1>2 DEF LaneInv, Places
<1>5. Debts'
  <2>1. \A o \in Stoppers \ {s} : \A t \in laneStopper'[o].owed :
          /\ fate[t] \in TakenFates
          /\ laneStopper'[o].pc = "cancel" /\ fate[t] = "pushed" => In(t, laneStopper'[o].left)
          /\ laneStopper'[o].pc \in {"wake", "returned"} => fate[t] \in Lane!Ended
    BY <1>1 DEF LaneInv, Debts
  <2>2. \A t \in laneStopper'[s].owed :
          /\ fate[t] \in TakenFates
          /\ laneStopper'[s].pc = "cancel" /\ fate[t] = "pushed" => In(t, laneStopper'[s].left)
          /\ laneStopper'[s].pc \in {"wake", "returned"} => fate[t] \in Lane!Ended
    BY <1>1 DEF LaneInv, Debts
  <2>3. Lane!DrainCoversTheLane'
    BY DEF LaneInv, Debts, Lane!DrainCoversTheLane
  <2> QED
    BY <2>1, <2>2, <2>3 DEF LaneInv, Debts
<1>6. Sequel'
  BY DEF LaneInv, Sequel
<1> QED
  BY <1>3, <1>4, <1>5, <1>6 DEF LaneInv

LEMMA SweepKeeps == ASSUME LaneInv, Lane!TypeOK', NEW s \in Stoppers, Lane!Sweep(s) PROVE LaneInv'
<1>1. /\ UNCHANGED <<started, laneMutex, stopped, stopping, active, laneWorker, fate, drainer, order>>
      /\ laneStopper[s].pc = "sweep" /\ tasks' = <<>> /\ laneWorker.pc = "exited"
  BY DEF Lane!Sweep, LaneInv, Shutdown
<1>2. /\ \A o \in Stoppers \ {s} : laneStopper'[o] = laneStopper[o]
      /\ laneStopper'[s].pc = "cancel" /\ laneStopper'[s].left = tasks
      /\ laneStopper'[s].owed = laneStopper[s].owed
  <2>1. laneStopper[s] \in StopperType
    BY DEF LaneInv, Lane!TypeOK, StopperType, StopperPcs
  <2>2. laneStopper' = [laneStopper EXCEPT ![s] = [@ EXCEPT !.pc = "cancel", !.left = tasks]]
    BY DEF Lane!Sweep
  <2> QED
    BY <2>1, <2>2 DEF LaneInv, Lane!TypeOK, StopperType
<1>3. Len(tasks') = 0
  BY <1>1, EmptySeq
<1>4. \A o \in Stoppers : laneStopper[o].left = <<>>
  <2>1. \A o \in Stoppers : laneStopper[o].pc = "cancel" => o = s
    BY <1>1 DEF LaneInv, Shutdown, Working
  <2> QED
    BY <1>1, <2>1 DEF LaneInv, Shutdown
<1>5. \A o \in Stoppers : \A t : ~In(t, laneStopper[o].left)
  BY <1>4, NoneInEmpty
<1>6. Shutdown'
  BY <1>1, <1>2 DEF LaneInv, Shutdown, Working
<1>7. Places'
  <2>1. Apart(tasks') /\ \A u : ~In(u, tasks')
    BY <1>3 DEF Apart, In
  <2>2. \A o \in Stoppers : Apart(laneStopper'[o].left)
    BY <1>2 DEF LaneInv, Places
  <2>3. \A o \in Stoppers : \A u \in Lane!Tasks :
          In(u, laneStopper'[o].left) => fate'[u] = "pushed" /\ ~In(u, tasks')
    <3>1. \A u \in Lane!Tasks : In(u, tasks) => fate[u] = "pushed"
      BY DEF LaneInv, Places
    <3> QED
      BY <1>1, <1>2, <1>5, <2>1, <3>1
  <2>4. \A u \in Lane!Tasks :
          fate'[u] = "pushed" => In(u, tasks') \/ \E o \in Stoppers : In(u, laneStopper'[o].left)
    <3>1. \A u \in Lane!Tasks : fate[u] = "pushed" => In(u, tasks)
      BY <1>5 DEF LaneInv, Places
    <3> QED
      BY <1>1, <1>2, <3>1
  <2> QED
    BY <1>1, <2>1, <2>2, <2>3, <2>4 DEF LaneInv, Places
<1>8. Debts'
  <2>1. \A o \in Stoppers \ {s} : \A t \in laneStopper'[o].owed :
          /\ fate[t] \in TakenFates
          /\ laneStopper'[o].pc = "cancel" /\ fate[t] = "pushed" => In(t, laneStopper'[o].left)
          /\ laneStopper'[o].pc \in {"wake", "returned"} => fate[t] \in Lane!Ended
    BY <1>2 DEF LaneInv, Debts
  <2>2. ASSUME NEW t \in laneStopper'[s].owed
        PROVE  fate[t] \in TakenFates /\ (fate[t] = "pushed" => In(t, tasks))
    <3>1. t \in Lane!Tasks /\ t \in laneStopper[s].owed
      BY <1>2, <2>2 DEF LaneInv, Lane!TypeOK
    <3> QED
      BY <1>5, <3>1 DEF LaneInv, Debts, Places
  <2>3. Lane!DrainCoversTheLane'
    BY <1>1 DEF LaneInv, Debts, Lane!DrainCoversTheLane
  <2> QED
    BY <1>1, <1>2, <2>1, <2>2, <2>3 DEF LaneInv, Debts
<1>9. Sequel'
  BY <1>1 DEF LaneInv, Sequel
<1> QED
  BY <1>6, <1>7, <1>8, <1>9 DEF LaneInv

(* One leftover is cancelled.                                              *)
LEMMA CancelKeeps ==
  ASSUME LaneInv, Lane!TypeOK', NEW s \in Stoppers, Lane!Cancel(s), laneStopper[s].left # <<>> PROVE LaneInv'
<1>1. PICK t, q : t = Head(laneStopper[s].left) /\ q = Tail(laneStopper[s].left)
  OBVIOUS
<1>2. /\ t \in Lane!Tasks /\ In(t, laneStopper[s].left) /\ q \in Seq(Lane!Tasks)
      /\ \A u : In(u, laneStopper[s].left) <=> u = t \/ In(u, q)
      /\ Apart(q) /\ ~In(t, q)
  <2>1. laneStopper[s].left \in Seq(Lane!Tasks) /\ Apart(laneStopper[s].left)
    BY DEF LaneInv, Lane!TypeOK, Places
  <2> QED
    BY <1>1, <2>1, Popped
<1>3. /\ UNCHANGED <<started, laneMutex, stopped, stopping, tasks, active, laneWorker, drainer, order>>
      /\ laneStopper[s].pc = "cancel" /\ laneWorker.pc = "exited" /\ stopped
      /\ fate' = [fate EXCEPT ![t] = "cancelled"]
      /\ laneStopper' = [laneStopper EXCEPT ![s].left = q]
  BY <1>1 DEF Lane!Cancel, LaneInv, Shutdown
<1>4. /\ \A o \in Stoppers \ {s} : laneStopper'[o] = laneStopper[o]
      /\ laneStopper'[s].pc = "cancel" /\ laneStopper'[s].left = q
      /\ laneStopper'[s].owed = laneStopper[s].owed
  <2>1. laneStopper[s] \in StopperType
    BY DEF LaneInv, Lane!TypeOK, StopperType, StopperPcs
  <2> QED
    BY <1>3, <2>1 DEF LaneInv, Lane!TypeOK, StopperType
<1>5. fate[t] = "pushed" /\ ~In(t, tasks)
  BY <1>2 DEF LaneInv, Places
<1>6. /\ \A u \in Lane!Tasks \ {t} : fate'[u] = fate[u]
      /\ fate'[t] = "cancelled"
      /\ \A d \in Drainers : \A u \in drainer'[d].owed : fate'[u] \in TakenFates
      /\ Lane!DrainCoversTheLane'
      /\ \A i \in 1..Len(order.pushed) : fate'[order.pushed[i]] \in TakenFates
  BY <1>2, <1>3, <1>5, EndingKeeps
<1>7. \A o \in Stoppers \ {s} : laneStopper[o].left = <<>> /\ laneStopper[o].pc # "cancel"
  BY <1>3 DEF LaneInv, Shutdown, Working
<1>8. \A o \in Stoppers \ {s} : \A u : ~In(u, laneStopper'[o].left)
  BY <1>4, <1>7, NoneInEmpty
<1>9. Shutdown'
  BY <1>3, <1>4 DEF LaneInv, Shutdown, Working
<1>10. Places'
  <2>1. Probe \in Lane!Tasks /\ laneWorker.task \in Lane!Tasks
    BY DEF Lane!Tasks, LaneInv, Lane!TypeOK
  <2>2. Apart(tasks') /\ \A u \in Lane!Tasks : In(u, tasks') => fate'[u] = "pushed"
    <3>1. \A u \in Lane!Tasks : In(u, tasks) => fate[u] = "pushed"
      BY DEF LaneInv, Places
    <3> QED
      BY <1>3, <1>5, <1>6, <3>1 DEF LaneInv, Places
  <2>3. \A o \in Stoppers : Apart(laneStopper'[o].left)
    BY <1>2, <1>4 DEF LaneInv, Places
  <2>4. \A o \in Stoppers : \A u \in Lane!Tasks :
          In(u, laneStopper'[o].left) => fate'[u] = "pushed" /\ ~In(u, tasks')
    <3>1. \A u \in Lane!Tasks : In(u, laneStopper[s].left) => fate[u] = "pushed" /\ ~In(u, tasks)
      BY DEF LaneInv, Places
    <3>2. \A u \in Lane!Tasks : In(u, q) => In(u, laneStopper[s].left) /\ u # t
      BY <1>2
    <3>3. ASSUME NEW u \in Lane!Tasks, In(u, q) PROVE fate'[u] = "pushed" /\ ~In(u, tasks')
      BY <1>3, <1>6, <3>1, <3>2, <3>3
    <3> QED
      BY <1>4, <1>8, <3>3
  <2>5. \A u \in Lane!Tasks :
          fate'[u] = "pushed" => In(u, tasks') \/ \E o \in Stoppers : In(u, laneStopper'[o].left)
    <3>1. ASSUME NEW u \in Lane!Tasks, fate'[u] = "pushed"
          PROVE  In(u, tasks) \/ In(u, q)
      <4>1. u # t /\ fate[u] = "pushed"
        BY <1>6, <3>1
      <4>2. In(u, tasks) \/ \E o \in Stoppers : In(u, laneStopper[o].left)
        BY <4>1 DEF LaneInv, Places
      <4>3. In(u, tasks) \/ In(u, laneStopper[s].left)
        BY <1>7, <4>2, NoneInEmpty
      <4> QED
        BY <1>2, <4>1, <4>3
    <3> QED
      BY <1>3, <1>4, <3>1
  <2>6. /\ laneWorker'.pc # "run" /\ fate'[Probe] # "checked" /\ started'
        /\ \A u \in Lane!Tasks : fate'[u] # "running"
        /\ \A u \in Lane!Tasks : fate'[u] = "cancelled" => stopped'
    BY <1>2, <1>3, <1>5, <1>6, <2>1 DEF LaneInv, Places
  <2> QED
    BY <2>2, <2>3, <2>4, <2>5, <2>6 DEF Places
<1>11. Debts'
  <2>1. \A o \in Stoppers : laneStopper[o].owed \subseteq Lane!Tasks
    BY DEF LaneInv, Lane!TypeOK
  <2>2. ASSUME NEW o \in Stoppers, NEW u \in laneStopper'[o].owed
        PROVE  /\ fate'[u] \in TakenFates
               /\ laneStopper'[o].pc = "cancel" /\ fate'[u] = "pushed" => In(u, laneStopper'[o].left)
               /\ laneStopper'[o].pc \in {"wake", "returned"} => fate'[u] \in Lane!Ended
    <3>1. u \in Lane!Tasks /\ u \in laneStopper[o].owed /\ laneStopper'[o].pc = laneStopper[o].pc
      BY <1>3, <1>4, <2>1, <2>2
    <3>2. CASE u = t
      BY <1>6, <3>2 DEF TakenFates, Lane!Ended
    <3>3. CASE u # t
      <4>1. fate'[u] = fate[u]
        BY <1>6, <3>1, <3>3
      <4>2. laneStopper[o].pc = "cancel" /\ fate[u] = "pushed" => In(u, laneStopper'[o].left)
        BY <1>2, <1>4, <1>7, <3>1, <3>3 DEF LaneInv, Debts
      <4> QED
        BY <3>1, <4>1, <4>2 DEF LaneInv, Debts
    <3> QED
      BY <3>2, <3>3
  <2> QED
    BY <1>6, <2>2 DEF Debts
<1>12. Sequel'
  BY <1>3, <1>6 DEF LaneInv, Sequel
<1> QED
  BY <1>9, <1>10, <1>11, <1>12 DEF LaneInv

(* None is left.                                                           *)
LEMMA CancelledAll ==
  ASSUME LaneInv, Lane!TypeOK', NEW s \in Stoppers, Lane!Cancel(s), laneStopper[s].left = <<>> PROVE LaneInv'
<1>1. /\ UNCHANGED <<started, laneMutex, stopped, stopping, tasks, active, laneWorker, drainer, order>>
      /\ laneStopper[s].pc = "cancel" /\ Lane!StopAt(s, "wake") /\ UNCHANGED fate
  BY DEF Lane!Cancel
<1>2. laneWorker.pc = "exited"
  BY <1>1 DEF LaneInv, Shutdown
<1>3. ASSUME NEW t \in laneStopper[s].owed PROVE fate[t] \in Lane!Ended
  <2>1. t \in Lane!Tasks /\ fate[t] \in TakenFates
    BY DEF LaneInv, Lane!TypeOK, Debts
  <2>2. fate[t] # "pushed"
    BY <1>1, NoneInEmpty DEF LaneInv, Debts
  <2>3. fate[t] # "running"
    BY <1>2, <2>1 DEF LaneInv, Places
  <2> QED
    BY <2>1, <2>2, <2>3 DEF TakenFates, Lane!Ended
<1>4. "wake" \in StopperPcs /\ Working(s)
  BY <1>1 DEF StopperPcs, Working
<1> QED
  BY <1>1, <1>2, <1>3, <1>4, StopperMoves

LEMMA StopperKeeps == ASSUME LaneInv, Lane!TypeOK', NEW s \in Stoppers, Lane!Stopper(s) PROVE LaneInv'
<1>1. laneStopper[s].pc # "cancel" => laneStopper[s].left = <<>>
  BY DEF LaneInv, Shutdown
<1>2. CASE Lane!StoreStopping(s)
  <2>1. Working(s) /\ "notify" \in StopperPcs
    BY <1>2 DEF Lane!StoreStopping, Working, StopperPcs
  <2> QED
    BY <1>1, <1>2, <2>1, StopperMoves DEF Lane!StoreStopping
<1>3. CASE Lane!NotifyStop(s)
  <2>1. Working(s) /\ "join" \in StopperPcs
    BY <1>3 DEF Lane!NotifyStop, Working, StopperPcs
  <2>2. /\ laneWorker'.task = laneWorker.task
        /\ laneWorker.pc # "asleep" => laneWorker'.pc = laneWorker.pc
        /\ laneWorker.pc = "asleep" => laneWorker'.pc = "lock"
    BY <1>3, WakeWorkerPlace DEF LaneInv, Lane!NotifyStop
  <2> QED
    BY <1>1, <1>3, <2>1, <2>2, StopperMoves DEF Lane!NotifyStop
<1>4. CASE Lane!Join(s)
  <2>1. Working(s) /\ "sweep" \in StopperPcs
    BY <1>4 DEF Lane!Join, Working, StopperPcs
  <2> QED
    BY <1>1, <1>4, <2>1, StopperMoves DEF Lane!Join
<1>5. CASE Lane!Sweep(s)
  BY <1>5, SweepKeeps
<1>6. CASE Lane!Cancel(s)
  BY <1>6, CancelKeeps, CancelledAll
<1>7. CASE Lane!WakeIdle(s)
  <2>1. Working(s) /\ "returned" \in StopperPcs
    BY <1>7 DEF Lane!WakeIdle, Working, StopperPcs
  <2>2. laneWorker.pc = "exited" /\ \A t \in laneStopper[s].owed : fate[t] \in Lane!Ended
    BY <1>7 DEF LaneInv, Shutdown, Debts, Lane!WakeIdle
  <2>3. \A d \in Drainers : /\ drainer'[d].owed = drainer[d].owed
                            /\ drainer'[d].pc = "returned" => drainer[d].pc = "returned"
    <3>1. Lane!TypeOK /\ Lane!WakeDrainers
      BY <1>7 DEF LaneInv, Lane!WakeIdle
    <3> QED
      BY <3>1, WakeDrainersPlace
  <2> QED
    BY <1>1, <1>7, <2>1, <2>2, <2>3, StopperMoves DEF Lane!WakeIdle
<1> QED
  BY <1>2, <1>3, <1>4, <1>5, <1>6, <1>7 DEF Lane!Stopper

-----------------------------------------------------------------------------
(* The specification.                                                      *)

LEMMA WorkerKeeps == ASSUME LaneInv, Lane!TypeOK', Lane!Worker PROVE LaneInv'
<1>1. laneWorker \in [pc : WorkerPcs, task : Lane!Tasks]
  BY DEF LaneInv, Lane!TypeOK, WorkerPcs
<1>2. CASE Lane!Lock \/ Lane!Enroll \/ Lane!ClearActive
  <2>1. /\ UNCHANGED <<started, stopped, tasks, fate, laneStopper, order, drainer>>
        /\ laneWorker'.pc # "run" /\ laneWorker.pc # "run" /\ laneWorker.pc # "exited"
    BY <1>1, <1>2 DEF Lane!Lock, Lane!Enroll, Lane!ClearActive
  <2> QED
    BY <2>1, WorkerMoves
<1>3. CASE Lane!NotifyIdle
  <2>1. /\ UNCHANGED <<started, stopped, tasks, fate, laneStopper, order>>
        /\ laneWorker'.pc # "run" /\ laneWorker.pc # "run" /\ laneWorker.pc # "exited"
    BY <1>1, <1>3 DEF Lane!NotifyIdle
  <2>2. \A d \in Drainers : /\ drainer'[d].owed = drainer[d].owed
                            /\ drainer'[d].pc = "returned" => drainer[d].pc = "returned"
    <3>1. Lane!TypeOK /\ Lane!WakeDrainers
      BY <1>3 DEF LaneInv, Lane!NotifyIdle
    <3> QED
      BY <3>1, WakeDrainersPlace
  <2> QED
    BY <2>1, <2>2, WorkerMoves
<1>4. CASE Lane!Run
  BY <1>4, RunKeeps
<1>5. CASE Lane!Check
  <2>1. CASE UNCHANGED <<tasks, active, fate, order>>
             /\ (laneWorker' = [laneWorker EXCEPT !.pc = "exited"] \/ laneWorker' = [laneWorker EXCEPT !.pc = "enroll"])
    <3>1. /\ UNCHANGED <<started, stopped, tasks, fate, laneStopper, order, drainer>>
          /\ laneWorker'.pc # "run" /\ laneWorker.pc # "run" /\ laneWorker.pc # "exited"
      BY <1>1, <1>5, <2>1 DEF Lane!Check
    <3> QED
      BY <3>1, WorkerMoves
  <2>2. CASE /\ tasks # <<>> /\ tasks' = Tail(tasks)
             /\ laneWorker' = [pc |-> "run", task |-> Head(tasks)]
             /\ fate' = [fate EXCEPT ![Head(tasks)] = "running"]
             /\ order' = IF Head(tasks) \in Ahead THEN order
                         ELSE [order EXCEPT !.run = Append(@, Head(tasks))]
    BY <1>5, <2>2, TakeKeeps DEF Lane!Check
  <2> QED
    BY <1>5, <2>1, <2>2 DEF Lane!Check
<1> QED
  BY <1>2, <1>3, <1>4, <1>5 DEF Lane!Worker

LEMMA LaneStepKeeps == LaneInv /\ [Lane!Next]_(Lane!vars) => LaneInv'
<1> SUFFICES ASSUME LaneInv, [Lane!Next]_(Lane!vars) PROVE LaneInv'
  OBVIOUS
<1>1. Lane!TypeOK'
  BY LaneStepType DEF LaneInv
<1>2. CASE Lane!Start
  <2>1. CASE Lane!Enqueue(Probe)
    <3>1. Probe \in Lane!Tasks /\ fate[Probe] = "new" /\ ~started /\ started' = TRUE
      BY <1>2 DEF Lane!Tasks, Lane!Start, LaneInv, Places
    <3> QED
      BY <1>1, <1>2, <2>1, <3>1, EnqueueKeeps DEF Lane!Start
  <2>2. CASE UNCHANGED <<tasks, fate, order, laneWorker>>
    BY <1>1, <1>2, <2>2, WorkerMoves DEF Lane!Start
  <2> QED
    BY <1>2, <2>1, <2>2 DEF Lane!Start
<1>3. ASSUME NEW t \in Lane!Tasks, Lane!ReadStopping(t) PROVE LaneInv'
  BY <1>1, <1>3, ReadStoppingKeeps
<1>4. ASSUME NEW t \in Lane!Tasks, Lane!Push(t) PROVE LaneInv'
  <2>1. fate[t] = "checked" /\ t # Probe /\ Lane!Enqueue(t)
        /\ UNCHANGED <<started, laneMutex, stopped, stopping, active, drainer, laneStopper>>
    BY <1>4 DEF Lane!Push, LaneInv, Places
  <2>2. started' = TRUE
    <3>1. started
      BY <2>1 DEF LaneInv, Places
    <3>2. started \in BOOLEAN
      BY DEF LaneInv, Lane!TypeOK
    <3> QED
      BY <2>1, <3>1, <3>2
  <2> QED
    BY <1>1, <2>1, <2>2, EnqueueKeeps
<1>5. CASE UNCHANGED Lane!vars
  BY <1>5 DEF Lane!vars, LaneInv, Lane!TypeOK, Shutdown, Working, Places, Debts,
     Lane!DrainCoversTheLane, Sequel
<1> QED
  BY <1>1, <1>2, <1>3, <1>4, <1>5, WorkerKeeps, DrainKeeps, StopKeeps, StopperKeeps DEF Lane!Next

(* A task that was pushed is queued, run or swept, in one of these only,   *)
(* so it ends once: what runJob ran no stop() cancels.                     *)
LEMMA TasksAreInOnePlace == LaneInv => Lane!OnePlace
<1> SUFFICES ASSUME LaneInv PROVE Lane!OnePlace
  OBVIOUS
<1>1. /\ tasks \in Seq(Lane!Tasks) /\ DOMAIN tasks = 1..Len(tasks)
      /\ \A s \in Stoppers : /\ laneStopper[s].left \in Seq(Lane!Tasks)
                             /\ DOMAIN laneStopper[s].left = 1..Len(laneStopper[s].left)
  BY LenProperties DEF LaneInv, Lane!TypeOK
<1>2. Lane!IsInjective(tasks) /\ \A s \in Stoppers : Lane!IsInjective(laneStopper[s].left)
  BY <1>1 DEF LaneInv, Places, Apart, Lane!IsInjective
<1>3. ASSUME NEW q \in Seq(Lane!Tasks), DOMAIN q = 1..Len(q), NEW t \in Lane!Range(q)
      PROVE  t \in Lane!Tasks /\ In(t, q)
  <2>1. PICK i \in 1..Len(q) : t = q[i]
    BY <1>3 DEF Lane!Range
  <2> QED
    BY <2>1, ElementOfSeq DEF In
<1>4. ASSUME NEW t \in Lane!Range(tasks) PROVE fate[t] = "pushed"
  BY <1>1, <1>3 DEF LaneInv, Places
<1>5. ASSUME NEW s \in Stoppers, NEW t \in Lane!Range(laneStopper[s].left)
      PROVE  fate[t] = "pushed" /\ t \notin Lane!Range(tasks)
  BY <1>1, <1>3 DEF LaneInv, Places
<1>6. ASSUME NEW s \in Stoppers, NEW o \in Stoppers \ {s}
      PROVE  Lane!Range(laneStopper[s].left) \cap Lane!Range(laneStopper[o].left) = {}
  <2>1. laneStopper[s].left = <<>> \/ laneStopper[o].left = <<>>
    BY DEF LaneInv, Shutdown, Working
  <2>2. \A t : ~In(t, laneStopper[s].left) \/ ~In(t, laneStopper[o].left)
    BY <2>1, NoneInEmpty
  <2> QED
    BY <1>1, <1>3, <2>2
<1> QED
  BY <1>2, <1>4, <1>5, <1>6 DEF LaneInv, Places, Lane!OnePlace

(* drain() that is not cut short by stop() returns only when every task    *)
(* that was in the lane at the call has run to its end.                    *)
LEMMA DrainsAreComplete == LaneInv => Lane!DrainCoversTheLane
BY DEF LaneInv, Debts

(* After the stop() that did the work nothing runs, and every task that    *)
(* was in the lane at its beginning has run or was cancelled.              *)
LEMMA StopsAreComplete == LaneInv => Lane!StopLeavesNothing
<1> SUFFICES ASSUME LaneInv, NEW s \in Stoppers, laneStopper[s].pc = "returned",
                    \A o \in Stoppers \ {s} : laneStopper[o].pc \in {"idle", "returned"}
             PROVE  /\ \A t \in Lane!Tasks : fate[t] # "running"
                    /\ \A t \in laneStopper[s].owed : fate[t] \in Lane!Ended
  BY DEF Lane!StopLeavesNothing
<1>1. stopped /\ \A o \in Stoppers : ~Working(o)
  BY DEF LaneInv, Shutdown, Working
<1>2. laneWorker.pc = "exited"
  BY <1>1 DEF LaneInv, Shutdown
<1> QED
  BY <1>2 DEF LaneInv, Places, Debts

(* Ordinary tasks run in the order they were queued, the probe of start()  *)
(* before any job; only a drawer pulse overtakes.                          *)
LEMMA TasksRunInOrder == LaneInv => Lane!RunInOrder
<1> SUFFICES ASSUME LaneInv PROVE Lane!RunInOrder
  OBVIOUS
<1>1. PICK r \in Seq(Lane!Tasks), p \in Seq(Lane!Tasks) : r = order.run /\ p = order.pushed
  BY DEF LaneInv, Lane!TypeOK
<1>2. Len(r) \in Nat /\ Len(p) \in Nat /\ DOMAIN p = 1..Len(p)
  BY LenProperties
<1>3. Len(r) <= Len(p) /\ \A i \in 1..Len(r) : r[i] = p[i]
  BY <1>1 DEF LaneInv, Sequel, Begins
<1>4. SubSeq(r, 1, Len(r)) = SubSeq(p, 1, Len(r))
  BY <1>2, <1>3
<1>5. \A i \in DOMAIN p : p[i] = Probe => i = 1
  BY <1>1, <1>2 DEF LaneInv, Sequel
<1> QED
  BY <1>1, <1>3, <1>4, <1>5 DEF Lane!RunInOrder, Lane!IsPrefix

-----------------------------------------------------------------------------
(* Transports: close() and the reader.                                     *)

(* Where the threads of the transport are, and its counters.               *)
LinkTyped ==
  /\ readerAt \in {"none", "top", "waiting", "reading", "done"}
  /\ workerAt \in {"idle", "connecting", "open", "writing", "waking", "joining"}
  /\ peer \in {"up", "dropped"}
  /\ arriving \in Nat /\ reports \in Nat

(* The reader is between its start and its end.                            *)
Reads == readerAt \in {"top", "waiting", "reading"}

(* What the transport says of its end: one report, for a link that went    *)
(* away, and the reader looks for nothing else once it has seen the end.   *)
Reported ==
  /\ reports = (IF notified THEN 1 ELSE 0)
  /\ notified => peer = "dropped"
  /\ kind \in Link!Piped /\ readerAt = "reading" => arriving > 0 \/ peer = "dropped"

(* Who holds the descriptor and the wake pipe.  The reader of a socket has *)
(* ended when close() returns; a supplied link is unbound by then.  While  *)
(* the worker is in the transport only the teardown of a dropped link      *)
(* takes them from it.                                                     *)
Held ==
  /\ field <=> opened
  /\ workerAt # "idle" => kind \in Link!Sockets \cup {"custom"}
  /\ workerAt = "connecting" => kind = "custom"
  /\ workerAt = "waking" => kind \in Link!Piped
  /\ workerAt \in {"waking", "joining"} => kind \in Link!Sockets /\ closing
  /\ kind \in Link!Sockets /\ Reads => workerAt # "idle"
  /\ readerAt = "waiting" => kind \in Link!Sockets
  /\ kind = "custom" /\ workerAt = "idle" => ~field
  /\ kind \in Link!Piped /\ readerAt \in {"waiting", "reading"} => opened
  /\ kind = "bluez" /\ Reads /\ ~closing => opened
  /\ workerAt \in {"connecting", "open", "writing"} => opened \/ Link!TornDown
  /\ kind \in Link!Piped /\ workerAt \in {"open", "writing", "waking"} =>
        pipe \/ (kind = "serial" /\ Link!TornDown)

LinkInv == LinkTyped /\ Reported /\ Held /\ ~afterClose

(* Before the first connect.                                               *)
LEMMA LinkBegins == Link!Init => LinkInv
BY DEF Link!Init, LinkInv, LinkTyped, Reported, Held, Reads

(* connect() of the sockets and of a supplied link.                        *)
LEMMA LinkConnects ==
  ASSUME LinkInv, Link!SocketConnect \/ Link!CustomConnect \/ Link!CustomConnected
                  \/ Link!ConnectFails
  PROVE  LinkInv'
<1>1. LinkTyped'
  BY DEF LinkInv, LinkTyped, Link!SocketConnect, Link!CustomConnect, Link!CustomConnected,
         Link!ConnectFails, Link!Fresh
<1>2. Reported'
  BY DEF LinkInv, LinkTyped, Reported, Link!SocketConnect, Link!CustomConnect,
         Link!CustomConnected, Link!ConnectFails, Link!Fresh
<1>3. Held'
  <2>1. CASE Link!SocketConnect \/ Link!CustomConnect
    <3>1. /\ field' = TRUE /\ opened' = TRUE /\ kind' = kind /\ (pipe' <=> kind \in Link!Piped)
          /\ readerAt' = "top"
          /\ \/ kind \in Link!Sockets /\ workerAt' = "open"
             \/ kind = "custom" /\ workerAt' = "connecting"
      BY <2>1 DEF Link!SocketConnect, Link!CustomConnect, Link!Fresh
    <3> QED
      BY <3>1 DEF Held, Reads, Link!Sockets, Link!Piped
  <2>2. CASE Link!CustomConnected \/ Link!ConnectFails
    BY <2>2 DEF LinkInv, LinkTyped, Held, Reads, Link!CustomConnected, Link!ConnectFails,
           Link!Sockets, Link!Piped, Link!TornDown
  <2> QED
    BY <2>1, <2>2
<1>4. ~afterClose'
  BY DEF LinkInv, Link!SocketConnect, Link!CustomConnect, Link!CustomConnected,
         Link!ConnectFails, Link!Fresh
<1> QED
  BY <1>1, <1>2, <1>3, <1>4 DEF LinkInv

(* write() and close() of the printer's worker.                            *)
LEMMA LinkCloses ==
  ASSUME LinkInv, \/ Link!WriteBegins \/ Link!WriteReturns \/ Link!PipedClose
                  \/ Link!PipedWake
                  \/ Link!BluezClose \/ Link!CustomClose \/ Link!JoinReader
  PROVE  LinkInv'
<1>1. LinkTyped'
  BY DEF LinkInv, LinkTyped, Link!WriteBegins, Link!WriteReturns, Link!PipedClose, Link!PipedWake,
         Link!BluezClose, Link!CustomClose, Link!JoinReader
<1>2. Reported'
  BY DEF LinkInv, LinkTyped, Reported, Link!WriteBegins, Link!WriteReturns,
         Link!PipedClose, Link!PipedWake, Link!BluezClose, Link!CustomClose, Link!JoinReader
<1>3. Held'
  BY DEF LinkInv, LinkTyped, Held, Reads, Link!WriteBegins, Link!WriteReturns,
         Link!PipedClose, Link!PipedWake, Link!BluezClose, Link!CustomClose, Link!JoinReader, Link!Joinable,
         Link!Sockets, Link!Piped, Link!TornDown
<1>4. ~afterClose'
  BY DEF LinkInv, Link!WriteBegins, Link!WriteReturns, Link!PipedClose, Link!PipedWake,
         Link!BluezClose, Link!CustomClose, Link!JoinReader
<1> QED
  BY <1>1, <1>2, <1>3, <1>4 DEF LinkInv

(* What the reader of any transport does with a byte.                      *)
LEMMA LinkDelivers ==
  ASSUME LinkInv, Link!Deliver, Link!ReaderKeeps, Reads, workerAt # "idle"
  PROVE  LinkInv'
<1>1. LinkTyped'
  BY DEF LinkInv, LinkTyped, Link!Deliver, Link!ReaderKeeps
<1>2. Reported'
  BY DEF LinkInv, LinkTyped, Reported, Link!Deliver, Link!ReaderKeeps
<1>3. Held'
  BY DEF LinkInv, LinkTyped, Held, Reads, Link!Deliver, Link!ReaderKeeps, Link!Sockets,
         Link!Piped, Link!TornDown
<1>4. ~afterClose'
  BY DEF LinkInv, Held, Link!Deliver
<1> QED
  BY <1>1, <1>2, <1>3, <1>4 DEF LinkInv

-----------------------------------------------------------------------------
(* The reader leaves its loop, or goes on to read what arrived.            *)
LEMMA LinkMoves ==
  ASSUME LinkInv, Link!ReaderKeeps,
         UNCHANGED <<delivered, arriving, afterClose, reports, connected, field, opened, notified,
                     pipe>>,
         \/ readerAt' = "done"
         \/ readerAt' = "waiting" /\ readerAt = "top" /\ field /\ kind \in Link!Sockets
         \/ readerAt' = "reading" /\ readerAt = "waiting" /\ (arriving > 0 \/ peer = "dropped")
  PROVE  LinkInv'
<1>1. LinkTyped' /\ Reported' /\ ~afterClose'
  BY DEF LinkInv, LinkTyped, Reported, Link!ReaderKeeps
<1>2. Held'
  BY DEF LinkInv, LinkTyped, Held, Reads, Link!ReaderKeeps, Link!Sockets, Link!Piped,
         Link!TornDown
<1> QED
  BY <1>1, <1>2 DEF LinkInv

(* The reader reports the end: teardown(true), the dropped RFCOMM socket   *)
(* and a supplied link's linkDropped.                                      *)
LEMMA LinkReports ==
  ASSUME LinkInv, Link!ReaderKeeps, peer = "dropped", readerAt' = "done", arriving' = arriving,
         connected' = FALSE, ~afterClose',
         \/ /\ Link!Report /\ kind \in Link!Piped /\ field' = FALSE /\ opened' = FALSE
            /\ pipe' = (pipe /\ kind # "serial")
         \/ /\ Link!Report \/ UNCHANGED <<reports, notified>>
            /\ UNCHANGED <<field, opened, pipe>>
  PROVE  LinkInv'
<1>1. LinkTyped'
  BY DEF LinkInv, LinkTyped, Link!Report, Link!ReaderKeeps
<1>2. Reported'
  BY DEF LinkInv, LinkTyped, Reported, Link!Report, Link!ReaderKeeps
<1>3. Link!Report => reports' = 1
  BY DEF LinkInv, LinkTyped, Reported, Link!Report
<1>4. Link!TornDown => Link!TornDown'
  BY <1>3 DEF LinkInv, Reported, Link!TornDown, Link!Report, Link!ReaderKeeps
<1>5. Held'
  <2>1. CASE /\ Link!Report /\ kind \in Link!Piped /\ field' = FALSE /\ opened' = FALSE
             /\ pipe' = (pipe /\ kind # "serial")
    <3>1. Link!TornDown'
      BY <1>3, <2>1 DEF Link!TornDown, Link!ReaderKeeps
    <3>2. kind # "serial" => (pipe' <=> pipe)
      BY <2>1
    <3> QED
      BY <2>1, <3>1, <3>2 DEF LinkInv, LinkTyped, Held, Reads, Link!ReaderKeeps,
             Link!Sockets, Link!Piped, Link!TornDown
  <2>2. CASE UNCHANGED <<field, opened, pipe>>
    BY <1>4, <2>2 DEF LinkInv, LinkTyped, Held, Reads, Link!ReaderKeeps, Link!Sockets,
           Link!Piped
  <2> QED
    BY <2>1, <2>2
<1> QED
  BY <1>1, <1>2, <1>5 DEF LinkInv

(* A step of the reader.                                                   *)
LEMMA LinkReads == ASSUME LinkInv, Link!ReaderStep PROVE LinkInv'
<1>1. CASE Link!ReaderTop
  BY <1>1, LinkMoves DEF Link!ReaderTop, Link!Leave
<1>2. CASE Link!PipedWoken
  BY <1>2, LinkMoves DEF Link!PipedWoken, Link!Leave, Link!Read
<1>3. CASE Link!PipedRead
  <2>1. readerAt = "reading" /\ kind \in Link!Piped /\ Link!ReaderKeeps /\ workerAt # "idle"
        /\ Reads
    BY <1>3 DEF Link!PipedRead, LinkInv, Held, Reads, Link!Piped, Link!Sockets
  <2>2. CASE Link!Deliver
    BY <2>1, <2>2, LinkDelivers
  <2>3. CASE arriving = 0 /\ Link!TearDown
    <3>1. peer = "dropped"
      BY <2>1, <2>3 DEF LinkInv, LinkTyped, Reported
    <3>2. ~afterClose'
      BY <2>1, <2>3 DEF Link!TearDown, LinkInv
    <3> QED
      BY <2>1, <2>3, <3>1, <3>2, LinkReports DEF Link!TearDown
  <2> QED
    BY <1>3, <2>2, <2>3 DEF Link!PipedRead
<1>4. CASE Link!BluezWoken
  <2>1. readerAt = "waiting" /\ kind = "bluez" /\ Link!ReaderKeeps /\ workerAt # "idle"
    BY <1>4 DEF Link!BluezWoken, LinkInv, Held, Reads, Link!Sockets
  <2>2. CASE opened /\ arriving > 0 /\ Link!Read
    BY <2>1, <2>2, LinkMoves DEF Link!Read
  <2>3. CASE ~opened /\ closing /\ Link!Leave
    BY <2>1, <2>3, LinkMoves DEF Link!Leave
  <2>4. CASE arriving = 0 /\ (peer = "dropped" \/ ~opened) /\ ~closing /\ Link!BluezDrops
    <3>1. peer = "dropped"
      BY <2>1, <2>4 DEF LinkInv, Held, Reads
    <3>2. ~afterClose'
      BY <2>1, <2>4 DEF Link!BluezDrops, LinkInv
    <3> QED
      BY <2>1, <2>4, <3>1, <3>2, LinkReports DEF Link!BluezDrops
  <2> QED
    BY <1>4, <2>2, <2>3, <2>4 DEF Link!BluezWoken
<1>5. CASE Link!BluezRead
  <2>1. readerAt = "reading" /\ kind = "bluez" /\ Link!ReaderKeeps /\ Link!Deliver
    BY <1>5 DEF Link!BluezRead
  <2>2. Reads /\ workerAt # "idle"
    BY <2>1 DEF LinkInv, Held, Reads, Link!Sockets
  <2> QED
    BY <2>1, <2>2, LinkDelivers
<1>6. CASE Link!CustomFeed
  <2>1. readerAt = "top" /\ kind = "custom" /\ Link!ReaderKeeps
    BY <1>6 DEF Link!CustomFeed
  <2>2. CASE field /\ Link!Deliver
    <3>1. workerAt # "idle" /\ Reads
      BY <2>1, <2>2 DEF LinkInv, Held, Reads
    <3> QED
      BY <2>1, <2>2, <3>1, LinkDelivers
  <2>3. CASE ~field /\ Link!Leave
    BY <2>1, <2>3, LinkMoves DEF Link!Leave
  <2>4. CASE field /\ arriving = 0 /\ peer = "dropped" /\ Link!CustomDropped
    BY <2>1, <2>4, LinkReports DEF Link!CustomDropped, LinkInv
  <2> QED
    BY <1>6, <2>2, <2>3, <2>4 DEF Link!CustomFeed
<1> QED
  BY <1>1, <1>2, <1>3, <1>4, <1>5, <1>6 DEF Link!ReaderStep

(* A step of the transport, of its reader or of the printer.               *)
LEMMA LinkStep == LinkInv /\ [Link!Next]_(Link!lvars) => LinkInv'
<1> SUFFICES ASSUME LinkInv, [Link!Next]_(Link!lvars) PROVE LinkInv'
  OBVIOUS
<1>1. CASE Link!PeerSends \/ Link!PeerDrops
  BY <1>1 DEF LinkInv, LinkTyped, Reported, Held, Reads, Link!TornDown, Link!PeerSends,
         Link!PeerDrops
<1>2. CASE UNCHANGED Link!lvars
  BY <1>2 DEF Link!lvars, LinkInv, LinkTyped, Reported, Held, Reads, Link!TornDown
<1> QED
  BY <1>1, <1>2, LinkConnects, LinkCloses, LinkReads DEF Link!Next, Link!WorkerStep

(* A drop is reported once and only when there was one; nothing is called  *)
(* after close(); a descriptor is closed under a thread in three windows.  *)
LEMMA LinkPromises ==
  LinkInv => Link!OnlyRealDropsOnce /\ Link!SilentAfterClose /\ Link!OwnDescriptor
BY DEF LinkInv, LinkTyped, Reported, Held, Reads, Link!OnlyRealDropsOnce,
       Link!SilentAfterClose, Link!OwnDescriptor, Link!Sockets, Link!Piped

-----------------------------------------------------------------------------
(* The React Native bridge: questions to JavaScript, and tokens of jobs.   *)

(* A question keeps its number: with the thread that asks, as a task of    *)
(* the JavaScript thread, with its handler, in the table and as the object *)
(* that takes the answer.  Ids are counted up, so no table entry is ever   *)
(* met by a task or a handler of an earlier question.                      *)
Questions == [id : Nat, question : Nat]
Same(h) == h.id = h.question

QuestionsKept ==
  /\ asked \in Nat /\ nextId = asked + 1 /\ answer \in Seq(Nat) /\ Len(answer) = asked
  /\ jsTasks \in Seq(Questions) /\ \A i \in 1..Len(jsTasks) : Same(jsTasks[i])
  /\ handlers \in SUBSET Questions /\ \A h \in handlers : Same(h)
  /\ \A k \in DOMAIN table : k \in 1..asked /\ table[k] = k
  /\ \A t \in Bridge!Threads : thread[t].id = thread[t].object
  /\ \A o \in 1..Len(answer) : answer[o] \in {0, o}

(* Where the threads are.  The JavaScript thread is never parked in a call *)
(* of the driver that blocks: those run on other threads (runAsync).       *)
Asking == [at : {"running", "entered", "waiting", "leaving", "joined"}, id : Nat, object : Nat]
JsRunsFree ==
  /\ js = "loop"
  /\ thread \in [Bridge!Threads -> Asking]

(* Tokens are counted up, one for every pointer, and a pointer stands for  *)
(* one job as long as no address is used again.                            *)
TokensKept ==
  /\ generation \in Nat
  /\ IsFiniteSet(DOMAIN jobTokens)
  /\ \A p \in DOMAIN jobTokens : jobTokens[p] \in 1..Cardinality(DOMAIN jobTokens)
  /\ \A p, q \in DOMAIN jobTokens : jobTokens[p] = jobTokens[q] => p = q
  /\ \A g \in given : g[2] \in DOMAIN jobTokens /\ g[3] = jobTokens[g[2]]
  /\ \A a, b \in given : a[2] = b[2] => a[1] = b[1]

BridgeInv == QuestionsKept /\ JsRunsFree /\ TokensKept

(* A module just created.                                                  *)
LEMMA BridgeBegins == Bridge!Init => BridgeInv
<1> SUFFICES ASSUME Bridge!Init PROVE BridgeInv
  OBVIOUS
<1>1. QuestionsKept
  BY EmptySeq DEF Bridge!Init, QuestionsKept, Bridge!Idle
<1>2. JsRunsFree
  BY DEF Bridge!Init, JsRunsFree, Asking, Bridge!Idle
<1>3. TokensKept
  <2>1. DOMAIN jobTokens = {} /\ given = {} /\ generation = 1
    BY DEF Bridge!Init
  <2> QED
    BY <2>1, FS_EmptySet DEF TokensKept
<1> QED
  BY <1>1, <1>2, <1>3 DEF BridgeInv

(* A thread asks: the request, its object and its id have the same number, *)
(* and the answer is still to come.                                        *)
LEMMA BridgeAsks == ASSUME BridgeInv, NEW t \in Bridge!Threads, Bridge!ask(t) PROVE BridgeInv'
<1> DEFINE n == asked + 1
<1>1. /\ asked \in Nat /\ n \in Nat /\ answer \in Seq(Nat) /\ Len(answer) = asked
      /\ nextId = n /\ thread \in [Bridge!Threads -> Asking]
  BY DEF BridgeInv, QuestionsKept, JsRunsFree
<1>2. /\ asked' = n /\ nextId' = n + 1 /\ answer' = Append(answer, 0)
      /\ table' = [k \in DOMAIN table \cup {n} |-> IF k = n THEN n ELSE table[k]]
      /\ thread' = [thread EXCEPT ![t] = [at |-> "entered", id |-> n, object |-> n]]
      /\ UNCHANGED <<js, jsTasks, handlers, generation, jobTokens, given>>
  BY <1>1 DEF Bridge!ask, Bridge!NextId, Bridge!jsVars, Bridge!tokenVars
<1>3. QuestionsKept'
  <2>1. /\ answer' \in Seq(Nat) /\ Len(answer') = n /\ answer'[n] = 0
        /\ \A o \in 1..Len(answer) : answer'[o] = answer[o]
    BY <1>1, <1>2, AppendProperties
  <2>2. \A o \in 1..Len(answer') : answer'[o] \in {0, o}
    BY <1>1, <2>1 DEF BridgeInv, QuestionsKept
  <2>3. \A k \in DOMAIN table' : k \in 1..n /\ table'[k] = k
    BY <1>1, <1>2 DEF BridgeInv, QuestionsKept
  <2>4. \A u \in Bridge!Threads : thread'[u].id = thread'[u].object
    BY <1>1, <1>2 DEF BridgeInv, QuestionsKept
  <2> QED
    BY <1>1, <1>2, <2>1, <2>2, <2>3, <2>4 DEF BridgeInv, QuestionsKept
<1>4. JsRunsFree'
  <2>1. [at |-> "entered", id |-> n, object |-> n] \in Asking
    BY <1>1 DEF Asking
  <2> QED
    BY <1>1, <1>2, <2>1 DEF BridgeInv, JsRunsFree
<1>5. TokensKept'
  BY <1>2 DEF BridgeInv, TokensKept, Bridge!tokenVars
<1> QED
  BY <1>3, <1>4, <1>5 DEF BridgeInv

(* What only moves a thread on, within a question or to its end.           *)
LEMMA ThreadMoves ==
  ASSUME BridgeInv, NEW t \in Bridge!Threads,
         NEW a \in {"running", "entered", "waiting", "leaving", "joined"},
         thread' = [thread EXCEPT ![t].at = a]
  PROVE  /\ thread' \in [Bridge!Threads -> Asking]
         /\ \A u \in Bridge!Threads : thread'[u].id = thread'[u].object
<1>1. thread \in [Bridge!Threads -> Asking]
  BY DEF BridgeInv, JsRunsFree
<1> DEFINE r == [thread[t] EXCEPT !.at = a]
<1>2. thread[t] \in Asking
  BY <1>1
<1>3. r \in Asking /\ r.id = thread[t].id /\ r.object = thread[t].object
  BY <1>2 DEF Asking
<1>4. thread' = [thread EXCEPT ![t] = r]
  OBVIOUS
<1> HIDE DEF r
<1> QED
  BY <1>1, <1>3, <1>4 DEF BridgeInv, QuestionsKept

(* The question is posted.                                                 *)
LEMMA BridgePosts == ASSUME BridgeInv, NEW t \in Bridge!Threads, Bridge!Post(t) PROVE BridgeInv'
<1> DEFINE h == [id |-> thread[t].id, question |-> thread[t].object]
<1>1. /\ jsTasks' = Append(jsTasks, h) /\ jsTasks \in Seq(Questions)
      /\ thread' = [thread EXCEPT ![t].at = "waiting"]
      /\ UNCHANGED <<js, handlers, table, nextId, asked, answer, generation, jobTokens, given>>
  BY DEF BridgeInv, QuestionsKept, Bridge!Post, Bridge!tokenVars
<1>2. h \in Questions /\ Same(h)
  BY DEF BridgeInv, QuestionsKept, JsRunsFree, Asking, Questions, Same
<1>3. /\ thread' \in [Bridge!Threads -> Asking]
      /\ \A u \in Bridge!Threads : thread'[u].id = thread'[u].object
  BY <1>1, ThreadMoves
<1> HIDE DEF h
<1>4. /\ jsTasks' \in Seq(Questions) /\ Len(jsTasks') = Len(jsTasks) + 1
      /\ jsTasks'[Len(jsTasks) + 1] = h /\ Len(jsTasks) \in Nat
      /\ \A i \in 1..Len(jsTasks) : jsTasks'[i] = jsTasks[i]
  BY <1>1, <1>2, AppendProperties, LenProperties
<1>5. \A i \in 1..Len(jsTasks') : Same(jsTasks'[i])
  BY <1>2, <1>4 DEF BridgeInv, QuestionsKept
<1> QED
  BY <1>1, <1>3, <1>4, <1>5 DEF BridgeInv, QuestionsKept, JsRunsFree, TokensKept

(* The JavaScript thread takes a question, and answers one.                *)
LEMMA BridgeAnswersOne ==
  ASSUME BridgeInv, Bridge!RunTask \/ \E h \in handlers : Bridge!respond(h) PROVE BridgeInv'
<1>1. /\ asked \in Nat /\ answer \in Seq(Nat) /\ Len(answer) = asked
      /\ jsTasks \in Seq(Questions) /\ handlers \in SUBSET Questions
  BY DEF BridgeInv, QuestionsKept
<1>2. UNCHANGED <<js, thread, table, nextId, asked, generation, jobTokens, given>>
  BY DEF Bridge!RunTask, Bridge!respond, Bridge!askVars, Bridge!tokenVars
<1>3. CASE Bridge!RunTask
  <2>1. /\ jsTasks # <<>> /\ jsTasks' = Tail(jsTasks) /\ answer' = answer
        /\ handlers' = (IF mounted THEN handlers \cup {Head(jsTasks)} ELSE handlers)
    BY <1>3 DEF Bridge!RunTask, Bridge!askVars
  <2>2. /\ Head(jsTasks) = jsTasks[1] /\ Len(jsTasks) \in Nat \ {0}
        /\ jsTasks' \in Seq(Questions) /\ Len(jsTasks') = Len(jsTasks) - 1
        /\ \A i \in 1..Len(jsTasks') : jsTasks'[i] = jsTasks[i + 1]
    BY <1>1, <2>1
  <2>3. Head(jsTasks) \in Questions /\ Same(Head(jsTasks))
    BY <1>1, <2>2, ElementOfSeq DEF BridgeInv, QuestionsKept
  <2>4. \A i \in 1..Len(jsTasks') : Same(jsTasks'[i])
    <3> SUFFICES ASSUME NEW i \in 1..Len(jsTasks') PROVE Same(jsTasks'[i])
      OBVIOUS
    <3>1. i + 1 \in 1..Len(jsTasks)
      BY <2>2
    <3> QED
      BY <2>2, <3>1 DEF BridgeInv, QuestionsKept
  <2>5. QuestionsKept'
    BY <1>1, <1>2, <2>1, <2>2, <2>3, <2>4 DEF BridgeInv, QuestionsKept
  <2> QED
    BY <1>2, <2>5 DEF BridgeInv, JsRunsFree, TokensKept
<1>4. ASSUME NEW h \in handlers, Bridge!respond(h) PROVE BridgeInv'
  <2>1. /\ h \in Questions /\ Same(h) /\ handlers' = handlers \ {h} /\ jsTasks' = jsTasks
        /\ answer' = IF h.id \in DOMAIN table
                       THEN [answer EXCEPT ![table[h.id]] = h.question] ELSE answer
    BY <1>4 DEF Bridge!respond, BridgeInv, QuestionsKept
  <2>2. /\ answer' \in Seq(Nat) /\ Len(answer') = Len(answer)
        /\ \A o \in 1..Len(answer') : answer'[o] \in {0, o}
    <3>1. CASE h.id \in DOMAIN table
      <4>1. answer' = [answer EXCEPT ![h.id] = h.id] /\ h.id \in 1..Len(answer) /\ h.id \in Nat
        BY <1>1, <2>1, <3>1 DEF BridgeInv, QuestionsKept, Same, Questions
      <4>2. answer' \in Seq(Nat) /\ Len(answer') = Len(answer)
        BY <1>1, <4>1, ExceptSeq
      <4>3. \A o \in 1..Len(answer) : answer'[o] = answer[o] \/ answer'[o] = o
        BY <1>1, <4>1
      <4> QED
        BY <4>2, <4>3 DEF BridgeInv, QuestionsKept
    <3>2. CASE h.id \notin DOMAIN table
      BY <2>1, <3>2 DEF BridgeInv, QuestionsKept
    <3> QED
      BY <3>1, <3>2
  <2>3. QuestionsKept'
    BY <1>1, <1>2, <2>1, <2>2 DEF BridgeInv, QuestionsKept
  <2> QED
    BY <1>2, <2>3 DEF BridgeInv, JsRunsFree, TokensKept
<1> QED
  BY <1>3, <1>4

-----------------------------------------------------------------------------
(* A wait ends, the runtime goes, a driver is destroyed and another made.  *)
LEMMA BridgeMoves ==
  ASSUME BridgeInv,
         \/ \E t \in Bridge!Threads : Bridge!Wake(t) \/ Bridge!AskReturns(t) \/ Bridge!Join(t)
         \/ Bridge!Unmount \/ Bridge!destroy \/ Bridge!Destroyed \/ Bridge!create
  PROVE  BridgeInv'
<1>1. /\ UNCHANGED <<jsTasks, nextId, asked, answer, jobTokens, given>>
      /\ handlers' = handlers \/ handlers' = {}
      /\ table' = table \/ \E k : table' = Bridge!Without(table, k)
      /\ js' = js \/ js' = "loop"
  BY DEF Bridge!Wake, Bridge!AskReturns, Bridge!Join, Bridge!Unmount, Bridge!destroy, Bridge!Destroy,
         Bridge!Destroyed, Bridge!create, Bridge!jsVars, Bridge!askVars, Bridge!tokenVars
<1>2. /\ thread' \in [Bridge!Threads -> Asking]
      /\ \A u \in Bridge!Threads : thread'[u].id = thread'[u].object
  <2>1. /\ thread \in [Bridge!Threads -> Asking] /\ Bridge!Idle \in Asking
        /\ Bridge!Idle.id = Bridge!Idle.object
        /\ \A u \in Bridge!Threads : thread[u].id = thread[u].object
    BY DEF BridgeInv, QuestionsKept, JsRunsFree, Bridge!Idle, Asking
  <2>2. CASE UNCHANGED thread
    BY <2>1, <2>2
  <2>3. ASSUME NEW t \in Bridge!Threads, Bridge!Wake(t) \/ Bridge!Join(t)
        PROVE  /\ thread' \in [Bridge!Threads -> Asking]
               /\ \A u \in Bridge!Threads : thread'[u].id = thread'[u].object
    BY <2>3, ThreadMoves DEF Bridge!Wake, Bridge!Join
  <2>4. ASSUME NEW t \in Bridge!Threads, thread' = [thread EXCEPT ![t] = Bridge!Idle]
        PROVE  /\ thread' \in [Bridge!Threads -> Asking]
               /\ \A u \in Bridge!Threads : thread'[u].id = thread'[u].object
    BY <2>1, <2>4
  <2>5. CASE Bridge!create
    <3>1. thread' = [t \in Bridge!Threads |-> IF t \in CoreThreads THEN Bridge!Idle ELSE thread[t]]
      BY <2>5 DEF Bridge!create
    <3> QED
      BY <2>1, <3>1
  <2> QED
    BY <2>2, <2>3, <2>4, <2>5 DEF Bridge!AskReturns, Bridge!Unmount, Bridge!destroy,
                                  Bridge!Destroyed, Bridge!askVars
<1>3. QuestionsKept' /\ JsRunsFree'
  <2>1. \A k \in DOMAIN table' : k \in 1..asked /\ table'[k] = k
    BY <1>1 DEF BridgeInv, QuestionsKept, Bridge!Without
  <2> QED
    BY <1>1, <1>2, <2>1 DEF BridgeInv, QuestionsKept, JsRunsFree
<1>4. TokensKept'
  <2>1. generation' \in Nat
    BY DEF BridgeInv, TokensKept, Bridge!Wake, Bridge!AskReturns, Bridge!Join, Bridge!Unmount,
           Bridge!destroy, Bridge!Destroyed, Bridge!create, Bridge!tokenVars
  <2> QED
    BY <1>1, <2>1 DEF BridgeInv, TokensKept
<1> QED
  BY <1>3, <1>4 DEF BridgeInv

(* The bridge counts as the library does.                                  *)
LEMMA SameCount == \A S : Bridge!Cardinality(S) = Cardinality(S)
BY DEF Bridge!Cardinality, Cardinality

(* A token is handed out: the pointer's own, or one nobody has.            *)
LEMMA BridgeToken == ASSUME BridgeInv, NEW p \in Pointers, Bridge!tokenForJob(p) PROVE BridgeInv'
<1> DEFINE D == DOMAIN jobTokens
           n == Cardinality(D)
           k == Bridge!TokenFor(p)
<1>1. /\ given' = given \cup {<<generation, p, k>>}
      /\ jobTokens' = [q \in D \cup {p} |-> IF q = p THEN k ELSE jobTokens[q]]
      /\ \A g \in given : g[2] = p => g[1] = generation
      /\ UNCHANGED <<js, jsTasks, handlers, thread, table, nextId, asked, answer, generation>>
  BY DEF Bridge!tokenForJob, Bridge!Allocated, Bridge!jsVars, Bridge!askVars
<1>2. /\ IsFiniteSet(D) /\ n \in Nat /\ \A q \in D : jobTokens[q] \in 1..n
      /\ \A q, r \in D : jobTokens[q] = jobTokens[r] => q = r
      /\ \A g \in given : g[2] \in D /\ g[3] = jobTokens[g[2]]
      /\ \A a, b \in given : a[2] = b[2] => a[1] = b[1]
      /\ generation \in Nat
  BY FS_CardinalityType DEF BridgeInv, TokensKept
<1>3. /\ DOMAIN jobTokens' = D \cup {p} /\ IsFiniteSet(D \cup {p}) /\ jobTokens'[p] = k
      /\ \A q \in D : q # p => jobTokens'[q] = jobTokens[q]
      /\ Cardinality(D \cup {p}) = IF p \in D THEN n ELSE n + 1
  BY <1>1, <1>2, FS_AddElement
<1>4. /\ p \in D => k = jobTokens[p]
      /\ p \notin D => k = n + 1
  BY SameCount DEF Bridge!TokenFor
<1> HIDE DEF D, n, k
<1>5. \A q \in D : jobTokens'[q] = jobTokens[q]
  BY <1>3, <1>4
<1>6. \A q \in D \cup {p} : jobTokens'[q] \in 1..Cardinality(D \cup {p})
  BY <1>2, <1>3, <1>4, <1>5
<1>7. \A q, r \in D \cup {p} : jobTokens'[q] = jobTokens'[r] => q = r
  <2>1. p \notin D => \A q \in D : jobTokens'[q] # k
    BY <1>2, <1>4, <1>5
  <2> QED
    BY <1>2, <1>3, <1>5, <2>1
<1>8. \A g \in given' : g[2] \in DOMAIN jobTokens' /\ g[3] = jobTokens'[g[2]]
  BY <1>1, <1>2, <1>3, <1>5
<1>9. \A a, b \in given' : a[2] = b[2] => a[1] = b[1]
  BY <1>1, <1>2
<1>10. TokensKept'
  BY <1>1, <1>2, <1>3, <1>6, <1>7, <1>8, <1>9 DEF TokensKept
<1> QED
  BY <1>1, <1>10 DEF BridgeInv, QuestionsKept, JsRunsFree

(* A step of the bridge.                                                   *)
LEMMA BridgeStep == BridgeInv /\ [Bridge!Next]_(Bridge!vars) => BridgeInv'
<1> SUFFICES ASSUME BridgeInv, [Bridge!Next]_(Bridge!vars) PROVE BridgeInv'
  OBVIOUS
<1>1. CASE UNCHANGED Bridge!vars
  BY <1>1 DEF Bridge!vars, Bridge!jsVars, Bridge!askVars, Bridge!tokenVars, BridgeInv,
              QuestionsKept, JsRunsFree, TokensKept
<1> QED
  BY <1>1, BridgeAsks, BridgePosts, BridgeAnswersOne, BridgeMoves, BridgeToken
     DEF Bridge!Next, Bridge!Asks

(* Answers reach their own question, the JavaScript thread is parked in    *)
(* its own matcher only, and a token is the identity of its job.           *)
LEMMA BridgePromises ==
  BridgeInv => /\ Bridge!AnswersItsOwnQuestion /\ Bridge!ParkedOnlyInMatcher
               /\ Bridge!TokenIsIdentity
<1> SUFFICES ASSUME BridgeInv PROVE /\ Bridge!AnswersItsOwnQuestion /\ Bridge!ParkedOnlyInMatcher
                                    /\ Bridge!TokenIsIdentity
  OBVIOUS
<1>1. Bridge!AnswersItsOwnQuestion
  <2>1. DOMAIN answer = 1..Len(answer)
    BY LenProperties DEF BridgeInv, QuestionsKept
  <2> QED
    BY <2>1 DEF BridgeInv, QuestionsKept, Bridge!AnswersItsOwnQuestion
<1>2. Bridge!ParkedOnlyInMatcher
  BY DEF BridgeInv, JsRunsFree, Bridge!ParkedOnlyInMatcher, Bridge!JsFree
<1>3. Bridge!TokenIsIdentity
  BY DEF BridgeInv, TokensKept, Bridge!TokenIsIdentity
<1> QED
  BY <1>1, <1>2, <1>3

-----------------------------------------------------------------------------
(* The agent's HTTP server: the queue and the listening socket.            *)

(* The socket is there for as long as the accept thread runs, and what it  *)
(* accepted is a connection.                                               *)
HttpInv ==
  /\ Http!TypeOK
  /\ acceptor \in [at : {"none", "check", "poll", "accepted", "notify", "exited"},
                   conn : Conns \cup {"none"}]
  /\ httpQueue \in Seq(Conns \cup {"none"})
  /\ acceptor.at \in {"check", "poll", "accepted", "notify"} => listener # "closed"

(* A server that was not started.                                          *)
LEMMA HttpBegins == ASSUME MaxQueued \in Nat PROVE Http!Init => HttpInv
<1> SUFFICES ASSUME Http!Init PROVE HttpInv
  OBVIOUS
<1>1. httpQueue \in Seq(Conns \cup {"none"}) /\ Len(httpQueue) <= MaxQueued
  <2>1. httpQueue = <<>> /\ Len(<<>>) = 0
    BY DEF Http!Init
  <2> QED
    BY <2>1, EmptySeq
<1>2. acceptor.at = "none" /\ acceptor \in [at : {"none"}, conn : {"none"}]
  BY DEF Http!Init
<1>3. /\ httpWorker \in [Workers -> {"none"}] /\ conn \in [Conns -> {"out"}]
      /\ running = FALSE /\ listener = "closed" /\ httpStopper = "idle"
  BY DEF Http!Init
<1> QED
  BY <1>1, <1>2, <1>3 DEF HttpInv, Http!TypeOK, Http!Ended

(* start() and stop().                                                     *)
LEMMA HttpStops ==
  ASSUME MaxQueued \in Nat, HttpInv, Http!Start \/ Http!StopBegins \/ Http!StopStep
  PROVE  HttpInv'
<1>1. /\ httpQueue' = httpQueue \/ httpQueue' = <<>>
      /\ UNCHANGED acceptor \/ acceptor' = [at |-> "check", conn |-> "none"]
  BY DEF Http!Start, Http!StopBegins, Http!StopStep, Http!StopShutsDown,
         Http!StopJoinsAcceptor, Http!StopNotifies, Http!StopEnds
<1>2. httpQueue' \in Seq(Conns \cup {"none"}) /\ Len(httpQueue') <= MaxQueued
  <2>1. CASE httpQueue' = <<>>
    <3>1. Len(<<>>) = 0
      OBVIOUS
    <3> QED
      BY <2>1, <3>1, EmptySeq
  <2> QED
    BY <1>1, <2>1 DEF HttpInv, Http!TypeOK
<1>3. /\ acceptor' \in [at : {"none", "check", "poll", "accepted", "notify", "exited"},
                        conn : Conns \cup {"none"}]
      /\ acceptor'.at \in {"none", "check", "poll", "accepted", "notify", "exited"}
  BY <1>1 DEF HttpInv
<1>4. /\ running' \in BOOLEAN /\ listener' \in {"closed", "open", "shut"}
      /\ httpStopper' \in {"idle", "shutdown", "joinAcceptor", "notify", "joinWorkers", "done"}
  BY DEF HttpInv, Http!TypeOK, Http!Start, Http!StopBegins, Http!StopStep,
         Http!StopShutsDown, Http!StopJoinsAcceptor, Http!StopNotifies, Http!StopEnds
<1>5. httpWorker' \in [Workers -> {"none", "test", "dozing", "asleep", "serving", "exited"}]
  BY DEF HttpInv, Http!TypeOK, Http!Start, Http!StopBegins, Http!StopStep,
         Http!StopShutsDown, Http!StopJoinsAcceptor, Http!StopNotifies, Http!StopEnds
<1>6. conn' \in [Conns -> {"out", "backlog", "accepted", "queued", "served"} \cup Http!Ended]
  BY DEF HttpInv, Http!TypeOK, Http!Start, Http!StopBegins, Http!StopStep, Http!Reset,
         Http!StopShutsDown, Http!StopJoinsAcceptor, Http!StopNotifies, Http!StopEnds,
         Http!Ended
<1>7. acceptor'.at \in {"check", "poll", "accepted", "notify"} => listener' # "closed"
  BY DEF HttpInv, Http!TypeOK, Http!Start, Http!StopBegins, Http!StopStep,
         Http!StopShutsDown, Http!StopJoinsAcceptor, Http!StopNotifies, Http!StopEnds
<1> QED
  BY <1>2, <1>3, <1>4, <1>5, <1>6, <1>7 DEF HttpInv, Http!TypeOK

(* The accept thread.                                                      *)
LEMMA HttpAccepts == ASSUME MaxQueued \in Nat, HttpInv, Http!AcceptStep PROVE HttpInv'
<1> DEFINE A == [at : {"none", "check", "poll", "accepted", "notify", "exited"},
                 conn : Conns \cup {"none"}]
           C == [Conns -> {"out", "backlog", "accepted", "queued", "served"} \cup Http!Ended]
<1>1. /\ acceptor \in A /\ conn \in C /\ httpQueue \in Seq(Conns \cup {"none"})
      /\ Len(httpQueue) \in Nat /\ acceptor.at \in {"check", "poll", "accepted", "notify"}
      /\ listener # "closed" /\ Len(httpQueue) <= MaxQueued
  BY LenProperties DEF HttpInv, Http!TypeOK, Http!AcceptStep, Http!AcceptLoops, Http!Accept,
                       Http!Enqueue, Http!NotifyOne
<1>2. UNCHANGED <<running, listener, httpStopper>>
  BY DEF Http!AcceptStep, Http!AcceptLoops, Http!Accept, Http!Enqueue, Http!NotifyOne
<1>3. acceptor' \in A
  <2>1. ASSUME NEW a \in {"none", "check", "poll", "accepted", "notify", "exited"},
               acceptor' = [acceptor EXCEPT !.at = a]
        PROVE  acceptor' \in A
    BY <1>1, <2>1
  <2>2. \/ \E a \in {"check", "poll", "exited"} : acceptor' = [acceptor EXCEPT !.at = a]
        \/ \E c \in Conns : acceptor' = [at |-> "accepted", conn |-> c]
        \/ \E a \in {"check", "notify"} : acceptor' = [at |-> a, conn |-> "none"]
    BY DEF Http!AcceptStep, Http!AcceptLoops, Http!Accept, Http!Enqueue, Http!NotifyOne
  <2> QED
    BY <2>1, <2>2
<1>4. conn' \in C
  <2>1. conn' = conn \/ \E c \in Conns \cup {"none"} :
          \E how \in {"accepted", "refused", "queued"} : conn' = [conn EXCEPT ![c] = how]
    BY <1>1 DEF Http!AcceptStep, Http!AcceptLoops, Http!Accept, Http!Enqueue, Http!NotifyOne
  <2> QED
    BY <1>1, <2>1 DEF Http!Ended
<1>5. httpQueue' \in Seq(Conns \cup {"none"}) /\ Len(httpQueue') <= MaxQueued
  <2>1. CASE UNCHANGED httpQueue
    BY <1>1, <2>1
  <2>2. CASE ~Http!Overflow /\ httpQueue' = Append(httpQueue, acceptor.conn)
    <3>1. httpQueue' \in Seq(Conns \cup {"none"}) /\ Len(httpQueue') = Len(httpQueue) + 1
      BY <1>1, <2>2, AppendProperties
    <3> QED
      BY <1>1, <2>2, <3>1 DEF Http!Overflow
  <2> QED
    BY <2>1, <2>2 DEF Http!AcceptStep, Http!AcceptLoops, Http!Accept, Http!Enqueue,
                      Http!NotifyOne
<1>6. httpWorker' \in [Workers -> {"none", "test", "dozing", "asleep", "serving", "exited"}]
  BY DEF HttpInv, Http!TypeOK, Http!AcceptStep, Http!AcceptLoops, Http!Accept, Http!Enqueue,
         Http!NotifyOne
<1> QED
  BY <1>1, <1>2, <1>3, <1>4, <1>5, <1>6 DEF HttpInv, Http!TypeOK

(* A worker, and a client that connects.                                   *)
LEMMA HttpServes ==
  ASSUME MaxQueued \in Nat, HttpInv,
         (\E w \in Workers : Http!WorkerStep(w)) \/ \E c \in Conns : Http!Connect(c)
  PROVE  HttpInv'
<1> DEFINE C == [Conns -> {"out", "backlog", "accepted", "queued", "served"} \cup Http!Ended]
<1>1. conn \in C /\ httpQueue \in Seq(Conns \cup {"none"}) /\ Len(httpQueue) <= MaxQueued
      /\ UNCHANGED <<running, listener, httpStopper, acceptor>>
  BY DEF HttpInv, Http!TypeOK, Http!WorkerStep, Http!WorkerTests, Http!WorkerSleeps,
         Http!WorkerServes, Http!Connect
<1>2. conn' \in C
  <2>1. conn' = conn \/ \E c, how : /\ how \in {"backlog", "served", "answered", "closed"}
                                    /\ conn' = [conn EXCEPT ![c] = how]
    BY DEF Http!WorkerStep, Http!WorkerTests, Http!WorkerSleeps, Http!WorkerServes, Http!Connect
  <2> QED
    BY <1>1, <2>1 DEF Http!Ended
<1>3. httpQueue' \in Seq(Conns \cup {"none"}) /\ Len(httpQueue') <= MaxQueued
  <2>1. CASE httpQueue # <<>> /\ httpQueue' = Tail(httpQueue)
    <3>1. /\ httpQueue' \in Seq(Conns \cup {"none"}) /\ Len(httpQueue') = Len(httpQueue) - 1
          /\ Len(httpQueue) \in Nat
      BY <1>1, <2>1
    <3> QED
      BY <1>1, <3>1
  <2> QED
    BY <1>1, <2>1 DEF Http!WorkerStep, Http!WorkerTests, Http!WorkerSleeps, Http!WorkerServes,
                      Http!Connect
<1>4. httpWorker' \in [Workers -> {"none", "test", "dozing", "asleep", "serving", "exited"}]
  BY DEF HttpInv, Http!TypeOK, Http!WorkerStep, Http!WorkerTests, Http!WorkerSleeps,
         Http!WorkerServes, Http!Connect
<1> QED
  BY <1>1, <1>2, <1>3, <1>4 DEF HttpInv, Http!TypeOK

(* A step of the server: the socket outlives the thread that polls it.     *)
LEMMA HttpStep == ASSUME MaxQueued \in Nat PROVE HttpInv /\ [Http!Next]_(Http!vars) => HttpInv'
<1> SUFFICES ASSUME HttpInv, [Http!Next]_(Http!vars) PROVE HttpInv'
  OBVIOUS
<1>1. CASE UNCHANGED Http!vars
  BY <1>1 DEF Http!vars, HttpInv, Http!TypeOK
<1> QED
  BY <1>1, HttpStops, HttpAccepts, HttpServes DEF Http!Next

-----------------------------------------------------------------------------
(* The registries of custom methods.                                       *)

Frame == [at : {"called", "ready", "locked", "calling"}, op : {"add", "use"},
          kind : Registry!Kinds, id : Ids, valid : BOOLEAN, body : Nat]
Registration == [id : Ids, body : Nat]

(* In a table no id comes twice, and every registration a caller was told  *)
(* of is there.                                                            *)
RegistryInv ==
  /\ tables \in [Registry!Kinds -> Seq(Registration)]
  /\ frames \in [Registrars -> Seq(Frame)]
  /\ begun \in Nat
  /\ \A k \in Registry!Kinds : \A i, j \in 1..Len(tables[k]) :
       tables[k][i].id = tables[k][j].id => i = j
  /\ told \subseteq Registry!Kinds \X Ids \X Nat
  /\ \A r \in told : \E i \in 1..Len(tables[r[1]]) :
       tables[r[1]][i] = [id |-> r[2], body |-> r[3]]

(* Before anything was registered.                                         *)
LEMMA RegistryBegins == Registry!Init => RegistryInv
<1> SUFFICES ASSUME Registry!Init PROVE RegistryInv
  OBVIOUS
<1>1. tables \in [Registry!Kinds -> Seq(Registration)] /\ frames \in [Registrars -> Seq(Frame)]
  BY EmptySeq DEF Registry!Init
<1>2. \A k \in Registry!Kinds : tables[k] = <<>>
  BY DEF Registry!Init
<1>3. told = {} /\ begun = 0 /\ Len(<<>>) = 0
  BY DEF Registry!Init
<1> QED
  BY <1>1, <1>2, <1>3 DEF RegistryInv

(* The innermost operation of a thread, replaced or returned from.         *)
LEMMA FramesStay ==
  ASSUME frames \in [Registrars -> Seq(Frame)], NEW t \in Registrars, frames[t] # <<>>
  PROVE  /\ Registry!Top(t) \in Frame
         /\ \A f \in Frame : Registry!Goes(t, f) => frames' \in [Registrars -> Seq(Frame)]
         /\ Registry!Returns(t) => frames' \in [Registrars -> Seq(Frame)]
<1>1. frames[t] \in Seq(Frame) /\ Len(frames[t]) \in Nat \ {0}
  BY EmptySeq, LenProperties
<1>2. Len(frames[t]) \in 1..Len(frames[t])
  BY <1>1
<1>3. Registry!Top(t) \in Frame
  BY <1>1, <1>2, ElementOfSeq DEF Registry!Top
<1>4. ASSUME NEW f \in Frame, Registry!Goes(t, f) PROVE frames' \in [Registrars -> Seq(Frame)]
  <2>1. [frames[t] EXCEPT ![Len(frames[t])] = f] \in Seq(Frame)
    BY <1>1, <1>2, ExceptSeq
  <2> QED
    BY <1>4, <2>1 DEF Registry!Goes
<1>5. ASSUME Registry!Returns(t) PROVE frames' \in [Registrars -> Seq(Frame)]
  <2>1. SubSeq(frames[t], 1, Len(frames[t]) - 1) \in Seq(Frame)
    BY <1>1
  <2> QED
    BY <1>5, <2>1 DEF Registry!Returns
<1> QED
  BY <1>3, <1>4, <1>5

(* A call begins, waits for the lock, takes it or comes back.              *)
LEMMA RegistryMoves ==
  ASSUME RegistryInv, frames' \in [Registrars -> Seq(Frame)], begun' \in Nat,
         UNCHANGED <<tables, told>>
  PROVE  RegistryInv'
BY DEF RegistryInv

(* A thread calls in.                                                      *)
LEMMA RegistryCalls ==
  ASSUME RegistryInv, NEW t \in Registrars, NEW op \in {"add", "use"}, NEW k \in Registry!Kinds,
         NEW id \in Ids, NEW valid \in BOOLEAN, Registry!Call(t, op, k, id, valid)
  PROVE  RegistryInv'
<1> DEFINE f == [at |-> "called", op |-> op, kind |-> k, id |-> id, valid |-> valid,
                 body |-> begun + 1]
<1>1. begun \in Nat /\ begun' = begun + 1 /\ UNCHANGED <<tables, told>>
      /\ frames' = [frames EXCEPT ![t] = Append(@, f)]
  BY DEF RegistryInv, Registry!Call
<1>2. f \in Frame
  BY <1>1 DEF Frame
<1> HIDE DEF f
<1>3. Append(frames[t], f) \in Seq(Frame)
  BY <1>2, AppendProperties DEF RegistryInv
<1>4. frames' \in [Registrars -> Seq(Frame)]
  BY <1>1, <1>3 DEF RegistryInv
<1> QED
  BY <1>1, <1>4, RegistryMoves

(* add...(): in the critical section an id that is not taken gets its      *)
(* place at the end of its table.                                          *)
LEMMA RegistryAdds == ASSUME RegistryInv, NEW t \in Registrars, Registry!Add(t) PROVE RegistryInv'
<1> DEFINE f == Registry!Top(t)
           e == [id |-> f.id, body |-> f.body]
<1>1. /\ frames[t] # <<>> /\ f.at = "locked" /\ f \in Frame
      /\ frames' \in [Registrars -> Seq(Frame)] /\ UNCHANGED begun
  BY FramesStay DEF RegistryInv, Registry!Add, Registry!At
<1>2. CASE UNCHANGED <<tables, told>>
  BY <1>1, <1>2, RegistryMoves DEF RegistryInv
<1>3. CASE /\ Registry!Checked(f)
           /\ tables' = [tables EXCEPT ![f.kind] = Append(@, e)]
           /\ told' = told \cup {<<f.kind, f.id, f.body>>}
  <2>1. PICK k \in Registry!Kinds, id \in Ids, b \in Nat :
          f.kind = k /\ f.id = id /\ f.body = b
    BY <1>1 DEF Frame
  <2>2. ~Registry!Taken(k, id)
    BY <1>1, <1>3, <2>1 DEF Registry!Checked
  <2> DEFINE q == tables[k]
             r == [id |-> id, body |-> b]
             p == Append(q, r)
  <2>3. /\ tables' = [tables EXCEPT ![k] = p] /\ told' = told \cup {<<k, id, b>>}
        /\ q \in Seq(Registration) /\ r \in Registration /\ DOMAIN q = 1..Len(q)
        /\ Len(q) \in Nat
    BY <1>3, <2>1, LenProperties DEF RegistryInv, Registration
  <2>4. \A i \in 1..Len(q) : q[i].id # id
    BY <2>2, <2>3 DEF Registry!Taken
  <2>5. /\ p \in Seq(Registration) /\ Len(p) = Len(q) + 1 /\ p[Len(q) + 1] = r
        /\ \A i \in 1..Len(q) : p[i] = q[i]
    BY <2>3, AppendProperties
  <2>6. \A i, j \in 1..Len(q) : q[i].id = q[j].id => i = j
    BY DEF RegistryInv
  <2>7. r.id = id
    OBVIOUS
  <2> HIDE DEF p, q, r
  <2>8. \A i, j \in 1..Len(p) : p[i].id = p[j].id => i = j
    <3> SUFFICES ASSUME NEW i \in 1..Len(p), NEW j \in 1..Len(p), p[i].id = p[j].id
                 PROVE  i = j
      OBVIOUS
    <3>1. CASE i \in 1..Len(q) /\ j \in 1..Len(q)
      BY <2>5, <2>6, <3>1
    <3>2. CASE i = Len(q) + 1 /\ j \in 1..Len(q)
      BY <2>4, <2>5, <2>7, <3>2
    <3>3. CASE i \in 1..Len(q) /\ j = Len(q) + 1
      BY <2>4, <2>5, <2>7, <3>3
    <3> QED
      BY <2>3, <2>5, <3>1, <3>2, <3>3
  <2>9. /\ tables' \in [Registry!Kinds -> Seq(Registration)] /\ tables'[k] = p
        /\ \A x \in Registry!Kinds : x # k => tables'[x] = tables[x]
    BY <2>3, <2>5 DEF RegistryInv
  <2>10. \A x \in Registry!Kinds : \A i, j \in 1..Len(tables'[x]) :
           tables'[x][i].id = tables'[x][j].id => i = j
    BY <2>8, <2>9 DEF RegistryInv
  <2>11. told' \subseteq Registry!Kinds \X Ids \X Nat
    BY <2>3 DEF RegistryInv
  <2>12. ASSUME NEW x \in told'
         PROVE  \E i \in 1..Len(tables'[x[1]]) : tables'[x[1]][i] = [id |-> x[2], body |-> x[3]]
    <3>1. CASE x = <<k, id, b>>
      <4>1. Len(q) + 1 \in 1..Len(p)
        BY <2>3, <2>5
      <4> QED
        BY <2>5, <2>9, <3>1, <4>1 DEF r
    <3>2. CASE x \in told
      <4>1. x[1] \in Registry!Kinds
        BY <3>2 DEF RegistryInv
      <4>2. PICK i \in 1..Len(tables[x[1]]) : tables[x[1]][i] = [id |-> x[2], body |-> x[3]]
        BY <3>2 DEF RegistryInv
      <4>3. CASE x[1] = k
        <5>1. i \in 1..Len(p) /\ p[i] = [id |-> x[2], body |-> x[3]]
          BY <2>3, <2>5, <4>2, <4>3 DEF q
        <5> QED
          BY <2>9, <4>3, <5>1
      <4>4. CASE x[1] # k
        BY <2>9, <4>1, <4>2, <4>4
      <4> QED
        BY <4>3, <4>4
    <3> QED
      BY <2>3, <2>12, <3>1, <3>2
  <2> QED
    BY <1>1, <2>9, <2>10, <2>11, <2>12 DEF RegistryInv
<1> QED
  BY <1>2, <1>3 DEF Registry!Add

(* The other steps of a thread: the callback of an entry that is there is  *)
(* called outside the lock, and all of them leave the tables alone.        *)
LEMMA RegistryUses ==
  ASSUME RegistryInv, NEW t \in Registrars,
         \/ Registry!Validate(t) \/ Registry!Lock(t) \/ Registry!Use(t)
         \/ Registry!CallbackReturns(t)
  PROVE  RegistryInv'
<1> DEFINE f == Registry!Top(t)
<1>1. /\ frames[t] # <<>> /\ f \in Frame /\ UNCHANGED <<tables, told, begun>>
      /\ \A g \in Frame : Registry!Goes(t, g) => frames' \in [Registrars -> Seq(Frame)]
      /\ Registry!Returns(t) => frames' \in [Registrars -> Seq(Frame)]
  BY FramesStay DEF RegistryInv, Registry!Validate, Registry!Lock, Registry!Use,
                    Registry!CallbackReturns, Registry!At
<1>2. [f EXCEPT !.at = "ready"] \in Frame /\ [f EXCEPT !.at = "locked"] \in Frame
  BY <1>1 DEF Frame
<1>3. ASSUME Registry!Taken(f.kind, f.id)
      PROVE  [f EXCEPT !.at = "calling", !.body = Registry!Entry(f.kind, f.id).body] \in Frame
  <2>1. PICK k \in Registry!Kinds, id \in Ids : f.kind = k /\ f.id = id
    BY <1>1 DEF Frame
  <2>2. \E i \in DOMAIN tables[k] : tables[k][i].id = id
    BY <1>3, <2>1 DEF Registry!Taken
  <2>3. PICK i \in DOMAIN tables[k] : Registry!Entry(k, id) = tables[k][i]
    BY <2>2 DEF Registry!Entry
  <2>4. tables[k] \in Seq(Registration) /\ i \in 1..Len(tables[k])
    BY <2>3, LenProperties DEF RegistryInv
  <2>5. tables[k][i] \in Registration
    BY <2>4, ElementOfSeq
  <2>6. Registry!Entry(k, id).body \in Nat
    BY <2>3, <2>5 DEF Registration
  <2> QED
    BY <1>1, <2>1, <2>6 DEF Frame
<1>4. frames' \in [Registrars -> Seq(Frame)]
  BY <1>1, <1>2, <1>3 DEF Registry!Validate, Registry!Lock, Registry!Use,
                          Registry!CallbackReturns
<1> QED
  BY <1>1, <1>4, RegistryMoves DEF RegistryInv

(* A step of the registries.                                               *)
LEMMA RegistryStep == RegistryInv /\ [Registry!Next]_(Registry!vars) => RegistryInv'
<1> SUFFICES ASSUME RegistryInv, [Registry!Next]_(Registry!vars) PROVE RegistryInv'
  OBVIOUS
<1>1. CASE UNCHANGED Registry!vars
  BY <1>1 DEF Registry!vars, RegistryInv
<1> QED
  BY <1>1, RegistryCalls, RegistryAdds, RegistryUses DEF Registry!Next, Registry!Step

(* Whoever was told its registration was accepted is the one that is found.*)
LEMMA RegistryPromises == RegistryInv => Registry!AcceptedIsFound
<1> SUFFICES ASSUME RegistryInv, NEW r \in told
             PROVE  Registry!Taken(r[1], r[2]) /\ Registry!Entry(r[1], r[2]).body = r[3]
  BY DEF Registry!AcceptedIsFound
<1>1. PICK k \in Registry!Kinds, id \in Ids, b \in Nat : r[1] = k /\ r[2] = id /\ r[3] = b
  BY DEF RegistryInv
<1>2. PICK i \in 1..Len(tables[k]) : tables[k][i] = [id |-> id, body |-> b]
  BY <1>1 DEF RegistryInv
<1>3. DOMAIN tables[k] = 1..Len(tables[k]) /\ tables[k] \in Seq(Registration)
  BY LenProperties DEF RegistryInv
<1>4. \A j \in DOMAIN tables[k] : tables[k][j].id = id => j = i
  <2>1. tables[k][i].id = id
    BY <1>2
  <2>2. \A j \in 1..Len(tables[k]) : tables[k][j].id = tables[k][i].id => j = i
    BY <1>2 DEF RegistryInv
  <2> QED
    BY <1>3, <2>1, <2>2
<1>5. Registry!Taken(k, id)
  BY <1>2, <1>3 DEF Registry!Taken
<1>6. Registry!Entry(k, id) = tables[k][i]
  BY <1>2, <1>3, <1>4 DEF Registry!Entry
<1> QED
  BY <1>1, <1>2, <1>5, <1>6

-----------------------------------------------------------------------------
(* Handles of the C API and of the Android binding: who is where when the  *)
(* driver is closed.                                                       *)

LifeStages == {"open", "closed", "destroyed", "stopped", "freed", "refsGone", "gone"}
CallerPlaces == {"start", "submitted", "refused", "logging", "holding", "subscribed", "out"}

(* The stages in which the handles of the jobs are there.                  *)
HandlesThere == life \in {"open", "closed", "destroyed", "stopped"}

HandlesTyped ==
  /\ life \in LifeStages /\ minted \in Nat
  /\ session \in {"none", "reading", "calling", "entered", "ended"}
  /\ caller \in [Callers -> [at : CallerPlaces, key : Keys]]
  /\ \A j \in DOMAIN coreJob : coreJob[j] \in {"queued", "running", "ended"}

(* What closing waited for: nobody is inside a call once it began, every   *)
(* job has ended when the workers are joined, and no reader is left when   *)
(* the binding's own handle goes.                                          *)
ClosedInOrder ==
  /\ life # "open" => \A c \in Callers : caller[c].at \in {"start", "holding", "out"}
  /\ life \notin {"open", "closed", "destroyed"} => \A j \in DOMAIN coreJob : coreJob[j] = "ended"
  /\ life = "gone" => session \in {"none", "ended"}

(* What a subscription refers to is there for as long as it can be called. *)
ReferencesHold ==
  /\ \A s \in subscribers :
       /\ life \notin {"refsGone", "gone"} => s.context \in contexts
       /\ HandlesThere => s.job \in DOMAIN interned
  /\ HandlesThere => \A c \in Callers :
       caller[c].at = "holding" => caller[c].key \in DOMAIN interned

(* Handles are numbered, one for each job, and the pairs threads were given*)
(* are those of the table.                                                 *)
HandlesMatch ==
  /\ \A i \in DOMAIN interned : interned[i] \in 1..minted
  /\ \A i, j \in DOMAIN interned : interned[i] = interned[j] => i = j
  /\ HandlesThere => \A p \in handlesReturned :
                       p[1] \in DOMAIN interned /\ interned[p[1]] = p[2]
  /\ Handles!OneHandlePerJob

HandlesInv ==
  HandlesTyped /\ ClosedInOrder /\ ReferencesHold /\ HandlesMatch /\ touched = {}

(* How far closing has got, by name.                                       *)
LEMMA StagesPast ==
  ASSUME life \in LifeStages
  PROVE  /\ Handles!Past("destroyed") <=> life \notin {"open", "closed"}
         /\ Handles!Past("freed") <=> ~HandlesThere
         /\ Handles!Past("gone") <=> life = "gone"
<1> DEFINE S == <<"open", "closed", "destroyed", "stopped", "freed", "refsGone", "gone">>
<1>1. /\ DOMAIN S = 1..7 /\ S[1] = "open" /\ S[2] = "closed" /\ S[3] = "destroyed"
      /\ S[4] = "stopped" /\ S[5] = "freed" /\ S[6] = "refsGone" /\ S[7] = "gone"
  OBVIOUS
<1>2. Handles!Stages = S
  BY DEF Handles!Stages
<1> HIDE DEF S
<1>3. PICK n \in 1..7 : S[n] = life /\ \A m \in 1..7 : S[m] = life => m = n
  BY <1>1 DEF LifeStages
<1>4. \A k \in 1..7 : Handles!Past(S[k]) <=> n >= k
  <2> SUFFICES ASSUME NEW k \in 1..7 PROVE Handles!Past(S[k]) <=> n >= k
    OBVIOUS
  <2>1. \A i \in 1..7 : S[i] = S[k] => i = k
    BY <1>1
  <2> QED
    BY <1>1, <1>2, <1>3, <2>1 DEF Handles!Past
<1>5. /\ Handles!Past("destroyed") <=> n >= 3
      /\ Handles!Past("freed") <=> n >= 5
      /\ Handles!Past("gone") <=> n >= 7
  BY <1>1, <1>4
<1> QED
  BY <1>1, <1>3, <1>5 DEF HandlesThere

(* Handles may be touched while they are there.                            *)
LEMMA HandlesUsed ==
  ASSUME HandlesInv, Handles!UseHandle, HandlesThere PROVE touched' = {}
BY StagesPast DEF HandlesInv, HandlesTyped, Handles!UseHandle

(* A driver just created.                                                  *)
LEMMA HandlesBegin == Handles!Init => HandlesInv
<1> SUFFICES ASSUME Handles!Init PROVE HandlesInv
  OBVIOUS
<1>1. HandlesTyped
  <2>1. caller \in [Callers -> [at : CallerPlaces, key : Keys]]
    <3>1. \A k \in Keys : [at |-> "start", key |-> k] \in [at : CallerPlaces, key : Keys]
      BY DEF CallerPlaces
    <3>2. caller \in [Callers -> {[at |-> "start", key |-> k] : k \in Keys}]
      BY DEF Handles!Init
    <3> QED
      BY <3>1, <3>2
  <2> QED
    BY <2>1 DEF Handles!Init, HandlesTyped, LifeStages
<1>2. ClosedInOrder
  BY DEF Handles!Init, ClosedInOrder
<1>3. ReferencesHold
  <2>1. \A c \in Callers : caller[c].at = "start"
    BY DEF Handles!Init
  <2> QED
    BY <2>1 DEF Handles!Init, ReferencesHold
<1>4. HandlesMatch
  BY DEF Handles!Init, HandlesMatch, Handles!OneHandlePerJob
<1> QED
  BY <1>1, <1>2, <1>3, <1>4 DEF HandlesInv, Handles!Init

(* An application thread moves on without a handle of its own.             *)
LEMMA CallerGoes ==
  ASSUME HandlesInv, NEW c \in Callers, NEW a \in CallerPlaces \ {"holding"}, Handles!Goto(c, a),
         life = "open" \/ a = "out", touched' = {},
         UNCHANGED <<life, coreJob, interned, minted, handlesReturned, contexts, subscribers,
                     session>>
  PROVE  HandlesInv'
<1>1. /\ caller \in [Callers -> [at : CallerPlaces, key : Keys]]
      /\ caller' = [caller EXCEPT ![c].at = a]
  BY DEF HandlesInv, HandlesTyped, Handles!Goto
<1>2. /\ caller' \in [Callers -> [at : CallerPlaces, key : Keys]] /\ caller'[c].at = a
      /\ \A d \in Callers : d # c => caller'[d] = caller[d]
  BY <1>1
<1>3. HandlesTyped'
  BY <1>2 DEF HandlesInv, HandlesTyped
<1>4. ClosedInOrder'
  BY <1>2 DEF HandlesInv, ClosedInOrder
<1>5. ReferencesHold'
  BY <1>2 DEF HandlesInv, ReferencesHold, HandlesThere
<1>6. HandlesMatch'
  BY DEF HandlesInv, HandlesMatch, HandlesThere, Handles!OneHandlePerJob
<1> QED
  BY <1>3, <1>4, <1>5, <1>6 DEF HandlesInv

(* internJob: a job that has no handle gets the next number; the pair the  *)
(* thread is given is the table's.                                         *)
LEMMA HandleInterned ==
  ASSUME HandlesInv, NEW c \in Callers, Handles!internJob(c) PROVE HandlesInv'
<1> DEFINE j == caller[c].key
           h == interned'[j]
<1>1. /\ caller[c].at = "submitted" /\ minted' = minted + 1 /\ minted \in Nat
      /\ interned' = [i \in DOMAIN interned \cup {j} |->
                        IF i \in DOMAIN interned THEN interned[i] ELSE minted + 1]
      /\ handlesReturned' = handlesReturned \cup {<<j, h>>}
      /\ caller' = [caller EXCEPT ![c].at = "holding"] /\ Handles!UseHandle
      /\ UNCHANGED <<life, coreJob, contexts, subscribers, session>>
  BY DEF HandlesInv, HandlesTyped, Handles!internJob, Handles!Interned, Handles!Job,
         Handles!Goto, Handles!At
<1>2. life = "open" /\ HandlesThere
  BY <1>1 DEF HandlesInv, ClosedInOrder, HandlesThere
<1>3. touched' = {}
  BY <1>1, <1>2, HandlesUsed
<1>4. /\ DOMAIN interned' = DOMAIN interned \cup {j}
      /\ \A i \in DOMAIN interned : interned'[i] = interned[i]
      /\ j \notin DOMAIN interned => h = minted + 1
  BY <1>1
<1>5. /\ \A i \in DOMAIN interned : interned[i] \in 1..minted
      /\ \A i, k \in DOMAIN interned : interned[i] = interned[k] => i = k
      /\ \A p \in handlesReturned : p[1] \in DOMAIN interned /\ interned[p[1]] = p[2]
  BY <1>2 DEF HandlesInv, HandlesMatch
<1> HIDE DEF j, h
<1>6. \A i \in DOMAIN interned' : interned'[i] \in 1..minted'
  <2>1. interned'[j] = h
    BY DEF h
  <2> QED
    BY <1>1, <1>4, <1>5, <2>1
<1>7. \A i, k \in DOMAIN interned' : interned'[i] = interned'[k] => i = k
  <2>1. j \notin DOMAIN interned => \A i \in DOMAIN interned : interned'[i] # interned'[j]
    <3>1. j \notin DOMAIN interned => interned'[j] = minted + 1
      BY <1>4 DEF h
    <3> QED
      BY <1>1, <1>4, <1>5, <3>1
  <2> QED
    BY <1>4, <1>5, <2>1
<1>8. \A p \in handlesReturned' : p[1] \in DOMAIN interned' /\ interned'[p[1]] = p[2]
  <2>1. \A p \in handlesReturned : p[1] \in DOMAIN interned' /\ interned'[p[1]] = p[2]
    BY <1>4, <1>5
  <2>2. <<j, h>>[1] = j /\ <<j, h>>[2] = h /\ interned'[j] = h
    BY DEF h
  <2> QED
    BY <1>1, <1>4, <2>1, <2>2
<1>9. Handles!OneHandlePerJob'
  BY <1>7, <1>8 DEF Handles!OneHandlePerJob
<1>10. HandlesMatch'
  BY <1>6, <1>7, <1>8, <1>9 DEF HandlesMatch
<1>11. /\ caller' \in [Callers -> [at : CallerPlaces, key : Keys]] /\ caller'[c].key = j
       /\ \A d \in Callers : d # c => caller'[d] = caller[d]
  <2>1. caller \in [Callers -> [at : CallerPlaces, key : Keys]] /\ "holding" \in CallerPlaces
    BY DEF HandlesInv, HandlesTyped, CallerPlaces
  <2> QED
    BY <1>1, <2>1 DEF j
<1>12. HandlesTyped'
  BY <1>1, <1>11 DEF HandlesInv, HandlesTyped
<1>13. ClosedInOrder'
  BY <1>1, <1>2 DEF HandlesInv, ClosedInOrder
<1>14. ReferencesHold'
  BY <1>1, <1>2, <1>4, <1>11 DEF HandlesInv, ReferencesHold, HandlesThere
<1> QED
  BY <1>3, <1>10, <1>12, <1>13, <1>14 DEF HandlesInv

-----------------------------------------------------------------------------
(* subscribeJob: the context is there before the core can call it.         *)
LEMMA JobSubscribed ==
  ASSUME HandlesInv, NEW c \in Callers, Handles!subscribeJob(c) PROVE HandlesInv'
<1> DEFINE s == [job |-> caller[c].key, handle |-> interned[caller[c].key], context |-> c]
<1>1. /\ caller[c].at = "holding" /\ life = "open" /\ contexts' = contexts \cup {c}
      /\ subscribers' = subscribers \cup {s} /\ Handles!UseHandle
      /\ caller' = [caller EXCEPT ![c].at = "subscribed"]
      /\ UNCHANGED <<life, coreJob, interned, minted, handlesReturned, session>>
  BY DEF Handles!subscribeJob, Handles!Job, Handles!Goto, Handles!At
<1>2. HandlesThere
  BY <1>1 DEF HandlesThere
<1>3. touched' = {}
  BY <1>1, <1>2, HandlesUsed
<1>4. s.job \in DOMAIN interned /\ s.context = c
  BY <1>1, <1>2 DEF HandlesInv, ReferencesHold
<1> HIDE DEF s
<1>5. /\ caller' \in [Callers -> [at : CallerPlaces, key : Keys]] /\ caller'[c].at = "subscribed"
      /\ \A d \in Callers : d # c => caller'[d] = caller[d]
  <2>1. caller \in [Callers -> [at : CallerPlaces, key : Keys]] /\ "subscribed" \in CallerPlaces
    BY DEF HandlesInv, HandlesTyped, CallerPlaces
  <2> QED
    BY <1>1, <2>1
<1>6. HandlesTyped'
  BY <1>1, <1>5 DEF HandlesInv, HandlesTyped
<1>7. ClosedInOrder'
  BY <1>1 DEF HandlesInv, ClosedInOrder
<1>8. ReferencesHold'
  BY <1>1, <1>2, <1>4, <1>5 DEF HandlesInv, ReferencesHold, HandlesThere
<1>9. HandlesMatch'
  BY <1>1 DEF HandlesInv, HandlesMatch, HandlesThere, Handles!OneHandlePerJob
<1> QED
  BY <1>3, <1>6, <1>7, <1>8, <1>9 DEF HandlesInv

(* pd_print and its like, setError, the log hook and pd_job_await.         *)
LEMMA HandlesCalled ==
  ASSUME HandlesInv, NEW c \in Callers, Handles!CallerStep(c) PROVE HandlesInv'
<1>1. CASE Handles!Submit(c)
  <2>1. life = "open" /\ HandlesThere /\ Handles!UseHandle
    BY <1>1 DEF Handles!Submit, HandlesThere
  <2>2. touched' = {}
    BY <2>1, HandlesUsed
  <2>3. /\ caller' = [caller EXCEPT ![c].at = "submitted"]
        /\ UNCHANGED <<life, interned, minted, handlesReturned, contexts, subscribers, session>>
        /\ \/ coreJob' = coreJob
           \/ \E j : coreJob' = [k \in DOMAIN coreJob \cup {j} |->
                                   IF k = j THEN "queued" ELSE coreJob[k]]
    BY <1>1 DEF Handles!Submit, Handles!Goto
  <2>4. /\ caller' \in [Callers -> [at : CallerPlaces, key : Keys]]
        /\ caller'[c].at = "submitted" /\ \A d \in Callers : d # c => caller'[d] = caller[d]
    <3>1. caller \in [Callers -> [at : CallerPlaces, key : Keys]] /\ "submitted" \in CallerPlaces
      BY DEF HandlesInv, HandlesTyped, CallerPlaces
    <3> QED
      BY <2>3, <3>1
  <2>5. \A j \in DOMAIN coreJob' : coreJob'[j] \in {"queued", "running", "ended"}
    BY <2>3 DEF HandlesInv, HandlesTyped
  <2>6. HandlesTyped'
    BY <2>3, <2>4, <2>5 DEF HandlesInv, HandlesTyped
  <2>7. ClosedInOrder'
    BY <2>1, <2>3 DEF HandlesInv, ClosedInOrder
  <2>8. ReferencesHold'
    BY <2>3, <2>4 DEF HandlesInv, ReferencesHold, HandlesThere
  <2>9. HandlesMatch'
    BY <2>3 DEF HandlesInv, HandlesMatch, HandlesThere, Handles!OneHandlePerJob
  <2> QED
    BY <2>2, <2>6, <2>7, <2>8, <2>9 DEF HandlesInv
<1>2. CASE \/ Handles!Refused(c) \/ Handles!SetError(c) \/ Handles!LogHook(c)
           \/ Handles!jobAwait(c) \/ Handles!checkOpen(c)
  <2>1. PICK a \in {"refused", "logging", "out"} :
          /\ Handles!Goto(c, a)
          /\ caller[c].at \in {"start", "refused", "logging", "subscribed", "holding"}
          /\ a = "out" \/ caller[c].at # "start" \/ life = "open"
          /\ a # "out" => caller[c].at # "holding"
    BY <1>2 DEF Handles!Refused, Handles!SetError, Handles!LogHook, Handles!jobAwait,
                Handles!checkOpen, Handles!At
  <2>2. UNCHANGED <<life, coreJob, interned, minted, handlesReturned, contexts, subscribers,
                    session>>
    BY <1>2 DEF Handles!Refused, Handles!SetError, Handles!LogHook, Handles!jobAwait,
                Handles!checkOpen
  <2>3. a = "out" \/ life = "open"
    BY <2>1 DEF HandlesInv, ClosedInOrder
  <2>4. touched' = {}
    <3>1. CASE UNCHANGED touched
      BY <3>1 DEF HandlesInv
    <3>2. CASE /\ Handles!UseHandle /\ ~Handles!checkOpen(c)
               /\ caller[c].at \in {"start", "logging", "subscribed"}
      <4>1. life = "open"
        BY <1>2, <3>2 DEF Handles!Refused, Handles!SetError, Handles!LogHook, Handles!jobAwait,
                          Handles!At, HandlesInv, ClosedInOrder
      <4> QED
        BY <3>2, <4>1, HandlesUsed DEF HandlesThere
    <3> QED
      BY <1>2, <3>1, <3>2 DEF Handles!Refused, Handles!SetError, Handles!LogHook,
                              Handles!jobAwait, Handles!checkOpen, Handles!At
  <2>5. a \in CallerPlaces \ {"holding"}
    BY DEF CallerPlaces
  <2> QED
    BY <2>1, <2>2, <2>3, <2>4, <2>5, CallerGoes
<1> QED
  BY <1>1, <1>2, HandleInterned, JobSubscribed DEF Handles!CallerStep

(* A job's state goes on, or it ends at the shutdown: its subscribers are  *)
(* called with contexts and handles that are still there.                  *)
LEMMA HandlesWork == ASSUME HandlesInv, Handles!WorkerStep PROVE HandlesInv'
<1>1. CASE Handles!TransportConnect
  <2>1. PICK j \in DOMAIN coreJob : coreJob[j] = "queued"
    BY <1>1 DEF Handles!TransportConnect
  <2>2. /\ session' = "reading"
        /\ UNCHANGED <<life, coreJob, interned, minted, handlesReturned, caller, contexts,
                       subscribers, touched>>
    BY <1>1 DEF Handles!TransportConnect
  <2>3. life \in {"open", "closed", "destroyed"}
    BY <2>1 DEF HandlesInv, ClosedInOrder
  <2> QED
    BY <2>2, <2>3 DEF HandlesInv, HandlesTyped, ClosedInOrder, ReferencesHold, HandlesMatch,
                      HandlesThere, Handles!OneHandlePerJob
<1>2. ASSUME NEW j \in DOMAIN coreJob, Handles!JobEvent(j) \/ Handles!EndUnreached(j)
      PROVE  HandlesInv'
  <2>1. /\ coreJob[j] # "ended"
        /\ UNCHANGED <<life, interned, minted, handlesReturned, caller, contexts, subscribers,
                       session>>
    BY <1>2 DEF Handles!JobEvent, Handles!EndUnreached
  <2>2. life \in {"open", "closed", "destroyed"}
    BY <2>1 DEF HandlesInv, ClosedInOrder
  <2>3. \A s \in subscribers : s.context \in contexts /\ s.job \in DOMAIN interned
    BY <2>2 DEF HandlesInv, ReferencesHold, HandlesThere
  <2>4. touched' = {}
    <3>1. \A s \in subscribers : Handles!UseContext(s.context) = {}
      BY <2>3 DEF Handles!UseContext
    <3>2. CASE Handles!JobEvent(j)
      <4>1. touched' = touched \cup UNION {Handles!UseContext(s.context)
                \cup (IF s.job \in DOMAIN interned THEN {} ELSE {"handle"})
                : s \in {x \in subscribers : x.job = j}}
        BY <3>2 DEF Handles!JobEvent
      <4>2. \A s \in subscribers : Handles!UseContext(s.context)
                \cup (IF s.job \in DOMAIN interned THEN {} ELSE {"handle"}) = {}
        BY <2>3, <3>1
      <4> QED
        BY <4>1, <4>2 DEF HandlesInv
    <3>3. CASE Handles!EndUnreached(j)
      BY <3>1, <3>3 DEF Handles!EndUnreached, HandlesInv
    <3> QED
      BY <1>2, <3>2, <3>3
  <2>5. \A k \in DOMAIN coreJob' : coreJob'[k] \in {"queued", "running", "ended"}
    <3>1. coreJob[j] \in {"queued", "running"}
      BY <2>1 DEF HandlesInv, HandlesTyped
    <3>2. Handles!NextState[coreJob[j]] \in {"running", "ended"}
      BY <3>1 DEF Handles!NextState
    <3>3. \E x \in {"running", "ended"} : coreJob' = [coreJob EXCEPT ![j] = x]
      BY <1>2, <3>2 DEF Handles!JobEvent, Handles!EndUnreached
    <3> QED
      BY <3>3 DEF HandlesInv, HandlesTyped
  <2>6. HandlesTyped'
    BY <2>1, <2>5 DEF HandlesInv, HandlesTyped
  <2>7. ClosedInOrder'
    BY <2>1, <2>2 DEF HandlesInv, ClosedInOrder
  <2>8. ReferencesHold' /\ HandlesMatch'
    BY <2>1 DEF HandlesInv, ReferencesHold, HandlesMatch, HandlesThere, Handles!OneHandlePerJob
  <2> QED
    BY <2>4, <2>6, <2>7, <2>8 DEF HandlesInv
<1> QED
  BY <1>1, <1>2 DEF Handles!WorkerStep

(* The reader thread: it feeds the link only before the flag is set, and   *)
(* takes the binding's lock only while the binding is there.               *)
LEMMA HandlesRead == ASSUME HandlesInv, Handles!ReaderStep PROVE HandlesInv'
<1>1. /\ session' \in {"calling", "entered", "reading", "ended"}
      /\ session' # "ended" => session \notin {"none", "ended"}
      /\ UNCHANGED <<life, coreJob, interned, minted, handlesReturned, caller, contexts,
                     subscribers>>
  BY DEF Handles!ReaderStep, Handles!ReadReturns, Handles!EnterFeed, Handles!Feed,
         Handles!ReaderEnds
<1>2. touched' = {}
  <2>1. life \in LifeStages /\ touched = {} /\ life = "gone" => session \in {"none", "ended"}
    BY DEF HandlesInv, HandlesTyped, ClosedInOrder
  <2>2. CASE Handles!EnterFeed
    <3>1. life # "gone"
      BY <2>2 DEF HandlesInv, ClosedInOrder, Handles!EnterFeed
    <3>2. ~Handles!Past("gone")
      BY <3>1, StagesPast DEF HandlesInv, HandlesTyped
    <3> QED
      BY <2>2, <3>2 DEF Handles!EnterFeed, Handles!UseBinding, HandlesInv
  <2>3. CASE Handles!Feed
    <3>1. CASE Handles!FeedAllowed
      <4>1. life \in {"open", "closed"}
        BY <3>1, StagesPast DEF Handles!FeedAllowed, HandlesInv, HandlesTyped
      <4> QED
        BY <2>3, <3>1, <4>1, HandlesUsed DEF Handles!Feed, HandlesThere
    <3> QED
      BY <2>3, <3>1 DEF Handles!Feed, HandlesInv
  <2>4. CASE Handles!ReadReturns \/ Handles!ReaderEnds
    BY <2>4 DEF Handles!ReadReturns, Handles!ReaderEnds, HandlesInv
  <2> QED
    BY <2>2, <2>3, <2>4 DEF Handles!ReaderStep
<1>3. HandlesTyped' /\ ClosedInOrder'
  BY <1>1 DEF HandlesInv, HandlesTyped, ClosedInOrder
<1>4. ReferencesHold' /\ HandlesMatch'
  BY <1>1 DEF HandlesInv, ReferencesHold, HandlesMatch, HandlesThere, Handles!OneHandlePerJob
<1> QED
  BY <1>2, <1>3, <1>4 DEF HandlesInv

(* close(), driverDestroy and pd_destroy, in their order.                  *)
LEMMA HandlesFreed == ASSUME HandlesInv, Handles!Close \/ Handles!DestroyStep PROVE HandlesInv'
<1>1. UNCHANGED <<coreJob, minted, handlesReturned, caller, subscribers, session, touched>>
  BY DEF Handles!Close, Handles!DestroyStep, Handles!driverDestroy, Handles!Shutdown,
         Handles!FreeHandles, Handles!DeleteRefs, Handles!DeleteHandle
<1>2. HandlesTyped'
  BY <1>1 DEF HandlesInv, HandlesTyped, LifeStages, Handles!Close, Handles!DestroyStep,
              Handles!driverDestroy, Handles!Shutdown, Handles!FreeHandles,
              Handles!DeleteRefs, Handles!DeleteHandle
<1>3. ClosedInOrder'
  BY <1>1 DEF HandlesInv, ClosedInOrder, Handles!Outside, Handles!Joined, Handles!Close,
              Handles!DestroyStep, Handles!driverDestroy, Handles!Shutdown,
              Handles!FreeHandles, Handles!DeleteRefs, Handles!DeleteHandle
<1>4. ReferencesHold'
  BY <1>1 DEF HandlesInv, ReferencesHold, HandlesThere, Handles!Close, Handles!DestroyStep,
              Handles!driverDestroy, Handles!Shutdown, Handles!FreeHandles,
              Handles!DeleteRefs, Handles!DeleteHandle
<1>5. HandlesMatch'
  BY <1>1 DEF HandlesInv, HandlesMatch, HandlesThere, Handles!OneHandlePerJob, Handles!Close,
              Handles!DestroyStep, Handles!driverDestroy, Handles!Shutdown,
              Handles!FreeHandles, Handles!DeleteRefs, Handles!DeleteHandle
<1> QED
  BY <1>1, <1>2, <1>3, <1>4, <1>5 DEF HandlesInv

(* A step of any thread: nothing is used after it was freed.               *)
LEMMA HandlesStep == HandlesInv /\ [Handles!Next]_(Handles!vars) => HandlesInv'
<1> SUFFICES ASSUME HandlesInv, [Handles!Next]_(Handles!vars) PROVE HandlesInv'
  OBVIOUS
<1>1. CASE UNCHANGED Handles!vars
  BY <1>1 DEF Handles!vars, HandlesInv, HandlesTyped, ClosedInOrder, ReferencesHold,
              HandlesMatch, HandlesThere, Handles!OneHandlePerJob
<1> QED
  BY <1>1, HandlesCalled, HandlesWork, HandlesRead, HandlesFreed DEF Handles!Next

-----------------------------------------------------------------------------
(* The process's behaviours are the components': a step of MCThreads is a  *)
(* step of the component it is about and leaves every other as it is.      *)
LEMMA OnlyFeedback == [Next]_vars => [Feedback!Next]_(Feedback!vars)
BY DEF Next, vars, Feedback!vars, feedbackVars, FeedbackSteps, LaneSteps, LinkSteps,
       HandlesSteps, BridgeSteps, RegistrySteps, HttpSteps, SweepSteps, LaneOnly, LinkOnly,
       HandlesOnly, BridgeOnly, RegistryOnly, HttpOnly, SweepOnly

(* The same of the lane.                                                   *)
LEMMA OnlyLane == [Next]_vars => [Lane!Next]_(Lane!vars)
BY DEF Next, vars, Lane!vars, laneVars, FeedbackSteps, LaneSteps, LinkSteps,
       HandlesSteps, BridgeSteps, RegistrySteps, HttpSteps, SweepSteps, FeedbackOnly, LinkOnly,
       HandlesOnly, BridgeOnly, RegistryOnly, HttpOnly, SweepOnly

(* The same of the transports.                                             *)
LEMMA OnlyLink == [Next]_vars => [Link!Next]_(Link!lvars)
BY DEF Next, vars, Link!lvars, linkVars, FeedbackSteps, LaneSteps, LinkSteps, HandlesSteps,
       BridgeSteps, RegistrySteps, HttpSteps, SweepSteps, FeedbackOnly, LaneOnly,
       HandlesOnly, BridgeOnly, RegistryOnly, HttpOnly, SweepOnly

(* The same of the handles.                                                *)
LEMMA OnlyHandles == [Next]_vars => [Handles!Next]_(Handles!vars)
BY DEF Next, vars, Handles!vars, handlesVars, FeedbackSteps, LaneSteps, LinkSteps,
       HandlesSteps, BridgeSteps, RegistrySteps, HttpSteps, SweepSteps, FeedbackOnly,
       LaneOnly, LinkOnly, BridgeOnly, RegistryOnly, HttpOnly, SweepOnly

(* The same of the bridge.                                                 *)
LEMMA OnlyBridge == [Next]_vars => [Bridge!Next]_(Bridge!vars)
BY DEF Next, vars, Bridge!vars, bridgeVars, FeedbackSteps, LaneSteps, LinkSteps, HandlesSteps,
       BridgeSteps, RegistrySteps, HttpSteps, SweepSteps, FeedbackOnly, LaneOnly,
       LinkOnly, HandlesOnly, RegistryOnly, HttpOnly, SweepOnly, Bridge!jsVars,
       Bridge!askVars, Bridge!tokenVars

(* The same of the registries.                                             *)
LEMMA OnlyRegistry == [Next]_vars => [Registry!Next]_(Registry!vars)
BY DEF Next, vars, Registry!vars, registryVars, FeedbackSteps, LaneSteps, LinkSteps,
       HandlesSteps, BridgeSteps, RegistrySteps, HttpSteps, SweepSteps, FeedbackOnly,
       LaneOnly, LinkOnly, HandlesOnly, BridgeOnly, HttpOnly, SweepOnly

(* The same of the HTTP server.                                            *)
LEMMA OnlyHttp == [Next]_vars => [Http!Next]_(Http!vars)
BY DEF Next, vars, Http!vars, httpVars, FeedbackSteps, LaneSteps, LinkSteps, HandlesSteps,
       BridgeSteps, RegistrySteps, HttpSteps, SweepSteps, FeedbackOnly, LaneOnly,
       LinkOnly, HandlesOnly, BridgeOnly, RegistryOnly, SweepOnly

(* subscribe(), emit(), finish() and result(): whatever the threads, every *)
(* observer of a job gets its whole history in order, nothing is lost on   *)
(* the way to it, and nobody has the result before the callbacks of the    *)
(* terminal event are over.                                                *)
THEOREM ObserversAgree == ASSUME LastEvent \in Nat PROVE Spec => []ObserversInOrder
<1>1. Init => FeedbackInv
  BY FeedbackBegins DEF Init
<1>2. FeedbackInv /\ [Next]_vars => FeedbackInv'
  BY OnlyFeedback, FeedbackStep
<1>3. FeedbackInv => ObserversInOrder
  BY ObserversSeeThePast, NoEventIsLost, ResultsComeLast DEF FeedbackInv, ObserversInOrder
<1> QED
  BY <1>1, <1>2, <1>3, PTL DEF Spec

(* push, pushPeripheral, the worker's loop, drain() and stop(): whoever    *)
(* calls them at the same time, a task is in one place and ends once,      *)
(* ordinary tasks run in the order they came, drain() covers what was in   *)
(* the lane and stop() leaves nothing running or without an end.           *)
THEOREM LaneKeepsOrder == Spec => []LaneIsOrderly
<1>1. Init => LaneInv
  BY LaneInitHolds DEF Init
<1>2. LaneInv /\ [Next]_vars => LaneInv'
  BY OnlyLane, LaneStepKeeps
<1>3. LaneInv => LaneIsOrderly
  BY TasksAreInOnePlace, DrainsAreComplete, StopsAreComplete, TasksRunInOrder
     DEF LaneInv, LaneIsOrderly
<1> QED
  BY <1>1, <1>2, <1>3, PTL DEF Spec

(* close() of a transport, of the agent's listener, of a binding's handle: *)
(* nothing a thread still uses is freed or called, whatever closes first,  *)
(* and a transport reports only the drops it did not make.                 *)
THEOREM ClosingIsClean == ASSUME MaxQueued \in Nat PROVE Spec => []ClosedIsClosed
<1> DEFINE Inv == LinkInv /\ HandlesInv /\ HttpInv
<1>1. Init => Inv
  BY LinkBegins, HandlesBegin, HttpBegins DEF Init
<1>2. Inv /\ [Next]_vars => Inv'
  BY OnlyLink, OnlyHandles, OnlyHttp, LinkStep, HandlesStep, HttpStep
<1>3. Inv => ClosedIsClosed
  <2>1. HandlesInv => Handles!NothingUsedAfterFree
    BY DEF HandlesInv, Handles!NothingUsedAfterFree
  <2>2. HttpInv => Http!TypeOK /\ Http!ListenerOutlivesItsUser
    BY DEF HttpInv, Http!ListenerOutlivesItsUser
  <2> QED
    BY <2>1, <2>2, LinkPromises DEF ClosedIsClosed
<1> QED
  BY <1>1, <1>2, <1>3, PTL DEF Spec

(* internJob() of the C API, tokenForJob() of the React Native module and  *)
(* the registration of a custom method: however many threads come at once, *)
(* they get one handle, one token, one registration.                       *)
THEOREM RacersAgree == Spec => []OneForAll
<1> DEFINE Inv == HandlesInv /\ BridgeInv /\ RegistryInv
<1>1. Init => Inv
  BY HandlesBegin, BridgeBegins, RegistryBegins DEF Init
<1>2. Inv /\ [Next]_vars => Inv'
  BY OnlyHandles, OnlyBridge, OnlyRegistry, HandlesStep, BridgeStep, RegistryStep
<1>3. Inv => OneForAll
  <2>1. HandlesInv => Handles!OneHandlePerJob
    BY DEF HandlesInv, HandlesMatch
  <2> QED
    BY <2>1, BridgePromises, RegistryPromises DEF OneForAll
<1> QED
  BY <1>1, <1>2, <1>3, PTL DEF Spec

(* A core thread in a formatter or a status rule written in JavaScript: it *)
(* gets the answer to its own question, however many deadlines were missed *)
(* before, and while it waits the JavaScript thread is parked inside the   *)
(* driver by a matcher of its own only.                                    *)
THEOREM QuestionsAreAnswered == Spec => []BridgeAnswers
<1>1. Init => BridgeInv
  BY BridgeBegins DEF Init
<1>2. BridgeInv /\ [Next]_vars => BridgeInv'
  BY OnlyBridge, BridgeStep
<1>3. BridgeInv => BridgeAnswers
  BY BridgePromises DEF BridgeAnswers
<1> QED
  BY <1>1, <1>2, <1>3, PTL DEF Spec

-----------------------------------------------------------------------------
=============================================================================
