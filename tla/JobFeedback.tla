---------------------------- MODULE JobFeedback ----------------------------
(***************************************************************************)
(* A PrintJob as its observers see it (core/src/driver.cpp: subscribe,     *)
(* emit, finish, result): one thread that emits the job's transitions and  *)
(* then its result, threads that subscribe at any time, and threads that   *)
(* wait for the result.                                                    *)
(*                                                                         *)
(* PrintJob::mutex_ is explicit only where a thread holds it over more     *)
(* than one step, which is the predicate loop of result(): the test, then  *)
(* the enrolment in done_, with the mutex held throughout.                 *)
(* Parked_Dropped is a faulty variant, kept to show that the properties    *)
(* can fail.                                                               *)
(***************************************************************************)
EXTENDS Naturals, Sequences, SequencesExt

CONSTANTS
  Subscribers,   \* threads that call subscribe(), once each
  Waiters,       \* threads that call result()
  Timed,         \* those of them that call result(timeout)
  LastEvent      \* number of transitions; the last one is terminal

VARIABLES
  mutex,      \* PrintJob::mutex_: "free" or the waiter that holds it
  history,    \* history_: the transitions so far, numbered
  sub,        \* per subscriber [st, todo, pending]
  seen,       \* per subscriber: the events its callback got, in order
  emitter,    \* [pc, calling]: the live subscribers still to be called
  terminal,   \* terminal_
  waiter,     \* per waiter: where it is in result()
  sleeping    \* the waiters enrolled in done_

vars == <<mutex, history, sub, seen, emitter, terminal, waiter, sleeping>>

TypeOK ==
  /\ mutex \in Waiters \cup {"free"}
  /\ history \in Seq(1..LastEvent)
  /\ sub \in [Subscribers -> [st : {"absent", "draining", "live"},
                              todo : Seq(1..LastEvent), pending : Seq(1..LastEvent)]]
  /\ seen \in [Subscribers -> Seq(1..LastEvent)]
  /\ emitter \in [pc : {"emit", "deliver", "store", "notify", "done"},
                  calling : SUBSET Subscribers]
  /\ terminal \in BOOLEAN
  /\ waiter \in [Waiters -> {"idle", "check", "enroll", "asleep", "result", "nothing"}]
  /\ sleeping \in SUBSET Waiters
  /\ emitter.calling # {} => emitter.pc = "deliver"
  /\ terminal = (emitter.pc \in {"notify", "done"})

Init ==
  /\ mutex = "free"
  /\ history = <<>>
  /\ sub = [s \in Subscribers |-> [st |-> "absent", todo |-> <<>>, pending |-> <<>>]]
  /\ seen = [s \in Subscribers |-> <<>>]
  /\ emitter = [pc |-> "emit", calling |-> {}]
  /\ terminal = FALSE
  /\ waiter = [w \in Waiters |-> "idle"]
  /\ sleeping = {}

-----------------------------------------------------------------------------
(* The emitting thread.                                                    *)

Parked_Dropped(s, e) == sub[s]

(* A subscriber that is still replaying has the event parked.              *)
Parked(s, e) ==
  IF sub[s].st = "draining" THEN [sub[s] EXCEPT !.pending = Append(@, e)] ELSE sub[s]

(* emit()'s critical section.                                              *)
Emit ==
  /\ emitter.pc = "emit" /\ Len(history) < LastEvent /\ mutex = "free"
  /\ LET e == Len(history) + 1
     IN /\ history' = Append(history, e)
        /\ sub' = [s \in Subscribers |-> Parked(s, e)]
  /\ emitter' = [pc |-> "deliver", calling |-> {s \in Subscribers : sub[s].st = "live"}]
  /\ UNCHANGED <<mutex, seen, terminal, waiter, sleeping>>

(* The callbacks, outside the mutex.                                       *)
Deliver ==
  /\ emitter.pc = "deliver"
  /\ \/ \E s \in emitter.calling :
          /\ seen' = [seen EXCEPT ![s] = Append(@, history[Len(history)])]
          /\ emitter' = [emitter EXCEPT !.calling = @ \ {s}]
     \/ /\ emitter.calling = {}
        /\ emitter' = [emitter EXCEPT !.pc = "emit"]
        /\ UNCHANGED seen
  /\ UNCHANGED <<mutex, history, sub, terminal, waiter, sleeping>>

(* finish(): the result under the mutex, then terminal_, then the wake-up. *)
SetResult ==
  /\ emitter.pc = "emit" /\ Len(history) = LastEvent /\ mutex = "free"
  /\ emitter' = [emitter EXCEPT !.pc = "store"]
  /\ UNCHANGED <<mutex, history, sub, seen, terminal, waiter, sleeping>>

StoreTerminal ==
  /\ emitter.pc = "store"
  /\ terminal' = TRUE
  /\ emitter' = [emitter EXCEPT !.pc = "notify"]
  /\ UNCHANGED <<mutex, history, sub, seen, waiter, sleeping>>

NotifyDone ==
  /\ emitter.pc = "notify"
  /\ sleeping' = {}
  /\ emitter' = [emitter EXCEPT !.pc = "done"]
  /\ UNCHANGED <<mutex, history, sub, seen, terminal, waiter>>

Emitter == Emit \/ Deliver \/ SetResult \/ StoreTerminal \/ NotifyDone

-----------------------------------------------------------------------------
(* A subscribing thread.                                                   *)

(* The snapshot and the registration are one critical section.             *)
Subscribe(s) ==
  /\ sub[s].st = "absent" /\ mutex = "free"
  /\ sub' = [sub EXCEPT ![s] = [st |-> "draining", todo |-> history, pending |-> <<>>]]
  /\ UNCHANGED <<mutex, history, seen, emitter, terminal, waiter, sleeping>>

Replay(s) ==
  /\ sub[s].todo # <<>>
  /\ seen' = [seen EXCEPT ![s] = Append(@, Head(sub[s].todo))]
  /\ sub' = [sub EXCEPT ![s].todo = Tail(@)]
  /\ UNCHANGED <<mutex, history, emitter, terminal, waiter, sleeping>>

(* Take what was parked meanwhile; go live in the critical section that    *)
(* finds nothing.                                                          *)
TakeParked(s) ==
  /\ sub[s].st = "draining" /\ sub[s].todo = <<>> /\ mutex = "free"
  /\ sub' = IF sub[s].pending = <<>>
              THEN [sub EXCEPT ![s].st = "live"]
              ELSE [sub EXCEPT ![s].todo = sub[s].pending, ![s].pending = <<>>]
  /\ UNCHANGED <<mutex, history, seen, emitter, terminal, waiter, sleeping>>

Subscriber(s) == Replay(s) \/ TakeParked(s)

-----------------------------------------------------------------------------
(* A thread in result().                                                   *)

Return(w, answer) ==
  /\ waiter' = [waiter EXCEPT ![w] = answer]
  /\ mutex' = "free"

Enter(w) ==
  /\ waiter[w] = "idle" /\ mutex = "free"
  /\ mutex' = w
  /\ waiter' = [waiter EXCEPT ![w] = "check"]
  /\ UNCHANGED <<history, sub, seen, emitter, terminal, sleeping>>

(* The predicate, with the mutex held.                                     *)
Check(w) ==
  /\ waiter[w] = "check"
  /\ \/ terminal /\ Return(w, "result")
     \/ /\ ~terminal
        /\ waiter' = [waiter EXCEPT ![w] = "enroll"] /\ UNCHANGED mutex
  /\ UNCHANGED <<history, sub, seen, emitter, terminal, sleeping>>

Enroll(w) ==
  /\ waiter[w] = "enroll"
  /\ sleeping' = sleeping \cup {w}
  /\ Return(w, "asleep")
  /\ UNCHANGED <<history, sub, seen, emitter, terminal>>

Wake(w) ==
  /\ waiter[w] = "asleep" /\ w \notin sleeping /\ mutex = "free"
  /\ mutex' = w
  /\ waiter' = [waiter EXCEPT ![w] = "check"]
  /\ UNCHANGED <<history, sub, seen, emitter, terminal, sleeping>>

(* wait_for looks at the predicate once more when its time is up.          *)
TimesOut(w) ==
  /\ w \in Timed /\ waiter[w] = "asleep" /\ mutex = "free"
  /\ sleeping' = sleeping \ {w}
  /\ waiter' = [waiter EXCEPT ![w] = IF terminal THEN "result" ELSE "nothing"]
  /\ UNCHANGED <<mutex, history, sub, seen, emitter, terminal>>

Waiter(w) == Check(w) \/ Enroll(w) \/ Wake(w) \/ TimesOut(w)

-----------------------------------------------------------------------------

Next ==
  \/ Emitter
  \/ \E s \in Subscribers : Subscribe(s) \/ Subscriber(s)
  \/ \E w \in Waiters : Enter(w) \/ Waiter(w)

Spec == Init /\ [][Next]_vars

-----------------------------------------------------------------------------
(* Properties.                                                             *)

(* What a subscriber has been given is the job's history so far: nothing   *)
(* twice, nothing skipped, nothing early, however its replay interleaves   *)
(* with new transitions.                                                   *)
SeenInOrder == \A s \in Subscribers : IsPrefix(seen[s], history)

(* Every event a subscriber has not seen is on its way to it: still to be  *)
(* replayed, parked, or in the emitting thread's hands.                    *)
NothingLost ==
  \A s \in Subscribers :
    sub[s].st # "absent" =>
      Len(history) = Len(seen[s]) + Len(sub[s].todo) + Len(sub[s].pending)
                     + (IF s \in emitter.calling THEN 1 ELSE 0)

(* Nobody has the result before every live subscriber's callback for the   *)
(* terminal event has returned.                                            *)
ResultAfterEvents ==
  (\E w \in Waiters : waiter[w] = "result") => Len(history) = LastEvent /\ emitter.calling = {}

(* A subscriber that has not seen the terminal event yet.  "The last event *)
(* is always terminal" (driver.hpp, subscribe): it does not stay one.      *)
Owed(s) == sub[s].st # "absent" /\ Len(seen[s]) < LastEvent

(* A thread inside result().  One with a timeout comes back.               *)
InResult(w) == waiter[w] \notin {"idle", "result", "nothing"}
=============================================================================
