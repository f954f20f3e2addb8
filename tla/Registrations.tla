--------------------------- MODULE Registrations ---------------------------
(***************************************************************************)
(* The registries of custom methods (core/src/registrations.cpp): five     *)
(* add-only tables under one mutex, written and read by any thread, whose  *)
(* callbacks run the embedder's code.  The mutex is not recursive.         *)
(*                                                                         *)
(* Checked_BeforeLocking is a faulty variant, kept to show that the        *)
(* properties can fail.                                                    *)
(***************************************************************************)
EXTENDS Naturals, Sequences, FiniteSets

CONSTANTS Threads, Ids,
          MaxOps     \* operations the threads begin

VARIABLES tables,    \* the registrations, in the order they were accepted
          mutex,     \* the thread that holds mutex_, or "free"
          frames,    \* the operations of each thread, the innermost last
          told,      \* the registrations whose caller was told TRUE
          begun

vars == <<tables, mutex, frames, told, begun>>

Kinds == {"completion", "probe", "drawer", "formatter", "block"}
\* What completionMethod, drawerKick and probeSteps hand out is called by their user.
CalledHere == {"formatter", "block"}

\* idTaken, for an id of one of the tables.
Taken(kind, id) == \E i \in DOMAIN tables[kind] : tables[kind][i].id = id
Entry(kind, id) == tables[kind][CHOOSE i \in DOMAIN tables[kind] : tables[kind][i].id = id]

Init ==
    /\ tables = [k \in Kinds |-> <<>>]
    /\ mutex = "free"
    /\ frames = [t \in Threads |-> <<>>]
    /\ told = {}
    /\ begun = 0

Top(t) == frames[t][Len(frames[t])]
At(t, at) == frames[t] # <<>> /\ Top(t).at = at
Goes(t, f) == frames' = [frames EXCEPT ![t][Len(frames[t])] = f]
Returns(t) == frames' = [frames EXCEPT ![t] = SubSeq(@, 1, Len(@) - 1)]

-----------------------------------------------------------------------------

\* A thread calls in from outside, or from a callback it is running.
MayCall(t) == frames[t] = <<>> \/ (Len(frames[t]) = 1 /\ At(t, "calling"))

Checked_BeforeLocking(f) == IF f.at = "called" THEN ~Taken(f.kind, f.id) ELSE TRUE
\* The table is consulted in the critical section that extends it.
Checked(f) == IF f.at = "called" THEN TRUE ELSE ~Taken(f.kind, f.id)

\* isValidRegistrationId, isNonPrintingRequest and valid() are settled before the lock.
Call(t, op, kind, id, valid) ==
    /\ MayCall(t) /\ begun < MaxOps
    /\ begun' = begun + 1
    /\ frames' = [frames EXCEPT ![t] = Append(@, [at |-> "called", op |-> op, kind |-> kind, id |-> id,
                                                 valid |-> valid, body |-> begun + 1])]
    /\ UNCHANGED <<tables, mutex, told>>

Refused(f) == f.op = "add" /\ (~f.valid \/ ~Checked(f))

Validate(t) ==
    /\ At(t, "called")
    /\ IF Refused(Top(t)) THEN Returns(t) ELSE Goes(t, [Top(t) EXCEPT !.at = "ready"])
    /\ UNCHANGED <<tables, mutex, told, begun>>

Lock(t) ==
    /\ At(t, "ready") /\ mutex = "free"
    /\ mutex' = t
    /\ Goes(t, [Top(t) EXCEPT !.at = "locked"])
    /\ UNCHANGED <<tables, told, begun>>

\* add...(): the id is taken, or the registration goes to the end of its table.
Add(t) ==
    /\ At(t, "locked") /\ Top(t).op = "add"
    /\ LET f == Top(t)
           entry == [id |-> f.id, body |-> f.body]
       IN  IF Checked(f)
           THEN /\ tables' = [tables EXCEPT ![f.kind] = Append(@, entry)]
                /\ told' = told \cup {<<f.kind, f.id, f.body>>}
           ELSE UNCHANGED <<tables, told>>
    /\ mutex' = "free"
    /\ Returns(t)
    /\ UNCHANGED begun

\* format() and renderBlock() copy the callback out and call it once the lock is released;
\* the lookups of the other kinds return their copy.
Use(t) ==
    /\ At(t, "locked") /\ Top(t).op = "use"
    /\ LET f == Top(t)
           call == Taken(f.kind, f.id) /\ f.kind \in CalledHere
       IN  /\ mutex' = "free"
           /\ IF call THEN Goes(t, [f EXCEPT !.at = "calling", !.body = Entry(f.kind, f.id).body])
                      ELSE Returns(t)
    /\ UNCHANGED <<tables, told, begun>>

CallbackReturns(t) ==
    /\ At(t, "calling")
    /\ mutex' = IF mutex = t THEN "free" ELSE mutex
    /\ Returns(t)
    /\ UNCHANGED <<tables, told, begun>>

Step(t) == Validate(t) \/ Lock(t) \/ Add(t) \/ Use(t) \/ CallbackReturns(t)

Next ==
    \E t \in Threads :
        \/ \E op \in {"add", "use"}, kind \in Kinds, id \in Ids, valid \in BOOLEAN :
              (op = "use" => valid) /\ Call(t, op, kind, id, valid)
        \/ Step(t)

Spec == Init /\ [][Next]_vars

-----------------------------------------------------------------------------
(* Properties *)

\* Whoever was told that its registration was accepted is the one found under its id, for the
\* life of the driver: two threads never both get one id (Registrations::add..., idTaken).
AcceptedIsFound ==
    \A r \in told : Taken(r[1], r[2]) /\ Entry(r[1], r[2]).body = r[3]

\* A thread inside an operation. It comes out, also when a callback registers something with the
\* registry it was called from: the mutex is never held while the embedder's code runs
\* (Registrations::format).
InOperation(t) == frames[t] # <<>>
=============================================================================
