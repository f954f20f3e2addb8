-------------------------- MODULE JobJournalSafety --------------------------
(***************************************************************************)
(* Safety of the write-ahead journal, for any number of jobs, starts and   *)
(* full disks.  JInv says what every file a power cut may leave reads back *)
(* as, and how far the file a start is writing, or the one appends go to,  *)
(* is from what the process has in memory.  That needs fsync: the theorems *)
(* that carry it assume FsyncEnabled, the default of StorageConfig.  An    *)
(* fsync of the compaction may fail unnoticed, so JInv speaks of the files *)
(* a power cut may leave only while none has that was not made good since. *)
(* First what the operators of JobJournal return, above all what one line  *)
(* more makes of a replay; then the types, JInv and the theorems.          *)
(***************************************************************************)
EXTENDS JobJournal, TLAPS, SequenceTheorems, FiniteSetTheorems, FunctionTheorems

-----------------------------------------------------------------------------
(* The inductive invariant.                                                *)

(* What a power cut may leave of a file whose first lines are safe: a      *)
(* prefix that holds those, perhaps with a torn line after it.             *)
Views(lines, safe) ==
  {SubSeq(lines, 1, n) : n \in safe .. Len(lines)} \cup
  UNION {{Append(SubSeq(lines, 1, n), torn) : torn \in Cut(lines[n + 1])}
         : n \in safe .. Len(lines) - 1}

(* A state line names a state, so a job has a record when it has a line.   *)
SaneLines(lines) == \A i \in DOMAIN lines : lines[i].kind = "S" => lines[i].state # "none"

Went == {"SendStarted", "DoneSoftware", "Unknown"}

(* What a start may make of a job: what its last durable transition, or    *)
(* the one in doubt, amounts to, and nothing less than what was printed.   *)
Good(j, r) ==
  /\ Recovered(r.state) \in {Recovered(s) : s \in {acked[j]} \cup ({doubt[j]} \ {"none"})}
  /\ j \in wire.sent => r.state \in Went
  /\ j \in wire.marked => r.tok = "whole"

Honest(lines) == \A j \in Jobs : Good(j, Replay(lines, j))

SaneFiles == \A f \in {journal, tmp} \cup replaced : SaneLines(f.lines)
WholeRecords == \A j \in Jobs : mem[j].state = "none" => mem[j] = NoRecord
JournalIsHonest == Honest(journal.lines)
DiskIsHonest ==
  slip = "no" =>
    \A f \in {journal} \cup replaced : \A v \in Views(f.lines, f.safe) : Honest(v)
MemoryIsHonest == Loaded => \A j \in Jobs : Good(j, mem[j])

(* Under the running driver only an append of createJob() may be in doubt. *)
InStep(j) ==
  /\ acked[j] = mem[j].state
  /\ doubt[j] = "none" => Replay(journal.lines, j) = mem[j]
  /\ doubt[j] # "none" => /\ doubt[j] = "Queued" /\ mem[j] = NoRecord
                          /\ Replay(journal.lines, j).state \in {"none", "Queued"}
WhileUp == proc = "up" => (slip = "no" => replaced = {}) /\ \A j \in Jobs : InStep(j)

(* A start writes what it loaded and renames it, synced unless that failed.*)
WhileCompacting ==
  /\ proc \in {"written", "synced"} => \A j \in Jobs : Replay(tmp.lines, j) = mem[j]
  /\ proc = "synced" /\ slip = "no" => tmp.safe = Len(tmp.lines)
  /\ proc = "renamed" => /\ \A j \in Jobs : Replay(journal.lines, j) = mem[j]
                         /\ slip = "no" => journal.safe = Len(journal.lines)

JInv ==
  /\ TypeOK /\ SaneFiles /\ WholeRecords
  /\ ~Damaged => /\ JournalIsHonest /\ DiskIsHonest /\ MemoryIsHonest
                 /\ WhileUp /\ WhileCompacting

-----------------------------------------------------------------------------
(* Reading lines back.                                                     *)

LEMMA LeastNumber ==
  ASSUME NEW T \in SUBSET Nat, T # {}
  PROVE  \E m \in T : \A n \in T : m <= n
<1>1. PICK m \in T : \A n \in T : ~(<<n, m>> \in OpToRel(<, Nat))
  BY NatLessThanWellFounded, WFMin, Zenon
<1>2. \A n \in T : ~(n < m)
  BY <1>1 DEF OpToRel
<1> QED
  BY <1>2

(* The first and the last of some lines.                                   *)
LEMMA MinIs ==
  ASSUME NEW n \in Nat, NEW T \in SUBSET (1 .. n), T # {}
  PROVE  Min(T) \in T /\ \A x \in T : Min(T) <= x
<1>1. \E m \in T : \A x \in T : m <= x
  BY LeastNumber
<1> QED
  BY <1>1, Zenon DEF Min

LEMMA MaxIs ==
  ASSUME NEW n \in Nat, NEW T \in SUBSET (1 .. n), T # {}
  PROVE  Max(T) \in T /\ \A x \in T : x <= Max(T)
<1> DEFINE R == {n - x : x \in T}
<1>0. \A x \in T : x \in Nat /\ n - x \in Nat
  OBVIOUS
<1>1. R \in SUBSET Nat /\ R # {}
  BY <1>0
<1>2. PICK r \in R : \A y \in R : r <= y
  BY <1>1, LeastNumber
<1>3. PICK m \in T : r = n - m
  BY <1>2
<1>4. \A x \in T : m >= x
  <2>1. \A x \in T : n - x \in R
    OBVIOUS
  <2>2. \A x \in T : n - m <= n - x
    BY <1>2, <1>3, <2>1
  <2> QED
    BY <1>0, <2>2
<1>5. Max(T) \in T /\ \A x \in T : Max(T) >= x
  BY <1>4, Zenon DEF Max
<1> QED
  BY <1>5

LEMMA LinesOfAppend ==
  ASSUME NEW L \in Seq(Line), NEW l \in Line, NEW j, NEW kind
  PROVE  /\ l.ok /\ l.job = j /\ l.kind = kind =>
              LinesOf(Append(L, l), j, kind) = LinesOf(L, j, kind) \cup {Len(L) + 1}
         /\ ~(l.ok /\ l.job = j /\ l.kind = kind) =>
              LinesOf(Append(L, l), j, kind) = LinesOf(L, j, kind)
<1>1. Len(L) \in Nat /\ DOMAIN L = 1 .. Len(L)
  BY LenProperties
<1>2. DOMAIN Append(L, l) = 1 .. Len(L) + 1
  BY AppendProperties, LenProperties
<1>3. /\ \A i \in 1 .. Len(L) : Append(L, l)[i] = L[i]
      /\ Append(L, l)[Len(L) + 1] = l
  BY AppendProperties
<1> QED
  BY <1>1, <1>2, <1>3 DEF LinesOf

(* The lines a replay looks at.                                            *)
After(L, j, kind) == {i \in LinesOf(L, j, kind) : i > Min(LinesOf(L, j, "J"))}

LEMMA LinesInBounds ==
  ASSUME NEW L \in Seq(Line), NEW j, NEW kind
  PROVE  /\ Len(L) \in Nat
         /\ LinesOf(L, j, kind) \in SUBSET (1 .. Len(L))
         /\ After(L, j, kind) \in SUBSET (1 .. Len(L))
BY LenProperties DEF LinesOf, After

LEMMA ReplayNobody ==
  ASSUME NEW L, NEW j, LinesOf(L, j, "J") = {}
  PROVE  Replay(L, j) = NoRecord
BY DEF Replay

LEMMA ReplayIs ==
  ASSUME NEW L, NEW j, LinesOf(L, j, "J") # {}
  PROVE  /\ Replay(L, j) =
              [state |-> IF After(L, j, "S") = {} THEN "Queued"
                         ELSE L[Max(After(L, j, "S"))].state,
               tok |-> IF After(L, j, "T") = {} THEN L[Min(LinesOf(L, j, "J"))].tok
                       ELSE L[Max(After(L, j, "T"))].tok]
         /\ Replay(L, j).state = IF After(L, j, "S") = {} THEN "Queued"
                                 ELSE L[Max(After(L, j, "S"))].state
         /\ Replay(L, j).tok = IF After(L, j, "T") = {} THEN L[Min(LinesOf(L, j, "J"))].tok
                               ELSE L[Max(After(L, j, "T"))].tok
BY DEF Replay, After

(* A job reads back as a record, and as one with a state if it has any.    *)
LEMMA ReplayType ==
  ASSUME NEW L \in Seq(Line), SaneLines(L), NEW j
  PROVE  /\ Replay(L, j) \in Record
         /\ Replay(L, j).state = "none" <=> LinesOf(L, j, "J") = {}
         /\ Replay(L, j).state = "none" => Replay(L, j) = NoRecord
<1>1. CASE LinesOf(L, j, "J") = {}
  BY <1>1, ReplayNobody DEF NoRecord, Record, States, Tokens
<1>2. CASE LinesOf(L, j, "J") # {}
  <2>0. \A i \in 1 .. Len(L) : L[i] \in Line
    BY LenProperties
  <2>1. Min(LinesOf(L, j, "J")) \in 1 .. Len(L)
    BY <1>2, LinesInBounds, MinIs
  <2>2. After(L, j, "S") # {} => Max(After(L, j, "S")) \in After(L, j, "S")
    BY LinesInBounds, MaxIs
  <2>3. After(L, j, "T") # {} => Max(After(L, j, "T")) \in 1 .. Len(L)
    BY LinesInBounds, MaxIs
  <2>4. After(L, j, "S") # {} => L[Max(After(L, j, "S"))].state \in States \ {"none"}
    <3> SUFFICES ASSUME After(L, j, "S") # {}
                 PROVE  L[Max(After(L, j, "S"))].state \in States \ {"none"}
      OBVIOUS
    <3> DEFINE m == Max(After(L, j, "S"))
    <3>1. m \in DOMAIN L /\ L[m].kind = "S" /\ L[m] \in Line
      BY <2>2, <2>0, LinesInBounds, LenProperties DEF After, LinesOf
    <3> QED
      BY <3>1 DEF SaneLines, Line
  <2>5. Replay(L, j).state \in States \ {"none"}
    BY <2>4, <1>2, ReplayIs DEF States
  <2>6. Replay(L, j).tok \in Tokens
    BY <2>0, <2>1, <2>3, <1>2, ReplayIs DEF Line
  <2>7. Replay(L, j) = [state |-> Replay(L, j).state, tok |-> Replay(L, j).tok]
    BY <1>2, ReplayIs
  <2> QED
    BY <1>2, <2>5, <2>6, <2>7 DEF Record
<1> QED
  BY <1>1, <1>2

(* What one line more makes of a record.                                   *)
Step(r, l, j) ==
  IF ~l.ok \/ l.job # j THEN r
  ELSE IF r.state = "none"
       THEN IF l.kind = "J" THEN [state |-> "Queued", tok |-> l.tok] ELSE r
  ELSE [state |-> IF l.kind = "S" THEN l.state ELSE r.state,
        tok |-> IF l.kind = "T" THEN l.tok ELSE r.tok]

LEMMA StepIs ==
  ASSUME NEW r, NEW l, NEW j
  PROVE  /\ (~l.ok \/ l.job # j) => Step(r, l, j) = r
         /\ (l.ok /\ l.job = j /\ r.state = "none") =>
               /\ l.kind = "J" => Step(r, l, j) = [state |-> "Queued", tok |-> l.tok]
               /\ l.kind # "J" => Step(r, l, j) = r
         /\ (l.ok /\ l.job = j /\ r.state # "none") =>
               Step(r, l, j) = [state |-> IF l.kind = "S" THEN l.state ELSE r.state,
                                tok |-> IF l.kind = "T" THEN l.tok ELSE r.tok]
BY Zenon DEF Step

LEMMA ReplayAppend ==
  ASSUME NEW L \in Seq(Line), SaneLines(L), NEW l \in Line, NEW j
  PROVE  Replay(Append(L, l), j) = Step(Replay(L, j), l, j)
<1> DEFINE M == Append(L, l)
           N == Len(L)
           B == LinesOf(L, j, "J")
<1>n. /\ N \in Nat /\ M \in Seq(Line)
      /\ \A i \in 1 .. N : M[i] = L[i]
      /\ M[N + 1] = l
  BY AppendProperties, LenProperties
<1>s. \A kind : /\ LinesOf(L, j, kind) \in SUBSET (1 .. N)
                /\ After(L, j, kind) \in SUBSET (1 .. N)
  BY LinesInBounds
<1>k. l.kind \in {"J", "S", "T"}
  BY DEF Line
<1>l. \A kind :
        /\ l.ok /\ l.job = j /\ l.kind = kind =>
             LinesOf(M, j, kind) = LinesOf(L, j, kind) \cup {N + 1}
        /\ ~(l.ok /\ l.job = j /\ l.kind = kind) => LinesOf(M, j, kind) = LinesOf(L, j, kind)
  BY LinesOfAppend
<1> SUFFICES Replay(M, j) = Step(Replay(L, j), l, j)
  OBVIOUS
<1> HIDE DEF M, N
<1>1. CASE ~l.ok \/ l.job # j
  <2>1. \A kind : LinesOf(M, j, kind) = LinesOf(L, j, kind)
    BY <1>1, <1>l, Zenon
  <2>2. \A kind : After(M, j, kind) = After(L, j, kind)
    BY <2>1 DEF After
  <2>0. Step(Replay(L, j), l, j) = Replay(L, j)
    BY <1>1, StepIs, Zenon
  <2>3. CASE B = {}
    BY <2>0, <2>1, <2>3, ReplayNobody
  <2>4. CASE B # {}
    <3>1. M[Min(B)] = L[Min(B)]
      BY <2>4, <1>n, <1>s, MinIs
    <3>2. After(L, j, "S") # {} => M[Max(After(L, j, "S"))] = L[Max(After(L, j, "S"))]
      BY <1>n, <1>s, MaxIs
    <3>3. After(L, j, "T") # {} => M[Max(After(L, j, "T"))] = L[Max(After(L, j, "T"))]
      BY <1>n, <1>s, MaxIs
    <3>4. /\ LinesOf(M, j, "J") = B
          /\ After(M, j, "S") = After(L, j, "S") /\ After(M, j, "T") = After(L, j, "T")
      BY <2>1, <2>2
    <3>5. /\ Replay(M, j).state = Replay(L, j).state
          /\ Replay(M, j).tok = Replay(L, j).tok
      BY <2>4, <3>1, <3>2, <3>3, <3>4, ReplayIs
    <3>6. /\ Replay(M, j) = [state |-> Replay(M, j).state, tok |-> Replay(M, j).tok]
          /\ Replay(L, j) = [state |-> Replay(L, j).state, tok |-> Replay(L, j).tok]
      BY <2>4, <3>4, ReplayIs
    <3> QED
      BY <2>0, <3>5, <3>6
  <2> QED
    BY <2>3, <2>4
<1>2. CASE l.ok /\ l.job = j /\ B = {}
  <2>1. Replay(L, j) = NoRecord
    BY <1>2, ReplayNobody
  <2>2. CASE l.kind = "J"
    <3>1. LinesOf(M, j, "J") = {N + 1}
      BY <1>2, <2>2, <1>l
    <3>2. LinesOf(M, j, "S") = LinesOf(L, j, "S") /\ LinesOf(M, j, "T") = LinesOf(L, j, "T")
      BY <2>2, <1>l
    <3>3. Min({N + 1}) = N + 1
      <4>1. N + 1 \in Nat /\ {N + 1} \in SUBSET (1 .. N + 1) /\ {N + 1} # {}
        BY <1>n
      <4> QED
        BY <4>1, MinIs
    <3>4. After(M, j, "S") = {} /\ After(M, j, "T") = {}
      <4>1. \A i \in LinesOf(L, j, "S") \cup LinesOf(L, j, "T") : ~(i > N + 1)
        BY <1>s, <1>n
      <4> QED
        BY <3>1, <3>2, <3>3, <4>1 DEF After
    <3>5. Replay(M, j).state = "Queued" /\ Replay(M, j).tok = l.tok
      BY <3>1, <3>3, <3>4, <1>n, ReplayIs
    <3>6. Replay(M, j) = [state |-> Replay(M, j).state, tok |-> Replay(M, j).tok]
      BY <3>1, ReplayIs
    <3>7. Step(Replay(L, j), l, j) = [state |-> "Queued", tok |-> l.tok]
      BY <2>1, <2>2, <1>2, StepIs DEF NoRecord
    <3> QED
      BY <3>5, <3>6, <3>7
  <2>3. CASE l.kind # "J"
    <3>1. LinesOf(M, j, "J") = {}
      BY <1>2, <2>3, <1>l
    <3>2. Step(Replay(L, j), l, j) = Replay(L, j)
      BY <2>1, <2>3, <1>2, StepIs DEF NoRecord
    <3> QED
      BY <3>1, <3>2, <2>1, ReplayNobody
  <2> QED
    BY <2>2, <2>3
<1>3. CASE l.ok /\ l.job = j /\ B # {}
  <2> DEFINE m == Min(B)
  <2>1. m \in B /\ \A x \in B : m <= x
    BY <1>3, <1>s, <1>n, MinIs
  <2>2. /\ l.kind = "J" => LinesOf(M, j, "J") = B \cup {N + 1}
        /\ l.kind # "J" => LinesOf(M, j, "J") = B
    BY <1>3, <1>l
  <2>3. Min(LinesOf(M, j, "J")) = m
    <3> DEFINE C == LinesOf(M, j, "J")
    <3>1. C \in SUBSET (1 .. N + 1) /\ C # {}
      BY <2>2, <1>3, <1>s, <1>n
    <3>2. Min(C) \in C /\ \A x \in C : Min(C) <= x
      <4>1. N + 1 \in Nat
        BY <1>n
      <4> HIDE DEF C
      <4> QED
        BY <3>1, <4>1, MinIs
    <3>3. m \in C /\ m <= N
      BY <2>1, <2>2, <1>s, <1>n
    <3> QED
      BY <3>2, <3>3, <2>1, <2>2, <1>s, <1>n
  <2>4. \A kind :
          /\ l.kind = kind => After(M, j, kind) = After(L, j, kind) \cup {N + 1}
          /\ l.kind # kind => After(M, j, kind) = After(L, j, kind)
    <3> SUFFICES ASSUME NEW kind
                 PROVE  /\ l.kind = kind => After(M, j, kind) = After(L, j, kind) \cup {N + 1}
                        /\ l.kind # kind => After(M, j, kind) = After(L, j, kind)
      OBVIOUS
    <3>1. /\ l.kind = kind => LinesOf(M, j, kind) = LinesOf(L, j, kind) \cup {N + 1}
          /\ l.kind # kind => LinesOf(M, j, kind) = LinesOf(L, j, kind)
      BY <1>3, <1>l
    <3>2. N + 1 > m
      BY <2>1, <1>s, <1>n
    <3> QED
      BY <3>1, <3>2, <2>3 DEF After
  <2>5. \A kind : After(L, j, kind) # {} /\ l.kind # kind =>
                    M[Max(After(L, j, kind))] = L[Max(After(L, j, kind))]
    BY <1>n, <1>s, MaxIs
  <2>6. \A kind : l.kind = kind => /\ After(M, j, kind) # {}
                                   /\ M[Max(After(M, j, kind))] = l
    <3> SUFFICES ASSUME NEW kind, l.kind = kind
                 PROVE  After(M, j, kind) # {} /\ M[Max(After(M, j, kind))] = l
      OBVIOUS
    <3> DEFINE A == After(M, j, kind)
    <3>1. A \in SUBSET (1 .. N + 1) /\ N + 1 \in A
      BY <2>4, <1>s, <1>n
    <3>2. Max(A) \in A /\ \A x \in A : x <= Max(A)
      <4>1. N + 1 \in Nat
        BY <1>n
      <4> HIDE DEF A
      <4> QED
        BY <3>1, <4>1, MaxIs
    <3>3. Max(A) = N + 1
      BY <3>1, <3>2, <1>n
    <3> QED
      BY <3>1, <3>3, <1>n
  <2>7. M[m] = L[m]
    BY <2>1, <1>s, <1>n
  <2>8. Replay(L, j).state # "none"
    BY <1>3, ReplayType
  <2>9. LinesOf(M, j, "J") # {}
    BY <2>2, <1>3
  <2>10. Replay(M, j).state = IF l.kind = "S" THEN l.state ELSE Replay(L, j).state
    <3>1. CASE l.kind = "S"
      BY <3>1, <2>6, <2>9, ReplayIs
    <3>2. CASE l.kind # "S"
      <4>1. After(M, j, "S") = After(L, j, "S")
        BY <3>2, <2>4
      <4>2. After(L, j, "S") # {} => M[Max(After(L, j, "S"))] = L[Max(After(L, j, "S"))]
        BY <3>2, <2>5
      <4> QED
        BY <3>2, <4>1, <4>2, <2>9, <1>3, ReplayIs
    <3> QED
      BY <3>1, <3>2
  <2>11. Replay(M, j).tok = IF l.kind = "T" THEN l.tok ELSE Replay(L, j).tok
    <3>1. CASE l.kind = "T"
      BY <3>1, <2>6, <2>9, ReplayIs
    <3>2. CASE l.kind # "T"
      <4>1. After(M, j, "T") = After(L, j, "T")
        BY <3>2, <2>4
      <4>2. After(L, j, "T") # {} => M[Max(After(L, j, "T"))] = L[Max(After(L, j, "T"))]
        BY <3>2, <2>5
      <4> QED
        BY <3>2, <4>1, <4>2, <2>3, <2>7, <2>9, <1>3, ReplayIs
    <3> QED
      BY <3>1, <3>2
  <2>12. Replay(M, j) = [state |-> Replay(M, j).state, tok |-> Replay(M, j).tok]
    BY <2>9, ReplayIs
  <2>13. Step(Replay(L, j), l, j) =
            [state |-> IF l.kind = "S" THEN l.state ELSE Replay(L, j).state,
             tok |-> IF l.kind = "T" THEN l.tok ELSE Replay(L, j).tok]
    <3>1. l.ok /\ ~(l.job # j) /\ Replay(L, j).state # "none"
      BY <2>8, <1>3
    <3> QED
      BY <3>1, Zenon DEF Step
  <2> QED
    BY <2>10, <2>11, <2>12, <2>13
<1> QED
  BY <1>1, <1>2, <1>3

-----------------------------------------------------------------------------
(* The compacted file.                                                     *)

LEMMA EveryoneOnce ==
  ASSUME NEW S, IsFiniteSet(S)
  PROVE  /\ SetToSeq(S) \in Seq(S)
         /\ \A x \in S : \E i \in 1 .. Len(SetToSeq(S)) : SetToSeq(S)[i] = x
         /\ \A i, k \in 1 .. Len(SetToSeq(S)) : SetToSeq(S)[i] = SetToSeq(S)[k] => i = k
<1> DEFINE n == Cardinality(S)
           f == SetToSeq(S)
<1>1. n \in Nat /\ ExistsBijection(1 .. n, S)
  BY FS_CardinalityType
<1>2. \E g \in [1 .. n -> S] : IsInjective(g)
  BY <1>1 DEF ExistsBijection, Bijection, Injection, IsInjective
<1>3. f \in [1 .. n -> S] /\ IsInjective(f)
  BY <1>2, Zenon DEF SetToSeq
<1>4. f \in Seq(S) /\ Len(f) = n
  BY <1>1, <1>3
<1>5. \A i, k \in 1 .. n : f[i] = f[k] => i = k
  BY <1>3 DEF IsInjective
<1>6. ASSUME NEW x \in S, \A i \in 1 .. n : f[i] # x PROVE FALSE
  <2>1. f \in [1 .. n -> S \ {x}]
    BY <1>3, <1>6
  <2>2. IsFiniteSet(1 .. n) /\ Cardinality(1 .. n) = n
    BY <1>1, FS_Interval
  <2>3. IsFiniteSet(S \ {x}) /\ Cardinality(S \ {x}) = n - 1
    BY FS_RemoveElement
  <2>4. n - 1 < n
    BY <1>1
  <2> HIDE DEF f, n
  <2>5. \E i, k \in 1 .. n : i # k /\ f[i] = f[k]
    BY <2>1, <2>2, <2>3, <2>4, FS_PigeonHole
  <2> QED
    BY <2>5, <1>5
<1> QED
  BY <1>4, <1>5, <1>6

(* A start writes a file that reads back as what it loaded.                *)
LEMMA CompactedReadsBack ==
  ASSUME mem \in [Jobs -> Record], WholeRecords
  PROVE  /\ Compacted \in Seq(Line)
         /\ SaneLines(Compacted)
         /\ \A j \in Jobs : Replay(Compacted, j) = mem[j]
<1> DEFINE S == {j \in Jobs : mem[j].state # "none"}
           known == SetToSeq(S)
           n == Len(known)
           L == Compacted
<1>1. IsFiniteSet(S)
  BY JournalAssumption, FS_Subset
<1>2. /\ known \in Seq(S)
      /\ \A x \in S : \E i \in 1 .. n : known[i] = x
      /\ \A i, k \in 1 .. n : known[i] = known[k] => i = k
  BY <1>1, EveryoneOnce
<1>s. \A x : x \in S <=> x \in Jobs /\ mem[x].state # "none"
  OBVIOUS
<1> HIDE DEF S
<1>3. n \in Nat /\ \A i \in 1 .. n : known[i] \in S
  <2>1. ASSUME NEW q \in Seq(S) PROVE Len(q) \in Nat /\ \A i \in 1 .. Len(q) : q[i] \in S
    BY LenProperties
  <2> QED
    BY <1>2, <2>1
<1>4. L = [i \in 1 .. 2 * n |->
             IF i % 2 = 1 THEN JobLine(known[(i + 1) \div 2], mem[known[(i + 1) \div 2]].tok)
             ELSE StateLine(known[(i + 1) \div 2], mem[known[(i + 1) \div 2]].state)]
  BY DEF Compacted, S
<1>5. \A i \in 1 .. 2 * n : (i + 1) \div 2 \in 1 .. n
  BY <1>3
<1> HIDE DEF L, n, known
<1>6. \A i \in 1 .. 2 * n :
        /\ L[i] \in Line
        /\ L[i].ok /\ L[i].job = known[(i + 1) \div 2]
        /\ i % 2 = 1 => /\ L[i].kind = "J"
                        /\ L[i].tok = mem[known[(i + 1) \div 2]].tok
        /\ i % 2 # 1 => /\ L[i].kind = "S"
                        /\ L[i].state = mem[known[(i + 1) \div 2]].state
                        /\ L[i].state # "none"
  <2> SUFFICES ASSUME NEW i \in 1 .. 2 * n
      PROVE  /\ L[i] \in Line
             /\ L[i].ok /\ L[i].job = known[(i + 1) \div 2]
             /\ i % 2 = 1 => /\ L[i].kind = "J"
                             /\ L[i].tok = mem[known[(i + 1) \div 2]].tok
             /\ i % 2 # 1 => /\ L[i].kind = "S"
                             /\ L[i].state = mem[known[(i + 1) \div 2]].state
                             /\ L[i].state # "none"
    OBVIOUS
  <2>1. PICK j \in Jobs : j = known[(i + 1) \div 2] /\ mem[j].state # "none"
    BY <1>3, <1>5, <1>s
  <2>2. mem[j] \in Record
    OBVIOUS
  <2>3. L[i] = IF i % 2 = 1 THEN JobLine(j, mem[j].tok) ELSE StateLine(j, mem[j].state)
    BY <1>4, <2>1
  <2>4. CASE i % 2 = 1
    BY <2>1, <2>2, <2>3, <2>4 DEF JobLine, Line, Record, States
  <2>5. CASE i % 2 # 1
    BY <2>1, <2>2, <2>3, <2>5 DEF StateLine, Line, Record, Tokens
  <2> QED
    BY <2>4, <2>5
<1>7. L \in Seq(Line) /\ Len(L) = 2 * n /\ DOMAIN L = 1 .. 2 * n
  <2> DEFINE N == 2 * n
  <2>1. N \in Nat
    BY <1>3
  <2> HIDE DEF N
  <2>2. L = [i \in 1 .. N |-> L[i]] /\ \A i \in 1 .. N : L[i] \in Line
    BY <1>4, <1>6 DEF N
  <2>3. L \in [1 .. N -> Line]
    BY <2>2
  <2>4. L \in Seq(Line) /\ Len(L) = N /\ DOMAIN L = 1 .. N
    BY <2>1, <2>3
  <2> QED
    BY <2>4 DEF N
<1>8. SaneLines(L)
  BY <1>6, <1>7 DEF SaneLines
<1>9. ASSUME NEW j \in Jobs PROVE Replay(L, j) = mem[j]
  <2>1. CASE mem[j].state = "none"
    <3>1. \A i \in 1 .. 2 * n : L[i].job # j
      BY <1>3, <1>5, <1>6, <1>s, <2>1
    <3>2. LinesOf(L, j, "J") = {}
      BY <3>1, <1>7 DEF LinesOf
    <3> QED
      BY <2>1, <3>2, ReplayNobody DEF WholeRecords
  <2>2. CASE mem[j].state # "none"
    <3>1. PICK k \in 1 .. n : known[k] = j
      BY <1>2, <1>s, <2>2
    <3>2. k \in Nat /\ k >= 1 /\ 2 * k - 1 \in 1 .. 2 * n /\ 2 * k \in 1 .. 2 * n
      BY <1>3
    <3>3. /\ (2 * k - 1) % 2 = 1 /\ (2 * k - 1 + 1) \div 2 = k
          /\ (2 * k) % 2 = 0 /\ (2 * k + 1) \div 2 = k
      BY <3>2
    <3>4. \A i \in 1 .. 2 * n : (i + 1) \div 2 = k => i \in {2 * k - 1, 2 * k}
      BY <3>2, <1>3
    <3>5. \A i \in 1 .. 2 * n : L[i].job = j => i \in {2 * k - 1, 2 * k}
      BY <3>1, <3>4, <1>2, <1>5, <1>6
    <3>6. /\ L[2 * k - 1].ok /\ L[2 * k - 1].job = j /\ L[2 * k - 1].kind = "J"
          /\ L[2 * k - 1].tok = mem[j].tok
          /\ L[2 * k].ok /\ L[2 * k].job = j /\ L[2 * k].kind = "S"
          /\ L[2 * k].state = mem[j].state
      <4>1. \A i \in 1 .. 2 * n : i % 2 = 1 /\ (i + 1) \div 2 = k =>
              L[i].ok /\ L[i].job = j /\ L[i].kind = "J" /\ L[i].tok = mem[j].tok
        BY <3>1, <1>6
      <4>2. \A i \in 1 .. 2 * n : i % 2 # 1 /\ (i + 1) \div 2 = k =>
              L[i].ok /\ L[i].job = j /\ L[i].kind = "S" /\ L[i].state = mem[j].state
        BY <3>1, <1>6
      <4>3. PICK o, e : o = 2 * k - 1 /\ e = 2 * k
        OBVIOUS
      <4>4. /\ o \in 1 .. 2 * n /\ o % 2 = 1 /\ (o + 1) \div 2 = k
            /\ e \in 1 .. 2 * n /\ e % 2 # 1 /\ (e + 1) \div 2 = k
        BY <3>2, <3>3, <4>3
      <4>5. /\ L[o].ok /\ L[o].job = j /\ L[o].kind = "J" /\ L[o].tok = mem[j].tok
            /\ L[e].ok /\ L[e].job = j /\ L[e].kind = "S" /\ L[e].state = mem[j].state
        BY <4>1, <4>2, <4>4, Zenon
      <4> QED
        BY <4>3, <4>5
    <3>7. /\ LinesOf(L, j, "J") = {2 * k - 1}
          /\ LinesOf(L, j, "S") = {2 * k}
          /\ LinesOf(L, j, "T") = {}
      BY <3>2, <3>5, <3>6, <1>7 DEF LinesOf
    <3>8. 2 * n \in Nat /\ {2 * k - 1} \in SUBSET (1 .. 2 * n) /\ {2 * k} \in SUBSET (1 .. 2 * n)
      BY <3>2, <1>3
    <3>9. Min({2 * k - 1}) = 2 * k - 1
      BY <3>8, MinIs
    <3>10. Max({2 * k}) = 2 * k
      BY <3>8, MaxIs
    <3>11. After(L, j, "S") = {2 * k} /\ After(L, j, "T") = {}
      BY <3>2, <3>7, <3>9 DEF After
    <3>14. LinesOf(L, j, "J") # {}
      BY <3>7
    <3>12. /\ Replay(L, j).state = mem[j].state /\ Replay(L, j).tok = mem[j].tok
           /\ Replay(L, j) = [state |-> Replay(L, j).state, tok |-> Replay(L, j).tok]
      <4> DEFINE a == 2 * k - 1
                 b == 2 * k
      <4>1. /\ LinesOf(L, j, "J") = {a} /\ Min({a}) = a /\ L[a].tok = mem[j].tok
            /\ After(L, j, "S") = {b} /\ Max({b}) = b /\ L[b].state = mem[j].state
            /\ After(L, j, "T") = {}
        BY <3>6, <3>7, <3>9, <3>10, <3>11
      <4> HIDE DEF a, b
      <4> QED
        BY <3>14, <4>1, ReplayIs
    <3>13. mem[j] = [state |-> mem[j].state, tok |-> mem[j].tok]
      BY DEF Record
    <3> QED
      BY <3>12, <3>13
  <2> QED
    BY <2>1, <2>2
<1> QED
  BY <1>7, <1>8, <1>9 DEF L

-----------------------------------------------------------------------------
(* Writing files and losing their ends.                                    *)

LEMMA CutIsLine ==
  ASSUME NEW l \in Line, NEW c \in Cut(l)
  PROVE  /\ c \in Line
         /\ c.kind = l.kind /\ c.job = l.job /\ c.state = l.state
         /\ c.tok = l.tok \/ (l.kind = "T" /\ c.tok = "short")
BY DEF Cut, Line, Tokens

LEMMA ShortLists ==
  ASSUME NEW a, NEW b
  PROVE  /\ SubSeq(<<a, b>>, 1, 1) = <<a>>
         /\ \A p : SubSeq(p, 1, 0) = <<>>
         /\ Append(<<>>, a) = <<a>>
         /\ Append(<<a>>, b) = <<a, b>>
         /\ <<a>> \o <<b>> = <<a, b>>
<1>1. <<a, b>> \in Seq({a, b}) /\ <<a>> \in Seq({a, b}) /\ b \in {a, b}
  OBVIOUS
<1>2. SubSeq(<<a, b>>, 1, 1) = <<a>>
  <2> DEFINE q == <<a, b>>
             t == SubSeq(q, 1, 1)
  <2>1. q[1] = a
    OBVIOUS
  <2>2. \A i \in 1 .. 1 : q[i] \in {a}
    BY <2>1
  <2> HIDE DEF q
  <2>3. t \in Seq({a}) /\ Len(t) = 1 /\ \A i \in 1 .. 1 : t[i] = q[i]
    BY <2>2, SubSeqProperties
  <2> HIDE DEF t
  <2>4. t[1] = a
    BY <2>1, <2>3
  <2>5. t = <<a>>
    BY <2>3, <2>4
  <2> QED
    BY <2>5 DEF t, q
<1>3. \A p : SubSeq(p, 1, 0) = <<>>
  BY SubSeqEmpty
<1>4. Append(<<>>, a) = <<a>> /\ Append(<<a>>, b) = <<a, b>>
  <2> DEFINE t == Append(<<a>>, b)
             u == Append(<<>>, a)
  <2>0. <<a>> \in Seq({a, b}) /\ <<>> \in Seq({a, b}) /\ a \in {a, b} /\ b \in {a, b}
        /\ Len(<<a>>) = 1 /\ <<a>>[1] = a /\ Len(<<>>) = 0
    OBVIOUS
  <2>1. t \in Seq({a, b}) /\ Len(t) = 2 /\ t[1] = a /\ t[2] = b
    BY <2>0, AppendProperties
  <2>2. u \in Seq({a, b}) /\ Len(u) = 1 /\ u[1] = a
    BY <2>0, AppendProperties
  <2> HIDE DEF t, u
  <2>3. t = <<a, b>> /\ u = <<a>>
    BY <2>1, <2>2
  <2> QED
    BY <2>3 DEF t, u
<1>5. Append(<<a>>, b) = <<a>> \o <<b>>
  BY <1>1, AppendIsConcat
<1> QED
  BY <1>2, <1>3, <1>4, <1>5

(* Lines of which a torn one is one.                                       *)
Tearable(A) == A \subseteq Line /\ \A a \in A : Cut(a) \subseteq A

(* A write adds at most two lines.                                         *)
Extends(L, M, A) ==
  \/ M = L
  \/ \E z \in A : M = Append(L, z)
  \/ \E z, y \in A : M = Append(Append(L, z), y)

LEMMA ExtendsType ==
  ASSUME NEW L \in Seq(Line), NEW A, A \subseteq Line, NEW M, Extends(L, M, A)
  PROVE  M \in Seq(Line) /\ Len(M) >= Len(L)
<1>1. Len(L) \in Nat
  BY LenProperties
<1>2. ASSUME NEW K \in Seq(Line), NEW z \in A
      PROVE  Append(K, z) \in Seq(Line) /\ Len(Append(K, z)) = Len(K) + 1
  BY AppendProperties
<1>3. CASE \E z \in A : M = Append(L, z)
  BY <1>1, <1>2, <1>3
<1>4. CASE \E z, y \in A : M = Append(Append(L, z), y)
  <2>1. PICK z \in A, y \in A : M = Append(Append(L, z), y)
    BY <1>4
  <2> DEFINE K == Append(L, z)
  <2>2. K \in Seq(Line) /\ Len(K) = Len(L) + 1
    BY <1>2
  <2> HIDE DEF K
  <2>3. M \in Seq(Line) /\ Len(M) = Len(K) + 1
    BY <1>2, <2>1, <2>2 DEF K
  <2> QED
    BY <1>1, <2>2, <2>3
<1> QED
  BY <1>1, <1>3, <1>4 DEF Extends

LEMMA WriteExtends ==
  ASSUME NEW f \in File, NEW A, A \subseteq Line, NEW q, NEW r \in BOOLEAN,
         (\E x \in A : q = <<x>>) \/ (\E x, y \in A : q = <<x, y>>)
  PROVE  /\ Write(f, q, r) \in File
         /\ Write(f, q, r).safe = f.safe
         /\ Extends(f.lines, Write(f, q, r).lines, A)
<1> DEFINE L == f.lines
           p == IF f.ragged THEN Tail(q) ELSE q
           g == Write(f, q, r)
<1>1. L \in Seq(Line) /\ f.safe \in Nat /\ f.ragged \in BOOLEAN
  BY DEF File
<1>2. g = [f EXCEPT !.lines = L \o p, !.ragged = r]
  BY DEF Write
<1>3. p = <<>> \/ (\E x \in A : p = <<x>>) \/ (\E x, y \in A : p = <<x, y>>)
  <2>1. CASE \E x \in A : q = <<x>>
    BY <2>1
  <2>2. CASE \E x, y \in A : q = <<x, y>>
    <3>1. PICK x \in A, y \in A : q = <<x, y>>
      BY <2>2
    <3>2. Tail(q) = <<y>>
      BY <3>1
    <3> QED
      BY <3>1, <3>2
  <2> QED
    BY <2>1, <2>2
<1> HIDE DEF p
<1>4. Extends(L, L \o p, A)
  <2>1. CASE p = <<>>
    BY <2>1, <1>1, ConcatEmptySeq DEF Extends
  <2>2. CASE \E x \in A : p = <<x>>
    <3>1. PICK x \in A : p = <<x>>
      BY <2>2
    <3>2. x \in Line
      OBVIOUS
    <3>3. L \o <<x>> = Append(L, x)
      BY <3>2, <1>1, AppendIsConcat
    <3> QED
      BY <3>1, <3>3 DEF Extends
  <2>3. CASE \E x, y \in A : p = <<x, y>>
    <3>1. PICK x \in A, y \in A : p = <<x, y>>
      BY <2>3
    <3>2. x \in Line /\ y \in Line
      OBVIOUS
    <3>3. Append(L, x) = L \o <<x>> /\ Append(L, x) \in Seq(Line)
      BY <3>2, <1>1, AppendIsConcat, AppendProperties
    <3>4. Append(Append(L, x), y) = (L \o <<x>>) \o <<y>>
      BY <3>2, <3>3, AppendIsConcat
    <3>5. <<x>> \in Seq(Line) /\ <<y>> \in Seq(Line) /\ <<x>> \o <<y>> = <<x, y>>
      <4>1. <<x>> \in Seq(Line) /\ <<y>> \in Seq(Line)
        BY <3>2
      <4>2. <<x>> \o <<y>> = <<x, y>>
        BY ShortLists, Zenon
      <4> QED
        BY <4>1, <4>2
    <3>6. (L \o <<x>>) \o <<y>> = L \o (<<x>> \o <<y>>)
      BY <1>1, <3>5, ConcatAssociative
    <3>7. L \o <<x, y>> = Append(Append(L, x), y)
      BY <3>4, <3>5, <3>6
    <3> QED
      BY <3>1, <3>7 DEF Extends
  <2> QED
    BY <1>3, <2>1, <2>2, <2>3
<1>5. L \o p \in Seq(Line)
  BY <1>1, <1>4, ExtendsType
<1>6. g \in File /\ g.safe = f.safe /\ g.lines = L \o p
  <2> HIDE DEF g
  <2> QED
    BY <1>1, <1>2, <1>5 DEF File
<1> QED
  BY <1>4, <1>6

(* A write that was not let finish.                                        *)
LEMMA FailedWrite ==
  ASSUME NEW f \in File, NEW A, Tearable(A), NEW p,
         (\E a \in A : p = <<a>>) \/ (\E a, b \in A : p = <<a, b>>),
         NEW g \in TornWrites(f, p) \cup {Write(f, p, FALSE)}
  PROVE  /\ g \in File
         /\ g.safe = f.safe
         /\ Extends(f.lines, g.lines, A)
<1>0. A \subseteq Line /\ \A a \in A : Cut(a) \subseteq A
  BY DEF Tearable
<1>1. CASE g = f
  BY <1>1 DEF Extends
<1>2. ASSUME NEW q, NEW r \in BOOLEAN, g = Write(f, q, r),
             (\E x \in A : q = <<x>>) \/ (\E x, y \in A : q = <<x, y>>)
      PROVE  g \in File /\ g.safe = f.safe /\ Extends(f.lines, g.lines, A)
  BY <1>2, <1>0, WriteExtends
<1>3. CASE g = Write(f, p, FALSE)
  BY <1>2, <1>3
<1>4. CASE \E n \in 1 .. Len(p) - 1 : g = Write(f, SubSeq(p, 1, n), FALSE)
  <2>1. PICK n \in 1 .. Len(p) - 1 : g = Write(f, SubSeq(p, 1, n), FALSE)
    BY <1>4
  <2>2. PICK a \in A, b \in A : p = <<a, b>>
    BY <2>1
  <2>3. n = 1 /\ SubSeq(p, 1, 1) = <<a>>
    <3>1. Len(p) = 2
      BY <2>2
    <3>2. SubSeq(<<a, b>>, 1, 1) = <<a>>
      BY ShortLists, Zenon
    <3> QED
      BY <2>1, <2>2, <3>1, <3>2
  <2> QED
    BY <1>2, <2>1, <2>3
<1>5. CASE \E n \in 0 .. Len(p) - 1 : \E torn \in Cut(p[n + 1]) :
             g = Write(f, Append(SubSeq(p, 1, n), torn), TRUE)
  <2>1. PICK n \in 0 .. Len(p) - 1 : \E torn \in Cut(p[n + 1]) :
             g = Write(f, Append(SubSeq(p, 1, n), torn), TRUE)
    BY <1>5
  <2>2. PICK torn \in Cut(p[n + 1]) : g = Write(f, Append(SubSeq(p, 1, n), torn), TRUE)
    BY <2>1
  <2>3. CASE n = 0
    <3>1. p[1] \in A
      OBVIOUS
    <3>2. torn \in A
      BY <1>0, <2>3, <3>1
    <3>3. Append(SubSeq(p, 1, 0), torn) = <<torn>>
      BY ShortLists
    <3> QED
      BY <1>2, <2>2, <2>3, <3>2, <3>3
  <2>4. CASE n # 0
    <3>1. PICK a \in A, b \in A : p = <<a, b>>
      BY <2>4
    <3>2. n = 1 /\ p[2] = b
      BY <2>4, <3>1
    <3>3. torn \in A
      BY <1>0, <3>2
    <3>4. Append(SubSeq(p, 1, 1), torn) = <<a, torn>>
      BY <3>1, ShortLists
    <3> QED
      BY <1>2, <2>2, <3>2, <3>3, <3>4
  <2> QED
    BY <2>3, <2>4
<1> QED
  BY <1>1, <1>3, <1>4, <1>5 DEF TornWrites

(* What a crash may leave of a file: a prefix no shorter than what is      *)
(* synced, whole or with the next line cut.                                *)
LEMMA ViewIs ==
  ASSUME NEW L, NEW s, NEW v
  PROVE  v \in Views(L, s) <=>
           \/ \E n \in s .. Len(L) : v = SubSeq(L, 1, n)
           \/ \E n \in s .. Len(L) - 1 : \E torn \in Cut(L[n + 1]) :
                v = Append(SubSeq(L, 1, n), torn)
<1> DEFINE P == {SubSeq(L, 1, n) : n \in s .. Len(L)}
           T(n) == {Append(SubSeq(L, 1, n), torn) : torn \in Cut(L[n + 1])}
           U == {T(n) : n \in s .. Len(L) - 1}
<1>1. Views(L, s) = P \cup UNION U
  BY DEF Views
<1>2. v \in P <=> \E n \in s .. Len(L) : v = SubSeq(L, 1, n)
  BY Zenon
<1>3. v \in UNION U <=> \E n \in s .. Len(L) - 1 : v \in T(n)
  BY Zenon
<1>4. \A n : v \in T(n) <=> \E torn \in Cut(L[n + 1]) : v = Append(SubSeq(L, 1, n), torn)
  BY Zenon
<1> QED
  BY <1>1, <1>2, <1>3, <1>4, Zenon

(* The same, for a view that is given.                                      *)
LEMMA ViewShape ==
  ASSUME NEW L, NEW s, NEW v \in Views(L, s)
  PROVE  \/ \E n \in s .. Len(L) : v = SubSeq(L, 1, n)
         \/ \E n \in s .. Len(L) - 1 : \E torn \in Cut(L[n + 1]) :
              v = Append(SubSeq(L, 1, n), torn)
<1> DEFINE Whole == \E n \in s .. Len(L) : v = SubSeq(L, 1, n)
           Torn == \E n \in s .. Len(L) - 1 : \E torn \in Cut(L[n + 1]) :
                     v = Append(SubSeq(L, 1, n), torn)
<1>1. v \in Views(L, s) <=> Whole \/ Torn
  BY ViewIs
<1> HIDE DEF Whole, Torn
<1>2. Whole \/ Torn
  BY <1>1
<1> QED
  BY <1>2 DEF Whole, Torn

LEMMA ViewType ==
  ASSUME NEW L \in Seq(Line), SaneLines(L), NEW s \in Nat, NEW v \in Views(L, s)
  PROVE  v \in Seq(Line) /\ SaneLines(v)
<1>1. Len(L) \in Nat /\ DOMAIN L = 1 .. Len(L) /\ \A i \in 1 .. Len(L) : L[i] \in Line
  BY LenProperties
<1>2. \A n \in 0 .. Len(L) :
        /\ SubSeq(L, 1, n) \in Seq(Line) /\ Len(SubSeq(L, 1, n)) = n
        /\ \A i \in 1 .. n : SubSeq(L, 1, n)[i] = L[i]
  <2> SUFFICES ASSUME NEW n \in 0 .. Len(L)
      PROVE  /\ SubSeq(L, 1, n) \in Seq(Line) /\ Len(SubSeq(L, 1, n)) = n
             /\ \A i \in 1 .. n : SubSeq(L, 1, n)[i] = L[i]
    OBVIOUS
  <2>1. n \in Int /\ n >= 0 /\ \A i \in 1 .. n : L[i] \in Line
    BY <1>1
  <2> QED
    BY <2>1, SubSeqProperties
<1>3. \A n \in 0 .. Len(L) : SaneLines(SubSeq(L, 1, n))
  BY <1>1, <1>2 DEF SaneLines
<1>4. CASE \E n \in s .. Len(L) : v = SubSeq(L, 1, n)
  BY <1>1, <1>2, <1>3, <1>4
<1>5. CASE \E n \in s .. Len(L) - 1 : \E torn \in Cut(L[n + 1]) :
             v = Append(SubSeq(L, 1, n), torn)
  <2>1. PICK n \in s .. Len(L) - 1 : \E torn \in Cut(L[n + 1]) :
             v = Append(SubSeq(L, 1, n), torn)
    BY <1>5
  <2>2. PICK torn \in Cut(L[n + 1]) : v = Append(SubSeq(L, 1, n), torn)
    BY <2>1
  <2> DEFINE K == SubSeq(L, 1, n)
  <2>3. K \in Seq(Line) /\ SaneLines(K) /\ Len(K) = n /\ n \in Nat /\ L[n + 1] \in Line
    BY <1>1, <1>2, <1>3
  <2>4. torn \in Line /\ (torn.kind = "S" => torn.state # "none")
    BY <1>1, <2>3, CutIsLine DEF SaneLines
  <2> HIDE DEF K
  <2>5. /\ v \in Seq(Line) /\ Len(v) = n + 1
        /\ \A i \in 1 .. n : v[i] = K[i]
        /\ v[n + 1] = torn
    BY <2>2, <2>3, <2>4, AppendProperties DEF K
  <2>6. DOMAIN v = 1 .. n + 1 /\ DOMAIN K = 1 .. n
    BY <2>3, <2>5, LenProperties
  <2> QED
    BY <2>3, <2>4, <2>5, <2>6 DEF SaneLines
<1> QED
  BY <1>4, <1>5, ViewIs

(* A file that is synced to its end keeps all its lines.                   *)
LEMMA ViewsWhenSynced ==
  ASSUME NEW L \in Seq(Line)
  PROVE  Views(L, Len(L)) = {L}
<1>1. Len(L) \in Nat /\ SubSeq(L, 1, Len(L)) = L
  BY LenProperties, SubSeqFull
<1> QED
  BY <1>1 DEF Views

LEMMA WholeIsAView ==
  ASSUME NEW L \in Seq(Line), NEW s \in Nat, s <= Len(L)
  PROVE  L \in Views(L, s)
<1>1. Len(L) \in Nat /\ SubSeq(L, 1, Len(L)) = L
  BY LenProperties, SubSeqFull
<1>2. Len(L) \in s .. Len(L)
  BY <1>1
<1> QED
  BY <1>1, <1>2, ViewIs

(* What may be left of a file one line longer.                             *)
LEMMA ViewsOfAppend ==
  ASSUME NEW L \in Seq(Line), NEW z \in Line, NEW s \in Nat, s <= Len(L),
         NEW v \in Views(Append(L, z), s)
  PROVE  v \in Views(L, s) \/ \E t \in {z} \cup Cut(z) : v = Append(L, t)
<1> DEFINE M == Append(L, z)
           N == Len(L)
<1>1. /\ N \in Nat /\ M \in Seq(Line) /\ Len(M) = N + 1 /\ M[N + 1] = z
      /\ \A i \in 1 .. N : M[i] = L[i]
  BY LenProperties, AppendProperties
<1>2. \A n \in 0 .. N : SubSeq(M, 1, n) = SubSeq(L, 1, n)
  <2> SUFFICES ASSUME NEW n \in 0 .. N PROVE SubSeq(M, 1, n) = SubSeq(L, 1, n)
    OBVIOUS
  <2>1. CASE n = 0
    BY <2>1, SubSeqEmpty
  <2>2. CASE n # 0
    <3>1. M = L \o <<z>> /\ <<z>> \in Seq(Line)
      BY AppendIsConcat
    <3>2. 1 \in 1 .. Len(L) /\ n \in 1 .. Len(L)
      BY <1>1, <2>2
    <3> QED
      BY <3>1, <3>2, SubSeqOfConcat1
  <2> QED
    BY <2>1, <2>2
<1>3. SubSeq(M, 1, N + 1) = M /\ SubSeq(L, 1, N) = L
  BY <1>1, SubSeqFull
<1>4. \/ \E n \in s .. N + 1 : v = SubSeq(M, 1, n)
      \/ \E n \in s .. N : \E torn \in Cut(M[n + 1]) : v = Append(SubSeq(M, 1, n), torn)
  <2>1. Len(M) - 1 = N
    BY <1>1
  <2>2. v \in Views(M, s)
    OBVIOUS
  <2> HIDE DEF M, N
  <2>3. \/ \E n \in s .. Len(M) : v = SubSeq(M, 1, n)
        \/ \E n \in s .. Len(M) - 1 : \E torn \in Cut(M[n + 1]) :
             v = Append(SubSeq(M, 1, n), torn)
    BY <2>2, ViewShape
  <2>4. Len(M) = N + 1
    BY <1>1
  <2>5. CASE \E n \in s .. Len(M) : v = SubSeq(M, 1, n)
    BY <2>4, <2>5
  <2>6. CASE \E n \in s .. Len(M) - 1 : \E torn \in Cut(M[n + 1]) :
               v = Append(SubSeq(M, 1, n), torn)
    <3>1. PICK n \in s .. Len(M) - 1 : \E torn \in Cut(M[n + 1]) :
               v = Append(SubSeq(M, 1, n), torn)
      BY <2>6
    <3>2. n \in s .. N
      BY <2>1, <3>1
    <3> QED
      BY <3>1, <3>2
  <2> QED
    BY <2>3, <2>5, <2>6
<1>v. \A w : (\/ \E n \in s .. N : w = SubSeq(L, 1, n)
              \/ \E n \in s .. N - 1 : \E torn \in Cut(L[n + 1]) :
                   w = Append(SubSeq(L, 1, n), torn))
             => w \in Views(L, s)
  BY ViewIs, Zenon
<1> HIDE DEF M, N
<1>5. CASE \E n \in s .. N + 1 : v = SubSeq(M, 1, n)
  <2>1. PICK n \in s .. N + 1 : v = SubSeq(M, 1, n)
    BY <1>5
  <2>2. CASE n = N + 1
    BY <2>1, <2>2, <1>3 DEF M
  <2>3. CASE n # N + 1
    <3>1. n \in s .. N /\ v = SubSeq(L, 1, n)
      BY <2>1, <2>3, <1>1, <1>2
    <3> QED
      BY <3>1, <1>v
  <2> QED
    BY <2>2, <2>3
<1>6. CASE \E n \in s .. N : \E torn \in Cut(M[n + 1]) : v = Append(SubSeq(M, 1, n), torn)
  <2>1. PICK n \in s .. N : \E torn \in Cut(M[n + 1]) : v = Append(SubSeq(M, 1, n), torn)
    BY <1>6
  <2>2. PICK torn \in Cut(M[n + 1]) : v = Append(SubSeq(M, 1, n), torn)
    BY <2>1
  <2>3. SubSeq(M, 1, n) = SubSeq(L, 1, n)
    BY <1>1, <1>2
  <2>4. CASE n = N
    BY <2>2, <2>3, <2>4, <1>1, <1>3
  <2>5. CASE n # N
    <3>1. n \in s .. N - 1 /\ n + 1 \in 1 .. N
      BY <2>5, <1>1
    <3>2. M[n + 1] = L[n + 1]
      BY <3>1, <1>1
    <3> QED
      BY <3>1, <3>2, <2>2, <2>3, <1>v
  <2> QED
    BY <2>4, <2>5
<1> QED
  BY <1>4, <1>5, <1>6

(* ... and of one that a write has lengthened.                             *)
LEMMA ViewsOfExtension ==
  ASSUME NEW L \in Seq(Line), NEW A, Tearable(A), NEW M, Extends(L, M, A),
         NEW s \in Nat, s <= Len(L), NEW v \in Views(M, s)
  PROVE  v \in Views(L, s) \/ Extends(L, v, A)
<1>0. A \subseteq Line /\ \A a \in A : Cut(a) \subseteq A
  BY DEF Tearable
<1>1. CASE M = L
  BY <1>1
<1>2. CASE \E z \in A : M = Append(L, z)
  <2>1. PICK z \in A : M = Append(L, z)
    BY <1>2
  <2>2. v \in Views(L, s) \/ \E t \in {z} \cup Cut(z) : v = Append(L, t)
    BY <1>0, <2>1, ViewsOfAppend
  <2> QED
    BY <1>0, <2>2 DEF Extends
<1>3. CASE \E z, y \in A : M = Append(Append(L, z), y)
  <2>1. PICK z \in A, y \in A : M = Append(Append(L, z), y)
    BY <1>3
  <2> DEFINE K == Append(L, z)
  <2>2. K \in Seq(Line) /\ Len(K) = Len(L) + 1 /\ Len(L) \in Nat
    BY <1>0, AppendProperties, LenProperties
  <2>k. M = Append(K, y) /\ K = Append(L, z)
    BY <2>1
  <2> HIDE DEF K
  <2>3. v \in Views(K, s) \/ \E t \in {y} \cup Cut(y) : v = Append(K, t)
    <3>1. s <= Len(K) /\ y \in Line /\ v \in Views(Append(K, y), s)
      BY <1>0, <2>k, <2>2
    <3> QED
      BY <2>2, <3>1, ViewsOfAppend
  <2>4. CASE \E t \in {y} \cup Cut(y) : v = Append(K, t)
    BY <1>0, <2>k, <2>4 DEF Extends
  <2>5. CASE v \in Views(K, s)
    <3>1. v \in Views(L, s) \/ \E t \in {z} \cup Cut(z) : v = Append(L, t)
      BY <1>0, <2>k, <2>5, ViewsOfAppend
    <3> QED
      BY <1>0, <3>1 DEF Extends
  <2> QED
    BY <2>3, <2>4, <2>5
<1> QED
  BY <1>1, <1>2, <1>3 DEF Extends

-----------------------------------------------------------------------------
(* The lines each append writes, torn or not.                              *)

CreateLines(j) ==
  {l \in Line : /\ l.job = j
                /\ \/ l.kind = "J" /\ l.tok = "none"
                   \/ l.kind = "S" /\ l.state = "Queued"}
TokenLines(j) == {l \in Line : l.job = j /\ l.kind = "T"}
StateLines(j, s) == {l \in Line : l.job = j /\ l.kind = "S" /\ l.state = s}

LinesAbout(A, j) ==
  /\ Tearable(A)
  /\ \A a \in A : a.job = j /\ (a.kind = "S" => a.state # "none")

LEMMA AppendedLines ==
  ASSUME NEW j \in Jobs
  PROVE  /\ LinesAbout(CreateLines(j), j)
         /\ JobLine(j, "none") \in CreateLines(j) /\ StateLine(j, "Queued") \in CreateLines(j)
         /\ LinesAbout(TokenLines(j), j) /\ TokenLine(j) \in TokenLines(j)
         /\ \A s \in States \ {"none"} :
              LinesAbout(StateLines(j, s), j) /\ StateLine(j, s) \in StateLines(j, s)
<1>1. LinesAbout(CreateLines(j), j)
  BY CutIsLine DEF LinesAbout, CreateLines, Tearable
<1>2. JobLine(j, "none") \in CreateLines(j) /\ StateLine(j, "Queued") \in CreateLines(j)
  BY DEF JobLine, StateLine, CreateLines, Line, Tokens, States
<1>3. LinesAbout(TokenLines(j), j)
  BY CutIsLine DEF LinesAbout, TokenLines, Tearable
<1>4. TokenLine(j) \in TokenLines(j)
  BY DEF TokenLine, TokenLines, Line, Tokens, States
<1>5. ASSUME NEW s \in States \ {"none"}
      PROVE  LinesAbout(StateLines(j, s), j) /\ StateLine(j, s) \in StateLines(j, s)
  <2>1. LinesAbout(StateLines(j, s), j)
    BY CutIsLine DEF LinesAbout, StateLines, Tearable
  <2>2. StateLine(j, s) \in StateLines(j, s)
    BY DEF StateLine, StateLines, Line, Tokens
  <2> QED
    BY <2>1, <2>2
<1> QED
  BY <1>1, <1>2, <1>3, <1>4, <1>5

LEMMA SaneAppend ==
  ASSUME NEW L \in Seq(Line), SaneLines(L), NEW l \in Line, l.kind = "S" => l.state # "none"
  PROVE  Append(L, l) \in Seq(Line) /\ SaneLines(Append(L, l))
<1>1. /\ DOMAIN L = 1 .. Len(L) /\ DOMAIN Append(L, l) = 1 .. Len(L) + 1
      /\ Append(L, l) \in Seq(Line) /\ Len(L) \in Nat
      /\ \A i \in 1 .. Len(L) : Append(L, l)[i] = L[i]
      /\ Append(L, l)[Len(L) + 1] = l
  BY AppendProperties, LenProperties
<1> QED
  BY <1>1 DEF SaneLines

LEMMA SaneExtends ==
  ASSUME NEW L \in Seq(Line), SaneLines(L), NEW j, NEW A, LinesAbout(A, j),
         NEW M, Extends(L, M, A)
  PROVE  M \in Seq(Line) /\ SaneLines(M)
<1>1. \A a \in A : a \in Line /\ (a.kind = "S" => a.state # "none")
  BY DEF LinesAbout, Tearable
<1>2. CASE \E z \in A : M = Append(L, z)
  BY <1>1, <1>2, SaneAppend
<1>3. CASE \E z, y \in A : M = Append(Append(L, z), y)
  <2>1. PICK z \in A, y \in A : M = Append(Append(L, z), y)
    BY <1>3
  <2>2. Append(L, z) \in Seq(Line) /\ SaneLines(Append(L, z))
    BY <1>1, SaneAppend
  <2> QED
    BY <1>1, <2>1, <2>2, SaneAppend
<1> QED
  BY <1>2, <1>3 DEF Extends

(* Two lines at most, all about one job.                                   *)
Batch(p, A) == (\E a \in A : p = <<a>>) \/ (\E a, b \in A : p = <<a, b>>)

FileOK(f) == f \in File /\ f.safe <= Len(f.lines) /\ SaneLines(f.lines)

(* What is on disk after an append that did not return ...                 *)
LEMMA FailedAppend ==
  ASSUME NEW f, FileOK(f), NEW j, NEW A, LinesAbout(A, j), NEW p, Batch(p, A),
         NEW g \in TornWrites(f, p) \cup {Write(f, p, FALSE)}
  PROVE  /\ FileOK(g)
         /\ Extends(f.lines, g.lines, A)
         /\ \A v \in Views(g.lines, g.safe) : v \in Views(f.lines, f.safe) \/ Extends(f.lines, v, A)
<1>1. f \in File /\ f.lines \in Seq(Line) /\ f.safe \in Nat /\ Tearable(A)
  BY DEF FileOK, File, LinesAbout
<1>2. g \in File /\ g.safe = f.safe /\ Extends(f.lines, g.lines, A)
  BY <1>1, FailedWrite DEF Batch
<1>3. A \subseteq Line
  BY <1>1 DEF Tearable
<1>4. Len(g.lines) >= Len(f.lines) /\ Len(f.lines) \in Nat /\ Len(g.lines) \in Nat
  BY <1>1, <1>2, <1>3, ExtendsType, LenProperties DEF File
<1>5. SaneLines(g.lines)
  BY <1>1, <1>2, SaneExtends DEF FileOK
<1>6. FileOK(g)
  BY <1>1, <1>2, <1>4, <1>5 DEF FileOK
<1>7. \A v \in Views(g.lines, g.safe) : v \in Views(f.lines, f.safe) \/ Extends(f.lines, v, A)
  BY <1>1, <1>2, ViewsOfExtension DEF FileOK
<1> QED
  BY <1>2, <1>6, <1>7

LEMMA SyncedFile ==
  ASSUME NEW w \in File, w.safe <= Len(w.lines)
  PROVE  /\ Synced(w) \in File
         /\ Synced(w).lines = w.lines
         /\ Synced(w).safe <= Len(w.lines)
         /\ FsyncEnabled => Synced(w).safe = Len(w.lines)
<1>1. Len(w.lines) \in Nat
  BY LenProperties DEF File
<1>2. CASE FsyncEnabled
  BY <1>1, <1>2 DEF Synced, File
<1>3. CASE ~FsyncEnabled
  BY <1>3 DEF Synced
<1> QED
  BY <1>2, <1>3

(* ... and after one that did.                                             *)
LEMMA MadeAppend ==
  ASSUME NEW f, FileOK(f), NEW j, NEW A, LinesAbout(A, j), NEW p, Batch(p, A),
         NEW g, g = Synced(Write(f, p, FALSE))
  PROVE  /\ FileOK(g)
         /\ FsyncEnabled => g.safe = Len(g.lines)
         /\ ~f.ragged => g.lines = f.lines \o p
<1>1. f \in File /\ f.lines \in Seq(Line) /\ f.safe \in Nat /\ A \subseteq Line
  BY DEF FileOK, File, LinesAbout, Tearable
<1>2. PICK w : w = Write(f, p, FALSE)
  OBVIOUS
<1>3. w \in File /\ w.safe = f.safe /\ Extends(f.lines, w.lines, A)
  BY <1>1, <1>2, WriteExtends DEF Batch
<1>4. ~f.ragged => w.lines = f.lines \o p
  BY <1>1, <1>2 DEF Write, File
<1>5. Len(w.lines) >= Len(f.lines) /\ Len(f.lines) \in Nat /\ Len(w.lines) \in Nat
  BY <1>1, <1>3, ExtendsType, LenProperties DEF File
<1>6. SaneLines(w.lines)
  BY <1>1, <1>3, SaneExtends DEF FileOK
<1>7. f.safe <= Len(f.lines)
  BY DEF FileOK
<1>8. w.safe <= Len(w.lines)
  BY <1>1, <1>3, <1>5, <1>7
<1>9. g \in File /\ g.lines = w.lines /\ g.safe <= Len(w.lines)
      /\ (FsyncEnabled => g.safe = Len(w.lines))
  BY <1>2, <1>3, <1>8, SyncedFile
<1> QED
  BY <1>4, <1>6, <1>9 DEF FileOK

-----------------------------------------------------------------------------
(* Types.                                                                  *)

AllFilesOK == FileOK(journal) /\ FileOK(tmp) /\ \A f \in replaced : FileOK(f)

LEMMA FilesAreOK ==
  /\ FilesOK /\ SaneFiles <=> AllFilesOK
  /\ FilesOK' /\ SaneFiles' <=> AllFilesOK'
<1>1. FilesOK /\ SaneFiles <=> AllFilesOK
  BY DEF FilesOK, SaneFiles, AllFilesOK, FileOK
<1>2. FilesOK' /\ SaneFiles' <=> AllFilesOK'
  BY DEF FilesOK, SaneFiles, AllFilesOK, FileOK
<1> QED
  BY <1>1, <1>2

LEMMA EmptyIsOK == FileOK(Empty)
<1>1. Empty \in File /\ Len(Empty.lines) = 0 /\ DOMAIN Empty.lines = {}
  BY DEF Empty, File
<1> QED
  BY <1>1 DEF FileOK, SaneLines, Empty

LEMMA InitTypes == Init => TypeOK /\ SaneFiles /\ WholeRecords
<1> SUFFICES ASSUME Init PROVE TypeOK /\ SaneFiles /\ WholeRecords
  OBVIOUS
<1>1. AllFilesOK
  BY EmptyIsOK DEF Init, AllFilesOK
<1>2. FilesOK /\ SaneFiles
  BY <1>1, FilesAreOK
<1>3. HistoryOK
  <2>1. MaxStarts \in Nat /\ MaxFullDisks \in Nat
    BY JournalAssumption
  <2>2. 0 \in 0 .. MaxStarts /\ 0 \in 0 .. MaxFullDisks
    BY <2>1
  <2> QED
    BY <2>2 DEF Init, HistoryOK, States
<1>4. ProcessOK /\ WholeRecords
  BY DEF Init, ProcessOK, WholeRecords, NoRecord, Record, States, Tokens
<1> QED
  BY <1>2, <1>3, <1>4 DEF TypeOK

LEMMA RecoveredState ==
  ASSUME NEW s \in States
  PROVE  /\ Recovered(s) \in Terminals \cup {"none"}
         /\ Recovered(s) = "none" <=> s = "none"
         /\ Recovered(Recovered(s)) = Recovered(s)
         /\ s \in Went => Recovered(s) \in Went
BY DEF Recovered, States, Terminals, Went

(* What a start takes for a job.                                           *)
Taken(j) == [Replay(journal.lines, j) EXCEPT !.state = Recovered(@)]

LEMMA TakenIs ==
  ASSUME FileOK(journal), NEW j
  PROVE  /\ Taken(j) \in Record
         /\ Taken(j).state = Recovered(Replay(journal.lines, j).state)
         /\ Taken(j).tok = Replay(journal.lines, j).tok
         /\ Taken(j).state \in Terminals \cup {"none"}
         /\ Taken(j).state = "none" => Taken(j) = NoRecord
<1>1. PICK r : r = Replay(journal.lines, j)
  OBVIOUS
<1>2. r \in Record /\ (r.state = "none" => r = NoRecord)
  BY <1>1, ReplayType DEF FileOK, File
<1>3. r.state \in States /\ Recovered(r.state) \in States
  BY <1>2, RecoveredState DEF Record, States
<1>4. Taken(j) = [r EXCEPT !.state = Recovered(r.state)]
  BY <1>1, <1>2 DEF Taken, Record
<1>5. Taken(j) \in Record /\ Taken(j).state = Recovered(r.state) /\ Taken(j).tok = r.tok
  BY <1>2, <1>3, <1>4 DEF Record
<1>6. Taken(j).state = "none" => Taken(j) = NoRecord
  <2>1. Taken(j) = [state |-> Taken(j).state, tok |-> Taken(j).tok]
    BY <1>5 DEF Record
  <2> QED
    BY <2>1, <1>2, <1>3, <1>5, RecoveredState DEF NoRecord
<1> QED
  BY <1>1, <1>3, <1>5, <1>6, RecoveredState

LEMMA LoadTypes ==
  ASSUME TypeOK, SaneFiles, Load
  PROVE  TypeOK' /\ SaneFiles' /\ WholeRecords'
<1>1. FileOK(journal) /\ AllFilesOK
  BY FilesAreOK DEF TypeOK, AllFilesOK
<1>2. AllFilesOK'
  BY <1>1 DEF Load, AllFilesOK
<1>3. mem' = [j \in Jobs |-> Taken(j)]
  BY DEF Load, Taken
<1>4. ProcessOK'
  <2>1. proc' = "loaded"
    BY DEF Load
  <2>2. mem' \in [Jobs -> Record] /\ \A j \in Jobs : mem'[j].state \in Terminals \cup {"none"}
    BY <1>1, <1>3, TakenIs
  <2> QED
    BY <2>1, <2>2 DEF ProcessOK
<1>5. WholeRecords'
  BY <1>1, <1>3, TakenIs DEF WholeRecords
<1>6. HistoryOK'
  BY JournalAssumption DEF TypeOK, HistoryOK, Load
<1> QED
  BY <1>2, <1>4, <1>5, <1>6, FilesAreOK DEF TypeOK

(* The steps of a start after the first leave the records alone.           *)
LEMMA StartTypes ==
  ASSUME TypeOK, SaneFiles, WholeRecords,
         CompactWrite \/ CompactSync \/ CompactRename \/ CompactDone \/ CompactFails \/ Death
  PROVE  TypeOK' /\ SaneFiles' /\ WholeRecords'
<1>1. AllFilesOK
  BY FilesAreOK DEF TypeOK
<1>2. AllFilesOK'
  <2>1. CASE CompactWrite
    <3>1. Compacted \in Seq(Line) /\ SaneLines(Compacted) /\ Len(Compacted) \in Nat
      BY CompactedReadsBack, LenProperties DEF TypeOK, ProcessOK
    <3>2. PICK c : c = Compacted
      OBVIOUS
    <3>3. FileOK([lines |-> c, ragged |-> FALSE, safe |-> 0])
      BY <3>1, <3>2 DEF FileOK, File
    <3> QED
      BY <1>1, <2>1, <3>2, <3>3 DEF CompactWrite, AllFilesOK
  <2>2. CASE CompactSync
    <3>1. tmp \in File /\ tmp.lines \in Seq(Line) /\ SaneLines(tmp.lines)
      BY <1>1 DEF AllFilesOK, FileOK, File
    <3>2. Len(tmp.lines) \in Nat
      BY <3>1, LenProperties
    <3>3. \A n \in {0, Len(tmp.lines)} : FileOK([tmp EXCEPT !.safe = n])
      BY <3>1, <3>2 DEF FileOK, File
    <3>4. FileOK(tmp')
      BY <1>1, <2>2, <3>3 DEF CompactSync, AllFilesOK
    <3> QED
      BY <1>1, <2>2, <3>4 DEF CompactSync, AllFilesOK
  <2>3. CASE CompactRename
    BY <1>1, <2>3 DEF CompactRename, AllFilesOK
  <2>4. CASE CompactDone
    BY <1>1, <2>4 DEF CompactDone, AllFilesOK
  <2>5. CASE CompactFails \/ Death
    BY <1>1, <2>5 DEF CompactFails, Death, AllFilesOK
  <2> QED
    BY <2>1, <2>2, <2>3, <2>4, <2>5
<1>3. mem' = mem /\ proc' \in {"down", "written", "synced", "renamed", "up"}
  BY DEF CompactWrite, CompactSync, CompactRename, CompactDone, CompactFails, Death
<1>4. ProcessOK' /\ WholeRecords'
  <2>1. proc' \in {"down", "up"} \/ proc \notin {"down", "up"}
    BY DEF CompactWrite, CompactSync, CompactRename, CompactDone, CompactFails, Death
  <2> QED
    BY <1>3, <2>1 DEF ProcessOK, WholeRecords, TypeOK
<1>5. HistoryOK'
  <2>0. /\ slip \in {"no", "fsync", "cut"} /\ fulls \in 0 .. MaxFullDisks
        /\ Unsynced => slip' \in {"no", "fsync", "cut"} /\ fulls' \in 0 .. MaxFullDisks
    <3>1. fulls \in 0 .. MaxFullDisks /\ MaxFullDisks \in Nat /\ slip \in {"no", "fsync", "cut"}
      BY JournalAssumption DEF TypeOK, HistoryOK
    <3> QED
      BY <3>1 DEF Unsynced
  <2>1. CASE CompactDone
    <3>1. \A j \in Jobs : mem[j].state \in States
      BY DEF TypeOK, ProcessOK, Record
    <3>2. /\ acked' = [j \in Jobs |-> mem[j].state] /\ doubt' = [j \in Jobs |-> "none"]
          /\ UNCHANGED <<wire, spliced, starts>>
      BY <2>1 DEF CompactDone
    <3>4. slip' \in {"no", "fsync", "cut"} /\ fulls' \in 0 .. MaxFullDisks
      BY <2>1, <2>0 DEF CompactDone
    <3>3. acked' \in [Jobs -> States] /\ doubt' \in [Jobs -> States]
      BY <3>1, <3>2 DEF States
    <3> QED
      BY <3>2, <3>3, <3>4 DEF TypeOK, HistoryOK
  <2>2. CASE CompactFails
    <3>1. fulls' = fulls + 1 /\ fulls < MaxFullDisks /\ fulls \in 0 .. MaxFullDisks
      BY <2>2 DEF CompactFails, TypeOK, HistoryOK
    <3>2. fulls' \in 0 .. MaxFullDisks
      BY <3>1, JournalAssumption
    <3> QED
      BY <2>2, <3>2 DEF TypeOK, HistoryOK, CompactFails
  <2>3. CASE CompactWrite \/ CompactRename \/ Death
    BY <2>3 DEF TypeOK, HistoryOK, CompactWrite, CompactRename, Death
  <2>4. CASE CompactSync
    <3>1. slip' \in {"no", "fsync", "cut"} /\ fulls' \in 0 .. MaxFullDisks
      BY <2>4, <2>0 DEF CompactSync
    <3>2. UNCHANGED <<acked, doubt, wire, spliced, starts>>
      BY <2>4 DEF CompactSync
    <3> QED
      BY <3>1, <3>2 DEF TypeOK, HistoryOK
  <2> QED
    BY <2>1, <2>2, <2>3, <2>4
<1> QED
  BY <1>2, <1>4, <1>5, FilesAreOK DEF TypeOK

LEMMA PowerCutLeaves ==
  ASSUME AllFilesOK, PowerCut
  PROVE  \E f \in {journal} \cup replaced :
           /\ journal'.lines \in Views(f.lines, f.safe)
           /\ journal'.safe = Len(journal'.lines)
           /\ FileOK(journal')
<1>1. PICK f \in {journal} \cup replaced : \E n \in f.safe .. Len(f.lines) :
       \/ journal' = [lines |-> SubSeq(f.lines, 1, n), ragged |-> f.ragged /\ n = Len(f.lines),
                      safe |-> n]
       \/ /\ n < Len(f.lines)
          /\ \E torn \in Cut(f.lines[n + 1]) :
               journal' = [lines |-> Append(SubSeq(f.lines, 1, n), torn), ragged |-> TRUE,
                           safe |-> n + 1]
  BY DEF PowerCut
<1>2. PICK n \in f.safe .. Len(f.lines) :
       \/ journal' = [lines |-> SubSeq(f.lines, 1, n), ragged |-> f.ragged /\ n = Len(f.lines),
                      safe |-> n]
       \/ /\ n < Len(f.lines)
          /\ \E torn \in Cut(f.lines[n + 1]) :
               journal' = [lines |-> Append(SubSeq(f.lines, 1, n), torn), ragged |-> TRUE,
                           safe |-> n + 1]
  BY <1>1
<1>3. PICK L, s : L = f.lines /\ s = f.safe
  OBVIOUS
<1>4. L \in Seq(Line) /\ SaneLines(L) /\ s \in Nat /\ f.ragged \in BOOLEAN /\ Len(L) \in Nat
      /\ n \in Nat /\ n <= Len(L)
  <2>1. FileOK(f)
    BY DEF AllFilesOK
  <2> QED
    BY <2>1, <1>3, LenProperties DEF FileOK, File
<1>5. SubSeq(L, 1, n) \in Seq(Line) /\ Len(SubSeq(L, 1, n)) = n
  <2>1. \A i \in 1 .. n : L[i] \in Line
    BY <1>4, LenProperties
  <2> QED
    BY <1>4, <2>1, SubSeqProperties
<1>6. CASE journal' = [lines |-> SubSeq(f.lines, 1, n),
                       ragged |-> f.ragged /\ n = Len(f.lines), safe |-> n]
  <2>1. journal'.lines = SubSeq(L, 1, n) /\ journal'.safe = n
    BY <1>3, <1>6
  <2>2. journal'.lines \in Views(L, s)
    BY <1>2, <1>3, <2>1, ViewIs
  <2>3. SaneLines(journal'.lines)
    BY <1>4, <2>2, ViewType
  <2>4. journal' \in File
    BY <1>3, <1>4, <1>5, <1>6 DEF File
  <2> QED
    BY <1>3, <1>4, <1>5, <2>1, <2>2, <2>3, <2>4 DEF FileOK
<1>7. CASE /\ n < Len(f.lines)
           /\ \E torn \in Cut(f.lines[n + 1]) :
               journal' = [lines |-> Append(SubSeq(f.lines, 1, n), torn), ragged |-> TRUE,
                           safe |-> n + 1]
  <2>1. n < Len(L) /\ L[n + 1] \in Line
    BY <1>3, <1>4, <1>7, LenProperties
  <2>2. PICK torn \in Cut(L[n + 1]) :
          journal' = [lines |-> Append(SubSeq(L, 1, n), torn), ragged |-> TRUE, safe |-> n + 1]
    BY <1>3, <1>7
  <2>3. PICK K : K = Append(SubSeq(L, 1, n), torn)
    OBVIOUS
  <2>4. K \in Seq(Line) /\ Len(K) = n + 1
    BY <1>5, <2>1, <2>2, <2>3, CutIsLine, AppendProperties
  <2>5. n \in s .. Len(L) - 1
    BY <1>2, <1>3, <1>4, <2>1
  <2>6. K \in Views(L, s)
    BY <2>2, <2>3, <2>5, ViewIs
  <2>7. SaneLines(K)
    BY <1>4, <2>6, ViewType
  <2>8. journal'.lines = K /\ journal'.safe = n + 1 /\ journal' \in File
    BY <1>4, <2>2, <2>3, <2>4 DEF File
  <2> QED
    BY <1>3, <1>4, <2>4, <2>6, <2>7, <2>8 DEF FileOK
<1> QED
  BY <1>2, <1>6, <1>7

LEMMA PowerCutTypes ==
  ASSUME TypeOK, SaneFiles, WholeRecords, PowerCut
  PROVE  TypeOK' /\ SaneFiles' /\ WholeRecords'
<1>1. AllFilesOK
  BY FilesAreOK DEF TypeOK
<1>2. FileOK(journal')
  BY <1>1, PowerCutLeaves
<1>3. AllFilesOK'
  BY <1>1, <1>2 DEF AllFilesOK, PowerCut
<1>4. HistoryOK' /\ ProcessOK' /\ WholeRecords'
  BY DEF TypeOK, HistoryOK, ProcessOK, WholeRecords, PowerCut
<1> QED
  BY <1>3, <1>4, FilesAreOK DEF TypeOK

(* An append, whatever becomes of it, about one job.                       *)
Appends(j, A, p, state, record) ==
  /\ j \in Jobs /\ LinesAbout(A, j) /\ Batch(p, A)
  /\ state \in States \ {"none"} /\ record \in Record /\ record.state # "none"
  /\ Append1(j, p, state, record) \/ AppendFails(j, p, state)
  /\ proc = "up" /\ proc' \in {"up", "down"}
  /\ UNCHANGED <<replaced, tmp, slip, starts>>

LEMMA AppendTypes ==
  ASSUME TypeOK, SaneFiles, WholeRecords,
         NEW j, NEW A, NEW p, NEW state, NEW record, Appends(j, A, p, state, record),
         wire' \in [sent : SUBSET Jobs, marked : SUBSET Jobs], fulls' \in 0 .. MaxFullDisks
  PROVE  TypeOK' /\ SaneFiles' /\ WholeRecords'
<1>1. AllFilesOK
  BY FilesAreOK DEF TypeOK
<1>2. FileOK(journal')
  <2>1. FileOK(journal) /\ LinesAbout(A, j) /\ Batch(p, A)
    BY <1>1 DEF AllFilesOK, Appends
  <2>2. CASE Append1(j, p, state, record)
    <3>1. journal' = Synced(Write(journal, p, FALSE))
      BY <2>2 DEF Append1
    <3> QED
      BY <2>1, <3>1, MadeAppend
  <2>3. CASE AppendFails(j, p, state)
    <3>1. journal' \in TornWrites(journal, p) \cup {Write(journal, p, FALSE)}
      BY <2>3 DEF AppendFails
    <3> QED
      BY <2>1, <3>1, FailedAppend
  <2> QED
    BY <2>2, <2>3 DEF Appends
<1>3. AllFilesOK'
  BY <1>1, <1>2 DEF AllFilesOK, Appends
<1>4. HistoryOK' /\ mem' \in [Jobs -> Record] /\ WholeRecords'
  <2>1. /\ acked \in [Jobs -> States] /\ doubt \in [Jobs -> States] /\ spliced \in BOOLEAN
        /\ mem \in [Jobs -> Record] /\ starts \in 0 .. MaxStarts
        /\ slip \in {"no", "fsync", "cut"}
    BY DEF TypeOK, HistoryOK, ProcessOK
  <2>2. journal.ragged \in BOOLEAN
    BY <1>1 DEF AllFilesOK, FileOK, File
  <2>3. CASE Append1(j, p, state, record)
    <3>1. acked' \in [Jobs -> States] /\ doubt' \in [Jobs -> States] /\ spliced' \in BOOLEAN
      BY <2>1, <2>2, <2>3 DEF Append1, Appends
    <3>2. mem' \in [Jobs -> Record] /\ WholeRecords'
      BY <2>1, <2>3 DEF Append1, Appends, WholeRecords
    <3> QED
      BY <2>1, <3>1, <3>2 DEF HistoryOK, Appends
  <2>4. CASE AppendFails(j, p, state)
    <3>1. acked' \in [Jobs -> States] /\ doubt' \in [Jobs -> States] /\ spliced' \in BOOLEAN
      BY <2>1, <2>4 DEF AppendFails, Appends
    <3>2. mem' \in [Jobs -> Record] /\ WholeRecords'
      BY <2>1, <2>4 DEF AppendFails, WholeRecords
    <3> QED
      BY <2>1, <3>1, <3>2 DEF HistoryOK, Appends
  <2> QED
    BY <2>3, <2>4 DEF Appends
<1>5. ProcessOK'
  BY <1>4 DEF ProcessOK, Appends
<1> QED
  BY <1>3, <1>4, <1>5, FilesAreOK DEF TypeOK

CreateBatch(j) == <<JobLine(j, "none"), StateLine(j, "Queued")>>

LEMMA CreateAppends ==
  ASSUME NEW j \in Jobs, CreateJob(j)
  PROVE  Appends(j, CreateLines(j), CreateBatch(j), "Queued", [state |-> "Queued", tok |-> "none"])
<1>1. LinesAbout(CreateLines(j), j) /\ Batch(CreateBatch(j), CreateLines(j))
  BY AppendedLines DEF Batch, CreateBatch
<1>2. [state |-> "Queued", tok |-> "none"] \in Record
  BY DEF Record, States, Tokens
<1> QED
  BY <1>1, <1>2 DEF CreateJob, Appends, CreateBatch, States, Append1, AppendFails

LEMMA TokensAppends ==
  ASSUME TypeOK, NEW j \in Jobs, RecordTokens(j)
  PROVE  Appends(j, TokenLines(j), <<TokenLine(j)>>, "Queued", [mem[j] EXCEPT !.tok = "whole"])
<1>1. LinesAbout(TokenLines(j), j) /\ Batch(<<TokenLine(j)>>, TokenLines(j))
  BY AppendedLines DEF Batch
<1>2. PICK record : record = [mem[j] EXCEPT !.tok = "whole"]
  OBVIOUS
<1>3. record \in Record /\ record.state = "Queued"
  BY <1>2 DEF TypeOK, ProcessOK, Record, Tokens, RecordTokens
<1>4. Append1(j, <<TokenLine(j)>>, "Queued", record) \/ AppendFails(j, <<TokenLine(j)>>, "Queued")
  BY <1>2 DEF RecordTokens, WorkerAppend
<1>5. /\ proc = "up" /\ proc' \in {"up", "down"}
      /\ UNCHANGED <<replaced, tmp, slip, starts>>
  BY DEF RecordTokens, WorkerAppend, Append1, AppendFails
<1>6. Appends(j, TokenLines(j), <<TokenLine(j)>>, "Queued", record)
  BY <1>1, <1>3, <1>4, <1>5 DEF Appends, States
<1> QED
  BY <1>2, <1>6

LEMMA StateAppends ==
  ASSUME TypeOK, NEW j \in Jobs, NEW s \in States, RecordState(j, s)
  PROVE  /\ s \in States \ {"none"}
         /\ Appends(j, StateLines(j, s), <<StateLine(j, s)>>, s, [mem[j] EXCEPT !.state = s])
<1>0. s \in States \ {"none"}
  BY DEF RecordState, States, Terminals
<1>1. LinesAbout(StateLines(j, s), j) /\ Batch(<<StateLine(j, s)>>, StateLines(j, s))
  BY <1>0, AppendedLines DEF Batch
<1>2. PICK record : record = [mem[j] EXCEPT !.state = s]
  OBVIOUS
<1>3. record \in Record /\ record.state = s
  BY <1>2 DEF TypeOK, ProcessOK, Record
<1>4. Append1(j, <<StateLine(j, s)>>, s, record) \/ AppendFails(j, <<StateLine(j, s)>>, s)
  BY <1>2 DEF RecordState, WorkerAppend
<1>5. /\ proc = "up" /\ proc' \in {"up", "down"}
      /\ UNCHANGED <<replaced, tmp, slip, starts>>
  BY DEF RecordState, WorkerAppend, Append1, AppendFails
<1>6. Appends(j, StateLines(j, s), <<StateLine(j, s)>>, s, record)
  BY <1>0, <1>1, <1>3, <1>4, <1>5 DEF Appends
<1> QED
  BY <1>0, <1>2, <1>6

LEMMA StepTypes ==
  ASSUME TypeOK, SaneFiles, WholeRecords, [Next]_vars
  PROVE  TypeOK' /\ SaneFiles' /\ WholeRecords'
<1>1. CASE Load
  BY <1>1, LoadTypes
<1>2. CASE CompactWrite \/ CompactSync \/ CompactRename \/ CompactDone \/ CompactFails \/ Death
  BY <1>2, StartTypes
<1>3. CASE PowerCut
  BY <1>3, PowerCutTypes
<1>w. wire \in [sent : SUBSET Jobs, marked : SUBSET Jobs] /\ fulls \in 0 .. MaxFullDisks
  BY DEF TypeOK, HistoryOK
<1>4. ASSUME NEW j \in Jobs, CreateJob(j) PROVE TypeOK' /\ SaneFiles' /\ WholeRecords'
  <2>1. wire' = wire /\ fulls' \in 0 .. MaxFullDisks
    <3>1. wire' = wire /\ (fulls' = fulls \/ (fulls < MaxFullDisks /\ fulls' = fulls + 1))
      BY <1>4 DEF CreateJob
    <3>2. MaxFullDisks \in Nat
      BY JournalAssumption
    <3> QED
      BY <1>w, <3>1, <3>2
  <2> QED
    BY <1>4, <1>w, <2>1, CreateAppends, AppendTypes
<1>5. ASSUME NEW j \in Jobs, RecordTokens(j) PROVE TypeOK' /\ SaneFiles' /\ WholeRecords'
  <2>1. wire' = wire /\ fulls' = fulls
    BY <1>5 DEF RecordTokens, WorkerAppend
  <2> QED
    BY <1>5, <1>w, <2>1, TokensAppends, AppendTypes
<1>6. ASSUME NEW j \in Jobs, NEW s \in States, RecordState(j, s)
      PROVE  TypeOK' /\ SaneFiles' /\ WholeRecords'
  <2>1. fulls' = fulls
    BY <1>6 DEF RecordState, WorkerAppend
  <2>2. wire' \in [sent : SUBSET Jobs, marked : SUBSET Jobs]
    <3>1. wire.sent \in SUBSET Jobs /\ wire.marked \in SUBSET Jobs
      BY <1>w
    <3>2. \/ wire' = wire
          \/ wire' = [sent |-> wire.sent \cup {j}, marked |-> wire.marked]
          \/ wire' = [sent |-> wire.sent \cup {j}, marked |-> wire.marked \cup {j}]
      BY <1>6 DEF RecordState
    <3> QED
      BY <1>w, <3>1, <3>2
  <2> QED
    BY <1>6, <1>w, <2>1, <2>2, StateAppends, AppendTypes
<1>7. CASE UNCHANGED vars
  <2>1. AllFilesOK
    BY FilesAreOK DEF TypeOK
  <2>2. AllFilesOK'
    BY <1>7, <2>1 DEF vars, AllFilesOK
  <2>3. HistoryOK' /\ ProcessOK' /\ WholeRecords'
    BY <1>7 DEF vars, TypeOK, HistoryOK, ProcessOK, WholeRecords
  <2> QED
    BY <2>2, <2>3, FilesAreOK DEF TypeOK
<1> QED
  BY <1>1, <1>2, <1>3, <1>4, <1>5, <1>6, <1>7 DEF Next

(* The journal's state is what its type invariant says, fsync or not.      *)
THEOREM JournalTypes == Spec => []TypeOK
<1>1. Init => TypeOK /\ SaneFiles /\ WholeRecords
  BY InitTypes
<1>2. TypeOK /\ SaneFiles /\ WholeRecords /\ [Next]_vars => (TypeOK /\ SaneFiles /\ WholeRecords)'
  BY StepTypes
<1> QED
  BY <1>1, <1>2, PTL DEF Spec

-----------------------------------------------------------------------------
(* What is good about a record stays good.                                 *)

LEMMA GoodStays ==
  ASSUME NEW j, NEW r, Good(j, r),
         acked'[j] = acked[j], doubt[j] = "none" \/ doubt'[j] = doubt[j],
         j \in wire'.sent => j \in wire.sent, j \in wire'.marked => j \in wire.marked
  PROVE  Good(j, r)'
<1>1. {acked[j]} \cup ({doubt[j]} \ {"none"}) \subseteq {acked'[j]} \cup ({doubt'[j]} \ {"none"})
  OBVIOUS
<1>2. {Recovered(s) : s \in {acked[j]} \cup ({doubt[j]} \ {"none"})} \subseteq
        {Recovered(s) : s \in {acked'[j]} \cup ({doubt'[j]} \ {"none"})}
  BY <1>1
<1> QED
  BY <1>2 DEF Good

LEMMA DiskStays ==
  ASSUME JournalIsHonest, DiskIsHonest, journal' = journal,
         slip' = "no" => slip = "no" /\ replaced' = replaced, UNCHANGED <<acked, doubt, wire>>
  PROVE  JournalIsHonest' /\ DiskIsHonest'
<1>1. JournalIsHonest'
  <2> SUFFICES ASSUME NEW j \in Jobs PROVE Good(j, Replay(journal.lines, j))'
    BY DEF JournalIsHonest, Honest
  <2>1. PICK r : r = Replay(journal.lines, j)
    OBVIOUS
  <2>2. Good(j, r)'
    BY <2>1, GoodStays DEF JournalIsHonest, Honest
  <2> QED
    BY <2>1, <2>2
<1>2. DiskIsHonest'
  <2> SUFFICES ASSUME slip' = "no", NEW f \in {journal'} \cup replaced',
                      NEW v \in Views(f.lines, f.safe), NEW j \in Jobs
               PROVE  Good(j, Replay(v, j))'
    BY DEF DiskIsHonest, Honest
  <2>1. Good(j, Replay(v, j))
    BY DEF DiskIsHonest, Honest
  <2> QED
    BY <2>1, GoodStays
<1> QED
  BY <1>1, <1>2

LEMMA WholeIsHonest ==
  ASSUME JournalIsHonest, NEW j \in Jobs
  PROVE  Good(j, Replay(journal.lines, j))
BY DEF JournalIsHonest, Honest

(* A start takes no job for more, or less, than its file says.             *)
LEMMA GoodIsTaken ==
  ASSUME FileOK(journal), NEW j, Good(j, Replay(journal.lines, j))
  PROVE  Good(j, Taken(j))
<1>1. PICK r : r = Replay(journal.lines, j)
  OBVIOUS
<1>2. r.state \in States /\ Good(j, r)
  BY <1>1, ReplayType DEF FileOK, File, Record
<1>3. Taken(j).state = Recovered(r.state) /\ Taken(j).tok = r.tok
  BY <1>1, TakenIs
<1>4. Recovered(Recovered(r.state)) = Recovered(r.state)
      /\ (r.state \in Went => Recovered(r.state) \in Went)
  BY <1>2, RecoveredState
<1> QED
  BY <1>2, <1>3, <1>4 DEF Good

-----------------------------------------------------------------------------
(* The parts of JInv, by action.                                           *)

Parts == JournalIsHonest /\ DiskIsHonest /\ MemoryIsHonest /\ WhileUp /\ WhileCompacting

LEMMA LoadKeeps ==
  ASSUME AllFilesOK, Parts, Load
  PROVE  Parts'
<1>1. JournalIsHonest' /\ DiskIsHonest'
  BY DiskStays DEF Parts, Load
<1>2. MemoryIsHonest'
  <2> SUFFICES ASSUME NEW j \in Jobs PROVE Good(j, mem[j])'
    BY DEF MemoryIsHonest
  <2>1. FileOK(journal) /\ Good(j, Replay(journal.lines, j))
    BY WholeIsHonest DEF Parts, AllFilesOK
  <2>2. PICK r : r = Taken(j)
    OBVIOUS
  <2>3. Good(j, r)
    BY <2>1, <2>2, GoodIsTaken
  <2>4. Good(j, r)'
    BY <2>3, GoodStays DEF Load
  <2>5. mem'[j] = r
    BY <2>2 DEF Load, Taken
  <2> QED
    BY <2>4, <2>5 DEF Good
<1>3. WhileUp' /\ WhileCompacting'
  BY DEF WhileUp, WhileCompacting, Load
<1> QED
  BY <1>1, <1>2, <1>3 DEF Parts

LEMMA MemoryStays ==
  ASSUME MemoryIsHonest, Loaded, mem' = mem, UNCHANGED <<acked, doubt, wire>>
  PROVE  MemoryIsHonest'
<1> SUFFICES ASSUME NEW j \in Jobs PROVE Good(j, mem[j])'
  BY DEF MemoryIsHonest
<1>1. PICK r : r = mem[j]
  OBVIOUS
<1>2. Good(j, r)'
  BY <1>1, GoodStays DEF MemoryIsHonest
<1> QED
  BY <1>1, <1>2 DEF Good

LEMMA WriteKeeps ==
  ASSUME TypeOK, WholeRecords, Parts, CompactWrite
  PROVE  Parts'
<1>1. JournalIsHonest' /\ DiskIsHonest'
  BY DiskStays DEF Parts, CompactWrite
<1>2. MemoryIsHonest'
  BY MemoryStays DEF Parts, CompactWrite, Loaded
<1>3. WhileUp'
  BY DEF WhileUp, CompactWrite
<1>4. \A j \in Jobs : Replay(tmp'.lines, j) = mem'[j]
  <2>1. PICK c : c = Compacted
    OBVIOUS
  <2>2. tmp'.lines = c /\ mem' = mem
    BY <2>1 DEF CompactWrite
  <2>3. \A j \in Jobs : Replay(c, j) = mem[j]
    BY <2>1, CompactedReadsBack DEF TypeOK, ProcessOK
  <2> QED
    BY <2>2, <2>3
<1>5. WhileCompacting'
  BY <1>4 DEF WhileCompacting, CompactWrite
<1> QED
  BY <1>1, <1>2, <1>3, <1>5 DEF Parts

LEMMA SyncKeeps ==
  ASSUME FsyncEnabled, AllFilesOK, Parts, CompactSync
  PROVE  Parts'
<1>0. slip' = "no" => slip = "no" /\ tmp' = [tmp EXCEPT !.safe = Len(tmp.lines)]
  BY DEF CompactSync, Unsynced
<1>1. JournalIsHonest' /\ DiskIsHonest'
  BY <1>0, DiskStays DEF Parts, CompactSync
<1>2. MemoryIsHonest'
  BY MemoryStays DEF Parts, CompactSync, Loaded
<1>3. WhileUp'
  BY DEF WhileUp, CompactSync
<1>4. tmp'.lines = tmp.lines /\ (slip' = "no" => tmp'.safe = Len(tmp.lines))
  BY <1>0 DEF CompactSync, AllFilesOK, FileOK, File
<1>5. /\ proc = "written" /\ proc' = "synced" /\ mem' = mem
      /\ \A j \in Jobs : Replay(tmp.lines, j) = mem[j]
  BY DEF WhileCompacting, CompactSync, Parts
<1>6. WhileCompacting'
  BY <1>4, <1>5 DEF WhileCompacting
<1> QED
  BY <1>1, <1>2, <1>3, <1>6 DEF Parts

(* A file that is synced to its end and reads back as what is good.        *)
LEMMA SyncedIsHonest ==
  ASSUME NEW f, FileOK(f), f.safe = Len(f.lines), NEW v \in Views(f.lines, f.safe)
  PROVE  v = f.lines
BY ViewsWhenSynced DEF FileOK, File

LEMMA RenameKeeps ==
  ASSUME AllFilesOK, Parts, CompactRename
  PROVE  Parts'
<1>0. /\ slip = "no" => tmp.safe = Len(tmp.lines)
      /\ \A j \in Jobs : Replay(tmp.lines, j) = mem[j]
      /\ \A j \in Jobs : Good(j, mem[j])
  BY DEF Parts, WhileCompacting, MemoryIsHonest, CompactRename, Loaded
<1>j. JournalIsHonest'
  <2> SUFFICES ASSUME NEW j \in Jobs PROVE Good(j, Replay(journal.lines, j))'
    BY DEF JournalIsHonest, Honest
  <2>1. PICK r : r = Replay(tmp.lines, j)
    OBVIOUS
  <2>2. Good(j, r)'
    BY <1>0, <2>1, GoodStays DEF CompactRename
  <2> QED
    BY <2>1, <2>2 DEF CompactRename
<1>1. DiskIsHonest'
  <2> SUFFICES ASSUME slip = "no", NEW f \in {journal'} \cup replaced',
                      NEW v \in Views(f.lines, f.safe), NEW j \in Jobs
               PROVE  Good(j, Replay(v, j))'
    BY DEF DiskIsHonest, Honest, CompactRename
  <2>1. f = tmp \/ f \in {journal} \cup replaced
    BY DEF CompactRename
  <2>2. Good(j, Replay(v, j))
    <3>1. CASE f = tmp
      <4>1. v = tmp.lines
        BY <1>0, <3>1, SyncedIsHonest DEF AllFilesOK
      <4> QED
        BY <1>0, <4>1
    <3>2. CASE f \in {journal} \cup replaced
      BY <3>2 DEF Parts, DiskIsHonest, Honest
    <3> QED
      BY <2>1, <3>1, <3>2
  <2> QED
    BY <2>2, GoodStays DEF CompactRename
<1>2. MemoryIsHonest'
  BY MemoryStays DEF Parts, CompactRename, Loaded
<1>3. WhileUp'
  BY DEF WhileUp, CompactRename
<1>4. journal' = tmp /\ mem' = mem /\ proc' = "renamed" /\ slip' = slip
  BY DEF CompactRename
<1>5. WhileCompacting'
  BY <1>0, <1>4 DEF WhileCompacting
<1> QED
  BY <1>j, <1>1, <1>2, <1>3, <1>5 DEF Parts

LEMMA DoneKeeps ==
  ASSUME FsyncEnabled, TypeOK, AllFilesOK, Parts, CompactDone
  PROVE  Parts'
<1>0. /\ slip = "no" => journal.safe = Len(journal.lines)
      /\ \A j \in Jobs : Replay(journal.lines, j) = mem[j]
      /\ \A j \in Jobs : Good(j, mem[j]) /\ mem[j] \in Record
  BY DEF Parts, WhileCompacting, MemoryIsHonest, CompactDone, Loaded, TypeOK, ProcessOK
<1>1. /\ journal' = journal /\ mem' = mem /\ wire' = wire /\ proc' = "up"
      /\ \A j \in Jobs : acked'[j] = mem[j].state /\ doubt'[j] = "none"
  BY DEF CompactDone
<1>s. slip' = "no" => replaced' = {} /\ journal.safe = Len(journal.lines)
  BY <1>0 DEF CompactDone, Unsynced
<1>2. ASSUME NEW j \in Jobs, NEW r, r = mem[j] PROVE Good(j, r)'
  <2>1. r.state \in {acked'[j]} \cup ({doubt'[j]} \ {"none"})
    BY <1>1, <1>2
  <2>2. Good(j, r)
    BY <1>0, <1>2
  <2> QED
    BY <1>1, <2>1, <2>2 DEF Good
<1>j. JournalIsHonest'
  <2> SUFFICES ASSUME NEW j \in Jobs PROVE Good(j, Replay(journal.lines, j))'
    BY DEF JournalIsHonest, Honest
  <2>1. Replay(journal'.lines, j) = mem[j]
    BY <1>0, <1>1
  <2> QED
    BY <1>2, <2>1
<1>3. DiskIsHonest'
  <2> SUFFICES ASSUME slip' = "no", NEW f \in {journal'} \cup replaced',
                      NEW v \in Views(f.lines, f.safe), NEW j \in Jobs
               PROVE  Good(j, Replay(v, j))'
    BY DEF DiskIsHonest, Honest
  <2>1. f = journal
    BY <1>1, <1>s
  <2>2. v = journal.lines
    BY <1>s, <2>1, SyncedIsHonest DEF AllFilesOK
  <2>3. Replay(v, j) = mem[j]
    BY <1>0, <2>2
  <2> QED
    BY <1>2, <2>3
<1>4. MemoryIsHonest'
  <2> SUFFICES ASSUME NEW j \in Jobs PROVE Good(j, mem[j])'
    BY DEF MemoryIsHonest
  <2>1. PICK r : r = mem[j]
    OBVIOUS
  <2>2. Good(j, r)' /\ mem'[j] = r
    BY <1>1, <1>2, <2>1
  <2> QED
    BY <2>2 DEF Good
<1>5. WhileUp'
  BY <1>0, <1>1, <1>s DEF WhileUp, InStep
<1>6. WhileCompacting'
  BY <1>1 DEF WhileCompacting
<1> QED
  BY <1>j, <1>3, <1>4, <1>5, <1>6 DEF Parts

LEMMA DyingKeeps ==
  ASSUME Parts, CompactFails \/ Death
  PROVE  Parts'
<1>1. /\ proc' = "down" /\ journal' = journal /\ replaced' = replaced
      /\ UNCHANGED <<acked, doubt, wire, slip>>
  BY DEF CompactFails, Death
<1>2. JournalIsHonest' /\ DiskIsHonest'
  BY <1>1, DiskStays DEF Parts
<1>3. MemoryIsHonest' /\ WhileUp' /\ WhileCompacting'
  BY <1>1 DEF MemoryIsHonest, Loaded, WhileUp, WhileCompacting
<1> QED
  BY <1>2, <1>3 DEF Parts

LEMMA PowerCutKeeps ==
  ASSUME AllFilesOK, Parts, PowerCut, slip = "no"
  PROVE  Parts'
<1>1. PICK f \in {journal} \cup replaced :
        /\ journal'.lines \in Views(f.lines, f.safe)
        /\ journal'.safe = Len(journal'.lines)
        /\ FileOK(journal')
  BY PowerCutLeaves
<1>2. proc' = "down" /\ replaced' = {} /\ UNCHANGED <<acked, doubt, wire>>
  BY DEF PowerCut
<1>j. JournalIsHonest'
  <2> SUFFICES ASSUME NEW j \in Jobs PROVE Good(j, Replay(journal.lines, j))'
    BY DEF JournalIsHonest, Honest
  <2>1. PICK v : v = journal'.lines
    OBVIOUS
  <2>2. Good(j, Replay(v, j))
    BY <1>1, <2>1 DEF Parts, DiskIsHonest, Honest
  <2> QED
    BY <1>2, <2>1, <2>2, GoodStays
<1>3. DiskIsHonest'
  <2> SUFFICES ASSUME NEW g \in {journal'} \cup replaced', NEW v \in Views(g.lines, g.safe),
                      NEW j \in Jobs
               PROVE  Good(j, Replay(v, j))'
    BY DEF DiskIsHonest, Honest
  <2>1. g = journal' /\ FileOK(g) /\ g.safe = Len(g.lines)
    BY <1>1, <1>2
  <2>2. v = g.lines
    BY <2>1, SyncedIsHonest
  <2>3. v \in Views(f.lines, f.safe)
    BY <1>1, <2>1, <2>2
  <2>4. Good(j, Replay(v, j))
    BY <2>3 DEF Parts, DiskIsHonest, Honest
  <2> QED
    BY <1>2, <2>4, GoodStays
<1>4. MemoryIsHonest' /\ WhileUp' /\ WhileCompacting'
  BY <1>2 DEF MemoryIsHonest, Loaded, WhileUp, WhileCompacting
<1> QED
  BY <1>j, <1>3, <1>4 DEF Parts

(* Appended lines tell of their own job only.                              *)
LEMMA ReplayExtends ==
  ASSUME NEW L \in Seq(Line), SaneLines(L), NEW j, NEW A, LinesAbout(A, j),
         NEW M, Extends(L, M, A),
         NEW R, Replay(L, j) \in R, \A r \in R : \A a \in A : Step(r, a, j) \in R
  PROVE  /\ Replay(M, j) \in R
         /\ \A k : k # j => Replay(M, k) = Replay(L, k)
<1>0. \A a \in A : a \in Line /\ a.job = j /\ (a.kind = "S" => a.state # "none")
  BY DEF LinesAbout, Tearable
<1>1. ASSUME NEW K \in Seq(Line), SaneLines(K), Replay(K, j) \in R, NEW a \in A
      PROVE  /\ Append(K, a) \in Seq(Line) /\ SaneLines(Append(K, a))
             /\ Replay(Append(K, a), j) \in R
             /\ \A k : k # j => Replay(Append(K, a), k) = Replay(K, k)
  <2>1. Append(K, a) \in Seq(Line) /\ SaneLines(Append(K, a))
    BY <1>0, <1>1, SaneAppend
  <2>2. Replay(Append(K, a), j) = Step(Replay(K, j), a, j)
    BY <1>0, <1>1, ReplayAppend
  <2>3. ASSUME NEW k, k # j PROVE Replay(Append(K, a), k) = Replay(K, k)
    <3>1. Replay(Append(K, a), k) = Step(Replay(K, k), a, k)
      BY <1>0, <1>1, ReplayAppend
    <3>2. a.job # k
      BY <1>0, <2>3
    <3> QED
      BY <3>1, <3>2, StepIs
  <2> QED
    BY <1>1, <2>1, <2>2, <2>3
<1>2. CASE \E z \in A : M = Append(L, z)
  BY <1>1, <1>2
<1>3. CASE \E z, y \in A : M = Append(Append(L, z), y)
  <2>1. PICK z \in A, y \in A : M = Append(Append(L, z), y)
    BY <1>3
  <2>2. PICK K : K = Append(L, z)
    OBVIOUS
  <2>3. /\ K \in Seq(Line) /\ SaneLines(K) /\ Replay(K, j) \in R
        /\ \A k : k # j => Replay(K, k) = Replay(L, k)
    BY <1>1, <2>2
  <2>4. M = Append(K, y)
    BY <2>1, <2>2
  <2>5. /\ Replay(M, j) \in R
        /\ \A k : k # j => Replay(M, k) = Replay(K, k)
    BY <1>1, <2>3, <2>4
  <2> QED
    BY <2>3, <2>5
<1> QED
  BY <1>2, <1>3 DEF Extends

LEMMA FailKeeps ==
  ASSUME TypeOK, AllFilesOK, Parts,
         NEW j, NEW A, NEW p, NEW state, NEW record, Appends(j, A, p, state, record),
         AppendFails(j, p, state), wire' = wire, doubt[j] = "none",
         NEW R, mem[j] \in R, \A r \in R : \A a \in A : Step(r, a, j) \in R,
         \A r \in R : /\ r.state \in {acked[j], state}
                      /\ j \in wire.sent => r.state \in Went
                      /\ j \in wire.marked => r.tok = "whole",
         proc' = "up" => /\ state = "Queued" /\ mem[j] = NoRecord
                         /\ \A r \in R : r.state \in {"none", "Queued"}
  PROVE  Parts'
<1>0. /\ j \in Jobs /\ LinesAbout(A, j) /\ Batch(p, A) /\ state # "none"
      /\ proc = "up" /\ proc' \in {"up", "down"} /\ replaced' = replaced /\ slip' = slip
  BY DEF Appends
<1>1. /\ slip = "no" => replaced = {}
      /\ \A k \in Jobs : InStep(k)
      /\ \A k \in Jobs : Good(k, mem[k])
  BY <1>0 DEF Parts, WhileUp, MemoryIsHonest, Loaded
<1>2. /\ journal' \in TornWrites(journal, p) \cup {Write(journal, p, FALSE)}
      /\ doubt' = [doubt EXCEPT ![j] = state] /\ mem' = mem /\ acked' = acked
  BY DEF AppendFails
<1>3. doubt'[j] = state /\ \A k \in Jobs : k # j => doubt'[k] = doubt[k]
  BY <1>0, <1>2 DEF TypeOK, HistoryOK
<1>4. PICK L : L = journal.lines
  OBVIOUS
<1>5. L \in Seq(Line) /\ SaneLines(L) /\ FileOK(journal)
  BY <1>4 DEF AllFilesOK, FileOK, File
<1>6. Replay(L, j) \in R
  BY <1>0, <1>1, <1>4 DEF InStep
<1>7. ASSUME NEW M, Extends(L, M, A)
      PROVE  Replay(M, j) \in R /\ \A k : k # j => Replay(M, k) = Replay(L, k)
  BY <1>0, <1>5, <1>6, <1>7, ReplayExtends
<1>8. PICK g : g = journal'
  OBVIOUS
<1>9. /\ FileOK(g) /\ Extends(L, g.lines, A)
      /\ \A v \in Views(g.lines, g.safe) : v \in Views(L, journal.safe) \/ Extends(L, v, A)
  BY <1>0, <1>2, <1>4, <1>5, <1>8, FailedAppend
<1>10. \A k \in Jobs : Good(k, Replay(L, k))
  BY <1>4, WholeIsHonest DEF Parts
<1>11. ASSUME NEW k \in Jobs, NEW r, Good(k, r) PROVE Good(k, r)'
  BY <1>2, <1>3, <1>11, GoodStays
<1>12. ASSUME NEW r \in R PROVE Good(j, r)'
  <2>1. r.state \in {acked'[j]} \cup ({doubt'[j]} \ {"none"})
    BY <1>0, <1>2, <1>3
  <2> QED
    BY <2>1 DEF Good
<1>j. JournalIsHonest'
  <2> SUFFICES ASSUME NEW k \in Jobs PROVE Good(k, Replay(g.lines, k))'
    BY <1>8 DEF JournalIsHonest, Honest
  <2>1. PICK v : v = g.lines
    OBVIOUS
  <2>2. Replay(v, j) \in R /\ (k # j => Replay(v, k) = Replay(L, k))
    BY <1>7, <1>9, <2>1
  <2>3. CASE k = j
    BY <1>12, <2>1, <2>2, <2>3
  <2>4. CASE k # j
    BY <1>10, <1>11, <2>1, <2>2, <2>4
  <2> QED
    BY <2>3, <2>4
<1>13. DiskIsHonest'
  <2> SUFFICES ASSUME slip = "no", NEW f \in {journal'} \cup replaced',
                      NEW v \in Views(f.lines, f.safe), NEW k \in Jobs
               PROVE  Good(k, Replay(v, k))'
    BY <1>0 DEF DiskIsHonest, Honest
  <2>1. f = g
    BY <1>0, <1>1, <1>8
  <2>2. CASE v \in Views(L, journal.safe)
    <3>1. Good(k, Replay(v, k))
      BY <1>4, <2>2 DEF Parts, DiskIsHonest, Honest
    <3> QED
      BY <1>11, <3>1
  <2>3. CASE Extends(L, v, A)
    <3>1. Replay(v, j) \in R /\ (k # j => Replay(v, k) = Replay(L, k))
      BY <1>7, <2>3
    <3>2. CASE k = j
      BY <1>12, <3>1, <3>2
    <3>3. CASE k # j
      BY <1>10, <1>11, <3>1, <3>3
    <3> QED
      BY <3>2, <3>3
  <2> QED
    BY <1>9, <2>1, <2>2, <2>3
<1>14. MemoryIsHonest'
  <2> SUFFICES ASSUME NEW k \in Jobs PROVE Good(k, mem[k])'
    BY DEF MemoryIsHonest
  <2>1. PICK r : r = mem[k]
    OBVIOUS
  <2>2. Good(k, r)' /\ mem'[k] = r
    BY <1>1, <1>2, <1>11, <2>1
  <2> QED
    BY <2>2 DEF Good
<1>15. WhileUp'
  <2> SUFFICES ASSUME proc' = "up"
               PROVE  (slip = "no" => replaced' = {}) /\ \A k \in Jobs : InStep(k)'
    BY <1>0 DEF WhileUp
  <2>1. Replay(g.lines, j) \in R /\ \A k : k # j => Replay(g.lines, k) = Replay(L, k)
    BY <1>7, <1>9
  <2>2. ASSUME NEW k \in Jobs, k # j PROVE InStep(k)'
    BY <1>1, <1>2, <1>3, <1>4, <1>8, <2>1, <2>2 DEF InStep
  <2>3. InStep(j)'
    BY <1>0, <1>1, <1>2, <1>3, <1>8, <2>1 DEF InStep
  <2> QED
    BY <1>0, <1>1, <2>2, <2>3
<1>16. WhileCompacting'
  BY <1>0 DEF WhileCompacting
<1> QED
  BY <1>j, <1>13, <1>14, <1>15, <1>16 DEF Parts

LEMMA MadeKeeps ==
  ASSUME FsyncEnabled, TypeOK, AllFilesOK, Parts, ~Damaged',
         NEW j, NEW A, NEW p, NEW state, NEW record, Appends(j, A, p, state, record),
         Append1(j, p, state, record), proc' = "up", doubt[j] = "none", record.state = state,
         Replay(journal.lines \o p, j) = record,
         \A k : k # j => Replay(journal.lines \o p, k) = Replay(journal.lines, k),
         \A k \in Jobs : k # j => /\ k \in wire'.sent => k \in wire.sent
                                  /\ k \in wire'.marked => k \in wire.marked,
         j \in wire'.sent => state \in Went, j \in wire'.marked => record.tok = "whole"
  PROVE  Parts'
<1>0. /\ j \in Jobs /\ LinesAbout(A, j) /\ Batch(p, A)
      /\ proc = "up" /\ replaced' = replaced /\ slip' = slip
  BY DEF Appends
<1>1. /\ slip = "no" => replaced = {}
      /\ \A k \in Jobs : InStep(k)
      /\ \A k \in Jobs : Good(k, mem[k])
  BY <1>0 DEF Parts, WhileUp, MemoryIsHonest, Loaded
<1>2. /\ journal' = Synced(Write(journal, p, FALSE)) /\ ~journal.ragged /\ doubt' = doubt
      /\ acked'[j] = state /\ mem'[j] = record
      /\ \A k \in Jobs : k # j => acked'[k] = acked[k] /\ mem'[k] = mem[k]
  BY <1>0 DEF Append1, TypeOK, HistoryOK, ProcessOK, Damaged
<1>3. PICK g : g = journal'
  OBVIOUS
<1>4. PICK M : M = journal.lines \o p
  OBVIOUS
<1>5. FileOK(journal)
  BY DEF AllFilesOK
<1>6. FileOK(g) /\ g.safe = Len(g.lines) /\ g.lines = M
  BY <1>0, <1>2, <1>3, <1>4, <1>5, MadeAppend, ZenonT(60)
<1>7. Replay(M, j) = record /\ \A k : k # j => Replay(M, k) = Replay(journal.lines, k)
  BY <1>4
<1>8. Good(j, record)'
  BY <1>2 DEF Good
<1>9. ASSUME NEW k \in Jobs, k # j, NEW r, Good(k, r) PROVE Good(k, r)'
  BY <1>2, <1>9, GoodStays
<1>j. ASSUME NEW k \in Jobs PROVE Good(k, Replay(M, k))'
  <2>3. CASE k = j
    BY <1>7, <1>8, <2>3
  <2>4. CASE k # j
    <3>1. Good(k, Replay(journal.lines, k))
      BY WholeIsHonest DEF Parts
    <3>2. PICK r : r = Replay(journal.lines, k)
      OBVIOUS
    <3>3. Good(k, r)' /\ Replay(M, k) = r
      BY <1>7, <1>9, <2>4, <3>1, <3>2
    <3> QED
      BY <3>3
  <2> QED
    BY <2>3, <2>4
<1>10. JournalIsHonest' /\ DiskIsHonest'
  <2>1. JournalIsHonest'
    BY <1>3, <1>6, <1>j DEF JournalIsHonest, Honest
  <2>2. ASSUME slip = "no", NEW f \in {journal'} \cup replaced',
               NEW v \in Views(f.lines, f.safe), NEW k \in Jobs
        PROVE  Good(k, Replay(v, k))'
    <3>1. f = g
      BY <1>0, <1>1, <1>3, <2>2
    <3>2. v = M
      BY <1>6, <2>2, <3>1, SyncedIsHonest
    <3> QED
      BY <1>j, <3>2
  <2> QED
    BY <1>0, <2>1, <2>2 DEF DiskIsHonest, Honest
<1>11. MemoryIsHonest'
  <2> SUFFICES ASSUME NEW k \in Jobs PROVE Good(k, mem[k])'
    BY DEF MemoryIsHonest
  <2>1. CASE k = j
    BY <1>2, <1>8, <2>1 DEF Good
  <2>2. CASE k # j
    <3>1. PICK r : r = mem[k]
      OBVIOUS
    <3>2. Good(k, r)' /\ mem'[k] = r
      BY <1>1, <1>2, <1>9, <2>2, <3>1
    <3> QED
      BY <3>2 DEF Good
  <2> QED
    BY <2>1, <2>2
<1>12. WhileUp'
  <2>1. ASSUME NEW k \in Jobs PROVE InStep(k)'
    <3>1. CASE k = j
      BY <1>2, <1>3, <1>6, <1>7, <3>1 DEF InStep
    <3>2. CASE k # j
      <4>1. Replay(journal'.lines, k) = Replay(journal.lines, k)
        BY <1>3, <1>6, <1>7, <3>2
      <4> QED
        BY <1>1, <1>2, <3>2, <4>1 DEF InStep
    <3> QED
      BY <3>1, <3>2
  <2> QED
    BY <1>0, <1>1, <2>1 DEF WhileUp
<1>13. WhileCompacting'
  BY DEF WhileCompacting
<1> QED
  BY <1>10, <1>11, <1>12, <1>13 DEF Parts

(* A write of one line, or of two, as a replay sees it.                    *)
LEMMA ReplayOne ==
  ASSUME NEW L \in Seq(Line), SaneLines(L), NEW a \in Line, NEW j, a.job = j
  PROVE  /\ Replay(L \o <<a>>, j) = Step(Replay(L, j), a, j)
         /\ \A k : k # j => Replay(L \o <<a>>, k) = Replay(L, k)
<1>1. L \o <<a>> = Append(L, a)
  BY AppendIsConcat
<1>2. ASSUME NEW k PROVE Replay(Append(L, a), k) = Step(Replay(L, k), a, k)
  BY ReplayAppend
<1>3. ASSUME NEW k, k # j PROVE Step(Replay(L, k), a, k) = Replay(L, k)
  <2>1. a.job # k
    BY <1>3
  <2> QED
    BY <2>1, StepIs
<1> QED
  BY <1>1, <1>2, <1>3

LEMMA ReplayTwo ==
  ASSUME NEW L \in Seq(Line), SaneLines(L), NEW a \in Line, NEW b \in Line, NEW j,
         a.job = j, b.job = j, a.kind = "S" => a.state # "none"
  PROVE  /\ Replay(L \o <<a, b>>, j) = Step(Step(Replay(L, j), a, j), b, j)
         /\ \A k : k # j => Replay(L \o <<a, b>>, k) = Replay(L, k)
<1>1. PICK K : K = Append(L, a)
  OBVIOUS
<1>2. K \in Seq(Line) /\ SaneLines(K) /\ K = L \o <<a>>
  BY <1>1, SaneAppend, AppendIsConcat
<1>3. K \o <<b>> = L \o <<a, b>>
  <2>1. <<a>> \in Seq(Line) /\ <<b>> \in Seq(Line)
    OBVIOUS
  <2>2. <<a>> \o <<b>> = <<a, b>>
    BY ShortLists, Zenon
  <2>3. (L \o <<a>>) \o <<b>> = L \o (<<a>> \o <<b>>)
    BY <2>1, ConcatAssociative
  <2> QED
    BY <1>2, <2>2, <2>3
<1>4. /\ Replay(K, j) = Step(Replay(L, j), a, j)
      /\ \A k : k # j => Replay(K, k) = Replay(L, k)
  BY <1>2, ReplayOne
<1>5. /\ Replay(K \o <<b>>, j) = Step(Replay(K, j), b, j)
      /\ \A k : k # j => Replay(K \o <<b>>, k) = Replay(K, k)
  <2>1. K \in Seq(Line) /\ SaneLines(K)
    BY <1>2
  <2> QED
    BY <2>1, ReplayOne
<1> QED
  BY <1>3, <1>4, <1>5

LEMMA UpFacts ==
  ASSUME TypeOK, AllFilesOK, Parts, proc = "up", NEW j \in Jobs
  PROVE  /\ journal.lines \in Seq(Line) /\ SaneLines(journal.lines)
         /\ mem[j] \in Record /\ Good(j, mem[j])
         /\ acked[j] = mem[j].state
         /\ doubt[j] = "none" => Replay(journal.lines, j) = mem[j]
         /\ mem[j].state # "none" => doubt[j] = "none"
<1>1. journal.lines \in Seq(Line) /\ SaneLines(journal.lines)
  BY DEF AllFilesOK, FileOK, File
<1>2. mem[j] \in Record
  BY DEF TypeOK, ProcessOK
<1>3. Good(j, mem[j]) /\ InStep(j)
  BY DEF Parts, MemoryIsHonest, Loaded, WhileUp
<1> QED
  BY <1>1, <1>2, <1>3 DEF InStep, NoRecord

LEMMA CreateKeeps ==
  ASSUME FsyncEnabled, TypeOK, AllFilesOK, WholeRecords, Parts, ~Damaged',
         NEW j \in Jobs, CreateJob(j)
  PROVE  Parts'
<1> DEFINE born == [state |-> "Queued", tok |-> "none"]
           A == CreateLines(j)
           p == CreateBatch(j)
           R == {NoRecord, born}
<1>1. /\ Appends(j, A, p, "Queued", born) /\ proc = "up" /\ wire' = wire
      /\ mem[j] = NoRecord /\ doubt[j] = "none"
      /\ \/ Append1(j, p, "Queued", born) /\ proc' = "up"
         \/ AppendFails(j, p, "Queued")
  BY CreateAppends DEF CreateJob, CreateBatch, WholeRecords
<1>2. j \notin wire.sent /\ j \notin wire.marked /\ acked[j] = "none"
  BY <1>1, UpFacts DEF Good, Went, NoRecord
<1>3. \A r \in R : \A a \in A : Step(r, a, j) \in R
  <2> SUFFICES ASSUME NEW r \in R, NEW a \in A PROVE Step(r, a, j) \in R
    OBVIOUS
  <2>1. /\ a.job = j /\ a.ok \in BOOLEAN
        /\ (a.kind = "J" /\ a.tok = "none") \/ (a.kind = "S" /\ a.state = "Queued")
    BY DEF CreateLines, Line
  <2>2. CASE ~a.ok
    BY <2>2, StepIs
  <2>3. CASE a.ok /\ r = NoRecord
    BY <2>1, <2>3, StepIs DEF NoRecord
  <2>4. CASE a.ok /\ r = born
    BY <2>1, <2>4, StepIs
  <2> QED
    BY <2>1, <2>2, <2>3, <2>4
<1>4. CASE AppendFails(j, p, "Queued")
  <2>1. \A r \in R : /\ r.state \in {acked[j], "Queued"}
                     /\ j \in wire.sent => r.state \in Went
                     /\ j \in wire.marked => r.tok = "whole"
    BY <1>2 DEF NoRecord
  <2>2. proc' = "up" => /\ "Queued" = "Queued" /\ mem[j] = NoRecord
                        /\ \A r \in R : r.state \in {"none", "Queued"}
    BY <1>1 DEF NoRecord
  <2>3. mem[j] \in R
    BY <1>1
  <2> HIDE DEF R, A, p, born
  <2> QED
    BY <1>1, <1>3, <1>4, <2>1, <2>2, <2>3, FailKeeps
<1>5. CASE Append1(j, p, "Queued", born) /\ proc' = "up"
  <2> DEFINE a == JobLine(j, "none")
             b == StateLine(j, "Queued")
             L == journal.lines
  <2>1. a \in Line /\ b \in Line /\ a.job = j /\ b.job = j /\ a.kind = "J" /\ b.kind = "S"
        /\ a.ok /\ b.ok /\ a.tok = "none" /\ b.state = "Queued"
    BY DEF JobLine, StateLine, Line, States, Tokens
  <2>2. L \in Seq(Line) /\ SaneLines(L) /\ Replay(L, j) = NoRecord
    BY <1>1, UpFacts
  <2>3. p = <<a, b>>
    BY DEF CreateBatch
  <2> HIDE DEF a, b
  <2>4. Step(NoRecord, a, j) = born /\ Step(born, b, j) = born
    BY <2>1, StepIs DEF NoRecord
  <2>5. Replay(L \o p, j) = born /\ \A k : k # j => Replay(L \o p, k) = Replay(L, k)
    BY <2>1, <2>2, <2>3, <2>4, ReplayTwo
  <2>6. born.state = "Queued"
    OBVIOUS
  <2> HIDE DEF A, p, born
  <2> QED
    BY <1>1, <1>2, <1>5, <2>5, <2>6, MadeKeeps
<1> QED
  BY <1>1, <1>4, <1>5

LEMMA TokensKeep ==
  ASSUME FsyncEnabled, TypeOK, AllFilesOK, WholeRecords, Parts, ~Damaged',
         NEW j \in Jobs, RecordTokens(j)
  PROVE  Parts'
<1> DEFINE A == TokenLines(j)
           p == <<TokenLine(j)>>
           R == {r \in Record : r.state = "Queued"}
<1>1. PICK m, record : m = mem[j] /\ record = [mem[j] EXCEPT !.tok = "whole"]
  OBVIOUS
<1>2. /\ Appends(j, A, p, "Queued", record) /\ proc = "up" /\ wire' = wire
      /\ m.state = "Queued" /\ m.tok = "none"
      /\ \/ Append1(j, p, "Queued", record) /\ proc' = "up"
         \/ AppendFails(j, p, "Queued") /\ proc' = "down"
  BY <1>1, TokensAppends DEF RecordTokens, WorkerAppend
<1>3. /\ m \in Record /\ Good(j, m) /\ acked[j] = "Queued" /\ doubt[j] = "none"
      /\ journal.lines \in Seq(Line) /\ SaneLines(journal.lines)
      /\ Replay(journal.lines, j) = m
  BY <1>1, <1>2, UpFacts
<1>4. j \notin wire.sent /\ j \notin wire.marked
  BY <1>2, <1>3 DEF Good, Went
<1>5. \A r \in R : \A a \in A : Step(r, a, j) \in R
  <2> SUFFICES ASSUME NEW r \in R, NEW a \in A PROVE Step(r, a, j) \in R
    OBVIOUS
  <2>1. a.job = j /\ a.kind = "T" /\ a.tok \in Tokens /\ a.ok \in BOOLEAN
    BY DEF TokenLines, Line
  <2>2. CASE ~a.ok
    BY <2>2, StepIs
  <2>3. CASE a.ok
    BY <2>1, <2>3, StepIs DEF Record
  <2> QED
    BY <2>1, <2>2, <2>3
<1>6. CASE AppendFails(j, p, "Queued") /\ proc' = "down"
  <2>1. \A r \in R : /\ r.state \in {acked[j], "Queued"}
                     /\ j \in wire.sent => r.state \in Went
                     /\ j \in wire.marked => r.tok = "whole"
    BY <1>4
  <2>2. mem[j] \in R
    BY <1>1, <1>2, <1>3
  <2> HIDE DEF R, A, p
  <2> QED
    BY <1>2, <1>3, <1>5, <1>6, <2>1, <2>2, FailKeeps
<1>7. CASE Append1(j, p, "Queued", record) /\ proc' = "up"
  <2> DEFINE a == TokenLine(j)
             L == journal.lines
  <2>1. a \in Line /\ a.job = j /\ a.kind = "T" /\ a.ok /\ a.tok = "whole"
    BY DEF TokenLine, Line, States, Tokens
  <2>2. p = <<a>>
    OBVIOUS
  <2> HIDE DEF a
  <2>3. record.state = "Queued" /\ record = [state |-> m.state, tok |-> "whole"]
    BY <1>1, <1>2, <1>3 DEF Record
  <2>4. Step(m, a, j) = record
    BY <1>2, <2>1, <2>3, StepIs
  <2>5. Replay(L \o p, j) = record /\ \A k : k # j => Replay(L \o p, k) = Replay(L, k)
    BY <1>3, <2>1, <2>2, <2>4, ReplayOne
  <2> HIDE DEF A, p
  <2> QED
    BY <1>2, <1>3, <1>4, <1>7, <2>3, <2>5, MadeKeeps
<1> QED
  BY <1>2, <1>6, <1>7

LEMMA StateKeeps ==
  ASSUME FsyncEnabled, TypeOK, AllFilesOK, WholeRecords, Parts, ~Damaged',
         NEW j \in Jobs, NEW s \in States, RecordState(j, s)
  PROVE  Parts'
<1>1. PICK m, record : m = mem[j] /\ record = [mem[j] EXCEPT !.state = s]
  OBVIOUS
<1> DEFINE A == StateLines(j, s)
           p == <<StateLine(j, s)>>
           R == {m, record}
<1>2. /\ Appends(j, A, p, s, record) /\ proc = "up" /\ s # "none"
      /\ \/ m.state = "Queued" /\ s \in {"SendStarted", "FailedKnown"}
         \/ m.state = "SendStarted" /\ j \notin wire.sent /\ s = "FailedKnown"
         \/ m.state = "SendStarted" /\ s \in {"DoneSoftware", "Unknown"}
      /\ \/ wire' = wire
         \/ /\ s = "SendStarted" /\ proc' = "up"
            /\ wire' = [sent |-> wire.sent \cup {j},
                        marked |-> IF m.tok = "whole" THEN wire.marked \cup {j}
                                   ELSE wire.marked]
      /\ \/ Append1(j, p, s, record) /\ proc' = "up"
         \/ AppendFails(j, p, s) /\ proc' = "down"
  BY <1>1, StateAppends DEF RecordState, WorkerAppend
<1>3. /\ m \in Record /\ Good(j, m) /\ acked[j] = m.state /\ doubt[j] = "none"
      /\ journal.lines \in Seq(Line) /\ SaneLines(journal.lines)
      /\ Replay(journal.lines, j) = m
  BY <1>1, <1>2, UpFacts
<1>4. /\ j \in wire.sent => m.state = "SendStarted" /\ s \in Went
      /\ j \in wire.marked => m.tok = "whole"
  BY <1>2, <1>3 DEF Good, Went
<1>5. record = [state |-> s, tok |-> m.tok] /\ record.state = s /\ record.tok = m.tok
      /\ m = [state |-> m.state, tok |-> m.tok]
  BY <1>1, <1>3 DEF Record
<1>6. \A a \in Line : a.job = j /\ a.kind = "S" /\ a.state = s /\ a.ok =>
        Step(m, a, j) = record /\ Step(record, a, j) = record
  <2> SUFFICES ASSUME NEW a \in Line, a.job = j, a.kind = "S", a.state = s, a.ok
               PROVE  Step(m, a, j) = record /\ Step(record, a, j) = record
    OBVIOUS
  <2>1. m.state # "none"
    BY <1>2
  <2> QED
    BY <1>2, <1>5, <2>1, StepIs
<1>7. \A r \in R : \A a \in A : Step(r, a, j) \in R
  <2> SUFFICES ASSUME NEW r \in R, NEW a \in A PROVE Step(r, a, j) \in R
    OBVIOUS
  <2>1. a \in Line /\ a.job = j /\ a.kind = "S" /\ a.state = s /\ a.ok \in BOOLEAN
    BY DEF StateLines, Line
  <2>2. CASE ~a.ok
    BY <2>2, StepIs
  <2>3. CASE a.ok
    BY <1>6, <2>1, <2>3
  <2> QED
    BY <2>1, <2>2, <2>3
<1>8. CASE AppendFails(j, p, s) /\ proc' = "down"
  <2>1. \A r \in R : /\ r.state \in {acked[j], s}
                     /\ j \in wire.sent => r.state \in Went
                     /\ j \in wire.marked => r.tok = "whole"
    BY <1>3, <1>4, <1>5 DEF Went
  <2>2. mem[j] \in R
    BY <1>1
  <2>3. wire' = wire
    BY <1>2, <1>8
  <2> HIDE DEF R, A, p
  <2> QED
    BY <1>2, <1>3, <1>7, <1>8, <2>1, <2>2, <2>3, FailKeeps
<1>9. CASE Append1(j, p, s, record) /\ proc' = "up"
  <2> DEFINE a == StateLine(j, s)
             L == journal.lines
  <2>1. a \in Line /\ a.job = j /\ a.kind = "S" /\ a.ok /\ a.state = s
    BY DEF StateLine, Line, Tokens
  <2>2. p = <<a>>
    OBVIOUS
  <2> HIDE DEF a
  <2>3. Step(m, a, j) = record
    BY <1>6, <2>1
  <2>4. Replay(L \o p, j) = record /\ \A k : k # j => Replay(L \o p, k) = Replay(L, k)
    BY <1>3, <2>1, <2>2, <2>3, ReplayOne
  <2>5. \/ wire' = wire
        \/ /\ s = "SendStarted"
           /\ \/ wire' = [sent |-> wire.sent \cup {j}, marked |-> wire.marked]
              \/ /\ wire' = [sent |-> wire.sent \cup {j}, marked |-> wire.marked \cup {j}]
                 /\ m.tok = "whole"
    BY <1>2
  <2>6. /\ \A k \in Jobs : k # j => /\ k \in wire'.sent => k \in wire.sent
                                    /\ k \in wire'.marked => k \in wire.marked
        /\ j \in wire'.sent => s \in Went
        /\ j \in wire'.marked => record.tok = "whole"
    BY <1>4, <1>5, <2>5 DEF Went
  <2> HIDE DEF A, p
  <2> QED
    BY <1>2, <1>3, <1>5, <1>9, <2>4, <2>6, MadeKeeps
<1> QED
  BY <1>2, <1>8, <1>9

-----------------------------------------------------------------------------
(* The theorems.                                                           *)

LEMMA InitParts == Init => Parts
<1> SUFFICES ASSUME Init PROVE Parts
  OBVIOUS
<1>1. journal = Empty /\ replaced = {} /\ proc = "down"
  BY DEF Init
<1>2. Empty.lines = <<>> /\ Empty.safe = 0 /\ <<>> \in Seq(Line) /\ Len(<<>>) = 0
  BY DEF Empty
<1>3. DiskIsHonest
  <2> SUFFICES ASSUME NEW f \in {journal} \cup replaced, NEW v \in Views(f.lines, f.safe),
                      NEW j \in Jobs
               PROVE  Good(j, Replay(v, j))
    BY DEF DiskIsHonest, Honest
  <2>1. f = Empty
    BY <1>1
  <2>2. v = <<>>
    BY <1>2, <2>1, SyncedIsHonest, EmptyIsOK
  <2>3. LinesOf(<<>>, j, "J") = {}
    BY DEF LinesOf
  <2>4. Replay(v, j) = NoRecord
    BY <2>2, <2>3, ReplayNobody
  <2>5. wire = [sent |-> {}, marked |-> {}] /\ acked[j] = "none"
    BY DEF Init
  <2> QED
    BY <2>4, <2>5 DEF Good, NoRecord
<1>j. JournalIsHonest
  <2>1. FileOK(journal)
    BY <1>1, EmptyIsOK
  <2>2. journal.lines \in Views(journal.lines, journal.safe)
    BY <2>1, WholeIsAView DEF FileOK, File
  <2>3. slip = "no"
    BY DEF Init
  <2> QED
    BY <1>3, <2>2, <2>3 DEF JournalIsHonest, DiskIsHonest
<1>4. MemoryIsHonest /\ WhileUp /\ WhileCompacting
  BY <1>1 DEF MemoryIsHonest, Loaded, WhileUp, WhileCompacting
<1> QED
  BY <1>j, <1>3, <1>4 DEF Parts

LEMMA StepParts ==
  ASSUME FsyncEnabled, TypeOK, SaneFiles, WholeRecords, Parts, [Next]_vars, ~Damaged'
  PROVE  Parts'
<1>1. AllFilesOK
  BY FilesAreOK DEF TypeOK
<1>2. CASE Load
  BY <1>1, <1>2, LoadKeeps
<1>3. CASE CompactWrite
  BY <1>3, WriteKeeps
<1>4. CASE CompactSync
  BY <1>1, <1>4, SyncKeeps
<1>5. CASE CompactRename
  BY <1>1, <1>5, RenameKeeps
<1>6. CASE CompactDone
  BY <1>1, <1>6, DoneKeeps
<1>7. CASE CompactFails \/ Death
  BY <1>7, DyingKeeps
<1>8. CASE PowerCut
  <2>1. slip = "no"
    BY <1>8 DEF PowerCut, Damaged
  <2> QED
    BY <1>1, <1>8, <2>1, PowerCutKeeps
<1>9. ASSUME NEW j \in Jobs, CreateJob(j) PROVE Parts'
  BY <1>1, <1>9, CreateKeeps
<1>10. ASSUME NEW j \in Jobs, RecordTokens(j) PROVE Parts'
  BY <1>1, <1>10, TokensKeep
<1>11. ASSUME NEW j \in Jobs, NEW s \in States, RecordState(j, s) PROVE Parts'
  BY <1>1, <1>11, StateKeeps
<1>12. CASE UNCHANGED vars
  <2>1. JournalIsHonest' /\ DiskIsHonest'
    BY <1>12, DiskStays DEF Parts, vars
  <2>2. MemoryIsHonest'
    <3>1. CASE Loaded
      BY <1>12, <3>1, MemoryStays DEF Parts, vars
    <3>2. CASE ~Loaded
      BY <1>12, <3>2 DEF MemoryIsHonest, Loaded, vars
    <3> QED
      BY <3>1, <3>2
  <2>3. WhileUp' /\ WhileCompacting'
    BY <1>12 DEF Parts, WhileUp, InStep, WhileCompacting, vars
  <2> QED
    BY <2>1, <2>2, <2>3 DEF Parts
<1> QED
  BY <1>2, <1>3, <1>4, <1>5, <1>6, <1>7, <1>8, <1>9, <1>10, <1>11, <1>12 DEF Next

(* An append fails of its own, never for a compaction's fsync.             *)
LEMMA AppendLeavesSlip ==
  ASSUME TypeOK,
         NEW j \in Jobs, CreateJob(j) \/ RecordTokens(j) \/ \E s \in States : RecordState(j, s)
  PROVE  slip' = slip /\ (spliced => spliced')
<1>0. spliced \in BOOLEAN /\ journal.ragged \in BOOLEAN
  BY DEF TypeOK, HistoryOK, FilesOK, File
<1>1. ASSUME NEW lines, NEW state, NEW record,
             Append1(j, lines, state, record) \/ AppendFails(j, lines, state)
      PROVE  slip' = slip /\ (spliced => spliced')
  BY <1>0, <1>1 DEF Append1, AppendFails
<1>2. CASE CreateJob(j)
  BY <1>1, <1>2 DEF CreateJob
<1>3. CASE RecordTokens(j)
  BY <1>1, <1>3 DEF RecordTokens, WorkerAppend
<1>4. ASSUME NEW s \in States, RecordState(j, s) PROVE slip' = slip /\ (spliced => spliced')
  BY <1>1, <1>4 DEF RecordState, WorkerAppend
<1> QED
  BY <1>2, <1>3, <1>4

(* No damage is ever forgotten.                                            *)
LEMMA DamageStays ==
  ASSUME TypeOK, [Next]_vars, Damaged
  PROVE  Damaged'
<1>1. CASE Load \/ CompactWrite \/ CompactRename \/ CompactFails \/ Death \/ UNCHANGED vars
  BY <1>1 DEF Load, CompactWrite, CompactRename, CompactFails, Death, vars, Damaged
<1>2. CASE CompactSync \/ CompactDone \/ PowerCut
  BY <1>2 DEF CompactSync, CompactDone, PowerCut, Unsynced, Damaged
<1>3. ASSUME NEW j \in Jobs, CreateJob(j) \/ RecordTokens(j) \/ \E s \in States : RecordState(j, s)
      PROVE  Damaged'
  BY <1>3, AppendLeavesSlip DEF Damaged
<1> QED
  BY <1>1, <1>2, <1>3 DEF Next

(* What a power cut may leave, what the process has in memory and what it  *)
(* has acknowledged stay in step: with fsync, JInv holds whatever dies and *)
(* whenever, until the power is cut behind a compaction whose own fsync    *)
(* failed or an append goes into a ragged line (job_store.cpp: load(),     *)
(* compact(), append()).                                                   *)
THEOREM JournalInductive == ASSUME FsyncEnabled PROVE Spec => []JInv
<1>1. Init => JInv
  BY InitTypes, InitParts DEF JInv, Parts
<1>2. JInv /\ [Next]_vars => JInv'
  <2> SUFFICES ASSUME JInv, [Next]_vars PROVE JInv'
    OBVIOUS
  <2>1. TypeOK /\ SaneFiles /\ WholeRecords
    BY DEF JInv
  <2>2. TypeOK' /\ SaneFiles' /\ WholeRecords'
    BY <2>1, StepTypes
  <2>3. ASSUME ~Damaged' PROVE Parts'
    <3>1. ~Damaged
      BY <2>1, <2>3, DamageStays
    <3>2. Parts
      BY <3>1 DEF JInv, Parts
    <3> QED
      BY <2>1, <2>3, <3>2, StepParts
  <2> QED
    BY <2>2, <2>3 DEF JInv, Parts
<1> QED
  BY <1>1, <1>2, PTL DEF Spec

(* A job with bytes on the wire is never read back as one that sent        *)
(* nothing, and the token printed on a receipt resolves after any restart, *)
(* as long as no append went into a line a failed one left ragged and no   *)
(* power cut followed a compaction whose fsync failed unnoticed.           *)
THEOREM SendingIsRemembered == ASSUME FsyncEnabled PROVE Spec => []NothingSentIsForgotten
<1>1. JInv => NothingSentIsForgotten
  <2> SUFFICES ASSUME JInv PROVE NothingSentIsForgotten
    OBVIOUS
  <2>1. TypeOK
    BY DEF JInv
  <2>2. ASSUME Loaded, ~Damaged, NEW j \in Jobs PROVE Good(j, mem[j])
    BY <2>2 DEF JInv, MemoryIsHonest
  <2>3. wire.sent \subseteq Jobs /\ wire.marked \subseteq Jobs
    BY <2>1 DEF TypeOK, HistoryOK
  <2> QED
    BY <2>1, <2>2, <2>3 DEF NothingSentIsForgotten, SentIsRemembered, PrintedTokenResolves,
                            Good, Went
<1> QED
  BY <1>1, JournalInductive, PTL

(* Under the running driver the journal reads back as by_id_ has it, or as *)
(* the one append of createJob() that threw would have it.                 *)
THEOREM DiskFollowsMemory == ASSUME FsyncEnabled PROVE Spec => []MemoryIsOnDisk
<1>1. JInv => MemoryIsOnDisk
  <2> SUFFICES ASSUME JInv, proc = "up", ~Damaged, NEW j \in Jobs
               PROVE  Replay(journal.lines, j).state
                        \in {mem[j].state} \cup ({doubt[j]} \ {"none"})
    BY DEF MemoryIsOnDisk
  <2>1. InStep(j)
    BY DEF JInv, WhileUp
  <2> QED
    BY <2>1 DEF InStep, NoRecord
<1> QED
  BY <1>1, JournalInductive, PTL

(* A start gives every job back as what its last durable transition, or    *)
(* the one in doubt, amounts to, whatever process died before it and       *)
(* whatever power cut found the compactions before it synced.              *)
THEOREM StartsAreHonest == ASSUME FsyncEnabled PROVE Spec => HonestRecovery
<1>1. JInv /\ JInv' /\ [Next]_vars =>
        [(~Loaded /\ Loaded' /\ ~Damaged) =>
           \A j \in Jobs :
             mem'[j].state \in {Recovered(s) : s \in {acked[j]} \cup ({doubt[j]} \ {"none"})}]_vars
  <2> SUFFICES ASSUME JInv, [Next]_vars, ~Loaded, Loaded', ~Damaged, NEW j \in Jobs
               PROVE  mem'[j].state \in
                        {Recovered(s) : s \in {acked[j]} \cup ({doubt[j]} \ {"none"})}
    OBVIOUS
  <2>1. Load
    <3>1. proc = "down" /\ proc' # "down"
      BY DEF Loaded
    <3>2. ~(UNCHANGED vars) /\ Next
      BY <3>1 DEF vars
    <3>3. ~CompactWrite /\ ~CompactSync /\ ~CompactRename /\ ~CompactDone
          /\ ~CompactFails /\ ~Death /\ ~PowerCut
      BY <3>1 DEF CompactWrite, CompactSync, CompactRename, CompactDone, CompactFails,
                  Death, PowerCut
    <3>4. \A k \in Jobs : ~CreateJob(k) /\ ~RecordTokens(k) /\ \A s \in States : ~RecordState(k, s)
      BY <3>1 DEF CreateJob, RecordTokens, RecordState
    <3> QED
      BY <3>2, <3>3, <3>4 DEF Next
  <2>2. FileOK(journal) /\ AllFilesOK
    BY FilesAreOK DEF JInv, TypeOK, AllFilesOK
  <2>3. Good(j, Replay(journal.lines, j))
    BY WholeIsHonest DEF JInv
  <2>4. mem'[j].state = Recovered(Replay(journal.lines, j).state)
    <3>1. mem'[j] = Taken(j)
      BY <2>1 DEF Load, Taken
    <3> QED
      BY <2>2, <3>1, TakenIs
  <2> QED
    BY <2>3, <2>4 DEF Good
<1> QED
  BY <1>1, JournalInductive, PTL DEF HonestRecovery, Spec

(* Nothing that is written whole is ragged, and the process that left a    *)
(* ragged line behind is gone unless its host caught the exception.        *)
NothingRagged ==
  /\ ~spliced
  /\ proc \in {"written", "synced"} => ~tmp.ragged
  /\ proc \in {"renamed", "up"} => ~journal.ragged

LEMMA WholeWritesEnd ==
  ASSUME NEW f \in File, NEW p
  PROVE  ~Synced(Write(f, p, FALSE)).ragged
<1>1. PICK w : w = Write(f, p, FALSE)
  OBVIOUS
<1>2. w = [lines |-> w.lines, ragged |-> FALSE, safe |-> w.safe]
  BY <1>1 DEF Write, File
<1>3. ~w.ragged /\ ~[w EXCEPT !.safe = Len(w.lines)].ragged
  BY <1>2
<1> QED
  BY <1>1, <1>3 DEF Synced

(* Where a StoreError out of createJob() ends the process as one on the    *)
(* worker does, no append ever goes into a ragged line: that half of what  *)
(* the theorems above except happens only under a host that catches it.    *)
THEOREM OnlyASurvivorSplices == ASSUME ~HostCatches PROVE Spec => []~spliced
<1>1. Init => NothingRagged
  BY DEF Init, NothingRagged
<1>2. TypeOK /\ NothingRagged /\ [Next]_vars => NothingRagged'
  <2> SUFFICES ASSUME TypeOK, NothingRagged, [Next]_vars PROVE NothingRagged'
    OBVIOUS
  <2>0. journal \in File /\ tmp \in File
    BY DEF TypeOK, FilesOK
  <2>1. CASE Load \/ CompactFails \/ Death \/ PowerCut
    BY <2>1 DEF Load, CompactFails, Death, PowerCut, NothingRagged
  <2>2. CASE CompactWrite
    <3>1. PICK c : c = Compacted
      OBVIOUS
    <3>2. tmp' = [lines |-> c, ragged |-> FALSE, safe |-> 0] /\ proc' = "written"
          /\ spliced' = spliced
      BY <2>2, <3>1 DEF CompactWrite
    <3> QED
      BY <3>2 DEF NothingRagged
  <2>3. CASE CompactSync
    <3>1. tmp'.ragged = tmp.ragged
      BY <2>0, <2>3 DEF CompactSync, File
    <3> QED
      BY <2>3, <3>1 DEF CompactSync, NothingRagged
  <2>4. CASE CompactRename \/ CompactDone
    BY <2>4 DEF CompactRename, CompactDone, NothingRagged
  <2>5. ASSUME NEW j, NEW A, NEW p, NEW state, NEW record, Appends(j, A, p, state, record),
               AppendFails(j, p, state) => proc' = "down"
        PROVE  NothingRagged'
    <3>1. ~journal.ragged /\ ~spliced /\ proc' \in {"up", "down"}
      BY <2>5 DEF NothingRagged, Appends
    <3>2. CASE Append1(j, p, state, record)
      <4>1. journal' = Synced(Write(journal, p, FALSE)) /\ ~spliced'
        BY <3>1, <3>2 DEF Append1
      <4>2. ~journal'.ragged
        BY <2>0, <4>1, WholeWritesEnd
      <4> QED
        BY <3>1, <4>1, <4>2 DEF NothingRagged
    <3>3. CASE AppendFails(j, p, state)
      BY <2>5, <3>1, <3>3 DEF AppendFails, NothingRagged
    <3> QED
      BY <2>5, <3>2, <3>3 DEF Appends
  <2>6. ASSUME NEW j \in Jobs, CreateJob(j) PROVE NothingRagged'
    <3>1. \/ Append1(j, CreateBatch(j), "Queued", [state |-> "Queued", tok |-> "none"]) /\ proc' = "up"
          \/ proc' = "down"
      BY <2>6 DEF CreateJob, CreateBatch
    <3>2. CASE proc' = "down"
      BY <2>5, <2>6, <3>2, CreateAppends
    <3>3. CASE proc' # "down"
      <4>1. Append1(j, CreateBatch(j), "Queued", [state |-> "Queued", tok |-> "none"])
            /\ proc' = "up"
        BY <3>1, <3>3
      <4>2. journal' = Synced(Write(journal, CreateBatch(j), FALSE))
            /\ spliced' = (spliced \/ journal.ragged)
        BY <4>1 DEF Append1
      <4>3. ~journal'.ragged
        BY <2>0, <4>2, WholeWritesEnd
      <4>4. proc = "up"
        BY <2>6 DEF CreateJob
      <4> QED
        BY <4>1, <4>2, <4>3, <4>4 DEF NothingRagged
    <3> QED
      BY <3>2, <3>3
  <2>7. ASSUME NEW j \in Jobs, RecordTokens(j) PROVE NothingRagged'
    <3>1. CASE proc' = "down"
      BY <2>5, <2>7, <3>1, TokensAppends
    <3>2. CASE proc' # "down"
      <4>1. /\ journal' = Synced(Write(journal, <<TokenLine(j)>>, FALSE))
            /\ spliced' = (spliced \/ journal.ragged) /\ proc = "up" /\ proc' = "up"
        BY <2>7, <3>2 DEF RecordTokens, WorkerAppend, Append1
      <4>2. ~journal'.ragged
        BY <2>0, <4>1, WholeWritesEnd
      <4> QED
        BY <4>1, <4>2 DEF NothingRagged
    <3> QED
      BY <3>1, <3>2
  <2>8. ASSUME NEW j \in Jobs, NEW s \in States, RecordState(j, s) PROVE NothingRagged'
    <3>1. CASE proc' = "down"
      BY <2>5, <2>8, <3>1, StateAppends
    <3>2. CASE proc' # "down"
      <4>1. /\ journal' = Synced(Write(journal, <<StateLine(j, s)>>, FALSE))
            /\ spliced' = (spliced \/ journal.ragged) /\ proc = "up" /\ proc' = "up"
        BY <2>8, <3>2 DEF RecordState, WorkerAppend, Append1
      <4>2. ~journal'.ragged
        BY <2>0, <4>1, WholeWritesEnd
      <4> QED
        BY <4>1, <4>2 DEF NothingRagged
    <3> QED
      BY <3>1, <3>2
  <2>9. CASE UNCHANGED vars
    BY <2>9 DEF vars, NothingRagged
  <2> QED
    BY <2>1, <2>2, <2>3, <2>4, <2>6, <2>7, <2>8, <2>9 DEF Next
<1>3. NothingRagged => ~spliced
  BY DEF NothingRagged
<1> QED
  BY <1>1, <1>2, <1>3, JournalTypes, PTL DEF Spec

(* ... and the other half only where an fsync of a compaction fails.       *)
LEMMA OnlyAFailedSyncSlips == ASSUME ~SyncMayFail PROVE Spec => [](slip = "no")
<1>1. Init => slip = "no"
  BY DEF Init
<1>2. TypeOK /\ slip = "no" /\ [Next]_vars => (slip = "no")'
  <2> SUFFICES ASSUME TypeOK, slip = "no", [Next]_vars PROVE slip' = "no"
    OBVIOUS
  <2>1. CASE Load \/ CompactWrite \/ CompactRename \/ CompactFails \/ Death \/ UNCHANGED vars
    BY <2>1 DEF Load, CompactWrite, CompactRename, CompactFails, Death, vars
  <2>2. CASE CompactSync \/ CompactDone \/ PowerCut
    BY <2>2 DEF CompactSync, CompactDone, PowerCut, Unsynced
  <2>3. ASSUME NEW j \in Jobs,
               CreateJob(j) \/ RecordTokens(j) \/ \E s \in States : RecordState(j, s)
        PROVE  slip' = "no"
    BY <2>3, AppendLeavesSlip
  <2> QED
    BY <2>1, <2>2, <2>3 DEF Next
<1> QED
  BY <1>1, <1>2, JournalTypes, PTL DEF Spec

(* "A process that dies mid-send can never come back believing the job     *)
(* never started", as job_store.hpp has it: so it is where no host goes on *)
(* after a StoreError and no fsync of a compaction fails, the two things   *)
(* the code leaves to chance.                                              *)
THEOREM NobodyForgetsASend ==
  ASSUME FsyncEnabled, ~HostCatches, ~SyncMayFail
  PROVE  Spec => []NeverBelievesItDidNotStart
<1>1. JInv /\ ~spliced /\ slip = "no" => NeverBelievesItDidNotStart
  <2> SUFFICES ASSUME JInv, ~spliced, slip = "no", Loaded, NEW j \in wire.sent
               PROVE  mem[j].state \notin {"none", "FailedKnown"}
    BY DEF NeverBelievesItDidNotStart
  <2>1. j \in Jobs
    BY DEF JInv, TypeOK, HistoryOK
  <2>2. Good(j, mem[j])
    BY <2>1 DEF JInv, MemoryIsHonest, Damaged
  <2> QED
    BY <2>2 DEF Good, Went
<1> QED
  BY <1>1, JournalInductive, OnlyASurvivorSplices, OnlyAFailedSyncSlips, PTL

=============================================================================
