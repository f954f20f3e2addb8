----------------------------- MODULE JobJournal -----------------------------
(***************************************************************************)
(* The write-ahead journal on a real disk (core/src/job_store.cpp over     *)
(* core/src/platform_file_posix.cpp): appends that are torn by a full disk *)
(* or by the death of the process, fsync that a power cut makes matter,    *)
(* and the compaction every start runs, step by step.                      *)
(*                                                                         *)
(* A line stands for its fields.  ok says whether parseLine() accepts what *)
(* is left of it; a torn line may still hold the fields it needs.          *)
(* PrintEngine takes a journal write for one atomic durable step: this     *)
(* module is about when it is one.                                         *)
(* An operator named X_y is a faulty variant of X, kept to show that the   *)
(* properties can fail.                                                    *)
(***************************************************************************)
EXTENDS Naturals, Sequences, FiniteSets, FiniteSetsExt, SequencesExt

CONSTANTS
  Jobs,
  FsyncEnabled,   \* StorageConfig
  HostCatches,    \* a StoreError out of createJob() leaves the process running
  SyncMayFail,    \* an fsync of the compaction may fail, which nothing looks at
  MaxStarts,      \* bound: how often the process is started
  MaxFullDisks    \* bound: how often a write, or such an fsync, fails

ASSUME JournalAssumption ==
  /\ {FsyncEnabled, HostCatches, SyncMayFail} \subseteq BOOLEAN
  /\ {MaxStarts, MaxFullDisks} \subseteq Nat
  /\ IsFiniteSet(Jobs)

Terminals == {"DoneSoftware", "FailedKnown", "Unknown"}
States == {"none", "Queued", "SendStarted"} \cup Terminals

Tokens == {"none", "short", "whole"}
Line == [kind : {"J", "S", "T"}, job : Jobs, state : States, tok : Tokens, ok : BOOLEAN]
Record == [state : States, tok : Tokens]
File == [lines : Seq(Line), ragged : BOOLEAN, safe : Nat]

VARIABLES
  journal,    \* the file; ragged: its last line has no newline; safe: lines synced
  replaced,   \* the files a power cut may bring back: rename() not synced yet
  tmp,        \* the compacted file before it is renamed
  proc,       \* "down", the steps of the constructor, "up"
  mem,        \* by_id_
  acked,      \* history: the state the last returned append made durable
  doubt,      \* history: the state of an append that did not return
  wire,       \* history: jobs with bytes on the wire, and those with their token
  spliced,    \* history: an append returned whose line went into a ragged one
  slip,       \* history: a start went on past an fsync that failed, and what came of it
  starts, fulls

vars == <<journal, replaced, tmp, proc, mem, acked, doubt, wire, spliced, slip, starts, fulls>>

Empty == [lines |-> <<>>, ragged |-> FALSE, safe |-> 0]
NoRecord == [state |-> "none", tok |-> "none"]

FilesOK ==
  /\ journal \in File /\ tmp \in File /\ replaced \subseteq File
  /\ \A f \in {journal, tmp} \cup replaced : f.safe <= Len(f.lines)
HistoryOK ==
  /\ acked \in [Jobs -> States] /\ doubt \in [Jobs -> States]
  /\ wire \in [sent : SUBSET Jobs, marked : SUBSET Jobs]
  /\ spliced \in BOOLEAN /\ slip \in {"no", "fsync", "cut"}
  /\ starts \in 0 .. MaxStarts /\ fulls \in 0 .. MaxFullDisks
ProcessOK ==
  /\ proc \in {"down", "loaded", "written", "synced", "renamed", "up"}
  /\ mem \in [Jobs -> Record]
  /\ proc \notin {"down", "up"} =>
       \A j \in Jobs : mem[j].state \in Terminals \cup {"none"}

TypeOK == FilesOK /\ HistoryOK /\ ProcessOK

Init ==
  /\ journal = Empty /\ replaced = {} /\ tmp = Empty
  /\ proc = "down"
  /\ mem = [j \in Jobs |-> NoRecord]
  /\ acked = [j \in Jobs |-> "none"] /\ doubt = [j \in Jobs |-> "none"]
  /\ wire = [sent |-> {}, marked |-> {}]
  /\ spliced = FALSE /\ slip = "no"
  /\ starts = 0 /\ fulls = 0

-----------------------------------------------------------------------------
(* Lines.                                                                  *)

JobLine(j, tok) == [kind |-> "J", job |-> j, state |-> "none", tok |-> tok, ok |-> TRUE]
StateLine(j, s) == [kind |-> "S", job |-> j, state |-> s, tok |-> "none", ok |-> TRUE]
TokenLine(j) == [kind |-> "T", job |-> j, state |-> "none", tok |-> "whole", ok |-> TRUE]

(* What parseLine() makes of a line cut short: refused, or accepted with   *)
(* what is left, a token line with half a token included.                  *)
Cut(line) ==
  {[line EXCEPT !.ok = FALSE],
   [line EXCEPT !.tok = IF line.kind = "T" THEN "short" ELSE @]}

(* Bytes go after the last byte: into the last line if it has no newline,  *)
(* which parseLine() then reads as that line.                              *)
Write(f, lines, ragged) ==
  [f EXCEPT !.lines = @ \o (IF f.ragged THEN Tail(lines) ELSE lines), !.ragged = ragged]

(* The files a write of lines may leave when it stops before its end.      *)
TornWrites(f, lines) ==
  {f} \cup
  {Write(f, SubSeq(lines, 1, n), FALSE) : n \in 1 .. Len(lines) - 1} \cup
  UNION {{Write(f, Append(SubSeq(lines, 1, n), torn), TRUE) : torn \in Cut(lines[n + 1])}
         : n \in 0 .. Len(lines) - 1}

-----------------------------------------------------------------------------
(* Reading the journal back.                                               *)

LinesOf(lines, j, kind) ==
  {i \in DOMAIN lines : lines[i].ok /\ lines[i].job = j /\ lines[i].kind = kind}

(* load(): the creation record, then the last state and the last tokens    *)
(* after it.                                                               *)
Replay(lines, j) ==
  LET born == LinesOf(lines, j, "J")
      After(kind) == {i \in LinesOf(lines, j, kind) : i > Min(born)}
      states == After("S")
      tokens == After("T")
  IN IF born = {} THEN NoRecord
     ELSE [state |-> IF states = {} THEN "Queued" ELSE lines[Max(states)].state,
           tok |-> IF tokens = {} THEN lines[Min(born)].tok ELSE lines[Max(tokens)].tok]

(* ... and the reclassification of what was in flight.                     *)
Recovered(state) ==
  CASE state = "SendStarted" -> "Unknown"
    [] state = "Queued" -> "FailedKnown"
    [] OTHER -> state

Load ==
  /\ proc = "down" /\ starts < MaxStarts
  /\ starts' = starts + 1
  /\ mem' = [j \in Jobs |-> LET r == Replay(journal.lines, j)
                            IN [r EXCEPT !.state = Recovered(@)]]
  /\ proc' = "loaded"
  /\ UNCHANGED <<journal, replaced, tmp, acked, doubt, wire, spliced, slip, fulls>>

-----------------------------------------------------------------------------
(* Compaction, step by step.                                               *)

(* One J, with the tokens, and one S per job.                              *)
Compacted ==
  LET known == SetToSeq({j \in Jobs : mem[j].state # "none"})
  IN [i \in 1 .. 2 * Len(known) |->
        LET j == known[(i + 1) \div 2]
        IN IF i % 2 = 1 THEN JobLine(j, mem[j].tok) ELSE StateLine(j, mem[j].state)]

CompactWrite ==
  /\ proc = "loaded"
  /\ tmp' = [lines |-> Compacted, ragged |-> FALSE, safe |-> 0]
  /\ proc' = "written"
  /\ UNCHANGED <<journal, replaced, mem, acked, doubt, wire, spliced, slip, starts, fulls>>

CompactSync_Skipped ==
  /\ proc = "written"
  /\ proc' = "synced"
  /\ UNCHANGED <<journal, replaced, tmp, mem, acked, doubt, wire, spliced, slip, starts, fulls>>

(* What a start leaves behind when it goes on past an fsync that failed:   *)
(* compact() passes no place for the error and renames all the same, and   *)
(* syncDirectory() returns nothing.                                        *)
Unsynced ==
  /\ FsyncEnabled /\ SyncMayFail
  /\ fulls < MaxFullDisks /\ fulls' = fulls + 1
  /\ slip' = IF slip = "no" THEN "fsync" ELSE slip

CompactSync ==
  /\ proc = "written"
  /\ \/ /\ tmp' = [tmp EXCEPT !.safe = IF FsyncEnabled THEN Len(tmp.lines) ELSE 0]
        /\ UNCHANGED <<slip, fulls>>
     \/ Unsynced /\ UNCHANGED tmp
  /\ proc' = "synced"
  /\ UNCHANGED <<journal, replaced, mem, acked, doubt, wire, spliced, starts>>

CompactRename ==
  /\ proc = "synced"
  /\ replaced' = replaced \cup {journal}
  /\ journal' = tmp
  /\ proc' = "renamed"
  /\ UNCHANGED <<tmp, mem, acked, doubt, wire, spliced, slip, starts, fulls>>

(* syncDirectory(), then openJournal(): the host has its driver and hears  *)
(* what became of the jobs.  A start whose two fsyncs succeeded makes good *)
(* for an earlier one's that did not, if the power held until then.        *)
CompactDone ==
  /\ proc = "renamed"
  /\ \/ /\ replaced' = IF FsyncEnabled THEN {} ELSE replaced
        /\ slip' = IF slip = "fsync" /\ journal.safe = Len(journal.lines) THEN "no" ELSE slip
        /\ UNCHANGED fulls
     \/ Unsynced /\ UNCHANGED replaced
  /\ proc' = "up"
  /\ acked' = [j \in Jobs |-> mem[j].state]
  /\ doubt' = [j \in Jobs |-> "none"]
  /\ UNCHANGED <<journal, tmp, mem, wire, spliced, starts>>

(* A short write or a failed rename: the constructor throws.               *)
CompactFails ==
  /\ proc \in {"loaded", "synced"} /\ fulls < MaxFullDisks
  /\ fulls' = fulls + 1
  /\ proc' = "down"
  /\ UNCHANGED <<journal, replaced, tmp, mem, acked, doubt, wire, spliced, slip, starts>>

-----------------------------------------------------------------------------
(* Appends.                                                                *)

Synced_Skipped(f) == f

Synced(f) == IF FsyncEnabled THEN [f EXCEPT !.safe = Len(f.lines)] ELSE f

(* append() returned: the lines are in the file and synced, and the record *)
(* in memory follows.                                                      *)
Append1(j, lines, state, record) ==
  /\ journal' = Synced(Write(journal, lines, FALSE))
  /\ mem' = [mem EXCEPT ![j] = record]
  /\ acked' = [acked EXCEPT ![j] = state]
  /\ spliced' = (spliced \/ journal.ragged)
  /\ UNCHANGED <<doubt, slip>>

AppendFails_MemoryFirst(j, lines, state) ==
  /\ journal' \in TornWrites(journal, lines) \cup {Write(journal, lines, FALSE)}
  /\ mem' = [mem EXCEPT ![j].state = state]
  /\ UNCHANGED <<acked, doubt, spliced, slip>>

(* append() did not return: the write was cut short, or fsync failed.      *)
AppendFails(j, lines, state) ==
  /\ journal' \in TornWrites(journal, lines) \cup {Write(journal, lines, FALSE)}
  /\ doubt' = [doubt EXCEPT ![j] = state]
  /\ UNCHANGED <<mem, acked, spliced, slip>>

(* A StoreError on the worker's thread ends the process: nothing there     *)
(* catches it.  A death in the middle of a write looks the same.           *)
WorkerAppend(j, lines, state, record) ==
  \/ /\ Append1(j, lines, state, record)
     /\ UNCHANGED <<proc, fulls>>
  \/ /\ AppendFails(j, lines, state)
     /\ proc' = "down"
     /\ UNCHANGED fulls

(* createJob(): both lines in one write, under the caller's thread.        *)
CreateJob(j) ==
  LET lines == <<JobLine(j, "none"), StateLine(j, "Queued")>>
  IN /\ proc = "up" /\ mem[j].state = "none" /\ doubt[j] = "none"
     /\ \/ /\ Append1(j, lines, "Queued", [state |-> "Queued", tok |-> "none"])
           /\ UNCHANGED <<proc, fulls>>
        \/ /\ AppendFails(j, lines, "Queued")
           /\ fulls < MaxFullDisks /\ fulls' = fulls + 1
           /\ proc' = IF HostCatches THEN "up" ELSE "down"
     /\ UNCHANGED <<replaced, tmp, wire, starts>>

(* recordTokens(), before the job's first byte.                            *)
RecordTokens(j) ==
  /\ proc = "up" /\ mem[j].state = "Queued" /\ mem[j].tok = "none"
  /\ WorkerAppend(j, <<TokenLine(j)>>, "Queued", [mem[j] EXCEPT !.tok = "whole"])
  /\ UNCHANGED <<replaced, tmp, wire, starts>>

(* recordState(), and what SendStarted authorises: a write that may put    *)
(* nothing on the wire, which is a known failure, or bytes, which never    *)
(* are one again.                                                          *)
RecordState(j, s) ==
  /\ proc = "up"
  /\ \/ mem[j].state = "Queued" /\ s \in {"SendStarted", "FailedKnown"}
     \/ mem[j].state = "SendStarted" /\ j \notin wire.sent /\ s = "FailedKnown"
     \/ mem[j].state = "SendStarted" /\ j \in wire.sent /\ s \in {"DoneSoftware", "Unknown"}
  /\ WorkerAppend(j, <<StateLine(j, s)>>, s, [mem[j] EXCEPT !.state = s])
  /\ \/ wire' = wire
     \/ /\ s = "SendStarted" /\ proc' = "up"
        /\ wire' = [sent |-> wire.sent \cup {j},
                    marked |-> IF mem[j].tok = "whole" THEN wire.marked \cup {j}
                               ELSE wire.marked]
  /\ UNCHANGED <<replaced, tmp, starts>>

-----------------------------------------------------------------------------
(* Deaths.                                                                 *)

(* The process dies between two steps; the files stay as they are.         *)
Death ==
  /\ proc # "down"
  /\ proc' = "down"
  /\ UNCHANGED <<journal, replaced, tmp, mem, acked, doubt, wire, spliced, slip, starts, fulls>>

(* The power goes: what was not synced may be lost from the end on, and a  *)
(* rename that was not synced may not have happened.                       *)
PowerCut ==
  /\ \E f \in {journal} \cup replaced : \E n \in f.safe .. Len(f.lines) :
       \/ journal' = [lines |-> SubSeq(f.lines, 1, n), ragged |-> f.ragged /\ n = Len(f.lines),
                      safe |-> n]
       \/ /\ n < Len(f.lines)
          /\ \E torn \in Cut(f.lines[n + 1]) :
               journal' = [lines |-> Append(SubSeq(f.lines, 1, n), torn), ragged |-> TRUE,
                           safe |-> n + 1]
  /\ replaced' = {}
  /\ slip' = IF slip = "no" THEN "no" ELSE "cut"
  /\ proc' = "down"
  /\ UNCHANGED <<tmp, mem, acked, doubt, wire, spliced, starts, fulls>>

Next ==
  \/ Load \/ CompactWrite \/ CompactSync \/ CompactRename \/ CompactDone \/ CompactFails
  \/ \E j \in Jobs : CreateJob(j) \/ RecordTokens(j) \/ \E s \in States : RecordState(j, s)
  \/ Death \/ PowerCut

Spec == Init /\ [][Next]_vars

-----------------------------------------------------------------------------
(* Properties.                                                             *)

Loaded == proc # "down"

(* What the code lets go wrong: an append that went into a line a failed   *)
(* one had left without its end, and a power cut after a compaction that   *)
(* went on past its own failed fsync.                                      *)
Damaged == spliced \/ slip = "cut"

(* The ordering rule of the store: a job with bytes on the wire is never   *)
(* read back as one that sent nothing, whatever died and whenever, damage  *)
(* excepted.                                                               *)
SentIsRemembered ==
  (Loaded /\ ~Damaged) =>
    \A j \in wire.sent : mem[j].state \in {"SendStarted", "DoneSoftware", "Unknown"}

(* A receipt printed with its identifier resolves after any restart.       *)
PrintedTokenResolves ==
  (Loaded /\ ~Damaged) => \A j \in wire.marked : mem[j].tok = "whole"

(* Nothing a receipt stands for is forgotten: neither that it was sent nor *)
(* the identifier printed on it (job_store.cpp: load(), compact() and the  *)
(* order of append() and of the write it authorises).                      *)
NothingSentIsForgotten == TypeOK /\ SentIsRemembered /\ PrintedTokenResolves

(* What the process believes is what the next start would read: memory is  *)
(* never ahead of the disk, nor behind it by more than an append in doubt. *)
MemoryIsOnDisk ==
  (proc = "up" /\ ~Damaged) =>
    \A j \in Jobs : Replay(journal.lines, j).state \in {mem[j].state} \cup ({doubt[j]} \ {"none"})

(* A start tells the truth: a job comes back as what its last durable      *)
(* transition, or the one in doubt, amounts to.  So an outcome, once given,*)
(* is given by every later start, across a compaction that dies halfway    *)
(* and, as long as the power holds, one whose fsync failed unnoticed.      *)
HonestRecovery ==
  [][(~Loaded /\ Loaded' /\ ~Damaged) =>
       \A j \in Jobs :
         mem'[j].state \in {Recovered(s) : s \in {acked[j]} \cup ({doubt[j]} \ {"none"})}]_vars

(* "A process that dies mid-send can never come back believing the job     *)
(* never started."                                                         *)
NeverBelievesItDidNotStart ==
  Loaded => \A j \in wire.sent : mem[j].state \notin {"none", "FailedKnown"}
=============================================================================
