------------------------------- MODULE Probing -------------------------------
(***************************************************************************)
(* How the driver learns what a printer can do: CapabilityProbe::run asks  *)
(* one question after another over a link it owns, the findings are saved  *)
(* in the FindingsStore, and promote() turns them into the profile that    *)
(* jobs are run under (core/src/capability_probe.cpp).  Two callers share   *)
(* the store: the printer's own worker (runProbe, applyStoredFindings and   *)
(* scheduleProbe of driver.cpp), whose probe prints two test lines, and    *)
(* autoDetect's worker threads (classify of auto_detect.cpp), whose probe  *)
(* prints only where the caller allows it.                                 *)
(*                                                                         *)
(* A question is answered in time, or its answer is late and is an event   *)
(* of whichever later question is open when it arrives: beginPhase forgets *)
(* what came before it, not what is still to come.  A write may fail, and  *)
(* the probe then returns what it has.                                     *)
(*                                                                         *)
(* completionFrom_Eager is a faulty variant, kept to show that the         *)
(* properties can fail.                                                    *)
(***************************************************************************)
EXTENDS Naturals, Sequences, FiniteSets, SequencesExt

CONSTANTS
    Endpoints,    \* the addresses printers are reached at
    Devices,      \* the kinds of printer that may be there
    Policies,     \* the ProbePolicy a printer may be added with
    MaxProbes,    \* bound: probes run
    MaxSwaps,     \* bound: printers exchanged for another at the same address
    MaxLate       \* bound: answers that miss their question

VARIABLES
    at,         \* endpoint -> the device that is there
    records,    \* FindingsStore::records_
    probe,      \* the CapabilityProbe of each caller that runs one
    owed,       \* caller -> late answers still on their way on its link
    runtime,    \* the PrinterRuntime of each endpoint the driver has
    report,     \* what the last autoDetect said of each endpoint it saw
    probes,     \* probes started
    swaps,      \* printers exchanged
    late        \* answers that missed their question

vars == <<at, records, probe, owed, runtime, report, probes, swaps, late>>

Callers == {"runtime", "sweep"}

(* The questions of run(), in the order they are asked. *)
Order == <<"rt", "cut", "id", "gsh", "gsr", "asb">>

Questions == Range(Order)

(* Which questions a device answers, and the model name it reports. *)
Answers ==
    [full   |-> Questions,
     clone  |-> {"rt", "id", "gsr"},
     token  |-> {"gsh", "asb"},
     status |-> {"rt", "cut"}]

ReportedName == [full |-> "tm", clone |-> "tm", token |-> "", status |-> ""]

(* A map nothing has been put into yet. *)
None == [x \in {} |-> x]

(* A default-constructed CapabilityFindings.  The last three are ghosts:   *)
(* what was measured, whether text went ahead of the fences, and whether   *)
(* GS r 1 was found on a late answer to an earlier question alone.         *)
NoFindings(e, printing) ==
    [key |-> "", endpoint |-> e, said |-> [q \in Questions |-> "unset"],
     name |-> "", completion |-> "unset", device |-> at[e], printed |-> printing,
     borrowed |-> FALSE]

Empty(f) == f.name = "" /\ \A q \in Questions : f.said[q] = "unset"

-----------------------------------------------------------------------------
(* Findings and what they promote. *)

completionFrom_Eager(said) ==
    CASE said["gsh"] = "yes" -> "GsParenH"
      [] said["gsr"] = "yes" -> "GsR1"
      [] OTHER -> "None"

completionFrom(said) ==
    CASE said["gsh"] = "yes" -> "GsParenH"
      [] said["gsh"] # "yes" /\ said["gsr"] = "yes" -> "GsR1"
      [] said["gsh"] = "no" /\ said["gsr"] = "no" -> "None"
      [] OTHER -> "unset"

(* A profile: the mechanism jobs are fenced with, how much is known of the *)
(* two fences, and (ghost) the findings that set the mechanism.             *)
Defaults ==
    [completion |-> "GsParenH", gsh |-> "Documented", gsr |-> "Documented", by |-> None]

Promote(profile, f) ==
    LET mechanism == IF f.completion # "unset" THEN f.completion ELSE completionFrom(f.said)
        known(q) == IF f.said[q] # "unset" THEN "Probed" ELSE profile[q]
    IN  IF Empty(f) THEN profile
        ELSE [completion |-> IF mechanism # "unset" THEN mechanism ELSE profile.completion,
              gsh |-> known("gsh"), gsr |-> known("gsr"),
              by |-> IF mechanism # "unset" THEN f ELSE profile.by]

IdentityKey(name, e) == IF name # "" THEN name ELSE e

FindByEndpoint(e) == SelectInSeq(records, LAMBDA r : r.endpoint = e)

Saved(f) ==
    LET i == SelectInSeq(records, LAMBDA r : r.key = f.key)
    IN  IF i > 0 THEN [records EXCEPT ![i] = f] ELSE Append(records, f)

-----------------------------------------------------------------------------
(* One probe. *)

Begin(c, e, printing) ==
    /\ c \notin DOMAIN probe
    /\ probes < MaxProbes
    /\ probes' = probes + 1
    /\ probe' = (c :> [step |-> 1, found |-> NoFindings(e, printing)]) @@ probe

(* What the question just asked is taken to have been answered with, given *)
(* whether its own answer came and whether a late one did.  GS ( H waits   *)
(* for its own token; ASB for a frame of its own kind; the others for any  *)
(* event at all.                                                           *)
Answered(q, own, stray) ==
    CASE q = "gsh" -> own
      [] q = "asb" -> own
      [] OTHER     -> own \/ stray

(* The findings after question q.  dle_eot is the or of its queries; the   *)
(* test line goes out with each of the two fences.                         *)
Noted(f, q, yes) ==
    LET v == IF yes THEN "yes" ELSE "no"
        said == [f.said EXCEPT ![q] = v]
    IN  [f EXCEPT !.said = IF q = "cut" /\ yes THEN [said EXCEPT !["rt"] = "yes"] ELSE said,
                  !.name = IF q = "id" /\ q \in Answers[f.device] /\ yes
                           THEN ReportedName[f.device] ELSE @]

Ask(c) ==
    /\ c \in DOMAIN probe
    /\ probe[c].step <= Len(Order)
    /\ LET f == probe[c].found
           q == Order[probe[c].step]
       IN  \E own \in {b \in BOOLEAN : b => q \in Answers[f.device]},
             taken \in SUBSET owed[c] :
             LET missed == q \in Answers[f.device] /\ ~own
             IN  /\ missed => late < MaxLate
                 /\ late' = late + (IF missed THEN 1 ELSE 0)
                 /\ owed' = [owed EXCEPT ![c] =
                                (@ \ taken) \cup (IF missed THEN {q} ELSE {})]
                 /\ probe' = [probe EXCEPT ![c] =
                        [step  |-> @.step + 1,
                         found |-> [Noted(f, q, Answered(q, own, taken # {}))
                                     EXCEPT !.borrowed = @ \/ (q = "gsr" /\ ~own /\ taken # {})]]]
    /\ UNCHANGED <<at, records, runtime, report, probes, swaps>>

(* The question could not be written: run() returns early, without the     *)
(* completion and the key it computes last.  DLE EOT's own findings are    *)
(* assigned when all its queries are done.                                 *)
WriteFails(c) ==
    /\ c \in DOMAIN probe
    /\ probe[c].step <= Len(Order)
    /\ LET f == probe[c].found IN
       probe' = [probe EXCEPT ![c] =
            [step |-> Len(Order) + 2,
             found |-> IF Order[@.step] = "cut" THEN NoFindings(f.endpoint, f.printed) ELSE f]]
    /\ UNCHANGED <<at, records, owed, runtime, report, probes, swaps, late>>

(* run() has asked everything. *)
Conclude(c) ==
    /\ c \in DOMAIN probe
    /\ probe[c].step = Len(Order) + 1
    /\ LET f == probe[c].found IN
       probe' = [probe EXCEPT ![c] =
            [step |-> @.step + 1,
             found |-> [f EXCEPT !.completion = completionFrom(f.said),
                                 !.key = IdentityKey(f.name, f.endpoint)]]]
    /\ UNCHANGED <<at, records, owed, runtime, report, probes, swaps, late>>

Done(c) == c \in DOMAIN probe /\ probe[c].step = Len(Order) + 2

-----------------------------------------------------------------------------
(* The printer's own worker. *)

(* addPrinter: the stored findings are promoted before anything is asked,  *)
(* and scheduleProbe decides whether the first task is a probe.            *)
AddPrinter(e, policy) ==
    LET i == FindByEndpoint(e)
        stored == policy # "Never" /\ i > 0
    IN  /\ e \notin DOMAIN runtime
        /\ runtime' = runtime @@ (e :>
              [profile |-> IF stored THEN Promote(Defaults, records[i]) ELSE Defaults,
               probeDue |-> \/ policy = "Always"
                            \/ policy = "IfUnknown" /\ ~stored])
        /\ UNCHANGED <<at, records, probe, owed, report, probes, swaps, late>>

(* runProbe, from the scheduled task or from probeNow(print_test_lines).   *)
RunProbe(e) ==
    /\ e \in DOMAIN runtime
    /\ \/ /\ runtime[e].probeDue
          /\ Begin("runtime", e, TRUE)
       \/ /\ ~runtime[e].probeDue
          /\ \E printing \in BOOLEAN : Begin("runtime", e, printing)
    /\ runtime' = [runtime EXCEPT ![e].probeDue = FALSE]
    /\ UNCHANGED <<at, records, owed, report, swaps, late>>

RuntimeProbed ==
    /\ Done("runtime")
    /\ LET f == probe["runtime"].found IN
       IF Empty(f) THEN UNCHANGED <<records, runtime>>
       ELSE /\ runtime' = [runtime EXCEPT ![f.endpoint].profile = Promote(@, f)]
            /\ records' = Saved(f)
    /\ probe' = Restrict(probe, {"sweep"} \cap DOMAIN probe)
    /\ UNCHANGED <<at, owed, report, probes, swaps, late>>

(* The process ends: the profiles are gone, the stored records are not. *)
Restart ==
    /\ runtime' = None
    /\ probe' = None
    /\ owed' = [c \in Callers |-> {}]
    /\ report' = None
    /\ UNCHANGED <<at, records, probes, swaps, late>>

-----------------------------------------------------------------------------
(* autoDetect. *)

(* A printless answer keeps its flag and gets back the provenance the      *)
(* database shipped with.                                                  *)
Demoted(profile, printless) ==
    IF printless THEN [profile EXCEPT !.gsh = Defaults.gsh, !.gsr = Defaults.gsr]
    ELSE profile

Classified(e, f, fromCache) ==
    LET printless == ~fromCache /\ ~f.printed
    IN  report' = (e :> [status |-> "Asked", printless |-> printless,
                         profile |-> Demoted(Promote(Defaults, f), printless)]) @@ report

(* classify of an endpoint the store knows: the device is not asked. *)
ClassifyStored(e) ==
    /\ "sweep" \notin DOMAIN probe
    /\ FindByEndpoint(e) > 0
    /\ Classified(e, records[FindByEndpoint(e)], TRUE)
    /\ UNCHANGED <<at, records, probe, owed, runtime, probes, swaps, late>>

(* classify of an unknown one without probe_unknown: generic_unknown,      *)
(* which has no fence, as Unverified and not as an answer.                 *)
ClassifyUntouched(e) ==
    /\ "sweep" \notin DOMAIN probe
    /\ FindByEndpoint(e) = 0
    /\ report' = (e :> [status |-> "Unverified", printless |-> TRUE,
                        profile |-> [Defaults EXCEPT !.completion = "None"]]) @@ report
    /\ UNCHANGED <<at, records, probe, owed, runtime, probes, swaps, late>>

(* ... and with it: its own connection, and test lines where               *)
(* allow_printing_probe is set.                                            *)
ClassifyProbes(e) ==
    /\ FindByEndpoint(e) = 0
    /\ \E allow_printing_probe \in BOOLEAN : Begin("sweep", e, allow_printing_probe)
    /\ owed' = [owed EXCEPT !["sweep"] = {}]
    /\ UNCHANGED <<at, records, runtime, report, swaps, late>>

SweepProbed ==
    /\ Done("sweep")
    /\ LET f == probe["sweep"].found IN
       /\ records' = IF Empty(f) THEN records ELSE Saved(f)
       /\ Classified(f.endpoint, f, FALSE)
    /\ probe' = Restrict(probe, {"runtime"} \cap DOMAIN probe)
    /\ UNCHANGED <<at, owed, runtime, probes, swaps, late>>

(* Another printer is plugged in where e was; its links are new. *)
Swap(e) ==
    /\ swaps < MaxSwaps
    /\ DOMAIN probe = {}
    /\ \E d \in Devices \ {at[e]} : at' = [at EXCEPT ![e] = d]
    /\ swaps' = swaps + 1
    /\ owed' = [c \in Callers |-> {}]
    /\ UNCHANGED <<records, probe, runtime, report, probes, late>>

-----------------------------------------------------------------------------

Init ==
    /\ at \in [Endpoints -> Devices]
    /\ records = << >>
    /\ probe = None
    /\ owed = [c \in Callers |-> {}]
    /\ runtime = None
    /\ report = None
    /\ probes = 0
    /\ swaps = 0
    /\ late = 0

Next ==
    \/ \E c \in Callers : Ask(c) \/ WriteFails(c) \/ Conclude(c)
    \/ \E e \in Endpoints, p \in Policies : AddPrinter(e, p)
    \/ \E e \in Endpoints : RunProbe(e) \/ ClassifyStored(e) \/ ClassifyUntouched(e)
                            \/ ClassifyProbes(e) \/ Swap(e)
    \/ RuntimeProbed
    \/ SweepProbed
    \/ Restart

Spec == Init /\ [][Next]_vars

-----------------------------------------------------------------------------

InUse == {runtime[e].profile : e \in DOMAIN runtime}

Asked == {e \in DOMAIN report : report[e].status = "Asked"}

Reported == {report[e].profile : e \in Asked}

(* However late the answers come, a probe finds the per-receipt token only *)
(* on a device that echoes it: waitForToken looks for its own token, so no *)
(* stray event can give a printer a fence it does not have.                *)
TokenFenceIsReal ==
    \A f \in Range(records) : f.said["gsh"] = "yes" => "gsh" \in Answers[f.device]

(* The fallback fence is claimed, in the store and in a profile, only for  *)
(* a device that answers GS r 1, but for one case: an answer to an earlier *)
(* question that missed its own time and arrived in this phase, which      *)
(* counts any event.                                                       *)
QueuedFenceIsReal ==
    /\ \A f \in Range(records) :
           f.said["gsr"] = "yes" /\ ~f.borrowed => "gsr" \in Answers[f.device]
    /\ \A p \in InUse \cup Reported :
           p.completion = "GsR1" => p.by.borrowed \/ "gsr" \in Answers[p.by.device]

(* Silence is never evidence: a profile falls back to having no fence at   *)
(* all only when one probe asked for both fences, through write failures,  *)
(* partial records read back from the store and restarts alike             *)
(* (completionFrom and promote).                                           *)
NeverDemotedUnasked ==
    \A p \in InUse \cup Reported :
        p.completion = "None" => p.by.said["gsh"] = "no" /\ p.by.said["gsr"] = "no"

(* What autoDetect measured without printing it does not report as a       *)
(* probed fence: an echo out of an empty buffer waits for no paper         *)
(* (classify). A report from the store does not know whether its findings  *)
(* were printed, and is not one of these.                                  *)
SweepClaimsNoFence ==
    \A e \in DOMAIN report : report[e].printless =>
        report[e].profile.gsh # "Probed" /\ report[e].profile.gsr # "Probed"
=============================================================================
