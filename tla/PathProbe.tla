------------------------------ MODULE PathProbe ------------------------------
(***************************************************************************)
(* probePath (core/src/probe_path.cpp): what may a completion that crosses *)
(* this path claim?  The probe asks DLE EOT 1 and one GS ( H marker over a *)
(* path it knows nothing of (a print server, a forwarder, the printer      *)
(* itself), which may swallow answers, deliver them late, show the echoes  *)
(* of another host's jobs, or hang up, and classifyPath names the          *)
(* authority.  The marker's token is the caller's, or the constant that    *)
(* every probe of every host shares when it gives none.                    *)
(***************************************************************************)
EXTENDS Naturals, Sequences, FiniteSets

CONSTANTS
    MaxStrays     \* bound: answers of another host's jobs that reach this one

VARIABLES
    pathStep,   \* where probePath stands
    finding,    \* PathProbeFindings
    heard,      \* PathListener: the kinds of event it recorded
    dropped,    \* PathListener::dropped_
    coming,     \* answers the path has not delivered yet
    fenced,     \* ghost: the printer behind the path executed this host's marker
    own,        \* PathProbeOptions::token was given: no one else's marker bears it
    strays      \* external: the answers of others delivered

vars == <<pathStep, finding, heard, dropped, coming, fenced, own, strays>>

NoFinding ==
    [connected |-> FALSE, wroteStatus |-> FALSE, wroteFence |-> FALSE,
     echoed |-> FALSE, raw |-> {}, authority |-> "none"]

-----------------------------------------------------------------------------

(* classifyPath. *)
Classify(f) ==
    LET asked == f.connected /\ f.wroteStatus /\ f.wroteFence
    IN  CASE asked /\ f.echoed -> "PhysicalPrinter"
          [] asked /\ ~f.echoed /\ f.raw = {} -> "PrintServer"
          [] OTHER -> "TransportOnly"

(* finish(): every return classifies; the link is closed. *)
Finish(f) ==
    /\ finding' = [f EXCEPT !.authority = Classify(f)]
    /\ pathStep' = "finished"

Connect ==
    /\ pathStep = "start"
    /\ \/ /\ finding' = [finding EXCEPT !.connected = TRUE]
          /\ pathStep' = "status"
       \/ Finish(finding)
    /\ UNCHANGED <<heard, dropped, coming, fenced, own, strays>>

(* DLE EOT 1.  A path may have no printer that answers behind it. *)
WriteStatus ==
    /\ pathStep = "status"
    /\ \/ /\ finding' = [finding EXCEPT !.wroteStatus = TRUE]
          /\ pathStep' = "await status"
          /\ coming' \in {coming, coming \cup {"status"}, coming \cup {"unknown"}}
       \/ Finish(finding) /\ UNCHANGED coming
    /\ UNCHANGED <<heard, dropped, fenced, own, strays>>

(* Any byte ends this wait, a hang-up does, and so does the timeout. *)
AwaitStatus ==
    /\ pathStep = "await status"
    /\ pathStep' = "fence"
    /\ UNCHANGED <<finding, heard, dropped, coming, fenced, own, strays>>

(* GS ( H with the token.  findings.token is the caller's when it is valid *)
(* and kPathProbeToken when it is not.                                     *)
WriteFence ==
    /\ pathStep = "fence"
    /\ \/ /\ finding' = [finding EXCEPT !.wroteFence = TRUE]
          /\ pathStep' = "await fence"
          /\ \/ UNCHANGED <<fenced, coming>>
             \/ /\ fenced' = TRUE
                /\ coming' \in {coming, coming \cup {"token"}}
       \/ Finish(finding) /\ UNCHANGED <<fenced, coming>>
    /\ UNCHANGED <<heard, dropped, own, strays>>

(* The token came, the link dropped or the time is up; what was held is    *)
(* classified and the findings are read.                                   *)
AwaitFence ==
    /\ pathStep = "await fence"
    /\ Finish([finding EXCEPT !.echoed = ("token" \in heard), !.raw = heard])
    /\ UNCHANGED <<heard, dropped, coming, fenced, own, strays>>

-----------------------------------------------------------------------------
(* The path. *)

Linked == pathStep \notin {"start", "finished"} /\ ~dropped

Deliver ==
    /\ Linked
    /\ \E k \in coming : heard' = heard \cup {k} /\ coming' = coming \ {k}
    /\ UNCHANGED <<pathStep, finding, dropped, fenced, own, strays>>

(* An echo or a status answer meant for another host of the same printer:  *)
(* of one of its jobs, or of its own probe, whose token is this one's      *)
(* unless one of the two was told otherwise.                               *)
Stray ==
    /\ Linked
    /\ Len(strays) < MaxStrays
    /\ \E k \in {"foreign token", "status"} \cup (IF own THEN {} ELSE {"token"}) :
          heard' = heard \cup {k} /\ strays' = Append(strays, k)
    /\ UNCHANGED <<pathStep, finding, dropped, coming, fenced, own>>

HangUp ==
    /\ Linked
    /\ dropped' = TRUE
    /\ coming' = {}
    /\ UNCHANGED <<pathStep, finding, heard, fenced, own, strays>>

-----------------------------------------------------------------------------

Init ==
    /\ pathStep = "start"
    /\ finding = NoFinding
    /\ heard = {}
    /\ dropped = FALSE
    /\ coming = {}
    /\ fenced = FALSE
    /\ own \in BOOLEAN
    /\ strays = <<>>

Next ==
    \/ Connect \/ WriteStatus \/ AwaitStatus \/ WriteFence \/ AwaitFence
    \/ Deliver \/ Stray \/ HangUp

Spec == Init /\ [][Next]_vars

-----------------------------------------------------------------------------

(* A completion over this path may be claimed for the printer itself only  *)
(* when the printer executed this host's marker: no echo of another's job, *)
(* status byte or hang-up earns it, whenever it comes (waitForToken,       *)
(* classifyPath).  Of a probe that bears the shared token, another probe's *)
(* echo does.                                                              *)
AuthorityIsEarned ==
    finding.authority = "PhysicalPrinter" =>
        fenced \/ (~own /\ \E i \in 1..Len(strays) : strays[i] = "token")

(* "The print server took the bytes and nothing comes back" is said only   *)
(* of a path that took every byte and was silent to the end: a probe that  *)
(* could not finish asking proves nothing.                                 *)
SilenceWasAsked ==
    finding.authority = "PrintServer" =>
        finding.wroteStatus /\ finding.wroteFence /\ heard = {}
=============================================================================
