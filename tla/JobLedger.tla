----------------------------- MODULE JobLedger -----------------------------
(***************************************************************************)
(* What the print engine promises about a job, with no worker, no fence,   *)
(* no parser and no printer: the durable record, what an observer has been *)
(* told, and whether receipt bytes may have left.                          *)
(*                                                                         *)
(*   safe     -> nothing has been sent, and nothing will be if we die now  *)
(*   exposed  -> bytes may be out; a death here is settled as unknown      *)
(*   failed   -> settled: nothing was printed                              *)
(*   faulted  -> settled: printed, then the cutter reported a fault        *)
(*   complete -> settled: as good as the printer can confirm               *)
(*   unknown  -> settled: an operator decides                              *)
(*                                                                         *)
(* PrintEngine implements it (PrintEngine!Ledger).                         *)
(***************************************************************************)
CONSTANT Job

VARIABLES ledger, told, out
lvars == <<ledger, told, out>>

Settled == {"failed", "faulted", "complete", "unknown"}

LedgerInit ==
  /\ ledger = [j \in Job |-> "absent"]
  /\ told = [j \in Job |-> "absent"]
  /\ out = [j \in Job |-> FALSE]

(* A job is accepted, or refused outright by a driver that is shutting     *)
(* down.  Creation is told as it is recorded.                              *)
Accept(j) ==
  /\ ledger[j] = "absent"
  /\ \E s \in {"safe", "failed"} :
       /\ ledger' = [ledger EXCEPT ![j] = s]
       /\ told' = [told EXCEPT ![j] = s]
  /\ UNCHANGED out

Expose(j) ==
  /\ ledger[j] = "safe"
  /\ ledger' = [ledger EXCEPT ![j] = "exposed"]
  /\ UNCHANGED <<told, out>>

(* Bytes leave only under an exposed record.                               *)
Send(j) ==
  /\ ledger[j] = "exposed"
  /\ out' = [out EXCEPT ![j] = TRUE]
  /\ UNCHANGED <<ledger, told>>

(* Failure is claimed only of a job that has sent nothing.                 *)
Fail(j) ==
  /\ ledger[j] \in {"safe", "exposed"} /\ ~out[j]
  /\ ledger' = [ledger EXCEPT ![j] = "failed"]
  /\ told' \in {told, [told EXCEPT ![j] = "failed"]}
  /\ UNCHANGED out

(* A write that died half way is settled as it is noticed.                 *)
Settle(j) ==
  /\ ledger[j] = "exposed"
  /\ \/ /\ \E s \in {"faulted", "complete", "unknown"} : ledger' = [ledger EXCEPT ![j] = s]
        /\ UNCHANGED out
     \/ /\ ledger' = [ledger EXCEPT ![j] = "unknown"]
        /\ out' = [out EXCEPT ![j] = TRUE]
  /\ UNCHANGED told

Tell(j) ==
  /\ told' = [told EXCEPT ![j] = ledger[j]]
  /\ UNCHANGED <<ledger, out>>

(* Bytes under way can be lost with the connection that carried them.      *)
Lost(before, after) == \A j \in Job : after[j] => before[j]
LoseBytes ==
  /\ out' \in [Job -> BOOLEAN] /\ Lost(out, out')
  /\ UNCHANGED <<ledger, told>>

(* Death and recovery: one verdict for every job, told to whoever asks     *)
(* next.  The job that was being sent may lose bytes or have sent more.    *)
Verdict(s) == CASE s = "safe" -> "failed" [] s = "exposed" -> "unknown" [] OTHER -> s
Recover ==
  /\ ledger' = [j \in Job |-> Verdict(ledger[j])]
  /\ told' = ledger'
  /\ out' \in [Job -> BOOLEAN]
  /\ \A j \in Job : out'[j] => out[j] \/ ledger[j] = "exposed"

LedgerNext ==
  \/ \E j \in Job : Accept(j) \/ Expose(j) \/ Send(j) \/ Fail(j) \/ Settle(j) \/ Tell(j)
  \/ LoseBytes \/ Recover

LedgerSpec == LedgerInit /\ [][LedgerNext]_lvars
=============================================================================
