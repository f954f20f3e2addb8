--------------------------- MODULE MCFencesSafety ---------------------------
(***************************************************************************)
(* Safety of the three printers of MCFences, for every set of keys and     *)
(* every bound. The inductive invariants are the ones PrintEngineSafety    *)
(* proves of the engine: KeysInv where a key must not reach paper twice,   *)
(* TokenInv where a token must name one receipt.                           *)
(***************************************************************************)
EXTENDS MCFences, TLAPS

FenceBounds ==
  MaxBareJobs \in Nat /\ MaxJobs \in Nat /\ MaxRestarts \in Nat /\ MaxDrops \in Nat

FencesInv ==
  /\ part = "bare" => Bare!KeysInv
  /\ part = "write only" => WriteOnly!KeysInv
  /\ part = "serial" => Serial!TokenInv

(* The engine moves as the printer the behaviour is of lets it.            *)
LEMMA FencesMove ==
  ASSUME [Next]_vars
  PROVE  /\ part' = part
         /\ part = "bare" => [Bare!Next]_(Bare!vars)
         /\ part = "write only" => [WriteOnly!Next]_(WriteOnly!vars)
         /\ part = "serial" => [Serial!Next]_(Serial!vars)
<1>1. CASE BareSteps BY <1>1 DEF BareSteps
<1>2. CASE WriteOnlySteps BY <1>2 DEF WriteOnlySteps
<1>3. CASE SerialSteps BY <1>3 DEF SerialSteps
<1>4. CASE UNCHANGED vars
  BY <1>4 DEF vars, bareVars, Bare!vars, WriteOnly!vars, Serial!vars
<1> QED BY <1>1, <1>2, <1>3, <1>4 DEF Next

(* Each printer starts with nothing asked of it.                           *)
LEMMA FencesInit == ASSUME FenceBounds, Init PROVE FencesInv
<1>1. ASSUME part = "bare" PROVE Bare!KeysInv
  <2>1. Bare!Init BY <1>1 DEF Init
  <2> QED BY <2>1, Bare!KeysBegin DEF FenceBounds
<1>2. ASSUME part = "write only" PROVE WriteOnly!KeysInv
  <2>1. WriteOnly!Init BY <1>2 DEF Init
  <2> QED BY <2>1, WriteOnly!KeysBegin DEF FenceBounds
<1>3. ASSUME part = "serial" PROVE Serial!TokenInv
  <2>1. Serial!Init BY <1>3 DEF Init
  <2> QED BY <2>1, Serial!TokenBegins DEF FenceBounds
<1> QED BY <1>1, <1>2, <1>3 DEF FencesInv

(* Every step keeps what is known of its printer.                          *)
LEMMA FencesStep == ASSUME FenceBounds, FencesInv, [Next]_vars PROVE FencesInv'
<1>1. ASSUME part = "bare" PROVE Bare!KeysInv'
  <2>1. Bare!KeysInv /\ [Bare!Next]_(Bare!vars) BY <1>1, FencesMove DEF FencesInv
  <2> QED BY <2>1, Bare!KeysStep DEF FenceBounds
<1>2. ASSUME part = "write only" PROVE WriteOnly!KeysInv'
  <2>1. WriteOnly!KeysInv /\ [WriteOnly!Next]_(WriteOnly!vars) BY <1>2, FencesMove DEF FencesInv
  <2> QED BY <2>1, WriteOnly!KeysStep DEF FenceBounds
<1>3. ASSUME part = "serial" PROVE Serial!TokenInv'
  <2>1. Serial!TokenInv /\ [Serial!Next]_(Serial!vars) BY <1>3, FencesMove DEF FencesInv
  <2> QED BY <2>1, Serial!TokenStep DEF FenceBounds
<1>4. part' = part BY FencesMove
<1> QED BY <1>1, <1>2, <1>3, <1>4 DEF FencesInv

(* What is known of the three printers holds in every reachable state.     *)
LEMMA FencesKeep == ASSUME FenceBounds PROVE Spec => []FencesInv
<1>1. Init => FencesInv BY FencesInit
<1>2. FencesInv /\ [Next]_vars => FencesInv' BY FencesStep
<1> QED BY <1>1, <1>2, PTL DEF Spec

(* A key nobody reprints reaches paper at most once, whether its fence is  *)
(* a bare status byte or there is none, over repeated submissions, time-   *)
(* outs, dropped links and deaths of the process.                          *)
THEOREM KeysReachPaperOnce == ASSUME FenceBounds PROVE Spec => []OneCopyPerKey
<1>1. FencesInv => OneCopyPerKey
  <2> SUFFICES ASSUME FencesInv PROVE OneCopyPerKey OBVIOUS
  <2>1. ASSUME part = "bare" PROVE Bare!OneCopyPerKey
    BY <2>1, Bare!OneCopyFollows DEF FencesInv, FenceBounds
  <2>2. ASSUME part = "write only" PROVE WriteOnly!OneCopyPerKey
    BY <2>2, WriteOnly!OneCopyFollows DEF FencesInv, FenceBounds
  <2> QED BY <2>1, <2>2 DEF OneCopyPerKey
<1> QED BY <1>1, FencesKeep, PTL

(* Over a serial link, whose answers outlive a connection, a token still   *)
(* names one receipt of a process, and what it confirms is on paper.       *)
THEOREM SerialTokensHold == ASSUME FenceBounds PROVE Spec => []TokenNamesOneReceipt
<1>1. FencesInv => TokenNamesOneReceipt
  <2> SUFFICES ASSUME FencesInv PROVE TokenNamesOneReceipt OBVIOUS
  <2>1. ASSUME part = "serial"
        PROVE  Serial!TokenNamesOneReceipt /\ Serial!ConfirmedMeansPrinted
    BY <2>1, Serial!TokenFollows DEF FencesInv, FenceBounds
  <2> QED BY <2>1 DEF TokenNamesOneReceipt
<1> QED BY <1>1, FencesKeep, PTL
=============================================================================
