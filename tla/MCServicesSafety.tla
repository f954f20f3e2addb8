-------------------------- MODULE MCServicesSafety --------------------------
(***************************************************************************)
(* Safety of the services that MCServices composes, for every value of the *)
(* bounds. The invariant of the composition is the invariants of its       *)
(* components: each is proved where the component is (CloudPrntSafety,     *)
(* ServicesSafety), and a step of one leaves the others where they are.    *)
(***************************************************************************)
EXTENDS MCServices, ServicesSafety

-----------------------------------------------------------------------------
(* The three routes of the CloudPRNT server: what is proved in             *)
(* CloudPrntSafety holds of each. The printer of the third sends no token, *)
(* so of that route only the server's own promises are carried over.       *)

CloudBounds == MaxTokens \in Nat /\ MaxPending \in Nat /\ MaxHistory \in Nat

CloudInv ==
  /\ part = "cloud" => Cloud!PaperInv /\ Cloud!DoneMeansPrinted
  /\ part = "shared route" => Shared!PaperInv /\ Shared!DoneMeansPrinted
  /\ part = "faulty device" => Faulty!SInv /\ Faulty!FaultInv

(* The routes considered are deployments: "none" is no printer's name.     *)
LEMMA RoutesAreDeployments ==
  ASSUME CloudBounds PROVE Cloud!Deployment /\ Shared!Deployment /\ Faulty!Deployment
BY DEF CloudBounds, Cloud!Deployment, Shared!Deployment, Faulty!Deployment

(* Each route begins with an empty queue.                                  *)
LEMMA CloudInit == ASSUME CloudBounds, Init PROVE CloudInv
<1>1. ASSUME part = "cloud" PROVE Cloud!PaperInv /\ Cloud!DoneMeansPrinted
  <2>1. Cloud!Init BY <1>1 DEF Init
  <2>2. Cloud!PaperInv BY <2>1, RoutesAreDeployments, Cloud!InitPaper
  <2>3. Cloud!DoneMeansPrinted BY <2>1 DEF Cloud!Init, Cloud!DoneMeansPrinted
  <2> QED BY <2>2, <2>3
<1>2. ASSUME part = "shared route" PROVE Shared!PaperInv /\ Shared!DoneMeansPrinted
  <2>1. Shared!Init BY <1>2 DEF Init
  <2>2. Shared!PaperInv BY <2>1, RoutesAreDeployments, Shared!InitPaper
  <2>3. Shared!DoneMeansPrinted BY <2>1 DEF Shared!Init, Shared!DoneMeansPrinted
  <2> QED BY <2>2, <2>3
<1>3. ASSUME part = "faulty device" PROVE Faulty!SInv /\ Faulty!FaultInv
  <2>1. Faulty!Init BY <1>3 DEF Init
  <2>2. Faulty!SInv BY <2>1, RoutesAreDeployments, Faulty!InitS
  <2>3. Faulty!FaultInv BY <2>1, Faulty!InitFault
  <2> QED BY <2>2, <2>3
<1> QED BY <1>1, <1>2, <1>3 DEF CloudInv

(* The server and its printers move only on the route the behaviour is of. *)
LEMMA RoutesMove ==
  ASSUME [Next]_vars
  PROVE  /\ part' = part
         /\ part = "cloud" => [Cloud!Next]_(Cloud!vars)
         /\ part = "shared route" => [Shared!Next]_(Shared!vars)
         /\ part = "faulty device" => [Faulty!Next]_(Faulty!vars)
<1>1. part' = part
  BY DEF Next, vars, CloudSteps, SharedSteps, FaultySteps, AgentSteps, EposCallSteps, StarSteps,
         DrawerSteps, CloudOnly, AgentOnly, EposCallOnly, StarOnly, DrawerOnly
<1>2. \/ UNCHANGED cloudVars
      \/ CloudSteps \/ SharedSteps \/ FaultySteps
  BY DEF Next, vars, AgentSteps, EposCallSteps, StarSteps,
         DrawerSteps, AgentOnly, EposCallOnly, StarOnly, DrawerOnly
<1>3. CASE UNCHANGED cloudVars
  BY <1>1, <1>3 DEF cloudVars, Cloud!vars, Cloud!server, Cloud!reported, Shared!vars,
         Shared!server, Shared!reported, Faulty!vars, Faulty!server, Faulty!reported
<1>4. CASE CloudSteps BY <1>1, <1>4 DEF CloudSteps
<1>5. CASE SharedSteps BY <1>1, <1>5 DEF SharedSteps
<1>6. CASE FaultySteps BY <1>1, <1>6 DEF FaultySteps
<1> QED BY <1>2, <1>3, <1>4, <1>5, <1>6

(* Every step keeps what is known of the route it is of.                   *)
LEMMA CloudStep == ASSUME CloudBounds, CloudInv, [Next]_vars PROVE CloudInv'
<1>1. ASSUME part = "cloud" PROVE (Cloud!PaperInv /\ Cloud!DoneMeansPrinted)'
  <2>1. Cloud!PaperInv /\ Cloud!DoneMeansPrinted /\ [Cloud!Next]_(Cloud!vars) /\ Cloud!Deployment
    BY <1>1, RoutesMove, RoutesAreDeployments DEF CloudInv
  <2>2. Cloud!PaperInv' BY <2>1, Cloud!PaperStep
  <2>3. Cloud!DoneMeansPrinted' BY <2>1, Cloud!DoneStep
  <2> QED BY <2>2, <2>3
<1>2. ASSUME part = "shared route" PROVE (Shared!PaperInv /\ Shared!DoneMeansPrinted)'
  <2>1. Shared!PaperInv /\ Shared!DoneMeansPrinted /\ [Shared!Next]_(Shared!vars) /\ Shared!Deployment
    BY <1>2, RoutesMove, RoutesAreDeployments DEF CloudInv
  <2>2. Shared!PaperInv' BY <2>1, Shared!PaperStep
  <2>3. Shared!DoneMeansPrinted' BY <2>1, Shared!DoneStep
  <2> QED BY <2>2, <2>3
<1>3. ASSUME part = "faulty device" PROVE (Faulty!SInv /\ Faulty!FaultInv)'
  <2>1. Faulty!SInv /\ Faulty!FaultInv /\ [Faulty!Next]_(Faulty!vars) /\ Faulty!Deployment
    BY <1>3, RoutesMove, RoutesAreDeployments DEF CloudInv
  <2>2. Faulty!SInv' BY <2>1, Faulty!SStep
  <2>3. Faulty!FaultInv' BY <2>1, Faulty!FaultStep
  <2> QED BY <2>2, <2>3
<1>4. part' = part BY RoutesMove
<1> QED BY <1>1, <1>2, <1>3, <1>4 DEF CloudInv

(* What the routes promise follows.                                        *)
LEMMA CloudPromises ==
  ASSUME CloudBounds, CloudInv
  PROVE  /\ part = "cloud" => /\ Cloud!TypeOK /\ Cloud!RetainedUntilConfirmed
                              /\ Cloud!DoneMeansPrinted /\ Cloud!OneCopy
         /\ part = "shared route" => /\ Shared!TypeOK /\ Shared!RetainedUntilConfirmed
                                     /\ Shared!DoneMeansPrinted /\ Shared!OneCopy
         /\ part = "faulty device" => Faulty!TypeOK /\ Faulty!FaultsAreTold
<1>1. ASSUME part = "cloud"
      PROVE  /\ Cloud!TypeOK /\ Cloud!RetainedUntilConfirmed
             /\ Cloud!DoneMeansPrinted /\ Cloud!OneCopy
  <2>1. Cloud!PaperInv /\ Cloud!DoneMeansPrinted /\ Cloud!Deployment
    BY <1>1, RoutesAreDeployments DEF CloudInv
  <2>2. Cloud!SInv BY <2>1 DEF Cloud!PaperInv
  <2> QED BY <2>1, <2>2, Cloud!QueueTyped, Cloud!QueueRetained, Cloud!CopiesBounded
<1>2. ASSUME part = "shared route"
      PROVE  /\ Shared!TypeOK /\ Shared!RetainedUntilConfirmed
             /\ Shared!DoneMeansPrinted /\ Shared!OneCopy
  <2>1. Shared!PaperInv /\ Shared!DoneMeansPrinted /\ Shared!Deployment
    BY <1>2, RoutesAreDeployments DEF CloudInv
  <2>2. Shared!SInv BY <2>1 DEF Shared!PaperInv
  <2> QED BY <2>1, <2>2, Shared!QueueTyped, Shared!QueueRetained, Shared!CopiesBounded
<1>3. ASSUME part = "faulty device" PROVE Faulty!TypeOK /\ Faulty!FaultsAreTold
  <2>1. Faulty!SInv /\ Faulty!FaultInv /\ Faulty!Deployment
    BY <1>3, RoutesAreDeployments DEF CloudInv
  <2> QED BY <2>1, Faulty!QueueTyped, Faulty!FaultsTold
<1> QED BY <1>1, <1>2, <1>3

-----------------------------------------------------------------------------
(* The composition. A component the behaviour is not of stays where it is, *)
(* so that each keeps its own invariant.                                   *)

ServiceBounds ==
  CloudBounds /\ MaxJobIds \in Nat /\ Spoolers \subseteq BOOLEAN /\ StarBounds /\ DrawerBounds

ServicesInv == CloudInv /\ AgentInv /\ EposInv /\ StarInv /\ DrawerInv

(* The components step one at a time.                                      *)
LEMMA OthersMove ==
  ASSUME [Next]_vars
  PROVE  /\ [Agent!Next]_(Agent!vars)
         /\ [EposCall!Next]_(EposCall!vars)
         /\ [Star!Next]_(Star!vars)
         /\ [Drawer!Next]_(Drawer!vars)
<1>1. UNCHANGED agentVars \/ Agent!Next
  BY DEF Next, vars, CloudSteps, SharedSteps, FaultySteps, AgentSteps, EposCallSteps, StarSteps,
         DrawerSteps, CloudOnly, EposCallOnly, StarOnly, DrawerOnly
<1>2. UNCHANGED eposCallVars \/ EposCall!Next
  BY DEF Next, vars, CloudSteps, SharedSteps, FaultySteps, AgentSteps, EposCallSteps, StarSteps,
         DrawerSteps, CloudOnly, AgentOnly, StarOnly, DrawerOnly
<1>3. UNCHANGED starVars \/ Star!Next
  BY DEF Next, vars, CloudSteps, SharedSteps, FaultySteps, AgentSteps, EposCallSteps, StarSteps,
         DrawerSteps, CloudOnly, AgentOnly, EposCallOnly, DrawerOnly
<1>4. UNCHANGED agentVars => UNCHANGED Agent!vars BY DEF agentVars, Agent!vars
<1>5. UNCHANGED eposCallVars => UNCHANGED EposCall!vars BY DEF eposCallVars, EposCall!vars
<1>6. UNCHANGED starVars => UNCHANGED Star!vars BY DEF starVars, Star!vars, Star!worker, Star!io, Star!printer
<1>7. UNCHANGED drawerVars \/ Drawer!Next
  BY DEF Next, vars, CloudSteps, SharedSteps, FaultySteps, AgentSteps, EposCallSteps, StarSteps,
         DrawerSteps, CloudOnly, AgentOnly, EposCallOnly, StarOnly
<1>8. UNCHANGED drawerVars => UNCHANGED Drawer!vars
  BY DEF drawerVars, Drawer!vars, Drawer!host, Drawer!world
<1> QED BY <1>1, <1>2, <1>3, <1>4, <1>5, <1>6, <1>7, <1>8

(* The invariants of the components hold at the start ...                  *)
LEMMA ServicesInit == ASSUME ServiceBounds, Init PROVE ServicesInv
<1>1. CloudInv BY CloudInit DEF ServiceBounds
<1>2. Agent!Init /\ EposCall!Init /\ Star!Init /\ Drawer!Init BY DEF Init
<1>3. AgentInv BY <1>2, AgentInit DEF ServiceBounds
<1>4. EposInv BY <1>2, EposInit DEF ServiceBounds
<1>5. StarInv BY <1>2, StarInit DEF ServiceBounds
<1>6. DrawerInv BY <1>2, DrawerInit DEF ServiceBounds
<1> QED BY <1>1, <1>3, <1>4, <1>5, <1>6 DEF ServicesInv

(* ... and every step keeps them.                                          *)
LEMMA ServicesStep == ASSUME ServiceBounds, ServicesInv, [Next]_vars PROVE ServicesInv'
<1>1. CloudInv' BY CloudStep DEF ServiceBounds, ServicesInv
<1>2. AgentInv' BY OthersMove, AgentStep DEF ServiceBounds, ServicesInv
<1>3. EposInv' BY OthersMove, EposStep DEF ServicesInv
<1>4. StarInv' BY OthersMove, StarStep DEF ServiceBounds, ServicesInv
<1>5. DrawerInv' BY OthersMove, DrawerStep DEF ServiceBounds, ServicesInv
<1> QED BY <1>1, <1>2, <1>3, <1>4, <1>5 DEF ServicesInv

(* The invariants hold throughout.                                         *)
LEMMA ServicesKeep == ASSUME ServiceBounds PROVE Spec => []ServicesInv
<1>1. Init => ServicesInv BY ServicesInit
<1>2. ServicesInv /\ [Next]_vars => ServicesInv' BY ServicesStep
<1> QED BY <1>1, <1>2, PTL DEF Spec

(* What CloudPRNT, ePOS-Print and the Star job path report as done is on   *)
(* paper, whatever was repeated, late, lost or another host's; and the ETB *)
(* count a Star job waits for is one a healthy printer reaches.            *)
THEOREM ReportedIsPrinted == ASSUME ServiceBounds PROVE Spec => []DoneMeansPrinted
<1>1. ServicesInv => DoneMeansPrinted
  BY CloudPromises, EposPromises, StarPromises DEF ServiceBounds, ServicesInv, DoneMeansPrinted
<1> QED BY <1>1, ServicesKeep, PTL

(* Retried downloads, two printers on one URL, two tills with one key and  *)
(* repeated retrievals put no second receipt on paper.                     *)
THEOREM NoSecondReceipt == ASSUME ServiceBounds PROVE Spec => []OneCopy
<1>1. ServicesInv => OneCopy
  BY CloudPromises, KeysPrintOnce, EposPromises DEF ServiceBounds, ServicesInv, OneCopy
<1> QED BY <1>1, ServicesKeep, PTL

(* No verdict runs ahead of its evidence: the silence of an ePOS service,  *)
(* a Star job that FailedKnown, an answer of the agent.                    *)
THEOREM VerdictsHaveEvidence == ASSUME ServiceBounds PROVE Spec => []ToldOnEvidence
<1>1. ServicesInv => ToldOnEvidence
  BY EposPromises, StarPromises, AnswersHoldEvidence DEF ServiceBounds, ServicesInv, ToldOnEvidence
<1> QED BY <1>1, ServicesKeep, PTL

(* The CloudPRNT server offers a job until a DELETE for it is served, in   *)
(* the order of submission; a fault it holds has reached the subscribers   *)
(* or is on its way, wherever the handlers and their callbacks stand,      *)
(* unless two polls published at once.                                     *)
THEOREM ServerForgetsNothing == ASSUME ServiceBounds PROVE Spec => []NothingForgotten
<1>1. ServicesInv => NothingForgotten
  BY CloudPromises DEF ServiceBounds, ServicesInv, NothingForgotten
<1> QED BY <1>1, ServicesKeep, PTL

(* openDrawer energises neither a drawer that a calibrated switch could    *)
(* have shown open nor a coil that a sequence of its process was the last  *)
(* to heat, within the cooldown, whether or not the link took that pulse   *)
(* whole; and no answer is left over between two polls.                    *)
THEOREM DrawerSpared == ASSUME ServiceBounds PROVE Spec => []DrawerIsSpared
<1>1. ServicesInv => DrawerIsSpared
  BY DrawerPromises DEF ServicesInv, DrawerIsSpared
<1> QED BY <1>1, ServicesKeep, PTL

(* A CloudPRNT job keeps the outcome its first DELETE gave it, and         *)
(* OpenVerified is given only for a drawer that has moved since the call.  *)
THEOREM VerdictsHold == ASSUME ServiceBounds PROVE Spec => VerdictsStand
<1>1. ServicesInv /\ [Next]_vars =>
        [/\ part = "cloud" => Cloud!FirstCodeIsTheEvidence
         /\ part = "shared route" => Shared!FirstCodeIsTheEvidence
         /\ part = "drawer" => Drawer!OpenVerifiedMeansMoved]_vars
  <2> SUFFICES ASSUME ServicesInv, [Next]_vars
               PROVE  /\ part = "cloud" => Cloud!FirstCodeIsTheEvidence
                      /\ part = "shared route" => Shared!FirstCodeIsTheEvidence
                      /\ part = "drawer" => Drawer!OpenVerifiedMeansMoved
    OBVIOUS
  <2>1. ASSUME part = "cloud" PROVE Cloud!FirstCodeIsTheEvidence
    <3>1. Cloud!Deployment /\ Cloud!SInv /\ [Cloud!Next]_(Cloud!vars)
      BY <2>1, RoutesMove, RoutesAreDeployments DEF ServiceBounds, ServicesInv, CloudInv, Cloud!PaperInv
    <3> QED BY <3>1, Cloud!OutcomeStep DEF Cloud!FirstCodeIsTheEvidence
  <2>2. ASSUME part = "shared route" PROVE Shared!FirstCodeIsTheEvidence
    <3>1. Shared!Deployment /\ Shared!SInv /\ [Shared!Next]_(Shared!vars)
      BY <2>2, RoutesMove, RoutesAreDeployments DEF ServiceBounds, ServicesInv, CloudInv, Shared!PaperInv
    <3> QED BY <3>1, Shared!OutcomeStep DEF Shared!FirstCodeIsTheEvidence
  <2>3. Drawer!OpenVerifiedMeansMoved
    BY OthersMove, DrawerVerdict DEF ServicesInv
  <2> QED BY <2>1, <2>2, <2>3
<1> QED BY <1>1, ServicesKeep, PTL DEF Spec, VerdictsStand

=============================================================================
