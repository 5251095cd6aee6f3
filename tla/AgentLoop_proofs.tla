--------------------------- MODULE AgentLoop_proofs ---------------------------
(***************************************************************************)
(* Proofs about AgentLoop, for every fleet, guard, limit and setting.      *)
(***************************************************************************)
EXTENDS AgentLoop, FiniteSetTheorems, TLAPS

-----------------------------------------------------------------------------
(***************************************************************************)
(* The inductive invariant: what the loop knows at each of its places.     *)
(***************************************************************************)

\* Where the loop is says what the step in hand is, and that it is within the limit.
StepFits ==
  /\ pc \notin {"top", "finished"} => index <= MaxSteps
  /\ pc = "judge" => step \in Step
  /\ pc = "verify" => step \in DoneStep
  /\ pc \in {"execute", "settle"} => step \in WorkStep /\ ~opts.dry
  /\ pc = "settle" => result \in StepResult

\* Work about to run has been through the guard and, where asked, the operator.
PermitHeld ==
  pc = "execute" =>
    /\ Verdict[step.command] # "block"
    /\ ThisStep \in granted \/ (Verdict[step.command] = "allow" /\ ~opts.stepwise)

\* A verification covers its plan, and the guard's refusals are its only skips.
ResultsFit ==
  /\ opts.dry => DOMAIN results = {}
  /\ pc = "verify" /\ ~opts.dry => DOMAIN results = PlanOf(step.verify)
  /\ \A p \in DOMAIN results :
       IF Verdict[p[2]] = "allow"
       THEN results[p] # "skipped"
       ELSE results[p] \in {"pending", "skipped"}

\* Nothing has run under a number the loop has not reached.
RanInOrder ==
  \A w \in ran : w[1] < index \/ (w[1] = index /\ pc \in {"settle", "finished"})

\* The outcome is set when the loop returns, and not before.
OutcomeWhenFinished == pc = "finished" <=> outcome # NoOutcome

\* While a step is being asked for, the spend is under the cap but for its own replies.
SpendFits ==
  opts.capped =>
    IF pc = "ask"
    THEN cost < MaxCost + attempt * MaxReplyCost
    ELSE cost = 0 \/ cost < MaxCost + (MaxProtocolRetries + 1) * MaxReplyCost

\* The record holds the steps before the one in hand; one being settled has run.
RecordFits ==
  /\ pc # "finished" => Len(log) = index - 1
  /\ pc = "settle" => ThisStep \in ran

TypedInv == TypeOK /\ StepFits

IInv ==
  /\ TypedInv
  /\ OutcomeWhenFinished
  /\ PermitHeld
  /\ RanWithPermission
  /\ RanInOrder
  /\ ResultsFit
  /\ DoneIsProven

-----------------------------------------------------------------------------
(***************************************************************************)
(* Type correctness, part by part.                                         *)
(***************************************************************************)

\* The loop's own place keeps its type, and its step fits the place.
LEMMA FlowStep ==
  ASSUME TypedInv, [Next]_vars
  PROVE  FlowOK' /\ StepFits'
<1> USE FleetAssumption, LimitAssumption DEF TypedInv, TypeOK, FlowOK, StepFits, Step,
           StepResult
<1>1. CASE StopAtStepLimit
  BY <1>1 DEF StopAtStepLimit, Finish
<1>2. CASE StopAtCostCap
  BY <1>2 DEF StopAtCostCap, Finish
<1>3. CASE BeginStep
  BY <1>3 DEF BeginStep
<1>4. CASE GatewayFails
  BY <1>4 DEF GatewayFails, Finish
<1>5. CASE UnusableReply
  BY <1>5 DEF UnusableReply, Finish
<1>6. ASSUME NEW s \in Step, UsableReply(s)
       PROVE  FlowOK' /\ StepFits'
  BY <1>6 DEF UsableReply
<1>7. CASE Abort
  BY <1>7 DEF Abort, Finish
<1>8. CASE StartChecks
  BY <1>8 DEF StartChecks, DoneStep, WorkStep, AbortStep
<1>9. ASSUME NEW p \in Hosts \X Commands, SkipCheck(p)
       PROVE  FlowOK' /\ StepFits'
  BY <1>9 DEF SkipCheck
<1>10. ASSUME NEW p \in Hosts \X Commands, MakeCheck(p)
       PROVE  FlowOK' /\ StepFits'
  BY <1>10 DEF MakeCheck
<1>11. CASE HandBackClaim
  BY <1>11 DEF HandBackClaim, NextIndex
<1>12. CASE SettleClaim
  BY <1>12 DEF SettleClaim, Finish
<1>13. CASE BlockWork
  BY <1>13 DEF BlockWork, Finish, NextIndex
<1>14. CASE DeclineWork
  BY <1>14 DEF DeclineWork, NextIndex
<1>15. CASE RehearseWork
  BY <1>15 DEF RehearseWork, NextIndex, Permit
<1>16. CASE PermitWork
  BY <1>16 DEF PermitWork, Permit, DoneStep, WorkStep, AbortStep
<1>17. CASE RunWork
  BY <1>17 DEF RunWork
<1>18. CASE LoseConnection
  BY <1>18 DEF LoseConnection, Finish
<1>19. CASE SettleWork
  BY <1>19 DEF SettleWork, Finish, NextIndex
<1>20. CASE UNCHANGED <<opts, pc, index, attempt, step, result>>
  BY <1>20
<1>. QED
  BY <1>1, <1>2, <1>3, <1>4, <1>5, <1>6, <1>7, <1>8, <1>9, <1>10, <1>11, <1>12,
     <1>13, <1>14, <1>15, <1>16, <1>17, <1>18, <1>19, <1>20
     DEF Next, Finished, vars, counters, money, Finish, NextIndex, Permit

\* The evidence stays a function of checks to outcomes.
LEMMA EvidenceStep ==
  ASSUME TypedInv, [Next]_vars
  PROVE  EvidenceOK'
<1> USE FleetAssumption, LimitAssumption DEF TypedInv, TypeOK, EvidenceOK, CheckOutcome,
           CheckResult
<1>1. CASE StartChecks
  BY <1>1 DEF StartChecks, PlanOf
<1>2. ASSUME NEW p \in Hosts \X Commands, SkipCheck(p)
       PROVE  EvidenceOK'
  BY <1>2 DEF SkipCheck, Pending
<1>3. ASSUME NEW p \in Hosts \X Commands, MakeCheck(p)
       PROVE  EvidenceOK'
  BY <1>3 DEF MakeCheck, Pending
<1>4. CASE UNCHANGED results
  BY <1>4
<1>. QED
  BY <1>1, <1>2, <1>3, <1>4
     DEF Next, StopAtStepLimit, StopAtCostCap, BeginStep, GatewayFails, UnusableReply,
         UsableReply, Abort, HandBackClaim, SettleClaim, BlockWork, DeclineWork,
         RehearseWork, PermitWork, RunWork, LoseConnection, SettleWork, Finished, vars,
         counters, money, Finish, NextIndex, Permit

\* The record only ever grows by a known fate.
LEMMA LogStep ==
  ASSUME TypedInv, [Next]_vars
  PROVE  log' \in Seq(Fate)
<1> USE FleetAssumption, LimitAssumption DEF TypedInv, TypeOK, Fate
<1>1. CASE Abort
  BY <1>1 DEF Abort, Finish
<1>2. CASE HandBackClaim
  BY <1>2 DEF HandBackClaim, NextIndex
<1>3. CASE SettleClaim
  BY <1>3 DEF SettleClaim, Finish
<1>4. CASE BlockWork
  BY <1>4 DEF BlockWork, Finish, NextIndex
<1>5. CASE DeclineWork
  BY <1>5 DEF DeclineWork, NextIndex
<1>6. CASE RehearseWork
  BY <1>6 DEF RehearseWork, NextIndex, Permit
<1>7. CASE SettleWork
  BY <1>7 DEF SettleWork, Finish, NextIndex, StepFits, StepResult
<1>8. CASE UNCHANGED log
  BY <1>8
<1>. QED
  BY <1>1, <1>2, <1>3, <1>4, <1>5, <1>6, <1>7, <1>8
     DEF Next, StopAtStepLimit, StopAtCostCap, BeginStep, GatewayFails, UnusableReply,
         UsableReply, StartChecks, SkipCheck, MakeCheck, PermitWork, RunWork,
         LoseConnection, Finished, vars, counters, money, Finish, NextIndex, Permit

\* What is granted and what ran are numbered work.
LEMMA WorkStepOK ==
  ASSUME TypedInv, [Next]_vars
  PROVE  WorkOK'
<1> USE FleetAssumption, LimitAssumption DEF TypedInv, TypeOK, FlowOK, StepFits, WorkOK,
           ThisStep, WorkStep, Step, DoneStep, AbortStep
<1>1. CASE RehearseWork
  BY <1>1 DEF RehearseWork, NextIndex, Permit
<1>2. CASE PermitWork
  BY <1>2 DEF PermitWork, Permit
<1>3. CASE RunWork
  BY <1>3 DEF RunWork
<1>4. CASE LoseConnection
  BY <1>4 DEF LoseConnection, Finish
<1>5. CASE UNCHANGED <<granted, ran>>
  BY <1>5
<1>. QED
  BY <1>1, <1>2, <1>3, <1>4, <1>5
     DEF Next, StopAtStepLimit, StopAtCostCap, BeginStep, GatewayFails, UnusableReply,
         UsableReply, Abort, StartChecks, SkipCheck, MakeCheck, HandBackClaim, SettleClaim,
         BlockWork, DeclineWork, SettleWork, Finished, vars, counters, money, Finish,
         NextIndex, Permit

\* The counters stay within their bounds.
LEMMA CountersStep ==
  ASSUME TypedInv, [Next]_vars
  PROVE  CountersOK'
<1> USE FleetAssumption, LimitAssumption DEF TypedInv, TypeOK, CountersOK, counters, money
<1>1. CASE UnusableReply
  BY <1>1 DEF UnusableReply, Finish, Charge
<1>2. ASSUME NEW s \in Step, UsableReply(s)
       PROVE  CountersOK'
  BY <1>2 DEF UsableReply, Charge
<1>3. CASE HandBackClaim
  BY <1>3 DEF HandBackClaim, NextIndex, ClaimRefused
<1>4. CASE BlockWork
  BY <1>4 DEF BlockWork, Finish, NextIndex
<1>5. CASE DeclineWork
  BY <1>5 DEF DeclineWork, NextIndex
<1>6. CASE RehearseWork
  BY <1>6 DEF RehearseWork, NextIndex, Permit
<1>7. CASE PermitWork
  BY <1>7 DEF PermitWork, Permit
<1>8. CASE SettleWork
  BY <1>8 DEF SettleWork, Finish, NextIndex, CountResult, StepFits
<1>9. CASE UNCHANGED <<counters, cost>>
  BY <1>9
<1>. QED
  BY <1>1, <1>2, <1>3, <1>4, <1>5, <1>6, <1>7, <1>8, <1>9
     DEF Next, StopAtStepLimit, StopAtCostCap, BeginStep, GatewayFails, Abort, StartChecks,
         SkipCheck, MakeCheck, SettleClaim, RunWork, LoseConnection, Finished, vars,
         counters, money, Finish, NextIndex, Permit

\* An outcome is set once, with a status and a step it could end on.
LEMMA OutcomeStep ==
  ASSUME TypedInv, [Next]_vars
  PROVE  OutcomeOK'
<1> USE FleetAssumption, LimitAssumption DEF TypedInv, TypeOK, FlowOK, CountersOK, StepFits,
           OutcomeOK, Status, Reason
<1>1. CASE StopAtStepLimit
  BY <1>1 DEF StopAtStepLimit, Finish
<1>2. CASE StopAtCostCap
  BY <1>2 DEF StopAtCostCap, Finish
<1>3. CASE GatewayFails
  BY <1>3 DEF GatewayFails, Finish
<1>4. CASE UnusableReply
  BY <1>4 DEF UnusableReply, Finish
<1>5. CASE Abort
  BY <1>5 DEF Abort, Finish
<1>6. CASE SettleClaim
  BY <1>6 DEF SettleClaim, Finish
<1>7. CASE BlockWork
  BY <1>7 DEF BlockWork, Finish, NextIndex
<1>8. CASE LoseConnection
  BY <1>8 DEF LoseConnection, Finish
<1>9. CASE SettleWork
  BY <1>9 DEF SettleWork, Finish, NextIndex
<1>10. CASE UNCHANGED outcome
  BY <1>10
<1>. QED
  BY <1>1, <1>2, <1>3, <1>4, <1>5, <1>6, <1>7, <1>8, <1>9, <1>10
     DEF Next, BeginStep, UsableReply, StartChecks, SkipCheck, MakeCheck, HandBackClaim,
         DeclineWork, RehearseWork, PermitWork, RunWork, Finished, vars, counters, money,
         Finish, NextIndex, Permit

\* The switches stay switches.
LEMMA SwitchesStep ==
  ASSUME TypedInv, [Next]_vars
  PROVE  SwitchesOK'
BY Zenon DEF TypedInv, TypeOK, SwitchesOK, Charge,
     Next, StopAtStepLimit, StopAtCostCap, BeginStep, GatewayFails, UnusableReply, UsableReply,
     Abort, StartChecks, SkipCheck, MakeCheck, HandBackClaim, SettleClaim, BlockWork,
     DeclineWork, RehearseWork, PermitWork, RunWork, LoseConnection, SettleWork, Finished, vars,
     counters, money, Finish, NextIndex, Permit

\* Every variable starts with its type.
LEMMA TypedAtStart == Init => TypedInv
<1> SUFFICES ASSUME Init
             PROVE  TypedInv
  OBVIOUS
<1>1. FlowOK /\ StepFits
  BY LimitAssumption DEF Init, FlowOK, StepFits
<1>2. EvidenceOK
  BY DEF Init, EvidenceOK
<1>3. log \in Seq(Fate)
  BY DEF Init
<1>4. WorkOK
  BY DEF Init, WorkOK
<1>5. CountersOK
  BY LimitAssumption DEF Init, CountersOK
<1>6. SwitchesOK
  BY Zenon DEF Init, SwitchesOK
<1>7. OutcomeOK
  BY DEF Init, OutcomeOK
<1>. QED
  BY <1>1, <1>2, <1>3, <1>4, <1>5, <1>6, <1>7 DEF TypedInv, TypeOK

\* A step keeps every variable's type.
LEMMA TypedStep ==
  ASSUME TypedInv, [Next]_vars
  PROVE  TypedInv'
BY FlowStep, EvidenceStep, LogStep, WorkStepOK, CountersStep, SwitchesStep, OutcomeStep
   DEF TypedInv, TypeOK

\* Every variable keeps its type, and every bounded counter its bound, for any limits.
THEOREM TypeCorrect == Spec => []TypeOK
<1>1. TypedInv /\ [Next]_vars => TypedInv'
  BY TypedStep
<1>2. TypedInv => TypeOK
  BY DEF TypedInv
<1>. QED
  BY TypedAtStart, <1>1, <1>2, PTL DEF Spec

-----------------------------------------------------------------------------
(***************************************************************************)
(* Safety.                                                                 *)
(***************************************************************************)

\* A status is set when the loop returns, and not before.
LEMMA EndingStep ==
  ASSUME IInv, [Next]_vars
  PROVE  OutcomeWhenFinished'
<1> USE DEF IInv, OutcomeWhenFinished, NoOutcome
<1>1. CASE StopAtStepLimit
  BY <1>1 DEF StopAtStepLimit, Finish
<1>2. CASE StopAtCostCap
  BY <1>2 DEF StopAtCostCap, Finish
<1>3. CASE GatewayFails
  BY <1>3 DEF GatewayFails, Finish
<1>4. CASE UnusableReply
  BY <1>4 DEF UnusableReply, Finish
<1>5. CASE Abort
  BY <1>5 DEF Abort, Finish
<1>6. CASE SettleClaim
  BY <1>6 DEF SettleClaim, Finish
<1>7. CASE BlockWork
  BY <1>7 DEF BlockWork, Finish, NextIndex
<1>8. CASE LoseConnection
  BY <1>8 DEF LoseConnection, Finish
<1>9. CASE SettleWork
  BY <1>9 DEF SettleWork, Finish, NextIndex
<1>10. CASE UNCHANGED <<pc, outcome>>
  BY <1>10
<1>. QED
  BY <1>1, <1>2, <1>3, <1>4, <1>5, <1>6, <1>7, <1>8, <1>9, <1>10
     DEF Next, BeginStep, UsableReply, StartChecks, SkipCheck, MakeCheck, HandBackClaim,
         DeclineWork, RehearseWork, PermitWork, RunWork, Finished, vars, counters, money,
         Finish, NextIndex, Permit

\* Work about to run has been through the guard and, where asked, the operator.
LEMMA PermitStep ==
  ASSUME IInv, [Next]_vars
  PROVE  PermitHeld'
<1> USE FleetAssumption, LimitAssumption DEF IInv, TypedInv, PermitHeld, StepFits, Step,
           WorkStep, DoneStep, AbortStep
<1>1. CASE PermitWork
  BY <1>1 DEF PermitWork, Permit, NeedsApproval, ThisStep, TypeOK, FlowOK
<1>2. CASE pc' # "execute" \/ UNCHANGED <<opts, pc, index, step, granted>>
  BY <1>2 DEF ThisStep
<1>. QED
  BY <1>1, <1>2
     DEF Next, StopAtStepLimit, StopAtCostCap, BeginStep, GatewayFails, UnusableReply,
         UsableReply, Abort, StartChecks, SkipCheck, MakeCheck, HandBackClaim, SettleClaim,
         BlockWork, DeclineWork, RehearseWork, RunWork, LoseConnection, SettleWork,
         Finished, vars, counters, money, Finish, NextIndex, Permit

\* What runs is what was permitted.
LEMMA RanStep ==
  ASSUME IInv, [Next]_vars
  PROVE  RanWithPermission'
<1> USE DEF IInv, RanWithPermission
<1>1. CASE RehearseWork
  BY <1>1 DEF RehearseWork, NextIndex, Permit
<1>2. CASE PermitWork
  BY <1>2 DEF PermitWork, Permit
<1>3. CASE RunWork
  BY <1>3 DEF RunWork, PermitHeld, TypedInv, StepFits, ThisStep
<1>4. CASE LoseConnection
  BY <1>4 DEF LoseConnection, Finish, PermitHeld, TypedInv, StepFits, ThisStep
<1>5. CASE UNCHANGED <<opts, granted, ran>>
  BY <1>5
<1>. QED
  BY <1>1, <1>2, <1>3, <1>4, <1>5
     DEF Next, StopAtStepLimit, StopAtCostCap, BeginStep, GatewayFails, UnusableReply,
         UsableReply, Abort, StartChecks, SkipCheck, MakeCheck, HandBackClaim, SettleClaim,
         BlockWork, DeclineWork, SettleWork, Finished, vars, counters, money, Finish,
         NextIndex, Permit

\* Nothing runs under a number the loop has not reached, nor twice under one.
LEMMA OrderStep ==
  ASSUME IInv, [Next]_vars
  PROVE  RanInOrder'
<1> USE FleetAssumption, LimitAssumption DEF IInv, RanInOrder, TypedInv, TypeOK, FlowOK,
           WorkOK, ThisStep
<1>1. CASE RunWork
  BY <1>1 DEF RunWork
<1>2. CASE LoseConnection
  BY <1>2 DEF LoseConnection, Finish
<1>3. CASE /\ UNCHANGED ran
           /\ \/ index' = index + 1
              \/ UNCHANGED index /\ pc' = "finished"
              \/ UNCHANGED <<pc, index>>
              \/ UNCHANGED index /\ pc \notin {"settle", "finished"}
  BY <1>3
<1>. QED
  BY <1>1, <1>2, <1>3
     DEF Next, StopAtStepLimit, StopAtCostCap, BeginStep, GatewayFails, UnusableReply,
         UsableReply, Abort, StartChecks, SkipCheck, MakeCheck, HandBackClaim, SettleClaim,
         BlockWork, DeclineWork, RehearseWork, PermitWork, SettleWork, Finished, vars,
         counters, money, Finish, NextIndex, Permit

\* A verification covers its plan, and skips only what the guard refuses.
LEMMA CoverStep ==
  ASSUME IInv, [Next]_vars
  PROVE  ResultsFit'
<1> USE FleetAssumption, LimitAssumption DEF IInv, ResultsFit
<1>1. ASSUME NEW s \in Step, UsableReply(s)
       PROVE  ResultsFit'
  BY <1>1 DEF UsableReply
<1>2. CASE StartChecks
  BY <1>2 DEF StartChecks
<1>3. ASSUME NEW p \in Hosts \X Commands, SkipCheck(p)
       PROVE  ResultsFit'
  BY <1>3 DEF SkipCheck, Pending
<1>4. ASSUME NEW p \in Hosts \X Commands, MakeCheck(p)
       PROVE  ResultsFit'
  BY <1>4 DEF MakeCheck, CheckResult, Pending
<1>5. CASE UNCHANGED <<opts, results>> /\ (pc' # "verify" \/ UNCHANGED <<pc, step>>)
  BY <1>5
<1>. QED
  BY <1>1, <1>2, <1>3, <1>4, <1>5
     DEF Next, StopAtStepLimit, StopAtCostCap, BeginStep, GatewayFails, UnusableReply,
         Abort, HandBackClaim, SettleClaim, BlockWork, DeclineWork, RehearseWork,
         PermitWork, RunWork, LoseConnection, SettleWork, Finished, vars, counters, money,
         Finish, NextIndex, Permit

\* Only a proven claim is settled as done.
LEMMA ProvenStep ==
  ASSUME IInv, [Next]_vars
  PROVE  DoneIsProven'
<1> USE DEF IInv, OutcomeWhenFinished, NoOutcome, DoneIsProven
<1>1. CASE StopAtStepLimit
  BY <1>1 DEF StopAtStepLimit, Finish
<1>2. CASE StopAtCostCap
  BY <1>2 DEF StopAtCostCap, Finish
<1>3. CASE GatewayFails
  BY <1>3 DEF GatewayFails, Finish
<1>4. CASE UnusableReply
  BY <1>4 DEF UnusableReply, Finish
<1>5. CASE Abort
  BY <1>5 DEF Abort, Finish
<1>6. CASE SettleClaim
  BY <1>6 DEF SettleClaim, Finish, ResultsFit, TypedInv, TypeOK, EvidenceOK, StepFits, DoneStep, CheckOutcome, CheckResult, Broken, Unproven, Pending
<1>7. CASE BlockWork
  BY <1>7 DEF BlockWork, Finish, NextIndex
<1>8. CASE LoseConnection
  BY <1>8 DEF LoseConnection, Finish
<1>9. CASE SettleWork
  BY <1>9 DEF SettleWork, Finish, NextIndex
<1>10. CASE pc' # "finished" \/ UNCHANGED <<opts, step, results, outcome>>
  BY <1>10, EndingStep
<1>. QED
  BY <1>1, <1>2, <1>3, <1>4, <1>5, <1>6, <1>7, <1>8, <1>9, <1>10
     DEF Next, BeginStep, UsableReply, StartChecks, SkipCheck, MakeCheck, HandBackClaim,
         DeclineWork, RehearseWork, PermitWork, RunWork, Finished, vars, counters, money,
         Finish, NextIndex, Permit

\* What one more reply may add to the replies of a step.
LEMMA CostOfReplies ==
  ASSUME NEW a \in Nat, NEW b \in Nat, NEW m \in Nat, a <= b
  PROVE  /\ a * m \in Nat
         /\ (a + 1) * m = a * m + m
         /\ (a + 1) * m <= (b + 1) * m
         /\ 0 * m = 0
  BY SMTT(30)

\* One step's replies are all the spend can pass the cap by.
LEMMA SpendStep ==
  ASSUME TypedInv, SpendFits, [Next]_vars
  PROVE  SpendFits'
<1> USE FleetAssumption, LimitAssumption DEF TypedInv, TypeOK, FlowOK, CountersOK,
           SpendFits, money
<1>1. CASE BeginStep
  BY <1>1, CostOfReplies DEF BeginStep, CapReached
<1>2. CASE GatewayFails
  BY <1>2, CostOfReplies DEF GatewayFails, Finish
<1>3. CASE UnusableReply
  <2>1. /\ attempt * MaxReplyCost \in Nat
        /\ (attempt + 1) * MaxReplyCost = attempt * MaxReplyCost + MaxReplyCost
        /\ (attempt + 1) * MaxReplyCost <= (MaxProtocolRetries + 1) * MaxReplyCost
    BY CostOfReplies
  <2>2. cost' \in Nat /\ cost' <= cost + MaxReplyCost
    BY <1>3 DEF UnusableReply, Charge
  <2>3. opts.capped => cost' < MaxCost + (attempt + 1) * MaxReplyCost
    BY <1>3, <2>1, <2>2 DEF UnusableReply
  <2>4. /\ opts' = opts
        /\ pc' = "ask" => attempt' = attempt + 1
    BY <1>3 DEF UnusableReply, Finish
  <2>5. (MaxProtocolRetries + 1) * MaxReplyCost \in Nat
    BY CostOfReplies
  <2>. QED
    BY <2>1, <2>2, <2>3, <2>4, <2>5
<1>4. ASSUME NEW s \in Step, UsableReply(s)
       PROVE  SpendFits'
  BY <1>4, CostOfReplies DEF UsableReply, Charge
<1>5. CASE UNCHANGED <<opts, cost>> /\ pc # "ask" /\ pc' # "ask"
  BY <1>5
<1>6. CASE UNCHANGED vars
  BY <1>6 DEF vars, counters
<1>. QED
  BY <1>1, <1>2, <1>3, <1>4, <1>5, <1>6
     DEF Next, StopAtStepLimit, StopAtCostCap, Abort, StartChecks, SkipCheck, MakeCheck,
         HandBackClaim, SettleClaim, BlockWork, DeclineWork, RehearseWork, PermitWork,
         RunWork, LoseConnection, SettleWork, Finished, vars, counters, money, Finish,
         NextIndex, Permit

\* The inductive invariant holds at the start, and every step keeps it.
LEMMA InvAtStart == Init => IInv
<1> SUFFICES ASSUME Init
             PROVE  IInv
  OBVIOUS
<1>1. TypedInv
  BY TypedAtStart
<1>2. OutcomeWhenFinished /\ DoneIsProven
  BY DEF Init, OutcomeWhenFinished, NoOutcome, DoneIsProven
<1>3. PermitHeld /\ RanWithPermission /\ RanInOrder /\ ResultsFit
  BY DEF Init, PermitHeld, RanWithPermission, RanInOrder, ResultsFit
<1>. QED
  BY <1>1, <1>2, <1>3 DEF IInv

\* A step keeps the inductive invariant.
LEMMA InvStep ==
  ASSUME IInv, [Next]_vars
  PROVE  IInv'
<1>1. TypedInv'
  BY TypedStep DEF IInv
<1>. QED
  BY <1>1, EndingStep, PermitStep, RanStep, OrderStep, CoverStep, ProvenStep DEF IInv

\* Nothing runs without permission, and no claim is believed without its checks: for
\* every fleet, guard and setting.
THEOREM Safety == Spec => [](RanWithPermission /\ DoneIsProven)
<1>1. IInv /\ [Next]_vars => IInv'
  BY InvStep
<1>2. IInv => RanWithPermission /\ DoneIsProven
  BY DEF IInv
<1>. QED
  BY InvAtStart, <1>1, <1>2, PTL DEF Spec

\* "done" is said only over a complete set of clean checks.
COROLLARY DoneProven == Spec => []DoneIsProven
BY Safety, PTL

\* The cap is overshot by one step's replies at most.
THEOREM Overshoot == Spec => []SpendOvershoot
<1>1. Init => TypedInv /\ SpendFits
  BY TypedAtStart DEF Init, SpendFits
<1>2. TypedInv /\ SpendFits /\ [Next]_vars => (TypedInv /\ SpendFits)'
  BY TypedStep, SpendStep
<1>3. TypedInv /\ SpendFits => SpendOvershoot
  <2> SUFFICES ASSUME TypedInv, SpendFits
               PROVE  SpendOvershoot
    OBVIOUS
  <2>. QED
    BY CostOfReplies, LimitAssumption
       DEF TypedInv, TypeOK, FlowOK, CountersOK, SpendFits, SpendOvershoot
<1>. QED
  BY <1>1, <1>2, <1>3, PTL DEF Spec

\* What an entry appended to the record leaves true: an entry is an executed step
\* exactly when something ran under its number.
LEMMA RecordGrows ==
  ASSUME IInv, RecordFits, EffectsOnRecord, pc # "finished", NEW f \in Fate,
         log' = Append(log, f), ran' = ran,
         IF pc = "settle" THEN f \in StepResult ELSE f \notin StepResult
  PROVE  /\ Len(log') = index
         /\ \A w \in ran' : w[1] \in DOMAIN log' /\ log'[w[1]] \in StepResult
         /\ \A n \in DOMAIN log' : log'[n] \in StepResult => \E w \in ran' : w[1] = n
<1> USE DEF IInv, TypedInv, TypeOK, FlowOK, WorkOK
<1>1. /\ Len(log') = index
      /\ DOMAIN log' = 1 .. index
      /\ DOMAIN log = 1 .. index - 1
      /\ log'[index] = f
      /\ \A n \in 1 .. index - 1 : log'[n] = log[n]
  BY DEF RecordFits
<1>2. outcome = NoOutcome
  BY DEF OutcomeWhenFinished
<1>3. outcome.reason # "ssh"
  BY <1>2 DEF NoOutcome
<1>4. ASSUME NEW w \in ran'
      PROVE  w[1] \in DOMAIN log' /\ log'[w[1]] \in StepResult
  <2>1. w[1] \in 1 .. MaxSteps
    OBVIOUS
  <2>2. CASE w[1] = index
    <3>1. pc = "settle"
      BY <2>2, <1>1, <1>3 DEF EffectsOnRecord
    <3>. QED
      BY <1>1, <2>2, <3>1
  <2>3. CASE w[1] # index
    <3>1. w[1] \in DOMAIN log /\ log[w[1]] \in StepResult
      BY <2>3 DEF EffectsOnRecord
    <3>. QED
      BY <1>1, <3>1
  <2>. QED
    BY <2>2, <2>3
<1>5. ASSUME NEW n \in DOMAIN log', log'[n] \in StepResult
      PROVE  \E w \in ran' : w[1] = n
  <2>1. CASE n = index
    BY <1>1, <1>5, <2>1 DEF RecordFits, ThisStep
  <2>2. CASE n # index
    BY <1>1, <1>5, <2>2 DEF EffectsOnRecord
  <2>. QED
    BY <2>1, <2>2
<1>. QED
  BY <1>1, <1>4, <1>5

\* The record and what ran stay in step.
LEMMA RecordStep ==
  ASSUME IInv, RecordFits, EffectsOnRecord, [Next]_vars
  PROVE  RecordFits' /\ EffectsOnRecord'
<1> USE DEF RecordFits
<1>1. ASSUME NEW f \in Fate, pc # "finished", log' = Append(log, f), ran' = ran,
             IF pc = "settle" THEN f \in StepResult ELSE f \notin StepResult,
             \/ pc' = "top" /\ index' = index + 1
             \/ pc' = "finished"
      PROVE  RecordFits' /\ EffectsOnRecord'
  <2>1. /\ Len(log') = index
        /\ \A w \in ran' : w[1] \in DOMAIN log' /\ log'[w[1]] \in StepResult
        /\ \A n \in DOMAIN log' : log'[n] \in StepResult => \E w \in ran' : w[1] = n
    BY <1>1, RecordGrows
  <2>2. index \in Nat
    BY LimitAssumption DEF IInv, TypedInv, TypeOK, FlowOK
  <2>. QED
    BY <1>1, <2>1, <2>2 DEF EffectsOnRecord
<1>2. CASE Abort
  <2>1. /\ log' = Append(log, "aborted") /\ ran' = ran
        /\ pc \in {"judge", "verify"}
        /\ (pc' = "top" /\ index' = index + 1) \/ pc' = "finished"
    BY <1>2 DEF Abort, Finish
  <2>2. "aborted" \in Fate /\ "aborted" \notin StepResult
    BY DEF Fate, StepResult
  <2>. QED
    BY <1>1, <2>1, <2>2
<1>3. CASE HandBackClaim
  <2>1. /\ log' = Append(log, "handed_back") /\ ran' = ran
        /\ pc \in {"judge", "verify"}
        /\ (pc' = "top" /\ index' = index + 1) \/ pc' = "finished"
    BY <1>3 DEF HandBackClaim, NextIndex
  <2>2. "handed_back" \in Fate /\ "handed_back" \notin StepResult
    BY DEF Fate, StepResult
  <2>. QED
    BY <1>1, <2>1, <2>2
<1>4. CASE SettleClaim
  <2>1. /\ log' = Append(log, "accepted") /\ ran' = ran
        /\ pc \in {"judge", "verify"}
        /\ (pc' = "top" /\ index' = index + 1) \/ pc' = "finished"
    BY <1>4 DEF SettleClaim, Finish
  <2>2. "accepted" \in Fate /\ "accepted" \notin StepResult
    BY DEF Fate, StepResult
  <2>. QED
    BY <1>1, <2>1, <2>2
<1>5. CASE BlockWork
  <2>1. /\ log' = Append(log, "blocked") /\ ran' = ran
        /\ pc \in {"judge", "verify"}
        /\ (pc' = "top" /\ index' = index + 1) \/ pc' = "finished"
    BY <1>5 DEF BlockWork, Finish, NextIndex
  <2>2. "blocked" \in Fate /\ "blocked" \notin StepResult
    BY DEF Fate, StepResult
  <2>. QED
    BY <1>1, <2>1, <2>2
<1>6. CASE DeclineWork
  <2>1. /\ log' = Append(log, "declined") /\ ran' = ran
        /\ pc \in {"judge", "verify"}
        /\ (pc' = "top" /\ index' = index + 1) \/ pc' = "finished"
    BY <1>6 DEF DeclineWork, NextIndex
  <2>2. "declined" \in Fate /\ "declined" \notin StepResult
    BY DEF Fate, StepResult
  <2>. QED
    BY <1>1, <2>1, <2>2
<1>7. CASE RehearseWork
  <2>1. /\ log' = Append(log, "dry") /\ ran' = ran
        /\ pc \in {"judge", "verify"}
        /\ (pc' = "top" /\ index' = index + 1) \/ pc' = "finished"
    BY <1>7 DEF RehearseWork, NextIndex, Permit
  <2>2. "dry" \in Fate /\ "dry" \notin StepResult
    BY DEF Fate, StepResult
  <2>. QED
    BY <1>1, <2>1, <2>2
<1>8. CASE SettleWork
  <2>1. /\ log' = Append(log, result) /\ ran' = ran
        /\ pc = "settle"
        /\ (pc' = "top" /\ index' = index + 1) \/ pc' = "finished"
    BY <1>8 DEF SettleWork, Finish, NextIndex
  <2>2. result \in Fate /\ result \in StepResult
    BY <2>1 DEF IInv, TypedInv, StepFits, Fate, StepResult
  <2>. QED
    BY <1>1, <2>1, <2>2
<1>9. CASE RunWork
  <2>1. /\ pc = "execute" /\ pc' = "settle"
        /\ ran' = ran \cup {ThisStep} /\ ThisStep' = ThisStep
        /\ UNCHANGED <<index, log, outcome>>
    BY <1>9 DEF RunWork, ThisStep
  <2>. QED
    BY <2>1 DEF EffectsOnRecord, ThisStep
<1>10. CASE LoseConnection
  <2>1. /\ pc = "execute" /\ pc' = "finished"
        /\ ran' \in {ran, ran \cup {ThisStep}}
        /\ UNCHANGED <<index, log>>
        /\ outcome'.reason = "ssh"
    BY <1>10 DEF LoseConnection, Finish
  <2>2. outcome.reason # "ssh"
    BY <2>1 DEF IInv, OutcomeWhenFinished, NoOutcome
  <2>. QED
    BY <2>1, <2>2 DEF EffectsOnRecord, ThisStep
<1>11. CASE /\ UNCHANGED <<index, log, ran>>
            /\ pc # "settle" /\ pc' # "settle" /\ pc # "finished"
            /\ pc' = "finished" \/ UNCHANGED outcome
  <2>1. outcome.reason # "ssh"
    BY <1>11 DEF IInv, OutcomeWhenFinished, NoOutcome
  <2>. QED
    BY <1>11, <2>1 DEF EffectsOnRecord
<1>12. CASE UNCHANGED vars
  BY <1>12 DEF vars, EffectsOnRecord, ThisStep
<1>. QED
  BY <1>2, <1>3, <1>4, <1>5, <1>6, <1>7, <1>8, <1>9, <1>10, <1>11, <1>12
     DEF Next, StopAtStepLimit, StopAtCostCap, BeginStep, GatewayFails, UnusableReply,
         UsableReply, StartChecks, SkipCheck, MakeCheck, PermitWork, Finished, Finish, Permit, counters, money

\* Nothing reaches a server without an entry in the record, and no entry claims a run
\* that was not: but for the step a lost connection ended the run on.
THEOREM OnRecord == Spec => []EffectsOnRecord
<1>1. Init => IInv /\ RecordFits /\ EffectsOnRecord
  BY InvAtStart DEF Init, RecordFits, EffectsOnRecord
<1>2. IInv /\ RecordFits /\ EffectsOnRecord /\ [Next]_vars
        => (IInv /\ RecordFits /\ EffectsOnRecord)'
  BY InvStep, RecordStep
<1>. QED
  BY <1>1, <1>2, PTL DEF Spec

-----------------------------------------------------------------------------
(***************************************************************************)
(* The record against the counters: what the loop counts as it goes is     *)
(* what its record shows.                                                  *)
(***************************************************************************)

\* The entries of a record that are of some kinds.
Those(s, kinds) == {n \in DOMAIN s : s[n] \in kinds}

\* Each counter is the count of the entries it stands for, and below its limit while
\* the loop runs. A step that is past the guard has cleared the blocked ones before
\* its entry is made.
CountsFit ==
  /\ executed = Cardinality(Executions)
  /\ doneRejections = Cardinality(HandedBack)
  /\ pc # "finished" =>
       /\ failures = Cardinality(FailedInARow)
       /\ failures < MaxFailures
       /\ Cardinality(BlockedInARow) < MaxRejections
       /\ rejections = IF pc \in {"execute", "settle"} THEN 0 ELSE Cardinality(BlockedInARow)

\* One more entry of a record is one more of its kind.
LEMMA ThoseGrow ==
  ASSUME NEW s \in Seq(Fate), NEW f \in Fate, NEW kinds
  PROVE  /\ Cardinality(Those(s, kinds)) \in Nat
         /\ Cardinality(Those(Append(s, f), kinds)) =
              IF f \in kinds THEN Cardinality(Those(s, kinds)) + 1
              ELSE Cardinality(Those(s, kinds))
<1>1. /\ Len(s) \in Nat /\ DOMAIN s = 1 .. Len(s)
      /\ DOMAIN Append(s, f) = 1 .. Len(s) + 1
      /\ Append(s, f)[Len(s) + 1] = f
      /\ \A n \in 1 .. Len(s) : Append(s, f)[n] = s[n]
  OBVIOUS
<1>2. IsFiniteSet(1 .. Len(s))
  BY <1>1, FS_Interval
<1>3. Those(s, kinds) \in SUBSET (1 .. Len(s))
  BY <1>1 DEF Those
<1>4. IsFiniteSet(Those(s, kinds))
  BY <1>2, <1>3, FS_Subset
<1>5. Len(s) + 1 \notin Those(s, kinds)
  BY <1>1, <1>3
<1>6. Those(Append(s, f), kinds) =
        IF f \in kinds THEN Those(s, kinds) \cup {Len(s) + 1} ELSE Those(s, kinds)
  BY <1>1 DEF Those
<1>7. Cardinality(Those(s, kinds)) \in Nat
  BY <1>4, FS_CardinalityType
<1>8. Cardinality(Those(s, kinds) \cup {Len(s) + 1}) = Cardinality(Those(s, kinds)) + 1
  BY <1>4, <1>5, FS_AddElement
<1>. QED
  BY <1>6, <1>7, <1>8

\* One more entry ends a row of its opposite, or lengthens a row of its own.
LEMMA LatestGrows ==
  ASSUME NEW s \in Seq(Fate), NEW f \in Fate, NEW g, NEW others, g \notin others
  PROVE  /\ Cardinality(Latest(s, g, others)) \in Nat
         /\ Cardinality(Latest(Append(s, f), g, others)) =
              IF f = g THEN Cardinality(Latest(s, g, others)) + 1
              ELSE IF f \in others THEN 0 ELSE Cardinality(Latest(s, g, others))
<1>1. /\ Len(s) \in Nat /\ DOMAIN s = 1 .. Len(s)
      /\ Len(Append(s, f)) = Len(s) + 1
      /\ DOMAIN Append(s, f) = 1 .. Len(s) + 1
      /\ Append(s, f)[Len(s) + 1] = f
      /\ \A n \in 1 .. Len(s) : Append(s, f)[n] = s[n]
  OBVIOUS
<1>2. IsFiniteSet(1 .. Len(s))
  BY <1>1, FS_Interval
<1>3. Latest(s, g, others) \in SUBSET (1 .. Len(s))
  BY <1>1 DEF Latest
<1>4. IsFiniteSet(Latest(s, g, others))
  BY <1>2, <1>3, FS_Subset
<1>5. Len(s) + 1 \notin Latest(s, g, others)
  BY <1>1, <1>3
<1>6. CASE f \in others
  <2>1. \A i \in DOMAIN Append(s, f) : Len(s) + 1 \in i .. Len(Append(s, f))
    BY <1>1
  <2>2. Latest(Append(s, f), g, others) = {}
    BY <1>1, <1>6, <2>1 DEF Latest
  <2>. QED
    BY <1>4, <1>6, <2>2, FS_EmptySet, FS_CardinalityType
<1>7. CASE f \notin others
  <2>1. \A i \in 1 .. Len(s) : i .. Len(s) + 1 = (i .. Len(s)) \cup {Len(s) + 1}
    BY <1>1
  <2>2. \A i \in 1 .. Len(s) : i \in Latest(Append(s, f), g, others)
                                 <=> i \in Latest(s, g, others)
    BY <1>1, <1>7, <2>1 DEF Latest
  <2>3. Len(s) + 1 \in Latest(Append(s, f), g, others) <=> f = g
    BY <1>1, <1>7 DEF Latest
  <2>4. Latest(Append(s, f), g, others) \subseteq 1 .. Len(s) + 1
    BY <1>1 DEF Latest
  <2>5. Latest(Append(s, f), g, others) =
          IF f = g THEN Latest(s, g, others) \cup {Len(s) + 1} ELSE Latest(s, g, others)
    <3>1. \A i : i \in 1 .. Len(s) + 1 <=> i \in 1 .. Len(s) \/ i = Len(s) + 1
      BY <1>1
    <3>2. \A i : i \in Latest(Append(s, f), g, others)
                  <=> i \in Latest(s, g, others) \/ (i = Len(s) + 1 /\ f = g)
      BY <3>1, <1>3, <1>5, <2>2, <2>3, <2>4, Zenon
    <3>. QED
      BY <3>2
  <2>6. Cardinality(Latest(s, g, others)) \in Nat
    BY <1>4, FS_CardinalityType
  <2>7. Cardinality(Latest(s, g, others) \cup {Len(s) + 1})
          = Cardinality(Latest(s, g, others)) + 1
    BY <1>4, <1>5, FS_AddElement
  <2>. QED
    BY <1>7, <2>5, <2>6, <2>7
<1>. QED
  BY <1>6, <1>7

\* What each count becomes when an entry is made.
LEMMA CountsGrow ==
  ASSUME TypedInv, NEW f \in Fate, log' = Append(log, f)
  PROVE  /\ Len(log') = Len(log) + 1
         /\ Cardinality(Executions') =
              IF f \in StepResult THEN Cardinality(Executions) + 1 ELSE Cardinality(Executions)
         /\ Cardinality(HandedBack') =
              IF f = "handed_back" THEN Cardinality(HandedBack) + 1 ELSE Cardinality(HandedBack)
         /\ Cardinality(BlockedInARow') =
              IF f = "blocked" THEN Cardinality(BlockedInARow) + 1
              ELSE IF f \in {"declined", "dry", "ok", "failed", "closed_pipe"} THEN 0
              ELSE Cardinality(BlockedInARow)
         /\ Cardinality(FailedInARow') =
              IF f = "failed" THEN Cardinality(FailedInARow) + 1
              ELSE IF f = "ok" THEN 0 ELSE Cardinality(FailedInARow)
<1>1. log \in Seq(Fate)
  BY DEF TypedInv, TypeOK
<1>2. /\ Executions = Those(log, StepResult)
      /\ Executions' = Those(log', StepResult)
      /\ HandedBack = Those(log, {"handed_back"})
      /\ HandedBack' = Those(log', {"handed_back"})
  BY DEF Executions, HandedBack, Those
<1>3. /\ BlockedInARow' = Latest(log', "blocked", {"declined", "dry", "ok", "failed", "closed_pipe"})
      /\ FailedInARow' = Latest(log', "failed", {"ok"})
  BY DEF BlockedInARow, FailedInARow, Latest
<1>4. Len(log') = Len(log) + 1
  BY <1>1
<1>5. /\ Cardinality(Executions') =
           IF f \in StepResult THEN Cardinality(Executions) + 1 ELSE Cardinality(Executions)
      /\ Cardinality(HandedBack') =
           IF f = "handed_back" THEN Cardinality(HandedBack) + 1 ELSE Cardinality(HandedBack)
  BY <1>1, <1>2, ThoseGrow
<1>6. Cardinality(BlockedInARow') =
        IF f = "blocked" THEN Cardinality(BlockedInARow) + 1
        ELSE IF f \in {"declined", "dry", "ok", "failed", "closed_pipe"} THEN 0
        ELSE Cardinality(BlockedInARow)
  BY <1>1, <1>3, LatestGrows DEF BlockedInARow
<1>7. Cardinality(FailedInARow') =
        IF f = "failed" THEN Cardinality(FailedInARow) + 1
        ELSE IF f = "ok" THEN 0 ELSE Cardinality(FailedInARow)
  BY <1>1, <1>3, LatestGrows DEF FailedInARow
<1>. QED
  BY <1>4, <1>5, <1>6, <1>7

\* What the record says of a run, with what it rests on.
CountInv == IInv /\ RecordFits /\ CountsFit /\ StepsAccounted /\ EndingIsEarned

\* A return that makes no entry and rests on no counter.
LEMMA ReturnUncounted ==
  ASSUME CountInv, pc # "finished", pc' = "finished",
         UNCHANGED <<opts, log, executed, doneRejections>>,
         NEW s, NEW r, NEW k,
         outcome' = [status |-> s, reason |-> r, steps |-> k, executed |-> executed],
         s # "unverified", r \notin {"blocked", "thrash"},
         k = IF r = "ssh" THEN index ELSE index - 1,
         r = "steps" => index = MaxSteps + 1,
         r = "cost" => CapReached /\ cost' = cost /\ index <= MaxSteps
  PROVE  CountsFit' /\ StepsAccounted' /\ EndingIsEarned'
<1>1. Len(log) = index - 1 /\ Len(log) \in Nat /\ index \in Nat
  BY LimitAssumption DEF CountInv, RecordFits, IInv, TypedInv, TypeOK, FlowOK
<1>2. /\ Executions' = Executions /\ HandedBack' = HandedBack
      /\ BlockedInARow' = BlockedInARow /\ FailedInARow' = FailedInARow
  BY DEF Executions, HandedBack, BlockedInARow, FailedInARow, Latest
<1>3. CountsFit'
  BY <1>2 DEF CountInv, CountsFit
<1>4. StepsAccounted'
  BY <1>1, <1>2 DEF CountInv, CountsFit, StepsAccounted
<1>5. /\ outcome'.reason = r /\ outcome'.status = s
      /\ r = "cost" => CapReached'
  BY DEF CapReached
<1>6. /\ ~ (Cardinality(BlockedInARow') >= MaxRejections)
      /\ ~ (Cardinality(FailedInARow') >= MaxFailures)
  <2>1. /\ Cardinality(BlockedInARow) < MaxRejections
        /\ Cardinality(FailedInARow) < MaxFailures
    BY DEF CountInv, CountsFit
  <2>2. Cardinality(BlockedInARow) \in Nat /\ Cardinality(FailedInARow) \in Nat
    BY LatestGrows DEF BlockedInARow, FailedInARow, CountInv, IInv, TypedInv, TypeOK, Fate
  <2>. QED
    BY <1>2, <2>1, <2>2, LimitAssumption
<1>7. EndingIsEarned'
  <2>1. Cardinality(HandedBack') <= MaxDoneRejections
    BY <1>2 DEF CountInv, EndingIsEarned
  <2>2. r = "steps" => Len(log') = MaxSteps
    BY <1>1, LimitAssumption
  <2>3. r = "cost" => CapReached' /\ Len(log') < MaxSteps
    <3>1. r = "cost" => Len(log') < MaxSteps
      BY <1>1, LimitAssumption
    <3>. QED
      BY <1>5, <3>1, Zenon
  <2>. QED
    BY <1>5, <1>6, <2>1, <2>2, <2>3, Zenon DEF EndingIsEarned
<1>. QED
  BY <1>3, <1>4, <1>7

\* An entry the loop goes on after.
LEMMA EntryGoesOn ==
  ASSUME CountInv, pc # "finished", pc' = "top", index' = index + 1,
         UNCHANGED outcome, NEW f \in Fate, log' = Append(log, f),
         executed' = IF f \in StepResult THEN executed + 1 ELSE executed,
         doneRejections' = IF f = "handed_back" THEN doneRejections + 1 ELSE doneRejections,
         doneRejections' <= MaxDoneRejections,
         failures' = IF f = "failed" THEN failures + 1 ELSE IF f = "ok" THEN 0 ELSE failures,
         failures' < MaxFailures,
         rejections' = IF f = "blocked" THEN rejections + 1
                       ELSE IF f \in {"declined", "dry", "ok", "failed", "closed_pipe"} THEN 0
                       ELSE rejections,
         rejections' < MaxRejections,
         pc \in {"execute", "settle"} => f \in StepResult
  PROVE  CountsFit' /\ StepsAccounted' /\ EndingIsEarned'
<1>1. /\ Cardinality(Executions') = executed'
      /\ Cardinality(HandedBack') = doneRejections'
      /\ Cardinality(BlockedInARow') = rejections'
      /\ Cardinality(FailedInARow') = failures'
  BY CountsGrow DEF CountInv, CountsFit, IInv, StepResult
<1>2. CountsFit'
  BY <1>1 DEF CountsFit
<1>3. outcome' = NoOutcome
  BY DEF CountInv, IInv, OutcomeWhenFinished
<1>4. /\ Len(log) = index - 1 /\ index \in Nat /\ Len(log') = Len(log) + 1
  BY CountsGrow, LimitAssumption DEF CountInv, RecordFits, IInv, TypedInv, TypeOK, FlowOK
<1>5. StepsAccounted'
  BY <1>3, <1>4 DEF StepsAccounted
<1>6. /\ rejections' \in Nat /\ failures' \in Nat
  BY DEF CountInv, IInv, TypedInv, TypeOK, CountersOK
<1>7. EndingIsEarned'
  BY <1>1, <1>3, <1>6, LimitAssumption DEF EndingIsEarned, NoOutcome
<1>. QED
  BY <1>2, <1>5, <1>7

\* An entry the loop returns after.
LEMMA EntryEnds ==
  ASSUME CountInv, pc # "finished", pc' = "finished", UNCHANGED <<opts, doneRejections>>,
         NEW f \in Fate, f # "handed_back", log' = Append(log, f),
         executed' = IF f \in StepResult THEN executed + 1 ELSE executed,
         NEW s, NEW r,
         outcome' = [status |-> s, reason |-> r, steps |-> index, executed |-> executed'],
         r \notin {"ssh", "steps", "cost"},
         s = "unverified" => doneRejections = MaxDoneRejections,
         (r = "blocked") <=> f = "blocked" /\ rejections + 1 >= MaxRejections,
         (r = "thrash") <=> f = "failed" /\ failures + 1 >= MaxFailures,
         f = "blocked" => pc = "judge"
  PROVE  CountsFit' /\ StepsAccounted' /\ EndingIsEarned'
<1>1. /\ Cardinality(Executions') = executed'
      /\ Cardinality(HandedBack') = doneRejections'
      /\ Cardinality(BlockedInARow') =
           IF f = "blocked" THEN Cardinality(BlockedInARow) + 1
           ELSE IF f \in {"declined", "dry", "ok", "failed", "closed_pipe"} THEN 0
           ELSE Cardinality(BlockedInARow)
      /\ Cardinality(FailedInARow') =
           IF f = "failed" THEN Cardinality(FailedInARow) + 1
           ELSE IF f = "ok" THEN 0 ELSE Cardinality(FailedInARow)
  BY CountsGrow DEF CountInv, CountsFit, IInv
<1>2. CountsFit'
  BY <1>1 DEF CountsFit
<1>3. /\ Len(log) = index - 1 /\ index \in Nat /\ Len(log') = Len(log) + 1
  BY CountsGrow, LimitAssumption DEF CountInv, RecordFits, IInv, TypedInv, TypeOK, FlowOK
<1>4. outcome'.reason = r /\ outcome'.status = s /\ outcome'.steps = index
      /\ outcome'.executed = executed'
  OBVIOUS
<1>5. StepsAccounted'
  BY <1>1, <1>3, <1>4 DEF StepsAccounted
<1>6. /\ Cardinality(BlockedInARow) \in Nat /\ Cardinality(BlockedInARow) < MaxRejections
      /\ Cardinality(FailedInARow) = failures /\ failures \in Nat /\ failures < MaxFailures
      /\ pc = "judge" => rejections = Cardinality(BlockedInARow)
  BY LatestGrows
     DEF CountInv, CountsFit, BlockedInARow, IInv, TypedInv, TypeOK, CountersOK, Fate
<1>7. /\ (r = "blocked") <=> Cardinality(BlockedInARow') >= MaxRejections
      /\ (r = "thrash") <=> Cardinality(FailedInARow') >= MaxFailures
  BY <1>1, <1>6, LimitAssumption
<1>8. doneRejections \in 0 .. MaxDoneRejections
  BY DEF CountInv, IInv, TypedInv, TypeOK, CountersOK
<1>9. EndingIsEarned'
  BY <1>1, <1>4, <1>7, <1>8, LimitAssumption DEF EndingIsEarned
<1>. QED
  BY <1>2, <1>5, <1>9

\* A step keeps the counters, the record and the outcome in agreement.
LEMMA CountStep ==
  ASSUME CountInv, [Next]_vars
  PROVE  CountsFit' /\ StepsAccounted' /\ EndingIsEarned'
<1>0. /\ MaxFailures \in Nat \ {0} /\ MaxRejections \in Nat \ {0}
      /\ MaxDoneRejections \in Nat /\ MaxSteps \in Nat \ {0}
      /\ index \in 1 .. MaxSteps + 1
      /\ failures \in Nat /\ rejections \in Nat /\ executed \in Nat
      /\ doneRejections \in 0 .. MaxDoneRejections
      /\ pc # "finished" => failures < MaxFailures
      /\ pc = "judge" => rejections < MaxRejections
      /\ pc \in {"execute", "settle"} => rejections = 0
      /\ pc = "verify" => rejections < MaxRejections
      /\ pc = "settle" => result \in StepResult
  BY LimitAssumption
     DEF CountInv, CountsFit, IInv, TypedInv, TypeOK, FlowOK, CountersOK, StepFits
<1>1. CASE StopAtStepLimit
  <2>1. /\ pc = "top" /\ pc' = "finished" /\ index = MaxSteps + 1
        /\ UNCHANGED <<opts, log, executed, doneRejections, cost>>
        /\ outcome' = [status |-> "exhausted", reason |-> "steps", steps |-> index - 1,
                       executed |-> executed]
    BY <1>0, <1>1 DEF StopAtStepLimit, Finish, counters, money
  <2>. QED
    BY <2>1, ReturnUncounted
<1>2. CASE StopAtCostCap
  <2>1. /\ pc = "top" /\ pc' = "finished" /\ index <= MaxSteps /\ CapReached
        /\ UNCHANGED <<opts, log, executed, doneRejections, cost>>
        /\ outcome' = [status |-> "exhausted", reason |-> "cost", steps |-> index - 1,
                       executed |-> executed]
    BY <1>2 DEF StopAtCostCap, Finish, counters, money
  <2>. QED
    BY <2>1, ReturnUncounted
<1>3. CASE GatewayFails
  <2>1. /\ pc = "ask" /\ pc' = "finished"
        /\ UNCHANGED <<opts, log, executed, doneRejections, cost>>
        /\ outcome' = [status |-> "api-error", reason |-> "gateway", steps |-> index - 1,
                       executed |-> executed]
    BY <1>3 DEF GatewayFails, Finish, counters, money
  <2>. QED
    BY <2>1, ReturnUncounted
<1>5. CASE LoseConnection
  <2>1. /\ pc = "execute" /\ pc' = "finished"
        /\ UNCHANGED <<opts, log, executed, doneRejections, cost>>
        /\ outcome' = [status |-> "failed", reason |-> "ssh", steps |-> index,
                       executed |-> executed]
    BY <1>5 DEF LoseConnection, Finish, counters, money
  <2>. QED
    BY <2>1, ReturnUncounted
<1>6. CASE Abort
  <2>1. /\ pc = "judge" /\ pc' = "finished" /\ UNCHANGED <<opts, doneRejections>>
        /\ log' = Append(log, "aborted") /\ executed' = executed
        /\ outcome' = [status |-> "aborted", reason |-> "abort", steps |-> index,
                       executed |-> executed]
    BY <1>6 DEF Abort, Finish, counters
  <2>. QED
    BY <2>1, EntryEnds DEF Fate, StepResult
<1>7. CASE HandBackClaim
  <2>1. /\ pc = "verify" /\ pc' = "top" /\ index' = index + 1 /\ UNCHANGED outcome
        /\ log' = Append(log, "handed_back") /\ executed' = executed
        /\ doneRejections' = doneRejections + 1 /\ doneRejections < MaxDoneRejections
        /\ failures' = failures /\ rejections' = rejections
    BY <1>7 DEF HandBackClaim, NextIndex, ClaimRefused
  <2>. QED
    BY <1>0, <2>1, EntryGoesOn DEF Fate, StepResult
<1>8. CASE SettleClaim
  <2>1. /\ pc = "verify" /\ pc' = "finished" /\ UNCHANGED <<opts, doneRejections>>
        /\ log' = Append(log, "accepted") /\ executed' = executed
    BY <1>8 DEF SettleClaim, Finish, counters
  <2>2. PICK s \in {"unverified", "done"} :
          /\ s = "unverified" => doneRejections = MaxDoneRejections
          /\ outcome' = [status |-> s, reason |-> "claim", steps |-> index,
                         executed |-> executed]
    BY <1>0, <1>8 DEF SettleClaim, Finish, ClaimRefused
  <2>. QED
    BY <2>1, <2>2, EntryEnds DEF Fate, StepResult
<1>9. CASE BlockWork
  <2>1. /\ pc = "judge" /\ log' = Append(log, "blocked") /\ executed' = executed
        /\ UNCHANGED <<opts, doneRejections, failures>>
        /\ rejections' = rejections + 1
    BY <1>9 DEF BlockWork
  <2>2. CASE rejections + 1 >= MaxRejections
    <3>1. /\ pc' = "finished"
          /\ outcome' = [status |-> "stuck", reason |-> "blocked", steps |-> index,
                         executed |-> executed]
      BY <1>9, <2>2 DEF BlockWork, Finish
    <3>. QED
      BY <2>1, <2>2, <3>1, EntryEnds DEF Fate, StepResult
  <2>3. CASE ~ (rejections + 1 >= MaxRejections)
    <3>1. pc' = "top" /\ index' = index + 1 /\ UNCHANGED outcome
      BY <1>9, <2>3 DEF BlockWork, NextIndex
    <3>. QED
      BY <1>0, <2>1, <2>3, <3>1, EntryGoesOn DEF Fate, StepResult
  <2>. QED
    BY <2>2, <2>3
<1>10. CASE DeclineWork
  <2>1. /\ pc = "judge" /\ pc' = "top" /\ index' = index + 1 /\ UNCHANGED outcome
        /\ log' = Append(log, "declined") /\ executed' = executed
        /\ doneRejections' = doneRejections /\ failures' = failures /\ rejections' = 0
    BY <1>10 DEF DeclineWork, NextIndex
  <2>. QED
    BY <1>0, <2>1, EntryGoesOn DEF Fate, StepResult
<1>11. CASE RehearseWork
  <2>1. /\ pc = "judge" /\ pc' = "top" /\ index' = index + 1 /\ UNCHANGED outcome
        /\ log' = Append(log, "dry") /\ executed' = executed
        /\ doneRejections' = doneRejections /\ failures' = failures /\ rejections' = 0
    BY <1>11 DEF RehearseWork, Permit, NextIndex
  <2>. QED
    BY <1>0, <2>1, EntryGoesOn DEF Fate, StepResult
<1>12. CASE SettleWork
  <2>1. /\ pc = "settle" /\ log' = Append(log, result) /\ executed' = executed + 1
        /\ UNCHANGED <<opts, doneRejections, rejections>>
        /\ failures' = IF result = "failed" THEN failures + 1
                       ELSE IF result = "ok" THEN 0 ELSE failures
    BY <1>12 DEF SettleWork, CountResult
  <2>2. result \in StepResult /\ result \in Fate /\ rejections' = 0
    BY <1>0, <2>1 DEF StepResult, Fate
  <2>3. CASE failures' >= MaxFailures
    <3>1. /\ pc' = "finished"
          /\ outcome' = [status |-> "failed", reason |-> "thrash", steps |-> index,
                         executed |-> executed']
      BY <1>12, <2>1, <2>3 DEF SettleWork, Finish
    <3>2. result = "failed" /\ failures + 1 >= MaxFailures
      BY <1>0, <2>1, <2>3
    <3>. QED
      BY <2>1, <2>2, <3>1, <3>2, EntryEnds
  <2>4. CASE ~ (failures' >= MaxFailures)
    <3>1. pc' = "top" /\ index' = index + 1 /\ UNCHANGED outcome
      BY <1>12, <2>4 DEF SettleWork, NextIndex
    <3>2. failures' < MaxFailures
      BY <1>0, <2>1, <2>4
    <3>3. /\ result \notin {"handed_back", "blocked"}
          /\ result \in {"declined", "dry", "ok", "failed", "closed_pipe"}
      BY <2>2 DEF StepResult
    <3>. QED
      BY <1>0, <2>1, <2>2, <3>1, <3>2, <3>3, EntryGoesOn
  <2>. QED
    BY <2>3, <2>4
<1>13. CASE /\ UNCHANGED <<log, opts, counters, index, outcome>>
            /\ pc # "finished" /\ pc' # "finished"
            /\ pc \in {"execute", "settle"} <=> pc' \in {"execute", "settle"}
  <2>1. /\ Executions' = Executions /\ HandedBack' = HandedBack
        /\ BlockedInARow' = BlockedInARow /\ FailedInARow' = FailedInARow
    BY <1>13 DEF Executions, HandedBack, BlockedInARow, FailedInARow, Latest
  <2>2. outcome = NoOutcome /\ outcome' = NoOutcome
    BY <1>13 DEF CountInv, IInv, OutcomeWhenFinished
  <2>3. CountsFit' /\ StepsAccounted'
    BY <1>13, <2>1, <2>2 DEF CountInv, CountsFit, StepsAccounted, counters
  <2>4. EndingIsEarned'
    BY <1>13, <2>1, <2>2 DEF CountInv, EndingIsEarned, NoOutcome
  <2>. QED
    BY <2>3, <2>4
<1>14. CASE PermitWork
  <2>1. /\ pc = "judge" /\ pc' = "execute" /\ rejections' = 0
        /\ UNCHANGED <<log, opts, failures, doneRejections, executed, index, outcome>>
    BY <1>14 DEF PermitWork, Permit
  <2>2. /\ Executions' = Executions /\ HandedBack' = HandedBack
        /\ BlockedInARow' = BlockedInARow /\ FailedInARow' = FailedInARow
    BY <2>1 DEF Executions, HandedBack, BlockedInARow, FailedInARow, Latest
  <2>3. outcome = NoOutcome /\ outcome' = NoOutcome
    BY <2>1 DEF CountInv, IInv, OutcomeWhenFinished
  <2>4. CountsFit' /\ StepsAccounted'
    BY <2>1, <2>2, <2>3 DEF CountInv, CountsFit, StepsAccounted
  <2>5. EndingIsEarned'
    BY <2>1, <2>2, <2>3 DEF CountInv, EndingIsEarned, NoOutcome
  <2>. QED
    BY <2>4, <2>5
<1>15. CASE UnusableReply
  <2>1. CASE attempt < MaxProtocolRetries
    BY <1>13, <1>15, <2>1 DEF UnusableReply
  <2>2. CASE ~ (attempt < MaxProtocolRetries)
    <3>1. /\ pc = "ask" /\ pc' = "finished"
          /\ UNCHANGED <<opts, log, executed, doneRejections>>
          /\ outcome' = [status |-> "failed", reason |-> "unusable", steps |-> index - 1,
                         executed |-> executed]
      BY <1>15, <2>2 DEF UnusableReply, Finish, counters
    <3>. QED
      BY <3>1, ReturnUncounted
  <2>. QED
    BY <2>1, <2>2
<1>16. CASE UNCHANGED vars
  BY <1>16
     DEF vars, counters, money, CountInv, CountsFit, StepsAccounted, EndingIsEarned, Executions,
         HandedBack, BlockedInARow, FailedInARow, Latest, CapReached
<1>17. CASE \/ BeginStep \/ StartChecks \/ RunWork
            \/ \E s \in Step : UsableReply(s)
            \/ \E p \in Hosts \X Commands : SkipCheck(p) \/ MakeCheck(p)
  BY <1>13, <1>17 DEF BeginStep, StartChecks, RunWork, UsableReply, SkipCheck, MakeCheck
<1>. QED
  BY <1>1, <1>2, <1>3, <1>5, <1>6, <1>7, <1>8, <1>9, <1>10, <1>11, <1>12, <1>14, <1>15,
     <1>16, <1>17 DEF Next, Finished

\* At the start nothing is counted.
LEMMA CountsAtStart == Init => CountInv
<1> SUFFICES ASSUME Init
             PROVE  CountInv
  OBVIOUS
<1>1. IInv /\ RecordFits
  BY InvAtStart DEF Init, RecordFits
<1>2. log = <<>> /\ outcome = NoOutcome /\ pc = "top"
      /\ executed = 0 /\ doneRejections = 0 /\ failures = 0 /\ rejections = 0
      /\ index = 1
  BY DEF Init
<1>3. /\ Executions = {} /\ HandedBack = {} /\ BlockedInARow = {} /\ FailedInARow = {}
  BY <1>2 DEF Executions, HandedBack, BlockedInARow, FailedInARow, Latest
<1>4. Cardinality({}) = 0
  BY FS_EmptySet
<1>5. CountsFit
  BY <1>2, <1>3, <1>4, LimitAssumption DEF CountsFit
<1>6. StepsAccounted
  BY <1>2 DEF StepsAccounted
<1>7. EndingIsEarned
  BY <1>2, <1>3, <1>4, LimitAssumption DEF EndingIsEarned, NoOutcome
<1>. QED
  BY <1>1, <1>5, <1>6, <1>7 DEF CountInv

\* The outcome counts the steps and the executions that the record holds, and a run
\* ends for the reason its record shows: for every fleet, guard, limit and setting.
THEOREM EndingsAgree == Spec => [](StepsAccounted /\ EndingIsEarned)
<1>1. CountInv /\ EffectsOnRecord /\ [Next]_vars => (CountInv /\ EffectsOnRecord)'
  BY InvStep, RecordStep, CountStep DEF CountInv
<1>2. Init => CountInv /\ EffectsOnRecord
  BY CountsAtStart DEF Init, EffectsOnRecord
<1>3. CountInv => StepsAccounted /\ EndingIsEarned
  BY DEF CountInv
<1>. QED
  BY <1>1, <1>2, <1>3, PTL DEF Spec

\* An entry that is no execution leaves a credential waiting where it waited.
LEMMA WaitGoesOn ==
  ASSUME TypedInv, NEW f \in Fate, f \notin StepResult, log' = Append(log, f),
         \/ f = "handed_back"
         \/ \E i \in HandedBack : \A j \in i .. Len(log) : log[j] \notin StepResult
  PROVE  \E i \in HandedBack' : \A j \in i .. Len(log') : log'[j] \notin StepResult
<1>1. /\ Len(log) \in Nat /\ DOMAIN log = 1 .. Len(log)
      /\ Len(log') = Len(log) + 1 /\ DOMAIN log' = 1 .. Len(log) + 1
      /\ log'[Len(log) + 1] = f
      /\ \A n \in 1 .. Len(log) : log'[n] = log[n]
  BY DEF TypedInv, TypeOK
<1>2. CASE f = "handed_back"
  <2>1. Len(log') \in HandedBack'
    BY <1>1, <1>2 DEF HandedBack
  <2>2. \A j \in Len(log') .. Len(log') : log'[j] \notin StepResult
    BY <1>1
  <2>. QED
    BY <2>1, <2>2
<1>3. CASE \E i \in HandedBack : \A j \in i .. Len(log) : log[j] \notin StepResult
  <2>1. PICK i \in HandedBack : \A j \in i .. Len(log) : log[j] \notin StepResult
    BY <1>3
  <2>2. i \in HandedBack' /\ i \in 1 .. Len(log)
    BY <1>1, <2>1 DEF HandedBack
  <2>3. \A j \in i .. Len(log') : log'[j] \notin StepResult
    BY <1>1, <2>1, <2>2
  <2>. QED
    BY <2>2, <2>3
<1>. QED
  BY <1>2, <1>3

\* A credential is left waiting by a check alone, and the next step that runs ends the
\* wait.
LEMMA WaitStep ==
  ASSUME TypedInv, CredentialWaitsForAStep, [Next]_vars
  PROVE  CredentialWaitsForAStep'
<1> DEFINE Waits == \E i \in HandedBack : \A j \in i .. Len(log) : log[j] \notin StepResult
<1>1. ASSUME NEW f \in Fate, f \notin StepResult, log' = Append(log, f),
             pc = "judge" \/ f = "handed_back", UNCHANGED <<opts, unsaved>>
      PROVE  CredentialWaitsForAStep'
  <2>1. CASE opts.keep /\ unsaved
    <3>1. f = "handed_back" \/ Waits
      BY <1>1, <2>1 DEF CredentialWaitsForAStep
    <3>. QED
      BY <1>1, <3>1, WaitGoesOn DEF CredentialWaitsForAStep
  <2>2. CASE ~ (opts.keep /\ unsaved)
    BY <1>1, <2>2 DEF CredentialWaitsForAStep
  <2>. QED
    BY <2>1, <2>2
<1>2. CASE HandBackClaim
  BY <1>1, <1>2 DEF HandBackClaim, Fate, StepResult
<1>3. CASE BlockWork
  BY <1>1, <1>3 DEF BlockWork, Fate, StepResult
<1>4. CASE DeclineWork
  BY <1>1, <1>4 DEF DeclineWork, Fate, StepResult
<1>5. CASE RehearseWork
  BY <1>1, <1>5 DEF RehearseWork, Permit, Fate, StepResult
<1>6. CASE SettleWork
  <2>1. opts' = opts /\ (unsaved' = (unsaved /\ ~ opts.keep))
    BY <1>6, Zenon DEF SettleWork
  <2>2. ~ (opts'.keep /\ unsaved')
    BY <2>1, Zenon
  <2>. QED
    BY <2>2, Zenon DEF CredentialWaitsForAStep
<1>7. CASE pc' \notin {"top", "ask", "judge"}
  BY <1>7 DEF CredentialWaitsForAStep
<1>8. CASE UNCHANGED <<opts, log, unsaved>> /\ pc \in {"top", "ask", "judge"}
  BY <1>8 DEF CredentialWaitsForAStep, HandedBack
<1>9. CASE UNCHANGED vars
  BY <1>9 DEF vars, CredentialWaitsForAStep, HandedBack
<1>. QED
  BY <1>2, <1>3, <1>4, <1>5, <1>6, <1>7, <1>8, <1>9
     DEF Next, StopAtStepLimit, StopAtCostCap, BeginStep, GatewayFails, UnusableReply,
         UsableReply, Abort, StartChecks, SkipCheck, MakeCheck, SettleClaim, PermitWork,
         RunWork, LoseConnection, Finished, Finish, Permit

\* A credential on no server yet waits for the next step that runs, and for no more.
THEOREM NoLongWait == Spec => []CredentialWaitsForAStep
<1>1. Init => CredentialWaitsForAStep
  BY DEF Init, CredentialWaitsForAStep
<1>2. TypedInv /\ CredentialWaitsForAStep /\ [Next]_vars => (TypedInv /\ CredentialWaitsForAStep)'
  BY TypedStep, WaitStep
<1>. QED
  BY TypedAtStart, <1>1, <1>2, PTL DEF Spec

\* The outcome counts what the record holds.
COROLLARY CountsAgree == Spec => []StepsAccounted
BY EndingsAgree, PTL

-----------------------------------------------------------------------------
(***************************************************************************)
(* Refinement.  A run's promise sees the work about to run, what ran, what *)
(* was approved, the evidence and the status; every step of the loop is a  *)
(* step of the promise or is not seen by it.                               *)
(***************************************************************************)

ThePermit == IF pc = "execute" THEN {ThisStep} ELSE {}

\* What the promise does not see.
Unseen ==
  UNCHANGED <<opts, granted, ran, results, outcome>> /\ ThePermit' = ThePermit

\* A return of the loop is an ending of the promise, with what was about to run settled
\* one way or the other.
LEMMA ReturnIsEnd ==
  ASSUME IInv, IInv', NEW s \in Status, outcome'.status = s, pc # "finished", pc' = "finished",
         UNCHANGED <<opts, granted, results>>,
         ran' \in {ran, ran \cup ThePermit},
         s = "done" => \A p \in DOMAIN results : results[p] \in {"passed", "skipped"}
  PROVE  Contract!Next
<1>1. outcome.status = "running"
  BY DEF IInv, OutcomeWhenFinished, NoOutcome
<1>2. ThePermit' = {}
  BY DEF ThePermit
<1>3. Contract!End(s)
  BY <1>1, <1>2 DEF Contract!End, ThePermit
<1>4. s \in Contract!Endings
  BY DEF Status, Contract!Endings
<1>. QED
  BY <1>3, <1>4 DEF Contract!Next

\* Every step of the loop is a step of the promise, or unseen by it.
LEMMA RefineStep ==
  ASSUME IInv, [Next]_vars
  PROVE  Contract!Next \/ Unseen
<1>0. IInv'
  BY InvStep
<1>1. CASE StopAtStepLimit
  <2>1. /\ outcome'.status = "exhausted" /\ pc # "finished" /\ pc' = "finished"
        /\ UNCHANGED <<opts, granted, results, ran>>
    BY <1>1 DEF StopAtStepLimit, Finish
  <2>. QED
    BY <1>0, <2>1, ReturnIsEnd DEF Status
<1>2. CASE StopAtCostCap
  <2>1. /\ outcome'.status = "exhausted" /\ pc # "finished" /\ pc' = "finished"
        /\ UNCHANGED <<opts, granted, results, ran>>
    BY <1>2 DEF StopAtCostCap, Finish
  <2>. QED
    BY <1>0, <2>1, ReturnIsEnd DEF Status
<1>3. CASE GatewayFails
  <2>1. /\ outcome'.status = "api-error" /\ pc # "finished" /\ pc' = "finished"
        /\ UNCHANGED <<opts, granted, results, ran>>
    BY <1>3 DEF GatewayFails, Finish
  <2>. QED
    BY <1>0, <2>1, ReturnIsEnd DEF Status
<1>4. CASE Abort
  <2>1. /\ outcome'.status = "aborted" /\ pc # "finished" /\ pc' = "finished"
        /\ UNCHANGED <<opts, granted, results, ran>>
    BY <1>4 DEF Abort, Finish
  <2>. QED
    BY <1>0, <2>1, ReturnIsEnd DEF Status
<1>5. CASE UnusableReply
  <2>1. /\ pc # "finished" /\ pc # "execute" /\ pc' # "execute"
        /\ UNCHANGED <<opts, granted, results, ran>>
        /\ \/ pc' = "finished" /\ outcome'.status = "failed"
           \/ UNCHANGED outcome
    BY <1>5 DEF UnusableReply, Finish
  <2>. QED
    BY <1>0, <2>1, ReturnIsEnd DEF Status, Unseen, ThePermit
<1>6. CASE LoseConnection
  <2>1. /\ outcome'.status = "failed" /\ pc # "finished" /\ pc' = "finished"
        /\ UNCHANGED <<opts, granted, results>>
        /\ ran' \in {ran, ran \cup ThePermit}
    BY <1>6 DEF LoseConnection, Finish, ThePermit
  <2>. QED
    BY <1>0, <2>1, ReturnIsEnd DEF Status
<1>7. CASE SettleClaim
  <2>1. /\ outcome'.status \in {"done", "unverified"} /\ pc = "verify" /\ pc' = "finished"
        /\ UNCHANGED <<opts, granted, results, ran>>
        /\ outcome'.status = "done" => ~Broken
    BY <1>7 DEF SettleClaim, Finish
  <2>2. ~Broken => \A p \in DOMAIN results : results[p] \in {"passed", "skipped"}
    BY <1>7 DEF SettleClaim, Broken, Pending, IInv, TypedInv, TypeOK, EvidenceOK,
                CheckOutcome, CheckResult
  <2>. QED
    BY <1>0, <2>1, <2>2, ReturnIsEnd DEF Status
<1>8. CASE BlockWork
  <2>1. /\ pc = "judge" /\ pc' \in {"top", "finished"}
        /\ UNCHANGED <<opts, granted, results, ran>>
        /\ \/ pc' = "finished" /\ outcome'.status = "stuck"
           \/ UNCHANGED outcome
    BY <1>8 DEF BlockWork, Finish, NextIndex
  <2>. QED
    BY <1>0, <2>1, ReturnIsEnd DEF Status, Unseen, ThePermit
<1>9. CASE SettleWork
  <2>1. /\ pc = "settle" /\ pc' \in {"top", "finished"}
        /\ UNCHANGED <<opts, granted, results, ran>>
        /\ \/ pc' = "finished" /\ outcome'.status = "failed"
           \/ UNCHANGED outcome
    BY <1>9 DEF SettleWork, Finish, NextIndex
  <2>. QED
    BY <1>0, <2>1, ReturnIsEnd DEF Status, Unseen, ThePermit
<1>10. CASE StartChecks
  <2>1. outcome.status = "running" /\ UNCHANGED <<opts, granted, ran, outcome>>
    BY <1>10 DEF StartChecks, IInv, OutcomeWhenFinished, NoOutcome
  <2>2. ThePermit' = {} /\ ThePermit = {}
    BY <1>10 DEF StartChecks, ThePermit
  <2>3. CASE opts.dry
    BY <1>10, <2>1, <2>2, <2>3 DEF StartChecks, Unseen
  <2>4. CASE ~opts.dry
    <3>1. results' = [p \in PlanOf(step.verify) |-> "pending"]
      BY <1>10, <2>4 DEF StartChecks
    <3>2. Hosts \X Standing \subseteq PlanOf(step.verify)
      BY FleetAssumption DEF PlanOf
    <3>3. Contract!StartChecks
      BY <2>1, <2>2, <2>4, <3>1, <3>2 DEF Contract!StartChecks, ThePermit
    <3>. QED
      BY <3>3 DEF Contract!Next
  <2>. QED
    BY <2>3, <2>4
<1>11. ASSUME NEW p \in Hosts \X Commands, SkipCheck(p) \/ MakeCheck(p)
       PROVE  Contract!Next
  <2>0. /\ pc = "verify" /\ p \in Pending
        /\ UNCHANGED <<opts, granted, ran, outcome>>
    BY <1>11, Zenon DEF SkipCheck, MakeCheck
  <2>1. /\ outcome.status = "running"
        /\ p \in DOMAIN results /\ results[p] = "pending"
    BY <2>0 DEF Pending, IInv, OutcomeWhenFinished, NoOutcome
  <2>2. ThePermit' = {} /\ ThePermit = {}
    BY <1>11 DEF SkipCheck, MakeCheck, ThePermit
  <2>3. \E o \in Contract!Outcomes(p[2]) : results' = [results EXCEPT ![p] = o]
    BY <1>11 DEF SkipCheck, MakeCheck, CheckResult, Contract!Outcomes
  <2>4. Contract!LookAt(p)
    BY <2>0, <2>1, <2>2, <2>3 DEF Contract!LookAt, ThePermit
  <2>. QED
    BY <2>4 DEF Contract!Next
<1>12. CASE RehearseWork
  <2>1. /\ outcome.status = "running" /\ opts.dry
        /\ Verdict[ThisStep[3]] # "block"
        /\ UNCHANGED <<opts, ran, results, outcome>>
    BY <1>12 DEF RehearseWork, Permit, NextIndex, IInv, OutcomeWhenFinished, NoOutcome, ThisStep
  <2>2. ThePermit' = {} /\ ThePermit = {}
    BY <1>12 DEF RehearseWork, Permit, NextIndex, ThePermit
  <2>3. ThisStep \in Contract!Numbered
    BY <1>12 DEF RehearseWork, Permit, ThisStep, Contract!Numbered, IInv, TypedInv, StepFits,
                 TypeOK, FlowOK, Step, WorkStep, DoneStep, AbortStep
  <2>4. CASE granted' = granted
    BY <2>1, <2>2, <2>4 DEF Unseen
  <2>5. CASE granted' = granted \cup {ThisStep}
    <3>1. Contract!Rehearse(ThisStep)
      BY <2>1, <2>2, <2>5 DEF Contract!Rehearse, Contract!Approve, ThePermit
    <3>. QED
      BY <2>3, <3>1 DEF Contract!Next
  <2>. QED
    BY <1>12, <2>4, <2>5 DEF RehearseWork, Permit
<1>13. CASE PermitWork
  <2>1. /\ outcome.status = "running" /\ ~opts.dry
        /\ Verdict[ThisStep[3]] # "block"
        /\ UNCHANGED <<opts, ran, results, outcome>>
    BY <1>13 DEF PermitWork, Permit, IInv, OutcomeWhenFinished, NoOutcome, ThisStep
  <2>2. ThePermit' = {ThisStep} /\ ThePermit = {}
    BY <1>13 DEF PermitWork, Permit, ThePermit, ThisStep
  <2>3. ThisStep \in Contract!Numbered
    BY <1>13 DEF PermitWork, Permit, ThisStep, Contract!Numbered, IInv, TypedInv, StepFits,
                 TypeOK, FlowOK, Step, WorkStep, DoneStep, AbortStep
  <2>4. \A e \in ran : e[1] < ThisStep[1]
    BY <1>13 DEF PermitWork, Permit, IInv, RanInOrder, ThisStep
  <2>5. \/ Verdict[ThisStep[3]] = "allow" /\ UNCHANGED granted
        \/ granted' = granted \cup {ThisStep}
    BY <1>13, FleetAssumption
       DEF PermitWork, Permit, NeedsApproval, ThisStep, IInv, TypedInv, TypeOK, FlowOK,
           StepFits, Step, WorkStep, DoneStep, AbortStep
  <2>6. Contract!Permit(ThisStep)
    BY <2>1, <2>2, <2>4, <2>5 DEF Contract!Permit, Contract!Approve, ThePermit
  <2>. QED
    BY <2>3, <2>6 DEF Contract!Next
<1>14. CASE RunWork
  <2>1. /\ outcome.status = "running"
        /\ UNCHANGED <<opts, granted, results, outcome>>
        /\ ran' = ran \cup {ThisStep}
    BY <1>14 DEF RunWork, IInv, OutcomeWhenFinished, NoOutcome
  <2>2. ThePermit' = {} /\ ThePermit = {ThisStep}
    BY <1>14 DEF RunWork, ThePermit
  <2>3. Contract!TakeEffect
    BY <2>1, <2>2 DEF Contract!TakeEffect, ThePermit
  <2>. QED
    BY <2>3 DEF Contract!Next
<1>15. CASE BeginStep \/ HandBackClaim \/ DeclineWork \/ (\E s \in Step : UsableReply(s))
  BY <1>15 DEF BeginStep, HandBackClaim, DeclineWork, UsableReply, NextIndex, Unseen, ThePermit
<1>16. CASE UNCHANGED vars
  BY <1>16 DEF vars, Unseen, ThePermit, ThisStep
<1>. QED
  BY <1>1, <1>2, <1>3, <1>4, <1>5, <1>6, <1>7, <1>8, <1>9, <1>10, <1>11, <1>12, <1>13,
     <1>14, <1>15, <1>16 DEF Next, Finished

\* The loop keeps what a run promises, for every fleet, guard, limit and setting.
THEOREM Refinement == Spec => KeepsContract
<1>1. Init => Contract!Init
  <2> SUFFICES ASSUME Init
               PROVE  Contract!Init
    OBVIOUS
  <2>1. opts.dry \in BOOLEAN
    BY LimitAssumption DEF Init, Option
  <2>. QED
    BY <2>1 DEF Init, Contract!Init, NoOutcome
<1>2. IInv /\ [Next]_vars => [Contract!Next]_(Contract!vars)
  BY RefineStep DEF Unseen, ThePermit, Contract!vars
<1>3. IInv /\ [Next]_vars => IInv'
  BY InvStep
<1>. QED
  BY InvAtStart, <1>1, <1>2, <1>3, PTL DEF Spec, KeepsContract, Contract!Spec
-----------------------------------------------------------------------------
(***************************************************************************)
(* The loop comes to an end: what no step may fail to do.                  *)
(***************************************************************************)

\* How far the step in hand has to go before the next one, or the end.
Rank ==
  CASE pc = "top"      -> 6
    [] pc = "ask"      -> 5
    [] pc = "judge"    -> 4
    [] pc = "execute"  -> 3
    [] pc = "settle"   -> 2
    [] pc = "verify"   -> 1
    [] pc = "finished" -> 0

\* What the loop may still repeat where it is: a question, or a check.
Remaining ==
  CASE pc = "ask"    -> MaxProtocolRetries - attempt
    [] pc = "verify" -> Cardinality(Pending)
    [] OTHER         -> 0

\* The next step is begun, or the step in hand gets on, or it has less to repeat.
Nearer ==
  \/ index' > index
  \/ index' = index /\ Rank' < Rank
  \/ index' = index /\ Rank' = Rank /\ Remaining' < Remaining

\* None of the three goes below zero or beyond the limit, so none goes on for ever.
Bounded ==
  /\ index \in 1 .. MaxSteps + 1
  /\ Rank \in 0 .. 6
  /\ Remaining \in Nat

FinInv == TypedInv /\ IsFiniteSet(DOMAIN results)

\* The checks of one claim are finitely many, whatever the commands there are.
LEMMA PlanIsFinite ==
  ASSUME NEW checks \in VerifySets
  PROVE  IsFiniteSet(PlanOf(checks))
<1> DEFINE Named == {k.command : k \in checks}
<1>1. IsFiniteSet(checks) /\ IsFiniteSet(Hosts) /\ IsFiniteSet(Standing)
  BY PlanAssumption
<1>2. IsFiniteSet(Named)
  <2> DEFINE commandOf == [k \in checks |-> k.command]
  <2>1. commandOf \in Surjection(checks, Named)
    BY DEF Surjection
  <2>. QED
    BY <1>1, <2>1, FS_Surjection
<1>3. IsFiniteSet(Standing \cup Named)
  BY <1>1, <1>2, FS_Union
<1>4. IsFiniteSet(Hosts \X (Standing \cup Named))
  BY <1>1, <1>3, FS_Product
<1>5. PlanOf(checks) \subseteq Hosts \X (Standing \cup Named)
  BY DEF PlanOf
<1>. QED
  BY <1>4, <1>5, FS_Subset

\* A check that came back is one less to make.
LEMMA OneCheckLess ==
  ASSUME IsFiniteSet(DOMAIN results), NEW p \in Pending, NEW r, r # "pending",
         results' = [results EXCEPT ![p] = r]
  PROVE  /\ Cardinality(Pending) \in Nat
         /\ Cardinality(Pending') \in Nat
         /\ Cardinality(Pending') < Cardinality(Pending)
<1>1. IsFiniteSet(Pending)
  BY FS_Subset DEF Pending
<1>2. Pending' = Pending \ {p}
  BY DEF Pending
<1>3. Cardinality(Pending \ {p}) = Cardinality(Pending) - 1 /\ IsFiniteSet(Pending \ {p})
  BY <1>1, FS_RemoveElement
<1>4. Cardinality(Pending) \in Nat /\ Cardinality(Pending \ {p}) \in Nat
  BY <1>1, <1>3, FS_CardinalityType
<1>. QED
  BY <1>2, <1>3, <1>4

LEMMA FinAtStart == Init => FinInv
<1> SUFFICES ASSUME Init PROVE FinInv
  OBVIOUS
<1>1. DOMAIN results = {}
  BY DEF Init
<1>. QED
  BY <1>1, TypedAtStart, FS_EmptySet DEF FinInv

\* Only a claim brings new checks, and those of one claim are finitely many.
LEMMA FinStep ==
  ASSUME FinInv, [Next]_vars
  PROVE  FinInv'
<1>1. TypedInv'
  BY TypedStep DEF FinInv
<1>2. CASE StartChecks /\ ~opts.dry
  <2>1. step \in DoneStep
    BY <1>2 DEF FinInv, TypedInv, StepFits, StartChecks, Step, WorkStep, AbortStep
  <2>2. step.verify \in VerifySets
    BY <2>1 DEF DoneStep
  <2>3. DOMAIN results' = PlanOf(step.verify)
    BY <1>2 DEF StartChecks
  <2>. QED
    BY <1>1, <2>2, <2>3, PlanIsFinite DEF FinInv
<1>3. CASE DOMAIN results' = DOMAIN results
  BY <1>1, <1>3 DEF FinInv
<1>4. DOMAIN results' = DOMAIN results \/ (StartChecks /\ ~opts.dry)
  <2>1. CASE StartChecks
    BY <2>1 DEF StartChecks
  <2>2. ASSUME NEW p \in Hosts \X Commands, SkipCheck(p) \/ MakeCheck(p)
         PROVE  DOMAIN results' = DOMAIN results
    BY <2>2 DEF SkipCheck, MakeCheck
  <2>3. CASE UNCHANGED results
    BY <2>3
  <2>. QED
    BY <2>1, <2>2, <2>3 DEF Next, Finished, vars, StopAtStepLimit, StopAtCostCap,
       BeginStep, GatewayFails, UnusableReply, UsableReply, Abort, HandBackClaim,
       SettleClaim, BlockWork, DeclineWork, RehearseWork, PermitWork, RunWork,
       LoseConnection, SettleWork, Permit
<1>. QED
  BY <1>2, <1>3, <1>4

\* The three measures of the distance have a lower bound, and the first an upper one.
LEMMA DistanceIsBounded ==
  ASSUME FinInv
  PROVE  Bounded
<1> USE LimitAssumption DEF FinInv, TypedInv, TypeOK, FlowOK
<1>1. index \in 1 .. MaxSteps + 1
  OBVIOUS
<1>2. Rank \in 0 .. 6
  BY DEF Rank
<1>3. Cardinality(Pending) \in Nat
  BY FS_Subset, FS_CardinalityType DEF Pending
<1>4. Remaining \in Nat
  BY <1>3 DEF Remaining
<1>. QED
  BY <1>1, <1>2, <1>4 DEF Bounded

\* No step of the loop leaves it where it was.
LEMMA NearerStep ==
  ASSUME FinInv, Next, vars' # vars
  PROVE  Nearer
<1> USE LimitAssumption DEF FinInv, TypedInv, TypeOK, FlowOK, Nearer
<1>1. CASE StopAtStepLimit
  BY <1>1 DEF StopAtStepLimit, Finish, Rank
<1>2. CASE StopAtCostCap
  BY <1>2 DEF StopAtCostCap, Finish, Rank
<1>3. CASE BeginStep
  BY <1>3 DEF BeginStep, Rank
<1>4. CASE GatewayFails
  BY <1>4 DEF GatewayFails, Finish, Rank
<1>5. CASE UnusableReply
  BY <1>5 DEF UnusableReply, Finish, Rank, Remaining
<1>6. ASSUME NEW s \in Step, UsableReply(s)
       PROVE  Nearer
  BY <1>6 DEF UsableReply, Rank
<1>7. CASE Abort
  BY <1>7 DEF Abort, Finish, Rank
<1>8. CASE StartChecks
  BY <1>8 DEF StartChecks, Rank
<1>9. ASSUME NEW p \in Hosts \X Commands, SkipCheck(p)
       PROVE  Nearer
  <2>1. Cardinality(Pending') < Cardinality(Pending)
    BY <1>9, OneCheckLess DEF SkipCheck
  <2>. QED
    BY <1>9, <2>1 DEF SkipCheck, Rank, Remaining
<1>10. ASSUME NEW p \in Hosts \X Commands, MakeCheck(p)
       PROVE  Nearer
  <2>1. PICK r \in CheckResult : results' = [results EXCEPT ![p] = r]
    BY <1>10 DEF MakeCheck
  <2>2. Cardinality(Pending') < Cardinality(Pending)
    BY <1>10, <2>1, OneCheckLess DEF MakeCheck, CheckResult
  <2>. QED
    BY <1>10, <2>2 DEF MakeCheck, Rank, Remaining
<1>11. CASE HandBackClaim
  BY <1>11 DEF HandBackClaim, NextIndex
<1>12. CASE SettleClaim
  BY <1>12 DEF SettleClaim, Finish, Rank
<1>13. CASE BlockWork
  BY <1>13 DEF BlockWork, Finish, NextIndex, Rank
<1>14. CASE DeclineWork
  BY <1>14 DEF DeclineWork, NextIndex
<1>15. CASE RehearseWork
  BY <1>15 DEF RehearseWork, NextIndex
<1>16. CASE PermitWork
  BY <1>16 DEF PermitWork, Permit, Rank
<1>17. CASE RunWork
  BY <1>17 DEF RunWork, Rank
<1>18. CASE LoseConnection
  BY <1>18 DEF LoseConnection, Finish, Rank
<1>19. CASE SettleWork
  BY <1>19 DEF SettleWork, Finish, NextIndex, Rank
<1>20. CASE Finished
  BY <1>20 DEF Finished
<1>. QED
  BY <1>1, <1>2, <1>3, <1>4, <1>5, <1>6, <1>7, <1>8, <1>9, <1>10, <1>11, <1>12,
     <1>13, <1>14, <1>15, <1>16, <1>17, <1>18, <1>19, <1>20 DEF Next

\* Every step that changes anything brings the run nearer its end, and the distance is
\* one that cannot shrink for ever: no reply, refused claim, failing check or blocked
\* command keeps DBAAgent.run going beyond its limits.  (The safety half of
\* Termination; that the next step is taken at all is fairness, and TLC's.)
THEOREM EverNearer == Spec => []Bounded /\ [][Nearer]_vars
<1>1. FinInv /\ [Next]_vars => FinInv'
  BY FinStep
<1>2. FinInv => Bounded
  BY DistanceIsBounded
<1>3. FinInv /\ [Next]_vars => [Nearer]_vars
  BY NearerStep
<1>. QED
  BY FinAtStart, <1>1, <1>2, <1>3, PTL DEF Spec
=============================================================================
