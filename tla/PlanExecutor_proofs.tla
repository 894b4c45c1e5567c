------------------------ MODULE PlanExecutor_proofs ------------------------
(***************************************************************************)
(* Proofs about executePlan for any plan, budget, number of attempts and    *)
(* set of error classes, and about the lock file that executePlan calls     *)
(* contend for.  The inductive invariant of the first has four parts: the   *)
(* types, the progress of the plan, what was charged for what was done     *)
(* (Ledger), and how much of the budget is left where (Budget).            *)
(***************************************************************************)
EXTENDS PlanExecutor, TargetLock, TLAPS

(* Steps are approved, run, settled and rolled back in the order of the    *)
(* plan, one at a time.                                                    *)
Progress ==
  /\ ran \subseteq approved
  /\ pc \in {"run", "heal", "verify", "breaker", "finish"} => i \in approved
  /\ pc \in {"lock", "step", "approve", "run"} => i \notin ran
  /\ pc \in {"heal", "verify", "breaker", "finish"} => i \in ran
  /\ \A s \in ran : s <= i
  /\ \A s \in Step : s < i => result[s] \in {"skipped", "success"}
  /\ \A s \in Step : s >= i => result[s] \in {"none", "failed"}
  /\ pc # "done" => rolledBack = {}
  /\ pc = "rollback" => reason \in HaltReason

Due(points) == IF healing THEN points ELSE 2 * points

(* ExposurePaid, and while reverted changes are re-executed (todo > 0) the  *)
(* step itself is already paid for.                                        *)
Ledger ==
  /\ pc \in {"heal", "verify"} => healing
  /\ pc = "breaker" => ~healing
  /\ todo > 0 => healing /\ pc \in {"heal", "verify", "done"}
  /\ exposure <= Due(IF pc = "finish" THEN used + Cost ELSE used)
                 + (IF i \in ran /\ pc # "finish" /\ todo = 0 THEN Cost ELSE 0)

(* How far the points spent may be beyond the budget, at each place. *)
Budget ==
  /\ pc \in {"approve", "run"} => used + Cost <= MaxPoints
  /\ pc \in {"heal", "verify"} /\ todo = 0 => used <= MaxPoints
  /\ pc = "breaker" => used + Cost <= MaxPoints
  /\ pc = "finish" => used + (IF healing THEN 0 ELSE Cost) <= MaxPoints
  /\ pc \in {"lock", "step", "heal", "verify"} =>
       used <= MaxPoints + (IF healing THEN MaxCost ELSE 0)
  /\ BlastRadius

IInv == TypeOK /\ Progress /\ Ledger /\ Budget

-----------------------------------------------------------------------------
(* Lemmas on the operators of the model. *)

(* A command costs at most MaxCost points. *)
LEMMA CostRange == \A r \in Risk : CostFor(r) \in 0..MaxCost
  BY DEF Risk, CostFor, MaxCost

LEMMA StepCost == TypeOK /\ pc \notin {"lock", "step", "done"} => Cost \in 0..MaxCost
  BY CostRange, StepsAssumption DEF TypeOK, Step, Cost

(* The bonus is a number of attempts. *)
LEMMA BonusNat == Bonus \in Nat
  BY AttemptsAssumption DEF Bonus

(* The capped number of attempts is at most their maximum. *)
LEMMA SmallerBound == \A a, b \in Nat : Smaller(a, b) \in 0..b
  BY DEF Smaller

LEMMA InitIInv == Init => IInv
<1> SUFFICES ASSUME Init PROVE IInv
  OBVIOUS
<1>1. TypeOK
  <2>1. i \in 0..NumSteps /\ startFrom \in Nat
    BY StepsAssumption DEF Init, Step
  <2>2. result \in [Step -> {"none", "skipped", "success", "failed"}]
    BY DEF Init
  <2>3. reason \in Reason /\ pc \in Location
    BY DEF Init, Reason, Location
  <2>4. used \in Nat /\ left \in Nat /\ mods \in Nat /\ todo \in 0..mods /\ exposure \in Nat
    BY DEF Init
  <2> QED BY <2>1, <2>2, <2>3, <2>4 DEF Init, TypeOK
<1>2. Progress
  BY DEF Init, Progress, Step
<1>3. Ledger /\ Budget
  BY MaxPointsAssumption DEF Init, Ledger, Budget, BlastRadius, Due, MaxCost
<1> QED BY <1>1, <1>2, <1>3 DEF IInv

(* Every action keeps the types. *)
LEMMA TypeStep == TypeOK /\ [Next]_vars => TypeOK'
<1> SUFFICES ASSUME TypeOK, [Next]_vars PROVE TypeOK'
  OBVIOUS
<1> USE StepsAssumption, AttemptsAssumption, RetriesAssumption, CostRange
        DEF plan, loop, tracking, history, TypeOK, Step, Location, Reason,
            RejectReason, HaltReason, Cost, MaxCost
<1>1. CASE Acquire
  BY <1>1 DEF Acquire
<1>2. CASE LockRefused
  BY <1>2 DEF LockRefused, Return
<1>3. CASE SkipStep
  BY <1>3 DEF SkipStep, Skipped
<1>4. CASE StepUnaffordable
  BY <1>4 DEF StepUnaffordable, Halt, Skipped
<1>5. CASE PrepareStep
  BY <1>5 DEF PrepareStep, Return, Skipped
<1>6. CASE Approve
  BY <1>6 DEF Approve
<1>7. CASE Deny
  BY <1>7 DEF Deny, Return
<1>8. CASE Complete
  BY <1>8 DEF Complete, Return
<1>9. CASE RunSucceeds
  BY <1>9 DEF RunSucceeds, RunApproved
<1>10. CASE RunFails
  BY <1>10 DEF RunFails, RunApproved
<1>11. CASE RetrySucceeds
  BY <1>11 DEF RetrySucceeds, RunApproved
<1>12. CASE RetryFails
  BY <1>12 DEF RetryFails, RunApproved, Halt, RetryCost
<1>13. CASE RetriesExhausted
  BY <1>13 DEF RetriesExhausted, Halt
<1>14. CASE HealUnaffordable
  BY <1>14 DEF HealUnaffordable, HealGivesUp, NextReexecution, Settle, Halt
<1>15. CASE HealExhausted
  BY <1>15 DEF HealExhausted, HealGivesUp, NextReexecution, Settle, Halt
<1>16. CASE CorrectionThrows
  BY <1>16 DEF CorrectionThrows, Return
<1>17. CASE CorrectionBlocked
  BY <1>17 DEF CorrectionBlocked
<1>18. CASE CorrectionSucceeds
  <2>1. /\ used' \in Nat /\ exposure' \in Nat
        /\ UNCHANGED <<plan, approved, ran, rolledBack, reason>>
        /\ pc = "heal" /\ left > 0
    BY <1>18 DEF CorrectionSucceeds, RunCorrection
  <2>2. CASE risk[i] # "read"
    BY <1>18, <2>1, <2>2 DEF CorrectionSucceeds
  <2>3. CASE risk[i] = "read" /\ todo = 0
    BY <1>18, <2>1, <2>3 DEF CorrectionSucceeds, HealSucceeds
  <2>4. CASE risk[i] = "read" /\ todo > 0
    <3>1. NextReexecution
      BY <1>18, <2>4 DEF CorrectionSucceeds, HealSucceeds
    <3> QED BY <2>1, <2>4, <3>1 DEF NextReexecution, Settle
  <2> QED BY <2>2, <2>3, <2>4
<1>19. CASE CorrectionFails
  <2>1. left - 1 + Bonus \in Nat
    BY <1>19, BonusNat DEF CorrectionFails, RunCorrection
  <2>2. Smaller(left - 1 + Bonus, MaxAttempts) \in 0..MaxAttempts
    BY <2>1, AttemptsAssumption, SmallerBound
  <2> QED BY <1>19, <2>2 DEF CorrectionFails, RunCorrection
<1>20. CASE EffectVerified
  BY <1>20 DEF EffectVerified, HealSucceeds, NextReexecution, Settle
<1>21. CASE EffectUnverified
  BY <1>21 DEF EffectUnverified
<1>22. CASE FinishStep
  BY <1>22 DEF FinishStep, Settle
<1>23. CASE RollBack
  BY <1>23 DEF RollBack
<1>24. CASE Finished
  BY <1>24 DEF Finished, vars
<1>25. CASE UNCHANGED vars
  BY <1>25 DEF vars
<1> QED
  BY <1>1, <1>2, <1>3, <1>4, <1>5, <1>6, <1>7, <1>8, <1>9, <1>10,
     <1>11, <1>12, <1>13, <1>14, <1>15, <1>16, <1>17, <1>18, <1>19,
     <1>20, <1>21, <1>22, <1>23, <1>24, <1>25 DEF Next

(* Every action keeps the plan in order. *)
LEMMA ProgressStep == TypeOK /\ Progress /\ [Next]_vars => Progress'
<1> SUFFICES ASSUME TypeOK /\ Progress, [Next]_vars PROVE Progress'
  OBVIOUS
<1> USE StepsAssumption
        DEF plan, loop, tracking, history, TypeOK, Progress, Step
<1>1. CASE Acquire
  BY <1>1 DEF Acquire
<1>2. CASE LockRefused
  BY <1>2 DEF LockRefused, Return
<1>3. CASE SkipStep
  BY <1>3 DEF SkipStep, Skipped
<1>4. CASE StepUnaffordable
  BY <1>4 DEF StepUnaffordable, Halt, HaltReason, Skipped
<1>5. CASE PrepareStep
  BY <1>5 DEF PrepareStep, Return, Skipped
<1>6. CASE Approve
  BY <1>6 DEF Approve
<1>7. CASE Deny
  BY <1>7 DEF Deny, Return
<1>8. CASE Complete
  BY <1>8 DEF Complete, Return
<1>9. CASE RunSucceeds
  BY <1>9 DEF RunSucceeds, RunApproved
<1>10. CASE RunFails
  BY <1>10 DEF RunFails, RunApproved
<1>11. CASE RetrySucceeds
  BY <1>11 DEF RetrySucceeds, RunApproved
<1>12. CASE RetryFails
  <2>1. CASE pc' = "rollback"
    BY <1>12, <2>1 DEF RetryFails, RunApproved, Halt, HaltReason
  <2>2. CASE pc' = pc /\ result' = result
    BY <1>12, <2>2 DEF RetryFails, RunApproved
  <2> QED BY <1>12, <2>1, <2>2 DEF RetryFails, Halt
<1>13. CASE RetriesExhausted
  BY <1>13 DEF RetriesExhausted, Halt, HaltReason
<1>14. CASE HealUnaffordable
  BY <1>14 DEF HealUnaffordable, HealGivesUp, NextReexecution, Settle, Halt,
         HaltReason
<1>15. CASE HealExhausted
  BY <1>15 DEF HealExhausted, HealGivesUp, NextReexecution, Settle, Halt,
         HaltReason
<1>16. CASE CorrectionThrows
  BY <1>16 DEF CorrectionThrows, Return
<1>17. CASE CorrectionBlocked
  BY <1>17 DEF CorrectionBlocked
<1>18. CASE CorrectionSucceeds
  <2>1. CASE risk[i] # "read"
    BY <1>18, <2>1 DEF CorrectionSucceeds, RunCorrection
  <2>2. CASE risk[i] = "read" /\ todo = 0
    BY <1>18, <2>2 DEF CorrectionSucceeds, RunCorrection, HealSucceeds
  <2>3. CASE risk[i] = "read" /\ todo > 0
    <3>1. RunCorrection /\ NextReexecution
      BY <1>18, <2>3 DEF CorrectionSucceeds, HealSucceeds
    <3>2. CASE todo > 1
      BY <3>1, <3>2 DEF RunCorrection, NextReexecution
    <3>3. CASE todo = 1
      BY <3>1, <3>3 DEF RunCorrection, NextReexecution, Settle
    <3> QED BY <2>3, <3>2, <3>3
  <2> QED BY <2>1, <2>2, <2>3
<1>19. CASE CorrectionFails
  BY <1>19 DEF CorrectionFails, RunCorrection
<1>20. CASE EffectVerified
  BY <1>20 DEF EffectVerified, HealSucceeds, NextReexecution, Settle
<1>21. CASE EffectUnverified
  BY <1>21 DEF EffectUnverified
<1>22. CASE FinishStep
  BY <1>22 DEF FinishStep, Settle
<1>23. CASE RollBack
  BY <1>23 DEF RollBack
<1>24. CASE Finished
  BY <1>24 DEF Finished, vars
<1>25. CASE UNCHANGED vars
  BY <1>25 DEF vars
<1> QED
  BY <1>1, <1>2, <1>3, <1>4, <1>5, <1>6, <1>7, <1>8, <1>9, <1>10,
     <1>11, <1>12, <1>13, <1>14, <1>15, <1>16, <1>17, <1>18, <1>19,
     <1>20, <1>21, <1>22, <1>23, <1>24, <1>25 DEF Next

(* A failed retry: paid twice, and afforded once more if it is retried. *)
LEMMA RetryPays == ASSUME IInv, RetryFails PROVE Ledger' /\ Budget'
<1>1. /\ pc = "breaker" /\ ~healing /\ i \in ran /\ todo = 0
      /\ UNCHANGED <<healing, risk, i, todo>>
      /\ used' = used + 2 * Cost /\ exposure' = exposure + Cost
  BY DEF IInv, TypeOK, Progress, Ledger, RetryFails, RunApproved, RetryCost, Cost,
         plan, tracking
<1>2. Cost \in 0..2 /\ Cost' = Cost /\ used \in Nat /\ exposure \in Nat
  BY <1>1, StepCost DEF IInv, TypeOK, Cost, MaxCost
<1>3. used + Cost <= MaxPoints /\ exposure <= 2 * used + Cost
  BY <1>1 DEF IInv, Budget, Ledger, Due
<1>4. BlastRadius'
  BY <1>1, <1>2, <1>3, MaxPointsAssumption DEF BlastRadius
<1>5. Ledger'
  <2>1. pc' \in {"breaker", "rollback"} /\ ~healing' /\ todo' = 0 /\ i' \in ran'
    BY <1>1 DEF RetryFails, Halt, RunApproved
  <2> QED BY <1>1, <1>2, <1>3, <2>1 DEF Ledger, Due
<1>6. CASE pc' = "rollback"
  BY <1>4, <1>5, <1>6 DEF Budget
<1>7. CASE pc' = "breaker" /\ used' + 2 * Cost <= MaxPoints
  BY <1>1, <1>2, <1>4, <1>5, <1>7, MaxPointsAssumption DEF Budget
<1>8. pc' = "rollback" \/ (pc' = "breaker" /\ used' + 2 * Cost <= MaxPoints)
  BY <1>1 DEF RetryFails, Halt, CanAfford, RetryCost, Cost
<1> QED BY <1>5, <1>6, <1>7, <1>8

(* A correction is only run within the budget; wherever it leads, the       *)
(* points spent are within it.                                             *)
LEMMA CorrectionBudget ==
  ASSUME IInv, CorrectionSucceeds \/ CorrectionFails
  PROVE  Budget'
<1>1. RunCorrection
  BY DEF CorrectionSucceeds, CorrectionFails
<1>2. /\ pc = "heal" /\ healing /\ healing'
      /\ used' = used + Cost /\ exposure' = exposure + Cost
      /\ used + Cost <= MaxPoints
  BY <1>1 DEF IInv, Ledger, RunCorrection, CanAfford, plan
<1>3. Cost \in 0..2 /\ used \in Nat /\ exposure \in Nat
  BY <1>2, StepCost DEF IInv, TypeOK, MaxCost
<1>4. exposure <= used + Cost
  BY <1>2, <1>3 DEF IInv, Ledger, Due
<1>5. BlastRadius'
  BY <1>2, <1>3, <1>4, MaxPointsAssumption DEF BlastRadius, MaxCost
<1>6. pc' \in {"heal", "verify", "finish", "step"}
  BY <1>2 DEF CorrectionSucceeds, CorrectionFails, HealSucceeds, NextReexecution, Settle
<1> QED BY <1>2, <1>3, <1>5, <1>6, MaxPointsAssumption DEF Budget, MaxCost

(* Every action keeps what is done within what is charged. *)
LEMMA LedgerStep == IInv /\ [Next]_vars => Ledger'
<1> SUFFICES ASSUME IInv, [Next]_vars PROVE Ledger'
  OBVIOUS
<1> USE CostRange, StepsAssumption
        DEF plan, loop, tracking, history, IInv, TypeOK, Progress, Ledger,
            Due, Cost, MaxCost, Step
<1>1. CASE Acquire
  BY <1>1 DEF Acquire
<1>2. CASE LockRefused
  BY <1>2 DEF LockRefused, Return
<1>3. CASE SkipStep
  BY <1>3 DEF SkipStep, Skipped
<1>4. CASE StepUnaffordable
  BY <1>4 DEF StepUnaffordable, Halt, HaltReason, Skipped
<1>5. CASE PrepareStep
  BY <1>5 DEF PrepareStep, Return, Skipped
<1>6. CASE Approve
  BY <1>6 DEF Approve
<1>7. CASE Deny
  BY <1>7 DEF Deny, Return
<1>8. CASE Complete
  BY <1>8 DEF Complete, Return
<1>9. CASE RunSucceeds
  BY <1>9 DEF RunSucceeds, RunApproved
<1>10. CASE RunFails
  BY <1>10 DEF RunFails, RunApproved
<1>11. CASE RetrySucceeds
  BY <1>11 DEF RetrySucceeds, RunApproved
<1>12. CASE RetryFails
  BY <1>12, RetryPays
<1>13. CASE RetriesExhausted
  BY <1>13 DEF RetriesExhausted, Halt, HaltReason
<1>14. CASE HealUnaffordable
  BY <1>14 DEF HealUnaffordable, HealGivesUp, NextReexecution, Settle, Halt,
         HaltReason
<1>15. CASE HealExhausted
  BY <1>15 DEF HealExhausted, HealGivesUp, NextReexecution, Settle, Halt,
         HaltReason
<1>16. CASE CorrectionThrows
  BY <1>16 DEF CorrectionThrows, Return
<1>17. CASE CorrectionBlocked
  BY <1>17 DEF CorrectionBlocked
<1>18. CASE CorrectionSucceeds
  <2>1. CASE risk[i] # "read"
    BY <1>18, <2>1 DEF CorrectionSucceeds, RunCorrection
  <2>2. CASE risk[i] = "read" /\ todo = 0
    BY <1>18, <2>2 DEF CorrectionSucceeds, RunCorrection, HealSucceeds
  <2>3. CASE risk[i] = "read" /\ todo > 0
    <3>1. RunCorrection /\ NextReexecution
      BY <1>18, <2>3 DEF CorrectionSucceeds, HealSucceeds
    <3>2. CASE todo > 1
      BY <3>1, <3>2 DEF RunCorrection, NextReexecution
    <3>3. CASE todo = 1
      BY <3>1, <3>3 DEF RunCorrection, NextReexecution, Settle
    <3> QED BY <2>3, <3>2, <3>3
  <2> QED BY <2>1, <2>2, <2>3
<1>19. CASE CorrectionFails
  BY <1>19 DEF CorrectionFails, RunCorrection
<1>20. CASE EffectVerified
  BY <1>20 DEF EffectVerified, HealSucceeds, NextReexecution, Settle
<1>21. CASE EffectUnverified
  BY <1>21 DEF EffectUnverified
<1>22. CASE FinishStep
  BY <1>22 DEF FinishStep, Settle
<1>23. CASE RollBack
  BY <1>23 DEF RollBack
<1>24. CASE Finished
  BY <1>24 DEF Finished, vars
<1>25. CASE UNCHANGED vars
  BY <1>25 DEF vars
<1> QED
  BY <1>1, <1>2, <1>3, <1>4, <1>5, <1>6, <1>7, <1>8, <1>9, <1>10,
     <1>11, <1>12, <1>13, <1>14, <1>15, <1>16, <1>17, <1>18, <1>19,
     <1>20, <1>21, <1>22, <1>23, <1>24, <1>25 DEF Next

(* Every action keeps the budget. *)
LEMMA BudgetStep == IInv /\ [Next]_vars => Budget'
<1> SUFFICES ASSUME IInv, [Next]_vars PROVE Budget'
  OBVIOUS
<1> USE CostRange, StepsAssumption, MaxPointsAssumption
        DEF plan, loop, tracking, history, IInv, TypeOK, Progress, Ledger,
            Budget, BlastRadius, Due, Cost, MaxCost, CanAfford, Step
<1>1. CASE Acquire
  BY <1>1 DEF Acquire
<1>2. CASE LockRefused
  BY <1>2 DEF LockRefused, Return
<1>3. CASE SkipStep
  BY <1>3 DEF SkipStep, Skipped
<1>4. CASE StepUnaffordable
  BY <1>4 DEF StepUnaffordable, Halt, HaltReason, Skipped
<1>5. CASE PrepareStep
  BY <1>5 DEF PrepareStep, Return, Skipped
<1>6. CASE Approve
  BY <1>6 DEF Approve
<1>7. CASE Deny
  BY <1>7 DEF Deny, Return
<1>8. CASE Complete
  BY <1>8 DEF Complete, Return
<1>9. CASE RunSucceeds
  BY <1>9 DEF RunSucceeds, RunApproved
<1>10. CASE RunFails
  BY <1>10 DEF RunFails, RunApproved
<1>11. CASE RetrySucceeds
  BY <1>11 DEF RetrySucceeds, RunApproved
<1>12. CASE RetryFails
  BY <1>12, RetryPays
<1>13. CASE RetriesExhausted
  BY <1>13 DEF RetriesExhausted, Halt, HaltReason
<1>14. CASE HealUnaffordable
  BY <1>14 DEF HealUnaffordable, HealGivesUp, NextReexecution, Settle, Halt,
         HaltReason
<1>15. CASE HealExhausted
  BY <1>15 DEF HealExhausted, HealGivesUp, NextReexecution, Settle, Halt,
         HaltReason
<1>16. CASE CorrectionThrows
  BY <1>16 DEF CorrectionThrows, Return
<1>17. CASE CorrectionBlocked
  BY <1>17 DEF CorrectionBlocked
<1>18. CASE CorrectionSucceeds
  BY <1>18, CorrectionBudget
<1>19. CASE CorrectionFails
  BY <1>19, CorrectionBudget
<1>20. CASE EffectVerified
  BY <1>20 DEF EffectVerified, HealSucceeds, NextReexecution, Settle
<1>21. CASE EffectUnverified
  BY <1>21 DEF EffectUnverified
<1>22. CASE FinishStep
  BY <1>22 DEF FinishStep, Settle
<1>23. CASE RollBack
  BY <1>23 DEF RollBack
<1>24. CASE Finished
  BY <1>24 DEF Finished, vars
<1>25. CASE UNCHANGED vars
  BY <1>25 DEF vars
<1> QED
  BY <1>1, <1>2, <1>3, <1>4, <1>5, <1>6, <1>7, <1>8, <1>9, <1>10,
     <1>11, <1>12, <1>13, <1>14, <1>15, <1>16, <1>17, <1>18, <1>19,
     <1>20, <1>21, <1>22, <1>23, <1>24, <1>25 DEF Next

-----------------------------------------------------------------------------
LEMMA NextIInv == IInv /\ [Next]_vars => IInv'
  BY TypeStep, ProgressStep, LedgerStep, BudgetStep DEF IInv

LEMMA SpecIInv == Spec => []IInv
  BY InitIInv, NextIInv, PTL DEF Spec

(* The types, for every plan: the attempts left never exceed maxAttempts   *)
(* in spite of the bonus, and the step index stays inside the plan.        *)
THEOREM TypeCorrect == Spec => []TypeOK
<1>1. IInv => TypeOK
  BY DEF IInv
<1> QED BY <1>1, SpecIInv, PTL

(* No step's command is run before the approval gate said yes to the step. *)
THEOREM ApprovedFirst == Spec => []RunsWereApproved
<1>1. IInv => RunsWereApproved
  BY DEF IInv, Progress, RunsWereApproved
<1> QED BY <1>1, SpecIInv, PTL

(* What is done to the target is paid for, up to the unsettled step. *)
THEOREM ExposureIsPaid == Spec => []ExposurePaid
<1>1. IInv => ExposurePaid
  BY CostRange DEF IInv, TypeOK, Progress, Ledger, Due, ExposurePaid, Cost, MaxCost, Step
<1> QED BY <1>1, SpecIInv, PTL

(* Whatever fails, what is done to the target costs at most the budget and  *)
(* one step when healing, and twice the budget with the circuit breaker.   *)
THEOREM BlastRadiusIsBounded == Spec => []BlastRadius
<1>1. IInv => BlastRadius
  BY DEF IInv, Budget
<1> QED BY <1>1, SpecIInv, PTL

(* A stopped plan is cut at one step: settled before it, untouched after. *)
THEOREM StopsAreResumable == Spec => []StopIsResumable
<1>1. IInv => StopIsResumable
  BY StepsAssumption DEF IInv, TypeOK, Progress, StopIsResumable, Step
<1> QED BY <1>1, SpecIInv, PTL

-----------------------------------------------------------------------------
(* Refinement of FixRun. *)

LEMMA RefinesInit == Init => Contract!Init
  BY DEF Init, Contract!Init, AbstractStatus

(* Every step is a step of the contract or leaves its variables unchanged. *)
LEMMA RefinesNext == IInv /\ [Next]_vars => [Contract!Next]_(Contract!vars)
<1> SUFFICES ASSUME IInv, [Next]_vars PROVE [Contract!Next]_(Contract!vars)
  OBVIOUS
<1> USE StepsAssumption
        DEF plan, loop, tracking, history, IInv, TypeOK, Progress, Step,
            AbstractStatus, Contract!Next, Contract!vars, Contract!Working,
            HaltReason, RejectReason
<1>1. CASE Acquire
  BY <1>1 DEF Acquire, Contract!Begin
<1>2. CASE LockRefused
  BY <1>2 DEF LockRefused, Return, Contract!Refuse
<1>3. CASE SkipStep
  BY <1>3 DEF SkipStep, Skipped, Contract!Skip
<1>4. CASE StepUnaffordable
  BY <1>4 DEF StepUnaffordable, Halt, Skipped
<1>5. CASE PrepareStep
  BY <1>5 DEF PrepareStep, Return, Skipped, Contract!Finish
<1>6. CASE Approve
  BY <1>6 DEF Approve
<1>7. CASE Deny
  BY <1>7 DEF Deny, Return, Contract!Finish
<1>8. CASE Complete
  BY <1>8 DEF Complete, Return, Contract!Finish
<1>9. CASE RunSucceeds
  BY <1>9 DEF RunSucceeds, RunApproved, Contract!Touch
<1>10. CASE RunFails
  BY <1>10 DEF RunFails, RunApproved, Contract!Touch
<1>11. CASE RetrySucceeds
  BY <1>11 DEF RetrySucceeds, RunApproved
<1>12. CASE RetryFails
  BY <1>12 DEF RetryFails, RunApproved, Halt
<1>13. CASE RetriesExhausted
  BY <1>13 DEF RetriesExhausted, Halt
<1>14. CASE HealUnaffordable
  BY <1>14 DEF HealUnaffordable, HealGivesUp, NextReexecution, Settle, Halt,
         Contract!Settle
<1>15. CASE HealExhausted
  BY <1>15 DEF HealExhausted, HealGivesUp, NextReexecution, Settle, Halt,
         Contract!Settle
<1>16. CASE CorrectionThrows
  BY <1>16 DEF CorrectionThrows, Return, Contract!Finish
<1>17. CASE CorrectionBlocked
  BY <1>17 DEF CorrectionBlocked
<1>18. CASE CorrectionSucceeds
  BY <1>18 DEF CorrectionSucceeds, RunCorrection, HealSucceeds, NextReexecution,
         Settle, Contract!Settle
<1>19. CASE CorrectionFails
  BY <1>19 DEF CorrectionFails, RunCorrection
<1>20. CASE EffectVerified
  BY <1>20 DEF EffectVerified, HealSucceeds, NextReexecution, Settle,
         Contract!Settle
<1>21. CASE EffectUnverified
  BY <1>21 DEF EffectUnverified
<1>22. CASE FinishStep
  BY <1>22 DEF FinishStep, Settle, Contract!Settle
<1>23. CASE RollBack
  BY <1>23 DEF RollBack, Contract!Undo
<1>24. CASE Finished
  BY <1>24 DEF Finished, vars
<1>25. CASE UNCHANGED vars
  BY <1>25 DEF vars
<1> QED
  BY <1>1, <1>2, <1>3, <1>4, <1>5, <1>6, <1>7, <1>8, <1>9, <1>10,
     <1>11, <1>12, <1>13, <1>14, <1>15, <1>16, <1>17, <1>18, <1>19,
     <1>20, <1>21, <1>22, <1>23, <1>24, <1>25 DEF Next

(* executePlan implements the contract its callers rely on. *)
THEOREM Implementation == Spec => ImplementsFixRun
  BY RefinesInit, SpecIInv, RefinesNext, PTL DEF Spec, ImplementsFixRun, Contract!Spec

-----------------------------------------------------------------------------
(* The lock file, which one executor sees only as granted or refused: any    *)
(* set of executors that contend for it, any of which may crash.            *)

(* Executors that created the file and have not released it. *)
Holds(e) == lockPc[e] \in {"writing", "running"}

(* While nobody has overridden: who created the file owns it, who runs has  *)
(* written it, and nobody is inside the override path.                     *)
HolderOwnsFile ==
  overriders = {} =>
    \A e \in Executors :
      /\ Holds(e) => file.owner = {e}
      /\ lockPc[e] = "running" => file.written
      /\ lockPc[e] \notin {"override", "reading_again", "logging"}

(* Only an executor with a readline is at the prompt. *)
PromptIsInteractive == \A e \in Executors : lockPc[e] = "prompt" => e \in Interactive

(* The override path is taken by overriders only. *)
PathIsOverriders ==
  \A e \in Executors : lockPc[e] \in {"override", "reading_again", "logging"} => e \in overriders

LockInv ==
  LockTypeOK /\ PromptIsInteractive /\ HolderOwnsFile /\ OrphanHasCause /\ PathIsOverriders

LEMMA InitLockInv == LockInit => LockInv
  BY DEF LockInit, LockInv, LockTypeOK, HolderOwnsFile, Holds, PromptIsInteractive,
         OrphanHasCause, PathIsOverriders, NoLock, Exists, LockLocation

(* Steps that change only the place of one executor, to a place that claims *)
(* neither the file nor the override path.                                 *)
LEMMA GiveWay ==
  ASSUME LockInv, NEW e \in Executors, NEW place \in {"reading", "prompt", "ended"},
         place = "prompt" => e \in Interactive,
         lockPc[e] \notin {"writing", "logging", "running"},
         Goto(e, place), UNCHANGED <<file, overriders, crashed, unlogged>>
  PROVE  LockInv'
<1>1. LockTypeOK'
  BY DEF LockInv, LockTypeOK, Goto, LockLocation, Exists, NoLock
<1>2. PromptIsInteractive' /\ PathIsOverriders'
  BY DEF LockInv, LockTypeOK, PromptIsInteractive, PathIsOverriders, Goto
<1>3. HolderOwnsFile'
  BY DEF LockInv, LockTypeOK, HolderOwnsFile, Holds, Goto
<1>4. OrphanHasCause'
  BY DEF LockInv, LockTypeOK, OrphanHasCause, Goto
<1> QED BY <1>1, <1>2, <1>3, <1>4 DEF LockInv

(* Without a file nobody holds it: the creator becomes the only holder.    *)
LEMMA CreateStep == ASSUME LockInv, NEW e \in Executors, Create(e) PROVE LockInv'
<1>1. LockTypeOK' /\ PromptIsInteractive' /\ PathIsOverriders'
  BY DEF LockInv, LockTypeOK, PromptIsInteractive, PathIsOverriders, Create, LockOf, NoLock, Exists,
         Goto, LockLocation
<1>2. HolderOwnsFile'
  <2>1. overriders = {} => \A f \in Executors : ~Holds(f)
    BY DEF LockInv, HolderOwnsFile, Create, Exists
  <2> QED BY <2>1 DEF LockInv, LockTypeOK, HolderOwnsFile, Holds, Create, LockOf, Goto
<1>3. OrphanHasCause'
  BY DEF LockInv, LockTypeOK, OrphanHasCause, Create, LockOf, Goto
<1> QED BY <1>1, <1>2, <1>3 DEF LockInv

LEMMA WriteStep == ASSUME LockInv, NEW e \in Executors, Write(e) PROVE LockInv'
<1>1. PICK place \in {"logging", "running"} :
        /\ Goto(e, place)
        /\ place = "logging" <=> e \in overriders
  BY DEF Write
<1>2. lockPc[e] = "writing" /\ file'.owner = file.owner /\ UNCHANGED <<overriders, crashed, unlogged>>
  BY DEF Write, LockInv, LockTypeOK
<1>3. LockTypeOK'
  BY <1>1 DEF LockInv, LockTypeOK, Write, NoLock, Exists, Goto, LockLocation
<1>4. PromptIsInteractive' /\ PathIsOverriders'
  BY <1>1, <1>2 DEF LockInv, LockTypeOK, PromptIsInteractive, PathIsOverriders, Goto
<1>5. HolderOwnsFile'
  <2> SUFFICES ASSUME overriders = {}, NEW f \in Executors
               PROVE  /\ Holds(f)' => file'.owner = {f}
                      /\ lockPc'[f] = "running" => file'.written
                      /\ lockPc'[f] \notin {"override", "reading_again", "logging"}
    BY <1>2 DEF HolderOwnsFile
  <2>1. /\ Holds(f) => file.owner = {f}
        /\ lockPc[f] = "running" => file.written
        /\ lockPc[f] \notin {"override", "reading_again", "logging"}
    BY DEF LockInv, HolderOwnsFile
  <2>2. file.owner = {e} /\ file'.written
    BY <1>2 DEF Write, LockInv, LockTypeOK, HolderOwnsFile, Holds
  <2>3. lockPc'[f] = IF f = e THEN "running" ELSE lockPc[f]
    BY <1>1 DEF Goto, LockInv, LockTypeOK
  <2> QED BY <1>2, <2>1, <2>2, <2>3 DEF Holds
<1>6. OrphanHasCause'
  BY <1>1, <1>2 DEF LockInv, LockTypeOK, OrphanHasCause, Goto
<1> QED BY <1>3, <1>4, <1>5, <1>6 DEF LockInv

(* A forced override makes the exclusion void. *)
LEMMA OverrideStep == ASSUME LockInv, NEW e \in Executors, Override(e) PROVE LockInv'
<1>1. LockTypeOK'
  <2>1. e \in Interactive
    BY DEF LockInv, PromptIsInteractive, Override
  <2> QED BY <2>1 DEF LockInv, LockTypeOK, Override, NoLock, Exists, Goto, LockLocation
<1>2. PromptIsInteractive' /\ PathIsOverriders'
  BY DEF LockInv, LockTypeOK, PromptIsInteractive, PathIsOverriders, Override, Goto
<1>3. HolderOwnsFile'
  BY DEF HolderOwnsFile, Override
<1>4. OrphanHasCause'
  BY DEF OrphanHasCause, Override, NoLock
<1> QED BY <1>1, <1>2, <1>3, <1>4 DEF LockInv

(* Inside the override path somebody has overridden, so that running        *)
(* without a lock breaks nothing that still holds.                         *)
LEMMA AfterOverride ==
  ASSUME LockInv, NEW e \in Executors, lockPc[e] \in {"override", "reading_again", "logging"},
         NEW place \in {"reading_again", "logging", "running"}, Goto(e, place),
         place = "reading_again" => lockPc[e] = "override",
         UNCHANGED <<file, overriders, crashed, unlogged>>
  PROVE  LockInv'
<1>1. overriders # {}
  BY DEF LockInv, HolderOwnsFile
<1>2. LockTypeOK' /\ PromptIsInteractive' /\ PathIsOverriders'
  BY DEF LockInv, LockTypeOK, PromptIsInteractive, PathIsOverriders, NoLock, Exists, Goto, LockLocation
<1>3. HolderOwnsFile'
  BY <1>1 DEF HolderOwnsFile
<1>4. OrphanHasCause'
  BY DEF LockInv, LockTypeOK, OrphanHasCause, Goto
<1> QED BY <1>2, <1>3, <1>4 DEF LockInv

(* The override is logged, or the file stays without its creator. *)
LEMMA LogStep == ASSUME LockInv, NEW e \in Executors, LogOverride(e) PROVE LockInv'
<1>1. lockPc[e] = "logging" /\ e \in overriders /\ UNCHANGED <<file, overriders, crashed>>
  BY DEF LogOverride, LockInv, PathIsOverriders
<1>2. CASE Goto(e, "running") /\ UNCHANGED unlogged
  BY <1>1, <1>2, AfterOverride
<1>3. CASE Goto(e, "ended") /\ unlogged' = unlogged \cup {e}
  <2>1. LockTypeOK' /\ PromptIsInteractive' /\ PathIsOverriders'
    BY <1>1, <1>3 DEF LockInv, LockTypeOK, PromptIsInteractive, PathIsOverriders, NoLock, Exists, Goto,
                      LockLocation
  <2>2. HolderOwnsFile'
    BY <1>1 DEF HolderOwnsFile
  <2>3. OrphanHasCause'
    BY <1>1, <1>3 DEF LockInv, LockTypeOK, OrphanHasCause, Goto
  <2> QED BY <2>1, <2>2, <2>3 DEF LockInv
<1> QED BY <1>2, <1>3 DEF LogOverride

(* The file that is deleted is the runner's own: nobody else is a holder.  *)
LEMMA ReleaseStep == ASSUME LockInv, NEW e \in Executors, Release(e) PROVE LockInv'
<1>1. LockTypeOK' /\ PromptIsInteractive' /\ PathIsOverriders'
  BY DEF LockInv, LockTypeOK, PromptIsInteractive, PathIsOverriders, Release, NoLock, Exists, Goto,
         LockLocation
<1>2. HolderOwnsFile'
  <2>1. overriders = {} => \A f \in Executors : Holds(f) => f = e
    BY DEF LockInv, HolderOwnsFile, Holds, Release
  <2> QED BY <2>1 DEF LockInv, LockTypeOK, HolderOwnsFile, Holds, Release, Goto
<1>3. OrphanHasCause'
  BY DEF OrphanHasCause, Release, NoLock
<1> QED BY <1>1, <1>2, <1>3 DEF LockInv

LEMMA CrashStep == ASSUME LockInv, NEW e \in Executors, Crash(e) PROVE LockInv'
<1>1. LockTypeOK' /\ PromptIsInteractive' /\ PathIsOverriders'
  BY DEF LockInv, LockTypeOK, PromptIsInteractive, PathIsOverriders, Crash, NoLock, Exists, Goto,
         LockLocation
<1>2. HolderOwnsFile'
  BY DEF LockInv, LockTypeOK, HolderOwnsFile, Holds, Crash, Goto
<1>3. OrphanHasCause'
  BY DEF LockInv, LockTypeOK, OrphanHasCause, Crash, Goto
<1> QED BY <1>1, <1>2, <1>3 DEF LockInv

LEMMA NextLockInv == LockInv /\ [LockNext]_lockVars => LockInv'
<1> SUFFICES ASSUME LockInv, [LockNext]_lockVars PROVE LockInv'
  OBVIOUS
<1>1. ASSUME NEW e \in Executors, Proceed(e) PROVE LockInv'
  <2>1. CASE Create(e)
    BY <2>1, CreateStep
  <2>2. CASE Write(e)
    BY <2>2, WriteStep
  <2>3. CASE Contend(e)
    <3>1. CASE lockPc[e] = "start" /\ Goto(e, "reading")
      BY <2>3, <3>1, GiveWay DEF Contend
    <3>2. CASE lockPc[e] = "override" /\ Goto(e, "reading_again")
      BY <2>3, <3>2, AfterOverride DEF Contend
    <3> QED BY <2>3, <3>1, <3>2 DEF Contend
  <2>4. CASE ReadThrows(e)
    BY <2>4, GiveWay DEF ReadThrows
  <2>5. CASE Conflict(e)
    <3>1. CASE e \in Interactive
      BY <2>5, <3>1, GiveWay DEF Conflict
    <3>2. CASE e \notin Interactive
      BY <2>5, <3>2, GiveWay DEF Conflict
    <3> QED BY <3>1, <3>2
  <2>6. CASE Decline(e)
    BY <2>6, GiveWay DEF Decline
  <2>7. CASE Override(e)
    BY <2>7, OverrideStep
  <2>8. CASE ProceedUnlocked(e)
    BY <2>8, AfterOverride DEF ProceedUnlocked
  <2>9. CASE Release(e)
    BY <2>9, ReleaseStep
  <2>10. CASE LogOverride(e)
    BY <2>10, LogStep
  <2> QED BY <1>1, <2>1, <2>2, <2>3, <2>4, <2>5, <2>6, <2>7, <2>8, <2>9, <2>10 DEF Proceed
<1>2. ASSUME NEW e \in Executors, Crash(e) PROVE LockInv'
  BY <1>2, CrashStep
<1>3. CASE UNCHANGED lockVars
  BY <1>3 DEF lockVars, LockInv, LockTypeOK, PromptIsInteractive, HolderOwnsFile, Holds,
              OrphanHasCause, PathIsOverriders, Exists, NoLock
<1> QED BY <1>1, <1>2, <1>3 DEF LockNext

LEMMA SpecLockInv == LockSpec => []LockInv
  BY InitLockInv, NextLockInv, PTL DEF LockSpec

(* Every behaviour is well-typed: overriders are interactive executors. *)
THEOREM LockTypeCorrect == LockSpec => []LockTypeOK
<1>1. LockInv => LockTypeOK
  BY DEF LockInv
<1> QED BY <1>1, SpecLockInv, PTL

(* Who runs owns the complete file, until an override: the wx flag gives    *)
(* the file to one executor, and every release deletes the runner's own.   *)
THEOREM RunnersOwnTheFile == LockSpec => []RunnerOwnsFile
<1>1. LockInv => RunnerOwnsFile
  BY DEF LockInv, HolderOwnsFile, RunnerOwnsFile, Running, Holds
<1> QED BY <1>1, SpecLockInv, PTL

(* Mutual exclusion on the target, for any number of executors, as long as *)
(* no admin forces an override.                                            *)
THEOREM MutualExclusion == LockSpec => []ExclusiveUnlessOverridden
<1>1. LockInv => ExclusiveUnlessOverridden
  <2> SUFFICES ASSUME LockInv, overriders = {}, NEW e \in Running, NEW f \in Running
               PROVE  e = f
    BY DEF ExclusiveUnlessOverridden
  <2>1. file.owner = {e} /\ file.owner = {f}
    BY DEF LockInv, HolderOwnsFile, Holds, Running
  <2> QED BY <2>1
<1> QED BY <1>1, SpecLockInv, PTL

(* A lock file whose creator is not at work was left by a crash of the creator, *)
(* or by an override that could not be logged, whatever overrides there were.  *)
THEOREM OrphansAreCrashes == LockSpec => []OrphanHasCause
<1>1. LockInv => OrphanHasCause
  BY DEF LockInv
<1> QED BY <1>1, SpecLockInv, PTL
=============================================================================
