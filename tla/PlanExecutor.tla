---------------------------- MODULE PlanExecutor ----------------------------
(***************************************************************************)
(* One executePlan call (execution/executor.ts) with everything it awaits: *)
(* the approval gate, the first run of a command, the circuit breaker, the *)
(* self-healing loop with its bonus attempts, the re-execution of config   *)
(* changes a restart reverted, and the rollback of the step it halts at.   *)
(*                                                                         *)
(* The text of commands and errors is abstracted: a command is its risk, an *)
(* error is the class errorTypeChanged puts it in.  What the target, the   *)
(* model and the admin answer is nondeterministic.  The lock file and the  *)
(* release in the finally block are in TargetLock.                         *)
(***************************************************************************)
EXTENDS Naturals, DamageBudget

CONSTANTS
  NumSteps,      \* steps of the plan
  MaxAttempts,   \* selfHealing.maxAttempts
  MaxRetries,    \* circuitBreaker.maxRetries
  ErrorClass     \* the classes of stderr that errorTypeChanged tells apart

ASSUME StepsAssumption == NumSteps \in Nat
ASSUME AttemptsAssumption == MaxAttempts \in Nat
ASSUME RetriesAssumption == MaxRetries \in Nat

VARIABLES
  risk,          \* the declared risk of every step
  healing,       \* were a correction model and a skill passed in the deps?
  startFrom,     \* ResumeOptions.startFromStep
  skipFailed,    \* ResumeOptions.skipFailedStep
  pc,            \* what executePlan is about to do
  i,             \* the index of the step it is at
  used,          \* budget points spent
  left,          \* attempts left to the loop it is in (healing or breaker)
  err,           \* the class of the error being healed
  mods,          \* tracked config modifications
  todo,          \* reverted modifications still to re-execute; 0 outside that loop
  result,        \* stepResults
  reason,        \* why the call returned, "none" while it runs
  approved,      \* history: steps whose command was approved
  ran,           \* history: steps that ran a command on the target
  rolledBack,    \* history: steps whose rollback was attempted
  exposure       \* history: cost of all commands run, at the risk of their step

plan == <<risk, healing, startFrom, skipFailed>>
loop == <<left, err>>
tracking == <<mods, todo>>
history == <<approved, ran, rolledBack, exposure>>
vars == <<plan, pc, i, used, loop, tracking, result, reason, history>>

Step == 0..(NumSteps - 1)
Location == {"lock", "step", "approve", "run", "heal", "verify", "breaker",
             "finish", "rollback", "done"}
HaltReason == {"damage_budget_exceeded", "circuit_breaker",
               "self_heal_exhausted", "self_heal_budget_exceeded"}
RejectReason == {"lock_conflict", "approval_rejected"}
Reason == HaltReason \cup RejectReason \cup {"none", "completed", "error"}

(* The stderr executePlan makes up for a change that did not survive. *)
Reverted == "reverted"

Cost == CostFor(risk[i])

(* bonusAttempts: Math.ceil(maxAttempts / 2). *)
Bonus == (MaxAttempts + 1) \div 2

Smaller(a, b) == IF a <= b THEN a ELSE b

Init ==
  /\ risk \in [Step -> Risk]
  /\ healing \in BOOLEAN
  /\ startFrom \in Step \cup {0}
  /\ skipFailed \in BOOLEAN
  /\ pc = "lock" /\ i = 0 /\ used = 0
  /\ left = 0 /\ err = Reverted
  /\ mods = 0 /\ todo = 0
  /\ result = [s \in Step |-> "none"]
  /\ reason = "none"
  /\ approved = {} /\ ran = {} /\ rolledBack = {}
  /\ exposure = 0

(* executePlan returns, or an exception leaves it. *)
Return(why) ==
  /\ reason' = why
  /\ pc' = "done"

(* Mutant: the plan halts without rolling its step back. *)
HaltOnly(why) == Return(why)

Halt(why) ==
  /\ reason' = why
  /\ pc' = "rollback"

-----------------------------------------------------------------------------
(* Entry, and the head of the step loop. *)

Acquire ==
  /\ pc = "lock"
  /\ pc' = "step"
  /\ UNCHANGED <<plan, i, used, loop, tracking, result, reason, history>>

LockRefused ==
  /\ pc = "lock"
  /\ \E why \in {"lock_conflict", "error"} : Return(why)
  /\ UNCHANGED <<plan, i, used, loop, tracking, result, history>>

Skipped == i < startFrom \/ (skipFailed /\ i = startFrom)

SkipStep ==
  /\ pc = "step" /\ i < NumSteps /\ Skipped
  /\ result' = [result EXCEPT ![i] = "skipped"]
  /\ i' = i + 1
  /\ UNCHANGED <<plan, pc, used, loop, tracking, reason, history>>

StepUnaffordable ==
  /\ pc = "step" /\ i < NumSteps /\ ~Skipped
  /\ ~CanAfford(used, Cost)
  /\ Halt("damage_budget_exceeded")
  /\ UNCHANGED <<plan, i, used, loop, tracking, result, history>>

(* Mutant: read steps do not pass the approval gate. *)
PrepareUnasked ==
  /\ pc = "step" /\ i < NumSteps /\ ~Skipped
  /\ CanAfford(used, Cost)
  /\ pc' = IF risk[i] = "read" THEN "run" ELSE "approve"
  /\ UNCHANGED <<plan, i, used, loop, tracking, result, reason, history>>

(* The snapshot of a step that is not read is written to disk first. *)
PrepareStep ==
  /\ pc = "step" /\ i < NumSteps /\ ~Skipped
  /\ CanAfford(used, Cost)
  /\ \/ pc' = "approve" /\ UNCHANGED reason
     \/ risk[i] # "read" /\ Return("error")
  /\ UNCHANGED <<plan, i, used, loop, tracking, result, history>>

Approve ==
  /\ pc = "approve"
  /\ approved' = approved \cup {i}
  /\ pc' = "run"
  /\ UNCHANGED <<plan, i, used, loop, tracking, result, reason, ran, rolledBack,
                 exposure>>

Deny ==
  /\ pc = "approve"
  /\ Return("approval_rejected")
  /\ UNCHANGED <<plan, i, used, loop, tracking, result, history>>

Complete ==
  /\ pc = "step" /\ i = NumSteps
  /\ Return("completed")
  /\ UNCHANGED <<plan, i, used, loop, tracking, result, history>>

-----------------------------------------------------------------------------
(* Running the command, with retries by the circuit breaker. *)

(* A command reaches the target, at the price of the step it is run for. *)
RunApproved ==
  /\ ran' = ran \cup {i}
  /\ exposure' = exposure + Cost
  /\ UNCHANGED <<approved, rolledBack>>

RunSucceeds ==
  /\ pc = "run"
  /\ RunApproved
  /\ pc' = "finish"
  /\ UNCHANGED <<plan, i, used, loop, tracking, result, reason>>

RunFails ==
  /\ pc = "run"
  /\ RunApproved
  /\ \E e \in ErrorClass :
       IF healing
       THEN pc' = "heal" /\ left' = MaxAttempts /\ err' = e
       ELSE pc' = "breaker" /\ left' = MaxRetries /\ err' = e
  /\ UNCHANGED <<plan, i, used, tracking, result, reason>>

RetrySucceeds ==
  /\ pc = "breaker" /\ left > 0
  /\ RunApproved
  /\ pc' = "finish"
  /\ UNCHANGED <<plan, i, used, loop, tracking, result, reason>>

RetryFails ==
  /\ pc = "breaker" /\ left > 0
  /\ RunApproved
  /\ left' = left - 1
  /\ used' = used + RetryCost(risk[i])
  /\ IF ~CanAfford(used', RetryCost(risk[i]))
     THEN /\ result' = [result EXCEPT ![i] = "failed"]
          /\ Halt("circuit_breaker")
     ELSE UNCHANGED <<result, pc, reason>>
  /\ UNCHANGED <<plan, i, err, tracking>>

(* maxRetries attempts have failed (or it is 0, and none was made). *)
RetriesExhausted ==
  /\ pc = "breaker" /\ left = 0
  /\ result' = [result EXCEPT ![i] = "failed"]
  /\ Halt("circuit_breaker")
  /\ UNCHANGED <<plan, i, used, loop, tracking, history>>

-----------------------------------------------------------------------------
(* Self-healing: selfHealStep, for the failed step when todo is 0, and for *)
(* a reverted config change otherwise.                                     *)

(* Settle the step: its result is recorded and the loop moves on. *)
Settle ==
  /\ result' = [result EXCEPT ![i] = "success"]
  /\ i' = i + 1
  /\ pc' = "step"

(* What the caller does with a re-execution, whatever its status. *)
NextReexecution ==
  /\ todo' = todo - 1
  /\ IF todo > 1
     THEN /\ left' = MaxAttempts /\ err' = Reverted /\ pc' = "heal"
          /\ UNCHANGED <<i, mods, result>>
     ELSE Settle /\ mods' = 0 /\ UNCHANGED loop

HealSucceeds ==
  IF todo = 0 THEN pc' = "finish" /\ UNCHANGED <<i, loop, tracking, result>>
              ELSE NextReexecution

HealGivesUp(why) ==
  \/ /\ todo = 0
     /\ result' = [result EXCEPT ![i] = "failed"]
     /\ Halt(why)
     /\ UNCHANGED <<i, loop, tracking>>
  \/ todo > 0 /\ NextReexecution /\ UNCHANGED reason

HealUnaffordable ==
  /\ pc = "heal" /\ left > 0 /\ ~CanAfford(used, Cost)
  /\ HealGivesUp("self_heal_budget_exceeded")
  /\ UNCHANGED <<plan, used, history>>

HealExhausted ==
  /\ pc = "heal" /\ left = 0
  /\ HealGivesUp("self_heal_exhausted")
  /\ UNCHANGED <<plan, used, history>>

(* The model does not answer: generateText throws out of executePlan. *)
CorrectionThrows ==
  /\ pc = "heal" /\ left > 0 /\ CanAfford(used, Cost)
  /\ Return("error")
  /\ UNCHANGED <<plan, i, used, loop, tracking, result, history>>

(* Mutant: a blocked correction is free and counts as progress. *)
BlockedIsProgress ==
  /\ pc = "heal" /\ left > 0 /\ CanAfford(used, Cost)
  /\ err' \in ErrorClass
  /\ left' = Smaller(left - 1 + Bonus, MaxAttempts)
  /\ UNCHANGED <<plan, pc, i, used, tracking, result, reason, history>>

CorrectionBlocked ==
  /\ pc = "heal" /\ left > 0 /\ CanAfford(used, Cost)
  /\ left' = left - 1
  /\ used' = used + Cost
  /\ UNCHANGED <<plan, pc, i, err, tracking, result, reason, history>>

(* Mutant: a correction is run without charging it. *)
RunCorrectionFree ==
  /\ pc = "heal" /\ left > 0 /\ CanAfford(used, Cost)
  /\ exposure' = exposure + Cost
  /\ UNCHANGED <<plan, used, approved, ran, rolledBack, reason>>

(* The corrected command may be of any risk its skill and the safety rules  *)
(* allow; it is charged at the risk of the step and nobody is asked.        *)
RunCorrection ==
  /\ pc = "heal" /\ left > 0 /\ CanAfford(used, Cost)
  /\ used' = used + Cost
  /\ exposure' = exposure + Cost
  /\ UNCHANGED <<plan, approved, ran, rolledBack, reason>>

CorrectionSucceeds ==
  /\ RunCorrection
  /\ IF risk[i] = "read"
     THEN HealSucceeds
     ELSE /\ pc' = "verify" /\ left' = left - 1
          /\ UNCHANGED <<i, err, tracking, result>>

CorrectionFails ==
  /\ RunCorrection
  /\ \E e \in ErrorClass :
       /\ err' = e
       /\ left' = IF e # err THEN Smaller(left - 1 + Bonus, MaxAttempts)
                             ELSE left - 1
  /\ UNCHANGED <<pc, i, tracking, result>>

EffectVerified ==
  /\ pc = "verify"
  /\ HealSucceeds
  /\ UNCHANGED <<plan, used, reason, history>>

EffectUnverified ==
  /\ pc = "verify"
  /\ pc' = "heal"
  /\ err' \in ErrorClass
  /\ UNCHANGED <<plan, i, used, left, tracking, result, reason, history>>

-----------------------------------------------------------------------------
(* The step succeeded.  Its command may be a config modification, and may  *)
(* restart a service: then the tracked modifications are verified, except  *)
(* that verifyEffect skips a step whose risk is read.                      *)

FinishStep ==
  /\ pc = "finish"
  /\ used' = used + Cost
  /\ \E modifies, restarts \in {0, 1} :
     \E reverted \in 0..(mods + modifies) :
       /\ reverted > 0 => restarts = 1 /\ healing /\ risk[i] # "read"
       /\ mods' = mods + modifies
       /\ todo' = reverted
       /\ IF reverted = 0
          THEN Settle /\ UNCHANGED loop
          ELSE /\ pc' = "heal" /\ left' = MaxAttempts /\ err' = Reverted
               /\ UNCHANGED <<i, result>>
  /\ UNCHANGED <<plan, reason, history>>

(* rollbackStep: no approval, no retry, whatever its exit code. *)
RollBack ==
  /\ pc = "rollback"
  /\ rolledBack' = rolledBack \cup {i}
  /\ pc' = "done"
  /\ UNCHANGED <<plan, i, used, loop, tracking, result, reason, approved, ran,
                 exposure>>

Finished == pc = "done" /\ UNCHANGED vars

Next ==
  \/ Acquire \/ LockRefused
  \/ SkipStep \/ StepUnaffordable \/ PrepareStep \/ Approve \/ Deny \/ Complete
  \/ RunSucceeds \/ RunFails \/ RetrySucceeds \/ RetryFails \/ RetriesExhausted
  \/ HealUnaffordable \/ HealExhausted \/ CorrectionThrows \/ CorrectionBlocked
  \/ CorrectionSucceeds \/ CorrectionFails \/ EffectVerified \/ EffectUnverified
  \/ FinishStep \/ RollBack
  \/ Finished

Spec == Init /\ [][Next]_vars

(* Commands and model calls have timeouts and the approval is answered, so  *)
(* every await of executePlan resolves.                                     *)
FairSpec == Spec /\ WF_vars(Next)
-----------------------------------------------------------------------------
(* Properties. *)

TypeOK ==
  /\ risk \in [Step -> Risk] /\ healing \in BOOLEAN
  /\ startFrom \in Nat /\ skipFailed \in BOOLEAN
  /\ pc \in Location
  /\ i \in 0..NumSteps
  /\ pc \notin {"lock", "step", "done"} => i < NumSteps
  /\ used \in Nat
  /\ left \in Nat /\ (pc \in {"heal", "verify"} => left <= MaxAttempts)
  /\ err \in ErrorClass \cup {Reverted}
  /\ mods \in Nat /\ todo \in 0..mods
  /\ result \in [Step -> {"none", "skipped", "success", "failed"}]
  /\ reason \in Reason
  /\ approved \subseteq Step /\ ran \subseteq Step /\ rolledBack \subseteq Step
  /\ exposure \in Nat

(* No step's command reaches the target before the approval gate said yes  *)
(* to it: the order of requestApproval and run in the step loop.           *)
RunsWereApproved == ran \subseteq approved

(* What is done to the target against what is charged.  With healing every  *)
(* run but the first one of the unsettled step is paid for.  With the       *)
(* circuit breaker the first, failed run of a step is never charged, so a   *)
(* step that succeeds on its first retry costs half of what it did.        *)
ExposurePaid ==
  LET charged == IF pc = "finish" THEN used + Cost ELSE used
      pending == IF i \in ran /\ pc # "finish" THEN Cost ELSE 0
  IN exposure <= (IF healing THEN charged ELSE 2 * charged) + pending

(* The blast radius of one executePlan call.  Several deductions are made   *)
(* without canAfford and some runs without a deduction, yet what is done to *)
(* the target stays within the budget and one step when healing, and within *)
(* twice the budget with the circuit breaker.                              *)
BlastRadius ==
  exposure <= IF healing THEN MaxPoints + MaxCost ELSE 2 * MaxPoints

(* What resume rests on: when the call stopped at step i for any reason,    *)
(* the steps before it are settled and the ones after it never ran, so      *)
(* stoppedAt - 1 is the last completed step.                               *)
StopIsResumable ==
  pc = "done" /\ reason # "completed" =>
    /\ \A s \in Step : s < i => result[s] \in {"skipped", "success"}
    /\ \A s \in Step : s >= i => result[s] \in {"none", "failed"}
    /\ \A s \in Step : s > i => s \notin ran

(* Plans without a read step come to an end: the bonus attempts of healing  *)
(* are bounded by the budget.  (Correcting a read step costs nothing, and   *)
(* an error class that keeps changing keeps the loop alive.)               *)
CostlyPlansEnd == (\A s \in Step : risk[s] # "read") => <>(pc = "done")

(* Refinement of the contract the routes rely on. *)
AbstractStatus ==
  CASE pc = "lock" -> "idle"
    [] pc = "done" /\ reason = "completed" -> "completed"
    [] pc = "done" /\ reason \in RejectReason -> "rejected"
    [] pc = "done" /\ reason \in HaltReason -> "halted"
    [] pc = "done" /\ reason = "error" -> "broken"
    [] OTHER -> "running"

Contract == INSTANCE FixRun WITH
  status <- AbstractStatus, at <- i, touched <- i \in ran, undone <- rolledBack # {}

(* executePlan implements the contract: it settles steps in order, rejects  *)
(* only untouched steps and attempts the rollback of the step it halts at.  *)
ImplementsFixRun == Contract!Spec
=============================================================================
