---------------------------- MODULE DamageBudget ----------------------------
(***************************************************************************)
(* The damage budget of execution/damage-budget.ts: points spent on one    *)
(* executePlan call, and the risk classes that price a command.            *)
(***************************************************************************)
EXTENDS Naturals

CONSTANT MaxPoints     \* damageBudget.maxPoints of the configuration

ASSUME MaxPointsAssumption == MaxPoints \in Nat

Risk == {"read", "write", "destructive"}

CostFor(risk) == IF risk = "read" THEN 0 ELSE IF risk = "write" THEN 1 ELSE 2

MaxCost == 2

(* Mutant: one point of overdraft. *)
CanAffordOverdraft(used, cost) == used + cost <= MaxPoints + 1

CanAfford(used, cost) == used + cost <= MaxPoints

(* A failed circuit-breaker attempt is charged twice the price of the step. *)
RetryCost(risk) == 2 * CostFor(risk)
=============================================================================
