------------------------------- MODULE FixRun -------------------------------
(***************************************************************************)
(* What one execution of a fix plan promises to its callers (the /execute, *)
(* /resume and /stream routes): steps are settled in plan order; a refused *)
(* run has not touched the step it stopped at; a halted run stopped at one *)
(* unsettled step, for which a rollback was attempted; a completed run has *)
(* settled every step. A broken run (an exception) promises nothing more.  *)
(* PlanExecutor is shown to implement this module.                         *)
(***************************************************************************)
EXTENDS Naturals

CONSTANT NumSteps      \* the length of the plan

VARIABLES
  status,    \* where the run stands
  at,        \* how many steps are settled (done or skipped): the next one's index
  touched,   \* has the current step run a command on the target?
  undone     \* has a rollback been attempted?

vars == <<status, at, touched, undone>>

Ended == {"completed", "rejected", "halted", "broken"}

TypeOK ==
  /\ status \in {"idle", "running"} \cup Ended
  /\ at \in 0..NumSteps
  /\ touched \in BOOLEAN
  /\ undone \in BOOLEAN

Init ==
  /\ status = "idle"
  /\ at = 0
  /\ touched = FALSE
  /\ undone = FALSE

Working == status = "running" /\ ~undone

Begin ==
  /\ status = "idle"
  /\ status' = "running"
  /\ UNCHANGED <<at, touched, undone>>

(* The target is locked, or the lock cannot be read: nothing happens to it. *)
Refuse ==
  /\ status = "idle"
  /\ status' \in {"rejected", "broken"}
  /\ UNCHANGED <<at, touched, undone>>

Skip ==
  /\ Working /\ ~touched /\ at < NumSteps
  /\ at' = at + 1
  /\ UNCHANGED <<status, touched, undone>>

Touch ==
  /\ Working /\ at < NumSteps
  /\ touched' = TRUE
  /\ UNCHANGED <<status, at, undone>>

Settle ==
  /\ Working /\ touched
  /\ at' = at + 1
  /\ touched' = FALSE
  /\ UNCHANGED <<status, undone>>

Undo ==
  /\ Working /\ at < NumSteps
  /\ undone' = TRUE
  /\ status' = "halted"
  /\ UNCHANGED <<at, touched>>

Finish ==
  /\ Working
  /\ \/ status' = "completed" /\ at = NumSteps
     \/ status' = "rejected" /\ at < NumSteps /\ ~touched
     \/ status' = "broken"
  /\ UNCHANGED <<at, touched, undone>>

Next == Begin \/ Refuse \/ Skip \/ Touch \/ Settle \/ Undo \/ Finish

Spec == Init /\ [][Next]_vars
=============================================================================
