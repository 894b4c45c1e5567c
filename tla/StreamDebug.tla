----------------------------- MODULE StreamDebug -----------------------------
(***************************************************************************)
(* The /stream/debug route (api/routes/stream-debug.ts): concurrent SSE     *)
(* requests that run the pipeline, wait at approval gates whose resolvers   *)
(* are in module-scoped maps keyed by session id, execute the plan under   *)
(* the lock of the target, and clean up.                                    *)
(*                                                                         *)
(* The three maps are one function of session and gate.  A promise that is  *)
(* resolved continues before any other callback runs, so answering a gate   *)
(* and what its request does next, up to the next await, are one action.   *)
(***************************************************************************)
EXTENDS Naturals, FiniteSets

CONSTANTS
  Requests,      \* POST /stream/debug requests
  Sessions,      \* session ids
  SessionOf,     \* the session id of each request: deps.sessionId, or a fresh one
  NumSteps,      \* steps of a fix plan
  FirstSame      \* per step, the first step with the same command

ASSUME SessionOfAssumption == SessionOf \in [Requests -> Sessions]
ASSUME NumStepsAssumption == NumSteps \in Nat \ {0}
ASSUME FirstSameAssumption == FirstSame \in [1..NumSteps -> 1..NumSteps]

VARIABLES
  pc,            \* where each request is
  gate,          \* the gate a waiting request waits at (CacheGate when it does not wait)
  step,          \* the plan step it is at
  pending,       \* the resolver maps: whose resolver is registered at a gate
  listening,     \* requests whose close event has not fired yet
  lock,          \* the executor that holds the target, if any
  status,        \* the persisted status of each session
  usage,         \* whose model calls the session's usage totals count
  summary,       \* what the dpev:session_summary of a request reported
  complete,      \* the status of its dpev:complete event
  gone,          \* requests whose client disconnected for good
  answeredBy     \* history: the clients whose answers a request went on with

at == <<gate, step>>
session == <<status, usage>>
report == <<summary, complete>>
client == <<listening, gone, answeredBy>>
vars == <<pc, at, pending, lock, session, report, client>>

Nobody == {}
CacheGate == 0
PlanGate == 1
StepGate(k) == FirstSame[k] + 1    \* steps with the same command share a key
Gates == 0..(NumSteps + 1)

Location == {"idle", "pipeline", "cached", "waiting", "executing", "running",
             "verifying", "ended"}
Status == {"none", "active", "plan-ready", "completed", "failed"}
Complete == {"none", "plan_rejected", "success", "failed"}

Init ==
  /\ pc = [r \in Requests |-> "idle"]
  /\ gate = [r \in Requests |-> CacheGate]
  /\ step = [r \in Requests |-> 0]
  /\ pending = [s \in Sessions |-> [g \in Gates |-> Nobody]]
  /\ listening = {}
  /\ lock = Nobody
  /\ status = [s \in Sessions |-> "none"]
  /\ usage = [s \in Sessions |-> {}]
  /\ summary = [r \in Requests |-> {}]
  /\ complete = [r \in Requests |-> "none"]
  /\ gone = {}
  /\ answeredBy = [r \in Requests |-> {}]

Goto(r, place) == pc' = [pc EXCEPT ![r] = place]
Persist(r, st) == status' = [status EXCEPT ![SessionOf[r]] = st]

(* Mutants: the resolvers stay in their maps; the maps are cleared. *)
CleanUpUsage(r) ==
  /\ usage' = [usage EXCEPT ![SessionOf[r]] = {}]
  /\ UNCHANGED pending

CleanUpAll(r) ==
  /\ pending' = [s \in Sessions |-> [g \in Gates |-> Nobody]]
  /\ usage' = [usage EXCEPT ![SessionOf[r]] = {}]

(* The finally block: the session's resolvers and usage totals are dropped. *)
CleanUp(r) ==
  /\ pending' = [pending EXCEPT ![SessionOf[r]] = [g \in Gates |-> Nobody]]
  /\ usage' = [usage EXCEPT ![SessionOf[r]] = {}]

(* The request ends: summary, dpev:complete, status, finally. *)
End(r, st, how) ==
  /\ Goto(r, "ended")
  /\ Persist(r, st)
  /\ summary' = [summary EXCEPT ![r] = usage[SessionOf[r]]]
  /\ complete' = [complete EXCEPT ![r] = how]
  /\ CleanUp(r)

(* Mutant: the maps are not keyed by session. *)
AskAnySession(r, g) ==
  /\ Goto(r, "waiting")
  /\ gate' = [gate EXCEPT ![r] = g]
  /\ pending' = [s \in Sessions |-> [pending[s] EXCEPT ![g] = {r}]]

(* Register a resolver at a gate of the session and wait. *)
Ask(r, g) ==
  /\ Goto(r, "waiting")
  /\ gate' = [gate EXCEPT ![r] = g]
  /\ pending' = [pending EXCEPT ![SessionOf[r]][g] = {r}]

-----------------------------------------------------------------------------
(* The request and its pipeline. *)

Open(r) ==
  /\ pc[r] = "idle"
  /\ Goto(r, "pipeline")
  /\ listening' = listening \cup {r}
  /\ Persist(r, "active")
  /\ UNCHANGED <<at, pending, lock, usage, report, gone, answeredBy>>

(* dpev:usage events of the pipeline's model calls. *)
CallModel(r) ==
  /\ pc[r] \in {"pipeline", "cached"}
  /\ r \notin listening
  /\ usage' = [usage EXCEPT ![SessionOf[r]] = @ \cup {r}]
  /\ UNCHANGED <<pc, at, pending, client, lock, status, report>>

CacheHit(r) ==
  /\ pc[r] = "pipeline" /\ r \notin listening
  /\ Ask(r, CacheGate)
  /\ UNCHANGED <<step, client, lock, session, report>>

PlanReady(r) ==
  /\ pc[r] \in {"pipeline", "cached"} /\ r \notin listening
  /\ Persist(r, "plan-ready")
  /\ Ask(r, PlanGate)
  /\ UNCHANGED <<step, client, lock, usage, report>>

NoPlan(r) ==
  /\ pc[r] \in {"pipeline", "cached"} /\ r \notin listening
  /\ End(r, "failed", "failed")
  /\ UNCHANGED <<at, client, lock>>

(* runDPEV throws: dpev:error, and neither a summary nor a dpev:complete. *)
PipelineThrows(r) ==
  /\ pc[r] \in {"pipeline", "cached"} /\ r \notin listening
  /\ Goto(r, "ended")
  /\ Persist(r, "failed")
  /\ CleanUp(r)
  /\ UNCHANGED <<at, client, lock, report>>

-----------------------------------------------------------------------------
(* Execution: executePlan with the target's lock, step by step.  The deps   *)
(* carry no healing model and no readline.                                 *)

(* Mutant: the loop runs past the last step. *)
ReadStepPastEnd(r) ==
  /\ pc[r] = "executing"
  /\ Goto(r, "running")
  /\ UNCHANGED <<at, pending, client, lock, session, report>>

ReadStep(r) ==          \* a read step is approved without a question
  /\ pc[r] = "executing" /\ step[r] < NumSteps
  /\ Goto(r, "running")
  /\ UNCHANGED <<at, pending, client, lock, session, report>>

AskStep(r) ==           \* a write or destructive one waits for its answer
  /\ pc[r] = "executing" /\ step[r] < NumSteps
  /\ Ask(r, StepGate(step[r] + 1))
  /\ UNCHANGED <<step, client, lock, session, report>>

StepSettles(r) ==
  /\ pc[r] = "running"
  /\ step' = [step EXCEPT ![r] = @ + 1]
  /\ Goto(r, "executing")
  /\ UNCHANGED <<gate, pending, client, lock, session, report>>

(* executePlan returns: completed after the last step, halted before.      *)
ExecutionReturns(r) ==
  /\ pc[r] \in {"executing", "running"}
  /\ lock' = Nobody
  /\ Goto(r, "verifying")
  /\ UNCHANGED <<at, pending, client, session, report>>

ExecutionThrows(r) ==
  /\ pc[r] \in {"executing", "running"}
  /\ lock' = Nobody
  /\ End(r, "failed", "failed")
  /\ UNCHANGED <<at, client>>

(* Mutant: the status is always persisted as completed. *)
VerifiedCompleted(r) ==
  /\ pc[r] = "verifying"
  /\ End(r, "completed", IF step[r] = NumSteps THEN "success" ELSE "failed")
  /\ UNCHANGED <<at, client, lock>>

(* Verification passes if executePlan completed, whatever was discovered. *)
Verified(r) ==
  /\ pc[r] = "verifying"
  /\ \/ step[r] = NumSteps /\ End(r, "completed", "success")
     \/ step[r] < NumSteps /\ End(r, "failed", "failed")
  /\ UNCHANGED <<at, client, lock>>

-----------------------------------------------------------------------------
(* Answers. *)

(* A cache answer: the pipeline goes on, with the cached plan or without. *)
ContinuePipeline(r) ==
  /\ gate[r] = CacheGate
  /\ Goto(r, "cached")
  /\ UNCHANGED <<lock, session, report>>

RejectPlan(r) ==
  /\ gate[r] = PlanGate
  /\ End(r, "completed", "plan_rejected")
  /\ UNCHANGED lock

(* acquireLock is synchronous: held by another request, the run is over.   *)
StartExecution(r) ==
  /\ gate[r] = PlanGate
  /\ \/ lock = Nobody /\ lock' = {r} /\ Goto(r, "executing")
     \/ lock # Nobody /\ Goto(r, "verifying") /\ UNCHANGED lock
  /\ UNCHANGED <<session, report>>

RunStep(r) ==
  /\ gate[r] > PlanGate
  /\ Goto(r, "running")
  /\ UNCHANGED <<lock, session, report>>

(* Mutant: a refused step does not pass the finally block. *)
RefuseStepKeepsLock(r) ==
  /\ gate[r] > PlanGate
  /\ Goto(r, "verifying")
  /\ UNCHANGED <<lock, session, report>>

RefuseStep(r) ==
  /\ gate[r] > PlanGate
  /\ lock' = Nobody
  /\ Goto(r, "verifying")
  /\ UNCHANGED <<session, report>>

(* POST /approve, /plan-approve and /step-approve: the client of q answers  *)
(* the question it was asked; the session and gate select the resolver.    *)
Answer(q) ==
  LET s == SessionOf[q] IN
  /\ pc[q] = "waiting" /\ q \notin gone
  /\ \E r \in pending[s][gate[q]] :
       /\ \/ RejectPlan(r)
          \/ /\ ContinuePipeline(r) \/ StartExecution(r) \/ RunStep(r) \/ RefuseStep(r)
             /\ pending' = [pending EXCEPT ![s][gate[q]] = Nobody]
       /\ gate' = [gate EXCEPT ![r] = CacheGate]
       /\ answeredBy' = [answeredBy EXCEPT ![r] = @ \cup {q}]
  /\ UNCHANGED <<step, listening, gone>>

(* req.on('close') fires once the body was read, while the pipeline runs:   *)
(* it rejects whatever the session has pending.                            *)
CloseQuietly(r) ==
  /\ r \in listening
  /\ \A g \in Gates : pending[SessionOf[r]][g] = Nobody
  /\ listening' = listening \ {r}
  /\ UNCHANGED <<pc, at, pending, lock, session, report, gone, answeredBy>>

Victims(s) == UNION {pending[s][g] : g \in Gates}

CloseRejects(r) ==
  LET s == SessionOf[r]
      rejected == {q \in Victims(s) : gate[q] = PlanGate}
      refused == {q \in Victims(s) : gate[q] > PlanGate}
  IN
  /\ r \in listening
  /\ Victims(s) # {}
  /\ listening' = listening \ {r}
  /\ pc' = [q \in Requests |->
              IF q \in rejected THEN "ended" ELSE
              IF q \in refused THEN "verifying" ELSE
              IF q \in Victims(s) THEN "cached" ELSE pc[q]]
  /\ gate' = [q \in Requests |-> IF q \in Victims(s) THEN CacheGate ELSE gate[q]]
  /\ pending' = [pending EXCEPT ![s] = [g \in Gates |-> Nobody]]
  /\ lock' = IF refused = {} THEN lock ELSE Nobody
  /\ status' = IF rejected = {} THEN status ELSE [status EXCEPT ![s] = "completed"]
  /\ summary' = [q \in Requests |-> IF q \in rejected THEN usage[s] ELSE summary[q]]
  /\ complete' = [q \in Requests |->
                    IF q \in rejected THEN "plan_rejected" ELSE complete[q]]
  /\ usage' = IF rejected = {} THEN usage ELSE [usage EXCEPT ![s] = {}]
  /\ UNCHANGED <<step, gone, answeredBy>>

(* The client goes away while its request waits: no code notices. *)
Disconnect(r) ==
  /\ pc[r] = "waiting" /\ r \notin gone
  /\ gone' = gone \cup {r}
  /\ UNCHANGED <<pc, at, pending, listening, lock, session, report, answeredBy>>

Work(r) ==
  \/ CloseQuietly(r) \/ CloseRejects(r)
  \/ CacheHit(r) \/ PlanReady(r) \/ NoPlan(r) \/ PipelineThrows(r)
  \/ ReadStep(r) \/ AskStep(r) \/ StepSettles(r) \/ ExecutionReturns(r) \/ ExecutionThrows(r)
  \/ Verified(r)

Next ==
  \E r \in Requests :
    Open(r) \/ CallModel(r) \/ Work(r) \/ Answer(r) \/ Disconnect(r)

Spec == Init /\ [][Next]_vars

(* Model calls and commands have timeouts, the event loop runs every        *)
(* callback, and an admin who is still there answers.                       *)
FairSpec ==
  Spec /\ \A r \in Requests : WF_vars(Work(r)) /\ WF_vars(Answer(r))
-----------------------------------------------------------------------------
(* Properties. *)

TypeOK ==
  /\ pc \in [Requests -> Location]
  /\ gate \in [Requests -> Gates]
  /\ step \in [Requests -> 0..NumSteps]
  /\ pending \in [Sessions -> [Gates -> {Nobody} \cup {{r} : r \in Requests}]]
  /\ \A r \in Requests : pc[r] = "running" => step[r] < NumSteps
  /\ lock \in {Nobody} \cup {{r} : r \in Requests}
  /\ status \in [Sessions -> Status]
  /\ usage \in [Sessions -> SUBSET Requests]
  /\ summary \in [Requests -> SUBSET Requests]
  /\ complete \in [Requests -> Complete]
  /\ answeredBy \in [Requests -> SUBSET Requests]
  /\ listening \subseteq Requests /\ gone \subseteq Requests

(* No other request has the session id of this one. *)
Alone(r) == \A q \in Requests : SessionOf[q] = SessionOf[r] => q = r

WaitsAt(r, s, g) == pc[r] = "waiting" /\ gate[r] = g /\ SessionOf[r] = s

(* A registered resolver is that of a request waiting at this very gate:    *)
(* no answer, close, throw or clean-up leaves one behind for a later        *)
(* request of the session, even when sessions are shared.                  *)
NoStaleResolver ==
  \A s \in Sessions, g \in Gates : \A r \in pending[s][g] : WaitsAt(r, s, g)

(* The requests at work on the target, waits for a step's answer included. *)
OnTarget ==
  {r \in Requests : \/ pc[r] \in {"executing", "running"}
                    \/ pc[r] = "waiting" /\ gate[r] > PlanGate}

(* The target's lock is held by the one request at work on it, and by no    *)
(* one else: every way out of executePlan releases it, a close event that  *)
(* refuses another request's step included.                                *)
LockFollowsWork == OnTarget = lock

(* A request with a session of its own can be answered whenever it waits,  *)
(* goes on with nobody else's answer and reports its own usage: nothing the *)
(* other sessions do at the shared maps reaches it.                        *)
AloneIsIsolated ==
  \A r \in Requests : Alone(r) =>
    /\ pc[r] = "waiting" => pending[SessionOf[r]][gate[r]] = {r}
    /\ answeredBy[r] \subseteq {r}
    /\ summary[r] \subseteq {r}

(* The dpev:complete event and the persisted status tell the same story; a  *)
(* rejected plan is persisted as completed though nothing was applied.      *)
OutcomeIsPersisted ==
  \A r \in Requests : Alone(r) /\ complete[r] # "none" =>
    status[SessionOf[r]] = IF complete[r] = "failed" THEN "failed" ELSE "completed"

(* A request with a session of its own ends unless its client is gone,      *)
(* whatever the requests that share a session do to each other or to the   *)
(* lock of the target.                                                     *)
AloneEnds ==
  \A r \in Requests : Alone(r) =>
    (pc[r] = "pipeline" ~> (pc[r] = "ended" \/ r \in gone))
=============================================================================
