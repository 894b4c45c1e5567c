------------------------------ MODULE LivePanel ------------------------------
(***************************************************************************)
(* The panel of a live debug session in the terminal (ui/panels/           *)
(* DPEVPanel.tsx, ui/hooks/useDPEV.ts, ui/hooks/useSSE.ts and the approval  *)
(* components) and the server that streams to it.                          *)
(*                                                                         *)
(* Events reach the panel in order on one connection; an answer and its     *)
(* response travel on another, so that events may overtake a response.      *)
(* Ink renders each dispatch before the next key or message is handled, so  *)
(* the reducer's state and what is mounted change together.                 *)
(***************************************************************************)
EXTENDS Naturals, Sequences

CONSTANTS
  NumSteps,      \* steps of the fix plan
  EarlyPhases,   \* phases the pipeline may report before the plan
  MaxLost        \* answers whose POST may fail on the way

ASSUME PanelAssumption ==
  NumSteps \in Nat \ {0} /\ EarlyPhases \in Nat /\ MaxLost \in Nat

VARIABLES
  srv,           \* the request at the server
  sse,           \* events sent and not yet read
  posts,         \* answers on their way, and their responses
  view,          \* the reducer's state
  gate,          \* the approval component on screen
  lost,          \* answers whose POST failed
  overtaken      \* history: a response came after events that made it stale

panelVars == <<srv, sse, posts, view, gate, lost, overtaken>>

Execution == EarlyPhases + 1
Verification == EarlyPhases + 2
PhaseName == 1..Verification

(* dpev:cache-hit, dpev:plan-approval, dpev:phase (start, done), exec:step,  *)
(* exec:approval by risk (write, destructive), dpev:verification,           *)
(* dpev:complete by outcome and dpev:error.                                 *)
Outcome == {"plan_rejected", "success", "failed"}
EventType == {"cache", "plan", "start", "done", "steps", "write", "destructive",
              "verified", "error"} \cup Outcome
Event == [t : EventType, n : 0..(NumSteps + EarlyPhases + 2)]
Ev(t) == [t |-> t, n |-> 0]
EvOf(t, n) == [t |-> t, n |-> n]

(* The gate on screen, the step it asks about, and whether it took a key.   *)
NoGate == [kind |-> "none", k |-> 0, answered |-> FALSE]
Gate == [kind : {"none", "cache", "plan", "write", "destructive"},
         k : 0..NumSteps, answered : BOOLEAN]

InitView ==
  [status |-> "idle", sid |-> FALSE, cacheHit |-> FALSE, planPending |-> FALSE,
   pending |-> 0, risk |-> "write", steps |-> FALSE, phases |-> <<>>,
   focus |-> 0, expanded |-> {}]

Idle == [at |-> "off", k |-> 0, started |-> 0, open |-> FALSE, hit |-> FALSE,
         how |-> "failed"]

-----------------------------------------------------------------------------
(* dpevReducer, one operator per action that the properties can tell from   *)
(* another.  Tokens, labels, usage and summaries only fill in text.         *)

PhaseStart(v, p) ==
  [v EXCEPT !.phases = Append(@, [name |-> p, active |-> TRUE]),
            !.status = "streaming"]

(* A phase that never started is added as complete. *)
PhaseComplete(v, p) ==
  IF \E i \in DOMAIN v.phases : v.phases[i].name = p
  THEN [v EXCEPT !.phases = [i \in DOMAIN @ |->
                               IF @[i].name = p THEN [@[i] EXCEPT !.active = FALSE]
                                                ELSE @[i]]]
  ELSE [v EXCEPT !.phases = Append(@, [name |-> p, active |-> FALSE])]

CacheHit(v) == [v EXCEPT !.cacheHit = TRUE, !.status = "awaiting-approval"]

PlanApprovalRequired(v) ==
  [v EXCEPT !.sid = TRUE, !.planPending = TRUE, !.status = "plan-approval"]

StepUpdate(v) ==
  [v EXCEPT !.steps = TRUE,
            !.status = IF @ = "awaiting-approval" THEN @ ELSE "executing"]

ApprovalRequired(v, risk, k) ==
  [v EXCEPT !.pending = k, !.risk = risk, !.status = "awaiting-approval"]

(* The response of either gate is the same action: the flag of the plan     *)
(* gate says which one it is taken for.                                     *)
ApprovalResponse(v, yes) ==
  IF v.planPending
  THEN [v EXCEPT !.planPending = FALSE,
                 !.status = IF yes THEN "executing" ELSE "complete"]
  ELSE [v EXCEPT !.pending = 0,
                 !.status = IF v.steps THEN "executing" ELSE "streaming"]

Completed(v) == [v EXCEPT !.sid = TRUE, !.status = "complete"]
Failed(v) == [v EXCEPT !.status = "error"]

(* handleSSEEvent and the reducer: the state after one event. *)
Reduce(v, e) ==
  CASE e.t = "start" -> PhaseStart(v, e.n)
    [] e.t = "done" -> PhaseComplete(v, e.n)
    [] e.t = "cache" -> CacheHit(v)
    [] e.t = "plan" -> PlanApprovalRequired(v)
    [] e.t = "steps" -> StepUpdate(v)
    [] e.t \in {"write", "destructive"} -> ApprovalRequired(v, e.t, e.n)
    [] e.t = "verified" -> v
    [] e.t \in Outcome -> Completed(v)
    [] e.t = "error" -> Failed(v)

-----------------------------------------------------------------------------
(* What is on screen. *)

(* The gates the panel renders: the banner of a cache hit, the plan, the    *)
(* step.  The status lets at most one of them show.                         *)
Shown(v) ==
  CASE v.status = "plan-approval" -> [kind |-> "plan", k |-> 0]
    [] v.status = "awaiting-approval" /\ v.pending # 0 -> [kind |-> v.risk, k |-> v.pending]
    [] v.status = "awaiting-approval" /\ v.pending = 0 /\ v.cacheHit
         -> [kind |-> "cache", k |-> 0]
    [] OTHER -> [kind |-> "none", k |-> 0]

(* Mutant: one component for every gate, which keeps its state. *)
RenderKeepsAnswered(v) ==
  LET s == Shown(v) IN gate' = [kind |-> s.kind, k |-> s.k, answered |-> gate.answered]

(* Render: a component that stays in place keeps its state, whatever its    *)
(* command now is; another one is mounted unanswered.                       *)
Render(v) ==
  LET s == Shown(v) IN
  gate' = [kind |-> s.kind, k |-> s.k,
           answered |-> gate.answered /\ s.kind = gate.kind]

Focused(v) == IF v.focus = 0 THEN Len(v.phases) ELSE v.focus

(* The body of a finished phase shows when it is expanded; an active phase  *)
(* streams whatever expandedPhases says.                                    *)
CanCollapse(v) ==
  LET i == Focused(v) IN i > 0 /\ ~v.phases[i].active /\ i \in v.expanded

(* isPhaseInputActive: an open gate owns the keyboard. *)
PhaseInputActive(v) ==
  v.pending = 0 /\ v.status \notin {"awaiting-approval", "plan-approval"}

(* Mutant: no clamp. *)
FocusAnyPhase(v, i) == [v EXCEPT !.focus = i]

(* PHASE_FOCUS clamps to the phases there are. *)
FocusPhase(v, i) ==
  LET n == Len(v.phases) IN
  [v EXCEPT !.focus = IF i < 1 THEN 1 ELSE IF i > n THEN n ELSE i]

(* handlePhaseInput: arrows move the focus, Enter expands a finished phase, *)
(* Esc collapses.                                                           *)
PhaseKey(v, key) ==
  LET i == Focused(v) IN
  CASE v.phases = <<>> -> v
    [] v.phases # <<>> /\ key = "up" -> FocusPhase(v, i - 1)
    [] v.phases # <<>> /\ key = "down" -> FocusPhase(v, i + 1)
    [] v.phases # <<>> /\ key = "enter" ->
         IF v.phases[i].active THEN v ELSE [v EXCEPT !.expanded = @ \cup {i}]
    [] v.phases # <<>> /\ key = "esc" -> [v EXCEPT !.expanded = @ \ {i}]
    [] OTHER -> v

-----------------------------------------------------------------------------
(* The server's side of the request (stream-debug.ts): one action per       *)
(* stretch of code between two awaits.                                     *)

Send(es) == sse' = sse \o es
To(place) == srv' = [srv EXCEPT !.at = place]
EndAs(how) == srv' = [srv EXCEPT !.at = "ended", !.how = how]

Bystanders == <<posts, view, gate, lost, overtaken>>

StartPhase ==
  /\ srv.at = "pipeline" /\ ~srv.open /\ srv.started < EarlyPhases
  /\ srv' = [srv EXCEPT !.open = TRUE, !.started = @ + 1]
  /\ Send(<<EvOf("start", srv.started + 1)>>)
  /\ UNCHANGED Bystanders

EndPhase ==
  /\ srv.at = "pipeline" /\ srv.open
  /\ srv' = [srv EXCEPT !.open = FALSE]
  /\ Send(<<EvOf("done", srv.started)>>)
  /\ UNCHANGED Bystanders

AskCache ==
  /\ srv.at = "pipeline" /\ ~srv.open /\ ~srv.hit
  /\ srv' = [srv EXCEPT !.at = "cacheGate", !.hit = TRUE]
  /\ Send(<<Ev("cache")>>)
  /\ UNCHANGED Bystanders

AskPlan ==
  /\ srv.at = "pipeline" /\ ~srv.open
  /\ To("planGate")
  /\ Send(<<Ev("plan")>>)
  /\ UNCHANGED Bystanders

(* No plan: planning or the sanity check failed, with its phase left open.    *)
NoActionablePlan ==
  /\ srv.at = "pipeline"
  /\ EndAs("failed")
  /\ Send(<<Ev("error"), Ev("failed")>>)
  /\ UNCHANGED Bystanders

(* Mutant: the stream just ends. *)
PipelineThrowsSilently ==
  srv.at = "pipeline" /\ EndAs("failed") /\ UNCHANGED <<sse, Bystanders>>

(* runDPEV throws: dpev:error and no dpev:complete. *)
PipelineThrows ==
  /\ srv.at = "pipeline"
  /\ EndAs("failed")
  /\ Send(<<Ev("error")>>)
  /\ UNCHANGED Bystanders

(* A read step runs unasked; any other asks first. *)
ReadStep ==
  /\ srv.at = "running" /\ srv.k < NumSteps
  /\ srv' = [srv EXCEPT !.k = @ + 1]
  /\ UNCHANGED <<sse, Bystanders>>

AskStep ==
  /\ srv.at = "running" /\ srv.k < NumSteps
  /\ srv' = [srv EXCEPT !.at = "stepGate", !.k = @ + 1]
  /\ \E risk \in {"write", "destructive"} : Send(<<EvOf(risk, srv.k + 1)>>)
  /\ UNCHANGED Bystanders

(* executePlan returns, completed or not: the results, then verification.   *)
ResultEvents ==
  <<Ev("steps"), EvOf("done", Execution), EvOf("start", Verification)>>

ExecutionReturns ==
  /\ srv.at = "running"
  /\ \E how \in {"success", "failed"} :
       /\ how = "success" => srv.k = NumSteps
       /\ srv' = [srv EXCEPT !.at = "verifying", !.how = how]
  /\ Send(ResultEvents)
  /\ UNCHANGED Bystanders

ExecutionThrows ==
  /\ srv.at = "running"
  /\ EndAs("failed")
  /\ Send(<<Ev("error"), Ev("failed")>>)
  /\ UNCHANGED Bystanders

Verified ==
  /\ srv.at = "verifying"
  /\ To("ended")
  /\ Send(<<Ev("verified"), EvOf("done", Verification), Ev(srv.how)>>)
  /\ UNCHANGED Bystanders

(* An answer that matches the gate the request waits at: plan-approve and   *)
(* step-approve resolve it, and the request goes on.  No answer to a cache   *)
(* hit has a session id, and step answers are by step.                      *)
Resolves(p) ==
  \/ srv.at = "planGate" /\ p.kind = "plan"
  \/ srv.at = "stepGate" /\ p.kind \in {"write", "destructive"} /\ p.k = srv.k

PlanApproved ==
  To("running") /\ Send(<<EvOf("start", Execution), Ev("steps")>>)

PlanRejected ==
  EndAs("plan_rejected") /\ Send(<<Ev("plan_rejected")>>)

StepApproved == To("running") /\ UNCHANGED sse

(* A refused step halts executePlan. *)
StepRefused ==
  srv' = [srv EXCEPT !.at = "verifying", !.how = "failed"] /\ Send(ResultEvents)

Replied(p, st) == posts' = (posts \ {p}) \cup {[p EXCEPT !.st = st]}

AcceptAnswer(p) ==
  /\ p.st = "sent" /\ p.sid /\ Resolves(p)
  /\ \/ p.kind = "plan" /\ p.yes /\ PlanApproved
     \/ p.kind = "plan" /\ ~p.yes /\ PlanRejected
     \/ p.kind # "plan" /\ p.yes /\ StepApproved
     \/ p.kind # "plan" /\ ~p.yes /\ StepRefused
  /\ Replied(p, "ok")
  /\ UNCHANGED <<view, gate, lost, overtaken>>

(* 400 without a session id; 404 when nothing of the kind is pending. *)
RefuseAnswer(p) ==
  /\ p.st = "sent" /\ ~(p.sid /\ Resolves(p))
  /\ Replied(p, "failed")
  /\ UNCHANGED <<srv, sse, view, gate, lost, overtaken>>

Server ==
  \/ StartPhase \/ EndPhase \/ AskCache \/ AskPlan \/ NoActionablePlan \/ PipelineThrows
  \/ ReadStep \/ AskStep \/ ExecutionReturns \/ ExecutionThrows \/ Verified
  \/ \E p \in posts : AcceptAnswer(p) \/ RefuseAnswer(p)

-----------------------------------------------------------------------------
(* The panel. *)

(* useSSE: the next event is reduced and rendered. *)
Receive ==
  /\ sse # <<>>
  /\ sse' = Tail(sse)
  /\ view' = Reduce(view, Head(sse))
  /\ Render(view')
  /\ UNCHANGED <<srv, posts, lost, overtaken>>

(* The open gate takes its first key and posts the answer, with the session *)
(* id the panel has so far.  It stays as it is until its answer is confirmed. *)
Answer(yes) ==
  /\ gate.kind # "none" /\ ~gate.answered
  /\ gate' = [gate EXCEPT !.answered = TRUE]
  /\ posts' = posts \cup {[kind |-> gate.kind, k |-> gate.k, sid |-> view.sid,
                           yes |-> yes, st |-> "sent"]}

(* The POST does not reach the server: an error line, and no second try. *)
LoseAnswer(p) ==
  /\ p.st = "sent" /\ lost < MaxLost
  /\ posts' = posts \ {p}
  /\ lost' = lost + 1
  /\ UNCHANGED <<srv, sse, view, gate, overtaken>>

Final(v) == v.status \in {"complete", "error"}

(* The response: APPROVAL_RESPONSE if it was accepted, else an error line.  *)
AnswerConfirmed(p) ==
  /\ p.st = "ok"
  /\ view' = ApprovalResponse(view, p.yes)
  /\ Render(view')
  /\ posts' = posts \ {p}
  /\ overtaken' = (overtaken \/ Final(view) \/ view.pending \notin {0, p.k})
  /\ UNCHANGED <<srv, sse, lost>>

AnswerFailed(p) ==
  /\ p.st = "failed"
  /\ posts' = posts \ {p}
  /\ UNCHANGED <<srv, sse, view, gate, lost, overtaken>>

Wire ==
  Receive \/ \E p \in posts : LoseAnswer(p) \/ AnswerConfirmed(p) \/ AnswerFailed(p)

PanelInit ==
  /\ srv = Idle /\ sse = <<>> /\ posts = {} /\ view = InitView /\ gate = NoGate
  /\ lost = 0 /\ overtaken = FALSE

(* Mounted for a prompt: a new stream. *)
Mount ==
  /\ srv' = [Idle EXCEPT !.at = "pipeline"]
  /\ sse' = <<>> /\ posts' = {} /\ view' = InitView /\ gate' = NoGate
  /\ lost' = 0 /\ overtaken' = FALSE

(* Unmounted: the stream is aborted and late responses find no panel. *)
Unmount ==
  /\ srv' = Idle
  /\ sse' = <<>> /\ posts' = {} /\ view' = InitView /\ gate' = NoGate
  /\ lost' = 0 /\ overtaken' = FALSE
=============================================================================
