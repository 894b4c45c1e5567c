--------------------------- MODULE Terminal_proofs ---------------------------
(***************************************************************************)
(* The panel and the server that streams to it, for plans of any length,    *)
(* any number of early phases, past sessions and failing POSTs, and an      *)
(* admin who presses any key at any time.  The inductive invariant says      *)
(* what may be on its way while neither a POST was lost nor a response      *)
(* overtaken.                                                               *)
(***************************************************************************)
EXTENDS Terminal, SequenceTheorems, TLAPS

Gates == {"cacheGate", "planGate", "stepGate"}
StepKind == {"write", "destructive"}
Status == {"idle", "streaming", "awaiting-approval", "plan-approval", "executing",
           "complete", "error"}
Phase == [name : Nat, active : BOOLEAN]
View ==
  [status : Status, sid : BOOLEAN, cacheHit : BOOLEAN, planPending : BOOLEAN,
   pending : 0..NumSteps, risk : StepKind, steps : BOOLEAN, phases : Seq(Phase),
   focus : Nat, expanded : SUBSET Nat]
Post == [kind : {"cache", "plan", "write", "destructive"}, k : 0..NumSteps,
         sid : BOOLEAN, yes : BOOLEAN, st : {"sent", "ok", "failed"}]

(* What the server tells without waiting for an answer. *)
Statement == EventType \ ({"cache", "plan"} \cup StepKind)

(* An event about a step names one. *)
Sensible(e) == e \in Event /\ (e.t \in StepKind => e.n \in 1..NumSteps)

AllSensible(es) == \A i \in DOMAIN es : Sensible(es[i])
AllOf(es, T) == \A i \in DOMAIN es : es[i].t \in T

ViewTyped == view \in View /\ AllSensible(sse)

(* What is on screen is what the status asks for. *)
GateIsShown ==
  /\ gate.kind = Shown(view).kind /\ gate.k = Shown(view).k
  /\ gate.kind = "none" => ~gate.answered

(* A session makes a replay go away, and a replay a session. *)
OneInCenter == replay # None => prompt = None

(* What was reported is of the session on screen. *)
ReportIsOwn == prompt = None => ~reported

Sound == lost = 0 /\ ~overtaken

(* The event that tells the panel where the server is. *)
Announces(e) ==
  \/ srv.at = "cacheGate" /\ e.t = "cache"
  \/ srv.at = "planGate" /\ e.t = "plan"
  \/ srv.at = "stepGate" /\ e.t \in StepKind /\ e.n = srv.k
  \/ srv.at = "ended" /\ e.t \in Outcome \cup {"error"}

(* A question is the last thing the server says before it waits, and it has  *)
(* gone on only with an answer, so that no question is behind another event. *)
QuestionComesLast ==
  /\ \A i \in DOMAIN sse :
       sse[i].t \in {"cache", "plan"} \cup StepKind => i = Len(sse) /\ srv.at \in Gates
  /\ sse # <<>> /\ srv.at \in Gates \cup {"ended"} => Announces(sse[Len(sse)])

(* Up to the first question nothing is asked and nothing answered. *)
Beginning ==
  srv.at \in {"off", "pipeline"} \/ (srv.at \in {"cacheGate", "planGate"} /\ sse # <<>>) =>
    /\ posts = {} /\ view.pending = 0 /\ view.status \in {"idle", "streaming"}
    /\ \A i \in DOMAIN sse : sse[i].t \in {"start", "done", "cache", "plan"}

AtCache ==
  srv.at = "cacheGate" =>
    /\ \A p \in posts : p.kind = "cache" /\ p.st # "ok"
    /\ sse = <<>> => view.status = "awaiting-approval" /\ view.pending = 0 /\ view.cacheHit

AtPlan ==
  srv.at = "planGate" /\ sse = <<>> =>
    /\ view.status = "plan-approval" /\ view.sid
    /\ \A p \in posts : p.kind = "plan" /\ p.k = 0 /\ p.sid /\ p.st = "sent"
    /\ \A p, q \in posts : p = q
    /\ gate.answered <=> posts # {}

(* From the approval of the plan on, an answer that is on its way is the one *)
(* the server waits for, or its response is due.                            *)
Awaited(p) ==
  /\ srv.at = "stepGate" /\ sse = <<>>
  /\ p.st = "sent" /\ p.sid /\ p.kind \in StepKind /\ p.k = srv.k
Settled(p) == p.st = "ok" /\ p.k <= srv.k /\ (srv.at = "stepGate" => p.k < srv.k)

(* A gate that was answered stays until a response comes, and one that was   *)
(* not is the one the server waits at.                                      *)
Later ==
  srv.at \in {"running", "stepGate", "verifying", "ended"} =>
    /\ \A p \in posts : Awaited(p) \/ Settled(p)
    /\ \A p, q \in posts : p.st = "sent" /\ q.st = "sent" => p = q
    /\ gate.kind # "none" /\ gate.answered => posts # {}
    /\ gate.kind # "none" /\ ~gate.answered =>
         srv.at = "stepGate" /\ sse = <<>> /\ \A p \in posts : p.st # "sent"

AtStep ==
  /\ srv.at \in {"running", "stepGate", "verifying"} => view.sid
  /\ srv.at = "stepGate" => srv.k > 0
  /\ srv.at = "stepGate" /\ sse = <<>> =>
       view.status = "awaiting-approval" /\ view.pending = srv.k

AtEnd == srv.at = "ended" /\ sse = <<>> => Final(view)

Protocol ==
  QuestionComesLast /\ Beginning /\ AtCache /\ AtPlan /\ Later /\ AtStep /\ AtEnd

(* TypeOK, in its two halves. *)
Srv == [at : {"off", "pipeline", "cacheGate", "planGate", "running", "stepGate",
              "verifying", "ended"},
        k : 0..NumSteps, started : 0..EarlyPhases, open : BOOLEAN, hit : BOOLEAN,
        how : Outcome]
PanelTypes ==
  /\ srv \in Srv /\ sse \in Seq(Event) /\ posts \subseteq Post /\ gate \in Gate
  /\ view.focus \in 0..Len(view.phases) /\ view.expanded \subseteq DOMAIN view.phases
  /\ lost \in 0..MaxLost /\ overtaken \in BOOLEAN
AppTypes ==
  /\ prompt \in Prompts \cup {None} /\ replay \in Past \cup {None}
  /\ panel \in Panel /\ overlays \subseteq {"status", "entity"} /\ fetching \subseteq Past
  /\ reported \in BOOLEAN

PanelInv == PanelTypes /\ ViewTyped /\ GateIsShown /\ (Sound => Protocol)
IInv == PanelInv /\ AppTypes /\ OneInCenter /\ ReportIsOwn

-----------------------------------------------------------------------------
(* Lemmas on the operators of the model. *)

(* What an event makes of the view. *)
LEMMA ReduceFacts ==
  ASSUME NEW v \in View, NEW e, Sensible(e)
  PROVE  /\ Reduce(v, e) \in View
         /\ Reduce(v, e).focus = v.focus /\ Reduce(v, e).expanded = v.expanded
         /\ Len(Reduce(v, e).phases) \in {Len(v.phases), Len(v.phases) + 1}
         /\ v.sid => Reduce(v, e).sid
         /\ e.t = "start" => Reduce(v, e).status = "streaming"
         /\ e.t \in {"done", "verified"} => Reduce(v, e).status = v.status
         /\ e.t = "cache" => Reduce(v, e).status = "awaiting-approval" /\ Reduce(v, e).cacheHit
         /\ e.t = "plan" => Reduce(v, e).status = "plan-approval" /\ Reduce(v, e).sid
         /\ e.t = "steps" => Reduce(v, e).status \in {v.status, "executing"}
                             /\ (v.status = "plan-approval" => Reduce(v, e).status = "executing")
         /\ e.t \in StepKind => Reduce(v, e).status = "awaiting-approval" /\ Reduce(v, e).pending = e.n
         /\ e.t \in Outcome \cup {"error"} => Final(Reduce(v, e))
         /\ e.t \notin StepKind => Reduce(v, e).pending = v.pending /\ Reduce(v, e).risk = v.risk
         /\ e.t # "cache" => Reduce(v, e).cacheHit = v.cacheHit
<1> USE PanelAssumption DEF Sensible, Event, Outcome, View, Status, StepKind, Final
<1>1. CASE e.t = "start"
  <2>1. [name |-> e.n, active |-> TRUE] \in Phase
    BY DEF Phase
  <2>2. Append(v.phases, [name |-> e.n, active |-> TRUE]) \in Seq(Phase)
        /\ Len(Append(v.phases, [name |-> e.n, active |-> TRUE])) = Len(v.phases) + 1
    BY <2>1
  <2> QED BY <1>1, <2>2 DEF Reduce, PhaseStart
<1>2. CASE e.t = "done"
  <2> DEFINE cut == [i \in DOMAIN v.phases |->
                      IF v.phases[i].name = e.n THEN [v.phases[i] EXCEPT !.active = FALSE]
                                                ELSE v.phases[i]]
             more == Append(v.phases, [name |-> e.n, active |-> FALSE])
  <2>1. cut \in Seq(Phase) /\ Len(cut) = Len(v.phases)
    <3>1. v.phases \in Seq(Phase) /\ DOMAIN v.phases = 1..Len(v.phases) /\ Len(v.phases) \in Nat
      OBVIOUS
    <3>2. ASSUME NEW i \in 1..Len(v.phases) PROVE cut[i] \in Phase
      <4>1. v.phases[i] \in Phase
        BY <3>1
      <4>2. [v.phases[i] EXCEPT !.active = FALSE] \in Phase
        BY <4>1 DEF Phase
      <4> QED BY <3>1, <4>1, <4>2
    <3>3. cut = [i \in 1..Len(v.phases) |-> cut[i]]
      BY <3>1
    <3> HIDE DEF cut
    <3> QED BY <3>1, <3>2, <3>3
  <2>2. more \in Seq(Phase) /\ Len(more) = Len(v.phases) + 1
    BY DEF Phase
  <2>3. Reduce(v, e) \in {[v EXCEPT !.phases = cut], [v EXCEPT !.phases = more]}
    BY <1>2 DEF Reduce, PhaseComplete
  <2> HIDE DEF cut, more
  <2> QED BY <1>2, <2>1, <2>2, <2>3
<1>3. CASE e.t = "cache"
  BY <1>3 DEF Reduce, CacheHit
<1>4. CASE e.t = "plan"
  BY <1>4 DEF Reduce, PlanApprovalRequired
<1>5. CASE e.t = "steps"
  BY <1>5 DEF Reduce, StepUpdate
<1>6. CASE e.t \in StepKind
  <2>1. e.n \in 0..NumSteps
    BY <1>6
  <2>2. Reduce(v, e) = [v EXCEPT !.pending = e.n, !.risk = e.t, !.status = "awaiting-approval"]
    BY <1>6 DEF Reduce, ApprovalRequired
  <2> QED BY <1>6, <2>1, <2>2
<1>7. CASE e.t = "verified"
  BY <1>7 DEF Reduce
<1>8. CASE e.t \in Outcome
  BY <1>8 DEF Reduce, Completed
<1>9. CASE e.t = "error"
  BY <1>9 DEF Reduce, Failed
<1> QED BY <1>1, <1>2, <1>3, <1>4, <1>5, <1>6, <1>7, <1>8, <1>9 DEF EventType

(* Arrows, Enter and Esc touch the focus and what is expanded only. *)
LEMMA PhaseKeyFacts ==
  ASSUME NEW v \in View, NEW key,
         v.focus \in 0..Len(v.phases), v.expanded \subseteq DOMAIN v.phases
  PROVE  \E f \in 0..Len(v.phases), x \in SUBSET DOMAIN v.phases :
           PhaseKey(v, key) = [v EXCEPT !.focus = f, !.expanded = x]
<1>1. v = [v EXCEPT !.focus = v.focus, !.expanded = v.expanded]
  BY DEF View
<1>2. CASE v.phases = <<>>
  BY <1>1, <1>2 DEF PhaseKey
<1>3. CASE v.phases # <<>>
  <2>1. Len(v.phases) \in Nat \ {0} /\ DOMAIN v.phases = 1..Len(v.phases)
    BY <1>3 DEF View
  <2>2. Focused(v) \in DOMAIN v.phases
    BY <2>1 DEF Focused
  <2>3. ASSUME NEW i \in {Focused(v) - 1, Focused(v) + 1}
        PROVE  \E f \in 0..Len(v.phases) :
                 FocusPhase(v, i) = [v EXCEPT !.focus = f, !.expanded = v.expanded]
    <3> DEFINE f == IF i < 1 THEN 1 ELSE IF i > Len(v.phases) THEN Len(v.phases) ELSE i
    <3>1. f \in 0..Len(v.phases)
      BY <2>1, <2>2
    <3>2. FocusPhase(v, i) = [v EXCEPT !.focus = f]
      BY DEF FocusPhase
    <3>3. [v EXCEPT !.focus = f] = [v EXCEPT !.focus = f, !.expanded = v.expanded]
      BY DEF View
    <3> QED BY <3>1, <3>2, <3>3
  <2>4. CASE key = "up"
    BY <1>3, <2>3, <2>4 DEF PhaseKey
  <2>5. CASE key = "down"
    BY <1>3, <2>3, <2>5 DEF PhaseKey
  <2>6. CASE key = "enter"
    <3>1. [v EXCEPT !.expanded = @ \cup {Focused(v)}]
            = [v EXCEPT !.focus = v.focus, !.expanded = v.expanded \cup {Focused(v)}]
      BY DEF View
    <3>2. PhaseKey(v, key) = IF v.phases[Focused(v)].active THEN v
                             ELSE [v EXCEPT !.expanded = @ \cup {Focused(v)}]
      BY <1>3, <2>6 DEF PhaseKey
    <3> QED BY <1>1, <2>2, <3>1, <3>2
  <2>7. CASE key = "esc"
    <3>1. [v EXCEPT !.expanded = @ \ {Focused(v)}]
            = [v EXCEPT !.focus = v.focus, !.expanded = v.expanded \ {Focused(v)}]
      BY DEF View
    <3> QED BY <1>3, <2>7, <3>1 DEF PhaseKey
  <2>8. CASE key \notin {"up", "down", "enter", "esc"}
    BY <1>1, <1>3, <2>8 DEF PhaseKey
  <2> QED BY <2>4, <2>5, <2>6, <2>7, <2>8
<1> QED BY <1>2, <1>3
(* An event that asks nothing leaves the gate on screen, or removes it. *)
LEMMA QuietEvents ==
  ASSUME NEW v \in View, NEW e, Sensible(e), e.t \notin {"cache", "plan"} \cup StepKind
  PROVE  \/ Shown(Reduce(v, e)) = Shown(v)
         \/ Shown(Reduce(v, e)).kind = "none"
<1> DEFINE w == Reduce(v, e)
<1>1. /\ w.pending = v.pending /\ w.risk = v.risk /\ w.cacheHit = v.cacheHit
      /\ w.status = v.status \/ w.status \in {"streaming", "executing", "complete", "error"}
  BY ReduceFacts DEF Final, Sensible, Event, EventType, Outcome, StepKind
<1> HIDE DEF w
<1>2. w.status = v.status => Shown(w) = Shown(v)
  BY <1>1 DEF Shown
<1>3. w.status \in {"streaming", "executing", "complete", "error"} => Shown(w).kind = "none"
  BY DEF Shown
<1> QED BY <1>1, <1>2, <1>3 DEF w

(* After a response no gate is on screen. *)
LEMMA ResponseFacts ==
  ASSUME NEW v \in View, NEW yes \in BOOLEAN
  PROVE  /\ ApprovalResponse(v, yes) \in View
         /\ ApprovalResponse(v, yes).focus = v.focus
         /\ ApprovalResponse(v, yes).expanded = v.expanded
         /\ ApprovalResponse(v, yes).phases = v.phases
         /\ ApprovalResponse(v, yes).sid = v.sid
         /\ Shown(ApprovalResponse(v, yes)).kind = "none"
<1> DEFINE w == ApprovalResponse(v, yes)
<1>1. /\ w \in View /\ w.focus = v.focus /\ w.expanded = v.expanded
      /\ w.phases = v.phases /\ w.sid = v.sid
      /\ w.status \in {"executing", "complete", "streaming"}
  <2>1. CASE v.planPending
    BY <2>1 DEF ApprovalResponse, View, Status
  <2>2. CASE ~v.planPending
    <3> DEFINE st == IF v.steps THEN "executing" ELSE "streaming"
    <3>1. w = [v EXCEPT !.pending = 0, !.status = st]
      BY <2>2 DEF ApprovalResponse
    <3>2. st \in {"executing", "streaming"} /\ 0 \in 0..NumSteps
      BY PanelAssumption
    <3> HIDE DEF st, w
    <3> QED BY <3>1, <3>2 DEF View, Status
  <2> QED BY <2>1, <2>2
<1> HIDE DEF w
<1>2. Shown(w).kind = "none"
  BY <1>1 DEF Shown
<1> QED BY <1>1, <1>2 DEF w

(* The elements of a concatenation are those of its parts. *)
Joins(r, q, es) ==
  \A i \in DOMAIN r :
    \/ i \in DOMAIN q /\ r[i] = q[i]
    \/ i - Len(q) \in DOMAIN es /\ r[i] = es[i - Len(q)]

LEMMA SendFacts ==
  ASSUME NEW S, NEW q \in Seq(S), NEW es \in Seq(S)
  PROVE  /\ q \o es \in Seq(S) /\ Len(q \o es) = Len(q) + Len(es)
         /\ Len(es) > 0 => q \o es # <<>> /\ (q \o es)[Len(q \o es)] = es[Len(es)]
         /\ Joins(q \o es, q, es)
<1>1. q \o es \in Seq(S) /\ Len(q \o es) = Len(q) + Len(es)
  OBVIOUS
<1>2. Len(q) \in Nat /\ Len(es) \in Nat
  OBVIOUS
<1>3. Len(es) > 0 => q \o es # <<>> /\ (q \o es)[Len(q \o es)] = es[Len(es)]
  BY <1>1, <1>2
<1> DEFINE r == q \o es
<1>4. ASSUME NEW i \in DOMAIN r
      PROVE  \/ i \in DOMAIN q /\ r[i] = q[i]
             \/ i - Len(q) \in DOMAIN es /\ r[i] = es[i - Len(q)]
  <2>1. i \in 1..(Len(q) + Len(es))
    BY <1>1
  <2>2. CASE i <= Len(q)
    BY <1>2, <2>1, <2>2
  <2>3. CASE ~(i <= Len(q))
    <3>1. i - Len(q) \in 1..Len(es) /\ i > Len(q)
      BY <1>2, <2>1, <2>3
    <3> QED BY <2>1, <3>1, <1>2
  <2> QED BY <2>2, <2>3
<1>5. Joins(r, q, es)
  <2> HIDE DEF r
  <2> QED BY <1>4 DEF Joins
<1> QED BY <1>1, <1>3, <1>5

LEMMA TailFacts ==
  ASSUME NEW S, NEW q \in Seq(S), q # <<>>
  PROVE  /\ Tail(q) \in Seq(S) /\ Len(q) \in Nat \ {0} /\ Len(Tail(q)) = Len(q) - 1
         /\ Head(q) = q[1] /\ 1 \in DOMAIN q
         /\ \A i \in DOMAIN Tail(q) : i + 1 \in DOMAIN q /\ Tail(q)[i] = q[i + 1]
         /\ Tail(q) # <<>> => Len(q) # 1 /\ Tail(q)[Len(Tail(q))] = q[Len(q)]
         /\ Tail(q) = <<>> => Len(q) = 1
<1>1. Tail(q) \in Seq(S) /\ Len(q) \in Nat \ {0} /\ Len(Tail(q)) = Len(q) - 1
      /\ Head(q) = q[1] /\ 1 \in DOMAIN q
  OBVIOUS
<1>2. \A i \in DOMAIN Tail(q) : i + 1 \in DOMAIN q /\ Tail(q)[i] = q[i + 1]
  BY <1>1
<1>3. Tail(q) # <<>> => Len(Tail(q)) \in DOMAIN Tail(q) /\ Len(Tail(q)) # 0
  BY <1>1
<1> QED BY <1>1, <1>2, <1>3

(* What is on screen depends on status, question and cache hit. *)
LEMMA ShownFacts ==
  ASSUME PanelInv
  PROVE  /\ gate.kind # "none" => view.status \in {"awaiting-approval", "plan-approval"}
         /\ view.status = "plan-approval" => gate.kind = "plan" /\ gate.k = 0
         /\ view.status = "awaiting-approval" /\ view.pending # 0 =>
              gate.kind = view.risk /\ gate.k = view.pending
         /\ view.status = "awaiting-approval" /\ view.pending = 0 /\ view.cacheHit =>
              gate.kind = "cache"
<1>1. gate.kind = Shown(view).kind /\ gate.k = Shown(view).k
  BY DEF PanelInv, GateIsShown
<1> QED BY <1>1 DEF Shown

-----------------------------------------------------------------------------
(* The server. *)

(* It says something, while the panel stays as it is. *)
LEMMA SpeakTypes ==
  ASSUME PanelInv, NEW es \in Seq(Event), AllSensible(es), srv' \in Srv, sse' = sse \o es, UNCHANGED Bystanders
  PROVE  PanelTypes' /\ ViewTyped' /\ GateIsShown' /\ Sound' = Sound
<1>1. sse' \in Seq(Event) /\ AllSensible(sse')
  <2>1. sse \in Seq(Event) /\ AllSensible(sse)
    BY DEF PanelInv, PanelTypes, ViewTyped
  <2>2. sse' \in Seq(Event) /\ Joins(sse', sse, es)
    BY <2>1, SendFacts
  <2> QED BY <2>1, <2>2 DEF Joins, AllSensible
<1> QED BY <1>1 DEF PanelInv, PanelTypes, ViewTyped, GateIsShown, Sound, Bystanders

(* What it says on its way out of the pipeline, and where it goes. *)
AfterPipeline(es) ==
  \/ srv'.at = "pipeline" /\ AllOf(es, {"start", "done"})
  \/ srv'.at = "cacheGate" /\ Len(es) = 1 /\ es[1].t = "cache"
  \/ srv'.at = "planGate" /\ Len(es) = 1 /\ es[1].t = "plan"
  \/ srv'.at = "ended" /\ AllOf(es, Outcome \cup {"error"})

(* Out of the pipeline, where nothing was asked before. *)
LEMMA PipelineSpeaks ==
  ASSUME PanelInv, srv.at = "pipeline",
         NEW es \in Seq(Event), Len(es) > 0, AllSensible(es),
         srv' \in Srv, sse' = sse \o es, UNCHANGED Bystanders,
         AfterPipeline(es)
  PROVE  PanelInv'
<1>1. PanelTypes' /\ ViewTyped' /\ GateIsShown' /\ Sound' = Sound
  BY SpeakTypes
<1>2. ASSUME Sound PROVE Protocol'
  <2>1. Protocol /\ sse \in Seq(Event)
    BY <1>2 DEF PanelInv, PanelTypes
  <2>2. /\ posts = {} /\ view.pending = 0 /\ view.status \in {"idle", "streaming"}
        /\ \A i \in DOMAIN sse : sse[i].t \in {"start", "done"}
    BY <2>1 DEF Protocol, Beginning, QuestionComesLast, Gates
  <2>3. gate.kind = "none"
    BY <2>2, ShownFacts
  <2>4. /\ sse' # <<>> /\ sse'[Len(sse')] = es[Len(es)] /\ Len(sse') = Len(sse) + Len(es)
        /\ Len(sse) \in Nat /\ Len(es) \in Nat \ {0} /\ Len(es) \in DOMAIN es
        /\ DOMAIN sse' = 1..Len(sse')
    BY <2>1, SendFacts
  <2>5. Joins(sse', sse, es)
    BY <2>1, SendFacts
  <2>6. ASSUME NEW i \in DOMAIN sse', sse'[i].t \in {"cache", "plan"} \cup StepKind
        PROVE  i = Len(sse') /\ srv'.at \in Gates
    <3>1. i - Len(sse) \in DOMAIN es /\ sse'[i] = es[i - Len(sse)]
      BY <2>2, <2>5, <2>6 DEF StepKind, Joins
    <3>2. Len(es) = 1 /\ srv'.at \in Gates
      BY <3>1, <2>6 DEF StepKind, Outcome, Gates, AllOf, AfterPipeline
    <3>3. i - Len(sse) = 1 /\ i \in Nat
      BY <3>1, <3>2, <2>4
    <3> QED BY <3>2, <3>3, <2>4
  <2>7. srv'.at \in Gates \cup {"ended"} => Announces(sse[Len(sse)])'
    BY <2>4 DEF Announces, Gates, AllOf, AfterPipeline
  <2>8. QuestionComesLast'
    BY <2>6, <2>7 DEF QuestionComesLast
  <2>9. Beginning'
    <3>1. srv'.at # "ended" => \A i \in DOMAIN es : es[i].t \in {"start", "done", "cache", "plan"}
      BY <2>4 DEF AllOf, AfterPipeline
    <3> QED BY <2>2, <2>5, <3>1 DEF Beginning, Bystanders, Joins
  <2>10. AtCache' /\ AtPlan' /\ Later' /\ AtStep' /\ AtEnd'
    BY <2>2, <2>3, <2>4 DEF AtCache, AtPlan, Later, AtStep, AtEnd, Bystanders, AfterPipeline
  <2> QED BY <2>8, <2>9, <2>10 DEF Protocol
<1> QED BY <1>1, <1>2 DEF PanelInv

(* What it says when the plan runs or has run, and where it goes. *)
AfterRun(es) ==
  \/ /\ srv'.at \in {"running", "verifying", "ended"} /\ srv'.k >= srv.k
     /\ AllOf(es, Statement)
     /\ srv'.at = "ended" => Len(es) > 0 /\ es[Len(es)].t \in Outcome \cup {"error"}
  \/ /\ srv'.at = "stepGate" /\ srv'.k = srv.k + 1
     /\ Len(es) = 1 /\ es[1].t \in StepKind /\ es[1].n = srv'.k

(* While the plan runs, or after. *)
LEMMA RunnerSpeaks ==
  ASSUME PanelInv, srv.at \in {"running", "verifying"},
         NEW es \in Seq(Event), AllSensible(es),
         srv' \in Srv, sse' = sse \o es, UNCHANGED Bystanders,
         AfterRun(es)
  PROVE  PanelInv'
<1>1. PanelTypes' /\ ViewTyped' /\ GateIsShown' /\ Sound' = Sound
  BY SpeakTypes
<1>2. ASSUME Sound PROVE Protocol'
  <2>1. Protocol /\ sse \in Seq(Event) /\ srv.k \in Nat /\ srv'.k \in Nat /\ posts \subseteq Post
    BY <1>2, PanelAssumption DEF PanelInv, PanelTypes, Srv
  <2>2. /\ \A i \in DOMAIN sse : sse[i].t \notin {"cache", "plan"} \cup StepKind
        /\ \A p \in posts : p.st = "ok" /\ p.k <= srv.k
        /\ view.sid
        /\ gate.kind # "none" => gate.answered /\ posts # {}
    BY <2>1 DEF Protocol, Later, AtStep, QuestionComesLast, Gates, Awaited, Settled
  <2>3. /\ Len(es) > 0 => sse' # <<>> /\ sse'[Len(sse')] = es[Len(es)]
        /\ Len(sse') = Len(sse) + Len(es)
        /\ Len(sse) \in Nat /\ Len(es) \in Nat /\ DOMAIN es = 1..Len(es)
    BY <2>1, SendFacts
  <2>4. Joins(sse', sse, es)
    BY <2>1, SendFacts
  <2>5. ASSUME NEW i \in DOMAIN sse', sse'[i].t \in {"cache", "plan"} \cup StepKind
        PROVE  i = Len(sse') /\ srv'.at \in Gates
    <3>1. i - Len(sse) \in DOMAIN es /\ sse'[i] = es[i - Len(sse)]
      BY <2>2, <2>4, <2>5 DEF Joins
    <3>2. Len(es) = 1 /\ srv'.at \in Gates
      BY <3>1, <2>5 DEF Gates, AllOf, Statement, AfterRun
    <3>3. i - Len(sse) = 1 /\ i \in Int
      <4>1. DOMAIN sse' = 1..Len(sse')
        BY <1>1 DEF PanelTypes
      <4>2. i \in Int
        BY <4>1
      <4> QED BY <3>1, <3>2, <2>3, <4>2
    <3> QED BY <3>2, <3>3, <2>3
  <2>6. sse' # <<>> /\ srv'.at \in Gates \cup {"ended"} => Announces(sse[Len(sse)])'
    BY <2>3 DEF Announces, Gates, AfterRun
  <2>7. QuestionComesLast'
    BY <2>5, <2>6 DEF QuestionComesLast
  <2>8. Later'
    <3>1. \A p \in posts : Settled(p)'
      <4>1. \A p \in posts : p.k \in Nat
        BY <2>1 DEF Post
      <4>2. srv'.k >= srv.k /\ (srv'.at = "stepGate" => srv'.k > srv.k)
        BY <2>1 DEF AfterRun
      <4> QED BY <2>1, <2>2, <4>1, <4>2 DEF Settled
    <3> QED BY <2>2, <3>1 DEF Later, Bystanders
  <2>9. AtStep' /\ AtEnd'
    BY <2>1, <2>2, <2>3 DEF AtStep, AtEnd, Bystanders, AfterRun
  <2>10. Beginning' /\ AtCache' /\ AtPlan'
    BY DEF Beginning, AtCache, AtPlan, AfterRun
  <2> QED BY <2>7, <2>8, <2>9, <2>10 DEF Protocol
<1> QED BY <1>1, <1>2 DEF PanelInv

(* The events that are sent are events. *)
LEMMA Events ==
  /\ \A t \in EventType \ StepKind : Sensible(Ev(t))
  /\ \A t \in EventType \ StepKind : \A n \in 0..Verification : Sensible(EvOf(t, n))
  /\ \A t \in StepKind : \A n \in 1..NumSteps : Sensible(EvOf(t, n))
  /\ \A e : Sensible(e) => e \in Event
BY PanelAssumption DEF Sensible, Event, EventType, Outcome, StepKind, Ev, EvOf, Verification

LEMMA OneEvent ==
  ASSUME NEW e, Sensible(e)
  PROVE  /\ <<e>> \in Seq(Event) /\ Len(<<e>>) = 1 /\ <<e>>[1] = e /\ AllSensible(<<e>>)
         /\ \A T : e.t \in T => AllOf(<<e>>, T)
BY Events DEF AllSensible, AllOf

LEMMA Results ==
  /\ ResultEvents \in Seq(Event) /\ Len(ResultEvents) = 3
  /\ AllSensible(ResultEvents) /\ AllOf(ResultEvents, Statement)
<1>1. Execution \in 0..Verification /\ Verification \in 0..Verification
  BY PanelAssumption DEF Execution, Verification
<1>2. /\ Sensible(Ev("steps")) /\ Sensible(EvOf("done", Execution))
      /\ Sensible(EvOf("start", Verification))
      /\ Ev("steps").t = "steps" /\ EvOf("done", Execution).t = "done"
      /\ EvOf("start", Verification).t = "start"
  BY <1>1, Events DEF EventType, StepKind, Ev, EvOf
<1> QED BY <1>2, Events DEF ResultEvents, AllSensible, AllOf, Statement, EventType, StepKind

LEMMA PipelineStep ==
  ASSUME PanelInv,
         StartPhase \/ EndPhase \/ AskCache \/ AskPlan \/ NoActionablePlan \/ PipelineThrows
  PROVE  PanelInv'
<1> USE PanelAssumption
<1>0. srv \in Srv
  BY DEF PanelInv, PanelTypes
<1>1. CASE StartPhase
  <2> DEFINE e == EvOf("start", srv.started + 1)
  <2>1. Sensible(e) /\ e.t = "start"
    BY <1>0, <1>1, Events DEF StartPhase, Srv, Verification, EventType, StepKind, Ev, EvOf
  <2>2. srv' \in Srv /\ srv'.at = "pipeline"
    <3>1. srv.started + 1 \in 0..EarlyPhases
      BY <1>0, <1>1 DEF StartPhase, Srv
    <3>2. srv' = [srv EXCEPT !.open = TRUE, !.started = srv.started + 1] /\ srv.at = "pipeline"
      BY <1>1 DEF StartPhase
    <3>3. srv' \in Srv
      BY <1>0, <3>1, <3>2 DEF Srv
    <3>4. srv'.at = srv.at
      BY <1>0, <3>2 DEF Srv
    <3> QED BY <3>2, <3>3, <3>4
  <2>3. srv.at = "pipeline" /\ sse' = sse \o <<e>> /\ UNCHANGED Bystanders
    BY <1>1 DEF StartPhase, Send
  <2> HIDE DEF e
  <2>4. AfterPipeline(<<e>>) /\ AllSensible(<<e>>) /\ <<e>> \in Seq(Event) /\ Len(<<e>>) > 0
    BY <2>1, <2>2, OneEvent DEF AfterPipeline
  <2> QED BY <2>2, <2>3, <2>4, PipelineSpeaks
<1>2. CASE EndPhase
  <2> DEFINE e == EvOf("done", srv.started)
  <2>1. Sensible(e) /\ e.t = "done"
    BY <1>0, <1>2, Events DEF EndPhase, Srv, Verification, EventType, StepKind, Ev, EvOf
  <2>2. srv' \in Srv /\ srv'.at = "pipeline"
    BY <1>0, <1>2 DEF EndPhase, Srv
  <2>3. srv.at = "pipeline" /\ sse' = sse \o <<e>> /\ UNCHANGED Bystanders
    BY <1>2 DEF EndPhase, Send
  <2> HIDE DEF e
  <2>4. AfterPipeline(<<e>>) /\ AllSensible(<<e>>) /\ <<e>> \in Seq(Event) /\ Len(<<e>>) > 0
    BY <2>1, <2>2, OneEvent DEF AfterPipeline
  <2> QED BY <2>2, <2>3, <2>4, PipelineSpeaks
<1>3. CASE AskCache
  <2> DEFINE e == Ev("cache")
  <2>1. Sensible(e) /\ e.t = "cache"
    BY <1>0, <1>3, Events DEF AskCache, Srv, Verification, EventType, StepKind, Ev, EvOf
  <2>2. srv' \in Srv /\ srv'.at = "cacheGate"
    BY <1>0, <1>3 DEF AskCache, Srv
  <2>3. srv.at = "pipeline" /\ sse' = sse \o <<e>> /\ UNCHANGED Bystanders
    BY <1>3 DEF AskCache, Send
  <2> HIDE DEF e
  <2>4. AfterPipeline(<<e>>) /\ AllSensible(<<e>>) /\ <<e>> \in Seq(Event) /\ Len(<<e>>) > 0
    BY <2>1, <2>2, OneEvent DEF AfterPipeline
  <2> QED BY <2>2, <2>3, <2>4, PipelineSpeaks
<1>4. CASE AskPlan
  <2> DEFINE e == Ev("plan")
  <2>1. Sensible(e) /\ e.t = "plan"
    BY <1>0, <1>4, Events DEF AskPlan, Srv, Verification, EventType, StepKind, Ev, EvOf
  <2>2. srv' \in Srv /\ srv'.at = "planGate"
    BY <1>0, <1>4 DEF AskPlan, Srv, To
  <2>3. srv.at = "pipeline" /\ sse' = sse \o <<e>> /\ UNCHANGED Bystanders
    BY <1>4 DEF AskPlan, Send
  <2> HIDE DEF e
  <2>4. AfterPipeline(<<e>>) /\ AllSensible(<<e>>) /\ <<e>> \in Seq(Event) /\ Len(<<e>>) > 0
    BY <2>1, <2>2, OneEvent DEF AfterPipeline
  <2> QED BY <2>2, <2>3, <2>4, PipelineSpeaks
<1>5. CASE NoActionablePlan
  <2> DEFINE es == <<Ev("error"), Ev("failed")>>
  <2>1. Sensible(Ev("error")) /\ Sensible(Ev("failed")) /\ Ev("error").t = "error"
        /\ Ev("failed").t = "failed"
    BY Events DEF EventType, StepKind, Ev, Outcome
  <2>2. srv' \in Srv /\ srv'.at = "ended"
    BY <1>0, <1>5 DEF NoActionablePlan, EndAs, Srv, Outcome
  <2>3. es \in Seq(Event) /\ Len(es) = 2 /\ AllSensible(es) /\ AllOf(es, Outcome \cup {"error"})
    BY <2>1, Events DEF AllSensible, AllOf, Outcome
  <2>4. srv.at = "pipeline" /\ sse' = sse \o es /\ UNCHANGED Bystanders
    BY <1>5 DEF NoActionablePlan, Send
  <2> HIDE DEF es
  <2>5. AfterPipeline(es) /\ Len(es) > 0
    BY <2>2, <2>3 DEF AfterPipeline
  <2> QED BY <2>2, <2>3, <2>4, <2>5, PipelineSpeaks
<1>6. CASE PipelineThrows
  <2> DEFINE e == Ev("error")
  <2>1. Sensible(e) /\ e.t = "error"
    BY <1>0, <1>6, Events DEF PipelineThrows, Srv, Verification, EventType, StepKind, Ev, EvOf
  <2>2. srv' \in Srv /\ srv'.at = "ended"
    BY <1>0, <1>6 DEF PipelineThrows, Srv, EndAs, Outcome
  <2>3. srv.at = "pipeline" /\ sse' = sse \o <<e>> /\ UNCHANGED Bystanders
    BY <1>6 DEF PipelineThrows, Send
  <2> HIDE DEF e
  <2>4. AfterPipeline(<<e>>) /\ AllSensible(<<e>>) /\ <<e>> \in Seq(Event) /\ Len(<<e>>) > 0
    BY <2>1, <2>2, OneEvent DEF AfterPipeline
  <2> QED BY <2>2, <2>3, <2>4, PipelineSpeaks
<1> QED BY <1>1, <1>2, <1>3, <1>4, <1>5, <1>6

LEMMA RunStep ==
  ASSUME PanelInv, ReadStep \/ AskStep \/ ExecutionReturns \/ ExecutionThrows \/ Verified
  PROVE  PanelInv'
<1> USE PanelAssumption
<1>0. srv \in Srv /\ srv.k \in 0..NumSteps /\ sse \in Seq(Event)
  BY DEF PanelInv, PanelTypes, Srv
<1>1. CASE ReadStep
  <2>1. srv' = [srv EXCEPT !.k = srv.k + 1] /\ srv.k + 1 \in 0..NumSteps /\ srv.at = "running"
    BY <1>0, <1>1 DEF ReadStep
  <2>2. srv' \in Srv /\ srv'.at = "running" /\ srv'.k = srv.k + 1
    BY <1>0, <2>1 DEF Srv
  <2>3. sse' = sse \o <<>> /\ <<>> \in Seq(Event) /\ UNCHANGED Bystanders
    BY <1>0, <1>1 DEF ReadStep
  <2>4. AllSensible(<<>>) /\ AfterRun(<<>>)
    BY <1>0, <2>2 DEF AllSensible, AfterRun, AllOf
  <2> QED BY <2>1, <2>2, <2>3, <2>4, RunnerSpeaks
<1>2. CASE AskStep
  <2>1. PICK risk \in StepKind : Send(<<EvOf(risk, srv.k + 1)>>)
    BY <1>2 DEF AskStep, StepKind
  <2> DEFINE e == EvOf(risk, srv.k + 1)
  <2>2. srv' = [srv EXCEPT !.at = "stepGate", !.k = srv.k + 1] /\ srv.k + 1 \in 1..NumSteps
        /\ srv.at = "running"
    BY <1>0, <1>2 DEF AskStep
  <2>3. srv' \in Srv /\ srv'.at = "stepGate" /\ srv'.k = srv.k + 1
    <3>1. srv.k + 1 \in 0..NumSteps
      BY <1>0, <2>2
    <3> QED BY <1>0, <2>2, <3>1 DEF Srv
  <2>4. Sensible(e) /\ e.t \in StepKind /\ e.n = srv'.k
    BY <2>2, <2>3, Events DEF EvOf
  <2>5. sse' = sse \o <<e>> /\ UNCHANGED Bystanders
    BY <1>2, <2>1 DEF AskStep, Send
  <2> HIDE DEF e
  <2>6. AfterRun(<<e>>) /\ AllSensible(<<e>>) /\ <<e>> \in Seq(Event)
    BY <2>3, <2>4, OneEvent DEF AfterRun
  <2> QED BY <2>2, <2>3, <2>5, <2>6, RunnerSpeaks
<1>3. CASE ExecutionReturns
  <2>1. PICK how \in {"success", "failed"} : srv' = [srv EXCEPT !.at = "verifying", !.how = how]
    BY <1>3 DEF ExecutionReturns
  <2>2. srv' \in Srv /\ srv'.at = "verifying" /\ srv'.k = srv.k
    BY <1>0, <2>1 DEF Srv, Outcome
  <2>3. sse' = sse \o ResultEvents /\ srv.at = "running" /\ UNCHANGED Bystanders
    BY <1>3 DEF ExecutionReturns, Send
  <2>4. AfterRun(ResultEvents)
    BY <1>0, <2>2, Results DEF AfterRun
  <2> QED BY <2>2, <2>3, <2>4, Results, RunnerSpeaks
<1>4. CASE ExecutionThrows
  <2> DEFINE es == <<Ev("error"), Ev("failed")>>
  <2>1. es \in Seq(Event) /\ Len(es) = 2 /\ AllSensible(es) /\ AllOf(es, Statement)
        /\ es[Len(es)].t = "failed"
    BY Events DEF AllSensible, AllOf, Outcome, Statement, EventType, StepKind, Ev
  <2>2. srv' \in Srv /\ srv'.at = "ended" /\ srv'.k = srv.k
    BY <1>0, <1>4 DEF ExecutionThrows, EndAs, Srv, Outcome
  <2>3. srv.at = "running" /\ sse' = sse \o es /\ UNCHANGED Bystanders
    BY <1>4 DEF ExecutionThrows, Send
  <2> HIDE DEF es
  <2>4. AfterRun(es)
    BY <1>0, <2>1, <2>2 DEF AfterRun, Outcome
  <2> QED BY <2>1, <2>2, <2>3, <2>4, RunnerSpeaks
<1>5. CASE Verified
  <2> DEFINE es == <<Ev("verified"), EvOf("done", Verification), Ev(srv.how)>>
  <2>1. srv.how \in Outcome /\ Verification \in 0..Verification
    BY <1>0 DEF Srv, Verification
  <2>2. Sensible(Ev("verified")) /\ Sensible(EvOf("done", Verification)) /\ Sensible(Ev(srv.how))
        /\ Ev("verified").t = "verified" /\ EvOf("done", Verification).t = "done"
        /\ Ev(srv.how).t = srv.how
    BY <2>1, Events DEF EventType, StepKind, Ev, EvOf, Outcome
  <2>3. es \in Seq(Event) /\ Len(es) = 3 /\ AllSensible(es) /\ AllOf(es, Statement)
        /\ es[Len(es)].t \in Outcome
    BY <2>1, <2>2, Events DEF AllSensible, AllOf, Outcome, Statement, EventType, StepKind
  <2>4. srv' \in Srv /\ srv'.at = "ended" /\ srv'.k = srv.k
    BY <1>0, <1>5 DEF Verified, To, Srv
  <2>5. srv.at = "verifying" /\ sse' = sse \o es /\ UNCHANGED Bystanders
    BY <1>5 DEF Verified, Send
  <2> HIDE DEF es
  <2>6. AfterRun(es)
    BY <1>0, <2>3, <2>4 DEF AfterRun
  <2> QED BY <2>3, <2>4, <2>5, <2>6, RunnerSpeaks
<1> QED BY <1>1, <1>2, <1>3, <1>4, <1>5

-----------------------------------------------------------------------------
(* Answers. *)

(* An answer that can be accepted was given at the gate the server waits at, *)
(* after all it said was read.                                              *)
LEMMA AnswersAreAwaited ==
  ASSUME PanelInv, Sound, NEW p \in posts, p.st = "sent"
  PROVE  \/ srv.at = "cacheGate"
         \/ /\ srv.at = "planGate" /\ sse = <<>> /\ p.kind = "plan" /\ p.k = 0 /\ p.sid
            /\ \A q \in posts : q = p
         \/ Awaited(p) /\ \A q \in posts : q.st = "sent" => q = p
<1>1. Protocol /\ srv \in Srv
  BY DEF PanelInv, PanelTypes
<1>2. CASE srv.at \in {"off", "pipeline"}
  BY <1>1, <1>2 DEF Protocol, Beginning
<1>3. CASE srv.at = "planGate"
  BY <1>1, <1>3 DEF Protocol, Beginning, AtPlan
<1>4. CASE srv.at \in {"running", "stepGate", "verifying", "ended"}
  <2>1. Awaited(p) \/ Settled(p)
    BY <1>1, <1>4 DEF Protocol, Later
  <2>2. \A q \in posts : q.st = "sent" => q = p
    BY <1>1, <1>4 DEF Protocol, Later
  <2> QED BY <2>1, <2>2 DEF Settled
<1> QED BY <1>1, <1>2, <1>3, <1>4 DEF Srv

LEMMA AcceptStep == ASSUME PanelInv, NEW p \in posts, AcceptAnswer(p) PROVE PanelInv'
<1> USE PanelAssumption
<1> DEFINE q == [p EXCEPT !.st = "ok"]
<1>1. /\ srv \in Srv /\ p \in Post /\ posts \subseteq Post /\ srv.k \in 0..NumSteps
      /\ sse \in Seq(Event)
  BY DEF PanelInv, PanelTypes, Srv
<1>2. q \in Post /\ q.st = "ok" /\ q.k = p.k
  BY <1>1 DEF Post
<1>3. posts' = (posts \ {p}) \cup {q} /\ UNCHANGED <<view, gate, lost, overtaken>>
  BY DEF AcceptAnswer, Replied
<1>4. p.st = "sent" /\ p.sid /\ Resolves(p)
  BY DEF AcceptAnswer
<1> DEFINE es == CASE p.kind = "plan" /\ p.yes -> <<EvOf("start", Execution), Ev("steps")>>
                   [] p.kind = "plan" /\ ~p.yes -> <<Ev("plan_rejected")>>
                   [] p.kind # "plan" /\ p.yes -> <<>>
                   [] p.kind # "plan" /\ ~p.yes -> ResultEvents
<1>5. /\ srv' \in Srv /\ srv'.k = srv.k /\ srv'.at \in {"running", "verifying", "ended"}
      /\ sse' = sse \o es
      /\ es \in Seq(Event) /\ AllSensible(es) /\ AllOf(es, Statement)
      /\ srv'.at = "ended" => Len(es) > 0 /\ es[Len(es)].t \in Outcome
  <2>1. CASE p.kind = "plan" /\ p.yes
    <3>1. Execution \in 0..Verification
      BY DEF Execution, Verification
    <3>2. Sensible(EvOf("start", Execution)) /\ Sensible(Ev("steps"))
          /\ EvOf("start", Execution).t = "start" /\ Ev("steps").t = "steps"
      BY <3>1, Events DEF EventType, StepKind, Ev, EvOf
    <3>3. es = <<EvOf("start", Execution), Ev("steps")>>
      BY <2>1
    <3> HIDE DEF es
    <3>4. es \in Seq(Event) /\ AllSensible(es) /\ AllOf(es, Statement)
      BY <3>2, <3>3, Events DEF AllSensible, AllOf, Statement, EventType, StepKind
    <3>5. srv' = [srv EXCEPT !.at = "running"] /\ sse' = sse \o es
      BY <2>1, <3>3 DEF AcceptAnswer, PlanApproved, To, Send
    <3> QED BY <1>1, <3>4, <3>5 DEF Srv
  <2>2. CASE p.kind = "plan" /\ ~p.yes
    <3>1. es = <<Ev("plan_rejected")>>
      BY <2>2
    <3> HIDE DEF es
    <3>2. Sensible(Ev("plan_rejected")) /\ Ev("plan_rejected").t = "plan_rejected"
      BY Events DEF EventType, StepKind, Ev, Outcome
    <3>3. /\ es \in Seq(Event) /\ AllSensible(es) /\ AllOf(es, Statement)
          /\ Len(es) > 0 /\ es[Len(es)].t \in Outcome
      BY <3>1, <3>2, OneEvent DEF Statement, EventType, StepKind, Outcome
    <3>4. srv' = [srv EXCEPT !.at = "ended", !.how = "plan_rejected"] /\ sse' = sse \o es
      BY <2>2, <3>1 DEF AcceptAnswer, PlanRejected, EndAs, Send
    <3> QED BY <1>1, <3>3, <3>4 DEF Srv, Outcome
  <2>3. CASE p.kind # "plan" /\ p.yes
    <3>1. es = <<>> /\ es \in Seq(Event) /\ AllSensible(es) /\ AllOf(es, Statement)
      BY <2>3 DEF AllSensible, AllOf
    <3>2. srv' = [srv EXCEPT !.at = "running"] /\ sse' = sse
      BY <2>3 DEF AcceptAnswer, StepApproved, To
    <3> QED BY <1>1, <3>1, <3>2 DEF Srv
  <2>4. CASE p.kind # "plan" /\ ~p.yes
    <3>1. es = ResultEvents
      BY <2>4
    <3>2. es \in Seq(Event) /\ AllSensible(es) /\ AllOf(es, Statement)
      BY <3>1, Results
    <3>3. srv' = [srv EXCEPT !.at = "verifying", !.how = "failed"] /\ sse' = sse \o es
      BY <2>4, <3>1 DEF AcceptAnswer, StepRefused, Send
    <3> QED BY <1>1, <3>2, <3>3 DEF Srv, Outcome
  <2> QED BY <2>1, <2>2, <2>3, <2>4
<1> HIDE DEF es
<1>6. PanelTypes' /\ ViewTyped' /\ GateIsShown' /\ Sound' = Sound
  <2>1. sse' \in Seq(Event) /\ AllSensible(sse')
    <3>1. AllSensible(sse)
      BY DEF PanelInv, ViewTyped
    <3>2. sse' \in Seq(Event) /\ Joins(sse', sse, es)
      BY <1>1, <1>5, SendFacts
    <3> QED BY <1>5, <3>1, <3>2 DEF Joins, AllSensible
  <2>2. posts' \subseteq Post
    BY <1>1, <1>2, <1>3
  <2> QED BY <1>3, <1>5, <2>1, <2>2 DEF PanelInv, PanelTypes, ViewTyped, GateIsShown, Sound
<1>7. ASSUME Sound PROVE Protocol'
  <2>1. Protocol
    BY <1>7 DEF PanelInv
  <2>2. /\ sse = <<>> /\ p.k <= srv.k /\ srv.at \in {"planGate", "stepGate"} /\ view.sid
        /\ \A r \in posts : r = p \/ Settled(r)
    <3>1. srv.at # "cacheGate"
      BY <1>4 DEF Resolves
    <3>2. CASE srv.at = "planGate"
      <4>1. sse = <<>> /\ p.k = 0 /\ \A r \in posts : r = p
        BY <1>4, <1>7, <3>2, AnswersAreAwaited DEF Awaited
      <4> QED BY <1>1, <2>1, <3>2, <4>1 DEF Protocol, AtPlan
    <3>3. CASE srv.at # "planGate"
      <4>1. Awaited(p) /\ \A r \in posts : r.st = "sent" => r = p
        BY <1>4, <1>7, <3>1, <3>3, AnswersAreAwaited
      <4>2. \A r \in posts : Awaited(r) \/ Settled(r)
        BY <2>1, <4>1 DEF Protocol, Later, Awaited
      <4> QED BY <1>1, <2>1, <4>1, <4>2 DEF Protocol, AtStep, Awaited
    <3> QED BY <3>2, <3>3
  <2>3. sse' = es
    BY <1>5, <2>2
  <2>4. \A r \in posts' : r.st = "ok" /\ r.k <= srv.k
    BY <1>2, <1>3, <2>2 DEF Settled
  <2>5. QuestionComesLast'
    <3>1. \A i \in DOMAIN es : es[i].t \notin {"cache", "plan"} \cup StepKind
      BY <1>5 DEF AllOf, Statement
    <3> QED BY <1>5, <2>3, <3>1 DEF QuestionComesLast, Announces, Gates
  <2>6. Later'
    <3>1. posts' # {}
      BY <1>3
    <3>2. gate.kind # "none" => gate.answered
      <4>1. CASE srv.at = "planGate"
        BY <2>1, <2>2, <4>1 DEF Protocol, AtPlan
      <4>2. CASE srv.at = "stepGate"
        BY <1>4, <2>1, <4>2 DEF Protocol, Later
      <4> QED BY <2>2, <4>1, <4>2
    <3>3. \A r \in posts' : Settled(r)'
      BY <1>5, <2>4 DEF Settled
    <3> QED BY <1>3, <2>4, <3>1, <3>2, <3>3 DEF Later
  <2>7. AtStep' /\ AtEnd' /\ Beginning' /\ AtCache' /\ AtPlan'
    BY <1>3, <1>5, <2>2, <2>3 DEF AtStep, AtEnd, Beginning, AtCache, AtPlan
  <2> QED BY <2>5, <2>6, <2>7 DEF Protocol
<1> QED BY <1>6, <1>7 DEF PanelInv

LEMMA RefuseStep == ASSUME PanelInv, NEW p \in posts, RefuseAnswer(p) PROVE PanelInv'
<1> DEFINE q == [p EXCEPT !.st = "failed"]
<1>1. p \in Post /\ posts \subseteq Post /\ p.st = "sent"
  BY DEF PanelInv, PanelTypes, RefuseAnswer
<1>2. q \in Post /\ q.st = "failed" /\ q.kind = p.kind
  BY <1>1 DEF Post
<1>3. posts' = (posts \ {p}) \cup {q} /\ UNCHANGED <<srv, sse, view, gate, lost, overtaken>>
  BY DEF RefuseAnswer, Replied
<1> HIDE DEF q
<1>4. PanelTypes' /\ ViewTyped' /\ GateIsShown' /\ Sound' = Sound
  BY <1>1, <1>2, <1>3 DEF PanelInv, PanelTypes, ViewTyped, GateIsShown, Sound
<1>5. ASSUME Sound PROVE Protocol'
  <2>1. Protocol
    BY <1>5 DEF PanelInv
  <2>2. srv.at = "cacheGate"
    <3>1. ~(p.sid /\ Resolves(p))
      BY DEF RefuseAnswer
    <3> QED BY <1>1, <1>5, <3>1, AnswersAreAwaited DEF Resolves, Awaited, StepKind
  <2>3. sse = <<>> /\ AtCache
    BY <2>1, <2>2 DEF Protocol, Beginning
  <2>4. AtCache'
    BY <1>2, <1>3, <2>2, <2>3 DEF AtCache
  <2>5. QuestionComesLast'
    BY <1>3, <2>1 DEF Protocol, QuestionComesLast, Announces
  <2>6. Beginning' /\ AtPlan' /\ Later' /\ AtStep' /\ AtEnd'
    BY <1>3, <2>2, <2>3 DEF Beginning, AtPlan, Later, AtStep, AtEnd
  <2> QED BY <2>4, <2>5, <2>6 DEF Protocol
<1> QED BY <1>4, <1>5 DEF PanelInv

(* A POST that is lost ends what the protocol promises. *)
LEMMA LoseStep == ASSUME PanelInv, NEW p \in posts, LoseAnswer(p) PROVE PanelInv'
<1>1. PanelTypes' /\ ViewTyped' /\ GateIsShown'
  BY PanelAssumption DEF PanelInv, PanelTypes, ViewTyped, GateIsShown, LoseAnswer
<1>2. ~Sound'
  BY PanelAssumption DEF PanelInv, PanelTypes, Sound, LoseAnswer
<1> QED BY <1>1, <1>2 DEF PanelInv

(* The open gate takes its first key. *)
LEMMA AnswerStep ==
  ASSUME PanelInv, NEW yes \in BOOLEAN, Answer(yes),
         UNCHANGED <<srv, sse, view, lost, overtaken>>
  PROVE  PanelInv'
<1> DEFINE q == [kind |-> gate.kind, k |-> gate.k, sid |-> view.sid, yes |-> yes, st |-> "sent"]
<1>1. /\ gate \in Gate /\ view \in View /\ posts \subseteq Post /\ gate.kind # "none"
      /\ ~gate.answered /\ gate' = [gate EXCEPT !.answered = TRUE] /\ posts' = posts \cup {q}
  BY DEF PanelInv, PanelTypes, ViewTyped, Answer
<1>2. /\ q \in Post /\ q.kind = gate.kind /\ q.k = gate.k /\ q.sid = view.sid /\ q.st = "sent"
  <2>1. gate.kind \in {"cache", "plan", "write", "destructive"} /\ gate.k \in 0..NumSteps
        /\ view.sid \in BOOLEAN
    BY <1>1 DEF Gate, View
  <2> QED BY <2>1 DEF Post
<1> HIDE DEF q
<1>3. gate' \in Gate /\ gate'.kind = gate.kind /\ gate'.k = gate.k /\ gate'.answered
  BY <1>1 DEF Gate
<1>4. PanelTypes' /\ ViewTyped' /\ GateIsShown' /\ Sound' = Sound
  BY <1>1, <1>2, <1>3 DEF PanelInv, PanelTypes, ViewTyped, GateIsShown, Sound
<1>5. ASSUME Sound PROVE Protocol'
  <2>1. Protocol /\ srv \in Srv
    BY <1>5 DEF PanelInv, PanelTypes
  <2>2. QuestionComesLast'
    BY <2>1 DEF Protocol, QuestionComesLast, Announces
  <2>3. view.status \in {"awaiting-approval", "plan-approval"}
    BY <1>1, ShownFacts
  <2>4. ~(srv.at \in {"off", "pipeline"} \/ (srv.at \in {"cacheGate", "planGate"} /\ sse # <<>>))
    BY <2>1, <2>3 DEF Protocol, Beginning
  <2>5. CASE srv.at = "cacheGate"
    <3>1. gate.kind = "cache" /\ AtCache
      BY <2>1, <2>4, <2>5, ShownFacts DEF Protocol, AtCache
    <3>2. AtCache'
      BY <1>1, <1>2, <2>5, <3>1 DEF AtCache
    <3>3. Beginning' /\ AtPlan' /\ Later' /\ AtStep' /\ AtEnd'
      BY <2>4, <2>5 DEF Beginning, AtPlan, Later, AtStep, AtEnd
    <3> QED BY <2>2, <3>2, <3>3 DEF Protocol
  <2>6. CASE srv.at = "planGate"
    <3>1. gate.kind = "plan" /\ gate.k = 0 /\ posts = {} /\ view.sid /\ view.status = "plan-approval"
      BY <1>1, <2>1, <2>4, <2>6, ShownFacts DEF Protocol, AtPlan
    <3>2. AtPlan'
      BY <1>1, <1>2, <1>3, <3>1 DEF AtPlan
    <3>3. Beginning' /\ AtCache' /\ Later' /\ AtStep' /\ AtEnd'
      BY <2>4, <2>6 DEF Beginning, AtCache, Later, AtStep, AtEnd
    <3> QED BY <2>2, <3>2, <3>3 DEF Protocol
  <2>7. CASE srv.at \in {"running", "stepGate", "verifying", "ended"}
    <3>1. /\ srv.at = "stepGate" /\ sse = <<>> /\ \A p \in posts : p.st # "sent"
          /\ \A p \in posts : Awaited(p) \/ Settled(p)
      BY <1>1, <2>1, <2>7 DEF Protocol, Later
    <3>2. view.sid /\ view.pending = srv.k /\ view.pending # 0 /\ view.status = "awaiting-approval"
      <4>1. srv.k \in 0..NumSteps
        BY <2>1 DEF Srv
      <4> QED BY <2>1, <3>1, <4>1, PanelAssumption DEF Protocol, AtStep
    <3>3. gate.kind \in StepKind /\ gate.k = srv.k
      BY <1>1, <3>2, ShownFacts DEF View
    <3>4. Awaited(q)
      BY <1>2, <3>1, <3>2, <3>3 DEF Awaited
    <3>5. \A p \in posts' : (Awaited(p) \/ Settled(p))'
      <4>1. \A p \in posts' : Awaited(p) \/ Settled(p)
        BY <1>1, <3>1, <3>4
      <4> QED BY <4>1 DEF Awaited, Settled
    <3>6. \A p, r \in posts' : p.st = "sent" /\ r.st = "sent" => p = r
      BY <1>1, <3>1
    <3>7. Later'
      BY <1>1, <1>3, <3>5, <3>6 DEF Later
    <3>8. Beginning' /\ AtCache' /\ AtPlan' /\ AtStep' /\ AtEnd'
      BY <2>1, <3>1 DEF Protocol, Beginning, AtCache, AtPlan, AtStep, AtEnd
    <3> QED BY <2>2, <3>7, <3>8 DEF Protocol
  <2> QED BY <2>1, <2>4, <2>5, <2>6, <2>7 DEF Srv
<1> QED BY <1>4, <1>5 DEF PanelInv

-----------------------------------------------------------------------------
(* The panel. *)

LEMMA ReceiveStep == ASSUME PanelInv, Receive PROVE PanelInv'
<1> USE PanelAssumption
<1> DEFINE e == Head(sse)
<1>1. /\ srv \in Srv /\ sse \in Seq(Event) /\ view \in View /\ gate \in Gate /\ posts \subseteq Post
      /\ sse # <<>> /\ sse' = Tail(sse) /\ view' = Reduce(view, e)
      /\ UNCHANGED <<srv, posts, lost, overtaken>>
      /\ view.focus \in 0..Len(view.phases) /\ view.expanded \subseteq DOMAIN view.phases
  BY DEF PanelInv, PanelTypes, ViewTyped, Receive
<1>2. Sensible(e) /\ e = sse[1] /\ 1 \in DOMAIN sse
  <2>1. Head(sse) = sse[1] /\ 1 \in DOMAIN sse
    BY <1>1, TailFacts
  <2> QED BY <2>1 DEF PanelInv, ViewTyped, AllSensible
<1> HIDE DEF e
<1>3. /\ gate' = [kind |-> Shown(view').kind, k |-> Shown(view').k,
                  answered |-> gate.answered /\ Shown(view').kind = gate.kind]
  BY DEF Receive, Render
<1>4. view' \in View
  BY <1>1, <1>2, ReduceFacts
<1>5. gate' \in Gate
  <2>1. Shown(view').kind \in {"none", "cache", "plan", "write", "destructive"}
        /\ Shown(view').k \in 0..NumSteps
    BY <1>4 DEF Shown, View, StepKind
  <2>2. (gate.answered /\ Shown(view').kind = gate.kind) \in BOOLEAN
    BY <1>1 DEF Gate
  <2> QED BY <1>3, <2>1, <2>2 DEF Gate
<1>6. GateIsShown'
  <2>1. gate'.kind = Shown(view').kind /\ gate'.k = Shown(view').k
    BY <1>3
  <2>2. gate'.kind = "none" => ~gate'.answered
    BY <1>3 DEF PanelInv, GateIsShown
  <2> QED BY <2>1, <2>2 DEF GateIsShown
<1>7. PanelTypes' /\ ViewTyped' /\ Sound' = Sound
  <2>1. view'.focus \in 0..Len(view'.phases) /\ view'.expanded \subseteq DOMAIN view'.phases
    <3>1. /\ view'.focus = view.focus /\ view'.expanded = view.expanded
          /\ Len(view'.phases) \in {Len(view.phases), Len(view.phases) + 1}
      BY <1>1, <1>2, ReduceFacts
    <3>2. /\ Len(view.phases) \in Nat /\ DOMAIN view.phases = 1..Len(view.phases)
          /\ DOMAIN view'.phases = 1..Len(view'.phases)
      BY <1>1, <1>4 DEF View
    <3> QED BY <1>1, <3>1, <3>2
  <2>2. sse' \in Seq(Event) /\ AllSensible(sse')
    <3>1. AllSensible(sse)
      BY DEF PanelInv, ViewTyped
    <3> QED BY <1>1, <3>1, TailFacts DEF AllSensible
  <2> QED BY <1>1, <1>4, <1>5, <2>1, <2>2 DEF PanelInv, PanelTypes, ViewTyped, Sound
<1>8. ASSUME Sound PROVE Protocol'
  <2>1. Protocol
    BY <1>8 DEF PanelInv
  <2>2. /\ Len(sse) \in Nat \ {0} /\ Len(sse') = Len(sse) - 1
        /\ \A j \in DOMAIN sse' : j + 1 \in DOMAIN sse /\ sse'[j] = sse[j + 1]
        /\ sse' # <<>> => Len(sse) # 1 /\ sse'[Len(sse')] = sse[Len(sse)]
        /\ sse' = <<>> => Len(sse) = 1
    BY <1>1, TailFacts
  <2>3. QuestionComesLast'
    <3>1. ASSUME NEW j \in DOMAIN sse', sse'[j].t \in {"cache", "plan"} \cup StepKind
          PROVE  j = Len(sse') /\ srv'.at \in Gates
      <4>1. j + 1 = Len(sse) /\ srv.at \in Gates
        BY <2>1, <2>2, <3>1 DEF Protocol, QuestionComesLast
      <4>2. j \in Int
        <5>1. DOMAIN sse' = 1..Len(sse')
          BY <1>7 DEF PanelTypes
        <5> QED BY <5>1
      <4> QED BY <1>1, <2>2, <4>1, <4>2
    <3>2. sse' # <<>> /\ srv'.at \in Gates \cup {"ended"} => Announces(sse[Len(sse)])'
      BY <1>1, <2>1, <2>2 DEF Protocol, QuestionComesLast, Announces
    <3> QED BY <3>1, <3>2 DEF QuestionComesLast
  (* Anything but the last event, or one that is no question, asks nothing. *)
  <2>4. ~(srv.at \in Gates /\ sse' = <<>>) => e.t \notin {"cache", "plan"} \cup StepKind
    BY <1>1, <1>2, <2>1, <2>2 DEF Protocol, QuestionComesLast
  <2>5. sse' = <<>> /\ srv.at \in Gates \cup {"ended"} => Announces(e)
    BY <1>1, <1>2, <2>1, <2>2 DEF Protocol, QuestionComesLast
  <2>6. CASE srv.at \in {"off", "pipeline", "cacheGate", "planGate"}
    <3>1. /\ posts = {} /\ view.pending = 0 /\ view.status \in {"idle", "streaming"}
          /\ \A j \in DOMAIN sse : sse[j].t \in {"start", "done", "cache", "plan"}
      BY <1>1, <2>1, <2>6 DEF Protocol, Beginning
    <3>2. gate.kind = "none"
      BY <3>1, ShownFacts
    <3>3. e.t \in {"start", "done", "cache", "plan"} /\ e.t \notin StepKind
      BY <1>2, <3>1 DEF StepKind
    <3>4. view'.pending = 0
      BY <1>1, <1>2, <3>1, <3>3, ReduceFacts
    <3>5. e.t \in {"start", "done"} => view'.status \in {"idle", "streaming"}
      BY <1>1, <1>2, <3>1, ReduceFacts
    <3>6. Beginning'
      <4>1. \A j \in DOMAIN sse' : sse'[j].t \in {"start", "done", "cache", "plan"}
        BY <2>2, <3>1
      <4>2. srv'.at \in {"off", "pipeline"} \/ sse' # <<>> => e.t \in {"start", "done"}
        BY <1>1, <2>4, <3>3 DEF Gates
      <4> QED BY <1>1, <3>1, <3>4, <3>5, <4>1, <4>2 DEF Beginning
    <3>7. AtCache'
      <4>1. srv.at = "cacheGate" /\ sse' = <<>> => e.t = "cache"
        BY <2>5 DEF Announces, Gates
      <4>2. e.t = "cache" => view'.status = "awaiting-approval" /\ view'.cacheHit
        BY <1>1, <1>2, ReduceFacts
      <4> QED BY <1>1, <3>1, <3>4, <4>1, <4>2 DEF AtCache
    <3>8. AtPlan'
      <4>1. srv.at = "planGate" /\ sse' = <<>> => e.t = "plan"
        BY <2>5 DEF Announces, Gates
      <4>2. e.t = "plan" => view'.status = "plan-approval" /\ view'.sid
        BY <1>1, <1>2, ReduceFacts
      <4>3. view'.status = "plan-approval" => gate'.kind = "plan" /\ ~gate'.answered
        BY <1>3, <3>2 DEF Shown
      <4> QED BY <1>1, <3>1, <4>1, <4>2, <4>3 DEF AtPlan
    <3>9. Later' /\ AtStep' /\ AtEnd'
      BY <1>1, <2>6 DEF Later, AtStep, AtEnd
    <3> QED BY <2>3, <3>6, <3>7, <3>8, <3>9 DEF Protocol
  <2>7. CASE srv.at \in {"running", "stepGate", "verifying", "ended"}
    <3>1. /\ \A p \in posts : Settled(p)
          /\ gate.kind # "none" => gate.answered /\ posts # {}
      BY <1>1, <2>1, <2>7 DEF Protocol, Later, Awaited
    <3>2. \A p \in posts : Settled(p)' /\ p.st # "sent"
      BY <1>1, <3>1 DEF Settled
    <3>3. gate'.kind # "none" /\ gate'.answered => posts # {}
      BY <1>3, <3>1
    <3>4. gate'.kind # "none" /\ ~gate'.answered => srv.at = "stepGate" /\ sse' = <<>>
      <4>1. CASE srv.at \in Gates /\ sse' = <<>>
        BY <2>7, <4>1 DEF Gates
      <4>2. CASE ~(srv.at \in Gates /\ sse' = <<>>)
        <5>1. Shown(view') = Shown(view) \/ Shown(view').kind = "none"
          BY <1>1, <1>2, <2>4, <4>2, QuietEvents
        <5>2. gate.kind = Shown(view).kind
          BY DEF PanelInv, GateIsShown
        <5> QED BY <1>3, <3>1, <5>1, <5>2
      <4> QED BY <4>1, <4>2
    <3>5. Later'
      BY <1>1, <3>2, <3>3, <3>4 DEF Later
    <3>6. AtStep'
      <4>1. view.sid => view'.sid
        BY <1>1, <1>2, ReduceFacts
      <4>2. srv.at = "stepGate" /\ sse' = <<>> =>
              view'.status = "awaiting-approval" /\ view'.pending = srv.k
        <5>1. srv.at = "stepGate" /\ sse' = <<>> => e.t \in StepKind /\ e.n = srv.k
          BY <2>5 DEF Announces, Gates
        <5>2. e.t \in StepKind => view'.status = "awaiting-approval" /\ view'.pending = e.n
          BY <1>1, <1>2, ReduceFacts
        <5> QED BY <5>1, <5>2
      <4> QED BY <1>1, <2>1, <4>1, <4>2 DEF Protocol, AtStep
    <3>7. AtEnd'
      <4>1. srv.at = "ended" /\ sse' = <<>> => e.t \in Outcome \cup {"error"}
        BY <2>5 DEF Announces
      <4>2. e.t \in Outcome \cup {"error"} => Final(view')
        BY <1>1, <1>2, ReduceFacts
      <4> QED BY <1>1, <4>1, <4>2 DEF AtEnd
    <3>8. Beginning' /\ AtCache' /\ AtPlan'
      BY <1>1, <2>7 DEF Beginning, AtCache, AtPlan
    <3> QED BY <2>3, <3>5, <3>6, <3>7, <3>8 DEF Protocol
  <2> QED BY <1>1, <2>6, <2>7 DEF Srv
<1> QED BY <1>6, <1>7, <1>8 DEF PanelInv

(* A response that no event has overtaken finds its own gate, or none. *)
LEMMA ConfirmStep == ASSUME PanelInv, NEW p \in posts, AnswerConfirmed(p) PROVE PanelInv'
<1> USE PanelAssumption
<1>1. /\ srv \in Srv /\ sse \in Seq(Event) /\ view \in View /\ gate \in Gate /\ posts \subseteq Post
      /\ p \in Post /\ p.st = "ok" /\ posts' = posts \ {p} /\ UNCHANGED <<srv, sse, lost>>
      /\ view' = ApprovalResponse(view, p.yes)
      /\ overtaken' = (overtaken \/ Final(view) \/ view.pending \notin {0, p.k})
      /\ view.focus \in 0..Len(view.phases) /\ view.expanded \subseteq DOMAIN view.phases
  BY DEF PanelInv, PanelTypes, ViewTyped, AnswerConfirmed
<1>2. /\ view' \in View /\ view'.focus = view.focus /\ view'.expanded = view.expanded
      /\ view'.phases = view.phases /\ view'.sid = view.sid /\ Shown(view').kind = "none"
  BY <1>1, ResponseFacts DEF Post
<1>3. gate' = [kind |-> "none", k |-> Shown(view').k, answered |-> FALSE]
      /\ Shown(view').k = 0
  <2>1. gate' = [kind |-> Shown(view').kind, k |-> Shown(view').k,
                 answered |-> gate.answered /\ Shown(view').kind = gate.kind]
    BY DEF AnswerConfirmed, Render
  <2>2. ~(gate.answered /\ gate.kind = "none")
    BY DEF PanelInv, GateIsShown
  <2>3. Shown(view').k = 0
    <3>1. view'.risk # "none"
      BY <1>2 DEF View, StepKind
    <3> QED BY <1>2, <3>1 DEF Shown
  <2> QED BY <1>2, <2>1, <2>2, <2>3
<1>4. gate' \in Gate /\ GateIsShown'
  BY <1>2, <1>3 DEF Gate, GateIsShown
<1>5. PanelTypes' /\ ViewTyped'
  <2>1. overtaken' \in BOOLEAN
    BY <1>1 DEF PanelInv, PanelTypes
  <2> QED BY <1>1, <1>2, <1>4, <2>1 DEF PanelInv, PanelTypes, ViewTyped
<1>6. ASSUME Sound' PROVE Protocol'
  <2>1. Sound /\ ~Final(view) /\ view.pending \in {0, p.k}
    BY <1>1, <1>6 DEF Sound
  <2>2. Protocol
    BY <2>1 DEF PanelInv
  <2>3. srv.at \in {"running", "stepGate", "verifying", "ended"}
    BY <1>1, <2>2 DEF Protocol, Beginning, AtCache, AtPlan, Srv
  <2>4. ~(srv.at = "stepGate" /\ sse = <<>>)
    <3>1. SUFFICES ASSUME srv.at = "stepGate", sse = <<>> PROVE FALSE
      OBVIOUS
    <3>2. view.pending = srv.k /\ srv.k > 0
      BY <2>2, <3>1 DEF Protocol, AtStep
    <3>3. p.k < srv.k
      BY <1>1, <2>2, <2>3, <3>1 DEF Protocol, Later, Awaited, Settled
    <3>4. p.k \in Nat /\ srv.k \in Nat
      BY <1>1 DEF Post, Srv
    <3> QED BY <2>1, <3>2, <3>3, <3>4
  <2>5. QuestionComesLast'
    BY <1>1, <2>2 DEF Protocol, QuestionComesLast, Announces
  <2>6. Later'
    <3>1. \A r \in posts' : Settled(r)' /\ r.st # "sent"
      BY <1>1, <2>2, <2>3, <2>4 DEF Protocol, Later, Awaited, Settled
    <3> QED BY <1>1, <1>3, <3>1 DEF Later
  <2>7. AtStep' /\ AtEnd'
    BY <1>1, <1>2, <2>1, <2>2, <2>4 DEF Protocol, AtStep, AtEnd
  <2>8. Beginning' /\ AtCache' /\ AtPlan'
    BY <1>1, <2>3 DEF Beginning, AtCache, AtPlan
  <2> QED BY <2>5, <2>6, <2>7, <2>8 DEF Protocol
<1> QED BY <1>4, <1>5, <1>6 DEF PanelInv

(* Only an answer to a cache hit is refused. *)
LEMMA FailedStep == ASSUME PanelInv, NEW p \in posts, AnswerFailed(p) PROVE PanelInv'
<1>1. p.st = "failed" /\ posts' = posts \ {p} /\ UNCHANGED <<srv, sse, view, gate, lost, overtaken>>
  BY DEF AnswerFailed
<1>2. PanelTypes' /\ ViewTyped' /\ GateIsShown' /\ Sound' = Sound
  BY <1>1 DEF PanelInv, PanelTypes, ViewTyped, GateIsShown, Sound
<1>3. ASSUME Sound PROVE Protocol'
  <2>1. Protocol /\ srv \in Srv
    BY <1>3 DEF PanelInv, PanelTypes
  <2>2. srv.at = "cacheGate" /\ sse = <<>>
    BY <1>1, <2>1 DEF Protocol, Beginning, AtPlan, Later, Awaited, Settled, Srv
  <2>3. QuestionComesLast' /\ AtCache'
    BY <1>1, <2>1 DEF Protocol, QuestionComesLast, Announces, AtCache
  <2>4. Beginning' /\ AtPlan' /\ Later' /\ AtStep' /\ AtEnd'
    BY <1>1, <2>2 DEF Beginning, AtPlan, Later, AtStep, AtEnd
  <2> QED BY <2>3, <2>4 DEF Protocol
<1> QED BY <1>2, <1>3 DEF PanelInv

(* The keys of the accordion leave the gates alone. *)
LEMMA AccordionStep ==
  ASSUME PanelInv, NEW key, view' \in {view, PhaseKey(view, key)},
         UNCHANGED <<srv, sse, posts, gate, lost, overtaken>>
  PROVE  PanelInv'
<1>1. /\ view \in View /\ view.focus \in 0..Len(view.phases)
      /\ view.expanded \subseteq DOMAIN view.phases
  BY DEF PanelInv, PanelTypes, ViewTyped
<1>2. PICK f \in 0..Len(view.phases), x \in SUBSET DOMAIN view.phases :
        view' = [view EXCEPT !.focus = f, !.expanded = x]
  <2>1. CASE view' = view
    <3>1. view' = [view EXCEPT !.focus = view.focus, !.expanded = view.expanded]
      BY <1>1, <2>1 DEF View
    <3> QED BY <1>1, <3>1
  <2>2. CASE view' = PhaseKey(view, key)
    <3>1. \E f \in 0..Len(view.phases), x \in SUBSET DOMAIN view.phases :
            PhaseKey(view, key) = [view EXCEPT !.focus = f, !.expanded = x]
      BY <1>1, PhaseKeyFacts
    <3> QED BY <2>2, <3>1
  <2> QED BY <2>1, <2>2
<1>3. /\ view'.status = view.status /\ view'.pending = view.pending /\ view'.sid = view.sid
      /\ view'.cacheHit = view.cacheHit /\ view'.risk = view.risk /\ view'.phases = view.phases
      /\ view'.focus = f /\ view'.expanded = x
  BY <1>1, <1>2 DEF View
<1>4. view' \in View
  <2>1. f \in Nat /\ x \in SUBSET Nat
    <3>1. Len(view.phases) \in Nat /\ DOMAIN view.phases = 1..Len(view.phases)
      BY <1>1 DEF View
    <3> QED BY <1>2, <3>1
  <2> QED BY <1>1, <1>2, <2>1 DEF View
<1>5. Shown(view') = Shown(view)
  BY <1>3 DEF Shown
<1>6. PanelTypes' /\ ViewTyped' /\ GateIsShown' /\ Sound' = Sound
  BY <1>2, <1>3, <1>4, <1>5 DEF PanelInv, PanelTypes, ViewTyped, GateIsShown, Sound
<1>7. Protocol => Protocol'
  <2>1. QuestionComesLast => QuestionComesLast'
    BY DEF QuestionComesLast, Announces
  <2>2. (Beginning => Beginning') /\ (AtCache => AtCache') /\ (AtPlan => AtPlan')
    BY <1>3 DEF Beginning, AtCache, AtPlan
  <2>3. (Later => Later') /\ (AtStep => AtStep') /\ (AtEnd => AtEnd')
    BY <1>3 DEF Later, AtStep, AtEnd, Awaited, Settled, Final
  <2> QED BY <2>1, <2>2, <2>3 DEF Protocol
<1> QED BY <1>6, <1>7 DEF PanelInv

LEMMA ServerStep == ASSUME PanelInv, Server PROVE PanelInv'
<1>1. CASE \E p \in posts : AcceptAnswer(p) \/ RefuseAnswer(p)
  BY <1>1, AcceptStep, RefuseStep
<1> QED BY <1>1, PipelineStep, RunStep DEF Server

LEMMA WireStep == ASSUME PanelInv, Wire PROVE PanelInv'
  BY ReceiveStep, LoseStep, ConfirmStep, FailedStep DEF Wire

LEMMA StillPanel == ASSUME PanelInv, UNCHANGED panelVars PROVE PanelInv'
<1>1. view' \in {view, PhaseKey(view, "tab")} /\ UNCHANGED <<srv, sse, posts, gate, lost, overtaken>>
  BY DEF panelVars
<1> QED BY <1>1, AccordionStep

(* A panel that is mounted or unmounted is new. *)
LEMMA NewPanel ==
  ASSUME srv' \in {Idle, [Idle EXCEPT !.at = "pipeline"]},
         sse' = <<>>, posts' = {}, view' = InitView, gate' = NoGate, lost' = 0, overtaken' = FALSE
  PROVE  PanelInv'
<1> USE PanelAssumption
<1>1. srv' \in Srv /\ srv'.at \in {"off", "pipeline"}
  <2>1. Idle \in Srv /\ Idle.at = "off"
    BY DEF Idle, Srv, Outcome
  <2>2. [Idle EXCEPT !.at = "pipeline"] \in Srv /\ [Idle EXCEPT !.at = "pipeline"].at = "pipeline"
    BY <2>1 DEF Srv
  <2> QED BY <2>1, <2>2
<1>2. /\ view' \in View /\ view'.focus = 0 /\ view'.expanded = {} /\ view'.phases = <<>>
      /\ view'.status = "idle" /\ view'.pending = 0
  BY DEF InitView, View, Status, StepKind
<1>3. gate' \in Gate /\ gate'.kind = "none" /\ gate'.k = 0 /\ ~gate'.answered
  BY DEF NoGate, Gate
<1>4. sse' \in Seq(Event) /\ AllSensible(sse') /\ DOMAIN sse' = {}
  BY DEF AllSensible
<1>5. PanelTypes' /\ ViewTyped'
  <2>1. Len(view'.phases) = 0
    BY <1>2
  <2>2. 0 \in 0..MaxLost /\ 0 \in 0..Len(view'.phases)
    BY <2>1
  <2> QED BY <1>1, <1>2, <1>3, <1>4, <2>2 DEF PanelTypes, ViewTyped
<1>6. GateIsShown'
  BY <1>2, <1>3 DEF GateIsShown, Shown
<1>7. Protocol'
  <2>1. QuestionComesLast' /\ Beginning'
    BY <1>2, <1>4 DEF QuestionComesLast, Beginning
  <2>2. AtCache' /\ AtPlan' /\ Later' /\ AtStep' /\ AtEnd'
    BY <1>1 DEF AtCache, AtPlan, Later, AtStep, AtEnd
  <2> QED BY <2>1, <2>2 DEF Protocol
<1> QED BY <1>5, <1>6, <1>7 DEF PanelInv

-----------------------------------------------------------------------------
(* The application. *)

LEMMA InitIInv == Init => IInv
<1> SUFFICES ASSUME Init PROVE IInv
  OBVIOUS
<1>1. PanelInv
  <2> USE PanelAssumption DEF Init, PanelInit
  <2>1. srv \in Srv /\ srv.at = "off"
    BY DEF Idle, Srv, Outcome
  <2>2. /\ view \in View /\ view.focus = 0 /\ view.expanded = {} /\ Len(view.phases) = 0
        /\ view.status = "idle" /\ view.pending = 0
    BY DEF InitView, View, Status, StepKind
  <2>3. gate \in Gate /\ gate.kind = "none" /\ gate.k = 0 /\ ~gate.answered
    BY DEF NoGate, Gate
  <2>4. sse \in Seq(Event) /\ AllSensible(sse) /\ DOMAIN sse = {}
    BY DEF AllSensible
  <2>5. PanelTypes /\ ViewTyped
    <3>1. 0 \in 0..MaxLost /\ 0 \in 0..Len(view.phases)
      BY <2>2
    <3> HIDE DEF Init, PanelInit
    <3>2. posts = {} /\ lost = 0 /\ overtaken = FALSE
      BY DEF Init, PanelInit
    <3> QED BY <2>1, <2>2, <2>3, <2>4, <3>1, <3>2 DEF PanelTypes, ViewTyped
  <2>6. GateIsShown
    BY <2>2, <2>3 DEF GateIsShown, Shown
  <2>7. Protocol
    <3>1. QuestionComesLast /\ Beginning
      BY <2>2, <2>4 DEF QuestionComesLast, Beginning
    <3>2. AtCache /\ AtPlan /\ Later /\ AtStep /\ AtEnd
      BY <2>1 DEF AtCache, AtPlan, Later, AtStep, AtEnd
    <3> QED BY <3>1, <3>2 DEF Protocol
  <2> QED BY <2>5, <2>6, <2>7 DEF PanelInv
<1>2. AppTypes /\ OneInCenter /\ ReportIsOwn
  BY DEF Init, AppTypes, OneInCenter, ReportIsOwn, Panel
<1> QED BY <1>1, <1>2 DEF IInv

(* A key reaches every handler. *)
LEMMA PressStep == ASSUME IInv, NEW key \in Key, Press(key) PROVE IInv'
<1>1. PanelInv'
  <2>1. CASE GateTakes(key)
    <3>1. Answer(key # "n") /\ UNCHANGED <<srv, sse, view, lost, overtaken>>
      BY <2>1 DEF Press, PanelKey
    <3>2. (key # "n") \in BOOLEAN
      OBVIOUS
    <3> QED BY <3>1, <3>2, AnswerStep DEF IInv
  <2>2. CASE ~GateTakes(key)
    <3>1. view' \in {view, PhaseKey(view, key)} /\ UNCHANGED <<srv, sse, posts, gate, lost, overtaken>>
      BY <2>2 DEF Press, PanelKey
    <3> QED BY <3>1, AccordionStep DEF IInv
  <2> QED BY <2>1, <2>2
<1>2. AppTypes'
  <2>1. overlays' \subseteq {"status", "entity"}
    <3>1. overlays \subseteq {"status", "entity"} /\ OverlayKey(key)
      BY DEF IInv, AppTypes, Press
    <3>2. overlays' = overlays \/ Toggle("status") \/ Toggle("entity")
      BY <3>1 DEF OverlayKey
    <3> QED BY <3>1, <3>2 DEF Toggle
  <2>2. panel' \in Panel
    BY DEF IInv, AppTypes, Press, CyclePanel, NextPanel, Panel
  <2>3. fetching' \subseteq Past
    BY DEF IInv, AppTypes, Press, SelectSession
  <2>4. replay' \in Past \cup {None} /\ prompt' \in Prompts \cup {None}
    BY DEF IInv, AppTypes, Press, ExitReplay
  <2>5. reported' \in BOOLEAN
    BY DEF IInv, AppTypes, Press
  <2> QED BY <2>1, <2>2, <2>3, <2>4, <2>5 DEF AppTypes
<1>3. OneInCenter' /\ ReportIsOwn'
  BY DEF IInv, OneInCenter, ReportIsOwn, Press, ExitReplay
<1> QED BY <1>1, <1>2, <1>3 DEF IInv

LEMMA NextIInv == IInv /\ [Next]_vars => IInv'
<1> SUFFICES ASSUME IInv, [Next]_vars PROVE IInv'
  OBVIOUS
<1>1. CASE (Server \/ Wire) /\ UNCHANGED appVars
  <2>1. PanelInv'
    BY <1>1, ServerStep, WireStep DEF IInv
  <2> QED BY <1>1, <2>1 DEF IInv, appVars, AppTypes, OneInCenter, ReportIsOwn
<1>2. ASSUME NEW key \in Key, Press(key) PROVE IInv'
  BY <1>2, PressStep
<1>3. CASE ExitSession
  <2>1. PanelInv'
    BY <1>3, NewPanel DEF ExitSession, Unmount
  <2> QED BY <1>3, <2>1 DEF IInv, ExitSession, AppTypes, OneInCenter, ReportIsOwn
<1>4. CASE TypeTarget
  <2>1. PanelInv'
    BY <1>4, AnswerStep DEF IInv, TypeTarget
  <2> QED BY <1>4, <2>1 DEF IInv, TypeTarget, appVars, AppTypes, OneInCenter, ReportIsOwn
<1>5. ASSUME NEW p \in Prompts, Debug(p) PROVE IInv'
  <2>1. PanelInv'
    BY <1>5, NewPanel DEF Debug, Mount
  <2> QED BY <1>5, <2>1 DEF IInv, Debug, AppTypes, OneInCenter, ReportIsOwn
<1>6. CASE StatusCommand \/ HistoryCommand \/ UNCHANGED vars
  <2>1. UNCHANGED panelVars
    BY <1>6 DEF StatusCommand, HistoryCommand, vars
  <2>2. PanelInv'
    BY <2>1, StillPanel DEF IInv
  <2>3. UNCHANGED <<prompt, replay, fetching, reported>>
    BY <1>6 DEF StatusCommand, HistoryCommand, vars, appVars
  <2>4. panel' \in {panel, "left"} /\ overlays' \in {overlays, overlays \cup {"status"}}
    BY <1>6 DEF StatusCommand, HistoryCommand, vars, appVars
  <2>5. AppTypes'
    BY <2>3, <2>4 DEF IInv, AppTypes, Panel
  <2> QED BY <2>2, <2>3, <2>5 DEF IInv, OneInCenter, ReportIsOwn
<1>7. ASSUME NEW h \in Past, ResumeCommand(h) \/ HistoryFails(h) PROVE IInv'
  <2>1. PanelInv'
    BY <1>7, StillPanel DEF IInv, ResumeCommand, HistoryFails
  <2>2. UNCHANGED <<prompt, replay, panel, overlays, reported>>
    BY <1>7 DEF ResumeCommand, HistoryFails
  <2>3. fetching' \in {fetching \cup {h}, fetching \ {h}}
    BY <1>7 DEF ResumeCommand, HistoryFails
  <2>4. AppTypes'
    BY <2>2, <2>3 DEF IInv, AppTypes
  <2> QED BY <2>1, <2>2, <2>4 DEF IInv, OneInCenter, ReportIsOwn
<1>8. ASSUME NEW h \in Past, HistoryArrives(h) PROVE IInv'
  <2>1. PanelInv'
    BY <1>8, NewPanel DEF HistoryArrives, Unmount
  <2> QED BY <1>8, <2>1 DEF IInv, HistoryArrives, AppTypes, OneInCenter, ReportIsOwn, Panel
<1>9. CASE Report
  <2>1. PanelInv'
    BY <1>9, StillPanel DEF IInv, Report
  <2>2. CanCollapse(view) \in BOOLEAN
    BY DEF CanCollapse
  <2> QED BY <1>9, <2>1, <2>2 DEF IInv, Report, AppTypes, OneInCenter, ReportIsOwn
<1> QED BY <1>1, <1>2, <1>3, <1>4, <1>5, <1>6, <1>7, <1>8, <1>9 DEF Next

LEMMA SpecIInv == Spec => []IInv
  BY InitIInv, NextIInv, PTL DEF Spec

-----------------------------------------------------------------------------
(* The theorems. *)

(* The types of Terminal: in particular the focus and the expanded phases    *)
(* stay within the phases there are, whatever keys and events come.          *)
THEOREM TypeCorrect == Spec => []TypeOK
<1>1. IInv => TypeOK
  <2>1. IInv => view.status \in Status
    BY DEF IInv, PanelInv, ViewTyped, View
  <2> QED BY <2>1 DEF IInv, PanelInv, PanelTypes, AppTypes, TypeOK, Status, Srv, Post
<1> QED BY <1>1, SpecIInv, PTL

(* When all that was sent has arrived, the panel shows the gate the server   *)
(* waits at, open, or the end of the request: unless a POST failed or a      *)
(* response was overtaken.                                                  *)
THEOREM PanelFollowsServer == Spec => []InStep
<1>1. IInv => InStep
  <2> SUFFICES ASSUME IInv, sse = <<>>, posts = {}, lost = 0, ~overtaken
               PROVE  /\ srv.at = "cacheGate" => gate.kind = "cache"
                      /\ srv.at = "planGate" => gate.kind = "plan" /\ ~gate.answered
                      /\ srv.at = "stepGate" =>
                           gate.kind \in {"write", "destructive"} /\ gate.k = srv.k /\ ~gate.answered
                      /\ srv.at = "ended" => Final(view)
    BY DEF InStep, Quiet
  <2>1. PanelInv /\ Protocol /\ view \in View
    BY DEF IInv, PanelInv, Sound, ViewTyped
  <2>2. srv.at = "cacheGate" => gate.kind = "cache"
    BY <2>1, ShownFacts DEF Protocol, AtCache
  <2>3. srv.at = "planGate" => gate.kind = "plan" /\ ~gate.answered
    BY <2>1, ShownFacts DEF Protocol, AtPlan
  <2>4. srv.at = "stepGate" =>
          gate.kind \in {"write", "destructive"} /\ gate.k = srv.k /\ ~gate.answered
    <3> SUFFICES ASSUME srv.at = "stepGate"
                 PROVE  gate.kind \in {"write", "destructive"} /\ gate.k = srv.k /\ ~gate.answered
      OBVIOUS
    <3>1. view.status = "awaiting-approval" /\ view.pending = srv.k /\ srv.k > 0
      BY <2>1 DEF Protocol, AtStep
    <3>2. srv.k # 0 /\ view.risk \in StepKind
      <4>1. srv.k \in 0..NumSteps
        BY <2>1 DEF PanelInv, PanelTypes, Srv
      <4> QED BY <2>1, <3>1, <4>1 DEF View
    <3>3. gate.kind = view.risk /\ gate.k = srv.k
      BY <2>1, <3>1, <3>2, ShownFacts
    <3>4. ~gate.answered
      BY <2>1, <3>2, <3>3 DEF Protocol, Later, StepKind
    <3> QED BY <3>2, <3>3, <3>4 DEF StepKind
  <2>5. srv.at = "ended" => Final(view)
    BY <2>1 DEF Protocol, AtEnd
  <2> QED BY <2>2, <2>3, <2>4, <2>5
<1> QED BY <1>1, SpecIInv, PTL

(* Esc is never swallowed by a replay that is not on screen, nor by what an   *)
(* earlier session reported, nor left to a panel that has nothing to collapse *)
(* and has said so; but at an open gate it may be.                           *)
THEOREM EscapeShows == Spec => []EscapeIsVisible
<1>1. IInv => EscapeIsVisible
  <2> SUFFICES ASSUME IInv PROVE EscapeIsVisible
    OBVIOUS
  <2>1. EscapeAction = "exit-replay" => prompt = None
    BY DEF EscapeAction, IInv, OneInCenter
  <2>2. ASSUME EscapeAction = "collapse-phase", reported = CanCollapse(view), PhaseInputActive(view)
        PROVE  PhaseTakes /\ CanCollapse(view) /\ ~CanCollapse(PhaseKey(view, "esc"))
    <3>1. KeyboardOwner = "dpev-panel" /\ CanCollapse(view)
      BY <2>2 DEF EscapeAction
    <3>2. /\ view \in View /\ view.focus \in 0..Len(view.phases)
      BY DEF IInv, PanelInv, PanelTypes, ViewTyped
    <3>3. view.phases # <<>>
      BY <3>1, <3>2 DEF CanCollapse, Focused, View
    <3>4. PhaseKey(view, "esc") = [view EXCEPT !.expanded = view.expanded \ {Focused(view)}]
      BY <3>3 DEF PhaseKey
    <3> DEFINE w == PhaseKey(view, "esc")
    <3>5. /\ w.focus = view.focus /\ w.phases = view.phases
          /\ w.expanded = view.expanded \ {Focused(view)}
      BY <3>2, <3>4 DEF View
    <3> HIDE DEF w
    <3>6. Focused(w) = Focused(view)
      BY <3>5 DEF Focused
    <3>7. ~CanCollapse(w)
      BY <3>5, <3>6 DEF CanCollapse
    <3> QED BY <2>2, <3>1, <3>7 DEF PhaseTakes, w
  <2>3. prompt = None => ~reported
    BY DEF IInv, ReportIsOwn
  <2> QED BY <2>1, <2>2, <2>3 DEF EscapeIsVisible
<1> QED BY <1>1, SpecIInv, PTL
=============================================================================
