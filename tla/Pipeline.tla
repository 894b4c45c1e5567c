------------------------------ MODULE Pipeline ------------------------------
(***************************************************************************)
(* runDPEV (orchestrator/pipeline.ts, diagnosis.ts) for concurrent debug    *)
(* requests: routing, discovery, cache check, memory, diagnosis with its   *)
(* fallback, sanity check and retry, planning; and what its two callers do *)
(* with an exception: POST /debug falls back to a direct model call,        *)
(* POST /stream/debug reports an error.                                     *)
(*                                                                         *)
(* Requests share the discovery queues and the inference scheduler, whose  *)
(* probe decides between the sequential and the parallel path.  No route   *)
(* passes a scheduler to runDPEV at this commit: Scheduled are the          *)
(* requests of a caller that does.                                         *)
(*                                                                         *)
(* What a prompt says is the set of its sources, "discovery" and "memory". *)
(***************************************************************************)
EXTENDS Discovery

CONSTANTS
  Streaming,     \* requests to /stream/debug: they have onEvent and requestCacheApproval
  Scheduled,     \* requests with an inference scheduler
  Preferred      \* skills with a preferred_model

ASSUME StreamingAssumption == Streaming \subseteq Requests
ASSUME ScheduledAssumption == Scheduled \subseteq Requests

VARIABLES
  mode,          \* getMode of cachedProbe: did the last probe find two backends?
  fresh,         \* is cachedProbe within its TTL?
  pc,            \* the await each request is at
  skill,         \* the selected skill, as a set: {} before routing
  parallel,      \* useParallelPath
  completed,     \* completedPhases
  context,       \* what the context manager holds
  prompt,        \* what the prompt of the diagnosis says
  call,          \* the model call of the diagnosis that is in flight
  verdict,       \* what came of the diagnosis
  worker,        \* the preprocess task of the parallel path
  plan,          \* the plan the client was given
  outcome,       \* how the request ended
  threwAt        \* history: where runDPEV threw

scheduler == <<mode, fresh>>
input == <<skill, parallel>>
text == <<context, prompt>>
diagnosis == <<call, verdict, worker>>
answer == <<plan, outcome>>
local == <<pc, input, completed, text, diagnosis, answer, threwAt>>
vars == <<queues, scheduler, local>>

Location == {"idle", "routing", "discovering", "probing", "filtering", "checking",
             "asking", "remembering", "diagnosing", "planning", "fallback", "ended"}
Mode == {"sequential", "parallel"}
Call == {"none", "stream", "structured", "text", "retry"}
Verdict == {"none", "structured", "clean", "empty", "tainted", "threw"}
Outcome == {"none", "cached", "diagnosed", "refused", "unaided", "failed"}

(* The diagnoses runDiagnosis returns without an error.  The emptiness test *)
(* comes before the retry, so a retry that returns nothing is among them.   *)
Sound == {"structured", "clean", "empty"}

Init ==
  /\ InitQueues
  /\ mode = "sequential" /\ fresh = FALSE
  /\ pc = [r \in Requests |-> "idle"]
  /\ skill = [r \in Requests |-> {}]
  /\ parallel = [r \in Requests |-> FALSE]
  /\ completed = [r \in Requests |-> {}]
  /\ context = [r \in Requests |-> {}]
  /\ prompt = [r \in Requests |-> {}]
  /\ call = [r \in Requests |-> "none"]
  /\ verdict = [r \in Requests |-> "none"]
  /\ worker = [r \in Requests |-> "none"]
  /\ plan = [r \in Requests |-> "none"]
  /\ outcome = [r \in Requests |-> "none"]
  /\ threwAt = [r \in Requests |-> "none"]

Goto(r, place) == pc' = [pc EXCEPT ![r] = place]
Complete(r, phase) == completed' = [completed EXCEPT ![r] = @ \cup {phase}]
End(r, how) == Goto(r, "ended") /\ outcome' = [outcome EXCEPT ![r] = how]

(* discoveryRaw: each command has an output. *)
Facts(r) == IF \E s \in skill[r] : Commands[s] # <<>> THEN {"discovery"} ELSE {}

(* runDPEV throws. *)
Throw(r) ==
  /\ IF r \in Streaming
     THEN End(r, "failed")
     ELSE Goto(r, "fallback") /\ UNCHANGED outcome
  /\ threwAt' = [threwAt EXCEPT ![r] = pc[r]]

-----------------------------------------------------------------------------
(* Routing and discovery. *)

Receive(r) ==
  /\ pc[r] = "idle"
  /\ Goto(r, "routing")
  /\ UNCHANGED <<queues, scheduler, input, completed, text, diagnosis, answer, threwAt>>

Route(r) ==
  /\ pc[r] = "routing"
  /\ \E s \in Skills : skill' = [skill EXCEPT ![r] = {s}] /\ Enqueue(r, s)
  /\ Goto(r, "discovering")
  /\ UNCHANGED <<scheduler, parallel, completed, text, diagnosis, answer, threwAt>>

(* The routing model fails or names no skill of the registry; or the audit *)
(* log of the selection throws.                                            *)
RouteThrows(r) ==
  /\ pc[r] = "routing"
  /\ Throw(r)
  /\ UNCHANGED <<queues, scheduler, input, completed, text, diagnosis, plan>>

(* The paths part after getMode. *)
Take(r, m) ==
  /\ parallel' = [parallel EXCEPT ![r] = m = "parallel"]
  /\ Goto(r, IF m = "sequential" THEN "filtering" ELSE "checking")

Discovered(r) ==
  /\ pc[r] = "discovering"
  /\ \E s \in skill[r] : AllSettled(r, s)
  /\ Complete(r, "discovery")
  /\ IF r \in Scheduled /\ ~fresh
     THEN Goto(r, "probing") /\ UNCHANGED parallel
     ELSE Take(r, IF r \in Scheduled THEN mode ELSE "sequential")
  /\ UNCHANGED <<queues, scheduler, skill, text, diagnosis, answer, threwAt>>

(* The audit log of the discovered data throws: completedPhases is gone. *)
DiscoveryThrows(r) ==
  /\ pc[r] = "discovering"
  /\ \E s \in skill[r] : AllSettled(r, s)
  /\ Facts(r) # {}
  /\ Throw(r)
  /\ UNCHANGED <<queues, scheduler, input, completed, text, diagnosis, plan>>

(* probeBackends returns and the cache is set, by whoever finishes last. *)
Probed(r) ==
  /\ pc[r] = "probing"
  /\ \E m \in Mode : mode' = m /\ Take(r, m)
  /\ fresh' = TRUE
  /\ UNCHANGED <<queues, skill, completed, text, diagnosis, answer, threwAt>>

(* The TTL of the probe passes. *)
Expire ==
  /\ fresh
  /\ fresh' = FALSE
  /\ UNCHANGED <<queues, mode, local>>

-----------------------------------------------------------------------------
(* Context, cache and memory. *)

(* Mutant: the prompt is built before the discovery is ingested. *)
FilteredLate(r) ==
  /\ pc[r] = "filtering"
  /\ prompt' = [prompt EXCEPT ![r] = context[r]]
  /\ context' = [context EXCEPT ![r] = Facts(r)]
  /\ Goto(r, "checking")
  /\ UNCHANGED <<queues, scheduler, input, completed, diagnosis, answer, threwAt>>

(* Sequential path: noise filter, ingestion, compaction, and the prompt.    *)
(* The awaits in between touch nothing but this request's own context.     *)
Filtered(r) ==
  /\ pc[r] = "filtering"
  /\ context' = [context EXCEPT ![r] = Facts(r)]
  /\ prompt' = [prompt EXCEPT ![r] = Facts(r)]
  /\ Goto(r, "checking")
  /\ UNCHANGED <<queues, scheduler, input, completed, diagnosis, answer, threwAt>>

(* The snapshot before a compaction cannot be written. *)
FilterThrows(r) ==
  /\ pc[r] = "filtering"
  /\ Throw(r)
  /\ UNCHANGED <<queues, scheduler, input, completed, text, diagnosis, plan>>

(* A miss, a speculative hit, any failure of the lookup, or input.noCache. *)
CacheMiss(r) ==
  /\ pc[r] = "checking"
  /\ Goto(r, "remembering")
  /\ UNCHANGED <<queues, scheduler, input, completed, text, diagnosis, answer, threwAt>>

(* The cached answer, with its plan if that can be parsed. *)
ServeCached(r) ==
  /\ End(r, "cached")
  /\ \E p \in {"cached", "none"} : plan' = [plan EXCEPT ![r] = p]
  /\ UNCHANGED <<queues, scheduler, input, completed, text, diagnosis, threwAt>>

CacheHit(r) == pc[r] = "checking" /\ r \notin Streaming /\ ServeCached(r)

AskClient(r) ==
  /\ pc[r] = "checking" /\ r \in Streaming
  /\ Goto(r, "asking")
  /\ UNCHANGED <<queues, scheduler, input, completed, text, diagnosis, answer, threwAt>>

UseCache(r) == pc[r] = "asking" /\ ServeCached(r)

DeclineCache(r) ==
  /\ pc[r] = "asking"
  /\ Goto(r, "remembering")
  /\ UNCHANGED <<queues, scheduler, input, completed, text, diagnosis, answer, threwAt>>

(* The first call of runDiagnosis. *)
FirstCall(r) ==
  IF Facts(r) # {} /\ skill[r] \subseteq Preferred THEN "structured" ELSE "text"

(* The wake-up context, if there is any, is put into the context manager;   *)
(* enforceDPEVSequence; the diagnosis starts.  In the parallel path the     *)
(* prompt comes from a second context manager with the raw discovery.       *)
Remember(r) ==
  /\ pc[r] = "remembering"
  /\ "discovery" \in completed[r]
  /\ \E memory \in {{}, {"memory"}} : context' = [context EXCEPT ![r] = @ \cup memory]
  /\ Goto(r, "diagnosing")
  /\ IF parallel[r]
     THEN /\ prompt' = [prompt EXCEPT ![r] = Facts(r)]
          /\ worker' = [worker EXCEPT ![r] = "running"]
          /\ call' = [call EXCEPT ![r] = FirstCall(r)]
     ELSE /\ call' = [call EXCEPT ![r] = IF r \in Streaming THEN "stream"
                                         ELSE FirstCall(r)]
          /\ UNCHANGED <<prompt, worker>>
  /\ UNCHANGED <<queues, scheduler, input, completed, verdict, answer, threwAt>>

-----------------------------------------------------------------------------
(* Diagnosis. *)

Ask(r, what) ==
  /\ call' = [call EXCEPT ![r] = what]
  /\ UNCHANGED <<queues, scheduler, pc, input, completed, text, verdict, worker,
                 answer, threwAt>>

Returns(r, v) ==
  /\ call' = [call EXCEPT ![r] = "none"]
  /\ verdict' = [verdict EXCEPT ![r] = v]
  /\ UNCHANGED <<queues, scheduler, pc, input, completed, text, worker, answer, threwAt>>

(* The tokens were for the client only: the diagnosis is asked for again. *)
Streamed(r) == call[r] = "stream" /\ Ask(r, FirstCall(r))

StructuredSucceeds(r) == call[r] = "structured" /\ Returns(r, "structured")

StructuredFails(r) == call[r] = "structured" /\ Ask(r, "text")

TextIsClean(r) == call[r] = "text" /\ Returns(r, "clean")

(* It has placeholders or examples: retry under the grounding penalty. *)
TextIsTainted(r) == call[r] = "text" /\ Ask(r, "retry")

RetryReturns(r) ==
  /\ call[r] = "retry"
  /\ \E v \in {"clean", "empty", "tainted"} : Returns(r, v)

(* A model or log failure, or an empty first answer. *)
CallThrows(r) == call[r] # "none" /\ Returns(r, "threw")

(* The preprocess task: noise filter, ingestion and compaction of the       *)
(* worker model; its result is read by nobody.                             *)
Preprocessed(r) ==
  /\ worker[r] = "running"
  /\ \E how \in {"ok", "failed"} : worker' = [worker EXCEPT ![r] = how]
  /\ context' = [context EXCEPT ![r] = @ \cup Facts(r)]
  /\ UNCHANGED <<queues, scheduler, pc, input, completed, prompt, call, verdict,
                 answer, threwAt>>

(* The call has returned and, in the parallel path, so has the worker. *)
DiagnosisSettled(r) ==
  pc[r] = "diagnosing" /\ verdict[r] # "none" /\ worker[r] # "running"

(* Mutant: the planner gets what failed the sanity check. *)
DiagnosedAnyway(r) ==
  /\ DiagnosisSettled(r)
  /\ verdict[r] \in Sound \cup {"tainted"}
  /\ Complete(r, "diagnosis")
  /\ Goto(r, "planning")
  /\ UNCHANGED <<queues, scheduler, input, text, diagnosis, answer, threwAt>>

Diagnosed(r) ==
  /\ DiagnosisSettled(r)
  /\ verdict[r] \in Sound
  /\ Complete(r, "diagnosis")
  /\ Goto(r, "planning")
  /\ UNCHANGED <<queues, scheduler, input, text, diagnosis, answer, threwAt>>

(* hallucinationError: 422, or a failed stream. *)
Refused(r) ==
  /\ DiagnosisSettled(r)
  /\ verdict[r] = "tainted"
  /\ End(r, "refused")
  /\ UNCHANGED <<queues, scheduler, input, completed, text, diagnosis, plan, threwAt>>

DiagnosisThrows(r) ==
  /\ DiagnosisSettled(r)
  /\ verdict[r] = "threw"
  /\ Throw(r)
  /\ UNCHANGED <<queues, scheduler, input, completed, text, diagnosis, plan>>

-----------------------------------------------------------------------------
(* Planning, and the end. *)

Planned(r) ==
  /\ pc[r] = "planning"
  /\ {"discovery", "diagnosis"} \subseteq completed[r]
  /\ plan' = [plan EXCEPT ![r] = "generated"]
  /\ End(r, "diagnosed")
  /\ UNCHANGED <<queues, scheduler, input, completed, text, diagnosis, threwAt>>

(* The audit log of the commands throws: a streaming client has the plan of *)
(* the dpev:plan event, the other one gets the answer of the fallback.     *)
PlanLost(r) ==
  /\ pc[r] = "planning"
  /\ plan' = [plan EXCEPT ![r] = IF r \in Streaming THEN "generated" ELSE @]
  /\ Throw(r)
  /\ UNCHANGED <<queues, scheduler, input, completed, text, diagnosis>>

(* No planning skill, or the planner fails: the diagnosis without a plan,   *)
(* unless the audit log throws.                                            *)
Unplanned(r) ==
  /\ pc[r] = "planning"
  /\ \/ End(r, "diagnosed") /\ UNCHANGED threwAt
     \/ Throw(r)
  /\ UNCHANGED <<queues, scheduler, input, completed, text, diagnosis, plan>>

(* POST /debug: one model call without discovery or sanity check. *)
FallBack(r) ==
  /\ pc[r] = "fallback"
  /\ \E how \in {"unaided", "failed"} : End(r, how)
  /\ UNCHANGED <<queues, scheduler, input, completed, text, diagnosis, plan, threwAt>>

-----------------------------------------------------------------------------
StartCommand(k) == Start(k) /\ UNCHANGED <<scheduler, local>>

FinishCommand(c) == Finish(c) /\ UNCHANGED <<scheduler, local>>

(* What runDPEV does on its own, once its awaits return. *)
Continue(r) ==
  \/ Route(r) \/ RouteThrows(r) \/ Discovered(r) \/ DiscoveryThrows(r) \/ Probed(r)
  \/ Filtered(r) \/ FilterThrows(r)
  \/ CacheMiss(r) \/ CacheHit(r) \/ AskClient(r) \/ Remember(r)
  \/ Streamed(r) \/ StructuredSucceeds(r) \/ StructuredFails(r)
  \/ TextIsClean(r) \/ TextIsTainted(r) \/ RetryReturns(r) \/ CallThrows(r)
  \/ Preprocessed(r) \/ Diagnosed(r) \/ Refused(r) \/ DiagnosisThrows(r)
  \/ Planned(r) \/ PlanLost(r) \/ Unplanned(r) \/ FallBack(r)

Next ==
  \/ \E r \in Requests : Receive(r) \/ UseCache(r) \/ DeclineCache(r) \/ Continue(r)
  \/ \E k \in DOMAIN waiting : StartCommand(k)
  \/ \E c \in running : FinishCommand(c)
  \/ Expire

Spec == Init /\ [][Next]_vars

(* Model calls and commands end, by their retries and timeouts, and a queue *)
(* starts its next command; clients need not answer.                       *)
Fairness ==
  /\ \A r \in Requests : WF_vars(Continue(r))
  /\ \A t \in Targets :
       /\ WF_vars(\E k \in DOMAIN waiting : waiting[k].target = t /\ StartCommand(k))
       /\ WF_vars(\E c \in running : c.target = t /\ FinishCommand(c))

FairSpec == Spec /\ Fairness
-----------------------------------------------------------------------------
(* Properties. *)

(* Every variable keeps its type. *)
TypeOK ==
  /\ TypeOKQueues
  /\ mode \in Mode /\ fresh \in BOOLEAN
  /\ pc \in [Requests -> Location]
  /\ skill \in [Requests -> {{}} \cup {{s} : s \in Skills}]
  /\ parallel \in [Requests -> BOOLEAN]
  /\ completed \in [Requests -> SUBSET {"discovery", "diagnosis"}]
  /\ context \in [Requests -> SUBSET {"discovery", "memory"}]
  /\ prompt \in [Requests -> SUBSET {"discovery", "memory"}]
  /\ call \in [Requests -> Call] /\ verdict \in [Requests -> Verdict]
  /\ worker \in [Requests -> {"none", "running", "ok", "failed"}]
  /\ plan \in [Requests -> {"none", "cached", "generated"}]
  /\ outcome \in [Requests -> Outcome]
  /\ threwAt \in [Requests -> {"none"} \cup (Location \ {"idle", "asking", "fallback", "ended"})]

(* Commands that name the same container never run together, whichever      *)
(* requests they belong to.                                                *)
OneCommandPerTarget ==
  \A c, d \in running : c.target = d.target => c = d

(* No command of a request waits or runs once the request has left its      *)
(* discovery: nothing it still does to a container is unaccounted for.     *)
CommandsBelongToDiscovery ==
  \A c \in running \cup {waiting[k] : k \in DOMAIN waiting} :
    pc[c.by] = "discovering" /\ c.index \notin settled[c.by]

(* Every model call of a diagnosis has the discovery in its prompt, on both *)
(* paths and in every retry.                                               *)
GroundedDiagnosis ==
  \A r \in Requests : call[r] # "none" => Facts(r) \subseteq prompt[r]

(* The parallel path is given up only if the diagnosis itself failed: the   *)
(* preprocess task is optional, whatever it does and whenever it ends.     *)
PreprocessIsOptional ==
  \A r \in Requests : threwAt[r] = "diagnosing" => verdict[r] = "threw"

(* A request never stops for good but at a question to its client: not      *)
(* behind the commands of another request, nor behind one whose client does *)
(* not answer, nor between its two parallel tasks.                         *)
EveryRequestMoves ==
  \A r \in Requests :
    /\ pc[r] = "routing" ~> pc[r] \in {"asking", "ended"}
    /\ pc[r] = "remembering" ~> pc[r] = "ended"

(* The pipeline keeps the promises of DebugRequest. *)
D == INSTANCE DebugRequest WITH
       grounded <- {r \in Requests : "discovery" \in completed[r]},
       sound <- {r \in Requests : verdict[r] \in Sound}
ImplementsDebugRequest == D!Spec
=============================================================================
