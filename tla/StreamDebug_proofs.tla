------------------------- MODULE StreamDebug_proofs -------------------------
(***************************************************************************)
(* Any number of streaming requests, in any sharing of sessions, meet at the *)
(* resolver maps and the lock of the target.  The inductive invariant says   *)
(* whose resolvers are registered, who is at work on the target, and what a  *)
(* request can have counted and reported.                                    *)
(***************************************************************************)
EXTENDS StreamDebug, TLAPS

(* A question about a step is about the step the request is at, under the key *)
(* it shares with the other steps of that command.                           *)
AsksOwnStep ==
  \A r \in Requests : pc[r] = "waiting" /\ gate[r] > PlanGate =>
    gate[r] = StepGate(step[r] + 1) /\ step[r] < NumSteps

(* Usage totals count the model calls of the session's own requests. *)
UsageIsOwn == \A s \in Sessions : \A q \in usage[s] : SessionOf[q] = s

(* A request reports when it ends, and not before. *)
ReportsLast == \A r \in Requests : complete[r] # "none" => pc[r] = "ended"

IInv ==
  /\ TypeOK /\ AsksOwnStep /\ NoStaleResolver /\ LockFollowsWork /\ UsageIsOwn
  /\ ReportsLast /\ AloneIsIsolated /\ OutcomeIsPersisted

-----------------------------------------------------------------------------
(* Lemmas on the operators of the model. *)

(* A request that asks is registered at its gate, and the maps keep their    *)
(* type.                                                                     *)
LEMMA AskEffect ==
  ASSUME TypeOK, NEW r \in Requests, NEW g \in Gates, Ask(r, g)
  PROVE  /\ \A q \in Requests : pc'[q] = IF q = r THEN "waiting" ELSE pc[q]
         /\ \A q \in Requests : gate'[q] = IF q = r THEN g ELSE gate[q]
         /\ pending'[SessionOf[r]][g] = {r}
         /\ \A s \in Sessions, h \in Gates :
              s # SessionOf[r] \/ h # g => pending'[s][h] = pending[s][h]
  BY SessionOfAssumption DEF TypeOK, Ask, Goto

LEMMA AskTypes ==
  ASSUME TypeOK, NEW r \in Requests, NEW g \in Gates, Ask(r, g)
  PROVE  /\ pc' \in [Requests -> Location] /\ gate' \in [Requests -> Gates]
         /\ pending' \in [Sessions -> [Gates -> {Nobody} \cup {{q} : q \in Requests}]]
<1>1. SessionOf[r] \in Sessions
  BY SessionOfAssumption
<1>2. pc' \in [Requests -> Location] /\ gate' \in [Requests -> Gates]
  BY DEF TypeOK, Ask, Goto, Location
<1>3. pending' \in [Sessions -> [Gates -> {Nobody} \cup {{q} : q \in Requests}]]
  <2>1. [pending[SessionOf[r]] EXCEPT ![g] = {r}] \in [Gates -> {Nobody} \cup {{q} : q \in Requests}]
    BY <1>1 DEF TypeOK
  <2> QED BY <1>1, <2>1 DEF TypeOK, Ask
<1> QED BY <1>2, <1>3

LEMMA AskAlone ==
  ASSUME IInv, NEW r \in Requests, NEW g \in Gates, Ask(r, g), UNCHANGED <<answeredBy, summary>>
  PROVE  AloneIsIsolated'
<1> SUFFICES ASSUME NEW q \in Requests, Alone(q)
             PROVE  /\ pc'[q] = "waiting" => pending'[SessionOf[q]][gate'[q]] = {q}
                    /\ answeredBy[q] \subseteq {q} /\ summary[q] \subseteq {q}
  BY DEF AloneIsIsolated, Alone
<1>1. TypeOK /\ SessionOf[q] \in Sessions /\ (SessionOf[r] = SessionOf[q] => r = q)
  BY SessionOfAssumption DEF IInv, Alone
<1>2. AloneIsIsolated
  BY DEF IInv
<1>3. q # r => SessionOf[q] # SessionOf[r]
  BY <1>1
<1>a. /\ \A p \in Requests : pc'[p] = IF p = r THEN "waiting" ELSE pc[p]
      /\ \A p \in Requests : gate'[p] = IF p = r THEN g ELSE gate[p]
      /\ pending'[SessionOf[r]][g] = {r}
      /\ \A s \in Sessions, h \in Gates :
           s # SessionOf[r] \/ h # g => pending'[s][h] = pending[s][h]
  BY <1>1, AskEffect
<1>4. pc'[q] = "waiting" => pending'[SessionOf[q]][gate'[q]] = {q}
  <2>1. CASE q = r
    BY <2>1, <1>1, <1>a
  <2>2. CASE q # r
    <3>1. pc'[q] = pc[q] /\ gate'[q] = gate[q] /\ gate[q] \in Gates
      BY <1>1, <2>2, <1>a DEF TypeOK
    <3>2. pending'[SessionOf[q]][gate[q]] = pending[SessionOf[q]][gate[q]]
      BY <1>1, <1>3, <2>2, <3>1, <1>a
    <3> QED BY <3>1, <3>2, <1>2 DEF AloneIsIsolated
  <2> QED BY <2>1, <2>2
<1> QED BY <1>2, <1>4 DEF AloneIsIsolated

(* What the end of a request leaves: nothing of its session in the maps, and *)
(* a report of what its session counted.                                     *)
LEMMA CleanUpTypes ==
  ASSUME TypeOK, NEW r \in Requests, CleanUp(r)
  PROVE  /\ pending' \in [Sessions -> [Gates -> {Nobody} \cup {{q} : q \in Requests}]]
         /\ usage' \in [Sessions -> SUBSET Requests]
         /\ \A s \in Sessions, h \in Gates :
              pending'[s][h] = IF s = SessionOf[r] THEN {} ELSE pending[s][h]
         /\ \A s \in Sessions : usage'[s] = IF s = SessionOf[r] THEN {} ELSE usage[s]
  BY SessionOfAssumption DEF TypeOK, CleanUp, Nobody

(* No question but that of r may be over. *)
OnlyQuestionOf(r) ==
  /\ step' = step /\ listening' = listening /\ gone' = gone
  /\ gate' \in [Requests -> Gates] /\ \A p \in Requests : p # r => gate'[p] = gate[p]

LEMMA EndStep ==
  ASSUME IInv, NEW r \in Requests, pc[r] # "ended",
         \A g \in Gates : r \in pending[SessionOf[r]][g] => pc[r] = "waiting",
         NEW st \in {"failed", "completed"}, NEW how \in {"failed", "plan_rejected", "success"},
         how = "failed" <=> st = "failed",
         End(r, st, how), OnlyQuestionOf(r),
         answeredBy' \in [Requests -> SUBSET Requests],
         \A q \in Requests : Alone(q) => answeredBy'[q] \subseteq {q}
  PROVE  /\ AsksOwnStep' /\ NoStaleResolver' /\ UsageIsOwn' /\ ReportsLast'
         /\ AloneIsIsolated' /\ OutcomeIsPersisted'
         /\ \A q \in Requests : pc'[q] = IF q = r THEN "ended" ELSE pc[q]
         /\ pc' \in [Requests -> Location] /\ status' \in [Sessions -> Status]
         /\ pending' \in [Sessions -> [Gates -> {Nobody} \cup {{q} : q \in Requests}]]
         /\ usage' \in [Sessions -> SUBSET Requests]
         /\ summary' \in [Requests -> SUBSET Requests]
         /\ complete' \in [Requests -> Complete]
<1> USE DEF End
<1>1. /\ SessionOf \in [Requests -> Sessions] /\ TypeOK /\ AsksOwnStep /\ NoStaleResolver
      /\ UsageIsOwn /\ ReportsLast /\ AloneIsIsolated /\ OutcomeIsPersisted
  BY SessionOfAssumption DEF IInv
<1>2. /\ \A q \in Requests : pc'[q] = IF q = r THEN "ended" ELSE pc[q]
      /\ pc' \in [Requests -> Location] /\ status' \in [Sessions -> Status]
      /\ \A s \in Sessions : status'[s] = IF s = SessionOf[r] THEN st ELSE status[s]
  BY <1>1 DEF TypeOK, Goto, Persist, Location, Status
<1>3. /\ pending' \in [Sessions -> [Gates -> {Nobody} \cup {{q} : q \in Requests}]]
      /\ usage' \in [Sessions -> SUBSET Requests]
      /\ \A s \in Sessions, h \in Gates :
           pending'[s][h] = IF s = SessionOf[r] THEN {} ELSE pending[s][h]
      /\ \A s \in Sessions : usage'[s] = IF s = SessionOf[r] THEN {} ELSE usage[s]
  BY <1>1, CleanUpTypes
<1>4. /\ summary' \in [Requests -> SUBSET Requests]
      /\ complete' \in [Requests -> Complete]
      /\ \A q \in Requests : summary'[q] = IF q = r THEN usage[SessionOf[r]] ELSE summary[q]
      /\ \A q \in Requests : complete'[q] = IF q = r THEN how ELSE complete[q]
  BY <1>1 DEF TypeOK, Complete
<1>6. AsksOwnStep'
  BY <1>1, <1>2 DEF AsksOwnStep, OnlyQuestionOf
<1>7. NoStaleResolver'
  <2> SUFFICES ASSUME NEW s \in Sessions, NEW g \in Gates, NEW q \in pending'[s][g]
               PROVE  WaitsAt(q, s, g)'
    BY DEF NoStaleResolver
  <2>1. s # SessionOf[r] /\ q \in pending[s][g] /\ WaitsAt(q, s, g) /\ q \in Requests
    <3>1. s # SessionOf[r] /\ q \in pending[s][g]
      BY <1>3
    <3>2. pending[s][g] \in {Nobody} \cup {{p} : p \in Requests}
      BY <1>1 DEF TypeOK
    <3> QED BY <3>1, <3>2, <1>1 DEF NoStaleResolver, Nobody
  <2> QED BY <2>1, <1>2, <1>1 DEF WaitsAt, OnlyQuestionOf
<1>8. UsageIsOwn' /\ ReportsLast'
  BY <1>1, <1>2, <1>3, <1>4 DEF UsageIsOwn, ReportsLast
<1>9. AloneIsIsolated'
  <2> SUFFICES ASSUME NEW q \in Requests, Alone(q)
               PROVE  /\ pc'[q] = "waiting" => pending'[SessionOf[q]][gate'[q]] = {q}
                      /\ answeredBy'[q] \subseteq {q} /\ summary'[q] \subseteq {q}
    BY DEF AloneIsIsolated, Alone
  <2>1. SessionOf[q] \in Sessions /\ (q # r => SessionOf[q] # SessionOf[r]) /\ gate[q] \in Gates
    BY <1>1 DEF Alone, TypeOK
  <2>2. pc'[q] = "waiting" => pending'[SessionOf[q]][gate'[q]] = {q}
    <3>1. q # r => gate'[q] = gate[q]
      BY DEF OnlyQuestionOf
    <3>2. q # r => pending'[SessionOf[q]][gate[q]] = pending[SessionOf[q]][gate[q]]
      BY <2>1, <1>3
    <3> QED BY <3>1, <3>2, <1>1, <1>2 DEF AloneIsIsolated
  <2>3. answeredBy'[q] \subseteq {q}
    OBVIOUS
  <2>4. summary'[q] \subseteq {q}
    <3>1. CASE q = r
      <4>1. \A p \in usage[SessionOf[r]] : p \in Requests /\ SessionOf[p] = SessionOf[r]
        BY <1>1, <2>1, <3>1 DEF UsageIsOwn, TypeOK
      <4> QED BY <3>1, <4>1, <1>4 DEF Alone
    <3>2. CASE q # r
      BY <3>2, <1>1, <1>4 DEF AloneIsIsolated
    <3> QED BY <3>1, <3>2
  <2> QED BY <2>2, <2>3, <2>4
<1>10. OutcomeIsPersisted'
  <2> SUFFICES ASSUME NEW q \in Requests, Alone(q), complete'[q] # "none"
               PROVE  status'[SessionOf[q]] = IF complete'[q] = "failed" THEN "failed" ELSE "completed"
    BY DEF OutcomeIsPersisted, Alone
  <2>1. SessionOf[q] \in Sessions /\ (q # r => SessionOf[q] # SessionOf[r])
    BY <1>1 DEF Alone
  <2> QED BY <2>1, <1>1, <1>2, <1>4 DEF OutcomeIsPersisted
<1> QED BY <1>2, <1>3, <1>4, <1>6, <1>7, <1>8, <1>9, <1>10

-----------------------------------------------------------------------------
(* Steps of one request that ask nobody and end nothing.                     *)

LEMMA OpenStep == ASSUME IInv, NEW r \in Requests, Open(r) PROVE IInv'
<1> USE DEF IInv, Open, Goto, Persist, at, session, report, client
<1>0. SessionOf[r] \in Sessions
  BY SessionOfAssumption
<1>1. TypeOK'
  BY <1>0, NumStepsAssumption DEF TypeOK, Location, Status
<1>2. AsksOwnStep'
  BY DEF TypeOK, AsksOwnStep, CacheGate, PlanGate, StepGate
<1>3. NoStaleResolver'
  BY <1>0 DEF TypeOK, NoStaleResolver, WaitsAt, Nobody
<1>4. LockFollowsWork'
  BY DEF TypeOK, LockFollowsWork, OnTarget, Nobody, CacheGate, PlanGate, StepGate
<1>5. UsageIsOwn' /\ ReportsLast'
  BY DEF TypeOK, UsageIsOwn, ReportsLast
<1>6. AloneIsIsolated'
  BY <1>0 DEF TypeOK, AloneIsIsolated, Alone, UsageIsOwn
<1>7. OutcomeIsPersisted'
  BY <1>0 DEF TypeOK, OutcomeIsPersisted, Alone, ReportsLast
<1> QED BY <1>1, <1>2, <1>3, <1>4, <1>5, <1>6, <1>7

LEMMA CallModelStep == ASSUME IInv, NEW r \in Requests, CallModel(r) PROVE IInv'
<1> USE DEF IInv, CallModel, Goto, Persist, at, session, report, client
<1>0. SessionOf[r] \in Sessions
  BY SessionOfAssumption
<1>1. TypeOK'
  BY <1>0, NumStepsAssumption DEF TypeOK, Location, Status
<1>2. AsksOwnStep'
  BY DEF TypeOK, AsksOwnStep, CacheGate, PlanGate, StepGate
<1>3. NoStaleResolver'
  BY <1>0 DEF TypeOK, NoStaleResolver, WaitsAt, Nobody
<1>4. LockFollowsWork'
  BY DEF TypeOK, LockFollowsWork, OnTarget, Nobody, CacheGate, PlanGate, StepGate
<1>5. UsageIsOwn' /\ ReportsLast'
  BY DEF TypeOK, UsageIsOwn, ReportsLast
<1>6. AloneIsIsolated'
  BY <1>0 DEF TypeOK, AloneIsIsolated, Alone, UsageIsOwn
<1>7. OutcomeIsPersisted'
  BY <1>0 DEF TypeOK, OutcomeIsPersisted, Alone, ReportsLast
<1> QED BY <1>1, <1>2, <1>3, <1>4, <1>5, <1>6, <1>7

LEMMA ReadStepStep == ASSUME IInv, NEW r \in Requests, ReadStep(r) PROVE IInv'
<1> USE DEF IInv, ReadStep, Goto, Persist, at, session, report, client
<1>0. SessionOf[r] \in Sessions
  BY SessionOfAssumption
<1>1. TypeOK'
  BY <1>0, NumStepsAssumption DEF TypeOK, Location, Status
<1>2. AsksOwnStep'
  BY DEF TypeOK, AsksOwnStep, CacheGate, PlanGate, StepGate
<1>3. NoStaleResolver'
  BY <1>0 DEF TypeOK, NoStaleResolver, WaitsAt, Nobody
<1>4. LockFollowsWork'
  BY DEF TypeOK, LockFollowsWork, OnTarget, Nobody, CacheGate, PlanGate, StepGate
<1>5. UsageIsOwn' /\ ReportsLast'
  BY DEF TypeOK, UsageIsOwn, ReportsLast
<1>6. AloneIsIsolated'
  BY <1>0 DEF TypeOK, AloneIsIsolated, Alone, UsageIsOwn
<1>7. OutcomeIsPersisted'
  BY <1>0 DEF TypeOK, OutcomeIsPersisted, Alone, ReportsLast
<1> QED BY <1>1, <1>2, <1>3, <1>4, <1>5, <1>6, <1>7

LEMMA ExecutionReturnsStep == ASSUME IInv, NEW r \in Requests, ExecutionReturns(r) PROVE IInv'
<1> USE DEF IInv, ExecutionReturns, Goto, Persist, at, session, report, client
<1>0. SessionOf[r] \in Sessions
  BY SessionOfAssumption
<1>1. TypeOK'
  BY <1>0, NumStepsAssumption DEF TypeOK, Location, Status
<1>2. AsksOwnStep'
  BY DEF TypeOK, AsksOwnStep, CacheGate, PlanGate, StepGate
<1>3. NoStaleResolver'
  BY <1>0 DEF TypeOK, NoStaleResolver, WaitsAt, Nobody
<1>4. LockFollowsWork'
  BY DEF TypeOK, LockFollowsWork, OnTarget, Nobody, CacheGate, PlanGate, StepGate
<1>5. UsageIsOwn' /\ ReportsLast'
  BY DEF TypeOK, UsageIsOwn, ReportsLast
<1>6. AloneIsIsolated'
  BY <1>0 DEF TypeOK, AloneIsIsolated, Alone, UsageIsOwn
<1>7. OutcomeIsPersisted'
  BY <1>0 DEF TypeOK, OutcomeIsPersisted, Alone, ReportsLast
<1> QED BY <1>1, <1>2, <1>3, <1>4, <1>5, <1>6, <1>7

LEMMA CloseQuietlyStep == ASSUME IInv, NEW r \in Requests, CloseQuietly(r) PROVE IInv'
<1> USE DEF IInv, CloseQuietly, Goto, Persist, at, session, report, client
<1>0. SessionOf[r] \in Sessions
  BY SessionOfAssumption
<1>1. TypeOK'
  BY <1>0, NumStepsAssumption DEF TypeOK, Location, Status
<1>2. AsksOwnStep'
  BY DEF TypeOK, AsksOwnStep, CacheGate, PlanGate, StepGate
<1>3. NoStaleResolver'
  BY <1>0 DEF TypeOK, NoStaleResolver, WaitsAt, Nobody
<1>4. LockFollowsWork'
  BY DEF TypeOK, LockFollowsWork, OnTarget, Nobody, CacheGate, PlanGate, StepGate
<1>5. UsageIsOwn' /\ ReportsLast'
  BY DEF TypeOK, UsageIsOwn, ReportsLast
<1>6. AloneIsIsolated'
  BY <1>0 DEF TypeOK, AloneIsIsolated, Alone, UsageIsOwn
<1>7. OutcomeIsPersisted'
  BY <1>0 DEF TypeOK, OutcomeIsPersisted, Alone, ReportsLast
<1> QED BY <1>1, <1>2, <1>3, <1>4, <1>5, <1>6, <1>7

LEMMA DisconnectStep == ASSUME IInv, NEW r \in Requests, Disconnect(r) PROVE IInv'
<1> USE DEF IInv, Disconnect, Goto, Persist, at, session, report, client
<1>0. SessionOf[r] \in Sessions
  BY SessionOfAssumption
<1>1. TypeOK'
  BY <1>0, NumStepsAssumption DEF TypeOK, Location, Status
<1>2. AsksOwnStep'
  BY DEF TypeOK, AsksOwnStep, CacheGate, PlanGate, StepGate
<1>3. NoStaleResolver'
  BY <1>0 DEF TypeOK, NoStaleResolver, WaitsAt, Nobody
<1>4. LockFollowsWork'
  BY DEF TypeOK, LockFollowsWork, OnTarget, Nobody, CacheGate, PlanGate, StepGate
<1>5. UsageIsOwn' /\ ReportsLast'
  BY DEF TypeOK, UsageIsOwn, ReportsLast
<1>6. AloneIsIsolated'
  BY <1>0 DEF TypeOK, AloneIsIsolated, Alone, UsageIsOwn
<1>7. OutcomeIsPersisted'
  BY <1>0 DEF TypeOK, OutcomeIsPersisted, Alone, ReportsLast
<1> QED BY <1>1, <1>2, <1>3, <1>4, <1>5, <1>6, <1>7

LEMMA StepSettlesStep == ASSUME IInv, NEW r \in Requests, StepSettles(r) PROVE IInv'
<1> USE DEF IInv, StepSettles, Goto, Persist, at, session, report, client
<1>0. SessionOf[r] \in Sessions
  BY SessionOfAssumption
<1>1. TypeOK'
  <2>1. step[r] + 1 \in 0..NumSteps
    BY NumStepsAssumption DEF TypeOK
  <2> QED BY <2>1 DEF TypeOK, Location
<1>2. AsksOwnStep'
  BY DEF TypeOK, AsksOwnStep, CacheGate, PlanGate, StepGate
<1>3. NoStaleResolver'
  BY <1>0 DEF TypeOK, NoStaleResolver, WaitsAt, Nobody
<1>4. LockFollowsWork'
  BY DEF TypeOK, LockFollowsWork, OnTarget, Nobody, CacheGate, PlanGate, StepGate
<1>5. UsageIsOwn' /\ ReportsLast'
  BY DEF TypeOK, UsageIsOwn, ReportsLast
<1>6. AloneIsIsolated'
  BY <1>0 DEF TypeOK, AloneIsIsolated, Alone, UsageIsOwn
<1>7. OutcomeIsPersisted'
  BY <1>0 DEF TypeOK, OutcomeIsPersisted, Alone, ReportsLast
<1> QED BY <1>1, <1>2, <1>3, <1>4, <1>5, <1>6, <1>7

(* The pipeline throws: the session is cleaned up, and nothing is reported.  *)
LEMMA PipelineThrowsStep == ASSUME IInv, NEW r \in Requests, PipelineThrows(r) PROVE IInv'
<1> USE DEF IInv, PipelineThrows, CleanUp, Goto, Persist, at, session, report, client
<1>0. SessionOf[r] \in Sessions
  BY SessionOfAssumption
<1>1. TypeOK'
  BY <1>0, NumStepsAssumption DEF TypeOK, Location, Status
<1>2. AsksOwnStep'
  BY DEF TypeOK, AsksOwnStep, CacheGate, PlanGate, StepGate
<1>3. NoStaleResolver'
  BY <1>0 DEF TypeOK, NoStaleResolver, WaitsAt, Nobody
<1>4. LockFollowsWork'
  BY DEF TypeOK, LockFollowsWork, OnTarget, Nobody, CacheGate, PlanGate, StepGate
<1>5. UsageIsOwn' /\ ReportsLast'
  BY DEF TypeOK, UsageIsOwn, ReportsLast
<1>6. AloneIsIsolated'
  BY <1>0 DEF TypeOK, AloneIsIsolated, Alone, UsageIsOwn
<1>7. OutcomeIsPersisted'
  <2> SUFFICES ASSUME NEW q \in Requests, Alone(q), complete[q] # "none"
               PROVE  status'[SessionOf[q]] = IF complete[q] = "failed" THEN "failed" ELSE "completed"
    BY DEF OutcomeIsPersisted, Alone
  <2>1. q # r /\ SessionOf[q] # SessionOf[r] /\ SessionOf[q] \in Sessions
    BY SessionOfAssumption DEF ReportsLast, Alone
  <2> QED BY <2>1 DEF TypeOK, OutcomeIsPersisted
<1> QED BY <1>1, <1>2, <1>3, <1>4, <1>5, <1>6, <1>7

(* Steps that ask at a gate.                                                 *)

LEMMA CacheHitStep == ASSUME IInv, NEW r \in Requests, CacheHit(r) PROVE IInv'
<1> USE DEF IInv, CacheHit, Goto, Persist, at, session, report, client
<1>0. SessionOf[r] \in Sessions
  BY SessionOfAssumption
<1>a. CacheGate \in Gates /\ Ask(r, CacheGate)
  BY NumStepsAssumption DEF TypeOK, Gates, CacheGate, PlanGate, StepGate
<1>1. TypeOK'
  <2>1. /\ pc' \in [Requests -> Location] /\ gate' \in [Requests -> Gates]
        /\ pending' \in [Sessions -> [Gates -> {Nobody} \cup {{q} : q \in Requests}]]
        /\ \A q \in Requests : pc'[q] = IF q = r THEN "waiting" ELSE pc[q]
    BY <1>a, AskTypes, AskEffect
  <2> QED BY <2>1, <1>0 DEF TypeOK, Status
<1>2. AsksOwnStep'
  BY DEF Ask, TypeOK, AsksOwnStep, CacheGate, PlanGate, StepGate
<1>3. NoStaleResolver'
  BY <1>0 DEF Ask, TypeOK, NoStaleResolver, WaitsAt, Nobody
<1>4. LockFollowsWork'
  BY DEF Ask, TypeOK, LockFollowsWork, OnTarget, Nobody, CacheGate, PlanGate, StepGate
<1>5. UsageIsOwn' /\ ReportsLast'
  BY DEF Ask, TypeOK, UsageIsOwn, ReportsLast
<1>6. AloneIsIsolated'
  BY <1>a, AskAlone
<1>7. OutcomeIsPersisted'
  BY <1>0 DEF Ask, TypeOK, OutcomeIsPersisted, Alone, ReportsLast
<1> QED BY <1>1, <1>2, <1>3, <1>4, <1>5, <1>6, <1>7

LEMMA PlanReadyStep == ASSUME IInv, NEW r \in Requests, PlanReady(r) PROVE IInv'
<1> USE DEF IInv, PlanReady, Goto, Persist, at, session, report, client
<1>0. SessionOf[r] \in Sessions
  BY SessionOfAssumption
<1>a. PlanGate \in Gates /\ Ask(r, PlanGate)
  BY NumStepsAssumption DEF TypeOK, Gates, CacheGate, PlanGate, StepGate
<1>1. TypeOK'
  <2>1. /\ pc' \in [Requests -> Location] /\ gate' \in [Requests -> Gates]
        /\ pending' \in [Sessions -> [Gates -> {Nobody} \cup {{q} : q \in Requests}]]
        /\ \A q \in Requests : pc'[q] = IF q = r THEN "waiting" ELSE pc[q]
    BY <1>a, AskTypes, AskEffect
  <2> QED BY <2>1, <1>0 DEF TypeOK, Status
<1>2. AsksOwnStep'
  BY DEF Ask, TypeOK, AsksOwnStep, CacheGate, PlanGate, StepGate
<1>3. NoStaleResolver'
  BY <1>0 DEF Ask, TypeOK, NoStaleResolver, WaitsAt, Nobody
<1>4. LockFollowsWork'
  BY DEF Ask, TypeOK, LockFollowsWork, OnTarget, Nobody, CacheGate, PlanGate, StepGate
<1>5. UsageIsOwn' /\ ReportsLast'
  BY DEF Ask, TypeOK, UsageIsOwn, ReportsLast
<1>6. AloneIsIsolated'
  BY <1>a, AskAlone
<1>7. OutcomeIsPersisted'
  BY <1>0 DEF Ask, TypeOK, OutcomeIsPersisted, Alone, ReportsLast
<1> QED BY <1>1, <1>2, <1>3, <1>4, <1>5, <1>6, <1>7

LEMMA AskStepStep == ASSUME IInv, NEW r \in Requests, AskStep(r) PROVE IInv'
<1> USE DEF IInv, AskStep, Goto, Persist, at, session, report, client
<1>0. SessionOf[r] \in Sessions
  BY SessionOfAssumption
<1>a. StepGate(step[r] + 1) \in Gates /\ StepGate(step[r] + 1) > PlanGate /\ Ask(r, StepGate(step[r] + 1))
  <2>1. step[r] \in Nat /\ step[r] + 1 \in 1..NumSteps
    BY NumStepsAssumption DEF TypeOK
  <2>2. FirstSame[step[r] + 1] \in Nat /\ 1 <= FirstSame[step[r] + 1] /\ FirstSame[step[r] + 1] <= NumSteps
    BY <2>1, NumStepsAssumption, FirstSameAssumption
  <2> QED BY <2>2, NumStepsAssumption DEF Gates, PlanGate, StepGate
<1>1. TypeOK'
  <2>1. /\ pc' \in [Requests -> Location] /\ gate' \in [Requests -> Gates]
        /\ pending' \in [Sessions -> [Gates -> {Nobody} \cup {{q} : q \in Requests}]]
        /\ \A q \in Requests : pc'[q] = IF q = r THEN "waiting" ELSE pc[q]
    BY <1>a, AskTypes, AskEffect
  <2> QED BY <2>1, <1>0 DEF TypeOK, Status
<1>2. AsksOwnStep'
  BY DEF Ask, TypeOK, AsksOwnStep, CacheGate, PlanGate, StepGate
<1>3. NoStaleResolver'
  BY <1>0 DEF Ask, TypeOK, NoStaleResolver, WaitsAt, Nobody
<1>4. LockFollowsWork'
  <2> DEFINE g == StepGate(step[r] + 1)
  <2>1. g > PlanGate /\ Ask(r, g)
    BY <1>a
  <2> HIDE DEF g
  <2> QED BY <2>1 DEF Ask, TypeOK, LockFollowsWork, OnTarget, Nobody, PlanGate
<1>5. UsageIsOwn' /\ ReportsLast'
  BY DEF Ask, TypeOK, UsageIsOwn, ReportsLast
<1>6. AloneIsIsolated'
  BY <1>a, AskAlone
<1>7. OutcomeIsPersisted'
  BY <1>0 DEF Ask, TypeOK, OutcomeIsPersisted, Alone, ReportsLast
<1> QED BY <1>1, <1>2, <1>3, <1>4, <1>5, <1>6, <1>7

(* Steps at which a request ends.                                            *)

LEMMA NoPlanStep == ASSUME IInv, NEW r \in Requests, NoPlan(r) PROVE IInv'
<1> USE DEF IInv, NoPlan, Goto, Persist, at, session, report, client
<1>0. SessionOf[r] \in Sessions
  BY SessionOfAssumption
<1>a. \A g \in Gates : r \in pending[SessionOf[r]][g] => pc[r] = "waiting"
  BY <1>0 DEF NoStaleResolver, WaitsAt
<1>b. /\ answeredBy' \in [Requests -> SUBSET Requests]
      /\ \A q \in Requests : Alone(q) => answeredBy'[q] \subseteq {q}
  BY DEF TypeOK, AloneIsIsolated
<1>c. OnlyQuestionOf(r)
  BY DEF OnlyQuestionOf, TypeOK
<1>1. /\ AsksOwnStep' /\ NoStaleResolver' /\ UsageIsOwn' /\ ReportsLast'
      /\ AloneIsIsolated' /\ OutcomeIsPersisted'
      /\ \A q \in Requests : pc'[q] = IF q = r THEN "ended" ELSE pc[q]
      /\ pc' \in [Requests -> Location] /\ status' \in [Sessions -> Status]
      /\ pending' \in [Sessions -> [Gates -> {Nobody} \cup {{q} : q \in Requests}]]
      /\ usage' \in [Sessions -> SUBSET Requests]
      /\ summary' \in [Requests -> SUBSET Requests]
      /\ complete' \in [Requests -> Complete]
  BY <1>a, <1>b, <1>c, EndStep
<1>2. TypeOK'
  BY <1>1, <1>b DEF TypeOK, Nobody
<1>3. LockFollowsWork'
  BY <1>1 DEF LockFollowsWork, OnTarget, TypeOK, Nobody
<1> QED BY <1>1, <1>2, <1>3

LEMMA ExecutionThrowsStep == ASSUME IInv, NEW r \in Requests, ExecutionThrows(r) PROVE IInv'
<1> USE DEF IInv, ExecutionThrows, Goto, Persist, at, session, report, client
<1>0. SessionOf[r] \in Sessions
  BY SessionOfAssumption
<1>a. \A g \in Gates : r \in pending[SessionOf[r]][g] => pc[r] = "waiting"
  BY <1>0 DEF NoStaleResolver, WaitsAt
<1>b. /\ answeredBy' \in [Requests -> SUBSET Requests]
      /\ \A q \in Requests : Alone(q) => answeredBy'[q] \subseteq {q}
  BY DEF TypeOK, AloneIsIsolated
<1>c. OnlyQuestionOf(r)
  BY DEF OnlyQuestionOf, TypeOK
<1>1. /\ AsksOwnStep' /\ NoStaleResolver' /\ UsageIsOwn' /\ ReportsLast'
      /\ AloneIsIsolated' /\ OutcomeIsPersisted'
      /\ \A q \in Requests : pc'[q] = IF q = r THEN "ended" ELSE pc[q]
      /\ pc' \in [Requests -> Location] /\ status' \in [Sessions -> Status]
      /\ pending' \in [Sessions -> [Gates -> {Nobody} \cup {{q} : q \in Requests}]]
      /\ usage' \in [Sessions -> SUBSET Requests]
      /\ summary' \in [Requests -> SUBSET Requests]
      /\ complete' \in [Requests -> Complete]
  BY <1>a, <1>b, <1>c, EndStep
<1>2. TypeOK'
  BY <1>1, <1>b DEF TypeOK, Nobody
<1>3. LockFollowsWork'
  BY <1>1 DEF LockFollowsWork, OnTarget, TypeOK, Nobody
<1> QED BY <1>1, <1>2, <1>3

LEMMA VerifiedStep == ASSUME IInv, NEW r \in Requests, Verified(r) PROVE IInv'
<1> USE DEF IInv, Verified, Goto, Persist, at, session, report, client
<1>0. SessionOf[r] \in Sessions
  BY SessionOfAssumption
<1>a. \A g \in Gates : r \in pending[SessionOf[r]][g] => pc[r] = "waiting"
  BY <1>0 DEF NoStaleResolver, WaitsAt
<1>b. /\ answeredBy' \in [Requests -> SUBSET Requests]
      /\ \A q \in Requests : Alone(q) => answeredBy'[q] \subseteq {q}
  BY DEF TypeOK, AloneIsIsolated
<1>c. OnlyQuestionOf(r)
  BY DEF OnlyQuestionOf, TypeOK
<1>1. /\ AsksOwnStep' /\ NoStaleResolver' /\ UsageIsOwn' /\ ReportsLast'
      /\ AloneIsIsolated' /\ OutcomeIsPersisted'
      /\ \A q \in Requests : pc'[q] = IF q = r THEN "ended" ELSE pc[q]
      /\ pc' \in [Requests -> Location] /\ status' \in [Sessions -> Status]
      /\ pending' \in [Sessions -> [Gates -> {Nobody} \cup {{q} : q \in Requests}]]
      /\ usage' \in [Sessions -> SUBSET Requests]
      /\ summary' \in [Requests -> SUBSET Requests]
      /\ complete' \in [Requests -> Complete]
  <2>1. CASE End(r, "completed", "success")
    BY <2>1, <1>a, <1>b, <1>c, EndStep
  <2>2. CASE End(r, "failed", "failed")
    BY <2>2, <1>a, <1>b, <1>c, EndStep
  <2> QED BY <2>1, <2>2
<1>2. TypeOK'
  BY <1>1, <1>b DEF TypeOK, Nobody
<1>3. LockFollowsWork'
  BY <1>1 DEF LockFollowsWork, OnTarget, TypeOK, Nobody
<1> QED BY <1>1, <1>2, <1>3

-----------------------------------------------------------------------------
(* Answers.                                                                  *)

(* A request that is answered leaves its gate, and its resolver the maps.    *)
LEMMA ResolvedStep ==
  ASSUME IInv, NEW q \in Requests, NEW r \in pending[SessionOf[q]][gate[q]],
         NEW place \in {"cached", "executing", "verifying", "running"},
         place = "running" => gate[r] > PlanGate, Goto(r, place),
         pending' = [pending EXCEPT ![SessionOf[q]][gate[q]] = Nobody],
         answeredBy' = [answeredBy EXCEPT ![r] = @ \cup {q}],
         OnlyQuestionOf(r), UNCHANGED <<session, report>>,
         lock' \in {Nobody} \cup {{p} : p \in Requests}
  PROVE  /\ TypeOK' /\ AsksOwnStep' /\ NoStaleResolver' /\ UsageIsOwn' /\ ReportsLast'
         /\ AloneIsIsolated' /\ OutcomeIsPersisted'
         /\ r \in Requests /\ WaitsAt(r, SessionOf[q], gate[q])
         /\ \A p \in Requests : pc'[p] = IF p = r THEN place ELSE pc[p]
<1> DEFINE s == SessionOf[q]
           g == gate[q]
<1>1. /\ TypeOK /\ AsksOwnStep /\ NoStaleResolver /\ UsageIsOwn /\ ReportsLast
      /\ AloneIsIsolated /\ OutcomeIsPersisted
  BY DEF IInv
<1>2. s \in Sessions /\ g \in Gates /\ \A p \in Requests : SessionOf[p] \in Sessions
  BY <1>1, SessionOfAssumption DEF TypeOK
<1>3. r \in Requests /\ WaitsAt(r, s, g)
  <2>1. pending[s][g] \in {Nobody} \cup {{p} : p \in Requests}
    BY <1>1, <1>2 DEF TypeOK
  <2> QED BY <2>1, <1>1, <1>2 DEF NoStaleResolver, Nobody
<1>4. /\ step' = step /\ status' = status /\ usage' = usage
      /\ summary' = summary /\ complete' = complete /\ listening' = listening /\ gone' = gone
      /\ gate' \in [Requests -> Gates] /\ \A p \in Requests : p # r => gate'[p] = gate[p]
  BY DEF OnlyQuestionOf, session, report
<1>5. /\ \A p \in Requests : pc'[p] = IF p = r THEN place ELSE pc[p]
      /\ pc' \in [Requests -> Location]
  BY <1>1, <1>3 DEF TypeOK, Goto, Location
<1>6. /\ pending'[s][g] = {}
      /\ \A t \in Sessions, h \in Gates : t # s \/ h # g => pending'[t][h] = pending[t][h]
  BY <1>1, <1>2 DEF TypeOK, Nobody
<1>7. pending' \in [Sessions -> [Gates -> {Nobody} \cup {{p} : p \in Requests}]]
  <2>1. [pending[s] EXCEPT ![g] = Nobody] \in [Gates -> {Nobody} \cup {{p} : p \in Requests}]
    BY <1>1, <1>2 DEF TypeOK
  <2> QED BY <1>1, <1>2, <2>1 DEF TypeOK
<1>8. answeredBy' \in [Requests -> SUBSET Requests]
  BY <1>1, <1>3 DEF TypeOK
<1>9. AsksOwnStep'
  BY <1>1, <1>4, <1>5 DEF AsksOwnStep
<1>10. TypeOK'
  <2>1. \A p \in Requests : pc'[p] = "running" => step'[p] < NumSteps
    BY <1>1, <1>3, <1>4, <1>5 DEF TypeOK, AsksOwnStep, WaitsAt
  <2> QED BY <1>1, <1>4, <1>5, <1>7, <1>8, <2>1 DEF TypeOK
<1>11. NoStaleResolver'
  <2> SUFFICES ASSUME NEW t \in Sessions, NEW h \in Gates, NEW p \in pending'[t][h]
               PROVE  WaitsAt(p, t, h)'
    BY DEF NoStaleResolver
  <2>1. (t # s \/ h # g) /\ p \in pending[t][h]
    BY <1>6
  <2>2. WaitsAt(p, t, h)
    BY <1>1, <2>1 DEF NoStaleResolver
  <2>3. pending[t][h] \in {Nobody} \cup {{x} : x \in Requests}
    BY <1>1 DEF TypeOK
  <2>4. p \in Requests /\ p # r
    BY <2>1, <2>2, <2>3, <1>3 DEF WaitsAt, Nobody
  <2> QED BY <2>2, <2>4, <1>4, <1>5 DEF WaitsAt
<1>12. UsageIsOwn' /\ ReportsLast' /\ OutcomeIsPersisted'
  <2>1. ReportsLast'
    BY <1>1, <1>3, <1>4, <1>5 DEF ReportsLast, WaitsAt
  <2> QED BY <2>1, <1>1, <1>4 DEF UsageIsOwn, OutcomeIsPersisted, Alone
<1>13. AloneIsIsolated'
  <2> SUFFICES ASSUME NEW p \in Requests, Alone(p)
               PROVE  /\ pc'[p] = "waiting" => pending'[SessionOf[p]][gate'[p]] = {p}
                      /\ answeredBy'[p] \subseteq {p} /\ summary[p] \subseteq {p}
    BY <1>4 DEF AloneIsIsolated, Alone
  <2>1. p # r => SessionOf[p] # s
    BY <1>3 DEF Alone, WaitsAt
  <2>2. pc'[p] = "waiting" => pending'[SessionOf[p]][gate'[p]] = {p}
    <3>1. gate[p] \in Gates
      BY <1>1 DEF TypeOK
    <3>2. p # r => pending'[SessionOf[p]][gate[p]] = pending[SessionOf[p]][gate[p]]
      BY <2>1, <1>2, <1>6, <3>1
    <3> QED BY <3>2, <1>1, <1>4, <1>5 DEF AloneIsIsolated
  <2>3. answeredBy'[p] \subseteq {p}
    <3>1. answeredBy'[p] = IF p = r THEN answeredBy[p] \cup {q} ELSE answeredBy[p]
      BY <1>1, <1>3 DEF TypeOK
    <3>2. p = r => p = q
      BY <1>3 DEF Alone, WaitsAt
    <3> QED BY <3>1, <3>2, <1>1 DEF AloneIsIsolated
  <2> QED BY <2>2, <2>3, <1>1 DEF AloneIsIsolated
<1> QED BY <1>3, <1>5, <1>9, <1>10, <1>11, <1>12, <1>13

LEMMA AnswerStep == ASSUME IInv, NEW q \in Requests, Answer(q) PROVE IInv'
<1>1. PICK r \in pending[SessionOf[q]][gate[q]] :
        /\ \/ RejectPlan(r)
           \/ /\ ContinuePipeline(r) \/ StartExecution(r) \/ RunStep(r) \/ RefuseStep(r)
              /\ pending' = [pending EXCEPT ![SessionOf[q]][gate[q]] = Nobody]
        /\ answeredBy' = [answeredBy EXCEPT ![r] = @ \cup {q}]
        /\ gate' = [gate EXCEPT ![r] = CacheGate]
  BY DEF Answer
<1>3. TypeOK /\ LockFollowsWork /\ NoStaleResolver /\ AloneIsIsolated
  BY DEF IInv
<1>4. r \in Requests /\ WaitsAt(r, SessionOf[q], gate[q])
  <2>1. SessionOf[q] \in Sessions /\ gate[q] \in Gates
    BY <1>3, SessionOfAssumption DEF TypeOK
  <2>2. pending[SessionOf[q]][gate[q]] \in {Nobody} \cup {{p} : p \in Requests}
    BY <2>1, <1>3 DEF TypeOK
  <2> QED BY <2>1, <2>2, <1>3 DEF NoStaleResolver, Nobody
<1>2. /\ OnlyQuestionOf(r) /\ pc[q] = "waiting" /\ gate'[r] = CacheGate
      /\ step' = step /\ gate' \in [Requests -> Gates] /\ \A p \in Requests : p # r => gate'[p] = gate[p]
  <2>1. CacheGate \in Gates
    BY NumStepsAssumption DEF CacheGate, Gates
  <2>2. gate \in [Requests -> Gates] /\ gate' = [gate EXCEPT ![r] = CacheGate] /\ r \in Requests
    BY <1>1, <1>3, <1>4 DEF TypeOK
  <2>3. pc[q] = "waiting" /\ step' = step /\ listening' = listening /\ gone' = gone
    BY DEF Answer
  <2>4. gate'[r] = CacheGate /\ gate' \in [Requests -> Gates] /\ \A p \in Requests : p # r => gate'[p] = gate[p]
    BY ONLY <2>1, <2>2
  <2> QED BY <2>3, <2>4 DEF OnlyQuestionOf
<1>5. CASE RejectPlan(r)
  <2>1. /\ answeredBy' \in [Requests -> SUBSET Requests]
        /\ \A p \in Requests : Alone(p) => answeredBy'[p] \subseteq {p}
    <3>1. /\ answeredBy' \in [Requests -> SUBSET Requests]
          /\ \A p \in Requests : answeredBy'[p] = IF p = r THEN answeredBy[p] \cup {q} ELSE answeredBy[p]
      BY <1>1, <1>3, <1>4 DEF TypeOK
    <3>2. Alone(r) => r = q
      BY <1>4 DEF Alone, WaitsAt
    <3> QED BY <3>1, <3>2, <1>3 DEF AloneIsIsolated
  <2>2. End(r, "completed", "plan_rejected") /\ lock' = lock /\ gate[r] = PlanGate
    BY <1>5 DEF RejectPlan
  <2>3. /\ AsksOwnStep' /\ NoStaleResolver' /\ UsageIsOwn' /\ ReportsLast'
        /\ AloneIsIsolated' /\ OutcomeIsPersisted'
        /\ \A p \in Requests : pc'[p] = IF p = r THEN "ended" ELSE pc[p]
        /\ pc' \in [Requests -> Location] /\ status' \in [Sessions -> Status]
        /\ pending' \in [Sessions -> [Gates -> {Nobody} \cup {{p} : p \in Requests}]]
        /\ usage' \in [Sessions -> SUBSET Requests]
        /\ summary' \in [Requests -> SUBSET Requests]
        /\ complete' \in [Requests -> Complete]
    BY <2>1, <2>2, <1>2, <1>4, EndStep DEF WaitsAt
  <2>4. TypeOK'
    BY <2>1, <2>2, <2>3, <1>2, <1>3 DEF TypeOK, OnlyQuestionOf
  <2>5. LockFollowsWork'
    BY <2>2, <2>3, <1>2, <1>3, <1>4 DEF LockFollowsWork, OnTarget, WaitsAt, PlanGate
  <2> QED BY <2>3, <2>4, <2>5 DEF IInv
<1>6. CASE ContinuePipeline(r) /\ ~RejectPlan(r)
  <2>1. gate[r] = CacheGate /\ Goto(r, "cached") /\ lock' = lock /\ UNCHANGED <<session, report>>
    BY <1>6 DEF ContinuePipeline
  <2>2. /\ TypeOK' /\ AsksOwnStep' /\ NoStaleResolver' /\ UsageIsOwn' /\ ReportsLast'
        /\ AloneIsIsolated' /\ OutcomeIsPersisted'
        /\ \A p \in Requests : pc'[p] = IF p = r THEN "cached" ELSE pc[p]
    BY <2>1, <1>1, <1>2, <1>3, <1>6, ResolvedStep DEF TypeOK
  <2>3. LockFollowsWork'
    BY <2>1, <2>2, <1>2, <1>3, <1>4 DEF LockFollowsWork, OnTarget, WaitsAt, CacheGate, PlanGate
  <2> QED BY <2>2, <2>3 DEF IInv
<1>7. CASE StartExecution(r) /\ ~RejectPlan(r)
  <2>1. CASE lock = Nobody /\ lock' = {r} /\ Goto(r, "executing")
    <3>1. gate[r] = PlanGate /\ UNCHANGED <<session, report>>
      BY <1>7 DEF StartExecution
    <3>2. /\ TypeOK' /\ AsksOwnStep' /\ NoStaleResolver' /\ UsageIsOwn' /\ ReportsLast'
          /\ AloneIsIsolated' /\ OutcomeIsPersisted'
          /\ \A p \in Requests : pc'[p] = IF p = r THEN "executing" ELSE pc[p]
      BY <2>1, <3>1, <1>1, <1>2, <1>4, <1>7, ResolvedStep
    <3>3. LockFollowsWork'
      BY <2>1, <3>1, <3>2, <1>2, <1>3, <1>4 DEF LockFollowsWork, OnTarget, WaitsAt, Nobody, PlanGate
    <3> QED BY <3>2, <3>3 DEF IInv
  <2>2. CASE lock # Nobody /\ Goto(r, "verifying") /\ lock' = lock
    <3>1. gate[r] = PlanGate /\ UNCHANGED <<session, report>>
      BY <1>7 DEF StartExecution
    <3>2. /\ TypeOK' /\ AsksOwnStep' /\ NoStaleResolver' /\ UsageIsOwn' /\ ReportsLast'
          /\ AloneIsIsolated' /\ OutcomeIsPersisted'
          /\ \A p \in Requests : pc'[p] = IF p = r THEN "verifying" ELSE pc[p]
      BY <2>2, <3>1, <1>1, <1>2, <1>3, <1>7, ResolvedStep DEF TypeOK
    <3>3. LockFollowsWork'
      BY <2>2, <3>1, <3>2, <1>2, <1>3, <1>4 DEF LockFollowsWork, OnTarget, WaitsAt, PlanGate
    <3> QED BY <3>2, <3>3 DEF IInv
  <2> QED BY <2>1, <2>2, <1>7 DEF StartExecution
<1>8. CASE RunStep(r) /\ ~RejectPlan(r)
  <2>1. gate[r] > PlanGate /\ Goto(r, "running") /\ lock' = lock /\ UNCHANGED <<session, report>>
    BY <1>8 DEF RunStep
  <2>2. /\ TypeOK' /\ AsksOwnStep' /\ NoStaleResolver' /\ UsageIsOwn' /\ ReportsLast'
        /\ AloneIsIsolated' /\ OutcomeIsPersisted'
        /\ \A p \in Requests : pc'[p] = IF p = r THEN "running" ELSE pc[p]
    BY <2>1, <1>1, <1>2, <1>3, <1>8, ResolvedStep DEF TypeOK
  <2>3. LockFollowsWork'
    BY <2>1, <2>2, <1>2, <1>3, <1>4 DEF LockFollowsWork, OnTarget, WaitsAt
  <2> QED BY <2>2, <2>3 DEF IInv
<1>9. CASE RefuseStep(r) /\ ~RejectPlan(r)
  <2>1. gate[r] > PlanGate /\ Goto(r, "verifying") /\ lock' = Nobody /\ UNCHANGED <<session, report>>
    BY <1>9 DEF RefuseStep
  <2>2. /\ TypeOK' /\ AsksOwnStep' /\ NoStaleResolver' /\ UsageIsOwn' /\ ReportsLast'
        /\ AloneIsIsolated' /\ OutcomeIsPersisted'
        /\ \A p \in Requests : pc'[p] = IF p = r THEN "verifying" ELSE pc[p]
    BY <2>1, <1>1, <1>2, <1>9, ResolvedStep
  <2>3. lock = {r}
    BY <2>1, <1>3, <1>4 DEF LockFollowsWork, OnTarget, WaitsAt, TypeOK, Nobody
  <2>4. LockFollowsWork'
    BY <2>1, <2>2, <2>3, <1>2, <1>3, <1>4 DEF LockFollowsWork, OnTarget, WaitsAt, Nobody
  <2> QED BY <2>2, <2>4 DEF IInv
<1> QED BY <1>1, <1>5, <1>6, <1>7, <1>8, <1>9

-----------------------------------------------------------------------------
(* A close event rejects all that its session waits for: of the victims at   *)
(* most one is at work on the target, and then it holds the lock.            *)
LEMMA CloseRejectsStep == ASSUME IInv, NEW r \in Requests, CloseRejects(r) PROVE IInv'
<1> DEFINE s == SessionOf[r]
           rejected == {q \in Victims(s) : gate[q] = PlanGate}
           refused == {q \in Victims(s) : gate[q] > PlanGate}
<1>1. /\ TypeOK /\ AsksOwnStep /\ NoStaleResolver /\ LockFollowsWork /\ UsageIsOwn
      /\ ReportsLast /\ AloneIsIsolated /\ OutcomeIsPersisted
  BY DEF IInv
<1>2. s \in Sessions /\ \A q \in Requests : SessionOf[q] \in Sessions
  BY SessionOfAssumption
<1>3. \A q \in Victims(s) : q \in Requests /\ pc[q] = "waiting" /\ SessionOf[q] = s
  <2> SUFFICES ASSUME NEW g \in Gates, NEW q \in pending[s][g]
               PROVE  q \in Requests /\ pc[q] = "waiting" /\ SessionOf[q] = s
    BY DEF Victims
  <2>1. pending[s][g] \in {Nobody} \cup {{p} : p \in Requests}
    BY <1>1, <1>2 DEF TypeOK
  <2> QED BY <2>1, <1>1, <1>2 DEF NoStaleResolver, WaitsAt, Nobody
<1>4. \A q \in Requests : pc'[q] = IF q \in rejected THEN "ended" ELSE
                                   IF q \in refused THEN "verifying" ELSE
                                   IF q \in Victims(s) THEN "cached" ELSE pc[q]
  BY DEF CloseRejects
<1>5. /\ gate' = [q \in Requests |-> IF q \in Victims(s) THEN CacheGate ELSE gate[q]]
      /\ step' = step /\ gone' = gone /\ answeredBy' = answeredBy
      /\ listening' = listening \ {r}
      /\ lock' = IF refused = {} THEN lock ELSE Nobody
  BY DEF CloseRejects
<1>6. /\ \A g \in Gates : pending'[s][g] = {}
      /\ \A t \in Sessions : t # s => pending'[t] = pending[t]
      /\ pending' \in [Sessions -> [Gates -> {Nobody} \cup {{p} : p \in Requests}]]
  BY <1>1, <1>2 DEF CloseRejects, TypeOK, Nobody
<1>7. /\ rejected = {} => status' = status /\ usage' = usage
      /\ rejected # {} => /\ status' = [status EXCEPT ![s] = "completed"]
                          /\ usage' = [usage EXCEPT ![s] = {}]
  BY DEF CloseRejects
<1>8. /\ summary' = [q \in Requests |-> IF q \in rejected THEN usage[s] ELSE summary[q]]
      /\ complete' = [q \in Requests |-> IF q \in rejected THEN "plan_rejected" ELSE complete[q]]
  BY DEF CloseRejects
<1>9. TypeOK'
  <2>1. pc' \in [Requests -> Location]
    BY <1>1 DEF CloseRejects, TypeOK, Location
  <2>2. \A q \in Requests : pc'[q] = "running" => step'[q] < NumSteps
    BY <1>1, <1>4, <1>5 DEF TypeOK
  <2>3. status' \in [Sessions -> Status] /\ usage' \in [Sessions -> SUBSET Requests]
    BY <1>1, <1>7 DEF TypeOK, Status
  <2>4. summary' \in [Requests -> SUBSET Requests] /\ complete' \in [Requests -> Complete]
    BY <1>1, <1>2, <1>8 DEF TypeOK, Complete
  <2>5. lock' \in {Nobody} \cup {{q} : q \in Requests} /\ listening' \subseteq Requests
    BY <1>1, <1>5 DEF TypeOK
  <2>6. gate' \in [Requests -> Gates]
    <3>1. CacheGate \in Gates
      BY NumStepsAssumption DEF CacheGate, Gates
    <3> QED BY <3>1, <1>1, <1>5 DEF TypeOK
  <2> QED BY <1>1, <1>5, <1>6, <2>1, <2>2, <2>3, <2>4, <2>5, <2>6 DEF TypeOK
<1>10. AsksOwnStep'
  BY <1>1, <1>4, <1>5 DEF AsksOwnStep
<1>11. NoStaleResolver'
  <2> SUFFICES ASSUME NEW t \in Sessions, NEW g \in Gates, NEW q \in pending'[t][g]
               PROVE  WaitsAt(q, t, g)'
    BY DEF NoStaleResolver
  <2>1. t # s /\ q \in pending[t][g] /\ WaitsAt(q, t, g)
    BY <1>1, <1>6 DEF NoStaleResolver
  <2>2. pending[t][g] \in {Nobody} \cup {{p} : p \in Requests}
    BY <1>1 DEF TypeOK
  <2>3. q \in Requests /\ q \notin Victims(s)
    BY <2>1, <2>2, <1>3 DEF WaitsAt, Nobody
  <2> QED BY <2>1, <2>3, <1>4, <1>5 DEF WaitsAt
<1>12. LockFollowsWork'
  <2>1. OnTarget' = OnTarget \ refused
    BY <1>3, <1>4, <1>5 DEF OnTarget, PlanGate
  <2>2. refused \subseteq OnTarget
    BY <1>3 DEF OnTarget
  <2>3. lock \in {Nobody} \cup {{q} : q \in Requests}
    BY <1>1 DEF TypeOK
  <2> QED BY <2>1, <2>2, <2>3, <1>1, <1>5 DEF LockFollowsWork, Nobody
<1>13. UsageIsOwn' /\ ReportsLast'
  <2>1. UsageIsOwn'
    BY <1>1, <1>2, <1>7 DEF UsageIsOwn, TypeOK
  <2>2. ReportsLast'
    BY <1>1, <1>3, <1>4, <1>8 DEF ReportsLast
  <2> QED BY <2>1, <2>2
<1>14. AloneIsIsolated'
  <2> SUFFICES ASSUME NEW q \in Requests, Alone(q)
               PROVE  /\ pc'[q] = "waiting" => pending'[SessionOf[q]][gate'[q]] = {q}
                      /\ answeredBy[q] \subseteq {q} /\ summary'[q] \subseteq {q}
    BY <1>5 DEF AloneIsIsolated, Alone
  <2>1. gate[q] \in Gates /\ SessionOf[q] \in Sessions
    BY <1>1, <1>2 DEF TypeOK
  <2>2. pc'[q] = "waiting" => pending'[SessionOf[q]][gate'[q]] = {q}
    <3> SUFFICES ASSUME pc'[q] = "waiting" PROVE pending'[SessionOf[q]][gate'[q]] = {q}
      OBVIOUS
    <3>1. pc[q] = "waiting" /\ q \notin Victims(s) /\ gate'[q] = gate[q]
      <4>1. \A g \in Nat : g = PlanGate \/ g > PlanGate \/ g = CacheGate
        BY DEF PlanGate, CacheGate
      <4> QED BY <4>1, <1>4, <1>5
    <3>2. pending[SessionOf[q]][gate[q]] = {q}
      BY <3>1, <1>1 DEF AloneIsIsolated
    <3>3. SessionOf[q] # s
      BY <3>1, <3>2, <2>1 DEF Victims
    <3> QED BY <3>1, <3>2, <3>3, <2>1, <1>6
  <2>3. summary'[q] \subseteq {q}
    <3>1. CASE q \in rejected
      <4>1. SessionOf[q] = s /\ summary'[q] = usage[s]
        BY <3>1, <1>3, <1>8
      <4>2. \A p \in usage[s] : p \in Requests /\ SessionOf[p] = s
        BY <1>1, <1>2 DEF UsageIsOwn, TypeOK
      <4> QED BY <4>1, <4>2 DEF Alone
    <3>2. CASE q \notin rejected
      BY <3>2, <1>1, <1>8 DEF AloneIsIsolated
    <3> QED BY <3>1, <3>2
  <2> QED BY <2>2, <2>3, <1>1 DEF AloneIsIsolated
<1>15. OutcomeIsPersisted'
  <2> SUFFICES ASSUME NEW q \in Requests, Alone(q), complete'[q] # "none"
               PROVE  status'[SessionOf[q]] = IF complete'[q] = "failed" THEN "failed" ELSE "completed"
    BY DEF OutcomeIsPersisted, Alone
  <2>1. CASE q \in rejected
    BY <2>1, <1>1, <1>2, <1>3, <1>7, <1>8 DEF TypeOK
  <2>2. CASE q \notin rejected
    <3>1. complete'[q] = complete[q] /\ pc[q] = "ended"
      BY <2>2, <1>1, <1>8 DEF ReportsLast
    <3>2. rejected # {} => SessionOf[q] # s
      BY <3>1, <1>3 DEF Alone
    <3>3. status'[SessionOf[q]] = status[SessionOf[q]]
      BY <3>2, <1>1, <1>2, <1>7 DEF TypeOK
    <3> QED BY <3>1, <3>3, <1>1 DEF OutcomeIsPersisted
  <2> QED BY <2>1, <2>2
<1> QED BY <1>9, <1>10, <1>11, <1>12, <1>13, <1>14, <1>15 DEF IInv

-----------------------------------------------------------------------------
LEMMA InitIInv == Init => IInv
<1> SUFFICES ASSUME Init PROVE IInv
  OBVIOUS
<1>1. CacheGate \in Gates /\ 0 \in 0..NumSteps
  BY NumStepsAssumption DEF Gates, CacheGate
<1>2. TypeOK
  <2>1. pending \in [Sessions -> [Gates -> {Nobody} \cup {{r} : r \in Requests}]]
    BY DEF Init
  <2>2. step \in [Requests -> 0..NumSteps] /\ gate \in [Requests -> Gates]
    BY <1>1 DEF Init
  <2> QED BY <2>1, <2>2 DEF Init, TypeOK, Location, Status, Complete
<1>3. AsksOwnStep /\ UsageIsOwn /\ ReportsLast
  BY DEF Init, AsksOwnStep, UsageIsOwn, ReportsLast
<1>4. NoStaleResolver /\ LockFollowsWork
  BY DEF Init, NoStaleResolver, LockFollowsWork, OnTarget, Nobody
<1>5. AloneIsIsolated /\ OutcomeIsPersisted
  BY DEF Init, AloneIsIsolated, OutcomeIsPersisted
<1> QED BY <1>2, <1>3, <1>4, <1>5 DEF IInv

LEMMA NextStep == IInv /\ [Next]_vars => IInv'
<1> SUFFICES ASSUME IInv, [Next]_vars PROVE IInv'
  OBVIOUS
<1>1. CASE UNCHANGED vars
  <2>1. /\ pc' = pc /\ gate' = gate /\ step' = step /\ pending' = pending /\ lock' = lock
        /\ status' = status /\ usage' = usage /\ summary' = summary /\ complete' = complete
        /\ listening' = listening /\ gone' = gone /\ answeredBy' = answeredBy
    BY <1>1 DEF vars, at, session, report, client
  <2>2. TypeOK'
    BY <2>1 DEF IInv, TypeOK
  <2>3. AsksOwnStep' /\ UsageIsOwn' /\ ReportsLast'
    BY <2>1 DEF IInv, AsksOwnStep, UsageIsOwn, ReportsLast
  <2>4. NoStaleResolver' /\ LockFollowsWork'
    BY <2>1 DEF IInv, NoStaleResolver, WaitsAt, LockFollowsWork, OnTarget
  <2>5. AloneIsIsolated' /\ OutcomeIsPersisted'
    BY <2>1 DEF IInv, AloneIsIsolated, Alone, OutcomeIsPersisted
  <2> QED BY <2>2, <2>3, <2>4, <2>5 DEF IInv
<1>2. ASSUME NEW r \in Requests, Work(r) PROVE IInv'
  BY <1>2, CloseQuietlyStep, CloseRejectsStep, CacheHitStep, PlanReadyStep, NoPlanStep,
     PipelineThrowsStep, ReadStepStep, AskStepStep, StepSettlesStep, ExecutionReturnsStep,
     ExecutionThrowsStep, VerifiedStep DEF Work
<1>3. CASE Next
  BY <1>2, <1>3, OpenStep, CallModelStep, AnswerStep, DisconnectStep DEF Next
<1> QED BY <1>1, <1>3

LEMMA Invariance == Spec => []IInv
  BY InitIInv, NextStep, PTL DEF Spec

-----------------------------------------------------------------------------
(* The types of StreamDebug, for any sharing of sessions among the requests.  *)
THEOREM TypeCorrect == Spec => []TypeOK
  BY Invariance, PTL DEF IInv

(* No answer, close event, exception or clean-up leaves a resolver behind     *)
(* that a later request's answer could reach.                                *)
THEOREM NoResolverIsStale == Spec => []NoStaleResolver
  BY Invariance, PTL DEF IInv

(* The lock is held by the one request at work on the target, whichever way   *)
(* executePlan is left.                                                      *)
THEOREM LockIsReleased == Spec => []LockFollowsWork
  BY Invariance, PTL DEF IInv

(* A request with a session of its own is out of reach of all others.        *)
THEOREM OwnSessionIsolates == Spec => []AloneIsIsolated
  BY Invariance, PTL DEF IInv

(* What a request reports to its client is what its session says for good.    *)
THEOREM ReportsArePersisted == Spec => []OutcomeIsPersisted
  BY Invariance, PTL DEF IInv
=============================================================================
