------------------------- MODULE SessionResume_proofs -------------------------
(***************************************************************************)
(* A plan that is executed once and resumed any number of times, across any  *)
(* number of server starts and steps, by any finite set of calls.  The      *)
(* inductive invariant says who may hold the target, what a call at work     *)
(* has behind it, and what the first resume finds undone.                   *)
(***************************************************************************)
EXTENDS SessionResume, FiniteSetTheorems, TLAPS

(* A call that runs holds the target; a lock file whose call does not run   *)
(* was left by a crash.                                                     *)
LockIsHeldOrOrphaned ==
  \A c \in Calls : /\ pc[c] = "running" => lock = {c}
                   /\ lock = {c} => pc[c] \in {"running", "lost"}

Untouched == \A c \in Calls : pc[c] = "idle" =>
  at[c] = 0 /\ from[c] = 0 /\ skip[c] = FALSE /\ c \notin resumes

(* The run of /execute is over as soon as there is a resume point: who runs *)
(* later was started by /resume.                                            *)
ExecuteComesFirst ==
  /\ ~executed => \A k \in Step : times[k] = 0
  /\ \A c \in Calls : pc[c] = "running" => executed
  /\ (resumes # {} \/ \E s \in Session : stop[s] # {}) =>
       executed /\ \A c \in Calls : pc[c] = "running" => c \in resumes

(* What a running call has behind it. *)
Behind ==
  \A c \in Calls : pc[c] = "running" =>
    /\ c \notin resumes => from[c] = 0 /\ skip[c] = FALSE
    /\ \A j \in Step : j < from[c] => times[j] > 0
    /\ \A j \in Step : j < at[c] => times[j] > 0 \/ (c \in resumes /\ j \in skipped)

(* Up to the end of the first resume, nothing beyond the resume point, or    *)
(* beyond where the call is, has been run; and nothing twice.               *)
FirstRound ==
  /\ resumes = {} => \A s \in Session : \A p \in stop[s] : \A k \in Step :
                       k >= p => times[k] = 0
  /\ \A c \in Calls : pc[c] = "running" /\ resumes \subseteq {c} =>
       \A k \in Step : k >= at[c] /\ k >= from[c] => times[k] = 0
  /\ resumes = {} \/ (\E c \in Calls : resumes = {c}) => \A k \in Step : times[k] <= 1

(* A call settles a step at most once. *)
Past(k) == {c \in Calls : at[c] > k}
OncePerCall == \A k \in Step : times[k] <= Cardinality(Past(k))

IInv ==
  /\ TypeOK /\ LockIsHeldOrOrphaned /\ Untouched /\ ExecuteComesFirst /\ Behind
  /\ FirstRound /\ OncePerCall /\ SavedStepsAreDone /\ NoStepMissed /\ LostOnlyByDebug
-----------------------------------------------------------------------------
LEMMA InitIInv == Init => IInv
<1> SUFFICES ASSUME Init PROVE IInv
  OBVIOUS
<1>1. Session # {} /\ 1 \in Session /\ 0 \in Step /\ 0 \in 0..NumSteps
  BY NumStepsAssumption, MaxStartsAssumption DEF Session, Step
<1>2. Cardinality(Calls) \in Nat /\ \A k \in Step : Cardinality(Past(k)) \in Nat
  BY CallsAssumption, FS_CardinalityType, FS_Subset DEF Past
<1>3. TypeOK
  <2>1. stop \in [Session -> {{}} \cup {{k} : k \in Step}] /\ server \in Session
    BY <1>1 DEF Init
  <2>2. times \in [Step -> 0..Cardinality(Calls)] /\ executed \in BOOLEAN
    <3>1. 0 \in 0..Cardinality(Calls)
      BY <1>2
    <3> QED BY <3>1 DEF Init
  <2>3. at \in [Calls -> 0..NumSteps] /\ from \in [Calls -> Step]
    BY <1>1 DEF Init
  <2> QED BY <2>1, <2>2, <2>3 DEF Init, TypeOK
<1>4. LockIsHeldOrOrphaned /\ Untouched /\ ExecuteComesFirst /\ Behind
  BY DEF Init, LockIsHeldOrOrphaned, Untouched, ExecuteComesFirst, Behind
<1>5. FirstRound /\ OncePerCall
  BY <1>2 DEF Init, FirstRound, OncePerCall
<1>6. SavedStepsAreDone /\ NoStepMissed /\ LostOnlyByDebug
  BY DEF Init, SavedStepsAreDone, NoStepMissed, LostOnlyByDebug
<1> QED BY <1>3, <1>4, <1>5, <1>6 DEF IInv

(* A call that comes and finds the target free, or held.                    *)
LEMMA ExecuteStep == ASSUME IInv, NEW c \in Calls, Execute(c) PROVE IInv'
<1> USE DEF IInv, TypeOK, Execute, Enter, options
<1>1. TypeOK'
  OBVIOUS
<1>2. LockIsHeldOrOrphaned'
  BY DEF LockIsHeldOrOrphaned
<1>3. Untouched'
  BY DEF Untouched
<1>4. ExecuteComesFirst'
  BY DEF ExecuteComesFirst, Untouched
<1>5. Behind'
  <2>1. \A j \in Step : j >= 0
    BY NumStepsAssumption DEF Step
  <2>2. at[c] = 0 /\ from[c] = 0 /\ skip[c] = FALSE
    BY DEF Untouched
  <2>3. \A j \in Step : ~(j < 0)
    BY <2>1, NumStepsAssumption DEF Step
  <2> QED BY <2>2, <2>3 DEF Behind
<1>6. FirstRound'
  BY DEF FirstRound, Untouched, ExecuteComesFirst
<1>7. OncePerCall'
  BY DEF OncePerCall, Past
<1>8. SavedStepsAreDone' /\ NoStepMissed' /\ LostOnlyByDebug'
  BY DEF SavedStepsAreDone, NoStepMissed, LostOnlyByDebug
<1> QED BY <1>1, <1>2, <1>3, <1>4, <1>5, <1>6, <1>7, <1>8

LEMMA ResumeStep == ASSUME IInv, NEW c \in Calls, Resume(c) PROVE IInv'
<1> USE DEF IInv, TypeOK, Resume, Enter
<1>1. TypeOK'
  OBVIOUS
<1>2. LockIsHeldOrOrphaned'
  BY DEF LockIsHeldOrOrphaned
<1>3. Untouched'
  BY DEF Untouched
<1>4. ExecuteComesFirst'
  BY DEF ExecuteComesFirst, LockIsHeldOrOrphaned
<1>5. Behind'
  BY DEF Behind, Untouched, SavedStepsAreDone, Step
<1>6. FirstRound'
  BY DEF FirstRound, Untouched, LockIsHeldOrOrphaned
<1>7. OncePerCall'
  BY DEF OncePerCall, Past
<1>8. SavedStepsAreDone' /\ NoStepMissed' /\ LostOnlyByDebug'
  BY DEF SavedStepsAreDone, NoStepMissed, LostOnlyByDebug
<1> QED BY <1>1, <1>2, <1>3, <1>4, <1>5, <1>6, <1>7, <1>8

(* A call that moves on does not leave the calls that are past a step.       *)
LEMMA PastGrows ==
  ASSUME TypeOK, OncePerCall, NEW c \in Calls, at' = [at EXCEPT ![c] = @ + 1]
  PROVE  \A k \in Step : times[k] <= Cardinality(Past(k)')
<1> SUFFICES ASSUME NEW k \in Step PROVE times[k] <= Cardinality(Past(k)')
  OBVIOUS
<1>1. Past(k) \subseteq Past(k)' /\ Past(k)' \subseteq Calls
  BY DEF Past, TypeOK, Step
<1>2. IsFiniteSet(Past(k)')
  BY <1>1, CallsAssumption, FS_Subset
<1>3. Cardinality(Past(k)) <= Cardinality(Past(k)')
  BY <1>1, <1>2, FS_Subset
<1>4. Cardinality(Past(k)) \in Nat /\ Cardinality(Past(k)') \in Nat /\ times[k] \in Nat
  BY <1>1, <1>2, CallsAssumption, FS_Subset, FS_CardinalityType DEF TypeOK
<1> QED BY <1>3, <1>4 DEF OncePerCall

(* The call passes a step that lies before its resume point, or the one      *)
(* there.                                                                   *)
LEMMA SkipStepStep == ASSUME IInv, NEW c \in Calls, SkipStep(c) PROVE IInv'
<1> USE DEF IInv, TypeOK, SkipStep, Skipping, plan, options
<1>a. at[c] \in Step /\ at[c] \in Nat /\ at[c] + 1 \in 0..NumSteps
  BY NumStepsAssumption DEF Step
<1>1. TypeOK'
  BY <1>a
<1>2. LockIsHeldOrOrphaned'
  BY DEF LockIsHeldOrOrphaned
<1>3. Untouched'
  BY DEF Untouched
<1>4. ExecuteComesFirst'
  BY DEF ExecuteComesFirst
<1>5. Behind'
  <2> SUFFICES ASSUME NEW d \in Calls, pc'[d] = "running"
               PROVE  /\ d \notin resumes => from[d] = 0 /\ skip[d] = FALSE
                      /\ \A j \in Step : j < from[d] => times[j] > 0
                      /\ \A j \in Step : j < at'[d] =>
                           times[j] > 0 \/ (d \in resumes /\ j \in skipped')
    BY DEF Behind
  <2>1. pc[d] = "running" /\ d = c
    BY DEF LockIsHeldOrOrphaned
  <2> QED BY <2>1, NumStepsAssumption DEF Behind, Step
<1>6. FirstRound'
  <2>1. \A d \in Calls : pc'[d] = "running" => d = c
    BY DEF LockIsHeldOrOrphaned
  <2>2. resumes \subseteq {c} => \A k \in Step : k >= at'[c] /\ k >= from[c] => times[k] = 0
    <3>1. \A k \in Step : k >= at'[c] => k >= at[c]
      BY <1>a, NumStepsAssumption DEF Step
    <3>2. resumes \subseteq {c} => \A k \in Step : k >= at[c] /\ k >= from[c] => times[k] = 0
      BY DEF FirstRound
    <3> QED BY <3>1, <3>2
  <2> QED BY <2>1, <2>2 DEF FirstRound
<1>7. OncePerCall'
  BY PastGrows DEF OncePerCall
<1>8. SavedStepsAreDone' /\ NoStepMissed' /\ LostOnlyByDebug'
  BY DEF SavedStepsAreDone, NoStepMissed, LostOnlyByDebug
<1> QED BY <1>1, <1>2, <1>3, <1>4, <1>5, <1>6, <1>7, <1>8

(* Who runs beyond its resume point runs what nobody has run, unless it is   *)
(* a second resume.                                                         *)
LEMMA SettleStepStep == ASSUME IInv, NEW c \in Calls, SettleStep(c) PROVE IInv'
<1> USE DEF IInv, TypeOK, SettleStep, Skipping, plan, options
<1>a. at[c] \in Step /\ at[c] \in Nat
  BY NumStepsAssumption DEF Step
<1>b. times \in [Step -> Nat] /\ times' \in [Step -> Nat]
  BY <1>a, CallsAssumption, FS_CardinalityType
<1>7. OncePerCall'
  <2> SUFFICES ASSUME NEW k \in Step PROVE times'[k] <= Cardinality(Past(k)')
    BY DEF OncePerCall
  <2>1. CASE k = at[c]
    <3>1. Past(k)' = Past(k) \cup {c} /\ c \notin Past(k)
      BY <2>1, <1>a DEF Past
    <3>2. IsFiniteSet(Past(k)) /\ Cardinality(Past(k)) \in Nat
      BY CallsAssumption, FS_Subset, FS_CardinalityType DEF Past
    <3>3. Cardinality(Past(k)') = Cardinality(Past(k)) + 1
      BY <3>1, <3>2, FS_AddElement
    <3> QED BY <3>2, <3>3, <2>1, <1>a, <1>b DEF OncePerCall
  <2>2. CASE k # at[c]
    <3>1. times'[k] = times[k]
      BY <2>2
    <3>2. Past(k) = Past(k)'
      BY <2>2, <1>a DEF Past, Step
    <3> QED BY <3>1, <3>2 DEF OncePerCall
  <2> QED BY <2>1, <2>2
<1>1. TypeOK'
  <2>1. times' \in [Step -> 0..Cardinality(Calls)]
    <3>1. \A k \in Step : Cardinality(Past(k)') <= Cardinality(Calls) /\ Cardinality(Past(k)') \in Nat
      BY CallsAssumption, FS_Subset, FS_CardinalityType DEF Past
    <3>2. Cardinality(Calls) \in Nat
      BY CallsAssumption, FS_CardinalityType
    <3> QED BY <3>1, <3>2, <1>7, <1>b DEF OncePerCall
  <2>2. at' \in [Calls -> 0..NumSteps]
    BY NumStepsAssumption
  <2> QED BY <2>1, <2>2
<1>2. LockIsHeldOrOrphaned'
  BY DEF LockIsHeldOrOrphaned
<1>3. Untouched'
  BY DEF Untouched
<1>4. ExecuteComesFirst'
  BY DEF ExecuteComesFirst
<1>5. Behind'
  <2> SUFFICES ASSUME NEW d \in Calls, pc'[d] = "running"
               PROVE  /\ d \notin resumes => from[d] = 0 /\ skip[d] = FALSE
                      /\ \A j \in Step : j < from[d] => times'[j] > 0
                      /\ \A j \in Step : j < at'[d] =>
                           times'[j] > 0 \/ (d \in resumes /\ j \in skipped)
    BY DEF Behind
  <2>1. pc[d] = "running" /\ d = c
    BY DEF LockIsHeldOrOrphaned
  <2> QED BY <2>1, <1>a, <1>b DEF Behind, Step
<1>6. FirstRound'
  <2>1. resumes = {} \/ (\E r \in Calls : resumes = {r}) => times[at[c]] = 0
    <3>1. resumes \subseteq {c}
                \/ ~(resumes = {} \/ \E r \in Calls : resumes = {r})
      <4>1. c \notin resumes => resumes = {}
        BY DEF ExecuteComesFirst
      <4>2. \A r \in Calls : resumes = {r} /\ c \in resumes => resumes \subseteq {c}
        OBVIOUS
      <4> QED BY <4>1, <4>2
    <3>2. at[c] >= from[c]
      BY NumStepsAssumption DEF Step
    <3> QED BY <3>1, <3>2, <1>a DEF FirstRound
  <2>2. resumes = {} => \A s \in Session : stop[s] = {}
    BY DEF ExecuteComesFirst
  <2>3. \A d \in Calls : pc[d] = "running" => d = c
    BY DEF LockIsHeldOrOrphaned
  <2>4. \A k \in Step : times'[k] = IF k = at[c] THEN times[k] + 1 ELSE times[k]
    BY <1>a
  <2>5. resumes = {} \/ (\E r \in Calls : resumes = {r}) => \A k \in Step : times'[k] <= 1
    BY <2>1, <2>4, <1>a, <1>b DEF FirstRound
  <2>6. resumes \subseteq {c} => \A k \in Step : k >= at[c] + 1 /\ k >= from[c] => times'[k] = 0
    <3>1. \A k \in Step : k >= at[c] + 1 => k >= at[c] /\ k # at[c]
      BY <1>a, NumStepsAssumption DEF Step
    <3>2. resumes \subseteq {c} => \A k \in Step : k >= at[c] /\ k >= from[c] => times[k] = 0
      BY DEF FirstRound
    <3> QED BY <3>1, <3>2, <2>4
  <2>7. at'[c] = at[c] + 1
    BY <1>a
  <2> QED BY <2>2, <2>3, <2>5, <2>6, <2>7 DEF FirstRound
<1>8. SavedStepsAreDone' /\ NoStepMissed' /\ LostOnlyByDebug'
  BY <1>a, <1>b DEF SavedStepsAreDone, NoStepMissed, LostOnlyByDebug
<1> QED BY <1>1, <1>2, <1>3, <1>4, <1>5, <1>6, <1>7, <1>8

(* A call that ends frees the target.                                       *)
LEMMA LeaveStep ==
  ASSUME IInv, NEW c \in Calls, pc[c] = "running", NEW how \in {"halted", "aborted", "completed"},
         Leave(c, how), UNCHANGED <<server, at, options, plan>>
  PROVE  /\ LockIsHeldOrOrphaned' /\ Untouched' /\ Behind' /\ OncePerCall'
         /\ \A d \in Calls : pc'[d] # "running"
<1> USE DEF IInv, TypeOK, Leave, plan, options
<1>1. \A d \in Calls : pc'[d] # "running"
  BY DEF LockIsHeldOrOrphaned
<1>2. LockIsHeldOrOrphaned' /\ Untouched'
  BY <1>1 DEF LockIsHeldOrOrphaned, Untouched
<1>3. Behind' /\ OncePerCall'
  BY <1>1 DEF Behind, OncePerCall, Past
<1> QED BY <1>1, <1>2, <1>3

(* Only the run of /execute saves its resume point: all steps before it were *)
(* run, and no step from there on.                                          *)
LEMMA HaltsStep == ASSUME IInv, NEW c \in Calls, Halts(c) PROVE IInv'
<1> USE DEF IInv, TypeOK, Halts, plan, options
<1>a. at[c] \in Step /\ at[c] \in Nat
  BY NumStepsAssumption DEF Step
<1>b. /\ LockIsHeldOrOrphaned' /\ Untouched' /\ Behind' /\ OncePerCall'
      /\ \A d \in Calls : pc'[d] # "running"
  BY LeaveStep
<1>1. TypeOK'
  BY <1>a DEF Leave
<1>2. ExecuteComesFirst'
  BY <1>b DEF ExecuteComesFirst
<1>3. FirstRound'
  <2>1. c \notin resumes => from[c] = 0 /\ \A k \in Step : k >= at[c] => times[k] = 0
    <3> SUFFICES ASSUME c \notin resumes
                 PROVE  from[c] = 0 /\ \A k \in Step : k >= at[c] => times[k] = 0
      OBVIOUS
    <3>1. resumes = {} /\ from[c] = 0
      BY DEF ExecuteComesFirst, Behind
    <3> QED BY <3>1, NumStepsAssumption DEF FirstRound, Step
  <2> QED BY <2>1, <1>b DEF FirstRound
<1>4. SavedStepsAreDone'
  BY DEF SavedStepsAreDone, Behind
<1>5. NoStepMissed'
  BY DEF NoStepMissed, Leave
<1>6. LostOnlyByDebug'
  BY <1>a DEF LostOnlyByDebug
<1> QED BY <1>b, <1>1, <1>2, <1>3, <1>4, <1>5, <1>6

LEMMA AbortsStep == ASSUME IInv, NEW c \in Calls, Aborts(c) PROVE IInv'
<1> USE DEF IInv, TypeOK, Aborts, plan, options
<1>1. /\ LockIsHeldOrOrphaned' /\ Untouched' /\ Behind' /\ OncePerCall'
      /\ \A d \in Calls : pc'[d] # "running"
  BY LeaveStep
<1>2. TypeOK'
  BY DEF Leave
<1>3. ExecuteComesFirst' /\ FirstRound'
  BY <1>1 DEF ExecuteComesFirst, FirstRound
<1>4. SavedStepsAreDone' /\ NoStepMissed' /\ LostOnlyByDebug'
  BY DEF SavedStepsAreDone, NoStepMissed, LostOnlyByDebug, Leave
<1> QED BY <1>1, <1>2, <1>3, <1>4

(* A call that completes has every step of the plan behind it.               *)
LEMMA CompletesStep == ASSUME IInv, NEW c \in Calls, Completes(c) PROVE IInv'
<1> USE DEF IInv, TypeOK, Completes, plan, options
<1>1. /\ LockIsHeldOrOrphaned' /\ Untouched' /\ Behind' /\ OncePerCall'
      /\ \A d \in Calls : pc'[d] # "running"
  BY LeaveStep
<1>2. TypeOK'
  BY DEF Leave
<1>3. ExecuteComesFirst' /\ FirstRound'
  BY <1>1 DEF ExecuteComesFirst, FirstRound
<1>4. NoStepMissed'
  BY NumStepsAssumption DEF NoStepMissed, Behind, Step, Leave
<1>5. SavedStepsAreDone' /\ LostOnlyByDebug'
  BY DEF SavedStepsAreDone, LostOnlyByDebug
<1> QED BY <1>1, <1>2, <1>3, <1>4, <1>5

LEMMA DebugStep == ASSUME IInv, Debug PROVE IInv'
<1> USE DEF IInv, TypeOK, Debug, plan, options
<1>1. TypeOK'
  OBVIOUS
<1>2. LockIsHeldOrOrphaned' /\ Untouched' /\ Behind' /\ OncePerCall' /\ NoStepMissed'
  BY DEF LockIsHeldOrOrphaned, Untouched, Behind, OncePerCall, Past, NoStepMissed
<1>3. ExecuteComesFirst' /\ FirstRound' /\ SavedStepsAreDone' /\ LostOnlyByDebug'
  BY DEF ExecuteComesFirst, FirstRound, SavedStepsAreDone, LostOnlyByDebug
<1> QED BY <1>1, <1>2, <1>3

(* A crash leaves the rows, and the lock file of the call that ran.         *)
LEMMA RestartStep == ASSUME IInv, Restart PROVE IInv'
<1> USE DEF IInv, TypeOK, Restart, plan, options
<1>1. TypeOK'
  BY MaxStartsAssumption DEF Session
<1>2. \A c \in Calls : pc'[c] # "running" /\ (pc'[c] # pc[c] => pc'[c] = "lost")
  OBVIOUS
<1>3. LockIsHeldOrOrphaned' /\ Untouched'
  BY <1>2 DEF LockIsHeldOrOrphaned, Untouched
<1>4. Behind' /\ OncePerCall' /\ NoStepMissed'
  BY <1>2 DEF Behind, OncePerCall, Past, NoStepMissed
<1>5. ExecuteComesFirst' /\ FirstRound' /\ SavedStepsAreDone' /\ LostOnlyByDebug'
  BY <1>2 DEF ExecuteComesFirst, FirstRound, SavedStepsAreDone, LostOnlyByDebug
<1> QED BY <1>1, <1>3, <1>4, <1>5

LEMMA NextStep == IInv /\ [Next]_vars => IInv'
<1> SUFFICES ASSUME IInv, [Next]_vars PROVE IInv'
  OBVIOUS
<1>1. CASE UNCHANGED vars
  BY <1>1 DEF vars, plan, options, IInv, TypeOK, LockIsHeldOrOrphaned, Untouched,
     ExecuteComesFirst, Behind, FirstRound, OncePerCall, Past, SavedStepsAreDone,
     NoStepMissed, LostOnlyByDebug
<1>2. CASE Next
  BY <1>2, ExecuteStep, ResumeStep, SkipStepStep, SettleStepStep, HaltsStep, AbortsStep,
     CompletesStep, DebugStep, RestartStep DEF Next
<1> QED BY <1>1, <1>2

LEMMA Invariance == Spec => []IInv
  BY InitIInv, NextStep, PTL DEF Spec

-----------------------------------------------------------------------------
(* The types of SessionResume, with the bound on how often a step is run:    *)
(* once per call.                                                           *)
THEOREM TypeCorrect == Spec => []TypeOK
  BY Invariance, PTL DEF IInv

(* A row never claims more steps than were run, whatever servers crashed and *)
(* whoever resumed the plan meanwhile.                                       *)
THEOREM ResumePointsAreHonest == Spec => []SavedStepsAreDone
  BY Invariance, PTL DEF IInv

(* No step is missed by a plan that completes after any number of halts,     *)
(* resumes and crashes.                                                      *)
THEOREM CompletionIsComplete == Spec => []NoStepMissed
  BY Invariance, PTL DEF IInv

(* The first resume of a plan runs no step a second time.                    *)
THEOREM FirstResumeIsExact == Spec => []FirstResumeRerunsNothing
<1>1. IInv => FirstResumeRerunsNothing
  <2> SUFFICES ASSUME IInv, Cardinality(resumes) <= 1
               PROVE  \A k \in Step : times[k] <= 1
    BY DEF FirstResumeRerunsNothing
  <2>1. resumes \subseteq Calls
    BY DEF IInv, TypeOK
  <2>2. IsFiniteSet(resumes) /\ Cardinality(resumes) \in Nat
    BY <2>1, CallsAssumption, FS_Subset, FS_CardinalityType
  <2>3. resumes = {} \/ \E r : resumes = {r}
    BY <2>2, FS_EmptySet, FS_Singleton
  <2> QED BY <2>1, <2>3 DEF IInv, FirstRound
<1> QED BY <1>1, Invariance, PTL

(* A resume point is lost to a debug request of its session and to nothing   *)
(* else.                                                                     *)
THEOREM ResumePointsLast == Spec => []LostOnlyByDebug
  BY Invariance, PTL DEF IInv

(* At most one call runs, it holds the target, and a lock that is left over  *)
(* was left by a crash.                                                      *)
THEOREM LocksAreHeldOrOrphaned == Spec => []LockIsHeldOrOrphaned
  BY Invariance, PTL DEF IInv
=============================================================================
