---------------------------- MODULE SessionResume ----------------------------
(***************************************************************************)
(* One fix plan across API calls and server restarts: POST /execute starts  *)
(* it, POST /resume continues it from what the session row says, debug      *)
(* requests and restarts come in between (api/routes/execute.ts, resume.ts, *)
(* stream-debug.ts, index.ts).                                             *)
(*                                                                         *)
(* executePlan is taken at the level of its contract, FixRun: it settles    *)
(* steps in order under the target's lock and stops at one of them.  A      *)
(* session is the number of the server start that created it.              *)
(***************************************************************************)
EXTENDS Naturals, FiniteSets

CONSTANTS
  Calls,         \* /execute and /resume requests on the plan's target
  NumSteps,      \* steps of the plan
  MaxStarts      \* bound on server starts

ASSUME CallsAssumption == IsFiniteSet(Calls)
ASSUME NumStepsAssumption == NumSteps \in Nat \ {0}
ASSUME MaxStartsAssumption == MaxStarts \in Nat \ {0}

VARIABLES
  server,        \* the running server: its session is deps.sessionId of every route
  stop,          \* resume point in each session's row, as a set: {} or {step}
  lock,          \* the call that created the lock file, if it exists
  pc,            \* where each call is
  at,            \* the step it is at
  from,          \* ResumeOptions.startFromStep
  skip,          \* ResumeOptions.skipFailedStep
  executed,      \* was the plan submitted to /execute?
  times,         \* history: how often each step was settled by running it
  skipped,       \* history: steps an admin chose to skip
  resumes,       \* history: /resume calls that ran
  halted,        \* history: the session whose row got the plan's resume point
  debugged       \* history: sessions with a /stream/debug request since that point

plan == <<executed, times, skipped, resumes>>
options == <<from, skip>>
vars == <<server, stop, lock, pc, at, options, plan, halted, debugged>>

Session == 1..MaxStarts
Step == 0..(NumSteps - 1)

Init ==
  /\ server = 1
  /\ stop = [s \in Session |-> {}]
  /\ lock = {}
  /\ pc = [c \in Calls |-> "idle"]
  /\ at = [c \in Calls |-> 0]
  /\ from = [c \in Calls |-> 0]
  /\ skip = [c \in Calls |-> FALSE]
  /\ executed = FALSE
  /\ times = [k \in Step |-> 0]
  /\ skipped = {}
  /\ resumes = {} /\ halted = {} /\ debugged = {}

(* acquireLock: no readline in API mode, so a conflict rejects the call. *)
Enter(c) ==
  IF lock = {} THEN lock' = {c} /\ pc' = [pc EXCEPT ![c] = "running"]
               ELSE pc' = [pc EXCEPT ![c] = "rejected"] /\ UNCHANGED lock

(* The finally block of executePlan. *)
Leave(c, how) ==
  /\ lock' = {}
  /\ pc' = [pc EXCEPT ![c] = how]

-----------------------------------------------------------------------------
(* POST /execute, once for the plan. *)
Execute(c) ==
  /\ pc[c] = "idle" /\ ~executed
  /\ executed' = TRUE
  /\ Enter(c)
  /\ UNCHANGED <<server, stop, at, options, times, skipped, resumes, halted, debugged>>

(* Mutants: the resume point is not passed on; the row is rewritten without *)
(* its plan when the resume starts.                                        *)
ResumeFromStart(c) ==
  /\ pc[c] = "idle"
  /\ \E s \in Session, yes \in BOOLEAN : \E k \in stop[s] :
       skip' = [skip EXCEPT ![c] = yes]
  /\ Enter(c)
  /\ resumes' = IF lock = {} THEN resumes \cup {c} ELSE resumes
  /\ UNCHANGED <<server, stop, at, from, executed, times, skipped, halted, debugged>>

ResumeConsumes(c) ==
  /\ pc[c] = "idle"
  /\ \E s \in Session, yes \in BOOLEAN : \E k \in stop[s] :
       /\ from' = [from EXCEPT ![c] = k]
       /\ skip' = [skip EXCEPT ![c] = yes]
       /\ stop' = [stop EXCEPT ![s] = {}]
  /\ Enter(c)
  /\ resumes' = IF lock = {} THEN resumes \cup {c} ELSE resumes
  /\ UNCHANGED <<server, at, executed, times, skipped, halted, debugged>>

(* POST /resume of any session whose row has a resumable plan.  The row is  *)
(* read, never written.                                                    *)
Resume(c) ==
  /\ pc[c] = "idle"
  /\ \E s \in Session, yes \in BOOLEAN : \E k \in stop[s] :
       /\ from' = [from EXCEPT ![c] = k]
       /\ skip' = [skip EXCEPT ![c] = yes]
  /\ Enter(c)
  /\ resumes' = IF lock = {} THEN resumes \cup {c} ELSE resumes
  /\ UNCHANGED <<server, stop, at, executed, times, skipped, halted, debugged>>

(* Mutant: the step of the resume point is always skipped. *)
SkippingOneMore(c) == at[c] < from[c] \/ (from[c] > 0 /\ at[c] = from[c])

Skipping(c) == at[c] < from[c] \/ (skip[c] /\ at[c] = from[c])

SkipStep(c) ==
  /\ pc[c] = "running" /\ at[c] < NumSteps /\ Skipping(c)
  /\ at' = [at EXCEPT ![c] = @ + 1]
  /\ skipped' = IF skip[c] /\ at[c] = from[c] THEN skipped \cup {at[c]} ELSE skipped
  /\ UNCHANGED <<server, stop, lock, pc, options, executed, times, resumes,
                 halted, debugged>>

(* Mutant: the loop runs past the last step. *)
SettleStepPastEnd(c) ==
  /\ pc[c] = "running" /\ ~Skipping(c)
  /\ at' = [at EXCEPT ![c] = @ + 1]
  /\ times' = [times EXCEPT ![at[c]] = @ + 1]
  /\ UNCHANGED <<server, stop, lock, pc, options, executed, skipped, resumes,
                 halted, debugged>>

SettleStep(c) ==
  /\ pc[c] = "running" /\ at[c] < NumSteps /\ ~Skipping(c)
  /\ at' = [at EXCEPT ![c] = @ + 1]
  /\ times' = [times EXCEPT ![at[c]] = @ + 1]
  /\ UNCHANGED <<server, stop, lock, pc, options, executed, skipped, resumes,
                 halted, debugged>>

(* Mutant: the resume point is the step after the one it stopped at. *)
HaltsAfter(c) ==
  /\ pc[c] = "running" /\ at[c] < NumSteps - 1 /\ ~Skipping(c)
  /\ Leave(c, "halted")
  /\ IF c \in resumes
     THEN UNCHANGED <<stop, halted>>
     ELSE /\ stop' = [stop EXCEPT ![server] = {at[c] + 1}]
          /\ halted' = {server}
  /\ UNCHANGED <<server, at, options, plan, debugged>>

(* executePlan halts at a step.  /execute saves the resume point in the row *)
(* of its own session; /resume saves nothing.                              *)
Halts(c) ==
  /\ pc[c] = "running" /\ at[c] < NumSteps /\ ~Skipping(c)
  /\ Leave(c, "halted")
  /\ IF c \in resumes
     THEN UNCHANGED <<stop, halted>>
     ELSE /\ stop' = [stop EXCEPT ![server] = {at[c]}]
          /\ halted' = {server}
  /\ debugged' = IF c \in resumes THEN debugged ELSE debugged \ {server}
  /\ UNCHANGED <<server, at, options, plan>>

(* It throws (a log or snapshot write, a model call): nothing is saved. *)
Aborts(c) ==
  /\ pc[c] = "running"
  /\ Leave(c, "aborted")
  /\ UNCHANGED <<server, stop, at, options, plan, halted, debugged>>

(* Completion is not saved either: the row keeps its resume point. *)
Completes(c) ==
  /\ pc[c] = "running" /\ at[c] = NumSteps
  /\ Leave(c, "completed")
  /\ UNCHANGED <<server, stop, at, options, plan, halted, debugged>>

-----------------------------------------------------------------------------
(* /stream/debug persists a fresh state under the server's session id. *)
Debug ==
  /\ stop' = [stop EXCEPT ![server] = {}]
  /\ debugged' = debugged \cup {server}
  /\ UNCHANGED <<server, lock, pc, at, options, plan, halted>>

(* The process dies, with whatever runs in it, and is started again under a *)
(* new session.  Rows and lock files survive.                              *)
Restart ==
  /\ server < MaxStarts
  /\ server' = server + 1
  /\ pc' = [c \in Calls |-> IF pc[c] = "running" THEN "lost" ELSE pc[c]]
  /\ UNCHANGED <<stop, lock, at, options, plan, halted, debugged>>

Next ==
  \/ \E c \in Calls :
       \/ Execute(c) \/ Resume(c)
       \/ SkipStep(c) \/ SettleStep(c) \/ Halts(c) \/ Aborts(c) \/ Completes(c)
  \/ Debug \/ Restart

Spec == Init /\ [][Next]_vars
-----------------------------------------------------------------------------
(* Properties. *)

TypeOK ==
  /\ server \in Session
  /\ stop \in [Session -> {{}} \cup {{k} : k \in Step}]
  /\ lock \in {{}} \cup {{c} : c \in Calls}
  /\ pc \in [Calls -> {"idle", "running", "rejected", "halted", "aborted",
                       "completed", "lost"}]
  /\ at \in [Calls -> 0..NumSteps] /\ from \in [Calls -> Step]
  /\ skip \in [Calls -> BOOLEAN]
  /\ executed \in BOOLEAN
  /\ times \in [Step -> 0..Cardinality(Calls)]
  /\ skipped \subseteq Step
  /\ resumes \subseteq Calls /\ halted \subseteq Session /\ debugged \subseteq Session

(* Every step before a saved resume point was run: the row of a session     *)
(* never claims more than was done, whichever server wrote it.             *)
SavedStepsAreDone ==
  \A s \in Session : \A k \in stop[s] : \A j \in Step : j < k => times[j] > 0

(* When a call completes the plan, each of its steps was settled by this or *)
(* an earlier call, or skipped by an admin's choice: none was missed on the *)
(* way through halts, resumes and restarts.                                *)
NoStepMissed ==
  \A c \in Calls : pc[c] = "completed" =>
    \A k \in Step : times[k] > 0 \/ k \in skipped

(* The first resume of a plan re-runs nothing that was settled. *)
FirstResumeRerunsNothing ==
  Cardinality(resumes) <= 1 => \A k \in Step : times[k] <= 1

(* A resume point is only lost to a debug request of the same session: not  *)
(* to a resume, a refused call or a restart.                               *)
LostOnlyByDebug == \A s \in halted : stop[s] = {} => s \in debugged

(* 04-03-PLAN.md:57: the admin can pick up where they left off instead of   *)
(* re-running completed steps.  /resume saves no progress of its own, so    *)
(* that the next one starts from the old point again.                      *)
NeverRerun == \A k \in Step : times[k] <= 1
=============================================================================
