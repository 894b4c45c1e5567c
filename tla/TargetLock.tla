----------------------------- MODULE TargetLock -----------------------------
(***************************************************************************)
(* Executors contending for the lock file of one target: acquireLock and   *)
(* releaseLock of locks/manager.ts, called from the head and the finally    *)
(* block of executePlan.  Executors are in separate processes, so the       *)
(* system calls inside acquireLock interleave, and any of them may die.     *)
(* The names of PlanExecutor are left free: PlanExecutor_proofs extends both. *)
(***************************************************************************)
EXTENDS Naturals, FiniteSets

CONSTANTS
  Executors,     \* executePlan calls on the same target
  Interactive    \* those whose deps carry a readline to prompt the admin

ASSUME InteractiveAssumption == Interactive \subseteq Executors

VARIABLES
  file,          \* the lock file on disk
  lockPc,        \* where each executor is
  overriders,    \* history: executors that forced an override
  crashed,       \* executors whose process died
  unlogged       \* history: overriders whose audit entry could not be written

lockVars == <<file, lockPc, overriders, crashed, unlogged>>

(* A lock file is created empty and then written.  Whether it is older than *)
(* staleTimeoutMs changes the status acquireLock returns, and nothing else. *)
NoLock == [owner |-> {}, written |-> FALSE]
LockOf(e) == [owner |-> {e}, written |-> FALSE]

LockLocation == {"start", "writing", "reading", "prompt", "override",
                 "reading_again", "logging", "running", "ended"}

LockInit ==
  /\ file = NoLock
  /\ lockPc = [e \in Executors |-> "start"]
  /\ overriders = {}
  /\ crashed = {} /\ unlogged = {}

Goto(e, place) == lockPc' = [lockPc EXCEPT ![e] = place]

Exists == file.owner # {}

-----------------------------------------------------------------------------
(* acquireLock: writeFileSync with flag wx, in two system calls.  It is    *)
(* called first from "start" and, after an override, from "override".      *)

(* Mutant: the file is opened without the x flag. *)
CreateOver(e) ==
  /\ lockPc[e] \in {"start", "override"}
  /\ file' = LockOf(e)
  /\ Goto(e, "writing")
  /\ UNCHANGED <<overriders, crashed, unlogged>>

Create(e) ==
  /\ lockPc[e] \in {"start", "override"}
  /\ ~Exists
  /\ file' = LockOf(e)
  /\ Goto(e, "writing")
  /\ UNCHANGED <<overriders, crashed, unlogged>>

(* The content goes to the inode just created, even if it was unlinked.    *)
Write(e) ==
  /\ lockPc[e] = "writing"
  /\ file' = IF file.owner = {e} THEN [file EXCEPT !.written = TRUE] ELSE file
  /\ Goto(e, IF e \in overriders THEN "logging" ELSE "running")
  /\ UNCHANGED <<overriders, crashed, unlogged>>

(* EEXIST: the existing lock is to be read. *)
Contend(e) ==
  /\ \/ lockPc[e] = "start" /\ Goto(e, "reading")
     \/ lockPc[e] = "override" /\ Goto(e, "reading_again")
  /\ Exists
  /\ UNCHANGED <<file, overriders, crashed, unlogged>>

(* readFileSync or JSON.parse throws: the file is gone, or still empty. *)
ReadThrows(e) ==
  /\ lockPc[e] \in {"reading", "reading_again"}
  /\ ~file.written
  /\ Goto(e, "ended")
  /\ UNCHANGED <<file, overriders, crashed, unlogged>>

(* locked or stale, it makes no difference to executePlan: it asks the     *)
(* admin if it can, and gives up otherwise.                                *)
Conflict(e) ==
  /\ lockPc[e] = "reading" /\ file.written
  /\ Goto(e, IF e \in Interactive THEN "prompt" ELSE "ended")
  /\ UNCHANGED <<file, overriders, crashed, unlogged>>

Decline(e) ==
  /\ lockPc[e] = "prompt"
  /\ Goto(e, "ended")
  /\ UNCHANGED <<file, overriders, crashed, unlogged>>

(* The admin typed the target: the file at the path is deleted, whoever    *)
(* owns it by now.                                                         *)
Override(e) ==
  /\ lockPc[e] = "prompt"
  /\ file' = NoLock
  /\ overriders' = overriders \cup {e}
  /\ Goto(e, "override")
  /\ UNCHANGED <<crashed, unlogged>>

(* The second acquireLock found another lock; its result is ignored. *)
ProceedUnlocked(e) ==
  /\ lockPc[e] = "reading_again" /\ file.written
  /\ Goto(e, "logging")
  /\ UNCHANGED <<file, overriders, crashed, unlogged>>

(* The audit entry lock_override, written before lockAcquired is set: if it *)
(* throws, finally releases nothing, and the file stays.                   *)
LogOverride(e) ==
  /\ lockPc[e] = "logging"
  /\ \/ Goto(e, "running") /\ UNCHANGED unlogged
     \/ Goto(e, "ended") /\ unlogged' = unlogged \cup {e}
  /\ UNCHANGED <<file, overriders, crashed>>

(* Mutant: the plan ends without deleting the file. *)
ReleaseNothing(e) ==
  /\ lockPc[e] = "running"
  /\ Goto(e, "ended")
  /\ UNCHANGED <<file, overriders, crashed, unlogged>>

(* The plan ended, in any way: finally deletes the file at the path. *)
Release(e) ==
  /\ lockPc[e] = "running"
  /\ file' = NoLock
  /\ Goto(e, "ended")
  /\ UNCHANGED <<overriders, crashed, unlogged>>

Crash(e) ==
  /\ lockPc[e] # "ended"
  /\ crashed' = crashed \cup {e}
  /\ Goto(e, "ended")
  /\ UNCHANGED <<file, overriders, unlogged>>

Proceed(e) ==
  \/ Create(e) \/ Write(e) \/ Contend(e) \/ ReadThrows(e) \/ Conflict(e)
  \/ Decline(e) \/ Override(e) \/ ProceedUnlocked(e) \/ LogOverride(e) \/ Release(e)

LockNext == \E e \in Executors : Proceed(e) \/ Crash(e)

LockSpec == LockInit /\ [][LockNext]_lockVars

(* A process that has not died keeps running: prompts are answered and      *)
(* plans end.                                                              *)
LockFairSpec == LockSpec /\ \A e \in Executors : WF_lockVars(Proceed(e))

-----------------------------------------------------------------------------
(* Properties. *)

LockTypeOK ==
  /\ file.owner \in {{}} \cup {{e} : e \in Executors}
  /\ file = [owner |-> file.owner, written |-> file.written]
  /\ file.written \in BOOLEAN
  /\ ~Exists => file = NoLock
  /\ lockPc \in [Executors -> LockLocation]
  /\ overriders \subseteq Interactive
  /\ crashed \subseteq Executors /\ unlogged \subseteq overriders

Running == {e \in Executors : lockPc[e] = "running"}

(* Two executors are on the target together only after a forced override:  *)
(* no interleaving of create, write, read, crash and release breaks the     *)
(* exclusion the wx flag gives.                                            *)
ExclusiveUnlessOverridden ==
  overriders = {} => \A e, f \in Running : e = f

(* And until then, who runs owns the complete file, so that its release     *)
(* deletes its own lock and no other.                                      *)
RunnerOwnsFile ==
  overriders = {} => \A e \in Running : file.owner = {e} /\ file.written

(* A file whose creator is not at work was left by a crash of its creator, or  *)
(* by an override that could not be logged: whatever overrides and releases    *)
(* of others come in between.                                                *)
OrphanHasCause ==
  \A e \in Executors : file.owner = {e} =>
    lockPc[e] \in {"writing", "logging", "running"} \/ e \in crashed \cup unlogged

(* Unless one of them crashed or could not log its override, no lock outlives *)
(* its executors.                                                            *)
LockFreed == <>[](crashed = {} /\ unlogged = {} => ~Exists)
=============================================================================
