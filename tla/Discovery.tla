------------------------------ MODULE Discovery ------------------------------
(***************************************************************************)
(* The discovery commands of a skill (orchestrator/discovery.ts): every     *)
(* command goes at once to the queue of the container it names, one queue  *)
(* per container for the whole process, each running one command at a time. *)
(*                                                                         *)
(* The queues are one sequence in order of arrival: the queue of a target  *)
(* is its subsequence.  The runner ends every command by its timeout and    *)
(* never rejects, so a finished command always has an output.              *)
(***************************************************************************)
EXTENDS Naturals, Sequences

CONSTANTS
  Requests,      \* debug requests
  Skills,        \* skills a request can be routed to
  Targets,       \* containers, with the host as one of them
  Commands       \* of a skill: the target each of its discovery commands names

ASSUME CommandsAssumption == Commands \in [Skills -> Seq(Targets)]

VARIABLES
  waiting,       \* containerQueues: the commands that wait, in order of arrival
  running,       \* the commands that run
  settled        \* of a request: which of its commands have an output

queues == <<waiting, running, settled>>

Task == [by : Requests, index : Nat \ {0}, target : Targets]

TasksOf(r, s) ==
  [i \in 1..Len(Commands[s]) |-> [by |-> r, index |-> i, target |-> Commands[s][i]]]

InitQueues ==
  /\ waiting = <<>>
  /\ running = {}
  /\ settled = [r \in Requests |-> {}]

(* runParallelDiscovery: queue.add for every command. *)
Enqueue(r, s) ==
  /\ waiting' = waiting \o TasksOf(r, s)
  /\ UNCHANGED <<running, settled>>

(* Promise.allSettled over the commands of the skill. *)
AllSettled(r, s) == settled[r] = 1..Len(Commands[s])

(* Mutant: the queues belong to the request. *)
SameQueueInRequest(c, d) == c.target = d.target /\ c.by = d.by

(* getContainerQueue: the map is keyed by the target alone. *)
SameQueue(c, d) == c.target = d.target

Start(k) ==
  /\ \A j \in 1..(k - 1) : ~SameQueue(waiting[j], waiting[k])
  /\ \A c \in running : ~SameQueue(c, waiting[k])
  /\ running' = running \cup {waiting[k]}
  /\ waiting' = SubSeq(waiting, 1, k - 1) \o SubSeq(waiting, k + 1, Len(waiting))
  /\ UNCHANGED settled

(* Mutant: a command that is over keeps its place in the queue. *)
FinishUnreleased(c) ==
  /\ c.index \notin settled[c.by]
  /\ settled' = [settled EXCEPT ![c.by] = @ \cup {c.index}]
  /\ UNCHANGED <<waiting, running>>

Finish(c) ==
  /\ running' = running \ {c}
  /\ settled' = [settled EXCEPT ![c.by] = @ \cup {c.index}]
  /\ UNCHANGED waiting

TypeOKQueues ==
  /\ waiting \in Seq(Task)
  /\ running \subseteq Task
  /\ settled \in [Requests -> SUBSET (Nat \ {0})]
=============================================================================
