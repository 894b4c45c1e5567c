-------------------------- MODULE Pipeline_proofs --------------------------
(***************************************************************************)
(* Proofs about runDPEV and its discovery queues for any number of          *)
(* requests, skills and containers, and any list of commands per skill.     *)
(*                                                                         *)
(* The inductive invariant has three parts: the types; Control, which       *)
(* relates the await a request is at to what it has done so far; and        *)
(* Queues, which says whose the commands in the queues are.                *)
(***************************************************************************)
EXTENDS Pipeline, SequenceTheorems, TLAPS

(* What a request has done, by the await it is at. *)
ControlOf(r) ==
  /\ pc[r] \in {"idle", "routing"} => skill[r] = {}
  /\ pc[r] \notin {"idle", "routing", "discovering", "fallback", "ended"} =>
       "discovery" \in completed[r]
  /\ pc[r] # "ended" => outcome[r] = "none"
  /\ pc[r] \notin {"fallback", "ended"} => threwAt[r] = "none"
  /\ pc[r] \notin {"diagnosing", "planning", "fallback", "ended"} => verdict[r] = "none"
  /\ pc[r] \in {"checking", "asking", "remembering"} /\ ~parallel[r] =>
       Facts(r) \subseteq prompt[r]
  /\ call[r] # "none" =>
       pc[r] = "diagnosing" /\ verdict[r] = "none" /\ Facts(r) \subseteq prompt[r]
  /\ pc[r] = "planning" => verdict[r] \in Sound
  /\ threwAt[r] = "diagnosing" => verdict[r] = "threw"

Control == \A r \in Requests : ControlOf(r)

Pending == running \cup {waiting[k] : k \in DOMAIN waiting}

(* A command in the queues is one whose output its request still awaits. *)
Owed(c) ==
  /\ pc[c.by] = "discovering"
  /\ c.index \notin settled[c.by]
  /\ \A s \in skill[c.by] : c.index \in 1..Len(Commands[s])

(* A command is known by its request and its position. *)
Same(c, d) == c.by = d.by /\ c.index = d.index

Queues ==
  /\ \A c \in Pending : Owed(c)
  /\ \A r \in Requests : pc[r] \in {"idle", "routing"} => settled[r] = {}
  /\ \A j, k \in DOMAIN waiting : Same(waiting[j], waiting[k]) => j = k
  /\ \A c \in running : \A k \in DOMAIN waiting : ~Same(c, waiting[k])
  /\ \A c, d \in running : Same(c, d) => c = d
  /\ OneCommandPerTarget

IInv == TypeOK /\ Control /\ Queues

-----------------------------------------------------------------------------
(* Lemmas on the queues. *)

(* What is left of a sequence without its k-th element. *)
LEMMA Without ==
  ASSUME NEW S, NEW s \in Seq(S), NEW k \in 1..Len(s),
         NEW t, t = SubSeq(s, 1, k - 1) \o SubSeq(s, k + 1, Len(s))
  PROVE  /\ t \in Seq(S)
         /\ Len(t) = Len(s) - 1
         /\ \A i \in 1..Len(t) : t[i] = s[IF i < k THEN i ELSE i + 1]
<1> DEFINE a == SubSeq(s, 1, k - 1)
           b == SubSeq(s, k + 1, Len(s))
<1>0. k \in 1..Len(s)
  OBVIOUS
<1>1. Len(s) \in Nat /\ k \in Int /\ \A i \in 1..Len(s) : s[i] \in S
  BY ElementOfSeq, LenProperties
<1>2. /\ a \in Seq(S) /\ Len(a) = k - 1
      /\ \A i \in 1..(k - 1) : a[i] = s[i]
  <2>1. \A i \in 1..(k - 1) : s[i] \in S
    BY <1>1
  <2>2. /\ a \in Seq(S)
        /\ Len(a) = IF 1 <= k - 1 THEN (k - 1) - 1 + 1 ELSE 0
        /\ \A i \in 1..((k - 1) - 1 + 1) : a[i] = s[1 + i - 1]
    BY <1>1, <2>1, SubSeqProperties
  <2> QED BY <1>1, <2>2
<1>3. /\ b \in Seq(S) /\ Len(b) = Len(s) - k
      /\ \A i \in 1..(Len(s) - k) : b[i] = s[k + i]
  <2> QED BY <1>1, SubSeqProperties
<1>4. /\ t \in Seq(S)
      /\ Len(t) = Len(a) + Len(b)
      /\ \A i \in 1..(Len(a) + Len(b)) : t[i] = IF i <= Len(a) THEN a[i] ELSE b[i - Len(a)]
  BY <1>2, <1>3, ConcatProperties
<1> HIDE DEF a, b
<1>5. /\ Len(a) = k - 1 /\ Len(b) = Len(s) - k /\ Len(t) = Len(a) + Len(b)
      /\ k \in Nat /\ k >= 1 /\ k <= Len(s) /\ Len(s) \in Nat
  <2>1. k \in Nat /\ k >= 1 /\ k <= Len(s) /\ Len(s) \in Nat
    BY ONLY <1>0, <1>1
  <2> QED BY ONLY <1>2, <1>3, <1>4, <2>1
<1>6. Len(t) = Len(s) - 1 /\ Len(a) + Len(b) = Len(s) - 1
  BY ONLY <1>5
<1>7. ASSUME NEW i \in 1..Len(t) PROVE t[i] = s[IF i < k THEN i ELSE i + 1]
  <2>0. i \in 1..Len(t)
    OBVIOUS
  <2>1. i \in Nat /\ i >= 1 /\ i <= Len(s) - 1 /\ i \in 1..(Len(a) + Len(b))
    BY ONLY <1>5, <1>6, <2>0
  <2>2. CASE i < k
    <3>1. i <= Len(a) /\ i \in 1..(k - 1)
      BY <1>5, <2>1, <2>2
    <3>2. t[i] = a[i] /\ a[i] = s[i]
      BY <1>2, <1>4, <2>1, <3>1
    <3> QED BY <2>2, <3>2
  <2>3. CASE ~(i < k)
    <3>1. ~(i <= Len(a)) /\ i - Len(a) \in 1..(Len(s) - k) /\ k + (i - Len(a)) = i + 1
      BY <1>5, <2>1, <2>3
    <3>2. t[i] = b[i - Len(a)] /\ b[i - Len(a)] = s[k + (i - Len(a))]
      BY <1>3, <1>4, <2>1, <3>1
    <3> QED BY <2>3, <3>1, <3>2
  <2> QED BY <2>2, <2>3
<1> QED BY <1>4, <1>6, <1>7

(* The tasks of a skill are tasks of the request, in the order of the skill. *)
LEMMA TasksOfSkill ==
  ASSUME NEW r \in Requests, NEW s \in Skills
  PROVE  /\ TasksOf(r, s) \in Seq(Task)
         /\ Len(TasksOf(r, s)) = Len(Commands[s])
         /\ \A i \in 1..Len(Commands[s]) :
              TasksOf(r, s)[i] = [by |-> r, index |-> i, target |-> Commands[s][i]]
<1>1. Commands[s] \in Seq(Targets)
  BY CommandsAssumption
<1>2. Len(Commands[s]) \in Nat /\ \A i \in 1..Len(Commands[s]) : Commands[s][i] \in Targets
  BY <1>1, ElementOfSeq, LenProperties
<1>3. TasksOf(r, s) \in [1..Len(Commands[s]) -> Task]
  BY <1>2 DEF TasksOf, Task
<1> QED BY <1>2, <1>3 DEF TasksOf

(* The commands in the queues are tasks. *)
LEMMA PendingAreTasks == TypeOKQueues => Pending \subseteq Task
<1> SUFFICES ASSUME TypeOKQueues, NEW k \in DOMAIN waiting PROVE waiting[k] \in Task
  BY DEF TypeOKQueues, Pending
<1> HIDE DEF Task
<1>1. waiting \in Seq(Task)
  BY DEF TypeOKQueues
<1>2. k \in 1..Len(waiting)
  BY <1>1, LenProperties
<1> QED BY <1>1, <1>2, ElementOfSeq

(* What waits after a command has started waited before. *)
LEMMA StartKeeps ==
  ASSUME TypeOKQueues, NEW k \in DOMAIN waiting, Start(k)
  PROVE  /\ waiting' \in Seq(Task)
         /\ \A j \in DOMAIN waiting' :
              \E m \in DOMAIN waiting : m # k /\ waiting'[j] = waiting[m]
         /\ \A i, j \in DOMAIN waiting' : i # j =>
              \E m, n \in DOMAIN waiting :
                m # n /\ waiting'[i] = waiting[m] /\ waiting'[j] = waiting[n]
<1> DEFINE at(i) == IF i < k THEN i ELSE i + 1
<1>1. waiting \in Seq(Task) /\ DOMAIN waiting = 1..Len(waiting) /\ Len(waiting) \in Nat
  BY LenProperties DEF TypeOKQueues
<1>2. /\ waiting' \in Seq(Task)
      /\ Len(waiting') = Len(waiting) - 1
      /\ \A i \in 1..Len(waiting') : waiting'[i] = waiting[at(i)]
  <2>1. waiting' = SubSeq(waiting, 1, k - 1) \o SubSeq(waiting, k + 1, Len(waiting))
    BY DEF Start
  <2>2. k \in 1..Len(waiting)
    BY <1>1
  <2> HIDE DEF Task
  <2> QED BY <1>1, <2>1, <2>2, Without
<1>3. DOMAIN waiting' = 1..(Len(waiting) - 1)
  BY <1>2, LenProperties
<1>4. \A i \in DOMAIN waiting' : at(i) \in DOMAIN waiting /\ at(i) # k
  BY <1>1, <1>3
<1>5. \A i, j \in DOMAIN waiting' : i # j => at(i) # at(j)
  BY <1>1, <1>3
<1>6. \A i \in DOMAIN waiting' : waiting'[i] = waiting[at(i)]
  BY <1>2, <1>3
<1> HIDE DEF at
<1> QED BY <1>2, <1>4, <1>5, <1>6

(* Every command that waits after a request was routed waited before or is  *)
(* one of the request's.                                                   *)
LEMMA EnqueueAdds ==
  ASSUME TypeOKQueues, NEW r \in Requests, NEW s \in Skills, Enqueue(r, s)
  PROVE  /\ waiting' \in Seq(Task)
         /\ DOMAIN waiting' = 1..(Len(waiting) + Len(Commands[s]))
         /\ DOMAIN waiting = 1..Len(waiting)
         /\ Len(waiting) \in Nat /\ Len(Commands[s]) \in Nat
         /\ \A i \in 1..Len(waiting) : waiting'[i] = waiting[i]
         /\ \A i \in (Len(waiting) + 1)..(Len(waiting) + Len(Commands[s])) :
              /\ waiting'[i].by = r
              /\ waiting'[i].index = i - Len(waiting)
<1>1. waiting \in Seq(Task) /\ DOMAIN waiting = 1..Len(waiting) /\ Len(waiting) \in Nat
  BY LenProperties DEF TypeOKQueues
<1>2. Len(Commands[s]) \in Nat
  BY CommandsAssumption, LenProperties
<1>3. /\ waiting' \in Seq(Task)
      /\ Len(waiting') = Len(waiting) + Len(Commands[s])
      /\ \A i \in 1..(Len(waiting) + Len(Commands[s])) :
           waiting'[i] = IF i <= Len(waiting) THEN waiting[i]
                         ELSE TasksOf(r, s)[i - Len(waiting)]
  <2> DEFINE mine == TasksOf(r, s)
  <2>1. mine \in Seq(Task) /\ Len(mine) = Len(Commands[s])
    BY TasksOfSkill
  <2>2. waiting' = waiting \o mine
    BY DEF Enqueue
  <2> HIDE DEF mine
  <2>3. /\ waiting' \in Seq(Task)
        /\ Len(waiting') = Len(waiting) + Len(mine)
        /\ \A i \in 1..(Len(waiting) + Len(mine)) :
             waiting'[i] = IF i <= Len(waiting) THEN waiting[i] ELSE mine[i - Len(waiting)]
    BY <1>1, <2>1, <2>2, ConcatProperties
  <2> QED BY <2>1, <2>3 DEF mine
<1>4. DOMAIN waiting' = 1..(Len(waiting) + Len(Commands[s]))
  BY <1>3, LenProperties
<1>5. ASSUME NEW i \in (Len(waiting) + 1)..(Len(waiting) + Len(Commands[s]))
      PROVE  waiting'[i].by = r /\ waiting'[i].index = i - Len(waiting)
  <2>1. i - Len(waiting) \in 1..Len(Commands[s]) /\ ~(i <= Len(waiting))
    BY <1>1, <1>2
  <2>2. waiting'[i] = TasksOf(r, s)[i - Len(waiting)]
    BY <1>1, <1>2, <1>3, <2>1
  <2>3. TasksOf(r, s)[i - Len(waiting)] =
          [by |-> r, index |-> i - Len(waiting), target |-> Commands[s][i - Len(waiting)]]
    BY <2>1, TasksOfSkill
  <2> QED BY <2>2, <2>3
<1> QED BY <1>1, <1>2, <1>3, <1>4, <1>5

-----------------------------------------------------------------------------
(* The invariant holds initially. *)
LEMMA InitIInv == Init => IInv
<1> SUFFICES ASSUME Init PROVE IInv
  OBVIOUS
<1> USE DEF Init, InitQueues
<1>1. waiting \in Seq(Task) /\ DOMAIN waiting = {}
  <2>1. waiting = <<>> /\ Len(waiting) = 0 /\ waiting \in Seq(Task)
    BY EmptySeq
  <2>2. DOMAIN waiting = 1..Len(waiting)
    BY <2>1, LenProperties
  <2> QED BY <2>1, <2>2
<1>2. TypeOK
  BY <1>1 DEF TypeOK, TypeOKQueues, Mode, Location, Call, Verdict, Outcome
<1>3. Control
  BY DEF Control, ControlOf
<1>4. Queues
  BY <1>1 DEF Queues, Pending, Same, OneCommandPerTarget
<1> QED BY <1>2, <1>3, <1>4 DEF IInv

-----------------------------------------------------------------------------
(* Every action keeps the types. *)
LEMMA TypeStep == TypeOK /\ [Next]_vars => TypeOK'
<1> SUFFICES ASSUME TypeOK, [Next]_vars PROVE TypeOK'
  OBVIOUS
<1> USE DEF queues, scheduler, input, text, diagnosis, answer, local, vars
<1> USE DEF Goto, Complete, End, Throw, Take, Ask, Returns, ServeCached
<1> USE DEF Location, Mode, Call, Verdict, Outcome
<1>q. ASSUME UNCHANGED queues PROVE TypeOKQueues'
  BY <1>q DEF TypeOK, TypeOKQueues
<1>1. CASE UNCHANGED vars
  BY <1>1, <1>q DEF TypeOK
<1>2. ASSUME NEW r \in Requests, Receive(r) \/ UseCache(r) \/ DeclineCache(r)
      PROVE  TypeOK'
  BY <1>2, <1>q DEF TypeOK, Receive, UseCache, DeclineCache
<1>3. ASSUME NEW r \in Requests, Continue(r) PROVE TypeOK'
  <2>1. CASE Route(r)
    <3>1. PICK s \in Skills : skill' = [skill EXCEPT ![r] = {s}] /\ Enqueue(r, s)
      BY <2>1 DEF Route
    <3>2. TypeOKQueues'
      BY <3>1, EnqueueAdds DEF TypeOK, TypeOKQueues, Enqueue
    <3> QED BY <2>1, <3>1, <3>2 DEF TypeOK, Route
  <2>2. CASE RouteThrows(r) \/ DiscoveryThrows(r) \/ FilterThrows(r) \/ DiagnosisThrows(r)
    BY <2>2, <1>q DEF TypeOK, RouteThrows, DiscoveryThrows, FilterThrows, DiagnosisThrows,
                      DiagnosisSettled
  <2>3. CASE Discovered(r)
    <3>1. parallel' \in [Requests -> BOOLEAN]
      <4>1. CASE UNCHANGED parallel
        BY <4>1 DEF TypeOK
      <4>2. CASE \E m \in Mode : parallel' = [parallel EXCEPT ![r] = m = "parallel"]
        BY <4>2 DEF TypeOK
      <4> QED BY <2>3, <4>1, <4>2 DEF TypeOK, Discovered
    <3>2. pc' \in [Requests -> Location]
      BY <2>3 DEF TypeOK, Discovered
    <3> QED BY <2>3, <1>q, <3>1, <3>2 DEF TypeOK, Discovered
  <2>4. CASE Probed(r)
    BY <2>4, <1>q DEF TypeOK, Probed
  <2>5. CASE Filtered(r)
    BY <2>5, <1>q DEF TypeOK, Filtered, Facts
  <2>6. CASE CacheMiss(r) \/ CacheHit(r) \/ AskClient(r)
    BY <2>6, <1>q DEF TypeOK, CacheMiss, CacheHit, AskClient
  <2>7. CASE Remember(r)
    BY <2>7, <1>q DEF TypeOK, Remember, FirstCall, Facts
  <2>8. CASE Streamed(r) \/ StructuredFails(r) \/ TextIsTainted(r)
    BY <2>8, <1>q DEF TypeOK, Streamed, StructuredFails, TextIsTainted, FirstCall
  <2>9. CASE StructuredSucceeds(r) \/ TextIsClean(r) \/ RetryReturns(r) \/ CallThrows(r)
    BY <2>9, <1>q DEF TypeOK, StructuredSucceeds, TextIsClean, RetryReturns, CallThrows
  <2>10. CASE Preprocessed(r)
    BY <2>10, <1>q DEF TypeOK, Preprocessed, Facts
  <2>11. CASE Diagnosed(r) \/ Refused(r)
    BY <2>11, <1>q DEF TypeOK, Diagnosed, Refused
  <2>12. CASE Planned(r) \/ PlanLost(r) \/ Unplanned(r)
    BY <2>12, <1>q DEF TypeOK, Planned, PlanLost, Unplanned
  <2>13. CASE FallBack(r)
    BY <2>13, <1>q DEF TypeOK, FallBack
  <2> QED BY <1>3, <2>1, <2>2, <2>3, <2>4, <2>5, <2>6, <2>7, <2>8, <2>9, <2>10, <2>11,
             <2>12, <2>13 DEF Continue
<1>4. ASSUME NEW k \in DOMAIN waiting, StartCommand(k) PROVE TypeOK'
  <2>1. waiting[k] \in Task
    BY LenProperties, ElementOfSeq DEF TypeOK, TypeOKQueues
  <2>2. TypeOKQueues'
    BY <1>4, <2>1, StartKeeps DEF TypeOK, TypeOKQueues, StartCommand, Start
  <2> QED BY <1>4, <2>2 DEF TypeOK, StartCommand
<1>5. ASSUME NEW c \in running, FinishCommand(c) PROVE TypeOK'
  <2>1. c.by \in Requests /\ c.index \in Nat \ {0}
    BY DEF TypeOK, TypeOKQueues, Task
  <2>2. TypeOKQueues'
    BY <1>5, <2>1 DEF TypeOK, TypeOKQueues, FinishCommand, Finish
  <2> QED BY <1>5, <2>2 DEF TypeOK, FinishCommand
<1>6. CASE Expire
  BY <1>6, <1>q DEF TypeOK, Expire
<1> QED BY <1>1, <1>2, <1>3, <1>4, <1>5, <1>6 DEF Next

-----------------------------------------------------------------------------
(* What the actions of another request leave alone. *)
Still(q) ==
  /\ pc'[q] = pc[q] /\ skill'[q] = skill[q] /\ parallel'[q] = parallel[q]
  /\ completed'[q] = completed[q] /\ prompt'[q] = prompt[q] /\ call'[q] = call[q]
  /\ verdict'[q] = verdict[q] /\ outcome'[q] = outcome[q] /\ threwAt'[q] = threwAt[q]

LEMMA StillControl ==
  ASSUME NEW q \in Requests, ControlOf(q), Still(q)
  PROVE  ControlOf(q)'
BY DEF ControlOf, Still, Facts

(* A step of one request leaves the others where they are. *)
LEMMA OthersStill ==
  ASSUME TypeOK, NEW r \in Requests,
         Receive(r) \/ UseCache(r) \/ DeclineCache(r) \/ Continue(r),
         NEW q \in Requests, q # r
  PROVE  Still(q)
<1> USE DEF queues, scheduler, input, text, diagnosis, answer, local, vars
<1> USE DEF Goto, Complete, End, Throw, Take, Ask, Returns, ServeCached
<1> USE DEF TypeOK, Still
<1>1. CASE Receive(r) \/ UseCache(r) \/ DeclineCache(r)
  BY <1>1 DEF Receive, UseCache, DeclineCache
<1>2. CASE RouteThrows(r) \/ DiscoveryThrows(r) \/ FilterThrows(r) \/ DiagnosisThrows(r)
  BY <1>2 DEF RouteThrows, DiscoveryThrows, FilterThrows, DiagnosisThrows
<1>3. CASE Route(r) \/ Discovered(r) \/ Probed(r)
  BY <1>3 DEF Route, Discovered, Probed
<1>4. CASE Filtered(r) \/ CacheMiss(r) \/ CacheHit(r) \/ AskClient(r) \/ Remember(r)
  BY <1>4 DEF Filtered, CacheMiss, CacheHit, AskClient, Remember
<1>5. CASE Streamed(r) \/ StructuredFails(r) \/ TextIsTainted(r)
  BY <1>5 DEF Streamed, StructuredFails, TextIsTainted
<1>6. CASE StructuredSucceeds(r) \/ TextIsClean(r) \/ RetryReturns(r) \/ CallThrows(r)
  BY <1>6 DEF StructuredSucceeds, TextIsClean, RetryReturns, CallThrows
<1>7. CASE Preprocessed(r) \/ Diagnosed(r) \/ Refused(r)
  BY <1>7 DEF Preprocessed, Diagnosed, Refused
<1>8. CASE Planned(r) \/ PlanLost(r) \/ Unplanned(r) \/ FallBack(r)
  BY <1>8 DEF Planned, PlanLost, Unplanned, FallBack
<1> QED BY <1>1, <1>2, <1>3, <1>4, <1>5, <1>6, <1>7, <1>8 DEF Continue

(* Each step of a request keeps its own control. *)
LEMMA OwnControl ==
  ASSUME TypeOK, NEW r \in Requests, ControlOf(r),
         Receive(r) \/ UseCache(r) \/ DeclineCache(r) \/ Continue(r)
  PROVE  ControlOf(r)'
<1> USE DEF queues, scheduler, input, text, diagnosis, answer, local, vars
<1> USE DEF Goto, Complete, End, Throw, Take, Ask, Returns, ServeCached
<1> USE DEF TypeOK, ControlOf, Facts
<1>1. CASE Receive(r) \/ UseCache(r) \/ DeclineCache(r)
  BY <1>1 DEF Receive, UseCache, DeclineCache
<1>2. CASE RouteThrows(r) \/ DiscoveryThrows(r) \/ FilterThrows(r)
  <2>1. pc[r] \in {"routing", "discovering", "filtering"} /\ pc'[r] \in {"fallback", "ended"}
    BY <1>2 DEF RouteThrows, DiscoveryThrows, FilterThrows
  <2>2. UNCHANGED <<call, verdict>> /\ threwAt'[r] = pc[r]
    BY <1>2 DEF RouteThrows, DiscoveryThrows, FilterThrows
  <2>3. pc'[r] # "ended" => outcome'[r] = outcome[r]
    BY <1>2 DEF RouteThrows, DiscoveryThrows, FilterThrows
  <2> QED BY <2>1, <2>2, <2>3
<1>3. CASE Route(r)
  BY <1>3 DEF Route
<1>4. CASE Discovered(r) \/ Probed(r)
  <2>1. pc[r] \in {"discovering", "probing"} /\ pc'[r] \in {"probing", "filtering", "checking"}
    BY <1>4 DEF Discovered, Probed
  <2>2. UNCHANGED <<prompt, call, verdict, outcome, threwAt, skill>>
    BY <1>4 DEF Discovered, Probed
  <2>3. "discovery" \in completed'[r]
    BY <1>4 DEF Discovered, Probed
  <2>4. pc'[r] = "checking" => parallel'[r]
    <3>1. CASE pc'[r] = "probing"
      BY <3>1
    <3>2. ASSUME NEW m \in Mode, Take(r, m) PROVE pc'[r] = "checking" => parallel'[r]
      <4>1. pc'[r] = IF m = "sequential" THEN "filtering" ELSE "checking"
        BY <3>2
      <4>2. parallel'[r] = (m = "parallel")
        BY <3>2, Zenon
      <4> QED BY <4>1, <4>2 DEF Mode
    <3>3. pc'[r] # "probing" => \E m \in Mode : Take(r, m)
      <4> HIDE DEF Take
      <4> QED BY <1>4 DEF Discovered, Probed, Mode
    <3> QED BY <3>1, <3>2, <3>3
  <2> QED BY <2>1, <2>2, <2>3, <2>4
<1>5. CASE Filtered(r) \/ CacheMiss(r) \/ CacheHit(r) \/ AskClient(r)
  BY <1>5 DEF Filtered, CacheMiss, CacheHit, AskClient
<1>6. CASE Remember(r)
  BY <1>6 DEF Remember
<1>7. CASE Streamed(r) \/ StructuredFails(r) \/ TextIsTainted(r)
  BY <1>7 DEF Streamed, StructuredFails, TextIsTainted
<1>8. CASE StructuredSucceeds(r) \/ TextIsClean(r) \/ RetryReturns(r) \/ CallThrows(r)
  BY <1>8 DEF StructuredSucceeds, TextIsClean, RetryReturns, CallThrows
<1>9. CASE Preprocessed(r)
  BY <1>9 DEF Preprocessed
<1>10. CASE Diagnosed(r) \/ Refused(r) \/ DiagnosisThrows(r)
  BY <1>10 DEF Diagnosed, Refused, DiagnosisThrows, DiagnosisSettled, Sound
<1>11. CASE Planned(r) \/ PlanLost(r) \/ Unplanned(r)
  BY <1>11 DEF Planned, PlanLost, Unplanned
<1>12. CASE FallBack(r)
  BY <1>12 DEF FallBack
<1> QED BY <1>1, <1>2, <1>3, <1>4, <1>5, <1>6, <1>7, <1>8, <1>9, <1>10, <1>11, <1>12
        DEF Continue

LEMMA ControlStep == TypeOK /\ Control /\ [Next]_vars => Control'
<1> SUFFICES ASSUME TypeOK, Control, [Next]_vars, NEW q \in Requests
             PROVE  ControlOf(q)'
  BY DEF Control
<1> USE DEF Control
<1>1. CASE UNCHANGED vars
  BY <1>1, StillControl DEF Still, vars, local, input, text, diagnosis, answer
<1>2. ASSUME NEW r \in Requests, Receive(r) \/ UseCache(r) \/ DeclineCache(r) \/ Continue(r)
      PROVE  ControlOf(q)'
  <2>1. CASE q = r
    BY <1>2, <2>1, OwnControl
  <2>2. CASE q # r
    BY <1>2, <2>2, OthersStill, StillControl
  <2> QED BY <2>1, <2>2
<1>3. CASE \/ \E k \in DOMAIN waiting : StartCommand(k)
           \/ \E c \in running : FinishCommand(c)
           \/ Expire
  BY <1>3, StillControl
     DEF StartCommand, FinishCommand, Expire, Still, local, input, text, diagnosis, answer
<1> QED BY <1>1, <1>2, <1>3 DEF Next

-----------------------------------------------------------------------------
(* A step that leaves the queues alone, and every request that has commands *)
(* in them in its discovery.                                               *)
LEMMA QueuesAlone ==
  ASSUME Queues, UNCHANGED <<queues, skill>>,
         \A c \in Pending : pc'[c.by] = "discovering",
         \A q \in Requests : pc'[q] \in {"idle", "routing"} => pc[q] \in {"idle", "routing"}
  PROVE  Queues'
BY DEF Queues, Pending, Owed, Same, OneCommandPerTarget, queues

(* The steps of a request but for its routing and the end of its discovery. *)
LEMMA QueuesOfRequest ==
  ASSUME TypeOK, Queues, NEW r \in Requests,
         Receive(r) \/ UseCache(r) \/ DeclineCache(r) \/ Continue(r), ~Route(r)
  PROVE  Queues'
<1> USE DEF Goto, Complete, End, Throw, Take, Ask, Returns, ServeCached
<1> USE DEF input, answer
<1>1. UNCHANGED <<queues, skill>>
  <2>1. CASE Receive(r) \/ UseCache(r) \/ DeclineCache(r)
    BY <2>1 DEF Receive, UseCache, DeclineCache
  <2>2. CASE RouteThrows(r) \/ DiscoveryThrows(r) \/ FilterThrows(r) \/ DiagnosisThrows(r)
    BY <2>2 DEF RouteThrows, DiscoveryThrows, FilterThrows, DiagnosisThrows
  <2>3. CASE Discovered(r) \/ Probed(r) \/ Filtered(r) \/ Remember(r) \/ Preprocessed(r)
    BY <2>3 DEF Discovered, Probed, Filtered, Remember, Preprocessed
  <2>4. CASE CacheMiss(r) \/ CacheHit(r) \/ AskClient(r) \/ Diagnosed(r) \/ Refused(r)
    BY <2>4 DEF CacheMiss, CacheHit, AskClient, Diagnosed, Refused
  <2>5. CASE Streamed(r) \/ StructuredFails(r) \/ TextIsTainted(r)
    BY <2>5 DEF Streamed, StructuredFails, TextIsTainted
  <2>6. CASE StructuredSucceeds(r) \/ TextIsClean(r) \/ RetryReturns(r) \/ CallThrows(r)
    BY <2>6 DEF StructuredSucceeds, TextIsClean, RetryReturns, CallThrows
  <2>7. CASE Planned(r) \/ PlanLost(r) \/ Unplanned(r) \/ FallBack(r)
    BY <2>7 DEF Planned, PlanLost, Unplanned, FallBack
  <2> QED BY <2>1, <2>2, <2>3, <2>4, <2>5, <2>6, <2>7 DEF Continue
<1>2. /\ pc'[r] \in {"idle", "routing"} => pc[r] \in {"idle", "routing"}
      /\ \/ pc[r] = "discovering" => pc'[r] = "discovering"
         \/ \E s \in skill[r] : AllSettled(r, s)
  <2> USE DEF TypeOK
  <2>1. CASE Receive(r) \/ UseCache(r) \/ DeclineCache(r)
    BY <2>1 DEF Receive, UseCache, DeclineCache
  <2>2. CASE RouteThrows(r) \/ FilterThrows(r) \/ DiagnosisThrows(r)
    BY <2>2 DEF RouteThrows, FilterThrows, DiagnosisThrows, DiagnosisSettled
  <2>3. CASE Discovered(r) \/ DiscoveryThrows(r)
    BY <2>3 DEF Discovered, DiscoveryThrows
  <2>4. CASE Probed(r) \/ Filtered(r) \/ Remember(r) \/ Preprocessed(r)
    BY <2>4 DEF Probed, Filtered, Remember, Preprocessed
  <2>5. CASE CacheMiss(r) \/ CacheHit(r) \/ AskClient(r) \/ Diagnosed(r) \/ Refused(r)
    BY <2>5 DEF CacheMiss, CacheHit, AskClient, Diagnosed, Refused, DiagnosisSettled
  <2>6. CASE Streamed(r) \/ StructuredFails(r) \/ TextIsTainted(r)
    BY <2>6 DEF Streamed, StructuredFails, TextIsTainted
  <2>7. CASE StructuredSucceeds(r) \/ TextIsClean(r) \/ RetryReturns(r) \/ CallThrows(r)
    BY <2>7 DEF StructuredSucceeds, TextIsClean, RetryReturns, CallThrows
  <2>8. CASE Planned(r) \/ PlanLost(r) \/ Unplanned(r) \/ FallBack(r)
    BY <2>8 DEF Planned, PlanLost, Unplanned, FallBack
  <2> QED BY <2>1, <2>2, <2>3, <2>4, <2>5, <2>6, <2>7, <2>8 DEF Continue
<1>3. \A q \in Requests : q # r => pc'[q] = pc[q]
  BY OthersStill DEF Still
<1>4. \A c \in Pending : c.by \in Requests /\ Owed(c)
  BY PendingAreTasks DEF TypeOK, Task, Queues
<1>5. \A c \in Pending : pc'[c.by] = "discovering"
  BY <1>2, <1>3, <1>4 DEF Owed, AllSettled
<1>6. \A q \in Requests : pc'[q] \in {"idle", "routing"} => pc[q] \in {"idle", "routing"}
  BY <1>2, <1>3
<1> QED BY <1>1, <1>5, <1>6, QueuesAlone

(* Routing: the commands of the request enter the queues. *)
LEMMA QueuesRoute ==
  ASSUME TypeOK, Queues, NEW r \in Requests, Route(r)
  PROVE  Queues'
<1> DEFINE old == 1..Len(waiting)
<1>1. PICK s \in Skills : skill' = [skill EXCEPT ![r] = {s}] /\ Enqueue(r, s)
  BY DEF Route
<1> DEFINE new == (Len(waiting) + 1)..(Len(waiting) + Len(Commands[s]))
<1>2. /\ pc[r] = "routing" /\ pc'[r] = "discovering" /\ settled' = settled /\ running' = running
      /\ skill'[r] = {s} /\ settled[r] = {}
      /\ \A q \in Requests : q # r => pc'[q] = pc[q] /\ skill'[q] = skill[q]
  BY <1>1 DEF Route, Goto, Enqueue, TypeOK, Queues
<1>3. /\ DOMAIN waiting' = old \cup new /\ DOMAIN waiting = old
      /\ \A i \in old : waiting'[i] = waiting[i] /\ i \notin new
      /\ \A i \in new : waiting'[i].by = r /\ waiting'[i].index = i - Len(waiting)
      /\ \A i \in new : i - Len(waiting) \in 1..Len(Commands[s])
      /\ \A i, j \in new : i - Len(waiting) = j - Len(waiting) => i = j
  <2>1. /\ DOMAIN waiting' = 1..(Len(waiting) + Len(Commands[s])) /\ DOMAIN waiting = old
        /\ Len(waiting) \in Nat /\ Len(Commands[s]) \in Nat
        /\ \A i \in old : waiting'[i] = waiting[i]
        /\ \A i \in new : waiting'[i].by = r /\ waiting'[i].index = i - Len(waiting)
    BY <1>1, EnqueueAdds DEF TypeOK
  <2>2. /\ 1..(Len(waiting) + Len(Commands[s])) = old \cup new
        /\ \A i \in old : i \notin new
        /\ \A i \in new : i - Len(waiting) \in 1..Len(Commands[s])
        /\ \A i, j \in new : i - Len(waiting) = j - Len(waiting) => i = j
    BY <2>1
  <2> QED BY <2>1, <2>2
<1>4. \A c \in Pending : c.by \in Requests /\ Owed(c) /\ c.by # r
  BY <1>2, PendingAreTasks DEF TypeOK, Task, Queues, Owed
<1>5. \A i \in old : waiting[i] \in Pending
  BY <1>3 DEF Pending
<1> HIDE DEF old, new
<1>6. ASSUME NEW c \in Pending' PROVE Owed(c)'
  <2>1. CASE c \in Pending
    BY <1>2, <1>4, <2>1 DEF Owed
  <2>2. CASE \E i \in new : c = waiting'[i]
    BY <1>2, <1>3, <2>2 DEF Owed
  <2> QED BY <1>2, <1>3, <1>5, <2>1, <2>2 DEF Pending
<1>7. \A j, k \in DOMAIN waiting' : Same(waiting'[j], waiting'[k]) => j = k
  BY <1>3, <1>4, <1>5 DEF Same, Queues
<1>8. \A c \in running' : \A k \in DOMAIN waiting' : ~Same(c, waiting'[k])
  BY <1>2, <1>3, <1>4 DEF Same, Queues, Pending
<1>9. \A q \in Requests : pc'[q] \in {"idle", "routing"} => settled'[q] = {}
  BY <1>2 DEF Queues
<1> QED BY <1>2, <1>6, <1>7, <1>8, <1>9 DEF Queues, Same, OneCommandPerTarget

LEMMA QueuesStart ==
  ASSUME TypeOK, Queues, NEW k \in DOMAIN waiting, StartCommand(k)
  PROVE  Queues'
<1>1. /\ running' = running \cup {waiting[k]}
      /\ \A c \in running : c.target # waiting[k].target
      /\ settled' = settled /\ pc' = pc /\ skill' = skill
  BY DEF StartCommand, Start, SameQueue, local, input
<1>2. /\ \A j \in DOMAIN waiting' :
            \E m \in DOMAIN waiting : m # k /\ waiting'[j] = waiting[m]
      /\ \A i, j \in DOMAIN waiting' : i # j =>
            \E m, n \in DOMAIN waiting :
              m # n /\ waiting'[i] = waiting[m] /\ waiting'[j] = waiting[n]
  BY StartKeeps DEF StartCommand, TypeOK
<1>3. Pending' \subseteq Pending
  BY <1>1, <1>2 DEF Pending
<1>4. (\A c \in Pending : Owed(c))'
  BY <1>1, <1>3 DEF Queues, Owed
<1>5. \A j, n \in DOMAIN waiting' : Same(waiting'[j], waiting'[n]) => j = n
  BY <1>2 DEF Queues
<1>6. \A c \in running' : \A j \in DOMAIN waiting' : ~Same(c, waiting'[j])
  BY <1>1, <1>2 DEF Queues
<1>7. \A c, d \in running' : Same(c, d) => c = d
  BY <1>1 DEF Queues, Same
<1>8. OneCommandPerTarget'
  BY <1>1 DEF Queues, OneCommandPerTarget
<1> QED BY <1>1, <1>4, <1>5, <1>6, <1>7, <1>8 DEF Queues

LEMMA QueuesFinish ==
  ASSUME TypeOK, Queues, NEW c \in running, FinishCommand(c)
  PROVE  Queues'
<1>1. /\ running' = running \ {c} /\ waiting' = waiting /\ pc' = pc /\ skill' = skill
      /\ settled' = [settled EXCEPT ![c.by] = @ \cup {c.index}]
  BY DEF FinishCommand, Finish, local, input
<1>2. c \in Task
  BY DEF TypeOK, TypeOKQueues
<1>3. ASSUME NEW d \in Pending' PROVE Owed(d)' /\ d \in Pending
  <2>1. d \in Pending /\ ~Same(c, d)
    BY <1>1, <1>3 DEF Queues, Pending
  <2>2. d \in Task
    BY <2>1, PendingAreTasks DEF TypeOK
  <2>3. d.index \notin settled'[d.by]
    BY <1>1, <1>2, <2>1, <2>2 DEF Queues, Owed, Same, TypeOK, TypeOKQueues, Task
  <2> QED BY <1>1, <2>1, <2>3 DEF Queues, Owed
<1>4. \A q \in Requests : pc'[q] \in {"idle", "routing"} => settled'[q] = {}
  <2>1. pc[c.by] = "discovering"
    BY DEF Queues, Pending, Owed
  <2> QED BY <1>1, <2>1 DEF Queues, TypeOK, TypeOKQueues
<1> QED BY <1>1, <1>3, <1>4 DEF Queues, OneCommandPerTarget

(* Every action keeps the queues in order. *)
LEMMA QueuesStep == TypeOK /\ Queues /\ [Next]_vars => Queues'
<1> SUFFICES ASSUME TypeOK, Queues, [Next]_vars PROVE Queues'
  OBVIOUS
<1>1. CASE UNCHANGED vars \/ Expire
  <2>1. UNCHANGED <<queues, skill, pc>>
    BY <1>1 DEF vars, Expire, local, input
  <2>2. \A c \in Pending : pc[c.by] = "discovering"
    BY DEF Queues, Owed
  <2> QED BY <2>1, <2>2, QueuesAlone
<1>2. ASSUME NEW r \in Requests, Receive(r) \/ UseCache(r) \/ DeclineCache(r) \/ Continue(r)
      PROVE  Queues'
  BY <1>2, QueuesRoute, QueuesOfRequest
<1>3. ASSUME NEW k \in DOMAIN waiting, StartCommand(k) PROVE Queues'
  BY <1>3, QueuesStart
<1>4. ASSUME NEW c \in running, FinishCommand(c) PROVE Queues'
  BY <1>4, QueuesFinish
<1> QED BY <1>1, <1>2, <1>3, <1>4 DEF Next

-----------------------------------------------------------------------------
(* IInv is an invariant of the pipeline. *)
LEMMA Invariance == Spec => []IInv
<1>1. IInv /\ [Next]_vars => IInv'
  BY TypeStep, ControlStep, QueuesStep DEF IInv
<1> QED BY <1>1, InitIInv, PTL DEF Spec

(* Every variable of the pipeline and its queues keeps its type. *)
THEOREM TypeCorrect == Spec => []TypeOK
<1>1. IInv => TypeOK
  BY DEF IInv
<1> QED BY <1>1, Invariance, PTL

(* Of the commands of all requests, at most one runs per container. *)
THEOREM ContainersAreNotShared == Spec => []OneCommandPerTarget
<1>1. IInv => OneCommandPerTarget
  BY DEF IInv, Queues
<1> QED BY <1>1, Invariance, PTL

(* A request leaves its discovery only after its last command. *)
THEOREM NothingRunsUnaccounted == Spec => []CommandsBelongToDiscovery
<1>1. IInv => CommandsBelongToDiscovery
  BY DEF IInv, Queues, Pending, Owed, CommandsBelongToDiscovery
<1> QED BY <1>1, Invariance, PTL

(* Every model call of a diagnosis is told what the discovery found. *)
THEOREM DiagnosesAreGrounded == Spec => []GroundedDiagnosis
<1>1. IInv => GroundedDiagnosis
  BY DEF IInv, Control, ControlOf, GroundedDiagnosis
<1> QED BY <1>1, Invariance, PTL

(* The preprocess task never makes a diagnosis fail. *)
THEOREM WorkerIsOptional == Spec => []PreprocessIsOptional
<1>1. IInv => PreprocessIsOptional
  BY DEF IInv, Control, ControlOf, PreprocessIsOptional
<1> QED BY <1>1, Invariance, PTL

-----------------------------------------------------------------------------
(* The pipeline implements DebugRequest. *)


(* A step of a request is one of the steps of DebugRequest, or a stutter. *)
LEMMA RequestRefines ==
  ASSUME TypeOK, NEW r \in Requests, ControlOf(r),
         Receive(r) \/ UseCache(r) \/ DeclineCache(r) \/ Continue(r)
  PROVE  D!Next \/ UNCHANGED D!vars
<1> USE DEF D!Next, D!vars, D!Open
<1> USE DEF queues, scheduler, input, text, diagnosis, answer
<1> USE DEF Goto, Complete, End, Throw, Take, Ask, Returns, ServeCached
<1> USE DEF TypeOK, ControlOf
<1>1. CASE UseCache(r) \/ CacheHit(r)
  <2>1. D!Serve(r)
    BY <1>1 DEF UseCache, CacheHit, D!Serve, Sound
  <2> QED BY <2>1
<1>2. CASE Receive(r) \/ DeclineCache(r) \/ CacheMiss(r) \/ AskClient(r)
  BY <1>2 DEF Receive, DeclineCache, CacheMiss, AskClient
<1>3. CASE Route(r) \/ Probed(r) \/ Filtered(r) \/ Remember(r) \/ Preprocessed(r)
  BY <1>3 DEF Route, Probed, Filtered, Remember, Preprocessed
<1>4. CASE RouteThrows(r) \/ DiscoveryThrows(r) \/ FilterThrows(r) \/ DiagnosisThrows(r)
  <2>1. UNCHANGED <<completed, verdict, plan>>
    BY <1>4 DEF RouteThrows, DiscoveryThrows, FilterThrows, DiagnosisThrows
  <2>2. CASE r \in Streaming
    <3>1. outcome' = [outcome EXCEPT ![r] = "failed"] /\ pc[r] # "ended"
      BY <1>4, <2>2 DEF RouteThrows, DiscoveryThrows, FilterThrows, DiagnosisThrows,
                        DiagnosisSettled
    <3>2. D!End(r)
      BY <2>1, <3>1 DEF D!End
    <3> QED BY <3>2
  <2>3. CASE r \notin Streaming
    <3>1. UNCHANGED outcome
      BY <1>4, <2>3 DEF RouteThrows, DiscoveryThrows, FilterThrows, DiagnosisThrows
    <3> QED BY <2>1, <3>1
  <2> QED BY <2>2, <2>3
<1>5. CASE Discovered(r)
  <2>1. pc[r] = "discovering" /\ UNCHANGED <<verdict, plan, outcome>>
    BY <1>5 DEF Discovered
  <2>2. completed' = [completed EXCEPT ![r] = @ \cup {"discovery"}]
    BY <1>5 DEF Discovered
  <2>3. D!Ground(r)
    BY <2>1, <2>2 DEF D!Ground
  <2> QED BY <2>3
<1>6. CASE Streamed(r) \/ StructuredFails(r) \/ TextIsTainted(r)
  BY <1>6 DEF Streamed, StructuredFails, TextIsTainted
<1>7. CASE StructuredSucceeds(r) \/ TextIsClean(r) \/ RetryReturns(r) \/ CallThrows(r)
  <2>1. PICK v \in Verdict : Returns(r, v) /\ call[r] # "none"
    BY <1>7 DEF StructuredSucceeds, TextIsClean, RetryReturns, CallThrows, Verdict
  <2>2. pc[r] = "diagnosing" /\ verdict[r] = "none" /\ verdict' = [verdict EXCEPT ![r] = v]
        /\ UNCHANGED <<completed, plan, outcome>>
    BY <2>1
  <2>3. CASE v \in Sound
    <3>1. D!Diagnose(r)
      BY <2>2, <2>3 DEF D!Diagnose
    <3> QED BY <3>1
  <2>4. CASE v \notin Sound
    BY <2>2, <2>4 DEF Sound
  <2> QED BY <2>3, <2>4
<1>8. CASE Diagnosed(r)
  BY <1>8 DEF Diagnosed, DiagnosisSettled
<1>9. CASE Refused(r)
  <2>1. D!End(r)
    BY <1>9 DEF Refused, DiagnosisSettled, D!End, Sound
  <2> QED BY <2>1
<1>10. CASE Planned(r)
  <2>1. D!Propose(r)
    BY <1>10 DEF Planned, D!Propose
  <2> QED BY <2>1
<1>11. CASE PlanLost(r)
  <2>1. CASE r \in Streaming
    <3>1. D!Propose(r)
      BY <1>11, <2>1 DEF PlanLost, D!Propose
    <3> QED BY <3>1
  <2>2. CASE r \notin Streaming
    BY <1>11, <2>2 DEF PlanLost
  <2> QED BY <2>1, <2>2
<1>12. CASE Unplanned(r)
  <2>1. D!End(r) \/ UNCHANGED D!vars
    BY <1>12 DEF Unplanned, D!End
  <2> QED BY <2>1
<1>13. CASE FallBack(r)
  <2>1. D!End(r)
    BY <1>13 DEF FallBack, D!End
  <2> QED BY <2>1
<1> QED BY <1>1, <1>2, <1>3, <1>4, <1>5, <1>6, <1>7, <1>8, <1>9, <1>10, <1>11, <1>12, <1>13
        DEF Continue

(* For any number of requests, each client gets what DebugRequest promises. *)
THEOREM Implementation == Spec => ImplementsDebugRequest
<1>1. Init => D!Init
  BY DEF Init, D!Init, Sound
<1>2. IInv /\ [Next]_vars => [D!Next]_(D!vars)
  <2> SUFFICES ASSUME IInv, [Next]_vars PROVE D!Next \/ UNCHANGED D!vars
    OBVIOUS
  <2>1. ASSUME NEW r \in Requests, Receive(r) \/ UseCache(r) \/ DeclineCache(r) \/ Continue(r)
        PROVE  D!Next \/ UNCHANGED D!vars
    BY <2>1, RequestRefines DEF IInv, Control
  <2>2. CASE \/ UNCHANGED vars
             \/ \E k \in DOMAIN waiting : StartCommand(k)
             \/ \E c \in running : FinishCommand(c)
             \/ Expire
    BY <2>2 DEF vars, StartCommand, FinishCommand, Expire, local, diagnosis, answer, D!vars
  <2> QED BY <2>1, <2>2 DEF Next
<1> QED BY <1>1, <1>2, Invariance, PTL DEF Spec, ImplementsDebugRequest, D!Spec
=============================================================================
