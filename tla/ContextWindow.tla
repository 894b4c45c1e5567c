---------------------------- MODULE ContextWindow ----------------------------
(***************************************************************************)
(* What of a discovery reaches the prompt of the diagnosis: ground truth,   *)
(* compaction and its snapshot (context/*.ts), as runDPEV uses them on its  *)
(* sequential and its parallel path (orchestrator/pipeline.ts).             *)
(*                                                                         *)
(* A text is its number of tokens.  A section of the discovery has three:   *)
(* in full, cut to two lines and to one, each with a marker; so that a cut  *)
(* text may have as many tokens as the full one, or more.                   *)
(*                                                                         *)
(* A loop over a list is a recursive function of how far it got.  The names *)
(* of SessionStore are left free: SessionStore_proofs extends both.         *)
(***************************************************************************)
EXTENDS Naturals, Sequences, FiniteSets, SequencesExt

CONSTANTS
  Window, Threshold, Target, Cap,  \* windowSize and its shares, in tokens
  Sections,      \* <<full, two, one>>: the sections there may be
  MaxSections, MaxFacts,
  FactTokens,    \* tokens a fact may have
  SummaryTokens, \* tokens a summary may have
  MemoryTokens   \* tokens the wake-up may inject

ASSUME WindowAssumption ==
  /\ {Window, Threshold, Target, Cap} \subseteq Nat
  /\ Cap <= Target /\ Target <= Threshold /\ Threshold <= Window
  /\ Sections \subseteq Nat \X Nat \X Nat
  /\ FactTokens \cup SummaryTokens \cup MemoryTokens \subseteq Nat
  /\ {MaxSections, MaxFacts} \subseteq Nat

VARIABLES
  path,          \* sequential or parallel
  raw,           \* discoveryRaw: its sections and the facts in it
  filtered,      \* what filterNoise leaves of it
  pc,
  facts, obs, memory, fired,  \* the ContextManager
  snapshot,      \* the file written before compaction, as a set: {} or {its content}
  prompt,        \* the manager's part of the diagnosis prompt: ground truth and observations
  gone           \* history: facts that ground truth evicted

manager == <<facts, obs, memory, fired>>
discovery == <<raw, filtered>>
contextVars == <<path, discovery, pc, manager, snapshot, prompt, gone>>

FactType == <<"container", "port", "ip", "error_code", "custom">>

(* Mutant: numbered the other way round. *)
PriorityReversed == [ip |-> 4, port |-> 3, container |-> 2, custom |-> 1, error_code |-> 0]

(* EVICTION_PRIORITY. *)
Priority == [ip |-> 0, port |-> 1, container |-> 2, custom |-> 3, error_code |-> 4]

Sums(q) ==
  LET sum[n \in 0..Len(q)] == IF n = 0 THEN 0 ELSE sum[n - 1] + q[n].tokens IN sum
Tokens(q) == Sums(q)[Len(q)]

Smallest(ns) == CHOOSE n \in ns : \A m \in ns : n <= m

(* An observation: which section it is of (0: a summary), in which form.     *)
Observation(i, s, level) == [of |-> i, level |-> level, tokens |-> s[level], s |-> s]
Observations(d) == [i \in DOMAIN d.sections |-> Observation(i, d.sections[i], 1)]

(* The facts of a text, in the order extractGroundTruth and parseExplicitPins *)
(* find them: by type.                                                      *)
Facts ==
  {q \in UNION {[1..n -> [type : ToSet(FactType), tokens : FactTokens]] : n \in 0..MaxFacts} :
     \A i, j \in DOMAIN q : i < j =>
       \E a, b \in DOMAIN FactType :
         a <= b /\ FactType[a] = q[i].type /\ FactType[b] = q[j].type}

Texts == [sections : UNION {[1..n -> Sections] : n \in 0..MaxSections}, facts : Facts]

(* Some of the elements of q, in their order. *)
SomeOf(q) ==
  {[i \in DOMAIN at |-> q[at[i]]] :
     at \in {at \in UNION {[1..n -> DOMAIN q] : n \in 0..Len(q)} :
              \A i, j \in DOMAIN at : i < j => at[i] < at[j]}}

(* The noise filter takes lines away, with the facts on them, and no section. *)
Filterings(d) ==
  [sections : {q \in [DOMAIN d.sections -> Sections] :
                 \A i \in DOMAIN q : q[i][1] <= d.sections[i][1]},
   facts : SomeOf(d.facts)]

-----------------------------------------------------------------------------
(* GroundTruthManager. *)

(* The oldest fact of the lowest priority. *)
Victim(q) ==
  CHOOSE i \in DOMAIN q : \A j \in DOMAIN q :
    \/ Priority[q[i].type] < Priority[q[j].type]
    \/ Priority[q[i].type] = Priority[q[j].type] /\ i <= j

(* enforceCapacity: the victims one after the other, and what is left of    *)
(* the facts once they fit or there are none.                              *)
Evictions(q) ==
  LET left[n \in 0..Len(q)] ==
        IF n = 0 THEN q ELSE RemoveAt(left[n - 1], Victim(left[n - 1]))
  IN left

Enforce(q) ==
  LET left == Evictions(q)
      m == Smallest({n \in 0..Len(q) : Tokens(left[n]) <= Cap \/ n = Len(q)})
  IN [kept |-> left[m], gone |-> {left[n][Victim(left[n])] : n \in 0..(m - 1)}]

(* add, for each fact. *)
PinNext(st, f) ==
  LET after == Enforce(Append(st.kept, f)) IN
  [kept |-> after.kept, gone |-> st.gone \cup after.gone]

Pins(kept, new) ==
  LET st[n \in 0..Len(new)] ==
        IF n = 0 THEN [kept |-> kept, gone |-> {}] ELSE PinNext(st[n - 1], new[n])
  IN st
Pin(kept, new) == Pins(kept, new)[Len(new)]

-----------------------------------------------------------------------------
(* tieredEviction.  No observation is marked as noise, so tier 1 evicts      *)
(* nothing; all observations of one manager are in order of age.            *)

(* Mutant: the budget forgets ground truth. *)
UnderBudgetAlone(q) == Tokens(q) <= Target

(* isUnderBudget: memory does not count. *)
UnderBudget(q) == Tokens(q) + Tokens(facts) <= Target

(* compressObs: a text that is short enough stays. *)
Cut(o, level) == IF o.of = 0 THEN o ELSE Observation(o.of, o.s, level)
CutFirst(q, n) == [i \in DOMAIN q |-> IF i <= n THEN Cut(q[i], 2) ELSE q[i]]

(* Tier 2: the oldest are cut to two lines, no more of them than needed. *)
Tier2(q) ==
  LET enough == {n \in DOMAIN q : UnderBudget(CutFirst(q, n))} IN
  CutFirst(q, IF enough = {} THEN Len(q) ELSE Smallest(enough))

(* Tier 3 without a model: all are cut to one line, the oldest are dropped,  *)
(* and one is left.                                                         *)
Tier3(q) ==
  LET lines == [i \in DOMAIN q |-> Cut(q[i], 3)]
      Drop(n) == SubSeq(lines, n + 1, Len(q))
      enough == {n \in 0..(Len(q) - 1) : UnderBudget(Drop(n)) \/ n = Len(q) - 1}
  IN IF q = <<>> THEN q ELSE Drop(Smallest(enough))

ContextTotal == Tokens(facts) + Tokens(obs) + memory

-----------------------------------------------------------------------------
NewManager == facts = <<>> /\ obs = <<>> /\ memory = 0 /\ fired = FALSE

ContextInit ==
  /\ path \in {"sequential", "parallel"}
  /\ raw \in Texts
  /\ filtered = raw
  /\ pc = IF path = "parallel" THEN "remembering" ELSE "filtering"
  /\ NewManager
  /\ snapshot = {} /\ prompt = [facts |-> <<>>, obs |-> <<>>] /\ gone = {}

(* ingestDiscovery. *)
Ingest(d) ==
  LET pinned == Pin(facts, d.facts) IN
  /\ facts' = pinned.kept
  /\ gone' = gone \cup pinned.gone
  /\ obs' = obs \o Observations(d)
  /\ UNCHANGED <<memory, fired>>

(* buildWakeUpContext and injectMemory; the parallel path then builds its    *)
(* prompt from a manager of its own, which nothing compacts.                 *)
Remember ==
  /\ pc = "remembering"
  /\ memory' \in MemoryTokens
  /\ prompt' = IF path = "parallel"
               THEN [facts |-> Pin(<<>>, raw.facts).kept, obs |-> Observations(raw)]
               ELSE prompt
  /\ pc' = IF path = "parallel" THEN "filtering" ELSE "ended"
  /\ UNCHANGED <<path, discovery, facts, obs, fired, snapshot, gone>>

(* filterNoise, then ingestDiscovery. *)
Filter ==
  /\ pc = "filtering"
  /\ \E d \in Filterings(raw) : filtered' = d /\ Ingest(d)
  /\ pc' = "compacting"
  /\ UNCHANGED <<path, raw, snapshot, prompt>>

(* What follows maybeCompact. *)
Then == IF path = "parallel" THEN "ended" ELSE "prompting"

(* maybeCompact below the threshold. *)
NotYet ==
  /\ pc = "compacting" /\ ContextTotal < Threshold
  /\ pc' = Then
  /\ UNCHANGED <<path, discovery, manager, snapshot, prompt, gone>>

(* Mutant: the snapshot is of what is left. *)
CompactSavesRest ==
  /\ pc = "compacting" /\ ContextTotal >= Threshold
  /\ fired' = TRUE
  /\ LET left == IF UnderBudget(obs) THEN obs ELSE Tier2(obs) IN
     /\ obs' = left
     /\ snapshot' = {left}
     /\ pc' = IF UnderBudget(left) THEN Then ELSE "summarizing"
  /\ UNCHANGED <<path, discovery, facts, memory, prompt, gone>>

(* maybeCompact up to its await: the flag, the snapshot, tiers 1 and 2. *)
Compact ==
  /\ pc = "compacting" /\ ContextTotal >= Threshold
  /\ fired' = TRUE
  /\ snapshot' = {obs}
  /\ LET left == IF UnderBudget(obs) THEN obs ELSE Tier2(obs) IN
     /\ obs' = left
     /\ pc' = IF UnderBudget(left) THEN Then ELSE "summarizing"
  /\ UNCHANGED <<path, discovery, facts, memory, prompt, gone>>

(* The worker model's summary replaces the observations, whatever its size.  *)
Summarized ==
  /\ pc = "summarizing"
  /\ \E n \in SummaryTokens : obs' = <<[of |-> 0, level |-> 1, tokens |-> n, s |-> <<n, n, n>>]>>
  /\ pc' = Then
  /\ UNCHANGED <<path, discovery, facts, memory, fired, snapshot, prompt, gone>>

(* There is no worker model, or it fails. *)
NotSummarized ==
  /\ pc = "summarizing"
  /\ obs' = Tier3(obs)
  /\ pc' = Then
  /\ UNCHANGED <<path, discovery, facts, memory, fired, snapshot, prompt, gone>>

(* buildContext for the diagnosis: the manager's part of the prompt, to which *)
(* the user's words, the rolling context and the skill's instructions are      *)
(* added; its memory comes after that.                                       *)
BuildPrompt ==
  /\ pc = "prompting"
  /\ prompt' = [facts |-> facts, obs |-> obs]
  /\ pc' = "remembering"
  /\ UNCHANGED <<path, discovery, manager, snapshot, gone>>

(* saveSnapshot throws, with the flag already set: the request fails, or on  *)
(* the parallel path the raw discovery is ingested as well.                  *)
SnapshotThrows ==
  /\ pc = "compacting" /\ ContextTotal >= Threshold
  /\ pc' = "failed"
  /\ IF path = "parallel"
     THEN LET pinned == Pin(facts, raw.facts) IN
          /\ facts' = pinned.kept /\ gone' = gone \cup pinned.gone
          /\ obs' = obs \o Observations(raw)
     ELSE UNCHANGED <<facts, obs, gone>>
  /\ fired' = TRUE
  /\ UNCHANGED <<path, discovery, memory, snapshot, prompt>>

(* filterNoise throws (a skill's pattern does not compile). *)
FilterThrows ==
  /\ pc = "filtering"
  /\ pc' = "failed"
  /\ IF path = "parallel" THEN Ingest(raw) ELSE UNCHANGED <<manager, gone>>
  /\ UNCHANGED <<path, discovery, snapshot, prompt>>

ContextNext ==
  \/ Remember \/ Filter \/ FilterThrows \/ NotYet \/ Compact \/ SnapshotThrows
  \/ Summarized \/ NotSummarized \/ BuildPrompt

ContextSpec == ContextInit /\ [][ContextNext]_contextVars

-----------------------------------------------------------------------------
(* Properties. *)

(* One text that nothing shortens: a summary, or one cut to its last form. *)
Incompressible(q) == Len(q) = 1 /\ (q[1].of = 0 \/ q[1].level = 3)

Compacted(f, q) ==
  IF fired THEN Tokens(f) + Tokens(q) <= Target \/ Incompressible(q)
  ELSE Tokens(f) + Tokens(q) < Threshold

(* A compaction does not stop early: what it leaves is within the target, or  *)
(* is one text that nothing shortens; without one, ground truth and           *)
(* observations are below the threshold.  On the sequential path that is what *)
(* buildContext puts into the prompt.  The rest of the prompt is not counted, *)
(* by the code or here; the parallel path's prompt comes from a manager that   *)
(* never compacts.                                                           *)
CompactionIsEnough ==
  /\ pc \in {"prompting", "ended"} => Compacted(facts, obs)
  /\ path = "sequential" /\ pc \in {"remembering", "ended"} => Compacted(prompt.facts, prompt.obs)

(* What compaction cuts or drops was written to the snapshot in full. *)
EvictedIsSaved ==
  pc # "failed" /\ filtered.sections # <<>> /\ pc \notin {"remembering", "filtering", "compacting"} =>
    \A i \in DOMAIN filtered.sections :
      LET whole == Observation(i, filtered.sections[i], 1) IN
      whole \in ToSet(obs) \/ \E kept \in snapshot : whole \in ToSet(kept)

(* An error code is evicted from ground truth only when error codes alone    *)
(* overflow its cap: then no container, port or address is left there, as    *)
(* those were found first.  Not so when a failed preprocess ingests twice.   *)
ErrorCodesLast ==
  pc # "failed" /\ (\E f \in gone : f.type = "error_code") =>
    \A f \in ToSet(facts) : f.type \in {"error_code", "custom"}
=============================================================================
