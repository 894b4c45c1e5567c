--------------------------- MODULE FixCache_proofs ---------------------------
(***************************************************************************)
(* Startup invalidation purges what is stale and nothing else, for any     *)
(* number of processes, skills, rows and requests, and any crashes.        *)
(***************************************************************************)
EXTENDS FixCache, TLAPS

From(e) == row[e].plan.from

(* A fix without an excuse is filed under its own skill, and was made with *)
(* the edition whose hash is stored.                                       *)
Fresh ==
  \A e \in table :
    From(e) \notin excused =>
      row[e].plan.label = From(e) /\ row[e].plan.made = hashes[From(e)]

(* It was also made with the edition that every invalidation under way has *)
(* read, and if that changed, its purge is still to come.                  *)
Underway ==
  \A p \in Procs : pc[p] = "purging" =>
    /\ run[p].todo \subseteq Changed(run[p].old, run[p].cur)
    /\ \A e \in table :
         From(e) \notin excused =>
           /\ row[e].plan.made = run[p].old[From(e)]
           /\ From(e) \in Changed(run[p].old, run[p].cur) => From(e) \in run[p].todo

(* An invalidation that found no table to open misses no such fix. *)
NothingMissed ==
  \A p \in Procs :
    pc[p] \in {"opened", "purging"} /\ handle[p] # "open" =>
      \A e \in table : From(e) \in excused

IInv == TypeOK /\ Fresh /\ Underway /\ NothingMissed

(* What the properties see of the rows: their plans. *)
SamePlans ==
  /\ table' \subseteq table
  /\ DOMAIN row \subseteq DOMAIN row'
  /\ \A e \in DOMAIN row : row'[e].plan = row[e].plan

LEMMA NoRunType == Nothing \in Hashes /\ NoRun \in Runs
  BY EditionAssumption DEF NoRun, Nothing, Hashes, Runs, Absent

LEMMA EndedType ==
  /\ NewRequest \in States /\ Ended \in States
  /\ Ended.at = "ended" /\ Ended.used = {}
  BY DEF Ended, NewRequest, States, NoUpdate, Update, Updates, Columns

LEMMA InitIInv == Init => IInv
<1> SUFFICES ASSUME Init PROVE IInv
  OBVIOUS
<1>1. PICK label \in [Seed -> Skills] :
        row = [e \in Seed |->
                 NewRow([label |-> label[e], from |-> label[e], made |-> 1])]
  BY DEF Init
<1>2. 1 \in Editions /\ {0, 1} \subseteq 0..MaxEdition
  BY EditionAssumption DEF Editions
<1>3. \A e \in Seed : row[e] \in Rows /\ row[e].plan.label = From(e)
                      /\ row[e].plan.made = 1 /\ From(e) \in Skills
  BY <1>1, <1>2 DEF NewRow, Rows, Plans, Zero, From
<1>4. NoRun \in Runs /\ Nothing \in Hashes
  BY NoRunType
<1>5. NewRequest \in States /\ NewRequest.at = "new" /\ NewRequest.used = {}
  BY EndedType DEF NewRequest
<1>6. TypeOK
  <2>1. skillFile \in Hashes /\ hashes \in Hashes
    BY <1>2 DEF Init, Hashes
  <2>2. table \subseteq DOMAIN row /\ DOMAIN row \subseteq Entries
        /\ (~exists => table = {}) /\ \A e \in DOMAIN row : row[e] \in Rows
    BY <1>1, <1>3, SeedAssumption DEF Init
  <2>3. edits \in 0..MaxEdits /\ starts \in 0..MaxStarts
    BY BoundsAssumption DEF Init
  <2> QED BY <2>1, <2>2, <2>3, <1>4, <1>5 DEF Init, TypeOK
<1>7. Fresh /\ Underway /\ NothingMissed
  BY <1>3 DEF Init, Fresh, Underway, NothingMissed, From
<1> QED BY <1>6, <1>7 DEF IInv

-----------------------------------------------------------------------------
LEMMA EditStep == ASSUME IInv, NEW s \in Skills, EditSkill(s) PROVE IInv'
<1>1. TypeOK'
  <2>1. skillFile' \in Hashes
    BY DEF IInv, TypeOK, EditSkill, Hashes
  <2>2. edits' \in 0..MaxEdits
    BY BoundsAssumption DEF IInv, TypeOK, EditSkill
  <2> QED BY <2>1, <2>2
       DEF IInv, TypeOK, EditSkill, hashFile, store, startup
<1>2. Fresh' /\ Underway' /\ NothingMissed'
  BY DEF IInv, Fresh, Underway, NothingMissed, From, EditSkill, hashFile, store,
         startup
<1> QED BY <1>1, <1>2 DEF IInv

LEMMA LoadStep == ASSUME IInv, NEW p \in Procs, Load(p) PROVE IInv'
<1>1. TypeOK'
  <2>1. starts' \in 0..MaxStarts
    BY BoundsAssumption DEF IInv, TypeOK, Load
  <2> QED BY <2>1 DEF IInv, TypeOK, Load, Goto, skillDir, hashFile, store
<1>2. Fresh' /\ Underway' /\ NothingMissed'
  BY DEF IInv, TypeOK, Fresh, Underway, NothingMissed, From, Load, Goto, hashFile,
         store
<1> QED BY <1>1, <1>2 DEF IInv

(* Without a table, the process has nothing to miss. *)
LEMMA ConnectStep == ASSUME IInv, NEW p \in Procs, Open(p) \/ OpenFails(p)
                     PROVE  IInv'
<1>1. PICK state \in {"unconnected", "connected", "open"}, place \in {"opened", "up"} :
        /\ Connect(p, state, place)
        /\ place = "opened" => state = "open" \/ ~exists
  BY DEF Open, OpenFails
<1>2. TypeOK'
  BY <1>1 DEF IInv, TypeOK, Connect, Goto, skillDir, hashFile, store, startup
<1>3. Fresh' /\ Underway' /\ NothingMissed'
  BY <1>1 DEF IInv, TypeOK, Fresh, Underway, NothingMissed, From, Connect, Goto,
              hashFile, store, startup
<1> QED BY <1>2, <1>3 DEF IInv

LEMMA ReadHashesStep == ASSUME IInv, NEW p \in Procs, ReadHashes(p) PROVE IInv'
<1> DEFINE read == [old |-> hashes, cur |-> skillFile,
                    todo |-> Changed(hashes, skillFile)]
<1>1. read \in Runs
  BY DEF IInv, TypeOK, Runs, Changed
<1>2. TypeOK'
  BY <1>1 DEF IInv, TypeOK, ReadHashes, Goto, skillDir, hashFile, store
<1>3. Fresh' /\ NothingMissed'
  BY DEF IInv, TypeOK, Fresh, NothingMissed, From, ReadHashes, Goto, hashFile, store
<1>4. Underway'
  BY <1>1 DEF IInv, TypeOK, Fresh, Underway, From, ReadHashes, Goto, hashFile,
              store, skillDir
<1> QED BY <1>2, <1>3, <1>4 DEF IInv

(* Steps of a purge: s leaves the list, and its fixes the table, unless    *)
(* they were excused, before or now.                                       *)
LEMMA AdvanceStep ==
  ASSUME IInv, NEW p \in Procs, NEW s \in Skills, Advance(p, s),
         table' \subseteq table, excused \subseteq excused', excused' \subseteq Skills,
         \A e \in table' : From(e) \notin excused' => From(e) # s
  PROVE  IInv'
<1>1. run' \in [Procs -> Runs]
  BY DEF IInv, TypeOK, Runs, Advance
<1>2. TypeOK'
  BY <1>1 DEF IInv, TypeOK, Advance, skillDir, hashFile
<1>3. Fresh' /\ NothingMissed'
  BY DEF IInv, Fresh, NothingMissed, From, Advance, hashFile
<1>4. Underway'
  BY DEF IInv, TypeOK, Runs, Underway, From, Advance
<1> QED BY <1>2, <1>3, <1>4 DEF IInv

LEMMA PurgeStep ==
  ASSUME IInv, NEW p \in Procs, NEW s \in Skills, Purge(p, s) \/ PurgeFails(p, s)
  PROVE  IInv'
<1>1. CASE PurgeFails(p, s)
  BY <1>1, AdvanceStep DEF PurgeFails, IInv, TypeOK
<1>2. CASE Purge(p, s)
  <2>1. \A e \in table' : From(e) \notin excused => From(e) # s
    BY <1>2 DEF IInv, Fresh, NothingMissed, From, Purge, Advance
  <2> QED BY <1>2, <2>1, AdvanceStep DEF Purge, IInv, TypeOK
<1> QED BY <1>1, <1>2

(* All changed skills are purged: what is left was made with an edition     *)
(* that did not change.                                                    *)
LEMMA StampStep == ASSUME IInv, NEW p \in Procs, Stamp(p) PROVE IInv'
<1>1. TypeOK'
  BY NoRunType DEF IInv, TypeOK, Runs, Stamp, Goto, skillDir, store
<1>2. \A e \in table : From(e) \notin excused' =>
        row[e].plan.made = run[p].cur[From(e)]
  <2> SUFFICES ASSUME NEW e \in table, From(e) \notin excused'
               PROVE  row[e].plan.made = run[p].cur[From(e)]
    OBVIOUS
  <2>1. From(e) \in Skills /\ row[e].plan.made \in Editions
    BY DEF IInv, TypeOK, Rows, Plans, From
  <2>2. From(e) \notin excused /\ run[p].cur[From(e)] # Absent
    BY <2>1 DEF Stamp
  <2>3. row[e].plan.made = run[p].old[From(e)]
        /\ From(e) \notin Changed(run[p].old, run[p].cur)
    BY <2>2 DEF IInv, Underway, Stamp
  <2>4. run[p].old[From(e)] # Absent
    BY <2>1, <2>3, EditionAssumption DEF Editions, Absent
  <2> QED BY <2>1, <2>2, <2>3, <2>4 DEF Changed
<1>3. Fresh'
  BY <1>2 DEF IInv, Fresh, From, Stamp, store
<1>4. Underway' /\ NothingMissed'
  BY DEF IInv, TypeOK, Underway, NothingMissed, From, Stamp, Goto, store
<1> QED BY <1>1, <1>3, <1>4 DEF IInv

LEMMA StampTearsStep == ASSUME IInv, NEW p \in Procs, StampTears(p) PROVE IInv'
<1>1. TypeOK'
  BY NoRunType DEF IInv, TypeOK, StampTears, Goto, skillDir, store
<1>2. Fresh' /\ Underway' /\ NothingMissed'
  BY DEF IInv, TypeOK, Fresh, Underway, NothingMissed, From, StampTears, Goto, store
<1> QED BY <1>1, <1>2 DEF IInv

LEMMA CrashStep == ASSUME IInv, NEW p \in Procs, Crash(p) PROVE IInv'
<1>1. Ended \in States /\ Ended.at = "ended" /\ Ended.used = {}
  BY EndedType
<1>2. TypeOK'
  BY <1>1, NoRunType
     DEF IInv, TypeOK, Crash, Goto, skillDir, hashFile, store
<1>3. Fresh' /\ Underway' /\ NothingMissed'
  BY DEF IInv, TypeOK, Fresh, Underway, NothingMissed, From, Crash, Goto, hashFile,
         store
<1> QED BY <1>2, <1>3 DEF IInv

LEMMA ClearStep == ASSUME IInv, NEW p \in Procs, Clear(p) PROVE IInv'
<1>1. TypeOK'
  BY DEF IInv, TypeOK, Clear, skillDir, hashFile, startup
<1>2. Fresh' /\ Underway' /\ NothingMissed'
  BY DEF IInv, TypeOK, Fresh, Underway, NothingMissed, From, Clear, hashFile, startup
<1> QED BY <1>1, <1>2 DEF IInv

-----------------------------------------------------------------------------
(* Requests leave the plans in the table alone, except that one adds to it. *)
LEMMA RequestStep ==
  ASSUME IInv, Idle, UNCHANGED <<exists, table, handle, excused>>,
         DOMAIN row' = DOMAIN row,
         \A e \in DOMAIN row : row'[e] \in Rows /\ row'[e].plan = row[e].plan,
         NEW r \in Requests, NEW state \in States, req' = [req EXCEPT ![r] = state],
         state.at \in {"counting", "planned", "storing"} => state.plan \in Plans,
         state.used \subseteq DOMAIN row
  PROVE  IInv'
<1>1. TypeOK'
  BY DEF IInv, TypeOK, Idle, skillDir, hashFile, startup
<1>2. \A e \in table : row'[e].plan = row[e].plan
  BY DEF IInv, TypeOK
<1>3. Fresh' /\ Underway' /\ NothingMissed'
  BY <1>2 DEF IInv, Fresh, Underway, NothingMissed, From, Idle, hashFile, startup
<1> QED BY <1>1, <1>3 DEF IInv

LEMMA MissStep ==
  ASSUME IInv, NEW r \in Requests, NEW p \in Procs, NEW s \in Skills, Miss(r, p, s)
  PROVE  IInv'
<1> DEFINE plan == [label |-> s, from |-> s, made |-> loaded[p][s]]
           state == [req[r] EXCEPT !.at = "planned", !.plan = plan]
<1>1. plan \in Plans
  BY DEF IInv, TypeOK, Hashes, Miss, Absent, Plans, Editions
<1>2. state \in States /\ state.plan = plan /\ state.used = req[r].used
  BY <1>1 DEF IInv, TypeOK, States
<1>3. req' = [req EXCEPT ![r] = state]
  BY DEF IInv, TypeOK, Miss
<1>4. UNCHANGED <<exists, table, row, handle, excused>> /\ Idle
  BY DEF Miss
<1> QED BY <1>1, <1>2, <1>3, <1>4, RequestStep DEF IInv, TypeOK

LEMMA MatchStep ==
  ASSUME IInv, NEW r \in Requests, NEW p \in Procs, NEW s \in Skills, Match(r, p, s)
  PROVE  IInv'
<1> DEFINE plan == [label |-> s, from |-> s, made |-> loaded[p][s]]
           update(e) == Update({e}, "hit_count", row[e].count["hit_count"] + 1)
           state(e) == [req[r] EXCEPT !.at = "counting", !.proc = {p}, !.used = {e},
                                      !.plan = plan, !.update = update(e)]
<1>1. plan \in Plans
  BY DEF IInv, TypeOK, Hashes, Match, Absent, Plans, Editions
<1>2. PICK e \in table : req' = [req EXCEPT ![r] = state(e)]
  <2>1. PICK e \in table :
          req' = [req EXCEPT
            ![r].at = "counting", ![r].proc = {p}, ![r].used = {e},
            ![r].plan = plan, ![r].update = update(e)]
    BY DEF Match
  <2> QED BY <2>1 DEF IInv, TypeOK
<1>3. update(e) \in Updates
  BY DEF IInv, TypeOK, Rows, Updates, Update, Columns
<1>4. state(e) \in States /\ state(e).plan = plan /\ state(e).used = {e}
  BY <1>1, <1>3 DEF IInv, TypeOK, States
<1>5. UNCHANGED <<exists, table, row, handle, excused>> /\ Idle
  BY DEF Match
<1> HIDE DEF state
<1> QED BY <1>1, <1>2, <1>4, <1>5, RequestStep DEF IInv, TypeOK

(* A counter update touches no plan. *)
LEMMA UpdateKeepsPlans ==
  ASSUME IInv, NEW r \in Requests, UpdateStats(r)
  PROVE  /\ DOMAIN row' = DOMAIN row
         /\ \A e \in DOMAIN row : row'[e] \in Rows /\ row'[e].plan = row[e].plan
<1>1. req[r].update.value \in Nat /\ req[r].update.column \in Columns
  BY DEF IInv, TypeOK, States, Updates
<1>2. CASE UNCHANGED row
  BY <1>2 DEF IInv, TypeOK
<1>3. CASE row' = Written(req[r].update)
  <2> DEFINE u == req[r].update
  <2>1. DOMAIN row' = DOMAIN row
        /\ \A e \in DOMAIN row : row'[e] \in {row[e], Counted(e, u)}
    BY <1>3 DEF Written
  <2>2. \A e \in DOMAIN row : row[e] \in Rows
    BY DEF IInv, TypeOK
  <2>3. \A e \in DOMAIN row : Counted(e, u) \in Rows /\ Counted(e, u).plan = row[e].plan
    BY <1>1, <2>2 DEF Rows, Counted
  <2> QED BY <2>1, <2>2, <2>3
<1> QED BY <1>2, <1>3 DEF UpdateStats

LEMMA CountHitStep == ASSUME IInv, NEW r \in Requests, CountHit(r) PROVE IInv'
<1> DEFINE cached(e) == [row[e].plan EXCEPT !.label = req[r].plan.label]
           hit(e) == [req[r] EXCEPT !.at = "planned", !.proc = {}, !.update = NoUpdate,
                                    !.plan = cached(e)]
           own == [req[r] EXCEPT !.at = "planned", !.proc = {}, !.update = NoUpdate,
                                 !.used = {}]
<1>1. NoUpdate \in Updates
  BY DEF NoUpdate, Update, Updates, Columns
<1>2. req[r].plan \in Plans /\ req[r].used \subseteq DOMAIN row /\ req[r] \in States
  BY DEF IInv, TypeOK, CountHit
<1>3. own \in States /\ own.plan \in Plans /\ own.used = {}
  BY <1>1, <1>2 DEF States
<1>4. \A e \in req[r].used : cached(e) \in Plans
  BY <1>2 DEF IInv, TypeOK, Rows, Plans
<1>5. \A e \in req[r].used :
        hit(e) \in States /\ hit(e).plan \in Plans /\ hit(e).used = req[r].used
  BY <1>1, <1>2, <1>4 DEF States
<1>6. PICK state \in {own} \cup {hit(e) : e \in req[r].used} :
        req' = [req EXCEPT ![r] = state]
  <2>1. CASE \E e \in req[r].used :
               req' = [req EXCEPT
                 ![r].at = "planned", ![r].proc = {}, ![r].update = NoUpdate,
                 ![r].plan = cached(e)]
    <3>1. PICK e \in req[r].used : req' = [req EXCEPT ![r] = hit(e)]
      BY <2>1 DEF IInv, TypeOK
    <3> QED BY <3>1
  <2>2. CASE req' = [req EXCEPT ![r].at = "planned", ![r].proc = {},
                                ![r].update = NoUpdate, ![r].used = {}]
    BY <2>2 DEF IInv, TypeOK
  <2> QED BY <2>1, <2>2 DEF CountHit
<1>7. state \in States /\ state.plan \in Plans /\ state.used \subseteq DOMAIN row
  BY <1>2, <1>3, <1>5
<1>8. UpdateStats(r) /\ Idle /\ UNCHANGED <<exists, table, handle, excused>>
  BY DEF CountHit
<1> QED BY <1>6, <1>7, <1>8, UpdateKeepsPlans, RequestStep

LEMMA ExecuteStep ==
  ASSUME IInv, NEW r \in Requests, NEW p \in Procs, Execute(r, p) PROVE IInv'
<1> DEFINE update(success) == Update({}, Column(success), 0)
           state(place, id, success) ==
             [req[r] EXCEPT !.at = place, !.proc = {p}, !.used = id,
                            !.update = update(success)]
<1>1. PICK place \in {"storing", "recording"}, success \in BOOLEAN,
           id \in {{}, req[r].used} :
        req' = [req EXCEPT ![r].at = place, ![r].proc = {p}, ![r].used = id,
                           ![r].update = update(success)]
  BY DEF Execute
<1>2. req' = [req EXCEPT ![r] = state(place, id, success)]
  BY <1>1 DEF IInv, TypeOK
<1>4. req[r] \in States /\ req[r].used \subseteq DOMAIN row
      /\ req[r].plan \in Plans
  BY DEF IInv, TypeOK, Execute
<1>5. update(success) \in Updates
  BY DEF Update, Column, Updates, Columns
<1>6. /\ state(place, id, success) \in States
      /\ state(place, id, success).plan \in Plans
      /\ state(place, id, success).used \subseteq DOMAIN row
  BY <1>4, <1>5 DEF States
<1>7. \A e \in DOMAIN row : row[e] \in Rows
  BY DEF IInv, TypeOK
<1>8. UNCHANGED <<exists, table, row, handle, excused>> /\ Idle
  BY DEF Execute
<1> HIDE DEF state
<1> QED BY <1>2, <1>6, <1>7, <1>8, RequestStep

LEMMA RecordingStep ==
  ASSUME IInv, NEW r \in Requests, StoreFails(r) \/ ReadOutcome(r) \/ WriteOutcome(r)
  PROVE  IInv'
<1>1. req[r] \in States /\ req[r].used \subseteq DOMAIN row
      /\ \A e \in DOMAIN row : row[e] \in Rows
  BY DEF IInv, TypeOK
<1>2. ASSUME UNCHANGED row, UNCHANGED <<exists, table, handle, excused>>, Idle,
             NEW state \in States, req' = [req EXCEPT ![r] = state],
             state.at \in {"recording", "writing", "ended"},
             state.used \subseteq DOMAIN row
      PROVE  IInv'
  BY <1>1, <1>2, RequestStep
<1>3. CASE StoreFails(r)
  <2> DEFINE state == [req[r] EXCEPT !.at = "recording"]
  <2>1. req' = [req EXCEPT ![r] = state]
    BY <1>3 DEF StoreFails, IInv, TypeOK
  <2>2. state \in States /\ state.at = "recording" /\ state.used = req[r].used
    BY <1>1 DEF States
  <2> HIDE DEF state
  <2> QED BY <1>1, <1>2, <1>3, <2>1, <2>2 DEF StoreFails
<1>4. CASE req' = [req EXCEPT ![r] = Ended] /\ (ReadOutcome(r) \/ WriteOutcome(r))
  <2>1. DOMAIN row' = DOMAIN row
        /\ \A e \in DOMAIN row : row'[e] \in Rows /\ row'[e].plan = row[e].plan
    BY <1>1, <1>4, UpdateKeepsPlans DEF ReadOutcome, WriteOutcome
  <2> QED BY <1>4, <2>1, EndedType, RequestStep DEF ReadOutcome, WriteOutcome
<1>5. CASE ReadOutcome(r) /\ req' # [req EXCEPT ![r] = Ended]
  <2> DEFINE update(e) == Update({e}, req[r].update.column,
                                 row[e].count[req[r].update.column] + 1)
             state(e) == [req[r] EXCEPT !.at = "writing", !.update = update(e)]
  <2>1. PICK e \in table : req' = [req EXCEPT ![r].at = "writing",
                                              ![r].update = update(e)]
    BY <1>5 DEF ReadOutcome, IInv, TypeOK, States
  <2>2. req' = [req EXCEPT ![r] = state(e)]
    BY <2>1 DEF IInv, TypeOK
  <2>3. update(e) \in Updates
    <3>1. row[e] \in Rows /\ e \in Entries
      BY DEF IInv, TypeOK
    <3>2. req[r].update.column \in Columns
      BY <1>1 DEF States, Updates
    <3>3. row[e].count[req[r].update.column] \in Nat
      BY <3>1, <3>2 DEF Rows
    <3> QED BY <3>1, <3>2, <3>3 DEF Updates, Update
  <2>4. state(e) \in States /\ state(e).at = "writing"
        /\ state(e).used = req[r].used
    BY <1>1, <2>3 DEF States
  <2> HIDE DEF state
  <2> QED BY <1>1, <1>2, <1>5, <2>2, <2>4 DEF ReadOutcome
<1> QED BY <1>3, <1>4, <1>5 DEF WriteOutcome

(* The one step that adds a fix.  Unless it escapes, no invalidation is     *)
(* under way and the fix is of the edition that is stored.                 *)
LEMMA StoreStep == ASSUME IInv, NEW r \in Requests, Store(r) PROVE IInv'
<1> DEFINE plan == req[r].plan
<1>1. plan \in Plans
  BY DEF IInv, TypeOK, Store
<1>2. PICK p \in Procs, e \in Entries \ DOMAIN row :
        /\ handle' = [handle EXCEPT ![p] = "open"]
        /\ row' = [x \in DOMAIN row \cup {e} |-> IF x = e THEN NewRow(plan) ELSE row[x]]
        /\ exists' = TRUE /\ table' = table \cup {e}
  <2>1. req[r].proc \subseteq Procs
    BY DEF IInv, TypeOK, States
  <2> QED BY <2>1 DEF Store
<1>3. NewRow(plan) \in Rows /\ NewRow(plan).plan = plan
  BY <1>1 DEF NewRow, Rows, Zero
<1>4. /\ DOMAIN row' = DOMAIN row \cup {e}
      /\ row'[e].plan = plan
      /\ \A x \in DOMAIN row : row'[x] = row[x]
      /\ \A x \in table : x \in DOMAIN row
  BY <1>2, <1>3 DEF IInv, TypeOK
<1>5. TypeOK'
  <2>1. \A x \in DOMAIN row' : row'[x] \in Rows
    BY <1>2, <1>3 DEF IInv, TypeOK
  <2>2. req' \in [Requests -> States]
        /\ \A q \in Requests :
             /\ req'[q].at \in {"counting", "planned", "storing"} => req'[q].plan \in Plans
             /\ req'[q].used \subseteq DOMAIN row'
    <3>1. \A q \in Requests : req'[q] = IF q = r THEN [req[r] EXCEPT !.at = "recording"]
                                                 ELSE req[q]
      BY DEF IInv, TypeOK, Store
    <3>2. [req[r] EXCEPT !.at = "recording"] \in States
          /\ [req[r] EXCEPT !.at = "recording"].used = req[r].used
          /\ [req[r] EXCEPT !.at = "recording"].at = "recording"
      BY DEF IInv, TypeOK, States
    <3>3. req' \in [Requests -> States]
      BY <3>2 DEF IInv, TypeOK, Store
    <3> QED BY <1>4, <3>1, <3>2, <3>3 DEF IInv, TypeOK
  <2>3. excused' \subseteq Skills
    BY <1>1 DEF IInv, TypeOK, Store, Plans
  <2> QED BY <1>2, <1>4, <2>1, <2>2, <2>3
       DEF IInv, TypeOK, Store, Idle, skillDir, hashFile, startup
<1>6. excused \subseteq excused'
  BY DEF Store
<1>7. plan.from \in excused' \/ ~Escapes(plan)
  BY DEF Store
<1>8. Idle
  BY DEF Store
<1>9. Fresh'
  BY <1>2, <1>4, <1>6, <1>7, <1>8 DEF IInv, Fresh, From, Escapes, Idle, hashFile
<1>10. Underway'
  BY <1>2, <1>4, <1>6, <1>7, <1>8
     DEF IInv, Underway, From, Escapes, StartingUp, Idle, startup
<1>11. NothingMissed'
  BY <1>2, <1>4, <1>6, <1>7, <1>8
     DEF IInv, TypeOK, NothingMissed, From, Escapes, StartingUp, Idle
<1> QED BY <1>5, <1>9, <1>10, <1>11 DEF IInv

-----------------------------------------------------------------------------
LEMMA StepIInv == IInv /\ [Next]_vars => IInv'
<1> SUFFICES ASSUME IInv, [Next]_vars PROVE IInv'
  OBVIOUS
<1>1. CASE UNCHANGED vars
  BY <1>1 DEF vars, skillDir, hashFile, store, startup, IInv, TypeOK, Fresh,
              Underway, NothingMissed, From
<1>2. ASSUME NEW s \in Skills, EditSkill(s) PROVE IInv'
  BY <1>2, EditStep
<1>3. ASSUME NEW p \in Procs, Start(p) \/ Crash(p) \/ Clear(p) PROVE IInv'
  BY <1>3, LoadStep, ConnectStep, ReadHashesStep, PurgeStep, StampStep,
     StampTearsStep, CrashStep, ClearStep DEF Start
<1>4. ASSUME NEW r \in Requests, Lookup(r) PROVE IInv'
  BY <1>4, MissStep, MatchStep, CountHitStep DEF Lookup
<1>5. ASSUME NEW r \in Requests, Executed(r) PROVE IInv'
  BY <1>5, ExecuteStep, StoreStep, RecordingStep DEF Executed
<1> QED BY <1>1, <1>2, <1>3, <1>4, <1>5, ExecutingAssumption DEF Next

LEMMA Invariance == Spec => []IInv
  BY InitIInv, StepIInv, PTL DEF Spec

(* All values stay within their types. *)
THEOREM TypeCorrect == Spec => []TypeOK
<1>1. IInv => TypeOK
  BY DEF IInv
<1> QED BY <1>1, Invariance, PTL

(* Startup invalidation leaves no stale fix behind, however often it is cut *)
(* short, except for the causes that are named.                            *)
THEOREM StaleFixesHaveACause == Spec => []StaleHasACause
<1>1. IInv => StaleHasACause
  BY DEF IInv, Fresh, StaleHasACause, From
<1> QED BY <1>1, Invariance, PTL

(* And it deletes no fix that is still good. *)
THEOREM OnlyStaleFixesArePurged == Spec => PurgesOnlyStale
<1> DEFINE Good == \A e \in table \ table' :
             \/ ~exists'
             \/ row[e].plan.from \in excused
             \/ \E p \in Procs : pc[p] = "purging"
                  /\ row[e].plan.made # run[p].cur[row[e].plan.from]
<1>1. ASSUME IInv, [Next]_vars PROVE [Good]_vars
  <2>1. ASSUME NEW p \in Procs, NEW s \in Skills, Purge(p, s) PROVE Good
    <3>1. \A e \in table \ table' : row[e].plan.label = s
      BY <2>1 DEF Purge
    <3>2. s \in Changed(run[p].old, run[p].cur) /\ pc[p] = "purging"
      BY <2>1, <1>1 DEF IInv, Underway, Purge, Advance
    <3> QED BY <1>1, <3>1, <3>2 DEF IInv, Fresh, Underway, From, Changed
  <2>2. CASE \E p \in Procs : Clear(p)
    BY <2>2 DEF Clear
  <2>3. CASE table \subseteq table'
    BY <2>3
  <2>4. CASE UNCHANGED vars
    BY <2>4, <2>3 DEF vars, store
  <2>5. ASSUME NEW s \in Skills, EditSkill(s) PROVE Good
    BY <2>3, <2>5 DEF EditSkill, store
  <2>6. ASSUME NEW p \in Procs, Start(p) \/ Crash(p) PROVE Good
    BY <2>1, <2>3, <2>6
       DEF Start, Load, Open, OpenFails, Connect, ReadHashes, PurgeFails, Stamp,
           StampTears, Crash, store
  <2>7. ASSUME NEW r \in Requests, Lookup(r) \/ Executed(r) PROVE Good
    BY <2>3, <2>7
       DEF Lookup, Executed, Miss, Match, CountHit, Execute, Store, StoreFails,
           ReadOutcome, WriteOutcome
  <2> HIDE DEF Good
  <2> QED BY <1>1, <2>2, <2>4, <2>5, <2>6, <2>7, ExecutingAssumption DEF Next
<1> QED BY <1>1, Invariance, PTL DEF Spec, PurgesOnlyStale

-----------------------------------------------------------------------------
(* Counters.  A request writes one more than a count it read, which is at   *)
(* most what was counted by then, and less than what is counted now.       *)
Tally ==
  \A e \in DOMAIN row, c \in Columns :
    /\ row[e].count[c] <= row[e].told[c]
    /\ row[e].told[c] > 0 => row[e].count[c] > 0

InFlight ==
  \A r \in Requests :
    req[r].at \in {"counting", "writing"} =>
      /\ req[r].update.value > 0
      /\ \A e \in req[r].update.id :
           /\ e \in DOMAIN row
           /\ req[r].update.value <= row[e].told[req[r].update.column] + 1

CInv == Tally /\ InFlight

(* What was counted for a row only grows, and rows are never taken back.    *)
ToldGrows ==
  \A e \in DOMAIN row :
    e \in DOMAIN row' /\ \A c \in Columns : row[e].told[c] <= row'[e].told[c]

(* So updates in flight stay in bounds whatever the others do. *)
LEMMA OthersInFlight ==
  ASSUME TypeOK, TypeOK', CInv, ToldGrows, NEW r \in Requests,
         \A q \in Requests \ {r} : req'[q] = req[q],
         req'[r].at \in {"counting", "writing"} =>
           /\ req'[r].update.value > 0
           /\ \A e \in req'[r].update.id :
                /\ e \in DOMAIN row
                /\ req'[r].update.value <= row[e].told[req'[r].update.column] + 1
  PROVE  InFlight'
<1> SUFFICES ASSUME NEW q \in Requests, req'[q].at \in {"counting", "writing"}
             PROVE  /\ req'[q].update.value > 0
                    /\ \A e \in req'[q].update.id :
                         /\ e \in DOMAIN row'
                         /\ req'[q].update.value
                              <= row'[e].told[req'[q].update.column] + 1
  BY DEF InFlight
<1>1. req'[q].update.value > 0
      /\ \A e \in req'[q].update.id :
           /\ e \in DOMAIN row
           /\ req'[q].update.value <= row[e].told[req'[q].update.column] + 1
  BY DEF CInv, InFlight
<1>2. req'[q].update.value \in Nat /\ req'[q].update.column \in Columns
  BY DEF TypeOK, States, Updates
<1>3. \A e \in DOMAIN row, c \in Columns :
        row[e].told[c] \in Nat /\ row'[e].told[c] \in Nat
  BY DEF TypeOK, Rows, ToldGrows
<1> QED BY <1>1, <1>2, <1>3 DEF ToldGrows

LEMMA Counting ==
  ASSUME TypeOK, CInv, NEW r \in Requests, UpdateStats(r),
         req[r].at \in {"counting", "writing"}
  PROVE  Tally' /\ ToldGrows
<1> DEFINE u == req[r].update
<1>1. u.value \in Nat /\ u.value > 0 /\ u.column \in Columns
  BY DEF CInv, InFlight, TypeOK, States, Updates
<1>2. \A e \in DOMAIN row, c \in Columns :
        row[e].told[c] \in Nat /\ row[e].count[c] \in Nat
  BY DEF TypeOK, Rows
<1>3. CASE UNCHANGED row
  BY <1>2, <1>3 DEF CInv, Tally, ToldGrows
<1>4. CASE row' = Written(u)
  <2>1. DOMAIN row' = DOMAIN row
    BY <1>4 DEF Written
  <2>2. \A e \in DOMAIN row : row[e] \in Rows
    BY DEF TypeOK
  <2>3. ASSUME NEW e \in DOMAIN row, NEW c \in Columns
        PROVE  /\ row[e].told[c] <= row'[e].told[c]
               /\ row'[e].count[c] <= row'[e].told[c]
               /\ row'[e].told[c] > 0 => row'[e].count[c] > 0
    <3>1. CASE row'[e] = row[e]
      BY <1>2, <3>1 DEF CInv, Tally
    <3>2. CASE row'[e] = Counted(e, u) /\ e \in u.id
      <4>1. row'[e].count[c] = IF c = u.column THEN u.value ELSE row[e].count[c]
        BY <2>2, <3>2 DEF Counted, Rows
      <4>2. row'[e].told[c] = IF c = u.column THEN row[e].told[c] + 1
                                              ELSE row[e].told[c]
        BY <2>2, <3>2 DEF Counted, Rows
      <4>3. c = u.column => u.value <= row[e].told[c] + 1
        BY <3>2 DEF CInv, InFlight
      <4> QED BY <1>1, <1>2, <4>1, <4>2, <4>3 DEF CInv, Tally
    <3> QED BY <1>4, <3>1, <3>2 DEF Written
  <2> QED BY <2>1, <2>3 DEF Tally, ToldGrows
<1> QED BY <1>3, <1>4 DEF UpdateStats

LEMMA Untouched ==
  ASSUME CInv, UNCHANGED row,
         \A q \in Requests : req'[q] = req[q] \/ req'[q].at \notin {"counting", "writing"}
  PROVE  CInv'
<1>1. Tally'
  BY DEF CInv, Tally
<1>2. ASSUME NEW q \in Requests, req'[q].at \in {"counting", "writing"}
      PROVE  /\ req'[q].update.value > 0
             /\ \A e \in req'[q].update.id :
                  /\ e \in DOMAIN row'
                  /\ req'[q].update.value <= row'[e].told[req'[q].update.column] + 1
  <2>1. req'[q] = req[q]
    BY <1>2
  <2> QED BY <1>2, <2>1 DEF CInv, InFlight
<1> QED BY <1>1, <1>2 DEF CInv, InFlight

(* Match and ReadOutcome read a count. *)
LEMMA Reading ==
  ASSUME TypeOK, TypeOK', CInv, UNCHANGED row, NEW r \in Requests,
         NEW e \in DOMAIN row, NEW c \in Columns,
         \A q \in Requests \ {r} : req'[q] = req[q],
         req'[r].update = Update({e}, c, row[e].count[c] + 1)
  PROVE  CInv'
<1>1. row[e].count[c] \in Nat /\ row[e].told[c] \in Nat
      /\ row[e].count[c] <= row[e].told[c]
  BY DEF TypeOK, Rows, CInv, Tally
<1>2. Tally' /\ ToldGrows
  BY DEF TypeOK, Rows, CInv, Tally, ToldGrows
<1>3. /\ req'[r].update.value > 0
      /\ \A x \in req'[r].update.id :
           /\ x \in DOMAIN row
           /\ req'[r].update.value <= row[x].told[req'[r].update.column] + 1
  BY <1>1 DEF Update
<1>4. InFlight'
  BY <1>2, <1>3, OthersInFlight
<1> QED BY <1>2, <1>4 DEF CInv

(* CountHit and WriteOutcome write one, and are done. *)
LEMMA Writing ==
  ASSUME TypeOK, TypeOK', CInv, NEW r \in Requests, UpdateStats(r),
         req[r].at \in {"counting", "writing"},
         \A q \in Requests \ {r} : req'[q] = req[q],
         req'[r].at \notin {"counting", "writing"}
  PROVE  CInv'
<1>1. Tally' /\ ToldGrows
  BY Counting
<1>2. InFlight'
  BY <1>1, OthersInFlight
<1> QED BY <1>1, <1>2 DEF CInv

LEMMA Storing == ASSUME TypeOK, TypeOK', CInv, NEW r \in Requests, Store(r) PROVE CInv'
<1>1. PICK e \in Entries \ DOMAIN row :
        row' = [x \in DOMAIN row \cup {e} |->
                  IF x = e THEN NewRow(req[r].plan) ELSE row[x]]
  BY DEF Store
<1>2. \A c \in Columns : NewRow(req[r].plan).count[c] = 0 /\ NewRow(req[r].plan).told[c] = 0
  BY DEF NewRow, Zero
<1>3. Tally'
  BY <1>1, <1>2 DEF CInv, Tally
<1>4. ToldGrows
  BY <1>1 DEF ToldGrows, TypeOK, Rows
<1>5. (\A q \in Requests \ {r} : req'[q] = req[q]) /\ req'[r].at = "recording"
  BY DEF Store, TypeOK, States
<1>6. InFlight'
  BY <1>4, <1>5, OthersInFlight
<1> QED BY <1>3, <1>6 DEF CInv

LEMMA StepCInv == TypeOK /\ TypeOK' /\ CInv /\ [Next]_vars => CInv'
<1> SUFFICES ASSUME TypeOK, TypeOK', CInv, [Next]_vars PROVE CInv'
  OBVIOUS
<1>1. CASE UNCHANGED <<row, req>>
  BY <1>1, Untouched
<1>2. ASSUME NEW p \in Procs, Crash(p) PROVE CInv'
  <2>1. \A q \in Requests : req'[q] = req[q] \/ req'[q].at = "ended"
    BY <1>2, EndedType DEF Crash
  <2> QED BY <1>2, <2>1, Untouched DEF Crash, store
<1>3. ASSUME NEW r \in Requests, Lookup(r) PROVE CInv'
  <2>1. ASSUME NEW p \in Procs, NEW s \in Skills, Miss(r, p, s) PROVE CInv'
    <3>1. \A q \in Requests : req'[q] = req[q] \/ req'[q].at = "planned"
      BY <2>1 DEF Miss, TypeOK, States
    <3> QED BY <2>1, <3>1, Untouched DEF Miss
  <2>2. ASSUME NEW p \in Procs, NEW s \in Skills, Match(r, p, s) PROVE CInv'
    <3> DEFINE update(e) == Update({e}, "hit_count", row[e].count["hit_count"] + 1)
    <3>1. PICK e \in table :
            req' = [req EXCEPT
              ![r].at = "counting", ![r].proc = {p}, ![r].used = {e},
              ![r].plan = [label |-> s, from |-> s, made |-> loaded[p][s]],
              ![r].update = update(e)]
      BY <2>2 DEF Match
    <3> HIDE DEF update
    <3>2. req'[r].update = update(e) /\ \A q \in Requests \ {r} : req'[q] = req[q]
      BY <3>1 DEF TypeOK, States
    <3> USE DEF update
    <3> QED BY <2>2, <3>2, Reading DEF Match, TypeOK, Columns
  <2>3. CASE CountHit(r)
    <3>1. req'[r].at = "planned" /\ \A q \in Requests \ {r} : req'[q] = req[q]
      BY <2>3 DEF CountHit, TypeOK, States
    <3> QED BY <2>3, <3>1, Writing DEF CountHit
  <2> QED BY <1>3, <2>1, <2>2, <2>3 DEF Lookup
<1>4. ASSUME NEW r \in Requests, Executed(r) PROVE CInv'
  <2>1. ASSUME NEW p \in Procs, Execute(r, p) PROVE CInv'
    <3>1. \A q \in Requests : req'[q] = req[q] \/ req'[q].at \in {"storing", "recording"}
      BY <2>1 DEF Execute, TypeOK, States
    <3> QED BY <2>1, <3>1, Untouched DEF Execute
  <2>2. CASE StoreFails(r)
    <3>1. \A q \in Requests : req'[q] = req[q] \/ req'[q].at = "recording"
      BY <2>2 DEF StoreFails, TypeOK, States
    <3> QED BY <2>2, <3>1, Untouched DEF StoreFails
  <2>3. CASE req' = [req EXCEPT ![r] = Ended] /\ ReadOutcome(r)
    <3>1. \A q \in Requests : req'[q] = req[q] \/ req'[q].at = "ended"
      BY <2>3, EndedType DEF TypeOK
    <3> QED BY <2>3, <3>1, Untouched DEF ReadOutcome
  <2>4. CASE req' # [req EXCEPT ![r] = Ended] /\ ReadOutcome(r)
    <3> DEFINE c == req[r].update.column
               update(e) == Update({e}, c, row[e].count[c] + 1)
    <3>1. PICK e \in table :
            req' = [req EXCEPT ![r].at = "writing", ![r].update = update(e)]
      BY <2>4 DEF ReadOutcome, TypeOK, States
    <3>2. c \in Columns
      BY DEF TypeOK, States, Updates
    <3> HIDE DEF c, update
    <3>3. req'[r].update = update(e) /\ \A q \in Requests \ {r} : req'[q] = req[q]
      BY <3>1 DEF TypeOK, States
    <3>4. UNCHANGED row /\ e \in DOMAIN row
      BY <2>4 DEF ReadOutcome, TypeOK
    <3> QED BY <3>2, <3>3, <3>4, Reading DEF update
  <2>5. CASE WriteOutcome(r)
    <3>1. req'[r].at = "ended" /\ \A q \in Requests \ {r} : req'[q] = req[q]
      BY <2>5, EndedType DEF WriteOutcome, TypeOK
    <3> QED BY <2>5, <3>1, Writing DEF WriteOutcome
  <2> QED BY <1>4, <2>1, <2>2, <2>3, <2>4, <2>5, Storing DEF Executed
<1>5. ASSUME NEW p \in Procs, Start(p) \/ Clear(p) PROVE CInv'
  BY <1>1, <1>5 DEF Start, Load, Open, OpenFails, Connect, ReadHashes, Purge, PurgeFails,
                    Advance, Stamp, StampTears, Clear, store
<1>6. ASSUME NEW s \in Skills, EditSkill(s) PROVE CInv'
  BY <1>1, <1>6 DEF EditSkill, store
<1>7. CASE UNCHANGED vars
  BY <1>1, <1>7 DEF vars, store
<1> QED BY <1>2, <1>3, <1>4, <1>5, <1>6, <1>7, ExecutingAssumption DEF Next

(* Concurrent lookups and outcomes lose updates of a counter, but it never  *)
(* shows more than was counted, nor zero once something was.               *)
THEOREM CountersStayPlausible == Spec => []CountsStayPlausible
<1>1. Init => CInv
  <2> SUFFICES ASSUME Init PROVE CInv
    OBVIOUS
  <2>1. \A e \in DOMAIN row : row[e].count = Zero /\ row[e].told = Zero
    BY DEF Init, NewRow
  <2>2. Tally
    BY <2>1 DEF Tally, Zero
  <2>3. InFlight
    BY DEF Init, InFlight, NewRequest
  <2> QED BY <2>2, <2>3 DEF CInv
<1>2. TypeOK /\ CInv => CountsStayPlausible
  BY DEF TypeOK, CInv, Tally, CountsStayPlausible
<1>3. Spec => []CInv
  BY <1>1, StepCInv, TypeCorrect, PTL DEF Spec
<1> QED BY <1>2, <1>3, TypeCorrect, PTL
=============================================================================
