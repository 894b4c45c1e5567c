------------------------------ MODULE FixCache ------------------------------
(***************************************************************************)
(* The cache of fixes that worked: lookups of the pipeline, rows stored    *)
(* and outcomes recorded by POST /execute, and the purge, at each start of *)
(* a process, of the fixes of skills whose file has changed.               *)
(*                                                                         *)
(* Processes share the LanceDB table and the file of skill hashes; each    *)
(* has its own connection and the skills it loaded when it started.  An    *)
(* edition of a skill file stands for its content, and so for its hash.    *)
(***************************************************************************)
EXTENDS Naturals, FiniteSets

CONSTANTS
  Procs,        \* server and command line processes of one directory
  Skills,       \* names of skills, which are the names of their files
  Entries,      \* row ids (randomUUID)
  Requests,     \* prompts
  Executing,    \* those whose plan the client executes
  Seed,         \* rows left by earlier runs
  MaxEdition,   \* bound: editions of a skill file
  MaxEdits,     \* bound: changes of skill files
  MaxStarts     \* bound: starts of processes

ASSUME SeedAssumption == Seed \subseteq Entries
ASSUME ExecutingAssumption == Executing \subseteq Requests
ASSUME EditionAssumption == MaxEdition \in Nat \ {0}
ASSUME BoundsAssumption == MaxEdits \in Nat /\ MaxStarts \in Nat

VARIABLES
  skillFile,    \* edition of each skill file, Absent if there is none
  hashes,       \* editions in skill-hashes.json when last completely written
  torn,         \* skill-hashes.json is no longer JSON
  exists,       \* the LanceDB table exists
  table,        \* ids of its rows
  row,          \* what each id holds or held
  pc,           \* where each process is
  handle,       \* its CacheStore: unconnected, connected, table opened
  loaded,       \* editions in its SkillRegistry
  run,          \* locals of runStartupInvalidation
  req,          \* state of each request
  edits,        \* number of edits of skill files
  starts,       \* number of process starts
  excused       \* history: skills whose fixes may outlive their edition

skillDir == <<skillFile, edits>>
hashFile == <<hashes, torn>>
store == <<exists, table, row>>
startup == <<loaded, run, starts>>
vars == <<skillDir, hashFile, store, startup, pc, handle, req, excused>>

Absent == 0
Editions == 1..MaxEdition
Hashes == [Skills -> 0..MaxEdition]

(* A plan is kept under a label, its skill_name.  History: the skill and    *)
(* the edition its diagnosis was made with.                                *)
Plans == [label : Skills, from : Skills, made : Editions]
NoPlan == [label |-> "none"]

Columns == {"hit_count", "success_count", "fail_count"}
Zero == [c \in Columns |-> 0]

(* A row, with the history of the updates of each counter that succeeded. *)
NewRow(plan) == [plan |-> plan, count |-> Zero, told |-> Zero]

(* The counter update of a request: a value computed from one read before. *)
Update(ids, column, value) == [id |-> ids, column |-> column, value |-> value]
NoUpdate == Update({}, "hit_count", 0)

(* used: the cached row that the request was answered with. *)
NewRequest == [at |-> "new", proc |-> {}, plan |-> NoPlan, used |-> {},
               update |-> NoUpdate]

Ended == [NewRequest EXCEPT !.at = "ended"]

Nothing == [s \in Skills |-> Absent]
NoRun == [old |-> Nothing, cur |-> Nothing, todo |-> {}]

Changed(old, new) ==
  {s \in Skills : old[s] # Absent /\ new[s] # Absent /\ old[s] # new[s]}

Init ==
  /\ skillFile = [s \in Skills |-> 1]
  /\ hashes = [s \in Skills |-> 1]
  /\ torn = FALSE
  /\ exists = (Seed # {})
  /\ table = Seed
  /\ \E label \in [Seed -> Skills] :
       row = [e \in Seed |->
                NewRow([label |-> label[e], from |-> label[e], made |-> 1])]
  /\ pc = [p \in Procs |-> "down"]
  /\ handle = [p \in Procs |-> "unconnected"]
  /\ loaded = [p \in Procs |-> Nothing]
  /\ run = [p \in Procs |-> NoRun]
  /\ req = [r \in Requests |-> NewRequest]
  /\ edits = 0 /\ starts = 0
  /\ excused = {}

-----------------------------------------------------------------------------
(* The skill files, edited by hand at any time.                            *)

EditSkill(s) ==
  /\ edits < MaxEdits
  /\ edits' = edits + 1
  /\ \E edition \in 0..MaxEdition :
       /\ edition # skillFile[s]
       /\ skillFile' = [skillFile EXCEPT ![s] = edition]
  /\ UNCHANGED <<hashFile, store, startup, pc, handle, req, excused>>

-----------------------------------------------------------------------------
(* Start of a process: load the skills, open the store, purge.             *)

Goto(p, place) == pc' = [pc EXCEPT ![p] = place]

Load(p) ==
  /\ pc[p] = "down" /\ starts < MaxStarts
  /\ starts' = starts + 1
  /\ loaded' = [loaded EXCEPT ![p] = skillFile]
  /\ Goto(p, "opening")
  /\ UNCHANGED <<skillDir, hashFile, store, run, handle, req, excused>>

Connect(p, state, place) ==
  /\ pc[p] = "opening"
  /\ handle' = [handle EXCEPT ![p] = state]
  /\ Goto(p, place)
  /\ UNCHANGED <<skillDir, hashFile, store, startup, req, excused>>

(* _doInit opens the table if there is one. *)
Open(p) == Connect(p, IF exists THEN "open" ELSE "connected", "opened")

(* _doInit throws before or after it has set the connection: the process   *)
(* runs on without invalidation.  The rejected promise is kept, so init is *)
(* never tried again, unless the connection makes it return at once.       *)
OpenFails(p) ==
  \E state \in {"unconnected", "connected"} : Connect(p, state, "up")

(* runStartupInvalidation up to its first await: JSON.parse of the hashes  *)
(* throws, or the skills to purge are known.  The loop purges them one by  *)
(* one, awaiting each deletion.                                            *)
ReadHashes(p) ==
  /\ pc[p] = "opened"
  /\ IF torn
       THEN Goto(p, "up") /\ UNCHANGED run
       ELSE /\ run' = [run EXCEPT ![p] = [old |-> hashes, cur |-> skillFile,
                                          todo |-> Changed(hashes, skillFile)]]
            /\ Goto(p, "purging")
  /\ UNCHANGED <<skillDir, hashFile, store, loaded, starts, handle, req, excused>>

Advance(p, s) ==
  /\ pc[p] = "purging" /\ s \in run[p].todo
  /\ run' = [run EXCEPT ![p].todo = @ \ {s}]
  /\ UNCHANGED <<skillDir, hashFile, exists, row, loaded, starts, pc, handle, req>>

(* deleteBySkill: without an open table there is nothing to delete.        *)
Purge(p, s) ==
  /\ IF handle[p] = "open"
       THEN exists /\ table' = {e \in table : row[e].plan.label # s}
       ELSE UNCHANGED table
  /\ Advance(p, s)
  /\ UNCHANGED excused

(* Its result is ignored: a deletion that fails is followed by the next one *)
(* and, in the end, by the new hashes.                                     *)
PurgeFails(p, s) ==
  /\ excused' = excused \cup {s}
  /\ Advance(p, s)
  /\ UNCHANGED table

(* Mutant: the hashes are written before the entries are deleted. *)
StampEarly(p) ==
  /\ pc[p] = "purging"
  /\ hashes' = run[p].cur /\ torn' = FALSE
  /\ excused' = excused \cup {s \in Skills : run[p].cur[s] = Absent}
  /\ pc' = [pc EXCEPT ![p] = IF run[p].todo = {} THEN "up" ELSE "purging"]
  /\ UNCHANGED <<skillDir, store, startup, handle, req>>

(* The new hashes are written.  The hash of a file that is gone is          *)
(* forgotten with it.                                                      *)
Stamp(p) ==
  /\ pc[p] = "purging" /\ run[p].todo = {}
  /\ hashes' = run[p].cur /\ torn' = FALSE
  /\ excused' = excused \cup {s \in Skills : run[p].cur[s] = Absent}
  /\ run' = [run EXCEPT ![p] = NoRun]
  /\ Goto(p, "up")
  /\ UNCHANGED <<skillDir, store, loaded, starts, handle, req>>

(* writeFileSync truncates the file and then writes it: the disk is full,  *)
(* or the process dies in between.                                         *)
StampTears(p) ==
  /\ pc[p] = "purging" /\ run[p].todo = {}
  /\ torn' = TRUE
  /\ run' = [run EXCEPT ![p] = NoRun]
  /\ Goto(p, "up")
  /\ UNCHANGED <<skillDir, hashes, store, loaded, starts, handle, req, excused>>

(* Some process is between opening the table and writing the hashes. *)
StartingUp == \E p \in Procs : pc[p] \in {"opened", "purging"}

(* A process dies, and its requests with it; the clients keep their plans.  *)
Crash(p) ==
  /\ pc[p] # "down"
  /\ Goto(p, "down")
  /\ handle' = [handle EXCEPT ![p] = "unconnected"]
  /\ loaded' = [loaded EXCEPT ![p] = Nothing]
  /\ run' = [run EXCEPT ![p] = NoRun]
  /\ req' = [r \in Requests |-> IF p \in req[r].proc THEN Ended ELSE req[r]]
  /\ UNCHANGED <<skillDir, hashFile, store, starts, excused>>

(* "infrabrain cache clear". *)
Clear(p) ==
  /\ pc[p] = "up" /\ handle[p] = "open" /\ exists
  /\ exists' = FALSE /\ table' = {}
  /\ handle' = [handle EXCEPT ![p] = "connected"]
  /\ UNCHANGED <<skillDir, hashFile, row, startup, pc, req, excused>>

-----------------------------------------------------------------------------
(* Requests.  Whatever the store is asked to do may fail, and then counts   *)
(* as a miss or is dropped.                                                *)

Idle == UNCHANGED <<skillDir, hashFile, startup, pc>>

TableOpen(p) == handle[p] = "open" /\ exists

(* checkCache found nothing near, or failed; or noCache was asked for: the  *)
(* pipeline diagnoses with the skill it selected.                          *)
Miss(r, p, s) ==
  /\ req[r].at = "new" /\ pc[p] = "up" /\ loaded[p][s] # Absent
  /\ req' = [req EXCEPT ![r].at = "planned",
                        ![r].plan = [label |-> s, from |-> s, made |-> loaded[p][s]]]
  /\ Idle /\ UNCHANGED <<exists, table, row, handle, excused>>

(* The nearest row, whatever its label, is near enough. *)
Match(r, p, s) ==
  /\ req[r].at = "new" /\ pc[p] = "up" /\ loaded[p][s] # Absent
  /\ TableOpen(p)
  /\ \E e \in table :
       req' = [req EXCEPT
         ![r].at = "counting", ![r].proc = {p}, ![r].used = {e},
         ![r].plan = [label |-> s, from |-> s, made |-> loaded[p][s]],
         ![r].update = Update({e}, "hit_count", row[e].count["hit_count"] + 1)]
  /\ Idle /\ UNCHANGED <<exists, table, row, handle, excused>>

(* Mutant: the whole row is written, with zeros where nothing was given. *)
CountedWhole(e, u) ==
  [plan |-> row[e].plan,
   count |-> [Zero EXCEPT ![u.column] = u.value],
   told |-> [row[e].told EXCEPT ![u.column] = @ + 1]]

(* updateStats: one column is set in the row with the id, if it is there.  *)
Counted(e, u) ==
  [plan |-> row[e].plan,
   count |-> [row[e].count EXCEPT ![u.column] = u.value],
   told |-> [row[e].told EXCEPT ![u.column] = @ + 1]]

Written(u) ==
  [e \in DOMAIN row |-> IF e \in u.id \cap table THEN Counted(e, u) ELSE row[e]]

UpdateStats(r) ==
  \/ /\ \E p \in req[r].proc : TableOpen(p)
     /\ row' = Written(req[r].update)
  \/ UNCHANGED row

(* Fast path: the answer is the cached plan, under the name of the skill    *)
(* selected for the new prompt.  Speculative, or refused by the client: the *)
(* pipeline diagnoses as if it had missed.                                 *)
CountHit(r) ==
  /\ req[r].at = "counting"
  /\ UpdateStats(r)
  /\ \/ \E e \in req[r].used :
          req' = [req EXCEPT
            ![r].at = "planned", ![r].proc = {}, ![r].update = NoUpdate,
            ![r].plan = [row[e].plan EXCEPT !.label = req[r].plan.label]]
     \/ req' = [req EXCEPT
          ![r].at = "planned", ![r].proc = {}, ![r].update = NoUpdate, ![r].used = {}]
  /\ Idle /\ UNCHANGED <<exists, table, handle, excused>>

Column(success) == IF success THEN "success_count" ELSE "fail_count"

(* POST /execute, on whatever process runs by then.  The outcome chooses    *)
(* what is done with the cache: store the fix and count a success, or count *)
(* a failure.  The caller may leave out skillName, or cacheEntryId.         *)
Execute(r, p) ==
  /\ req[r].at = "planned" /\ pc[p] = "up"
  /\ \E place \in {"storing", "recording"}, success \in BOOLEAN,
        id \in {{}, req[r].used} :
       /\ place = "storing" => success
       /\ req' = [req EXCEPT
            ![r].at = place, ![r].proc = {p}, ![r].used = id,
            ![r].update = Update({}, Column(success), 0)]
  /\ Idle /\ UNCHANGED <<exists, table, row, handle, excused>>

(* A fix stored in any of these ways escapes the comparison of the hashes:  *)
(* it is filed under another skill than it was made with; it was made with  *)
(* another edition than the stored one; a process is about to store hashes. *)
Escapes(plan) ==
  \/ plan.label # plan.from
  \/ plan.made # hashes[plan.from]
  \/ StartingUp

(* add: into the open table, or into one it creates.                       *)
Store(r) ==
  /\ req[r].at = "storing"
  /\ \E p \in req[r].proc, e \in Entries \ DOMAIN row :
       /\ TableOpen(p) \/ (handle[p] = "connected" /\ ~exists)
       /\ handle' = [handle EXCEPT ![p] = "open"]
       /\ row' = [x \in DOMAIN row \cup {e} |->
                    IF x = e THEN NewRow(req[r].plan) ELSE row[x]]
       /\ exists' = TRUE /\ table' = table \cup {e}
  /\ excused' = IF Escapes(req[r].plan) THEN excused \cup {req[r].plan.from}
                                        ELSE excused
  /\ req' = [req EXCEPT ![r].at = "recording"]
  /\ Idle

(* The embedding is not available, or add fails. *)
StoreFails(r) ==
  /\ req[r].at = "storing"
  /\ req' = [req EXCEPT ![r].at = "recording"]
  /\ Idle /\ UNCHANGED <<exists, table, row, handle, excused>>

(* recordFixOutcome: getById. *)
ReadOutcome(r) ==
  /\ req[r].at = "recording"
  /\ \/ req' = [req EXCEPT ![r] = Ended]
     \/ \E p \in req[r].proc, e \in req[r].used \cap table :
          /\ TableOpen(p)
          /\ req' = [req EXCEPT
               ![r].at = "writing",
               ![r].update = Update({e}, @.column, row[e].count[@.column] + 1)]
  /\ Idle /\ UNCHANGED <<exists, table, row, handle, excused>>

WriteOutcome(r) ==
  /\ req[r].at = "writing"
  /\ UpdateStats(r)
  /\ req' = [req EXCEPT ![r] = Ended]
  /\ Idle /\ UNCHANGED <<exists, table, handle, excused>>

-----------------------------------------------------------------------------
Start(p) ==
  \/ Load(p) \/ Open(p) \/ OpenFails(p) \/ ReadHashes(p)
  \/ \E s \in Skills : Purge(p, s) \/ PurgeFails(p, s)
  \/ Stamp(p) \/ StampTears(p)

Lookup(r) ==
  \/ \E p \in Procs, s \in Skills : Miss(r, p, s) \/ Match(r, p, s)
  \/ CountHit(r)

Executed(r) ==
  \/ \E p \in Procs : Execute(r, p)
  \/ Store(r) \/ StoreFails(r) \/ ReadOutcome(r) \/ WriteOutcome(r)

Next ==
  \/ \E s \in Skills : EditSkill(s)
  \/ \E p \in Procs : Start(p) \/ Crash(p) \/ Clear(p)
  \/ \E r \in Requests : Lookup(r)
  \/ \E r \in Executing : Executed(r)

Spec == Init /\ [][Next]_vars

-----------------------------------------------------------------------------
Rows == [plan : Plans, count : [Columns -> Nat], told : [Columns -> Nat]]
Runs == [old : Hashes, cur : Hashes, todo : SUBSET Skills]
Updates == [id : SUBSET Entries, column : Columns, value : Nat]
States == [at : {"new", "counting", "planned", "storing", "recording", "writing",
                 "ended"},
           proc : SUBSET Procs, plan : Plans \cup {NoPlan},
           used : SUBSET Entries, update : Updates]

TypeOK ==
  /\ skillFile \in Hashes /\ hashes \in Hashes /\ torn \in BOOLEAN
  /\ exists \in BOOLEAN
  /\ table \subseteq DOMAIN row /\ DOMAIN row \subseteq Entries
  /\ ~exists => table = {}
  /\ \A e \in DOMAIN row : row[e] \in Rows
  /\ pc \in [Procs -> {"down", "opening", "opened", "purging", "up"}]
  /\ handle \in [Procs -> {"unconnected", "connected", "open"}]
  /\ loaded \in [Procs -> Hashes]
  /\ run \in [Procs -> Runs]
  /\ req \in [Requests -> States]
  /\ \A r \in Requests :
       /\ req[r].at \in {"counting", "planned", "storing"} => req[r].plan \in Plans
       /\ req[r].used \subseteq DOMAIN row
  /\ edits \in 0..MaxEdits /\ starts \in 0..MaxStarts
  /\ excused \subseteq Skills

(* A process that loaded the editions last recorded serves no fix that was  *)
(* made with another edition, unless a purge of the skill failed, its file  *)
(* was missing at a start, or one of its fixes was stored in a way that     *)
(* escapes the comparison.  Crashes, and purges cut short, are no excuse.   *)
StaleHasACause ==
  \A p \in Procs, e \in table :
    pc[p] = "up" /\ loaded[p] = hashes =>
      \/ row[e].plan.made = loaded[p][row[e].plan.from]
      \/ row[e].plan.from \in excused

(* Only "cache clear", and the purge of a fix whose skill has indeed another *)
(* edition by then, take a fix out of the cache.                           *)
PurgesOnlyStale ==
  [][\A e \in table \ table' :
       \/ ~exists'
       \/ row[e].plan.from \in excused
       \/ \E p \in Procs : pc[p] = "purging" /\ row[e].plan.made # run[p].cur[row[e].plan.from]]_vars

(* Lookups and outcomes that overlap lose each other's updates, but no      *)
(* counter ever shows more than was counted, nor nothing if something was.  *)
CountsStayPlausible ==
  \A e \in table, c \in Columns :
    /\ row[e].count[c] <= row[e].told[c]
    /\ row[e].told[c] > 0 => row[e].count[c] > 0

=============================================================================
