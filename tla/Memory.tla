-------------------------------- MODULE Memory --------------------------------
(***************************************************************************)
(* The memory of past incidents: POST /execute files an incident and its    *)
(* entities after a plan that completed (api/routes/execute.ts), each        *)
(* mutation logged first (memory/wal.ts), in two LanceDB stores that open   *)
(* lazily (incident-store.ts, entity-store.ts), and the wake-up of a debug   *)
(* request reads them (wake-up.ts, memory-search.ts).                       *)
(*                                                                         *)
(* Requests of one process share its two store objects and come in between  *)
(* wherever one awaits.  The log and the tables outlive the process.        *)
(***************************************************************************)
EXTENDS Naturals, Sequences, FiniteSets, SequencesExt

CONSTANTS
  Filings,       \* /execute requests whose plan completed
  Readers,       \* debug requests
  Old,           \* a row that an earlier process filed
  NumEntities,   \* entities of an incident
  MaxWal,        \* entries at which the log rotates (10 MB in the code)
  MaxFaults,     \* bound on operations that fail
  MaxRestarts

ASSUME MemoryAssumption ==
  /\ NumEntities \in Nat /\ MaxWal \in Nat \ {0}
  /\ MaxFaults \in Nat /\ MaxRestarts \in Nat
  /\ Old \notin Filings \X (0..NumEntities)

VARIABLES
  exists,        \* is there a table mem_incidents, mem_entities?
  rows,
  handle,        \* the IncidentStore and the EntityStore of this process
  wal, rotated,  \* memory.wal.jsonl and memory.wal.1.jsonl
  filing,        \* where each filing is, and at which row: 0 is the incident
  reader,
  seen,          \* what each debug request found
  faults, restarts,
  dropped,       \* history: log entries rotated away
  unlogged,      \* history: rows whose log entry could not be written
  missable,      \* history: rows there when a debug request began
  excused        \* history: whose rows may be missed, and why: see Excuse

disk == <<exists, rows, wal, rotated, dropped, unlogged>>
walVars == <<wal, rotated, dropped, unlogged>>
readVars == <<reader, seen, missable>>
bounds == <<faults, restarts>>
vars == <<disk, handle, filing, readVars, bounds, excused>>

Store == {"incident", "entity"}
Row == (Filings \X (0..NumEntities)) \cup {Old}

(* conn: this.connection is set; init: this.initPromise; open: this.table   *)
(* is set; at: where _doInit is.                                           *)
Handle == [conn : BOOLEAN, init : {"none", "running", "done", "rejected"},
           at : {"off", "connect", "list", "open"}, open : BOOLEAN]
NewHandle == [conn |-> FALSE, init |-> "none", at |-> "off", open |-> FALSE]

Filing == [at : {"idle", "embedding", "waiting", "creating", "inserting", "ended"},
           k : 0..NumEntities]
Reader == [at : {"idle", "waiting", "ended"}, st : Store]
NewReader == [at |-> "idle", st |-> "incident"]

Init ==
  /\ \E there \in BOOLEAN :
       /\ exists = [st \in Store |-> there]
       /\ rows = [st \in Store |-> IF there THEN {Old} ELSE {}]
  /\ handle = [st \in Store |-> NewHandle]
  /\ wal = <<>> /\ rotated = <<>>
  /\ filing = [f \in Filings |-> [at |-> "idle", k |-> 0]]
  /\ reader = [r \in Readers |-> NewReader]
  /\ seen = [r \in Readers |-> {}]
  /\ faults = 0 /\ restarts = 0
  /\ dropped = {} /\ unlogged = {} /\ missable = [r \in Readers |-> {}] /\ excused = {}

StoreOf(f) == IF filing[f].k = 0 THEN "incident" ELSE "entity"
RowOf(f) == <<f, filing[f].k>>

-----------------------------------------------------------------------------
(* The lazy stores. *)

(* init: a connection is enough to go on, opened table or not; otherwise    *)
(* the one initPromise is awaited, also when it was rejected long ago.      *)
Awaits(st) == ~handle[st].conn

CallInit(st) ==
  handle' = IF Awaits(st) /\ handle[st].init = "none"
            THEN [handle EXCEPT ![st].init = "running", ![st].at = "connect"]
            ELSE handle

Fault == faults < MaxFaults /\ faults' = faults + 1

Connected(st) ==
  /\ handle[st].at = "connect"
  /\ handle' = [handle EXCEPT ![st].conn = TRUE, ![st].at = "list"]
  /\ UNCHANGED <<disk, filing, readVars, bounds, excused>>

(* Mutant: an existing table is left for the first add. *)
ListedOnly(st) ==
  /\ handle[st].at = "list"
  /\ handle' = [handle EXCEPT ![st].at = "off", ![st].init = "done"]
  /\ UNCHANGED <<disk, filing, readVars, bounds, excused>>

Listed(st) ==
  /\ handle[st].at = "list"
  /\ handle' = IF exists[st] THEN [handle EXCEPT ![st].at = "open"]
               ELSE [handle EXCEPT ![st].at = "off", ![st].init = "done"]
  /\ UNCHANGED <<disk, filing, readVars, bounds, excused>>

Opened(st) ==
  /\ handle[st].at = "open"
  /\ handle' = [handle EXCEPT ![st].open = TRUE, ![st].at = "off", ![st].init = "done"]
  /\ UNCHANGED <<disk, filing, readVars, bounds, excused>>

InitThrows(st) ==
  /\ handle[st].at # "off"
  /\ Fault
  /\ handle' = [handle EXCEPT ![st].at = "off", ![st].init = "rejected"]
  /\ UNCHANGED <<disk, filing, readVars, restarts, excused>>

Settled(st) == handle[st].init \in {"done", "rejected"}

(* Those that are creating a table. *)
Creating(st) == {f \in Filings : filing[f].at = "creating" /\ StoreOf(f) = st}

(* What excuses who comes to a store, and those who create its table then:  *)
(* it has a connection and no table yet and is about to get one, or its     *)
(* init was rejected.                                                      *)
Excuse(st) ==
  \/ handle[st].conn /\ ~handle[st].open /\ (handle[st].at # "off" \/ Creating(st) # {})
  \/ handle[st].init = "rejected"

Come(x, st) ==
  excused' = IF Excuse(st) THEN excused \cup {x} \cup Creating(st) ELSE excused

-----------------------------------------------------------------------------
(* The log. *)

(* The rename replaces the file rotated before. *)
Rotate == rotated' = wal /\ dropped' = dropped \cup ToSet(rotated)

(* Mutant: one entry more than the limit. *)
LoggedLate(row) ==
  /\ IF Len(wal) > MaxWal
     THEN Rotate /\ wal' = <<row>>
     ELSE /\ wal' = Append(wal, row)
          /\ UNCHANGED <<rotated, dropped>>
  /\ UNCHANGED unlogged

(* MemoryWAL.append: rotate when it is long, then append. *)
Logged(row) ==
  /\ IF Len(wal) >= MaxWal
     THEN Rotate /\ wal' = <<row>>
     ELSE /\ wal' = Append(wal, row)
          /\ UNCHANGED <<rotated, dropped>>
  /\ UNCHANGED unlogged

(* The rename fails, which is ignored; or the append fails, after a rename or *)
(* without one.                                                            *)
LoggedAnyway(row) ==
  Len(wal) >= MaxWal /\ wal' = Append(wal, row) /\ UNCHANGED <<rotated, dropped, unlogged>>

NotLogged(row) ==
  /\ \/ Len(wal) >= MaxWal /\ Rotate /\ wal' = <<>>
     \/ UNCHANGED <<wal, rotated, dropped>>
  /\ unlogged' = unlogged \cup {row}

(* It never throws: the mutation goes on without its entry.  n: what failed *)
(* before in the same step.                                                *)
Log(row, n) ==
  \/ Logged(row) /\ faults' = faults + n
  \/ /\ faults + n < MaxFaults /\ faults' = faults + n + 1
     /\ LoggedAnyway(row) \/ NotLogged(row)

LogNothing(n) == faults' = faults + n /\ UNCHANGED walVars

-----------------------------------------------------------------------------
(* Filing. *)

Move(f, at) == filing' = [filing EXCEPT ![f].at = at]

StartFiling(f) ==
  /\ filing[f].at = "idle"
  /\ Move(f, "embedding")
  /\ UNCHANGED <<disk, handle, readVars, bounds, excused>>

(* add, once ensureReady has returned: this.table decides. *)
AddTo(st) == IF handle[st].open THEN "inserting" ELSE "creating"

(* The store's add: a filing that needs no wait goes straight on. *)
CallAdd(f) ==
  LET st == StoreOf(f) IN
  /\ Move(f, IF Awaits(st) THEN "waiting" ELSE AddTo(st))
  /\ CallInit(st)
  /\ Come(f, st)

(* Mutant: the incident is logged after it is stored, if at all. *)
EmbeddedUnlogged(f) ==
  /\ filing[f].at = "embedding"
  /\ CallAdd(f)
  /\ UNCHANGED <<disk, readVars, bounds>>

(* The vector is there.  The log entry of the incident is written now, that *)
(* of an entity was written before its embedding.                          *)
Embedded(f) ==
  /\ filing[f].at = "embedding"
  /\ IF filing[f].k = 0 THEN Log(RowOf(f), 0) ELSE LogNothing(0)
  /\ CallAdd(f)
  /\ UNCHANGED <<exists, rows, readVars, restarts>>

(* The next entity: its log entry, then its embedding. *)
NextEntity(f, n) ==
  IF filing[f].k < NumEntities
  THEN /\ filing' = [filing EXCEPT ![f] = [at |-> "embedding", k |-> @.k + 1]]
       /\ Log(<<f, filing[f].k + 1>>, n)
  ELSE Move(f, "ended") /\ LogNothing(n)

(* Mutant: the entities are filed although the incident was not. *)
GiveUpAnyway(f, n) == NextEntity(f, n)

(* A row that is not stored: without its incident the entities are not      *)
(* filed, without an entity the next one is.                               *)
GiveUp(f, n) ==
  IF filing[f].k = 0 THEN Move(f, "ended") /\ LogNothing(n) ELSE NextEntity(f, n)

(* No vector, as the model cannot be reached; or add throws and returns     *)
(* null.                                                                   *)
Fails(f) ==
  /\ filing[f].at \in {"embedding", "inserting", "creating"} /\ faults < MaxFaults
  /\ GiveUp(f, 1)
  /\ excused' = excused \cup {f}
  /\ UNCHANGED <<exists, rows, handle, readVars, restarts>>

(* Its init has settled: it goes on, or add returns null. *)
AddContinues(f) ==
  /\ filing[f].at = "waiting" /\ handle[StoreOf(f)].init = "done"
  /\ Move(f, AddTo(StoreOf(f)))
  /\ Come(f, StoreOf(f))
  /\ UNCHANGED <<disk, handle, readVars, bounds>>

AddRejected(f) ==
  /\ filing[f].at = "waiting" /\ handle[StoreOf(f)].init = "rejected"
  /\ GiveUp(f, 0)
  /\ Come(f, StoreOf(f))
  /\ UNCHANGED <<exists, rows, handle, readVars, restarts>>

Stored(f) == rows' = [rows EXCEPT ![StoreOf(f)] = @ \cup {RowOf(f)}]

Inserted(f) ==
  /\ filing[f].at = "inserting"
  /\ Stored(f)
  /\ NextEntity(f, 0)
  /\ UNCHANGED <<exists, handle, readVars, restarts, excused>>

(* createTable makes the table with this row in it. *)
Created(f) ==
  /\ filing[f].at = "creating" /\ ~exists[StoreOf(f)]
  /\ exists' = [exists EXCEPT ![StoreOf(f)] = TRUE]
  /\ handle' = [handle EXCEPT ![StoreOf(f)].open = TRUE]
  /\ Stored(f)
  /\ NextEntity(f, 0)
  /\ UNCHANGED <<readVars, restarts, excused>>

(* It throws when the table exists, and add returns null. *)
CreateRefused(f) ==
  /\ filing[f].at = "creating" /\ exists[StoreOf(f)]
  /\ GiveUp(f, 0)
  /\ UNCHANGED <<exists, rows, handle, readVars, restarts, excused>>

-----------------------------------------------------------------------------
(* The wake-up of a debug request: the incidents, then the entities. *)

LookOn(r, st) ==
  reader' = [reader EXCEPT ![r] = IF st = "incident" THEN [at |-> "idle", st |-> "entity"]
                                                     ELSE [@ EXCEPT !.at = "ended"]]

Look(r, st) ==
  /\ seen' = [seen EXCEPT ![r] = @ \cup (IF handle[st].open THEN rows[st] ELSE {})]
  /\ LookOn(r, st)

Recall(r) ==
  LET st == reader[r].st IN
  /\ reader[r].at = "idle"
  /\ CallInit(st)
  /\ missable' = [missable EXCEPT ![r] = @ \cup rows[st]]
  /\ Come(r, st)
  /\ IF Awaits(st) THEN reader' = [reader EXCEPT ![r].at = "waiting"] /\ UNCHANGED seen
                   ELSE Look(r, st)
  /\ UNCHANGED <<disk, filing, bounds>>

RecallContinues(r) ==
  /\ reader[r].at = "waiting" /\ Settled(reader[r].st)
  /\ Look(r, reader[r].st)
  /\ Come(r, reader[r].st)
  /\ UNCHANGED <<disk, handle, filing, bounds, missable>>

(* The query of an open table fails, and is answered with nothing. *)
RecallFails(r) ==
  LET st == reader[r].st IN
  /\ \/ reader[r].at = "idle" /\ ~Awaits(st)
     \/ reader[r].at = "waiting" /\ Settled(st)
  /\ handle[st].open /\ Fault
  /\ LookOn(r, st)
  /\ excused' = excused \cup {r}
  /\ UNCHANGED <<disk, handle, filing, seen, missable, restarts>>

-----------------------------------------------------------------------------
(* Another process takes over; what was under way ends. *)
Restart ==
  /\ restarts < MaxRestarts
  /\ restarts' = restarts + 1
  /\ handle' = [st \in Store |-> NewHandle]
  /\ filing' = [f \in Filings |-> IF filing[f].at = "idle" THEN filing[f]
                                  ELSE [filing[f] EXCEPT !.at = "ended"]]
  /\ reader' = [r \in Readers |-> IF reader[r] = NewReader THEN reader[r]
                                  ELSE [reader[r] EXCEPT !.at = "ended"]]
  /\ excused' = excused \cup {f \in Filings : filing[f].at \notin {"idle", "ended"}}
                       \cup {r \in Readers : reader[r].at # "ended" /\ reader[r] # NewReader}
  /\ UNCHANGED <<disk, seen, missable, faults>>

Next ==
  \/ \E st \in Store : Connected(st) \/ Listed(st) \/ Opened(st) \/ InitThrows(st)
  \/ \E f \in Filings :
       \/ StartFiling(f) \/ Embedded(f) \/ Fails(f) \/ AddContinues(f)
       \/ AddRejected(f) \/ Inserted(f) \/ Created(f) \/ CreateRefused(f)
  \/ \E r \in Readers : Recall(r) \/ RecallContinues(r) \/ RecallFails(r)
  \/ Restart

Spec == Init /\ [][Next]_vars

-----------------------------------------------------------------------------
(* Properties. *)

(* The log has one entry more for each rename that failed, at most. *)
WithinLimit == Len(wal) <= MaxWal + faults

TypeOK ==
  /\ exists \in [Store -> BOOLEAN] /\ rows \in [Store -> SUBSET Row]
  /\ handle \in [Store -> Handle]
  /\ wal \in Seq(Row) /\ rotated \in Seq(Row) /\ WithinLimit
  /\ filing \in [Filings -> Filing] /\ reader \in [Readers -> Reader]
  /\ seen \in [Readers -> SUBSET Row] /\ missable \in [Readers -> SUBSET Row]
  /\ faults \in 0..MaxFaults /\ restarts \in 0..MaxRestarts
  /\ dropped \subseteq Row /\ unlogged \subseteq Row
  /\ excused \subseteq Filings \cup Readers

(* Every row was logged before it was stored (wal.ts: "BEFORE the mutation  *)
(* executes"), unless its entry could not be written; the entry of a row is *)
(* gone only by a second rotation.                                         *)
LoggedBeforeStored ==
  (rows["incident"] \cup rows["entity"]) \ {Old}
    \subseteq ToSet(wal) \cup ToSet(rotated) \cup dropped \cup unlogged

(* An entity refers to an incident that is there, whatever failed and       *)
(* whoever came in between.                                                *)
EntitiesHaveIncident ==
  \A f \in Filings : \A k \in 1..NumEntities :
    <<f, k>> \in rows["entity"] => <<f, 0>> \in rows["incident"]

(* What was filed is in the store, and a debug request finds what was there *)
(* when it looked.  The only excuses: an operation of its own failed, the   *)
(* process ended, the store's init had been rejected, or it came to a store *)
(* that had its connection and not yet its table.  Then a filing is lost    *)
(* although nothing failed, and a debug request remembers nothing.          *)
LossHasACause ==
  /\ \A f \in Filings \ excused : filing[f].at = "ended" =>
       <<f, 0>> \in rows["incident"] /\ \A k \in 1..NumEntities : <<f, k>> \in rows["entity"]
  /\ \A r \in Readers \ excused : reader[r].at = "ended" => missable[r] \subseteq seen[r]
=============================================================================
