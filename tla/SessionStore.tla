----------------------------- MODULE SessionStore -----------------------------
(***************************************************************************)
(* What a server leaves on disk (state/store.ts, state/session.ts,          *)
(* audit/logger.ts, state/db.ts) and what is read back from it: the resume  *)
(* prompt of POST /debug and the replay of GET /history in the terminal     *)
(* (api/routes/history.ts, App.tsx).                                       *)
(*                                                                         *)
(* State and audit entries go to a file first and to SQLite second, in one  *)
(* synchronous stretch: no request comes in between, but the process can     *)
(* die there and SQLite can refuse.  Every request of a server writes to    *)
(* the one session that server created; they are taken one at a time here.  *)
(***************************************************************************)
EXTENDS Naturals, Sequences, FiniteSets, SequencesExt

CONSTANTS
  MaxStarts,     \* bound on server starts; a session is the number of its start
  NumPhases,     \* phases of a debug request, the last two execute and verify
  NumSteps,      \* steps of a plan
  Limit,         \* entries GET /history returns when none is asked for
  MaxRequests,   \* bound on requests
  MaxMissed,     \* bound on writes that reach the file and not SQLite
  MaxTies        \* bound on entries in the same millisecond as the one before

ASSUME StoreAssumption ==
  /\ {MaxStarts, NumSteps, Limit} \subseteq Nat \ {0}
  /\ NumPhases \in Nat /\ NumPhases > 2
  /\ {MaxRequests, MaxMissed} \subseteq Nat /\ MaxTies \in {0, 1}

VARIABLES
  server,        \* the session of the running server, 0 when none runs
  starts,
  file,          \* state.json of each session
  row,           \* its row in the table sessions
  recent,        \* sessions by updated_at of their row, newest first
  log,           \* audit.jsonl of each session
  table,         \* the rows of the table audit_log of each session
  job,           \* the request that is served
  half,          \* the SQLite write that is due after its file write
  cut,           \* history: lines of audit.jsonl that were truncated away
  missed,        \* history: its writes that reached the file and not SQLite
  served,        \* history: its requests that log entries
  clock,         \* the millisecond of the last entry
  ties           \* entries in the millisecond of the one before

times == <<clock, ties>>
vars == <<server, starts, file, row, recent, log, table, job, half, cut, missed, served, times>>

Session == 1..MaxStarts
State == [status : {"active", "plan-ready", "completed", "failed"}, plan : BOOLEAN]
Absent == [status |-> "absent", plan |-> FALSE]
Active == [status |-> "active", plan |-> FALSE]

(* dpev_phase_start, dpev_phase_complete and step_complete. *)
Entry == [s : Session, t : {"start", "done", "step"}, n : Nat, ms : Nat]

(* The phase that executes the plan; the one after it verifies. *)
Exec == NumPhases - 1

NoJob == [kind |-> "none", phase |-> 0, open |-> FALSE, step |-> 0, err |-> FALSE]
NoHalf == [k |-> "none"]
RowOf(st) == [k |-> "row", state |-> st]
InsertOf(e) == [k |-> "entry", entry |-> e]

Init ==
  /\ server = 0 /\ starts = 0
  /\ file = [s \in Session |-> Absent] /\ row = [s \in Session |-> Absent]
  /\ recent = <<>>
  /\ log = [s \in Session |-> <<>>] /\ table = [s \in Session |-> <<>>]
  /\ job = NoJob /\ half = NoHalf
  /\ cut = [s \in Session |-> <<>>]
  /\ missed = [s \in Session |-> 0] /\ clock = 0 /\ ties = 0
  /\ served = [s \in Session |-> 0]

-----------------------------------------------------------------------------
(* The two stores. *)

(* persistState, its first half: state.json of the server's own session. *)
Persist(st) ==
  /\ file' = [file EXCEPT ![server] = st]
  /\ half' = RowOf(st)

(* ORDER BY updated_at DESC after a write of s. *)
Newest(s, q) ==
  <<s>> \o (IF s \in ToSet(q) THEN RemoveAt(q, CHOOSE i \in DOMAIN q : q[i] = s) ELSE q)

Total(h) == FoldFunction(LAMBDA a, b : a + b, 0, h)

(* The write that was due does not reach SQLite. *)
Miss == Total(missed) < MaxMissed /\ missed' = [missed EXCEPT ![server] = @ + 1]

(* Mutant: a status is put on a row of its own, the plan stays. *)
MergeRow ==
  /\ half.k = "row"
  /\ row' = [row EXCEPT ![server] = [half.state EXCEPT !.plan = @ \/ row[server].plan]]
  /\ recent' = Newest(server, recent)
  /\ half' = NoHalf
  /\ job' = IF job.kind = "boot" THEN NoJob ELSE job
  /\ UNCHANGED <<server, starts, file, log, table, cut, missed, served, times>>

(* Its second half: INSERT OR REPLACE with updated_at now. *)
WriteRow ==
  /\ half.k = "row"
  /\ row' = [row EXCEPT ![server] = half.state]
  /\ recent' = Newest(server, recent)
  /\ half' = NoHalf
  /\ job' = IF job.kind = "boot" THEN NoJob ELSE job
  /\ UNCHANGED <<server, starts, file, log, table, cut, missed, served, times>>

(* SQLite throws.  The start of a server fails; requests swallow it or are  *)
(* over anyway.                                                            *)
RowThrows ==
  /\ half.k = "row"
  /\ Miss
  /\ half' = NoHalf
  /\ server' = IF job.kind = "boot" THEN 0 ELSE server
  /\ job' = IF job.kind = "boot" THEN NoJob ELSE job
  /\ UNCHANGED <<starts, file, row, recent, log, table, cut, served, times>>

(* AuditLogger.log and appendAudit, its first half.  Timestamps have        *)
(* milliseconds.                                                           *)
LogEntry(t, n) ==
  \E tie \in BOOLEAN :
    LET now == IF tie THEN clock ELSE clock + 1
        e == [s |-> server, t |-> t, n |-> n, ms |-> now]
    IN /\ tie => clock > 0 /\ ties < MaxTies
       /\ ties' = IF tie THEN ties + 1 ELSE ties
       /\ clock' = now
       /\ log' = [log EXCEPT ![server] = Append(@, e)]
       /\ half' = InsertOf(e)

(* Its second half. *)
Insert ==
  /\ half.k = "entry"
  /\ table' = [table EXCEPT ![server] = Append(@, half.entry)]
  /\ half' = NoHalf
  /\ UNCHANGED <<server, starts, file, row, recent, log, job, cut, missed, served, times>>

(* SQLite throws, and so does the logger.  The entries of a phase are       *)
(* logged in a try whose catch is empty; step_complete is not, and ends     *)
(* executePlan by the exception.                                           *)
InsertThrows ==
  /\ half.k = "entry"
  /\ Miss
  /\ half' = NoHalf
  /\ job' = [job EXCEPT !.err = @ \/ half.entry.t = "step"]
  /\ UNCHANGED <<server, starts, file, row, recent, log, table, cut, served, times>>

-----------------------------------------------------------------------------
(* The server. *)

(* createSession writes the files, persistState of index.ts then both. *)
Start ==
  /\ server = 0 /\ starts < MaxStarts
  /\ starts' = starts + 1 /\ server' = starts + 1
  /\ file' = [file EXCEPT ![starts + 1] = Active]
  /\ half' = RowOf(Active)
  /\ job' = [NoJob EXCEPT !.kind = "boot"]
  /\ UNCHANGED <<row, recent, log, table, cut, missed, served, times>>

(* The process dies, or is stopped. *)
Crash ==
  /\ server # 0
  /\ IF half = NoHalf THEN UNCHANGED missed ELSE Miss
  /\ server' = 0 /\ job' = NoJob /\ half' = NoHalf
  /\ UNCHANGED <<starts, file, row, recent, log, table, cut, served, times>>

Free == server # 0 /\ half = NoHalf /\ job = NoJob /\ Total(served) < MaxRequests

(* POST /stream/debug: audit.jsonl is emptied and the state starts over.    *)
OpenDebug ==
  /\ Free
  /\ cut' = [cut EXCEPT ![server] = @ \o log[server]]
  /\ log' = [log EXCEPT ![server] = <<>>]
  /\ Persist(Active)
  /\ job' = [NoJob EXCEPT !.kind = "debug"]
  /\ served' = [served EXCEPT ![server] = @ + 1]
  /\ UNCHANGED <<server, starts, row, recent, table, missed, times>>

OpenExecute ==
  /\ Free
  /\ job' = [NoJob EXCEPT !.kind = "execute"]
  /\ served' = [served EXCEPT ![server] = @ + 1]
  /\ UNCHANGED <<server, starts, file, row, recent, log, table, half, cut, missed, times>>

Serving(kind) == job.kind = kind /\ half = NoHalf /\ ~job.err

(* What the request last persisted: its plan waits for its answer, or has it. *)
PlanIsReady == file[server].status = "plan-ready"

(* The phase that executes starts with the approval of the plan. *)
StartPhase ==
  /\ Serving("debug") /\ ~job.open /\ job.phase < NumPhases
  /\ job.phase + 1 = Exec => PlanIsReady
  /\ job' = [job EXCEPT !.open = TRUE, !.phase = @ + 1]
  /\ LogEntry("start", job.phase + 1)
  /\ UNCHANGED <<server, starts, file, row, recent, table, cut, missed, served>>

(* The plan may have halted, or a step been refused: the phase that executes  *)
(* it completes all the same.                                              *)
EndPhase ==
  /\ Serving("debug") /\ job.open
  /\ job' = [job EXCEPT !.open = FALSE]
  /\ LogEntry("done", job.phase)
  /\ UNCHANGED <<server, starts, file, row, recent, table, cut, missed, served>>

(* Mutant: the loop runs past the last step. *)
StepPastEnd ==
  /\ Serving("execute")
  /\ job' = [job EXCEPT !.step = @ + 1]
  /\ LogEntry("step", job.step + 1)
  /\ UNCHANGED <<server, starts, file, row, recent, table, cut, missed, served>>

(* executePlan logs step_complete for both kinds of request. *)
Step ==
  /\ Serving("execute") \/ (Serving("debug") /\ job.open /\ job.phase = Exec)
  /\ job.step < NumSteps
  /\ job' = [job EXCEPT !.step = @ + 1]
  /\ LogEntry("step", job.step + 1)
  /\ UNCHANGED <<server, starts, file, row, recent, table, cut, missed, served>>

(* updateSessionStatus: the new status replaces the state, plan and all. *)
PersistStatus(status) == Persist([status |-> status, plan |-> FALSE])

(* The pipeline came to a plan: the gate. *)
PlanReady ==
  /\ Serving("debug") /\ ~job.open /\ job.phase + 1 = Exec /\ ~PlanIsReady
  /\ PersistStatus("plan-ready")
  /\ UNCHANGED <<server, starts, row, recent, log, table, job, cut, missed, served, times>>

RejectPlan ==
  /\ Serving("debug") /\ ~job.open /\ job.phase + 1 = Exec /\ PlanIsReady
  /\ PersistStatus("completed")
  /\ job' = NoJob
  /\ UNCHANGED <<server, starts, row, recent, log, table, cut, missed, served, times>>

DebugEnds ==
  /\ Serving("debug") /\ ~job.open /\ job.phase = NumPhases
  /\ PersistStatus(IF job.step = NumSteps THEN "completed" ELSE "failed")
  /\ job' = NoJob
  /\ UNCHANGED <<server, starts, row, recent, log, table, cut, missed, served, times>>

(* The pipeline throws or has no plan to offer, or executePlan throws. *)
DebugFails ==
  /\ job.kind = "debug" /\ half = NoHalf
  /\ PlanIsReady => job.open /\ job.phase = Exec
  /\ PersistStatus("failed")
  /\ job' = NoJob
  /\ UNCHANGED <<server, starts, row, recent, log, table, cut, missed, served, times>>

(* POST /execute of a plan that halts: the session is active and has the    *)
(* plan and where it stopped.                                              *)
ExecuteHalts ==
  /\ Serving("execute") /\ job.step < NumSteps
  /\ Persist([status |-> "active", plan |-> TRUE])
  /\ job' = NoJob
  /\ UNCHANGED <<server, starts, row, recent, log, table, cut, missed, served, times>>

(* It completes, or a step could not be logged: nothing is persisted.       *)
ExecuteReturns ==
  /\ job.kind = "execute" /\ half = NoHalf
  /\ job.step = NumSteps \/ job.err
  /\ job' = NoJob
  /\ UNCHANGED <<server, starts, file, row, recent, log, table, half, cut, missed, served, times>>

Next ==
  \/ WriteRow \/ RowThrows \/ Insert \/ InsertThrows
  \/ Start \/ Crash \/ OpenDebug \/ OpenExecute \/ StartPhase \/ EndPhase \/ Step
  \/ PlanReady \/ RejectPlan \/ DebugEnds \/ DebugFails \/ ExecuteHalts \/ ExecuteReturns

Spec == Init /\ [][Next]_vars

-----------------------------------------------------------------------------
(* What is read back. *)

(* getIncompleteSessions, newest first, within the window: their places. *)
Incomplete == {i \in DOMAIN recent : row[recent[i]].status = "active"}

(* Mutant: any incomplete session that has a plan. *)
OfferedAnywhere == {recent[i] : i \in {j \in Incomplete : row[recent[j]].plan}}

(* POST /debug offers to resume the first of them, if it has a plan. *)
Offered ==
  {recent[i] : i \in {j \in Incomplete : row[recent[j]].plan /\ \A n \in Incomplete : j <= n}}

(* queryAuditLog orders by timestamp: entries of one millisecond come in    *)
(* any order.  MaxTies keeps them to one pair.                             *)
Ties(q) == {i \in 2..Len(q) : q[i].ms = q[i - 1].ms}
Swap(q, i) == [q EXCEPT ![i] = q[i - 1], ![i - 1] = q[i]]
Orders(q) == {q} \cup {Swap(q, i) : i \in Ties(q)}

FirstN(q, n) == IF Len(q) > n THEN SubSeq(q, 1, n) ELSE q
LastN(q, n) == IF Len(q) > n THEN SubSeq(q, Len(q) - n + 1, Len(q)) ELSE q

(* Mutant: the oldest entries of the session. *)
OldestPages(s) == {FirstN(q, Limit) : q \in Orders(table[s])}

(* GET /history?session=s: the newest Limit entries; buildReplayState sorts *)
(* them by time again.                                                     *)
Pages(s) == {LastN(q, Limit) : q \in Orders(table[s])}

(* buildReplayState: a start adds a phase; a completion completes the first *)
(* phase of its name, or adds one that is complete.                        *)
Replay(phases, e) ==
  LET same == {i \in DOMAIN phases : phases[i].n = e.n} IN
  CASE e.t = "start" -> Append(phases, [n |-> e.n, active |-> TRUE])
    [] e.t = "done" /\ same = {} -> Append(phases, [n |-> e.n, active |-> FALSE])
    [] e.t = "done" /\ same # {} ->
         [phases EXCEPT ![CHOOSE i \in same : \A j \in same : i <= j].active = FALSE]
    [] OTHER -> phases

Replays(page) ==
  LET shown[n \in 0..Len(page)] ==
        IF n = 0 THEN <<>> ELSE Replay(shown[n - 1], page[n])
  IN shown
ReplayedPhases(page) == Replays(page)[Len(page)]
ReplayedSteps(page) == {page[i].n : i \in {j \in DOMAIN page : page[j].t = "step"}}

-----------------------------------------------------------------------------
(* Properties. *)

TypeOK ==
  /\ server \in {0} \cup Session /\ starts \in 0..MaxStarts
  /\ file \in [Session -> State \cup {Absent}] /\ row \in [Session -> State \cup {Absent}]
  /\ recent \in Seq(Session)
  /\ log \in [Session -> Seq(Entry)] /\ cut \in [Session -> Seq(Entry)]
  /\ table \in [Session -> Seq(Entry)]
  /\ job \in [kind : {"none", "boot", "debug", "execute"}, phase : 0..NumPhases,
              open : BOOLEAN, step : 0..NumSteps, err : BOOLEAN]
  /\ half \in {NoHalf} \cup {RowOf(st) : st \in State} \cup [k : {"entry"}, entry : Entry]
  /\ missed \in [Session -> Nat] /\ ties \in 0..MaxTies /\ clock \in Nat
  /\ served \in [Session -> Nat]

Written(s) == cut[s] \o log[s]

(* The two stores differ by what was cut between the two halves of a write  *)
(* and by nothing else: each missed write of a session makes its row stale   *)
(* or leaves one of its entries out, and SQLite never has an entry that its  *)
(* file had not.  A stale row is mended by the next write of the session, an *)
(* entry never.                                                            *)
DivergenceIsOneWrite ==
  half = NoHalf =>
    \A s \in Session :
      /\ ToSet(table[s]) \subseteq ToSet(Written(s))
      /\ Len(table[s]) <= Len(Written(s))
      /\ Len(Written(s)) + (IF row[s] = file[s] THEN 0 ELSE 1) <= Len(table[s]) + missed[s]

Opened(s) == log[s] # <<>> /\ log[s][1].t = "start"
Logged(s, t) == {log[s][i].n : i \in {j \in DOMAIN log[s] : log[s][j].t = t}}
Fetched(page) == {page[i].n : i \in {j \in DOMAIN page : page[j].t # "step"}}

(* The replay of a session that ran one debug request, finished or not: each *)
(* phase of which an entry is fetched is shown once, in the order they ran,  *)
(* and as active exactly if it never completed; the last step is shown, and   *)
(* every one if all entries are fetched.  An entry that SQLite refused is     *)
(* missing, a second request of the session repeats the phases, and two      *)
(* entries in one millisecond may come out of order: that spoils the phases   *)
(* and what is last, not the steps of a log that is fetched whole.           *)
ReplayIsFaithful ==
  \A s \in Session :
    served[s] = 1 /\ Opened(s) /\ Len(table[s]) = Len(log[s]) =>
      \A page \in Pages(s) :
        LET shown == ReplayedPhases(page) IN
        /\ Ties(table[s]) = {} =>
             /\ {shown[i].n : i \in DOMAIN shown} = Fetched(page)
             /\ \A i \in DOMAIN shown :
                  /\ shown[i].active <=> shown[i].n \notin Logged(s, "done")
                  /\ \A j \in DOMAIN shown : i < j => shown[i].n < shown[j].n
             /\ \A n \in Logged(s, "step") :
                  n \in ReplayedSteps(page) \/ n + 1 \in Logged(s, "step") \/ Limit < 4
        /\ Len(table[s]) <= Limit => ReplayedSteps(page) = Logged(s, "step")

(* The resume prompt looks at the newest session whose row is active, and     *)
(* sessions are as new as their servers.  While this server's own session is  *)
(* active nothing but its own halted plan is offered; once its status is       *)
(* another, be it that its request waits at the plan gate or executes          *)
(* ("plan-ready"), the plan of an earlier server is, if none after that one     *)
(* left a session active.                                                   *)
OnlyNewestIsOffered ==
  server # 0 /\ half = NoHalf /\ missed[server] = 0 =>
    IF file[server].status = "active"
    THEN Offered = {s \in {server} : file[s].plan}
    ELSE Offered = {s \in 1..(server - 1) :
                      /\ row[s].status = "active" /\ row[s].plan
                      /\ \A r \in (s + 1)..(server - 1) : row[r].status # "active"}
=============================================================================
