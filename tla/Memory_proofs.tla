---------------------------- MODULE Memory_proofs ----------------------------
(***************************************************************************)
(* Any number of filings and debug requests of any number of processes, a    *)
(* log of any length, any number of faults and restarts.  The inductive      *)
(* invariant says what a settled initialisation knows of its table, that     *)
(* each row is logged while it is under way, and that a filing which nothing *)
(* excuses creates its table alone.                                         *)
(***************************************************************************)
EXTENDS Memory, TLAPS

(* Where a row was ever logged, or its entry failed. *)
Entered == ToSet(wal) \cup ToSet(rotated) \cup dropped \cup unlogged

TableOf(j) == IF j = 0 THEN "incident" ELSE "entity"

(* The init promise of a store, its connection and the table agree: a       *)
(* settled init without a table met none, and none was created since.      *)
InitIsHonest ==
  \A st \in Store :
    /\ handle[st].at # "off" <=> handle[st].init = "running"
    /\ handle[st].at \in {"list", "open"} => handle[st].conn
    /\ handle[st].at = "open" \/ handle[st].open => exists[st]
    /\ handle[st].conn => handle[st].init # "none"
    /\ handle[st].init = "done" => handle[st].conn
    /\ handle[st].init = "done" /\ ~handle[st].open => ~exists[st]
    /\ ~exists[st] => rows[st] = {}

(* Rows are inserted into a table that is there. *)
HasTable == \A f \in Filings : filing[f].at = "inserting" => exists[StoreOf(f)]

(* The row a filing is at has its entry before the store is called. *)
LoggedAhead ==
  \A f \in Filings :
    filing[f].k > 0 \/ filing[f].at \in {"waiting", "creating", "inserting"} => RowOf(f) \in Entered

(* No filing gets past an incident that is not stored. *)
IncidentFirst == \A f \in Filings : filing[f].k > 0 => <<f, 0>> \in rows["incident"]

(* Who creates a table without an excuse does so alone, in a store whose    *)
(* init is done.                                                           *)
CreatesAlone ==
  \A f \in Filings \ excused : filing[f].at = "creating" =>
    /\ handle[StoreOf(f)].init = "done" /\ ~handle[StoreOf(f)].open
    /\ \A g \in Filings \ {f} : filing[g].at = "creating" => StoreOf(g) # StoreOf(f)

(* A filing that nothing excuses has stored every row before its own. *)
StoredSoFar ==
  \A f \in Filings \ excused : \A j \in 0..NumEntities :
    j < filing[f].k \/ filing[f].at = "ended" => <<f, j>> \in rows[TableOf(j)]

(* A debug request that nothing excuses has seen what it could have missed, *)
(* or is waiting for the table that still holds it.                        *)
SeenSoFar ==
  \A r \in Readers \ excused :
    missable[r] \subseteq seen[r] \cup (IF reader[r].at = "waiting" THEN rows[reader[r].st] ELSE {})

IInv ==
  /\ TypeOK /\ InitIsHonest /\ HasTable /\ LoggedAhead /\ LoggedBeforeStored
  /\ IncidentFirst /\ EntitiesHaveIncident /\ CreatesAlone /\ StoredSoFar /\ SeenSoFar
-----------------------------------------------------------------------------
(* Lemmas on the operators of the model. *)

LEMMA ToSetFacts ==
  ASSUME NEW S, NEW s \in Seq(S), NEW x \in S
  PROVE  /\ ToSet(s) \subseteq ToSet(Append(s, x)) /\ x \in ToSet(Append(s, x))
         /\ x \in ToSet(<<x>>) /\ ToSet(s) \subseteq S
<1>1. ToSet(s) \subseteq ToSet(Append(s, x)) /\ ToSet(s) \subseteq S
  BY DEF ToSet
<1>2. x \in ToSet(Append(s, x))
  <2>1. Len(s) + 1 \in DOMAIN Append(s, x) /\ Append(s, x)[Len(s) + 1] = x
    OBVIOUS
  <2> QED BY <2>1 DEF ToSet
<1>3. x \in ToSet(<<x>>)
  <2>1. 1 \in DOMAIN <<x>> /\ <<x>>[1] = x
    OBVIOUS
  <2> QED BY <2>1 DEF ToSet
<1> QED BY <1>1, <1>2, <1>3

(* A log entry is written or not, and none that was entered is forgotten. *)
LEMMA LogEffect ==
  ASSUME TypeOK, NEW row \in Row, NEW n \in {0, 1}, faults + n <= MaxFaults, Log(row, n)
  PROVE  /\ wal' \in Seq(Row) /\ rotated' \in Seq(Row) /\ WithinLimit'
         /\ dropped' \subseteq Row /\ unlogged' \subseteq Row /\ faults' \in 0..MaxFaults
         /\ Entered \subseteq Entered' /\ row \in Entered'
<1>1. /\ wal \in Seq(Row) /\ rotated \in Seq(Row) /\ Len(wal) \in Nat /\ Len(wal) <= MaxWal + faults
      /\ dropped \subseteq Row /\ unlogged \subseteq Row /\ faults \in 0..MaxFaults
      /\ MaxWal \in Nat \ {0} /\ MaxFaults \in Nat
  BY MemoryAssumption DEF TypeOK, WithinLimit
<1>2. /\ ToSet(wal) \subseteq ToSet(Append(wal, row)) /\ row \in ToSet(Append(wal, row))
      /\ row \in ToSet(<<row>>) /\ ToSet(wal) \subseteq Row /\ ToSet(rotated) \subseteq Row
  BY <1>1, ToSetFacts
<1>3. /\ <<row>> \in Seq(Row) /\ Len(<<row>>) = 1 /\ <<>> \in Seq(Row) /\ Len(<<>>) = 0
      /\ Append(wal, row) \in Seq(Row) /\ Len(Append(wal, row)) = Len(wal) + 1
  BY <1>1
<1>4. CASE Logged(row) /\ faults' = faults + n /\ Len(wal) >= MaxWal
  <2>1. rotated' = wal /\ wal' = <<row>> /\ dropped' = dropped \cup ToSet(rotated) /\ unlogged' = unlogged
    BY <1>4 DEF Logged, Rotate
  <2>2. WithinLimit'
    BY <1>1, <1>3, <1>4, <2>1 DEF WithinLimit
  <2> QED BY <1>1, <1>2, <1>3, <1>4, <2>1, <2>2 DEF Entered
<1>5. CASE Logged(row) /\ faults' = faults + n /\ ~(Len(wal) >= MaxWal)
  <2>1. wal' = Append(wal, row) /\ UNCHANGED <<rotated, dropped, unlogged>>
    BY <1>5 DEF Logged
  <2>2. WithinLimit'
    BY <1>1, <1>3, <1>5, <2>1 DEF WithinLimit
  <2> QED BY <1>1, <1>2, <1>3, <1>5, <2>1, <2>2 DEF Entered
<1>6. CASE faults + n < MaxFaults /\ faults' = faults + n + 1 /\ LoggedAnyway(row)
  <2>1. wal' = Append(wal, row) /\ UNCHANGED <<rotated, dropped, unlogged>>
    BY <1>6 DEF LoggedAnyway
  <2>2. WithinLimit'
    BY <1>1, <1>3, <1>6, <2>1 DEF WithinLimit
  <2> QED BY <1>1, <1>2, <1>3, <1>6, <2>1, <2>2 DEF Entered
<1>7. CASE faults + n < MaxFaults /\ faults' = faults + n + 1 /\ NotLogged(row)
  <2>1. unlogged' = unlogged \cup {row}
    BY <1>7 DEF NotLogged
  <2>2. CASE Rotate /\ wal' = <<>>
    <3>1. rotated' = wal /\ dropped' = dropped \cup ToSet(rotated)
      BY <2>2 DEF Rotate
    <3>2. WithinLimit'
      BY <1>1, <1>3, <1>7, <2>2 DEF WithinLimit
    <3> QED BY <1>1, <1>2, <1>3, <1>7, <2>1, <2>2, <3>1, <3>2 DEF Entered
  <2>3. CASE UNCHANGED <<wal, rotated, dropped>>
    <3>1. WithinLimit'
      BY <1>1, <1>7, <2>3 DEF WithinLimit
    <3> QED BY <1>1, <1>7, <2>1, <2>3, <3>1 DEF Entered
  <2> QED BY <1>7, <2>2, <2>3 DEF NotLogged
<1> QED BY <1>4, <1>5, <1>6, <1>7 DEF Log

(* The same of a step that writes nothing. *)
LEMMA LogNothingEffect ==
  ASSUME TypeOK, NEW n \in {0, 1}, faults + n <= MaxFaults, LogNothing(n)
  PROVE  /\ wal' \in Seq(Row) /\ rotated' \in Seq(Row) /\ WithinLimit'
         /\ dropped' \subseteq Row /\ unlogged' \subseteq Row /\ faults' \in 0..MaxFaults
         /\ Entered' = Entered
<1>1. UNCHANGED <<wal, rotated, dropped, unlogged>> /\ faults' = faults + n
  BY DEF LogNothing, walVars
<1>2. faults \in Nat /\ MaxFaults \in Nat /\ MaxWal \in Nat /\ wal \in Seq(Row)
  BY MemoryAssumption DEF TypeOK
<1>3. WithinLimit'
  BY <1>1, <1>2 DEF TypeOK, WithinLimit
<1> QED BY <1>1, <1>2, <1>3 DEF TypeOK, Entered

LEMMA RowTypes ==
  ASSUME TypeOK, NEW f \in Filings
  PROVE  /\ RowOf(f) = <<f, filing[f].k>> /\ RowOf(f) \in Row /\ filing[f].k \in 0..NumEntities
         /\ StoreOf(f) = TableOf(filing[f].k) /\ StoreOf(f) \in Store
         /\ \A k \in 0..NumEntities : <<f, k>> \in Row
  BY MemoryAssumption DEF TypeOK, RowOf, Row, Filing, StoreOf, Store, TableOf

(* On to the next row, which is entered, or to the end. *)
LEMMA NextEntityEffect ==
  ASSUME TypeOK, LoggedAhead, NEW f \in Filings, NEW n \in {0, 1}, faults + n <= MaxFaults, NextEntity(f, n)
  PROVE  /\ filing' \in [Filings -> Filing]
         /\ \A g \in Filings \ {f} : filing'[g] = filing[g]
         /\ \/ filing'[f].at = "embedding" /\ filing'[f].k = filing[f].k + 1
            \/ filing'[f].at = "ended" /\ filing'[f].k = filing[f].k /\ filing[f].k = NumEntities
         /\ filing'[f].k > 0 => <<f, filing'[f].k>> \in Entered'
         /\ wal' \in Seq(Row) /\ rotated' \in Seq(Row) /\ WithinLimit'
         /\ dropped' \subseteq Row /\ unlogged' \subseteq Row /\ faults' \in 0..MaxFaults
         /\ Entered \subseteq Entered'
<1>1. NumEntities \in Nat /\ filing[f].k \in 0..NumEntities /\ filing \in [Filings -> Filing]
  BY MemoryAssumption, RowTypes DEF TypeOK
<1>2. CASE filing[f].k < NumEntities
  <2>1. /\ filing' = [filing EXCEPT ![f] = [at |-> "embedding", k |-> filing[f].k + 1]]
        /\ Log(<<f, filing[f].k + 1>>, n)
    BY <1>2 DEF NextEntity
  <2>2. filing[f].k + 1 \in 0..NumEntities /\ <<f, filing[f].k + 1>> \in Row
    BY <1>1, <1>2, RowTypes
  <2>3. filing'[f] = [at |-> "embedding", k |-> filing[f].k + 1]
    BY <1>1, <2>1
  <2>4. filing' \in [Filings -> Filing] /\ \A g \in Filings \ {f} : filing'[g] = filing[g]
    BY <1>1, <2>1, <2>2 DEF Filing
  <2>5. /\ wal' \in Seq(Row) /\ rotated' \in Seq(Row) /\ WithinLimit'
        /\ dropped' \subseteq Row /\ unlogged' \subseteq Row /\ faults' \in 0..MaxFaults
        /\ Entered \subseteq Entered' /\ <<f, filing[f].k + 1>> \in Entered'
    BY <2>1, <2>2, LogEffect
  <2> QED BY <2>3, <2>4, <2>5
<1>3. CASE ~(filing[f].k < NumEntities)
  <2>1. filing' = [filing EXCEPT ![f].at = "ended"] /\ LogNothing(n)
    BY <1>3 DEF NextEntity, Move
  <2>2. filing'[f].at = "ended" /\ filing'[f].k = filing[f].k /\ filing[f].k = NumEntities
    BY <1>1, <1>3, <2>1 DEF Filing
  <2>3. filing' \in [Filings -> Filing] /\ \A g \in Filings \ {f} : filing'[g] = filing[g]
    BY <1>1, <2>1 DEF Filing
  <2>4. /\ wal' \in Seq(Row) /\ rotated' \in Seq(Row) /\ WithinLimit'
        /\ dropped' \subseteq Row /\ unlogged' \subseteq Row /\ faults' \in 0..MaxFaults
        /\ Entered' = Entered
    BY <2>1, LogNothingEffect
  <2>5. filing'[f].k > 0 => <<f, filing'[f].k>> \in Entered'
    BY <2>2, <2>4 DEF LoggedAhead, RowOf
  <2> QED BY <2>2, <2>3, <2>4, <2>5
<1> QED BY <1>2, <1>3

(* init leaves a store that has its connection alone, and an honest one       *)
(* honest.                                                                  *)
LEMMA CallInitEffect ==
  ASSUME TypeOK, InitIsHonest, NEW st \in Store, CallInit(st), UNCHANGED <<exists, rows>>
  PROVE  /\ handle' \in [Store -> Handle] /\ InitIsHonest'
         /\ \A s \in Store : handle[s].conn => handle'[s] = handle[s]
         /\ \A s \in Store : handle'[s].open = handle[s].open
  BY DEF TypeOK, InitIsHonest, CallInit, Awaits, Handle
-----------------------------------------------------------------------------
(* The rows, once there, and what was excused, once excused, stay: so what    *)
(* was stored and seen so far.                                              *)
LEMMA SeenStays ==
  ASSUME TypeOK, SeenSoFar, UNCHANGED readVars, excused \subseteq excused',
         \A st \in Store : rows[st] \subseteq rows'[st]
  PROVE  SeenSoFar'
<1>1. UNCHANGED <<reader, seen, missable>>
  BY DEF readVars
<1>2. \A r \in Readers : reader[r].st \in Store
  BY DEF TypeOK, Reader
<1> QED BY <1>1, <1>2 DEF SeenSoFar

(* A row that is not stored, of a filing that is excused.                   *)
LEMMA GiveUpStep ==
  ASSUME IInv, NEW f \in Filings, NEW n \in {0, 1}, faults + n <= MaxFaults, GiveUp(f, n),
         f \in excused', excused \subseteq excused', excused' \subseteq Filings \cup Readers,
         UNCHANGED <<exists, rows, handle, readVars, restarts>>
  PROVE  IInv'
<1>1. /\ TypeOK /\ InitIsHonest /\ HasTable /\ LoggedAhead /\ LoggedBeforeStored /\ IncidentFirst
      /\ EntitiesHaveIncident /\ CreatesAlone /\ StoredSoFar /\ SeenSoFar
  BY DEF IInv
<1>2. /\ exists' = exists /\ rows' = rows /\ handle' = handle /\ reader' = reader /\ seen' = seen
      /\ missable' = missable /\ restarts' = restarts
  BY DEF readVars
<1>3. /\ filing' \in [Filings -> Filing]
      /\ \A g \in Filings \ {f} : filing'[g] = filing[g]
      /\ filing'[f].at \in {"embedding", "ended"}
      /\ filing'[f].k > 0 => filing[f].k > 0
      /\ filing'[f].k > 0 => <<f, filing'[f].k>> \in Entered'
      /\ wal' \in Seq(Row) /\ rotated' \in Seq(Row) /\ WithinLimit'
      /\ dropped' \subseteq Row /\ unlogged' \subseteq Row /\ faults' \in 0..MaxFaults
      /\ Entered \subseteq Entered'
  <2>1. CASE filing[f].k = 0
    <3>1. filing' = [filing EXCEPT ![f].at = "ended"] /\ LogNothing(n)
      BY <2>1 DEF GiveUp, Move
    <3>2. /\ filing' \in [Filings -> Filing] /\ \A g \in Filings \ {f} : filing'[g] = filing[g]
          /\ filing'[f].at = "ended" /\ filing'[f].k = filing[f].k
      BY <1>1, <3>1 DEF TypeOK, Filing
    <3>3. /\ wal' \in Seq(Row) /\ rotated' \in Seq(Row) /\ WithinLimit'
          /\ dropped' \subseteq Row /\ unlogged' \subseteq Row /\ faults' \in 0..MaxFaults
          /\ Entered' = Entered
      BY <1>1, <3>1, LogNothingEffect
    <3> QED BY <2>1, <3>2, <3>3
  <2>2. CASE filing[f].k # 0
    <3>1. NextEntity(f, n) /\ filing[f].k > 0
      BY <1>1, <2>2, RowTypes DEF GiveUp
    <3> QED BY <1>1, <3>1, NextEntityEffect
  <2> QED BY <2>1, <2>2
<1>4. TypeOK'
  BY <1>1, <1>2, <1>3 DEF TypeOK, WithinLimit
<1>5. InitIsHonest'
  BY <1>1, <1>2 DEF InitIsHonest
<1>6. LoggedAhead'
  <2> SUFFICES ASSUME NEW g \in Filings,
                      filing'[g].k > 0 \/ filing'[g].at \in {"waiting", "creating", "inserting"}
               PROVE  <<g, filing'[g].k>> \in Entered'
    BY DEF LoggedAhead, RowOf
  <2>1. CASE g = f
    BY <1>3, <2>1
  <2>2. CASE g # f
    BY <1>1, <1>3, <2>2 DEF LoggedAhead, RowOf
  <2> QED BY <2>1, <2>2
<1>7. LoggedBeforeStored' /\ EntitiesHaveIncident'
  BY <1>1, <1>2, <1>3 DEF LoggedBeforeStored, EntitiesHaveIncident, Entered
<1>8. IncidentFirst'
  <2> SUFFICES ASSUME NEW g \in Filings, filing'[g].k > 0 PROVE <<g, 0>> \in rows["incident"]
    BY <1>2 DEF IncidentFirst
  <2> QED BY <1>1, <1>3 DEF IncidentFirst
<1>9. CreatesAlone'
  <2> SUFFICES ASSUME NEW g \in Filings \ excused', filing'[g].at = "creating"
               PROVE  /\ handle[StoreOf(g)'].init = "done" /\ ~handle[StoreOf(g)'].open
                      /\ \A h \in Filings \ {g} : filing'[h].at = "creating" => StoreOf(h)' # StoreOf(g)'
    BY <1>2 DEF CreatesAlone
  <2>1. g # f /\ g \notin excused /\ filing'[g] = filing[g] /\ StoreOf(g)' = StoreOf(g)
    BY <1>3 DEF StoreOf
  <2>2. \A h \in Filings : filing'[h].at = "creating" => filing[h].at = "creating" /\ StoreOf(h)' = StoreOf(h)
    BY <1>3 DEF StoreOf
  <2> QED BY <1>1, <2>1, <2>2 DEF CreatesAlone
<1>10. StoredSoFar'
  <2> SUFFICES ASSUME NEW g \in Filings \ excused', NEW j \in 0..NumEntities,
                      j < filing'[g].k \/ filing'[g].at = "ended"
               PROVE  <<g, j>> \in rows[TableOf(j)]
    BY <1>2 DEF StoredSoFar, TableOf
  <2> QED BY <1>1, <1>3 DEF StoredSoFar
<1>11. SeenSoFar'
  BY <1>1, <1>2, SeenStays
<1>12. HasTable'
  <2> SUFFICES ASSUME NEW g \in Filings, filing'[g].at = "inserting" PROVE exists[StoreOf(g)']
    BY <1>2 DEF HasTable
  <2>1. g # f /\ filing'[g] = filing[g]
    BY <1>3
  <2> QED BY <1>1, <2>1 DEF HasTable, StoreOf
<1> QED BY <1>12, <1>4, <1>5, <1>6, <1>7, <1>8, <1>9, <1>10, <1>11 DEF IInv

(* A row that is stored.                                                    *)
LEMMA StoreStep ==
  ASSUME IInv, NEW f \in Filings, filing[f].at \in {"inserting", "creating"}, Stored(f), NextEntity(f, 0),
         UNCHANGED <<readVars, restarts, excused>>,
         exists' \in [Store -> BOOLEAN], \A st \in Store : exists[st] => exists'[st], handle' \in [Store -> Handle], InitIsHonest',
         \/ UNCHANGED handle
         \/ /\ filing[f].at = "creating"
            /\ \A st \in Store \ {StoreOf(f)} : handle'[st] = handle[st]
  PROVE  IInv'
<1>1. /\ TypeOK /\ HasTable /\ LoggedAhead /\ LoggedBeforeStored /\ IncidentFirst
      /\ EntitiesHaveIncident /\ CreatesAlone /\ StoredSoFar /\ SeenSoFar
  BY DEF IInv
<1>2. /\ reader' = reader /\ seen' = seen /\ missable' = missable /\ restarts' = restarts
      /\ excused' = excused
  BY DEF readVars
<1>3. /\ filing' \in [Filings -> Filing]
      /\ \A g \in Filings \ {f} : filing'[g] = filing[g]
      /\ \/ filing'[f].at = "embedding" /\ filing'[f].k = filing[f].k + 1
         \/ filing'[f].at = "ended" /\ filing'[f].k = filing[f].k /\ filing[f].k = NumEntities
      /\ filing'[f].k > 0 => <<f, filing'[f].k>> \in Entered'
      /\ wal' \in Seq(Row) /\ rotated' \in Seq(Row) /\ WithinLimit'
      /\ dropped' \subseteq Row /\ unlogged' \subseteq Row /\ faults' \in 0..MaxFaults
      /\ Entered \subseteq Entered'
  <2>1. faults \in Nat /\ MaxFaults \in Nat /\ faults + 0 <= MaxFaults
    BY <1>1, MemoryAssumption DEF TypeOK
  <2> QED BY <1>1, <2>1, NextEntityEffect
<1>4. /\ filing[f].k \in 0..NumEntities /\ RowOf(f) = <<f, filing[f].k>> /\ RowOf(f) \in Row
      /\ StoreOf(f) = TableOf(filing[f].k) /\ StoreOf(f) \in Store /\ NumEntities \in Nat
  BY <1>1, RowTypes, MemoryAssumption
<1>5. /\ rows' \in [Store -> SUBSET Row]
      /\ \A st \in Store : rows[st] \subseteq rows'[st]
      /\ RowOf(f) \in rows'[StoreOf(f)]
      /\ \A st \in Store : rows'[st] \subseteq rows[st] \cup {RowOf(f)}
      /\ \A st \in Store \ {StoreOf(f)} : rows'[st] = rows[st]
  BY <1>1, <1>4 DEF TypeOK, Stored
<1>6. TypeOK'
  BY <1>1, <1>2, <1>3, <1>5 DEF TypeOK
<1>7. LoggedAhead'
  <2> SUFFICES ASSUME NEW g \in Filings,
                      filing'[g].k > 0 \/ filing'[g].at \in {"waiting", "creating", "inserting"}
               PROVE  <<g, filing'[g].k>> \in Entered'
    BY DEF LoggedAhead, RowOf
  <2>1. CASE g = f
    BY <1>3, <2>1
  <2>2. CASE g # f
    BY <1>1, <1>3, <2>2 DEF LoggedAhead, RowOf
  <2> QED BY <2>1, <2>2
<1>8. LoggedBeforeStored'
  <2>1. RowOf(f) \in Entered
    BY <1>1 DEF LoggedAhead
  <2>2. (rows["incident"] \cup rows["entity"]) \ {Old} \subseteq Entered
    BY <1>1 DEF LoggedBeforeStored, Entered
  <2>3. (rows'["incident"] \cup rows'["entity"]) \ {Old} \subseteq Entered'
    BY <2>1, <2>2, <1>3, <1>5 DEF Store
  <2> QED BY <2>3 DEF LoggedBeforeStored, Entered
<1>9. <<f, 0>> \in rows'["incident"]
  BY <1>1, <1>4, <1>5 DEF IncidentFirst, TableOf, Store
<1>10. IncidentFirst'
  <2> SUFFICES ASSUME NEW g \in Filings, filing'[g].k > 0 PROVE <<g, 0>> \in rows'["incident"]
    BY DEF IncidentFirst
  <2> QED BY <1>1, <1>3, <1>5, <1>9 DEF IncidentFirst, Store
<1>11. EntitiesHaveIncident'
  <2> SUFFICES ASSUME NEW g \in Filings, NEW k \in 1..NumEntities, <<g, k>> \in rows'["entity"]
               PROVE  <<g, 0>> \in rows'["incident"]
    BY DEF EntitiesHaveIncident
  <2>1. CASE g = f
    BY <1>9, <2>1
  <2>2. CASE g # f
    <3>1. <<g, k>> # RowOf(f)
      BY <1>4, <2>2
    <3>2. <<g, k>> \in rows["entity"]
      BY <1>5, <3>1 DEF Store
    <3> QED BY <1>1, <1>5, <3>2 DEF EntitiesHaveIncident, Store
  <2> QED BY <2>1, <2>2
<1>12. CreatesAlone'
  <2> SUFFICES ASSUME NEW g \in Filings \ excused, filing'[g].at = "creating"
               PROVE  /\ handle'[StoreOf(g)'].init = "done" /\ ~handle'[StoreOf(g)'].open
                      /\ \A h \in Filings \ {g} : filing'[h].at = "creating" => StoreOf(h)' # StoreOf(g)'
    BY <1>2 DEF CreatesAlone
  <2>1. g # f /\ filing'[g] = filing[g] /\ StoreOf(g)' = StoreOf(g) /\ StoreOf(g) \in Store
    BY <1>1, <1>3, RowTypes DEF StoreOf
  <2>2. \A h \in Filings : filing'[h].at = "creating" => filing[h].at = "creating" /\ StoreOf(h)' = StoreOf(h)
    BY <1>3 DEF StoreOf
  <2>3. filing[f].at = "creating" => StoreOf(f) # StoreOf(g)
    BY <1>1, <2>1 DEF CreatesAlone
  <2>4. handle'[StoreOf(g)] = handle[StoreOf(g)]
    BY <2>1, <2>3
  <2> QED BY <1>1, <2>1, <2>2, <2>4 DEF CreatesAlone
<1>13. StoredSoFar'
  <2> SUFFICES ASSUME NEW g \in Filings \ excused, NEW j \in 0..NumEntities,
                      j < filing'[g].k \/ filing'[g].at = "ended"
               PROVE  <<g, j>> \in rows'[TableOf(j)]
    BY <1>2 DEF StoredSoFar, TableOf
  <2>0. TableOf(j) \in Store
    BY DEF TableOf, Store
  <2>1. CASE g = f
    <3>1. j < filing[f].k \/ j = filing[f].k
      BY <1>3, <1>4, <2>1
    <3>2. CASE j < filing[f].k
      BY <1>1, <1>5, <2>0, <2>1, <3>2 DEF StoredSoFar
    <3>3. CASE j = filing[f].k
      BY <1>4, <1>5, <2>1, <3>3
    <3> QED BY <3>1, <3>2, <3>3
  <2>2. CASE g # f
    BY <1>1, <1>3, <1>5, <2>0, <2>2 DEF StoredSoFar
  <2> QED BY <2>1, <2>2
<1>14. SeenSoFar'
  <2>1. UNCHANGED readVars
    OBVIOUS
  <2> QED BY <1>1, <1>2, <1>5, <2>1, SeenStays
<1>15. HasTable'
  <2> SUFFICES ASSUME NEW g \in Filings, filing'[g].at = "inserting" PROVE exists'[StoreOf(g)']
    BY DEF HasTable
  <2>1. g # f /\ filing'[g] = filing[g] /\ StoreOf(g)' = StoreOf(g) /\ StoreOf(g) \in Store
    BY <1>1, <1>3, RowTypes DEF StoreOf
  <2> QED BY <1>1, <2>1 DEF HasTable
<1> QED BY <1>15, <1>6, <1>7, <1>8, <1>10, <1>11, <1>12, <1>13, <1>14 DEF IInv
-----------------------------------------------------------------------------
(* The stores.                                                              *)

(* An initialisation that goes on concerns no filing that creates a table     *)
(* alone, as that one's store is settled.                                    *)
LEMMA HandleStep ==
  ASSUME IInv, NEW st \in Store, handle[st].at # "off", handle' \in [Store -> Handle], InitIsHonest',
         \A s \in Store \ {st} : handle'[s] = handle[s], faults' \in 0..MaxFaults, faults' >= faults,
         UNCHANGED <<disk, filing, readVars, restarts, excused>>
  PROVE  IInv'
<1>1. /\ TypeOK /\ InitIsHonest /\ HasTable /\ LoggedAhead /\ LoggedBeforeStored /\ IncidentFirst
      /\ EntitiesHaveIncident /\ CreatesAlone /\ StoredSoFar /\ SeenSoFar
  BY DEF IInv
<1>2. /\ exists' = exists /\ rows' = rows /\ wal' = wal /\ rotated' = rotated /\ dropped' = dropped
      /\ unlogged' = unlogged /\ filing' = filing /\ reader' = reader /\ seen' = seen
      /\ missable' = missable /\ restarts' = restarts /\ excused' = excused
  BY DEF disk, readVars
<1>3. TypeOK'
  <2>1. WithinLimit'
    BY <1>1, <1>2, MemoryAssumption DEF TypeOK, WithinLimit
  <2> QED BY <1>1, <1>2, <2>1 DEF TypeOK
<1>4. HasTable' /\ LoggedAhead' /\ LoggedBeforeStored'
  BY <1>1, <1>2 DEF HasTable, StoreOf, LoggedAhead, RowOf, Entered, LoggedBeforeStored
<1>5. IncidentFirst' /\ EntitiesHaveIncident' /\ StoredSoFar' /\ SeenSoFar'
  BY <1>1, <1>2 DEF IncidentFirst, EntitiesHaveIncident, StoredSoFar, TableOf, SeenSoFar
<1>6. CreatesAlone'
  <2> SUFFICES ASSUME NEW f \in Filings \ excused, filing[f].at = "creating"
               PROVE  /\ handle'[StoreOf(f)].init = "done" /\ ~handle'[StoreOf(f)].open
                      /\ \A g \in Filings \ {f} : filing[g].at = "creating" => StoreOf(g) # StoreOf(f)
    BY <1>2 DEF CreatesAlone, StoreOf
  <2>1. StoreOf(f) \in Store /\ handle[StoreOf(f)].init = "done"
    BY <1>1, RowTypes DEF CreatesAlone
  <2>2. StoreOf(f) # st
    BY <1>1, <2>1 DEF InitIsHonest
  <2> QED BY <1>1, <2>1, <2>2 DEF CreatesAlone
<1> QED BY <1>1, <1>3, <1>4, <1>5, <1>6 DEF IInv

LEMMA ConnectedStep == ASSUME IInv, NEW st \in Store, Connected(st) PROVE IInv'
<1>1. TypeOK /\ InitIsHonest
  BY DEF IInv
<1>2. handle' \in [Store -> Handle] /\ \A s \in Store \ {st} : handle'[s] = handle[s]
  BY <1>1 DEF TypeOK, Connected, Handle
<1>3. InitIsHonest'
  BY <1>1 DEF TypeOK, InitIsHonest, Connected, Handle, disk
<1>4. /\ faults' \in 0..MaxFaults /\ faults' >= faults /\ handle[st].at # "off"
      /\ UNCHANGED <<disk, filing, readVars, restarts, excused>>
  BY <1>1 DEF TypeOK, Connected, bounds
<1> QED BY <1>2, <1>3, <1>4, HandleStep

LEMMA ListedStep == ASSUME IInv, NEW st \in Store, Listed(st) PROVE IInv'
<1>1. TypeOK /\ InitIsHonest
  BY DEF IInv
<1>2. handle' \in [Store -> Handle] /\ \A s \in Store \ {st} : handle'[s] = handle[s]
  BY <1>1 DEF TypeOK, Listed, Handle
<1>3. InitIsHonest'
  BY <1>1 DEF TypeOK, InitIsHonest, Listed, Handle, disk
<1>4. /\ faults' \in 0..MaxFaults /\ faults' >= faults /\ handle[st].at # "off"
      /\ UNCHANGED <<disk, filing, readVars, restarts, excused>>
  BY <1>1 DEF TypeOK, Listed, bounds
<1> QED BY <1>2, <1>3, <1>4, HandleStep

LEMMA OpenedStep == ASSUME IInv, NEW st \in Store, Opened(st) PROVE IInv'
<1>1. TypeOK /\ InitIsHonest
  BY DEF IInv
<1>2. handle' \in [Store -> Handle] /\ \A s \in Store \ {st} : handle'[s] = handle[s]
  BY <1>1 DEF TypeOK, Opened, Handle
<1>3. InitIsHonest'
  BY <1>1 DEF TypeOK, InitIsHonest, Opened, Handle, disk
<1>4. /\ faults' \in 0..MaxFaults /\ faults' >= faults /\ handle[st].at # "off"
      /\ UNCHANGED <<disk, filing, readVars, restarts, excused>>
  BY <1>1 DEF TypeOK, Opened, bounds
<1> QED BY <1>2, <1>3, <1>4, HandleStep

LEMMA InitThrowsStep == ASSUME IInv, NEW st \in Store, InitThrows(st) PROVE IInv'
<1>1. TypeOK /\ InitIsHonest
  BY DEF IInv
<1>2. handle' \in [Store -> Handle] /\ \A s \in Store \ {st} : handle'[s] = handle[s]
  BY <1>1 DEF TypeOK, InitThrows, Handle
<1>3. InitIsHonest'
  BY <1>1 DEF TypeOK, InitIsHonest, InitThrows, Handle, disk
<1>4. /\ faults' \in 0..MaxFaults /\ faults' >= faults /\ handle[st].at # "off"
      /\ UNCHANGED <<disk, filing, readVars, restarts, excused>>
  BY <1>1, MemoryAssumption DEF TypeOK, InitThrows, Fault
<1> QED BY <1>2, <1>3, <1>4, HandleStep

-----------------------------------------------------------------------------
(* Filings. *)

LEMMA ComeEffect ==
  ASSUME TypeOK, NEW x \in Filings \cup Readers, NEW st \in Store, Come(x, st)
  PROVE  /\ excused \subseteq excused' /\ excused' \subseteq Filings \cup Readers
         /\ Excuse(st) => x \in excused' /\ Creating(st) \subseteq excused'
  BY DEF TypeOK, Come, Creating

(* A filing comes to its store: to wait, to insert, or to create the table of *)
(* a store that has a connection and no table.                              *)
LEMMA ArriveStep ==
  ASSUME IInv, NEW f \in Filings, NEW to \in {"waiting", "creating", "inserting"}, Move(f, to),
         to = "creating" => handle[StoreOf(f)].conn /\ ~handle[StoreOf(f)].open,
         to = "inserting" => handle[StoreOf(f)].open,
         Come(f, StoreOf(f)),
         handle' \in [Store -> Handle], InitIsHonest',
         \A s \in Store : handle[s].conn => handle'[s] = handle[s],
         wal' \in Seq(Row), rotated' \in Seq(Row), WithinLimit',
         dropped' \subseteq Row, unlogged' \subseteq Row, faults' \in 0..MaxFaults,
         Entered \subseteq Entered', RowOf(f) \in Entered',
         UNCHANGED <<exists, rows, readVars, restarts>>
  PROVE  IInv'
<1>1. /\ TypeOK /\ InitIsHonest /\ HasTable /\ LoggedAhead /\ LoggedBeforeStored /\ IncidentFirst
      /\ EntitiesHaveIncident /\ CreatesAlone /\ StoredSoFar /\ SeenSoFar
  BY DEF IInv
<1>2. /\ exists' = exists /\ rows' = rows /\ reader' = reader /\ seen' = seen
      /\ missable' = missable /\ restarts' = restarts
  BY DEF readVars
<1>3. /\ filing' \in [Filings -> Filing]
      /\ \A g \in Filings \ {f} : filing'[g] = filing[g]
      /\ filing'[f].at = to /\ filing'[f].k = filing[f].k
      /\ \A g \in Filings : StoreOf(g)' = StoreOf(g)
  BY <1>1 DEF TypeOK, Move, Filing, StoreOf
<1>4. StoreOf(f) \in Store
  BY <1>1, RowTypes
<1>5. /\ excused \subseteq excused' /\ excused' \subseteq Filings \cup Readers
      /\ Excuse(StoreOf(f)) => f \in excused' /\ Creating(StoreOf(f)) \subseteq excused'
  BY <1>1, <1>4, ComeEffect
<1>6. TypeOK'
  BY <1>1, <1>2, <1>3, <1>5 DEF TypeOK
<1>7. LoggedAhead'
  <2> SUFFICES ASSUME NEW g \in Filings,
                      filing'[g].k > 0 \/ filing'[g].at \in {"waiting", "creating", "inserting"}
               PROVE  <<g, filing'[g].k>> \in Entered'
    BY DEF LoggedAhead, RowOf
  <2>1. CASE g = f
    BY <1>3, <2>1 DEF RowOf
  <2>2. CASE g # f
    BY <1>1, <1>3, <2>2 DEF LoggedAhead, RowOf
  <2> QED BY <2>1, <2>2
<1>8. LoggedBeforeStored' /\ EntitiesHaveIncident' /\ IncidentFirst'
  BY <1>1, <1>2, <1>3 DEF LoggedBeforeStored, EntitiesHaveIncident, IncidentFirst, Entered
<1>9. CreatesAlone'
  <2> SUFFICES ASSUME NEW g \in Filings \ excused', filing'[g].at = "creating"
               PROVE  /\ handle'[StoreOf(g)].init = "done" /\ ~handle'[StoreOf(g)].open
                      /\ \A h \in Filings \ {g} : filing'[h].at = "creating" => StoreOf(h) # StoreOf(g)
    BY <1>3 DEF CreatesAlone
  <2>0. g \notin excused /\ StoreOf(g) \in Store
    BY <1>1, <1>5, RowTypes
  <2>1. CASE g = f
    <3>1. ~Excuse(StoreOf(f)) /\ handle[StoreOf(f)].conn /\ ~handle[StoreOf(f)].open
      BY <1>3, <1>5, <2>1
    <3>2. /\ handle[StoreOf(f)].at = "off" /\ Creating(StoreOf(f)) = {}
          /\ handle[StoreOf(f)].init # "rejected"
      BY <3>1 DEF Excuse
    <3>3. handle[StoreOf(f)].init = "done"
      BY <1>1, <1>4, <3>1, <3>2 DEF TypeOK, InitIsHonest, Handle
    <3>4. \A h \in Filings \ {f} : filing'[h].at = "creating" => StoreOf(h) # StoreOf(f)
      BY <1>3, <3>2 DEF Creating
    <3> QED BY <1>4, <2>1, <3>1, <3>3, <3>4
  <2>2. CASE g # f
    <3>1. filing[g].at = "creating"
      BY <1>3, <2>2
    <3>2. handle[StoreOf(g)].init = "done" /\ ~handle[StoreOf(g)].open /\ handle[StoreOf(g)].conn
      BY <1>1, <2>0, <3>1 DEF CreatesAlone, InitIsHonest
    <3>3. \A h \in Filings \ {f, g} : filing'[h].at = "creating" => StoreOf(h) # StoreOf(g)
      BY <1>1, <1>3, <2>0, <3>1 DEF CreatesAlone
    <3>4. to = "creating" => StoreOf(f) # StoreOf(g)
      <4> SUFFICES ASSUME StoreOf(f) = StoreOf(g) PROVE FALSE
        OBVIOUS
      <4>1. g \in Creating(StoreOf(f))
        BY <3>1 DEF Creating
      <4>2. Excuse(StoreOf(f)) \/ handle[StoreOf(f)].open
        BY <3>2, <4>1 DEF Excuse
      <4> QED BY <1>5, <3>2, <4>1, <4>2
    <3> QED BY <1>3, <2>0, <3>2, <3>3, <3>4
  <2> QED BY <2>1, <2>2
<1>10. StoredSoFar'
  <2> SUFFICES ASSUME NEW g \in Filings \ excused', NEW j \in 0..NumEntities,
                      j < filing'[g].k \/ filing'[g].at = "ended"
               PROVE  <<g, j>> \in rows[TableOf(j)]
    BY <1>2 DEF StoredSoFar, TableOf
  <2> QED BY <1>1, <1>3, <1>5 DEF StoredSoFar
<1>11. SeenSoFar'
  <2>1. UNCHANGED readVars
    OBVIOUS
  <2> QED BY <1>1, <1>2, <1>5, <2>1, SeenStays
<1>12. HasTable'
  <2> SUFFICES ASSUME NEW g \in Filings, filing'[g].at = "inserting" PROVE exists[StoreOf(g)]
    BY <1>2, <1>3 DEF HasTable
  <2>1. CASE g = f
    BY <1>1, <1>3, <1>4, <2>1 DEF InitIsHonest
  <2>2. CASE g # f
    BY <1>1, <1>3, <2>2 DEF HasTable
  <2> QED BY <2>1, <2>2
<1> QED BY <1>12, <1>6, <1>7, <1>8, <1>9, <1>10, <1>11 DEF IInv
LEMMA StartFilingStep == ASSUME IInv, NEW f \in Filings, StartFiling(f) PROVE IInv'
<1>1. /\ TypeOK /\ InitIsHonest /\ HasTable /\ LoggedAhead /\ LoggedBeforeStored /\ IncidentFirst
      /\ EntitiesHaveIncident /\ CreatesAlone /\ StoredSoFar /\ SeenSoFar
  BY DEF IInv
<1>2. /\ exists' = exists /\ rows' = rows /\ wal' = wal /\ rotated' = rotated /\ dropped' = dropped
      /\ unlogged' = unlogged /\ handle' = handle /\ reader' = reader /\ seen' = seen
      /\ missable' = missable /\ restarts' = restarts /\ faults' = faults /\ excused' = excused
  BY DEF StartFiling, disk, readVars, bounds
<1>3. /\ filing' \in [Filings -> Filing]
      /\ \A g \in Filings \ {f} : filing'[g] = filing[g]
      /\ filing'[f].at = "embedding"
      /\ \A g \in Filings : filing'[g].k = filing[g].k
  BY <1>1 DEF TypeOK, StartFiling, Move, Filing
<1>4. TypeOK' /\ InitIsHonest'
  BY <1>1, <1>2, <1>3 DEF TypeOK, WithinLimit, InitIsHonest
<1>5. LoggedAhead' /\ LoggedBeforeStored' /\ IncidentFirst' /\ EntitiesHaveIncident'
  BY <1>1, <1>2, <1>3 DEF LoggedAhead, RowOf, Entered, LoggedBeforeStored, IncidentFirst, EntitiesHaveIncident
<1>6. CreatesAlone' /\ HasTable'
  BY <1>1, <1>2, <1>3 DEF CreatesAlone, HasTable, StoreOf
<1>7. StoredSoFar' /\ SeenSoFar'
  BY <1>1, <1>2, <1>3 DEF StoredSoFar, TableOf, SeenSoFar
<1> QED BY <1>4, <1>5, <1>6, <1>7 DEF IInv

LEMMA EmbeddedStep == ASSUME IInv, NEW f \in Filings, Embedded(f) PROVE IInv'
<1>1. TypeOK /\ InitIsHonest /\ LoggedAhead
  BY DEF IInv
<1>2. /\ CallAdd(f) /\ UNCHANGED <<exists, rows, readVars, restarts>>
      /\ IF filing[f].k = 0 THEN Log(RowOf(f), 0) ELSE LogNothing(0)
  BY DEF Embedded
<1>3. RowOf(f) \in Row /\ StoreOf(f) \in Store /\ filing[f].k \in Nat
  BY <1>1, RowTypes, MemoryAssumption
<1>4. faults + 0 <= MaxFaults /\ faults \in Nat
  BY <1>1, MemoryAssumption DEF TypeOK
<1>5. /\ wal' \in Seq(Row) /\ rotated' \in Seq(Row) /\ WithinLimit'
      /\ dropped' \subseteq Row /\ unlogged' \subseteq Row /\ faults' \in 0..MaxFaults
      /\ Entered \subseteq Entered' /\ RowOf(f) \in Entered'
  <2>1. CASE filing[f].k = 0
    BY <1>1, <1>2, <1>3, <1>4, <2>1, LogEffect
  <2>2. CASE filing[f].k # 0
    <3>1. LogNothing(0) /\ RowOf(f) \in Entered
      BY <1>1, <1>2, <1>3, <2>2 DEF LoggedAhead
    <3> QED BY <1>1, <1>4, <3>1, LogNothingEffect
  <2> QED BY <2>1, <2>2
<1>6. CallInit(StoreOf(f)) /\ Come(f, StoreOf(f))
  BY <1>2 DEF CallAdd
<1>7. /\ handle' \in [Store -> Handle] /\ InitIsHonest'
      /\ \A s \in Store : handle[s].conn => handle'[s] = handle[s]
  BY <1>1, <1>2, <1>3, <1>6, CallInitEffect
<1>8. PICK to \in {"waiting", "creating", "inserting"} :
        /\ Move(f, to)
        /\ to = "creating" => handle[StoreOf(f)].conn /\ ~handle[StoreOf(f)].open
        /\ to = "inserting" => handle[StoreOf(f)].open
  BY <1>2 DEF CallAdd, Awaits, AddTo
<1> QED BY <1>2, <1>5, <1>6, <1>7, <1>8, ArriveStep

LEMMA AddContinuesStep == ASSUME IInv, NEW f \in Filings, AddContinues(f) PROVE IInv'
<1>1. TypeOK /\ InitIsHonest /\ LoggedAhead
  BY DEF IInv
<1>2. /\ filing[f].at = "waiting" /\ handle[StoreOf(f)].init = "done"
      /\ Move(f, AddTo(StoreOf(f))) /\ Come(f, StoreOf(f))
      /\ exists' = exists /\ rows' = rows /\ wal' = wal /\ rotated' = rotated /\ dropped' = dropped
      /\ unlogged' = unlogged /\ handle' = handle /\ faults' = faults
      /\ UNCHANGED <<exists, rows, readVars, restarts>>
  BY DEF AddContinues, disk, bounds
<1>3. StoreOf(f) \in Store
  BY <1>1, RowTypes
<1>4. handle' \in [Store -> Handle] /\ InitIsHonest' /\ handle[StoreOf(f)].conn
  BY <1>1, <1>2, <1>3 DEF TypeOK, InitIsHonest
<1>5. /\ wal' \in Seq(Row) /\ rotated' \in Seq(Row) /\ WithinLimit'
      /\ dropped' \subseteq Row /\ unlogged' \subseteq Row /\ faults' \in 0..MaxFaults
      /\ Entered' = Entered /\ RowOf(f) \in Entered
  BY <1>1, <1>2 DEF TypeOK, WithinLimit, Entered, LoggedAhead
<1>6. PICK to \in {"waiting", "creating", "inserting"} :
        /\ Move(f, to)
        /\ to = "creating" => handle[StoreOf(f)].conn /\ ~handle[StoreOf(f)].open
        /\ to = "inserting" => handle[StoreOf(f)].open
  BY <1>2, <1>4 DEF AddTo
<1> QED BY <1>2, <1>4, <1>5, <1>6, ArriveStep

LEMMA FailsStep == ASSUME IInv, NEW f \in Filings, Fails(f) PROVE IInv'
<1>1. faults + 1 <= MaxFaults
  BY MemoryAssumption DEF IInv, TypeOK, Fails
<1>2. /\ f \in excused' /\ excused \subseteq excused' /\ excused' \subseteq Filings \cup Readers
      /\ GiveUp(f, 1) /\ UNCHANGED <<exists, rows, handle, readVars, restarts>>
  BY DEF IInv, TypeOK, Fails
<1> QED BY <1>1, <1>2, GiveUpStep

LEMMA AddRejectedStep == ASSUME IInv, NEW f \in Filings, AddRejected(f) PROVE IInv'
<1>1. TypeOK /\ StoreOf(f) \in Store
  BY RowTypes DEF IInv
<1>2. faults + 0 <= MaxFaults
  BY <1>1, MemoryAssumption DEF TypeOK
<1>3. /\ handle[StoreOf(f)].init = "rejected" /\ GiveUp(f, 0) /\ Come(f, StoreOf(f))
      /\ UNCHANGED <<exists, rows, handle, readVars, restarts>>
  BY DEF AddRejected
<1>4. Excuse(StoreOf(f))
  BY <1>3 DEF Excuse
<1>5. f \in excused' /\ excused \subseteq excused' /\ excused' \subseteq Filings \cup Readers
  BY <1>1, <1>3, <1>4, ComeEffect
<1> QED BY <1>2, <1>3, <1>5, GiveUpStep

LEMMA CreateRefusedStep == ASSUME IInv, NEW f \in Filings, CreateRefused(f) PROVE IInv'
<1>1. TypeOK /\ StoreOf(f) \in Store /\ InitIsHonest /\ CreatesAlone
  BY RowTypes DEF IInv
<1>2. faults + 0 <= MaxFaults
  BY <1>1, MemoryAssumption DEF TypeOK
<1>3. /\ filing[f].at = "creating" /\ exists[StoreOf(f)] /\ GiveUp(f, 0) /\ excused' = excused
      /\ UNCHANGED <<exists, rows, handle, readVars, restarts>>
  BY DEF CreateRefused
<1>4. f \in excused
  BY <1>1, <1>3 DEF CreatesAlone, InitIsHonest
<1>5. excused' \subseteq Filings \cup Readers
  BY <1>1, <1>3 DEF TypeOK
<1> QED BY <1>2, <1>3, <1>4, <1>5, GiveUpStep

LEMMA InsertedStep == ASSUME IInv, NEW f \in Filings, Inserted(f) PROVE IInv'
<1>1. TypeOK /\ StoreOf(f) \in Store /\ InitIsHonest /\ HasTable
  BY RowTypes DEF IInv
<1>2. /\ filing[f].at = "inserting" /\ Stored(f) /\ NextEntity(f, 0) /\ exists' = exists
      /\ handle' = handle /\ UNCHANGED <<readVars, restarts, excused>>
  BY DEF Inserted
<1>3. exists' \in [Store -> BOOLEAN] /\ handle' \in [Store -> Handle]
  BY <1>1, <1>2 DEF TypeOK
<1>4. \A st \in Store \ {StoreOf(f)} : rows'[st] = rows[st]
  BY <1>1, <1>2 DEF TypeOK, Stored
<1>5. exists[StoreOf(f)] => InitIsHonest'
  BY <1>1, <1>2, <1>4 DEF InitIsHonest
<1>6. exists[StoreOf(f)] /\ \A st \in Store : exists[st] => exists'[st]
  BY <1>1, <1>2 DEF HasTable
<1> QED BY <1>2, <1>3, <1>5, <1>6, StoreStep

LEMMA CreatedStep == ASSUME IInv, NEW f \in Filings, Created(f) PROVE IInv'
<1>1. TypeOK /\ StoreOf(f) \in Store /\ InitIsHonest
  BY RowTypes DEF IInv
<1>2. /\ filing[f].at = "creating" /\ Stored(f) /\ NextEntity(f, 0)
      /\ exists' = [exists EXCEPT ![StoreOf(f)] = TRUE]
      /\ handle' = [handle EXCEPT ![StoreOf(f)].open = TRUE]
      /\ UNCHANGED <<readVars, restarts, excused>>
  BY DEF Created
<1>3. /\ exists' \in [Store -> BOOLEAN] /\ handle' \in [Store -> Handle]
      /\ exists'[StoreOf(f)]
      /\ handle'[StoreOf(f)] = [handle[StoreOf(f)] EXCEPT !.open = TRUE]
      /\ \A st \in Store \ {StoreOf(f)} : exists'[st] = exists[st] /\ handle'[st] = handle[st]
  BY <1>1, <1>2 DEF TypeOK, Handle
<1>4. \A st \in Store \ {StoreOf(f)} : rows'[st] = rows[st]
  BY <1>1, <1>2 DEF TypeOK, Stored
<1>5. InitIsHonest'
  BY <1>1, <1>3, <1>4 DEF TypeOK, InitIsHonest, Handle
<1>6. \A st \in Store : exists[st] => exists'[st]
  BY <1>3
<1> QED BY <1>2, <1>3, <1>5, <1>6, StoreStep
-----------------------------------------------------------------------------
(* Debug requests. *)

(* What a debug request does to the stores is no concern of the filings.     *)
LEMMA ReaderStep ==
  ASSUME IInv, NEW r \in Readers, NEW st \in Store, Come(r, st),
         handle' \in [Store -> Handle], InitIsHonest',
         \A s \in Store : handle[s].conn => handle'[s] = handle[s],
         reader' \in [Readers -> Reader], seen' \in [Readers -> SUBSET Row],
         missable' \in [Readers -> SUBSET Row], SeenSoFar', UNCHANGED <<disk, filing, bounds>>
  PROVE  IInv'
<1>1. /\ TypeOK /\ InitIsHonest /\ HasTable /\ LoggedAhead /\ LoggedBeforeStored /\ IncidentFirst
      /\ EntitiesHaveIncident /\ CreatesAlone /\ StoredSoFar
  BY DEF IInv
<1>2. /\ exists' = exists /\ rows' = rows /\ wal' = wal /\ rotated' = rotated /\ dropped' = dropped
      /\ unlogged' = unlogged /\ filing' = filing /\ restarts' = restarts /\ faults' = faults
  BY DEF disk, bounds
<1>3. excused \subseteq excused' /\ excused' \subseteq Filings \cup Readers
  BY <1>1, ComeEffect
<1>4. TypeOK'
  BY <1>1, <1>2, <1>3 DEF TypeOK, WithinLimit
<1>5. HasTable' /\ LoggedAhead' /\ LoggedBeforeStored'
  BY <1>1, <1>2 DEF HasTable, StoreOf, LoggedAhead, RowOf, Entered, LoggedBeforeStored
<1>6. IncidentFirst' /\ EntitiesHaveIncident' /\ StoredSoFar'
  BY <1>1, <1>2, <1>3 DEF IncidentFirst, EntitiesHaveIncident, StoredSoFar, TableOf
<1>7. CreatesAlone'
  <2> SUFFICES ASSUME NEW f \in Filings \ excused', filing[f].at = "creating"
               PROVE  /\ handle'[StoreOf(f)].init = "done" /\ ~handle'[StoreOf(f)].open
                      /\ \A g \in Filings \ {f} : filing[g].at = "creating" => StoreOf(g) # StoreOf(f)
    BY <1>2 DEF CreatesAlone, StoreOf
  <2>1. f \notin excused /\ StoreOf(f) \in Store
    BY <1>1, <1>3, RowTypes
  <2>2. handle[StoreOf(f)].init = "done" /\ handle[StoreOf(f)].conn
    BY <1>1, <2>1 DEF CreatesAlone, InitIsHonest
  <2>3. handle'[StoreOf(f)] = handle[StoreOf(f)]
    BY <2>1, <2>2
  <2> QED BY <1>1, <2>1, <2>3 DEF CreatesAlone
<1> QED BY <1>4, <1>5, <1>6, <1>7 DEF IInv

(* A debug request that looks at a store whose init is over, with no excuse,  *)
(* sees all its rows: they are in a table that is open, or there are none.    *)
LEMMA LookEffect ==
  ASSUME TypeOK, InitIsHonest, NEW r \in Readers, NEW st \in Store, Look(r, st)
  PROVE  /\ reader' \in [Readers -> Reader] /\ seen' \in [Readers -> SUBSET Row]
         /\ \A q \in Readers \ {r} : reader'[q] = reader[q] /\ seen'[q] = seen[q]
         /\ reader'[r].at \in {"idle", "ended"}
         /\ seen[r] \subseteq seen'[r]
         /\ ~Excuse(st) /\ (handle[st].conn \/ Settled(st)) => rows[st] \subseteq seen'[r]
<1>1. /\ reader' \in [Readers -> Reader]
      /\ \A q \in Readers \ {r} : reader'[q] = reader[q]
      /\ reader'[r].at \in {"idle", "ended"}
  BY DEF TypeOK, Look, LookOn, Reader, Store
<1>2. /\ seen' \in [Readers -> SUBSET Row]
      /\ \A q \in Readers \ {r} : seen'[q] = seen[q]
      /\ seen[r] \subseteq seen'[r]
      /\ handle[st].open => rows[st] \subseteq seen'[r]
  BY DEF TypeOK, Look
<1>3. ASSUME ~Excuse(st), handle[st].conn \/ Settled(st), ~handle[st].open PROVE rows[st] = {}
  <2>1. handle[st].init # "rejected" /\ (handle[st].conn => handle[st].at = "off")
    BY <1>3 DEF Excuse
  <2>2. handle[st].init = "done"
    BY <1>3, <2>1 DEF TypeOK, InitIsHonest, Settled, Handle
  <2> QED BY <1>3, <2>2 DEF InitIsHonest
<1> QED BY <1>1, <1>2, <1>3

LEMMA RecallStep == ASSUME IInv, NEW r \in Readers, Recall(r) PROVE IInv'
<1> DEFINE st == reader[r].st
<1>1. TypeOK /\ InitIsHonest /\ SeenSoFar /\ st \in Store
  BY DEF IInv, TypeOK, Reader
<1>2. /\ reader[r].at = "idle" /\ CallInit(st) /\ Come(r, st)
      /\ missable' = [missable EXCEPT ![r] = @ \cup rows[st]]
      /\ IF Awaits(st) THEN reader' = [reader EXCEPT ![r].at = "waiting"] /\ UNCHANGED seen
                       ELSE Look(r, st)
      /\ UNCHANGED <<disk, filing, bounds>>
  BY DEF Recall
<1>3. exists' = exists /\ rows' = rows
  BY <1>2 DEF disk
<1>4. /\ handle' \in [Store -> Handle] /\ InitIsHonest'
      /\ \A s \in Store : handle[s].conn => handle'[s] = handle[s]
  BY <1>1, <1>2, <1>3, CallInitEffect
<1>5. /\ missable' \in [Readers -> SUBSET Row] /\ missable'[r] = missable[r] \cup rows[st]
      /\ \A q \in Readers \ {r} : missable'[q] = missable[q]
  BY <1>1, <1>2 DEF TypeOK
<1>6. /\ excused \subseteq excused' /\ (Excuse(st) => r \in excused')
      /\ \A q \in Readers : reader[q].st \in Store
  BY <1>1, <1>2, ComeEffect DEF TypeOK, Reader
<1>7. r \notin excused => missable[r] \subseteq seen[r]
  BY <1>1, <1>2 DEF SeenSoFar
<1>8. CASE Awaits(st)
  <2>1. /\ reader' \in [Readers -> Reader] /\ seen' = seen
        /\ \A q \in Readers \ {r} : reader'[q] = reader[q]
        /\ reader'[r].at = "waiting" /\ reader'[r].st = st
    BY <1>1, <1>2, <1>8 DEF TypeOK, Reader
  <2>2. SeenSoFar'
    <3> SUFFICES ASSUME NEW q \in Readers \ excused'
                 PROVE  missable'[q] \subseteq
                          seen'[q] \cup (IF reader'[q].at = "waiting" THEN rows'[reader'[q].st] ELSE {})
      BY DEF SeenSoFar
    <3>1. CASE q = r
      BY <1>3, <1>5, <1>6, <1>7, <2>1, <3>1
    <3>2. CASE q # r
      BY <1>1, <1>3, <1>5, <1>6, <2>1, <3>2 DEF SeenSoFar
    <3> QED BY <3>1, <3>2
  <2>3. seen' \in [Readers -> SUBSET Row]
    BY <1>1, <2>1 DEF TypeOK
  <2> QED BY <1>1, <1>2, <1>4, <1>5, <2>1, <2>2, <2>3, ReaderStep
<1>9. CASE ~Awaits(st)
  <2>1. Look(r, st) /\ handle[st].conn
    BY <1>2, <1>9 DEF Awaits
  <2>2. /\ reader' \in [Readers -> Reader] /\ seen' \in [Readers -> SUBSET Row]
        /\ \A q \in Readers \ {r} : reader'[q] = reader[q] /\ seen'[q] = seen[q]
        /\ reader'[r].at \in {"idle", "ended"}
        /\ seen[r] \subseteq seen'[r]
        /\ ~Excuse(st) => rows[st] \subseteq seen'[r]
    BY <1>1, <2>1, LookEffect
  <2>3. SeenSoFar'
    <3> SUFFICES ASSUME NEW q \in Readers \ excused'
                 PROVE  missable'[q] \subseteq
                          seen'[q] \cup (IF reader'[q].at = "waiting" THEN rows'[reader'[q].st] ELSE {})
      BY DEF SeenSoFar
    <3>1. CASE q = r
      BY <1>5, <1>6, <1>7, <2>2, <3>1
    <3>2. CASE q # r
      BY <1>1, <1>3, <1>5, <1>6, <2>2, <3>2 DEF SeenSoFar
    <3> QED BY <3>1, <3>2
  <2> QED BY <1>1, <1>2, <1>4, <1>5, <2>2, <2>3, ReaderStep
<1> QED BY <1>8, <1>9

LEMMA RecallContinuesStep == ASSUME IInv, NEW r \in Readers, RecallContinues(r) PROVE IInv'
<1> DEFINE st == reader[r].st
<1>1. TypeOK /\ InitIsHonest /\ SeenSoFar /\ st \in Store
  BY DEF IInv, TypeOK, Reader
<1>2. /\ reader[r].at = "waiting" /\ Settled(st) /\ Look(r, st) /\ Come(r, st)
      /\ missable' = missable /\ handle' = handle /\ exists' = exists /\ rows' = rows
      /\ UNCHANGED <<disk, filing, bounds>>
  BY DEF RecallContinues, disk
<1>3. handle' \in [Store -> Handle] /\ InitIsHonest' /\ missable' \in [Readers -> SUBSET Row]
  BY <1>1, <1>2 DEF TypeOK, InitIsHonest
<1>4. /\ excused \subseteq excused' /\ (Excuse(st) => r \in excused')
      /\ \A q \in Readers : reader[q].st \in Store
  BY <1>1, <1>2, ComeEffect DEF TypeOK, Reader
<1>5. /\ reader' \in [Readers -> Reader] /\ seen' \in [Readers -> SUBSET Row]
      /\ \A q \in Readers \ {r} : reader'[q] = reader[q] /\ seen'[q] = seen[q]
      /\ seen[r] \subseteq seen'[r]
      /\ ~Excuse(st) => rows[st] \subseteq seen'[r]
  BY <1>1, <1>2, LookEffect
<1>6. SeenSoFar'
  <2> SUFFICES ASSUME NEW q \in Readers \ excused'
               PROVE  missable'[q] \subseteq
                        seen'[q] \cup (IF reader'[q].at = "waiting" THEN rows'[reader'[q].st] ELSE {})
    BY DEF SeenSoFar
  <2>1. CASE q = r
    <3>1. missable[r] \subseteq seen[r] \cup rows[st]
      BY <1>1, <1>2, <1>4, <2>1 DEF SeenSoFar
    <3> QED BY <1>2, <1>4, <1>5, <2>1, <3>1
  <2>2. CASE q # r
    BY <1>1, <1>2, <1>4, <1>5, <2>2 DEF SeenSoFar
  <2> QED BY <2>1, <2>2
<1> QED BY <1>1, <1>2, <1>3, <1>5, <1>6, ReaderStep

(* Who was answered with nothing is excused from having seen. *)
LEMMA RecallFailsStep == ASSUME IInv, NEW r \in Readers, RecallFails(r) PROVE IInv'
<1> DEFINE st == reader[r].st
<1>1. /\ TypeOK /\ InitIsHonest /\ HasTable /\ LoggedAhead /\ LoggedBeforeStored /\ IncidentFirst
      /\ EntitiesHaveIncident /\ CreatesAlone /\ StoredSoFar /\ SeenSoFar /\ st \in Store
  BY DEF IInv, TypeOK, Reader
<1>2. /\ exists' = exists /\ rows' = rows /\ wal' = wal /\ rotated' = rotated /\ dropped' = dropped
      /\ unlogged' = unlogged /\ handle' = handle /\ filing' = filing /\ restarts' = restarts
      /\ seen' = seen /\ missable' = missable /\ LookOn(r, st) /\ excused' = excused \cup {r}
      /\ faults < MaxFaults /\ faults' = faults + 1
  BY DEF RecallFails, disk, Fault
<1>3. /\ reader' \in [Readers -> Reader]
      /\ \A q \in Readers \ {r} : reader'[q] = reader[q]
  BY <1>1, <1>2 DEF TypeOK, LookOn, Reader, Store
<1>4. /\ faults \in Nat /\ MaxFaults \in Nat /\ MaxWal \in Nat /\ Len(wal) \in Nat
  BY <1>1, MemoryAssumption DEF TypeOK
<1>5. WithinLimit' /\ faults' \in 0..MaxFaults
  BY <1>1, <1>2, <1>4 DEF TypeOK, WithinLimit
<1>6. TypeOK'
  BY <1>1, <1>2, <1>3, <1>5 DEF TypeOK
<1>7. InitIsHonest' /\ HasTable' /\ LoggedAhead' /\ LoggedBeforeStored'
  BY <1>1, <1>2 DEF InitIsHonest, HasTable, StoreOf, LoggedAhead, RowOf, Entered, LoggedBeforeStored
<1>8. IncidentFirst' /\ EntitiesHaveIncident' /\ StoredSoFar' /\ CreatesAlone'
  BY <1>1, <1>2 DEF IncidentFirst, EntitiesHaveIncident, StoredSoFar, TableOf, CreatesAlone, StoreOf
<1>9. SeenSoFar'
  <2> SUFFICES ASSUME NEW q \in Readers \ excused'
               PROVE  missable'[q] \subseteq
                        seen'[q] \cup (IF reader'[q].at = "waiting" THEN rows'[reader'[q].st] ELSE {})
    BY DEF SeenSoFar
  <2>1. q # r /\ q \notin excused
    BY <1>2
  <2> QED BY <1>1, <1>2, <1>3, <2>1 DEF SeenSoFar
<1> QED BY <1>6, <1>7, <1>8, <1>9 DEF IInv

-----------------------------------------------------------------------------
(* Restarts, and the invariant. *)

LEMMA RestartStep == ASSUME IInv, Restart PROVE IInv'
<1>1. /\ TypeOK /\ InitIsHonest /\ LoggedAhead /\ LoggedBeforeStored /\ IncidentFirst
      /\ EntitiesHaveIncident /\ CreatesAlone /\ StoredSoFar /\ SeenSoFar
  BY DEF IInv
<1>2. /\ exists' = exists /\ rows' = rows /\ wal' = wal /\ rotated' = rotated /\ dropped' = dropped
      /\ unlogged' = unlogged /\ seen' = seen /\ missable' = missable /\ faults' = faults
      /\ handle' = [st \in Store |-> NewHandle]
  BY DEF Restart, disk
<1>3. /\ filing' \in [Filings -> Filing]
      /\ \A f \in Filings : filing'[f].k = filing[f].k /\ filing'[f].at \in {"idle", "ended"}
      /\ \A f \in Filings : filing'[f].at = "ended" => filing[f].at # "idle"
  BY <1>1 DEF TypeOK, Restart, Filing
<1>4. /\ reader' \in [Readers -> Reader]
      /\ \A r \in Readers : reader'[r].at # "waiting"
      /\ \A r \in Readers : reader[r].at = "waiting" => reader[r] # NewReader
  <2>1. /\ reader' = [r \in Readers |-> IF reader[r] = NewReader THEN reader[r]
                                       ELSE [reader[r] EXCEPT !.at = "ended"]]
        /\ reader \in [Readers -> Reader]
    BY <1>1 DEF TypeOK, Restart
  <2>2. NewReader.at = "idle" /\ NewReader.st \in Store
    BY DEF NewReader, Store
  <2>3. ASSUME NEW r \in Readers
        PROVE  /\ reader'[r] \in Reader /\ reader'[r].at # "waiting"
               /\ reader[r].at = "waiting" => reader[r] # NewReader
    BY <2>1, <2>2 DEF Reader
  <2> QED BY <2>1, <2>3
<1>5. /\ excused \subseteq excused' /\ excused' \subseteq Filings \cup Readers
      /\ \A f \in Filings : filing[f].at \notin {"idle", "ended"} => f \in excused'
      /\ \A r \in Readers : reader[r].at = "waiting" => r \in excused'
  BY <1>1, <1>4 DEF TypeOK, Restart
<1>6. TypeOK'
  <2>1. restarts' \in 0..MaxRestarts
    BY <1>1, MemoryAssumption DEF TypeOK, Restart
  <2>2. handle' \in [Store -> Handle]
    BY <1>2 DEF NewHandle, Handle
  <2> QED BY <1>1, <1>2, <1>3, <1>4, <1>5, <2>1, <2>2 DEF TypeOK, WithinLimit
<1>7. InitIsHonest'
  BY <1>1, <1>2 DEF InitIsHonest, NewHandle
<1>8. HasTable' /\ CreatesAlone'
  BY <1>3 DEF HasTable, CreatesAlone
<1>9. LoggedAhead' /\ LoggedBeforeStored'
  BY <1>1, <1>2, <1>3 DEF LoggedAhead, RowOf, Entered, LoggedBeforeStored
<1>10. IncidentFirst' /\ EntitiesHaveIncident'
  BY <1>1, <1>2, <1>3 DEF IncidentFirst, EntitiesHaveIncident
<1>11. StoredSoFar'
  BY <1>1, <1>2, <1>3, <1>5 DEF StoredSoFar, TableOf
<1>12. SeenSoFar'
  BY <1>1, <1>2, <1>4, <1>5 DEF SeenSoFar
<1> QED BY <1>6, <1>7, <1>8, <1>9, <1>10, <1>11, <1>12 DEF IInv

LEMMA InitIInv == Init => IInv
<1> SUFFICES ASSUME Init PROVE IInv
  OBVIOUS
<1>1. PICK there \in BOOLEAN :
        /\ exists = [st \in Store |-> there]
        /\ rows = [st \in Store |-> IF there THEN {Old} ELSE {}]
  BY DEF Init
<1>2. /\ wal \in Seq(Row) /\ rotated \in Seq(Row) /\ Len(wal) = 0
      /\ 0 \in 0..NumEntities /\ 0 \in 0..MaxFaults /\ 0 \in 0..MaxRestarts /\ MaxWal \in Nat
  BY MemoryAssumption DEF Init
<1>3. TypeOK
  <2>1. exists \in [Store -> BOOLEAN] /\ rows \in [Store -> SUBSET Row]
    BY <1>1 DEF Row
  <2>2. handle \in [Store -> Handle] /\ reader \in [Readers -> Reader]
    BY DEF Init, NewHandle, Handle, NewReader, Reader, Store
  <2>3. filing \in [Filings -> Filing]
    BY <1>2 DEF Init, Filing
  <2> QED BY <1>2, <2>1, <2>2, <2>3 DEF Init, TypeOK, WithinLimit
<1>4. InitIsHonest /\ EntitiesHaveIncident /\ LoggedBeforeStored
  <2>1. \A st \in Store : handle[st] = NewHandle
    BY DEF Init
  <2>2. InitIsHonest
    BY <1>1, <2>1 DEF InitIsHonest, NewHandle
  <2>3. LoggedBeforeStored
    BY <1>1 DEF LoggedBeforeStored, Store
  <2>4. EntitiesHaveIncident
    <3> SUFFICES ASSUME NEW f \in Filings, NEW k \in 1..NumEntities, <<f, k>> \in rows["entity"]
                 PROVE  FALSE
      BY DEF EntitiesHaveIncident
    <3>1. <<f, k>> \in Filings \X (0..NumEntities)
      BY MemoryAssumption
    <3> QED BY <1>1, <3>1, MemoryAssumption DEF Store
  <2> QED BY <2>2, <2>3, <2>4
<1>5. HasTable /\ LoggedAhead /\ IncidentFirst /\ CreatesAlone
  BY DEF Init, HasTable, LoggedAhead, IncidentFirst, CreatesAlone
<1>6. StoredSoFar /\ SeenSoFar
  BY DEF Init, StoredSoFar, SeenSoFar
<1> QED BY <1>3, <1>4, <1>5, <1>6 DEF IInv

LEMMA NextStep == IInv /\ [Next]_vars => IInv'
<1> SUFFICES ASSUME IInv, [Next]_vars PROVE IInv'
  OBVIOUS
<1>1. CASE UNCHANGED vars
  <2>1. /\ exists' = exists /\ rows' = rows /\ wal' = wal /\ rotated' = rotated /\ dropped' = dropped
        /\ unlogged' = unlogged /\ handle' = handle /\ filing' = filing /\ reader' = reader
        /\ seen' = seen /\ missable' = missable /\ faults' = faults /\ restarts' = restarts
        /\ excused' = excused
    BY <1>1 DEF vars, disk, readVars, bounds
  <2>2. TypeOK' /\ InitIsHonest'
    BY <2>1 DEF IInv, TypeOK, WithinLimit, InitIsHonest
  <2>3. HasTable' /\ LoggedAhead' /\ LoggedBeforeStored' /\ IncidentFirst' /\ EntitiesHaveIncident'
    BY <2>1 DEF IInv, HasTable, StoreOf, LoggedAhead, RowOf, Entered, LoggedBeforeStored,
       IncidentFirst, EntitiesHaveIncident
  <2>4. CreatesAlone' /\ StoredSoFar' /\ SeenSoFar'
    BY <2>1 DEF IInv, CreatesAlone, StoreOf, StoredSoFar, TableOf, SeenSoFar
  <2> QED BY <2>2, <2>3, <2>4 DEF IInv
<1>2. CASE Next
  BY <1>2, ConnectedStep, ListedStep, OpenedStep, InitThrowsStep, StartFilingStep, EmbeddedStep,
     FailsStep, AddContinuesStep, AddRejectedStep, InsertedStep, CreatedStep, CreateRefusedStep,
     RecallStep, RecallContinuesStep, RecallFailsStep, RestartStep DEF Next
<1> QED BY <1>1, <1>2

LEMMA Invariance == Spec => []IInv
  BY InitIInv, NextStep, PTL DEF Spec

-----------------------------------------------------------------------------
(* The types of Memory, and the limit of the log.                            *)
THEOREM TypeCorrect == Spec => []TypeOK
  BY Invariance, PTL DEF IInv

(* No row is in a table that was not logged first, unless the log could not   *)
(* be written (MemoryWAL.append).                                            *)
THEOREM LoggedFirst == Spec => []LoggedBeforeStored
  BY Invariance, PTL DEF IInv

(* No entity is stored without its incident, whatever fails and whoever comes *)
(* in between (the filing of POST /execute).                                 *)
THEOREM NoOrphanedEntity == Spec => []EntitiesHaveIncident
  BY Invariance, PTL DEF IInv

(* A filing is lost, or a debug request remembers nothing, only for the       *)
(* reasons Excuse names: the race of the lazy stores is the only silent one.   *)
THEOREM LossIsExplained == Spec => []LossHasACause
<1>1. IInv => LossHasACause
  <2> SUFFICES ASSUME IInv PROVE LossHasACause
    OBVIOUS
  <2>1. NumEntities \in Nat /\ StoredSoFar /\ SeenSoFar
    BY MemoryAssumption DEF IInv
  <2>2. ASSUME NEW f \in Filings \ excused, filing[f].at = "ended"
        PROVE  <<f, 0>> \in rows["incident"] /\ \A k \in 1..NumEntities : <<f, k>> \in rows["entity"]
    <3>1. \A j \in 0..NumEntities : <<f, j>> \in rows[TableOf(j)]
      BY <2>1, <2>2 DEF StoredSoFar
    <3>2. 0 \in 0..NumEntities /\ \A k \in 1..NumEntities : k \in 0..NumEntities /\ k # 0
      BY <2>1
    <3> QED BY <3>1, <3>2 DEF TableOf
  <2>3. ASSUME NEW r \in Readers \ excused, reader[r].at = "ended" PROVE missable[r] \subseteq seen[r]
    BY <2>1, <2>3 DEF SeenSoFar
  <2> QED BY <2>2, <2>3 DEF LossHasACause
<1> QED BY <1>1, Invariance, PTL
=============================================================================
