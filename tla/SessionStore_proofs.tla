------------------------- MODULE SessionStore_proofs -------------------------
(***************************************************************************)
(* Two components that keep a bounded log and read it back: the session       *)
(* store with its replay, and the context window.                            *)
(*                                                                         *)
(* The session store, for any number of starts, requests, crashes and refused *)
(* writes and plans and pipelines of any length: the inductive invariant is  *)
(* the divergence of the two stores with the write that is due counted in,   *)
(* and that the running server's own row is the newest.  For the resume        *)
(* prompt it is joined by the order of the rows (Recency), for the replay by   *)
(* the script that the log of a session with one request follows (OneRequest). *)
(*                                                                         *)
(* The context window, for budgets and contents of any size: its inductive    *)
(* invariant carries what the tiers add up to at each stage of a request.    *)
(*                                                                         *)
(* Both read their sequences back with functions recursive over Nat, so the   *)
(* proofs begin with the induction they need, on sets instead of predicates.  *)
(***************************************************************************)
EXTENDS SessionStore, ContextWindow, SequenceTheorems, WellFoundedInduction, TLAPS

-----------------------------------------------------------------------------
(* Induction. *)

(* A set of naturals that has an element has a least one. *)
LEMMA Least ==
  ASSUME NEW S \in SUBSET Nat, S # {}
  PROVE  \E m \in S : \A k \in S : m <= k
<1> DEFINE R == {ss \in Nat \X Nat : ss[1] < ss[2]}
<1>1. IsWellFoundedOn(R, Nat)
  BY NatLessThanWellFounded DEF OpToRel
<1>2. PICK m \in S : \A k \in S : <<k, m>> \notin R
  <2> HIDE DEF R
  <2> QED BY <1>1, WFMin
<1>3. \A k \in S : ~(k < m)
  BY <1>2
<1> QED BY <1>3

(* A set of naturals that has 0 and with every number the next has them all. *)
LEMMA Induction ==
  ASSUME NEW S, 0 \in S, \A n \in Nat : n \in S => n + 1 \in S
  PROVE  Nat \subseteq S
<1> DEFINE T == {n \in Nat : n \notin S}
<1>1. CASE T = {}
  BY <1>1
<1>2. CASE T # {}
  <2>1. PICK m \in T : \A k \in T : m <= k
    <3> HIDE DEF T
    <3>1. T \in SUBSET Nat BY DEF T
    <3> QED BY <3>1, <1>2, Least
  <2>2. m \in Nat \ {0} 
    BY <2>1
  <2>3. m - 1 \in Nat /\ m - 1 \notin T
    BY <2>1, <2>2
  <2> QED BY <2>1, <2>2, <2>3
<1> QED BY <1>1, <1>2

(* A sequence that starts in S[0] and steps from S[n - 1] to S[n] stays there. *)
LEMMA Stays ==
  ASSUME NEW N \in Nat, NEW S, NEW f, f[0] \in S[0],
         \A n \in 1..N : f[n - 1] \in S[n - 1] => f[n] \in S[n]
  PROVE  \A n \in 0..N : f[n] \in S[n]
<1> DEFINE T == {n \in Nat : n <= N => f[n] \in S[n]}
<1>1. 0 \in T
  OBVIOUS
<1>2. ASSUME NEW n \in Nat, n \in T PROVE n + 1 \in T
  <2> SUFFICES ASSUME n + 1 <= N PROVE f[n + 1] \in S[n + 1]
    OBVIOUS
  <2>1. f[n] \in S[n] /\ n + 1 \in 1..N /\ (n + 1) - 1 = n
    BY <1>2
  <2> QED BY <2>1
<1>3. Nat \subseteq T
  <2> HIDE DEF T
  <2> QED BY <1>1, <1>2, Induction
<1> QED BY <1>3

(* What a recursion from a by G computes, with the n-th value in S[n]. *)
StepsWithin(N, G, S) == \A n \in 1..N : \A x \in S[n - 1] : G[n][x] \in S[n]
Iteration(h, N, a, G, S) ==
  /\ h \in [0..N -> UNION {S[n] : n \in 0..N}] /\ h[0] = a
  /\ \A n \in 0..N : h[n] \in S[n]
  /\ \A n \in 1..N : h[n] = G[n][h[n - 1]]

(* Such a recursion has a solution, which is what makes the recursive functions *)
(* of the two models the functions their definitions say.                      *)
LEMMA Iterates ==
  ASSUME NEW N \in Nat, NEW S, NEW a \in S[0], NEW G, StepsWithin(N, G, S)
  PROVE  \E h : Iteration(h, N, a, G, S)
<1> USE DEF StepsWithin
<1> DEFINE Upto(m, h) == /\ h[0] = a /\ \A n \in 0..m : h[n] \in S[n]
                         /\ \A n \in 1..m : h[n] = G[n][h[n - 1]]
           T == {m \in Nat : m > N \/ \E h : Upto(m, h)}
<1>1. 0 \in T
  <2>1. Upto(0, [n \in 0..0 |-> a])
    OBVIOUS
  <2> QED BY <2>1
<1>2. ASSUME NEW m \in Nat, m \in T PROVE m + 1 \in T
  <2>1. CASE m + 1 > N
    BY <2>1
  <2>2. CASE m + 1 <= N
    <3>1. PICK h : Upto(m, h)
      BY <1>2, <2>2
    <3> DEFINE g == [n \in 0..(m + 1) |-> IF n = m + 1 THEN G[n][h[m]] ELSE h[n]]
    <3>2. m + 1 \in 1..N /\ h[m] \in S[m] /\ (m + 1) - 1 = m
      BY <2>2, <3>1
    <3>3. G[m + 1][h[m]] \in S[m + 1]
      BY <3>2
    <3>4. \A n \in 0..(m + 1) : g[n] \in S[n]
      BY <3>1, <3>3
    <3>5. g[0] = a
      BY <3>1
    <3>6. ASSUME NEW n \in 1..(m + 1) PROVE g[n] = G[n][g[n - 1]]
      <4>1. n - 1 \in 0..m /\ n \in 0..(m + 1) /\ g[n - 1] = h[n - 1]
        OBVIOUS
      <4>2. CASE n = m + 1
        <5>1. n - 1 = m
          BY <4>2
        <5> QED BY <4>1, <4>2, <5>1
      <4>3. CASE n # m + 1
        <5>1. n \in 1..m /\ g[n] = h[n]
          BY <4>1, <4>3
        <5> QED BY <3>1, <4>1, <5>1
      <4> QED BY <4>2, <4>3
    <3>7. Upto(m + 1, g)
      BY <3>4, <3>5, <3>6
    <3> QED
      <4> HIDE DEF Upto, g
      <4> QED BY <3>7
  <2> QED BY <2>1, <2>2
<1>3. Nat \subseteq T
  <2> HIDE DEF T
  <2> QED BY <1>1, <1>2, Induction
<1>4. PICK h : Upto(N, h)
  BY <1>3
<1> DEFINE g == [n \in 0..N |-> h[n]]
<1>5. g[0] = a /\ \A n \in 0..N : g[n] \in S[n]
  BY <1>4
<1>6. \A n \in 1..N : g[n] = G[n][g[n - 1]]
  BY <1>4
<1>7. g \in [0..N -> UNION {S[n] : n \in 0..N}]
  BY <1>5
<1> QED
  <2> HIDE DEF g
  <2> QED BY <1>5, <1>6, <1>7 DEF Iteration

-----------------------------------------------------------------------------
(* The two stores. *)

(* The second half of a write is due to the running server, and repeats what *)
(* the first half put into the file.                                        *)
HalfIsDue ==
  /\ half # NoHalf => server # 0
  /\ half.k = "row" => half.state = file[server]
  /\ half.k = "entry" => half.entry \in ToSet(log[server])
  /\ job.kind # "none" => server # 0
  /\ job.kind = "boot" => half.k = "row"

Due(s) == IF half.k = "entry" /\ s = server THEN 1 ELSE 0
Stale(s) == IF row[s] = file[s] \/ (half.k = "row" /\ s = server) THEN 0 ELSE 1

(* The lines ever logged by a session. *)
Lines(s) == ToSet(cut[s]) \cup ToSet(log[s])
NumLines(s) == Len(cut[s]) + Len(log[s])

(* DivergenceIsOneWrite between the halves too. *)
DiffersByMissed ==
  \A s \in Session :
    /\ ToSet(table[s]) \subseteq Lines(s)
    /\ Len(table[s]) + Due(s) <= NumLines(s)
    /\ NumLines(s) + Stale(s) <= Len(table[s]) + missed[s] + Due(s)

(* Once a server has started, its own row is the newest. *)
OwnIsNewest == server # 0 /\ job.kind # "boot" => recent # <<>> /\ recent[1] = server

IInv == TypeOK /\ HalfIsDue /\ DiffersByMissed /\ OwnIsNewest
Job == [kind : {"none", "boot", "debug", "execute"}, phase : 0..NumPhases,
        open : BOOLEAN, step : 0..NumSteps, err : BOOLEAN]

-----------------------------------------------------------------------------
(* Lemmas on the operators of the model. *)

LEMMA ToSetFacts ==
  ASSUME NEW S, NEW q \in Seq(S)
  PROVE  /\ ToSet(q) \subseteq S
         /\ \A x \in S : ToSet(Append(q, x)) = ToSet(q) \cup {x}
         /\ \A p \in Seq(S) : ToSet(q \o p) = ToSet(q) \cup ToSet(p)
<1>1. ToSet(q) \subseteq S
  BY DEF ToSet
<1>2. ASSUME NEW x \in S PROVE ToSet(Append(q, x)) = ToSet(q) \cup {x}
  <2>1. \A i \in DOMAIN q : i \in DOMAIN Append(q, x) /\ Append(q, x)[i] = q[i]
    OBVIOUS
  <2>2. Len(q) + 1 \in DOMAIN Append(q, x) /\ Append(q, x)[Len(q) + 1] = x
    OBVIOUS
  <2>3. \A i \in DOMAIN Append(q, x) : i \in DOMAIN q \/ i = Len(q) + 1
    OBVIOUS
  <2> QED BY <2>1, <2>2, <2>3 DEF ToSet
<1>3. ASSUME NEW p \in Seq(S) PROVE ToSet(q \o p) = ToSet(q) \cup ToSet(p)
  <2>1. \A i \in DOMAIN q : i \in DOMAIN (q \o p) /\ (q \o p)[i] = q[i]
    OBVIOUS
  <2>2. \A i \in DOMAIN p : Len(q) + i \in DOMAIN (q \o p) /\ (q \o p)[Len(q) + i] = p[i]
    OBVIOUS
  <2>3. ASSUME NEW i \in DOMAIN (q \o p), i \notin DOMAIN q
        PROVE  i - Len(q) \in DOMAIN p /\ (q \o p)[i] = p[i - Len(q)]
    <3>1. q \o p \in Seq(S) /\ Len(q \o p) = Len(q) + Len(p) /\ Len(q) \in Nat /\ Len(p) \in Nat
      OBVIOUS
    <3>2. i \in 1..(Len(q) + Len(p)) /\ i \notin 1..Len(q)
      BY <2>3, <3>1
    <3>3. i - Len(q) \in 1..Len(p)
      BY <3>1, <3>2
    <3> QED BY <3>2, <3>3
  <2>4. ToSet(q) \subseteq ToSet(q \o p)
    BY <2>1 DEF ToSet
  <2>5. ToSet(p) \subseteq ToSet(q \o p)
    BY <2>2 DEF ToSet
  <2>6. ToSet(q \o p) \subseteq ToSet(q) \cup ToSet(p)
    <3> SUFFICES ASSUME NEW i \in DOMAIN (q \o p) PROVE (q \o p)[i] \in ToSet(q) \cup ToSet(p)
      BY DEF ToSet
    <3>1. CASE i \in DOMAIN q
      BY <2>1, <3>1 DEF ToSet
    <3>2. CASE i \notin DOMAIN q
      BY <2>3, <3>2 DEF ToSet
    <3> QED BY <3>1, <3>2
  <2> QED BY <2>4, <2>5, <2>6
<1> QED BY <1>1, <1>2, <1>3

LEMMA NewestFirst ==
  ASSUME NEW s \in Session, NEW q \in Seq(Session)
  PROVE  Newest(s, q) \in Seq(Session) /\ Newest(s, q) # <<>> /\ Newest(s, q)[1] = s
<1>1. ASSUME NEW p \in Seq(Session)
      PROVE  <<s>> \o p \in Seq(Session) /\ <<s>> \o p # <<>> /\ (<<s>> \o p)[1] = s
  <2>1. <<s>> \in Seq(Session) /\ Len(<<s>>) = 1 /\ <<s>>[1] = s
    OBVIOUS
  <2>2. <<s>> \o p \in Seq(Session) /\ Len(<<s>> \o p) = 1 + Len(p) /\ (<<s>> \o p)[1] = s
    BY <2>1
  <2> QED BY <2>2
<1>2. CASE s \in ToSet(q)
  <2> DEFINE i == CHOOSE j \in DOMAIN q : q[j] = s
  <2>1. i \in 1..Len(q)
    BY <1>2 DEF ToSet
  <2> HIDE DEF i
  <2>2. SubSeq(q, 1, i - 1) \in Seq(Session) /\ SubSeq(q, i + 1, Len(q)) \in Seq(Session)
    <3>1. /\ i - 1 \in Int /\ i + 1 \in Int /\ Len(q) \in Int
          /\ \A j \in 1..(i - 1) : q[j] \in Session
          /\ \A j \in (i + 1)..Len(q) : q[j] \in Session
      BY <2>1
    <3> QED BY <3>1, SubSeqProperties
  <2>3. RemoveAt(q, i) \in Seq(Session)
    BY <2>2 DEF RemoveAt
  <2> QED BY <1>1, <1>2, <2>3 DEF Newest, i
<1>3. CASE s \notin ToSet(q)
  BY <1>1, <1>3 DEF Newest
<1> QED BY <1>2, <1>3

LEMMA HalfTypes ==
  ASSUME TypeOK
  PROVE  /\ half.k \in {"none", "row", "entry"}
         /\ half = NoHalf <=> half.k = "none"
         /\ half.k = "row" => half.state \in State
         /\ half.k = "entry" => half.entry \in Entry
<1>1. half \in {NoHalf} \cup {RowOf(st) : st \in State} \cup [k : {"entry"}, entry : Entry]
  BY DEF TypeOK
<1>2. CASE half = NoHalf
  BY <1>2 DEF NoHalf
<1>3. CASE half \in {RowOf(st) : st \in State}
  BY <1>3 DEF RowOf, NoHalf
<1>4. CASE half \in [k : {"entry"}, entry : Entry]
  BY <1>4 DEF NoHalf
<1> QED BY <1>1, <1>2, <1>3, <1>4

LEMMA Halves ==
  /\ NoHalf.k = "none"
  /\ \A st \in State : RowOf(st).k = "row" /\ RowOf(st).state = st
  /\ \A e \in Entry : InsertOf(e).k = "entry" /\ InsertOf(e).entry = e
  BY DEF NoHalf, RowOf, InsertOf

LEMMA HalfTypesHold ==
  \A h \in {NoHalf} \cup {RowOf(st) : st \in State} \cup {InsertOf(e) : e \in Entry} :
    h \in {NoHalf} \cup {RowOf(st) : st \in State} \cup [k : {"entry"}, entry : Entry]
  BY DEF InsertOf

LEMMA StateFacts ==
  /\ Active \in State /\ Absent \notin State
  /\ NoJob \in Job /\ NoJob.kind = "none"
<1>1. 0 \in 0..NumPhases /\ 0 \in 0..NumSteps
  BY StoreAssumption
<1> QED BY <1>1 DEF Active, Absent, State, NoJob, Job

LEMMA MissEffect ==
  ASSUME TypeOK, server \in Session, Miss
  PROVE  /\ missed' \in [Session -> Nat]
         /\ \A s \in Session : missed'[s] = IF s = server THEN missed[s] + 1 ELSE missed[s]
  BY DEF TypeOK, Miss

(* The lengths the divergence is made of. *)
LEMMA Lengths ==
  ASSUME TypeOK, NEW s \in Session
  PROVE  /\ Len(table[s]) \in Nat /\ Len(log[s]) \in Nat /\ NumLines(s) \in Nat
         /\ missed[s] \in Nat /\ Due(s) \in Nat /\ Stale(s) \in Nat
  BY DEF TypeOK, NumLines, Due, Stale
-----------------------------------------------------------------------------
(* The first half of a write. *)

(* An entry goes to the file and is due in the table. *)
LEMMA LogStep ==
  ASSUME IInv, half = NoHalf, job.kind # "none", NEW t \in {"start", "done", "step"}, NEW n \in Nat,
         LogEntry(t, n), job' \in Job, job'.kind = job.kind,
         UNCHANGED <<server, starts, file, row, recent, table, cut, missed, served>>
  PROVE  IInv'
<1>1. TypeOK /\ HalfIsDue /\ DiffersByMissed /\ OwnIsNewest
  BY DEF IInv
<1>2. server \in Session /\ half.k = "none" /\ job.kind # "boot"
  BY <1>1, Halves DEF TypeOK, HalfIsDue
<1>3. PICK e \in Entry :
        /\ e.s = server /\ log' = [log EXCEPT ![server] = Append(@, e)] /\ half' = InsertOf(e)
        /\ ties' \in 0..MaxTies /\ clock' \in Nat
  <2>1. PICK tie \in BOOLEAN :
          LET now == IF tie THEN clock ELSE clock + 1
              e == [s |-> server, t |-> t, n |-> n, ms |-> now]
          IN /\ tie => clock > 0 /\ ties < MaxTies
             /\ ties' = IF tie THEN ties + 1 ELSE ties
             /\ clock' = now
             /\ log' = [log EXCEPT ![server] = Append(@, e)]
             /\ half' = InsertOf(e)
    BY DEF LogEntry
  <2> DEFINE e == [s |-> server, t |-> t, n |-> n, ms |-> clock']
  <2>2. clock' \in Nat /\ ties' \in 0..MaxTies
    BY <1>1, <2>1, StoreAssumption DEF TypeOK
  <2>3. e \in Entry /\ e.s = server
    BY <1>2, <2>2 DEF Entry
  <2>4. log' = [log EXCEPT ![server] = Append(@, e)] /\ half' = InsertOf(e)
    BY <2>1
  <2> QED BY <2>2, <2>3, <2>4
<1>4. half'.k = "entry" /\ half'.entry = e /\ half' # NoHalf
  BY <1>3, Halves
<1>5. /\ log' \in [Session -> Seq(Entry)]
      /\ Len(log'[server]) = Len(log[server]) + 1
      /\ ToSet(log'[server]) = ToSet(log[server]) \cup {e}
      /\ \A s \in Session \ {server} : log'[s] = log[s]
  <2>1. log[server] \in Seq(Entry) /\ log'[server] = Append(log[server], e)
    BY <1>1, <1>2, <1>3 DEF TypeOK
  <2>2. Append(log[server], e) \in Seq(Entry) /\ Len(Append(log[server], e)) = Len(log[server]) + 1
    BY <2>1
  <2>3. log' \in [Session -> Seq(Entry)] /\ \A s \in Session \ {server} : log'[s] = log[s]
    BY <1>1, <1>2, <1>3, <2>2 DEF TypeOK
  <2> QED BY <2>1, <2>2, <2>3, ToSetFacts
<1>6. TypeOK'
  <2>1. half' \in {NoHalf} \cup {RowOf(st) : st \in State} \cup [k : {"entry"}, entry : Entry]
    BY <1>3, HalfTypesHold
  <2> QED BY <1>1, <1>3, <1>5, <2>1 DEF TypeOK, Job
<1>7. HalfIsDue'
  BY <1>1, <1>2, <1>4, <1>5 DEF HalfIsDue, TypeOK, Session
<1>8. DiffersByMissed'
  <2> SUFFICES ASSUME NEW s \in Session
               PROVE  /\ ToSet(table[s]) \subseteq Lines(s)'
                      /\ Len(table[s]) + Due(s)' <= NumLines(s)'
                      /\ NumLines(s)' + Stale(s)' <= Len(table[s]) + missed[s] + Due(s)'
    BY DEF DiffersByMissed
  <2>1. /\ ToSet(table[s]) \subseteq Lines(s)
        /\ Len(table[s]) + Due(s) <= NumLines(s)
        /\ NumLines(s) + Stale(s) <= Len(table[s]) + missed[s] + Due(s)
    BY <1>1 DEF DiffersByMissed
  <2>2. Due(s) = 0 /\ (s = server => Due(s)' = 1) /\ (s # server => Due(s)' = 0)
    BY <1>2, <1>4 DEF Due
  <2>3. Stale(s)' = Stale(s)
    BY <1>2, <1>4 DEF Stale
  <2>4. /\ Len(table[s]) \in Nat /\ Len(log[s]) \in Nat /\ NumLines(s) \in Nat
        /\ missed[s] \in Nat /\ Stale(s) \in Nat
    BY <1>1, Lengths
  <2>5. Lines(s) \subseteq Lines(s)'
    BY <1>5 DEF Lines
  <2>6. NumLines(s)' = NumLines(s) + Due(s)'
    <3>1. CASE s = server
      <4>1. Len(log'[s]) = Len(log[s]) + 1 /\ Len(cut[s]) \in Nat
        BY <1>1, <1>5, <3>1 DEF TypeOK
      <4>2. NumLines(s)' = Len(cut[s]) + Len(log'[s]) /\ NumLines(s) = Len(cut[s]) + Len(log[s])
        BY DEF NumLines
      <4>3. Due(s)' = 1
        BY <2>2, <3>1
      <4>4. NumLines(s)' = NumLines(s) + 1
        <5>1. \A a, b, c \in Nat : c = b + 1 => a + c = a + b + 1
          OBVIOUS
        <5>2. Len(cut[s]) \in Nat /\ Len(log[s]) \in Nat /\ Len(log'[s]) \in Nat
          BY <2>4, <4>1
        <5>3. Len(cut[s]) + Len(log'[s]) = Len(cut[s]) + Len(log[s]) + 1
          BY <4>1, <5>1, <5>2
        <5> QED BY <4>2, <5>3
      <4> QED BY <4>3, <4>4
    <3>2. CASE s # server
      <4>1. log'[s] = log[s]
        BY <1>5, <3>2
      <4>2. NumLines(s)' = NumLines(s)
        BY <4>1 DEF NumLines
      <4> QED BY <2>2, <2>4, <3>2, <4>2
    <3> QED BY <3>1, <3>2
  <2>7. Due(s)' \in Nat
    BY <2>2
  <2> QED BY <2>1, <2>2, <2>3, <2>4, <2>5, <2>6, <2>7
<1>9. OwnIsNewest'
  BY <1>1, <1>2 DEF OwnIsNewest
<1> QED BY <1>6, <1>7, <1>8, <1>9 DEF IInv

(* A state goes to the file and is due in its row; what of the log was cut     *)
(* is kept in mind.                                                         *)
LEMMA PersistStep ==
  ASSUME IInv, half = NoHalf, server # 0, NEW st \in State, Persist(st),
         job' \in Job, job'.kind # "boot",
         cut' \in [Session -> Seq(Entry)], log' \in [Session -> Seq(Entry)],
         \A s \in Session : Lines(s)' = Lines(s) /\ NumLines(s)' = NumLines(s),
         served' \in [Session -> Nat],
         UNCHANGED <<server, starts, row, recent, table, missed, times>>
  PROVE  IInv'
<1>1. TypeOK /\ HalfIsDue /\ DiffersByMissed /\ OwnIsNewest
  BY DEF IInv
<1>2. server \in Session /\ half.k = "none" /\ job.kind # "boot"
  BY <1>1, Halves DEF TypeOK, HalfIsDue
<1>3. half' = RowOf(st) /\ half'.k = "row" /\ half'.state = st /\ half' # NoHalf
  BY Halves DEF Persist
<1>4. /\ file' \in [Session -> State \cup {Absent}] /\ file'[server] = st
      /\ \A s \in Session \ {server} : file'[s] = file[s]
  BY <1>1, <1>2 DEF TypeOK, Persist
<1>5. TypeOK'
  <2>1. half' \in {NoHalf} \cup {RowOf(x) : x \in State} \cup [k : {"entry"}, entry : Entry]
    BY <1>3
  <2>2. clock' = clock /\ ties' = ties
    BY DEF times
  <2> QED BY <1>1, <1>4, <2>1, <2>2 DEF TypeOK, Job
<1>6. HalfIsDue'
  BY <1>3, <1>4 DEF HalfIsDue
<1>7. DiffersByMissed'
  <2> SUFFICES ASSUME NEW s \in Session
               PROVE  /\ ToSet(table[s]) \subseteq Lines(s)'
                      /\ Len(table[s]) + Due(s)' <= NumLines(s)'
                      /\ NumLines(s)' + Stale(s)' <= Len(table[s]) + missed[s] + Due(s)'
    BY DEF DiffersByMissed
  <2>1. /\ ToSet(table[s]) \subseteq Lines(s)
        /\ Len(table[s]) + Due(s) <= NumLines(s)
        /\ NumLines(s) + Stale(s) <= Len(table[s]) + missed[s] + Due(s)
    BY <1>1 DEF DiffersByMissed
  <2>2. Due(s) = 0 /\ Due(s)' = 0
    BY <1>2, <1>3 DEF Due
  <2>3. Stale(s)' <= Stale(s) /\ Stale(s)' \in Nat
    BY <1>2, <1>3, <1>4 DEF Stale
  <2>4. /\ Len(table[s]) \in Nat /\ NumLines(s) \in Nat /\ missed[s] \in Nat /\ Stale(s) \in Nat
    BY <1>1, Lengths
  <2>5. Lines(s)' = Lines(s) /\ NumLines(s)' = NumLines(s)
    OBVIOUS
  <2>6. ToSet(table[s]) \subseteq Lines(s)'
    BY <2>1, <2>5
  <2> QED BY <2>1, <2>2, <2>3, <2>4, <2>5, <2>6
<1>8. OwnIsNewest'
  BY <1>1, <1>2 DEF OwnIsNewest
<1> QED BY <1>5, <1>6, <1>7, <1>8 DEF IInv

(* A request that writes nothing. *)
LEMMA JobStep ==
  ASSUME IInv, half = NoHalf, server # 0, job' \in Job, job'.kind # "boot", served' \in [Session -> Nat],
         UNCHANGED <<server, starts, file, row, recent, log, table, half, cut, missed, times>>
  PROVE  IInv'
<1>1. TypeOK /\ HalfIsDue /\ DiffersByMissed /\ OwnIsNewest
  BY DEF IInv
<1>2. half.k = "none" /\ job.kind # "boot" /\ clock' = clock /\ ties' = ties
  BY <1>1, Halves DEF HalfIsDue, times
<1>3. TypeOK'
  BY <1>1, <1>2 DEF TypeOK, Job
<1>4. HalfIsDue' /\ OwnIsNewest'
  BY <1>1, <1>2 DEF HalfIsDue, OwnIsNewest
<1>5. DiffersByMissed'
  BY <1>1 DEF DiffersByMissed, Due, Stale, Lines, NumLines
<1> QED BY <1>3, <1>4, <1>5 DEF IInv
-----------------------------------------------------------------------------
(* The second half of a write, and what it is to miss it. *)

LEMMA WriteRowStep == ASSUME IInv, WriteRow PROVE IInv'
<1>1. TypeOK /\ HalfIsDue /\ DiffersByMissed /\ OwnIsNewest
  BY DEF IInv
<1>2. half.k = "row" /\ half # NoHalf /\ server \in Session /\ half.state \in State /\ half.state = file[server]
  BY <1>1, HalfTypes DEF WriteRow, HalfIsDue, TypeOK
<1>3. /\ half' = NoHalf /\ half'.k = "none" /\ server' = server /\ starts' = starts /\ file' = file
      /\ log' = log /\ table' = table /\ cut' = cut /\ missed' = missed /\ served' = served
      /\ clock' = clock /\ ties' = ties
  BY Halves DEF WriteRow, times
<1>4. /\ row' \in [Session -> State \cup {Absent}] /\ row'[server] = file[server]
      /\ \A s \in Session \ {server} : row'[s] = row[s]
  BY <1>1, <1>2 DEF WriteRow, TypeOK
<1>5. recent' \in Seq(Session) /\ recent' # <<>> /\ recent'[1] = server
  BY <1>1, <1>2, NewestFirst DEF WriteRow, TypeOK
<1>6. job' \in Job /\ job'.kind # "boot" /\ (job'.kind # "none" => job.kind # "none")
  BY <1>1, StateFacts DEF WriteRow, TypeOK, Job
<1>7. TypeOK'
  BY <1>1, <1>3, <1>4, <1>5, <1>6 DEF TypeOK, Job
<1>8. HalfIsDue' /\ OwnIsNewest'
  BY <1>1, <1>2, <1>3, <1>5, <1>6 DEF HalfIsDue, OwnIsNewest
<1>9. DiffersByMissed'
  <2> SUFFICES ASSUME NEW s \in Session
               PROVE  /\ ToSet(table[s]) \subseteq Lines(s)
                      /\ Len(table[s]) + Due(s)' <= NumLines(s)
                      /\ NumLines(s) + Stale(s)' <= Len(table[s]) + missed[s] + Due(s)'
    BY <1>3 DEF DiffersByMissed, Lines, NumLines
  <2>1. /\ ToSet(table[s]) \subseteq Lines(s)
        /\ Len(table[s]) + Due(s) <= NumLines(s)
        /\ NumLines(s) + Stale(s) <= Len(table[s]) + missed[s] + Due(s)
    BY <1>1 DEF DiffersByMissed
  <2>2. Due(s) = 0 /\ Due(s)' = 0 /\ Stale(s)' = Stale(s)
    BY <1>2, <1>3, <1>4 DEF Due, Stale
  <2> QED BY <2>1, <2>2
<1> QED BY <1>7, <1>8, <1>9 DEF IInv

LEMMA InsertStep == ASSUME IInv, Insert PROVE IInv'
<1>1. TypeOK /\ HalfIsDue /\ DiffersByMissed /\ OwnIsNewest
  BY DEF IInv
<1>2. /\ half.k = "entry" /\ half # NoHalf /\ server \in Session /\ half.entry \in Entry
      /\ half.entry \in ToSet(log[server]) /\ job.kind # "boot"
  BY <1>1, HalfTypes DEF Insert, HalfIsDue, TypeOK
<1>3. /\ half' = NoHalf /\ half'.k = "none" /\ server' = server /\ starts' = starts /\ file' = file
      /\ row' = row /\ recent' = recent /\ log' = log /\ job' = job /\ cut' = cut /\ missed' = missed
      /\ served' = served /\ clock' = clock /\ ties' = ties
  BY Halves DEF Insert, times
<1>4. /\ table' \in [Session -> Seq(Entry)]
      /\ Len(table'[server]) = Len(table[server]) + 1
      /\ ToSet(table'[server]) = ToSet(table[server]) \cup {half.entry}
      /\ \A s \in Session \ {server} : table'[s] = table[s]
  <2>1. table[server] \in Seq(Entry) /\ table'[server] = Append(table[server], half.entry)
    BY <1>1, <1>2 DEF TypeOK, Insert
  <2>2. /\ Append(table[server], half.entry) \in Seq(Entry)
        /\ Len(Append(table[server], half.entry)) = Len(table[server]) + 1
    BY <1>2, <2>1
  <2>3. table' \in [Session -> Seq(Entry)] /\ \A s \in Session \ {server} : table'[s] = table[s]
    BY <1>1, <1>2, <2>2 DEF TypeOK, Insert
  <2> QED BY <1>2, <2>1, <2>2, <2>3, ToSetFacts
<1>5. TypeOK'
  BY <1>1, <1>3, <1>4 DEF TypeOK
<1>6. HalfIsDue' /\ OwnIsNewest'
  BY <1>1, <1>2, <1>3 DEF HalfIsDue, OwnIsNewest
<1>7. DiffersByMissed'
  <2> SUFFICES ASSUME NEW s \in Session
               PROVE  /\ ToSet(table'[s]) \subseteq Lines(s)
                      /\ Len(table'[s]) + Due(s)' <= NumLines(s)
                      /\ NumLines(s) + Stale(s)' <= Len(table'[s]) + missed[s] + Due(s)'
    BY <1>3 DEF DiffersByMissed, Lines, NumLines
  <2>1. /\ ToSet(table[s]) \subseteq Lines(s)
        /\ Len(table[s]) + Due(s) <= NumLines(s)
        /\ NumLines(s) + Stale(s) <= Len(table[s]) + missed[s] + Due(s)
    BY <1>1 DEF DiffersByMissed
  <2>2. Due(s)' = 0 /\ (s = server => Due(s) = 1) /\ (s # server => Due(s) = 0) /\ Stale(s)' = Stale(s)
    BY <1>2, <1>3 DEF Due, Stale
  <2>3. Len(table[s]) \in Nat /\ NumLines(s) \in Nat /\ missed[s] \in Nat /\ Stale(s) \in Nat
    BY <1>1, Lengths
  <2>4. CASE s = server
    <3>1. half.entry \in Lines(s)
      BY <1>2, <2>4 DEF Lines
    <3>2. ToSet(table'[s]) \subseteq Lines(s)
      BY <1>4, <2>1, <2>4, <3>1
    <3>3. Len(table'[s]) = Len(table[s]) + 1 /\ Due(s) = 1
      BY <1>4, <2>2, <2>4
    <3> QED BY <2>1, <2>2, <2>3, <3>2, <3>3
  <2>5. CASE s # server
    <3>1. table'[s] = table[s]
      BY <1>4, <2>5
    <3> QED BY <2>1, <2>2, <2>5, <3>1
  <2> QED BY <2>4, <2>5
<1> QED BY <1>5, <1>6, <1>7 DEF IInv

(* The write that was due is missed, and the job goes on or is gone. *)
LEMMA MissedStep ==
  ASSUME IInv, half # NoHalf, Miss, half' = NoHalf, job' \in Job, job'.kind # "boot",
         \/ server' = 0 /\ job'.kind = "none"
         \/ server' = server /\ job'.kind = job.kind,
         UNCHANGED <<starts, file, row, recent, log, table, cut, served, times>>
  PROVE  IInv'
<1>1. TypeOK /\ HalfIsDue /\ DiffersByMissed /\ OwnIsNewest
  BY DEF IInv
<1>2. half.k \in {"row", "entry"} /\ server \in Session
  BY <1>1, HalfTypes DEF HalfIsDue, TypeOK
<1>3. half'.k = "none" /\ clock' = clock /\ ties' = ties
  BY Halves DEF times
<1>4. /\ missed' \in [Session -> Nat]
      /\ \A s \in Session : missed'[s] = IF s = server THEN missed[s] + 1 ELSE missed[s]
  BY <1>1, <1>2, MissEffect
<1>5. TypeOK'
  <2>1. server' \in {0} \cup Session
    BY <1>2
  <2> QED BY <1>1, <1>3, <1>4, <2>1 DEF TypeOK, Job
<1>6. HalfIsDue' /\ OwnIsNewest'
  BY <1>1, <1>2, <1>3 DEF HalfIsDue, OwnIsNewest
<1>7. DiffersByMissed'
  <2> SUFFICES ASSUME NEW s \in Session
               PROVE  /\ ToSet(table[s]) \subseteq Lines(s)
                      /\ Len(table[s]) + Due(s)' <= NumLines(s)
                      /\ NumLines(s) + Stale(s)' <= Len(table[s]) + missed'[s] + Due(s)'
    BY DEF DiffersByMissed, Lines, NumLines
  <2>1. /\ ToSet(table[s]) \subseteq Lines(s)
        /\ Len(table[s]) + Due(s) <= NumLines(s)
        /\ NumLines(s) + Stale(s) <= Len(table[s]) + missed[s] + Due(s)
    BY <1>1 DEF DiffersByMissed
  <2>2. Due(s)' = 0 /\ Due(s) \in {0, 1} /\ (s # server => Due(s) = 0)
    BY <1>2, <1>3 DEF Due
  <2>3. /\ Stale(s)' \in {0, 1} /\ Stale(s) \in {0, 1}
        /\ (s # server \/ half.k = "entry" => Stale(s)' = Stale(s))
        /\ (s = server /\ half.k = "row" => Stale(s) = 0 /\ Due(s) = 0)
    BY <1>2, <1>3 DEF Stale, Due
  <2>4. Len(table[s]) \in Nat /\ NumLines(s) \in Nat /\ missed[s] \in Nat
    BY <1>1, Lengths
  <2>5. CASE s = server
    <3>1. missed'[s] = missed[s] + 1
      BY <1>4, <2>5
    <3>2. Due(s) + Stale(s)' <= Stale(s) + 1
      BY <1>2, <2>2, <2>3, <2>5
    <3> QED BY <2>1, <2>2, <2>3, <2>4, <3>1, <3>2
  <2>6. CASE s # server
    <3>1. missed'[s] = missed[s] /\ Due(s) = 0 /\ Stale(s)' = Stale(s)
      BY <1>4, <2>2, <2>3, <2>6
    <3> QED BY <2>1, <2>2, <3>1
  <2> QED BY <2>5, <2>6
<1> QED BY <1>5, <1>6, <1>7 DEF IInv

LEMMA RowThrowsStep == ASSUME IInv, RowThrows PROVE IInv'
<1>1. TypeOK /\ HalfIsDue
  BY DEF IInv
<1>2. half.k = "row" /\ half # NoHalf
  BY <1>1, HalfTypes DEF RowThrows
<1>3. /\ Miss /\ half' = NoHalf
      /\ server' = IF job.kind = "boot" THEN 0 ELSE server
      /\ job' = IF job.kind = "boot" THEN NoJob ELSE job
      /\ UNCHANGED <<starts, file, row, recent, log, table, cut, served, times>>
  BY DEF RowThrows
<1>4. job \in Job
  BY <1>1 DEF TypeOK, Job
<1>5. CASE job.kind = "boot"
  BY <1>2, <1>3, <1>5, StateFacts, MissedStep
<1>6. CASE job.kind # "boot"
  BY <1>2, <1>3, <1>4, <1>6, MissedStep
<1> QED BY <1>5, <1>6

LEMMA InsertThrowsStep == ASSUME IInv, InsertThrows PROVE IInv'
<1>1. TypeOK /\ HalfIsDue
  BY DEF IInv
<1>2. half.k = "entry" /\ half # NoHalf /\ job.kind # "boot"
  BY <1>1, HalfTypes DEF InsertThrows, HalfIsDue
<1>3. job' \in Job /\ job'.kind = job.kind
  BY <1>1 DEF InsertThrows, TypeOK, Job
<1>4. /\ Miss /\ half' = NoHalf /\ server' = server
      /\ UNCHANGED <<starts, file, row, recent, log, table, cut, served, times>>
  BY DEF InsertThrows
<1> QED BY <1>2, <1>3, <1>4, MissedStep
-----------------------------------------------------------------------------
(* The server and its requests. *)

LEMMA StartStep == ASSUME IInv, Start PROVE IInv'
<1>1. TypeOK /\ HalfIsDue /\ DiffersByMissed /\ OwnIsNewest
  BY DEF IInv
<1>2. /\ server = 0 /\ server' = starts + 1 /\ starts' = starts + 1 /\ half' = RowOf(Active)
      /\ row' = row /\ recent' = recent /\ log' = log /\ table' = table /\ cut' = cut
      /\ missed' = missed /\ served' = served /\ clock' = clock /\ ties' = ties
  BY DEF Start, times
<1>3. server' \in Session /\ server' # 0 /\ starts' \in 0..MaxStarts
  BY <1>1, <1>2, StoreAssumption DEF Start, TypeOK, Session
<1>4. half.k = "none" /\ half'.k = "row" /\ half'.state = Active /\ half' # NoHalf
  BY <1>1, <1>2, HalfTypes, Halves, StateFacts DEF HalfIsDue
<1>5. /\ file' \in [Session -> State \cup {Absent}] /\ file'[server'] = Active
      /\ \A s \in Session \ {server'} : file'[s] = file[s]
  BY <1>1, <1>2, <1>3, StateFacts DEF Start, TypeOK
<1>6. job' \in Job /\ job'.kind = "boot"
  BY StateFacts DEF Start, Job
<1>7. TypeOK'
  <2>1. half' \in {NoHalf} \cup {RowOf(st) : st \in State} \cup [k : {"entry"}, entry : Entry]
    BY <1>2, StateFacts
  <2> QED BY <1>1, <1>2, <1>3, <1>5, <1>6, <2>1 DEF TypeOK, Job
<1>8. HalfIsDue' /\ OwnIsNewest'
  BY <1>3, <1>4, <1>5, <1>6 DEF HalfIsDue, OwnIsNewest
<1>9. DiffersByMissed'
  <2> SUFFICES ASSUME NEW s \in Session
               PROVE  /\ ToSet(table[s]) \subseteq Lines(s)
                      /\ Len(table[s]) + Due(s)' <= NumLines(s)
                      /\ NumLines(s) + Stale(s)' <= Len(table[s]) + missed[s] + Due(s)'
    BY <1>2 DEF DiffersByMissed, Lines, NumLines
  <2>1. /\ ToSet(table[s]) \subseteq Lines(s)
        /\ Len(table[s]) + Due(s) <= NumLines(s)
        /\ NumLines(s) + Stale(s) <= Len(table[s]) + missed[s] + Due(s)
    BY <1>1 DEF DiffersByMissed
  <2>2. Due(s) = 0 /\ Due(s)' = 0
    BY <1>4 DEF Due
  <2>3. Stale(s)' <= Stale(s) /\ Stale(s)' \in Nat
    BY <1>2, <1>4, <1>5 DEF Stale
  <2>4. Len(table[s]) \in Nat /\ NumLines(s) \in Nat /\ missed[s] \in Nat /\ Stale(s) \in Nat
    BY <1>1, Lengths
  <2> QED BY <2>1, <2>2, <2>3, <2>4
<1> QED BY <1>7, <1>8, <1>9 DEF IInv

LEMMA CrashStep == ASSUME IInv, Crash PROVE IInv'
<1>1. TypeOK /\ HalfIsDue /\ DiffersByMissed /\ OwnIsNewest
  BY DEF IInv
<1>2. /\ server' = 0 /\ job' = NoJob /\ half' = NoHalf
      /\ UNCHANGED <<starts, file, row, recent, log, table, cut, served, times>>
  BY DEF Crash
<1>3. job' \in Job /\ job'.kind = "none"
  BY <1>2, StateFacts
<1>4. CASE half # NoHalf
  BY <1>2, <1>3, <1>4, MissedStep DEF Crash
<1>5. CASE half = NoHalf
  <2>1. missed' = missed /\ half.k = "none" /\ half' = half /\ clock' = clock /\ ties' = ties
    BY <1>2, <1>5, Halves DEF Crash, times
  <2>2. TypeOK'
    BY <1>1, <1>2, <1>3, <2>1 DEF TypeOK, Job
  <2>3. HalfIsDue' /\ OwnIsNewest'
    BY <1>2, <1>3, <2>1, Halves DEF HalfIsDue, OwnIsNewest
  <2>4. DiffersByMissed'
    BY <1>1, <1>2, <2>1 DEF DiffersByMissed, Due, Stale, Lines, NumLines
  <2> QED BY <2>2, <2>3, <2>4 DEF IInv
<1> QED BY <1>4, <1>5

LEMMA OpenDebugStep == ASSUME IInv, OpenDebug PROVE IInv'
<1>1. TypeOK
  BY DEF IInv
<1>2. /\ server # 0 /\ half = NoHalf /\ Persist(Active) /\ Active \in State
      /\ cut' = [cut EXCEPT ![server] = @ \o log[server]] /\ log' = [log EXCEPT ![server] = <<>>]
      /\ UNCHANGED <<server, starts, row, recent, table, missed, times>>
  BY StateFacts DEF OpenDebug, Free
<1>3. server \in Session /\ cut[server] \in Seq(Entry) /\ log[server] \in Seq(Entry)
  BY <1>1, <1>2 DEF TypeOK
<1>4. /\ cut[server] \o log[server] \in Seq(Entry)
      /\ Len(cut[server] \o log[server]) = Len(cut[server]) + Len(log[server])
      /\ ToSet(cut[server] \o log[server]) = ToSet(cut[server]) \cup ToSet(log[server])
  BY <1>3, ToSetFacts
<1>5. /\ cut' \in [Session -> Seq(Entry)] /\ log' \in [Session -> Seq(Entry)]
      /\ cut'[server] = cut[server] \o log[server] /\ log'[server] = <<>>
      /\ \A s \in Session \ {server} : cut'[s] = cut[s] /\ log'[s] = log[s]
  BY <1>1, <1>2, <1>3, <1>4 DEF TypeOK
<1>6. ASSUME NEW s \in Session PROVE Lines(s)' = Lines(s) /\ NumLines(s)' = NumLines(s)
  <2>1. CASE s = server
    <3>1. ToSet(<<>>) = {} /\ Len(<<>>) = 0
      BY DEF ToSet
    <3>2. Lines(s)' = ToSet(cut[s] \o log[s]) \cup ToSet(<<>>)
      BY <1>5, <2>1 DEF Lines
    <3>3. NumLines(s)' = Len(cut[s] \o log[s]) + 0
      BY <1>5, <2>1, <3>1 DEF NumLines
    <3>4. Len(cut[s]) \in Nat /\ Len(log[s]) \in Nat
      BY <1>3, <2>1
    <3>5. Lines(s)' = Lines(s)
      BY <1>4, <2>1, <3>1, <3>2 DEF Lines
    <3>6. NumLines(s)' = NumLines(s)
      <4>1. Len(cut[s] \o log[s]) = Len(cut[s]) + Len(log[s])
        BY <1>4, <2>1
      <4>2. NumLines(s) = Len(cut[s]) + Len(log[s])
        BY DEF NumLines
      <4> QED BY <3>3, <3>4, <4>1, <4>2
    <3> QED BY <3>5, <3>6
  <2>2. CASE s # server
    BY <1>5, <2>2 DEF Lines, NumLines
  <2> QED BY <2>1, <2>2
<1>7. job' \in Job /\ job'.kind # "boot"
  BY StateFacts DEF OpenDebug, Job
<1>8. served' \in [Session -> Nat]
  BY <1>1, <1>3 DEF OpenDebug, TypeOK
<1> QED BY <1>2, <1>5, <1>6, <1>7, <1>8, PersistStep

LEMMA OpenExecuteStep == ASSUME IInv, OpenExecute PROVE IInv'
<1>1. /\ job' = [NoJob EXCEPT !.kind = "execute"] /\ served' = [served EXCEPT ![server] = @ + 1]
      /\ server \in Session /\ served \in [Session -> Nat]
  BY DEF IInv, TypeOK, OpenExecute, Free
<1>2. job' \in Job /\ job'.kind # "boot" /\ served' \in [Session -> Nat]
  BY <1>1, StateFacts DEF Job
<1>3. /\ half = NoHalf /\ server # 0
      /\ UNCHANGED <<server, starts, file, row, recent, log, table, half, cut, missed, times>>
  BY DEF OpenExecute, Free
<1> QED BY <1>3, <1>2, JobStep

LEMMA StartPhaseStep == ASSUME IInv, StartPhase PROVE IInv'
<1>1. job \in Job
  BY DEF IInv, TypeOK, Job
<1>2. /\ half = NoHalf /\ job.kind = "debug" /\ LogEntry("start", job.phase + 1)
      /\ UNCHANGED <<server, starts, file, row, recent, table, cut, missed, served>>
  BY DEF StartPhase, Serving
<1>3. job' \in Job /\ job'.kind = job.kind /\ job.phase + 1 \in Nat
  <2>1. job' = [job EXCEPT !.open = TRUE, !.phase = @ + 1] /\ job.phase < NumPhases /\ NumPhases \in Nat
    BY StoreAssumption DEF StartPhase
  <2>2. job.phase + 1 \in 0..NumPhases
    BY <1>1, <2>1 DEF Job
  <2>3. job'.kind = job.kind
    BY <1>1, <2>1 DEF Job
  <2>4. job' \in Job
    BY <1>1, <2>1, <2>2 DEF Job
  <2>5. job.phase + 1 \in Nat
    BY <2>1, <2>2
  <2> QED BY <2>3, <2>4, <2>5
<1> QED BY <1>2, <1>3, LogStep

LEMMA EndPhaseStep == ASSUME IInv, EndPhase PROVE IInv'
<1>1. job \in Job
  BY DEF IInv, TypeOK, Job
<1>2. /\ half = NoHalf /\ job.kind = "debug" /\ LogEntry("done", job.phase)
      /\ UNCHANGED <<server, starts, file, row, recent, table, cut, missed, served>>
  BY DEF EndPhase, Serving
<1>3. job' \in Job /\ job'.kind = job.kind /\ job.phase \in Nat
  <2>1. job' = [job EXCEPT !.open = FALSE]
    BY DEF EndPhase
  <2>2. job'.kind = job.kind
    BY <1>1, <2>1 DEF Job
  <2>3. job' \in Job
    BY <1>1, <2>1 DEF Job
  <2>4. job.phase \in Nat
    BY <1>1, StoreAssumption DEF Job
  <2> QED BY <2>2, <2>3, <2>4
<1> QED BY <1>2, <1>3, LogStep

LEMMA StepStep == ASSUME IInv, Step PROVE IInv'
<1>1. job \in Job
  BY DEF IInv, TypeOK, Job
<1>2. /\ half = NoHalf /\ job.kind # "none" /\ LogEntry("step", job.step + 1)
      /\ UNCHANGED <<server, starts, file, row, recent, table, cut, missed, served>>
  BY DEF Step, Serving
<1>3. job' \in Job /\ job'.kind = job.kind /\ job.step + 1 \in Nat
  BY <1>1, StoreAssumption DEF Step, Job
<1> QED BY <1>2, <1>3, LogStep

(* A request that ends with a state to persist. *)
LEMMA EndStep ==
  ASSUME IInv, half = NoHalf, job.kind # "none", NEW st \in State, Persist(st), job' = NoJob,
         UNCHANGED <<server, starts, row, recent, log, table, cut, missed, served, times>>
  PROVE  IInv'
<1>1. server # 0 /\ cut' \in [Session -> Seq(Entry)] /\ log' \in [Session -> Seq(Entry)]
      /\ served' \in [Session -> Nat]
  BY DEF IInv, HalfIsDue, TypeOK
<1>2. \A s \in Session : Lines(s)' = Lines(s) /\ NumLines(s)' = NumLines(s)
  BY DEF Lines, NumLines
<1>3. job' \in Job /\ job'.kind # "boot"
  BY StateFacts
<1> QED BY <1>1, <1>2, <1>3, PersistStep

LEMMA PlanReadyStep == ASSUME IInv, PlanReady PROVE IInv'
<1> DEFINE st == [status |-> "plan-ready", plan |-> FALSE]
<1>1. st \in State /\ Persist(st)
  BY DEF State, PlanReady, PersistStatus
<1>2. /\ server # 0 /\ half = NoHalf /\ job' = job /\ cut' = cut /\ log' = log /\ served' = served
      /\ UNCHANGED <<server, starts, row, recent, table, missed, times>>
  BY DEF IInv, HalfIsDue, PlanReady, Serving
<1>3. job' \in Job /\ job'.kind # "boot"
  BY <1>2 DEF IInv, TypeOK, Job, PlanReady, Serving
<1>4. /\ cut' \in [Session -> Seq(Entry)] /\ log' \in [Session -> Seq(Entry)] /\ served' \in [Session -> Nat]
      /\ \A s \in Session : Lines(s)' = Lines(s) /\ NumLines(s)' = NumLines(s)
  BY <1>2 DEF IInv, TypeOK, Lines, NumLines
<1> HIDE DEF st
<1> QED BY <1>1, <1>2, <1>3, <1>4, PersistStep

LEMMA RejectPlanStep == ASSUME IInv, RejectPlan PROVE IInv'
<1>1. [status |-> "completed", plan |-> FALSE] \in State
  BY DEF State
<1> QED BY <1>1, EndStep DEF RejectPlan, PersistStatus, Serving

LEMMA DebugEndsStep == ASSUME IInv, DebugEnds PROVE IInv'
<1> DEFINE st == [status |-> IF job.step = NumSteps THEN "completed" ELSE "failed", plan |-> FALSE]
<1>1. st \in State /\ Persist(st)
  BY DEF State, DebugEnds, PersistStatus
<1> HIDE DEF st
<1> QED BY <1>1, EndStep DEF DebugEnds, Serving

LEMMA DebugFailsStep == ASSUME IInv, DebugFails PROVE IInv'
<1>1. [status |-> "failed", plan |-> FALSE] \in State
  BY DEF State
<1> QED BY <1>1, EndStep DEF DebugFails, PersistStatus

LEMMA ExecuteHaltsStep == ASSUME IInv, ExecuteHalts PROVE IInv'
<1>1. [status |-> "active", plan |-> TRUE] \in State
  BY DEF State
<1> QED BY <1>1, EndStep DEF ExecuteHalts, Serving

LEMMA ExecuteReturnsStep == ASSUME IInv, ExecuteReturns PROVE IInv'
<1>1. /\ half = NoHalf /\ server # 0 /\ job' \in Job /\ job'.kind # "boot"
      /\ served' \in [Session -> Nat]
      /\ UNCHANGED <<server, starts, file, row, recent, log, table, half, cut, missed, times>>
  BY StateFacts DEF IInv, HalfIsDue, TypeOK, ExecuteReturns
<1> QED BY <1>1, JobStep

-----------------------------------------------------------------------------
(* The invariant. *)

LEMMA InitIInv == Init => IInv
<1> SUFFICES ASSUME Init PROVE IInv
  OBVIOUS
<1>1. TypeOK
  <2>1. 0 \in 0..MaxStarts /\ 0 \in 0..MaxTies
    BY StoreAssumption
  <2>2. <<>> \in Seq(Session) /\ <<>> \in Seq(Entry)
    OBVIOUS
  <2> QED BY <2>1, <2>2, StateFacts DEF Init, TypeOK, Job
<1>2. HalfIsDue /\ OwnIsNewest
  BY Halves, StateFacts DEF Init, HalfIsDue, OwnIsNewest
<1>3. DiffersByMissed
  <2> SUFFICES ASSUME NEW s \in Session
               PROVE  /\ ToSet(table[s]) \subseteq Lines(s)
                      /\ Len(table[s]) + Due(s) <= NumLines(s)
                      /\ NumLines(s) + Stale(s) <= Len(table[s]) + missed[s] + Due(s)
    BY DEF DiffersByMissed
  <2>1. table[s] = <<>> /\ log[s] = <<>> /\ cut[s] = <<>> /\ missed[s] = 0 /\ row[s] = file[s] /\ half = NoHalf
    BY DEF Init
  <2>2. Due(s) = 0 /\ Stale(s) = 0
    BY <2>1, Halves DEF Due, Stale
  <2> QED BY <2>1, <2>2 DEF Lines, NumLines, ToSet
<1> QED BY <1>1, <1>2, <1>3 DEF IInv

LEMMA NextStep == IInv /\ [Next]_vars => IInv'
<1> SUFFICES ASSUME IInv, [Next]_vars PROVE IInv'
  OBVIOUS
<1>1. CASE UNCHANGED vars
  <2>1. /\ server' = server /\ starts' = starts /\ file' = file /\ row' = row /\ recent' = recent
        /\ log' = log /\ table' = table /\ job' = job /\ half' = half /\ cut' = cut
        /\ missed' = missed /\ served' = served /\ clock' = clock /\ ties' = ties
    BY <1>1 DEF vars, times
  <2>2. TypeOK' /\ HalfIsDue' /\ OwnIsNewest'
    BY <2>1 DEF IInv, TypeOK, HalfIsDue, OwnIsNewest
  <2>3. DiffersByMissed'
    BY <2>1 DEF IInv, DiffersByMissed, Due, Stale, Lines, NumLines
  <2> QED BY <2>2, <2>3 DEF IInv
<1>2. CASE Next
  BY <1>2, WriteRowStep, RowThrowsStep, InsertStep, InsertThrowsStep, StartStep, CrashStep, OpenDebugStep,
     OpenExecuteStep, StartPhaseStep, EndPhaseStep, StepStep, PlanReadyStep, RejectPlanStep,
     DebugEndsStep, DebugFailsStep, ExecuteHaltsStep, ExecuteReturnsStep DEF Next
<1> QED BY <1>1, <1>2

LEMMA Invariance == Spec => []IInv
  BY InitIInv, NextStep, PTL DEF Spec

-----------------------------------------------------------------------------
(* The types of SessionStore. *)
THEOREM TypeCorrect == Spec => []TypeOK
  BY Invariance, PTL DEF IInv

(* state.json and audit.jsonl are ahead of SQLite by the writes that missed it *)
(* and by nothing else (persistState and appendAudit, whatever dies between    *)
(* their halves).                                                            *)
THEOREM StoresDifferByMissedWrites == Spec => []DivergenceIsOneWrite
<1>1. IInv => DivergenceIsOneWrite
  <2> SUFFICES ASSUME IInv, half = NoHalf, NEW s \in Session
               PROVE  /\ ToSet(table[s]) \subseteq ToSet(Written(s))
                      /\ Len(table[s]) <= Len(Written(s))
                      /\ Len(Written(s)) + (IF row[s] = file[s] THEN 0 ELSE 1) <= Len(table[s]) + missed[s]
    BY DEF DivergenceIsOneWrite
  <2>1. TypeOK /\ DiffersByMissed /\ half.k = "none"
    BY Halves DEF IInv
  <2>2. cut[s] \in Seq(Entry) /\ log[s] \in Seq(Entry)
    BY <2>1 DEF TypeOK
  <2>3. ToSet(Written(s)) = Lines(s) /\ Len(Written(s)) = NumLines(s)
    BY <2>2, ToSetFacts DEF Written, Lines, NumLines
  <2>4. Due(s) = 0 /\ Stale(s) = IF row[s] = file[s] THEN 0 ELSE 1
    BY <2>1 DEF Due, Stale
  <2>5. /\ ToSet(table[s]) \subseteq Lines(s)
        /\ Len(table[s]) <= NumLines(s)
        /\ NumLines(s) + Stale(s) <= Len(table[s]) + missed[s]
    <3>1. Len(table[s]) \in Nat /\ NumLines(s) \in Nat /\ missed[s] \in Nat /\ Stale(s) \in Nat
      BY <2>1, Lengths
    <3>2. /\ ToSet(table[s]) \subseteq Lines(s)
          /\ Len(table[s]) + Due(s) <= NumLines(s)
          /\ NumLines(s) + Stale(s) <= Len(table[s]) + missed[s] + Due(s)
      BY <2>1 DEF DiffersByMissed
    <3> QED BY <2>4, <3>1, <3>2
  <2> QED BY <2>3, <2>4, <2>5
<1> QED BY <1>1, Invariance, PTL

-----------------------------------------------------------------------------
(* The resume prompt. *)

(* A server only writes the row of its own session, so the rows by updated_at  *)
(* are the rows by start.                                                    *)
Descends(q) == \A i, j \in DOMAIN q : i < j => q[i] > q[j]
Recency ==
  /\ server # 0 => server = starts
  /\ \A s \in Session : row[s] # Absent => s <= starts
  /\ ToSet(recent) = {s \in Session : row[s] # Absent}
  /\ Descends(recent)

LEMMA NewestDescends ==
  ASSUME NEW q \in Seq(Session), Descends(q), NEW s \in Session, \A x \in ToSet(q) : x <= s
  PROVE  ToSet(Newest(s, q)) = ToSet(q) \cup {s} /\ Descends(Newest(s, q))
<1>1. s \in Nat /\ Len(q) \in Nat /\ DOMAIN q = 1..Len(q) /\ \A i \in DOMAIN q : q[i] \in Nat /\ q[i] <= s
  <2>1. s \in Nat /\ Len(q) \in Nat /\ DOMAIN q = 1..Len(q) /\ \A i \in DOMAIN q : q[i] \in Nat
    BY StoreAssumption DEF Session
  <2> QED BY <2>1 DEF ToSet
<1>2. CASE s \notin ToSet(q)
  <2> DEFINE p == <<s>> \o q
  <2>1. /\ p \in Seq(Session) /\ Len(p) = Len(q) + 1 /\ p[1] = s
        /\ \A i \in 2..(Len(q) + 1) : p[i] = q[i - 1] /\ i - 1 \in DOMAIN q
    BY <1>1
  <2>2. Newest(s, q) = p
    BY <1>2 DEF Newest
  <2> HIDE DEF p
  <2>3. ToSet(p) = ToSet(q) \cup {s}
    <3>1. DOMAIN p = 1..(Len(q) + 1)
      BY <2>1
    <3>2. s \in ToSet(p)
      BY <1>1, <2>1, <3>1 DEF ToSet
    <3>3. ASSUME NEW i \in DOMAIN q PROVE q[i] \in ToSet(p)
      <4>1. i + 1 \in 2..(Len(q) + 1) /\ i + 1 \in DOMAIN p /\ (i + 1) - 1 = i
        BY <1>1, <3>1
      <4>2. p[i + 1] = q[i]
        BY <2>1, <4>1
      <4> QED BY <4>1, <4>2 DEF ToSet
    <3>4. ASSUME NEW i \in DOMAIN p PROVE p[i] \in ToSet(q) \cup {s}
      <4>1. i = 1 \/ i \in 2..(Len(q) + 1)
        BY <1>1, <3>1
      <4> QED BY <2>1, <4>1 DEF ToSet
    <3>5. ToSet(p) \subseteq ToSet(q) \cup {s}
      BY <3>4 DEF ToSet
    <3>6. ToSet(q) \subseteq ToSet(p)
      BY <3>3 DEF ToSet
    <3> QED BY <3>2, <3>5, <3>6
  <2>4. \A i \in DOMAIN q : q[i] < s
    <3>1. \A i \in DOMAIN q : q[i] # s
      BY <1>2 DEF ToSet
    <3> QED BY <1>1, <3>1
  <2>5. ASSUME NEW i \in DOMAIN p, NEW j \in DOMAIN p, i < j PROVE p[i] > p[j]
    <3>0. DOMAIN p = 1..(Len(q) + 1)
      BY <1>1, <2>1
    <3>1. j \in 2..(Len(q) + 1) /\ (i = 1 \/ i \in 2..(Len(q) + 1))
      BY <1>1, <2>5, <3>0
    <3>2. p[j] = q[j - 1] /\ j - 1 \in DOMAIN q
      BY <2>1, <3>1
    <3>3. CASE i = 1
      BY <1>1, <2>1, <2>4, <3>2, <3>3
    <3>4. CASE i \in 2..(Len(q) + 1)
      <4>1. p[i] = q[i - 1] /\ i - 1 \in DOMAIN q /\ i - 1 < j - 1
        BY <1>1, <2>1, <2>5, <3>1, <3>4
      <4> QED BY <3>2, <4>1 DEF Descends
    <3> QED BY <3>1, <3>3, <3>4
  <2> QED BY <2>2, <2>3, <2>5 DEF Descends
<1>3. CASE s \in ToSet(q)
  <2> DEFINE i == CHOOSE j \in DOMAIN q : q[j] = s
  <2>1. i \in DOMAIN q /\ q[i] = s
    BY <1>3 DEF ToSet
  <2> HIDE DEF i
  <2>2. i = 1
    <3>1. 1 \in DOMAIN q /\ q[1] <= s /\ q[1] \in Nat /\ (i = 1 \/ 1 < i)
      BY <1>1, <2>1
    <3>2. ~(1 < i)
      BY <1>1, <2>1, <3>1 DEF Descends
    <3> QED BY <3>1, <3>2
  <2>3. Newest(s, q) = <<s>> \o RemoveAt(q, 1)
    BY <1>3, <2>2 DEF Newest, i
  <2> DEFINE t == SubSeq(q, 2, Len(q))
  <2>4. t \in Seq(Session) /\ Len(t) = Len(q) - 1 /\ \A j \in 1..(Len(q) - 1) : t[j] = q[j + 1]
    BY <1>1, <2>1
  <2>5. RemoveAt(q, 1) = t
    <3>1. RemoveAt(q, 1) = SubSeq(q, 1, 0) \o t
      <4>1. 1 - 1 = 0 /\ 1 + 1 = 2
        OBVIOUS
      <4> QED BY <4>1 DEF RemoveAt
    <3>2. SubSeq(q, 1, 0) = <<>>
      BY <1>1
    <3> HIDE DEF t
    <3>3. <<>> \o t = t
      BY <2>4
    <3> QED BY <3>1, <3>2, <3>3
  <2> HIDE DEF t
  <2>6. <<s>> \o t = q
    <3>1. <<s>> \o t \in Seq(Session) /\ Len(<<s>> \o t) = 1 + Len(t) /\ (<<s>> \o t)[1] = s
      BY <2>4
    <3>2. \A j \in 2..(1 + Len(t)) : (<<s>> \o t)[j] = t[j - 1] /\ j - 1 \in 1..Len(t)
      BY <2>4
    <3>3. Len(<<s>> \o t) = Len(q)
      <4>1. 1 + (Len(q) - 1) = Len(q)
        BY <1>1
      <4> QED BY <2>4, <3>1, <4>1
    <3>4. ASSUME NEW j \in 1..Len(q) PROVE (<<s>> \o t)[j] = q[j]
      <4>1. CASE j = 1
        BY <2>1, <2>2, <3>1, <4>1
      <4>2. CASE j # 1
        <5>1. j \in 2..(1 + Len(t)) /\ j - 1 \in 1..(Len(q) - 1) /\ (j - 1) + 1 = j
          BY <1>1, <2>4, <4>2
        <5> QED BY <2>4, <3>2, <5>1
      <4> QED BY <4>1, <4>2
    <3> QED BY <3>1, <3>3, <3>4, SeqEqual
  <2>7. Newest(s, q) = q
    BY <2>3, <2>5, <2>6
  <2> QED BY <1>3, <2>7
<1> QED BY <1>2, <1>3

LEMMA RecencyStep == IInv /\ Recency /\ [Next]_vars => Recency'
<1> SUFFICES ASSUME IInv, Recency, [Next]_vars PROVE Recency'
  OBVIOUS
<1>1. TypeOK /\ HalfIsDue
  BY DEF IInv
<1>2. ASSUME server' \in {0, server}, UNCHANGED <<starts, row, recent>> PROVE Recency'
  BY <1>2 DEF Recency
<1>3. CASE Start
  <2>1. server' = starts + 1 /\ starts' = starts + 1 /\ row' = row /\ recent' = recent /\ starts \in Nat
    BY <1>1, <1>3, StoreAssumption DEF Start, TypeOK
  <2>2. \A s \in Session : row[s] # Absent => s <= starts + 1
    BY <2>1, StoreAssumption DEF Recency, Session
  <2> QED BY <2>1, <2>2 DEF Recency
<1>4. CASE WriteRow
  <2>1. half.k = "row" /\ server \in Session /\ half.state \in State /\ recent \in Seq(Session)
    BY <1>1, <1>4, HalfTypes, Halves DEF WriteRow, HalfIsDue, TypeOK
  <2>2. /\ server' = server /\ starts' = starts /\ recent' = Newest(server, recent)
        /\ row'[server] # Absent /\ \A s \in Session \ {server} : row'[s] = row[s]
    BY <1>1, <1>4, <2>1, StateFacts DEF WriteRow, TypeOK
  <2>3. server = starts /\ server \in Nat
    BY <2>1, StoreAssumption DEF Recency, Session
  <2>4. \A x \in ToSet(recent) : x <= server
    BY <2>3 DEF Recency
  <2>5. ToSet(recent') = ToSet(recent) \cup {server} /\ Descends(recent')
    BY <2>1, <2>2, <2>4, NewestDescends DEF Recency
  <2>6. {s \in Session : row'[s] # Absent} = {s \in Session : row[s] # Absent} \cup {server}
    BY <2>1, <2>2
  <2>7. \A s \in Session : row'[s] # Absent => s <= starts
    BY <2>2, <2>3 DEF Recency
  <2> QED BY <2>2, <2>3, <2>5, <2>6, <2>7 DEF Recency
<1>5. CASE UNCHANGED vars
  BY <1>2, <1>5 DEF vars
<1>6. CASE RowThrows \/ Insert \/ InsertThrows \/ Crash
  BY <1>2, <1>6 DEF RowThrows, Insert, InsertThrows, Crash
<1>7. CASE OpenDebug \/ OpenExecute \/ StartPhase \/ EndPhase \/ Step
  BY <1>2, <1>7 DEF OpenDebug, OpenExecute, StartPhase, EndPhase, Step
<1>8. CASE PlanReady \/ RejectPlan \/ DebugEnds \/ DebugFails \/ ExecuteHalts \/ ExecuteReturns
  BY <1>2, <1>8 DEF PlanReady, RejectPlan, DebugEnds, DebugFails, ExecuteHalts, ExecuteReturns
<1> QED BY <1>3, <1>4, <1>5, <1>6, <1>7, <1>8 DEF Next

LEMMA RecencyInvariance == Spec => [](IInv /\ Recency)
<1>1. Init => Recency
  <2> SUFFICES ASSUME Init PROVE Recency
    OBVIOUS
  <2>1. server = 0 /\ recent = <<>> /\ \A s \in Session : row[s] = Absent
    BY DEF Init
  <2>2. ToSet(recent) = {} /\ Descends(recent)
    BY <2>1 DEF ToSet, Descends
  <2> QED BY <2>1, <2>2 DEF Recency
<1> QED BY <1>1, RecencyStep, Invariance, PTL DEF Spec

(* The resume prompt of POST /debug offers the newest session whose row is      *)
(* active, if it has a plan: the server's own halted plan, nothing while its    *)
(* own session is active without one, and otherwise, its own request waiting at *)
(* the plan gate or executing included, the plan of the last earlier server    *)
(* that left its session active (getIncompleteSessions and the first of its    *)
(* rows).                                                                   *)
THEOREM ResumeLooksAtTheNewest == Spec => []OnlyNewestIsOffered
<1>1. IInv /\ Recency => OnlyNewestIsOffered
  <2> DEFINE own == {s \in {server} : file[s].plan}
             earlier == {s \in 1..(server - 1) :
                           /\ row[s].status = "active" /\ row[s].plan
                           /\ \A r \in (s + 1)..(server - 1) : row[r].status # "active"}
  <2> SUFFICES ASSUME IInv, Recency, server # 0, half = NoHalf, missed[server] = 0
               PROVE  IF file[server].status = "active" THEN Offered = own ELSE Offered = earlier
    BY DEF OnlyNewestIsOffered
  <2>1. TypeOK /\ HalfIsDue /\ DiffersByMissed /\ OwnIsNewest /\ half.k = "none" /\ server \in Session
    BY Halves DEF IInv, TypeOK
  <2>2. recent \in Seq(Session) /\ recent # <<>> /\ recent[1] = server /\ 1 \in DOMAIN recent
    BY <2>1 DEF HalfIsDue, OwnIsNewest, TypeOK
  <2>3. row[server] = file[server]
    <3>1. /\ Len(table[server]) + Due(server) <= NumLines(server)
          /\ NumLines(server) + Stale(server) <= Len(table[server]) + missed[server] + Due(server)
      BY <2>1 DEF DiffersByMissed
    <3>2. Len(table[server]) \in Nat /\ NumLines(server) \in Nat /\ Stale(server) \in Nat /\ Due(server) = 0
      BY <2>1, Lengths DEF Due
    <3>3. Stale(server) = 0
      BY <3>1, <3>2
    <3> QED BY <2>1, <3>3 DEF Stale
  <2>4. \A i \in DOMAIN recent : i \in Nat /\ 1 <= i /\ recent[i] \in Session /\ recent[i] \in Nat
    BY <2>2, StoreAssumption DEF Session
  <2>5. ASSUME file[server].status = "active" PROVE Offered = own
    <3>1. 1 \in Incomplete /\ \A n \in Incomplete : 1 <= n /\ n \in Nat
      BY <2>2, <2>3, <2>4, <2>5 DEF Incomplete
    <3>2. \A i \in Incomplete : (\A n \in Incomplete : i <= n) <=> i = 1
      BY <3>1
    <3>3. Offered = {recent[i] : i \in {j \in Incomplete : row[recent[j]].plan /\ j = 1}}
      BY <3>2 DEF Offered
    <3> QED BY <2>2, <2>3, <3>1, <3>3
  <2>6. ASSUME file[server].status # "active" PROVE Offered = earlier
    <3>0. server = starts /\ server \in Nat /\ MaxStarts \in Nat
      BY <2>1, StoreAssumption DEF Recency, Session
    <3>1. ASSUME NEW r \in Session, row[r].status = "active"
          PROVE  r \in 1..(server - 1) /\ \E i \in Incomplete : recent[i] = r
      <4>1. row[r] # Absent
        BY <3>1 DEF Absent
      <4>2. r <= server /\ r \in ToSet(recent)
        BY <3>0, <3>1, <4>1 DEF Recency
      <4>3. r # server
        BY <2>3, <2>6, <3>1
      <4>4. r \in Nat /\ r >= 1
        BY <3>0, <3>1 DEF Session
      <4>5. PICK i \in DOMAIN recent : recent[i] = r
        BY <4>2 DEF ToSet
      <4>6. i \in Incomplete
        BY <3>1, <4>5 DEF Incomplete
      <4> QED BY <3>0, <4>2, <4>3, <4>4, <4>5, <4>6
    <3>2. \A i \in Incomplete : i \in DOMAIN recent /\ i \in Nat /\ recent[i] \in Session /\ row[recent[i]].status = "active"
      BY <2>4 DEF Incomplete
    <3>3. ASSUME NEW i \in Incomplete
          PROVE  (\A n \in Incomplete : i <= n) <=> (\A r \in (recent[i] + 1)..(server - 1) : row[r].status # "active")
      <4>1. ASSUME \A n \in Incomplete : i <= n, NEW r \in (recent[i] + 1)..(server - 1), row[r].status = "active"
            PROVE  FALSE
        <5>1. recent[i] \in Nat /\ recent[i] >= 1 /\ r \in Session /\ r > recent[i]
          BY <2>1, <3>0, <3>2, <4>1 DEF Session
        <5>2. PICK n \in Incomplete : recent[n] = r
          BY <3>1, <4>1, <5>1
        <5>3. i <= n /\ n \in Nat /\ i \in Nat
          BY <3>2, <4>1, <5>2
        <5>4. i # n
          BY <5>1, <5>2
        <5>5. recent[i] > recent[n]
          BY <3>2, <5>3, <5>4 DEF Recency, Descends
        <5> QED BY <5>1, <5>2, <5>5
      <4>2. ASSUME \A r \in (recent[i] + 1)..(server - 1) : row[r].status # "active", NEW n \in Incomplete, ~(i <= n)
            PROVE  FALSE
        <5>1. n < i
          BY <3>2, <4>2
        <5>2. recent[n] > recent[i]
          BY <3>2, <5>1 DEF Recency, Descends
        <5>3. recent[n] \in 1..(server - 1) /\ row[recent[n]].status = "active"
          BY <3>1, <3>2
        <5>4. recent[i] \in Nat /\ recent[n] \in Nat
          BY <2>4, <3>2
        <5>5. recent[n] \in (recent[i] + 1)..(server - 1)
          BY <3>0, <5>2, <5>3, <5>4
        <5> QED BY <4>2, <5>3, <5>5
      <4> QED BY <4>1, <4>2
    <3>4. Offered \subseteq earlier
      <4> SUFFICES ASSUME NEW i \in Incomplete, row[recent[i]].plan, \A n \in Incomplete : i <= n
                   PROVE  recent[i] \in earlier
        BY DEF Offered
      <4>1. recent[i] \in 1..(server - 1) /\ row[recent[i]].status = "active"
        BY <3>1, <3>2
      <4>2. \A r \in (recent[i] + 1)..(server - 1) : row[r].status # "active"
        BY <3>3
      <4> QED BY <4>1, <4>2
    <3>5. earlier \subseteq Offered
      <4> SUFFICES ASSUME NEW s \in 1..(server - 1), row[s].status = "active", row[s].plan,
                          \A r \in (s + 1)..(server - 1) : row[r].status # "active"
                   PROVE  s \in Offered
        OBVIOUS
      <4>1. s \in Session
        BY <2>1, <3>0 DEF Session
      <4>2. PICK i \in Incomplete : recent[i] = s
        BY <3>1, <4>1
      <4>3. \A n \in Incomplete : i <= n
        BY <3>3, <4>2
      <4> QED BY <4>2, <4>3 DEF Offered
    <3> HIDE DEF earlier
    <3> QED BY <3>4, <3>5
  <2> HIDE DEF own, earlier
  <2> QED BY <2>5, <2>6
<1> QED BY <1>1, RecencyInvariance, PTL

-----------------------------------------------------------------------------
(* The replay. *)

(* Of a debug request that logs z steps in all, the n-th phase starts and      *)
(* completes with these entries, and the j-th step is that one.              *)
Whole(z) == 2 * NumPhases + z
StartAt(z, n) == IF n <= Exec THEN 2 * n - 1 ELSE 2 * n - 1 + z
DoneAt(z, n) == IF n < Exec THEN 2 * n ELSE 2 * n + z
StepAt(j) == 2 * Exec - 1 + j

Says(q, i, t, n) == q[i].t = t /\ q[i].n = n
Follows(z, q) ==
  /\ Len(q) <= Whole(z)
  /\ \A n \in 1..NumPhases :
       /\ StartAt(z, n) <= Len(q) => Says(q, StartAt(z, n), "start", n)
       /\ DoneAt(z, n) <= Len(q) => Says(q, DoneAt(z, n), "done", n)
  /\ \A j \in 1..z : StepAt(j) <= Len(q) => Says(q, StepAt(j), "step", j)

(* A log, complete or not, with z steps. *)
IsScript(z, q) == Follows(z, q) /\ (z > 0 => StepAt(z) <= Len(q))
HasScript(q) == \E z \in 0..NumSteps : IsScript(z, q)

(* How far the log of a debug request is. *)
Progress ==
  /\ Len(log[server]) = 2 * job.phase - (IF job.open THEN 1 ELSE 0) + job.step
  /\ job.open => job.phase > 0
  /\ job.phase < Exec => job.step = 0
  /\ IsScript(job.step, log[server])

(* A table with as many entries as the file has those. *)
Agrees(s) ==
  /\ Len(table[s]) + Due(s) <= Len(log[s])
  /\ Len(table[s]) + Due(s) = Len(log[s]) => \A i \in 1..Len(table[s]) : table[s][i] = log[s][i]

OneRequest(s) ==
  /\ s > starts => served[s] = 0
  /\ served[s] = 0 => log[s] = <<>>
  /\ served[s] <= 1 => Agrees(s)
  /\ served[s] = 1 /\ Opened(s) => HasScript(log[s])

Running ==
  /\ server <= starts
  /\ half.k = "entry" => Len(log[server]) > 0 /\ half.entry = log[server][Len(log[server])]
  /\ job.kind \in {"debug", "execute"} => served[server] > 0
  /\ job.kind = "execute" /\ served[server] = 1 => ~Opened(server)
  /\ job.kind = "debug" => Progress

ReplayInv == IInv /\ Running /\ \A s \in Session : OneRequest(s)

(* Nothing is logged. *)
LEMMA QuietStep ==
  ASSUME ReplayInv, IInv', half'.k # "entry", server' \in {0, server},
         UNCHANGED <<starts, log, table, served>>,
         \/ job'.kind \in {"none", "boot"}
         \/ server' = server /\ job'.kind = job.kind /\ job'.phase = job.phase /\ job'.open = job.open /\ job'.step = job.step
  PROVE  ReplayInv'
<1>1. TypeOK /\ Running /\ \A s \in Session : OneRequest(s)
  BY DEF ReplayInv, IInv
<1>2. ASSUME NEW s \in Session PROVE OneRequest(s)'
  <2>1. OneRequest(s)
    BY <1>1
  <2>2. Due(s)' = 0 /\ Len(table[s]) \in Nat /\ Len(log[s]) \in Nat /\ Due(s) \in {0, 1}
    BY <1>1, Lengths DEF Due
  <2>3. Agrees(s) => Agrees(s)'
    BY <2>2 DEF Agrees
  <2> QED BY <2>1, <2>3 DEF OneRequest, Opened
<1>3. Running'
  <2>1. server' <= starts
    BY <1>1 DEF Running, TypeOK
  <2>2. CASE job'.kind \in {"none", "boot"}
    BY <2>1, <2>2 DEF Running
  <2>3. CASE job'.kind \notin {"none", "boot"}
    <3>1. Progress => Progress'
      BY <2>3 DEF Progress
    <3> QED BY <1>1, <2>1, <2>3, <3>1 DEF Running, Opened
  <2> QED BY <2>2, <2>3
<1> QED BY <1>2, <1>3 DEF ReplayInv

(* An entry is logged. *)
LEMMA EntryStep ==
  ASSUME ReplayInv, IInv', half = NoHalf, job.kind \in {"debug", "execute"},
         NEW t \in {"start", "done", "step"}, NEW n \in Nat, LogEntry(t, n), job'.kind = job.kind,
         job.kind = "execute" => t = "step",
         job.kind = "debug" => job'.step \in 0..NumSteps,
         \A e \in Entry : e.t = t /\ e.n = n /\ log'[server] = Append(log[server], e) =>
           (job.kind = "debug" => Progress'),
         UNCHANGED <<server, starts, table, served>>
  PROVE  ReplayInv'
<1>1. TypeOK /\ HalfIsDue /\ Running /\ \A s \in Session : OneRequest(s)
  BY DEF ReplayInv, IInv
<1>2. server \in Session /\ served[server] \in Nat /\ served[server] > 0 /\ half.k = "none"
  BY <1>1, Halves DEF HalfIsDue, TypeOK, Running
<1>3. PICK e \in Entry : /\ e.t = t /\ e.n = n /\ log' = [log EXCEPT ![server] = Append(@, e)]
                         /\ half'.k = "entry" /\ half'.entry = e
  <2>1. PICK tie \in BOOLEAN :
          LET now == IF tie THEN clock ELSE clock + 1
              e == [s |-> server, t |-> t, n |-> n, ms |-> now]
          IN /\ log' = [log EXCEPT ![server] = Append(@, e)]
             /\ half' = InsertOf(e)
    BY DEF LogEntry
  <2> DEFINE now == IF tie THEN clock ELSE clock + 1
             e == [s |-> server, t |-> t, n |-> n, ms |-> now]
  <2>2. now \in Nat
    BY <1>1 DEF TypeOK
  <2>3. e \in Entry /\ e.t = t /\ e.n = n
    BY <1>2, <2>2 DEF Entry
  <2>4. log' = [log EXCEPT ![server] = Append(@, e)] /\ half' = InsertOf(e)
    BY <2>1
  <2> QED BY <2>3, <2>4, Halves
<1>4. log[server] \in Seq(Entry) /\ log'[server] = Append(log[server], e) /\ \A s \in Session \ {server} : log'[s] = log[s]
  BY <1>1, <1>2, <1>3 DEF TypeOK
<1>5. /\ Len(log'[server]) = Len(log[server]) + 1 /\ log'[server][Len(log[server]) + 1] = e
      /\ \A i \in 1..Len(log[server]) : log'[server][i] = log[server][i]
  BY <1>4
<1>6. job.kind = "debug" => Progress'
  BY <1>3, <1>4
(* An execute request only logs steps. *)
<1>7. job.kind = "execute" /\ served[server] = 1 => ~Opened(server)'
  <2> SUFFICES ASSUME job.kind = "execute", served[server] = 1 PROVE ~Opened(server)'
    OBVIOUS
  <2>1. ~Opened(server) /\ e.t = "step"
    BY <1>1, <1>3 DEF Running
  <2>2. CASE log[server] = <<>>
    <3>1. log'[server][1] = e
      BY <1>4, <2>2
    <3> QED BY <2>1, <3>1 DEF Opened
  <2>3. CASE log[server] # <<>>
    <3>1. log'[server][1] = log[server][1]
      BY <1>4, <1>5, <2>3
    <3> QED BY <2>1, <2>3, <3>1 DEF Opened
  <2> QED BY <2>2, <2>3
<1>8. ASSUME NEW s \in Session PROVE OneRequest(s)'
  <2>1. OneRequest(s) /\ Len(table[s]) \in Nat /\ Len(log[s]) \in Nat
    BY <1>1, Lengths
  <2>2. CASE s = server
    <3>1. Due(s) = 0 /\ Due(s)' = 1
      BY <1>2, <1>3, <2>2 DEF Due
    <3>2. Agrees(s) => Agrees(s)'
      BY <1>5, <2>1, <2>2, <3>1 DEF Agrees
    <3>3. job.kind = "debug" => HasScript(log'[s])
      BY <1>6, <2>2 DEF Progress, HasScript
    <3>4. served[s] = 1 /\ Opened(s)' => HasScript(log'[s])
      BY <1>7, <2>2, <3>3
    <3> QED BY <1>2, <2>1, <2>2, <3>2, <3>4 DEF OneRequest
  <2>3. CASE s # server
    <3>1. Agrees(s)' = Agrees(s) /\ Opened(s)' = Opened(s)
      BY <1>4, <2>3 DEF Agrees, Due, Opened
    <3> QED BY <1>4, <2>1, <2>3, <3>1 DEF OneRequest
  <2> QED BY <2>2, <2>3
<1>9. Running'
  <2>1. Len(log'[server]) > 0 /\ half'.entry = log'[server][Len(log'[server])]
    BY <1>1, <1>2, <1>3, <1>5, Lengths
  <2> QED BY <1>1, <1>6, <1>7, <2>1 DEF Running
<1> QED BY <1>8, <1>9 DEF ReplayInv

LEMMA ReplayInsertStep == ASSUME ReplayInv, IInv', Insert PROVE ReplayInv'
<1>1. TypeOK /\ HalfIsDue /\ Running /\ \A s \in Session : OneRequest(s)
  BY DEF ReplayInv, IInv
<1>2. /\ half.k = "entry" /\ half' = NoHalf /\ half'.k = "none" /\ half # NoHalf
      /\ table' = [table EXCEPT ![server] = Append(@, half.entry)]
      /\ server' = server /\ starts' = starts /\ log' = log /\ job' = job /\ served' = served
  BY Halves DEF Insert
<1>3. server \in Session /\ half.entry \in Entry
  BY <1>1, <1>2, HalfTypes DEF HalfIsDue, TypeOK
<1>4. /\ table[server] \in Seq(Entry) /\ table'[server] = Append(table[server], half.entry)
      /\ \A s \in Session \ {server} : table'[s] = table[s]
  BY <1>1, <1>2, <1>3 DEF TypeOK
<1>5. ASSUME NEW s \in Session PROVE OneRequest(s)'
  <2>1. OneRequest(s) /\ Len(table[s]) \in Nat /\ Len(log[s]) \in Nat
    BY <1>1, Lengths
  <2>2. CASE s = server
    <3>1. Due(s) = 1 /\ Due(s)' = 0
      BY <1>2, <2>2 DEF Due
    <3>2. /\ Len(table'[s]) = Len(table[s]) + 1 /\ table'[s][Len(table[s]) + 1] = half.entry
          /\ \A i \in 1..Len(table[s]) : table'[s][i] = table[s][i]
      BY <1>3, <1>4, <2>2
    <3>3. half.entry = log[s][Len(log[s])]
      BY <1>1, <1>2, <2>2 DEF Running
    <3>4. Agrees(s) => Agrees(s)'
      <4>1. SUFFICES ASSUME Agrees(s) PROVE Agrees(s)'
        OBVIOUS
      <4>2. Len(table'[s]) + 0 <= Len(log[s])
        BY <2>1, <3>1, <3>2, <4>1 DEF Agrees
      <4>3. ASSUME Len(table'[s]) + 0 = Len(log[s]), NEW i \in 1..Len(table'[s])
            PROVE  table'[s][i] = log[s][i]
        <5>1. \A j \in 1..Len(table[s]) : table[s][j] = log[s][j]
          BY <2>1, <3>1, <3>2, <4>1, <4>3 DEF Agrees
        <5>2. i \in 1..Len(table[s]) \/ i = Len(table[s]) + 1
          BY <2>1, <3>2
        <5>3. Len(table[s]) + 1 = Len(log[s])
          BY <2>1, <3>2, <4>3
        <5> QED BY <3>2, <3>3, <5>1, <5>2, <5>3
      <4> QED BY <1>2, <3>1, <4>2, <4>3 DEF Agrees
    <3> QED BY <1>2, <2>1, <3>4 DEF OneRequest, Opened
  <2>3. CASE s # server
    <3>1. Agrees(s)' = Agrees(s)
      BY <1>2, <1>4, <2>3 DEF Agrees, Due
    <3> QED BY <1>2, <2>1, <3>1 DEF OneRequest, Opened
  <2> QED BY <2>2, <2>3
<1>6. Running'
  BY <1>1, <1>2 DEF Running, Progress, Opened
<1> QED BY <1>5, <1>6 DEF ReplayInv

LEMMA ReplayStartStep == ASSUME ReplayInv, IInv', Start PROVE ReplayInv'
<1>1. TypeOK /\ HalfIsDue /\ Running /\ \A s \in Session : OneRequest(s)
  BY DEF ReplayInv, IInv
<1>2. /\ server = 0 /\ starts < MaxStarts /\ starts' = starts + 1 /\ server' = starts + 1
      /\ half' = RowOf(Active)
      /\ job' = [NoJob EXCEPT !.kind = "boot"]
      /\ log' = log /\ table' = table /\ served' = served
  BY DEF Start
<1>3. half.k # "entry" /\ half'.k = "row" /\ job'.kind = "boot"
  <2>1. half = NoHalf
    BY <1>1, <1>2 DEF HalfIsDue
  <2>2. job'.kind = "boot"
    BY <1>2 DEF NoJob
  <2> QED BY <1>2, <2>1, <2>2, Halves, StateFacts
<1>4. ASSUME NEW s \in Session PROVE OneRequest(s)'
  <2>0. OneRequest(s) /\ starts \in 0..MaxStarts /\ s \in 1..MaxStarts /\ MaxStarts \in Nat
    BY <1>1, StoreAssumption DEF TypeOK, Session
  <2>1. OneRequest(s) /\ starts \in Nat /\ s \in Nat
    BY <2>0
  <2>2. Agrees(s)' = Agrees(s) /\ Opened(s)' = Opened(s)
    BY <1>2, <1>3 DEF Agrees, Due, Opened
  <2>3. s > starts' => served[s] = 0
    BY <1>2, <2>1 DEF OneRequest
  <2> QED BY <1>2, <2>1, <2>2, <2>3 DEF OneRequest
<1>5. Running'
  BY <1>1, <1>2, <1>3 DEF Running, TypeOK
<1> QED BY <1>4, <1>5 DEF ReplayInv

LEMMA ReplayOpenDebugStep == ASSUME ReplayInv, IInv', OpenDebug PROVE ReplayInv'
<1>1. TypeOK /\ HalfIsDue /\ Running /\ \A s \in Session : OneRequest(s)
  BY DEF ReplayInv, IInv
<1>2. /\ server # 0 /\ half = NoHalf /\ Persist(Active)
      /\ log' = [log EXCEPT ![server] = <<>>] /\ job' = [NoJob EXCEPT !.kind = "debug"]
      /\ served' = [served EXCEPT ![server] = @ + 1]
      /\ server' = server /\ starts' = starts /\ table' = table
  BY DEF OpenDebug, Free
<1>3. server \in Session /\ half.k = "none" /\ half'.k = "row"
  BY <1>1, <1>2, Halves, StateFacts DEF TypeOK, Persist
<1>4. /\ log'[server] = <<>> /\ served'[server] = served[server] + 1
      /\ served[server] \in Nat
      /\ \A s \in Session \ {server} : log'[s] = log[s] /\ served'[s] = served[s]
  BY <1>1, <1>2, <1>3 DEF TypeOK
<1>5. server <= starts
  BY <1>1 DEF Running
<1>6. ASSUME NEW s \in Session PROVE OneRequest(s)'
  <2>1. OneRequest(s)
    BY <1>1
  <2>2. Due(s) = 0 /\ Due(s)' = 0
    BY <1>3 DEF Due
  <2>3. CASE s = server
    <3>1. served'[s] <= 1 => Agrees(s)'
      <4>1. SUFFICES ASSUME served'[s] <= 1 PROVE Agrees(s)'
        OBVIOUS
      <4>2. log[s] = <<>> /\ Agrees(s)
        BY <1>4, <2>1, <2>3, <4>1 DEF OneRequest
      <4> QED BY <1>2, <1>4, <2>2, <2>3, <4>2 DEF Agrees
    <3>2. ~(s > starts') /\ served'[s] # 0 /\ ~Opened(s)'
      BY <1>1, <1>2, <1>3, <1>4, <1>5, <2>3 DEF TypeOK, Session, Opened
    <3> QED BY <3>1, <3>2 DEF OneRequest
  <2>4. CASE s # server
    <3>1. Agrees(s)' = Agrees(s) /\ Opened(s)' = Opened(s)
      BY <1>2, <1>4, <2>2, <2>4 DEF Agrees, Opened
    <3> QED BY <1>2, <1>4, <2>1, <2>4, <3>1 DEF OneRequest
  <2> QED BY <2>3, <2>4
<1>7. Progress'
  <2>1. job'.phase = 0 /\ job'.open = FALSE /\ job'.step = 0
    BY <1>2 DEF NoJob
  <2>2. Len(log'[server']) = 0
    BY <1>2, <1>4
  <2>3. \A n \in 1..NumPhases : ~(StartAt(0, n) <= 0) /\ ~(DoneAt(0, n) <= 0)
    BY StoreAssumption DEF StartAt, DoneAt
  <2>4. \A j \in 1..0 : FALSE
    OBVIOUS
  <2>5. 0 <= Whole(0)
    BY StoreAssumption DEF Whole
  <2>6. IsScript(0, log'[server'])
    BY <2>2, <2>3, <2>4, <2>5 DEF IsScript, Follows
  <2>7. 2 * 0 - 0 + 0 = 0
    OBVIOUS
  <2> QED BY <1>2, <2>1, <2>2, <2>6, <2>7 DEF Progress
<1>8. Running'
  BY <1>1, <1>2, <1>3, <1>4, <1>7 DEF Running
<1> QED BY <1>6, <1>8 DEF ReplayInv

LEMMA ReplayOpenExecuteStep == ASSUME ReplayInv, IInv', OpenExecute PROVE ReplayInv'
<1>1. TypeOK /\ HalfIsDue /\ Running /\ \A s \in Session : OneRequest(s)
  BY DEF ReplayInv, IInv
<1>2. /\ server # 0 /\ half = NoHalf /\ half' = half /\ job' = [NoJob EXCEPT !.kind = "execute"]
      /\ served' = [served EXCEPT ![server] = @ + 1]
      /\ server' = server /\ starts' = starts /\ log' = log /\ table' = table
  BY DEF OpenExecute, Free
<1>3. server \in Session /\ half.k = "none" /\ job'.kind = "execute"
  BY <1>1, <1>2, Halves DEF TypeOK, NoJob
<1>4. /\ served'[server] = served[server] + 1 /\ served[server] \in Nat
      /\ \A s \in Session \ {server} : served'[s] = served[s]
  BY <1>1, <1>2, <1>3 DEF TypeOK
<1>5. server <= starts
  BY <1>1 DEF Running
<1>6. served'[server] = 1 => ~Opened(server) /\ log[server] = <<>>
  BY <1>1, <1>3, <1>4 DEF OneRequest, Opened
<1>7. ASSUME NEW s \in Session PROVE OneRequest(s)'
  <2>1. OneRequest(s)
    BY <1>1
  <2>2. Agrees(s)' = Agrees(s) /\ Opened(s)' = Opened(s)
    BY <1>2 DEF Agrees, Due, Opened
  <2>3. CASE s = server
    <3>1. ~(s > starts') /\ served'[s] # 0
      BY <1>1, <1>2, <1>3, <1>4, <1>5, <2>3 DEF TypeOK, Session
    <3>2. served'[s] <= 1 => served[s] = 0
      BY <1>4, <2>3
    <3> QED BY <1>2, <1>4, <1>6, <2>1, <2>2, <2>3, <3>1, <3>2 DEF OneRequest
  <2>4. CASE s # server
    BY <1>2, <1>4, <2>1, <2>2, <2>4 DEF OneRequest
  <2> QED BY <2>3, <2>4
<1>8. Running'
  <2>1. Opened(server)' = Opened(server)
    BY <1>2 DEF Opened
  <2> QED BY <1>1, <1>2, <1>3, <1>4, <1>6, <2>1 DEF Running
<1> QED BY <1>7, <1>8 DEF ReplayInv

-----------------------------------------------------------------------------
(* The places of a script. *)

LEMMA Positions ==
  ASSUME NEW z \in 0..NumSteps
  PROVE  /\ Exec \in Nat /\ Exec < NumPhases /\ Whole(z) \in Nat
         /\ \A n \in 1..NumPhases : StartAt(z, n) \in Nat /\ DoneAt(z, n) \in Nat
         /\ \A n \in 1..NumPhases : StartAt(z, n) >= 1 /\ StartAt(z, n) < DoneAt(z, n) /\ DoneAt(z, n) <= Whole(z)
         /\ \A n, m \in 1..NumPhases : n < m => DoneAt(z, n) < StartAt(z, m)
         /\ \A j \in 1..z : StepAt(j) \in Nat /\ StepAt(j) >= 1
         /\ \A j \in 1..z, n \in 1..NumPhases : StepAt(j) # StartAt(z, n) /\ StepAt(j) # DoneAt(z, n)
  BY StoreAssumption DEF StartAt, DoneAt, StepAt, Whole, Exec

(* No two phases share a place. *)
LEMMA Apart ==
  ASSUME NEW z \in 0..NumSteps, NEW n \in 1..NumPhases, NEW m \in 1..NumPhases
  PROVE  /\ StartAt(z, n) # DoneAt(z, m)
         /\ StartAt(z, n) = StartAt(z, m) => n = m
         /\ DoneAt(z, n) = DoneAt(z, m) => n = m
<1>1. /\ StartAt(z, n) \in Nat /\ DoneAt(z, n) \in Nat /\ StartAt(z, m) \in Nat /\ DoneAt(z, m) \in Nat
      /\ StartAt(z, n) < DoneAt(z, n) /\ StartAt(z, m) < DoneAt(z, m)
      /\ n < m => DoneAt(z, n) < StartAt(z, m)
      /\ m < n => DoneAt(z, m) < StartAt(z, n)
  BY Positions
<1>2. n = m \/ n < m \/ m < n
  BY StoreAssumption
<1> QED BY <1>1, <1>2

(* Every place of the script is a start, a completion or a step. *)
LEMMA Places ==
  ASSUME NEW z \in 0..NumSteps, NEW i \in 1..Whole(z)
  PROVE  \/ \E n \in 1..NumPhases : i = StartAt(z, n) \/ i = DoneAt(z, n)
         \/ \E j \in 1..z : i = StepAt(j)
<1>1. /\ Exec \in Nat \ {0} /\ NumPhases = Exec + 1 /\ z \in Nat /\ i \in Nat /\ i >= 1
      /\ i <= 2 * Exec + z + 2
  BY StoreAssumption DEF Whole, Exec
<1>2. CASE i < 2 * Exec
  <2> DEFINE H == {m \in Nat : \E n \in Nat : m = 2 * n \/ m = 2 * n + 1}
  <2>1. Nat \subseteq H
    <3>1. 0 \in H
      <4>1. 0 = 2 * 0
        OBVIOUS
      <4> QED BY <4>1
    <3>2. ASSUME NEW m \in Nat, m \in H PROVE m + 1 \in H
      <4>1. PICK n \in Nat : m = 2 * n \/ m = 2 * n + 1
        BY <3>2
      <4>2. CASE m = 2 * n
        BY <4>2
      <4>3. CASE m = 2 * n + 1
        <5>1. m + 1 = 2 * (n + 1) /\ n + 1 \in Nat
          BY <4>3
        <5>2. \E x \in Nat : m + 1 = 2 * x \/ m + 1 = 2 * x + 1
          BY ONLY <5>1, Zenon
        <5>3. m + 1 \in Nat
          OBVIOUS
        <5> QED BY <5>2, <5>3
      <4> QED BY <4>1, <4>2, <4>3
    <3> HIDE DEF H
    <3> QED BY <3>1, <3>2, Induction
  <2>2. PICK n \in Nat : i = 2 * n \/ i = 2 * n + 1
    BY <1>1, <2>1
  <2>3. CASE i = 2 * n
    <3>1. n >= 1 /\ n < Exec
      BY <1>1, <1>2, <2>3
    <3>2. n \in 1..NumPhases
      BY <1>1, <3>1
    <3>3. DoneAt(z, n) = 2 * n
      BY <1>1, <3>1 DEF DoneAt
    <3> QED BY <2>3, <3>2, <3>3
  <2>4. CASE i = 2 * n + 1
    <3>1. n + 1 <= Exec /\ n + 1 \in 1..NumPhases
      BY <1>1, <1>2, <2>4
    <3>2. i = StartAt(z, n + 1)
      BY <1>1, <2>4, <3>1 DEF StartAt
    <3> QED BY <3>1, <3>2
  <2> QED BY <2>2, <2>3, <2>4
<1>3. CASE i >= 2 * Exec /\ i < 2 * Exec + z
  <2>1. i - 2 * Exec + 1 \in 1..z /\ i = StepAt(i - 2 * Exec + 1)
    BY <1>1, <1>3 DEF StepAt
  <2> QED BY <2>1
<1>4. CASE i = 2 * Exec + z
  <2>1. Exec \in 1..NumPhases /\ i = DoneAt(z, Exec)
    BY <1>1, <1>4 DEF DoneAt
  <2> QED BY <2>1
<1>5. CASE i = 2 * Exec + z + 1
  <2>1. NumPhases \in 1..NumPhases /\ i = StartAt(z, NumPhases)
    BY <1>1, <1>5 DEF StartAt
  <2> QED BY <2>1
<1>6. CASE i = 2 * Exec + z + 2
  <2>1. NumPhases \in 1..NumPhases /\ i = DoneAt(z, NumPhases)
    BY <1>1, <1>6 DEF DoneAt
  <2> QED BY <2>1
<1> QED BY <1>1, <1>2, <1>3, <1>4, <1>5, <1>6

(* What the i-th entry is to be. *)
Fits(z, i, e) ==
  /\ i <= Whole(z)
  /\ \A n \in 1..NumPhases :
       /\ StartAt(z, n) = i => e.t = "start" /\ e.n = n
       /\ DoneAt(z, n) = i => e.t = "done" /\ e.n = n
  /\ \A j \in 1..z : StepAt(j) = i => e.t = "step" /\ e.n = j

LEMMA ScriptGoesOn ==
  ASSUME NEW z \in 0..NumSteps, NEW q \in Seq(Entry), Follows(z, q), NEW e \in Entry, Fits(z, Len(q) + 1, e)
  PROVE  Follows(z, Append(q, e))
<1> DEFINE N == Len(q)
           p == Append(q, e)
<1>1. N \in Nat /\ Len(p) = N + 1 /\ p[N + 1] = e /\ \A i \in 1..N : p[i] = q[i]
  OBVIOUS
<1> HIDE DEF N, p
<1>2. ASSUME NEW i \in Nat, i >= 1, i <= N + 1, NEW t, NEW n, i <= N => Says(q, i, t, n), N + 1 = i => e.t = t /\ e.n = n
      PROVE  Says(p, i, t, n)
  <2>1. CASE i <= N
    <3>1. i \in 1..N
      BY <1>1, <1>2, <2>1
    <3> QED BY <1>1, <1>2, <2>1, <3>1 DEF Says
  <2>2. CASE i = N + 1
    BY <1>1, <1>2, <2>2 DEF Says
  <2>3. i <= N \/ i = N + 1
    BY <1>1, <1>2
  <2> QED BY <2>1, <2>2, <2>3
<1>3. ASSUME NEW n \in 1..NumPhases
      PROVE  /\ StartAt(z, n) <= N + 1 => Says(p, StartAt(z, n), "start", n)
             /\ DoneAt(z, n) <= N + 1 => Says(p, DoneAt(z, n), "done", n)
  <2>1. /\ StartAt(z, n) <= N => Says(q, StartAt(z, n), "start", n)
        /\ DoneAt(z, n) <= N => Says(q, DoneAt(z, n), "done", n)
    BY DEF Follows, N
  <2>2. /\ N + 1 = StartAt(z, n) => e.t = "start" /\ e.n = n
        /\ N + 1 = DoneAt(z, n) => e.t = "done" /\ e.n = n
    BY DEF Fits, N
  <2>3. StartAt(z, n) \in Nat /\ StartAt(z, n) >= 1 /\ DoneAt(z, n) \in Nat /\ DoneAt(z, n) >= 1
    BY Positions
  <2> QED BY <1>2, <2>1, <2>2, <2>3
<1>4. ASSUME NEW j \in 1..z PROVE StepAt(j) <= N + 1 => Says(p, StepAt(j), "step", j)
  <2>1. StepAt(j) <= N => Says(q, StepAt(j), "step", j)
    BY DEF Follows, N
  <2>2. N + 1 = StepAt(j) => e.t = "step" /\ e.n = j
    BY DEF Fits, N
  <2>3. StepAt(j) \in Nat /\ StepAt(j) >= 1
    BY Positions
  <2> QED BY <1>2, <2>1, <2>2, <2>3
<1>5. N + 1 <= Whole(z)
  BY DEF Fits, N
<1> QED BY <1>1, <1>3, <1>4, <1>5 DEF Follows, p

(* Up to its next step a log is the log of a request with one step more. *)
LEMMA OneStepMore ==
  ASSUME NEW z \in 0..NumSteps, z < NumSteps, NEW q \in Seq(Entry), Follows(z, q), Len(q) = StepAt(z + 1) - 1
  PROVE  Follows(z + 1, q)
<1>1. NumPhases \in Nat /\ NumPhases > 2 /\ z \in Nat /\ Exec = NumPhases - 1 /\ Len(q) = 2 * Exec - 1 + z
  BY StoreAssumption DEF StepAt, Exec
<1>2. Len(q) <= Whole(z + 1)
  BY <1>1 DEF Whole
<1>3. ASSUME NEW n \in 1..NumPhases
      PROVE  /\ StartAt(z + 1, n) <= Len(q) => StartAt(z + 1, n) = StartAt(z, n)
             /\ DoneAt(z + 1, n) <= Len(q) => DoneAt(z + 1, n) = DoneAt(z, n)
  BY <1>1 DEF StartAt, DoneAt
<1>4. ASSUME NEW j \in 1..(z + 1), StepAt(j) <= Len(q) PROVE j \in 1..z
  BY <1>1, <1>4 DEF StepAt
<1> QED BY <1>2, <1>3, <1>4 DEF Follows

LEMMA ReplayStartPhaseStep == ASSUME ReplayInv, IInv', StartPhase PROVE ReplayInv'
<1>1. TypeOK /\ HalfIsDue /\ Running
  BY DEF ReplayInv, IInv
<1>2. /\ half = NoHalf /\ job.kind = "debug" /\ LogEntry("start", job.phase + 1)
      /\ ~job.open /\ job.phase < NumPhases /\ job' = [job EXCEPT !.open = TRUE, !.phase = @ + 1]
      /\ UNCHANGED <<server, starts, table, served>>
  BY DEF StartPhase, Serving
<1>3. /\ Progress /\ server \in Session /\ job.phase \in Nat /\ log[server] \in Seq(Entry)
      /\ job.step \in 0..NumSteps /\ job.step \in Nat
  BY <1>1, <1>2, StoreAssumption DEF Running, HalfIsDue, TypeOK
<1>4. job'.kind = "debug" /\ job'.open = TRUE /\ job'.phase = job.phase + 1 /\ job'.step = job.step
  BY <1>1, <1>2 DEF TypeOK
<1>5. Len(log[server]) = 2 * job.phase + job.step /\ (job.phase < Exec => job.step = 0)
  <2>1. Len(log[server]) = 2 * job.phase - 0 + job.step /\ (job.phase < Exec => job.step = 0)
    BY <1>2, <1>3 DEF Progress
  <2> QED BY <1>3, <2>1
<1>6. ASSUME NEW e \in Entry, e.t = "start", e.n = job.phase + 1, log'[server] = Append(log[server], e)
      PROVE  Progress'
  <2> DEFINE i == Len(log[server]) + 1
             m == job.phase + 1
             z == job.step
  <2>1. m \in 1..NumPhases /\ i = StartAt(z, m)
    <3>1. m \in 1..NumPhases /\ m \in Nat
      BY <1>2, <1>3, StoreAssumption
    <3>2. i = 2 * m - 1 + job.step
      BY <1>3, <1>5
    <3>3. Exec \in Nat /\ (m <= Exec => job.phase < Exec)
      BY <1>3, StoreAssumption DEF Exec
    <3>4. m <= Exec => i = 2 * m - 1
      BY <1>5, <3>1, <3>2, <3>3
    <3> HIDE DEF m, i
    <3> QED BY <3>1, <3>2, <3>3, <3>4 DEF StartAt
  <2>2. z \in 0..NumSteps
    BY <1>3
  <2>3. e.t = "start" /\ e.n = m /\ Follows(z, log[server]) /\ (z > 0 => StepAt(z) <= Len(log[server]))
    BY <1>3, <1>6 DEF Progress, IsScript
  <2> HIDE DEF m, z
  <2>4. Fits(z, i, e)
    <3> HIDE DEF i
    <3>1. i <= Whole(z) /\ i \in Nat
      <4>1. StartAt(z, m) < DoneAt(z, m) /\ DoneAt(z, m) <= Whole(z) /\ StartAt(z, m) \in Nat /\ DoneAt(z, m) \in Nat
            /\ Whole(z) \in Nat
        BY <2>1, <2>2, Positions
      <4> QED BY <2>1, <4>1
    <3>2. \A n \in 1..NumPhases : DoneAt(z, n) # i /\ (StartAt(z, n) = i => n = m)
      BY <2>1, <2>2, Apart
    <3>3. \A j \in 1..z : StepAt(j) # i
      BY <2>1, <2>2, Positions
    <3> QED BY <2>3, <3>1, <3>2, <3>3 DEF Fits
  <2>5. Follows(z, log'[server])
    BY <1>3, <1>6, <2>2, <2>3, <2>4, ScriptGoesOn
  <2>6. Len(log'[server]) = Len(log[server]) + 1 /\ Len(log[server]) \in Nat
    BY <1>3, <1>6
  <2>7. IsScript(z, log'[server])
    <3>1. z > 0 => StepAt(z) <= Len(log'[server])
      <4>1. z \in Nat /\ StepAt(z) \in Int
        BY <2>2, StoreAssumption DEF StepAt, Exec
      <4> QED BY <2>3, <2>6, <4>1
    <3> QED BY <2>5, <3>1 DEF IsScript
  <2>8. IsScript(job'.step, log'[server])
    BY <1>4, <2>7 DEF z
  <2>9. Len(log'[server]) = 2 * (job.phase + 1) - 1 + job.step /\ job.phase + 1 > 0
    BY <1>3, <1>5, <2>6
  <2>10. job.phase + 1 < Exec => job.step = 0
    BY <1>3, <1>5, StoreAssumption DEF Exec
  <2> QED BY <1>2, <1>4, <2>8, <2>9, <2>10 DEF Progress
<1>7. job.phase + 1 \in Nat /\ server' = server
  BY <1>2, <1>3
<1> QED BY <1>2, <1>3, <1>4, <1>6, <1>7, EntryStep

LEMMA ReplayEndPhaseStep == ASSUME ReplayInv, IInv', EndPhase PROVE ReplayInv'
<1>1. TypeOK /\ HalfIsDue /\ Running
  BY DEF ReplayInv, IInv
<1>2. /\ half = NoHalf /\ job.kind = "debug" /\ LogEntry("done", job.phase)
      /\ job.open /\ job' = [job EXCEPT !.open = FALSE]
      /\ UNCHANGED <<server, starts, table, served>>
  BY DEF EndPhase, Serving
<1>3. /\ Progress /\ server \in Session /\ job.phase \in 0..NumPhases /\ job.phase \in Nat
      /\ log[server] \in Seq(Entry) /\ job.step \in 0..NumSteps /\ job.step \in Nat
  BY <1>1, <1>2, StoreAssumption DEF Running, HalfIsDue, TypeOK
<1>4. job'.kind = "debug" /\ job'.open = FALSE /\ job'.phase = job.phase /\ job'.step = job.step
  BY <1>1, <1>2 DEF TypeOK
<1>5. /\ Len(log[server]) = 2 * job.phase - 1 + job.step /\ job.phase > 0
      /\ job.phase < Exec => job.step = 0
  BY <1>2, <1>3 DEF Progress
<1>6. ASSUME NEW e \in Entry, e.t = "done", e.n = job.phase, log'[server] = Append(log[server], e)
      PROVE  Progress'
  <2> DEFINE i == Len(log[server]) + 1
             m == job.phase
             z == job.step
  <2>1. m \in 1..NumPhases /\ i = DoneAt(z, m)
    BY <1>3, <1>5, StoreAssumption DEF DoneAt, Exec
  <2>2. z \in 0..NumSteps
    BY <1>3
  <2>3. e.t = "done" /\ e.n = m /\ Follows(z, log[server]) /\ (z > 0 => StepAt(z) <= Len(log[server]))
    BY <1>3, <1>6 DEF Progress, IsScript
  <2> HIDE DEF m, z
  <2>4. Fits(z, i, e)
    <3> HIDE DEF i
    <3>1. i <= Whole(z) /\ i \in Nat
      <4>1. DoneAt(z, m) <= Whole(z) /\ DoneAt(z, m) \in Nat
        BY <2>1, <2>2, Positions
      <4> QED BY <2>1, <4>1
    <3>2. \A n \in 1..NumPhases : StartAt(z, n) # i /\ (DoneAt(z, n) = i => n = m)
      BY <2>1, <2>2, Apart
    <3>3. \A j \in 1..z : StepAt(j) # i
      BY <2>1, <2>2, Positions
    <3> QED BY <2>3, <3>1, <3>2, <3>3 DEF Fits
  <2>5. Follows(z, log'[server])
    BY <1>3, <1>6, <2>2, <2>3, <2>4, ScriptGoesOn
  <2>6. Len(log'[server]) = Len(log[server]) + 1 /\ Len(log[server]) \in Nat
    BY <1>3, <1>6
  <2>7. IsScript(z, log'[server])
    <3>1. z > 0 => StepAt(z) <= Len(log'[server])
      <4>1. z \in Nat /\ StepAt(z) \in Int
        BY <2>2, StoreAssumption DEF StepAt, Exec
      <4> QED BY <2>3, <2>6, <4>1
    <3> QED BY <2>5, <3>1 DEF IsScript
  <2>8. IsScript(job'.step, log'[server])
    BY <1>4, <2>7 DEF z
  <2>9. Len(log'[server]) = 2 * job.phase - 0 + job.step
    BY <1>3, <1>5, <2>6
  <2> QED BY <1>2, <1>4, <1>5, <2>8, <2>9 DEF Progress
<1>7. server' = server
  BY <1>2
<1> QED BY <1>2, <1>3, <1>4, <1>6, <1>7, EntryStep

LEMMA ReplayStepStep == ASSUME ReplayInv, IInv', Step PROVE ReplayInv'
<1>1. TypeOK /\ HalfIsDue /\ Running
  BY DEF ReplayInv, IInv
<1>2. /\ half = NoHalf /\ job.kind \in {"debug", "execute"} /\ LogEntry("step", job.step + 1)
      /\ job.kind = "debug" => job.open /\ job.phase = Exec
      /\ job.step < NumSteps /\ job' = [job EXCEPT !.step = @ + 1]
      /\ UNCHANGED <<server, starts, table, served>>
  BY DEF Step, Serving
<1>3. /\ server \in Session /\ log[server] \in Seq(Entry) /\ job.step \in Nat /\ job.step \in 0..NumSteps
      /\ NumSteps \in Nat
  BY <1>1, <1>2, StoreAssumption DEF HalfIsDue, TypeOK
<1>4. job'.kind = job.kind /\ job'.open = job.open /\ job'.phase = job.phase /\ job'.step = job.step + 1
  BY <1>1, <1>2 DEF TypeOK
<1>5. ASSUME NEW e \in Entry, e.t = "step", e.n = job.step + 1, log'[server] = Append(log[server], e),
             job.kind = "debug"
      PROVE  Progress'
  <2> DEFINE z == job.step
  <2>1. Progress /\ job.open /\ job.phase = Exec /\ Exec \in Nat
    BY <1>1, <1>2, <1>5, StoreAssumption DEF Running, Exec
  <2>2. z \in 0..NumSteps /\ z < NumSteps /\ z + 1 \in 0..NumSteps /\ e.n = z + 1 /\ z \in Nat
    BY <1>2, <1>3, <1>5
  <2>3. Len(log[server]) = StepAt(z + 1) - 1 /\ Follows(z, log[server])
    <3>1. Len(log[server]) = 2 * Exec - 1 + job.step /\ Follows(z, log[server])
      BY <2>1 DEF Progress, IsScript
    <3> QED BY <2>1, <2>2, <3>1 DEF StepAt
  <2> HIDE DEF z
  <2>4. Follows(z + 1, log[server])
    BY <1>3, <2>2, <2>3, OneStepMore
  <2>5. StepAt(z + 1) \in Nat /\ Len(log[server]) + 1 = StepAt(z + 1) /\ z + 1 \in 1..(z + 1)
    <3>1. StepAt(z + 1) \in Int
      BY <2>1, <2>2 DEF StepAt
    <3> QED BY <1>3, <2>2, <2>3, <3>1
  <2>6. Fits(z + 1, StepAt(z + 1), e)
    <3>1. StepAt(z + 1) <= Whole(z + 1)
      BY <2>1, <2>2, StoreAssumption DEF StepAt, Whole, Exec
    <3>2. \A n \in 1..NumPhases : StartAt(z + 1, n) # StepAt(z + 1) /\ DoneAt(z + 1, n) # StepAt(z + 1)
      BY <2>2, <2>5, Positions
    <3>3. \A j \in 1..(z + 1) : StepAt(j) = StepAt(z + 1) => j = z + 1
      BY <2>1, <2>2 DEF StepAt
    <3> QED BY <1>5, <2>2, <3>1, <3>2, <3>3 DEF Fits
  <2>7. Follows(z + 1, log'[server]) /\ Len(log'[server]) = StepAt(z + 1)
    BY <1>3, <1>5, <2>2, <2>4, <2>5, <2>6, ScriptGoesOn
  <2>8. IsScript(z + 1, log'[server])
    BY <2>5, <2>7 DEF IsScript
  <2>9. Len(log'[server]) = 2 * job.phase - 1 + (job.step + 1)
    BY <2>1, <2>7 DEF StepAt, z
  <2>10. IsScript(job'.step, log'[server])
    BY <1>4, <2>8 DEF z
  <2>11. job'.phase < Exec => job'.step = 0
    BY <1>4, <2>1
  <2> QED BY <1>2, <1>4, <2>1, <2>9, <2>10, <2>11 DEF Progress
<1>6. job.step + 1 \in Nat /\ server' = server /\ job'.step \in 0..NumSteps
  BY <1>2, <1>3, <1>4
<1> QED BY <1>2, <1>4, <1>5, <1>6, EntryStep

LEMMA ReplayInvariance == Spec => []ReplayInv
<1>1. Init => ReplayInv
  <2> SUFFICES ASSUME Init PROVE ReplayInv
    OBVIOUS
  <2>1. IInv
    BY InitIInv
  <2>2. server = 0 /\ starts = 0 /\ half.k = "none" /\ job.kind = "none"
    BY Halves, StateFacts DEF Init
  <2>3. ASSUME NEW s \in Session PROVE OneRequest(s)
    <3>1. log[s] = <<>> /\ table[s] = <<>> /\ served[s] = 0 /\ Due(s) = 0
      BY <2>2 DEF Init, Due
    <3>2. Agrees(s)
      BY <3>1 DEF Agrees
    <3> QED BY <3>1, <3>2 DEF OneRequest
  <2>4. Running
    BY <2>2 DEF Running
  <2> QED BY <2>1, <2>3, <2>4 DEF ReplayInv
<1>2. ReplayInv /\ IInv' /\ [Next]_vars => ReplayInv'
  <2> SUFFICES ASSUME ReplayInv, IInv', [Next]_vars PROVE ReplayInv'
    OBVIOUS
  <2>1. NoHalf.k = "none" /\ IInv /\ TypeOK /\ HalfIsDue /\ NoJob.kind = "none"
    BY Halves, StateFacts DEF ReplayInv, IInv
  <2>2. CASE UNCHANGED vars
    <3>1. /\ server' = server /\ starts' = starts /\ log' = log /\ table' = table
          /\ job' = job /\ half' = half /\ served' = served
      BY <2>2 DEF vars
    <3>2. Running' = Running
      BY <3>1 DEF Running, Progress, Opened
    <3>3. \A s \in Session : OneRequest(s)' = OneRequest(s)
      BY <3>1 DEF OneRequest, Agrees, Due, Opened
    <3> QED BY <3>2, <3>3 DEF ReplayInv
  <2>3. CASE WriteRow
    <3>1. job' = job \/ job' = NoJob
      BY <2>3 DEF WriteRow
    <3>2. half'.k = "none" /\ UNCHANGED <<server, starts, log, table, served>>
      BY <2>1, <2>3 DEF WriteRow
    <3> QED BY <2>1, <3>1, <3>2, QuietStep
  <2>4. CASE RowThrows
    <3>1. (job' = job /\ server' = server) \/ (job' = NoJob /\ server' = 0)
      BY <2>4 DEF RowThrows
    <3>2. half'.k = "none" /\ UNCHANGED <<starts, log, table, served>>
      BY <2>1, <2>4 DEF RowThrows
    <3> QED BY <2>1, <3>1, <3>2, QuietStep
  <2>5. CASE InsertThrows
    <3>1. job'.kind = job.kind /\ job'.phase = job.phase /\ job'.open = job.open /\ job'.step = job.step
      BY <2>1, <2>5 DEF InsertThrows, TypeOK
    <3>2. half'.k = "none" /\ UNCHANGED <<server, starts, log, table, served>>
      BY <2>1, <2>5 DEF InsertThrows
    <3> QED BY <3>1, <3>2, QuietStep
  <2>6. CASE Crash
    <3>1. job'.kind = "none" /\ half'.k = "none" /\ server' = 0 /\ UNCHANGED <<starts, log, table, served>>
      BY <2>1, <2>6 DEF Crash
    <3> QED BY <3>1, QuietStep
  <2>7. CASE ExecuteReturns
    <3>1. job'.kind = "none" /\ half'.k = "none" /\ UNCHANGED <<server, starts, log, table, served>>
      BY <2>1, <2>7 DEF ExecuteReturns
    <3> QED BY <3>1, QuietStep
  <2>8. ASSUME NEW st, Persist(st), st \in State, UNCHANGED <<server, starts, log, table, served>>,
               job' = NoJob \/ job' = job
        PROVE  ReplayInv'
    <3>1. half'.k = "row"
      BY <2>8, Halves DEF Persist
    <3> QED BY <2>1, <2>8, <3>1, QuietStep
  <2>9. CASE RejectPlan \/ DebugEnds \/ DebugFails \/ ExecuteHalts \/ PlanReady
    <3>1. \E st \in State : Persist(st)
      BY <2>9 DEF RejectPlan, DebugEnds, DebugFails, ExecuteHalts, PlanReady, PersistStatus, State
    <3>2. UNCHANGED <<server, starts, log, table, served>> /\ (job' = NoJob \/ job' = job)
      BY <2>9 DEF RejectPlan, DebugEnds, DebugFails, ExecuteHalts, PlanReady
    <3> QED BY <2>8, <3>1, <3>2
  <2> QED BY <2>2, <2>3, <2>4, <2>5, <2>6, <2>7, <2>9, ReplayInsertStep, ReplayStartStep,
         ReplayOpenDebugStep, ReplayOpenExecuteStep, ReplayStartPhaseStep, ReplayEndPhaseStep,
         ReplayStepStep DEF Next
<1> QED BY <1>1, <1>2, Invariance, PTL DEF Spec

-----------------------------------------------------------------------------
(* What buildReplayState makes of a tail of the script. *)

Phase == [n : Nat, active : BOOLEAN]

LEMMA ReplayTypes ==
  ASSUME NEW p \in Seq(Phase), NEW e \in Entry
  PROVE  Replay(p, e) \in Seq(Phase)
<1> DEFINE same == {i \in DOMAIN p : p[i].n = e.n}
           i == CHOOSE i \in same : \A j \in same : i <= j
<1>1. e.n \in Nat /\ Len(p) \in Nat /\ DOMAIN p = 1..Len(p)
  BY DEF Entry
<1>2. [n |-> e.n, active |-> TRUE] \in Phase /\ [n |-> e.n, active |-> FALSE] \in Phase
  BY <1>1 DEF Phase
<1>3. CASE e.t = "start"
  BY <1>2, <1>3 DEF Replay
<1>4. CASE e.t = "done" /\ same = {}
  BY <1>2, <1>4 DEF Replay
<1>5. CASE e.t = "done" /\ same # {}
  <2>1. i \in same
    <3>1. same \in SUBSET Nat
      BY <1>1
    <3> HIDE DEF same
    <3>2. \E m \in same : \A k \in same : m <= k
      BY <1>5, <3>1, Least
    <3> QED BY <3>2
  <2>2. Replay(p, e) = [p EXCEPT ![i].active = FALSE]
    BY <1>5 DEF Replay
  <2> HIDE DEF i
  <2>3. i \in 1..Len(p) /\ p[i] \in Phase
    BY <1>1, <2>1
  <2>4. [p[i] EXCEPT !.active = FALSE] \in Phase
    BY <2>3 DEF Phase
  <2>5. [p EXCEPT ![i].active = FALSE] = [p EXCEPT ![i] = [p[i] EXCEPT !.active = FALSE]]
    BY <2>3
  <2> HIDE DEF same
  <2>6. [p EXCEPT ![i] = [p[i] EXCEPT !.active = FALSE]] \in Seq(Phase)
    BY <2>3, <2>4, ExceptSeq
  <2> QED BY <2>2, <2>5, <2>6
<1>6. CASE e.t \notin {"start", "done"}
  BY <1>6 DEF Replay
<1> QED BY <1>3, <1>4, <1>5, <1>6

LEMMA ReplaysAreReplays ==
  ASSUME NEW page \in Seq(Entry), NEW N \in Nat, N = Len(page)
  PROVE  /\ Replays(page)[0] = <<>>
         /\ \A n \in 1..N : Replays(page)[n] = Replay(Replays(page)[n - 1], page[n])
<1> DEFINE Eq(f) == f = [n \in 0..N |-> IF n = 0 THEN <<>> ELSE Replay(f[n - 1], page[n])]
           S == [n \in 0..N |-> Seq(Phase)]
           G == [n \in 1..N |-> [x \in Seq(Phase) |-> Replay(x, page[n])]]
<1>1. ASSUME NEW n \in 1..N
      PROVE  /\ n - 1 \in 0..N /\ n \in 0..N
             /\ \A x \in Seq(Phase) : G[n][x] = Replay(x, page[n]) /\ Replay(x, page[n]) \in Seq(Phase)
  <2>1. n - 1 \in 0..N /\ n \in 0..N /\ page[n] \in Entry
    OBVIOUS
  <2> QED BY <2>1, ReplayTypes
<1>2. PICK h : Iteration(h, N, <<>>, G, S)
  <2>1. StepsWithin(N, G, S)
    <3> HIDE DEF G
    <3> QED BY <1>1 DEF StepsWithin
  <2>2. <<>> \in S[0]
    OBVIOUS
  <2> HIDE DEF S, G
  <2> QED BY <2>1, <2>2, Iterates
<1>3. Eq(h)
  <2>0. \A n \in 0..N : h[n] \in Seq(Phase)
    BY <1>2 DEF Iteration
  <2> HIDE DEF S, G
  <2>1. ASSUME NEW n \in 1..N PROVE h[n] = Replay(h[n - 1], page[n])
    BY <1>1, <1>2, <2>0 DEF Iteration
  <2>2. \A n \in 0..N : n = 0 \/ n \in 1..N
    OBVIOUS
  <2>3. \A n \in 0..N : h[n] = IF n = 0 THEN <<>> ELSE Replay(h[n - 1], page[n])
    BY <1>2, <2>1, <2>2 DEF Iteration
  <2>4. h = [n \in 0..N |-> h[n]]
    BY <1>2 DEF Iteration
  <2> QED BY <2>3, <2>4
<1>4. Replays(page) = CHOOSE f : Eq(f)
  BY DEF Replays
<1>5. Eq(Replays(page))
  <2> HIDE DEF Eq
  <2> QED BY <1>3, <1>4
<1>6. ASSUME NEW p, Eq(p) PROVE p[0] = <<>> /\ \A n \in 1..N : p[n] = Replay(p[n - 1], page[n])
  <2>1. \A n \in 1..N : n \in 0..N /\ n # 0
    OBVIOUS
  <2> QED BY <1>6, <2>1
<1> QED
  <2> HIDE DEF Eq
  <2> QED BY <1>5, <1>6

(* Of a page from after the a-th entry: f phases were over by then, and the     *)
(* n-th phase, if later, is first seen here.                                 *)
Cutoff(z, f, a) ==
  /\ f \in 0..(NumPhases - 1) /\ a \in 0..(Whole(z) - 1)
  /\ \A n \in 1..NumPhases : DoneAt(z, n) > a <=> n > f
SeenAt(z, a, n) == IF StartAt(z, n) > a THEN StartAt(z, n) ELSE DoneAt(z, n)

(* What is shown up to the i-th entry of the script. *)
Shown(z, f, a, i, p) ==
  /\ p \in Seq(Phase) /\ f + Len(p) <= NumPhases
  /\ \A m \in 1..Len(p) : p[m] = [n |-> f + m, active |-> DoneAt(z, f + m) > i]
  /\ Len(p) > 0 => SeenAt(z, a, f + Len(p)) <= i
  /\ f + Len(p) < NumPhases => SeenAt(z, a, f + Len(p) + 1) > i

LEMMA SomeCutoff == \A z \in 0..NumSteps : \A a \in 0..(Whole(z) - 1) : \E f : Cutoff(z, f, a)
<1> SUFFICES ASSUME NEW z \in 0..NumSteps, NEW a \in 0..(Whole(z) - 1) PROVE \E f : Cutoff(z, f, a)
  OBVIOUS
<1> DEFINE F == {f \in 0..(NumPhases - 1) : DoneAt(z, f + 1) > a}
<1>1. NumPhases \in Nat \ {0} /\ Whole(z) \in Nat /\ DoneAt(z, NumPhases) = Whole(z) /\ a \in Nat /\ a < Whole(z)
  BY StoreAssumption DEF Whole, DoneAt, Exec
<1>2. NumPhases - 1 \in F /\ F \in SUBSET Nat
  <2>1. NumPhases - 1 \in 0..(NumPhases - 1) /\ (NumPhases - 1) + 1 = NumPhases
    BY <1>1
  <2> QED BY <1>1, <2>1
<1>3. PICK f \in F : \A g \in F : f <= g
  <2> HIDE DEF F
  <2> QED BY <1>2, Least
<1>4. f \in 0..(NumPhases - 1) /\ DoneAt(z, f + 1) > a
  BY <1>3
<1>5. ASSUME NEW n \in 1..NumPhases PROVE DoneAt(z, n) > a <=> n > f
  <2>1. f + 1 \in 1..NumPhases /\ n \in Nat /\ f \in Nat /\ DoneAt(z, n) \in Nat /\ DoneAt(z, f + 1) \in Nat
    BY <1>1, <1>4, Positions
  <2>2. CASE n > f
    <3>1. n = f + 1 \/ f + 1 < n
      BY <2>1, <2>2
    <3>2. f + 1 < n => DoneAt(z, f + 1) < StartAt(z, n) /\ StartAt(z, n) < DoneAt(z, n) /\ StartAt(z, n) \in Nat
      BY <2>1, Positions
    <3> QED BY <1>1, <1>4, <2>1, <2>2, <3>1, <3>2
  <2>3. CASE n <= f
    <3>1. n - 1 \in 0..(NumPhases - 1) /\ (n - 1) + 1 = n /\ ~(f <= n - 1)
      BY <1>1, <1>4, <2>1, <2>3
    <3>2. n - 1 \notin F
      BY <1>3, <3>1
    <3>3. ~(DoneAt(z, n) > a)
      BY <3>1, <3>2
    <3> QED BY <2>1, <2>3, <3>3
  <2> QED BY <2>1, <2>2, <2>3
<1>6. Cutoff(z, f, a)
  <2> HIDE DEF F
  <2> QED BY <1>4, <1>5 DEF Cutoff
<1> QED BY <1>6

LEMMA Order ==
  ASSUME NEW z \in 0..NumSteps, NEW f, NEW a, Cutoff(z, f, a)
  PROVE  /\ f \in Nat /\ a \in Nat
         /\ \A n \in (f + 1)..NumPhases : n \in 1..NumPhases /\ SeenAt(z, a, n) \in Nat /\ SeenAt(z, a, n) > a
         /\ \A n, m \in (f + 1)..NumPhases : n < m => SeenAt(z, a, n) < SeenAt(z, a, m)
         /\ \A n \in 1..NumPhases : StartAt(z, n) < DoneAt(z, n)
         /\ \A n \in 1..NumPhases : DoneAt(z, n) > a => n \in (f + 1)..NumPhases
         /\ \A n, m \in 1..NumPhases : StartAt(z, n) # DoneAt(z, m) /\ (DoneAt(z, n) = DoneAt(z, m) => n = m)
<1>1. f \in Nat /\ a \in Nat /\ NumPhases \in Nat
  <2>1. NumPhases \in Nat /\ Whole(z) \in Nat
    BY StoreAssumption, Positions
  <2> QED BY <2>1 DEF Cutoff
<1>2. \A n \in (f + 1)..NumPhases : n \in 1..NumPhases /\ n > f
  BY <1>1
<1>3. \A n \in 1..NumPhases : StartAt(z, n) \in Nat /\ DoneAt(z, n) \in Nat /\ StartAt(z, n) < DoneAt(z, n)
  BY Positions
<1>4. \A n \in 1..NumPhases : DoneAt(z, n) > a => n \in (f + 1)..NumPhases
  BY <1>1 DEF Cutoff
<1>5. \A n, m \in 1..NumPhases : StartAt(z, n) # DoneAt(z, m) /\ (DoneAt(z, n) = DoneAt(z, m) => n = m)
  BY Apart
<1>6. ASSUME NEW n \in (f + 1)..NumPhases PROVE DoneAt(z, n) > a
  BY <1>2 DEF Cutoff
<1>7. ASSUME NEW n \in (f + 1)..NumPhases
      PROVE  /\ SeenAt(z, a, n) \in Nat /\ SeenAt(z, a, n) > a
             /\ SeenAt(z, a, n) <= DoneAt(z, n)
  BY <1>1, <1>2, <1>3, <1>6 DEF SeenAt
<1>8. ASSUME NEW n \in (f + 1)..NumPhases, NEW m \in (f + 1)..NumPhases, n < m
      PROVE  SeenAt(z, a, n) < SeenAt(z, a, m)
  <2>1. n \in 1..NumPhases /\ m \in 1..NumPhases
    BY <1>2
  <2>2. DoneAt(z, n) < StartAt(z, m) /\ DoneAt(z, n) > a /\ DoneAt(z, n) \in Nat /\ StartAt(z, m) \in Nat
    BY <1>3, <1>6, <1>8, <2>1, Positions
  <2>3. SeenAt(z, a, m) = StartAt(z, m)
    BY <1>1, <2>2 DEF SeenAt
  <2> QED BY <1>7, <2>2, <2>3
<1> QED BY <1>1, <1>2, <1>3, <1>4, <1>5, <1>7, <1>8

(* A phase that starts is shown next; one that completes is shown already or   *)
(* next; a step shows none.                                                 *)
LEMMA ShownNext ==
  ASSUME NEW z \in 0..NumSteps, NEW f, NEW a, Cutoff(z, f, a), NEW i \in (a + 1)..Whole(z), NEW p, Shown(z, f, a, i - 1, p),
         NEW e \in Entry,
         \/ \E n \in 1..NumPhases : i = StartAt(z, n) /\ e.t = "start" /\ e.n = n
         \/ \E n \in 1..NumPhases : i = DoneAt(z, n) /\ e.t = "done" /\ e.n = n
         \/ \E j \in 1..z : i = StepAt(j) /\ e.t = "step" /\ e.n = j
  PROVE  Shown(z, f, a, i, Replay(p, e))
<1> DEFINE k == Len(p)
           seen == f + k
           N == NumPhases
<1>1. /\ f \in Nat /\ a \in Nat /\ i \in Nat /\ i > a /\ k \in Nat /\ seen \in Nat /\ seen <= N /\ N \in Nat
      /\ p \in Seq(Phase) /\ DOMAIN p = 1..k
  <2>1. NumPhases \in Nat /\ Whole(z) \in Nat
    BY StoreAssumption, Positions
  <2>2. p \in Seq(Phase) /\ f + Len(p) <= NumPhases
    BY DEF Shown
  <2>3. f \in Nat /\ a \in Nat
    BY Order
  <2> QED BY <2>1, <2>2, <2>3
<1>2. /\ \A n \in (f + 1)..N : n \in 1..N /\ SeenAt(z, a, n) \in Nat
      /\ \A n, m \in (f + 1)..N : n < m => SeenAt(z, a, n) < SeenAt(z, a, m)
      /\ \A n \in 1..N : StartAt(z, n) < DoneAt(z, n)
      /\ \A n \in 1..N : DoneAt(z, n) > a => n \in (f + 1)..N
      /\ \A n, m \in 1..N : StartAt(z, n) # DoneAt(z, m) /\ (DoneAt(z, n) = DoneAt(z, m) => n = m)
      /\ \A n \in 1..N : StartAt(z, n) \in Nat /\ DoneAt(z, n) \in Nat
  BY Order, Positions
<1>3. /\ \A m \in 1..k : p[m] = [n |-> f + m, active |-> DoneAt(z, f + m) > i - 1]
      /\ k > 0 => SeenAt(z, a, seen) <= i - 1
      /\ seen < N => SeenAt(z, a, seen + 1) > i - 1
  BY DEF Shown
<1> HIDE DEF k, N
<1>4. \A m \in 1..k : f + m \in 1..N /\ f + m \in (f + 1)..N
  BY <1>1
<1> HIDE DEF seen
<1>5. seen = f + k
  BY DEF seen
<1>6. seen < N => seen + 1 \in (f + 1)..N
  BY <1>1, <1>5
<1>7. k > 0 => seen \in (f + 1)..N
  BY <1>1, <1>5
(* When the phase n is first seen at i, it is the next one. *)
<1>8. ASSUME NEW n \in (f + 1)..N, SeenAt(z, a, n) = i
      PROVE  n = seen + 1 /\ (n < N => SeenAt(z, a, n + 1) > i)
  <2>1. CASE n <= seen
    <3>1. k > 0
      BY <1>1, <1>5, <2>1
    <3>2. SeenAt(z, a, seen) <= i - 1 /\ SeenAt(z, a, seen) \in Nat
      BY <1>2, <1>3, <1>7, <3>1
    <3>3. n = seen \/ n < seen
      BY <1>1, <2>1
    <3>4. SeenAt(z, a, n) <= SeenAt(z, a, seen)
      BY <1>2, <1>7, <3>1, <3>2, <3>3
    <3> QED BY <1>1, <1>8, <3>2, <3>4
  <2>2. CASE n > seen + 1
    <3>1. seen < N
      BY <1>1, <2>2
    <3>2. SeenAt(z, a, seen + 1) < SeenAt(z, a, n) /\ SeenAt(z, a, seen + 1) > i - 1 /\ SeenAt(z, a, seen + 1) \in Nat
      BY <1>2, <1>3, <1>6, <2>2, <3>1
    <3> QED BY <1>1, <1>8, <3>2
  <2>3. n = seen + 1
    BY <1>1, <2>1, <2>2
  <2>4. n < N => SeenAt(z, a, n + 1) > i
    <3>1. n < N => n + 1 \in (f + 1)..N /\ n < n + 1
      BY <1>1
    <3> QED BY <1>2, <1>8, <3>1
  <2> QED BY <2>3, <2>4
(* What is not of phase n stays as it is. *)
<1>9. ASSUME NEW m \in 1..k, DoneAt(z, f + m) # i
      PROVE  p[m] = [n |-> f + m, active |-> DoneAt(z, f + m) > i]
  <2>1. DoneAt(z, f + m) \in Nat
    BY <1>2, <1>4
  <2>2. (DoneAt(z, f + m) > i - 1) <=> (DoneAt(z, f + m) > i)
    BY <1>1, <1>9, <2>1
  <2>3. (DoneAt(z, f + m) > i - 1) = (DoneAt(z, f + m) > i)
    BY <2>2
  <2> QED BY <1>3, <2>3
(* A phase is appended. *)
<1>10. ASSUME NEW n \in (f + 1)..N, SeenAt(z, a, n) = i, NEW b \in BOOLEAN, b = (DoneAt(z, n) > i),
              \A m \in 1..k : DoneAt(z, f + m) # i,
              NEW r, r = Append(p, [n |-> n, active |-> b])
       PROVE  Shown(z, f, a, i, r)
  <2>1. n = seen + 1 /\ n = f + (k + 1)
    BY <1>1, <1>5, <1>8, <1>10
  <2>2. [n |-> n, active |-> b] \in Phase
    BY <1>1, <1>10 DEF Phase
  <2>3. /\ r \in Seq(Phase) /\ Len(r) = k + 1 /\ r[k + 1] = [n |-> n, active |-> b]
        /\ \A m \in 1..k : r[m] = p[m]
    BY <1>1, <1>10, <2>2 DEF k
  <2>4. ASSUME NEW m \in 1..(k + 1) PROVE r[m] = [n |-> f + m, active |-> DoneAt(z, f + m) > i]
    <3>1. CASE m = k + 1
      <4>1. f + m = n
        BY <2>1, <3>1
      <4> QED BY <1>10, <2>3, <3>1, <4>1
    <3>2. CASE m # k + 1
      <4>1. m \in 1..k
        BY <1>1, <3>2
      <4> QED BY <1>9, <1>10, <2>3, <4>1
    <3> QED BY <3>1, <3>2
  <2>5. n <= N /\ (n < N => SeenAt(z, a, n + 1) > i) /\ SeenAt(z, a, n) <= i
    BY <1>1, <1>8, <1>10
  <2> QED BY <2>1, <2>3, <2>4, <2>5 DEF Shown, N
<1>11. ASSUME NEW n \in 1..N, i = StartAt(z, n), e.t = "start", e.n = n PROVE Shown(z, f, a, i, Replay(p, e))
  <2>1. n \in (f + 1)..N /\ SeenAt(z, a, n) = i /\ DoneAt(z, n) > i
    BY <1>1, <1>2, <1>11 DEF SeenAt
  <2>2. Replay(p, e) = Append(p, [n |-> n, active |-> TRUE])
    BY <1>11 DEF Replay
  <2>3. \A m \in 1..k : DoneAt(z, f + m) # i
    BY <1>2, <1>4, <1>11
  <2>4. TRUE = (DoneAt(z, n) > i)
    BY <2>1
  <2> QED BY <1>10, <2>1, <2>2, <2>3, <2>4
<1>12. ASSUME NEW n \in 1..N, i = DoneAt(z, n), e.t = "done", e.n = n PROVE Shown(z, f, a, i, Replay(p, e))
  <2> DEFINE same == {j \in DOMAIN p : p[j].n = e.n}
  <2>1. n \in (f + 1)..N
    BY <1>1, <1>2, <1>12
  <2>2. ASSUME NEW m \in 1..k PROVE p[m].n = f + m
    <3> DEFINE b == DoneAt(z, f + m) > i - 1
    <3>1. p[m] = [n |-> f + m, active |-> b]
      BY <1>3
    <3> HIDE DEF b
    <3> QED BY <3>1
  <2>3. \A m \in 1..k : DoneAt(z, f + m) = i => f + m = n
    BY <1>2, <1>4, <1>12
  <2>4. CASE n <= seen
    <3> DEFINE j == n - f
    <3>1. j \in 1..k /\ f + j = n
      BY <1>1, <1>5, <2>1, <2>4
    <3>2. same = {j}
      <4>1. \A m \in 1..k : f + m = n <=> m = j
        BY <1>1
      <4> HIDE DEF j
      <4> QED BY <1>1, <1>12, <2>2, <3>1, <4>1
    <3> HIDE DEF j
    <3>3. Replay(p, e) = [p EXCEPT ![j].active = FALSE]
      <4>1. (CHOOSE x \in same : \A y \in same : x <= y) = j
        BY <1>1, <3>1, <3>2
      <4>2. same # {}
        BY <3>2
      <4>3. Replay(p, e) = [p EXCEPT ![CHOOSE x \in same : \A y \in same : x <= y].active = FALSE]
        BY <1>12, <4>2 DEF Replay
      <4> HIDE DEF same
      <4> QED BY <4>1, <4>3
    <3> DEFINE r == Replay(p, e)
    <3>4. r \in Seq(Phase)
      BY <1>1, ReplayTypes
    <3>5. Len(r) = k /\ r[j] = [p[j] EXCEPT !.active = FALSE] /\ \A m \in 1..k : m # j => r[m] = p[m]
      BY <1>1, <3>1, <3>3 DEF k
    <3> HIDE DEF r
    <3>6. ASSUME NEW m \in 1..k PROVE r[m] = [n |-> f + m, active |-> DoneAt(z, f + m) > i]
      <4>1. CASE m = j
        <5>1. r[j] = [n |-> n, active |-> FALSE]
          <6>1. p[j] \in Phase /\ p[j].n = n
            <7>1. p[j].n = n
              BY <2>2, <3>1
            <7>2. k = Len(p)
              BY DEF k
            <7>3. p[j] \in Phase
              BY <1>1, <3>1, <7>2
            <7> QED BY <7>1, <7>3
          <6>2. r[j] \in Phase /\ r[j].n = n /\ r[j].active = FALSE
            BY <3>5, <6>1 DEF Phase
          <6>3. \A x \in Phase : x.active = FALSE => x = [n |-> x.n, active |-> FALSE]
            BY DEF Phase
          <6> QED BY <6>2, <6>3
        <5>2. FALSE = (DoneAt(z, n) > i)
          BY <1>1, <1>12
        <5> QED BY <3>1, <4>1, <5>1, <5>2
      <4>2. CASE m # j
        <5>1. f + m # n
          BY <1>1, <3>1, <4>2
        <5>2. DoneAt(z, f + m) # i
          BY <2>3, <5>1
        <5> QED BY <1>9, <3>5, <4>2, <5>2
      <4> QED BY <4>1, <4>2
    <3>7. seen < N => SeenAt(z, a, seen + 1) > i
      <4> SUFFICES ASSUME seen < N PROVE SeenAt(z, a, seen + 1) > i
        OBVIOUS
      <4>1. SeenAt(z, a, seen + 1) > i - 1 /\ SeenAt(z, a, seen + 1) \in Nat /\ seen + 1 \in 1..N /\ seen + 1 # n
        BY <1>1, <1>2, <1>3, <1>6, <2>4
      <4>2. SeenAt(z, a, seen + 1) # i
        BY <1>2, <1>12, <4>1 DEF SeenAt
      <4> QED BY <1>1, <4>1, <4>2
    <3>8. k > 0 => SeenAt(z, a, seen) <= i
      BY <1>1, <1>2, <1>3, <1>7
    <3> QED BY <1>1, <1>5, <3>4, <3>5, <3>6, <3>7, <3>8 DEF Shown, r, N
  <2>5. CASE n > seen
    <3>1. seen < N /\ seen + 1 <= n
      BY <1>1, <2>5
    <3>2. SeenAt(z, a, seen + 1) > i - 1 /\ SeenAt(z, a, seen + 1) \in Nat
      BY <1>2, <1>3, <1>6, <3>1
    <3>3. SeenAt(z, a, n) >= SeenAt(z, a, seen + 1) /\ SeenAt(z, a, n) \in Nat
      <4>1. n = seen + 1 \/ seen + 1 < n
        BY <1>1, <3>1
      <4> QED BY <1>2, <1>6, <2>1, <3>1, <3>2, <4>1
    <3>4. SeenAt(z, a, n) = i
      <4>1. SeenAt(z, a, n) > i - 1
        BY <1>1, <3>2, <3>3
      <4>2. StartAt(z, n) < i /\ StartAt(z, n) \in Nat
        BY <1>2, <1>12
      <4>3. SeenAt(z, a, n) = StartAt(z, n) \/ SeenAt(z, a, n) = DoneAt(z, n)
        BY DEF SeenAt
      <4> QED BY <1>1, <1>12, <4>1, <4>2, <4>3
    <3>5. same = {}
      <4>1. \A m \in 1..k : f + m # n
        BY <1>1, <1>5, <2>5
      <4> QED BY <1>1, <1>12, <2>2, <4>1
    <3>6. Replay(p, e) = Append(p, [n |-> n, active |-> FALSE])
      BY <1>12, <3>5 DEF Replay
    <3>7. \A m \in 1..k : DoneAt(z, f + m) # i
      <4>1. \A m \in 1..k : f + m # n
        BY <1>1, <1>5, <2>5
      <4> QED BY <2>3, <4>1
    <3>8. FALSE = (DoneAt(z, n) > i)
      BY <1>1, <1>12
    <3> QED BY <1>10, <2>1, <3>4, <3>6, <3>7, <3>8
  <2> QED BY <1>1, <2>4, <2>5
<1>13. ASSUME NEW x \in 1..z, i = StepAt(x), e.t = "step" PROVE Shown(z, f, a, i, Replay(p, e))
  <2>1. Replay(p, e) = p
    BY <1>13 DEF Replay
  <2>2. \A n \in 1..N : StartAt(z, n) # i /\ DoneAt(z, n) # i
    BY <1>13, Positions DEF N
  <2>3. \A m \in 1..k : p[m] = [n |-> f + m, active |-> DoneAt(z, f + m) > i]
    BY <1>4, <1>9, <2>2
  <2>4. seen < N => SeenAt(z, a, seen + 1) > i
    <3> SUFFICES ASSUME seen < N PROVE SeenAt(z, a, seen + 1) > i
      OBVIOUS
    <3>1. SeenAt(z, a, seen + 1) > i - 1 /\ SeenAt(z, a, seen + 1) \in Nat /\ seen + 1 \in 1..N
      BY <1>2, <1>3, <1>6
    <3>2. SeenAt(z, a, seen + 1) # i
      BY <2>2, <3>1 DEF SeenAt
    <3> QED BY <1>1, <3>1, <3>2
  <2>5. k > 0 => SeenAt(z, a, seen) <= i
    BY <1>1, <1>2, <1>3, <1>7
  <2> QED BY <1>1, <1>5, <2>1, <2>3, <2>4, <2>5 DEF Shown, k, N
<1> QED BY <1>11, <1>12, <1>13 DEF N

(* An entry of a script is a start, a completion or a step, at its place. *)
LEMMA ScriptEntry ==
  ASSUME NEW z \in 0..NumSteps, NEW q \in Seq(Entry), Follows(z, q), NEW i \in 1..Len(q)
  PROVE  \/ \E n \in 1..NumPhases : i = StartAt(z, n) /\ q[i].t = "start" /\ q[i].n = n
         \/ \E n \in 1..NumPhases : i = DoneAt(z, n) /\ q[i].t = "done" /\ q[i].n = n
         \/ \E j \in 1..z : i = StepAt(j) /\ q[i].t = "step" /\ q[i].n = j
<1>1. i \in 1..Whole(z) /\ i <= Len(q)
  <2>1. Len(q) <= Whole(z) /\ Whole(z) \in Nat
    BY Positions DEF Follows
  <2> QED BY <2>1
<1>2. ASSUME NEW n \in 1..NumPhases, i = StartAt(z, n) PROVE q[i].t = "start" /\ q[i].n = n
  BY <1>1, <1>2 DEF Follows, Says
<1>3. ASSUME NEW n \in 1..NumPhases, i = DoneAt(z, n) PROVE q[i].t = "done" /\ q[i].n = n
  BY <1>1, <1>3 DEF Follows, Says
<1>4. ASSUME NEW j \in 1..z, i = StepAt(j) PROVE q[i].t = "step" /\ q[i].n = j
  BY <1>1, <1>4 DEF Follows, Says
<1> QED BY <1>1, <1>2, <1>3, <1>4, Places

(* The tail of a script from after its a-th entry. *)
IsTail(page, q, a) ==
  /\ a \in Nat /\ a < Len(q)
  /\ page \in Seq(Entry) /\ Len(page) = Len(q) - a
  /\ \A j \in 1..(Len(q) - a) : page[j] = q[a + j]

LEMMA TailIsShown ==
  ASSUME NEW z \in 0..NumSteps, NEW q \in Seq(Entry), Follows(z, q), NEW a, NEW page, IsTail(page, q, a)
  PROVE  \E f : Cutoff(z, f, a) /\ Shown(z, f, a, Len(q), ReplayedPhases(page))
<1> DEFINE L == Len(q)
           K == L - a
           shown == Replays(page)
<1>1. /\ L \in Nat /\ a \in Nat /\ K \in Nat /\ K > 0 /\ a + K = L /\ L <= Whole(z) /\ Whole(z) \in Nat
      /\ page \in Seq(Entry) /\ Len(page) = K /\ NumPhases \in Nat
  <2>1. a \in Nat /\ a < L /\ page \in Seq(Entry) /\ Len(page) = K
    BY DEF IsTail
  <2>2. L <= Whole(z) /\ Whole(z) \in Nat /\ L \in Nat
    BY Positions DEF Follows
  <2> QED BY <2>1, <2>2, StoreAssumption
<1>2. PICK f : Cutoff(z, f, a)
  <2>1. a \in 0..(Whole(z) - 1)
    BY <1>1
  <2> QED BY <2>1, SomeCutoff
<1> DEFINE S == [j \in 0..K |-> {p \in Seq(Phase) : Shown(z, f, a, a + j, p)}]
<1>3. f \in Nat /\ f < NumPhases
  BY <1>1, <1>2 DEF Cutoff
<1>4. shown[0] = <<>> /\ \A j \in 1..K : shown[j] = Replay(shown[j - 1], page[j])
  BY <1>1, ReplaysAreReplays
<1>5. \A j \in 1..K : page[j] = q[a + j] /\ a + j \in 1..L /\ a + j \in (a + 1)..Whole(z) /\ a + (j - 1) = (a + j) - 1
  BY <1>1 DEF IsTail
<1> HIDE DEF shown, K, L
<1>6. Shown(z, f, a, a + 0, <<>>)
  <2>1. Len(<<>>) = 0 /\ <<>> \in Seq(Phase) /\ f + 0 = f /\ a + 0 = a
    BY <1>1, <1>3
  <2>2. SeenAt(z, a, f + 1) > a
    <3>1. f + 1 \in (f + 1)..NumPhases
      BY <1>1, <1>3
    <3> QED BY <1>2, <3>1, Order
  <2> QED BY <1>1, <1>3, <2>1, <2>2 DEF Shown
<1>7. ASSUME NEW j \in 1..K, Shown(z, f, a, a + (j - 1), shown[j - 1]) PROVE Shown(z, f, a, a + j, shown[j])
  <2> DEFINE i == a + j
             e == page[j]
  <2>1. i \in (a + 1)..Whole(z) /\ i \in 1..Len(q) /\ e = q[i]
    BY <1>5 DEF L
  <2>2. Shown(z, f, a, i - 1, shown[j - 1])
    BY <1>5, <1>7
  <2>3. shown[j] = Replay(shown[j - 1], e)
    BY <1>4
  <2> HIDE DEF i, e
  <2>4. e \in Entry
    BY <2>1
  <2>5. \/ \E n \in 1..NumPhases : i = StartAt(z, n) /\ e.t = "start" /\ e.n = n
        \/ \E n \in 1..NumPhases : i = DoneAt(z, n) /\ e.t = "done" /\ e.n = n
        \/ \E m \in 1..z : i = StepAt(m) /\ e.t = "step" /\ e.n = m
    BY <2>1, ScriptEntry
  <2>6. Shown(z, f, a, i, Replay(shown[j - 1], e))
    BY <1>2, <2>1, <2>2, <2>4, <2>5, ShownNext
  <2> QED BY <2>3, <2>6 DEF i
<1>8. \A j \in 0..K : shown[j] \in S[j]
  <2>1. shown[0] \in S[0]
    BY <1>1, <1>4, <1>6
  <2>2. \A j \in 1..K : shown[j - 1] \in S[j - 1] => shown[j] \in S[j]
    <3>1. \A j \in 1..K : j - 1 \in 0..K /\ j \in 0..K
      BY <1>1
    <3>2. \A j, p : Shown(z, f, a, a + j, p) => p \in Seq(Phase)
      BY DEF Shown
    <3> QED BY <1>7, <3>1, <3>2
  <2> HIDE DEF S
  <2> QED BY <1>1, <2>1, <2>2, Stays
<1>9. Shown(z, f, a, L, shown[K])
  <2>1. K \in 0..K
    BY <1>1
  <2> QED BY <1>1, <1>8, <2>1
<1>10. shown[K] = ReplayedPhases(page)
  BY <1>1 DEF shown, ReplayedPhases
<1> QED BY <1>2, <1>9, <1>10 DEF L

Completed(q) == {q[i].n : i \in {j \in DOMAIN q : q[j].t = "done"}}
StepsOf(q) == {q[i].n : i \in {j \in DOMAIN q : q[j].t = "step"}}

(* The phases of a page are the ones it has an entry of, in order, each active *)
(* exactly if the script has no completion of it.                            *)
LEMMA ShownIsFetched ==
  ASSUME NEW z \in 0..NumSteps, NEW q \in Seq(Entry), Follows(z, q), NEW a, NEW page, IsTail(page, q, a),
         NEW f, Cutoff(z, f, a), NEW p, Shown(z, f, a, Len(q), p)
  PROVE  /\ {p[i].n : i \in DOMAIN p} = Fetched(page)
         /\ \A i \in DOMAIN p : (p[i].active <=> p[i].n \notin Completed(q))
         /\ \A i, j \in DOMAIN p : i < j => p[i].n < p[j].n
<1> DEFINE L == Len(q)
           k == Len(p)
           N == NumPhases
<1>1. /\ L \in Nat /\ a \in Nat /\ a < L /\ k \in Nat /\ N \in Nat /\ f \in Nat /\ f + k <= N
      /\ DOMAIN p = 1..k /\ DOMAIN q = 1..L /\ DOMAIN page = 1..(L - a)
  <2>1. p \in Seq(Phase) /\ f + Len(p) <= NumPhases /\ f \in Nat /\ page \in Seq(Entry)
    BY Order DEF Shown, IsTail
  <2>2. Len(page) = L - a /\ a \in Nat /\ a < L
    BY DEF IsTail
  <2> QED BY <2>1, <2>2, StoreAssumption
<1>2. \A j \in 1..(L - a) : page[j] = q[a + j] /\ a + j \in 1..L
  BY <1>1 DEF IsTail
<1>3. /\ \A n \in (f + 1)..N : n \in 1..N /\ SeenAt(z, a, n) \in Nat /\ SeenAt(z, a, n) > a
      /\ \A n, m \in (f + 1)..N : n < m => SeenAt(z, a, n) < SeenAt(z, a, m)
      /\ \A n \in 1..N : DoneAt(z, n) > a => n \in (f + 1)..N
      /\ \A n \in 1..N : StartAt(z, n) < DoneAt(z, n) /\ StartAt(z, n) \in Nat /\ DoneAt(z, n) \in Nat
  BY Order, Positions
<1>4. /\ k > 0 => SeenAt(z, a, f + k) <= L
      /\ f + k < N => SeenAt(z, a, f + k + 1) > L
  BY DEF Shown
<1>5. ASSUME NEW m \in 1..k
      PROVE  /\ p[m].n = f + m /\ (p[m].active <=> DoneAt(z, f + m) > L)
             /\ f + m \in (f + 1)..N /\ f + m \in 1..N
  <2> DEFINE b == DoneAt(z, f + m) > L
  <2>1. p[m] = [n |-> f + m, active |-> b]
    BY DEF Shown
  <2> HIDE DEF b
  <2>2. p[m].n = f + m /\ p[m].active = b
    BY <2>1
  <2>3. p[m].active <=> DoneAt(z, f + m) > L
    BY <2>2, Zenon DEF b
  <2>4. f + m \in (f + 1)..N /\ f + m \in 1..N
    BY <1>1
  <2> QED BY <2>2, <2>3, <2>4
<1> HIDE DEF L, k, N
<1>6. ASSUME NEW m \in 1..k PROVE f + m \in Fetched(page)
  <2> DEFINE n == f + m
             x == SeenAt(z, a, n)
  <2>1. n \in (f + 1)..N /\ n \in 1..N
    BY <1>5
  <2>2. x \in Nat /\ x > a
    BY <1>3, <2>1
  <2>3. x <= L
    <3>1. f + k \in (f + 1)..N /\ (n = f + k \/ n < f + k) /\ k > 0
      BY <1>1
    <3>2. SeenAt(z, a, f + k) <= L /\ SeenAt(z, a, f + k) \in Nat
      BY <1>3, <1>4, <3>1
    <3>3. n = f + k \/ x < SeenAt(z, a, f + k)
      BY <1>3, <2>1, <3>1
    <3> HIDE DEF n
    <3> QED BY <1>1, <2>2, <3>2, <3>3
  <2>4. x = StartAt(z, n) \/ x = DoneAt(z, n)
    BY DEF SeenAt
  <2> HIDE DEF n, x
  <2>5. q[x].n = n /\ q[x].t # "step"
    <3>1. x = StartAt(z, n) => Says(q, x, "start", n)
      BY <2>1, <2>3 DEF Follows, L, N
    <3>2. x = DoneAt(z, n) => Says(q, x, "done", n)
      BY <2>1, <2>3 DEF Follows, L, N
    <3> QED BY <2>4, <3>1, <3>2 DEF Says
  <2>6. x - a \in 1..(L - a) /\ a + (x - a) = x
    BY <1>1, <2>2, <2>3
  <2>7. page[x - a] = q[x] /\ x - a \in DOMAIN page
    BY <1>1, <1>2, <2>6
  <2>8. n \in Fetched(page)
    BY <2>5, <2>7 DEF Fetched
  <2> QED BY <2>8 DEF n
<1>7. ASSUME NEW j \in DOMAIN page, page[j].t # "step"
      PROVE  \E m \in 1..k : f + m = page[j].n
  <2> DEFINE i == a + j
  <2>1. page[j] = q[i] /\ i \in 1..L /\ i > a /\ i \in Nat
    BY <1>1, <1>2
  <2> HIDE DEF i
  <2>2. PICK n \in 1..N : q[i].n = n /\ (i = StartAt(z, n) \/ i = DoneAt(z, n))
    BY <1>7, <2>1, ScriptEntry DEF L, N
  <2>3. n \in (f + 1)..N /\ SeenAt(z, a, n) <= i /\ n \in Nat
    <3>1. DoneAt(z, n) > a /\ n \in Nat
      BY <1>1, <1>3, <2>1, <2>2
    <3>2. SeenAt(z, a, n) <= i
      BY <1>1, <1>3, <2>1, <2>2 DEF SeenAt
    <3> QED BY <1>3, <3>1, <3>2
  <2>4. n <= f + k
    <3> SUFFICES ASSUME n > f + k PROVE FALSE
      BY <1>1, <2>3
    <3>1. f + k < N /\ f + k + 1 \in (f + 1)..N /\ (n = f + k + 1 \/ f + k + 1 < n)
      BY <1>1, <2>3
    <3>2. SeenAt(z, a, f + k + 1) > L /\ SeenAt(z, a, f + k + 1) \in Nat /\ SeenAt(z, a, n) \in Nat
      BY <1>3, <1>4, <2>3, <3>1
    <3>3. SeenAt(z, a, n) >= SeenAt(z, a, f + k + 1)
      BY <1>3, <2>3, <3>1, <3>2
    <3>4. i <= L
      BY <1>1, <2>1
    <3> QED BY <1>1, <2>1, <2>3, <3>2, <3>3, <3>4
  <2>5. n - f \in 1..k /\ f + (n - f) = n
    BY <1>1, <2>3, <2>4
  <2> QED BY <2>1, <2>2, <2>5
<1>8. {p[i].n : i \in DOMAIN p} = Fetched(page)
  <2>1. {p[i].n : i \in DOMAIN p} \subseteq Fetched(page)
    BY <1>1, <1>5, <1>6
  <2>2. Fetched(page) \subseteq {p[i].n : i \in DOMAIN p}
    <3> SUFFICES ASSUME NEW j \in DOMAIN page, page[j].t # "step" PROVE \E m \in DOMAIN p : p[m].n = page[j].n
      BY DEF Fetched
    <3> QED BY <1>1, <1>5, <1>7
  <2> QED BY <2>1, <2>2
<1>9. ASSUME NEW m \in 1..k PROVE p[m].active <=> p[m].n \notin Completed(q)
  <2> DEFINE n == f + m
  <2>1. n \in 1..N /\ p[m].n = n /\ (p[m].active <=> DoneAt(z, n) > L) /\ DoneAt(z, n) \in Nat
    BY <1>3, <1>5
  <2> HIDE DEF n
  <2>2. ASSUME DoneAt(z, n) <= L PROVE n \in Completed(q)
    <3>1. Says(q, DoneAt(z, n), "done", n)
      BY <2>1, <2>2 DEF Follows, L, N
    <3>2. DoneAt(z, n) \in DOMAIN q
      BY <1>1, <1>3, <2>1, <2>2
    <3> QED BY <3>1, <3>2 DEF Says, Completed
  <2>3. ASSUME n \in Completed(q) PROVE DoneAt(z, n) <= L
    <3>1. PICK j \in DOMAIN q : q[j].t = "done" /\ q[j].n = n
      BY <2>3 DEF Completed
    <3>2. j \in 1..Len(q)
      BY <1>1, <3>1 DEF L
    <3>3. j = DoneAt(z, n)
      BY <3>1, <3>2, ScriptEntry
    <3> QED BY <3>2, <3>3 DEF L
  <2> QED BY <1>1, <2>1, <2>2, <2>3
<1>10. ASSUME NEW i \in 1..k, NEW j \in 1..k, i < j PROVE p[i].n < p[j].n
  BY <1>1, <1>5, <1>10
<1> QED BY <1>1, <1>8, <1>9, <1>10

(* The last step is among the last four entries: two phases end after it, one   *)
(* starts.                                                                  *)
LEMMA LastStepIsFetched ==
  ASSUME NEW z \in 0..NumSteps, NEW q \in Seq(Entry), IsScript(z, q), NEW a, NEW page, IsTail(page, q, a),
         NEW n \in StepsOf(q)
  PROVE  n \in StepsOf(page) \/ n + 1 \in StepsOf(q) \/ (a # 0 /\ Len(page) < 4)
<1>1. Follows(z, q) /\ (z > 0 => StepAt(z) <= Len(q))
  BY DEF IsScript
<1>2. PICK i \in DOMAIN q : q[i].t = "step" /\ q[i].n = n
  BY DEF StepsOf
<1>3. n \in 1..z /\ i = StepAt(n) /\ i \in 1..Len(q)
  <2>1. i \in 1..Len(q)
    OBVIOUS
  <2> QED BY <1>1, <1>2, <2>1, ScriptEntry
<1>4. /\ z \in Nat /\ n \in Nat /\ z > 0 /\ Len(q) \in Nat /\ a \in Nat /\ Exec \in Nat
      /\ Len(q) <= StepAt(z) + 3 /\ StepAt(z) \in Int
  <2>1. NumPhases = Exec + 1 /\ Exec \in Nat /\ z \in Nat /\ a \in Nat /\ Len(q) <= Whole(z)
    BY <1>1, StoreAssumption DEF IsTail, Follows, Exec
  <2> QED BY <1>3, <2>1 DEF Whole, StepAt
<1>5. CASE n < z
  <2>1. n + 1 \in 1..z /\ StepAt(n + 1) <= StepAt(z) /\ StepAt(n + 1) \in Nat /\ StepAt(n + 1) >= 1
    BY <1>3, <1>4, <1>5, Positions DEF StepAt
  <2>2. StepAt(n + 1) <= Len(q) /\ StepAt(n + 1) \in DOMAIN q
    BY <1>1, <1>4, <2>1
  <2>3. Says(q, StepAt(n + 1), "step", n + 1)
    BY <1>1, <2>1, <2>2 DEF Follows
  <2> QED BY <2>2, <2>3 DEF Says, StepsOf
<1>6. CASE n = z /\ ~(a # 0 /\ Len(page) < 4)
  <2>1. Len(page) = Len(q) - a /\ DOMAIN page = 1..(Len(q) - a)
    BY DEF IsTail
  <2>2. i > a
    BY <1>3, <1>4, <1>6, <2>1
  <2>3. i - a \in 1..(Len(q) - a) /\ a + (i - a) = i
    BY <1>3, <1>4, <2>2
  <2>4. page[i - a] = q[i]
    BY <2>3 DEF IsTail
  <2> QED BY <1>2, <2>1, <2>3, <2>4 DEF StepsOf
<1> QED BY <1>3, <1>4, <1>5, <1>6

(* Two entries out of order are the same entries. *)
LEMMA SwapKeepsSteps ==
  ASSUME NEW q \in Seq(Entry), NEW i \in Ties(q)
  PROVE  StepsOf(Swap(q, i)) = StepsOf(q)
<1> DEFINE r == Swap(q, i)
<1>1. i \in DOMAIN q /\ i - 1 \in DOMAIN q /\ i # i - 1 /\ DOMAIN q = 1..Len(q)
  BY DEF Ties
<1>2. DOMAIN r = DOMAIN q /\ r[i] = q[i - 1] /\ r[i - 1] = q[i] /\ \A j \in DOMAIN q \ {i, i - 1} : r[j] = q[j]
  BY <1>1 DEF Swap
<1> HIDE DEF r
<1>3. \A j \in DOMAIN q : \E m \in DOMAIN q : r[j] = q[m]
  BY <1>1, <1>2
<1>4. \A j \in DOMAIN q : \E m \in DOMAIN q : q[j] = r[m]
  BY <1>1, <1>2
<1>5. StepsOf(r) \subseteq StepsOf(q)
  <2> SUFFICES ASSUME NEW j \in DOMAIN q, r[j].t = "step" PROVE r[j].n \in StepsOf(q)
    BY <1>2 DEF StepsOf
  <2> QED BY <1>3 DEF StepsOf
<1>6. StepsOf(q) \subseteq StepsOf(r)
  <2> SUFFICES ASSUME NEW j \in DOMAIN q, q[j].t = "step" PROVE q[j].n \in StepsOf(r)
    BY DEF StepsOf
  <2> QED BY <1>2, <1>4 DEF StepsOf
<1> QED BY <1>5, <1>6 DEF r

LEMMA LastNIsTail ==
  ASSUME NEW q \in Seq(Entry), Len(q) > 0
  PROVE  \E a : /\ IsTail(LastN(q, Limit), q, a)
                /\ a # 0 => Len(LastN(q, Limit)) = Limit
                /\ Len(q) <= Limit => LastN(q, Limit) = q
<1> DEFINE L == Len(q)
           page == LastN(q, Limit)
<1>1. L \in Nat /\ L > 0 /\ Limit \in Nat /\ Limit > 0
  BY StoreAssumption
<1>2. CASE L > Limit
  <2> DEFINE a == L - Limit
             b == a + 1
  <2>1. page = SubSeq(q, L - Limit + 1, L)
    BY <1>1, <1>2 DEF LastN
  <2>2. a \in Nat /\ a < L /\ L - a = Limit /\ L - Limit + 1 = b /\ b \in Int /\ b <= L /\ b >= 1
    BY <1>1, <1>2
  <2>3. \A j \in 1..(L - a) : b + j - 1 = a + j
    BY <2>2
  <2>4. L - b + 1 = L - a
    BY <2>2
  <2> HIDE DEF a, b
  <2>5. \A j \in b..L : q[j] \in Entry
    BY <1>1, <2>2
  <2>6. SubSeq(q, b, L) \in Seq(Entry)
    BY <1>1, <2>2, <2>5, SubSeqProperties
  <2>7. Len(SubSeq(q, b, L)) = IF b <= L THEN L - b + 1 ELSE 0
    BY <1>1, <2>2, <2>5, SubSeqProperties
  <2>8. \A j \in 1..(L - b + 1) : SubSeq(q, b, L)[j] = q[b + j - 1]
    BY <1>1, <2>2, <2>5, SubSeqProperties
  <2>9. page = SubSeq(q, b, L)
    BY <2>1, <2>2
  <2> HIDE DEF page
  <2>10. page \in Seq(Entry) /\ Len(page) = L - a /\ \A j \in 1..(L - a) : page[j] = q[a + j]
    BY <2>2, <2>3, <2>4, <2>6, <2>7, <2>8, <2>9
  <2>11. Len(page) = Limit /\ ~(L <= Limit)
    BY <1>1, <1>2, <2>2, <2>10
  <2>12. IsTail(page, q, a)
    BY <2>2, <2>10 DEF IsTail
  <2> QED BY <2>11, <2>12 DEF page
<1>3. CASE L <= Limit
  <2>1. page = q
    BY <1>1, <1>3 DEF LastN
  <2>2. 0 \in Nat /\ 0 < L /\ Len(q) = L - 0 /\ \A j \in 1..(L - 0) : 0 + j = j
    BY <1>1
  <2>3. IsTail(q, q, 0)
    BY <2>2 DEF IsTail
  <2> QED BY <2>1, <2>3
<1> QED BY <1>1, <1>2, <1>3

(* A session that ran one debug request is replayed as it ran, however far it   *)
(* came: the phases that are fetched, in order, each active exactly if it never *)
(* completed, the last step, and all steps of a log that is fetched whole       *)
(* (appendAudit, queryAuditLog, GET /history, buildReplayState).              *)
THEOREM ReplayShowsWhatHappened == Spec => []ReplayIsFaithful
<1>1. ReplayInv => ReplayIsFaithful
  <2> SUFFICES ASSUME ReplayInv, NEW s \in Session, served[s] = 1, Opened(s),
                      Len(table[s]) = Len(log[s]), NEW page \in Pages(s)
               PROVE  LET shown == ReplayedPhases(page)
                      IN /\ Ties(table[s]) = {} =>
                              /\ {shown[i].n : i \in DOMAIN shown} = Fetched(page)
                              /\ \A i \in DOMAIN shown :
                                   /\ shown[i].active <=> shown[i].n \notin Logged(s, "done")
                                   /\ \A j \in DOMAIN shown : i < j => shown[i].n < shown[j].n
                              /\ \A n \in Logged(s, "step") :
                                   n \in ReplayedSteps(page) \/ n + 1 \in Logged(s, "step") \/ Limit < 4
                         /\ Len(table[s]) <= Limit => ReplayedSteps(page) = Logged(s, "step")
    BY DEF ReplayIsFaithful
  <2> DEFINE q == table[s]
             shown == ReplayedPhases(page)
  <2>1. TypeOK /\ OneRequest(s)
    BY DEF ReplayInv, IInv
  <2>2. q \in Seq(Entry) /\ log[s] \in Seq(Entry) /\ Len(q) \in Nat /\ Len(q) > 0 /\ HasScript(log[s])
    <3>1. q \in Seq(Entry) /\ log[s] \in Seq(Entry) /\ HasScript(log[s]) /\ log[s] # <<>>
      BY <2>1 DEF TypeOK, OneRequest, Opened
    <3> QED BY <3>1
  <2>3. q = log[s]
    <3>1. Agrees(s) /\ Due(s) \in {0, 1}
      BY <2>1 DEF OneRequest, Due
    <3>2. Due(s) = 0
      BY <2>2, <3>1 DEF Agrees
    <3>3. \A i \in 1..Len(q) : q[i] = log[s][i]
      BY <2>2, <3>1, <3>2 DEF Agrees
    <3> QED BY <2>2, <3>3, SeqEqual
  <2>4. PICK z \in 0..NumSteps : IsScript(z, q)
    BY <2>2, <2>3 DEF HasScript
  <2>5. Follows(z, q)
    BY <2>4 DEF IsScript
  <2>6. Logged(s, "done") = Completed(q) /\ Logged(s, "step") = StepsOf(q) /\ ReplayedSteps(page) = StepsOf(page)
    BY <2>3 DEF Logged, Completed, StepsOf, ReplayedSteps
  <2>7. PICK r \in Orders(q) : page = LastN(r, Limit)
    BY DEF Pages
  <2>8. Limit \in Nat
    BY StoreAssumption
  <2>9. Orders(q) = {q} \cup {Swap(q, i) : i \in Ties(q)}
    BY DEF Orders
  <2> HIDE DEF q, shown
  <2>10. ASSUME Ties(q) = {}
         PROVE  /\ {shown[i].n : i \in DOMAIN shown} = Fetched(page)
                /\ \A i \in DOMAIN shown : (shown[i].active <=> shown[i].n \notin Completed(q))
                /\ \A i, j \in DOMAIN shown : i < j => shown[i].n < shown[j].n
                /\ \A n \in StepsOf(q) : n \in StepsOf(page) \/ n + 1 \in StepsOf(q) \/ Limit < 4
    <3>1. page = LastN(q, Limit)
      BY <2>7, <2>9, <2>10
    <3>2. PICK a : IsTail(page, q, a) /\ (a # 0 => Len(page) = Limit)
      BY <2>2, <3>1, LastNIsTail
    <3>3. PICK f : Cutoff(z, f, a) /\ Shown(z, f, a, Len(q), shown)
      BY <2>2, <2>5, <3>2, TailIsShown DEF shown
    <3>4. /\ {shown[i].n : i \in DOMAIN shown} = Fetched(page)
          /\ \A i \in DOMAIN shown : (shown[i].active <=> shown[i].n \notin Completed(q))
          /\ \A i, j \in DOMAIN shown : i < j => shown[i].n < shown[j].n
      BY <2>2, <2>5, <3>2, <3>3, ShownIsFetched
    <3>5. ASSUME NEW n \in StepsOf(q)
          PROVE  n \in StepsOf(page) \/ n + 1 \in StepsOf(q) \/ Limit < 4
      <4>1. n \in StepsOf(page) \/ n + 1 \in StepsOf(q) \/ (a # 0 /\ Len(page) < 4)
        BY <2>2, <2>4, <3>2, LastStepIsFetched
      <4> QED BY <3>2, <4>1
    <3> QED BY <3>4, <3>5
  <2>11. ASSUME Len(q) <= Limit PROVE StepsOf(page) = StepsOf(q)
    <3>1. CASE r = q
      <4>1. page = q
        BY <2>2, <2>7, <2>11, <3>1, LastNIsTail
      <4> QED BY <4>1
    <3>2. ASSUME NEW i \in Ties(q), r = Swap(q, i) PROVE StepsOf(page) = StepsOf(q)
      <4>1. Len(r) = Len(q)
        <5>1. r = [q EXCEPT ![i] = q[i - 1], ![i - 1] = q[i]]
          BY <3>2 DEF Swap
        <5>2. DOMAIN r = 1..Len(q)
          BY <2>2, <5>1
        <5>3. r \in Seq(Entry)
          <6>1. i \in 1..Len(q) /\ i - 1 \in 1..Len(q)
            BY <2>2 DEF Ties
          <6> QED BY <2>2, <5>1, <6>1
        <5> QED BY <2>2, <5>2, <5>3
      <4>2. page = r
        BY <2>2, <2>7, <2>8, <2>11, <4>1 DEF LastN
      <4> QED BY <2>2, <3>2, <4>2, SwapKeepsSteps
    <3> QED BY <2>7, <2>9, <3>1, <3>2
  <2> QED BY <2>6, <2>10, <2>11 DEF q, shown
<1> QED BY <1>1, ReplayInvariance, PTL

(***************************************************************************)
(* ContextWindow.                                                          *)
(***************************************************************************)
FactSet == [type : ToSet(FactType), tokens : FactTokens]
ObservationSet == [of : Nat, level : 1..3, tokens : Nat, s : Nat \X Nat \X Nat]
Late(f) == f.type \in {"error_code", "custom"}

(* Facts by type: after an error code come no container, port or address. *)
LateLast(q) == \A i, j \in DOMAIN q : i < j /\ Late(q[i]) => Late(q[j])
TextSet == [sections : Seq(Sections), facts : {q \in Seq(FactSet) : LateLast(q)}]

-----------------------------------------------------------------------------
(* How many tokens. *)

(* The recursive function of Sums exists, so it is what its definition says. *)
LEMMA SumsAreSums ==
  ASSUME NEW q, NEW N \in Nat, N = Len(q), \A i \in 1..N : q[i].tokens \in Nat
  PROVE  Sums(q) = [n \in 0..N |-> IF n = 0 THEN 0 ELSE Sums(q)[n - 1] + q[n].tokens]
<1> DEFINE Eq(f) == f = [n \in 0..N |-> IF n = 0 THEN 0 ELSE f[n - 1] + q[n].tokens]
           S == [n \in 0..N |-> Nat]
           G == [n \in 1..N |-> [x \in Nat |-> x + q[n].tokens]]
<1>1. PICK h : Iteration(h, N, 0, G, S)
  <2>1. StepsWithin(N, G, S)
    <3>1. \A n \in 1..N : n - 1 \in 0..N /\ n \in 0..N
      OBVIOUS
    <3> QED BY <3>1 DEF StepsWithin
  <2>2. 0 \in S[0]
    OBVIOUS
  <2> HIDE DEF S, G
  <2> QED BY <2>1, <2>2, Iterates
<1>2. Eq(h)
  <2>1. ASSUME NEW n \in 1..N PROVE h[n] = h[n - 1] + q[n].tokens
    <3>1. n - 1 \in 0..N /\ n \in 0..N
      OBVIOUS
    <3>2. h[n] = G[n][h[n - 1]] /\ h[n - 1] \in Nat
      BY <1>1, <3>1 DEF Iteration
    <3> QED BY <3>2
  <2>2. \A n \in 0..N : n = 0 \/ n \in 1..N
    OBVIOUS
  <2>3. \A n \in 0..N : h[n] = IF n = 0 THEN 0 ELSE h[n - 1] + q[n].tokens
    BY <1>1, <2>1, <2>2 DEF Iteration
  <2>4. h = [n \in 0..N |-> h[n]]
    <3> HIDE DEF S, G
    <3> QED BY <1>1 DEF Iteration
  <2> QED BY <2>3, <2>4
<1>3. Sums(q) = CHOOSE f : Eq(f)
  BY DEF Sums
<1> QED
  <2> HIDE DEF Eq
  <2>1. Eq(Sums(q))
    BY <1>2, <1>3
  <2> QED BY <2>1 DEF Eq

LEMMA SumsAreNaturals ==
  ASSUME NEW q, NEW N \in Nat, N = Len(q), \A i \in 1..N : q[i].tokens \in Nat
  PROVE  Sums(q)[0] = 0 /\ \A n \in 0..N : Sums(q)[n] \in Nat
<1> DEFINE S == [n \in 0..N |-> Nat]
<1>1. Sums(q)[0] = 0
  BY SumsAreSums
<1>2. ASSUME NEW n \in 1..N, Sums(q)[n - 1] \in S[n - 1] PROVE Sums(q)[n] \in S[n]
  <2>1. n \in 0..N /\ n # 0 /\ n - 1 \in 0..N
    OBVIOUS
  <2> DEFINE s == Sums(q)
  <2>2. s = [k \in 0..N |-> IF k = 0 THEN 0 ELSE s[k - 1] + q[k].tokens]
    BY SumsAreSums
  <2> HIDE DEF s
  <2>3. s[n] = s[n - 1] + q[n].tokens
    BY <2>1, <2>2
  <2>4. Sums(q)[n] = Sums(q)[n - 1] + q[n].tokens
    BY <2>3 DEF s
  <2> QED BY <1>2, <2>1, <2>4
<1>3. Sums(q)[0] \in S[0]
  BY <1>1
<1>4. \A n \in 0..N : Sums(q)[n] \in S[n]
  <2> HIDE DEF S
  <2> QED BY <1>2, <1>3, Stays
<1> QED BY <1>1, <1>4

LEMMA TokensAreNaturals ==
  ASSUME NEW q, Len(q) \in Nat, \A i \in 1..Len(q) : q[i].tokens \in Nat
  PROVE  Tokens(q) \in Nat /\ (Len(q) = 0 => Tokens(q) = 0)
  BY SumsAreNaturals DEF Tokens

LEMMA SmallestIn ==
  ASSUME NEW S \in SUBSET Nat, S # {}
  PROVE  Smallest(S) \in S
  BY Least DEF Smallest

LEMMA RemoveAtFacts ==
  ASSUME NEW S, NEW q \in Seq(S), NEW i \in 1..Len(q)
  PROVE  /\ RemoveAt(q, i) \in Seq(S) /\ Len(RemoveAt(q, i)) = Len(q) - 1
         /\ ToSet(RemoveAt(q, i)) \subseteq ToSet(q)
<1> DEFINE N == Len(q)
           a == SubSeq(q, 1, i - 1)
           b == SubSeq(q, i + 1, N)
<1>1. N \in Nat /\ i \in 1..N /\ q \in [1..N -> S] /\ i - 1 \in Nat /\ N - i \in Nat
  OBVIOUS
<1> HIDE DEF N
<1>2. a \in Seq(S) /\ Len(a) = i - 1 /\ \A j \in 1..(i - 1) : a[j] = q[j]
  BY <1>1, SubSeqProperties
<1>3. b \in Seq(S) /\ Len(b) = N - i /\ \A j \in 1..(N - i) : b[j] = q[i + j]
  <2>1. /\ i + 1 \in Int /\ N \in Int /\ \A j \in (i + 1)..N : q[j] \in S
    BY <1>1
  <2>2. b \in Seq(S) /\ Len(b) = IF i + 1 <= N THEN N - (i + 1) + 1 ELSE 0
    BY <2>1, SubSeqProperties
  <2>3. \A j \in 1..(N - i) : b[j] = q[(i + 1) + j - 1]
    <3>1. \A j \in 1..(N - (i + 1) + 1) : b[j] = q[(i + 1) + j - 1]
      BY <2>1, SubSeqProperties
    <3>2. N - (i + 1) + 1 = N - i
      BY <1>1
    <3> QED BY <3>1, <3>2
  <2>4. Len(b) = N - i
    BY <2>2, <1>1
  <2>5. \A j \in 1..(N - i) : (i + 1) + j - 1 = i + j
    BY <1>1
  <2> QED BY <2>2, <2>3, <2>4, <2>5
<1> HIDE DEF a, b
<1>4. RemoveAt(q, i) = a \o b
  BY DEF RemoveAt, a, b, N
<1>5. a \o b \in Seq(S) /\ Len(a \o b) = Len(a) + Len(b)
  BY <1>2, <1>3, ConcatProperties
<1>6. Len(a \o b) = N - 1
  <2>1. (i - 1) + (N - i) = N - 1
    BY <1>1
  <2> QED BY <1>2, <1>3, <1>5, <2>1
<1>7. ASSUME NEW j \in 1..(N - 1) PROVE \E k \in 1..N : (a \o b)[j] = q[k]
  <2>1. CASE j <= i - 1
    <3>1. (a \o b)[j] = a[j] /\ j \in 1..(i - 1) /\ j \in 1..N
      BY <1>1, <1>2, <1>3, <2>1
    <3> QED BY <1>2, <3>1
  <2>2. CASE j > i - 1
    <3>1. j - (i - 1) \in 1..(N - i)
      BY <1>1, <2>2
    <3>2. (a \o b)[j] = b[j - (i - 1)]
      BY <1>1, <1>2, <1>3, <2>2, <3>1
    <3>3. i + (j - (i - 1)) \in 1..N
      BY <1>1, <3>1
    <3> QED BY <1>3, <3>1, <3>2, <3>3
  <2>3. j <= i - 1 \/ j > i - 1
    BY <1>1
  <2> QED BY <2>1, <2>2, <2>3
<1>8. ToSet(a \o b) \subseteq ToSet(q)
  <2>1. DOMAIN (a \o b) = 1..(N - 1) /\ DOMAIN q = 1..N
    BY <1>1, <1>5, <1>6
  <2> QED BY <1>7, <2>1 DEF ToSet
<1> QED BY <1>4, <1>5, <1>6, <1>8 DEF N

-----------------------------------------------------------------------------
(* Ground truth. *)

LEMMA Types == ToSet(FactType) = {"container", "port", "ip", "error_code", "custom"}
<1>1. DOMAIN FactType = 1..5
  BY DEF FactType
<1>2. 1..5 = {1, 2, 3, 4, 5}
  OBVIOUS
<1>3. ToSet(FactType) = {FactType[i] : i \in {1, 2, 3, 4, 5}}
  BY <1>1, <1>2 DEF ToSet
<1>4. /\ FactType[1] = "container" /\ FactType[2] = "port" /\ FactType[3] = "ip"
      /\ FactType[4] = "error_code" /\ FactType[5] = "custom"
  BY DEF FactType
<1> QED BY <1>3, <1>4

LEMMA Priorities ==
  /\ \A t \in ToSet(FactType) : Priority[t] \in Nat
  /\ \A t \in ToSet(FactType) : Priority[t] >= Priority["error_code"] => t = "error_code"
<1>1. /\ Priority["ip"] = 0 /\ Priority["port"] = 1 /\ Priority["container"] = 2
      /\ Priority["custom"] = 3 /\ Priority["error_code"] = 4
  BY DEF Priority
<1>2. ASSUME NEW t \in ToSet(FactType)
      PROVE  Priority[t] \in Nat /\ (Priority[t] >= 4 => t = "error_code")
  BY <1>1, Types
<1> QED BY <1>1, <1>2

LEMMA VictimIsLowest ==
  ASSUME NEW q \in Seq(FactSet), q # <<>>
  PROVE  /\ Victim(q) \in 1..Len(q)
         /\ q[Victim(q)].type = "error_code" => \A j \in 1..Len(q) : q[j].type = "error_code"
<1> DEFINE Pr(i) == Priority[q[i].type]
           Best(i) == \A j \in DOMAIN q : Pr(i) < Pr(j) \/ (Pr(i) = Pr(j) /\ i <= j)
<1>1. \A i \in 1..Len(q) : q[i] \in FactSet /\ q[i].type \in ToSet(FactType)
  <2>1. \A i \in 1..Len(q) : q[i] \in FactSet
    OBVIOUS
  <2>2. \A f \in FactSet : f.type \in ToSet(FactType)
    BY DEF FactSet
  <2> QED BY <2>1, <2>2
<1>2. \A i \in 1..Len(q) : Pr(i) \in Nat
  BY <1>1, Priorities
<1>3. 1 \in 1..Len(q)
  OBVIOUS
<1>4. \E i \in 1..Len(q) : Best(i)
  <2> HIDE DEF Pr
  <2>1. PICK p \in {Pr(i) : i \in 1..Len(q)} : \A k \in {Pr(i) : i \in 1..Len(q)} : p <= k
    <3>1. {Pr(i) : i \in 1..Len(q)} \in SUBSET Nat /\ {Pr(i) : i \in 1..Len(q)} # {}
      BY <1>2, <1>3
    <3> QED BY <3>1, Least
  <2>2. PICK i \in {i \in 1..Len(q) : Pr(i) = p} : \A k \in {j \in 1..Len(q) : Pr(j) = p} : i <= k
    <3>1. {i \in 1..Len(q) : Pr(i) = p} \in SUBSET Nat /\ {i \in 1..Len(q) : Pr(i) = p} # {}
      BY <2>1
    <3> QED BY <3>1, Least
  <2>3. ASSUME NEW j \in 1..Len(q) PROVE Pr(i) < Pr(j) \/ (Pr(i) = Pr(j) /\ i <= j)
    <3>1. p <= Pr(j) /\ Pr(i) = p /\ p \in Nat /\ Pr(j) \in Nat
      BY <1>2, <2>1, <2>2
    <3>2. CASE Pr(j) = p
      <4>1. i <= j
        BY <2>2, <3>2
      <4> QED BY <3>1, <3>2, <4>1
    <3>3. CASE Pr(j) # p
      <4>1. p < Pr(j)
        BY <3>1, <3>3
      <4> QED BY <3>1, <4>1
    <3> QED BY <3>2, <3>3
  <2>4. i \in 1..Len(q) /\ DOMAIN q = 1..Len(q)
    BY <2>2
  <2> QED BY <2>3, <2>4
<1>5. \E i \in DOMAIN q : \A j \in DOMAIN q :
        \/ Priority[q[i].type] < Priority[q[j].type]
        \/ Priority[q[i].type] = Priority[q[j].type] /\ i <= j
  <2>1. DOMAIN q = 1..Len(q)
    OBVIOUS
  <2> QED BY <1>4, <2>1
<1>6. Victim(q) \in 1..Len(q) /\ Best(Victim(q))
  <2>1. DOMAIN q = 1..Len(q)
    OBVIOUS
  <2>2. Victim(q) \in DOMAIN q /\ \A j \in DOMAIN q :
          \/ Priority[q[Victim(q)].type] < Priority[q[j].type]
          \/ Priority[q[Victim(q)].type] = Priority[q[j].type] /\ Victim(q) <= j
    BY <1>5, Zenon DEF Victim
  <2> QED BY <2>1, <2>2
<1>7. ASSUME q[Victim(q)].type = "error_code", NEW j \in 1..Len(q) PROVE q[j].type = "error_code"
  <2>1. Pr(j) >= Pr(Victim(q))
    <3> HIDE DEF Pr
    <3> QED BY <1>2, <1>6
  <2> QED BY <1>1, <1>7, <2>1, Priorities
<1> QED BY <1>6, <1>7

LEMMA EvictionsAreEvictions ==
  ASSUME NEW q \in Seq(FactSet), NEW N \in Nat, N = Len(q)
  PROVE  Evictions(q) = [n \in 0..N |-> IF n = 0 THEN q ELSE
                           RemoveAt(Evictions(q)[n - 1], Victim(Evictions(q)[n - 1]))]
<1> DEFINE Eq(f) == f = [n \in 0..N |-> IF n = 0 THEN q ELSE RemoveAt(f[n - 1], Victim(f[n - 1]))]
           S == [n \in 0..N |-> {p \in Seq(FactSet) : Len(p) = N - n}]
           G == [n \in 1..N |-> [x \in S[n - 1] |-> RemoveAt(x, Victim(x))]]
<1>1. ASSUME NEW n \in 1..N
      PROVE  /\ n - 1 \in 0..N /\ n \in 0..N
             /\ \A x \in S[n - 1] : G[n][x] = RemoveAt(x, Victim(x)) /\ G[n][x] \in S[n]
  <2>1. n - 1 \in 0..N /\ n \in 0..N
    OBVIOUS
  <2>2. ASSUME NEW x \in S[n - 1] PROVE G[n][x] = RemoveAt(x, Victim(x)) /\ G[n][x] \in S[n]
    <3>1. x \in Seq(FactSet) /\ Len(x) = N - (n - 1)
      BY <2>1
    <3>2. Len(x) - 1 = N - n /\ Len(x) > 0
      BY <3>1
    <3>3. x # <<>>
      BY <3>2
    <3>4. RemoveAt(x, Victim(x)) \in Seq(FactSet) /\ Len(RemoveAt(x, Victim(x))) = N - n
      BY <3>1, <3>2, <3>3, VictimIsLowest, RemoveAtFacts
    <3> HIDE DEF S
    <3>5. G[n][x] = RemoveAt(x, Victim(x))
      BY <2>2
    <3> QED BY <2>1, <3>4, <3>5 DEF S
  <2> QED BY <2>1, <2>2
<1>2. PICK h : Iteration(h, N, q, G, S)
  <2>1. StepsWithin(N, G, S)
    <3> HIDE DEF S, G
    <3> QED BY <1>1 DEF StepsWithin
  <2>2. q \in S[0]
    OBVIOUS
  <2> HIDE DEF S, G
  <2> QED BY <2>1, <2>2, Iterates
<1>3. Eq(h)
  <2> HIDE DEF S, G
  <2>1. ASSUME NEW n \in 1..N PROVE h[n] = RemoveAt(h[n - 1], Victim(h[n - 1]))
    BY <1>1, <1>2 DEF Iteration
  <2>2. \A n \in 0..N : n = 0 \/ n \in 1..N
    OBVIOUS
  <2>3. \A n \in 0..N : h[n] = IF n = 0 THEN q ELSE RemoveAt(h[n - 1], Victim(h[n - 1]))
    BY <1>2, <2>1, <2>2 DEF Iteration
  <2>4. h = [n \in 0..N |-> h[n]]
    BY <1>2 DEF Iteration
  <2> QED BY <2>3, <2>4
<1>4. Evictions(q) = CHOOSE f : Eq(f)
  BY DEF Evictions
<1> QED
  <2> HIDE DEF Eq
  <2>1. Eq(Evictions(q))
    BY <1>3, <1>4
  <2> QED BY <2>1 DEF Eq

Codes(q) == \A f \in ToSet(q) : f.type = "error_code"
CodeGone(left, n) == \E k \in 0..(n - 1) : left[k][Victim(left[k])].type = "error_code"

(* One fact after the other goes; when an error code goes, only error codes  *)
(* are left.                                                                *)
LEMMA EvictionSteps ==
  ASSUME NEW q \in Seq(FactSet), NEW N \in Nat, N = Len(q), NEW left, left = Evictions(q), NEW n \in 0..N
  PROVE  /\ left[n] \in Seq(FactSet) /\ Len(left[n]) = N - n /\ ToSet(left[n]) \subseteq ToSet(q)
         /\ CodeGone(left, n) => Codes(left[n])
<1> DEFINE Gone(m) == CodeGone(left, m)
           S == [m \in 0..N |-> {p \in Seq(FactSet) : Len(p) = N - m /\ ToSet(p) \subseteq ToSet(q)
                                                       /\ (Gone(m) => Codes(p))}]
<1>1. left[0] = q /\ \A m \in 1..N : left[m] = RemoveAt(left[m - 1], Victim(left[m - 1]))
  <2>1. left = [m \in 0..N |-> IF m = 0 THEN q ELSE RemoveAt(left[m - 1], Victim(left[m - 1]))]
    BY EvictionsAreEvictions
  <2>2. \A m \in 1..N : m \in 0..N /\ m # 0
    OBVIOUS
  <2> QED BY <2>1, <2>2
<1>2. left[0] \in S[0]
  <2>1. ~Gone(0)
    BY DEF CodeGone
  <2> HIDE DEF Gone
  <2> QED BY <1>1, <2>1
<1>3. ASSUME NEW m \in 1..N, left[m - 1] \in S[m - 1] PROVE left[m] \in S[m]
  <2> DEFINE p == left[m - 1]
  <2>1. m - 1 \in 0..N /\ m \in 0..N
    OBVIOUS
  <2>2. /\ p \in Seq(FactSet) /\ Len(p) = N - (m - 1) /\ ToSet(p) \subseteq ToSet(q)
        /\ Gone(m - 1) => Codes(p)
    <3> HIDE DEF Gone
    <3> QED BY <1>3, <2>1
  <2>3. Gone(m) => Gone(m - 1) \/ p[Victim(p)].type = "error_code"
    <3>1. \A k \in 0..(m - 1) : k \in 0..((m - 1) - 1) \/ k = m - 1
      OBVIOUS
    <3> QED BY <3>1 DEF CodeGone
  <2> HIDE DEF p, Gone
  <2>4. Len(p) - 1 = N - m /\ p # <<>>
    <3>1. Len(p) - 1 = N - m /\ Len(p) > 0
      BY <2>2
    <3> QED BY <3>1
  <2>5. Victim(p) \in 1..Len(p) /\ (p[Victim(p)].type = "error_code" => Codes(p))
    <3>1. ToSet(p) = {p[j] : j \in 1..Len(p)}
      BY <2>2 DEF ToSet
    <3> QED BY <2>2, <2>4, <3>1, VictimIsLowest DEF Codes
  <2>6. /\ left[m] \in Seq(FactSet) /\ Len(left[m]) = N - m /\ ToSet(left[m]) \subseteq ToSet(p)
    BY <1>1, <2>2, <2>4, <2>5, RemoveAtFacts DEF p
  <2>7. Codes(p) => Codes(left[m])
    BY <2>6 DEF Codes
  <2> QED BY <2>1, <2>2, <2>3, <2>5, <2>6, <2>7
<1>4. left[n] \in S[n]
  <2> HIDE DEF S
  <2> QED BY <1>2, <1>3, Stays
<1> QED BY <1>4

LEMMA FactTokensFacts ==
  ASSUME NEW q \in Seq(FactSet)
  PROVE  Tokens(q) \in Nat /\ (Len(q) = 0 => Tokens(q) = 0)
<1>1. \A i \in 1..Len(q) : q[i] \in FactSet
  OBVIOUS
<1>2. \A f \in FactSet : f.tokens \in Nat
  BY WindowAssumption DEF FactSet
<1> QED BY <1>1, <1>2, TokensAreNaturals

(* enforceCapacity ends within the cap. *)
LEMMA EnforceFacts ==
  ASSUME NEW q \in Seq(FactSet)
  PROVE  /\ Enforce(q).kept \in Seq(FactSet) /\ Tokens(Enforce(q).kept) <= Cap
         /\ ToSet(Enforce(q).kept) \subseteq ToSet(q) /\ Enforce(q).gone \subseteq ToSet(q)
         /\ (\E f \in Enforce(q).gone : f.type = "error_code") => Codes(Enforce(q).kept)
<1> DEFINE N == Len(q)
           left == Evictions(q)
           ns == {n \in 0..N : Tokens(left[n]) <= Cap \/ n = N}
           m == Smallest(ns)
<1>1. N \in Nat /\ Cap \in Nat
  BY WindowAssumption
<1>2. Enforce(q).kept = left[m] /\ Enforce(q).gone = {left[n][Victim(left[n])] : n \in 0..(m - 1)}
  BY DEF Enforce
<1> HIDE DEF N, left
<1>3. m \in ns
  <2>1. ns \subseteq Nat /\ N \in ns
    BY <1>1
  <2> HIDE DEF ns
  <2> QED BY <2>1, SmallestIn
<1>4. m \in 0..N /\ (Tokens(left[m]) <= Cap \/ m = N)
  BY <1>3
<1> HIDE DEF m
<1>5. \A n \in 0..N :
        /\ left[n] \in Seq(FactSet) /\ Len(left[n]) = N - n /\ ToSet(left[n]) \subseteq ToSet(q)
        /\ CodeGone(left, n) => Codes(left[n])
  BY <1>1, EvictionSteps DEF N, left
<1>6. Tokens(left[m]) <= Cap
  <2>1. CASE m = N
    <3>1. left[m] \in Seq(FactSet) /\ Len(left[m]) = 0
      BY <1>1, <1>4, <1>5, <2>1
    <3>2. Tokens(left[m]) = 0
      BY <3>1, FactTokensFacts
    <3> QED BY <1>1, <3>2
  <2> QED BY <1>4, <2>1
<1>7. ASSUME NEW n \in 0..(m - 1) PROVE left[n][Victim(left[n])] \in ToSet(q)
  <2>1. n \in 0..N /\ n < N
    BY <1>1, <1>4
  <2>2. left[n] \in Seq(FactSet) /\ Len(left[n]) > 0 /\ ToSet(left[n]) \subseteq ToSet(q)
    BY <1>1, <1>5, <2>1
  <2>3. Victim(left[n]) \in 1..Len(left[n])
    <3>1. left[n] # <<>>
      BY <2>2
    <3> QED BY <2>2, <3>1, VictimIsLowest
  <2>4. left[n][Victim(left[n])] \in ToSet(left[n])
    BY <2>2, <2>3 DEF ToSet
  <2> QED BY <2>2, <2>4
<1>8. ASSUME NEW f \in Enforce(q).gone, f.type = "error_code"
      PROVE  Codes(left[m])
  <2>1. PICK k \in 0..(m - 1) : f = left[k][Victim(left[k])]
    BY <1>2, <1>8
  <2>2. CodeGone(left, m)
    BY <1>8, <2>1 DEF CodeGone
  <2> QED BY <1>4, <1>5, <2>2
<1> QED BY <1>2, <1>4, <1>5, <1>6, <1>7, <1>8

Ground == [kept : Seq(FactSet), gone : SUBSET FactSet]
NoGround(kept) == [kept |-> kept, gone |-> {}]

LEMMA PinNextFacts ==
  ASSUME NEW st \in Ground, NEW f \in FactSet
  PROVE  /\ PinNext(st, f) \in Ground /\ Tokens(PinNext(st, f).kept) <= Cap
         /\ ToSet(PinNext(st, f).kept) \subseteq ToSet(st.kept) \cup {f}
         /\ PinNext(st, f).gone \subseteq st.gone \cup ToSet(st.kept) \cup {f}
         /\ (\E g \in PinNext(st, f).gone : g \notin st.gone /\ g.type = "error_code") =>
              Codes(PinNext(st, f).kept)
<1> DEFINE q == Append(st.kept, f)
           after == Enforce(q)
<1>1. st.kept \in Seq(FactSet) /\ st.gone \subseteq FactSet
  BY DEF Ground
<1>2. q \in Seq(FactSet) /\ ToSet(q) = ToSet(st.kept) \cup {f} /\ ToSet(q) \subseteq FactSet
  BY <1>1, ToSetFacts
<1> HIDE DEF q
<1>3. /\ after.kept \in Seq(FactSet) /\ Tokens(after.kept) <= Cap
      /\ ToSet(after.kept) \subseteq ToSet(q) /\ after.gone \subseteq ToSet(q)
      /\ (\E g \in after.gone : g.type = "error_code") => Codes(after.kept)
  BY <1>2, EnforceFacts
<1>4. PinNext(st, f) = [kept |-> after.kept, gone |-> st.gone \cup after.gone]
  BY DEF PinNext, q
<1> HIDE DEF after
<1>5. PinNext(st, f).kept = after.kept /\ PinNext(st, f).gone = st.gone \cup after.gone
  BY <1>4
<1>6. PinNext(st, f) \in Ground
  BY <1>1, <1>2, <1>3, <1>4 DEF Ground
<1> QED BY <1>2, <1>3, <1>5, <1>6

LEMMA PinsArePins ==
  ASSUME NEW kept \in Seq(FactSet), NEW new \in Seq(FactSet), NEW N \in Nat, N = Len(new)
  PROVE  /\ Pins(kept, new)[0] = NoGround(kept)
         /\ \A n \in 1..N : Pins(kept, new)[n] = PinNext(Pins(kept, new)[n - 1], new[n])
         /\ \A n \in 0..N : Pins(kept, new)[n] \in Ground
<1> DEFINE Eq(f) == f = [n \in 0..N |-> IF n = 0 THEN NoGround(kept) ELSE PinNext(f[n - 1], new[n])]
           S == [n \in 0..N |-> Ground]
           G == [n \in 1..N |-> [x \in Ground |-> PinNext(x, new[n])]]
<1>1. ASSUME NEW n \in 1..N
      PROVE  /\ n - 1 \in 0..N /\ n \in 0..N
             /\ \A x \in Ground : G[n][x] = PinNext(x, new[n]) /\ PinNext(x, new[n]) \in Ground
  <2>1. n - 1 \in 0..N /\ n \in 0..N /\ new[n] \in FactSet
    OBVIOUS
  <2> QED BY <2>1, PinNextFacts
<1>2. PICK h : Iteration(h, N, NoGround(kept), G, S)
  <2>1. StepsWithin(N, G, S)
    <3> HIDE DEF G
    <3> QED BY <1>1 DEF StepsWithin
  <2>2. NoGround(kept) \in S[0]
    BY DEF NoGround, Ground
  <2> HIDE DEF S, G
  <2> QED BY <2>1, <2>2, Iterates
<1>3. Eq(h) /\ \A n \in 0..N : h[n] \in Ground
  <2>0. \A n \in 0..N : h[n] \in Ground
    BY <1>2 DEF Iteration
  <2> HIDE DEF S, G
  <2>1. ASSUME NEW n \in 1..N PROVE h[n] = PinNext(h[n - 1], new[n])
    BY <1>1, <1>2, <2>0 DEF Iteration
  <2>2. \A n \in 0..N : n = 0 \/ n \in 1..N
    OBVIOUS
  <2>3. \A n \in 0..N : h[n] = IF n = 0 THEN NoGround(kept) ELSE PinNext(h[n - 1], new[n])
    BY <1>2, <2>1, <2>2 DEF Iteration
  <2>4. h = [n \in 0..N |-> h[n]]
    BY <1>2 DEF Iteration
  <2> QED BY <2>0, <2>3, <2>4
<1>4. Pins(kept, new) = CHOOSE f : Eq(f)
  BY DEF Pins, NoGround
<1>5. Eq(Pins(kept, new))
  <2> HIDE DEF Eq
  <2> QED BY <1>3, <1>4
<1>6. ASSUME NEW p, Eq(p)
      PROVE  p[0] = NoGround(kept) /\ \A n \in 1..N : p[n] = PinNext(p[n - 1], new[n])
  <2>1. \A n \in 1..N : n \in 0..N /\ n # 0
    OBVIOUS
  <2> QED BY <1>6, <2>1
<1>7. ASSUME NEW n \in 1..N, Pins(kept, new)[n - 1] \in S[n - 1] PROVE Pins(kept, new)[n] \in S[n]
  <2> HIDE DEF G, Eq
  <2> QED BY <1>1, <1>5, <1>6, <1>7
<1>8. Pins(kept, new)[0] \in S[0]
  <2>1. NoGround(kept) \in S[0]
    BY DEF NoGround, Ground
  <2> HIDE DEF S, Eq
  <2> QED BY <1>5, <1>6, <2>1
<1>9. \A n \in 0..N : Pins(kept, new)[n] \in S[n]
  <2> HIDE DEF S
  <2> QED BY <1>7, <1>8, Stays
<1> QED
  <2> HIDE DEF Eq
  <2> QED BY <1>5, <1>6, <1>9

(* The facts pinned fit the cap; and into an empty ground truth, facts by     *)
(* type leave no container, port or address once an error code had to go.    *)
LEMMA PinFacts ==
  ASSUME NEW kept \in Seq(FactSet), NEW new \in Seq(FactSet), Tokens(kept) <= Cap
  PROVE  /\ Pin(kept, new) \in Ground /\ Tokens(Pin(kept, new).kept) <= Cap
         /\ kept = <<>> /\ LateLast(new) /\ (\E g \in Pin(kept, new).gone : g.type = "error_code") =>
              \A f \in ToSet(Pin(kept, new).kept) : Late(f)
<1> DEFINE N == Len(new)
           pins == Pins(kept, new)
           From(n) == {new[i] : i \in 1..n}
           Ends(n, st) == (\E g \in st.gone : g.type = "error_code") =>
                            /\ \A f \in ToSet(st.kept) : Late(f)
                            /\ \E i \in 1..n : Late(new[i])
           Good(n, st) == /\ st \in Ground /\ Tokens(st.kept) <= Cap
                          /\ kept = <<>> /\ LateLast(new) =>
                               /\ ToSet(st.kept) \subseteq From(n) /\ st.gone \subseteq From(n) /\ Ends(n, st)
           S == [n \in 0..N |-> {st \in Ground : Good(n, st)}]
<1>1. N \in Nat /\ \A n \in 1..N : new[n] \in FactSet
  OBVIOUS
<1>2. /\ pins[0] = NoGround(kept)
      /\ \A n \in 1..N : pins[n] = PinNext(pins[n - 1], new[n])
      /\ \A n \in 0..N : pins[n] \in Ground
  BY PinsArePins
<1> HIDE DEF pins, N
<1>3. Good(0, pins[0])
  <2>1. pins[0].kept = kept /\ pins[0].gone = {}
    BY <1>2 DEF NoGround
  <2>2. kept = <<>> => ToSet(kept) = {}
    BY DEF ToSet
  <2>3. pins[0] \in Ground
    BY <1>1, <1>2
  <2> QED BY <2>1, <2>2, <2>3
<1>4. ASSUME NEW n \in 1..N, Good(n - 1, pins[n - 1]) PROVE Good(n, pins[n])
  <2> DEFINE st == pins[n - 1]
             f == new[n]
  <2>1. st \in Ground /\ f \in FactSet /\ pins[n] = PinNext(st, f)
    BY <1>1, <1>2, <1>4
  <2> HIDE DEF st, f
  <2>2. /\ pins[n] \in Ground /\ Tokens(pins[n].kept) <= Cap
        /\ ToSet(pins[n].kept) \subseteq ToSet(st.kept) \cup {f}
        /\ pins[n].gone \subseteq st.gone \cup ToSet(st.kept) \cup {f}
        /\ (\E g \in pins[n].gone : g \notin st.gone /\ g.type = "error_code") => Codes(pins[n].kept)
    BY <2>1, PinNextFacts
  <2>3. ASSUME kept = <<>>, LateLast(new)
        PROVE  ToSet(pins[n].kept) \subseteq From(n) /\ pins[n].gone \subseteq From(n) /\ Ends(n, pins[n])
    <3>1. From(n) = From(n - 1) \cup {f}
      <4>1. 1..n = 1..(n - 1) \cup {n}
        BY <1>1
      <4> QED BY <4>1 DEF f
    <3>2. ToSet(st.kept) \subseteq From(n - 1) /\ st.gone \subseteq From(n - 1) /\ Ends(n - 1, st)
      <4> HIDE DEF From, Ends
      <4> QED BY <1>4, <2>3 DEF st
    <3>3. ToSet(pins[n].kept) \subseteq From(n) /\ pins[n].gone \subseteq From(n)
      <4> HIDE DEF From
      <4> QED BY <2>2, <3>1, <3>2
    <3>4. ASSUME NEW g \in pins[n].gone, g.type = "error_code"
          PROVE  (\A x \in ToSet(pins[n].kept) : Late(x)) /\ \E i \in 1..n : Late(new[i])
      <4>1. CASE g \in st.gone
        <5>1. (\A x \in ToSet(st.kept) : Late(x)) /\ \E i \in 1..(n - 1) : Late(new[i])
          BY <3>2, <3>4, <4>1
        <5>2. PICK i \in 1..(n - 1) : Late(new[i])
          BY <5>1
        <5>3. i \in 1..n /\ i \in DOMAIN new /\ n \in DOMAIN new /\ i < n
          BY <1>1 DEF N
        <5>4. Late(f)
          BY <2>3, <5>2, <5>3 DEF LateLast, f
        <5> QED BY <2>2, <5>1, <5>2, <5>3, <5>4
      <4>2. CASE g \notin st.gone
        <5>1. Codes(pins[n].kept)
          BY <2>2, <3>4, <4>2
        <5>2. \A x \in ToSet(pins[n].kept) : Late(x)
          BY <5>1 DEF Codes, Late
        <5>3. PICK i \in 1..n : g = new[i]
          BY <3>3, <3>4
        <5> QED BY <3>4, <5>2, <5>3 DEF Late
      <4> QED BY <4>1, <4>2
    <3> QED BY <3>3, <3>4
  <2> HIDE DEF From, Ends
  <2> QED BY <2>2, <2>3
<1> HIDE DEF Good
<1>5. \A n \in 1..N : pins[n - 1] \in S[n - 1] => pins[n] \in S[n]
  <2>1. \A n \in 1..N : n - 1 \in 0..N /\ n \in 0..N
    BY <1>1
  <2> QED BY <1>2, <1>4, <2>1
<1>6. pins[0] \in S[0]
  BY <1>1, <1>2, <1>3
<1>7. \A n \in 0..N : pins[n] \in S[n]
  <2> HIDE DEF S
  <2> QED BY <1>1, <1>5, <1>6, Stays
<1>8. Good(N, pins[N]) /\ pins[N] = Pin(kept, new)
  <2>1. N \in 0..N
    BY <1>1
  <2>2. Good(N, pins[N])
    BY <1>7, <2>1
  <2> QED BY <2>2 DEF Pin, pins, N
<1> QED BY <1>8 DEF Good

-----------------------------------------------------------------------------
(* Observations and their compaction. *)

LEMMA SomeOfFacts ==
  ASSUME NEW q \in Seq(FactSet), LateLast(q), NEW p \in SomeOf(q)
  PROVE  p \in Seq(FactSet) /\ LateLast(p)
<1>1. PICK at \in UNION {[1..n -> DOMAIN q] : n \in 0..Len(q)} :
        p = [i \in DOMAIN at |-> q[at[i]]] /\ \A i, j \in DOMAIN at : i < j => at[i] < at[j]
  BY DEF SomeOf
<1>2. PICK n \in 0..Len(q) : at \in [1..n -> DOMAIN q]
  BY <1>1
<1>3. n \in Nat /\ DOMAIN q = 1..Len(q) /\ DOMAIN at = 1..n
  BY <1>2
<1>4. p \in [1..n -> FactSet]
  BY <1>1, <1>2, <1>3
<1>5. p \in Seq(FactSet)
  BY <1>3, <1>4
<1>6. ASSUME NEW i \in DOMAIN p, NEW j \in DOMAIN p, i < j, Late(p[i]) PROVE Late(p[j])
  <2>1. at[i] \in DOMAIN q /\ at[j] \in DOMAIN q /\ at[i] < at[j] /\ p[i] = q[at[i]] /\ p[j] = q[at[j]]
    BY <1>1, <1>2, <1>3, <1>6
  <2> QED BY <1>6, <2>1 DEF LateLast
<1> QED BY <1>5, <1>6 DEF LateLast

LEMMA FilteringFacts ==
  ASSUME NEW d \in TextSet, NEW e \in Filterings(d)
  PROVE  e \in TextSet
<1>1. d.sections \in Seq(Sections) /\ d.facts \in Seq(FactSet) /\ LateLast(d.facts)
  BY DEF TextSet
<1>2. PICK ss \in [DOMAIN d.sections -> Sections], ff \in SomeOf(d.facts) : e = [sections |-> ss, facts |-> ff]
  BY DEF Filterings
<1>3. ss \in Seq(Sections)
  <2>1. DOMAIN d.sections = 1..Len(d.sections) /\ Len(d.sections) \in Nat
    BY <1>1
  <2> QED BY <2>1
<1>4. ff \in Seq(FactSet) /\ LateLast(ff)
  BY <1>1, SomeOfFacts
<1> QED BY <1>2, <1>3, <1>4 DEF TextSet

LEMMA TextFacts ==
  ASSUME NEW d \in Texts
  PROVE  d \in TextSet
<1>1. PICK ss \in UNION {[1..n -> Sections] : n \in 0..MaxSections}, ff \in Facts :
        d = [sections |-> ss, facts |-> ff]
  BY DEF Texts
<1>2. ss \in Seq(Sections)
  <2>1. PICK n \in 0..MaxSections : ss \in [1..n -> Sections]
    BY <1>1
  <2>2. n \in Nat
    BY WindowAssumption
  <2> QED BY <2>1, <2>2
<1>3. ff \in Seq(FactSet)
  <2>1. PICK n \in 0..MaxFacts : ff \in [1..n -> FactSet]
    BY <1>1 DEF Facts, FactSet
  <2>2. n \in Nat
    BY WindowAssumption
  <2> QED BY <2>1, <2>2
<1>4. ASSUME NEW i \in DOMAIN ff, NEW j \in DOMAIN ff, i < j, Late(ff[i]) PROVE Late(ff[j])
  <2>1. PICK a \in DOMAIN FactType, b \in DOMAIN FactType :
          a <= b /\ FactType[a] = ff[i].type /\ FactType[b] = ff[j].type
    BY <1>1, <1>4 DEF Facts
  <2>2. a \in 1..5 /\ b \in 1..5
    BY DEF FactType
  <2>3. \A k \in 1..5 : FactType[k] \in {"error_code", "custom"} <=> k >= 4
    <3>1. \A k \in 1..5 : k \in {1, 2, 3, 4, 5}
      OBVIOUS
    <3> QED BY <3>1 DEF FactType
  <2> QED BY <1>4, <2>1, <2>2, <2>3 DEF Late
<1> QED BY <1>1, <1>2, <1>3, <1>4 DEF TextSet, LateLast

LEMMA ObservationFacts ==
  /\ \A i \in Nat : \A s \in Nat \X Nat \X Nat : \A level \in 1..3 : Observation(i, s, level) \in ObservationSet
  /\ \A o \in ObservationSet : \A level \in 1..3 : Cut(o, level) \in ObservationSet
  /\ \A d \in TextSet : /\ Observations(d) \in Seq(ObservationSet) /\ DOMAIN Observations(d) = DOMAIN d.sections
                        /\ \A i \in DOMAIN d.sections : Observations(d)[i] = Observation(i, d.sections[i], 1)
<1>1. ASSUME NEW i \in Nat, NEW s \in Nat \X Nat \X Nat, NEW level \in 1..3
      PROVE  Observation(i, s, level) \in ObservationSet
  <2>1. level = 1 \/ level = 2 \/ level = 3
    OBVIOUS
  <2>2. s[level] \in Nat
    BY <2>1
  <2> QED BY <2>2 DEF Observation, ObservationSet
<1>2. ASSUME NEW o \in ObservationSet, NEW level \in 1..3 PROVE Cut(o, level) \in ObservationSet
  <2>1. o.of \in Nat /\ o.s \in Nat \X Nat \X Nat
    BY DEF ObservationSet
  <2> QED BY <1>1, <2>1 DEF Cut
<1>3. ASSUME NEW d \in TextSet
      PROVE  /\ Observations(d) \in Seq(ObservationSet) /\ DOMAIN Observations(d) = DOMAIN d.sections
             /\ \A i \in DOMAIN d.sections : Observations(d)[i] = Observation(i, d.sections[i], 1)
  <2> DEFINE N == Len(d.sections)
  <2>1. N \in Nat /\ DOMAIN d.sections = 1..N /\ \A i \in 1..N : d.sections[i] \in Nat \X Nat \X Nat
    BY WindowAssumption DEF TextSet
  <2>2. Observations(d) = [i \in 1..N |-> Observation(i, d.sections[i], 1)]
    BY <2>1 DEF Observations
  <2> HIDE DEF N
  <2>3. \A i \in 1..N : Observation(i, d.sections[i], 1) \in ObservationSet
    BY <1>1, <2>1
  <2>4. Observations(d) \in [1..N -> ObservationSet]
    BY <2>2, <2>3
  <2> QED BY <2>1, <2>2, <2>4
<1> QED BY <1>1, <1>2, <1>3

LEMMA ObservationTokens ==
  ASSUME NEW q \in Seq(ObservationSet)
  PROVE  Tokens(q) \in Nat /\ (Len(q) = 0 => Tokens(q) = 0)
<1>1. \A i \in 1..Len(q) : q[i] \in ObservationSet
  OBVIOUS
<1>2. \A o \in ObservationSet : o.tokens \in Nat
  BY DEF ObservationSet
<1> QED BY <1>1, <1>2, TokensAreNaturals

LEMMA Tier2Facts ==
  ASSUME NEW q \in Seq(ObservationSet)
  PROVE  Tier2(q) \in Seq(ObservationSet)
<1>1. ASSUME NEW n PROVE CutFirst(q, n) \in Seq(ObservationSet)
  <2> DEFINE N == Len(q)
  <2>1. N \in Nat /\ DOMAIN q = 1..N /\ \A i \in 1..N : q[i] \in ObservationSet
    OBVIOUS
  <2> HIDE DEF N
  <2>2. \A i \in 1..N : (IF i <= n THEN Cut(q[i], 2) ELSE q[i]) \in ObservationSet
    BY <2>1, ObservationFacts
  <2>3. CutFirst(q, n) \in [1..N -> ObservationSet]
    BY <2>1, <2>2 DEF CutFirst
  <2> QED BY <2>1, <2>3
<1> QED BY <1>1 DEF Tier2

LEMMA Tier3Facts ==
  ASSUME NEW q \in Seq(ObservationSet)
  PROVE  /\ Tier3(q) \in Seq(ObservationSet)
         /\ q # <<>> => UnderBudget(Tier3(q)) \/ Incompressible(Tier3(q))
         /\ q = <<>> => Tier3(q) = <<>>
<1> DEFINE N == Len(q)
           lines == [i \in DOMAIN q |-> Cut(q[i], 3)]
           Drop(n) == SubSeq(lines, n + 1, N)
           enough == {n \in 0..(N - 1) : UnderBudget(Drop(n)) \/ n = N - 1}
           m == Smallest(enough)
<1>1. N \in Nat /\ DOMAIN q = 1..N /\ \A i \in 1..N : q[i] \in ObservationSet
  OBVIOUS
<1>2. CASE q = <<>>
  BY <1>2 DEF Tier3
<1>3. CASE q # <<>>
  <2>1. N > 0
    BY <1>3
  <2>2. Tier3(q) = Drop(m)
    BY <1>3 DEF Tier3
  <2> HIDE DEF N
  <2>3. lines \in Seq(ObservationSet) /\ Len(lines) = N
    <3>1. lines \in [1..N -> ObservationSet]
      BY <1>1, ObservationFacts
    <3> QED BY <1>1, <3>1
  <2>4. m \in enough
    <3>1. N - 1 \in enough /\ enough \subseteq Nat
      BY <1>1, <2>1
    <3> HIDE DEF enough
    <3> QED BY <3>1, SmallestIn
  <2>5. m \in 0..(N - 1) /\ (UnderBudget(Drop(m)) \/ m = N - 1)
    BY <2>4
  <2> HIDE DEF m, enough, lines
  <2>6. Drop(m) \in Seq(ObservationSet) /\ Len(Drop(m)) = N - m
    <3>1. m + 1 \in Int /\ N \in Int /\ \A i \in (m + 1)..N : lines[i] \in ObservationSet
      BY <1>1, <2>3, <2>5
    <3>2. Drop(m) \in Seq(ObservationSet) /\ Len(Drop(m)) = IF m + 1 <= N THEN N - (m + 1) + 1 ELSE 0
      BY <3>1, SubSeqProperties
    <3>3. m + 1 <= N /\ N - (m + 1) + 1 = N - m
      BY <1>1, <2>5
    <3> QED BY <3>2, <3>3
  <2>7. m = N - 1 => Incompressible(Drop(m))
    <3>1. lines[N] = Cut(q[N], 3)
      BY <1>1, <2>1 DEF lines
    <3>2. Cut(q[N], 3).of = 0 \/ Cut(q[N], 3).level = 3
      BY DEF Cut, Observation
    <3>3. ASSUME m = N - 1 PROVE Len(Drop(m)) = 1 /\ Drop(m)[1] = lines[N]
      <4>1. m + 1 = N /\ N \in 1..N /\ Len(Drop(m)) = 1
        BY <1>1, <2>1, <2>6, <3>3
      <4>2. Drop(m) = SubSeq(lines, N, N)
        BY <4>1
      <4>3. SubSeq(lines, N, N)[1] = lines[N]
        BY <1>1, <2>1, <2>3
      <4> QED BY <4>1, <4>2, <4>3
    <3> QED BY <3>1, <3>2, <3>3 DEF Incompressible
  <2> HIDE DEF Drop
  <2> QED BY <1>3, <2>2, <2>5, <2>6, <2>7
<1> QED BY <1>2, <1>3

-----------------------------------------------------------------------------
(* The invariant. *)

ContextTypeOK ==
  /\ path \in {"sequential", "parallel"} /\ raw \in TextSet /\ filtered \in TextSet
  /\ pc \in {"remembering", "filtering", "compacting", "summarizing", "prompting", "ended", "failed"}
  /\ facts \in Seq(FactSet) /\ obs \in Seq(ObservationSet) /\ memory \in Nat /\ fired \in BOOLEAN
  /\ snapshot \in SUBSET Seq(ObservationSet)
  /\ prompt \in [facts : Seq(FactSet), obs : Seq(ObservationSet)]
  /\ gone \in SUBSET FactSet

(* Before the discovery is ingested, and once what is left of it is reduced. *)
Unread == pc = "filtering" \/ (pc = "remembering" /\ path = "parallel")
Reduced == pc \in {"summarizing", "prompting", "ended"} \/ (pc = "remembering" /\ path = "sequential")

Budget == IF fired THEN UnderBudget(obs) \/ Incompressible(obs) ELSE Tokens(facts) + Tokens(obs) < Threshold
InFull == obs = Observations(filtered) \/ snapshot = {Observations(filtered)}
CodesLast == (\E f \in gone : f.type = "error_code") => \A f \in ToSet(facts) : Late(f)

ContextInv ==
  /\ ContextTypeOK
  /\ Tokens(facts) <= Cap
  /\ Unread => facts = <<>> /\ obs = <<>> /\ gone = {} /\ ~fired
  /\ pc = "compacting" => obs = Observations(filtered) /\ ~fired
  /\ Reduced => InFull
  /\ pc = "summarizing" => snapshot = {Observations(filtered)} /\ fired
  /\ Reduced /\ pc # "summarizing" => Budget
  /\ pc = "prompting" => path = "sequential"
  /\ path = "sequential" /\ pc \in {"remembering", "ended"} => prompt = [facts |-> facts, obs |-> obs]
  /\ pc # "failed" => CodesLast

LEMMA NoTokens == Tokens(<<>>) = 0 /\ 0 <= Cap
<1>1. <<>> \in Seq(FactSet) /\ Len(<<>>) = 0
  OBVIOUS
<1>2. Tokens(<<>>) = 0
  BY <1>1, FactTokensFacts
<1> QED BY <1>2, WindowAssumption

LEMMA TotalIsNatural ==
  ASSUME ContextTypeOK
  PROVE  /\ Tokens(facts) \in Nat /\ Tokens(obs) \in Nat /\ memory \in Nat
         /\ {Window, Threshold, Target, Cap} \subseteq Nat
         /\ Cap <= Target /\ Target <= Threshold /\ Threshold <= Window
  BY FactTokensFacts, ObservationTokens, WindowAssumption DEF ContextTypeOK

(* ingestDiscovery into an empty manager. *)
LEMMA IngestFacts ==
  ASSUME ContextTypeOK, Tokens(facts) <= Cap, NEW d \in TextSet, Ingest(d)
  PROVE  /\ facts' \in Seq(FactSet) /\ Tokens(facts') <= Cap /\ obs' \in Seq(ObservationSet)
         /\ gone' \in SUBSET FactSet /\ memory' = memory /\ fired' = fired
         /\ obs = <<>> => obs' = Observations(d)
         /\ facts = <<>> /\ gone = {} => CodesLast'
<1> DEFINE pinned == Pin(facts, d.facts)
<1>1. d.facts \in Seq(FactSet) /\ LateLast(d.facts) /\ Observations(d) \in Seq(ObservationSet)
  BY ObservationFacts DEF TextSet
<1>2. /\ pinned \in Ground /\ Tokens(pinned.kept) <= Cap
      /\ facts = <<>> /\ LateLast(d.facts) /\ (\E g \in pinned.gone : g.type = "error_code") =>
           \A f \in ToSet(pinned.kept) : Late(f)
  BY <1>1, PinFacts DEF ContextTypeOK
<1>3. facts' = pinned.kept /\ gone' = gone \cup pinned.gone /\ obs' = obs \o Observations(d)
      /\ memory' = memory /\ fired' = fired
  BY DEF Ingest
<1> HIDE DEF pinned
<1>4. pinned.kept \in Seq(FactSet) /\ pinned.gone \subseteq FactSet
  BY <1>2 DEF Ground
<1>5. obs' \in Seq(ObservationSet)
  BY <1>1, <1>3 DEF ContextTypeOK
<1>6. obs = <<>> => obs' = Observations(d)
  BY <1>1, <1>3
<1>7. facts = <<>> /\ gone = {} => CodesLast'
  BY <1>1, <1>2, <1>3 DEF CodesLast
<1> QED BY <1>2, <1>3, <1>4, <1>5, <1>6, <1>7 DEF ContextTypeOK

LEMMA ContextInitInv == ContextInit => ContextInv
<1> SUFFICES ASSUME ContextInit PROVE ContextInv
  OBVIOUS
<1>1. /\ path \in {"sequential", "parallel"} /\ raw \in TextSet /\ filtered = raw
      /\ facts = <<>> /\ obs = <<>> /\ memory = 0 /\ fired = FALSE /\ gone = {} /\ snapshot = {}
      /\ prompt = [facts |-> <<>>, obs |-> <<>>]
      /\ pc = IF path = "parallel" THEN "remembering" ELSE "filtering"
  BY TextFacts DEF ContextInit, NewManager
<1>2. <<>> \in Seq(FactSet) /\ <<>> \in Seq(ObservationSet) /\ Len(<<>>) = 0
  OBVIOUS
<1>3. ContextTypeOK
  BY <1>1, <1>2 DEF ContextTypeOK
<1>4. Tokens(facts) <= Cap
  BY <1>1, NoTokens
<1>5. ~Reduced /\ Unread
  BY <1>1 DEF Reduced, Unread
<1>6. CodesLast
  BY <1>1 DEF CodesLast
<1> QED BY <1>1, <1>3, <1>4, <1>5, <1>6 DEF ContextInv

LEMMA RememberStep == ASSUME ContextInv, Remember PROVE ContextInv'
<1> USE DEF ContextInv
<1>1. /\ pc = "remembering" /\ memory' \in MemoryTokens
      /\ path' = path /\ raw' = raw /\ filtered' = filtered /\ facts' = facts /\ obs' = obs
      /\ fired' = fired /\ snapshot' = snapshot /\ gone' = gone
  BY DEF Remember, discovery
<1>2. ContextTypeOK' /\ Tokens(facts') <= Cap
  <2>1. memory' \in Nat
    BY <1>1, WindowAssumption
  <2>2. prompt' \in [facts : Seq(FactSet), obs : Seq(ObservationSet)]
    <3>1. CASE path = "parallel"
      <4>1. prompt' = [facts |-> Pin(<<>>, raw.facts).kept, obs |-> Observations(raw)]
        BY <3>1 DEF Remember
      <4>2. <<>> \in Seq(FactSet) /\ Len(<<>>) = 0 /\ raw.facts \in Seq(FactSet) /\ Cap \in Nat
        BY WindowAssumption DEF ContextTypeOK, TextSet
      <4>3. Tokens(<<>>) <= Cap
        BY NoTokens
      <4>4. Pin(<<>>, raw.facts).kept \in Seq(FactSet)
        BY <4>2, <4>3, PinFacts DEF Ground
      <4>5. Observations(raw) \in Seq(ObservationSet)
        BY ObservationFacts DEF ContextTypeOK
      <4> QED BY <4>1, <4>4, <4>5
    <3>2. CASE path # "parallel"
      BY <3>2 DEF Remember, ContextTypeOK
    <3> QED BY <3>1, <3>2
  <2>3. pc' \in {"filtering", "ended"}
    BY DEF Remember
  <2> QED BY <1>1, <2>1, <2>2, <2>3 DEF ContextTypeOK
<1>3. CASE path = "parallel"
  <2>1. pc' = "filtering" /\ Unread
    BY <1>1, <1>3 DEF Remember, Unread
  <2>2. ~Reduced'
    BY <1>1, <1>3, <2>1 DEF Reduced
  <2>3. CodesLast'
    BY <1>1 DEF CodesLast
  <2> QED BY <1>1, <1>2, <1>3, <2>1, <2>2, <2>3
<1>4. CASE path = "sequential"
  <2>1. pc' = "ended" /\ prompt' = prompt /\ Reduced /\ ~Unread'
    BY <1>1, <1>4 DEF Remember, Reduced, Unread
  <2>2. InFull' /\ Budget' /\ CodesLast'
    BY <1>1, <2>1 DEF InFull, Budget, UnderBudget, Incompressible, CodesLast
  <2> QED BY <1>1, <1>2, <1>4, <2>1, <2>2
<1> QED BY <1>3, <1>4 DEF ContextTypeOK

LEMMA FilterStep == ASSUME ContextInv, Filter PROVE ContextInv'
<1> USE DEF ContextInv
<1>1. PICK d \in Filterings(raw) : filtered' = d /\ Ingest(d)
  BY DEF Filter
<1>2. /\ pc = "filtering" /\ pc' = "compacting" /\ path' = path /\ raw' = raw
      /\ snapshot' = snapshot /\ prompt' = prompt
  BY DEF Filter
<1>3. d \in TextSet
  BY FilteringFacts DEF ContextTypeOK
<1>4. facts = <<>> /\ obs = <<>> /\ gone = {} /\ ~fired
  BY <1>2 DEF Unread
<1>5. /\ facts' \in Seq(FactSet) /\ Tokens(facts') <= Cap /\ obs' \in Seq(ObservationSet)
      /\ gone' \in SUBSET FactSet /\ memory' = memory /\ fired' = fired
      /\ obs' = Observations(d) /\ CodesLast'
  BY <1>1, <1>3, <1>4, IngestFacts
<1>6. ContextTypeOK'
  BY <1>1, <1>2, <1>3, <1>5 DEF ContextTypeOK
<1>7. ~Unread' /\ ~Reduced'
  BY <1>2 DEF Unread, Reduced
<1>8. (obs = Observations(filtered))'
  BY <1>1, <1>5
<1> QED BY <1>2, <1>4, <1>5, <1>6, <1>7, <1>8

LEMMA FilterThrowsStep == ASSUME ContextInv, FilterThrows PROVE ContextInv'
<1> USE DEF ContextInv
<1>1. /\ pc = "filtering" /\ pc' = "failed" /\ path' = path /\ raw' = raw /\ filtered' = filtered
      /\ snapshot' = snapshot /\ prompt' = prompt
  BY DEF FilterThrows, discovery
<1>2. ~Unread' /\ ~Reduced'
  BY <1>1 DEF Unread, Reduced
<1>3. ContextTypeOK' /\ Tokens(facts') <= Cap
  <2>1. CASE path = "parallel"
    <3>1. Ingest(raw) /\ raw \in TextSet
      BY <2>1 DEF FilterThrows, ContextTypeOK
    <3> QED BY <1>1, <3>1, IngestFacts DEF ContextTypeOK
  <2>2. CASE path # "parallel"
    BY <1>1, <2>2 DEF FilterThrows, manager, ContextTypeOK
  <2> QED BY <2>1, <2>2
<1> QED BY <1>1, <1>2, <1>3

LEMMA SnapshotThrowsStep == ASSUME ContextInv, SnapshotThrows PROVE ContextInv'
<1> USE DEF ContextInv
<1>1. /\ pc' = "failed" /\ path' = path /\ raw' = raw /\ filtered' = filtered /\ memory' = memory
      /\ snapshot' = snapshot /\ prompt' = prompt /\ fired' = TRUE
  BY DEF SnapshotThrows, discovery
<1>2. ~Unread' /\ ~Reduced'
  BY <1>1 DEF Unread, Reduced
<1>3. /\ facts' \in Seq(FactSet) /\ Tokens(facts') <= Cap /\ obs' \in Seq(ObservationSet)
      /\ gone' \in SUBSET FactSet
  <2>1. CASE path = "parallel"
    <3> DEFINE pinned == Pin(facts, raw.facts)
    <3>1. facts' = pinned.kept /\ gone' = gone \cup pinned.gone /\ obs' = obs \o Observations(raw)
      BY <2>1 DEF SnapshotThrows
    <3>2. raw.facts \in Seq(FactSet) /\ Observations(raw) \in Seq(ObservationSet)
      BY ObservationFacts DEF ContextTypeOK, TextSet
    <3>3. pinned \in Ground /\ Tokens(pinned.kept) <= Cap
      BY <3>2, PinFacts DEF ContextTypeOK
    <3> HIDE DEF pinned
    <3>4. pinned.kept \in Seq(FactSet) /\ pinned.gone \subseteq FactSet
      BY <3>3 DEF Ground
    <3>5. obs \o Observations(raw) \in Seq(ObservationSet)
      BY <3>2 DEF ContextTypeOK
    <3> QED BY <3>1, <3>3, <3>4, <3>5 DEF ContextTypeOK
  <2>2. CASE path # "parallel"
    BY <2>2 DEF SnapshotThrows, ContextTypeOK
  <2> QED BY <2>1, <2>2
<1>4. ContextTypeOK'
  BY <1>1, <1>3 DEF ContextTypeOK
<1> QED BY <1>1, <1>2, <1>3, <1>4

(* A step of maybeCompact or after it that leaves ground truth alone. *)
LEMMA ReduceStep ==
  ASSUME ContextInv, pc \in {"compacting", "summarizing", "prompting"}, ContextTypeOK', InFull',
         pc' \in {"summarizing", "prompting", "ended"} \/ (pc' = "remembering" /\ path = "sequential"),
         pc' # "summarizing" => Budget',
         pc' = "summarizing" => (snapshot = {Observations(filtered)} /\ fired)',
         pc' = "prompting" => path = "sequential",
         path = "sequential" /\ pc' \in {"remembering", "ended"} =>
           prompt' = [facts |-> facts', obs |-> obs'],
         UNCHANGED <<path, raw, filtered, facts, memory, gone>>
  PROVE  ContextInv'
<1>1. ~Unread' /\ pc' # "compacting"
  BY DEF Unread
<1>2. CodesLast'
  BY DEF ContextInv, CodesLast
<1> QED BY <1>1, <1>2 DEF ContextInv

LEMMA NotYetStep == ASSUME ContextInv, NotYet PROVE ContextInv'
<1>1. /\ pc = "compacting" /\ ContextTotal < Threshold /\ pc' = Then
      /\ path' = path /\ raw' = raw /\ filtered' = filtered /\ snapshot' = snapshot /\ prompt' = prompt
      /\ facts' = facts /\ obs' = obs /\ memory' = memory /\ fired' = fired /\ gone' = gone
  BY DEF NotYet, discovery, manager
<1>2. ContextTypeOK /\ obs = Observations(filtered) /\ ~fired
  BY <1>1 DEF ContextInv
<1>3. pc' = IF path = "parallel" THEN "ended" ELSE "prompting"
  BY <1>1 DEF Then
<1>4. ContextTypeOK' /\ InFull'
  BY <1>1, <1>2, <1>3 DEF ContextTypeOK, InFull
<1>5. Budget'
  <2>1. Tokens(facts) + Tokens(obs) < Threshold
    BY <1>1, <1>2, TotalIsNatural DEF ContextTotal
  <2> QED BY <1>1, <1>2, <2>1 DEF Budget
<1> QED BY <1>1, <1>2, <1>3, <1>4, <1>5, ReduceStep DEF ContextTypeOK

LEMMA CompactStep == ASSUME ContextInv, Compact PROVE ContextInv'
<1> DEFINE left == IF UnderBudget(obs) THEN obs ELSE Tier2(obs)
<1>1. /\ pc = "compacting" /\ fired' = TRUE /\ snapshot' = {obs} /\ obs' = left
      /\ pc' = IF UnderBudget(left) THEN Then ELSE "summarizing"
      /\ path' = path /\ raw' = raw /\ filtered' = filtered /\ prompt' = prompt
      /\ facts' = facts /\ memory' = memory /\ gone' = gone
  BY DEF Compact, discovery
<1>2. ContextTypeOK /\ obs = Observations(filtered)
  BY <1>1 DEF ContextInv
<1>3. left \in Seq(ObservationSet)
  BY <1>2, Tier2Facts DEF ContextTypeOK
<1> HIDE DEF left
<1>4. /\ pc' \in {"summarizing", "prompting", "ended"}
      /\ pc' = "prompting" => path # "parallel"
      /\ pc' = "ended" => path = "parallel"
      /\ pc' # "summarizing" => UnderBudget(left)
  BY <1>1 DEF Then
<1>5. ContextTypeOK' /\ InFull'
  BY <1>1, <1>2, <1>3, <1>4 DEF ContextTypeOK, InFull
<1>6. pc' # "summarizing" => Budget'
  BY <1>1, <1>4 DEF Budget, UnderBudget, Incompressible
<1>7. (snapshot = {Observations(filtered)} /\ fired)'
  BY <1>1, <1>2
<1> QED BY <1>1, <1>2, <1>4, <1>5, <1>6, <1>7, ReduceStep DEF ContextTypeOK

(* Tier 3, by the worker model or without it. *)
LEMMA ReducedStep ==
  ASSUME ContextInv, pc = "summarizing", pc' = Then, obs' \in Seq(ObservationSet),
         UnderBudget(obs') \/ Incompressible(obs'),
         UNCHANGED <<path, discovery, facts, memory, fired, snapshot, prompt, gone>>
  PROVE  ContextInv'
<1>1. /\ path' = path /\ raw' = raw /\ filtered' = filtered /\ snapshot' = snapshot /\ prompt' = prompt
      /\ facts' = facts /\ memory' = memory /\ fired' = fired /\ gone' = gone
  BY DEF discovery
<1>2. ContextTypeOK /\ InFull
  BY DEF ContextInv, Reduced
<1>3. /\ pc' \in {"prompting", "ended"}
      /\ pc' = "prompting" => path # "parallel"
      /\ pc' = "ended" => path = "parallel"
  BY DEF Then
<1>4. snapshot = {Observations(filtered)} /\ fired
  BY DEF ContextInv
<1>5. ContextTypeOK' /\ InFull'
  BY <1>1, <1>2, <1>3, <1>4 DEF ContextTypeOK, InFull
<1>6. Budget'
  BY <1>1, <1>4 DEF Budget, UnderBudget, Incompressible
<1> QED BY <1>1, <1>2, <1>3, <1>5, <1>6, ReduceStep DEF ContextTypeOK

LEMMA SummarizedStep == ASSUME ContextInv, Summarized PROVE ContextInv'
<1>1. PICK n \in SummaryTokens : obs' = <<[of |-> 0, level |-> 1, tokens |-> n, s |-> <<n, n, n>>]>>
  BY DEF Summarized
<1>2. n \in Nat
  BY WindowAssumption
<1>3. [of |-> 0, level |-> 1, tokens |-> n, s |-> <<n, n, n>>] \in ObservationSet
  BY <1>2 DEF ObservationSet
<1>4. obs' \in Seq(ObservationSet) /\ Incompressible(obs')
  BY <1>1, <1>3 DEF Incompressible
<1> QED BY <1>4, ReducedStep DEF Summarized

LEMMA NotSummarizedStep == ASSUME ContextInv, NotSummarized PROVE ContextInv'
<1>1. obs \in Seq(ObservationSet) /\ ContextTypeOK /\ Tokens(facts) <= Cap
  BY DEF ContextInv, ContextTypeOK
<1>2. obs' = Tier3(obs)
  BY DEF NotSummarized
<1>3. obs' \in Seq(ObservationSet) /\ (UnderBudget(obs') \/ Incompressible(obs'))
  <2>1. CASE obs = <<>>
    <3>1. obs' = <<>>
      BY <1>1, <1>2, <2>1, Tier3Facts
    <3>2. Tokens(obs') = 0
      BY <3>1, NoTokens
    <3>3. Tokens(obs') + Tokens(facts) <= Target
      BY <1>1, <3>2, TotalIsNatural
    <3> QED BY <3>1, <3>3 DEF UnderBudget
  <2>2. CASE obs # <<>>
    BY <1>1, <1>2, <2>2, Tier3Facts
  <2> QED BY <2>1, <2>2
<1> QED BY <1>3, ReducedStep DEF NotSummarized

LEMMA BuildPromptStep == ASSUME ContextInv, BuildPrompt PROVE ContextInv'
<1>1. /\ pc = "prompting" /\ prompt' = [facts |-> facts, obs |-> obs] /\ pc' = "remembering"
      /\ path' = path /\ raw' = raw /\ filtered' = filtered /\ snapshot' = snapshot
      /\ facts' = facts /\ obs' = obs /\ memory' = memory /\ fired' = fired /\ gone' = gone
  BY DEF BuildPrompt, discovery, manager
<1>2. ContextTypeOK /\ path = "sequential" /\ InFull /\ Budget
  BY <1>1 DEF ContextInv, Reduced
<1>3. ContextTypeOK'
  BY <1>1, <1>2 DEF ContextTypeOK
<1>4. InFull' /\ Budget'
  BY <1>1, <1>2 DEF InFull, Budget, UnderBudget, Incompressible
<1> QED BY <1>1, <1>2, <1>3, <1>4, ReduceStep

LEMMA ContextInvariance == ContextSpec => []ContextInv
<1>1. ContextInv /\ [ContextNext]_contextVars => ContextInv'
  <2>1. ASSUME ContextInv, UNCHANGED contextVars PROVE ContextInv'
    <3>1. /\ path' = path /\ raw' = raw /\ filtered' = filtered /\ pc' = pc /\ facts' = facts
          /\ obs' = obs /\ memory' = memory /\ fired' = fired /\ snapshot' = snapshot
          /\ prompt' = prompt /\ gone' = gone
      BY <2>1 DEF contextVars, discovery, manager
    <3>2. ContextTypeOK' /\ CodesLast' = CodesLast /\ Unread' = Unread /\ Reduced' = Reduced
      BY <2>1, <3>1 DEF ContextInv, ContextTypeOK, CodesLast, Unread, Reduced
    <3>3. InFull' = InFull /\ Budget' = Budget
      BY <3>1 DEF InFull, Budget, UnderBudget, Incompressible
    <3> QED BY <2>1, <3>1, <3>2, <3>3 DEF ContextInv
  <2>2. ASSUME ContextInv, ContextNext PROVE ContextInv'
    BY <2>2, RememberStep, FilterStep, FilterThrowsStep, NotYetStep, CompactStep, SnapshotThrowsStep,
       SummarizedStep, NotSummarizedStep, BuildPromptStep DEF ContextNext
  <2> QED BY <2>1, <2>2
<1> QED BY <1>1, ContextInitInv, PTL DEF ContextSpec

-----------------------------------------------------------------------------
(* Facts, observations and snapshots are what they are taken for: no loop of   *)
(* enforceCapacity, add or tieredEviction leaves its list (context/*.ts).      *)
THEOREM ContextTypeCorrect == ContextSpec => []ContextTypeOK
  BY ContextInvariance, PTL DEF ContextInv

(* However long the texts and however they are cut or summarized, a compaction *)
(* goes on until its target is met or one text is left that nothing shortens,  *)
(* and the sequential path's prompt is built from that (maybeCompact,          *)
(* tieredEviction, buildContext).                                            *)
THEOREM CompactionGoesFarEnough == ContextSpec => []CompactionIsEnough
<1>1. ContextInv => CompactionIsEnough
  <2> SUFFICES ASSUME ContextInv PROVE CompactionIsEnough
    OBVIOUS
  <2>1. ContextTypeOK
    BY DEF ContextInv
  <2>2. ASSUME Budget PROVE Compacted(facts, obs)
    <3>1. UnderBudget(obs) => Tokens(facts) + Tokens(obs) <= Target
      BY <2>1, TotalIsNatural DEF UnderBudget
    <3> QED BY <2>2, <3>1 DEF Budget, Compacted
  <2>3. pc \in {"prompting", "ended"} => Compacted(facts, obs)
    BY <2>2 DEF ContextInv, Reduced
  <2>4. ASSUME path = "sequential", pc \in {"remembering", "ended"}
        PROVE  Compacted(prompt.facts, prompt.obs)
    <3>1. prompt.facts = facts /\ prompt.obs = obs
      BY <2>4 DEF ContextInv
    <3>2. Compacted(facts, obs)
      BY <2>2, <2>4 DEF ContextInv, Reduced
    <3> QED BY <3>1, <3>2
  <2> QED BY <2>3, <2>4 DEF CompactionIsEnough
<1> QED BY <1>1, ContextInvariance, PTL

(* Every section that compaction cuts or drops is in the snapshot as it was    *)
(* (saveSnapshot before tieredEviction).                                     *)
THEOREM EvictedTextsAreSaved == ContextSpec => []EvictedIsSaved
<1>1. ContextInv => EvictedIsSaved
  <2> SUFFICES ASSUME ContextInv, pc # "failed", pc \notin {"remembering", "filtering", "compacting"},
                      NEW i \in DOMAIN filtered.sections,
                      NEW whole, whole = Observation(i, filtered.sections[i], 1)
               PROVE  whole \in ToSet(obs) \/ \E kept \in snapshot : whole \in ToSet(kept)
    BY DEF EvictedIsSaved
  <2>1. InFull /\ filtered \in TextSet
    BY DEF ContextInv, ContextTypeOK, Reduced
  <2>2. i \in DOMAIN Observations(filtered) /\ Observations(filtered)[i] = whole
    BY <2>1, ObservationFacts
  <2>3. whole \in ToSet(Observations(filtered))
    BY <2>2 DEF ToSet
  <2> QED BY <2>1, <2>3 DEF InFull
<1> QED BY <1>1, ContextInvariance, PTL

(* Ground truth gives up an error code only when no container, port or address *)
(* is left in it (enforceCapacity with EVICTION_PRIORITY, over the order in     *)
(* which extractGroundTruth and parseExplicitPins find the facts).             *)
THEOREM ErrorCodesGoLast == ContextSpec => []ErrorCodesLast
<1>1. ContextInv => ErrorCodesLast
  BY DEF ContextInv, CodesLast, Late, ErrorCodesLast
<1> QED BY <1>1, ContextInvariance, PTL
=============================================================================
