----------------------- MODULE SightingTimelineProofs ------------------------
(***************************************************************************)
(* What the persistence worker writes INTO a sighting: its columns and its *)
(* timeline, proved for every answer enrichment may give, every number of  *)
(* aircraft, failures, crashes and restarts (sightings/worker.py, state.py,*)
(* repository.py).                                                         *)
(*                                                                         *)
(* PersistenceWorkerProofs says which row each accumulator owns; here that *)
(* row and the accumulator are compared.  Three facts are carried, each    *)
(* for memory and table and, while a transaction is open, for memory and   *)
(* the transaction:                                                        *)
(*   - the row's severity never exceeds the accumulator's (SeverityInv), so*)
(*     writing the accumulator never lowers a row, apply_* inside a cycle  *)
(*     included;                                                           *)
(*   - the row's events followed by the queued ones are a timeline whose   *)
(*     severities rise to the accumulator's (MemoryStory);                 *)
(*   - an accumulator that is not dirty has been written (CleanMemory).    *)
(* The last two need apply_* to stay out of a committing cycle: the run    *)
(* SeverityEventTorn shows what becomes of a row otherwise.                *)
(*                                                                         *)
(* Last come the airframe's totals (FrameInv): the number of its sightings *)
(* and the sum of their durations, in the tables and in the transaction.   *)
(***************************************************************************)
EXTENDS PersistenceWorkerProofs

Newest(h) == h[Len(h)]
Drafting == pc \in {"written", "closing"}

\* Memory and a committed row speak of the same sighting.
Kept(a) == a \in Tracked /\ (Acc(a).sid # 0 \/ pc = "committed")

\* No committed severity exceeds what memory holds, and none that an open
\* transaction is about to replace exceeds its replacement.
SeverityMemory == \A a \in Aircraft :
  Kept(a) => Newest(rows[a]).cols["severity"] <= Acc(a).cols["severity"]
SeverityDraft == Drafting => \A a \in Aircraft :
  /\ a \in Tracked => Newest(work.rows[a]).cols["severity"] <= Acc(a).cols["severity"]
  /\ \A i \in DOMAIN rows[a] :
       rows[a][i].cols["severity"] <= work.rows[a][i].cols["severity"]
SeverityInv == SeverityMemory /\ SeverityDraft
-----------------------------------------------------------------------------
\* Every column holds a number.
LEMMA SeverityType ==
  /\ \A c \in Columns : c["severity"] \in Nat
  /\ \A s \in Accs : s.cols \in Columns /\ s.cols["severity"] \in Nat
  /\ \A r \in Rows : r.cols \in Columns /\ r.cols["severity"] \in Nat /\ r.events \in Timelines
<1>1. \A c \in Columns : c["severity"] \in Nat
  BY DEF Columns, Column
<1>2. \A s \in Accs : s.cols \in Columns
  BY DEF Accs
<1>3. \A r \in Rows : r.cols \in Columns /\ r.events \in Timelines
  BY DEF Rows, Timelines
<1>4. QED
  BY <1>1, <1>2, <1>3

\* The row an accumulator speaks of is the newest of its aircraft (_resolved).
LEMMA OwnsNewest ==
  ASSUME WorkerInv, NEW a \in Aircraft, a \in Tracked
  PROVE  /\ Acc(a) \in Accs
         /\ Kept(a) => /\ rows[a] \in Seq(Rows) /\ Len(rows[a]) \in DOMAIN rows[a]
                       /\ Newest(rows[a]) \in Rows
         /\ Acc(a).sid # 0 => Acc(a).sid = Len(rows[a])
<1>1. Acc(a) \in Accs /\ MemoryOf(a) /\ rows[a] \in Seq(Rows)
  BY AccOf DEF WorkerInv, MemoryInv, TypeOK
<1>2. pc # "down"
  BY DEF WorkerInv, StageInv, PoweredOff, Tracked, HasActive, HasPending
<1>3. CASE pc = "committed"
  <2>1. JustWritten(a)
    BY <1>3 DEF WorkerInv, OwnerInv, OwnerOf
  <2>2. rows[a] # <<>> /\ (Acc(a).sid # 0 => Acc(a).sid = Len(rows[a]))
    BY <2>1 DEF JustWritten
  <2>3. Len(rows[a]) \in DOMAIN rows[a]
    BY <1>1, <2>2
  <2>4. QED
    BY <1>1, <2>2, <2>3 DEF Newest
<1>4. CASE pc # "committed"
  <2>1. OwnedBy(a)
    <3>1. pc = "recover" => HasPending(a) /\ InRecovery(a)
      BY Quiet
    <3>2. CASE pc = "recover"
      BY <3>1, <3>2 DEF InRecovery
    <3>3. CASE pc # "recover"
      BY <1>2, <1>4, <3>3 DEF WorkerInv, OwnerInv, OwnerOf
    <3>4. QED
      BY <3>2, <3>3
  <2>2. Acc(a).sid # 0 => Acc(a).sid = Len(rows[a]) /\ rows[a] # <<>>
    BY <2>1 DEF OwnedBy, LastOpen
  <2>3. Acc(a).sid # 0 => Len(rows[a]) \in DOMAIN rows[a]
    BY <1>1, <2>2
  <2>4. QED
    BY <1>1, <1>4, <2>2, <2>3 DEF Kept, Newest
<1>5. QED
  BY <1>3, <1>4

\* While a transaction is open it shows a row for every accumulator.
LEMMA DraftHasNewest ==
  ASSUME WorkerInv, Drafting, NEW a \in Aircraft
  PROVE  /\ work.rows[a] \in Seq(Rows) /\ DOMAIN work.rows[a] = 1..Len(work.rows[a])
         /\ Len(work.rows[a]) \in Nat
         /\ a \in Tracked => /\ Len(work.rows[a]) \in DOMAIN work.rows[a]
                             /\ Newest(work.rows[a]) \in Rows
         /\ DOMAIN rows[a] \subseteq DOMAIN work.rows[a]
         /\ rows[a] \in Seq(Rows)
<1>1. /\ work.rows[a] \in Seq(Rows) /\ rows[a] \in Seq(Rows)
      /\ Len(rows[a]) \in Nat /\ DOMAIN rows[a] = 1..Len(rows[a])
      /\ Len(work.rows[a]) \in Nat /\ DOMAIN work.rows[a] = 1..Len(work.rows[a])
  BY DEF WorkerInv, TypeOK
<1>2. Len(work.rows[a]) = IF a \in cycle.opens THEN Len(rows[a]) + 1 ELSE Len(rows[a])
  BY DEF Drafting, WorkerInv, WorkInv, WorkOf
<1>3. a \in Tracked => Len(work.rows[a]) # 0
  <2>1. a \in Tracked => a \in cycle.opens \/ Acc(a).sid # 0
    BY DEF Drafting, WorkerInv, CycleInv, Decided, Committing
  <2>2. a \in Tracked /\ Acc(a).sid # 0 => Len(rows[a]) \in DOMAIN rows[a]
    BY OwnsNewest DEF Kept
  <2>3. QED
    BY <1>1, <1>2, <2>1, <2>2
<1>4. QED
  BY <1>1, <1>2, <1>3 DEF Newest

\* What a step leaves in memory is an accumulator again.
LEMMA NextAcc ==
  ASSUME TypeOK', NEW a \in Aircraft, a \in Tracked'
  PROVE  Acc(a)' \in Accs
BY DEF TypeOK, Tracked, Acc, HasActive, HasPending

\* A step that only raises severities in memory.
LEMMA SeverityRises ==
  ASSUME WorkerInv, WorkerInv', SeverityInv, UNCHANGED <<rows, work, pc>>,
         \A a \in Aircraft : SameSighting(a) /\
           (a \in Tracked => Acc(a).cols["severity"] <= Acc(a)'.cols["severity"])
  PROVE  SeverityInv'
<1>1. ASSUME NEW a \in Aircraft, Kept(a)'
      PROVE  Newest(rows[a]).cols["severity"] <= Acc(a)'.cols["severity"]
  <2>1. Kept(a) /\ a \in Tracked /\ a \in Tracked'
    BY <1>1 DEF Kept, SameSighting
  <2>2. Newest(rows[a]) \in Rows /\ Acc(a) \in Accs /\ Acc(a)' \in Accs
    BY <2>1, OwnsNewest, NextAcc DEF WorkerInv
  <2>3. Newest(rows[a]).cols["severity"] <= Acc(a).cols["severity"]
    BY <2>1 DEF SeverityInv, SeverityMemory
  <2>4. QED
    BY <2>1, <2>2, <2>3, SeverityType
<1>2. ASSUME NEW a \in Aircraft, Drafting, a \in Tracked
      PROVE  Newest(work.rows[a]).cols["severity"] <= Acc(a)'.cols["severity"]
  <2>1. Newest(work.rows[a]) \in Rows /\ Acc(a) \in Accs
    BY <1>2, OwnsNewest, DraftHasNewest
  <2>2. a \in Tracked' /\ Acc(a)' \in Accs
    BY <1>2, NextAcc DEF SameSighting, WorkerInv
  <2>3. QED
    BY <1>2, <2>1, <2>2, SeverityType DEF SeverityInv, SeverityDraft
<1>3. SeverityMemory'
  BY <1>1 DEF SeverityMemory, Newest
<1>4. SeverityDraft'
  BY <1>2 DEF SeverityInv, SeverityDraft, Newest, Drafting, SameSighting
<1>5. QED
  BY <1>3, <1>4 DEF SeverityInv

\* A step between two stages that leaves memory and tables alone.
Settled == /\ UNCHANGED <<active, pending, rows>> /\ ~Drafting'
           /\ pc # "committed" /\ pc' # "committed"
\* The worker's steps outside a transaction that leave rows and accumulators alone.
LEMMA SettledSteps ==
  ASSUME WorkerInv, [CommitIsNoted]_vars,
         Drain \/ Prepare \/ CycleFails \/ EstablishT0 \/ EstablishT0Fails \/ Stop \/ Recovered
  PROVE  Settled
<1>1. Stop => pc # "committed"
  BY DEF CommitIsNoted, Stop, vars, memVars
<1>2. QED
  BY <1>1, EndOfCycleIs DEF Settled, Drafting, Drain, Prepare, CycleFails, EstablishT0, EstablishT0Fails,
                            Stop, Recovered, dbVars

\* A step that leaves the worker alone altogether.
Aside == UNCHANGED <<active, pending, rows, work, cycle, pc>>
\* Steps that are not the worker's.
LEMMA AsideSteps ==
  ASSUME Clock \/ LiveStoreActs \/ UNCHANGED vars
  PROVE  Aside
BY DEF Aside, Clock, LiveStoreActs, vars, memVars, dbVars

\* start() takes an adopted sighting's values from its row.
LEMMA StartMemory ==
  ASSUME WorkerInv, Start, NEW a \in Aircraft, a \in Tracked'
  PROVE  /\ rows[a] \in Seq(Rows) /\ Len(rows[a]) \in DOMAIN rows[a]
         /\ Acc(a)'.sid = Len(rows[a])
         /\ Acc(a)'.cols = Newest(rows[a]).cols /\ Acc(a)'.events = <<>>
<1> DEFINE n == Len(rows[a])
           s == Rehydrated(a, n, "gap_timeout")
<1>1. active'[a] = NoAcc
  BY DEF Start, WorkerInv, StageInv, PoweredOff
<1>2. pending'[a] = IF LastOpen(rows[a]) /\ ~Stale(a, n) THEN s ELSE NoAcc
  BY StartEffect
<1>3. LastOpen(rows[a]) /\ pending'[a] = s
  BY <1>1, <1>2 DEF Tracked, HasActive, HasPending
<1>4. TypeOK /\ rows[a] \in Seq(Rows) /\ n \in DOMAIN rows[a]
  BY <1>3 DEF LastOpen, WorkerInv, TypeOK
<1>5. s.cols = rows[a][n].cols /\ s.events = <<>> /\ s.sid = n
  BY <1>4, RehydratedIs
<1>6. Acc(a)' = s
  BY <1>1, <1>3 DEF Acc, HasActive
<1>7. QED
  BY <1>4, <1>5, <1>6 DEF Newest

\* So does a sighting recovery failed to close, and no other is touched.
LEMMA RecoverFailsMemory ==
  ASSUME WorkerInv, NEW a, NEW i, <<a, i>> \in toRecover, RecoverFails(a, i)
  PROVE  /\ a \in Aircraft /\ rows[a] \in Seq(Rows) /\ Len(rows[a]) \in DOMAIN rows[a]
         /\ a \in Tracked' /\ Acc(a)'.sid = Len(rows[a])
         /\ Acc(a)'.cols = Newest(rows[a]).cols /\ Acc(a)'.events = <<>>
         /\ \A x \in Aircraft : x # a => SameSighting(x) /\ Acc(x)' = Acc(x)
<1> DEFINE s == Rehydrated(a, i, "shutdown_recovery")
<1>1. /\ pc = "recover" /\ pending' = [pending EXCEPT ![a] = s] /\ active' = active
      /\ a \in Aircraft /\ i \in Nat \ {0} /\ TypeOK
  BY DEF RecoverFails, WorkerInv, StageInv
<1>2. i = Len(rows[a]) /\ LastOpen(rows[a]) /\ active[a] = NoAcc
  BY <1>1, Quiet DEF InRecovery
<1>3. rows[a] \in Seq(Rows) /\ i \in DOMAIN rows[a]
  BY <1>1, <1>2 DEF TypeOK
<1>4. s \in Accs /\ s.cols = rows[a][i].cols /\ s.events = <<>> /\ s.sid = i
  BY <1>1, <1>3, RehydratedIs
<1>5. s # NoAcc
  BY <1>4, AccIsAcc
<1> HIDE DEF s
<1>6. pending'[a] = s /\ \A x \in Aircraft : x # a => pending'[x] = pending[x]
  BY <1>1 DEF TypeOK
<1>7. a \in Tracked' /\ Acc(a)' = s
  BY <1>1, <1>2, <1>5, <1>6 DEF Tracked, HasActive, HasPending, Acc
<1>8. \A x \in Aircraft : x # a => SameSighting(x) /\ Acc(x)' = Acc(x)
  BY <1>1, <1>6, UntouchedOne
<1>9. QED
  BY <1>1, <1>2, <1>3, <1>4, <1>7, <1>8 DEF Newest

\* The newest row of a sequence of which only that one was replaced.
LEMMA RecoverCloseRows ==
  ASSUME WorkerInv, NEW a, NEW i, <<a, i>> \in toRecover, RecoverClose(a, i)
  PROVE  /\ a \in Aircraft /\ pc # "committed" /\ pc' # "committed" /\ ~Drafting' /\ ~Committing'
         /\ a \notin Tracked
         /\ \A x \in Aircraft : /\ SameSighting(x) /\ Acc(x)' = Acc(x)
                                /\ x # a => rows'[x] = rows[x]
         /\ \A x \in Aircraft : /\ DOMAIN rows'[x] = DOMAIN rows[x]
                                /\ \A j \in DOMAIN rows[x] : /\ rows'[x][j].cols = rows[x][j].cols
                                                             /\ rows'[x][j].events = rows[x][j].events
<1>1. /\ a \in Aircraft /\ ~HasPending(a)
      /\ \A x \in Aircraft : x # a => rows'[x] = rows[x]
      /\ DOMAIN rows'[a] = DOMAIN rows[a]
      /\ \A j \in DOMAIN rows[a] : j # i => rows'[a][j] = rows[a][j]
      /\ rows'[a][i].cols = rows[a][i].cols /\ rows'[a][i].events = rows[a][i].events
  BY RecoverCloseIs
<1>2. pc = "recover" /\ pc' = "recover" /\ UNCHANGED <<active, pending>>
  BY DEF RecoverClose
<1>3. a \notin Tracked
  BY <1>1, <1>2, Quiet
<1>4. \A x \in Aircraft : SameSighting(x) /\ Acc(x)' = Acc(x)
  BY <1>2, Untouched
<1>5. QED
  BY <1>1, <1>2, <1>3, <1>4 DEF Drafting, Committing

\* What the transaction's statements leave in the newest row and in the others.
LEMMA WriteRowsView ==
  ASSUME WorkerInv, WriteRows, NEW a \in Aircraft
  PROVE  LET w == work'.rows[a]
         IN  /\ a \notin Tracked => w = rows[a]
             /\ w \in Seq(Rows) /\ Len(w) \in Nat
             /\ \A i \in DOMAIN w : a \notin Tracked \/ i # Len(w) =>
                                      i \in DOMAIN rows[a] /\ w[i] = rows[a][i]
             /\ a \in Tracked =>
                  /\ Len(w) \in DOMAIN w
                  /\ a \in cycle.opens => /\ Newest(w).cols = Acc(a).cols
                                          /\ Newest(w).events = cycle.queued[a]
                                          /\ Len(w) \notin DOMAIN rows[a]
                  /\ a \notin cycle.opens =>
                       /\ Len(w) = Len(rows[a]) /\ Kept(a)
                       /\ Newest(w).cols = IF a \in cycle.flushes THEN Acc(a).cols
                                           ELSE Newest(rows[a]).cols
                       /\ Newest(w).events = Newest(rows[a]).events \o cycle.queued[a]
<1> DEFINE w == Written(a)  n == Sid(a)
<1>1. pc = "begun" /\ work'.rows[a] = w /\ Committing
  BY DEF WriteRows, Committing
<1>2. /\ w \in Seq(Rows)
      /\ a \notin Tracked => w = rows[a]
      /\ a \in Tracked =>
           /\ n = Len(w) /\ n \in Nat \ {0}
           /\ Len(w) = IF a \in cycle.opens THEN Len(rows[a]) + 1 ELSE Len(rows[a])
           /\ \A i \in DOMAIN w : i # n => i \in DOMAIN rows[a] /\ w[i] = rows[a][i]
           /\ w[n].cols = IF a \in cycle.opens \/ a \in cycle.flushes THEN Acc(a).cols ELSE rows[a][n].cols
           /\ w[n].events = IF a \in cycle.opens THEN cycle.queued[a]
                            ELSE rows[a][n].events \o cycle.queued[a]
  BY <1>1, WrittenIs DEF WorkerInv
<1>3. /\ a \in Tracked /\ a \notin cycle.opens => Kept(a)
      /\ rows[a] \in Seq(Rows) /\ DOMAIN rows[a] = 1..Len(rows[a]) /\ Len(rows[a]) \in Nat
  BY <1>1 DEF Kept, WorkerInv, CycleInv, Decided, TypeOK
<1> HIDE DEF w, n
<1>4. DOMAIN w = 1..Len(w) /\ Len(w) \in Nat
  <2>1. w \in Seq(Rows)
    BY <1>2
  <2>2. QED
    BY <2>1
<1>5. CASE a \notin Tracked
  BY <1>1, <1>2, <1>4, <1>5, ZenonT(40)
<1>6. CASE a \in Tracked
  <2>1. /\ n = Len(w) /\ Len(w) \in DOMAIN w
        /\ a \in cycle.opens => Len(w) \notin DOMAIN rows[a]
    BY <1>2, <1>3, <1>4, <1>6
  <2>2. Newest(w) = w[n] /\ (a \notin cycle.opens => Newest(rows[a]) = rows[a][n])
    BY <1>2, <1>6, <2>1 DEF Newest
  <2>3. QED
    BY <1>1, <1>2, <1>3, <1>4, <1>6, <2>1, <2>2, Zenon
<1>7. QED
  BY <1>5, <1>6

\* What the closes leave.
LEMMA WriteClosesView ==
  ASSUME WorkerInv, WriteCloses, NEW a \in Aircraft
  PROVE  LET w == work.rows[a]  c == work'.rows[a]
         IN  /\ Len(c) = Len(w) /\ DOMAIN c = DOMAIN w
             /\ \A i \in DOMAIN c : i # Len(w) \/ a \notin cycle.due => c[i] = w[i]
             /\ a \in cycle.due => /\ a \in Tracked
                                   /\ Newest(c).cols = Acc(a).cols
                                   /\ Newest(c).events = Newest(w).events
             /\ a \notin cycle.due => c = w
BY ClosedIs DEF Newest
-----------------------------------------------------------------------------
(* Severities only rise.                                                   *)

\* A state without an open transaction.
LEMMA NoDraft ==
  ASSUME ~Drafting'
  PROVE  SeverityDraft'
BY DEF SeverityDraft

\* Severity: nothing it compares changed.
LEMMA SeveritySettled ==
  ASSUME SeverityInv, Settled
  PROVE  SeverityInv'
<1>1. \A x \in Aircraft : SameSighting(x) /\ Acc(x)' = Acc(x)
  BY Untouched DEF Settled
<1>2. SeverityMemory'
  BY <1>1 DEF SeverityInv, SeverityMemory, Settled, Kept, SameSighting, Newest
<1>3. QED
  BY <1>2, NoDraft DEF SeverityInv, Settled

\* Severity: the worker did nothing.
LEMMA SeverityAside ==
  ASSUME SeverityInv, Aside
  PROVE  SeverityInv'
<1>1. \A x \in Aircraft : SameSighting(x) /\ Acc(x)' = Acc(x)
  BY Untouched DEF Aside
<1>2. SeverityMemory'
  BY <1>1 DEF SeverityInv, SeverityMemory, Aside, Kept, SameSighting, Newest
<1>3. SeverityDraft'
  BY <1>1 DEF SeverityInv, SeverityDraft, Aside, Drafting, SameSighting, Newest
<1>4. QED
  BY <1>2, <1>3 DEF SeverityInv

\* What apply_* makes of the severity.
LEMMA WithColumnSeverity ==
  ASSUME NEW s \in Accs, NEW col \in Column, NEW v \in Nat
  PROVE  WithColumn(s, col, v).cols["severity"] =
           IF col = "severity" THEN v ELSE s.cols["severity"]
<1>1. WithColumn(s, col, v).cols = [s.cols EXCEPT ![col] = v]
  BY DEF WithColumn, Accs
<1>2. s.cols \in [Column -> Nat] /\ "severity" \in Column
  BY SeverityType DEF Columns, Column
<1>3. QED
  BY <1>1, <1>2

\* apply_alert_severity only raises; the other seams leave the severity alone.
LEMMA SeverityApply ==
  ASSUME WorkerInv, WorkerInv', SeverityInv,
         NEW a \in Aircraft, NEW col \in Column, NEW v \in Nat, Apply(a, col, v)
  PROVE  SeverityInv'
<1>1. /\ Changes(Acc(a), col, v) /\ UNCHANGED <<rows, work, pc>>
  BY DEF Apply, dbVars
<1>2. /\ a \in Tracked /\ Acc(a)' = WithColumn(Acc(a), col, v)
      /\ \A x \in Aircraft : SameSighting(x) /\ (x # a => Acc(x)' = Acc(x))
  BY ApplyEffect DEF WorkerInv
<1>3. Acc(a) \in Accs
  BY <1>2, OwnsNewest
<1>4. Acc(a)'.cols["severity"] = IF col = "severity" THEN v ELSE Acc(a).cols["severity"]
  BY <1>2, <1>3, WithColumnSeverity
<1>5. Acc(a).cols["severity"] <= Acc(a)'.cols["severity"]
  BY <1>1, <1>3, <1>4, SeverityType DEF Changes
<1>6. \A x \in Aircraft : x \in Tracked => Acc(x).cols["severity"] <= Acc(x)'.cols["severity"]
  <2>1. \A x \in Aircraft : x \in Tracked => Acc(x).cols["severity"] \in Nat
    BY OwnsNewest, SeverityType
  <2>2. QED
    BY <1>2, <1>5, <2>1
<1>7. QED
  BY <1>1, <1>2, <1>6, SeverityRises

\* The synchronous block neither writes nor changes what a sighting says.
LEMMA SeverityDrain ==
  ASSUME WorkerInv, SeverityInv, Handle \/ Resync
  PROVE  SeverityInv'
<1>1. pc = "drain" /\ pc' = "drain" /\ rows' = rows
  BY DEF Handle, Resync, dbVars
<1>2. \A a \in Aircraft :
        IF a \in Tracked THEN a \in Tracked' /\ Continues(Acc(a), Acc(a)')
        ELSE a \in Tracked' => \E first \in Time : /\ Begins(Acc(a)', first)
                                                   /\ LastEnd(rows[a]) < first
  BY DrainEffect DEF WorkerInv
<1>3. \A a \in Aircraft : Kept(a)' => Kept(a) /\ Acc(a)'.cols = Acc(a).cols
  BY <1>1, <1>2 DEF Kept, Continues, Begins
<1>4. SeverityMemory'
  BY <1>1, <1>3 DEF SeverityInv, SeverityMemory, Newest
<1>5. QED
  BY <1>1, <1>4, NoDraft DEF SeverityInv, Drafting

\* Severity: the draft takes the accumulators' columns, which never were below the rows'.
LEMMA SeverityWriteRows ==
  ASSUME WorkerInv, SeverityInv, WriteRows
  PROVE  SeverityInv'
<1>1. pc = "begun" /\ pc' = "written" /\ UNCHANGED <<rows, active, pending>>
  BY DEF WriteRows, dbVars
<1>2. \A x \in Aircraft : SameSighting(x) /\ Acc(x)' = Acc(x)
  BY <1>1, Untouched
<1>3. SeverityMemory'
  BY <1>1, <1>2 DEF SeverityInv, SeverityMemory, Kept, SameSighting, Newest
<1>4. ASSUME NEW a \in Aircraft
      PROVE  /\ a \in Tracked => Newest(work'.rows[a]).cols["severity"] <= Acc(a).cols["severity"]
             /\ \A i \in DOMAIN rows[a] :
                  rows[a][i].cols["severity"] <= work'.rows[a][i].cols["severity"]
  <2> DEFINE w == work'.rows[a]
  <2>1. /\ a \notin Tracked => w = rows[a]
        /\ \A i \in DOMAIN w : a \notin Tracked \/ i # Len(w) => w[i] = rows[a][i]
        /\ w \in Seq(Rows) /\ Len(w) \in Nat
        /\ a \in Tracked =>
             /\ a \in cycle.opens => Newest(w).cols = Acc(a).cols /\ Len(w) \notin DOMAIN rows[a]
             /\ a \notin cycle.opens =>
                  /\ Len(w) = Len(rows[a]) /\ Kept(a)
                  /\ Newest(w).cols = IF a \in cycle.flushes THEN Acc(a).cols
                                      ELSE Newest(rows[a]).cols
    BY WriteRowsView
  <2>2. Newest(w) = w[Len(w)] /\ Newest(rows[a]) = rows[a][Len(rows[a])]
    BY DEF Newest
  <2>3. \A i \in DOMAIN rows[a] : /\ rows[a][i].cols["severity"] \in Nat
                                  /\ i \in DOMAIN w
    <3>1. \A i \in DOMAIN rows[a] : rows[a][i] \in Rows
      BY DEF WorkerInv, TypeOK
    <3>2. Len(w) = Len(rows[a]) \/ Len(w) = Len(rows[a]) + 1
      <4>1. WorkOf(a)'
        BY <1>1, WriteRowsStep DEF WorkerInv, WorkInv
      <4>2. Len(w) = IF a \in cycle.opens THEN Len(rows[a]) + 1 ELSE Len(rows[a])
        <5>1. cycle' = cycle
          BY DEF WriteRows
        <5>2. QED
          BY <1>1, <4>1, <5>1 DEF WorkOf
      <4>3. QED
        BY <4>2
    <3>3. \A i \in DOMAIN rows[a] : i \in DOMAIN w
      <4>1. rows[a] \in Seq(Rows)
        BY DEF WorkerInv, TypeOK
      <4> HIDE DEF w
      <4>2. QED
        BY <2>1, <3>2, <4>1
    <3>4. QED
      BY <3>1, <3>3, SeverityType
  <2>4. a \in Tracked => /\ Acc(a).cols["severity"] \in Nat
                         /\ Kept(a) => /\ Newest(rows[a]).cols["severity"] <= Acc(a).cols["severity"]
                                       /\ Newest(rows[a]).cols["severity"] \in Nat
    BY OwnsNewest, SeverityType DEF SeverityInv, SeverityMemory
  <2> HIDE DEF w
  <2>5. a \in Tracked => Newest(w).cols["severity"] <= Acc(a).cols["severity"]
    BY <2>1, <2>4
  <2>6. ASSUME NEW i \in DOMAIN rows[a]
        PROVE  rows[a][i].cols["severity"] <= w[i].cols["severity"]
    <3>1. CASE a \notin Tracked \/ i # Len(w)
      BY <2>1, <2>3, <2>6, <3>1
    <3>2. CASE a \in Tracked /\ i = Len(w)
      BY <2>1, <2>2, <2>3, <2>4, <2>6, <3>2
    <3>3. QED
      BY <3>1, <3>2
  <2>7. QED
    BY <2>5, <2>6 DEF w
<1>5. SeverityDraft'
  BY <1>1, <1>2, <1>4 DEF SeverityDraft, SameSighting, Newest
<1>6. QED
  BY <1>3, <1>5 DEF SeverityInv

\* Severity: closing a draft row changes no column.
LEMMA SeverityWriteCloses ==
  ASSUME WorkerInv, SeverityInv, WriteCloses
  PROVE  SeverityInv'
<1>1. pc = "written" /\ pc' = "closing" /\ UNCHANGED <<rows, active, pending>> /\ Drafting
  BY DEF WriteCloses, dbVars, Drafting
<1>2. \A x \in Aircraft : SameSighting(x) /\ Acc(x)' = Acc(x)
  BY <1>1, Untouched
<1>3. SeverityMemory'
  BY <1>1, <1>2 DEF SeverityInv, SeverityMemory, Kept, SameSighting, Newest
<1>4. ASSUME NEW a \in Aircraft
      PROVE  /\ a \in Tracked => Newest(work'.rows[a]).cols["severity"] <= Acc(a).cols["severity"]
             /\ \A i \in DOMAIN rows[a] :
                  rows[a][i].cols["severity"] <= work'.rows[a][i].cols["severity"]
  <2> DEFINE w == work.rows[a]  c == work'.rows[a]
  <2>1. /\ Len(c) = Len(w) /\ DOMAIN c = DOMAIN w
        /\ \A i \in DOMAIN c : i # Len(w) \/ a \notin cycle.due => c[i] = w[i]
        /\ a \in cycle.due => a \in Tracked /\ Newest(c).cols = Acc(a).cols
        /\ a \notin cycle.due => c = w
    BY WriteClosesView
  <2>2. /\ a \in Tracked => Newest(w).cols["severity"] <= Acc(a).cols["severity"]
        /\ \A i \in DOMAIN rows[a] : rows[a][i].cols["severity"] <= w[i].cols["severity"]
    BY <1>1 DEF SeverityInv, SeverityDraft
  <2>3. /\ DOMAIN rows[a] \subseteq DOMAIN w
        /\ a \in Tracked => Acc(a).cols["severity"] \in Nat /\ Newest(w).cols["severity"] \in Nat
        /\ \A i \in DOMAIN rows[a] : rows[a][i].cols["severity"] \in Nat
    <3>1. rows[a] \in Seq(Rows)
      BY DEF WorkerInv, TypeOK
    <3>2. QED
      BY <1>1, <3>1, DraftHasNewest, OwnsNewest, SeverityType
  <2>4. Newest(w) = w[Len(w)] /\ Newest(c) = c[Len(c)]
    BY DEF Newest
  <2> HIDE DEF w, c
  <2>5. a \in Tracked => Newest(c).cols["severity"] <= Acc(a).cols["severity"]
    BY <2>1, <2>2, <2>3
  <2>6. ASSUME NEW i \in DOMAIN rows[a]
        PROVE  rows[a][i].cols["severity"] <= c[i].cols["severity"]
    <3>1. CASE i # Len(w) \/ a \notin cycle.due
      BY <2>1, <2>2, <2>3, <2>6, <3>1
    <3>2. CASE i = Len(w) /\ a \in cycle.due
      BY <2>1, <2>2, <2>3, <2>4, <2>6, <3>2
    <3>3. QED
      BY <3>1, <3>2
  <2>7. QED
    BY <2>5, <2>6 DEF c
<1>5. SeverityDraft'
  BY <1>1, <1>2, <1>4 DEF SeverityDraft, SameSighting, Newest
<1>6. QED
  BY <1>3, <1>5 DEF SeverityInv

\* Severity: the draft becomes the table.
LEMMA SeverityCommit ==
  ASSUME WorkerInv, SeverityInv, Commit
  PROVE  SeverityInv'
<1>1. /\ pc = "closing" /\ pc' = "committed" /\ rows' = work.rows
      /\ UNCHANGED <<active, pending>> /\ Drafting
  BY DEF Commit, Drafting
<1>2. \A x \in Aircraft : SameSighting(x) /\ Acc(x)' = Acc(x)
  BY <1>1, Untouched
<1>3. SeverityMemory'
  BY <1>1, <1>2 DEF SeverityInv, SeverityDraft, SeverityMemory, Kept, SameSighting, Newest
<1>4. QED
  BY <1>1, <1>3, NoDraft DEF SeverityInv, Drafting

\* Severity: an accumulator that learns its id is compared with the row it just became.
LEMMA SeverityNote ==
  ASSUME WorkerInv, SeverityInv, NoteCommitted
  PROVE  SeverityInv'
<1>1. pc = "committed" /\ ~Drafting' /\ rows' = rows
  BY EndOfCycleIs DEF NoteCommitted, Drafting, dbVars
<1>2. ASSUME NEW a \in Aircraft, a \in Tracked'
      PROVE  Kept(a) /\ Acc(a)'.cols = Acc(a).cols
  <2>1. a \in Tracked /\ Acc(a)' = Noted(Acc(a), a)
    BY <1>2, NoteEffect DEF WorkerInv
  <2>2. Acc(a) \in Accs /\ TypeOK /\ cycle \in Cycles
    BY <2>1, OwnsNewest DEF WorkerInv, StageInv
  <2>3. Noted(Acc(a), a).cols = Acc(a).cols
    BY <2>2, NotedKeeps
  <2>4. QED
    BY <1>1, <2>1, <2>3 DEF Kept
<1>3. SeverityMemory'
  BY <1>1, <1>2 DEF SeverityInv, SeverityMemory, Kept, Newest
<1>4. QED
  BY <1>1, <1>3, NoDraft DEF SeverityInv

\* Severity: with memory gone there is nothing to compare.
LEMMA SeverityPowerOff ==
  ASSUME PowerOff
  PROVE  SeverityInv' /\ Tracked' = {}
<1>1. Tracked' = {} /\ ~Drafting'
  BY DEF PowerOff, Tracked, HasActive, HasPending, Drafting
<1>2. QED
  BY <1>1, NoDraft DEF SeverityInv, SeverityMemory, Kept

\* Severity: an adopted sighting starts from its row's.
LEMMA SeverityStart ==
  ASSUME WorkerInv, Start
  PROVE  SeverityInv'
<1>1. pc' = "recover" /\ rows' = rows
  BY DEF Start, dbVars
<1>2. ASSUME NEW a \in Aircraft, a \in Tracked'
      PROVE  Newest(rows[a]).cols["severity"] <= Acc(a)'.cols["severity"]
  <2>1. rows[a] \in Seq(Rows) /\ Len(rows[a]) \in DOMAIN rows[a]
        /\ Acc(a)'.cols = Newest(rows[a]).cols
    BY <1>2, StartMemory
  <2>2. Newest(rows[a]) \in Rows
    BY <2>1 DEF Newest
  <2>3. QED
    BY <2>1, <2>2, SeverityType
<1>3. SeverityMemory'
  BY <1>1, <1>2 DEF SeverityMemory, Kept, Newest
<1>4. QED
  BY <1>1, <1>3, NoDraft DEF SeverityInv, Drafting

\* Severity: recovery closes rows nobody tracks.
LEMMA SeverityRecovers ==
  ASSUME WorkerInv, SeverityInv, NEW a, NEW i, <<a, i>> \in toRecover,
         RecoverClose(a, i) \/ RecoverFails(a, i)
  PROVE  SeverityInv'
<1>1. CASE RecoverClose(a, i)
  <2>1. /\ a \in Aircraft /\ pc # "committed" /\ pc' # "committed" /\ ~Drafting' /\ a \notin Tracked
        /\ \A x \in Aircraft : /\ SameSighting(x) /\ Acc(x)' = Acc(x)
                               /\ x # a => rows'[x] = rows[x]
    BY <1>1, RecoverCloseRows
  <2>2. SeverityMemory'
    BY <2>1 DEF SeverityInv, SeverityMemory, Kept, SameSighting, Newest
  <2>3. QED
    BY <2>1, <2>2, NoDraft DEF SeverityInv
<1>2. CASE RecoverFails(a, i)
  <2>1. pc = "recover" /\ pc' = "recover" /\ rows' = rows
    BY <1>2 DEF RecoverFails, dbVars
  <2>2. /\ a \in Aircraft /\ rows[a] \in Seq(Rows) /\ Len(rows[a]) \in DOMAIN rows[a]
        /\ Acc(a)'.cols = Newest(rows[a]).cols
        /\ \A x \in Aircraft : x # a => SameSighting(x) /\ Acc(x)' = Acc(x)
    BY <1>2, RecoverFailsMemory
  <2>3. Newest(rows[a]).cols["severity"] <= Acc(a)'.cols["severity"]
    <3>1. Newest(rows[a]) \in Rows
      BY <2>2 DEF Newest
    <3>2. QED
      BY <2>2, <3>1, SeverityType
  <2>4. SeverityMemory'
    BY <2>1, <2>2, <2>3 DEF SeverityInv, SeverityMemory, Kept, SameSighting, Newest
  <2>5. QED
    BY <2>1, <2>4, NoDraft DEF SeverityInv, Drafting
<1>3. QED
  BY <1>1, <1>2

\* No step leaves a row above its accumulator.
LEMMA SeverityStep ==
  ASSUME WorkerInv, SeverityInv, [Next]_vars, [CommitIsNoted]_vars
  PROVE  SeverityInv'
<1>0. WorkerInv'
  BY WorkerStep
<1>1. CASE Clock \/ LiveStoreActs \/ UNCHANGED vars
  BY <1>1, AsideSteps, SeverityAside
<1>2. CASE Drain \/ Prepare \/ CycleFails \/ EstablishT0 \/ EstablishT0Fails \/ Stop \/ Recovered
  BY <1>2, SettledSteps, SeveritySettled
<1>3. ASSUME NEW a \in Aircraft, ApplyRoute(a) \/ ApplyInferredAirport(a) \/ ApplyAlertSeverity(a)
      PROVE  SeverityInv'
  <2>1. \E col \in Column, v \in Nat : Apply(a, col, v)
    BY <1>3, WorkerAssumption DEF ApplyRoute, ApplyInferredAirport, ApplyAlertSeverity, Column
  <2>2. QED
    BY <1>0, <2>1, SeverityApply
<1>4. CASE Handle \/ Resync
  BY <1>4, SeverityDrain
<1>5. CASE WriteRows \/ WriteCloses \/ Commit \/ NoteCommitted
  BY <1>5, SeverityWriteRows, SeverityWriteCloses, SeverityCommit, SeverityNote
<1>6. CASE Exit \/ Crash
  BY <1>6, SeverityPowerOff DEF Exit, Crash
<1>7. CASE Start
  BY <1>7, SeverityStart
<1>8. ASSUME NEW p \in toRecover, RecoverClose(p[1], p[2]) \/ RecoverFails(p[1], p[2])
      PROVE  SeverityInv'
  <2>1. <<p[1], p[2]>> \in toRecover
    BY DEF WorkerInv, StageInv
  <2>2. QED
    BY <1>8, <2>1, SeverityRecovers
<1>9. QED
  BY <1>1, <1>2, <1>3, <1>4, <1>5, <1>6, <1>7, <1>8 DEF Next, CycleStep

\* A row never exceeds the accumulator that writes it, apply_* inside a cycle
\* included (state.apply_alert_severity, repository.flush_sighting).
THEOREM SeverityIsInvariant == Spec /\ [][CommitIsNoted]_vars => [](WorkerInv /\ SeverityInv)
<1>1. Init => WorkerInv /\ SeverityInv
  <2> SUFFICES ASSUME Init PROVE WorkerInv /\ SeverityInv
    OBVIOUS
  <2>1. Tracked = {} /\ ~Drafting
    BY DEF Init, Tracked, HasActive, HasPending, Drafting
  <2>2. SeverityInv
    BY <2>1 DEF SeverityInv, SeverityMemory, SeverityDraft, Kept
  <2>3. QED
    BY <2>2, WorkerStarts
<1>2. (WorkerInv /\ SeverityInv) /\ [Next]_vars /\ [CommitIsNoted]_vars => (WorkerInv /\ SeverityInv)'
  BY WorkerStep, SeverityStep
<1>3. QED
  BY <1>1, <1>2, PTL DEF Spec

\* max_alert_severity is a maximum: no flush, close, failed cycle, crash or
\* restart ever lowers a committed one (repository.flush_sighting,
\* close_sighting).
THEOREM SeverityIsNeverLowered == Spec /\ [][CommitIsNoted]_vars => SeverityNeverLowered
<1> DEFINE Raised == \A a \in Aircraft : \A i \in DOMAIN rows[a] :
                       rows'[a][i].cols["severity"] >= rows[a][i].cols["severity"]
<1>1. WorkerInv /\ SeverityInv /\ [Next]_vars => [Raised]_vars
  <2> SUFFICES ASSUME WorkerInv, SeverityInv, [Next]_vars,
                      NEW a \in Aircraft, NEW i \in DOMAIN rows[a]
               PROVE  rows'[a][i].cols["severity"] >= rows[a][i].cols["severity"]
    OBVIOUS
  <2>1. rows[a][i] \in Rows /\ rows[a] \in Seq(Rows)
    BY DEF WorkerInv, TypeOK
  <2>2. rows[a][i].cols["severity"] \in Nat
    BY <2>1, SeverityType
  <2>3. CASE rows' = rows
    BY <2>2, <2>3
  <2>4. CASE Commit
    <3>1. rows' = work.rows /\ Drafting
      BY <2>4 DEF Commit, Drafting
    <3>2. work.rows[a] \in Seq(Rows) /\ i \in DOMAIN work.rows[a]
      BY <3>1, DraftHasNewest
    <3>3. work.rows[a][i].cols["severity"] \in Nat
      BY <3>2, SeverityType
    <3>4. rows[a][i].cols["severity"] <= work.rows[a][i].cols["severity"]
      BY <3>1 DEF SeverityInv, SeverityDraft
    <3>5. QED
      BY <2>2, <3>1, <3>3, <3>4
  <2>5. ASSUME NEW p \in toRecover, <<p[1], p[2]>> \in toRecover, RecoverClose(p[1], p[2])
        PROVE  rows'[a][i].cols["severity"] >= rows[a][i].cols["severity"]
    <3>1. rows'[a][i].cols = rows[a][i].cols
      BY <2>5, RecoverCloseRows
    <3>2. QED
      BY <2>2, <3>1
  <2>6. QED
    BY <2>3, <2>4, <2>5, RowsMove
<1>2. QED
  BY <1>1, SeverityIsInvariant, PTL DEF Spec, SeverityNeverLowered
-----------------------------------------------------------------------------
(* Timelines, and what a clean accumulator promises.                       *)

\* The severities of a timeline rise, and the last of them is the column's.
Timeline(ev, sev) ==
  /\ \A j, k \in DOMAIN ev :
       j < k /\ ev[j][1] = "severity" /\ ev[k][1] = "severity" => ev[j][2] < ev[k][2]
  /\ \A j \in DOMAIN ev : ev[j][1] = "severity" => 0 < ev[j][2] /\ ev[j][2] <= sev
  /\ sev # 0 => \E j \in DOMAIN ev : ev[j][1] = "severity" /\ ev[j][2] = sev

\* The events the database already holds of a's sighting.
Past(a) == IF Acc(a).sid = 0 THEN <<>> ELSE Newest(rows[a]).events

\* What is committed is a timeline ...
RowStory == \A a \in Aircraft : \A i \in DOMAIN rows[a] :
  Timeline(rows[a][i].events, rows[a][i].cols["severity"])

\* ... and so is what will have been committed once the queued events are,
\* which for as long as there are any keep the flush requested.
StoryOf(a) ==
  /\ pc # "committed" => Timeline(Past(a) \o Acc(a).events, Acc(a).cols["severity"])
  /\ pc = "committed" => Timeline(Newest(rows[a]).events, Acc(a).cols["severity"])
  /\ Acc(a).events # <<>> => Acc(a).dirty = TRUE /\ Acc(a).urgent = TRUE
MemoryStory == \A a \in Aircraft : a \in Tracked => StoryOf(a)

\* A cycle writes the events that are queued, and with them the columns.
CycleStory == Committing => \A a \in Aircraft : a \in Tracked =>
  /\ cycle.queued[a] = Acc(a).events
  /\ a \notin cycle.opens /\ a \notin cycle.flushes /\ a \notin cycle.due => Acc(a).events = <<>>

\* The open transaction's rows are timelines, a closing one's once its columns
\* are final.
DraftStory == Drafting => \A a \in Aircraft :
  /\ a \in Tracked => Timeline(Newest(work.rows[a]).events, Acc(a).cols["severity"])
  /\ \A i \in DOMAIN work.rows[a] :
       i # Len(work.rows[a]) \/ a \notin cycle.due \/ pc = "closing" =>
         Timeline(work.rows[a][i].events, work.rows[a][i].cols["severity"])

\* What need not be written again has been written.
CleanMemory == \A a \in Aircraft :
  /\ Kept(a)
  /\ Acc(a).dirty # TRUE \/ (pc = "committed" /\ a \in cycle.opens \cup cycle.flushes)
  => Newest(rows[a]).cols = Acc(a).cols
CleanDraft == Drafting => \A a \in Aircraft :
  /\ a \in Tracked
  /\ Acc(a).dirty # TRUE \/ a \in cycle.opens \cup cycle.flushes
  => Newest(work.rows[a]).cols = Acc(a).cols

ContentInv == /\ RowStory /\ MemoryStory /\ CycleStory /\ DraftStory
              /\ CleanMemory /\ CleanDraft
-----------------------------------------------------------------------------
\* Concatenating timelines.
LEMMA ConcatFacts ==
  /\ \A p \in Timelines : p \o <<>> = p /\ <<>> \o p = p /\ SubSeq(p, Len(p) + 1, Len(p)) = <<>>
  /\ \A p, q \in Timelines : \A x \in Column \X Nat :
       p \o q \in Timelines /\ p \o Append(q, x) = Append(p \o q, x)
<1>1. \A p \in Timelines : p \o <<>> = p /\ <<>> \o p = p
  BY DEF Timelines
<1>2. \A p \in Timelines : SubSeq(p, Len(p) + 1, Len(p)) = <<>>
  BY DEF Timelines
<1>3. ASSUME NEW p \in Timelines, NEW q \in Timelines, NEW x \in Column \X Nat
      PROVE  p \o q \in Timelines /\ p \o Append(q, x) = Append(p \o q, x)
  BY DEF Timelines
<1>4. QED
  BY <1>1, <1>2, <1>3

\* The timeline of a sighting nothing has been decided about.
LEMMA BlankTimeline == Timeline(<<>>, NoColumns["severity"])
BY DEF Timeline, NoColumns, Column

\* An event of another kind may follow.
LEMMA TimelineGrows ==
  ASSUME NEW ev \in Timelines, NEW sev \in Nat, Timeline(ev, sev),
         NEW col \in Column, col # "severity", NEW v \in Nat
  PROVE  Timeline(Append(ev, <<col, v>>), sev)
<1> DEFINE g == Append(ev, <<col, v>>)
<1>1. /\ DOMAIN ev = 1..Len(ev) /\ Len(ev) \in Nat /\ DOMAIN g = 1..(Len(ev) + 1)
      /\ \A j \in 1..Len(ev) : g[j] = ev[j]
      /\ g[Len(ev) + 1] = <<col, v>>
  BY DEF Timelines
<1>2. g[Len(ev) + 1][1] # "severity"
  BY <1>1
<1> HIDE DEF g
<1>3. \A j \in DOMAIN g : g[j][1] = "severity" => j \in DOMAIN ev /\ g[j] = ev[j]
  BY <1>1, <1>2
<1>4. \A j \in DOMAIN ev : j \in DOMAIN g /\ g[j] = ev[j]
  BY <1>1
<1>5. Timeline(g, sev)
  BY <1>3, <1>4 DEF Timeline
<1>6. QED
  BY <1>5 DEF g

\* A strictly higher severity may follow, and then it is the column's.
LEMMA TimelineRises ==
  ASSUME NEW ev \in Timelines, NEW sev \in Nat, Timeline(ev, sev), NEW v \in Nat, v > sev
  PROVE  Timeline(Append(ev, <<"severity", v>>), v)
<1> DEFINE g == Append(ev, <<"severity", v>>)  n == Len(ev) + 1
<1>1. /\ DOMAIN ev = 1..Len(ev) /\ Len(ev) \in Nat /\ DOMAIN g = 1..n
      /\ \A j \in 1..Len(ev) : g[j] = ev[j] /\ ev[j][2] \in Nat
      /\ g[n] = <<"severity", v>>
  BY DEF Timelines
<1>2. g[n][1] = "severity" /\ g[n][2] = v /\ n \in DOMAIN g
  BY <1>1
<1> HIDE DEF g, n
<1>3. \A j \in DOMAIN g : j = n \/ (j \in DOMAIN ev /\ g[j] = ev[j] /\ j < n /\ g[j][2] \in Nat)
  BY <1>1 DEF n
<1>4. \A j \in DOMAIN g : g[j][1] = "severity" => 0 < g[j][2] /\ g[j][2] <= v
  BY <1>2, <1>3 DEF Timeline
<1>5. \A j, k \in DOMAIN g :
        j < k /\ g[j][1] = "severity" /\ g[k][1] = "severity" => g[j][2] < g[k][2]
  <2>1. \A j \in DOMAIN g : j # n /\ g[j][1] = "severity" => g[j][2] < v
    BY <1>3 DEF Timeline
  <2>2. \A j, k \in DOMAIN g : j < k => j # n
    BY <1>1 DEF n
  <2>3. QED
    BY <1>2, <1>3, <2>1, <2>2 DEF Timeline
<1>6. Timeline(g, v)
  BY <1>2, <1>4, <1>5 DEF Timeline
<1>7. QED
  BY <1>6 DEF g

-----------------------------------------------------------------------------
(* One lemma per step.                                                     *)

\* Nothing is claimed of a transaction, or of a cycle, that is not there.
LEMMA NoDrafts ==
  ASSUME ~Drafting'
  PROVE  DraftStory' /\ CleanDraft'
BY DEF DraftStory, CleanDraft

\* CycleStory speaks of a committing cycle only.
LEMMA NoCommit ==
  ASSUME ~Committing'
  PROVE  CycleStory'
BY DEF CycleStory

\* What the database holds of a sighting is a timeline.
LEMMA PastIs ==
  ASSUME WorkerInv, NEW a \in Aircraft, a \in Tracked
  PROVE  /\ Past(a) \in Timelines /\ Acc(a).events \in Timelines
         /\ Kept(a) => Newest(rows[a]).events \in Timelines
<1>1. Acc(a) \in Accs /\ (Kept(a) => Newest(rows[a]) \in Rows)
  BY OwnsNewest
<1>2. <<>> \in Timelines
  BY DEF Timelines
<1>3. Acc(a).sid # 0 => Kept(a)
  BY DEF Kept
<1>4. QED
  BY <1>1, <1>2, <1>3, SeverityType, AccFields DEF Past

\* A sighting that neither memory nor table moved keeps its past.
LEMMA SamePast ==
  ASSUME NEW a, SameSighting(a), rows'[a] = rows[a]
  PROVE  Past(a)' = Past(a)
BY DEF SameSighting, Past, Newest

\* Content: nothing it compares changed.
LEMMA ContentSettled ==
  ASSUME ContentInv, Settled, CycleStory'
  PROVE  ContentInv'
<1>1. \A x \in Aircraft : SameSighting(x) /\ Acc(x)' = Acc(x)
  BY Untouched DEF Settled
<1>2. rows' = rows /\ ~Drafting' /\ pc # "committed" /\ pc' # "committed"
  BY DEF Settled
<1>3. RowStory'
  BY <1>2 DEF ContentInv, RowStory
<1>4. \A x \in Aircraft : Past(x)' = Past(x)
  BY <1>1, <1>2, SamePast
<1>5. MemoryStory'
  BY <1>1, <1>2, <1>4 DEF ContentInv, MemoryStory, StoryOf, SameSighting
<1>6. CleanMemory'
  BY <1>1, <1>2 DEF ContentInv, CleanMemory, Kept, SameSighting, Newest
<1>7. QED
  BY <1>2, <1>3, <1>5, <1>6, NoDrafts DEF ContentInv

\* Content: the worker did nothing.
LEMMA ContentAside ==
  ASSUME ContentInv, Aside
  PROVE  ContentInv'
<1>1. /\ \A x \in Aircraft : SameSighting(x) /\ Acc(x)' = Acc(x)
      /\ UNCHANGED <<rows, work, cycle, pc>>
  BY Untouched DEF Aside
<1>2. RowStory'
  BY <1>1 DEF ContentInv, RowStory
<1>3. \A x \in Aircraft : Past(x)' = Past(x)
  BY <1>1, SamePast
<1>4. MemoryStory'
  BY <1>1, <1>3 DEF ContentInv, MemoryStory, StoryOf, SameSighting, Newest
<1>5. CleanMemory'
  BY <1>1 DEF ContentInv, CleanMemory, Kept, SameSighting, Newest
<1>6. CycleStory'
  BY <1>1 DEF ContentInv, CycleStory, Committing, SameSighting
<1>7. DraftStory' /\ CleanDraft'
  BY <1>1 DEF ContentInv, DraftStory, CleanDraft, Drafting, SameSighting, Newest
<1>8. QED
  BY <1>2, <1>4, <1>5, <1>6, <1>7 DEF ContentInv

\* An unwritten event keeps the flush requested, so the cycle that finds it
\* queued also writes its column (needs_flush, _commit).
LEMMA ContentPrepare ==
  ASSUME WorkerInv, MemoryStory, Prepare
  PROVE  CycleStory'
<1>1. CASE pc' = "begun"
  <2>1. cycle' = Owed /\ UNCHANGED <<active, pending>>
    BY <1>1, EndOfCycleIs DEF Prepare
  <2>2. Tracked' = Tracked /\ \A a \in Aircraft : Acc(a)' = Acc(a)
    BY <2>1, Untouched
  <2>3. \A a \in Aircraft : Owed.queued[a] = Acc(a).events
    BY OwedIs DEF WorkerInv
  <2>4. ASSUME NEW a \in Aircraft, a \in Tracked, Acc(a).events # <<>>
        PROVE  a \in Owed.opens \/ a \in Owed.flushes \/ a \in Owed.due
    <3>1. Acc(a).dirty = TRUE /\ Acc(a).urgent = TRUE
      BY <2>4 DEF MemoryStory, StoryOf
    <3>2. NeedsFlush(Acc(a), now, cycle.force)
      BY <3>1 DEF NeedsFlush
    <3>3. QED
      BY <2>4, <3>2, OwedIs DEF WorkerInv
  <2> HIDE DEF Owed
  <2>5. QED
    BY <2>1, <2>2, <2>3, <2>4 DEF CycleStory
<1>2. CASE pc' # "begun"
  <2>1. ~Committing'
    BY <1>2, EndOfCycleIs DEF Prepare, Committing
  <2>2. QED
    BY <2>1, NoCommit
<1>3. QED
  BY <1>1, <1>2

\* A changed answer extends the timeline, a higher severity raises it.
LEMMA WithColumnStory ==
  ASSUME NEW s \in Accs, NEW col \in Column, NEW v \in Nat, NEW p \in Timelines,
         Timeline(p \o s.events, s.cols["severity"]), Changes(s, col, v)
  PROVE  Timeline(p \o WithColumn(s, col, v).events, WithColumn(s, col, v).cols["severity"])
<1> DEFINE t == WithColumn(s, col, v)  ev == p \o s.events  n == s.cols["severity"]
<1>1. /\ t.events = IF col = "airport" THEN s.events ELSE Append(s.events, <<col, v>>)
      /\ t.cols["severity"] = IF col = "severity" THEN v ELSE n
  BY WithColumnKeeps, WithColumnSeverity
<1>2. s.events \in Timelines /\ n \in Nat /\ <<col, v>> \in Column \X Nat
  BY AccFields, SeverityType
<1>3. ev \in Timelines /\ p \o Append(s.events, <<col, v>>) = Append(ev, <<col, v>>)
  BY <1>2, ConcatFacts
<1>4. Timeline(ev, n) /\ (col = "severity" => v > n)
  BY DEF Changes
<1> HIDE DEF t, ev, n
<1>5. CASE col = "severity"
  <2>1. Timeline(Append(ev, <<"severity", v>>), v)
    BY <1>2, <1>3, <1>4, <1>5, TimelineRises
  <2>2. QED
    BY <1>1, <1>3, <1>5, <2>1 DEF t
<1>6. CASE col = "airport"
  BY <1>1, <1>4, <1>6 DEF t, ev
<1>7. CASE col # "severity" /\ col # "airport"
  <2>1. Timeline(Append(ev, <<col, v>>), n)
    BY <1>2, <1>3, <1>4, <1>7, TimelineGrows
  <2>2. QED
    BY <1>1, <1>3, <1>7, <2>1 DEF t
<1>8. QED
  BY <1>5, <1>6, <1>7

\* Between cycles the seams set the column, queue its event and ask for a flush.
LEMMA ContentApply ==
  ASSUME WorkerInv, ContentInv, pc = "idle",
         NEW a \in Aircraft, NEW col \in Column, NEW v \in Nat, Apply(a, col, v)
  PROVE  ContentInv'
<1>1. Changes(Acc(a), col, v) /\ rows' = rows /\ pc' = "idle"
  BY DEF Apply, dbVars
<1>2. /\ a \in Tracked /\ Acc(a)' = WithColumn(Acc(a), col, v)
      /\ \A x \in Aircraft : SameSighting(x) /\ (x # a => Acc(x)' = Acc(x))
  BY ApplyEffect DEF WorkerInv
<1>3. Acc(a) \in Accs /\ Past(a) \in Timelines
  BY <1>2, OwnsNewest, PastIs
<1>4. \A x \in Aircraft : Past(x)' = Past(x)
  BY <1>1, <1>2, SamePast
<1>5. Timeline(Past(a) \o Acc(a).events, Acc(a).cols["severity"])
  BY <1>2 DEF ContentInv, MemoryStory, StoryOf
<1>6. Timeline(Past(a) \o Acc(a)'.events, Acc(a)'.cols["severity"])
  <2>1. Timeline(Past(a) \o WithColumn(Acc(a), col, v).events,
                 WithColumn(Acc(a), col, v).cols["severity"])
    BY <1>1, <1>3, <1>5, WithColumnStory
  <2>2. QED
    BY <1>2, <2>1
<1>7. Acc(a)'.dirty = TRUE /\ Acc(a)'.urgent = TRUE
  <2>1. WithColumn(Acc(a), col, v).dirty = TRUE /\ WithColumn(Acc(a), col, v).urgent = TRUE
    BY <1>3, WithColumnKeeps
  <2>2. QED
    BY <1>2, <2>1
<1>8. RowStory'
  BY <1>1 DEF ContentInv, RowStory
<1>9. StoryOf(a)'
  BY <1>1, <1>4, <1>6, <1>7 DEF StoryOf
<1>10. \A x \in Aircraft : x # a /\ x \in Tracked' => StoryOf(x)'
  BY <1>1, <1>2, <1>4 DEF ContentInv, MemoryStory, StoryOf, SameSighting
<1>11. MemoryStory'
  BY <1>9, <1>10 DEF MemoryStory
<1>12. CleanMemory'
  BY <1>1, <1>2, <1>7 DEF ContentInv, CleanMemory, Kept, SameSighting, Newest
<1>13. ~Committing' /\ ~Drafting'
  BY <1>1 DEF Committing, Drafting
<1>14. QED
  BY <1>8, <1>11, <1>12, <1>13, NoDrafts, NoCommit DEF ContentInv

\* The synchronous block keeps columns and events; what it begins is blank.
LEMMA ContentDrain ==
  ASSUME WorkerInv, ContentInv, Handle \/ Resync
  PROVE  ContentInv'
<1>1. pc = "drain" /\ pc' = "drain" /\ rows' = rows
  BY DEF Handle, Resync, dbVars
<1>2. \A a \in Aircraft :
        IF a \in Tracked THEN a \in Tracked' /\ Continues(Acc(a), Acc(a)')
        ELSE a \in Tracked' => \E first \in Time : /\ Begins(Acc(a)', first)
                                                   /\ LastEnd(rows[a]) < first
  BY DrainEffect DEF WorkerInv
<1>3. ASSUME NEW a \in Aircraft, a \in Tracked
      PROVE  StoryOf(a)' /\ (Kept(a)' => Kept(a))
  <2>1. Continues(Acc(a), Acc(a)')
    BY <1>2, <1>3
  <2>2. Past(a)' = Past(a)
    BY <1>1, <2>1 DEF Past, Continues, Newest
  <2>3. StoryOf(a)
    BY <1>3 DEF ContentInv, MemoryStory
  <2>4. QED
    BY <1>1, <1>3, <2>1, <2>2, <2>3 DEF StoryOf, Continues, Kept
<1>4. ASSUME NEW a \in Aircraft, a \notin Tracked, a \in Tracked'
      PROVE  StoryOf(a)' /\ ~Kept(a)'
  <2>1. Acc(a)'.sid = 0 /\ Acc(a)'.cols = NoColumns /\ Acc(a)'.events = <<>>
    BY <1>2, <1>4 DEF Begins
  <2>2. Past(a)' = <<>>
    BY <2>1 DEF Past
  <2>3. <<>> \o <<>> = <<>>
    BY ConcatFacts DEF Timelines
  <2>4. Timeline(Past(a)' \o Acc(a)'.events, Acc(a)'.cols["severity"])
    BY <2>1, <2>2, <2>3, BlankTimeline
  <2>5. QED
    BY <1>1, <2>1, <2>4 DEF StoryOf, Kept
<1>5. MemoryStory'
  BY <1>3, <1>4 DEF MemoryStory
<1>6. CleanMemory'
  <2>1. ASSUME NEW a \in Aircraft, Kept(a)', Acc(a)'.dirty # TRUE
        PROVE  Newest(rows[a]).cols = Acc(a)'.cols
    <3>1. a \in Tracked /\ Kept(a)
      BY <1>3, <1>4, <2>1 DEF Kept
    <3>2. Continues(Acc(a), Acc(a)')
      BY <1>2, <3>1
    <3>3. QED
      BY <2>1, <3>1, <3>2 DEF ContentInv, CleanMemory, Continues
  <2>2. QED
    BY <1>1, <2>1 DEF CleanMemory, Newest
<1>7. RowStory'
  BY <1>1 DEF ContentInv, RowStory
<1>8. ~Committing' /\ ~Drafting'
  BY <1>1 DEF Committing, Drafting
<1>9. QED
  BY <1>5, <1>6, <1>7, <1>8, NoDrafts, NoCommit DEF ContentInv

\* The transaction appends what was queued and writes the columns with it.
LEMMA ContentWriteRows ==
  ASSUME WorkerInv, ContentInv, WriteRows
  PROVE  ContentInv'
<1>1. pc = "begun" /\ pc' = "written" /\ UNCHANGED <<rows, active, pending, cycle>>
  BY DEF WriteRows, dbVars
<1>2. /\ \A x \in Aircraft : SameSighting(x) /\ Acc(x)' = Acc(x)
      /\ Committing /\ Committing'
  BY <1>1, Untouched DEF Committing
<1>3. \A x \in Aircraft : Past(x)' = Past(x)
  BY <1>1, <1>2, SamePast
<1>4. RowStory' /\ CycleStory' /\ CleanMemory'
  <2>1. RowStory'
    BY <1>1 DEF ContentInv, RowStory
  <2>2. CycleStory'
    BY <1>1, <1>2 DEF ContentInv, CycleStory, SameSighting
  <2>3. CleanMemory'
    BY <1>1, <1>2 DEF ContentInv, CleanMemory, Kept, SameSighting, Newest
  <2>4. QED
    BY <2>1, <2>2, <2>3
<1>5. MemoryStory'
  BY <1>1, <1>2, <1>3 DEF ContentInv, MemoryStory, StoryOf, SameSighting
<1>6. ASSUME NEW a \in Aircraft
      PROVE  LET w == work'.rows[a]
             IN  /\ a \in Tracked =>
                      /\ Timeline(Newest(w).events, Acc(a).cols["severity"])
                      /\ Acc(a).dirty # TRUE \/ a \in cycle.opens \cup cycle.flushes
                           => Newest(w).cols = Acc(a).cols
                 /\ \A i \in DOMAIN w : i # Len(w) \/ a \notin cycle.due =>
                      Timeline(w[i].events, w[i].cols["severity"])
  <2> DEFINE w == work'.rows[a]
  <2>1. /\ a \notin Tracked => w = rows[a]
        /\ \A i \in DOMAIN w : a \notin Tracked \/ i # Len(w) =>
                                 i \in DOMAIN rows[a] /\ w[i] = rows[a][i]
        /\ a \in Tracked =>
             /\ a \in cycle.opens => Newest(w).cols = Acc(a).cols /\ Newest(w).events = cycle.queued[a]
             /\ a \notin cycle.opens =>
                  /\ Len(w) = Len(rows[a]) /\ Kept(a)
                  /\ Newest(w).cols = IF a \in cycle.flushes THEN Acc(a).cols
                                      ELSE Newest(rows[a]).cols
                  /\ Newest(w).events = Newest(rows[a]).events \o cycle.queued[a]
    BY WriteRowsView
  <2>2. Newest(w) = w[Len(w)] /\ Newest(rows[a]) = rows[a][Len(rows[a])]
    BY DEF Newest
  <2> HIDE DEF w
  <2>3. \A i \in DOMAIN rows[a] : Timeline(rows[a][i].events, rows[a][i].cols["severity"])
    BY DEF ContentInv, RowStory
  <2>4. CASE a \notin Tracked
    BY <2>1, <2>3, <2>4 DEF w
  <2>5. CASE a \in Tracked
    <3>1. /\ cycle.queued[a] = Acc(a).events
          /\ Timeline(Past(a) \o Acc(a).events, Acc(a).cols["severity"])
          /\ a \notin cycle.opens /\ a \notin cycle.flushes /\ a \notin cycle.due =>
               cycle.queued[a] = <<>>
      BY <1>1, <1>2, <2>5 DEF ContentInv, CycleStory, MemoryStory, StoryOf
    <3>2. a \in cycle.opens <=> Acc(a).sid = 0
      BY <1>2, <2>5 DEF WorkerInv, CycleInv, Decided
    <3>3. /\ Acc(a).events \in Timelines
          /\ Kept(a) => Newest(rows[a]).events \in Timelines
          /\ Kept(a) => Len(rows[a]) \in DOMAIN rows[a]
      BY <2>5, PastIs, OwnsNewest
    <3>4. Timeline(Newest(w).events, Acc(a).cols["severity"])
      <4>1. CASE a \in cycle.opens
        <5>1. Past(a) \o Acc(a).events = Acc(a).events
          BY <3>2, <3>3, <4>1, ConcatFacts DEF Past
        <5>2. QED
          BY <2>1, <2>5, <3>1, <4>1, <5>1
      <4>2. CASE a \notin cycle.opens
        <5>1. Past(a) = Newest(rows[a]).events
          BY <3>2, <4>2 DEF Past
        <5>2. QED
          BY <2>1, <2>5, <3>1, <4>2, <5>1
      <4>3. QED
        BY <4>1, <4>2
    <3>5. Acc(a).dirty # TRUE \/ a \in cycle.opens \cup cycle.flushes => Newest(w).cols = Acc(a).cols
      <4>1. Kept(a) /\ Acc(a).dirty # TRUE => Newest(rows[a]).cols = Acc(a).cols
        BY DEF ContentInv, CleanMemory
      <4>2. QED
        BY <2>1, <2>5, <4>1
    <3>6. a \notin cycle.due => Timeline(Newest(w).events, Newest(w).cols["severity"])
      <4>1. CASE a \in cycle.opens \/ a \in cycle.flushes
        BY <3>4, <3>5, <4>1
      <4>2. CASE a \notin cycle.opens /\ a \notin cycle.flushes /\ a \notin cycle.due
        <5>1. Kept(a) /\ cycle.queued[a] = <<>> /\ Newest(w).cols = Newest(rows[a]).cols
          BY <2>1, <2>5, <3>1, <4>2
        <5>2. Newest(w).events = Newest(rows[a]).events
          BY <2>1, <2>5, <3>3, <4>2, <5>1, ConcatFacts
        <5>3. Timeline(Newest(rows[a]).events, Newest(rows[a]).cols["severity"])
          BY <2>2, <2>3, <3>3, <5>1
        <5>4. QED
          BY <5>1, <5>2, <5>3
      <4>3. QED
        BY <4>1, <4>2
    <3>7. ASSUME NEW i \in DOMAIN w, i # Len(w) \/ a \notin cycle.due
          PROVE  Timeline(w[i].events, w[i].cols["severity"])
      <4>1. CASE i # Len(w)
        BY <2>1, <2>3, <3>7, <4>1
      <4>2. CASE i = Len(w)
        BY <2>2, <3>6, <3>7, <4>2
      <4>3. QED
        BY <4>1, <4>2
    <3>8. QED
      BY <3>4, <3>5, <3>7 DEF w
  <2>6. QED
    BY <2>4, <2>5
<1>7. DraftStory'
  BY <1>1, <1>2, <1>6 DEF DraftStory, SameSighting, Newest
<1>8. CleanDraft'
  BY <1>1, <1>2, <1>6 DEF CleanDraft, SameSighting, Newest
<1>9. QED
  BY <1>4, <1>5, <1>7, <1>8 DEF ContentInv

\* A close writes the final columns and no event.
LEMMA ContentWriteCloses ==
  ASSUME WorkerInv, ContentInv, WriteCloses
  PROVE  ContentInv'
<1>1. /\ pc = "written" /\ pc' = "closing" /\ UNCHANGED <<rows, active, pending, cycle>>
      /\ Drafting
  BY DEF WriteCloses, dbVars, Drafting
<1>2. /\ \A x \in Aircraft : SameSighting(x) /\ Acc(x)' = Acc(x)
      /\ Committing /\ Committing'
  BY <1>1, Untouched DEF Committing
<1>3. \A x \in Aircraft : Past(x)' = Past(x)
  BY <1>1, <1>2, SamePast
<1>4. RowStory' /\ CycleStory' /\ CleanMemory'
  <2>1. RowStory'
    BY <1>1 DEF ContentInv, RowStory
  <2>2. CycleStory'
    BY <1>1, <1>2 DEF ContentInv, CycleStory, SameSighting
  <2>3. CleanMemory'
    BY <1>1, <1>2 DEF ContentInv, CleanMemory, Kept, SameSighting, Newest
  <2>4. QED
    BY <2>1, <2>2, <2>3
<1>5. MemoryStory'
  BY <1>1, <1>2, <1>3 DEF ContentInv, MemoryStory, StoryOf, SameSighting
<1>6. ASSUME NEW a \in Aircraft
      PROVE  LET c == work'.rows[a]
             IN  /\ a \in Tracked =>
                      /\ Timeline(Newest(c).events, Acc(a).cols["severity"])
                      /\ Acc(a).dirty # TRUE \/ a \in cycle.opens \cup cycle.flushes
                           => Newest(c).cols = Acc(a).cols
                 /\ \A i \in DOMAIN c : Timeline(c[i].events, c[i].cols["severity"])
  <2> DEFINE w == work.rows[a]  c == work'.rows[a]
  <2>1. /\ Len(c) = Len(w) /\ DOMAIN c = DOMAIN w
        /\ \A i \in DOMAIN c : i # Len(w) \/ a \notin cycle.due => c[i] = w[i]
        /\ a \in cycle.due => /\ a \in Tracked /\ Newest(c).cols = Acc(a).cols
                              /\ Newest(c).events = Newest(w).events
        /\ a \notin cycle.due => c = w
    BY WriteClosesView
  <2>2. Newest(c) = c[Len(c)]
    BY DEF Newest
  <2>3. /\ a \in Tracked => Timeline(Newest(w).events, Acc(a).cols["severity"])
        /\ \A i \in DOMAIN w : i # Len(w) \/ a \notin cycle.due =>
             Timeline(w[i].events, w[i].cols["severity"])
        /\ a \in Tracked /\ (Acc(a).dirty # TRUE \/ a \in cycle.opens \cup cycle.flushes)
             => Newest(w).cols = Acc(a).cols
    BY <1>1 DEF ContentInv, DraftStory, CleanDraft
  <2> HIDE DEF w, c
  <2>4. a \in Tracked => Timeline(Newest(c).events, Acc(a).cols["severity"])
    BY <2>1, <2>3
  <2>5. a \in Tracked /\ (Acc(a).dirty # TRUE \/ a \in cycle.opens \cup cycle.flushes)
          => Newest(c).cols = Acc(a).cols
    BY <2>1, <2>3
  <2>6. ASSUME NEW i \in DOMAIN c
        PROVE  Timeline(c[i].events, c[i].cols["severity"])
    <3>1. CASE i # Len(w) \/ a \notin cycle.due
      BY <2>1, <2>3, <2>6, <3>1
    <3>2. CASE i = Len(w) /\ a \in cycle.due
      BY <2>1, <2>2, <2>4, <3>2
    <3>3. QED
      BY <3>1, <3>2
  <2>7. QED
    BY <2>4, <2>5, <2>6 DEF c
<1>7. DraftStory'
  BY <1>1, <1>2, <1>6 DEF DraftStory, SameSighting, Newest
<1>8. CleanDraft'
  BY <1>1, <1>2, <1>6 DEF CleanDraft, SameSighting, Newest
<1>9. QED
  BY <1>4, <1>5, <1>7, <1>8 DEF ContentInv

\* What the transaction showed is what the table holds.
LEMMA ContentCommit ==
  ASSUME ContentInv, Commit
  PROVE  ContentInv'
<1>1. /\ pc = "closing" /\ pc' = "committed" /\ rows' = work.rows
      /\ UNCHANGED <<active, pending, cycle>> /\ Drafting
  BY DEF Commit, Drafting
<1>2. /\ \A x \in Aircraft : SameSighting(x) /\ Acc(x)' = Acc(x)
      /\ Committing /\ Committing' /\ ~Drafting'
  BY <1>1, Untouched DEF Committing, Drafting
<1>3. RowStory'
  BY <1>1 DEF ContentInv, DraftStory, RowStory
<1>4. MemoryStory'
  BY <1>1, <1>2 DEF ContentInv, DraftStory, MemoryStory, StoryOf, SameSighting, Newest
<1>5. CycleStory'
  BY <1>1, <1>2 DEF ContentInv, CycleStory, SameSighting
<1>6. CleanMemory'
  BY <1>1, <1>2 DEF ContentInv, CleanDraft, CleanMemory, Kept, SameSighting, Newest
<1>7. QED
  BY <1>2, <1>3, <1>4, <1>5, <1>6, NoDrafts DEF ContentInv

\* Only what was written leaves the queue, and only with it the flush request.
LEMMA ContentNote ==
  ASSUME WorkerInv, ContentInv, NoteCommitted
  PROVE  ContentInv'
<1>1. pc = "committed" /\ pc' # "committed" /\ ~Drafting' /\ ~Committing' /\ rows' = rows /\ Committing
  BY EndOfCycleIs DEF NoteCommitted, Drafting, Committing, dbVars
<1>2. ASSUME NEW a \in Aircraft, a \in Tracked'
      PROVE  /\ Kept(a)
             /\ Acc(a)'.sid # 0 /\ Acc(a)'.cols = Acc(a).cols /\ Acc(a)'.events = <<>>
             /\ Acc(a)'.dirty # TRUE => Acc(a).dirty # TRUE \/ a \in cycle.opens \cup cycle.flushes
             /\ Newest(rows[a]).events \in Timelines
             /\ StoryOf(a)
  <2>1. a \in Tracked /\ Acc(a)' = Noted(Acc(a), a)
    BY <1>2, NoteEffect DEF WorkerInv
  <2>2. Acc(a) \in Accs /\ TypeOK
    BY <2>1, OwnsNewest DEF WorkerInv
  <2>3. cycle \in Cycles
    BY DEF WorkerInv, StageInv
  <2>4. Kept(a) /\ Newest(rows[a]).events \in Timelines /\ Len(rows[a]) \in DOMAIN rows[a]
    BY <1>1, <2>1, OwnsNewest, PastIs DEF Kept
  <2>5. Len(rows[a]) # 0
    <3>1. rows[a] \in Seq(Rows)
      BY <2>2 DEF TypeOK
    <3>2. QED
      BY <2>4, <3>1
  <2>6. a \in cycle.opens <=> Acc(a).sid = 0
    BY <1>1, <2>1 DEF WorkerInv, CycleInv, Decided
  <2>7. /\ Noted(Acc(a), a).sid = IF a \in cycle.opens THEN Len(rows[a]) ELSE Acc(a).sid
        /\ Noted(Acc(a), a).cols = Acc(a).cols
        /\ Noted(Acc(a), a).events =
             SubSeq(Acc(a).events, Len(cycle.queued[a]) + 1, Len(Acc(a).events))
        /\ Noted(Acc(a), a).dirty =
             IF a \in cycle.opens \cup cycle.flushes THEN FALSE ELSE Acc(a).dirty
    BY <2>2, <2>3, NotedKeeps
  <2>8. Noted(Acc(a), a).events = <<>>
    <3>1. cycle.queued[a] = Acc(a).events /\ Acc(a).events \in Timelines
      BY <1>1, <2>1, PastIs DEF ContentInv, CycleStory
    <3>2. QED
      BY <2>7, <3>1, ConcatFacts
  <2>9. StoryOf(a)
    BY <2>1 DEF ContentInv, MemoryStory
  <2> DEFINE t == Noted(Acc(a), a)
  <2>10. t.sid # 0 /\ t.cols = Acc(a).cols /\ t.events = <<>>
    BY <2>5, <2>6, <2>7, <2>8
  <2>11. t.dirty # TRUE => Acc(a).dirty # TRUE \/ a \in cycle.opens \cup cycle.flushes
    BY <2>7
  <2> HIDE DEF t
  <2>12. Acc(a)' = t
    BY <2>1 DEF t
  <2>13. QED
    BY <2>4, <2>9, <2>10, <2>11, <2>12
<1>3. ASSUME NEW a \in Aircraft, a \in Tracked'
      PROVE  StoryOf(a)'
  <2>1. Past(a)' = Newest(rows[a]).events
    BY <1>1, <1>2, <1>3 DEF Past, Newest
  <2>2. Past(a)' \o Acc(a)'.events = Newest(rows[a]).events
    BY <1>2, <1>3, <2>1, ConcatFacts
  <2>3. Timeline(Newest(rows[a]).events, Acc(a)'.cols["severity"])
    BY <1>1, <1>2, <1>3 DEF StoryOf
  <2>4. QED
    BY <1>1, <1>2, <1>3, <2>2, <2>3 DEF StoryOf
<1>4. MemoryStory'
  BY <1>3 DEF MemoryStory
<1>5. CleanMemory'
  <2>1. ASSUME NEW a \in Aircraft, Kept(a)', Acc(a)'.dirty # TRUE
        PROVE  Newest(rows[a]).cols = Acc(a)'.cols
    <3>1. a \in Tracked'
      BY <2>1 DEF Kept
    <3>2. Newest(rows[a]).cols = Acc(a).cols
      BY <1>1, <1>2, <2>1, <3>1 DEF ContentInv, CleanMemory
    <3>3. QED
      BY <1>2, <3>1, <3>2
  <2>2. QED
    BY <1>1, <2>1 DEF CleanMemory, Newest
<1>6. RowStory'
  BY <1>1 DEF ContentInv, RowStory
<1>7. QED
  BY <1>1, <1>4, <1>5, <1>6, NoDrafts, NoCommit DEF ContentInv

\* A stopped process leaves its rows.
LEMMA ContentPowerOff ==
  ASSUME ContentInv, PowerOff
  PROVE  ContentInv'
<1>1. Tracked' = {} /\ rows' = rows /\ pc' = "down"
  BY DEF PowerOff, dbVars, Tracked, HasActive, HasPending
<1>2. ~Drafting' /\ ~Committing'
  BY <1>1 DEF Drafting, Committing
<1>3. RowStory' /\ MemoryStory' /\ CleanMemory'
  BY <1>1 DEF ContentInv, RowStory, MemoryStory, CleanMemory, Kept
<1>4. QED
  BY <1>2, <1>3, NoDrafts, NoCommit DEF ContentInv

\* An accumulator rebuilt from its row has the row's timeline and no more.
LEMMA Rebuilt ==
  ASSUME RowStory, NEW a \in Aircraft, pc' # "committed", rows'[a] = rows[a],
         rows[a] \in Seq(Rows), Len(rows[a]) \in DOMAIN rows[a],
         Acc(a)'.sid = Len(rows[a]), Acc(a)'.cols = Newest(rows[a]).cols, Acc(a)'.events = <<>>
  PROVE  StoryOf(a)'
<1>1. Newest(rows[a]) = rows[a][Len(rows[a])] /\ Acc(a)'.sid # 0 /\ Newest(rows[a]) \in Rows
  BY DEF Newest
<1>2. Past(a)' = Newest(rows[a]).events
  BY <1>1 DEF Past, Newest
<1>3. Past(a)' \o Acc(a)'.events = Newest(rows[a]).events
  BY <1>1, <1>2, SeverityType, ConcatFacts
<1>4. Timeline(Newest(rows[a]).events, Acc(a)'.cols["severity"])
  BY <1>1 DEF RowStory
<1>5. QED
  BY <1>3, <1>4 DEF StoryOf

\* start() adopts what the rows say.
LEMMA ContentStart ==
  ASSUME WorkerInv, ContentInv, Start
  PROVE  ContentInv'
<1>1. pc' = "recover" /\ rows' = rows
  BY DEF Start, dbVars
<1>2. ~Drafting' /\ ~Committing' /\ RowStory'
  BY <1>1 DEF Drafting, Committing, ContentInv, RowStory
<1>3. ASSUME NEW a \in Aircraft, a \in Tracked'
      PROVE  StoryOf(a)' /\ Newest(rows[a]).cols = Acc(a)'.cols
  <2>1. /\ rows[a] \in Seq(Rows) /\ Len(rows[a]) \in DOMAIN rows[a]
        /\ Acc(a)'.sid = Len(rows[a])
        /\ Acc(a)'.cols = Newest(rows[a]).cols /\ Acc(a)'.events = <<>>
    BY <1>3, StartMemory
  <2>2. QED
    BY <1>1, <2>1, Rebuilt DEF ContentInv
<1>4. MemoryStory' /\ CleanMemory'
  BY <1>1, <1>3 DEF MemoryStory, CleanMemory, Kept, Newest
<1>5. QED
  BY <1>2, <1>4, NoDrafts, NoCommit DEF ContentInv

\* Recovery ends rows, or hands them to the worker, with the columns and the
\* timeline they had.
LEMMA ContentRecovers ==
  ASSUME WorkerInv, ContentInv, NEW a, NEW i, <<a, i>> \in toRecover,
         RecoverClose(a, i) \/ RecoverFails(a, i)
  PROVE  ContentInv'
<1>1. CASE RecoverClose(a, i)
  <2>1. /\ a \in Aircraft /\ pc # "committed" /\ pc' # "committed" /\ ~Drafting' /\ ~Committing'
        /\ a \notin Tracked
        /\ \A x \in Aircraft : /\ SameSighting(x) /\ Acc(x)' = Acc(x)
                               /\ x # a => rows'[x] = rows[x]
        /\ \A x \in Aircraft : /\ DOMAIN rows'[x] = DOMAIN rows[x]
                               /\ \A j \in DOMAIN rows[x] : /\ rows'[x][j].cols = rows[x][j].cols
                                                            /\ rows'[x][j].events = rows[x][j].events
    BY <1>1, RecoverCloseRows
  <2>2. RowStory'
    BY <2>1 DEF ContentInv, RowStory
  <2>3. \A x \in Tracked : x \in Aircraft /\ rows'[x] = rows[x]
    BY <2>1 DEF Tracked
  <2>4. \A x \in Tracked : Past(x)' = Past(x)
    BY <2>1, <2>3, SamePast
  <2>5. MemoryStory'
    BY <2>1, <2>3, <2>4 DEF ContentInv, MemoryStory, StoryOf, SameSighting
  <2>6. CleanMemory'
    <3>1. \A x \in Aircraft : Kept(x)' => Kept(x) /\ Newest(rows[x])' = Newest(rows[x])
      BY <2>1, <2>3 DEF Kept, SameSighting, Newest
    <3>2. QED
      BY <2>1, <3>1 DEF ContentInv, CleanMemory
  <2>7. QED
    BY <2>1, <2>2, <2>5, <2>6, NoDrafts, NoCommit DEF ContentInv
<1>2. CASE RecoverFails(a, i)
  <2>1. pc = "recover" /\ pc' = "recover" /\ rows' = rows
    BY <1>2 DEF RecoverFails, dbVars
  <2>2. /\ a \in Aircraft /\ rows[a] \in Seq(Rows) /\ Len(rows[a]) \in DOMAIN rows[a]
        /\ a \in Tracked' /\ Acc(a)'.sid = Len(rows[a])
        /\ Acc(a)'.cols = Newest(rows[a]).cols /\ Acc(a)'.events = <<>>
        /\ \A x \in Aircraft : x # a => SameSighting(x) /\ Acc(x)' = Acc(x)
    BY <1>2, RecoverFailsMemory
  <2>3. ~Drafting' /\ ~Committing' /\ RowStory'
    BY <2>1 DEF Drafting, Committing, ContentInv, RowStory
  <2>4. StoryOf(a)'
    BY <2>1, <2>2, Rebuilt DEF ContentInv
  <2>5. \A x \in Aircraft : x # a => Past(x)' = Past(x)
    BY <2>1, <2>2, SamePast
  <2>6. \A x \in Aircraft : x # a /\ x \in Tracked' => StoryOf(x)'
    BY <2>1, <2>2, <2>5 DEF ContentInv, MemoryStory, StoryOf, SameSighting
  <2>7. MemoryStory'
    BY <2>4, <2>6 DEF MemoryStory
  <2>8. CleanMemory'
    BY <2>1, <2>2 DEF ContentInv, CleanMemory, Kept, SameSighting, Newest
  <2>9. QED
    BY <2>3, <2>7, <2>8, NoDrafts, NoCommit DEF ContentInv
<1>3. QED
  BY <1>1, <1>2

\* The step is no apply_* call inside a cycle.
AppliedAtRest == \A a \in Aircraft, col \in Column, v \in Nat : Apply(a, col, v) => pc = "idle"

\* No step separates a column from its events, while apply_* runs between
\* cycles.
LEMMA ContentStep ==
  ASSUME WorkerInv, ContentInv, [Next]_vars, [CommitIsNoted]_vars, [AppliedAtRest]_vars
  PROVE  ContentInv'
<1>1. CASE Clock \/ LiveStoreActs \/ UNCHANGED vars
  BY <1>1, AsideSteps, ContentAside
<1>2. CASE Drain \/ CycleFails \/ EstablishT0 \/ EstablishT0Fails \/ Stop \/ Recovered
  <2>1. ~Committing'
    BY <1>2, EndOfCycleIs DEF Committing, Drain, CycleFails, EstablishT0, EstablishT0Fails, Stop,
                              Recovered
  <2>2. QED
    BY <1>2, <2>1, SettledSteps, NoCommit, ContentSettled
<1>3. CASE Prepare
  BY <1>3, SettledSteps, ContentPrepare, ContentSettled DEF ContentInv
<1>4. ASSUME NEW a \in Aircraft, ApplyRoute(a) \/ ApplyInferredAirport(a) \/ ApplyAlertSeverity(a)
      PROVE  ContentInv'
  <2>1. \E col \in Column, v \in Nat : Apply(a, col, v)
    BY <1>4, WorkerAssumption DEF ApplyRoute, ApplyInferredAirport, ApplyAlertSeverity, Column
  <2>2. CASE pc = "idle"
    BY <2>1, <2>2, ContentApply
  <2>3. CASE UNCHANGED vars
    BY <1>1, <2>3
  <2>4. QED
    BY <2>1, <2>2, <2>3 DEF AppliedAtRest
<1>5. CASE Handle \/ Resync
  BY <1>5, ContentDrain
<1>6. CASE WriteRows \/ WriteCloses \/ Commit \/ NoteCommitted
  BY <1>6, ContentWriteRows, ContentWriteCloses, ContentCommit, ContentNote
<1>7. CASE Exit \/ Crash
  BY <1>7, ContentPowerOff DEF Exit, Crash
<1>8. CASE Start
  BY <1>8, ContentStart
<1>9. ASSUME NEW p \in toRecover, RecoverClose(p[1], p[2]) \/ RecoverFails(p[1], p[2])
      PROVE  ContentInv'
  <2>1. <<p[1], p[2]>> \in toRecover
    BY DEF WorkerInv, StageInv
  <2>2. QED
    BY <1>9, <2>1, ContentRecovers
<1>10. QED
  BY <1>1, <1>2, <1>3, <1>4, <1>5, <1>6, <1>7, <1>8, <1>9 DEF Next, CycleStep

\* Rows, timelines and what is still owed agree in every state (state.py
\* apply_*, worker.py _commit, repository.py append_events).
THEOREM ContentIsInvariant ==
  Spec /\ [][CommitIsNoted]_vars /\ [][AppliedAtRest]_vars => [](WorkerInv /\ ContentInv)
<1>1. Init => WorkerInv /\ ContentInv
  <2> SUFFICES ASSUME Init PROVE WorkerInv /\ ContentInv
    OBVIOUS
  <2>1. Tracked = {} /\ ~Drafting /\ ~Committing /\ \A a \in Aircraft : rows[a] = <<>>
    BY DEF Init, Tracked, HasActive, HasPending, Drafting, Committing
  <2>2. RowStory /\ MemoryStory /\ CleanMemory
    BY <2>1 DEF RowStory, MemoryStory, CleanMemory, Kept
  <2>3. CycleStory /\ DraftStory /\ CleanDraft
    BY <2>1 DEF CycleStory, DraftStory, CleanDraft
  <2>4. QED
    BY <2>2, <2>3, WorkerStarts DEF ContentInv
<1>2. (WorkerInv /\ ContentInv) /\ [Next]_vars /\ [CommitIsNoted]_vars /\ [AppliedAtRest]_vars
        => (WorkerInv /\ ContentInv)'
  BY WorkerStep, ContentStep
<1>3. QED
  BY <1>1, <1>2, PTL DEF Spec

\* alert_matched and alert_severity_upgraded are on a timeline exactly once
\* each, in rising order, whatever fails, crashes or is retried
\* (repository.append_events, state.mark_events_written).
THEOREM EventsAreWrittenOnce ==
  Spec /\ [][CommitIsNoted]_vars /\ [][AppliedAtRest]_vars => []EventsExactlyOnce
<1>1. ContentInv => EventsExactlyOnce
  BY DEF ContentInv, RowStory, Timeline, EventsExactlyOnce
<1>2. QED
  BY <1>1, ContentIsInvariant, PTL

\* In every committed state the severity column is the last severity event of
\* the timeline ("the column and its event land in one transaction",
\* state.apply_alert_severity).
THEOREM ColumnFollowsTimeline ==
  Spec /\ [][CommitIsNoted]_vars /\ [][AppliedAtRest]_vars => []ColumnAndEventTogether
<1>1. WorkerInv /\ ContentInv => ColumnAndEventTogether
  <2> SUFFICES ASSUME WorkerInv, ContentInv, NEW a \in Aircraft, NEW i \in DOMAIN rows[a]
               PROVE  LET r == rows[a][i]
                          sev == {k \in DOMAIN r.events : r.events[k][1] = "severity"}
                      IN  IF sev = {} THEN r.cols["severity"] = 0
                          ELSE \E k \in sev : /\ \A j \in sev : j <= k
                                              /\ r.events[k][2] = r.cols["severity"]
    BY DEF ColumnAndEventTogether
  <2> DEFINE r == rows[a][i]  ev == r.events  n == r.cols["severity"]
             sev == {k \in DOMAIN ev : ev[k][1] = "severity"}
  <2>1. Timeline(ev, n)
    BY DEF ContentInv, RowStory
  <2>2. ev \in Timelines /\ n \in Nat
    BY SeverityType DEF WorkerInv, TypeOK
  <2> HIDE DEF ev, n, r
  <2>3. \A k \in DOMAIN ev : k \in Nat /\ ev[k][2] \in Nat
    BY <2>2 DEF Timelines
  <2>4. sev = {} => n = 0
    BY <2>1 DEF Timeline
  <2>5. ASSUME sev # {}
        PROVE  \E k \in sev : (\A j \in sev : j <= k) /\ ev[k][2] = n
    <3>1. n # 0
      BY <2>1, <2>2, <2>3, <2>5 DEF Timeline
    <3>2. PICK k \in sev : ev[k][2] = n
      BY <2>1, <3>1 DEF Timeline
    <3>3. \A j \in sev : j <= k
      <4>1. ASSUME NEW j \in sev, k < j
            PROVE  FALSE
        <5>1. ev[k][2] < ev[j][2] /\ ev[j][2] <= n
          BY <2>1, <4>1 DEF Timeline
        <5>2. QED
          BY <2>2, <2>3, <3>2, <4>1, <5>1
      <4>2. QED
        BY <2>3, <4>1
    <3>4. QED
      BY <3>2, <3>3
  <2>6. QED
    BY <2>4, <2>5 DEF ev, n, r
<1>2. QED
  BY <1>1, ContentIsInvariant, PTL

\* Everything the worker promises about memory and rows at once: types, one
\* accumulator and one open row per aircraft, no orphan row, nothing clean that
\* is not written, a T0 that names a sighting (worker.py, recovery.py).
THEOREM WorkerKeepsItsPromises ==
  Spec /\ [][CommitIsNoted]_vars /\ [][AppliedAtRest]_vars => []WorkerInvariant
<1>1. WorkerInv /\ ContentInv => CleanMeansWritten
  <2> SUFFICES ASSUME WorkerInv, ContentInv, pc = "idle", NEW a \in Tracked,
                      Acc(a).sid # 0, ~Acc(a).dirty
               PROVE  rows[a][Acc(a).sid].cols = Acc(a).cols
    BY DEF CleanMeansWritten
  <2>1. a \in Aircraft /\ Kept(a)
    BY DEF Tracked, Kept
  <2>2. Acc(a).sid = Len(rows[a])
    BY <2>1, OwnsNewest
  <2>3. Newest(rows[a]).cols = Acc(a).cols
    BY <2>1 DEF ContentInv, CleanMemory
  <2>4. QED
    BY <2>2, <2>3 DEF Newest
<1>2. Spec /\ [][CommitIsNoted]_vars /\ [][AppliedAtRest]_vars => []CleanMeansWritten
  BY <1>1, ContentIsInvariant, PTL
<1>3. TypeOK /\ OneAccumulator /\ OneOpenSighting /\ OpenRowsOwned /\ CleanMeansWritten
        /\ T0NamesSighting => WorkerInvariant
  BY DEF WorkerInvariant
<1>4. QED
  BY <1>2, <1>3, WorkerIsTyped, OneAccumulatorHolds, OneOpenSightingHolds, OpenRowsAreOwned,
     T0IsOfASighting, PTL
-----------------------------------------------------------------------------
(* The airframe's totals: what a history of sightings adds up to.          *)
\* How long a closed sighting was observed, and what its airframe's row should hold for all of them.
Duration(h, i) == h[i].ended - h[i].started
ClosedOf(h) == {i \in DOMAIN h : ~Open(h[i])}
TotalOf(h) == LET duration(i) == Duration(h, i) IN MapThenSumSet(duration, ClosedOf(h))
Worth(r) == IF Open(r) THEN 0 ELSE r.ended - r.started

\* A sum over positions that may be taken in any order.
Adds(it, d, n) == /\ it[{}] = 0
                  /\ \A s \in SUBSET (1..n) : \A x \in s : it[s] = d[x] + it[s \ {x}]

\* Finitely many numbers have a sum, whatever order they are taken in.
LEMMA SumExists ==
  ASSUME NEW n \in Nat, NEW d \in [1..n -> Int]
  PROVE  \E it \in [SUBSET (1..n) -> Int] : Adds(it, d, n)
<1> DEFINE Good(m) == \E it \in [SUBSET (1..m) -> Int] : Adds(it, d, m)
           T == {m \in 0..n : ~Good(m)}
<1>1. Good(0)
  <2> DEFINE it == [s \in SUBSET (1..0) |-> 0]
  <2>1. it \in [SUBSET (1..0) -> Int]
    OBVIOUS
  <2>2. 1..0 = {}
    OBVIOUS
  <2>3. Adds(it, d, 0)
    BY <2>2 DEF Adds
  <2>4. QED
    BY <2>1, <2>3
<1>2. ASSUME NEW m \in 0..n, m # n, Good(m)
      PROVE  Good(m + 1)
  <2>1. PICK g \in [SUBSET (1..m) -> Int] : Adds(g, d, m)
    BY <1>2
  <2> DEFINE N == m + 1
             S == SUBSET (1..N)
             h == [s \in S |-> IF N \in s THEN d[N] + g[s \ {N}] ELSE g[s]]
  <2>2. /\ N \in 1..n /\ m \in Nat
        /\ \A s \in S : s \ {N} \in SUBSET (1..m) /\ (N \notin s => s \in SUBSET (1..m))
    <3>1. m \in Nat /\ N \in 1..n
      BY <1>2
    <3>2. \A i \in 1..N : i # N => i \in 1..m
      BY <3>1
    <3>3. QED
      BY <3>1, <3>2
  <2>3. /\ d[N] \in Int /\ \A s \in SUBSET (1..m) : g[s] \in Int
        /\ \A s \in SUBSET (1..m) : \A x \in s : d[x] \in Int /\ g[s] = d[x] + g[s \ {x}]
    <3>1. \A x \in 1..m : x \in 1..n
      BY <2>2
    <3>2. QED
      BY <2>1, <2>2, <3>1 DEF Adds
  <2> HIDE DEF N
  <2>4. h \in [S -> Int]
    BY <2>2, <2>3
  <2>5. ASSUME NEW s \in S, NEW x \in s
        PROVE  h[s] = d[x] + h[s \ {x}]
    <3>1. CASE x = N
      <4>1. h[s] = d[N] + g[s \ {N}] /\ h[s \ {N}] = g[s \ {N}]
        BY <3>1
      <4>2. QED
        BY <3>1, <4>1
    <3>2. CASE x # N /\ N \in s
      <4>1. h[s] = d[N] + g[s \ {N}] /\ h[s \ {x}] = d[N] + g[(s \ {x}) \ {N}]
        BY <3>2
      <4>2. PICK t : t = s \ {N}
        OBVIOUS
      <4>3. t \in SUBSET (1..m) /\ x \in t
        <5>1. s \ {N} \in SUBSET (1..m)
          BY <2>2, Zenon
        <5>2. x \in s \ {N}
          BY <3>2
        <5>3. QED
          BY <4>2, <5>1, <5>2, Zenon
      <4>4. g[t] = d[x] + g[t \ {x}] /\ d[x] \in Int /\ g[t \ {x}] \in Int
        BY <2>3, <4>3
      <4>5. t \ {x} = (s \ {x}) \ {N}
        BY <4>2
      <4>6. h[s] = d[N] + g[t] /\ h[s \ {x}] = d[N] + g[t \ {x}]
        BY <4>1, <4>2, <4>5
      <4>7. \A u, v, w \in Int : u + (v + w) = v + (u + w)
        OBVIOUS
      <4>8. d[N] + (d[x] + g[t \ {x}]) = d[x] + (d[N] + g[t \ {x}])
        BY <2>3, <4>4, <4>7, Zenon
      <4>9. h[s] = d[N] + (d[x] + g[t \ {x}])
        BY <4>4, <4>6, Zenon
      <4>10. QED
        BY <4>6, <4>8, <4>9, Zenon
    <3>3. CASE N \notin s
      <4>1. h[s] = g[s] /\ h[s \ {x}] = g[s \ {x}] /\ s \in SUBSET (1..m)
        BY <2>2, <3>3
      <4>2. QED
        BY <2>3, <4>1
    <3>4. QED
      BY <3>1, <3>2, <3>3
  <2>6. h[{}] = 0
    BY <2>1 DEF Adds
  <2>7. Adds(h, d, N)
    BY <2>5, <2>6 DEF Adds
  <2>8. QED
    BY <2>4, <2>7 DEF N
<1>3. ASSUME T # {} PROVE FALSE
  <2>1. T \subseteq Nat
    OBVIOUS
  <2> HIDE DEF Good
  <2>2. PICK m \in T : \A y \in T : m <= y
    BY <2>1, <1>3, NatMin
  <2>3. m # 0 /\ m \in 0..n /\ ~Good(m)
    BY <1>1
  <2>4. m - 1 \in 0..n /\ m - 1 # n /\ m - 1 \notin T
    BY <2>2, <2>3
  <2>5. Good(m - 1)
    BY <2>4
  <2>6. Good(m - 1 + 1)
    BY <2>4, <2>5, <1>2
  <2>7. QED
    BY <2>3, <2>6
<1>4. QED
  <2> HIDE DEF Good
  <2>1. Good(n)
    BY <1>3
  <2>2. QED
    BY <2>1 DEF Good

\* Two functions of subsets that take the same element off each.
Alike(f, g, d, S) ==
  /\ f[{}] = g[{}]
  /\ \A s \in SUBSET S : s # {} => \E x \in s : f[s] = d[x] + f[s \ {x}] /\ g[s] = d[x] + g[s \ {x}]

\* Two functions of the subsets of a finite set that follow one recursion are equal.
LEMMA OneRecursion ==
  ASSUME NEW S, IsFiniteSet(S), NEW f, NEW g, NEW d, Alike(f, g, d, S)
  PROVE  f[S] = g[S]
<1> DEFINE R == StrictSubsetOrdering(S)
           B == {s \in SUBSET S : f[s] # g[s]}
<1>1. SUFFICES ASSUME B # {} PROVE FALSE
  OBVIOUS
<1>2. IsWellFoundedOn(R, FiniteSubsetsOf(S))
  BY FS_StrictSubsetOrderingWellFounded
<1>3. B \subseteq FiniteSubsetsOf(S)
  BY FS_Subset DEF FiniteSubsetsOf
<1>4. PICK s \in B : \A y \in B : ~(<<y, s>> \in R)
  <2> HIDE DEF R, B
  <2>1. QED
    BY <1>1, <1>2, <1>3, WFMin
<1>5. s # {}
  BY DEF Alike
<1>6. PICK x \in s : f[s] = d[x] + f[s \ {x}] /\ g[s] = d[x] + g[s \ {x}]
  BY <1>5 DEF Alike
<1>7. <<s \ {x}, s>> \in R
  BY DEF StrictSubsetOrdering
<1>8. s \ {x} \notin B
  BY <1>4, <1>7
<1>9. f[s \ {x}] = g[s \ {x}]
  BY <1>8
<1>10. QED
  BY <1>6, <1>9

\* MapThenSumSet takes the durations in some order; the sum is the one of any order.
LEMMA TotalIsSum ==
  ASSUME NEW h \in Seq(Rows), NEW d, NEW it, Adds(it, d, Len(h)),
         \A i \in DOMAIN h : d[i] = Duration(h, i)
  PROVE  TotalOf(h) = it[ClosedOf(h)]
<1> DEFINE S == ClosedOf(h)
           dur(i) == Duration(h, i)
           pick(s) == CHOOSE x \in s : TRUE
           P(f) == f = [s \in SUBSET S |-> IF s = {} THEN 0 ELSE dur(pick(s)) + f[s \ {pick(s)}]]
           C == CHOOSE f : P(f)
           sum == [s \in SUBSET S |-> it[s]]
<1>1. TotalOf(h) = C[S]
  BY DEF TotalOf, MapThenSumSet, MapThenFoldSet
<1>2. DOMAIN h = 1..Len(h) /\ Len(h) \in Nat /\ S \in SUBSET (1..Len(h))
  BY DEF ClosedOf
<1> HIDE DEF S
<1>3. \A s \in SUBSET S : s # {} => /\ pick(s) \in s /\ s \ {pick(s)} \in SUBSET S
                                    /\ it[s] = dur(pick(s)) + it[s \ {pick(s)}]
                                    /\ d[pick(s)] = dur(pick(s))
  BY <1>2 DEF Adds
<1> HIDE DEF dur, pick
<1>4. P(sum)
  BY <1>3 DEF Adds
<1>5. P(C)
  BY <1>4
<1> HIDE DEF C
<1>6. C[{}] = it[{}]
  BY <1>5 DEF Adds
<1>7. \A s \in SUBSET S : s # {} => \E x \in s : C[s] = d[x] + C[s \ {x}] /\ it[s] = d[x] + it[s \ {x}]
  BY <1>3, <1>5
<1>8. IsFiniteSet(S)
  <2>1. IsFiniteSet(1..Len(h)) /\ S \subseteq 1..Len(h)
    BY <1>2, FS_Interval
  <2>2. QED
    BY <2>1, FS_Subset
<1>9. C[S] = it[S]
  <2>1. Alike(C, it, d, S)
    BY <1>6, <1>7 DEF Alike
  <2>2. QED
    BY <1>8, <2>1, OneRecursion
<1>10. QED
  BY <1>1, <1>9 DEF S

\* A running total of h, row by row.
RunsUp(g, h) ==
  /\ g \in [0..Len(h) -> Int] /\ g[0] = 0
  /\ \A i \in 1..Len(h) : g[i] = g[i - 1] + Worth(h[i])

\* What a row is worth is a number.
LEMMA WorthType == \A r \in Rows : Worth(r) \in Int
BY DEF Worth, Open, Rows, Time, None

\* The total of a history is the last of its running totals.
LEMMA TotalRuns ==
  ASSUME NEW h \in Seq(Rows)
  PROVE  \E g : RunsUp(g, h) /\ TotalOf(h) = g[Len(h)]
<1> DEFINE n == Len(h)
           d == [i \in 1..n |-> Duration(h, i)]
           S == ClosedOf(h)
<1>1. DOMAIN h = 1..n /\ n \in Nat /\ S \in SUBSET (1..n) /\ \A i \in 1..n : h[i] \in Rows
  BY DEF ClosedOf
<1>2. d \in [1..n -> Int]
  <2>1. \A r \in Rows : r.ended - r.started \in Int
    BY DEF Rows, Time, None
  <2>2. \A i \in 1..n : Duration(h, i) \in Int
    BY <1>1, <2>1 DEF Duration
  <2>3. QED
    BY <2>2
<1>3. \A i \in 1..n : d[i] = Duration(h, i)
  OBVIOUS
<1> HIDE DEF d
<1>4. PICK it \in [SUBSET (1..n) -> Int] : Adds(it, d, n)
  BY <1>1, <1>2, SumExists
<1> DEFINE g == [i \in 0..n |-> it[S \cap (1..i)]]
<1>5. \A i \in 0..n : S \cap (1..i) \in SUBSET (1..n) /\ it[S \cap (1..i)] \in Int
  BY <1>1
<1>6. g \in [0..n -> Int]
  BY <1>5
<1>7. g[0] = 0
  <2>1. S \cap (1..0) = {} /\ 0 \in 0..n
    BY <1>1
  <2>2. QED
    BY <1>4, <2>1 DEF Adds
<1>8. ASSUME NEW i \in 1..n
      PROVE  g[i] = g[i - 1] + Worth(h[i])
  <2>1. i \in 0..n /\ i - 1 \in 0..n /\ i \in Nat
    BY <1>1
  <2>2. g[i] = it[S \cap (1..i)] /\ g[i - 1] = it[S \cap (1..i - 1)] /\ g[i - 1] \in Int
    BY <1>6, <2>1
  <2>3. i \in S <=> ~Open(h[i])
    BY <1>1 DEF ClosedOf
  <2> HIDE DEF S, g
  <2>4. CASE i \in S
    <3>1. (S \cap (1..i)) \ {i} = S \cap (1..i - 1) /\ i \in S \cap (1..i)
      BY <1>1, <2>1, <2>4
    <3>2. it[S \cap (1..i)] = d[i] + it[S \cap (1..i - 1)]
      <4>1. PICK s : s = S \cap (1..i)
        OBVIOUS
      <4>2. s \in SUBSET (1..n) /\ i \in s
        BY <1>5, <2>1, <3>1, <4>1
      <4>3. it[s] = d[i] + it[s \ {i}]
        BY <1>4, <4>2 DEF Adds
      <4>4. QED
        BY <3>1, <4>1, <4>3
    <3>3. Worth(h[i]) = d[i] /\ d[i] \in Int
      BY <1>2, <1>3, <2>3, <2>4 DEF Worth, Duration
    <3>4. QED
      BY <2>2, <3>2, <3>3
  <2>5. CASE i \notin S
    <3>1. S \cap (1..i) = S \cap (1..i - 1)
      BY <1>1, <2>1, <2>5
    <3>2. Worth(h[i]) = 0
      BY <2>3, <2>5 DEF Worth
    <3>3. g[i] = g[i - 1]
      BY <2>2, <3>1, Zenon
    <3>4. QED
      BY <2>2, <3>2, <3>3
  <2>6. QED
    BY <2>4, <2>5
<1>9. TotalOf(h) = g[n]
  <2>1. S \cap (1..n) = S /\ n \in 0..n
    BY <1>1
  <2>2. TotalOf(h) = it[S]
    BY <1>1, <1>3, <1>4, TotalIsSum
  <2>3. QED
    BY <2>1, <2>2
<1> HIDE DEF g
<1>10. RunsUp(g, h)
  BY <1>6, <1>7, <1>8 DEF RunsUp
<1>11. QED
  BY <1>9, <1>10

\* Histories worth the same row by row have run up the same total.
LEMMA RunsAlike ==
  ASSUME NEW h \in Seq(Rows), NEW k \in Seq(Rows), NEW f, NEW g, RunsUp(f, h), RunsUp(g, k),
         NEW n \in Nat, n <= Len(h), n <= Len(k), \A i \in 1..n : Worth(h[i]) = Worth(k[i])
  PROVE  f[n] = g[n]
<1> DEFINE B == {i \in 0..n : f[i] # g[i]}
<1>1. SUFFICES ASSUME B # {} PROVE FALSE
  OBVIOUS
<1>2. B \subseteq Nat
  OBVIOUS
<1>3. PICK i \in B : \A y \in B : i <= y
  BY <1>1, <1>2, NatMin
<1>4. i # 0 /\ i \in 0..n
  BY DEF RunsUp
<1>5. i \in 1..n /\ i - 1 \in 0..n /\ i \in 1..Len(h) /\ i \in 1..Len(k)
  BY <1>4
<1>6. i - 1 \notin B
  BY <1>3, <1>5
<1>7. f[i - 1] = g[i - 1]
  BY <1>5, <1>6
<1>8. f[i] = f[i - 1] + Worth(h[i]) /\ g[i] = g[i - 1] + Worth(k[i]) /\ Worth(h[i]) = Worth(k[i])
  BY <1>5 DEF RunsUp
<1>9. f[i] = g[i]
  BY <1>7, <1>8
<1>10. QED
  BY <1>9

\* A history without rows has no duration.
LEMMA TotalOfNone == TotalOf(<<>>) = 0
<1>1. <<>> \in Seq(Rows) /\ Len(<<>>) = 0
  OBVIOUS
<1>2. PICK g : RunsUp(g, <<>>) /\ TotalOf(<<>>) = g[0]
  BY <1>1, TotalRuns
<1>3. QED
  BY <1>2 DEF RunsUp

\* A total is an integer, and the last row's share of it can be taken off.
LEMMA TotalSplits ==
  ASSUME NEW h \in Seq(Rows), NEW k \in Seq(Rows), Len(k) # 0,
         Len(h) = Len(k) \/ Len(h) = Len(k) - 1,
         \A i \in 1..Len(k) - 1 : Worth(h[i]) = Worth(k[i])
  PROVE  TotalOf(k) = IF Len(h) = Len(k) THEN TotalOf(h) - Worth(h[Len(h)]) + Worth(k[Len(k)])
                      ELSE TotalOf(h) + Worth(k[Len(k)])
<1> DEFINE n == Len(k) - 1
<1>1. PICK f : RunsUp(f, h) /\ TotalOf(h) = f[Len(h)]
  BY TotalRuns
<1>2. PICK g : RunsUp(g, k) /\ TotalOf(k) = g[Len(k)]
  BY TotalRuns
<1>3. n \in Nat /\ n <= Len(h) /\ n <= Len(k) /\ Len(k) \in 1..Len(k) /\ n \in 0..Len(h)
      /\ Len(h) \in Nat
  OBVIOUS
<1>4. f[n] = g[n] /\ f[n] \in Int
  <2>1. f[n] \in Int
    BY <1>1, <1>3 DEF RunsUp
  <2>2. f[n] = g[n]
    BY <1>1, <1>2, <1>3, RunsAlike
  <2>3. QED
    BY <2>1, <2>2
<1>5. g[Len(k)] = g[n] + Worth(k[Len(k)]) /\ Worth(k[Len(k)]) \in Int
  <2>1. k[Len(k)] \in Rows
    BY <1>3
  <2>2. QED
    BY <1>2, <1>3, <2>1, WorthType DEF RunsUp
<1>6. CASE Len(h) = Len(k)
  <2>1. h[Len(h)] \in Rows /\ Len(h) \in 1..Len(h) /\ n = Len(h) - 1
    BY <1>3, <1>6
  <2>2. f[Len(h)] = f[n] + Worth(h[Len(h)]) /\ Worth(h[Len(h)]) \in Int
    BY <1>1, <2>1, WorthType DEF RunsUp
  <2> HIDE DEF n
  <2>3. QED
    BY <1>1, <1>2, <1>4, <1>5, <1>6, <2>2
<1>7. CASE Len(h) = Len(k) - 1
  <2>1. Len(h) = n /\ Len(h) # Len(k)
    BY <1>3, <1>7
  <2> HIDE DEF n
  <2>2. QED
    BY <1>1, <1>2, <1>4, <1>5, <2>1
<1>8. QED
  BY <1>6, <1>7
-----------------------------------------------------------------------------
(* The airframe's totals.                                                  *)

\* An airframe's row agrees with its sightings, in the tables and in the
\* transaction that is about to replace them.
Accounts(f, h) == f.count = Len(h) /\ f.observed = TotalOf(h)
FrameDraft == Drafting => \A a \in Aircraft : Accounts(work.frame[a], work.rows[a])
FrameInv == (\A a \in Aircraft : Accounts(frame[a], rows[a])) /\ FrameDraft

\* What FrameAgrees says of one aircraft.
LEMMA AccountsAgree == FrameAgrees <=> \A a \in Aircraft : Accounts(frame[a], rows[a])
BY DEF FrameAgrees, Accounts, TotalOf, ClosedOf, Duration, MapThenSumSet, MapThenFoldSet

\* A step that leaves both tables alone and no transaction open, or the open one as it was.
LEMMA AccountsStay ==
  ASSUME FrameInv, UNCHANGED <<rows, frame>>, ~Drafting' \/ UNCHANGED <<work, pc>>
  PROVE  FrameInv'
BY DEF FrameInv, FrameDraft, Drafting

\* The newest row of a tracked aircraft is open until the cycle closes it.
LEMMA NewestIsOpen ==
  ASSUME WorkerInv, pc \in {"begun", "written"}, NEW a \in Aircraft, a \in Tracked, a \notin cycle.opens
  PROVE  /\ Len(rows[a]) \in 1..Len(rows[a]) /\ Len(rows[a]) # 0
         /\ rows[a][Len(rows[a])].ended = None
         /\ rows[a][Len(rows[a])].started = Acc(a).started
<1>1. OwnedBy(a) /\ (a \in cycle.opens <=> Acc(a).sid = 0)
  BY DEF WorkerInv, OwnerInv, OwnerOf, CycleInv, Decided, Committing
<1>2. LastOpen(rows[a]) /\ rows[a][Len(rows[a])].started = Acc(a).started /\ rows[a] \in Seq(Rows)
  BY <1>1 DEF OwnedBy, WorkerInv, TypeOK
<1>3. QED
  BY <1>2 DEF LastOpen

\* sighting_count moves with an open, total_observed_ms with no write but a close.
LEMMA WrittenFrameIs ==
  ASSUME TypeOK, NEW a \in Aircraft
  PROVE  /\ WrittenFrame(a).count = IF a \in cycle.opens THEN frame[a].count + 1 ELSE frame[a].count
         /\ WrittenFrame(a).observed = frame[a].observed
<1>1. frame[a] \in Frames
  BY DEF TypeOK
<1>2. QED
  BY <1>1 DEF WrittenFrame, Frames

\* open_sighting adds a row worth nothing yet and counts it; a flush changes neither.
LEMMA AccountsWriteRows ==
  ASSUME WorkerInv, FrameInv, WriteRows
  PROVE  FrameInv'
<1>1. /\ pc = "begun" /\ rows' = rows /\ frame' = frame
      /\ \A a \in Aircraft : work'.frame[a] = WrittenFrame(a) /\ work'.rows[a] = Written(a)
  BY DEF WriteRows, dbVars
<1>2. ASSUME NEW a \in Aircraft
      PROVE  Accounts(work'.frame[a], work'.rows[a])
  <2> DEFINE w == Written(a)  n == Sid(a)  h == rows[a]
  <2>1. /\ w \in Seq(Rows)
        /\ a \notin Tracked => w = h /\ a \notin cycle.opens
        /\ a \in Tracked =>
             /\ n = Len(w) /\ n \in Nat \ {0}
             /\ Len(w) = IF a \in cycle.opens THEN Len(h) + 1 ELSE Len(h)
             /\ \A i \in DOMAIN w : i # n => i \in DOMAIN h /\ w[i] = h[i]
             /\ w[n].ended = None
    BY <1>1, WrittenIs DEF WorkerInv
  <2>2. h \in Seq(Rows) /\ frame[a].count = Len(h) /\ frame[a].observed = TotalOf(h)
        /\ frame[a].observed \in Nat /\ Len(h) \in Nat
    BY DEF FrameInv, Accounts, WorkerInv, TypeOK, Frames
  <2>3. /\ WrittenFrame(a).count = IF a \in cycle.opens THEN Len(h) + 1 ELSE Len(h)
        /\ WrittenFrame(a).observed = TotalOf(h)
    BY <2>2, WrittenFrameIs DEF WorkerInv
  <2>4. a \in Tracked /\ a \notin cycle.opens => h[Len(h)].ended = None
    BY <1>1, NewestIsOpen
  <2> HIDE DEF w, n, h
  <2>5. CASE a \notin Tracked
    <3>1. w = h /\ a \notin cycle.opens
      BY <2>1, <2>5
    <3>2. Accounts(WrittenFrame(a), w)
      BY <2>3, <3>1 DEF Accounts
    <3>3. QED
      BY <1>1, <3>2 DEF w
  <2>6. CASE a \in Tracked
    <3>1. /\ Len(w) # 0 /\ Len(w) \in Nat /\ (Len(h) = Len(w) \/ Len(h) = Len(w) - 1)
          /\ DOMAIN w = 1..Len(w)
          /\ Worth(w[Len(w)]) = 0
      BY <2>1, <2>2, <2>6 DEF Worth, Open
    <3>2. \A i \in 1..Len(w) - 1 : Worth(h[i]) = Worth(w[i])
      <4>0. \A m \in Nat : \A i \in 1..m - 1 : i \in 1..m /\ i # m
        OBVIOUS
      <4>1. \A i \in 1..Len(w) - 1 : i \in DOMAIN w /\ i # Len(w)
        BY <3>1, <4>0, Zenon
      <4>2. QED
        BY <2>1, <2>6, <4>1
    <3>3. TotalOf(w) = IF Len(h) = Len(w) THEN TotalOf(h) - Worth(h[Len(h)]) + Worth(w[Len(w)])
                       ELSE TotalOf(h) + Worth(w[Len(w)])
      BY <2>1, <2>2, <3>1, <3>2, TotalSplits, Zenon
    <3>4. Len(h) = Len(w) => Worth(h[Len(h)]) = 0
      <4>1. Len(h) = Len(w) => a \notin cycle.opens
        BY <2>1, <2>2, <2>6
      <4>2. QED
        BY <2>4, <2>6, <4>1 DEF Worth, Open
    <3>5. TotalOf(w) = TotalOf(h)
      <4>1. TotalOf(h) \in Int
        BY <2>2
      <4>2. CASE Len(h) = Len(w)
        <5>1. TotalOf(w) = TotalOf(h) - 0 + 0
          BY <3>1, <3>3, <3>4, <4>2
        <5>2. QED
          BY <4>1, <5>1
      <4>3. CASE Len(h) # Len(w)
        <5>1. TotalOf(w) = TotalOf(h) + 0
          BY <3>1, <3>3, <4>3, Zenon
        <5>2. \A x \in Int : x + 0 = x
          OBVIOUS
        <5>3. QED
          BY <4>1, <5>1, <5>2, Zenon
      <4>4. QED
        BY <4>2, <4>3
    <3>6. Accounts(WrittenFrame(a), w)
      BY <2>1, <2>3, <2>6, <3>5 DEF Accounts
    <3>7. QED
      BY <1>1, <3>6 DEF w
  <2>7. QED
    BY <2>5, <2>6
<1>3. FrameDraft'
  BY <1>2 DEF FrameDraft, Accounts
<1>4. QED
  BY <1>1, <1>3 DEF FrameInv

\* A row that gets its end adds its whole duration, which it had not added before.
LEMMA CloseAdds ==
  ASSUME NEW h \in Seq(Rows), NEW k \in Seq(Rows), NEW f \in Frames, NEW s \in Accs, Accounts(f, h),
         Len(k) = Len(h), Len(h) # 0, \A i \in 1..Len(h) : i # Len(h) => k[i] = h[i],
         h[Len(h)].ended = None, k[Len(h)].started = s.started, k[Len(h)].ended = s.last,
         s.started <= s.last
  PROVE  Accounts(CloseFrame(f, s), k)
<1> DEFINE n == Len(h)
<1>1. s.last \in Nat /\ s.started \in Nat /\ f.observed \in Nat /\ n \in Nat
  BY AccFields DEF Frames, Accs, Time
<1>2. CloseFrame(f, s).count = f.count /\ CloseFrame(f, s).observed = f.observed + Later(0, s.last - s.started)
  BY DEF CloseFrame, Frames
<1>3. Later(0, s.last - s.started) = s.last - s.started
  BY <1>1 DEF Later
<1>4. Worth(h[n]) = 0 /\ Worth(k[n]) = s.last - s.started
  BY <1>1 DEF Worth, Open, None
<1>5. \A i \in 1..Len(k) - 1 : Worth(h[i]) = Worth(k[i])
  <2>1. \A i \in 1..n - 1 : i \in 1..n /\ i # n
    BY <1>1
  <2>2. QED
    BY <2>1
<1>6. TotalOf(k) = TotalOf(h) - Worth(h[n]) + Worth(k[n])
  BY <1>5, TotalSplits
<1>7. f.count = n /\ TotalOf(h) = f.observed
  BY DEF Accounts
<1>8. TotalOf(k) = f.observed + (s.last - s.started)
  BY <1>1, <1>4, <1>6, <1>7
<1>9. QED
  BY <1>2, <1>3, <1>7, <1>8 DEF Accounts

\* close_sighting adds a duration once, with the end it is measured to.
LEMMA AccountsWriteCloses ==
  ASSUME WorkerInv, FrameInv, WriteCloses
  PROVE  FrameInv'
<1>1. /\ pc = "written" /\ rows' = rows /\ frame' = frame /\ Drafting
      /\ \A a \in Aircraft : work'.frame[a] = IF a \in cycle.due THEN CloseFrame(work.frame[a], Acc(a))
                                              ELSE work.frame[a]
  BY DEF WriteCloses, dbVars, Drafting
<1>2. ASSUME NEW a \in Aircraft
      PROVE  Accounts(work'.frame[a], work'.rows[a])
  <2> DEFINE w == work.rows[a]  c == work'.rows[a]  n == Len(w)  h == rows[a]
  <2>1. /\ c \in Seq(Rows) /\ Len(c) = Len(w) /\ DOMAIN c = DOMAIN w
        /\ \A i \in DOMAIN c : i # n => c[i] = w[i]
        /\ a \notin cycle.due => c = w
        /\ a \in cycle.due => /\ a \in Tracked /\ n \in DOMAIN w
                              /\ c[n].started = w[n].started /\ c[n].ended = Acc(a).last
    BY ClosedIs
  <2>2. /\ w \in Seq(Rows) /\ DOMAIN w = 1..n /\ n \in Nat /\ work.frame[a] \in Frames
        /\ Accounts(work.frame[a], w) /\ Len(h) \in Nat
    BY <1>1 DEF FrameInv, FrameDraft, WorkerInv, TypeOK
  <2>3. CASE a \notin cycle.due
    <3>1. c = w /\ work'.frame[a] = work.frame[a]
      BY <1>1, <2>1, <2>3
    <3>2. QED
      BY <2>2, <3>1
  <2>4. CASE a \in cycle.due
    <3>1. /\ n = IF a \in cycle.opens THEN Len(h) + 1 ELSE Len(h)
          /\ \A i \in DOMAIN w :
               /\ w[i].started = IF i <= Len(h) THEN h[i].started ELSE Acc(a).started
               /\ w[i].ended = IF i <= Len(h) THEN h[i].ended ELSE None
      BY <1>1 DEF WorkerInv, WorkInv, WorkOf
    <3>2. a \notin cycle.opens => h[Len(h)].ended = None /\ h[Len(h)].started = Acc(a).started
      BY <1>1, <2>1, <2>4, NewestIsOpen
    <3>3. w[n].ended = None /\ w[n].started = Acc(a).started
      <4> HIDE DEF w, h, n, c
      <4>1. n \in DOMAIN w
        BY <2>1, <2>4
      <4>2. CASE a \in cycle.opens
        <5>1. n = Len(h) + 1 /\ ~(n <= Len(h))
          BY <2>2, <3>1, <4>2
        <5>2. QED
          BY <3>1, <4>1, <5>1
      <4>3. CASE a \notin cycle.opens
        <5>1. n = Len(h) /\ n <= Len(h)
          BY <2>2, <3>1, <4>3
        <5>2. QED
          BY <3>1, <3>2, <4>1, <4>3, <5>1
      <4>4. QED
        BY <4>2, <4>3
    <3>4. Acc(a) \in Accs /\ Acc(a).started <= Acc(a).last
      BY <2>1, <2>4, OwnsNewest DEF WorkerInv, MemoryInv, MemoryOf
    <3>5. PICK s \in Accs : s = Acc(a)
      BY <3>4, Zenon
    <3> HIDE DEF w, c, h, n
    <3>6. /\ Len(c) = Len(w) /\ Len(w) # 0 /\ \A i \in 1..Len(w) : i # Len(w) => c[i] = w[i]
          /\ w[Len(w)].ended = None /\ c[Len(w)].started = s.started /\ c[Len(w)].ended = s.last
          /\ s.started <= s.last
      <4>1. Len(c) = Len(w) /\ n = Len(w) /\ DOMAIN c = 1..Len(w)
        BY <2>1, <2>2 DEF n
      <4>2. Len(w) # 0
        <5>1. Len(w) \in 1..Len(w)
          BY <2>1, <2>2, <2>4, <4>1, Zenon
        <5>2. QED
          BY <5>1
      <4>3. \A i \in 1..Len(w) : i # Len(w) => c[i] = w[i]
        BY <2>1, <4>1, Zenon
      <4>4. w[Len(w)].ended = None /\ c[Len(w)].started = s.started /\ c[Len(w)].ended = s.last
        BY <2>1, <2>4, <3>3, <3>5, <4>1
      <4>5. QED
        BY <3>4, <3>5, <4>1, <4>2, <4>3, <4>4, Zenon
    <3>7. Accounts(CloseFrame(work.frame[a], s), c)
      BY <2>1, <2>2, <3>5, <3>6, CloseAdds
    <3>8. work'.frame[a] = CloseFrame(work.frame[a], s)
      BY <1>1, <2>4, <3>5
    <3>9. QED
      BY <3>7, <3>8 DEF c
  <2>5. QED
    BY <2>3, <2>4
<1>3. FrameDraft'
  BY <1>2 DEF FrameDraft, Accounts
<1>4. QED
  BY <1>1, <1>3 DEF FrameInv

\* _close_batch closes a row that was open, with the totals of that row alone.
LEMMA AccountsRecoverClose ==
  ASSUME WorkerInv, FrameInv, NEW a, NEW i, <<a, i>> \in toRecover, RecoverClose(a, i)
  PROVE  FrameInv'
<1> DEFINE s == Rehydrated(a, i, "shutdown_recovery")
           h == rows[a]
           k == rows'[a]
<1>1. /\ rows' = [rows EXCEPT ![a][i] = CloseRow(@, s, s.reason)]
      /\ frame' = [frame EXCEPT ![a] = CloseFrame(@, s)]
  BY DEF RecoverClose
<1>2. /\ a \in Aircraft /\ i = Len(h) /\ LastOpen(h) /\ i \in DOMAIN h
      /\ \A x \in Aircraft : x # a => rows'[x] = rows[x] /\ frame'[x] = frame[x]
      /\ k \in Seq(Rows) /\ Len(k) = Len(h)
      /\ \A j \in DOMAIN h : j # i => k[j] = h[j]
      /\ k[i].started = h[i].started
  BY RecoverCloseIs
<1>3. TypeOK /\ rows \in [Aircraft -> Seq(Rows)] /\ frame \in [Aircraft -> Frames]
  BY DEF WorkerInv, TypeOK
<1>4. h \in Seq(Rows) /\ frame[a] \in Frames /\ h[i] \in Rows /\ DOMAIN h = 1..Len(h) /\ Len(h) \in Nat
  BY <1>2, <1>3
<1>5. s \in Accs /\ s.started = h[i].started /\ s.started <= s.last
  BY <1>2, <1>3, RehydratedIs
<1> HIDE DEF s
<1>6. k[i] = CloseRow(h[i], s, s.reason)
  BY <1>1, <1>2, <1>3
<1>7. k[i].ended = s.last
  BY <1>4, <1>5, <1>6, CloseTypes
<1>8. Accounts(frame[a], h)
  BY <1>2 DEF FrameInv
<1> HIDE DEF h, k
<1>9. Accounts(CloseFrame(frame[a], s), k)
  <2>1. /\ Len(h) # 0 /\ \A j \in 1..Len(h) : j # Len(h) => k[j] = h[j]
        /\ h[Len(h)].ended = None /\ k[Len(h)].started = s.started /\ k[Len(h)].ended = s.last
    BY <1>2, <1>4, <1>5, <1>7 DEF LastOpen
  <2>2. QED
    BY <1>2, <1>4, <1>5, <1>8, <2>1, CloseAdds
<1>10. frame'[a] = CloseFrame(frame[a], s)
  BY <1>1, <1>2, <1>3
<1>11. \A x \in Aircraft : Accounts(frame'[x], rows'[x])
  <2>1. Accounts(frame'[a], rows'[a])
    BY <1>9, <1>10 DEF k
  <2>2. \A x \in Aircraft : x # a => Accounts(frame'[x], rows'[x])
    BY <1>2 DEF FrameInv
  <2>3. QED
    BY <2>1, <2>2
<1>12. ~Drafting'
  BY DEF RecoverClose, Drafting
<1>13. QED
  BY <1>11, <1>12 DEF FrameInv, FrameDraft, Accounts

\* No step lets an airframe's totals and its sightings part.
LEMMA AccountsStep ==
  ASSUME WorkerInv, FrameInv, [Next]_vars
  PROVE  FrameInv'
<1>1. CASE Clock \/ LiveStoreActs \/ UNCHANGED vars \/ Handle \/ Resync
  <2>1. UNCHANGED <<rows, frame, work, pc>>
    BY <1>1 DEF Clock, LiveStoreActs, vars, memVars, dbVars, Handle, Resync
  <2>2. QED
    BY <2>1, AccountsStay
<1>2. ASSUME NEW a \in Aircraft, ApplyRoute(a) \/ ApplyInferredAirport(a) \/ ApplyAlertSeverity(a)
      PROVE  FrameInv'
  <2>1. UNCHANGED <<rows, frame, work, pc>>
    BY <1>2 DEF ApplyRoute, ApplyInferredAirport, ApplyAlertSeverity, Apply, dbVars
  <2>2. QED
    BY <2>1, AccountsStay
<1>3. CASE \/ Drain \/ Prepare \/ NoteCommitted \/ EstablishT0 \/ CycleFails \/ EstablishT0Fails
           \/ Stop \/ Exit \/ Crash \/ Start \/ Recovered
  <2>1. UNCHANGED <<rows, frame>> /\ ~Drafting'
    BY <1>3, EndOfCycleIs DEF Drafting, Drain, Prepare, NoteCommitted, EstablishT0, CycleFails, EstablishT0Fails,
                              Stop, Exit, Crash, PowerOff, Start, Recovered, dbVars
  <2>2. QED
    BY <2>1, AccountsStay
<1>4. CASE WriteRows
  BY <1>4, AccountsWriteRows
<1>5. CASE WriteCloses
  BY <1>5, AccountsWriteCloses
<1>6. CASE Commit
  <2>1. rows' = work.rows /\ frame' = work.frame /\ Drafting /\ ~Drafting'
    BY <1>6 DEF Commit, Drafting
  <2>2. QED
    BY <2>1 DEF FrameInv, FrameDraft
<1>7. ASSUME NEW p \in toRecover, RecoverClose(p[1], p[2]) \/ RecoverFails(p[1], p[2])
      PROVE  FrameInv'
  <2>1. <<p[1], p[2]>> \in toRecover
    BY DEF WorkerInv, StageInv
  <2>2. CASE RecoverClose(p[1], p[2])
    BY <2>1, <2>2, AccountsRecoverClose
  <2>3. CASE RecoverFails(p[1], p[2])
    <3>1. UNCHANGED <<rows, frame>> /\ ~Drafting'
      BY <2>3 DEF RecoverFails, Drafting, dbVars
    <3>2. QED
      BY <3>1, AccountsStay
  <2>4. QED
    BY <1>7, <2>2, <2>3
<1>8. QED
  BY <1>1, <1>2, <1>3, <1>4, <1>5, <1>6, <1>7 DEF Next, CycleStep

\* sighting_count is the number of an airframe's sightings and
\* total_observed_ms the sum of the durations of those that ended, in every
\* committed state, whatever fails, crashes, is retried or recovered
\* (repository.open_sighting, close_sighting; recovery._close_batch).
THEOREM TotalsAreTheSightings == Spec /\ [][CommitIsNoted]_vars => []FrameAgrees
<1>1. Init => FrameInv
  <2> SUFFICES ASSUME Init PROVE FrameInv
    OBVIOUS
  <2>1. ~Drafting /\ \A a \in Aircraft : rows[a] = <<>> /\ frame[a] = NoFrame
    BY DEF Init, Drafting
  <2>2. \A a \in Aircraft : Accounts(frame[a], rows[a])
    BY <2>1, TotalOfNone DEF Accounts, NoFrame
  <2>3. QED
    BY <2>1, <2>2 DEF FrameInv, FrameDraft
<1>2. WorkerInv /\ FrameInv /\ [Next]_vars => FrameInv'
  BY AccountsStep
<1>3. FrameInv => FrameAgrees
  BY AccountsAgree DEF FrameInv
<1>4. QED
  BY <1>1, <1>2, <1>3, WorkerIsInvariant, PTL DEF Spec
=============================================================================
