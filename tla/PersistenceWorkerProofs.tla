----------------------- MODULE PersistenceWorkerProofs -----------------------
(***************************************************************************)
(* Proofs about the persistence worker for every number of aircraft, every *)
(* queue size, every gap, every answer enrichment may give and any number  *)
(* of failures and restarts (sightings/worker.py, sightings/repository.py, *)
(* db/meta.py).                                                            *)
(*                                                                         *)
(* WorkerInv says what every step relies on, one named part per concern:   *)
(*   StageInv   what each stage of the task holds: the queue is empty in   *)
(*              the synchronous block, memory is empty while it is down;   *)
(*   MemoryInv  one accumulator per aircraft, with a deadline exactly      *)
(*              while it awaits closure;                                   *)
(*   RowsInv    only the newest row is open, and a closed one's gap passed;*)
(*   OwnerInv   who owns the newest row: between commits, between a commit *)
(*              and its noting, and in recovery;                           *)
(*   NewsInv    whatever may still open a sighting is later than the end   *)
(*              of the last one;                                           *)
(*   CycleInv   what the cycle decided before its first await still holds  *)
(*              at every later one: a due sighting stays one nobody heard; *)
(*   WorkInv    what the open transaction shows of each aircraft;          *)
(*   LiveInv    the last word in the stream, or memory, knows who is live; *)
(*   T0NamesSighting  the saved t0 is the start of some row.               *)
(*                                                                         *)
(* The theorems are about the behaviours in which no stop falls between a  *)
(* commit and its noting (CommitIsNoted): where one does, OwnerInv fails,  *)
(* and the run StopDuplicatesSighting shows what follows.                  *)
(***************************************************************************)
EXTENDS PersistenceWorker, FiniteSetTheorems, WellFoundedInduction, TLAPS

Subscriptions == [queue : Seq(Events), overflowed : BOOLEAN]
Timelines == Seq(Column \X Nat)
Cycles == [at : Time, force : BOOLEAN, due : SUBSET Aircraft, opens : SUBSET Aircraft,
           flushes : SUBSET Aircraft, queued : [Aircraft -> Timelines],
           first : Time \cup {None}]

PoweredOff == pc \in {"down", "recover"}
Committing == pc \in {"begun", "written", "closing", "committed"}

\* The drained events and the queue are one stream: outside the synchronous
\* block nothing is drained, and inside it nothing is queued.
News == IF pc = "drain" THEN inbox ELSE Subscription.queue

\* Types of what TypeOK leaves open, and what each stage of the task holds.
StageInv ==
  /\ sub \in [Consumers -> Subscriptions]
  /\ cycle \in Cycles
  /\ toRecover \subseteq Aircraft \X (Nat \ {0})
  /\ pc = "drain" => Subscription.queue = <<>>
  /\ pc # "drain" => inbox = <<>>
  /\ pc # "recover" => toRecover = {}
  /\ PoweredOff => /\ Subscription = NewSubscription
                   /\ \A a \in Aircraft : live[a] = NotLive /\ active[a] = NoAcc
  /\ pc = "down" => \A a \in Aircraft : pending[a] = NoAcc

\* One accumulator per aircraft, and a deadline that follows its last
\* observation exactly while it awaits closure.
MemoryOf(a) ==
  /\ ~(HasActive(a) /\ HasPending(a))
  /\ HasActive(a) => Acc(a).deadline = None
  /\ HasPending(a) => Acc(a).deadline = Acc(a).last + CloseS
  /\ a \in Tracked => Acc(a).started <= Acc(a).last
MemoryInv == \A a \in Aircraft : MemoryOf(a)

\* Only the newest row may be open, and a row was closed only once its gap
\* had passed.
RowsOf(a) == \A i \in DOMAIN rows[a] :
  /\ ~Open(rows[a][i]) => /\ rows[a][i].started <= rows[a][i].ended
                          /\ rows[a][i].ended + CloseS <= now
  /\ i # Len(rows[a]) => ~Open(rows[a][i])
RowsInv == \A a \in Aircraft : RowsOf(a)

LastEnd(h) == IF h = <<>> THEN None ELSE h[Len(h)].ended
LastOpen(h) == h # <<>> /\ h[Len(h)].ended = None

\* Whatever may still open a sighting is later than the end of the last one.
NewsOf(a) ==
  /\ \A i \in DOMAIN News : News[i].icao = a => LastEnd(rows[a]) < News[i].first
  /\ a \in Present => LastEnd(rows[a]) < live[a].first
  /\ a \in Tracked /\ Acc(a).sid = 0 /\ pc # "committed" => LastEnd(rows[a]) < Acc(a).started
NewsInv == \A a \in Aircraft : NewsOf(a)

\* Who owns the newest row: between commits ...
OwnedBy(a) ==
  IF a \in Tracked /\ Acc(a).sid # 0
    THEN /\ LastOpen(rows[a])
         /\ Acc(a).sid = Len(rows[a])
         /\ rows[a][Len(rows[a])].started = Acc(a).started
    ELSE ~LastOpen(rows[a])

\* ... after one that memory has not noted yet ...
JustWritten(a) ==
  IF a \in Tracked
    THEN /\ rows[a] # <<>>
         /\ Acc(a).sid = IF a \in cycle.opens THEN 0 ELSE Len(rows[a])
         /\ rows[a][Len(rows[a])].started = Acc(a).started
         /\ rows[a][Len(rows[a])].ended = IF a \in cycle.due THEN Acc(a).last ELSE None
    ELSE ~LastOpen(rows[a])

\* ... and while recovery works through the rows a stopped process left open.
InRecovery(a) ==
  /\ \A i \in Nat : <<a, i>> \in toRecover =>
       i = Len(rows[a]) /\ LastOpen(rows[a]) /\ ~HasPending(a) /\ Stale(a, i)
  /\ LastOpen(rows[a]) /\ ~HasPending(a) => <<a, Len(rows[a])>> \in toRecover
  /\ HasPending(a) => Acc(a).sid # 0 /\ OwnedBy(a)

OwnerOf(a) ==
  /\ pc \notin {"committed", "down", "recover"} => OwnedBy(a)
  /\ pc = "committed" => JustWritten(a)
  /\ pc = "recover" => InRecovery(a)
OwnerInv == \A a \in Aircraft : OwnerOf(a)

\* A closure that is due concerns an aircraft that had left before the cycle
\* began, so whatever is heard of it since began after the gap.
DueOf(a) ==
  /\ HasPending(a)
  /\ Acc(a).last + CloseS <= cycle.at
  /\ \A i \in DOMAIN Subscription.queue :
       Subscription.queue[i].icao = a => cycle.at < Subscription.queue[i].first + RemoveS
  /\ a \in Present => cycle.at < live[a].first + RemoveS

\* What the cycle decided before its first await is still so at every later one.
Decided ==
  /\ cycle.at <= now
  /\ \A a \in Aircraft : a \in cycle.opens <=> a \in Tracked /\ Acc(a).sid = 0
  /\ \A a \in cycle.flushes : a \in Tracked
  /\ \A a \in Aircraft : cycle.queued[a] # <<>> => a \in Tracked
  /\ \A a \in cycle.due : DueOf(a)
  /\ cycle.opens # {} => \E a \in cycle.opens : cycle.first = Acc(a).started
FirstStored == \E a \in Aircraft : \E i \in DOMAIN rows[a] : rows[a][i].started = cycle.first
CycleInv == (Committing => Decided) /\ (pc = "t0" => FirstStored)

\* The periods the open transaction shows of one aircraft.
WorkOf(a) ==
  /\ Len(work.rows[a]) = IF a \in cycle.opens THEN Len(rows[a]) + 1 ELSE Len(rows[a])
  /\ \A i \in DOMAIN work.rows[a] :
       /\ work.rows[a][i].started =
            IF i <= Len(rows[a]) THEN rows[a][i].started ELSE Acc(a).started
       /\ work.rows[a][i].ended =
            IF pc = "closing" /\ a \in cycle.due /\ i = Len(work.rows[a]) THEN Acc(a).last
            ELSE IF i <= Len(rows[a]) THEN rows[a][i].ended
            ELSE None
WorkInv == pc \in {"written", "closing"} => \A a \in Aircraft : WorkOf(a)

\* Unless the stream has a gap, the last word on an aircraft decides whether it
\* is live; without one the worker already knows.
LastWord(a, i) == /\ News[i].icao = a /\ News[i].kind # "stale"
                  /\ \A j \in DOMAIN News : News[j].icao = a /\ j > i => News[j].kind = "stale"
LiveOf(a) ==
  \/ \E i \in DOMAIN News : LastWord(a, i) /\ (News[i].kind # "removed" <=> a \in Present)
  \/ /\ \A i \in DOMAIN News : News[i].icao = a => News[i].kind = "stale"
     /\ HasActive(a) <=> a \in Present
LiveInv == ~Subscription.overflowed => \A a \in Aircraft : LiveOf(a)

WorkerInv == /\ TypeOK /\ StageInv /\ MemoryInv /\ RowsInv /\ NewsInv /\ OwnerInv
             /\ CycleInv /\ WorkInv /\ LiveInv /\ T0NamesSighting
-----------------------------------------------------------------------------
\* A nonempty set of natural numbers has a least element.
LEMMA NatMin ==
  ASSUME NEW T, T \subseteq Nat, T # {}
  PROVE  \E x \in T : \A y \in T : x <= y
<1> DEFINE R == StrictSubsetOrdering(Nat)
           I == {0..n : n \in T}
<1>1. IsWellFoundedOn(R, FiniteSubsetsOf(Nat))
  BY FS_StrictSubsetOrderingWellFounded
<1>2. I \subseteq FiniteSubsetsOf(Nat) /\ I # {}
  <2>1. \A n \in Nat : IsFiniteSet(0..n)
    BY FS_Interval
  <2>2. \A n \in Nat : 0..n \in FiniteSubsetsOf(Nat)
    BY <2>1 DEF FiniteSubsetsOf
  <2>3. \A s \in I : s \in FiniteSubsetsOf(Nat)
    BY <2>2
  <2>4. PICK n \in T : TRUE
    OBVIOUS
  <2>5. 0..n \in I
    BY <2>4
  <2>6. QED
    BY <2>3, <2>5
<1>3. \E x \in I : \A y \in I : ~(<<y, x>> \in R)
  <2> HIDE DEF R, I
  <2>1. QED
    BY <1>1, <1>2, WFMin
<1>4. PICK n \in T : \A y \in I : ~(<<y, 0..n>> \in R)
  BY <1>3
<1>5. ASSUME NEW y \in T, y < n
      PROVE  FALSE
  <2>1. <<0..y, 0..n>> \in R
    BY <1>5 DEF StrictSubsetOrdering
  <2>2. QED
    BY <1>4, <2>1
<1>6. QED
  BY <1>5

\* Blank values are values of their types.
LEMMA BlankTypes ==
  /\ <<>> \in Timelines /\ <<>> \in Seq(Events) /\ <<>> \in Seq(Rows)
  /\ NoColumns \in Columns /\ NewSubscription \in Subscriptions /\ NoCycle \in Cycles
<1>1. <<>> \in Timelines /\ <<>> \in Seq(Events) /\ <<>> \in Seq(Rows)
  BY DEF Timelines
<1>2. NoColumns \in Columns
  BY DEF NoColumns, Columns
<1>3. NewSubscription \in Subscriptions
  BY <1>1 DEF NewSubscription, Subscriptions
<1>4. NoCycle \in Cycles
  BY <1>1, FeedAssumption DEF NoCycle, Cycles, Time
<1>5. QED
  BY <1>1, <1>2, <1>3, <1>4

\* An accumulator is never mistaken for the absence of one.
LEMMA AccIsAcc == \A s \in Accs : s # NoAcc
BY DEF Accs, NoAcc, Time, None

\* What the fields of an accumulator hold.
LEMMA AccFields ==
  ASSUME NEW s \in Accs
  PROVE  /\ s.sid \in Nat /\ s.started \in Time /\ s.last \in Time /\ s.cols \in Columns
         /\ s.events \in Timelines /\ s.dirty \in BOOLEAN /\ s.urgent \in BOOLEAN
         /\ s.started \in Nat /\ s.last \in Nat
BY DEF Accs, Timelines, Time

\* sighting_for returns what _active or _pending holds.
LEMMA AccOf ==
  ASSUME TypeOK, NEW a \in Aircraft, MemoryOf(a)
  PROVE  /\ HasActive(a) => Acc(a) = active[a] /\ active[a] \in Accs
         /\ HasPending(a) => Acc(a) = pending[a] /\ pending[a] \in Accs
         /\ a \in Tracked => Acc(a) \in Accs
         /\ a \notin Tracked => Acc(a) = NoAcc /\ active[a] = NoAcc /\ pending[a] = NoAcc
         /\ a \in Tracked <=> HasActive(a) \/ HasPending(a)
BY DEF TypeOK, MemoryOf, HasActive, HasPending, Acc, Tracked

\* observe keeps the sighting and moves its last observation forward.
LEMMA ObservedKeeps ==
  ASSUME NEW s \in Accs, NEW e, e.last \in Time
  PROVE  /\ Observed(s, e) \in Accs
         /\ Observed(s, e).last >= s.last
         /\ Observed(s, e).dirty = TRUE /\ Observed(s, e).urgent = s.urgent
         /\ Observed(s, e).sid = s.sid /\ Observed(s, e).started = s.started
         /\ Observed(s, e).cols = s.cols /\ Observed(s, e).events = s.events
         /\ Observed(s, e).deadline = s.deadline
<1>1. Observed(s, e) \in Accs
  BY DEF Observed, Accs, Time
<1>2. Observed(s, e).last >= s.last /\ Observed(s, e).dirty = TRUE
  BY DEF Observed, Accs, Time
<1>3. /\ Observed(s, e).sid = s.sid /\ Observed(s, e).started = s.started
      /\ Observed(s, e).cols = s.cols /\ Observed(s, e).events = s.events
      /\ Observed(s, e).urgent = s.urgent /\ Observed(s, e).deadline = s.deadline
  BY DEF Observed, Accs
<1>4. QED
  BY <1>1, <1>2, <1>3

\* open_from dates a sighting from the record's entry into the live set.
LEMMA OpenFromIs ==
  ASSUME NEW e, e.first \in Time, e.last \in Time
  PROVE  /\ OpenFrom(e) \in Accs
         /\ OpenFrom(e).sid = 0 /\ OpenFrom(e).started = e.first
         /\ OpenFrom(e).last >= e.first /\ OpenFrom(e).dirty = TRUE
         /\ OpenFrom(e).cols = NoColumns /\ OpenFrom(e).events = <<>>
         /\ OpenFrom(e).deadline = None
<1> DEFINE s == [NoAcc EXCEPT !.started = e.first, !.last = e.first,
                              !.reason = "gap_timeout"]
<1>1. s \in Accs
  BY BlankTypes DEF NoAcc, Accs, Timelines
<1>2. /\ s.sid = 0 /\ s.started = e.first /\ s.last = e.first
      /\ s.cols = NoColumns /\ s.events = <<>> /\ s.deadline = None
  BY DEF NoAcc
<1>3. OpenFrom(e) = Observed(s, e)
  BY DEF OpenFrom
<1>4. QED
  <2> HIDE DEF s
  <2>1. /\ Observed(s, e) \in Accs /\ Observed(s, e).last >= s.last
        /\ Observed(s, e).dirty = TRUE
        /\ Observed(s, e).sid = s.sid /\ Observed(s, e).started = s.started
        /\ Observed(s, e).cols = s.cols /\ Observed(s, e).events = s.events
        /\ Observed(s, e).deadline = s.deadline
    BY <1>1, ObservedKeeps
  <2>2. QED
    BY <1>2, <1>3, <2>1

\* apply_* changes what a sighting says, never what it is.
LEMMA WithColumnKeeps ==
  ASSUME NEW s \in Accs, NEW col \in Column, NEW v \in Nat
  PROVE  /\ WithColumn(s, col, v) \in Accs
         /\ WithColumn(s, col, v).sid = s.sid /\ WithColumn(s, col, v).started = s.started
         /\ WithColumn(s, col, v).last = s.last /\ WithColumn(s, col, v).deadline = s.deadline
         /\ WithColumn(s, col, v).dirty = TRUE /\ WithColumn(s, col, v).urgent = TRUE
         /\ WithColumn(s, col, v).cols = [s.cols EXCEPT ![col] = v]
         /\ WithColumn(s, col, v).events =
              IF col = "airport" THEN s.events ELSE Append(s.events, <<col, v>>)
<1> DEFINE c  == [s.cols EXCEPT ![col] = v]
           ev == IF col = "airport" THEN s.events ELSE Append(s.events, <<col, v>>)
<1>1. c \in Columns
  BY DEF Accs, Columns
<1>2. ev \in Seq(Column \X Nat)
  <2>1. s.events \in Seq(Column \X Nat) /\ <<col, v>> \in Column \X Nat
    BY DEF Accs
  <2>2. QED
    BY <2>1
<1>3. WithColumn(s, col, v) = [s EXCEPT !.cols = c, !.dirty = TRUE, !.urgent = TRUE,
                                        !.events = ev]
  BY DEF WithColumn
<1> HIDE DEF c, ev
<1>4. WithColumn(s, col, v) \in Accs
  BY <1>1, <1>2, <1>3 DEF Accs
<1>5. /\ WithColumn(s, col, v).sid = s.sid /\ WithColumn(s, col, v).started = s.started
      /\ WithColumn(s, col, v).last = s.last /\ WithColumn(s, col, v).deadline = s.deadline
      /\ WithColumn(s, col, v).dirty = TRUE /\ WithColumn(s, col, v).urgent = TRUE
      /\ WithColumn(s, col, v).cols = c
      /\ WithColumn(s, col, v).events = ev
  BY <1>1, <1>2, <1>3 DEF Accs
<1>6. QED
  BY <1>4, <1>5 DEF c, ev
-----------------------------------------------------------------------------
\* What a step leaves alone about a's memory: which side holds it and the
\* sighting it is of, whatever else the accumulator says.
SameSighting(a) ==
  /\ HasActive(a)' <=> HasActive(a)
  /\ HasPending(a)' <=> HasPending(a)
  /\ a \in Tracked' <=> a \in Tracked
  /\ Acc(a)'.sid = Acc(a).sid /\ Acc(a)'.started = Acc(a).started
  /\ Acc(a)'.last = Acc(a).last /\ Acc(a)'.deadline = Acc(a).deadline

\* A step that does not touch the accumulators leaves every view of them alone.
LEMMA Untouched ==
  ASSUME UNCHANGED <<active, pending>>
  PROVE  /\ Tracked' = Tracked
         /\ \A a \in Aircraft : SameSighting(a) /\ Acc(a)' = Acc(a)
BY DEF Tracked, HasActive, HasPending, Acc, SameSighting

\* apply_* touches one accumulator, where it is.
LEMMA ApplyEffect ==
  ASSUME TypeOK, MemoryInv, NEW a \in Aircraft, NEW col \in Column, NEW v \in Nat,
         Apply(a, col, v)
  PROVE  /\ active' \in [Aircraft -> Accs \cup {NoAcc}]
         /\ pending' \in [Aircraft -> Accs \cup {NoAcc}]
         /\ a \in Tracked
         /\ Acc(a)' = WithColumn(Acc(a), col, v)
         /\ \A x \in Aircraft : SameSighting(x) /\ (x # a => Acc(x)' = Acc(x))
<1>1. /\ active \in [Aircraft -> Accs \cup {NoAcc}]
      /\ pending \in [Aircraft -> Accs \cup {NoAcc}]
  BY DEF TypeOK
<1>2. a \in Tracked /\ Acc(a) \in Accs /\ ~(HasActive(a) /\ HasPending(a))
  BY AccOf DEF Apply, MemoryInv, MemoryOf
<1> DEFINE t == WithColumn(Acc(a), col, v)
<1>3. /\ t \in Accs /\ t.sid = Acc(a).sid /\ t.started = Acc(a).started
      /\ t.last = Acc(a).last /\ t.deadline = Acc(a).deadline
  BY <1>2, WithColumnKeeps, ZenonT(40)
<1>4. t # NoAcc
  BY <1>3, AccIsAcc
<1> HIDE DEF t
<1>5. CASE HasActive(a)
  <2>1. active' = [active EXCEPT ![a] = t] /\ pending' = pending
    BY <1>5 DEF Apply, Acc, t
  <2>2. /\ active'[a] = t /\ \A x \in Aircraft : x # a => active'[x] = active[x]
        /\ active' \in [Aircraft -> Accs \cup {NoAcc}]
    BY <1>1, <1>3, <2>1
  <2>3. \A x \in Aircraft : x # a => Acc(x)' = Acc(x)
    BY <2>1, <2>2 DEF Acc, HasActive
  <2>4. Acc(a)' = t
    BY <1>4, <2>1, <2>2 DEF Acc, HasActive
  <2>5. \A x \in Aircraft : (HasActive(x)' <=> HasActive(x)) /\ (HasPending(x)' <=> HasPending(x))
    BY <1>4, <1>5, <2>1, <2>2 DEF HasActive, HasPending
  <2>6. \A x \in Aircraft : x \in Tracked' <=> x \in Tracked
    BY <2>5 DEF Tracked
  <2>7. QED
    BY <1>1, <1>2, <1>3, <2>1, <2>2, <2>3, <2>4, <2>5, <2>6 DEF SameSighting, t
<1>6. CASE ~HasActive(a)
  <2>1. pending' = [pending EXCEPT ![a] = t] /\ active' = active
    BY <1>6 DEF Apply, Acc, t
  <2>2. /\ pending'[a] = t /\ \A x \in Aircraft : x # a => pending'[x] = pending[x]
        /\ pending' \in [Aircraft -> Accs \cup {NoAcc}]
    BY <1>1, <1>3, <2>1
  <2>3. \A x \in Aircraft : x # a => Acc(x)' = Acc(x)
    BY <2>1, <2>2 DEF Acc, HasActive
  <2>4. Acc(a)' = t
    BY <1>6, <2>1, <2>2 DEF Acc, HasActive
  <2>5. HasPending(a)
    BY <1>2, <1>6 DEF Tracked
  <2>6. \A x \in Aircraft : (HasActive(x)' <=> HasActive(x)) /\ (HasPending(x)' <=> HasPending(x))
    BY <1>4, <2>1, <2>2, <2>5 DEF HasActive, HasPending
  <2>7. \A x \in Aircraft : x \in Tracked' <=> x \in Tracked
    BY <2>6 DEF Tracked
  <2>8. QED
    BY <1>1, <1>2, <1>3, <2>1, <2>2, <2>3, <2>4, <2>6, <2>7 DEF SameSighting, t
<1>7. QED
  BY <1>5, <1>6

\* What the synchronous block may do to an aircraft's accumulator: nothing to
\* the sighting it is of, or begin one from a record not yet accounted for.
Continues(s, t) ==
  /\ t.sid = s.sid /\ t.started = s.started /\ t.cols = s.cols /\ t.events = s.events
  /\ s.dirty = TRUE => t.dirty = TRUE
  /\ s.urgent = TRUE => t.urgent = TRUE
Begins(t, first) == t.sid = 0 /\ t.started = first /\ t.cols = NoColumns /\ t.events = <<>>

\* The state of a's memory after a step of the synchronous block.
Became(a, act, first) ==
  /\ act => active'[a] \in Accs /\ active'[a].deadline = None /\ pending'[a] = NoAcc
  /\ ~act => /\ pending'[a] \in Accs /\ active'[a] = NoAcc
             /\ pending'[a].deadline = pending'[a].last + CloseS
  /\ LET t == IF act THEN active'[a] ELSE pending'[a]
     IN  /\ t.started <= t.last
         /\ IF a \in Tracked THEN Continues(Acc(a), t) ELSE Begins(t, first) /\ t.dirty = TRUE

\* Observed as a whole: continue, resume or open (_observe).
LEMMA MeetsRecord ==
  ASSUME TypeOK, NEW a \in Aircraft, MemoryOf(a),
         NEW e, e.first \in Time, e.last \in Time,
         pending'[a] = NoAcc,
         active'[a] = IF HasActive(a) THEN Observed(active[a], e)
                      ELSE IF HasPending(a)
                        THEN Observed([pending[a] EXCEPT !.deadline = None,
                                                         !.reason = "gap_timeout"], e)
                      ELSE OpenFrom(e)
  PROVE  Became(a, TRUE, e.first)
<1>1. CASE HasActive(a)
  <2>1. active[a] \in Accs /\ Acc(a) = active[a] /\ a \in Tracked
    BY <1>1, AccOf
  <2>2. active'[a] = Observed(active[a], e)
    BY <1>1
  <2>3. active[a].started <= active[a].last /\ active[a].deadline = None
    BY <1>1, <2>1 DEF MemoryOf
  <2>4. /\ active'[a] \in Accs /\ active'[a].last >= active[a].last
        /\ active'[a].dirty = TRUE /\ active'[a].urgent = active[a].urgent
        /\ active'[a].sid = active[a].sid /\ active'[a].started = active[a].started
        /\ active'[a].cols = active[a].cols /\ active'[a].events = active[a].events
        /\ active'[a].deadline = None
    <3> DEFINE t == Observed(active[a], e)
    <3>1. /\ t \in Accs /\ t.last >= active[a].last
          /\ t.dirty = TRUE /\ t.urgent = active[a].urgent
          /\ t.sid = active[a].sid /\ t.started = active[a].started
          /\ t.cols = active[a].cols /\ t.events = active[a].events
          /\ t.deadline = active[a].deadline
      BY <2>1, ObservedKeeps
    <3> HIDE DEF t
    <3>2. active'[a] = t
      BY <2>2 DEF t
    <3>3. QED
      BY <2>3, <3>1, <3>2
  <2>5. active'[a].started <= active'[a].last
    BY <2>1, <2>3, <2>4, AccFields
  <2>6. QED
    BY <2>1, <2>4, <2>5 DEF Became, Continues
<1>2. CASE ~HasActive(a) /\ HasPending(a)
  <2> DEFINE p == [pending[a] EXCEPT !.deadline = None, !.reason = "gap_timeout"]
  <2>1. pending[a] \in Accs /\ Acc(a) = pending[a] /\ a \in Tracked
    BY <1>2, AccOf
  <2>2. p \in Accs
    BY <2>1 DEF Accs
  <2>3. /\ p.sid = pending[a].sid /\ p.started = pending[a].started
        /\ p.last = pending[a].last /\ p.cols = pending[a].cols
        /\ p.events = pending[a].events /\ p.urgent = pending[a].urgent /\ p.deadline = None
    BY <2>1 DEF Accs
  <2>4. active'[a] = Observed(p, e)
    BY <1>2
  <2>5. pending[a].started <= pending[a].last
    BY <2>1 DEF MemoryOf
  <2> HIDE DEF p
  <2>6. /\ active'[a] \in Accs /\ active'[a].last >= p.last
        /\ active'[a].dirty = TRUE /\ active'[a].urgent = p.urgent
        /\ active'[a].sid = p.sid /\ active'[a].started = p.started
        /\ active'[a].cols = p.cols /\ active'[a].events = p.events
        /\ active'[a].deadline = p.deadline
    <3> DEFINE t == Observed(p, e)
    <3>1. /\ t \in Accs /\ t.last >= p.last
          /\ t.dirty = TRUE /\ t.urgent = p.urgent
          /\ t.sid = p.sid /\ t.started = p.started
          /\ t.cols = p.cols /\ t.events = p.events
          /\ t.deadline = p.deadline
      BY <2>2, ObservedKeeps
    <3> HIDE DEF t
    <3>2. active'[a] = t
      BY <2>4 DEF t
    <3>3. QED
      BY <3>1, <3>2
  <2>7. active'[a].started <= active'[a].last
    BY <2>2, <2>3, <2>5, <2>6, AccFields
  <2>8. QED
    BY <2>1, <2>3, <2>6, <2>7 DEF Became, Continues
<1>3. CASE ~HasActive(a) /\ ~HasPending(a)
  <2>1. a \notin Tracked /\ active'[a] = OpenFrom(e)
    BY <1>3 DEF Tracked
  <2>2. /\ active'[a] \in Accs /\ active'[a].sid = 0 /\ active'[a].started = e.first
        /\ active'[a].last >= e.first /\ active'[a].dirty = TRUE
        /\ active'[a].cols = NoColumns /\ active'[a].events = <<>>
        /\ active'[a].deadline = None
    BY <2>1, OpenFromIs
  <2>3. active'[a].started <= active'[a].last
    BY <2>2, AccFields
  <2>4. QED
    BY <2>1, <2>2, <2>3 DEF Became, Begins
<1>4. QED
  BY <1>1, <1>2, <1>3

\* Observed through its own removal, or found missing by a resync: the gap
\* starts (_arm_closure, _resync).
LEMMA StartsGap ==
  ASSUME TypeOK, NEW a \in Aircraft,
         NEW s \in Accs, s.started <= s.last, NEW first,
         NEW p, p = [s EXCEPT !.deadline = s.last + CloseS],
         active'[a] = NoAcc, pending'[a] = p,
         IF a \in Tracked THEN Continues(Acc(a), s) ELSE Begins(s, first) /\ s.dirty = TRUE
  PROVE  Became(a, FALSE, first)
<1>1. p \in Accs
  <2>1. s.last + CloseS \in Nat
    BY AccFields, WorkerAssumption
  <2>2. QED
    BY <2>1 DEF Accs
<1>2. /\ p.sid = s.sid /\ p.started = s.started /\ p.last = s.last /\ p.cols = s.cols
      /\ p.events = s.events /\ p.dirty = s.dirty /\ p.urgent = s.urgent
      /\ p.deadline = s.last + CloseS
  BY DEF Accs
<1>3. IF a \in Tracked THEN Continues(Acc(a), p) ELSE Begins(p, first) /\ p.dirty = TRUE
  BY <1>2 DEF Continues, Begins
<1>4. QED
  BY <1>1, <1>2, <1>3 DEF Became

\* _handle: what one event does to the accumulator of its aircraft.
LEMMA HandleEffect ==
  ASSUME TypeOK, StageInv, MemoryInv, Handle
  PROVE  LET e == Head(inbox)
         IN  /\ e \in Events /\ inbox \in Seq(Events) /\ inbox # <<>>
             /\ active' \in [Aircraft -> Accs \cup {NoAcc}]
             /\ pending' \in [Aircraft -> Accs \cup {NoAcc}]
             /\ \A x \in Aircraft : x # e.icao \/ e.kind = "stale" =>
                  active'[x] = active[x] /\ pending'[x] = pending[x]
             /\ e.kind # "stale" => Became(e.icao, e.kind # "removed", e.first)
<1> DEFINE e == Head(inbox)  a == e.icao
<1>0. e \in Events /\ inbox \in Seq(Events) /\ inbox # <<>>
  <2>1. inbox \in Seq(Events) /\ inbox # <<>>
    BY DEF TypeOK, Handle
  <2>2. QED
    BY <2>1
<1>1. /\ active \in [Aircraft -> Accs \cup {NoAcc}] /\ pending \in [Aircraft -> Accs \cup {NoAcc}]
      /\ a \in Aircraft /\ e.first \in Time /\ e.last \in Time /\ MemoryOf(a) /\ e.kind \in Kinds
  BY <1>0 DEF TypeOK, Events, Time, MemoryInv
<1> HIDE DEF e
<1>2. CASE e.kind \in {"appeared", "updated"}
  <2>1. ObserveInto(a, e)
    BY <1>2 DEF Handle, e, a
  <2>2. /\ \A x \in Aircraft : x # a => active'[x] = active[x] /\ pending'[x] = pending[x]
        /\ pending'[a] = NoAcc
        /\ active'[a] = IF HasActive(a) THEN Observed(active[a], e)
                        ELSE IF HasPending(a)
                          THEN Observed([pending[a] EXCEPT !.deadline = None,
                                                           !.reason = "gap_timeout"], e)
                        ELSE OpenFrom(e)
        /\ pending' \in [Aircraft -> Accs \cup {NoAcc}]
        /\ \E t : active' = [active EXCEPT ![a] = t]
    BY <1>1, <2>1 DEF ObserveInto, MemoryOf, HasPending
  <2>3. Became(a, TRUE, e.first)
    BY <1>1, <2>2, MeetsRecord
  <2>4. active' \in [Aircraft -> Accs \cup {NoAcc}]
    BY <1>1, <2>2, <2>3 DEF Became
  <2>5. QED
    BY <1>0, <1>2, <2>2, <2>3, <2>4 DEF e
<1>3. CASE e.kind = "removed"
  <2> DEFINE s == IF a \in Tracked THEN Observed(Acc(a), e) ELSE OpenFrom(e)
  <2>1. ArmClosure(a, e)
    BY <1>3 DEF Handle, e, a
  <2>2. /\ active' = [active EXCEPT ![a] = NoAcc]
        /\ pending' = [pending EXCEPT ![a] = [s EXCEPT !.deadline = s.last + CloseS]]
    BY <2>1 DEF ArmClosure
  <2>3. /\ s \in Accs /\ s.started <= s.last
        /\ IF a \in Tracked THEN Continues(Acc(a), s) ELSE Begins(s, e.first) /\ s.dirty = TRUE
    <3>1. CASE a \in Tracked
      <4>1. Acc(a) \in Accs /\ Acc(a).started <= Acc(a).last
        BY <1>1, <3>1, AccOf DEF MemoryOf
      <4>2. s = Observed(Acc(a), e)
        BY <3>1
      <4>3. /\ Observed(Acc(a), e) \in Accs /\ Observed(Acc(a), e).last >= Acc(a).last
            /\ Observed(Acc(a), e).dirty = TRUE /\ Observed(Acc(a), e).urgent = Acc(a).urgent
            /\ Observed(Acc(a), e).sid = Acc(a).sid /\ Observed(Acc(a), e).started = Acc(a).started
            /\ Observed(Acc(a), e).cols = Acc(a).cols /\ Observed(Acc(a), e).events = Acc(a).events
        BY <1>1, <4>1, ObservedKeeps
      <4> HIDE DEF s
      <4>4. s.started <= s.last
        BY <4>1, <4>2, <4>3, AccFields
      <4>5. QED
        BY <3>1, <4>2, <4>3, <4>4 DEF Continues
    <3>2. CASE a \notin Tracked
      <4>1. s = OpenFrom(e)
        BY <3>2
      <4>2. /\ OpenFrom(e) \in Accs /\ OpenFrom(e).sid = 0 /\ OpenFrom(e).started = e.first
            /\ OpenFrom(e).last >= e.first /\ OpenFrom(e).dirty = TRUE
            /\ OpenFrom(e).cols = NoColumns /\ OpenFrom(e).events = <<>>
        BY <1>1, OpenFromIs
      <4> HIDE DEF s
      <4>3. s.started <= s.last
        BY <4>1, <4>2, AccFields
      <4>4. QED
        BY <3>2, <4>1, <4>2, <4>3 DEF Begins
    <3>3. QED
      BY <3>1, <3>2
  <2> HIDE DEF s
  <2>4. /\ active'[a] = NoAcc /\ pending'[a] = [s EXCEPT !.deadline = s.last + CloseS]
        /\ \A x \in Aircraft : x # a => active'[x] = active[x] /\ pending'[x] = pending[x]
        /\ active' \in [Aircraft -> Accs \cup {NoAcc}]
    BY <1>1, <2>2
  <2>5. Became(a, FALSE, e.first)
    BY <1>1, <2>3, <2>4, StartsGap
  <2>6. pending' \in [Aircraft -> Accs \cup {NoAcc}]
    BY <1>1, <2>2, <2>4, <2>5 DEF Became
  <2>7. QED
    BY <1>0, <1>3, <2>4, <2>5, <2>6 DEF e
<1>4. CASE e.kind = "stale"
  <2>1. active' = active /\ pending' = pending
    BY <1>4 DEF Handle, e
  <2>2. QED
    BY <1>0, <1>1, <1>4, <2>1 DEF e
<1>5. QED
  BY <1>1, <1>2, <1>3, <1>4 DEF Kinds

\* _resync: what the snapshot does to every accumulator.
LEMMA ResyncEffect ==
  ASSUME TypeOK, StageInv, MemoryInv, Resync
  PROVE  /\ active' \in [Aircraft -> Accs \cup {NoAcc}]
         /\ pending' \in [Aircraft -> Accs \cup {NoAcc}]
         /\ \A a \in Present : Became(a, TRUE, live[a].first)
         /\ \A a \in Aircraft \ Present :
              /\ HasActive(a) => Became(a, FALSE, None)
              /\ ~HasActive(a) => active'[a] = NoAcc /\ pending'[a] = pending[a]
<1>1. ASSUME NEW a \in Present
      PROVE  Became(a, TRUE, live[a].first)
  <2>1. a \in Aircraft /\ live[a].first \in Time /\ live[a].last \in Time /\ MemoryOf(a)
    BY <1>1 DEF Present, TypeOK, Records, Time, MemoryInv
  <2>2. /\ pending'[a] = NoAcc
        /\ active'[a] = IF HasActive(a) THEN Observed(active[a], live[a])
                        ELSE IF HasPending(a)
                          THEN Observed([pending[a] EXCEPT !.deadline = None,
                                                           !.reason = "gap_timeout"], live[a])
                        ELSE OpenFrom(live[a])
    BY <1>1, <2>1 DEF Resync
  <2>3. QED
    BY <2>1, <2>2, MeetsRecord
<1>2. ASSUME NEW a \in Aircraft, a \notin Present, HasActive(a)
      PROVE  Became(a, FALSE, None)
  <2> DEFINE s == [active[a] EXCEPT !.urgent = TRUE]
  <2>1. active[a] \in Accs /\ Acc(a) = active[a] /\ a \in Tracked /\ active[a].started <= active[a].last
    BY <1>2, AccOf DEF MemoryInv, MemoryOf
  <2>2. s \in Accs /\ s.started <= s.last /\ s.last = active[a].last /\ Continues(Acc(a), s)
    BY <2>1 DEF Accs, Continues
  <2>3. active'[a] = NoAcc /\ pending'[a] = [s EXCEPT !.deadline = s.last + CloseS]
    BY <1>2, <2>2 DEF Resync
  <2> HIDE DEF s
  <2>4. QED
    BY <1>2, <2>1, <2>2, <2>3, StartsGap
<1>3. \A a \in Aircraft \ Present : ~HasActive(a) => active'[a] = NoAcc /\ pending'[a] = pending[a]
  BY DEF Resync
<1>4. \A a \in Aircraft : active'[a] \in Accs \cup {NoAcc} /\ pending'[a] \in Accs \cup {NoAcc}
  <2>1. \A a \in Aircraft : pending[a] \in Accs \cup {NoAcc}
    BY DEF TypeOK
  <2>2. QED
    BY <1>1, <1>2, <1>3, <2>1 DEF Became
<1>5. active' = [a \in Aircraft |-> active'[a]] /\ pending' = [a \in Aircraft |-> pending'[a]]
  BY DEF Resync
<1>6. QED
  BY <1>1, <1>2, <1>3, <1>4, <1>5

\* What Became says, through the operators the invariants are stated with.
LEMMA BecameView ==
  ASSUME NEW a \in Aircraft, NEW act \in BOOLEAN, NEW first, Became(a, act, first)
  PROVE  /\ MemoryOf(a)'
         /\ HasActive(a)' <=> act
         /\ a \in Tracked' /\ Acc(a)' \in Accs
         /\ IF a \in Tracked THEN Continues(Acc(a), Acc(a)')
            ELSE Begins(Acc(a)', first) /\ Acc(a)'.dirty = TRUE
<1>1. CASE act = TRUE
  <2>1. active'[a] \in Accs /\ active'[a].deadline = None /\ pending'[a] = NoAcc /\ active'[a] # NoAcc
    BY <1>1, AccIsAcc DEF Became
  <2>2. HasActive(a)' /\ ~HasPending(a)' /\ Acc(a)' = active'[a] /\ a \in Tracked'
    BY <2>1 DEF HasActive, HasPending, Acc, Tracked
  <2>3. QED
    BY <1>1, <2>1, <2>2 DEF Became, MemoryOf
<1>2. CASE act = FALSE
  <2>1. /\ pending'[a] \in Accs /\ active'[a] = NoAcc /\ pending'[a] # NoAcc
        /\ pending'[a].deadline = pending'[a].last + CloseS
    BY <1>2, AccIsAcc DEF Became
  <2>2. ~HasActive(a)' /\ HasPending(a)' /\ Acc(a)' = pending'[a] /\ a \in Tracked'
    BY <2>1 DEF HasActive, HasPending, Acc, Tracked
  <2>3. QED
    BY <1>2, <2>1, <2>2 DEF Became, MemoryOf
<1>3. QED
  BY <1>1, <1>2

\* One aircraft's accumulator left alone.
LEMMA UntouchedOne ==
  ASSUME NEW a \in Aircraft, active'[a] = active[a], pending'[a] = pending[a]
  PROVE  SameSighting(a) /\ Acc(a)' = Acc(a)
BY DEF Tracked, HasActive, HasPending, Acc, SameSighting

\* The synchronous block keeps every sighting it knows and begins new ones only
\* from what it is told.
LEMMA DrainEffect ==
  ASSUME TypeOK, StageInv, MemoryInv, NewsInv, Handle \/ Resync
  PROVE  /\ active' \in [Aircraft -> Accs \cup {NoAcc}]
         /\ pending' \in [Aircraft -> Accs \cup {NoAcc}]
         /\ MemoryInv'
         /\ \A a \in Aircraft :
              IF a \in Tracked THEN a \in Tracked' /\ Continues(Acc(a), Acc(a)')
              ELSE a \in Tracked' => /\ \E first \in Time : /\ Begins(Acc(a)', first)
                                                            /\ LastEnd(rows[a]) < first
                                     /\ Acc(a)'.dirty = TRUE
<1>0. ASSUME NEW a \in Aircraft, active'[a] = active[a], pending'[a] = pending[a]
      PROVE  /\ MemoryOf(a)'
             /\ IF a \in Tracked THEN a \in Tracked' /\ Continues(Acc(a), Acc(a)')
                ELSE a \notin Tracked'
  <2>1. SameSighting(a) /\ Acc(a)' = Acc(a)
    BY <1>0, UntouchedOne
  <2>2. MemoryOf(a)
    BY DEF MemoryInv
  <2>3. QED
    BY <2>1, <2>2 DEF SameSighting, MemoryOf, Continues
<1>1. CASE Handle
  <2> DEFINE e == Head(inbox)
  <2>1. /\ e \in Events /\ inbox \in Seq(Events) /\ inbox # <<>>
        /\ active' \in [Aircraft -> Accs \cup {NoAcc}]
        /\ pending' \in [Aircraft -> Accs \cup {NoAcc}]
        /\ \A x \in Aircraft : x # e.icao \/ e.kind = "stale" =>
             active'[x] = active[x] /\ pending'[x] = pending[x]
        /\ e.kind # "stale" => Became(e.icao, e.kind # "removed", e.first)
    BY <1>1, HandleEffect
  <2>2. e.icao \in Aircraft /\ e.first \in Time /\ LastEnd(rows[e.icao]) < e.first
    <3>1. News = inbox /\ 1 \in DOMAIN inbox /\ inbox[1] = e
      BY <1>1, <2>1 DEF News, Handle
    <3>2. e.icao \in Aircraft /\ e.first \in Time
      BY <2>1 DEF Events, Time
    <3>3. QED
      BY <3>1, <3>2 DEF NewsInv, NewsOf
  <2> HIDE DEF e
  <2>3. ASSUME NEW a \in Aircraft
        PROVE  /\ MemoryOf(a)'
               /\ IF a \in Tracked THEN a \in Tracked' /\ Continues(Acc(a), Acc(a)')
                  ELSE a \in Tracked' => /\ \E first \in Time : /\ Begins(Acc(a)', first)
                                                                /\ LastEnd(rows[a]) < first
                                         /\ Acc(a)'.dirty = TRUE
    <3>1. CASE a # e.icao \/ e.kind = "stale"
      BY <1>0, <2>1, <3>1
    <3>2. CASE a = e.icao /\ e.kind # "stale"
      <4>1. Became(a, e.kind # "removed", e.first)
        BY <2>1, <3>2
      <4>2. /\ MemoryOf(a)' /\ a \in Tracked'
            /\ IF a \in Tracked THEN Continues(Acc(a), Acc(a)')
               ELSE Begins(Acc(a)', e.first) /\ Acc(a)'.dirty = TRUE
        BY <4>1, BecameView
      <4>3. QED
        BY <2>2, <3>2, <4>2
    <3>3. QED
      BY <3>1, <3>2
  <2>4. QED
    BY <2>1, <2>3 DEF MemoryInv
<1>2. CASE Resync
  <2>1. /\ active' \in [Aircraft -> Accs \cup {NoAcc}]
        /\ pending' \in [Aircraft -> Accs \cup {NoAcc}]
        /\ \A a \in Present : Became(a, TRUE, live[a].first)
        /\ \A a \in Aircraft \ Present :
             /\ HasActive(a) => Became(a, FALSE, None)
             /\ ~HasActive(a) => active'[a] = NoAcc /\ pending'[a] = pending[a]
    BY <1>2, ResyncEffect
  <2>2. ASSUME NEW a \in Aircraft
        PROVE  /\ MemoryOf(a)'
               /\ IF a \in Tracked THEN a \in Tracked' /\ Continues(Acc(a), Acc(a)')
                  ELSE a \in Tracked' => /\ \E first \in Time : /\ Begins(Acc(a)', first)
                                                                /\ LastEnd(rows[a]) < first
                                         /\ Acc(a)'.dirty = TRUE
    <3>1. CASE a \in Present
      <4>1. Became(a, TRUE, live[a].first)
        BY <2>1, <3>1
      <4>2. /\ MemoryOf(a)' /\ a \in Tracked'
            /\ IF a \in Tracked THEN Continues(Acc(a), Acc(a)')
               ELSE Begins(Acc(a)', live[a].first) /\ Acc(a)'.dirty = TRUE
        BY <4>1, BecameView
      <4>3. live[a].first \in Time /\ LastEnd(rows[a]) < live[a].first
        BY <3>1 DEF NewsInv, NewsOf, TypeOK, Present, Records, Time
      <4>4. QED
        BY <4>2, <4>3
    <3>2. CASE a \notin Present /\ HasActive(a)
      <4>1. Became(a, FALSE, None) /\ a \in Tracked
        BY <2>1, <3>2 DEF Tracked
      <4>2. /\ MemoryOf(a)' /\ a \in Tracked' /\ Continues(Acc(a), Acc(a)')
        BY <4>1, BecameView
      <4>3. QED
        BY <4>1, <4>2
    <3>3. CASE a \notin Present /\ ~HasActive(a)
      <4>1. active'[a] = active[a] /\ pending'[a] = pending[a]
        BY <2>1, <3>3 DEF HasActive
      <4>2. QED
        BY <1>0, <4>1
    <3>4. QED
      BY <3>1, <3>2, <3>3
  <2>3. QED
    BY <2>1, <2>2 DEF MemoryInv
<1>3. QED
  BY <1>1, <1>2

\* What is noted of a commit: the new id and the marks (mark_flushed,
\* mark_events_written), and nothing of the sighting itself.
LEMMA NotedKeeps ==
  ASSUME TypeOK, cycle \in Cycles, NEW s \in Accs, NEW a \in Aircraft
  PROVE  /\ Noted(s, a) \in Accs
         /\ Noted(s, a).sid = IF a \in cycle.opens THEN Len(rows[a]) ELSE s.sid
         /\ Noted(s, a).started = s.started /\ Noted(s, a).last = s.last
         /\ Noted(s, a).cols = s.cols /\ Noted(s, a).deadline = s.deadline
         /\ Noted(s, a).events = SubSeq(s.events, Len(cycle.queued[a]) + 1, Len(s.events))
         /\ Noted(s, a).dirty = IF a \in cycle.opens \cup cycle.flushes THEN FALSE ELSE s.dirty
         /\ Noted(s, a).urgent = IF a \in cycle.opens \cup cycle.flushes THEN FALSE ELSE s.urgent
<1> DEFINE m == MarkFlushed(s, cycle.at)
           k == IF a \in cycle.opens THEN [m EXCEPT !.sid = Len(rows[a])]
                ELSE IF a \in cycle.flushes THEN m ELSE s
           ev == SubSeq(s.events, Len(cycle.queued[a]) + 1, Len(s.events))
<1>1. /\ Len(rows[a]) \in Nat /\ cycle.at \in Time /\ Len(cycle.queued[a]) \in Nat
      /\ s.events \in Seq(Column \X Nat)
  BY DEF TypeOK, Cycles, Timelines, Accs
<1>2. ev \in Seq(Column \X Nat)
  BY <1>1
<1>3. /\ m \in Accs /\ m.sid = s.sid /\ m.started = s.started /\ m.last = s.last
      /\ m.cols = s.cols /\ m.deadline = s.deadline /\ m.events = s.events
      /\ m.dirty = FALSE /\ m.urgent = FALSE
  BY <1>1 DEF MarkFlushed, Accs
<1> HIDE DEF m
<1>4. /\ k \in Accs
      /\ k.sid = IF a \in cycle.opens THEN Len(rows[a]) ELSE s.sid
      /\ k.started = s.started /\ k.last = s.last
      /\ k.cols = s.cols /\ k.deadline = s.deadline /\ k.events = s.events
      /\ k.dirty = IF a \in cycle.opens \cup cycle.flushes THEN FALSE ELSE s.dirty
      /\ k.urgent = IF a \in cycle.opens \cup cycle.flushes THEN FALSE ELSE s.urgent
  <2>1. CASE a \in cycle.opens
    BY <1>1, <1>3, <2>1 DEF Accs
  <2>2. CASE a \notin cycle.opens /\ a \in cycle.flushes
    BY <1>3, <2>2
  <2>3. CASE a \notin cycle.opens /\ a \notin cycle.flushes
    BY <2>3
  <2>4. QED
    BY <2>1, <2>2, <2>3
<1>5. Noted(s, a) = [k EXCEPT !.events = SubSeq(k.events, Len(cycle.queued[a]) + 1, Len(k.events))]
  BY DEF Noted, MarkEventsWritten, m
<1> HIDE DEF k
<1>6. Noted(s, a) = [k EXCEPT !.events = ev]
  BY <1>4, <1>5
<1> HIDE DEF ev
<1>7. /\ Noted(s, a) \in Accs /\ Noted(s, a).events = ev
  BY <1>2, <1>4, <1>6 DEF Accs
<1>8. /\ Noted(s, a).sid = k.sid /\ Noted(s, a).started = k.started /\ Noted(s, a).last = k.last
      /\ Noted(s, a).cols = k.cols /\ Noted(s, a).deadline = k.deadline
      /\ Noted(s, a).dirty = k.dirty /\ Noted(s, a).urgent = k.urgent
  BY <1>4, <1>6 DEF Accs
<1>9. QED
  BY <1>4, <1>7, <1>8 DEF ev

\* Noting a commit drops what was closed and keeps everything else where it is.
LEMMA NoteEffect ==
  ASSUME TypeOK, StageInv, MemoryInv, CycleInv, NoteCommitted
  PROVE  /\ active' \in [Aircraft -> Accs \cup {NoAcc}]
         /\ pending' \in [Aircraft -> Accs \cup {NoAcc}]
         /\ MemoryInv'
         /\ \A a \in Aircraft :
              /\ HasActive(a)' <=> HasActive(a)
              /\ a \in Tracked' <=> a \in Tracked /\ a \notin cycle.due
              /\ a \in Tracked' => Acc(a)' = Noted(Acc(a), a)
<1>1. /\ active' = [a \in Aircraft |-> IF HasActive(a) THEN Noted(active[a], a) ELSE NoAcc]
      /\ pending' = [a \in Aircraft |->
           IF HasPending(a) /\ a \notin cycle.due THEN Noted(pending[a], a) ELSE NoAcc]
      /\ Committing /\ cycle \in Cycles
  BY DEF NoteCommitted, Committing, StageInv
<1>2. ASSUME NEW a \in Aircraft
      PROVE  /\ active'[a] \in Accs \cup {NoAcc} /\ pending'[a] \in Accs \cup {NoAcc}
             /\ MemoryOf(a)'
             /\ HasActive(a)' <=> HasActive(a)
             /\ a \in Tracked' <=> a \in Tracked /\ a \notin cycle.due
             /\ a \in Tracked' => Acc(a)' = Noted(Acc(a), a)
  <2>0. MemoryOf(a) /\ (a \in cycle.due => HasPending(a))
    BY <1>1 DEF MemoryInv, CycleInv, Decided, DueOf
  <2>1. CASE HasActive(a)
    <3>1. active[a] \in Accs /\ Acc(a) = active[a] /\ a \in Tracked /\ ~HasPending(a) /\ a \notin cycle.due
      BY <2>0, <2>1, AccOf DEF MemoryOf
    <3>2. active'[a] = Noted(active[a], a) /\ pending'[a] = NoAcc
      BY <1>1, <2>1, <3>1
    <3>3. /\ Noted(active[a], a) \in Accs /\ Noted(active[a], a).started = active[a].started
          /\ Noted(active[a], a).last = active[a].last
          /\ Noted(active[a], a).deadline = active[a].deadline
      BY <1>1, <3>1, NotedKeeps
    <3>4. Noted(active[a], a) # NoAcc
      BY <3>3, AccIsAcc
    <3>5. HasActive(a)' /\ ~HasPending(a)' /\ a \in Tracked' /\ Acc(a)' = Noted(active[a], a)
      BY <3>2, <3>4 DEF HasActive, HasPending, Tracked, Acc
    <3>6. QED
      BY <2>0, <2>1, <3>1, <3>2, <3>3, <3>5 DEF MemoryOf
  <2>2. CASE HasPending(a) /\ a \notin cycle.due
    <3>1. pending[a] \in Accs /\ Acc(a) = pending[a] /\ a \in Tracked /\ ~HasActive(a)
      BY <2>0, <2>2, AccOf DEF MemoryOf
    <3>2. pending'[a] = Noted(pending[a], a) /\ active'[a] = NoAcc
      BY <1>1, <2>2, <3>1
    <3>3. /\ Noted(pending[a], a) \in Accs /\ Noted(pending[a], a).started = pending[a].started
          /\ Noted(pending[a], a).last = pending[a].last
          /\ Noted(pending[a], a).deadline = pending[a].deadline
      BY <1>1, <3>1, NotedKeeps
    <3>4. Noted(pending[a], a) # NoAcc
      BY <3>3, AccIsAcc
    <3>5. ~HasActive(a)' /\ HasPending(a)' /\ a \in Tracked' /\ Acc(a)' = Noted(pending[a], a)
      BY <3>2, <3>4 DEF HasActive, HasPending, Tracked, Acc
    <3>6. QED
      BY <2>0, <2>2, <3>1, <3>2, <3>3, <3>5 DEF MemoryOf
  <2>3. CASE ~HasActive(a) /\ (~HasPending(a) \/ a \in cycle.due)
    <3>1. active'[a] = NoAcc /\ pending'[a] = NoAcc
      BY <1>1, <2>3
    <3>2. ~HasActive(a)' /\ ~HasPending(a)' /\ a \notin Tracked'
      BY <3>1 DEF HasActive, HasPending, Tracked
    <3>3. a \in Tracked /\ a \notin cycle.due => FALSE
      BY <2>3 DEF Tracked
    <3>4. QED
      BY <2>3, <3>1, <3>2, <3>3 DEF MemoryOf
  <2>4. QED
    BY <2>1, <2>2, <2>3
<1>3. QED
  BY <1>1, <1>2 DEF MemoryInv
-----------------------------------------------------------------------------
\* What the statements of a transaction make of one aircraft's rows: a new row
\* at the end or the newest one rewritten, and no other touched (_write).
LEMMA WrittenIs ==
  ASSUME TypeOK, StageInv, MemoryInv, OwnerInv, CycleInv, pc = "begun", NEW a \in Aircraft
  PROVE  LET w == Written(a)  s == Acc(a)  n == Sid(a)  isNew == a \in cycle.opens
         IN  /\ w \in Seq(Rows)
             /\ a \notin Tracked => w = rows[a] /\ ~isNew
             /\ a \in Tracked =>
                  /\ n = Len(w) /\ n \in Nat \ {0}
                  /\ Len(w) = IF isNew THEN Len(rows[a]) + 1 ELSE Len(rows[a])
                  /\ \A i \in DOMAIN w : i # n => i \in DOMAIN rows[a] /\ w[i] = rows[a][i]
                  /\ w[n].started = s.started /\ w[n].ended = None
                  /\ w[n].cols = IF isNew \/ a \in cycle.flushes THEN s.cols ELSE rows[a][n].cols
                  /\ w[n].events = IF isNew THEN cycle.queued[a]
                                   ELSE rows[a][n].events \o cycle.queued[a]
<1> DEFINE s == Acc(a)
           n == Sid(a)
           base == IF a \in cycle.opens THEN Append(rows[a], NewRow(s))
                   ELSE IF a \in cycle.flushes THEN [rows[a] EXCEPT ![s.sid].cols = s.cols]
                   ELSE rows[a]
<1>1. /\ rows[a] \in Seq(Rows) /\ Len(rows[a]) \in Nat /\ DOMAIN rows[a] = 1..Len(rows[a])
      /\ cycle.queued[a] \in Timelines
      /\ a \in cycle.opens <=> a \in Tracked /\ s.sid = 0
      /\ a \in cycle.flushes => a \in Tracked
      /\ cycle.queued[a] # <<>> => a \in Tracked
      /\ OwnedBy(a) /\ MemoryOf(a)
  BY DEF TypeOK, StageInv, Cycles, Committing, CycleInv, Decided, OwnerInv, OwnerOf, MemoryInv
<1>2. Written(a) = IF cycle.queued[a] = <<>> THEN base
                   ELSE [base EXCEPT ![n].events = @ \o cycle.queued[a]]
  BY Zenon DEF Written
<1>3. CASE a \notin Tracked
  BY <1>1, <1>2, <1>3, Zenon
<1>4. CASE a \in Tracked
  <2>1. s \in Accs
    BY <1>1, <1>4, AccOf
  <2>2. /\ s.cols \in Columns /\ s.sid \in Nat /\ s.started \in Time
        /\ n = IF a \in cycle.opens THEN Len(rows[a]) + 1 ELSE Len(rows[a])
        /\ n \in Nat \ {0}
        /\ a \notin cycle.opens => n = s.sid /\ rows[a][n].started = s.started /\ rows[a][n].ended = None
    <3>1. s.cols \in Columns /\ s.sid \in Nat /\ s.started \in Time
      BY <2>1 DEF Accs
    <3>2. CASE a \in cycle.opens
      BY <1>1, <3>1, <3>2 DEF Sid
    <3>3. CASE a \notin cycle.opens
      BY <1>1, <1>4, <3>1, <3>3 DEF Sid, OwnedBy, LastOpen
    <3>4. QED
      BY <3>1, <3>2, <3>3
  <2> DEFINE ev == IF a \in cycle.opens THEN <<>> ELSE rows[a][n].events
  <2>3. /\ base \in Seq(Rows) /\ Len(base) = n /\ DOMAIN base = 1..n
        /\ \A i \in 1..n : i # n => i \in DOMAIN rows[a] /\ base[i] = rows[a][i]
        /\ base[n].started = s.started /\ base[n].ended = None
        /\ base[n].cols = IF a \in cycle.opens \/ a \in cycle.flushes THEN s.cols ELSE rows[a][n].cols
        /\ base[n].events = ev
    <3>1. CASE a \in cycle.opens
      <4>1. /\ NewRow(s) \in Rows /\ NewRow(s).started = s.started /\ NewRow(s).ended = None
            /\ NewRow(s).cols = s.cols /\ NewRow(s).events = <<>>
        BY <2>2, BlankTypes DEF NewRow, Rows, Timelines
      <4>2. base = Append(rows[a], NewRow(s))
        BY <3>1
      <4> HIDE DEF base
      <4>3. QED
        BY <1>1, <2>2, <3>1, <4>1, <4>2
    <3>2. CASE a \notin cycle.opens /\ a \in cycle.flushes
      <4> DEFINE r == [rows[a][n] EXCEPT !.cols = s.cols]
      <4>1. n \in DOMAIN rows[a] /\ rows[a][n] \in Rows
        BY <1>1, <2>2, <3>2
      <4>2. /\ r \in Rows /\ r.started = rows[a][n].started /\ r.ended = rows[a][n].ended
            /\ r.cols = s.cols /\ r.events = rows[a][n].events
        BY <2>2, <4>1 DEF Rows
      <4>3. base = [rows[a] EXCEPT ![n] = r]
        BY <2>2, <3>2
      <4> HIDE DEF base, r
      <4>4. QED
        BY <1>1, <2>2, <3>2, <4>1, <4>2, <4>3
    <3>3. CASE a \notin cycle.opens /\ a \notin cycle.flushes
      <4>1. base = rows[a]
        BY <3>3
      <4> HIDE DEF base
      <4>2. QED
        BY <1>1, <2>2, <3>3, <4>1
    <3>4. QED
      BY <3>1, <3>2, <3>3
  <2> HIDE DEF base
  <2>4. CASE cycle.queued[a] = <<>>
    <3>1. ev \in Timelines
      <4>1. n \in DOMAIN base /\ base[n] \in Rows
        BY <2>2, <2>3
      <4>2. QED
        BY <2>3, <4>1 DEF Rows, Timelines
    <3>2. ev \o <<>> = ev
      BY <3>1 DEF Timelines
    <3>3. Written(a) = base
      BY <1>2, <2>4
    <3>4. QED
      BY <1>4, <2>2, <2>3, <2>4, <3>2, <3>3
  <2>5. CASE cycle.queued[a] # <<>>
    <3> DEFINE r == [base[n] EXCEPT !.events = @ \o cycle.queued[a]]
    <3>1. n \in DOMAIN base /\ base[n] \in Rows
      BY <2>2, <2>3
    <3>2. base[n].events \in Timelines /\ base[n].events \o cycle.queued[a] \in Timelines
      BY <1>1, <3>1 DEF Rows, Timelines
    <3>3. /\ r \in Rows /\ r.started = base[n].started /\ r.ended = base[n].ended
          /\ r.cols = base[n].cols /\ r.events = base[n].events \o cycle.queued[a]
      BY <3>1, <3>2 DEF Rows, Timelines
    <3>4. Written(a) = [base EXCEPT ![n] = r]
      BY <1>2, <2>5
    <3> HIDE DEF r
    <3>5. /\ Written(a) \in Seq(Rows) /\ Len(Written(a)) = n /\ DOMAIN Written(a) = 1..n
          /\ Written(a)[n] = r /\ \A i \in 1..n : i # n => Written(a)[i] = base[i]
      BY <2>2, <2>3, <3>1, <3>3, <3>4
    <3>6. r.events = IF a \in cycle.opens THEN cycle.queued[a] ELSE rows[a][n].events \o cycle.queued[a]
      <4>1. <<>> \o cycle.queued[a] = cycle.queued[a]
        BY <1>1 DEF Timelines
      <4>2. QED
        BY <2>3, <3>3, <4>1
    <3>7. QED
      BY <1>4, <2>2, <2>3, <3>3, <3>5, <3>6
  <2>6. QED
    BY <2>4, <2>5
<1>5. QED
  BY <1>3, <1>4
-----------------------------------------------------------------------------
(* Each part of the invariant survives a step that leaves its state alone.  *)

\* MemoryInv looks at the accumulators alone.
LEMMA SameMemory ==
  ASSUME MemoryInv, \A a \in Aircraft : SameSighting(a)
  PROVE  MemoryInv'
BY DEF MemoryInv, MemoryOf, SameSighting

\* RowsInv survives as long as time only passes.
LEMMA SameRows ==
  ASSUME TypeOK, RowsInv, rows' = rows, now' \in Nat, now <= now'
  PROVE  RowsInv'
<1>1. ASSUME NEW a \in Aircraft, NEW i \in DOMAIN rows[a]
      PROVE  ~Open(rows[a][i]) => rows[a][i].ended + CloseS <= now'
  <2>1. rows[a][i] \in Rows
    BY DEF TypeOK
  <2>2. ~Open(rows[a][i]) => rows[a][i].ended \in Nat
    BY <2>1 DEF Rows, Open, Time
  <2>3. ~Open(rows[a][i]) => rows[a][i].ended + CloseS <= now
    BY DEF RowsInv, RowsOf
  <2>4. QED
    BY <2>2, <2>3, WorkerAssumption DEF TypeOK, Time
<1>2. ASSUME NEW a \in Aircraft
      PROVE  RowsOf(a)'
  <2>1. RowsOf(a)
    BY DEF RowsInv
  <2>2. QED
    BY <1>1, <2>1 DEF RowsOf, Open
<1>3. QED
  BY <1>2 DEF RowsInv

\* The stages in which an accumulator is the owner of its open row.
Ordinary == pc \notin {"committed", "down", "recover"}

\* OwnerInv outside commit and recovery: rows and accumulators are as they were.
LEMMA SameOwner ==
  ASSUME OwnerInv, rows' = rows, \A a \in Aircraft : SameSighting(a), Ordinary, Ordinary'
  PROVE  OwnerInv'
<1>1. ASSUME NEW a \in Aircraft
      PROVE  OwnedBy(a)'
  <2>1. SameSighting(a) /\ OwnedBy(a)
    BY DEF OwnerInv, OwnerOf, Ordinary
  <2>2. QED
    BY <2>1 DEF SameSighting, OwnedBy, LastOpen
<1>2. QED
  BY <1>1 DEF OwnerInv, OwnerOf, Ordinary

\* OwnerInv at every stage, when the stage is as it was.
LEMMA SameOwnerAnyStage ==
  ASSUME OwnerInv, UNCHANGED <<rows, frame, cycle, toRecover, pc>>, now' = now,
         \A a \in Aircraft : SameSighting(a)
  PROVE  OwnerInv'
<1>1. ASSUME NEW a \in Aircraft
      PROVE  OwnerOf(a)'
  <2>1. SameSighting(a) /\ OwnerOf(a)
    BY DEF OwnerInv
  <2>2. (OwnedBy(a) => OwnedBy(a)') /\ (JustWritten(a) => JustWritten(a)')
    BY <2>1 DEF SameSighting, OwnedBy, JustWritten, LastOpen
  <2>3. \A i \in Nat : Stale(a, i)' <=> Stale(a, i)
    BY DEF Stale, LastData
  <2>4. InRecovery(a) => InRecovery(a)'
    BY <2>1, <2>2, <2>3 DEF InRecovery, SameSighting, LastOpen
  <2>5. QED
    BY <2>1, <2>2, <2>4 DEF OwnerOf
<1>2. QED
  BY <1>1 DEF OwnerInv

\* NewsInv when nothing is heard, drained or written.
LEMMA SameNews ==
  ASSUME NewsInv, News' = News, live' = live, rows' = rows,
         \A a \in Aircraft : SameSighting(a), pc = "committed" => pc' = "committed"
  PROVE  NewsInv'
<1>1. ASSUME NEW a \in Aircraft
      PROVE  NewsOf(a)'
  <2>1. NewsOf(a) /\ SameSighting(a)
    BY DEF NewsInv
  <2>2. Present' = Present
    BY DEF Present
  <2>3. QED
    BY <2>1, <2>2 DEF NewsOf, SameSighting, LastEnd
<1>2. QED
  BY <1>1 DEF NewsInv

\* LiveInv when the stream, the live set and who is active stay.
LEMMA SameLive ==
  ASSUME LiveInv, News' = News, live' = live,
         Subscription.overflowed' = Subscription.overflowed,
         \A a \in Aircraft : HasActive(a)' <=> HasActive(a)
  PROVE  LiveInv'
<1>1. Present' = Present
  BY DEF Present
<1>2. QED
  BY <1>1 DEF LiveInv, LiveOf, LastWord

\* WorkInv while the transaction and what it was made from stay.
LEMMA SameWork ==
  ASSUME WorkInv, work' = work, rows' = rows, cycle' = cycle, pc' = pc,
         \A a \in Aircraft : SameSighting(a)
  PROVE  WorkInv'
BY DEF WorkInv, WorkOf, SameSighting

\* CycleInv when what the cycle decided still stands and time only passes.
LEMMA SameCycle ==
  ASSUME TypeOK, StageInv, CycleInv, cycle' = cycle, pc' = pc, rows' = rows,
         Subscription' = Subscription, live' = live, now' \in Nat, now <= now',
         \A a \in Aircraft : SameSighting(a)
  PROVE  CycleInv'
<1>1. Present' = Present
  BY DEF Present
<1>2. ASSUME NEW a \in Aircraft, DueOf(a)
      PROVE  DueOf(a)'
  BY <1>1, <1>2 DEF DueOf, SameSighting
<1>3. cycle \in Cycles /\ cycle.at \in Nat /\ now \in Nat
  BY DEF StageInv, Cycles, TypeOK, Time
<1>4. cycle.opens \subseteq Aircraft /\ cycle.flushes \subseteq Aircraft /\ cycle.due \subseteq Aircraft
  BY <1>3 DEF Cycles
<1>5. Decided => Decided'
  BY <1>2, <1>3, <1>4 DEF Decided, SameSighting
<1>6. (Committing' <=> Committing) /\ (FirstStored' <=> FirstStored)
  BY DEF Committing, FirstStored
<1>7. QED
  BY <1>5, <1>6 DEF CycleInv

\* T0NamesSighting when no row is lost and none changes its start.
LEMMA SameT0 ==
  ASSUME T0NamesSighting, t0' = t0,
         \A a \in Aircraft : \A i \in DOMAIN rows[a] :
           i \in DOMAIN rows'[a] /\ rows'[a][i].started = rows[a][i].started
  PROVE  T0NamesSighting'
BY DEF T0NamesSighting

\* The last contact the database holds for an open row is a reading of the clock.
LEMMA LastDataType ==
  ASSUME TypeOK, NEW a \in Aircraft, NEW i \in DOMAIN rows[a]
  PROVE  LastData(a, i) \in Time /\ LastData(a, i) >= rows[a][i].started
<1>1. rows[a][i] \in Rows /\ frame[a] \in Frames
  BY DEF TypeOK
<1>2. rows[a][i].started \in Time /\ frame[a].seen \in Time \cup {None}
  BY <1>1 DEF Rows, Frames
<1>3. QED
  BY <1>2 DEF LastData, Later, Time, None
-----------------------------------------------------------------------------
(* Every step keeps the invariant, one action at a time.                    *)

\* Time passes: what had passed its gap has passed it still.
LEMMA ClockStep ==
  ASSUME WorkerInv, Clock
  PROVE  WorkerInv'
<1> USE DEF WorkerInv
<1>1. /\ now \in Nat /\ now' = now + 1 /\ now' \in Time /\ now' \in Nat
      /\ UNCHANGED <<live, sub, active, pending, inbox, cycle, rows, frame, t0, work,
                     t0Established, pc, stopping, toRecover, fails, restarts>>
      /\ Subscription' = Subscription
  BY FeedAssumption DEF TypeOK, Clock, Tick, Time, memVars, dbVars, budget, Subscription
<1>2. \A a \in Aircraft : SameSighting(a)
  BY <1>1, Untouched
<1>3. TypeOK'
  BY <1>1 DEF TypeOK
<1>4. StageInv'
  BY <1>1 DEF StageInv, PoweredOff
<1>5. MemoryInv' /\ RowsInv' /\ WorkInv' /\ T0NamesSighting'
  BY <1>1, <1>2, SameMemory, SameRows, SameWork, SameT0
<1>6. NewsInv'
  <2>1. News' = News /\ Present' = Present
    BY <1>1 DEF News, Present
  <2>2. QED
    BY <1>1, <1>2, <2>1 DEF NewsInv, NewsOf, SameSighting, LastEnd
<1>7. LiveInv'
  BY <1>1, <1>2, SameLive DEF News, SameSighting
<1>8. CycleInv'
  BY <1>1, <1>2, SameCycle
<1>9. OwnerInv'
  <2>1. ASSUME NEW a \in Aircraft
        PROVE  OwnerOf(a)'
    <3>1. SameSighting(a) /\ OwnerOf(a)
      BY <1>2 DEF OwnerInv
    <3>2. (OwnedBy(a) => OwnedBy(a)') /\ (JustWritten(a) => JustWritten(a)')
      BY <1>1, <3>1 DEF SameSighting, OwnedBy, JustWritten, LastOpen
    <3>3. InRecovery(a) => InRecovery(a)'
      <4>1. \A i \in Nat : i \in DOMAIN rows[a] /\ Stale(a, i) => Stale(a, i)'
        <5>1. ASSUME NEW i \in Nat, i \in DOMAIN rows[a], LastData(a, i) + CloseS <= now
              PROVE  LastData(a, i)' + CloseS <= now'
          <6>1. LastData(a, i)' = LastData(a, i)
            BY <1>1 DEF LastData
          <6>2. LastData(a, i) \in Nat
            BY <5>1, LastDataType DEF Time
          <6>3. QED
            BY <1>1, <5>1, <6>1, <6>2, WorkerAssumption
        <5>2. QED
          BY <5>1 DEF Stale
      <4>2. LastOpen(rows[a]) => Len(rows[a]) \in DOMAIN rows[a]
        BY DEF LastOpen, TypeOK
      <4>3. QED
        BY <1>1, <3>1, <3>2, <4>1, <4>2 DEF InRecovery, SameSighting, LastOpen
    <3>4. QED
      BY <1>1, <3>1, <3>2, <3>3 DEF OwnerOf
  <2>2. QED
    BY <2>1 DEF OwnerInv
<1>10. QED
  BY <1>3, <1>4, <1>5, <1>6, <1>7, <1>8, <1>9

\* Delivering an event keeps a subscription a subscription (events.deliver).
LEMMA DeliverType ==
  ASSUME NEW s \in Subscriptions, NEW e \in Events
  PROVE  Deliver(s, e) \in Subscriptions
<1>1. CASE Len(s.queue) < QueueSize
  BY <1>1 DEF Deliver, Subscriptions
<1>2. CASE ~(Len(s.queue) < QueueSize)
  <2>1. s.queue # <<>>
    BY <1>2, QueueSizeAssumption DEF Subscriptions
  <2>2. Tail(s.queue) \in Seq(Events)
    BY <2>1 DEF Subscriptions
  <2>3. QED
    BY <1>2, <2>2 DEF Deliver, Subscriptions
<1>3. QED
  BY <1>1, <1>2

\* Publishing puts the event last and keeps or sheds what was there (events.py).
LEMMA PublishEffect ==
  ASSUME sub \in [Consumers -> Subscriptions], NEW e \in Events, Publish(e)
  PROVE  LET q == Subscription.queue  q2 == Subscription'.queue
         IN  /\ sub' \in [Consumers -> Subscriptions] /\ Subscription' \in Subscriptions
             /\ Subscription \in Subscriptions
             /\ \A i \in DOMAIN q2 : q2[i] = e \/ \E j \in DOMAIN q : q2[i] = q[j]
             /\ ~Subscription'.overflowed => ~Subscription.overflowed /\ q2 = Append(q, e)
<1> DEFINE s == Subscription
<1>1. s \in Subscriptions /\ Subscription' = Deliver(s, e)
  BY WorkerAssumption DEF Subscription, Publish
<1>2. Deliver(s, e) \in Subscriptions
  <2> HIDE DEF s
  <2>1. QED
    BY <1>1, DeliverType
<1>3. sub' \in [Consumers -> Subscriptions]
  BY <1>1, <1>2, WorkerAssumption DEF Publish, Subscription
<1> HIDE DEF s
<1>4. CASE Len(s.queue) < QueueSize
  <2>1. Subscription' = [s EXCEPT !.queue = Append(s.queue, e)]
    BY <1>1, <1>4 DEF Deliver
  <2>2. s.queue \in Seq(Events) /\ Subscription'.queue = Append(s.queue, e)
        /\ Subscription'.overflowed = s.overflowed
    BY <1>1, <2>1 DEF Subscriptions
  <2>3. \A i \in DOMAIN Append(s.queue, e) : Append(s.queue, e)[i] = e
           \/ (i \in DOMAIN s.queue /\ Append(s.queue, e)[i] = s.queue[i])
    BY <2>2
  <2>4. QED
    BY <1>1, <1>2, <1>3, <2>2, <2>3 DEF s
<1>5. CASE ~(Len(s.queue) < QueueSize)
  <2>1. Subscription' = [queue |-> Append(Tail(s.queue), e), overflowed |-> TRUE]
    BY <1>1, <1>5 DEF Deliver
  <2>2. s.queue \in Seq(Events) /\ s.queue # <<>>
    BY <1>1, <1>5, QueueSizeAssumption DEF Subscriptions
  <2>3. /\ Tail(s.queue) \in Seq(Events)
        /\ \A i \in DOMAIN Tail(s.queue) : i + 1 \in DOMAIN s.queue /\ Tail(s.queue)[i] = s.queue[i + 1]
    BY <2>2
  <2>4. \A i \in DOMAIN Append(Tail(s.queue), e) : Append(Tail(s.queue), e)[i] = e
           \/ \E j \in DOMAIN s.queue : Append(Tail(s.queue), e)[i] = s.queue[j]
    BY <2>2, <2>3
  <2>5. QED
    BY <1>1, <1>2, <1>3, <2>1, <2>4 DEF s
<1>6. QED
  BY <1>4, <1>5

\* What the store says of an aircraft is later than any row of it that is over,
\* and what it says first of one that was away began within the last RemoveS.
LEMMA StoreSays ==
  ASSUME WorkerInv, Awaiting, LiveStoreActs
  PROVE  \E a \in Aircraft, kind \in Kinds, r \in Records :
           /\ Publish(Event(kind, a, r)) /\ Event(kind, a, r) \in Events
           /\ live' \in [Aircraft -> Records \cup {NotLive}]
           /\ \A x \in Aircraft : x # a => live'[x] = live[x]
           /\ a \in Present \/ now < r.first + RemoveS
           /\ a \in Present => r.first = live[a].first
           /\ a \in Present' => live'[a].first = r.first
           /\ LastEnd(rows[a]) < r.first
           /\ kind = "stale" => (a \in Present' <=> a \in Present)
           /\ kind # "stale" => (a \in Present' <=> kind # "removed")
           /\ now' = now
<1>1. PICK a \in Aircraft :
         \/ \E silence \in 0..MaxSilence : silence <= now /\ Observe(a, silence)
         \/ AnnounceStale(a)
         \/ Leave(a)
  BY DEF LiveStoreActs
<1>2. live \in [Aircraft -> Records \cup {NotLive}] /\ now \in Nat /\ now \in Time
  BY DEF WorkerInv, TypeOK, Time
<1>3. ASSUME NEW x \in Present
      PROVE  live[x] \in Records /\ x \in Aircraft
  BY <1>2 DEF Present
<1>4. \A r \in Records : r # NotLive /\ r.first \in Nat /\ r.first \in Time /\ r.last \in Time
  BY DEF Records, NotLive, Time
<1>5. \A kind \in Kinds, r \in Records : Event(kind, a, r) \in Events
  BY <1>4 DEF Event, Events, Time
<1>6. a \in Present => LastEnd(rows[a]) < live[a].first
  BY DEF WorkerInv, NewsInv, NewsOf
<1>7. CASE \E silence \in 0..MaxSilence : silence <= now /\ Observe(a, silence)
  <2>1. PICK silence \in 0..MaxSilence : silence <= now /\ Observe(a, silence)
    BY <1>7
  <2> DEFINE r == [first |-> IF a \in Present THEN live[a].first ELSE now - silence,
                   last  |-> now - silence]
             kind == IF a \in Present THEN "updated" ELSE "appeared"
  <2>2. silence \in Nat /\ silence <= now /\ silence < RemoveS /\ now - silence \in Time /\ now - silence \in Nat
    BY <1>2, <2>1, WorkerAssumption, FeedAssumption DEF Time
  <2>3. r \in Records /\ kind \in Kinds
    BY <1>3, <1>4, <2>2 DEF Records, Kinds, Time
  <2>4. live' = [live EXCEPT ![a] = r] /\ Publish(Event(kind, a, r)) /\ now' = now
    BY <2>1 DEF Observe
  <2>5. LastEnd(rows[a]) < r.first
    <3>1. CASE a \in Present
      BY <1>6, <3>1
    <3>2. CASE a \notin Present /\ LastEnd(rows[a]) = None
      BY <2>2, <3>2 DEF None
    <3>3. CASE a \notin Present /\ LastEnd(rows[a]) # None
      <4>1. rows[a] \in Seq(Rows) /\ rows[a] # <<>> /\ LastEnd(rows[a]) = rows[a][Len(rows[a])].ended
        BY <3>3 DEF LastEnd, WorkerInv, TypeOK
      <4>2. Len(rows[a]) \in DOMAIN rows[a] /\ rows[a][Len(rows[a])] \in Rows
        BY <4>1
      <4>3. rows[a][Len(rows[a])].ended + CloseS <= now
        BY <3>3, <4>1, <4>2 DEF WorkerInv, RowsInv, RowsOf, Open
      <4>4. rows[a][Len(rows[a])].ended \in Nat
        BY <3>3, <4>1, <4>2 DEF Rows, Time
      <4>5. QED
        BY <1>2, <2>2, <3>3, <4>1, <4>3, <4>4, WorkerAssumption, FeedAssumption
    <3>4. QED
      BY <3>1, <3>2, <3>3
  <2>6. live' \in [Aircraft -> Records \cup {NotLive}] /\ live'[a] = r /\ a \in Present'
        /\ \A x \in Aircraft : x # a => live'[x] = live[x]
    BY <1>2, <1>4, <2>3, <2>4 DEF Present
  <2>7. /\ a \in Present => r.first = live[a].first
        /\ a \notin Present => now < r.first + RemoveS
    BY <1>2, <2>2, FeedAssumption
  <2>8. kind # "stale" /\ kind # "removed"
    OBVIOUS
  <2> HIDE DEF r, kind
  <2>9. QED
    BY <1>5, <2>3, <2>4, <2>5, <2>6, <2>7, <2>8
<1>8. CASE AnnounceStale(a)
  <2>1. a \in Present /\ live' = live /\ now' = now /\ Publish(Event("stale", a, live[a]))
    BY <1>8 DEF AnnounceStale
  <2>2. live[a] \in Records /\ "stale" \in Kinds /\ Present' = Present
    BY <1>3, <2>1 DEF Kinds, Present
  <2>3. QED
    BY <1>2, <1>5, <1>6, <2>1, <2>2
<1>9. CASE Leave(a)
  <2>1. a \in Present /\ live' = [live EXCEPT ![a] = NotLive] /\ now' = now
        /\ Publish(Event("removed", a, live[a]))
    BY <1>9 DEF Leave
  <2>2. live[a] \in Records /\ "removed" \in Kinds /\ a \notin Present'
        /\ live' \in [Aircraft -> Records \cup {NotLive}]
        /\ \A x \in Aircraft : x # a => live'[x] = live[x]
    BY <1>2, <1>3, <2>1 DEF Kinds, Present
  <2>3. QED
    BY <1>5, <1>6, <2>1, <2>2
<1>10. QED
  BY <1>1, <1>7, <1>8, <1>9

\* The live store acts between two steps of the worker.
LEMMA LiveStoreStep ==
  ASSUME WorkerInv, LiveStoreActs
  PROVE  WorkerInv'
<1> USE DEF WorkerInv
<1>1. Awaiting
  BY DEF LiveStoreActs
<1>2. PICK a \in Aircraft, kind \in Kinds, r \in Records :
           /\ Publish(Event(kind, a, r)) /\ Event(kind, a, r) \in Events
           /\ live' \in [Aircraft -> Records \cup {NotLive}]
           /\ \A x \in Aircraft : x # a => live'[x] = live[x]
           /\ a \in Present \/ now < r.first + RemoveS
           /\ a \in Present => r.first = live[a].first
           /\ a \in Present' => live'[a].first = r.first
           /\ LastEnd(rows[a]) < r.first
           /\ kind = "stale" => (a \in Present' <=> a \in Present)
           /\ kind # "stale" => (a \in Present' <=> kind # "removed")
           /\ now' = now
  BY <1>1, StoreSays
<1>3. UNCHANGED <<active, pending, inbox, cycle, rows, frame, t0, work,
                  t0Established, pc, stopping, toRecover, fails, restarts>>
  BY DEF LiveStoreActs, memVars, dbVars, budget
<1> DEFINE e == Event(kind, a, r)
           q == Subscription.queue
           q2 == Subscription'.queue
<1>4. e \in Events /\ e.icao = a /\ e.first = r.first /\ e.kind = kind
  BY <1>2 DEF Event
<1>5. /\ sub' \in [Consumers -> Subscriptions] /\ Subscription' \in Subscriptions
      /\ Subscription \in Subscriptions
      /\ \A i \in DOMAIN q2 : q2[i] = e \/ \E j \in DOMAIN q : q2[i] = q[j]
      /\ ~Subscription'.overflowed => ~Subscription.overflowed /\ q2 = Append(q, e)
  BY <1>2, PublishEffect DEF StageInv
<1>6. \A x \in Aircraft : SameSighting(x)
  BY <1>3, Untouched
<1>7. News = q /\ News' = q2 /\ pc \notin {"drain", "down", "recover", "exit"}
  BY <1>1, <1>3 DEF News, Awaiting
<1>8. \A x \in Aircraft : x # a => (x \in Present' <=> x \in Present)
  BY <1>2 DEF Present
<1> HIDE DEF e
<1>9. TypeOK'
  BY <1>2, <1>3, <1>5 DEF TypeOK, Subscriptions
<1>10. StageInv'
  BY <1>3, <1>5, <1>7 DEF StageInv, PoweredOff
<1>11. MemoryInv' /\ RowsInv' /\ WorkInv' /\ T0NamesSighting'
  <2>1. now \in Nat
    BY DEF TypeOK, Time
  <2>2. QED
    BY <1>2, <1>3, <1>6, <2>1, SameMemory, SameRows, SameWork, SameT0
<1>12. NewsInv'
  <2>1. ASSUME NEW x \in Aircraft
        PROVE  NewsOf(x)'
    <3>1. NewsOf(x)
      BY DEF NewsInv
    <3>2. \A i \in DOMAIN q2 : q2[i].icao = x => LastEnd(rows[x]) < q2[i].first
      BY <1>2, <1>4, <1>5, <1>7, <3>1 DEF NewsOf
    <3>3. x \in Present' => LastEnd(rows[x]) < live'[x].first
      BY <1>2, <1>8, <3>1 DEF NewsOf
    <3>4. QED
      BY <1>3, <1>6, <1>7, <3>1, <3>2, <3>3 DEF NewsOf, SameSighting
  <2>2. QED
    BY <2>1 DEF NewsInv
<1>13. OwnerInv'
  BY <1>2, <1>3, <1>6, SameOwnerAnyStage
<1>14. CycleInv'
  <2>1. ASSUME Committing, NEW x \in cycle.due, DueOf(x)
        PROVE  DueOf(x)'
    <3>1. x \in Aircraft /\ cycle.at \in Nat /\ now \in Nat /\ cycle.at <= now /\ r.first \in Nat
      BY <2>1 DEF StageInv, Cycles, CycleInv, Decided, TypeOK, Time, Records
    <3>2. x = a => cycle.at < r.first + RemoveS
      BY <1>2, <2>1, <3>1, FeedAssumption DEF DueOf
    <3>3. \A i \in DOMAIN q2 : q2[i].icao = x => cycle.at < q2[i].first + RemoveS
      BY <1>4, <1>5, <2>1, <3>2 DEF DueOf
    <3>4. x \in Present' => cycle.at < live'[x].first + RemoveS
      BY <1>2, <1>8, <2>1, <3>1, <3>2 DEF DueOf
    <3>5. QED
      BY <1>3, <1>6, <2>1, <3>1, <3>3, <3>4 DEF DueOf, SameSighting
  <2>2. ASSUME Committing
        PROVE  Decided'
    <3>1. cycle.opens \subseteq Aircraft /\ cycle.flushes \subseteq Aircraft
      BY DEF StageInv, Cycles
    <3>2. Decided /\ \A x \in cycle.due : DueOf(x)'
      BY <2>1, <2>2 DEF CycleInv, Decided
    <3>3. QED
      BY <1>2, <1>3, <1>6, <3>1, <3>2 DEF Decided, SameSighting
  <2>3. (Committing' <=> Committing) /\ (FirstStored' <=> FirstStored)
    BY <1>3 DEF Committing, FirstStored
  <2>4. QED
    BY <1>3, <2>2, <2>3 DEF CycleInv
<1>15. LiveInv'
  <2> SUFFICES ASSUME ~Subscription'.overflowed, NEW x \in Aircraft
               PROVE  LiveOf(x)'
    BY DEF LiveInv
  <2>1. LiveOf(x) /\ q \in Seq(Events) /\ q2 = Append(q, e)
    BY <1>5 DEF LiveInv, Subscriptions
  <2>2. /\ DOMAIN q2 = 1..(Len(q) + 1) /\ q2[Len(q) + 1] = e /\ DOMAIN q = 1..Len(q)
        /\ Len(q) \in Nat /\ \A i \in DOMAIN q : q2[i] = q[i]
    BY <2>1
  <2> HIDE DEF q, q2
  <2>3. HasActive(x)' <=> HasActive(x)
    BY <1>6 DEF SameSighting
  <2>4. CASE x = a /\ kind # "stale"
    <3>1. PICK n \in Nat : n = Len(q) + 1
      BY <2>2
    <3>2. LastWord(x, n)'
      BY <1>4, <1>7, <2>2, <2>4, <3>1 DEF LastWord
    <3>3. News'[n].kind # "removed" <=> x \in Present'
      BY <1>2, <1>4, <1>7, <2>2, <2>4, <3>1
    <3>4. QED
      BY <1>7, <2>2, <3>1, <3>2, <3>3 DEF LiveOf
  <2>5. CASE x # a \/ kind = "stale"
    <3>1. x \in Present' <=> x \in Present
      BY <1>2, <1>8, <2>5
    <3>2. \A i \in DOMAIN q : LastWord(x, i) => LastWord(x, i)'
      BY <1>4, <1>7, <2>2, <2>5 DEF LastWord
    <3>3. CASE \E i \in DOMAIN News : LastWord(x, i) /\ (News[i].kind # "removed" <=> x \in Present)
      BY <1>7, <2>2, <3>1, <3>2, <3>3 DEF LiveOf
    <3>4. CASE \A i \in DOMAIN News : News[i].icao = x => News[i].kind = "stale"
      <4>1. \A i \in DOMAIN q2 : q2[i].icao = x => q2[i].kind = "stale"
        BY <1>4, <1>7, <2>2, <2>5, <3>4
      <4>2. HasActive(x) <=> x \in Present
        BY <2>1, <3>4 DEF LiveOf, LastWord
      <4>3. QED
        BY <1>7, <2>3, <3>1, <4>1, <4>2 DEF LiveOf
    <3>5. QED
      BY <2>1, <3>3, <3>4 DEF LiveOf
  <2>6. QED
    BY <2>4, <2>5
<1>16. QED
  BY <1>9, <1>10, <1>11, <1>12, <1>13, <1>14, <1>15

\* apply_* changes what a sighting says; whose it is stays as it was.
LEMMA ApplyStep ==
  ASSUME WorkerInv, NEW a \in Aircraft, NEW col \in Column, NEW v \in Nat, Apply(a, col, v)
  PROVE  WorkerInv'
<1> USE DEF WorkerInv
<1>1. /\ active' \in [Aircraft -> Accs \cup {NoAcc}]
      /\ pending' \in [Aircraft -> Accs \cup {NoAcc}]
      /\ \A x \in Aircraft : SameSighting(x)
  BY ApplyEffect
<1>2. /\ UNCHANGED <<now, live, sub, inbox, cycle, work, t0Established, pc, stopping, toRecover,
                     rows, frame, t0, fails, restarts>>
      /\ Subscription' = Subscription /\ News' = News
  BY DEF Apply, feedVars, dbVars, budget, Subscription, News
<1>3. TypeOK'
  BY <1>1, <1>2 DEF TypeOK
<1>4. pc \notin {"down", "recover"} /\ now \in Nat
  BY DEF Apply, MayApply, Awaiting, TypeOK, Time
<1>5. StageInv'
  BY <1>2, <1>4 DEF StageInv, PoweredOff
<1>6. MemoryInv' /\ RowsInv' /\ WorkInv' /\ T0NamesSighting'
  BY <1>1, <1>2, <1>4, SameMemory, SameRows, SameWork, SameT0
<1>7. NewsInv' /\ OwnerInv'
  BY <1>1, <1>2, SameNews, SameOwnerAnyStage
<1>8. CycleInv'
  BY <1>1, <1>2, <1>4, SameCycle
<1>9. LiveInv'
  BY <1>1, <1>2, SameLive DEF SameSighting
<1>10. QED
  BY <1>3, <1>5, <1>6, <1>7, <1>8, <1>9

\* Draining moves the queue into the block: the stream stays the same.
LEMMA DrainStep ==
  ASSUME WorkerInv, Drain
  PROVE  WorkerInv'
<1> USE DEF WorkerInv
<1>1. /\ pc = "idle" /\ pc' = "drain" /\ inbox' = Subscription.queue
      /\ sub' = [sub EXCEPT !["persistence"] = Drained(@)]
      /\ cycle' = [NoCycle EXCEPT !.force = stopping]
      /\ UNCHANGED <<now, live, active, pending, work, t0Established, stopping, toRecover,
                     rows, frame, t0, fails, restarts>>
  BY DEF Drain, dbVars, budget
<1>2. /\ Subscription \in Subscriptions /\ Subscription' = Drained(Subscription)
      /\ sub' \in [Consumers -> Subscriptions]
      /\ Subscription' \in Subscriptions /\ Subscription'.queue = <<>>
      /\ Subscription'.overflowed = Subscription.overflowed
  <2>1. sub \in [Consumers -> Subscriptions] /\ "persistence" \in Consumers
    BY WorkerAssumption DEF StageInv
  <2>2. \A s \in Subscriptions : /\ Drained(s) \in Subscriptions /\ Drained(s).queue = <<>>
                                 /\ Drained(s).overflowed = s.overflowed
    BY BlankTypes DEF Drained, Subscriptions
  <2>3. QED
    BY <1>1, <2>1, <2>2 DEF Subscription
<1>3. \A x \in Aircraft : SameSighting(x)
  BY <1>1, Untouched
<1>4. News' = News
  BY <1>1 DEF News
<1>5. TypeOK'
  BY <1>1, <1>2 DEF TypeOK, Subscriptions
<1>6. StageInv'
  <2>1. cycle' \in Cycles
    BY <1>1, BlankTypes DEF Cycles, TypeOK
  <2>2. QED
    BY <1>1, <1>2, <2>1 DEF StageInv, PoweredOff
<1>7. MemoryInv' /\ RowsInv' /\ T0NamesSighting'
  BY <1>1, <1>3, SameMemory, SameRows, SameT0 DEF TypeOK, Time
<1>8. NewsInv' /\ OwnerInv'
  BY <1>1, <1>3, <1>4, SameNews, SameOwner DEF Ordinary
<1>9. CycleInv' /\ WorkInv'
  BY <1>1 DEF CycleInv, Committing, WorkInv
<1>10. LiveInv'
  BY <1>1, <1>2, <1>3, <1>4, SameLive DEF SameSighting
<1>11. QED
  BY <1>5, <1>6, <1>7, <1>8, <1>9, <1>10

\* In the synchronous block every sighting keeps its row and none gains one.
LEMMA DrainOwner ==
  ASSUME WorkerInv, pc = "drain", pc' = "drain", rows' = rows,
         \A a \in Aircraft :
            IF a \in Tracked THEN a \in Tracked' /\ Continues(Acc(a), Acc(a)')
            ELSE a \in Tracked' => \E first \in Time : /\ Begins(Acc(a)', first)
                                                       /\ LastEnd(rows[a]) < first
  PROVE  /\ OwnerInv' /\ CycleInv' /\ WorkInv'
         /\ \A a \in Aircraft : a \in Tracked' /\ Acc(a)'.sid = 0 => LastEnd(rows[a]) < Acc(a)'.started
<1>1. ASSUME NEW a \in Aircraft
      PROVE  OwnedBy(a)'
  <2>1. OwnedBy(a)
    BY DEF WorkerInv, OwnerInv, OwnerOf
  <2>2. CASE a \in Tracked
    <3>1. a \in Tracked' /\ Acc(a)'.sid = Acc(a).sid /\ Acc(a)'.started = Acc(a).started
      BY <2>2 DEF Continues
    <3>2. QED
      BY <2>1, <2>2, <3>1 DEF OwnedBy, LastOpen
  <2>3. CASE a \notin Tracked
    <3>1. a \in Tracked' => Acc(a)'.sid = 0
      BY <2>3 DEF Begins
    <3>2. QED
      BY <2>1, <2>3, <3>1 DEF OwnedBy, LastOpen
  <2>4. QED
    BY <2>2, <2>3
<1>2. OwnerInv'
  BY <1>1 DEF OwnerInv, OwnerOf
<1>3. CycleInv' /\ WorkInv'
  BY DEF CycleInv, Committing, WorkInv
<1>4. \A a \in Aircraft : a \in Tracked' /\ Acc(a)'.sid = 0 => LastEnd(rows[a]) < Acc(a)'.started
  BY DEF WorkerInv, NewsInv, NewsOf, Continues, Begins
<1>5. QED
  BY <1>2, <1>3, <1>4

\* One event is handled: it was the first word of the stream.
LEMMA HandleStep ==
  ASSUME WorkerInv, Handle
  PROVE  WorkerInv'
<1> USE DEF WorkerInv
<1>1. /\ pc = "drain" /\ pc' = "drain" /\ inbox # <<>> /\ inbox' = Tail(inbox) /\ inbox \in Seq(Events)
      /\ UNCHANGED <<now, live, sub, cycle, work, t0Established, stopping, toRecover,
                     rows, frame, t0, fails, restarts>>
      /\ Subscription' = Subscription
  BY DEF Handle, feedVars, dbVars, budget, Subscription, TypeOK
<1>2. /\ active' \in [Aircraft -> Accs \cup {NoAcc}]
      /\ pending' \in [Aircraft -> Accs \cup {NoAcc}]
      /\ MemoryInv'
      /\ \A a \in Aircraft :
           IF a \in Tracked THEN a \in Tracked' /\ Continues(Acc(a), Acc(a)')
           ELSE a \in Tracked' => \E first \in Time : /\ Begins(Acc(a)', first)
                                                      /\ LastEnd(rows[a]) < first
  BY DrainEffect
<1>3. /\ inbox' \in Seq(Events) /\ Len(inbox) \in Nat \ {0} /\ DOMAIN inbox = 1..Len(inbox)
      /\ DOMAIN inbox' = 1..(Len(inbox) - 1)
      /\ \A i \in DOMAIN inbox' : i + 1 \in DOMAIN inbox /\ inbox'[i] = inbox[i + 1]
      /\ inbox[1] = Head(inbox)
  BY <1>1
<1>4. News = inbox /\ News' = inbox'
  BY <1>1 DEF News
<1>5. TypeOK'
  BY <1>1, <1>2, <1>3 DEF TypeOK
<1>6. StageInv'
  BY <1>1 DEF StageInv, PoweredOff
<1>7. RowsInv' /\ T0NamesSighting'
  BY <1>1, SameRows, SameT0 DEF TypeOK, Time
<1>8. /\ OwnerInv' /\ CycleInv' /\ WorkInv'
      /\ \A a \in Aircraft : a \in Tracked' /\ Acc(a)'.sid = 0 => LastEnd(rows[a]) < Acc(a)'.started
  BY <1>1, <1>2, DrainOwner
<1>9. NewsInv'
  <2>1. ASSUME NEW a \in Aircraft
        PROVE  NewsOf(a)'
    <3>1. NewsOf(a)
      BY DEF NewsInv
    <3>2. \A i \in DOMAIN News' : News'[i].icao = a => LastEnd(rows[a]) < News'[i].first
      BY <1>3, <1>4, <3>1 DEF NewsOf
    <3>3. a \in Present' => LastEnd(rows[a]) < live'[a].first
      BY <1>1, <3>1 DEF NewsOf, Present
    <3>4. QED
      BY <1>1, <1>8, <3>2, <3>3 DEF NewsOf
  <2>2. QED
    BY <2>1 DEF NewsInv
<1>10. LiveInv'
  <2> SUFFICES ASSUME ~Subscription.overflowed, NEW x \in Aircraft
               PROVE  LiveOf(x)'
    BY <1>1 DEF LiveInv
  <2> DEFINE e == Head(inbox)
  <2>1. /\ e \in Events
        /\ x # e.icao \/ e.kind = "stale" => active'[x] = active[x] /\ pending'[x] = pending[x]
        /\ e.kind # "stale" => Became(e.icao, e.kind # "removed", e.first)
    BY HandleEffect
  <2>2. LiveOf(x) /\ (x \in Present' <=> x \in Present)
    BY <1>1 DEF LiveInv, Present
  <2> HIDE DEF e
  <2>3. ASSUME NEW i \in DOMAIN News, LastWord(x, i), i # 1
        PROVE  LiveOf(x)' \/ ~(News[i].kind # "removed" <=> x \in Present)
    <3>1. PICK k \in Nat : k = i - 1
      BY <1>3, <1>4, <2>3
    <3>2. k \in DOMAIN News' /\ News'[k] = News[i]
      BY <1>3, <1>4, <2>3, <3>1
    <3>3. LastWord(x, k)'
      BY <1>3, <1>4, <2>3, <3>1, <3>2 DEF LastWord
    <3>4. QED
      BY <2>2, <3>2, <3>3 DEF LiveOf
  <2>4. CASE x # e.icao \/ e.kind = "stale"
    <3>1. HasActive(x)' <=> HasActive(x)
      BY <2>1, <2>4 DEF HasActive
    <3>2. ~LastWord(x, 1)
      BY <1>3, <1>4, <2>4 DEF LastWord, e
    <3>3. CASE \E i \in DOMAIN News : LastWord(x, i) /\ (News[i].kind # "removed" <=> x \in Present)
      BY <2>3, <3>2, <3>3
    <3>4. CASE /\ \A i \in DOMAIN News : News[i].icao = x => News[i].kind = "stale"
               /\ HasActive(x) <=> x \in Present
      <4>1. \A i \in DOMAIN News' : News'[i].icao = x => News'[i].kind = "stale"
        BY <1>3, <1>4, <3>4
      <4>2. QED
        BY <2>2, <3>1, <3>4, <4>1 DEF LiveOf
    <3>5. QED
      BY <2>2, <3>3, <3>4 DEF LiveOf
  <2>5. CASE x = e.icao /\ e.kind # "stale"
    <3>1. HasActive(x)' <=> e.kind # "removed"
      <4>1. Became(x, e.kind # "removed", e.first)
        BY <2>1, <2>5
      <4>2. QED
        BY <4>1, BecameView
    <3>2. PICK i \in DOMAIN News : LastWord(x, i) /\ (News[i].kind # "removed" <=> x \in Present)
      <4>1. 1 \in DOMAIN News /\ News[1] = e
        BY <1>3, <1>4 DEF e
      <4>2. QED
        BY <2>2, <2>5, <4>1 DEF LiveOf
    <3>3. CASE i = 1
      <4>1. \A j \in DOMAIN News' : News'[j].icao = x => News'[j].kind = "stale"
        BY <1>3, <1>4, <3>2, <3>3 DEF LastWord
      <4>2. News[1] = e
        BY <1>3, <1>4 DEF e
      <4>3. QED
        BY <2>2, <3>1, <3>2, <3>3, <4>1, <4>2 DEF LiveOf
    <3>4. CASE i # 1
      BY <2>3, <3>2, <3>4
    <3>5. QED
      BY <3>3, <3>4
  <2>6. QED
    BY <2>4, <2>5
<1>11. QED
  BY <1>2, <1>5, <1>6, <1>7, <1>8, <1>9, <1>10

\* A resync replaces what a gap may have hidden by the live set itself.
LEMMA ResyncStep ==
  ASSUME WorkerInv, Resync
  PROVE  WorkerInv'
<1> USE DEF WorkerInv
<1>1. /\ pc = "drain" /\ pc' = "drain" /\ inbox = <<>> /\ inbox' = <<>>
      /\ sub' = [sub EXCEPT !["persistence"] = Acknowledged(@)]
      /\ UNCHANGED <<now, live, cycle, work, t0Established, stopping, toRecover,
                     rows, frame, t0, fails, restarts>>
  BY DEF Resync, dbVars, budget
<1>2. /\ sub' \in [Consumers -> Subscriptions]
      /\ Subscription' \in Subscriptions /\ Subscription'.queue = <<>>
  <2>1. sub \in [Consumers -> Subscriptions] /\ "persistence" \in Consumers
        /\ Subscription.queue = <<>>
    BY <1>1, WorkerAssumption DEF StageInv
  <2>2. \A s \in Subscriptions : /\ Acknowledged(s) \in Subscriptions
                                 /\ Acknowledged(s).queue = s.queue
    BY DEF Acknowledged, Subscriptions
  <2>3. QED
    BY <1>1, <2>1, <2>2 DEF Subscription
<1>3. /\ active' \in [Aircraft -> Accs \cup {NoAcc}]
      /\ pending' \in [Aircraft -> Accs \cup {NoAcc}]
      /\ MemoryInv'
      /\ \A a \in Aircraft :
           IF a \in Tracked THEN a \in Tracked' /\ Continues(Acc(a), Acc(a)')
           ELSE a \in Tracked' => \E first \in Time : /\ Begins(Acc(a)', first)
                                                      /\ LastEnd(rows[a]) < first
  BY DrainEffect
<1>4. News' = <<>> /\ Present' = Present
  BY <1>1 DEF News, Present
<1>5. TypeOK'
  BY <1>1, <1>2, <1>3 DEF TypeOK, Subscriptions
<1>6. StageInv'
  BY <1>1, <1>2 DEF StageInv, PoweredOff
<1>7. RowsInv' /\ T0NamesSighting'
  BY <1>1, SameRows, SameT0 DEF TypeOK, Time
<1>8. /\ OwnerInv' /\ CycleInv' /\ WorkInv'
      /\ \A a \in Aircraft : a \in Tracked' /\ Acc(a)'.sid = 0 => LastEnd(rows[a]) < Acc(a)'.started
  BY <1>1, <1>3, DrainOwner
<1>9. NewsInv'
  BY <1>1, <1>4, <1>8 DEF NewsInv, NewsOf
<1>10. LiveInv'
  <2>1. ASSUME NEW a \in Aircraft
        PROVE  HasActive(a)' <=> a \in Present
    <3>1. /\ a \in Present => Became(a, TRUE, live[a].first)
          /\ a \notin Present /\ HasActive(a) => Became(a, FALSE, None)
          /\ a \notin Present /\ ~HasActive(a) => active'[a] = NoAcc
      BY ResyncEffect
    <3>2. \A first : (Became(a, TRUE, first) => HasActive(a)') /\ (Became(a, FALSE, first) => ~HasActive(a)')
      BY BecameView
    <3>3. QED
      BY <3>1, <3>2 DEF HasActive
  <2>2. QED
    BY <1>4, <2>1 DEF LiveInv, LiveOf
<1>11. QED
  BY <1>3, <1>5, <1>6, <1>7, <1>8, <1>9, <1>10

\* What _commit decides before its first await.
LEMMA OwedIs ==
  ASSUME TypeOK, StageInv, MemoryInv
  PROVE  /\ Owed \in Cycles
         /\ Owed.at = now
         /\ \A a \in Aircraft : a \in Owed.due => HasPending(a) /\ Acc(a).deadline <= now
         /\ \A a \in Aircraft : a \in Owed.opens <=> a \in Tracked /\ Acc(a).sid = 0
         /\ \A a \in Aircraft : a \in Owed.flushes <=>
              /\ a \in Tracked /\ a \notin Owed.due /\ a \notin Owed.opens
              /\ NeedsFlush(Acc(a), now, cycle.force)
         /\ \A a \in Aircraft : Owed.queued[a] = Acc(a).events
         /\ Owed.opens # {} => \E a \in Owed.opens : Owed.first = Acc(a).started
<1> DEFINE due     == {a \in Aircraft : HasPending(a) /\ pending[a].deadline # None
                                          /\ now >= pending[a].deadline}
           opens   == {a \in Tracked : Acc(a).sid = 0}
           flushes == {a \in Tracked \ (due \cup opens) : NeedsFlush(Acc(a), now, cycle.force)}
           queued  == [a \in Aircraft |-> Acc(a).events]
           first   == IF opens = {} THEN None ELSE MinStarted(opens)
<1>1. Owed = [cycle EXCEPT !.at = now, !.due = due, !.opens = opens, !.flushes = flushes,
                           !.queued = queued, !.first = first]
  BY DEF Owed
<1>2. \A a \in Aircraft : /\ a \in Tracked => Acc(a) \in Accs
                          /\ a \notin Tracked => Acc(a) = NoAcc
                          /\ HasPending(a) => Acc(a) = pending[a] /\ Acc(a) \in Accs
  BY AccOf DEF MemoryInv
<1>3. queued \in [Aircraft -> Timelines]
  <2>1. \A a \in Aircraft : Acc(a).events \in Timelines
    BY <1>2, AccFields, BlankTypes DEF NoAcc
  <2>2. QED
    BY <2>1
<1>4. Tracked \subseteq Aircraft /\ due \subseteq Aircraft /\ opens \subseteq Aircraft /\ flushes \subseteq Aircraft
  BY DEF Tracked
<1>5. opens # {} => \E a \in opens : first = Acc(a).started
  <2> SUFFICES ASSUME opens # {} PROVE \E a \in opens : first = Acc(a).started
    OBVIOUS
  <2> DEFINE T == {Acc(a).started : a \in opens}
  <2>1. T \subseteq Nat /\ T # {}
    BY <1>2, <1>4, AccFields
  <2>2. \E x \in T : \A y \in T : x <= y
    <3> HIDE DEF T
    <3>1. QED
      BY <2>1, NatMin
  <2>3. \E m \in T : \A a \in opens : m <= Acc(a).started
    BY <2>2
  <2>4. MinStarted(opens) \in T
    <3> HIDE DEF opens
    <3>1. MinStarted(opens) = CHOOSE m \in T : \A a \in opens : m <= Acc(a).started
      BY DEF MinStarted
    <3>2. QED
      BY <2>3, <3>1
  <2>5. QED
    BY <2>4
<1>6. first \in Time \cup {None}
  <2>1. \A a \in opens : Acc(a).started \in Time
    BY <1>2, <1>4, AccFields
  <2> HIDE DEF opens
  <2>2. CASE opens = {}
    BY <2>2
  <2>3. CASE opens # {}
    <3> HIDE DEF first
    <3>1. QED
      BY <1>5, <2>1, <2>3
  <2>4. QED
    BY <2>2, <2>3
<1>7. \A a \in due : HasPending(a) /\ Acc(a).deadline <= now
  <2>1. ASSUME NEW a \in due
        PROVE  HasPending(a) /\ Acc(a).deadline <= now
    <3>1. a \in Aircraft /\ HasPending(a) /\ now >= pending[a].deadline /\ Acc(a) = pending[a]
      BY <1>2, <2>1
    <3>2. Acc(a).deadline = Acc(a).last + CloseS /\ Acc(a).last \in Nat
      BY <1>2, <3>1, AccFields DEF MemoryInv, MemoryOf
    <3>3. QED
      BY <3>1, <3>2, WorkerAssumption DEF TypeOK, Time
  <2>2. QED
    BY <2>1
<1>8. \A a \in Aircraft : /\ a \in opens <=> a \in Tracked /\ Acc(a).sid = 0
                          /\ a \in flushes <=> /\ a \in Tracked /\ a \notin due /\ a \notin opens
                                               /\ NeedsFlush(Acc(a), now, cycle.force)
                          /\ queued[a] = Acc(a).events
  OBVIOUS
<1>9. cycle \in Cycles /\ now \in Time
  BY DEF StageInv, TypeOK, Time
<1> HIDE DEF due, opens, flushes, queued, first
<1>10. Owed \in Cycles
  BY <1>1, <1>3, <1>4, <1>6, <1>9 DEF Cycles
<1>11. /\ Owed.at = now /\ Owed.due = due /\ Owed.opens = opens /\ Owed.flushes = flushes
       /\ Owed.queued = queued /\ Owed.first = first
  BY <1>1, <1>9 DEF Cycles
<1>12. QED
  BY <1>5, <1>7, <1>8, <1>10, <1>11

\* The end of a cycle is a stage between cycles.
LEMMA EndOfCycleIs == EndOfCycle \in {"idle", "exit"}
BY DEF EndOfCycle

\* The decision is taken with an empty stream, so who is due is not live.
LEMMA PrepareStep ==
  ASSUME WorkerInv, Prepare
  PROVE  WorkerInv'
<1> USE DEF WorkerInv
<1>1. /\ pc = "drain" /\ inbox = <<>> /\ ~Subscription.overflowed
      /\ \/ pc' = EndOfCycle /\ cycle' = NoCycle
         \/ pc' = "begun" /\ cycle' = Owed
      /\ UNCHANGED <<now, live, sub, active, pending, inbox, work, t0Established, stopping,
                     toRecover, rows, frame, t0, fails, restarts>>
      /\ Subscription' = Subscription
  BY DEF Prepare, feedVars, dbVars, budget, Subscription
<1>2. pc' \in {"idle", "exit", "begun"} /\ cycle' \in Cycles
  BY <1>1, EndOfCycleIs, BlankTypes, OwedIs
<1>3. \A x \in Aircraft : SameSighting(x) /\ Acc(x)' = Acc(x)
  BY <1>1, Untouched
<1>4. Subscription.queue = <<>> /\ News = <<>> /\ News' = <<>>
  BY <1>1, <1>2 DEF StageInv, News
<1>5. TypeOK'
  BY <1>1, <1>2 DEF TypeOK
<1>6. StageInv'
  BY <1>1, <1>2, <1>4 DEF StageInv, PoweredOff
<1>7. MemoryInv' /\ RowsInv' /\ T0NamesSighting'
  BY <1>1, <1>3, SameMemory, SameRows, SameT0 DEF TypeOK, Time
<1>8. NewsInv' /\ OwnerInv'
  BY <1>1, <1>2, <1>3, <1>4, SameNews, SameOwner DEF Ordinary
<1>9. LiveInv'
  BY <1>1, <1>3, <1>4, SameLive DEF SameSighting
<1>10. WorkInv'
  BY <1>2 DEF WorkInv
<1>11. CycleInv'
  <2>1. CASE pc' = "begun" /\ cycle' = Owed
    <3>1. ASSUME NEW a \in Aircraft, a \in Owed.due
          PROVE  DueOf(a)'
      <4>1. HasPending(a) /\ Acc(a).deadline <= now /\ Owed.at = now
        BY <3>1, OwedIs
      <4>2. Acc(a).last + CloseS <= now /\ ~HasActive(a)
        BY <4>1 DEF MemoryInv, MemoryOf
      <4>3. a \notin Present
        BY <1>1, <1>4, <4>2 DEF LiveInv, LiveOf
      <4>4. QED
        BY <1>1, <1>3, <1>4, <2>1, <4>1, <4>2, <4>3 DEF DueOf, SameSighting, Present
    <3>2. \A a \in Aircraft : Owed.queued[a] # <<>> => a \in Tracked
      <4>1. \A a \in Aircraft : a \notin Tracked => Acc(a).events = <<>>
        BY AccOf DEF MemoryInv, NoAcc
      <4>2. QED
        BY <4>1, OwedIs
    <3>3. Owed.due \subseteq Aircraft /\ Owed.opens \subseteq Aircraft /\ Owed.flushes \subseteq Aircraft
      BY OwedIs DEF Cycles
    <3>4. Decided'
      <4>1. cycle'.at <= now'
        BY <1>1, <2>1, OwedIs DEF TypeOK, Time
      <4>2. \A a \in Aircraft : a \in cycle'.opens <=> a \in Tracked' /\ Acc(a)'.sid = 0
        BY <1>3, <2>1, OwedIs DEF SameSighting
      <4>3. \A a \in cycle'.flushes : a \in Tracked'
        BY <1>3, <2>1, <3>3, OwedIs DEF SameSighting
      <4>4. \A a \in Aircraft : cycle'.queued[a] # <<>> => a \in Tracked'
        BY <1>3, <2>1, <3>2 DEF SameSighting
      <4>5. cycle'.opens # {} => \E a \in cycle'.opens : cycle'.first = Acc(a)'.started
        BY <1>3, <2>1, <3>3, OwedIs
      <4>6. \A a \in cycle'.due : DueOf(a)'
        BY <2>1, <3>1, <3>3
      <4>7. QED
        BY <4>1, <4>2, <4>3, <4>4, <4>5, <4>6 DEF Decided
    <3>5. QED
      BY <2>1, <3>4 DEF CycleInv
  <2>2. CASE pc' \in {"idle", "exit"}
    BY <2>2 DEF CycleInv, Committing
  <2>3. QED
    BY <1>1, <2>1, <2>2, EndOfCycleIs
<1>12. QED
  BY <1>5, <1>6, <1>7, <1>8, <1>9, <1>10, <1>11

\* A step of the cycle that changes only its transaction and its stage.
LEMMA CycleMoves ==
  ASSUME WorkerInv, Committing, Committing', pc \in {"begun", "written", "closing"},
         UNCHANGED <<now, live, sub, active, pending, inbox, cycle, t0Established, stopping,
                     toRecover, rows, frame, t0, fails, restarts>>,
         work' \in [rows : [Aircraft -> Seq(Rows)], frame : [Aircraft -> Frames]],
         pc' \in {"written", "closing"}, WorkInv'
  PROVE  WorkerInv'
<1> USE DEF WorkerInv
<1>1. \A x \in Aircraft : SameSighting(x)
  BY Untouched
<1>2. Subscription' = Subscription /\ News' = News
  BY DEF Subscription, News
<1>3. TypeOK'
  BY <1>2 DEF TypeOK
<1>4. StageInv'
  BY <1>2 DEF StageInv, PoweredOff
<1>5. MemoryInv' /\ RowsInv' /\ T0NamesSighting'
  BY <1>1, SameMemory, SameRows, SameT0 DEF TypeOK, Time
<1>6. NewsInv' /\ OwnerInv'
  BY <1>1, <1>2, SameNews, SameOwner DEF Ordinary
<1>7. LiveInv'
  BY <1>1, <1>2, SameLive DEF SameSighting
<1>8. CycleInv'
  <2>1. cycle.opens \subseteq Aircraft /\ cycle.flushes \subseteq Aircraft /\ cycle.due \subseteq Aircraft
    BY DEF StageInv, Cycles
  <2>2. \A a \in cycle.due : DueOf(a)'
    BY <1>1, <1>2, <2>1 DEF CycleInv, Decided, DueOf, SameSighting, Present
  <2>3. Decided'
    BY <1>1, <2>1, <2>2 DEF CycleInv, Decided, SameSighting
  <2>4. QED
    BY <2>3 DEF CycleInv
<1>9. QED
  BY <1>3, <1>4, <1>5, <1>6, <1>7, <1>8

\* The airframe's row stays a row of its table.
LEMMA WrittenFrameType ==
  ASSUME TypeOK, NEW a \in Aircraft, MemoryOf(a)
  PROVE  WrittenFrame(a) \in Frames
<1>1. frame[a] \in Frames /\ Acc(a).last \in Time \cup {None}
  <2>1. NoAcc.last = None
    BY DEF NoAcc
  <2>2. QED
    BY <2>1, AccOf, AccFields DEF TypeOK
<1>2. frame[a].count + 1 \in Nat /\ Later(frame[a].seen, Acc(a).last) \in Time \cup {None}
  BY <1>1 DEF Frames, Later
<1>3. QED
  BY <1>1, <1>2 DEF WrittenFrame, Frames

\* The statements of the transaction.
LEMMA WriteRowsStep ==
  ASSUME WorkerInv, WriteRows
  PROVE  WorkerInv'
<1>1. /\ pc = "begun" /\ pc' = "written"
      /\ work' = [rows |-> [a \in Aircraft |-> Written(a)],
                  frame |-> [a \in Aircraft |-> WrittenFrame(a)]]
      /\ UNCHANGED <<now, live, sub, active, pending, inbox, cycle, t0Established, stopping,
                     toRecover, rows, frame, t0, fails, restarts>>
  BY DEF WriteRows, feedVars, dbVars, budget
<1>2. \A a \in Aircraft : Written(a) \in Seq(Rows) /\ WrittenFrame(a) \in Frames
  BY <1>1, WrittenIs, WrittenFrameType DEF WorkerInv, MemoryInv
<1>3. work' \in [rows : [Aircraft -> Seq(Rows)], frame : [Aircraft -> Frames]]
  BY <1>1, <1>2
<1>4. ASSUME NEW a \in Aircraft
      PROVE  WorkOf(a)'
  <2> DEFINE w == Written(a)  n == Sid(a)  isNew == a \in cycle.opens
  <2>1. /\ w \in Seq(Rows)
        /\ a \notin Tracked => w = rows[a] /\ ~isNew
        /\ a \in Tracked =>
             /\ n = Len(w) /\ n \in Nat \ {0}
             /\ Len(w) = IF isNew THEN Len(rows[a]) + 1 ELSE Len(rows[a])
             /\ \A i \in DOMAIN w : i # n => i \in DOMAIN rows[a] /\ w[i] = rows[a][i]
             /\ w[n].started = Acc(a).started /\ w[n].ended = None
    BY <1>1, WrittenIs DEF WorkerInv
  <2>2. rows[a] \in Seq(Rows) /\ DOMAIN rows[a] = 1..Len(rows[a]) /\ Len(rows[a]) \in Nat
        /\ DOMAIN w = 1..Len(w)
    BY <2>1 DEF WorkerInv, TypeOK
  <2>3. work'.rows[a] = w /\ Acc(a)' = Acc(a)
    BY <1>1, Untouched
  <2>4. OwnedBy(a)
    BY <1>1 DEF WorkerInv, OwnerInv, OwnerOf
  <2>5. a \in Tracked /\ ~isNew => /\ rows[a][Len(rows[a])].started = Acc(a).started
                                   /\ rows[a][Len(rows[a])].ended = None
    BY <1>1, <2>4 DEF OwnedBy, LastOpen, WorkerInv, CycleInv, Decided, Committing
  <2> HIDE DEF w, n
  <2>6. CASE a \notin Tracked
    <3>1. w = rows[a] /\ ~isNew
      BY <2>1, <2>6
    <3>2. /\ Len(w) = IF isNew THEN Len(rows[a]) + 1 ELSE Len(rows[a])
          /\ \A i \in DOMAIN w :
               /\ w[i].started = IF i <= Len(rows[a]) THEN rows[a][i].started ELSE Acc(a).started
               /\ w[i].ended = IF i <= Len(rows[a]) THEN rows[a][i].ended ELSE None
      BY <2>2, <3>1
    <3>3. QED
      BY <1>1, <2>3, <3>2 DEF WorkOf
  <2>7. CASE a \in Tracked
    <3>1. Len(w) = IF isNew THEN Len(rows[a]) + 1 ELSE Len(rows[a])
      BY <2>1, <2>7
    <3>2. ASSUME NEW i \in DOMAIN w
          PROVE  /\ w[i].started = IF i <= Len(rows[a]) THEN rows[a][i].started ELSE Acc(a).started
                 /\ w[i].ended = IF i <= Len(rows[a]) THEN rows[a][i].ended ELSE None
      BY <2>1, <2>2, <2>5, <2>7, <3>1, <3>2
    <3>3. QED
      BY <1>1, <2>3, <3>1, <3>2 DEF WorkOf
  <2>8. QED
    BY <2>6, <2>7
<1>5. WorkInv'
  BY <1>4 DEF WorkInv
<1>6. QED
  BY <1>1, <1>3, <1>5, CycleMoves DEF Committing

\* The newest row the transaction shows of a tracked aircraft is the one its
\* accumulator resolves to (_resolved).
LEMMA SidIs ==
  ASSUME WorkerInv, pc \in {"begun", "written", "closing"}, NEW a \in Tracked
  PROVE  Sid(a) = IF a \in cycle.opens THEN Len(rows[a]) + 1 ELSE Len(rows[a])
<1>1. a \in Aircraft /\ OwnedBy(a) /\ (a \in cycle.opens <=> Acc(a).sid = 0)
  BY DEF Tracked, WorkerInv, OwnerInv, OwnerOf, CycleInv, Decided, Committing
<1>2. QED
  BY <1>1 DEF Sid, OwnedBy

\* close_sighting writes the last observation over the newest row.
LEMMA CloseTypes ==
  ASSUME NEW r \in Rows, NEW f \in Frames, NEW s \in Accs
  PROVE  /\ CloseRow(r, s, s.reason) \in Rows
         /\ CloseRow(r, s, s.reason).started = r.started
         /\ CloseRow(r, s, s.reason).ended = s.last
         /\ CloseRow(r, s, s.reason).cols = s.cols
         /\ CloseRow(r, s, s.reason).events = r.events
         /\ CloseFrame(f, s) \in Frames
<1>1. s.cols \in Columns /\ s.last \in Time /\ s.reason \in {"none", "gap_timeout", "shutdown_recovery"}
  BY DEF Accs
<1>2. CloseRow(r, s, s.reason) = [r EXCEPT !.cols = s.cols, !.ended = s.last, !.reason = s.reason]
  BY DEF CloseRow
<1>3. CloseRow(r, s, s.reason) \in Rows
  BY <1>1, <1>2 DEF Rows
<1>4. /\ CloseRow(r, s, s.reason).started = r.started
      /\ CloseRow(r, s, s.reason).ended = s.last
      /\ CloseRow(r, s, s.reason).cols = s.cols
      /\ CloseRow(r, s, s.reason).events = r.events
  BY <1>2 DEF Rows
<1>5. /\ Later(f.seen, s.last) \in Time \cup {None}
      /\ f.observed + Later(0, s.last - s.started) \in Nat
  BY AccFields DEF Frames, Later, Time, None
<1>6. CloseFrame(f, s) \in Frames
  BY <1>5 DEF CloseFrame, Frames
<1>7. QED
  BY <1>3, <1>4, <1>6

\* What closing makes of one aircraft's rows.
LEMMA ClosedIs ==
  ASSUME WorkerInv, WriteCloses, NEW a \in Aircraft
  PROVE  LET w == work.rows[a]  c == work'.rows[a]  n == Len(w)
         IN  /\ c \in Seq(Rows) /\ Len(c) = Len(w) /\ DOMAIN c = DOMAIN w
             /\ \A i \in DOMAIN c : i # n => c[i] = w[i]
             /\ a \notin cycle.due => c = w
             /\ a \in cycle.due =>
                  /\ a \in Tracked /\ n \in DOMAIN w
                  /\ c[n].started = w[n].started /\ c[n].ended = Acc(a).last
                  /\ c[n].cols = Acc(a).cols /\ c[n].events = w[n].events
             /\ work'.frame[a] \in Frames
<1> DEFINE w == work.rows[a]  n == Len(w)
<1>1. w \in Seq(Rows) /\ DOMAIN w = 1..n /\ n \in Nat /\ work.frame[a] \in Frames
  BY DEF WorkerInv, TypeOK
<1>2. pc = "written" /\ Committing
  BY DEF WriteCloses, Committing
<1>3. CASE a \notin cycle.due
  <2>1. work'.rows[a] = w /\ work'.frame[a] = work.frame[a]
    BY <1>3 DEF WriteCloses
  <2>2. QED
    BY <1>1, <1>3, <2>1
<1>4. CASE a \in cycle.due
  <2>1. a \in Tracked /\ Acc(a) \in Accs
    BY <1>2, <1>4, AccOf DEF WorkerInv, CycleInv, Decided, DueOf, MemoryInv, Tracked
  <2>2. Sid(a) = n /\ n \in DOMAIN w
    <3>1. Sid(a) = n
      BY <1>2, <2>1, SidIs DEF WorkerInv, WorkInv, WorkOf
    <3>2. n # 0
      <4>1. OwnedBy(a) /\ Len(rows[a]) \in Nat /\ (a \in cycle.opens <=> Acc(a).sid = 0)
        BY <1>2, <2>1 DEF WorkerInv, OwnerInv, OwnerOf, TypeOK, CycleInv, Decided
      <4>2. a \notin cycle.opens => Len(rows[a]) # 0
        BY <2>1, <4>1 DEF OwnedBy
      <4>3. QED
        BY <1>2, <4>1, <4>2 DEF WorkerInv, WorkInv, WorkOf
    <3>3. QED
      BY <1>1, <3>1, <3>2
  <2> DEFINE r == CloseRow(w[n], Acc(a), Acc(a).reason)
  <2>3. /\ r \in Rows /\ r.started = w[n].started /\ r.ended = Acc(a).last
        /\ r.cols = Acc(a).cols /\ r.events = w[n].events
        /\ CloseFrame(work.frame[a], Acc(a)) \in Frames
    <3>1. w[n] \in Rows
      BY <1>1, <2>2
    <3>2. QED
      BY <1>1, <2>1, <3>1, CloseTypes
  <2>4. work'.rows[a] = [w EXCEPT ![n] = r] /\ work'.frame[a] = CloseFrame(work.frame[a], Acc(a))
    BY <1>4, <2>2 DEF WriteCloses
  <2> HIDE DEF w, n, r
  <2>5. /\ work'.rows[a] \in Seq(Rows) /\ Len(work'.rows[a]) = n /\ DOMAIN work'.rows[a] = 1..n
        /\ work'.rows[a][n] = r /\ \A i \in 1..n : i # n => work'.rows[a][i] = w[i]
    <3> DEFINE c == [w EXCEPT ![n] = r]
    <3>1. w \in Seq(Rows) /\ DOMAIN w = 1..n /\ n \in Nat /\ Len(w) = n /\ n \in DOMAIN w
      BY <1>1, <2>2 DEF n
    <3>2. /\ c \in Seq(Rows) /\ Len(c) = n /\ DOMAIN c = 1..n
          /\ c[n] = r /\ \A i \in 1..n : i # n => c[i] = w[i]
      BY <2>3, <3>1
    <3> HIDE DEF c
    <3>3. work'.rows[a] = c
      BY <2>4 DEF c
    <3>4. QED
      BY <3>2, <3>3
  <2>6. QED
    BY <1>1, <1>4, <2>1, <2>2, <2>3, <2>4, <2>5 DEF w, n
<1>5. QED
  BY <1>3, <1>4

\* The closes of the transaction.
LEMMA WriteClosesStep ==
  ASSUME WorkerInv, WriteCloses
  PROVE  WorkerInv'
<1>1. /\ pc = "written" /\ pc' = "closing"
      /\ work' = [rows |-> work'.rows, frame |-> work'.frame]
      /\ work'.rows = [a \in Aircraft |-> work'.rows[a]]
      /\ work'.frame = [a \in Aircraft |-> work'.frame[a]]
      /\ UNCHANGED <<now, live, sub, active, pending, inbox, cycle, t0Established, stopping,
                     toRecover, rows, frame, t0, fails, restarts>>
  BY DEF WriteCloses, feedVars, dbVars, budget
<1>2. \A a \in Aircraft : work'.rows[a] \in Seq(Rows) /\ work'.frame[a] \in Frames
  BY ClosedIs
<1>3. work' \in [rows : [Aircraft -> Seq(Rows)], frame : [Aircraft -> Frames]]
  BY <1>1, <1>2
<1>4. ASSUME NEW a \in Aircraft
      PROVE  WorkOf(a)'
  <2> DEFINE w == work.rows[a]  c == work'.rows[a]  n == Len(w)
  <2>1. /\ c \in Seq(Rows) /\ Len(c) = n /\ DOMAIN c = DOMAIN w
        /\ \A i \in DOMAIN c : i # n => c[i] = w[i]
        /\ a \notin cycle.due => c = w
        /\ a \in cycle.due => c[n].started = w[n].started /\ c[n].ended = Acc(a).last
    BY ClosedIs
  <2>2. /\ Len(w) = IF a \in cycle.opens THEN Len(rows[a]) + 1 ELSE Len(rows[a])
        /\ \A i \in DOMAIN w :
             /\ w[i].started = IF i <= Len(rows[a]) THEN rows[a][i].started ELSE Acc(a).started
             /\ w[i].ended = IF i <= Len(rows[a]) THEN rows[a][i].ended ELSE None
    BY <1>1 DEF WorkerInv, WorkInv, WorkOf
  <2>3. Acc(a)' = Acc(a)
    BY <1>1, Untouched
  <2>4. ASSUME NEW i \in DOMAIN c
        PROVE  /\ c[i].started = IF i <= Len(rows[a]) THEN rows[a][i].started ELSE Acc(a).started
               /\ c[i].ended = IF a \in cycle.due /\ i = Len(c) THEN Acc(a).last
                               ELSE IF i <= Len(rows[a]) THEN rows[a][i].ended ELSE None
    <3> HIDE DEF w, c
    <3>1. CASE a \notin cycle.due
      BY <2>1, <2>2, <2>4, <3>1
    <3>2. CASE a \in cycle.due /\ i # n
      BY <2>1, <2>2, <2>4, <3>2
    <3>3. CASE a \in cycle.due /\ i = n
      BY <2>1, <2>2, <2>4, <3>3
    <3>4. QED
      BY <3>1, <3>2, <3>3
  <2>5. Len(c) = IF a \in cycle.opens THEN Len(rows[a]) + 1 ELSE Len(rows[a])
    BY <2>1, <2>2
  <2>6. QED
    BY <1>1, <2>3, <2>4, <2>5 DEF WorkOf
<1>5. WorkInv'
  BY <1>4 DEF WorkInv
<1>6. QED
  BY <1>1, <1>3, <1>5, CycleMoves DEF Committing

\* What the commit makes of one aircraft's rows.
LEMMA CommitOf ==
  ASSUME WorkerInv, Commit, NEW a \in Aircraft
  PROVE  /\ RowsOf(a)' /\ JustWritten(a)'
         /\ \A i \in DOMAIN rows[a] : i \in DOMAIN rows'[a] /\ rows'[a][i].started = rows[a][i].started
         /\ a \notin cycle.due => LastEnd(rows'[a]) = None \/ LastEnd(rows'[a]) = LastEnd(rows[a])
         /\ a \in cycle.due => LastEnd(rows'[a]) = Acc(a).last
<1> DEFINE old == rows[a]  r == rows'[a]
<1>1. /\ pc = "closing" /\ Committing /\ rows' = work.rows /\ now' = now /\ cycle' = cycle
      /\ UNCHANGED <<active, pending>>
  BY DEF Commit, feedVars, Committing
<1>2. /\ SameSighting(a) /\ Acc(a)' = Acc(a)
      /\ a \in cycle.opens <=> a \in Tracked /\ Acc(a).sid = 0
      /\ a \in cycle.due => DueOf(a) /\ a \in Tracked
      /\ cycle.at \in Nat /\ cycle.at <= now /\ now \in Nat /\ CloseS \in Nat
      /\ RowsOf(a) /\ OwnedBy(a) /\ MemoryOf(a)
  BY <1>1, Untouched, WorkerAssumption
     DEF WorkerInv, CycleInv, Decided, StageInv, Cycles, TypeOK, Time, RowsInv, OwnerInv, OwnerOf,
         MemoryInv, DueOf, Tracked
<1>3. /\ old \in Seq(Rows) /\ DOMAIN old = 1..Len(old) /\ Len(old) \in Nat
      /\ r \in Seq(Rows) /\ DOMAIN r = 1..Len(r) /\ Len(r) \in Nat
  BY <1>1 DEF WorkerInv, TypeOK
<1>4. /\ Len(r) = IF a \in cycle.opens THEN Len(old) + 1 ELSE Len(old)
      /\ \A i \in DOMAIN r :
           /\ r[i].started = IF i <= Len(old) THEN old[i].started ELSE Acc(a).started
           /\ r[i].ended = IF a \in cycle.due /\ i = Len(r) THEN Acc(a).last
                           ELSE IF i <= Len(old) THEN old[i].ended
                           ELSE None
  BY <1>1 DEF WorkerInv, WorkInv, WorkOf
<1>5. a \in Tracked => /\ Acc(a).started \in Nat /\ Acc(a).last \in Nat /\ Acc(a).sid \in Nat
                       /\ Acc(a).started <= Acc(a).last
  BY <1>2, AccOf, AccFields DEF WorkerInv, MemoryOf
<1>6. a \in Tracked => Len(r) # 0 /\ r[Len(r)].started = Acc(a).started
  <2>1. CASE a \in cycle.opens
    BY <1>3, <1>4, <2>1
  <2>2. CASE a \in Tracked /\ a \notin cycle.opens
    <3>1. Len(old) # 0 /\ old[Len(old)].started = Acc(a).started
      BY <1>2, <1>3, <2>2 DEF OwnedBy, LastOpen
    <3>2. QED
      BY <1>3, <1>4, <2>2, <3>1
  <2>3. QED
    BY <2>1, <2>2
<1> HIDE DEF old, r
<1>7. ASSUME NEW i \in DOMAIN r
      PROVE  /\ ~Open(r[i]) => r[i].started <= r[i].ended /\ r[i].ended + CloseS <= now
             /\ i # Len(r) => ~Open(r[i])
  <2>1. i \in 1..Len(old) => /\ ~Open(old[i]) => old[i].started <= old[i].ended /\ old[i].ended + CloseS <= now
                             /\ i # Len(old) => ~Open(old[i])
    BY <1>2, <1>3 DEF RowsOf, old
  <2>2. CASE a \in cycle.due /\ i = Len(r)
    <3>1. r[i].ended = Acc(a).last /\ r[i].started = Acc(a).started /\ a \in Tracked
      BY <1>2, <1>4, <1>6, <2>2
    <3>2. Acc(a).last + CloseS <= cycle.at
      BY <1>2, <2>2 DEF DueOf
    <3>3. QED
      BY <1>2, <1>5, <2>2, <3>1, <3>2
  <2>3. CASE ~(a \in cycle.due /\ i = Len(r)) /\ i <= Len(old)
    <3>1. r[i].started = old[i].started /\ r[i].ended = old[i].ended /\ i \in 1..Len(old)
      BY <1>3, <1>4, <2>3
    <3>2. i # Len(r) /\ i = Len(old) => ~Open(old[i])
      <4>1. i # Len(r) /\ i = Len(old) => a \in cycle.opens
        BY <1>3, <1>4
      <4>2. a \in cycle.opens => ~LastOpen(old)
        BY <1>2 DEF OwnedBy, old
      <4>3. i = Len(old) => old # <<>>
        BY <1>3, <3>1
      <4>4. QED
        BY <3>1, <4>1, <4>2, <4>3, SMTT(30) DEF LastOpen, Open
    <3>3. QED
      BY <2>1, <3>1, <3>2 DEF Open
  <2>4. CASE ~(a \in cycle.due /\ i = Len(r)) /\ ~(i <= Len(old))
    <3>1. r[i].ended = None /\ i = Len(r)
      BY <1>3, <1>4, <2>4
    <3>2. QED
      BY <3>1 DEF Open
  <2>5. QED
    BY <2>2, <2>3, <2>4
<1>8. RowsOf(a)'
  BY <1>1, <1>7 DEF RowsOf, r, Open
<1>9. /\ a \notin cycle.due => LastEnd(r) = None \/ LastEnd(r) = LastEnd(old)
      /\ a \in cycle.due => LastEnd(r) = Acc(a).last
  <2>1. CASE a \in cycle.due
    BY <1>2, <1>3, <1>4, <1>6, <2>1 DEF LastEnd
  <2>2. CASE a \notin cycle.due /\ a \in cycle.opens
    BY <1>2, <1>3, <1>4, <1>6, <2>2 DEF LastEnd
  <2>3. CASE a \notin cycle.due /\ a \notin cycle.opens
    BY <1>3, <1>4, <2>3 DEF LastEnd
  <2>4. QED
    BY <2>1, <2>2, <2>3
<1>10. JustWritten(a)'
  <2>1. CASE a \in Tracked
    <3>1. Len(r) # 0 /\ r # <<>> /\ r[Len(r)].started = Acc(a).started
      BY <1>3, <1>6, <2>1
    <3>2. Acc(a).sid = IF a \in cycle.opens THEN 0 ELSE Len(r)
      <4>1. a \notin cycle.opens => Acc(a).sid = Len(old)
        BY <1>2, <2>1 DEF OwnedBy, old
      <4>2. QED
        BY <1>2, <1>4, <4>1
    <3>3. r[Len(r)].ended = IF a \in cycle.due THEN Acc(a).last ELSE None
      <4>1. CASE a \in cycle.due
        BY <1>3, <1>4, <3>1, <4>1
      <4>2. CASE a \notin cycle.due /\ a \in cycle.opens
        BY <1>3, <1>4, <3>1, <4>2
      <4>3. CASE a \notin cycle.due /\ a \notin cycle.opens
        <5>1. old[Len(old)].ended = None
          BY <1>2, <2>1, <4>3 DEF OwnedBy, LastOpen, old
        <5>2. QED
          BY <1>3, <1>4, <3>1, <4>3, <5>1
      <4>4. QED
        BY <4>1, <4>2, <4>3
    <3>4. QED
      BY <1>1, <1>2, <2>1, <3>1, <3>2, <3>3 DEF JustWritten, SameSighting, r
  <2>2. CASE a \notin Tracked
    <3>1. a \notin cycle.opens /\ a \notin cycle.due /\ ~LastOpen(old)
      BY <1>2, <2>2 DEF OwnedBy, old
    <3>2. ~LastOpen(r)
      BY <1>3, <1>4, <3>1 DEF LastOpen
    <3>3. QED
      BY <1>2, <2>2, <3>2 DEF JustWritten, SameSighting, r
  <2>3. QED
    BY <2>1, <2>2
<1>11. \A i \in DOMAIN old : i \in DOMAIN r /\ r[i].started = old[i].started
  BY <1>3, <1>4
<1>12. QED
  BY <1>8, <1>9, <1>10, <1>11 DEF old, r

\* The commit reaches the disk.
LEMMA CommitStep ==
  ASSUME WorkerInv, Commit
  PROVE  WorkerInv'
<1> USE DEF WorkerInv
<1>1. /\ pc = "closing" /\ pc' = "committed" /\ rows' = work.rows /\ frame' = work.frame
      /\ UNCHANGED <<now, live, sub, active, pending, inbox, cycle, work, t0Established, stopping,
                     toRecover, t0, fails, restarts>>
      /\ Subscription' = Subscription
  BY DEF Commit, feedVars, budget, Subscription
<1>2. \A x \in Aircraft : SameSighting(x) /\ Acc(x)' = Acc(x)
  BY <1>1, Untouched
<1>3. News' = News
  BY <1>1 DEF News
<1>4. TypeOK'
  BY <1>1 DEF TypeOK
<1>5. StageInv'
  BY <1>1 DEF StageInv, PoweredOff
<1>6. MemoryInv' /\ RowsInv'
  BY <1>2, CommitOf, SameMemory DEF RowsInv
<1>7. T0NamesSighting'
  BY <1>1, CommitOf, SameT0
<1>8. OwnerInv'
  BY <1>1, CommitOf DEF OwnerInv, OwnerOf
<1>9. CycleInv'
  <2>1. cycle.opens \subseteq Aircraft /\ cycle.flushes \subseteq Aircraft /\ cycle.due \subseteq Aircraft
    BY DEF StageInv, Cycles
  <2>2. Decided
    BY <1>1 DEF CycleInv, Committing
  <2>3. \A a \in cycle.due : DueOf(a)'
    BY <1>1, <1>2, <2>1, <2>2 DEF Decided, DueOf, SameSighting, Present
  <2>4. Decided'
    BY <1>1, <1>2, <2>1, <2>2, <2>3 DEF Decided, SameSighting
  <2>5. QED
    BY <1>1, <2>4 DEF CycleInv
<1>10. WorkInv'
  BY <1>1 DEF WorkInv
<1>11. LiveInv'
  BY <1>1, <1>2, <1>3, SameLive DEF SameSighting
<1>12. NewsInv'
  <2>1. ASSUME NEW a \in Aircraft
        PROVE  NewsOf(a)'
    <3>1. NewsOf(a)
      BY DEF NewsInv
    <3>2. News = Subscription.queue /\ News \in Seq(Events)
      BY <1>1 DEF News, TypeOK
    <3>3. /\ \A i \in DOMAIN News : News[i].first \in Nat
          /\ a \in Present => live[a].first \in Nat
      <4>1. \A i \in DOMAIN News : News[i] \in Events
        BY <3>2
      <4>2. a \in Present => live[a] \in Records
        BY DEF Present, TypeOK
      <4>3. QED
        BY <4>1, <4>2, FeedAssumption DEF Events, Records
    <3>4. CASE a \notin cycle.due
      <4>1. LastEnd(rows'[a]) = None \/ LastEnd(rows'[a]) = LastEnd(rows[a])
        BY <3>4, CommitOf
      <4>2. QED
        BY <1>1, <1>3, <3>1, <3>3, <4>1 DEF NewsOf, None, Present
    <3>5. CASE a \in cycle.due
      <4>1. LastEnd(rows'[a]) = Acc(a).last
        BY <3>5, CommitOf
      <4>2. DueOf(a) /\ cycle.at \in Nat /\ Acc(a).last \in Nat
        <5>1. DueOf(a) /\ cycle \in Cycles
          BY <1>1, <3>5 DEF CycleInv, Committing, Decided, StageInv
        <5>2. Acc(a).last \in Nat
          BY <5>1, AccOf, AccFields DEF DueOf, MemoryInv, Tracked
        <5>3. QED
          BY <5>1, <5>2 DEF Cycles, Time
      <4>3. \A first \in Nat : cycle.at < first + RemoveS => Acc(a).last < first
        BY <4>2, WorkerAssumption, FeedAssumption DEF DueOf
      <4>4. QED
        BY <1>1, <1>3, <3>2, <3>3, <4>1, <4>2, <4>3 DEF NewsOf, DueOf, Present
    <3>6. QED
      BY <3>4, <3>5
  <2>2. QED
    BY <2>1 DEF NewsInv
<1>13. QED
  BY <1>4, <1>5, <1>6, <1>7, <1>8, <1>9, <1>10, <1>11, <1>12

\* A cycle that ends without noting a commit leaves everything but its own
\* locals where it was, whether it failed, was cancelled or had nothing left.
LEMMA CycleEnds ==
  ASSUME WorkerInv, Ordinary, pc # "drain",
         pc' \in {"idle", "exit"}, cycle' = NoCycle,
         UNCHANGED <<now, live, sub, active, pending, inbox, toRecover, rows, frame>>,
         work' = work \/ work' = [rows |-> rows, frame |-> frame],
         t0' \in Time \cup {None}, t0Established' \in BOOLEAN, stopping' \in BOOLEAN,
         fails' \in 0..MaxFails, restarts' \in 0..MaxRestarts, T0NamesSighting'
  PROVE  WorkerInv'
<1> USE DEF WorkerInv
<1>1. \A x \in Aircraft : SameSighting(x)
  BY Untouched
<1>2. Subscription' = Subscription /\ News' = News
  BY DEF Subscription, News
<1>3. work' \in [rows : [Aircraft -> Seq(Rows)], frame : [Aircraft -> Frames]]
  BY DEF TypeOK
<1>4. TypeOK'
  BY <1>2, <1>3 DEF TypeOK
<1>5. StageInv'
  BY <1>2, BlankTypes DEF StageInv, PoweredOff, Ordinary
<1>6. MemoryInv' /\ RowsInv'
  BY <1>1, SameMemory, SameRows DEF TypeOK, Time
<1>7. NewsInv' /\ OwnerInv'
  BY <1>1, <1>2, SameNews, SameOwner DEF Ordinary
<1>8. LiveInv'
  BY <1>1, <1>2, SameLive DEF SameSighting
<1>9. CycleInv' /\ WorkInv'
  BY DEF CycleInv, Committing, WorkInv
<1>10. QED
  BY <1>4, <1>5, <1>6, <1>7, <1>8, <1>9

\* A failed cycle, a failed T0 and stop() between commit and note excepted all
\* end the cycle that way.
LEMMA CycleFailsStep ==
  ASSUME WorkerInv, CycleFails \/ EstablishT0Fails
  PROVE  WorkerInv'
<1>1. /\ pc \in {"begun", "written", "closing", "t0"} /\ pc' \in {"idle", "exit"}
      /\ cycle' = NoCycle /\ fails < MaxFails /\ fails' = fails + 1
      /\ work' = work \/ work' = [rows |-> rows, frame |-> frame]
      /\ UNCHANGED <<now, live, sub, active, pending, inbox, toRecover, rows, frame, t0,
                     t0Established, stopping, restarts>>
  BY EndOfCycleIs DEF CycleFails, EstablishT0Fails, feedVars, dbVars
<1>2. fails' \in 0..MaxFails /\ t0' \in Time \cup {None} /\ t0Established' \in BOOLEAN
      /\ stopping' \in BOOLEAN /\ restarts' \in 0..MaxRestarts
  BY <1>1, WorkerAssumption DEF WorkerInv, TypeOK
<1>3. T0NamesSighting'
  BY <1>1 DEF WorkerInv, T0NamesSighting
<1>4. QED
  BY <1>1, <1>2, <1>3, CycleEnds DEF Ordinary

\* T0 is written only for a sighting the database holds by then.
LEMMA EstablishT0Step ==
  ASSUME WorkerInv, EstablishT0
  PROVE  WorkerInv'
<1>1. /\ pc = "t0" /\ pc' \in {"idle", "exit"} /\ cycle' = NoCycle
      /\ t0' = IF t0 = None THEN cycle.first ELSE t0
      /\ t0Established' = TRUE
      /\ UNCHANGED <<now, live, sub, active, pending, inbox, work, toRecover, rows, frame,
                     stopping, fails, restarts>>
  BY EndOfCycleIs DEF EstablishT0, feedVars, budget
<1>2. FirstStored /\ cycle.first \in Time \cup {None}
  BY <1>1 DEF WorkerInv, CycleInv, StageInv, Cycles
<1>3. T0NamesSighting'
  BY <1>1, <1>2 DEF WorkerInv, T0NamesSighting, FirstStored
<1>4. t0' \in Time \cup {None} /\ stopping' \in BOOLEAN /\ fails' \in 0..MaxFails
      /\ restarts' \in 0..MaxRestarts
  BY <1>1, <1>2 DEF WorkerInv, TypeOK
<1>5. QED
  BY <1>1, <1>3, <1>4, CycleEnds DEF Ordinary

\* stop() cancels the task wherever it awaits.  Between a commit and its note
\* that would forget what was written; everywhere else nothing is lost.
LEMMA StopStep ==
  ASSUME WorkerInv, Stop, pc # "committed"
  PROVE  WorkerInv'
<1>1. /\ pc \in {"idle", "begun", "written", "closing", "t0"} /\ pc' = "idle"
      /\ cycle' = NoCycle /\ stopping' = TRUE
      /\ restarts < MaxRestarts /\ restarts' = restarts + 1
      /\ work' = [rows |-> rows, frame |-> frame]
      /\ UNCHANGED <<now, live, sub, active, pending, inbox, toRecover, rows, frame, t0,
                     t0Established, fails>>
  BY DEF Stop, Awaiting, feedVars, dbVars
<1>2. restarts' \in 0..MaxRestarts /\ t0' \in Time \cup {None} /\ t0Established' \in BOOLEAN
      /\ fails' \in 0..MaxFails
  BY <1>1, WorkerAssumption DEF WorkerInv, TypeOK
<1>3. T0NamesSighting'
  BY <1>1 DEF WorkerInv, T0NamesSighting
<1>4. QED
  BY <1>1, <1>2, <1>3, CycleEnds DEF Ordinary

\* Back on the event loop, memory learns what was written.
LEMMA NoteCommittedStep ==
  ASSUME WorkerInv, NoteCommitted
  PROVE  WorkerInv'
<1> USE DEF WorkerInv
<1>1. /\ pc = "committed" /\ Committing
      /\ \/ pc' = EndOfCycle /\ cycle' = NoCycle
         \/ pc' = "t0" /\ cycle' = cycle /\ cycle.opens # {}
      /\ UNCHANGED <<now, live, sub, inbox, work, t0Established, stopping, toRecover,
                     rows, frame, t0, fails, restarts>>
      /\ Subscription' = Subscription
  BY DEF NoteCommitted, feedVars, dbVars, budget, Committing, Subscription
<1>2. pc' \in {"idle", "exit", "t0"} /\ cycle' \in Cycles
  BY <1>1, EndOfCycleIs, BlankTypes DEF StageInv
<1>3. /\ active' \in [Aircraft -> Accs \cup {NoAcc}]
      /\ pending' \in [Aircraft -> Accs \cup {NoAcc}]
      /\ MemoryInv'
      /\ \A a \in Aircraft :
           /\ HasActive(a)' <=> HasActive(a)
           /\ a \in Tracked' <=> a \in Tracked /\ a \notin cycle.due
           /\ a \in Tracked' => Acc(a)' = Noted(Acc(a), a)
  BY NoteEffect
<1>4. News' = News /\ Present' = Present
  BY <1>1, <1>2 DEF News, Present
<1>5. TypeOK'
  BY <1>1, <1>2, <1>3 DEF TypeOK
<1>6. StageInv'
  BY <1>1, <1>2 DEF StageInv, PoweredOff
<1>7. RowsInv' /\ T0NamesSighting'
  BY <1>1, SameRows, SameT0 DEF TypeOK, Time
<1>8. WorkInv'
  BY <1>2 DEF WorkInv
<1>9. LiveInv'
  BY <1>1, <1>3, <1>4, SameLive
<1>10. ASSUME NEW a \in Aircraft
       PROVE  /\ OwnedBy(a)'
              /\ a \in Tracked' => Acc(a)'.sid # 0
  <2>1. JustWritten(a) /\ rows[a] \in Seq(Rows) /\ MemoryOf(a)
    BY <1>1 DEF OwnerInv, OwnerOf, TypeOK, MemoryInv
  <2>2. CASE a \in Tracked'
    <3>1. a \in Tracked /\ a \notin cycle.due /\ Acc(a)' = Noted(Acc(a), a) /\ Acc(a) \in Accs
      BY <1>3, <2>1, <2>2, AccOf
    <3>2. /\ Acc(a)'.sid = IF a \in cycle.opens THEN Len(rows[a]) ELSE Acc(a).sid
          /\ Acc(a)'.started = Acc(a).started
      <4>1. TypeOK /\ cycle \in Cycles
        BY DEF StageInv
      <4>2. /\ Noted(Acc(a), a).sid = IF a \in cycle.opens THEN Len(rows[a]) ELSE Acc(a).sid
            /\ Noted(Acc(a), a).started = Acc(a).started
        BY <3>1, <4>1, NotedKeeps
      <4>3. QED
        BY <3>1, <4>2
    <3>3. /\ rows[a] # <<>> /\ rows[a][Len(rows[a])].started = Acc(a).started
          /\ rows[a][Len(rows[a])].ended = None /\ Acc(a)'.sid = Len(rows[a])
      BY <2>1, <3>1, <3>2 DEF JustWritten
    <3>4. Len(rows[a]) # 0
      BY <2>1, <3>3
    <3>5. QED
      BY <1>1, <2>2, <3>2, <3>3, <3>4 DEF OwnedBy, LastOpen
  <2>3. CASE a \notin Tracked'
    <3>1. ~LastOpen(rows[a])
      <4>1. CASE a \notin Tracked
        BY <2>1, <4>1 DEF JustWritten
      <4>2. CASE a \in Tracked
        <5>1. a \in cycle.due /\ Acc(a).last \in Nat
          BY <1>3, <2>1, <2>3, <4>2, AccOf, AccFields
        <5>2. QED
          BY <2>1, <4>2, <5>1 DEF JustWritten, LastOpen, None
      <4>3. QED
        BY <4>1, <4>2
    <3>2. QED
      BY <1>1, <2>3, <3>1 DEF OwnedBy
  <2>4. QED
    BY <2>2, <2>3
<1>11. OwnerInv'
  BY <1>2, <1>10 DEF OwnerInv, OwnerOf
<1>12. NewsInv'
  <2>1. ASSUME NEW a \in Aircraft
        PROVE  NewsOf(a)'
    BY <1>1, <1>4, <1>10 DEF NewsInv, NewsOf, LastEnd
  <2>2. QED
    BY <2>1 DEF NewsInv
<1>13. CycleInv'
  <2>1. ~Committing'
    BY <1>2 DEF Committing
  <2>2. CASE pc' # "t0"
    BY <2>1, <2>2 DEF CycleInv
  <2>3. CASE pc' = "t0"
    <3>1. cycle' = cycle /\ cycle.opens # {} /\ Decided
      BY <1>1, <2>3, EndOfCycleIs DEF CycleInv
    <3>2. PICK a \in cycle.opens : cycle.first = Acc(a).started
      BY <3>1 DEF Decided
    <3>3. a \in Aircraft /\ a \in Tracked
      BY <3>1 DEF Decided, StageInv, Cycles
    <3>4. JustWritten(a) /\ rows[a] \in Seq(Rows)
      BY <1>1, <3>3 DEF OwnerInv, OwnerOf, TypeOK
    <3>5. Len(rows[a]) \in DOMAIN rows[a] /\ rows[a][Len(rows[a])].started = cycle.first
      BY <3>2, <3>3, <3>4 DEF JustWritten
    <3>6. FirstStored'
      BY <1>1, <3>1, <3>3, <3>5 DEF FirstStored
    <3>7. QED
      BY <2>1, <3>6 DEF CycleInv
  <2>4. QED
    BY <2>2, <2>3
<1>14. QED
  BY <1>3, <1>5, <1>6, <1>7, <1>8, <1>9, <1>11, <1>12, <1>13

\* Nothing in memory survives, and nothing on disk is touched.
LEMMA PowerOffStep ==
  ASSUME WorkerInv, PowerOff, restarts' \in 0..MaxRestarts
  PROVE  WorkerInv'
<1> USE DEF WorkerInv
<1>1. /\ live' = [a \in Aircraft |-> NotLive]
      /\ sub' = [c \in Consumers |-> NewSubscription]
      /\ active' = [a \in Aircraft |-> NoAcc] /\ pending' = [a \in Aircraft |-> NoAcc]
      /\ inbox' = <<>> /\ cycle' = NoCycle /\ toRecover' = {}
      /\ work' = [rows |-> rows, frame |-> frame]
      /\ t0Established' = FALSE /\ stopping' = FALSE /\ pc' = "down"
      /\ UNCHANGED <<now, rows, frame, t0, fails>>
  BY DEF PowerOff, dbVars
<1>2. Subscription' = NewSubscription
  BY <1>1, WorkerAssumption DEF Subscription
<1>3. /\ \A a \in Aircraft : ~HasActive(a)' /\ ~HasPending(a)'
      /\ Tracked' = {} /\ Present' = {} /\ News' = <<>>
  BY <1>1, <1>2 DEF HasActive, HasPending, Tracked, Present, News, NewSubscription
<1>4. work' \in [rows : [Aircraft -> Seq(Rows)], frame : [Aircraft -> Frames]]
  BY <1>1 DEF TypeOK
<1>5. TypeOK'
  BY <1>1, <1>2, <1>4, BlankTypes DEF TypeOK, Subscriptions
<1>6. StageInv'
  BY <1>1, <1>2, BlankTypes DEF StageInv, PoweredOff
<1>7. MemoryInv'
  BY <1>3 DEF MemoryInv, MemoryOf
<1>8. RowsInv' /\ T0NamesSighting'
  BY <1>1, SameRows, SameT0 DEF TypeOK, Time
<1>9. NewsInv'
  BY <1>3 DEF NewsInv, NewsOf
<1>10. OwnerInv'
  BY <1>1 DEF OwnerInv, OwnerOf
<1>11. CycleInv' /\ WorkInv'
  BY <1>1 DEF CycleInv, Committing, WorkInv
<1>12. LiveInv'
  BY <1>3 DEF LiveInv, LiveOf
<1>13. QED
  BY <1>5, <1>6, <1>7, <1>8, <1>9, <1>10, <1>11, <1>12

\* An orderly end and a crash look the same from the database.
LEMMA ExitCrashStep ==
  ASSUME WorkerInv, Exit \/ Crash
  PROVE  WorkerInv'
<1>1. PowerOff /\ restarts' \in 0..MaxRestarts
  BY WorkerAssumption DEF Exit, Crash, WorkerInv, TypeOK
<1>2. QED
  BY <1>1, PowerOffStep
-----------------------------------------------------------------------------
(* Starting again.                                                         *)

\* to_accumulator: what an open row says of its sighting.
LEMMA RehydratedIs ==
  ASSUME TypeOK, NEW a \in Aircraft, NEW i \in DOMAIN rows[a],
         NEW why \in {"gap_timeout", "shutdown_recovery"}
  PROVE  LET s == Rehydrated(a, i, why)
         IN  /\ s \in Accs /\ s.sid = i /\ s.started = rows[a][i].started
             /\ s.last = LastData(a, i) /\ s.started <= s.last
             /\ s.deadline = s.last + CloseS /\ s.reason = why
             /\ s.cols = rows[a][i].cols /\ s.events = <<>>
             /\ s.dirty = FALSE /\ s.urgent = FALSE
<1> DEFINE d == LastData(a, i)
<1>1. /\ i \in Nat /\ d \in Time /\ d \in Nat /\ d >= rows[a][i].started /\ d + CloseS \in Nat
      /\ rows[a][i].started \in Time /\ rows[a][i].cols \in Columns
  <2>1. rows[a][i] \in Rows /\ i \in Nat
    BY DEF TypeOK
  <2>2. d \in Time /\ d >= rows[a][i].started
    BY LastDataType
  <2>3. QED
    BY <2>1, <2>2, WorkerAssumption DEF Rows, Time
<1>2. Rehydrated(a, i, why) =
        [NoAcc EXCEPT !.sid = i, !.started = rows[a][i].started, !.last = d,
                      !.cols = rows[a][i].cols, !.deadline = d + CloseS, !.reason = why]
  BY DEF Rehydrated
<1> HIDE DEF d
<1>3. Rehydrated(a, i, why) \in Accs
  BY <1>1, <1>2, BlankTypes DEF NoAcc, Accs, Timelines
<1>4. /\ Rehydrated(a, i, why).sid = i
      /\ Rehydrated(a, i, why).started = rows[a][i].started
      /\ Rehydrated(a, i, why).last = d
      /\ Rehydrated(a, i, why).deadline = d + CloseS
      /\ Rehydrated(a, i, why).reason = why
      /\ Rehydrated(a, i, why).cols = rows[a][i].cols
      /\ Rehydrated(a, i, why).events = <<>>
      /\ Rehydrated(a, i, why).dirty = FALSE /\ Rehydrated(a, i, why).urgent = FALSE
  BY <1>2 DEF NoAcc
<1>5. rows[a][i].started <= d
  BY <1>1 DEF Time
<1>6. QED
  BY <1>3, <1>4, <1>5 DEF d

\* Only the newest row of an aircraft can be open.
LEMMA OpenRowsAre ==
  ASSUME TypeOK, NEW a \in Aircraft, RowsOf(a)
  PROVE  /\ OpenRows(a) = IF LastOpen(rows[a]) THEN {Len(rows[a])} ELSE {}
         /\ OpenRows(a) \subseteq DOMAIN rows[a]
<1>1. rows[a] \in Seq(Rows) /\ DOMAIN rows[a] = 1..Len(rows[a]) /\ Len(rows[a]) \in Nat
  BY DEF TypeOK
<1>2. \A i \in OpenRows(a) : i = Len(rows[a]) /\ LastOpen(rows[a]) /\ i \in DOMAIN rows[a]
  BY <1>1 DEF OpenRows, RowsOf, LastOpen, Open
<1>3. LastOpen(rows[a]) => Len(rows[a]) \in OpenRows(a)
  BY <1>1 DEF OpenRows, LastOpen, Open
<1>4. QED
  BY <1>2, <1>3

\* start(): an open row is handed to recovery or adopted, never both, never
\* neither.
LEMMA StartEffect ==
  ASSUME WorkerInv, Start, NEW a \in Aircraft
  PROVE  LET n == Len(rows[a])
         IN  /\ \A i \in Nat : <<a, i>> \in toRecover' <=>
                  i = n /\ LastOpen(rows[a]) /\ Stale(a, n)
             /\ pending'[a] = IF LastOpen(rows[a]) /\ ~Stale(a, n)
                                THEN Rehydrated(a, n, "gap_timeout") ELSE NoAcc
<1> DEFINE adopted == {i \in OpenRows(a) : ~Stale(a, i)}
           n == Len(rows[a])
<1>1. OpenRows(a) = IF LastOpen(rows[a]) THEN {n} ELSE {}
  BY OpenRowsAre DEF WorkerInv, RowsInv
<1>2. toRecover' = UNION {{<<x, i>> : i \in {k \in OpenRows(x) : Stale(x, k)}} : x \in Aircraft}
  BY DEF Start
<1>3. \A i \in Nat : <<a, i>> \in toRecover' <=> i \in OpenRows(a) /\ Stale(a, i)
  BY <1>2
<1>4. pending'[a] = IF adopted = {} THEN NoAcc
                    ELSE Rehydrated(a, CHOOSE i \in adopted : \A j \in adopted : j <= i, "gap_timeout")
  BY DEF Start
<1>5. CASE LastOpen(rows[a]) /\ ~Stale(a, n)
  <2>1. adopted = {n} /\ n \in Nat
    BY <1>1, <1>5 DEF WorkerInv, TypeOK
  <2> HIDE DEF adopted, n
  <2>2. (CHOOSE i \in adopted : \A j \in adopted : j <= i) = n
    BY <2>1
  <2>3. pending'[a] = Rehydrated(a, n, "gap_timeout")
    BY <1>4, <2>1, <2>2
  <2>4. QED
    BY <1>1, <1>3, <1>5, <2>3 DEF n
<1>6. CASE ~(LastOpen(rows[a]) /\ ~Stale(a, n))
  <2>1. adopted = {}
    BY <1>1, <1>6
  <2>2. pending'[a] = NoAcc
    BY <1>4, <2>1
  <2>3. QED
    BY <1>1, <1>3, <1>6, <2>2
<1>7. QED
  BY <1>5, <1>6

\* A process starts with what the tables say and nothing else.
LEMMA StartStep ==
  ASSUME WorkerInv, Start
  PROVE  WorkerInv'
<1> USE DEF WorkerInv
<1>1. /\ pc = "down" /\ pc' = "recover" /\ t0Established' \in BOOLEAN
      /\ UNCHANGED <<now, live, sub, active, inbox, cycle, work, stopping, rows, frame, t0,
                     fails, restarts>>
      /\ Subscription' = Subscription
  BY DEF Start, feedVars, dbVars, budget, Subscription
<1>2. /\ Subscription = NewSubscription /\ News = <<>> /\ News' = <<>>
      /\ \A a \in Aircraft : live[a] = NotLive /\ active[a] = NoAcc /\ pending[a] = NoAcc
      /\ Present = {} /\ Present' = {}
  BY <1>1 DEF StageInv, PoweredOff, News, NewSubscription, Present
<1>3. ASSUME NEW a \in Aircraft
      PROVE  /\ pending'[a] \in Accs \cup {NoAcc}
             /\ MemoryOf(a)' /\ InRecovery(a)'
             /\ a \in Tracked' => Acc(a)'.sid # 0
             /\ ~HasActive(a)'
  <2> DEFINE n == Len(rows[a])
             s == Rehydrated(a, n, "gap_timeout")
  <2>1. rows[a] \in Seq(Rows) /\ n \in Nat /\ (LastOpen(rows[a]) => n \in DOMAIN rows[a] /\ n # 0)
    BY DEF TypeOK, LastOpen
  <2>2. /\ \A i \in Nat : <<a, i>> \in toRecover' <=> i = n /\ LastOpen(rows[a]) /\ Stale(a, n)
        /\ pending'[a] = IF LastOpen(rows[a]) /\ ~Stale(a, n) THEN s ELSE NoAcc
    BY StartEffect
  <2>3. ~HasActive(a)' /\ active'[a] = NoAcc
    BY <1>1, <1>2 DEF HasActive
  <2>4. \A i \in Nat : Stale(a, i)' <=> Stale(a, i)
    BY <1>1 DEF Stale, LastData
  <2>5. CASE LastOpen(rows[a]) /\ ~Stale(a, n)
    <3>1. /\ s \in Accs /\ s.sid = n /\ s.started = rows[a][n].started
          /\ s.started <= s.last /\ s.deadline = s.last + CloseS
      BY <2>1, <2>5, RehydratedIs
    <3>2. s # NoAcc
      BY <3>1, AccIsAcc
    <3> HIDE DEF s
    <3>3. HasPending(a)' /\ a \in Tracked' /\ Acc(a)' = s /\ pending'[a] = s
      BY <2>2, <2>3, <2>5, <3>2 DEF HasPending, Tracked, Acc
    <3>4. MemoryOf(a)'
      BY <2>3, <3>1, <3>3 DEF MemoryOf
    <3>5. OwnedBy(a)'
      BY <1>1, <2>1, <2>5, <3>1, <3>3 DEF OwnedBy
    <3>6. InRecovery(a)'
      BY <1>1, <2>1, <2>2, <2>5, <3>1, <3>3, <3>5 DEF InRecovery
    <3>7. QED
      BY <2>1, <2>3, <2>5, <3>1, <3>3, <3>4, <3>6
  <2>6. CASE ~(LastOpen(rows[a]) /\ ~Stale(a, n))
    <3>1. ~HasPending(a)' /\ a \notin Tracked' /\ pending'[a] = NoAcc
      BY <2>2, <2>3, <2>6 DEF HasPending, Tracked
    <3>2. InRecovery(a)'
      BY <1>1, <2>1, <2>2, <2>4, <2>6, <3>1 DEF InRecovery
    <3>3. QED
      BY <2>3, <3>1, <3>2 DEF MemoryOf
  <2>7. QED
    BY <2>5, <2>6
<1>4. pending' \in [Aircraft -> Accs \cup {NoAcc}]
  <2>1. pending' = [a \in Aircraft |-> pending'[a]]
    BY DEF Start
  <2>2. QED
    BY <1>3, <2>1
<1>5. toRecover' \subseteq Aircraft \X (Nat \ {0})
  <2>1. \A a \in Aircraft : OpenRows(a) \subseteq Nat \ {0}
    BY DEF TypeOK, OpenRows
  <2>2. toRecover' = UNION {{<<x, i>> : i \in {k \in OpenRows(x) : Stale(x, k)}} : x \in Aircraft}
    BY DEF Start
  <2>3. QED
    BY <2>1, <2>2
<1>6. TypeOK'
  BY <1>1, <1>4 DEF TypeOK
<1>7. StageInv'
  BY <1>1, <1>2, <1>5 DEF StageInv, PoweredOff
<1>8. RowsInv' /\ T0NamesSighting'
  BY <1>1, SameRows, SameT0 DEF TypeOK, Time
<1>9. MemoryInv' /\ OwnerInv'
  BY <1>1, <1>3 DEF MemoryInv, OwnerInv, OwnerOf
<1>10. NewsInv'
  BY <1>2, <1>3 DEF NewsInv, NewsOf
<1>11. CycleInv' /\ WorkInv'
  BY <1>1 DEF CycleInv, Committing, WorkInv
<1>12. LiveInv'
  BY <1>2, <1>3 DEF LiveInv, LiveOf
<1>13. QED
  BY <1>6, <1>7, <1>8, <1>9, <1>10, <1>11, <1>12

\* A state of recovery in which nothing is heard and every sighting in memory
\* has its row.
LEMMA Quiet ==
  ASSUME WorkerInv, pc = "recover"
  PROVE  /\ News = <<>> /\ Present = {}
         /\ \A a \in Aircraft : /\ ~HasActive(a) /\ active[a] = NoAcc
                                /\ a \in Tracked <=> HasPending(a)
                                /\ a \in Tracked => Acc(a).sid # 0
                                /\ InRecovery(a)
<1>1. /\ Subscription = NewSubscription /\ \A a \in Aircraft : live[a] = NotLive /\ active[a] = NoAcc
  BY DEF WorkerInv, StageInv, PoweredOff
<1>2. \A a \in Aircraft : InRecovery(a)
  BY DEF WorkerInv, OwnerInv, OwnerOf
<1>3. News = <<>> /\ Present = {}
  BY <1>1 DEF News, NewSubscription, Present
<1>4. ASSUME NEW a \in Aircraft
      PROVE  /\ ~HasActive(a) /\ (a \in Tracked <=> HasPending(a))
             /\ a \in Tracked => Acc(a).sid # 0
  BY <1>1, <1>2 DEF HasActive, Tracked, InRecovery
<1>5. QED
  BY <1>1, <1>2, <1>3, <1>4

\* _close_batch: the stale row ends at its last contact, a whole gap ago.
LEMMA RecoverCloseIs ==
  ASSUME WorkerInv, NEW a, NEW i, <<a, i>> \in toRecover, RecoverClose(a, i)
  PROVE  /\ a \in Aircraft /\ i = Len(rows[a]) /\ LastOpen(rows[a]) /\ ~HasPending(a)
         /\ rows' \in [Aircraft -> Seq(Rows)] /\ frame' \in [Aircraft -> Frames]
         /\ \A x \in Aircraft : x # a => rows'[x] = rows[x] /\ frame'[x] = frame[x]
         /\ Len(rows'[a]) = i /\ i \in DOMAIN rows[a] /\ DOMAIN rows'[a] = DOMAIN rows[a]
         /\ \A j \in DOMAIN rows[a] : j # i => rows'[a][j] = rows[a][j]
         /\ rows'[a][i].started = rows[a][i].started
         /\ rows'[a][i].ended \in Nat /\ rows[a][i].started <= rows'[a][i].ended
         /\ rows'[a][i].ended + CloseS <= now
         /\ rows'[a][i].cols = rows[a][i].cols /\ rows'[a][i].events = rows[a][i].events
<1> DEFINE s == Rehydrated(a, i, "shutdown_recovery")
           r == CloseRow(rows[a][i], s, s.reason)
<1>1. /\ pc = "recover" /\ rows' = [rows EXCEPT ![a][i] = r]
      /\ frame' = [frame EXCEPT ![a] = CloseFrame(@, s)]
  BY DEF RecoverClose
<1>2. a \in Aircraft /\ i \in Nat \ {0}
  BY DEF WorkerInv, StageInv
<1>3. i = Len(rows[a]) /\ LastOpen(rows[a]) /\ ~HasPending(a) /\ Stale(a, i)
  BY <1>1, <1>2, Quiet DEF InRecovery
<1>4. /\ rows \in [Aircraft -> Seq(Rows)] /\ frame \in [Aircraft -> Frames] /\ TypeOK
      /\ rows[a] \in Seq(Rows) /\ i \in DOMAIN rows[a] /\ rows[a][i] \in Rows /\ frame[a] \in Frames
  BY <1>2, <1>3 DEF WorkerInv, TypeOK
<1>5. /\ s \in Accs /\ s.started = rows[a][i].started /\ s.last = LastData(a, i)
      /\ s.started <= s.last /\ s.cols = rows[a][i].cols
  BY <1>2, <1>4, RehydratedIs, ZenonT(40)
<1>6. s.last \in Nat /\ s.last + CloseS <= now
  BY <1>3, <1>5, AccFields DEF Stale
<1> HIDE DEF s
<1>7. /\ r \in Rows /\ r.started = rows[a][i].started /\ r.ended = s.last /\ r.cols = s.cols
      /\ r.events = rows[a][i].events /\ CloseFrame(frame[a], s) \in Frames
  BY <1>4, <1>5, CloseTypes
<1> HIDE DEF r
<1>8. /\ frame' \in [Aircraft -> Frames]
      /\ \A x \in Aircraft : x # a => frame'[x] = frame[x]
  BY <1>1, <1>2, <1>4, <1>7
<1> DEFINE q == [rows[a] EXCEPT ![i] = r]
<1>9. /\ q \in Seq(Rows) /\ Len(q) = Len(rows[a]) /\ DOMAIN q = DOMAIN rows[a] /\ q[i] = r
      /\ \A j \in DOMAIN rows[a] : j # i => q[j] = rows[a][j]
  BY <1>4, <1>7
<1>10. rows' = [rows EXCEPT ![a] = q]
  BY <1>1
<1> HIDE DEF q
<1>11. /\ rows' \in [Aircraft -> Seq(Rows)] /\ rows'[a] = q
       /\ \A x \in Aircraft : x # a => rows'[x] = rows[x]
  BY <1>2, <1>4, <1>9, <1>10
<1>12. QED
  BY <1>2, <1>3, <1>4, <1>5, <1>6, <1>7, <1>8, <1>9, <1>11

\* Recovery closes a row whose gap passed while the process was down: nobody tracks it.
LEMMA RecoverCloseStep ==
  ASSUME WorkerInv, NEW a, NEW i, <<a, i>> \in toRecover, RecoverClose(a, i)
  PROVE  WorkerInv'
<1> USE DEF WorkerInv
<1>1. /\ pc = "recover" /\ pc' = "recover"
      /\ work' = [rows |-> rows', frame |-> frame'] /\ toRecover' = toRecover \ {<<a, i>>}
      /\ UNCHANGED <<now, live, sub, active, pending, inbox, cycle, t0Established, stopping, t0,
                     fails, restarts>>
      /\ Subscription' = Subscription
  BY DEF RecoverClose, feedVars, budget, Subscription
<1>2. /\ a \in Aircraft /\ i = Len(rows[a]) /\ LastOpen(rows[a]) /\ ~HasPending(a)
      /\ rows' \in [Aircraft -> Seq(Rows)] /\ frame' \in [Aircraft -> Frames]
      /\ \A x \in Aircraft : x # a => rows'[x] = rows[x] /\ frame'[x] = frame[x]
      /\ Len(rows'[a]) = i /\ i \in DOMAIN rows[a] /\ DOMAIN rows'[a] = DOMAIN rows[a]
      /\ \A j \in DOMAIN rows[a] : j # i => rows'[a][j] = rows[a][j]
      /\ rows'[a][i].started = rows[a][i].started
      /\ rows'[a][i].ended \in Nat /\ rows[a][i].started <= rows'[a][i].ended
      /\ rows'[a][i].ended + CloseS <= now
  BY RecoverCloseIs
<1>3. \A x \in Aircraft : SameSighting(x) /\ Acc(x)' = Acc(x)
  BY <1>1, Untouched
<1>4. News = <<>> /\ Present = {} /\ News' = News /\ Present' = Present
  BY <1>1, Quiet DEF News, Present
<1>5. TypeOK'
  BY <1>1, <1>2 DEF TypeOK
<1>6. StageInv'
  BY <1>1 DEF StageInv, PoweredOff
<1>7. MemoryInv'
  BY <1>3, SameMemory
<1>8. RowsInv'
  <2>1. ASSUME NEW x \in Aircraft
        PROVE  RowsOf(x)'
    <3>1. RowsOf(x) /\ now' = now
      BY <1>1 DEF RowsInv
    <3>2. CASE x # a
      BY <1>2, <3>1, <3>2 DEF RowsOf, Open
    <3>3. CASE x = a
      <4>1. \A j \in DOMAIN rows'[a] : j # i =>
              /\ ~Open(rows'[a][j])
              /\ rows'[a][j].started <= rows'[a][j].ended /\ rows'[a][j].ended + CloseS <= now
        BY <1>2, <3>1, <3>3 DEF RowsOf, Open
      <4>2. QED
        BY <1>2, <3>1, <3>3, <4>1 DEF RowsOf, Open
    <3>4. QED
      BY <3>2, <3>3
  <2>2. QED
    BY <2>1 DEF RowsInv
<1>9. T0NamesSighting'
  <2>1. \A x \in Aircraft : \A j \in DOMAIN rows[x] :
          j \in DOMAIN rows'[x] /\ rows'[x][j].started = rows[x][j].started
    BY <1>2
  <2>2. QED
    BY <1>1, <2>1, SameT0
<1>10. NewsInv'
  BY <1>1, <1>3, <1>4, Quiet DEF NewsInv, NewsOf, SameSighting
<1>11. OwnerInv'
  <2>1. ASSUME NEW x \in Aircraft
        PROVE  InRecovery(x)'
    <3>1. InRecovery(x) /\ SameSighting(x)
      BY <1>1, <1>3, Quiet
    <3>2. CASE x = a
      <4>1. ~HasPending(x)'
        BY <1>2, <1>3, <3>2 DEF SameSighting
      <4>2. ~LastOpen(rows'[x])
        BY <1>2, <3>2 DEF LastOpen, None
      <4>3. \A j \in Nat : <<x, j>> \notin toRecover'
        BY <1>1, <1>2, <3>1, <3>2 DEF InRecovery
      <4>4. QED
        BY <4>1, <4>2, <4>3 DEF InRecovery
    <3>3. CASE x # a
      <4>1. rows'[x] = rows[x] /\ frame'[x] = frame[x] /\ now' = now
        BY <1>1, <1>2, <3>3
      <4>2. \A j \in Nat : (Stale(x, j)' <=> Stale(x, j)) /\ (<<x, j>> \in toRecover' <=> <<x, j>> \in toRecover)
        BY <1>1, <3>3, <4>1 DEF Stale, LastData
      <4>3. OwnedBy(x) => OwnedBy(x)'
        BY <3>1, <4>1 DEF OwnedBy, SameSighting
      <4>4. Len(rows[x]) \in Nat
        BY DEF TypeOK
      <4>5. QED
        BY <3>1, <4>1, <4>2, <4>3, <4>4 DEF InRecovery, SameSighting
    <3>4. QED
      BY <3>2, <3>3
  <2>2. QED
    BY <1>1, <2>1 DEF OwnerInv, OwnerOf
<1>12. CycleInv' /\ WorkInv'
  BY <1>1 DEF CycleInv, Committing, WorkInv
<1>13. LiveInv'
  BY <1>1, <1>3, <1>4, SameLive DEF SameSighting
<1>14. QED
  BY <1>5, <1>6, <1>7, <1>8, <1>9, <1>10, <1>11, <1>12, <1>13

\* A batch that failed hands its sighting to the worker's own closures.
LEMMA RecoverFailsStep ==
  ASSUME WorkerInv, NEW a, NEW i, <<a, i>> \in toRecover, RecoverFails(a, i)
  PROVE  WorkerInv'
<1> USE DEF WorkerInv
<1> DEFINE s == Rehydrated(a, i, "shutdown_recovery")
<1>1. /\ pc = "recover" /\ pc' = "recover" /\ fails < MaxFails /\ fails' = fails + 1
      /\ pending' = [pending EXCEPT ![a] = s] /\ toRecover' = toRecover \ {<<a, i>>}
      /\ UNCHANGED <<now, live, sub, active, inbox, cycle, work, t0Established, stopping, rows,
                     frame, t0, restarts>>
      /\ Subscription' = Subscription
  BY DEF RecoverFails, feedVars, dbVars, Subscription
<1>2. a \in Aircraft /\ i \in Nat \ {0}
  BY DEF StageInv
<1>3. i = Len(rows[a]) /\ LastOpen(rows[a]) /\ ~HasPending(a)
  BY <1>1, <1>2, Quiet DEF InRecovery
<1>4. i \in DOMAIN rows[a]
  BY <1>2, <1>3 DEF TypeOK
<1>5. /\ s \in Accs /\ s.sid = i /\ s.started = rows[a][i].started
      /\ s.started <= s.last /\ s.deadline = s.last + CloseS
  BY <1>2, <1>4, RehydratedIs
<1>6. s # NoAcc
  BY <1>5, AccIsAcc
<1> HIDE DEF s
<1>7. /\ pending' \in [Aircraft -> Accs \cup {NoAcc}] /\ pending'[a] = s
      /\ \A x \in Aircraft : x # a => pending'[x] = pending[x]
  BY <1>1, <1>2, <1>5 DEF TypeOK
<1>8. /\ HasPending(a)' /\ ~HasActive(a)' /\ a \in Tracked' /\ Acc(a)' = s
  BY <1>1, <1>2, <1>6, <1>7, Quiet DEF HasActive, HasPending, Tracked, Acc
<1>9. \A x \in Aircraft : x # a => SameSighting(x)
  BY <1>1, <1>7, UntouchedOne
<1>10. News = <<>> /\ Present = {} /\ News' = News /\ Present' = Present
  BY <1>1, Quiet DEF News, Present
<1>11. TypeOK'
  BY <1>1, <1>7, WorkerAssumption DEF TypeOK
<1>12. StageInv'
  BY <1>1 DEF StageInv, PoweredOff
<1>13. MemoryInv'
  <2>1. MemoryOf(a)'
    BY <1>5, <1>7, <1>8 DEF MemoryOf
  <2>2. ASSUME NEW x \in Aircraft, x # a
        PROVE  MemoryOf(x)'
    BY <1>9, <2>2 DEF MemoryInv, MemoryOf, SameSighting
  <2>3. QED
    BY <2>1, <2>2 DEF MemoryInv
<1>14. RowsInv' /\ T0NamesSighting'
  BY <1>1, SameRows, SameT0 DEF TypeOK, Time
<1>15. ASSUME NEW x \in Aircraft
       PROVE  /\ InRecovery(x)' /\ (x \in Tracked' => Acc(x)'.sid # 0)
              /\ ~HasActive(x)'
  <2>1. /\ InRecovery(x) /\ rows'[x] = rows[x] /\ ~HasActive(x) /\ (x \in Tracked => Acc(x).sid # 0)
        /\ \A j \in Nat : (Stale(x, j)' <=> Stale(x, j))
    BY <1>1, Quiet DEF Stale, LastData
  <2>2. CASE x = a
    <3>1. \A j \in Nat : <<x, j>> \notin toRecover'
      BY <1>1, <1>3, <2>1, <2>2 DEF InRecovery
    <3>2. OwnedBy(x)'
      BY <1>2, <1>3, <1>5, <1>8, <2>1, <2>2 DEF OwnedBy
    <3>3. QED
      BY <1>2, <1>5, <1>8, <2>2, <3>1, <3>2 DEF InRecovery
  <2>3. CASE x # a
    <3>1. SameSighting(x) /\ \A j \in Nat : <<x, j>> \in toRecover' <=> <<x, j>> \in toRecover
      BY <1>1, <1>9, <2>3
    <3>2. OwnedBy(x) => OwnedBy(x)'
      BY <2>1, <3>1 DEF OwnedBy, SameSighting
    <3>3. Len(rows[x]) \in Nat
      BY DEF TypeOK
    <3>4. QED
      BY <2>1, <3>1, <3>2, <3>3 DEF InRecovery, SameSighting
  <2>4. QED
    BY <2>2, <2>3
<1>16. OwnerInv'
  BY <1>1, <1>15 DEF OwnerInv, OwnerOf
<1>17. NewsInv'
  BY <1>10, <1>15 DEF NewsInv, NewsOf
<1>18. CycleInv' /\ WorkInv'
  BY <1>1 DEF CycleInv, Committing, WorkInv
<1>19. LiveInv'
  BY <1>10, <1>15 DEF LiveInv, LiveOf
<1>20. QED
  BY <1>11, <1>12, <1>13, <1>14, <1>16, <1>17, <1>18, <1>19

\* Recovery is over: whoever still has an open row is in memory.
LEMMA RecoveredStep ==
  ASSUME WorkerInv, Recovered
  PROVE  WorkerInv'
<1> USE DEF WorkerInv
<1>1. /\ pc = "recover" /\ toRecover = {} /\ pc' = "idle"
      /\ UNCHANGED <<now, live, sub, active, pending, inbox, cycle, work, t0Established, stopping,
                     toRecover, rows, frame, t0, fails, restarts>>
      /\ Subscription' = Subscription
  BY DEF Recovered, feedVars, dbVars, budget, Subscription
<1>2. \A x \in Aircraft : SameSighting(x)
  BY <1>1, Untouched
<1>3. News' = News
  BY <1>1 DEF News
<1>4. TypeOK'
  BY <1>1 DEF TypeOK
<1>5. StageInv'
  BY <1>1 DEF StageInv, PoweredOff
<1>6. MemoryInv' /\ RowsInv' /\ T0NamesSighting'
  BY <1>1, <1>2, SameMemory, SameRows, SameT0 DEF TypeOK, Time
<1>7. NewsInv'
  BY <1>1, <1>2, <1>3, SameNews
<1>8. OwnerInv'
  <2>1. ASSUME NEW x \in Aircraft
        PROVE  OwnedBy(x)'
    <3>1. SameSighting(x) /\ InRecovery(x) /\ (x \in Tracked <=> HasPending(x)) /\ rows'[x] = rows[x]
      BY <1>1, <1>2, Quiet
    <3>2. OwnedBy(x)
      BY <1>1, <3>1 DEF InRecovery, OwnedBy
    <3>3. QED
      BY <3>1, <3>2 DEF OwnedBy, SameSighting
  <2>2. QED
    BY <1>1, <2>1 DEF OwnerInv, OwnerOf
<1>9. CycleInv' /\ WorkInv'
  BY <1>1 DEF CycleInv, Committing, WorkInv
<1>10. LiveInv'
  BY <1>1, <1>2, <1>3, SameLive DEF SameSighting
<1>11. QED
  BY <1>4, <1>5, <1>6, <1>7, <1>8, <1>9, <1>10

\* A new database and an empty sky.
LEMMA WorkerStarts ==
  ASSUME Init
  PROVE  WorkerInv
<1>1. /\ now = BootS /\ live = [a \in Aircraft |-> NotLive]
      /\ sub = [c \in Consumers |-> NewSubscription]
      /\ active = [a \in Aircraft |-> NoAcc] /\ pending = [a \in Aircraft |-> NoAcc]
      /\ inbox = <<>> /\ cycle = NoCycle
      /\ rows = [a \in Aircraft |-> <<>>] /\ frame = [a \in Aircraft |-> NoFrame]
      /\ t0 = None /\ t0Established = FALSE
      /\ work = [rows |-> rows, frame |-> frame]
      /\ pc = "idle" /\ stopping = FALSE /\ toRecover = {}
      /\ fails = 0 /\ restarts = 0
  BY DEF Init, FeedInit
<1>2. Subscription = NewSubscription
  BY <1>1, WorkerAssumption DEF Subscription
<1>3. /\ \A a \in Aircraft : ~HasActive(a) /\ ~HasPending(a) /\ rows[a] = <<>>
      /\ Tracked = {} /\ Present = {} /\ News = <<>>
  BY <1>1, <1>2 DEF HasActive, HasPending, Tracked, Present, News, NewSubscription
<1>4. NoFrame \in Frames /\ BootS \in Time
  BY FeedAssumption DEF NoFrame, Frames, Time
<1>5. work \in [rows : [Aircraft -> Seq(Rows)], frame : [Aircraft -> Frames]]
  BY <1>1, <1>4, BlankTypes
<1>6. TypeOK
  <2>1. /\ active \in [Aircraft -> Accs \cup {NoAcc}] /\ pending \in [Aircraft -> Accs \cup {NoAcc}]
        /\ live \in [Aircraft -> Records \cup {NotLive}]
        /\ rows \in [Aircraft -> Seq(Rows)] /\ frame \in [Aircraft -> Frames]
    BY <1>1, <1>4, BlankTypes
  <2>2. Subscription \in [queue : Seq(Events), overflowed : BOOLEAN] /\ inbox \in Seq(Events)
    BY <1>1, <1>2, BlankTypes DEF Subscriptions
  <2>3. now \in Time /\ t0 \in Time \cup {None} /\ fails \in 0..MaxFails /\ restarts \in 0..MaxRestarts
    BY <1>1, <1>4, WorkerAssumption
  <2>4. QED
    BY <1>1, <1>5, <2>1, <2>2, <2>3 DEF TypeOK
<1>7. StageInv
  BY <1>1, <1>2, BlankTypes DEF StageInv, PoweredOff
<1>8. MemoryInv
  BY <1>3 DEF MemoryInv, MemoryOf
<1>9. RowsInv
  BY <1>3 DEF RowsInv, RowsOf
<1>10. NewsInv
  BY <1>3 DEF NewsInv, NewsOf
<1>11. OwnerInv
  BY <1>1, <1>3 DEF OwnerInv, OwnerOf, OwnedBy, LastOpen
<1>12. CycleInv /\ WorkInv
  BY <1>1 DEF CycleInv, Committing, WorkInv
<1>13. LiveInv
  BY <1>3 DEF LiveInv, LiveOf
<1>14. T0NamesSighting
  BY <1>1 DEF T0NamesSighting
<1>15. QED
  BY <1>6, <1>7, <1>8, <1>9, <1>10, <1>11, <1>12, <1>13, <1>14 DEF WorkerInv

\* The step is no stop() that cancels the cycle after SQLite has committed and
\* before the worker has noted what was written.
CommitIsNoted == pc = "committed" => ~Stop

\* Every step of the worker, of what it works with and of what may befall it.
LEMMA WorkerStep ==
  ASSUME WorkerInv, [Next]_vars, [CommitIsNoted]_vars
  PROVE  WorkerInv'
<1>1. CASE UNCHANGED vars
  <2>1. UNCHANGED <<now, live, sub, active, pending, inbox, cycle, work, t0Established, pc,
                    stopping, toRecover, rows, frame, t0, fails, restarts>>
    BY <1>1 DEF vars, feedVars, memVars, dbVars, budget
  <2>2. Subscription' = Subscription /\ News' = News /\ \A x \in Aircraft : SameSighting(x)
    BY <2>1, Untouched DEF Subscription, News
  <2>3. now \in Nat
    BY DEF WorkerInv, TypeOK, Time
  <2>4. TypeOK' /\ StageInv'
    BY <2>1, <2>2 DEF WorkerInv, TypeOK, StageInv, PoweredOff
  <2>5. MemoryInv' /\ RowsInv' /\ NewsInv' /\ OwnerInv' /\ WorkInv' /\ T0NamesSighting'
    BY <2>1, <2>2, <2>3, SameMemory, SameRows, SameNews, SameOwnerAnyStage, SameWork, SameT0
       DEF WorkerInv
  <2>6. CycleInv' /\ LiveInv'
    BY <2>1, <2>2, <2>3, SameCycle, SameLive DEF WorkerInv, SameSighting
  <2>7. QED
    BY <2>4, <2>5, <2>6 DEF WorkerInv
<1>2. CASE Clock
  BY <1>2, ClockStep
<1>3. CASE LiveStoreActs
  BY <1>3, LiveStoreStep
<1>4. ASSUME NEW a \in Aircraft, ApplyRoute(a) \/ ApplyInferredAirport(a) \/ ApplyAlertSeverity(a)
      PROVE  WorkerInv'
  <2>1. \E col \in Column, v \in Nat : Apply(a, col, v)
    BY <1>4, WorkerAssumption DEF ApplyRoute, ApplyInferredAirport, ApplyAlertSeverity, Column
  <2>2. QED
    BY <2>1, ApplyStep
<1>5. CASE CycleStep
  BY <1>5, DrainStep, HandleStep, ResyncStep, PrepareStep, WriteRowsStep, WriteClosesStep,
     CommitStep, NoteCommittedStep, EstablishT0Step DEF CycleStep
<1>6. CASE CycleFails \/ EstablishT0Fails
  BY <1>6, CycleFailsStep
<1>7. CASE Stop
  <2>1. pc # "committed"
    BY <1>7 DEF CommitIsNoted, Stop, vars, memVars
  <2>2. QED
    BY <1>7, <2>1, StopStep
<1>8. CASE Exit \/ Crash
  BY <1>8, ExitCrashStep
<1>9. CASE Start
  BY <1>9, StartStep
<1>10. CASE Recovered
  BY <1>10, RecoveredStep
<1>11. ASSUME NEW p \in toRecover, RecoverClose(p[1], p[2]) \/ RecoverFails(p[1], p[2])
       PROVE  WorkerInv'
  <2>1. <<p[1], p[2]>> \in toRecover
    BY DEF WorkerInv, StageInv
  <2>2. QED
    BY <1>11, <2>1, RecoverCloseStep, RecoverFailsStep
<1>12. QED
  BY <1>1, <1>2, <1>3, <1>4, <1>5, <1>6, <1>7, <1>8, <1>9, <1>10, <1>11 DEF Next

\* The worker's invariant holds for any number of aircraft, failures, crashes
\* and restarts, whatever enrichment writes in the middle of a cycle, as long as
\* stop() does not fall between a commit and its note (worker.py, _commit; what
\* happens when it does is the finding of the run StopDuplicatesSighting).
THEOREM WorkerIsInvariant == Spec /\ [][CommitIsNoted]_vars => []WorkerInv
<1>1. Init => WorkerInv
  BY WorkerStarts
<1>2. WorkerInv /\ [Next]_vars /\ [CommitIsNoted]_vars => WorkerInv'
  BY WorkerStep
<1>3. QED
  BY <1>1, <1>2, PTL DEF Spec

\* The accumulators, tables and worker state keep their types.
THEOREM WorkerIsTyped == Spec /\ [][CommitIsNoted]_vars => []TypeOK
<1>1. WorkerInv => TypeOK
  BY DEF WorkerInv
<1>2. QED
  BY <1>1, WorkerIsInvariant, PTL

\* _active and _pending never hold the same aircraft, and a closure deadline
\* runs exactly while the aircraft is in _pending (_observe, _arm_closure).
THEOREM OneAccumulatorHolds == Spec /\ [][CommitIsNoted]_vars => []OneAccumulator
<1>1. WorkerInv => OneAccumulator
  <2> SUFFICES ASSUME WorkerInv, NEW a \in Aircraft
               PROVE  /\ ~(HasActive(a) /\ HasPending(a))
                      /\ HasActive(a) => active[a].deadline = None
                      /\ HasPending(a) => pending[a].deadline # None
    BY DEF OneAccumulator
  <2>1. MemoryOf(a)
    BY DEF WorkerInv, MemoryInv
  <2>2. HasActive(a) => active[a].deadline = None
    BY <2>1, AccOf DEF WorkerInv, MemoryOf
  <2>3. HasPending(a) => pending[a].deadline # None
    <3>1. HasPending(a) => /\ pending[a].last \in Nat
                           /\ pending[a].deadline = pending[a].last + CloseS
      BY <2>1, AccOf, AccFields DEF WorkerInv, MemoryOf
    <3>2. QED
      BY <3>1, WorkerAssumption DEF None
  <2>4. QED
    BY <2>1, <2>2, <2>3 DEF MemoryOf
<1>2. QED
  BY <1>1, WorkerIsInvariant, PTL

\* At most one sighting of an aircraft is open, although no constraint of the
\* schema says so (docs/DATA_MODEL.md).
THEOREM OneOpenSightingHolds == Spec /\ [][CommitIsNoted]_vars => []OneOpenSighting
<1>1. WorkerInv => OneOpenSighting
  <2> SUFFICES ASSUME WorkerInv, NEW a \in Aircraft
               PROVE  Cardinality(OpenRows(a)) <= 1
    BY DEF OneOpenSighting
  <2>1. OpenRows(a) = {} \/ OpenRows(a) = {Len(rows[a])}
    BY OpenRowsAre DEF WorkerInv, RowsInv
  <2>2. Cardinality({}) = 0 /\ Cardinality({Len(rows[a])}) = 1
    BY FS_EmptySet, FS_Singleton
  <2>3. Cardinality(OpenRows(a)) = 0 \/ Cardinality(OpenRows(a)) = 1
    BY <2>1, <2>2, Zenon
  <2>4. QED
    BY <2>3
<1>2. QED
  BY <1>1, WorkerIsInvariant, PTL

\* Between cycles every open row belongs to the accumulator that will close it
\* (_commit, _write, recovery.run).
THEOREM OpenRowsAreOwned == Spec /\ [][CommitIsNoted]_vars => []OpenRowsOwned
<1>1. WorkerInv => OpenRowsOwned
  <2> SUFFICES ASSUME WorkerInv, pc = "idle", NEW a \in Aircraft
               PROVE  OpenRows(a) = IF a \in Tracked /\ Acc(a).sid # 0 THEN {Acc(a).sid} ELSE {}
    BY DEF OpenRowsOwned
  <2>1. OpenRows(a) = IF LastOpen(rows[a]) THEN {Len(rows[a])} ELSE {}
    BY OpenRowsAre DEF WorkerInv, RowsInv
  <2>2. OwnedBy(a)
    BY DEF WorkerInv, OwnerInv, OwnerOf
  <2>3. QED
    BY <2>1, <2>2 DEF OwnedBy
<1>2. QED
  BY <1>1, WorkerIsInvariant, PTL

\* With an empty queue and no gap outstanding the worker believes exactly the
\* live aircraft to be live (_handle, _resync).
THEOREM TracksLiveSetHolds == Spec /\ [][CommitIsNoted]_vars => []TracksLiveSet
<1>1. WorkerInv => TracksLiveSet
  <2> SUFFICES ASSUME WorkerInv, pc = "idle", Subscription = NewSubscription
               PROVE  {a \in Aircraft : HasActive(a)} = Present
    BY DEF TracksLiveSet
  <2>1. News = <<>> /\ ~Subscription.overflowed
    BY DEF News, NewSubscription
  <2>2. \A a \in Aircraft : HasActive(a) <=> a \in Present
    BY <2>1 DEF WorkerInv, LiveInv, LiveOf
  <2>3. QED
    BY <2>2 DEF Present
<1>2. QED
  BY <1>1, WorkerIsInvariant, PTL

\* meta.t0_ms names the start of a sighting the database holds (_establish_t0).
THEOREM T0IsOfASighting == Spec /\ [][CommitIsNoted]_vars => []T0NamesSighting
<1>1. WorkerInv => T0NamesSighting
  BY DEF WorkerInv
<1>2. QED
  BY <1>1, WorkerIsInvariant, PTL
-----------------------------------------------------------------------------
(* The committed rows are a sighting history (SightingLifecycle).          *)

\* A reader's view of one aircraft's rows.
PeriodsOf(r) == [i \in DOMAIN r |-> [started |-> r[i].started, ended |-> r[i].ended]]
Periods == [started : Time, ended : Time \cup {None}]

\* The view has one period per row.
LEMMA PeriodsAre ==
  ASSUME NEW r \in Seq(Rows)
  PROVE  /\ PeriodsOf(r) \in Seq(Periods) /\ Len(PeriodsOf(r)) = Len(r)
         /\ DOMAIN PeriodsOf(r) = 1..Len(r) /\ Len(r) \in Nat
         /\ \A i \in 1..Len(r) : /\ PeriodsOf(r)[i] \in Periods
                                 /\ PeriodsOf(r)[i] = [started |-> r[i].started, ended |-> r[i].ended]
                                 /\ PeriodsOf(r)[i].started = r[i].started
                                 /\ PeriodsOf(r)[i].ended = r[i].ended
         /\ Lifecycle!IsOpen(PeriodsOf(r)) <=> LastOpen(r)
         /\ PeriodsOf(r) = <<>> <=> r = <<>>
<1> DEFINE h == PeriodsOf(r)
<1>1. /\ DOMAIN r = 1..Len(r) /\ Len(r) \in Nat
      /\ \A i \in 1..Len(r) : r[i] \in Rows
  OBVIOUS
<1>2. h = [i \in 1..Len(r) |-> [started |-> r[i].started, ended |-> r[i].ended]]
  BY <1>1 DEF PeriodsOf
<1>3. \A i \in 1..Len(r) : [started |-> r[i].started, ended |-> r[i].ended] \in Periods
  BY <1>1 DEF Rows, Periods
<1> HIDE DEF h
<1>4. /\ h \in Seq(Periods) /\ Len(h) = Len(r) /\ DOMAIN h = 1..Len(r)
      /\ \A i \in 1..Len(r) : h[i] = [started |-> r[i].started, ended |-> r[i].ended]
  BY <1>1, <1>2, <1>3
<1>5. \A i \in 1..Len(r) : /\ h[i] \in Periods
                           /\ h[i].started = r[i].started /\ h[i].ended = r[i].ended
  BY <1>3, <1>4
<1>6. h = <<>> <=> r = <<>>
  BY <1>1, <1>4
<1>7. Lifecycle!IsOpen(h) <=> LastOpen(r)
  <2>1. r # <<>> => Len(r) \in 1..Len(r)
    BY <1>1
  <2>2. QED
    BY <1>4, <1>5, <1>6, <2>1 DEF Lifecycle!IsOpen, LastOpen
<1>8. QED
  BY <1>1, <1>4, <1>5, <1>6, <1>7 DEF h

\* The three things a commit may do to an aircraft's rows, as a reader sees them.
LEMMA SamePeriods ==
  ASSUME NEW old \in Seq(Rows), NEW new \in Seq(Rows), Len(new) = Len(old),
         \A i \in 1..Len(old) : new[i].started = old[i].started /\ new[i].ended = old[i].ended
  PROVE  PeriodsOf(new) = PeriodsOf(old)
BY DEF PeriodsOf

\* A row appended after a closed one begins a period of the abstract lifecycle.
LEMMA BeginPeriod ==
  ASSUME NEW old \in Seq(Rows), NEW new \in Seq(Rows), Len(new) = Len(old) + 1,
         \A i \in 1..Len(old) : new[i].started = old[i].started /\ new[i].ended = old[i].ended,
         ~LastOpen(old), LastEnd(old) < new[Len(new)].started,
         new[Len(new)].ended # None => new[Len(new)].started <= new[Len(new)].ended
  PROVE  Lifecycle!Begin(PeriodsOf(old), PeriodsOf(new))
<1> DEFINE h == PeriodsOf(old)  g == PeriodsOf(new)  p == g[Len(g)]
<1>1. /\ h \in Seq(Periods) /\ Len(h) = Len(old) /\ DOMAIN h = 1..Len(old) /\ Len(old) \in Nat
      /\ \A i \in 1..Len(old) : h[i] = [started |-> old[i].started, ended |-> old[i].ended]
      /\ \A i \in 1..Len(old) : h[i].ended = old[i].ended
      /\ Lifecycle!IsOpen(h) <=> LastOpen(old)
      /\ h = <<>> <=> old = <<>>
  BY PeriodsAre
<1>2. /\ g \in Seq(Periods) /\ Len(g) = Len(new) /\ DOMAIN g = 1..Len(new)
      /\ \A i \in 1..Len(new) : /\ g[i] = [started |-> new[i].started, ended |-> new[i].ended]
                                /\ g[i].started = new[i].started /\ g[i].ended = new[i].ended
                                /\ g[i] \in Periods
  BY PeriodsAre
<1> HIDE DEF h, g
<1>3. p \in Periods /\ p.started = new[Len(new)].started /\ p.ended = new[Len(new)].ended
  BY <1>1, <1>2
<1>4. g = Append(h, p)
  <2>1. \A i \in 1..Len(h) : g[i] = h[i]
    BY <1>1, <1>2
  <2>2. QED
    BY <1>1, <1>2, <1>3, <2>1
<1>5. h = <<>> \/ h[Len(h)].ended < p.started
  <2>1. old # <<>> => Len(old) \in 1..Len(old)
    BY <1>1
  <2>2. QED
    BY <1>1, <1>3, <2>1 DEF LastEnd
<1>6. Lifecycle!Begin(h, g)
  BY <1>1, <1>2, <1>3, <1>4, <1>5 DEF Lifecycle!Begin
<1>7. QED
  BY <1>6 DEF h, g

\* A newest row that is closed ends the period it is.
LEMMA EndPeriod ==
  ASSUME NEW old \in Seq(Rows), NEW new \in Seq(Rows), Len(new) = Len(old),
         LastOpen(old), new[Len(old)].ended # None,
         old[Len(old)].started <= new[Len(old)].ended,
         \A i \in 1..Len(old) : new[i].started = old[i].started
                                /\ (i # Len(old) => new[i].ended = old[i].ended)
  PROVE  Lifecycle!End(PeriodsOf(old), PeriodsOf(new))
<1> DEFINE h == PeriodsOf(old)  g == PeriodsOf(new)  n == Len(old)  e == g[n].ended
<1>1. /\ h \in Seq(Periods) /\ Len(h) = n /\ DOMAIN h = 1..n /\ n \in Nat
      /\ \A i \in 1..n : /\ h[i] = [started |-> old[i].started, ended |-> old[i].ended]
                         /\ h[i].started = old[i].started
      /\ Lifecycle!IsOpen(h)
  BY PeriodsAre
<1>2. /\ g \in Seq(Periods) /\ Len(g) = n /\ DOMAIN g = 1..n
      /\ \A i \in 1..n : /\ g[i] = [started |-> new[i].started, ended |-> new[i].ended]
                         /\ g[i].ended = new[i].ended
  BY PeriodsAre
<1>3. n \in 1..n
  BY <1>1 DEF LastOpen
<1> HIDE DEF h, g, n
<1>4. /\ e # None /\ h[n].started <= e
      /\ g[n] = [started |-> h[n].started, ended |-> e]
      /\ \A i \in 1..n : i # n => g[i] = h[i]
  BY <1>1, <1>2, <1>3, ZenonT(40) DEF n
<1>5. [h[n] EXCEPT !.ended = e] = g[n]
  <2>1. h[n] = [started |-> old[n].started, ended |-> old[n].ended] /\ h[n].started = old[n].started
    BY <1>1, <1>3
  <2>2. QED
    BY <1>4, <2>1
<1>6. g = [h EXCEPT ![n].ended = e]
  <2>1. g = [h EXCEPT ![n] = g[n]]
    BY <1>1, <1>2, <1>3, <1>4
  <2>2. [h EXCEPT ![n].ended = e] = [h EXCEPT ![n] = [h[n] EXCEPT !.ended = e]]
    OBVIOUS
  <2>3. QED
    BY <1>5, <2>1, <2>2
<1>7. Lifecycle!End(h, g)
  BY <1>1, <1>2, <1>4, <1>6 DEF Lifecycle!End
<1>8. QED
  BY <1>7 DEF h, g

\* One committed transaction moves every aircraft's history by at most one step.
LEMMA CommitIsLifecycle ==
  ASSUME WorkerInv, Commit, NEW a \in Aircraft
  PROVE  \/ PeriodsOf(rows'[a]) = PeriodsOf(rows[a])
         \/ Lifecycle!Begin(PeriodsOf(rows[a]), PeriodsOf(rows'[a]))
         \/ Lifecycle!End(PeriodsOf(rows[a]), PeriodsOf(rows'[a]))
<1> DEFINE old == rows[a]  new == rows'[a]
<1>1. pc = "closing" /\ Committing /\ rows' = work.rows
  BY DEF Commit, Committing
<1>2. /\ a \in cycle.opens <=> a \in Tracked /\ Acc(a).sid = 0
      /\ a \in cycle.due => a \in Tracked
      /\ OwnedBy(a) /\ MemoryOf(a) /\ NewsOf(a)
  BY <1>1 DEF WorkerInv, CycleInv, Decided, OwnerInv, OwnerOf, MemoryInv, NewsInv, DueOf, Tracked
<1>3. /\ old \in Seq(Rows) /\ DOMAIN old = 1..Len(old) /\ Len(old) \in Nat
      /\ new \in Seq(Rows) /\ DOMAIN new = 1..Len(new) /\ Len(new) \in Nat
  BY <1>1 DEF WorkerInv, TypeOK
<1>4. /\ Len(new) = IF a \in cycle.opens THEN Len(old) + 1 ELSE Len(old)
      /\ \A i \in DOMAIN new :
           /\ new[i].started = IF i <= Len(old) THEN old[i].started ELSE Acc(a).started
           /\ new[i].ended = IF a \in cycle.due /\ i = Len(new) THEN Acc(a).last
                             ELSE IF i <= Len(old) THEN old[i].ended
                             ELSE None
  BY <1>1 DEF WorkerInv, WorkInv, WorkOf
<1>5. a \in Tracked => /\ Acc(a).started \in Nat /\ Acc(a).last \in Nat
                       /\ Acc(a).started <= Acc(a).last
  BY <1>2, AccOf, AccFields DEF WorkerInv, MemoryOf
<1>6. /\ a \in cycle.opens => ~LastOpen(old) /\ LastEnd(old) < Acc(a).started
      /\ a \in Tracked /\ a \notin cycle.opens =>
           LastOpen(old) /\ old[Len(old)].started = Acc(a).started
  BY <1>1, <1>2 DEF OwnedBy, NewsOf
<1> HIDE DEF old, new
<1>7. CASE a \in cycle.opens
  <2>1. /\ Len(new) = Len(old) + 1 /\ Len(new) \in DOMAIN new
        /\ \A i \in 1..Len(old) : new[i].started = old[i].started /\ new[i].ended = old[i].ended
        /\ new[Len(new)].started = Acc(a).started
        /\ new[Len(new)].ended # None => new[Len(new)].ended = Acc(a).last
    BY <1>3, <1>4, <1>7
  <2>2. Lifecycle!Begin(PeriodsOf(old), PeriodsOf(new))
    BY <1>2, <1>3, <1>5, <1>6, <1>7, <2>1, BeginPeriod
  <2>3. QED
    BY <2>2 DEF old, new
<1>8. CASE a \notin cycle.opens /\ a \in cycle.due
  <2>1. /\ Len(new) = Len(old) /\ old # <<>> /\ Len(old) \in 1..Len(old)
        /\ new[Len(old)].ended = Acc(a).last /\ Acc(a).last # None
        /\ old[Len(old)].started <= Acc(a).last
        /\ \A i \in 1..Len(old) : new[i].started = old[i].started
                                  /\ (i # Len(old) => new[i].ended = old[i].ended)
    <3>1. a \in Tracked /\ LastOpen(old) /\ old[Len(old)].started = Acc(a).started
      BY <1>2, <1>6, <1>8
    <3>2. old # <<>> /\ Len(old) \in 1..Len(old) /\ Len(new) = Len(old)
      BY <1>3, <1>4, <1>8, <3>1 DEF LastOpen
    <3>3. /\ new[Len(old)].ended = Acc(a).last /\ Acc(a).last # None
          /\ old[Len(old)].started <= Acc(a).last
      BY <1>3, <1>4, <1>5, <1>8, <3>1, <3>2 DEF None
    <3>4. \A i \in 1..Len(old) : new[i].started = old[i].started
                                  /\ (i # Len(old) => new[i].ended = old[i].ended)
      <4>1. \A i \in 1..Len(old) : i \in DOMAIN new /\ i <= Len(old)
        BY <1>3, <3>2
      <4>2. \A i \in 1..Len(old) : new[i].started = old[i].started
        BY <1>4, <4>1
      <4>3. \A i \in 1..Len(old) : i # Len(old) => new[i].ended = old[i].ended
        BY <1>4, <3>2, <4>1, SMTT(30)
      <4>4. QED
        BY <4>2, <4>3
    <3>5. QED
      BY <3>2, <3>3, <3>4
  <2>2. Lifecycle!End(PeriodsOf(old), PeriodsOf(new))
    BY <1>2, <1>3, <1>6, <1>8, <2>1, EndPeriod
  <2>3. QED
    BY <2>2 DEF old, new
<1>9. CASE a \notin cycle.opens /\ a \notin cycle.due
  <2>1. PeriodsOf(new) = PeriodsOf(old)
    BY <1>3, <1>4, <1>9, SamePeriods
  <2>2. QED
    BY <2>1 DEF old, new
<1>10. QED
  BY <1>7, <1>8, <1>9

\* No other step but a batch of recovery touches the rows.
LEMMA RowsMove ==
  ASSUME WorkerInv, [Next]_vars
  PROVE  \/ rows' = rows
         \/ Commit
         \/ \E p \in toRecover : <<p[1], p[2]>> \in toRecover /\ RecoverClose(p[1], p[2])
<1>1. \A p \in toRecover : <<p[1], p[2]>> \in toRecover
  BY DEF WorkerInv, StageInv
<1>2. \A a \in Aircraft : ApplyRoute(a) \/ ApplyInferredAirport(a) \/ ApplyAlertSeverity(a) => rows' = rows
  BY SMTT(20) DEF ApplyRoute, ApplyInferredAirport, ApplyAlertSeverity, Apply, dbVars
<1>3. CycleStep => rows' = rows \/ Commit
  BY DEF CycleStep, Drain, Handle, Resync, Prepare, WriteRows, WriteCloses, NoteCommitted,
         EstablishT0, dbVars
<1>4. CycleFails \/ EstablishT0Fails \/ Stop \/ Exit \/ Crash => rows' = rows
  BY DEF CycleFails, EstablishT0Fails, Stop, Exit, Crash, PowerOff, dbVars
<1>5. Clock \/ LiveStoreActs \/ Start \/ Recovered \/ UNCHANGED vars => rows' = rows
  BY DEF Clock, LiveStoreActs, Start, Recovered, vars, dbVars
<1>6. \A p \in toRecover : RecoverFails(p[1], p[2]) => rows' = rows
  BY DEF RecoverFails, dbVars
<1>7. QED
  BY <1>1, <1>2, <1>3, <1>4, <1>5, <1>6 DEF Next

\* Every step of the worker is a step of the lifecycle, or none at all.
LEMMA StepIsLifecycle ==
  ASSUME WorkerInv, [Next]_vars
  PROVE  [Lifecycle!LifecycleNext]_([a \in Aircraft |-> PeriodsOf(rows[a])])
<1> DEFINE hist == [a \in Aircraft |-> PeriodsOf(rows[a])]
<1>1. CASE rows' = rows
  BY <1>1
<1>2. ASSUME \A a \in Aircraft : \/ PeriodsOf(rows'[a]) = PeriodsOf(rows[a])
                                 \/ Lifecycle!Begin(PeriodsOf(rows[a]), PeriodsOf(rows'[a]))
                                 \/ Lifecycle!End(PeriodsOf(rows[a]), PeriodsOf(rows'[a]))
      PROVE  Lifecycle!LifecycleNext
  BY <1>2 DEF Lifecycle!LifecycleNext, PeriodsOf
<1>3. CASE Commit
  BY <1>2, <1>3, CommitIsLifecycle
<1>4. ASSUME NEW p \in toRecover, <<p[1], p[2]>> \in toRecover, RecoverClose(p[1], p[2])
      PROVE  Lifecycle!LifecycleNext
  <2> DEFINE a == p[1]  i == p[2]
  <2>1. /\ a \in Aircraft /\ i = Len(rows[a]) /\ LastOpen(rows[a])
        /\ rows' \in [Aircraft -> Seq(Rows)]
        /\ \A x \in Aircraft : x # a => rows'[x] = rows[x]
        /\ Len(rows'[a]) = i /\ i \in DOMAIN rows[a] /\ DOMAIN rows'[a] = DOMAIN rows[a]
        /\ \A j \in DOMAIN rows[a] : j # i => rows'[a][j] = rows[a][j]
        /\ rows'[a][i].started = rows[a][i].started
        /\ rows'[a][i].ended \in Nat /\ rows[a][i].started <= rows'[a][i].ended
    BY <1>4, RecoverCloseIs
  <2>2. rows[a] \in Seq(Rows) /\ rows'[a] \in Seq(Rows) /\ DOMAIN rows[a] = 1..Len(rows[a])
    BY <2>1 DEF WorkerInv, TypeOK
  <2>3. Lifecycle!End(PeriodsOf(rows[a]), PeriodsOf(rows'[a]))
    <3>1. rows'[a][Len(rows[a])].ended # None
      BY <2>1 DEF None
    <3>2. \A j \in 1..Len(rows[a]) : rows'[a][j].started = rows[a][j].started
                                     /\ (j # Len(rows[a]) => rows'[a][j].ended = rows[a][j].ended)
      BY <2>1, <2>2
    <3>3. QED
      BY <2>1, <2>2, <3>1, <3>2, EndPeriod
  <2>4. \A x \in Aircraft : x # a => PeriodsOf(rows'[x]) = PeriodsOf(rows[x])
    BY <2>1
  <2>5. QED
    BY <1>2, <2>3, <2>4
<1>5. QED
  BY <1>1, <1>3, <1>4, RowsMove

\* The committed sightings of the database are a sighting history: a period
\* begins only after the last one ended, and a closed one never changes again.
THEOREM WorkerImplementsLifecycle == Spec /\ [][CommitIsNoted]_vars => ImplementsLifecycle
<1>1. Init => Lifecycle!LifecycleInit
  BY DEF Init, Lifecycle!LifecycleInit
<1>2. WorkerInv /\ [Next]_vars => [Lifecycle!LifecycleNext]_([a \in Aircraft |-> PeriodsOf(rows[a])])
  BY StepIsLifecycle
<1>3. QED
  BY <1>1, <1>2, WorkerIsInvariant, PTL DEF Spec, ImplementsLifecycle, Lifecycle!LifecycleSpec, PeriodsOf
=============================================================================
