------------------------- MODULE PersistenceWorker --------------------------
(***************************************************************************)
(* The write-behind persistence worker (sightings/worker.py), its          *)
(* accumulators (sightings/state.py), the rows it writes                   *)
(* (sightings/repository.py) and startup recovery (sightings/recovery.py). *)
(*                                                                         *)
(* One cycle is: drain the queue into the accumulators (synchronous), work *)
(* out what is owed, wait for the writer lock and write it in ONE          *)
(* transaction, and only then note in memory that it was written.  Every   *)
(* await in that sequence is a point where the enrichment, airport and     *)
(* alert tasks run and mutate the same accumulators, where the process may *)
(* crash, and where stop() may cancel the task; each is a state of `pc`.   *)
(*                                                                         *)
(* Left out: decoder-transmitted columns and their events (they change     *)
(* only inside the synchronous drain) and track points (the checkpoints    *)
(* ride the same transaction as the flush that dates them).                *)
(***************************************************************************)
EXTENDS LiveFeed, FiniteSetsExt

CONSTANTS CloseS,             \* sighting.close_s
          FlushS,             \* flush_interval_s
          MaxSilence,         \* oldest age an observation arrives with
          Routes,             \* non-zero route answers enrichment may give
          Severities,         \* non-zero alert severities, ranked as numbers
          Airports,           \* non-zero airport inferences
          ApplyMidCycle,      \* may apply_* run while a cycle is committing?
          CancelMidCommit,    \* may stop() cancel after SQLite committed?
          MaxFails, MaxRestarts    \* model bounds

ASSUME WorkerAssumption ==
  /\ Consumers = {"persistence"}
  /\ CloseS \in Nat /\ FlushS \in Nat \ {0} /\ RemoveS < CloseS
  /\ MaxSilence \in Nat /\ MaxSilence < RemoveS
  /\ Routes \subseteq Nat \ {0} /\ Severities \subseteq Nat \ {0}
  /\ Airports \subseteq Nat \ {0}
  /\ ApplyMidCycle \in BOOLEAN /\ CancelMidCommit \in BOOLEAN
  /\ MaxFails \in Nat /\ MaxRestarts \in Nat

VARIABLES active, pending,    \* _active, _pending: Aircraft -> accumulator
          inbox,              \* drained events not yet handled
          cycle,              \* locals of _commit
          rows, frame, t0,    \* committed: sightings, aircraft, meta.t0_ms
          work,               \* the open transaction's view of rows and frame
          t0Established,      \* _t0_established
          pc,                 \* where the worker's task is
          stopping,           \* stop() is running its last, forced cycle
          toRecover,          \* stale rows startup recovery still has to close
          fails, restarts     \* how many failures / restarts have happened

memVars == <<active, pending, inbox, cycle, work, t0Established, pc, stopping, toRecover>>
dbVars  == <<rows, frame, t0>>
budget  == <<fails, restarts>>
vars    == <<feedVars, memVars, dbVars, budget>>

None == -1

Column == {"route", "airport", "severity"}
Columns == [Column -> Nat]
NoColumns == [col \in Column |-> 0]

NoAcc == [sid |-> 0, started |-> None, last |-> None, cols |-> NoColumns,
          events |-> <<>>, dirty |-> FALSE, urgent |-> FALSE,
          flushed |-> None, deadline |-> None, reason |-> "none"]

NoCycle == [at |-> 0, force |-> FALSE, due |-> {}, opens |-> {},
            flushes |-> {}, queued |-> [a \in Aircraft |-> <<>>], first |-> None]

Subscription == sub["persistence"]
HasActive(a)  == active[a] # NoAcc
HasPending(a) == pending[a] # NoAcc

\* sighting_for, and _accumulators as a function of the address.
Acc(a) == IF HasActive(a) THEN active[a] ELSE pending[a]
Tracked == {a \in Aircraft : HasActive(a) \/ HasPending(a)}
-----------------------------------------------------------------------------
(* The accumulator: sightings/state.py.                                    *)

\* Mutant: last_seen_ms follows the newest event, forwards or backwards.
ObservedLatest(s, e) == [s EXCEPT !.last = e.last, !.dirty = TRUE]

\* observe: last_seen_ms is monotone, whatever order records arrive in.
Observed(s, e) ==
  [s EXCEPT !.last = IF e.last > @ THEN e.last ELSE @, !.dirty = TRUE]

\* open_from: dated from the record's entry into the live set.
OpenFrom(e) ==
  Observed([NoAcc EXCEPT !.started = e.first, !.last = e.first,
                         !.reason = "gap_timeout"], e)

\* needs_flush.
NeedsFlush(s, at, force) ==
  /\ s.dirty
  /\ force \/ s.urgent \/ s.flushed = None \/ at - s.flushed >= FlushS

\* mark_flushed, after the commit.
MarkFlushed(s, at) == [s EXCEPT !.dirty = FALSE, !.urgent = FALSE, !.flushed = at]

\* Mutant: written events stay queued.
MarkNothingWritten(s, n) == s

\* mark_events_written: drop the first n.
MarkEventsWritten(s, n) == [s EXCEPT !.events = SubSeq(@, n + 1, Len(@))]

\* Mutants: the flush is not requested; the event is not queued.
WithColumnClean(s, col, v) == [s EXCEPT !.cols[col] = v, !.events = Append(@, <<col, v>>)]
WithColumnSilent(s, col, v) == [s EXCEPT !.cols[col] = v, !.dirty = TRUE, !.urgent = TRUE]

\* The three apply_* seams: set a column, queue its event, ask for a flush.
WithColumn(s, col, v) ==
  [s EXCEPT !.cols[col] = v, !.dirty = TRUE, !.urgent = TRUE,
            !.events = IF col = "airport" THEN @ ELSE Append(@, <<col, v>>)]

\* The guards of apply_route / apply_inferred_airport (a different answer) and
\* of apply_alert_severity (a strictly higher rank).
Changes(s, col, v) == IF col = "severity" THEN v > s.cols[col] ELSE v # s.cols[col]
-----------------------------------------------------------------------------
(* The database: db/models.py rows, one sequence of sightings per aircraft.*)

NoFrame == [count |-> 0, seen |-> None, observed |-> 0]
Open(r) == r.ended = None
OpenRows(a) == {i \in DOMAIN rows[a] : Open(rows[a][i])}
Later(x, y) == IF x >= y THEN x ELSE y

NewRow(s) == [started |-> s.started, ended |-> None, cols |-> s.cols,
              events |-> <<>>, reason |-> "none"]

\* _resolved: the id of a's sighting inside this transaction.
Sid(a) == IF a \in cycle.opens THEN Len(rows[a]) + 1 ELSE Acc(a).sid

\* open_sighting, flush_sighting, then append_events, for one aircraft.
Written(a) ==
  LET s == Acc(a)
      base == IF a \in cycle.opens THEN Append(rows[a], NewRow(s))
              ELSE IF a \in cycle.flushes THEN [rows[a] EXCEPT ![s.sid].cols = s.cols]
              ELSE rows[a]
  IN  IF cycle.queued[a] = <<>> THEN base
      ELSE [base EXCEPT ![Sid(a)].events = @ \o cycle.queued[a]]

\* Mutant: every write of the airframe counts a sighting.
WrittenFrameCounts(a) ==
  [frame[a] EXCEPT
     !.count = IF a \in cycle.opens \cup cycle.flushes THEN @ + 1 ELSE @,
     !.seen  = IF a \in cycle.opens \cup cycle.flushes THEN Later(@, Acc(a).last) ELSE @]

\* sighting_count moves at open; last_seen_ms on every write of the airframe.
WrittenFrame(a) ==
  [frame[a] EXCEPT
     !.count = IF a \in cycle.opens THEN @ + 1 ELSE @,
     !.seen  = IF a \in cycle.opens \cup cycle.flushes THEN Later(@, Acc(a).last) ELSE @]

\* close_sighting: final values, end at the last observation, total duration.
CloseRow(r, s, why) == [r EXCEPT !.cols = s.cols, !.ended = s.last, !.reason = why]
CloseFrame(f, s) ==
  [f EXCEPT !.seen = Later(@, s.last), !.observed = @ + Later(0, s.last - s.started)]

\* load_open_sightings / _last_data_ms / to_accumulator.
LastData(a, i) == Later(rows[a][i].started, frame[a].seen)

\* Mutants: the closure reason, or the flight context, is not restored.
RehydratedUnexplained(a, i, why) ==
  [NoAcc EXCEPT !.sid = i, !.started = rows[a][i].started, !.last = LastData(a, i),
                !.cols = rows[a][i].cols, !.deadline = LastData(a, i) + CloseS]
RehydratedBlank(a, i, why) ==
  [NoAcc EXCEPT !.sid = i, !.started = rows[a][i].started, !.last = LastData(a, i),
                !.dirty = TRUE, !.deadline = LastData(a, i) + CloseS, !.reason = why]

Rehydrated(a, i, why) ==
  [NoAcc EXCEPT !.sid = i, !.started = rows[a][i].started, !.last = LastData(a, i),
                !.cols = rows[a][i].cols, !.deadline = LastData(a, i) + CloseS,
                !.reason = why]
-----------------------------------------------------------------------------
Awaiting == pc \in {"idle", "begun", "written", "closing", "committed", "t0"}
Running  == Awaiting \/ pc = "drain"
EndOfCycle == IF stopping THEN "exit" ELSE "idle"

\* Between cycles only, or at every await of one as well.
MayApply == IF ApplyMidCycle THEN Awaiting ELSE pc = "idle"

Init ==
  /\ FeedInit
  /\ active = [a \in Aircraft |-> NoAcc] /\ pending = [a \in Aircraft |-> NoAcc]
  /\ inbox = <<>> /\ cycle = NoCycle
  /\ rows = [a \in Aircraft |-> <<>>] /\ frame = [a \in Aircraft |-> NoFrame]
  /\ t0 = None /\ t0Established = FALSE
  /\ work = [rows |-> rows, frame |-> frame]
  /\ pc = "idle" /\ stopping = FALSE /\ toRecover = {}
  /\ fails = 0 /\ restarts = 0

\* Time passes whenever the worker is not inside its synchronous block.
Clock == /\ pc # "drain" /\ pc # "exit"
         /\ Tick
         /\ UNCHANGED <<memVars, dbVars, budget>>

\* The live store acts while the worker awaits; ingestion stops before it does.
LiveStoreActs ==
  /\ Awaiting /\ ~stopping
  /\ \E a \in Aircraft : \/ \E silence \in 0..MaxSilence : silence <= now /\ Observe(a, silence)
                         \/ AnnounceStale(a)
                         \/ Leave(a)
  /\ UNCHANGED <<memVars, dbVars, budget>>

\* apply_route, apply_inferred_airport, apply_alert_severity, from their tasks.
Apply(a, col, v) ==
  /\ MayApply /\ ~stopping
  /\ a \in Tracked
  /\ Changes(Acc(a), col, v)
  /\ IF HasActive(a)
       THEN active' = [active EXCEPT ![a] = WithColumn(@, col, v)] /\ UNCHANGED pending
       ELSE pending' = [pending EXCEPT ![a] = WithColumn(@, col, v)] /\ UNCHANGED active
  /\ UNCHANGED <<feedVars, inbox, cycle, work, t0Established, pc, stopping, toRecover,
                 dbVars, budget>>

ApplyRoute(a)           == \E v \in Routes : Apply(a, "route", v)
ApplyInferredAirport(a) == \E v \in Airports : Apply(a, "airport", v)
ApplyAlertSeverity(a)   == \E v \in Severities : Apply(a, "severity", v)
-----------------------------------------------------------------------------
(* process_pending: the synchronous block.                                 *)

Drain ==
  /\ pc = "idle"
  /\ inbox' = Subscription.queue
  /\ sub' = [sub EXCEPT !["persistence"] = Drained(@)]
  /\ cycle' = [NoCycle EXCEPT !.force = stopping]
  /\ pc' = "drain"
  /\ UNCHANGED <<now, live, active, pending, work, t0Established, stopping, toRecover,
                 dbVars, budget>>

\* Mutant: a resumed sighting keeps its closure deadline.
ObserveIntoKeepsDeadline(a, e) ==
  IF HasActive(a)
    THEN /\ active' = [active EXCEPT ![a] = Observed(@, e)]
         /\ UNCHANGED pending
    ELSE /\ active' = [active EXCEPT ![a] =
                IF HasPending(a) THEN Observed(pending[a], e) ELSE OpenFrom(e)]
         /\ pending' = [pending EXCEPT ![a] = NoAcc]

\* _observe: continue, resume (an aircraft that came back is no crash
\* casualty), or open.
ObserveInto(a, e) ==
  IF HasActive(a)
    THEN /\ active' = [active EXCEPT ![a] = Observed(@, e)]
         /\ UNCHANGED pending
    ELSE /\ active' = [active EXCEPT ![a] =
                IF HasPending(a)
                  THEN Observed([pending[a] EXCEPT !.deadline = None,
                                                   !.reason = "gap_timeout"], e)
                  ELSE OpenFrom(e)]
         /\ pending' = [pending EXCEPT ![a] = NoAcc]

\* _arm_closure: the removal event carries a full record.
ArmClosure(a, e) ==
  LET s == IF a \in Tracked THEN Observed(Acc(a), e) ELSE OpenFrom(e)
  IN  /\ active' = [active EXCEPT ![a] = NoAcc]
      /\ pending' = [pending EXCEPT ![a] = [s EXCEPT !.deadline = s.last + CloseS]]

\* _handle: staleness is deliberately ignored.
Handle ==
  /\ pc = "drain" /\ inbox # <<>>
  /\ LET e == Head(inbox)
     IN  \/ e.kind \in {"appeared", "updated"} /\ ObserveInto(e.icao, e)
         \/ e.kind = "removed" /\ ArmClosure(e.icao, e)
         \/ e.kind = "stale" /\ UNCHANGED <<active, pending>>
  /\ inbox' = Tail(inbox)
  /\ UNCHANGED <<feedVars, cycle, work, t0Established, pc, stopping, toRecover,
                 dbVars, budget>>

\* Mutant: a resync adds what is missing and forgets who has left.
ResyncKeepsGone ==
  /\ pc = "drain" /\ inbox = <<>> /\ Subscription.overflowed
  /\ active' = [a \in Aircraft |->
       IF a \notin Present THEN active[a]
       ELSE IF HasActive(a) THEN Observed(active[a], live[a])
       ELSE IF HasPending(a) THEN Observed([pending[a] EXCEPT !.deadline = None,
                                                 !.reason = "gap_timeout"], live[a])
       ELSE OpenFrom(live[a])]
  /\ pending' = [a \in Aircraft |-> IF a \in Present THEN NoAcc ELSE pending[a]]
  /\ sub' = [sub EXCEPT !["persistence"] = Acknowledged(@)]
  /\ UNCHANGED <<now, live, inbox, cycle, work, t0Established, pc, stopping, toRecover,
                 dbVars, budget>>

\* _resync: observe the whole snapshot; whoever is tracked as live and is not
\* there starts its closure gap and is flushed at once.
Resync ==
  /\ pc = "drain" /\ inbox = <<>> /\ Subscription.overflowed
  /\ active' = [a \in Aircraft |->
       IF a \notin Present THEN NoAcc
       ELSE IF HasActive(a) THEN Observed(active[a], live[a])
       ELSE IF HasPending(a) THEN Observed([pending[a] EXCEPT !.deadline = None,
                                                 !.reason = "gap_timeout"], live[a])
       ELSE OpenFrom(live[a])]
  /\ pending' = [a \in Aircraft |->
       IF a \in Present THEN NoAcc
       ELSE IF HasActive(a) THEN [active[a] EXCEPT !.urgent = TRUE,
                                           !.deadline = active[a].last + CloseS]
       ELSE pending[a]]
  /\ sub' = [sub EXCEPT !["persistence"] = Acknowledged(@)]
  /\ UNCHANGED <<now, live, inbox, cycle, work, t0Established, pc, stopping, toRecover,
                 dbVars, budget>>

-----------------------------------------------------------------------------
(* _commit: what is owed, decided before the first await ...               *)

MinStarted(S) == CHOOSE m \in {Acc(a).started : a \in S} :
                   \A a \in S : m <= Acc(a).started

Owed ==
  LET due     == {a \in Aircraft : HasPending(a) /\ pending[a].deadline # None
                                     /\ now >= pending[a].deadline}
      opens   == {a \in Tracked : Acc(a).sid = 0}
      flushes == {a \in Tracked \ (due \cup opens) : NeedsFlush(Acc(a), now, cycle.force)}
  IN  [cycle EXCEPT !.at = now, !.due = due, !.opens = opens, !.flushes = flushes,
                    !.queued = [a \in Aircraft |-> Acc(a).events],
                    !.first = IF opens = {} THEN None ELSE MinStarted(opens)]

NothingOwed(c) ==
  c.due \cup c.opens \cup c.flushes \cup {a \in Aircraft : c.queued[a] # <<>>} = {}

Prepare ==
  /\ pc = "drain" /\ inbox = <<>> /\ ~Subscription.overflowed
  /\ IF NothingOwed(Owed)
       THEN pc' = EndOfCycle /\ cycle' = NoCycle
       ELSE pc' = "begun" /\ cycle' = Owed
  /\ UNCHANGED <<feedVars, active, pending, inbox, work, t0Established, stopping, toRecover,
                 dbVars, budget>>

\* Mutant: T0 is recorded when the first transaction begins.
WriteRowsEarlyT0 ==
  /\ pc = "begun"
  /\ work' = [rows |-> [a \in Aircraft |-> Written(a)],
              frame |-> [a \in Aircraft |-> WrittenFrame(a)]]
  /\ t0' = IF t0 = None THEN cycle.first ELSE t0
  /\ pc' = "written"
  /\ UNCHANGED <<feedVars, active, pending, inbox, cycle, t0Established, stopping, toRecover,
                 rows, frame, budget>>

\* ... the transaction's statements, each reading the accumulators as they
\* are by then ...
WriteRows ==
  /\ pc = "begun"
  /\ work' = [rows |-> [a \in Aircraft |-> Written(a)],
              frame |-> [a \in Aircraft |-> WrittenFrame(a)]]
  /\ pc' = "written"
  /\ UNCHANGED <<feedVars, active, pending, inbox, cycle, t0Established, stopping, toRecover,
                 dbVars, budget>>

WriteCloses ==
  /\ pc = "written"
  /\ work' = [rows |-> [a \in Aircraft |->
                IF a \in cycle.due
                  THEN [work.rows[a] EXCEPT ![Sid(a)] = CloseRow(@, Acc(a), Acc(a).reason)]
                  ELSE work.rows[a]],
              frame |-> [a \in Aircraft |->
                IF a \in cycle.due THEN CloseFrame(work.frame[a], Acc(a)) ELSE work.frame[a]]]
  /\ pc' = "closing"
  /\ UNCHANGED <<feedVars, active, pending, inbox, cycle, t0Established, stopping, toRecover,
                 dbVars, budget>>

\* ... the commit reaches the disk, in SQLite's thread ...
Commit ==
  /\ pc = "closing"
  /\ rows' = work.rows /\ frame' = work.frame
  /\ pc' = "committed"
  /\ UNCHANGED <<feedVars, active, pending, inbox, cycle, work, t0Established, stopping,
                 toRecover, t0, budget>>

\* ... or the cycle fails and the accumulators stay as they were ...
CycleFails ==
  /\ pc \in {"begun", "written", "closing"} /\ fails < MaxFails
  /\ fails' = fails + 1
  /\ pc' = EndOfCycle /\ cycle' = NoCycle
  /\ work' = [rows |-> rows, frame |-> frame]
  /\ UNCHANGED <<feedVars, active, pending, inbox, t0Established, stopping, toRecover,
                 dbVars, restarts>>

\* Mutant: the new row's id is not kept.
NotedWithoutId(s, a) ==
  MarkEventsWritten(
    IF a \in cycle.opens \cup cycle.flushes THEN MarkFlushed(s, cycle.at) ELSE s,
    Len(cycle.queued[a]))

\* ... and, back on the event loop, ids and marks are noted in memory.
Noted(s, a) ==
  MarkEventsWritten(
    IF a \in cycle.opens THEN [MarkFlushed(s, cycle.at) EXCEPT !.sid = Len(rows[a])]
    ELSE IF a \in cycle.flushes THEN MarkFlushed(s, cycle.at)
    ELSE s,
    Len(cycle.queued[a]))

NoteCommitted ==
  /\ pc = "committed"
  /\ active' = [a \in Aircraft |-> IF HasActive(a) THEN Noted(active[a], a) ELSE NoAcc]
  /\ pending' = [a \in Aircraft |->
       IF HasPending(a) /\ a \notin cycle.due THEN Noted(pending[a], a) ELSE NoAcc]
  /\ IF cycle.opens = {} \/ t0Established
       THEN pc' = EndOfCycle /\ cycle' = NoCycle
       ELSE pc' = "t0" /\ UNCHANGED cycle
  /\ UNCHANGED <<feedVars, inbox, work, t0Established, stopping, toRecover,
                 dbVars, budget>>

\* _establish_t0: a transaction of its own, write-once in SQL.
EstablishT0 ==
  /\ pc = "t0"
  /\ t0' = IF t0 = None THEN cycle.first ELSE t0
  /\ t0Established' = TRUE
  /\ pc' = EndOfCycle /\ cycle' = NoCycle
  /\ UNCHANGED <<feedVars, active, pending, inbox, work, stopping, toRecover,
                 rows, frame, budget>>

EstablishT0Fails ==
  /\ pc = "t0" /\ fails < MaxFails
  /\ fails' = fails + 1
  /\ pc' = EndOfCycle /\ cycle' = NoCycle
  /\ UNCHANGED <<feedVars, active, pending, inbox, work, t0Established, stopping,
                 toRecover, dbVars, restarts>>
-----------------------------------------------------------------------------
(* Stopping, crashing and starting again.                                  *)

\* stop(): cancel the task wherever it awaits, then run one forced cycle.
Stop ==
  /\ Awaiting /\ ~stopping /\ restarts < MaxRestarts
  /\ pc = "committed" => CancelMidCommit
  /\ stopping' = TRUE /\ restarts' = restarts + 1
  /\ pc' = "idle" /\ cycle' = NoCycle
  /\ work' = [rows |-> rows, frame |-> frame]
  /\ UNCHANGED <<feedVars, active, pending, inbox, t0Established, toRecover, dbVars, fails>>

\* Everything in memory, the live store included, is gone.
PowerOff ==
  /\ live' = [a \in Aircraft |-> NotLive]
  /\ sub' = [c \in Consumers |-> NewSubscription]
  /\ active' = [a \in Aircraft |-> NoAcc] /\ pending' = [a \in Aircraft |-> NoAcc]
  /\ inbox' = <<>> /\ cycle' = NoCycle /\ toRecover' = {}
  /\ work' = [rows |-> rows, frame |-> frame]
  /\ t0Established' = FALSE /\ stopping' = FALSE /\ pc' = "down"
  /\ UNCHANGED <<now, dbVars, fails>>

Exit  == pc = "exit" /\ PowerOff /\ UNCHANGED restarts
Crash == pc # "down" /\ restarts < MaxRestarts /\ PowerOff /\ restarts' = restarts + 1

\* start() and ShutdownRecovery.run: a sighting silent past the gap is closed
\* here, any other is adopted with the deadline it would have had.
Stale(a, i) == LastData(a, i) + CloseS <= now

Start ==
  /\ pc = "down"
  /\ t0Established' = (t0 # None)
  /\ toRecover' = UNION {{<<a, i>> : i \in {k \in OpenRows(a) : Stale(a, k)}} : a \in Aircraft}
  /\ pending' = [a \in Aircraft |->
       LET adopted == {i \in OpenRows(a) : ~Stale(a, i)}
       IN  IF adopted = {} THEN NoAcc
           ELSE Rehydrated(a, CHOOSE i \in adopted : \A j \in adopted : j <= i, "gap_timeout")]
  /\ pc' = "recover"
  /\ UNCHANGED <<feedVars, active, inbox, cycle, work, stopping, dbVars, budget>>

\* _close_batch commits ...
RecoverClose(a, i) ==
  LET s == Rehydrated(a, i, "shutdown_recovery")
  IN  /\ pc = "recover" /\ <<a, i>> \in toRecover
      /\ rows' = [rows EXCEPT ![a][i] = CloseRow(@, s, s.reason)]
      /\ frame' = [frame EXCEPT ![a] = CloseFrame(@, s)]
      /\ work' = [rows |-> rows', frame |-> frame']
      /\ toRecover' = toRecover \ {<<a, i>>}
      /\ UNCHANGED <<feedVars, active, pending, inbox, cycle, t0Established, pc, stopping,
                     t0, budget>>

\* Mutant: a failed batch is not handed to the worker.
RecoverForgets(a, i) ==
  /\ pc = "recover" /\ <<a, i>> \in toRecover /\ fails < MaxFails
  /\ fails' = fails + 1
  /\ toRecover' = toRecover \ {<<a, i>>}
  /\ UNCHANGED <<feedVars, active, pending, inbox, cycle, work, t0Established, pc, stopping,
                 dbVars, restarts>>

\* ... or fails, and the worker's first cycle retries it.
RecoverFails(a, i) ==
  /\ pc = "recover" /\ <<a, i>> \in toRecover /\ fails < MaxFails
  /\ fails' = fails + 1
  /\ pending' = [pending EXCEPT ![a] = Rehydrated(a, i, "shutdown_recovery")]
  /\ toRecover' = toRecover \ {<<a, i>>}
  /\ UNCHANGED <<feedVars, active, inbox, cycle, work, t0Established, pc, stopping,
                 dbVars, restarts>>

Recovered ==
  /\ pc = "recover" /\ toRecover = {}
  /\ pc' = "idle"
  /\ UNCHANGED <<feedVars, active, pending, inbox, cycle, work, t0Established, stopping,
                 toRecover, dbVars, budget>>
-----------------------------------------------------------------------------
CycleStep ==
  \/ Drain \/ Handle \/ Resync \/ Prepare
  \/ WriteRows \/ WriteCloses \/ Commit \/ NoteCommitted \/ EstablishT0

Next ==
  \/ Clock
  \/ LiveStoreActs
  \/ \E a \in Aircraft : ApplyRoute(a) \/ ApplyInferredAirport(a) \/ ApplyAlertSeverity(a)
  \/ CycleStep
  \/ CycleFails \/ EstablishT0Fails
  \/ Stop \/ Exit \/ Crash
  \/ Start \/ Recovered
  \/ \E p \in toRecover : RecoverClose(p[1], p[2]) \/ RecoverFails(p[1], p[2])

Spec == Init /\ [][Next]_vars

\* The event loop keeps scheduling the worker's task, time passes, a process
\* that went down is started again (compose.yaml: restart: unless-stopped),
\* and recovery's batches end one way or the other.
Recovery == Start \/ Recovered \/ \E p \in toRecover : RecoverClose(p[1], p[2])

FairSpec == /\ Spec
            /\ SF_vars(Clock) /\ WF_vars(CycleStep)
            /\ WF_vars(Exit) /\ WF_vars(Recovery)
-----------------------------------------------------------------------------
Time == 0..MaxNow
Accs == [sid : Nat, started : Time, last : Time, cols : Columns,
         events : Seq(Column \X Nat), dirty : BOOLEAN, urgent : BOOLEAN,
         flushed : Time \cup {None}, deadline : Nat \cup {None},
         reason : {"gap_timeout", "shutdown_recovery"}]
Rows == [started : Time, ended : Time \cup {None}, cols : Columns,
         events : Seq(Column \X Nat),
         reason : {"none", "gap_timeout", "shutdown_recovery"}]
Frames == [count : Nat, seen : Time \cup {None}, observed : Nat]

\* Type correctness of the accumulators, the tables and the worker's state.
TypeOK ==
  /\ now \in Time
  /\ live \in [Aircraft -> Records \cup {NotLive}]
  /\ Subscription \in [queue : Seq(Events), overflowed : BOOLEAN]
  /\ active \in [Aircraft -> Accs \cup {NoAcc}]
  /\ pending \in [Aircraft -> Accs \cup {NoAcc}]
  /\ inbox \in Seq(Events)
  /\ rows \in [Aircraft -> Seq(Rows)] /\ frame \in [Aircraft -> Frames]
  /\ work \in [rows : [Aircraft -> Seq(Rows)], frame : [Aircraft -> Frames]]
  /\ t0 \in Time \cup {None} /\ t0Established \in BOOLEAN
  /\ pc \in {"idle", "drain", "begun", "written", "closing", "committed", "t0",
             "exit", "down", "recover"}
  /\ stopping \in BOOLEAN
  /\ fails \in 0..MaxFails /\ restarts \in 0..MaxRestarts

\* An aircraft is never both live and awaiting closure, and an accumulator's
\* deadline runs exactly while it awaits closure (_observe, _arm_closure).
OneAccumulator ==
  \A a \in Aircraft : /\ ~(HasActive(a) /\ HasPending(a))
                      /\ HasActive(a) => active[a].deadline = None
                      /\ HasPending(a) => pending[a].deadline # None

\* At most one open sighting row per aircraft, although nothing in the schema
\* enforces it (docs/DATA_MODEL.md: "A new sighting for the same aircraft
\* begins only after the previous one is closed").
OneOpenSighting == \A a \in Aircraft : Cardinality(OpenRows(a)) <= 1

\* Between cycles every open row is owned by the accumulator that will close
\* it: no failure, restart or retry strands a row (_commit, recovery.run).
OpenRowsOwned ==
  pc = "idle" => \A a \in Aircraft :
    OpenRows(a) = IF a \in Tracked /\ Acc(a).sid # 0 THEN {Acc(a).sid} ELSE {}

\* Once its queue is empty and any gap resynced, the worker believes exactly
\* the live aircraft to be live (_handle, _resync).
TracksLiveSet ==
  pc = "idle" /\ ~stopping /\ Subscription = NewSubscription
    => {a \in Aircraft : HasActive(a)} = Present

\* The row never lags a clean accumulator: what needs_flush will not write
\* again is what the database already holds (apply_*, mark_flushed).
CleanMeansWritten ==
  pc = "idle" => \A a \in Tracked :
    Acc(a).sid # 0 /\ ~Acc(a).dirty => rows[a][Acc(a).sid].cols = Acc(a).cols

\* A sighting's severity and its timeline agree in every committed state: the
\* column is the last severity event ("the column and its event land in one
\* transaction and a failed cycle retries both", state.apply_alert_severity).
ColumnAndEventTogether ==
  \A a \in Aircraft : \A i \in DOMAIN rows[a] :
    LET r == rows[a][i]
        sev == {k \in DOMAIN r.events : r.events[k][1] = "severity"}
    IN  IF sev = {} THEN r.cols["severity"] = 0
        ELSE \E k \in sev : /\ \A j \in sev : j <= k
                            /\ r.events[k][2] = r.cols["severity"]

\* alert_matched / alert_severity_upgraded are written exactly once each: the
\* severities on one timeline strictly rise, across failures and restarts.
EventsExactlyOnce ==
  \A a \in Aircraft : \A i \in DOMAIN rows[a] :
    \A j, k \in DOMAIN rows[a][i].events :
      LET x == rows[a][i].events[j]  y == rows[a][i].events[k]
      IN  j < k /\ x[1] = "severity" /\ y[1] = "severity" => x[2] < y[2]

\* The airframe's totals are exactly its sightings': sighting_count counts the
\* rows and total_observed_ms never counts a partial or a second duration.
FrameAgrees ==
  \A a \in Aircraft :
    LET closed == {i \in DOMAIN rows[a] : ~Open(rows[a][i])}
        duration(i) == rows[a][i].ended - rows[a][i].started
    IN  /\ frame[a].count = Len(rows[a])
        /\ frame[a].observed = MapThenSumSet(duration, closed)

\* T0 is the first observation ever stored ("T0 is set exactly when the first
\* observation is persisted", docs/DATA_MODEL.md section 2.1).
T0IsFirst ==
  t0 # None => \A a \in Aircraft : \A i \in DOMAIN rows[a] : t0 <= rows[a][i].started

\* max_alert_severity is a maximum over the sighting: no flush, close, failed
\* cycle or restart ever lowers a committed one.
SeverityNeverLowered ==
  [][\A a \in Aircraft : \A i \in DOMAIN rows[a] :
       rows'[a][i].cols["severity"] >= rows[a][i].cols["severity"]]_vars

\* T0 never names a moment no sighting exists for (_establish_t0: "Set *after*
\* the transaction commits"), whatever fails or crashes around that commit.
T0NamesSighting ==
  t0 # None => \E a \in Aircraft : \E i \in DOMAIN rows[a] : rows[a][i].started = t0

\* No sighting stays open for ever: once its aircraft has left the live set
\* the open row is closed or the aircraft comes back, whatever failed, crashed
\* or was shed from the queue meanwhile (_resync, _commit, recovery.run).  The
\* clock bound must leave room for the closure gap.
EveryOpenRowCloses ==
  \A a \in Aircraft :
    (OpenRows(a) # {} /\ a \notin Present /\ now + CloseS <= MaxNow)
      ~> (OpenRows(a) = {} \/ a \in Present)

Lifecycle == INSTANCE SightingLifecycle WITH
  StillOpen <- None,
  history <- [a \in Aircraft |-> [i \in DOMAIN rows[a] |->
                [started |-> rows[a][i].started, ended |-> rows[a][i].ended]]]

\* The committed rows are a sighting history.
ImplementsLifecycle == Lifecycle!LifecycleSpec

\* What the worker promises in every state about memory and rows: one accumulator and one open row per
\* aircraft, every open row owned by somebody, nothing clean that is not written, and a T0 that names a
\* sighting (sightings/worker.py, _write; sightings/recovery.py).
WorkerInvariant ==
  /\ TypeOK
  /\ OneAccumulator
  /\ OneOpenSighting
  /\ OpenRowsOwned
  /\ CleanMeansWritten
  /\ T0NamesSighting
=============================================================================
