--------------------------- MODULE ReceiverMetrics ---------------------------
(***************************************************************************)
(* The receiver-metrics service (receiver_metrics/service.py): a sampling  *)
(* task that buffers samples and flushes them with the lifetime increments *)
(* they carry, and a maintenance task that folds raw samples into hourly   *)
(* and daily summaries and only then prunes them, under a time zone that a *)
(* Settings save may change.  The receiver hears one message a tick, so a  *)
(* sample is its time and whether it has a rate; range, signal and         *)
(* position columns follow the same paths and are left out.                *)
(***************************************************************************)
EXTENDS Integers, Sequences, SequencesExt, FiniteSetsExt, TLC

CONSTANTS HourLen, DayLen, Window, MaxGap, FlushAfter, MaintainEvery,  \* in ticks
          MaxBuffered,             \* MAX_PENDING_SAMPLES
          Zones, Offset,           \* time zones and their offsets from UTC
          MaxMetricsClock, MaxDown, MaxCall, MaxStops, MaxMetricsFaults, MaxZoneSaves   \* bounds

ASSUME MetricsConstants ==
  /\ {HourLen, DayLen, Window, MaxGap, FlushAfter, MaintainEvery, MaxBuffered} \subseteq Nat \ {0}
  /\ Window >= 2 * DayLen /\ MaxBuffered <= DayLen /\ DayLen >= HourLen
  /\ Offset \in [Zones -> Nat]

VARIABLES
  rClock, rUp, rDownFor,
  rZone,          \* the configured zone
  rZoneKey,       \* _zone_key: the zone the last pass ran under
  rLast,          \* _previous_sample: its time, of this process
  rPending,       \* _pending: sequence of samples
  rDelta,         \* the accumulator: [messages, cells], cells as day -> sample count
  rFlush,         \* the flush in progress: [pc, samples, delta]
  rLastFlushed,   \* _last_flush_ms
  rFloor,         \* _summary_floor_ms is set
  rMaint,         \* the maintenance pass: [pc, now, zone, hours, days]
  rRaw, rHourly, rDaily, rLife, rCells,    \* the tables
  rBudget,
  rCommitted,     \* history: every sample that ever reached the raw table
  rHeard,         \* history: messages and cells observed, less what an unclean end took
  rMissed         \* history: a re-key failed half way

rVars == <<rClock, rUp, rDownFor, rZone, rZoneKey, rLast, rPending, rDelta, rFlush, rLastFlushed, rFloor,
           rMaint, rRaw, rHourly, rDaily, rLife, rCells, rBudget, rCommitted, rHeard, rMissed>>
rSampling == <<rLast, rPending, rDelta, rFlush, rLastFlushed>>
rTables   == <<rRaw, rHourly, rDaily, rLife, rCells>>
rHistory  == <<rCommitted, rHeard, rMissed>>

None      == 0
NoDelta   == [messages |-> 0, cells |-> <<>>]
NotFlushing == [pc |-> "none", samples |-> <<>>, delta |-> NoDelta]
Resting   == [pc |-> "idle", now |-> None, zone |-> None, hours |-> <<>>, days |-> <<>>]
Larger(a, b)  == IF a < b THEN b ELSE a
Smaller(a, b) == IF a < b THEN a ELSE b

(* ------------------------------ aggregation ----------------------------- *)

\* hour_start_ms, local_day, local_day_start_ms
HourStart(t)   == t - (t % HourLen)
LocalDay(t, z) == (t + Offset[z]) \div DayLen
DayStart(d, z) == d * DayLen - Offset[z]

\* counter_delta: what the rate of a sample stands for since the sample before it.
CounterDelta(s, before) ==
  IF ~s.rated \/ before = None \/ s.ts - before > MaxGap THEN 0 ELSE s.ts - before

\* The retained sample immediately before an instant, of a set (sample_before, and the predecessor
\* summarize_by carries across buckets).
Before(samples, t) == LET earlier == {s.ts : s \in {x \in samples : x.ts < t}}
                      IN  IF earlier = {} THEN None ELSE Max(earlier)

\* summarize: one bucket's row, each sample differenced against the one before it.
Summarize(bucket, all) ==
  [n     |-> Cardinality(bucket),
   total |-> FoldSet(LAMBDA s, sum : sum + CounterDelta(s, Before(all, s.ts)), 0, bucket)]

\* hourly and daily, through summarize_by: every bucket a run of samples touches.
SummarizeBy(samples, all, key(_)) ==
  [k \in {key(s.ts) : s \in samples} |-> Summarize({s \in samples : key(s.ts) = k}, all)]
Hourly(samples, all)   == SummarizeBy(samples, all, HourStart)
Daily(samples, all, z) == SummarizeBy(samples, all, LAMBDA t : LocalDay(t, z))

(* -------------------------------- sampling ------------------------------ *)

\* Two accumulated increments put together (restore, and the tables' own addition).
AddCells(a, b) == [d \in DOMAIN a \cup DOMAIN b |->
                     (IF d \in DOMAIN a THEN a[d] ELSE 0) + (IF d \in DOMAIN b THEN b[d] ELSE 0)]
\* Mutant of Restore: a failed flush does not give its increments back.
RestoreNothing(delta, pending) == pending

Restore(delta, pending) == [messages |-> delta.messages + pending.messages,
                            cells |-> pending.cells]

\* _buffer: past the cap the oldest raw samples are shed.
BufferSample(q, s) == LET all == Append(q, s) IN SubSeq(all, Larger(1, Len(all) - MaxBuffered + 1), Len(all))

\* flush, up to its await: everything buffered is captured, the accumulator is drained, while the
\* banded cells stay pending until the write is known to have landed.
BeginMetricsFlush(samples, delta) ==
  IF samples = <<>> /\ delta.messages = 0 /\ delta.cells = <<>> THEN NotFlushing
  ELSE [pc |-> "write", samples |-> samples, delta |-> delta]

\* sample_once: sample, fold into the lifetime accumulator, buffer, remember the day's cells, and
\* start a flush when one is due.
SampleOnce ==
  LET s     == [ts |-> rClock, rated |-> rLast # None /\ rClock - rLast <= MaxGap]
      day   == LocalDay(rClock, rZone)
      heard == CounterDelta(s, rLast)
      delta == [messages |-> rDelta.messages + heard, cells |-> AddCells(rDelta.cells, day :> 1)]
      queue == BufferSample(rPending, s)
      due   == rLastFlushed # None /\ rClock - rLastFlushed >= FlushAfter
  IN  /\ rUp /\ rFlush.pc = "none" /\ rLast < rClock
      /\ rLast' = rClock
      /\ rPending' = queue
      /\ rLastFlushed' = IF rLastFlushed = None THEN rClock ELSE rLastFlushed
      /\ rFlush' = IF due THEN BeginMetricsFlush(queue, delta) ELSE rFlush
      /\ rDelta' = IF due THEN [delta EXCEPT !.messages = 0] ELSE delta
      /\ rHeard' = [messages |-> rHeard.messages + heard, cells |-> AddCells(rHeard.cells, day :> 1)]
      /\ UNCHANGED <<rClock, rUp, rDownFor, rZone, rZoneKey, rFloor, rMaint, rTables, rBudget,
                     rCommitted, rMissed>>

\* record: samples, banded cells and the lifetime increments in one transaction.
Record(samples, delta) ==
  /\ rRaw' = {x \in rRaw : x.ts \notin {s.ts : s \in Range(samples)}} \cup Range(samples)
  /\ rCells' = AddCells(rCells, delta.cells)
  /\ rLife' = rLife + delta.messages
  /\ rCommitted' = rCommitted \cup Range(samples)

\* flush, after its write: on success the batch leaves memory, on failure the increments go back.
FlushDone(ok) ==
  /\ rUp /\ rFlush.pc = "write"
  /\ rFlush' = NotFlushing
  /\ IF ok
     THEN /\ Record(rFlush.samples, rFlush.delta)
          /\ rPending' = SubSeq(rPending, Len(rFlush.samples) + 1, Len(rPending))
          /\ rDelta' = [rDelta EXCEPT !.cells = <<>>]
          /\ rLastFlushed' = rLast
          /\ UNCHANGED rBudget
     ELSE /\ rBudget.faults > 0
          /\ rBudget' = [rBudget EXCEPT !.faults = @ - 1]
          /\ rDelta' = Restore(rFlush.delta, rDelta)
          /\ UNCHANGED <<rRaw, rCells, rLife, rCommitted, rPending, rLastFlushed>>
  /\ UNCHANGED <<rClock, rUp, rDownFor, rZone, rZoneKey, rLast, rFloor, rMaint, rHourly, rDaily,
                 rHeard, rMissed>>

(* ------------------------------ maintenance ----------------------------- *)

PruneBefore(now)  == HourStart(Larger(0, now - Window))
FrozenBefore(now) == PruneBefore(now) + HourLen        \* RECOMPUTE_MARGIN_MS

\* Mutant of RecentFloor: a day back, not aligned to the start of a day.
RecentFloorUnaligned(now, z) == Larger(0, now - DayLen)

\* _recent_floor and _reprocess_from: all that is retained at first, then yesterday and today.
RecentFloor(now, z)   == DayStart(LocalDay(Larger(0, now - DayLen), z), z)
ReprocessFrom(now, z) == LET earliest == Min({s.ts : s \in rRaw})
                         IN  IF rFloor = None THEN earliest
                             ELSE Larger(earliest, Smaller(rFloor, RecentFloor(now, z)))

\* run_maintenance to _adopt_zone: a changed zone drops the floor and the re-derivable daily rows.
\* The new key is remembered before the delete, which may fail and end the pass.
MaintainBegin(ok) ==
  LET changed == rZoneKey # rZone /\ rRaw # {}
  IN  /\ rUp /\ rMaint.pc = "idle" /\ rMaint.now + MaintainEvery <= rClock
      /\ ok \/ (changed /\ rBudget.faults > 0)
      /\ rZoneKey' = rZone
      /\ rMaint' = IF rRaw # {} /\ ok THEN [Resting EXCEPT !.pc = "read", !.now = rClock, !.zone = rZone]
                   ELSE [Resting EXCEPT !.now = rClock]
      /\ rFloor' = IF changed THEN None ELSE rFloor
      /\ rDaily' = IF changed /\ ok
                   THEN [d \in {x \in DOMAIN rDaily : x < LocalDay(FrozenBefore(rClock), rZone)} |-> rDaily[d]]
                   ELSE rDaily
      /\ rMissed' = (rMissed \/ ~ok)
      /\ rBudget' = [rBudget EXCEPT !.faults = IF ok THEN @ ELSE @ - 1]
      /\ UNCHANGED <<rClock, rUp, rDownFor, rZone, rSampling, rRaw, rHourly, rLife, rCells,
                     rCommitted, rHeard>>

\* _recompute: every bucket in range that may still be written.
Recompute ==
  LET from    == ReprocessFrom(rMaint.now, rMaint.zone)
      frozen  == FrozenBefore(rMaint.now)
      samples == {s \in rRaw : s.ts >= from /\ s.ts <= rMaint.now}
      hours   == Hourly(samples, rRaw)
      days    == Daily(samples, rRaw, rMaint.zone)
      opened  == {h \in DOMAIN hours : h >= frozen \/ h \notin DOMAIN rHourly}
      dawned  == {d \in DOMAIN days : DayStart(d, rMaint.zone) >= frozen \/ d \notin DOMAIN rDaily}
  IN  /\ rUp /\ rMaint.pc = "read"
      /\ rMaint' = [rMaint EXCEPT !.pc = "write", !.hours = [h \in opened |-> hours[h]],
                                  !.days = [d \in dawned |-> days[d]]]
      /\ UNCHANGED <<rClock, rUp, rDownFor, rZone, rZoneKey, rSampling, rFloor, rTables, rBudget, rHistory>>

\* write_summaries: full replacement of each bucket; nothing is pruned when it fails.
WriteSummaries(ok) ==
  /\ rUp /\ rMaint.pc = "write"
  /\ IF ok
     THEN /\ rHourly' = rMaint.hours @@ rHourly
          /\ rDaily' = rMaint.days @@ rDaily
          /\ rFloor' = RecentFloor(rMaint.now, rMaint.zone)
          /\ rMaint' = [rMaint EXCEPT !.pc = "prune", !.hours = <<>>, !.days = <<>>]
          /\ UNCHANGED rBudget
     ELSE /\ rBudget.faults > 0
          /\ rBudget' = [rBudget EXCEPT !.faults = @ - 1]
          /\ rMaint' = [Resting EXCEPT !.now = rMaint.now]
          /\ UNCHANGED <<rHourly, rDaily, rFloor>>
  /\ UNCHANGED <<rClock, rUp, rDownFor, rZone, rZoneKey, rSampling, rRaw, rLife, rCells, rHistory>>

\* prune_raw, in chunks: any prefix of the expired rows may be gone when it ends.
PruneRaw ==
  /\ rUp /\ rMaint.pc = "prune"
  /\ rRaw' = {s \in rRaw : s.ts >= PruneBefore(rMaint.now)}
  /\ rMaint' = [Resting EXCEPT !.now = rMaint.now]
  /\ UNCHANGED <<rClock, rUp, rDownFor, rZone, rZoneKey, rSampling, rFloor, rHourly, rDaily, rLife,
                 rCells, rBudget, rHistory>>

(* -------------------------------- lifecycle ----------------------------- *)

\* Nothing in memory outlives the process.
ForgetMetrics ==
  /\ rUp' = FALSE /\ rDownFor' = 0 /\ rLast' = None /\ rPending' = <<>> /\ rDelta' = NoDelta
  /\ rFlush' = NotFlushing /\ rLastFlushed' = None /\ rFloor' = None
  /\ rMaint' = Resting

\* stop: both tasks are cancelled, then what is buffered is flushed.  A flush the cancellation cuts
\* short has committed or has not; either way its drained increments are not put back, and what it
\* captured is flushed again.
StopMetrics(committed) ==
  LET cut   == rFlush.pc = "write"
      first == IF cut /\ committed THEN rFlush.delta ELSE NoDelta
  IN  /\ rUp /\ rBudget.stops > 0
      /\ committed => cut
      /\ rBudget' = [rBudget EXCEPT !.stops = @ - 1]
      /\ rRaw' = {x \in rRaw : x.ts \notin {s.ts : s \in Range(rPending)}} \cup Range(rPending)
      /\ rCommitted' = rCommitted \cup Range(rPending)
      /\ rLife' = rLife + first.messages + rDelta.messages
      /\ rCells' = AddCells(AddCells(rCells, first.cells), rDelta.cells)
      /\ rHeard' = IF cut THEN [messages |-> rLife', cells |-> rCells'] ELSE rHeard
      /\ ForgetMetrics
      /\ UNCHANGED <<rClock, rZone, rZoneKey, rHourly, rDaily, rMissed>>

\* An unclean end, or a stop whose final flush fails: what was not written is lost.
CrashMetrics ==
  /\ rUp /\ rBudget.stops > 0
  /\ rBudget' = [rBudget EXCEPT !.stops = @ - 1]
  /\ rHeard' = [messages |-> rLife, cells |-> rCells]
  /\ ForgetMetrics
  /\ UNCHANGED <<rClock, rZone, rZoneKey, rTables, rCommitted, rMissed>>

\* start: no rate baseline, no floor, and the zone this process begins with.  The loop sleeps before
\* its first sample, which is therefore never of a tick the last process sampled.
StartMetrics ==
  /\ ~rUp /\ (rDownFor > 0 \/ rCommitted = {})
  /\ rUp' = TRUE /\ rZoneKey' = rZone /\ rMaint' = [Resting EXCEPT !.now = rClock]
  /\ UNCHANGED <<rClock, rDownFor, rZone, rSampling, rFloor, rTables, rBudget, rHistory>>

\* A Settings save of the time zone.
SaveZone(z) ==
  /\ rBudget.zones > 0 /\ z # rZone
  /\ rZone' = z
  /\ rBudget' = [rBudget EXCEPT !.zones = @ - 1]
  /\ UNCHANGED <<rClock, rUp, rDownFor, rZoneKey, rSampling, rFloor, rMaint, rTables, rHistory>>

\* Time passes; a running sampler takes a sample every tick unless a flush holds it up, a pass runs
\* when its sleep ends, and no database call outlasts MaxCall ticks.
MetricsTick ==
  /\ rClock < MaxMetricsClock
  /\ IF rUp THEN /\ rLast = rClock \/ (rFlush.pc = "write" /\ rClock - rLast < MaxCall)
                 /\ rClock < rMaint.now + (IF rMaint.pc = "idle" THEN MaintainEvery ELSE MaxCall)
            ELSE rDownFor < MaxDown
  /\ rClock' = rClock + 1
  /\ rDownFor' = IF rUp THEN 0 ELSE rDownFor + 1
  /\ UNCHANGED <<rUp, rZone, rZoneKey, rSampling, rFloor, rMaint, rTables, rBudget, rHistory>>

MetricsInit ==
  /\ rClock = 1 /\ rUp = FALSE /\ rDownFor = 0 /\ rZone = CHOOSE z \in Zones : Offset[z] = 0
  /\ rZoneKey = rZone /\ rLast = None /\ rPending = <<>> /\ rDelta = NoDelta /\ rFlush = NotFlushing
  /\ rLastFlushed = None /\ rFloor = None /\ rMaint = Resting
  /\ rRaw = {} /\ rHourly = <<>> /\ rDaily = <<>> /\ rLife = 0 /\ rCells = <<>>
  /\ rBudget = [stops |-> MaxStops, faults |-> MaxMetricsFaults, zones |-> MaxZoneSaves]
  /\ rCommitted = {} /\ rHeard = NoDelta /\ rMissed = FALSE

MetricsNext ==
  \/ MetricsTick \/ SampleOnce \/ Recompute \/ PruneRaw \/ CrashMetrics \/ StartMetrics
  \/ \E ok \in BOOLEAN : FlushDone(ok) \/ MaintainBegin(ok) \/ WriteSummaries(ok) \/ StopMetrics(ok)
  \/ \E z \in Zones : SaveZone(z)

MetricsSpec == MetricsInit /\ [][MetricsNext]_rVars

(* ------------------------------ properties ------------------------------ *)

MetricsTypeOK ==
  /\ rClock \in 1 .. MaxMetricsClock /\ rUp \in BOOLEAN /\ Len(rPending) <= MaxBuffered
  /\ rZone \in Zones /\ rZoneKey \in Zones
  /\ rMaint.pc \in {"idle", "read", "write", "prune"} /\ rFlush.pc \in {"none", "write"}
  /\ \A s \in rRaw : s \in [ts : 1 .. MaxMetricsClock, rated : BOOLEAN]
  /\ rRaw \subseteq rCommitted

OfHour(h) == {s \in rCommitted : HourStart(s.ts) = h}

\* A raw sample is only ever discarded once the hour it belongs to has been summarized from every
\* sample it had ("a row must be summarized before it can be discarded"), whatever flushes,
\* failures, crashes and restarts came between (run_maintenance).
PrunedIsSummarized ==
  \A s \in rCommitted \ rRaw :
    LET h == HourStart(s.ts) IN h \in DOMAIN rHourly /\ rHourly[h].n = Cardinality(OfHour(h))

\* Once an hour's row counts every sample of the hour, no later pass changes it: recomputation is
\* idempotent even when pruning has taken the samples around it (RECOMPUTE_MARGIN_MS).
CompleteHourIsFinal ==
  [][\A h \in DOMAIN rHourly :
       rHourly[h].n = Cardinality(OfHour(h)) /\ rCommitted' = rCommitted
         => rHourly'[h] = rHourly[h]]_rVars

\* Every message and every banded sample the service has counted is in the tables, in the
\* accumulator or in the write in flight, exactly once, through failed flushes and shed samples
\* (drain, restore, _buffer).  A process that ends with a write in flight starts the count anew.
CountedOnce ==
  rUp => /\ rHeard.messages = rLife + rDelta.messages + rFlush.delta.messages
         /\ rHeard.cells = AddCells(rCells, rDelta.cells)

\* The daily rows that can still be derived are keyed under the zone the pass ran in, with no row
\* left over from another zone, once a pass has written its summaries (_adopt_zone, _recompute).
DailyInOneZone ==
  rMaint.pc = "prune" /\ ~rMissed =>
    \A d \in DOMAIN rDaily :
      DayStart(d, rMaint.zone) >= FrozenBefore(rMaint.now)
        => \E s \in rCommitted : LocalDay(s.ts, rMaint.zone) = d

\* A clean stop loses no lifetime total ("a clean shutdown that dropped them would lose totals a
\* restart cannot rebuild"): what was observed before it is in the table after it.
StopKeepsLifetime ==
  [][\A committed \in BOOLEAN : StopMetrics(committed) => rLife' = rHeard.messages]_rVars

\* What the metrics service promises in every state: nothing is pruned before it is summarized,
\* nothing is counted twice or lost on the way to the tables, and daily rows follow one zone.
MetricsInvariant ==
  /\ MetricsTypeOK
  /\ PrunedIsSummarized
  /\ CountedOnce
  /\ DailyInOneZone
=============================================================================
