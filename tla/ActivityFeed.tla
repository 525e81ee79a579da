---------------------------- MODULE ActivityFeed -----------------------------
(***************************************************************************)
(* The activity feed (activity/service.py, producers.py, repository.py):   *)
(* one detection pass at a time turns new sightings (found by a durable    *)
(* watermark), closes, lifetime records and facts handed over in memory    *)
(* (alert matches, imports, feeder, health and self-alert episodes) into   *)
(* events with a unique dedupe key, and broadcasts the ones that were new. *)
(*                                                                         *)
(* An event is its dedupe key: <<type, ...>>.  Facts of the five in-memory *)
(* kinds share one treatment and are numbered.                             *)
(***************************************************************************)
EXTENDS Integers, Sequences, FiniteSets, FiniteSetsExt

CONSTANTS Airframes, Type, Military,     \* airframes, their type codes, the military ones
          Thresholds, ScanLimit,         \* unique-airframe milestones; DEFAULT_SCAN_LIMIT
          MaxSeen, MaxLength, MaxRange, MaxGiven, MaxFeedEnds, MaxFeedFaults   \* bounds

ASSUME FeedConstants ==
  /\ Type \in [Airframes -> STRING] /\ Military \subseteq Airframes /\ ScanLimit \in Nat \ {0}
  /\ Thresholds \subseteq Nat
  /\ {MaxSeen, MaxLength, MaxRange, MaxGiven, MaxFeedEnds, MaxFeedFaults} \subseteq Nat

VARIABLES
  dSeen,        \* sightings by id: [frame, length]; length 0 while open
  dImported,    \* the metadata datasets have been imported
  dRange,       \* lifetime_stats max_range
  dMark,        \* meta: the scan watermark, -1 before the first boot
  dFeed, dMiles,\* activity_events (dedupe keys) and milestones
  dUp, dPc,     \* "off", "idle", "read", "write", "mark", "publish"
  dFinal,       \* the pass under way is stop's last one
  dAt, dLongest, dReach, dClaimed,   \* _watermark, _longest, _records, _milestones
  dClosed, dFacts,                   \* pending closes and facts
  dPass,        \* locals of flush across its awaits
  dGiven,       \* facts handed over so far
  dShown,       \* history: events broadcast
  dLost,        \* history: facts in memory when the process died or a pass was cancelled
  dSilent,      \* history: events written by a pass that did not reach its broadcast
  dFrom,        \* history: the watermark of the first boot
  dBudget

dVars == <<dSeen, dImported, dRange, dMark, dFeed, dMiles, dUp, dPc, dFinal, dAt, dLongest, dReach,
           dClaimed, dClosed, dFacts, dPass, dGiven, dShown, dLost, dSilent, dFrom, dBudget>>
dWorld  == <<dSeen, dImported, dRange>>
dMemory == <<dAt, dLongest, dReach, dClaimed>>
dPast   == <<dShown, dLost, dSilent, dFrom>>

NoBatch  == [events |-> {}, miles |-> {}]
NoPass   == [closed |-> {}, facts |-> {}, batch |-> NoBatch, at |-> 0, reach |-> 0, longest |-> 0, made |-> {}]
Ids      == DOMAIN dSeen
Length(i) == IF i = 0 THEN 0 ELSE dSeen[i].length
Join(b, c) == [events |-> b.events \cup c.events, miles |-> b.miles \cup c.miles]

(* ------------------------------- the world ------------------------------ *)

\* The persistence worker commits a new sighting, or closes one and says so to its listeners.
NewSighting ==
  /\ Len(dSeen) < MaxSeen
  /\ \E f \in Airframes : dSeen' = Append(dSeen, [frame |-> f, length |-> 0])
  /\ UNCHANGED <<dImported, dRange, dMark, dFeed, dMiles, dUp, dPc, dFinal, dMemory, dClosed, dFacts, dPass,
                 dGiven, dPast, dBudget>>

\* record_lifecycle, while subscribed.  The producers are stopped before the feed is (app.py's exit stack).
RecordLifecycle(i) ==
  /\ dSeen[i].length = 0 /\ ~dFinal
  /\ \E n \in 1 .. MaxLength : dSeen' = [dSeen EXCEPT ![i].length = n]
  /\ dClosed' = IF dUp THEN dClosed \cup {i} ELSE dClosed
  /\ UNCHANGED <<dImported, dRange, dMark, dFeed, dMiles, dUp, dPc, dFinal, dMemory, dFacts, dPass, dGiven,
                 dPast, dBudget>>

\* record_import, record_alert_matches, record_feeder_episode, record_self_alert, and _observe_health's
\* episode: a fact joins the pending ones.
RecordFact ==
  /\ dUp /\ ~dFinal /\ dGiven < MaxGiven
  /\ dGiven' = dGiven + 1
  /\ dFacts' = dFacts \cup {dGiven + 1}
  /\ UNCHANGED <<dWorld, dMark, dFeed, dMiles, dUp, dPc, dFinal, dMemory, dClosed, dPass, dPast, dBudget>>

\* An import fills in types and classifications; a metrics flush sets a new range record.
WorldMoves ==
  /\ \/ ~dImported /\ dImported' = TRUE /\ UNCHANGED dRange
     \/ dRange < MaxRange /\ dRange' = dRange + 1 /\ UNCHANGED dImported
  /\ UNCHANGED <<dSeen, dMark, dFeed, dMiles, dUp, dPc, dFinal, dMemory, dClosed, dFacts, dPass, dGiven,
                 dPast, dBudget>>

(* ------------------------------- producers ------------------------------ *)

\* _first_sightings: the earliest sighting of its airframe.
FirstEver(i) == \A j \in Ids : dSeen[j].frame = dSeen[i].frame => i <= j

\* _aircraft_ranks: how many airframes had been heard by then.
RankOf(i) == Cardinality({dSeen[j].frame : j \in {k \in Ids : k <= i}})

\* _type_pioneers: no airframe of the type was heard earlier.
FirstOfType(i) ==
  FirstEver(i) /\ \A j \in Ids : Type[dSeen[j].frame] = Type[dSeen[i].frame] => i <= j

\* first_ever_events
FirstEverEvents(fresh) ==
  LET new   == {i \in fresh : FirstEver(i)}
      keys  == {<<"unique", RankOf(i)>> : i \in {j \in new : RankOf(j) \in Thresholds}}
  IN  [events |-> {<<"first", dSeen[i].frame>> : i \in new} \cup keys, miles |-> keys]

\* new_type_events: the airframe's type must be known.
NewTypeEvents(fresh) ==
  LET keys == {<<"type", Type[dSeen[i].frame]>> : i \in {j \in fresh : dImported /\ FirstOfType(j)}}
  IN  [events |-> keys, miles |-> keys]

\* _military_due and military_milestone: an unclaimed milestone, and a military airframe in this pass.
MilitaryMilestone(seen) ==
  IF dImported /\ <<"military">> \notin dClaimed /\ \E i \in seen : dSeen[i].frame \in Military
    THEN [events |-> {<<"military">>}, miles |-> {<<"military">>}] ELSE NoBatch

\* best_closed: ties keep the standing record; 0 is no record yet.
BestClosed(previous, seen) ==
  LET best == Max({Length(previous)} \cup {Length(i) : i \in seen})
  IN  IF best = Length(previous) THEN previous ELSE Min({i \in seen : Length(i) = best})

\* longest_sighting_event: one at most, and none without a record to beat.
LongestEvent(previous, seen) ==
  IF previous = 0 \/ BestClosed(previous, seen) = previous THEN NoBatch
    ELSE [events |-> {<<"longest", BestClosed(previous, seen)>>}, miles |-> {}]

\* record_events with _improvement, for the range record.
RecordEvents(previous, current) ==
  IF previous = 0 \/ current <= previous THEN NoBatch
    ELSE [events |-> {<<"range", current>>}, miles |-> {}]

\* alert_events, import_events, health_events, feeder_health_events, self_alert_events.
FactEvents(facts) == [events |-> {<<"fact", f>> : f \in facts}, miles |-> {}]

\* _detect: every producer, merged.
Detect(seen) ==
  LET fresh == {i \in seen : i > dAt}
      done  == {i \in seen : Length(i) > 0}
  IN  Join(Join(Join(FirstEverEvents(fresh), NewTypeEvents(fresh)),
                Join(LongestEvent(dLongest, done), RecordEvents(dReach, dRange))),
           Join(FactEvents(dPass.facts), MilitaryMilestone(seen)))

(* ------------------------------- one pass ------------------------------- *)

\* flush up to its first read: pending work is drained.
PassBegin ==
  /\ dUp /\ dPc = "idle"
  /\ dFinal \/ dClosed # {} \/ dFacts # {} \/ Len(dSeen) > dAt \/ dRange # dReach    \* otherwise it changes nothing
  /\ dPass' = [NoPass EXCEPT !.closed = dClosed, !.facts = dFacts]
  /\ dClosed' = {} /\ dFacts' = {}
  /\ dPc' = "read"
  /\ UNCHANGED <<dWorld, dMark, dFeed, dMiles, dUp, dFinal, dMemory, dGiven, dPast, dBudget>>

\* Mutant: the newest ids are read, so that a backlog longer than the limit is skipped.
ScannedNewest == {i \in Ids : i > dAt /\ i > Len(dSeen) - ScanLimit}

\* sighting_ids_after: the oldest ids past the watermark, a limited number of them.
Scanned == {i \in Ids : i > dAt /\ i <= dAt + ScanLimit}

\* The reads and _detect.
PassRead ==
  LET scanned == Scanned
      seen    == scanned \cup dPass.closed
  IN  /\ dPc = "read"
      /\ dPass' = [dPass EXCEPT !.batch = Detect(seen), !.at = Max({dAt} \cup scanned), !.reach = dRange,
                                !.longest = BestClosed(dLongest, {i \in seen : Length(i) > 0})]
      /\ dPc' = "write"
      /\ UNCHANGED <<dWorld, dMark, dFeed, dMiles, dUp, dFinal, dMemory, dClosed, dFacts, dGiven, dPast, dBudget>>

\* Mutant: everything in the batch is returned, new or not.
NewRowsAll(events) == events

\* record: ON CONFLICT DO NOTHING on the dedupe key, returning the rows that were new.
NewRows(events) == events \ dFeed

\* record commits: milestones and events in one transaction.
PassWrite ==
  /\ dPc = "write"
  /\ dFeed' = dFeed \cup dPass.batch.events
  /\ dMiles' = dMiles \cup dPass.batch.miles
  /\ dPass' = [dPass EXCEPT !.made = NewRows(dPass.batch.events)]
  /\ dPc' = IF dPass.at = dAt THEN "publish" ELSE "mark"
  /\ UNCHANGED <<dWorld, dMark, dUp, dFinal, dMemory, dClosed, dFacts, dGiven, dPast, dBudget>>

\* The watermark is written, in a transaction of its own.
PassMark ==
  /\ dPc = "mark"
  /\ dMark' = dPass.at
  /\ dPc' = "publish"
  /\ UNCHANGED <<dWorld, dFeed, dMiles, dUp, dFinal, dMemory, dClosed, dFacts, dPass, dGiven, dPast, dBudget>>

\* Where a pass leaves the service: resting, or stopped after the last one.
AfterPass == /\ dPc' = IF dFinal THEN "off" ELSE "idle"
             /\ dUp' = ~dFinal /\ dFinal' = FALSE
             /\ dPass' = NoPass

\* Mutant: the baselines advance, but what was drained is not put back.
GiveBackNothing(pending, drained) == pending

\* flush's except: what was drained is pending again.
GiveBack(pending, drained) == pending \cup drained

\* Any await of the pass raises.
PassFails ==
  /\ dPc \in {"read", "write", "mark"}
  /\ dBudget.faults > 0 /\ dBudget' = [dBudget EXCEPT !.faults = @ - 1]
  /\ dClosed' = GiveBack(dClosed, dPass.closed) /\ dFacts' = GiveBack(dFacts, dPass.facts)
  /\ dSilent' = dSilent \cup dPass.made
  /\ dLost' = IF dFinal THEN dLost \cup dPass.facts ELSE dLost
  /\ AfterPass
  /\ UNCHANGED <<dWorld, dMark, dFeed, dMiles, dMemory, dGiven, dShown, dFrom>>

\* The baselines advance and the new events are broadcast (_publish).
PassPublish ==
  /\ dPc = "publish"
  /\ dAt' = dPass.at /\ dReach' = dPass.reach /\ dLongest' = dPass.longest
  /\ dClaimed' = dClaimed \cup dPass.batch.miles
  /\ dShown' = dShown \cup dPass.made
  /\ AfterPass
  /\ UNCHANGED <<dWorld, dMark, dFeed, dMiles, dClosed, dFacts, dGiven, dLost, dSilent, dFrom, dBudget>>

(* ------------------------------- lifecycle ------------------------------ *)

\* stop: the task is cancelled at whichever await it is in, then one last pass is begun.
StopFeed ==
  /\ dUp /\ dPc \in {"idle", "read", "write", "mark"} /\ ~dFinal
  /\ dBudget.ends > 0 /\ dBudget' = [dBudget EXCEPT !.ends = @ - 1]
  /\ dFinal' = TRUE /\ dPc' = "idle" /\ dPass' = NoPass
  /\ dLost' = dLost \cup dPass.facts
  /\ dSilent' = dSilent \cup dPass.made
  /\ UNCHANGED <<dWorld, dMark, dFeed, dMiles, dUp, dMemory, dClosed, dFacts, dGiven, dShown, dFrom>>

\* The process dies.
CrashFeed ==
  /\ dUp
  /\ dBudget.ends > 0 /\ dBudget' = [dBudget EXCEPT !.ends = @ - 1]
  /\ dUp' = FALSE /\ dFinal' = FALSE /\ dPc' = "off" /\ dPass' = NoPass
  /\ dClosed' = {} /\ dFacts' = {}
  /\ dLost' = dLost \cup dPass.facts \cup dFacts
  /\ dSilent' = dSilent \cup dPass.made
  /\ UNCHANGED <<dWorld, dMark, dFeed, dMiles, dMemory, dGiven, dShown, dFrom>>

\* Mutant: without a watermark the whole history is scanned.
FirstWatermarkZero == 0

\* _initial_watermark on a database that never ran the service: now.
FirstWatermark == Len(dSeen)

\* start: milestones, watermark, records and the longest sighting are read before the first pass.
StartFeed ==
  /\ ~dUp
  /\ dUp' = TRUE /\ dPc' = "idle"
  /\ dMark' = IF dMark = -1 THEN FirstWatermark ELSE dMark
  /\ dFrom' = IF dMark = -1 THEN Len(dSeen) ELSE dFrom
  /\ dAt' = dMark'
  /\ dClaimed' = dMiles
  /\ dReach' = dRange
  /\ dLongest' = BestClosed(0, {i \in Ids : Length(i) > 0})
  /\ dClosed' = {} /\ dFacts' = {}
  /\ UNCHANGED <<dWorld, dFeed, dMiles, dFinal, dPass, dGiven, dShown, dLost, dSilent, dBudget>>

FeedInit ==
  /\ dSeen = <<>> /\ dImported = FALSE /\ dRange = 0 /\ dMark = -1 /\ dFeed = {} /\ dMiles = {}
  /\ dUp = FALSE /\ dPc = "off" /\ dFinal = FALSE
  /\ dAt = 0 /\ dLongest = 0 /\ dReach = 0 /\ dClaimed = {} /\ dClosed = {} /\ dFacts = {} /\ dPass = NoPass
  /\ dGiven = 0 /\ dShown = {} /\ dLost = {} /\ dSilent = {} /\ dFrom = 0
  /\ dBudget = [ends |-> MaxFeedEnds, faults |-> MaxFeedFaults]

FeedNext ==
  \/ NewSighting \/ (\E i \in Ids : RecordLifecycle(i)) \/ RecordFact \/ WorldMoves
  \/ PassBegin \/ PassRead \/ PassWrite \/ PassMark \/ PassFails \/ PassPublish
  \/ StopFeed \/ CrashFeed \/ StartFeed

\* The loop wakes every flush interval, its awaits return, and a stopped service is started again.
FeedFairness ==
  /\ WF_dVars(PassBegin) /\ WF_dVars(PassRead) /\ WF_dVars(PassWrite) /\ WF_dVars(PassMark)
  /\ WF_dVars(PassPublish) /\ WF_dVars(StartFeed)

FeedSpec == FeedInit /\ [][FeedNext]_dVars /\ FeedFairness

(* ------------------------------ properties ------------------------------ *)

FeedTypeOK ==
  /\ dSeen \in Seq([frame : Airframes, length : 0 .. MaxLength]) /\ dPc \in {"off", "idle", "read", "write", "mark", "publish"}
  /\ dMark \in -1 .. MaxSeen /\ dAt \in 0 .. MaxSeen /\ dLongest \in 0 .. MaxSeen /\ dReach \in 0 .. MaxRange
  /\ dClosed \subseteq Ids /\ dFacts \subseteq 1 .. MaxGiven

\* No event is broadcast twice, whatever was retried, rescanned or restarted ("a pass that re-derived
\* facts it had already recorded returns an empty tuple and says nothing", record).
PublishedOnce == [][dPc = "publish" /\ dPc' # dPc => dPass.made \cap dShown = {}]_dVars

\* What the durable watermark has passed is in the feed: a first-ever airframe and a crossed threshold
\* are never skipped by a crash between the two transactions (record, then SCAN_WATERMARK_KEY).
ScannedIsInFeed ==
  \A i \in Ids : dFrom < i /\ i <= dMark /\ FirstEver(i) =>
    /\ <<"first", dSeen[i].frame>> \in dFeed
    /\ RankOf(i) \in Thresholds => <<"unique", RankOf(i)>> \in dFeed

\* Nothing older than the first boot is narrated.
HistoryIsNotNews == \A i \in Ids : i <= dFrom /\ FirstEver(i) => <<"first", dSeen[i].frame>> \notin dFeed

\* A milestone and the event announcing it stand or fall together, and memory never claims one that is
\* not on disk.
MilestoneHasEvent == dMiles \subseteq dFeed /\ (dUp => dClaimed \subseteq dMiles)

\* A fact handed over is pending, in the pass under way or in the feed, unless memory died under it.
FactsKept ==
  \A f \in 1 .. dGiven : f \in dFacts \cup dPass.facts \cup dLost \/ <<"fact", f>> \in dFeed

\* An event in the feed has been broadcast once the service rests, unless its pass was cut short after
\* the commit: a failing watermark write silences events for good.
RecordedIsShown == dUp /\ dPc = "idle" => dFeed = dShown \cup dSilent

\* A sighting of an airframe never heard before reaches the feed, however many passes fail.
NewAirframeIsAnnounced ==
  \A i \in 1 .. MaxSeen :
    (i \in Ids /\ dFrom < i /\ dMark # -1 /\ FirstEver(i))
      ~> (i \in Ids /\ <<"first", dSeen[i].frame>> \in dFeed)

\* What the feed promises in every state, through failed passes, crashes and restarts.
FeedInvariant ==
  /\ FeedTypeOK
  /\ ScannedIsInFeed
  /\ HistoryIsNotNews
  /\ MilestoneHasEvent
  /\ FactsKept
  /\ RecordedIsShown
=============================================================================
