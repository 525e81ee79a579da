---------------------------- MODULE FeederMonitor ----------------------------
(***************************************************************************)
(* The feeder service (feeders/service.py) and its two tables              *)
(* (feeders/repository.py): a poll loop that debounces what the probes     *)
(* read, the timeline of episodes each feeder leaves behind, the shielded  *)
(* batch writes that make it durable, a settings save that hot-applies     *)
(* while a poll or a write is in flight, and stops, crashes and restarts.  *)
(* A probe result is abstracted to the state it reads.                     *)
(***************************************************************************)
EXTENDS Integers, FiniteSets, Sequences, SequencesExt

CONSTANTS Feeders,        \* names an entry may have
          Readings,       \* what a probe may report: subset of FeederState
          DownDebounce,   \* DOWN_DEBOUNCE_POLLS
          SampleEvery, FlushEvery, KeepFor,   \* cadences and retention, in ticks
          MaxPending,     \* MAX_PENDING_SAMPLES
          MaxFeederClock, \* bound: ticks
          MaxCrashes, MaxFeederFaults, MaxSaves   \* bounds: crashes, failed database calls, settings saves

ASSUME FeederConstants ==
  /\ IsFiniteSet(Feeders) /\ Readings \subseteq {"up", "degraded", "down", "unknown"}
  /\ {DownDebounce, SampleEvery, FlushEvery, KeepFor, MaxPending, MaxFeederClock} \subseteq Nat \ {0}

VARIABLES
  fClock,                 \* the service clock, 1 at the first start
  fUp,                    \* a process is running the service
  fTracker,               \* _trackers: configured feeder -> its mutable state
  fPoll,                  \* the poll loop: [pc, now, names]
  fOrphan,                \* trackers removed from _trackers while a poll still holds them
  fSamplesQ, fEpisodesQ,  \* _pending_samples, _pending_episodes
  fFlush,                 \* the flush calls in progress, one per caller
  fLastFlush,             \* _last_flush_ms
  fRows, fSamples,        \* tables feeder_episodes and feeder_samples
  fBudget,                \* crashes, faults and saves left
  fFacts,                 \* history: outage facts handed to on_transition
  fOutage,                \* history: the outage each feeder is really in, by its start
  fLastGood,              \* history: when each feeder last read anything but down in this process
  fLate                   \* history: feeders whose timeline a late result or unread rows spoiled

fVars == <<fClock, fUp, fTracker, fPoll, fOrphan, fSamplesQ, fEpisodesQ, fFlush, fLastFlush,
           fRows, fSamples, fBudget, fFacts, fOutage, fLastGood, fLate>>
fHistory == <<fFacts, fOutage, fLastGood, fLate>>

NoTime    == 0
Available == {"up", "degraded"}
Callers   == {"poll", "apply"}
NoFlush   == [pc |-> "none", cancelled |-> FALSE, samples |-> <<>>, episodes |-> <<>>]
Idle      == [pc |-> "idle", now |-> NoTime, names |-> {}]
Later(s, t) == IF s < t THEN t ELSE s
Without(fn, keys) == [k \in DOMAIN fn \ keys |-> fn[k]]

\* What assigning the items of one dict to another leaves, and what record's upsert leaves of the rows.
Upsert(new, held) == [k \in DOMAIN new \cup DOMAIN held |-> IF k \in DOMAIN new THEN new[k] ELSE held[k]]

\* One episode of feeder f, under the start it is keyed by.
Episode(f, at, state, ended) == [k \in {<<f, at>>} |-> [state |-> state, ended |-> ended]]

\* A tracker as _configure builds it.
NewTracker == [state |-> "unknown", started |-> NoTime, held |-> 0, firstDown |-> NoTime,
               outage |-> NoTime, lastSample |-> NoTime]

\* Mutant of CloseEpisode: an outage is left open.
CloseEpisodeUnlessDown(f, t, ended) ==
  IF t.started = NoTime \/ t.state = "down" THEN <<>>
  ELSE Episode(f, t.started, t.state, Later(t.started, ended))

\* _close_episode: the row the open episode becomes, if one is open.
CloseEpisode(f, t, ended) ==
  IF t.started = NoTime THEN <<>>
  ELSE Episode(f, t.started, t.state, Later(t.started, ended))

\* _announce, which hands on_transition the outage's own start.
Announce(f, offline, since) == [feeder |-> f, offline |-> offline, since |-> since]

\* _transition: close the current episode, open the next, announce outages only.
Transition(f, t, state, at) ==
  LET begins == state = "down" /\ t.outage = NoTime
      ends   == state \in Available /\ t.outage # NoTime
  IN  [tracker |-> [t EXCEPT !.state = state, !.started = at,
                             !.outage = IF begins THEN at ELSE IF ends THEN NoTime ELSE @],
       rows    |-> Upsert(Episode(f, at, state, NoTime), CloseEpisode(f, t, at)),
       facts   |-> (IF begins THEN {Announce(f, TRUE, at)} ELSE {})
                     \cup (IF ends THEN {Announce(f, FALSE, t.outage)} ELSE {})]

\* Mutant of Debounce: only a good reading ends a run of downs, so an unknown in between does not.
DebounceThroughUnknown(t, reading, now) ==
  IF reading = "down" /\ t.state # "down"
  THEN [t EXCEPT !.firstDown = IF t.held = 0 THEN now ELSE @, !.held = @ + 1]
  ELSE IF reading \in Available THEN [t EXCEPT !.held = 0, !.firstDown = NoTime] ELSE t

\* The debounce of _apply: a run of down readings is held back until it is long enough.
Debounce(t, reading, now) ==
  IF reading = "down" /\ t.state # "down"
  THEN [t EXCEPT !.firstDown = IF t.held = 0 THEN now ELSE @, !.held = @ + 1]
  ELSE [t EXCEPT !.held = 0, !.firstDown = NoTime]

\* _apply: what one probe result does to its tracker, the timeline and the samples.
ApplyResult(f, t, reading, now) ==
  LET d         == Debounce(t, reading, now)
      committed == IF d.held \in 1 .. DownDebounce - 1 THEN t.state ELSE reading
      at        == IF committed = "down" /\ d.firstDown # NoTime THEN d.firstDown ELSE now
      moved     == IF t.started = NoTime \/ committed # t.state
                   THEN Transition(f, d, committed, at)
                   ELSE [tracker |-> d, rows |-> <<>>, facts |-> {}]
      due       == t.lastSample = NoTime \/ now - t.lastSample >= SampleEvery
  IN  [tracker |-> [moved.tracker EXCEPT !.lastSample = IF due THEN now ELSE @],
       rows    |-> moved.rows,
       facts   |-> moved.facts,
       samples |-> IF due THEN {[feeder |-> f, ts |-> now]} ELSE {}]

\* _buffer: the oldest samples are shed past the cap.
Buffer(q, s) == LET all == q \o s IN SubSeq(all, Later(1, Len(all) - MaxPending + 1), Len(all))

\* _flush_due
FlushDue(episodes, now) ==
  \/ DOMAIN episodes # {}
  \/ fLastFlush # NoTime /\ now - fLastFlush >= FlushEvery

\* flush, up to its first await: the snapshot taken, behind the other caller's write if one runs.
BeginFlush(who, samples, episodes) ==
  LET other == CHOOSE c \in Callers : c # who
  IN  IF samples = <<>> /\ DOMAIN episodes = {} THEN NoFlush
      ELSE [pc |-> IF fFlush[other].pc = "write" THEN "wait" ELSE "write", cancelled |-> FALSE,
            samples |-> samples, episodes |-> episodes]

FeederInit ==
  /\ fClock = 1 /\ fUp = FALSE /\ fTracker \in {[f \in c |-> NewTracker] : c \in SUBSET Feeders}
  /\ fPoll = Idle /\ fOrphan = <<>> /\ fSamplesQ = <<>> /\ fEpisodesQ = <<>>
  /\ fFlush = [c \in Callers |-> NoFlush] /\ fLastFlush = NoTime
  /\ fRows = <<>> /\ fSamples = {}
  /\ fBudget = [crashes |-> MaxCrashes, faults |-> MaxFeederFaults, saves |-> MaxSaves]
  /\ fFacts = {} /\ fOutage = [f \in Feeders |-> NoTime]
  /\ fLastGood = [f \in Feeders |-> NoTime] /\ fLate = {}

FeederTick ==
  /\ fClock < MaxFeederClock
  /\ fClock' = fClock + 1
  /\ UNCHANGED <<fUp, fTracker, fPoll, fOrphan, fSamplesQ, fEpisodesQ, fFlush, fLastFlush, fRows,
                 fSamples, fBudget, fHistory>>

\* poll_once, up to the gather: the trackers and the instant are fixed before the probes answer.
PollBegin ==
  /\ fUp /\ DOMAIN fTracker # {} /\ fPoll.pc = "idle" /\ fPoll.now < fClock
  /\ fPoll' = [pc |-> "probing", now |-> fClock, names |-> DOMAIN fTracker]
  /\ fOrphan' = <<>>
  /\ UNCHANGED <<fClock, fUp, fTracker, fSamplesQ, fEpisodesQ, fFlush, fLastFlush, fRows, fSamples,
                 fBudget, fHistory>>

\* poll_once, from the gather: every result is applied to the tracker the poll captured.  A write
\* that a cancelled loop left behind has settled by then: a flush of this poll would wait for it.
PollApply ==
  /\ fUp /\ fPoll.pc = "probing" /\ fFlush["poll"].pc = "none"
  /\ \E reading \in [fPoll.names -> Readings] :
       LET held(f)   == IF f \in DOMAIN fOrphan THEN fOrphan[f] ELSE fTracker[f]
           r         == [f \in fPoll.names |-> ApplyResult(f, held(f), reading[f], fPoll.now)]
           rows      == [k \in UNION {DOMAIN r[f].rows : f \in fPoll.names} |-> r[k[1]].rows[k]]
           samples   == Buffer(fSamplesQ, SetToSeq(UNION {r[f].samples : f \in fPoll.names}))
           episodes  == Upsert(rows, fEpisodesQ)
           due       == FlushDue(episodes, fPoll.now)
           flush     == IF due THEN BeginFlush("poll", samples, episodes) ELSE NoFlush
       IN  /\ fTracker' = [f \in DOMAIN fTracker |->
                             IF f \in fPoll.names \ DOMAIN fOrphan THEN r[f].tracker ELSE fTracker[f]]
           /\ fSamplesQ' = samples
           /\ fEpisodesQ' = episodes
           /\ fFlush' = [fFlush EXCEPT !["poll"] = flush]
           /\ fPoll' = [fPoll EXCEPT !.pc = IF flush.pc = "none" THEN "idle" ELSE "flushing"]
           /\ fLastFlush' = IF fLastFlush = NoTime /\ DOMAIN episodes = {} THEN fPoll.now ELSE fLastFlush
           /\ fFacts' = fFacts \cup UNION {r[f].facts : f \in fPoll.names}
           /\ fOutage' = [f \in Feeders |->
                IF f \notin fPoll.names \ DOMAIN fOrphan THEN fOutage[f]
                ELSE IF reading[f] \in Available THEN NoTime
                ELSE IF r[f].tracker.state = "down" /\ fOutage[f] = NoTime THEN r[f].tracker.started
                ELSE fOutage[f]]
           /\ fLastGood' = [f \in Feeders |-> IF f \in fPoll.names /\ reading[f] # "down"
                                              THEN fPoll.now ELSE fLastGood[f]]
           /\ fLate' = fLate \cup (fPoll.names \cap DOMAIN fOrphan)
  /\ fOrphan' = <<>>
  /\ UNCHANGED <<fClock, fUp, fRows, fSamples, fBudget>>

\* flush, after its write: what was written leaves the queues, unless the caller was cancelled
\* meanwhile.  A failed write is kept for the next flush, and fails the caller waiting behind it.
WriteDone(who, ok) ==
  LET w     == fFlush[who]
      other == CHOOSE c \in Callers : c # who
      next  == IF fFlush[other].pc # "wait" THEN fFlush[other]
               ELSE IF ok \/ w.cancelled THEN [fFlush[other] EXCEPT !.pc = "write"] ELSE NoFlush
      same  == {k \in DOMAIN w.episodes \cap DOMAIN fEpisodesQ : fEpisodesQ[k] = w.episodes[k]}
  IN  /\ w.pc = "write"
      /\ fFlush' = [fFlush EXCEPT ![who] = NoFlush, ![other] = next]
      /\ fPoll' = IF fPoll.pc = "flushing" /\ fFlush'["poll"].pc = "none"
                  THEN [fPoll EXCEPT !.pc = "idle"] ELSE fPoll
      /\ IF ok
         THEN /\ fRows' = Upsert(w.episodes, fRows)
              /\ fSamples' = fSamples \cup Range(w.samples)
              /\ UNCHANGED fBudget
         ELSE /\ fBudget.faults > 0
              /\ fBudget' = [fBudget EXCEPT !.faults = @ - 1]
              /\ UNCHANGED <<fRows, fSamples>>
      /\ IF ok /\ ~w.cancelled
         THEN /\ fSamplesQ' = SubSeq(fSamplesQ, Len(w.samples) + 1, Len(fSamplesQ))
              /\ fEpisodesQ' = Without(fEpisodesQ, same)
              /\ fLastFlush' = fClock
         ELSE UNCHANGED <<fSamplesQ, fEpisodesQ, fLastFlush>>
      /\ UNCHANGED <<fClock, fUp, fTracker, fOrphan, fHistory>>

\* _cancel_tasks on a flush in progress: a waiter goes, a write goes on shielded.
CancelFlush(w) == IF w.pc = "write" THEN [w EXCEPT !.cancelled = TRUE] ELSE NoFlush

\* apply_settings with _configure: survivors keep their tracker, removed feeders have their episode
\* closed, the last one's removal cancels the poll loop, and episode changes are flushed at once.
ApplySettings(names) ==
  LET removed  == DOMAIN fTracker \ names
      closed   == [k \in UNION {DOMAIN CloseEpisode(f, fTracker[f], fClock) : f \in removed} |->
                     CloseEpisode(k[1], fTracker[k[1]], fClock)[k]]
      episodes == Upsert(closed, fEpisodesQ)
      poll     == IF names = {} THEN CancelFlush(fFlush["poll"]) ELSE fFlush["poll"]
      probing  == fPoll.pc = "probing" /\ names # {}
  IN  /\ fUp /\ fBudget.saves > 0 /\ fFlush["apply"].pc = "none" /\ names # DOMAIN fTracker
      /\ fTracker' = [f \in names |-> IF f \in DOMAIN fTracker THEN fTracker[f] ELSE NewTracker]
      /\ fEpisodesQ' = episodes
      /\ fFlush' = [fFlush EXCEPT !["poll"]  = poll,
                                  !["apply"] = IF DOMAIN episodes = {} THEN NoFlush
                                               ELSE BeginFlush("apply", fSamplesQ, episodes)]
      /\ fPoll' = IF names = {} THEN [fPoll EXCEPT !.pc = "idle", !.names = {}] ELSE fPoll
      /\ fOrphan' = IF ~probing THEN <<>>
                    ELSE [f \in (removed \cap fPoll.names) \cup DOMAIN fOrphan |->
                            IF f \in DOMAIN fOrphan THEN fOrphan[f]
                            ELSE [fTracker[f] EXCEPT !.started = NoTime]]
      /\ fBudget' = [fBudget EXCEPT !.saves = @ - 1]
      /\ fOutage' = [f \in Feeders |-> IF f \in removed THEN NoTime ELSE fOutage[f]]
      /\ UNCHANGED <<fClock, fUp, fSamplesQ, fLastFlush, fRows, fSamples, fFacts, fLastGood, fLate>>

\* What the next process starts from: the configured names, and nothing in memory.
Forget ==
  /\ fUp' = FALSE
  /\ fTracker' = [f \in DOMAIN fTracker |-> NewTracker]
  /\ fPoll' = [Idle EXCEPT !.now = fPoll.now] /\ fOrphan' = <<>>
  /\ fSamplesQ' = <<>> /\ fEpisodesQ' = <<>>
  /\ fFlush' = [c \in Callers |-> NoFlush] /\ fLastFlush' = NoTime
  /\ fLastGood' = [f \in Feeders |-> NoTime]

\* stop: the write in flight settles, every episode but an outage is closed, and the rest is
\* flushed.  Either write may fail; no request is being served any more.
StopFeeders(settled, final) ==
  LET w       == fFlush["poll"]
      first   == IF w.pc = "write" /\ settled THEN w ELSE NoFlush
      closing == {f \in DOMAIN fTracker : fTracker[f].state # "down"}
      closed  == [k \in UNION {DOMAIN CloseEpisode(f, fTracker[f], fClock) : f \in closing} |->
                    CloseEpisode(k[1], fTracker[k[1]], fClock)[k]]
  IN  /\ fUp /\ fFlush["apply"].pc = "none"
      /\ (settled /\ final) \/ fBudget.faults > 0
      /\ fBudget' = [fBudget EXCEPT !.faults = IF settled /\ final THEN @ ELSE @ - 1]
      /\ fRows' = IF final THEN Upsert(Upsert(closed, fEpisodesQ), Upsert(first.episodes, fRows))
                            ELSE Upsert(first.episodes, fRows)
      /\ fSamples' = fSamples \cup Range(first.samples) \cup (IF final THEN Range(fSamplesQ) ELSE {})
      /\ Forget
      /\ UNCHANGED <<fClock, fFacts, fOutage, fLate>>

\* An unclean stop: a write in flight either committed or did not.
CrashFeeders ==
  /\ fUp /\ fBudget.crashes > 0
  /\ fBudget' = [fBudget EXCEPT !.crashes = @ - 1]
  /\ \/ UNCHANGED <<fRows, fSamples>>
     \/ \E c \in Callers : /\ fFlush[c].pc = "write"
                            /\ fRows' = Upsert(fFlush[c].episodes, fRows)
                            /\ fSamples' = fSamples \cup Range(fFlush[c].samples)
  /\ Forget
  /\ UNCHANGED <<fClock, fFacts, fOutage, fLate>>

OpenRows(rows, f) == {k \in DOMAIN rows : k[1] = f /\ rows[k].ended = NoTime}
Newest(keys)      == CHOOSE k \in keys : \A l \in keys : l[2] <= k[2]

\* close_dangling: rows nobody resumes end where the old process last saw the feeder; those of
\* a feeder no longer configured end now.
CloseDangling(keep, removed) ==
  [k \in DOMAIN fRows |->
     IF fRows[k].ended # NoTime \/ k \in keep THEN fRows[k]
     ELSE LET seen == {s.ts : s \in {s \in fSamples : s.feeder = k[1] /\ s.ts >= k[2]}}
              last == IF seen = {} THEN k[2] ELSE CHOOSE t \in seen : \A u \in seen : u <= t
          IN  [fRows[k] EXCEPT !.ended = IF k[1] \in removed THEN Later(k[2], fClock)
                                         ELSE IF last < fClock THEN last ELSE fClock]]

\* start with _resume_outages: a configured feeder whose newest open row is an outage resumes it
\* silently; everything else still open is closed.  Either database call may fail.
StartFeeders(outcome) ==
  LET newest  == {Newest(OpenRows(fRows, f)) : f \in {g \in Feeders : OpenRows(fRows, g) # {}}}
      keep    == {k \in newest : k[1] \in DOMAIN fTracker /\ fRows[k].state = "down"}
      removed == {k[1] : k \in newest} \ DOMAIN fTracker
  IN  /\ ~fUp
      /\ outcome = "ok" \/ fBudget.faults > 0
      /\ fBudget' = [fBudget EXCEPT !.faults = IF outcome = "ok" THEN @ ELSE @ - 1]
      /\ fUp' = TRUE
      /\ fTracker' = [f \in DOMAIN fTracker |->
            IF outcome = "unread" \/ ~\E k \in keep : k[1] = f THEN NewTracker
            ELSE LET since == (CHOOSE k \in keep : k[1] = f)[2]
                 IN  [NewTracker EXCEPT !.state = "down", !.started = since, !.outage = since]]
      /\ fRows' = IF outcome = "ok" THEN CloseDangling(keep, removed) ELSE fRows
      /\ fLate' = IF outcome = "ok" THEN fLate ELSE fLate \cup {k[1] : k \in newest}
      /\ UNCHANGED <<fClock, fPoll, fOrphan, fSamplesQ, fEpisodesQ, fFlush, fLastFlush, fSamples,
                     fFacts, fOutage, fLastGood>>

\* run_maintenance: prune expired samples and closed episodes.
MaintainFeeders ==
  LET expired == {k \in DOMAIN fRows : fRows[k].ended # NoTime /\ fRows[k].ended < fClock - KeepFor}
      old     == {s \in fSamples : s.ts < fClock - KeepFor}
  IN  /\ fUp /\ (expired # {} \/ old # {})
      /\ fRows' = Without(fRows, expired)
      /\ fSamples' = fSamples \ old
      /\ UNCHANGED <<fClock, fUp, fTracker, fPoll, fOrphan, fSamplesQ, fEpisodesQ, fFlush, fLastFlush,
                     fBudget, fHistory>>

FeederNext ==
  \/ FeederTick \/ PollBegin \/ PollApply \/ CrashFeeders \/ MaintainFeeders
  \/ \E who \in Callers, ok \in BOOLEAN : WriteDone(who, ok)
  \/ \E names \in SUBSET Feeders : ApplySettings(names)
  \/ \E settled, final \in BOOLEAN : StopFeeders(settled, final)
  \/ \E outcome \in {"ok", "unread", "unclosed"} : StartFeeders(outcome)

FeederSpec == FeederInit /\ [][FeederNext]_fVars

(* ------------------------------ properties ------------------------------ *)

FeederTypeOK ==
  /\ fClock \in 1 .. MaxFeederClock /\ fUp \in BOOLEAN
  /\ DOMAIN fTracker \subseteq Feeders /\ DOMAIN fOrphan \subseteq Feeders
  /\ \A f \in DOMAIN fTracker :
       fTracker[f] \in [state : Readings \cup {"unknown"}, started : 0 .. MaxFeederClock,
                        held : 0 .. DownDebounce, firstDown : 0 .. MaxFeederClock,
                        outage : 0 .. MaxFeederClock, lastSample : 0 .. MaxFeederClock]
  /\ Len(fSamplesQ) <= MaxPending
  /\ \A c \in Callers : fFlush[c].pc \in {"none", "wait", "write"}
  /\ DOMAIN fRows \cup DOMAIN fEpisodesQ \subseteq Feeders \X (1 .. MaxFeederClock)

\* The timeline a reader of history() sees: stored rows with the unwritten ones over them.
Timeline == Upsert(fEpisodesQ, fRows)

\* The timeline of a configured feeder has exactly the open episode its tracker is in, and none
\* before its first poll, whatever mixture of polls, settings saves, failed writes and restarts
\* led here (_transition, _close_episode, flush, _resume_outages).  Feeders whose removal raced a
\* poll, and rows a failing database kept start() from closing, are excepted.
TimelineMatchesTracker ==
  fUp => \A f \in DOMAIN fTracker \ fLate :
    OpenRows(Timeline, f) = IF fTracker[f].started = NoTime THEN {}
                            ELSE {k \in DOMAIN Timeline : /\ k = <<f, fTracker[f].started>>
                                                         /\ Timeline[k].state = fTracker[f].state}

\* Two episodes of one feeder never overlap, restarts and close_dangling included.
EpisodesNeverOverlap ==
  \A k, l \in DOMAIN Timeline :
    k[1] = l[1] /\ k[2] < l[2] /\ k[1] \notin fLate /\ fUp
      => Timeline[k].ended # NoTime /\ Timeline[k].ended <= l[2]

\* A committed outage is dated from its first failing poll: nothing but down was read since, even
\* when the debounce run was interrupted before (_apply's held_downs and first_down_ms).
OutageDatedFromFirstFailure ==
  \A f \in DOMAIN fTracker :
    fTracker[f].state = "down" /\ fTracker[f].started # NoTime => fLastGood[f] < fTracker[f].started

\* A restore is only ever announced for an outage that was announced, by this process or by one
\* before it, and never dates the outage from before that announcement (_resume_outages).
Announced(f, since)   == \E x \in fFacts : x.feeder = f /\ x.offline /\ x.since <= since
RestoreFollowsOffline == \A x \in fFacts : ~x.offline => Announced(x.feeder, x.since)

\* What the module's own words say of it ("announces one feeder_restored with the original
\* since_ms", service.py:51): not so once an outage masked by unknown is resumed by a restart.
RestoreNamesItsOutage == \A x \in fFacts : ~x.offline => Announce(x.feeder, TRUE, x.since) \in fFacts

\* While a feeder stays in one outage, offline is announced once, however often the service is
\* stopped and started ("no second feeder_offline is ever sent for it").
OneOfflinePerOutage ==
  [][\A f \in Feeders : fOutage[f] # NoTime /\ fOutage'[f] # NoTime
        => \A x \in fFacts' \ fFacts : x.feeder = f => ~x.offline]_fVars

\* What the feeder service promises in every state: one open episode per configured feeder, episodes
\* that never overlap, outages dated from their first failing poll, and restores that follow an
\* announced outage (feeders/service.py, _apply to _resume_outages).
FeederInvariant ==
  /\ FeederTypeOK
  /\ TimelineMatchesTracker
  /\ EpisodesNeverOverlap
  /\ OutageDatedFromFirstFailure
  /\ RestoreFollowsOffline
=============================================================================
