--------------------------- MODULE ReceiverMonitor ---------------------------
(***************************************************************************)
(* The station watching itself: the decoder poll loop (ingest/readsb.py,   *)
(* ingest/service.py) with its health tracker and reconnect backoff        *)
(* (ingest/health.py), and the self-alert monitor that judges every        *)
(* metrics sample against that health and the message-rate baseline        *)
(* (alerts/self_alerts.py), keeping its active episodes in one meta row    *)
(* so that they outlive a restart.                                         *)
(***************************************************************************)
EXTENDS Integers, FiniteSets

CONSTANTS DownAfter,               \* DOWN_AFTER_CONSECUTIVE_FAILURES
          BackoffMax,              \* BACKOFF_MAX_S, in ticks
          Normal, SharePct, Rates, \* the baseline, the configured share, rates a sample may show
          Minutes,                 \* raise threshold of each condition, in ticks
          Hold,                    \* restore hold of each condition, in ticks
          MaxMonitorClock, MonitorBudgets   \* bounds: restarts, faults, toggles and flips of an instance

Conditions == {"decoder_down", "message_rate"}

ASSUME MonitorConstants ==
  /\ {DownAfter, BackoffMax, Normal} \subseteq Nat \ {0} /\ SharePct \in 5 .. 95 /\ Rates \subseteq Nat
  /\ Minutes \in [Conditions -> Nat] /\ Hold \in [Conditions -> Nat]
  /\ MaxMonitorClock \in Nat \ {0}
  /\ MonitorBudgets \subseteq [restarts : Nat, faults : Nat, toggles : Nat, flips : Nat]

VARIABLES
  mClock, mUp,
  mAnswers,     \* the decoder answers polls (external)
  mHealth,      \* AdapterHealth: [state, fails]
  mWake,        \* when the poll loop's sleep ends
  mCond,        \* condition -> [active, bad, good]: _active and the two pending runs
  mEnabled,     \* the self_alerts section: conditions switched on
  mSampled,     \* the tick of the last sample
  mPc,          \* the sampling task: "idle", or "rate", "persist" inside observe
  mSeen,        \* locals of observe across its awaits: [connected, on]
  mPersisted,   \* _persisted, the last state known to be in meta
  mMeta,        \* the meta row
  mBudget,
  mUpSince,     \* history: since when the decoder has answered without a break
  mOpen,        \* history: the episode of each condition the feed last heard raised
  mNotBad, mNotGood, \* history: the last sample at which each condition was not bad, not recovered
  mTorn         \* history: conditions whose memory and meta row were parted by a fault or a stop

mVars == <<mClock, mUp, mAnswers, mHealth, mWake, mCond, mEnabled, mSampled, mPc, mSeen, mPersisted,
           mMeta, mBudget, mUpSince, mOpen, mNotBad, mNotGood, mTorn>>
mSky == <<mClock, mAnswers, mUpSince>>
mAlerts == <<mCond, mSampled, mPc, mSeen, mPersisted, mMeta, mOpen, mNotBad, mNotGood, mTorn>>

Never    == 0
Quiet    == [active |-> Never, bad |-> Never, good |-> Never]
Nothing  == [c \in Conditions |-> Never]    \* the empty JSON object
Least(a, b) == IF a < b THEN a ELSE b

(* --------------------------- decoder and health ------------------------- *)

\* AdapterHealth's defaults: down, and not one failure counted.
NewHealth == [state |-> "down", fails |-> 0]

\* record_success
RecordSuccess == [state |-> "connected", fails |-> 0]

\* record_failure
RecordFailure(h) ==
  [state |-> IF h.fails + 1 >= DownAfter THEN "down" ELSE "degraded",
   fails |-> Least(h.fails + 1, DownAfter + BackoffMax)]

\* Mutant of RetryDelays: the doubling is not capped.
RetryDelaysUncapped(fails) == {d \in 1 .. 2 ^ (fails - 1) : 2 * d >= 2 ^ (fails - 1)}

\* retry_delay_s: exponential from one second, capped, with equal jitter.
RetryDelays(fails) == LET full == Least(2 ^ (fails - 1), BackoffMax)
                      IN  {d \in 1 .. BackoffMax : full <= 2 * d /\ d <= full}

\* One turn of updates(), the generator _run consumes: poll, record the outcome, sleep.
Poll ==
  /\ mUp /\ mWake <= mClock
  /\ IF mAnswers
     THEN mHealth' = RecordSuccess /\ mWake' = mClock + 1
     ELSE /\ mHealth' = RecordFailure(mHealth)
          /\ \E d \in RetryDelays(mHealth'.fails) : mWake' = mClock + d
  /\ UNCHANGED <<mSky, mUp, mEnabled, mBudget, mAlerts>>

\* The decoder goes away or comes back.
DecoderFlips ==
  /\ mBudget.flips > 0
  /\ mAnswers' = ~mAnswers
  /\ mUpSince' = IF mAnswers THEN Never ELSE mClock
  /\ mBudget' = [mBudget EXCEPT !.flips = @ - 1]
  /\ UNCHANGED <<mClock, mUp, mHealth, mWake, mEnabled, mAlerts>>

\* Time passes; a poll that is due is not held up for a whole tick.
MonitorTick ==
  /\ mClock < MaxMonitorClock
  /\ mUp => mWake > mClock
  /\ mClock' = mClock + 1
  /\ UNCHANGED <<mUp, mAnswers, mHealth, mWake, mEnabled, mBudget, mUpSince, mAlerts>>

(* ------------------------------ conditions ------------------------------ *)

\* Mutant of HoldRuns: a sample without evidence leaves the bad run going.
HoldRunsKeepsBad(c) == [c EXCEPT !.good = Never]

\* _hold: no usable evidence, so neither run continues.
HoldRuns(c) == [c EXCEPT !.bad = Never, !.good = Never]

\* Mutant of Bad: a bad sample leaves the recovery run going.
BadKeepsGood(c, now, minutes) ==
  LET since == IF c.bad = Never THEN now ELSE c.bad
  IN  [active |-> IF c.active = Never /\ now - since >= minutes THEN since ELSE c.active,
       bad |-> since, good |-> c.good]

\* _bad: the run continues, and raises once it is long enough.
Bad(c, now, minutes) ==
  LET since == IF c.bad = Never THEN now ELSE c.bad
  IN  [active |-> IF c.active = Never /\ now - since >= minutes THEN since ELSE c.active,
       bad |-> since, good |-> Never]

\* _good: an active episode restores once recovery has lasted.
Good(c, now, hold) ==
  LET since == IF c.good = Never THEN now ELSE c.good
  IN  IF c.active = Never \/ now - since >= hold THEN Quiet
      ELSE [active |-> c.active, bad |-> Never, good |-> since]

\* DecoderDownCondition.observe, by the health it reads.
Decoder(c, state, now) ==
  CASE state = "down"      -> Bad(c, now, Minutes["decoder_down"])
    [] state = "connected" -> Good(c, now, Hold["decoder_down"])
    [] OTHER               -> HoldRuns(c)

\* What MessageRateCondition.observe makes of a rate: below the share of the baseline, back above
\* RATE_RECOVERY_FACTOR times that (never more than the baseline itself), or in between.
RateReading(rate) ==
  CASE rate * 100 < Normal * SharePct                               -> "bad"
    [] rate * 400 >= Least(Normal * 400, Normal * SharePct * 5)     -> "good"
    [] OTHER                                                        -> "band"

\* MessageRateCondition.observe for one reading; "unusable" is a sample with no rate, no ready
\* baseline, or a decoder that is not connected.
MessageRate(c, reading, now) ==
  CASE reading = "bad"  -> Bad(c, now, Minutes["message_rate"])
    [] reading = "good" -> Good(c, now, Hold["message_rate"])
    [] OTHER            -> HoldRuns(c)

(* ------------------------------- observe -------------------------------- *)

\* observe, up to the baseline load: settings and health are read once, the decoder is judged.
ObserveDecoder ==
  LET c     == "decoder_down"
      after == IF c \in mEnabled THEN Decoder(mCond[c], mHealth.state, mClock) ELSE Quiet
  IN  /\ mUp /\ mPc = "idle" /\ mSampled < mClock
      /\ mSampled' = mClock
      /\ mSeen' = [connected |-> mHealth.state = "connected", on |-> mEnabled]
      /\ mCond' = [mCond EXCEPT ![c] = after]
      /\ mNotBad'  = IF mHealth.state # "down" THEN [mNotBad EXCEPT ![c] = mClock] ELSE mNotBad
      /\ mNotGood' = IF mHealth.state # "connected" THEN [mNotGood EXCEPT ![c] = mClock] ELSE mNotGood
      /\ mPc' = "rate"
      /\ UNCHANGED <<mSky, mUp, mHealth, mWake, mEnabled, mPersisted, mMeta, mBudget, mOpen, mTorn>>

\* observe, from the baseline to the sink: the rate is judged, then every episode is handed on, and
\* _persist leaves early when the meta row already says so.  A baseline that cannot be loaded, or a
\* sample without a rate, is the reading "unusable".
ObserveRate ==
  LET c == "message_rate"
  IN  /\ mUp /\ mPc = "rate"
      /\ \E reading \in {RateReading(r) : r \in Rates} \cup {"unusable"} :
           LET usable == IF mSeen.connected THEN reading ELSE "unusable"
               after  == IF c \in mSeen.on THEN MessageRate(mCond[c], usable, mSampled) ELSE Quiet
           IN  /\ mCond' = [mCond EXCEPT ![c] = after]
               /\ mNotBad'  = IF usable # "bad" THEN [mNotBad EXCEPT ![c] = mSampled] ELSE mNotBad
               /\ mNotGood' = IF usable # "good" THEN [mNotGood EXCEPT ![c] = mSampled] ELSE mNotGood
      /\ mOpen' = [k \in Conditions |-> mCond'[k].active]
      /\ mPc' = IF [k \in Conditions |-> mCond'[k].active] = mPersisted THEN "idle" ELSE "persist"
      /\ UNCHANGED <<mSky, mUp, mHealth, mWake, mEnabled, mSampled, mSeen, mPersisted, mMeta, mBudget,
                     mTorn>>

\* _persist's write.
Persist(ok) ==
  LET state == [k \in Conditions |-> mCond[k].active]
  IN  /\ mUp /\ mPc = "persist"
      /\ mPc' = "idle"
      /\ IF ok THEN mMeta' = state /\ mPersisted' = state /\ UNCHANGED mBudget
               ELSE /\ mBudget.faults > 0
                    /\ mBudget' = [mBudget EXCEPT !.faults = @ - 1]
                    /\ UNCHANGED <<mMeta, mPersisted>>
      /\ UNCHANGED <<mSky, mUp, mHealth, mWake, mCond, mEnabled, mSampled, mSeen, mOpen, mNotBad,
                     mNotGood, mTorn>>

\* A Settings save: read late, so saving is applying.
ToggleSelfAlert(c) ==
  /\ mBudget.toggles > 0
  /\ mEnabled' = IF c \in mEnabled THEN mEnabled \ {c} ELSE mEnabled \cup {c}
  /\ mBudget' = [mBudget EXCEPT !.toggles = @ - 1]
  /\ UNCHANGED <<mSky, mUp, mHealth, mWake, mAlerts>>

(* ------------------------------- lifecycle ------------------------------ *)

\* A process ends, cleanly or not: the loop and the sampler are cancelled where they stand.  A
\* write of _persist that was in flight has committed or has not.
EndMonitor(committed) ==
  LET state == [k \in Conditions |-> mCond[k].active]
      meta  == IF committed THEN state ELSE mMeta
  IN  /\ mUp /\ mBudget.restarts > 0
      /\ committed => mPc = "persist"
      /\ mBudget' = [mBudget EXCEPT !.restarts = @ - 1]
      /\ mUp' = FALSE
      /\ mMeta' = meta
      /\ mPc' = "idle" /\ mPersisted' = Nothing /\ mCond' = [c \in Conditions |-> Quiet]
      /\ mHealth' = NewHealth
      /\ mTorn' = mTorn \cup {c \in Conditions : meta[c] # mOpen[c]}
      /\ UNCHANGED <<mSky, mWake, mEnabled, mSampled, mSeen, mOpen, mNotBad, mNotGood>>

\* start of the monitor and of ingestion: episodes in the meta row are resumed silently, unless it
\* cannot be read.
StartMonitor(read) ==
  /\ ~mUp
  /\ read \/ mBudget.faults > 0
  /\ mBudget' = [mBudget EXCEPT !.faults = IF read THEN @ ELSE @ - 1]
  /\ mUp' = TRUE
  /\ mWake' = mClock
  /\ mCond' = [c \in Conditions |-> IF read THEN [Quiet EXCEPT !.active = mMeta[c]] ELSE Quiet]
  /\ mPersisted' = IF read THEN mMeta ELSE Nothing
  /\ mTorn' = IF read THEN mTorn ELSE mTorn \cup {c \in Conditions : mMeta[c] # Never}
  /\ UNCHANGED <<mSky, mHealth, mEnabled, mSampled, mPc, mSeen, mMeta, mOpen, mNotBad, mNotGood>>

MonitorInit ==
  /\ mClock = 1 /\ mUp = FALSE /\ mAnswers = TRUE /\ mHealth = NewHealth /\ mWake = 1
  /\ mCond = [c \in Conditions |-> Quiet] /\ mEnabled = Conditions
  /\ mSampled = 0 /\ mPc = "idle" /\ mSeen = [connected |-> FALSE, on |-> {}]
  /\ mPersisted = Nothing /\ mMeta = Nothing
  /\ mBudget \in MonitorBudgets
  /\ mUpSince = 1 /\ mOpen = Nothing /\ mNotBad = Nothing /\ mNotGood = Nothing /\ mTorn = {}

MonitorNext ==
  \/ Poll \/ DecoderFlips \/ MonitorTick \/ ObserveDecoder \/ ObserveRate
  \/ \E ok \in BOOLEAN : Persist(ok) \/ EndMonitor(ok) \/ StartMonitor(ok)
  \/ \E c \in Conditions : ToggleSelfAlert(c)

MonitorSpec == MonitorInit /\ [][MonitorNext]_mVars

(* ------------------------------ properties ------------------------------ *)

MonitorTypeOK ==
  /\ mClock \in 1 .. MaxMonitorClock /\ {mUp, mAnswers} \subseteq BOOLEAN
  /\ mHealth \in [state : {"connected", "degraded", "down"}, fails : 0 .. DownAfter + BackoffMax]
  /\ mWake \in 1 .. MaxMonitorClock + BackoffMax
  /\ mCond \in [Conditions -> [active : 0 .. MaxMonitorClock, bad : 0 .. MaxMonitorClock,
                               good : 0 .. MaxMonitorClock]]
  /\ mPc \in {"idle", "rate", "persist"} /\ mEnabled \subseteq Conditions

\* A decoder that answers again is picked up within the backoff's ceiling, however long it was
\* away (retry_delay_s: "picked up within a minute, not after another hour of doubling").
ReconnectIsPrompt ==
  mUp /\ mAnswers /\ mClock > mUpSince + BackoffMax /\ mWake > mClock => mHealth.state = "connected"

\* An alert says its condition held at every sample since the time it names: no sample in between
\* read anything else, across settings toggles and unusable samples (_bad, _hold, reset).
RaiseIsContinuous ==
  [][\A c \in Conditions :
       mCond[c].active = Never /\ mCond'[c].active # Never /\ mUp
         => /\ mNotBad'[c] < mCond'[c].active
            /\ mSampled' - mCond'[c].active >= Minutes[c]]_mVars

\* A restore announced while its condition stays switched on follows recovered samples only, for
\* the whole hold: a short reconnect never ends an episode (_good).
RestoreIsEarned ==
  [][\A c \in Conditions :
       mUp /\ mUp' /\ mCond[c].active # Never /\ mCond'[c].active = Never
          /\ c \in (IF mPc = "idle" THEN mEnabled ELSE mSeen.on)
         => mSampled' - mNotGood'[c] > Hold[c]]_mVars

\* The monitor, the meta row and what the feed was told agree whenever the sampler rests and the
\* row is known to be written, restarts included: an episode resumed is the one that was announced.
EpisodeSurvivesRestart ==
  mUp /\ mPc = "idle" =>
    \A c \in Conditions \ mTorn :
      /\ mCond[c].active = mOpen[c]
      /\ mPersisted = [k \in Conditions |-> mCond[k].active] => mMeta[c] = mOpen[c]

\* What the station's self-monitoring promises in every state: a decoder that answers again is picked
\* up promptly, and memory, the meta row and the feed agree on the open episodes across restarts.
MonitorInvariant == MonitorTypeOK /\ ReconnectIsPrompt /\ EpisodeSurvivesRestart
=============================================================================
