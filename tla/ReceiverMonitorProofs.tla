------------------------ MODULE ReceiverMonitorProofs ------------------------
(***************************************************************************)
(* Proofs about the station watching itself (ingest/health.py,             *)
(* ingest/service.py, alerts/self_alerts.py) and watching its feeders      *)
(* (feeders/service.py, feeders/repository.py), for every threshold, hold, *)
(* backoff ceiling, share, cadence, debounce and set of feeders, and any   *)
(* number of faults, flips, toggles, saves, crashes and restarts.          *)
(*                                                                         *)
(* The invariant of the self-alerts has four parts.  BackoffInv: the poll  *)
(* loop of a process whose decoder answers wakes within the backoff's      *)
(* ceiling of the moment it began to.  RunsInv: a bad or good run began    *)
(* after the last sample that was not of its kind, and while a sample is   *)
(* half judged the message-rate condition has not heard of it yet.         *)
(* EpisodesInv: outside that half sample, memory, _persisted and the meta  *)
(* row carry the episodes the feed was told of, except where a fault or a  *)
(* stop parted them.                                                       *)
(*                                                                         *)
(* The invariant of the feeder service is about the books an episode can   *)
(* be in: the table, the write in progress, the caller that waits behind   *)
(* it, and the queue.  Cut to one feeder they make a Ledger: every book    *)
(* comes before every later one, what one says of an episode a later one   *)
(* repeats or ends, and the tracker's current episode is the last entry    *)
(* and the only one still open.  Commit, drop, copy, transition, close and *)
(* prune each keep a ledger.                                               *)
(***************************************************************************)
EXTENDS ReceiverMonitor, FeederMonitor, SequenceTheorems, FiniteSetTheorems, WellFoundedInduction, TLAPS

Moment == 0 .. MaxMonitorClock
Budget == [restarts : Nat, faults : Nat, toggles : Nat, flips : Nat]
Cond   == [active : Moment, bad : Moment, good : Moment]

\* MonitorTypeOK and the types of what it leaves open.
MonitorTypes ==
  /\ MonitorTypeOK
  /\ mSampled \in 0 .. mClock /\ mBudget \in Budget
  /\ mSeen \in [connected : BOOLEAN, on : SUBSET Conditions]
  /\ {mPersisted, mMeta, mOpen, mNotBad, mNotGood} \subseteq [Conditions -> Moment]
  /\ mUpSince \in Nat

\* A loop that sleeps wakes within the ceiling, counted from now and, once the
\* decoder answers, from the moment it began to.
BackoffInv ==
  /\ mUp => mWake <= mClock + BackoffMax
  /\ mUp /\ mAnswers /\ mHealth.state # "connected"
       => mWake <= mUpSince + BackoffMax \/ mWake <= mClock

\* A run began after the last sample against it.
RunOf(c) ==
  /\ mNotBad[c] <= mSampled /\ mNotGood[c] <= mSampled
  /\ mCond[c].bad # Never => mNotBad[c] < mCond[c].bad
  /\ mCond[c].good # Never => mNotGood[c] < mCond[c].good
RunsInv ==
  /\ \A c \in Conditions : RunOf(c)
  /\ mPc = "rate" => mNotBad["message_rate"] < mSampled /\ mNotGood["message_rate"] < mSampled

\* Who knows of c's episode.
EpisodeOf(c) ==
  /\ mUp => mPersisted[c] = mMeta[c]
  /\ mUp /\ mPc # "rate" => mCond[c].active = mOpen[c]
  /\ ~mUp => mMeta[c] = mOpen[c]
EpisodesInv == \A c \in Conditions : c \notin mTorn => EpisodeOf(c)

MonitorInv == MonitorTypes /\ BackoffInv /\ RunsInv /\ EpisodesInv
-----------------------------------------------------------------------------
(* The conditions' operators.                                              *)

\* A condition with nothing running.
LEMMA QuietIs == Quiet \in Cond /\ Quiet.active = 0 /\ Quiet.bad = 0 /\ Quiet.good = 0
BY MonitorConstants DEF Quiet, Cond, Moment, Never

\* _hold ends both runs and leaves the episode.
LEMMA HoldRunsIs ==
  ASSUME NEW c \in Cond
  PROVE  /\ HoldRuns(c) \in Cond /\ HoldRuns(c).active = c.active
         /\ HoldRuns(c).bad = 0 /\ HoldRuns(c).good = 0
<1>1. 0 \in Moment
  BY MonitorConstants DEF Moment
<1>2. QED
  BY <1>1 DEF HoldRuns, Cond, Never

\* _bad begins or continues the bad run and raises it only when long enough.
LEMMA BadIs ==
  ASSUME NEW c \in Cond, NEW now \in Moment, NEW minutes \in Nat
  PROVE  /\ Bad(c, now, minutes) \in Cond
         /\ Bad(c, now, minutes).good = 0
         /\ Bad(c, now, minutes).bad = IF c.bad = 0 THEN now ELSE c.bad
         /\ c.active # 0 => Bad(c, now, minutes).active = c.active
         /\ c.active = 0 /\ Bad(c, now, minutes).active # 0 =>
              /\ Bad(c, now, minutes).active = Bad(c, now, minutes).bad
              /\ now - Bad(c, now, minutes).active >= minutes
<1> DEFINE since == IF c.bad = 0 THEN now ELSE c.bad
           b == Bad(c, now, minutes)
<1>1. 0 \in Moment /\ since \in Moment /\ c.active \in Moment
  BY MonitorConstants DEF Moment, Cond
<1>2. b = [active |-> IF c.active = 0 /\ now - since >= minutes THEN since ELSE c.active,
           bad |-> since, good |-> 0]
  BY DEF Bad, Never
<1> HIDE DEF since
<1>3. b \in Cond
  BY <1>1, <1>2 DEF Cond
<1>4. b.good = 0 /\ b.bad = since
      /\ b.active = IF c.active = 0 /\ now - since >= minutes THEN since ELSE c.active
  BY <1>2
<1> HIDE DEF b
<1>5. QED
  BY <1>3, <1>4 DEF b, since

\* _good begins or continues the recovery and ends the episode only when it
\* has lasted.
LEMMA GoodIs ==
  ASSUME NEW c \in Cond, NEW now \in Moment, NEW hold \in Nat
  PROVE  /\ Good(c, now, hold) \in Cond
         /\ Good(c, now, hold).bad = 0
         /\ Good(c, now, hold).good \in {0, IF c.good = 0 THEN now ELSE c.good}
         /\ Good(c, now, hold).active \in {0, c.active}
         /\ c.active # 0 /\ Good(c, now, hold).active = 0 =>
              now - (IF c.good = 0 THEN now ELSE c.good) >= hold
<1>1. Quiet \in Cond /\ Quiet.active = 0 /\ Quiet.bad = 0 /\ Quiet.good = 0
  BY QuietIs
<1>2. [active |-> c.active, bad |-> Never, good |-> IF c.good = Never THEN now ELSE c.good] \in Cond
  BY MonitorConstants DEF Cond, Moment, Never
<1>3. QED
  BY <1>1, <1>2 DEF Good, Never

\* One judgement of condition c, switched on or not, by a sample taken now that
\* read bad, good or neither: what it makes of the condition, and of the last
\* samples that were not bad and not good.
Judged(c, t, u, now, on, bad, good) ==
  \/ ~on /\ u = Quiet
  \/ on /\ bad /\ u = Bad(t, now, Minutes[c])
  \/ on /\ good /\ u = Good(t, now, Hold[c])
  \/ on /\ u = HoldRuns(t)
Since(last, held, now) == IF held THEN last ELSE now

\* Whatever the sample, a run in progress began after the last one against it,
\* so what is raised or restored has lasted.
LEMMA JudgedRuns ==
  ASSUME NEW c \in Conditions, NEW t \in Cond, NEW u, NEW now \in Moment, now # 0,
         NEW nb \in Moment, NEW ng \in Moment, nb < now, ng < now,
         t.bad # 0 => nb < t.bad, t.good # 0 => ng < t.good,
         NEW on \in BOOLEAN, NEW bad \in BOOLEAN, NEW good \in BOOLEAN,
         Judged(c, t, u, now, on, bad, good)
  PROVE  LET nb2 == Since(nb, bad, now)
             ng2 == Since(ng, good, now)
         IN  /\ u \in Cond /\ nb2 \in Moment /\ ng2 \in Moment /\ nb2 <= now /\ ng2 <= now
             /\ u.bad # 0 => nb2 < u.bad
             /\ u.good # 0 => ng2 < u.good
             /\ t.active = 0 /\ u.active # 0 => nb2 < u.active /\ now - u.active >= Minutes[c]
             /\ t.active # 0 /\ u.active = 0 /\ on => now - ng2 > Hold[c]
<1> DEFINE nb2 == Since(nb, bad, now)
           ng2 == Since(ng, good, now)
<1>1. Minutes[c] \in Nat /\ Hold[c] \in Nat
  BY MonitorConstants
<1>2. t.bad \in Moment /\ t.good \in Moment /\ t.active \in Moment
      /\ now \in Int /\ ng \in Int /\ nb \in Int
  BY DEF Cond, Moment
<1>3. nb2 \in Moment /\ ng2 \in Moment /\ nb2 <= now /\ ng2 <= now
      /\ (bad => nb2 = nb) /\ (good => ng2 = ng)
  BY <1>2 DEF Since
<1> HIDE DEF nb2, ng2
<1>4. CASE ~on /\ u = Quiet
  BY <1>3, <1>4, QuietIs DEF nb2, ng2
<1>5. CASE on /\ bad /\ u = Bad(t, now, Minutes[c])
  <2>1. /\ u \in Cond /\ u.good = 0 /\ u.bad = IF t.bad = 0 THEN now ELSE t.bad
        /\ t.active # 0 => u.active = t.active
        /\ t.active = 0 /\ u.active # 0 => u.active = u.bad /\ now - u.active >= Minutes[c]
    BY <1>1, <1>5, BadIs
  <2>2. nb2 < u.bad
    BY <1>3, <1>5, <2>1
  <2>3. QED
    BY <1>3, <2>1, <2>2 DEF nb2, ng2
<1>6. CASE on /\ good /\ u = Good(t, now, Hold[c])
  <2>1. /\ u \in Cond /\ u.bad = 0 /\ u.good \in {0, IF t.good = 0 THEN now ELSE t.good}
        /\ u.active \in {0, t.active}
        /\ t.active # 0 /\ u.active = 0 => now - (IF t.good = 0 THEN now ELSE t.good) >= Hold[c]
    BY <1>1, <1>6, GoodIs
  <2>2. ng2 < IF t.good = 0 THEN now ELSE t.good
    BY <1>3, <1>6
  <2>3. t.active # 0 /\ u.active = 0 => now - ng2 > Hold[c]
    BY <1>1, <1>2, <1>3, <2>1, <2>2 DEF Moment
  <2>4. QED
    BY <1>3, <2>1, <2>2, <2>3 DEF nb2, ng2
<1>7. CASE on /\ u = HoldRuns(t)
  BY <1>3, <1>7, HoldRunsIs DEF nb2, ng2
<1>8. QED
  BY <1>4, <1>5, <1>6, <1>7 DEF Judged
-----------------------------------------------------------------------------
(* The poll loop and the clock.                                            *)

\* retry_delay_s never exceeds the ceiling.
LEMMA RetryDelaysAre == \A n : \A d \in RetryDelays(n) : d \in 1 .. BackoffMax
BY DEF RetryDelays

\* A recorded failure is counted, up to the model's ceiling.
LEMMA RecordsAre ==
  /\ RecordSuccess \in [state : {"connected", "degraded", "down"}, fails : 0 .. DownAfter + BackoffMax]
  /\ RecordSuccess.state = "connected"
  /\ \A h \in [state : {"connected", "degraded", "down"}, fails : 0 .. DownAfter + BackoffMax] :
       /\ RecordFailure(h) \in
            [state : {"connected", "degraded", "down"}, fails : 0 .. DownAfter + BackoffMax]
       /\ RecordFailure(h).fails \in 1 .. DownAfter + BackoffMax
BY MonitorConstants DEF RecordSuccess, RecordFailure, Least

\* The steps that leave the conditions and the meta row alone keep what is
\* said of them.
LEMMA AlertsAside ==
  ASSUME RunsInv, EpisodesInv, UNCHANGED <<mAlerts, mUp>>
  PROVE  RunsInv' /\ EpisodesInv'
<1>1. RunsInv'
  BY DEF mAlerts, RunsInv, RunOf
<1>2. EpisodesInv'
  BY DEF mAlerts, EpisodesInv, EpisodeOf
<1>3. QED
  BY <1>1, <1>2

\* HealthMonitor looks once: no condition changes.
LEMMA PollStep ==
  ASSUME MonitorInv, Poll
  PROVE  MonitorInv'
<1>1. UNCHANGED <<mClock, mAnswers, mUpSince, mUp, mEnabled, mBudget, mAlerts>>
  BY DEF Poll, mSky
<1>2. mClock \in 1 .. MaxMonitorClock /\ MaxMonitorClock \in Nat /\ BackoffMax \in Nat \ {0}
  BY MonitorConstants DEF MonitorInv, MonitorTypes, MonitorTypeOK
<1>3. /\ mHealth' \in [state : {"connected", "degraded", "down"}, fails : 0 .. DownAfter + BackoffMax]
      /\ mWake' \in 1 .. mClock + BackoffMax
      /\ mAnswers => mHealth'.state = "connected"
  <2>1. CASE mAnswers
    BY <1>2, <2>1, RecordsAre DEF Poll
  <2>2. CASE ~mAnswers
    <3>1. mHealth' = RecordFailure(mHealth)
      BY <2>2 DEF Poll
    <3>2. PICK d \in RetryDelays(mHealth'.fails) : mWake' = mClock + d
      BY <2>2 DEF Poll
    <3>3. d \in 1 .. BackoffMax
      BY RetryDelaysAre
    <3>4. mWake' \in 1 .. mClock + BackoffMax
      BY <1>2, <3>2, <3>3
    <3>5. QED
      BY <2>2, <3>1, <3>4, RecordsAre DEF MonitorInv, MonitorTypes, MonitorTypeOK
  <2>3. QED
    BY <2>1, <2>2
<1>4. MonitorTypes'
  <2>1. mWake' \in 1 .. MaxMonitorClock + BackoffMax
    BY <1>2, <1>3
  <2>2. QED
    BY <1>1, <1>3, <2>1 DEF MonitorInv, MonitorTypes, MonitorTypeOK, mAlerts
<1>5. BackoffInv'
  <2>1. mWake' <= mClock + BackoffMax
    BY <1>2, <1>3
  <2>2. QED
    BY <1>1, <1>3, <2>1 DEF BackoffInv
<1>6. QED
  BY <1>1, <1>4, <1>5, AlertsAside DEF MonitorInv

\* The decoder starts or stops answering.
LEMMA FlipsStep ==
  ASSUME MonitorInv, DecoderFlips
  PROVE  MonitorInv'
<1>1. /\ UNCHANGED <<mClock, mUp, mHealth, mWake, mEnabled, mAlerts>>
      /\ mAnswers' = ~mAnswers /\ mUpSince' = IF mAnswers THEN 0 ELSE mClock
      /\ mBudget.flips > 0 /\ mBudget' = [mBudget EXCEPT !.flips = @ - 1]
  BY DEF DecoderFlips, Never
<1>2. mClock \in Nat
  BY MonitorConstants DEF MonitorInv, MonitorTypes, MonitorTypeOK
<1>3. mBudget' \in Budget
  BY <1>1 DEF MonitorInv, MonitorTypes, Budget
<1>4. MonitorTypes'
  <2>1. mAnswers' \in BOOLEAN /\ mUpSince' \in Nat
    BY <1>1, <1>2
  <2>2. QED
    BY <1>1, <1>3, <2>1 DEF MonitorInv, MonitorTypes, MonitorTypeOK, mAlerts
<1>5. BackoffInv'
  BY <1>1 DEF MonitorInv, BackoffInv
<1>6. QED
  BY <1>1, <1>4, <1>5, AlertsAside DEF MonitorInv

\* Time passes, never past a poll that is due.
LEMMA TickStep ==
  ASSUME MonitorInv, MonitorTick
  PROVE  MonitorInv'
<1>1. /\ UNCHANGED <<mUp, mAnswers, mHealth, mWake, mEnabled, mBudget, mUpSince, mAlerts>>
      /\ mClock < MaxMonitorClock /\ mClock' = mClock + 1 /\ (mUp => mWake > mClock)
  BY DEF MonitorTick
<1>2. /\ mClock \in 1 .. MaxMonitorClock /\ MaxMonitorClock \in Nat /\ BackoffMax \in Nat
      /\ mSampled \in 0 .. mClock /\ mWake \in Nat /\ mUpSince \in Nat
  BY MonitorConstants DEF MonitorInv, MonitorTypes, MonitorTypeOK
<1>3. MonitorTypes'
  <2>1. mClock' \in 1 .. MaxMonitorClock /\ mSampled \in 0 .. mClock'
    BY <1>1, <1>2
  <2>2. QED
    BY <1>1, <2>1 DEF MonitorInv, MonitorTypes, MonitorTypeOK, mAlerts
<1>4. BackoffInv'
  BY <1>1, <1>2 DEF MonitorInv, BackoffInv
<1>5. QED
  BY <1>1, <1>3, <1>4, AlertsAside DEF MonitorInv

\* The user switches a condition: no run and no episode changes.
LEMMA ToggleStep ==
  ASSUME MonitorInv, NEW c \in Conditions, ToggleSelfAlert(c)
  PROVE  MonitorInv'
<1>1. /\ UNCHANGED <<mClock, mAnswers, mUpSince, mUp, mHealth, mWake, mAlerts>>
      /\ mEnabled' = IF c \in mEnabled THEN mEnabled \ {c} ELSE mEnabled \cup {c}
      /\ mBudget.toggles > 0 /\ mBudget' = [mBudget EXCEPT !.toggles = @ - 1]
  BY DEF ToggleSelfAlert, mSky
<1>2. mBudget' \in Budget
  BY <1>1 DEF MonitorInv, MonitorTypes, Budget
<1>3. MonitorTypes'
  <2>1. mEnabled' \subseteq Conditions
    BY <1>1 DEF MonitorInv, MonitorTypes, MonitorTypeOK
  <2>2. QED
    BY <1>1, <1>2, <2>1 DEF MonitorInv, MonitorTypes, MonitorTypeOK, mAlerts
<1>4. BackoffInv'
  BY <1>1 DEF MonitorInv, BackoffInv
<1>5. QED
  BY <1>1, <1>3, <1>4, AlertsAside DEF MonitorInv
-----------------------------------------------------------------------------
(* The sampler.                                                            *)

\* The sampler leaves the poll loop alone.
LEMMA LoopAside ==
  ASSUME BackoffInv, UNCHANGED <<mSky, mUp, mHealth, mWake>>
  PROVE  BackoffInv'
BY DEF BackoffInv, mSky

\* What a judgement leaves of the sampler's history: c alone is judged.
JudgedAt(c, on, bad, good, now) ==
  /\ mCond' = [mCond EXCEPT ![c] = mCond'[c]]
  /\ Judged(c, mCond[c], mCond'[c], now, on, bad, good)
  /\ mNotBad' = [mNotBad EXCEPT ![c] = Since(@, bad, now)]
  /\ mNotGood' = [mNotGood EXCEPT ![c] = Since(@, good, now)]
  /\ mSampled' = now

\* Judging c at a sample later than the last one against either of its runs
\* keeps the history, and what it raises or restores has lasted.
LEMMA JudgedKeeps ==
  ASSUME MonitorInv, NEW c \in Conditions, NEW on \in BOOLEAN, NEW bad \in BOOLEAN,
         NEW good \in BOOLEAN, NEW now \in 1 .. mClock,
         mNotBad[c] < now, mNotGood[c] < now, mSampled <= now,
         JudgedAt(c, on, bad, good, now)
  PROVE  /\ mCond' \in [Conditions -> Cond] /\ mNotBad' \in [Conditions -> Moment]
         /\ mNotGood' \in [Conditions -> Moment]
         /\ \A k \in Conditions : RunOf(k)'
         /\ \A k \in Conditions : k # c => /\ mCond'[k] = mCond[k] /\ mNotBad'[k] = mNotBad[k]
                                           /\ mNotGood'[k] = mNotGood[k]
         /\ mCond[c].active = 0 /\ mCond'[c].active # 0 =>
              mNotBad'[c] < mCond'[c].active /\ now - mCond'[c].active >= Minutes[c]
         /\ mCond[c].active # 0 /\ mCond'[c].active = 0 /\ on => now - mNotGood'[c] > Hold[c]
<1>1. /\ mCond \in [Conditions -> Cond] /\ mNotBad \in [Conditions -> Moment]
      /\ mNotGood \in [Conditions -> Moment] /\ mSampled \in Nat /\ now \in Moment /\ now # 0
  BY MonitorConstants DEF MonitorInv, MonitorTypes, MonitorTypeOK, Cond, Moment
<1>2. RunOf(c) /\ \A k \in Conditions : RunOf(k)
  BY DEF MonitorInv, RunsInv
<1> DEFINE t == mCond[c]  u == mCond'[c]  nb == mNotBad[c]  ng == mNotGood[c]
           nb2 == Since(nb, bad, now)  ng2 == Since(ng, good, now)
<1>3. /\ t \in Cond /\ nb \in Moment /\ ng \in Moment
      /\ t.bad # 0 => nb < t.bad
      /\ t.good # 0 => ng < t.good
      /\ Judged(c, t, u, now, on, bad, good)
  BY <1>1, <1>2 DEF RunOf, JudgedAt, Never
<1>4. /\ u \in Cond /\ nb2 \in Moment /\ ng2 \in Moment /\ nb2 <= now /\ ng2 <= now
      /\ u.bad # 0 => nb2 < u.bad
      /\ u.good # 0 => ng2 < u.good
      /\ t.active = 0 /\ u.active # 0 => nb2 < u.active /\ now - u.active >= Minutes[c]
      /\ t.active # 0 /\ u.active = 0 /\ on => now - ng2 > Hold[c]
  <2> HIDE DEF t, u, nb, ng
  <2>1. nb < now /\ ng < now
    BY DEF nb, ng
  <2>2. QED
    BY <1>1, <1>3, <2>1, JudgedRuns
<1>5. /\ mCond' = [mCond EXCEPT ![c] = u] /\ mNotBad' = [mNotBad EXCEPT ![c] = nb2]
      /\ mNotGood' = [mNotGood EXCEPT ![c] = ng2] /\ mSampled' = now
  BY DEF JudgedAt
<1> HIDE DEF u, nb2, ng2
<1>6. /\ mCond' \in [Conditions -> Cond] /\ mNotBad' \in [Conditions -> Moment]
      /\ mNotGood' \in [Conditions -> Moment]
      /\ mCond'[c] = u /\ mNotBad'[c] = nb2 /\ mNotGood'[c] = ng2
      /\ \A k \in Conditions : k # c => /\ mCond'[k] = mCond[k] /\ mNotBad'[k] = mNotBad[k]
                                        /\ mNotGood'[k] = mNotGood[k]
  BY <1>1, <1>4, <1>5
<1>7. RunOf(c)'
  BY <1>4, <1>5, <1>6 DEF RunOf, Never
<1>8. ASSUME NEW k \in Conditions, k # c
      PROVE  RunOf(k)'
  <2>1. mNotBad[k] \in Nat /\ mNotGood[k] \in Nat /\ now \in Nat
    BY <1>1 DEF Moment
  <2>2. RunOf(k)
    BY <1>2
  <2>3. mNotBad[k] <= now /\ mNotGood[k] <= now
    BY <1>1, <2>1, <2>2 DEF RunOf
  <2>4. QED
    BY <1>5, <1>6, <1>8, <2>2, <2>3 DEF RunOf
<1>9. QED
  BY <1>4, <1>6, <1>7, <1>8 DEF t

\* observe judges the decoder by the health it reads ...
LEMMA DecoderIsJudged ==
  ASSUME MonitorInv, ObserveDecoder
  PROVE  JudgedAt("decoder_down", "decoder_down" \in mEnabled, mHealth.state = "down",
                  mHealth.state = "connected", mClock)
<1> DEFINE c == "decoder_down"
           after == IF c \in mEnabled THEN Decoder(mCond[c], mHealth.state, mClock) ELSE Quiet
<1>1. /\ mCond' = [mCond EXCEPT ![c] = after] /\ mSampled' = mClock
      /\ mNotBad' = IF mHealth.state # "down" THEN [mNotBad EXCEPT ![c] = mClock] ELSE mNotBad
      /\ mNotGood' = IF mHealth.state # "connected" THEN [mNotGood EXCEPT ![c] = mClock] ELSE mNotGood
  BY DEF ObserveDecoder
<1>2. c \in Conditions /\ mCond \in [Conditions -> Cond] /\ mNotBad \in [Conditions -> Moment]
      /\ mNotGood \in [Conditions -> Moment]
  BY DEF MonitorInv, MonitorTypes, MonitorTypeOK, Cond, Moment, Conditions
<1>3. Judged(c, mCond[c], after, mClock, c \in mEnabled, mHealth.state = "down",
             mHealth.state = "connected")
  BY DEF Judged, Decoder
<1> HIDE DEF after
<1>4. mCond'[c] = after /\ mCond' = [mCond EXCEPT ![c] = mCond'[c]]
  BY <1>1, <1>2
<1>5. mNotBad' = [mNotBad EXCEPT ![c] = Since(@, mHealth.state = "down", mClock)]
  BY <1>1, <1>2 DEF Since
<1>6. mNotGood' = [mNotGood EXCEPT ![c] = Since(@, mHealth.state = "connected", mClock)]
  BY <1>1, <1>2 DEF Since
<1>7. QED
  BY <1>1, <1>3, <1>4, <1>5, <1>6 DEF JudgedAt

\* ... and the message rate by the reading, if the decoder was connected.
LEMMA RateIsJudged ==
  ASSUME MonitorInv, ObserveRate
  PROVE  \E bad, good \in BOOLEAN :
           JudgedAt("message_rate", "message_rate" \in mSeen.on, bad, good, mSampled)
<1> DEFINE c == "message_rate"
<1>1. PICK reading \in {RateReading(r) : r \in Rates} \cup {"unusable"} :
        LET usable == IF mSeen.connected THEN reading ELSE "unusable"
            after  == IF c \in mSeen.on THEN MessageRate(mCond[c], usable, mSampled) ELSE Quiet
        IN  /\ mCond' = [mCond EXCEPT ![c] = after]
            /\ mNotBad'  = IF usable # "bad" THEN [mNotBad EXCEPT ![c] = mSampled] ELSE mNotBad
            /\ mNotGood' = IF usable # "good" THEN [mNotGood EXCEPT ![c] = mSampled] ELSE mNotGood
  BY DEF ObserveRate
<1> DEFINE usable == IF mSeen.connected THEN reading ELSE "unusable"
           after  == IF c \in mSeen.on THEN MessageRate(mCond[c], usable, mSampled) ELSE Quiet
<1>2. /\ mCond' = [mCond EXCEPT ![c] = after] /\ mSampled' = mSampled
      /\ mNotBad' = IF usable # "bad" THEN [mNotBad EXCEPT ![c] = mSampled] ELSE mNotBad
      /\ mNotGood' = IF usable # "good" THEN [mNotGood EXCEPT ![c] = mSampled] ELSE mNotGood
  BY <1>1 DEF ObserveRate
<1>3. c \in Conditions /\ mCond \in [Conditions -> Cond] /\ mNotBad \in [Conditions -> Moment]
      /\ mNotGood \in [Conditions -> Moment]
  BY DEF MonitorInv, MonitorTypes, MonitorTypeOK, Cond, Moment, Conditions
<1> HIDE DEF usable
<1>4. Judged(c, mCond[c], after, mSampled, c \in mSeen.on, usable = "bad", usable = "good")
  BY DEF Judged, MessageRate
<1> HIDE DEF after
<1>5. mCond'[c] = after /\ mCond' = [mCond EXCEPT ![c] = mCond'[c]]
  BY <1>2, <1>3
<1>6. mNotBad' = [mNotBad EXCEPT ![c] = Since(@, usable = "bad", mSampled)]
  BY <1>2, <1>3 DEF Since
<1>7. mNotGood' = [mNotGood EXCEPT ![c] = Since(@, usable = "good", mSampled)]
  BY <1>2, <1>3 DEF Since
<1>8. JudgedAt(c, c \in mSeen.on, usable = "bad", usable = "good", mSampled)
  BY <1>2, <1>4, <1>5, <1>6, <1>7 DEF JudgedAt
<1>9. (usable = "bad") \in BOOLEAN /\ (usable = "good") \in BOOLEAN
  OBVIOUS
<1>10. QED
  BY <1>8, <1>9

\* What observe does first.
LEMMA DecoderEffect ==
  ASSUME MonitorInv, ObserveDecoder
  PROVE  LET c == "decoder_down"
         IN  /\ mSampled < mClock /\ mSampled' = mClock /\ mPc = "idle"
             /\ mCond' \in [Conditions -> Cond] /\ mNotBad' \in [Conditions -> Moment]
             /\ mNotGood' \in [Conditions -> Moment]
             /\ \A k \in Conditions : RunOf(k)'
             /\ \A k \in Conditions : k # c => /\ mCond'[k] = mCond[k] /\ mNotBad'[k] = mNotBad[k]
                                               /\ mNotGood'[k] = mNotGood[k]
             /\ mCond[c].active = 0 /\ mCond'[c].active # 0 =>
                  mNotBad'[c] < mCond'[c].active /\ mClock - mCond'[c].active >= Minutes[c]
             /\ mCond[c].active # 0 /\ mCond'[c].active = 0 /\ c \in mEnabled =>
                  mClock - mNotGood'[c] > Hold[c]
<1> DEFINE c == "decoder_down"  on == c \in mEnabled  bad == mHealth.state = "down"
           good == mHealth.state = "connected"
<1>1. mSampled < mClock /\ mSampled' = mClock /\ mPc = "idle"
  BY DEF ObserveDecoder
<1>2. c \in Conditions /\ mClock \in 1 .. mClock /\ mSampled \in Nat /\ mClock \in Nat
  BY DEF MonitorInv, MonitorTypes, MonitorTypeOK, Conditions
<1>3. mNotBad[c] < mClock /\ mNotGood[c] < mClock
  <2>1. mNotBad[c] \in Nat /\ mNotGood[c] \in Nat
    BY <1>2 DEF MonitorInv, MonitorTypes, Moment
  <2>2. mNotBad[c] <= mSampled /\ mNotGood[c] <= mSampled
    BY <1>2 DEF MonitorInv, RunsInv, RunOf
  <2>3. QED
    BY <1>1, <1>2, <2>1, <2>2
<1>4. on \in BOOLEAN /\ bad \in BOOLEAN /\ good \in BOOLEAN /\ JudgedAt(c, on, bad, good, mClock)
  BY DecoderIsJudged
<1>5. mSampled <= mClock
  BY <1>1, <1>2
<1> HIDE DEF c, on, bad, good
<1>6. /\ mCond' \in [Conditions -> Cond] /\ mNotBad' \in [Conditions -> Moment]
      /\ mNotGood' \in [Conditions -> Moment]
      /\ \A k \in Conditions : RunOf(k)'
      /\ \A k \in Conditions : k # c => /\ mCond'[k] = mCond[k] /\ mNotBad'[k] = mNotBad[k]
                                        /\ mNotGood'[k] = mNotGood[k]
      /\ mCond[c].active = 0 /\ mCond'[c].active # 0 =>
           mNotBad'[c] < mCond'[c].active /\ mClock - mCond'[c].active >= Minutes[c]
      /\ mCond[c].active # 0 /\ mCond'[c].active = 0 /\ on => mClock - mNotGood'[c] > Hold[c]
  BY <1>2, <1>3, <1>4, <1>5, JudgedKeeps
<1>7. QED
  BY <1>1, <1>6 DEF c, on

\* What observe does after its first await.
LEMMA RateEffect ==
  ASSUME MonitorInv, ObserveRate
  PROVE  LET c == "message_rate"
         IN  /\ mSampled' = mSampled /\ mPc = "rate"
             /\ mCond' \in [Conditions -> Cond] /\ mNotBad' \in [Conditions -> Moment]
             /\ mNotGood' \in [Conditions -> Moment]
             /\ \A k \in Conditions : RunOf(k)'
             /\ \A k \in Conditions : k # c => /\ mCond'[k] = mCond[k] /\ mNotBad'[k] = mNotBad[k]
                                               /\ mNotGood'[k] = mNotGood[k]
             /\ mCond[c].active = 0 /\ mCond'[c].active # 0 =>
                  mNotBad'[c] < mCond'[c].active /\ mSampled - mCond'[c].active >= Minutes[c]
             /\ mCond[c].active # 0 /\ mCond'[c].active = 0 /\ c \in mSeen.on =>
                  mSampled - mNotGood'[c] > Hold[c]
<1> DEFINE c == "message_rate"  on == c \in mSeen.on
<1>1. mSampled' = mSampled /\ mPc = "rate"
  BY DEF ObserveRate
<1>2. c \in Conditions /\ mSampled \in Nat /\ mSampled \in 0 .. mClock /\ mClock \in Nat
  BY DEF MonitorInv, MonitorTypes, MonitorTypeOK, Conditions
<1>3. mNotBad[c] < mSampled /\ mNotGood[c] < mSampled
  BY <1>1 DEF MonitorInv, RunsInv
<1>4. mSampled \in 1 .. mClock /\ mSampled <= mSampled
  <2>1. mNotBad[c] \in Nat
    BY <1>2 DEF MonitorInv, MonitorTypes, Moment
  <2>2. QED
    BY <1>2, <1>3, <2>1
<1>5. PICK bad \in BOOLEAN, good \in BOOLEAN : JudgedAt(c, on, bad, good, mSampled)
  BY RateIsJudged
<1>6. on \in BOOLEAN
  OBVIOUS
<1> HIDE DEF c, on
<1>7. /\ mCond' \in [Conditions -> Cond] /\ mNotBad' \in [Conditions -> Moment]
      /\ mNotGood' \in [Conditions -> Moment]
      /\ \A k \in Conditions : RunOf(k)'
      /\ \A k \in Conditions : k # c => /\ mCond'[k] = mCond[k] /\ mNotBad'[k] = mNotBad[k]
                                        /\ mNotGood'[k] = mNotGood[k]
      /\ mCond[c].active = 0 /\ mCond'[c].active # 0 =>
           mNotBad'[c] < mCond'[c].active /\ mSampled - mCond'[c].active >= Minutes[c]
      /\ mCond[c].active # 0 /\ mCond'[c].active = 0 /\ on => mSampled - mNotGood'[c] > Hold[c]
  BY <1>2, <1>3, <1>4, <1>5, <1>6, JudgedKeeps
<1>8. QED
  BY <1>1, <1>7 DEF c, on

\* One observation of the decoder condition.
LEMMA DecoderStep ==
  ASSUME MonitorInv, ObserveDecoder
  PROVE  MonitorInv'
<1>1. /\ UNCHANGED <<mSky, mClock, mAnswers, mUpSince, mUp, mHealth, mWake, mEnabled, mPersisted,
                     mMeta, mBudget, mOpen, mTorn>>
      /\ mSeen' = [connected |-> mHealth.state = "connected", on |-> mEnabled] /\ mPc' = "rate"
  BY DEF ObserveDecoder, mSky
<1>2. /\ mSampled < mClock /\ mSampled' = mClock
      /\ mCond' \in [Conditions -> Cond] /\ mNotBad' \in [Conditions -> Moment]
      /\ mNotGood' \in [Conditions -> Moment]
      /\ \A k \in Conditions : RunOf(k)'
      /\ \A k \in Conditions : k # "decoder_down" => mNotBad'[k] = mNotBad[k] /\ mNotGood'[k] = mNotGood[k]
  BY DecoderEffect
<1>3. MonitorTypes'
  <2>1. mSampled' \in 0 .. mClock
    BY <1>2 DEF MonitorInv, MonitorTypes, MonitorTypeOK
  <2>2. mSeen' \in [connected : BOOLEAN, on : SUBSET Conditions]
    BY <1>1 DEF MonitorInv, MonitorTypes, MonitorTypeOK
  <2>3. MonitorTypeOK'
    BY <1>1, <1>2 DEF MonitorInv, MonitorTypes, MonitorTypeOK, Cond, Moment
  <2>4. {mPersisted, mMeta, mOpen, mNotBad, mNotGood}' \subseteq [Conditions -> Moment]
    BY <1>1, <1>2 DEF MonitorInv, MonitorTypes
  <2>5. mBudget' \in Budget /\ mUpSince' \in Nat
    BY <1>1 DEF MonitorInv, MonitorTypes
  <2>6. QED
    BY <1>1, <2>1, <2>2, <2>3, <2>4, <2>5 DEF MonitorTypes
<1>4. RunsInv'
  <2>1. mNotBad'["message_rate"] < mSampled' /\ mNotGood'["message_rate"] < mSampled'
    <3> DEFINE c == "message_rate"
    <3>1. mNotBad[c] \in Nat /\ mNotGood[c] \in Nat /\ mSampled \in Nat /\ mClock \in Nat
      BY DEF MonitorInv, MonitorTypes, MonitorTypeOK, Moment, Conditions
    <3>2. mNotBad[c] <= mSampled /\ mNotGood[c] <= mSampled
      BY DEF MonitorInv, RunsInv, RunOf, Conditions
    <3>3. mNotBad'[c] = mNotBad[c] /\ mNotGood'[c] = mNotGood[c]
      BY <1>2 DEF Conditions
    <3> HIDE DEF c
    <3>4. mNotBad[c] < mClock /\ mNotGood[c] < mClock
      BY <1>2, <3>1, <3>2
    <3>5. QED
      BY <1>2, <3>3, <3>4 DEF c
  <2>2. QED
    BY <1>2, <2>1 DEF RunsInv
<1>5. EpisodesInv'
  BY <1>1 DEF MonitorInv, EpisodesInv, EpisodeOf, ObserveDecoder
<1>6. BackoffInv'
  BY <1>1, LoopAside DEF MonitorInv
<1>7. QED
  BY <1>3, <1>4, <1>5, <1>6 DEF MonitorInv

\* One observation of the message-rate condition.
LEMMA RateStep ==
  ASSUME MonitorInv, ObserveRate
  PROVE  MonitorInv'
<1> DEFINE now == [k \in Conditions |-> mCond'[k].active]
<1>1. /\ UNCHANGED <<mSky, mClock, mAnswers, mUpSince, mUp, mHealth, mWake, mEnabled, mSampled,
                     mSeen, mPersisted, mMeta, mBudget, mTorn>>
      /\ mOpen' = now /\ mPc' \in {"idle", "persist"} /\ mUp
  BY DEF ObserveRate, mSky
<1>2. /\ mCond' \in [Conditions -> Cond] /\ mNotBad' \in [Conditions -> Moment]
      /\ mNotGood' \in [Conditions -> Moment]
      /\ \A k \in Conditions : RunOf(k)'
  BY RateEffect
<1>3. now \in [Conditions -> Moment] /\ \A k \in Conditions : now[k] = mCond'[k].active
  BY <1>2 DEF Cond
<1> HIDE DEF now
<1>4. MonitorTypes'
  <2>1. MonitorTypeOK'
    BY <1>1, <1>2 DEF MonitorInv, MonitorTypes, MonitorTypeOK, Cond, Moment
  <2>2. {mPersisted, mMeta, mOpen, mNotBad, mNotGood}' \subseteq [Conditions -> Moment]
    BY <1>1, <1>2, <1>3 DEF MonitorInv, MonitorTypes
  <2>3. QED
    BY <1>1, <2>1, <2>2 DEF MonitorInv, MonitorTypes
<1>5. RunsInv'
  BY <1>1, <1>2 DEF RunsInv
<1>6. EpisodesInv'
  BY <1>1, <1>3 DEF MonitorInv, EpisodesInv, EpisodeOf
<1>7. BackoffInv'
  BY <1>1, LoopAside DEF MonitorInv
<1>8. QED
  BY <1>4, <1>5, <1>6, <1>7 DEF MonitorInv
-----------------------------------------------------------------------------
(* The meta row, stopping and starting.                                    *)

\* The episodes memory holds.
LEMMA EpisodesHeld ==
  ASSUME MonitorTypes
  PROVE  /\ mCond \in [Conditions -> Cond] /\ MaxMonitorClock \in Nat \ {0} /\ BackoffMax \in Nat
         /\ [k \in Conditions |-> mCond[k].active] \in [Conditions -> Moment]
         /\ Nothing \in [Conditions -> Moment] /\ \A c \in Conditions : Nothing[c] = 0
<1>1. mCond \in [Conditions -> Cond]
  BY DEF MonitorTypes, MonitorTypeOK, Cond, Moment
<1>2. \A k \in Conditions : mCond[k].active \in Moment
  BY <1>1 DEF Cond
<1>3. MaxMonitorClock \in Nat \ {0} /\ BackoffMax \in Nat
  BY MonitorConstants
<1>4. QED
  BY <1>1, <1>2, <1>3 DEF Nothing, Never, Moment

\* The pending transition of a condition is saved, or its save fails.
LEMMA PersistStep ==
  ASSUME MonitorInv, NEW ok \in BOOLEAN, Persist(ok)
  PROVE  MonitorInv'
<1> DEFINE state == [k \in Conditions |-> mCond[k].active]
<1>1. /\ UNCHANGED <<mSky, mClock, mAnswers, mUpSince, mUp, mHealth, mWake, mCond, mEnabled,
                     mSampled, mSeen, mOpen, mNotBad, mNotGood, mTorn>>
      /\ mUp /\ mPc = "persist" /\ mPc' = "idle"
      /\ \/ mMeta' = state /\ mPersisted' = state /\ mBudget' = mBudget
         \/ /\ UNCHANGED <<mMeta, mPersisted>> /\ mBudget.faults > 0
            /\ mBudget' = [mBudget EXCEPT !.faults = @ - 1]
  BY DEF Persist, mSky
<1>2. state \in [Conditions -> Moment]
  BY EpisodesHeld DEF MonitorInv
<1> HIDE DEF state
<1>3. mBudget' \in Budget
  BY <1>1 DEF MonitorInv, MonitorTypes, Budget
<1>4. MonitorTypes'
  <2>1. MonitorTypeOK'
    BY <1>1 DEF MonitorInv, MonitorTypes, MonitorTypeOK
  <2>2. {mPersisted, mMeta, mOpen, mNotBad, mNotGood}' \subseteq [Conditions -> Moment]
    BY <1>1, <1>2 DEF MonitorInv, MonitorTypes
  <2>3. QED
    BY <1>1, <1>3, <2>1, <2>2 DEF MonitorInv, MonitorTypes
<1>5. RunsInv'
  BY <1>1 DEF MonitorInv, RunsInv, RunOf
<1>6. EpisodesInv'
  BY <1>1 DEF MonitorInv, EpisodesInv, EpisodeOf
<1>7. BackoffInv'
  BY <1>1, LoopAside DEF MonitorInv
<1>8. QED
  BY <1>4, <1>5, <1>6, <1>7 DEF MonitorInv

\* The process ends: what is open on disk is what it leaves.
LEMMA EndStep ==
  ASSUME MonitorInv, NEW committed \in BOOLEAN, EndMonitor(committed)
  PROVE  MonitorInv'
<1> DEFINE state == [k \in Conditions |-> mCond[k].active]
           meta == IF committed THEN state ELSE mMeta
<1>1. /\ UNCHANGED <<mSky, mClock, mAnswers, mUpSince, mWake, mEnabled, mSampled, mSeen, mOpen,
                     mNotBad, mNotGood>>
      /\ mUp' = FALSE /\ mMeta' = meta /\ mPc' = "idle" /\ mPersisted' = Nothing
      /\ mCond' = [c \in Conditions |-> Quiet] /\ mHealth' = NewHealth
      /\ mTorn' = mTorn \cup {c \in Conditions : meta[c] # mOpen[c]}
      /\ mBudget.restarts > 0 /\ mBudget' = [mBudget EXCEPT !.restarts = @ - 1]
  BY DEF EndMonitor, mSky
<1>2. meta \in [Conditions -> Moment] /\ Nothing \in [Conditions -> Moment]
  BY EpisodesHeld DEF MonitorInv, MonitorTypes
<1> HIDE DEF meta
<1>3. mBudget' \in Budget
  BY <1>1 DEF MonitorInv, MonitorTypes, Budget
<1>4. mCond' \in [Conditions -> Cond] /\ \A c \in Conditions : mCond'[c].bad = 0 /\ mCond'[c].good = 0
  BY <1>1, QuietIs
<1>5. MonitorTypes'
  <2>1. mHealth' \in [state : {"connected", "degraded", "down"}, fails : 0 .. DownAfter + BackoffMax]
    BY <1>1, MonitorConstants DEF NewHealth
  <2>2. MonitorTypeOK'
    BY <1>1, <1>4, <2>1 DEF MonitorInv, MonitorTypes, MonitorTypeOK, Cond, Moment
  <2>3. {mPersisted, mMeta, mOpen, mNotBad, mNotGood}' \subseteq [Conditions -> Moment]
    BY <1>1, <1>2 DEF MonitorInv, MonitorTypes
  <2>4. QED
    BY <1>1, <1>3, <2>2, <2>3 DEF MonitorInv, MonitorTypes
<1>6. RunsInv'
  BY <1>1, <1>4 DEF MonitorInv, RunsInv, RunOf, Never
<1>7. EpisodesInv'
  BY <1>1 DEF EpisodesInv, EpisodeOf
<1>8. BackoffInv'
  BY <1>1 DEF BackoffInv
<1>9. QED
  BY <1>5, <1>6, <1>7, <1>8 DEF MonitorInv

\* start resumes what the last process left open.
LEMMA StartMonitorStep ==
  ASSUME MonitorInv, NEW read \in BOOLEAN, StartMonitor(read)
  PROVE  MonitorInv'
<1> DEFINE got == IF read THEN mMeta ELSE Nothing
<1>1. /\ UNCHANGED <<mSky, mClock, mAnswers, mUpSince, mHealth, mEnabled, mSampled, mPc, mSeen,
                     mMeta, mOpen, mNotBad, mNotGood>>
      /\ ~mUp /\ mUp' = TRUE /\ mWake' = mClock /\ mPersisted' = got
      /\ mCond' = [c \in Conditions |-> IF read THEN [Quiet EXCEPT !.active = mMeta[c]] ELSE Quiet]
      /\ mTorn' = IF read THEN mTorn ELSE mTorn \cup {c \in Conditions : mMeta[c] # Never}
      /\ read \/ mBudget.faults > 0
      /\ mBudget' = [mBudget EXCEPT !.faults = IF read THEN @ ELSE @ - 1]
  BY DEF StartMonitor, mSky
<1>2. mMeta \in [Conditions -> Moment] /\ got \in [Conditions -> Moment]
  BY EpisodesHeld DEF MonitorInv, MonitorTypes
<1>3. mBudget' \in Budget
  BY <1>1 DEF MonitorInv, MonitorTypes, Budget
<1>4. \A c \in Conditions : /\ mCond'[c].bad = 0 /\ mCond'[c].good = 0 /\ mCond'[c].active = got[c]
                            /\ mCond'[c] \in Cond
  BY <1>1, <1>2, QuietIs, EpisodesHeld DEF MonitorInv, Cond, Quiet, Never
<1>5. mCond' \in [Conditions -> Cond]
  BY <1>1, <1>4
<1>6. MonitorTypes'
  <2>1. mWake' \in 1 .. MaxMonitorClock + BackoffMax
    BY <1>1, MonitorConstants DEF MonitorInv, MonitorTypes, MonitorTypeOK
  <2>2. MonitorTypeOK'
    BY <1>1, <1>5, <2>1 DEF MonitorInv, MonitorTypes, MonitorTypeOK, Cond, Moment
  <2>3. {mPersisted, mMeta, mOpen, mNotBad, mNotGood}' \subseteq [Conditions -> Moment]
    BY <1>1, <1>2 DEF MonitorInv, MonitorTypes
  <2>4. QED
    BY <1>1, <1>3, <2>2, <2>3 DEF MonitorInv, MonitorTypes
<1>7. RunsInv'
  BY <1>1, <1>4 DEF MonitorInv, RunsInv, RunOf, Never
<1>8. EpisodesInv'
  <2>1. ASSUME NEW c \in Conditions, c \notin mTorn'
        PROVE  EpisodeOf(c)'
    <3>1. mMeta[c] = mOpen[c]
      BY <1>1, <2>1 DEF MonitorInv, EpisodesInv, EpisodeOf
    <3>2. got[c] = mMeta[c]
      BY <1>1, <2>1 DEF Nothing
    <3>3. QED
      BY <1>1, <1>4, <3>1, <3>2 DEF EpisodeOf
  <2>2. QED
    BY <2>1 DEF EpisodesInv
<1>9. BackoffInv'
  <2>1. mClock \in Nat /\ BackoffMax \in Nat
    BY MonitorConstants DEF MonitorInv, MonitorTypes, MonitorTypeOK
  <2>2. QED
    BY <1>1, <2>1 DEF BackoffInv
<1>10. QED
  BY <1>6, <1>7, <1>8, <1>9 DEF MonitorInv
-----------------------------------------------------------------------------

\* A receiver that was never observed.
LEMMA MonitorStarts ==
  ASSUME MonitorInit
  PROVE  MonitorInv
<1>1. \A c \in Conditions : mCond[c] = Quiet /\ mNotBad[c] = 0 /\ mNotGood[c] = 0
  BY DEF MonitorInit, Nothing, Never
<1>2. Nothing \in [Conditions -> Moment] /\ Quiet \in Cond
  BY MonitorConstants, QuietIs DEF Nothing, Never, Moment
<1>3. MonitorTypeOK
  <2>1. mCond \in [Conditions -> Cond]
    BY <1>2 DEF MonitorInit
  <2>2. mHealth \in [state : {"connected", "degraded", "down"}, fails : 0 .. DownAfter + BackoffMax]
    BY MonitorConstants DEF MonitorInit, NewHealth
  <2>3. mClock \in 1 .. MaxMonitorClock /\ mWake \in 1 .. MaxMonitorClock + BackoffMax
    BY MonitorConstants DEF MonitorInit
  <2>4. {mUp, mAnswers} \subseteq BOOLEAN /\ mPc \in {"idle", "rate", "persist"}
        /\ mEnabled \subseteq Conditions
    BY DEF MonitorInit
  <2>5. QED
    BY <2>1, <2>2, <2>3, <2>4 DEF MonitorTypeOK, Cond, Moment
<1>4. mBudget \in Budget
  BY MonitorConstants DEF MonitorInit, Budget
<1>5. MonitorTypes
  BY <1>2, <1>3, <1>4 DEF MonitorInit, MonitorTypes
<1>6. RunsInv
  BY <1>1, QuietIs DEF MonitorInit, RunsInv, RunOf, Never
<1>7. EpisodesInv
  BY DEF MonitorInit, EpisodesInv, EpisodeOf
<1>8. BackoffInv
  BY DEF MonitorInit, BackoffInv
<1>9. QED
  BY <1>5, <1>6, <1>7, <1>8 DEF MonitorInv

\* Every step of the specification keeps the invariant.
LEMMA MonitorStep ==
  ASSUME MonitorInv, [MonitorNext]_mVars
  PROVE  MonitorInv'
<1>1. CASE UNCHANGED mVars
  <2>1. MonitorTypes'
    BY <1>1 DEF MonitorInv, MonitorTypes, MonitorTypeOK, mVars
  <2>2. BackoffInv'
    BY <1>1 DEF MonitorInv, BackoffInv, mVars
  <2>3. UNCHANGED <<mAlerts, mUp>>
    BY <1>1 DEF mVars, mAlerts
  <2>4. QED
    BY <2>1, <2>2, <2>3, AlertsAside DEF MonitorInv
<1>2. CASE Poll
  BY <1>2, PollStep
<1>3. CASE DecoderFlips
  BY <1>3, FlipsStep
<1>4. CASE MonitorTick
  BY <1>4, TickStep
<1>5. CASE ObserveDecoder
  BY <1>5, DecoderStep
<1>6. CASE ObserveRate
  BY <1>6, RateStep
<1>7. CASE \E ok \in BOOLEAN : Persist(ok) \/ EndMonitor(ok) \/ StartMonitor(ok)
  BY <1>7, PersistStep, EndStep, StartMonitorStep
<1>8. CASE \E c \in Conditions : ToggleSelfAlert(c)
  BY <1>8, ToggleStep
<1>9. QED
  BY <1>1, <1>2, <1>3, <1>4, <1>5, <1>6, <1>7, <1>8 DEF MonitorNext

\* Health, backoff, conditions and the meta row keep their shape (ingest/health.py,
\* alerts/self_alerts.py).
THEOREM MonitorIsInvariant == MonitorSpec => []MonitorInv
<1>1. QED
  BY MonitorStarts, MonitorStep, PTL DEF MonitorSpec

\* A decoder that answers again is picked up within the backoff's ceiling
\* however long it was away (retry_delay_s), and the open episodes of memory,
\* the meta row and the feed agree across restarts (_persist, start).
THEOREM MonitorPromises == MonitorSpec => []MonitorInvariant
<1>1. MonitorInv => ReconnectIsPrompt
  <2> SUFFICES ASSUME MonitorInv, mUp, mAnswers, mClock > mUpSince + BackoffMax, mWake > mClock
               PROVE  mHealth.state = "connected"
    BY DEF ReconnectIsPrompt
  <2>1. mWake \in Nat /\ mClock \in Nat /\ mUpSince \in Nat /\ BackoffMax \in Nat
    BY MonitorConstants DEF MonitorInv, MonitorTypes, MonitorTypeOK
  <2>2. QED
    BY <2>1 DEF MonitorInv, BackoffInv
<1>2. MonitorInv => EpisodeSurvivesRestart
  BY DEF MonitorInv, EpisodesInv, EpisodeOf, EpisodeSurvivesRestart
<1>3. MonitorInv => MonitorInvariant
  BY <1>1, <1>2 DEF MonitorInv, MonitorTypes, MonitorInvariant
<1>4. QED
  BY <1>3, MonitorIsInvariant, PTL

\* The step that judges a condition, and what it is judged by.
LEMMA OnlyJudged ==
  ASSUME MonitorInv, [MonitorNext]_mVars, mUp, mUp', NEW c \in Conditions
  PROVE  \/ mCond'[c].active = mCond[c].active
         \/ ObserveDecoder /\ c = "decoder_down"
         \/ ObserveRate /\ c = "message_rate"
<1>1. CASE ObserveDecoder
  BY <1>1, DecoderEffect
<1>2. CASE ObserveRate
  BY <1>2, RateEffect
<1>3. CASE mCond' = mCond
  BY <1>3
<1>4. ASSUME NEW ok \in BOOLEAN, EndMonitor(ok) \/ StartMonitor(ok)
      PROVE  FALSE
  BY <1>4 DEF EndMonitor, StartMonitor
<1>5. QED
  BY <1>1, <1>2, <1>3, <1>4 DEF MonitorNext, Poll, DecoderFlips, MonitorTick, ToggleSelfAlert,
                                Persist, mAlerts, mVars

\* An alert says its condition held at every sample since the time it names,
\* for at least the configured minutes (_bad, _hold, reset).
THEOREM RaisesAreContinuous == MonitorSpec => RaiseIsContinuous
<1> DEFINE Raised == \A c \in Conditions :
             mCond[c].active = Never /\ mCond'[c].active # Never /\ mUp
               => /\ mNotBad'[c] < mCond'[c].active
                  /\ mSampled' - mCond'[c].active >= Minutes[c]
<1>1. MonitorInv /\ [MonitorNext]_mVars => [Raised]_mVars
  <2> SUFFICES ASSUME MonitorInv, [MonitorNext]_mVars, NEW c \in Conditions,
                      mCond[c].active = Never, mCond'[c].active # Never, mUp
               PROVE  /\ mNotBad'[c] < mCond'[c].active
                      /\ mSampled' - mCond'[c].active >= Minutes[c]
    OBVIOUS
  <2>1. mUp'
    <3>1. ASSUME NEW ok \in BOOLEAN, EndMonitor(ok)
          PROVE  FALSE
      BY <3>1 DEF EndMonitor, Quiet
    <3>2. QED
      BY <3>1 DEF MonitorNext, Poll, DecoderFlips, MonitorTick, ToggleSelfAlert, ObserveDecoder,
                  ObserveRate, Persist, StartMonitor, mVars
  <2>2. (ObserveDecoder /\ c = "decoder_down") \/ (ObserveRate /\ c = "message_rate")
    BY <2>1, OnlyJudged
  <2>3. CASE ObserveDecoder /\ c = "decoder_down"
    BY <2>3, DecoderEffect DEF Never
  <2>4. CASE ObserveRate /\ c = "message_rate"
    BY <2>4, RateEffect DEF Never
  <2>5. QED
    BY <2>2, <2>3, <2>4
<1>2. QED
  BY <1>1, MonitorIsInvariant, PTL DEF MonitorSpec, RaiseIsContinuous

\* A restore follows recovered samples only, for longer than the whole hold: a
\* short reconnect never ends an episode (_good).
THEOREM RestoresAreEarned == MonitorSpec => RestoreIsEarned
<1> DEFINE Restored == \A c \in Conditions :
             mUp /\ mUp' /\ mCond[c].active # Never /\ mCond'[c].active = Never
                /\ c \in (IF mPc = "idle" THEN mEnabled ELSE mSeen.on)
               => mSampled' - mNotGood'[c] > Hold[c]
<1>1. MonitorInv /\ [MonitorNext]_mVars => [Restored]_mVars
  <2> SUFFICES ASSUME MonitorInv, [MonitorNext]_mVars, NEW c \in Conditions,
                      mUp, mUp', mCond[c].active # Never, mCond'[c].active = Never,
                      c \in (IF mPc = "idle" THEN mEnabled ELSE mSeen.on)
               PROVE  mSampled' - mNotGood'[c] > Hold[c]
    OBVIOUS
  <2>1. (ObserveDecoder /\ c = "decoder_down") \/ (ObserveRate /\ c = "message_rate")
    BY OnlyJudged
  <2>2. CASE ObserveDecoder /\ c = "decoder_down"
    BY <2>2, DecoderEffect DEF Never
  <2>3. CASE ObserveRate /\ c = "message_rate"
    BY <2>3, RateEffect DEF Never
  <2>4. QED
    BY <2>1, <2>2, <2>3
<1>2. QED
  BY <1>1, MonitorIsInvariant, PTL DEF MonitorSpec, RestoreIsEarned

(* --------------------------- the feeder service -------------------------- *)

Time      == 0 .. MaxFeederClock
Instants  == 1 .. MaxFeederClock
Standing  == Readings \cup {"unknown"}
Entry     == [state : Standing, ended : Time]
Probed    == [feeder : Feeders, ts : Instants]
Tracker   == [state : Standing, started : Time, held : 0 .. DownDebounce, firstDown : Time, outage : Time,
              lastSample : Time]

\* The episodes the write in progress carries, and those of the caller that waits behind it.
WriteIn(fl) == IF fl["poll"].pc = "write" THEN fl["poll"].episodes
               ELSE IF fl["apply"].pc = "write" THEN fl["apply"].episodes ELSE <<>>
WaitIn(fl)  == IF fl["poll"].pc = "wait" THEN fl["poll"].episodes
               ELSE IF fl["apply"].pc = "wait" THEN fl["apply"].episodes ELSE <<>>

Probing == fPoll.pc = "probing"
Polled  == fPoll.names \ DOMAIN fOrphan      \* the feeders whose own tracker the poll will move

\* An entry of a book, wherever it is kept: the table, the queue, a flush.
EntryInv(k, e) ==
  /\ k \in Feeders \X Instants /\ e \in Entry /\ k[2] <= fPoll.now
  /\ e.ended # NoTime => k[2] <= e.ended /\ e.ended <= fClock
  /\ e.state = "down" => Announced(k[1], k[2])
  /\ Probing => k[2] < fPoll.now /\ (k[1] \in Polled => e.ended <= fPoll.now)
BookInv(b) == \A k \in DOMAIN b : EntryInv(k, b[k])

FlushShape(fl) ==
  /\ DOMAIN fl = Callers
  /\ \A c \in Callers : fl[c].pc \in {"none", "wait", "write"} /\ fl[c].samples \in Seq(Probed)
  /\ ~(fl["poll"].pc = "write" /\ fl["apply"].pc = "write")
  /\ fl["poll"].pc = "wait" => fl["apply"].pc = "write"
  /\ fl["apply"].pc = "wait" => fl["poll"].pc = "write"
FlushInv == FlushShape(fFlush) /\ \A c \in Callers : BookInv(fFlush[c].episodes)

SampleInv ==
  /\ fSamples \subseteq Probed
  /\ fSamplesQ \in Seq(Probed) /\ Len(fSamplesQ) <= MaxPending

\* A tracker, in the dict or kept by a poll after its removal.
TrackerOk(t, now) ==
  /\ t \in Tracker /\ t.started <= now /\ t.outage <= now
  /\ t.state # "down" => t.held < DownDebounce
  /\ t.held = 0 => t.firstDown = NoTime
  /\ t.held # 0 => t.firstDown # NoTime /\ t.started <= t.firstDown /\ t.outage <= t.firstDown /\ t.firstDown <= now
TrackerInv(f, t) ==
  /\ TrackerOk(t, fPoll.now)
  /\ Probing => t.started < fPoll.now
  /\ t.outage # NoTime => Announced(f, t.outage)
  /\ t.state = "down" /\ t.started # NoTime => Announced(f, t.started)

\* What it knows of the readings since good, the last one that was not down.
DatesOk(t, good) ==
  /\ t.started = NoTime => t.held = 0
  /\ t.held # 0 => good < t.firstDown
  /\ t.state = "down" /\ t.started # NoTime => good < t.started

PollInv ==
  /\ fPoll \in [pc : {"idle", "probing", "flushing"}, now : 0 .. fClock, names : SUBSET Feeders]
  /\ fLastGood \in [Feeders -> 0 .. fPoll.now]
  /\ DOMAIN fTracker \subseteq Feeders /\ DOMAIN fOrphan \subseteq Feeders
  /\ \A f \in DOMAIN fTracker : TrackerInv(f, fTracker[f]) /\ DatesOk(fTracker[f], fLastGood[f])
  /\ \A f \in DOMAIN fOrphan : TrackerInv(f, fOrphan[f])
  /\ Probing => /\ fPoll.names \subseteq DOMAIN fTracker \cup DOMAIN fOrphan
                /\ DOMAIN fOrphan \subseteq fPoll.names
                /\ \A f \in Feeders : fLastGood[f] < fPoll.now
                /\ \A f \in DOMAIN fTracker \cap DOMAIN fOrphan : fTracker[f] = NewTracker

FactInv ==
  /\ fFacts \subseteq [feeder : Feeders, offline : BOOLEAN, since : Instants]
  /\ RestoreFollowsOffline

\* What a process that is not running keeps in memory.
DownInv ==
  ~fUp => /\ fSamplesQ = <<>> /\ fEpisodesQ = <<>> /\ fOrphan = <<>> /\ fPoll.pc = "idle"
          /\ \A c \in Callers : fFlush[c] = NoFlush
          /\ \A f \in DOMAIN fTracker : fTracker[f] = NewTracker
          /\ \A f \in Feeders : fLastGood[f] = NoTime

(* One feeder's episodes by their start: R in the table, W and V in the    *)
(* write in progress and the one that waits, Q in the queue.               *)
Times(b, f) == {k[2] : k \in {l \in DOMAIN b : l[1] = f}}
Of(b, f)    == [t \in Times(b, f) |-> b[<<f, t>>]]
Open(state) == [state |-> state, ended |-> NoTime]

\* Every episode of X has ended by the time a later one of Y begins; in Lag, an open one is told of by Y too.
Before(X, Y) == \A t \in DOMAIN X, u \in DOMAIN Y : t < u => X[t].ended # NoTime /\ X[t].ended <= u
Lag(X, Y)    == \A t \in DOMAIN X, u \in DOMAIN Y :
                  t < u => IF X[t].ended = NoTime THEN t \in DOMAIN Y ELSE X[t].ended <= u
InOrder(R, W, V, Q) ==
  /\ Before(R, R) /\ Before(W, W) /\ Before(V, V) /\ Before(Q, Q)
  /\ Before(W, R) /\ Before(V, R) /\ Before(Q, R) /\ Before(V, W) /\ Before(Q, W) /\ Before(Q, V)
  /\ Lag(R, W) /\ Lag(R, V) /\ Lag(R, Q) /\ Lag(W, V) /\ Lag(W, Q) /\ Lag(V, Q)

\* An open episode is the current one or about to be overwritten, and a waiting write reopens nothing.
OpenOnly(X, Q, c) == \A t \in DOMAIN X : X[t].ended = NoTime => t = c \/ t \in DOMAIN Q
OpensAre(R, W, V, Q, c) ==
  /\ OpenOnly(R, Q, c) /\ OpenOnly(W, Q, c) /\ OpenOnly(V, Q, c)
  /\ \A t \in DOMAIN Q : Q[t].ended = NoTime => t = c
  /\ \A t \in DOMAIN W \cap DOMAIN V : W[t].ended # NoTime => V[t].ended # NoTime

\* The episode that began at c is the newest one, it is open, and its state s is what is written last.
CurrentIn(X, Q, c, s) ==
  \A t \in DOMAIN X : t <= c /\ (t = c => X[t].ended = NoTime /\ (s # "down" \/ c \notin DOMAIN Q => X[t] = Open(s)))
CurrentIs(R, W, V, Q, c, s) ==
  /\ c \in DOMAIN R \cup DOMAIN Q
  /\ CurrentIn(R, Q, c, s) /\ CurrentIn(W, Q, c, s) /\ CurrentIn(V, Q, c, s) /\ CurrentIn(Q, Q, c, s)
  /\ c \in DOMAIN Q => Q[c] = Open(s)
  /\ c \in DOMAIN W \cap DOMAIN V /\ W[c] = Open(s) => V[c] = Open(s)

Ledger(R, W, V, Q, c, s) ==
  /\ InOrder(R, W, V, Q) /\ OpensAre(R, W, V, Q, c)
  /\ c # NoTime => CurrentIs(R, W, V, Q, c, s)

Current(f)    == IF f \in DOMAIN fTracker THEN fTracker[f].started ELSE NoTime
StandingOf(f) == IF f \in DOMAIN fTracker THEN fTracker[f].state ELSE "unknown"
LedgerInv ==
  \A f \in Feeders \ fLate :
    Ledger(Of(fRows, f), Of(WriteIn(fFlush), f), Of(WaitIn(fFlush), f), Of(fEpisodesQ, f), Current(f), StandingOf(f))
TableInv == \A f \in Feeders \ fLate : Before(Of(fRows, f), Of(fRows, f))

FeederInv ==
  /\ fClock \in Instants /\ fUp \in BOOLEAN
  /\ BookInv(fRows) /\ BookInv(fEpisodesQ) /\ FlushInv /\ SampleInv /\ PollInv /\ FactInv /\ DownInv
  /\ fUp => LedgerInv
  /\ TableInv
\* T is the book X laid over the book Y.
Over(T, X, Y) ==
  /\ DOMAIN T = DOMAIN X \cup DOMAIN Y
  /\ \A t \in DOMAIN X : T[t] = X[t]
  /\ \A t \in DOMAIN Y : t \notin DOMAIN X => T[t] = Y[t]

\* That is what an upsert leaves.
LEMMA UpsertIs ==
  ASSUME NEW X, NEW Y
  PROVE  Over(Upsert(X, Y), X, Y)
BY DEF Upsert, Over

\* The books of a ledger are about instants.
Dated(X) == DOMAIN X \subseteq Nat \ {NoTime} /\ \A t \in DOMAIN X : X[t].ended \in Nat

\* A book that only drops entries stays in order with the others.
LEMMA BeforeShrinks ==
  ASSUME NEW X, NEW Y, NEW X2, NEW Y2, Before(X, Y),
         \A t \in DOMAIN X2 : t \in DOMAIN X /\ X2[t] = X[t],
         DOMAIN Y2 \subseteq DOMAIN Y
  PROVE  Before(X2, Y2)
BY DEF Before

\* What is laid over a book comes before, or after, what both of them do.
LEMMA BeforeOver ==
  ASSUME NEW T, NEW W, NEW R, NEW Y, Over(T, W, R)
  PROVE  /\ Before(W, Y) /\ Before(R, Y) => Before(T, Y)
         /\ Before(Y, W) /\ Before(Y, R) => Before(Y, T)
         /\ Lag(W, Y) /\ Lag(R, Y) => Lag(T, Y)
<1>1. \A t \in DOMAIN T : (t \in DOMAIN W /\ T[t] = W[t]) \/ (t \in DOMAIN R /\ T[t] = R[t])
  BY DEF Over
<1>2. QED
  BY <1>1 DEF Before, Lag

\* A book laid over one that lags behind it leaves an orderly table.
LEMMA OverInOrder ==
  ASSUME NEW T, NEW W, NEW R, Over(T, W, R), Before(W, W), Before(R, R), Before(W, R), Lag(R, W)
  PROVE  Before(T, T)
<1>1. SUFFICES ASSUME NEW t \in DOMAIN T, NEW u \in DOMAIN T, t < u
               PROVE  T[t].ended # NoTime /\ T[t].ended <= u
  BY DEF Before
<1>2. u \in DOMAIN W \/ u \in DOMAIN R
  BY DEF Over
<1>3. CASE t \in DOMAIN W
  BY <1>1, <1>2, <1>3 DEF Before, Over
<1>4. CASE t \notin DOMAIN W
  <2>1. t \in DOMAIN R /\ T[t] = R[t]
    BY <1>4 DEF Over
  <2>2. QED
    BY <1>1, <1>2, <1>4, <2>1 DEF Before, Lag
<1>5. QED
  BY <1>3, <1>4

\* A write that commits: its episodes are the table's, and those the queue still holds as they were
\* written leave it (flush).
LEMMA CommitKeeps ==
  ASSUME NEW R, NEW W, NEW V, NEW Q, NEW T, NEW Q2, NEW E, NEW c \in Nat, NEW s,
         Ledger(R, W, V, Q, c, s), Over(T, W, R),
         DOMAIN E = {}, Dated(R), Dated(W), Dated(V), Dated(Q),
         \A t \in DOMAIN Q2 : t \in DOMAIN Q /\ Q2[t] = Q[t],
         \A t \in DOMAIN Q : t \notin DOMAIN Q2 => t \in DOMAIN W /\ W[t] = Q[t]
  PROVE  Ledger(T, V, E, Q2, c, s)
<1>0. InOrder(R, W, V, Q) /\ OpensAre(R, W, V, Q, c) /\ (c # NoTime => CurrentIs(R, W, V, Q, c, s))
  BY DEF Ledger
<1>1. /\ Before(R, R) /\ Before(W, W) /\ Before(V, V) /\ Before(Q, Q)
      /\ Before(W, R) /\ Before(V, R) /\ Before(Q, R) /\ Before(V, W) /\ Before(Q, W) /\ Before(Q, V)
      /\ Lag(R, W) /\ Lag(R, V) /\ Lag(R, Q) /\ Lag(W, V) /\ Lag(W, Q) /\ Lag(V, Q)
  BY <1>0 DEF InOrder
<1>2. DOMAIN T = DOMAIN W \cup DOMAIN R /\ (\A t \in DOMAIN W : T[t] = W[t])
      /\ \A t \in DOMAIN R : t \notin DOMAIN W => T[t] = R[t]
  BY DEF Over
<1>3. Before(T, T) /\ Before(V, T) /\ Before(Q2, T)
  <2>1. Before(T, T)
    BY <1>1, OverInOrder
  <2>2. Before(V, T) /\ Before(Q, T)
    BY <1>1, BeforeOver
  <2>3. QED
    BY <2>1, <2>2, BeforeShrinks
<1>4. Before(Q2, Q2) /\ Before(Q2, V) /\ Before(V, V)
  BY <1>1, BeforeShrinks
<1>5. Lag(T, V)
  BY <1>1, BeforeOver
<1>6. Lag(T, Q2)
  <2>1. Lag(T, Q)
    BY <1>1, BeforeOver
  <2>2. SUFFICES ASSUME NEW t \in DOMAIN T, NEW u \in DOMAIN Q2, t < u, t \in DOMAIN Q, t \notin DOMAIN Q2
                 PROVE  T[t].ended # NoTime /\ T[t].ended <= u
    BY <2>1 DEF Lag, NoTime
  <2>3. T[t] = Q[t]
    BY <1>2, <2>2
  <2>4. QED
    BY <1>1, <2>2, <2>3 DEF Before
<1>7. Lag(V, Q2)
  <2>1. SUFFICES ASSUME NEW t \in DOMAIN V, NEW u \in DOMAIN Q2, t < u, t \in DOMAIN Q, t \notin DOMAIN Q2
                 PROVE  V[t].ended # NoTime /\ V[t].ended <= u
    BY <1>1 DEF Lag
  <2>2. t \in DOMAIN W /\ W[t] = Q[t] /\ u \in DOMAIN Q
    BY <2>1
  <2>3. W[t].ended # NoTime
    BY <1>1, <2>1, <2>2 DEF Before
  <2>4. V[t].ended # NoTime
    BY <1>0, <2>1, <2>2, <2>3 DEF OpensAre
  <2>5. V[t].ended <= u
    BY <1>1, <2>1, <2>2, <2>4 DEF Lag
  <2>6. QED
    BY <2>4, <2>5
<1>8. InOrder(T, V, E, Q2)
  BY <1>3, <1>4, <1>5, <1>6, <1>7 DEF InOrder, Before, Lag
<1>9. OpensAre(T, V, E, Q2, c)
  <2>0. /\ OpenOnly(R, Q, c) /\ OpenOnly(W, Q, c) /\ OpenOnly(V, Q, c)
        /\ \A t \in DOMAIN Q : Q[t].ended = NoTime => t = c
        /\ \A t \in DOMAIN W \cap DOMAIN V : W[t].ended # NoTime => V[t].ended # NoTime
    BY <1>0 DEF OpensAre
  <2>1. ASSUME NEW t \in DOMAIN T, T[t].ended = NoTime, t # c PROVE t \in DOMAIN Q2
    <3>1. t \in DOMAIN Q
      BY <1>2, <2>0, <2>1 DEF OpenOnly
    <3>2. Q[t].ended # NoTime
      BY <2>0, <2>1, <3>1
    <3>3. QED
      BY <1>2, <2>1, <3>1, <3>2
  <2>2. ASSUME NEW t \in DOMAIN V, V[t].ended = NoTime, t # c PROVE t \in DOMAIN Q2
    <3>1. t \in DOMAIN Q
      BY <2>0, <2>2 DEF OpenOnly
    <3>2. Q[t].ended # NoTime
      BY <2>0, <2>2, <3>1
    <3>3. QED
      BY <2>0, <2>2, <3>1, <3>2
  <2>3. QED
    BY <2>0, <2>1, <2>2 DEF OpensAre, OpenOnly
<1>10. ASSUME c # NoTime PROVE CurrentIs(T, V, E, Q2, c, s)
  <2>0. /\ c \in DOMAIN R \cup DOMAIN Q
        /\ CurrentIn(R, Q, c, s) /\ CurrentIn(W, Q, c, s) /\ CurrentIn(V, Q, c, s) /\ CurrentIn(Q, Q, c, s)
        /\ c \in DOMAIN Q => Q[c] = Open(s)
        /\ c \in DOMAIN W \cap DOMAIN V /\ W[c] = Open(s) => V[c] = Open(s)
    BY <1>0, <1>10 DEF CurrentIs
  <2>1. c \in DOMAIN T \cup DOMAIN Q2
    BY <1>2, <2>0
  <2>2. CASE c \in DOMAIN Q /\ c \notin DOMAIN Q2
    <3>1. c \in DOMAIN W /\ W[c] = Open(s) /\ T[c] = Open(s) /\ (c \in DOMAIN V => V[c] = Open(s))
      BY <1>2, <2>0, <2>2
    <3>2. CurrentIn(T, Q2, c, s) /\ CurrentIn(V, Q2, c, s) /\ CurrentIn(Q2, Q2, c, s)
      BY <1>2, <2>0, <2>2, <3>1 DEF CurrentIn, Open
    <3>3. QED
      BY <2>1, <2>2, <3>2 DEF CurrentIs, CurrentIn
  <2>3. CASE c \in DOMAIN Q <=> c \in DOMAIN Q2
    <3>1. CurrentIn(T, Q2, c, s) /\ CurrentIn(V, Q2, c, s) /\ CurrentIn(Q2, Q2, c, s)
      BY <1>2, <2>0, <2>3 DEF CurrentIn
    <3>2. QED
      BY <2>0, <2>1, <2>3, <3>1 DEF CurrentIs, CurrentIn
  <2>4. QED
    BY <2>2, <2>3
<1>11. QED
  BY <1>8, <1>9, <1>10 DEF Ledger

\* A write that fails or is dropped leaves the others as they were.
LEMMA DropKeeps ==
  ASSUME NEW R, NEW W, NEW V, NEW Q, NEW E, NEW c, NEW s, Ledger(R, W, V, Q, c, s), DOMAIN E = {}
  PROVE  Ledger(R, E, E, Q, c, s) /\ Ledger(R, V, E, Q, c, s) /\ Ledger(R, W, E, Q, c, s)
<1>1. InOrder(R, W, V, Q) /\ OpensAre(R, W, V, Q, c) /\ (c # NoTime => CurrentIs(R, W, V, Q, c, s))
  BY DEF Ledger
<1>2. InOrder(R, E, E, Q) /\ InOrder(R, V, E, Q) /\ InOrder(R, W, E, Q)
  BY <1>1 DEF InOrder, Before, Lag
<1>3. OpensAre(R, E, E, Q, c) /\ OpensAre(R, V, E, Q, c) /\ OpensAre(R, W, E, Q, c)
  BY <1>1 DEF OpensAre, OpenOnly
<1>4. c # NoTime => CurrentIs(R, E, E, Q, c, s) /\ CurrentIs(R, V, E, Q, c, s) /\ CurrentIs(R, W, E, Q, c, s)
  BY <1>1 DEF CurrentIs, CurrentIn
<1>5. QED
  BY <1>2, <1>3, <1>4 DEF Ledger

\* A flush that takes its copy of the queue, behind the write in progress or with none.
LEMMA CopyKeeps ==
  ASSUME NEW R, NEW W, NEW Q, NEW E, NEW c, NEW s, Ledger(R, W, E, Q, c, s), DOMAIN E = {}, Dated(Q)
  PROVE  Ledger(R, W, Q, Q, c, s) /\ Ledger(R, Q, E, Q, c, s)
<1>1. InOrder(R, W, E, Q) /\ OpensAre(R, W, E, Q, c) /\ (c # NoTime => CurrentIs(R, W, E, Q, c, s))
  BY DEF Ledger
<1>2. Before(Q, Q) => Lag(Q, Q)
  BY DEF Before, Lag
<1>3. InOrder(R, W, Q, Q)
  BY <1>1, <1>2 DEF InOrder
<1>4. OpensAre(R, W, Q, Q, c)
  <2>1. OpenOnly(Q, Q, c) /\ OpenOnly(R, Q, c) /\ OpenOnly(W, Q, c) /\ \A t \in DOMAIN Q : Q[t].ended = NoTime => t = c
    BY <1>1 DEF OpensAre, OpenOnly
  <2>2. ASSUME NEW t \in DOMAIN W \cap DOMAIN Q, W[t].ended # NoTime PROVE Q[t].ended # NoTime
    <3>1. CASE t = c
      <4>1. c # NoTime => W[t].ended = NoTime
        BY <1>1, <2>2, <3>1 DEF CurrentIs, CurrentIn
      <4>2. QED
        BY <2>2, <3>1, <4>1 DEF Dated
    <3>2. CASE t # c
      BY <2>1, <3>2
    <3>3. QED
      BY <3>1, <3>2
  <2>3. QED
    BY <2>1, <2>2 DEF OpensAre
<1>5. c # NoTime => CurrentIs(R, W, Q, Q, c, s)
  BY <1>1 DEF CurrentIs
<1>6. Ledger(R, W, Q, Q, c, s)
  BY <1>3, <1>4, <1>5 DEF Ledger
<1>7. QED
  BY <1>6, DropKeeps

\* Everything kept of a feeder whose current episode began at c is over by then, but that episode.
Bounded(X, c) == \A t \in DOMAIN X : /\ t <= c /\ X[t].ended <= c
                                     /\ t = c => X[t].ended = NoTime

\* The ledger keeps books bounded by the episode that is current.
LEMMA LedgerBounds ==
  ASSUME NEW R, NEW W, NEW V, NEW Q, NEW c \in Nat \ {NoTime}, NEW s, Ledger(R, W, V, Q, c, s),
         Dated(R), Dated(W), Dated(V), Dated(Q)
  PROVE  Bounded(R, c) /\ Bounded(W, c) /\ Bounded(V, c) /\ Bounded(Q, c)
<1>1. InOrder(R, W, V, Q) /\ CurrentIs(R, W, V, Q, c, s)
  BY DEF Ledger
<1>2. /\ c \in DOMAIN R \cup DOMAIN Q
      /\ CurrentIn(R, Q, c, s) /\ CurrentIn(W, Q, c, s) /\ CurrentIn(V, Q, c, s) /\ CurrentIn(Q, Q, c, s)
  BY <1>1 DEF CurrentIs
<1>3. /\ Before(R, R) /\ Before(W, R) /\ Before(V, R) /\ Before(Q, R)
      /\ Lag(R, Q) /\ Lag(W, Q) /\ Lag(V, Q) /\ Before(Q, Q)
  BY <1>1 DEF InOrder
<1>4. Before(Q, Q) => Lag(Q, Q)
  BY DEF Before, Lag
<1>5. ASSUME NEW X, Dated(X), CurrentIn(X, Q, c, s), Before(X, R), Lag(X, Q) PROVE Bounded(X, c)
  <2>1. SUFFICES ASSUME NEW t \in DOMAIN X
                 PROVE  t <= c /\ X[t].ended <= c /\ (t = c => X[t].ended = NoTime)
    BY DEF Bounded
  <2>2. t \in Nat /\ X[t].ended \in Nat /\ t <= c /\ (t = c => X[t].ended = NoTime)
    BY <1>5 DEF Dated, CurrentIn
  <2>3. CASE t = c \/ X[t].ended = NoTime
    BY <2>2, <2>3 DEF NoTime
  <2>4. CASE t < c /\ X[t].ended # NoTime
    BY <1>2, <1>5, <2>2, <2>4 DEF Before, Lag
  <2>5. QED
    BY <2>2, <2>3, <2>4
<1>6. QED
  BY <1>2, <1>3, <1>4, <1>5

\* A transition (_transition): the current episode, if there is one, ends where the next begins.
LEMMA TransitionKeeps ==
  ASSUME NEW R, NEW W, NEW V, NEW Q, NEW N, NEW Q2, NEW c \in Nat, NEW s, NEW at \in Nat \ {NoTime}, NEW s2,
         Ledger(R, W, V, Q, c, s), Dated(R), Dated(W), Dated(V), Dated(Q), Over(Q2, N, Q),
         at \in DOMAIN N, N[at] = Open(s2), DOMAIN N \subseteq {at} \cup ({c} \ {NoTime}),
         c # NoTime => c <= at /\ (c = at => s # "down" /\ s2 = "down"),
         c # NoTime /\ c # at => c \in DOMAIN N /\ N[c].ended # NoTime /\ N[c].ended <= at,
         c = NoTime => \A X \in {R, W, V, Q} : \A t \in DOMAIN X : t < at /\ X[t].ended <= at
  PROVE  Ledger(R, W, V, Q2, at, s2)
<1>0. InOrder(R, W, V, Q) /\ OpensAre(R, W, V, Q, c) /\ (c # NoTime => CurrentIs(R, W, V, Q, c, s))
  BY DEF Ledger
<1>1. c # NoTime => Bounded(R, c) /\ Bounded(W, c) /\ Bounded(V, c) /\ Bounded(Q, c)
  BY LedgerBounds
<1>2. ASSUME NEW X, X \in {R, W, V, Q}, NEW t \in DOMAIN X
      PROVE  /\ t \in Nat /\ t <= at /\ X[t].ended <= at
             /\ c # NoTime => t <= c /\ X[t].ended <= c
             /\ t = at => c = at
  <2>1. Dated(X) /\ (c # NoTime => Bounded(X, c))
    BY <1>1, <1>2
  <2>2. t \in Nat /\ X[t].ended \in Nat
    BY <2>1 DEF Dated
  <2>3. CASE c = NoTime
    <3>1. t < at /\ X[t].ended <= at
      BY <1>2, <2>3
    <3>2. QED
      BY <2>2, <2>3, <3>1
  <2>4. CASE c # NoTime
    <3>1. t <= c /\ X[t].ended <= c
      BY <2>1, <2>4 DEF Bounded
    <3>2. QED
      BY <2>2, <2>4, <3>1
  <2>5. QED
    BY <2>3, <2>4
<1>3. ASSUME NEW X, X \in {R, W, V, Q} PROVE Before(N, X)
  <2>1. SUFFICES ASSUME NEW t \in DOMAIN N, NEW u \in DOMAIN X, t < u PROVE FALSE
    BY DEF Before
  <2>2. u \in Nat /\ u <= at /\ (c # NoTime => u <= c)
    BY <1>2, <1>3
  <2>3. t = at \/ (t = c /\ c # NoTime)
    OBVIOUS
  <2>4. QED
    BY <2>1, <2>2, <2>3
<1>4. ASSUME NEW X, X \in {R, W, V, Q}, NEW t \in DOMAIN X, NEW u \in DOMAIN N, t < u, X[t].ended # NoTime
      PROVE  X[t].ended <= u
  <2>1. u = at \/ (u = c /\ c # NoTime)
    OBVIOUS
  <2>2. QED
    BY <1>2, <1>4, <2>1
<1>5. ASSUME NEW X, X \in {R, W, V, Q}, NEW t \in DOMAIN X, X[t].ended = NoTime, t # at PROVE t \in DOMAIN Q2
  <2>1. t = c \/ t \in DOMAIN Q
    BY <1>0, <1>5 DEF OpensAre, OpenOnly
  <2>2. CASE t = c
    <3>1. c # NoTime
      BY <1>5, <2>2 DEF Dated
    <3>2. QED
      BY <1>5, <2>2, <3>1 DEF Over
  <2>3. QED
    BY <2>1, <2>2 DEF Over
<1>6. InOrder(R, W, V, Q2)
  <2>1. Before(Q2, R) /\ Before(Q2, W) /\ Before(Q2, V)
    BY <1>0, <1>3, BeforeOver DEF InOrder
  <2>2. Before(Q2, Q2)
    <3>1. Before(N, N)
      BY DEF Before, Open
    <3>2. Lag(Q, N)
      <4>1. SUFFICES ASSUME NEW t \in DOMAIN Q, NEW u \in DOMAIN N, t < u, Q[t].ended = NoTime PROVE t \in DOMAIN N
        BY <1>4 DEF Lag
      <4>2. t = c /\ c # NoTime
        BY <1>0, <4>1 DEF OpensAre, Dated
      <4>3. QED
        BY <4>1, <4>2
    <3>3. QED
      BY <1>0, <1>3, <3>1, <3>2, OverInOrder DEF InOrder
  <2>3. ASSUME NEW X, X \in {R, W, V}, Lag(X, Q) PROVE Lag(X, Q2)
    <3>1. SUFFICES ASSUME NEW t \in DOMAIN X, NEW u \in DOMAIN Q2, t < u
                   PROVE  IF X[t].ended = NoTime THEN t \in DOMAIN Q2 ELSE X[t].ended <= u
      BY DEF Lag
    <3>2. CASE u \in DOMAIN N
      <4>1. X[t].ended # NoTime => X[t].ended <= u
        BY <1>4, <2>3, <3>1, <3>2
      <4>2. X[t].ended = NoTime => t \in DOMAIN Q2
        <5>1. t # at => (X[t].ended = NoTime => t \in DOMAIN Q2)
          BY <1>5, <2>3
        <5>2. QED
          BY <5>1 DEF Over
      <4>3. QED
        BY <4>1, <4>2
    <3>3. CASE u \notin DOMAIN N
      BY <2>3, <3>1, <3>3 DEF Lag, Over
    <3>4. QED
      BY <3>2, <3>3
  <2>4. Lag(R, Q2) /\ Lag(W, Q2) /\ Lag(V, Q2)
    BY <1>0, <2>3 DEF InOrder
  <2>5. QED
    BY <1>0, <2>1, <2>2, <2>4 DEF InOrder
<1>7. OpensAre(R, W, V, Q2, at)
  <2>1. OpenOnly(R, Q2, at) /\ OpenOnly(W, Q2, at) /\ OpenOnly(V, Q2, at)
    BY <1>5 DEF OpenOnly
  <2>2. ASSUME NEW t \in DOMAIN Q2, Q2[t].ended = NoTime PROVE t = at
    <3>1. CASE t \in DOMAIN N
      BY <2>2, <3>1 DEF Over
    <3>2. CASE t \notin DOMAIN N
      <4>1. t \in DOMAIN Q /\ Q[t].ended = NoTime
        BY <2>2, <3>2 DEF Over
      <4>2. t = c /\ c # NoTime
        BY <1>0, <4>1 DEF OpensAre, Dated
      <4>3. QED
        BY <3>2, <4>2
    <3>3. QED
      BY <3>1, <3>2
  <2>3. QED
    BY <1>0, <2>1, <2>2 DEF OpensAre
<1>8. CurrentIs(R, W, V, Q2, at, s2)
  <2>1. at \in DOMAIN Q2 /\ Q2[at] = Open(s2)
    BY DEF Over
  <2>2. ASSUME NEW X, X \in {R, W, V, Q}, at \in DOMAIN X
        PROVE  X[at].ended = NoTime /\ s2 = "down" /\ X[at] = Open(s) /\ s # "down"
    <3>1. c = at /\ c # NoTime
      BY <1>2, <2>2
    <3>2. CurrentIn(X, Q, c, s) /\ s # "down" /\ s2 = "down"
      BY <1>0, <2>2, <3>1 DEF CurrentIs
    <3>3. QED
      BY <2>2, <3>1, <3>2 DEF CurrentIn
  <2>3. ASSUME NEW X, X \in {R, W, V} PROVE CurrentIn(X, Q2, at, s2)
    BY <1>2, <2>1, <2>2, <2>3 DEF CurrentIn
  <2>4. CurrentIn(Q2, Q2, at, s2)
    <3>1. ASSUME NEW t \in DOMAIN Q2 PROVE t <= at
      <4>1. CASE t \in DOMAIN N
        BY <4>1
      <4>2. CASE t \in DOMAIN Q
        BY <1>2, <4>2
      <4>3. QED
        BY <3>1, <4>1, <4>2 DEF Over
    <3>2. Q2[at].ended = NoTime
      BY <2>1 DEF Open
    <3>3. QED
      BY <2>1, <3>1, <3>2 DEF CurrentIn
  <2>5. at \in DOMAIN W \cap DOMAIN V /\ W[at] = Open(s2) => V[at] = Open(s2)
    <3>1. at \in DOMAIN W => W[at] # Open(s2)
      BY <2>2 DEF Open
    <3>2. QED
      BY <3>1
  <2>6. QED
    BY <2>1, <2>3, <2>4, <2>5 DEF CurrentIs
<1>9. QED
  BY <1>6, <1>7, <1>8 DEF Ledger

\* The end of the current episode (_close_episode), with none after it.
LEMMA CloseKeeps ==
  ASSUME NEW R, NEW W, NEW V, NEW Q, NEW N, NEW Q2, NEW c \in Nat, NEW s, NEW s2,
         Ledger(R, W, V, Q, c, s), Dated(R), Dated(W), Dated(V), Dated(Q), Over(Q2, N, Q),
         DOMAIN N = {c} \ {NoTime}, c # NoTime => N[c].ended # NoTime
  PROVE  Ledger(R, W, V, Q2, NoTime, s2)
<1>0. InOrder(R, W, V, Q) /\ OpensAre(R, W, V, Q, c) /\ (c # NoTime => CurrentIs(R, W, V, Q, c, s))
  BY DEF Ledger
<1>1. c # NoTime => Bounded(R, c) /\ Bounded(W, c) /\ Bounded(V, c) /\ Bounded(Q, c)
  BY LedgerBounds
<1>2. ASSUME NEW X, X \in {R, W, V, Q}, NEW t \in DOMAIN X, c # NoTime
      PROVE  t \in Nat /\ t <= c /\ X[t].ended <= c
  BY <1>1, <1>2 DEF Bounded, Dated
<1>3. ASSUME NEW X, X \in {R, W, V, Q} PROVE Before(N, X)
  <2>1. SUFFICES ASSUME NEW t \in DOMAIN N, NEW u \in DOMAIN X, t < u PROVE FALSE
    BY DEF Before
  <2>2. t = c /\ c # NoTime
    OBVIOUS
  <2>3. u \in Nat /\ u <= c
    BY <1>2, <1>3, <2>2
  <2>4. QED
    BY <2>1, <2>2, <2>3
<1>5. ASSUME NEW X, X \in {R, W, V}, NEW t \in DOMAIN X, X[t].ended = NoTime PROVE t \in DOMAIN Q2
  <2>1. t = c \/ t \in DOMAIN Q
    BY <1>0, <1>5 DEF OpensAre, OpenOnly
  <2>2. CASE t = c
    <3>1. c # NoTime
      BY <1>5, <2>2 DEF Dated
    <3>2. QED
      BY <2>2, <3>1 DEF Over
  <2>3. QED
    BY <2>1, <2>2 DEF Over
<1>6. \A t \in DOMAIN Q2 : Q2[t].ended # NoTime
  <2>1. SUFFICES ASSUME NEW t \in DOMAIN Q2, Q2[t].ended = NoTime PROVE FALSE
    OBVIOUS
  <2>2. CASE t \in DOMAIN N
    BY <2>1, <2>2 DEF Over
  <2>3. CASE t \notin DOMAIN N
    <3>1. t \in DOMAIN Q /\ Q[t].ended = NoTime
      BY <2>1, <2>3 DEF Over
    <3>2. t = c /\ c # NoTime
      BY <1>0, <3>1 DEF OpensAre, Dated
    <3>3. QED
      BY <2>3, <3>2
  <2>4. QED
    BY <2>2, <2>3
<1>7. InOrder(R, W, V, Q2)
  <2>1. Before(Q2, R) /\ Before(Q2, W) /\ Before(Q2, V)
    BY <1>0, <1>3, BeforeOver DEF InOrder
  <2>2. ASSUME NEW X, X \in {R, W, V}, Lag(X, Q) PROVE Lag(X, Q2)
    <3>1. SUFFICES ASSUME NEW t \in DOMAIN X, NEW u \in DOMAIN Q2, t < u, X[t].ended # NoTime PROVE X[t].ended <= u
      BY <1>5, <2>2 DEF Lag
    <3>2. CASE u \in DOMAIN N
      BY <1>2, <2>2, <3>1, <3>2
    <3>3. CASE u \notin DOMAIN N
      BY <2>2, <3>1, <3>3 DEF Lag, Over
    <3>4. QED
      BY <3>2, <3>3
  <2>3. Before(Q2, Q2)
    <3>1. SUFFICES ASSUME NEW t \in DOMAIN Q2, NEW u \in DOMAIN Q2, t < u PROVE Q2[t].ended <= u
      BY <1>6 DEF Before
    <3>2. u \in DOMAIN Q \/ (u = c /\ c # NoTime)
      BY DEF Over
    <3>3. CASE t \in DOMAIN N
      <4>1. t = c /\ c # NoTime /\ u \in DOMAIN Q
        BY <3>1, <3>2, <3>3
      <4>2. u \in Nat /\ u <= c
        BY <1>2, <4>1
      <4>3. QED
        BY <3>1, <4>1, <4>2
    <3>4. CASE t \notin DOMAIN N
      <4>1. t \in DOMAIN Q /\ Q2[t] = Q[t]
        BY <3>4 DEF Over
      <4>2. CASE u = c /\ c # NoTime
        BY <1>2, <4>1, <4>2
      <4>3. CASE u \in DOMAIN Q
        BY <1>0, <3>1, <4>1, <4>3 DEF InOrder, Before
      <4>4. QED
        BY <3>2, <4>2, <4>3
    <3>5. QED
      BY <3>3, <3>4
  <2>4. Lag(R, Q2) /\ Lag(W, Q2) /\ Lag(V, Q2)
    BY <1>0, <2>2 DEF InOrder
  <2>5. QED
    BY <1>0, <2>1, <2>3, <2>4 DEF InOrder
<1>8. OpensAre(R, W, V, Q2, NoTime)
  BY <1>0, <1>5, <1>6 DEF OpensAre, OpenOnly
<1>9. QED
  BY <1>7, <1>8 DEF Ledger

\* What the table holds once the queue is written over it, with or without the write in progress.
LEMMA SettledIsOrdered ==
  ASSUME NEW R, NEW W, NEW V, NEW Q, NEW c, NEW s, NEW P, NEW T, NEW U,
         Ledger(R, W, V, Q, c, s), Over(P, W, R), Over(T, Q, R), Over(U, Q, P)
  PROVE  Before(P, P) /\ Before(T, T) /\ Before(U, U)
<1>1. InOrder(R, W, V, Q)
  BY DEF Ledger
<1>2. Before(P, P) /\ Before(T, T)
  BY <1>1, OverInOrder DEF InOrder
<1>3. Before(Q, P) /\ Lag(P, Q)
  BY <1>1, BeforeOver DEF InOrder
<1>4. QED
  BY <1>1, <1>2, <1>3, OverInOrder DEF InOrder

\* Pruning takes closed episodes only (run_maintenance).
LEMMA PruneKeeps ==
  ASSUME NEW R, NEW W, NEW V, NEW Q, NEW c, NEW s, NEW R2, Ledger(R, W, V, Q, c, s),
         \A t \in DOMAIN R2 : t \in DOMAIN R /\ R2[t] = R[t],
         \A t \in DOMAIN R : t \notin DOMAIN R2 => R[t].ended # NoTime
  PROVE  Ledger(R2, W, V, Q, c, s)
<1>0. InOrder(R, W, V, Q) /\ OpensAre(R, W, V, Q, c) /\ (c # NoTime => CurrentIs(R, W, V, Q, c, s))
  BY DEF Ledger
<1>1. InOrder(R2, W, V, Q)
  <2>1. Before(R2, R2) /\ Before(W, R2) /\ Before(V, R2) /\ Before(Q, R2)
    BY <1>0, BeforeShrinks DEF InOrder
  <2>2. Lag(R2, W) /\ Lag(R2, V) /\ Lag(R2, Q)
    BY <1>0 DEF InOrder, Lag
  <2>3. QED
    BY <1>0, <2>1, <2>2 DEF InOrder
<1>2. OpensAre(R2, W, V, Q, c)
  BY <1>0 DEF OpensAre, OpenOnly
<1>3. c # NoTime => CurrentIs(R2, W, V, Q, c, s)
  BY <1>0 DEF CurrentIs, CurrentIn
<1>4. QED
  BY <1>1, <1>2, <1>3 DEF Ledger

\* What a process starts with: the table alone, with at most the resumed outage open.
LEMMA StartIs ==
  ASSUME NEW R, NEW E, NEW c, NEW s, Before(R, R), DOMAIN E = {},
         \A t \in DOMAIN R : R[t].ended = NoTime => t = c,
         c # NoTime => c \in DOMAIN R /\ R[c] = Open(s) /\ \A t \in DOMAIN R : t <= c
  PROVE  Ledger(R, E, E, E, c, s)
<1>1. InOrder(R, E, E, E)
  BY DEF InOrder, Before, Lag
<1>2. OpensAre(R, E, E, E, c)
  BY DEF OpensAre, OpenOnly
<1>3. c # NoTime => CurrentIs(R, E, E, E, c, s)
  BY DEF CurrentIs, CurrentIn, Open
<1>4. QED
  BY <1>1, <1>2, <1>3 DEF Ledger

\* X is the part of book b that is about feeder f.
IsOf(X, b, f) ==
  /\ \A t : t \in DOMAIN X <=> <<f, t>> \in DOMAIN b
  /\ \A t \in DOMAIN X : X[t] = b[<<f, t>>]

\* Of cuts that part out of a book keyed by feeder and start.
LEMMA OfIs ==
  ASSUME NEW b, NEW f, DOMAIN b \subseteq Feeders \X Instants
  PROVE  IsOf(Of(b, f), b, f)
<1>1. \A k \in DOMAIN b : k = <<k[1], k[2]>>
  OBVIOUS
<1>2. \A t : t \in Times(b, f) <=> <<f, t>> \in DOMAIN b
  BY <1>1 DEF Times
<1>3. QED
  BY <1>2 DEF IsOf, Of

\* The part of an overlay is the overlay of the parts.
LEMMA OfOver ==
  ASSUME NEW b, NEW a, NEW d, NEW f, NEW X, NEW Y, NEW Z, Over(d, a, b),
         IsOf(X, a, f), IsOf(Y, b, f), IsOf(Z, d, f)
  PROVE  Over(Z, X, Y)
BY DEF Over, IsOf

\* Two books that say the same of a feeder.
LEMMA OfSame ==
  ASSUME NEW a, NEW b, NEW f, DOMAIN a \subseteq Feeders \X Instants, DOMAIN b \subseteq Feeders \X Instants,
         \A t : <<f, t>> \in DOMAIN a <=> <<f, t>> \in DOMAIN b,
         \A t : <<f, t>> \in DOMAIN a => a[<<f, t>>] = b[<<f, t>>]
  PROVE  Of(a, f) = Of(b, f)
<1>1. Times(a, f) = Times(b, f)
  <2>1. (\A k \in DOMAIN a : k = <<k[1], k[2]>>) /\ (\A k \in DOMAIN b : k = <<k[1], k[2]>>)
    OBVIOUS
  <2>2. QED
    BY <2>1 DEF Times
<1>2. \A t \in Times(a, f) : a[<<f, t>>] = b[<<f, t>>]
  <2>1. \A k \in DOMAIN a : k = <<k[1], k[2]>>
    OBVIOUS
  <2>2. QED
    BY <2>1 DEF Times
<1>3. QED
  BY <1>1, <1>2 DEF Of

\* What every step but a stop or a crash does to the clock, the poll and the facts: a poll's end
\* may lie behind, its beginning is a new instant.
Onward ==
  /\ fClock' \in Instants /\ fClock <= fClock'
  /\ fPoll'.now \in 0 .. fClock' /\ fPoll.now <= fPoll'.now
  /\ fFacts \subseteq fFacts'
  /\ Probing' => \/ Probing /\ fPoll'.now = fPoll.now /\ Polled' \subseteq Polled
                 \/ fPoll.now < fPoll'.now /\ fPoll'.now = fClock'

\* Such a step takes nothing from what the books and the trackers know.
LEMMA OnwardKeeps ==
  ASSUME FeederInv, Onward
  PROVE  /\ \A k, e : EntryInv(k, e) => EntryInv(k, e)'
         /\ \A b : BookInv(b) => BookInv(b)'
         /\ \A f, t : TrackerInv(f, t) => TrackerInv(f, t)'
<1>1. fClock \in Nat /\ fPoll.now \in Nat /\ fClock' \in Nat /\ fPoll'.now \in Nat /\ fPoll.now <= fClock
  BY FeederConstants DEF FeederInv, PollInv, Onward, Instants
<1>2. \A f, t : Announced(f, t) => Announced(f, t)'
  BY DEF Onward, Announced
<1>3. ASSUME NEW k, NEW e, EntryInv(k, e) PROVE EntryInv(k, e)'
  <2>1. k[2] \in Nat /\ e.ended \in Nat
    BY <1>3, FeederConstants DEF EntryInv, Entry, Time, Instants
  <2>2. k[2] <= fPoll'.now /\ (e.ended # NoTime => k[2] <= e.ended /\ e.ended <= fClock')
    BY <1>1, <1>3, <2>1 DEF EntryInv, Onward
  <2>3. Probing' => k[2] < fPoll'.now /\ (k[1] \in Polled' => e.ended <= fPoll'.now)
    BY <1>1, <1>3, <2>1 DEF EntryInv, Onward, NoTime
  <2>4. QED
    BY <1>2, <1>3, <2>2, <2>3 DEF EntryInv
<1>4. ASSUME NEW f, NEW t, TrackerInv(f, t) PROVE TrackerInv(f, t)'
  <2>1. TrackerOk(t, fPoll.now) /\ t.started \in Nat /\ t.outage \in Nat /\ t.firstDown \in Nat
    BY <1>4, FeederConstants DEF TrackerInv, TrackerOk, Tracker, Time
  <2>2. TrackerOk(t, fPoll'.now)
    BY <1>1, <2>1 DEF TrackerOk, Onward
  <2>3. Probing' => t.started < fPoll'.now
    BY <1>1, <1>4, <2>1 DEF TrackerInv, TrackerOk, Onward
  <2>4. QED
    BY <1>2, <1>4, <2>2, <2>3 DEF TrackerInv
<1>5. QED
  BY <1>3, <1>4 DEF BookInv

\* A book is dated, and about feeders.
LEMMA BookIsDated ==
  ASSUME NEW b, NEW f, BookInv(b)
  PROVE  DOMAIN b \subseteq Feeders \X Instants /\ IsOf(Of(b, f), b, f) /\ Dated(Of(b, f))
<1>1. DOMAIN b \subseteq Feeders \X Instants /\ \A k \in DOMAIN b : b[k].ended \in Nat
  BY FeederConstants DEF BookInv, EntryInv, Entry, Time
<1>2. IsOf(Of(b, f), b, f)
  BY <1>1, OfIs
<1>3. \A t \in DOMAIN Of(b, f) : <<f, t>> \in Feeders \X Instants
  BY <1>1, <1>2 DEF IsOf
<1>4. Instants \subseteq Nat \ {NoTime}
  BY FeederConstants DEF Instants, NoTime
<1>5. \A t \in DOMAIN Of(b, f) : t \in Instants /\ Of(b, f)[t].ended \in Nat
  BY <1>1, <1>2, <1>3 DEF IsOf
<1>6. QED
  BY <1>1, <1>2, <1>4, <1>5 DEF Dated

\* The empty book.
LEMMA EmptyBook == BookInv(<<>>) /\ (\A f : DOMAIN Of(<<>>, f) = {}) /\ BookInv(NoFlush.episodes)
                   /\ NoFlush.samples \in Seq(Probed)
BY DEF BookInv, Of, Times, NoFlush

\* Who the caller that is not who is.
LEMMA OtherIs ==
  /\ (CHOOSE c \in Callers : c # "poll") = "apply" /\ (CHOOSE c \in Callers : c # "apply") = "poll"
  /\ Callers = {"poll", "apply"}
BY DEF Callers

\* What flush calls carry is a book.
LEMMA FlushBooks ==
  ASSUME FlushInv
  PROVE  BookInv(WriteIn(fFlush)) /\ BookInv(WaitIn(fFlush))
BY EmptyBook DEF FlushInv, WriteIn, WaitIn, Callers

\* A feeder's ledger, with the typing of its books.
LEMMA LedgerOf ==
  ASSUME FeederInv, fUp, NEW f \in Feeders \ fLate
  PROVE  /\ Ledger(Of(fRows, f), Of(WriteIn(fFlush), f), Of(WaitIn(fFlush), f), Of(fEpisodesQ, f), Current(f), StandingOf(f))
         /\ Dated(Of(fRows, f)) /\ Dated(Of(WriteIn(fFlush), f)) /\ Dated(Of(WaitIn(fFlush), f)) /\ Dated(Of(fEpisodesQ, f))
         /\ Current(f) \in Nat
<1>1. BookInv(fRows) /\ BookInv(fEpisodesQ) /\ FlushInv /\ LedgerInv /\ PollInv
  BY DEF FeederInv
<1>2. Current(f) \in Nat
  BY <1>1, FeederConstants DEF PollInv, TrackerInv, TrackerOk, Tracker, Time, Current, NoTime
<1>3. QED
  BY <1>1, <1>2, FlushBooks, BookIsDated DEF LedgerInv

\* A ledger in which nothing was written, nor any tracker moved.
LEMMA LedgerStays ==
  ASSUME FeederInv, fUp, fLate \subseteq fLate', UNCHANGED <<fRows, fEpisodesQ, fFlush, fTracker>>
  PROVE  LedgerInv' /\ TableInv'
<1>1. LedgerInv /\ TableInv
  BY DEF FeederInv
<1>2. \A f \in Feeders : /\ Of(fRows, f)' = Of(fRows, f) /\ Of(WriteIn(fFlush), f)' = Of(WriteIn(fFlush), f)
                         /\ Of(WaitIn(fFlush), f)' = Of(WaitIn(fFlush), f) /\ Of(fEpisodesQ, f)' = Of(fEpisodesQ, f)
                         /\ Current(f)' = Current(f) /\ StandingOf(f)' = StandingOf(f)
  BY DEF Current, StandingOf, WriteIn, WaitIn
<1>3. QED
  BY <1>1, <1>2 DEF LedgerInv, TableInv

\* Its table is in order.
LEMMA LedgerTable == LedgerInv => TableInv
BY DEF LedgerInv, TableInv, Ledger, InOrder

\* Time passes.
LEMMA FeederTickKeeps == ASSUME FeederInv, FeederTick PROVE FeederInv'
<1>1. fClock \in Instants /\ fPoll.now \in 0 .. fClock
  BY DEF FeederInv, PollInv
<1>2. Onward
  BY <1>1, FeederConstants DEF FeederTick, Onward, Instants, Probing, Polled, fHistory
<1>3. BookInv(fRows)' /\ BookInv(fEpisodesQ)' /\ FlushInv'
  BY <1>2, OnwardKeeps DEF FeederInv, FlushInv, FeederTick
<1>4. PollInv'
  <2>1. fPoll' = fPoll /\ fPoll \in [pc : {"idle", "probing", "flushing"}, now : 0 .. fClock', names : SUBSET Feeders]
    BY <1>1, <1>2, FeederConstants DEF FeederInv, PollInv, FeederTick, Onward, Instants
  <2>2. QED
    BY <1>2, <2>1, OnwardKeeps DEF FeederInv, PollInv, FeederTick, fHistory, Probing
<1>5. SampleInv' /\ FactInv' /\ DownInv'
  BY DEF FeederInv, SampleInv, FactInv, DownInv, FeederTick, fHistory, RestoreFollowsOffline, Announced
<1>6. (fUp => LedgerInv') /\ TableInv'
  <2>1. CASE fUp
    BY <2>1, LedgerStays DEF FeederTick, fHistory
  <2>2. CASE ~fUp
    BY <2>2 DEF FeederInv, TableInv, FeederTick, fHistory
  <2>3. QED
    BY <2>1, <2>2
<1>7. QED
  BY <1>2, <1>3, <1>4, <1>5, <1>6 DEF FeederInv, FeederTick, Onward

\* A poll begins.
LEMMA PollBeginKeeps == ASSUME FeederInv, PollBegin PROVE FeederInv'
<1>1. fClock \in Instants /\ fPoll.now \in 0 .. fClock /\ fPoll'.now = fClock /\ fPoll.now < fClock /\ fUp
  BY DEF FeederInv, PollInv, PollBegin
<1>2. Onward
  BY <1>1, FeederConstants DEF PollBegin, Onward, Instants, fHistory
<1>3. BookInv(fRows)' /\ BookInv(fEpisodesQ)' /\ FlushInv'
  BY <1>2, OnwardKeeps DEF FeederInv, FlushInv, PollBegin
<1>4. PollInv'
  <2>1. fPoll' \in [pc : {"idle", "probing", "flushing"}, now : 0 .. fClock', names : SUBSET Feeders]
    BY <1>1, FeederConstants DEF FeederInv, PollInv, PollBegin, Instants
  <2>2. fLastGood' = fLastGood /\ fLastGood \in [Feeders -> 0 .. fPoll'.now] /\ \A f \in Feeders : fLastGood'[f] < fPoll'.now
    BY <1>1, FeederConstants DEF FeederInv, PollInv, PollBegin, Instants, fHistory
  <2>3. DOMAIN fOrphan' = {} /\ fTracker' = fTracker /\ fPoll'.names = DOMAIN fTracker
    BY DEF PollBegin
  <2>4. \A f \in DOMAIN fTracker' : TrackerInv(f, fTracker[f])' /\ DatesOk(fTracker[f], fLastGood[f])'
    BY <1>2, <2>2, <2>3, OnwardKeeps DEF FeederInv, PollInv, DatesOk
  <2>5. DOMAIN fTracker' \subseteq Feeders
    BY <2>3 DEF FeederInv, PollInv
  <2>6. QED
    BY <2>1, <2>2, <2>3, <2>4, <2>5 DEF PollInv
<1>5. SampleInv' /\ FactInv' /\ DownInv'
  BY <1>1 DEF FeederInv, SampleInv, FactInv, DownInv, PollBegin, fHistory, RestoreFollowsOffline, Announced
<1>6. LedgerInv' /\ TableInv'
  BY <1>1, LedgerStays DEF PollBegin, fHistory
<1>7. QED
  BY <1>1, <1>2, <1>3, <1>4, <1>5, <1>6 DEF FeederInv, PollBegin, Onward

\* Maintenance prunes what is closed and old.
LEMMA MaintainKeeps == ASSUME FeederInv, MaintainFeeders PROVE FeederInv'
<1>1. /\ fUp /\ DOMAIN fRows' \subseteq DOMAIN fRows /\ fSamples' \subseteq fSamples
      /\ \A k \in DOMAIN fRows' : fRows'[k] = fRows[k]
      /\ \A k \in DOMAIN fRows : k \notin DOMAIN fRows' => fRows[k].ended # NoTime
  BY DEF MaintainFeeders, Without
<1>2. Onward
  BY FeederConstants DEF FeederInv, PollInv, MaintainFeeders, Onward, Instants, fHistory, Probing, Polled
<1>3. BookInv(fRows)' /\ BookInv(fEpisodesQ)' /\ FlushInv'
  <2>1. \A k, e : EntryInv(k, e) => EntryInv(k, e)'
    BY <1>2, OnwardKeeps
  <2>2. BookInv(fRows)'
    BY <1>1, <2>1 DEF FeederInv, BookInv
  <2>3. QED
    BY <1>2, <2>2, OnwardKeeps DEF FeederInv, FlushInv, MaintainFeeders
<1>4. PollInv'
  BY <1>2, OnwardKeeps DEF FeederInv, PollInv, MaintainFeeders, fHistory, Probing
<1>5. SampleInv' /\ FactInv' /\ DownInv'
  BY <1>1 DEF FeederInv, SampleInv, FactInv, DownInv, MaintainFeeders, fHistory, RestoreFollowsOffline, Announced
<1>6. LedgerInv'
  <2>1. SUFFICES ASSUME NEW f \in Feeders \ fLate
                 PROVE  Ledger(Of(fRows', f), Of(WriteIn(fFlush), f), Of(WaitIn(fFlush), f), Of(fEpisodesQ, f), Current(f), StandingOf(f))
    BY DEF LedgerInv, MaintainFeeders, fHistory, Current, StandingOf, WriteIn, WaitIn
  <2>2. IsOf(Of(fRows, f), fRows, f) /\ IsOf(Of(fRows', f), fRows', f)
    BY <1>1, BookIsDated, OfIs DEF FeederInv
  <2>3. \A t \in DOMAIN Of(fRows', f) : t \in DOMAIN Of(fRows, f) /\ Of(fRows', f)[t] = Of(fRows, f)[t]
    BY <1>1, <2>2 DEF IsOf
  <2>4. \A t \in DOMAIN Of(fRows, f) : t \notin DOMAIN Of(fRows', f) => Of(fRows, f)[t].ended # NoTime
    BY <1>1, <2>2 DEF IsOf
  <2>5. QED
    BY <1>1, <2>3, <2>4, LedgerOf, PruneKeeps
<1>7. TableInv'
  BY <1>6 DEF LedgerInv, TableInv, Ledger, InOrder
<1>8. QED
  BY <1>1, <1>2, <1>3, <1>4, <1>5, <1>6, <1>7 DEF FeederInv, MaintainFeeders, Onward

\* What is written of a queue leaves it (flush's del of the written prefix).
LEMMA TailIs ==
  ASSUME NEW S, NEW q \in Seq(S), NEW n \in Nat
  PROVE  SubSeq(q, n + 1, Len(q)) \in Seq(S) /\ Len(SubSeq(q, n + 1, Len(q))) <= Len(q)
<1>1. \A i \in (n + 1) .. Len(q) : q[i] \in S
  OBVIOUS
<1>2. QED
  BY <1>1, SubSeqProperties

\* A write that ends is the only one; the caller behind it goes on, or fails with it.
LEMMA WriteEnds ==
  ASSUME FlushInv, NEW who \in Callers, NEW ok \in BOOLEAN, WriteDone(who, ok)
  PROVE  /\ WriteIn(fFlush) = fFlush[who].episodes
         /\ WaitIn(fFlush') = <<>> /\ WriteIn(fFlush') \in {WaitIn(fFlush), <<>>}
         /\ FlushShape(fFlush')
         /\ \A c \in Callers : fFlush'[c].episodes \in {fFlush[c].episodes, <<>>}
<1>1. FlushShape(fFlush) /\ who \in {"poll", "apply"}
  BY DEF FlushInv, Callers
<1>2. CASE who = "poll"
  <2>0. (CHOOSE c \in Callers : c # who) = "apply"
    BY <1>2, OtherIs
  <2>1. \E next : /\ fFlush' = [fFlush EXCEPT !["poll"] = NoFlush, !["apply"] = next]
                  /\ fFlush["apply"].pc # "wait" => next = fFlush["apply"]
                  /\ fFlush["apply"].pc = "wait" => next \in {[fFlush["apply"] EXCEPT !.pc = "write"], NoFlush}
                  /\ fFlush["poll"].pc = "write"
    BY <1>2, <2>0 DEF WriteDone
  <2>2. PICK next : /\ fFlush' = [fFlush EXCEPT !["poll"] = NoFlush, !["apply"] = next]
                    /\ fFlush["apply"].pc # "wait" => next = fFlush["apply"]
                    /\ fFlush["apply"].pc = "wait" => next \in {[fFlush["apply"] EXCEPT !.pc = "write"], NoFlush}
                    /\ fFlush["poll"].pc = "write"
    BY <2>1
  <2>3. fFlush'["poll"] = NoFlush /\ fFlush'["apply"] = next /\ DOMAIN fFlush' = Callers
    BY <1>1, <2>2 DEF FlushShape, Callers
  <2>4. CASE fFlush["apply"].pc = "wait" /\ next = [fFlush["apply"] EXCEPT !.pc = "write"]
    <3>1. next.pc = "write" /\ next.episodes = fFlush["apply"].episodes /\ next.samples = fFlush["apply"].samples
      BY <2>4
    <3>2. QED
      BY <1>1, <1>2, <2>2, <2>3, <2>4, <3>1, EmptyBook DEF FlushShape, WriteIn, WaitIn, Callers, NoFlush
  <2>5. CASE fFlush["apply"].pc # "wait"
    <3>1. next = fFlush["apply"] /\ next.pc = "none"
      BY <1>1, <2>2, <2>5 DEF FlushShape, Callers
    <3>2. QED
      BY <1>1, <1>2, <2>2, <2>3, <3>1, EmptyBook DEF FlushShape, WriteIn, WaitIn, Callers, NoFlush
  <2>6. CASE fFlush["apply"].pc = "wait" /\ next = NoFlush
    BY <1>1, <1>2, <2>2, <2>3, <2>6, EmptyBook DEF FlushShape, WriteIn, WaitIn, Callers, NoFlush
  <2>7. QED
    BY <2>2, <2>4, <2>5, <2>6
<1>3. CASE who = "apply"
  <2>0. (CHOOSE c \in Callers : c # who) = "poll"
    BY <1>3, OtherIs
  <2>1. \E next : /\ fFlush' = [fFlush EXCEPT !["apply"] = NoFlush, !["poll"] = next]
                  /\ fFlush["poll"].pc # "wait" => next = fFlush["poll"]
                  /\ fFlush["poll"].pc = "wait" => next \in {[fFlush["poll"] EXCEPT !.pc = "write"], NoFlush}
                  /\ fFlush["apply"].pc = "write"
    BY <1>3, <2>0 DEF WriteDone
  <2>2. PICK next : /\ fFlush' = [fFlush EXCEPT !["apply"] = NoFlush, !["poll"] = next]
                    /\ fFlush["poll"].pc # "wait" => next = fFlush["poll"]
                    /\ fFlush["poll"].pc = "wait" => next \in {[fFlush["poll"] EXCEPT !.pc = "write"], NoFlush}
                    /\ fFlush["apply"].pc = "write"
    BY <2>1
  <2>3. fFlush'["apply"] = NoFlush /\ fFlush'["poll"] = next /\ DOMAIN fFlush' = Callers
    BY <1>1, <2>2 DEF FlushShape, Callers
  <2>4. CASE fFlush["poll"].pc = "wait" /\ next = [fFlush["poll"] EXCEPT !.pc = "write"]
    <3>1. next.pc = "write" /\ next.episodes = fFlush["poll"].episodes /\ next.samples = fFlush["poll"].samples
      BY <2>4
    <3>2. QED
      BY <1>1, <1>3, <2>2, <2>3, <2>4, <3>1, EmptyBook DEF FlushShape, WriteIn, WaitIn, Callers, NoFlush
  <2>5. CASE fFlush["poll"].pc # "wait"
    <3>1. next = fFlush["poll"] /\ next.pc = "none"
      BY <1>1, <2>2, <2>5 DEF FlushShape, Callers
    <3>2. QED
      BY <1>1, <1>3, <2>2, <2>3, <3>1, EmptyBook DEF FlushShape, WriteIn, WaitIn, Callers, NoFlush
  <2>6. CASE fFlush["poll"].pc = "wait" /\ next = NoFlush
    BY <1>1, <1>3, <2>2, <2>3, <2>6, EmptyBook DEF FlushShape, WriteIn, WaitIn, Callers, NoFlush
  <2>7. QED
    BY <2>2, <2>4, <2>5, <2>6
<1>4. QED
  BY <1>1, <1>2, <1>3

\* A write ends, and the caller behind it goes on.
LEMMA WriteDoneKeeps == ASSUME FeederInv, NEW who \in Callers, NEW ok \in BOOLEAN, WriteDone(who, ok) PROVE FeederInv'
<1> DEFINE w == fFlush[who]
<1>0. fUp
  BY DEF FeederInv, DownInv, WriteDone, NoFlush
<1>1. /\ WriteIn(fFlush) = w.episodes
      /\ WaitIn(fFlush') = <<>> /\ WriteIn(fFlush') \in {WaitIn(fFlush), <<>>}
      /\ FlushShape(fFlush')
      /\ \A c \in Callers : fFlush'[c].episodes \in {fFlush[c].episodes, <<>>}
  BY WriteEnds DEF FeederInv
<1>2. /\ BookInv(w.episodes) /\ w.samples \in Seq(Probed)
  BY DEF FeederInv, FlushInv, FlushShape
<1>3. /\ fRows' = IF ok THEN Upsert(w.episodes, fRows) ELSE fRows
      /\ fSamples' = IF ok THEN fSamples \cup Range(w.samples) ELSE fSamples
      /\ fSamplesQ' = IF ok /\ ~w.cancelled THEN SubSeq(fSamplesQ, Len(w.samples) + 1, Len(fSamplesQ)) ELSE fSamplesQ
  BY DEF WriteDone
<1>4. /\ \A k \in DOMAIN fEpisodesQ' : k \in DOMAIN fEpisodesQ /\ fEpisodesQ'[k] = fEpisodesQ[k]
      /\ \A k \in DOMAIN fEpisodesQ : k \notin DOMAIN fEpisodesQ' => ok /\ k \in DOMAIN w.episodes /\ w.episodes[k] = fEpisodesQ[k]
  BY DEF WriteDone, Without
<1>5. /\ fPoll' = fPoll \/ (fPoll.pc = "flushing" /\ fPoll' = [fPoll EXCEPT !.pc = "idle"])
      /\ UNCHANGED <<fClock, fUp, fTracker, fOrphan, fFacts, fLastGood, fLate>>
  BY DEF WriteDone, fHistory
<1>6. /\ fPoll' \in [pc : {"idle", "probing", "flushing"}, now : 0 .. fClock', names : SUBSET Feeders]
      /\ fPoll'.now = fPoll.now /\ fPoll'.names = fPoll.names /\ (Probing' => Probing)
  BY <1>5 DEF FeederInv, PollInv, Probing
<1>7. Onward
  BY <1>5, <1>6, FeederConstants DEF FeederInv, PollInv, Onward, Instants, Polled
<1>8. (\A k, e : EntryInv(k, e) => EntryInv(k, e)') /\ (\A b : BookInv(b) => BookInv(b)') /\ \A f, t : TrackerInv(f, t) => TrackerInv(f, t)'
  BY <1>7, OnwardKeeps
<1> HIDE DEF w
<1>9. BookInv(fRows)' /\ BookInv(fEpisodesQ)' /\ FlushInv'
  <2>1. BookInv(fRows')
    <3>1. Over(Upsert(w.episodes, fRows), w.episodes, fRows)
      BY UpsertIs
    <3>2. QED
      BY <1>2, <1>3, <3>1 DEF FeederInv, BookInv, Over
  <2>2. BookInv(fEpisodesQ')
    BY <1>4 DEF FeederInv, BookInv
  <2>3. \A c \in Callers : BookInv(fFlush'[c].episodes)
    BY <1>1, EmptyBook DEF FeederInv, FlushInv
  <2>4. QED
    BY <1>1, <1>8, <2>1, <2>2, <2>3 DEF BookInv, FlushInv
<1>10. PollInv'
  BY <1>5, <1>6, <1>8 DEF FeederInv, PollInv, Probing
<1>11. SampleInv'
  <2>1. fSamples \subseteq Probed /\ fSamplesQ \in Seq(Probed) /\ Len(fSamplesQ) <= MaxPending
    BY DEF FeederInv, SampleInv
  <2>2. Range(w.samples) \subseteq Probed
    BY <1>2 DEF Range
  <2>3. SubSeq(fSamplesQ, Len(w.samples) + 1, Len(fSamplesQ)) \in Seq(Probed)
        /\ Len(SubSeq(fSamplesQ, Len(w.samples) + 1, Len(fSamplesQ))) <= Len(fSamplesQ)
    BY <1>2, <2>1, TailIs
  <2>4. fSamplesQ' \in Seq(Probed) /\ Len(fSamplesQ') <= MaxPending
    <3>1. MaxPending \in Nat /\ Len(fSamplesQ) \in Nat /\ \A s \in Seq(Probed) : Len(s) \in Nat
      BY <2>1, FeederConstants
    <3>2. \A s \in Seq(Probed) : Len(s) <= Len(fSamplesQ) => Len(s) <= MaxPending
      BY <2>1, <3>1
    <3>3. QED
      BY <1>3, <2>1, <2>3, <3>2
  <2>5. QED
    BY <1>3, <2>1, <2>2, <2>4 DEF SampleInv
<1>12. FactInv' /\ DownInv'
  BY <1>0, <1>5 DEF FeederInv, FactInv, DownInv, RestoreFollowsOffline, Announced
<1>13. LedgerInv'
  <2>1. SUFFICES ASSUME NEW f \in Feeders \ fLate
                 PROVE  Ledger(Of(fRows', f), Of(WriteIn(fFlush'), f), Of(WaitIn(fFlush'), f), Of(fEpisodesQ', f), Current(f), StandingOf(f))
    BY <1>5 DEF LedgerInv, Current, StandingOf, WriteIn, WaitIn
  <2> DEFINE R == Of(fRows, f)
  <2> DEFINE W == Of(w.episodes, f)
  <2> DEFINE V == Of(WaitIn(fFlush), f)
  <2> DEFINE Q == Of(fEpisodesQ, f)
  <2> DEFINE E == Of(<<>>, f)
  <2> DEFINE T == Of(fRows', f)
  <2> DEFINE Q2 == Of(fEpisodesQ', f)
  <2>2. /\ Ledger(R, W, V, Q, Current(f), StandingOf(f)) /\ Current(f) \in Nat
        /\ Dated(R) /\ Dated(W) /\ Dated(V) /\ Dated(Q)
    BY <1>0, <1>1, LedgerOf
  <2>3. IsOf(R, fRows, f) /\ IsOf(W, w.episodes, f) /\ IsOf(Q, fEpisodesQ, f) /\ IsOf(T, fRows', f) /\ IsOf(Q2, fEpisodesQ', f)
    <3>1. DOMAIN fRows' \subseteq Feeders \X Instants /\ DOMAIN fEpisodesQ' \subseteq Feeders \X Instants
      BY <1>9 DEF BookInv, EntryInv
    <3>2. QED
      BY <1>2, <3>1, OfIs, BookIsDated DEF FeederInv
  <2>4. /\ \A t \in DOMAIN Q2 : t \in DOMAIN Q /\ Q2[t] = Q[t]
        /\ \A t \in DOMAIN Q : t \notin DOMAIN Q2 => ok /\ t \in DOMAIN W /\ W[t] = Q[t]
    BY <1>4, <2>3, Zenon DEF IsOf
  <2>5. DOMAIN E = {}
    BY EmptyBook
  <2>6. CASE ok
    <3>1. Over(fRows', w.episodes, fRows)
      BY <1>3, <2>6, UpsertIs
    <3>2. Over(T, W, R)
      BY <2>3, <3>1, OfOver
    <3> HIDE DEF R, W, V, Q, E, T, Q2
    <3>3. Ledger(T, V, E, Q2, Current(f), StandingOf(f))
      BY <2>2, <2>4, <2>5, <3>2, CommitKeeps
    <3>4. Ledger(T, E, E, Q2, Current(f), StandingOf(f))
      BY <2>5, <3>3, DropKeeps
    <3>5. QED
      BY <1>1, <3>3, <3>4 DEF V, E, T, Q2
  <2>7. CASE ~ok
    <3>1. T = R /\ Q2 = Q
      BY <1>3, <2>7 DEF WriteDone
    <3> HIDE DEF R, W, V, Q, E, T, Q2
    <3>2. Ledger(R, E, E, Q, Current(f), StandingOf(f)) /\ Ledger(R, V, E, Q, Current(f), StandingOf(f))
      BY <2>2, <2>5, DropKeeps
    <3>3. QED
      BY <1>1, <3>1, <3>2 DEF V, E, T, Q2
  <2>8. QED
    BY <2>6, <2>7
<1>14. TableInv'
  BY <1>13 DEF LedgerInv, TableInv, Ledger, InOrder
<1>15. QED
  BY <1>0, <1>5, <1>7, <1>9, <1>10, <1>11, <1>12, <1>13, <1>14 DEF FeederInv, Onward

\* A tracker as _configure builds it knows nothing and claims nothing.
LEMMA NewIs ==
  ASSUME NEW f, NEW now \in Nat
  PROVE  TrackerOk(NewTracker, now) /\ NewTracker.started = NoTime /\ NewTracker.outage = NoTime
         /\ NewTracker.state = "unknown" /\ \A good : DatesOk(NewTracker, good)
<1>1. NewTracker \in Tracker
  BY FeederConstants DEF NewTracker, Tracker, Standing, Time, NoTime
<1>2. QED
  BY <1>1, FeederConstants DEF NewTracker, TrackerOk, DatesOk, NoTime

\* The rows that the open episodes of the feeders in S become (_close_episode).
Closing(S) == [k \in UNION {DOMAIN CloseEpisode(f, fTracker[f], fClock) : f \in S} |->
                 CloseEpisode(k[1], fTracker[k[1]], fClock)[k]]

\* Closing ends, at the clock, the open episode of every feeder in S and nothing else.
LEMMA ClosingIs ==
  ASSUME FeederInv, NEW S \in SUBSET DOMAIN fTracker
  PROVE  /\ \A k \in DOMAIN Closing(S) :
              /\ k[1] \in S /\ k = <<k[1], fTracker[k[1]].started>> /\ k[2] # NoTime
              /\ Closing(S)[k] = [state |-> fTracker[k[1]].state, ended |-> fClock]
         /\ \A f \in S : fTracker[f].started # NoTime => <<f, fTracker[f].started>> \in DOMAIN Closing(S)
<1>1. ASSUME NEW f \in S
      PROVE  /\ fTracker[f].started = NoTime => DOMAIN CloseEpisode(f, fTracker[f], fClock) = {}
             /\ fTracker[f].started # NoTime =>
                  /\ DOMAIN CloseEpisode(f, fTracker[f], fClock) = {<<f, fTracker[f].started>>}
                  /\ CloseEpisode(f, fTracker[f], fClock)[<<f, fTracker[f].started>>]
                       = [state |-> fTracker[f].state, ended |-> fClock]
  <2>1. TrackerOk(fTracker[f], fPoll.now) /\ fPoll.now \in Nat /\ fPoll.now <= fClock /\ fClock \in Nat
    BY FeederConstants DEF FeederInv, PollInv, TrackerInv, Instants
  <2>2. fTracker[f].started \in Nat /\ fTracker[f].started <= fPoll.now
    BY <2>1, FeederConstants DEF TrackerOk, Tracker, Time
  <2>3. Later(fTracker[f].started, fClock) = fClock
    BY <2>1, <2>2 DEF Later
  <2>4. QED
    BY <2>3 DEF CloseEpisode, Episode
<1>2. \A k \in DOMAIN Closing(S) : /\ \E f \in S : k \in DOMAIN CloseEpisode(f, fTracker[f], fClock)
                                   /\ Closing(S)[k] = CloseEpisode(k[1], fTracker[k[1]], fClock)[k]
  BY DEF Closing
<1>3. \A f \in S : DOMAIN CloseEpisode(f, fTracker[f], fClock) \subseteq DOMAIN Closing(S)
  BY DEF Closing
<1>4. ASSUME NEW k \in DOMAIN Closing(S)
      PROVE  /\ k[1] \in S /\ k = <<k[1], fTracker[k[1]].started>> /\ k[2] # NoTime
             /\ Closing(S)[k] = [state |-> fTracker[k[1]].state, ended |-> fClock]
  <2>1. PICK f \in S : k \in DOMAIN CloseEpisode(f, fTracker[f], fClock)
    BY <1>2
  <2>2. fTracker[f].started # NoTime /\ k = <<f, fTracker[f].started>>
    BY <1>1, <2>1
  <2>3. k[1] = f /\ k[2] = fTracker[f].started
    BY <2>2
  <2>4. Closing(S)[k] = CloseEpisode(f, fTracker[f], fClock)[<<f, fTracker[f].started>>]
    BY <1>2, <2>2, <2>3
  <2>5. QED
    BY <1>1, <2>2, <2>3, <2>4
<1>5. QED
  BY <1>1, <1>3, <1>4

\* They are entries of a book, but for what a poll in progress wants of its own feeders.
LEMMA ClosingBook ==
  ASSUME FeederInv, Onward, NEW S \in SUBSET DOMAIN fTracker,
         Probing' => Probing /\ fPoll' = fPoll /\ S \cap Polled' = {}
  PROVE  \A k, e : k \in DOMAIN Closing(S) /\ e = Closing(S)[k] => EntryInv(k, e)'
<1>1. SUFFICES ASSUME NEW k, NEW e, k \in DOMAIN Closing(S), e = Closing(S)[k] PROVE EntryInv(k, e)'
  OBVIOUS
<1> DEFINE f == k[1]
<1>2. /\ f \in S /\ k = <<f, fTracker[f].started>> /\ k[2] # NoTime
      /\ e = [state |-> fTracker[f].state, ended |-> fClock]
  BY <1>1, ClosingIs
<1>4. TrackerInv(f, fTracker[f]) /\ f \in Feeders
  BY <1>2 DEF FeederInv, PollInv
<1>5. /\ fTracker[f].started \in Instants /\ fTracker[f].started <= fPoll.now /\ fTracker[f].state \in Standing
  BY <1>2, <1>4, FeederConstants DEF TrackerInv, TrackerOk, Tracker, Time, Instants, NoTime
<1>6. /\ fClock \in Instants /\ fPoll.now \in Nat /\ fPoll.now <= fClock
      /\ fClock' \in Nat /\ fClock <= fClock' /\ fPoll'.now \in Nat /\ fPoll.now <= fPoll'.now
  BY FeederConstants DEF FeederInv, PollInv, Onward, Instants
<1>7. k \in Feeders \X Instants /\ k[2] = fTracker[f].started /\ e \in Entry /\ e.state = fTracker[f].state /\ e.ended = fClock
  BY <1>2, <1>4, <1>5, <1>6, FeederConstants DEF Entry, Time, Instants
<1>8. e.state = "down" => Announced(k[1], k[2])'
  BY <1>2, <1>4, <1>7 DEF TrackerInv, Onward, Announced
<1>9. Probing' => k[2] < fPoll'.now /\ k[1] \notin Polled'
  BY <1>2, <1>4, <1>7 DEF TrackerInv
<1>10. QED
  BY <1>5, <1>6, <1>7, <1>8, <1>9, FeederConstants DEF EntryInv, Instants

\* The ledger of a feeder whose open episode is closed, and of one that is left alone.
LEMMA LedgerCloses ==
  ASSUME FeederInv, fUp, NEW S \in SUBSET DOMAIN fTracker, NEW Q2, Over(Q2, Closing(S), fEpisodesQ),
         NEW f \in Feeders \ fLate
  PROVE  /\ DOMAIN Q2 \subseteq Feeders \X Instants
         /\ f \in S => \A s : Ledger(Of(fRows, f), Of(WriteIn(fFlush), f), Of(WaitIn(fFlush), f), Of(Q2, f), NoTime, s)
         /\ f \notin S => Ledger(Of(fRows, f), Of(WriteIn(fFlush), f), Of(WaitIn(fFlush), f), Of(Q2, f), Current(f), StandingOf(f))
<1> DEFINE R == Of(fRows, f)
<1> DEFINE W == Of(WriteIn(fFlush), f)
<1> DEFINE V == Of(WaitIn(fFlush), f)
<1> DEFINE Q == Of(fEpisodesQ, f)
<1> DEFINE N == Of(Closing(S), f)
<1> DEFINE X == Of(Q2, f)
<1>1. /\ Ledger(R, W, V, Q, Current(f), StandingOf(f)) /\ Current(f) \in Nat
      /\ Dated(R) /\ Dated(W) /\ Dated(V) /\ Dated(Q)
  BY LedgerOf
<1>2. DOMAIN Closing(S) \subseteq Feeders \X Instants
  <2>1. \A g \in DOMAIN fTracker : g \in Feeders /\ fTracker[g].started \in Time
    BY DEF FeederInv, PollInv, TrackerInv, TrackerOk, Tracker
  <2>2. QED
    BY <2>1, ClosingIs, FeederConstants DEF Time, Instants, NoTime
<1>3. DOMAIN Q2 \subseteq Feeders \X Instants
  BY <1>2, BookIsDated DEF Over, FeederInv
<1>4. IsOf(N, Closing(S), f) /\ IsOf(X, Q2, f) /\ IsOf(Q, fEpisodesQ, f)
  BY <1>2, <1>3, OfIs, BookIsDated DEF FeederInv
<1>5. CASE f \in S
  <2>1. Current(f) = fTracker[f].started
    BY <1>5 DEF Current
  <2>2. DOMAIN N = {Current(f)} \ {NoTime} /\ (Current(f) # NoTime => N[Current(f)].ended # NoTime)
    <3>1. \A t : <<f, t>> \in DOMAIN Closing(S) <=> t = fTracker[f].started /\ t # NoTime
      BY <1>5, ClosingIs
    <3>2. fTracker[f].started # NoTime => Closing(S)[<<f, fTracker[f].started>>].ended = fClock
      BY <1>5, <3>1, ClosingIs
    <3>3. fClock # NoTime
      BY FeederConstants DEF FeederInv, Instants, NoTime
    <3>4. \A t : t \in DOMAIN N <=> t = Current(f) /\ t # NoTime
      BY <1>4, <2>1, <3>1 DEF IsOf
    <3>5. Current(f) # NoTime => N[Current(f)].ended # NoTime
      BY <1>4, <2>1, <3>2, <3>3, <3>4 DEF IsOf
    <3> HIDE DEF N
    <3>6. QED
      BY <3>4, <3>5
  <2>3. Over(X, N, Q)
    BY <1>4, OfOver
  <2> HIDE DEF R, W, V, Q, N, X
  <2>4. \A s : Ledger(R, W, V, X, NoTime, s)
    BY <1>1, <2>2, <2>3, CloseKeeps
  <2>5. QED
    BY <1>3, <1>5, <2>4 DEF R, W, V, X
<1>6. CASE f \notin S
  <2>1. \A t : <<f, t>> \notin DOMAIN Closing(S)
    BY <1>6, ClosingIs
  <2>2. X = Q
    <3>1. DOMAIN fEpisodesQ \subseteq Feeders \X Instants
      BY BookIsDated DEF FeederInv
    <3>2. (\A t : <<f, t>> \in DOMAIN Q2 <=> <<f, t>> \in DOMAIN fEpisodesQ)
          /\ \A t : <<f, t>> \in DOMAIN Q2 => Q2[<<f, t>>] = fEpisodesQ[<<f, t>>]
      BY <2>1 DEF Over
    <3>3. QED
      BY <1>3, <3>1, <3>2, OfSame
  <2>3. QED
    BY <1>1, <1>3, <1>6, <2>2
<1>7. QED
  BY <1>5, <1>6

\* What a process leaves behind.
LEMMA ForgetKeeps ==
  ASSUME FeederInv, Forget, UNCHANGED <<fClock, fFacts>>
  PROVE  /\ Onward /\ BookInv(fEpisodesQ)' /\ FlushInv' /\ PollInv' /\ FactInv' /\ DownInv' /\ fUp' = FALSE /\ fClock' \in Instants
         /\ fSamplesQ' \in Seq(Probed) /\ Len(fSamplesQ') <= MaxPending
<1>1. fPoll'.pc = "idle" /\ fPoll'.now = fPoll.now /\ fPoll'.names = {}
      /\ fPoll' \in [pc : {"idle", "probing", "flushing"}, now : 0 .. fClock', names : SUBSET Feeders]
  BY DEF FeederInv, PollInv, Forget, Idle
<1>2. Onward /\ fPoll'.now \in Nat /\ ~Probing'
  BY <1>1, FeederConstants DEF FeederInv, PollInv, Onward, Instants, Probing
<1>3. FlushInv' /\ BookInv(fEpisodesQ)'
  <2>1. \A c \in Callers : fFlush'[c] = NoFlush
    BY DEF Forget
  <2>2. FlushShape(fFlush')
    BY <2>1, EmptyBook DEF FlushShape, Callers, NoFlush, Forget
  <2>3. BookInv(<<>>)'
    BY DEF BookInv
  <2>4. BookInv(NoFlush.episodes)'
    BY DEF BookInv, NoFlush
  <2>5. QED
    BY <2>1, <2>2, <2>3, <2>4 DEF FlushInv, Forget
<1>4. PollInv'
  <2>1. \A f \in DOMAIN fTracker' : fTracker'[f] = NewTracker
    BY DEF Forget
  <2>2. \A f : TrackerInv(f, NewTracker)' /\ \A good : DatesOk(NewTracker, good)
    BY <1>2, NewIs DEF TrackerInv
  <2>3. fLastGood' \in [Feeders -> 0 .. fPoll'.now]
    BY <1>2 DEF Forget, NoTime
  <2>4. DOMAIN fTracker' \subseteq Feeders /\ DOMAIN fOrphan' = {}
    BY DEF Forget, FeederInv, PollInv
  <2>5. \A f \in DOMAIN fTracker' : TrackerInv(f, fTracker[f])' /\ DatesOk(fTracker[f], fLastGood[f])'
    BY <2>1, <2>2
  <2>6. QED
    BY <1>1, <1>2, <2>3, <2>4, <2>5 DEF PollInv
<1>5. FactInv' /\ DownInv' /\ fUp' = FALSE /\ fClock' \in Instants
  BY <1>1 DEF FeederInv, FactInv, DownInv, Forget, RestoreFollowsOffline, Announced
<1>6. fSamplesQ' \in Seq(Probed) /\ Len(fSamplesQ') <= MaxPending
  BY FeederConstants DEF Forget
<1>7. QED
  BY <1>2, <1>3, <1>4, <1>5, <1>6

\* The write in progress is the one whose caller says so.
LEMMA WriteInIs ==
  ASSUME FlushInv, NEW c \in Callers, fFlush[c].pc = "write"
  PROVE  WriteIn(fFlush) = fFlush[c].episodes
BY DEF FlushInv, FlushShape, WriteIn, Callers

\* A write that settles leaves a book, in order.
LEMMA SettledBook ==
  ASSUME FeederInv, fUp, NEW b, b \in {WriteIn(fFlush), <<>>}, NEW P, Over(P, b, fRows)
  PROVE  BookInv(P) /\ \A f \in Feeders \ fLate : Before(Of(P, f), Of(P, f))
<1>1. BookInv(b) /\ BookInv(fRows)
  BY FlushBooks, EmptyBook DEF FeederInv
<1>2. BookInv(P)
  BY <1>1 DEF BookInv, Over
<1>3. ASSUME NEW f \in Feeders \ fLate PROVE Before(Of(P, f), Of(P, f))
  <2> DEFINE R == Of(fRows, f)
  <2> DEFINE B == Of(b, f)
  <2> DEFINE E == Of(<<>>, f)
  <2> DEFINE X == Of(P, f)
  <2>1. Over(X, B, R)
    BY <1>1, <1>2, BookIsDated, OfOver
  <2>2. PICK V, Q, c, s : Ledger(R, Of(WriteIn(fFlush), f), V, Q, c, s)
    BY LedgerOf
  <2>3. DOMAIN E = {}
    BY EmptyBook
  <2>4. Ledger(R, E, E, Q, c, s)
    BY <2>2, <2>3, DropKeeps
  <2>5. \E V2 : Ledger(R, B, V2, Q, c, s)
    BY <2>2, <2>4
  <2>6. PICK V2 : Ledger(R, B, V2, Q, c, s)
    BY <2>5
  <2> HIDE DEF R, B, E, X
  <2>7. Before(X, X)
    BY <2>1, <2>6, OverInOrder DEF Ledger, InOrder
  <2>8. QED
    BY <2>7 DEF X
<1>4. QED
  BY <1>2, <1>3

\* A crash.
LEMMA CrashKeeps == ASSUME FeederInv, CrashFeeders PROVE FeederInv'
<1>1. fUp /\ Forget /\ UNCHANGED <<fClock, fFacts, fLate>>
  BY DEF CrashFeeders
<1>2. /\ Onward /\ BookInv(fEpisodesQ)' /\ FlushInv' /\ PollInv' /\ FactInv' /\ DownInv' /\ fUp' = FALSE /\ fClock' \in Instants
      /\ fSamplesQ' \in Seq(Probed) /\ Len(fSamplesQ') <= MaxPending
  BY <1>1, ForgetKeeps
<1>3. CASE UNCHANGED <<fRows, fSamples>>
  <2>1. BookInv(fRows)'
    BY <1>2, <1>3, OnwardKeeps DEF FeederInv
  <2>2. TableInv' /\ SampleInv'
    BY <1>1, <1>2, <1>3 DEF FeederInv, TableInv, SampleInv
  <2>3. QED
    BY <1>2, <2>1, <2>2 DEF FeederInv
<1>4. ASSUME NEW c \in Callers, fFlush[c].pc = "write", fRows' = Upsert(fFlush[c].episodes, fRows),
             fSamples' = fSamples \cup Range(fFlush[c].samples)
      PROVE  FeederInv'
  <2>1. Over(fRows', WriteIn(fFlush), fRows)
    BY <1>4, WriteInIs, UpsertIs DEF FeederInv
  <2>2. BookInv(fRows') /\ \A f \in Feeders \ fLate : Before(Of(fRows', f), Of(fRows', f))
    BY <1>1, <2>1, SettledBook
  <2>3. BookInv(fRows)'
    BY <1>2, <2>2, OnwardKeeps DEF BookInv
  <2>4. TableInv'
    BY <1>1, <2>2 DEF TableInv
  <2>5. SampleInv'
    BY <1>2, <1>4 DEF FeederInv, FlushInv, FlushShape, SampleInv, Range
  <2>6. QED
    BY <1>2, <2>3, <2>4, <2>5 DEF FeederInv
<1>5. QED
  BY <1>3, <1>4 DEF CrashFeeders

\* A stop.
LEMMA StopKeeps == ASSUME FeederInv, NEW settled \in BOOLEAN, NEW final \in BOOLEAN, StopFeeders(settled, final) PROVE FeederInv'
<1> DEFINE w == fFlush["poll"]
<1> DEFINE first == IF w.pc = "write" /\ settled THEN w ELSE NoFlush
<1> DEFINE S == {f \in DOMAIN fTracker : fTracker[f].state # "down"}
<1> DEFINE P == Upsert(first.episodes, fRows)
<1> DEFINE Q2 == Upsert(Closing(S), fEpisodesQ)
<1>1. /\ fUp /\ Forget /\ UNCHANGED <<fClock, fFacts, fLate>>
      /\ fRows' = IF final THEN Upsert(Q2, P) ELSE P
      /\ fSamples' = fSamples \cup Range(first.samples) \cup (IF final THEN Range(fSamplesQ) ELSE {})
  BY DEF StopFeeders, Closing
<1>2. /\ Onward /\ BookInv(fEpisodesQ)' /\ FlushInv' /\ PollInv' /\ FactInv' /\ DownInv' /\ fUp' = FALSE /\ fClock' \in Instants
      /\ fSamplesQ' \in Seq(Probed) /\ Len(fSamplesQ') <= MaxPending
  BY <1>1, ForgetKeeps
<1>3. first.episodes \in {WriteIn(fFlush), <<>>} /\ first.samples \in Seq(Probed)
  <2>1. NoFlush.episodes = <<>> /\ NoFlush.samples \in Seq(Probed)
    BY EmptyBook DEF NoFlush
  <2>2. w.samples \in Seq(Probed) /\ (w.pc = "write" => WriteIn(fFlush) = w.episodes)
    BY WriteInIs DEF FeederInv, FlushInv, FlushShape, Callers
  <2>3. QED
    BY <2>1, <2>2
<1>4. S \in SUBSET DOMAIN fTracker
  OBVIOUS
<1> HIDE DEF first, S, w
<1>5. Over(P, first.episodes, fRows) /\ Over(Q2, Closing(S), fEpisodesQ) /\ Over(Upsert(Q2, P), Q2, P)
  BY UpsertIs
<1> HIDE DEF P, Q2
<1>6. BookInv(P) /\ \A f \in Feeders \ fLate : Before(Of(P, f), Of(P, f))
  BY <1>1, <1>3, <1>5, SettledBook
<1>7. \A b : BookInv(b) => \A k \in DOMAIN b : EntryInv(k, b[k])'
  BY <1>2, OnwardKeeps DEF BookInv
<1>8. \A k, e : (k \in DOMAIN P /\ e = P[k]) \/ (k \in DOMAIN Q2 /\ e = Q2[k]) => EntryInv(k, e)'
  <2>1. \A k, e : EntryInv(k, e) => EntryInv(k, e)'
    BY <1>2, OnwardKeeps
  <2>2. \A k, e : k \in DOMAIN Closing(S) /\ e = Closing(S)[k] => EntryInv(k, e)'
    <3>1. ~Probing'
      BY <1>1 DEF Forget, Idle, Probing
    <3>2. QED
      BY <1>2, <1>4, <3>1, ClosingBook
  <2>3. BookInv(fEpisodesQ)
    BY DEF FeederInv
  <2>4. QED
    BY <1>5, <1>6, <2>1, <2>2, <2>3 DEF BookInv, Over
<1>9. \A k, e : k \in DOMAIN fRows' /\ e = fRows'[k] => EntryInv(k, e)'
  BY <1>1, <1>5, <1>8 DEF Over
<1>10. BookInv(fRows)'
  BY <1>9 DEF BookInv
<1>11. \A f \in Feeders \ fLate : Before(Of(fRows', f), Of(fRows', f))
  <2>1. SUFFICES ASSUME NEW f \in Feeders \ fLate, final PROVE Before(Of(fRows', f), Of(fRows', f))
    BY <1>1, <1>6
  <2> DEFINE R == Of(fRows, f)
  <2> DEFINE W == Of(WriteIn(fFlush), f)
  <2> DEFINE E == Of(<<>>, f)
  <2> DEFINE B == Of(first.episodes, f)
  <2> DEFINE X == Of(P, f)
  <2> DEFINE Y == Of(Q2, f)
  <2> DEFINE U == Of(fRows', f)
  <2>2. \E V, c, s : Ledger(R, W, V, Y, c, s)
    BY <1>1, <1>4, <1>5, LedgerCloses
  <2>3. PICK V, c, s : Ledger(R, W, V, Y, c, s)
    BY <2>2
  <2>4. DOMAIN E = {}
    BY EmptyBook
  <2>5. Ledger(R, E, E, Y, c, s)
    BY <2>3, <2>4, DropKeeps
  <2>6. \E V2 : Ledger(R, B, V2, Y, c, s)
    BY <1>3, <2>3, <2>5
  <2>7. PICK V2 : Ledger(R, B, V2, Y, c, s)
    BY <2>6
  <2>8. Over(X, B, R) /\ Over(U, Y, X)
    <3>1. DOMAIN Q2 \subseteq Feeders \X Instants
      BY <1>1, <1>4, <1>5, LedgerCloses
    <3>2. BookInv(first.episodes) /\ BookInv(fRows)
      BY <1>3, FlushBooks, EmptyBook DEF FeederInv
    <3>3. DOMAIN P \subseteq Feeders \X Instants /\ DOMAIN fRows' \subseteq Feeders \X Instants
      BY <1>1, <1>5, <1>6, <2>1, <3>1, BookIsDated DEF Over
    <3>4. IsOf(X, P, f) /\ IsOf(Y, Q2, f) /\ IsOf(U, fRows', f) /\ IsOf(B, first.episodes, f) /\ IsOf(R, fRows, f)
      BY <3>1, <3>2, <3>3, OfIs, BookIsDated
    <3>5. Over(fRows', Q2, P)
      BY <1>1, <1>5, <2>1
    <3>6. QED
      BY <1>5, <3>4, <3>5, OfOver
  <2> HIDE DEF R, W, E, B, X, Y, U
  <2>9. Before(U, U)
    <3>1. \E T : Over(T, Y, R)
      BY UpsertIs
    <3>2. PICK T : Over(T, Y, R)
      BY <3>1
    <3>3. QED
      BY <2>7, <2>8, <3>2, SettledIsOrdered
  <2>10. QED
    BY <2>9 DEF U
<1>12. TableInv'
  BY <1>1, <1>11 DEF TableInv
<1>13. SampleInv'
  BY <1>1, <1>2, <1>3 DEF FeederInv, SampleInv, Range
<1>14. QED
  BY <1>2, <1>10, <1>12, <1>13 DEF FeederInv

\* Every nonempty set of naturals has a least member.
LEMMA MinExists ==
  ASSUME NEW T, T \subseteq Nat, T # {}
  PROVE  \E x \in T : \A y \in T : x <= y
<1> DEFINE R == StrictSubsetOrdering(Nat)
           I == {0..n : n \in T}
<1>1. IsWellFoundedOn(R, FiniteSubsetsOf(Nat))
  BY FS_StrictSubsetOrderingWellFounded
<1>2. I \subseteq FiniteSubsetsOf(Nat) /\ I # {}
  <2>1. \A n \in Nat : IsFiniteSet(0..n)
    BY FS_Interval
  <2>2. \A n \in Nat : 0..n \in FiniteSubsetsOf(Nat)
    BY <2>1 DEF FiniteSubsetsOf
  <2>3. \A s \in I : s \in FiniteSubsetsOf(Nat)
    BY <2>2
  <2>4. PICK n \in T : TRUE
    OBVIOUS
  <2>5. 0..n \in I
    BY <2>4
  <2>6. QED
    BY <2>3, <2>5
<1>3. \E x \in I : \A y \in I : ~(<<y, x>> \in R)
  <2> HIDE DEF R, I
  <2>1. QED
    BY <1>1, <1>2, WFMin
<1>4. PICK n \in T : \A y \in I : ~(<<y, 0..n>> \in R)
  BY <1>3
<1>5. ASSUME NEW y \in T, y < n
      PROVE  FALSE
  <2>1. <<0..y, 0..n>> \in R
    BY <1>5 DEF StrictSubsetOrdering
  <2>2. QED
    BY <1>4, <2>1
<1>6. QED
  BY <1>4, <1>5

\* Every nonempty set of instants has a latest one: what CHOOSE picks for the newest open row, and for
\* when a feeder was last seen.
LEMMA LatestExists ==
  ASSUME NEW T, T \subseteq Time, T # {}
  PROVE  \E x \in T : \A y \in T : y <= x
<1> DEFINE D == {MaxFeederClock - x : x \in T}
<1>1. MaxFeederClock \in Nat /\ \A x \in T : x \in Nat /\ x <= MaxFeederClock
  BY FeederConstants DEF Time
<1>2. D \subseteq Nat /\ D # {}
  BY <1>1
<1>3. PICK d \in D : \A e \in D : d <= e
  <2> HIDE DEF D
  <2>1. QED
    BY <1>2, MinExists
<1>4. PICK x \in T : d = MaxFeederClock - x
  OBVIOUS
<1>5. \A y \in T : MaxFeederClock - x <= MaxFeederClock - y
  BY <1>3, <1>4
<1>6. QED
  BY <1>1, <1>4, <1>5

\* The newest open row of a feeder is one of its rows.
LEMMA NewestIs ==
  ASSUME NEW rows, NEW f, DOMAIN rows \subseteq Feeders \X Instants, OpenRows(rows, f) # {}
  PROVE  Newest(OpenRows(rows, f)) \in OpenRows(rows, f)
<1> DEFINE O == OpenRows(rows, f)
<1> DEFINE T == {k[2] : k \in O}
<1>1. T \subseteq Time /\ T # {}
  BY FeederConstants DEF OpenRows, Time, Instants
<1> HIDE DEF T, O
<1>2. PICK x \in T : \A y \in T : y <= x
  BY <1>1, LatestExists
<1>3. \E k \in O : \A l \in O : l[2] <= k[2]
  BY <1>2 DEF T
<1>4. QED
  BY <1>3 DEF Newest, O

\* What close_dangling leaves of a row: a row that is kept or was closed is as it was, and any other
\* ends between its start and now.
LEMMA DanglingIs ==
  ASSUME BookInv(fRows), SampleInv, PollInv, fClock \in Instants, NEW keep, NEW removed, NEW k \in DOMAIN fRows
  PROVE  /\ DOMAIN CloseDangling(keep, removed) = DOMAIN fRows
         /\ fRows[k].ended # NoTime \/ k \in keep => CloseDangling(keep, removed)[k] = fRows[k]
         /\ fRows[k].ended = NoTime /\ k \notin keep =>
              \E x \in Instants : /\ CloseDangling(keep, removed)[k] = [fRows[k] EXCEPT !.ended = x]
                                  /\ k[2] <= x /\ x <= fClock
<1> DEFINE seen == {s.ts : s \in {s \in fSamples : s.feeder = k[1] /\ s.ts >= k[2]}}
<1> DEFINE last == IF seen = {} THEN k[2] ELSE CHOOSE t \in seen : \A u \in seen : u <= t
<1> DEFINE x == IF k[1] \in removed THEN Later(k[2], fClock) ELSE IF last < fClock THEN last ELSE fClock
<1>1. k[2] \in Instants /\ k[2] <= fClock /\ fClock \in Instants
  BY FeederConstants DEF BookInv, EntryInv, PollInv, Instants
<1>2. last \in Instants /\ k[2] <= last
  <2>1. seen \subseteq Instants /\ \A t \in seen : k[2] <= t
    BY <1>1, FeederConstants DEF SampleInv, Probed, Instants
  <2>2. seen \subseteq Time
    BY <2>1, FeederConstants DEF Time, Instants
  <2> HIDE DEF seen
  <2>3. CASE seen = {}
    BY <1>1, <2>3, FeederConstants DEF Instants
  <2>4. CASE seen # {}
    <3>1. \E t \in seen : \A u \in seen : u <= t
      BY <2>2, <2>4, LatestExists
    <3>2. last \in seen
      BY <2>4, <3>1
    <3>3. QED
      BY <2>1, <3>2
  <2>5. QED
    BY <2>3, <2>4
<1>3. fRows[k].ended = NoTime /\ k \notin keep => CloseDangling(keep, removed)[k] = [fRows[k] EXCEPT !.ended = x]
  BY DEF CloseDangling
<1> HIDE DEF last
<1>4. x \in Instants /\ k[2] <= x /\ x <= fClock
  BY <1>1, <1>2, FeederConstants DEF Later, Instants
<1> HIDE DEF x
<1>5. DOMAIN CloseDangling(keep, removed) = DOMAIN fRows
      /\ (fRows[k].ended # NoTime \/ k \in keep => CloseDangling(keep, removed)[k] = fRows[k])
  BY DEF CloseDangling
<1>6. QED
  BY <1>3, <1>4, <1>5

\* The rows the next process reads as still open, and the outages among them that it resumes.
Found == {Newest(OpenRows(fRows, f)) : f \in {g \in Feeders : OpenRows(fRows, g) # {}}}
Kept  == {k \in Found : k[1] \in DOMAIN fTracker /\ fRows[k].state = "down"}

\* The restart finds at most one open row of a feeder, and leaves none of another open.
LEMMA FoundIs ==
  ASSUME BookInv(fRows)
  PROVE  /\ \A k \in Found : /\ k \in DOMAIN fRows /\ fRows[k].ended = NoTime /\ k[1] \in Feeders
                             /\ k = <<k[1], k[2]>> /\ \A l \in Found : l[1] = k[1] => l = k
         /\ \A f \in Feeders : (~\E k \in Found : k[1] = f) => \A t : <<f, t>> \in DOMAIN fRows => fRows[<<f, t>>].ended # NoTime
<1>1. DOMAIN fRows \subseteq Feeders \X Instants
  BY DEF BookInv, EntryInv
<1>2. ASSUME NEW k \in Found
      PROVE  k[1] \in Feeders /\ k = Newest(OpenRows(fRows, k[1])) /\ k \in OpenRows(fRows, k[1])
  <2>1. PICK f \in Feeders : OpenRows(fRows, f) # {} /\ k = Newest(OpenRows(fRows, f))
    BY DEF Found
  <2>2. k \in OpenRows(fRows, f)
    BY <1>1, <2>1, NewestIs
  <2>3. k[1] = f
    BY <2>2 DEF OpenRows
  <2>4. QED
    BY <2>1, <2>2, <2>3
<1>3. \A k \in Found : k \in DOMAIN fRows /\ fRows[k].ended = NoTime /\ k = <<k[1], k[2]>>
  <2>1. \A k \in Found : k \in DOMAIN fRows /\ fRows[k].ended = NoTime
    BY <1>2 DEF OpenRows
  <2>2. \A k \in DOMAIN fRows : k \in Feeders \X Instants
    BY <1>1
  <2>3. \A k \in Feeders \X Instants : k = <<k[1], k[2]>>
    OBVIOUS
  <2>4. QED
    BY <2>1, <2>2, <2>3, Zenon
<1>4. ASSUME NEW f \in Feeders, ~\E k \in Found : k[1] = f, NEW t, <<f, t>> \in DOMAIN fRows
      PROVE  fRows[<<f, t>>].ended # NoTime
  <2>1. OpenRows(fRows, f) # {} => Newest(OpenRows(fRows, f)) \in Found /\ Newest(OpenRows(fRows, f))[1] = f
    BY <1>1, NewestIs DEF Found, OpenRows
  <2>2. OpenRows(fRows, f) = {}
    BY <1>4, <2>1
  <2>3. QED
    BY <1>4, <2>2 DEF OpenRows
<1>5. QED
  BY <1>2, <1>3, <1>4

\* A start: outages still open are resumed, and what else was open is closed.
LEMMA StartKeeps == ASSUME FeederInv, NEW outcome \in {"ok", "unread", "unclosed"}, StartFeeders(outcome) PROVE FeederInv'
<1> DEFINE removed == {k[1] : k \in Found} \ DOMAIN fTracker
<1> DEFINE Resumed(f) == outcome # "unread" /\ \E k \in Kept : k[1] = f
<1> DEFINE kept(f) == CHOOSE k \in Kept : k[1] = f
<1>1. /\ ~fUp /\ fUp' = TRUE
      /\ DOMAIN fTracker' = DOMAIN fTracker
      /\ \A f \in DOMAIN fTracker :
           fTracker'[f] = IF Resumed(f) THEN [NewTracker EXCEPT !.state = "down", !.started = kept(f)[2], !.outage = kept(f)[2]]
                          ELSE NewTracker
      /\ fRows' = IF outcome = "ok" THEN CloseDangling(Kept, removed) ELSE fRows
      /\ fLate' = IF outcome = "ok" THEN fLate ELSE fLate \cup {k[1] : k \in Found}
      /\ UNCHANGED <<fClock, fPoll, fOrphan, fSamplesQ, fEpisodesQ, fFlush, fSamples, fFacts, fLastGood>>
  BY DEF StartFeeders, Found, Kept
<1>2. /\ fSamplesQ = <<>> /\ fEpisodesQ = <<>> /\ fOrphan = <<>> /\ fPoll.pc = "idle" /\ ~Probing /\ ~Probing'
      /\ \A c \in Callers : fFlush[c] = NoFlush
      /\ \A f \in Feeders : fLastGood[f] = NoTime
      /\ WriteIn(fFlush) = <<>> /\ WaitIn(fFlush) = <<>>
  <2>1. /\ fSamplesQ = <<>> /\ fEpisodesQ = <<>> /\ fOrphan = <<>> /\ fPoll.pc = "idle"
        /\ \A c \in Callers : fFlush[c] = NoFlush
        /\ \A f \in Feeders : fLastGood[f] = NoTime
    BY <1>1 DEF FeederInv, DownInv
  <2>2. fPoll' = fPoll
    BY <1>1
  <2>3. ~Probing /\ ~Probing'
    BY <2>1, <2>2 DEF Probing
  <2>4. fFlush["poll"].pc = "none" /\ fFlush["apply"].pc = "none"
    BY <2>1 DEF Callers, NoFlush
  <2>5. QED
    BY <2>1, <2>3, <2>4 DEF WriteIn, WaitIn
<1>3. Onward
  <2>1. fClock \in Instants /\ fPoll.now \in 0 .. fClock /\ fClock' = fClock /\ fPoll' = fPoll /\ fFacts' = fFacts
    BY <1>1 DEF FeederInv, PollInv
  <2>2. QED
    BY <1>2, <2>1, FeederConstants DEF Onward, Instants
<1>4. \A f \in DOMAIN fTracker : Resumed(f) => kept(f) \in Kept /\ kept(f)[1] = f
  OBVIOUS
<1>5. /\ \A k \in Found : /\ k \in DOMAIN fRows /\ fRows[k].ended = NoTime /\ k[1] \in Feeders
                         /\ k = <<k[1], k[2]>> /\ \A l \in Found : l[1] = k[1] => l = k
      /\ \A f \in Feeders : (~\E k \in Found : k[1] = f) => \A t : <<f, t>> \in DOMAIN fRows => fRows[<<f, t>>].ended # NoTime
  BY FoundIs DEF FeederInv
<1>6. \A k \in Kept : k \in Found /\ k[1] \in DOMAIN fTracker /\ fRows[k].state = "down"
  BY DEF Kept
<1>7. \A k \in DOMAIN fRows : EntryInv(k, fRows[k])
  BY DEF FeederInv, BookInv
<1> HIDE DEF Resumed, kept, removed
<1>8. BookInv(fRows)' /\ BookInv(fEpisodesQ)' /\ FlushInv'
  <2>1. \A k, e : EntryInv(k, e) => EntryInv(k, e)'
    BY <1>3, OnwardKeeps
  <2>2. BookInv(fEpisodesQ)' /\ FlushInv'
    BY <1>1, <1>3, OnwardKeeps DEF FeederInv, FlushInv
  <2>3. CASE outcome # "ok"
    BY <1>1, <1>7, <2>1, <2>2, <2>3 DEF BookInv
  <2>4. CASE outcome = "ok"
    <3>1. ASSUME NEW k \in DOMAIN fRows, NEW e, e = CloseDangling(Kept, removed)[k] PROVE EntryInv(k, e)'
      <4>1. /\ fRows[k].ended # NoTime \/ k \in Kept => e = fRows[k]
            /\ fRows[k].ended = NoTime /\ k \notin Kept =>
                 \E x \in Instants : e = [fRows[k] EXCEPT !.ended = x] /\ k[2] <= x /\ x <= fClock
        BY <3>1, DanglingIs DEF FeederInv
      <4>2. CASE e = fRows[k]
        BY <1>7, <2>1, <4>2
      <4>3. ASSUME NEW x \in Instants, e = [fRows[k] EXCEPT !.ended = x], k[2] <= x, x <= fClock
            PROVE  EntryInv(k, e)'
        <5>1. EntryInv(k, fRows[k]) /\ fRows[k] \in Entry
          BY <1>7 DEF EntryInv
        <5>2. e \in Entry /\ e.ended = x /\ e.state = fRows[k].state
          BY <4>3, <5>1, FeederConstants DEF Entry, Time, Instants
        <5>3. EntryInv(k, e)
          BY <1>2, <4>3, <5>1, <5>2 DEF EntryInv
        <5>4. QED
          BY <2>1, <5>3
      <4>4. QED
        BY <4>1, <4>2, <4>3
    <3>2. \A k \in DOMAIN fRows : DOMAIN CloseDangling(Kept, removed) = DOMAIN fRows
      BY DanglingIs DEF FeederInv
    <3>3. CASE DOMAIN fRows = {}
      <4>1. DOMAIN fRows' = {}
        BY <1>1, <2>4, <3>3 DEF CloseDangling
      <4>2. QED
        BY <2>2, <4>1 DEF BookInv
    <3>4. CASE DOMAIN fRows # {}
      BY <1>1, <2>2, <2>4, <3>1, <3>2, <3>4 DEF BookInv
    <3>5. QED
      BY <3>3, <3>4
  <2>5. QED
    BY <2>3, <2>4
<1>9. \A f \in DOMAIN fTracker : Resumed(f) =>
        /\ kept(f) \in DOMAIN fRows /\ kept(f) \in Kept /\ kept(f) = <<f, kept(f)[2]>> /\ fRows[kept(f)].ended = NoTime
        /\ fRows[kept(f)].state = "down" /\ kept(f)[2] \in Instants /\ kept(f)[2] <= fPoll.now
        /\ Announced(f, kept(f)[2])
  <2>1. SUFFICES ASSUME NEW f \in DOMAIN fTracker, Resumed(f), NEW k, k = kept(f)
                 PROVE  /\ k \in DOMAIN fRows /\ k \in Kept /\ k = <<f, k[2]>> /\ fRows[k].ended = NoTime
                        /\ fRows[k].state = "down" /\ k[2] \in Instants /\ k[2] <= fPoll.now
                        /\ Announced(f, k[2])
    BY Zenon
  <2>2. k \in Kept /\ k[1] = f /\ k \in Found /\ fRows[k].state = "down"
    BY <1>4, <1>6, <2>1
  <2>3. k \in DOMAIN fRows /\ fRows[k].ended = NoTime /\ k = <<k[1], k[2]>>
    BY <1>5, <2>2
  <2>4. EntryInv(k, fRows[k])
    BY <1>7, <2>3
  <2>5. k[2] \in Instants /\ k[2] <= fPoll.now /\ Announced(f, k[2])
    BY <2>2, <2>4 DEF EntryInv
  <2>6. k = <<f, k[2]>>
    BY <2>2, <2>3, Zenon
  <2>7. QED
    BY <2>2, <2>3, <2>5, <2>6
<1>10. PollInv'
  <2>1. /\ fPoll' \in [pc : {"idle", "probing", "flushing"}, now : 0 .. fClock', names : SUBSET Feeders]
        /\ fLastGood' \in [Feeders -> 0 .. fPoll'.now] /\ DOMAIN fTracker' \subseteq Feeders /\ DOMAIN fOrphan' = {}
    <3>1. /\ fPoll' = fPoll /\ fClock' = fClock /\ fLastGood' = fLastGood /\ DOMAIN fTracker' = DOMAIN fTracker
          /\ fOrphan' = <<>>
      BY <1>1, <1>2
    <3>2. QED
      BY <3>1 DEF FeederInv, PollInv
  <2>2. fPoll.now \in Nat /\ fPoll'.now = fPoll.now
    <3>1. fClock \in Instants /\ fPoll.now \in 0 .. fClock /\ fPoll' = fPoll
      BY <1>1 DEF FeederInv, PollInv
    <3>2. QED
      BY <3>1, FeederConstants DEF Instants
  <2>3. ASSUME NEW f \in DOMAIN fTracker, NEW t, t = fTracker'[f] PROVE TrackerInv(f, t)' /\ DatesOk(t, NoTime)
    <3>1. CASE ~Resumed(f)
      <4>1. t = NewTracker
        BY <1>1, <2>3, <3>1
      <4>2. QED
        BY <1>2, <2>2, <4>1, NewIs DEF TrackerInv
    <3>2. CASE Resumed(f)
      <4>1. PICK c : c = kept(f)[2]
        OBVIOUS
      <4>2. c \in Instants /\ c <= fPoll.now /\ Announced(f, c)'
        BY <1>1, <1>9, <3>2, <4>1 DEF Announced
      <4>3. /\ t.state = "down" /\ t.started = c /\ t.outage = c /\ t.held = 0 /\ t.firstDown = NoTime
            /\ t \in Tracker
        <5>1. t = [NewTracker EXCEPT !.state = "down", !.started = c, !.outage = c]
          BY <1>1, <2>3, <3>2, <4>1
        <5>2. c \in Time /\ "down" \in Standing
          <6>1. \E k \in DOMAIN fRows : fRows[k].state = "down" /\ fRows[k] \in Entry
            BY <1>7, <1>9, <3>2 DEF EntryInv
          <6>2. QED
            BY <4>2, <6>1, FeederConstants DEF Time, Instants, Entry
        <5>3. NewTracker \in Tracker /\ NewTracker.held = 0 /\ NewTracker.firstDown = NoTime
          BY FeederConstants DEF NewTracker, Tracker, Standing, Time, NoTime
        <5>4. QED
          BY <5>1, <5>2, <5>3 DEF Tracker
      <4>4. QED
        BY <1>2, <2>2, <4>2, <4>3, FeederConstants DEF TrackerInv, TrackerOk, DatesOk, Instants, NoTime
    <3>3. QED
      BY <3>1, <3>2
  <2>4. \A f \in DOMAIN fTracker' : TrackerInv(f, fTracker[f])' /\ DatesOk(fTracker[f], fLastGood[f])'
    <3>1. \A f \in DOMAIN fTracker : fLastGood'[f] = NoTime
      BY <1>1, <1>2, <2>1
    <3>2. QED
      BY <1>1, <2>3, <3>1
  <2>5. QED
    BY <1>2, <2>1, <2>4 DEF PollInv
<1>11. SampleInv' /\ FactInv' /\ DownInv'
  BY <1>1 DEF FeederInv, SampleInv, FactInv, DownInv, RestoreFollowsOffline, Announced
<1>12. \A f \in DOMAIN fTracker' : Current(f)' = fTracker'[f].started /\ StandingOf(f)' = fTracker'[f].state
  BY DEF Current, StandingOf
<1>13. LedgerInv'
  <2>1. WriteIn(fFlush') = <<>> /\ WaitIn(fFlush') = <<>> /\ fEpisodesQ' = <<>>
    BY <1>1, <1>2
  <2>2. SUFFICES ASSUME NEW f \in Feeders, f \notin fLate', NEW c, c = Current(f)', NEW s, s = StandingOf(f)'
                 PROVE  Ledger(Of(fRows', f), Of(<<>>, f), Of(<<>>, f), Of(<<>>, f), c, s)
    BY <2>1 DEF LedgerInv, WriteIn, WaitIn
  <2> DEFINE R == Of(fRows, f)
  <2> DEFINE R2 == Of(fRows', f)
  <2> DEFINE E == Of(<<>>, f)
  <2>3. f \notin fLate /\ Before(R, R)
    BY <1>1, <2>2 DEF FeederInv, TableInv
  <2>4. IsOf(R, fRows, f) /\ IsOf(R2, fRows', f)
    BY <1>8, BookIsDated, OfIs DEF FeederInv, BookInv, EntryInv
  <2>5. /\ DOMAIN R2 = DOMAIN R
        /\ \A t \in DOMAIN R : R[t].ended # NoTime \/ <<f, t>> \in Kept => R2[t] = R[t]
        /\ \A t \in DOMAIN R2 : R2[t].ended = NoTime => R[t].ended = NoTime /\ <<f, t>> \in Kept /\ outcome = "ok"
    <3>1. CASE outcome = "ok"
      <4>1. ASSUME NEW t, <<f, t>> \in DOMAIN fRows
            PROVE  /\ <<f, t>> \in DOMAIN fRows'
                   /\ fRows[<<f, t>>].ended # NoTime \/ <<f, t>> \in Kept => fRows'[<<f, t>>] = fRows[<<f, t>>]
                   /\ fRows'[<<f, t>>].ended = NoTime => fRows[<<f, t>>].ended = NoTime /\ <<f, t>> \in Kept
        <5> DEFINE k == <<f, t>>
        <5>a. BookInv(fRows) /\ SampleInv /\ PollInv /\ fClock \in Instants
          BY DEF FeederInv
        <5>b. \A l \in DOMAIN fRows :
              /\ DOMAIN CloseDangling(Kept, removed) = DOMAIN fRows
              /\ fRows[l].ended # NoTime \/ l \in Kept => CloseDangling(Kept, removed)[l] = fRows[l]
              /\ fRows[l].ended = NoTime /\ l \notin Kept =>
                   \E x \in Instants : CloseDangling(Kept, removed)[l] = [fRows[l] EXCEPT !.ended = x] /\ l[2] <= x /\ x <= fClock
          BY <5>a, DanglingIs
        <5>0. fRows' = CloseDangling(Kept, removed)
          BY <1>1, <3>1
        <5>1. /\ DOMAIN fRows' = DOMAIN fRows
              /\ fRows[k].ended # NoTime \/ k \in Kept => fRows'[k] = fRows[k]
              /\ fRows[k].ended = NoTime /\ k \notin Kept =>
                   \E x \in Instants : fRows'[k] = [fRows[k] EXCEPT !.ended = x] /\ k[2] <= x /\ x <= fClock
          BY <4>1, <5>0, <5>b
        <5>2. fRows[k] \in Entry
          BY <1>7, <4>1 DEF EntryInv
        <5>3. fRows[k].ended = NoTime /\ k \notin Kept => fRows'[k].ended # NoTime
          <6>1. ASSUME NEW x \in Instants, fRows'[k] = [fRows[k] EXCEPT !.ended = x] PROVE fRows'[k].ended # NoTime
            BY <5>2, <6>1, FeederConstants DEF Entry, Instants, NoTime
          <6> HIDE DEF k
          <6>2. QED
            BY <5>1, <6>1
        <5>4. QED
          BY <4>1, <5>1, <5>3
      <4>2. \A t : <<f, t>> \in DOMAIN fRows' => <<f, t>> \in DOMAIN fRows
        BY <1>1, <3>1 DEF CloseDangling
      <4>3. QED
        BY <2>4, <3>1, <4>1, <4>2 DEF IsOf
    <3>2. CASE outcome # "ok"
      <4>1. ~\E k \in Found : k[1] = f
        BY <1>1, <2>2, <3>2
      <4>2. R2 = R /\ \A t \in DOMAIN R : R[t].ended # NoTime
        <5>1. fRows' = fRows
          BY <1>1, <3>2
        <5>2. \A t : <<f, t>> \in DOMAIN fRows => fRows[<<f, t>>].ended # NoTime
          BY <1>5, <2>2, <4>1
        <5>3. QED
          BY <2>4, <5>1, <5>2 DEF IsOf
      <4>3. QED
        BY <4>2
    <3>3. QED
      BY <3>1, <3>2
  <2>6. Before(R2, R2)
    BY <2>3, <2>5 DEF Before
  <2>7. DOMAIN E = {}
    BY EmptyBook
  <2>8. (c = NoTime \/ (f \in DOMAIN fTracker /\ Resumed(f) /\ c = kept(f)[2] /\ s = "down"))
        /\ (f \in DOMAIN fTracker /\ Resumed(f) => c = kept(f)[2])
    <3>1. CASE f \notin DOMAIN fTracker
      BY <1>1, <2>2, <3>1 DEF Current
    <3>2. CASE f \in DOMAIN fTracker /\ ~Resumed(f)
      <4>1. c = NewTracker.started
        BY <1>1, <1>12, <2>2, <3>2
      <4>2. QED
        BY <3>2, <4>1 DEF NewTracker
    <3>3. CASE f \in DOMAIN fTracker /\ Resumed(f)
      <4>1. fTracker'[f].started = kept(f)[2] /\ fTracker'[f].state = "down"
        BY <1>1, <3>3 DEF NewTracker
      <4>2. QED
        BY <1>1, <1>12, <2>2, <3>3, <4>1
    <3>4. QED
      BY <3>1, <3>2, <3>3
  <2>9. \A t \in DOMAIN R2 : R2[t].ended = NoTime => t = c
    <3>1. SUFFICES ASSUME NEW t \in DOMAIN R2, R2[t].ended = NoTime PROVE t = c
      OBVIOUS
    <3>2. PICK k : k = <<f, t>>
      OBVIOUS
    <3>3. k \in Kept /\ k[1] = f /\ k[2] = t /\ outcome = "ok"
      BY <2>5, <3>1, <3>2
    <3>4. f \in DOMAIN fTracker /\ Resumed(f)
      BY <1>6, <3>3 DEF Resumed
    <3>5. kept(f) = k
      BY <1>4, <1>5, <1>6, <3>3, <3>4
    <3>6. QED
      BY <2>8, <3>3, <3>4, <3>5
  <2>10. c # NoTime => c \in DOMAIN R2 /\ R2[c] = Open(s) /\ \A t \in DOMAIN R2 : t <= c
    <3>1. SUFFICES ASSUME c # NoTime PROVE c \in DOMAIN R2 /\ R2[c] = Open(s) /\ \A t \in DOMAIN R2 : t <= c
      OBVIOUS
    <3>2. f \in DOMAIN fTracker /\ Resumed(f) /\ c = kept(f)[2] /\ s = "down"
      BY <2>8, <3>1
    <3>3. PICK k : k = <<f, c>>
      OBVIOUS
    <3>4. k \in DOMAIN fRows /\ k \in Kept /\ fRows[k].ended = NoTime /\ fRows[k].state = "down" /\ c \in Instants
      <4>1. kept(f) = k
        BY <1>9, <3>2, <3>3
      <4>2. QED
        BY <1>9, <3>2, <4>1
    <3>5. c \in DOMAIN R /\ R[c] = fRows[k]
      BY <2>4, <3>3, <3>4 DEF IsOf
    <3>6. c \in DOMAIN R2 /\ R2[c] = fRows[k]
      BY <2>5, <3>3, <3>4, <3>5
    <3>7. fRows[k] = Open(s)
      <4>1. fRows[k] \in Entry
        BY <1>7, <3>4 DEF EntryInv
      <4>2. QED
        BY <3>2, <3>4, <4>1 DEF Entry, Open
    <3>8. ASSUME NEW t \in DOMAIN R2 PROVE t <= c
      <4>1. t \in Nat /\ c \in Nat
        <5>1. <<f, t>> \in DOMAIN fRows
          BY <2>4, <2>5, <3>8 DEF IsOf
        <5>2. <<f, t>> \in Feeders \X Instants
          BY <1>7, <5>1 DEF EntryInv
        <5>3. QED
          BY <3>4, <5>2, FeederConstants DEF Instants
      <4>2. ~(c < t)
        BY <2>3, <2>5, <3>4, <3>5, <3>8 DEF Before
      <4>3. QED
        BY <4>1, <4>2
    <3>9. QED
      BY <3>6, <3>7, <3>8
  <2> HIDE DEF R, R2, E
  <2>11. Ledger(R2, E, E, E, c, s)
    BY <2>6, <2>7, <2>9, <2>10, StartIs
  <2>12. QED
    BY <2>11 DEF R2, E
<1>14. TableInv'
  BY <1>13 DEF LedgerInv, TableInv, Ledger, InOrder
<1>15. QED
  BY <1>1, <1>3, <1>8, <1>10, <1>11, <1>13, <1>14 DEF FeederInv, Onward

\* The flush of a settings save: behind the poll's write if one runs, and of all that is queued.
LEMMA ApplyBegins ==
  ASSUME FlushInv, SampleInv, NEW Q2, NEW fl, NEW poll, fFlush["apply"].pc = "none",
         poll \in {fFlush["poll"], CancelFlush(fFlush["poll"])},
         fl = [fFlush EXCEPT !["poll"] = poll,
                             !["apply"] = IF DOMAIN Q2 = {} THEN NoFlush ELSE BeginFlush("apply", fSamplesQ, Q2)]
  PROVE  /\ FlushShape(fl) /\ (\A c \in Callers : fl[c].episodes \in {fFlush[c].episodes, Q2, <<>>})
         /\ WaitIn(fFlush) = <<>>
         /\ \/ WriteIn(fl) = WriteIn(fFlush) /\ WaitIn(fl) \in {Q2, <<>>}
            \/ WriteIn(fFlush) = <<>> /\ WaitIn(fl) = <<>> /\ WriteIn(fl) \in {Q2, <<>>}
<1>1. FlushShape(fFlush) /\ fFlush["poll"].pc \in {"none", "write"}
  BY DEF FlushInv, FlushShape, Callers
<1>2. /\ poll.pc = fFlush["poll"].pc /\ poll.samples \in Seq(Probed) /\ poll.episodes \in {fFlush["poll"].episodes, <<>>}
      /\ (poll.pc = "write" => poll.episodes = fFlush["poll"].episodes)
  <2>1. CASE poll = fFlush["poll"]
    BY <1>1, <2>1 DEF FlushInv, FlushShape, Callers
  <2>2. CASE poll = CancelFlush(fFlush["poll"]) /\ fFlush["poll"].pc = "write"
    <3>1. poll = [fFlush["poll"] EXCEPT !.cancelled = TRUE]
      BY <2>2 DEF CancelFlush
    <3>2. poll.pc = fFlush["poll"].pc /\ poll.samples = fFlush["poll"].samples /\ poll.episodes = fFlush["poll"].episodes
      BY <2>2, <3>1
    <3>3. QED
      BY <3>2 DEF FlushInv, FlushShape, Callers
  <2>3. CASE poll = CancelFlush(fFlush["poll"]) /\ fFlush["poll"].pc = "none"
    <3>1. poll = NoFlush
      BY <2>3 DEF CancelFlush
    <3>2. poll.pc = "none"
      BY <3>1 DEF NoFlush
    <3>3. QED
      BY <2>3, <3>1, <3>2, EmptyBook DEF NoFlush
  <2>4. QED
    BY <1>1, <2>1, <2>2, <2>3
<1> DEFINE apply == fl["apply"]
<1>3. fl["poll"] = poll /\ DOMAIN fl = Callers
  BY <1>1 DEF FlushShape, Callers
<1>4. \/ apply = NoFlush
      \/ /\ apply.pc = (IF fFlush["poll"].pc = "write" THEN "wait" ELSE "write")
         /\ apply.samples = fSamplesQ /\ apply.episodes = Q2
  <2>1. apply = IF DOMAIN Q2 = {} THEN NoFlush ELSE BeginFlush("apply", fSamplesQ, Q2)
    BY <1>1 DEF FlushShape, Callers
  <2>2. CASE DOMAIN Q2 = {}
    BY <2>1, <2>2
  <2>3. CASE DOMAIN Q2 # {}
    <3>1. apply = [pc |-> IF fFlush["poll"].pc = "write" THEN "wait" ELSE "write", cancelled |-> FALSE,
                   samples |-> fSamplesQ, episodes |-> Q2]
      BY <2>1, <2>3, OtherIs DEF BeginFlush
    <3>2. QED
      BY <3>1
  <2>4. QED
    BY <2>2, <2>3
<1>5. WaitIn(fFlush) = <<>> /\ WriteIn(fFlush) = (IF fFlush["poll"].pc = "write" THEN fFlush["poll"].episodes ELSE <<>>)
  BY <1>1 DEF WaitIn, WriteIn
<1> HIDE DEF apply
<1>6. CASE apply = NoFlush
  <2>1. apply.pc = "none" /\ apply.samples \in Seq(Probed) /\ apply.episodes = <<>>
    BY <1>6, EmptyBook DEF NoFlush
  <2>2. QED
    BY <1>1, <1>2, <1>3, <1>5, <2>1 DEF FlushShape, WriteIn, WaitIn, Callers, apply
<1>7. CASE /\ apply.pc = (IF fFlush["poll"].pc = "write" THEN "wait" ELSE "write")
           /\ apply.samples = fSamplesQ /\ apply.episodes = Q2
  <2>1. apply.samples \in Seq(Probed)
    BY <1>7 DEF SampleInv
  <2>2. QED
    BY <1>1, <1>2, <1>3, <1>5, <1>7, <2>1 DEF FlushShape, WriteIn, WaitIn, Callers, apply
<1>8. QED
  BY <1>4, <1>6, <1>7

\* A settings save.
LEMMA SettingsKeep == ASSUME FeederInv, NEW names \in SUBSET Feeders, ApplySettings(names) PROVE FeederInv'
<1> DEFINE removed == DOMAIN fTracker \ names
<1> DEFINE Q2 == Upsert(Closing(removed), fEpisodesQ)
<1> DEFINE poll == IF names = {} THEN CancelFlush(fFlush["poll"]) ELSE fFlush["poll"]
<1>1. /\ fUp /\ fFlush["apply"].pc = "none"
      /\ fTracker' = [f \in names |-> IF f \in DOMAIN fTracker THEN fTracker[f] ELSE NewTracker]
      /\ fEpisodesQ' = Q2
      /\ fFlush' = [fFlush EXCEPT !["poll"] = poll,
                                  !["apply"] = IF DOMAIN Q2 = {} THEN NoFlush ELSE BeginFlush("apply", fSamplesQ, Q2)]
      /\ fPoll' = (IF names = {} THEN [fPoll EXCEPT !.pc = "idle", !.names = {}] ELSE fPoll)
      /\ fOrphan' = (IF ~(fPoll.pc = "probing" /\ names # {}) THEN <<>>
                     ELSE [f \in (removed \cap fPoll.names) \cup DOMAIN fOrphan |->
                             IF f \in DOMAIN fOrphan THEN fOrphan[f] ELSE [fTracker[f] EXCEPT !.started = NoTime]])
      /\ UNCHANGED <<fClock, fUp, fSamplesQ, fRows, fSamples, fFacts, fLastGood, fLate>>
  BY DEF ApplySettings, Closing
<1>2. /\ fPoll' \in [pc : {"idle", "probing", "flushing"}, now : 0 .. fClock', names : SUBSET Feeders]
      /\ fPoll'.now = fPoll.now
      /\ Probing' => Probing /\ fPoll' = fPoll /\ names # {}
  <2>1. fPoll \in [pc : {"idle", "probing", "flushing"}, now : 0 .. fClock, names : SUBSET Feeders] /\ fClock' = fClock
    BY <1>1 DEF FeederInv, PollInv
  <2>2. CASE names = {}
    <3>1. fPoll' = [fPoll EXCEPT !.pc = "idle", !.names = {}]
      BY <1>1, <2>2
    <3>2. QED
      BY <2>1, <3>1 DEF Probing
  <2>3. CASE names # {}
    <3>1. fPoll' = fPoll
      BY <1>1, <2>3
    <3>2. QED
      BY <2>1, <2>3, <3>1 DEF Probing
  <2>4. QED
    BY <2>2, <2>3
<1>3. /\ Probing' => fOrphan' = [f \in (removed \cap fPoll.names) \cup DOMAIN fOrphan |->
                                   IF f \in DOMAIN fOrphan THEN fOrphan[f] ELSE [fTracker[f] EXCEPT !.started = NoTime]]
      /\ ~Probing' => fOrphan' = <<>>
  <2>1. CASE Probing'
    BY <1>1, <1>2, <2>1 DEF Probing
  <2>2. CASE ~Probing'
    <3>1. ~(fPoll.pc = "probing" /\ names # {})
      BY <1>1, <2>2 DEF Probing
    <3>2. QED
      BY <1>1, <2>2, <3>1
  <2>3. QED
    BY <2>1, <2>2
<1>4. Probing' => Polled' \subseteq Polled /\ removed \cap Polled' = {}
  BY <1>2, <1>3 DEF Polled
<1>5. Onward
  <2>1. fClock \in Instants /\ fPoll.now \in 0 .. fClock /\ fClock' = fClock /\ fFacts' = fFacts
    BY <1>1 DEF FeederInv, PollInv
  <2>2. QED
    BY <1>2, <1>4, <2>1, FeederConstants DEF Onward, Instants
<1>6. /\ \A k, e : EntryInv(k, e) => EntryInv(k, e)'
      /\ \A b : BookInv(b) => BookInv(b)'
      /\ \A f, t : TrackerInv(f, t) => TrackerInv(f, t)'
  BY <1>5, OnwardKeeps
<1>7. removed \in SUBSET DOMAIN fTracker
  OBVIOUS
<1> HIDE DEF removed
<1>8. Over(Q2, Closing(removed), fEpisodesQ)
  BY UpsertIs
<1>9. \A k, e : k \in DOMAIN Q2 /\ e = Q2[k] => EntryInv(k, e)'
  <2>1. \A k, e : k \in DOMAIN Closing(removed) /\ e = Closing(removed)[k] => EntryInv(k, e)'
    <3>1. Probing' => Probing /\ fPoll' = fPoll /\ removed \cap Polled' = {}
      BY <1>2, <1>4
    <3>2. QED
      BY <1>5, <1>7, <3>1, ClosingBook
  <2>2. \A k \in DOMAIN fEpisodesQ : EntryInv(k, fEpisodesQ[k])
    BY DEF FeederInv, BookInv
  <2> HIDE DEF Q2
  <2>3. QED
    BY <1>6, <1>8, <2>1, <2>2 DEF Over
<1> HIDE DEF Q2, poll
<1>10. BookInv(fEpisodesQ)' /\ BookInv(fRows)'
  <2>1. fEpisodesQ' = Q2 /\ fRows' = fRows
    BY <1>1
  <2>2. BookInv(fEpisodesQ)'
    BY <1>9, <2>1 DEF BookInv
  <2>3. BookInv(fRows)
    BY DEF FeederInv
  <2>4. QED
    BY <1>6, <2>1, <2>2, <2>3
<1>11. /\ FlushShape(fFlush') /\ (\A c \in Callers : fFlush'[c].episodes \in {fFlush[c].episodes, Q2, <<>>})
       /\ WaitIn(fFlush) = <<>>
       /\ \/ WriteIn(fFlush') = WriteIn(fFlush) /\ WaitIn(fFlush') \in {Q2, <<>>}
          \/ WriteIn(fFlush) = <<>> /\ WaitIn(fFlush') = <<>> /\ WriteIn(fFlush') \in {Q2, <<>>}
  <2>1. poll \in {fFlush["poll"], CancelFlush(fFlush["poll"])}
    BY DEF poll
  <2>2. FlushInv /\ SampleInv
    BY DEF FeederInv
  <2>3. QED
    BY <1>1, <2>1, <2>2, ApplyBegins
<1>12. FlushInv'
  <2>1. \A c \in Callers : \A k, e : k \in DOMAIN fFlush'[c].episodes /\ e = fFlush'[c].episodes[k] => EntryInv(k, e)'
    <3>1. SUFFICES ASSUME NEW c \in Callers, NEW b, b = fFlush'[c].episodes, NEW k \in DOMAIN b, NEW e, e = b[k]
                   PROVE  EntryInv(k, e)'
      OBVIOUS
    <3>2. BookInv(fFlush[c].episodes) /\ BookInv(<<>>)
      BY EmptyBook DEF FeederInv, FlushInv
    <3>3. b \in {fFlush[c].episodes, Q2, <<>>}
      BY <1>11, <3>1
    <3>4. CASE b = Q2
      BY <1>9, <3>1, <3>4
    <3>5. CASE b # Q2
      <4>1. BookInv(b)
        BY <3>2, <3>3, <3>5
      <4>2. QED
        BY <1>6, <3>1, <4>1 DEF BookInv
    <3>6. QED
      BY <3>4, <3>5
  <2>2. QED
    BY <1>11, <2>1 DEF FlushInv, BookInv
<1>13. PollInv'
  <2>1. /\ fLastGood' = fLastGood /\ fLastGood \in [Feeders -> 0 .. fPoll.now]
        /\ DOMAIN fTracker \subseteq Feeders /\ DOMAIN fOrphan \subseteq Feeders /\ DOMAIN fTracker' = names
        /\ \A f \in DOMAIN fTracker : TrackerInv(f, fTracker[f]) /\ DatesOk(fTracker[f], fLastGood[f])
        /\ \A f \in DOMAIN fOrphan : TrackerInv(f, fOrphan[f])
        /\ Probing => /\ fPoll.names \subseteq DOMAIN fTracker \cup DOMAIN fOrphan
                      /\ DOMAIN fOrphan \subseteq fPoll.names
                      /\ \A f \in Feeders : fLastGood[f] < fPoll.now
                      /\ \A f \in DOMAIN fTracker \cap DOMAIN fOrphan : fTracker[f] = NewTracker
    BY <1>1 DEF FeederInv, PollInv
  <2>2. fPoll.now \in Nat /\ \A f \in Feeders : fLastGood[f] \in Nat
    BY <2>1, FeederConstants DEF FeederInv, PollInv, Instants
  <2>3. \A f \in Feeders : TrackerInv(f, NewTracker)' /\ \A good : DatesOk(NewTracker, good)
    <3>1. SUFFICES ASSUME NEW f \in Feeders, Probing' PROVE 0 < fPoll'.now
      BY <1>2, <2>2, NewIs DEF TrackerInv, NoTime
    <3>2. fLastGood[f] < fPoll'.now /\ fLastGood[f] \in Nat /\ fPoll'.now \in Nat
      BY <1>2, <2>1, <2>2, <3>1
    <3>3. QED
      BY <3>2
  <2>4. \A f \in names : f \in Feeders /\ fTracker'[f] = IF f \in DOMAIN fTracker THEN fTracker[f] ELSE NewTracker
    BY <1>1
  <2>5. \A f \in DOMAIN fTracker' : TrackerInv(f, fTracker[f])' /\ DatesOk(fTracker[f], fLastGood[f])'
    <3>1. SUFFICES ASSUME NEW f \in names, NEW t, t = fTracker'[f] PROVE TrackerInv(f, t)' /\ DatesOk(t, fLastGood[f])
      BY <2>1
    <3>2. QED
      BY <1>6, <2>1, <2>3, <2>4, <3>1
  <2>6. ASSUME NEW f \in DOMAIN fTracker, NEW t, t = [fTracker[f] EXCEPT !.started = NoTime], Probing' PROVE TrackerInv(f, t)'
    <3>1. TrackerInv(f, fTracker[f]) /\ f \in Feeders
      BY <2>1
    <3>2. fTracker[f] \in Tracker
      BY <3>1 DEF TrackerInv, TrackerOk
    <3>3. /\ t \in Tracker /\ t.started = NoTime /\ t.outage = fTracker[f].outage /\ t.state = fTracker[f].state
          /\ t.held = fTracker[f].held /\ t.firstDown = fTracker[f].firstDown
      BY <2>6, <3>2, FeederConstants DEF Tracker, Time, NoTime
    <3>4. NoTime < fPoll.now
      <4>1. fLastGood[f] < fPoll.now /\ fLastGood[f] \in Nat
        BY <1>2, <2>1, <2>2, <2>6, <3>1
      <4>2. QED
        BY <2>2, <4>1 DEF NoTime
    <3>5. TrackerInv(f, t)
      <4>1. fTracker[f].firstDown \in Nat
        BY <3>2, FeederConstants DEF Tracker, Time
      <4>2. QED
        BY <2>2, <3>1, <3>3, <3>4, <4>1 DEF TrackerInv, TrackerOk, NoTime
    <3>6. QED
      BY <1>6, <3>5
  <2>7. CASE ~Probing'
    <3>1. DOMAIN fOrphan' = {}
      BY <1>3, <2>7
    <3>2. QED
      BY <1>2, <2>1, <2>4, <2>5, <2>7, <3>1 DEF PollInv
  <2>8. CASE Probing'
    <3>1. /\ DOMAIN fOrphan' = (removed \cap fPoll.names) \cup DOMAIN fOrphan
          /\ \A f \in DOMAIN fOrphan' : fOrphan'[f] = IF f \in DOMAIN fOrphan THEN fOrphan[f] ELSE [fTracker[f] EXCEPT !.started = NoTime]
          /\ Probing /\ fPoll' = fPoll
      BY <1>2, <1>3, <2>8
    <3>2. \A f \in DOMAIN fOrphan' : TrackerInv(f, fOrphan[f])'
      <4>1. SUFFICES ASSUME NEW f \in DOMAIN fOrphan', NEW t, t = fOrphan'[f] PROVE TrackerInv(f, t)'
        OBVIOUS
      <4>2. CASE f \in DOMAIN fOrphan
        BY <1>6, <2>1, <3>1, <4>1, <4>2
      <4>3. CASE f \notin DOMAIN fOrphan
        BY <2>6, <2>8, <3>1, <4>1, <4>3 DEF removed
      <4>4. QED
        BY <4>2, <4>3
    <3>3. /\ DOMAIN fOrphan' \subseteq Feeders /\ DOMAIN fOrphan' \subseteq fPoll.names
          /\ fPoll.names \subseteq names \cup DOMAIN fOrphan'
          /\ \A f \in names \cap DOMAIN fOrphan' : fTracker'[f] = NewTracker
      BY <2>1, <2>4, <3>1 DEF removed
    <3>4. QED
      BY <1>2, <2>1, <2>4, <2>5, <3>1, <3>2, <3>3 DEF PollInv
  <2>9. QED
    BY <2>7, <2>8
<1>14. SampleInv' /\ FactInv' /\ DownInv'
  BY <1>1 DEF FeederInv, SampleInv, FactInv, DownInv, RestoreFollowsOffline, Announced
<1>15. LedgerInv'
  <2>1. SUFFICES ASSUME NEW f \in Feeders, f \notin fLate, NEW c, c = Current(f)', NEW s, s = StandingOf(f)'
                 PROVE  Ledger(Of(fRows, f), Of(WriteIn(fFlush'), f), Of(WaitIn(fFlush'), f), Of(Q2, f), c, s)
    BY <1>1 DEF LedgerInv, WriteIn, WaitIn
  <2> DEFINE R == Of(fRows, f)
  <2> DEFINE W == Of(WriteIn(fFlush), f)
  <2> DEFINE E == Of(<<>>, f)
  <2> DEFINE X == Of(Q2, f)
  <2>2. \A g \in names : fTracker'[g] = IF g \in DOMAIN fTracker THEN fTracker[g] ELSE NewTracker
    BY <1>1
  <2>3. DOMAIN fTracker' = names /\ NewTracker.started = NoTime /\ NewTracker.state = "unknown"
    BY <1>1 DEF NewTracker
  <2>4. /\ f \in removed => c = NoTime
        /\ f \notin removed => c = Current(f) /\ s = StandingOf(f)
    BY <2>1, <2>2, <2>3 DEF Current, StandingOf, removed
  <2>5. Ledger(R, W, E, X, c, s) /\ DOMAIN Q2 \subseteq Feeders \X Instants
    BY <1>1, <1>7, <1>8, <1>11, <2>1, <2>4, LedgerCloses
  <2>6. DOMAIN E = {} /\ Dated(X)
    <3>1. \A k \in DOMAIN Q2 : Q2[k].ended \in Nat
      BY <1>9, FeederConstants DEF EntryInv, Entry, Time
    <3>2. IsOf(X, Q2, f)
      BY <2>5, OfIs
    <3>3. Instants \subseteq Nat \ {NoTime}
      BY FeederConstants DEF Instants, NoTime
    <3>4. \A t \in DOMAIN X : <<f, t>> \in DOMAIN Q2 /\ X[t] = Q2[<<f, t>>]
      BY <3>2 DEF IsOf
    <3>5. \A t \in DOMAIN X : t \in Instants /\ X[t].ended \in Nat
      BY <2>5, <3>1, <3>4
    <3>6. QED
      BY <3>3, <3>5, EmptyBook DEF Dated
  <2> HIDE DEF R, W, E, X
  <2>7. /\ Ledger(R, W, X, X, c, s) /\ Ledger(R, X, E, X, c, s)
        /\ Ledger(R, E, E, X, c, s)
    BY <2>5, <2>6, CopyKeeps, DropKeeps
  <2>8. QED
    BY <1>11, <2>5, <2>7 DEF R, W, E, X
<1>16. TableInv'
  BY <1>15 DEF LedgerInv, TableInv, Ledger, InOrder
<1>17. QED
  BY <1>1, <1>5, <1>10, <1>12, <1>13, <1>14, <1>15, <1>16 DEF FeederInv, Onward

\* What one transition leaves: the next episode open, the last one ended by its start.
Turned(f, d, state, at, m) ==
  /\ \E o : /\ m.tracker = [d EXCEPT !.state = state, !.started = at, !.outage = o]
            /\ o \in {NoTime, d.outage} \/ (o = at /\ Announce(f, TRUE, at) \in m.facts)
  /\ DOMAIN m.rows = {<<f, at>>} \cup (IF d.started = NoTime THEN {} ELSE {<<f, d.started>>})
  /\ m.rows[<<f, at>>] = Open(state)
  /\ d.started \notin {NoTime, at} => m.rows[<<f, d.started>>] = [state |-> d.state, ended |-> at]
  /\ m.facts \subseteq {Announce(f, TRUE, at), Announce(f, FALSE, d.outage)}
  /\ d.outage = NoTime => m.facts \subseteq {Announce(f, TRUE, at)}
  /\ state = "down" => d.outage # NoTime \/ Announce(f, TRUE, at) \in m.facts

\* _transition turns a tracker: it opens the new episode, closes the old one and tells of an outage
\* that begins or ends.
LEMMA TransitionIs ==
  ASSUME NEW f, NEW d \in Tracker, NEW state, NEW at \in Instants, d.started <= at, NEW m, m = Transition(f, d, state, at)
  PROVE  Turned(f, d, state, at, m)
<1> DEFINE begins == state = "down" /\ d.outage = NoTime
<1> DEFINE ends == state \in Available /\ d.outage # NoTime
<1> DEFINE o == IF begins THEN at ELSE IF ends THEN NoTime ELSE d.outage
<1> DEFINE new == Episode(f, at, state, NoTime)
<1> DEFINE old == CloseEpisode(f, d, at)
<1>1. /\ m.tracker = [d EXCEPT !.state = state, !.started = at, !.outage = o]
      /\ m.rows = Upsert(new, old)
      /\ m.facts = (IF begins THEN {Announce(f, TRUE, at)} ELSE {}) \cup (IF ends THEN {Announce(f, FALSE, d.outage)} ELSE {})
  BY DEF Transition
<1>2. DOMAIN new = {<<f, at>>} /\ new[<<f, at>>] = Open(state)
  BY DEF Episode, Open
<1>3. /\ DOMAIN old = (IF d.started = NoTime THEN {} ELSE {<<f, d.started>>})
      /\ d.started # NoTime => old[<<f, d.started>>] = [state |-> d.state, ended |-> at]
  <2>1. d.started \in Nat /\ at \in Nat
    BY FeederConstants DEF Tracker, Time, Instants
  <2>2. Later(d.started, at) = at
    BY <2>1 DEF Later
  <2>3. CASE d.started = NoTime
    BY <2>3 DEF CloseEpisode
  <2>4. CASE d.started # NoTime
    <3>1. old = Episode(f, d.started, d.state, at)
      BY <2>2, <2>4 DEF CloseEpisode
    <3>2. QED
      BY <2>4, <3>1 DEF Episode
  <2>5. QED
    BY <2>3, <2>4
<1> HIDE DEF new, old
<1>4. Over(m.rows, new, old)
  BY <1>1, UpsertIs
<1>5. /\ DOMAIN m.rows = {<<f, at>>} \cup (IF d.started = NoTime THEN {} ELSE {<<f, d.started>>})
      /\ m.rows[<<f, at>>] = Open(state)
      /\ d.started \notin {NoTime, at} => m.rows[<<f, d.started>>] = [state |-> d.state, ended |-> at]
  BY <1>2, <1>3, <1>4 DEF Over
<1>6. /\ m.facts \subseteq {Announce(f, TRUE, at), Announce(f, FALSE, d.outage)}
      /\ d.outage = NoTime => m.facts \subseteq {Announce(f, TRUE, at)}
  BY <1>1
<1>7. /\ o \in {NoTime, d.outage} \/ (o = at /\ Announce(f, TRUE, at) \in m.facts)
      /\ state = "down" => d.outage # NoTime \/ Announce(f, TRUE, at) \in m.facts
  BY <1>1
<1>8. m.tracker = [d EXCEPT !.state = state, !.started = at, !.outage = o]
  BY <1>1
<1> HIDE DEF o
<1>9. QED
  BY <1>5, <1>6, <1>7, <1>8 DEF Turned

\* A probe result either leaves a feeder where it was, or begins an episode of it.
Unmoved(t, r) ==
  /\ r.rows = <<>> /\ r.facts = {} /\ t.started # NoTime
  /\ r.tracker.started = t.started /\ r.tracker.state = t.state /\ r.tracker.outage = t.outage
Moved(f, t, now, r) ==
  LET a == r.tracker.started
  IN  /\ a \in Instants /\ a <= now /\ t.started <= a /\ t.outage <= a
      /\ t.started = NoTime /\ t.held = 0 => a = now
      /\ t.started = a => t.state # "down" /\ r.tracker.state = "down"
      /\ DOMAIN r.rows = {<<f, a>>} \cup (IF t.started = NoTime THEN {} ELSE {<<f, t.started>>})
      /\ r.rows[<<f, a>>] = Open(r.tracker.state)
      /\ t.started \notin {NoTime, a} => r.rows[<<f, t.started>>] = [state |-> t.state, ended |-> a]
      /\ r.facts \subseteq {Announce(f, TRUE, a), Announce(f, FALSE, t.outage)}
      /\ t.outage = NoTime => r.facts \subseteq {Announce(f, TRUE, a)}
      /\ r.tracker.outage \in {NoTime, t.outage} \/ (r.tracker.outage = a /\ Announce(f, TRUE, a) \in r.facts)
      /\ r.tracker.state = "down" => t.outage # NoTime \/ Announce(f, TRUE, a) \in r.facts

\* The debounce: a run of downs is held back, or long enough, or there is none.
LEMMA DebounceIs ==
  ASSUME NEW t, NEW reading \in Readings, NEW now \in Instants, TrackerOk(t, now), t.started < now,
         NEW d, d = Debounce(t, reading, now),
         NEW committed, committed = IF d.held \in 1 .. DownDebounce - 1 THEN t.state ELSE reading,
         NEW at, at = IF committed = "down" /\ d.firstDown # NoTime THEN d.firstDown ELSE now
  PROVE  /\ d \in Tracker /\ d.state = t.state /\ d.started = t.started /\ d.outage = t.outage
         /\ at \in Instants /\ at <= now /\ t.started <= at /\ t.outage <= at
         /\ d.held = 0 => d.firstDown = NoTime
         /\ d.held # 0 => /\ d.firstDown \in Instants /\ d.firstDown <= now /\ d.outage <= d.firstDown
                          /\ d.started <= d.firstDown /\ reading = "down" /\ t.state # "down"
                          /\ d.firstDown = (IF t.held = 0 THEN now ELSE t.firstDown)
                          /\ committed = "down" => at = d.firstDown
                          /\ committed # "down" => committed = t.state
         /\ committed \in Standing /\ (committed # "down" => d.held < DownDebounce)
         /\ committed = "down" => reading = "down"
         /\ d.held = 0 => at = now
         /\ t.started = at => committed = "down" /\ t.state # "down"
         /\ t.held = 0 => at = now
<1>1. /\ t \in Tracker /\ t.started \in Nat /\ t.outage \in Nat /\ t.held \in Nat /\ t.firstDown \in Nat /\ now \in Nat
      /\ now # NoTime /\ DownDebounce \in Nat \ {0} /\ t.held <= DownDebounce
  BY FeederConstants DEF TrackerOk, Tracker, Time, Instants, NoTime
<1>2. reading \in Standing /\ t.state \in Standing /\ now \in Time
  BY <1>1, FeederConstants DEF Standing, Tracker, Time, Instants
<1>3. CASE reading = "down" /\ t.state # "down"
  <2> DEFINE fd == IF t.held = 0 THEN now ELSE t.firstDown
  <2>1. d = [t EXCEPT !.firstDown = fd, !.held = t.held + 1]
    BY <1>3 DEF Debounce
  <2>2. t.held < DownDebounce /\ t.held + 1 \in 0 .. DownDebounce /\ fd \in Time
    BY <1>1, <1>2, <1>3 DEF TrackerOk, Tracker
  <2>3. /\ d \in Tracker /\ d.state = t.state /\ d.started = t.started /\ d.outage = t.outage
        /\ d.held = t.held + 1 /\ d.firstDown = fd /\ d.held # 0
    <3>1. PICK h : h = t.held + 1
      OBVIOUS
    <3>2. PICK g : g = fd
      OBVIOUS
    <3>3. h \in 0 .. DownDebounce /\ g \in Time /\ h # 0
      BY <1>1, <2>2, <3>1, <3>2
    <3>4. d = [t EXCEPT !.firstDown = g, !.held = h]
      BY <2>1, <3>1, <3>2
    <3>5. d.state = t.state /\ d.started = t.started /\ d.outage = t.outage /\ d.held = h /\ d.firstDown = g
      BY <1>1, <3>4 DEF Tracker
    <3>6. d \in Tracker
      BY <1>1, <3>3, <3>4 DEF Tracker
    <3>7. QED
      BY <3>1, <3>2, <3>3, <3>5, <3>6
  <2>4. fd \in Instants /\ fd <= now /\ t.outage <= fd /\ t.started <= fd
    BY <1>1, FeederConstants DEF TrackerOk, Instants, Tracker, Time, NoTime
  <2> HIDE DEF fd
  <2>5. CASE t.held + 1 < DownDebounce
    <3>1. committed = t.state
      BY <1>1, <2>3, <2>5
    <3>2. at = now
      BY <1>3, <3>1
    <3>3. QED
      BY <1>1, <1>2, <1>3, <2>3, <2>4, <2>5, <3>1, <3>2 DEF fd, TrackerOk
  <2>6. CASE ~(t.held + 1 < DownDebounce)
    <3>1. committed = "down"
      BY <1>1, <1>3, <2>3, <2>6
    <3>2. at = fd
      BY <2>3, <2>4, <3>1, FeederConstants DEF Instants, NoTime
    <3>3. QED
      BY <1>1, <1>2, <1>3, <2>3, <2>4, <2>6, <3>1, <3>2 DEF fd, TrackerOk
  <2>7. QED
    BY <2>5, <2>6
<1>4. CASE ~(reading = "down" /\ t.state # "down")
  <2>1. d = [t EXCEPT !.held = 0, !.firstDown = NoTime]
    BY <1>4 DEF Debounce
  <2>2. /\ d \in Tracker /\ d.state = t.state /\ d.started = t.started /\ d.outage = t.outage
        /\ d.held = 0 /\ d.firstDown = NoTime
    <3>1. 0 \in 0 .. DownDebounce /\ NoTime \in Time
      BY <1>1, FeederConstants DEF Time, NoTime
    <3>2. d.state = t.state /\ d.started = t.started /\ d.outage = t.outage /\ d.held = 0 /\ d.firstDown = NoTime
      BY <1>1, <2>1 DEF Tracker
    <3>3. d \in Tracker
      BY <1>1, <2>1, <3>1 DEF Tracker
    <3>4. QED
      BY <3>2, <3>3
  <2>3. committed = reading /\ at = now
    BY <1>1, <2>2
  <2>4. QED
    BY <1>1, <1>2, <2>2, <2>3 DEF TrackerOk
<1>5. QED
  BY <1>3, <1>4

\* One probe result, applied to the tracker the poll holds (_apply).
LEMMA ApplyIs ==
  ASSUME NEW f, NEW t, NEW reading \in Readings, NEW now \in Instants, TrackerOk(t, now), t.started < now,
         NEW r, r = ApplyResult(f, t, reading, now)
  PROVE  /\ Unmoved(t, r) \/ Moved(f, t, now, r)
         /\ r.samples \subseteq {[feeder |-> f, ts |-> now]}
         /\ r.tracker.state \in Standing
         /\ (t.started = NoTime => t.held = 0) => TrackerOk(r.tracker, now)
         /\ \A good \in Nat : good < now /\ DatesOk(t, good) =>
                                DatesOk(r.tracker, IF reading # "down" THEN now ELSE good)
<1>1. PICK d : d = Debounce(t, reading, now)
  OBVIOUS
<1>2. PICK committed : committed = IF d.held \in 1 .. DownDebounce - 1 THEN t.state ELSE reading
  OBVIOUS
<1>3. PICK at : at = IF committed = "down" /\ d.firstDown # NoTime THEN d.firstDown ELSE now
  OBVIOUS
<1>4. PICK m : m = IF t.started = NoTime \/ committed # t.state THEN Transition(f, d, committed, at)
                   ELSE [tracker |-> d, rows |-> <<>>, facts |-> {}]
  OBVIOUS
<1>5. PICK last : last = IF t.lastSample = NoTime \/ now - t.lastSample >= SampleEvery THEN now ELSE m.tracker.lastSample
  OBVIOUS
<1>6. /\ r.tracker = [m.tracker EXCEPT !.lastSample = last] /\ r.rows = m.rows /\ r.facts = m.facts
      /\ r.samples \subseteq {[feeder |-> f, ts |-> now]}
  <2>1. r = [tracker |-> [m.tracker EXCEPT !.lastSample = last], rows |-> m.rows, facts |-> m.facts,
             samples |-> IF t.lastSample = NoTime \/ now - t.lastSample >= SampleEvery THEN {[feeder |-> f, ts |-> now]} ELSE {}]
    BY <1>1, <1>2, <1>3, <1>4, <1>5, Zenon DEF ApplyResult
  <2>2. QED
    BY <2>1
<1>7. /\ d \in Tracker /\ d.state = t.state /\ d.started = t.started /\ d.outage = t.outage
      /\ at \in Instants /\ at <= now /\ t.started <= at /\ t.outage <= at
      /\ d.held = 0 => d.firstDown = NoTime
      /\ d.held # 0 => /\ d.firstDown \in Instants /\ d.firstDown <= now /\ d.outage <= d.firstDown
                       /\ d.started <= d.firstDown /\ reading = "down" /\ t.state # "down"
                       /\ d.firstDown = (IF t.held = 0 THEN now ELSE t.firstDown)
                       /\ committed = "down" => at = d.firstDown
                       /\ committed # "down" => committed = t.state
      /\ committed \in Standing /\ (committed # "down" => d.held < DownDebounce)
      /\ committed = "down" => reading = "down"
      /\ d.held = 0 => at = now
      /\ t.started = at => committed = "down" /\ t.state # "down"
      /\ t.held = 0 => at = now
  BY <1>1, <1>2, <1>3, DebounceIs
<1>8. /\ now \in Nat /\ at \in Nat /\ t.started \in Nat /\ t.held \in Nat /\ t.outage \in Nat /\ t.firstDown \in Nat /\ t.state \in Standing
      /\ now # NoTime /\ at # NoTime /\ at \in Time /\ now \in Time /\ DownDebounce \in Nat
  BY <1>7, FeederConstants DEF TrackerOk, Tracker, Time, Instants, NoTime
<1>9. CASE ~(t.started = NoTime \/ committed # t.state)
  <2>1. m.tracker = d /\ m.rows = <<>> /\ m.facts = {}
    BY <1>4, <1>9
  <2>2. last \in Time
    BY <1>5, <1>7, <1>8, <2>1 DEF Tracker
  <2>3. r.tracker = [d EXCEPT !.lastSample = last]
    BY <1>6, <2>1
  <2>4. /\ r.tracker \in Tracker /\ r.tracker.state = d.state /\ r.tracker.started = d.started /\ r.tracker.held = d.held
        /\ r.tracker.firstDown = d.firstDown /\ r.tracker.outage = d.outage
    BY <1>7, <2>2, <2>3 DEF Tracker
  <2>5. Unmoved(t, r)
    BY <1>6, <1>7, <1>9, <2>1, <2>4 DEF Unmoved
  <2>6. TrackerOk(r.tracker, now)
    BY <1>7, <1>8, <1>9, <2>4 DEF TrackerOk, Instants, NoTime
  <2>7. ASSUME NEW good \in Nat, good < now, DatesOk(t, good)
        PROVE  DatesOk(r.tracker, IF reading # "down" THEN now ELSE good)
    <3>1. d.held # 0 => reading = "down" /\ good < d.firstDown
      BY <1>7, <1>8, <2>7 DEF DatesOk
    <3>2. d.state = "down" => reading = "down" /\ good < d.started
      BY <1>7, <1>8, <1>9, <2>7 DEF DatesOk
    <3>3. QED
      BY <1>7, <1>9, <2>4, <3>1, <3>2 DEF DatesOk
  <2>8. QED
    BY <1>6, <1>7, <1>8, <2>4, <2>5, <2>6, <2>7
<1>10. CASE t.started = NoTime \/ committed # t.state
  <2>1. m = Transition(f, d, committed, at)
    BY <1>4, <1>10
  <2>2. Turned(f, d, committed, at, m)
    <3>1. d \in Tracker /\ at \in Instants /\ d.started <= at
      BY <1>7
    <3>2. QED
      BY <2>1, <3>1, TransitionIs, Zenon
  <2>3. PICK o : /\ m.tracker = [d EXCEPT !.state = committed, !.started = at, !.outage = o]
                 /\ o \in {NoTime, d.outage} \/ (o = at /\ Announce(f, TRUE, at) \in m.facts)
    BY <2>2, Zenon DEF Turned
  <2>4. o \in Time /\ NoTime \in Time /\ o <= at
    <3>1. o = NoTime \/ o = d.outage \/ o = at
      BY <2>3
    <3>2. d.outage = t.outage /\ t.outage <= at /\ d.outage \in Time
      BY <1>7 DEF Tracker
    <3>3. NoTime \in Time /\ NoTime <= at
      BY <1>8, FeederConstants DEF Time, NoTime
    <3>4. at <= at
      BY <1>8
    <3>5. QED
      BY <1>8, <3>1, <3>2, <3>3, <3>4
  <2>5. last \in Time
    <3>1. m.tracker.lastSample = d.lastSample
      BY <1>7, <2>3 DEF Tracker
    <3>2. QED
      BY <1>5, <1>7, <1>8, <3>1 DEF Tracker
  <2>6. /\ m.tracker \in Tracker /\ m.tracker.state = committed /\ m.tracker.started = at /\ m.tracker.held = d.held
        /\ m.tracker.firstDown = d.firstDown /\ m.tracker.outage = o
    BY <1>7, <1>8, <2>3, <2>4 DEF Tracker
  <2>7. /\ r.tracker \in Tracker /\ r.tracker.state = committed /\ r.tracker.started = at /\ r.tracker.held = d.held
        /\ r.tracker.firstDown = d.firstDown /\ r.tracker.outage = o
    BY <1>6, <2>5, <2>6 DEF Tracker
  <2>8. Moved(f, t, now, r)
    <3>1. /\ at \in Instants /\ at <= now /\ t.started <= at /\ t.outage <= at
          /\ t.started = NoTime /\ t.held = 0 => at = now
          /\ t.started = at => t.state # "down" /\ committed = "down"
      BY <1>7
    <3>2. /\ DOMAIN r.rows = {<<f, at>>} \cup (IF t.started = NoTime THEN {} ELSE {<<f, t.started>>})
          /\ r.rows[<<f, at>>] = Open(committed)
          /\ t.started \notin {NoTime, at} => r.rows[<<f, t.started>>] = [state |-> t.state, ended |-> at]
      BY <1>6, <1>7, <2>2 DEF Turned
    <3>3. /\ r.facts \subseteq {Announce(f, TRUE, at), Announce(f, FALSE, t.outage)}
          /\ t.outage = NoTime => r.facts \subseteq {Announce(f, TRUE, at)}
          /\ o \in {NoTime, t.outage} \/ (o = at /\ Announce(f, TRUE, at) \in r.facts)
          /\ committed = "down" => t.outage # NoTime \/ Announce(f, TRUE, at) \in r.facts
      <4>1. r.facts = m.facts /\ d.outage = t.outage
        BY <1>6, <1>7
      <4>2. QED
        BY <2>2, <2>3, <4>1 DEF Turned
    <3>4. QED
      BY <2>7, <3>1, <3>2, <3>3, Zenon DEF Moved
  <2>9. (t.started = NoTime => t.held = 0) => TrackerOk(r.tracker, now)
    <3>1. ASSUME t.started = NoTime => t.held = 0, d.held # 0
          PROVE  at <= d.firstDown /\ o <= d.firstDown
      <4>1. CASE committed = "down"
        BY <1>7, <1>8, <2>4, <3>1, <4>1, FeederConstants DEF Time, Instants
      <4>2. CASE committed # "down"
        BY <1>7, <1>8, <1>10, <2>4, <3>1, <4>2, FeederConstants DEF Time, Instants
      <4>3. QED
        BY <4>1, <4>2
    <3>2. o \in Nat
      BY <2>4, FeederConstants DEF Time
    <3>3. QED
      BY <1>7, <1>8, <2>4, <2>7, <3>1, <3>2, FeederConstants DEF TrackerOk, Instants, NoTime
  <2>10. ASSUME NEW good \in Nat, good < now, DatesOk(t, good)
         PROVE  DatesOk(r.tracker, IF reading # "down" THEN now ELSE good)
    <3>1. d.held # 0 => reading = "down" /\ good < d.firstDown
      BY <1>7, <1>8, <2>10 DEF DatesOk
    <3>2. committed = "down" => reading = "down" /\ good < at
      BY <1>7, <2>10, <3>1
    <3>3. QED
      BY <1>8, <2>7, <3>1, <3>2 DEF DatesOk
  <2>11. QED
    BY <1>6, <1>7, <2>7, <2>8, <2>9, <2>10
<1>11. QED
  BY <1>9, <1>10

\* The samples of one poll, as a sequence, and what the cap leaves of the queue (_buffer).
LEMMA SetToSeqIs ==
  ASSUME NEW S, IsFiniteSet(S)
  PROVE  SetToSeq(S) \in Seq(S)
<1>1. Cardinality(S) \in Nat /\ ExistsBijection(1 .. Cardinality(S), S)
  BY FS_CardinalityType
<1>2. \E g \in [1 .. Cardinality(S) -> S] : IsInjective(g)
  <2>1. PICK g \in Bijection(1 .. Cardinality(S), S) : TRUE
    BY <1>1 DEF ExistsBijection
  <2>2. QED
    BY <2>1 DEF Bijection, Injection, IsInjective
<1>3. SetToSeq(S) \in [1 .. Cardinality(S) -> S]
  BY <1>2 DEF SetToSeq
<1>4. QED
  BY <1>1, <1>3

\* The sample buffer drops from its front what exceeds MAX_PENDING_SAMPLES.
LEMMA BufferIs ==
  ASSUME NEW S, NEW q \in Seq(S), NEW s \in Seq(S)
  PROVE  Buffer(q, s) \in Seq(S) /\ Len(Buffer(q, s)) <= MaxPending
<1>1. PICK all : all = q \o s
  OBVIOUS
<1>2. all \in Seq(S) /\ Len(all) \in Nat /\ MaxPending \in Nat \ {0}
  BY <1>1, FeederConstants
<1>3. PICK m : m = Later(1, Len(all) - MaxPending + 1)
  OBVIOUS
<1>4. m \in Nat /\ 1 <= m /\ Len(all) - MaxPending + 1 <= m /\ m <= Len(all) + 1
  BY <1>2, <1>3 DEF Later
<1>5. SubSeq(all, m, Len(all)) \in Seq(S) /\ Len(SubSeq(all, m, Len(all))) = (IF m <= Len(all) THEN Len(all) - m + 1 ELSE 0)
  <2>1. \A i \in m .. Len(all) : all[i] \in S
    BY <1>2, <1>4
  <2>2. QED
    BY <1>2, <1>4, <2>1, SubSeqProperties
<1>6. Buffer(q, s) = SubSeq(all, m, Len(all))
  BY <1>1, <1>3, Zenon DEF Buffer
<1>7. QED
  BY <1>2, <1>4, <1>5, <1>6

\* The flush of a poll: behind a settings save's write if one runs, and of all that is queued.
LEMMA PollFlushes ==
  ASSUME FlushInv, NEW Q2, NEW q \in Seq(Probed), NEW fl, NEW flush, fFlush["poll"].pc = "none",
         flush \in {NoFlush, BeginFlush("poll", q, Q2)}, fl = [fFlush EXCEPT !["poll"] = flush]
  PROVE  /\ FlushShape(fl) /\ (\A c \in Callers : fl[c].episodes \in {fFlush[c].episodes, Q2, <<>>})
         /\ WaitIn(fFlush) = <<>>
         /\ \/ WriteIn(fl) = WriteIn(fFlush) /\ WaitIn(fl) \in {Q2, <<>>}
            \/ WriteIn(fFlush) = <<>> /\ WaitIn(fl) = <<>> /\ WriteIn(fl) \in {Q2, <<>>}
         /\ flush.pc \in {"none", "wait", "write"}
<1>1. FlushShape(fFlush) /\ fFlush["apply"].pc \in {"none", "write"}
  BY DEF FlushInv, FlushShape, Callers
<1>2. fl["poll"] = flush /\ fl["apply"] = fFlush["apply"] /\ DOMAIN fl = Callers
  BY <1>1 DEF FlushShape, Callers
<1>3. \/ flush = NoFlush
      \/ /\ flush.pc = (IF fFlush["apply"].pc = "write" THEN "wait" ELSE "write")
         /\ flush.samples = q /\ flush.episodes = Q2
  <2>1. CASE q = <<>> /\ DOMAIN Q2 = {}
    BY <2>1 DEF BeginFlush
  <2>2. CASE ~(q = <<>> /\ DOMAIN Q2 = {})
    <3>1. BeginFlush("poll", q, Q2) = [pc |-> IF fFlush["apply"].pc = "write" THEN "wait" ELSE "write", cancelled |-> FALSE,
                                       samples |-> q, episodes |-> Q2]
      BY <2>2, OtherIs DEF BeginFlush
    <3>2. CASE flush = NoFlush
      BY <3>2
    <3>3. CASE flush = BeginFlush("poll", q, Q2)
      BY <3>1, <3>3
    <3>4. QED
      BY <3>2, <3>3
  <2>3. QED
    BY <2>1, <2>2
<1>4. WaitIn(fFlush) = <<>> /\ WriteIn(fFlush) = (IF fFlush["apply"].pc = "write" THEN fFlush["apply"].episodes ELSE <<>>)
  BY <1>1 DEF WaitIn, WriteIn
<1>5. CASE flush = NoFlush
  <2>1. flush.pc = "none" /\ flush.samples \in Seq(Probed) /\ flush.episodes = <<>>
    BY <1>5, EmptyBook DEF NoFlush
  <2>2. QED
    BY <1>1, <1>2, <1>4, <2>1 DEF FlushShape, WriteIn, WaitIn, Callers
<1>6. CASE /\ flush.pc = (IF fFlush["apply"].pc = "write" THEN "wait" ELSE "write")
           /\ flush.samples = q /\ flush.episodes = Q2
  BY <1>1, <1>2, <1>4, <1>6 DEF FlushShape, WriteIn, WaitIn, Callers
<1>7. QED
  BY <1>3, <1>5, <1>6

\* What a feeder that moves adds to the books, to the facts, and to what its tracker knows.
LEMMA MovedIs ==
  ASSUME FeederInv, Onward, ~Probing', fPoll'.now = fPoll.now,
         NEW f \in Feeders, NEW t, TrackerInv(f, t), NEW now, now = fPoll.now, NEW r, Moved(f, t, now, r),
         r.tracker.state \in Standing, r.facts \subseteq fFacts'
  PROVE  /\ \A k, e : k \in DOMAIN r.rows /\ e = r.rows[k] => EntryInv(k, e)' /\ k[1] = f
         /\ \A s : s = r.tracker /\ TrackerOk(s, now) => TrackerInv(f, s)'
         /\ \A x \in r.facts : /\ x \in [feeder : Feeders, offline : BOOLEAN, since : Instants] /\ x.feeder = f
                               /\ ~x.offline => Announced(f, x.since)'
<1>1. PICK a : a = r.tracker.started
  OBVIOUS
<1>2. PICK tr : tr = r.tracker
  OBVIOUS
<1>3. /\ a \in Instants /\ a <= now /\ t.started <= a /\ t.outage <= a
      /\ t.started = a => t.state # "down" /\ tr.state = "down"
      /\ DOMAIN r.rows = {<<f, a>>} \cup (IF t.started = NoTime THEN {} ELSE {<<f, t.started>>})
      /\ r.rows[<<f, a>>] = Open(tr.state)
      /\ t.started \notin {NoTime, a} => r.rows[<<f, t.started>>] = [state |-> t.state, ended |-> a]
      /\ r.facts \subseteq {Announce(f, TRUE, a), Announce(f, FALSE, t.outage)}
      /\ t.outage = NoTime => r.facts \subseteq {Announce(f, TRUE, a)}
      /\ tr.outage \in {NoTime, t.outage} \/ (tr.outage = a /\ Announce(f, TRUE, a) \in r.facts)
      /\ tr.state = "down" => t.outage # NoTime \/ Announce(f, TRUE, a) \in r.facts
  BY <1>1, <1>2, Zenon DEF Moved
<1>4. /\ t \in Tracker /\ t.started \in Time /\ t.outage \in Time /\ t.state \in Standing /\ t.started <= now
      /\ t.outage # NoTime => Announced(f, t.outage)
      /\ t.state = "down" /\ t.started # NoTime => Announced(f, t.started)
  BY DEF TrackerInv, TrackerOk, Tracker
<1>5. /\ now \in Nat /\ now <= fClock' /\ fClock' \in Instants /\ fPoll'.now = now /\ a \in Nat /\ a # NoTime
      /\ fClock' \in Nat /\ t.started \in Nat /\ t.outage \in Nat
  BY <1>3, <1>4, FeederConstants DEF FeederInv, PollInv, Onward, Instants, Time, NoTime
<1>6. \A s : Announced(f, s) => Announced(f, s)'
  BY DEF Onward, Announced
<1>7. Announce(f, TRUE, a) \in r.facts => Announced(f, a)'
  BY <1>5 DEF Announced, Announce
<1>8. t.outage # NoTime => Announced(f, a)'
  <2>1. SUFFICES ASSUME t.outage # NoTime PROVE Announced(f, a)'
    OBVIOUS
  <2>2. PICK x \in fFacts : x.feeder = f /\ x.offline /\ x.since <= t.outage
    BY <1>4, <2>1 DEF Announced
  <2>3. x.since \in Nat
    BY FeederConstants DEF FeederInv, FactInv, Instants
  <2>4. x.since <= a
    BY <1>3, <1>5, <2>2, <2>3
  <2>5. QED
    BY <2>2, <2>4 DEF Announced, Onward
<1>9. tr.state = "down" => Announced(f, a)'
  BY <1>3, <1>7, <1>8
<1>10. EntryInv(<<f, a>>, Open(tr.state))'
  <2>1. Open(tr.state) \in Entry /\ Open(tr.state).ended = NoTime /\ Open(tr.state).state = tr.state
    BY <1>2, FeederConstants DEF Open, Entry, Time, NoTime
  <2>2. QED
    BY <1>3, <1>5, <1>9, <2>1 DEF EntryInv
<1>11. t.started \notin {NoTime, a} => EntryInv(<<f, t.started>>, [state |-> t.state, ended |-> a])'
  <2>1. SUFFICES ASSUME t.started \notin {NoTime, a}, NEW e, e = [state |-> t.state, ended |-> a]
                 PROVE  EntryInv(<<f, t.started>>, e)'
    BY Zenon
  <2>2. e \in Entry /\ e.ended = a /\ e.state = t.state /\ t.started \in Instants
    BY <1>3, <1>4, <1>5, <2>1, FeederConstants DEF Entry, Time, Instants, NoTime
  <2>3. t.state = "down" => Announced(f, t.started)'
    BY <1>4, <1>6, <2>1
  <2>4. QED
    BY <1>3, <1>4, <1>5, <2>1, <2>2, <2>3 DEF EntryInv
<1>12. ASSUME NEW k, NEW e, k \in DOMAIN r.rows, e = r.rows[k] PROVE EntryInv(k, e)' /\ k[1] = f
  <2>1. CASE k = <<f, a>>
    BY <1>3, <1>10, <1>12, <2>1
  <2>2. CASE k # <<f, a>>
    <3>1. k = <<f, t.started>> /\ t.started \notin {NoTime, a}
      BY <1>3, <1>12, <2>2
    <3>2. QED
      BY <1>3, <1>11, <1>12, <3>1
  <2>3. QED
    BY <2>1, <2>2
<1>13. TrackerOk(tr, now) => TrackerInv(f, tr)'
  <2>1. tr.outage # NoTime => Announced(f, tr.outage)'
    BY <1>3, <1>4, <1>6, <1>7
  <2>2. QED
    BY <1>1, <1>2, <1>5, <1>9, <2>1 DEF TrackerInv
<1>14. ASSUME NEW x \in r.facts
       PROVE  /\ x \in [feeder : Feeders, offline : BOOLEAN, since : Instants] /\ x.feeder = f
              /\ ~x.offline => Announced(f, x.since)'
  <2>1. CASE x = Announce(f, TRUE, a)
    BY <1>3, <2>1 DEF Announce
  <2>2. CASE x # Announce(f, TRUE, a)
    <3>1. x = Announce(f, FALSE, t.outage) /\ t.outage # NoTime
      BY <1>3, <2>2
    <3>2. t.outage \in Instants
      BY <1>4, <3>1, FeederConstants DEF Time, Instants, NoTime
    <3>3. Announced(f, t.outage)'
      BY <1>4, <1>6, <3>1
    <3>4. QED
      BY <3>1, <3>2, <3>3 DEF Announce
  <2>3. QED
    BY <2>1, <2>2
<1>15. QED
  BY <1>2, <1>12, <1>13, <1>14

\* The ledger of a feeder that moves.
LEMMA LedgerMoves ==
  ASSUME FeederInv, fUp, Probing, NEW f \in Feeders \ fLate, f \in DOMAIN fTracker, f \in Polled,
         NEW t, t = fTracker[f], NEW now, now = fPoll.now, NEW r, Moved(f, t, now, r),
         NEW rows, NEW Q2, Over(Q2, rows, fEpisodesQ),
         DOMAIN rows \subseteq Feeders \X Instants, DOMAIN Q2 \subseteq Feeders \X Instants,
         \A u : <<f, u>> \in DOMAIN rows <=> <<f, u>> \in DOMAIN r.rows,
         \A u : <<f, u>> \in DOMAIN rows => rows[<<f, u>>] = r.rows[<<f, u>>]
  PROVE  Ledger(Of(fRows, f), Of(WriteIn(fFlush), f), Of(WaitIn(fFlush), f), Of(Q2, f), r.tracker.started, r.tracker.state)
<1> DEFINE R == Of(fRows, f)
<1> DEFINE W == Of(WriteIn(fFlush), f)
<1> DEFINE V == Of(WaitIn(fFlush), f)
<1> DEFINE Q == Of(fEpisodesQ, f)
<1> DEFINE N == Of(rows, f)
<1> DEFINE X == Of(Q2, f)
<1>1. /\ Ledger(R, W, V, Q, t.started, t.state) /\ t.started \in Nat
      /\ Dated(R) /\ Dated(W) /\ Dated(V) /\ Dated(Q)
  BY LedgerOf DEF Current, StandingOf
<1>2. PICK a : a = r.tracker.started
  OBVIOUS
<1>3. PICK s : s = r.tracker.state
  OBVIOUS
<1>4. /\ a \in Instants /\ a <= now /\ t.started <= a
      /\ t.started = NoTime /\ t.held = 0 => a = now
      /\ t.started = a => t.state # "down" /\ s = "down"
      /\ DOMAIN r.rows = {<<f, a>>} \cup (IF t.started = NoTime THEN {} ELSE {<<f, t.started>>})
      /\ r.rows[<<f, a>>] = Open(s)
      /\ t.started \notin {NoTime, a} => r.rows[<<f, t.started>>] = [state |-> t.state, ended |-> a]
  BY <1>2, <1>3, Zenon DEF Moved
<1>5. a \in Nat \ {NoTime}
  BY <1>4, FeederConstants DEF Instants, NoTime
<1>6. IsOf(N, rows, f) /\ IsOf(X, Q2, f) /\ IsOf(Q, fEpisodesQ, f)
  BY OfIs, BookIsDated DEF FeederInv
<1>7. Over(X, N, Q)
  BY <1>6, OfOver
<1>8. /\ a \in DOMAIN N /\ N[a] = Open(s) /\ DOMAIN N \subseteq {a} \cup ({t.started} \ {NoTime})
      /\ t.started # NoTime /\ t.started # a => t.started \in DOMAIN N /\ N[t.started].ended = a
  <2>1. \A u : u \in DOMAIN N <=> <<f, u>> \in DOMAIN r.rows
    BY <1>6 DEF IsOf
  <2>2. \A u \in DOMAIN N : N[u] = r.rows[<<f, u>>]
    BY <1>6 DEF IsOf
  <2>3. \A u : u \in DOMAIN N <=> u = a \/ (u = t.started /\ t.started # NoTime)
    BY <1>4, <2>1
  <2> HIDE DEF N
  <2>4. t.started # NoTime /\ t.started # a => N[t.started] = [state |-> t.state, ended |-> a]
    BY <1>4, <2>2, <2>3
  <2>5. QED
    BY <1>4, <2>2, <2>3, <2>4
<1>9. t.started = NoTime => t.held = 0
  BY DEF FeederInv, PollInv, DatesOk
<1>10. ASSUME t.started = NoTime, NEW b, BookInv(b) PROVE \A u \in DOMAIN Of(b, f) : u < a /\ Of(b, f)[u].ended <= a
  <2>1. SUFFICES ASSUME NEW u \in DOMAIN Of(b, f), NEW e, e = Of(b, f)[u] PROVE u < a /\ e.ended <= a
    OBVIOUS
  <2>2. IsOf(Of(b, f), b, f)
    BY <1>10, BookIsDated
  <2>3. <<f, u>> \in DOMAIN b /\ b[<<f, u>>] = e
    BY <2>1, <2>2 DEF IsOf
  <2>4. EntryInv(<<f, u>>, e)
    BY <1>10, <2>3 DEF BookInv
  <2>5. u < now /\ e.ended <= now
    BY <2>4 DEF EntryInv
  <2>6. QED
    BY <1>4, <1>9, <1>10, <2>5
<1>11. BookInv(fRows) /\ BookInv(WriteIn(fFlush)) /\ BookInv(WaitIn(fFlush)) /\ BookInv(fEpisodesQ)
  BY FlushBooks DEF FeederInv
<1>12. t.started = NoTime => \A Y \in {R, W, V, Q} : \A u \in DOMAIN Y : u < a /\ Y[u].ended <= a
  BY <1>10, <1>11
<1> HIDE DEF R, W, V, Q, N, X
<1>13. t.started # NoTime => t.started <= a /\ (t.started = a => t.state # "down" /\ s = "down")
  BY <1>4
<1>14. t.started # NoTime /\ t.started # a => t.started \in DOMAIN N /\ N[t.started].ended # NoTime /\ N[t.started].ended <= a
  BY <1>5, <1>8
<1>15. Ledger(R, W, V, X, a, s)
  BY <1>1, <1>5, <1>7, <1>8, <1>12, <1>13, <1>14, TransitionKeeps
<1>16. QED
  BY <1>2, <1>3, <1>15 DEF R, W, V, X

\* The tracker a poll holds for each feeder it asked about.
Held(f) == IF f \in DOMAIN fOrphan THEN fOrphan[f] ELSE fTracker[f]

\* The tracker a poll holds is of a configured feeder and older than the poll, and it is the table's own
\* unless a save removed it meanwhile.
LEMMA HeldIs ==
  ASSUME FeederInv, Probing, NEW f \in fPoll.names, NEW t, t = Held(f), NEW now, now = fPoll.now
  PROVE  /\ f \in Feeders /\ TrackerInv(f, t) /\ TrackerOk(t, now) /\ t.started < now /\ now \in Instants
         /\ fLastGood[f] \in Nat /\ fLastGood[f] < now
         /\ f \notin DOMAIN fOrphan => f \in DOMAIN fTracker /\ t = fTracker[f] /\ f \in Polled /\ DatesOk(t, fLastGood[f])
<1>1. f \in Feeders /\ (f \in DOMAIN fTracker \/ f \in DOMAIN fOrphan)
  BY DEF FeederInv, PollInv
<1>2. TrackerInv(f, t) /\ (f \notin DOMAIN fOrphan => f \in DOMAIN fTracker /\ t = fTracker[f] /\ DatesOk(t, fLastGood[f]))
  BY <1>1 DEF FeederInv, PollInv, Held
<1>3. fLastGood[f] \in Nat /\ fLastGood[f] < now /\ now \in 0 .. fClock /\ fClock \in Instants
  BY <1>1, FeederConstants DEF FeederInv, PollInv, Instants
<1>4. now \in Instants
  BY <1>3, FeederConstants DEF Instants
<1>5. QED
  BY <1>1, <1>2, <1>3, <1>4 DEF TrackerInv, Polled

\* A poll's results are in.
LEMMA PollApplyKeeps == ASSUME FeederInv, PollApply PROVE FeederInv'
<1> DEFINE res(rd) == [f \in fPoll.names |-> ApplyResult(f, Held(f), rd[f], fPoll.now)]
<1> DEFINE book(rd) == [k \in UNION {DOMAIN res(rd)[f].rows : f \in fPoll.names} |-> res(rd)[k[1]].rows[k]]
<1> DEFINE taken(rd) == Buffer(fSamplesQ, SetToSeq(UNION {res(rd)[f].samples : f \in fPoll.names}))
<1> DEFINE told(rd) == Upsert(book(rd), fEpisodesQ)
<1> DEFINE call(rd) == IF FlushDue(told(rd), fPoll.now) THEN BeginFlush("poll", taken(rd), told(rd)) ELSE NoFlush
<1>1. /\ fUp /\ Probing /\ fFlush["poll"].pc = "none" /\ fOrphan' = <<>>
      /\ UNCHANGED <<fClock, fUp, fRows, fSamples>>
  BY Zenon DEF PollApply, Probing
<1>2. PICK reading \in [fPoll.names -> Readings] :
        /\ fTracker' = [f \in DOMAIN fTracker |->
                          IF f \in fPoll.names \ DOMAIN fOrphan THEN res(reading)[f].tracker ELSE fTracker[f]]
        /\ fSamplesQ' = taken(reading) /\ fEpisodesQ' = told(reading)
        /\ fFlush' = [fFlush EXCEPT !["poll"] = call(reading)]
        /\ fPoll' = [fPoll EXCEPT !.pc = IF call(reading).pc = "none" THEN "idle" ELSE "flushing"]
        /\ fFacts' = fFacts \cup UNION {res(reading)[f].facts : f \in fPoll.names}
        /\ fLastGood' = [f \in Feeders |-> IF f \in fPoll.names /\ reading[f] # "down" THEN fPoll.now ELSE fLastGood[f]]
        /\ fLate' = fLate \cup (fPoll.names \cap DOMAIN fOrphan)
  BY Zenon DEF PollApply, Held
<1> DEFINE r == res(reading)
<1> DEFINE rows == book(reading)
<1> DEFINE queue == taken(reading)
<1> DEFINE Q2 == told(reading)
<1> DEFINE flush == call(reading)
<1>3. ASSUME NEW f \in fPoll.names, NEW t, t = Held(f), NEW now, now = fPoll.now, NEW x, x = r[f]
      PROVE  /\ Unmoved(t, x) \/ Moved(f, t, now, x)
             /\ x.samples \subseteq {[feeder |-> f, ts |-> now]} /\ x.tracker.state \in Standing
             /\ (t.started = NoTime => t.held = 0) => TrackerOk(x.tracker, now)
             /\ \A good \in Nat : good < now /\ DatesOk(t, good) =>
                                    DatesOk(x.tracker, IF reading[f] # "down" THEN now ELSE good)
  <2>1. TrackerOk(t, now) /\ t.started < now /\ now \in Instants
    BY <1>1, <1>3, HeldIs
  <2>2. x = ApplyResult(f, t, reading[f], now) /\ reading[f] \in Readings
    BY <1>3
  <2>3. PICK rd \in Readings : rd = reading[f]
    BY <2>2
  <2>4. x = ApplyResult(f, t, rd, now)
    BY <2>2, <2>3
  <2> HIDE DEF r
  <2>5. /\ Unmoved(t, x) \/ Moved(f, t, now, x)
        /\ x.samples \subseteq {[feeder |-> f, ts |-> now]} /\ x.tracker.state \in Standing
        /\ (t.started = NoTime => t.held = 0) => TrackerOk(x.tracker, now)
        /\ \A good \in Nat : good < now /\ DatesOk(t, good) =>
                               DatesOk(x.tracker, IF rd # "down" THEN now ELSE good)
    BY <2>1, <2>4, ApplyIs
  <2>6. QED
    BY <2>3, <2>5
<1>4. /\ \A k \in DOMAIN rows : (\E f \in fPoll.names : k \in DOMAIN r[f].rows) /\ rows[k] = r[k[1]].rows[k]
      /\ \A f \in fPoll.names : DOMAIN r[f].rows \subseteq DOMAIN rows
  OBVIOUS
<1>5. /\ fPoll' \in [pc : {"idle", "probing", "flushing"}, now : 0 .. fClock', names : SUBSET Feeders]
      /\ fPoll'.now = fPoll.now /\ ~Probing'
  <2>1. fPoll \in [pc : {"idle", "probing", "flushing"}, now : 0 .. fClock, names : SUBSET Feeders]
    BY Zenon DEF FeederInv, PollInv
  <2>2. \E pc \in {"idle", "flushing"} : fPoll' = [fPoll EXCEPT !.pc = pc]
    BY <1>2, Zenon
  <2>3. QED
    BY <1>1, <2>1, <2>2 DEF Probing
<1>6. /\ fTracker' = [f \in DOMAIN fTracker |-> IF f \in fPoll.names \ DOMAIN fOrphan THEN r[f].tracker ELSE fTracker[f]]
      /\ fSamplesQ' = queue /\ fEpisodesQ' = Q2 /\ fFlush' = [fFlush EXCEPT !["poll"] = flush]
      /\ fFacts' = fFacts \cup UNION {r[f].facts : f \in fPoll.names}
  BY <1>2, Zenon
<1>7. /\ Over(Q2, rows, fEpisodesQ)
      /\ queue = Buffer(fSamplesQ, SetToSeq(UNION {r[f].samples : f \in fPoll.names}))
      /\ flush \in {NoFlush, BeginFlush("poll", queue, Q2)}
  BY UpsertIs
<1> HIDE DEF res, book, taken, told, call, r, rows, queue, Q2, flush
<1>8. Onward
  <2>1. fClock \in Instants /\ fPoll.now \in 0 .. fClock /\ fClock' = fClock /\ fFacts \subseteq fFacts'
    BY <1>1, <1>6 DEF FeederInv, PollInv
  <2>2. QED
    BY <1>5, <2>1, FeederConstants DEF Onward, Instants
<1>9. /\ \A k, e : EntryInv(k, e) => EntryInv(k, e)'
      /\ \A b : BookInv(b) => BookInv(b)'
      /\ \A f, t : TrackerInv(f, t) => TrackerInv(f, t)'
  BY <1>8, OnwardKeeps
<1>10. ASSUME NEW f \in fPoll.names, NEW x, x = r[f]
       PROVE  /\ \A k, e : k \in DOMAIN x.rows /\ e = x.rows[k] => EntryInv(k, e)' /\ k[1] = f
              /\ \A s : s = x.tracker /\ f \notin DOMAIN fOrphan => TrackerInv(f, s)'
              /\ \A y \in x.facts : /\ y \in [feeder : Feeders, offline : BOOLEAN, since : Instants]
                                    /\ ~y.offline => Announced(y.feeder, y.since)'
  <2>1. PICK t : t = Held(f)
    OBVIOUS
  <2>2. PICK now : now = fPoll.now
    OBVIOUS
  <2>3. /\ f \in Feeders /\ TrackerInv(f, t) /\ TrackerOk(t, now) /\ t.started < now /\ now \in Instants
        /\ f \notin DOMAIN fOrphan => DatesOk(t, fLastGood[f])
    BY <1>1, <2>1, <2>2, HeldIs
  <2>4. /\ Unmoved(t, x) \/ Moved(f, t, now, x)
        /\ x.tracker.state \in Standing
        /\ (t.started = NoTime => t.held = 0) => TrackerOk(x.tracker, now)
    BY <1>3, <1>10, <2>1, <2>2
  <2>5. f \notin DOMAIN fOrphan => TrackerOk(x.tracker, now)
    BY <2>3, <2>4 DEF DatesOk
  <2>6. CASE Moved(f, t, now, x)
    <3>1. x.facts \subseteq fFacts'
      BY <1>6, <1>10
    <3>2. /\ \A k, e : k \in DOMAIN x.rows /\ e = x.rows[k] => EntryInv(k, e)' /\ k[1] = f
          /\ \A s : s = x.tracker /\ TrackerOk(s, now) => TrackerInv(f, s)'
          /\ \A y \in x.facts : /\ y \in [feeder : Feeders, offline : BOOLEAN, since : Instants] /\ y.feeder = f
                                /\ ~y.offline => Announced(f, y.since)'
      BY <1>5, <1>8, <2>2, <2>3, <2>4, <2>6, <3>1, MovedIs
    <3>3. ASSUME NEW y \in x.facts
          PROVE  /\ y \in [feeder : Feeders, offline : BOOLEAN, since : Instants]
                 /\ ~y.offline => Announced(y.feeder, y.since)'
      BY <3>2, <3>3 DEF Announced
    <3>4. ASSUME NEW s, s = x.tracker, f \notin DOMAIN fOrphan PROVE TrackerInv(f, s)'
      BY <2>5, <3>2, <3>4
    <3>5. QED
      BY <3>2, <3>3, <3>4
  <2>7. CASE Unmoved(t, x)
    <3>1. DOMAIN x.rows = {} /\ x.facts = {}
      BY <2>7 DEF Unmoved
    <3>2. ASSUME NEW s, s = x.tracker, f \notin DOMAIN fOrphan PROVE TrackerInv(f, s)'
      <4>1. TrackerOk(s, now) /\ s.started = t.started /\ s.outage = t.outage /\ s.state = t.state
        BY <2>5, <2>7, <3>2 DEF Unmoved
      <4>2. TrackerInv(f, s)
        BY <2>2, <2>3, <4>1 DEF TrackerInv
      <4>3. QED
        BY <1>9, <4>2
    <3>3. QED
      BY <3>1, <3>2
  <2>8. QED
    BY <2>4, <2>6, <2>7
<1>11. \A k \in DOMAIN rows : k[1] \in fPoll.names /\ k \in DOMAIN r[k[1]].rows /\ rows[k] = r[k[1]].rows[k]
  <2>1. SUFFICES ASSUME NEW k \in DOMAIN rows PROVE k[1] \in fPoll.names /\ k \in DOMAIN r[k[1]].rows
    BY <1>4
  <2>2. PICK f \in fPoll.names : k \in DOMAIN r[f].rows
    BY <1>4
  <2>3. PICK x : x = r[f]
    OBVIOUS
  <2>4. k[1] = f
    BY <1>10, <2>2, <2>3
  <2>5. QED
    BY <2>2, <2>4
<1>12. \A k, e : k \in DOMAIN Q2 /\ e = Q2[k] => EntryInv(k, e)'
  <2>1. ASSUME NEW k, NEW e, k \in DOMAIN rows, e = rows[k] PROVE EntryInv(k, e)'
    <3>1. PICK f \in fPoll.names : f = k[1] /\ k \in DOMAIN r[f].rows /\ e = r[f].rows[k]
      BY <1>11, <2>1
    <3>2. PICK x : x = r[f]
      OBVIOUS
    <3>3. QED
      BY <1>10, <3>1, <3>2
  <2>2. \A k \in DOMAIN fEpisodesQ : EntryInv(k, fEpisodesQ[k])
    BY DEF FeederInv, BookInv
  <2>3. QED
    BY <1>7, <1>9, <2>1, <2>2 DEF Over
<1>13. BookInv(fEpisodesQ)' /\ BookInv(fRows)'
  <2>1. fEpisodesQ' = Q2 /\ fRows' = fRows
    BY <1>1, <1>6
  <2>2. BookInv(fEpisodesQ)'
    BY <1>12, <2>1 DEF BookInv
  <2>3. BookInv(fRows)
    BY DEF FeederInv
  <2>4. QED
    BY <1>9, <2>1, <2>2, <2>3
<1>14. SampleInv' /\ queue \in Seq(Probed)
  <2> DEFINE S == UNION {r[f].samples : f \in fPoll.names}
  <2>1. PICK now : now = fPoll.now
    OBVIOUS
  <2>2. \A f \in fPoll.names : r[f].samples \subseteq {[feeder |-> f, ts |-> now]} /\ f \in Feeders /\ now \in Instants
    BY <1>1, <1>3, <2>1, HeldIs
  <2>3. S \subseteq {[feeder |-> f, ts |-> now] : f \in Feeders} /\ S \subseteq Probed
    BY <2>2 DEF Probed
  <2>4. IsFiniteSet({[feeder |-> f, ts |-> now] : f \in Feeders})
    <3> DEFINE sampleOf == [f \in Feeders |-> [feeder |-> f, ts |-> now]]
    <3>1. sampleOf \in Surjection(Feeders, {[feeder |-> f, ts |-> now] : f \in Feeders})
      BY DEF Surjection
    <3>2. QED
      BY <3>1, FS_Surjection, FeederConstants
  <2>5. IsFiniteSet(S)
    BY <2>3, <2>4, FS_Subset
  <2> HIDE DEF S
  <2>6. SetToSeq(S) \in Seq(Probed)
    <3>1. PICK s : s = SetToSeq(S)
      OBVIOUS
    <3>2. s \in Seq(S)
      BY <2>5, <3>1, SetToSeqIs
    <3>3. s \in Seq(Probed)
      BY <2>3, <3>2
    <3>4. QED
      BY <3>1, <3>3
  <2>7. fSamplesQ \in Seq(Probed)
    BY DEF FeederInv, SampleInv
  <2>8. Buffer(fSamplesQ, SetToSeq(S)) \in Seq(Probed) /\ Len(Buffer(fSamplesQ, SetToSeq(S))) <= MaxPending
    BY <2>6, <2>7, BufferIs
  <2>9. queue = Buffer(fSamplesQ, SetToSeq(S))
    BY <1>7 DEF S
  <2>10. QED
    BY <1>1, <1>6, <2>8, <2>9 DEF SampleInv, FeederInv
<1>15. /\ FlushShape(fFlush') /\ (\A c \in Callers : fFlush'[c].episodes \in {fFlush[c].episodes, Q2, <<>>})
       /\ WaitIn(fFlush) = <<>>
       /\ \/ WriteIn(fFlush') = WriteIn(fFlush) /\ WaitIn(fFlush') \in {Q2, <<>>}
          \/ WriteIn(fFlush) = <<>> /\ WaitIn(fFlush') = <<>> /\ WriteIn(fFlush') \in {Q2, <<>>}
  BY <1>1, <1>6, <1>7, <1>14, PollFlushes DEF FeederInv
<1>16. FlushInv'
  <2>1. \A c \in Callers : \A k, e : k \in DOMAIN fFlush'[c].episodes /\ e = fFlush'[c].episodes[k] => EntryInv(k, e)'
    <3>1. SUFFICES ASSUME NEW c \in Callers, NEW b, b = fFlush'[c].episodes, NEW k \in DOMAIN b, NEW e, e = b[k]
                   PROVE  EntryInv(k, e)'
      OBVIOUS
    <3>2. BookInv(fFlush[c].episodes) /\ BookInv(<<>>)
      BY EmptyBook DEF FeederInv, FlushInv
    <3>3. b \in {fFlush[c].episodes, Q2, <<>>}
      BY <1>15, <3>1
    <3>4. CASE b = Q2
      BY <1>12, <3>1, <3>4
    <3>5. CASE b # Q2
      <4>1. BookInv(b)
        BY <3>2, <3>3, <3>5
      <4>2. QED
        BY <1>9, <3>1, <4>1 DEF BookInv
    <3>6. QED
      BY <3>4, <3>5
  <2>2. QED
    BY <1>15, <2>1 DEF FlushInv, BookInv
<1>17. PollInv'
  <2>1. PICK now : now = fPoll.now
    OBVIOUS
  <2>2. /\ fLastGood' = [f \in Feeders |-> IF f \in fPoll.names /\ reading[f] # "down" THEN now ELSE fLastGood[f]]
        /\ fLastGood \in [Feeders -> 0 .. now] /\ now \in Nat /\ fPoll'.now = now
        /\ DOMAIN fTracker \subseteq Feeders /\ DOMAIN fOrphan' = {} /\ DOMAIN fTracker' = DOMAIN fTracker
        /\ \A f \in DOMAIN fTracker : TrackerInv(f, fTracker[f]) /\ DatesOk(fTracker[f], fLastGood[f])
        /\ \A f \in DOMAIN fTracker \cap DOMAIN fOrphan : fTracker[f] = NewTracker
    <3>1. now \in Nat /\ fPoll'.now = now
      BY <1>5, <2>1, FeederConstants DEF FeederInv, PollInv, Instants
    <3>2. fOrphan' = <<>> /\ DOMAIN fTracker' = DOMAIN fTracker
      BY <1>1, <1>6
    <3>3. QED
      BY <1>1, <1>2, <2>1, <3>1, <3>2 DEF FeederInv, PollInv
  <2>3. fLastGood' \in [Feeders -> 0 .. fPoll'.now]
    BY <2>2
  <2>4. ASSUME NEW f \in DOMAIN fTracker, NEW s, s = fTracker'[f] PROVE TrackerInv(f, s)' /\ DatesOk(s, fLastGood'[f])
    <3>1. f \in Feeders /\ fLastGood'[f] = IF f \in fPoll.names /\ reading[f] # "down" THEN now ELSE fLastGood[f]
      BY <2>2
    <3>2. CASE f \in fPoll.names \ DOMAIN fOrphan
      <4>1. PICK x : x = r[f]
        OBVIOUS
      <4>2. s = x.tracker
        BY <1>6, <2>4, <3>2, <4>1
      <4>3. TrackerInv(f, s)'
        BY <1>10, <3>2, <4>1, <4>2
      <4>4. PICK t : t = Held(f)
        OBVIOUS
      <4>5. fLastGood[f] \in Nat /\ fLastGood[f] < now /\ DatesOk(t, fLastGood[f])
        BY <1>1, <2>1, <3>2, <4>4, HeldIs
      <4>6. \A good \in Nat : good < now /\ DatesOk(t, good) =>
                                DatesOk(x.tracker, IF reading[f] # "down" THEN now ELSE good)
        BY <1>3, <2>1, <3>2, <4>1, <4>4
      <4>7. DatesOk(s, IF reading[f] # "down" THEN now ELSE fLastGood[f])
        BY <4>2, <4>5, <4>6
      <4>8. QED
        BY <3>1, <3>2, <4>3, <4>7
    <3>3. CASE f \in fPoll.names \cap DOMAIN fOrphan
      <4>1. s = NewTracker /\ s = fTracker[f]
        BY <1>6, <2>2, <2>4, <3>3
      <4>2. DatesOk(s, fLastGood'[f])
        BY <2>2, <4>1, NewIs
      <4>3. QED
        BY <1>9, <2>2, <4>1, <4>2
    <3>4. CASE f \notin fPoll.names
      <4>1. s = fTracker[f] /\ fLastGood'[f] = fLastGood[f]
        BY <1>6, <2>4, <3>1, <3>4
      <4>2. QED
        BY <1>9, <2>2, <4>1
    <3>5. QED
      BY <3>2, <3>3, <3>4
  <2>5. \A f \in DOMAIN fTracker' : TrackerInv(f, fTracker[f])' /\ DatesOk(fTracker[f], fLastGood[f])'
    BY <2>2, <2>4
  <2>6. QED
    BY <1>5, <2>2, <2>3, <2>5 DEF PollInv
<1>18. FactInv' /\ DownInv'
  <2>1. ASSUME NEW y \in fFacts' PROVE y \in [feeder : Feeders, offline : BOOLEAN, since : Instants] /\ (~y.offline => Announced(y.feeder, y.since)')
    <3>1. CASE y \in fFacts
      <4>1. y \in [feeder : Feeders, offline : BOOLEAN, since : Instants] /\ (~y.offline => Announced(y.feeder, y.since))
        BY <3>1 DEF FeederInv, FactInv, RestoreFollowsOffline
      <4>2. QED
        BY <1>8, <4>1 DEF Onward, Announced
    <3>2. CASE y \notin fFacts
      <4>1. PICK f \in fPoll.names : y \in r[f].facts
        BY <1>6, <3>2
      <4>2. PICK x : x = r[f]
        OBVIOUS
      <4>3. QED
        BY <1>10, <4>1, <4>2
    <3>3. QED
      BY <3>1, <3>2
  <2>2. QED
    BY <1>1, <2>1 DEF FactInv, RestoreFollowsOffline, DownInv
<1>19. LedgerInv'
  <2>1. SUFFICES ASSUME NEW f \in Feeders, f \notin fLate', NEW c, c = Current(f)', NEW s, s = StandingOf(f)'
                 PROVE  Ledger(Of(fRows, f), Of(WriteIn(fFlush'), f), Of(WaitIn(fFlush'), f), Of(Q2, f), c, s)
    BY <1>1, <1>6 DEF LedgerInv, WriteIn, WaitIn
  <2> DEFINE R == Of(fRows, f)
  <2> DEFINE W == Of(WriteIn(fFlush), f)
  <2> DEFINE E == Of(<<>>, f)
  <2> DEFINE X == Of(Q2, f)
  <2>2. f \notin fLate /\ ~(f \in fPoll.names /\ f \in DOMAIN fOrphan)
    BY <1>2, <2>1
  <2>3. DOMAIN Q2 \subseteq Feeders \X Instants /\ DOMAIN rows \subseteq Feeders \X Instants
    <3>1. DOMAIN Q2 \subseteq Feeders \X Instants
      BY <1>12 DEF EntryInv
    <3>2. QED
      BY <1>7, <3>1 DEF Over
  <2>4. Ledger(R, W, E, X, c, s)
    <3>1. ASSUME \A u : <<f, u>> \notin DOMAIN rows, c = Current(f), s = StandingOf(f) PROVE Ledger(R, W, E, X, c, s)
      <4>1. X = Of(fEpisodesQ, f)
        <5>1. DOMAIN fEpisodesQ \subseteq Feeders \X Instants
          BY BookIsDated DEF FeederInv
        <5>2. (\A u : <<f, u>> \in DOMAIN Q2 <=> <<f, u>> \in DOMAIN fEpisodesQ)
              /\ \A u : <<f, u>> \in DOMAIN Q2 => Q2[<<f, u>>] = fEpisodesQ[<<f, u>>]
          BY <1>7, <3>1 DEF Over
        <5>3. QED
          BY <2>3, <5>1, <5>2, OfSame
      <4>2. Ledger(R, W, Of(WaitIn(fFlush), f), Of(fEpisodesQ, f), c, s)
        BY <1>1, <2>1, <2>2, <3>1, LedgerOf
      <4>3. QED
        BY <1>15, <4>1, <4>2
    <3>2. CASE f \notin fPoll.names
      <4>1. \A u : <<f, u>> \notin DOMAIN rows
        BY <1>11, <3>2
      <4>2. c = Current(f) /\ s = StandingOf(f)
        BY <1>6, <2>1, <3>2 DEF Current, StandingOf
      <4>3. QED
        BY <3>1, <4>1, <4>2
    <3>3. CASE f \in fPoll.names
      <4>1. PICK t : t = Held(f)
        OBVIOUS
      <4>2. PICK now : now = fPoll.now
        OBVIOUS
      <4>3. PICK x : x = r[f]
        OBVIOUS
      <4>4. f \in DOMAIN fTracker /\ t = fTracker[f] /\ f \in Polled
        BY <1>1, <2>2, <3>3, <4>1, <4>2, HeldIs
      <4>5. c = x.tracker.started /\ s = x.tracker.state
        <5>1. fTracker'[f] = x.tracker /\ f \in DOMAIN fTracker'
          BY <1>6, <2>2, <3>3, <4>3, <4>4
        <5>2. QED
          BY <2>1, <5>1 DEF Current, StandingOf
      <4>6. (\A u : <<f, u>> \in DOMAIN rows <=> <<f, u>> \in DOMAIN x.rows)
            /\ \A u : <<f, u>> \in DOMAIN rows => rows[<<f, u>>] = x.rows[<<f, u>>]
        <5>1. ASSUME NEW u, <<f, u>> \in DOMAIN rows PROVE <<f, u>> \in DOMAIN x.rows /\ rows[<<f, u>>] = x.rows[<<f, u>>]
          BY <1>11, <4>3, <5>1
        <5>2. DOMAIN x.rows \subseteq DOMAIN rows
          BY <1>4, <3>3, <4>3
        <5>3. QED
          BY <5>1, <5>2
      <4>7. Unmoved(t, x) \/ Moved(f, t, now, x)
        BY <1>3, <3>3, <4>1, <4>2, <4>3
      <4>8. CASE Unmoved(t, x)
        <5>1. \A u : <<f, u>> \notin DOMAIN rows
          <6>1. DOMAIN x.rows = {}
            BY <4>8 DEF Unmoved
          <6>2. QED
            BY <4>6, <6>1
        <5>2. c = Current(f) /\ s = StandingOf(f)
          BY <4>4, <4>5, <4>8 DEF Unmoved, Current, StandingOf
        <5>3. QED
          BY <3>1, <5>1, <5>2
      <4>9. CASE Moved(f, t, now, x)
        <5>1. Ledger(R, W, Of(WaitIn(fFlush), f), X, x.tracker.started, x.tracker.state)
          BY <1>1, <1>7, <2>1, <2>2, <2>3, <4>2, <4>4, <4>6, <4>9, LedgerMoves
        <5>2. QED
          BY <1>15, <4>5, <5>1
      <4>10. QED
        BY <4>7, <4>8, <4>9
    <3>4. QED
      BY <3>2, <3>3
  <2>5. DOMAIN E = {} /\ Dated(X)
    <3>1. \A k \in DOMAIN Q2 : Q2[k].ended \in Nat
      BY <1>12, FeederConstants DEF EntryInv, Entry, Time
    <3>2. IsOf(X, Q2, f)
      BY <2>3, OfIs
    <3>3. Instants \subseteq Nat \ {NoTime}
      BY FeederConstants DEF Instants, NoTime
    <3>4. \A t \in DOMAIN X : <<f, t>> \in DOMAIN Q2 /\ X[t] = Q2[<<f, t>>]
      BY <3>2 DEF IsOf
    <3>5. \A t \in DOMAIN X : t \in Instants /\ X[t].ended \in Nat
      BY <2>3, <3>1, <3>4
    <3>6. QED
      BY <3>3, <3>5, EmptyBook DEF Dated
  <2> HIDE DEF R, W, E, X
  <2>6. /\ Ledger(R, W, X, X, c, s) /\ Ledger(R, X, E, X, c, s)
        /\ Ledger(R, E, E, X, c, s)
    BY <2>4, <2>5, CopyKeeps, DropKeeps
  <2>7. QED
    BY <1>15, <2>4, <2>6 DEF R, W, E, X
<1>20. TableInv'
  BY <1>19 DEF LedgerInv, TableInv, Ledger, InOrder
<1>21. QED
  BY <1>1, <1>8, <1>13, <1>14, <1>16, <1>17, <1>18, <1>19, <1>20, SMTT(30) DEF FeederInv, Onward

\* Where it starts.
LEMMA FeederStarts == FeederInit => FeederInv
<1>1. SUFFICES ASSUME FeederInit PROVE FeederInv
  OBVIOUS
<1>2. /\ fClock = 1 /\ fUp = FALSE /\ fPoll = Idle /\ fOrphan = <<>> /\ fSamplesQ = <<>> /\ fEpisodesQ = <<>> /\ fRows = <<>>
      /\ fSamples = {} /\ fFacts = {} /\ fFlush = [c \in Callers |-> NoFlush] /\ fLastGood = [f \in Feeders |-> NoTime]
      /\ DOMAIN fTracker \subseteq Feeders /\ \A f \in DOMAIN fTracker : fTracker[f] = NewTracker
  BY <1>1 DEF FeederInit
<1>3. fClock \in Instants /\ fPoll.now = 0 /\ fPoll.pc = "idle" /\ ~Probing
      /\ fPoll \in [pc : {"idle", "probing", "flushing"}, now : 0 .. fClock, names : SUBSET Feeders]
  BY <1>2, FeederConstants DEF Instants, Idle, Probing, NoTime
<1>4. BookInv(fRows) /\ BookInv(fEpisodesQ)
  BY <1>2, EmptyBook
<1>5. FlushInv
  <2>1. DOMAIN fFlush = Callers /\ \A c \in Callers : fFlush[c] = NoFlush
    BY <1>2
  <2>2. NoFlush.pc = "none"
    BY DEF NoFlush
  <2>3. FlushShape(fFlush)
    BY <2>1, <2>2, EmptyBook DEF FlushShape, Callers
  <2>4. QED
    BY <2>1, <2>3, EmptyBook DEF FlushInv
<1>6. SampleInv /\ FactInv /\ DownInv
  <2>1. 0 <= MaxPending
    BY FeederConstants
  <2>2. QED
    BY <1>2, <1>3, <2>1 DEF SampleInv, FactInv, DownInv, RestoreFollowsOffline
<1>7. PollInv
  <2>1. \A f \in DOMAIN fTracker : TrackerInv(f, fTracker[f]) /\ DatesOk(fTracker[f], fLastGood[f])
    BY <1>2, <1>3, NewIs DEF TrackerInv
  <2>2. QED
    BY <1>2, <1>3, <2>1 DEF PollInv, NoTime
<1>8. TableInv
  BY <1>2, EmptyBook DEF TableInv, Before
<1>9. QED
  BY <1>2, <1>3, <1>4, <1>5, <1>6, <1>7, <1>8 DEF FeederInv

\* The invariant of the feeder service holds in every state: whatever polls, saves, writes, stops, crashes
\* and restarts led here, what the table, the writes and the queue say of a feeder fits together.
THEOREM FeederInvHolds == FeederSpec => []FeederInv
<1>1. FeederInv /\ [FeederNext]_fVars => FeederInv'
  <2> SUFFICES ASSUME FeederInv, [FeederNext]_fVars PROVE FeederInv'
    OBVIOUS
  <2>1. CASE FeederTick
    BY <2>1, FeederTickKeeps
  <2>2. CASE PollBegin
    BY <2>2, PollBeginKeeps
  <2>3. CASE PollApply
    BY <2>3, PollApplyKeeps
  <2>4. CASE CrashFeeders
    BY <2>4, CrashKeeps
  <2>5. CASE MaintainFeeders
    BY <2>5, MaintainKeeps
  <2>6. ASSUME NEW who \in Callers, NEW ok \in BOOLEAN, WriteDone(who, ok) PROVE FeederInv'
    BY <2>6, WriteDoneKeeps
  <2>7. ASSUME NEW names \in SUBSET Feeders, ApplySettings(names) PROVE FeederInv'
    BY <2>7, SettingsKeep
  <2>8. ASSUME NEW settled \in BOOLEAN, NEW final \in BOOLEAN, StopFeeders(settled, final) PROVE FeederInv'
    BY <2>8, StopKeeps
  <2>9. ASSUME NEW outcome \in {"ok", "unread", "unclosed"}, StartFeeders(outcome) PROVE FeederInv'
    BY <2>9, StartKeeps
  <2>10. CASE UNCHANGED fVars
    <3>1. UNCHANGED <<fClock, fUp, fTracker, fPoll, fOrphan, fSamplesQ, fEpisodesQ, fFlush, fRows, fSamples, fFacts, fLastGood, fLate>>
      BY <2>10 DEF fVars
    <3>2. fClock \in Instants /\ fPoll.now \in 0 .. fClock
      BY DEF FeederInv, PollInv
    <3>3. Onward
      BY <3>1, <3>2, FeederConstants DEF Onward, Instants, Probing, Polled
    <3>4. BookInv(fRows)' /\ BookInv(fEpisodesQ)' /\ FlushInv'
      BY <3>1, <3>3, OnwardKeeps DEF FeederInv, FlushInv
    <3>5. PollInv'
      BY <3>1, <3>3, OnwardKeeps DEF FeederInv, PollInv, Probing
    <3>6. SampleInv' /\ FactInv' /\ DownInv'
      BY <3>1 DEF FeederInv, SampleInv, FactInv, DownInv, RestoreFollowsOffline, Announced
    <3>7. (fUp => LedgerInv') /\ TableInv'
      <4>1. CASE fUp
        BY <3>1, <4>1, LedgerStays
      <4>2. CASE ~fUp
        BY <3>1, <4>2 DEF FeederInv, TableInv
      <4>3. QED
        BY <4>1, <4>2
    <3>8. QED
      BY <3>1, <3>3, <3>4, <3>5, <3>6, <3>7 DEF FeederInv, Onward
  <2>11. QED
    BY <2>1, <2>2, <2>3, <2>4, <2>5, <2>6, <2>7, <2>8, <2>9, <2>10 DEF FeederNext
<1>2. QED
  BY <1>1, FeederStarts, PTL DEF FeederSpec

\* The episodes a reader of history() sees are in order, and exactly the one the tracker is in is open.
LEMMA LedgerTimeline ==
  ASSUME FeederInv, fUp, NEW f \in Feeders \ fLate, NEW L, L = Of(Timeline, f)
  PROVE  /\ IsOf(L, Timeline, f) /\ Before(L, L)
         /\ \A t \in DOMAIN L : L[t].ended = NoTime => t = Current(f)
         /\ Current(f) # NoTime => Current(f) \in DOMAIN L /\ L[Current(f)].ended = NoTime
                                   /\ L[Current(f)].state = StandingOf(f)
<1> DEFINE R == Of(fRows, f)
<1> DEFINE Q == Of(fEpisodesQ, f)
<1> DEFINE c == Current(f)
<1>1. PICK W, V : Ledger(R, W, V, Q, c, StandingOf(f))
  BY LedgerOf
<1>2. BookInv(fRows) /\ BookInv(fEpisodesQ)
  BY DEF FeederInv
<1>3. Over(Timeline, fEpisodesQ, fRows)
  BY UpsertIs DEF Timeline
<1>4. IsOf(R, fRows, f) /\ IsOf(Q, fEpisodesQ, f) /\ IsOf(L, Timeline, f)
  <2>1. DOMAIN Timeline \subseteq Feeders \X Instants
    BY <1>2, <1>3, BookIsDated DEF Over
  <2>2. QED
    BY <1>2, <2>1, OfIs, BookIsDated
<1>5. Over(L, Q, R)
  BY <1>3, <1>4, OfOver
<1> HIDE DEF R, Q
<1>6. Before(L, L)
  BY <1>1, <1>5, OverInOrder DEF Ledger, InOrder
<1>7. OpensAre(R, W, V, Q, c) /\ (c # NoTime => CurrentIs(R, W, V, Q, c, StandingOf(f)))
  BY <1>1 DEF Ledger
<1>8. \A t \in DOMAIN L : L[t].ended = NoTime => t = c
  BY <1>5, <1>7 DEF OpensAre, OpenOnly, Over
<1>9. ASSUME c # NoTime PROVE c \in DOMAIN L /\ L[c] = Open(StandingOf(f))
  <2>1. CurrentIs(R, W, V, Q, c, StandingOf(f))
    BY <1>7, <1>9
  <2>2. QED
    BY <1>5, <2>1 DEF CurrentIs, CurrentIn, Over
<1>10. QED
  BY <1>4, <1>6, <1>8, <1>9 DEF Open

\* What the service promises in every state (FeederInvariant): each configured feeder has exactly the open
\* episode its tracker is in, no two episodes of a feeder overlap, an outage is dated from its first failing
\* poll, and a restore follows an announced outage.
THEOREM FeedersArePromised == FeederSpec => []FeederInvariant
<1>1. FeederInv => FeederInvariant
  <2> SUFFICES ASSUME FeederInv PROVE FeederInvariant
    OBVIOUS
  <2>1. FeederTypeOK
    <3>1. DOMAIN fRows \cup DOMAIN fEpisodesQ \subseteq Feeders \X Instants
      BY BookIsDated DEF FeederInv
    <3>2. \A f \in DOMAIN fTracker : fTracker[f] \in Tracker
      BY DEF FeederInv, PollInv, TrackerInv, TrackerOk
    <3>3. QED
      BY <3>1, <3>2 DEF FeederInv, PollInv, SampleInv, FlushInv, FlushShape, FeederTypeOK, Tracker, Standing, Time, Instants
  <2>2. TimelineMatchesTracker
    <3>1. SUFFICES ASSUME fUp, NEW f \in DOMAIN fTracker \ fLate
                   PROVE  OpenRows(Timeline, f) = IF fTracker[f].started = NoTime THEN {}
                            ELSE {k \in DOMAIN Timeline : k = <<f, fTracker[f].started>> /\ Timeline[k].state = fTracker[f].state}
      BY DEF TimelineMatchesTracker
    <3>2. f \in Feeders \ fLate /\ Current(f) = fTracker[f].started /\ StandingOf(f) = fTracker[f].state
      BY DEF FeederInv, PollInv, Current, StandingOf
    <3>3. PICK L : L = Of(Timeline, f)
      OBVIOUS
    <3>4. PICK c : c = fTracker[f].started
      OBVIOUS
    <3>5. /\ IsOf(L, Timeline, f)
          /\ \A t \in DOMAIN L : L[t].ended = NoTime => t = c
          /\ c # NoTime => c \in DOMAIN L /\ L[c].ended = NoTime /\ L[c].state = fTracker[f].state
      BY <3>1, <3>2, <3>3, <3>4, LedgerTimeline
    <3>6. \A k \in OpenRows(Timeline, f) : k = <<f, c>>
      <4>1. SUFFICES ASSUME NEW k \in OpenRows(Timeline, f) PROVE k = <<f, c>>
        OBVIOUS
      <4>2. k \in DOMAIN Timeline /\ k[1] = f /\ Timeline[k].ended = NoTime
        BY <4>1 DEF OpenRows
      <4>3. DOMAIN Timeline \subseteq Feeders \X Instants
        <5>1. Over(Timeline, fEpisodesQ, fRows)
          BY UpsertIs DEF Timeline
        <5>2. QED
          BY <5>1, BookIsDated DEF Over, FeederInv
      <4>4. k = <<f, k[2]>>
        BY <4>2, <4>3
      <4>5. k[2] \in DOMAIN L /\ L[k[2]].ended = NoTime
        BY <3>5, <4>2, <4>4 DEF IsOf
      <4>6. QED
        BY <3>5, <4>4, <4>5
    <3>7. c # NoTime => /\ <<f, c>> \in OpenRows(Timeline, f) /\ <<f, c>> \in DOMAIN Timeline
                        /\ Timeline[<<f, c>>].state = fTracker[f].state
      BY <3>5 DEF IsOf, OpenRows
    <3>8. c = NoTime => OpenRows(Timeline, f) = {}
      <4>1. SUFFICES ASSUME c = NoTime, NEW k \in OpenRows(Timeline, f) PROVE FALSE
        OBVIOUS
      <4>2. <<f, c>> \in DOMAIN Timeline
        BY <3>6, <4>1 DEF OpenRows
      <4>3. DOMAIN Timeline \subseteq Feeders \X Instants
        <5>1. Over(Timeline, fEpisodesQ, fRows)
          BY UpsertIs DEF Timeline
        <5>2. QED
          BY <5>1, BookIsDated DEF Over, FeederInv
      <4>4. QED
        BY <4>1, <4>2, <4>3, FeederConstants DEF Instants, NoTime
    <3>9. QED
      BY <3>4, <3>6, <3>7, <3>8
  <2>3. EpisodesNeverOverlap
    <3>1. SUFFICES ASSUME NEW k \in DOMAIN Timeline, NEW l \in DOMAIN Timeline,
                          k[1] = l[1], k[2] < l[2], k[1] \notin fLate, fUp
                   PROVE  Timeline[k].ended # NoTime /\ Timeline[k].ended <= l[2]
      BY DEF EpisodesNeverOverlap
    <3>2. Over(Timeline, fEpisodesQ, fRows)
      BY UpsertIs DEF Timeline
    <3>3. DOMAIN Timeline \subseteq Feeders \X Instants
      BY <3>2, BookIsDated DEF Over, FeederInv
    <3>4. PICK f : f = k[1]
      OBVIOUS
    <3>5. f \in Feeders \ fLate /\ k = <<f, k[2]>> /\ l = <<f, l[2]>>
      BY <3>1, <3>3, <3>4
    <3>6. PICK L : L = Of(Timeline, f)
      OBVIOUS
    <3>7. IsOf(L, Timeline, f) /\ Before(L, L)
      BY <3>1, <3>5, <3>6, LedgerTimeline
    <3>8. k[2] \in DOMAIN L /\ l[2] \in DOMAIN L /\ L[k[2]] = Timeline[k]
      BY <3>5, <3>7 DEF IsOf
    <3>9. QED
      BY <3>1, <3>7, <3>8 DEF Before
  <2>4. OutageDatedFromFirstFailure
    BY DEF FeederInv, PollInv, DatesOk, OutageDatedFromFirstFailure
  <2>5. QED
    BY <2>1, <2>2, <2>3, <2>4 DEF FeederInv, FactInv, FeederInvariant
<1>2. QED
  BY <1>1, FeederInvHolds, PTL
====
