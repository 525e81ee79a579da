--------------------------- MODULE LiveStoreProofs ---------------------------
(***************************************************************************)
(* Proofs about the live registry for every number of aircraft and         *)
(* consumers, every queue size, every threshold and every clock bound.     *)
(*                                                                         *)
(* The invariants of interest are not inductive: how long an aircraft can  *)
(* linger depends on when the last sweep ran and on what it has already    *)
(* passed over.  SweepInv says that, and everything else follows from it.  *)
(***************************************************************************)
EXTENDS LiveStore, TLAPS

Subscriptions == [queue : Seq(Events), overflowed : BOOLEAN]

\* What the sweep has established.  Records it has passed over (or that entered
\* since) were younger than RemoveS when it started; no record is older than
\* RemoveS plus one interval; what is set aside for removal has expired; and
\* who left did so with a contact at least RemoveS old.
SweepInv ==
  /\ lastSweep <= now /\ now <= lastSweep + SweepEvery
  /\ todo \cup removed # {} => now = lastSweep
  /\ todo \cup removed \subseteq Known
  /\ \A a \in Aircraft : heard[a] <= now
  /\ \A a \in Known : /\ aircraft[a].last <= now
                      /\ Age(a) < RemoveS + SweepEvery
                      /\ a \notin todo \cup removed => lastSweep - aircraft[a].last < RemoveS
                      /\ a \in removed => Age(a) >= RemoveS
                      /\ ReportsAge => aircraft[a].last <= heard[a]
  /\ \A a \in Aircraft : gone[a] # -1 => now - gone[a] >= RemoveS
-----------------------------------------------------------------------------
\* Delivering an event keeps a subscription a subscription (events.deliver).
LEMMA DeliverType ==
  ASSUME NEW s \in Subscriptions, NEW e \in Events
  PROVE  Deliver(s, e) \in Subscriptions
<1>1. CASE Len(s.queue) < QueueSize
  BY <1>1 DEF Deliver, Subscriptions
<1>2. CASE ~(Len(s.queue) < QueueSize)
  <2>1. s.queue # <<>>
    BY <1>2, QueueSizeAssumption DEF Subscriptions
  <2>2. Tail(s.queue) \in Seq(Events)
    BY <2>1 DEF Subscriptions
  <2>3. QED
    BY <1>2, <2>2 DEF Deliver, Subscriptions
<1>3. QED
  BY <1>1, <1>2

\* Publishing keeps every subscription a subscription (events.publish).
LEMMA PublishType ==
  ASSUME sub \in [Consumers -> Subscriptions], NEW e \in Events, Publish(e)
  PROVE  sub' \in [Consumers -> Subscriptions]
<1>1. \A c \in Consumers : Deliver(sub[c], e) \in Subscriptions
  BY DeliverType
<1>2. QED
  BY <1>1 DEF Publish

\* An event about a well-formed record is well formed.
LEMMA EventType ==
  ASSUME NEW kind \in Kinds, NEW a \in Aircraft, NEW r \in Records
  PROVE  Event(kind, a, r) \in Events
BY DEF Event, Events, Records

\* Taking leaves an empty, acknowledged subscription.
LEMMA TakeType ==
  ASSUME NEW s \in Subscriptions
  PROVE  Acknowledged(Drained(s)) \in Subscriptions
<1>1. <<>> \in Seq(Events)
  OBVIOUS
<1>2. Drained(s) \in Subscriptions
  BY <1>1 DEF Drained, Subscriptions
<1>3. \A d \in Subscriptions : Acknowledged(d) \in Subscriptions
  BY DEF Acknowledged, Subscriptions
<1>4. QED
  BY <1>2, <1>3

\* The silence an update reports lies between zero and the clock reading.
LEMMA SilenceType ==
  ASSUME TypeOK, SweepInv, NEW a \in Aircraft
  PROVE  /\ ReportedSilence(ReportedAge(a)) \in Time
         /\ now - ReportedSilence(ReportedAge(a)) \in Time
         /\ ReportedSilence(ReportedAge(a)) <= now
         /\ IF ReportsAge THEN now - ReportedSilence(ReportedAge(a)) = heard[a]
                          ELSE ReportedSilence(ReportedAge(a)) = 0
BY StoreAssumption DEF TypeOK, SweepInv, ReportedSilence, ReportedAge, NoAge, Time

\* A record is never mistaken for the absence of one.
LEMMA RecordIsRecord == \A r \in Records : r # NoRecord
BY DEF Records, NoRecord, LiveState

\* What is known has a well-formed record.
LEMMA KnownRecord ==
  ASSUME TypeOK, NEW a \in Known
  PROVE  a \in Aircraft /\ aircraft[a] \in Records
BY DEF TypeOK, Known
-----------------------------------------------------------------------------
\* Every step keeps the types, given what the sweep has established.
LEMMA TypeStep ==
  ASSUME TypeOK, SweepInv, [Next]_storeVars
  PROVE  TypeOK'
<1> USE StoreAssumption
<1> DEFINE Rec == Records \cup {NoRecord}
<1>0. sub \in [Consumers -> Subscriptions] /\ (sub' \in [Consumers -> Subscriptions] <=> sub' \in [Consumers -> [queue : Seq(Events), overflowed : BOOLEAN]])
  BY DEF TypeOK, Subscriptions
<1>1. CASE Tick
  BY <1>1 DEF TypeOK, Tick, Time
<1>2. CASE SweepBegin
  BY <1>2 DEF TypeOK, SweepBegin, Known
<1>3. CASE SweepEmpty
  BY <1>3 DEF TypeOK, SweepEmpty
<1>4. ASSUME NEW a \in Aircraft, Transmit(a)
      PROVE  TypeOK'
  BY <1>4 DEF TypeOK, Transmit
<1>5. ASSUME NEW a \in Aircraft, ApplyUpdate(a)
      PROVE  TypeOK'
  <2> DEFINE silence == ReportedSilence(ReportedAge(a))
  <2>1. silence \in Time /\ now - silence \in Time
    BY SilenceType
  <2>2. CASE Appear(a, silence)
    <3> DEFINE r == [first |-> now - silence, last |-> now - silence, state |-> "live"]
    <3>1. r \in Records
      BY <2>1 DEF Records, LiveState
    <3>2. Event("appeared", a, r) \in Events
      BY <3>1, EventType DEF Kinds
    <3>3. aircraft' = [aircraft EXCEPT ![a] = r] /\ Publish(Event("appeared", a, r))
      BY <2>2 DEF Appear
    <3>4. sub' \in [Consumers -> Subscriptions]
      BY <1>0, <3>2, <3>3, PublishType
    <3>5. aircraft' \in [Aircraft -> Rec]
      BY <3>1, <3>3 DEF TypeOK
    <3>6. QED
      BY <1>0, <1>5, <3>4, <3>5 DEF TypeOK, ApplyUpdate
  <2>3. CASE Merge(a, silence)
    <3> DEFINE r == [aircraft[a] EXCEPT !.last  = now - silence,
                               !.state = IF silence < StaleS THEN "live" ELSE @]
    <3>1. aircraft[a] \in Records
      BY <2>3, KnownRecord DEF Merge
    <3>2. r \in Records
      BY <2>1, <3>1 DEF Records, LiveState
    <3>3. Event("updated", a, r) \in Events
      BY <3>2, EventType DEF Kinds
    <3>4. aircraft' = [aircraft EXCEPT ![a] = r] /\ Publish(Event("updated", a, r))
      BY <2>3 DEF Merge
    <3>5. sub' \in [Consumers -> Subscriptions]
      BY <1>0, <3>3, <3>4, PublishType
    <3>6. aircraft' \in [Aircraft -> Rec]
      BY <3>2, <3>4 DEF TypeOK
    <3>7. QED
      BY <1>0, <1>5, <3>5, <3>6 DEF TypeOK, ApplyUpdate
  <2>4. QED
    BY <1>5, <2>2, <2>3 DEF ApplyUpdate
<1>6. ASSUME NEW a \in Aircraft, SweepExpire(a)
      PROVE  TypeOK'
  BY <1>6 DEF TypeOK, SweepExpire
<1>7. ASSUME NEW a \in Aircraft, SweepMarkStale(a)
      PROVE  TypeOK'
  <2>1. a \in todo /\ a \in Known
    BY <1>7 DEF SweepMarkStale, SweepInv
  <2>2. aircraft[a] \in Records
    BY <2>1, KnownRecord
  <2>3. [aircraft[a] EXCEPT !.state = "stale"] \in Records
    BY <2>2 DEF Records, LiveState
  <2>4. aircraft' \in [Aircraft -> Rec]
    BY <1>7, <2>3 DEF TypeOK, SweepMarkStale
  <2>5. Event("stale", a, aircraft[a]) \in Events
    BY <2>2, EventType DEF Kinds
  <2>6. sub' \in [Consumers -> Subscriptions]
    BY <1>0, <1>7, <2>5, PublishType DEF SweepMarkStale
  <2>7. QED
    BY <1>0, <1>7, <2>4, <2>6 DEF TypeOK, SweepMarkStale
<1>8. ASSUME NEW a \in Aircraft, SweepSkip(a)
      PROVE  TypeOK'
  BY <1>8 DEF TypeOK, SweepSkip
<1>9. ASSUME NEW a \in Aircraft, SweepRemove(a)
      PROVE  TypeOK'
  <2>1. a \in removed /\ a \in Known
    BY <1>9 DEF SweepRemove, SweepInv
  <2>2. aircraft[a] \in Records
    BY <2>1, KnownRecord
  <2>3. Event("removed", a, aircraft[a]) \in Events
    BY <2>2, EventType DEF Kinds
  <2>4. sub' \in [Consumers -> Subscriptions]
    BY <1>0, <1>9, <2>3, PublishType DEF SweepRemove
  <2>5. aircraft' \in [Aircraft -> Rec]
    BY <1>9 DEF TypeOK, SweepRemove
  <2>6. gone' \in [Aircraft -> Time \cup {-1}]
    BY <1>9, <2>2 DEF TypeOK, SweepRemove, Records
  <2>7. QED
    BY <1>0, <1>9, <2>4, <2>5, <2>6 DEF TypeOK, SweepRemove
<1>10. ASSUME NEW c \in Consumers, Take(c)
       PROVE  TypeOK'
  <2>1. Acknowledged(Drained(sub[c])) \in Subscriptions
    BY <1>0, TakeType
  <2>2. sub' \in [Consumers -> Subscriptions]
    BY <1>0, <1>10, <2>1 DEF Take
  <2>3. QED
    BY <1>0, <1>10, <2>2 DEF TypeOK, Take
<1>11. CASE UNCHANGED storeVars
  BY <1>11 DEF TypeOK, storeVars
<1>12. QED
  BY <1>1, <1>2, <1>3, <1>4, <1>5, <1>6, <1>7, <1>8, <1>9, <1>10, <1>11
     DEF Next, StoreStep
-----------------------------------------------------------------------------
\* The conjuncts of SweepInv about one known aircraft.
KnownInv(a) ==
  /\ aircraft[a].last <= now
  /\ Age(a) < RemoveS + SweepEvery
  /\ a \notin todo \cup removed => lastSweep - aircraft[a].last < RemoveS
  /\ a \in removed => Age(a) >= RemoveS
  /\ ReportsAge => aircraft[a].last <= heard[a]

\* Every step keeps what the sweep has established.
LEMMA SweepStep ==
  ASSUME TypeOK, TypeOK', SweepInv, [Next]_storeVars
  PROVE  SweepInv'
<1> USE StoreAssumption
<1>0. /\ now \in Nat /\ lastSweep \in Nat
      /\ \A a \in Aircraft : heard[a] \in Nat /\ gone[a] \in Nat \cup {-1}
      /\ \A a \in Known : a \in Aircraft /\ aircraft[a].last \in Nat /\ KnownInv(a)
  BY KnownRecord DEF TypeOK, Time, Records, SweepInv, KnownInv
<1>a. \A a \in Known' : a \in Aircraft /\ aircraft'[a].last \in Nat
  BY DEF TypeOK, Time, Records, Known, NoRecord
<1>b. ASSUME UNCHANGED aircraft
      PROVE  Known' = Known /\ \A a \in Known : Age(a)' = now' - aircraft[a].last
  BY <1>b DEF Known, Age
<1>1. CASE Tick
  <2>1. todo = {} /\ removed = {}
    BY <1>1 DEF Tick, Idle
  <2>2. \A a \in Known : now + 1 - aircraft[a].last < RemoveS + SweepEvery
    BY <1>0, <1>1, <2>1 DEF Tick, KnownInv
  <2>3. QED
    BY <1>0, <1>1, <1>b, <2>1, <2>2 DEF Tick, SweepInv, KnownInv
<1>2. CASE SweepBegin
  <2>1. \A a \in Known : a \in todo'
    BY <1>2 DEF SweepBegin
  <2>2. QED
    BY <1>0, <1>2, <1>b, <2>1 DEF SweepBegin, SweepInv, KnownInv, Idle, Age
<1>3. CASE SweepEmpty
  BY <1>0, <1>3, <1>b DEF SweepEmpty, SweepInv, Idle
<1>4. ASSUME NEW a \in Aircraft, Transmit(a)
      PROVE  SweepInv'
  <2>1. \A x \in Aircraft : heard[x] <= heard'[x] /\ heard'[x] <= now
    BY <1>0, <1>4 DEF Transmit, SweepInv, TypeOK
  <2>2. \A x \in Aircraft : heard'[x] \in Nat
    BY DEF TypeOK, Time
  <2>3. QED
    BY <1>0, <1>4, <1>b, <2>1, <2>2 DEF Transmit, SweepInv, KnownInv, Age
<1>5. ASSUME NEW a \in Aircraft, ApplyUpdate(a)
      PROVE  SweepInv'
  <2> DEFINE silence == ReportedSilence(ReportedAge(a))
  <2>1. /\ silence \in Nat /\ now - silence \in Nat /\ silence <= now
        /\ IF ReportsAge THEN now - silence = heard[a] ELSE silence = 0
    BY SilenceType DEF Time
  <2>2. /\ todo = {} /\ removed = {} /\ todo' = {} /\ removed' = {}
        /\ UNCHANGED <<now, heard, lastSweep, gone>>
    BY <1>5 DEF ApplyUpdate, Idle
  <2>3. /\ aircraft'[a].last = now - silence
        /\ \A x \in Aircraft \ {a} : aircraft'[x] = aircraft[x]
        /\ a \in Known \/ silence < RemoveS
    <3>1. CASE Appear(a, silence)
      BY <3>1 DEF Appear, TypeOK
    <3>2. CASE Merge(a, silence)
      <4>1. aircraft[a] \in Records
        BY <3>2, KnownRecord DEF Merge
      <4>2. QED
        BY <3>2, <4>1 DEF Merge, TypeOK, Records
    <3>3. QED
      BY <1>5, <3>1, <3>2 DEF ApplyUpdate
  <2>4. \A x \in Known' : x # a => x \in Known
    BY <2>3 DEF Known
  <2>5. ASSUME NEW x \in Known'
        PROVE  KnownInv(x)'
    <3>1. CASE x # a
      BY <1>0, <1>a, <2>2, <2>3, <2>4, <3>1 DEF KnownInv, Age
    <3>2. CASE x = a
      <4>1. lastSweep <= now /\ now <= lastSweep + SweepEvery
        BY DEF SweepInv
      <4>2. silence < RemoveS \/ (a \in Known /\ KnownInv(a))
        BY <1>0, <2>3
      <4>3. QED
        BY <1>0, <2>1, <2>2, <2>3, <3>2, <4>1, <4>2 DEF KnownInv, Age
    <3>3. QED
      BY <3>1, <3>2
  <2>6. QED
    BY <2>2, <2>5 DEF SweepInv, KnownInv
<1>6. ASSUME NEW a \in Aircraft, SweepExpire(a)
      PROVE  SweepInv'
  <2>1. \A x \in Known : KnownInv(x)'
    BY <1>0, <1>6 DEF SweepExpire, KnownInv, Age
  <2>2. QED
    BY <1>6, <1>b, <2>1 DEF SweepExpire, SweepInv, KnownInv
<1>7. ASSUME NEW a \in Aircraft, SweepMarkStale(a)
      PROVE  SweepInv'
  <2>1. a \in Known /\ now = lastSweep
    BY <1>7 DEF SweepMarkStale, SweepInv
  <2>2. aircraft[a] \in Records
    BY <2>1, KnownRecord
  <2>3. \A x \in Aircraft : aircraft'[x].last = aircraft[x].last /\ (x \in Known' <=> x \in Known)
    BY <1>7, <2>1, <2>2 DEF SweepMarkStale, TypeOK, Records, Known, NoRecord
  <2>4. \A x \in Known : KnownInv(x)'
    BY <1>0, <1>7, <2>1, <2>3 DEF SweepMarkStale, KnownInv, Age
  <2>5. Known' = Known
    BY <2>3 DEF Known
  <2>6. QED
    BY <1>7, <2>4, <2>5 DEF SweepMarkStale, SweepInv, KnownInv
<1>8. ASSUME NEW a \in Aircraft, SweepSkip(a)
      PROVE  SweepInv'
  <2>1. a \in Known /\ now = lastSweep /\ Age(a) < RemoveS
    BY <1>0, <1>8 DEF SweepSkip, SweepInv, Age
  <2>2. \A x \in Known : KnownInv(x)'
    BY <1>0, <1>8, <2>1 DEF SweepSkip, KnownInv, Age
  <2>3. QED
    BY <1>8, <1>b, <2>2 DEF SweepSkip, SweepInv, KnownInv
<1>9. ASSUME NEW a \in Aircraft, SweepRemove(a)
      PROVE  SweepInv'
  <2>1. a \in Known /\ Age(a) >= RemoveS
    BY <1>9 DEF SweepRemove, SweepInv
  <2>2. Known' = Known \ {a} /\ \A x \in Known' : aircraft'[x] = aircraft[x]
    BY <1>9 DEF SweepRemove, TypeOK, Known
  <2>3. \A x \in Known' : KnownInv(x)'
    BY <1>0, <1>9, <2>2 DEF SweepRemove, KnownInv, Age
  <2>4. \A x \in Aircraft : gone'[x] # -1 => now - gone'[x] >= RemoveS
    BY <1>0, <1>9, <2>1 DEF SweepRemove, TypeOK, SweepInv, Age
  <2>5. QED
    BY <1>9, <2>2, <2>3, <2>4 DEF SweepRemove, SweepInv, KnownInv
<1>10. ASSUME NEW c \in Consumers, Take(c)
       PROVE  SweepInv'
  BY <1>10, <1>b DEF Take, SweepInv, Age
<1>11. CASE UNCHANGED storeVars
  BY <1>11, <1>b DEF storeVars, SweepInv, Age
<1>12. QED
  BY <1>1, <1>2, <1>3, <1>4, <1>5, <1>6, <1>7, <1>8, <1>9, <1>10, <1>11
     DEF Next, StoreStep
-----------------------------------------------------------------------------
\* The inductive invariant of the registry: its types and what its sweep has
\* established hold in every reachable state (store._apply_update, store.sweep).
THEOREM StoreInvariant == Spec => [](TypeOK /\ SweepInv)
<1>1. Init => TypeOK /\ SweepInv
  <2> SUFFICES ASSUME Init PROVE TypeOK /\ SweepInv
    OBVIOUS
  <2>1. NewSubscription \in Subscriptions
    <3>1. <<>> \in Seq(Events)
      OBVIOUS
    <3>2. QED
      BY <3>1 DEF NewSubscription, Subscriptions
  <2>2. TypeOK
    BY <2>1, StoreAssumption DEF Init, TypeOK, Subscriptions, Time
  <2>3. Known = {} /\ \A a \in Aircraft : heard[a] <= now /\ gone[a] = -1
    BY StoreAssumption DEF Init, Known
  <2>4. QED
    BY <2>2, <2>3, StoreAssumption DEF Init, SweepInv
<1>2. TypeOK /\ SweepInv /\ [Next]_storeVars => (TypeOK /\ SweepInv)'
  BY TypeStep, SweepStep
<1>3. QED
  BY <1>1, <1>2, PTL DEF Spec

\* Type correctness of the registry and its subscriptions.
THEOREM TypeCorrect == Spec => []TypeOK
BY StoreInvariant, PTL

\* No ghosts, for all thresholds: an aircraft the decoder keeps listing is out
\* of the live set within remove_s plus one sweep interval of its last contact.
THEOREM NoGhostsCorrect == Spec => []NoGhosts
<1>1. TypeOK /\ SweepInv => NoGhosts
  <2> SUFFICES ASSUME TypeOK, SweepInv, ReportsAge, NEW a \in Known
               PROVE  now - heard[a] < RemoveS + SweepEvery
    BY DEF NoGhosts
  <2>1. /\ now \in Nat /\ heard[a] \in Nat /\ aircraft[a].last \in Nat
        /\ aircraft[a].last <= heard[a] /\ Age(a) < RemoveS + SweepEvery
    BY KnownRecord DEF TypeOK, Time, Records, SweepInv
  <2>2. QED
    BY <2>1, StoreAssumption DEF Age
<1>2. QED
  BY <1>1, StoreInvariant, PTL

\* A record called stale really has been silent for stale_s, although merges
\* re-date records in both directions (merge, mark_stale).
THEOREM StaleCorrect == Spec => []StaleMeansSilent
<1>1. Init => StaleMeansSilent
  BY DEF Init, StaleMeansSilent, Known
<1>2. ASSUME TypeOK, TypeOK', SweepInv, StaleMeansSilent, [Next]_storeVars
      PROVE  StaleMeansSilent'
  <2> USE StoreAssumption
  <2>0. now \in Nat /\ \A a \in Known : aircraft[a] \in Records /\ aircraft[a].last \in Nat
    BY <1>2, KnownRecord DEF TypeOK, Time, Records
  <2>1. CASE Tick
    BY <1>2, <2>0, <2>1 DEF Tick, StaleMeansSilent, Known, Age
  <2>2. ASSUME NEW a \in Aircraft, ApplyUpdate(a)
        PROVE  StaleMeansSilent'
    <3> DEFINE silence == ReportedSilence(ReportedAge(a))
    <3>1. silence \in Nat
      BY <1>2, SilenceType DEF Time
    <3>2. /\ aircraft'[a].last = now - silence
          /\ aircraft'[a].state = "stale" => silence >= StaleS
          /\ \A x \in Aircraft \ {a} : aircraft'[x] = aircraft[x]
      <4>1. CASE Appear(a, silence)
        BY <1>2, <4>1 DEF Appear, TypeOK
      <4>2. CASE Merge(a, silence)
        BY <1>2, <2>0, <3>1, <4>2 DEF Merge, TypeOK, Records
      <4>3. QED
        BY <1>2, <2>2, <4>1, <4>2 DEF ApplyUpdate
    <3>3. QED
      BY <1>2, <2>0, <2>2, <3>1, <3>2 DEF ApplyUpdate, StaleMeansSilent, Known, Age
  <2>3. ASSUME NEW a \in Aircraft, SweepMarkStale(a)
        PROVE  StaleMeansSilent'
    <3>1. a \in Known
      BY <1>2, <2>3 DEF SweepMarkStale, SweepInv
    <3>2. \A x \in Aircraft : aircraft'[x].last = aircraft[x].last
                             /\ (x # a => aircraft'[x] = aircraft[x])
      BY <1>2, <2>0, <2>3, <3>1 DEF SweepMarkStale, TypeOK, Records
    <3>3. QED
      BY <1>2, <2>0, <2>3, <3>1, <3>2 DEF SweepMarkStale, StaleMeansSilent, Known, Age
  <2>4. ASSUME NEW a \in Aircraft, SweepRemove(a)
        PROVE  StaleMeansSilent'
    BY <1>2, <2>4 DEF SweepRemove, StaleMeansSilent, TypeOK, Known, Age
  <2>5. ASSUME UNCHANGED <<now, aircraft>>
        PROVE  StaleMeansSilent'
    BY <1>2, <2>5 DEF StaleMeansSilent, Known, Age
  <2>6. QED
    BY <1>2, <2>1, <2>2, <2>3, <2>4, <2>5
       DEF Next, StoreStep, SweepBegin, SweepEmpty, Transmit, SweepExpire, SweepSkip, Take,
           storeVars
<1>3. QED
  BY <1>1, <1>2, StoreInvariant, PTL DEF Spec

\* No flapping, for all thresholds: an aircraft that was removed is admitted
\* again only after a contact newer than the one it left with.
THEOREM ReentryCorrect == Spec => ReentryNeedsContact
<1>1. ASSUME TypeOK, SweepInv, [Next]_storeVars, ReportsAge,
             NEW a \in Aircraft, a \notin Known, a \in Known'
      PROVE  heard[a] > gone[a]
  <2>1. ApplyUpdate(a)
    <3>1. \A x \in Aircraft : ApplyUpdate(x) => \A y \in Aircraft \ {x} : aircraft'[y] = aircraft[y]
      BY <1>1 DEF ApplyUpdate, Appear, Merge, TypeOK
    <3>2. \A x \in Aircraft : SweepMarkStale(x) => x \in Known /\ \A y \in Aircraft \ {x} : aircraft'[y] = aircraft[y]
      BY <1>1 DEF SweepMarkStale, TypeOK, SweepInv
    <3>3. \A x \in Aircraft : SweepRemove(x) => \A y \in Aircraft : aircraft'[y] = aircraft[y] \/ aircraft'[y] = NoRecord
      BY <1>1 DEF SweepRemove, TypeOK
    <3>4. aircraft'[a] # NoRecord /\ aircraft[a] = NoRecord
      BY <1>1 DEF Known
    <3>5. QED
      BY <1>1, <3>1, <3>2, <3>3, <3>4
         DEF Next, StoreStep, Tick, SweepBegin, SweepEmpty, Transmit, SweepExpire, SweepSkip,
             Take, storeVars
  <2> DEFINE silence == ReportedSilence(ReportedAge(a))
  <2>2. silence < RemoveS
    BY <1>1, <2>1 DEF ApplyUpdate, Appear, Merge
  <2>3. silence \in Nat /\ now - silence = heard[a] /\ now \in Nat /\ heard[a] \in Nat
    BY <1>1, SilenceType DEF TypeOK, Time
  <2>4. gone[a] = -1 \/ (gone[a] \in Nat /\ now - gone[a] >= RemoveS)
    BY <1>1 DEF TypeOK, Time, SweepInv
  <2>5. QED
    BY <2>2, <2>3, <2>4, StoreAssumption
<1>2. TypeOK /\ SweepInv /\ [Next]_storeVars
        => [ReportsAge => \A a \in Aircraft :
              a \notin Known /\ a \in Known' => heard[a] > gone[a]]_storeVars
  BY <1>1
<1>3. QED
  BY <1>2, StoreInvariant, PTL DEF Spec, ReentryNeedsContact
-----------------------------------------------------------------------------
\* The feed sees an aircraft exactly while the registry has a record of it.
LEMMA FeedPresent ==
  ASSUME TypeOK
  PROVE  /\ Feed!Present = Known
         /\ \A a \in Known : FeedLive[a] = [first |-> aircraft[a].first, last |-> aircraft[a].last]
<1>1. \A a \in Known : a \in Aircraft /\ aircraft[a].first # -1
  BY KnownRecord DEF Records, Time
<1>2. QED
  BY <1>1 DEF Feed!Present, Feed!NotLive, FeedLive, Known

\* One step of the registry is one step of the feed, or none.
LEMMA FeedStep ==
  ASSUME TypeOK, TypeOK', SweepInv, [Next]_storeVars
  PROVE  [Feed!FeedNext]_(Feed!feedVars)
<1> USE StoreAssumption
<1>0. Feed!Present = Known /\ \A a \in Known : a \in Aircraft /\ aircraft[a] \in Records
  BY FeedPresent, KnownRecord
<1>1. CASE Tick
  <2>1. FeedLive' = FeedLive
    BY <1>1 DEF Tick, FeedLive, Known
  <2>2. Feed!Tick
    BY <1>1, <2>1 DEF Tick, Feed!Tick
  <2>3. QED
    BY <2>2 DEF Feed!FeedNext
<1>2. ASSUME NEW a \in Aircraft, ApplyUpdate(a)
      PROVE  Feed!FeedNext
  <2> DEFINE silence == ReportedSilence(ReportedAge(a))
             seen == [first |-> IF a \in Known THEN FeedLive[a].first ELSE now - silence,
                      last  |-> now - silence]
  <2>1. silence \in 0..now /\ now - silence \in Time
    BY SilenceType DEF Time, TypeOK
  <2>2. CASE Appear(a, silence)
    <3> DEFINE r == [first |-> now - silence, last |-> now - silence, state |-> "live"]
    <3>1. a \notin Known /\ silence < RemoveS /\ aircraft' = [aircraft EXCEPT ![a] = r]
          /\ Publish(Event("appeared", a, r)) /\ now' = now
      BY <1>2, <2>2 DEF Appear, ApplyUpdate
    <3>2. FeedLive' = [FeedLive EXCEPT ![a] = seen]
      <4>1. r # NoRecord
        BY DEF NoRecord
      <4>2. Known' = Known \cup {a}
        BY <3>1, <4>1 DEF Known, TypeOK
      <4>3. QED
        BY <3>1, <4>2 DEF FeedLive, TypeOK
    <3>3. Feed!Publish(Feed!Event("appeared", a, seen))
      BY <3>1 DEF Publish, Event, Feed!Publish, Feed!Event, Deliver, Feed!Deliver
    <3>4. Feed!Observe(a, silence)
      BY <1>0, <3>1, <3>2, <3>3 DEF Feed!Observe
    <3>5. QED
      BY <2>1, <3>4 DEF Feed!FeedNext
  <2>3. CASE Merge(a, silence)
    <3> DEFINE r == [aircraft[a] EXCEPT !.last  = now - silence,
                               !.state = IF silence < StaleS THEN "live" ELSE @]
    <3>1. a \in Known /\ aircraft' = [aircraft EXCEPT ![a] = r]
          /\ Publish(Event("updated", a, r)) /\ now' = now
      BY <1>2, <2>3 DEF Merge, ApplyUpdate
    <3>2. /\ r \in Records /\ r.first = aircraft[a].first /\ r.last = now - silence
          /\ FeedLive[a].first = aircraft[a].first
      BY <1>0, <2>1, <3>1 DEF Records, LiveState, FeedLive
    <3>3. FeedLive' = [FeedLive EXCEPT ![a] = seen]
      <4>1. Known' = Known
        BY <3>1, <3>2, RecordIsRecord DEF Known, TypeOK
      <4>2. QED
        BY <3>1, <3>2, <4>1, ZenonT(30) DEF FeedLive, TypeOK
    <3>4. Feed!Publish(Feed!Event("updated", a, seen))
      BY <3>1, <3>2 DEF Publish, Event, Feed!Publish, Feed!Event, Deliver, Feed!Deliver
    <3>5. Feed!Observe(a, silence)
      BY <1>0, <3>1, <3>3, <3>4 DEF Feed!Observe
    <3>6. QED
      BY <2>1, <3>5 DEF Feed!FeedNext
  <2>4. QED
    BY <1>2, <2>2, <2>3 DEF ApplyUpdate
<1>3. ASSUME NEW a \in Aircraft, SweepMarkStale(a)
      PROVE  Feed!FeedNext
  <2>1. a \in Known
    BY <1>3 DEF SweepMarkStale, SweepInv
  <2>2. aircraft'[a].first = aircraft[a].first /\ aircraft'[a].last = aircraft[a].last
        /\ aircraft'[a].state = "stale"
    BY <1>0, <1>3, <2>1 DEF SweepMarkStale, TypeOK, Records
  <2>3. Known' = Known
    BY <1>3, <2>1, <2>2 DEF SweepMarkStale, Known, TypeOK, NoRecord
  <2>4. FeedLive' = FeedLive
    BY <1>3, <2>2, <2>3 DEF SweepMarkStale, FeedLive, TypeOK
  <2>5. FeedLive[a].first = aircraft[a].first /\ FeedLive[a].last = aircraft[a].last
    BY <2>1 DEF FeedLive
  <2>6. Feed!AnnounceStale(a)
    BY <1>0, <1>3, <2>1, <2>4, <2>5
       DEF SweepMarkStale, Publish, Event, Feed!AnnounceStale, Feed!Publish, Feed!Event, Deliver, Feed!Deliver
  <2>7. QED
    BY <2>6 DEF Feed!FeedNext
<1>4. ASSUME NEW a \in Aircraft, SweepRemove(a)
      PROVE  Feed!FeedNext
  <2>1. a \in Known /\ Age(a) >= RemoveS
    BY <1>4 DEF SweepRemove, SweepInv
  <2>2. Known' = Known \ {a}
    BY <1>4 DEF SweepRemove, Known, TypeOK
  <2>3. FeedLive' = [FeedLive EXCEPT ![a] = Feed!NotLive]
    BY <1>4, <2>2 DEF SweepRemove, FeedLive, TypeOK, Feed!NotLive
  <2>4. FeedLive[a].first = aircraft[a].first /\ FeedLive[a].last = aircraft[a].last
    BY <2>1 DEF FeedLive
  <2>5. Feed!Leave(a)
    BY <1>0, <1>4, <2>1, <2>3, <2>4
       DEF SweepRemove, Publish, Event, Age, Feed!Leave, Feed!Publish, Feed!Event, Deliver, Feed!Deliver
  <2>6. QED
    BY <2>5 DEF Feed!FeedNext
<1>5. ASSUME NEW c \in Consumers, Take(c)
      PROVE  Feed!FeedNext
  <2>1. FeedLive' = FeedLive
    BY <1>5 DEF Take, FeedLive, Known
  <2>2. Feed!Take(c)
    BY <1>5, <2>1 DEF Take, Feed!Take, NewSubscription, Drained, Acknowledged,
                      Feed!NewSubscription, Feed!Drained, Feed!Acknowledged
  <2>3. QED
    BY <2>2 DEF Feed!FeedNext
<1>6. ASSUME UNCHANGED <<now, aircraft, sub>>
      PROVE  UNCHANGED Feed!feedVars
  BY <1>6 DEF Feed!feedVars, FeedLive, Known
<1>7. QED
  BY <1>1, <1>2, <1>3, <1>4, <1>5, <1>6
     DEF Next, StoreStep, SweepBegin, SweepEmpty, Transmit, SweepExpire, SweepSkip, storeVars

\* The registry, its thresholds and its sweep implement what consumers are
\* promised: presence, first and last observation, one event per change.
THEOREM Refinement == Spec => ImplementsFeed
<1>1. Init => Feed!FeedInit
  BY DEF Init, Feed!FeedInit, FeedLive, Known, Feed!NotLive, NewSubscription,
         Feed!NewSubscription
<1>2. TypeOK /\ SweepInv /\ TypeOK' /\ [Next]_storeVars => [Feed!FeedNext]_(Feed!feedVars)
  BY FeedStep
<1>3. QED
  BY <1>1, <1>2, StoreInvariant, PTL DEF Spec, ImplementsFeed, Feed!FeedSpec
-----------------------------------------------------------------------------
(* The last event about an aircraft agrees with the registry.              *)

\* What one subscription's queue promises, given who is known.
QueueAgrees(q, known) ==
  /\ Len(q) <= QueueSize
  /\ \A i \in 1..Len(q) :
       (\A j \in (i + 1)..Len(q) : q[j].icao # q[i].icao)
         => (q[i].kind = "removed" <=> q[i].icao \notin known)

\* Shedding the oldest event takes nothing from what the others say
\* (events.deliver, the QueueFull branch).
LEMMA TailAgrees ==
  ASSUME NEW q \in Seq(Events), NEW known, q # <<>>, QueueAgrees(q, known)
  PROVE  /\ QueueAgrees(Tail(q), known) /\ Len(Tail(q)) = Len(q) - 1
         /\ Tail(q) \in Seq(Events)
<1> DEFINE t == Tail(q)
<1>1. /\ t \in Seq(Events) /\ Len(t) = Len(q) - 1 /\ Len(q) \in Nat /\ Len(t) \in Nat
      /\ \A i \in 1..Len(t) : t[i] = q[i + 1]
  OBVIOUS
<1> HIDE DEF t
<1>2. ASSUME NEW i \in 1..Len(t), \A j \in (i + 1)..Len(t) : t[j].icao # t[i].icao
      PROVE  t[i].kind = "removed" <=> t[i].icao \notin known
  <2>1. i + 1 \in 1..Len(q) /\ t[i] = q[i + 1]
    BY <1>1
  <2>2. ASSUME NEW j \in (i + 2)..Len(q) PROVE q[j].icao # q[i + 1].icao
    <3>1. j - 1 \in (i + 1)..Len(t) /\ j - 1 \in 1..Len(t) /\ (j - 1) + 1 = j
      BY <1>1
    <3>2. t[j - 1] = q[j]
      BY <1>1, <3>1
    <3>3. QED
      BY <1>2, <2>1, <3>1, <3>2
  <2>3. (i + 1) + 1 = i + 2
    OBVIOUS
  <2>4. QED
    BY <2>1, <2>2, <2>3 DEF QueueAgrees
<1>3. Len(t) <= QueueSize
  <2>1. Len(q) <= QueueSize
    BY DEF QueueAgrees
  <2>2. QED
    BY <1>1, <2>1, QueueSizeAssumption
<1>4. QueueAgrees(t, known)
  BY <1>2, <1>3, ZenonT(30) DEF QueueAgrees
<1>5. QED
  BY <1>1, <1>4 DEF t

\* An event that tells what became of its aircraft, behind a queue that agrees.
LEMMA AppendAgrees ==
  ASSUME NEW q \in Seq(Events), NEW e \in Events, NEW before, NEW after,
         QueueAgrees(q, before), Len(q) < QueueSize,
         e.kind = "removed" <=> e.icao \notin after,
         \A a \in Aircraft : a # e.icao => (a \in before <=> a \in after)
  PROVE  QueueAgrees(Append(q, e), after)
<1> DEFINE p == Append(q, e)
<1>1. /\ Len(q) \in Nat /\ Len(p) = Len(q) + 1 /\ p[Len(q) + 1] = e
      /\ \A i \in 1..Len(q) : p[i] = q[i] /\ q[i] \in Events
  OBVIOUS
<1>e. \A x \in Events : x.icao \in Aircraft
  BY DEF Events
<1> HIDE DEF p
<1>2. ASSUME NEW i \in 1..Len(p), \A j \in (i + 1)..Len(p) : p[j].icao # p[i].icao
      PROVE  p[i].kind = "removed" <=> p[i].icao \notin after
  <2>1. CASE i = Len(q) + 1
    BY <1>1, <2>1
  <2>2. CASE i # Len(q) + 1
    <3>1. i \in 1..Len(q) /\ Len(q) + 1 \in (i + 1)..Len(p)
      BY <1>1, <2>2
    <3>2. p[i] = q[i] /\ q[i].icao # e.icao /\ q[i].icao \in Aircraft
      BY <1>1, <1>2, <1>e, <3>1
    <3>3. \A j \in (i + 1)..Len(q) : q[j].icao # q[i].icao
      <4>1. \A j \in (i + 1)..Len(q) : j \in (i + 1)..Len(p) /\ j \in 1..Len(q)
        BY <1>1, <3>1
      <4>2. QED
        BY <1>1, <1>2, <3>2, <4>1
    <3>4. q[i].kind = "removed" <=> q[i].icao \notin before
      BY <3>1, <3>3 DEF QueueAgrees
    <3>5. QED
      BY <3>2, <3>4
  <2>3. QED
    BY <2>1, <2>2
<1>3. Len(p) <= QueueSize
  BY <1>1, QueueSizeAssumption
<1>4. QED
  BY <1>2, <1>3 DEF QueueAgrees, p

\* deliver keeps the promise, whether or not the queue is full.
LEMMA DeliverAgrees ==
  ASSUME NEW s \in Subscriptions, NEW e \in Events, NEW before, NEW after,
         QueueAgrees(s.queue, before),
         e.kind = "removed" <=> e.icao \notin after,
         \A a \in Aircraft : a # e.icao => (a \in before <=> a \in after)
  PROVE  QueueAgrees(Deliver(s, e).queue, after)
<1>0. s.queue \in Seq(Events) /\ Len(s.queue) \in Nat /\ Len(s.queue) <= QueueSize
  BY DEF Subscriptions, QueueAgrees
<1>1. CASE Len(s.queue) < QueueSize
  <2>1. Deliver(s, e).queue = Append(s.queue, e)
    BY <1>1 DEF Deliver, Subscriptions
  <2>2. QED
    BY <1>0, <1>1, <2>1, AppendAgrees
<1>2. CASE ~(Len(s.queue) < QueueSize)
  <2>1. Deliver(s, e).queue = Append(Tail(s.queue), e)
    BY <1>2 DEF Deliver
  <2>2. s.queue # <<>>
    BY <1>0, <1>2, QueueSizeAssumption
  <2>3. /\ QueueAgrees(Tail(s.queue), before) /\ Len(Tail(s.queue)) = Len(s.queue) - 1
        /\ Tail(s.queue) \in Seq(Events)
    BY <1>0, <2>2, TailAgrees
  <2>4. Len(Tail(s.queue)) < QueueSize
    BY <1>0, <2>3, QueueSizeAssumption
  <2> DEFINE t == Tail(s.queue)
  <2>5. t \in Seq(Events) /\ QueueAgrees(t, before) /\ Len(t) < QueueSize
    BY <2>3, <2>4
  <2> HIDE DEF t
  <2>6. QueueAgrees(Append(t, e), after)
    BY <2>5, AppendAgrees
  <2>7. QED
    BY <2>1, <2>6 DEF t
<1>3. QED
  BY <1>1, <1>2

\* A step that publishes an event telling what became of its aircraft, and
\* changes nobody else's presence.
LEMMA PublishAgrees ==
  ASSUME TypeOK, LastEventAgrees, NEW e \in Events, Publish(e),
         e.kind = "removed" <=> e.icao \notin Known',
         \A a \in Aircraft : a # e.icao => (a \in Known <=> a \in Known')
  PROVE  LastEventAgrees'
<1> DEFINE after == Known'
<1>1. ASSUME NEW c \in Consumers
      PROVE  sub'[c] = Deliver(sub[c], e) /\ sub[c] \in Subscriptions /\ QueueAgrees(sub[c].queue, Known)
  BY DEF TypeOK, Publish, Subscriptions, LastEventAgrees, QueueAgrees
<1> HIDE DEF after
<1>2. e.kind = "removed" <=> e.icao \notin after
  BY DEF after
<1>3. \A a \in Aircraft : a # e.icao => (a \in Known <=> a \in after)
  BY DEF after
<1>4. \A c \in Consumers : QueueAgrees(Deliver(sub[c], e).queue, after)
  BY <1>1, <1>2, <1>3, DeliverAgrees
<1>5. \A c \in Consumers : QueueAgrees(sub'[c].queue, after)
  BY <1>1, <1>4
<1>6. QED
  BY <1>5 DEF LastEventAgrees, QueueAgrees, after

\* Every step keeps the promise: each publishing step publishes after it has
\* changed the registry, and says what it did.
LEMMA AgreesStep ==
  ASSUME TypeOK, TypeOK', SweepInv, LastEventAgrees, [Next]_storeVars
  PROVE  LastEventAgrees'
<1>0. /\ aircraft \in [Aircraft -> Records \cup {NoRecord}]
      /\ Known = {a \in Aircraft : aircraft[a] # NoRecord}
      /\ Known' = {a \in Aircraft : aircraft'[a] # NoRecord}
  BY DEF TypeOK, Known
<1>1. ASSUME UNCHANGED <<sub, aircraft>> PROVE LastEventAgrees'
  BY <1>1 DEF LastEventAgrees, Known
<1>2. Tick \/ SweepBegin \/ SweepEmpty \/ UNCHANGED storeVars => UNCHANGED <<sub, aircraft>>
  BY DEF Tick, SweepBegin, SweepEmpty, storeVars
<1>3. ASSUME NEW a \in Aircraft, Transmit(a) \/ SweepExpire(a) \/ SweepSkip(a)
      PROVE  UNCHANGED <<sub, aircraft>>
  BY <1>3 DEF Transmit, SweepExpire, SweepSkip
<1>4. ASSUME NEW a \in Aircraft, ApplyUpdate(a) PROVE LastEventAgrees'
  <2> DEFINE silence == ReportedSilence(ReportedAge(a))
  <2>1. silence \in Time /\ now - silence \in Time
    BY SilenceType
  <2>2. CASE Appear(a, silence)
    <3> DEFINE r == [first |-> now - silence, last |-> now - silence, state |-> "live"]
               e == Event("appeared", a, r)
    <3>1. aircraft' = [aircraft EXCEPT ![a] = r] /\ Publish(e)
      BY <2>2 DEF Appear
    <3>2. r \in Records /\ e \in Events /\ e.kind = "appeared" /\ e.icao = a
      BY <2>1, EventType DEF Records, LiveState, Kinds, Event
    <3> HIDE DEF r, e
    <3>3. a \in Known' /\ \A x \in Aircraft : x # a => (x \in Known <=> x \in Known')
      BY <1>0, <3>1, <3>2, RecordIsRecord
    <3>4. QED
      BY <3>1, <3>2, <3>3, PublishAgrees
  <2>3. CASE Merge(a, silence)
    <3> DEFINE r == [aircraft[a] EXCEPT !.last  = now - silence,
                                        !.state = IF silence < StaleS THEN "live" ELSE @]
               e == Event("updated", a, r)
    <3>1. aircraft' = [aircraft EXCEPT ![a] = r] /\ Publish(e)
      BY <2>3 DEF Merge
    <3>2. aircraft[a] \in Records
      BY <2>3, KnownRecord DEF Merge
    <3>3. r \in Records
      BY <2>1, <3>2 DEF Records, LiveState
    <3>4. e \in Events /\ e.kind = "updated" /\ e.icao = a
      BY <3>3, EventType DEF Kinds, Event
    <3> HIDE DEF r, e
    <3>5. a \in Known' /\ \A x \in Aircraft : x # a => (x \in Known <=> x \in Known')
      BY <1>0, <3>1, <3>3, RecordIsRecord
    <3>6. QED
      BY <3>1, <3>4, <3>5, PublishAgrees
  <2>4. QED
    BY <1>4, <2>2, <2>3 DEF ApplyUpdate
<1>5. ASSUME NEW a \in Aircraft, SweepMarkStale(a) PROVE LastEventAgrees'
  <2> DEFINE r == [aircraft[a] EXCEPT !.state = "stale"]
             e == Event("stale", a, aircraft[a])
  <2>1. aircraft[a] \in Records
    BY <1>5, KnownRecord DEF SweepMarkStale, SweepInv
  <2>2. aircraft' = [aircraft EXCEPT ![a] = r] /\ Publish(e)
    BY <1>5 DEF SweepMarkStale
  <2>3. r \in Records
    BY <2>1 DEF Records, LiveState
  <2>4. e \in Events /\ e.kind = "stale" /\ e.icao = a
    BY <2>1, EventType DEF Kinds, Event
  <2> HIDE DEF r, e
  <2>5. a \in Known' /\ \A x \in Aircraft : x # a => (x \in Known <=> x \in Known')
    BY <1>0, <2>2, <2>3, RecordIsRecord
  <2>6. QED
    BY <2>2, <2>4, <2>5, PublishAgrees
<1>6. ASSUME NEW a \in Aircraft, SweepRemove(a) PROVE LastEventAgrees'
  <2> DEFINE e == Event("removed", a, aircraft[a])
  <2>1. aircraft[a] \in Records
    BY <1>6, KnownRecord DEF SweepRemove, SweepInv
  <2>2. aircraft' = [aircraft EXCEPT ![a] = NoRecord] /\ Publish(e)
    BY <1>6 DEF SweepRemove
  <2>3. e \in Events /\ e.kind = "removed" /\ e.icao = a
    BY <2>1, EventType DEF Kinds, Event
  <2> HIDE DEF e
  <2>4. a \notin Known' /\ \A x \in Aircraft : x # a => (x \in Known <=> x \in Known')
    BY <1>0, <2>2
  <2>5. QED
    BY <2>2, <2>3, <2>4, PublishAgrees
<1>7. ASSUME NEW c \in Consumers, Take(c) PROVE LastEventAgrees'
  <2>1. sub \in [Consumers -> Subscriptions] /\ sub[c] \in Subscriptions
    BY DEF TypeOK, Subscriptions
  <2>2. sub'[c].queue = <<>> /\ \A d \in Consumers : d # c => sub'[d] = sub[d]
    BY <1>7, <2>1 DEF Take, Acknowledged, Drained, Subscriptions
  <2>3. Known' = Known
    BY <1>7 DEF Take, Known
  <2>4. Len(<<>>) = 0 /\ 0 <= QueueSize
    BY QueueSizeAssumption
  <2>5. \A d \in Consumers : QueueAgrees(sub'[d].queue, Known)
    <3> SUFFICES ASSUME NEW d \in Consumers PROVE QueueAgrees(sub'[d].queue, Known)
      OBVIOUS
    <3>1. CASE d = c
      BY <2>2, <2>4, <3>1 DEF QueueAgrees
    <3>2. CASE d # c
      <4>1. QueueAgrees(sub[d].queue, Known)
        BY ZenonT(30) DEF LastEventAgrees, QueueAgrees
      <4>2. QED
        BY <2>2, <3>2, <4>1
    <3>3. QED
      BY <3>1, <3>2
  <2>6. QED
    BY <2>3, <2>5 DEF LastEventAgrees, QueueAgrees
<1>8. QED
  BY <1>1, <1>2, <1>3, <1>4, <1>5, <1>6, <1>7 DEF Next, StoreStep

\* A subscription never exceeds its bound, and the last event queued about an
\* aircraft says whether it is still there, however many older ones were shed
\* (events.deliver, store.sweep).
THEOREM LastEventCorrect == Spec => []LastEventAgrees
<1>1. Init => LastEventAgrees
  <2>1. Len(<<>>) = 0 /\ 0 <= QueueSize
    BY QueueSizeAssumption
  <2>2. QED
    BY <2>1 DEF Init, LastEventAgrees, NewSubscription
<1>2. TypeOK /\ TypeOK' /\ SweepInv /\ LastEventAgrees /\ [Next]_storeVars => LastEventAgrees'
  BY AgreesStep
<1>3. QED
  BY <1>1, <1>2, StoreInvariant, PTL DEF Spec
=============================================================================
