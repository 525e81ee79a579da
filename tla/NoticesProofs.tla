---------------------------- MODULE NoticesProofs ----------------------------
(***************************************************************************)
(* Proofs about what else tells the user something: the activity feed      *)
(* (activity/service.py) for any history of sightings, facts, failed       *)
(* passes, crashes and restarts; and the alert rules, templates and        *)
(* watchlists (alerts/service.py, alerts/templates.py,                     *)
(* watchlists/service.py) for any number of requests that interleave,      *)
(* fail or are lost with the process.                                      *)
(*                                                                         *)
(* The feed's promises are about its tables; what makes them inductive is  *)
(* what a pass carries between its awaits.  PassInv: from the reads on,    *)
(* the batch holds every event the ids up to the new watermark owe, every  *)
(* drained fact, and no event about an airframe heard before the first     *)
(* boot; from the commit on, all of it is on disk.  MarkInv: the durable   *)
(* watermark and the one in memory agree except between the watermark's    *)
(* write and the publication, and neither passes the ids there are, so a   *)
(* sighting that comes later is never behind them.  StageInv: what is      *)
(* pending is lost only where dLost says so.                               *)
(*                                                                         *)
(* The rules' promises are about rest; what makes them inductive is what a *)
(* request holds from read to write.  Alone: a request that met no other   *)
(* still holds what the tables say.  ForceInv: what is in force is what    *)
(* the tables say unless a request has written and not installed yet, or   *)
(* the last to install met another.  ConfigInv: a configured template has  *)
(* its rule, or was deleted, or was cut short, or some save still holds it.*)
(***************************************************************************)
EXTENDS AlertEngineProofs, AlertRules, ActivityFeed

\* Dedupe keys, and what a producer returns.
EventKeys == ({"first"} \X Airframes) \cup ({"unique"} \X Nat) \cup ({"type"} \X STRING) \cup {<<"military">>}
               \cup ({"longest"} \X Nat) \cup ({"range"} \X Nat) \cup ({"fact"} \X Nat)
Batches   == [events : SUBSET EventKeys, miles : SUBSET EventKeys]
Passes    == [closed : SUBSET Nat, facts : SUBSET (1 .. MaxGiven), batch : Batches, at : 0 .. MaxSeen,
              reach : 0 .. MaxRange, longest : 0 .. MaxSeen, made : SUBSET EventKeys]

\* FeedTypeOK and the types of what it leaves open.
FeedTypes ==
  /\ FeedTypeOK
  /\ Len(dSeen) <= MaxSeen /\ dImported \in BOOLEAN /\ dRange \in 0 .. MaxRange /\ dGiven \in 0 .. MaxGiven
  /\ {dUp, dFinal} \subseteq BOOLEAN /\ dPass \in Passes /\ dPass.closed \subseteq Ids
  /\ dFeed \subseteq EventKeys /\ dMiles \subseteq EventKeys /\ dClaimed \subseteq EventKeys
  /\ dFrom \in 0 .. MaxSeen
  /\ dLongest <= Len(dSeen) /\ dPass.longest <= Len(dSeen)

Reading  == dPc \in {"write", "mark", "publish"}     \* the pass has read
Committed == dPc \in {"mark", "publish"}              \* ... and committed

StageInv ==
  /\ dUp <=> dPc # "off"
  /\ dFinal => dUp
  /\ dPc \in {"off", "idle"} => dPass = NoPass
  /\ dPc \in {"read", "write"} => dPass.made = {}
  /\ ~dUp => dFacts \subseteq dLost
  /\ dFinal /\ dPc # "idle" => dFacts = {}

MarkInv ==
  /\ dMark <= Len(dSeen) /\ dAt <= Len(dSeen)
  /\ dMark = -1 => ~dUp /\ dFeed = {}
  /\ dMark # -1 => dFrom <= dMark
  /\ dUp => dFrom <= dAt /\ dMark = IF dPc = "publish" THEN dPass.at ELSE dAt
  /\ Reading => dAt <= dPass.at /\ dPass.at <= Len(dSeen)

\* What sighting i owes the feed is among the events.
Announced(i, events) ==
  /\ <<"first", dSeen[i].frame>> \in events
  /\ RankOf(i) \in Thresholds => <<"unique", RankOf(i)>> \in events

\* Airframe f was first heard after the first boot.
News(f) == \E i \in Ids : dFrom < i /\ FirstEver(i) /\ dSeen[i].frame = f

PassInv ==
  /\ Reading => /\ \A i \in Ids : dAt < i /\ i <= dPass.at /\ FirstEver(i) => Announced(i, dPass.batch.events)
                /\ \A f \in dPass.facts : <<"fact", f>> \in dPass.batch.events
                /\ dPass.batch.miles \subseteq dPass.batch.events
                /\ \A f \in Airframes : <<"first", f>> \in dPass.batch.events => News(f)
  /\ Committed => dPass.batch.events \subseteq dFeed /\ dPass.batch.miles \subseteq dMiles
  /\ \A f \in Airframes : <<"first", f>> \in dFeed => News(f)

\* What the feed holds was broadcast, never will be, or is about to be.
ShownInv == dFeed = dShown \cup dSilent \cup dPass.made /\ dPass.made \cap dShown = {}

FeedInv == FeedTypes /\ StageInv /\ MarkInv /\ PassInv /\ ShownInv /\ ScannedIsInFeed /\ MilestoneHasEvent /\ FactsKept
-----------------------------------------------------------------------------
\* Blank values are values of their types.
LEMMA BlankPass == NoBatch \in Batches /\ NoPass \in Passes
<1>1. NoBatch \in Batches
  BY DEF NoBatch, Batches
<1>2. 0 \in 0 .. MaxSeen /\ 0 \in 0 .. MaxRange
  BY FeedConstants
<1>3. QED
  BY <1>1, <1>2 DEF NoPass, Passes

\* The ids are 1 up to the newest.
LEMMA IdsAre ==
  ASSUME FeedTypes
  PROVE  /\ Ids = 1 .. Len(dSeen) /\ Len(dSeen) \in 0 .. MaxSeen
         /\ \A i \in Ids : /\ i \in 1 .. MaxSeen /\ dSeen[i].frame \in Airframes
                           /\ dSeen[i].length \in 0 .. MaxLength
<1> DEFINE Sightings == [frame : Airframes, length : 0 .. MaxLength]
<1>1. dSeen \in Seq(Sightings) /\ Len(dSeen) <= MaxSeen
  BY DEF FeedTypes, FeedTypeOK
<1>2. /\ Ids = 1 .. Len(dSeen) /\ Len(dSeen) \in Nat
      /\ \A i \in 1 .. Len(dSeen) : dSeen[i] \in Sightings
  <2> HIDE DEF Sightings
  <2>1. QED
    BY <1>1 DEF Ids
<1>3. QED
  BY <1>1, <1>2, FeedConstants

\* How many airframes had been heard by then.
LEMMA RankTypes ==
  ASSUME FeedTypes, NEW i \in Ids
  PROVE  RankOf(i) \in Nat
<1> DEFINE upto == {k \in Ids : k <= i}
           frames == {dSeen[j].frame : j \in upto}
<1>1. IsFiniteSet(1 .. Len(dSeen))
  BY IdsAre, FS_Interval
<1>2. IsFiniteSet(upto)
  <2>1. upto \subseteq 1 .. Len(dSeen)
    BY IdsAre
  <2>2. QED
    BY <1>1, <2>1, FS_Subset
<1>3. IsFiniteSet(frames)
  <2> DEFINE frameOf == [j \in upto |-> dSeen[j].frame]
  <2>1. frameOf \in [upto -> frames] /\ \A x \in frames : \E j \in upto : frameOf[j] = x
    OBVIOUS
  <2> HIDE DEF upto, frames, frameOf
  <2>2. frameOf \in Surjection(upto, frames)
    BY <2>1 DEF Surjection
  <2>3. QED
    BY <1>2, <2>2, FS_Surjection
<1>4. Cardinality(frames) \in Nat
  <2> HIDE DEF frames
  <2>1. QED
    BY <1>3, FS_CardinalityType
<1>5. QED
  BY <1>4 DEF RankOf

\* _detect merges the producers' batches.
LEMMA JoinIs ==
  ASSUME NEW b \in Batches, NEW c \in Batches
  PROVE  /\ Join(b, c) \in Batches
         /\ Join(b, c).events = b.events \cup c.events /\ Join(b, c).miles = b.miles \cup c.miles
BY DEF Join, Batches

\* A batch of a producer that speaks of no airframe's first sighting.
Aside(b) == b \in Batches /\ b.miles \subseteq b.events /\ \A f \in Airframes : <<"first", f>> \notin b.events

\* first_ever_events: for each new airframe its event, and the threshold it crosses.
LEMMA FirstEverIs ==
  ASSUME FeedTypes, NEW fresh \in SUBSET Ids
  PROVE  /\ FirstEverEvents(fresh) \in Batches
         /\ FirstEverEvents(fresh).miles \subseteq FirstEverEvents(fresh).events
         /\ \A i \in fresh : FirstEver(i) => Announced(i, FirstEverEvents(fresh).events)
         /\ \A f \in Airframes : <<"first", f>> \in FirstEverEvents(fresh).events
              => \E i \in fresh : FirstEver(i) /\ dSeen[i].frame = f
<1> DEFINE new  == {i \in fresh : FirstEver(i)}
           keys == {<<"unique", RankOf(i)>> : i \in {j \in new : RankOf(j) \in Thresholds}}
           firsts == {<<"first", dSeen[i].frame>> : i \in new}
<1>1. FirstEverEvents(fresh).events = firsts \cup keys /\ FirstEverEvents(fresh).miles = keys
      /\ FirstEverEvents(fresh) = [events |-> firsts \cup keys, miles |-> keys]
  BY DEF FirstEverEvents
<1>2. keys \subseteq EventKeys
  BY RankTypes DEF EventKeys
<1>3. firsts \subseteq EventKeys
  BY IdsAre DEF EventKeys
<1>4. FirstEverEvents(fresh) \in Batches
  <2> HIDE DEF keys, firsts
  <2>1. QED
    BY <1>1, <1>2, <1>3 DEF Batches
<1>5. ASSUME NEW i \in fresh, FirstEver(i)
      PROVE  Announced(i, FirstEverEvents(fresh).events)
  <2>1. <<"first", dSeen[i].frame>> \in firsts
    BY <1>5
  <2>2. RankOf(i) \in Thresholds => <<"unique", RankOf(i)>> \in keys
    BY <1>5
  <2> HIDE DEF keys, firsts
  <2>3. QED
    BY <1>1, <2>1, <2>2 DEF Announced
<1>6. ASSUME NEW f \in Airframes, <<"first", f>> \in FirstEverEvents(fresh).events
      PROVE  \E i \in fresh : FirstEver(i) /\ dSeen[i].frame = f
  <2>1. <<"first", f>> \notin keys
    OBVIOUS
  <2>2. <<"first", f>> \in firsts
    <3> HIDE DEF keys, firsts
    <3>1. QED
      BY <1>1, <1>6, <2>1
  <2>3. PICK i \in new : <<"first", f>> = <<"first", dSeen[i].frame>>
    BY <2>2
  <2>4. dSeen[i].frame = f
    BY <2>3
  <2>5. QED
    BY <2>4
<1>7. QED
  BY <1>1, <1>4, <1>5, <1>6

\* A nonempty set of natural numbers has a least element.
LEMMA MinExists ==
  ASSUME NEW T, T \subseteq Nat, T # {}
  PROVE  \E x \in T : \A y \in T : x <= y
<1> DEFINE R == StrictSubsetOrdering(Nat)
           I == {0..n : n \in T}
<1>1. IsWellFoundedOn(R, FiniteSubsetsOf(Nat))
  BY FS_StrictSubsetOrderingWellFounded
<1>2. I \subseteq FiniteSubsetsOf(Nat) /\ I # {}
  <2>1. \A n \in Nat : IsFiniteSet(0..n)
    BY FS_Interval
  <2>2. \A n \in Nat : 0..n \in FiniteSubsetsOf(Nat)
    BY <2>1 DEF FiniteSubsetsOf
  <2>3. \A s \in I : s \in FiniteSubsetsOf(Nat)
    BY <2>2
  <2>4. PICK n \in T : TRUE
    OBVIOUS
  <2>5. 0..n \in I
    BY <2>4
  <2>6. QED
    BY <2>3, <2>5
<1>3. \E x \in I : \A y \in I : ~(<<y, x>> \in R)
  <2> HIDE DEF R, I
  <2>1. QED
    BY <1>1, <1>2, WFMin
<1>4. PICK n \in T : \A y \in I : ~(<<y, 0..n>> \in R)
  BY <1>3
<1>5. ASSUME NEW y \in T, y < n
      PROVE  FALSE
  <2>1. <<0..y, 0..n>> \in R
    BY <1>5 DEF StrictSubsetOrdering
  <2>2. QED
    BY <1>4, <2>1
<1>6. QED
  BY <1>5

\* The longest of some sightings' lengths is one of them.
LEMMA BestIs ==
  ASSUME FeedTypes, NEW seen \in SUBSET Ids, NEW previous \in 0 .. Len(dSeen)
  PROVE  BestClosed(previous, seen) \in 0 .. Len(dSeen)
<1> DEFINE lengths == {Length(previous)} \cup {Length(i) : i \in seen}
           best == Max(lengths)
           those == {i \in seen : Length(i) = best}
<1>1. lengths \in SUBSET (0 .. MaxLength) /\ lengths # {}
  <2>1. \A i \in Ids \cup {0} : Length(i) \in 0 .. MaxLength
    BY IdsAre, FeedConstants DEF Length
  <2>2. previous \in Ids \cup {0}
    BY IdsAre
  <2>3. QED
    BY <2>1, <2>2
<1>2. best \in lengths
  <2> HIDE DEF lengths
  <2>1. PICK top \in lengths : \A x \in lengths : x <= top
    BY <1>1, MaxExists, FeedConstants
  <2>2. \A x \in lengths : x \in Int /\ x <= top
    BY <1>1, <2>1
  <2>3. Max(lengths) = top
    BY <2>2, MaxIs
  <2>4. QED
    BY <2>3
<1>3. CASE best = Length(previous)
  BY <1>3 DEF BestClosed
<1>4. CASE best # Length(previous)
  <2>1. those # {} /\ those \in SUBSET Nat
    <3>1. PICK i \in seen : Length(i) = best
      BY <1>2, <1>4
    <3>2. i \in those
      BY <3>1
    <3>3. seen \subseteq Nat
      BY IdsAre
    <3>4. QED
      BY <3>2, <3>3
  <2>2. PICK low \in those : \A x \in those : low <= x
    <3> HIDE DEF those
    <3>1. QED
      BY <2>1, MinExists
  <2>3. Min(those) \in those
    <3> HIDE DEF those
    <3>1. QED
      BY <2>2 DEF Min
  <2>4. BestClosed(previous, seen) = Min(those)
    BY <1>4 DEF BestClosed
  <2>5. QED
    BY <2>3, <2>4, IdsAre
<1>5. QED
  BY <1>3, <1>4

\* The producers besides first_ever_events.
LEMMA OthersAre ==
  ASSUME FeedTypes, NEW fresh \in SUBSET Ids, NEW seen \in SUBSET Ids
  PROVE  /\ Aside(NewTypeEvents(fresh)) /\ Aside(LongestEvent(dLongest, seen))
         /\ Aside(RecordEvents(dReach, dRange)) /\ Aside(FactEvents(dPass.facts)) /\ Aside(MilitaryMilestone(seen))
         /\ \A f \in dPass.facts : <<"fact", f>> \in FactEvents(dPass.facts).events
<1>1. Aside(NoBatch)
  BY BlankPass DEF Aside, NoBatch
<1>2. Aside(NewTypeEvents(fresh))
  <2> DEFINE keys == {<<"type", Type[dSeen[i].frame]>> : i \in {j \in fresh : dImported /\ FirstOfType(j)}}
  <2>1. keys \subseteq EventKeys
    BY IdsAre, FeedConstants DEF EventKeys
  <2>2. \A f \in Airframes : <<"first", f>> \notin keys
    OBVIOUS
  <2>3. NewTypeEvents(fresh) = [events |-> keys, miles |-> keys]
    BY DEF NewTypeEvents
  <2> HIDE DEF keys
  <2>4. QED
    BY <2>1, <2>2, <2>3 DEF Aside, Batches
<1>3. Aside(LongestEvent(dLongest, seen))
  <2> DEFINE best == BestClosed(dLongest, seen)
  <2>1. best \in Nat
    <3>1. dLongest \in 0 .. Len(dSeen)
      BY IdsAre DEF FeedTypes, FeedTypeOK
    <3>2. QED
      BY <3>1, BestIs, IdsAre
  <2>2. LongestEvent(dLongest, seen) \in {NoBatch, [events |-> {<<"longest", best>>}, miles |-> {}]}
    BY DEF LongestEvent
  <2> HIDE DEF best
  <2>3. Aside([events |-> {<<"longest", best>>}, miles |-> {}])
    BY <2>1 DEF Aside, Batches, EventKeys
  <2>4. QED
    BY <1>1, <2>2, <2>3
<1>4. Aside(RecordEvents(dReach, dRange))
  <2>1. dRange \in Nat
    BY FeedConstants DEF FeedTypes
  <2>2. Aside([events |-> {<<"range", dRange>>}, miles |-> {}])
    BY <2>1 DEF Aside, Batches, EventKeys
  <2>3. QED
    BY <1>1, <2>2 DEF RecordEvents
<1>5. Aside(FactEvents(dPass.facts)) /\ \A f \in dPass.facts : <<"fact", f>> \in FactEvents(dPass.facts).events
  <2> DEFINE keys == {<<"fact", f>> : f \in dPass.facts}
  <2>1. dPass.facts \subseteq Nat
    BY FeedConstants DEF FeedTypes, Passes
  <2>2. keys \subseteq EventKeys
    BY <2>1 DEF EventKeys
  <2>3. \A f \in Airframes : <<"first", f>> \notin keys
    OBVIOUS
  <2>4. FactEvents(dPass.facts) = [events |-> keys, miles |-> {}] /\ \A f \in dPass.facts : <<"fact", f>> \in keys
    BY DEF FactEvents
  <2> HIDE DEF keys
  <2>5. QED
    BY <2>2, <2>3, <2>4 DEF Aside, Batches
<1>6. Aside(MilitaryMilestone(seen))
  <2>1. Aside([events |-> {<<"military">>}, miles |-> {<<"military">>}])
    BY DEF Aside, Batches, EventKeys
  <2>2. QED
    BY <1>1, <2>1 DEF MilitaryMilestone
<1>7. QED
  BY <1>2, <1>3, <1>4, <1>5, <1>6

\* _detect: every new airframe and every drained fact is in the batch, and only new airframes are.
LEMMA DetectIs ==
  ASSUME FeedTypes, NEW seen \in SUBSET Ids
  PROVE  /\ Detect(seen) \in Batches /\ Detect(seen).miles \subseteq Detect(seen).events
         /\ \A i \in seen : dAt < i /\ FirstEver(i) => Announced(i, Detect(seen).events)
         /\ \A f \in dPass.facts : <<"fact", f>> \in Detect(seen).events
         /\ \A f \in Airframes : <<"first", f>> \in Detect(seen).events
              => \E i \in seen : dAt < i /\ FirstEver(i) /\ dSeen[i].frame = f
<1> DEFINE fresh == {i \in seen : i > dAt}
           done  == {i \in seen : Length(i) > 0}
           b1 == FirstEverEvents(fresh)             b2 == NewTypeEvents(fresh)
           b3 == LongestEvent(dLongest, done)       b4 == RecordEvents(dReach, dRange)
           b5 == FactEvents(dPass.facts)            b6 == MilitaryMilestone(seen)
<1>1. fresh \in SUBSET Ids /\ done \in SUBSET Ids /\ \A i \in fresh : i \in seen /\ dAt < i
  BY IdsAre DEF FeedTypes, FeedTypeOK
<1>2. \A i \in seen : dAt < i => i \in fresh
  BY IdsAre DEF FeedTypes, FeedTypeOK
<1> HIDE DEF fresh, done
<1>3. Aside(b2) /\ Aside(b3) /\ Aside(b4) /\ Aside(b5) /\ Aside(b6) /\ \A f \in dPass.facts : <<"fact", f>> \in b5.events
  BY <1>1, OthersAre
<1>4. /\ b1 \in Batches /\ b1.miles \subseteq b1.events
      /\ \A i \in fresh : FirstEver(i) => Announced(i, b1.events)
      /\ \A f \in Airframes : <<"first", f>> \in b1.events => \E i \in fresh : FirstEver(i) /\ dSeen[i].frame = f
  BY <1>1, FirstEverIs
<1>5. Detect(seen) = Join(Join(Join(b1, b2), Join(b3, b4)), Join(b5, b6))
  BY DEF Detect, fresh, done
<1> DEFINE all == Detect(seen)
<1> HIDE DEF b1, b2, b3, b4, b5, b6
<1>6. b2 \in Batches /\ b3 \in Batches /\ b4 \in Batches /\ b5 \in Batches /\ b6 \in Batches
  BY <1>3 DEF Aside
<1>7. /\ all \in Batches
      /\ all.events = ((b1.events \cup b2.events) \cup (b3.events \cup b4.events)) \cup (b5.events \cup b6.events)
      /\ all.miles = ((b1.miles \cup b2.miles) \cup (b3.miles \cup b4.miles)) \cup (b5.miles \cup b6.miles)
  <2>1. Join(b1, b2) \in Batches /\ Join(b3, b4) \in Batches /\ Join(b5, b6) \in Batches
    BY <1>4, <1>6, JoinIs
  <2>2. Join(Join(b1, b2), Join(b3, b4)) \in Batches
    BY <2>1, JoinIs
  <2>3. /\ all \in Batches
        /\ all.events = (Join(b1, b2).events \cup Join(b3, b4).events) \cup Join(b5, b6).events
        /\ all.miles = (Join(b1, b2).miles \cup Join(b3, b4).miles) \cup Join(b5, b6).miles
    BY <1>5, <2>1, <2>2, JoinIs
  <2>4. QED
    BY <1>4, <1>6, <2>3, JoinIs
<1> HIDE DEF all
<1>8. all.miles \subseteq all.events
  BY <1>3, <1>4, <1>7 DEF Aside
<1>9. \A i \in seen : dAt < i /\ FirstEver(i) => Announced(i, all.events)
  BY <1>2, <1>4, <1>7 DEF Announced
<1>10. \A f \in dPass.facts : <<"fact", f>> \in all.events
  BY <1>3, <1>7
<1>11. ASSUME NEW f \in Airframes, <<"first", f>> \in all.events
       PROVE  \E i \in seen : dAt < i /\ FirstEver(i) /\ dSeen[i].frame = f
  <2>1. <<"first", f>> \in b1.events
    BY <1>3, <1>7, <1>11 DEF Aside
  <2>2. QED
    BY <1>1, <1>4, <2>1
<1>12. QED
  BY <1>7, <1>8, <1>9, <1>10, <1>11 DEF all
-----------------------------------------------------------------------------
\* While no sighting is written, what the sightings say stays.
LEMMA SameSightings ==
  ASSUME UNCHANGED dSeen
  PROVE  /\ Ids' = Ids
         /\ \A i \in Ids : /\ FirstEver(i)' <=> FirstEver(i)
                           /\ RankOf(i)' = RankOf(i)
                           /\ dSeen'[i] = dSeen[i]
<1>1. Ids' = Ids
  BY DEF Ids
<1>2. ASSUME NEW i \in Ids
      PROVE  FirstEver(i)' <=> FirstEver(i)
  BY <1>1 DEF FirstEver
<1>3. ASSUME NEW i \in Ids
      PROVE  RankOf(i)' = RankOf(i)
  <2>1. {dSeen'[j].frame : j \in {k \in Ids' : k <= i}} = {dSeen[j].frame : j \in {k \in Ids : k <= i}}
    BY <1>1
  <2>2. QED
    BY <2>1 DEF RankOf
<1>4. QED
  BY <1>1, <1>2, <1>3

\* A sighting written later changes nothing the older ones say: they were there first.
LEMMA OlderStay ==
  ASSUME FeedTypes, Ids \subseteq Ids', \A i \in Ids : dSeen'[i].frame = dSeen[i].frame,
         \A i \in Ids' \ Ids : i > Len(dSeen) /\ i \in Int
  PROVE  \A i \in Ids : (FirstEver(i)' <=> FirstEver(i)) /\ RankOf(i)' = RankOf(i)
<1> SUFFICES ASSUME NEW i \in Ids
             PROVE  (FirstEver(i)' <=> FirstEver(i)) /\ RankOf(i)' = RankOf(i)
  OBVIOUS
<1>1. \A j \in Ids : j \in Int /\ j <= Len(dSeen) /\ Len(dSeen) \in Int
  BY IdsAre
<1>2. \A j \in Ids' : j \in Ids \/ i < j
  BY <1>1
<1>3. FirstEver(i)' <=> FirstEver(i)
  <2>1. FirstEver(i)' => FirstEver(i)
    BY DEF FirstEver
  <2>2. ASSUME FirstEver(i), NEW j \in Ids', dSeen'[j].frame = dSeen'[i].frame
        PROVE  i <= j
    BY <1>1, <1>2, <2>2 DEF FirstEver
  <2>3. QED
    BY <2>1, <2>2 DEF FirstEver
<1>4. {k \in Ids' : k <= i} = {k \in Ids : k <= i}
  BY <1>1, <1>2
<1>5. {dSeen'[j].frame : j \in {k \in Ids' : k <= i}} = {dSeen[j].frame : j \in {k \in Ids : k <= i}}
  BY <1>4
<1>6. QED
  BY <1>3, <1>5 DEF RankOf

\* What the invariant says of the feed, when a sighting is written and the rest stays.
LEMMA OlderKeep ==
  ASSUME FeedInv, Ids \subseteq Ids', \A i \in Ids : dSeen'[i].frame = dSeen[i].frame,
         \A i \in Ids' \ Ids : i > Len(dSeen) /\ i \in Int,
         UNCHANGED <<dMark, dFeed, dMiles, dPc, dAt, dPass, dFrom>>
  PROVE  PassInv' /\ ScannedIsInFeed'
<1>1. \A i \in Ids : (FirstEver(i)' <=> FirstEver(i)) /\ RankOf(i)' = RankOf(i)
  BY OlderStay DEF FeedInv
<1>2. dMark \in Int /\ dAt \in Int /\ dPass.at \in Int /\ Len(dSeen) \in Int /\ dMark <= Len(dSeen)
      /\ (Reading => dPass.at <= Len(dSeen))
  BY IdsAre, FeedConstants DEF FeedInv, FeedTypes, FeedTypeOK, Passes, MarkInv
<1>3. \A f \in Airframes : News(f) => News(f)'
  BY <1>1 DEF News
<1>4. Reading' <=> Reading
  BY DEF Reading
<1>5. ASSUME Reading, NEW i \in Ids', dAt < i, i <= dPass.at, FirstEver(i)'
      PROVE  Announced(i, dPass.batch.events)'
  <2>1. i \in Ids
    BY <1>2, <1>5
  <2>2. Announced(i, dPass.batch.events)
    BY <1>1, <1>5, <2>1 DEF FeedInv, PassInv
  <2>3. QED
    BY <1>1, <2>1, <2>2 DEF Announced
<1>6. PassInv'
  <2>1. ASSUME Reading
        PROVE  /\ \A f \in dPass'.facts : <<"fact", f>> \in dPass'.batch.events
               /\ dPass'.batch.miles \subseteq dPass'.batch.events
               /\ \A f \in Airframes : <<"first", f>> \in dPass'.batch.events => News(f)'
    BY <1>3, <2>1 DEF FeedInv, PassInv
  <2>2. Committed' => dPass'.batch.events \subseteq dFeed' /\ dPass'.batch.miles \subseteq dMiles'
    BY DEF FeedInv, PassInv, Committed
  <2>3. \A f \in Airframes : <<"first", f>> \in dFeed' => News(f)'
    BY <1>3 DEF FeedInv, PassInv
  <2>4. QED
    BY <1>4, <1>5, <2>1, <2>2, <2>3 DEF PassInv
<1>7. ScannedIsInFeed'
  <2>1. ASSUME NEW i \in Ids', dFrom < i, i <= dMark, FirstEver(i)'
        PROVE  /\ <<"first", dSeen'[i].frame>> \in dFeed
               /\ RankOf(i)' \in Thresholds => <<"unique", RankOf(i)'>> \in dFeed
    <3>1. i \in Ids
      BY <1>2, <2>1
    <3>2. QED
      BY <1>1, <2>1, <3>1 DEF FeedInv, ScannedIsInFeed
  <2>2. QED
    BY <2>1 DEF ScannedIsInFeed
<1>8. QED
  BY <1>6, <1>7

\* The persistence worker commits a new sighting.
LEMMA NewSightingStep ==
  ASSUME FeedInv, NewSighting
  PROVE  FeedInv'
<1> DEFINE Sightings == [frame : Airframes, length : 0 .. MaxLength]
<1>1. PICK f \in Airframes : dSeen' = Append(dSeen, [frame |-> f, length |-> 0])
  BY DEF NewSighting
<1>2. UNCHANGED <<dImported, dRange, dMark, dFeed, dMiles, dUp, dPc, dFinal, dAt, dLongest, dReach, dClaimed,
                  dClosed, dFacts, dPass, dGiven, dShown, dLost, dSilent, dFrom>>
  BY DEF NewSighting, dMemory, dPast
<1>3. /\ dSeen' \in Seq(Sightings) /\ Len(dSeen') = Len(dSeen) + 1 /\ Len(dSeen) \in Nat /\ Len(dSeen') <= MaxSeen
      /\ Ids' = Ids \cup {Len(dSeen) + 1} /\ \A i \in Ids : dSeen'[i] = dSeen[i]
  <2>1. dSeen \in Seq(Sightings) /\ [frame |-> f, length |-> 0] \in Sightings
    BY FeedConstants DEF FeedInv, FeedTypes, FeedTypeOK
  <2>2. Len(dSeen) \in Nat /\ Len(dSeen) < MaxSeen
    BY <2>1 DEF NewSighting
  <2> HIDE DEF Sightings
  <2>3. dSeen' \in Seq(Sightings) /\ Len(dSeen') = Len(dSeen) + 1
    BY <1>1, <2>1
  <2>4. Ids' = 1 .. Len(dSeen') /\ Ids = 1 .. Len(dSeen)
    BY <2>1, <2>3 DEF Ids
  <2>5. \A i \in 1 .. Len(dSeen) : dSeen'[i] = dSeen[i]
    BY <1>1, <2>1
  <2>6. QED
    BY <2>2, <2>3, <2>4, <2>5, FeedConstants
<1>4. FeedTypes'
  <2>1. FeedTypeOK'
    BY <1>2, <1>3 DEF FeedInv, FeedTypes, FeedTypeOK
  <2>2. dLongest <= Len(dSeen') /\ dPass.longest <= Len(dSeen')
    <3>1. dLongest \in Int /\ dPass.longest \in Int
      BY FeedConstants DEF FeedInv, FeedTypes, FeedTypeOK, Passes
    <3>2. dLongest <= Len(dSeen) /\ dPass.longest <= Len(dSeen)
      BY DEF FeedInv, FeedTypes
    <3>3. QED
      BY <1>3, <3>1, <3>2
  <2>3. QED
    BY <1>2, <1>3, <2>1, <2>2 DEF FeedInv, FeedTypes
<1>5. StageInv' /\ ShownInv' /\ MilestoneHasEvent' /\ FactsKept'
  BY <1>2 DEF FeedInv, StageInv, ShownInv, MilestoneHasEvent, FactsKept
<1>6. MarkInv'
  <2>1. dMark \in Int /\ dAt \in Int /\ dPass.at \in Int
    BY FeedConstants DEF FeedInv, FeedTypes, FeedTypeOK, Passes
  <2>2. MarkInv
    BY DEF FeedInv
  <2>3. QED
    BY <1>2, <1>3, <2>1, <2>2 DEF MarkInv, Reading
<1>7. PassInv' /\ ScannedIsInFeed'
  BY <1>2, <1>3, OlderKeep
<1>8. QED
  BY <1>4, <1>5, <1>6, <1>7 DEF FeedInv

\* ... or closes one.
LEMMA RecordLifecycleStep ==
  ASSUME FeedInv, NEW i \in Ids, RecordLifecycle(i)
  PROVE  FeedInv'
<1> DEFINE Sightings == [frame : Airframes, length : 0 .. MaxLength]
<1>1. PICK n \in 1 .. MaxLength : dSeen' = [dSeen EXCEPT ![i].length = n]
  BY DEF RecordLifecycle
<1>2. UNCHANGED <<dImported, dRange, dMark, dFeed, dMiles, dUp, dPc, dFinal, dAt, dLongest, dReach, dClaimed,
                  dFacts, dPass, dGiven, dShown, dLost, dSilent, dFrom>> /\ dClosed' \subseteq dClosed \cup {i}
  BY DEF RecordLifecycle, dMemory, dPast
<1>3. /\ dSeen' \in Seq(Sightings) /\ Len(dSeen') = Len(dSeen) /\ Ids' = Ids
      /\ \A j \in Ids : dSeen'[j].frame = dSeen[j].frame
  <2>1. dSeen \in Seq(Sightings) /\ n \in 0 .. MaxLength
    BY FeedConstants DEF FeedInv, FeedTypes, FeedTypeOK
  <2>2. Ids = 1 .. Len(dSeen) /\ dSeen \in [1 .. Len(dSeen) -> Sightings] /\ Len(dSeen) \in Nat
    <3> HIDE DEF Sightings
    <3>1. QED
      BY <2>1 DEF Ids
  <2>3. dSeen[i] \in Sightings
    BY <2>2
  <2>4. [dSeen[i] EXCEPT !.length = n] \in Sightings /\ [dSeen[i] EXCEPT !.length = n].frame = dSeen[i].frame
    BY <2>1, <2>3
  <2>5. dSeen' = [j \in 1 .. Len(dSeen) |-> IF j = i THEN [dSeen[i] EXCEPT !.length = n] ELSE dSeen[j]]
    BY <1>1, <2>2
  <2>6. /\ \A j \in 1 .. Len(dSeen) : dSeen'[j] \in Sightings /\ dSeen'[j].frame = dSeen[j].frame
        /\ DOMAIN dSeen' = 1 .. Len(dSeen)
    BY <2>2, <2>4, <2>5
  <2>7. dSeen' \in [1 .. Len(dSeen) -> Sightings]
    BY <2>5, <2>6
  <2> HIDE DEF Sightings
  <2>8. dSeen' \in Seq(Sightings) /\ Len(dSeen') = Len(dSeen)
    BY <2>2, <2>7
  <2>9. QED
    BY <2>2, <2>6, <2>8 DEF Ids
<1>4. FeedTypes'
  <2>1. FeedTypeOK'
    BY <1>2, <1>3 DEF FeedInv, FeedTypes, FeedTypeOK
  <2>2. QED
    BY <1>2, <1>3, <2>1 DEF FeedInv, FeedTypes
<1>5. StageInv' /\ ShownInv' /\ MilestoneHasEvent' /\ FactsKept'
  BY <1>2 DEF FeedInv, StageInv, ShownInv, MilestoneHasEvent, FactsKept
<1>6. MarkInv'
  BY <1>2, <1>3 DEF FeedInv, MarkInv, Reading
<1>7. PassInv' /\ ScannedIsInFeed'
  BY <1>2, <1>3, OlderKeep
<1>8. QED
  BY <1>4, <1>5, <1>6, <1>7 DEF FeedInv

\* What the invariant says of the tables, when no sighting is written and the tables stay.
LEMMA TablesKeep ==
  ASSUME FeedInv, UNCHANGED <<dSeen, dMark, dFeed, dMiles, dFrom>>
  PROVE  ScannedIsInFeed' /\ \A f \in Airframes : <<"first", f>> \in dFeed' => News(f)'
<1>1. ScannedIsInFeed'
  BY SameSightings DEF FeedInv, ScannedIsInFeed
<1>2. \A f \in Airframes : News(f) => News(f)'
  BY SameSightings DEF News
<1>3. QED
  BY <1>1, <1>2 DEF FeedInv, PassInv

\* A fact is handed over.
LEMMA RecordFactStep ==
  ASSUME FeedInv, RecordFact
  PROVE  FeedInv'
<1>1. dUp /\ ~dFinal /\ dGiven < MaxGiven /\ dGiven' = dGiven + 1 /\ dFacts' = dFacts \cup {dGiven + 1}
  BY DEF RecordFact
<1>2. UNCHANGED <<dSeen, dImported, dRange, dMark, dFeed, dMiles, dUp, dPc, dFinal, dAt, dLongest, dReach, dClaimed,
                  dClosed, dPass, dShown, dLost, dSilent, dFrom>>
  BY DEF RecordFact, dWorld, dMemory, dPast
<1>3. dGiven \in 0 .. MaxGiven /\ MaxGiven \in Nat
  BY FeedConstants DEF FeedInv, FeedTypes
<1>4. dGiven' \in 0 .. MaxGiven /\ dGiven + 1 \in 1 .. MaxGiven
  BY <1>1, <1>3
<1>5. FeedTypes'
  <2>1. FeedTypeOK'
    BY <1>1, <1>2, <1>4, SameSightings DEF FeedInv, FeedTypes, FeedTypeOK
  <2>2. QED
    BY <1>2, <1>4, <2>1, SameSightings DEF FeedInv, FeedTypes
<1>6. StageInv' /\ ShownInv' /\ MilestoneHasEvent' /\ MarkInv'
  BY <1>1, <1>2 DEF FeedInv, StageInv, ShownInv, MilestoneHasEvent, MarkInv, Reading
<1>7. FactsKept'
  <2>1. \A f \in 1 .. dGiven + 1 : f \in 1 .. dGiven \/ f = dGiven + 1
    BY <1>3
  <2>2. QED
    BY <1>1, <1>2, <2>1 DEF FeedInv, FactsKept
<1>8. PassInv'
  BY <1>2, SameSightings, TablesKeep DEF FeedInv, PassInv, Reading, Committed, Announced, News
<1>9. QED
  BY <1>2, <1>5, <1>6, <1>7, <1>8, TablesKeep DEF FeedInv

\* An import, or a new range record.
LEMMA WorldMovesStep ==
  ASSUME FeedInv, WorldMoves
  PROVE  FeedInv'
<1>1. UNCHANGED <<dSeen, dMark, dFeed, dMiles, dUp, dPc, dFinal, dAt, dLongest, dReach, dClaimed, dClosed, dFacts,
                  dPass, dGiven, dShown, dLost, dSilent, dFrom>>
  BY DEF WorldMoves, dMemory, dPast
<1>2. dImported' \in BOOLEAN /\ dRange' \in 0 .. MaxRange
  <2>1. dImported \in BOOLEAN /\ dRange \in 0 .. MaxRange /\ MaxRange \in Nat
    BY FeedConstants DEF FeedInv, FeedTypes
  <2>2. dImported' \in {TRUE, dImported}
    BY DEF WorldMoves
  <2>3. dRange' = dRange \/ (dRange < MaxRange /\ dRange' = dRange + 1)
    BY DEF WorldMoves
  <2>4. dRange' \in 0 .. MaxRange
    BY <2>1, <2>3
  <2>5. dImported' \in BOOLEAN
    BY <2>1, <2>2
  <2>6. QED
    BY <2>4, <2>5
<1>3. FeedTypes'
  <2>1. FeedTypeOK'
    BY <1>1, SameSightings DEF FeedInv, FeedTypes, FeedTypeOK
  <2>2. QED
    BY <1>1, <1>2, <2>1, SameSightings DEF FeedInv, FeedTypes
<1>4. StageInv' /\ ShownInv' /\ MilestoneHasEvent' /\ MarkInv' /\ FactsKept'
  BY <1>1 DEF FeedInv, StageInv, ShownInv, MilestoneHasEvent, MarkInv, Reading, FactsKept
<1>5. PassInv'
  BY <1>1, SameSightings, TablesKeep DEF FeedInv, PassInv, Reading, Committed, Announced, News
<1>6. QED
  BY <1>1, <1>3, <1>4, <1>5, TablesKeep DEF FeedInv

\* flush drains what is pending.
LEMMA PassBeginStep ==
  ASSUME FeedInv, PassBegin
  PROVE  FeedInv'
<1>1. /\ dUp /\ dPc = "idle" /\ dPc' = "read" /\ dClosed' = {} /\ dFacts' = {}
      /\ dPass' = [NoPass EXCEPT !.closed = dClosed, !.facts = dFacts]
  BY DEF PassBegin
<1>2. UNCHANGED <<dSeen, dImported, dRange, dMark, dFeed, dMiles, dUp, dFinal, dAt, dLongest, dReach, dClaimed,
                  dGiven, dShown, dLost, dSilent, dFrom>>
  BY DEF PassBegin, dWorld, dMemory, dPast
<1>3. dClosed \in SUBSET Nat /\ dClosed \subseteq Ids /\ dFacts \in SUBSET (1 .. MaxGiven) /\ Len(dSeen) \in Nat
  BY IdsAre DEF FeedInv, FeedTypes, FeedTypeOK
<1>4. /\ dPass' \in Passes /\ dPass'.closed = dClosed /\ dPass'.facts = dFacts /\ dPass'.made = {}
      /\ dPass'.longest = 0
  <2>1. NoPass \in Passes /\ NoPass.made = {} /\ NoPass.longest = 0
    BY BlankPass DEF NoPass
  <2> HIDE DEF NoPass
  <2>2. QED
    BY <1>1, <1>3, <2>1 DEF Passes
<1>5. FeedTypes'
  <2>1. FeedTypeOK'
    BY <1>1, <1>2, SameSightings DEF FeedInv, FeedTypes, FeedTypeOK
  <2>2. QED
    BY <1>2, <1>3, <1>4, <2>1, SameSightings DEF FeedInv, FeedTypes
<1>6. StageInv' /\ MarkInv' /\ MilestoneHasEvent'
  BY <1>1, <1>2, <1>4 DEF FeedInv, StageInv, MarkInv, Reading, MilestoneHasEvent
<1>7. dPass.facts = {} /\ dPass.made = {}
  BY <1>1 DEF FeedInv, StageInv, NoPass
<1>8. ShownInv' /\ FactsKept'
  BY <1>1, <1>2, <1>4, <1>7 DEF FeedInv, ShownInv, FactsKept
<1>9. PassInv'
  BY <1>1, <1>2, TablesKeep DEF PassInv, Reading, Committed
<1>10. QED
  BY <1>2, <1>5, <1>6, <1>8, <1>9, TablesKeep DEF FeedInv

\* The reads: the batch owes nothing to the ids up to the new watermark.
LEMMA PassReadStep ==
  ASSUME FeedInv, PassRead
  PROVE  FeedInv'
<1> DEFINE seen == Scanned \cup dPass.closed
           best == BestClosed(dLongest, {i \in seen : Length(i) > 0})
           top  == Max({dAt} \cup Scanned)
           batch == Detect(seen)
<1>1. /\ dPc = "read" /\ dPc' = "write"
      /\ dPass' = [dPass EXCEPT !.batch = batch, !.at = top, !.reach = dRange, !.longest = best]
  BY DEF PassRead
<1>2. UNCHANGED <<dSeen, dImported, dRange, dMark, dFeed, dMiles, dUp, dFinal, dAt, dLongest, dReach, dClaimed,
                  dClosed, dFacts, dGiven, dShown, dLost, dSilent, dFrom>>
  BY DEF PassRead, dWorld, dMemory, dPast
<1>3. /\ FeedTypes /\ dPass \in Passes /\ seen \in SUBSET Ids /\ dAt \in 0 .. Len(dSeen) /\ Len(dSeen) \in 0 .. MaxSeen
      /\ dLongest \in 0 .. Len(dSeen) /\ MaxSeen \in Nat /\ ScanLimit \in Nat
  <2>1. FeedTypes /\ dAt \in 0 .. MaxSeen /\ dLongest \in 0 .. MaxSeen /\ dAt <= Len(dSeen) /\ dLongest <= Len(dSeen)
    BY DEF FeedInv, FeedTypes, FeedTypeOK, MarkInv
  <2>2. QED
    BY <2>1, IdsAre, FeedConstants DEF FeedTypes, Scanned
<1>4. top \in {dAt} \cup Scanned /\ \A x \in {dAt} \cup Scanned : x <= top
  <2> DEFINE ids == {dAt} \cup Scanned
  <2>1. ids \in SUBSET (0 .. MaxSeen) /\ ids # {}
    BY <1>3, IdsAre DEF Scanned
  <2> HIDE DEF ids
  <2>2. PICK x \in ids : \A y \in ids : y <= x
    BY <1>3, <2>1, MaxExists
  <2>3. Max(ids) = x
    <3>1. \A y \in ids : y \in Int /\ y <= x
      BY <1>3, <2>1, <2>2
    <3>2. QED
      BY <3>1, MaxIs
  <2>4. QED
    BY <2>2, <2>3 DEF ids
<1>5. top \in dAt .. Len(dSeen) /\ top \in 0 .. MaxSeen /\ top <= dAt + ScanLimit
  BY <1>3, <1>4, IdsAre DEF Scanned
<1>6. \A i \in Ids : dAt < i /\ i <= top => i \in Scanned
  BY <1>3, <1>5, IdsAre DEF Scanned
<1>7. best \in 0 .. Len(dSeen)
  <2>1. {i \in seen : Length(i) > 0} \in SUBSET Ids
    BY <1>3
  <2>2. QED
    BY <1>3, <2>1, BestIs
<1>8. /\ batch \in Batches /\ batch.miles \subseteq batch.events
      /\ \A i \in seen : dAt < i /\ FirstEver(i) => Announced(i, batch.events)
      /\ \A f \in dPass.facts : <<"fact", f>> \in batch.events
      /\ \A f \in Airframes : <<"first", f>> \in batch.events
           => \E i \in seen : dAt < i /\ FirstEver(i) /\ dSeen[i].frame = f
  BY <1>3, DetectIs
<1> HIDE DEF best, top, batch
<1>9. /\ dPass' \in Passes /\ dPass'.batch = batch /\ dPass'.at = top /\ dPass'.longest = best
      /\ dPass'.closed = dPass.closed /\ dPass'.facts = dPass.facts /\ dPass'.made = dPass.made
  <2>1. dRange \in 0 .. MaxRange /\ best \in 0 .. MaxSeen
    BY <1>3, <1>7 DEF FeedTypes
  <2>2. QED
    BY <1>1, <1>3, <1>5, <1>8, <2>1 DEF Passes
<1>10. FeedTypes'
  <2>1. FeedTypeOK'
    BY <1>1, <1>2, <1>3, SameSightings DEF FeedTypes, FeedTypeOK
  <2>2. dPass'.closed \subseteq Ids' /\ dPass'.longest <= Len(dSeen')
    BY <1>2, <1>3, <1>7, <1>9, SameSightings DEF FeedTypes
  <2>3. QED
    BY <1>2, <1>3, <1>9, <2>1, <2>2 DEF FeedTypes
<1>11. StageInv'
  BY <1>1, <1>2, <1>9 DEF FeedInv, StageInv
<1>12. MarkInv'
  BY <1>1, <1>2, <1>3, <1>5, <1>9 DEF FeedInv, MarkInv, Reading
<1>13. ShownInv' /\ MilestoneHasEvent' /\ FactsKept'
  BY <1>2, <1>9 DEF FeedInv, ShownInv, MilestoneHasEvent, FactsKept
<1>14. PassInv'
  <2>1. ASSUME NEW i \in Ids', dAt' < i, i <= dPass'.at, FirstEver(i)'
        PROVE  Announced(i, dPass.batch.events)'
    <3>1. i \in seen /\ dAt < i /\ FirstEver(i) /\ i \in Ids
      BY <1>2, <1>6, <1>9, <2>1, SameSightings
    <3>2. Announced(i, batch.events)
      BY <1>8, <3>1
    <3>3. QED
      BY <1>2, <1>9, <3>1, <3>2, SameSightings DEF Announced
  <2>2. ASSUME NEW f \in Airframes, <<"first", f>> \in dPass'.batch.events
        PROVE  News(f)'
    <3>1. PICK i \in seen : dAt < i /\ FirstEver(i) /\ dSeen[i].frame = f
      BY <1>8, <1>9, <2>2
    <3>2. dFrom <= dAt /\ dFrom \in Int /\ dAt \in Int /\ i \in Int
      BY <1>1, <1>3, IdsAre, FeedConstants DEF FeedInv, FeedTypes, MarkInv, StageInv
    <3>3. i \in Ids /\ dFrom < i
      BY <1>3, <3>1, <3>2
    <3>4. QED
      BY <1>2, <3>1, <3>3, SameSightings DEF News
  <2>3. ~Committed'
    BY <1>1 DEF Committed
  <2>4. QED
    BY <1>2, <1>8, <1>9, <2>1, <2>2, <2>3, TablesKeep DEF PassInv
<1>15. QED
  BY <1>2, <1>10, <1>11, <1>12, <1>13, <1>14, TablesKeep DEF FeedInv

\* record commits: what it returns as new was never broadcast.
LEMMA PassWriteStep ==
  ASSUME FeedInv, PassWrite
  PROVE  FeedInv'
<1> DEFINE events == dPass.batch.events
           fresh  == events \ dFeed
<1>1. /\ dPc = "write" /\ dFeed' = dFeed \cup events /\ dMiles' = dMiles \cup dPass.batch.miles
      /\ dPass' = [dPass EXCEPT !.made = fresh]
      /\ dPc' = IF dPass.at = dAt THEN "publish" ELSE "mark"
  BY DEF PassWrite, NewRows
<1>2. UNCHANGED <<dSeen, dImported, dRange, dMark, dUp, dFinal, dAt, dLongest, dReach, dClaimed, dClosed, dFacts,
                  dGiven, dShown, dLost, dSilent, dFrom>>
  BY DEF PassWrite, dWorld, dMemory, dPast
<1>3. dPass \in Passes /\ events \subseteq EventKeys /\ dPass.batch.miles \subseteq EventKeys
  BY DEF FeedInv, FeedTypes, Passes, Batches
<1>4. /\ dPass' \in Passes /\ dPass'.batch = dPass.batch /\ dPass'.at = dPass.at /\ dPass'.longest = dPass.longest
      /\ dPass'.closed = dPass.closed /\ dPass'.facts = dPass.facts /\ dPass'.made = fresh
  <2>1. fresh \in SUBSET EventKeys
    BY <1>3
  <2> HIDE DEF fresh
  <2>2. QED
    BY <1>1, <1>3, <2>1 DEF Passes
<1>5. FeedTypes'
  <2>1. FeedTypeOK'
    BY <1>1, <1>2, SameSightings DEF FeedInv, FeedTypes, FeedTypeOK
  <2>2. QED
    BY <1>1, <1>2, <1>3, <1>4, <2>1, SameSightings DEF FeedInv, FeedTypes
<1>6. StageInv'
  BY <1>1, <1>2, <1>4 DEF FeedInv, StageInv
<1>7. MarkInv'
  BY <1>1, <1>2, <1>4 DEF FeedInv, MarkInv, StageInv, Reading
<1>8. Reading
  BY <1>1 DEF Reading
<1>9. ShownInv'
  <2>1. dPass.made = {}
    BY <1>1 DEF FeedInv, StageInv
  <2>2. QED
    BY <1>1, <1>2, <1>4, <2>1 DEF FeedInv, ShownInv
<1>10. MilestoneHasEvent'
  BY <1>1, <1>2, <1>8 DEF FeedInv, MilestoneHasEvent, PassInv
<1>11. FactsKept'
  BY <1>1, <1>2, <1>4 DEF FeedInv, FactsKept
<1>12. ScannedIsInFeed'
  BY <1>1, <1>2, SameSightings DEF FeedInv, ScannedIsInFeed
<1>13. PassInv'
  <2>1. \A f \in Airframes : News(f) => News(f)'
    BY <1>2, SameSightings DEF News
  <2>2. \A f \in Airframes : <<"first", f>> \in dFeed \cup events => News(f)
    BY <1>8 DEF FeedInv, PassInv
  <2>3. \A i \in Ids' : dAt' < i /\ i <= dPass'.at /\ FirstEver(i)' => Announced(i, dPass.batch.events)'
    BY <1>2, <1>4, <1>8, SameSightings DEF FeedInv, PassInv, Announced
  <2>4. /\ \A f \in dPass'.facts : <<"fact", f>> \in dPass'.batch.events
        /\ dPass'.batch.miles \subseteq dPass'.batch.events
        /\ dPass'.batch.events \subseteq dFeed' /\ dPass'.batch.miles \subseteq dMiles'
    BY <1>1, <1>4, <1>8 DEF FeedInv, PassInv
  <2>5. \A f \in Airframes : <<"first", f>> \in dPass'.batch.events \cup dFeed' => News(f)'
    BY <1>1, <1>4, <2>1, <2>2
  <2>6. QED
    BY <2>3, <2>4, <2>5 DEF PassInv
<1>14. QED
  BY <1>5, <1>6, <1>7, <1>9, <1>10, <1>11, <1>12, <1>13 DEF FeedInv

\* The watermark is written: everything behind it is in the feed by then.
LEMMA PassMarkStep ==
  ASSUME FeedInv, PassMark
  PROVE  FeedInv'
<1>1. dPc = "mark" /\ dPc' = "publish" /\ dMark' = dPass.at
  BY DEF PassMark
<1>2. UNCHANGED <<dSeen, dImported, dRange, dFeed, dMiles, dUp, dFinal, dAt, dLongest, dReach, dClaimed, dClosed,
                  dFacts, dPass, dGiven, dShown, dLost, dSilent, dFrom>>
  BY DEF PassMark, dWorld, dMemory, dPast
<1>3. Reading /\ Committed /\ dUp
  BY <1>1 DEF Reading, Committed, FeedInv, StageInv
<1>4. dPass.at \in 0 .. MaxSeen /\ dAt \in 0 .. MaxSeen /\ dFrom \in 0 .. MaxSeen /\ MaxSeen \in Nat
  BY FeedConstants DEF FeedInv, FeedTypes, FeedTypeOK, Passes
<1>5. FeedTypes'
  <2>1. dMark' \in -1 .. MaxSeen
    BY <1>1, <1>4
  <2>2. FeedTypeOK'
    BY <1>1, <1>2, <2>1, SameSightings DEF FeedInv, FeedTypes, FeedTypeOK
  <2>3. QED
    BY <1>2, <2>2, SameSightings DEF FeedInv, FeedTypes
<1>6. StageInv' /\ ShownInv' /\ MilestoneHasEvent' /\ FactsKept'
  BY <1>1, <1>2 DEF FeedInv, StageInv, ShownInv, MilestoneHasEvent, FactsKept
<1>7. MarkInv'
  <2>1. dFrom <= dAt /\ dAt <= dPass.at /\ dPass.at <= Len(dSeen) /\ dAt <= Len(dSeen)
    BY <1>3 DEF FeedInv, MarkInv
  <2>2. dFrom <= dPass.at /\ dPass.at # -1
    BY <1>4, <2>1
  <2>3. QED
    BY <1>1, <1>2, <2>1, <2>2 DEF MarkInv
<1>8. PassInv'
  <2>1. \A f \in Airframes : News(f) => News(f)'
    BY <1>2, SameSightings DEF News
  <2>2. \A i \in Ids' : dAt' < i /\ i <= dPass'.at /\ FirstEver(i)' => Announced(i, dPass.batch.events)'
    BY <1>2, <1>3, SameSightings DEF FeedInv, PassInv, Announced
  <2>3. QED
    BY <1>2, <1>3, <2>1, <2>2 DEF FeedInv, PassInv
<1>9. ScannedIsInFeed'
  <2>1. ASSUME NEW i \in Ids, dFrom < i, i <= dPass.at, FirstEver(i)
        PROVE  Announced(i, dFeed)
    <3>1. i \in Int
      BY IdsAre DEF FeedInv
    <3>2. CASE i <= dAt
      <4>1. dMark = dAt
        BY <1>1, <1>3 DEF FeedInv, MarkInv
      <4>2. QED
        BY <2>1, <3>2, <4>1 DEF FeedInv, ScannedIsInFeed, Announced
    <3>3. CASE dAt < i
      <4>1. Announced(i, dPass.batch.events)
        BY <1>3, <2>1, <3>3 DEF FeedInv, PassInv
      <4>2. dPass.batch.events \subseteq dFeed
        BY <1>3 DEF FeedInv, PassInv
      <4>3. QED
        BY <4>1, <4>2 DEF Announced
    <3>4. QED
      BY <1>4, <3>1, <3>2, <3>3
  <2>2. QED
    BY <1>1, <1>2, <2>1, SameSightings DEF ScannedIsInFeed, Announced
<1>10. QED
  BY <1>5, <1>6, <1>7, <1>8, <1>9 DEF FeedInv

\* A pass leaves the service resting, or stopped: its types are those of no pass.
LEMMA NoPassTypes ==
  ASSUME FeedInv, dPass' = NoPass, dPc' \in {"off", "idle"}, UNCHANGED <<dSeen, dImported, dRange, dFeed, dMiles, dGiven>>,
         {dUp', dFinal'} \subseteq BOOLEAN, dMark' \in -1 .. MaxSeen, dFrom' \in 0 .. MaxSeen, dAt' \in 0 .. MaxSeen,
         dLongest' \in 0 .. Len(dSeen), dReach' \in 0 .. MaxRange, dClaimed' \subseteq EventKeys,
         dClosed' \subseteq Ids, dFacts' \subseteq 1 .. MaxGiven
  PROVE  FeedTypes'
<1>1. Len(dSeen) \in 0 .. MaxSeen /\ MaxSeen \in Nat
  BY IdsAre, FeedConstants DEF FeedInv
<1>2. dLongest' \in 0 .. MaxSeen /\ dLongest' <= Len(dSeen)
  BY <1>1
<1>3. FeedTypeOK'
  BY <1>2, SameSightings DEF FeedInv, FeedTypes, FeedTypeOK
<1>4. NoPass \in Passes /\ NoPass.closed = {} /\ NoPass.longest = 0
  BY BlankPass DEF NoPass
<1>5. dPass' \in Passes /\ dPass'.closed \subseteq Ids' /\ dPass'.longest <= Len(dSeen')
  <2> HIDE DEF NoPass
  <2>1. QED
    BY <1>1, <1>4
<1>6. QED
  BY <1>2, <1>3, <1>5 DEF FeedInv, FeedTypes

\* What the variables of the feed are, for the steps that end a pass.
LEMMA FeedTypesAre ==
  ASSUME FeedInv
  PROVE  /\ {dUp, dFinal} \subseteq BOOLEAN /\ dMark \in -1 .. MaxSeen /\ dFrom \in 0 .. MaxSeen /\ dAt \in 0 .. MaxSeen
         /\ dLongest \in 0 .. Len(dSeen) /\ dPass.longest \in 0 .. Len(dSeen) /\ dPass.at \in 0 .. MaxSeen
         /\ dReach \in 0 .. MaxRange /\ dPass.reach \in 0 .. MaxRange /\ dRange \in 0 .. MaxRange
         /\ dClaimed \subseteq EventKeys /\ dMiles \subseteq EventKeys /\ dPass.batch.miles \subseteq EventKeys
         /\ dClosed \subseteq Ids /\ dPass.closed \subseteq Ids
         /\ dFacts \subseteq 1 .. MaxGiven /\ dPass.facts \subseteq 1 .. MaxGiven
         /\ Len(dSeen) \in 0 .. MaxSeen /\ MaxSeen \in Nat
<1>1. /\ {dUp, dFinal} \subseteq BOOLEAN /\ dMark \in -1 .. MaxSeen /\ dFrom \in 0 .. MaxSeen /\ dAt \in 0 .. MaxSeen
      /\ dLongest \in 0 .. MaxSeen /\ dReach \in 0 .. MaxRange /\ dRange \in 0 .. MaxRange
      /\ dLongest <= Len(dSeen) /\ dPass.longest <= Len(dSeen)
      /\ dClaimed \subseteq EventKeys /\ dMiles \subseteq EventKeys
      /\ dClosed \subseteq Ids /\ dPass.closed \subseteq Ids /\ dFacts \subseteq 1 .. MaxGiven
  BY DEF FeedInv, FeedTypes, FeedTypeOK
<1>2. dPass \in Passes
  BY DEF FeedInv, FeedTypes
<1>3. /\ dPass.longest \in 0 .. MaxSeen /\ dPass.at \in 0 .. MaxSeen /\ dPass.reach \in 0 .. MaxRange
      /\ dPass.batch.miles \subseteq EventKeys /\ dPass.facts \subseteq 1 .. MaxGiven
  BY <1>2 DEF Passes, Batches
<1>4. Len(dSeen) \in 0 .. MaxSeen /\ MaxSeen \in Nat
  BY IdsAre, FeedConstants DEF FeedInv
<1>5. QED
  BY <1>1, <1>3, <1>4, SMTT(20)

\* A pass is over, one way or another: nothing of it is left to hold.
LEMMA PassOver ==
  ASSUME FeedInv, dPass' = NoPass, dPc' \in {"off", "idle"}, UNCHANGED <<dSeen, dMark, dFeed, dMiles, dFrom>>,
         dShown' \cup dSilent' = dShown \cup dSilent \cup dPass.made
  PROVE  PassInv' /\ ShownInv' /\ ScannedIsInFeed'
<1>1. NoPass.made = {}
  BY DEF NoPass
<1>2. ~Reading' /\ ~Committed'
  BY DEF Reading, Committed
<1>3. PassInv' /\ ScannedIsInFeed'
  BY <1>2, TablesKeep DEF PassInv
<1>4. ShownInv'
  <2> HIDE DEF NoPass
  <2>1. QED
    BY <1>1 DEF FeedInv, ShownInv
<1>5. QED
  BY <1>3, <1>4

\* An await of the pass raises: what was drained is pending again, or lost with the service.
LEMMA PassFailsStep ==
  ASSUME FeedInv, PassFails
  PROVE  FeedInv'
<1>1. /\ dPc \in {"read", "write", "mark"} /\ dClosed' = dClosed \cup dPass.closed
      /\ dFacts' = dFacts \cup dPass.facts /\ dSilent' = dSilent \cup dPass.made
      /\ dLost' = IF dFinal THEN dLost \cup dPass.facts ELSE dLost
      /\ dPc' = (IF dFinal THEN "off" ELSE "idle") /\ dUp' = ~dFinal /\ dFinal' = FALSE /\ dPass' = NoPass
  BY DEF PassFails, GiveBack, AfterPass
<1>2. UNCHANGED <<dSeen, dImported, dRange, dMark, dFeed, dMiles, dAt, dLongest, dReach, dClaimed, dGiven, dShown, dFrom>>
  BY DEF PassFails, dWorld, dMemory
<1>3. FeedTypes'
  BY <1>1, <1>2, FeedTypesAre, NoPassTypes
<1>4. dUp /\ NoPass.facts = {}
  BY <1>1 DEF FeedInv, StageInv, NoPass
<1>5. StageInv'
  <2>1. dFinal => dFacts = {}
    BY <1>1 DEF FeedInv, StageInv
  <2> HIDE DEF NoPass
  <2>2. QED
    BY <1>1, <2>1 DEF StageInv
<1>6. MarkInv'
  <2>1. dFrom <= dAt /\ dMark = dAt /\ dMark # -1
    BY <1>1, <1>4 DEF FeedInv, MarkInv
  <2>2. QED
    BY <1>1, <1>2, <2>1 DEF FeedInv, MarkInv, Reading
<1>7. PassInv' /\ ShownInv' /\ ScannedIsInFeed'
  BY <1>1, <1>2, PassOver
<1>8. MilestoneHasEvent'
  BY <1>2, <1>4 DEF FeedInv, MilestoneHasEvent
<1>9. FactsKept'
  BY <1>1, <1>2 DEF FeedInv, FactsKept
<1>10. QED
  BY <1>3, <1>5, <1>6, <1>7, <1>8, <1>9 DEF FeedInv

\* The baselines advance and the new events are broadcast.
LEMMA PassPublishStep ==
  ASSUME FeedInv, PassPublish
  PROVE  FeedInv'
<1>1. /\ dPc = "publish" /\ dAt' = dPass.at /\ dReach' = dPass.reach /\ dLongest' = dPass.longest
      /\ dClaimed' = dClaimed \cup dPass.batch.miles /\ dShown' = dShown \cup dPass.made
      /\ dPc' = (IF dFinal THEN "off" ELSE "idle") /\ dUp' = ~dFinal /\ dFinal' = FALSE /\ dPass' = NoPass
  BY DEF PassPublish, AfterPass
<1>2. UNCHANGED <<dSeen, dImported, dRange, dMark, dFeed, dMiles, dClosed, dFacts, dGiven, dLost, dSilent, dFrom>>
  BY DEF PassPublish, dWorld
<1>3. Reading /\ Committed /\ dUp
  BY <1>1 DEF Reading, Committed, FeedInv, StageInv
<1>4. FeedTypes'
  BY <1>1, <1>2, FeedTypesAre, NoPassTypes
<1>5. StageInv'
  <2>1. dFinal => dFacts = {}
    BY <1>1 DEF FeedInv, StageInv
  <2> HIDE DEF NoPass
  <2>2. QED
    BY <1>1, <1>2, <2>1 DEF StageInv
<1>6. MarkInv'
  <2>1. /\ dFrom <= dAt /\ dAt <= dPass.at /\ dPass.at <= Len(dSeen) /\ dMark = dPass.at /\ dMark # -1
    BY <1>1, <1>3 DEF FeedInv, MarkInv
  <2>2. dFrom \in Int /\ dAt \in Int /\ dPass.at \in Int
    BY FeedTypesAre
  <2>3. dFrom <= dPass.at
    BY <2>1, <2>2
  <2>4. QED
    BY <1>1, <1>2, <2>1, <2>3 DEF MarkInv, Reading
<1>7. PassInv' /\ ShownInv' /\ ScannedIsInFeed'
  BY <1>1, <1>2, PassOver
<1>8. MilestoneHasEvent'
  BY <1>1, <1>2, <1>3 DEF FeedInv, MilestoneHasEvent, PassInv
<1>9. FactsKept'
  <2>1. \A f \in dPass.facts : <<"fact", f>> \in dFeed
    BY <1>3 DEF FeedInv, PassInv
  <2>2. QED
    BY <1>2, <2>1 DEF FeedInv, FactsKept
<1>10. QED
  BY <1>4, <1>5, <1>6, <1>7, <1>8, <1>9 DEF FeedInv

\* stop cancels the pass under way.
LEMMA StopFeedStep ==
  ASSUME FeedInv, StopFeed
  PROVE  FeedInv'
<1>1. /\ dUp /\ dPc \in {"idle", "read", "write", "mark"} /\ dFinal' = TRUE /\ dPc' = "idle" /\ dPass' = NoPass
      /\ dLost' = dLost \cup dPass.facts /\ dSilent' = dSilent \cup dPass.made
  BY DEF StopFeed
<1>2. UNCHANGED <<dSeen, dImported, dRange, dMark, dFeed, dMiles, dUp, dAt, dLongest, dReach, dClaimed, dClosed, dFacts,
                  dGiven, dShown, dFrom>>
  BY DEF StopFeed, dWorld, dMemory
<1>3. FeedTypes'
  <2>1. {dUp', dFinal'} \subseteq BOOLEAN
    BY <1>1, <1>2, FeedTypesAre
  <2>2. QED
    BY <1>1, <1>2, <2>1, FeedTypesAre, NoPassTypes
<1>4. StageInv'
  <2> HIDE DEF NoPass
  <2>1. QED
    BY <1>1, <1>2 DEF FeedInv, StageInv
<1>5. MarkInv'
  <2>1. dMark = dAt
    BY <1>1 DEF FeedInv, MarkInv
  <2>2. QED
    BY <1>1, <1>2, <2>1 DEF FeedInv, MarkInv, Reading
<1>6. PassInv' /\ ShownInv' /\ ScannedIsInFeed'
  BY <1>1, <1>2, PassOver
<1>7. MilestoneHasEvent' /\ FactsKept'
  BY <1>1, <1>2 DEF FeedInv, MilestoneHasEvent, FactsKept
<1>8. QED
  BY <1>3, <1>4, <1>5, <1>6, <1>7 DEF FeedInv

\* The process dies.
LEMMA CrashFeedStep ==
  ASSUME FeedInv, CrashFeed
  PROVE  FeedInv'
<1>1. /\ dUp /\ dUp' = FALSE /\ dFinal' = FALSE /\ dPc' = "off" /\ dPass' = NoPass /\ dClosed' = {} /\ dFacts' = {}
      /\ dLost' = dLost \cup dPass.facts \cup dFacts /\ dSilent' = dSilent \cup dPass.made
  BY DEF CrashFeed
<1>2. UNCHANGED <<dSeen, dImported, dRange, dMark, dFeed, dMiles, dAt, dLongest, dReach, dClaimed, dGiven, dShown, dFrom>>
  BY DEF CrashFeed, dWorld, dMemory
<1>3. FeedTypes'
  BY <1>1, <1>2, FeedTypesAre, NoPassTypes
<1>4. StageInv'
  <2> HIDE DEF NoPass
  <2>1. QED
    BY <1>1 DEF StageInv
<1>5. MarkInv'
  BY <1>1, <1>2 DEF FeedInv, MarkInv, Reading
<1>6. PassInv' /\ ShownInv' /\ ScannedIsInFeed'
  BY <1>1, <1>2, PassOver
<1>7. MilestoneHasEvent' /\ FactsKept'
  BY <1>1, <1>2 DEF FeedInv, MilestoneHasEvent, FactsKept
<1>8. QED
  BY <1>3, <1>4, <1>5, <1>6, <1>7 DEF FeedInv

\* start: on a database that never ran the service the watermark is now, with nothing in the feed.
LEMMA StartFeedStep ==
  ASSUME FeedInv, StartFeed
  PROVE  FeedInv'
<1>1. /\ ~dUp /\ dUp' = TRUE /\ dPc' = "idle" /\ dAt' = dMark' /\ dClaimed' = dMiles /\ dReach' = dRange
      /\ dMark' = (IF dMark = -1 THEN Len(dSeen) ELSE dMark)
      /\ dFrom' = (IF dMark = -1 THEN Len(dSeen) ELSE dFrom)
      /\ dLongest' = BestClosed(0, {i \in Ids : Length(i) > 0})
      /\ dClosed' = {} /\ dFacts' = {}
  BY DEF StartFeed, FirstWatermark
<1>2. UNCHANGED <<dSeen, dImported, dRange, dFeed, dMiles, dFinal, dPass, dGiven, dShown, dLost, dSilent>>
  BY DEF StartFeed, dWorld
<1>3. dPass' = NoPass /\ dPass = NoPass /\ ~dFinal /\ dFacts \subseteq dLost
  BY <1>1, <1>2 DEF FeedInv, StageInv
<1>4. dMark \in -1 .. MaxSeen /\ dFrom \in 0 .. MaxSeen /\ Len(dSeen) \in 0 .. MaxSeen /\ MaxSeen \in Nat
  BY FeedTypesAre
<1>5. dMark <= Len(dSeen) /\ (dMark # -1 => dFrom <= dMark) /\ (dMark = -1 => dFeed = {})
  BY DEF FeedInv, MarkInv
<1>6. dMark' \in 0 .. Len(dSeen) /\ dFrom' \in 0 .. MaxSeen /\ dFrom' <= dMark'
  BY <1>1, <1>4, <1>5
<1>7. FeedTypes'
  <2>1. dLongest' \in 0 .. Len(dSeen)
    <3>1. {i \in Ids : Length(i) > 0} \in SUBSET Ids /\ 0 \in 0 .. Len(dSeen) /\ FeedTypes
      BY <1>4 DEF FeedInv
    <3>2. QED
      BY <1>1, <3>1, BestIs
  <2>2. {dUp', dFinal'} \subseteq BOOLEAN /\ dMark' \in -1 .. MaxSeen /\ dAt' \in 0 .. MaxSeen
    <3>1. dMark' \in -1 .. MaxSeen /\ dMark' \in 0 .. MaxSeen
      BY <1>4, <1>6
    <3>2. dFinal' \in BOOLEAN
      BY <1>2, FeedTypesAre
    <3>3. QED
      BY <1>1, <3>1, <3>2
  <2>3. QED
    BY <1>1, <1>2, <1>3, <1>6, <2>1, <2>2, FeedTypesAre, NoPassTypes
<1>8. StageInv'
  <2> HIDE DEF NoPass
  <2>1. QED
    BY <1>1, <1>2, <1>3 DEF StageInv
<1>9. MarkInv'
  <2>1. dMark' # -1 /\ dMark' <= Len(dSeen)
    BY <1>4, <1>6
  <2>2. ~Reading'
    BY <1>1 DEF Reading
  <2>3. QED
    BY <1>1, <1>2, <1>6, <2>1, <2>2 DEF MarkInv
<1>10. PassInv' /\ ScannedIsInFeed'
  <2>1. CASE dMark = -1
    <3>1. dFeed' = {}
      BY <1>2, <1>5, <2>1
    <3>2. \A i : ~(dFrom' < i /\ i <= dMark') \/ i \notin Ids
      BY <1>1, <1>4, <2>1, IdsAre DEF FeedInv
    <3>3. QED
      BY <1>1, <1>2, <3>1, <3>2, SameSightings DEF PassInv, Reading, Committed, ScannedIsInFeed
  <2>2. CASE dMark # -1
    <3>1. UNCHANGED <<dMark, dFrom>>
      BY <1>1, <2>2
    <3>2. QED
      BY <1>1, <1>2, <3>1, TablesKeep DEF PassInv, Reading, Committed
  <2>3. QED
    BY <2>1, <2>2
<1>11. ShownInv' /\ FactsKept'
  BY <1>1, <1>2, <1>3 DEF FeedInv, ShownInv, FactsKept
<1>12. MilestoneHasEvent'
  BY <1>1, <1>2 DEF FeedInv, MilestoneHasEvent
<1>13. QED
  BY <1>7, <1>8, <1>9, <1>10, <1>11, <1>12 DEF FeedInv

\* A database that never ran the service.
LEMMA FeedStarts == FeedInit => FeedInv
<1> SUFFICES ASSUME FeedInit
             PROVE  FeedInv
  OBVIOUS
<1>1. /\ dSeen = <<>> /\ dImported = FALSE /\ dRange = 0 /\ dMark = -1 /\ dFeed = {} /\ dMiles = {}
      /\ dUp = FALSE /\ dPc = "off" /\ dFinal = FALSE /\ dAt = 0 /\ dLongest = 0 /\ dReach = 0 /\ dClaimed = {}
      /\ dClosed = {} /\ dFacts = {} /\ dPass = NoPass /\ dGiven = 0 /\ dShown = {} /\ dSilent = {} /\ dFrom = 0
  BY DEF FeedInit
<1>2. NoPass \in Passes /\ NoPass.closed = {} /\ NoPass.longest = 0 /\ NoPass.made = {}
  BY BlankPass DEF NoPass
<1>3. MaxSeen \in Nat /\ MaxRange \in Nat /\ MaxGiven \in Nat
  BY FeedConstants
<1>4. dSeen \in Seq([frame : Airframes, length : 0 .. MaxLength]) /\ Len(dSeen) = 0 /\ Ids = {}
  <2>1. Ids = 1 .. Len(dSeen)
    BY <1>1 DEF Ids
  <2>2. QED
    BY <1>1, <2>1
<1>5. FeedTypeOK
  BY <1>1, <1>3, <1>4 DEF FeedTypeOK
<1>6. FeedTypes
  <2> HIDE DEF NoPass
  <2>1. 0 \in 0 .. MaxSeen /\ 0 \in 0 .. MaxRange /\ 0 \in 0 .. MaxGiven /\ 0 <= MaxSeen
    BY <1>3
  <2>2. dPass \in Passes /\ dPass.closed \subseteq Ids /\ dPass.longest <= Len(dSeen)
    BY <1>1, <1>2, <1>4
  <2>3. dLongest <= Len(dSeen)
    BY <1>1, <1>4
  <2>4. {dUp, dFinal} \subseteq BOOLEAN /\ dImported \in BOOLEAN
    BY <1>1
  <2>5. QED
    BY <1>1, <1>4, <1>5, <2>1, <2>2, <2>3, <2>4 DEF FeedTypes
<1>7. StageInv /\ ShownInv /\ MilestoneHasEvent /\ FactsKept
  <2>1. 1 .. 0 = {}
    OBVIOUS
  <2> HIDE DEF NoPass
  <2>2. QED
    BY <1>1, <1>2, <2>1 DEF StageInv, ShownInv, MilestoneHasEvent, FactsKept
<1>8. MarkInv /\ PassInv /\ ScannedIsInFeed
  BY <1>1, <1>4 DEF MarkInv, PassInv, Reading, Committed, ScannedIsInFeed
<1>9. QED
  BY <1>6, <1>7, <1>8 DEF FeedInv

\* Every step of the specification keeps the invariant.
LEMMA FeedStep == FeedInv /\ [FeedNext]_dVars => FeedInv'
<1> SUFFICES ASSUME FeedInv, [FeedNext]_dVars
             PROVE  FeedInv'
  OBVIOUS
<1>1. CASE NewSighting \/ (\E i \in Ids : RecordLifecycle(i)) \/ RecordFact \/ WorldMoves
  BY <1>1, NewSightingStep, RecordLifecycleStep, RecordFactStep, WorldMovesStep
<1>2. CASE PassBegin \/ PassRead \/ PassWrite \/ PassMark
  BY <1>2, PassBeginStep, PassReadStep, PassWriteStep, PassMarkStep
<1>3. CASE PassFails \/ PassPublish
  BY <1>3, PassFailsStep, PassPublishStep
<1>4. CASE StopFeed \/ CrashFeed \/ StartFeed
  BY <1>4, StopFeedStep, CrashFeedStep, StartFeedStep
<1>5. CASE UNCHANGED dVars
  <2>1. UNCHANGED <<dSeen, dImported, dRange, dMark, dFeed, dMiles, dUp, dPc, dFinal, dAt, dLongest, dReach, dClaimed,
                    dClosed, dFacts, dPass, dGiven, dShown, dLost, dSilent, dFrom>>
    BY <1>5 DEF dVars
  <2>2. FeedTypes'
    BY <2>1, SameSightings DEF FeedInv, FeedTypes, FeedTypeOK
  <2>3. StageInv' /\ MarkInv' /\ ShownInv' /\ MilestoneHasEvent' /\ FactsKept'
    BY <2>1 DEF FeedInv, StageInv, MarkInv, Reading, ShownInv, MilestoneHasEvent, FactsKept
  <2>4. PassInv'
    BY <2>1, SameSightings, TablesKeep DEF FeedInv, PassInv, Reading, Committed, Announced, News
  <2>5. QED
    BY <2>1, <2>2, <2>3, <2>4, TablesKeep DEF FeedInv
<1>6. QED
  BY <1>1, <1>2, <1>3, <1>4, <1>5 DEF FeedNext
-----------------------------------------------------------------------------
\* The feed's invariant holds in every state, whatever fails, is cancelled or restarts.
THEOREM FeedIsInvariant == FeedSpec => []FeedInv
<1>1. QED
  BY FeedStarts, FeedStep, PTL DEF FeedSpec

\* The watermark never passes an airframe the feed does not have, nothing older than the first boot is
\* news, a milestone and its event stand together, no fact is dropped in memory, and what the feed
\* holds at rest was broadcast unless its pass was cut short (service.py: flush, start, stop).
THEOREM FeedPromises == FeedSpec => []FeedInvariant
<1>1. FeedInv => HistoryIsNotNews
  <2> SUFFICES ASSUME FeedInv, NEW i \in Ids, i <= dFrom, FirstEver(i), <<"first", dSeen[i].frame>> \in dFeed
               PROVE  FALSE
    BY DEF HistoryIsNotNews
  <2>1. \A j \in Ids : j \in Int /\ dSeen[j].frame \in Airframes
    BY IdsAre DEF FeedInv
  <2>2. PICK j \in Ids : dFrom < j /\ FirstEver(j) /\ dSeen[j].frame = dSeen[i].frame
    BY <2>1 DEF FeedInv, PassInv, News
  <2>3. j <= i
    BY <2>2 DEF FirstEver
  <2>4. dFrom \in Int
    BY FeedTypesAre
  <2>5. QED
    BY <2>1, <2>2, <2>3, <2>4
<1>2. FeedInv => RecordedIsShown
  BY DEF FeedInv, StageInv, ShownInv, NoPass, RecordedIsShown
<1>3. FeedInv => FeedInvariant
  BY <1>1, <1>2 DEF FeedInv, FeedTypes, FeedInvariant
<1>4. QED
  BY <1>3, FeedIsInvariant, PTL

\* No event is broadcast twice: a pass that derived again what was recorded before, after a failed
\* watermark write or a restart, has nothing new to publish (repository.py: record).
THEOREM NothingIsPublishedTwice == FeedSpec => PublishedOnce
<1>1. FeedInv /\ [FeedNext]_dVars => [dPc = "publish" /\ dPc' # dPc => dPass.made \cap dShown = {}]_dVars
  BY DEF FeedInv, ShownInv
<1>2. QED
  BY <1>1, FeedIsInvariant, PTL DEF FeedSpec, PublishedOnce

(***************************************************************************)
(* Alert rules, templates and watchlists (alerts/service.py,               *)
(* alerts/templates.py, watchlists/service.py).                            *)
(***************************************************************************)
\* One rule, and where a request may stand.
RuleRows == [id : Nat \ {0}, template : 0 .. Catalogue, edit : Nat]
Stages   == {"idle", "insert", "present", "create", "rules", "names", "install", "lists", "entries", "index"}
Tasks    == [pc : Stages, rules : SUBSET RuleRows, name : 0 .. MaxWork, entry : BOOLEAN,
             keys : SUBSET Templates, lone : BOOLEAN]
Editing  == {"rules", "names", "install", "lists", "entries", "index"}    \* has written, and not installed yet
Listing  == {"lists", "entries", "index"}                                 \* ... and not indexed yet

\* The types of everything, and rule ids that are bounded, so that there is a next one.
RuleTypes ==
  /\ uRules \subseteq RuleRows /\ \E n \in Nat : \A r \in uRules : r.id \in 0 .. n
  /\ uList \in [name : 0 .. MaxWork, entry : BOOLEAN]
  /\ uConfig \subseteq Templates /\ uKeys \subseteq Templates
  /\ uUp \in BOOLEAN /\ uTracked \in BOOLEAN /\ uTask \in [Requests -> Tasks]
  /\ uBudget \in [work : 0 .. MaxWork, boots : Nat, faults : Nat]
  /\ uAlone \in [rules : BOOLEAN, index : BOOLEAN]

\* A request that met no other finds the tables as it left or read them.
Alone(q) ==
  /\ Busy = {q}
  /\ uTask[q].pc \in {"names", "install"} => uTask[q].rules = uRules
  /\ uTask[q].pc \in {"install", "entries", "index"} => uTask[q].name = uList.name
  /\ uTask[q].pc = "index" => uTask[q].entry = uList.entry
  /\ uTask[q].pc \in {"insert", "create"} => uTask[q].keys \cap KeysPresent = {}
  /\ uTask[q].pc \in {"present", "create"} => uTask[q].keys \cap uDropped = {}
AloneInv == \A q \in Requests : uTask[q].pc # "idle" /\ uTask[q].lone => Alone(q)

\* What is in force is what the tables say, unless a request has written and not installed yet, or the
\* last one to install met another.
ForceInv ==
  /\ uUp /\ uAlone.rules /\ (\A q \in Requests : uTask[q].pc \notin Editing)
       => uEngine = [rules |-> uRules, name |-> uList.name]
  /\ uUp /\ uAlone.index /\ (\A q \in Requests : uTask[q].pc \notin Listing)
       => uIndex = BuildIndex(uList.name, uList.entry)
  /\ uFlag = (IF uTracked THEN uIndex ELSE 0)

\* Nothing is under way while the process is down.
DownInv == /\ ~uUp => uFlag = 0 /\ ~uTracked /\ \A q \in Requests : uTask[q] = Idle
           /\ uUp => uKeys = uConfig

\* The templates a save has yet to create.
Wanted == UNION {uTask[q].keys : q \in {r \in Requests : uTask[r].pc \in {"present", "create"}}}

\* A configured template has its rule, or a reason not to.
ConfigInv == uUp \/ KeysPresent # {} => uConfig \subseteq KeysPresent \cup uDropped \cup uShort \cup Wanted

RulesInv == /\ RuleTypes /\ AloneInv /\ ForceInv /\ DownInv /\ ConfigInv
            /\ DeletionIsKept /\ OneRulePerTemplate

\* The next rule id exists, and is a positive number (create_rule).
LEMMA NextRuleIdTyped ==
  ASSUME RuleTypes
  PROVE  NextRuleId \in Nat \ {0}
<1> DEFINE S == {0} \cup {r.id : r \in uRules}
<1>1. PICK n \in Nat : \A r \in uRules : r.id \in 0 .. n
  BY DEF RuleTypes
<1>2. S \in SUBSET (0 .. n) /\ S # {}
  BY <1>1
<1>3. NextRuleId = 1 + Max(S)
  BY DEF NextRuleId
<1> HIDE DEF S
<1>4. PICK top \in S : \A x \in S : x <= top
  BY <1>2, MaxExists
<1>5. \A x \in S : x \in Int /\ x <= top
  BY <1>2, <1>4
<1>6. Max(S) = top
  BY <1>4, <1>5, MaxIs
<1>7. top \in Nat
  BY <1>2, <1>4
<1> QED BY <1>3, <1>6, <1>7

\* The rows made for a set of templates are one row for each of them, of the type of a rule, with ids
\* that are bounded (create_rules).
LEMMA TemplateRowsAre ==
  ASSUME RuleTypes, NEW keys \in SUBSET Templates
  PROVE  /\ TemplateRows(keys) \subseteq RuleRows
         /\ \E n \in Nat : \A r \in uRules \cup TemplateRows(keys) : r.id \in 0 .. n
         /\ \A k \in keys : \E r \in TemplateRows(keys) : r.template = k
         /\ \A r \in TemplateRows(keys) : r.template \in keys
         /\ \A r, s \in TemplateRows(keys) : r.template = s.template => r = s
<1> DEFINE before(k) == {j \in keys : j < k}
           row(k)    == [id |-> NextRuleId + Cardinality(before(k)), template |-> k, edit |-> 0]
<1>1. NextRuleId \in Nat \ {0} /\ Catalogue \in Nat
  BY NextRuleIdTyped, RuleConstants
<1>2. IsFiniteSet(1 .. Catalogue) /\ Cardinality(1 .. Catalogue) <= Catalogue
  <2>1. IsFiniteSet(1 .. Catalogue)
    BY <1>1, FS_Interval
  <2>2. Cardinality(1 .. Catalogue) = IF 1 > Catalogue THEN 0 ELSE Catalogue - 1 + 1
    BY <1>1, FS_Interval
  <2> QED BY <1>1, <2>1, <2>2
<1>3. \A k : Cardinality(before(k)) \in Nat /\ Cardinality(before(k)) <= Catalogue
  <2> SUFFICES ASSUME NEW k PROVE Cardinality(before(k)) \in Nat /\ Cardinality(before(k)) <= Catalogue
    OBVIOUS
  <2>1. before(k) \in SUBSET (1 .. Catalogue)
    BY DEF Templates
  <2> HIDE DEF before
  <2>2. IsFiniteSet(before(k)) /\ Cardinality(before(k)) <= Cardinality(1 .. Catalogue)
    BY <1>2, <2>1, FS_Subset
  <2>3. Cardinality(before(k)) \in Nat
    BY <2>2, FS_CardinalityType
  <2>4. Cardinality(1 .. Catalogue) \in Nat
    BY <1>2, FS_CardinalityType
  <2> QED BY <1>1, <1>2, <2>2, <2>3, <2>4
<1>4. TemplateRows(keys) = {row(k) : k \in keys}
  BY DEF TemplateRows
<1>5. \A k \in keys : row(k).template = k /\ row(k).id = NextRuleId + Cardinality(before(k)) /\ row(k).edit = 0
  OBVIOUS
<1> HIDE DEF before
<1>6. \A k \in keys : row(k) \in RuleRows
  BY <1>1, <1>3 DEF RuleRows, Templates
<1>7. \A k \in keys : row(k).id \in 0 .. NextRuleId + Catalogue
  BY <1>1, <1>3, <1>5
<1> HIDE DEF row
<1>8. PICK n \in Nat : \A r \in uRules : r.id \in 0 .. n
  BY DEF RuleTypes
<1>9. \E m \in Nat : \A r \in uRules \cup TemplateRows(keys) : r.id \in 0 .. m
  <2> DEFINE m == n + NextRuleId + Catalogue
  <2>1. m \in Nat /\ \A x : x \in 0 .. n \/ x \in 0 .. NextRuleId + Catalogue => x \in 0 .. m
    BY <1>1, <1>8
  <2> HIDE DEF m
  <2>2. \A r \in uRules \cup TemplateRows(keys) : r.id \in 0 .. m
    BY <1>4, <1>7, <1>8, <2>1
  <2> QED BY <2>1, <2>2
<1>10. \A r, s \in TemplateRows(keys) : r.template = s.template => r = s
  BY <1>4, <1>5
<1> QED BY <1>4, <1>5, <1>6, <1>9, <1>10

\* A request that begins is typed, changes nothing of another's but that they have met, and stands
\* alone only when no other is under way (the first await of a handler).
LEMMA BeginIs ==
  ASSUME RuleTypes, NEW q \in Requests, NEW pc \in Stages \ {"idle"}, NEW keys \in SUBSET Templates,
         uTask[q].pc = "idle", Begin(q, pc, keys)
  PROVE  /\ uTask' \in [Requests -> Tasks]
         /\ uTask'[q].pc = pc /\ uTask'[q].keys = keys /\ uTask'[q].lone = (Busy = {})
         /\ \A r \in Requests \ {q} : /\ uTask'[r].pc = uTask[r].pc /\ uTask'[r].keys = uTask[r].keys
                                      /\ uTask[r].pc # "idle" => ~uTask'[r].lone
<1>1. uTask \in [Requests -> Tasks] /\ MaxWork \in Nat
  BY RuleConstants DEF RuleTypes
<1> DEFINE mine      == [Idle EXCEPT !.pc = pc, !.keys = keys, !.lone = Busy = {}]
           theirs(r) == [uTask[r] EXCEPT !.lone = FALSE]
           next(r)   == CASE r = q -> mine [] r \in Busy -> theirs(r) [] OTHER -> uTask[r]
<1>a. uTask' = [r \in Requests |-> next(r)]
  BY DEF Begin
<1>b. /\ next(q) = mine
      /\ \A r : r # q /\ r \in Busy => next(r) = theirs(r)
      /\ \A r : r # q /\ r \notin Busy => next(r) = uTask[r]
  <2> HIDE DEF mine, theirs
  <2>1. q \notin Busy
    BY DEF Busy
  <2> QED BY <2>1
<1>c. \A r \in Requests : uTask'[r] = next(r)
  <2> HIDE DEF next
  <2> QED BY <1>a
<1> HIDE DEF next
<1>2. uTask'[q] = [Idle EXCEPT !.pc = pc, !.keys = keys, !.lone = Busy = {}]
  BY <1>b, <1>c
<1>3. \A r \in Requests \ {q} : r \in Busy => uTask'[r] = [uTask[r] EXCEPT !.lone = FALSE]
  BY <1>b, <1>c
<1>4. \A r \in Requests \ {q} : r \notin Busy => uTask'[r] = uTask[r]
  BY <1>b, <1>c
<1>5. uTask'[q] = [pc |-> pc, rules |-> {}, name |-> 0, entry |-> FALSE, keys |-> keys, lone |-> Busy = {}]
  BY <1>2 DEF Idle
<1>6. uTask'[q] \in Tasks
  <2>1. (Busy = {}) \in BOOLEAN
    OBVIOUS
  <2> QED BY <1>1, <1>5, <2>1 DEF Tasks
<1>7. \A r \in Requests \ {q} : uTask'[r] \in Tasks
  <2> SUFFICES ASSUME NEW r \in Requests \ {q} PROVE uTask'[r] \in Tasks
    OBVIOUS
  <2>1. uTask[r] \in Tasks
    BY <1>1
  <2>2. [uTask[r] EXCEPT !.lone = FALSE] \in Tasks
    BY <2>1 DEF Tasks
  <2> QED BY <1>3, <1>4, <2>1, <2>2
<1>8. \A r \in Requests \ {q} : /\ uTask'[r].pc = uTask[r].pc /\ uTask'[r].keys = uTask[r].keys
                                /\ uTask[r].pc # "idle" => ~uTask'[r].lone
  <2> SUFFICES ASSUME NEW r \in Requests \ {q}
               PROVE  /\ uTask'[r].pc = uTask[r].pc /\ uTask'[r].keys = uTask[r].keys
                      /\ uTask[r].pc # "idle" => ~uTask'[r].lone
    OBVIOUS
  <2>1. uTask[r] \in Tasks
    BY <1>1
  <2>2. LET t == [uTask[r] EXCEPT !.lone = FALSE] IN t.pc = uTask[r].pc /\ t.keys = uTask[r].keys /\ ~t.lone
    BY <2>1 DEF Tasks
  <2>3. uTask[r].pc # "idle" => r \in Busy
    BY DEF Busy
  <2> QED BY <1>3, <1>4, <2>2, <2>3
<1>9. uTask' \in [Requests -> Tasks]
  <2>1. uTask' = [r \in Requests |-> uTask'[r]]
    BY <1>a
  <2>2. \A r \in Requests : uTask'[r] \in Tasks
    BY <1>6, <1>7
  <2> QED BY <2>1, <2>2
<1> QED BY <1>5, <1>8, <1>9

\* ... and what it met there is what its handler checked.
LEMMA BeginAlone ==
  ASSUME RuleTypes, NEW q \in Requests, NEW pc \in {"rules", "lists", "insert", "present"},
         NEW keys \in SUBSET Templates, uTask[q].pc = "idle", Begin(q, pc, keys),
         pc = "insert" => keys \cap KeysPresent' = {},
         pc = "present" => keys \cap uDropped' = {}
  PROVE  AloneInv'
<1>1. pc \in Stages \ {"idle"}
  BY DEF Stages
<1>2. /\ uTask'[q].pc = pc /\ uTask'[q].keys = keys /\ uTask'[q].lone = (Busy = {})
      /\ \A r \in Requests \ {q} : /\ uTask'[r].pc = uTask[r].pc
                                   /\ uTask[r].pc # "idle" => ~uTask'[r].lone
  BY <1>1, BeginIs
<1>3. ASSUME NEW r \in Requests, uTask'[r].pc # "idle", uTask'[r].lone
      PROVE  r = q /\ Busy = {}
  BY <1>2, <1>3
<1>4. Busy = {} => Busy' = {q}
  BY <1>1, <1>2 DEF Busy
<1>5. Busy = {} => Alone(q)'
  BY <1>2, <1>4 DEF Alone
<1> QED BY <1>3, <1>5 DEF AloneInv

\* A request under way that takes its next step is alone only if it was.
LEMMA OwnStep ==
  ASSUME RuleTypes, AloneInv, NEW q \in Requests, uTask[q].pc # "idle", uTask' \in [Requests -> Tasks],
         \A r \in Requests \ {q} : uTask'[r] = uTask[r],
         uTask'[q].pc # "idle" => uTask'[q].lone = uTask[q].lone,
         Alone(q) /\ Busy' = {q} => Alone(q)'
  PROVE  AloneInv'
<1>1. q \in Busy
  BY DEF Busy
<1>2. ASSUME NEW r \in Requests \ {q}, uTask'[r].pc # "idle", uTask'[r].lone PROVE FALSE
  <2>1. Alone(r)
    BY <1>2 DEF AloneInv
  <2> QED BY <1>1, <2>1 DEF Alone
<1>3. ASSUME uTask'[q].pc # "idle", uTask'[q].lone PROVE Alone(q)'
  <2>1. Alone(q)
    BY <1>3 DEF AloneInv
  <2>2. Busy' = {q}
    BY <1>3, <2>1 DEF Alone, Busy
  <2> QED BY <2>1, <2>2
<1> QED BY <1>2, <1>3 DEF AloneInv

\* What a handler that has committed and begins its reload, or has found something to do, must show.
LEMMA BeginKeeps ==
  ASSUME RulesInv, NEW q \in Requests, NEW pc \in {"rules", "lists", "insert", "present"},
         NEW keys \in SUBSET Templates, uTask[q].pc = "idle", uUp, Begin(q, pc, keys),
         UNCHANGED <<uUp, uMemory, uAlone, uRaced, uEmptied, uShort>>,
         uRules' \subseteq RuleRows, \E n \in Nat : \A r \in uRules' : r.id \in 0 .. n,
         uList' \in [name : 0 .. MaxWork, entry : BOOLEAN], uConfig' \subseteq Templates, uKeys' = uConfig',
         uBudget' \in [work : 0 .. MaxWork, boots : Nat, faults : Nat],
         pc = "insert" => keys \cap KeysPresent' = {},
         pc = "present" => keys \cap uDropped' = {},
         pc \in {"insert", "present"} => UNCHANGED uTables,
         pc = "rules" => UNCHANGED uList,
         \A k \in uConfig' : \/ k \in KeysPresent' \cup uDropped' \cup uShort \cup Wanted
                             \/ pc = "present" /\ k \in keys,
         DeletionIsKept', OneRulePerTemplate'
  PROVE  RulesInv'
<1>0. RuleTypes /\ ForceInv /\ DownInv
  BY DEF RulesInv
<1>1. pc \in Stages \ {"idle"}
  BY DEF Stages
<1>2. /\ uTask' \in [Requests -> Tasks] /\ uTask'[q].pc = pc /\ uTask'[q].keys = keys
      /\ \A r \in Requests \ {q} : uTask'[r].pc = uTask[r].pc /\ uTask'[r].keys = uTask[r].keys
  BY <1>0, <1>1, BeginIs
<1>3. RuleTypes'
  BY <1>0, <1>2 DEF RuleTypes, uMemory
<1>4. AloneInv'
  BY <1>0, BeginAlone
<1>5. ForceInv'
  <2>1. pc = "rules" => ~(\A r \in Requests : uTask'[r].pc \notin Editing)
    BY <1>2 DEF Editing
  <2>2. pc = "lists" => /\ ~(\A r \in Requests : uTask'[r].pc \notin Editing)
                        /\ ~(\A r \in Requests : uTask'[r].pc \notin Listing)
    BY <1>2 DEF Editing, Listing
  <2>3. (\A r \in Requests : uTask'[r].pc \notin Editing) => (\A r \in Requests : uTask[r].pc \notin Editing)
    BY <1>2 DEF Editing
  <2>4. (\A r \in Requests : uTask'[r].pc \notin Listing) => (\A r \in Requests : uTask[r].pc \notin Listing)
    BY <1>2 DEF Listing
  <2>5. /\ uEngine' = uEngine /\ uIndex' = uIndex /\ uTracked' = uTracked /\ uFlag' = uFlag /\ uAlone' = uAlone
        /\ uUp' = uUp
    BY DEF uMemory
  <2>6. pc # "lists" => uList' = uList
    BY DEF uTables
  <2>7. pc \notin {"lists", "rules"} => uRules' = uRules
    BY DEF uTables
  <2>8. /\ uUp' /\ uAlone'.rules /\ (\A r \in Requests : uTask'[r].pc \notin Editing)
             => uEngine' = [rules |-> uRules', name |-> uList'.name]
    BY <1>0, <2>1, <2>2, <2>3, <2>5, <2>6, <2>7 DEF ForceInv
  <2>9. /\ uUp' /\ uAlone'.index /\ (\A r \in Requests : uTask'[r].pc \notin Listing)
             => uIndex' = BuildIndex(uList'.name, uList'.entry)
    BY <1>0, <2>2, <2>4, <2>5, <2>6 DEF ForceInv
  <2>10. uFlag' = (IF uTracked' THEN uIndex' ELSE 0)
    BY <1>0, <2>5 DEF ForceInv
  <2> QED BY <2>8, <2>9, <2>10 DEF ForceInv
<1>6. DownInv'
  BY DEF DownInv
<1>7. ConfigInv'
  <2>1. \A k \in Wanted : k \in Wanted'
    <3> SUFFICES ASSUME NEW r \in Requests, uTask[r].pc \in {"present", "create"}, NEW k \in uTask[r].keys
                 PROVE  k \in Wanted'
      BY DEF Wanted
    <3>1. r # q
      OBVIOUS
    <3>2. uTask'[r].pc \in {"present", "create"} /\ k \in uTask'[r].keys
      BY <1>2, <3>1
    <3> QED BY <3>2 DEF Wanted
  <2>2. pc = "present" => \A k \in keys : k \in Wanted'
    BY <1>2 DEF Wanted
  <2> QED BY <2>1, <2>2 DEF ConfigInv
<1> QED BY <1>3, <1>4, <1>5, <1>6, <1>7 DEF RulesInv

\* The templates that have a rule.
LEMMA PresentIs ==
  ASSUME NEW k
  PROVE  k \in KeysPresent <=> k # NoTemplate /\ \E r \in uRules : r.template = k
  BY DEF KeysPresent

\* A new rule that is of no template, an edit that keeps the provenance: the templates with a rule stay.
LEMMA InsertRuleKeeps ==
  ASSUME RulesInv, NEW q \in Requests, InsertRule(q) PROVE RulesInv'
<1>0. RuleTypes /\ DownInv /\ ConfigInv /\ DeletionIsKept /\ OneRulePerTemplate
  BY DEF RulesInv
<1> DEFINE new == [id |-> NextRuleId, template |-> NoTemplate, edit |-> 0]
<1>1. uTask[q].pc = "idle" /\ uUp /\ Begin(q, "rules", {}) /\ uRules' = uRules \cup {new}
  BY DEF InsertRule, Allowed
<1>2. UNCHANGED <<uList, uConfig, uKeys, uUp, uMemory, uAlone, uRaced, uDropped, uEmptied, uShort>>
  BY DEF InsertRule, uHistory
<1>3. NextRuleId \in Nat \ {0} /\ Catalogue \in Nat
  BY <1>0, NextRuleIdTyped, RuleConstants
<1>4. new \in RuleRows /\ new.template = NoTemplate /\ new.id = NextRuleId
  BY <1>3 DEF RuleRows, NoTemplate
<1> HIDE DEF new
<1>5. \E n \in Nat : \A r \in uRules' : r.id \in 0 .. n
  <2>1. PICK n \in Nat : \A r \in uRules : r.id \in 0 .. n
    BY <1>0 DEF RuleTypes
  <2>2. n + NextRuleId \in Nat /\ \A x : x \in 0 .. n \/ x = NextRuleId => x \in 0 .. (n + NextRuleId)
    BY <1>3, <2>1
  <2>3. \A r \in uRules' : r.id \in 0 .. (n + NextRuleId)
    BY <1>1, <1>4, <2>1, <2>2
  <2> QED BY <2>2, <2>3
<1>6. uBudget' \in [work : 0 .. MaxWork, boots : Nat, faults : Nat]
  BY <1>0, RuleConstants DEF InsertRule, Allowed, RuleTypes
<1>7. KeysPresent' = KeysPresent
  BY <1>1, <1>4 DEF KeysPresent
<1>8. DeletionIsKept' /\ OneRulePerTemplate'
  BY <1>0, <1>1, <1>2, <1>4, <1>7 DEF DeletionIsKept, OneRulePerTemplate
<1>9. \A k \in uConfig' : k \in KeysPresent' \cup uDropped' \cup uShort \cup Wanted
  BY <1>0, <1>1, <1>2, <1>7 DEF ConfigInv
<1>10. uRules' \subseteq RuleRows /\ uList' \in [name : 0 .. MaxWork, entry : BOOLEAN]
       /\ uConfig' \subseteq Templates /\ uKeys' = uConfig'
  BY <1>0, <1>1, <1>2, <1>4 DEF RuleTypes, DownInv
<1>11. {} \in SUBSET Templates
  OBVIOUS
<1> QED BY <1>1, <1>2, <1>5, <1>6, <1>8, <1>9, <1>10, <1>11, BeginKeeps

\* update_rule
LEMMA ReplaceRuleKeeps ==
  ASSUME RulesInv, NEW q \in Requests, ReplaceRule(q) PROVE RulesInv'
<1>0. RuleTypes /\ DownInv /\ ConfigInv /\ DeletionIsKept /\ OneRulePerTemplate
  BY DEF RulesInv
<1>1. uTask[q].pc = "idle" /\ uUp /\ Begin(q, "rules", {})
  BY DEF ReplaceRule, Allowed
<1>2. UNCHANGED <<uList, uConfig, uKeys, uUp, uMemory, uAlone, uRaced, uDropped, uEmptied, uShort>>
  BY DEF ReplaceRule, uHistory
<1>3. uBudget.work \in Nat /\ uBudget' \in [work : 0 .. MaxWork, boots : Nat, faults : Nat]
  BY <1>0, RuleConstants DEF ReplaceRule, Allowed, RuleTypes
<1>4. PICK r \in uRules : uRules' = (uRules \ {r}) \cup {[r EXCEPT !.edit = uBudget.work]}
  BY DEF ReplaceRule
<1> DEFINE new == [r EXCEPT !.edit = uBudget.work]
<1>5. r \in RuleRows
  BY <1>0, <1>4 DEF RuleTypes
<1>6. new \in RuleRows /\ new.id = r.id /\ new.template = r.template
  BY <1>3, <1>5 DEF RuleRows
<1>7. uRules' = (uRules \ {r}) \cup {new}
  BY <1>4
<1> HIDE DEF new
<1>8. \E n \in Nat : \A s \in uRules' : s.id \in 0 .. n
  BY <1>0, <1>4, <1>6, <1>7 DEF RuleTypes
<1>9. {s.template : s \in uRules'} = {s.template : s \in uRules}
  BY <1>4, <1>6, <1>7
<1>10. KeysPresent' = KeysPresent
  BY <1>9 DEF KeysPresent
<1>11. OneRulePerTemplate'
  <2> SUFFICES ASSUME NEW s \in uRules', NEW t \in uRules', s.template = t.template,
                      s.template \notin uRaced \cup {NoTemplate}
               PROVE  s = t
    BY <1>2 DEF OneRulePerTemplate
  <2>1. \A u \in uRules' : \/ u = new
                           \/ u \in uRules /\ u # r
    BY <1>7
  <2>2. \A u, v \in uRules : u.template = v.template /\ u.template \notin uRaced \cup {NoTemplate} => u = v
    BY <1>0 DEF OneRulePerTemplate
  <2> QED BY <1>4, <1>6, <2>1, <2>2
<1>12. DeletionIsKept'
  BY <1>0, <1>2, <1>10 DEF DeletionIsKept
<1>13. \A k \in uConfig' : k \in KeysPresent' \cup uDropped' \cup uShort \cup Wanted
  BY <1>0, <1>1, <1>2, <1>10 DEF ConfigInv
<1>14. uRules' \subseteq RuleRows /\ uList' \in [name : 0 .. MaxWork, entry : BOOLEAN]
       /\ uConfig' \subseteq Templates /\ uKeys' = uConfig'
  BY <1>0, <1>1, <1>2, <1>6, <1>7 DEF RuleTypes, DownInv
<1>15. {} \in SUBSET Templates
  OBVIOUS
<1> QED BY <1>1, <1>2, <1>3, <1>8, <1>11, <1>12, <1>13, <1>14, <1>15, BeginKeeps

\* delete_rule
LEMMA DropRuleKeeps ==
  ASSUME RulesInv, NEW q \in Requests, DropRule(q) PROVE RulesInv'
<1>0. RuleTypes /\ DownInv /\ ConfigInv /\ DeletionIsKept /\ OneRulePerTemplate
  BY DEF RulesInv
<1>1. uTask[q].pc = "idle" /\ uUp /\ Begin(q, "rules", {})
  BY DEF DropRule, Allowed
<1>2. UNCHANGED <<uList, uConfig, uKeys, uUp, uMemory, uAlone, uRaced, uEmptied, uShort>>
  BY DEF DropRule
<1>3. uBudget' \in [work : 0 .. MaxWork, boots : Nat, faults : Nat]
  BY <1>0, RuleConstants DEF DropRule, Allowed, RuleTypes
<1>4. PICK r \in uRules :
        /\ uRules' = uRules \ {r}
        /\ uDropped' = uDropped \cup ({r.template} \ ({NoTemplate} \cup {t.template : t \in uRules'}))
  BY DEF DropRule
<1>5. \E n \in Nat : \A s \in uRules' : s.id \in 0 .. n
  BY <1>0, <1>4 DEF RuleTypes
<1>6. \A k \in KeysPresent : k \in KeysPresent' \/ k \in uDropped'
  BY <1>4 DEF KeysPresent
<1>7. \A k \in KeysPresent' : k \in KeysPresent
  BY <1>4 DEF KeysPresent
<1>8. \A k \in uDropped' : k \in uDropped \/ k \notin KeysPresent'
  BY <1>4 DEF KeysPresent
<1>9. DeletionIsKept'
  BY <1>0, <1>2, <1>7, <1>8 DEF DeletionIsKept
<1>10. OneRulePerTemplate'
  BY <1>0, <1>2, <1>4 DEF OneRulePerTemplate
<1>11. \A k \in uConfig' : k \in KeysPresent' \cup uDropped' \cup uShort \cup Wanted
  <2>1. uDropped \subseteq uDropped'
    BY <1>4
  <2>2. \A k \in uConfig : k \in KeysPresent \cup uDropped \cup uShort \cup Wanted
    BY <1>0, <1>1 DEF ConfigInv
  <2> QED BY <1>2, <1>6, <2>1, <2>2
<1>12. uRules' \subseteq RuleRows /\ uList' \in [name : 0 .. MaxWork, entry : BOOLEAN]
       /\ uConfig' \subseteq Templates /\ uKeys' = uConfig'
  BY <1>0, <1>1, <1>2, <1>4 DEF RuleTypes, DownInv
<1>13. {} \in SUBSET Templates
  OBVIOUS
<1> QED BY <1>1, <1>2, <1>3, <1>5, <1>9, <1>10, <1>11, <1>12, <1>13, BeginKeeps

\* instantiate_template
LEMMA InstantiateTemplateKeeps ==
  ASSUME RulesInv, NEW q \in Requests, InstantiateTemplate(q) PROVE RulesInv'
<1>0. RuleTypes /\ DownInv /\ ConfigInv /\ DeletionIsKept /\ OneRulePerTemplate
  BY DEF RulesInv
<1>1. uTask[q].pc = "idle" /\ uUp
  BY DEF InstantiateTemplate, Allowed
<1>2. PICK k \in Templates \ KeysPresent : Begin(q, "insert", {k})
  BY DEF InstantiateTemplate
<1>3. UNCHANGED <<uRules, uList, uTables, uConfig, uKeys, uUp, uMemory, uAlone, uRaced, uDropped, uEmptied, uShort>>
  BY DEF InstantiateTemplate, uHistory, uTables
<1>4. uBudget' \in [work : 0 .. MaxWork, boots : Nat, faults : Nat]
  BY <1>0, RuleConstants DEF InstantiateTemplate, Allowed, RuleTypes
<1>5. KeysPresent' = KeysPresent
  BY <1>3 DEF KeysPresent
<1>6. DeletionIsKept' /\ OneRulePerTemplate'
  BY <1>0, <1>3, <1>5 DEF DeletionIsKept, OneRulePerTemplate
<1>7. \A x \in uConfig' : x \in KeysPresent' \cup uDropped' \cup uShort \cup Wanted
  BY <1>0, <1>1, <1>3, <1>5 DEF ConfigInv
<1>8. /\ uRules' \subseteq RuleRows /\ uList' \in [name : 0 .. MaxWork, entry : BOOLEAN]
      /\ uConfig' \subseteq Templates /\ uKeys' = uConfig' /\ \E n \in Nat : \A s \in uRules' : s.id \in 0 .. n
  BY <1>0, <1>1, <1>3 DEF RuleTypes, DownInv
<1>9. {k} \in SUBSET Templates /\ {k} \cap KeysPresent' = {}
  BY <1>2, <1>5
<1> QED BY <1>1, <1>2, <1>3, <1>4, <1>6, <1>7, <1>8, <1>9, BeginKeeps

\* apply_enabled_templates up to its first await
LEMMA SaveTemplatesKeeps ==
  ASSUME RulesInv, NEW q \in Requests, SaveTemplates(q) PROVE RulesInv'
<1>0. RuleTypes /\ AloneInv /\ ForceInv /\ DownInv /\ ConfigInv /\ DeletionIsKept /\ OneRulePerTemplate
  BY DEF RulesInv
<1>1. PICK keys \in SUBSET Templates :
        /\ Allowed(q)
        /\ uConfig' = keys /\ uKeys' = keys
        /\ uDropped' = uDropped \cap keys \cap uKeys
        /\ IF Added(uKeys, keys) = {} THEN UNCHANGED uTask ELSE Begin(q, "present", Added(uKeys, keys))
        /\ UNCHANGED <<uTables, uUp, uMemory, uAlone, uRaced, uEmptied, uShort>>
  BY DEF SaveTemplates
<1>2. uTask[q].pc = "idle" /\ uUp
  BY <1>1 DEF Allowed
<1>3. UNCHANGED <<uRules, uList>>
  BY <1>1 DEF uTables
<1>4. uBudget' \in [work : 0 .. MaxWork, boots : Nat, faults : Nat]
  BY <1>0, <1>1, RuleConstants DEF Allowed, RuleTypes
<1>5. KeysPresent' = KeysPresent
  BY <1>3 DEF KeysPresent
<1>6. DeletionIsKept' /\ OneRulePerTemplate'
  BY <1>0, <1>1, <1>3, <1>5 DEF DeletionIsKept, OneRulePerTemplate
<1>7. \A k \in uConfig' : \/ k \in KeysPresent' \cup uDropped' \cup uShort \cup Wanted
                          \/ k \in Added(uKeys, keys)
  <2> SUFFICES ASSUME NEW k \in keys, k \in uKeys PROVE k \in KeysPresent \cup uDropped' \cup uShort \cup Wanted
    BY <1>1, <1>5 DEF Added
  <2>1. k \in uConfig
    BY <1>0, <1>2 DEF DownInv
  <2>2. k \in KeysPresent \cup uDropped \cup uShort \cup Wanted
    BY <1>0, <1>2, <2>1 DEF ConfigInv
  <2> QED BY <1>1, <2>2
<1>8. /\ uRules' \subseteq RuleRows /\ uList' \in [name : 0 .. MaxWork, entry : BOOLEAN]
      /\ uConfig' \subseteq Templates /\ uKeys' = uConfig' /\ \E n \in Nat : \A s \in uRules' : s.id \in 0 .. n
  BY <1>0, <1>1, <1>3 DEF RuleTypes
<1>9. Added(uKeys, keys) \in SUBSET Templates /\ Added(uKeys, keys) \cap uDropped' = {}
  BY <1>1 DEF Added
<1>10. CASE Added(uKeys, keys) # {}
  <2>1. Begin(q, "present", Added(uKeys, keys))
    BY <1>1, <1>10
  <2> QED BY <1>1, <1>2, <1>3, <1>4, <1>6, <1>7, <1>8, <1>9, <2>1, BeginKeeps
<1>11. CASE Added(uKeys, keys) = {}
  <2>1. uTask' = uTask
    BY <1>1, <1>11
  <2>2. RuleTypes'
    BY <1>0, <1>1, <1>4, <1>8, <2>1 DEF RuleTypes, uMemory
  <2>3. Busy' = Busy
    BY <2>1 DEF Busy
  <2>4. AloneInv'
    <3> SUFFICES ASSUME NEW r \in Requests, uTask[r].pc # "idle", uTask[r].lone PROVE Alone(r)'
      BY <2>1 DEF AloneInv
    <3>1. Alone(r)
      BY <1>0 DEF AloneInv
    <3> QED BY <1>1, <1>3, <1>5, <2>1, <2>3, <3>1 DEF Alone
  <2>5. ForceInv'
    BY <1>0, <1>1, <1>3, <2>1 DEF ForceInv, uMemory
  <2>6. DownInv'
    BY <1>1, <1>2 DEF DownInv
  <2>7. Wanted' = Wanted
    BY <2>1 DEF Wanted
  <2>8. ConfigInv'
    BY <1>1, <1>7, <1>11, <2>7 DEF ConfigInv
  <2> QED BY <1>6, <2>2, <2>4, <2>5, <2>6, <2>8 DEF RulesInv
<1> QED BY <1>10, <1>11

\* create_watchlist, rename_watchlist, delete_watchlist, add_entry, remove_entry
LEMMA EditWatchlistKeeps ==
  ASSUME RulesInv, NEW q \in Requests, EditWatchlist(q) PROVE RulesInv'
<1>0. RuleTypes /\ DownInv /\ ConfigInv /\ DeletionIsKept /\ OneRulePerTemplate
  BY DEF RulesInv
<1>1. uTask[q].pc = "idle" /\ uUp /\ Begin(q, "lists", {})
  BY DEF EditWatchlist, Allowed
<1>2. UNCHANGED <<uRules, uConfig, uKeys, uUp, uMemory, uAlone, uRaced, uDropped, uEmptied, uShort>>
  BY DEF EditWatchlist, uHistory
<1>3. uBudget' \in [work : 0 .. MaxWork, boots : Nat, faults : Nat] /\ uBudget.work \in 0 .. MaxWork /\ MaxWork \in Nat
  BY <1>0, RuleConstants DEF EditWatchlist, Allowed, RuleTypes
<1>4. uList' \in [name : 0 .. MaxWork, entry : BOOLEAN]
  <2>1. uList \in [name : 0 .. MaxWork, entry : BOOLEAN]
    BY <1>0 DEF RuleTypes
  <2>2. \/ uList' = [name |-> uBudget.work, entry |-> FALSE]
        \/ uList' = [uList EXCEPT !.name = uBudget.work]
        \/ uList' = [name |-> 0, entry |-> FALSE]
        \/ uList' = [uList EXCEPT !.entry = ~uList.entry]
    BY DEF EditWatchlist
  <2>3. 0 \in 0 .. MaxWork /\ FALSE \in BOOLEAN /\ (~uList.entry) \in BOOLEAN
    BY <1>3
  <2>4. [uList EXCEPT !.name = uBudget.work] \in [name : 0 .. MaxWork, entry : BOOLEAN]
    BY <1>3, <2>1
  <2>5. [uList EXCEPT !.entry = ~uList.entry] \in [name : 0 .. MaxWork, entry : BOOLEAN]
    BY <2>1, <2>3
  <2>6. /\ [name |-> uBudget.work, entry |-> FALSE] \in [name : 0 .. MaxWork, entry : BOOLEAN]
        /\ [name |-> 0, entry |-> FALSE] \in [name : 0 .. MaxWork, entry : BOOLEAN]
    BY <1>3, <2>3
  <2> QED BY <2>2, <2>4, <2>5, <2>6
<1>5. KeysPresent' = KeysPresent
  BY <1>2 DEF KeysPresent
<1>6. DeletionIsKept' /\ OneRulePerTemplate'
  BY <1>0, <1>2, <1>5 DEF DeletionIsKept, OneRulePerTemplate
<1>7. \A x \in uConfig' : x \in KeysPresent' \cup uDropped' \cup uShort \cup Wanted
  BY <1>0, <1>1, <1>2, <1>5 DEF ConfigInv
<1>8. /\ uRules' \subseteq RuleRows
      /\ uConfig' \subseteq Templates /\ uKeys' = uConfig' /\ \E n \in Nat : \A s \in uRules' : s.id \in 0 .. n
  BY <1>0, <1>1, <1>2 DEF RuleTypes, DownInv
<1>9. {} \in SUBSET Templates
  OBVIOUS
<1> QED BY <1>1, <1>2, <1>3, <1>4, <1>6, <1>7, <1>8, <1>9, BeginKeeps

\* What the next step of a request under way must show: it moves on, or is answered.
LEMMA OwnKeeps ==
  ASSUME RulesInv, NEW q \in Requests, uTask[q].pc # "idle", NEW t \in Tasks,
         uTask' = [uTask EXCEPT ![q] = t], t.pc # "idle" => t.lone = uTask[q].lone,
         UNCHANGED <<uList, uConfig, uKeys, uUp, uTracked, uEmptied>>,
         uRules' \subseteq RuleRows, \E n \in Nat : \A r \in uRules' : r.id \in 0 .. n,
         uBudget' \in [work : 0 .. MaxWork, boots : Nat, faults : Nat],
         uAlone' \in [rules : BOOLEAN, index : BOOLEAN],
         Alone(q) /\ Busy' = {q} => Alone(q)',
         ForceInv',
         uShort \subseteq uShort',
         \A k \in KeysPresent : k \in KeysPresent',
         \A k \in uDropped : k \in uDropped' \/ k \in KeysPresent',
         uTask[q].pc \in {"present", "create"} =>
           \A k \in uTask[q].keys : \/ k \in KeysPresent' \cup uShort'
                                    \/ t.pc \in {"present", "create"} /\ k \in t.keys,
         DeletionIsKept', OneRulePerTemplate'
  PROVE  RulesInv'
<1>0. RuleTypes /\ AloneInv /\ DownInv /\ ConfigInv
  BY DEF RulesInv
<1>1. uTask \in [Requests -> Tasks]
  BY <1>0 DEF RuleTypes
<1>2. uTask' \in [Requests -> Tasks] /\ uTask'[q] = t /\ \A r \in Requests \ {q} : uTask'[r] = uTask[r]
  BY <1>1
<1>3. RuleTypes'
  BY <1>0, <1>2 DEF RuleTypes
<1>4. AloneInv'
  BY <1>0, <1>2, OwnStep
<1>5. uUp
  <2>1. Idle.pc = "idle"
    BY DEF Idle
  <2> QED BY <1>0, <2>1 DEF DownInv
<1>6. DownInv'
  BY <1>0, <1>5 DEF DownInv
<1>7. \A k \in Wanted : k \in Wanted' \cup KeysPresent' \cup uShort'
  <2> SUFFICES ASSUME NEW r \in Requests, uTask[r].pc \in {"present", "create"}, NEW k \in uTask[r].keys
               PROVE  k \in Wanted' \cup KeysPresent' \cup uShort'
    BY DEF Wanted
  <2>1. CASE r # q
    <3>1. uTask'[r].pc \in {"present", "create"} /\ k \in uTask'[r].keys
      BY <1>2, <2>1
    <3> QED BY <3>1 DEF Wanted
  <2>2. CASE r = q
    <3>1. \/ k \in KeysPresent' \cup uShort'
          \/ uTask'[q].pc \in {"present", "create"} /\ k \in uTask'[q].keys
      BY <1>2, <2>2
    <3> QED BY <3>1 DEF Wanted
  <2> QED BY <2>1, <2>2
<1>8. ConfigInv'
  <2> SUFFICES ASSUME NEW k \in uConfig PROVE k \in KeysPresent' \cup uDropped' \cup uShort' \cup Wanted'
    BY DEF ConfigInv
  <2>1. k \in KeysPresent \cup uDropped \cup uShort \cup Wanted
    BY <1>0, <1>5 DEF ConfigInv
  <2> QED BY <1>7, <2>1
<1> QED BY <1>3, <1>4, <1>6, <1>8 DEF RulesInv

\* A step whose tables stay: what is in force is judged by where the requests stand.
LEMMA SameForce ==
  ASSUME ForceInv, UNCHANGED <<uTables, uUp, uMemory, uAlone>>,
         \A r \in Requests : uTask[r].pc \in Editing => uTask'[r].pc \in Editing,
         \A r \in Requests : uTask[r].pc \in Listing => uTask'[r].pc \in Listing
  PROVE  ForceInv'
BY DEF ForceInv, uTables, uMemory

\* The reads of reload_rules and reload_index, which change nothing but what the request has read.
LEMMA ReadsKeep ==
  ASSUME RulesInv, NEW q \in Requests, ReadRules(q) \/ ReadNames(q) \/ ReadLists(q) \/ ReadEntries(q)
  PROVE  RulesInv'
<1>0. RuleTypes /\ ForceInv /\ DeletionIsKept /\ OneRulePerTemplate
  BY DEF RulesInv
<1>1. /\ UNCHANGED <<uRules, uList, uTables, uConfig, uKeys, uUp, uMemory, uTracked, uBudget>>
      /\ UNCHANGED <<uAlone, uRaced, uDropped, uEmptied, uShort>>
  BY DEF ReadRules, ReadNames, ReadLists, ReadEntries, uHistory, uTables, uMemory
<1>2. /\ uTask \in [Requests -> Tasks] /\ uRules \in SUBSET RuleRows
      /\ uList \in [name : 0 .. MaxWork, entry : BOOLEAN]
  BY <1>0 DEF RuleTypes
<1> DEFINE old == uTask[q]
<1>3. old \in Tasks /\ uTask' = [uTask EXCEPT ![q] = uTask'[q]]
  BY <1>2 DEF ReadRules, ReadNames, ReadLists, ReadEntries
<1>4. KeysPresent' = KeysPresent
  BY <1>1 DEF KeysPresent
<1>5. \/ old.pc = "rules" /\ uTask'[q] = [old EXCEPT !.rules = uRules, !.pc = "names"]
      \/ old.pc = "names" /\ uTask'[q] = [old EXCEPT !.name = uList.name, !.pc = "install"]
      \/ old.pc = "lists" /\ uTask'[q] = [old EXCEPT !.name = uList.name, !.pc = "entries"]
      \/ old.pc = "entries" /\ uTask'[q] = [old EXCEPT !.entry = uList.entry, !.pc = "index"]
  BY <1>2 DEF ReadRules, ReadNames, ReadLists, ReadEntries
<1> HIDE DEF old
<1>6. /\ uTask'[q] \in Tasks /\ uTask'[q].lone = old.lone
      /\ \/ old.pc = "rules" /\ uTask'[q].pc = "names" /\ uTask'[q].rules = uRules
         \/ old.pc = "names" /\ uTask'[q].pc = "install" /\ uTask'[q].rules = old.rules /\ uTask'[q].name = uList.name
         \/ old.pc = "lists" /\ uTask'[q].pc = "entries" /\ uTask'[q].name = uList.name
         \/ old.pc = "entries" /\ uTask'[q].pc = "index" /\ uTask'[q].name = old.name /\ uTask'[q].entry = uList.entry
  <2>1. CASE old.pc = "rules" /\ uTask'[q] = [old EXCEPT !.rules = uRules, !.pc = "names"]
    BY <1>2, <1>3, <2>1 DEF Tasks, Stages
  <2>2. CASE old.pc = "names" /\ uTask'[q] = [old EXCEPT !.name = uList.name, !.pc = "install"]
    BY <1>2, <1>3, <2>2 DEF Tasks, Stages
  <2>3. CASE old.pc = "lists" /\ uTask'[q] = [old EXCEPT !.name = uList.name, !.pc = "entries"]
    BY <1>2, <1>3, <2>3 DEF Tasks, Stages
  <2>4. CASE old.pc = "entries" /\ uTask'[q] = [old EXCEPT !.entry = uList.entry, !.pc = "index"]
    BY <1>2, <1>3, <2>4 DEF Tasks, Stages
  <2> QED BY <1>5, <2>1, <2>2, <2>3, <2>4
<1>7. Alone(q) /\ Busy' = {q} => Alone(q)'
  BY <1>1, <1>6 DEF Alone, old
<1>8. \A r \in Requests \ {q} : uTask'[r] = uTask[r]
  BY <1>2, <1>3
<1>9. ForceInv'
  <2>1. \A r \in Requests : /\ uTask[r].pc \in Editing => uTask'[r].pc \in Editing
                            /\ uTask[r].pc \in Listing => uTask'[r].pc \in Listing
    BY <1>6, <1>8 DEF old, Editing, Listing
  <2> QED BY <1>0, <1>1, <2>1, SameForce
<1>10. DeletionIsKept' /\ OneRulePerTemplate'
  BY <1>0, <1>1, <1>4 DEF DeletionIsKept, OneRulePerTemplate
<1>11. /\ uRules' \subseteq RuleRows /\ \E n \in Nat : \A r \in uRules' : r.id \in 0 .. n
       /\ uBudget' \in [work : 0 .. MaxWork, boots : Nat, faults : Nat]
       /\ uAlone' \in [rules : BOOLEAN, index : BOOLEAN]
  BY <1>0, <1>1 DEF RuleTypes
<1>12. uTask[q].pc # "idle" /\ uTask[q].pc \notin {"present", "create"} /\ uTask'[q].lone = uTask[q].lone
  BY <1>6 DEF old
<1> QED BY <1>1, <1>3, <1>4, <1>6, <1>7, <1>9, <1>10, <1>11, <1>12, OwnKeeps

\* Rows for templates are added: whoever inserts them met no other request and checked, or is on record.
LEMMA RowsAdded ==
  ASSUME RulesInv, NEW keys \in SUBSET Templates, uRules' = uRules \cup TemplateRows(keys),
         uRaced' = uRaced \cup keys \/ (uRaced' = uRaced /\ keys \cap KeysPresent = {}),
         uEmptied' = uEmptied, uDropped' \in {uDropped, uDropped \ keys}, keys \cap uDropped' = {}
  PROVE  /\ KeysPresent' = KeysPresent \cup keys
         /\ uRules' \subseteq RuleRows /\ \E n \in Nat : \A r \in uRules' : r.id \in 0 .. n
         /\ DeletionIsKept' /\ OneRulePerTemplate'
<1>0. RuleTypes /\ DeletionIsKept /\ OneRulePerTemplate
  BY DEF RulesInv
<1>1. /\ TemplateRows(keys) \subseteq RuleRows
      /\ \E n \in Nat : \A r \in uRules \cup TemplateRows(keys) : r.id \in 0 .. n
      /\ \A k \in keys : \E r \in TemplateRows(keys) : r.template = k
      /\ \A r \in TemplateRows(keys) : r.template \in keys
      /\ \A r, s \in TemplateRows(keys) : r.template = s.template => r = s
  BY <1>0, TemplateRowsAre
<1>2. NoTemplate \notin keys
  BY RuleConstants DEF Templates, NoTemplate
<1> DEFINE new == TemplateRows(keys)
<1> HIDE DEF new
<1>3. uRules' = uRules \cup new
  BY DEF new
<1>4. \A k \in keys : \E r \in new : r.template = k
  BY <1>1 DEF new
<1>5. \A r \in new : r.template \in keys
  BY <1>1 DEF new
<1>6. KeysPresent' = KeysPresent \cup keys
  <2>1. {r.template : r \in uRules'} = {r.template : r \in uRules} \cup keys
    BY <1>3, <1>4, <1>5
  <2> QED BY <1>2, <2>1 DEF KeysPresent
<1>7. uRules' \subseteq RuleRows /\ \E n \in Nat : \A r \in uRules' : r.id \in 0 .. n
  BY <1>0, <1>1 DEF RuleTypes
<1>8. DeletionIsKept'
  BY <1>0, <1>6 DEF DeletionIsKept
<1>9. OneRulePerTemplate'
  <2> SUFFICES ASSUME NEW r \in uRules', NEW s \in uRules', r.template = s.template,
                      r.template \notin uRaced' \cup {NoTemplate}
               PROVE  r = s
    BY DEF OneRulePerTemplate
  <2>1. CASE r \in uRules /\ s \in uRules
    <3>1. r.template \notin uRaced \cup {NoTemplate}
      OBVIOUS
    <3> QED BY <1>0, <2>1, <3>1 DEF OneRulePerTemplate
  <2>2. CASE r \in new /\ s \in new
    <3>1. r \in TemplateRows(keys) /\ s \in TemplateRows(keys)
      BY <2>2 DEF new
    <3> QED BY <1>1, <3>1
  <2>3. ASSUME NEW u \in uRules, NEW v \in new, u.template = v.template, v.template \notin uRaced' \cup {NoTemplate}
        PROVE  FALSE
    <3>1. v.template \in keys
      BY <1>5
    <3>2. keys \cap KeysPresent = {}
      BY <2>3, <3>1
    <3>3. u.template \in KeysPresent
      BY <2>3 DEF KeysPresent
    <3> QED BY <2>3, <3>1, <3>2, <3>3
  <2> QED BY <1>3, <2>1, <2>2, <2>3
<1> QED BY <1>6, <1>7, <1>8, <1>9

\* instantiate_template's create_rule
LEMMA InsertTemplateKeeps ==
  ASSUME RulesInv, NEW q \in Requests, InsertTemplate(q) PROVE RulesInv'
<1>0. RuleTypes /\ AloneInv /\ ForceInv
  BY DEF RulesInv
<1> DEFINE old  == uTask[q]
           keys == old.keys
           t    == [old EXCEPT !.pc = "rules"]
<1>1. uTask \in [Requests -> Tasks] /\ old \in Tasks /\ keys \in SUBSET Templates
  BY <1>0 DEF RuleTypes, Tasks
<1>2. /\ old.pc = "insert" /\ uRules' = uRules \cup TemplateRows(keys) /\ uDropped' = uDropped \ keys
      /\ uRaced' = IF old.lone THEN uRaced ELSE uRaced \cup keys
      /\ UNCHANGED <<uList, uConfig, uKeys, uUp, uMemory, uTracked, uBudget, uAlone, uEmptied, uShort>>
  BY DEF InsertTemplate, uMemory
<1>3. uTask' = [uTask EXCEPT ![q] = t]
  BY <1>1 DEF InsertTemplate, Goto
<1>4. t \in Tasks /\ t.pc = "rules" /\ t.lone = old.lone /\ t.keys = keys
  BY <1>1 DEF Tasks, Stages
<1> HIDE DEF t
<1>5. uTask'[q] = t /\ \A r \in Requests \ {q} : uTask'[r] = uTask[r]
  BY <1>1, <1>3
<1>6. old.lone => keys \cap KeysPresent = {}
  BY <1>2 DEF AloneInv, Alone, RulesInv
<1>7. /\ KeysPresent' = KeysPresent \cup keys
      /\ uRules' \subseteq RuleRows /\ \E n \in Nat : \A r \in uRules' : r.id \in 0 .. n
      /\ DeletionIsKept' /\ OneRulePerTemplate'
  BY <1>1, <1>2, <1>6, RowsAdded
<1>8. ForceInv'
  <2>1. ~(\A r \in Requests : uTask'[r].pc \notin Editing)
    BY <1>4, <1>5 DEF Editing
  <2>2. (\A r \in Requests : uTask'[r].pc \notin Listing) => (\A r \in Requests : uTask[r].pc \notin Listing)
    BY <1>2, <1>5 DEF Listing
  <2> QED BY <1>0, <1>2, <2>1, <2>2 DEF ForceInv, uMemory
<1>9. Alone(q) /\ Busy' = {q} => Alone(q)'
  BY <1>4, <1>5 DEF Alone
<1>10. /\ uBudget' \in [work : 0 .. MaxWork, boots : Nat, faults : Nat]
       /\ uAlone' \in [rules : BOOLEAN, index : BOOLEAN]
  BY <1>0, <1>2 DEF RuleTypes
<1>11. /\ \A k \in KeysPresent : k \in KeysPresent'
       /\ \A k \in uDropped : k \in uDropped' \/ k \in KeysPresent'
  BY <1>2, <1>7
<1> QED BY <1>2, <1>3, <1>4, <1>7, <1>8, <1>9, <1>10, <1>11, OwnKeeps

\* apply_enabled_templates: template_keys_present
LEMMA ReadKeysPresentKeeps ==
  ASSUME RulesInv, NEW q \in Requests, ReadKeysPresent(q) PROVE RulesInv'
<1>0. RuleTypes /\ ForceInv /\ DeletionIsKept /\ OneRulePerTemplate
  BY DEF RulesInv
<1> DEFINE old == uTask[q]
           t   == IF old.keys \subseteq KeysPresent THEN Idle
                  ELSE [old EXCEPT !.pc = "create", !.keys = old.keys \ KeysPresent]
<1>1. uTask \in [Requests -> Tasks] /\ old \in Tasks /\ MaxWork \in Nat
  BY <1>0, RuleConstants DEF RuleTypes
<1>2. old.pc = "present" /\ uTask' = [uTask EXCEPT ![q] = t]
  <2> DEFINE on == [uTask[q] EXCEPT !.pc = "create", !.keys = @ \ KeysPresent]
             c  == uTask[q].keys \subseteq KeysPresent
  <2>1. old.pc = "present" /\ uTask' = [uTask EXCEPT ![q] = IF c THEN Idle ELSE on]
    BY DEF ReadKeysPresent
  <2>2. on = [old EXCEPT !.pc = "create", !.keys = old.keys \ KeysPresent]
    BY <1>1 DEF Tasks
  <2>3. t = IF c THEN Idle ELSE on
    BY <2>2
  <2> HIDE DEF t, on, c
  <2> QED BY <2>1, <2>3
<1>3. UNCHANGED <<uRules, uList, uTables, uConfig, uKeys, uUp, uMemory, uTracked, uBudget, uAlone, uRaced,
                  uDropped, uEmptied, uShort>>
  BY DEF ReadKeysPresent, uHistory, uTables, uMemory
<1>4. \/ t = Idle /\ old.keys \subseteq KeysPresent
      \/ t \in Tasks /\ t.pc = "create" /\ t.keys = old.keys \ KeysPresent /\ t.lone = old.lone
  <2>1. [old EXCEPT !.pc = "create", !.keys = old.keys \ KeysPresent] \in Tasks
    BY <1>1 DEF Tasks, Stages
  <2> QED BY <1>1, <2>1 DEF Tasks
<1>5. Idle \in Tasks /\ Idle.pc = "idle"
  BY <1>1 DEF Idle, Tasks, Stages
<1> HIDE DEF t
<1>6. uTask'[q] = t /\ t \in Tasks /\ \A r \in Requests \ {q} : uTask'[r] = uTask[r]
  BY <1>1, <1>2, <1>4, <1>5
<1>7. KeysPresent' = KeysPresent
  BY <1>3 DEF KeysPresent
<1>8. ForceInv'
  <2>1. \A r \in Requests : /\ uTask[r].pc \in Editing => uTask'[r].pc \in Editing
                            /\ uTask[r].pc \in Listing => uTask'[r].pc \in Listing
    BY <1>2, <1>6 DEF Editing, Listing
  <2> QED BY <1>0, <1>3, <2>1, SameForce
<1>9. Alone(q) /\ Busy' = {q} => Alone(q)'
  BY <1>2, <1>3, <1>4, <1>5, <1>6, <1>7 DEF Alone
<1>10. DeletionIsKept' /\ OneRulePerTemplate'
  BY <1>0, <1>3, <1>7 DEF DeletionIsKept, OneRulePerTemplate
<1>11. /\ uBudget' \in [work : 0 .. MaxWork, boots : Nat, faults : Nat]
       /\ uAlone' \in [rules : BOOLEAN, index : BOOLEAN]
       /\ uRules' \subseteq RuleRows /\ \E n \in Nat : \A r \in uRules' : r.id \in 0 .. n
  BY <1>0, <1>3 DEF RuleTypes
<1>12. \A k \in old.keys : k \in KeysPresent' \cup uShort' \/ (t.pc \in {"present", "create"} /\ k \in t.keys)
  BY <1>4, <1>7
<1>13. t.pc # "idle" => t.lone = uTask[q].lone
  BY <1>4, <1>5
<1> QED BY <1>2, <1>3, <1>6, <1>7, <1>8, <1>9, <1>10, <1>11, <1>12, <1>13, OwnKeeps

\* ... and create_rules, which commits them all or none.
LEMMA CreateTemplatesKeeps ==
  ASSUME RulesInv, NEW q \in Requests, NEW ok \in BOOLEAN, CreateTemplates(q, ok) PROVE RulesInv'
<1>0. RuleTypes /\ AloneInv /\ ForceInv /\ DeletionIsKept /\ OneRulePerTemplate
  BY DEF RulesInv
<1> DEFINE old  == uTask[q]
           keys == old.keys
<1>1. uTask \in [Requests -> Tasks] /\ old \in Tasks /\ keys \in SUBSET Templates /\ MaxWork \in Nat
  BY <1>0, RuleConstants DEF RuleTypes, Tasks
<1>2. /\ old.pc = "create"
      /\ UNCHANGED <<uList, uConfig, uKeys, uUp, uMemory, uTracked, uAlone, uEmptied>>
  BY DEF CreateTemplates, uMemory
<1>3. uAlone' \in [rules : BOOLEAN, index : BOOLEAN]
  BY <1>0, <1>2 DEF RuleTypes
<1>4. CASE ok
  <2> DEFINE t == [old EXCEPT !.pc = "rules"]
  <2>1. /\ uRules' = uRules \cup TemplateRows(keys)
        /\ uDropped' = IF old.lone THEN uDropped ELSE uDropped \ keys
        /\ uRaced' = IF old.lone THEN uRaced ELSE uRaced \cup keys
        /\ Goto(q, "rules") /\ uBudget' = uBudget /\ uShort' = uShort
    BY <1>4 DEF CreateTemplates
  <2>2. uTask' = [uTask EXCEPT ![q] = t]
    BY <1>1, <2>1 DEF Goto
  <2>3. t \in Tasks /\ t.pc = "rules" /\ t.lone = old.lone
    BY <1>1 DEF Tasks, Stages
  <2> HIDE DEF t
  <2>4. uTask'[q] = t /\ \A r \in Requests \ {q} : uTask'[r] = uTask[r]
    BY <1>1, <2>2
  <2>5. old.lone => keys \cap KeysPresent = {} /\ keys \cap uDropped = {}
    BY <1>0, <1>2 DEF AloneInv, Alone
  <2>6. /\ KeysPresent' = KeysPresent \cup keys
        /\ uRules' \subseteq RuleRows /\ \E n \in Nat : \A r \in uRules' : r.id \in 0 .. n
        /\ DeletionIsKept' /\ OneRulePerTemplate'
    <3>1. uRaced' = uRaced \cup keys \/ (uRaced' = uRaced /\ keys \cap KeysPresent = {})
      BY <2>1, <2>5
    <3>2. uDropped' \in {uDropped, uDropped \ keys} /\ keys \cap uDropped' = {}
      BY <2>1, <2>5
    <3> QED BY <1>1, <1>2, <2>1, <3>1, <3>2, RowsAdded
  <2>7. ForceInv'
    <3>1. ~(\A r \in Requests : uTask'[r].pc \notin Editing)
      BY <2>3, <2>4 DEF Editing
    <3>2. (\A r \in Requests : uTask'[r].pc \notin Listing) => (\A r \in Requests : uTask[r].pc \notin Listing)
      BY <1>2, <2>4 DEF Listing
    <3> QED BY <1>0, <1>2, <3>1, <3>2 DEF ForceInv, uMemory
  <2>8. Alone(q) /\ Busy' = {q} => Alone(q)'
    BY <2>3, <2>4 DEF Alone
  <2>9. uBudget' \in [work : 0 .. MaxWork, boots : Nat, faults : Nat]
    BY <1>0, <2>1 DEF RuleTypes
  <2>10. /\ \A k \in KeysPresent : k \in KeysPresent'
         /\ \A k \in uDropped : k \in uDropped' \/ k \in KeysPresent'
         /\ \A k \in keys : k \in KeysPresent'
    BY <2>1, <2>6
  <2> QED BY <1>2, <1>3, <2>1, <2>2, <2>3, <2>6, <2>7, <2>8, <2>9, <2>10, OwnKeeps
<1>5. CASE ~ok
  <2>1. /\ UNCHANGED <<uRules, uDropped, uRaced>> /\ uShort' = uShort \cup keys /\ Finish(q)
        /\ uBudget.faults > 0 /\ uBudget' = [uBudget EXCEPT !.faults = @ - 1]
    BY <1>5 DEF CreateTemplates
  <2>2. uTask' = [uTask EXCEPT ![q] = Idle]
    BY <2>1 DEF Finish
  <2>3. Idle \in Tasks /\ Idle.pc = "idle"
    BY <1>1 DEF Idle, Tasks, Stages
  <2>4. uTask'[q] = Idle /\ \A r \in Requests \ {q} : uTask'[r] = uTask[r]
    BY <1>1, <2>2
  <2>5. KeysPresent' = KeysPresent
    BY <2>1 DEF KeysPresent
  <2>6. ForceInv'
    <3>1. \A r \in Requests : /\ uTask[r].pc \in Editing => uTask'[r].pc \in Editing
                              /\ uTask[r].pc \in Listing => uTask'[r].pc \in Listing
      BY <1>2, <2>4 DEF Editing, Listing
    <3>2. UNCHANGED uTables
      BY <1>2, <2>1 DEF uTables
    <3> QED BY <1>0, <1>2, <3>1, <3>2, SameForce
  <2>7. Alone(q) /\ Busy' = {q} => Alone(q)'
    BY <2>3, <2>4 DEF Busy
  <2>8. uBudget' \in [work : 0 .. MaxWork, boots : Nat, faults : Nat]
    <3>1. uBudget \in [work : 0 .. MaxWork, boots : Nat, faults : Nat]
      BY <1>0 DEF RuleTypes
    <3> QED BY <2>1, <3>1
  <2>9. DeletionIsKept' /\ OneRulePerTemplate'
    BY <1>0, <1>2, <2>1, <2>5 DEF DeletionIsKept, OneRulePerTemplate
  <2>10. uRules' \subseteq RuleRows /\ \E n \in Nat : \A r \in uRules' : r.id \in 0 .. n
    BY <1>0, <2>1 DEF RuleTypes
  <2> QED BY <1>2, <1>3, <2>1, <2>2, <2>3, <2>5, <2>6, <2>7, <2>8, <2>9, <2>10, OwnKeeps
<1> QED BY <1>4, <1>5

\* set_rules: what is in force is what the request read, which is what there is when it met no other.
LEMMA InstallRulesKeeps ==
  ASSUME RulesInv, NEW q \in Requests, InstallRules(q) PROVE RulesInv'
<1>0. RuleTypes /\ AloneInv /\ ForceInv /\ DeletionIsKept /\ OneRulePerTemplate
  BY DEF RulesInv
<1> DEFINE old == uTask[q]
<1>1. uTask \in [Requests -> Tasks] /\ old \in Tasks /\ old.lone \in BOOLEAN /\ MaxWork \in Nat
  BY <1>0, RuleConstants DEF RuleTypes, Tasks
<1>2. /\ old.pc = "install" /\ uEngine' = [rules |-> old.rules, name |-> old.name]
      /\ uAlone' = [uAlone EXCEPT !.rules = old.lone]
      /\ UNCHANGED <<uRules, uList, uConfig, uKeys, uUp, uIndex, uTracked, uFlag, uBudget, uRaced,
                     uDropped, uEmptied, uShort>>
  BY DEF InstallRules, uTables
<1>3. uTask' = [uTask EXCEPT ![q] = Idle]
  BY DEF InstallRules, Finish
<1>4. Idle \in Tasks /\ Idle.pc = "idle"
  BY <1>1 DEF Idle, Tasks, Stages
<1>5. uTask'[q] = Idle /\ \A r \in Requests \ {q} : uTask'[r] = uTask[r]
  BY <1>1, <1>3
<1>6. uAlone' \in [rules : BOOLEAN, index : BOOLEAN] /\ uAlone'.rules = old.lone /\ uAlone'.index = uAlone.index
  <2>1. uAlone \in [rules : BOOLEAN, index : BOOLEAN]
    BY <1>0 DEF RuleTypes
  <2> QED BY <1>1, <1>2, <2>1
<1>7. old.lone => old.rules = uRules /\ old.name = uList.name
  BY <1>0, <1>2 DEF AloneInv, Alone
<1>8. ForceInv'
  <2>1. (\A r \in Requests : uTask'[r].pc \notin Listing) => (\A r \in Requests : uTask[r].pc \notin Listing)
    BY <1>2, <1>5 DEF Listing
  <2>2. uAlone'.rules => uEngine' = [rules |-> uRules', name |-> uList'.name]
    BY <1>2, <1>6, <1>7
  <2>3. /\ uUp' /\ uAlone'.index /\ (\A r \in Requests : uTask'[r].pc \notin Listing)
             => uIndex' = BuildIndex(uList'.name, uList'.entry)
    BY <1>0, <1>2, <1>6, <2>1 DEF ForceInv
  <2>4. uFlag' = (IF uTracked' THEN uIndex' ELSE 0)
    BY <1>0, <1>2 DEF ForceInv
  <2> QED BY <2>2, <2>3, <2>4 DEF ForceInv
<1>9. Alone(q) /\ Busy' = {q} => Alone(q)'
  BY <1>4, <1>5 DEF Busy
<1>10. KeysPresent' = KeysPresent
  BY <1>2 DEF KeysPresent
<1>11. DeletionIsKept' /\ OneRulePerTemplate'
  BY <1>0, <1>2, <1>10 DEF DeletionIsKept, OneRulePerTemplate
<1>12. /\ uBudget' \in [work : 0 .. MaxWork, boots : Nat, faults : Nat]
       /\ uRules' \subseteq RuleRows /\ \E n \in Nat : \A r \in uRules' : r.id \in 0 .. n
  BY <1>0, <1>2 DEF RuleTypes
<1> QED BY <1>2, <1>3, <1>4, <1>6, <1>8, <1>9, <1>10, <1>11, <1>12, OwnKeeps

\* WatchlistMatcher.reload: the index is built from two reads, and the flags follow it at once.
LEMMA ReloadIndexKeeps ==
  ASSUME RulesInv, NEW q \in Requests, ReloadIndex(q) PROVE RulesInv'
<1>0. RuleTypes /\ AloneInv /\ ForceInv /\ DeletionIsKept /\ OneRulePerTemplate
  BY DEF RulesInv
<1> DEFINE old == uTask[q]
           t   == [old EXCEPT !.pc = "rules"]
<1>1. uTask \in [Requests -> Tasks] /\ old \in Tasks /\ old.lone \in BOOLEAN
  BY <1>0 DEF RuleTypes, Tasks
<1>2. /\ old.pc = "index" /\ uIndex' = BuildIndex(old.name, old.entry) /\ uFlag' = Compute(uTracked, uIndex')
      /\ uAlone' = [uAlone EXCEPT !.index = old.lone]
      /\ UNCHANGED <<uRules, uList, uConfig, uKeys, uUp, uEngine, uTracked, uBudget, uRaced,
                     uDropped, uEmptied, uShort>>
  BY DEF ReloadIndex, uTables
<1>3. uTask' = [uTask EXCEPT ![q] = t]
  BY <1>1 DEF ReloadIndex, Goto
<1>4. t \in Tasks /\ t.pc = "rules" /\ t.lone = old.lone
  BY <1>1 DEF Tasks, Stages
<1> HIDE DEF t
<1>5. uTask'[q] = t /\ \A r \in Requests \ {q} : uTask'[r] = uTask[r]
  BY <1>1, <1>3
<1>6. uAlone' \in [rules : BOOLEAN, index : BOOLEAN] /\ uAlone'.index = old.lone
  <2>1. uAlone \in [rules : BOOLEAN, index : BOOLEAN]
    BY <1>0 DEF RuleTypes
  <2> QED BY <1>1, <1>2, <2>1
<1>7. old.lone => old.name = uList.name /\ old.entry = uList.entry
  BY <1>0, <1>2 DEF AloneInv, Alone
<1>8. ForceInv'
  <2>1. ~(\A r \in Requests : uTask'[r].pc \notin Editing)
    BY <1>4, <1>5 DEF Editing
  <2>2. uAlone'.index => uIndex' = BuildIndex(uList'.name, uList'.entry)
    BY <1>2, <1>6, <1>7
  <2>3. uFlag' = (IF uTracked' THEN uIndex' ELSE 0)
    BY <1>2 DEF Compute
  <2> QED BY <2>1, <2>2, <2>3 DEF ForceInv
<1>9. Alone(q) /\ Busy' = {q} => Alone(q)'
  BY <1>4, <1>5 DEF Alone
<1>10. KeysPresent' = KeysPresent
  BY <1>2 DEF KeysPresent
<1>11. DeletionIsKept' /\ OneRulePerTemplate'
  BY <1>0, <1>2, <1>10 DEF DeletionIsKept, OneRulePerTemplate
<1>12. /\ uBudget' \in [work : 0 .. MaxWork, boots : Nat, faults : Nat]
       /\ uRules' \subseteq RuleRows /\ \E n \in Nat : \A r \in uRules' : r.id \in 0 .. n
  BY <1>0, <1>2 DEF RuleTypes
<1> QED BY <1>2, <1>3, <1>4, <1>6, <1>8, <1>9, <1>10, <1>11, <1>12, OwnKeeps

\* on_resolved
LEMMA OnResolvedKeeps ==
  ASSUME RulesInv, OnResolved PROVE RulesInv'
<1>0. RuleTypes /\ AloneInv /\ ForceInv /\ DownInv /\ ConfigInv /\ DeletionIsKept /\ OneRulePerTemplate
  BY DEF RulesInv
<1>1. /\ uUp /\ uTracked' = ~uTracked /\ uFlag' = IF uTracked' THEN uIndex ELSE 0
      /\ UNCHANGED <<uRules, uList, uConfig, uKeys, uUp, uEngine, uIndex, uTask, uBudget>>
      /\ UNCHANGED <<uAlone, uRaced, uDropped, uEmptied, uShort>>
  BY DEF OnResolved, uTables, uHistory
<1>2. uTracked' \in BOOLEAN
  BY <1>1
<1>3. RuleTypes'
  BY <1>0, <1>1, <1>2 DEF RuleTypes
<1>4. Busy' = Busy /\ KeysPresent' = KeysPresent /\ Wanted' = Wanted
  BY <1>1 DEF Busy, KeysPresent, Wanted
<1>5. AloneInv'
  BY <1>0, <1>1, <1>4 DEF AloneInv, Alone
<1>6. ForceInv'
  BY <1>0, <1>1 DEF ForceInv
<1>7. DownInv'
  BY <1>0, <1>1 DEF DownInv
<1>8. ConfigInv' /\ DeletionIsKept' /\ OneRulePerTemplate'
  BY <1>0, <1>1, <1>4 DEF ConfigInv, DeletionIsKept, OneRulePerTemplate
<1> QED BY <1>3, <1>5, <1>6, <1>7, <1>8 DEF RulesInv

\* The process ends: what was wanted and not created is on record as cut short.
LEMMA EndRulesKeeps ==
  ASSUME RulesInv, EndRules PROVE RulesInv'
<1>0. RuleTypes /\ ConfigInv /\ DeletionIsKept /\ OneRulePerTemplate /\ MaxWork \in Nat
  BY RuleConstants DEF RulesInv
<1>1. /\ uUp /\ uBudget.boots > 0 /\ uBudget' = [uBudget EXCEPT !.boots = @ - 1] /\ uUp' = FALSE
      /\ uShort' = uShort \cup Wanted
      /\ uTask' = [q \in Requests |-> Idle] /\ uTracked' = FALSE /\ uFlag' = 0
      /\ uAlone' = [rules |-> TRUE, index |-> TRUE]
      /\ UNCHANGED <<uRules, uList, uConfig, uKeys, uRaced, uDropped, uEmptied>>
  BY DEF EndRules, Wanted, uTables
<1>2. Idle \in Tasks /\ Idle.pc = "idle"
  BY <1>0 DEF Idle, Tasks, Stages
<1>3. uTask' \in [Requests -> Tasks] /\ \A q \in Requests : uTask'[q] = Idle
  BY <1>1, <1>2
<1>4. uBudget' \in [work : 0 .. MaxWork, boots : Nat, faults : Nat]
  <2>1. uBudget \in [work : 0 .. MaxWork, boots : Nat, faults : Nat]
    BY <1>0 DEF RuleTypes
  <2> QED BY <1>1, <2>1
<1>5. RuleTypes'
  BY <1>0, <1>1, <1>3, <1>4 DEF RuleTypes
<1>6. AloneInv'
  BY <1>2, <1>3 DEF AloneInv
<1>7. ForceInv' /\ DownInv'
  BY <1>1, <1>3 DEF ForceInv, DownInv
<1>8. KeysPresent' = KeysPresent
  BY <1>1 DEF KeysPresent
<1>9. ConfigInv'
  BY <1>0, <1>1, <1>8 DEF ConfigInv
<1>10. DeletionIsKept' /\ OneRulePerTemplate'
  BY <1>0, <1>1, <1>8 DEF DeletionIsKept, OneRulePerTemplate
<1> QED BY <1>5, <1>6, <1>7, <1>9, <1>10 DEF RulesInv

\* The process starts: templates are instantiated only when no rule carries one.
LEMMA StartRulesKeeps ==
  ASSUME RulesInv, StartRules PROVE RulesInv'
<1>0. RuleTypes /\ ForceInv /\ DownInv /\ ConfigInv /\ DeletionIsKept /\ OneRulePerTemplate
  BY DEF RulesInv
<1> DEFINE keys == AtStart(uConfig)
<1>1. /\ ~uUp /\ uUp' = TRUE /\ uKeys' = uConfig /\ uRules' = uRules \cup TemplateRows(keys)
      /\ uEmptied' = (uEmptied \/ (uDropped # {} /\ KeysPresent = {}))
      /\ uEngine' = [rules |-> uRules', name |-> uList.name]
      /\ uIndex' = BuildIndex(uList.name, uList.entry)
      /\ UNCHANGED <<uList, uConfig, uTracked, uFlag, uTask, uBudget, uAlone, uRaced, uDropped, uShort>>
  BY DEF StartRules
<1>2. keys \in SUBSET Templates /\ (KeysPresent # {} => keys = {}) /\ (KeysPresent = {} => keys = uConfig)
  BY <1>0 DEF AtStart, RuleTypes
<1> HIDE DEF keys
<1>3. /\ TemplateRows(keys) \subseteq RuleRows
      /\ \E n \in Nat : \A r \in uRules \cup TemplateRows(keys) : r.id \in 0 .. n
      /\ \A k \in keys : \E r \in TemplateRows(keys) : r.template = k
      /\ \A r \in TemplateRows(keys) : r.template \in keys
      /\ \A r, s \in TemplateRows(keys) : r.template = s.template => r = s
  BY <1>0, <1>2, TemplateRowsAre
<1>4. NoTemplate \notin Templates
  BY RuleConstants DEF Templates, NoTemplate
<1>5. \A k : k \in KeysPresent' <=> k \in KeysPresent \/ k \in keys
  BY <1>1, <1>2, <1>3, <1>4 DEF KeysPresent
<1>6. RuleTypes'
  BY <1>0, <1>1, <1>3 DEF RuleTypes
<1>7. \A q \in Requests : uTask'[q] = Idle
  BY <1>0, <1>1 DEF DownInv
<1>8. Idle.pc = "idle"
  BY DEF Idle
<1>9. AloneInv'
  BY <1>7, <1>8 DEF AloneInv
<1>10. ForceInv'
  BY <1>0, <1>1 DEF ForceInv, DownInv
<1>11. DownInv'
  BY <1>1 DEF DownInv
<1>12. Wanted' = Wanted
  BY <1>1 DEF Wanted
<1>13. ConfigInv'
  <2>1. CASE KeysPresent = {}
    BY <1>1, <1>2, <1>5, <2>1 DEF ConfigInv
  <2>2. CASE KeysPresent # {}
    BY <1>0, <1>1, <1>5, <1>12, <2>2 DEF ConfigInv
  <2> QED BY <2>1, <2>2
<1>14. DeletionIsKept'
  <2>1. CASE KeysPresent = {}
    BY <1>1, <2>1 DEF DeletionIsKept
  <2>2. CASE KeysPresent # {}
    BY <1>0, <1>1, <1>2, <1>5, <2>2 DEF DeletionIsKept
  <2> QED BY <2>1, <2>2
<1>15. OneRulePerTemplate'
  <2> DEFINE new == TemplateRows(keys)
  <2> SUFFICES ASSUME NEW r \in uRules', NEW s \in uRules', r.template = s.template,
                      r.template \notin uRaced \cup {NoTemplate}
               PROVE  r = s
    BY <1>1 DEF OneRulePerTemplate
  <2>1. CASE r \in uRules /\ s \in uRules
    BY <1>0, <2>1 DEF OneRulePerTemplate
  <2>2. CASE r \in new /\ s \in new
    BY <1>3, <2>2
  <2>3. ASSUME NEW u \in uRules, NEW v \in new, u.template = v.template, u.template # NoTemplate
        PROVE  FALSE
    <3>1. v.template \in keys
      BY <1>3
    <3>2. u.template \in KeysPresent
      BY <2>3 DEF KeysPresent
    <3> QED BY <1>2, <3>1, <3>2
  <2> HIDE DEF new
  <2>4. uRules' = uRules \cup new
    BY <1>1 DEF new
  <2> QED BY <2>1, <2>2, <2>3, <2>4
<1> QED BY <1>6, <1>9, <1>10, <1>11, <1>13, <1>14, <1>15 DEF RulesInv

\* The database and the configuration as installed.
LEMMA RulesStart ==
  ASSUME RulesInit PROVE RulesInv
<1>1. MaxWork \in Nat /\ MaxBoots \in Nat /\ MaxRuleFaults \in Nat
  BY RuleConstants
<1>2. Idle \in Tasks /\ Idle.pc = "idle"
  BY <1>1 DEF Idle, Tasks, Stages
<1>3. /\ uRules = {} /\ uList = [name |-> 0, entry |-> FALSE] /\ uConfig \in SUBSET Templates /\ uKeys = {}
      /\ uUp = FALSE /\ uTracked = FALSE /\ uFlag = 0 /\ uTask = [q \in Requests |-> Idle]
      /\ uBudget = [work |-> MaxWork, boots |-> MaxBoots, faults |-> MaxRuleFaults]
      /\ uAlone = [rules |-> TRUE, index |-> TRUE] /\ uDropped = {}
  BY DEF RulesInit
<1>4. \A q \in Requests : uTask[q] = Idle
  BY <1>3
<1>5. KeysPresent = {}
  BY <1>3 DEF KeysPresent
<1>6. RuleTypes
  <2>1. uTask \in [Requests -> Tasks]
    BY <1>2, <1>3
  <2>2. /\ uList \in [name : 0 .. MaxWork, entry : BOOLEAN]
        /\ uBudget \in [work : 0 .. MaxWork, boots : Nat, faults : Nat]
        /\ uAlone \in [rules : BOOLEAN, index : BOOLEAN]
    BY <1>1, <1>3
  <2>3. 0 \in Nat /\ \A r \in uRules : r.id \in 0 .. 0
    BY <1>3
  <2> QED BY <1>3, <2>1, <2>2, <2>3 DEF RuleTypes
<1>7. AloneInv /\ ForceInv /\ DownInv
  BY <1>2, <1>3, <1>4 DEF AloneInv, ForceInv, DownInv
<1>8. ConfigInv /\ DeletionIsKept /\ OneRulePerTemplate
  BY <1>3, <1>5 DEF ConfigInv, DeletionIsKept, OneRulePerTemplate
<1> QED BY <1>6, <1>7, <1>8 DEF RulesInv

\* Every step keeps the invariant.
LEMMA RulesStep ==
  ASSUME RulesInv, [RulesNext]_uVars PROVE RulesInv'
<1>1. CASE UNCHANGED uVars
  BY <1>1 DEF uVars, RulesInv, RuleTypes, AloneInv, Alone, ForceInv, DownInv, ConfigInv, Busy, KeysPresent, Wanted,
              DeletionIsKept, OneRulePerTemplate
<1>2. ASSUME NEW q \in Requests,
             \/ InsertRule(q) \/ ReplaceRule(q) \/ DropRule(q) \/ InstantiateTemplate(q) \/ InsertTemplate(q)
             \/ SaveTemplates(q) \/ ReadKeysPresent(q) \/ CreateTemplates(q, TRUE) \/ CreateTemplates(q, FALSE)
             \/ ReadRules(q) \/ ReadNames(q) \/ InstallRules(q)
             \/ EditWatchlist(q) \/ ReadLists(q) \/ ReadEntries(q) \/ ReloadIndex(q)
      PROVE  RulesInv'
  BY <1>2, InsertRuleKeeps, ReplaceRuleKeeps, DropRuleKeeps, InstantiateTemplateKeeps, InsertTemplateKeeps,
     SaveTemplatesKeeps, ReadKeysPresentKeeps, CreateTemplatesKeeps, ReadsKeep, InstallRulesKeeps,
     EditWatchlistKeeps, ReloadIndexKeeps
<1>3. CASE OnResolved
  BY <1>3, OnResolvedKeeps
<1>4. CASE EndRules
  BY <1>4, EndRulesKeeps
<1>5. CASE StartRules
  BY <1>5, StartRulesKeeps
<1> QED BY <1>1, <1>2, <1>3, <1>4, <1>5 DEF RulesNext

\* The invariant of the rules, templates and watchlists holds in every state they reach, however requests
\* interleave, fail or are lost with the process.
THEOREM RulesAreInvariant == RulesSpec => []RulesInv
<1>1. RulesInit => RulesInv
  BY RulesStart
<1>2. RulesInv /\ [RulesNext]_uVars => RulesInv'
  BY RulesStep
<1> QED BY <1>1, <1>2, PTL DEF RulesSpec

\* What is in force is what the tables say once requests that met no other are answered, a deleted shipped
\* rule stays deleted, an enabled template has its one rule (alerts/service.py, watchlists/service.py).
THEOREM RulesPromises == RulesSpec => []RulesInvariant
<1>1. RulesInv => RulesInvariant
  <2> SUFFICES ASSUME RulesInv PROVE RulesInvariant
    OBVIOUS
  <2>0. RuleTypes /\ ForceInv /\ DownInv /\ ConfigInv
    BY DEF RulesInv
  <2>1. RulesTypeOK
    <3>1. \A r \in uRules : r.id \in Nat \ {0} /\ r.template \in 0 .. Catalogue
      BY <2>0 DEF RuleTypes, RuleRows
    <3>2. \A q \in Requests : uTask[q].keys \subseteq Templates
      <4> SUFFICES ASSUME NEW q \in Requests PROVE uTask[q].keys \subseteq Templates
        OBVIOUS
      <4>1. uTask[q] \in Tasks
        BY <2>0 DEF RuleTypes
      <4> QED BY <4>1 DEF Tasks
    <3> QED BY <2>0, <3>1, <3>2 DEF RuleTypes, RulesTypeOK
  <2>2. ASSUME Busy = {}, NEW r \in Requests PROVE uTask[r].pc = "idle"
    BY <2>2 DEF Busy
  <2>3. Busy = {} => /\ \A r \in Requests : uTask[r].pc \notin Editing /\ uTask[r].pc \notin Listing
                     /\ Wanted = {}
    BY <2>2 DEF Editing, Listing, Wanted
  <2>4. EngineRunsTable /\ FlagFollowsIndex
    BY <2>0, <2>3 DEF ForceInv, EngineRunsTable, FlagFollowsIndex
  <2>5. EnabledHasRule
    BY <2>0, <2>3 DEF ConfigInv, DownInv, EnabledHasRule
  <2> QED BY <2>1, <2>4, <2>5 DEF RulesInv, RulesInvariant
<1> QED BY <1>1, RulesAreInvariant, PTL
=============================================================================
