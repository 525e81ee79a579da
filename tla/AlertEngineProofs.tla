-------------------------- MODULE AlertEngineProofs --------------------------
(***************************************************************************)
(* Proofs about the alert engine (alerts/engine.py, repository.py) for any *)
(* number of aircraft, rules, sightings, rule edits, failed writes and     *)
(* restarts.                                                               *)
(*                                                                         *)
(* Four facts are carried besides the types.  UsedInv: sighting ids are    *)
(* handed out in order, so a new one was never spoken of.  FiredInv: what  *)
(* an aircraft's state takes for fired, and what a start adopts, is a row, *)
(* or its rule was deleted.  BatchInv: what a cycle is writing is for the  *)
(* sighting the state is for, and for the aircraft's own unless that was   *)
(* replaced meanwhile.  ToldInv: a match that was announced is still a row *)
(* or belongs to an earlier rule than the one its id now names, so writing *)
(* the same match again creates nothing.                                   *)
(***************************************************************************)
EXTENDS AlertEngine, TLAPS, FiniteSetTheorems, WellFoundedInduction

SightingIds == 1 .. MaxSightings
AlertStates == [known : BOOLEAN, sighting : 0 .. MaxSightings, fired : SUBSET Keys,
                pending : SUBSET Keys, awaiting : BOOLEAN]
Matches  == [key : Keys, sighting : SightingIds, made : Nat]
Attempts == [plane : Planes, key : Keys, sighting : SightingIds]
Budgets  == [shows : Nat, faults : Nat, edits : Nat, ends : Nat, visits : Nat]

\* AlertTypeOK and the types of what it leaves open.
AlertTypes ==
  /\ AlertTypeOK
  /\ aTop \in [SightingIds -> -1 .. 2]
  /\ aTable \in [DOMAIN aTable -> Nat]
  /\ aRows \subseteq Matches /\ aTold \subseteq Matches /\ aMade \subseteq Matches
  /\ aBatch \subseteq Attempts /\ aAdopted \subseteq [key : Keys, sighting : SightingIds]
  /\ aBudget \in Budgets

\* The sightings there have been are the first n; nobody speaks of a later one.
Used(s) == aTop[s] # -1
UsedInv ==
  /\ \E n \in 0 .. MaxSightings : \A s \in SightingIds : Used(s) <=> s <= n
  /\ \A p \in Planes : aSighting[p] # NoSighting => Used(aSighting[p])
  /\ \A m \in aTold \cup aMade \cup aBatch : Used(m.sighting)

\* A match of key k on sighting s is on disk, or k's rule was deleted.
OnDisk(k, s) == k \in aDeleted \/ \E r \in aRows : r.key = k /\ r.sighting = s
FiredInv ==
  /\ \A p \in Planes : \A k \in aState[p].fired : OnDisk(k, aState[p].sighting)
  /\ \A q \in aAdopted : OnDisk(q.key, q.sighting)

BatchInv ==
  /\ aPc = "idle" => aBatch = {}
  /\ aPc # "apply" => aMade = {}
  /\ \A m \in aBatch :
       /\ aState[m.plane].sighting = m.sighting
       /\ aSighting[m.plane] = m.sighting \/ m.sighting \in aMoved
       /\ aPc = "apply" => OnDisk(m.key, m.sighting)
  /\ \A r \in aMade : \E m \in aBatch : m.key = r.key /\ m.sighting = r.sighting

\* An announced match is a row, or its id names a later rule or none.
Spent(r) ==
  /\ r.key = Emergency => r \in aRows
  /\ r.key # Emergency => /\ aBudget.edits < r.made
                          /\ r \in aRows \/ r.key \notin DOMAIN aTable \/ aTable[r.key] < r.made
ToldInv ==
  /\ \A r \in aTold \cup aMade : Spent(r)
  /\ \A k \in DOMAIN aTable : aBudget.edits < aTable[k]
  /\ aMade \cap aTold = {}

AlertInv == AlertTypes /\ UsedInv /\ FiredInv /\ BatchInv /\ ToldInv /\ SeverityCoversMatches
-----------------------------------------------------------------------------
\* Spending one kind of trouble leaves the others.
LEMMA SpendIs ==
  ASSUME aBudget \in Budgets, NEW what \in {"shows", "faults", "edits", "ends", "visits"}, Spend(what)
  PROVE  /\ aBudget' \in Budgets
         /\ what # "edits" => aBudget'.edits = aBudget.edits
         /\ what = "edits" => aBudget.edits > 0 /\ aBudget'.edits = aBudget.edits - 1
<1>1. CASE what = "edits"
  BY <1>1 DEF Spend, Budgets
<1>2. CASE what = "shows"
  BY <1>2 DEF Spend, Budgets
<1>3. CASE what = "faults"
  BY <1>3 DEF Spend, Budgets
<1>4. CASE what = "ends"
  BY <1>4 DEF Spend, Budgets
<1>5. CASE what = "visits"
  BY <1>5 DEF Spend, Budgets
<1>6. QED
  BY <1>1, <1>2, <1>3, <1>4, <1>5

\* An aircraft the engine holds nothing for.
LEMMA NewStateIs ==
  NewAlertState \in AlertStates /\ NewAlertState.fired = {} /\ NewAlertState.sighting = 0
BY AlertConstants DEF NewAlertState, AlertStates, NoSighting

\* The id an aircraft is known under is its own sighting's, or none.
LEMMA SightingIdIs ==
  ASSUME AlertTypes, NEW p \in Planes
  PROVE  /\ SightingId(p) \in 0 .. MaxSightings
         /\ SightingId(p) # NoSighting => SightingId(p) = aSighting[p] /\ SightingId(p) \in SightingIds
BY AlertConstants DEF AlertTypes, AlertTypeOK, SightingId, NoSighting, SightingIds

\* What evaluation does to one aircraft's state.
LEMMA EvaluatedIs ==
  ASSUME AlertTypes, NEW p \in Planes, NEW st \in AlertStates
  PROVE  /\ Evaluated(p, st) \in AlertStates
         /\ Evaluated(p, st).sighting = SightingId(p)
         /\ Evaluated(p, st).fired = IF SightingId(p) = st.sighting THEN st.fired
                                     ELSE {q.key : q \in {b \in aAdopted : b.sighting = SightingId(p)}}
<1> DEFINE id == SightingId(p)  t == StateFor(p, st)
           f == IF id = st.sighting THEN st.fired ELSE {q.key : q \in {b \in aAdopted : b.sighting = id}}
<1>1. id \in 0 .. MaxSightings
  BY SightingIdIs
<1>2. f \in SUBSET Keys
  BY DEF AlertTypes, AlertStates
<1>3. t = [st EXCEPT !.known = TRUE, !.fired = f, !.sighting = id, !.awaiting = p \notin aResolved]
  BY DEF StateFor
<1>4. Evaluate(p) \in SUBSET Keys
  BY AlertConstants DEF Evaluate, AlertTypes, AlertTypeOK, Keys, Emergency
<1> HIDE DEF id, f
<1>5. t \in AlertStates /\ t.sighting = id /\ t.fired = f
  BY <1>1, <1>2, <1>3 DEF AlertStates
<1>6. Evaluated(p, st) = [t EXCEPT !.pending = @ \cup (Evaluate(p) \ t.fired)]
  BY DEF Evaluated
<1> HIDE DEF t
<1>7. Evaluated(p, st) \in AlertStates /\ Evaluated(p, st).sighting = id /\ Evaluated(p, st).fired = f
  BY <1>4, <1>5, <1>6 DEF AlertStates
<1>8. QED
  BY <1>7 DEF id, f

\* The states a cycle keeps.
LEMMA KeptIs ==
  ASSUME AlertTypes, NEW p \in Planes
  PROVE  Kept[p] \in {aState[p], NewAlertState} /\ Kept[p] \in AlertStates
<1>1. aState[p] \in AlertStates /\ NewAlertState \in AlertStates
  BY NewStateIs DEF AlertTypes, AlertTypeOK, AlertStates
<1>2. QED
  BY <1>1 DEF Kept

\* The largest of a set of numbers (_next_rule_id, AlertSeverity.rank).
LEMMA MaxIs ==
  ASSUME NEW S, NEW top \in S, \A x \in S : x \in Int /\ x <= top
  PROVE  Max(S) = top
<1>1. \A y \in S : top >= y
  OBVIOUS
<1> DEFINE m == Max(S)
<1>2. m \in S /\ \A y \in S : m >= y
  BY <1>1 DEF Max
<1> HIDE DEF m
<1>3. m \in Int /\ top \in Int /\ m >= top /\ m <= top
  BY <1>2
<1>4. m = top
  BY <1>3
<1>5. QED
  BY <1>4 DEF m

\* A finite set of numbers has a largest one.
LEMMA MaxExists ==
  ASSUME NEW n \in Nat, NEW S \in SUBSET (0 .. n), S # {}
  PROVE  \E top \in S : \A x \in S : x <= top
<1> DEFINE above(x) == {y \in 0 .. n : y > x}
           I == {above(x) : x \in S}
           R == StrictSubsetOrdering(Nat)
<1>1. IsFiniteSet(0 .. n)
  BY FS_Interval
<1>2. \A x \in S : above(x) \in FiniteSubsetsOf(Nat)
  BY <1>1, FS_Subset DEF FiniteSubsetsOf
<1>3. I \subseteq FiniteSubsetsOf(Nat) /\ I # {}
  BY <1>2
<1>4. IsWellFoundedOn(R, FiniteSubsetsOf(Nat))
  BY FS_StrictSubsetOrderingWellFounded
<1>5. PICK x \in I : \A y \in I : ~(<<y, x>> \in R)
  <2> HIDE DEF I, R
  <2>1. QED
    BY <1>3, <1>4, WFMin
<1>6. PICK top \in S : x = above(top)
  BY <1>5
<1>7. ASSUME NEW y \in S, y > top
      PROVE  FALSE
  <2>1. y \in above(top) /\ y \notin above(y) /\ above(y) \subseteq above(top)
    BY <1>7
  <2>2. above(y) \in SUBSET Nat /\ above(top) \in SUBSET Nat /\ above(y) \in I
    BY <1>7
  <2>3. <<above(y), above(top)>> \in R
    <3> HIDE DEF above
    <3>1. QED
      BY <2>1, <2>2 DEF StrictSubsetOrdering
  <2>4. QED
    BY <1>5, <1>6, <2>2, <2>3
<1>8. QED
  BY <1>7

\* The tables' and the engine's part of the invariant only looks at these variables.
LEMMA Untouched ==
  ASSUME AlertInv, UNCHANGED <<aBook, aTop, aRows, aDesk, aEngine, aTold>>, aBudget' \in Budgets,
         aBudget'.edits = aBudget.edits, aLive' \subseteq Planes, aResolved' \subseteq aLive',
         aAway' \subseteq Planes
  PROVE  AlertInv'
<1>1. AlertTypes'
  BY DEF AlertInv, AlertTypes, AlertTypeOK, aBook, aDesk, aEngine
<1>2. UsedInv'
  BY DEF AlertInv, UsedInv, Used, aBook, aDesk, aEngine
<1>3. FiredInv'
  BY DEF AlertInv, FiredInv, OnDisk, aBook, aDesk, aEngine
<1>4. BatchInv'
  BY DEF AlertInv, BatchInv, OnDisk, aBook, aDesk, aEngine
<1>5. ToldInv'
  BY DEF AlertInv, ToldInv, Spent, aBook, aDesk, aEngine
<1>6. SeverityCoversMatches'
  BY DEF AlertInv, SeverityCoversMatches, aBook, aDesk, aEngine
<1>7. QED
  BY <1>1, <1>2, <1>3, <1>4, <1>5, <1>6 DEF AlertInv

\* What the engine listens to changes nothing it has decided.
LEMMA WatchStep ==
  ASSUME AlertInv, NEW p \in Planes,
         \/ Appear(p) \/ Refresh(p) \/ Change(p) \/ GoStale(p) \/ Leave(p) \/ Resolve(p) \/ ContinueSighting(p)
  PROVE  AlertInv'
<1>1. /\ aBudget \in Budgets /\ aLive \subseteq Planes /\ aResolved \subseteq aLive /\ aAway \subseteq Planes
  BY DEF AlertInv, AlertTypes, AlertTypeOK
<1>2. CASE Appear(p)
  <2>1. aBudget' \in Budgets /\ aBudget'.edits = aBudget.edits
    BY <1>1, <1>2, SpendIs DEF Appear
  <2>2. aLive' \subseteq Planes /\ aResolved' \subseteq aLive' /\ aAway' \subseteq Planes
    BY <1>1, <1>2 DEF Appear
  <2>3. QED
    BY <1>2, <2>1, <2>2, Untouched DEF Appear
<1>3. CASE Change(p)
  <2>1. aBudget' \in Budgets /\ aBudget'.edits = aBudget.edits
    BY <1>1, <1>3, SpendIs DEF Change
  <2>2. QED
    BY <1>1, <1>3, <2>1, Untouched DEF Change
<1>4. CASE Refresh(p) \/ GoStale(p)
  BY <1>1, <1>4, Untouched DEF Refresh, GoStale, aWorld
<1>5. CASE Leave(p)
  BY <1>1, <1>5, Untouched DEF Leave
<1>6. CASE Resolve(p)
  BY <1>1, <1>6, Untouched DEF Resolve
<1>7. CASE ContinueSighting(p)
  BY <1>1, <1>7, Untouched DEF ContinueSighting
<1>8. QED
  BY <1>2, <1>3, <1>4, <1>5, <1>6, <1>7

\* The next sighting the worker opens has the first id nobody used.
LEMMA NextSighting ==
  ASSUME NEW n \in 0 .. MaxSightings, \A s \in SightingIds : Used(s) <=> s <= n
  PROVE  Cardinality({t \in 1 .. MaxSightings : aTop[t] # -1}) = n
<1> DEFINE used == {t \in 1 .. MaxSightings : aTop[t] # -1}
<1>1. used = 1 .. n
  BY AlertConstants DEF Used, SightingIds
<1>2. n \in Nat /\ 1 \in Int
  BY AlertConstants
<1>3. Cardinality(1 .. n) = IF 1 > n THEN 0 ELSE n - 1 + 1
  BY <1>2, FS_Interval
<1>4. Cardinality(1 .. n) = n
  BY <1>2, <1>3
<1> HIDE DEF used
<1>5. Cardinality(used) = n
  BY <1>1, <1>4
<1>6. QED
  BY <1>5 DEF used

\* The worker starts an accumulator: its sighting is one nobody spoke of yet.
LEMMA OpenSightingStep ==
  ASSUME AlertInv, NEW p \in Planes, OpenSighting(p)
  PROVE  AlertInv'
<1>1. PICK n \in 0 .. MaxSightings : \A s \in SightingIds : Used(s) <=> s <= n
  BY DEF AlertInv, UsedInv
<1>2. PICK s \in 1 .. MaxSightings : /\ s = Cardinality({t \in 1 .. MaxSightings : aTop[t] # -1}) + 1
                                     /\ aSighting' = [aSighting EXCEPT ![p] = s]
                                     /\ aTop' = [aTop EXCEPT ![s] = 0]
  BY DEF OpenSighting
<1>3. s = n + 1 /\ s \in SightingIds /\ ~Used(s) /\ aSighting[p] = NoSighting
  BY <1>1, <1>2, NextSighting, AlertConstants DEF OpenSighting, SightingIds
<1>4. aTop \in [SightingIds -> -1 .. 2] /\ aSighting \in [Planes -> 0 .. MaxSightings]
  BY DEF AlertInv, AlertTypes, AlertTypeOK
<1>5. \A t \in SightingIds : aTop'[t] = IF t = s THEN 0 ELSE aTop[t]
  BY <1>2, <1>4
<1>6. \A q \in Planes : aSighting'[q] = IF q = p THEN s ELSE aSighting[q]
  BY <1>2, <1>4
<1>7. UNCHANGED <<aLive, aResolved, aAway, aCommitted, aRows, aTable, aDeleted, aRules, aState, aAdopted, aPc,
                  aBatch, aMade, aTold, aMoved, aBudget>>
  BY DEF OpenSighting, aWorld, aDesk, aEngine
<1>8. AlertTypes'
  <2>1. aTop' \in [SightingIds -> -1 .. 2] /\ aSighting' \in [Planes -> 0 .. MaxSightings]
    BY <1>2, <1>4, <1>3
  <2>2. QED
    BY <1>7, <2>1 DEF AlertInv, AlertTypes, AlertTypeOK
<1>9. \A t \in SightingIds : Used(t)' <=> t = s \/ Used(t)
  BY <1>5 DEF Used
<1>10. UsedInv'
  <2>1. \E k \in 0 .. MaxSightings : \A t \in SightingIds : Used(t)' <=> t <= k
    <3>1. \A t \in SightingIds : Used(t)' <=> t <= n + 1
      BY <1>1, <1>3, <1>9, AlertConstants DEF SightingIds
    <3>2. n + 1 \in 0 .. MaxSightings
      BY <1>2, <1>3
    <3>3. QED
      BY <3>1, <3>2
  <2>2. ASSUME NEW q \in Planes, aSighting'[q] # NoSighting
        PROVE  Used(aSighting[q])'
    <3>1. aSighting[q] \in 0 .. MaxSightings
      BY <1>4
    <3>2. q # p => aSighting'[q] = aSighting[q] /\ Used(aSighting[q]) /\ aSighting[q] \in SightingIds
      BY <1>6, <2>2, <3>1, AlertConstants DEF AlertInv, UsedInv, NoSighting, SightingIds
    <3>3. q = p => aSighting'[q] = s
      BY <1>6
    <3>4. aSighting'[q] \in SightingIds /\ (aSighting'[q] = s \/ Used(aSighting'[q]))
      BY <1>3, <3>2, <3>3
    <3>5. aTop'[aSighting'[q]] # -1
      BY <1>5, <3>4 DEF Used
    <3>6. QED
      BY <3>5 DEF Used
  <2>3. \A m \in aTold \cup aMade \cup aBatch : Used(m.sighting) /\ m.sighting \in SightingIds
    BY DEF AlertInv, UsedInv, AlertTypes, Matches, Attempts
  <2>4. \A m \in aTold' \cup aMade' \cup aBatch' : Used(m.sighting)'
    BY <1>5, <1>7, <2>3 DEF Used
  <2>5. QED
    BY <2>1, <2>2, <2>4 DEF UsedInv
<1>11. FiredInv'
  BY <1>7 DEF AlertInv, FiredInv, OnDisk
<1>12. BatchInv'
  <2>1. ASSUME NEW m \in aBatch
        PROVE  aSighting'[m.plane] = m.sighting \/ m.sighting \in aMoved
    <3>1. m.sighting # NoSighting /\ m.plane \in Planes
      BY AlertConstants DEF AlertInv, AlertTypes, Attempts, SightingIds, NoSighting
    <3>2. aSighting[m.plane] = m.sighting \/ m.sighting \in aMoved
      BY DEF AlertInv, BatchInv
    <3>3. QED
      BY <1>3, <1>6, <3>1, <3>2
  <2>2. QED
    BY <1>7, <2>1 DEF AlertInv, BatchInv, OnDisk
<1>13. ToldInv'
  BY <1>7 DEF AlertInv, ToldInv, Spent
<1>14. SeverityCoversMatches'
  <2>1. ASSUME NEW m \in aTold
        PROVE  m.sighting \in aMoved \/ aTop'[m.sighting] >= Rank(m.key)
    <3>1. m.sighting \in SightingIds /\ Used(m.sighting)
      BY DEF AlertInv, UsedInv, AlertTypes, Matches
    <3>2. aTop'[m.sighting] = aTop[m.sighting]
      BY <1>3, <1>5, <3>1
    <3>3. QED
      BY <3>2 DEF AlertInv, SeverityCoversMatches
  <2>2. QED
    BY <1>7, <2>1 DEF SeverityCoversMatches
<1>15. QED
  BY <1>8, <1>10, <1>11, <1>12, <1>13, <1>14 DEF AlertInv

\* ... commits its INSERT ...
LEMMA CommitSightingStep ==
  ASSUME AlertInv, NEW p \in Planes, CommitSighting(p)
  PROVE  AlertInv'
<1>1. aSighting[p] \in 1 .. MaxSightings
  BY AlertConstants DEF CommitSighting, AlertInv, AlertTypes, AlertTypeOK, NoSighting
<1>2. UNCHANGED <<aLive, aResolved, aAway, aSighting, aTop, aRows, aTable, aDeleted, aRules, aState, aAdopted, aPc,
                  aBatch, aMade, aTold, aMoved, aBudget>>
  BY DEF CommitSighting, aWorld, aDesk, aEngine
<1>3. aCommitted' \subseteq 1 .. MaxSightings
  BY <1>1 DEF CommitSighting, AlertInv, AlertTypes, AlertTypeOK
<1>4. AlertTypes'
  BY <1>2, <1>3 DEF AlertInv, AlertTypes, AlertTypeOK
<1>5. UsedInv' /\ FiredInv' /\ BatchInv'
  BY <1>2 DEF AlertInv, UsedInv, Used, FiredInv, BatchInv, OnDisk
<1>6. ToldInv' /\ SeverityCoversMatches'
  BY <1>2 DEF AlertInv, ToldInv, Spent, SeverityCoversMatches
<1>7. QED
  BY <1>4, <1>5, <1>6 DEF AlertInv

\* ... and lets go of it, under a write that may be under way.
LEMMA CloseSightingStep ==
  ASSUME AlertInv, NEW p \in Planes, CloseSighting(p)
  PROVE  AlertInv'
<1>1. UNCHANGED <<aLive, aResolved, aCommitted, aTop, aRows, aTable, aDeleted, aRules, aState, aAdopted, aPc,
                  aBatch, aMade, aTold, aBudget>>
  BY DEF CloseSighting, aDesk, aEngine
<1>2. aSighting \in [Planes -> 0 .. MaxSightings] /\ aMoved \subseteq aMoved'
  BY DEF AlertInv, AlertTypes, AlertTypeOK, CloseSighting
<1>3. \A q \in Planes : aSighting'[q] = IF q = p THEN NoSighting ELSE aSighting[q]
  BY <1>2 DEF CloseSighting
<1>4. AlertTypes'
  <2>1. aSighting' \in [Planes -> 0 .. MaxSightings] /\ aAway' \subseteq Planes
    BY <1>2, AlertConstants DEF CloseSighting, NoSighting, AlertInv, AlertTypes, AlertTypeOK
  <2>2. QED
    BY <1>1, <2>1 DEF AlertInv, AlertTypes, AlertTypeOK
<1>5. UsedInv'
  <2>1. \A q \in Planes : aSighting'[q] # NoSighting => aSighting'[q] = aSighting[q]
    BY <1>3
  <2>2. QED
    BY <1>1, <2>1 DEF AlertInv, UsedInv, Used
<1>6. BatchInv'
  <2>1. ASSUME NEW m \in aBatch
        PROVE  aSighting'[m.plane] = m.sighting \/ m.sighting \in aMoved'
    <3>1. m.plane \in Planes
      BY DEF AlertInv, AlertTypes, Attempts
    <3>2. aSighting[m.plane] = m.sighting \/ m.sighting \in aMoved
      BY DEF AlertInv, BatchInv
    <3>3. CASE m.plane = p
      <4>1. aMoved' = aMoved \cup {aSighting[p]}
        BY <3>3 DEF CloseSighting
      <4>2. QED
        BY <3>2, <3>3, <4>1
    <3>4. QED
      BY <1>2, <1>3, <3>1, <3>2, <3>3
  <2>2. QED
    BY <1>1, <2>1 DEF AlertInv, BatchInv, OnDisk
<1>7. FiredInv' /\ ToldInv'
  BY <1>1 DEF AlertInv, FiredInv, OnDisk, ToldInv, Spent
<1>8. SeverityCoversMatches'
  BY <1>1, <1>2 DEF AlertInv, SeverityCoversMatches
<1>9. QED
  BY <1>4, <1>5, <1>6, <1>7, <1>8 DEF AlertInv

\* create_rule: the new rule stems from a later edit than any match ever made.
LEMMA CreateRuleStep ==
  ASSUME AlertInv, CreateRule
  PROVE  AlertInv'
<1> DEFINE id == 1 + Max({0} \cup DOMAIN aTable)
<1>1. DOMAIN aTable \subseteq 1 .. MaxRuleId /\ aTable \in [DOMAIN aTable -> Nat]
  BY DEF AlertInv, AlertTypes, AlertTypeOK
<1>2. id \in Nat \ {0} /\ id \notin DOMAIN aTable
  <2> DEFINE ids == {0} \cup DOMAIN aTable
  <2>1. ids \in SUBSET (0 .. MaxRuleId) /\ ids # {} /\ MaxRuleId \in Nat
    BY <1>1, AlertConstants
  <2>2. PICK top \in ids : \A x \in ids : x <= top
    <3> HIDE DEF ids
    <3>1. QED
      BY <2>1, MaxExists
  <2>3. Max(ids) = top
    <3>1. \A x \in ids : x \in Int /\ x <= top
      BY <2>1, <2>2
    <3> HIDE DEF ids
    <3>2. QED
      BY <3>1, MaxIs
  <2>4. top \in Nat /\ \A x \in DOMAIN aTable : x <= top
    BY <2>1, <2>2
  <2>5. id = 1 + top
    BY <2>3
  <2> HIDE DEF id
  <2>6. id \in Nat \ {0}
    BY <2>4, <2>5
  <2>7. id \in DOMAIN aTable => id <= top
    BY <2>4
  <2>8. QED
    BY <2>4, <2>5, <2>6, <2>7
<1>3. /\ id <= MaxRuleId /\ Spend("edits")
      /\ aTable' = [k \in DOMAIN aTable \cup {id} |-> IF k = id THEN aBudget.edits ELSE aTable[k]]
  BY DEF CreateRule
<1> HIDE DEF id
<1>4. UNCHANGED <<aLive, aResolved, aAway, aSighting, aCommitted, aMoved, aTop, aRows, aDeleted, aRules, aState,
                  aAdopted, aPc, aBatch, aMade, aTold>>
  BY DEF CreateRule, aWorld, aBook, aEngine
<1>5. aBudget \in Budgets /\ aBudget.edits \in Nat
  BY DEF AlertInv, AlertTypes, Budgets
<1>6. aBudget' \in Budgets /\ aBudget'.edits \in Nat /\ aBudget'.edits < aBudget.edits
  <2>1. aBudget' \in Budgets /\ aBudget'.edits = aBudget.edits - 1
    BY <1>3, <1>5, SpendIs
  <2>2. aBudget'.edits \in Nat
    BY <2>1 DEF Budgets
  <2>3. QED
    BY <1>5, <2>1, <2>2
<1>7. /\ DOMAIN aTable' = DOMAIN aTable \cup {id} /\ aTable'[id] = aBudget.edits
      /\ \A k \in DOMAIN aTable : aTable'[k] = aTable[k]
  BY <1>2, <1>3
<1>8. AlertTypes'
  <2>1. id \in 1 .. MaxRuleId
    BY <1>2, <1>3, AlertConstants
  <2>2. DOMAIN aTable' \subseteq 1 .. MaxRuleId
    BY <1>1, <1>7, <2>1
  <2>3. aTable' \in [DOMAIN aTable' -> Nat]
    BY <1>1, <1>3, <1>5, <1>7
  <2>4. QED
    BY <1>4, <1>6, <2>2, <2>3 DEF AlertInv, AlertTypes, AlertTypeOK
<1>9. UsedInv' /\ FiredInv' /\ BatchInv' /\ SeverityCoversMatches'
  BY <1>4 DEF AlertInv, UsedInv, Used, FiredInv, BatchInv, OnDisk, SeverityCoversMatches
<1>10. ToldInv'
  <2>1. ASSUME NEW r \in aTold \cup aMade
        PROVE  Spent(r)'
    <3>1. Spent(r) /\ r.made \in Nat
      BY DEF AlertInv, ToldInv, AlertTypes, Matches
    <3>2. CASE r.key = Emergency
      BY <1>4, <3>1, <3>2 DEF Spent
    <3>3. CASE r.key # Emergency
      <4>1. aBudget.edits < r.made
        BY <3>1, <3>3 DEF Spent
      <4>2. aBudget'.edits < r.made
        BY <1>5, <1>6, <3>1, <4>1
      <4>3. r \in aRows \/ r.key \notin DOMAIN aTable \/ aTable[r.key] < r.made
        BY <3>1, <3>3 DEF Spent
      <4>4. r.key = id => aTable'[r.key] < r.made
        BY <1>7, <4>1
      <4>5. r \in aRows' \/ r.key \notin DOMAIN aTable' \/ aTable'[r.key] < r.made
        BY <1>4, <1>7, <4>3, <4>4
      <4>6. QED
        BY <3>3, <4>2, <4>5 DEF Spent
    <3>4. QED
      BY <3>2, <3>3
  <2>2. ASSUME NEW k \in DOMAIN aTable'
        PROVE  aBudget'.edits < aTable'[k]
    <3>1. CASE k = id
      BY <1>6, <1>7, <3>1
    <3>2. CASE k \in DOMAIN aTable
      <4>1. aBudget.edits < aTable[k] /\ aTable[k] \in Nat
        BY <1>1, <3>2 DEF AlertInv, ToldInv
      <4>2. QED
        BY <1>5, <1>6, <1>7, <3>2, <4>1
    <3>3. QED
      BY <1>7, <3>1, <3>2
  <2>3. aMade' \cap aTold' = {} /\ aTold' \cup aMade' = aTold \cup aMade
    BY <1>4 DEF AlertInv, ToldInv
  <2>4. QED
    BY <2>1, <2>2, <2>3 DEF ToldInv
<1>11. QED
  BY <1>8, <1>9, <1>10 DEF AlertInv

\* delete_rule: the rule's rows go with it, and its id is one that may name another rule.
LEMMA DeleteRuleStep ==
  ASSUME AlertInv, NEW id \in 1 .. MaxRuleId, DeleteRule(id)
  PROVE  AlertInv'
<1>1. /\ id \in DOMAIN aTable /\ Spend("edits")
      /\ aTable' = [k \in DOMAIN aTable \ {id} |-> aTable[k]]
      /\ aRows' = {r \in aRows : r.key # id} /\ aDeleted' = aDeleted \cup {id}
  BY DEF DeleteRule
<1>2. UNCHANGED <<aLive, aResolved, aAway, aSighting, aCommitted, aMoved, aTop, aRules, aState,
                  aAdopted, aPc, aBatch, aMade, aTold>>
  BY DEF DeleteRule, aWorld, aBook, aEngine
<1>3. aBudget \in Budgets /\ aBudget.edits \in Nat
  BY DEF AlertInv, AlertTypes, Budgets
<1>4. aBudget' \in Budgets /\ aBudget'.edits \in Nat /\ aBudget'.edits < aBudget.edits
  <2>1. aBudget' \in Budgets /\ aBudget'.edits = aBudget.edits - 1
    BY <1>1, <1>3, SpendIs
  <2>2. aBudget'.edits \in Nat
    BY <2>1 DEF Budgets
  <2>3. QED
    BY <1>3, <2>1, <2>2
<1>5. DOMAIN aTable' = DOMAIN aTable \ {id} /\ \A k \in DOMAIN aTable' : aTable'[k] = aTable[k]
  BY <1>1
<1>6. AlertTypes'
  <2>1. aTable' \in [DOMAIN aTable' -> Nat] /\ DOMAIN aTable' \subseteq 1 .. MaxRuleId
    BY <1>1, <1>5 DEF AlertInv, AlertTypes, AlertTypeOK
  <2>2. aRows' \subseteq Matches
    BY <1>1 DEF AlertInv, AlertTypes
  <2>3. QED
    BY <1>2, <1>4, <2>1, <2>2 DEF AlertInv, AlertTypes, AlertTypeOK
<1>7. UsedInv' /\ SeverityCoversMatches'
  BY <1>2 DEF AlertInv, UsedInv, Used, SeverityCoversMatches
<1>8. ASSUME NEW k, NEW s, OnDisk(k, s)
      PROVE  OnDisk(k, s)'
  BY <1>1, <1>8 DEF OnDisk
<1>9. FiredInv'
  BY <1>2, <1>8 DEF AlertInv, FiredInv
<1>10. BatchInv'
  BY <1>2, <1>8 DEF AlertInv, BatchInv
<1>11. ToldInv'
  <2>1. ASSUME NEW r \in aTold \cup aMade
        PROVE  Spent(r)'
    <3>1. Spent(r) /\ r.made \in Nat
      BY DEF AlertInv, ToldInv, AlertTypes, Matches
    <3>2. CASE r.key = Emergency
      <4>1. r \in aRows /\ r.key # id
        BY <3>1, <3>2 DEF Spent, Emergency
      <4>2. QED
        BY <1>1, <3>2, <4>1 DEF Spent
    <3>3. CASE r.key # Emergency
      <4>1. aBudget.edits < r.made
        BY <3>1, <3>3 DEF Spent
      <4>2. aBudget'.edits < r.made
        BY <1>3, <1>4, <3>1, <4>1
      <4>3. r \in aRows \/ r.key \notin DOMAIN aTable \/ aTable[r.key] < r.made
        BY <3>1, <3>3 DEF Spent
      <4>4. r \in aRows' \/ r.key \notin DOMAIN aTable' \/ aTable'[r.key] < r.made
        BY <1>1, <1>5, <4>3
      <4>5. QED
        BY <3>3, <4>2, <4>4 DEF Spent
    <3>4. QED
      BY <3>2, <3>3
  <2>2. ASSUME NEW k \in DOMAIN aTable'
        PROVE  aBudget'.edits < aTable'[k]
    <3>1. aBudget.edits < aTable[k] /\ aTable[k] \in Nat
      BY <1>5, <2>2 DEF AlertInv, ToldInv, AlertTypes
    <3>2. QED
      BY <1>3, <1>4, <1>5, <2>2, <3>1
  <2>3. aMade' \cap aTold' = {} /\ aTold' \cup aMade' = aTold \cup aMade
    BY <1>2 DEF AlertInv, ToldInv
  <2>4. QED
    BY <2>1, <2>2, <2>3 DEF ToldInv
<1>12. QED
  BY <1>6, <1>7, <1>9, <1>10, <1>11 DEF AlertInv

\* set_rules: what matches from now on.
LEMMA SetRulesStep ==
  ASSUME AlertInv, SetRules
  PROVE  AlertInv'
<1>1. UNCHANGED <<aLive, aResolved, aAway, aSighting, aCommitted, aMoved, aTop, aTable, aRows, aDeleted, aState,
                  aAdopted, aPc, aBatch, aMade, aTold, aBudget>>
  BY DEF SetRules, aWorld, aBook
<1>2. aRules' \subseteq 1 .. MaxRuleId
  BY DEF SetRules, AlertInv, AlertTypes, AlertTypeOK
<1>3. AlertTypes'
  BY <1>1, <1>2 DEF AlertInv, AlertTypes, AlertTypeOK
<1>4. UsedInv' /\ FiredInv' /\ BatchInv'
  BY <1>1 DEF AlertInv, UsedInv, Used, FiredInv, BatchInv, OnDisk
<1>5. ToldInv' /\ SeverityCoversMatches'
  BY <1>1 DEF AlertInv, ToldInv, Spent, SeverityCoversMatches
<1>6. QED
  BY <1>3, <1>4, <1>5 DEF AlertInv

\* _cycle: every aircraft's state is scoped to its sighting, and the batch is for that sighting.
LEMMA CycleStep ==
  ASSUME AlertInv, Cycle
  PROVE  AlertInv'
<1> DEFINE wanted == (IF aSub.overflowed THEN aLive ELSE Collect(Kept)) \cap aLive
           gone   == IF aSub.overflowed THEN {} ELSE Collect(Kept) \ aLive
           states == [p \in Planes |-> CASE p \in wanted -> Evaluated(p, Kept[p])
                                         [] p \in gone   -> NewAlertState
                                         [] OTHER        -> Kept[p]]
           owed   == {[plane |-> p, key |-> k, sighting |-> SightingId(p)] : p \in wanted, k \in Keys}
<1>1. /\ aPc = "idle" /\ aState' = states
      /\ aBatch' = {m \in owed : m.sighting # NoSighting /\ m.key \in states[m.plane].pending}
      /\ aPc' = IF aBatch' = {} THEN "idle" ELSE "write"
  BY DEF Cycle
<1>2. UNCHANGED <<aLive, aResolved, aAway, aSighting, aCommitted, aMoved, aTop, aTable, aDeleted, aRows, aRules,
                  aAdopted, aMade, aTold, aBudget>>
  BY DEF Cycle, aWorld, aBook, aDesk
<1>3. AlertTypes /\ wanted \subseteq Planes
  BY DEF AlertInv, AlertTypes, AlertTypeOK
<1> HIDE DEF wanted, gone
<1>4. \A p \in Planes : aState'[p] \in {Evaluated(p, Kept[p]), NewAlertState, Kept[p]}
                        /\ (p \in wanted => aState'[p] = Evaluated(p, Kept[p]))
  <2> SUFFICES ASSUME NEW p \in Planes
               PROVE  /\ aState'[p] \in {Evaluated(p, Kept[p]), NewAlertState, Kept[p]}
                      /\ p \in wanted => aState'[p] = Evaluated(p, Kept[p])
    OBVIOUS
  <2>1. aState'[p] = CASE p \in wanted -> Evaluated(p, Kept[p])
                       [] p \in gone   -> NewAlertState
                       [] OTHER        -> Kept[p]
    BY <1>1
  <2>2. wanted \cap gone = {}
    BY DEF wanted, gone
  <2>3. CASE p \in wanted
    BY <2>1, <2>2, <2>3
  <2>4. CASE p \in gone
    BY <2>1, <2>2, <2>4
  <2>5. CASE p \notin wanted /\ p \notin gone
    BY <2>1, <2>5
  <2>6. QED
    BY <2>3, <2>4, <2>5
<1>5. ASSUME NEW p \in Planes
      PROVE  /\ Kept[p] \in AlertStates /\ Kept[p] \in {aState[p], NewAlertState}
             /\ Evaluated(p, Kept[p]) \in AlertStates
             /\ Evaluated(p, Kept[p]).sighting = SightingId(p)
             /\ Evaluated(p, Kept[p]).fired
                  = IF SightingId(p) = Kept[p].sighting THEN Kept[p].fired
                    ELSE {q.key : q \in {b \in aAdopted : b.sighting = SightingId(p)}}
  BY <1>3, KeptIs, EvaluatedIs
<1>6. aState' \in [Planes -> AlertStates]
  <2>1. \A p \in Planes : aState'[p] \in AlertStates
    BY <1>4, <1>5, NewStateIs
  <2>2. QED
    BY <1>1, <2>1
<1>7. \A m \in aBatch' : /\ m.plane \in wanted /\ m.key \in Keys /\ m.sighting = SightingId(m.plane)
                         /\ m.sighting # NoSighting /\ m \in [plane : Planes, key : Keys, sighting : {SightingId(m.plane)}]
  <2>1. \A m \in owed : /\ m.plane \in wanted /\ m.key \in Keys /\ m.sighting = SightingId(m.plane)
                        /\ m \in [plane : Planes, key : Keys, sighting : {SightingId(m.plane)}]
    BY <1>3
  <2>2. QED
    BY <1>1, <2>1
<1>8. \A m \in aBatch' : m.sighting = aSighting[m.plane] /\ m.sighting \in SightingIds /\ m \in Attempts
  BY <1>3, <1>7, SightingIdIs DEF Attempts
<1>9. AlertTypes'
  <2>1. aBatch' \subseteq Attempts /\ aPc' \in {"idle", "write", "apply"}
    BY <1>1, <1>8
  <2>2. AlertTypeOK'
    BY <1>2, <1>3, <1>6, <2>1 DEF AlertTypes, AlertTypeOK, AlertStates
  <2>3. QED
    BY <1>2, <1>3, <2>1, <2>2 DEF AlertTypes
<1>10. UsedInv'
  <2>1. \A m \in aBatch' : Used(m.sighting)
    <3>1. \A m \in aBatch' : m.plane \in Planes /\ aSighting[m.plane] # NoSighting
      BY <1>3, <1>7, <1>8
    <3>2. QED
      BY <1>8, <3>1 DEF AlertInv, UsedInv
  <2>2. QED
    BY <1>2, <2>1 DEF AlertInv, UsedInv, Used
<1>11. FiredInv'
  <2>1. ASSUME NEW p \in Planes, NEW k \in Kept[p].fired
        PROVE  OnDisk(k, Kept[p].sighting)
    BY <1>5, <2>1, NewStateIs DEF AlertInv, FiredInv
  <2>2. ASSUME NEW p \in Planes, NEW k \in Evaluated(p, Kept[p]).fired
        PROVE  OnDisk(k, Evaluated(p, Kept[p]).sighting)
    <3>1. CASE SightingId(p) = Kept[p].sighting
      BY <1>5, <2>1, <2>2, <3>1
    <3>2. CASE SightingId(p) # Kept[p].sighting
      <4>1. k \in {q.key : q \in {b \in aAdopted : b.sighting = SightingId(p)}}
        <5>1. Evaluated(p, Kept[p]).fired = {q.key : q \in {b \in aAdopted : b.sighting = SightingId(p)}}
          BY <1>5, <3>2
        <5>2. QED
          BY <2>2, <5>1
      <4>2. PICK q \in aAdopted : q.key = k /\ q.sighting = SightingId(p)
        BY <4>1
      <4>3. QED
        BY <1>5, <4>2 DEF AlertInv, FiredInv
    <3>3. QED
      BY <3>1, <3>2
  <2>3. ASSUME NEW p \in Planes, NEW k \in aState'[p].fired
        PROVE  OnDisk(k, aState'[p].sighting)
    <3>1. aState'[p] # NewAlertState
      BY <2>3, NewStateIs
    <3>2. CASE aState'[p] = Kept[p]
      BY <2>1, <2>3, <3>2
    <3>3. CASE aState'[p] = Evaluated(p, Kept[p])
      BY <2>2, <2>3, <3>3
    <3>4. QED
      BY <1>4, <3>1, <3>2, <3>3
  <2>4. \A q \in aAdopted' : OnDisk(q.key, q.sighting)
    BY <1>2 DEF AlertInv, FiredInv
  <2>5. QED
    BY <1>2, <2>3, <2>4 DEF FiredInv, OnDisk
<1>12. BatchInv'
  <2>1. \A m \in aBatch' : aState'[m.plane].sighting = m.sighting
    BY <1>3, <1>4, <1>5, <1>7
  <2>2. aMade' = {}
    BY <1>1, <1>2 DEF AlertInv, BatchInv
  <2>3. aPc' # "apply" /\ (aPc' = "idle" => aBatch' = {})
    BY <1>1
  <2>4. QED
    BY <1>2, <1>8, <2>1, <2>2, <2>3 DEF BatchInv
<1>13. ToldInv' /\ SeverityCoversMatches'
  BY <1>2 DEF AlertInv, ToldInv, Spent, SeverityCoversMatches
<1>14. QED
  BY <1>9, <1>10, <1>11, <1>12, <1>13 DEF AlertInv

\* What record_matches creates: rows nobody was told of, and afterwards all of the batch is on disk.
LEMMA RecordedIs ==
  ASSUME AlertInv, ~BatchBroken
  PROVE  /\ Recorded(aBatch) \subseteq Matches
         /\ \A r \in Recorded(aBatch) : /\ \E m \in aBatch : m.key = r.key /\ m.sighting = r.sighting
                                        /\ r \notin aTold
                                        /\ r.key # Emergency => r.key \in DOMAIN aTable /\ r.made = aTable[r.key]
         /\ \A m \in aBatch : \E r \in aRows \cup Recorded(aBatch) : r.key = m.key /\ r.sighting = m.sighting
<1> DEFINE row(m) == [key |-> m.key, sighting |-> m.sighting,
                      made |-> IF m.key = Emergency THEN 0 ELSE aTable[m.key]]
           new    == {n \in aBatch : ~\E r \in aRows : r.key = n.key /\ r.sighting = n.sighting}
<1>1. Recorded(aBatch) = {row(m) : m \in new}
  BY DEF Recorded
<1>2. \A m \in aBatch : /\ m.key \in Keys /\ m.sighting \in SightingIds
                        /\ m.key # Emergency => m.key \in DOMAIN aTable /\ aTable[m.key] \in Nat
  BY DEF AlertInv, AlertTypes, Attempts, BatchBroken
<1>3. \A m \in aBatch : /\ row(m) \in Matches /\ row(m).key = m.key /\ row(m).sighting = m.sighting
                        /\ row(m).made = IF m.key = Emergency THEN 0 ELSE aTable[m.key]
  BY <1>2 DEF Matches
<1> HIDE DEF row
<1>4. ASSUME NEW m \in new
      PROVE  row(m) \notin aTold
  <2>1. m \in aBatch /\ row(m) \notin aRows
    BY <1>3
  <2>2. row(m) \in aTold => Spent(row(m))
    BY DEF AlertInv, ToldInv
  <2>3. m.key # Emergency => /\ m.key \in DOMAIN aTable /\ aTable[m.key] \in Nat
                             /\ row(m).key = m.key /\ row(m).made = aTable[m.key]
    BY <1>2, <1>3, <2>1
  <2>4. m.key # Emergency => ~(aTable[m.key] < row(m).made)
    BY <2>3
  <2>5. QED
    BY <1>3, <2>1, <2>2, <2>3, <2>4 DEF Spent
<1>5. Recorded(aBatch) \subseteq Matches
  BY <1>1, <1>3
<1>6. ASSUME NEW r \in Recorded(aBatch)
      PROVE  /\ \E m \in aBatch : m.key = r.key /\ m.sighting = r.sighting
             /\ r \notin aTold
             /\ r.key # Emergency => r.key \in DOMAIN aTable /\ r.made = aTable[r.key]
  <2>1. PICK m \in new : r = row(m)
    BY <1>1, <1>6
  <2>2. QED
    BY <1>2, <1>3, <1>4, <2>1
<1>7. ASSUME NEW m \in aBatch
      PROVE  \E r \in aRows \cup Recorded(aBatch) : r.key = m.key /\ r.sighting = m.sighting
  <2>1. CASE m \in new
    BY <1>1, <1>3, <2>1
  <2>2. CASE m \notin new
    BY <2>2
  <2>3. QED
    BY <2>1, <2>2
<1>8. QED
  BY <1>5, <1>6, <1>7

\* _record's write commits: what it creates, nobody was told of.
LEMMA WriteMatchesStep ==
  ASSUME AlertInv, WriteMatches
  PROVE  AlertInv'
<1>1. aPc = "write" /\ aPc' = "apply" /\ aMade' = Recorded(aBatch) /\ aRows' = aRows \cup aMade' /\ ~BatchBroken
  BY DEF WriteMatches
<1>2. UNCHANGED <<aLive, aResolved, aAway, aSighting, aCommitted, aMoved, aTop, aTable, aDeleted, aRules, aState,
                  aAdopted, aBatch, aTold, aBudget>>
  BY DEF WriteMatches, aWorld, aBook, aDesk
<1>3. /\ aMade' \subseteq Matches
      /\ \A r \in aMade' : /\ \E m \in aBatch : m.key = r.key /\ m.sighting = r.sighting
                           /\ r \notin aTold
                           /\ r.key # Emergency => r.key \in DOMAIN aTable /\ r.made = aTable[r.key]
      /\ \A m \in aBatch : \E r \in aRows' : r.key = m.key /\ r.sighting = m.sighting
  BY <1>1, RecordedIs
<1>4. AlertTypes'
  BY <1>1, <1>2, <1>3 DEF AlertInv, AlertTypes, AlertTypeOK
<1>5. UsedInv'
  BY <1>2, <1>3 DEF AlertInv, UsedInv, Used
<1>6. ASSUME NEW k, NEW s, OnDisk(k, s)
      PROVE  OnDisk(k, s)'
  BY <1>1, <1>2, <1>6 DEF OnDisk
<1>7. FiredInv'
  BY <1>2, <1>6 DEF AlertInv, FiredInv
<1>8. BatchInv'
  <2>1. \A m \in aBatch : OnDisk(m.key, m.sighting)'
    BY <1>3 DEF OnDisk
  <2>2. QED
    BY <1>1, <1>2, <1>3, <2>1 DEF AlertInv, BatchInv
<1>9. ToldInv'
  <2>1. aTold' \cup aMade' = aTold \cup aMade' /\ aMade' \cap aTold' = {}
    BY <1>2, <1>3
  <2>2. ASSUME NEW r \in aTold
        PROVE  Spent(r)'
    BY <1>1, <1>2 DEF AlertInv, ToldInv, Spent
  <2>3. ASSUME NEW r \in aMade'
        PROVE  Spent(r)'
    <3>1. r \in aRows'
      BY <1>1
    <3>2. r.key # Emergency => aBudget.edits < r.made
      BY <1>3 DEF AlertInv, ToldInv
    <3>3. QED
      BY <1>2, <3>1, <3>2 DEF Spent
  <2>4. \A k \in DOMAIN aTable' : aBudget'.edits < aTable'[k]
    BY <1>2 DEF AlertInv, ToldInv
  <2>5. QED
    BY <2>1, <2>2, <2>3, <2>4 DEF ToldInv
<1>10. SeverityCoversMatches'
  BY <1>2 DEF AlertInv, SeverityCoversMatches
<1>11. QED
  BY <1>4, <1>5, <1>7, <1>8, <1>9, <1>10 DEF AlertInv

\* _record's write raises: the batch is dropped and what is pending stays.
LEMMA WriteFailsStep ==
  ASSUME AlertInv, WriteFails
  PROVE  AlertInv'
<1>1. aPc = "write" /\ aPc' = "idle" /\ aBatch' = {}
  BY DEF WriteFails
<1>2. UNCHANGED <<aLive, aResolved, aAway, aSighting, aCommitted, aMoved, aTop, aTable, aDeleted, aRows, aRules,
                  aState, aAdopted, aMade, aTold>>
  BY DEF WriteFails, aWorld, aBook, aDesk
<1>3. aBudget' \in Budgets /\ aBudget'.edits = aBudget.edits
  <2>1. aBudget \in Budgets
    BY DEF AlertInv, AlertTypes
  <2>2. UNCHANGED aBudget \/ Spend("faults")
    BY DEF WriteFails
  <2>3. QED
    BY <2>1, <2>2, SpendIs
<1>4. AlertTypes'
  BY <1>1, <1>2, <1>3 DEF AlertInv, AlertTypes, AlertTypeOK
<1>5. UsedInv' /\ FiredInv'
  BY <1>1, <1>2 DEF AlertInv, UsedInv, Used, FiredInv, OnDisk
<1>6. BatchInv'
  BY <1>1, <1>2 DEF AlertInv, BatchInv
<1>7. ToldInv' /\ SeverityCoversMatches'
  BY <1>2, <1>3 DEF AlertInv, ToldInv, Spent, SeverityCoversMatches
<1>8. QED
  BY <1>4, <1>5, <1>6, <1>7 DEF AlertInv

\* The greater of a rank and the ranks raised to is one of them, and none is greater.
LEMMA TopIs ==
  ASSUME NEW t \in -1 .. 2, NEW R \in SUBSET {1, 2}
  PROVE  /\ Max({t} \cup R) \in -1 .. 2 /\ Max({t} \cup R) >= t
         /\ \A x \in R : Max({t} \cup R) >= x
         /\ R = {} => Max({t} \cup R) = t
<1> DEFINE S == {t} \cup R
<1>1. \A x \in S : x \in -1 .. 2
  OBVIOUS
<1>2. \E top \in S : \A x \in S : x <= top
  <2>1. CASE 2 \in S
    BY <2>1, <1>1
  <2>2. CASE 2 \notin S /\ 1 \in S
    <3>1. \A x \in S : x <= 1
      BY <2>2, <1>1
    <3>2. QED
      BY <2>2, <3>1
  <2>3. CASE 2 \notin S /\ 1 \notin S
    BY <2>3
  <2>4. QED
    BY <2>1, <2>2, <2>3
<1>3. PICK top \in S : \A x \in S : x <= top
  BY <1>2
<1>4. Max(S) = top
  <2>1. \A x \in S : x \in Int /\ x <= top
    BY <1>1, <1>3
  <2> HIDE DEF S
  <2>2. QED
    BY <2>1, MaxIs
<1>5. \A x \in S : Max(S) >= x
  BY <1>1, <1>3, <1>4
<1>6. Max(S) \in -1 .. 2
  BY <1>1, <1>4
<1>7. R = {} => Max(S) = t
  BY <1>3, <1>4
<1>8. QED
  BY <1>5, <1>6, <1>7

\* _record after the write: what was attempted has fired, and what was created is told and raises.
LEMMA ApplyMatchesStep ==
  ASSUME AlertInv, ApplyMatches
  PROVE  AlertInv'
<1> DEFINE keys(p)  == {m.key : m \in {n \in aBatch : n.plane = p}}
           made(m)  == \E r \in aMade : r.key = m.key /\ r.sighting = m.sighting
           raise(s) == {Rank(m.key) : m \in {n \in aBatch : made(n) /\ aSighting[n.plane] = s}}
<1>1. /\ aPc = "apply" /\ aPc' = "idle" /\ aBatch' = {} /\ aMade' = {} /\ aTold' = aTold \cup aMade
      /\ aState' = [p \in Planes |-> IF aState[p].known THEN AfterWrite(aState[p], keys(p)) ELSE aState[p]]
      /\ aTop' = [s \in DOMAIN aTop |-> Max({aTop[s]} \cup raise(s))]
  BY DEF ApplyMatches
<1>2. UNCHANGED <<aLive, aResolved, aAway, aSighting, aCommitted, aMoved, aTable, aDeleted, aRows, aRules,
                  aAdopted, aBudget>>
  BY DEF ApplyMatches, aWorld, aBook, aDesk
<1>3. /\ aState \in [Planes -> AlertStates] /\ aTop \in [SightingIds -> -1 .. 2]
      /\ aBatch \subseteq Attempts /\ aMade \subseteq Matches
  BY DEF AlertInv, AlertTypes, AlertTypeOK, AlertStates
<1>4. \A s : raise(s) \in SUBSET {1, 2}
  BY DEF Rank
<1>5. ASSUME NEW s \in SightingIds
      PROVE  /\ aTop'[s] \in -1 .. 2 /\ aTop'[s] >= aTop[s]
             /\ \A x \in raise(s) : aTop'[s] >= x
             /\ raise(s) = {} => aTop'[s] = aTop[s]
  <2>1. aTop'[s] = Max({aTop[s]} \cup raise(s)) /\ aTop[s] \in -1 .. 2
    BY <1>1, <1>3
  <2>2. raise(s) \in SUBSET {1, 2}
    BY <1>4
  <2> HIDE DEF raise
  <2>3. QED
    BY <2>1, <2>2, TopIs
<1>6. aTop' \in [SightingIds -> -1 .. 2]
  <2>1. DOMAIN aTop = SightingIds
    BY <1>3
  <2> HIDE DEF raise
  <2>2. QED
    BY <1>1, <1>5, <2>1
<1>7. ASSUME NEW p \in Planes
      PROVE  /\ aState'[p] \in AlertStates /\ aState'[p].sighting = aState[p].sighting
             /\ \A k \in aState'[p].fired : k \in aState[p].fired \/ k \in keys(p)
  <2>1. aState'[p] = IF aState[p].known THEN AfterWrite(aState[p], keys(p)) ELSE aState[p]
    BY <1>1
  <2>2. keys(p) \in SUBSET Keys /\ aState[p] \in AlertStates
    BY <1>3 DEF Attempts
  <2> HIDE DEF keys
  <2>3. CASE aState[p].known
    <3>1. aState'[p] = [aState[p] EXCEPT !.pending = @ \ keys(p), !.fired = @ \cup keys(p)]
      BY <2>1, <2>3 DEF AfterWrite
    <3>2. aState'[p] \in AlertStates
      BY <2>2, <3>1 DEF AlertStates
    <3>3. aState'[p].sighting = aState[p].sighting /\ aState'[p].fired = aState[p].fired \cup keys(p)
      BY <2>2, <3>1 DEF AlertStates
    <3>4. QED
      BY <3>2, <3>3
  <2>4. CASE ~aState[p].known
    BY <2>1, <2>2, <2>4
  <2>5. QED
    BY <2>3, <2>4
<1>8. AlertTypes'
  <2>1. aState' \in [Planes -> AlertStates]
    BY <1>1, <1>7
  <2>2. AlertTypeOK'
    BY <1>1, <1>2, <2>1 DEF AlertInv, AlertTypes, AlertTypeOK, AlertStates
  <2>3. QED
    BY <1>1, <1>2, <1>3, <1>6, <2>2 DEF AlertInv, AlertTypes
<1>9. \A s \in SightingIds : Used(s)' <=> Used(s)
  <2>1. ASSUME NEW s \in SightingIds
        PROVE  aTop'[s] = -1 <=> aTop[s] = -1
    <3>1. aTop[s] = -1 => raise(s) = {}
      <4>1. ASSUME aTop[s] = -1, NEW n \in aBatch, aSighting[n.plane] = s
            PROVE  FALSE
        <5>1. n.plane \in Planes /\ s # NoSighting
          BY <1>3, AlertConstants DEF Attempts, SightingIds, NoSighting
        <5>2. QED
          BY <4>1, <5>1 DEF AlertInv, UsedInv, Used
      <4>2. QED
        BY <4>1
    <3>2. aTop'[s] \in -1 .. 2 /\ aTop[s] \in -1 .. 2 /\ aTop'[s] >= aTop[s]
      BY <1>3, <1>5
    <3>3. raise(s) = {} => aTop'[s] = aTop[s]
      BY <1>5
    <3> HIDE DEF raise
    <3>4. QED
      BY <3>1, <3>2, <3>3
  <2>2. QED
    BY <2>1 DEF Used
<1>10. UsedInv'
  <2>1. \E n \in 0 .. MaxSightings : \A s \in SightingIds : Used(s)' <=> s <= n
    BY <1>9 DEF AlertInv, UsedInv
  <2>2. ASSUME NEW q \in Planes, aSighting'[q] # NoSighting
        PROVE  Used(aSighting[q])'
    <3>1. aSighting[q] \in SightingIds /\ Used(aSighting[q]) /\ aSighting'[q] = aSighting[q]
      BY <1>2, <2>2, AlertConstants
         DEF AlertInv, UsedInv, AlertTypes, AlertTypeOK, NoSighting, SightingIds
    <3>2. aTop'[aSighting[q]] # -1
      BY <1>9, <3>1 DEF Used
    <3>3. QED
      BY <1>2, <3>2 DEF Used
  <2>3. ASSUME NEW m \in aTold' \cup aMade' \cup aBatch'
        PROVE  Used(m.sighting)'
    <3>1. m \in aTold \cup aMade
      BY <1>1
    <3>2. m.sighting \in SightingIds /\ Used(m.sighting)
      BY <3>1 DEF AlertInv, UsedInv, AlertTypes, Matches
    <3>3. aTop'[m.sighting] # -1
      BY <1>9, <3>2 DEF Used
    <3>4. QED
      BY <3>3 DEF Used
  <2>4. QED
    BY <2>1, <2>2, <2>3 DEF UsedInv
<1>11. FiredInv'
  <2>1. ASSUME NEW p \in Planes, NEW k \in aState'[p].fired
        PROVE  OnDisk(k, aState'[p].sighting)
    <3>1. CASE k \in aState[p].fired
      BY <1>7, <3>1 DEF AlertInv, FiredInv
    <3>2. CASE k \in keys(p)
      <4>1. PICK m \in aBatch : m.plane = p /\ m.key = k
        BY <3>2
      <4>2. OnDisk(m.key, m.sighting) /\ aState[m.plane].sighting = m.sighting
        BY <1>1 DEF AlertInv, BatchInv
      <4>3. aState'[p].sighting = aState[p].sighting
        BY <1>7
      <4>4. QED
        BY <4>1, <4>2, <4>3
    <3>3. QED
      BY <1>7, <2>1, <3>1, <3>2
  <2>2. \A q \in aAdopted' : OnDisk(q.key, q.sighting)
    BY <1>2 DEF AlertInv, FiredInv
  <2>3. QED
    BY <1>2, <2>1, <2>2 DEF FiredInv, OnDisk
<1>12. BatchInv'
  BY <1>1 DEF BatchInv
<1>13. ToldInv'
  <2>1. aTold' \cup aMade' = aTold \cup aMade /\ aMade' \cap aTold' = {}
    BY <1>1
  <2>2. \A r \in aTold \cup aMade : Spent(r)'
    BY <1>2 DEF AlertInv, ToldInv, Spent
  <2>3. \A k \in DOMAIN aTable' : aBudget'.edits < aTable'[k]
    BY <1>2 DEF AlertInv, ToldInv
  <2>4. QED
    BY <2>1, <2>2, <2>3 DEF ToldInv
<1>14. SeverityCoversMatches'
  <2>1. ASSUME NEW m \in aTold'
        PROVE  m.sighting \in aMoved \/ aTop'[m.sighting] >= Rank(m.key)
    <3>1. m.sighting \in SightingIds
      BY <1>1, <2>1 DEF AlertInv, AlertTypes, Matches
    <3>2. CASE m \in aTold
      <4>1. m.sighting \in aMoved \/ aTop[m.sighting] >= Rank(m.key)
        BY <3>2 DEF AlertInv, SeverityCoversMatches
      <4>2. aTop'[m.sighting] \in Int /\ aTop[m.sighting] \in Int /\ aTop'[m.sighting] >= aTop[m.sighting]
        BY <1>3, <1>5, <3>1
      <4>3. Rank(m.key) \in Int
        BY DEF Rank
      <4>4. QED
        BY <4>1, <4>2, <4>3
    <3>3. CASE m \in aMade
      <4>1. PICK n \in aBatch : n.key = m.key /\ n.sighting = m.sighting
        BY <3>3 DEF AlertInv, BatchInv
      <4>2. aSighting[n.plane] = n.sighting \/ n.sighting \in aMoved
        BY DEF AlertInv, BatchInv
      <4>3. aSighting[n.plane] = m.sighting => Rank(m.key) \in raise(m.sighting)
        BY <3>3, <4>1
      <4>4. \A x \in raise(m.sighting) : aTop'[m.sighting] >= x
        BY <1>5, <3>1
      <4> HIDE DEF raise
      <4>5. QED
        BY <4>1, <4>2, <4>3, <4>4
    <3>4. QED
      BY <1>1, <2>1, <3>2, <3>3
  <2>2. QED
    BY <1>2, <2>1 DEF SeverityCoversMatches
<1>15. QED
  BY <1>8, <1>10, <1>11, <1>12, <1>13, <1>14 DEF AlertInv

\* The process ends: what was being written is not known to have been told.
LEMMA EndEngineStep ==
  ASSUME AlertInv, EndEngine
  PROVE  AlertInv'
<1>1. /\ aLive' = {} /\ aResolved' = {} /\ aState' = [p \in Planes |-> NewAlertState] /\ aAdopted' = {}
      /\ aRules' = {} /\ aPc' = "idle" /\ aBatch' = {} /\ aMade' = {}
      /\ aMoved' = aMoved \cup {m.sighting : m \in aBatch}
  BY DEF EndEngine
<1>2. UNCHANGED <<aCommitted, aTop, aTable, aRows, aDeleted, aTold>>
  BY DEF EndEngine
<1>3. PICK adopted \in SUBSET {p \in Planes : aSighting[p] \in aCommitted} :
        /\ aAway' = adopted
        /\ aSighting' = [p \in Planes |-> IF p \in adopted THEN aSighting[p] ELSE NoSighting]
  BY DEF EndEngine
<1>4. aBudget' \in Budgets /\ aBudget'.edits = aBudget.edits
  <2>1. aBudget \in Budgets /\ Spend("ends")
    BY DEF EndEngine, AlertInv, AlertTypes
  <2>2. QED
    BY <2>1, SpendIs
<1>5. aSighting \in [Planes -> 0 .. MaxSightings]
  BY DEF AlertInv, AlertTypes, AlertTypeOK
<1>6. \A p \in Planes : aSighting'[p] \in {aSighting[p], NoSighting}
  BY <1>3
<1>7. AlertTypes'
  <2>1. aSighting' \in [Planes -> 0 .. MaxSightings] /\ aAway' \subseteq Planes
    BY <1>3, <1>5, AlertConstants DEF NoSighting
  <2>2. aState' \in [Planes -> AlertStates]
    BY <1>1, NewStateIs
  <2>3. AlertTypeOK'
    BY <1>1, <1>2, <2>1, <2>2 DEF AlertInv, AlertTypes, AlertTypeOK, AlertStates
  <2>4. QED
    BY <1>1, <1>2, <1>4, <2>3 DEF AlertInv, AlertTypes
<1>8. UsedInv'
  <2>1. \A p \in Planes : aSighting'[p] # NoSighting => aSighting'[p] = aSighting[p]
    BY <1>6
  <2>2. QED
    BY <1>1, <1>2, <2>1 DEF AlertInv, UsedInv, Used
<1>9. FiredInv'
  BY <1>1, NewStateIs DEF FiredInv
<1>10. BatchInv'
  BY <1>1 DEF BatchInv
<1>11. ToldInv'
  BY <1>1, <1>2, <1>4 DEF AlertInv, ToldInv, Spent
<1>12. SeverityCoversMatches'
  BY <1>1, <1>2 DEF AlertInv, SeverityCoversMatches
<1>13. QED
  BY <1>7, <1>8, <1>9, <1>10, <1>11, <1>12 DEF AlertInv

\* AlertService.start: what it adopts are rows.
LEMMA StartEngineStep ==
  ASSUME AlertInv, StartEngine
  PROVE  AlertInv'
<1>1. aRules' = DOMAIN aTable /\ aAdopted' = OpenMatches
  BY DEF StartEngine
<1>2. UNCHANGED <<aLive, aResolved, aAway, aSighting, aCommitted, aMoved, aTop, aTable, aRows, aDeleted, aState,
                  aPc, aBatch, aMade, aTold, aBudget>>
  BY DEF StartEngine, aWorld, aBook, aDesk
<1>3. /\ OpenMatches \subseteq [key : Keys, sighting : SightingIds]
      /\ \A q \in OpenMatches : \E r \in aRows : r.key = q.key /\ r.sighting = q.sighting
  BY DEF OpenMatches, AlertInv, AlertTypes, Matches
<1>4. AlertTypes'
  BY <1>1, <1>2, <1>3 DEF AlertInv, AlertTypes, AlertTypeOK
<1>5. FiredInv'
  BY <1>1, <1>2, <1>3 DEF AlertInv, FiredInv, OnDisk
<1>6. UsedInv' /\ BatchInv'
  BY <1>2 DEF AlertInv, UsedInv, Used, BatchInv, OnDisk
<1>7. ToldInv' /\ SeverityCoversMatches'
  BY <1>2 DEF AlertInv, ToldInv, Spent, SeverityCoversMatches
<1>8. QED
  BY <1>4, <1>5, <1>6, <1>7 DEF AlertInv

\* An engine that has done nothing yet.
LEMMA AlertStarts == AlertInit => AlertInv
<1> SUFFICES ASSUME AlertInit
             PROVE  AlertInv
  OBVIOUS
<1>1. /\ aState = [p \in Planes |-> NewAlertState] /\ aTop = [s \in SightingIds |-> -1]
      /\ aTable = [k \in {1} |-> MaxEdits + 1] /\ aSighting = [p \in Planes |-> NoSighting]
      /\ aRows = {} /\ aAdopted = {} /\ aBatch = {} /\ aMade = {} /\ aTold = {} /\ aPc = "idle"
  BY DEF AlertInit, SightingIds
<1>2. aBudget \in Budgets /\ aBudget.edits = MaxEdits /\ MaxEdits \in Nat
  BY AlertConstants DEF AlertInit, Budgets
<1>3. AlertTypes
  <2>1. aState \in [Planes -> AlertStates]
    BY <1>1, NewStateIs
  <2>2. DOMAIN aTable \subseteq 1 .. MaxRuleId
    BY <1>1, AlertConstants
  <2>3. aSighting \in [Planes -> 0 .. MaxSightings]
    BY <1>1, AlertConstants DEF NoSighting
  <2>4. AlertTypeOK
    BY <2>1, <2>2, <2>3 DEF AlertInit, AlertTypeOK, AlertStates
  <2>5. aTop \in [SightingIds -> -1 .. 2]
    BY <1>1
  <2>6. aTable \in [DOMAIN aTable -> Nat]
    BY <1>1, <1>2
  <2>7. QED
    BY <1>1, <1>2, <2>4, <2>5, <2>6 DEF AlertTypes
<1>4. UsedInv
  <2>1. \A s \in SightingIds : Used(s) <=> s <= 0
    BY <1>1, AlertConstants DEF Used, SightingIds
  <2>2. 0 \in 0 .. MaxSightings
    BY AlertConstants
  <2>3. QED
    BY <1>1, <2>1, <2>2 DEF UsedInv
<1>5. FiredInv
  BY <1>1, NewStateIs DEF FiredInv
<1>6. BatchInv
  BY <1>1 DEF BatchInv
<1>7. ToldInv /\ SeverityCoversMatches
  BY <1>1, <1>2 DEF ToldInv, SeverityCoversMatches
<1>8. QED
  BY <1>3, <1>4, <1>5, <1>6, <1>7 DEF AlertInv

\* Every step of the specification keeps the invariant.
LEMMA AlertStep == AlertInv /\ [AlertNext]_aVars => AlertInv'
<1> SUFFICES ASSUME AlertInv, [AlertNext]_aVars
             PROVE  AlertInv'
  OBVIOUS
<1>1. ASSUME NEW p \in Planes,
             \/ Appear(p) \/ Refresh(p) \/ Change(p) \/ GoStale(p) \/ Leave(p) \/ Resolve(p) \/ ContinueSighting(p)
      PROVE  AlertInv'
  BY <1>1, WatchStep
<1>2. ASSUME NEW p \in Planes, OpenSighting(p) \/ CommitSighting(p) \/ CloseSighting(p)
      PROVE  AlertInv'
  BY <1>2, OpenSightingStep, CommitSightingStep, CloseSightingStep
<1>3. CASE CreateRule \/ (\E id \in 1 .. MaxRuleId : DeleteRule(id)) \/ SetRules
  BY <1>3, CreateRuleStep, DeleteRuleStep, SetRulesStep
<1>4. CASE Cycle \/ WriteMatches \/ WriteFails \/ ApplyMatches
  BY <1>4, CycleStep, WriteMatchesStep, WriteFailsStep, ApplyMatchesStep
<1>5. CASE EndEngine \/ StartEngine
  BY <1>5, EndEngineStep, StartEngineStep
<1>6. CASE UNCHANGED aVars
  <2>1. aBudget \in Budgets /\ aLive \subseteq Planes /\ aResolved \subseteq aLive /\ aAway \subseteq Planes
    BY DEF AlertInv, AlertTypes, AlertTypeOK
  <2>2. QED
    BY <1>6, <2>1, Untouched DEF aVars, aBook, aDesk, aEngine
<1>7. QED
  BY <1>1, <1>2, <1>3, <1>4, <1>5, <1>6 DEF AlertNext
-----------------------------------------------------------------------------
\* The engine's invariant holds in every state, whatever fails or restarts and however rules are
\* edited under it.
THEOREM AlertIsInvariant == AlertSpec => []AlertInv
<1>1. QED
  BY AlertStarts, AlertStep, PTL DEF AlertSpec

\* What the engine takes for fired in a sighting is on disk, so it leaves nothing unrecorded, and an
\* announced match has raised the severity of its sighting (engine.py: _state_for, _record).
THEOREM AlertPromises == AlertSpec => []AlertInvariant
<1>1. AlertInv => AlertInvariant
  <2>1. AlertInv => FiredIsRecorded
    BY DEF AlertInv, FiredInv, OnDisk, FiredIsRecorded
  <2>2. QED
    BY <2>1 DEF AlertInv, AlertTypes, AlertInvariant
<1>2. QED
  BY <1>1, AlertIsInvariant, PTL

\* "Nothing is announced twice" (engine.py): the matches one cycle created were never handed to the
\* listeners before, however often the process restarted or a write was retried.
THEOREM NothingIsToldTwice == AlertSpec => AnnouncedOnce
<1>1. AlertInv /\ [AlertNext]_aVars
        => [aPc = "apply" /\ aPc' = "idle" => aMade \cap aTold = {} \/ ~aUp']_aVars
  BY DEF AlertInv, ToldInv
<1>2. QED
  BY <1>1, AlertIsInvariant, PTL DEF AlertSpec, AnnouncedOnce
=============================================================================
