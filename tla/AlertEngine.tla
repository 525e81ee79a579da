----------------------------- MODULE AlertEngine -----------------------------
(***************************************************************************)
(* The alert engine (alerts/engine.py, alerts/evaluator.py) over its match *)
(* table (alerts/repository.py).  The engine owns one live subscription;   *)
(* each wake-up drains it, evaluates what changed or is still owed from    *)
(* memory alone, writes the matches whose sighting has an id, and then     *)
(* raises the sighting's severity and tells the activity feed.             *)
(*                                                                         *)
(* Key 0 is the built-in emergency detector, which needs no rule; every    *)
(* other key is an alert_rules id.  All rules watch one fact that needs    *)
(* the metadata cache.  The persistence worker appears only through the    *)
(* sighting it holds for an aircraft (PersistenceWorker models the rest).  *)
(***************************************************************************)
EXTENDS EventQueue, FiniteSets, FiniteSetsExt

CONSTANTS Planes,                 \* addresses
          MaxRuleId, MaxSightings, MaxShows, MaxFaults, MaxEdits, MaxEnds, MaxVisits   \* bounds

ASSUME AlertConstants ==
  /\ {MaxSightings, MaxShows, MaxFaults, MaxEdits, MaxEnds, MaxVisits} \subseteq Nat
  /\ MaxRuleId \in Nat \ {0}       \* one rule to begin with

Emergency == 0
Keys      == 0 .. MaxRuleId
Facts     == {"emergency", "military"}
NoSighting   == 0                    \* no sighting
Rank(k)   == IF k = Emergency THEN 2 ELSE 1    \* AlertSeverity.rank, of the match's severity

VARIABLES
  aLive, aShows,      \* the live set, and the facts each record shows
  aResolved,          \* aircraft the metadata cache has resolved
  aSub,               \* the engine's subscription
  aSighting,          \* aircraft -> the sighting its accumulator is for, 0 when there is none
  aAway,              \* aircraft that left the live set since their sighting was last continued
  aCommitted,         \* sightings whose INSERT has committed
  aTop,               \* sighting -> rank of max_alert_severity
  aTable,             \* alert_rules: id -> the creation it stems from
  aRows,              \* alert_matches: [key, sighting, made]
  aUp, aRules,        \* engine running, and the rule set in force
  aReload,            \* a rule mutation has committed and its reload has not run yet
  aState,             \* _states: aircraft -> [known, sighting, fired, pending, awaiting]
  aAdopted,           \* _adopted: [key, sighting] pairs
  aPc, aBatch, aMade, \* the cycle: "idle", "write", "apply"; matches to write; those created
  aTold,              \* history: every match handed to the listeners
  aDeleted,           \* history: ids whose rule was deleted, so that they may name another one now
  aMoved,             \* history: sightings whose aircraft changed sighting while a write was under way
  aBudget

aVars == <<aLive, aShows, aResolved, aSub, aSighting, aAway, aCommitted, aTop, aTable, aRows, aUp, aRules,
           aReload, aState, aAdopted, aPc, aBatch, aMade, aTold, aDeleted, aMoved, aBudget>>
aWorld  == <<aLive, aShows, aResolved, aAway>>
aBook   == <<aSighting, aCommitted, aMoved>>
aDesk   == <<aTable, aReload, aDeleted>>
aEngine == <<aUp, aRules, aState, aAdopted, aPc, aBatch, aMade>>

\* AircraftAlertState's defaults, for an aircraft _states does not hold.
NewAlertState == [known |-> FALSE, sighting |-> NoSighting, fired |-> {}, pending |-> {}, awaiting |-> TRUE]

Spend(what) == aBudget[what] > 0 /\ aBudget' = [aBudget EXCEPT ![what] = @ - 1]

\* sighting_id_for: the id is None until the INSERT has committed.
SightingId(p) == IF aSighting[p] \in aCommitted THEN aSighting[p] ELSE NoSighting

(* ------------------- the world the engine listens to -------------------- *)

\* AircraftAppeared; ingestion starts after every consumer and stops before them (app.py, _lifespan).
Appear(p) ==
  /\ aUp /\ p \notin aLive /\ Spend("visits")
  /\ aLive' = aLive \cup {p}
  /\ \E facts \in SUBSET Facts : aShows' = [aShows EXCEPT ![p] = facts]
  /\ aSub' = Deliver(aSub, [plane |-> p, kind |-> "update"])
  /\ UNCHANGED <<aResolved, aAway, aBook, aTop, aRows, aDesk, aEngine, aTold>>

\* AircraftUpdated with the facts it had: the heartbeat of a live aircraft.
Refresh(p) ==
  /\ p \in aLive
  /\ aSub' = Deliver(aSub, [plane |-> p, kind |-> "update"])
  /\ UNCHANGED <<aWorld, aBook, aTop, aRows, aDesk, aEngine, aTold, aBudget>>

\* AircraftUpdated with other facts.
Change(p) ==
  /\ p \in aLive /\ Spend("shows")
  /\ \E facts \in SUBSET Facts \ {aShows[p]} : aShows' = [aShows EXCEPT ![p] = facts]
  /\ aSub' = Deliver(aSub, [plane |-> p, kind |-> "update"])
  /\ UNCHANGED <<aLive, aResolved, aAway, aBook, aTop, aRows, aDesk, aEngine, aTold>>

\* AircraftStale: silence, and the record keeps what it showed.
GoStale(p) ==
  /\ p \in aLive
  /\ aSub' = Deliver(aSub, [plane |-> p, kind |-> "stale"])
  /\ UNCHANGED <<aWorld, aBook, aTop, aRows, aDesk, aEngine, aTold, aBudget>>

\* AircraftRemoved.
Leave(p) ==
  /\ p \in aLive
  /\ aLive' = aLive \ {p} /\ aShows' = [aShows EXCEPT ![p] = {}]
  /\ aResolved' = aResolved \ {p}
  /\ aAway' = IF aSighting[p] = NoSighting THEN aAway ELSE aAway \cup {p}
  /\ aSub' = Deliver(aSub, [plane |-> p, kind |-> "removed"])
  /\ UNCHANGED <<aBook, aTop, aRows, aDesk, aEngine, aTold, aBudget>>

\* The metadata cache resolves an airframe; no live event says so.
Resolve(p) ==
  /\ p \in aLive \ aResolved
  /\ aResolved' = aResolved \cup {p}
  /\ UNCHANGED <<aLive, aShows, aAway, aSub, aBook, aTop, aRows, aDesk, aEngine, aTold, aBudget>>

\* The persistence worker starts an accumulator for a live aircraft it holds none for.
OpenSighting(p) ==
  /\ p \in aLive /\ aSighting[p] = NoSighting
  /\ \E s \in {Cardinality({t \in 1 .. MaxSightings : aTop[t] # -1}) + 1} \cap (1 .. MaxSightings) :
       /\ aSighting' = [aSighting EXCEPT ![p] = s]
       /\ aTop' = [aTop EXCEPT ![s] = 0]
  /\ UNCHANGED <<aWorld, aSub, aCommitted, aRows, aDesk, aEngine, aTold, aMoved, aBudget>>

\* ... commits its INSERT ...
CommitSighting(p) ==
  /\ aSighting[p] # NoSighting /\ aSighting[p] \notin aCommitted
  /\ aCommitted' = aCommitted \cup {aSighting[p]}
  /\ UNCHANGED <<aWorld, aSub, aSighting, aTop, aRows, aDesk, aEngine, aTold, aMoved, aBudget>>

\* ... continues it when the aircraft is back within the closure gap ...
ContinueSighting(p) ==
  /\ p \in aAway \cap aLive
  /\ aAway' = aAway \ {p}
  /\ UNCHANGED <<aLive, aShows, aResolved, aSub, aBook, aTop, aRows, aDesk, aEngine, aTold, aBudget>>

\* ... and lets go of it once the gap has passed, though the aircraft may be back by then.
CloseSighting(p) ==
  /\ p \in aAway
  /\ aAway' = aAway \ {p}
  /\ aSighting' = [aSighting EXCEPT ![p] = NoSighting]
  /\ aMoved' = IF \E m \in aBatch : m.plane = p THEN aMoved \cup {aSighting[p]} ELSE aMoved
  /\ UNCHANGED <<aLive, aShows, aResolved, aSub, aCommitted, aTop, aRows, aDesk, aEngine, aTold, aBudget>>

(* ------------------------------ the rules ------------------------------- *)

\* create_rule: SQLite hands out one more than the highest id in the table.
CreateRule ==
  LET id == 1 + Max({0} \cup DOMAIN aTable)
  IN  /\ aUp /\ ~aReload /\ id <= MaxRuleId /\ Spend("edits")
      /\ aTable' = [k \in DOMAIN aTable \cup {id} |-> IF k = id THEN aBudget.edits ELSE aTable[k]]
      /\ aReload' = TRUE
      /\ UNCHANGED <<aWorld, aSub, aBook, aTop, aRows, aDeleted, aEngine, aTold>>

\* delete_rule: the rule and its matches, in one transaction.
DeleteRule(id) ==
  /\ aUp /\ ~aReload /\ id \in DOMAIN aTable /\ Spend("edits")
  /\ aTable' = [k \in DOMAIN aTable \ {id} |-> aTable[k]]
  /\ aRows' = {r \in aRows : r.key # id}
  /\ aDeleted' = aDeleted \cup {id}
  /\ aReload' = TRUE
  /\ UNCHANGED <<aWorld, aSub, aBook, aTop, aEngine, aTold>>

\* set_rules, reached through reload_rules; the fired sets stay.
SetRules ==
  /\ aUp /\ aReload
  /\ aRules' = DOMAIN aTable
  /\ aReload' = FALSE
  /\ UNCHANGED <<aWorld, aSub, aBook, aTop, aTable, aRows, aDeleted, aUp, aState, aAdopted, aPc, aBatch, aMade,
                 aTold, aBudget>>

(* ------------------------------ one cycle ------------------------------- *)

\* evaluate: the built-in first, then every rule whose conditions hold.
Evaluate(p) ==
  {Emergency : f \in aShows[p] \cap {"emergency"}}
    \cup {k \in aRules : p \in aResolved /\ "military" \in aShows[p]}

\* _collect: what changed since its last removal, plus what is owed.
Collect(state) ==
  {p \in Planes : \E i \in 1 .. Len(aSub.queue) :
      /\ aSub.queue[i] = [plane |-> p, kind |-> "update"]
      /\ \A j \in i + 1 .. Len(aSub.queue) : aSub.queue[j] # [plane |-> p, kind |-> "removed"]}
    \cup {p \in Planes : state[p].known /\ (state[p].awaiting \/ state[p].pending # {})}

\* The states a cycle keeps: not those removed (_collect), or not live (_resync).
Kept ==
  IF aSub.overflowed
    THEN [p \in Planes |-> IF p \in aLive THEN aState[p] ELSE NewAlertState]
    ELSE [p \in Planes |-> IF \E i \in 1 .. Len(aSub.queue) : aSub.queue[i] = [plane |-> p, kind |-> "removed"]
                             THEN NewAlertState ELSE aState[p]]

\* Mutant: the fired set outlives its sighting.
StateForKeepsFired(p, state) ==
  [state EXCEPT !.known = TRUE, !.sighting = SightingId(p), !.awaiting = p \notin aResolved]

\* _state_for: another sighting id starts from what a previous process recorded on it.
StateFor(p, state) ==
  LET id == SightingId(p)
  IN  [state EXCEPT
         !.known    = TRUE,
         !.fired    = IF id = state.sighting THEN @ ELSE {a.key : a \in {b \in aAdopted : b.sighting = id}},
         !.sighting = id,
         !.awaiting = p \notin aResolved]

\* Mutant: a proposal counts as fired at once, and replaces what was pending.
EvaluatedFires(p, state) ==
  LET scoped == StateFor(p, state)
  IN  [scoped EXCEPT !.pending = Evaluate(p) \ scoped.fired, !.fired = @ \cup Evaluate(p)]

\* _evaluate for one aircraft: what matches and has not fired joins what is pending.
Evaluated(p, state) ==
  LET scoped == StateFor(p, state)
  IN  [scoped EXCEPT !.pending = @ \cup (Evaluate(p) \ scoped.fired)]

\* _cycle up to the write: drain, collect or resync, evaluate, and pick what has a sighting id.
Cycle ==
  LET wanted == (IF aSub.overflowed THEN aLive ELSE Collect(Kept)) \cap aLive
      gone   == IF aSub.overflowed THEN {} ELSE Collect(Kept) \ aLive
      states == [p \in Planes |-> CASE p \in wanted -> Evaluated(p, Kept[p])
                                    [] p \in gone   -> NewAlertState
                                    [] OTHER        -> Kept[p]]
      owed   == {[plane |-> p, key |-> k, sighting |-> SightingId(p)] : p \in wanted, k \in Keys}
  IN  /\ aUp /\ aPc = "idle" /\ aSub.queue # <<>>
      /\ aSub' = Acknowledged(Drained(aSub))
      /\ aState' = states
      /\ aBatch' = {m \in owed : m.sighting # NoSighting /\ m.key \in states[m.plane].pending}
      /\ aPc' = IF aBatch' = {} THEN "idle" ELSE "write"
      /\ UNCHANGED <<aWorld, aBook, aTop, aDesk, aRows, aUp, aRules, aAdopted, aMade, aTold, aBudget>>

\* Mutant: a conflict is not told apart from a new row.
RecordedAll(batch) == {[key |-> m.key, sighting |-> m.sighting,
                        made |-> IF m.key = Emergency THEN 0 ELSE aTable[m.key]] : m \in batch}

\* record_matches: ON CONFLICT DO NOTHING on (key, sighting); the rows it created.
Recorded(batch) ==
  {[key |-> m.key, sighting |-> m.sighting, made |-> IF m.key = Emergency THEN 0 ELSE aTable[m.key]] :
     m \in {n \in batch : ~\E r \in aRows : r.key = n.key /\ r.sighting = n.sighting}}

\* The batch names a rule that is gone: its foreign key fails the whole transaction.
BatchBroken == \E m \in aBatch : m.key # Emergency /\ m.key \notin DOMAIN aTable

\* _record's write commits.
WriteMatches ==
  /\ aUp /\ aPc = "write" /\ ~BatchBroken
  /\ aMade' = Recorded(aBatch)
  /\ aRows' = aRows \cup aMade'
  /\ aPc' = "apply"
  /\ UNCHANGED <<aWorld, aSub, aBook, aTop, aDesk, aUp, aRules, aState, aAdopted, aBatch, aTold, aBudget>>

\* _record's write raises: every pending proposal stays.
WriteFails ==
  /\ aUp /\ aPc = "write"
  /\ IF BatchBroken THEN UNCHANGED aBudget ELSE Spend("faults")
  /\ aPc' = "idle" /\ aBatch' = {}
  /\ UNCHANGED <<aWorld, aSub, aBook, aTop, aDesk, aRows, aUp, aRules, aState, aAdopted, aMade, aTold>>

\* Mutant: a key leaves the pending set without joining the fired set.
AfterWriteForgets(state, keys) == [state EXCEPT !.pending = @ \ keys]

\* What the write means for one aircraft's state: every attempted key has fired.
AfterWrite(state, keys) == [state EXCEPT !.pending = @ \ keys, !.fired = @ \cup keys]

\* _record after the write: states, apply_alert_severity for what was created, _publish.
ApplyMatches ==
  LET keys(p)  == {m.key : m \in {n \in aBatch : n.plane = p}}
      made(m)  == \E r \in aMade : r.key = m.key /\ r.sighting = m.sighting
      raise(s) == {Rank(m.key) : m \in {n \in aBatch : made(n) /\ aSighting[n.plane] = s}}
  IN  /\ aUp /\ aPc = "apply"
      /\ aState' = [p \in Planes |-> IF aState[p].known THEN AfterWrite(aState[p], keys(p)) ELSE aState[p]]
      /\ aTop' = [s \in DOMAIN aTop |-> Max({aTop[s]} \cup raise(s))]
      /\ aTold' = aTold \cup aMade
      /\ aPc' = "idle" /\ aBatch' = {} /\ aMade' = {}
      /\ UNCHANGED <<aWorld, aSub, aBook, aDesk, aRows, aUp, aRules, aAdopted, aBudget>>

(* ------------------------------ lifecycle ------------------------------- *)

\* The process ends, by stop or by crash: the cycle is cut where it stands and memory is gone.  The
\* worker's recovery adopts some of the sightings left open and closes the others.
EndEngine ==
  /\ aUp /\ Spend("ends")
  /\ aUp' = FALSE
  /\ aLive' = {} /\ aResolved' = {} /\ aShows' = [p \in Planes |-> {}] /\ aSub' = NewSubscription
  /\ \E adopted \in SUBSET {p \in Planes : aSighting[p] \in aCommitted} :
       /\ aAway' = adopted
       /\ aSighting' = [p \in Planes |-> IF p \in adopted THEN aSighting[p] ELSE NoSighting]
  /\ aState' = [p \in Planes |-> NewAlertState] /\ aAdopted' = {} /\ aRules' = {}
  /\ aMoved' = aMoved \cup {m.sighting : m \in aBatch}
  /\ aReload' = FALSE /\ aPc' = "idle" /\ aBatch' = {} /\ aMade' = {}
  /\ UNCHANGED <<aCommitted, aTop, aTable, aRows, aDeleted, aTold>>

\* Mutant: the matches of a previous process are not adopted.
AdoptNothing == {}

\* open_sighting_match_keys
OpenMatches == {[key |-> r.key, sighting |-> r.sighting] :
                  r \in {q \in aRows : \E p \in Planes : aSighting[p] = q.sighting}}

\* AlertService.start: load the rules, adopt_open_matches, then attach and start the engine.
StartEngine ==
  /\ ~aUp
  /\ aUp' = TRUE
  /\ aRules' = DOMAIN aTable
  /\ aAdopted' = OpenMatches
  /\ UNCHANGED <<aWorld, aSub, aBook, aTop, aDesk, aRows, aState, aPc, aBatch, aMade, aTold, aBudget>>

AlertInit ==
  /\ aLive = {} /\ aShows = [p \in Planes |-> {}] /\ aResolved = {} /\ aSub = NewSubscription
  /\ aSighting = [p \in Planes |-> NoSighting] /\ aAway = {} /\ aCommitted = {}
  /\ aTop = [s \in 1 .. MaxSightings |-> -1]
  /\ aTable = [k \in {1} |-> MaxEdits + 1] /\ aRows = {}
  /\ aUp = FALSE /\ aRules = {} /\ aReload = FALSE
  /\ aState = [p \in Planes |-> NewAlertState] /\ aAdopted = {}
  /\ aPc = "idle" /\ aBatch = {} /\ aMade = {} /\ aTold = {} /\ aDeleted = {} /\ aMoved = {}
  /\ aBudget = [shows |-> MaxShows, faults |-> MaxFaults, edits |-> MaxEdits, ends |-> MaxEnds, visits |-> MaxVisits]

AlertNext ==
  \/ \E p \in Planes : \/ Appear(p) \/ Refresh(p) \/ Change(p) \/ GoStale(p) \/ Leave(p) \/ Resolve(p)
                       \/ OpenSighting(p) \/ CommitSighting(p) \/ ContinueSighting(p) \/ CloseSighting(p)
  \/ CreateRule \/ (\E id \in 1 .. MaxRuleId : DeleteRule(id)) \/ SetRules
  \/ Cycle \/ WriteMatches \/ WriteFails \/ ApplyMatches \/ EndEngine \/ StartEngine

\* The tasks run, the worker commits what it holds, the cache resolves what it is asked for, and a
\* decoder keeps updating an aircraft that is in range.
AlertFairness ==
  /\ WF_aVars(SetRules) /\ WF_aVars(Cycle) /\ WF_aVars(ApplyMatches)
  /\ WF_aVars(WriteMatches \/ WriteFails) /\ WF_aVars(StartEngine)
  /\ \A p \in Planes : WF_aVars(Refresh(p)) /\ WF_aVars(OpenSighting(p)) /\ WF_aVars(CommitSighting(p))
                       /\ WF_aVars(Resolve(p)) /\ WF_aVars(ContinueSighting(p) \/ CloseSighting(p))

AlertSpec == AlertInit /\ [][AlertNext]_aVars /\ AlertFairness

(* ------------------------------ properties ------------------------------ *)

AlertTypeOK ==
  /\ aLive \subseteq Planes /\ aResolved \subseteq aLive /\ aAway \subseteq Planes
  /\ aSighting \in [Planes -> 0 .. MaxSightings] /\ aCommitted \subseteq 1 .. MaxSightings
  /\ aRules \subseteq 1 .. MaxRuleId /\ DOMAIN aTable \subseteq 1 .. MaxRuleId
  /\ aPc \in {"idle", "write", "apply"}
  /\ aState \in [Planes -> [known : BOOLEAN, sighting : 0 .. MaxSightings, fired : SUBSET Keys,
                            pending : SUBSET Keys, awaiting : BOOLEAN]]

\* What the engine takes for fired in a sighting really is a row of that sighting, so nothing it
\* leaves out was never recorded; rules deleted since, whose rows went with them, aside
\* (_state_for, _record, adopt_open_matches).
FiredIsRecorded ==
  \A p \in Planes : \A k \in aState[p].fired :
    \/ k \in aDeleted
    \/ \E r \in aRows : r.key = k /\ r.sighting = aState[p].sighting

\* A rule, or the built-in, is announced once per sighting however often the process restarts,
\* retries or resyncs ("Nothing is announced twice", engine.py).
AnnouncedOnce == [][aPc = "apply" /\ aPc' = "idle" => aMade \cap aTold = {} \/ ~aUp']_aVars

\* An announced match has raised the severity of the sighting it is a row of, unless the aircraft's
\* sighting was replaced, or the process ended, between the write and the raise.
SeverityCoversMatches ==
  \A m \in aTold : m.sighting \in aMoved \/ aTop[m.sighting] >= Rank(m.key)

\* A key of an aircraft in range, with its sighting on disk, that keeps matching.
Owed(p, k) ==
  /\ aUp /\ p \in aLive \ aAway /\ SightingId(p) # NoSighting
  /\ k \in Evaluate(p) /\ (k # Emergency => k \in DOMAIN aTable \ aDeleted)

\* A proposal of a deleted rule is still pending somewhere.
Poisoned == \E p \in Planes : \E k \in aState[p].pending : k # Emergency /\ k \notin DOMAIN aTable

IsRecorded(p, k) == \E r \in aRows : r.key = k /\ r.sighting = aSighting[p]

\* What keeps matching is recorded in the end, through failed writes, overflow and late metadata,
\* while no proposal of a deleted rule is left pending.
MatchIsRecorded ==
  \A p \in Planes, k \in Keys : <>[](Owed(p, k) /\ ~Poisoned) => <>[]IsRecorded(p, k)

\* "Every failure mode ends in an alert being later, and none of them ends anywhere else"
\* (engine.py:99).
AlertIsOnlyLater == \A p \in Planes, k \in Keys : <>[]Owed(p, k) => <>[]IsRecorded(p, k)

\* What the engine promises in every state: what it takes for fired is on disk, and an announced match
\* has raised its sighting's severity.
AlertInvariant == AlertTypeOK /\ FiredIsRecorded /\ SeverityCoversMatches
=============================================================================
