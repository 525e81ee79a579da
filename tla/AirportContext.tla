---------------------------- MODULE AirportContext ----------------------------
(***************************************************************************)
(* Which field a low aircraft is near, and whether it is landing there     *)
(* (airports/service.py, airports/inference.py), for one aircraft.  The    *)
(* service reads the live event stream through a bounded queue, keeps the  *)
(* ranges of the last two minutes and a latched phase, sets both aside     *)
(* when the aircraft is removed, and hands what it concludes to the open   *)
(* sighting (sightings/state.py).  An import or a clear of the airport     *)
(* table rebuilds the index meanwhile.                                     *)
(*                                                                         *)
(* Ranges are tenths of a nautical mile, heights are above the field.  The *)
(* caps of 4096 aircraft and 256 samples are never met by one aircraft.    *)
(***************************************************************************)
EXTENDS EventQueue, FiniteSets, SequencesExt

CONSTANTS Seen,             \* what a poll may report: [field, nm, agl, rate, ground]; field "none" is out of range,
                          \* "unknown" without a position
          RemoveAfter,      \* remove_s of the live store, 60 s unless configured
          PhaseGrace,       \* PHASE_GRACE_S
          TrendWindow,      \* TREND_WINDOW_MS
          AirBudgets        \* bounds: imports and clears of an instance, and until when it runs

ASSUME AirConstants ==
  /\ RemoveAfter \in Nat \ {0} /\ PhaseGrace \in Nat /\ TrendWindow \in Nat
  /\ Seen \subseteq [field : STRING, nm : Nat, agl : Int, rate : Int, ground : BOOLEAN]
  /\ AirBudgets \subseteq [changes : Nat, until : Nat]

VARIABLES
  cClock,        \* the observation clock
  cLive,         \* the live store's record, with its last_seen; or Gone
  cSub,          \* the subscription
  cIndex,        \* the index in force holds the airports; else it is empty
  cTable,        \* the airports table holds them
  cReloads,      \* reload() calls under way
  cAnswer,       \* _answers, of the aircraft
  cTrail,        \* _trails, oldest first
  cLapsed,       \* _lapsed: [answer, trail, expiry]
  cRow,          \* the open sighting's inference
  cBudget,
  cHeard,        \* history: the positions the service was shown, and what it said to each
  cLost          \* history: an event was shed

cVars == <<cClock, cLive, cSub, cIndex, cTable, cReloads, cAnswer, cTrail, cLapsed, cRow, cBudget, cHeard, cLost>>
cHeld == <<cAnswer, cTrail, cLapsed, cRow, cHeard>>

Gone      == [seen |-> -1]
NoAnswer  == [field |-> "none", phase |-> "none"]
NotLapsed == [answer |-> NoAnswer, trail |-> <<>>, expiry |-> 0]
NoSighting == [open |-> FALSE, field |-> "none", phase |-> "none"]

(* ------------------------------ the gates ------------------------------- *)

\* in_context: near the field, and low or on the ground.
InContext(r) == IF r.ground THEN r.nm <= 30 ELSE r.agl <= 10000

\* _closing_delta: how much closer than the oldest sample of the window; nothing if another field was nearest.
Trend(r, trail) ==
  LET window == {s \in ToSet(trail) : r.seen - s.seen <= TrendWindow}
      oldest == CHOOSE s \in window : \A t \in window : s.seen <= t.seen
  IN  IF window = {} \/ \E s \in window : s.field # r.field THEN 0 ELSE oldest.nm - r.nm

\* infer_phase.
Phase(r, trail) ==
  IF r.ground \/ r.agl > 6000 THEN "none"
  ELSE IF r.rate <= -300 /\ r.nm <= 150 /\ Trend(r, trail) >= 3 THEN "arriving"
  ELSE IF r.rate >= 300 /\ r.nm <= 100 /\ Trend(r, trail) <= -3 THEN "departing"
  ELSE "none"

\* Mutant: a phase is latched to the aircraft, whatever the field.
LatchedAnywhere(answer, r, phase) == IF phase # "none" THEN phase ELSE answer.phase

\* _latched: a phase is kept while its field is.
Latched(answer, r, phase) ==
  IF phase # "none" THEN phase ELSE IF answer.field = r.field THEN answer.phase ELSE "none"

(* ------------------------------ the answer ------------------------------ *)

\* What the service holds of the aircraft, for one event.
Holding == [answer |-> cAnswer, trail |-> cTrail, lapsed |-> cLapsed, row |-> cRow, heard |-> cHeard]

\* apply_inferred_airport: a phase is not blanked at its own field, and never carried to another.
RowWith(row, field, phase) ==
  IF ~row.open THEN row
  ELSE [row EXCEPT !.field = field,
                   !.phase = IF phase = "none" /\ row.field = field THEN @ ELSE phase]

\* _lapse: a removed aircraft's answer and trail are set aside.
Lapse(h, r) ==
  [h EXCEPT !.answer = NoAnswer, !.trail = <<>>,
            !.lapsed = IF h.answer = NoAnswer \/ PhaseGrace = 0 THEN NotLapsed
                       ELSE [answer |-> h.answer, trail |-> h.trail, expiry |-> r.seen + PhaseGrace]]

\* Mutant: what was set aside is taken back, however old.
ResumeAlways(h, r) ==
  IF h.lapsed = NotLapsed THEN h
  ELSE [h EXCEPT !.answer = h.lapsed.answer, !.trail = h.lapsed.trail, !.lapsed = NotLapsed]

\* _resume: and taken back inside the grace window.
Resume(h, r) ==
  IF h.lapsed.expiry <= r.seen THEN [h EXCEPT !.lapsed = NotLapsed]
  ELSE [h EXCEPT !.answer = h.lapsed.answer, !.trail = h.lapsed.trail, !.lapsed = NotLapsed]

\* _remember_sample: what is too old goes from the front.
Fresh(trail, since) ==
  LET kept == {i \in DOMAIN trail : trail[i].seen >= since}
  IN  IF kept = {} THEN <<>> ELSE SubSeq(trail, CHOOSE i \in kept : \A j \in kept : i <= j, Len(trail))
Remembered(trail, r) ==
  Append(Fresh(trail, r.seen - TrendWindow), [field |-> r.field, nm |-> r.nm, seen |-> r.seen])

\* The gates, once the aircraft is in range of a field; _persist keeps a phase, or a field it stands on.
Judge(h, r) ==
  LET phase == Latched(h.answer, r, Phase(r, h.trail))
      kept  == [h EXCEPT !.trail = Remembered(@, r)]
  IN  IF ~InContext(r) THEN [kept EXCEPT !.answer = NoAnswer]
      ELSE [kept EXCEPT !.answer = [field |-> r.field, phase |-> phase],
                        !.row = IF phase = "none" /\ ~r.ground THEN @ ELSE RowWith(@, r.field, phase)]

\* _observe.
Observe(h, r) ==
  IF r.field = "unknown" \/ ~cIndex THEN h
  ELSE IF r.field = "none" THEN [h EXCEPT !.answer = NoAnswer, !.trail = <<>>, !.lapsed = NotLapsed]
  ELSE Judge(Resume(h, r), r)

\* consider.
ConsiderEvent(h, e) ==
  IF e.kind = "removed" THEN Lapse(h, e.record)
  ELSE LET after == Observe(h, e.record)
       IN  IF e.record.field = "unknown" THEN after
           ELSE [after EXCEPT !.heard = Append(@, [record |-> e.record, known |-> cIndex, said |-> after.answer])]

(* ------------------------------- the steps ------------------------------ *)

PublishEvent(event) ==
  /\ cSub' = Deliver(cSub, event)
  /\ cLost' = (cLost \/ Len(cSub.queue) = QueueSize)

\* apply_updates: a new record, or one merged into it; a position, once known, is carried forward.
Report(r) ==
  /\ cLive = Gone \/ cLive.seen < cClock
  /\ LET sited  == IF r.field = "unknown" /\ cLive # Gone THEN [r EXCEPT !.field = cLive.field, !.nm = cLive.nm] ELSE r
         record == [field |-> sited.field, nm |-> sited.nm, agl |-> r.agl, rate |-> r.rate, ground |-> r.ground,
                    seen |-> cClock]
     IN  /\ cLive' = record
         /\ PublishEvent([kind |-> "seen", record |-> record])
  /\ UNCHANGED <<cClock, cIndex, cTable, cReloads, cHeld, cBudget>>

\* sweep removes what was not heard for too long ...
SweepLive ==
  /\ cLive # Gone /\ cClock - cLive.seen >= RemoveAfter
  /\ cLive' = Gone /\ PublishEvent([kind |-> "removed", record |-> cLive])
  /\ UNCHANGED <<cClock, cIndex, cTable, cReloads, cHeld, cBudget>>

\* ... and does not let that moment pass.
AirTick ==
  /\ cClock < cBudget.until /\ cClock' = cClock + 1
  /\ cLive # Gone => cClock - cLive.seen < RemoveAfter
  /\ UNCHANGED <<cLive, cSub, cIndex, cTable, cReloads, cHeld, cBudget, cLost>>

\* _read_loop: everything queued, in one go; an overflow is acknowledged and nothing else.
ReadEvents ==
  /\ cSub.queue # <<>>
  /\ LET h == FoldLeft(ConsiderEvent, Holding, cSub.queue)
     IN  /\ cAnswer' = h.answer /\ cTrail' = h.trail /\ cLapsed' = h.lapsed
         /\ cRow' = h.row /\ cHeard' = h.heard
  /\ cSub' = Acknowledged(Drained(cSub))
  /\ UNCHANGED <<cClock, cLive, cIndex, cTable, cReloads, cBudget, cLost>>

\* The persistence worker opens the sighting when it gets to it.
OpenSightingRow ==
  /\ ~cRow.open /\ cLive # Gone
  /\ cRow' = [cRow EXCEPT !.open = TRUE]
  /\ UNCHANGED <<cClock, cLive, cSub, cIndex, cTable, cReloads, cAnswer, cTrail, cLapsed, cBudget, cHeard, cLost>>

\* The airports source was imported, or the metadata cache cleared; each then calls reload.
ReplaceAirports(held) ==
  /\ cBudget.changes > 0 /\ cBudget' = [cBudget EXCEPT !.changes = @ - 1]
  /\ cTable' = held /\ cReloads' = cReloads + 1
  /\ UNCHANGED <<cClock, cLive, cSub, cIndex, cHeld, cLost>>

\* reload: the new index is built and swapped in.
ReloadIndex ==
  /\ cReloads > 0 /\ cReloads' = cReloads - 1
  /\ cIndex' = cTable
  /\ UNCHANGED <<cClock, cLive, cSub, cTable, cHeld, cBudget, cLost>>

AirportInit ==
  /\ cClock = 0 /\ cLive = Gone /\ cSub = NewSubscription
  /\ cTable \in BOOLEAN /\ cIndex = cTable /\ cReloads = 0
  /\ cAnswer = NoAnswer /\ cTrail = <<>> /\ cLapsed = NotLapsed
  /\ cRow \in {NoSighting, [NoSighting EXCEPT !.open = TRUE]}   \* a sighting may be open from before
  /\ cBudget \in AirBudgets
  /\ cHeard = <<>> /\ cLost = FALSE

AirportNext ==
  \/ (\E r \in Seen : Report(r)) \/ SweepLive \/ AirTick
  \/ ReadEvents \/ OpenSightingRow
  \/ (\E held \in BOOLEAN : ReplaceAirports(held)) \/ ReloadIndex

AirportSpec == AirportInit /\ [][AirportNext]_cVars

(* ------------------------------ properties ------------------------------ *)

AirportTypeOK ==
  /\ cClock \in 0 .. cBudget.until /\ cIndex \in BOOLEAN /\ cTable \in BOOLEAN /\ cReloads \in Nat
  /\ cAnswer.phase \in {"none", "arriving", "departing"} /\ cRow.phase \in {"none", "arriving", "departing"}
  /\ Len(cSub.queue) <= QueueSize
  /\ cLapsed # NotLapsed => cAnswer = NoAnswer

\* Observation i shows the aircraft closing on its field, or leaving it: against an earlier one of the window,
\* with no other field nearest in between.
Shows(i, phase) ==
  LET r == cHeard[i].record
  IN  /\ cHeard[i].known /\ ~r.ground /\ r.agl <= 6000
      /\ \E j \in 1 .. i - 1 :
           /\ r.seen - cHeard[j].record.seen <= TrendWindow
           /\ \A k \in j .. i - 1 : cHeard[k].known => cHeard[k].record.field = r.field
           /\ IF phase = "arriving" THEN r.rate <= -300 /\ cHeard[j].record.nm - r.nm >= 3
                                    ELSE r.rate >= 300 /\ r.nm - cHeard[j].record.nm >= 3

\* The aircraft stayed low at the field of observation i - 1 up to observation i; and how long it was not placed.
Stayed(i)  == cHeard[i].known /\ cHeard[i].record.field = cHeard[i - 1].record.field /\ InContext(cHeard[i].record)
Silence(i) == cHeard[i].record.seen - cHeard[i - 1].record.seen

\* A phase the live picture shows was earned at the field it names, and the aircraft has stayed there since, never
\* silent for the grace window or more if that is long enough to be removed
\* ("a phase, once inferred, is latched for as long as the aircraft stays with the same field",
\* airports/service.py:47).  Excepted: an event was shed, for a removal that is lost
\* leaves the latch standing; or the index was empty for a while, and nothing was looked at.
PhaseIsEarned ==
  cAnswer.phase # "none" /\ ~cLost /\ (\A i \in DOMAIN cHeard : cHeard[i].known) =>
    \E i \in DOMAIN cHeard :
      /\ cHeard[i].record.field = cAnswer.field /\ Shows(i, cAnswer.phase)
      /\ \A k \in i + 1 .. Len(cHeard) : Stayed(k) /\ (Silence(k) < PhaseGrace \/ Silence(k) <= RemoveAfter)

\* Conversely a phase outlives a level-off, and a dropout shorter than the grace window (_lapse, _resume).  A silence
\* of two removal times is excepted: an aircraft heard without a position and removed again loses what the first
\* removal set aside.  At the default of 60 s that is the grace window.
LatchHolds ==
  \A i \in 2 .. Len(cHeard) :
    cHeard[i - 1].known /\ cHeard[i - 1].said.phase # "none" /\ Stayed(i) /\ Silence(i) < PhaseGrace
      /\ Silence(i) < 2 * RemoveAfter => cHeard[i].said.phase # "none"

\* What the sighting keeps was shown at the field it names (apply_inferred_airport: "an inference about KBFI
\* never leaves a phase attached to KSEA").
RowIsEarned ==
  cRow.phase # "none" =>
    \E i \in DOMAIN cHeard : cHeard[i].record.field = cRow.field /\ Shows(i, cRow.phase)

\* What the airport context promises in every state.
AirportInvariant ==
  /\ AirportTypeOK
  /\ PhaseIsEarned /\ LatchHolds
  /\ RowIsEarned

\* "None covers every honest reason there is nothing to say - no airport dataset imported, ..."
\* (context_for, airports/service.py:221): with an empty index and every event read, no aircraft that was heard again has an answer.
EmptyIndexSaysNothing ==
  ~cIndex /\ cSub.queue = <<>> /\ cHeard # <<>> /\ ~Last(cHeard).known => cAnswer = NoAnswer
=============================================================================
