---------------------------- MODULE DailyRollups ----------------------------
(***************************************************************************)
(* The analytics rollups (analytics/): one row per receiver-local day, the *)
(* fold of the sightings that started in it.  The service marks days dirty *)
(* as the persistence worker commits, rebuilds them on its own task, and   *)
(* repairs at every start what the last process left stale; a change of    *)
(* the receiver's time zone rebuilds the whole history.                    *)
(*                                                                         *)
(* A day is a number and an instant a tick; a sighting's figures are one   *)
(* value that may still rise while it is open.  The type statistics, which *)
(* every pass derives anew from the aircraft table, are left out but for   *)
(* the failure they can end a pass with.                                   *)
(***************************************************************************)
EXTENDS Integers, FiniteSets, FiniteSetsExt, TLC

CONSTANTS Visits,              \* the sightings of an instance, numbered in the order they open
          ClockZones, Ahead,   \* time zones, and how far ahead of UTC each is
          DayTicks,            \* ticks in a day
          MaxRollover,         \* MAX_ROLLOVER_DAYS
          MaxBackfill,         \* max_days of a repair
          MaxRollupClock, RollupBudgets        \* bounds

ASSUME RollupConstants ==
  /\ Visits \subseteq Nat /\ Ahead \in [ClockZones -> 0 .. DayTicks - 1] /\ DayTicks \in Nat \ {0}
  /\ {MaxRollover, MaxBackfill} \subseteq Nat \ {0} /\ MaxRollupClock \in Nat

VARIABLES
  dClock, dZone,     \* the clock and the configured zone
  dVisit,            \* sightings: number -> [start, open, fact]
  dRows,             \* daily_stats and its children: day -> [seen, final]
  dMark, dKeyed,     \* meta: analytics_rollup_through_day, analytics_rollup_zone
  dPhase,            \* down, starting (the repair of start), up, last (stop's final flush)
  dDirty, dDay, dZoneKey,      \* _dirty, _current_day, _zone_key
  dPass,             \* the pass under way
  dBudget,
  dOwed,             \* history: days a failed or abandoned repair, its bound or the rollover cap left out
  dLost,             \* history: days a crash or a cancelled flush left stale
  dAside,            \* history: days of sightings that closed unheard while a start was repairing, and
                     \* rows a torn adoption left in the old zone
  dMended            \* history: the day before the one this process's start repaired up to, if it did

dVars  == <<dClock, dZone, dVisit, dRows, dMark, dKeyed, dPhase, dDirty, dDay, dZoneKey, dPass, dBudget,
            dOwed, dLost, dAside, dMended>>
dWorld == <<dClock, dZone, dVisit>>
dStore == <<dRows, dMark, dKeyed>>
dMemory == <<dDirty, dDay, dZoneKey>>
dPast   == <<dOwed, dLost, dAside, dMended>>

NoDay   == -1
NoVisit == [start |-> NoDay, open |-> FALSE, fact |-> 0]
NoPass  == [kind |-> "none", pc |-> "idle", now |-> 0, due |-> {}, left |-> {}, mark |-> NoDay,
            rekeyed |-> FALSE, seen |-> {}]

Spend(what) == dBudget[what] > 0 /\ dBudget' = [dBudget EXCEPT ![what] = @ - 1]

(* -------------------------------- days ---------------------------------- *)

DayOf(t, z) == (t + Ahead[z]) \div DayTicks
DayEnd(d, z)   == (d + 1) * DayTicks - Ahead[z]
Today          == DayOf(dClock, dZone)
Stored         == {v \in Visits : dVisit[v].start # NoDay}
StartedIn(d)   == {v \in Stored : DayOf(dVisit[v].start, dZone) = d}
FirstDay       == DayOf(Min({dVisit[v].start : v \in Stored}), dZone)

\* Mutant: a day that has just closed still counts as open.
FoldLate(d, now) ==
  [seen  |-> {<<v, dVisit[v].fact>> : v \in StartedIn(d)},
   final |-> StartedIn(d) # {} /\ DayEnd(d, dZone) < now]

\* facts_between and fold_day: the figures of the day; the busiest hour of a day that is closed and had traffic.
FoldOf(d, now) ==
  [seen  |-> {<<v, dVisit[v].fact>> : v \in StartedIn(d)},
   final |-> StartedIn(d) # {} /\ DayEnd(d, dZone) <= now]

(* ------------------------- sightings, as committed ---------------------- *)

\* record_lifecycle: the day each sighting started in.
Notify(v, start) == dDirty' = IF dPhase = "up" THEN dDirty \cup {DayOf(start, dZone)} ELSE dDirty

\* A cycle that opened a sighting: its start may lie before a midnight its commit lies after.
OpenVisit(v) ==
  /\ dPhase = "up" /\ v \notin Stored /\ \A w \in Visits : w < v => w \in Stored
  /\ \E start \in {dClock - 1, dClock} \cap Nat :
       /\ dVisit' = [dVisit EXCEPT ![v] = [start |-> start, open |-> TRUE, fact |-> 0]]
       /\ Notify(v, start)
  /\ UNCHANGED <<dClock, dZone, dStore, dPhase, dDay, dZoneKey, dPass, dBudget, dPast>>

\* A flush of an open sighting, which nobody is told of.
RaiseFigure(v) ==
  /\ dPhase = "up" /\ dVisit[v].open /\ dVisit[v].fact = 0
  /\ dVisit' = [dVisit EXCEPT ![v].fact = 1]
  /\ UNCHANGED <<dClock, dZone, dStore, dPhase, dMemory, dPass, dBudget, dPast>>

\* A cycle that closed one; before the service has subscribed nobody hears of it.
CloseVisit(v) ==
  /\ dPhase \in {"starting", "up"} /\ dVisit[v].open
  /\ dVisit' = [dVisit EXCEPT ![v].open = FALSE]
  /\ Notify(v, dVisit[v].start)
  /\ dAside' = IF dPhase = "starting" THEN dAside \cup {DayOf(dVisit[v].start, dZone)} ELSE dAside
  /\ UNCHANGED <<dClock, dZone, dStore, dPhase, dDay, dZoneKey, dPass, dBudget, dOwed, dLost, dMended>>

(* -------------------------------- repair -------------------------------- *)

\* plan_startup_repair: from the day after the watermark, or the first of all, and never less than the
\* two days a restart can have interrupted.
Planned(now, rekeying) ==
  IF Stored = {} THEN {}
  ELSE LET today == DayOf(now, dZone)
           floor == Min({IF dMark = NoDay \/ rekeying THEN FirstDay ELSE dMark + 1, today - 1})
       IN  floor .. Min({today, floor + MaxBackfill - 1})

Repairing(kind, now) == [NoPass EXCEPT !.kind = kind, !.pc = "adopt", !.now = now]

EndPass ==
  /\ dPass' = NoPass
  /\ dPhase' = IF dPhase = "starting" THEN "up" ELSE dPhase

\* A pass that got to its end.
Through ==
  /\ EndPass
  /\ dMended' = IF dPhase = "starting" THEN DayOf(dPass.now, dZone) - 1 ELSE dMended

\* _adopt_zone: the rows are claimed for the new zone ...
AdoptZone ==
  /\ dPass.pc = "adopt"
  /\ IF dKeyed = dZone
     THEN dPass' = [dPass EXCEPT !.pc = "plan"] /\ UNCHANGED dKeyed
     ELSE dPass' = [dPass EXCEPT !.pc = "drop", !.rekeyed = TRUE] /\ dKeyed' = dZone
  /\ UNCHANGED <<dWorld, dRows, dMark, dPhase, dMemory, dBudget, dPast>>

\* ... and then, in a transaction of its own, the watermark goes.
DropMark ==
  /\ dPass.pc = "drop"
  /\ dMark' = NoDay
  /\ dPass' = [dPass EXCEPT !.pc = "plan"]
  /\ UNCHANGED <<dWorld, dRows, dKeyed, dPhase, dMemory, dBudget, dPast>>

PlanRepair ==
  /\ dPass.pc = "plan"
  /\ LET planned == Planned(dPass.now, FALSE)
         today   == DayOf(dPass.now, dZone)
         closed  == {d \in planned : d < today}
     IN  IF planned = {} THEN Through /\ UNCHANGED dOwed
         ELSE /\ dPass' = [dPass EXCEPT !.pc = IF dPass.rekeyed THEN "delete" ELSE "read",
                                        !.left = planned, !.due = planned, !.mark = Max(closed)]
              /\ dOwed' = dOwed \cup (Max(planned) + 1 .. today)
              /\ UNCHANGED <<dPhase, dMended>>
  /\ UNCHANGED <<dWorld, dStore, dMemory, dBudget, dLost, dAside>>

\* delete_days_outside
DeleteOrphans ==
  /\ dPass.pc = "delete"
  /\ dRows' = [d \in DOMAIN dRows \cap (Min(dPass.left) .. DayOf(dPass.now, dZone)) |-> dRows[d]]
  /\ dPass' = [dPass EXCEPT !.pc = "read"]
  /\ UNCHANGED <<dWorld, dMark, dKeyed, dPhase, dMemory, dBudget, dPast>>

(* -------------------------------- a pass -------------------------------- *)

\* _rollover: the days that ended since the last pass, no more of them than the cap allows.
Ended(today) == IF dDay >= today THEN {} ELSE Max({dDay, today - MaxRollover}) .. today - 1

\* The watermark a flush may set once it is through: none if the cap bit.
Watermark(today) == IF Ended(today) = {} \/ Min(Ended(today)) # dDay THEN NoDay ELSE today - 1

\* flush, from the loop's timer or from stop: a change of zone turns it into a repair of everything.
BeginRollup ==
  /\ dPass = NoPass /\ dPhase \in {"up", "stopping"}
  /\ dPhase' = IF dPhase = "up" THEN "up" ELSE "last"
  /\ dDay' = Today /\ dZoneKey' = dZone
  /\ IF dZoneKey # dZone
     THEN dDirty' = {} /\ dPass' = Repairing("rekey", dClock) /\ UNCHANGED dOwed
     ELSE LET due == dDirty \cup Ended(Today)
          IN  /\ dOwed' = IF dDay < Today THEN dOwed \cup ((dDay .. Today - 1) \ Ended(Today)) ELSE dOwed
              /\ IF due = {} THEN UNCHANGED <<dDirty, dPass>>
                 ELSE /\ dDirty' = dDirty \ (due \cup {Today})
                      /\ dPass' = [NoPass EXCEPT !.kind = "flush", !.pc = "read", !.now = dClock,
                                     !.due = due \cup {Today}, !.left = due \cup {Today},
                                     !.mark = Watermark(Today)]
  /\ dPhase = "up" => <<dDirty, dDay, dZoneKey, dPass>>' # <<dDirty, dDay, dZoneKey, dPass>>
  /\ UNCHANGED <<dWorld, dStore, dBudget, dLost, dAside, dMended>>

\* rebuild_day: the facts of the earliest day left ...
ReadDay ==
  /\ dPass.pc = "read"
  /\ dPass' = [dPass EXCEPT !.pc = "write", !.seen = FoldOf(Min(dPass.left), dPass.now)]
  /\ UNCHANGED <<dWorld, dStore, dPhase, dMemory, dBudget, dPast>>

\* ... and replace_day, a transaction per day.
WriteDay ==
  /\ dPass.pc = "write"
  /\ LET d == Min(dPass.left)
     IN  /\ dRows' = (d :> dPass.seen) @@ dRows
         /\ dPass' = [dPass EXCEPT !.left = @ \ {d}, !.seen = {}, !.pc = IF dPass.left = {d} THEN "mark" ELSE "read"]
         /\ dOwed' = dOwed \ {d}
         /\ dLost' = dLost \ {d} /\ dAside' = dAside \ {d}
  /\ UNCHANGED <<dWorld, dMark, dKeyed, dPhase, dMemory, dBudget, dMended>>

\* set_watermark, after refresh_type_stats.
MarkDone ==
  /\ dPass.pc = "mark"
  /\ dMark' = IF dPass.mark = NoDay THEN dMark ELSE dPass.mark
  /\ Through
  /\ UNCHANGED <<dWorld, dRows, dKeyed, dMemory, dBudget, dOwed, dLost, dAside>>

(* -------------------------- passes cut short ---------------------------- *)

\* What a repair that goes no further leaves to the next one ...
LeftToRepair ==
  IF dPass.kind \in {"none", "flush"} THEN {}
  ELSE IF dPass.left # {} \/ dPass.pc = "mark" THEN dPass.left
  ELSE Planned(dPass.now, dKeyed # dZone \/ dPass.rekeyed)

\* ... and what no next one will find: rows of the old zone once the new one is recorded.
LeftBehind ==
  IF ~dPass.rekeyed \/ dPass.pc \notin {"drop", "plan", "delete"} THEN {}
  ELSE IF dPass.pc = "drop" THEN DOMAIN dRows \cup 0 .. Today
  ELSE DOMAIN dRows

\* Mutant: what a failed flush had taken is not dirty again.
DropDue(due) == dDirty

\* flush: the whole of what was due is dirty again.
Restored(due) == dDirty \cup due

\* A read or a write raises; a repair swallows it and the process goes on.
PassFails ==
  /\ dPass # NoPass /\ Spend("faults")
  /\ dDirty' = IF dPass.kind = "flush" THEN Restored(dPass.due) ELSE dDirty
  /\ dOwed' = dOwed \cup LeftToRepair
  /\ dAside' = dAside \cup LeftBehind
  /\ EndPass
  /\ UNCHANGED <<dWorld, dStore, dDay, dZoneKey, dLost, dMended>>

\* stop: the task is cancelled wherever it is, and the days of its pass are forgotten.
StopRollups ==
  /\ dPhase = "up" /\ Spend("ends")
  /\ dPhase' = "stopping" /\ dPass' = NoPass
  /\ dOwed' = dOwed \cup LeftToRepair
  /\ dLost' = dLost \cup (IF dPass.kind = "flush" THEN dPass.left ELSE {})
  /\ dAside' = dAside \cup LeftBehind
  /\ UNCHANGED <<dWorld, dStore, dMemory, dMended>>

\* What is only in memory when the process ends.
InMemory == dDirty \cup dPass.left \cup {DayOf(dVisit[v].start, dZone) : v \in {w \in Stored : dVisit[w].open}}

Down ==
  /\ dPhase' = "down" /\ dPass' = NoPass
  /\ dDirty' = {} /\ dDay' = NoDay /\ dZoneKey' = dZone
  /\ dLost' = dLost \cup InMemory
  /\ dAside' = dAside \cup LeftBehind
  /\ dMended' = NoDay

ExitRollups ==
  /\ dPhase = "last" /\ dPass = NoPass
  /\ Down
  /\ UNCHANGED <<dWorld, dStore, dBudget, dOwed>>

CrashRollups ==
  /\ dPhase # "down" /\ Spend("ends")
  /\ Down
  /\ UNCHANGED <<dWorld, dStore, dOwed>>

\* start: startup recovery has closed what it would, and the repair runs before anything is subscribed.
StartRollups ==
  /\ dPhase = "down"
  /\ \E closing \in SUBSET {v \in Stored : dVisit[v].open} :
       dVisit' = [v \in Visits |-> IF v \in closing THEN [dVisit[v] EXCEPT !.open = FALSE] ELSE dVisit[v]]
  /\ dPhase' = "starting"
  /\ dDirty' = {} /\ dDay' = Today /\ dZoneKey' = dZone
  /\ dPass' = Repairing("startup", dClock)
  /\ UNCHANGED <<dClock, dZone, dStore, dBudget, dPast>>

MoveZone(z) ==
  /\ dPhase = "up" /\ z # dZone /\ Spend("saves")
  /\ dZone' = z
  /\ UNCHANGED <<dClock, dVisit, dStore, dPhase, dMemory, dPass, dPast>>

RollupTick ==
  /\ dClock < MaxRollupClock
  /\ dClock' = dClock + 1
  /\ UNCHANGED <<dZone, dVisit, dStore, dPhase, dMemory, dPass, dBudget, dPast>>

RollupInit ==
  /\ dClock = DayTicks /\ dZone = CHOOSE z \in ClockZones : Ahead[z] = 0
  /\ dVisit = [v \in Visits |-> NoVisit]
  /\ dRows = <<>> /\ dMark = NoDay /\ dKeyed = "unset"
  /\ dPhase = "down" /\ dDirty = {} /\ dDay = NoDay /\ dZoneKey = dZone /\ dPass = NoPass
  /\ dBudget \in RollupBudgets
  /\ dOwed = {} /\ dLost = {} /\ dAside = {} /\ dMended = NoDay

RollupNext ==
  \/ \E v \in Visits : OpenVisit(v) \/ RaiseFigure(v) \/ CloseVisit(v)
  \/ AdoptZone \/ DropMark \/ PlanRepair \/ DeleteOrphans
  \/ BeginRollup \/ ReadDay \/ WriteDay \/ MarkDone
  \/ PassFails \/ StopRollups \/ ExitRollups \/ CrashRollups \/ StartRollups
  \/ (\E z \in ClockZones : MoveZone(z)) \/ RollupTick

RollupSpec == RollupInit /\ [][RollupNext]_dVars

(* ------------------------------ properties ------------------------------ *)

RollupTypeOK ==
  /\ dVisit \in [Visits -> [start : Nat \cup {NoDay}, open : BOOLEAN, fact : {0, 1}]]
  /\ dMark \in Nat \cup {NoDay} /\ dKeyed \in ClockZones \cup {"unset"}
  /\ dPhase \in {"down", "starting", "up", "stopping", "last"}
  /\ dPass.pc \in {"idle", "adopt", "drop", "plan", "delete", "read", "write", "mark"}

RollupsRest == dPhase = "up" /\ dPass = NoPass /\ dZoneKey = dZone /\ dKeyed = dZone

\* A stored row, or one not stored, tells of exactly the sightings that started in its day, and of the
\* final figures of those that have ended.
TellsDay(d) ==
  LET seen == IF d \in DOMAIN dRows THEN dRows[d].seen ELSE {}
  IN  /\ {s[1] : s \in seen} = StartedIn(d)
      /\ \A s \in seen : s[2] = dVisit[s[1]].fact \/ dVisit[s[1]].open

\* What may be stale between two passes: a dirty day; one left out by a repair that failed, by its
\* bound or by the rollover cap, left in the old zone, or whose sighting closed unheard; and one an end of process left stale, if this process's
\* start did not repair it, which it does from the day before its own on.
MayBeStale ==
  dDirty \cup dOwed \cup dAside \cup {d \in dLost : dMended = NoDay \/ d < dMended \/ d > dDay}

\* Between two passes every other day is the fold of its sightings, however often days were rebuilt, zones
\* changed, passes failed and processes ended (record_lifecycle, flush, run_startup_repair).
RowsAreTheFold == RollupsRest => \A d \in (DOMAIN dRows \cup 0 .. Today) \ MayBeStale : TellsDay(d)

\* ... and a day with traffic that ended before the last pass has its busiest hour (_rollover).
EndedDaysAreFinal ==
  RollupsRest => \A d \in DOMAIN dRows \ MayBeStale : d < dDay /\ dRows[d].seen # {} => dRows[d].final

\* What the rollups promise in every state.
RollupInvariant == RollupTypeOK /\ RowsAreTheFold /\ EndedDaysAreFinal

\* "the watermark is not advanced, so the next boot covers this boot's range as well as its own"
\* (analytics/service.py:93): once the repair of a start has succeeded, no day an earlier process's repair
\* left out is stale.
OwedAreTold     == \A d \in dOwed : TellsDay(d)
NextBootRepairs == [][dPhase = "starting" /\ dMended' # NoDay => OwedAreTold']_dVars

\* "a crash at any point costs at most a stale day that the next pass repairs" (analytics/backfill.py:17).
CrashIsRepaired == dPhase = "up" /\ dMended # NoDay /\ dPass = NoPass => dLost \ dDirty = {}
=============================================================================
