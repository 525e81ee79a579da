------------------------------ MODULE MCStation ------------------------------
(***************************************************************************)
(* The station's own services.  The feeder service, the receiver monitor,  *)
(* the metrics service and the analytics rollups run in one process and    *)
(* share no state, so a behaviour of the process is a behaviour of each of *)
(* them: subject is the one whose steps are taken, and the others rest.    *)
(***************************************************************************)
EXTENDS FeederMonitor, ReceiverMonitor, ReceiverMetrics, DailyRollups

VARIABLE subject

EachOne    == [c \in Conditions |-> 1]
ZoneOffset == [z \in Zones |-> IF z = "utc" THEN 0 ELSE 2]
ZoneAhead  == [z \in ClockZones |-> IF z = "utc" THEN 0 ELSE 1]
HalfHourOffset == [z \in Zones |-> IF z = "utc" THEN 0 ELSE 1]

\* The decoder comes and goes with one more adversity, or flips once with a restart and another.
Disturbed ==
  {[restarts |-> 1, faults |-> 0, toggles |-> 0, flips |-> 2], [restarts |-> 0, faults |-> 1, toggles |-> 0, flips |-> 2],
   [restarts |-> 0, faults |-> 0, toggles |-> 1, flips |-> 2], [restarts |-> 1, faults |-> 1, toggles |-> 0, flips |-> 1],
   [restarts |-> 1, faults |-> 0, toggles |-> 1, flips |-> 1]}

\* Two adversities of a rollup instance at a time, and no adversity but a failed repair.
TwoTroubles == {[faults |-> 1, ends |-> 0, saves |-> 1], [faults |-> 1, ends |-> 1, saves |-> 0],
                [faults |-> 0, ends |-> 1, saves |-> 1]}
FailedBoot  == {[faults |-> 1, ends |-> 2, saves |-> 0]}
OneCrash    == {[faults |-> 0, ends |-> 1, saves |-> 0]}

StationVars == <<subject, fVars, mVars, rVars, dVars>>

StationInit ==
  /\ subject \in {"feeders", "monitor", "metrics", "rollups"}
  /\ FeederInit /\ MonitorInit /\ MetricsInit /\ RollupInit
  /\ subject # "feeders" => fTracker = <<>>
  /\ subject # "monitor" => mBudget.toggles = 0 /\ mBudget.faults = 0
  /\ subject # "rollups" => dBudget = CHOOSE b \in RollupBudgets : TRUE

StationNext ==
  /\ UNCHANGED subject
  /\ \/ subject = "feeders" /\ FeederNext /\ UNCHANGED <<mVars, rVars, dVars>>
     \/ subject = "monitor" /\ MonitorNext /\ UNCHANGED <<fVars, rVars, dVars>>
     \/ subject = "metrics" /\ MetricsNext /\ UNCHANGED <<fVars, mVars, dVars>>
     \/ subject = "rollups" /\ RollupNext /\ UNCHANGED <<fVars, mVars, rVars>>

StationSpec == StationInit /\ [][StationNext]_StationVars
MetricsOnly == subject = "metrics" /\ StationSpec
RollupsOnly == subject = "rollups" /\ StationSpec
FeedersOnly == subject = "feeders" /\ StationSpec
=============================================================================
