------------------------------ MODULE MCContext ------------------------------
(***************************************************************************)
(* What comes from outside the receiver: the route of a flight, the        *)
(* metadata of an airframe, the airport it is near, and a data directory   *)
(* that is backed up, restored or reset.  The four share no state in these *)
(* models; subject is the one whose steps a behaviour takes.               *)
(***************************************************************************)
EXTENDS RouteEnrichment, MetadataImport, DataDirectory, AirportContext

VARIABLE subject

KeyOf  == [p \in Flights |-> IF p = "p1" THEN "k1" ELSE "k2"]
Remote == [p \in Flights |-> 2]

\* Where the faults of an instance go: a failing call and a save; a restart and a save; a restart and
\* a route its airport context contradicts.
Spread ==
  {[faults |-> 1, saves |-> 1, ends |-> 0, contexts |-> 0],
   [faults |-> 0, saves |-> 1, ends |-> 1, contexts |-> 0],
   [faults |-> 0, saves |-> 0, ends |-> 1, contexts |-> 1]}

\* Three sources: one with a table of its own, and two that disagree on which is better at what; a new
\* version of one drops a field, of the other adds one.
Names  == <<"airports", "faa", "mictronics">>
RankOf == [s \in {"faa", "mictronics"} |-> [n \in Fields |-> IF (s = "faa") = (n = "owner") THEN 1 ELSE 2]]
Dataset ==
  [s \in {"faa", "mictronics"} |-> [v \in Versions |-> [f \in Airframes |->
    IF s = "faa" THEN IF v = 1 THEN {"type", "owner"} ELSE {"owner"}
    ELSE IF v = 1 THEN {"type"} ELSE {"type", "owner"}]]]

\* Two runs with a fault and an aircraft to tell, or with a restart; a run and a clear, with a fault or with an aircraft.
ImportSpread ==
  {[runs |-> 2, clears |-> 0, faults |-> 1, ends |-> 0, visits |-> 1],
   [runs |-> 2, clears |-> 0, faults |-> 0, ends |-> 1, visits |-> 0],
   [runs |-> 1, clears |-> 1, faults |-> 1, ends |-> 0, visits |-> 0],
   [runs |-> 1, clears |-> 1, faults |-> 0, ends |-> 0, visits |-> 1]}

\* A restore beside two crashes, beside a failed move, or before a reset; and two restores.
Mishaps == {[crashes |-> 2, faults |-> 0, resets |-> 0, backups |-> 1, restores |-> 1],
            [crashes |-> 1, faults |-> 1, resets |-> 0, backups |-> 1, restores |-> 1],
            [crashes |-> 1, faults |-> 0, resets |-> 1, backups |-> 2, restores |-> 1],
            [crashes |-> 1, faults |-> 0, resets |-> 0, backups |-> 2, restores |-> 2]}

\* Low over field A, closing, level, leaving; out of range; standing on field B.
At(field, nm, agl, rate) == [field |-> field, nm |-> nm, agl |-> agl, rate |-> rate, ground |-> FALSE]
Observations ==
  {At("A", 80, 3000, -600), At("A", 40, 2000, 0), At("A", 40, 2000, -600), At("A", 80, 2000, 600),
   At("none", 0, 9000, 0), [At("B", 5, 0, 0) EXCEPT !.ground = TRUE]}

\* Up to three minutes over one index; or two while the table is replaced.
Skies == {[changes |-> 0, until |-> 3], [changes |-> 1, until |-> 2]}

contextVars == <<subject, eVars, iVars, zVars, cVars>>

ContextInit ==
  /\ subject \in {"routes", "metadata", "directory", "airports"}
  /\ RouteInit /\ MetadataInit /\ DirectoryInit /\ AirportInit
  /\ eBudget.ends > 0 => eLimit = 1 /\ eDirectory["k1"] = eDirectory["k2"]
  /\ eBudget.ends > 0 /\ eBudget.saves > 0 =>
       eKeyed /\ eDirectory = [k \in Callsigns |-> NoPath]   \* the save may take the key away
  /\ eDirectory["k2"] # NoPath => eDirectory["k1"] # NoPath  \* the two are alike
  /\ subject # "routes" => eBudget.faults = 1 /\ eLimit = 1 /\ eKeyed /\ eDirectory = [k \in Callsigns |-> NoPath]
  /\ subject # "metadata" => iBudget.ends = 1
  /\ subject # "directory" => zBudget.faults = 1
  /\ cRow.open = (cBudget.changes = 0)
  /\ subject # "airports" => cBudget.changes = 0 /\ cTable

ContextNext ==
  /\ UNCHANGED subject
  /\ \/ subject = "routes" /\ RouteNext /\ UNCHANGED <<iVars, zVars, cVars>>
     \/ subject = "metadata" /\ MetadataNext /\ UNCHANGED <<eVars, zVars, cVars>>
     \/ subject = "directory" /\ DirectoryNext /\ UNCHANGED <<eVars, iVars, cVars>>
     \/ subject = "airports" /\ AirportNext /\ UNCHANGED <<eVars, iVars, zVars>>

ContextSpec == ContextInit /\ [][ContextNext]_contextVars
RoutesOnly    == subject = "routes" /\ ContextSpec
MetadataOnly  == subject = "metadata" /\ ContextSpec
DirectoryOnly == subject = "directory" /\ ContextSpec
AirportsOnly  == subject = "airports" /\ ContextSpec
=============================================================================
