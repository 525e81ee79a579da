--------------------------- MODULE MCWorkerRaces ----------------------------
(***************************************************************************)
(* Two instances of the persistence worker in one: an aircraft that is     *)
(* alone, its accumulator mutated by enrichment at every await of a cycle  *)
(* and the process stopped or crashed once; or two aircraft that share the *)
(* queue and the cycle, without either.  alone says which.                 *)
(***************************************************************************)
EXTENDS PersistenceWorker

CONSTANTS a1, a2
VARIABLE alone

TwoAircraft == {a1, a2}
raceVars    == <<alone, vars>>

\* What the instance leaves out of a step.
LeftOut ==
  IF alone THEN live'[a2] = live[a2]
  ELSE /\ restarts' = restarts
       /\ \A a \in Aircraft : HasActive(a) => active'[a].cols = NoColumns
       /\ \A a \in Aircraft : HasPending(a) => pending'[a].cols = NoColumns

RacesInit == Init /\ alone \in BOOLEAN
RacesSpec == RacesInit /\ [][Next /\ LeftOut /\ UNCHANGED alone]_raceVars
=============================================================================
