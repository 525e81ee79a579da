-------------------------- MODULE SightingLifecycle --------------------------
(***************************************************************************)
(* What the sighting history promises a reader of the database (worker.py, *)
(* docs/DATA_MODEL.md section 1): one aircraft's sightings are a sequence  *)
(* of periods, only the newest of which may still be open; a new period    *)
(* begins only after the previous one is closed, and a closed period never *)
(* changes again.                                                          *)
(***************************************************************************)
EXTENDS Integers, Sequences

CONSTANTS Aircraft, StillOpen

VARIABLE history              \* Aircraft -> Seq([started, ended])

IsOpen(h) == h # <<>> /\ h[Len(h)].ended = StillOpen

\* A new period, begun after the end of the one before.  One observed only
\* through its own removal may be opened and closed in the same commit.
Begin(h, h2) ==
  /\ ~IsOpen(h)
  /\ Len(h2) = Len(h) + 1
  /\ LET p == h2[Len(h2)]
     IN  /\ h2 = Append(h, p)
         /\ h = <<>> \/ h[Len(h)].ended < p.started
         /\ p.ended = StillOpen \/ p.started <= p.ended

\* The open period ends, no earlier than it began.
End(h, h2) ==
  /\ IsOpen(h)
  /\ Len(h2) = Len(h)
  /\ LET e == h2[Len(h)].ended
     IN  /\ e # StillOpen /\ h[Len(h)].started <= e
         /\ h2 = [h EXCEPT ![Len(h)].ended = e]

LifecycleInit == history = [a \in Aircraft |-> <<>>]

\* One committed transaction may move any number of aircraft, each by one step.
LifecycleNext ==
  /\ DOMAIN history' = Aircraft
  /\ \A a \in Aircraft : \/ history'[a] = history[a]
                         \/ Begin(history[a], history'[a])
                         \/ End(history[a], history'[a])

LifecycleSpec == LifecycleInit /\ [][LifecycleNext]_history
=============================================================================
