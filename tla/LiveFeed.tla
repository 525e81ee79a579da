------------------------------ MODULE LiveFeed ------------------------------
(***************************************************************************)
(* What the live store promises its consumers, and nothing else: which     *)
(* aircraft are present, the first and last observation of each, and one   *)
(* ordered event per change in every attached subscription.                *)
(*                                                                         *)
(* LiveStore (thresholds, staleness, the sweep loop, the decoder behind    *)
(* it) implements this module; PersistenceWorker is built on top of it.    *)
(* Time is in whole seconds.                                               *)
(***************************************************************************)
EXTENDS EventQueue

CONSTANTS Aircraft,           \* ICAO addresses
          Consumers,          \* names of the attached subscriptions
          RemoveS,            \* silence after which a record may leave
          BootS,              \* clock reading when the process starts
          MaxNow              \* model bound on the clock

ASSUME FeedAssumption == /\ RemoveS \in Nat \ {0}
                         /\ BootS \in Nat /\ MaxNow \in Nat /\ BootS <= MaxNow

VARIABLES now,                \* the clock, wall and monotonic
          live,               \* Aircraft -> its record, or NotLive
          sub                 \* Consumers -> subscription

feedVars == <<now, live, sub>>

NotLive == [first |-> -1, last |-> -1]
Records == [first : 0..MaxNow, last : 0..MaxNow]
Present == {a \in Aircraft : live[a] # NotLive}

Kinds == {"appeared", "updated", "stale", "removed"}
Event(kind, a, r) == [kind |-> kind, icao |-> a, first |-> r.first, last |-> r.last]
Events == [kind : Kinds, icao : Aircraft, first : 0..MaxNow, last : 0..MaxNow]

\* EventDispatcher.publish: one event into every attached subscription.
Publish(e) == sub' = [c \in Consumers |-> Deliver(sub[c], e)]

FeedInit ==
  /\ now = BootS
  /\ live = [a \in Aircraft |-> NotLive]
  /\ sub = [c \in Consumers |-> NewSubscription]

Tick == /\ now < MaxNow
        /\ now' = now + 1
        /\ UNCHANGED <<live, sub>>

\* An update the store admits: a new record, or a newer view of a known one.
\* The observation is dated `silence` seconds ago.
Observe(a, silence) ==
  LET r == [first |-> IF a \in Present THEN live[a].first ELSE now - silence,
            last  |-> now - silence]
  IN  /\ a \notin Present => silence < RemoveS
      /\ live' = [live EXCEPT ![a] = r]
      /\ Publish(Event(IF a \in Present THEN "updated" ELSE "appeared", a, r))
      /\ UNCHANGED now

\* The store announces silence; the record itself stays.
AnnounceStale(a) ==
  /\ a \in Present
  /\ Publish(Event("stale", a, live[a]))
  /\ UNCHANGED <<now, live>>

\* A record silent for RemoveS leaves, with its last state on the event.
Leave(a) ==
  /\ a \in Present
  /\ now - live[a].last >= RemoveS
  /\ live' = [live EXCEPT ![a] = NotLive]
  /\ Publish(Event("removed", a, live[a]))
  /\ UNCHANGED now

\* A consumer empties its queue and acknowledges a gap if there was one.
Take(c) ==
  /\ sub[c] # NewSubscription
  /\ sub' = [sub EXCEPT ![c] = Acknowledged(Drained(@))]
  /\ UNCHANGED <<now, live>>

FeedNext ==
  \/ Tick
  \/ \E a \in Aircraft : \/ \E silence \in 0..now : Observe(a, silence)
                         \/ AnnounceStale(a)
                         \/ Leave(a)
  \/ \E c \in Consumers : Take(c)

FeedSpec == FeedInit /\ [][FeedNext]_feedVars
=============================================================================
