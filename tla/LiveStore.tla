----------------------------- MODULE LiveStore ------------------------------
(***************************************************************************)
(* The in-memory live aircraft registry (live/store.py, live/aircraft.py)  *)
(* with the decoder that feeds it and the consumers that drain it.         *)
(*                                                                         *)
(* The decoder keeps listing an aircraft after it has stopped hearing it   *)
(* and reports how long ago that was (seen_s); the store dates every       *)
(* observation by that age, so last_seen can move BACKWARDS on a merge and *)
(* an aircraft may be listed that is already due for removal.              *)
(*                                                                         *)
(* store.sweep() is one synchronous pass of a loop: while it runs nothing  *)
(* else does, which the guards `Idle` state.  A batch of updates is a run  *)
(* of ApplyUpdate steps at one clock reading.                              *)
(***************************************************************************)
EXTENDS EventQueue

CONSTANTS Aircraft, Consumers,
          StaleS, RemoveS,    \* LiveStore(stale_s, remove_s)
          SweepEvery,         \* sweep_interval_s
          ReportsAge,         \* does this decoder report seen_s at all?
          BootS, MaxNow

ASSUME StoreAssumption ==
  /\ StaleS \in Nat \ {0} /\ RemoveS \in Nat /\ StaleS < RemoveS
  /\ SweepEvery \in Nat \ {0}
  /\ ReportsAge \in BOOLEAN
  /\ BootS \in Nat /\ MaxNow \in Nat /\ BootS <= MaxNow

VARIABLES now,
          heard,              \* when the decoder last really heard each aircraft
          aircraft,           \* _aircraft: the record, or NoRecord
          sub,                \* the dispatcher's subscriptions
          todo, removed,      \* locals of a running sweep()
          lastSweep,          \* when the last sweep() started
          gone                \* history: the contact a last left with, -1 if none

storeVars == <<now, heard, aircraft, sub, todo, removed, lastSweep, gone>>

LiveState == {"live", "stale"}
NoRecord  == [first |-> -1, last |-> -1, state |-> "none"]
Known     == {a \in Aircraft : aircraft[a] # NoRecord}
Idle      == todo = {} /\ removed = {}

Event(kind, a, r) == [kind |-> kind, icao |-> a, first |-> r.first, last |-> r.last]
Publish(e) == sub' = [c \in Consumers |-> Deliver(sub[c], e)]

\* seen_s of the next update about a: its true age, or nothing.
NoAge == -1
ReportedAge(a) == IF ReportsAge THEN now - heard[a] ELSE NoAge

\* Mutant: the age is taken with the wrong sign.
ReportedSilenceNegated(age) == IF age <= 0 THEN 0 ELSE -age

\* reported_silence_s: a missing or negative age reads as zero.
ReportedSilence(age) == IF age <= 0 THEN 0 ELSE age

Age(a) == now - aircraft[a].last

Init ==
  /\ now = BootS
  /\ heard \in [Aircraft -> 0..BootS]
  /\ aircraft = [a \in Aircraft |-> NoRecord]
  /\ sub = [c \in Consumers |-> NewSubscription]
  /\ todo = {} /\ removed = {}
  /\ lastSweep = BootS
  /\ gone = [a \in Aircraft |-> -1]

\* The sweep task sleeps SweepEvery; the event loop is assumed not to stall.
Tick ==
  /\ Idle /\ now < MaxNow
  /\ now < lastSweep + SweepEvery
  /\ now' = now + 1
  /\ UNCHANGED <<heard, aircraft, sub, todo, removed, lastSweep, gone>>

\* The receiver hears the aircraft; the store learns of it at the next poll.
Transmit(a) ==
  /\ Idle /\ heard[a] # now
  /\ heard' = [heard EXCEPT ![a] = now]
  /\ UNCHANGED <<now, aircraft, sub, todo, removed, lastSweep, gone>>
-----------------------------------------------------------------------------
\* Mutant: no expiry guard on admission.
AppearUnguarded(a, silence) ==
  LET r == [first |-> now - silence, last |-> now - silence, state |-> "live"]
  IN  /\ a \notin Known
      /\ aircraft' = [aircraft EXCEPT ![a] = r]
      /\ Publish(Event("appeared", a, r))

\* _apply_update, unknown address: admitted unless already expired.
Appear(a, silence) ==
  LET r == [first |-> now - silence, last |-> now - silence, state |-> "live"]
  IN  /\ a \notin Known
      /\ silence < RemoveS
      /\ aircraft' = [aircraft EXCEPT ![a] = r]
      /\ Publish(Event("appeared", a, r))

\* Mutants: every mention counts as a fresh contact; a stale record stays so.
MergeUndated(a, silence) ==
  LET r == [aircraft[a] EXCEPT !.last = now, !.state = "live"]
  IN  /\ a \in Known
      /\ aircraft' = [aircraft EXCEPT ![a] = r]
      /\ Publish(Event("updated", a, r))

MergeStaysStale(a, silence) ==
  LET r == [aircraft[a] EXCEPT !.last = now - silence]
  IN  /\ a \in Known
      /\ aircraft' = [aircraft EXCEPT ![a] = r]
      /\ Publish(Event("updated", a, r))

\* _apply_update, known address: merge re-dates the record, and only an
\* observation younger than StaleS brings a stale record back to life.
Merge(a, silence) ==
  LET r == [aircraft[a] EXCEPT !.last  = now - silence,
                               !.state = IF silence < StaleS THEN "live" ELSE @]
  IN  /\ a \in Known
      /\ aircraft' = [aircraft EXCEPT ![a] = r]
      /\ Publish(Event("updated", a, r))

ApplyUpdate(a) ==
  /\ Idle
  /\ LET silence == ReportedSilence(ReportedAge(a))
     IN  Appear(a, silence) \/ Merge(a, silence)
  /\ UNCHANGED <<now, heard, todo, removed, lastSweep, gone>>
-----------------------------------------------------------------------------
\* sweep(): snapshot the items ...
SweepBegin ==
  /\ Idle /\ Known # {}
  /\ lastSweep # now
  /\ todo' = Known
  /\ lastSweep' = now
  /\ UNCHANGED <<now, heard, aircraft, sub, removed, gone>>

\* ... (over an empty live set the pass does nothing) ...
SweepEmpty ==
  /\ Idle /\ Known = {}
  /\ lastSweep # now
  /\ lastSweep' = now
  /\ UNCHANGED <<now, heard, aircraft, sub, todo, removed, gone>>

\* Mutant: removal at the stale threshold.
SweepExpireEarly(a) ==
  /\ a \in todo
  /\ Age(a) >= StaleS
  /\ removed' = removed \cup {a}
  /\ todo' = todo \ {a}
  /\ UNCHANGED <<now, heard, aircraft, sub, lastSweep, gone>>

\* ... first loop, age >= remove_s: set the record aside for removal ...
SweepExpire(a) ==
  /\ a \in todo
  /\ Age(a) >= RemoveS
  /\ removed' = removed \cup {a}
  /\ todo' = todo \ {a}
  /\ UNCHANGED <<now, heard, aircraft, sub, lastSweep, gone>>

\* ... elif age >= stale_s and not yet stale: mark it and announce it ...
SweepMarkStale(a) ==
  /\ a \in todo
  /\ Age(a) < RemoveS /\ Age(a) >= StaleS
  /\ aircraft[a].state # "stale"
  /\ aircraft' = [aircraft EXCEPT ![a].state = "stale"]
  /\ Publish(Event("stale", a, aircraft[a]))
  /\ todo' = todo \ {a}
  /\ UNCHANGED <<now, heard, removed, lastSweep, gone>>

\* ... otherwise leave it alone ...
SweepSkip(a) ==
  /\ a \in todo
  /\ Age(a) < StaleS \/ (Age(a) < RemoveS /\ aircraft[a].state = "stale")
  /\ todo' = todo \ {a}
  /\ UNCHANGED <<now, heard, aircraft, sub, removed, lastSweep, gone>>

\* ... second loop: delete what was set aside, one removal event each.
SweepRemove(a) ==
  /\ todo = {} /\ a \in removed
  /\ aircraft' = [aircraft EXCEPT ![a] = NoRecord]
  /\ Publish(Event("removed", a, aircraft[a]))
  /\ removed' = removed \ {a}
  /\ gone' = [gone EXCEPT ![a] = aircraft[a].last]
  /\ UNCHANGED <<now, heard, todo, lastSweep>>

\* A consumer's turn: drain, acknowledge a gap.
Take(c) ==
  /\ Idle
  /\ sub[c] # NewSubscription
  /\ sub' = [sub EXCEPT ![c] = Acknowledged(Drained(@))]
  /\ UNCHANGED <<now, heard, aircraft, todo, removed, lastSweep, gone>>
-----------------------------------------------------------------------------
StoreStep ==
  \/ Tick
  \/ SweepBegin
  \/ SweepEmpty
  \/ \E a \in Aircraft : \/ Transmit(a)
                         \/ ApplyUpdate(a)
                         \/ SweepExpire(a)
                         \/ SweepMarkStale(a)
                         \/ SweepSkip(a)
                         \/ SweepRemove(a)

Next == StoreStep \/ \E c \in Consumers : Take(c)

Spec == Init /\ [][Next]_storeVars
-----------------------------------------------------------------------------
Time      == 0..MaxNow
Records   == [first : Time, last : Time, state : LiveState]
Kinds     == {"appeared", "updated", "stale", "removed"}
Events    == [kind : Kinds, icao : Aircraft, first : Time, last : Time]

\* Type correctness of the registry, its subscriptions and the sweep's locals.
TypeOK ==
  /\ now \in Time
  /\ heard \in [Aircraft -> Time]
  /\ aircraft \in [Aircraft -> Records \cup {NoRecord}]
  /\ sub \in [Consumers -> [queue : Seq(Events), overflowed : BOOLEAN]]
  /\ todo \subseteq Aircraft /\ removed \subseteq Aircraft
  /\ lastSweep \in Time
  /\ gone \in [Aircraft -> Time \cup {-1}]

\* No ghosts: however long the decoder goes on listing an aircraft, it is out
\* of the live set within remove_s plus one sweep interval of the moment it
\* was last really heard (store.sweep, store._apply_update's expiry guard).
NoGhosts ==
  ReportsAge => \A a \in Known : now - heard[a] < RemoveS + SweepEvery

\* A record the store calls stale really has been silent for stale_s, although
\* merges re-date records in both directions (merge, mark_stale).
StaleMeansSilent ==
  \A a \in Known : aircraft[a].state = "stale" => Age(a) >= StaleS

\* No event is shed behind a consumer's back: a subscription never exceeds its
\* bound, and every event still queued about an aircraft that is gone is
\* followed by its removal (events.deliver, store.sweep).
LastEventAgrees ==
  \A c \in Consumers : LET q == sub[c].queue IN
    /\ Len(q) <= QueueSize
    /\ \A i \in 1..Len(q) :
         (\A j \in (i + 1)..Len(q) : q[j].icao # q[i].icao)
           => (q[i].kind = "removed" <=> q[i].icao \notin Known)

\* An aircraft that was removed re-enters the live set only after the receiver
\* really heard it again: the decoder's re-listing of an old contact never
\* makes it flap (the admission guard of store._apply_update).
ReentryNeedsContact ==
  [][ReportsAge => \A a \in Aircraft :
       a \notin Known /\ a \in Known' => heard[a] > gone[a]]_storeVars

\* What consumers are promised: the registry seen without its staleness marks.
FeedLive ==
  [a \in Aircraft |-> IF a \in Known
                        THEN [first |-> aircraft[a].first, last |-> aircraft[a].last]
                        ELSE [first |-> -1, last |-> -1]]

Feed == INSTANCE LiveFeed WITH live <- FeedLive

\* The store implements the feed: every step is one feed step or a stutter.
ImplementsFeed == Feed!FeedSpec
=============================================================================
