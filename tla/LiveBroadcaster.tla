-------------------------- MODULE LiveBroadcaster ---------------------------
(***************************************************************************)
(* The live WebSocket of api/ws.py on top of LiveStore: one broadcaster    *)
(* draining one subscription, and per client a connection object with a    *)
(* bounded outbound queue that a writer task moves onto the wire.          *)
(*                                                                         *)
(* Every method is synchronous except the receiver-block read of _resync,  *)
(* so a step is atomic up to that await and a sweep never overlaps one.    *)
(* Sequence numbers are only compared for succession; they are kept modulo *)
(* SeqModulus, which exceeds the number of frames that can be in transit.      *)
(***************************************************************************)
EXTENDS LiveStore

CONSTANTS Clients,
          Socket,             \* the broadcaster's own subscription
          ClientQueue,        \* client_queue_size
          WireSize,           \* frames the transport holds for a client
          PingEvery,          \* ping_interval_s
          MissedPingLimit,
          SeqModulus,
          Detections,         \* does the activity detector find anything?
          MaxFaults           \* model bound on faults

ASSUME BroadcasterAssumption ==
  /\ Socket \in Consumers
  /\ {ClientQueue, WireSize, PingEvery, MissedPingLimit} \subseteq Nat \ {0}
  /\ SeqModulus \in Nat /\ SeqModulus > ClientQueue + WireSize
  /\ Detections \in BOOLEAN /\ MaxFaults \in Nat

VARIABLES task,               \* the broadcast loop: "asleep", or awaiting in "resync"
          conn,               \* Clients -> ClientConnection
          wire,               \* Clients -> frames sent and not yet received
          lastPing,
          faults              \* slow clients, broken connections, restarts so far

serverVars == <<task, conn, wire, lastPing, faults>>

\* The live picture.  An aircraft object is its record here; what other
\* services add to it (route, metadata, alerts) is left out.
Picture   == aircraft
NoPicture == [a \in Aircraft |-> NoRecord]

\* A frame; `at` is the instant its data was read from the store.
Frame(type, seq, data) == [type |-> type, seq |-> seq, data |-> data]
NoData   == [at |-> 0, updated |-> NoPicture, stale |-> {}, removed |-> {}]
Snapshot == [NoData EXCEPT !.at = now, !.updated = Picture]
Closing  == Frame("close", 0, NoData)

Succ(seq) == (seq + 1) % SeqModulus

NoConnection == [state |-> "none", queue |-> <<>>, seq |-> 0, pings |-> 0]
Registered   == {c \in Clients : conn[c].state = "served"}
Pipe(c)      == wire[c] \o conn[c].queue

\* _terminate: discard the backlog, leave only the close sentinel.
Terminated(k) == [k EXCEPT !.state = "closed", !.queue = <<Closing>>]

\* Mutant: a frame that does not fit is skipped, its number used up.
EnqueueSkips(k, type, data) ==
  IF Len(k.queue) < ClientQueue
    THEN [k EXCEPT !.seq = Succ(@), !.queue = Append(@, Frame(type, Succ(k.seq), data))]
    ELSE [k EXCEPT !.seq = Succ(@)]

\* Mutant: the outbound queue has no bound.
EnqueueUnbounded(k, type, data) ==
  [k EXCEPT !.seq = Succ(@), !.queue = Append(@, Frame(type, Succ(k.seq), data))]

\* ClientConnection.deliver.
Enqueue(k, type, data) ==
  IF Len(k.queue) < ClientQueue
    THEN [k EXCEPT !.seq = Succ(@), !.queue = Append(@, Frame(type, Succ(k.seq), data))]
    ELSE Terminated(k)

\* _deliver_all: whoever cannot take the frame is no longer registered.
DeliverAll(type, data) ==
  [c \in Clients |-> IF c \in Registered THEN Enqueue(conn[c], type, data) ELSE conn[c]]

\* note_ping, then the ping itself.
Pinged(k) ==
  IF k.state # "served" THEN k
  ELSE IF k.pings >= MissedPingLimit THEN Terminated(k)
  ELSE Enqueue([k EXCEPT !.pings = @ + 1], "ping", NoData)

\* _maybe_ping, the last call of a tick, over the connections it left.
MaybePing(conns) ==
  IF now - lastPing < PingEvery
    THEN conn' = conns /\ UNCHANGED lastPing
    ELSE conn' = [c \in Clients |-> Pinged(conns[c])] /\ lastPing' = now

\* A tick that overtakes frames still on their way to a client is a slow
\* client's doing: the loop sleeps a second, a healthy connection drains at once.
KeptUp == \A c \in Registered : Pipe(c) = <<>>
SlowClientsCount == /\ KeptUp \/ faults < MaxFaults
                    /\ faults' = IF KeptUp THEN faults ELSE faults + 1
-----------------------------------------------------------------------------
\* The events of one tick about an aircraft: what the last one says, and
\* whether an observation not followed by a removal is among them.
About(q, a)    == {i \in 1..Len(q) : q[i].icao = a}
LastKind(q, a) == q[CHOOSE i \in About(q, a) : \A j \in About(q, a) : j <= i].kind

Observed(q, a) ==
  \E i \in About(q, a) :
     /\ q[i].kind \in {"appeared", "updated"}
     /\ \A j \in About(q, a) : j > i => q[j].kind # "removed"

\* Mutant: the last event alone decides what is sent about an aircraft.
DeltaLastOnly(q) ==
  LET named == {a \in Aircraft : About(q, a) # {}}
  IN  [at |-> now,
       updated |-> [a \in Aircraft |->
                      IF a \in named /\ LastKind(q, a) \in {"appeared", "updated"}
                        THEN aircraft[a] ELSE NoRecord],
       stale   |-> {a \in named : LastKind(q, a) = "stale"},
       removed |-> {a \in named : LastKind(q, a) = "removed"}]

\* _emit_delta: one tick's events collapsed, objects read from the store now.
Delta(q) ==
  LET named == {a \in Aircraft : About(q, a) # {}}
  IN  [at |-> now,
       updated |-> [a \in Aircraft |-> IF Observed(q, a) THEN aircraft[a] ELSE NoRecord],
       stale   |-> {a \in named : LastKind(q, a) = "stale"},
       removed |-> {a \in named : LastKind(q, a) = "removed"}]

Empty(d) == d.updated = NoPicture /\ d.stale = {} /\ d.removed = {}

BroadcasterInit ==
  /\ Init
  /\ task = "asleep"
  /\ conn = [c \in Clients |-> NoConnection]
  /\ wire = [c \in Clients |-> <<>>]
  /\ lastPing = now
  /\ faults = 0

\* broadcast_once up to its only await: drain, acknowledge a gap, and send
\* one delta, or leave for the resync ...
Broadcast ==
  LET s == sub[Socket]
  IN  /\ Idle /\ task = "asleep"
      /\ SlowClientsCount
      /\ sub' = [sub EXCEPT ![Socket] = Acknowledged(Drained(@))]
      /\ IF Registered # {} /\ s.overflowed
           THEN task' = "resync" /\ UNCHANGED <<conn, lastPing>>
           ELSE /\ MaybePing(IF Empty(Delta(s.queue)) THEN conn
                             ELSE DeliverAll("delta", Delta(s.queue)))
                /\ UNCHANGED task
      /\ UNCHANGED <<now, heard, aircraft, todo, removed, lastSweep, gone, wire>>

\* ... which reads the store after the await and ends the tick.
Resync ==
  /\ Idle /\ task = "resync"
  /\ task' = "asleep"
  /\ MaybePing(DeliverAll("snapshot", Snapshot))
  /\ UNCHANGED <<storeVars, wire, faults>>

\* publish_activity: called by the activity service, outside the tick.
PublishActivity ==
  /\ Detections /\ Idle /\ Registered # {}
  /\ SlowClientsCount
  /\ conn' = DeliverAll("activity_batch", NoData)
  /\ UNCHANGED <<storeVars, task, wire, lastPing>>

\* connect: snapshot and registration in one synchronous step.
Connect(c) ==
  /\ Idle /\ conn[c] = NoConnection
  /\ conn' = [conn EXCEPT ![c] =
                Enqueue([NoConnection EXCEPT !.state = "served"], "snapshot", Snapshot)]
  /\ UNCHANGED <<storeVars, task, wire, lastPing, faults>>

\* _write_to_client: one frame onto the wire; after the close the handler ends.
Write(c) ==
  LET f == Head(conn[c].queue)
  IN  /\ Idle /\ conn[c].queue # <<>>
      /\ Len(wire[c]) < WireSize
      /\ wire' = [wire EXCEPT ![c] = Append(@, f)]
      /\ conn' = [conn EXCEPT ![c] = IF f = Closing THEN NoConnection
                                     ELSE [@ EXCEPT !.queue = Tail(conn[c].queue)]]
      /\ UNCHANGED <<storeVars, task, lastPing, faults>>

\* The process stops (every connection is told to close) and starts again
\* with an empty store and a new subscription.
Restart ==
  /\ Idle /\ faults < MaxFaults
  /\ faults' = faults + 1
  /\ aircraft' = [a \in Aircraft |-> NoRecord]
  /\ sub' = [s \in Consumers |-> NewSubscription]
  /\ lastSweep' = now /\ lastPing' = now
  /\ gone' = [a \in Aircraft |-> -1]
  /\ task' = "asleep"
  /\ conn' = [c \in Clients |-> IF conn[c].state = "served" THEN Terminated(conn[c]) ELSE conn[c]]
  /\ UNCHANGED <<now, heard, todo, removed, wire>>

ServerStep ==
  \/ StoreStep /\ UNCHANGED serverVars
  \/ Broadcast
  \/ Resync
  \/ PublishActivity
  \/ Restart
  \/ \E c \in Clients : Write(c)
=============================================================================
