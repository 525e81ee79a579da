----------------------------- MODULE LiveClient -----------------------------
(***************************************************************************)
(* The browser tab at the other end of LiveBroadcaster: LiveSocket         *)
(* (lib/ws/liveSocket.ts), the store it fills (useLiveAircraftStore.ts)    *)
(* and the hook that owns both and polls REST while the socket is down     *)
(* (useLiveConnection.ts).                                                 *)
(*                                                                         *)
(* JavaScript runs one handler at a time, so each handler is one step.     *)
(* `started` is always true here: a tab that unmounts the shell is gone.   *)
(* When the browser detaches from a socket nothing reads what the server   *)
(* still queues for it, so that connection is forgotten in the same step.  *)
(***************************************************************************)
EXTENDS LiveBroadcaster, SequencesExt

CONSTANTS Lossy,              \* may something between the two ends lose a frame?
          RestAnswers         \* is GET /api/v1/aircraft/current ever answered?

ASSUME ClientAssumption == {Lossy, RestAnswers} \subseteq BOOLEAN

VARIABLES ui,                 \* Clients -> the tab's socket, timers and picture
          poll                \* Clients -> the fallback request in flight

clientVars == <<ui, poll>>
vars == <<storeVars, serverVars, clientVars>>

NoSeq  == -1
NoPoll == [state |-> "none", at |-> 0, picture |-> NoPicture]

\* The moment after start(): status reported once, first socket opening, and
\* polling on its timer but not at once.
FirstLoad ==
  [socket |-> "open", retry |-> FALSE, lastSeq |-> NoSeq, status |-> "connecting",
   polling |-> TRUE, aircraft |-> NoPicture, stale |-> TRUE, at |-> 0]

ClientInit ==
  /\ BroadcasterInit
  /\ ui = [c \in Clients |-> FirstLoad]
  /\ poll = [c \in Clients |-> NoPoll]
-----------------------------------------------------------------------------
\* applyDelta: removed, then stale as a flag flip, then updated.
ApplyDelta(picture, d) ==
  [a \in Aircraft |->
     IF d.updated[a] # NoRecord THEN d.updated[a]
     ELSE IF a \in d.removed \/ picture[a] = NoRecord THEN NoRecord
     ELSE IF a \in d.stale THEN [picture[a] EXCEPT !.state = "stale"]
     ELSE picture[a]]

\* applySnapshot and applyDelta: what a data frame makes of the picture.
Apply(picture, f) ==
  CASE f.type = "snapshot" -> f.data.updated
    [] f.type = "delta"    -> ApplyDelta(picture, f.data)
    [] OTHER               -> picture

\* Mutant: a sequence gap is ignored.
IsGapNever(u, f) == FALSE

\* handleMessage's check over every frame type.
IsGap(u, f) == u.lastSeq # NoSeq /\ f.seq # Succ(u.lastSeq)

\* Accepting a frame: status and polling move before the picture does.
Accepted(u, f) ==
  LET fed == [u EXCEPT !.lastSeq = f.seq, !.aircraft = Apply(@, f),
                       !.stale = FALSE, !.at = f.data.at]
  IN  CASE f.type = "snapshot" -> [fed EXCEPT !.status = "live", !.polling = FALSE]
        [] f.type = "delta"    -> fed
        [] OTHER               -> [u EXCEPT !.lastSeq = f.seq]

\* Mutant: a drop leaves polling to the next drop.
DisconnectedUnpolled(u) ==
  [u EXCEPT !.socket = "none", !.retry = TRUE, !.stale = TRUE,
            !.status = IF @ = "connecting" THEN @ ELSE "reconnecting"]

\* handleDisconnect with onStatus: detach, schedule the retry, mark the
\* picture stale, start polling.
Disconnected(u) ==
  [u EXCEPT !.socket = "none", !.retry = TRUE, !.stale = TRUE, !.polling = TRUE,
            !.status = IF @ = "connecting" THEN @ ELSE "reconnecting"]

\* startPolling(immediate): a request at once, unless the timer already runs
\* or one is in flight.
Asked(c) == IF ui[c].polling \/ poll[c] # NoPoll THEN poll[c]
            ELSE [NoPoll EXCEPT !.state = "asked"]

Disconnect(c) ==
  /\ ui' = [ui EXCEPT ![c] = Disconnected(@)]
  /\ poll' = [poll EXCEPT ![c] = Asked(c)]
  /\ conn' = [conn EXCEPT ![c] = NoConnection]
  /\ wire' = [wire EXCEPT ![c] = <<>>]
-----------------------------------------------------------------------------
\* live_stream: accept, read the receiver block, register.
Accept(c) ==
  /\ ui[c].socket = "open" /\ wire[c] = <<>>
  /\ Connect(c)
  /\ UNCHANGED clientVars

\* The socket delivers a frame in order ...
Receive(c) ==
  LET f == Head(wire[c])
  IN  /\ Idle /\ wire[c] # <<>>
      /\ f # Closing /\ ~IsGap(ui[c], f)
      /\ ui' = [ui EXCEPT ![c] = Accepted(@, f)]
      /\ wire' = [wire EXCEPT ![c] = Tail(@)]
      \* the pong reaches _read_from_client, which forgets unanswered pings
      /\ conn' = [conn EXCEPT ![c].pings = IF f.type = "ping" THEN 0 ELSE @]
      /\ UNCHANGED <<storeVars, task, lastPing, faults, poll>>

\* ... or its close, or a frame after a gap.
ReceiveLast(c) ==
  LET f == Head(wire[c])
  IN  /\ Idle /\ wire[c] # <<>>
      /\ f = Closing \/ IsGap(ui[c], f)
      /\ Disconnect(c)
      /\ UNCHANGED <<storeVars, task, lastPing, faults>>

\* The ping is received but its answer never arrives (a tab that is asleep).
PongLost(c) ==
  LET f == Head(wire[c])
  IN  /\ Idle /\ wire[c] # <<>> /\ f.type = "ping" /\ ~IsGap(ui[c], f)
      /\ faults < MaxFaults /\ faults' = faults + 1
      /\ ui' = [ui EXCEPT ![c] = Accepted(@, f)]
      /\ wire' = [wire EXCEPT ![c] = Tail(@)]
      /\ UNCHANGED <<storeVars, task, conn, lastPing, poll>>

\* The connection breaks, or is refused, at any moment.
Drop(c) ==
  /\ Idle /\ ui[c].socket = "open"
  /\ faults < MaxFaults /\ faults' = faults + 1
  /\ Disconnect(c)
  /\ UNCHANGED <<storeVars, task, lastPing>>

\* Something between the two ends loses a frame.
Lose(c) ==
  /\ Lossy /\ Idle /\ wire[c] # <<>> /\ Head(wire[c]) # Closing
  /\ faults < MaxFaults /\ faults' = faults + 1
  /\ wire' = [wire EXCEPT ![c] = Tail(@)]
  /\ UNCHANGED <<storeVars, task, conn, lastPing, clientVars>>

\* Mutant: the new socket expects the old one's numbering.
RetryKeepsSeq(c) ==
  /\ Idle /\ ui[c].retry
  /\ ui' = [ui EXCEPT ![c].retry = FALSE, ![c].socket = "open"]
  /\ UNCHANGED <<storeVars, serverVars, poll>>

\* The retry timer fires: open() with a fresh sequence.
Retry(c) ==
  /\ Idle /\ ui[c].retry
  /\ ui' = [ui EXCEPT ![c].retry = FALSE, ![c].socket = "open", ![c].lastSeq = NoSeq]
  /\ UNCHANGED <<storeVars, serverVars, poll>>

\* The poll timer fires, one request at a time.
AskRest(c) ==
  /\ Idle /\ ui[c].polling /\ poll[c] = NoPoll
  /\ poll' = [poll EXCEPT ![c].state = "asked"]
  /\ UNCHANGED <<storeVars, serverVars, ui>>

\* GET /api/v1/aircraft/current is answered from the store.
AnswerRest(c) ==
  /\ RestAnswers /\ Idle /\ poll[c].state = "asked"
  /\ poll' = [poll EXCEPT ![c] = [state |-> "answered", at |-> now, picture |-> Picture]]
  /\ UNCHANGED <<storeVars, serverVars, ui>>

\* Mutant: the answer is applied whatever the socket has done since.
ApplyRestAlways(c) ==
  /\ Idle /\ poll[c].state = "answered"
  /\ poll' = [poll EXCEPT ![c] = NoPoll]
  /\ ui' = [ui EXCEPT ![c].aircraft = poll[c].picture, ![c].at = poll[c].at,
                      ![c].stale = FALSE]
  /\ UNCHANGED <<storeVars, serverVars>>

\* The answer arrives: applied unless a snapshot has landed meanwhile.
ApplyRest(c) ==
  /\ Idle /\ poll[c].state = "answered"
  /\ poll' = [poll EXCEPT ![c] = NoPoll]
  /\ ui' = IF ui[c].status = "live" THEN ui
           ELSE [ui EXCEPT ![c].aircraft = poll[c].picture, ![c].at = poll[c].at,
                           ![c].stale = FALSE]
  /\ UNCHANGED <<storeVars, serverVars>>

\* The request fails: nothing is said and nothing is done.
RestFails(c) ==
  /\ Idle /\ poll[c] # NoPoll
  /\ poll' = [poll EXCEPT ![c] = NoPoll]
  /\ UNCHANGED <<storeVars, serverVars, ui>>

ClientStep(c) ==
  \/ Accept(c) \/ Receive(c) \/ ReceiveLast(c) \/ PongLost(c)
  \/ Drop(c) \/ Lose(c) \/ Retry(c)
  \/ AskRest(c) \/ AnswerRest(c) \/ ApplyRest(c) \/ RestFails(c)

LiveNext == \/ ServerStep /\ UNCHANGED clientVars
            \/ \E c \in Clients : ClientStep(c)

LiveSpec == ClientInit /\ [][LiveNext]_vars

\* The sweep loop and the writer run for ever, the transport delivers, timers
\* fire; the loop's one-second sleep lets a connection drain between ticks, so
\* a tick whose moment comes again and again is taken.
LiveFairness ==
  /\ SF_vars(Broadcast /\ UNCHANGED clientVars)
  /\ WF_vars(Resync /\ UNCHANGED clientVars)
  /\ \A a \in Aircraft :
       WF_vars((SweepExpire(a) \/ SweepMarkStale(a) \/ SweepSkip(a) \/ SweepRemove(a))
                 /\ UNCHANGED <<serverVars, clientVars>>)
  /\ \A c \in Clients :
       /\ WF_vars(Write(c) /\ UNCHANGED clientVars)
       /\ WF_vars(Accept(c)) /\ WF_vars(Retry(c))
       /\ WF_vars(Receive(c)) /\ WF_vars(ReceiveLast(c))

LiveFairSpec == LiveSpec /\ LiveFairness
-----------------------------------------------------------------------------
Objects == Records \cup {NoRecord}
Frames  == [type : {"snapshot", "delta", "activity_batch", "ping", "close"},
            seq : 0..SeqModulus, data : [at : Time, updated : [Aircraft -> Objects],
            stale : SUBSET Aircraft, removed : SUBSET Aircraft]]

\* Type correctness of the connections and of the tab; the bounds of the
\* outbound queue and of the transport are part of it.
LiveTypeOK ==
  /\ TypeOK
  /\ task \in {"asleep", "resync"}
  /\ \A c \in Clients :
       /\ conn[c].state \in {"none", "served", "closed"}
       /\ conn[c].queue \in Seq(Frames) /\ Len(conn[c].queue) <= ClientQueue
       /\ conn[c].seq \in 0..SeqModulus /\ conn[c].pings \in 0..MissedPingLimit
       /\ wire[c] \in Seq(Frames) /\ Len(wire[c]) <= WireSize
       /\ ui[c].socket \in {"none", "open"}
       /\ ui[c].lastSeq \in NoSeq..SeqModulus
       /\ ui[c].status \in {"connecting", "live", "reconnecting"}
       /\ {ui[c].retry, ui[c].polling, ui[c].stale} \subseteq BOOLEAN
       /\ ui[c].aircraft \in [Aircraft -> Objects] /\ ui[c].at \in Time
       /\ poll[c].state \in {"none", "asked", "answered"}
  /\ lastPing \in Time /\ faults \in 0..MaxFaults

\* What a client will hold once everything under way to it has arrived: the
\* frames in its pipe, then the delta of the events not yet collapsed.
Arriving(c) ==
  ApplyDelta(FoldLeft(Apply, ui[c].aircraft, Pipe(c)), Delta(sub[Socket].queue))

\* How many frames the server has numbered since the last one received.
Outstanding(c) ==
  (conn[c].seq - (IF ui[c].lastSeq = NoSeq THEN 0 ELSE ui[c].lastSeq)) % SeqModulus

\* The broadcaster's stream is whole: nothing shed, no resync owed.
StreamWhole == ~sub[Socket].overflowed /\ task = "asleep"

\* A connection on which no frame is missing and that has had its snapshot, or
\* is about to.
Whole(c) == /\ c \in Registered
            /\ Outstanding(c) = Len(Pipe(c))
            /\ ui[c].status = "live" \/ ui[c].lastSeq = NoSeq

\* REST/WS agreement (ws.py, "exactly what GET /api/v1/aircraft/current would
\* have returned"): whenever a client connected, however events, snapshots,
\* overflow resyncs and sweeps interleaved, what it holds plus what is on its
\* way is the live set, record for record and with the right live/stale mark.
PictureAgrees ==
  StreamWhole =>
    \A c \in Clients : Whole(c) => Arriving(c) = Picture

\* The stream a surviving connection carries has no hole the server made (ws.py:
\* "this server never leaves one"): slow clients are disconnected, not skipped.
NoSequenceGap ==
  \A c \in Registered : LET p == Pipe(c) IN
    /\ \A i \in 1..(Len(p) - 1) : p[i + 1].seq = Succ(p[i].seq)
    /\ p # <<>> => Last(p).seq = conn[c].seq

\* An outage is covered and never lasts by itself: a tab that is not live polls
\* REST and has either a socket or a retry timer, never both; a live one has a
\* socket, does not poll, and does not call its picture stale.
OutageCovered ==
  \A c \in Clients :
    /\ (ui[c].socket = "open") # ui[c].retry
    /\ (ui[c].status = "live") # ui[c].polling
    /\ ui[c].status = "live" => ui[c].socket = "open" /\ ~ui[c].stale

\* While a tab stays live its picture never goes back in time, whatever REST
\* answers are still on their way (useLiveConnection.poll's check).
LiveNeverOlder ==
  [][\A c \in Clients :
       ui[c].status = "live" /\ ui'[c].status = "live" => ui'[c].at >= ui[c].at]_vars

\* "a poll that answered is as current as a frame that arrived"
\* (useLiveAircraftStore.applyFallbackPicture): a fallback picture is never
\* older than the one it replaces.
FallbackNeverOlder ==
  [][\A c \in Clients : poll[c].state = "answered" /\ ui'[c] # ui[c] /\ poll'[c] = NoPoll
                          => ui'[c].at >= ui[c].at]_vars

InSync(c) == ui[c].status = "live" /\ ui[c].aircraft = Picture

\* However often its connection broke, was refused or was dropped for being
\* slow, a tab comes back to the live picture, again and again.
TabRecovers == \A c \in Clients : []<>InSync(c)
=============================================================================
