-------------------------- MODULE LiveClientProofs --------------------------
(***************************************************************************)
(* Proofs about two ends of the live event stream: the WebSocket with the  *)
(* browser tab behind it, and the airport context, for every value of      *)
(* their constants.                                                        *)
(*                                                                         *)
(* What is on its way to a tab is one pipe: the frames on the wire, then   *)
(* those still queued.  The promises hold because of what the pipe of each *)
(* connection holds at any moment (PipeInv): consecutive numbers up to the *)
(* last one given out, data no older than what a live tab shows and in the *)
(* order it was read.  Every operation of the server appends to a pipe or  *)
(* closes it, every operation of the tab takes from it or forgets it.      *)
(*                                                                         *)
(* The airport context reads its events behind the store, so its promises  *)
(* rest on the stream as well: what is buffered is in order and begins     *)
(* where the service stands (EventsInv, LinkInv), its trail holds the      *)
(* positions it heard (TrailOf), and the phase it shows was earned by them *)
(* or set aside when the aircraft was removed (EarnedInv, LapsedInv).      *)
(***************************************************************************)
EXTENDS LiveClient, LiveStoreProofs, AirportContext, FiniteSetTheorems, WellFoundedInduction

Datas == [at : Time, updated : [Aircraft -> Objects], stale : SUBSET Aircraft, removed : SUBSET Aircraft]
Conns == [state : {"none", "served", "closed"}, queue : Seq(Frames),
          seq : 0 .. SeqModulus, pings : 0 .. MissedPingLimit]
Tabs  == [socket : {"none", "open"}, retry : BOOLEAN, lastSeq : NoSeq .. SeqModulus,
          status : {"connecting", "live", "reconnecting"}, polling : BOOLEAN,
          aircraft : [Aircraft -> Objects], stale : BOOLEAN, at : Time]
Polls == [state : {"none", "asked", "answered"}, at : Time, picture : [Aircraft -> Objects]]

\* A frame that carries a picture, or part of one, and when it was read.
IsData(f) == f.type \in {"snapshot", "delta"}

\* What a pipe promises at the time t to the tab u at its end.
PipeInv(p, k, u, t) ==
  /\ k.state = "served" => /\ \A i \in 1 .. Len(p) - 1 : p[i + 1].seq = Succ(p[i].seq)
                           /\ Len(p) > 0 => p[Len(p)].seq = k.seq
  /\ \A i \in 1 .. Len(p) : IsData(p[i]) => /\ p[i].data.at <= t
                                            /\ u.status = "live" => u.at <= p[i].data.at
  /\ \A i, j \in 1 .. Len(p) : i < j /\ IsData(p[i]) /\ IsData(p[j]) => p[i].data.at <= p[j].data.at

\* A connection: within its bound, nothing queued for nobody, and no close among what is still served.
ConnInv(k) ==
  /\ k \in Conns /\ Len(k.queue) <= ClientQueue
  /\ k.state = "none" => k.queue = <<>>
  /\ k.state = "served" => \A i \in 1 .. Len(k.queue) : k.queue[i].type # "close"

\* A connection, what it has on the wire, and the tab it belongs to.
Good(k, w, u, t) == ConnInv(k) /\ PipeInv(w \o k.queue, k, u, t)

\* The tab's socket, its retry timer and its polling, and whose frames may be under way.
TabInv(k, w, u, t) ==
  /\ (u.socket = "open") # u.retry
  /\ (u.status = "live") # u.polling
  /\ u.status = "live" => u.socket = "open" /\ ~u.stale /\ u.at <= t
  /\ k.state # "none" \/ w # <<>> => u.socket = "open"

StoreInv  == TypeOK /\ SweepInv
ShapeInv  == /\ task \in {"asleep", "resync"} /\ lastPing \in Time /\ faults \in 0 .. MaxFaults
             /\ wire \in [Clients -> Seq(Frames)] /\ \A c \in Clients : Len(wire[c]) <= WireSize
             /\ ui \in [Clients -> Tabs] /\ poll \in [Clients -> Polls]
             /\ DOMAIN conn = Clients
StreamInv == \A c \in Clients : Good(conn[c], wire[c], ui[c], now)
TabsInv   == \A c \in Clients : TabInv(conn[c], wire[c], ui[c], now)

LiveInv == StoreInv /\ ShapeInv /\ StreamInv /\ TabsInv
-----------------------------------------------------------------------------
\* The frames every operation is built from have the shape of frames.
LEMMA FrameShape ==
  ASSUME NEW type \in {"snapshot", "delta", "activity_batch", "ping", "close"},
         NEW seq \in 0 .. SeqModulus, NEW data \in Datas
  PROVE  Frame(type, seq, data) \in Frames
BY DEF Frame, Frames, Datas

\* Numbers are given out modulo SeqModulus.
LEMMA SuccShape ==
  ASSUME NEW seq \in 0 .. SeqModulus
  PROVE  Succ(seq) \in 0 .. SeqModulus
BY BroadcasterAssumption DEF Succ

\* What is sent has the shape of data, whatever the store holds and whatever was drained.
LEMMA DataShape ==
  ASSUME TypeOK
  PROVE  /\ NoData \in Datas /\ NoPicture \in [Aircraft -> Objects] /\ Picture \in [Aircraft -> Objects]
         /\ Snapshot \in Datas /\ Snapshot.at = now
         /\ \A q : Delta(q) \in Datas /\ Delta(q).at = now
<1>1. NoPicture \in [Aircraft -> Objects] /\ Picture \in [Aircraft -> Objects] /\ now \in Time /\ 0 \in Time
  BY StoreAssumption DEF NoPicture, Picture, Objects, TypeOK, Time
<1>2. NoData \in Datas
  BY <1>1 DEF NoData, Datas
<1>3. Snapshot \in Datas /\ Snapshot.at = now
  BY <1>1 DEF Snapshot, NoData, Datas
<1>4. ASSUME NEW q PROVE Delta(q) \in Datas /\ Delta(q).at = now
  <2> DEFINE upd == [a \in Aircraft |-> IF Observed(q, a) THEN aircraft[a] ELSE NoRecord]
             st  == {a \in {b \in Aircraft : About(q, b) # {}} : LastKind(q, a) = "stale"}
             rem == {a \in {b \in Aircraft : About(q, b) # {}} : LastKind(q, a) = "removed"}
  <2>1. Delta(q) = [at |-> now, updated |-> upd, stale |-> st, removed |-> rem]
    BY DEF Delta
  <2>2. upd \in [Aircraft -> Objects]
    BY DEF TypeOK, Objects
  <2>3. st \subseteq Aircraft /\ rem \subseteq Aircraft
    OBVIOUS
  <2> HIDE DEF upd, st, rem
  <2>4. QED
    BY <1>1, <2>1, <2>2, <2>3 DEF Datas
<1>5. QED
  BY <1>1, <1>2, <1>3, <1>4

\* A frame behind a pipe: what was there stays where it was (ClientConnection.deliver).
LEMMA PipeAppend ==
  ASSUME NEW w \in Seq(Frames), NEW q \in Seq(Frames), NEW f \in Frames
  PROVE  /\ Len(w \o q) \in Nat /\ Len(w \o Append(q, f)) = Len(w \o q) + 1
         /\ \A i \in 1 .. Len(w \o q) : (w \o Append(q, f))[i] = (w \o q)[i]
         /\ (w \o Append(q, f))[Len(w \o q) + 1] = f
OBVIOUS

\* A frame moved from the queue to the wire stays where it is in the pipe (_write_to_client).
LEMMA PipeWrite ==
  ASSUME NEW w \in Seq(Frames), NEW q \in Seq(Frames), q # <<>>
  PROVE  Append(w, Head(q)) \o Tail(q) = w \o q
<1>1. /\ Append(w, Head(q)) \o Tail(q) \in Seq(Frames) /\ w \o q \in Seq(Frames)
      /\ Len(Append(w, Head(q)) \o Tail(q)) = Len(w \o q)
  OBVIOUS
<1>2. \A i \in 1 .. Len(w \o q) : (Append(w, Head(q)) \o Tail(q))[i] = (w \o q)[i]
  OBVIOUS
<1>3. QED
  BY <1>1, <1>2

\* Once the close is on the wire nothing follows it (_write_to_client).
LEMMA PipeClose ==
  ASSUME NEW w \in Seq(Frames), NEW q \in Seq(Frames), NEW f \in Frames
  PROVE  /\ w \o q \in Seq(Frames) /\ Append(w, f) \o <<>> \in Seq(Frames)
         /\ Len(w) \in Nat /\ Len(w) <= Len(w \o q) /\ Len(w \o q) \in Nat
         /\ Len(Append(w, f) \o <<>>) = Len(w) + 1 /\ (Append(w, f) \o <<>>)[Len(w) + 1] = f
         /\ \A i \in 1 .. Len(w) : (Append(w, f) \o <<>>)[i] = (w \o q)[i]
OBVIOUS

\* A frame received is the first of the pipe, and the others move up (handleMessage).
LEMMA PipeReceive ==
  ASSUME NEW w \in Seq(Frames), NEW q \in Seq(Frames), w # <<>>
  PROVE  /\ w \o q \in Seq(Frames) /\ Tail(w) \o q \in Seq(Frames)
         /\ Len(w \o q) \in Nat /\ Len(w \o q) > 0 /\ Len(Tail(w) \o q) = Len(w \o q) - 1
         /\ Head(w) = (w \o q)[1] /\ Tail(w) \in Seq(Frames)
         /\ \A i \in 1 .. Len(Tail(w) \o q) : (Tail(w) \o q)[i] = (w \o q)[i + 1]
OBVIOUS
-----------------------------------------------------------------------------
\* A pipe that grows by a frame of now, numbered next, keeps its promises.
LEMMA PipeGrows ==
  ASSUME NEW p \in Seq(Frames), NEW r \in Seq(Frames), NEW f \in Frames, NEW k, NEW l, NEW u \in Tabs, NEW t \in Time,
         PipeInv(p, k, u, t), u.status = "live" => u.at <= t,
         Len(r) = Len(p) + 1, \A i \in 1 .. Len(p) : r[i] = p[i], r[Len(p) + 1] = f,
         l.state = "served" => k.state = "served" /\ f.seq = Succ(k.seq) /\ l.seq = f.seq,
         IsData(f) => f.data.at = t
  PROVE  PipeInv(r, l, u, t)
<1>0. /\ Len(p) \in Nat /\ \A i \in 1 .. Len(p) : p[i] \in Frames
      /\ 1 .. Len(r) = 1 .. (Len(p) + 1) /\ \A i \in 1 .. (Len(p) + 1) : i \in 1 .. Len(p) \/ i = Len(p) + 1
  OBVIOUS
<1>1. ASSUME l.state = "served"
      PROVE  /\ \A i \in 1 .. Len(r) - 1 : r[i + 1].seq = Succ(r[i].seq)
             /\ Len(r) > 0 => r[Len(r)].seq = l.seq
  <2>1. /\ k.state = "served" /\ f.seq = Succ(k.seq) /\ l.seq = f.seq
        /\ \A i \in 1 .. Len(p) - 1 : p[i + 1].seq = Succ(p[i].seq)
        /\ Len(p) > 0 => p[Len(p)].seq = k.seq
    BY <1>1 DEF PipeInv
  <2>2. ASSUME NEW i \in 1 .. Len(p) PROVE r[i + 1].seq = Succ(r[i].seq)
    <3>1. CASE i = Len(p)
      BY <1>0, <2>1, <3>1
    <3>2. CASE i # Len(p)
      <4>1. i \in 1 .. Len(p) - 1 /\ i + 1 \in 1 .. Len(p)
        BY <1>0, <3>2
      <4>2. QED
        BY <2>1, <4>1
    <3>3. QED
      BY <3>1, <3>2
  <2>3. QED
    BY <1>0, <2>1, <2>2
<1>2. ASSUME NEW i \in 1 .. Len(r), IsData(r[i])
      PROVE  r[i].data.at <= t /\ (u.status = "live" => u.at <= r[i].data.at)
  <2>1. CASE i \in 1 .. Len(p)
    BY <1>2, <2>1 DEF PipeInv
  <2>2. CASE i = Len(p) + 1
    BY <1>2, <2>2 DEF Time
  <2>3. QED
    BY <1>0, <2>1, <2>2
<1>3. ASSUME NEW i \in 1 .. Len(r), NEW j \in 1 .. Len(r), i < j, IsData(r[i]), IsData(r[j])
      PROVE  r[i].data.at <= r[j].data.at
  <2>1. i \in 1 .. Len(p)
    BY <1>0, <1>3
  <2>2. CASE j \in 1 .. Len(p)
    BY <1>3, <2>1, <2>2 DEF PipeInv
  <2>3. CASE j = Len(p) + 1
    BY <1>2, <1>3, <2>3
  <2>4. QED
    BY <1>0, <2>2, <2>3
<1>4. QED
  BY <1>1, <1>2, <1>3 DEF PipeInv

\* A pipe whose first frame is taken keeps its promises, to a tab that shows that frame or what it showed.
LEMMA PipeShrinks ==
  ASSUME NEW p \in Seq(Frames), NEW r \in Seq(Frames), NEW k, NEW l, NEW u, NEW v, NEW t \in Time,
         PipeInv(p, k, u, t), Len(p) > 0,
         Len(r) = Len(p) - 1, \A i \in 1 .. Len(r) : r[i] = p[i + 1],
         l.state = "served" => k.state = "served" /\ l.seq = k.seq,
         v.status = "live" => \/ u.status = "live" /\ v.at = u.at
                              \/ IsData(p[1]) /\ v.at = p[1].data.at
  PROVE  PipeInv(r, l, v, t)
<1>0. /\ Len(p) \in Nat /\ 1 \in 1 .. Len(p) /\ \A i \in 1 .. Len(r) : i + 1 \in 1 .. Len(p) /\ 1 < i + 1
      /\ \A i \in 1 .. Len(r) - 1 : i \in 1 .. Len(r) /\ i + 1 \in 1 .. Len(r) /\ i + 1 \in 1 .. Len(p) - 1
      /\ Len(r) > 0 => Len(r) \in 1 .. Len(r)
  OBVIOUS
<1>1. ASSUME l.state = "served"
      PROVE  /\ \A i \in 1 .. Len(r) - 1 : r[i + 1].seq = Succ(r[i].seq)
             /\ Len(r) > 0 => r[Len(r)].seq = l.seq
  <2>1. /\ k.state = "served" /\ l.seq = k.seq
        /\ \A i \in 1 .. Len(p) - 1 : p[i + 1].seq = Succ(p[i].seq)
        /\ Len(p) > 0 => p[Len(p)].seq = k.seq
    BY <1>1 DEF PipeInv
  <2>2. Len(r) > 0 => r[Len(r)] = p[Len(p)]
    BY <1>0
  <2>3. QED
    BY <1>0, <2>1, <2>2
<1>2. ASSUME NEW i \in 1 .. Len(r), IsData(r[i])
      PROVE  r[i].data.at <= t /\ (v.status = "live" => v.at <= r[i].data.at)
  <2>1. /\ IsData(p[i + 1]) /\ p[i + 1].data.at <= t /\ (u.status = "live" => u.at <= p[i + 1].data.at)
        /\ IsData(p[1]) => p[1].data.at <= p[i + 1].data.at
    BY <1>0, <1>2 DEF PipeInv
  <2>2. QED
    BY <1>0, <2>1
<1>3. ASSUME NEW i \in 1 .. Len(r), NEW j \in 1 .. Len(r), i < j, IsData(r[i]), IsData(r[j])
      PROVE  r[i].data.at <= r[j].data.at
  <2>1. i + 1 < j + 1
    BY <1>3
  <2>2. QED
    BY <1>0, <1>3, <2>1 DEF PipeInv
<1>4. QED
  BY <1>1, <1>2, <1>3 DEF PipeInv
-----------------------------------------------------------------------------
\* What the lemmas on one connection assume of it, of the wire and of the tab.
Served(k, w, u, t) == Good(k, w, u, t) /\ w \in Seq(Frames) /\ u \in Tabs /\ (u.status = "live" => u.at <= t)

\* The sentinel is a frame that carries no picture.
LEMMA ClosingShape ==
  ASSUME TypeOK
  PROVE  Closing \in Frames /\ Closing.type = "close" /\ ~IsData(Closing)
<1>1. 0 \in 0 .. SeqModulus
  BY BroadcasterAssumption
<1>2. Closing \in Frames
  BY <1>1, DataShape, FrameShape DEF Closing
<1>3. QED
  BY <1>2 DEF Closing, Frame, IsData

\* Before a client connects, and after its handler has ended.
LEMMA NoConnectionShape == NoConnection \in Conns /\ NoConnection.queue = <<>> /\ NoConnection.state = "none"
<1>1. <<>> \in Seq(Frames) /\ 0 \in 0 .. SeqModulus /\ 0 \in 0 .. MissedPingLimit
  BY BroadcasterAssumption
<1>2. QED
  BY <1>1 DEF NoConnection, Conns

\* A pipe whose backlog was discarded is still in order (_terminate).
LEMMA TerminatedGood ==
  ASSUME TypeOK, NEW k, NEW w, NEW u, NEW t \in Time, Served(k, w, u, t)
  PROVE  Good(Terminated(k), w, u, t) /\ Terminated(k).state = "closed"
<1> DEFINE l == Terminated(k)
<1>1. k \in Conns /\ w \in Seq(Frames) /\ u \in Tabs /\ k.queue \in Seq(Frames) /\ (u.status = "live" => u.at <= t)
  BY DEF Served, Good, ConnInv, Conns
<1>2. <<Closing>> \in Seq(Frames) /\ Len(<<Closing>>) = 1
  BY ClosingShape
<1>3. l \in Conns /\ l.state = "closed" /\ l.queue = <<Closing>>
  BY <1>1, <1>2 DEF Terminated, Conns
<1>4. ConnInv(l)
  BY <1>2, <1>3, BroadcasterAssumption DEF ConnInv
<1> HIDE DEF l
<1>5. PipeInv(w \o l.queue, l, u, t)
  <2> DEFINE p == w \o k.queue
             r == w \o <<Closing>>
  <2>1. /\ p \in Seq(Frames) /\ r \in Seq(Frames) /\ Len(r) = Len(w) + 1 /\ r[Len(w) + 1] = Closing
        /\ Len(w) \in Nat /\ Len(w) <= Len(p) /\ Len(p) \in Nat
        /\ \A i \in 1 .. Len(w) : r[i] = p[i]
    BY <1>1, <1>2
  <2>2. PipeInv(p, k, u, t)
    BY DEF Served, Good
  <2> HIDE DEF p, r
  <2>3. \A i \in 1 .. Len(r) : IsData(r[i]) => i \in 1 .. Len(p) /\ r[i] = p[i]
    BY <2>1, ClosingShape
  <2>4. PipeInv(r, l, u, t)
    BY <1>3, <2>1, <2>2, <2>3 DEF PipeInv
  <2>5. QED
    BY <1>3, <2>4 DEF r
<1>6. QED
  BY <1>3, <1>4, <1>5 DEF Good, l

\* What deliver does to a served connection: its next number and its bound hold, or it is closed.
LEMMA EnqueueGood ==
  ASSUME TypeOK, NEW k, NEW w, NEW u, NEW t \in Time, Served(k, w, u, t), k.state = "served",
         NEW type \in {"snapshot", "delta", "activity_batch", "ping"}, NEW data \in Datas,
         type \in {"snapshot", "delta"} => data.at = t
  PROVE  Good(Enqueue(k, type, data), w, u, t) /\ Enqueue(k, type, data).state # "none"
<1>1. k \in Conns /\ w \in Seq(Frames) /\ u \in Tabs /\ k.queue \in Seq(Frames) /\ k.seq \in 0 .. SeqModulus
  BY DEF Served, Good, ConnInv, Conns
<1>2. CASE ~(Len(k.queue) < ClientQueue)
  BY <1>2, TerminatedGood DEF Enqueue
<1>3. CASE Len(k.queue) < ClientQueue
  <2> DEFINE f == Frame(type, Succ(k.seq), data)
             q == Append(k.queue, f)
             l == [k EXCEPT !.seq = Succ(k.seq), !.queue = q]
  <2>1. Succ(k.seq) \in 0 .. SeqModulus
    BY <1>1, SuccShape
  <2>2. f \in Frames /\ f.seq = Succ(k.seq) /\ f.type = type /\ f.data = data
    BY <2>1, FrameShape DEF Frame
  <2>3. Enqueue(k, type, data) = l
    BY <1>3 DEF Enqueue
  <2> HIDE DEF f
  <2>4. /\ q \in Seq(Frames) /\ Len(q) = Len(k.queue) + 1 /\ q[Len(q)] = f
        /\ \A i \in 1 .. Len(q) : (i \in 1 .. Len(k.queue) /\ q[i] = k.queue[i]) \/ q[i] = f
    BY <1>1, <2>2
  <2> HIDE DEF q
  <2>5. l \in Conns /\ l.state = "served" /\ l.queue = q /\ l.seq = Succ(k.seq)
    BY <1>1, <2>1, <2>4 DEF Conns
  <2> HIDE DEF l
  <2>6. ConnInv(l)
    <3>1. Len(l.queue) <= ClientQueue
      BY <1>1, <1>3, <2>4, <2>5, BroadcasterAssumption
    <3>2. \A i \in 1 .. Len(l.queue) : l.queue[i].type # "close"
      BY <2>2, <2>4, <2>5 DEF Served, Good, ConnInv
    <3>3. QED
      BY <2>5, <3>1, <3>2 DEF ConnInv
  <2>7. PipeInv(w \o q, l, u, t)
    <3>1. w \o k.queue \in Seq(Frames) /\ w \o q \in Seq(Frames)
      BY <1>1, <2>4
    <3>2. /\ Len(w \o q) = Len(w \o k.queue) + 1
          /\ \A i \in 1 .. Len(w \o k.queue) : (w \o q)[i] = (w \o k.queue)[i]
          /\ (w \o q)[Len(w \o k.queue) + 1] = f
      <4> DEFINE x == k.queue
      <4> HIDE DEF x, q
      <4>1. x \in Seq(Frames) /\ w \in Seq(Frames) /\ f \in Frames /\ q = Append(x, f)
        BY <1>1, <2>2 DEF x, q
      <4>2. QED
        BY <4>1, PipeAppend DEF x
    <3>3. PipeInv(w \o k.queue, k, u, t) /\ (u.status = "live" => u.at <= t)
      BY DEF Served, Good
    <3>4. IsData(f) => f.data.at = t
      BY <2>2 DEF IsData
    <3>5. l.state = "served" => k.state = "served" /\ f.seq = Succ(k.seq) /\ l.seq = f.seq
      BY <2>2, <2>5
    <3> DEFINE p == w \o k.queue
               r == w \o q
    <3> HIDE DEF p, r
    <3>6. p \in Seq(Frames) /\ r \in Seq(Frames) /\ PipeInv(p, k, u, t)
      BY <3>1, <3>3 DEF p, r
    <3>7. Len(r) = Len(p) + 1 /\ (\A i \in 1 .. Len(p) : r[i] = p[i]) /\ r[Len(p) + 1] = f
      BY <3>2 DEF p, r
    <3>8. PipeInv(r, l, u, t)
      BY <1>1, <2>2, <3>3, <3>4, <3>5, <3>6, <3>7, PipeGrows
    <3>9. QED
      BY <3>8 DEF r
  <2>8. QED
    BY <2>3, <2>5, <2>6, <2>7 DEF Good
<1>4. QED
  BY <1>2, <1>3

\* What a ping does to a connection (note_ping, then deliver).
LEMMA PingedGood ==
  ASSUME TypeOK, NEW k, NEW w, NEW u, NEW t \in Time, Served(k, w, u, t)
  PROVE  Good(Pinged(k), w, u, t) /\ (Pinged(k).state = "none" <=> k.state = "none")
<1>1. k \in Conns /\ k.pings \in 0 .. MissedPingLimit /\ MissedPingLimit \in Nat
  BY BroadcasterAssumption DEF Served, Good, ConnInv, Conns
<1>2. CASE k.state # "served"
  BY <1>2 DEF Pinged, Served
<1>3. CASE k.state = "served" /\ k.pings >= MissedPingLimit
  BY <1>3, TerminatedGood DEF Pinged
<1>4. CASE k.state = "served" /\ ~(k.pings >= MissedPingLimit)
  <2> DEFINE l == [k EXCEPT !.pings = @ + 1]
  <2>1. l \in Conns /\ l.state = k.state /\ l.queue = k.queue /\ l.seq = k.seq
    BY <1>1, <1>4 DEF Conns
  <2>2. Pinged(k) = Enqueue(l, "ping", NoData)
    BY <1>4 DEF Pinged
  <2> HIDE DEF l
  <2>3. Served(l, w, u, t)
    BY <2>1 DEF Served, Good, ConnInv, PipeInv
  <2>4. NoData \in Datas
    BY DataShape
  <2>5. QED
    BY <1>4, <2>1, <2>2, <2>3, <2>4, EnqueueGood
<1>5. QED
  BY <1>2, <1>3, <1>4
-----------------------------------------------------------------------------
\* What the invariant says of one connection, in the form the lemmas above take.
LEMMA EachServed ==
  ASSUME LiveInv
  PROVE  /\ TypeOK /\ now \in Time /\ lastPing \in Time /\ faults \in 0 .. MaxFaults
         /\ \A c \in Clients : Served(conn[c], wire[c], ui[c], now)
<1>1. TypeOK /\ now \in Time /\ lastPing \in Time /\ faults \in 0 .. MaxFaults
  BY DEF LiveInv, StoreInv, ShapeInv, TypeOK
<1>2. ASSUME NEW c \in Clients PROVE Served(conn[c], wire[c], ui[c], now)
  <2>1. Good(conn[c], wire[c], ui[c], now)
    BY DEF LiveInv, StreamInv
  <2>2. wire[c] \in Seq(Frames) /\ ui[c] \in Tabs
    BY DEF LiveInv, ShapeInv
  <2>3. ui[c].status = "live" => ui[c].at <= now
    BY DEF LiveInv, TabsInv, TabInv
  <2>4. QED
    BY <2>1, <2>2, <2>3 DEF Served
<1>3. QED
  BY <1>1, <1>2

\* What is served stays so as time goes by.
LEMMA TimePasses ==
  ASSUME NEW k, NEW w \in Seq(Frames), NEW u \in Tabs, NEW t \in Time, NEW s \in Time, t <= s
  PROVE  /\ Good(k, w, u, t) => Good(k, w, u, s)
         /\ TabInv(k, w, u, t) => TabInv(k, w, u, s)
<1>1. ASSUME Good(k, w, u, t) PROVE Good(k, w, u, s)
  <2> DEFINE p == w \o k.queue
  <2>1. PipeInv(p, k, u, t) /\ ConnInv(k)
    BY <1>1 DEF Good
  <2>2. p \in Seq(Frames)
    BY <2>1 DEF ConnInv, Conns
  <2> HIDE DEF p
  <2>3. \A i \in 1 .. Len(p) : p[i] \in Frames
    BY <2>2
  <2>4. \A i \in 1 .. Len(p) : IsData(p[i]) => p[i].data.at <= s
    <3>1. \A f \in Frames : f.data.at \in Nat
      BY DEF Frames, Time
    <3>2. t \in Nat /\ s \in Nat
      BY DEF Time
    <3>3. \A i \in 1 .. Len(p) : IsData(p[i]) => p[i].data.at <= t
      BY <2>1 DEF PipeInv
    <3>4. QED
      BY <2>3, <3>1, <3>2, <3>3
  <2>5. PipeInv(p, k, u, s)
    BY <2>1, <2>4 DEF PipeInv
  <2>6. QED
    BY <2>1, <2>5 DEF Good, p
<1>2. ASSUME TabInv(k, w, u, t) PROVE TabInv(k, w, u, s)
  <2>1. u.at \in Nat /\ t \in Nat /\ s \in Nat
    BY DEF Tabs, Time
  <2>2. u.status = "live" => u.at <= s
    BY <1>2, <2>1 DEF TabInv
  <2>3. QED
    BY <1>2, <2>2 DEF TabInv
<1>3. QED
  BY <1>1, <1>2

\* Connections handed to the rest of a tick: each is good, and none was made or forgotten.
GoodConns(cs) ==
  /\ DOMAIN cs = Clients
  /\ \A c \in Clients : /\ Good(cs[c], wire[c], ui[c], now)
                        /\ cs[c].state = "none" <=> conn[c].state = "none"

\* Sending one frame to every client (_deliver_all).
LEMMA DeliverAllGood ==
  ASSUME LiveInv, NEW type \in {"snapshot", "delta", "activity_batch"}, NEW data \in Datas,
         type \in {"snapshot", "delta"} => data.at = now
  PROVE  GoodConns(DeliverAll(type, data))
<1>1. ASSUME NEW c \in Clients
      PROVE  LET k == DeliverAll(type, data)[c]
             IN  Good(k, wire[c], ui[c], now) /\ (k.state = "none" <=> conn[c].state = "none")
  <2>1. TypeOK /\ now \in Time /\ Served(conn[c], wire[c], ui[c], now)
    BY EachServed
  <2>2. CASE c \in Registered
    <3>1. conn[c].state = "served" /\ DeliverAll(type, data)[c] = Enqueue(conn[c], type, data)
      BY <2>2 DEF Registered, DeliverAll
    <3>2. QED
      BY <2>1, <3>1, EnqueueGood
  <2>3. CASE c \notin Registered
    <3>1. DeliverAll(type, data)[c] = conn[c]
      BY <2>3 DEF DeliverAll
    <3>2. QED
      BY <2>1, <3>1 DEF Served
  <2>4. QED
    BY <2>2, <2>3
<1>2. DOMAIN DeliverAll(type, data) = Clients
  BY DEF DeliverAll
<1>3. QED
  BY <1>1, <1>2 DEF GoodConns

\* The end of a tick (_maybe_ping).
LEMMA MaybePingGood ==
  ASSUME LiveInv, NEW cs, GoodConns(cs), MaybePing(cs)
  PROVE  /\ DOMAIN conn' = Clients /\ lastPing' \in {lastPing, now}
         /\ \A c \in Clients : /\ Good(conn'[c], wire[c], ui[c], now)
                               /\ conn'[c].state = "none" <=> conn[c].state = "none"
<1>1. CASE now - lastPing < PingEvery
  BY <1>1 DEF MaybePing, GoodConns
<1>2. CASE ~(now - lastPing < PingEvery)
  <2>1. conn' = [c \in Clients |-> Pinged(cs[c])] /\ lastPing' = now
    BY <1>2 DEF MaybePing
  <2>2. ASSUME NEW c \in Clients
        PROVE  Good(conn'[c], wire[c], ui[c], now) /\ (conn'[c].state = "none" <=> conn[c].state = "none")
    <3>1. TypeOK /\ now \in Time /\ Served(conn[c], wire[c], ui[c], now)
      BY EachServed
    <3>2. Served(cs[c], wire[c], ui[c], now)
      BY <3>1 DEF Served, GoodConns
    <3>3. conn'[c] = Pinged(cs[c])
      BY <2>1
    <3>4. QED
      BY <3>1, <3>2, <3>3, PingedGood DEF GoodConns
  <2>3. QED
    BY <2>1, <2>2
<1>3. QED
  BY <1>1, <1>2

\* A step that moves only the server's ends of the connections keeps what the pipes and the tabs promise.
LEMMA ServerEnds ==
  ASSUME LiveInv, UNCHANGED <<now, wire, ui>>, DOMAIN conn' = Clients,
         \A c \in Clients : /\ Good(conn'[c], wire[c], ui[c], now)
                            /\ conn'[c].state = "none" <=> conn[c].state = "none"
  PROVE  (StreamInv /\ TabsInv)'
<1>1. StreamInv'
  BY DEF StreamInv
<1>2. TabsInv'
  BY DEF LiveInv, TabsInv, TabInv
<1>3. QED
  BY <1>1, <1>2

\* A step of one connection and its tab keeps what the others promise.
LEMMA OneEnd ==
  ASSUME LiveInv, now' = now, NEW c \in Clients,
         \A d \in Clients : d # c => conn'[d] = conn[d] /\ wire'[d] = wire[d] /\ ui'[d] = ui[d],
         Good(conn'[c], wire'[c], ui'[c], now), TabInv(conn'[c], wire'[c], ui'[c], now)
  PROVE  (StreamInv /\ TabsInv)'
<1>1. ASSUME NEW d \in Clients
      PROVE  Good(conn'[d], wire'[d], ui'[d], now') /\ TabInv(conn'[d], wire'[d], ui'[d], now')
  <2>1. CASE d = c
    BY <2>1
  <2>2. CASE d # c
    <3>1. Good(conn[d], wire[d], ui[d], now) /\ TabInv(conn[d], wire[d], ui[d], now)
      BY DEF LiveInv, StreamInv, TabsInv
    <3>2. conn'[d] = conn[d] /\ wire'[d] = wire[d] /\ ui'[d] = ui[d]
      BY <2>2, Zenon
    <3>3. QED
      BY <3>1, <3>2, Zenon
  <2>3. QED
    BY <2>1, <2>2
<1>2. QED
  BY <1>1 DEF StreamInv, TabsInv
-----------------------------------------------------------------------------
\* What the protocol does to the store below it: a drain, or a new empty one.
LEMMA StoreKept ==
  ASSUME LiveInv, [LiveNext]_vars
  PROVE  StoreInv' /\ now \in Time /\ now' \in Time /\ now <= now'
<1> USE DEF StoreInv
<1>0. TypeOK /\ SweepInv /\ now \in Time
  BY DEF LiveInv, TypeOK
<1>1. CASE StoreStep \/ UNCHANGED storeVars
  <2>1. [Next]_storeVars
    BY <1>1 DEF Next
  <2>2. TypeOK' /\ SweepInv'
    BY <1>0, <2>1, TypeStep, SweepStep
  <2>3. now <= now'
    BY <1>0, <1>1 DEF Time, StoreStep, Tick, SweepBegin, SweepEmpty, Transmit, ApplyUpdate,
                      SweepExpire, SweepMarkStale, SweepSkip, SweepRemove, storeVars
  <2>4. QED
    BY <1>0, <2>2, <2>3 DEF TypeOK
<1>2. CASE Broadcast
  <2>1. /\ sub' = [sub EXCEPT ![Socket] = Acknowledged(Drained(sub[Socket]))]
        /\ UNCHANGED <<now, heard, aircraft, todo, removed, lastSweep, gone>>
    BY <1>2 DEF Broadcast
  <2>2. sub \in [Consumers -> Subscriptions]
    BY <1>0 DEF TypeOK, Subscriptions
  <2>3. sub' \in [Consumers -> Subscriptions]
    BY <2>1, <2>2, TakeType
  <2>4. TypeOK'
    BY <1>0, <2>1, <2>3 DEF TypeOK, Subscriptions
  <2>5. SweepInv'
    BY <1>0, <2>1 DEF SweepInv, Known, Age
  <2>6. QED
    BY <1>0, <2>1, <2>4, <2>5 DEF Time
<1>3. CASE Restart
  <2>1. /\ aircraft' = [a \in Aircraft |-> NoRecord] /\ sub' = [c \in Consumers |-> NewSubscription]
        /\ lastSweep' = now /\ gone' = [a \in Aircraft |-> -1]
        /\ todo = {} /\ removed = {}
        /\ UNCHANGED <<now, heard, todo, removed>>
    BY <1>3 DEF Restart, Idle
  <2>2. NewSubscription \in Subscriptions
    <3>1. <<>> \in Seq(Events)
      OBVIOUS
    <3>2. QED
      BY <3>1 DEF NewSubscription, Subscriptions
  <2>3. sub' \in [Consumers -> Subscriptions]
    BY <2>1, <2>2
  <2>4. TypeOK'
    BY <1>0, <2>1, <2>3 DEF TypeOK, Subscriptions
  <2>5. Known' = {} /\ \A a \in Aircraft : gone'[a] = -1
    BY <2>1 DEF Known
  <2>6. SweepInv'
    BY <1>0, <2>1, <2>5, StoreAssumption DEF SweepInv, Time
  <2>7. QED
    BY <1>0, <2>1, <2>4, <2>6 DEF Time
<1>4. QED
  BY <1>1, <1>2, <1>3
     DEF LiveNext, ServerStep, Resync, PublishActivity, Write, ClientStep, Accept, Connect, Receive, ReceiveLast,
         PongLost, Drop, Lose, Retry, AskRest, AnswerRest, ApplyRest, RestFails, vars, storeVars, serverVars
-----------------------------------------------------------------------------
\* A step of the server keeps the connections, their pipes and their tabs in order.
LEMMA ServerKeeps ==
  ASSUME LiveInv, ServerStep, UNCHANGED clientVars
  PROVE  (ShapeInv /\ StreamInv /\ TabsInv)'
<1>0. /\ ShapeInv /\ StreamInv /\ TabsInv /\ TypeOK /\ now \in Time /\ lastPing \in Time /\ faults \in 0 .. MaxFaults
      /\ \A c \in Clients : Served(conn[c], wire[c], ui[c], now)
      /\ UNCHANGED <<ui, poll>>
      /\ MaxFaults \in Nat
  BY EachServed, BroadcasterAssumption DEF LiveInv, clientVars
<1>a. GoodConns(conn)
  BY <1>0 DEF GoodConns, StreamInv, ShapeInv
<1>1. CASE StoreStep /\ UNCHANGED serverVars
  <2>1. UNCHANGED <<task, conn, wire, lastPing, faults, ui, poll>>
    BY <1>0, <1>1 DEF serverVars
  <2>2. now' \in Time /\ now <= now'
    BY <1>1, StoreKept DEF LiveNext, ServerStep
  <2>3. ASSUME NEW c \in Clients
        PROVE  Good(conn[c], wire[c], ui[c], now') /\ TabInv(conn[c], wire[c], ui[c], now')
    <3>1. Good(conn[c], wire[c], ui[c], now) /\ TabInv(conn[c], wire[c], ui[c], now)
      BY <1>0 DEF StreamInv, TabsInv
    <3>2. wire[c] \in Seq(Frames) /\ ui[c] \in Tabs
      BY <1>0 DEF Served
    <3>3. QED
      BY <1>0, <2>2, <3>1, <3>2, TimePasses
  <2>4. StreamInv' /\ TabsInv'
    BY <2>1, <2>3 DEF StreamInv, TabsInv
  <2>5. ShapeInv'
    BY <1>0, <2>1 DEF ShapeInv
  <2>6. QED
    BY <2>4, <2>5
<1>2. CASE Broadcast
  <2>1. faults' \in 0 .. MaxFaults
    BY <1>0, <1>2 DEF Broadcast, SlowClientsCount
  <2>2. UNCHANGED <<now, wire, ui, poll>>
    BY <1>0, <1>2 DEF Broadcast
  <2>3. CASE Registered # {} /\ sub[Socket].overflowed
    <3>1. task' = "resync" /\ UNCHANGED <<conn, lastPing>>
      BY <1>2, <2>3 DEF Broadcast
    <3>2. ShapeInv'
      BY <1>0, <2>1, <2>2, <3>1 DEF ShapeInv
    <3>3. StreamInv' /\ TabsInv'
      BY <1>0, <2>2, <3>1 DEF StreamInv, TabsInv
    <3>4. QED
      BY <3>2, <3>3
  <2>4. CASE ~(Registered # {} /\ sub[Socket].overflowed)
    <3> DEFINE d == Delta(sub[Socket].queue)
               cs == IF Empty(d) THEN conn ELSE DeliverAll("delta", d)
    <3>1. MaybePing(cs) /\ UNCHANGED task
      BY <1>2, <2>4 DEF Broadcast
    <3>2. d \in Datas /\ d.at = now
      BY <1>0, DataShape
    <3> HIDE DEF d
    <3>3. GoodConns(DeliverAll("delta", d))
      BY <3>2, DeliverAllGood
    <3>4. GoodConns(cs)
      BY <1>a, <3>3
    <3> HIDE DEF cs
    <3>5. /\ DOMAIN conn' = Clients /\ lastPing' \in {lastPing, now}
          /\ \A c \in Clients : /\ Good(conn'[c], wire[c], ui[c], now)
                                /\ conn'[c].state = "none" <=> conn[c].state = "none"
      BY <3>1, <3>4, MaybePingGood
    <3>6. ShapeInv'
      BY <1>0, <2>1, <2>2, <3>1, <3>5 DEF ShapeInv
    <3>7. (StreamInv /\ TabsInv)'
      BY <2>2, <3>5, ServerEnds
    <3>8. QED
      BY <3>6, <3>7
  <2>5. QED
    BY <2>3, <2>4
<1>3. CASE Resync
  <2>1. task' = "asleep" /\ MaybePing(DeliverAll("snapshot", Snapshot)) /\ UNCHANGED <<now, wire, faults, ui, poll>>
    BY <1>0, <1>3 DEF Resync, storeVars
  <2>2. Snapshot \in Datas /\ Snapshot.at = now
    BY <1>0, DataShape
  <2>3. GoodConns(DeliverAll("snapshot", Snapshot))
    BY <2>2, DeliverAllGood
  <2>4. /\ DOMAIN conn' = Clients /\ lastPing' \in {lastPing, now}
        /\ \A c \in Clients : /\ Good(conn'[c], wire[c], ui[c], now)
                              /\ conn'[c].state = "none" <=> conn[c].state = "none"
    BY <2>1, <2>3, MaybePingGood
  <2>5. ShapeInv'
    BY <1>0, <2>1, <2>4 DEF ShapeInv
  <2>6. QED
    BY <2>1, <2>4, <2>5, ServerEnds
<1>4. CASE PublishActivity
  <2>1. /\ conn' = DeliverAll("activity_batch", NoData) /\ UNCHANGED <<now, task, wire, lastPing, ui, poll>>
        /\ faults' \in 0 .. MaxFaults
    BY <1>0, <1>4 DEF PublishActivity, SlowClientsCount, storeVars
  <2>2. NoData \in Datas
    BY <1>0, DataShape
  <2>3. GoodConns(DeliverAll("activity_batch", NoData))
    BY <2>2, DeliverAllGood
  <2>4. /\ DOMAIN conn' = Clients
        /\ \A c \in Clients : /\ Good(conn'[c], wire[c], ui[c], now)
                              /\ conn'[c].state = "none" <=> conn[c].state = "none"
    BY <2>1, <2>3 DEF GoodConns
  <2>5. ShapeInv'
    BY <1>0, <2>1, <2>4 DEF ShapeInv
  <2>6. QED
    BY <2>1, <2>4, <2>5, ServerEnds
<1>5. CASE Restart
  <2>1. /\ conn' = [c \in Clients |-> IF conn[c].state = "served" THEN Terminated(conn[c]) ELSE conn[c]]
        /\ task' = "asleep" /\ lastPing' = now /\ faults' \in 0 .. MaxFaults
        /\ UNCHANGED <<now, wire, ui, poll>>
    BY <1>0, <1>5 DEF Restart
  <2>2. ASSUME NEW c \in Clients
        PROVE  Good(conn'[c], wire[c], ui[c], now) /\ (conn'[c].state = "none" <=> conn[c].state = "none")
    <3>1. CASE conn[c].state = "served"
      <4>1. conn'[c] = Terminated(conn[c])
        BY <2>1, <3>1
      <4>2. QED
        BY <1>0, <3>1, <4>1, TerminatedGood
    <3>2. CASE conn[c].state # "served"
      <4>1. conn'[c] = conn[c]
        BY <2>1, <3>2
      <4>2. QED
        BY <1>0, <4>1 DEF Served
    <3>3. QED
      BY <3>1, <3>2
  <2>3. ShapeInv'
    BY <1>0, <2>1 DEF ShapeInv
  <2>4. QED
    BY <2>1, <2>2, <2>3, ServerEnds
<1>6. ASSUME NEW c \in Clients, Write(c)
      PROVE  (ShapeInv /\ StreamInv /\ TabsInv)'
  <2> DEFINE k == conn[c]
             f == Head(k.queue)
             w == Append(wire[c], f)
             l == IF f = Closing THEN NoConnection ELSE [k EXCEPT !.queue = Tail(k.queue)]
  <2>1. /\ k.queue # <<>> /\ Len(wire[c]) < WireSize /\ wire' = [wire EXCEPT ![c] = w]
        /\ conn' = [conn EXCEPT ![c] = l] /\ UNCHANGED <<now, task, lastPing, faults, ui, poll>>
    <3>1. /\ k.queue # <<>> /\ Len(wire[c]) < WireSize /\ wire' = [wire EXCEPT ![c] = w]
          /\ UNCHANGED <<now, task, lastPing, faults, ui, poll>>
      BY <1>0, <1>6 DEF Write, storeVars
    <3>2. CASE f = Closing
      <4>1. conn' = [conn EXCEPT ![c] = NoConnection]
        BY <1>6, <3>2 DEF Write
      <4>2. QED
        BY <3>1, <3>2, <4>1
    <3>3. CASE f # Closing
      <4>1. conn' = [conn EXCEPT ![c] = [k EXCEPT !.queue = Tail(k.queue)]]
        BY <1>6, <3>3 DEF Write
      <4>2. QED
        BY <3>1, <3>3, <4>1
    <3>4. QED
      BY <3>2, <3>3
  <2>2. /\ k \in Conns /\ ConnInv(k) /\ k.queue \in Seq(Frames) /\ wire[c] \in Seq(Frames) /\ ui[c] \in Tabs
        /\ PipeInv(wire[c] \o k.queue, k, ui[c], now) /\ TabInv(k, wire[c], ui[c], now)
    BY <1>0 DEF Served, Good, ConnInv, Conns, TabsInv
  <2>3. f \in Frames /\ w \in Seq(Frames) /\ Len(w) = Len(wire[c]) + 1 /\ Tail(k.queue) \in Seq(Frames)
    BY <2>1, <2>2
  <2>4. ShapeInv'
    <3>1. Len(w) <= WireSize
      BY <2>1, <2>2, <2>3, BroadcasterAssumption
    <3> HIDE DEF w, l
    <3>2. QED
      BY <1>0, <2>1, <2>3, <3>1 DEF ShapeInv
  <2>5. k.state # "none" /\ ui[c].socket = "open"
    BY <2>1, <2>2 DEF ConnInv, TabInv
  <2>6. Good(l, w, ui[c], now)
    <3>1. CASE f = Closing
      <4>1. l = NoConnection /\ l.state = "none" /\ l.queue = <<>>
        BY <3>1 DEF NoConnection
      <4>2. ConnInv(l)
        <5>1. l \in Conns
          BY <4>1, NoConnectionShape
        <5>2. Len(l.queue) <= ClientQueue
          BY <4>1, BroadcasterAssumption
        <5> HIDE DEF l
        <5>3. QED
          BY <4>1, <5>1, <5>2 DEF ConnInv
      <4>3. PipeInv(w \o l.queue, l, ui[c], now)
        <5> DEFINE p == wire[c] \o k.queue
                   r == w \o <<>>
        <5>1. /\ p \in Seq(Frames) /\ r \in Seq(Frames) /\ Len(r) = Len(wire[c]) + 1 /\ r[Len(wire[c]) + 1] = f
              /\ Len(wire[c]) \in Nat /\ Len(wire[c]) <= Len(p) /\ Len(p) \in Nat
              /\ \A i \in 1 .. Len(wire[c]) : r[i] = p[i]
          <6> DEFINE x == wire[c]
                     q == k.queue
          <6> HIDE DEF x, q, f
          <6>1. x \in Seq(Frames) /\ q \in Seq(Frames) /\ f \in Frames /\ p = x \o q /\ r = Append(x, f) \o <<>>
            BY <2>2, <2>3 DEF x, q
          <6> HIDE DEF p, r
          <6>2. QED
            BY <6>1, PipeClose DEF x
        <5>2. ~IsData(f)
          BY <1>0, <3>1, ClosingShape
        <5>3. PipeInv(p, k, ui[c], now)
          BY <2>2
        <5> HIDE DEF p, r, f, w, k, l
        <5>4. \A i \in 1 .. Len(r) : IsData(r[i]) => i \in 1 .. Len(p) /\ r[i] = p[i]
          BY <5>1, <5>2
        <5>5. PipeInv(r, l, ui[c], now)
          BY <4>1, <5>1, <5>3, <5>4 DEF PipeInv
        <5>6. QED
          BY <4>1, <5>5 DEF r
      <4>4. QED
        BY <4>2, <4>3 DEF Good
    <3>2. CASE f # Closing
      <4>1. l = [k EXCEPT !.queue = Tail(k.queue)]
        BY <3>2
      <4>2. l \in Conns /\ l.state = k.state /\ l.seq = k.seq /\ l.queue = Tail(k.queue)
        BY <2>2, <2>3, <4>1 DEF Conns
      <4> HIDE DEF l
      <4>3. ConnInv(l)
        <5>1. Len(l.queue) <= ClientQueue
          BY <2>1, <2>2, <4>2, BroadcasterAssumption DEF ConnInv
        <5>2. \A i \in 1 .. Len(l.queue) : i + 1 \in 1 .. Len(k.queue) /\ l.queue[i] = k.queue[i + 1]
          BY <2>1, <2>2, <4>2
        <5>3. QED
          BY <2>2, <2>5, <4>2, <5>1, <5>2 DEF ConnInv
      <4>4. w \o l.queue = wire[c] \o k.queue
        BY <2>1, <2>2, <4>2, PipeWrite
      <4>5. PipeInv(w \o l.queue, l, ui[c], now)
        BY <2>2, <4>2, <4>4 DEF PipeInv
      <4>6. QED
        BY <4>3, <4>5 DEF Good
    <3>3. QED
      BY <3>1, <3>2
  <2>7. TabInv(l, w, ui[c], now)
    BY <2>2, <2>5 DEF TabInv
  <2>8. /\ now' = now /\ conn'[c] = l /\ wire'[c] = w /\ ui'[c] = ui[c]
        /\ \A d \in Clients : d # c => conn'[d] = conn[d] /\ wire'[d] = wire[d] /\ ui'[d] = ui[d]
    <3> HIDE DEF l, w
    <3>1. QED
      BY <1>0, <2>1 DEF ShapeInv
  <2> HIDE DEF l, w
  <2>9. (StreamInv /\ TabsInv)'
    BY <2>6, <2>7, <2>8, OneEnd
  <2>10. QED
    BY <2>4, <2>9
<1>7. QED
  BY <1>1, <1>2, <1>3, <1>4, <1>5, <1>6 DEF ServerStep
-----------------------------------------------------------------------------
\* What a tab shows after a frame is a picture (applySnapshot, applyDelta).
LEMMA ApplyShape ==
  ASSUME NEW picture \in [Aircraft -> Objects], NEW f \in Frames
  PROVE  Apply(picture, f) \in [Aircraft -> Objects]
<1>1. f.data.updated \in [Aircraft -> Objects]
  BY DEF Frames
<1>2. ASSUME NEW a \in Aircraft PROVE ApplyDelta(picture, f.data)[a] \in Objects
  <2>1. CASE picture[a] = NoRecord
    BY <1>1, <2>1 DEF ApplyDelta, Objects
  <2>2. CASE picture[a] # NoRecord
    <3>1. picture[a] \in Records
      BY <2>2 DEF Objects
    <3>2. [picture[a] EXCEPT !.state = "stale"] \in Records
      BY <3>1 DEF Records, LiveState
    <3>3. QED
      BY <1>1, <3>1, <3>2 DEF ApplyDelta, Objects
  <2>3. QED
    BY <2>1, <2>2
<1>3. ApplyDelta(picture, f.data) \in [Aircraft -> Objects]
  BY <1>2 DEF ApplyDelta
<1>4. QED
  BY <1>1, <1>3 DEF Apply

\* What accepting a frame does to a tab (handleMessage, applySnapshot, applyDelta).
LEMMA AcceptedDoes ==
  ASSUME NEW u \in Tabs, NEW f \in Frames
  PROVE  LET v == Accepted(u, f)
         IN  /\ v \in Tabs /\ v.socket = u.socket /\ v.retry = u.retry /\ v.lastSeq = f.seq
             /\ IF f.type = "snapshot" THEN v.status = "live" /\ v.polling = FALSE
                                       ELSE v.status = u.status /\ v.polling = u.polling
             /\ IF IsData(f) THEN v.at = f.data.at /\ v.stale = FALSE
                             ELSE v.at = u.at /\ v.stale = u.stale
<1> DEFINE pic == Apply(u.aircraft, f)
           v   == Accepted(u, f)
<1>1. f.seq \in NoSeq .. SeqModulus /\ f.data.at \in Time
  BY BroadcasterAssumption DEF Frames, NoSeq
<1>2. pic \in [Aircraft -> Objects]
  BY ApplyShape DEF Tabs
<1>3. CASE f.type = "snapshot"
  <2>1. v = [u EXCEPT !.lastSeq = f.seq, !.aircraft = pic, !.stale = FALSE, !.at = f.data.at,
                      !.status = "live", !.polling = FALSE]
    BY <1>3 DEF Accepted, Tabs
  <2> HIDE DEF v, pic
  <2>2. v \in Tabs /\ v.socket = u.socket /\ v.retry = u.retry /\ v.lastSeq = f.seq
        /\ v.status = "live" /\ v.polling = FALSE /\ v.at = f.data.at /\ v.stale = FALSE
    BY <1>1, <1>2, <2>1 DEF Tabs
  <2>3. QED
    BY <1>3, <2>2 DEF v, IsData
<1>4. CASE f.type = "delta"
  <2>1. v = [u EXCEPT !.lastSeq = f.seq, !.aircraft = pic, !.stale = FALSE, !.at = f.data.at]
    BY <1>4 DEF Accepted
  <2> HIDE DEF v, pic
  <2>2. v \in Tabs /\ v.socket = u.socket /\ v.retry = u.retry /\ v.lastSeq = f.seq
        /\ v.status = u.status /\ v.polling = u.polling /\ v.at = f.data.at /\ v.stale = FALSE
    BY <1>1, <1>2, <2>1 DEF Tabs
  <2>3. QED
    BY <1>4, <2>2 DEF v, IsData
<1>5. CASE f.type \notin {"snapshot", "delta"}
  <2>1. v = [u EXCEPT !.lastSeq = f.seq]
    BY <1>5 DEF Accepted
  <2> HIDE DEF v
  <2>2. v \in Tabs /\ v.socket = u.socket /\ v.retry = u.retry /\ v.lastSeq = f.seq
        /\ v.status = u.status /\ v.polling = u.polling /\ v.at = u.at /\ v.stale = u.stale
    BY <1>1, <2>1 DEF Tabs
  <2>3. QED
    BY <1>5, <2>2 DEF v, IsData
<1>6. QED
  BY <1>3, <1>4, <1>5

\* What losing its socket does to a tab (handleDisconnect, onStatus).
LEMMA DisconnectedDoes ==
  ASSUME NEW u \in Tabs
  PROVE  LET v == Disconnected(u)
         IN  v \in Tabs /\ v.socket = "none" /\ v.retry /\ v.polling /\ v.status # "live"
<1> DEFINE v == Disconnected(u)
<1>1. v = [u EXCEPT !.socket = "none", !.retry = TRUE, !.stale = TRUE, !.polling = TRUE,
                    !.status = IF u.status = "connecting" THEN u.status ELSE "reconnecting"]
  BY DEF Disconnected
<1> HIDE DEF v
<1>2. v \in Tabs /\ v.socket = "none" /\ v.retry = TRUE /\ v.polling = TRUE /\ v.status # "live"
  BY <1>1 DEF Tabs
<1>3. QED
  BY <1>2 DEF v

\* A connection nobody holds promises nothing but its bounds.
LEMMA NobodyGood ==
  ASSUME TypeOK, NEW u \in Tabs, NEW t \in Time
  PROVE  Good(NoConnection, <<>>, u, t)
<1>1. NoConnection \in Conns /\ NoConnection.queue = <<>> /\ NoConnection.state = "none"
  BY NoConnectionShape
<1>2. ConnInv(NoConnection)
  BY <1>1, BroadcasterAssumption DEF ConnInv
<1>3. <<>> \o <<>> = <<>> /\ Len(<<>>) = 0
  OBVIOUS
<1>4. PipeInv(<<>>, NoConnection, u, t)
  BY <1>1, <1>3 DEF PipeInv
<1>5. QED
  BY <1>1, <1>2, <1>3, <1>4 DEF Good

\* Losing the socket forgets the connection and leaves a tab that retries and polls.
LEMMA DisconnectKeeps ==
  ASSUME LiveInv, NEW c \in Clients, Disconnect(c), UNCHANGED <<now, task, lastPing>>, faults' \in 0 .. MaxFaults
  PROVE  (ShapeInv /\ StreamInv /\ TabsInv)' /\ ui'[c].status # "live"
<1>0. ShapeInv /\ TypeOK /\ now \in Time /\ ui[c] \in Tabs /\ poll \in [Clients -> Polls]
  BY EachServed DEF LiveInv, ShapeInv
<1> DEFINE v == Disconnected(ui[c])
           q == Asked(c)
<1>1. v \in Tabs /\ v.socket = "none" /\ v.retry /\ v.polling /\ v.status # "live"
  BY <1>0, DisconnectedDoes
<1>2. q \in Polls
  <2>1. [NoPoll EXCEPT !.state = "asked"] \in Polls
    BY <1>0, DataShape, StoreAssumption DEF NoPoll, Polls, Time
  <2>2. QED
    BY <1>0, <2>1 DEF Asked
<1>3. /\ ui' = [ui EXCEPT ![c] = v] /\ poll' = [poll EXCEPT ![c] = q]
      /\ conn' = [conn EXCEPT ![c] = NoConnection] /\ wire' = [wire EXCEPT ![c] = <<>>]
  BY DEF Disconnect
<1> HIDE DEF v, q
<1>4. Good(NoConnection, <<>>, v, now)
  BY <1>0, <1>1, NobodyGood
<1>5. TabInv(NoConnection, <<>>, v, now)
  BY <1>1 DEF TabInv, NoConnection
<1>6. /\ conn'[c] = NoConnection /\ wire'[c] = <<>> /\ ui'[c] = v
      /\ \A d \in Clients : d # c => conn'[d] = conn[d] /\ wire'[d] = wire[d] /\ ui'[d] = ui[d]
  BY <1>0, <1>3 DEF ShapeInv
<1>7. (StreamInv /\ TabsInv)'
  BY <1>4, <1>5, <1>6, OneEnd
<1>8. ShapeInv'
  <2>1. <<>> \in Seq(Frames) /\ Len(<<>>) <= WireSize
    BY BroadcasterAssumption
  <2>2. QED
    BY <1>0, <1>1, <1>2, <1>3, <2>1 DEF ShapeInv
<1>9. QED
  BY <1>1, <1>6, <1>7, <1>8

\* A frame off the wire, whether the tab v got it or not, leaves what follows it in order.
LEMMA TakesFrame ==
  ASSUME LiveInv, NEW c \in Clients, wire[c] # <<>>, NEW v \in Tabs, NEW l \in Conns,
         l.state = conn[c].state, l.queue = conn[c].queue, l.seq = conn[c].seq,
         v.socket = ui[c].socket, v.retry = ui[c].retry,
         LET f == Head(wire[c])
         IN  /\ v.status = "live" => \/ ui[c].status = "live" /\ v.at = ui[c].at
                                     \/ IsData(f) /\ v.at = f.data.at
             /\ (v.status = "live") # v.polling
             /\ v.status = "live" => ~v.stale,
         UNCHANGED <<now, task, lastPing, poll>>, faults' \in 0 .. MaxFaults,
         ui' = [ui EXCEPT ![c] = v], wire' = [wire EXCEPT ![c] = Tail(wire[c])],
         DOMAIN conn' = Clients, conn'[c] = l, \A d \in Clients : d # c => conn'[d] = conn[d]
  PROVE  (ShapeInv /\ StreamInv /\ TabsInv)'
<1> DEFINE w == wire[c]
           k == conn[c]
           u == ui[c]
           p == w \o k.queue
           r == Tail(w) \o l.queue
<1>0. /\ ShapeInv /\ now \in Time /\ w \in Seq(Frames) /\ u \in Tabs /\ k.queue \in Seq(Frames)
      /\ ConnInv(k) /\ PipeInv(p, k, u, now) /\ TabInv(k, w, u, now) /\ Len(w) <= WireSize
  BY EachServed DEF LiveInv, ShapeInv, StreamInv, TabsInv, Good, ConnInv, Conns
<1>1. /\ p \in Seq(Frames) /\ r \in Seq(Frames) /\ Len(p) > 0 /\ Len(r) = Len(p) - 1 /\ Head(w) = p[1]
      /\ Tail(w) \in Seq(Frames) /\ \A i \in 1 .. Len(r) : r[i] = p[i + 1]
  <2> DEFINE q == k.queue
  <2> HIDE DEF w, q
  <2>1. w \in Seq(Frames) /\ q \in Seq(Frames) /\ w # <<>> /\ p = w \o q /\ r = Tail(w) \o q
    BY <1>0 DEF w, q
  <2> HIDE DEF p, r
  <2>2. QED
    BY <2>1, PipeReceive
<1>2. Len(Tail(w)) <= WireSize
  BY <1>0, <1>1, BroadcasterAssumption
<1>3. ConnInv(l)
  BY <1>0 DEF ConnInv
<1>4. PipeInv(r, l, v, now)
  <2>1. v.status = "live" => \/ u.status = "live" /\ v.at = u.at
                             \/ IsData(p[1]) /\ v.at = p[1].data.at
    BY <1>1
  <2> HIDE DEF p, r, k, u
  <2>2. l.state = "served" => k.state = "served" /\ l.seq = k.seq
    BY DEF k
  <2>3. QED
    BY <1>0, <1>1, <2>1, <2>2, PipeShrinks
<1>5. Good(l, Tail(w), v, now)
  BY <1>3, <1>4 DEF Good
<1>6. v.status = "live" => v.at <= now
  <2>1. u.status = "live" => u.at <= now
    BY <1>0 DEF TabInv
  <2>2. IsData(p[1]) => p[1].data.at <= now
    <3> HIDE DEF p
    <3>1. 1 \in 1 .. Len(p)
      BY <1>1
    <3>2. QED
      BY <1>0, <3>1 DEF PipeInv
  <2>3. QED
    BY <1>1, <2>1, <2>2
<1>7. TabInv(l, Tail(w), v, now)
  <2>1. u.socket = "open"
    BY <1>0 DEF TabInv
  <2>2. QED
    BY <1>0, <1>6, <2>1 DEF TabInv
<1>8. /\ now' = now /\ conn'[c] = l /\ wire'[c] = Tail(w) /\ ui'[c] = v
      /\ \A d \in Clients : d # c => conn'[d] = conn[d] /\ wire'[d] = wire[d] /\ ui'[d] = ui[d]
  BY <1>0 DEF ShapeInv
<1>9. (StreamInv /\ TabsInv)'
  BY <1>5, <1>7, <1>8, OneEnd
<1>10. ShapeInv'
  <2> HIDE DEF r, p
  <2>1. QED
    BY <1>0, <1>1, <1>2 DEF ShapeInv
<1>11. QED
  BY <1>9, <1>10

\* A step of the tab keeps the connections, their pipes and their tabs in order.
LEMMA ClientKeeps ==
  ASSUME LiveInv, NEW c \in Clients, ClientStep(c)
  PROVE  (ShapeInv /\ StreamInv /\ TabsInv)'
<1> DEFINE u == ui[c]
           k == conn[c]
           w == wire[c]
           f == Head(wire[c])
<1>0. /\ ShapeInv /\ StreamInv /\ TabsInv /\ TypeOK /\ now \in Time /\ faults \in 0 .. MaxFaults /\ MaxFaults \in Nat
      /\ Served(k, w, u, now) /\ k \in Conns /\ w \in Seq(Frames) /\ u \in Tabs /\ poll[c] \in Polls
      /\ Good(k, w, u, now) /\ TabInv(k, w, u, now)
  BY EachServed, BroadcasterAssumption DEF LiveInv, ShapeInv, StreamInv, TabsInv, Good, ConnInv
<1>1. CASE Accept(c)
  <2> DEFINE k0 == [NoConnection EXCEPT !.state = "served"]
             l  == Enqueue(k0, "snapshot", Snapshot)
  <2>1. /\ u.socket = "open" /\ w = <<>> /\ k = NoConnection /\ conn' = [conn EXCEPT ![c] = l]
        /\ UNCHANGED <<now, task, wire, lastPing, faults, ui, poll>>
    BY <1>1 DEF Accept, Connect, storeVars, clientVars
  <2>2. k0 \in Conns /\ k0.state = "served" /\ k0.queue = <<>>
    BY NoConnectionShape DEF Conns
  <2> HIDE DEF k0
  <2>3. Served(k0, <<>>, u, now)
    <3>1. <<>> \o <<>> = <<>> /\ Len(<<>>) = 0 /\ <<>> \in Seq(Frames)
      OBVIOUS
    <3>2. ConnInv(k0)
      BY <2>2, <3>1, BroadcasterAssumption DEF ConnInv
    <3>3. PipeInv(<<>> \o k0.queue, k0, u, now)
      BY <2>2, <3>1 DEF PipeInv
    <3>4. QED
      BY <1>0, <3>1, <3>2, <3>3 DEF Served, Good
  <2>4. Good(l, <<>>, u, now)
    BY <1>0, <2>2, <2>3, DataShape, EnqueueGood
  <2> HIDE DEF l
  <2>5. TabInv(l, <<>>, u, now)
    BY <1>0, <2>1 DEF TabInv
  <2>6. /\ conn'[c] = l /\ wire'[c] = <<>> /\ ui'[c] = u
        /\ \A d \in Clients : d # c => conn'[d] = conn[d] /\ wire'[d] = wire[d] /\ ui'[d] = ui[d]
    BY <1>0, <2>1 DEF ShapeInv
  <2>7. (StreamInv /\ TabsInv)'
    BY <2>1, <2>4, <2>5, <2>6, OneEnd
  <2>8. ShapeInv'
    BY <1>0, <2>1 DEF ShapeInv
  <2>9. QED
    BY <2>7, <2>8
<1>2. ASSUME wire[c] # <<>>
      PROVE  LET v == Accepted(u, f)
             IN  /\ v \in Tabs /\ v.socket = u.socket /\ v.retry = u.retry
                 /\ v.status = "live" => (u.status = "live" /\ v.at = u.at) \/ (IsData(f) /\ v.at = f.data.at)
                 /\ (v.status = "live") # v.polling
                 /\ v.status = "live" => ~v.stale
  <2> DEFINE v == Accepted(u, f)
  <2>1. f \in Frames
    BY <1>0, <1>2
  <2>2. /\ v \in Tabs /\ v.socket = u.socket /\ v.retry = u.retry
        /\ IF f.type = "snapshot" THEN v.status = "live" /\ v.polling = FALSE
                                  ELSE v.status = u.status /\ v.polling = u.polling
        /\ IF IsData(f) THEN v.at = f.data.at /\ v.stale = FALSE
                        ELSE v.at = u.at /\ v.stale = u.stale
    BY <1>0, <2>1, AcceptedDoes
  <2>3. f.type = "snapshot" => IsData(f)
    BY DEF IsData
  <2> HIDE DEF v
  <2>4. QED
    BY <1>0, <2>2, <2>3 DEF TabInv, v
<1>3. CASE Receive(c)
  <2> DEFINE v == Accepted(u, f)
             n == IF f.type = "ping" THEN 0 ELSE k.pings
             l == [k EXCEPT !.pings = n]
  <2>1. /\ wire[c] # <<>> /\ UNCHANGED <<now, task, lastPing, faults, poll>>
        /\ ui' = [ui EXCEPT ![c] = v] /\ wire' = [wire EXCEPT ![c] = Tail(wire[c])]
        /\ conn' = [conn EXCEPT ![c] = l]
    BY <1>3 DEF Receive, storeVars
  <2>2. l \in Conns /\ l.state = k.state /\ l.queue = k.queue /\ l.seq = k.seq
    <3>1. k.pings \in 0 .. MissedPingLimit /\ 0 \in 0 .. MissedPingLimit
      BY <1>0, BroadcasterAssumption DEF Conns
    <3>2. n \in 0 .. MissedPingLimit
      BY <3>1
    <3> HIDE DEF n, k
    <3>3. QED
      BY <1>0, <3>2 DEF Conns
  <2> HIDE DEF l
  <2>3. DOMAIN conn' = Clients /\ conn'[c] = l /\ \A d \in Clients : d # c => conn'[d] = conn[d]
    BY <1>0, <2>1 DEF ShapeInv
  <2>4. QED
    BY <1>0, <1>2, <2>1, <2>2, <2>3, TakesFrame, ZenonT(60)
<1>4. CASE PongLost(c)
  <2>1. /\ wire[c] # <<>> /\ UNCHANGED <<now, task, lastPing, conn, poll>> /\ faults' \in 0 .. MaxFaults
        /\ ui' = [ui EXCEPT ![c] = Accepted(u, f)] /\ wire' = [wire EXCEPT ![c] = Tail(wire[c])]
    BY <1>0, <1>4 DEF PongLost, storeVars
  <2>2. DOMAIN conn' = Clients /\ conn'[c] = k /\ \A d \in Clients : d # c => conn'[d] = conn[d]
    BY <1>0, <2>1 DEF ShapeInv
  <2>3. QED
    BY <1>0, <1>2, <2>1, <2>2, TakesFrame
<1>5. CASE Lose(c)
  <2>1. /\ wire[c] # <<>> /\ UNCHANGED <<now, task, lastPing, conn, ui, poll>> /\ faults' \in 0 .. MaxFaults
        /\ wire' = [wire EXCEPT ![c] = Tail(wire[c])]
    BY <1>0, <1>5 DEF Lose, storeVars, clientVars
  <2>2. /\ DOMAIN conn' = Clients /\ conn'[c] = k /\ \A d \in Clients : d # c => conn'[d] = conn[d]
        /\ ui' = [ui EXCEPT ![c] = u]
    BY <1>0, <2>1 DEF ShapeInv
  <2>3. /\ (u.status = "live") # u.polling /\ (u.status = "live" => ~u.stale)
    BY <1>0 DEF TabInv
  <2>4. QED
    BY <1>0, <2>1, <2>2, <2>3, TakesFrame
<1>6. CASE ReceiveLast(c) \/ Drop(c)
  <2>1. Disconnect(c) /\ UNCHANGED <<now, task, lastPing>> /\ faults' \in 0 .. MaxFaults
    BY <1>0, <1>6 DEF ReceiveLast, Drop, storeVars
  <2>2. QED
    BY <2>1, DisconnectKeeps
<1>7. CASE Retry(c)
  <2> DEFINE v == [u EXCEPT !.retry = FALSE, !.socket = "open", !.lastSeq = NoSeq]
  <2>1. /\ u.retry /\ ui' = [ui EXCEPT ![c] = v] /\ UNCHANGED <<now, task, conn, wire, lastPing, faults, poll>>
    BY <1>7 DEF Retry, storeVars, serverVars
  <2>2. /\ v \in Tabs /\ v.socket = "open" /\ v.retry = FALSE /\ v.status = u.status /\ v.polling = u.polling
        /\ v.stale = u.stale /\ v.at = u.at
    <3>1. NoSeq \in NoSeq .. SeqModulus
      BY BroadcasterAssumption DEF NoSeq
    <3> HIDE DEF u
    <3>2. QED
      BY <1>0, <3>1 DEF Tabs
  <2> HIDE DEF v
  <2>3. Good(k, w, v, now)
    BY <1>0, <2>2 DEF Good, PipeInv
  <2>4. TabInv(k, w, v, now)
    BY <1>0, <2>1, <2>2 DEF TabInv
  <2>5. /\ conn'[c] = k /\ wire'[c] = w /\ ui'[c] = v
        /\ \A d \in Clients : d # c => conn'[d] = conn[d] /\ wire'[d] = wire[d] /\ ui'[d] = ui[d]
    BY <1>0, <2>1 DEF ShapeInv
  <2>6. (StreamInv /\ TabsInv)'
    BY <2>1, <2>3, <2>4, <2>5, OneEnd
  <2>7. ShapeInv'
    BY <1>0, <2>1, <2>2 DEF ShapeInv
  <2>8. QED
    BY <2>6, <2>7
<1>8. CASE AskRest(c) \/ AnswerRest(c) \/ RestFails(c)
  <2>1. /\ UNCHANGED <<now, task, conn, wire, lastPing, faults, ui>>
        /\ \/ poll' = [poll EXCEPT ![c].state = "asked"]
           \/ poll' = [poll EXCEPT ![c] = [state |-> "answered", at |-> now, picture |-> Picture]]
           \/ poll' = [poll EXCEPT ![c] = NoPoll]
    BY <1>8 DEF AskRest, AnswerRest, RestFails, storeVars, serverVars
  <2>2. /\ [state |-> "answered", at |-> now, picture |-> Picture] \in Polls
        /\ NoPoll \in Polls /\ [poll[c] EXCEPT !.state = "asked"] \in Polls
    BY <1>0, DataShape, StoreAssumption DEF NoPoll, Polls, Time
  <2>3. poll' \in [Clients -> Polls]
    BY <1>0, <2>1, <2>2 DEF ShapeInv
  <2>4. ShapeInv'
    BY <1>0, <2>1, <2>3 DEF ShapeInv
  <2>5. StreamInv' /\ TabsInv'
    BY <1>0, <2>1 DEF StreamInv, TabsInv
  <2>6. QED
    BY <2>4, <2>5
<1>9. CASE ApplyRest(c)
  <2> DEFINE v == IF u.status = "live" THEN u
                  ELSE [u EXCEPT !.aircraft = poll[c].picture, !.at = poll[c].at, !.stale = FALSE]
  <2>1. /\ UNCHANGED <<now, task, conn, wire, lastPing, faults>>
        /\ poll' = [poll EXCEPT ![c] = NoPoll] /\ ui' = [ui EXCEPT ![c] = v]
    <3>1. CASE u.status = "live"
      BY <1>0, <1>9, <3>1 DEF ApplyRest, storeVars, serverVars, ShapeInv
    <3>2. CASE u.status # "live"
      BY <1>9, <3>2 DEF ApplyRest, storeVars, serverVars
    <3>3. QED
      BY <3>1, <3>2
  <2>2. /\ v \in Tabs /\ v.socket = u.socket /\ v.retry = u.retry /\ v.status = u.status /\ v.polling = u.polling
        /\ u.status = "live" => v = u
    BY <1>0 DEF Tabs, Polls
  <2> HIDE DEF v
  <2>3. Good(k, w, v, now)
    BY <1>0, <2>2 DEF Good, PipeInv
  <2>4. TabInv(k, w, v, now)
    BY <1>0, <2>2 DEF TabInv
  <2>5. /\ conn'[c] = k /\ wire'[c] = w /\ ui'[c] = v
        /\ \A d \in Clients : d # c => conn'[d] = conn[d] /\ wire'[d] = wire[d] /\ ui'[d] = ui[d]
    BY <1>0, <2>1 DEF ShapeInv
  <2>6. (StreamInv /\ TabsInv)'
    BY <2>1, <2>3, <2>4, <2>5, OneEnd
  <2>7. NoPoll \in Polls
    BY <1>0, DataShape, StoreAssumption DEF NoPoll, Polls, Time
  <2>8. ShapeInv'
    BY <1>0, <2>1, <2>2, <2>7 DEF ShapeInv
  <2>9. QED
    BY <2>6, <2>8
<1>10. QED
  BY <1>1, <1>3, <1>4, <1>5, <1>6, <1>7, <1>8, <1>9 DEF ClientStep
-----------------------------------------------------------------------------
\* The inductive invariant of the protocol: at every step of the server, of a
\* browser and of whatever lies between them, each pipe is in order and each
\* tab's socket, timer and polling fit each other (ws.py, liveSocket.ts, useLiveConnection.ts).
THEOREM LiveIsInvariant == LiveSpec => []LiveInv
<1>1. ClientInit => LiveInv
  <2> SUFFICES ASSUME ClientInit PROVE LiveInv
    OBVIOUS
  <2>1. /\ Init /\ task = "asleep" /\ conn = [c \in Clients |-> NoConnection] /\ wire = [c \in Clients |-> <<>>]
        /\ lastPing = now /\ faults = 0
        /\ ui = [c \in Clients |-> FirstLoad] /\ poll = [c \in Clients |-> NoPoll]
    BY DEF ClientInit, BroadcasterInit
  <2>2. StoreInv
    <3>1. NewSubscription \in Subscriptions
      <4>1. <<>> \in Seq(Events)
        OBVIOUS
      <4>2. QED
        BY <4>1 DEF NewSubscription, Subscriptions
    <3>2. TypeOK
      BY <2>1, <3>1, StoreAssumption DEF Init, TypeOK, Subscriptions, Time
    <3>3. Known = {} /\ \A a \in Aircraft : heard[a] <= now /\ gone[a] = -1
      BY <2>1, StoreAssumption DEF Init, Known
    <3>4. QED
      BY <2>1, <3>2, <3>3, StoreAssumption DEF Init, SweepInv, StoreInv
  <2>3. TypeOK /\ now \in Time /\ 0 \in Time
    BY <2>2, StoreAssumption DEF StoreInv, TypeOK, Time
  <2>4. NoPicture \in [Aircraft -> Objects] /\ NoPoll \in Polls
    BY <2>3, DataShape DEF NoPoll, Polls
  <2>5. FirstLoad \in Tabs
    BY <2>3, <2>4, BroadcasterAssumption DEF FirstLoad, Tabs, NoSeq
  <2>6. ShapeInv
    <3>1. <<>> \in Seq(Frames) /\ Len(<<>>) <= WireSize
      BY BroadcasterAssumption
    <3>2. QED
      BY <2>1, <2>3, <2>4, <2>5, <3>1, BroadcasterAssumption DEF ShapeInv
  <2>7. StreamInv
    BY <2>1, <2>3, <2>5, NobodyGood DEF StreamInv
  <2>8. TabInv(NoConnection, <<>>, FirstLoad, now)
    BY DEF TabInv, NoConnection, FirstLoad
  <2>9. TabsInv
    BY <2>1, <2>8 DEF TabsInv
  <2>10. QED
    BY <2>2, <2>6, <2>7, <2>9 DEF LiveInv
<1>2. LiveInv /\ [LiveNext]_vars => LiveInv'
  <2> SUFFICES ASSUME LiveInv, [LiveNext]_vars PROVE LiveInv'
    OBVIOUS
  <2>1. StoreInv'
    BY StoreKept
  <2>2. CASE ServerStep /\ UNCHANGED clientVars
    BY <2>1, <2>2, ServerKeeps DEF LiveInv
  <2>3. ASSUME NEW c \in Clients, ClientStep(c) PROVE LiveInv'
    BY <2>1, <2>3, ClientKeeps DEF LiveInv
  <2>4. CASE UNCHANGED vars
    <3>1. UNCHANGED <<now, task, conn, wire, lastPing, faults, ui, poll>>
      BY <2>4 DEF vars, storeVars, serverVars, clientVars
    <3>2. ShapeInv' /\ StreamInv' /\ TabsInv'
      BY <3>1 DEF LiveInv, ShapeInv, StreamInv, TabsInv
    <3>3. QED
      BY <2>1, <3>2 DEF LiveInv
  <2>5. QED
    BY <2>2, <2>3, <2>4 DEF LiveNext
<1>3. QED
  BY <1>1, <1>2, PTL DEF LiveSpec

\* Type correctness of the connections and the tabs, with the bounds of the
\* outbound queue (ClientConnection.deliver) and of the transport.
THEOREM LiveTypesHold == LiveSpec => []LiveTypeOK
<1>1. LiveInv => LiveTypeOK
  <2> SUFFICES ASSUME LiveInv PROVE LiveTypeOK
    OBVIOUS
  <2>1. /\ TypeOK /\ task \in {"asleep", "resync"} /\ lastPing \in Time /\ faults \in 0 .. MaxFaults
    BY DEF LiveInv, StoreInv, ShapeInv
  <2>2. ASSUME NEW c \in Clients
        PROVE  /\ conn[c] \in Conns /\ Len(conn[c].queue) <= ClientQueue
               /\ wire[c] \in Seq(Frames) /\ Len(wire[c]) <= WireSize
               /\ ui[c] \in Tabs /\ poll[c] \in Polls
    BY DEF LiveInv, ShapeInv, StreamInv, Good, ConnInv
  <2>3. ASSUME NEW c \in Clients
        PROVE  /\ conn[c].state \in {"none", "served", "closed"}
               /\ conn[c].queue \in Seq(Frames)
               /\ conn[c].seq \in 0 .. SeqModulus /\ conn[c].pings \in 0 .. MissedPingLimit
    BY <2>2 DEF Conns
  <2>4. ASSUME NEW c \in Clients
        PROVE  /\ ui[c].socket \in {"none", "open"}
               /\ ui[c].lastSeq \in NoSeq .. SeqModulus
               /\ ui[c].status \in {"connecting", "live", "reconnecting"}
               /\ {ui[c].retry, ui[c].polling, ui[c].stale} \subseteq BOOLEAN
               /\ ui[c].aircraft \in [Aircraft -> Objects] /\ ui[c].at \in Time
               /\ poll[c].state \in {"none", "asked", "answered"}
    BY <2>2 DEF Tabs, Polls
  <2>5. QED
    BY <2>1, <2>2, <2>3, <2>4 DEF LiveTypeOK
<1>2. QED
  BY <1>1, LiveIsInvariant, PTL

\* The server never leaves a hole in the stream of a connection it serves: a
\* client too slow for its queue is closed, not skipped (ws.py deliver, _terminate).
THEOREM StreamHasNoHole == LiveSpec => []NoSequenceGap
<1>1. LiveInv => NoSequenceGap
  <2> SUFFICES ASSUME LiveInv, NEW c \in Registered
               PROVE  LET p == Pipe(c)
                      IN  /\ \A i \in 1 .. (Len(p) - 1) : p[i + 1].seq = Succ(p[i].seq)
                          /\ p # <<>> => Last(p).seq = conn[c].seq
    BY DEF NoSequenceGap
  <2> DEFINE p == Pipe(c)
  <2>1. c \in Clients /\ conn[c].state = "served"
    BY DEF Registered
  <2>2. PipeInv(p, conn[c], ui[c], now)
    BY <2>1 DEF LiveInv, StreamInv, Good, Pipe
  <2>3. p \in Seq(Frames)
    BY <2>1 DEF LiveInv, ShapeInv, StreamInv, Good, ConnInv, Conns, Pipe
  <2> HIDE DEF p
  <2>4. p # <<>> => Len(p) > 0
    BY <2>3
  <2>5. QED
    BY <2>1, <2>2, <2>4 DEF PipeInv, Last, p
<1>2. QED
  BY <1>1, LiveIsInvariant, PTL

\* An outage is covered: a tab that is not live polls, and it has a socket or a
\* retry timer, never both (liveSocket.handleDisconnect, useLiveConnection.onStatus).
THEOREM OutagesAreCovered == LiveSpec => []OutageCovered
<1>1. LiveInv => OutageCovered
  BY DEF LiveInv, TabsInv, TabInv, OutageCovered
<1>2. QED
  BY <1>1, LiveIsInvariant, PTL

\* While a tab stays live its picture never goes back in time, whatever answers
\* of its fallback requests are still on their way (useLiveConnection.poll).
THEOREM LivePictureNeverOlder == LiveSpec => LiveNeverOlder
<1>1. LiveInv /\ [LiveNext]_vars =>
        [\A c \in Clients : ui[c].status = "live" /\ ui'[c].status = "live" => ui'[c].at >= ui[c].at]_vars
  <2> SUFFICES ASSUME LiveInv, LiveNext, NEW c \in Clients, ui[c].status = "live", ui'[c].status = "live"
               PROVE  ui'[c].at >= ui[c].at
    OBVIOUS
  <2>0. /\ ui \in [Clients -> Tabs] /\ ui[c].at \in Nat
    BY DEF LiveInv, ShapeInv, Tabs, Time
  <2>1. CASE ui'[c] = ui[c]
    BY <2>0, <2>1
  <2>2. ASSUME NEW d \in Clients, ClientStep(d), ui'[c] # ui[c]
        PROVE  ui'[c].at >= ui[c].at
    <3> DEFINE f == Head(wire[d])
               w == wire[d]
               p == w \o conn[d].queue
    <3>1. CASE Receive(d) \/ PongLost(d)
      <4>1. w # <<>> /\ ui' = [ui EXCEPT ![d] = Accepted(ui[d], f)]
        BY <3>1 DEF Receive, PongLost
      <4>2. c = d /\ ui'[c] = Accepted(ui[c], f)
        BY <2>0, <2>2, <4>1
      <4>3. /\ w \in Seq(Frames) /\ conn[d].queue \in Seq(Frames) /\ PipeInv(p, conn[d], ui[d], now)
        BY DEF LiveInv, ShapeInv, StreamInv, Good, ConnInv, Conns
      <4>4. f \in Frames /\ Len(p) > 0 /\ f = p[1] /\ 1 \in 1 .. Len(p)
        <5> DEFINE q == conn[d].queue
        <5> HIDE DEF w, q
        <5>1. w \in Seq(Frames) /\ q \in Seq(Frames) /\ w # <<>> /\ p = w \o q /\ f = Head(w)
          BY <4>1, <4>3 DEF w, q
        <5> HIDE DEF p, f
        <5>2. p \in Seq(Frames) /\ Len(p) > 0 /\ f = p[1]
          BY <5>1, PipeReceive
        <5>3. QED
          BY <5>1, <5>2
      <4>5. IsData(f) => ui[c].at <= f.data.at
        <5> HIDE DEF p, f
        <5>1. QED
          BY <4>2, <4>3, <4>4 DEF PipeInv
      <4>6. IF IsData(f) THEN ui'[c].at = f.data.at ELSE ui'[c].at = ui[c].at
        <5> HIDE DEF f
        <5>1. ui[c] \in Tabs
          BY <2>0
        <5> DEFINE u == ui[c]
                   v == Accepted(u, f)
        <5> HIDE DEF u
        <5>2. IF IsData(f) THEN v.at = f.data.at ELSE v.at = u.at
          BY <5>1, <4>4, AcceptedDoes DEF u
        <5> HIDE DEF v
        <5>3. ui'[c] = v
          BY <4>2 DEF u, v
        <5>4. QED
          BY <5>2, <5>3 DEF u
      <4>7. QED
        BY <2>0, <4>4, <4>5, <4>6 DEF Frames, Time
    <3>2. CASE ReceiveLast(d) \/ Drop(d)
      <4>1. ui' = [ui EXCEPT ![d] = Disconnected(ui[d])]
        BY <3>2 DEF ReceiveLast, Drop, Disconnect
      <4>2. c = d /\ ui'[c] = Disconnected(ui[c])
        BY <2>0, <2>2, <4>1
      <4>3. QED
        BY <2>0, <4>2, DisconnectedDoes
    <3>3. CASE Retry(d)
      <4>1. ui' = [ui EXCEPT ![d].retry = FALSE, ![d].socket = "open", ![d].lastSeq = NoSeq]
        BY <3>3 DEF Retry
      <4>2. ui'[c].at = ui[c].at
        BY <2>0, <4>1 DEF Tabs
      <4>3. QED
        BY <2>0, <4>2
    <3>4. CASE ApplyRest(d)
      <4>1. d # c \/ ui'[c] = ui[c]
        BY <2>0, <3>4 DEF ApplyRest
      <4>2. ui'[c] = ui[c]
        BY <2>0, <3>4, <4>1 DEF ApplyRest
      <4>3. QED
        BY <2>2, <4>2
    <3>5. QED
      BY <2>2, <3>1, <3>2, <3>3, <3>4
         DEF ClientStep, Accept, Lose, AskRest, AnswerRest, RestFails, clientVars
  <2>3. QED
    BY <2>1, <2>2 DEF LiveNext, clientVars
<1>2. QED
  BY <1>1, LiveIsInvariant, PTL DEF LiveSpec, LiveNeverOlder

(* -------------------------- the airport context ------------------------- *)

\* Every nonempty set of naturals has a least member: what CHOOSE picks as the oldest sample of
\* a window is there (_closing_delta, _remember_sample).
LEMMA MinExists ==
  ASSUME NEW T, T \subseteq Nat, T # {}
  PROVE  \E x \in T : \A y \in T : x <= y
<1> DEFINE R == StrictSubsetOrdering(Nat)
           I == {0..n : n \in T}
<1>1. IsWellFoundedOn(R, FiniteSubsetsOf(Nat))
  BY FS_StrictSubsetOrderingWellFounded
<1>2. I \subseteq FiniteSubsetsOf(Nat) /\ I # {}
  <2>1. \A n \in Nat : IsFiniteSet(0..n)
    BY FS_Interval
  <2>2. \A n \in Nat : 0..n \in FiniteSubsetsOf(Nat)
    BY <2>1 DEF FiniteSubsetsOf
  <2>3. \A s \in I : s \in FiniteSubsetsOf(Nat)
    BY <2>2
  <2>4. PICK n \in T : TRUE
    OBVIOUS
  <2>5. 0..n \in I
    BY <2>4
  <2>6. QED
    BY <2>3, <2>5
<1>3. \E x \in I : \A y \in I : ~(<<y, x>> \in R)
  <2> HIDE DEF R, I
  <2>1. QED
    BY <1>1, <1>2, WFMin
<1>4. PICK n \in T : \A y \in I : ~(<<y, 0..n>> \in R)
  BY <1>3
<1>5. ASSUME NEW y \in T, y < n
      PROVE  FALSE
  <2>1. <<0..y, 0..n>> \in R
    BY <1>5 DEF StrictSubsetOrdering
  <2>2. QED
    BY <1>4, <2>1
<1>6. QED
  BY <1>4, <1>5

\* A position beyond all of a set is its greatest, which is the one a fold takes last.
LEMMA MaxIs ==
  ASSUME NEW n \in Nat, NEW s \in SUBSET (1 .. n), n + 1 \notin s
  PROVE  Max(s \cup {n + 1}) = n + 1 /\ (s \cup {n + 1}) \ {n + 1} = s
<1>1. n + 1 \in s \cup {n + 1} /\ \A y \in s \cup {n + 1} : n + 1 >= y
  OBVIOUS
<1>2. \A x \in s \cup {n + 1} : (\A y \in s \cup {n + 1} : x >= y) => x = n + 1
  <2>1. \A x \in s : n + 1 > x
    OBVIOUS
  <2>2. QED
    BY <2>1
<1>3. Max(s \cup {n + 1}) = n + 1
  BY <1>1, <1>2 DEF Max
<1>4. QED
  BY <1>3

\* A fold of the steps F from b over positions, the greatest of a set last.
FoldsTo(it, b, m, F) ==
  \A s \in SUBSET (1 .. m) : it[s] = IF s = {} THEN b ELSE F[Max(s)][it[s \ {Max(s)}]]

\* Such a fold exists, whatever the steps: FoldLeft (of the source order, of the queued events) is one.
LEMMA FoldExists ==
  ASSUME NEW V, NEW b \in V, NEW m \in Nat, NEW F \in [1 .. m -> [V -> V]]
  PROVE  \E it \in [SUBSET (1 .. m) -> V] : FoldsTo(it, b, m, F)
<1> USE DEF FoldsTo
<1> DEFINE Runs(n) == \E it \in [SUBSET (1 .. n) -> V] :
              \A s \in SUBSET (1 .. n) : it[s] = IF s = {} THEN b ELSE F[Max(s)][it[s \ {Max(s)}]]
           T == {n \in 0 .. m : ~Runs(n)}
<1>1. Runs(0)
  <2> DEFINE it0 == [s \in SUBSET (1 .. 0) |-> b]
  <2>1. 1 .. 0 = {}
    OBVIOUS
  <2>2. it0 \in [SUBSET (1 .. 0) -> V]
    OBVIOUS
  <2>3. \A s \in SUBSET (1 .. 0) : it0[s] = b /\ s = {}
    BY <2>1
  <2>4. QED
    BY <2>2, <2>3
<1>2. ASSUME NEW n \in 0 .. m, n # m, Runs(n)
      PROVE  Runs(n + 1)
  <2>1. PICK g \in [SUBSET (1 .. n) -> V] :
              \A s \in SUBSET (1 .. n) : g[s] = IF s = {} THEN b ELSE F[Max(s)][g[s \ {Max(s)}]]
    BY <1>2
  <2> DEFINE S == SUBSET (1 .. n + 1)
             rest(s) == s \ {n + 1}
             h == [s \in S |-> IF n + 1 \in s THEN F[n + 1][g[rest(s)]] ELSE g[s]]
  <2>2. /\ n + 1 \in 1 .. m /\ n \in Nat
        /\ \A s \in S : rest(s) \in SUBSET (1 .. n) /\ (n + 1 \notin s => s \in SUBSET (1 .. n))
    <3>1. n \in Nat /\ n + 1 \in 1 .. m
      BY <1>2
    <3>2. \A i \in 1 .. n + 1 : i # n + 1 => i \in 1 .. n
      BY <3>1
    <3>3. QED
      BY <3>1, <3>2
  <2>3. F[n + 1] \in [V -> V]
    BY <2>2
  <2>4. h \in [S -> V]
    BY <2>1, <2>2, <2>3
  <2>5. ASSUME NEW s \in S
        PROVE  h[s] = IF s = {} THEN b ELSE F[Max(s)][h[s \ {Max(s)}]]
    <3>1. CASE n + 1 \in s
      <4>1. Max(s) = n + 1
        <5>1. s = rest(s) \cup {n + 1} /\ n + 1 \notin rest(s) /\ rest(s) \in SUBSET (1 .. n)
          BY <3>1, <2>2
        <5> HIDE DEF rest
        <5>2. Max(rest(s) \cup {n + 1}) = n + 1
          BY <5>1, <2>2, MaxIs
        <5>3. QED
          BY <5>1, <5>2
      <4>2. h[rest(s)] = g[rest(s)]
        BY <2>2
      <4>3. h[s] = F[n + 1][g[rest(s)]]
        BY <3>1
      <4>4. QED
        BY <3>1, <4>1, <4>2, <4>3
    <3>2. CASE n + 1 \notin s
      <4>1. s \in SUBSET (1 .. n) /\ h[s] = g[s]
        BY <3>2, <2>2
      <4>2. s \ {Max(s)} \in SUBSET (1 .. n) /\ s \ {Max(s)} \in S /\ n + 1 \notin s \ {Max(s)}
        BY <4>1, <3>2
      <4>3. h[s \ {Max(s)}] = g[s \ {Max(s)}]
        BY <4>2
      <4>4. QED
        BY <4>1, <4>3, <2>1
    <3>3. QED
      BY <3>1, <3>2
  <2>6. QED
    BY <2>4, <2>5
<1>3. ASSUME T # {} PROVE FALSE
  <2>1. T \subseteq Nat
    OBVIOUS
  <2> HIDE DEF Runs
  <2>2. PICK n \in T : \A y \in T : n <= y
    BY <2>1, <1>3, MinExists
  <2>3. n # 0 /\ n \in 0 .. m /\ ~Runs(n)
    BY <1>1
  <2>4. n - 1 \in 0 .. m /\ n - 1 # m /\ n - 1 \notin T
    BY <2>2, <2>3
  <2>5. Runs(n - 1)
    BY <2>4
  <2>6. Runs(n - 1 + 1)
    BY <2>4, <2>5, <1>2
  <2>7. QED
    BY <2>3, <2>6
<1>4. Runs(m)
  <2> HIDE DEF Runs
  <2>1. QED
    BY <1>3
<1>5. QED
  BY <1>4

\* A property of 0 that each step keeps holds up to n.
LEMMA Climb ==
  ASSUME NEW n \in Nat, NEW T, 0 \in T, \A i \in 1 .. n : i - 1 \in T => i \in T
  PROVE  \A i \in 0 .. n : i \in T
<1> DEFINE Bad == (0 .. n) \ T
<1>1. SUFFICES ASSUME Bad # {} PROVE FALSE
  OBVIOUS
<1>2. Bad \subseteq Nat
  OBVIOUS
<1>3. PICK x \in Bad : \A y \in Bad : x <= y
  BY <1>1, <1>2, MinExists
<1>4. x # 0 /\ x \in 1 .. n
  OBVIOUS
<1>5. x - 1 \in 0 .. n /\ x - 1 \notin Bad
  BY <1>3, <1>4
<1>6. QED
  BY <1>4, <1>5

\* The greatest of an initial segment, and what is left without it.
LEMMA MaxOfPrefix ==
  ASSUME NEW i \in Nat \ {0}
  PROVE  Max(1 .. i) = i /\ (1 .. i) \ {i} = 1 .. i - 1
<1>1. i \in 1 .. i /\ \A y \in 1 .. i : i >= y
  OBVIOUS
<1>2. \A x \in 1 .. i : (\A y \in 1 .. i : x >= y) => x = i
  OBVIOUS
<1>3. Max(1 .. i) = i
  BY <1>1, <1>2 DEF Max
<1>4. QED
  BY <1>3

\* The greatest of a set of positions is one of them.
LEMMA MaxIsIn ==
  ASSUME NEW n \in Nat, NEW s \in SUBSET (1 .. n), s # {}
  PROVE  Max(s) \in s
<1> DEFINE T == {n - x : x \in s}
<1>1. T \subseteq Nat /\ T # {}
  <2>1. \A x \in s : x \in Nat /\ x <= n
    OBVIOUS
  <2>2. \A x \in s : n - x \in Nat
    BY <2>1
  <2>3. PICK x \in s : TRUE
    OBVIOUS
  <2>4. n - x \in T
    OBVIOUS
  <2>5. QED
    BY <2>2, <2>4
<1>2. PICK t \in T : \A y \in T : t <= y
  BY <1>1, MinExists
<1>3. PICK x \in s : t = n - x
  OBVIOUS
<1>4. \A y \in s : x >= y
  <2> SUFFICES ASSUME NEW y \in s PROVE x >= y
    OBVIOUS
  <2>1. n - y \in T
    OBVIOUS
  <2>2. n - x <= n - y
    BY <1>2, <1>3, <2>1
  <2>3. QED
    BY <2>2
<1>5. QED
  BY <1>3, <1>4 DEF Max

Places    == {r.field : r \in Seen} \cup {"none"}
Phases    == {"none", "arriving", "departing"}
Answer    == [field : Places, phase : Phases]
Sample    == [field : Places, nm : Nat, seen : Nat]
AirRecord == [field : Places, nm : Nat, agl : Int, rate : Int, ground : BOOLEAN, seen : Nat]
AirEvent  == [kind : {"seen", "removed"}, record : AirRecord]
Told      == [record : AirRecord, known : BOOLEAN, said : Answer]
Hold      == [answer : Answer, trail : Seq(Sample), lapsed : [answer : Answer, trail : Seq(Sample), expiry : Nat],
              row : [open : BOOLEAN, field : Places, phase : Phases], heard : Seq(Told)]

\* What the steps leave behind, and the bounds of the clock.
AirShape ==
  /\ cBudget \in [changes : Nat, until : Nat] /\ cClock \in 0 .. cBudget.until
  /\ cIndex \in BOOLEAN /\ cTable \in BOOLEAN /\ cReloads \in Nat /\ cLost \in BOOLEAN
  /\ cLive \in AirRecord \cup {Gone}
  /\ cLive # Gone => cLive.seen <= cClock /\ cClock <= cLive.seen + RemoveAfter
  /\ cSub \in [queue : Seq(AirEvent), overflowed : BOOLEAN] /\ Len(cSub.queue) <= QueueSize
  /\ Holding \in Hold

\* No event after e is older, and none after a removal follows it at once.
After(e)  == IF e.kind = "removed" THEN e.record.seen + RemoveAfter ELSE e.record.seen
LiveFrom  == IF cLive = Gone THEN cClock ELSE cLive.seen
EventsInv ==
  LET q == cSub.queue
  IN  \A i \in DOMAIN q : After(q[i]) <= LiveFrom /\ \A j \in i + 1 .. Len(q) : After(q[i]) <= q[j].record.seen
\* Nothing from event i on is older than b.
Rest(i, b) == b <= LiveFrom /\ \A j \in i + 1 .. Len(cSub.queue) : b <= cSub.queue[j].record.seen

\* What event e says after event p, when none is lost.
Follows(p, e) ==
  /\ e.kind = "removed" => p.kind = "seen" /\ p.record = e.record
  /\ e.kind = "seen" /\ p.kind = "seen" =>
       e.record.seen <= p.record.seen + RemoveAfter /\ (e.record.field = "unknown" => p.record.field = "unknown")
AsSeen(r) == [kind |-> "seen", record |-> r]
LinkInv ==
  LET q == cSub.queue
  IN  ~cLost => /\ \A i \in 2 .. Len(q) : Follows(q[i - 1], q[i])
                /\ q # <<>> => IF cLive = Gone THEN q[Len(q)].kind = "removed" ELSE q[Len(q)] = AsSeen(cLive)
\* An answer is that of the last position heard, and nothing came between.
LinkedInv(h, i) ==
  ~cLost /\ h.answer # NoAnswer =>
    /\ h.heard # <<>>
    /\ IF i = Len(cSub.queue) THEN cLive = h.heard[Len(h.heard)].record
       ELSE Follows(AsSeen(h.heard[Len(h.heard)].record), cSub.queue[i + 1])

ShownIn(notes, i, phase) ==
  LET r == notes[i].record
  IN  /\ notes[i].known /\ ~r.ground /\ r.agl <= 6000
      /\ \E j \in 1 .. i - 1 :
           /\ r.seen - notes[j].record.seen <= TrendWindow
           /\ \A k \in j .. i - 1 : notes[k].known => notes[k].record.field = r.field
           /\ IF phase = "arriving" THEN r.rate <= -300 /\ notes[j].record.nm - r.nm >= 3
                                    ELSE r.rate >= 300 /\ r.nm - notes[j].record.nm >= 3
StayedIn(notes, i)  == notes[i].known /\ notes[i].record.field = notes[i - 1].record.field /\ InContext(notes[i].record)
SilenceIn(notes, i) == notes[i].record.seen - notes[i - 1].record.seen

\* A phase was shown at its field.
Shown(a, notes) ==
  a.phase # "none" => \E i \in DOMAIN notes : notes[i].record.field = a.field /\ ShownIn(notes, i, a.phase)
\* ... and the aircraft has stayed there.
Earned(a, notes) ==
  a.phase # "none" =>
    /\ notes # <<>> /\ notes[Len(notes)].record.field = a.field
    /\ \E i \in DOMAIN notes :
         /\ notes[i].record.field = a.field /\ ShownIn(notes, i, a.phase)
         /\ \A k \in i + 1 .. Len(notes) :
              StayedIn(notes, k) /\ (SilenceIn(notes, k) < PhaseGrace \/ SilenceIn(notes, k) <= RemoveAfter)

\* Every sample is of a position heard, and so is every one heard since.
SampleOf(r) == [field |-> r.field, nm |-> r.nm, seen |-> r.seen]
TrailOf(trail, notes) ==
  \A p \in DOMAIN trail : \E j \in DOMAIN notes :
    /\ trail[p] = SampleOf(notes[j].record)
    /\ \A k \in j .. Len(notes) : notes[k].known => \E n \in p .. Len(trail) : trail[n] = SampleOf(notes[k].record)

HeardInv(h, i) ==
  /\ \A j \in DOMAIN h.heard : /\ h.heard[j].record.field # "unknown"
                               /\ \A k \in j .. Len(h.heard) : h.heard[j].record.seen <= h.heard[k].record.seen
  /\ h.heard # <<>> => Rest(i, h.heard[Len(h.heard)].record.seen)
LapsedInv(h) ==
  h.lapsed # NotLapsed => h.answer = NoAnswer /\ h.lapsed.answer # NoAnswer
HoldsInv(h) ==
  /\ TrailOf(h.trail, h.heard) /\ TrailOf(h.lapsed.trail, h.heard)
  /\ Shown(h.answer, h.heard) /\ Shown(h.lapsed.answer, h.heard) /\ Shown(h.row, h.heard)
EarnedInv(h) ==
  ~cLost /\ (\A j \in DOMAIN h.heard : h.heard[j].known) =>
    /\ Earned(h.answer, h.heard) /\ Earned(h.lapsed.answer, h.heard)
    /\ h.lapsed # NotLapsed => h.heard # <<>> /\ h.lapsed.expiry = h.heard[Len(h.heard)].record.seen + PhaseGrace
\* A phase said of the last position is held, set aside for long enough, or too old to be missed.
LatchInv(h, i) ==
  /\ \A j \in 2 .. Len(h.heard) :
       h.heard[j - 1].known /\ h.heard[j - 1].said.phase # "none" /\ StayedIn(h.heard, j)
         /\ SilenceIn(h.heard, j) < PhaseGrace /\ SilenceIn(h.heard, j) < 2 * RemoveAfter => h.heard[j].said.phase # "none"
  /\ h.heard # <<>> =>
       LET last == h.heard[Len(h.heard)]
           seen == last.record.seen
       IN  last.known /\ last.said.phase # "none" =>
             /\ last.said.field = last.record.field /\ last.record.field # "none"
             /\ \/ h.answer = last.said
                \/ /\ h.lapsed # NotLapsed /\ h.lapsed.answer = last.said /\ h.lapsed.expiry >= seen + PhaseGrace
                   /\ Rest(i, seen + RemoveAfter)
                \/ Rest(i, seen + PhaseGrace) \/ Rest(i, seen + 2 * RemoveAfter)
HoldInv(h, i) == HeardInv(h, i) /\ LapsedInv(h) /\ HoldsInv(h) /\ LinkedInv(h, i) /\ EarnedInv(h) /\ LatchInv(h, i)

AirInv == AirShape /\ EventsInv /\ LinkInv /\ \A h \in {Holding} : HoldInv(h, 0)

\* Dropping the samples that are too old leaves the tail of the trail (_remember_sample).
LEMMA FreshIs ==
  ASSUME NEW trail \in Seq(Sample), NEW since \in Int
  PROVE  \E d \in 0 .. Len(trail) :
           /\ Fresh(trail, since) \in Seq(Sample) /\ Len(Fresh(trail, since)) = Len(trail) - d
           /\ \A p \in 1 .. Len(trail) - d : Fresh(trail, since)[p] = trail[p + d]
<1> DEFINE kept == {i \in DOMAIN trail : trail[i].seen >= since}
           first == CHOOSE i \in kept : \A j \in kept : i <= j
<1>1. CASE kept = {}
  <2>1. Fresh(trail, since) = <<>>
    BY <1>1 DEF Fresh
  <2>2. Len(trail) \in 0 .. Len(trail) /\ Len(trail) - Len(trail) = 0 /\ 1 .. 0 = {}
    OBVIOUS
  <2>3. QED
    BY <2>1, <2>2
<1>2. CASE kept # {}
  <2>1. kept \subseteq Nat
    OBVIOUS
  <2>2. first \in kept
    <3>1. \E i \in kept : \A j \in kept : i <= j
      BY <1>2, <2>1, MinExists
    <3> HIDE DEF kept
    <3>2. QED
      BY <3>1
  <2>3. Fresh(trail, since) = SubSeq(trail, first, Len(trail))
    BY <1>2 DEF Fresh
  <2>4. first \in 1 .. Len(trail)
    BY <2>2
  <2> HIDE DEF first
  <2>5. \A m \in 1 .. Len(trail) :
          /\ SubSeq(trail, m, Len(trail)) \in Seq(Sample) /\ Len(SubSeq(trail, m, Len(trail))) = Len(trail) - (m - 1)
          /\ \A p \in 1 .. Len(trail) - (m - 1) : SubSeq(trail, m, Len(trail))[p] = trail[p + (m - 1)]
    OBVIOUS
  <2>6. first - 1 \in 0 .. Len(trail)
    BY <2>4
  <2>7. QED
    BY <2>3, <2>4, <2>5, <2>6
<1>3. QED
  BY <1>1, <1>2

\* What Remembered holds: the tail of the trail, and the new sample.
LEMMA RememberedIs ==
  ASSUME NEW trail \in Seq(Sample), NEW r \in AirRecord
  PROVE  /\ Remembered(trail, r) \in Seq(Sample)
         /\ \E d \in 0 .. Len(trail) :
              /\ Len(Remembered(trail, r)) = Len(trail) - d + 1
              /\ Remembered(trail, r)[Len(trail) - d + 1] = SampleOf(r)
              /\ \A p \in 1 .. Len(trail) - d : Remembered(trail, r)[p] = trail[p + d]
<1> DEFINE fresh == Fresh(trail, r.seen - TrendWindow)
<1>0. r.seen - TrendWindow \in Int
  BY AirConstants DEF AirRecord
<1>1. PICK d \in 0 .. Len(trail) :
        /\ fresh \in Seq(Sample) /\ Len(fresh) = Len(trail) - d
        /\ \A p \in 1 .. Len(trail) - d : fresh[p] = trail[p + d]
  BY <1>0, FreshIs
<1>2. SampleOf(r) \in Sample
  BY DEF SampleOf, Sample, AirRecord
<1>3. Remembered(trail, r) = Append(fresh, SampleOf(r))
  BY DEF Remembered, SampleOf
<1> HIDE DEF fresh
<1>4. /\ Append(fresh, SampleOf(r)) \in Seq(Sample) /\ Len(Append(fresh, SampleOf(r))) = Len(fresh) + 1
      /\ Append(fresh, SampleOf(r))[Len(fresh) + 1] = SampleOf(r)
      /\ \A p \in 1 .. Len(fresh) : Append(fresh, SampleOf(r))[p] = fresh[p]
  BY <1>1, <1>2
<1>5. QED
  BY <1>1, <1>3, <1>4

\* An event more heard does not change what the earlier ones showed.
LEMMA HeardGrows ==
  ASSUME NEW notes \in Seq(Told), NEW x \in Told
  PROVE  /\ Append(notes, x) \in Seq(Told) /\ Len(Append(notes, x)) = Len(notes) + 1
         /\ Append(notes, x)[Len(notes) + 1] = x /\ \A k \in 1 .. Len(notes) : Append(notes, x)[k] = notes[k]
         /\ \A i \in 1 .. Len(notes), ph \in Phases : ShownIn(notes, i, ph) => ShownIn(Append(notes, x), i, ph)
         /\ \A i \in 2 .. Len(notes) : /\ StayedIn(Append(notes, x), i) <=> StayedIn(notes, i)
                                       /\ SilenceIn(Append(notes, x), i) = SilenceIn(notes, i)
<1> DEFINE more == Append(notes, x)
<1>1. /\ more \in Seq(Told) /\ Len(more) = Len(notes) + 1 /\ more[Len(notes) + 1] = x
      /\ \A k \in 1 .. Len(notes) : more[k] = notes[k]
  OBVIOUS
<1> HIDE DEF more
<1>2. ASSUME NEW i \in 1 .. Len(notes), NEW ph \in Phases, ShownIn(notes, i, ph) PROVE ShownIn(more, i, ph)
  <2>1. \A k \in 1 .. i : k \in 1 .. Len(notes)
    OBVIOUS
  <2>2. more[i] = notes[i] /\ (\A k \in 1 .. i - 1 : more[k] = notes[k])
    BY <1>1
  <2>3. PICK j \in 1 .. i - 1 :
           /\ notes[i].record.seen - notes[j].record.seen <= TrendWindow
           /\ \A k \in j .. i - 1 : notes[k].known => notes[k].record.field = notes[i].record.field
           /\ IF ph = "arriving" THEN notes[i].record.rate <= -300 /\ notes[j].record.nm - notes[i].record.nm >= 3
                                 ELSE notes[i].record.rate >= 300 /\ notes[i].record.nm - notes[j].record.nm >= 3
    BY <1>2, SMTT(30) DEF ShownIn
  <2>4. \A k \in j .. i - 1 : k \in 1 .. i - 1
    OBVIOUS
  <2>5. QED
    BY <1>2, <2>2, <2>3, <2>4, SMTT(30) DEF ShownIn
<1>3. ASSUME NEW i \in 2 .. Len(notes)
      PROVE  (StayedIn(more, i) <=> StayedIn(notes, i)) /\ SilenceIn(more, i) = SilenceIn(notes, i)
  <2>1. more[i] = notes[i] /\ more[i - 1] = notes[i - 1]
    BY <1>1
  <2>2. QED
    BY <2>1 DEF StayedIn, SilenceIn
<1>4. QED
  BY <1>1, <1>2, <1>3 DEF more

\* The trail stays one of positions heard when one more is heard: unlooked at, or remembered with them.
LEMMA TrailGrows ==
  ASSUME NEW trail \in Seq(Sample), NEW notes \in Seq(Told), NEW x \in Told, TrailOf(trail, notes)
  PROVE  /\ ~x.known => TrailOf(trail, Append(notes, x))
         /\ TrailOf(Remembered(trail, x.record), Append(notes, x))
<1> DEFINE more == Append(notes, x)
           n    == Len(notes)
<1>1. n \in Nat /\ Len(more) = n + 1 /\ more[n + 1] = x /\ (\A k \in 1 .. n : more[k] = notes[k])
  BY HeardGrows
<1>2. DOMAIN more = 1 .. n + 1 /\ DOMAIN notes = 1 .. n
  BY <1>1, HeardGrows
<1> HIDE DEF more
<1>3. ASSUME ~x.known PROVE TrailOf(trail, more)
  <2>1. ASSUME NEW p \in DOMAIN trail
        PROVE  \E j \in DOMAIN more :
                 /\ trail[p] = SampleOf(more[j].record)
                 /\ \A k \in j .. Len(more) : more[k].known => \E m \in p .. Len(trail) : trail[m] = SampleOf(more[k].record)
    <3>1. PICK j \in DOMAIN notes :
                 /\ trail[p] = SampleOf(notes[j].record)
                 /\ \A k \in j .. n : notes[k].known => \E m \in p .. Len(trail) : trail[m] = SampleOf(notes[k].record)
      BY DEF TrailOf
    <3>2. ASSUME NEW k \in j .. Len(more), more[k].known
          PROVE  \E m \in p .. Len(trail) : trail[m] = SampleOf(more[k].record)
      <4>1. k # n + 1
        BY <1>1, <1>3, <3>2
      <4>2. k \in j .. n /\ k \in 1 .. n
        BY <1>1, <1>2, <4>1
      <4>3. QED
        BY <1>1, <3>1, <3>2, <4>2
    <3>3. j \in DOMAIN more /\ more[j] = notes[j]
      BY <1>1, <1>2
    <3>4. QED
      BY <3>1, <3>2, <3>3
  <2>2. QED
    BY <2>1 DEF TrailOf
<1>4. TrailOf(Remembered(trail, x.record), more)
  <2> DEFINE new == Remembered(trail, x.record)
  <2>0. x.record \in AirRecord
    BY DEF Told
  <2>1. PICK d \in 0 .. Len(trail) :
          /\ Len(new) = Len(trail) - d + 1 /\ new[Len(trail) - d + 1] = SampleOf(x.record)
          /\ \A p \in 1 .. Len(trail) - d : new[p] = trail[p + d]
    BY <2>0, RememberedIs
  <2>2. new \in Seq(Sample)
    BY <2>0, RememberedIs
  <2> HIDE DEF new
  <2>3. DOMAIN new = 1 .. Len(trail) - d + 1 /\ Len(trail) \in Nat
    BY <2>1, <2>2
  <2>4. ASSUME NEW p \in DOMAIN new
        PROVE  \E j \in DOMAIN more :
                 /\ new[p] = SampleOf(more[j].record)
                 /\ \A k \in j .. Len(more) : more[k].known => \E m \in p .. Len(new) : new[m] = SampleOf(more[k].record)
    <3>1. CASE p = Len(trail) - d + 1
      <4>1. n + 1 \in DOMAIN more /\ new[p] = SampleOf(more[n + 1].record) /\ p \in p .. Len(new)
        BY <1>1, <1>2, <2>1, <2>3, <3>1
      <4>2. \A k \in n + 1 .. Len(more) : k = n + 1
        BY <1>1
      <4>3. QED
        BY <4>1, <4>2
    <3>2. CASE p # Len(trail) - d + 1
      <4>1. p \in 1 .. Len(trail) - d /\ p + d \in DOMAIN trail
        BY <2>3, <3>2
      <4>2. PICK j \in DOMAIN notes :
                 /\ trail[p + d] = SampleOf(notes[j].record)
                 /\ \A k \in j .. n : notes[k].known => \E m \in p + d .. Len(trail) : trail[m] = SampleOf(notes[k].record)
        BY <4>1 DEF TrailOf
      <4>3. ASSUME NEW k \in j .. Len(more), more[k].known
            PROVE  \E m \in p .. Len(new) : new[m] = SampleOf(more[k].record)
        <5>1. CASE k = n + 1
          <6>1. Len(new) \in p .. Len(new) /\ new[Len(new)] = SampleOf(more[k].record)
            BY <1>1, <2>1, <2>3, <5>1
          <6>2. QED
            BY <6>1
        <5>2. CASE k # n + 1
          <6>1. k \in j .. n /\ k \in 1 .. n
            BY <1>1, <1>2, <5>2
          <6>2. PICK m \in p + d .. Len(trail) : trail[m] = SampleOf(notes[k].record)
            BY <1>1, <4>2, <4>3, <6>1
          <6>3. m - d \in p .. Len(new) /\ m - d \in 1 .. Len(trail) - d
            BY <2>1, <2>3, <4>1
          <6>4. new[m - d] = trail[m - d + d] /\ m - d + d = m
            BY <2>1, <2>3, <6>3
          <6>5. new[m - d] = SampleOf(more[k].record)
            BY <1>1, <6>1, <6>2, <6>4
          <6>6. QED
            BY <6>3, <6>5
        <5>3. QED
          BY <5>1, <5>2
      <4>4. j \in DOMAIN more /\ new[p] = SampleOf(more[j].record)
        <5>1. j \in DOMAIN more /\ more[j] = notes[j]
          BY <1>1, <1>2
        <5>2. new[p] = trail[p + d]
          BY <2>1, <4>1
        <5>3. QED
          BY <4>2, <5>1, <5>2
      <4>5. QED
        BY <4>3, <4>4
    <3>3. QED
      BY <3>1, <3>2
  <2>5. QED
    BY <2>4 DEF TrailOf, new
<1>5. QED
  BY <1>3, <1>4 DEF more

\* The oldest sample of a window is one of it, for a trail is finite and its times are naturals.
LEMMA OldestIsIn ==
  ASSUME NEW window, window \subseteq Sample, window # {}
  PROVE  \E s \in window : \A t \in window : s.seen <= t.seen
<1> DEFINE T == {s.seen : s \in window}
<1>1. T \subseteq Nat /\ T # {}
  BY DEF Sample
<1>2. PICK x \in T : \A y \in T : x <= y
  BY <1>1, MinExists
<1>3. PICK s \in window : s.seen = x
  OBVIOUS
<1>4. QED
  BY <1>2, <1>3

\* A phase is inferred only when the positions heard show it at the field (infer_phase, _closing_delta).
LEMMA PhaseShown ==
  ASSUME NEW trail \in Seq(Sample), NEW notes \in Seq(Told), NEW x \in Told, TrailOf(trail, notes), x.known,
         \A j \in DOMAIN notes : \A k \in j .. Len(notes) : notes[j].record.seen <= notes[k].record.seen
  PROVE  /\ Phase(x.record, trail) \in Phases
         /\ Phase(x.record, trail) # "none" => ShownIn(Append(notes, x), Len(notes) + 1, Phase(x.record, trail))
<1> DEFINE more   == Append(notes, x)
           n      == Len(notes)
           obs    == x.record
           ph     == Phase(obs, trail)
           window == {s \in ToSet(trail) : obs.seen - s.seen <= TrendWindow}
           oldest == CHOOSE s \in window : \A t \in window : s.seen <= t.seen
<1>1. n \in Nat /\ Len(more) = n + 1 /\ more[n + 1] = x /\ (\A k \in 1 .. n : more[k] = notes[k])
  BY HeardGrows
<1>2. ph \in Phases
  BY DEF Phase, Phases
<1>3. ASSUME ph # "none" PROVE ShownIn(more, n + 1, ph)
  <2> HIDE DEF more
  <2>1. /\ ~obs.ground /\ ~(obs.agl > 6000)
        /\ \/ ph = "arriving" /\ obs.rate <= -300 /\ Trend(obs, trail) >= 3
           \/ ph = "departing" /\ obs.rate >= 300 /\ Trend(obs, trail) <= -3
    BY <1>3 DEF Phase
  <2>2. window # {} /\ (\A s \in window : s.field = obs.field) /\ Trend(obs, trail) = oldest.nm - obs.nm
    <3>1. Trend(obs, trail) # 0
      BY <2>1
    <3>2. QED
      BY <3>1 DEF Trend
  <2>3. \A s : s \in window <=> s \in ToSet(trail) /\ obs.seen - s.seen <= TrendWindow
    OBVIOUS
  <2>4. ToSet(trail) = {trail[p] : p \in DOMAIN trail} /\ \A p \in DOMAIN trail : trail[p] \in Sample
    BY DEF ToSet
  <2>5. oldest \in window
    <3>1. window \subseteq Sample
      BY <2>4
    <3>2. \E s \in window : \A t \in window : s.seen <= t.seen
      BY <2>2, <3>1, OldestIsIn
    <3> HIDE DEF window
    <3>3. QED
      BY <3>2
  <2> HIDE DEF window, oldest
  <2>6. PICK p \in DOMAIN trail : oldest = trail[p]
    BY <2>3, <2>4, <2>5
  <2>7. PICK j \in DOMAIN notes :
           /\ trail[p] = SampleOf(notes[j].record)
           /\ \A k \in j .. n : notes[k].known => \E m \in p .. Len(trail) : trail[m] = SampleOf(notes[k].record)
    BY DEF TrailOf
  <2>8. /\ obs \in AirRecord /\ \A k \in 1 .. n : notes[k].record \in AirRecord
        /\ j \in 1 .. n /\ DOMAIN notes = 1 .. n
    <3>1. DOMAIN notes = 1 .. n /\ \A k \in 1 .. n : notes[k] \in Told
      OBVIOUS
    <3>2. \A y \in Told : y.record \in AirRecord
      BY DEF Told
    <3>3. QED
      BY <3>1, <3>2
  <2>9. oldest.nm = notes[j].record.nm /\ oldest.seen = notes[j].record.seen
    BY <2>6, <2>7 DEF SampleOf
  <2>10. obs.seen - notes[j].record.seen <= TrendWindow
    BY <2>3, <2>5, <2>9
  <2>11. ASSUME NEW k \in j .. n, notes[k].known PROVE notes[k].record.field = obs.field
    <3>1. PICK m \in p .. Len(trail) : trail[m] = SampleOf(notes[k].record)
      BY <2>7, <2>11
    <3>2. m \in DOMAIN trail /\ trail[m] \in ToSet(trail) /\ k \in 1 .. n
      BY <2>4, <2>8
    <3>3. notes[j].record.seen <= notes[k].record.seen
      BY <2>8
    <3>4. obs.seen - notes[k].record.seen <= TrendWindow
      <4>1. obs.seen \in Nat /\ notes[k].record.seen \in Nat /\ notes[j].record.seen \in Nat /\ TrendWindow \in Nat
        BY <2>8, <3>2, AirConstants DEF AirRecord
      <4>2. QED
        BY <2>10, <3>3, <4>1, SMTT(30)
    <3>5. trail[m].seen = notes[k].record.seen /\ trail[m].field = notes[k].record.field
      BY <3>1 DEF SampleOf
    <3>6. trail[m] \in window
      BY <2>3, <3>2, <3>4, <3>5
    <3>7. QED
      BY <2>2, <3>5, <3>6
  <2>12. IF ph = "arriving" THEN obs.rate <= -300 /\ notes[j].record.nm - obs.nm >= 3
                            ELSE obs.rate >= 300 /\ obs.nm - notes[j].record.nm >= 3
    <3>1. Trend(obs, trail) = notes[j].record.nm - obs.nm /\ obs.nm \in Nat /\ notes[j].record.nm \in Nat
      BY <2>2, <2>8, <2>9 DEF AirRecord
    <3> HIDE DEF ph, obs
    <3>2. QED
      BY <2>1, <3>1
  <2>13. j \in 1 .. n + 1 - 1 /\ n + 1 - 1 = n /\ obs.agl <= 6000
    BY <1>1, <2>1, <2>8 DEF AirRecord
  <2> HIDE DEF ph
  <2>14. more[n + 1].record = obs /\ more[n + 1].known /\ more[j] = notes[j] /\ \A k \in j .. n : more[k] = notes[k]
    BY <1>1, <2>8
  <2> HIDE DEF obs, n
  <2>15. /\ more[n + 1].known /\ ~more[n + 1].record.ground /\ more[n + 1].record.agl <= 6000
         /\ more[n + 1].record.seen - more[j].record.seen <= TrendWindow
         /\ \A k \in j .. n : more[k].known => more[k].record.field = more[n + 1].record.field
         /\ IF ph = "arriving"
              THEN more[n + 1].record.rate <= -300 /\ more[j].record.nm - more[n + 1].record.nm >= 3
              ELSE more[n + 1].record.rate >= 300 /\ more[n + 1].record.nm - more[j].record.nm >= 3
    BY <2>1, <2>10, <2>11, <2>12, <2>13, <2>14
  <2>16. j \in 1 .. n /\ n \in Nat
    BY <1>1, <2>8
  <2>17. n + 1 - 1 = n
    BY <2>16
  <2>18. QED
    BY <2>15, <2>16, <2>17, SMTT(30) DEF ShownIn
<1>4. QED
  BY <1>2, <1>3

Row == [open : BOOLEAN, field : Places, phase : Phases]

\* apply_inferred_airport leaves the row a phase it had at its own field, or the one it is given.
LEMMA RowWithIs ==
  ASSUME NEW row \in Row, NEW field \in Places, NEW phase \in Phases
  PROVE  LET new == RowWith(row, field, phase)
         IN  /\ new \in Row
             /\ \/ new.phase = row.phase /\ new.field = row.field
                \/ new.phase = phase /\ new.field = field
<1> DEFINE kept == IF phase = "none" /\ row.field = field THEN row.phase ELSE phase
<1>1. CASE ~row.open
  BY <1>1 DEF RowWith
<1>2. CASE row.open
  <2>1. RowWith(row, field, phase) = [open |-> row.open, field |-> field, phase |-> kept]
    BY <1>2 DEF RowWith, Row
  <2>2. kept \in Phases /\ (kept = phase \/ (kept = row.phase /\ row.field = field)) /\ row.open \in BOOLEAN
    BY DEF Row
  <2> HIDE DEF kept
  <2>3. QED
    BY <2>1, <2>2 DEF Row
<1>3. QED
  BY <1>1, <1>2

\* What the gates see: the answer and the trail, or those taken back inside the grace window (_resume).
Back(h, r)  == h.lapsed.expiry > r.seen
Prior(h, r) == IF Back(h, r) THEN h.lapsed.answer ELSE h.answer
Old(h, r)   == IF Back(h, r) THEN h.lapsed.trail ELSE h.trail
Now(h, r)   == Latched(Prior(h, r), r, Phase(r, Old(h, r)))
Heeded(h, r, known, said) == Append(h.heard, [record |-> r, known |-> known, said |-> said])

\* The cases of consider and _observe, each with all it changes.
Removed(g, h, r) ==
  /\ g.answer = NoAnswer /\ g.trail = <<>> /\ g.row = h.row /\ g.heard = h.heard
  /\ g.lapsed = IF h.answer = NoAnswer \/ PhaseGrace = 0 THEN NotLapsed
                ELSE [answer |-> h.answer, trail |-> h.trail, expiry |-> r.seen + PhaseGrace]
Unlooked(g, h, r) ==
  /\ r.field # "unknown" /\ g.answer = h.answer /\ g.trail = h.trail /\ g.lapsed = h.lapsed /\ g.row = h.row
  /\ g.heard = Heeded(h, r, FALSE, h.answer)
Forgotten(g, h, r) ==
  /\ r.field = "none" /\ g.answer = NoAnswer /\ g.trail = <<>> /\ g.lapsed = NotLapsed /\ g.row = h.row
  /\ g.heard = Heeded(h, r, TRUE, NoAnswer)
Judged(g, h, r) ==
  /\ r.field \notin {"unknown", "none"} /\ g.lapsed = NotLapsed
  /\ g.trail = Remembered(Old(h, r), r)
  /\ g.answer = IF InContext(r) THEN [field |-> r.field, phase |-> Now(h, r)] ELSE NoAnswer
  /\ \/ g.row = h.row
     \/ InContext(r) /\ g.row = RowWith(h.row, r.field, Now(h, r))
  /\ g.heard = Heeded(h, r, TRUE, g.answer)

\* A hold with the parts of h.
Parts(h) == [answer |-> h.answer, trail |-> h.trail, lapsed |-> h.lapsed, row |-> h.row, heard |-> h.heard]

\* The record holds what its parts say.
LEMMA HoldIs ==
  ASSUME NEW h \in Hold
  PROVE  /\ h.answer \in Answer /\ h.trail \in Seq(Sample) /\ h.row \in Row /\ h.heard \in Seq(Told)
         /\ h.lapsed \in [answer : Answer, trail : Seq(Sample), expiry : Nat]
         /\ h = Parts(h)
BY DEF Hold, Row, Parts

\* One event, by the kind of event and what the index and the position say (consider, _observe).
LEMMA ConsiderDoes ==
  ASSUME NEW h \in Hold, NEW e \in AirEvent, cIndex \in BOOLEAN
  PROVE  LET g == ConsiderEvent(h, e)
         IN  /\ g = Parts(g)
             /\ IF e.kind = "removed" THEN Removed(g, h, e.record)
                ELSE \/ e.record.field = "unknown" /\ g = h
                     \/ Unlooked(g, h, e.record) \/ Forgotten(g, h, e.record) \/ Judged(g, h, e.record)
<1> DEFINE r == e.record
           g == ConsiderEvent(h, e)
<1>0. e.kind \in {"seen", "removed"}
  BY DEF AirEvent
<1>1. CASE e.kind = "removed"
  <2>1. g = Lapse(h, r)
    BY <1>1 DEF ConsiderEvent
  <2>2. Removed(g, h, r) /\ g = Parts(g)
    BY <2>1, HoldIs DEF Lapse, Removed, Parts
  <2>3. QED
    BY <1>1, <2>2
<1>2. CASE e.kind = "seen" /\ r.field = "unknown"
  <2>1. g = h
    BY <1>2 DEF ConsiderEvent, Observe
  <2>2. QED
    BY <1>2, <2>1, HoldIs
<1>3. CASE e.kind = "seen" /\ r.field # "unknown" /\ ~cIndex
  <2>1. g = [h EXCEPT !.heard = Append(@, [record |-> r, known |-> cIndex, said |-> h.answer])]
    BY <1>3 DEF ConsiderEvent, Observe
  <2>2. cIndex = FALSE
    BY <1>3
  <2>3. Unlooked(g, h, r) /\ g = Parts(g)
    BY <1>3, <2>1, <2>2, HoldIs DEF Unlooked, Heeded, Parts
  <2>4. QED
    BY <1>3, <2>3
<1>4. CASE e.kind = "seen" /\ r.field # "unknown" /\ cIndex /\ r.field = "none"
  <2>1. g = [[h EXCEPT !.answer = NoAnswer, !.trail = <<>>, !.lapsed = NotLapsed] EXCEPT
               !.heard = Append(h.heard, [record |-> r, known |-> cIndex, said |-> NoAnswer])]
    BY <1>4, HoldIs DEF ConsiderEvent, Observe
  <2>2. cIndex = TRUE
    BY <1>4
  <2>3. Forgotten(g, h, r) /\ g = Parts(g)
    BY <1>4, <2>1, <2>2, HoldIs DEF Forgotten, Heeded, Parts
  <2>4. QED
    BY <1>4, <2>3
<1>5. CASE e.kind = "seen" /\ r.field # "unknown" /\ cIndex /\ r.field # "none"
  <2> DEFINE back  == Resume(h, r)
             after == Judge(back, r)
  <2>1. g = [after EXCEPT !.heard = Append(@, [record |-> r, known |-> cIndex, said |-> after.answer])]
    BY <1>5 DEF ConsiderEvent, Observe
  <2>2. back = [answer |-> Prior(h, r), trail |-> Old(h, r), lapsed |-> NotLapsed, row |-> h.row, heard |-> h.heard]
    <3>1. r.seen \in Nat /\ h.lapsed.expiry \in Nat
      BY HoldIs DEF AirEvent, AirRecord
    <3>2. Back(h, r) <=> ~(h.lapsed.expiry <= r.seen)
      BY <3>1 DEF Back
    <3>3. CASE Back(h, r)
      <4>1. back = [h EXCEPT !.answer = h.lapsed.answer, !.trail = h.lapsed.trail, !.lapsed = NotLapsed]
        BY <3>2, <3>3 DEF Resume
      <4>2. Prior(h, r) = h.lapsed.answer /\ Old(h, r) = h.lapsed.trail
        BY <3>3 DEF Prior, Old
      <4>3. QED
        BY <4>1, <4>2, HoldIs DEF Parts
    <3>4. CASE ~Back(h, r)
      <4>1. back = [h EXCEPT !.lapsed = NotLapsed]
        BY <3>2, <3>4 DEF Resume
      <4>2. Prior(h, r) = h.answer /\ Old(h, r) = h.trail
        BY <3>4 DEF Prior, Old
      <4>3. QED
        BY <4>1, <4>2, HoldIs DEF Parts
    <3>5. QED
      BY <3>3, <3>4
  <2> HIDE DEF back
  <2>3. /\ after.lapsed = NotLapsed /\ after.heard = h.heard /\ after.trail = Remembered(Old(h, r), r)
        /\ after.answer = IF InContext(r) THEN [field |-> r.field, phase |-> Now(h, r)] ELSE NoAnswer
        /\ after.row = h.row \/ (InContext(r) /\ after.row = RowWith(h.row, r.field, Now(h, r)))
    <3>1. Latched(back.answer, r, Phase(r, back.trail)) = Now(h, r)
      BY <2>2 DEF Now
    <3>2. after = LET kept == [back EXCEPT !.trail = Remembered(@, r)]
                  IN  IF ~InContext(r) THEN [kept EXCEPT !.answer = NoAnswer]
                      ELSE [kept EXCEPT !.answer = [field |-> r.field, phase |-> Now(h, r)],
                                        !.row = IF Now(h, r) = "none" /\ ~r.ground THEN @
                                                ELSE RowWith(@, r.field, Now(h, r))]
      BY <3>1 DEF Judge
    <3> HIDE DEF after
    <3>3. QED
      BY <2>2, <3>2
  <2>4. cIndex = TRUE /\ after = Parts(after)
    <3>1. cIndex = TRUE
      BY <1>5
    <3>2. back = Parts(back)
      BY <2>2 DEF Parts
    <3>3. \E u, v, w : \/ after = [[back EXCEPT !.trail = u] EXCEPT !.answer = v]
                      \/ after = [[back EXCEPT !.trail = u] EXCEPT !.answer = v, !.row = w]
      BY DEF Judge
    <3> HIDE DEF after
    <3>4. PICK u, v, w : \/ after = [[back EXCEPT !.trail = u] EXCEPT !.answer = v]
                        \/ after = [[back EXCEPT !.trail = u] EXCEPT !.answer = v, !.row = w]
      BY <3>3
    <3>5. after = Parts(after)
      BY <3>2, <3>4 DEF Parts
    <3>6. QED
      BY <3>1, <3>5
  <2> HIDE DEF after
  <2>5. /\ g = Parts(g) /\ g.heard = Append(after.heard, [record |-> r, known |-> TRUE, said |-> after.answer])
        /\ g.answer = after.answer /\ g.trail = after.trail /\ g.lapsed = after.lapsed /\ g.row = after.row
    BY <2>1, <2>4 DEF Parts
  <2> HIDE DEF g
  <2>7. Judged(g, h, r)
    BY <1>5, <2>3, <2>5 DEF Judged, Heeded
  <2>8. QED
    BY <1>5, <2>5, <2>7 DEF g
<1>6. QED
  BY <1>0, <1>1, <1>2, <1>3, <1>4, <1>5

\* Nothing held is something to hold.
LEMMA NothingHeld ==
  /\ NoAnswer \in Answer /\ NotLapsed \in [answer : Answer, trail : Seq(Sample), expiry : Nat]
  /\ NoAnswer.phase = "none" /\ NotLapsed.answer = NoAnswer /\ NotLapsed.trail = <<>> /\ NotLapsed.expiry = 0
<1>1. NoAnswer \in Answer
  <2>1. "none" \in Places
    BY DEF Places
  <2>2. "none" \in Phases
    BY DEF Phases
  <2>3. QED
    BY <2>1, <2>2 DEF NoAnswer, Answer
<1>2. <<>> \in Seq(Sample)
  OBVIOUS
<1>3. QED
  BY <1>1, <1>2 DEF NotLapsed, NoAnswer

\* What a step makes of a hold is a hold.
LEMMA ConsiderTyped ==
  ASSUME NEW h \in Hold, NEW e \in AirEvent, cIndex \in BOOLEAN
  PROVE  ConsiderEvent(h, e) \in Hold
<1> DEFINE r == e.record
           g == ConsiderEvent(h, e)
<1>0. r \in AirRecord /\ NoAnswer \in Answer /\ <<>> \in Seq(Sample) /\ r.field \in Places /\ r.seen \in Nat
  <2>1. r \in AirRecord
    BY DEF AirEvent
  <2>2. <<>> \in Seq(Sample)
    OBVIOUS
  <2>3. QED
    BY <2>1, <2>2, NothingHeld DEF AirRecord
<1>1. NotLapsed \in [answer : Answer, trail : Seq(Sample), expiry : Nat]
  BY NothingHeld
<1>2. g = Parts(g)
  BY ConsiderDoes
<1>3. ASSUME NEW x \in Told PROVE Append(h.heard, x) \in Seq(Told)
  BY HoldIs
<1>4. ASSUME NEW known \in BOOLEAN, NEW said \in Answer PROVE Heeded(h, r, known, said) \in Seq(Told)
  <2>1. [record |-> r, known |-> known, said |-> said] \in Told
    BY <1>0 DEF Told
  <2>2. QED
    BY <1>3, <2>1 DEF Heeded
<1>5. SUFFICES /\ g.answer \in Answer /\ g.trail \in Seq(Sample) /\ g.row \in Row /\ g.heard \in Seq(Told)
               /\ g.lapsed \in [answer : Answer, trail : Seq(Sample), expiry : Nat]
  <2> HIDE DEF g
  <2>1. g \in Hold
    BY <1>2, <1>5 DEF Hold, Row, Parts
  <2>2. QED
    BY <2>1 DEF g
<1>6. Now(h, r) \in Phases /\ Old(h, r) \in Seq(Sample) /\ Prior(h, r) \in Answer
  <2>1. Old(h, r) \in Seq(Sample) /\ Prior(h, r) \in Answer
    BY HoldIs DEF Old, Prior
  <2>2. Phase(r, Old(h, r)) \in Phases
    BY DEF Phase, Phases
  <2>3. QED
    BY <2>1, <2>2 DEF Now, Latched, Answer, Phases
<1>7. CASE Removed(g, h, r)
  <2>1. r.seen + PhaseGrace \in Nat
    BY <1>0, AirConstants
  <2>2. QED
    BY <1>0, <1>1, <1>7, <2>1, HoldIs DEF Removed
<1>8. CASE g = h
  BY <1>8, HoldIs
<1>9. CASE Unlooked(g, h, r)
  BY <1>4, <1>9, HoldIs DEF Unlooked
<1>10. CASE Forgotten(g, h, r)
  BY <1>0, <1>1, <1>4, <1>10, HoldIs DEF Forgotten
<1>11. CASE Judged(g, h, r)
  <2>1. g.answer \in Answer
    BY <1>0, <1>6, <1>11 DEF Judged, Answer
  <2>2. g.trail \in Seq(Sample)
    BY <1>0, <1>6, <1>11, RememberedIs DEF Judged
  <2>3. g.row \in Row
    <3>1. h.row \in Row
      BY HoldIs
    <3>2. RowWith(h.row, r.field, Now(h, r)) \in Row
      BY <1>0, <1>6, <3>1, RowWithIs
    <3>3. QED
      BY <1>11, <3>1, <3>2 DEF Judged
  <2>4. QED
    BY <1>1, <1>4, <1>11, <2>1, <2>2, <2>3 DEF Judged
<1>12. QED
  BY <1>7, <1>8, <1>9, <1>10, <1>11, ConsiderDoes

\* The queue from event i on: nothing older than what was, and what follows event i when none is lost.
LEMMA QueueFrom ==
  ASSUME AirShape, EventsInv, LinkInv, NEW i \in 1 .. Len(cSub.queue)
  PROVE  LET e == cSub.queue[i]
         IN  /\ e \in AirEvent /\ e.record \in AirRecord /\ e.record.seen \in Nat
             /\ \A b \in Int : Rest(i - 1, b) => Rest(i, b) /\ b <= e.record.seen
             /\ \A b \in Int : b <= After(e) => Rest(i, b)
             /\ ~cLost /\ i = Len(cSub.queue) => IF cLive = Gone THEN e.kind = "removed" ELSE e = AsSeen(cLive)
             /\ ~cLost /\ i # Len(cSub.queue) => Follows(e, cSub.queue[i + 1])
<1> DEFINE q == cSub.queue
           e == q[i]
<1>1. q \in Seq(AirEvent) /\ Len(q) \in Nat /\ DOMAIN q = 1 .. Len(q) /\ \A j \in 1 .. Len(q) : q[j] \in AirEvent
  BY DEF AirShape
<1>2. \A f \in AirEvent : f.record \in AirRecord /\ f.record.seen \in Nat
  BY DEF AirEvent, AirRecord
<1>3. LiveFrom \in Int
  BY DEF AirShape, LiveFrom, AirRecord
<1>4. \A f \in AirEvent : After(f) \in Int
  BY <1>2, AirConstants DEF After
<1> HIDE DEF q
<1>5. ASSUME NEW b \in Int, Rest(i - 1, b) PROVE Rest(i, b) /\ b <= e.record.seen
  <2>1. b <= LiveFrom /\ \A j \in i - 1 + 1 .. Len(q) : b <= q[j].record.seen
    BY <1>5 DEF Rest, q
  <2>2. i \in i - 1 + 1 .. Len(q) /\ \A j \in i + 1 .. Len(q) : j \in i - 1 + 1 .. Len(q)
    BY <1>1 DEF q
  <2>3. QED
    BY <2>1, <2>2 DEF Rest, q
<1>6. ASSUME NEW b \in Int, b <= After(e) PROVE Rest(i, b)
  <2>1. i \in DOMAIN q
    BY <1>1 DEF q
  <2>2. After(e) <= LiveFrom /\ \A j \in i + 1 .. Len(q) : After(e) <= q[j].record.seen
    BY <2>1 DEF EventsInv, q
  <2>3. After(e) \in Int /\ \A j \in i + 1 .. Len(q) : q[j].record.seen \in Nat
    BY <1>1, <1>2, <1>4, <2>1
  <2>4. b <= LiveFrom /\ \A j \in i + 1 .. Len(q) : b <= q[j].record.seen
    BY <1>3, <1>6, <2>2, <2>3
  <2>5. QED
    BY <2>4 DEF Rest, q
<1>7. ASSUME ~cLost PROVE /\ i = Len(q) => IF cLive = Gone THEN e.kind = "removed" ELSE e = AsSeen(cLive)
                          /\ i # Len(q) => Follows(e, q[i + 1])
  <2>1. q # <<>>
    BY <1>1 DEF q
  <2>2. /\ \A j \in 2 .. Len(q) : Follows(q[j - 1], q[j])
        /\ IF cLive = Gone THEN q[Len(q)].kind = "removed" ELSE q[Len(q)] = AsSeen(cLive)
    BY <1>7, <2>1 DEF LinkInv, q
  <2>3. i # Len(q) => i + 1 \in 2 .. Len(q) /\ i + 1 - 1 = i
    BY <1>1 DEF q
  <2>4. QED
    BY <2>2, <2>3
<1>8. i \in 1 .. Len(q)
  BY DEF q
<1>9. QED
  BY <1>1, <1>2, <1>5, <1>6, <1>7, <1>8 DEF q

\* What the last position heard says of event i.
LEMMA LastHeard ==
  ASSUME AirShape, EventsInv, LinkInv, NEW i \in 1 .. Len(cSub.queue), NEW h \in Hold, HoldInv(h, i - 1)
  PROVE  LET e == cSub.queue[i]
             last == h.heard[Len(h.heard)]
         IN  /\ h.heard # <<>> =>
                  /\ last \in Told /\ last.record.seen \in Nat /\ Len(h.heard) \in DOMAIN h.heard
                  /\ last.record.seen <= e.record.seen /\ Rest(i, last.record.seen)
                  /\ last.record.field # "unknown"
             /\ ~cLost /\ h.answer # NoAnswer => h.heard # <<>> /\ Follows(AsSeen(last.record), e)
<1> DEFINE e == cSub.queue[i]
           n == Len(h.heard)
           last == h.heard[n]
<1>1. h.heard \in Seq(Told)
  BY HoldIs
<1>2. HeardInv(h, i - 1) /\ LinkedInv(h, i - 1)
  BY DEF HoldInv
<1>3. ASSUME h.heard # <<>>
      PROVE  /\ last \in Told /\ last.record.seen \in Nat /\ n \in DOMAIN h.heard
             /\ last.record.seen <= e.record.seen /\ Rest(i, last.record.seen)
             /\ last.record.field # "unknown"
  <2>1. n \in DOMAIN h.heard /\ last \in Told
    BY <1>1, <1>3
  <2>2. last.record.seen \in Nat
    BY <2>1 DEF Told, AirRecord
  <2>3. Rest(i - 1, last.record.seen) /\ last.record.field # "unknown"
    BY <1>2, <1>3, <2>1 DEF HeardInv
  <2>4. QED
    BY <2>1, <2>2, <2>3, QueueFrom
<1>4. ASSUME ~cLost, h.answer # NoAnswer PROVE h.heard # <<>> /\ Follows(AsSeen(last.record), e)
  <2>1. i - 1 # Len(cSub.queue) /\ i - 1 + 1 = i
    <3>1. Len(cSub.queue) \in Nat
      BY DEF AirShape
    <3>2. QED
      BY <3>1
  <2>2. QED
    BY <1>2, <1>4, <2>1 DEF LinkedInv
<1>5. QED
  BY <1>3, <1>4

\* A removal sets aside what was held (_lapse).
LEMMA RemovedKeeps ==
  ASSUME AirShape, EventsInv, LinkInv, NEW i \in 1 .. Len(cSub.queue), NEW h \in Hold, HoldInv(h, i - 1), NEW g \in Hold,
         cSub.queue[i].kind = "removed", Removed(g, h, cSub.queue[i].record)
  PROVE  HoldInv(g, i)
<1> DEFINE e == cSub.queue[i]
           r == e.record
           n == Len(h.heard)
           last == h.heard[n]
<1>0. /\ HeardInv(h, i - 1) /\ LapsedInv(h) /\ HoldsInv(h) /\ LinkedInv(h, i - 1) /\ EarnedInv(h) /\ LatchInv(h, i - 1)
      /\ r.seen \in Nat /\ RemoveAfter \in Nat \ {0} /\ PhaseGrace \in Nat /\ After(e) = r.seen + RemoveAfter
  BY QueueFrom, AirConstants DEF HoldInv, After
<1>a. \A s, b \in Nat : /\ s + RemoveAfter \in Int /\ s + PhaseGrace \in Int /\ s + 2 * RemoveAfter \in Int
                        /\ s <= b => s + RemoveAfter <= b + RemoveAfter /\ b + PhaseGrace >= s + PhaseGrace
                        /\ s + RemoveAfter <= b => s + 2 * RemoveAfter <= b + RemoveAfter
  BY AirConstants
<1>1. g.heard = h.heard /\ g.answer = NoAnswer /\ g.trail = <<>> /\ g.row = h.row
  BY DEF Removed
<1>2. HeardInv(g, i)
  BY <1>0, <1>1, LastHeard DEF HeardInv
<1>3. LapsedInv(g) /\ LinkedInv(g, i)
  BY <1>1, NothingHeld DEF LapsedInv, LinkedInv, Removed
<1>4. TrailOf(<<>>, h.heard) /\ Shown(NoAnswer, h.heard) /\ Earned(NoAnswer, h.heard)
  BY NothingHeld DEF TrailOf, Shown, Earned
<1>5. HoldsInv(g)
  BY <1>0, <1>1, <1>4, NothingHeld DEF HoldsInv, Removed
<1>6. EarnedInv(g)
  <2> SUFFICES ASSUME ~cLost, \A j \in DOMAIN h.heard : h.heard[j].known
               PROVE  /\ Earned(g.answer, g.heard) /\ Earned(g.lapsed.answer, g.heard)
                      /\ g.lapsed # NotLapsed => g.heard # <<>> /\ g.lapsed.expiry = g.heard[Len(g.heard)].record.seen + PhaseGrace
    BY <1>1 DEF EarnedInv
  <2>1. Earned(h.answer, h.heard)
    BY <1>0 DEF EarnedInv
  <2>2. CASE g.lapsed = NotLapsed
    BY <1>1, <1>4, <2>2, NothingHeld
  <2>3. CASE g.lapsed # NotLapsed
    <3>1. h.answer # NoAnswer /\ g.lapsed = [answer |-> h.answer, trail |-> h.trail, expiry |-> r.seen + PhaseGrace]
      BY <2>3 DEF Removed
    <3>2. h.heard # <<>> /\ last.record = r
      <4>1. h.heard # <<>> /\ Follows(AsSeen(last.record), e)
        BY <3>1, LastHeard
      <4>2. QED
        BY <4>1 DEF Follows, AsSeen
    <3>3. QED
      BY <1>1, <1>4, <2>1, <3>1, <3>2
  <2>4. QED
    BY <2>2, <2>3
<1>7. LatchInv(g, i)
  <2>1. SUFFICES ASSUME h.heard # <<>>, last.known, last.said.phase # "none"
                 PROVE  \/ /\ g.lapsed # NotLapsed /\ g.lapsed.answer = last.said
                           /\ g.lapsed.expiry >= last.record.seen + PhaseGrace
                           /\ Rest(i, last.record.seen + RemoveAfter)
                        \/ Rest(i, last.record.seen + PhaseGrace) \/ Rest(i, last.record.seen + 2 * RemoveAfter)
    BY <1>0, <1>1 DEF LatchInv
  <2>2. last.record.seen \in Nat /\ last.record.seen <= r.seen /\ Rest(i, last.record.seen)
    BY <2>1, LastHeard
  <2>3. CASE h.answer = last.said
    <3>1. CASE PhaseGrace = 0
      BY <2>2, <3>1
    <3>2. CASE PhaseGrace # 0
      <4>1. h.answer # NoAnswer
        BY <2>1, <2>3, NothingHeld
      <4>2. g.lapsed = [answer |-> h.answer, trail |-> h.trail, expiry |-> r.seen + PhaseGrace]
        BY <3>2, <4>1 DEF Removed
      <4>3. g.lapsed # NotLapsed
        BY <4>1, <4>2, NothingHeld
      <4>4. Rest(i, last.record.seen + RemoveAfter)
        <5>1. last.record.seen + RemoveAfter <= r.seen + RemoveAfter /\ last.record.seen + RemoveAfter \in Int
          BY <1>0, <1>a, <2>2
        <5>2. QED
          BY <1>0, <5>1, QueueFrom
      <4>5. g.lapsed.expiry >= last.record.seen + PhaseGrace
        <5>1. r.seen + PhaseGrace >= last.record.seen + PhaseGrace
          BY <1>0, <1>a, <2>2
        <5>2. g.lapsed.expiry = r.seen + PhaseGrace
          BY <4>2
        <5>3. QED
          BY <5>1, <5>2
      <4>6. QED
        BY <2>3, <4>2, <4>3, <4>4, <4>5
    <3>3. QED
      BY <3>1, <3>2
  <2>4. CASE Rest(i - 1, last.record.seen + RemoveAfter)
    <3>1. last.record.seen + RemoveAfter <= r.seen
      BY <1>0, <2>2, <2>4, QueueFrom, SMTT(30)
    <3>2. last.record.seen + 2 * RemoveAfter <= After(e) /\ last.record.seen + 2 * RemoveAfter \in Int
      BY <1>0, <1>a, <2>2, <3>1
    <3>3. QED
      BY <3>2, QueueFrom
  <2>5. CASE \/ Rest(i - 1, last.record.seen + PhaseGrace) \/ Rest(i - 1, last.record.seen + 2 * RemoveAfter)
    <3>1. last.record.seen + PhaseGrace \in Int /\ last.record.seen + 2 * RemoveAfter \in Int
      BY <1>a, <2>2
    <3>2. QED
      BY <2>5, <3>1, QueueFrom
  <2>6. QED
    BY <1>0, <2>1, <2>3, <2>4, <2>5 DEF LatchInv
<1>8. QED
  BY <1>2, <1>3, <1>5, <1>6, <1>7 DEF HoldInv

\* A report without a position is not looked at, nor anything held of the aircraft.
LEMMA UnplacedKeeps ==
  ASSUME AirShape, EventsInv, LinkInv, NEW i \in 1 .. Len(cSub.queue), NEW h \in Hold, HoldInv(h, i - 1),
         cSub.queue[i].kind = "seen", cSub.queue[i].record.field = "unknown"
  PROVE  HoldInv(h, i)
<1> DEFINE n == Len(h.heard)
           last == h.heard[n]
<1>0. /\ HeardInv(h, i - 1) /\ LapsedInv(h) /\ HoldsInv(h) /\ EarnedInv(h) /\ LatchInv(h, i - 1)
      /\ RemoveAfter \in Nat \ {0} /\ PhaseGrace \in Nat
  BY AirConstants DEF HoldInv
<1>1. HeardInv(h, i)
  BY <1>0, LastHeard DEF HeardInv
<1>2. LinkedInv(h, i)
  <2>1. SUFFICES ASSUME ~cLost, h.answer # NoAnswer PROVE FALSE
    BY DEF LinkedInv
  <2>2. h.heard # <<>> /\ Follows(AsSeen(last.record), cSub.queue[i]) /\ last.record.field # "unknown"
    BY <2>1, LastHeard
  <2>3. QED
    BY <2>2 DEF Follows, AsSeen
<1>3. LatchInv(h, i)
  <2>1. SUFFICES ASSUME h.heard # <<>>, last.known, last.said.phase # "none"
                 PROVE  \A b \in {last.record.seen + RemoveAfter, last.record.seen + PhaseGrace,
                                  last.record.seen + 2 * RemoveAfter} : Rest(i - 1, b) => Rest(i, b)
    BY <1>0 DEF LatchInv
  <2>2. last.record.seen \in Nat
    BY <2>1, LastHeard
  <2>3. \A b \in {last.record.seen + RemoveAfter, last.record.seen + PhaseGrace,
                  last.record.seen + 2 * RemoveAfter} : b \in Int
    BY <1>0, <2>2
  <2>4. QED
    BY <2>3, QueueFrom
<1>4. QED
  BY <1>0, <1>1, <1>2, <1>3 DEF HoldInv

\* What was shown, and earned, still is when one more is heard; earned, if the aircraft stayed.
LEMMA ShownGrows ==
  ASSUME NEW notes \in Seq(Told), NEW x \in Told, NEW a, a.phase \in Phases, Shown(a, notes)
  PROVE  Shown(a, Append(notes, x))
<1> DEFINE more == Append(notes, x)
<1>1. SUFFICES ASSUME a.phase # "none"
               PROVE  \E i \in DOMAIN more : more[i].record.field = a.field /\ ShownIn(more, i, a.phase)
  BY DEF Shown
<1>2. PICK i \in DOMAIN notes : notes[i].record.field = a.field /\ ShownIn(notes, i, a.phase)
  BY <1>1 DEF Shown
<1>3. i \in 1 .. Len(notes) /\ i \in DOMAIN more
  BY HeardGrows
<1>4. more[i] = notes[i] /\ ShownIn(more, i, a.phase)
  BY <1>2, <1>3, HeardGrows
<1>5. QED
  BY <1>2, <1>3, <1>4

\* The aircraft stayed, up to the last position heard.
Stays(notes, k) == StayedIn(notes, k) /\ (SilenceIn(notes, k) < PhaseGrace \/ SilenceIn(notes, k) <= RemoveAfter)

\* A phase that was earned stays so when the next position is heard at the same field in time.
LEMMA EarnedGrows ==
  ASSUME NEW notes \in Seq(Told), NEW x \in Told, NEW a, a.phase \in Phases, Earned(a, notes),
         a.phase # "none" => x.record.field = a.field /\ Stays(Append(notes, x), Len(notes) + 1)
  PROVE  Earned(a, Append(notes, x))
<1> DEFINE more == Append(notes, x)
           n    == Len(notes)
<1>1. SUFFICES ASSUME a.phase # "none"
               PROVE  /\ more # <<>> /\ more[Len(more)].record.field = a.field
                      /\ \E i \in DOMAIN more :
                           /\ more[i].record.field = a.field /\ ShownIn(more, i, a.phase)
                           /\ \A k \in i + 1 .. Len(more) : Stays(more, k)
  BY DEF Earned, Stays
<1>2. PICK i \in DOMAIN notes : /\ notes[i].record.field = a.field /\ ShownIn(notes, i, a.phase)
                                /\ \A k \in i + 1 .. n : Stays(notes, k)
  BY <1>1 DEF Earned, Stays
<1>3. i \in 1 .. n /\ i \in DOMAIN more /\ n \in Nat /\ Len(more) = n + 1 /\ more # <<>> /\ more[n + 1] = x
  BY HeardGrows
<1>4. more[i] = notes[i] /\ ShownIn(more, i, a.phase)
  BY <1>2, <1>3, HeardGrows
<1>5. ASSUME NEW k \in i + 1 .. Len(more) PROVE Stays(more, k)
  <2>1. CASE k = n + 1
    BY <1>1, <2>1
  <2>2. CASE k # n + 1
    <3>1. k \in i + 1 .. n /\ k \in 2 .. n
      BY <1>3, <2>2
    <3>2. StayedIn(more, k) <=> StayedIn(notes, k)
      BY <3>1, HeardGrows
    <3>3. SilenceIn(more, k) = SilenceIn(notes, k)
      BY <3>1, HeardGrows
    <3>4. QED
      BY <1>2, <3>1, <3>2, <3>3 DEF Stays
  <2>3. QED
    BY <2>1, <2>2
<1>6. QED
  BY <1>1, <1>2, <1>3, <1>4, <1>5

\* What holds whatever is said of the new position: the positions are in order, the last one is where the
\* aircraft is, and what was said of the earlier ones stands.
LEMMA HeededGrows ==
  ASSUME AirShape, EventsInv, LinkInv, NEW i \in 1 .. Len(cSub.queue), NEW h \in Hold, HoldInv(h, i - 1), NEW g \in Hold,
         cSub.queue[i].kind = "seen", cSub.queue[i].record.field # "unknown", NEW known \in BOOLEAN, NEW said \in Answer,
         g.heard = Heeded(h, cSub.queue[i].record, known, said)
  PROVE  /\ HeardInv(g, i) /\ LinkedInv(g, i)
         /\ \A j \in 2 .. Len(h.heard) :
              g.heard[j - 1].known /\ g.heard[j - 1].said.phase # "none" /\ StayedIn(g.heard, j)
                /\ SilenceIn(g.heard, j) < PhaseGrace /\ SilenceIn(g.heard, j) < 2 * RemoveAfter => g.heard[j].said.phase # "none"
<1> DEFINE e == cSub.queue[i]
           r == e.record
           x == [record |-> r, known |-> known, said |-> said]
           n == Len(h.heard)
<1>1. r \in AirRecord /\ r.seen \in Nat /\ x \in Told /\ h.heard \in Seq(Told) /\ n \in Nat
  <2>1. r \in AirRecord /\ r.seen \in Nat /\ h.heard \in Seq(Told)
    BY QueueFrom, HoldIs
  <2>2. QED
    BY <2>1 DEF Told
<1>2. g.heard = Append(h.heard, x)
  BY DEF Heeded
<1>3. Len(g.heard) = n + 1 /\ g.heard[n + 1] = x /\ g.heard # <<>> /\ DOMAIN g.heard = 1 .. n + 1
      /\ DOMAIN h.heard = 1 .. n /\ \A k \in 1 .. n : g.heard[k] = h.heard[k]
  BY <1>1, <1>2, HeardGrows
<1>4. HeardInv(h, i - 1) /\ LatchInv(h, i - 1)
  BY DEF HoldInv
<1>5. x.record = r
  OBVIOUS
<1> HIDE DEF x
<1>6. ASSUME NEW j \in 1 .. n PROVE h.heard[j].record.field # "unknown" /\ h.heard[j].record.seen <= r.seen
  <2>1. h.heard # <<>> /\ n \in j .. n /\ h.heard[n].record.seen <= r.seen /\ h.heard[n].record.seen \in Nat
    BY <1>1, <1>3, LastHeard
  <2>2. h.heard[j].record.seen <= h.heard[n].record.seen /\ h.heard[j].record.field # "unknown"
    BY <1>3, <1>4, <2>1 DEF HeardInv
  <2>3. h.heard[j].record.seen \in Nat
    <3>1. h.heard[j] \in Told
      BY <1>1, <1>3
    <3>2. QED
      BY <3>1 DEF Told, AirRecord
  <2>4. \A x1, x2, x3 \in Nat : x1 <= x2 /\ x2 <= x3 => x1 <= x3
    BY SMTT(30)
  <2>5. QED
    BY <1>1, <2>1, <2>2, <2>3, <2>4, Zenon
<1>7. HeardInv(g, i)
  <2>1. ASSUME NEW j \in 1 .. n + 1 PROVE g.heard[j].record.field # "unknown"
    BY <1>3, <1>5, <1>6, SMTT(30)
  <2>2. ASSUME NEW j \in 1 .. n + 1, NEW k \in j .. n + 1 PROVE g.heard[j].record.seen <= g.heard[k].record.seen
    <3>1. CASE k = n + 1 /\ j = n + 1
      BY <1>1, <1>3, <1>5, <3>1
    <3>2. CASE k = n + 1 /\ j # n + 1
      <4>1. j \in 1 .. n
        BY <1>1, <3>2
      <4>2. g.heard[j] = h.heard[j] /\ g.heard[k].record = r
        BY <1>3, <1>5, <3>2, <4>1
      <4>3. QED
        BY <1>6, <4>1, <4>2
    <3>3. CASE k # n + 1
      <4>1. j \in 1 .. n /\ k \in j .. n /\ k \in 1 .. n
        BY <1>1, <3>3, SMTT(30)
      <4>2. QED
        BY <1>3, <1>4, <4>1 DEF HeardInv
    <3>4. QED
      BY <3>1, <3>2, <3>3
  <2>3. Rest(i, r.seen)
    <3>1. After(e) = r.seen /\ r.seen <= r.seen
      BY <1>1 DEF After
    <3>2. QED
      BY <1>1, <3>1, QueueFrom
  <2>4. QED
    BY <1>3, <1>5, <2>1, <2>2, <2>3 DEF HeardInv
<1>8. LinkedInv(g, i)
  <2>1. SUFFICES ASSUME ~cLost
                 PROVE  IF i = Len(cSub.queue) THEN cLive = r ELSE Follows(AsSeen(r), cSub.queue[i + 1])
    BY <1>3, <1>5 DEF LinkedInv
  <2>2. CASE i = Len(cSub.queue)
    <3>1. cLive # Gone /\ e = AsSeen(cLive)
      BY <2>1, <2>2, QueueFrom
    <3>2. QED
      BY <2>2, <3>1 DEF AsSeen
  <2>3. CASE i # Len(cSub.queue)
    <3>1. Follows(e, cSub.queue[i + 1])
      BY <2>1, <2>3, QueueFrom
    <3>2. e = AsSeen(r)
      <4>1. e \in AirEvent
        BY QueueFrom
      <4>2. QED
        BY <4>1 DEF AirEvent, AsSeen
    <3>3. QED
      BY <2>3, <3>1, <3>2
  <2>4. QED
    BY <2>2, <2>3
<1>9. ASSUME NEW j \in 2 .. n, g.heard[j - 1].known, g.heard[j - 1].said.phase # "none", StayedIn(g.heard, j),
             SilenceIn(g.heard, j) < PhaseGrace, SilenceIn(g.heard, j) < 2 * RemoveAfter
      PROVE  g.heard[j].said.phase # "none"
  <2>1. j - 1 \in 1 .. n /\ j \in 1 .. n
    BY <1>1
  <2>2. g.heard[j - 1] = h.heard[j - 1] /\ g.heard[j] = h.heard[j]
    BY <1>3, <2>1
  <2>3. StayedIn(h.heard, j) /\ SilenceIn(h.heard, j) = SilenceIn(g.heard, j)
    BY <1>9, <2>2 DEF StayedIn, SilenceIn
  <2>4. QED
    BY <1>4, <1>9, <2>2, <2>3 DEF LatchInv
<1>10. QED
  BY <1>7, <1>8, <1>9

\* Without an index a position is heard and not looked at.
LEMMA UnlookedKeeps ==
  ASSUME AirShape, EventsInv, LinkInv, NEW i \in 1 .. Len(cSub.queue), NEW h \in Hold, HoldInv(h, i - 1), NEW g \in Hold,
         cSub.queue[i].kind = "seen", Unlooked(g, h, cSub.queue[i].record)
  PROVE  HoldInv(g, i)
<1> DEFINE r == cSub.queue[i].record
           x == [record |-> r, known |-> FALSE, said |-> h.answer]
           n == Len(h.heard)
<1>0. /\ LapsedInv(h) /\ HoldsInv(h) /\ EarnedInv(h) /\ LatchInv(h, i - 1)
      /\ g.answer = h.answer /\ g.trail = h.trail /\ g.lapsed = h.lapsed /\ g.row = h.row /\ r.field # "unknown"
      /\ g.heard = Heeded(h, r, FALSE, h.answer)
  BY DEF HoldInv, Unlooked
<1>1. /\ h.answer \in Answer /\ h.lapsed.answer \in Answer /\ h.row.phase \in Phases /\ h.heard \in Seq(Told)
      /\ h.trail \in Seq(Sample) /\ h.lapsed.trail \in Seq(Sample)
      /\ h.answer.phase \in Phases /\ h.lapsed.answer.phase \in Phases
  BY HoldIs DEF Row, Answer
<1>2. x \in Told /\ g.heard = Append(h.heard, x)
  <2>1. r \in AirRecord
    BY QueueFrom
  <2>2. QED
    BY <1>0, <1>1, <2>1 DEF Told, Heeded
<1>3. ~x.known /\ x.known = FALSE
  OBVIOUS
<1> HIDE DEF x
<1>4. HeardInv(g, i) /\ LinkedInv(g, i)
  BY <1>0, <1>1, HeededGrows
<1>5. LapsedInv(g)
  BY <1>0 DEF LapsedInv
<1>6. HoldsInv(g)
  <2>1. TrailOf(h.trail, Append(h.heard, x)) /\ TrailOf(h.lapsed.trail, Append(h.heard, x))
    BY <1>0, <1>1, <1>2, <1>3, TrailGrows DEF HoldsInv
  <2>2. Shown(h.answer, Append(h.heard, x)) /\ Shown(h.lapsed.answer, Append(h.heard, x)) /\ Shown(h.row, Append(h.heard, x))
    BY <1>0, <1>1, <1>2, ShownGrows DEF HoldsInv
  <2>3. QED
    BY <1>0, <1>2, <2>1, <2>2 DEF HoldsInv
<1>7. Len(g.heard) = n + 1 /\ g.heard[n + 1] = x /\ n \in Nat /\ n + 1 \in DOMAIN g.heard
  BY <1>1, <1>2, HeardGrows
<1>8. EarnedInv(g)
  BY <1>3, <1>7 DEF EarnedInv
<1>9. LatchInv(g, i)
  <2>1. \A j \in 2 .. n : g.heard[j - 1].known /\ g.heard[j - 1].said.phase # "none" /\ StayedIn(g.heard, j)
          /\ SilenceIn(g.heard, j) < PhaseGrace /\ SilenceIn(g.heard, j) < 2 * RemoveAfter => g.heard[j].said.phase # "none"
    BY <1>0, <1>1, HeededGrows
  <2>2. ~StayedIn(g.heard, n + 1)
    BY <1>3, <1>7 DEF StayedIn
  <2>3. \A j \in 2 .. Len(g.heard) : j \in 2 .. n \/ j = n + 1
    BY <1>7
  <2>4. QED
    BY <1>3, <1>7, <2>1, <2>2, <2>3 DEF LatchInv
<1>10. QED
  BY <1>4, <1>5, <1>6, <1>8, <1>9 DEF HoldInv

\* Out of range of every field, all that was held is dropped (_forget).
LEMMA ForgottenKeeps ==
  ASSUME AirShape, EventsInv, LinkInv, NEW i \in 1 .. Len(cSub.queue), NEW h \in Hold, HoldInv(h, i - 1), NEW g \in Hold,
         cSub.queue[i].kind = "seen", Forgotten(g, h, cSub.queue[i].record)
  PROVE  HoldInv(g, i)
<1> DEFINE r == cSub.queue[i].record
           x == [record |-> r, known |-> TRUE, said |-> NoAnswer]
           n == Len(h.heard)
           last == h.heard[n]
<1>0. /\ HoldsInv(h) /\ LatchInv(h, i - 1) /\ r.field = "none" /\ r.field # "unknown"
      /\ g.answer = NoAnswer /\ g.trail = <<>> /\ g.lapsed = NotLapsed /\ g.row = h.row
      /\ g.heard = Heeded(h, r, TRUE, NoAnswer)
  BY DEF HoldInv, Forgotten
<1>1. h.row.phase \in Phases /\ h.heard \in Seq(Told) /\ NoAnswer \in Answer
  BY HoldIs, NothingHeld DEF Row
<1>2. x \in Told /\ g.heard = Append(h.heard, x)
  <2>1. r \in AirRecord
    BY QueueFrom
  <2>2. QED
    BY <1>0, <1>1, <2>1 DEF Told, Heeded
<1>3. x.said.phase = "none" /\ x.record = r
  BY NothingHeld
<1> HIDE DEF x
<1>4. HeardInv(g, i) /\ LinkedInv(g, i)
  BY <1>0, <1>1, HeededGrows
<1>5. LapsedInv(g) /\ EarnedInv(g)
  BY <1>0, NothingHeld DEF LapsedInv, EarnedInv, Earned
<1>6. HoldsInv(g)
  <2>1. TrailOf(<<>>, g.heard) /\ Shown(NoAnswer, g.heard)
    BY NothingHeld DEF TrailOf, Shown
  <2>2. Shown(h.row, Append(h.heard, x))
    BY <1>0, <1>1, <1>2, ShownGrows DEF HoldsInv
  <2>3. QED
    BY <1>0, <1>2, <2>1, <2>2, NothingHeld DEF HoldsInv
<1>7. /\ Len(g.heard) = n + 1 /\ g.heard[n + 1] = x /\ n \in Nat /\ DOMAIN h.heard = 1 .. n
      /\ \A k \in 1 .. n : g.heard[k] = h.heard[k]
  BY <1>1, <1>2, HeardGrows
<1>8. LatchInv(g, i)
  <2>1. \A j \in 2 .. n : g.heard[j - 1].known /\ g.heard[j - 1].said.phase # "none" /\ StayedIn(g.heard, j)
          /\ SilenceIn(g.heard, j) < PhaseGrace /\ SilenceIn(g.heard, j) < 2 * RemoveAfter => g.heard[j].said.phase # "none"
    BY <1>0, <1>1, HeededGrows
  <2>2. ASSUME n + 1 \in 2 .. n + 1, g.heard[n + 1 - 1].known, g.heard[n + 1 - 1].said.phase # "none", StayedIn(g.heard, n + 1)
        PROVE  FALSE
    <3>1. n \in 1 .. n /\ n + 1 - 1 = n /\ h.heard # <<>> /\ g.heard[n] = last
      BY <1>7, <2>2, SMTT(30)
    <3>2. last.record.field # "none"
      BY <1>0, <2>2, <3>1 DEF LatchInv
    <3>3. r.field = last.record.field
      BY <1>3, <1>7, <2>2, <3>1 DEF StayedIn
    <3>4. QED
      BY <1>0, <3>2, <3>3
  <2>3. \A j \in 2 .. Len(g.heard) : j \in 2 .. n \/ (j = n + 1 /\ j - 1 = n /\ j \in 2 .. n + 1)
    BY <1>7
  <2>4. QED
    BY <1>3, <1>7, <2>1, <2>2, <2>3 DEF LatchInv
<1>9. QED
  BY <1>4, <1>5, <1>6, <1>8 DEF HoldInv

\* Near a field, a phase is said when the positions show it or it is latched there (_latched, _persist).
LEMMA JudgedKeeps ==
  ASSUME AirShape, EventsInv, LinkInv, NEW i \in 1 .. Len(cSub.queue), NEW h \in Hold, HoldInv(h, i - 1), NEW g \in Hold,
         cSub.queue[i].kind = "seen", Judged(g, h, cSub.queue[i].record)
  PROVE  HoldInv(g, i)
<1> DEFINE r == cSub.queue[i].record
           x == [record |-> r, known |-> TRUE, said |-> g.answer]
           n == Len(h.heard)
           last == h.heard[n]
           prior == Prior(h, r)
           old == Old(h, r)
           ans == Now(h, r)
           more == Append(h.heard, x)
<1>0. /\ HeardInv(h, i - 1) /\ LapsedInv(h) /\ HoldsInv(h) /\ EarnedInv(h) /\ LatchInv(h, i - 1)
      /\ r.field # "unknown" /\ r.field # "none" /\ g.lapsed = NotLapsed /\ g.trail = Remembered(old, r)
      /\ g.answer = (IF InContext(r) THEN [field |-> r.field, phase |-> ans] ELSE NoAnswer)
      /\ g.row = h.row \/ (InContext(r) /\ g.row = RowWith(h.row, r.field, ans))
      /\ g.heard = Heeded(h, r, TRUE, g.answer)
  BY DEF HoldInv, Judged
<1>1. /\ h.answer \in Answer /\ h.lapsed.answer \in Answer /\ h.row \in Row /\ h.heard \in Seq(Told) /\ g.answer \in Answer
      /\ h.trail \in Seq(Sample) /\ h.lapsed.trail \in Seq(Sample) /\ h.lapsed.expiry \in Nat
      /\ r \in AirRecord /\ r.seen \in Nat /\ r.field \in Places
  <2>1. r \in AirRecord /\ r.seen \in Nat
    BY QueueFrom
  <2>2. QED
    BY <2>1, HoldIs DEF AirRecord
<1>2. x \in Told /\ g.heard = more
  BY <1>0, <1>1 DEF Told, Heeded
<1>3. x.record = r /\ x.known /\ x.known = TRUE /\ x.said = g.answer
  OBVIOUS
<1>4. /\ Len(more) = n + 1 /\ more[n + 1] = x /\ n \in Nat /\ DOMAIN h.heard = 1 .. n /\ DOMAIN more = 1 .. n + 1
      /\ \A k \in 1 .. n : more[k] = h.heard[k]
  BY <1>1, <1>2, HeardGrows
<1>5. /\ prior \in Answer /\ old \in Seq(Sample) /\ TrailOf(old, h.heard) /\ Shown(prior, h.heard)
      /\ prior.phase \in Phases /\ h.row.phase \in Phases /\ h.row.field \in Places
  BY <1>0, <1>1 DEF Prior, Old, HoldsInv, Answer, Row
<1>a. \A s, b \in Nat : /\ s + PhaseGrace \in Nat /\ s + 2 * RemoveAfter \in Nat
                        /\ b - s < PhaseGrace <=> b < s + PhaseGrace
                        /\ b - s <= RemoveAfter <=> b <= s + RemoveAfter
                        /\ b - s < 2 * RemoveAfter <=> b < s + 2 * RemoveAfter
  BY AirConstants
<1> HIDE DEF x, more, prior, old, ans
<1>6. HeardInv(g, i) /\ LinkedInv(g, i)
  BY <1>0, <1>1, HeededGrows
<1>7. LapsedInv(g)
  BY <1>0 DEF LapsedInv
<1>8. /\ ans \in Phases
      /\ ans # "none" => \/ ShownIn(more, n + 1, ans)
                         \/ prior.field = r.field /\ prior.phase = ans
      /\ prior.field = r.field /\ prior.phase # "none" => ans # "none"
  <2>1. Phase(r, old) \in Phases /\ (Phase(r, old) # "none" => ShownIn(more, n + 1, Phase(r, old)))
    BY <1>0, <1>1, <1>2, <1>3, <1>5, PhaseShown DEF HeardInv, more
  <2>2. ans = Latched(prior, r, Phase(r, old))
    BY DEF ans, prior, old, Now
  <2>3. "none" \in Phases
    BY DEF Phases
  <2>4. QED
    BY <1>5, <2>1, <2>2, <2>3 DEF Latched
<1>9. ans # "none" => \E j \in DOMAIN more : more[j].record.field = r.field /\ ShownIn(more, j, ans)
  <2>1. CASE ShownIn(more, n + 1, ans)
    BY <1>3, <1>4, <2>1
  <2>2. CASE ans # "none" /\ prior.field = r.field /\ prior.phase = ans
    <3>1. Shown(prior, more)
      BY <1>1, <1>2, <1>5, ShownGrows DEF more
    <3>2. QED
      BY <2>2, <3>1 DEF Shown
  <2>3. QED
    BY <1>8, <2>1, <2>2
<1>10. HoldsInv(g)
  <2>1. TrailOf(g.trail, more) /\ TrailOf(<<>>, more)
    <3>1. TrailOf(Remembered(old, r), more)
      BY <1>1, <1>2, <1>3, <1>5, TrailGrows DEF more
    <3>2. QED
      BY <1>0, <3>1 DEF TrailOf
  <2>2. Shown(g.answer, more) /\ Shown(NoAnswer, more)
    BY <1>0, <1>9, NothingHeld DEF Shown
  <2>3. Shown(g.row, more)
    <3>1. Shown(h.row, more)
      BY <1>0, <1>1, <1>2, <1>5, ShownGrows DEF HoldsInv, more
    <3>2. CASE g.row = h.row
      BY <3>1, <3>2
    <3>3. CASE g.row = RowWith(h.row, r.field, ans)
      <4>1. \/ g.row.phase = h.row.phase /\ g.row.field = h.row.field
            \/ g.row.phase = ans /\ g.row.field = r.field
        BY <1>1, <1>8, <3>3, RowWithIs
      <4>2. QED
        BY <1>9, <3>1, <4>1 DEF Shown
    <3>4. QED
      BY <1>0, <3>2, <3>3
  <2>4. QED
    BY <1>0, <1>2, <2>1, <2>2, <2>3, NothingHeld DEF HoldsInv
<1>11. ~Back(h, r) => prior = h.answer
  BY DEF Back, prior, Prior
<1>12. Back(h, r) => prior = h.lapsed.answer /\ h.lapsed # NotLapsed /\ h.lapsed.expiry > r.seen
  BY <1>1, NothingHeld DEF Back, prior, Prior
<1>13. EarnedInv(g)
  <2> SUFFICES ASSUME ~cLost, \A j \in DOMAIN more : more[j].known
               PROVE  Earned(g.answer, more)
    BY <1>0, <1>2, NothingHeld, Zenon DEF EarnedInv, Earned
  <2>1. \A j \in DOMAIN h.heard : h.heard[j].known
    BY <1>4
  <2>2. /\ Earned(h.answer, h.heard) /\ Earned(h.lapsed.answer, h.heard)
        /\ h.lapsed # NotLapsed => h.heard # <<>> /\ h.lapsed.expiry = last.record.seen + PhaseGrace
    BY <1>0, <2>1 DEF EarnedInv
  <2>3. Earned(prior, h.heard)
    BY <1>11, <1>12, <2>2
  <2>4. CASE g.answer.phase = "none"
    BY <2>4 DEF Earned
  <2>5. CASE g.answer.phase # "none"
    <3>1. InContext(r) /\ g.answer.field = r.field /\ g.answer.phase = ans
      BY <1>0, <2>5, NothingHeld
    <3>2. CASE ShownIn(more, n + 1, ans)
      <4>1. more # <<>> /\ n + 1 \in DOMAIN more /\ more[Len(more)].record.field = r.field /\ n + 1 + 1 .. Len(more) = {}
        BY <1>3, <1>4
      <4>2. QED
        BY <1>3, <1>4, <3>1, <3>2, <4>1 DEF Earned
    <3>3. CASE prior.field = r.field /\ prior.phase = ans
      <4>1. h.heard # <<>> /\ last.record.field = r.field
        BY <2>3, <2>5, <3>1, <3>3 DEF Earned
      <4>2. last.record.seen \in Nat /\ n \in 1 .. n
        BY <1>4, <4>1, LastHeard
      <4>3. r.seen - last.record.seen < PhaseGrace \/ r.seen - last.record.seen <= RemoveAfter
        <5>1. CASE Back(h, r)
          <6>1. r.seen < last.record.seen + PhaseGrace
            BY <1>1, <1>12, <2>2, <5>1
          <6>2. QED
            BY <1>1, <1>a, <4>2, <6>1
        <5>2. CASE ~Back(h, r)
          <6>1. h.answer # NoAnswer
            BY <1>11, <2>5, <3>1, <3>3, <5>2, NothingHeld
          <6>2. Follows(AsSeen(last.record), cSub.queue[i])
            BY <6>1, LastHeard
          <6>3. r.seen <= last.record.seen + RemoveAfter
            BY <6>2 DEF Follows, AsSeen
          <6>4. QED
            BY <1>1, <1>a, <4>2, <6>3
        <5>3. QED
          BY <5>1, <5>2
      <4>4. more[n + 1].record = r /\ more[n + 1].known /\ more[n + 1 - 1] = last
        <5>1. n + 1 - 1 = n
          BY <1>4
        <5>2. QED
          BY <1>3, <1>4, <4>2, <5>1
      <4>5. Stays(more, n + 1)
        BY <3>1, <4>1, <4>3, <4>4 DEF Stays, StayedIn, SilenceIn
      <4>6. Earned(prior, more)
        BY <1>1, <1>2, <1>3, <1>5, <2>3, <3>3, <4>5, EarnedGrows DEF more
      <4>7. QED
        BY <3>1, <3>3, <4>6 DEF Earned
    <3>4. QED
      BY <1>8, <2>5, <3>1, <3>2, <3>3
  <2>6. QED
    BY <2>4, <2>5, SMTT(30)
<1>14. LatchInv(g, i)
  <2>1. \A j \in 2 .. n : more[j - 1].known /\ more[j - 1].said.phase # "none" /\ StayedIn(more, j)
          /\ SilenceIn(more, j) < PhaseGrace /\ SilenceIn(more, j) < 2 * RemoveAfter => more[j].said.phase # "none"
    BY <1>0, <1>1, <1>2, HeededGrows
  <2>2. ASSUME n + 1 \in 2 .. n + 1, more[n + 1 - 1].known, more[n + 1 - 1].said.phase # "none", StayedIn(more, n + 1),
               SilenceIn(more, n + 1) < PhaseGrace, SilenceIn(more, n + 1) < 2 * RemoveAfter
        PROVE  more[n + 1].said.phase # "none"
    <3>1. n \in 1 .. n /\ n + 1 - 1 = n /\ h.heard # <<>> /\ more[n] = last
      BY <1>4, <2>2
    <3>2. last.record.seen \in Nat
      BY <3>1, LastHeard
    <3>3. InContext(r) /\ r.field = last.record.field
      BY <1>3, <1>4, <2>2, <3>1 DEF StayedIn
    <3>4. r.seen < last.record.seen + PhaseGrace /\ r.seen < last.record.seen + 2 * RemoveAfter
      <4>1. SilenceIn(more, n + 1) = r.seen - last.record.seen
        BY <1>3, <1>4, <3>1 DEF SilenceIn
      <4>2. QED
        BY <1>1, <1>a, <2>2, <3>2, <4>1
    <3>5. prior = last.said
      <4>1. last.known /\ last.said.phase # "none"
        BY <2>2, <3>1
      <4>2. CASE h.answer = last.said
        <5>1. h.answer # NoAnswer
          BY <4>1, <4>2, NothingHeld
        <5>2. ~Back(h, r)
          BY <1>0, <1>12, <5>1 DEF LapsedInv
        <5>3. QED
          BY <1>11, <4>2, <5>2
      <4>3. CASE h.lapsed.answer = last.said /\ h.lapsed.expiry >= last.record.seen + PhaseGrace
        <5>1. Back(h, r)
          <6>1. h.lapsed.expiry \in Nat /\ r.seen \in Nat /\ PhaseGrace \in Nat
            <7>1. PhaseGrace \in Nat
              BY AirConstants
            <7>2. QED
              BY <1>1, <7>1
          <6>2. \A x1, x2, x3, x4 \in Nat : x1 < x2 + x4 /\ x3 >= x2 + x4 => x3 > x1
            OBVIOUS
          <6>3. h.lapsed.expiry > r.seen
            BY <3>2, <3>4, <4>3, <6>1, <6>2, Zenon
          <6>4. QED
            BY <6>3 DEF Back
        <5>2. QED
          BY <1>12, <4>3, <5>1
      <4>4. ASSUME NEW b \in Nat, r.seen < b, Rest(i - 1, b) PROVE FALSE
        <5>1. b <= r.seen
          BY <4>4, QueueFrom
        <5>2. QED
          BY <1>1, <4>4, <5>1
      <4>5. last.record.seen + PhaseGrace \in Nat /\ last.record.seen + 2 * RemoveAfter \in Nat
        BY <1>a, <3>2
      <4>6. QED
        BY <1>0, <3>1, <3>4, <4>1, <4>2, <4>3, <4>4, <4>5 DEF LatchInv
    <3>6. last.said.field = last.record.field /\ last.said.phase # "none"
      BY <1>0, <2>2, <3>1 DEF LatchInv
    <3>7. ans # "none"
      BY <1>8, <3>3, <3>5, <3>6
    <3>8. QED
      BY <1>0, <1>3, <1>4, <3>3, <3>7
  <2>3. \A j \in 2 .. n + 1 : j \in 2 .. n \/ (j = n + 1 /\ j \in 2 .. n + 1)
    BY <1>4
  <2>4. \A j \in 2 .. Len(more) :
          more[j - 1].known /\ more[j - 1].said.phase # "none" /\ StayedIn(more, j)
            /\ SilenceIn(more, j) < PhaseGrace /\ SilenceIn(more, j) < 2 * RemoveAfter => more[j].said.phase # "none"
    BY <1>4, <2>1, <2>2, <2>3
  <2>5. x.said.phase # "none" => g.answer = x.said /\ x.said.field = x.record.field /\ x.record.field # "none"
    BY <1>0, <1>3, NothingHeld
  <2>6. QED
    BY <1>2, <1>4, <2>4, <2>5 DEF LatchInv
<1>15. QED
  BY <1>6, <1>7, <1>10, <1>13, <1>14 DEF HoldInv

\* What each event read keeps.
LEMMA ConsiderKeeps ==
  ASSUME AirShape, EventsInv, LinkInv, NEW i \in 1 .. Len(cSub.queue), NEW h \in Hold, HoldInv(h, i - 1)
  PROVE  ConsiderEvent(h, cSub.queue[i]) \in Hold /\ HoldInv(ConsiderEvent(h, cSub.queue[i]), i)
<1> DEFINE e == cSub.queue[i]
           g == ConsiderEvent(h, e)
<1>1. e \in AirEvent /\ cIndex \in BOOLEAN /\ e.kind \in {"seen", "removed"}
  BY QueueFrom DEF AirShape, AirEvent
<1>2. g \in Hold
  BY <1>1, ConsiderTyped
<1>3. IF e.kind = "removed" THEN Removed(g, h, e.record)
      ELSE \/ e.record.field = "unknown" /\ g = h
           \/ Unlooked(g, h, e.record) \/ Forgotten(g, h, e.record) \/ Judged(g, h, e.record)
  BY <1>1, ConsiderDoes
<1> HIDE DEF g
<1>4. HoldInv(g, i)
  BY <1>1, <1>2, <1>3, RemovedKeeps, UnplacedKeeps, UnlookedKeeps, ForgottenKeeps, JudgedKeeps
<1>5. QED
  BY <1>2, <1>4 DEF g

\* What is held stays right while the stream only grows behind it.
LEMMA HoldMoves ==
  ASSUME NEW h \in Hold, NEW i \in Nat, NEW j \in Nat, HoldInv(h, i), LinkedInv(h, j)', ~cLost' => ~cLost,
         RemoveAfter \in Nat, PhaseGrace \in Nat, \A b \in Int : Rest(i, b) => Rest(j, b)'
  PROVE  HoldInv(h, j)'
<1> DEFINE n == Len(h.heard)
           seen == h.heard[n].record.seen
<1>0. /\ HeardInv(h, i) /\ LapsedInv(h) /\ HoldsInv(h) /\ EarnedInv(h) /\ LatchInv(h, i)
  BY DEF HoldInv
<1>1. h.heard # <<>> => seen \in Nat /\ seen + RemoveAfter \in Int /\ seen + PhaseGrace \in Int /\ seen + 2 * RemoveAfter \in Int
  <2>1. ASSUME h.heard # <<>> PROVE h.heard[n] \in Told
    BY <2>1, HoldIs
  <2>2. ASSUME h.heard # <<>> PROVE seen \in Nat
    BY <2>1, <2>2 DEF Told, AirRecord
  <2> HIDE DEF seen
  <2>3. QED
    BY <2>2
<1>2. HeardInv(h, j)'
  BY <1>0, <1>1 DEF HeardInv
<1>3. LapsedInv(h)' /\ HoldsInv(h)'
  BY <1>0 DEF LapsedInv, HoldsInv
<1>4. EarnedInv(h)'
  BY <1>0 DEF EarnedInv
<1>5. LatchInv(h, j)'
  BY <1>0, <1>1 DEF LatchInv
<1>6. QED
  BY <1>2, <1>3, <1>4, <1>5 DEF HoldInv

\* The loop considers the queued events one after another (_read_loop).
ConsiderFolds(V, b, q) ==
  \E g \in [0 .. Len(q) -> V] :
    g[0] = b /\ (\A i \in 1 .. Len(q) : g[i] = ConsiderEvent(g[i - 1], q[i])) /\ FoldLeft(ConsiderEvent, b, q) = g[Len(q)]

\* The steps one after another are the fold ReadEvents takes.
LEMMA ConsiderSteps ==
  ASSUME NEW V, NEW b \in V, NEW q \in Seq(AirEvent),
         \A h \in V, e \in AirEvent : ConsiderEvent(h, e) \in V
  PROVE  ConsiderFolds(V, b, q)
<1> DEFINE m == Len(q)
           F == [i \in 1 .. m |-> [x \in V |-> ConsiderEvent(x, q[i])]]
           P(it) == it = [s \in SUBSET DOMAIN q |-> IF s = {} THEN b ELSE ConsiderEvent(it[s \ {Max(s)}], q[Max(s)])]
           C == CHOOSE it : P(it)
<1>1. DOMAIN q = 1 .. m /\ m \in Nat /\ \A i \in 1 .. m : q[i] \in AirEvent
  OBVIOUS
<1>2. \E it : P(it)
  <2>1. \A i \in 1 .. m, x \in V : ConsiderEvent(x, q[i]) \in V
    BY <1>1
  <2>2. F \in [1 .. m -> [V -> V]]
    BY <2>1
  <2>4. \A i \in 1 .. m, x \in V : F[i][x] = ConsiderEvent(x, q[i])
    OBVIOUS
  <2> HIDE DEF F
  <2>5. PICK it \in [SUBSET (1 .. m) -> V] : FoldsTo(it, b, m, F)
    BY <1>1, <2>2, FoldExists
  <2>6. ASSUME NEW s \in SUBSET (1 .. m), s # {}
        PROVE  it[s] = ConsiderEvent(it[s \ {Max(s)}], q[Max(s)])
    <3>1. Max(s) \in 1 .. m
      BY <2>6, <1>1, MaxIsIn
    <3>2. s \ {Max(s)} \in SUBSET (1 .. m)
      OBVIOUS
    <3>3. it[s \ {Max(s)}] \in V
      BY <3>2
    <3>4. QED
      BY <2>4, <2>5, <2>6, <3>1, <3>3 DEF FoldsTo
  <2>7. P(it)
    BY <1>1, <2>5, <2>6 DEF FoldsTo
  <2>8. QED
    BY <2>7
<1>3. FoldLeft(ConsiderEvent, b, q) = C[DOMAIN q]
  BY DEF FoldLeft, MapThenFoldSet
<1>4. P(C)
  BY <1>2
<1> HIDE DEF C
<1>5. C[{}] = b
  BY <1>4
<1>6. ASSUME NEW i \in 1 .. m
      PROVE  C[1 .. i] = ConsiderEvent(C[1 .. i - 1], q[i])
  <2>1. Max(1 .. i) = i /\ (1 .. i) \ {i} = 1 .. i - 1
    BY MaxOfPrefix
  <2>2. 1 .. i \in SUBSET DOMAIN q /\ 1 .. i # {}
    BY <1>1
  <2>3. QED
    BY <1>4, <2>1, <2>2
<1> DEFINE g == [i \in 0 .. m |-> C[1 .. i]]
<1>7. g[0] = b
  <2>1. 1 .. 0 = {} /\ 0 \in 0 .. m
    BY <1>1
  <2>2. QED
    BY <1>5, <2>1
<1>8. ASSUME NEW i \in 1 .. m PROVE g[i] = ConsiderEvent(g[i - 1], q[i])
  <2>1. i \in 0 .. m /\ i - 1 \in 0 .. m
    BY <1>1
  <2>2. QED
    BY <1>6, <2>1
<1>9. FoldLeft(ConsiderEvent, b, q) = g[m]
  BY <1>1, <1>3
<1>10. g \in [0 .. m -> V]
  <2> DEFINE T == {i \in 0 .. m : g[i] \in V}
  <2>1. 0 \in T
    BY <1>1, <1>7
  <2>2. ASSUME NEW i \in 1 .. m, i - 1 \in T PROVE i \in T
    <3>1. g[i - 1] \in V /\ i \in 0 .. m
      BY <1>1, <2>2
    <3>2. ConsiderEvent(g[i - 1], q[i]) \in V
      BY <1>1, <3>1
    <3>3. QED
      BY <1>8, <3>1, <3>2
  <2> HIDE DEF T
  <2>3. \A i \in 0 .. m : i \in T
    BY <1>1, <2>1, <2>2, Climb
  <2>4. QED
    BY <2>3 DEF T
<1>11. QED
  BY <1>7, <1>8, <1>9, <1>10 DEF ConsiderFolds

\* What a delivery makes of the queue: the event last, and at most the oldest one gone.
LEMMA DeliveredIs ==
  ASSUME AirShape, NEW e \in AirEvent, PublishEvent(e)
  PROVE  \E d \in 0 .. 1 :
           /\ cSub' \in [queue : Seq(AirEvent), overflowed : BOOLEAN] /\ Len(cSub'.queue) <= QueueSize
           /\ Len(cSub'.queue) = Len(cSub.queue) - d + 1 /\ Len(cSub.queue) - d \in Nat
           /\ cSub'.queue[Len(cSub.queue) - d + 1] = e
           /\ \A k \in 1 .. Len(cSub.queue) - d : cSub'.queue[k] = cSub.queue[k + d]
           /\ ~cLost' => ~cLost /\ d = 0
<1> DEFINE q == cSub.queue
<1>1. /\ q \in Seq(AirEvent) /\ Len(q) <= QueueSize /\ Len(q) \in Nat /\ QueueSize \in Nat \ {0}
      /\ cSub.overflowed \in BOOLEAN
  BY QueueSizeAssumption DEF AirShape
<1>2. CASE Len(q) < QueueSize
  <2>1. cSub' = [queue |-> Append(q, e), overflowed |-> cSub.overflowed]
    BY <1>2 DEF PublishEvent, Deliver, AirShape
  <2>2. cLost' = (cLost \/ Len(q) = QueueSize)
    BY DEF PublishEvent
  <2> HIDE DEF q
  <2>3. /\ Append(q, e) \in Seq(AirEvent) /\ Len(Append(q, e)) = Len(q) + 1 /\ Append(q, e)[Len(q) + 1] = e
        /\ \A k \in 1 .. Len(q) : Append(q, e)[k] = q[k]
    BY <1>1
  <2>4. /\ cSub' \in [queue : Seq(AirEvent), overflowed : BOOLEAN] /\ Len(cSub'.queue) <= QueueSize
        /\ Len(cSub'.queue) = Len(q) - 0 + 1 /\ Len(q) - 0 \in Nat /\ cSub'.queue[Len(q) - 0 + 1] = e
        /\ \A k \in 1 .. Len(q) - 0 : cSub'.queue[k] = q[k + 0]
    BY <1>1, <1>2, <2>1, <2>3
  <2>5. ~cLost' => ~cLost
    BY <2>2
  <2>6. 0 \in 0 .. 1
    OBVIOUS
  <2>7. QED
    BY <2>4, <2>5, <2>6 DEF q
<1>3. CASE ~(Len(q) < QueueSize)
  <2>1. cSub' = [queue |-> Append(Tail(q), e), overflowed |-> TRUE]
    BY <1>3 DEF PublishEvent, Deliver
  <2>2. cLost'
    <3>1. Len(q) = QueueSize
      BY <1>1, <1>3
    <3>2. cLost' = (cLost \/ Len(q) = QueueSize)
      BY DEF PublishEvent
    <3>3. QED
      BY <3>1, <3>2
  <2> HIDE DEF q
  <2>3. q # <<>> /\ Tail(q) \in Seq(AirEvent) /\ Len(Tail(q)) = Len(q) - 1 /\ \A k \in 1 .. Len(q) - 1 : Tail(q)[k] = q[k + 1]
    BY <1>1, <1>3
  <2>4. \A t \in Seq(AirEvent) : /\ Append(t, e) \in Seq(AirEvent) /\ Len(Append(t, e)) = Len(t) + 1
                                /\ Append(t, e)[Len(t) + 1] = e /\ \A k \in 1 .. Len(t) : Append(t, e)[k] = t[k]
    OBVIOUS
  <2>5. /\ Append(Tail(q), e) \in Seq(AirEvent) /\ Len(Append(Tail(q), e)) = Len(q) - 1 + 1
        /\ Append(Tail(q), e)[Len(q) - 1 + 1] = e /\ \A k \in 1 .. Len(q) - 1 : Append(Tail(q), e)[k] = q[k + 1]
    BY <2>3, <2>4
  <2>6. /\ cSub' \in [queue : Seq(AirEvent), overflowed : BOOLEAN] /\ Len(cSub'.queue) <= QueueSize
        /\ Len(cSub'.queue) = Len(q) - 1 + 1 /\ Len(q) - 1 \in Nat /\ cSub'.queue[Len(q) - 1 + 1] = e
        /\ \A k \in 1 .. Len(q) - 1 : cSub'.queue[k] = q[k + 1]
    BY <1>1, <1>3, <2>1, <2>3, <2>5
  <2>7. 1 \in 0 .. 1
    OBVIOUS
  <2>8. QED
    BY <2>2, <2>6, <2>7 DEF q
<1>4. QED
  BY <1>2, <1>3

\* The stream stays in order, and linked while nothing is lost, when the store publishes what it did.
LEMMA PublishKeeps ==
  ASSUME AirShape, EventsInv, LinkInv, NEW e \in AirEvent, PublishEvent(e), LiveFrom' \in Int,
         LiveFrom <= LiveFrom', LiveFrom <= e.record.seen, After(e) <= LiveFrom',
         IF e.kind = "removed" THEN cLive' = Gone ELSE cLive' # Gone /\ e = AsSeen(cLive'),
         IF cLive = Gone THEN e.kind # "removed" ELSE Follows(AsSeen(cLive), e)
  PROVE  /\ EventsInv' /\ LinkInv' /\ \A b \in Int : Rest(0, b) => Rest(0, b)'
         /\ \A h \in Hold : LinkedInv(h, 0) => LinkedInv(h, 0)'
<1> DEFINE q == cSub.queue
           p == cSub'.queue
<1>1. PICK d \in 0 .. 1 :
           /\ cSub' \in [queue : Seq(AirEvent), overflowed : BOOLEAN] /\ Len(p) <= QueueSize
           /\ Len(p) = Len(q) - d + 1 /\ Len(q) - d \in Nat
           /\ p[Len(q) - d + 1] = e
           /\ \A k \in 1 .. Len(q) - d : p[k] = q[k + d]
           /\ ~cLost' => ~cLost /\ d = 0
  BY DeliveredIs
<1>2. /\ q \in Seq(AirEvent) /\ Len(q) \in Nat /\ DOMAIN q = 1 .. Len(q) /\ p \in Seq(AirEvent) /\ DOMAIN p = 1 .. Len(p)
      /\ LiveFrom \in Int /\ e.record.seen \in Nat /\ e.kind \in {"seen", "removed"}
      /\ \A k \in 1 .. Len(q) : After(q[k]) \in Int /\ q[k].record.seen \in Nat
  <2>1. q \in Seq(AirEvent) /\ p \in Seq(AirEvent) /\ LiveFrom \in Int
    BY <1>1 DEF AirShape, LiveFrom, AirRecord
  <2>2. \A f \in AirEvent : After(f) \in Int /\ f.record.seen \in Nat /\ f.kind \in {"seen", "removed"}
    BY AirConstants DEF After, AirEvent, AirRecord
  <2> HIDE DEF q, p
  <2>3. QED
    BY <2>1, <2>2
<1>3. \A k \in 1 .. Len(q) : After(q[k]) <= LiveFrom /\ \A j \in k + 1 .. Len(q) : After(q[k]) <= q[j].record.seen
  BY <1>2 DEF EventsInv
<1>4. ~cLost => /\ \A k \in 2 .. Len(q) : Follows(q[k - 1], q[k])
                /\ q # <<>> => IF cLive = Gone THEN q[Len(q)].kind = "removed" ELSE q[Len(q)] = AsSeen(cLive)
  BY DEF LinkInv
<1>d. p = cSub'.queue
  OBVIOUS
<1> HIDE DEF q, p
<1>5. EventsInv'
  <2>1. ASSUME NEW k \in 1 .. Len(p)
        PROVE  After(p[k]) <= LiveFrom' /\ \A j \in k + 1 .. Len(p) : After(p[k]) <= p[j].record.seen
    <3>1. CASE k = Len(q) - d + 1
      BY <1>1, <1>2, <3>1
    <3>2. CASE k # Len(q) - d + 1
      <4>1. k \in 1 .. Len(q) - d /\ k + d \in 1 .. Len(q) /\ p[k] = q[k + d]
        BY <1>1, <1>2, <3>2
      <4>2. After(q[k + d]) <= LiveFrom /\ After(q[k + d]) \in Int
        BY <1>2, <1>3, <4>1
      <4>3. ASSUME NEW j \in k + 1 .. Len(p) PROVE After(q[k + d]) <= p[j].record.seen
        <5>1. CASE j = Len(q) - d + 1
          BY <1>1, <1>2, <4>2, <5>1, SMTT(30)
        <5>2. CASE j # Len(q) - d + 1
          <6>1. j \in 1 .. Len(q) - d /\ j + d \in k + d + 1 .. Len(q) /\ p[j] = q[j + d]
            BY <1>1, <1>2, <5>2
          <6>2. QED
            BY <1>3, <4>1, <6>1
        <5>3. QED
          BY <5>1, <5>2
      <4>4. QED
        BY <1>2, <4>1, <4>2, <4>3
    <3>3. QED
      BY <3>1, <3>2
  <2>2. QED
    BY <1>2, <1>d, <2>1 DEF EventsInv, After
<1>6. LinkInv'
  <2>1. SUFFICES ASSUME ~cLost'
                 PROVE  /\ \A k \in 2 .. Len(p) : Follows(p[k - 1], p[k])
                        /\ IF cLive' = Gone THEN p[Len(p)].kind = "removed" ELSE p[Len(p)] = AsSeen(cLive')
    BY <1>d DEF LinkInv, Follows, AsSeen
  <2>2. d = 0 /\ ~cLost /\ Len(p) = Len(q) + 1 /\ p[Len(q) + 1] = e /\ \A k \in 1 .. Len(q) : p[k] = q[k]
    BY <1>1, <1>2, <2>1, SMTT(30)
  <2>3. IF cLive' = Gone THEN p[Len(p)].kind = "removed" ELSE p[Len(p)] = AsSeen(cLive')
    BY <1>2, <2>2
  <2>4. ASSUME NEW k \in 2 .. Len(p) PROVE Follows(p[k - 1], p[k])
    <3>1. CASE k = Len(q) + 1
      <4>1. q # <<>> /\ p[k - 1] = q[Len(q)] /\ p[k] = e
        BY <1>2, <2>2, <3>1
      <4>2. CASE cLive = Gone
        BY <1>2, <1>4, <2>2, <4>1, <4>2 DEF Follows
      <4>3. CASE cLive # Gone
        BY <1>4, <2>2, <4>1, <4>3
      <4>4. QED
        BY <4>2, <4>3
    <3>2. CASE k # Len(q) + 1
      <4>1. k \in 2 .. Len(q) /\ k - 1 \in 1 .. Len(q) /\ k \in 1 .. Len(q)
        BY <1>2, <2>2, <3>2
      <4>2. QED
        BY <1>4, <2>2, <4>1
    <3>3. QED
      BY <3>1, <3>2
  <2>5. QED
    BY <2>3, <2>4
<1>7. ASSUME NEW b \in Int, Rest(0, b) PROVE Rest(0, b)'
  <2>1. b <= LiveFrom /\ \A j \in 0 + 1 .. Len(q) : b <= q[j].record.seen
    BY <1>7 DEF Rest, q
  <2>2. ASSUME NEW j \in 0 + 1 .. Len(p) PROVE b <= p[j].record.seen
    <3>1. CASE j = Len(q) - d + 1
      BY <1>1, <1>2, <2>1, <3>1
    <3>2. CASE j # Len(q) - d + 1
      <4>0. j \in 1 .. Len(p)
        OBVIOUS
      <4>1. j \in 1 .. Len(q) - d /\ j + d \in 0 + 1 .. Len(q)
        BY <1>1, <1>2, <3>2, <4>0
      <4>2. p[j] = q[j + d]
        BY <1>1, <4>1
      <4>3. QED
        BY <2>1, <4>1, <4>2
    <3>3. QED
      BY <3>1, <3>2
  <2>3. b <= LiveFrom'
    BY <1>2, <2>1
  <2>4. QED
    BY <1>d, <2>2, <2>3 DEF Rest
<1>8. ASSUME NEW h \in Hold, LinkedInv(h, 0) PROVE LinkedInv(h, 0)'
  <2> DEFINE last == h.heard[Len(h.heard)]
  <2>1. SUFFICES ASSUME ~cLost', h.answer # NoAnswer
                 PROVE  h.heard # <<>> /\ 0 # Len(p) /\ Follows(AsSeen(last.record), p[0 + 1])
    BY <1>d DEF LinkedInv, Follows, AsSeen
  <2>2. d = 0 /\ ~cLost /\ Len(p) = Len(q) + 1 /\ p[Len(q) + 1] = e /\ \A k \in 1 .. Len(q) : p[k] = q[k]
    BY <1>1, <1>2, <2>1, SMTT(30)
  <2>3. /\ h.heard # <<>>
        /\ IF 0 = Len(q) THEN cLive = last.record ELSE Follows(AsSeen(last.record), q[0 + 1])
    BY <1>8, <2>1, <2>2 DEF LinkedInv, q
  <2>4. CASE 0 = Len(q)
    <3>1. last \in Told
      BY <2>3, HoldIs
    <3>2. last.record # Gone
      BY <3>1 DEF Told, AirRecord, Gone
    <3>3. QED
      BY <2>2, <2>3, <2>4, <3>2
  <2>5. CASE 0 # Len(q)
    <3>1. 0 + 1 \in 1 .. Len(q)
      BY <1>2, <2>5
    <3>2. QED
      BY <1>2, <2>2, <2>3, <2>5, <3>1
  <2>6. QED
    BY <2>4, <2>5
<1>9. QED
  BY <1>5, <1>6, <1>7, <1>8

\* A report keeps the invariant: it is newer than all before it, and links to the record it is merged into.
LEMMA ReportKeeps ==
  ASSUME AirInv, NEW r \in Seen, Report(r)
  PROVE  AirInv'
<1> DEFINE sited  == IF r.field = "unknown" /\ cLive # Gone THEN [r EXCEPT !.field = cLive.field, !.nm = cLive.nm] ELSE r
           record == [field |-> sited.field, nm |-> sited.nm, agl |-> r.agl, rate |-> r.rate, ground |-> r.ground,
                      seen |-> cClock]
           e == [kind |-> "seen", record |-> record]
<1>0. AirShape /\ EventsInv /\ LinkInv /\ HoldInv(Holding, 0) /\ Holding \in Hold
  BY DEF AirInv, AirShape
<1>1. /\ cLive \in AirRecord \cup {Gone} /\ cClock \in Nat /\ RemoveAfter \in Nat /\ PhaseGrace \in Nat
      /\ cLive # Gone => cLive.seen <= cClock /\ cClock <= cLive.seen + RemoveAfter /\ cLive.seen \in Nat
  BY AirConstants DEF AirShape, AirInv, AirRecord
<1>2. r.nm \in Nat /\ r.agl \in Int /\ r.rate \in Int /\ r.ground \in BOOLEAN /\ r.field \in Places
  BY AirConstants DEF Places
<1>3. sited.field \in Places /\ sited.nm \in Nat /\ (sited.field = "unknown" /\ cLive # Gone => cLive.field = "unknown")
  <2>1. CASE r.field = "unknown" /\ cLive # Gone
    <3>1. cLive.field \in Places /\ cLive.nm \in Nat
      BY <1>1, <2>1 DEF AirRecord
    <3>2. sited.field = cLive.field /\ sited.nm = cLive.nm
      BY <2>1, AirConstants
    <3>3. QED
      BY <2>1, <3>1, <3>2
  <2>2. CASE ~(r.field = "unknown" /\ cLive # Gone)
    BY <1>2, <2>2
  <2>3. QED
    BY <2>1, <2>2
<1>4. cLive' = record /\ PublishEvent(e) /\ UNCHANGED <<cClock, cIndex, cTable, cReloads, cHeld, cBudget>>
  BY DEF Report
<1> HIDE DEF sited
<1>5. record \in AirRecord /\ record.seen = cClock /\ record.field = sited.field
  BY <1>1, <1>2, <1>3 DEF AirRecord
<1> HIDE DEF record
<1>6. e \in AirEvent /\ e.kind = "seen" /\ e.record = record /\ e = AsSeen(record)
  BY <1>5 DEF AirEvent, AsSeen
<1> HIDE DEF e
<1>7. record # Gone
  BY <1>1, <1>5 DEF Gone
<1>8. LiveFrom' = cClock /\ LiveFrom <= cClock
  BY <1>1, <1>4, <1>5, <1>7 DEF LiveFrom
<1>9. IF cLive = Gone THEN e.kind # "removed" ELSE Follows(AsSeen(cLive), e)
  <2>1. CASE cLive = Gone
    BY <1>6, <2>1
  <2>2. CASE cLive # Gone
    <3>1. record.seen <= cLive.seen + RemoveAfter
      BY <1>1, <1>5, <2>2
    <3>2. record.field = "unknown" => cLive.field = "unknown"
      BY <1>3, <1>5, <2>2
    <3>3. QED
      BY <1>6, <2>2, <3>1, <3>2 DEF Follows, AsSeen
  <2>3. QED
    BY <2>1, <2>2
<1>10. After(e) = cClock
  BY <1>5, <1>6 DEF After
<1>11. /\ EventsInv' /\ LinkInv' /\ \A b \in Int : Rest(0, b) => Rest(0, b)'
       /\ \A h \in Hold : LinkedInv(h, 0) => LinkedInv(h, 0)'
  <2>1. IF e.kind = "removed" THEN cLive' = Gone ELSE cLive' # Gone /\ e = AsSeen(cLive')
    BY <1>4, <1>6, <1>7
  <2>2. LiveFrom' \in Int /\ LiveFrom <= LiveFrom' /\ LiveFrom <= e.record.seen /\ After(e) <= LiveFrom'
    BY <1>1, <1>5, <1>6, <1>8, <1>10
  <2>3. QED
    BY <1>0, <1>4, <1>6, <1>9, <2>1, <2>2, PublishKeeps
<1>12. Holding' = Holding
  BY <1>4 DEF Holding, cHeld
<1>13. AirShape'
  <2>1. /\ cSub' \in [queue : Seq(AirEvent), overflowed : BOOLEAN] /\ Len(cSub'.queue) <= QueueSize
        /\ cLost' \in BOOLEAN
    BY <1>0, <1>4, <1>6, DeliveredIs DEF PublishEvent, AirShape
  <2>2. cLive' # Gone => cLive'.seen <= cClock' /\ cClock' <= cLive'.seen + RemoveAfter
    BY <1>1, <1>4, <1>5
  <2>3. QED
    BY <1>0, <1>4, <1>5, <1>12, <2>1, <2>2 DEF AirShape
<1>14. \A h \in {Holding} : HoldInv(h, 0)'
  <2>1. ASSUME NEW h \in Hold, HoldInv(h, 0) PROVE HoldInv(h, 0)'
    <3>1. LinkedInv(h, 0)'
      BY <1>11, <2>1 DEF HoldInv
    <3>2. ~cLost' => ~cLost
      BY <1>0, <1>4, <1>6, DeliveredIs
    <3>3. QED
      BY <1>1, <1>11, <2>1, <3>1, <3>2, HoldMoves
  <2>2. QED
    BY <1>0, <2>1
<1>15. QED
  BY <1>11, <1>12, <1>13, <1>14 DEF AirInv

\* A removal keeps it: it is of the record the stream ends with, and nothing is as new until the clock is.
LEMMA SweepKeeps ==
  ASSUME AirInv, SweepLive
  PROVE  AirInv'
<1> DEFINE e == [kind |-> "removed", record |-> cLive]
<1>0. AirShape /\ EventsInv /\ LinkInv /\ HoldInv(Holding, 0) /\ Holding \in Hold
  BY DEF AirInv, AirShape
<1>1. /\ cLive # Gone /\ cLive \in AirRecord /\ cClock \in Nat /\ RemoveAfter \in Nat /\ PhaseGrace \in Nat
      /\ cLive.seen <= cClock /\ cLive.seen + RemoveAfter <= cClock /\ cLive.seen \in Nat
  <2>1. cLive # Gone /\ cLive \in AirRecord /\ cClock \in Nat /\ RemoveAfter \in Nat /\ PhaseGrace \in Nat
    BY <1>0, AirConstants DEF AirShape, SweepLive
  <2>2. cLive.seen \in Nat /\ cLive.seen <= cClock /\ cClock - cLive.seen >= RemoveAfter
    BY <1>0, <2>1 DEF AirShape, SweepLive, AirRecord
  <2>3. QED
    BY <2>1, <2>2
<1>2. cLive' = Gone /\ PublishEvent(e) /\ UNCHANGED <<cClock, cIndex, cTable, cReloads, cHeld, cBudget>>
  BY DEF SweepLive
<1>3. e \in AirEvent /\ e.kind = "removed" /\ e.record = cLive
  BY <1>1 DEF AirEvent
<1> HIDE DEF e
<1>4. LiveFrom' = cClock /\ LiveFrom = cLive.seen /\ After(e) = cLive.seen + RemoveAfter
  BY <1>1, <1>2, <1>3 DEF LiveFrom, After
<1>5. IF cLive = Gone THEN e.kind # "removed" ELSE Follows(AsSeen(cLive), e)
  BY <1>1, <1>3 DEF Follows, AsSeen
<1>6. /\ EventsInv' /\ LinkInv' /\ \A b \in Int : Rest(0, b) => Rest(0, b)'
      /\ \A h \in Hold : LinkedInv(h, 0) => LinkedInv(h, 0)'
  <2>1. IF e.kind = "removed" THEN cLive' = Gone ELSE cLive' # Gone /\ e = AsSeen(cLive')
    BY <1>2, <1>3
  <2>2. LiveFrom' \in Int /\ LiveFrom <= LiveFrom' /\ LiveFrom <= e.record.seen /\ After(e) <= LiveFrom'
    BY <1>1, <1>3, <1>4
  <2>3. QED
    BY <1>0, <1>2, <1>3, <1>5, <2>1, <2>2, PublishKeeps
<1>7. Holding' = Holding
  BY <1>2 DEF Holding, cHeld
<1>8. AirShape'
  <2>1. /\ cSub' \in [queue : Seq(AirEvent), overflowed : BOOLEAN] /\ Len(cSub'.queue) <= QueueSize
        /\ cLost' \in BOOLEAN
    BY <1>0, <1>2, <1>3, DeliveredIs DEF PublishEvent, AirShape
  <2>2. QED
    BY <1>0, <1>2, <1>7, <2>1 DEF AirShape
<1>9. \A h \in {Holding} : HoldInv(h, 0)'
  <2>1. ASSUME NEW h \in Hold, HoldInv(h, 0) PROVE HoldInv(h, 0)'
    <3>1. LinkedInv(h, 0)'
      BY <1>6, <2>1 DEF HoldInv
    <3>2. ~cLost' => ~cLost
      BY <1>0, <1>2, <1>3, DeliveredIs
    <3>3. QED
      BY <1>1, <1>6, <2>1, <3>1, <3>2, HoldMoves
  <2>2. QED
    BY <1>0, <2>1
<1>10. QED
  BY <1>6, <1>7, <1>8, <1>9 DEF AirInv

\* A step that leaves the stream and what is held, and at most moves the clock, keeps it.
LEMMA AsideKeeps ==
  ASSUME AirInv, UNCHANGED <<cSub, cLive, cLost>>, AirShape',
         cClock' = cClock \/ cClock' = cClock + 1, NEW g \in Hold, Holding' = g,
         \A h \in {Holding} : HoldInv(h, 0) => HoldInv(g, 0)
  PROVE  AirInv'
<1>0. AirShape /\ EventsInv /\ LinkInv /\ HoldInv(g, 0) /\ RemoveAfter \in Nat /\ PhaseGrace \in Nat
  BY AirConstants DEF AirInv
<1>1. LiveFrom \in Int /\ LiveFrom' \in Int /\ LiveFrom <= LiveFrom'
  <2>1. cClock \in Nat /\ cLive \in AirRecord \cup {Gone}
    BY <1>0 DEF AirShape
  <2>2. cLive # Gone => cLive.seen \in Nat
    BY <2>1 DEF AirRecord
  <2>3. QED
    BY <2>1, <2>2 DEF LiveFrom
<1>2. EventsInv'
  <2>1. \A k \in DOMAIN cSub.queue : After(cSub.queue[k]) \in Int
    <3>1. \A k \in DOMAIN cSub.queue : cSub.queue[k] \in AirEvent
      BY <1>0 DEF AirShape
    <3>2. \A f \in AirEvent : After(f) \in Int
      BY AirConstants DEF After, AirEvent, AirRecord
    <3>3. QED
      BY <3>1, <3>2
  <2>2. \A k \in DOMAIN cSub.queue : After(cSub.queue[k]) <= LiveFrom'
    <3>1. \A k \in DOMAIN cSub.queue : After(cSub.queue[k]) <= LiveFrom
      BY <1>0 DEF EventsInv
    <3> HIDE DEF After, LiveFrom
    <3>2. QED
      BY <1>1, <2>1, <3>1
  <2>3. \A k \in DOMAIN cSub.queue, j \in Nat : j \in k + 1 .. Len(cSub.queue) => After(cSub.queue[k]) <= cSub.queue[j].record.seen
    BY <1>0 DEF EventsInv
  <2>4. \A f : After(f)' = After(f)
    BY DEF After
  <2>5. QED
    BY <1>0, <2>2, <2>4 DEF EventsInv
<1>3. LinkInv'
  BY <1>0 DEF LinkInv, Follows, AsSeen
<1>4. \A b \in Int : Rest(0, b) => Rest(0, b)'
  BY <1>1 DEF Rest
<1>5. LinkedInv(g, 0)'
  <2>1. LinkedInv(g, 0)
    BY <1>0 DEF HoldInv
  <2>2. QED
    BY <2>1 DEF LinkedInv, Follows, AsSeen
<1>6. HoldInv(g, 0)'
  BY <1>0, <1>4, <1>5, HoldMoves
<1>7. QED
  BY <1>2, <1>3, <1>6 DEF AirInv

\* Reading all that is queued keeps it: each event read keeps what is held right, up to the last.
LEMMA ReadKeeps ==
  ASSUME AirInv, ReadEvents
  PROVE  AirInv'
<1> DEFINE q == cSub.queue
           m == Len(q)
           b == Holding
           end == FoldLeft(ConsiderEvent, b, q)
<1>0. AirShape /\ EventsInv /\ LinkInv /\ HoldInv(Holding, 0) /\ Holding \in Hold /\ RemoveAfter \in Nat /\ PhaseGrace \in Nat
  BY AirConstants DEF AirInv, AirShape
<1>1. q \in Seq(AirEvent) /\ m \in Nat /\ cSub \in [queue : Seq(AirEvent), overflowed : BOOLEAN] /\ cIndex \in BOOLEAN
  BY <1>0 DEF AirShape
<1>2. ConsiderFolds(Hold, b, q)
  <2>1. \A h \in Hold, e \in AirEvent : ConsiderEvent(h, e) \in Hold
    BY <1>1, ConsiderTyped
  <2>2. b \in Hold
    BY <1>0
  <2> HIDE DEF b, q
  <2>3. QED
    BY <1>1, <2>1, <2>2, ConsiderSteps
<1>3. PICK g \in [0 .. m -> Hold] :
        g[0] = b /\ (\A i \in 1 .. m : g[i] = ConsiderEvent(g[i - 1], q[i])) /\ end = g[m]
  BY <1>2 DEF ConsiderFolds
<1>4. HoldInv(g[m], m) /\ g[m] \in Hold
  <2> DEFINE T == {i \in 0 .. m : HoldInv(g[i], i)}
  <2>1. 0 \in T
    BY <1>0, <1>1, <1>3
  <2>2. ASSUME NEW i \in 1 .. m, i - 1 \in T PROVE i \in T
    <3>1. g[i - 1] \in Hold /\ HoldInv(g[i - 1], i - 1) /\ i \in 0 .. m /\ i \in 1 .. Len(cSub.queue)
      BY <1>1, <1>3, <2>2
    <3>2. HoldInv(ConsiderEvent(g[i - 1], cSub.queue[i]), i)
      BY <1>0, <3>1, ConsiderKeeps
    <3>3. g[i] = ConsiderEvent(g[i - 1], cSub.queue[i])
      BY <1>3
    <3>4. QED
      BY <3>1, <3>2, <3>3
  <2> HIDE DEF T
  <2>3. \A i \in 0 .. m : i \in T
    BY <1>1, <2>1, <2>2, Climb
  <2>4. m \in 0 .. m
    BY <1>1
  <2>5. QED
    BY <1>3, <2>3, <2>4 DEF T
<1>b. PICK h \in Hold, k \in Nat : h = end /\ k = Len(cSub.queue) /\ HoldInv(h, k)
  BY <1>1, <1>3, <1>4
<1>5. Holding' = h
  <2>1. end = h
    BY <1>b
  <2> HIDE DEF end
  <2>2. /\ cAnswer' = end.answer /\ cTrail' = end.trail /\ cLapsed' = end.lapsed /\ cRow' = end.row /\ cHeard' = end.heard
    BY DEF ReadEvents, end
  <2>3. end = Parts(end)
    BY <1>b, <2>1, HoldIs
  <2>4. QED
    BY <2>1, <2>2, <2>3 DEF Holding, Parts
<1>6. /\ cSub' = [queue |-> <<>>, overflowed |-> FALSE] /\ UNCHANGED <<cClock, cLive, cIndex, cTable, cReloads, cBudget, cLost>>
  BY <1>1 DEF ReadEvents, Acknowledged, Drained
<1>7. <<>> \in Seq(AirEvent) /\ Len(<<>>) = 0 /\ DOMAIN <<>> = {}
  OBVIOUS
<1> HIDE DEF end, b, q, m
<1>9. LinkedInv(h, 0)'
  <2>1. LinkedInv(h, k)
    BY <1>b DEF HoldInv
  <2>2. ~cLost /\ h.answer # NoAnswer => h.heard # <<>> /\ cLive = h.heard[Len(h.heard)].record
    BY <1>b, <2>1 DEF LinkedInv
  <2>3. QED
    BY <1>6, <1>7, <2>2 DEF LinkedInv
<1>10. \A c \in Int : Rest(k, c) => Rest(0, c)'
  <2>1. LiveFrom' = LiveFrom
    BY <1>6 DEF LiveFrom
  <2>2. 0 + 1 .. 0 = {}
    OBVIOUS
  <2>3. QED
    BY <1>6, <1>7, <2>1, <2>2 DEF Rest
<1>11. HoldInv(h, 0)'
  BY <1>0, <1>6, <1>b, <1>9, <1>10, HoldMoves
<1>12. EventsInv' /\ LinkInv'
  BY <1>6, <1>7 DEF EventsInv, LinkInv
<1>13. AirShape'
  BY <1>0, <1>5, <1>6, <1>7, <1>b, QueueSizeAssumption DEF AirShape
<1>14. QED
  BY <1>5, <1>11, <1>12, <1>13 DEF AirInv

\* The invariant of the airport context holds at the start and is kept by every step.
THEOREM AirInvHolds == AirportSpec => []AirInv
<1>1. AirportInit => AirInv
  <2> SUFFICES ASSUME AirportInit PROVE AirInv
    OBVIOUS
  <2>1. <<>> \in Seq(AirEvent) /\ <<>> \in Seq(Sample) /\ <<>> \in Seq(Told) /\ Len(<<>>) = 0 /\ DOMAIN <<>> = {}
    OBVIOUS
  <2>2. cSub = [queue |-> <<>>, overflowed |-> FALSE] /\ cLive = Gone /\ cLost = FALSE /\ cClock = 0
    BY DEF AirportInit, NewSubscription
  <2>3. Holding = [answer |-> NoAnswer, trail |-> <<>>, lapsed |-> NotLapsed, row |-> cRow, heard |-> <<>>]
    BY DEF AirportInit, Holding
  <2>4. cRow \in Row /\ cRow.phase = "none"
    <3>1. "none" \in Places /\ "none" \in Phases
      BY DEF Places, Phases
    <3>2. \/ cRow = [open |-> FALSE, field |-> "none", phase |-> "none"]
          \/ cRow = [open |-> TRUE, field |-> "none", phase |-> "none"]
      <4>1. cRow = NoSighting \/ cRow = [NoSighting EXCEPT !.open = TRUE]
        BY DEF AirportInit
      <4>2. QED
        BY <4>1 DEF NoSighting
    <3>3. CASE cRow = [open |-> FALSE, field |-> "none", phase |-> "none"]
      BY <3>1, <3>3 DEF Row
    <3>4. CASE cRow = [open |-> TRUE, field |-> "none", phase |-> "none"]
      BY <3>1, <3>4 DEF Row
    <3>5. QED
      BY <3>2, <3>3, <3>4
  <2>5. Holding \in Hold
    BY <2>1, <2>3, <2>4, NothingHeld DEF Hold, Row
  <2>6. AirShape
    <3>1. cBudget \in [changes : Nat, until : Nat]
      BY AirConstants DEF AirportInit
    <3>2. cClock \in 0 .. cBudget.until
      BY <2>2, <3>1
    <3>3. cIndex \in BOOLEAN /\ cTable \in BOOLEAN /\ cReloads \in Nat
      BY DEF AirportInit
    <3>4. cSub \in [queue : Seq(AirEvent), overflowed : BOOLEAN] /\ Len(cSub.queue) <= QueueSize
      BY <2>1, <2>2, QueueSizeAssumption
    <3>5. QED
      BY <2>2, <2>5, <3>1, <3>2, <3>3, <3>4 DEF AirShape
  <2>7. EventsInv /\ LinkInv
    BY <2>1, <2>2 DEF EventsInv, LinkInv
  <2>8. ASSUME NEW h, h = Holding PROVE HoldInv(h, 0)
    <3>1. h.answer = NoAnswer /\ h.trail = <<>> /\ h.lapsed = NotLapsed /\ h.row = cRow /\ h.heard = <<>>
      BY <2>3, <2>8
    <3>2. HeardInv(h, 0) /\ LapsedInv(h) /\ LinkedInv(h, 0)
      BY <2>1, <3>1 DEF HeardInv, LapsedInv, LinkedInv
    <3>3. HoldsInv(h) /\ EarnedInv(h)
      BY <2>1, <2>4, <3>1, NothingHeld DEF HoldsInv, EarnedInv, TrailOf, Shown, Earned
    <3>4. LatchInv(h, 0)
      <4>1. 2 .. 0 = {}
        OBVIOUS
      <4>2. QED
        BY <2>1, <3>1, <4>1 DEF LatchInv
    <3>5. QED
      BY <3>2, <3>3, <3>4 DEF HoldInv
  <2>9. QED
    BY <2>6, <2>7, <2>8 DEF AirInv
<1>2. AirInv /\ [AirportNext]_cVars => AirInv'
  <2> SUFFICES ASSUME AirInv, [AirportNext]_cVars PROVE AirInv'
    OBVIOUS
  <2>0. AirShape /\ Holding \in Hold
    BY DEF AirInv, AirShape
  <2>1. ASSUME NEW r \in Seen, Report(r) PROVE AirInv'
    BY <2>1, ReportKeeps
  <2>2. CASE SweepLive
    BY <2>2, SweepKeeps
  <2>3. CASE ReadEvents
    BY <2>3, ReadKeeps
  <2>4. CASE AirTick
    <3>1. UNCHANGED <<cSub, cLive, cLost>> /\ cClock' = cClock + 1 /\ Holding' = Holding
      BY <2>4 DEF AirTick, cHeld, Holding
    <3>2. AirShape'
      <4>1. cClock' \in 0 .. cBudget'.until /\ cBudget' \in [changes : Nat, until : Nat]
        BY <2>0, <2>4 DEF AirShape, AirTick
      <4>2. cLive' # Gone => cLive'.seen <= cClock' /\ cClock' <= cLive'.seen + RemoveAfter
        <5>1. ASSUME cLive # Gone PROVE cLive.seen \in Nat /\ cLive.seen <= cClock /\ cClock - cLive.seen < RemoveAfter
          BY <2>0, <2>4, <5>1 DEF AirShape, AirTick, AirRecord
        <5>2. cClock \in Nat /\ RemoveAfter \in Nat
          BY <2>0, AirConstants DEF AirShape
        <5>3. QED
          BY <3>1, <5>1, <5>2
      <4>3. QED
        BY <2>0, <2>4, <3>1, <4>1, <4>2 DEF AirShape, AirTick
    <3>3. QED
      BY <2>0, <3>1, <3>2, AsideKeeps
  <2>5. CASE OpenSightingRow
    <3> DEFINE g == [answer |-> cAnswer, trail |-> cTrail, lapsed |-> cLapsed,
                     row |-> [open |-> TRUE, field |-> cRow.field, phase |-> cRow.phase], heard |-> cHeard]
    <3>1. UNCHANGED <<cSub, cLive, cLost, cClock, cIndex, cTable, cReloads, cBudget>>
      BY <2>5 DEF OpenSightingRow
    <3>2. cRow \in Row /\ Holding.row = cRow
      BY <2>0, HoldIs DEF Holding
    <3>3. cRow' = [open |-> TRUE, field |-> cRow.field, phase |-> cRow.phase]
      BY <2>5, <3>2 DEF OpenSightingRow, Row
    <3>4. Holding' = g
      BY <2>5, <3>3 DEF OpenSightingRow, Holding
    <3>5. /\ g.answer = Holding.answer /\ g.trail = Holding.trail /\ g.lapsed = Holding.lapsed /\ g.heard = Holding.heard
          /\ g.row = [open |-> TRUE, field |-> cRow.field, phase |-> cRow.phase] /\ g = Parts(g)
      BY DEF Holding, Parts
    <3> HIDE DEF g
    <3>6. g.row \in Row
      BY <3>2, <3>5 DEF Row
    <3>7. g \in Hold
      BY <2>0, <3>5, <3>6, HoldIs DEF Hold, Row, Parts
    <3>8. ASSUME NEW h, h = Holding, HoldInv(h, 0) PROVE HoldInv(g, 0)
      <4>1. g.answer = h.answer /\ g.trail = h.trail /\ g.lapsed = h.lapsed /\ g.heard = h.heard
            /\ g.row.phase = h.row.phase /\ g.row.field = h.row.field
        BY <3>2, <3>5, <3>8
      <4>2. HeardInv(g, 0) /\ LapsedInv(g) /\ LinkedInv(g, 0) /\ EarnedInv(g)
        BY <3>8, <4>1 DEF HoldInv, HeardInv, LapsedInv, LinkedInv, EarnedInv
      <4>3. HoldsInv(g)
        BY <3>8, <4>1 DEF HoldInv, HoldsInv, Shown
      <4>4. LatchInv(g, 0)
        BY <3>8, <4>1 DEF HoldInv, LatchInv
      <4>5. QED
        BY <4>2, <4>3, <4>4 DEF HoldInv
    <3>9. AirShape'
      BY <2>0, <3>1, <3>4, <3>7 DEF AirShape
    <3>10. QED
      BY <3>1, <3>4, <3>7, <3>8, <3>9, AsideKeeps
  <2>6. CASE (\E held \in BOOLEAN : ReplaceAirports(held)) \/ ReloadIndex
    <3>1. UNCHANGED <<cSub, cLive, cLost, cClock>> /\ Holding' = Holding
      BY <2>6 DEF ReplaceAirports, ReloadIndex, cHeld, Holding
    <3>2. AirShape'
      <4>1. /\ cIndex' \in BOOLEAN /\ cTable' \in BOOLEAN /\ cReloads' \in Nat
            /\ cBudget' \in [changes : Nat, until : Nat] /\ cBudget'.until = cBudget.until
        BY <2>0, <2>6 DEF AirShape, ReplaceAirports, ReloadIndex
      <4>2. QED
        BY <2>0, <3>1, <4>1 DEF AirShape
    <3>3. QED
      BY <2>0, <3>1, <3>2, AsideKeeps
  <2>7. CASE UNCHANGED cVars
    <3>1. UNCHANGED <<cSub, cLive, cLost, cClock>> /\ Holding' = Holding
      BY <2>7 DEF cVars, Holding
    <3>2. AirShape'
      BY <2>0, <2>7, <3>1 DEF AirShape, cVars
    <3>3. QED
      BY <2>0, <3>1, <3>2, AsideKeeps
  <2>8. QED
    BY <2>1, <2>2, <2>3, <2>4, <2>5, <2>6, <2>7 DEF AirportNext
<1>3. QED
  BY <1>1, <1>2, PTL DEF AirportSpec

\* What the airport context promises, at every state (inference.py, service.py): a phase shown was earned at the
\* field it names and kept there, it outlives a level-off and a dropout, and the sighting's was shown at its field.
THEOREM AirportIsPromised == AirportSpec => []AirportInvariant
<1>1. AirInv => AirportInvariant
  <2> SUFFICES ASSUME AirInv PROVE AirportInvariant
    OBVIOUS
  <2>0. AirShape /\ HoldInv(Holding, 0) /\ Holding \in Hold
    BY DEF AirInv, AirShape
  <2>1. /\ Holding.answer = cAnswer /\ Holding.heard = cHeard /\ Holding.lapsed = cLapsed /\ Holding.row = cRow
        /\ cAnswer.phase \in Phases /\ cRow.phase \in Phases
    <3>1. Holding.answer = cAnswer /\ Holding.heard = cHeard /\ Holding.lapsed = cLapsed /\ Holding.row = cRow
      BY DEF Holding
    <3>2. QED
      BY <2>0, <3>1, HoldIs DEF Answer, Row
  <2>2. /\ \A i, phase : Shows(i, phase) = ShownIn(cHeard, i, phase)
        /\ \A i : Stayed(i) = StayedIn(cHeard, i)
        /\ \A i : Silence(i) = SilenceIn(cHeard, i)
    BY DEF Shows, ShownIn, Stayed, StayedIn, Silence, SilenceIn
  <2>3. AirportTypeOK
    BY <2>0, <2>1 DEF AirportTypeOK, AirShape, HoldInv, LapsedInv, Phases
  <2>4. PhaseIsEarned
    BY <2>0, <2>1, <2>2 DEF PhaseIsEarned, HoldInv, EarnedInv, Earned
  <2>5. LatchHolds
    BY <2>0, <2>1, <2>2 DEF LatchHolds, HoldInv, LatchInv
  <2>6. RowIsEarned
    BY <2>0, <2>1, <2>2 DEF RowIsEarned, HoldInv, HoldsInv, Shown
  <2>7. QED
    BY <2>3, <2>4, <2>5, <2>6 DEF AirportInvariant
<1>2. QED
  BY <1>1, AirInvHolds, PTL
=============================================================================
