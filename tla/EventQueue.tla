----------------------------- MODULE EventQueue -----------------------------
(***************************************************************************)
(* The bounded per-subscriber queue of live/events.py.                     *)
(*                                                                         *)
(* Every consumer of the live event stream (the persistence worker, the    *)
(* WebSocket broadcaster, the alert engine, ...) owns one subscription.    *)
(* Publishing never waits: when the queue is full the OLDEST event is shed *)
(* and the subscription remembers that its stream has a gap.  The drop     *)
(* counters of the class are diagnostics only and are not modelled.        *)
(***************************************************************************)
EXTENDS Integers, Sequences

CONSTANT QueueSize            \* asyncio.Queue(maxsize), events.py:183-186

ASSUME QueueSizeAssumption == QueueSize \in Nat \ {0}

\* The subscription EventDispatcher.subscribe hands out.
NewSubscription == [queue |-> <<>>, overflowed |-> FALSE]

\* Mutant: a full queue sheds the newest event instead of the oldest.
DeliverShedNewest(s, e) ==
  IF Len(s.queue) < QueueSize THEN [s EXCEPT !.queue = Append(@, e)]
                              ELSE [s EXCEPT !.overflowed = TRUE]

\* deliver: put_nowait, and on QueueFull shed one event, flag it, put again.
Deliver(s, e) ==
  IF Len(s.queue) < QueueSize
    THEN [s EXCEPT !.queue = Append(@, e)]
    ELSE [queue |-> Append(Tail(s.queue), e), overflowed |-> TRUE]

\* drain: take every buffered event; the overflow flag is left standing.
Drained(s) == [s EXCEPT !.queue = <<>>]

\* acknowledge_overflow: clear the per-episode flag.
Acknowledged(s) == [s EXCEPT !.overflowed = FALSE]
=============================================================================
