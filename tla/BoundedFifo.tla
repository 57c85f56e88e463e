----------------------------- MODULE BoundedFifo -----------------------------
(* What a single-producer single-consumer queue promises: a first-in         *)
(* first-out queue of at most Capacity elements.  Nothing is lost,           *)
(* duplicated or reordered, and only what was put is got.                    *)
(* include/relativistic/core/spsc_queue.hpp is shown to implement it.        *)
EXTENDS Naturals, Sequences

CONSTANTS Values, Capacity

VARIABLE queue          \* the elements put and not yet got, oldest first

Init == queue = <<>>

Put(v) == /\ Len(queue) < Capacity
          /\ queue' = Append(queue, v)

Get == /\ queue # <<>>
       /\ queue' = Tail(queue)

Next == (\E v \in Values : Put(v)) \/ Get

Spec == Init /\ [][Next]_queue
==============================================================================
