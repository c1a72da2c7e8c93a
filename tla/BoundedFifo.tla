----------------------------- MODULE BoundedFifo -----------------------------
(* What a ring of the shared memory promises its two users: a queue of at    *)
(* most Capacity entries that delivers them in order, each of them once.     *)
EXTENDS Naturals, Sequences

CONSTANTS Values, Capacity

VARIABLES queue, delivered   \* the entries in the ring; the last one popped

vars == <<queue, delivered>>

Init == queue = <<>> /\ delivered = <<>>

Push(v) == Len(queue) < Capacity /\ queue' = Append(queue, v) /\ UNCHANGED delivered

Pop == queue # <<>> /\ queue' = Tail(queue) /\ delivered' = <<Head(queue)>>

Next == Pop \/ \E v \in Values : Push(v)

Spec == Init /\ [][Next]_vars

=============================================================================
