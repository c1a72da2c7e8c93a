------------------------------- MODULE SpscRing -------------------------------
(***************************************************************************)
(* A single-producer single-consumer ring of the shared memory             *)
(* (PushRingEntry and PopRingEntry of memrpc/src/core/session.cpp over the *)
(* RingCursor of memrpc/src/core/shm_layout.h).  The cursors are unsigned  *)
(* integers that wrap at Modulus (2^32 in the code); an entry is copied in *)
(* and out in more than one store or load, so that a copy that overlaps a  *)
(* write of the same slot yields Torn.  The acquire and release orders of  *)
(* the cursors make the interleavings of these steps the possible ones.    *)
(***************************************************************************)
EXTENDS Integers, Sequences

CONSTANTS
    Values,     \* what an entry can hold
    Torn,       \* model value: a slot in the middle of a copy
    Capacity,   \* RingCursor::capacity
    Modulus     \* where the cursors wrap

ASSUME CapacityAssumption == Capacity \in Nat \ {0} /\ Torn \notin Values
\* The default sizes are powers of two.  A capacity that does not divide 2^32
\* passes ValidateRingCursor, and its slots are misnumbered when a cursor wraps.
ASSUME ModulusAssumption == Modulus \in Nat /\ Modulus > Capacity /\ Modulus % Capacity = 0

VARIABLES
    head, tail,  \* the cursors
    slots,       \* the entries
    prod,        \* PushRingEntry: pc, the head it loaded, the entry
    cons,        \* PopRingEntry: pc, the tail it loaded, the copy so far
    delivered    \* the entry the last successful pop returned

vars == <<head, tail, slots, prod, cons, delivered>>

Cursors == 0 .. Modulus - 1
Slots == 0 .. Capacity - 1
Copies == Values \cup {Torn}

Init ==
    /\ head = 0 /\ tail = 0 /\ slots = [i \in Slots |-> Torn]
    /\ prod = [pc |-> "idle", head |-> 0, entry |-> Torn]
    /\ cons = [pc |-> "idle", tail |-> 0, entry |-> Torn]
    /\ delivered = <<>>

\* RingCount: the difference of the cursors as unsigned integers.
RingCount(h, t) == (t - h) % Modulus
Slot(cursor) == cursor % Capacity

Advance(cursor) == (cursor + 1) % Modulus

-----------------------------------------------------------------------------
(* PushRingEntry.                                                           *)

PushLoad ==
    /\ prod.pc = "idle"
    /\ \E v \in Values : prod' = [pc |-> "test", head |-> head, entry |-> v]
    /\ UNCHANGED <<head, tail, slots, cons, delivered>>

\* Mutant: one entry too many.
PushTest_OffByOne ==
    /\ prod.pc = "test"
    /\ IF RingCount(prod.head, tail) > Capacity
         THEN prod' = [pc |-> "idle", head |-> 0, entry |-> Torn] /\ UNCHANGED slots
         ELSE prod' = [prod EXCEPT !.pc = "write"] /\ slots' = [slots EXCEPT ![Slot(tail)] = Torn]
    /\ UNCHANGED <<head, tail, cons, delivered>>

\* The test for a full ring, and the first store of the copy.
PushTest ==
    /\ prod.pc = "test"
    /\ IF RingCount(prod.head, tail) >= Capacity
         THEN prod' = [pc |-> "idle", head |-> 0, entry |-> Torn] /\ UNCHANGED slots
         ELSE prod' = [prod EXCEPT !.pc = "write"] /\ slots' = [slots EXCEPT ![Slot(tail)] = Torn]
    /\ UNCHANGED <<head, tail, cons, delivered>>

PushWrite ==
    /\ prod.pc = "write" /\ slots' = [slots EXCEPT ![Slot(tail)] = prod.entry]
    /\ prod' = [prod EXCEPT !.pc = "publish"]
    /\ UNCHANGED <<head, tail, cons, delivered>>

PushPublish ==
    /\ prod.pc = "publish" /\ tail' = Advance(tail)
    /\ prod' = [pc |-> "idle", head |-> 0, entry |-> Torn]
    /\ UNCHANGED <<head, slots, cons, delivered>>

-----------------------------------------------------------------------------
(* PopRingEntry.                                                            *)

PopLoad ==
    /\ cons.pc = "idle" /\ cons' = [pc |-> "test", tail |-> tail, entry |-> Torn]
    /\ UNCHANGED <<head, tail, slots, prod, delivered>>

\* The test for an empty ring, and the first load of the copy.
PopTest ==
    /\ cons.pc = "test"
    /\ cons' = IF cons.tail = head THEN [pc |-> "idle", tail |-> 0, entry |-> Torn]
                                   ELSE [cons EXCEPT !.pc = "read", !.entry = slots[Slot(head)]]
    /\ UNCHANGED <<head, tail, slots, prod, delivered>>

\* The last load: the copy is whole if the slot has not changed meanwhile.
PopRead ==
    /\ cons.pc = "read"
    /\ cons' = [cons EXCEPT !.pc = "release", !.entry = IF slots[Slot(head)] = @ THEN @ ELSE Torn]
    /\ UNCHANGED <<head, tail, slots, prod, delivered>>

PopRelease ==
    /\ cons.pc = "release" /\ head' = Advance(head) /\ delivered' = <<cons.entry>>
    /\ cons' = [pc |-> "idle", tail |-> 0, entry |-> Torn]
    /\ UNCHANGED <<tail, slots, prod>>

-----------------------------------------------------------------------------

Next == PushLoad \/ PushTest \/ PushWrite \/ PushPublish \/ PopLoad \/ PopTest \/ PopRead \/ PopRelease

Spec == Init /\ [][Next]_vars

\* The values each variable may take.
TypeOK ==
    /\ head \in Cursors /\ tail \in Cursors /\ slots \in [Slots -> Copies]
    /\ prod \in [pc : {"idle", "test", "write", "publish"}, head : Cursors, entry : Copies]
    /\ cons \in [pc : {"idle", "test", "read", "release"}, tail : Cursors, entry : Copies]
    /\ delivered \in {<<>>} \cup {<<v>> : v \in Copies}

\* Between the cursors are only whole entries, and never more than Capacity: the
\* check ValidateRingCursor makes of a ring at Attach holds at every moment, also
\* when a cursor has wrapped and the other has not.
EntriesAreWhole ==
    /\ RingCount(head, tail) <= Capacity
    /\ \A n \in 0 .. RingCount(head, tail) - 1 : slots[Slot((head + n) % Modulus)] \in Values

\* The ring is a bounded FIFO queue of its two users: entries come out whole, in
\* order and once, whatever the interleaving and wherever the cursors are.
Contents == [n \in 1 .. RingCount(head, tail) |-> slots[Slot((head + n - 1) % Modulus)]]
Fifo == INSTANCE BoundedFifo WITH queue <- Contents
IsFifo == Fifo!Spec

=============================================================================
