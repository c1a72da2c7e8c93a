--------------------------- MODULE SpscRingProofs ---------------------------
(***************************************************************************)
(* A ring of the shared memory is a bounded queue, for every capacity that *)
(* divides the range of the cursors, every range and every set of values.  *)
(*                                                                         *)
(* The producer knows a head that may be old, the consumer a tail that may *)
(* be old; both err on the safe side, because a cursor only moves forward  *)
(* and never more than Capacity ahead of the other.  Entries are counted   *)
(* from the head: Place(n) is the slot of the n-th.                        *)
(***************************************************************************)
EXTENDS SpscRing, SequenceTheorems, TLAPS

-----------------------------------------------------------------------------
(* Remainders.                                                              *)

\* What \div and % are.
LEMMA DivMod ==
    ASSUME NEW m \in Nat \ {0}, NEW x \in Int
    PROVE  x = m * (x \div m) + (x % m) /\ x \div m \in Int /\ x % m \in 0 .. m - 1
OBVIOUS

\* The only multiple of c between -c and c is 0.
LEMMA NoMultiple ==
    ASSUME NEW c \in Nat \ {0}, NEW k \in Int, c * k < c, c * k > -c
    PROVE  k = 0
OBVIOUS

\* Numbers that leave the same remainder are equal or far apart.
LEMMA SameRemainder ==
    ASSUME NEW c \in Nat \ {0}, NEW x \in Int, NEW y \in Int, x % c = y % c, x - y < c, y - x < c
    PROVE  x = y
<1> DEFINE p == x \div c
           q == y \div c
<1>1. p \in Int /\ q \in Int /\ x = c * p + (x % c) /\ y = c * q + (y % c) /\ x % c \in Int
  BY DivMod
<1> HIDE DEF p, q
<1>2. c * (p - q) = c * p - c * q /\ p - q \in Int /\ c * p \in Int /\ c * q \in Int
  BY <1>1
<1>3. x - y = c * p - c * q
  BY <1>1, <1>2
<1>4. p - q = 0
  BY <1>2, <1>3, NoMultiple
<1> QED
  BY <1>1, <1>4

\* A whole number of rounds does not change the remainder.
LEMMA WholeRounds ==
    ASSUME NEW c \in Nat \ {0}, NEW m \in Nat, m % c = 0, NEW x \in Int
    PROVE  (x - m) % c = x % c
<1> DEFINE p == x \div c
           k == m \div c
           d == (x - m) \div c
           r == x % c
           s == (x - m) % c
<1>1. p \in Int /\ k \in Int /\ d \in Int /\ r \in 0 .. c - 1 /\ s \in 0 .. c - 1
  BY DivMod
<1>2. x = c * p + r /\ m = c * k /\ x - m = c * d + s
  BY DivMod
<1> HIDE DEF p, k, d, r, s
<1>3. c * (p - k - d) = s - r /\ p - k - d \in Int
  BY <1>1, <1>2
<1>4. s - r < c /\ s - r > -c
  BY <1>1
<1>5. p - k - d = 0
  BY <1>3, <1>4, NoMultiple
<1>6. s = r
  BY <1>1, <1>3, <1>5
<1> QED
  BY <1>6 DEF r, s

-----------------------------------------------------------------------------
(* Cursors.                                                                 *)

\* The constants.
LEMMA Sizes == Capacity \in Nat \ {0} /\ Modulus \in Nat \ {0} /\ Capacity < Modulus
BY CapacityAssumption, ModulusAssumption

\* The number of entries between two cursors, without remainders.
LEMMA CountIs ==
    ASSUME NEW h \in Cursors, NEW t \in Cursors
    PROVE  RingCount(h, t) = IF h <= t THEN t - h ELSE t - h + Modulus
BY Sizes DEF Cursors, RingCount

\* The cursor n places on, without remainders.
LEMMA AfterIs ==
    ASSUME NEW h \in Cursors, NEW n \in 0 .. Capacity
    PROVE  (h + n) % Modulus = IF h + n < Modulus THEN h + n ELSE (h + n) - Modulus
BY Sizes DEF Cursors

\* The next cursor, without remainders.
LEMMA AdvanceIs ==
    ASSUME NEW h \in Cursors
    PROVE  Advance(h) \in Cursors /\ Advance(h) = IF h + 1 < Modulus THEN h + 1 ELSE 0
BY Sizes DEF Cursors, Advance

\* The slot n places after cursor h.
SlotAfter(h, n) == Slot((h + n) % Modulus)

\* Slots are indices of the ring.
LEMMA SlotIsSlot ==
    ASSUME NEW h \in Cursors, NEW n \in Nat
    PROVE  Slot(h) \in Slots /\ SlotAfter(h, n) \in Slots
<1>1. ASSUME NEW c \in Int
      PROVE  c % Capacity \in 0 .. Capacity - 1
  BY Sizes, DivMod
<1>2. h + n \in Int /\ h \in Int
  BY Sizes DEF Cursors
<1>3. (h + n) % Modulus \in Int
  BY <1>2, Sizes, DivMod
<1> QED
  BY <1>1, <1>2, <1>3 DEF Slots, Slot, SlotAfter

\* Fewer than Capacity places apart, slots differ, wherever the cursors wrap.
LEMMA SlotsDiffer ==
    ASSUME NEW h \in Cursors, NEW i \in 0 .. Capacity - 1, NEW j \in 0 .. Capacity - 1,
           SlotAfter(h, i) = SlotAfter(h, j)
    PROVE  i = j
<1>0. ASSUME NEW x \in Int
      PROVE  (x - Modulus) % Capacity = x % Capacity
  <2>1. Modulus \in Nat /\ Modulus % Capacity = 0 /\ Capacity \in Nat \ {0}
    BY CapacityAssumption, ModulusAssumption
  <2> QED
    BY <2>1, WholeRounds, Zenon
<1>1. ASSUME NEW n \in 0 .. Capacity - 1
      PROVE  SlotAfter(h, n) = (h + n) % Capacity
  <2>1. h + n \in Int /\ n \in 0 .. Capacity
    BY Sizes DEF Cursors
  <2>2. (h + n) % Modulus = h + n \/ (h + n) % Modulus = (h + n) - Modulus
    BY <2>1, AfterIs
  <2>3. ((h + n) - Modulus) % Capacity = (h + n) % Capacity
    BY <2>1, <1>0
  <2> QED
    BY <2>2, <2>3 DEF SlotAfter, Slot
<1>2. (h + i) % Capacity = (h + j) % Capacity
  BY <1>1
<1>3. h + i \in Int /\ h + j \in Int /\ (h + i) - (h + j) < Capacity /\ (h + j) - (h + i) < Capacity
  BY Sizes DEF Cursors
<1>4. h + i = h + j
  BY <1>2, <1>3, Sizes, SameRemainder
<1> QED
  BY <1>4, Sizes DEF Cursors

\* The tail is as many places after the head as there are entries.
LEMMA TailPlace ==
    ASSUME NEW h \in Cursors, NEW t \in Cursors, RingCount(h, t) <= Capacity
    PROVE  SlotAfter(h, RingCount(h, t)) = Slot(t)
<1> DEFINE n == RingCount(h, t)
<1>1. n = (IF h <= t THEN t - h ELSE t - h + Modulus) /\ n <= Capacity
  BY CountIs
<1> HIDE DEF n
<1>2. n \in 0 .. Capacity
  BY <1>1, Sizes DEF Cursors
<1>3. (h + n) % Modulus = IF h + n < Modulus THEN h + n ELSE (h + n) - Modulus
  BY <1>2, AfterIs
<1>4. (h + n) % Modulus = t
  BY <1>1, <1>3, Sizes DEF Cursors
<1>5. SlotAfter(h, n) = Slot(t)
  BY <1>4 DEF SlotAfter
<1> QED
  BY <1>5 DEF n

\* The first entry is at the head.
LEMMA HeadPlace ==
    ASSUME NEW h \in Cursors
    PROVE  SlotAfter(h, 0) = Slot(h)
<1>1. h + 0 = h /\ 0 \in 0 .. Capacity /\ h < Modulus
  BY Sizes DEF Cursors
<1>2. (h + 0) % Modulus = h
  BY <1>1, AfterIs
<1> QED
  BY <1>2 DEF SlotAfter

\* The places after the next head are the places after this one, one later.
LEMMA NextPlaces ==
    ASSUME NEW h \in Cursors, NEW n \in 0 .. Capacity - 1
    PROVE  SlotAfter(Advance(h), n) = SlotAfter(h, n + 1)
<1> DEFINE g == Advance(h)
<1>1. g \in Cursors /\ g = IF h + 1 < Modulus THEN h + 1 ELSE 0
  BY AdvanceIs
<1> HIDE DEF g
<1>2. n \in 0 .. Capacity /\ n + 1 \in 0 .. Capacity
  BY Sizes
<1>3. (g + n) % Modulus = IF g + n < Modulus THEN g + n ELSE (g + n) - Modulus
  BY <1>1, <1>2, AfterIs
<1>4. (h + (n + 1)) % Modulus = IF h + (n + 1) < Modulus THEN h + (n + 1) ELSE (h + (n + 1)) - Modulus
  <2> DEFINE k == n + 1
  <2> HIDE DEF k
  <2>1. k \in 0 .. Capacity
    BY <1>2 DEF k
  <2>2. (h + k) % Modulus = IF h + k < Modulus THEN h + k ELSE (h + k) - Modulus
    BY <2>1, AfterIs
  <2> QED
    BY <2>2 DEF k
<1>5. (g + n) % Modulus = (h + (n + 1)) % Modulus
  BY <1>1, <1>2, <1>3, <1>4, Sizes DEF Cursors
<1> QED
  BY <1>5 DEF SlotAfter, g

\* How the number of entries changes when a cursor moves.
LEMMA Counts ==
    ASSUME NEW h \in Cursors, NEW t \in Cursors
    PROVE  /\ RingCount(h, t) \in Nat /\ RingCount(h, t) < Modulus /\ (RingCount(h, t) = 0 <=> h = t)
           /\ RingCount(h, t) > 0 => RingCount(Advance(h), t) = RingCount(h, t) - 1
           /\ RingCount(h, t) < Capacity => RingCount(h, Advance(t)) = RingCount(h, t) + 1
<1> DEFINE g == Advance(h)
           u == Advance(t)
<1>1. /\ g \in Cursors /\ g = IF h + 1 < Modulus THEN h + 1 ELSE 0
      /\ u \in Cursors /\ u = IF t + 1 < Modulus THEN t + 1 ELSE 0
  BY AdvanceIs
<1> HIDE DEF g, u
<1>2. /\ RingCount(h, t) = IF h <= t THEN t - h ELSE t - h + Modulus
      /\ RingCount(g, t) = IF g <= t THEN t - g ELSE t - g + Modulus
      /\ RingCount(h, u) = IF h <= u THEN u - h ELSE u - h + Modulus
  BY <1>1, CountIs
<1>3. RingCount(h, t) \in Nat /\ RingCount(h, t) < Modulus /\ (RingCount(h, t) = 0 <=> h = t)
  BY <1>2, Sizes DEF Cursors
<1>4. RingCount(h, t) > 0 => RingCount(g, t) = RingCount(h, t) - 1
  BY <1>1, <1>2, Sizes DEF Cursors
<1>5. RingCount(h, t) < Capacity => RingCount(h, u) = RingCount(h, t) + 1
  BY <1>1, <1>2, Sizes DEF Cursors
<1> QED
  BY <1>3, <1>4, <1>5 DEF g, u

-----------------------------------------------------------------------------
(* The invariant.                                                           *)

Count == RingCount(head, tail)
Place(n) == SlotAfter(head, n)

\* The producer in the middle of a push has an entry; once past its test it has room
\* however old its head is, and before it publishes the entry is in the slot.
ProducerInv ==
    /\ prod.pc # "idle" => prod.entry \in Values
    /\ prod.pc = "test" => Count <= RingCount(prod.head, tail)
    /\ prod.pc \in {"write", "publish"} => Count < Capacity
    /\ prod.pc = "publish" => slots[Slot(tail)] = prod.entry

\* The consumer past its test has an entry however old its tail is, and copies it.
ConsumerInv ==
    /\ cons.pc = "test" => RingCount(head, cons.tail) <= Count
    /\ cons.pc \in {"read", "release"} => Count > 0 /\ cons.entry = slots[Slot(head)]

\* What is between the cursors.
RingInv == Count <= Capacity /\ \A n \in 0 .. Count - 1 : slots[Place(n)] \in Values

IInv == TypeOK /\ RingInv /\ ProducerInv /\ ConsumerInv

\* The initial state satisfies the invariant.
LEMMA InitIInv == Init => IInv
<1> SUFFICES ASSUME Init PROVE IInv
  OBVIOUS
<1> USE DEF Init
<1>1. 0 \in Cursors
  BY Sizes DEF Cursors
<1>2. TypeOK
  BY <1>1 DEF TypeOK, Copies
<1>3. Count = 0
  BY <1>1, Counts DEF Count
<1> QED
  BY <1>2, <1>3, Sizes DEF IInv, RingInv, ProducerInv, ConsumerInv

\* A store to the slot of the tail disturbs no entry while there is room.
LEMMA StoreAtTail ==
    ASSUME IInv, Count < Capacity, NEW v \in Copies, slots' = [slots EXCEPT ![Slot(tail)] = v],
           UNCHANGED <<head, tail>>
    PROVE  /\ slots' \in [Slots -> Copies] /\ slots'[Slot(tail)] = v
           /\ \A n \in 0 .. Count - 1 : slots'[Place(n)] = slots[Place(n)]
           /\ Count > 0 => slots'[Slot(head)] = slots[Slot(head)]
<1>1. head \in Cursors /\ tail \in Cursors /\ slots \in [Slots -> Copies] /\ Count \in Nat
  BY Counts, SMT, Z3 DEF IInv, TypeOK, Count
<1>2. Slot(tail) \in Slots /\ Slot(tail) = Place(Count)
  BY <1>1, Sizes, SlotIsSlot, TailPlace DEF Count, Place
<1>3. ASSUME NEW n \in 0 .. Count - 1
      PROVE  Place(n) \in Slots /\ Place(n) # Slot(tail)
  <2>1. n \in 0 .. Capacity - 1 /\ Count \in 0 .. Capacity - 1 /\ n # Count /\ n \in Nat
    BY <1>1, Sizes
  <2> QED
    BY <1>1, <1>2, <2>1, SlotsDiffer, SlotIsSlot, SMT, Z3 DEF Place
<1>4. \A n \in 0 .. Count - 1 : slots'[Place(n)] = slots[Place(n)]
  BY <1>1, <1>2, <1>3
<1>5. Count > 0 => slots'[Slot(head)] = slots[Slot(head)]
  <2>1. Count > 0 => 0 \in 0 .. Count - 1
    BY <1>1
  <2>2. Place(0) = Slot(head)
    BY <1>1, HeadPlace DEF Place
  <2> QED
    BY <1>4, <2>1, <2>2
<1> QED
  BY <1>1, <1>2, <1>4, <1>5, SMT, Z3

\* The producer's steps before it publishes.
LEMMA PushStep ==
    ASSUME IInv, PushLoad \/ PushTest \/ PushWrite
    PROVE  IInv' /\ Count' = Count /\ \A n \in 0 .. Count - 1 : slots'[Place(n)'] = slots[Place(n)]
<1> USE DEF IInv
<1>1. UNCHANGED <<head, tail, cons, delivered>>
  BY DEF PushLoad, PushTest, PushWrite
<1>2. Count' = Count /\ \A n \in Nat : Place(n)' = Place(n)
  BY <1>1 DEF Count, Place
<1>3. head \in Cursors /\ tail \in Cursors /\ Count \in Nat
  BY Counts DEF TypeOK, Count
<1>4. CASE PushLoad
  <2>1. PICK v \in Values : prod' = [pc |-> "test", head |-> head, entry |-> v]
    BY <1>4 DEF PushLoad
  <2>2. UNCHANGED slots
    BY <1>4 DEF PushLoad
  <2>3. TypeOK'
    BY <1>1, <2>1, <2>2, SMT, Z3 DEF TypeOK, Copies
  <2>4. ProducerInv'
    BY <1>1, <1>2, <1>3, <2>1, SMT, Z3 DEF ProducerInv, Count
  <2>5. RingInv' /\ ConsumerInv'
    BY <1>1, <1>2, <2>2, SMT, Z3 DEF RingInv, ConsumerInv
  <2> QED
    BY <1>2, <2>2, <2>3, <2>4, <2>5
<1>5. CASE PushTest /\ RingCount(prod.head, tail) >= Capacity
  <2>1. prod' = [pc |-> "idle", head |-> 0, entry |-> Torn] /\ UNCHANGED slots
    BY <1>5 DEF PushTest
  <2>2. 0 \in Cursors
    BY Sizes DEF Cursors
  <2>3. TypeOK'
    BY <1>1, <2>1, <2>2, SMT, Z3 DEF TypeOK, Copies
  <2>4. ProducerInv' /\ RingInv' /\ ConsumerInv'
    BY <1>1, <1>2, <2>1 DEF RingInv, ProducerInv, ConsumerInv
  <2> QED
    BY <1>2, <2>1, <2>3, <2>4
<1>6. CASE PushWrite \/ (PushTest /\ ~(RingCount(prod.head, tail) >= Capacity))
  <2>1. Count < Capacity
    <3>1. prod.head \in Cursors /\ RingCount(prod.head, tail) \in Nat
      BY <1>3, Counts DEF TypeOK
    <3> QED
      BY <1>3, <1>6, <3>1, Sizes, SMT, Z3 DEF PushTest, PushWrite, ProducerInv
  <2>2. PICK v \in Copies :
           /\ slots' = [slots EXCEPT ![Slot(tail)] = v]
           /\ \/ prod' = [prod EXCEPT !.pc = "write"] /\ prod.pc = "test"
              \/ prod' = [prod EXCEPT !.pc = "publish"] /\ prod.pc = "write" /\ v = prod.entry
    <3>1. prod.entry \in Copies /\ Torn \in Copies
      BY DEF TypeOK, Copies
    <3> QED
      BY <1>6, <3>1 DEF PushTest, PushWrite
  <2>3. /\ slots' \in [Slots -> Copies] /\ slots'[Slot(tail)] = v
        /\ \A n \in 0 .. Count - 1 : slots'[Place(n)] = slots[Place(n)]
        /\ Count > 0 => slots'[Slot(head)] = slots[Slot(head)]
    BY <1>1, <2>1, <2>2, StoreAtTail, Zenon
  <2>4. TypeOK'
    BY <1>1, <2>2, <2>3 DEF TypeOK
  <2>5. ProducerInv'
    BY <1>1, <1>2, <2>1, <2>2, <2>3, SMT, Z3 DEF ProducerInv, TypeOK
  <2>6. ConsumerInv'
    BY <1>1, <1>2, <2>3 DEF ConsumerInv
  <2>7. \A n \in 0 .. Count - 1 : slots'[Place(n)'] = slots[Place(n)]
    BY <1>2, <1>3, <2>3
  <2>8. RingInv'
    BY <1>2, <1>3, <2>7, SMT, Z3 DEF RingInv
  <2> QED
    BY <1>2, <2>4, <2>5, <2>6, <2>7, <2>8, SMT, Z3
<1> QED
  BY <1>4, <1>5, <1>6

\* The producer publishes.
LEMMA PublishStep ==
    ASSUME IInv, PushPublish
    PROVE  /\ IInv' /\ Count < Capacity /\ Count' = Count + 1 /\ prod.entry \in Values /\ UNCHANGED delivered
           /\ \A n \in 0 .. Count - 1 : slots'[Place(n)'] = slots[Place(n)]
           /\ slots'[SlotAfter(head', Count)] = prod.entry
<1> USE DEF IInv
<1>1. /\ UNCHANGED <<head, slots, cons, delivered>> /\ tail' = Advance(tail) /\ prod.pc = "publish"
      /\ prod' = [pc |-> "idle", head |-> 0, entry |-> Torn]
  BY SMT, Z3 DEF PushPublish
<1>2. head \in Cursors /\ tail \in Cursors /\ Count \in Nat /\ Count < Capacity
  BY <1>1, Counts DEF TypeOK, Count, ProducerInv
<1>3. tail' \in Cursors /\ 0 \in Cursors
  BY <1>1, <1>2, Sizes, AdvanceIs DEF Cursors
<1>4. Count' = Count + 1
  BY <1>1, <1>2, Counts DEF Count
<1>5. \A n \in Nat : Place(n)' = Place(n)
  BY <1>1 DEF Place
<1>6. Place(Count) = Slot(tail)
  BY <1>2, Sizes, TailPlace DEF Count, Place
<1>7. slots[Place(Count)] = prod.entry /\ prod.entry \in Values
  BY <1>1, <1>6, SMT, Z3 DEF ProducerInv
<1>8. TypeOK'
  BY <1>1, <1>3, SMT, Z3 DEF TypeOK, Copies
<1>9. RingInv'
  <2>1. Count' <= Capacity
    BY <1>2, <1>4, Sizes
  <2>2. ASSUME NEW n \in 0 .. Count' - 1
        PROVE  slots'[Place(n)'] \in Values
    <3>1. n \in 0 .. Count - 1 \/ n = Count
      BY <1>2, <1>4
    <3> QED
      BY <1>1, <1>2, <1>5, <1>7, <3>1 DEF RingInv
  <2> QED
    BY <2>1, <2>2 DEF RingInv
<1>10. ProducerInv'
  BY <1>1, SMT, Z3 DEF ProducerInv
<1>11. ConsumerInv'
  <2>1. cons.pc = "test" => RingCount(head, cons.tail) <= Count'
    <3>1. cons.tail \in Cursors /\ RingCount(head, cons.tail) \in Nat
      BY <1>2, Counts DEF TypeOK
    <3> QED
      BY <1>2, <1>4, <3>1, SMT, Z3 DEF ConsumerInv
  <2>2. Count > 0 => Count' > 0
    BY <1>2, <1>4
  <2> QED
    BY <1>1, <2>1, <2>2 DEF ConsumerInv
<1>12. slots'[SlotAfter(head', Count)] = prod.entry /\ \A n \in 0 .. Count - 1 : slots'[Place(n)'] = slots[Place(n)]
  BY <1>1, <1>2, <1>5, <1>7 DEF Place
<1> QED
  BY <1>1, <1>2, <1>4, <1>7, <1>8, <1>9, <1>10, <1>11, <1>12, SMT, Z3

\* The consumer's steps before it releases its slot.
LEMMA PopStep ==
    ASSUME IInv, PopLoad \/ PopTest \/ PopRead
    PROVE  IInv' /\ UNCHANGED <<head, tail, slots, delivered>>
<1> USE DEF IInv
<1>1. UNCHANGED <<head, tail, slots, prod, delivered>>
  BY DEF PopLoad, PopTest, PopRead
<1>2. Count' = Count /\ \A n \in Nat : Place(n)' = Place(n)
  BY <1>1, SMT, Z3 DEF Count, Place
<1>3. head \in Cursors /\ tail \in Cursors /\ Count \in Nat
  BY Counts DEF TypeOK, Count
<1> 0 \in Cursors
  BY Sizes DEF Cursors
<1>4. slots[Slot(head)] \in Copies
  BY <1>3, SlotIsSlot DEF TypeOK
<1>5. TypeOK'
  <2>1. CASE PopLoad
    BY <1>1, <2>1 DEF PopLoad, TypeOK, Copies
  <2>2. CASE PopTest
    BY <1>1, <1>3, <1>4, <2>2, Zenon DEF PopTest, TypeOK, Copies
  <2>3. CASE PopRead
    BY <1>1, <2>3, Zenon DEF PopRead, TypeOK, Copies
  <2> QED
    BY <2>1, <2>2, <2>3, SMT, Z3
<1>6. RingInv' /\ ProducerInv'
  BY <1>1, <1>2, <1>3 DEF RingInv, ProducerInv
<1>7. ConsumerInv'
  <2>1. CASE PopLoad
    BY <1>1, <1>2, <1>3, <2>1 DEF PopLoad, ConsumerInv, Count
  <2>2. CASE PopTest /\ cons.tail = head
    BY <2>2, SMT, Z3 DEF PopTest, ConsumerInv
  <2>3. CASE PopTest /\ cons.tail # head
    <3>1. cons.tail \in Cursors /\ RingCount(head, cons.tail) \in Nat /\ RingCount(head, cons.tail) # 0
      BY <1>3, <2>3, Counts DEF TypeOK
    <3>2. Count > 0
      BY <1>3, <2>3, <3>1 DEF PopTest, ConsumerInv
    <3>3. cons'.pc = "read" /\ cons'.entry = slots[Slot(head)]
      BY <2>3, SMT, Z3 DEF PopTest, TypeOK
    <3> QED
      BY <1>1, <1>2, <3>2, <3>3, SMT, Z3 DEF ConsumerInv
  <2>4. CASE PopRead
    <3>1. Count > 0 /\ cons.entry = slots[Slot(head)]
      BY <2>4 DEF PopRead, ConsumerInv
    <3>2. cons'.pc = "release" /\ cons'.entry = cons.entry
      BY <2>4, <3>1, SMT, Z3 DEF PopRead, TypeOK
    <3> QED
      BY <1>1, <1>2, <3>1, <3>2 DEF ConsumerInv
  <2> QED
    BY <2>1, <2>2, <2>3, <2>4, SMT, Z3
<1> QED
  BY <1>1, <1>5, <1>6, <1>7

\* The consumer releases its slot.
LEMMA ReleaseStep ==
    ASSUME IInv, PopRelease
    PROVE  /\ IInv' /\ Count > 0 /\ Count' = Count - 1 /\ delivered' = <<slots[Place(0)]>>
           /\ \A n \in 0 .. Count - 2 : slots'[Place(n)'] = slots[Place(n + 1)]
<1> USE DEF IInv
<1>1. /\ UNCHANGED <<tail, slots, prod>> /\ head' = Advance(head) /\ cons.pc = "release"
      /\ delivered' = <<cons.entry>> /\ cons' = [pc |-> "idle", tail |-> 0, entry |-> Torn]
  BY SMT, Z3 DEF PopRelease
<1>2. head \in Cursors /\ tail \in Cursors /\ Count \in Nat /\ Count > 0 /\ Count <= Capacity
  BY <1>1, Counts DEF TypeOK, Count, ConsumerInv, RingInv
<1>3. head' \in Cursors /\ 0 \in Cursors
  BY <1>1, <1>2, Sizes, AdvanceIs, SMT, Z3 DEF Cursors
<1>4. Count' = Count - 1
  BY <1>1, <1>2, Counts, SMT, Z3 DEF Count
<1>5. \A n \in 0 .. Count - 2 : Place(n)' = Place(n + 1)
  BY <1>1, <1>2, Sizes, NextPlaces, SMT, Z3 DEF Place
<1>6. delivered' = <<slots[Place(0)]>> /\ cons.entry \in Copies
  BY <1>1, <1>2, HeadPlace, SMT, Z3 DEF ConsumerInv, Place, TypeOK
<1>7. TypeOK'
  BY <1>1, <1>3, <1>6 DEF TypeOK, Copies
<1>8. RingInv'
  <2>1. Count' <= Capacity
    BY <1>2, <1>4, Sizes, SMT, Z3
  <2>2. ASSUME NEW n \in 0 .. Count' - 1
        PROVE  slots'[Place(n)'] \in Values
    <3>1. n \in 0 .. Count - 2 /\ n + 1 \in 0 .. Count - 1
      BY <1>2, <1>4, SMT, Z3
    <3> QED
      BY <1>1, <1>5, <3>1 DEF RingInv
  <2> QED
    BY <2>1, <2>2 DEF RingInv
<1>9. ProducerInv'
  <2>1. prod.pc = "test" => Count' <= RingCount(prod.head, tail)
    <3>1. prod.head \in Cursors /\ RingCount(prod.head, tail) \in Nat
      BY <1>2, Counts DEF TypeOK
    <3> QED
      BY <1>2, <1>4, <3>1, SMT, Z3 DEF ProducerInv
  <2>2. Count < Capacity => Count' < Capacity
    BY <1>2, <1>4, Sizes, SMT, Z3
  <2> QED
    BY <1>1, <2>1, <2>2, SMT, Z3 DEF ProducerInv
<1>10. ConsumerInv'
  BY <1>1 DEF ConsumerInv
<1> QED
  BY <1>1, <1>2, <1>4, <1>5, <1>6, <1>7, <1>8, <1>9, <1>10, SMT, Z3

-----------------------------------------------------------------------------
(* The theorems.                                                            *)

\* The cursors, the slots and both users in every state of the ring.
THEOREM RingCorrect == Spec => []IInv
<1>1. ASSUME IInv, [Next]_vars PROVE IInv'
  <2>1. CASE UNCHANGED vars
    BY <1>1, <2>1 DEF vars, IInv, TypeOK, RingInv, ProducerInv, ConsumerInv, Count, Place
  <2> QED
    BY <1>1, <2>1, PushStep, PublishStep, PopStep, ReleaseStep, SMT, Z3 DEF Next
<1> QED
  BY <1>1, InitIInv, PTL DEF Spec

\* Every variable has its type, only whole entries are between the cursors, and never
\* more than Capacity.
THEOREM RingIsWhole == Spec => [](TypeOK /\ EntriesAreWhole)
<1>1. IInv => TypeOK /\ EntriesAreWhole
  BY DEF IInv, RingInv, EntriesAreWhole, Count, Place, SlotAfter
<1> QED
  BY <1>1, RingCorrect, PTL

\* The queue that cursors h and t and slots s stand for.
QueueOf(h, t, s) == [n \in 1 .. RingCount(h, t) |-> s[Slot((h + n - 1) % Modulus)]]

\* It has the entries between the cursors, in their order.
LEMMA QueueOfIs ==
    ASSUME NEW h \in Cursors, NEW t \in Cursors, NEW s \in [Slots -> Copies]
    PROVE  /\ QueueOf(h, t, s) \in Seq(Copies) /\ Len(QueueOf(h, t, s)) = RingCount(h, t)
           /\ \A n \in 1 .. RingCount(h, t) : QueueOf(h, t, s)[n] = s[SlotAfter(h, n - 1)]
<1> DEFINE k == RingCount(h, t)
           q == QueueOf(h, t, s)
<1>1. k \in Nat
  BY Counts
<1> HIDE DEF k
<1>2. ASSUME NEW n \in 1 .. k
      PROVE  s[Slot((h + n - 1) % Modulus)] = s[SlotAfter(h, n - 1)] /\ s[SlotAfter(h, n - 1)] \in Copies
  <2>1. h + n - 1 = h + (n - 1) /\ n - 1 \in Nat
    BY <1>1 DEF Cursors
  <2>2. SlotAfter(h, n - 1) \in Slots
    BY <2>1, SlotIsSlot, SMT, Z3
  <2> QED
    BY <2>1, <2>2 DEF SlotAfter
<1>3. q = [n \in 1 .. k |-> s[SlotAfter(h, n - 1)]]
  BY <1>2 DEF k, QueueOf
<1> HIDE DEF q
<1>4. q \in [1 .. k -> Copies]
  BY <1>2, <1>3
<1>5. q \in Seq(Copies)
  BY <1>1, <1>4, SeqDef, SMT, Z3
<1>6. Len(q) = k
  BY <1>1, <1>4, <1>5, LenProperties, SMT, Z3
<1> QED
  BY <1>3, <1>5, <1>6, Zenon DEF k, q

\* Contents in this state and in the next.
LEMMA ContentsIs ==
    ASSUME IInv, IInv'
    PROVE  /\ Contents \in Seq(Copies) /\ Len(Contents) = Count /\ Count \in Nat
           /\ \A n \in 1 .. Count : Contents[n] = slots[Place(n - 1)]
           /\ Contents' \in Seq(Copies) /\ Len(Contents') = Count' /\ Count' \in Nat
           /\ \A n \in 1 .. Count' : Contents'[n] = slots'[Place(n - 1)']
<1>1. Contents = QueueOf(head, tail, slots) /\ Contents' = QueueOf(head', tail', slots')
  BY DEF Contents, QueueOf
<1>2. /\ head \in Cursors /\ tail \in Cursors /\ slots \in [Slots -> Copies]
      /\ head' \in Cursors /\ tail' \in Cursors /\ slots' \in [Slots -> Copies]
  BY DEF IInv, TypeOK
<1>3. Count \in Nat /\ Count' \in Nat
  BY <1>2, Counts DEF Count
<1> QED
  BY <1>1, <1>2, <1>3, QueueOfIs, ZenonT(60) DEF Count, Place

\* A step that leaves the entries where they are leaves the queue alone.
LEMMA ContentsKept ==
    ASSUME IInv, IInv', Count' = Count, \A n \in 0 .. Count - 1 : slots'[Place(n)'] = slots[Place(n)]
    PROVE  UNCHANGED Contents
<1>1. \A n \in 1 .. Count : Contents'[n] = Contents[n]
  <2>1. ASSUME NEW n \in 1 .. Count
        PROVE  n - 1 \in 0 .. Count - 1
    BY ContentsIs
  <2> QED
    BY <2>1, ContentsIs
<1> QED
  BY <1>1, ContentsIs, SeqEqual

\* Publishing appends to the queue.
LEMMA PublishPushes ==
    ASSUME IInv, PushPublish
    PROVE  Fifo!Push(prod.entry) /\ prod.entry \in Values
<1>1. /\ IInv' /\ Count < Capacity /\ Count' = Count + 1 /\ prod.entry \in Values /\ UNCHANGED delivered
      /\ \A n \in 0 .. Count - 1 : slots'[Place(n)'] = slots[Place(n)]
      /\ slots'[SlotAfter(head', Count)] = prod.entry
  BY PublishStep, SMT, Z3
<1> DEFINE q == Append(Contents, prod.entry)
<1>2. prod.entry \in Copies
  BY <1>1, SMT, Z3 DEF Copies
<1>3. /\ q \in Seq(Copies) /\ Len(q) = Count + 1 /\ q[Count + 1] = prod.entry
      /\ \A n \in 1 .. Count : q[n] = Contents[n]
  BY <1>1, <1>2, ContentsIs, AppendProperties, SMT, Z3
<1> HIDE DEF q
<1>4. ASSUME NEW n \in 1 .. Count + 1
      PROVE  Contents'[n] = q[n]
  <2>1. CASE n = Count + 1
    <3>1. n - 1 = Count
      BY <1>1, <2>1, ContentsIs, SMT, Z3
    <3> QED
      BY <1>1, <1>3, <2>1, <3>1, ContentsIs, SMT, Z3 DEF Place
  <2>2. CASE n # Count + 1
    <3>1. n \in 1 .. Count /\ n - 1 \in 0 .. Count - 1
      BY <1>1, <2>2, ContentsIs, SMT, Z3
    <3> QED
      BY <1>1, <1>3, <3>1, ContentsIs, SMTT(60), Z3T(60)
  <2> QED
    BY <2>1, <2>2, SMT, Z3
<1>5. Contents' = q
  BY <1>1, <1>3, <1>4, ContentsIs, SeqEqual, SMT, Z3
<1> QED
  BY <1>1, <1>5, ContentsIs, SMT, Z3 DEF q, Fifo!Push

\* Releasing delivers the head of the queue.
LEMMA ReleasePops ==
    ASSUME IInv, PopRelease
    PROVE  Fifo!Pop
<1>1. /\ IInv' /\ Count > 0 /\ Count' = Count - 1 /\ delivered' = <<slots[Place(0)]>>
      /\ \A n \in 0 .. Count - 2 : slots'[Place(n)'] = slots[Place(n + 1)]
  BY ReleaseStep, SMT, Z3
<1> DEFINE q == Tail(Contents)
<1>2. Contents # <<>> /\ Contents \in Seq(Copies) /\ Count \in Nat
  BY <1>1, ContentsIs, EmptySeq, SMT, Z3
<1>3. /\ q \in Seq(Copies) /\ Len(q) = Count - 1 /\ Head(Contents) = Contents[1]
      /\ \A n \in 1 .. Count - 1 : q[n] = Contents[n + 1]
  BY <1>1, <1>2, ContentsIs, HeadTailProperties, SMT, Z3
<1> HIDE DEF q
<1>4. ASSUME NEW n \in 1 .. Count - 1
      PROVE  Contents'[n] = q[n]
  <2>1. n - 1 \in 0 .. Count - 2 /\ n + 1 \in 1 .. Count /\ (n - 1) + 1 = n /\ (n + 1) - 1 = n /\ n \in 1 .. Count'
    BY <1>1, <1>2, SMT, Z3
  <2>2. Contents'[n] = slots'[Place(n - 1)'] /\ Contents[n + 1] = slots[Place((n + 1) - 1)]
    BY <1>1, <2>1, ContentsIs, SMT, Z3
  <2> QED
    BY <1>1, <1>3, <2>1, <2>2, SMT, Z3
<1>5. Contents' = q
  BY <1>1, <1>3, <1>4, ContentsIs, SeqEqual, SMT, Z3
<1>6. delivered' = <<Head(Contents)>>
  <2>1. 1 \in 1 .. Count /\ 1 - 1 = 0
    BY <1>1, <1>2, SMT, Z3
  <2>2. Contents[1] = slots[Place(1 - 1)]
    BY <1>1, <2>1, ContentsIs
  <2> QED
    BY <1>1, <1>3, <2>1, <2>2, SMT, Z3
<1> QED
  BY <1>2, <1>5, <1>6, SMT, Z3 DEF q, Fifo!Pop

\* The ring implements the bounded queue: at each moment its contents are those of the
\* queue, an entry joins it when the producer stores the tail and leaves it when the
\* consumer stores the head, and what is delivered is the entry at the front.
THEOREM RingIsFifo == Spec => IsFifo
<1>1. Init => Fifo!Init
  <2> SUFFICES ASSUME Init PROVE Fifo!Init
    OBVIOUS
  <2>1. head = 0 /\ tail = 0 /\ 0 \in Cursors /\ delivered = <<>>
    BY Sizes DEF Init, Cursors
  <2>2. RingCount(head, tail) = 0
    BY <2>1, Counts
  <2>3. Contents = <<>>
    BY <2>2 DEF Contents
  <2> QED
    BY <2>1, <2>3 DEF Fifo!Init
<1>2. ASSUME IInv, [Next]_vars
      PROVE  [Fifo!Next]_(Fifo!vars)
  <2>1. CASE PushPublish
    BY <1>2, <2>1, PublishPushes DEF Fifo!Next
  <2>2. CASE PopRelease
    BY <1>2, <2>2, ReleasePops DEF Fifo!Next
  <2>3. CASE PushLoad \/ PushTest \/ PushWrite
    <3>1. UNCHANGED delivered
      BY <2>3 DEF PushLoad, PushTest, PushWrite
    <3>2. UNCHANGED Contents
      BY <1>2, <2>3, PushStep, ContentsKept, SMT, Z3
    <3> QED
      BY <3>1, <3>2 DEF Fifo!vars
  <2>4. CASE PopLoad \/ PopTest \/ PopRead \/ UNCHANGED vars
    <3>1. UNCHANGED <<head, tail, slots, delivered>>
      BY <1>2, <2>4, PopStep DEF vars
    <3> QED
      BY <3>1 DEF Contents, Fifo!vars
  <2> QED
    BY <1>2, <2>1, <2>2, <2>3, <2>4 DEF Next
<1> QED
  BY <1>1, <1>2, RingCorrect, PTL DEF Spec, IsFifo, Fifo!Spec
=============================================================================
