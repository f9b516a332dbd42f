------------------------- MODULE CircularQueueProofs -------------------------
(***************************************************************************)
(* Proofs, for every initial capacity and every number of operations, of   *)
(* the invariants that MCCircularQueue checks on a small instance.         *)
(***************************************************************************)
EXTENDS CircularQueue, TLAPS

\* Adding at most c to an index below c wraps at most once.
LEMMA WrapOnce ==
    ASSUME NEW c \in Nat \ {0}, NEW a \in 0 .. c - 1, NEW k \in 0 .. c
    PROVE  /\ (a + k) % c = IF a + k < c THEN a + k ELSE a + k - c
           /\ (a + k) % c \in 0 .. c - 1
<1>1. CASE a + k < c
  BY <1>1, SMT
<1>2. CASE a + k >= c
  <2> DEFINE d == a + k - c
  <2>1. d \in 0 .. c - 1 /\ a + k = d + 1 * c
    BY <1>2, SMT
  <2>2. (d + 1 * c) % c = d
    BY <2>1, SMT
  <2> QED BY <1>2, <2>1, <2>2, SMT
<1> QED BY <1>1, <1>2, SMT

\* What enqueueing does to the ghost sequence.
LEMMA AppendFacts ==
    ASSUME NEW s \in Seq(Nat), NEW x \in Nat
    PROVE  /\ Append(s, x) \in Seq(Nat)
           /\ Len(Append(s, x)) = Len(s) + 1
           /\ \A i \in 1 .. Len(s) : Append(s, x)[i] = s[i]
           /\ Append(s, x)[Len(s) + 1] = x
  BY SMT

Inv == TypeOK /\ RingConsistent /\ OnlyCutDamaged

LEMMA InitInv == Init => Inv
<1> SUFFICES ASSUME Init PROVE Inv
  OBVIOUS
<1>1. capacity \in Nat \ {0}
  BY QueueConstants, SMT DEF Init, DefaultCapacity
<1>2. TypeOK
  BY <1>1, SMT DEF Init, TypeOK
<1>3. RingConsistent
  BY <1>1, SMT DEF Init, RingConsistent, Pos
<1>4. OnlyCutDamaged
  BY <1>1, SMT DEF Init, OnlyCutDamaged
<1> QED BY <1>2, <1>3, <1>4 DEF Inv

\* Positions of a state that satisfies the invariant, without the modulus.
LEMMA Positions ==
    ASSUME TypeOK, NEW k \in 0 .. capacity
    PROVE  /\ Pos(k) = IF front + k < capacity THEN front + k ELSE front + k - capacity
           /\ Pos(k) \in 0 .. capacity - 1
  BY WrapOnce DEF TypeOK, Pos

\* Different elements of the queue are in different slots.
LEMMA PositionsDistinct ==
    ASSUME TypeOK, NEW k \in 0 .. capacity - 1, NEW j \in 0 .. capacity - 1, k # j
    PROVE  Pos(k) # Pos(j)
<1>1. k \in 0 .. capacity /\ j \in 0 .. capacity
  BY SMT DEF TypeOK
<1>2. /\ Pos(k) = IF front + k < capacity THEN front + k ELSE front + k - capacity
      /\ Pos(j) = IF front + j < capacity THEN front + j ELSE front + j - capacity
  BY <1>1, Positions
<1> QED BY <1>2, SMT DEF TypeOK

LEMMA EnqueueInv == Inv /\ Enqueue => Inv'
<1> SUFFICES ASSUME Inv, Enqueue PROVE Inv'
  OBVIOUS
<1> USE DEF Inv
<1>1. /\ length < capacity /\ length' = length + 1 /\ rear = Pos(length)
      /\ data' = [data EXCEPT ![rear] = Item]
      /\ fifo' = Append(fifo, Item) /\ items' = Item /\ Item \in Nat
      /\ UNCHANGED <<capacity, front, cut>>
      /\ rear' = (rear + 1) % capacity
  BY SMT DEF Enqueue, Accept, After, RingConsistent, Item, TypeOK
<1>2. rear' \in 0 .. capacity - 1 /\ rear' = Pos(length + 1)
  <2>1. 1 \in 0 .. capacity /\ length \in 0 .. capacity /\ length + 1 \in 0 .. capacity
    BY <1>1, SMT DEF TypeOK
  <2>2. /\ Pos(length) = IF front + length < capacity THEN front + length
                         ELSE front + length - capacity
        /\ Pos(length + 1) = IF front + (length + 1) < capacity THEN front + (length + 1)
                             ELSE front + (length + 1) - capacity
    BY <2>1, Positions
  <2>3. /\ (rear + 1) % capacity = IF rear + 1 < capacity THEN rear + 1
                                   ELSE rear + 1 - capacity
        /\ (rear + 1) % capacity \in 0 .. capacity - 1
    BY <2>1, WrapOnce DEF TypeOK
  <2> QED BY <1>1, <2>1, <2>2, <2>3, SMT DEF TypeOK
<1>3. TypeOK'
  BY <1>1, <1>2, SMT DEF TypeOK
<1>4. RingConsistent'
  BY <1>1, <1>2 DEF RingConsistent, Pos
<1>5. OnlyCutDamaged'
  <2>1. length' = Len(fifo')
    BY <1>1, SMT DEF OnlyCutDamaged, TypeOK
  <2>2. ASSUME NEW k \in 0 .. length' - 1, fifo'[k + 1] \notin cut'
        PROVE  data'[Pos(k)'] = fifo'[k + 1]
    <3>1. Pos(k)' = Pos(k)
      BY <1>1 DEF Pos
    <3>2. CASE k = length
      <4>1. fifo'[k + 1] = Item
        BY <1>1, <3>2, SMT DEF OnlyCutDamaged, TypeOK
      <4>2. data'[rear] = Item
        BY <1>1 DEF TypeOK
      <4> QED BY <1>1, <3>1, <3>2, <4>1, <4>2
    <3>3. CASE k # length
      <4>1. k \in 0 .. length - 1 /\ k \in 0 .. capacity - 1 /\ length \in 0 .. capacity - 1
        BY <1>1, <3>3, SMT DEF TypeOK
      <4>2. fifo'[k + 1] = fifo[k + 1]
        BY <1>1, <4>1, SMT DEF OnlyCutDamaged, TypeOK
      <4>3. Pos(k) # rear
        BY <1>1, <3>3, <4>1, PositionsDistinct
      <4>4. data'[Pos(k)] = data[Pos(k)]
        BY <1>1, <4>3 DEF TypeOK
      <4> QED BY <1>1, <2>2, <3>1, <4>1, <4>2, <4>4 DEF OnlyCutDamaged
    <3> QED BY <3>2, <3>3
  <2> QED BY <2>1, <2>2 DEF OnlyCutDamaged
<1> QED BY <1>3, <1>4, <1>5

\* A full buffer has front = rear, so grow always takes the branch that copies
\* length elements in one piece.
LEMMA FullMeansFrontIsRear == Inv /\ length >= capacity => front = rear
<1> SUFFICES ASSUME Inv, length >= capacity PROVE front = rear
  OBVIOUS
<1>1. length = capacity /\ capacity \in 0 .. capacity
  BY SMT DEF Inv, TypeOK
<1>2. Pos(capacity) = IF front + capacity < capacity THEN front + capacity
                      ELSE front + capacity - capacity
  BY <1>1, Positions DEF Inv
<1> QED BY <1>1, <1>2, SMT DEF Inv, TypeOK, RingConsistent

LEMMA GrowInv == Inv /\ EnqueueGrow => Inv'
<1> SUFFICES ASSUME Inv, EnqueueGrow PROVE Inv'
  OBVIOUS
<1> USE DEF Inv
<1>1. /\ length = capacity /\ length' = length + 1 /\ capacity' = capacity * 2
      /\ front' = 0 /\ rear' = (length + 1) % (capacity * 2)
      /\ fifo' = Append(fifo, Item) /\ items' = Item /\ Item \in Nat
  BY SMT DEF EnqueueGrow, Accept, Item, TypeOK
<1>2. front = rear
  BY <1>1, FullMeansFrontIsRear, SMT DEF TypeOK
<1>3. ASSUME NEW k \in 0 .. capacity * 2 - 1
      PROVE  data'[k] = IF k = length THEN Item
                        ELSE IF k < length /\ front + k < capacity THEN data[front + k]
                        ELSE Garbage
  BY <1>2, SMT DEF EnqueueGrow, Copied, At, TypeOK
<1>4. capacity * 2 \in Nat \ {0} /\ capacity + 1 <= capacity * 2
  BY SMT DEF TypeOK
<1>5. data' \in [0 .. capacity' - 1 -> Nat \cup {Garbage}]
  <2>1. data' = [k \in 0 .. capacity * 2 - 1 |-> data'[k]]
    BY DEF EnqueueGrow
  <2>2. ASSUME NEW k \in 0 .. capacity * 2 - 1 PROVE data'[k] \in Nat \cup {Garbage}
    <3>1. front + k < capacity => front + k \in 0 .. capacity - 1
      BY SMT DEF TypeOK
    <3> QED BY <1>1, <1>3, <3>1 DEF TypeOK
  <2> QED BY <1>1, <2>1, <2>2
<1>6. /\ (0 + (capacity + 1)) % (capacity * 2) \in 0 .. capacity * 2 - 1
      /\ 0 + (capacity + 1) = length + 1
  <2>1. 0 \in 0 .. capacity * 2 - 1 /\ capacity + 1 \in 0 .. capacity * 2
    BY <1>4, SMT DEF TypeOK
  <2> QED BY <1>1, <1>4, <2>1, WrapOnce, SMT DEF TypeOK
<1>7. cut' \subseteq Nat
  <2>1. ASSUME NEW k \in 0 .. length - 1 PROVE fifo[k + 1] \in Nat
    BY SMT DEF TypeOK, OnlyCutDamaged
  <2> QED BY <2>1 DEF EnqueueGrow, TypeOK
<1>8. TypeOK'
  <2>1. front' \in 0 .. capacity' - 1 /\ rear' \in 0 .. capacity' - 1 /\ length' \in 0 .. capacity'
    BY <1>1, <1>4, <1>6, SMT DEF TypeOK
  <2>2. items' \in Nat /\ fifo' \in Seq(Nat)
    BY <1>1, SMT DEF TypeOK
  <2> QED BY <1>1, <1>4, <1>5, <1>7, <2>1, <2>2 DEF TypeOK
<1>9. RingConsistent'
  BY <1>1, SMT DEF RingConsistent, Pos, TypeOK
<1>10. OnlyCutDamaged'
  <2>0. /\ Len(fifo') = length + 1
        /\ \A i \in 1 .. length : fifo'[i] = fifo[i]
        /\ fifo'[length + 1] = Item
    <3>1. fifo \in Seq(Nat) /\ length = Len(fifo) /\ Item \in Nat /\ fifo' = Append(fifo, Item)
      BY <1>1 DEF OnlyCutDamaged, TypeOK
    <3> QED BY <3>1, AppendFacts
  <2>1. length' = Len(fifo')
    BY <1>1, <2>0
  <2>2. ASSUME NEW k \in 0 .. length' - 1, fifo'[k + 1] \notin cut'
        PROVE  data'[Pos(k)'] = fifo'[k + 1]
    <3>1. k \in 0 .. capacity /\ k \in 0 .. capacity * 2 - 1
      BY <1>1, <1>4, SMT DEF TypeOK
    <3>2. Pos(k)' = k
      <4>1. k \in 0 .. capacity'
        BY <1>1, <3>1
      <4>2. Pos(k)' = IF front' + k < capacity' THEN front' + k ELSE front' + k - capacity'
        <5>1. front' \in 0 .. capacity' - 1 /\ capacity' \in Nat \ {0}
          BY <1>1, <1>4, SMT
        <5> QED BY <4>1, <5>1, WrapOnce DEF Pos
      <4> QED BY <1>1, <3>1, <4>2, SMT DEF TypeOK
    <3>3. CASE k = length
      <4>1. fifo'[k + 1] = Item
        BY <2>0, <3>3
      <4>2. data'[k] = Item
        BY <1>3, <3>1, <3>3
      <4> QED BY <3>2, <4>1, <4>2
    <3>4. CASE k # length
      <4>1. k \in 0 .. length - 1
        BY <1>1, <3>4, SMT DEF TypeOK
      <4>2. fifo'[k + 1] = fifo[k + 1]
        <5>1. k + 1 \in 1 .. length
          BY <4>1, SMT DEF TypeOK
        <5> QED BY <2>0, <5>1
      <4>3. front + k < capacity /\ fifo[k + 1] \notin cut
        <5>1. fifo[k + 1] \notin cut
          BY <2>2, <4>2 DEF EnqueueGrow
        <5>2. ~(front + k >= capacity)
          BY <2>2, <4>1, <4>2 DEF EnqueueGrow
        <5> QED BY <4>1, <5>1, <5>2, SMT DEF TypeOK
      <4>4. data'[k] = data[front + k]
        BY <1>3, <3>1, <3>4, <4>1, <4>3, SMT DEF TypeOK
      <4>5. Pos(k) = front + k
        BY <1>1, <3>1, <4>3, Positions
      <4> QED BY <3>2, <4>1, <4>2, <4>3, <4>4, <4>5 DEF OnlyCutDamaged
    <3> QED BY <3>3, <3>4
  <2> QED BY <2>1, <2>2 DEF OnlyCutDamaged
<1> QED BY <1>8, <1>9, <1>10

LEMMA DequeueInv == Inv /\ Dequeue => Inv'
<1> SUFFICES ASSUME Inv, Dequeue PROVE Inv'
  OBVIOUS
<1> USE DEF Inv
<1>1. /\ length > 0 /\ length' = length - 1 /\ front' = (front + 1) % capacity
      /\ fifo' = Tail(fifo) /\ UNCHANGED <<data, capacity, rear, cut, items>>
  BY SMT DEF Dequeue, After, TypeOK
<1>2. /\ front' = IF front + 1 < capacity THEN front + 1 ELSE front + 1 - capacity
      /\ front' \in 0 .. capacity - 1
  <2>1. 1 \in 0 .. capacity
    BY SMT DEF TypeOK
  <2> QED BY <1>1, <2>1, WrapOnce DEF TypeOK
<1>3. fifo # <<>> /\ length = Len(fifo)
  BY <1>1, SMT DEF OnlyCutDamaged, TypeOK
<1>4. TypeOK'
  BY <1>1, <1>2, <1>3, SMT DEF TypeOK
<1>5. ASSUME NEW k \in 0 .. length - 1 PROVE Pos(k)' = Pos(k + 1)
  <2>1. k \in 0 .. capacity /\ k + 1 \in 0 .. capacity
    BY SMT DEF TypeOK
  <2>2. Pos(k)' = IF front' + k < capacity THEN front' + k ELSE front' + k - capacity
    BY <1>1, <1>2, <2>1, WrapOnce DEF Pos, TypeOK
  <2>3. Pos(k + 1) = IF front + (k + 1) < capacity THEN front + (k + 1)
                     ELSE front + (k + 1) - capacity
    BY <2>1, Positions
  <2>4. capacity \in Nat \ {0} /\ front \in 0 .. capacity - 1 /\ length \in 0 .. capacity
    BY DEF TypeOK
  <2> QED BY <1>2, <2>2, <2>3, <2>4, SMT
<1>6. RingConsistent'
  <2>1. length \in 0 .. capacity /\ length' \in 0 .. capacity
    BY <1>1, SMT DEF TypeOK
  <2>2. rear = IF front + length < capacity THEN front + length
               ELSE front + length - capacity
    BY <2>1, Positions DEF RingConsistent
  <2>3. (front' + length') % capacity = IF front' + length' < capacity THEN front' + length'
                                        ELSE front' + length' - capacity
    BY <1>2, <2>1, WrapOnce DEF TypeOK
  <2>4. length' = length - 1 /\ length > 0 /\ rear' = rear /\ capacity' = capacity
    BY <1>1
  <2>5. /\ capacity \in Nat \ {0} /\ front \in 0 .. capacity - 1
        /\ rear \in 0 .. capacity - 1 /\ length \in 0 .. capacity
    BY DEF TypeOK
  <2>6. rear = IF front' + length' < capacity THEN front' + length'
               ELSE front' + length' - capacity
    BY <1>2, <2>2, <2>4, <2>5, SMT
  <2> QED BY <2>3, <2>4, <2>6 DEF RingConsistent, Pos
<1>7. OnlyCutDamaged'
  <2>1. length' = Len(fifo')
    BY <1>1, <1>3, SMT DEF TypeOK
  <2>2. ASSUME NEW k \in 0 .. length' - 1, fifo'[k + 1] \notin cut'
        PROVE  data'[Pos(k)'] = fifo'[k + 1]
    <3>1. k \in 0 .. length - 1 /\ k + 1 \in 0 .. length - 1
      BY <1>1, SMT DEF TypeOK
    <3>2. fifo'[k + 1] = fifo[(k + 1) + 1]
      BY <1>1, <1>3, <3>1, SMT DEF TypeOK
    <3> QED BY <1>1, <1>5, <2>2, <3>1, <3>2 DEF OnlyCutDamaged
  <2> QED BY <2>1, <2>2 DEF OnlyCutDamaged
<1> QED BY <1>4, <1>6, <1>7

LEMMA NextInv == Inv /\ [Next]_vars => Inv'
<1> SUFFICES ASSUME Inv, [Next]_vars PROVE Inv'
  OBVIOUS
<1>1. ASSUME UNCHANGED <<data, capacity, front, rear, length, ghosts>> PROVE Inv'
  BY <1>1 DEF Inv, TypeOK, RingConsistent, OnlyCutDamaged, Pos, ghosts
<1> QED
  BY <1>1, EnqueueInv, GrowInv, DequeueInv
  DEF Next, vars, EnqueueFails, Peek, TakeFails, ghosts

\* Indices never leave the buffer.
THEOREM QueueTypeCorrect == Spec => []TypeOK
<1>1. Inv => TypeOK
  BY DEF Inv
<1> QED BY <1>1, InitInv, NextInv, PTL DEF Spec

\* rear is always length slots after front.
THEOREM QueueConsistent == Spec => []RingConsistent
<1>1. Inv => RingConsistent
  BY DEF Inv
<1> QED BY <1>1, InitInv, NextInv, PTL DEF Spec

\* Whatever the sequence of calls, only elements that a grow left behind the end
\* of the old buffer are ever damaged.
THEOREM QueueDamageConfined == Spec => []OnlyCutDamaged
<1>1. Inv => OnlyCutDamaged
  BY DEF Inv
<1> QED BY <1>1, InitInv, NextInv, PTL DEF Spec

\* A take gives its caller the element it should, unless a grow has left that one behind.
TakenUnlessCut == out.wanted \notin cut => TakenIsOldest

LEMMA TakenInv == Inv /\ TakenUnlessCut /\ [Next]_vars => TakenUnlessCut'
<1> SUFFICES ASSUME Inv, TakenUnlessCut, [Next]_vars PROVE TakenUnlessCut'
  OBVIOUS
<1>1. ASSUME out' \in {Status(0), Status(-1)} PROVE TakenUnlessCut'
  BY <1>1 DEF TakenUnlessCut, TakenIsOldest, Status
<1>2. ASSUME length # 0, out' = Taken, cut' = cut PROVE TakenUnlessCut'
  <2>1. /\ length \in Nat \ {0} /\ length = Len(fifo) /\ fifo \in Seq(Nat)
        /\ capacity \in Nat \ {0} /\ front \in 0 .. capacity - 1
    BY <1>2 DEF Inv, TypeOK, OnlyCutDamaged
  <2>2. 0 \in 0 .. length - 1 /\ 0 + 1 = 1 /\ Head(fifo) = fifo[1]
    BY <2>1
  <2>3. Pos(0) = front /\ At(front) = data[front]
    <3>1. 0 \in 0 .. capacity /\ front + 0 = front /\ front < capacity
      BY <2>1
    <3>2. Pos(0) = front
      BY <2>1, <3>1, WrapOnce DEF Pos
    <3> QED BY <3>1, <3>2 DEF At
  <2>4. fifo[1] \notin cut => data[front] = fifo[1]
    BY <2>2, <2>3 DEF Inv, OnlyCutDamaged
  <2>5. out'.wanted = fifo[1] /\ out'.item = data[front]
    BY <1>2, <2>2, <2>3 DEF Taken
  <2> QED BY <1>2, <2>4, <2>5 DEF TakenUnlessCut, TakenIsOldest
<1>3. CASE Enqueue \/ EnqueueGrow \/ EnqueueFails \/ TakeFails
  BY <1>1, <1>3 DEF Enqueue, EnqueueGrow, EnqueueFails, TakeFails, Accept
<1>4. CASE Dequeue \/ Peek
  BY <1>2, <1>4 DEF Dequeue, Peek, ghosts
<1>5. CASE UNCHANGED vars
  BY <1>5 DEF vars, TakenUnlessCut, TakenIsOldest
<1> QED BY <1>3, <1>4, <1>5 DEF Next

\* queue_dequeue and queue_peek give the oldest element, whatever indices wrap and buffers grow,
\* unless it is one that a grow failed to carry over, which is the only way they go wrong.
THEOREM QueueTakesOldestUnlessCut == Spec => [](out.wanted \notin cut => TakenIsOldest)
<1>1. Init => TakenUnlessCut
  BY DEF Init, TakenUnlessCut, TakenIsOldest, NoResult, Status
<1>2. Inv /\ TakenUnlessCut /\ [Next]_vars => TakenUnlessCut'
  BY TakenInv
<1> QED BY <1>1, <1>2, InitInv, NextInv, PTL DEF Spec, TakenUnlessCut
=============================================================================
