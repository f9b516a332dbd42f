---------------------------- MODULE CircularQueue ----------------------------
(***************************************************************************)
(* queue/queue.c: a FIFO in a circular buffer that doubles when it is full.*)
(* Elements are numbered in the order they are enqueued.  A read outside   *)
(* the buffer, or of memory malloc has not cleared, gives Garbage.         *)
(***************************************************************************)
EXTENDS Integers, Sequences

CONSTANTS InitialCapacity,      \* argument of queue_create
          MaxItems,             \* bound on the number of enqueues
          Garbage               \* what memory holds that was never written

DefaultCapacity == 16           \* used when initial_capacity is 0

ASSUME QueueConstants ==
    /\ InitialCapacity \in Nat
    /\ MaxItems \in Nat
    /\ Garbage \notin Nat

VARIABLES data, capacity, front, rear, length,  \* the fields of Queue
          out,          \* what the last operation gave its caller
          fifo,         \* ghost: the elements a queue should hold, oldest first
          cut,          \* ghost: elements that a grow failed to carry over
          items         \* ghost: number of enqueues so far

vars == <<data, capacity, front, rear, length, out, fifo, cut, items>>
ghosts == <<fifo, cut, items>>

\* Results: a status and, for dequeue and peek, the element copied out.
Status(code)   == [code |-> code, item |-> 0, wanted |-> 0]
NoResult       == Status(0)

-----------------------------------------------------------------------------
\* queue_create.
Init == /\ capacity = IF InitialCapacity = 0 THEN DefaultCapacity ELSE InitialCapacity
        /\ data = [i \in 0 .. capacity - 1 |-> Garbage]
        /\ front = 0 /\ rear = 0 /\ length = 0
        /\ out = NoResult
        /\ fifo = <<>> /\ cut = {} /\ items = 0

\* A read of element i of the buffer.
At(i) == IF i < capacity THEN data[i] ELSE Garbage

\* Where the element number k (from 0) of the queue is.
Pos(k) == (front + k) % capacity

\* The mutated form copies one element too few.
Copied_OneShort(k) ==
    IF front <= rear
    THEN IF k < length - 1 THEN At(front + k) ELSE Garbage
    ELSE IF k < capacity - front THEN At(front + k)
         ELSE IF k < capacity - front + rear THEN At(k - (capacity - front)) ELSE Garbage

\* Element k of the buffer grow makes: memcpy of length elements from front
\* on, or of the two parts when front > rear.
Copied(k) ==
    IF front <= rear
    THEN IF k < length THEN At(front + k) ELSE Garbage
    ELSE IF k < capacity - front THEN At(front + k)
         ELSE IF k < capacity - front + rear THEN At(k - (capacity - front)) ELSE Garbage

Item == items + 1       \* the element the next enqueue adds

\* The slot after i.  The mutated form lets the index run off the buffer.
After_NoWrap(i) == i + 1
After(i) == (i + 1) % capacity

Accept == /\ fifo' = Append(fifo, Item)
          /\ items' = Item
          /\ out' = Status(0)

\* queue_enqueue with room left.
Enqueue ==
    /\ items < MaxItems
    /\ length < capacity
    /\ data' = [data EXCEPT ![rear] = Item]
    /\ rear' = After(rear)
    /\ length' = length + 1
    /\ Accept
    /\ UNCHANGED <<capacity, front, cut>>

\* queue_enqueue on a full buffer: grow, then store.
EnqueueGrow ==
    /\ items < MaxItems
    /\ length >= capacity
    /\ capacity' = capacity * 2
    /\ data' = [k \in 0 .. capacity * 2 - 1 |-> IF k = length THEN Item ELSE Copied(k)]
    /\ front' = 0
    /\ rear' = (length + 1) % (capacity * 2)
    /\ length' = length + 1
    /\ cut' = cut \cup {fifo[k + 1] : k \in {j \in 0 .. length - 1 : front + j >= capacity}}
    /\ Accept

\* queue_enqueue on a full buffer when malloc fails.
EnqueueFails ==
    /\ length >= capacity
    /\ out' = Status(-1)
    /\ UNCHANGED <<data, capacity, front, rear, length, ghosts>>

\* What dequeue and peek copy out.
Taken == [code |-> 0, item |-> At(front), wanted |-> Head(fifo)]

\* The mutated form does not advance front.
Dequeue_FrontStays ==
    /\ length # 0
    /\ out' = Taken
    /\ length' = length - 1
    /\ fifo' = Tail(fifo)
    /\ UNCHANGED <<data, capacity, front, rear, cut, items>>

\* queue_dequeue.
Dequeue ==
    /\ length # 0
    /\ out' = Taken
    /\ front' = After(front)
    /\ length' = length - 1
    /\ fifo' = Tail(fifo)
    /\ UNCHANGED <<data, capacity, rear, cut, items>>

Peek ==
    /\ length # 0
    /\ out' = Taken
    /\ UNCHANGED <<data, capacity, front, rear, length, ghosts>>

\* queue_dequeue and queue_peek on an empty queue.
TakeFails ==
    /\ length = 0
    /\ out' = Status(-1)
    /\ UNCHANGED <<data, capacity, front, rear, length, ghosts>>

Next == Enqueue \/ EnqueueGrow \/ EnqueueFails \/ Dequeue \/ Peek \/ TakeFails

Spec == Init /\ [][Next]_vars

-----------------------------------------------------------------------------
\* Indices stay inside the buffer.
TypeOK ==
    /\ capacity \in Nat \ {0}
    /\ data \in [0 .. capacity - 1 -> Nat \cup {Garbage}]
    /\ front \in 0 .. capacity - 1 /\ rear \in 0 .. capacity - 1
    /\ length \in 0 .. capacity
    /\ items \in Nat
    /\ fifo \in Seq(Nat) /\ cut \subseteq Nat

\* front, rear and length describe one queue: rear is length slots after front,
\* also across the end of the buffer and across a grow.
RingConsistent == rear = Pos(length)

\* The buffer holds exactly the elements a queue should, in their order, except
\* for those a grow failed to carry over: growth damages nothing else, and
\* elements enqueued after it are safe.
OnlyCutDamaged ==
    /\ length = Len(fifo)
    /\ \A k \in 0 .. length - 1 : fifo[k + 1] \notin cut => data[Pos(k)] = fifo[k + 1]

\* The queue as its users know it (README.md:10): whatever is taken or peeked at is
\* the oldest element.
TakenIsOldest == out.item = out.wanted
=============================================================================
