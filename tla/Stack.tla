-------------------------------- MODULE Stack --------------------------------
(***************************************************************************)
(* stack/stack.c: an array that doubles by realloc when a push finds it    *)
(* full.  Slots at and above top keep what was popped from them.           *)
(***************************************************************************)
EXTENDS Integers, Sequences

CONSTANTS InitialCapacity,      \* argument of stack_create
          MaxCapacity,          \* bound on the array: realloc fails beyond it
          Values,               \* element values
          Garbage,              \* what memory holds that was never written
          None                  \* no value was returned

DefaultCapacity == 16           \* used when initial_capacity is 0

VARIABLES data, capacity, top,  \* the fields of Stack
          out                   \* the last call, its status, position and value

vars == <<data, capacity, top, out>>

Answer(op, code, i, v) == [op |-> op, code |-> code, index |-> i, val |-> v]

\* stack_create.
Init == /\ capacity = IF InitialCapacity = 0 THEN DefaultCapacity ELSE InitialCapacity
        /\ data = [i \in 0 .. capacity - 1 |-> Garbage]
        /\ top = 0
        /\ out = Answer("create", 0, 0, None)

\* A new array without the old elements.
Grown_Fresh == [i \in 0 .. 2 * capacity - 1 |-> Garbage]

\* realloc keeps the elements.
Grown == [i \in 0 .. 2 * capacity - 1 |-> IF i < capacity THEN data[i] ELSE Garbage]

Full == top >= capacity

\* stack_push, with grow before it on a full array.
Push(v) ==
    /\ Full => 2 * capacity <= MaxCapacity
    /\ capacity' = IF Full THEN 2 * capacity ELSE capacity
    /\ data' = [(IF Full THEN Grown ELSE data) EXCEPT ![top] = v]
    /\ top' = top + 1
    /\ out' = Answer("insert", 0, top, None)

PushFails == /\ Full
             /\ out' = Answer("insert", -1, top, None)
             /\ UNCHANGED <<data, capacity, top>>

Pop == /\ top # 0
       /\ top' = top - 1
       /\ out' = Answer("remove", 0, top - 1, data[top - 1])
       /\ UNCHANGED <<data, capacity>>

Peek == /\ top # 0
        /\ out' = Answer("get", 0, top - 1, data[top - 1])
        /\ UNCHANGED <<data, capacity, top>>

\* stack_pop and stack_peek of an empty stack.
Empty(op) == /\ top = 0
             /\ out' = Answer(op, -1, 0, None)
             /\ UNCHANGED <<data, capacity, top>>

Next == \/ \E v \in Values : Push(v)
        \/ PushFails \/ Pop \/ Peek
        \/ \E op \in {"remove", "get"} : Empty(op)

Spec == Init /\ [][Next]_vars

-----------------------------------------------------------------------------
\* A stack is a list used at one end, across every grow: what is popped or peeked
\* at is what was pushed last and not popped since.
Abs == INSTANCE IndexedList WITH items <- [i \in 1 .. top |-> data[i - 1]]
StackImplementsList == Abs!Spec
=============================================================================
