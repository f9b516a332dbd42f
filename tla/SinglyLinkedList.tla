-------------------------- MODULE SinglyLinkedList --------------------------
(***************************************************************************)
(* linked_list/linked_list.c over a heap of nodes.  A node and the data    *)
(* block it owns are one cell; malloc returns any free cell or fails, and  *)
(* an insertion that fails half way gives back what it took.               *)
(***************************************************************************)
EXTENDS Integers, FiniteSets

CONSTANTS Node,         \* addresses malloc can return
          Values,       \* element values
          NULL,         \* the null pointer
          Freed,        \* contents of a cell that is not allocated
          None          \* no value was returned

VARIABLES heap,             \* [Node -> cell]
          head, length,     \* fields of LinkedList
          out               \* the last call, its status, index and value

vars == <<heap, head, length, out>>

Answer(op, code, i, v) == [op |-> op, code |-> code, index |-> i, val |-> v]

FreeNodes == {n \in Node : heap[n] = Freed}

\* ll_create.
Init == /\ heap = [n \in Node |-> Freed]
        /\ head = NULL /\ length = 0
        /\ out = Answer("create", 0, 0, None)

\* Follow next i times from head.
At[i \in Nat] == IF i = 0 THEN head ELSE heap[At[i - 1]].next

-----------------------------------------------------------------------------
(* ll_insert_at; ll_append and ll_prepend call it with length and 0. *)

\* The new node in front of the list, or behind the one at index - 1.
Linked(n, i, v) ==
    IF i = 0 THEN [heap EXCEPT ![n] = [data |-> v, next |-> head]]
    ELSE [heap EXCEPT ![n] = [data |-> v, next |-> heap[At[i - 1]].next],
                      ![At[i - 1]].next = n]

Insert(n, i, v) ==
    /\ i <= length
    /\ n \in FreeNodes
    /\ heap' = Linked(n, i, v)
    /\ head' = IF i = 0 THEN n ELSE head
    /\ length' = length + 1
    /\ out' = Answer("insert", 0, i, None)

\* The walk to the predecessor goes one node too far, where there is one.
Unlinked_TooFar(i) ==
    IF i = 0 THEN [heap EXCEPT ![head] = Freed]
    ELSE LET prev == IF i < length - 1 THEN At[i] ELSE At[i - 1]
         IN  [heap EXCEPT ![prev].next = heap[heap[prev].next].next,
                          ![heap[prev].next] = Freed]

\* Node i taken out of the chain and freed.
Unlinked(i) ==
    IF i = 0 THEN [heap EXCEPT ![head] = Freed]
    ELSE [heap EXCEPT ![At[i - 1]].next = heap[At[i]].next, ![At[i]] = Freed]

\* ll_remove_at.
Remove(i) ==
    /\ i < length
    /\ heap' = Unlinked(i)
    /\ head' = IF i = 0 THEN heap[head].next ELSE head
    /\ length' = length - 1
    /\ out' = Answer("remove", 0, i, heap[At[i]].data)

\* ll_get_at.
Get(i) == /\ i < length
          /\ out' = Answer("get", 0, i, heap[At[i]].data)
          /\ UNCHANGED <<heap, head, length>>

\* The node whose successor is not there is not freed.
Cleared_OneShort ==
    [n \in Node |-> IF \E i \in 0 .. length - 2 : At[i] = n THEN Freed ELSE heap[n]]

\* What ll_clear meets on its way is freed.
Cleared ==
    [n \in Node |-> IF \E i \in 0 .. length - 1 : At[i] = n THEN Freed ELSE heap[n]]

\* ll_clear, which ll_destroy calls.
Clear == /\ heap' = Cleared
         /\ head' = NULL /\ length' = 0
         /\ out' = Answer("clear", 0, 0, None)

\* An index out of range, or malloc failing.
Fail(op, i) == /\ op \in {"remove", "get"} => i >= length
               /\ out' = Answer(op, -1, i, None)
               /\ UNCHANGED <<heap, head, length>>

Next == \/ \E n \in Node, i \in 0 .. length, v \in Values : Insert(n, i, v)
        \/ \E i \in 0 .. length : Remove(i) \/ Get(i)
        \/ \E i \in 0 .. length + 1, op \in {"insert", "remove", "get"} : Fail(op, i)
        \/ Clear

Spec == Init /\ [][Next]_vars

-----------------------------------------------------------------------------
(* Properties. *)

\* No node is lost, none is freed that is still linked, and length counts them:
\* the allocated cells are those of a chain of length nodes that ends in NULL.
ChainOwnsHeap ==
    /\ {At[i] : i \in 0 .. length - 1} = Node \ FreeNodes
    /\ Cardinality(Node \ FreeNodes) = length
    /\ At[length] = NULL

\* Positions mean what they mean in a sequence.
Abs == INSTANCE IndexedList
         WITH items <- [i \in 1 .. length |-> heap[At[i - 1]].data]
ChainImplementsList == Abs!Spec
=============================================================================
