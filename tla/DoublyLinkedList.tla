-------------------------- MODULE DoublyLinkedList --------------------------
(***************************************************************************)
(* doubly_linked_list/doubly_linked_list.c over a heap of nodes.  A node   *)
(* and the data block it owns are one cell of the heap; malloc returns any *)
(* free cell or fails, and an allocation that fails half way gives back    *)
(* what it took.                                                           *)
(***************************************************************************)
EXTENDS Integers, Sequences, FiniteSets

CONSTANTS Node,         \* addresses malloc can return
          Values,       \* element values
          NULL,         \* the null pointer
          Freed,        \* contents of a cell that is not allocated
          None          \* no value was returned

VARIABLES heap,                 \* [Node -> cell]
          head, tail, length,   \* fields of DoublyLinkedList
          out                   \* the last call, its status, index and value

vars == <<heap, head, tail, length, out>>

Answer(op, code, i, v) == [op |-> op, code |-> code, index |-> i, val |-> v]
Cell == [data : Values, next : Node \cup {NULL}, prev : Node \cup {NULL}]

FreeNodes == {n \in Node : heap[n] = Freed}

\* dll_create.
Init == /\ heap = [n \in Node |-> Freed]
        /\ head = NULL /\ tail = NULL /\ length = 0
        /\ out = Answer("create", 0, 0, None)

-----------------------------------------------------------------------------
(* Walks. *)

\* Follow next i times from head; follow prev i times from tail.
FromHead[i \in Nat] == IF i = 0 THEN head ELSE heap[FromHead[i - 1]].next
FromTail[i \in Nat] == IF i = 0 THEN tail ELSE heap[FromTail[i - 1]].prev

\* The node dll_get_at reads: from the end that is nearer.  The mutated form
\* counts i steps from either end.
Nearest_SameCount(i) == IF i < length \div 2 THEN FromHead[i] ELSE FromTail[i]
Nearest(i) == IF i < length \div 2 THEN FromHead[i] ELSE FromTail[length - 1 - i]

-----------------------------------------------------------------------------
(* dll_insert_at, which dll_append and dll_prepend call with index length  *)
(* and 0: one action per branch.                                           *)

Succeed(op, i, v) == out' = Answer(op, 0, i, v)

\* create_node leaves next as malloc found it.
InsertEmpty_Uninitialized(n, v) ==
    /\ length = 0
    /\ heap' = [heap EXCEPT ![n] = [data |-> v, next |-> None, prev |-> NULL]]
    /\ head' = n /\ tail' = n

InsertEmpty(n, v) ==
    /\ length = 0
    /\ heap' = [heap EXCEPT ![n] = [data |-> v, next |-> NULL, prev |-> NULL]]
    /\ head' = n /\ tail' = n

InsertFront(n, v) ==
    /\ length > 0
    /\ heap' = [heap EXCEPT ![n] = [data |-> v, next |-> head, prev |-> NULL],
                            ![head].prev = n]
    /\ head' = n
    /\ UNCHANGED tail

InsertBack(n, v) ==
    /\ length > 0
    /\ heap' = [heap EXCEPT ![n] = [data |-> v, next |-> NULL, prev |-> tail],
                            ![tail].next = n]
    /\ tail' = n
    /\ UNCHANGED head

\* The back pointer of the node after the new one is forgotten.
InsertMiddle_NoBackLink(n, i, v) ==
    LET cur == FromHead[i]
    IN  /\ 0 < i /\ i < length
        /\ heap' = [heap EXCEPT ![n] = [data |-> v, next |-> cur, prev |-> heap[cur].prev],
                                ![heap[cur].prev].next = n]
        /\ UNCHANGED <<head, tail>>

InsertMiddle(n, i, v) ==
    LET cur == FromHead[i]
    IN  /\ 0 < i /\ i < length
        /\ heap' = [heap EXCEPT ![n] = [data |-> v, next |-> cur, prev |-> heap[cur].prev],
                                ![heap[cur].prev].next = n,
                                ![cur].prev = n]
        /\ UNCHANGED <<head, tail>>

Insert(n, i, v) ==
    /\ i <= length
    /\ n \in FreeNodes
    /\ \/ InsertEmpty(n, v)
       \/ i = 0 /\ InsertFront(n, v)
       \/ i = length /\ InsertBack(n, v)
       \/ InsertMiddle(n, i, v)
    /\ length' = length + 1
    /\ Succeed("insert", i, None)

-----------------------------------------------------------------------------
(* dll_remove_at: one action per branch, then the common end. *)

RemoveFront ==
    /\ head' = heap[head].next
    /\ tail' = IF head' = NULL THEN NULL ELSE tail
    /\ heap' = IF head' = NULL THEN [heap EXCEPT ![head] = Freed]
               ELSE [heap EXCEPT ![head'].prev = NULL, ![head] = Freed]

RemoveBack ==
    /\ tail' = heap[tail].prev
    /\ head' = IF tail' = NULL THEN NULL ELSE head
    /\ heap' = IF tail' = NULL THEN [heap EXCEPT ![tail] = Freed]
               ELSE [heap EXCEPT ![tail'].next = NULL, ![tail] = Freed]

RemoveMiddle(i) ==
    LET gone == FromHead[i]
    IN  /\ heap' = [heap EXCEPT ![heap[gone].prev].next = heap[gone].next,
                                ![heap[gone].next].prev = heap[gone].prev,
                                ![gone] = Freed]
        /\ UNCHANGED <<head, tail>>

Remove(i) ==
    /\ i < length
    /\ \/ i = 0 /\ RemoveFront /\ Succeed("remove", i, heap[head].data)
       \/ i # 0 /\ i = length - 1 /\ RemoveBack /\ Succeed("remove", i, heap[tail].data)
       \/ i # 0 /\ i # length - 1 /\ RemoveMiddle(i) /\ Succeed("remove", i, heap[FromHead[i]].data)
    /\ length' = length - 1

-----------------------------------------------------------------------------
Get(i) == /\ i < length
          /\ Succeed("get", i, heap[Nearest(i)].data)
          /\ UNCHANGED <<heap, head, tail, length>>

\* The walk of dll_clear stops one node early.
Clear_OneShort ==
    /\ heap' = [n \in Node |->
                  IF \E i \in 0 .. length - 2 : FromHead[i] = n THEN Freed ELSE heap[n]]
    /\ head' = NULL /\ tail' = NULL /\ length' = 0
    /\ Succeed("clear", 0, None)

\* dll_clear frees what it meets on the way from head.
Clear == /\ heap' = [n \in Node |->
                       IF \E i \in 0 .. length - 1 : FromHead[i] = n THEN Freed ELSE heap[n]]
         /\ head' = NULL /\ tail' = NULL /\ length' = 0
         /\ Succeed("clear", 0, None)

\* An index out of range, or malloc failing.
Fail(op, i) == /\ op \in {"remove", "get"} => i >= length
               /\ out' = Answer(op, -1, i, None)
               /\ UNCHANGED <<heap, head, tail, length>>

Next == \/ \E n \in Node, i \in 0 .. length, v \in Values : Insert(n, i, v)
        \/ \E i \in 0 .. length : Remove(i) \/ Get(i)
        \/ \E i \in 0 .. length + 1, op \in {"insert", "remove", "get"} : Fail(op, i)
        \/ Clear

Spec == Init /\ [][Next]_vars

-----------------------------------------------------------------------------
(* Properties. *)

\* Every pointer leads to a node of the heap or nowhere.
PointersOK ==
    /\ heap \in [Node -> Cell \cup {Freed}]
    /\ head \in Node \cup {NULL} /\ tail \in Node \cup {NULL}
    /\ length \in 0 .. Cardinality(Node)

\* The nodes in the order a forward walk meets them, stopping where it must.
Forward == {FromHead[i] : i \in 0 .. length - 1}

\* Walking back from tail meets the nodes of the forward walk in reverse, and both
\* walks end after length nodes: the four insertion and three removal branches
\* maintain both directions and both ends.
WalksAgree ==
    /\ \A i \in 0 .. length - 1 : FromTail[i] = FromHead[length - 1 - i]
    /\ FromHead[length] = NULL /\ FromTail[length] = NULL

\* No node is lost and none is freed twice or used after it was freed: the
\* allocated cells are exactly those of the list.
NothingLeaks == Forward = Node \ FreeNodes /\ Cardinality(Forward) = length

\* Positions mean what they mean in a sequence, whichever end a call walks from.
Abs == INSTANCE IndexedList
         WITH items <- [i \in 1 .. length |-> heap[FromHead[i - 1]].data]
ImplementsList == Abs!Spec
=============================================================================
