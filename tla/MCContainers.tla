---------------------------- MODULE MCContainers ----------------------------
(***************************************************************************)
(* Small instances of the containers for TLC.  A behaviour uses one of     *)
(* them, as the stages of src/test.c do; the others stay as created.       *)
(***************************************************************************)
EXTENDS CircularQueue, TLC

CONSTANTS Node, Values, NULL, Freed, None,
          Keys, Hash, NumBuckets, StackCapacity, MaxCapacity

VARIABLES using,
          dHeap, dHead, dTail, dLength, dOut,   \* doubly linked list
          sHeap, sHead, sLength, sOut,          \* singly linked list
          hBuckets, hHeap, hSize, hOut,         \* hash table
          tHeap, tRoot, tOut,                   \* binary tree
          kData, kCapacity, kTop, kOut          \* stack

dVars == <<dHeap, dHead, dTail, dLength, dOut>>
sVars == <<sHeap, sHead, sLength, sOut>>
hVars == <<hBuckets, hHeap, hSize, hOut>>
tVars == <<tHeap, tRoot, tOut>>
kVars == <<kData, kCapacity, kTop, kOut>>

DList == INSTANCE DoublyLinkedList
           WITH heap <- dHeap, head <- dHead, tail <- dTail, length <- dLength, out <- dOut
SList == INSTANCE SinglyLinkedList
           WITH heap <- sHeap, head <- sHead, length <- sLength, out <- sOut
Table == INSTANCE HashTable
           WITH buckets <- hBuckets, heap <- hHeap, size <- hSize, out <- hOut
Tree  == INSTANCE BinaryTree WITH heap <- tHeap, root <- tRoot, out <- tOut
Pile  == INSTANCE Stack
           WITH data <- kData, capacity <- kCapacity, top <- kTop, out <- kOut,
                InitialCapacity <- StackCapacity

Rest(c) == /\ IF c = "queue" THEN TRUE ELSE UNCHANGED vars
           /\ IF c = "dlist" THEN TRUE ELSE UNCHANGED dVars
           /\ IF c = "slist" THEN TRUE ELSE UNCHANGED sVars
           /\ IF c = "table" THEN TRUE ELSE UNCHANGED hVars
           /\ IF c = "tree" THEN TRUE ELSE UNCHANGED tVars
           /\ IF c = "stack" THEN TRUE ELSE UNCHANGED kVars

UseInit == /\ using \in {"queue", "dlist", "slist", "table", "tree", "stack"}
           /\ Init /\ DList!Init /\ SList!Init /\ Table!Init /\ Tree!Init /\ Pile!Init

UseNext == /\ \/ using = "queue" /\ Next
              \/ using = "dlist" /\ DList!Next
              \/ using = "slist" /\ SList!Next
              \/ using = "table" /\ Table!Next
              \/ using = "tree"  /\ Tree!Next
              \/ using = "stack" /\ Pile!Next
           /\ Rest(using)
           /\ UNCHANGED using

UseSpec == UseInit /\ [][UseNext]_<<using, vars, dVars, sVars, hVars, tVars, kVars>>

Perms == Permutations(Node)

Numbered == 1 .. 4

\* Keys 1 and 4 have one hash, and 3 comes into their bucket by its remainder.
Colliding == [k \in Numbered |-> <<1, 2, 3, 1>>[k]]

\* The properties of the instances, under their own names.
PointersOK          == DList!PointersOK
WalksAgree          == DList!WalksAgree
NothingLeaks        == DList!NothingLeaks
ImplementsList      == DList!ImplementsList
ChainOwnsHeap       == SList!ChainOwnsHeap
ChainImplementsList == SList!ChainImplementsList
ChainsOwnHeap       == Table!ChainsOwnHeap
TableImplementsMap  == Table!TableImplementsMap
InorderAscends      == Tree!InorderAscends
TreeOwnsHeap        == Tree!TreeOwnsHeap
TreeImplementsMap   == Tree!TreeImplementsMap
StackImplementsList == Pile!StackImplementsList
=============================================================================
