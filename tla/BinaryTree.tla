----------------------------- MODULE BinaryTree -----------------------------
(***************************************************************************)
(* binary_tree/binary_tree.c over a heap of nodes.  The compare function   *)
(* orders data by a number, its key; the rest of a datum is its value.  A  *)
(* node and its data are one cell; malloc returns any free cell or fails.  *)
(***************************************************************************)
EXTENDS Integers, Sequences, FiniteSets

CONSTANTS Node,         \* addresses malloc can return
          Keys,         \* numbers the data are compared by
          Values,       \* what else a datum holds
          NULL,         \* the null pointer
          Freed,        \* contents of a cell that is not allocated
          None          \* no key, or no value

VARIABLES heap,         \* [Node -> cell]
          root,         \* tree->root
          out           \* the last call, its status, key and value

vars == <<heap, root, out>>

Answer(op, code, k, v) == [op |-> op, code |-> code, key |-> k, val |-> v]

FreeNodes == {n \in Node : heap[n] = Freed}
MaxDepth == Cardinality(Node)

\* btree_create.
Init == /\ heap = [n \in Node |-> Freed]
        /\ root = NULL
        /\ out = Answer("create", 0, None, None)

-----------------------------------------------------------------------------
(* Searching in heap h.  A null pointer ends a walk, and so does the key. *)

Child(h, n, k) == IF k < h[n].key THEN h[n].left ELSE h[n].right

\* Where the walk for key k that starts at node n is after i steps.
Walk(h, n, k) ==
    LET w[i \in Nat] ==
          IF i = 0 THEN n
          ELSE LET p == w[i - 1]
               IN  IF p = NULL \/ h[p].key = k THEN p ELSE Child(h, p, k)
    IN  w

Reached(h, n, k) == Walk(h, n, k)[MaxDepth]
Holder(k) == Reached(heap, root, k)

\* The last node of a walk that ends in a null pointer.
LastBefore(k) ==
    LET w == Walk(heap, root, k)
    IN  w[CHOOSE i \in 0 .. MaxDepth : w[i] # NULL /\ w[i + 1] = NULL]

\* The walk to the left is left out.
FindMin_NoWalk(n) == n

\* find_min.
FindMin(n) ==
    LET w[i \in Nat] ==
          IF i = 0 THEN n
          ELSE LET p == w[i - 1] IN IF heap[p].left = NULL THEN p ELSE heap[p].left
    IN  w[MaxDepth]

-----------------------------------------------------------------------------
(* Operations. *)

\* btree_insert at the null pointer the walk ends in.
Insert(n, k, v) ==
    /\ Holder(k) = NULL
    /\ n \in FreeNodes
    /\ LET h == [heap EXCEPT ![n] = [key |-> k, value |-> v, left |-> NULL, right |-> NULL]]
       IN  IF root = NULL THEN heap' = h /\ root' = n
           ELSE LET p == LastBefore(k)
                IN  /\ heap' = IF k < heap[p].key THEN [h EXCEPT ![p].left = n]
                               ELSE [h EXCEPT ![p].right = n]
                    /\ UNCHANGED root
    /\ out' = Answer("insert", 0, k, None)

\* A key that is there already: success, and the new datum is dropped.
InsertPresent(k) ==
    /\ Holder(k) # NULL
    /\ out' = Answer("insert", 0, k, None)
    /\ UNCHANGED <<heap, root>>

\* create_node fails: the null pointer is stored over the null pointer.
InsertFails(k) ==
    /\ Holder(k) = NULL
    /\ out' = Answer("insert", -1, k, None)
    /\ UNCHANGED <<heap, root>>

\* btree_search.
Search(k) ==
    /\ out' = IF Holder(k) = NULL THEN Answer("search", -1, k, None)
              ELSE Answer("search", 0, k, heap[Holder(k)].value)
    /\ UNCHANGED <<heap, root>>

OnlyChild(n) == IF heap[n].left = NULL THEN heap[n].right ELSE heap[n].left

\* In heap h, every pointer to node n led to its child instead, and n freed.
Spliced(h, n) ==
    [m \in Node |->
       IF m = n THEN Freed
       ELSE IF h[m] = Freed THEN Freed
       ELSE [h[m] EXCEPT !.left = IF @ = n THEN OnlyChild(n) ELSE @,
                         !.right = IF @ = n THEN OnlyChild(n) ELSE @]]

\* remove_node's second search, for the successor's key below the right pointer.
Second(h, n, k) == Reached(h, h[n].right, k)

\* A node with at most one child.
RemoveNode(n) ==
    /\ heap[n].left = NULL \/ heap[n].right = NULL
    /\ heap' = Spliced(heap, n)
    /\ root' = IF root = n THEN OnlyChild(n) ELSE root

\* Only what the tree compares by is copied.
Copied_KeyOnly(n, s) == [heap EXCEPT ![n].key = heap[s].key]

\* The datum of node s copied over that of node n.
Copied(n, s) == [heap EXCEPT ![n].key = heap[s].key, ![n].value = heap[s].value]

\* A node with two takes its successor's datum, and the successor's is removed.
RemoveSuccessor(n) ==
    /\ heap[n].left # NULL /\ heap[n].right # NULL
    /\ LET s == FindMin(heap[n].right)
           h == Copied(n, s)
       IN  heap' = Spliced(h, Second(h, n, h[s].key))
    /\ UNCHANGED root

\* btree_remove.
Remove(k) ==
    /\ Holder(k) # NULL
    /\ RemoveNode(Holder(k)) \/ RemoveSuccessor(Holder(k))
    /\ out' = Answer("remove", 0, k, None)

RemoveFails(k) ==
    /\ Holder(k) = NULL
    /\ out' = Answer("remove", -1, k, None)
    /\ UNCHANGED <<heap, root>>

-----------------------------------------------------------------------------
(* Traversals, to any depth a tree of these nodes can have.  pos: where a   *)
(* node is visited, before (0), between (1) or after (2) its subtrees.      *)

Visits(pos) ==
    LET t[d \in 0 .. MaxDepth] ==
          [n \in Node \cup {NULL} |->
             IF n = NULL \/ d = 0 THEN <<>>
             ELSE LET l == t[d - 1][heap[n].left]
                      r == t[d - 1][heap[n].right]
                  IN  CASE pos = 0 -> <<n>> \o l \o r
                        [] pos = 1 -> l \o <<n>> \o r
                        [] pos = 2 -> l \o r \o <<n>>]
    IN  t[MaxDepth][root]

Preorder  == Visits(0)
Inorder   == Visits(1)
Postorder == Visits(2)

\* btree_size.
Size == Len(Preorder)

\* The subtrees of the root are left behind.
Freed_RootOnly == {root}

\* btree_destroy frees in postorder: no node before what it points to.
FreedByDestroy == LET met == Postorder IN {met[i] : i \in DOMAIN met}

\* A new tree follows.
Destroy == /\ heap' = [n \in Node |-> IF n \in FreedByDestroy THEN Freed ELSE heap[n]]
           /\ root' = NULL
           /\ out' = Answer("destroy", 0, None, None)

Next == \/ \E k \in Keys :
             \/ \E n \in Node, v \in Values : Insert(n, k, v)
             \/ InsertPresent(k) \/ InsertFails(k) \/ Search(k)
             \/ Remove(k) \/ RemoveFails(k)
        \/ Destroy

Spec == Init /\ [][Next]_vars

-----------------------------------------------------------------------------
(* Properties. *)

\* An in-order visit meets the keys in ascending order: insertion, and removal with
\* the successor's datum copied and its key searched for again, keep the search
\* order at every node, not only at the ones they touch.
InorderAscends ==
    LET met == Inorder
    IN  \A i \in 1 .. Len(met) - 1 : heap[met[i]].key < heap[met[i + 1]].key

\* Every allocated node is in one place of the tree, and what was freed nowhere:
\* btree_size counts the nodes and btree_destroy frees each one once.
TreeOwnsHeap ==
    /\ LET met == Postorder IN {met[i] : i \in DOMAIN met} = Node \ FreeNodes
    /\ Size = Cardinality(Node \ FreeNodes)

\* A tree is a dictionary in which the first datum of a key stays.
Abs == INSTANCE KeyedMap
         WITH map <- [k \in Keys |-> LET n == Holder(k)
                                    IN  IF n = NULL THEN None ELSE heap[n].value],
              Overwrites <- FALSE, Lost <- NULL
TreeImplementsMap == Abs!Spec
=============================================================================
