------------------------------ MODULE HashTable ------------------------------
(***************************************************************************)
(* hash_table/hash_table.c over a heap of entries.  An entry, its key and  *)
(* its value are one cell; malloc returns any free cell or fails, and a    *)
(* new entry that fails half way gives back what it took.  An overwrite    *)
(* frees the old value before it asks for the new one.                     *)
(***************************************************************************)
EXTENDS Integers, FiniteSets

CONSTANTS Node,         \* addresses malloc can return for entries
          Keys, Values,
          Hash,         \* [Keys -> Nat], the user's hash function
          NumBuckets,   \* table->num_buckets
          NULL,         \* the null pointer
          Freed,        \* contents of a cell that is not allocated
          None          \* no key, or no value

VARIABLES buckets,      \* [0 .. NumBuckets - 1 -> first entry]
          heap,         \* [Node -> cell]
          size,         \* table->size
          out           \* the last call, its status, key and value

vars == <<buckets, heap, size, out>>

Answer(op, code, k, v) == [op |-> op, code |-> code, key |-> k, val |-> v]

Bucket == 0 .. NumBuckets - 1
FreeNodes == {n \in Node : heap[n] = Freed}

\* ht_create.
Init == /\ buckets = [b \in Bucket |-> NULL]
        /\ heap = [n \in Node |-> Freed]
        /\ size = 0
        /\ out = Answer("create", 0, None, None)

Idx(k) == Hash[k] % NumBuckets

\* The entry a walk down bucket b meets after i steps.
Entry(b) ==
    LET e[i \in Nat] == IF i = 0 THEN buckets[b]
                        ELSE IF e[i - 1] = NULL THEN NULL ELSE heap[e[i - 1]].next
    IN  e

\* Only the first entry of the bucket is compared.
Positions_FirstOnly(k) == {i \in {0} : LET n == Entry(Idx(k))[i]
                                       IN  n # NULL /\ heap[n].key = k}

\* The positions in its bucket where key k is; walks take the first.
Positions(k) == {i \in 0 .. size : LET n == Entry(Idx(k))[i]
                                   IN  n # NULL /\ heap[n].key = k}
Found(k) == Positions(k) # {}
Pos(k) == CHOOSE i \in Positions(k) : \A j \in Positions(k) : i <= j
Hit(k) == Entry(Idx(k))[Pos(k)]

-----------------------------------------------------------------------------
(* ht_insert. *)

Overwrite(k, v) ==
    /\ Found(k)
    /\ heap' = [heap EXCEPT ![Hit(k)].value = v]
    /\ out' = Answer("insert", 0, k, None)
    /\ UNCHANGED <<buckets, size>>

\* The old value is gone and the entry keeps the null pointer malloc gave.
OverwriteFails(k) ==
    /\ Found(k)
    /\ heap' = [heap EXCEPT ![Hit(k)].value = NULL]
    /\ out' = Answer("insert", -1, k, None)
    /\ UNCHANGED <<buckets, size>>

\* The chain it is put in front of is forgotten.
Fresh_NoNext(k, v) == [key |-> k, value |-> v, next |-> NULL]

Fresh(k, v) == [key |-> k, value |-> v, next |-> buckets[Idx(k)]]

InsertNew(n, k, v) ==
    /\ ~Found(k)
    /\ n \in FreeNodes
    /\ heap' = [heap EXCEPT ![n] = Fresh(k, v)]
    /\ buckets' = [buckets EXCEPT ![Idx(k)] = n]
    /\ size' = size + 1
    /\ out' = Answer("insert", 0, k, None)

InsertFails(k) ==
    /\ ~Found(k)
    /\ out' = Answer("insert", -1, k, None)
    /\ UNCHANGED <<buckets, heap, size>>

-----------------------------------------------------------------------------
\* ht_search.  The answer NULL is the copy from a null pointer.
Search(k) ==
    /\ out' = IF Found(k) THEN Answer("search", 0, k, heap[Hit(k)].value)
              ELSE Answer("search", -1, k, None)
    /\ UNCHANGED <<buckets, heap, size>>

\* The entry out of its chain, and freed.
Bypassed(k) ==
    \/ /\ Pos(k) = 0
       /\ buckets' = [buckets EXCEPT ![Idx(k)] = heap[Hit(k)].next]
       /\ heap' = [heap EXCEPT ![Hit(k)] = Freed]
    \/ /\ Pos(k) # 0
       /\ heap' = [heap EXCEPT ![Entry(Idx(k))[Pos(k) - 1]].next = heap[Hit(k)].next,
                               ![Hit(k)] = Freed]
       /\ UNCHANGED buckets

\* ht_remove.
Remove(k) ==
    /\ Found(k)
    /\ Bypassed(k)
    /\ size' = size - 1
    /\ out' = Answer("remove", 0, k, None)

RemoveFails(k) ==
    /\ ~Found(k)
    /\ out' = Answer("remove", -1, k, None)
    /\ UNCHANGED <<buckets, heap, size>>

\* ht_destroy frees what its walks meet; a new table follows.
Destroy ==
    /\ heap' = [n \in Node |->
                  IF \E b \in Bucket, i \in 0 .. size : Entry(b)[i] = n THEN Freed ELSE heap[n]]
    /\ buckets' = [b \in Bucket |-> NULL]
    /\ size' = 0
    /\ out' = Answer("destroy", 0, None, None)

Next == \/ \E k \in Keys :
             \/ \E v \in Values : Overwrite(k, v) \/ \E n \in Node : InsertNew(n, k, v)
             \/ OverwriteFails(k) \/ InsertFails(k) \/ Search(k)
             \/ Remove(k) \/ RemoveFails(k)
        \/ Destroy

Spec == Init /\ [][Next]_vars

-----------------------------------------------------------------------------
(* Properties. *)

\* Every allocated entry is in exactly one place of one chain, none that was freed
\* is, and size counts them.
ChainsOwnHeap ==
    LET places == {p \in Bucket \X (0 .. size) : Entry(p[1])[p[2]] # NULL}
    IN  /\ {Entry(p[1])[p[2]] : p \in places} = Node \ FreeNodes
        /\ Cardinality(places) = Cardinality(Node \ FreeNodes)
        /\ size = Cardinality(places)

\* A table is a dictionary whatever the hash function maps together: no key is
\* shadowed by another or by an older entry of its own, and only an overwrite
\* that runs out of memory loses a value.
Abs == INSTANCE KeyedMap
         WITH map <- [k \in Keys |-> IF Found(k) THEN heap[Hit(k)].value ELSE None],
              Overwrites <- TRUE, Lost <- NULL
TableImplementsMap == Abs!Spec
=============================================================================
