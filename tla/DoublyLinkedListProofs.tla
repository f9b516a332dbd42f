----------------------- MODULE DoublyLinkedListProofs -----------------------
(***************************************************************************)
(* Theorems about DoublyLinkedList as MCContainers instantiates it,         *)
(* for any heap, values and calls.                                          *)
(***************************************************************************)
EXTENDS MCContainers, FiniteSetTheorems, SequenceTheorems, TLAPS

-----------------------------------------------------------------------------
(* Walks are what their definitions say. *)

LEMMA LeastIndex ==
    ASSUME NEW T \in SUBSET Nat, T # {}
    PROVE  \E n \in T : \A k \in T : n <= k
<1> DEFINE R == {p \in Nat \X Nat : p[1] < p[2]}
<1>1. IsWellFoundedOn(R, Nat)
  BY NatLessThanWellFounded DEF OpToRel
<1> HIDE DEF R
<1>2. PICK n \in T : \A k \in T : <<k, n>> \notin R
  BY <1>1, WFMin
<1>3. \A k \in T : ~(k < n)
  BY <1>2 DEF R
<1> QED BY <1>3

\* The first n steps of the walk from a along next in heap h, and along prev.
Nexts(h, a, n, g) == g = [i \in 0 .. n |-> IF i = 0 THEN a ELSE h[g[i - 1]].next]
NextWalk(h, a, f) == f = [i \in Nat |-> IF i = 0 THEN a ELSE h[f[i - 1]].next]
Prevs(h, a, n, g) == g = [i \in 0 .. n |-> IF i = 0 THEN a ELSE h[g[i - 1]].prev]
PrevWalk(h, a, f) == f = [i \in Nat |-> IF i = 0 THEN a ELSE h[f[i - 1]].prev]

LEMMA NextsAt ==
    ASSUME NEW h, NEW a, NEW n, NEW g, n \in Nat, Nexts(h, a, n, g)
    PROVE  g[0] = a /\ \A i \in 1 .. n : g[i] = h[g[i - 1]].next
  BY DEF Nexts

LEMMA NextsExist ==
    ASSUME NEW h, NEW a, NEW n \in Nat
    PROVE  \E g : Nexts(h, a, n, g)
<1> DEFINE T == {i \in Nat : ~\E g : Nexts(h, a, i, g)}
<1> SUFFICES ASSUME T # {} PROVE FALSE
  OBVIOUS
<1>1. PICK m \in T : \A k \in T : m <= k
  <2> HIDE DEF T
  <2> QED BY LeastIndex DEF T
<1>2. CASE m = 0
  <2>1. Nexts(h, a, 0, [i \in 0 .. 0 |-> a])
    BY DEF Nexts
  <2> QED BY <1>1, <1>2, <2>1
<1>3. CASE m # 0
  <2>1. m \in Nat /\ m - 1 \in Nat /\ m - 1 \notin T
    BY <1>1, <1>3
  <2>2. PICK g : Nexts(h, a, m - 1, g)
    BY <2>1
  <2> DEFINE k == [i \in 0 .. m |-> IF i = m THEN h[g[m - 1]].next ELSE g[i]]
  <2>3. ASSUME NEW i \in 0 .. m
        PROVE  k[i] = IF i = 0 THEN a ELSE h[k[i - 1]].next
    <3>1. g[0] = a /\ \A j \in 1 .. m - 1 : g[j] = h[g[j - 1]].next
      BY <2>1, <2>2, NextsAt
    <3>2. CASE i = 0
      BY <1>3, <3>1, <3>2
    <3>3. CASE i = m
      BY <1>3, <2>1, <3>3
    <3>4. CASE i \in 1 .. m - 1
      <4>1. i - 1 \in 0 .. m /\ i - 1 # m /\ i # m /\ i # 0
        BY <2>1, <3>4
      <4>2. k[i] = g[i] /\ k[i - 1] = g[i - 1]
        BY <4>1
      <4> HIDE DEF k
      <4> QED BY <3>1, <3>4, <4>1, <4>2
    <3> QED BY <2>1, <3>2, <3>3, <3>4
  <2>4. k = [i \in 0 .. m |-> k[i]]
    OBVIOUS
  <2> HIDE DEF k
  <2>5. Nexts(h, a, m, k)
    BY <2>3, <2>4 DEF Nexts
  <2> QED BY <1>1, <2>5
<1> QED BY <1>2, <1>3

LEMMA NextsAgree ==
    ASSUME NEW h, NEW a, NEW m, NEW n, NEW g, NEW k, m \in Nat, n \in Nat, m <= n,
           Nexts(h, a, m, g), Nexts(h, a, n, k)
    PROVE  g[m] = k[m]
<1>0. g[0] = a /\ k[0] = a
  BY DEF Nexts
<1> DEFINE T == {i \in Nat : i <= m /\ g[i] # k[i]}
<1> SUFFICES ASSUME T # {} PROVE FALSE
  OBVIOUS
<1>1. PICK i \in T : \A j \in T : i <= j
  <2> HIDE DEF T
  <2> QED BY LeastIndex DEF T
<1>2. CASE i = 0
  BY <1>0, <1>1, <1>2
<1>3. CASE i # 0
  <2>1. i \in 1 .. m /\ i \in 1 .. n /\ i - 1 \in Nat /\ i - 1 \notin T
    BY <1>1, <1>3
  <2>2. g[i - 1] = k[i - 1]
    BY <2>1
  <2>3. g[i] = h[g[i - 1]].next /\ k[i] = h[k[i - 1]].next
    BY <2>1, NextsAt
  <2> QED BY <1>1, <2>2, <2>3
<1> QED BY <1>2, <1>3

LEMMA NextWalkExists ==
    ASSUME NEW h, NEW a
    PROVE  \E f : NextWalk(h, a, f)
<1> DEFINE G(n) == CHOOSE g : Nexts(h, a, n, g)
           f == [n \in Nat |-> G(n)[n]]
<1>1. \A n \in Nat : Nexts(h, a, n, G(n))
  BY NextsExist
<1> HIDE DEF G
<1>2. f[0] = a
  BY <1>1, NextsAt
<1>3. ASSUME NEW i \in Nat, i # 0 PROVE f[i] = h[f[i - 1]].next
  <2>1. i - 1 \in Nat /\ i - 1 <= i /\ i \in 1 .. i
    BY <1>3
  <2>2. G(i)[i] = h[G(i)[i - 1]].next
    BY <1>1, <2>1, NextsAt
  <2>3. G(i - 1)[i - 1] = G(i)[i - 1]
    BY <1>1, <2>1, NextsAgree
  <2> QED BY <2>1, <2>2, <2>3
<1>4. f = [i \in Nat |-> f[i]]
  OBVIOUS
<1> HIDE DEF f
<1>5. NextWalk(h, a, f)
  BY <1>2, <1>3, <1>4 DEF NextWalk
<1> QED BY <1>5

LEMMA PrevsAt ==
    ASSUME NEW h, NEW a, NEW n, NEW g, n \in Nat, Prevs(h, a, n, g)
    PROVE  g[0] = a /\ \A i \in 1 .. n : g[i] = h[g[i - 1]].prev
  BY DEF Prevs

LEMMA PrevsExist ==
    ASSUME NEW h, NEW a, NEW n \in Nat
    PROVE  \E g : Prevs(h, a, n, g)
<1> DEFINE T == {i \in Nat : ~\E g : Prevs(h, a, i, g)}
<1> SUFFICES ASSUME T # {} PROVE FALSE
  OBVIOUS
<1>1. PICK m \in T : \A k \in T : m <= k
  <2> HIDE DEF T
  <2> QED BY LeastIndex DEF T
<1>2. CASE m = 0
  <2>1. Prevs(h, a, 0, [i \in 0 .. 0 |-> a])
    BY DEF Prevs
  <2> QED BY <1>1, <1>2, <2>1
<1>3. CASE m # 0
  <2>1. m \in Nat /\ m - 1 \in Nat /\ m - 1 \notin T
    BY <1>1, <1>3
  <2>2. PICK g : Prevs(h, a, m - 1, g)
    BY <2>1
  <2> DEFINE k == [i \in 0 .. m |-> IF i = m THEN h[g[m - 1]].prev ELSE g[i]]
  <2>3. ASSUME NEW i \in 0 .. m
        PROVE  k[i] = IF i = 0 THEN a ELSE h[k[i - 1]].prev
    <3>1. g[0] = a /\ \A j \in 1 .. m - 1 : g[j] = h[g[j - 1]].prev
      BY <2>1, <2>2, PrevsAt
    <3>2. CASE i = 0
      BY <1>3, <3>1, <3>2
    <3>3. CASE i = m
      BY <1>3, <2>1, <3>3
    <3>4. CASE i \in 1 .. m - 1
      <4>1. i - 1 \in 0 .. m /\ i - 1 # m /\ i # m /\ i # 0
        BY <2>1, <3>4
      <4>2. k[i] = g[i] /\ k[i - 1] = g[i - 1]
        BY <4>1
      <4> HIDE DEF k
      <4> QED BY <3>1, <3>4, <4>1, <4>2
    <3> QED BY <2>1, <3>2, <3>3, <3>4
  <2>4. k = [i \in 0 .. m |-> k[i]]
    OBVIOUS
  <2> HIDE DEF k
  <2>5. Prevs(h, a, m, k)
    BY <2>3, <2>4 DEF Prevs
  <2> QED BY <1>1, <2>5
<1> QED BY <1>2, <1>3

LEMMA PrevsAgree ==
    ASSUME NEW h, NEW a, NEW m, NEW n, NEW g, NEW k, m \in Nat, n \in Nat, m <= n,
           Prevs(h, a, m, g), Prevs(h, a, n, k)
    PROVE  g[m] = k[m]
<1>0. g[0] = a /\ k[0] = a
  BY DEF Prevs
<1> DEFINE T == {i \in Nat : i <= m /\ g[i] # k[i]}
<1> SUFFICES ASSUME T # {} PROVE FALSE
  OBVIOUS
<1>1. PICK i \in T : \A j \in T : i <= j
  <2> HIDE DEF T
  <2> QED BY LeastIndex DEF T
<1>2. CASE i = 0
  BY <1>0, <1>1, <1>2
<1>3. CASE i # 0
  <2>1. i \in 1 .. m /\ i \in 1 .. n /\ i - 1 \in Nat /\ i - 1 \notin T
    BY <1>1, <1>3
  <2>2. g[i - 1] = k[i - 1]
    BY <2>1
  <2>3. g[i] = h[g[i - 1]].prev /\ k[i] = h[k[i - 1]].prev
    BY <2>1, PrevsAt
  <2> QED BY <1>1, <2>2, <2>3
<1> QED BY <1>2, <1>3

LEMMA PrevWalkExists ==
    ASSUME NEW h, NEW a
    PROVE  \E f : PrevWalk(h, a, f)
<1> DEFINE G(n) == CHOOSE g : Prevs(h, a, n, g)
           f == [n \in Nat |-> G(n)[n]]
<1>1. \A n \in Nat : Prevs(h, a, n, G(n))
  BY PrevsExist
<1> HIDE DEF G
<1>2. f[0] = a
  BY <1>1, PrevsAt
<1>3. ASSUME NEW i \in Nat, i # 0 PROVE f[i] = h[f[i - 1]].prev
  <2>1. i - 1 \in Nat /\ i - 1 <= i /\ i \in 1 .. i
    BY <1>3
  <2>2. G(i)[i] = h[G(i)[i - 1]].prev
    BY <1>1, <2>1, PrevsAt
  <2>3. G(i - 1)[i - 1] = G(i)[i - 1]
    BY <1>1, <2>1, PrevsAgree
  <2> QED BY <2>1, <2>2, <2>3
<1>4. f = [i \in Nat |-> f[i]]
  OBVIOUS
<1> HIDE DEF f
<1>5. PrevWalk(h, a, f)
  BY <1>2, <1>3, <1>4 DEF PrevWalk
<1> QED BY <1>5

LEMMA FromHeadAt ==
    DList!FromHead[0] = dHead /\ \A i \in Nat \ {0} : DList!FromHead[i] = dHeap[DList!FromHead[i - 1]].next
<1>1. DList!FromHead = CHOOSE f : NextWalk(dHeap, dHead, f)
  BY DEF DList!FromHead, NextWalk
<1>2. NextWalk(dHeap, dHead, DList!FromHead)
  BY <1>1, NextWalkExists, Zenon
<1> QED BY <1>2 DEF NextWalk

LEMMA FromTailAt ==
    DList!FromTail[0] = dTail /\ \A i \in Nat \ {0} : DList!FromTail[i] = dHeap[DList!FromTail[i - 1]].prev
<1>1. DList!FromTail = CHOOSE f : PrevWalk(dHeap, dTail, f)
  BY DEF DList!FromTail, PrevWalk
<1>2. PrevWalk(dHeap, dTail, DList!FromTail)
  BY <1>1, PrevWalkExists, Zenon
<1> QED BY <1>2 DEF PrevWalk

-----------------------------------------------------------------------------
(* The shape of a list. *)

\* The constants are what they stand for: a heap has finitely many addresses, the null
\* pointer is none of them, and a free cell is no node.
HeapOK == IsFiniteSet(Node) /\ NULL \notin Node /\ Freed \notin DList!Cell

\* Before the first node, and behind the last.
Before(w, i) == IF i = 0 THEN NULL ELSE w[i - 1]

\* w[0] .. w[length - 1] are the nodes of the list in their order, and there are no other
\* nodes.
Shape(w) ==
    /\ \A i \in 0 .. dLength - 1 : w[i] \in Node
    /\ w[dLength] = NULL
    /\ \A i, j \in 0 .. dLength - 1 : w[i] = w[j] => i = j
    /\ dHead = w[0] /\ dTail = Before(w, dLength)
    /\ \A i \in 0 .. dLength - 1 : dHeap[w[i]].next = w[i + 1] /\ dHeap[w[i]].prev = Before(w, i)
    /\ \A n \in Node : dHeap[n] # Freed <=> \E i \in 0 .. dLength - 1 : w[i] = n

Cells == dHeap \in [Node -> DList!Cell \cup {Freed}] /\ dLength \in Nat

Listed == Cells /\ \E w : Shape(w)

LEMMA SameCount == \A T : DList!Cardinality(T) = Cardinality(T)
  BY DEF Cardinality, DList!Cardinality

LEMMA CellsOf ==
    ASSUME Cells, NEW n \in Node, dHeap[n] # Freed
    PROVE  /\ dHeap[n] \in DList!Cell /\ dHeap[n].data \in Values
           /\ dHeap[n].next \in Node \cup {NULL} /\ dHeap[n].prev \in Node \cup {NULL}
  BY DEF Cells, DList!Cell

\* The walks of the code meet the nodes in that order.
LEMMA WalkFromHead ==
    ASSUME Listed, NEW w, Shape(w)
    PROVE  \A i \in 0 .. dLength : DList!FromHead[i] = w[i]
<1> DEFINE T == {i \in Nat : i <= dLength /\ DList!FromHead[i] # w[i]}
<1> SUFFICES ASSUME T # {} PROVE FALSE
  BY DEF Listed, Cells
<1>1. PICK i \in T : \A j \in T : i <= j
  <2> HIDE DEF T
  <2> QED BY LeastIndex DEF T
<1>2. CASE i = 0
  BY <1>1, <1>2, FromHeadAt DEF Shape
<1>3. CASE i # 0
  <2>1. i \in Nat \ {0} /\ i - 1 \in 0 .. dLength - 1 /\ i - 1 \notin T /\ i - 1 <= dLength
    BY <1>1, <1>3 DEF Listed, Cells
  <2>2. DList!FromHead[i - 1] = w[i - 1]
    BY <2>1
  <2>3. DList!FromHead[i] = dHeap[w[i - 1]].next
    BY <2>1, <2>2, FromHeadAt
  <2>4. dHeap[w[i - 1]].next = w[i - 1 + 1]
    BY <2>1 DEF Shape
  <2> QED BY <1>1, <2>1, <2>3, <2>4
<1> QED BY <1>2, <1>3

LEMMA WalkFromTail ==
    ASSUME Listed, NEW w, Shape(w)
    PROVE  \A i \in 0 .. dLength : DList!FromTail[i] = Before(w, dLength - i)
<1> DEFINE T == {i \in Nat : i <= dLength /\ DList!FromTail[i] # Before(w, dLength - i)}
<1> SUFFICES ASSUME T # {} PROVE FALSE
  BY DEF Listed, Cells
<1>1. PICK i \in T : \A j \in T : i <= j
  <2> HIDE DEF T
  <2> QED BY LeastIndex DEF T
<1>2. CASE i = 0
  <2>1. dLength - 0 = dLength
    BY DEF Listed, Cells
  <2> QED BY <1>1, <1>2, <2>1, FromTailAt DEF Shape
<1>3. CASE i # 0
  <2>1. /\ i \in Nat \ {0} /\ i - 1 \in 0 .. dLength - 1 /\ i - 1 \notin T
        /\ i - 1 <= dLength /\ dLength - i \in 0 .. dLength - 1
    BY <1>1, <1>3 DEF Listed, Cells
  <2>2. DList!FromTail[i - 1] = Before(w, dLength - (i - 1))
    BY <2>1
  <2>3. Before(w, dLength - (i - 1)) = w[dLength - i]
    BY <2>1 DEF Before, Listed, Cells
  <2>4. DList!FromTail[i] = dHeap[w[dLength - i]].prev
    BY <2>1, <2>2, <2>3, FromTailAt
  <2>5. dHeap[w[dLength - i]].prev = Before(w, dLength - i)
    BY <2>1 DEF Shape
  <2> QED BY <1>1, <2>4, <2>5
<1> QED BY <1>2, <1>3

-----------------------------------------------------------------------------
(* What the shape means for the properties. *)

LEMMA Counted ==
    ASSUME HeapOK, Listed, NEW w, Shape(w)
    PROVE  /\ {w[i] : i \in 0 .. dLength - 1} = Node \ DList!FreeNodes
           /\ Cardinality(Node \ DList!FreeNodes) = dLength /\ dLength <= Cardinality(Node)
<1> DEFINE S == 0 .. dLength - 1
           T == Node \ DList!FreeNodes
           f == [i \in S |-> w[i]]
<1>1. {w[i] : i \in 0 .. dLength - 1} = T
  BY DEF Shape, DList!FreeNodes
<1>2. f \in Surjection(S, T) /\ f \in Injection(S, T)
  <2>1. f \in [S -> T] /\ \A n \in T : \E i \in S : f[i] = n
    BY <1>1
  <2>2. \A i, j \in S : f[i] = f[j] => i = j
    BY DEF Shape
  <2> QED BY <2>1, <2>2 DEF Surjection, Injection, IsInjective
<1>3. IsFiniteSet(S) /\ Cardinality(S) = dLength
  <2>1. dLength \in Nat /\ 0 \in Int /\ dLength - 1 \in Int
    BY DEF Listed, Cells
  <2>2. IsFiniteSet(S) /\ Cardinality(S) = IF 0 > dLength - 1 THEN 0 ELSE dLength - 1 - 0 + 1
    BY <2>1, FS_Interval
  <2> QED BY <2>1, <2>2
<1> HIDE DEF f, S
<1>4. Cardinality(T) = dLength
  BY <1>2, <1>3, FS_Surjection
<1>5. Cardinality(T) <= Cardinality(Node)
  BY FS_Subset DEF HeapOK
<1> QED BY <1>1, <1>4, <1>5

LEMMA ListedPointers == HeapOK /\ Listed => DList!PointersOK
<1> SUFFICES ASSUME HeapOK, Listed PROVE DList!PointersOK
  OBVIOUS
<1>1. PICK w : Shape(w)
  BY DEF Listed
<1>2. dLength \in Nat /\ dHeap \in [Node -> DList!Cell \cup {Freed}] /\ dLength <= Cardinality(Node)
  BY <1>1, Counted DEF Listed, Cells
<1>3. dHead \in Node \cup {NULL} /\ dTail \in Node \cup {NULL}
  BY <1>1, <1>2 DEF Shape, Before
<1>4. Cardinality(Node) \in Nat
  BY FS_CardinalityType DEF HeapOK
<1> QED BY <1>2, <1>3, <1>4, SameCount DEF DList!PointersOK

LEMMA ListedWalks == Listed => DList!WalksAgree
<1> SUFFICES ASSUME Listed, NEW w, Shape(w) PROVE DList!WalksAgree
  BY DEF Listed
<1>1. dLength \in Nat
  BY DEF Listed, Cells
<1>2. DList!FromHead[dLength] = NULL
  BY <1>1, WalkFromHead DEF Shape
<1>3. DList!FromTail[dLength] = NULL
  <2>1. dLength \in 0 .. dLength /\ dLength - dLength = 0
    BY <1>1
  <2> QED BY <2>1, WalkFromTail DEF Before
<1>4. ASSUME NEW i \in 0 .. dLength - 1
      PROVE  DList!FromTail[i] = DList!FromHead[dLength - 1 - i]
  <2>1. i \in 0 .. dLength /\ dLength - 1 - i \in 0 .. dLength /\ dLength - i # 0
        /\ dLength - i - 1 = dLength - 1 - i
    BY <1>1
  <2>2. DList!FromTail[i] = Before(w, dLength - i)
    BY <2>1, WalkFromTail
  <2>3. Before(w, dLength - i) = w[dLength - 1 - i]
    BY <2>1 DEF Before
  <2>4. DList!FromHead[dLength - 1 - i] = w[dLength - 1 - i]
    BY <2>1, WalkFromHead
  <2> QED BY <2>2, <2>3, <2>4
<1> QED BY <1>2, <1>3, <1>4 DEF DList!WalksAgree

LEMMA ListedLeaks == HeapOK /\ Listed => DList!NothingLeaks
<1> SUFFICES ASSUME HeapOK, Listed, NEW w, Shape(w) PROVE DList!NothingLeaks
  BY DEF Listed
<1>1. \A i \in 0 .. dLength - 1 : DList!FromHead[i] = w[i]
  <2>1. \A i \in 0 .. dLength - 1 : i \in 0 .. dLength
    BY DEF Listed, Cells
  <2> QED BY <2>1, WalkFromHead
<1>2. DList!Forward = {w[i] : i \in 0 .. dLength - 1}
  BY <1>1 DEF DList!Forward
<1> QED BY <1>2, Counted, SameCount DEF DList!NothingLeaks

-----------------------------------------------------------------------------
(* An insertion, whichever branch it takes, threads the new node in. *)

Spliced(w, i, n, u) ==
    u = [j \in 0 .. dLength + 1 |-> IF j < i THEN w[j] ELSE IF j = i THEN n ELSE w[j - 1]]

Threaded(w, i, n, v) ==
    /\ dHeap' \in [Node -> DList!Cell \cup {Freed}]
    /\ dHeap'[n] = [data |-> v, next |-> w[i], prev |-> Before(w, i)]
    /\ \A m \in Node \ {n} : dHeap[m] = Freed => dHeap'[m] = Freed
    /\ \A j \in 0 .. dLength - 1 :
         dHeap'[w[j]] = [data |-> dHeap[w[j]].data,
                        next |-> IF j + 1 = i THEN n ELSE w[j + 1],
                        prev |-> IF j = i THEN n ELSE Before(w, j)]
    /\ dHead' = IF i = 0 THEN n ELSE dHead
    /\ dTail' = IF i = dLength THEN n ELSE dTail
    /\ dLength' = dLength + 1

\* The cells of the list's nodes are records of three fields.
LEMMA ListCells ==
    ASSUME Cells, NEW w, Shape(w), NEW j \in 0 .. dLength - 1
    PROVE  /\ w[j] \in Node /\ dHeap[w[j]] # Freed /\ dHeap[w[j]].data \in Values
           /\ dHeap[w[j]] = [data |-> dHeap[w[j]].data, next |-> w[j + 1], prev |-> Before(w, j)]
           /\ w[j + 1] \in Node \cup {NULL} /\ Before(w, j) \in Node \cup {NULL}
<1>1. w[j] \in Node /\ dHeap[w[j]] # Freed
  BY DEF Shape
<1>2. dHeap[w[j]] \in DList!Cell
  BY <1>1, CellsOf
<1>3. dHeap[w[j]].next = w[j + 1] /\ dHeap[w[j]].prev = Before(w, j)
  BY DEF Shape
<1> QED BY <1>1, <1>2, <1>3 DEF DList!Cell

LEMMA ThreadsEmpty ==
    ASSUME Listed, NEW w, Shape(w), NEW n \in Node, NEW i \in 0 .. dLength, NEW v \in Values,
           dHeap[n] = Freed, DList!InsertEmpty(n, v), dLength' = dLength + 1
    PROVE  Threaded(w, i, n, v)
<1>1. dLength = 0 /\ i = 0 /\ Cells
  BY DEF DList!InsertEmpty, Listed
<1>2. w[i] = NULL /\ Before(w, i) = NULL
  BY <1>1 DEF Shape, Before
<1>3. /\ dHeap' = [dHeap EXCEPT ![n] = [data |-> v, next |-> NULL, prev |-> NULL]]
      /\ dHead' = n /\ dTail' = n
  BY DEF DList!InsertEmpty
<1>4. dHeap' \in [Node -> DList!Cell \cup {Freed}]
  BY <1>1, <1>3 DEF Cells, DList!Cell
<1>5. dHeap'[n] = [data |-> v, next |-> NULL, prev |-> NULL] /\ \A m \in Node \ {n} : dHeap'[m] = dHeap[m]
  BY <1>1, <1>3 DEF Cells
<1> QED BY <1>1, <1>2, <1>3, <1>4, <1>5 DEF Threaded

LEMMA ThreadsFront ==
    ASSUME Listed, NEW w, Shape(w), NEW n \in Node, NEW v \in Values,
           dHeap[n] = Freed, DList!InsertFront(n, v), dLength' = dLength + 1
    PROVE  Threaded(w, 0, n, v)
<1>1. dLength \in Nat /\ dLength > 0 /\ Cells
  BY DEF DList!InsertFront, Listed, Cells
<1>2. /\ dHead = w[0] /\ Before(w, 0) = NULL /\ w[0] \in Node /\ w[0] # n
      /\ dHeap[w[0]].data \in Values
      /\ dHeap[w[0]] = [data |-> dHeap[w[0]].data, next |-> w[1], prev |-> Before(w, 0)]
      /\ w[1] \in Node \cup {NULL}
  <2>1. 0 \in 0 .. dLength - 1 /\ 0 + 1 = 1
    BY <1>1
  <2> QED BY <1>1, <2>1, ListCells DEF Shape, Before
<1>3. /\ dHeap' = [dHeap EXCEPT ![n] = [data |-> v, next |-> w[0], prev |-> NULL], ![w[0]].prev = n]
      /\ dHead' = n /\ dTail' = dTail
  BY <1>2 DEF DList!InsertFront
<1>4. /\ dHeap'[n] = [data |-> v, next |-> w[0], prev |-> NULL]
      /\ dHeap'[w[0]] = [data |-> dHeap[w[0]].data, next |-> w[1], prev |-> n]
      /\ \A m \in Node \ {n, w[0]} : dHeap'[m] = dHeap[m]
      /\ dHeap' = [m \in Node |-> dHeap'[m]]
  <2>1. dHeap = [m \in Node |-> dHeap[m]]
    BY <1>1 DEF Cells
  <2>2. dHeap' = [m \in Node |-> dHeap'[m]]
    BY <1>3, <2>1
  <2>3. dHeap'[n] = [data |-> v, next |-> w[0], prev |-> NULL] /\ \A m \in Node \ {n, w[0]} : dHeap'[m] = dHeap[m]
    BY <1>2, <1>3, <2>1
  <2>4. dHeap'[w[0]] = [dHeap[w[0]] EXCEPT !.prev = n]
    BY <1>2, <1>3, <2>1
  <2>5. dHeap'[w[0]] = [data |-> dHeap[w[0]].data, next |-> w[1], prev |-> n]
    BY <1>2, <2>4
  <2> QED BY <2>2, <2>3, <2>5
<1>5. dHeap' \in [Node -> DList!Cell \cup {Freed}]
  <2>1. ASSUME NEW m \in Node PROVE dHeap'[m] \in DList!Cell \cup {Freed}
    <3>1. dHeap[m] \in DList!Cell \cup {Freed}
      BY <1>1 DEF Cells
    <3> QED BY <1>2, <1>4, <3>1 DEF DList!Cell
  <2> QED BY <1>4, <2>1
<1>6. \A m \in Node \ {n} : dHeap[m] = Freed => dHeap'[m] = Freed
  <2>1. dHeap[w[0]] # Freed
    <3>1. 0 \in 0 .. dLength - 1
      BY <1>1
    <3> QED BY <1>1, <3>1, ListCells
  <2> QED BY <1>4, <2>1
<1>7. ASSUME NEW j \in 0 .. dLength - 1
      PROVE  dHeap'[w[j]] = [data |-> dHeap[w[j]].data,
                            next |-> IF j + 1 = 0 THEN n ELSE w[j + 1],
                            prev |-> IF j = 0 THEN n ELSE Before(w, j)]
  <2>1. w[j] \in Node /\ w[j] # n
    BY <1>1, ListCells
  <2>2. CASE j = 0
    BY <1>1, <1>4, <2>2
  <2>3. CASE j # 0
    <3>1. w[j] # w[0]
      BY <1>1, <2>3 DEF Shape
    <3>2. dHeap'[w[j]] = dHeap[w[j]]
      BY <1>4, <2>1, <3>1
    <3> QED BY <1>1, <2>3, <3>2, ListCells
  <2> QED BY <2>2, <2>3
<1>20. dHead' = (IF 0 = 0 THEN n ELSE dHead) /\ dTail' = (IF 0 = dLength THEN n ELSE dTail)
  BY <1>1, <1>2, <1>3
<1>21. dHeap'[n] = [data |-> v, next |-> w[0], prev |-> Before(w, 0)]
  BY <1>2, <1>4
<1> QED BY <1>20, <1>21, <1>4, <1>5, <1>6, <1>7 DEF Threaded

LEMMA ThreadsBack ==
    ASSUME Listed, NEW w, Shape(w), NEW n \in Node, NEW v \in Values,
           dHeap[n] = Freed, DList!InsertBack(n, v), dLength' = dLength + 1
    PROVE  Threaded(w, dLength, n, v)
<1> DEFINE l == dLength - 1
<1>1. dLength \in Nat /\ dLength > 0 /\ Cells /\ l \in 0 .. dLength - 1 /\ l + 1 = dLength
  BY DEF DList!InsertBack, Listed, Cells
<1>2. Before(w, dLength) = w[l]
  BY <1>1 DEF Before
<1> HIDE DEF l
<1>3. /\ dTail = w[l] /\ w[dLength] = NULL /\ w[l] \in Node /\ w[l] # n
      /\ dHeap[w[l]].data \in Values
      /\ dHeap[w[l]] = [data |-> dHeap[w[l]].data, next |-> NULL, prev |-> Before(w, l)]
      /\ Before(w, l) \in Node \cup {NULL}
  <2>1. w[dLength] = NULL /\ dTail = w[l]
    BY <1>2 DEF Shape
  <2> QED BY <1>1, <2>1, ListCells
<1>4. /\ dHeap' = [dHeap EXCEPT ![n] = [data |-> v, next |-> NULL, prev |-> w[l]], ![w[l]].next = n]
      /\ dHead' = dHead /\ dTail' = n
  BY <1>3 DEF DList!InsertBack
<1>5. /\ dHeap'[n] = [data |-> v, next |-> NULL, prev |-> w[l]]
      /\ dHeap'[w[l]] = [data |-> dHeap[w[l]].data, next |-> n, prev |-> Before(w, l)]
      /\ \A m \in Node \ {n, w[l]} : dHeap'[m] = dHeap[m]
      /\ dHeap' = [m \in Node |-> dHeap'[m]]
  <2>1. dHeap = [m \in Node |-> dHeap[m]]
    BY <1>1 DEF Cells
  <2>2. dHeap' = [m \in Node |-> dHeap'[m]]
    BY <1>4, <2>1
  <2>3. dHeap'[n] = [data |-> v, next |-> NULL, prev |-> w[l]] /\ \A m \in Node \ {n, w[l]} : dHeap'[m] = dHeap[m]
    BY <1>3, <1>4, <2>1
  <2>4. dHeap'[w[l]] = [dHeap[w[l]] EXCEPT !.next = n]
    BY <1>3, <1>4, <2>1
  <2>5. dHeap'[w[l]] = [data |-> dHeap[w[l]].data, next |-> n, prev |-> Before(w, l)]
    BY <1>3, <2>4
  <2> QED BY <2>2, <2>3, <2>5
<1>6. dHeap' \in [Node -> DList!Cell \cup {Freed}]
  <2>1. ASSUME NEW m \in Node PROVE dHeap'[m] \in DList!Cell \cup {Freed}
    <3>1. dHeap[m] \in DList!Cell \cup {Freed}
      BY <1>1 DEF Cells
    <3> QED BY <1>3, <1>5, <3>1 DEF DList!Cell
  <2> QED BY <1>5, <2>1
<1>7. \A m \in Node \ {n} : dHeap[m] = Freed => dHeap'[m] = Freed
  <2>1. dHeap[w[l]] # Freed
    BY <1>1, ListCells
  <2> QED BY <1>5, <2>1
<1>8. ASSUME NEW j \in 0 .. dLength - 1
      PROVE  dHeap'[w[j]] = [data |-> dHeap[w[j]].data,
                            next |-> IF j + 1 = dLength THEN n ELSE w[j + 1],
                            prev |-> IF j = dLength THEN n ELSE Before(w, j)]
  <2>1. w[j] \in Node /\ w[j] # n
    BY <1>1, ListCells
  <2>2. CASE j = l
    BY <1>1, <1>5, <2>2
  <2>3. CASE j # l
    <3>1. w[j] # w[l] /\ j + 1 # dLength
      BY <1>1, <2>3 DEF Shape
    <3>2. dHeap'[w[j]] = dHeap[w[j]]
      BY <1>5, <2>1, <3>1
    <3> QED BY <1>1, <2>3, <3>1, <3>2, ListCells
  <2> QED BY <2>2, <2>3
<1>20. dHead' = (IF dLength = 0 THEN n ELSE dHead) /\ dTail' = (IF dLength = dLength THEN n ELSE dTail)
  BY <1>1, <1>2, <1>3, <1>4
<1>21. dHeap'[n] = [data |-> v, next |-> w[dLength], prev |-> Before(w, dLength)]
  BY <1>2, <1>3, <1>5
<1> QED BY <1>20, <1>21, <1>5, <1>6, <1>7, <1>8 DEF Threaded

LEMMA ThreadsMiddle ==
    ASSUME Listed, NEW w, Shape(w), NEW n \in Node, NEW i \in 0 .. dLength, NEW v \in Values,
           dHeap[n] = Freed, DList!InsertMiddle(n, i, v), dLength' = dLength + 1
    PROVE  Threaded(w, i, n, v)
<1> DEFINE l == i - 1
<1>1. /\ dLength \in Nat /\ i \in 0 .. dLength - 1 /\ i # 0 /\ Cells
      /\ l \in 0 .. dLength - 1 /\ l + 1 = i /\ l # i
  BY DEF DList!InsertMiddle, Listed, Cells
<1>2. Before(w, i) = w[l]
  BY <1>1 DEF Before
<1> HIDE DEF l
<1>3. DList!FromHead[i] = w[i]
  BY <1>1, WalkFromHead
<1>4. /\ w[i] \in Node /\ w[i] # n /\ dHeap[w[i]].data \in Values
      /\ dHeap[w[i]] = [data |-> dHeap[w[i]].data, next |-> w[i + 1], prev |-> w[l]]
      /\ w[i + 1] \in Node \cup {NULL}
  BY <1>1, <1>2, ListCells
<1>5. /\ w[l] \in Node /\ w[l] # n /\ dHeap[w[l]].data \in Values
      /\ dHeap[w[l]] = [data |-> dHeap[w[l]].data, next |-> w[i], prev |-> Before(w, l)]
      /\ Before(w, l) \in Node \cup {NULL}
  BY <1>1, ListCells
<1>6. w[l] # w[i]
  BY <1>1 DEF Shape
<1>7. /\ dHeap' = [dHeap EXCEPT ![n] = [data |-> v, next |-> w[i], prev |-> w[l]],
                              ![w[l]].next = n, ![w[i]].prev = n]
      /\ dHead' = dHead /\ dTail' = dTail
  <2>1. dHeap[w[i]].prev = w[l]
    BY <1>4
  <2> QED BY <1>3, <2>1 DEF DList!InsertMiddle
<1>8. /\ dHeap'[n] = [data |-> v, next |-> w[i], prev |-> w[l]]
      /\ dHeap'[w[l]] = [data |-> dHeap[w[l]].data, next |-> n, prev |-> Before(w, l)]
      /\ dHeap'[w[i]] = [data |-> dHeap[w[i]].data, next |-> w[i + 1], prev |-> n]
      /\ \A m \in Node \ {n, w[l], w[i]} : dHeap'[m] = dHeap[m]
      /\ dHeap' = [m \in Node |-> dHeap'[m]]
  <2>1. dHeap = [m \in Node |-> dHeap[m]]
    BY <1>1 DEF Cells
  <2>2. dHeap' = [m \in Node |-> dHeap'[m]]
    BY <1>7, <2>1
  <2>3. /\ dHeap'[n] = [data |-> v, next |-> w[i], prev |-> w[l]]
        /\ \A m \in Node \ {n, w[l], w[i]} : dHeap'[m] = dHeap[m]
    BY <1>4, <1>5, <1>6, <1>7, <2>1
  <2>4. dHeap'[w[l]] = [dHeap[w[l]] EXCEPT !.next = n]
    BY <1>4, <1>5, <1>6, <1>7, <2>1
  <2>5. dHeap'[w[i]] = [dHeap[w[i]] EXCEPT !.prev = n]
    BY <1>4, <1>5, <1>6, <1>7, <2>1
  <2>6. dHeap'[w[l]] = [data |-> dHeap[w[l]].data, next |-> n, prev |-> Before(w, l)]
    BY <1>5, <2>4
  <2>7. dHeap'[w[i]] = [data |-> dHeap[w[i]].data, next |-> w[i + 1], prev |-> n]
    BY <1>4, <2>5
  <2> QED BY <2>2, <2>3, <2>6, <2>7
<1>9. dHeap' \in [Node -> DList!Cell \cup {Freed}]
  <2>1. ASSUME NEW m \in Node PROVE dHeap'[m] \in DList!Cell \cup {Freed}
    <3>1. dHeap[m] \in DList!Cell \cup {Freed}
      BY <1>1 DEF Cells
    <3> QED BY <1>4, <1>5, <1>8, <3>1 DEF DList!Cell
  <2> QED BY <1>8, <2>1
<1>10. \A m \in Node \ {n} : dHeap[m] = Freed => dHeap'[m] = Freed
  <2>1. dHeap[w[l]] # Freed /\ dHeap[w[i]] # Freed
    BY <1>1, ListCells
  <2> QED BY <1>8, <2>1
<1>11. ASSUME NEW j \in 0 .. dLength - 1
       PROVE  dHeap'[w[j]] = [data |-> dHeap[w[j]].data,
                             next |-> IF j + 1 = i THEN n ELSE w[j + 1],
                             prev |-> IF j = i THEN n ELSE Before(w, j)]
  <2>1. w[j] \in Node /\ w[j] # n
    BY <1>1, ListCells
  <2>2. CASE j = l
    BY <1>1, <1>8, <2>2
  <2>3. CASE j = i
    BY <1>1, <1>8, <2>3
  <2>4. CASE j # l /\ j # i
    <3>1. w[j] # w[l] /\ w[j] # w[i] /\ j + 1 # i
      BY <1>1, <2>4 DEF Shape
    <3>2. dHeap'[w[j]] = dHeap[w[j]]
      BY <1>8, <2>1, <3>1
    <3> QED BY <1>1, <2>4, <3>1, <3>2, ListCells
  <2> QED BY <2>2, <2>3, <2>4
<1>20. dHead' = (IF i = 0 THEN n ELSE dHead) /\ dTail' = (IF i = dLength THEN n ELSE dTail)
  BY <1>1, <1>7
<1>21. dHeap'[n] = [data |-> v, next |-> w[i], prev |-> Before(w, i)]
  BY <1>2, <1>8
<1> QED BY <1>20, <1>21, <1>8, <1>9, <1>10, <1>11 DEF Threaded

LEMMA InsertThreads ==
    ASSUME Listed, NEW w, Shape(w), NEW n \in Node, NEW i \in 0 .. dLength, NEW v \in Values,
           DList!Insert(n, i, v)
    PROVE  dHeap[n] = Freed /\ Threaded(w, i, n, v)
<1>1. dHeap[n] = Freed /\ dLength' = dLength + 1
  BY DEF DList!Insert, DList!FreeNodes
<1>2. CASE DList!InsertEmpty(n, v)
  BY <1>1, <1>2, ThreadsEmpty
<1>3. CASE i = 0 /\ DList!InsertFront(n, v)
  BY <1>1, <1>3, ThreadsFront
<1>4. CASE i = dLength /\ DList!InsertBack(n, v)
  BY <1>1, <1>4, ThreadsBack
<1>5. CASE DList!InsertMiddle(n, i, v)
  BY <1>1, <1>5, ThreadsMiddle
<1> QED BY <1>1, <1>2, <1>3, <1>4, <1>5 DEF DList!Insert

LEMMA SplicedAt ==
    ASSUME NEW w, NEW i, NEW n, NEW u, dLength \in Nat, i \in 0 .. dLength, Spliced(w, i, n, u)
    PROVE  /\ \A j \in 0 .. dLength + 1 : /\ j < i => u[j] = w[j]
                                          /\ j = i => u[j] = n
                                          /\ j > i => u[j] = w[j - 1]
           /\ \A j \in 0 .. dLength + 1 : /\ j < i => Before(u, j) = Before(w, j)
                                          /\ j = i => Before(u, j) = Before(w, i)
                                          /\ j = i + 1 => Before(u, j) = n
                                          /\ j > i + 1 => Before(u, j) = Before(w, j - 1)
<1>1. \A j \in 0 .. dLength + 1 : u[j] = IF j < i THEN w[j] ELSE IF j = i THEN n ELSE w[j - 1]
  BY DEF Spliced
<1>2. ASSUME NEW j \in 0 .. dLength + 1
      PROVE  /\ j < i => u[j] = w[j]
             /\ j = i => u[j] = n
             /\ j > i => u[j] = w[j - 1]
  BY <1>1
<1>3. ASSUME NEW j \in 0 .. dLength + 1
      PROVE  /\ j < i => Before(u, j) = Before(w, j)
             /\ j = i => Before(u, j) = Before(w, i)
             /\ j = i + 1 => Before(u, j) = n
             /\ j > i + 1 => Before(u, j) = Before(w, j - 1)
  <2>1. CASE j = 0
    BY <2>1 DEF Before
  <2>2. CASE j # 0
    <3>1. j - 1 \in 0 .. dLength + 1
      BY <2>2
    <3>2. Before(u, j) = u[j - 1] /\ Before(w, j) = w[j - 1]
      BY <2>2 DEF Before
    <3>3. j > i + 1 => Before(w, j - 1) = w[j - 1 - 1]
      BY <2>2 DEF Before
    <3>4. /\ j - 1 < i => u[j - 1] = w[j - 1]
          /\ j - 1 = i => u[j - 1] = n
          /\ j - 1 > i => u[j - 1] = w[j - 1 - 1]
      BY <1>2, <3>1
    <3> QED BY <3>2, <3>3, <3>4
  <2> QED BY <2>1, <2>2
<1> QED BY <1>2, <1>3

LEMMA InsertShape ==
    ASSUME HeapOK, Listed, NEW w, Shape(w), NEW n \in Node, NEW i \in 0 .. dLength, NEW v \in Values,
           dHeap[n] = Freed, Threaded(w, i, n, v), NEW u, Spliced(w, i, n, u)
    PROVE  /\ Cells' /\ Shape(u)'
           /\ \A j \in 0 .. dLength :
                dHeap'[u[j]].data = IF j < i THEN dHeap[w[j]].data
                                   ELSE IF j = i THEN v ELSE dHeap[w[j - 1]].data
<1>1. /\ dLength \in Nat /\ Cells /\ dLength' = dLength + 1
      /\ dHeap' \in [Node -> DList!Cell \cup {Freed}]
  BY DEF Listed, Cells, Threaded
<1>2. Cells'
  BY <1>1 DEF Cells
<1>3. dLength' - 1 = dLength /\ dLength' \in Nat
  BY <1>1
<1>4. \A j \in 0 .. dLength - 1 : w[j] \in Node /\ w[j] # n
  BY <1>1, ListCells
<1>5. \A j \in 0 .. dLength : u[j] \in Node
  <2>1. ASSUME NEW j \in 0 .. dLength PROVE u[j] \in Node
    <3>1. CASE j < i
      BY <1>1, <1>4, <3>1, SplicedAt
    <3>2. CASE j = i
      BY <1>1, <3>2, SplicedAt
    <3>3. CASE j > i
      <4>1. j - 1 \in 0 .. dLength - 1
        BY <1>1, <3>3
      <4> QED BY <1>1, <1>4, <3>3, <4>1, SplicedAt
    <3> QED BY <3>1, <3>2, <3>3
  <2> QED BY <2>1
<1>6. u[dLength + 1] = NULL
  <2>1. u[dLength + 1] = w[dLength + 1 - 1] /\ dLength + 1 - 1 = dLength
    <3>1. dLength + 1 \in 0 .. dLength + 1 /\ dLength + 1 > i
      BY <1>1
    <3> QED BY <1>1, <3>1, SplicedAt
  <2> QED BY <2>1 DEF Shape
<1>7. ASSUME NEW j \in 0 .. dLength, NEW k \in 0 .. dLength, u[j] = u[k]
      PROVE  j = k
  <2>1. \A a, b \in 0 .. dLength - 1 : w[a] = w[b] => a = b
    BY DEF Shape
  <2>2. \A a \in 0 .. dLength : /\ a < i => u[a] = w[a] /\ a \in 0 .. dLength - 1
                                /\ a = i => u[a] = n
                                /\ a > i => u[a] = w[a - 1] /\ a - 1 \in 0 .. dLength - 1
    BY <1>1, SplicedAt
  <2>3. CASE j < i
    BY <1>1, <1>4, <1>7, <2>1, <2>2, <2>3
  <2>4. CASE j = i
    BY <1>1, <1>4, <1>7, <2>1, <2>2, <2>4
  <2>5. CASE j > i
    BY <1>1, <1>4, <1>7, <2>1, <2>2, <2>5
  <2> QED BY <2>3, <2>4, <2>5
<1>8. dHead' = u[0] /\ dTail' = Before(u, dLength')
  <2>1. dHead' = (IF i = 0 THEN n ELSE dHead) /\ dTail' = (IF i = dLength THEN n ELSE dTail)
    BY DEF Threaded
  <2>2. dHead = w[0] /\ dTail = Before(w, dLength)
    BY DEF Shape
  <2>3. 0 \in 0 .. dLength + 1 /\ dLength + 1 \in 0 .. dLength + 1
    BY <1>1
  <2>4. dHead' = u[0]
    BY <1>1, <2>1, <2>2, <2>3, SplicedAt
  <2>5. Before(u, dLength + 1) = IF i = dLength THEN n ELSE Before(w, dLength)
    <3>1. dLength + 1 = i + 1 <=> i = dLength
      BY <1>1
    <3>2. i # dLength => dLength + 1 > i + 1 /\ dLength + 1 - 1 = dLength
      BY <1>1
    <3> QED BY <1>1, <2>3, <3>1, <3>2, SplicedAt
  <2> QED BY <1>1, <2>1, <2>2, <2>4, <2>5
<1>9. ASSUME NEW j \in 0 .. dLength
      PROVE  /\ dHeap'[u[j]] \in DList!Cell
             /\ dHeap'[u[j]].next = u[j + 1] /\ dHeap'[u[j]].prev = Before(u, j)
             /\ dHeap'[u[j]].data = IF j < i THEN dHeap[w[j]].data ELSE IF j = i THEN v ELSE dHeap[w[j - 1]].data
  <2>0. j \in 0 .. dLength + 1 /\ j + 1 \in 0 .. dLength + 1
    BY <1>1
  <2>1. CASE j < i
    <3>1. j \in 0 .. dLength - 1
      BY <1>1, <2>1
    <3>2. dHeap'[w[j]] = [data |-> dHeap[w[j]].data,
                         next |-> IF j + 1 = i THEN n ELSE w[j + 1],
                         prev |-> IF j = i THEN n ELSE Before(w, j)]
      BY <3>1 DEF Threaded
    <3>3. u[j] = w[j] /\ Before(u, j) = Before(w, j)
      BY <1>1, <2>0, <2>1, SplicedAt
    <3>4. u[j + 1] = IF j + 1 = i THEN n ELSE w[j + 1]
      BY <1>1, <2>0, <2>1, SplicedAt
    <3>5. u[j + 1] \in Node /\ Before(w, j) \in Node \cup {NULL} /\ dHeap[w[j]].data \in Values
      <4>1. j + 1 \in 0 .. dLength
        BY <1>1, <3>1
      <4>2. u[j + 1] \in Node
        BY <1>5, <4>1
      <4> QED BY <1>1, <3>1, <4>2, ListCells
    <3> QED BY <2>1, <3>2, <3>3, <3>4, <3>5 DEF DList!Cell
  <2>2. CASE j = i
    <3>1. dHeap'[n] = [data |-> v, next |-> w[i], prev |-> Before(w, i)]
      BY DEF Threaded
    <3>2. u[j] = n /\ u[j + 1] = w[i] /\ Before(u, j) = Before(w, i)
      <4>1. j + 1 > i /\ j + 1 - 1 = i
        BY <2>2
      <4> QED BY <1>1, <2>0, <2>2, <4>1, SplicedAt
    <3>3. w[i] \in Node \cup {NULL} /\ Before(w, i) \in Node \cup {NULL}
      BY <1>1 DEF Shape, Before
    <3> QED BY <2>2, <3>1, <3>2, <3>3 DEF DList!Cell
  <2>3. CASE j > i
    <3> DEFINE k == j - 1
    <3>1. k \in 0 .. dLength - 1 /\ k + 1 = j /\ j + 1 - 1 = j /\ k + 1 # i /\ k >= i
          /\ (k = i <=> j = i + 1) /\ (k # i <=> j > i + 1)
      BY <1>1, <2>3
    <3>2. u[j] = w[k]
      BY <1>1, <2>0, <2>3, SplicedAt
    <3>3. u[j + 1] = w[j]
      BY <1>1, <2>0, <2>3, <3>1, SplicedAt
    <3>4. Before(u, j) = IF k = i THEN n ELSE Before(w, k)
      BY <1>1, <2>0, <2>3, <3>1, SplicedAt
    <3>5. dHeap[w[j - 1]].data = dHeap[w[k]].data
      OBVIOUS
    <3> HIDE DEF k
    <3>6. dHeap'[w[k]] = [data |-> dHeap[w[k]].data,
                         next |-> IF k + 1 = i THEN n ELSE w[k + 1],
                         prev |-> IF k = i THEN n ELSE Before(w, k)]
      BY <3>1 DEF Threaded
    <3>7. w[j] \in Node \cup {NULL} /\ Before(w, k) \in Node \cup {NULL} /\ dHeap[w[k]].data \in Values
      BY <1>1, <3>1, ListCells
    <3>8. dHeap'[u[j]] = [data |-> dHeap[w[k]].data, next |-> u[j + 1], prev |-> Before(u, j)]
      BY <3>1, <3>2, <3>3, <3>4, <3>6
    <3> QED BY <2>3, <3>3, <3>4, <3>5, <3>7, <3>8 DEF DList!Cell
  <2> QED BY <2>1, <2>2, <2>3
<1>10. ASSUME NEW m \in Node
       PROVE  dHeap'[m] # Freed <=> \E j \in 0 .. dLength : u[j] = m
  <2>1. CASE m = n
    <3>1. u[i] = n /\ i \in 0 .. dLength
      BY <1>1, SplicedAt
    <3> QED BY <1>9, <2>1, <3>1 DEF HeapOK
  <2>2. CASE m # n /\ dHeap[m] = Freed
    <3>1. dHeap'[m] = Freed
      BY <2>2 DEF Threaded
    <3> QED BY <1>9, <3>1 DEF HeapOK
  <2>3. CASE dHeap[m] # Freed
    <3>1. PICK k \in 0 .. dLength - 1 : w[k] = m
      BY <2>3 DEF Shape
    <3>2. \E j \in 0 .. dLength : u[j] = m
      <4>1. CASE k < i
        BY <1>1, <3>1, <4>1, SplicedAt
      <4>2. CASE k >= i
        <5>1. k + 1 \in 0 .. dLength /\ k + 1 > i /\ k + 1 - 1 = k
          BY <1>1, <4>2
        <5>2. u[k + 1] = w[k]
          BY <1>1, <5>1, SplicedAt
        <5> QED BY <3>1, <5>1, <5>2
      <4> QED BY <1>1, <4>1, <4>2
    <3>3. dHeap'[m] # Freed
      BY <1>9, <3>2 DEF HeapOK
    <3> QED BY <3>2, <3>3
  <2> QED BY <2>1, <2>2, <2>3
<1>11. u[dLength'] = NULL /\ dHead' = u[0] /\ dTail' = Before(u, dLength')
  BY <1>1, <1>6, <1>8
<1> HIDE DEF Spliced, Threaded
<1>12. Shape(u)'
  BY <1>3, <1>5, <1>7, <1>9, <1>10, <1>11 DEF Shape, Before
<1> QED BY <1>2, <1>9, <1>12

LEMMA InsertListed ==
    ASSUME HeapOK, Listed, NEW n \in Node, NEW i \in 0 .. dLength, NEW v \in Values, DList!Insert(n, i, v)
    PROVE  Listed'
<1>1. PICK w : Shape(w)
  BY DEF Listed
<1>2. dHeap[n] = Freed /\ Threaded(w, i, n, v)
  BY <1>1, InsertThreads
<1>3. PICK u : Spliced(w, i, n, u)
  BY DEF Spliced
<1>4. Cells' /\ Shape(u)'
  BY <1>1, <1>2, <1>3, InsertShape
<1> QED BY <1>4 DEF Listed

-----------------------------------------------------------------------------
(* A removal, whichever branch it takes, unthreads the node at its index. *)

Cut(w, i, u) == u = [j \in 0 .. dLength - 1 |-> IF j < i THEN w[j] ELSE w[j + 1]]

Unthreaded(w, i) ==
    /\ dHeap' \in [Node -> DList!Cell \cup {Freed}]
    /\ dHeap'[w[i]] = Freed
    /\ \A m \in Node : dHeap[m] = Freed => dHeap'[m] = Freed
    /\ \A j \in 0 .. dLength - 1 :
         j # i => dHeap'[w[j]] = [data |-> dHeap[w[j]].data,
                                 next |-> IF j + 1 = i THEN w[i + 1] ELSE w[j + 1],
                                 prev |-> IF j = i + 1 THEN Before(w, i) ELSE Before(w, j)]
    /\ dHead' = IF i = 0 THEN w[1] ELSE dHead
    /\ dTail' = IF i = dLength - 1 THEN Before(w, i) ELSE dTail
    /\ dLength' = dLength - 1

LEMMA UnthreadsFront ==
    ASSUME HeapOK, Listed, NEW w, Shape(w), dLength > 0, DList!RemoveFront, dLength' = dLength - 1
    PROVE  Unthreaded(w, 0)
<1>1. dLength \in Nat /\ Cells /\ 0 \in 0 .. dLength - 1 /\ 0 + 1 = 1
  BY DEF Listed, Cells
<1>2. /\ dHead = w[0] /\ Before(w, 0) = NULL /\ w[0] \in Node /\ dHeap[w[0]] # Freed
      /\ dHeap[w[0]] = [data |-> dHeap[w[0]].data, next |-> w[1], prev |-> Before(w, 0)]
      /\ w[1] \in Node \cup {NULL}
  BY <1>1, ListCells DEF Shape, Before
<1>3. dHead' = w[1] /\ dHeap = [m \in Node |-> dHeap[m]]
  <2>1. dHeap[w[0]].next = w[1]
    BY <1>2
  <2> QED BY <1>1, <1>2, <2>1 DEF DList!RemoveFront, Cells
<1>4. CASE dLength = 1
  <2>1. w[1] = NULL
    BY <1>4 DEF Shape
  <2>2. dTail' = NULL /\ dHeap' = [dHeap EXCEPT ![w[0]] = Freed]
    BY <1>2, <1>3, <2>1 DEF DList!RemoveFront
  <2>3. dHeap'[w[0]] = Freed /\ \A m \in Node : m # w[0] => dHeap'[m] = dHeap[m]
    BY <1>2, <1>3, <2>2
  <2>4. dHeap' \in [Node -> DList!Cell \cup {Freed}]
    BY <1>1, <2>2 DEF Cells
  <2>5. \A j \in 0 .. dLength - 1 : j = 0
    BY <1>4
  <2> QED BY <1>2, <1>3, <1>4, <2>2, <2>3, <2>4, <2>5 DEF Unthreaded
<1>5. CASE dLength > 1
  <2>1. /\ 1 \in 0 .. dLength - 1 /\ 1 - 1 = 0 /\ 1 + 1 = 2 /\ 0 # dLength - 1
    BY <1>1, <1>5
  <2>2. /\ w[1] \in Node /\ w[1] # w[0] /\ dHeap[w[1]].data \in Values
        /\ dHeap[w[1]] = [data |-> dHeap[w[1]].data, next |-> w[2], prev |-> Before(w, 1)]
        /\ w[2] \in Node \cup {NULL}
    BY <1>1, <2>1, ListCells DEF Shape
  <2>3. w[1] # NULL
    BY <2>2 DEF HeapOK
  <2>4. dTail' = dTail /\ dHeap' = [dHeap EXCEPT ![w[1]].prev = NULL, ![w[0]] = Freed]
    BY <1>2, <1>3, <2>3 DEF DList!RemoveFront
  <2>5. /\ dHeap'[w[0]] = Freed /\ dHeap' = [m \in Node |-> dHeap'[m]]
        /\ \A m \in Node \ {w[0], w[1]} : dHeap'[m] = dHeap[m]
    BY <1>2, <1>3, <2>2, <2>4
  <2>6. dHeap'[w[1]] = [dHeap[w[1]] EXCEPT !.prev = NULL]
    BY <1>2, <1>3, <2>2, <2>4
  <2>7. dHeap'[w[1]] = [data |-> dHeap[w[1]].data, next |-> w[2], prev |-> NULL]
    BY <2>2, <2>6
  <2>8. dHeap' \in [Node -> DList!Cell \cup {Freed}]
    <3>1. ASSUME NEW m \in Node PROVE dHeap'[m] \in DList!Cell \cup {Freed}
      <4>1. dHeap[m] \in DList!Cell \cup {Freed}
        BY <1>1 DEF Cells
      <4> QED BY <2>2, <2>5, <2>7, <4>1 DEF DList!Cell
    <3> QED BY <2>5, <3>1
  <2>9. \A m \in Node : dHeap[m] = Freed => dHeap'[m] = Freed
    <3>1. dHeap[w[1]] # Freed
      BY <1>1, <2>1, ListCells
    <3> QED BY <2>5, <3>1
  <2>10. ASSUME NEW j \in 0 .. dLength - 1, j # 0
         PROVE  dHeap'[w[j]] = [data |-> dHeap[w[j]].data,
                               next |-> IF j + 1 = 0 THEN w[0 + 1] ELSE w[j + 1],
                               prev |-> IF j = 0 + 1 THEN Before(w, 0) ELSE Before(w, j)]
    <3>1. j + 1 # 0 /\ (j = 1 <=> j = 0 + 1)
      OBVIOUS
    <3>2. CASE j = 1
      BY <1>2, <2>1, <2>7, <3>1, <3>2
    <3>3. CASE j # 1
      <4>1. w[j] \in Node /\ w[j] # w[0] /\ w[j] # w[1]
        BY <1>1, <2>1, <2>10, <3>3 DEF Shape
      <4>2. dHeap'[w[j]] = dHeap[w[j]]
        BY <2>5, <4>1
      <4> QED BY <1>1, <3>1, <3>3, <4>2, ListCells
    <3> QED BY <3>2, <3>3
  <2>11. dHead' = (IF 0 = 0 THEN w[1] ELSE dHead)
         /\ dTail' = (IF 0 = dLength - 1 THEN Before(w, 0) ELSE dTail)
    BY <1>3, <2>1, <2>4
  <2> QED BY <2>5, <2>8, <2>9, <2>10, <2>11 DEF Unthreaded
<1> QED BY <1>1, <1>4, <1>5

LEMMA UnthreadsBack ==
    ASSUME HeapOK, Listed, NEW w, Shape(w), NEW i \in 0 .. dLength - 1, i # 0, i = dLength - 1,
           DList!RemoveBack, dLength' = dLength - 1
    PROVE  Unthreaded(w, i)
<1> DEFINE l == i - 1
<1>1. /\ dLength \in Nat /\ Cells /\ l \in 0 .. dLength - 1 /\ l + 1 = i /\ l # i /\ i + 1 = dLength
      /\ dLength - 1 = i /\ dLength # 0
  BY DEF Listed, Cells
<1>2. Before(w, i) = w[l] /\ Before(w, dLength) = w[i]
  BY <1>1 DEF Before
<1> HIDE DEF l
<1>3. /\ dTail = w[i] /\ w[i] \in Node /\ dHeap[w[i]] # Freed
      /\ dHeap[w[i]] = [data |-> dHeap[w[i]].data, next |-> w[i + 1], prev |-> w[l]]
      /\ w[dLength] = NULL
  BY <1>1, <1>2, ListCells DEF Shape
<1>4. /\ w[l] \in Node /\ w[l] # w[i] /\ dHeap[w[l]].data \in Values /\ dHeap[w[l]] # Freed
      /\ dHeap[w[l]] = [data |-> dHeap[w[l]].data, next |-> w[i], prev |-> Before(w, l)]
      /\ Before(w, l) \in Node \cup {NULL}
  BY <1>1, ListCells DEF Shape
<1>5. dHeap = [m \in Node |-> dHeap[m]] /\ w[l] # NULL
  BY <1>1, <1>4 DEF Cells, HeapOK
<1>6. dTail' = w[l] /\ dHead' = dHead /\ dHeap' = [dHeap EXCEPT ![w[l]].next = NULL, ![w[i]] = Freed]
  <2>1. dHeap[w[i]].prev = w[l]
    BY <1>3
  <2>2. dTail' = w[l]
    BY <1>3, <2>1 DEF DList!RemoveBack
  <2> QED BY <1>3, <1>5, <2>2 DEF DList!RemoveBack
<1>7. /\ dHeap'[w[i]] = Freed /\ dHeap' = [m \in Node |-> dHeap'[m]]
      /\ \A m \in Node \ {w[i], w[l]} : dHeap'[m] = dHeap[m]
  BY <1>3, <1>4, <1>5, <1>6
<1>8. dHeap'[w[l]] = [dHeap[w[l]] EXCEPT !.next = NULL]
  BY <1>3, <1>4, <1>5, <1>6
<1>9. dHeap'[w[l]] = [data |-> dHeap[w[l]].data, next |-> NULL, prev |-> Before(w, l)]
  BY <1>4, <1>8
<1>10. dHeap' \in [Node -> DList!Cell \cup {Freed}]
  <2>1. ASSUME NEW m \in Node PROVE dHeap'[m] \in DList!Cell \cup {Freed}
    <3>1. dHeap[m] \in DList!Cell \cup {Freed}
      BY <1>1 DEF Cells
    <3> QED BY <1>4, <1>7, <1>9, <3>1 DEF DList!Cell
  <2> QED BY <1>7, <2>1
<1>11. \A m \in Node : dHeap[m] = Freed => dHeap'[m] = Freed
  BY <1>4, <1>7
<1>12. ASSUME NEW j \in 0 .. dLength - 1, j # i
       PROVE  dHeap'[w[j]] = [data |-> dHeap[w[j]].data,
                             next |-> IF j + 1 = i THEN w[i + 1] ELSE w[j + 1],
                             prev |-> IF j = i + 1 THEN Before(w, i) ELSE Before(w, j)]
  <2>1. j # i + 1 /\ w[i + 1] = NULL
    BY <1>1, <1>3
  <2>2. CASE j = l
    BY <1>1, <1>9, <2>1, <2>2
  <2>3. CASE j # l
    <3>1. w[j] \in Node /\ w[j] # w[i] /\ w[j] # w[l] /\ j + 1 # i
      BY <1>1, <1>12, <2>3 DEF Shape
    <3>2. dHeap'[w[j]] = dHeap[w[j]]
      BY <1>7, <3>1
    <3> QED BY <1>1, <2>1, <3>1, <3>2, ListCells
  <2> QED BY <2>2, <2>3
<1>13. dHead' = (IF i = 0 THEN w[1] ELSE dHead)
       /\ dTail' = (IF i = dLength - 1 THEN Before(w, i) ELSE dTail)
  BY <1>2, <1>6
<1> QED BY <1>7, <1>10, <1>11, <1>12, <1>13 DEF Unthreaded

LEMMA UnthreadsMiddle ==
    ASSUME HeapOK, Listed, NEW w, Shape(w), NEW i \in 0 .. dLength - 1, i # 0, i # dLength - 1,
           DList!RemoveMiddle(i), dLength' = dLength - 1
    PROVE  Unthreaded(w, i)
<1> DEFINE l == i - 1
           r == i + 1
<1>1. /\ dLength \in Nat /\ Cells /\ l \in 0 .. dLength - 1 /\ l + 1 = i /\ l # i
      /\ r \in 0 .. dLength - 1 /\ r # i /\ r # l /\ i \in 0 .. dLength /\ i + 1 = r
  BY DEF Listed, Cells
<1>2. Before(w, i) = w[l] /\ Before(w, r) = w[i]
  BY <1>1 DEF Before
<1> HIDE DEF l, r
<1>3. /\ DList!FromHead[i] = w[i] /\ w[i] \in Node /\ dHeap[w[i]] # Freed
      /\ dHeap[w[i]] = [data |-> dHeap[w[i]].data, next |-> w[r], prev |-> w[l]]
  BY <1>1, <1>2, ListCells, WalkFromHead
<1>4. /\ w[l] \in Node /\ w[l] # w[i] /\ dHeap[w[l]].data \in Values /\ dHeap[w[l]] # Freed
      /\ dHeap[w[l]] = [data |-> dHeap[w[l]].data, next |-> w[i], prev |-> Before(w, l)]
      /\ Before(w, l) \in Node \cup {NULL}
  BY <1>1, ListCells DEF Shape
<1>5. /\ w[r] \in Node /\ w[r] # w[i] /\ w[r] # w[l] /\ dHeap[w[r]].data \in Values /\ dHeap[w[r]] # Freed
      /\ dHeap[w[r]] = [data |-> dHeap[w[r]].data, next |-> w[r + 1], prev |-> w[i]]
      /\ w[r + 1] \in Node \cup {NULL}
  BY <1>1, <1>2, ListCells DEF Shape
<1>6. dHeap = [m \in Node |-> dHeap[m]]
  BY <1>1 DEF Cells
<1>7. /\ dHeap' = [dHeap EXCEPT ![w[l]].next = w[r], ![w[r]].prev = w[l], ![w[i]] = Freed]
      /\ dHead' = dHead /\ dTail' = dTail
  <2>1. dHeap[w[i]].prev = w[l] /\ dHeap[w[i]].next = w[r]
    BY <1>3
  <2> QED BY <1>3, <2>1 DEF DList!RemoveMiddle
<1>8. /\ dHeap'[w[i]] = Freed /\ dHeap' = [m \in Node |-> dHeap'[m]]
      /\ \A m \in Node \ {w[i], w[l], w[r]} : dHeap'[m] = dHeap[m]
  BY <1>3, <1>4, <1>5, <1>6, <1>7
<1>9. dHeap'[w[l]] = [dHeap[w[l]] EXCEPT !.next = w[r]]
  BY <1>3, <1>4, <1>5, <1>6, <1>7
<1>10. dHeap'[w[r]] = [dHeap[w[r]] EXCEPT !.prev = w[l]]
  BY <1>3, <1>4, <1>5, <1>6, <1>7
<1>11. dHeap'[w[l]] = [data |-> dHeap[w[l]].data, next |-> w[r], prev |-> Before(w, l)]
  BY <1>4, <1>9
<1>12. dHeap'[w[r]] = [data |-> dHeap[w[r]].data, next |-> w[r + 1], prev |-> w[l]]
  BY <1>5, <1>10
<1>13. dHeap' \in [Node -> DList!Cell \cup {Freed}]
  <2>1. ASSUME NEW m \in Node PROVE dHeap'[m] \in DList!Cell \cup {Freed}
    <3>1. dHeap[m] \in DList!Cell \cup {Freed}
      BY <1>1 DEF Cells
    <3> QED BY <1>4, <1>5, <1>8, <1>11, <1>12, <3>1 DEF DList!Cell
  <2> QED BY <1>8, <2>1
<1>14. \A m \in Node : dHeap[m] = Freed => dHeap'[m] = Freed
  BY <1>4, <1>5, <1>8
<1>15. ASSUME NEW j \in 0 .. dLength - 1, j # i
       PROVE  dHeap'[w[j]] = [data |-> dHeap[w[j]].data,
                             next |-> IF j + 1 = i THEN w[i + 1] ELSE w[j + 1],
                             prev |-> IF j = i + 1 THEN Before(w, i) ELSE Before(w, j)]
  <2>1. CASE j = l
    BY <1>1, <1>11, <2>1
  <2>2. CASE j = r
    <3>1. j + 1 # i
      BY <1>1, <2>2
    <3> QED BY <1>1, <1>2, <1>12, <2>2, <3>1
  <2>3. CASE j # l /\ j # r
    <3>1. w[j] \in Node /\ w[j] # w[i] /\ w[j] # w[l] /\ w[j] # w[r] /\ j + 1 # i /\ j # i + 1
      BY <1>1, <1>15, <2>3 DEF Shape
    <3>2. dHeap'[w[j]] = dHeap[w[j]]
      BY <1>8, <3>1
    <3> QED BY <1>1, <3>1, <3>2, ListCells
  <2> QED BY <2>1, <2>2, <2>3
<1>16. dHead' = (IF i = 0 THEN w[1] ELSE dHead)
       /\ dTail' = (IF i = dLength - 1 THEN Before(w, i) ELSE dTail)
  BY <1>7
<1> QED BY <1>8, <1>13, <1>14, <1>15, <1>16 DEF Unthreaded

LEMMA RemoveUnthreads ==
    ASSUME HeapOK, Listed, NEW w, Shape(w), NEW i \in 0 .. dLength, DList!Remove(i)
    PROVE  i \in 0 .. dLength - 1 /\ Unthreaded(w, i) /\ dOut' = DList!Answer("remove", 0, i, dHeap[w[i]].data)
<1>1. dLength \in Nat /\ i \in 0 .. dLength - 1 /\ dLength' = dLength - 1
  BY DEF DList!Remove, Listed, Cells
<1>2. CASE i = 0 /\ DList!RemoveFront /\ DList!Succeed("remove", i, dHeap[dHead].data)
  <2>1. dLength > 0
    BY <1>1
  <2>2. dHead = w[i]
    BY <1>2 DEF Shape
  <2> QED BY <1>1, <1>2, <2>1, <2>2, UnthreadsFront DEF DList!Succeed
<1>3. CASE i # 0 /\ i = dLength - 1 /\ DList!RemoveBack /\ DList!Succeed("remove", i, dHeap[dTail].data)
  <2>1. dLength # 0 /\ i = dLength - 1
    BY <1>1, <1>3
  <2>2. dTail = w[i]
    BY <2>1 DEF Shape, Before
  <2> QED BY <1>1, <1>3, <2>2, UnthreadsBack DEF DList!Succeed
<1>4. CASE i # 0 /\ i # dLength - 1 /\ DList!RemoveMiddle(i) /\ DList!Succeed("remove", i, dHeap[DList!FromHead[i]].data)
  BY <1>1, <1>4, UnthreadsMiddle, WalkFromHead DEF DList!Succeed
<1> QED BY <1>1, <1>2, <1>3, <1>4 DEF DList!Remove

LEMMA CutAt ==
    ASSUME NEW w, NEW i, NEW u, dLength \in Nat, i \in 0 .. dLength - 1, Cut(w, i, u)
    PROVE  /\ \A j \in 0 .. dLength - 1 : /\ j < i => u[j] = w[j]
                                          /\ j >= i => u[j] = w[j + 1]
           /\ \A j \in 0 .. dLength - 1 : /\ j <= i => Before(u, j) = Before(w, j)
                                          /\ j > i => Before(u, j) = w[j]
<1>1. \A j \in 0 .. dLength - 1 : u[j] = IF j < i THEN w[j] ELSE w[j + 1]
  BY DEF Cut
<1>2. ASSUME NEW j \in 0 .. dLength - 1
      PROVE  (j < i => u[j] = w[j]) /\ (j >= i => u[j] = w[j + 1])
  BY <1>1
<1>3. ASSUME NEW j \in 0 .. dLength - 1
      PROVE  (j <= i => Before(u, j) = Before(w, j)) /\ (j > i => Before(u, j) = w[j])
  <2>1. CASE j = 0
    BY <2>1 DEF Before
  <2>2. CASE j # 0
    <3>1. j - 1 \in 0 .. dLength - 1 /\ j - 1 + 1 = j
      BY <2>2
    <3>2. Before(u, j) = u[j - 1] /\ Before(w, j) = w[j - 1]
      BY <2>2 DEF Before
    <3>3. (j - 1 < i => u[j - 1] = w[j - 1]) /\ (j - 1 >= i => u[j - 1] = w[j])
      BY <1>2, <3>1
    <3> QED BY <3>2, <3>3
  <2> QED BY <2>1, <2>2
<1> QED BY <1>2, <1>3

LEMMA RemoveShape ==
    ASSUME HeapOK, Listed, NEW w, Shape(w), NEW i \in 0 .. dLength - 1, Unthreaded(w, i),
           NEW u, Cut(w, i, u)
    PROVE  /\ Cells' /\ Shape(u)'
           /\ \A j \in 0 .. dLength - 2 :
                dHeap'[u[j]].data = IF j < i THEN dHeap[w[j]].data ELSE dHeap[w[j + 1]].data
<1>1. /\ dLength \in Nat /\ Cells /\ dLength' = dLength - 1 /\ dLength > 0
      /\ dHeap' \in [Node -> DList!Cell \cup {Freed}]
  BY DEF Listed, Cells, Unthreaded
<1>2. Cells'
  BY <1>1 DEF Cells
<1>3. dLength' - 1 = dLength - 2 /\ dLength' \in Nat
  BY <1>1
<1>4. \A j \in 0 .. dLength - 2 : /\ j \in 0 .. dLength - 1 /\ j + 1 \in 0 .. dLength - 1
                                  /\ j < i => u[j] = w[j] /\ u[j + 1] = IF j + 1 = i THEN w[i + 1] ELSE w[j + 1]
                                  /\ j >= i => u[j] = w[j + 1] /\ u[j + 1] = w[j + 1 + 1]
  <2>1. ASSUME NEW j \in 0 .. dLength - 2
        PROVE  /\ j \in 0 .. dLength - 1 /\ j + 1 \in 0 .. dLength - 1
               /\ j < i => u[j] = w[j] /\ u[j + 1] = IF j + 1 = i THEN w[i + 1] ELSE w[j + 1]
               /\ j >= i => u[j] = w[j + 1] /\ u[j + 1] = w[j + 1 + 1]
    <3>1. j \in 0 .. dLength - 1 /\ j + 1 \in 0 .. dLength - 1
      BY <1>1
    <3>2. (j < i => u[j] = w[j]) /\ (j >= i => u[j] = w[j + 1])
      BY <1>1, <3>1, CutAt
    <3>3. (j + 1 < i => u[j + 1] = w[j + 1]) /\ (j + 1 >= i => u[j + 1] = w[j + 1 + 1])
      BY <1>1, <3>1, CutAt
    <3>4. /\ j < i => \/ j + 1 < i /\ j + 1 # i
                      \/ j + 1 = i /\ j + 1 >= i
          /\ j >= i => j + 1 >= i
      BY <3>1
    <3> QED BY <3>1, <3>2, <3>3, <3>4
  <2> QED BY <2>1
<1>5. \A a, b \in 0 .. dLength - 1 : w[a] = w[b] => a = b
  BY DEF Shape
<1>6. ASSUME NEW j \in 0 .. dLength - 2, NEW k \in 0 .. dLength - 2, u[j] = u[k]
      PROVE  j = k
  <2>1. CASE j < i /\ k < i
    BY <1>4, <1>5, <1>6, <2>1
  <2>2. CASE j < i /\ k >= i
    BY <1>4, <1>5, <1>6, <2>2
  <2>3. CASE j >= i /\ k < i
    BY <1>4, <1>5, <1>6, <2>3
  <2>4. CASE j >= i /\ k >= i
    <3>1. j + 1 = k + 1
      BY <1>4, <1>5, <1>6, <2>4
    <3> QED BY <3>1
  <2> QED BY <2>1, <2>2, <2>3, <2>4
<1>7. u[dLength - 1] = NULL
  <2>1. dLength - 1 \in 0 .. dLength - 1 /\ dLength - 1 >= i /\ dLength - 1 + 1 = dLength
    BY <1>1
  <2>2. u[dLength - 1] = w[dLength]
    BY <1>1, <2>1, CutAt
  <2> QED BY <2>2 DEF Shape
<1>8. dHead' = u[0]
  <2>1. 0 \in 0 .. dLength - 1 /\ 0 + 1 = 1 /\ (i = 0 \/ 0 < i) /\ (i = 0 => 0 >= i)
    BY <1>1
  <2>2. (0 < i => u[0] = w[0]) /\ (i = 0 => u[0] = w[1])
    BY <1>1, <2>1, CutAt
  <2>3. dHead' = (IF i = 0 THEN w[1] ELSE dHead) /\ dHead = w[0]
    BY DEF Unthreaded, Shape
  <2> QED BY <2>1, <2>2, <2>3
<1>9. dTail' = Before(u, dLength - 1)
  <2>1. dTail' = (IF i = dLength - 1 THEN Before(w, i) ELSE dTail) /\ dTail = Before(w, dLength)
    BY DEF Unthreaded, Shape
  <2>2. dLength - 1 \in 0 .. dLength - 1 /\ (i = dLength - 1 => dLength - 1 <= i)
        /\ (i # dLength - 1 => dLength - 1 > i)
    BY <1>1
  <2>3. (i = dLength - 1 => Before(u, dLength - 1) = Before(w, i))
        /\ (i # dLength - 1 => Before(u, dLength - 1) = w[dLength - 1])
    BY <1>1, <2>2, CutAt
  <2>4. Before(w, dLength) = w[dLength - 1]
    BY <1>1 DEF Before
  <2> QED BY <2>1, <2>3, <2>4
<1>10. ASSUME NEW j \in 0 .. dLength - 2
       PROVE  /\ u[j] \in Node /\ dHeap'[u[j]] # Freed
              /\ dHeap'[u[j]].next = u[j + 1] /\ dHeap'[u[j]].prev = Before(u, j)
              /\ dHeap'[u[j]].data = IF j < i THEN dHeap[w[j]].data ELSE dHeap[w[j + 1]].data
  <2>1. CASE j < i
    <3>1. /\ j \in 0 .. dLength - 1 /\ j # i /\ j # i + 1 /\ j <= i
          /\ u[j] = w[j] /\ u[j + 1] = IF j + 1 = i THEN w[i + 1] ELSE w[j + 1]
      BY <1>4, <2>1
    <3>2. Before(u, j) = Before(w, j)
      BY <1>1, <3>1, CutAt
    <3>3. dHeap'[w[j]] = [data |-> dHeap[w[j]].data,
                         next |-> IF j + 1 = i THEN w[i + 1] ELSE w[j + 1],
                         prev |-> IF j = i + 1 THEN Before(w, i) ELSE Before(w, j)]
      BY <3>1 DEF Unthreaded
    <3>4. dHeap'[w[j]] = [data |-> dHeap[w[j]].data, next |-> u[j + 1], prev |-> Before(u, j)]
      BY <3>1, <3>2, <3>3
    <3>5. /\ w[j] \in Node /\ dHeap[w[j]].data \in Values /\ Before(u, j) \in Node \cup {NULL}
          /\ w[j + 1] \in Node \cup {NULL}
      BY <1>1, <3>1, <3>2, ListCells
    <3>6. u[j + 1] \in Node \cup {NULL}
      BY <1>1, <3>1, <3>5, ListCells
    <3>7. dHeap'[w[j]] \in DList!Cell
      BY <3>4, <3>5, <3>6 DEF DList!Cell
    <3> QED BY <2>1, <3>1, <3>4, <3>5, <3>7 DEF HeapOK
  <2>2. CASE j >= i
    <3> DEFINE k == j + 1
    <3>1. /\ k \in 0 .. dLength - 1 /\ k # i /\ k + 1 # i /\ ~(j < i)
          /\ u[j] = w[k] /\ u[j + 1] = w[k + 1] /\ (k = i + 1 <=> j = i) /\ (j # i => j > i)
          /\ j \in 0 .. dLength - 1 /\ (j = i => j <= i)
      BY <1>1, <1>4, <2>2
    <3>2. Before(u, j) = IF j = i THEN Before(w, i) ELSE w[j]
      BY <1>1, <3>1, CutAt
    <3>3. j + 1 = k /\ Before(w, k) = w[j]
      BY <3>1 DEF Before
    <3> HIDE DEF k
    <3>4. dHeap'[w[k]] = [data |-> dHeap[w[k]].data,
                         next |-> IF k + 1 = i THEN w[i + 1] ELSE w[k + 1],
                         prev |-> IF k = i + 1 THEN Before(w, i) ELSE Before(w, k)]
      BY <3>1 DEF Unthreaded
    <3>5. dHeap'[w[k]] = [data |-> dHeap[w[k]].data, next |-> u[j + 1], prev |-> Before(u, j)]
      BY <3>1, <3>2, <3>3, <3>4
    <3>6. /\ w[k] \in Node /\ dHeap[w[k]].data \in Values /\ w[j] \in Node
          /\ w[k + 1] \in Node \cup {NULL} /\ Before(w, i) \in Node \cup {NULL}
      BY <1>1, <3>1, ListCells
    <3>7. dHeap'[w[k]] \in DList!Cell
      BY <3>1, <3>2, <3>5, <3>6 DEF DList!Cell
    <3> QED BY <3>1, <3>3, <3>5, <3>6, <3>7 DEF HeapOK
  <2> QED BY <1>4, <2>1, <2>2
<1>11. ASSUME NEW m \in Node
       PROVE  dHeap'[m] # Freed <=> \E j \in 0 .. dLength - 2 : u[j] = m
  <2>1. CASE m = w[i]
    <3>1. dHeap'[m] = Freed
      BY <2>1 DEF Unthreaded
    <3> QED BY <1>10, <3>1
  <2>2. CASE dHeap[m] = Freed
    <3>1. dHeap'[m] = Freed
      BY <2>2 DEF Unthreaded
    <3> QED BY <1>10, <3>1
  <2>3. CASE m # w[i] /\ dHeap[m] # Freed
    <3>1. PICK k \in 0 .. dLength - 1 : w[k] = m
      BY <2>3 DEF Shape
    <3>2. \E j \in 0 .. dLength - 2 : u[j] = m
      <4>1. CASE k < i
        <5>1. k \in 0 .. dLength - 2
          BY <1>1, <4>1
        <5> QED BY <1>4, <3>1, <4>1, <5>1
      <4>2. CASE k > i
        <5>1. k - 1 \in 0 .. dLength - 2 /\ k - 1 >= i /\ k - 1 + 1 = k
          BY <1>1, <4>2
        <5>2. u[k - 1] = w[k]
          BY <1>4, <5>1
        <5> QED BY <3>1, <5>1, <5>2
      <4> QED BY <2>3, <3>1, <4>1, <4>2
    <3>3. dHeap'[m] # Freed
      BY <1>10, <3>2
    <3> QED BY <3>2, <3>3
  <2> QED BY <2>1, <2>2, <2>3
<1>12. u[dLength'] = NULL /\ dHead' = u[0] /\ dTail' = Before(u, dLength')
  BY <1>1, <1>7, <1>8, <1>9
<1> HIDE DEF Cut, Unthreaded
<1>13. Shape(u)'
  BY <1>3, <1>6, <1>10, <1>11, <1>12 DEF Shape, Before
<1> QED BY <1>2, <1>10, <1>13

LEMMA RemoveListed ==
    ASSUME HeapOK, Listed, NEW i \in 0 .. dLength, DList!Remove(i)
    PROVE  Listed'
<1>1. PICK w : Shape(w)
  BY DEF Listed
<1>2. i \in 0 .. dLength - 1 /\ Unthreaded(w, i)
  BY <1>1, RemoveUnthreads
<1>3. PICK u : Cut(w, i, u)
  BY DEF Cut
<1>4. Cells' /\ Shape(u)'
  BY <1>1, <1>2, <1>3, RemoveShape
<1> QED BY <1>4 DEF Listed

-----------------------------------------------------------------------------
(* The invariant. *)

LEMMA EmptyListed ==
    ASSUME dHeap = [n \in Node |-> Freed], dHead = NULL, dTail = NULL, dLength = 0
    PROVE  Listed
<1>1. PICK w : w = [i \in {0} |-> NULL]
  OBVIOUS
<1>2. w[0] = NULL /\ 0 .. dLength - 1 = {}
  BY <1>1
<1>3. Shape(w)
  BY <1>2 DEF Shape, Before
<1>4. Cells
  BY DEF Cells
<1> QED BY <1>3, <1>4 DEF Listed

LEMMA ClearListed ==
    ASSUME HeapOK, Listed, DList!Clear
    PROVE  Listed'
<1>1. PICK w : Shape(w)
  BY DEF Listed
<1>2. \A i \in 0 .. dLength - 1 : DList!FromHead[i] = w[i]
  <2>1. \A i \in 0 .. dLength - 1 : i \in 0 .. dLength
    BY DEF Listed, Cells
  <2> QED BY <1>1, <2>1, WalkFromHead
<1>3. ASSUME NEW n \in Node PROVE dHeap'[n] = Freed
  <2>1. dHeap'[n] = IF \E i \in 0 .. dLength - 1 : DList!FromHead[i] = n THEN Freed ELSE dHeap[n]
    BY DEF DList!Clear
  <2>2. dHeap[n] # Freed => \E i \in 0 .. dLength - 1 : w[i] = n
    BY <1>1 DEF Shape
  <2> QED BY <1>2, <2>1, <2>2
<1>4. dHeap' = [n \in Node |-> Freed]
  <2>1. dHeap' = [n \in Node |-> dHeap'[n]]
    BY DEF DList!Clear
  <2> QED BY <1>3, <2>1
<1>5. dHead' = NULL /\ dTail' = NULL /\ dLength' = 0
  BY DEF DList!Clear
<1>6. PICK u : u = [i \in {0} |-> NULL]
  OBVIOUS
<1>7. u[0] = NULL /\ 0 .. dLength' - 1 = {}
  BY <1>5, <1>6
<1>8. Shape(u)' /\ Cells'
  BY <1>4, <1>5, <1>7 DEF Shape, Before, Cells
<1> QED BY <1>8 DEF Listed

LEMMA SameListed ==
    ASSUME Listed, UNCHANGED <<dHeap, dHead, dTail, dLength>>
    PROVE  Listed'
<1>1. PICK w : Shape(w)
  BY DEF Listed
<1>2. Shape(w)' /\ Cells'
  BY <1>1 DEF Shape, Listed, Cells
<1> QED BY <1>2 DEF Listed

LEMMA StepListed == HeapOK /\ Listed /\ [DList!Next]_(DList!vars) => Listed'
<1> SUFFICES ASSUME HeapOK, Listed, [DList!Next]_(DList!vars) PROVE Listed'
  OBVIOUS
<1>1. ASSUME NEW n \in Node, NEW i \in 0 .. dLength, NEW v \in Values, DList!Insert(n, i, v) PROVE Listed'
  BY <1>1, InsertListed
<1>2. ASSUME NEW i \in 0 .. dLength, DList!Remove(i) PROVE Listed'
  BY <1>2, RemoveListed
<1>3. ASSUME NEW i \in 0 .. dLength, DList!Get(i) PROVE Listed'
  BY <1>3, SameListed DEF DList!Get
<1>4. ASSUME NEW i \in 0 .. dLength + 1, NEW op \in {"insert", "remove", "get"}, DList!Fail(op, i) PROVE Listed'
  BY <1>4, SameListed DEF DList!Fail
<1>5. CASE DList!Clear
  BY <1>5, ClearListed
<1>6. CASE UNCHANGED DList!vars
  BY <1>6, SameListed DEF DList!vars
<1> QED BY <1>1, <1>2, <1>3, <1>4, <1>5, <1>6 DEF DList!Next

LEMMA AlwaysListed == ASSUME HeapOK PROVE DList!Spec => []Listed
<1>1. DList!Init => Listed
  BY EmptyListed DEF DList!Init
<1>2. Listed /\ [DList!Next]_(DList!vars) => Listed'
  BY StepListed
<1> QED BY <1>1, <1>2, PTL DEF DList!Spec

\* No call leaves a link, an end of the list or the walk to it pointing outside the heap
\* or at something that is no address, and length never exceeds the nodes there are
\* (every branch of dll_insert_at, dll_remove_at and dll_clear).
THEOREM PointersStayOK == ASSUME HeapOK PROVE DList!Spec => []PointersOK
  BY AlwaysListed, ListedPointers, PTL DEF PointersOK

\* Both directions list the same nodes: walking back from tail meets the nodes of the
\* forward walk in reverse, whatever insertions and removals made the list.
THEOREM BothWaysAgree == ASSUME HeapOK PROVE DList!Spec => []WalksAgree
  BY AlwaysListed, ListedWalks, PTL DEF WalksAgree

\* Whatever was called, the nodes that are allocated are those of the list and length
\* counts them: dll_remove_at and dll_clear free what they take out and nothing else.
THEOREM EveryNodeOwned == ASSUME HeapOK PROVE DList!Spec => []NothingLeaks
  BY AlwaysListed, ListedLeaks, PTL DEF NothingLeaks

-----------------------------------------------------------------------------
(* The list implements IndexedList, step by step. *)

Grown(s, i, e) == [j \in 1 .. Len(s) + 1 |-> IF j < i THEN s[j] ELSE IF j = i THEN e ELSE s[j - 1]]
Shrunk(s, i) == [j \in 1 .. Len(s) - 1 |-> IF j < i THEN s[j] ELSE s[j + 1]]

LEMMA InsertAtIs ==
    ASSUME NEW S, NEW s \in Seq(S), NEW i \in 1 .. Len(s) + 1, NEW e \in S
    PROVE  DList!Abs!InsertAt(s, i, e) = Grown(s, i, e)
<1> DEFINE a == SubSeq(s, 1, i - 1)
           b == SubSeq(s, i, Len(s))
           c == a \o <<e>>
<1>1. a \in Seq(S) /\ Len(a) = i - 1 /\ \A j \in 1 .. i - 1 : a[j] = s[j]
  OBVIOUS
<1>2. b \in Seq(S) /\ Len(b) = Len(s) + 1 - i /\ \A j \in 1 .. Len(s) + 1 - i : b[j] = s[i + j - 1]
  OBVIOUS
<1> HIDE DEF a, b
<1>3. c \in Seq(S) /\ Len(c) = i /\ \A j \in 1 .. i : c[j] = IF j = i THEN e ELSE s[j]
  BY <1>1
<1> HIDE DEF c
<1>4. c \o b \in Seq(S) /\ Len(c \o b) = Len(s) + 1
  BY <1>2, <1>3, ConcatProperties
<1>5. \A j \in 1 .. Len(s) + 1 : (c \o b)[j] = IF j < i THEN s[j] ELSE IF j = i THEN e ELSE s[j - 1]
  <2>1. ASSUME NEW j \in 1 .. Len(s) + 1
        PROVE  (c \o b)[j] = IF j < i THEN s[j] ELSE IF j = i THEN e ELSE s[j - 1]
    <3>1. (c \o b)[j] = IF j <= i THEN c[j] ELSE b[j - i]
      BY <1>2, <1>3, ConcatProperties
    <3>2. CASE j <= i
      BY <1>3, <3>1, <3>2
    <3>3. CASE j > i
      <4>1. j - i \in 1 .. Len(s) + 1 - i /\ i + (j - i) - 1 = j - 1
        BY <3>3
      <4>2. b[j - i] = s[j - 1]
        BY <1>2, <4>1
      <4> QED BY <3>1, <3>3, <4>2
    <3>4. j <= i \/ j > i
      OBVIOUS
    <3> QED BY <3>2, <3>3, <3>4
  <2> QED BY <2>1
<1>6. c \o b = Grown(s, i, e)
  <2>1. c \o b = [j \in 1 .. Len(s) + 1 |-> (c \o b)[j]]
    BY <1>4, LenProperties
  <2> QED BY <1>5, <2>1 DEF Grown
<1> QED BY <1>6 DEF DList!Abs!InsertAt, a, b, c

LEMMA RemoveAtIs ==
    ASSUME NEW S, NEW s \in Seq(S), NEW i \in 1 .. Len(s)
    PROVE  DList!Abs!RemoveAt(s, i) = Shrunk(s, i)
<1> DEFINE a == SubSeq(s, 1, i - 1)
           b == SubSeq(s, i + 1, Len(s))
<1>1. a \in Seq(S) /\ Len(a) = i - 1 /\ \A j \in 1 .. i - 1 : a[j] = s[j]
  OBVIOUS
<1>2. b \in Seq(S) /\ Len(b) = Len(s) - i /\ \A j \in 1 .. Len(s) - i : b[j] = s[i + j]
  OBVIOUS
<1> HIDE DEF a, b
<1>3. a \o b \in Seq(S) /\ Len(a \o b) = Len(s) - 1
  <2>1. a \o b \in Seq(S) /\ Len(a \o b) = Len(a) + Len(b)
    BY <1>1, <1>2, ConcatProperties
  <2>2. Len(s) \in Nat /\ i - 1 + (Len(s) - i) = Len(s) - 1
    BY LenProperties
  <2> QED BY <1>1, <1>2, <2>1, <2>2
<1>4. \A j \in 1 .. Len(s) - 1 : (a \o b)[j] = IF j < i THEN s[j] ELSE s[j + 1]
  BY <1>1, <1>2
<1>5. a \o b = Shrunk(s, i)
  <2>1. a \o b = [j \in 1 .. Len(s) - 1 |-> (a \o b)[j]]
    BY <1>3, LenProperties
  <2> QED BY <1>4, <2>1 DEF Shrunk
<1> QED BY <1>5 DEF DList!Abs!RemoveAt, a, b

\* The sequence the refinement mapping gives.
Items == [i \in 1 .. dLength |-> dHeap[DList!FromHead[i - 1]].data]

LEMMA ItemsOf ==
    ASSUME Listed, NEW w, Shape(w)
    PROVE  /\ Items \in Seq(Values) /\ Len(Items) = dLength
           /\ Items = [i \in 1 .. dLength |-> dHeap[w[i - 1]].data]
           /\ \A i \in 1 .. dLength : Items[i] = dHeap[w[i - 1]].data
<1>1. dLength \in Nat /\ Cells
  BY DEF Listed, Cells
<1>2. ASSUME NEW i \in 1 .. dLength
      PROVE  dHeap[DList!FromHead[i - 1]].data = dHeap[w[i - 1]].data /\ dHeap[w[i - 1]].data \in Values
  <2>1. i - 1 \in 0 .. dLength - 1 /\ i - 1 \in 0 .. dLength
    BY <1>1
  <2> QED BY <1>1, <2>1, WalkFromHead, ListCells
<1>3. Items = [i \in 1 .. dLength |-> dHeap[w[i - 1]].data]
  BY <1>2 DEF Items
<1>4. Items \in [1 .. dLength -> Values]
  BY <1>2, <1>3
<1>5. Items \in Seq(Values) /\ Len(Items) = dLength
  BY <1>1, <1>4
<1> QED BY <1>3, <1>5

ItemsAsListed == \A w : Listed /\ Shape(w) => Items = [i \in 1 .. dLength |-> dHeap[w[i - 1]].data]

LEMMA ItemsAre == ItemsAsListed
  BY ItemsOf DEF ItemsAsListed

LEMMA ItemsBecome == ItemsAsListed'
  BY ItemsAre, PTL

LEMMA InsertItems ==
    ASSUME HeapOK, Listed, NEW n \in Node, NEW i \in 0 .. dLength, NEW v \in Values, DList!Insert(n, i, v)
    PROVE  Len(Items) = dLength /\ Items' = DList!Abs!InsertAt(Items, i + 1, v)
<1>1. PICK w : Shape(w)
  BY DEF Listed
<1>2. dHeap[n] = Freed /\ Threaded(w, i, n, v)
  BY <1>1, InsertThreads
<1>3. PICK u : Spliced(w, i, n, u)
  BY DEF Spliced
<1>4. /\ Cells' /\ Shape(u)' /\ dLength \in Nat /\ dLength' = dLength + 1
      /\ \A j \in 0 .. dLength :
           dHeap'[u[j]].data = IF j < i THEN dHeap[w[j]].data
                              ELSE IF j = i THEN v ELSE dHeap[w[j - 1]].data
  BY <1>1, <1>2, <1>3, InsertShape DEF Threaded, Listed, Cells
<1>5. Listed'
  BY <1>4 DEF Listed
<1>6. Items' = [k \in 1 .. dLength' |-> dHeap'[u[k - 1]].data]
  BY <1>4, <1>5, ItemsBecome DEF ItemsAsListed
<1>7. /\ Items \in Seq(Values) /\ Len(Items) = dLength
      /\ \A k \in 1 .. dLength : Items[k] = dHeap[w[k - 1]].data
  BY <1>1, ItemsOf
<1>8. i + 1 \in 1 .. Len(Items) + 1
  BY <1>4, <1>7
<1>9. DList!Abs!InsertAt(Items, i + 1, v) = Grown(Items, i + 1, v)
  BY <1>7, <1>8, InsertAtIs
<1>10. ASSUME NEW k \in 1 .. dLength + 1
       PROVE  dHeap'[u[k - 1]].data
                = IF k < i + 1 THEN Items[k] ELSE IF k = i + 1 THEN v ELSE Items[k - 1]
  <2>1. /\ k - 1 \in 0 .. dLength
        /\ k < i + 1 <=> k - 1 < i
        /\ k = i + 1 <=> k - 1 = i
    BY <1>4
  <2>2. dHeap'[u[k - 1]].data = IF k - 1 < i THEN dHeap[w[k - 1]].data
                               ELSE IF k - 1 = i THEN v ELSE dHeap[w[k - 1 - 1]].data
    BY <1>4, <2>1
  <2>3. CASE k - 1 < i
    <3>1. k \in 1 .. dLength
      BY <1>4, <2>3
    <3> QED BY <1>7, <2>1, <2>2, <2>3, <3>1
  <2>4. CASE k - 1 = i
    <3>1. ~(k - 1 < i)
      BY <2>4
    <3> QED BY <2>1, <2>2, <2>4, <3>1
  <2>5. CASE ~(k - 1 < i) /\ k - 1 # i
    <3>1. k - 1 \in 1 .. dLength
      BY <1>4, <2>5
    <3> QED BY <1>7, <2>1, <2>2, <2>5, <3>1
  <2> QED BY <2>3, <2>4, <2>5
<1>11. Items' = Grown(Items, i + 1, v)
  BY <1>4, <1>6, <1>7, <1>10 DEF Grown
<1> QED BY <1>7, <1>9, <1>11

LEMMA RemoveItems ==
    ASSUME HeapOK, Listed, NEW i \in 0 .. dLength, DList!Remove(i)
    PROVE  /\ Len(Items) = dLength /\ i \in 0 .. dLength - 1
           /\ Items' = DList!Abs!RemoveAt(Items, i + 1)
           /\ dOut' = DList!Answer("remove", 0, i, Items[i + 1])
<1>1. PICK w : Shape(w)
  BY DEF Listed
<1>2. i \in 0 .. dLength - 1 /\ Unthreaded(w, i) /\ dOut' = DList!Answer("remove", 0, i, dHeap[w[i]].data)
  BY <1>1, RemoveUnthreads
<1>3. PICK u : Cut(w, i, u)
  BY DEF Cut
<1>4. /\ Cells' /\ Shape(u)' /\ dLength \in Nat /\ dLength' = dLength - 1
      /\ \A j \in 0 .. dLength - 2 :
           dHeap'[u[j]].data = IF j < i THEN dHeap[w[j]].data ELSE dHeap[w[j + 1]].data
  BY <1>1, <1>2, <1>3, RemoveShape DEF Unthreaded, Listed, Cells
<1>5. Listed'
  BY <1>4 DEF Listed
<1>6. Items' = [k \in 1 .. dLength' |-> dHeap'[u[k - 1]].data]
  BY <1>4, <1>5, ItemsBecome DEF ItemsAsListed
<1>7. /\ Items \in Seq(Values) /\ Len(Items) = dLength
      /\ \A k \in 1 .. dLength : Items[k] = dHeap[w[k - 1]].data
  BY <1>1, ItemsOf
<1>8. i + 1 \in 1 .. Len(Items) /\ i + 1 - 1 = i
  BY <1>2, <1>4, <1>7
<1>9. DList!Abs!RemoveAt(Items, i + 1) = Shrunk(Items, i + 1)
  BY <1>7, <1>8, RemoveAtIs
<1>10. ASSUME NEW k \in 1 .. dLength - 1
       PROVE  dHeap'[u[k - 1]].data = IF k < i + 1 THEN Items[k] ELSE Items[k + 1]
  <2>1. /\ k - 1 \in 0 .. dLength - 2 /\ k \in 1 .. dLength /\ k + 1 \in 1 .. dLength
        /\ k + 1 - 1 = k /\ k - 1 + 1 = k
        /\ k < i + 1 <=> k - 1 < i
    BY <1>2, <1>4
  <2>2. dHeap'[u[k - 1]].data = IF k - 1 < i THEN dHeap[w[k - 1]].data ELSE dHeap[w[k]].data
    BY <1>4, <2>1
  <2> QED BY <1>7, <2>1, <2>2
<1>11. Items' = Shrunk(Items, i + 1)
  BY <1>4, <1>6, <1>7, <1>10 DEF Shrunk
<1>12. dOut' = DList!Answer("remove", 0, i, Items[i + 1])
  BY <1>2, <1>7, <1>8
<1> QED BY <1>2, <1>7, <1>9, <1>11, <1>12

LEMMA GetItems ==
    ASSUME Listed, NEW i \in 0 .. dLength, DList!Get(i)
    PROVE  /\ Len(Items) = dLength /\ i \in 0 .. dLength - 1
           /\ dOut' = DList!Answer("get", 0, i, Items[i + 1])
<1>1. PICK w : Shape(w)
  BY DEF Listed
<1>2. dLength \in Nat /\ i \in 0 .. dLength - 1 /\ Cells
  BY DEF DList!Get, Listed, Cells
<1>3. DList!Nearest(i) = w[i]
  <2>1. CASE i < dLength \div 2
    <3>1. DList!FromHead[i] = w[i]
      BY <1>1, WalkFromHead
    <3> QED BY <2>1, <3>1 DEF DList!Nearest
  <2>2. CASE ~(i < dLength \div 2)
    <3>1. dLength - 1 - i \in 0 .. dLength /\ dLength - (dLength - 1 - i) = i + 1
      BY <1>2
    <3>2. DList!FromTail[dLength - 1 - i] = Before(w, i + 1)
      BY <1>1, <3>1, WalkFromTail
    <3>3. Before(w, i + 1) = w[i]
      BY <1>2 DEF Before
    <3> QED BY <2>2, <3>2, <3>3 DEF DList!Nearest
  <2> QED BY <2>1, <2>2
<1>4. i + 1 \in 1 .. dLength /\ i + 1 - 1 = i
  BY <1>2
<1>5. Items[i + 1] = dHeap[w[i]].data /\ Len(Items) = dLength
  BY <1>1, <1>4, ItemsOf
<1> QED BY <1>2, <1>3, <1>5 DEF DList!Get, DList!Succeed

LEMMA RefineStep == HeapOK /\ Listed /\ [DList!Next]_(DList!vars) => [DList!Abs!Next]_(DList!Abs!vars)
<1> SUFFICES ASSUME HeapOK, Listed, [DList!Next]_(DList!vars) PROVE [DList!Abs!Next]_(DList!Abs!vars)
  OBVIOUS
<1>0. dLength \in Nat /\ Len(Items) = dLength
  BY ItemsOf DEF Listed, Cells
<1>1. ASSUME NEW n \in Node, NEW i \in 0 .. dLength, NEW v \in Values, DList!Insert(n, i, v)
      PROVE  DList!Abs!Next
  <2>1. i \in 0 .. Len(Items) /\ i <= Len(Items)
    BY <1>0
  <2>2. dOut' = DList!Answer("insert", 0, i, None)
    BY <1>1 DEF DList!Insert, DList!Succeed
  <2>3. Items' = DList!Abs!InsertAt(Items, i + 1, v)
    BY <1>1, InsertItems
  <2>4. DList!Abs!InsertItem(i, v)
    BY <2>1, <2>2, <2>3 DEF DList!Abs!InsertItem, DList!Abs!Answer, DList!Answer, Items
  <2> QED BY <2>1, <2>4 DEF DList!Abs!Next, Items
<1>2. ASSUME NEW i \in 0 .. dLength, DList!Remove(i) PROVE DList!Abs!Next
  <2>1. i \in 0 .. Len(Items) - 1
    BY <1>2, RemoveItems
  <2>2. DList!Abs!RemoveItem(i)
    BY <1>2, RemoveItems DEF DList!Abs!RemoveItem, DList!Abs!Answer, DList!Answer, Items
  <2> QED BY <2>1, <2>2 DEF DList!Abs!Next, Items
<1>3. ASSUME UNCHANGED <<dHeap, dHead, dLength>> PROVE Items' = Items
  BY <1>3 DEF Items, DList!FromHead
<1>4. ASSUME NEW i \in 0 .. dLength, DList!Get(i) PROVE DList!Abs!Next
  <2>1. i \in 0 .. Len(Items) - 1 /\ dOut' = DList!Answer("get", 0, i, Items[i + 1])
    BY <1>4, GetItems
  <2>2. Items' = Items
    BY <1>3, <1>4 DEF DList!Get
  <2>3. DList!Abs!GetItem(i)
    BY <2>1, <2>2 DEF DList!Abs!GetItem, DList!Abs!Answer, DList!Answer, Items
  <2> QED BY <2>1, <2>3 DEF DList!Abs!Next, Items
<1>5. ASSUME NEW i \in 0 .. dLength + 1, NEW op \in {"insert", "remove", "get"}, DList!Fail(op, i)
      PROVE  DList!Abs!Next
  <2>1. i \in 0 .. Len(Items) + 1 /\ Items' = Items
    BY <1>0, <1>3, <1>5 DEF DList!Fail
  <2>2. DList!Abs!Fail(op, i)
    BY <1>0, <1>5, <2>1 DEF DList!Fail, DList!Abs!Fail, DList!Abs!Answer, DList!Answer, Items
  <2> QED BY <2>1, <2>2 DEF DList!Abs!Next, Items
<1>6. CASE DList!Clear
  <2>1. Items' = <<>>
    BY <1>6 DEF DList!Clear, Items
  <2>2. DList!Abs!Clear
    BY <1>6, <2>1 DEF DList!Clear, DList!Succeed, DList!Abs!Clear, DList!Abs!Answer, DList!Answer, Items
  <2> QED BY <2>2 DEF DList!Abs!Next
<1>7. CASE UNCHANGED DList!vars
  <2>1. Items' = Items /\ dOut' = dOut
    BY <1>3, <1>7 DEF DList!vars
  <2> QED BY <2>1 DEF DList!Abs!vars, Items
<1> QED BY <1>1, <1>2, <1>4, <1>5, <1>6, <1>7 DEF DList!Next

\* The list is a sequence: every dll_insert_at, dll_remove_at, dll_get_at and dll_clear
\* does to the positions, and answers, what that operation does on a sequence, whatever
\* branch it takes and from whichever end it walks; one that fails changes nothing.
THEOREM ListIsASequence == ASSUME HeapOK PROVE DList!Spec => ImplementsList
<1>1. DList!Init => DList!Abs!Init
  <2> SUFFICES ASSUME DList!Init PROVE DList!Abs!Init
    OBVIOUS
  <2>1. Items = <<>>
    BY DEF DList!Init, Items
  <2> QED BY <2>1 DEF DList!Init, DList!Abs!Init, DList!Abs!Answer, DList!Answer, Items
<1>2. Listed /\ [DList!Next]_(DList!vars) => [DList!Abs!Next]_(DList!Abs!vars)
  BY RefineStep
<1>3. DList!Spec => []Listed
  BY AlwaysListed
<1> QED BY <1>1, <1>2, <1>3, PTL DEF DList!Spec, ImplementsList, DList!ImplementsList, DList!Abs!Spec

-----------------------------------------------------------------------------
(* A program that uses one container behaves, for that container, as its   *)
(* own specification says.                                                 *)

LEMMA ListInUse == UseSpec => DList!Spec
<1>1. UseInit => DList!Init
  BY DEF UseInit
<1>2. [UseNext]_<<using, vars, dVars, sVars, hVars, tVars, kVars>> => [DList!Next]_(DList!vars)
  BY DEF UseNext, Rest, dVars, DList!vars
<1> QED BY <1>1, <1>2, PTL DEF UseSpec, DList!Spec

\* The list of a program that uses it keeps its promise.
THEOREM ListKeepsItsPromise ==
    ASSUME HeapOK
    PROVE  UseSpec => []PointersOK /\ []WalksAgree /\ []NothingLeaks /\ ImplementsList
  BY ListInUse, PointersStayOK, BothWaysAgree, EveryNodeOwned, ListIsASequence, PTL

=============================================================================
