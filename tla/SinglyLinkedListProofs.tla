----------------------- MODULE SinglyLinkedListProofs -----------------------
(***************************************************************************)
(* Theorems about SinglyLinkedList as MCContainers instantiates it,         *)
(* for any heap, values and calls.                                          *)
(***************************************************************************)
EXTENDS MCContainers, FiniteSetTheorems, SequenceTheorems, TLAPS

-----------------------------------------------------------------------------
(* The walk is what its definition says. *)

LEMMA LeastIndex ==
    ASSUME NEW T \in SUBSET Nat, T # {}
    PROVE  \E n \in T : \A k \in T : n <= k
<1> DEFINE R == {p \in Nat \X Nat : p[1] < p[2]}
<1>1. IsWellFoundedOn(R, Nat)
  BY NatLessThanWellFounded DEF OpToRel
<1> HIDE DEF R
<1>2. PICK n \in T : \A k \in T : <<k, n>> \notin R
  BY <1>1, WFMin
<1>3. \A k \in T : ~(k < n)
  BY <1>2 DEF R
<1> QED BY <1>3

\* The first n steps of the walk from a along next in heap h.
Nexts(h, a, n, g) == g = [i \in 0 .. n |-> IF i = 0 THEN a ELSE h[g[i - 1]].next]
NextWalk(h, a, f) == f = [i \in Nat |-> IF i = 0 THEN a ELSE h[f[i - 1]].next]

LEMMA NextsAt ==
    ASSUME NEW h, NEW a, NEW n, NEW g, n \in Nat, Nexts(h, a, n, g)
    PROVE  g[0] = a /\ \A i \in 1 .. n : g[i] = h[g[i - 1]].next
  BY DEF Nexts

LEMMA NextsExist ==
    ASSUME NEW h, NEW a, NEW n \in Nat
    PROVE  \E g : Nexts(h, a, n, g)
<1> DEFINE T == {i \in Nat : ~\E g : Nexts(h, a, i, g)}
<1> SUFFICES ASSUME T # {} PROVE FALSE
  OBVIOUS
<1>1. PICK m \in T : \A k \in T : m <= k
  <2> HIDE DEF T
  <2> QED BY LeastIndex DEF T
<1>2. CASE m = 0
  <2>1. Nexts(h, a, 0, [i \in 0 .. 0 |-> a])
    BY DEF Nexts
  <2> QED BY <1>1, <1>2, <2>1
<1>3. CASE m # 0
  <2>1. m \in Nat /\ m - 1 \in Nat /\ m - 1 \notin T
    BY <1>1, <1>3
  <2>2. PICK g : Nexts(h, a, m - 1, g)
    BY <2>1
  <2> DEFINE k == [i \in 0 .. m |-> IF i = m THEN h[g[m - 1]].next ELSE g[i]]
  <2>3. ASSUME NEW i \in 0 .. m
        PROVE  k[i] = IF i = 0 THEN a ELSE h[k[i - 1]].next
    <3>1. g[0] = a /\ \A j \in 1 .. m - 1 : g[j] = h[g[j - 1]].next
      BY <2>1, <2>2, NextsAt
    <3>2. CASE i = 0
      BY <1>3, <3>1, <3>2
    <3>3. CASE i = m
      BY <1>3, <2>1, <3>3
    <3>4. CASE i \in 1 .. m - 1
      <4>1. i - 1 \in 0 .. m /\ i - 1 # m /\ i # m /\ i # 0
        BY <2>1, <3>4
      <4>2. k[i] = g[i] /\ k[i - 1] = g[i - 1]
        BY <4>1
      <4> HIDE DEF k
      <4> QED BY <3>1, <3>4, <4>1, <4>2
    <3> QED BY <2>1, <3>2, <3>3, <3>4
  <2>4. k = [i \in 0 .. m |-> k[i]]
    OBVIOUS
  <2> HIDE DEF k
  <2>5. Nexts(h, a, m, k)
    BY <2>3, <2>4 DEF Nexts
  <2> QED BY <1>1, <2>5
<1> QED BY <1>2, <1>3

LEMMA NextsAgree ==
    ASSUME NEW h, NEW a, NEW m, NEW n, NEW g, NEW k, m \in Nat, n \in Nat, m <= n,
           Nexts(h, a, m, g), Nexts(h, a, n, k)
    PROVE  g[m] = k[m]
<1>0. g[0] = a /\ k[0] = a
  BY DEF Nexts
<1> DEFINE T == {i \in Nat : i <= m /\ g[i] # k[i]}
<1> SUFFICES ASSUME T # {} PROVE FALSE
  OBVIOUS
<1>1. PICK i \in T : \A j \in T : i <= j
  <2> HIDE DEF T
  <2> QED BY LeastIndex DEF T
<1>2. CASE i = 0
  BY <1>0, <1>1, <1>2
<1>3. CASE i # 0
  <2>1. i \in 1 .. m /\ i \in 1 .. n /\ i - 1 \in Nat /\ i - 1 \notin T
    BY <1>1, <1>3
  <2>2. g[i - 1] = k[i - 1]
    BY <2>1
  <2>3. g[i] = h[g[i - 1]].next /\ k[i] = h[k[i - 1]].next
    BY <2>1, NextsAt
  <2> QED BY <1>1, <2>2, <2>3
<1> QED BY <1>2, <1>3

LEMMA NextWalkExists ==
    ASSUME NEW h, NEW a
    PROVE  \E f : NextWalk(h, a, f)
<1> DEFINE G(n) == CHOOSE g : Nexts(h, a, n, g)
           f == [n \in Nat |-> G(n)[n]]
<1>1. \A n \in Nat : Nexts(h, a, n, G(n))
  BY NextsExist
<1> HIDE DEF G
<1>2. f[0] = a
  BY <1>1, NextsAt
<1>3. ASSUME NEW i \in Nat, i # 0 PROVE f[i] = h[f[i - 1]].next
  <2>1. i - 1 \in Nat /\ i - 1 <= i /\ i \in 1 .. i
    BY <1>3
  <2>2. G(i)[i] = h[G(i)[i - 1]].next
    BY <1>1, <2>1, NextsAt
  <2>3. G(i - 1)[i - 1] = G(i)[i - 1]
    BY <1>1, <2>1, NextsAgree
  <2> QED BY <2>1, <2>2, <2>3
<1>4. f = [i \in Nat |-> f[i]]
  OBVIOUS
<1> HIDE DEF f
<1>5. NextWalk(h, a, f)
  BY <1>2, <1>3, <1>4 DEF NextWalk
<1> QED BY <1>5

LEMMA WalkAt ==
    SList!At[0] = sHead /\ \A i \in Nat \ {0} : SList!At[i] = sHeap[SList!At[i - 1]].next
<1>1. SList!At = CHOOSE f : NextWalk(sHeap, sHead, f)
  BY DEF SList!At, NextWalk
<1>2. NextWalk(sHeap, sHead, SList!At)
  BY <1>1, NextWalkExists, Zenon
<1> QED BY <1>2 DEF NextWalk

-----------------------------------------------------------------------------
(* The shape of a list. *)

Cell == [data : Values, next : Node \cup {NULL}]

\* The constants are what they stand for: a heap has finitely many addresses, the null
\* pointer is none of them, and a free cell is no node.
HeapOK == IsFiniteSet(Node) /\ NULL \notin Node /\ Freed \notin Cell

\* w[0] .. w[length - 1] are the nodes of the list in their order, and there are no other
\* nodes.
Shape(w) ==
    /\ \A i \in 0 .. sLength - 1 : w[i] \in Node
    /\ w[sLength] = NULL
    /\ \A i, j \in 0 .. sLength - 1 : w[i] = w[j] => i = j
    /\ sHead = w[0]
    /\ \A i \in 0 .. sLength - 1 : sHeap[w[i]].next = w[i + 1]
    /\ \A n \in Node : sHeap[n] # Freed <=> \E i \in 0 .. sLength - 1 : w[i] = n

Cells == sHeap \in [Node -> Cell \cup {Freed}] /\ sLength \in Nat

Listed == Cells /\ \E w : Shape(w)

LEMMA SameCount == \A T : SList!Cardinality(T) = Cardinality(T)
  BY DEF Cardinality, SList!Cardinality

LEMMA CellsOf ==
    ASSUME Cells, NEW n \in Node, sHeap[n] # Freed
    PROVE  sHeap[n] \in Cell /\ sHeap[n].data \in Values /\ sHeap[n].next \in Node \cup {NULL}
  BY DEF Cells, Cell

\* The walk of the code meets the nodes in that order.
LEMMA WalkFromHead ==
    ASSUME Listed, NEW w, Shape(w)
    PROVE  \A i \in 0 .. sLength : SList!At[i] = w[i]
<1> DEFINE T == {i \in Nat : i <= sLength /\ SList!At[i] # w[i]}
<1> SUFFICES ASSUME T # {} PROVE FALSE
  BY DEF Listed, Cells
<1>1. PICK i \in T : \A j \in T : i <= j
  <2> HIDE DEF T
  <2> QED BY LeastIndex DEF T
<1>2. CASE i = 0
  BY <1>1, <1>2, WalkAt DEF Shape
<1>3. CASE i # 0
  <2>1. i \in Nat \ {0} /\ i - 1 \in 0 .. sLength - 1 /\ i - 1 \notin T /\ i - 1 <= sLength
    BY <1>1, <1>3 DEF Listed, Cells
  <2>2. SList!At[i - 1] = w[i - 1]
    BY <2>1
  <2>3. SList!At[i] = sHeap[w[i - 1]].next
    BY <2>1, <2>2, WalkAt
  <2>4. sHeap[w[i - 1]].next = w[i - 1 + 1]
    BY <2>1 DEF Shape
  <2> QED BY <1>1, <2>1, <2>3, <2>4
<1> QED BY <1>2, <1>3

-----------------------------------------------------------------------------
(* What the shape means for the property. *)

LEMMA Counted ==
    ASSUME HeapOK, Listed, NEW w, Shape(w)
    PROVE  /\ {w[i] : i \in 0 .. sLength - 1} = Node \ SList!FreeNodes
           /\ Cardinality(Node \ SList!FreeNodes) = sLength /\ sLength <= Cardinality(Node)
<1> DEFINE S == 0 .. sLength - 1
           T == Node \ SList!FreeNodes
           f == [i \in S |-> w[i]]
<1>1. {w[i] : i \in 0 .. sLength - 1} = T
  BY DEF Shape, SList!FreeNodes
<1>2. f \in Surjection(S, T) /\ f \in Injection(S, T)
  <2>1. f \in [S -> T] /\ \A n \in T : \E i \in S : f[i] = n
    BY <1>1
  <2>2. \A i, j \in S : f[i] = f[j] => i = j
    BY DEF Shape
  <2> QED BY <2>1, <2>2 DEF Surjection, Injection, IsInjective
<1>3. IsFiniteSet(S) /\ Cardinality(S) = sLength
  <2>1. sLength \in Nat /\ 0 \in Int /\ sLength - 1 \in Int
    BY DEF Listed, Cells
  <2>2. IsFiniteSet(S) /\ Cardinality(S) = IF 0 > sLength - 1 THEN 0 ELSE sLength - 1 - 0 + 1
    BY <2>1, FS_Interval
  <2> QED BY <2>1, <2>2
<1> HIDE DEF f, S
<1>4. Cardinality(T) = sLength
  BY <1>2, <1>3, FS_Surjection
<1>5. Cardinality(T) <= Cardinality(Node)
  BY FS_Subset DEF HeapOK
<1> QED BY <1>1, <1>4, <1>5

LEMMA ListedOwns == HeapOK /\ Listed => SList!ChainOwnsHeap
<1> SUFFICES ASSUME HeapOK, Listed, NEW w, Shape(w) PROVE SList!ChainOwnsHeap
  BY DEF Listed
<1>1. \A i \in 0 .. sLength : SList!At[i] = w[i]
  BY WalkFromHead
<1>2. sLength \in 0 .. sLength /\ \A i \in 0 .. sLength - 1 : i \in 0 .. sLength
  BY DEF Listed, Cells
<1>3. {SList!At[i] : i \in 0 .. sLength - 1} = {w[i] : i \in 0 .. sLength - 1}
  BY <1>1, <1>2
<1>4. SList!At[sLength] = NULL
  BY <1>1, <1>2 DEF Shape
<1> QED BY <1>3, <1>4, Counted, SameCount DEF SList!ChainOwnsHeap

-----------------------------------------------------------------------------
(* An insertion threads the new node in. *)

Spliced(w, i, n, u) ==
    u = [j \in 0 .. sLength + 1 |-> IF j < i THEN w[j] ELSE IF j = i THEN n ELSE w[j - 1]]

Threaded(w, i, n, v) ==
    /\ sHeap' \in [Node -> Cell \cup {Freed}]
    /\ sHeap'[n] = [data |-> v, next |-> w[i]]
    /\ \A m \in Node \ {n} : sHeap[m] = Freed => sHeap'[m] = Freed
    /\ \A j \in 0 .. sLength - 1 :
         sHeap'[w[j]] = [data |-> sHeap[w[j]].data, next |-> IF j + 1 = i THEN n ELSE w[j + 1]]
    /\ sHead' = IF i = 0 THEN n ELSE sHead
    /\ sLength' = sLength + 1

\* The cells of the list's nodes are records of two fields.
LEMMA ListCells ==
    ASSUME Cells, NEW w, Shape(w), NEW j \in 0 .. sLength - 1
    PROVE  /\ w[j] \in Node /\ sHeap[w[j]] # Freed /\ sHeap[w[j]].data \in Values
           /\ sHeap[w[j]] = [data |-> sHeap[w[j]].data, next |-> w[j + 1]]
           /\ w[j + 1] \in Node \cup {NULL}
<1>1. w[j] \in Node /\ sHeap[w[j]] # Freed
  BY DEF Shape
<1>2. sHeap[w[j]] \in Cell
  BY <1>1, CellsOf
<1>3. sHeap[w[j]].next = w[j + 1]
  BY DEF Shape
<1> QED BY <1>1, <1>2, <1>3 DEF Cell

LEMMA InsertThreads ==
    ASSUME Listed, NEW w, Shape(w), NEW n \in Node, NEW i \in 0 .. sLength, NEW v \in Values,
           SList!Insert(n, i, v)
    PROVE  sHeap[n] = Freed /\ Threaded(w, i, n, v)
<1> DEFINE l == i - 1
<1>1. /\ sLength \in Nat /\ Cells /\ sHeap[n] = Freed /\ sLength' = sLength + 1
      /\ sHeap = [m \in Node |-> sHeap[m]]
      /\ sHead' = IF i = 0 THEN n ELSE sHead
      /\ sHeap' = SList!Linked(n, i, v) /\ sHead = w[0]
  BY DEF SList!Insert, SList!FreeNodes, Listed, Cells, Shape
<1>2. CASE i = 0
  <2>1. sHeap' = [sHeap EXCEPT ![n] = [data |-> v, next |-> w[i]]]
    BY <1>1, <1>2 DEF SList!Linked
  <2>2. w[i] \in Node \cup {NULL}
    BY <1>1, <1>2 DEF Shape
  <2>3. sHeap'[n] = [data |-> v, next |-> w[i]] /\ \A m \in Node \ {n} : sHeap'[m] = sHeap[m]
    BY <1>1, <2>1
  <2>4. sHeap' \in [Node -> Cell \cup {Freed}]
    BY <1>1, <2>1, <2>2 DEF Cells, Cell
  <2>5. ASSUME NEW j \in 0 .. sLength - 1
        PROVE  sHeap'[w[j]] = [data |-> sHeap[w[j]].data, next |-> IF j + 1 = i THEN n ELSE w[j + 1]]
    <3>1. w[j] \in Node \ {n}
      BY <1>1, ListCells
    <3>2. j + 1 # i
      BY <1>1, <1>2
    <3>3. sHeap'[w[j]] = sHeap[w[j]]
      BY <2>3, <3>1
    <3> QED BY <1>1, <3>2, <3>3, ListCells
  <2> QED BY <1>1, <2>3, <2>4, <2>5 DEF Threaded
<1>3. CASE i # 0
  <2>1. l \in 0 .. sLength - 1 /\ l \in 0 .. sLength /\ l + 1 = i
    BY <1>1, <1>3
  <2>2. sHeap' = [sHeap EXCEPT ![n] = [data |-> v, next |-> sHeap[SList!At[l]].next], ![SList!At[l]].next = n]
    BY <1>1, <1>3 DEF SList!Linked
  <2> HIDE DEF l
  <2>3. /\ SList!At[l] = w[l] /\ w[l] \in Node /\ w[l] # n /\ sHeap[w[l]] # Freed /\ sHeap[w[l]].data \in Values
        /\ sHeap[w[l]] = [data |-> sHeap[w[l]].data, next |-> w[i]] /\ w[i] \in Node \cup {NULL}
    BY <1>1, <2>1, ListCells, WalkFromHead
  <2>4. sHeap' = [sHeap EXCEPT ![n] = [data |-> v, next |-> w[i]], ![w[l]].next = n]
    <3>1. sHeap[w[l]].next = w[i]
      BY <2>3
    <3> QED BY <2>2, <2>3, <3>1
  <2>5. sHeap'[w[l]] = [sHeap[w[l]] EXCEPT !.next = n]
    BY <1>1, <2>3, <2>4
  <2>6. sHeap'[w[l]] = [data |-> sHeap[w[l]].data, next |-> n]
    BY <2>3, <2>5
  <2>7. /\ sHeap'[n] = [data |-> v, next |-> w[i]] /\ \A m \in Node \ {n, w[l]} : sHeap'[m] = sHeap[m]
        /\ sHeap' = [m \in Node |-> sHeap'[m]]
    BY <1>1, <2>3, <2>4
  <2>8. sHeap' \in [Node -> Cell \cup {Freed}]
    <3>1. ASSUME NEW m \in Node PROVE sHeap'[m] \in Cell \cup {Freed}
      <4>1. sHeap[m] \in Cell \cup {Freed}
        BY <1>1 DEF Cells
      <4> QED BY <2>3, <2>6, <2>7, <4>1 DEF Cell
    <3> QED BY <2>7, <3>1
  <2>9. \A m \in Node \ {n} : sHeap[m] = Freed => sHeap'[m] = Freed
    BY <2>3, <2>7
  <2>10. ASSUME NEW j \in 0 .. sLength - 1
         PROVE  sHeap'[w[j]] = [data |-> sHeap[w[j]].data, next |-> IF j + 1 = i THEN n ELSE w[j + 1]]
    <3>1. CASE j = l
      BY <2>1, <2>6, <3>1
    <3>2. CASE j # l
      <4>1. w[j] \in Node /\ w[j] # n /\ w[j] # w[l] /\ j + 1 # i
        BY <1>1, <2>1, <3>2, ListCells DEF Shape
      <4>2. sHeap'[w[j]] = sHeap[w[j]]
        BY <2>7, <4>1
      <4> QED BY <1>1, <4>1, <4>2, ListCells
    <3> QED BY <3>1, <3>2
  <2> QED BY <1>1, <2>7, <2>8, <2>9, <2>10 DEF Threaded
<1> QED BY <1>1, <1>2, <1>3

LEMMA SplicedAt ==
    ASSUME NEW w, NEW i, NEW n, NEW u, sLength \in Nat, i \in 0 .. sLength, Spliced(w, i, n, u)
    PROVE  \A j \in 0 .. sLength + 1 : /\ j < i => u[j] = w[j]
                                       /\ j = i => u[j] = n
                                       /\ j > i => u[j] = w[j - 1]
<1>1. \A j \in 0 .. sLength + 1 : u[j] = IF j < i THEN w[j] ELSE IF j = i THEN n ELSE w[j - 1]
  BY DEF Spliced
<1> QED BY <1>1

LEMMA InsertShape ==
    ASSUME HeapOK, Listed, NEW w, Shape(w), NEW n \in Node, NEW i \in 0 .. sLength, NEW v \in Values,
           sHeap[n] = Freed, Threaded(w, i, n, v), NEW u, Spliced(w, i, n, u)
    PROVE  /\ Cells' /\ Shape(u)'
           /\ \A j \in 0 .. sLength :
                sHeap'[u[j]].data = IF j < i THEN sHeap[w[j]].data
                                   ELSE IF j = i THEN v ELSE sHeap[w[j - 1]].data
<1>1. /\ sLength \in Nat /\ Cells /\ sLength' = sLength + 1
      /\ sHeap' \in [Node -> Cell \cup {Freed}]
  BY DEF Listed, Cells, Threaded
<1>2. Cells'
  BY <1>1 DEF Cells
<1>3. sLength' - 1 = sLength /\ sLength' \in Nat
  BY <1>1
<1>4. \A j \in 0 .. sLength - 1 : w[j] \in Node /\ w[j] # n
  BY <1>1, ListCells
<1>5. \A j \in 0 .. sLength : u[j] \in Node
  <2>1. ASSUME NEW j \in 0 .. sLength PROVE u[j] \in Node
    <3>1. CASE j < i
      BY <1>1, <1>4, <3>1, SplicedAt
    <3>2. CASE j = i
      BY <1>1, <3>2, SplicedAt
    <3>3. CASE j > i
      <4>1. j - 1 \in 0 .. sLength - 1
        BY <1>1, <3>3
      <4> QED BY <1>1, <1>4, <3>3, <4>1, SplicedAt
    <3> QED BY <3>1, <3>2, <3>3
  <2> QED BY <2>1
<1>6. u[sLength + 1] = NULL
  <2>1. u[sLength + 1] = w[sLength + 1 - 1] /\ sLength + 1 - 1 = sLength
    <3>1. sLength + 1 \in 0 .. sLength + 1 /\ sLength + 1 > i
      BY <1>1
    <3> QED BY <1>1, <3>1, SplicedAt
  <2> QED BY <2>1 DEF Shape
<1>7. ASSUME NEW j \in 0 .. sLength, NEW k \in 0 .. sLength, u[j] = u[k]
      PROVE  j = k
  <2>1. \A a, b \in 0 .. sLength - 1 : w[a] = w[b] => a = b
    BY DEF Shape
  <2>2. \A a \in 0 .. sLength : /\ a < i => u[a] = w[a] /\ a \in 0 .. sLength - 1
                                /\ a = i => u[a] = n
                                /\ a > i => u[a] = w[a - 1] /\ a - 1 \in 0 .. sLength - 1
    BY <1>1, SplicedAt
  <2>3. CASE j < i
    BY <1>1, <1>4, <1>7, <2>1, <2>2, <2>3
  <2>4. CASE j = i
    BY <1>1, <1>4, <1>7, <2>1, <2>2, <2>4
  <2>5. CASE j > i
    BY <1>1, <1>4, <1>7, <2>1, <2>2, <2>5
  <2> QED BY <2>3, <2>4, <2>5
<1>8. sHead' = u[0]
  <2>1. sHead' = (IF i = 0 THEN n ELSE sHead) /\ sHead = w[0]
    BY DEF Threaded, Shape
  <2>2. 0 \in 0 .. sLength + 1
    BY <1>1
  <2> QED BY <1>1, <2>1, <2>2, SplicedAt
<1>9. ASSUME NEW j \in 0 .. sLength
      PROVE  /\ sHeap'[u[j]] \in Cell /\ sHeap'[u[j]].next = u[j + 1]
             /\ sHeap'[u[j]].data = IF j < i THEN sHeap[w[j]].data ELSE IF j = i THEN v ELSE sHeap[w[j - 1]].data
  <2>0. j \in 0 .. sLength + 1 /\ j + 1 \in 0 .. sLength + 1
    BY <1>1
  <2>1. CASE j < i
    <3>1. j \in 0 .. sLength - 1 /\ j + 1 \in 0 .. sLength
      BY <1>1, <2>1
    <3>2. sHeap'[w[j]] = [data |-> sHeap[w[j]].data, next |-> IF j + 1 = i THEN n ELSE w[j + 1]]
      BY <3>1 DEF Threaded
    <3>3. u[j] = w[j]
      BY <1>1, <2>0, <2>1, SplicedAt
    <3>4. u[j + 1] = IF j + 1 = i THEN n ELSE w[j + 1]
      BY <1>1, <2>0, <2>1, SplicedAt
    <3>5. sHeap[w[j]].data \in Values
      BY <1>1, <3>1, ListCells
    <3>6. u[j + 1] \in Node
      BY <1>5, <3>1
    <3> QED BY <2>1, <3>2, <3>3, <3>4, <3>5, <3>6 DEF Cell
  <2>2. CASE j = i
    <3>1. sHeap'[n] = [data |-> v, next |-> w[i]]
      BY DEF Threaded
    <3>2. u[j] = n /\ u[j + 1] = w[i]
      <4>1. j + 1 > i /\ j + 1 - 1 = i
        BY <2>2
      <4> QED BY <1>1, <2>0, <2>2, <4>1, SplicedAt
    <3>3. w[i] \in Node \cup {NULL}
      BY <1>1 DEF Shape
    <3> QED BY <2>2, <3>1, <3>2, <3>3 DEF Cell
  <2>3. CASE j > i
    <3> DEFINE k == j - 1
    <3>1. k \in 0 .. sLength - 1 /\ k + 1 = j /\ j + 1 - 1 = j /\ k + 1 # i
      BY <1>1, <2>3
    <3>2. u[j] = w[k]
      BY <1>1, <2>0, <2>3, SplicedAt
    <3>3. u[j + 1] = w[j]
      BY <1>1, <2>0, <2>3, <3>1, SplicedAt
    <3>4. sHeap[w[j - 1]].data = sHeap[w[k]].data
      OBVIOUS
    <3> HIDE DEF k
    <3>5. sHeap'[w[k]] = [data |-> sHeap[w[k]].data, next |-> IF k + 1 = i THEN n ELSE w[k + 1]]
      BY <3>1 DEF Threaded
    <3>6. w[j] \in Node \cup {NULL} /\ sHeap[w[k]].data \in Values
      BY <1>1, <3>1, ListCells
    <3>7. sHeap'[u[j]] = [data |-> sHeap[w[k]].data, next |-> u[j + 1]]
      BY <3>1, <3>2, <3>3, <3>5
    <3> QED BY <2>3, <3>3, <3>4, <3>6, <3>7 DEF Cell
  <2> QED BY <2>1, <2>2, <2>3
<1>10. ASSUME NEW m \in Node
       PROVE  sHeap'[m] # Freed <=> \E j \in 0 .. sLength : u[j] = m
  <2>1. CASE m = n
    <3>1. u[i] = n /\ i \in 0 .. sLength
      BY <1>1, SplicedAt
    <3> QED BY <1>9, <2>1, <3>1 DEF HeapOK
  <2>2. CASE m # n /\ sHeap[m] = Freed
    <3>1. sHeap'[m] = Freed
      BY <2>2 DEF Threaded
    <3> QED BY <1>9, <3>1 DEF HeapOK
  <2>3. CASE sHeap[m] # Freed
    <3>1. PICK k \in 0 .. sLength - 1 : w[k] = m
      BY <2>3 DEF Shape
    <3>2. \E j \in 0 .. sLength : u[j] = m
      <4>1. CASE k < i
        BY <1>1, <3>1, <4>1, SplicedAt
      <4>2. CASE k >= i
        <5>1. k + 1 \in 0 .. sLength /\ k + 1 > i /\ k + 1 - 1 = k
          BY <1>1, <4>2
        <5>2. u[k + 1] = w[k]
          BY <1>1, <5>1, SplicedAt
        <5> QED BY <3>1, <5>1, <5>2
      <4> QED BY <1>1, <4>1, <4>2
    <3>3. sHeap'[m] # Freed
      BY <1>9, <3>2 DEF HeapOK
    <3> QED BY <3>2, <3>3
  <2> QED BY <2>1, <2>2, <2>3
<1>11. u[sLength'] = NULL /\ sHead' = u[0]
  BY <1>1, <1>6, <1>8
<1> HIDE DEF Spliced, Threaded
<1>12. Shape(u)'
  BY <1>3, <1>5, <1>7, <1>9, <1>10, <1>11 DEF Shape
<1> QED BY <1>2, <1>9, <1>12

LEMMA InsertListed ==
    ASSUME HeapOK, Listed, NEW n \in Node, NEW i \in 0 .. sLength, NEW v \in Values, SList!Insert(n, i, v)
    PROVE  Listed'
<1>1. PICK w : Shape(w)
  BY DEF Listed
<1>2. sHeap[n] = Freed /\ Threaded(w, i, n, v)
  BY <1>1, InsertThreads
<1>3. PICK u : Spliced(w, i, n, u)
  BY DEF Spliced
<1>4. Cells' /\ Shape(u)'
  BY <1>1, <1>2, <1>3, InsertShape
<1> QED BY <1>4 DEF Listed

-----------------------------------------------------------------------------
(* A removal unthreads the node at its index. *)

Cut(w, i, u) == u = [j \in 0 .. sLength - 1 |-> IF j < i THEN w[j] ELSE w[j + 1]]

Unthreaded(w, i) ==
    /\ sHeap' \in [Node -> Cell \cup {Freed}]
    /\ sHeap'[w[i]] = Freed
    /\ \A m \in Node : sHeap[m] = Freed => sHeap'[m] = Freed
    /\ \A j \in 0 .. sLength - 1 :
         j # i => sHeap'[w[j]] = [data |-> sHeap[w[j]].data,
                                 next |-> IF j + 1 = i THEN w[i + 1] ELSE w[j + 1]]
    /\ sHead' = IF i = 0 THEN w[1] ELSE sHead
    /\ sLength' = sLength - 1

LEMMA RemoveUnthreads ==
    ASSUME HeapOK, Listed, NEW w, Shape(w), NEW i \in 0 .. sLength, SList!Remove(i)
    PROVE  i \in 0 .. sLength - 1 /\ Unthreaded(w, i) /\ sOut' = SList!Answer("remove", 0, i, sHeap[w[i]].data)
<1> DEFINE l == i - 1
<1>1. /\ sLength \in Nat /\ Cells /\ i \in 0 .. sLength - 1 /\ sLength' = sLength - 1
      /\ sHeap = [m \in Node |-> sHeap[m]] /\ sHeap' = SList!Unlinked(i) /\ sHead = w[0]
      /\ sHead' = IF i = 0 THEN sHeap[sHead].next ELSE sHead
      /\ sOut' = SList!Answer("remove", 0, i, sHeap[SList!At[i]].data)
  BY DEF SList!Remove, Listed, Cells, Shape
<1>2. SList!At[i] = w[i]
  BY WalkFromHead
<1>3. /\ w[i] \in Node /\ sHeap[w[i]] # Freed
      /\ sHeap[w[i]] = [data |-> sHeap[w[i]].data, next |-> w[i + 1]]
      /\ w[i + 1] \in Node \cup {NULL}
  BY <1>1, ListCells
<1>4. sHead' = IF i = 0 THEN w[1] ELSE sHead
  <2>1. CASE i = 0
    <3>1. 0 + 1 = 1 /\ sHeap[sHead].next = w[0 + 1]
      BY <1>1, <1>3, <2>1
    <3> QED BY <1>1, <2>1, <3>1
  <2> QED BY <1>1, <2>1
<1>5. CASE i = 0
  <2>1. sHeap' = [sHeap EXCEPT ![w[i]] = Freed]
    BY <1>1, <1>5 DEF SList!Unlinked
  <2>2. sHeap'[w[i]] = Freed /\ \A m \in Node \ {w[i]} : sHeap'[m] = sHeap[m]
    BY <1>1, <1>3, <2>1
  <2>3. sHeap' \in [Node -> Cell \cup {Freed}]
    BY <1>1, <2>1 DEF Cells
  <2>4. ASSUME NEW j \in 0 .. sLength - 1, j # i
        PROVE  sHeap'[w[j]] = [data |-> sHeap[w[j]].data,
                              next |-> IF j + 1 = i THEN w[i + 1] ELSE w[j + 1]]
    <3>1. w[j] \in Node /\ w[j] # w[i] /\ j + 1 # i
      BY <1>1, <1>5, <2>4 DEF Shape
    <3> QED BY <1>1, <2>2, <3>1, ListCells
  <2> QED BY <1>1, <1>2, <1>4, <2>2, <2>3, <2>4 DEF Unthreaded
<1>6. CASE i # 0
  <2>1. l \in 0 .. sLength - 1 /\ l \in 0 .. sLength /\ l + 1 = i /\ l # i
    BY <1>1, <1>6
  <2>2. sHeap' = [sHeap EXCEPT ![SList!At[l]].next = sHeap[w[i]].next, ![w[i]] = Freed]
    BY <1>1, <1>2, <1>6 DEF SList!Unlinked
  <2> HIDE DEF l
  <2>3. /\ SList!At[l] = w[l] /\ w[l] \in Node /\ w[l] # w[i] /\ sHeap[w[l]] # Freed /\ sHeap[w[l]].data \in Values
        /\ sHeap[w[l]] = [data |-> sHeap[w[l]].data, next |-> w[i]]
    BY <1>1, <2>1, ListCells, WalkFromHead DEF Shape
  <2>4. sHeap' = [sHeap EXCEPT ![w[l]].next = w[i + 1], ![w[i]] = Freed]
    <3>1. sHeap[w[i]].next = w[i + 1]
      BY <1>3
    <3> QED BY <2>2, <2>3, <3>1
  <2>5. sHeap'[w[l]] = [sHeap[w[l]] EXCEPT !.next = w[i + 1]]
    BY <1>1, <1>3, <2>3, <2>4
  <2>6. sHeap'[w[l]] = [data |-> sHeap[w[l]].data, next |-> w[i + 1]]
    BY <2>3, <2>5
  <2>7. /\ sHeap'[w[i]] = Freed /\ \A m \in Node \ {w[i], w[l]} : sHeap'[m] = sHeap[m]
        /\ sHeap' = [m \in Node |-> sHeap'[m]]
    BY <1>1, <1>3, <2>3, <2>4
  <2>8. sHeap' \in [Node -> Cell \cup {Freed}]
    <3>1. ASSUME NEW m \in Node PROVE sHeap'[m] \in Cell \cup {Freed}
      <4>1. sHeap[m] \in Cell \cup {Freed}
        BY <1>1 DEF Cells
      <4> QED BY <1>3, <2>3, <2>6, <2>7, <4>1 DEF Cell
    <3> QED BY <2>7, <3>1
  <2>9. \A m \in Node : sHeap[m] = Freed => sHeap'[m] = Freed
    BY <2>3, <2>7
  <2>10. ASSUME NEW j \in 0 .. sLength - 1, j # i
         PROVE  sHeap'[w[j]] = [data |-> sHeap[w[j]].data,
                               next |-> IF j + 1 = i THEN w[i + 1] ELSE w[j + 1]]
    <3>1. CASE j = l
      BY <2>1, <2>6, <3>1
    <3>2. CASE j # l
      <4>1. w[j] \in Node /\ w[j] # w[i] /\ w[j] # w[l] /\ j + 1 # i
        BY <1>1, <2>1, <2>10, <3>2 DEF Shape
      <4>2. sHeap'[w[j]] = sHeap[w[j]]
        BY <2>7, <4>1
      <4> QED BY <1>1, <4>1, <4>2, ListCells
    <3> QED BY <3>1, <3>2
  <2> QED BY <1>1, <1>2, <1>4, <2>7, <2>8, <2>9, <2>10 DEF Unthreaded
<1> QED BY <1>5, <1>6

LEMMA CutAt ==
    ASSUME NEW w, NEW i, NEW u, sLength \in Nat, i \in 0 .. sLength - 1, Cut(w, i, u)
    PROVE  \A j \in 0 .. sLength - 1 : (j < i => u[j] = w[j]) /\ (j >= i => u[j] = w[j + 1])
<1>1. \A j \in 0 .. sLength - 1 : u[j] = IF j < i THEN w[j] ELSE w[j + 1]
  BY DEF Cut
<1> QED BY <1>1

LEMMA RemoveShape ==
    ASSUME HeapOK, Listed, NEW w, Shape(w), NEW i \in 0 .. sLength - 1, Unthreaded(w, i),
           NEW u, Cut(w, i, u)
    PROVE  /\ Cells' /\ Shape(u)'
           /\ \A j \in 0 .. sLength - 2 :
                sHeap'[u[j]].data = IF j < i THEN sHeap[w[j]].data ELSE sHeap[w[j + 1]].data
<1>1. /\ sLength \in Nat /\ Cells /\ sLength' = sLength - 1 /\ sLength > 0
      /\ sHeap' \in [Node -> Cell \cup {Freed}]
  BY DEF Listed, Cells, Unthreaded
<1>2. Cells'
  BY <1>1 DEF Cells
<1>3. sLength' - 1 = sLength - 2 /\ sLength' \in Nat
  BY <1>1
<1>4. \A j \in 0 .. sLength - 2 : /\ j \in 0 .. sLength - 1 /\ j + 1 \in 0 .. sLength - 1
                                  /\ j < i => u[j] = w[j] /\ u[j + 1] = IF j + 1 = i THEN w[i + 1] ELSE w[j + 1]
                                  /\ j >= i => u[j] = w[j + 1] /\ u[j + 1] = w[j + 1 + 1]
  <2>1. ASSUME NEW j \in 0 .. sLength - 2
        PROVE  /\ j \in 0 .. sLength - 1 /\ j + 1 \in 0 .. sLength - 1
               /\ j < i => u[j] = w[j] /\ u[j + 1] = IF j + 1 = i THEN w[i + 1] ELSE w[j + 1]
               /\ j >= i => u[j] = w[j + 1] /\ u[j + 1] = w[j + 1 + 1]
    <3>1. j \in 0 .. sLength - 1 /\ j + 1 \in 0 .. sLength - 1
      BY <1>1
    <3>2. (j < i => u[j] = w[j]) /\ (j >= i => u[j] = w[j + 1])
      BY <1>1, <3>1, CutAt
    <3>3. (j + 1 < i => u[j + 1] = w[j + 1]) /\ (j + 1 >= i => u[j + 1] = w[j + 1 + 1])
      BY <1>1, <3>1, CutAt
    <3>4. /\ j < i => \/ j + 1 < i /\ j + 1 # i
                      \/ j + 1 = i /\ j + 1 >= i
          /\ j >= i => j + 1 >= i
      BY <3>1
    <3> QED BY <3>1, <3>2, <3>3, <3>4
  <2> QED BY <2>1
<1>5. \A a, b \in 0 .. sLength - 1 : w[a] = w[b] => a = b
  BY DEF Shape
<1>6. ASSUME NEW j \in 0 .. sLength - 2, NEW k \in 0 .. sLength - 2, u[j] = u[k]
      PROVE  j = k
  <2>1. CASE j < i /\ k < i
    BY <1>4, <1>5, <1>6, <2>1
  <2>2. CASE j < i /\ k >= i
    BY <1>4, <1>5, <1>6, <2>2
  <2>3. CASE j >= i /\ k < i
    BY <1>4, <1>5, <1>6, <2>3
  <2>4. CASE j >= i /\ k >= i
    <3>1. j + 1 = k + 1
      BY <1>4, <1>5, <1>6, <2>4
    <3> QED BY <3>1
  <2> QED BY <2>1, <2>2, <2>3, <2>4
<1>7. u[sLength - 1] = NULL
  <2>1. sLength - 1 \in 0 .. sLength - 1 /\ sLength - 1 >= i /\ sLength - 1 + 1 = sLength
    BY <1>1
  <2>2. u[sLength - 1] = w[sLength]
    BY <1>1, <2>1, CutAt
  <2> QED BY <2>2 DEF Shape
<1>8. sHead' = u[0]
  <2>1. 0 \in 0 .. sLength - 1 /\ 0 + 1 = 1 /\ (i = 0 \/ 0 < i) /\ (i = 0 => 0 >= i)
    BY <1>1
  <2>2. (0 < i => u[0] = w[0]) /\ (i = 0 => u[0] = w[1])
    BY <1>1, <2>1, CutAt
  <2>3. sHead' = (IF i = 0 THEN w[1] ELSE sHead) /\ sHead = w[0]
    BY DEF Unthreaded, Shape
  <2> QED BY <2>1, <2>2, <2>3
<1>10. ASSUME NEW j \in 0 .. sLength - 2
       PROVE  /\ u[j] \in Node /\ sHeap'[u[j]] # Freed /\ sHeap'[u[j]].next = u[j + 1]
              /\ sHeap'[u[j]].data = IF j < i THEN sHeap[w[j]].data ELSE sHeap[w[j + 1]].data
  <2>1. CASE j < i
    <3>1. /\ j \in 0 .. sLength - 1 /\ j # i
          /\ u[j] = w[j] /\ u[j + 1] = IF j + 1 = i THEN w[i + 1] ELSE w[j + 1]
      BY <1>4, <2>1
    <3>2. sHeap'[w[j]] = [data |-> sHeap[w[j]].data,
                         next |-> IF j + 1 = i THEN w[i + 1] ELSE w[j + 1]]
      BY <3>1 DEF Unthreaded
    <3>3. sHeap'[w[j]] = [data |-> sHeap[w[j]].data, next |-> u[j + 1]]
      BY <3>1, <3>2
    <3>4. w[j] \in Node /\ sHeap[w[j]].data \in Values /\ w[j + 1] \in Node \cup {NULL}
      BY <1>1, <3>1, ListCells
    <3>5. u[j + 1] \in Node \cup {NULL}
      BY <1>1, <3>1, <3>4, ListCells
    <3>6. sHeap'[w[j]] \in Cell
      BY <3>3, <3>4, <3>5 DEF Cell
    <3> QED BY <2>1, <3>1, <3>3, <3>4, <3>6 DEF HeapOK
  <2>2. CASE j >= i
    <3> DEFINE k == j + 1
    <3>1. /\ k \in 0 .. sLength - 1 /\ k # i /\ k + 1 # i /\ ~(j < i)
          /\ u[j] = w[k] /\ u[j + 1] = w[k + 1]
      BY <1>1, <1>4, <2>2
    <3>2. j + 1 = k
      OBVIOUS
    <3> HIDE DEF k
    <3>3. sHeap'[w[k]] = [data |-> sHeap[w[k]].data,
                         next |-> IF k + 1 = i THEN w[i + 1] ELSE w[k + 1]]
      BY <3>1 DEF Unthreaded
    <3>4. sHeap'[w[k]] = [data |-> sHeap[w[k]].data, next |-> u[j + 1]]
      BY <3>1, <3>3
    <3>5. w[k] \in Node /\ sHeap[w[k]].data \in Values /\ w[k + 1] \in Node \cup {NULL}
      BY <1>1, <3>1, ListCells
    <3>6. sHeap'[w[k]] \in Cell
      BY <3>1, <3>4, <3>5 DEF Cell
    <3> QED BY <3>1, <3>2, <3>4, <3>5, <3>6 DEF HeapOK
  <2> QED BY <1>4, <2>1, <2>2
<1>11. ASSUME NEW m \in Node
       PROVE  sHeap'[m] # Freed <=> \E j \in 0 .. sLength - 2 : u[j] = m
  <2>1. CASE m = w[i]
    <3>1. sHeap'[m] = Freed
      BY <2>1 DEF Unthreaded
    <3> QED BY <1>10, <3>1
  <2>2. CASE sHeap[m] = Freed
    <3>1. sHeap'[m] = Freed
      BY <2>2 DEF Unthreaded
    <3> QED BY <1>10, <3>1
  <2>3. CASE m # w[i] /\ sHeap[m] # Freed
    <3>1. PICK k \in 0 .. sLength - 1 : w[k] = m
      BY <2>3 DEF Shape
    <3>2. \E j \in 0 .. sLength - 2 : u[j] = m
      <4>1. CASE k < i
        <5>1. k \in 0 .. sLength - 2
          BY <1>1, <4>1
        <5> QED BY <1>4, <3>1, <4>1, <5>1
      <4>2. CASE k > i
        <5>1. k - 1 \in 0 .. sLength - 2 /\ k - 1 >= i /\ k - 1 + 1 = k
          BY <1>1, <4>2
        <5>2. u[k - 1] = w[k]
          BY <1>4, <5>1
        <5> QED BY <3>1, <5>1, <5>2
      <4> QED BY <2>3, <3>1, <4>1, <4>2
    <3>3. sHeap'[m] # Freed
      BY <1>10, <3>2
    <3> QED BY <3>2, <3>3
  <2> QED BY <2>1, <2>2, <2>3
<1>12. u[sLength'] = NULL /\ sHead' = u[0]
  BY <1>1, <1>7, <1>8
<1> HIDE DEF Cut, Unthreaded
<1>13. Shape(u)'
  BY <1>3, <1>6, <1>10, <1>11, <1>12 DEF Shape
<1> QED BY <1>2, <1>10, <1>13

LEMMA RemoveListed ==
    ASSUME HeapOK, Listed, NEW i \in 0 .. sLength, SList!Remove(i)
    PROVE  Listed'
<1>1. PICK w : Shape(w)
  BY DEF Listed
<1>2. i \in 0 .. sLength - 1 /\ Unthreaded(w, i)
  BY <1>1, RemoveUnthreads
<1>3. PICK u : Cut(w, i, u)
  BY DEF Cut
<1>4. Cells' /\ Shape(u)'
  BY <1>1, <1>2, <1>3, RemoveShape
<1> QED BY <1>4 DEF Listed

-----------------------------------------------------------------------------
(* The invariant. *)

LEMMA EmptyListed ==
    ASSUME sHeap = [n \in Node |-> Freed], sHead = NULL, sLength = 0
    PROVE  Listed
<1>1. PICK w : w = [i \in {0} |-> NULL]
  OBVIOUS
<1>2. w[0] = NULL /\ 0 .. sLength - 1 = {}
  BY <1>1
<1>3. Shape(w)
  BY <1>2 DEF Shape
<1>4. Cells
  BY DEF Cells
<1> QED BY <1>3, <1>4 DEF Listed

LEMMA ClearListed ==
    ASSUME HeapOK, Listed, SList!Clear
    PROVE  Listed'
<1>1. PICK w : Shape(w)
  BY DEF Listed
<1>2. \A i \in 0 .. sLength - 1 : SList!At[i] = w[i]
  <2>1. \A i \in 0 .. sLength - 1 : i \in 0 .. sLength
    BY DEF Listed, Cells
  <2> QED BY <1>1, <2>1, WalkFromHead
<1>3. ASSUME NEW n \in Node PROVE sHeap'[n] = Freed
  <2>1. sHeap'[n] = IF \E i \in 0 .. sLength - 1 : SList!At[i] = n THEN Freed ELSE sHeap[n]
    BY DEF SList!Clear, SList!Cleared
  <2>2. sHeap[n] # Freed => \E i \in 0 .. sLength - 1 : w[i] = n
    BY <1>1 DEF Shape
  <2> QED BY <1>2, <2>1, <2>2
<1>4. sHeap' = [n \in Node |-> Freed]
  <2>1. sHeap' = [n \in Node |-> sHeap'[n]]
    BY DEF SList!Clear, SList!Cleared
  <2> QED BY <1>3, <2>1
<1>5. sHead' = NULL /\ sLength' = 0
  BY DEF SList!Clear, SList!Cleared
<1>6. PICK u : u = [i \in {0} |-> NULL]
  OBVIOUS
<1>7. u[0] = NULL /\ 0 .. sLength' - 1 = {}
  BY <1>5, <1>6
<1>8. Shape(u)' /\ Cells'
  BY <1>4, <1>5, <1>7 DEF Shape, Cells
<1> QED BY <1>8 DEF Listed

LEMMA SameListed ==
    ASSUME Listed, UNCHANGED <<sHeap, sHead, sLength>>
    PROVE  Listed'
<1>1. PICK w : Shape(w)
  BY DEF Listed
<1>2. Shape(w)' /\ Cells'
  BY <1>1 DEF Shape, Listed, Cells
<1> QED BY <1>2 DEF Listed

LEMMA StepListed == HeapOK /\ Listed /\ [SList!Next]_(SList!vars) => Listed'
<1> SUFFICES ASSUME HeapOK, Listed, [SList!Next]_(SList!vars) PROVE Listed'
  OBVIOUS
<1>1. ASSUME NEW n \in Node, NEW i \in 0 .. sLength, NEW v \in Values, SList!Insert(n, i, v) PROVE Listed'
  BY <1>1, InsertListed
<1>2. ASSUME NEW i \in 0 .. sLength, SList!Remove(i) PROVE Listed'
  BY <1>2, RemoveListed
<1>3. ASSUME NEW i \in 0 .. sLength, SList!Get(i) PROVE Listed'
  BY <1>3, SameListed DEF SList!Get
<1>4. ASSUME NEW i \in 0 .. sLength + 1, NEW op \in {"insert", "remove", "get"}, SList!Fail(op, i) PROVE Listed'
  BY <1>4, SameListed DEF SList!Fail
<1>5. CASE SList!Clear
  BY <1>5, ClearListed
<1>6. CASE UNCHANGED SList!vars
  BY <1>6, SameListed DEF SList!vars
<1> QED BY <1>1, <1>2, <1>3, <1>4, <1>5, <1>6 DEF SList!Next

LEMMA AlwaysListed == ASSUME HeapOK PROVE SList!Spec => []Listed
<1>1. SList!Init => Listed
  BY EmptyListed DEF SList!Init
<1>2. Listed /\ [SList!Next]_(SList!vars) => Listed'
  BY StepListed
<1> QED BY <1>1, <1>2, PTL DEF SList!Spec

\* Whatever was called, the nodes that are allocated are those of the chain, which ends
\* after length of them: ll_remove_at and ll_clear free what they take out and nothing
\* else, and no link leads to a node that was freed.
THEOREM EveryNodeInChain == ASSUME HeapOK PROVE SList!Spec => []ChainOwnsHeap
  BY AlwaysListed, ListedOwns, PTL DEF ChainOwnsHeap

-----------------------------------------------------------------------------
(* The list implements IndexedList, step by step. *)

Grown(s, i, e) == [j \in 1 .. Len(s) + 1 |-> IF j < i THEN s[j] ELSE IF j = i THEN e ELSE s[j - 1]]
Shrunk(s, i) == [j \in 1 .. Len(s) - 1 |-> IF j < i THEN s[j] ELSE s[j + 1]]

LEMMA InsertAtIs ==
    ASSUME NEW S, NEW s \in Seq(S), NEW i \in 1 .. Len(s) + 1, NEW e \in S
    PROVE  SList!Abs!InsertAt(s, i, e) = Grown(s, i, e)
<1> DEFINE a == SubSeq(s, 1, i - 1)
           b == SubSeq(s, i, Len(s))
           c == a \o <<e>>
<1>1. a \in Seq(S) /\ Len(a) = i - 1 /\ \A j \in 1 .. i - 1 : a[j] = s[j]
  OBVIOUS
<1>2. b \in Seq(S) /\ Len(b) = Len(s) + 1 - i /\ \A j \in 1 .. Len(s) + 1 - i : b[j] = s[i + j - 1]
  OBVIOUS
<1> HIDE DEF a, b
<1>3. c \in Seq(S) /\ Len(c) = i /\ \A j \in 1 .. i : c[j] = IF j = i THEN e ELSE s[j]
  BY <1>1
<1> HIDE DEF c
<1>4. c \o b \in Seq(S) /\ Len(c \o b) = Len(s) + 1
  BY <1>2, <1>3, ConcatProperties
<1>5. \A j \in 1 .. Len(s) + 1 : (c \o b)[j] = IF j < i THEN s[j] ELSE IF j = i THEN e ELSE s[j - 1]
  <2>1. ASSUME NEW j \in 1 .. Len(s) + 1
        PROVE  (c \o b)[j] = IF j < i THEN s[j] ELSE IF j = i THEN e ELSE s[j - 1]
    <3>1. (c \o b)[j] = IF j <= i THEN c[j] ELSE b[j - i]
      BY <1>2, <1>3, ConcatProperties
    <3>2. CASE j <= i
      BY <1>3, <3>1, <3>2
    <3>3. CASE j > i
      <4>1. j - i \in 1 .. Len(s) + 1 - i /\ i + (j - i) - 1 = j - 1
        BY <3>3
      <4>2. b[j - i] = s[j - 1]
        BY <1>2, <4>1
      <4> QED BY <3>1, <3>3, <4>2
    <3>4. j <= i \/ j > i
      OBVIOUS
    <3> QED BY <3>2, <3>3, <3>4
  <2> QED BY <2>1
<1>6. c \o b = Grown(s, i, e)
  <2>1. c \o b = [j \in 1 .. Len(s) + 1 |-> (c \o b)[j]]
    BY <1>4, LenProperties
  <2> QED BY <1>5, <2>1 DEF Grown
<1> QED BY <1>6 DEF SList!Abs!InsertAt, a, b, c

LEMMA RemoveAtIs ==
    ASSUME NEW S, NEW s \in Seq(S), NEW i \in 1 .. Len(s)
    PROVE  SList!Abs!RemoveAt(s, i) = Shrunk(s, i)
<1> DEFINE a == SubSeq(s, 1, i - 1)
           b == SubSeq(s, i + 1, Len(s))
<1>1. a \in Seq(S) /\ Len(a) = i - 1 /\ \A j \in 1 .. i - 1 : a[j] = s[j]
  OBVIOUS
<1>2. b \in Seq(S) /\ Len(b) = Len(s) - i /\ \A j \in 1 .. Len(s) - i : b[j] = s[i + j]
  OBVIOUS
<1> HIDE DEF a, b
<1>3. a \o b \in Seq(S) /\ Len(a \o b) = Len(s) - 1
  <2>1. a \o b \in Seq(S) /\ Len(a \o b) = Len(a) + Len(b)
    BY <1>1, <1>2, ConcatProperties
  <2>2. Len(s) \in Nat /\ i - 1 + (Len(s) - i) = Len(s) - 1
    BY LenProperties
  <2> QED BY <1>1, <1>2, <2>1, <2>2
<1>4. \A j \in 1 .. Len(s) - 1 : (a \o b)[j] = IF j < i THEN s[j] ELSE s[j + 1]
  BY <1>1, <1>2
<1>5. a \o b = Shrunk(s, i)
  <2>1. a \o b = [j \in 1 .. Len(s) - 1 |-> (a \o b)[j]]
    BY <1>3, LenProperties
  <2> QED BY <1>4, <2>1 DEF Shrunk
<1> QED BY <1>5 DEF SList!Abs!RemoveAt, a, b

\* The sequence the refinement mapping gives.
Items == [i \in 1 .. sLength |-> sHeap[SList!At[i - 1]].data]

LEMMA ItemsOf ==
    ASSUME Listed, NEW w, Shape(w)
    PROVE  /\ Items \in Seq(Values) /\ Len(Items) = sLength
           /\ Items = [i \in 1 .. sLength |-> sHeap[w[i - 1]].data]
           /\ \A i \in 1 .. sLength : Items[i] = sHeap[w[i - 1]].data
<1>1. sLength \in Nat /\ Cells
  BY DEF Listed, Cells
<1>2. ASSUME NEW i \in 1 .. sLength
      PROVE  sHeap[SList!At[i - 1]].data = sHeap[w[i - 1]].data /\ sHeap[w[i - 1]].data \in Values
  <2>1. i - 1 \in 0 .. sLength - 1 /\ i - 1 \in 0 .. sLength
    BY <1>1
  <2> QED BY <1>1, <2>1, WalkFromHead, ListCells
<1>3. Items = [i \in 1 .. sLength |-> sHeap[w[i - 1]].data]
  BY <1>2 DEF Items
<1>4. Items \in [1 .. sLength -> Values]
  BY <1>2, <1>3
<1>5. Items \in Seq(Values) /\ Len(Items) = sLength
  BY <1>1, <1>4
<1> QED BY <1>3, <1>5

ItemsAsListed == \A w : Listed /\ Shape(w) => Items = [i \in 1 .. sLength |-> sHeap[w[i - 1]].data]

LEMMA ItemsAre == ItemsAsListed
  BY ItemsOf DEF ItemsAsListed

LEMMA ItemsBecome == ItemsAsListed'
  BY ItemsAre, PTL

LEMMA InsertItems ==
    ASSUME HeapOK, Listed, NEW n \in Node, NEW i \in 0 .. sLength, NEW v \in Values, SList!Insert(n, i, v)
    PROVE  Len(Items) = sLength /\ Items' = SList!Abs!InsertAt(Items, i + 1, v)
<1>1. PICK w : Shape(w)
  BY DEF Listed
<1>2. sHeap[n] = Freed /\ Threaded(w, i, n, v)
  BY <1>1, InsertThreads
<1>3. PICK u : Spliced(w, i, n, u)
  BY DEF Spliced
<1>4. /\ Cells' /\ Shape(u)' /\ sLength \in Nat /\ sLength' = sLength + 1
      /\ \A j \in 0 .. sLength :
           sHeap'[u[j]].data = IF j < i THEN sHeap[w[j]].data
                              ELSE IF j = i THEN v ELSE sHeap[w[j - 1]].data
  BY <1>1, <1>2, <1>3, InsertShape DEF Threaded, Listed, Cells
<1>5. Listed'
  BY <1>4 DEF Listed
<1>6. Items' = [k \in 1 .. sLength' |-> sHeap'[u[k - 1]].data]
  BY <1>4, <1>5, ItemsBecome DEF ItemsAsListed
<1>7. /\ Items \in Seq(Values) /\ Len(Items) = sLength
      /\ \A k \in 1 .. sLength : Items[k] = sHeap[w[k - 1]].data
  BY <1>1, ItemsOf
<1>8. i + 1 \in 1 .. Len(Items) + 1
  BY <1>4, <1>7
<1>9. SList!Abs!InsertAt(Items, i + 1, v) = Grown(Items, i + 1, v)
  BY <1>7, <1>8, InsertAtIs
<1>10. ASSUME NEW k \in 1 .. sLength + 1
       PROVE  sHeap'[u[k - 1]].data
                = IF k < i + 1 THEN Items[k] ELSE IF k = i + 1 THEN v ELSE Items[k - 1]
  <2>1. /\ k - 1 \in 0 .. sLength
        /\ k < i + 1 <=> k - 1 < i
        /\ k = i + 1 <=> k - 1 = i
    BY <1>4
  <2>2. sHeap'[u[k - 1]].data = IF k - 1 < i THEN sHeap[w[k - 1]].data
                               ELSE IF k - 1 = i THEN v ELSE sHeap[w[k - 1 - 1]].data
    BY <1>4, <2>1
  <2>3. CASE k - 1 < i
    <3>1. k \in 1 .. sLength
      BY <1>4, <2>3
    <3> QED BY <1>7, <2>1, <2>2, <2>3, <3>1
  <2>4. CASE k - 1 = i
    <3>1. ~(k - 1 < i)
      BY <2>4
    <3> QED BY <2>1, <2>2, <2>4, <3>1
  <2>5. CASE ~(k - 1 < i) /\ k - 1 # i
    <3>1. k - 1 \in 1 .. sLength
      BY <1>4, <2>5
    <3> QED BY <1>7, <2>1, <2>2, <2>5, <3>1
  <2> QED BY <2>3, <2>4, <2>5
<1>11. Items' = Grown(Items, i + 1, v)
  BY <1>4, <1>6, <1>7, <1>10 DEF Grown
<1> QED BY <1>7, <1>9, <1>11

LEMMA RemoveItems ==
    ASSUME HeapOK, Listed, NEW i \in 0 .. sLength, SList!Remove(i)
    PROVE  /\ Len(Items) = sLength /\ i \in 0 .. sLength - 1
           /\ Items' = SList!Abs!RemoveAt(Items, i + 1)
           /\ sOut' = SList!Answer("remove", 0, i, Items[i + 1])
<1>1. PICK w : Shape(w)
  BY DEF Listed
<1>2. i \in 0 .. sLength - 1 /\ Unthreaded(w, i) /\ sOut' = SList!Answer("remove", 0, i, sHeap[w[i]].data)
  BY <1>1, RemoveUnthreads
<1>3. PICK u : Cut(w, i, u)
  BY DEF Cut
<1>4. /\ Cells' /\ Shape(u)' /\ sLength \in Nat /\ sLength' = sLength - 1
      /\ \A j \in 0 .. sLength - 2 :
           sHeap'[u[j]].data = IF j < i THEN sHeap[w[j]].data ELSE sHeap[w[j + 1]].data
  BY <1>1, <1>2, <1>3, RemoveShape DEF Unthreaded, Listed, Cells
<1>5. Listed'
  BY <1>4 DEF Listed
<1>6. Items' = [k \in 1 .. sLength' |-> sHeap'[u[k - 1]].data]
  BY <1>4, <1>5, ItemsBecome DEF ItemsAsListed
<1>7. /\ Items \in Seq(Values) /\ Len(Items) = sLength
      /\ \A k \in 1 .. sLength : Items[k] = sHeap[w[k - 1]].data
  BY <1>1, ItemsOf
<1>8. i + 1 \in 1 .. Len(Items) /\ i + 1 - 1 = i
  BY <1>2, <1>4, <1>7
<1>9. SList!Abs!RemoveAt(Items, i + 1) = Shrunk(Items, i + 1)
  BY <1>7, <1>8, RemoveAtIs
<1>10. ASSUME NEW k \in 1 .. sLength - 1
       PROVE  sHeap'[u[k - 1]].data = IF k < i + 1 THEN Items[k] ELSE Items[k + 1]
  <2>1. /\ k - 1 \in 0 .. sLength - 2 /\ k \in 1 .. sLength /\ k + 1 \in 1 .. sLength
        /\ k + 1 - 1 = k /\ k - 1 + 1 = k
        /\ k < i + 1 <=> k - 1 < i
    BY <1>2, <1>4
  <2>2. sHeap'[u[k - 1]].data = IF k - 1 < i THEN sHeap[w[k - 1]].data ELSE sHeap[w[k]].data
    BY <1>4, <2>1
  <2> QED BY <1>7, <2>1, <2>2
<1>11. Items' = Shrunk(Items, i + 1)
  BY <1>4, <1>6, <1>7, <1>10 DEF Shrunk
<1>12. sOut' = SList!Answer("remove", 0, i, Items[i + 1])
  BY <1>2, <1>7, <1>8
<1> QED BY <1>2, <1>7, <1>9, <1>11, <1>12

LEMMA GetItems ==
    ASSUME Listed, NEW i \in 0 .. sLength, SList!Get(i)
    PROVE  /\ Len(Items) = sLength /\ i \in 0 .. sLength - 1
           /\ sOut' = SList!Answer("get", 0, i, Items[i + 1])
<1>1. PICK w : Shape(w)
  BY DEF Listed
<1>2. sLength \in Nat /\ i \in 0 .. sLength - 1 /\ Cells
  BY DEF SList!Get, Listed, Cells
<1>3. SList!At[i] = w[i]
  BY <1>1, WalkFromHead
<1>4. i + 1 \in 1 .. sLength /\ i + 1 - 1 = i
  BY <1>2
<1>5. Items[i + 1] = sHeap[w[i]].data /\ Len(Items) = sLength
  BY <1>1, <1>4, ItemsOf
<1> QED BY <1>2, <1>3, <1>5 DEF SList!Get

LEMMA RefineStep == HeapOK /\ Listed /\ [SList!Next]_(SList!vars) => [SList!Abs!Next]_(SList!Abs!vars)
<1> SUFFICES ASSUME HeapOK, Listed, [SList!Next]_(SList!vars) PROVE [SList!Abs!Next]_(SList!Abs!vars)
  OBVIOUS
<1>0. sLength \in Nat /\ Len(Items) = sLength
  BY ItemsOf DEF Listed, Cells
<1>1. ASSUME NEW n \in Node, NEW i \in 0 .. sLength, NEW v \in Values, SList!Insert(n, i, v)
      PROVE  SList!Abs!Next
  <2>1. i \in 0 .. Len(Items) /\ i <= Len(Items)
    BY <1>0
  <2>2. sOut' = SList!Answer("insert", 0, i, None)
    BY <1>1 DEF SList!Insert
  <2>3. Items' = SList!Abs!InsertAt(Items, i + 1, v)
    BY <1>1, InsertItems
  <2>4. SList!Abs!InsertItem(i, v)
    BY <2>1, <2>2, <2>3 DEF SList!Abs!InsertItem, SList!Abs!Answer, SList!Answer, Items
  <2> QED BY <2>1, <2>4 DEF SList!Abs!Next, Items
<1>2. ASSUME NEW i \in 0 .. sLength, SList!Remove(i) PROVE SList!Abs!Next
  <2>1. i \in 0 .. Len(Items) - 1
    BY <1>2, RemoveItems
  <2>2. SList!Abs!RemoveItem(i)
    BY <1>2, RemoveItems DEF SList!Abs!RemoveItem, SList!Abs!Answer, SList!Answer, Items
  <2> QED BY <2>1, <2>2 DEF SList!Abs!Next, Items
<1>3. ASSUME UNCHANGED <<sHeap, sHead, sLength>> PROVE Items' = Items
  BY <1>3 DEF Items, SList!At
<1>4. ASSUME NEW i \in 0 .. sLength, SList!Get(i) PROVE SList!Abs!Next
  <2>1. i \in 0 .. Len(Items) - 1 /\ sOut' = SList!Answer("get", 0, i, Items[i + 1])
    BY <1>4, GetItems
  <2>2. Items' = Items
    BY <1>3, <1>4 DEF SList!Get
  <2>3. SList!Abs!GetItem(i)
    BY <2>1, <2>2 DEF SList!Abs!GetItem, SList!Abs!Answer, SList!Answer, Items
  <2> QED BY <2>1, <2>3 DEF SList!Abs!Next, Items
<1>5. ASSUME NEW i \in 0 .. sLength + 1, NEW op \in {"insert", "remove", "get"}, SList!Fail(op, i)
      PROVE  SList!Abs!Next
  <2>1. i \in 0 .. Len(Items) + 1 /\ Items' = Items
    BY <1>0, <1>3, <1>5 DEF SList!Fail
  <2>2. SList!Abs!Fail(op, i)
    BY <1>0, <1>5, <2>1 DEF SList!Fail, SList!Abs!Fail, SList!Abs!Answer, SList!Answer, Items
  <2> QED BY <2>1, <2>2 DEF SList!Abs!Next, Items
<1>6. CASE SList!Clear
  <2>1. Items' = <<>>
    BY <1>6 DEF SList!Clear, Items
  <2>2. SList!Abs!Clear
    BY <1>6, <2>1 DEF SList!Clear, SList!Abs!Clear, SList!Abs!Answer, SList!Answer, Items
  <2> QED BY <2>2 DEF SList!Abs!Next
<1>7. CASE UNCHANGED SList!vars
  <2>1. Items' = Items /\ sOut' = sOut
    BY <1>3, <1>7 DEF SList!vars
  <2> QED BY <2>1 DEF SList!Abs!vars, Items
<1> QED BY <1>1, <1>2, <1>4, <1>5, <1>6, <1>7 DEF SList!Next

\* The list is a sequence: every ll_insert_at, ll_remove_at, ll_get_at and ll_clear does to
\* the positions, and answers, what that operation does on a sequence; one that fails
\* changes nothing.
THEOREM ChainIsASequence == ASSUME HeapOK PROVE SList!Spec => ChainImplementsList
<1>1. SList!Init => SList!Abs!Init
  <2> SUFFICES ASSUME SList!Init PROVE SList!Abs!Init
    OBVIOUS
  <2>1. Items = <<>>
    BY DEF SList!Init, Items
  <2> QED BY <2>1 DEF SList!Init, SList!Abs!Init, SList!Abs!Answer, SList!Answer, Items
<1>2. Listed /\ [SList!Next]_(SList!vars) => [SList!Abs!Next]_(SList!Abs!vars)
  BY RefineStep
<1>3. SList!Spec => []Listed
  BY AlwaysListed
<1> QED BY <1>1, <1>2, <1>3, PTL DEF SList!Spec, ChainImplementsList, SList!ChainImplementsList, SList!Abs!Spec

-----------------------------------------------------------------------------
(* A program that uses one container behaves, for that container, as its   *)
(* own specification says.                                                 *)

LEMMA ChainInUse == UseSpec => SList!Spec
<1>1. UseInit => SList!Init
  BY DEF UseInit
<1>2. [UseNext]_<<using, vars, dVars, sVars, hVars, tVars, kVars>> => [SList!Next]_(SList!vars)
  BY DEF UseNext, Rest, sVars, SList!vars
<1> QED BY <1>1, <1>2, PTL DEF UseSpec, SList!Spec

\* The list of a program that uses it keeps its promise.
THEOREM ChainKeepsItsPromise ==
    ASSUME HeapOK
    PROVE  UseSpec => []ChainOwnsHeap /\ ChainImplementsList
  BY ChainInUse, EveryNodeInChain, ChainIsASequence, PTL

=============================================================================
