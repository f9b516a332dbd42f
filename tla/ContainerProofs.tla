--------------------------- MODULE ContainerProofs ---------------------------
(***************************************************************************)
(* Theorems about the stack, the hash table and the binary tree as         *)
(* MCContainers instantiates them, for any constants and any calls.        *)
(***************************************************************************)
EXTENDS MCContainers, FiniteSetTheorems, SequenceTheorems, TLAPS

-----------------------------------------------------------------------------
(* The stack. *)

\* The argument of stack_create is a number; it turns zero into the default.
StackOK == StackCapacity \in Nat

\* The slots below top hold what was pushed; the array is as long as capacity says.
StackInv == /\ kCapacity \in Nat \ {0} /\ kTop \in 0 .. kCapacity
            /\ kData = [i \in 0 .. kCapacity - 1 |-> kData[i]]
            /\ \A i \in 0 .. kTop - 1 : kData[i] \in Values

Longer(s, i, e) == [j \in 1 .. Len(s) + 1 |-> IF j < i THEN s[j] ELSE IF j = i THEN e ELSE s[j - 1]]
Shorter(s, i) == [j \in 1 .. Len(s) - 1 |-> IF j < i THEN s[j] ELSE s[j + 1]]

LEMMA InsertAtIs ==
    ASSUME NEW S, NEW s \in Seq(S), NEW i \in 1 .. Len(s) + 1, NEW e \in S
    PROVE  Pile!Abs!InsertAt(s, i, e) = Longer(s, i, e)
<1> DEFINE a == SubSeq(s, 1, i - 1)
           b == SubSeq(s, i, Len(s))
           c == a \o <<e>>
<1>1. a \in Seq(S) /\ Len(a) = i - 1 /\ \A j \in 1 .. i - 1 : a[j] = s[j]
  OBVIOUS
<1>2. b \in Seq(S) /\ Len(b) = Len(s) + 1 - i /\ \A j \in 1 .. Len(s) + 1 - i : b[j] = s[i + j - 1]
  OBVIOUS
<1> HIDE DEF a, b
<1>3. c \in Seq(S) /\ Len(c) = i /\ \A j \in 1 .. i : c[j] = IF j = i THEN e ELSE s[j]
  BY <1>1
<1> HIDE DEF c
<1>4. c \o b \in Seq(S) /\ Len(c \o b) = Len(s) + 1
  BY <1>2, <1>3, ConcatProperties
<1>5. \A j \in 1 .. Len(s) + 1 : (c \o b)[j] = IF j < i THEN s[j] ELSE IF j = i THEN e ELSE s[j - 1]
  <2>1. ASSUME NEW j \in 1 .. Len(s) + 1
        PROVE  (c \o b)[j] = IF j < i THEN s[j] ELSE IF j = i THEN e ELSE s[j - 1]
    <3>1. (c \o b)[j] = IF j <= i THEN c[j] ELSE b[j - i]
      BY <1>2, <1>3, ConcatProperties
    <3>2. CASE j <= i
      BY <1>3, <3>1, <3>2
    <3>3. CASE j > i
      <4>1. j - i \in 1 .. Len(s) + 1 - i /\ i + (j - i) - 1 = j - 1
        BY <3>3
      <4>2. b[j - i] = s[j - 1]
        BY <1>2, <4>1
      <4> QED BY <3>1, <3>3, <4>2
    <3>4. j <= i \/ j > i
      OBVIOUS
    <3> QED BY <3>2, <3>3, <3>4
  <2> QED BY <2>1
<1>6. c \o b = Longer(s, i, e)
  <2>1. c \o b = [j \in 1 .. Len(s) + 1 |-> (c \o b)[j]]
    BY <1>4, LenProperties
  <2> QED BY <1>5, <2>1 DEF Longer
<1> QED BY <1>6 DEF Pile!Abs!InsertAt, a, b, c

LEMMA RemoveAtIs ==
    ASSUME NEW S, NEW s \in Seq(S), NEW i \in 1 .. Len(s)
    PROVE  Pile!Abs!RemoveAt(s, i) = Shorter(s, i)
<1> DEFINE a == SubSeq(s, 1, i - 1)
           b == SubSeq(s, i + 1, Len(s))
<1>1. a \in Seq(S) /\ Len(a) = i - 1 /\ \A j \in 1 .. i - 1 : a[j] = s[j]
  OBVIOUS
<1>2. b \in Seq(S) /\ Len(b) = Len(s) - i /\ \A j \in 1 .. Len(s) - i : b[j] = s[i + j]
  OBVIOUS
<1> HIDE DEF a, b
<1>3. a \o b \in Seq(S) /\ Len(a \o b) = Len(s) - 1
  <2>1. a \o b \in Seq(S) /\ Len(a \o b) = Len(a) + Len(b)
    BY <1>1, <1>2, ConcatProperties
  <2>2. Len(s) \in Nat /\ i - 1 + (Len(s) - i) = Len(s) - 1
    BY LenProperties
  <2> QED BY <1>1, <1>2, <2>1, <2>2
<1>4. \A j \in 1 .. Len(s) - 1 : (a \o b)[j] = IF j < i THEN s[j] ELSE s[j + 1]
  BY <1>1, <1>2
<1>5. a \o b = Shorter(s, i)
  <2>1. a \o b = [j \in 1 .. Len(s) - 1 |-> (a \o b)[j]]
    BY <1>3, LenProperties
  <2> QED BY <1>4, <2>1 DEF Shorter
<1> QED BY <1>5 DEF Pile!Abs!RemoveAt, a, b

\* The sequence the refinement mapping gives.
KItems == [i \in 1 .. kTop |-> kData[i - 1]]

LEMMA KItemsAre ==
    ASSUME StackInv
    PROVE  KItems \in Seq(Values) /\ Len(KItems) = kTop /\ \A i \in 1 .. kTop : KItems[i] = kData[i - 1]
<1>1. kTop \in Nat
  BY DEF StackInv
<1>2. \A i \in 1 .. kTop : i - 1 \in 0 .. kTop - 1
  BY <1>1
<1>3. KItems \in [1 .. kTop -> Values]
  BY <1>2 DEF KItems, StackInv
<1> QED BY <1>1, <1>3 DEF KItems

LEMMA PushRefines ==
    ASSUME StackInv, NEW v \in Values, Pile!Push(v)
    PROVE  StackInv' /\ Pile!Abs!Next
<1>1. /\ kCapacity \in Nat /\ kCapacity > 0 /\ kTop \in Nat /\ kTop <= kCapacity
      /\ kCapacity' = IF kTop >= kCapacity THEN 2 * kCapacity ELSE kCapacity
      /\ kTop' = kTop + 1
      /\ kOut' = [op |-> "insert", code |-> 0, index |-> kTop, val |-> None]
  BY DEF StackInv, Pile!Push, Pile!Full, Pile!Answer
<1>2. PICK a : a = (IF Pile!Full THEN Pile!Grown ELSE kData)
  OBVIOUS
<1>3. a = [i \in 0 .. kCapacity' - 1 |-> a[i]] /\ \A i \in 0 .. kTop - 1 : a[i] = kData[i]
  <2>1. CASE kTop >= kCapacity
    <3>1. a = [i \in 0 .. 2 * kCapacity - 1 |-> IF i < kCapacity THEN kData[i] ELSE Garbage]
      BY <1>2, <2>1 DEF Pile!Full, Pile!Grown
    <3>2. \A i \in 0 .. kTop - 1 : i \in 0 .. 2 * kCapacity - 1 /\ i < kCapacity
      BY <1>1
    <3> QED BY <1>1, <2>1, <3>1, <3>2
  <2>2. CASE ~(kTop >= kCapacity)
    BY <1>1, <1>2, <2>2 DEF Pile!Full, StackInv
  <2> QED BY <2>1, <2>2
<1>4. kData' = [a EXCEPT ![kTop] = v]
  BY <1>2 DEF Pile!Push
<1>5. kTop \in 0 .. kCapacity' - 1 /\ kCapacity' \in Nat \ {0} /\ kTop' \in 0 .. kCapacity'
  BY <1>1
<1>6. /\ kData' = [i \in 0 .. kCapacity' - 1 |-> kData'[i]] /\ kData'[kTop] = v
      /\ \A i \in 0 .. kTop - 1 : kData'[i] = kData[i]
  <2>1. \A i \in 0 .. kTop - 1 : i # kTop /\ i \in 0 .. kCapacity' - 1
    BY <1>1
  <2> QED BY <1>3, <1>4, <1>5, <2>1
<1>7. \A i \in 0 .. kTop' - 1 : i \in 0 .. kTop - 1 \/ i = kTop
  BY <1>1
<1>8. StackInv'
  BY <1>5, <1>6, <1>7 DEF StackInv
<1>9. KItems' = Longer(KItems, kTop + 1, v)
  <2>1. Len(KItems) = kTop /\ \A i \in 1 .. kTop : KItems[i] = kData[i - 1]
    BY KItemsAre
  <2>2. KItems' = [i \in 1 .. kTop + 1 |-> kData'[i - 1]]
    BY <1>1 DEF KItems
  <2>3. ASSUME NEW i \in 1 .. kTop + 1
        PROVE  kData'[i - 1] = IF i < kTop + 1 THEN KItems[i]
                               ELSE IF i = kTop + 1 THEN v ELSE KItems[i - 1]
    <3>1. CASE i < kTop + 1
      <4>1. i \in 1 .. kTop /\ i - 1 \in 0 .. kTop - 1
        BY <1>1, <3>1
      <4> QED BY <1>6, <2>1, <3>1, <4>1
    <3>2. CASE i = kTop + 1
      <4>1. i - 1 = kTop /\ ~(i < kTop + 1)
        BY <1>1, <3>2
      <4> QED BY <1>6, <3>2, <4>1
    <3> QED BY <1>1, <3>1, <3>2
  <2> QED BY <2>1, <2>2, <2>3 DEF Longer
<1>10. KItems' = Pile!Abs!InsertAt(KItems, kTop + 1, v)
  <2>1. KItems \in Seq(Values) /\ kTop + 1 \in 1 .. Len(KItems) + 1
    BY <1>1, KItemsAre
  <2> QED BY <1>9, <2>1, InsertAtIs
<1>11. kTop \in 0 .. Len(KItems) /\ kTop <= Len(KItems)
  BY <1>1, KItemsAre
<1>12. Pile!Abs!InsertItem(kTop, v)
  BY <1>1, <1>10, <1>11 DEF Pile!Abs!InsertItem, Pile!Abs!Answer, KItems
<1>13. \E i \in 0 .. Len(KItems) : Pile!Abs!InsertItem(i, v)
  BY <1>11, <1>12 DEF Pile!Abs!InsertItem
<1> QED BY <1>8, <1>13 DEF Pile!Abs!Next, KItems

LEMMA PopRefines ==
    ASSUME StackInv, Pile!Pop
    PROVE  StackInv' /\ Pile!Abs!Next
<1> DEFINE i == kTop - 1
<1>1. /\ kCapacity \in Nat /\ kCapacity > 0 /\ kTop \in Nat /\ kTop <= kCapacity /\ kTop > 0
      /\ kCapacity' = kCapacity /\ kData' = kData /\ kTop' = kTop - 1 /\ i + 1 = kTop
      /\ kOut' = [op |-> "remove", code |-> 0, index |-> i, val |-> kData[kTop - 1]]
  BY DEF StackInv, Pile!Pop, Pile!Answer
<1>2. StackInv'
  <2>1. kTop' \in 0 .. kCapacity' /\ \A j \in 0 .. kTop' - 1 : j \in 0 .. kTop - 1
    BY <1>1
  <2> HIDE DEF i
  <2> QED BY <1>1, <2>1 DEF StackInv
<1>3. KItems \in Seq(Values) /\ Len(KItems) = kTop /\ \A j \in 1 .. kTop : KItems[j] = kData[j - 1]
  BY KItemsAre
<1>4. KItems' = Shorter(KItems, kTop)
  <2>1. KItems' = [j \in 1 .. kTop - 1 |-> kData[j - 1]]
    BY <1>1 DEF KItems
  <2>2. \A j \in 1 .. kTop - 1 : j < kTop /\ KItems[j] = kData[j - 1]
    BY <1>1, <1>3
  <2> QED BY <1>3, <2>1, <2>2 DEF Shorter
<1>5. KItems' = Pile!Abs!RemoveAt(KItems, kTop)
  <2>1. kTop \in 1 .. Len(KItems)
    BY <1>1, <1>3
  <2> QED BY <1>3, <1>4, <2>1, RemoveAtIs
<1>6. i \in 0 .. Len(KItems) - 1 /\ KItems[i + 1] = kData[kTop - 1]
  BY <1>1, <1>3
<1>7. kOut' = [op |-> "remove", code |-> 0, index |-> i, val |-> KItems[i + 1]]
      /\ KItems' = Pile!Abs!RemoveAt(KItems, i + 1)
  BY <1>1, <1>5, <1>6
<1> HIDE DEF i
<1>8. Pile!Abs!RemoveItem(i)
  BY <1>7 DEF Pile!Abs!RemoveItem, Pile!Abs!Answer, KItems
<1>9. \E j \in 0 .. Len(KItems) - 1 : Pile!Abs!RemoveItem(j)
  BY <1>6, <1>8 DEF Pile!Abs!RemoveItem
<1> QED BY <1>2, <1>9 DEF Pile!Abs!Next, KItems

LEMMA PeekRefines ==
    ASSUME StackInv, Pile!Peek
    PROVE  StackInv' /\ Pile!Abs!Next
<1> DEFINE i == kTop - 1
<1>1. /\ kTop \in Nat /\ kTop > 0 /\ UNCHANGED <<kData, kCapacity, kTop>> /\ i + 1 = kTop
      /\ kOut' = [op |-> "get", code |-> 0, index |-> i, val |-> kData[kTop - 1]]
  BY DEF StackInv, Pile!Peek, Pile!Answer
<1>2. StackInv' /\ KItems' = KItems
  BY <1>1 DEF StackInv, KItems
<1>3. i \in 0 .. Len(KItems) - 1 /\ KItems[i + 1] = kData[kTop - 1]
  BY <1>1, KItemsAre
<1>4. kOut' = [op |-> "get", code |-> 0, index |-> i, val |-> KItems[i + 1]]
  BY <1>1, <1>3
<1> HIDE DEF i
<1>5. Pile!Abs!GetItem(i)
  BY <1>2, <1>4 DEF Pile!Abs!GetItem, Pile!Abs!Answer, KItems
<1>6. \E j \in 0 .. Len(KItems) - 1 : Pile!Abs!GetItem(j)
  BY <1>3, <1>5 DEF Pile!Abs!GetItem
<1> QED BY <1>2, <1>6 DEF Pile!Abs!Next, KItems

\* A call that fails, in the terms of the list.
LEMMA FailureRefines ==
    ASSUME StackInv, UNCHANGED <<kData, kCapacity, kTop>>, NEW op \in {"insert", "remove", "get"},
           op \in {"remove", "get"} => kTop = 0,
           kOut' = [op |-> op, code |-> -1, index |-> kTop, val |-> None]
    PROVE  StackInv' /\ Pile!Abs!Next
<1>1. StackInv' /\ KItems' = KItems
  BY DEF StackInv, KItems
<1>2. kTop \in Nat /\ Len(KItems) = kTop /\ kTop \in 0 .. Len(KItems) + 1
  <2>1. kTop \in Nat
    BY DEF StackInv
  <2>2. Len(KItems) = kTop
    BY KItemsAre
  <2> QED BY <2>1, <2>2
<1>3. Pile!Abs!Fail(op, kTop)
  BY <1>1, <1>2 DEF Pile!Abs!Fail, Pile!Abs!Answer, KItems
<1>4. \E j \in 0 .. Len(KItems) + 1 : Pile!Abs!Fail(op, j)
  BY <1>2, <1>3 DEF Pile!Abs!Fail
<1> QED BY <1>1, <1>4 DEF Pile!Abs!Next, KItems

LEMMA StackStep == StackInv /\ [Pile!Next]_(Pile!vars) => StackInv' /\ [Pile!Abs!Next]_(Pile!Abs!vars)
<1> SUFFICES ASSUME StackInv, [Pile!Next]_(Pile!vars)
             PROVE  StackInv' /\ [Pile!Abs!Next]_(Pile!Abs!vars)
  OBVIOUS
<1>1. ASSUME NEW v \in Values, Pile!Push(v) PROVE StackInv' /\ Pile!Abs!Next
  BY <1>1, PushRefines
<1>2. CASE Pile!PushFails
  BY <1>2, FailureRefines DEF Pile!PushFails, Pile!Answer
<1>3. CASE Pile!Pop
  BY <1>3, PopRefines
<1>4. CASE Pile!Peek
  BY <1>4, PeekRefines
<1>5. ASSUME NEW op \in {"remove", "get"}, Pile!Empty(op) PROVE StackInv' /\ Pile!Abs!Next
  <2>1. kTop = 0 /\ op \in {"insert", "remove", "get"}
    BY <1>5 DEF Pile!Empty
  <2> QED BY <1>5, <2>1, FailureRefines DEF Pile!Empty, Pile!Answer
<1>6. CASE UNCHANGED Pile!vars
  <2>1. StackInv' /\ KItems' = KItems /\ kOut' = kOut
    BY <1>6 DEF Pile!vars, StackInv, KItems
  <2> QED BY <2>1 DEF Pile!Abs!vars, KItems
<1> QED BY <1>1, <1>2, <1>3, <1>4, <1>5, <1>6 DEF Pile!Next

LEMMA StackStart == ASSUME StackOK PROVE Pile!Init => StackInv /\ Pile!Abs!Init
<1> SUFFICES ASSUME Pile!Init PROVE StackInv /\ Pile!Abs!Init
  OBVIOUS
<1>1. /\ kCapacity = (IF StackCapacity = 0 THEN 16 ELSE StackCapacity) /\ kTop = 0
      /\ kData = [i \in 0 .. kCapacity - 1 |-> Garbage]
      /\ kOut = [op |-> "create", code |-> 0, index |-> 0, val |-> None]
  BY DEF Pile!Init, Pile!DefaultCapacity, Pile!Answer
<1>2. StackInv
  BY <1>1 DEF StackInv, StackOK
<1>3. KItems = <<>>
  BY <1>1 DEF KItems
<1> QED BY <1>1, <1>2, <1>3 DEF Pile!Abs!Init, Pile!Abs!Answer, KItems

\* A stack is a list used at one end: what stack_pop and stack_peek answer is what was
\* pushed last and not popped since, across every doubling of the array, and a push for
\* which realloc fails changes nothing.
THEOREM StackIsASequence == ASSUME StackOK PROVE Pile!Spec => StackImplementsList
<1>1. Pile!Init => StackInv /\ Pile!Abs!Init
  BY StackStart
<1>2. StackInv /\ [Pile!Next]_(Pile!vars) => StackInv' /\ [Pile!Abs!Next]_(Pile!Abs!vars)
  BY StackStep
<1> QED BY <1>1, <1>2, PTL DEF Pile!Spec, StackImplementsList, Pile!StackImplementsList, Pile!Abs!Spec

-----------------------------------------------------------------------------
(* The recursive definitions are what they say. *)

LEMMA LeastIndex ==
    ASSUME NEW T \in SUBSET Nat, T # {}
    PROVE  \E n \in T : \A k \in T : n <= k
<1> DEFINE R == {p \in Nat \X Nat : p[1] < p[2]}
<1>1. IsWellFoundedOn(R, Nat)
  BY NatLessThanWellFounded DEF OpToRel
<1> HIDE DEF R
<1>2. PICK n \in T : \A k \in T : <<k, n>> \notin R
  BY <1>1, WFMin
<1>3. \A k \in T : ~(k < n)
  BY <1>2 DEF R
<1> QED BY <1>3

\* Induction over the naturals, for a set.
LEMMA SetInduction ==
    ASSUME NEW T, 0 \in T, \A i \in Nat : i \in T => i + 1 \in T
    PROVE  Nat \subseteq T
<1> DEFINE O == {i \in Nat : i \notin T}
<1> SUFFICES ASSUME O # {} PROVE FALSE
  OBVIOUS
<1>1. PICK m \in O : \A j \in O : m <= j
  <2> HIDE DEF O
  <2> QED BY LeastIndex DEF O
<1>2. m - 1 \in Nat /\ m - 1 \notin O /\ m = (m - 1) + 1
  BY <1>1
<1> QED BY <1>1, <1>2

\* The visits of the subtrees below each node, from those one level less deep.
Deeper(h, pos, t) ==
    [n \in Node \cup {NULL} |->
       IF n = NULL THEN <<>>
       ELSE LET l == t[h[n].left]
                r == t[h[n].right]
            IN  CASE pos = 0 -> <<n>> \o l \o r
                  [] pos = 1 -> l \o <<n>> \o r
                  [] pos = 2 -> l \o r \o <<n>>]

\* One step of a recursion in heap h: down the chain of a bucket, towards key k in a tree,
\* to the left, or from visits to deeper visits at position k.
Onward(what, h, k, x) ==
    CASE what = "chain"  -> IF x = NULL THEN NULL ELSE h[x].next
      [] what = "search" -> IF x = NULL \/ h[x].key = k THEN x ELSE Tree!Child(h, x, k)
      [] what = "left"   -> IF h[x].left = NULL THEN x ELSE h[x].left
      [] what = "visit"  -> Deeper(h, k, x)

\* The first n steps from a, and all of them.
Steps(what, h, k, a, n, g) ==
    g = [i \in 0 .. n |-> IF i = 0 THEN a ELSE Onward(what, h, k, g[i - 1])]
Course(what, h, k, a, f) ==
    f = [i \in Nat |-> IF i = 0 THEN a ELSE Onward(what, h, k, f[i - 1])]

LEMMA StepsAt ==
    ASSUME NEW what, NEW h, NEW k, NEW a, NEW n \in Nat, NEW g, Steps(what, h, k, a, n, g)
    PROVE  g[0] = a /\ \A i \in 1 .. n : g[i] = Onward(what, h, k, g[i - 1])
  BY DEF Steps

LEMMA StepsExist ==
    ASSUME NEW what, NEW h, NEW k, NEW a, NEW n \in Nat
    PROVE  \E g : Steps(what, h, k, a, n, g)
<1> DEFINE T == {i \in Nat : ~\E g : Steps(what, h, k, a, i, g)}
<1> SUFFICES ASSUME T # {} PROVE FALSE
  OBVIOUS
<1>1. PICK m \in T : \A j \in T : m <= j
  <2> HIDE DEF T
  <2> QED BY LeastIndex DEF T
<1>2. CASE m = 0
  <2>1. Steps(what, h, k, a, 0, [i \in 0 .. 0 |-> a])
    BY DEF Steps
  <2> QED BY <1>1, <1>2, <2>1
<1>3. CASE m # 0
  <2>1. m \in Nat /\ m - 1 \in Nat /\ m - 1 \notin T
    BY <1>1, <1>3
  <2>2. PICK g : Steps(what, h, k, a, m - 1, g)
    BY <2>1
  <2> DEFINE e == [i \in 0 .. m |-> IF i = m THEN Onward(what, h, k, g[m - 1]) ELSE g[i]]
  <2>3. ASSUME NEW i \in 0 .. m
        PROVE  e[i] = IF i = 0 THEN a ELSE Onward(what, h, k, e[i - 1])
    <3>1. g[0] = a /\ \A j \in 1 .. m - 1 : g[j] = Onward(what, h, k, g[j - 1])
      BY <2>1, <2>2, StepsAt
    <3>2. CASE i = 0
      BY <1>3, <3>1, <3>2
    <3>3. CASE i = m
      BY <1>3, <2>1, <3>3
    <3>4. CASE i \in 1 .. m - 1
      <4>1. i - 1 \in 0 .. m /\ i - 1 # m /\ i # m /\ i # 0
        BY <2>1, <3>4
      <4>2. e[i] = g[i] /\ e[i - 1] = g[i - 1]
        BY <4>1
      <4> HIDE DEF e
      <4> QED BY <3>1, <3>4, <4>1, <4>2
    <3> QED BY <2>1, <3>2, <3>3, <3>4
  <2>4. e = [i \in 0 .. m |-> e[i]]
    OBVIOUS
  <2> HIDE DEF e
  <2>5. Steps(what, h, k, a, m, e)
    BY <2>3, <2>4 DEF Steps
  <2> QED BY <1>1, <2>5
<1> QED BY <1>2, <1>3

LEMMA StepsAgree ==
    ASSUME NEW what, NEW h, NEW k, NEW a, NEW m \in Nat, NEW n \in Nat, NEW g, NEW e, m <= n,
           Steps(what, h, k, a, m, g), Steps(what, h, k, a, n, e)
    PROVE  g[m] = e[m]
<1>0. g[0] = a /\ e[0] = a
  BY DEF Steps
<1> DEFINE T == {i \in Nat : i <= m /\ g[i] # e[i]}
<1> SUFFICES ASSUME T # {} PROVE FALSE
  OBVIOUS
<1>1. PICK i \in T : \A j \in T : i <= j
  <2> HIDE DEF T
  <2> QED BY LeastIndex DEF T
<1>2. CASE i = 0
  BY <1>0, <1>1, <1>2
<1>3. CASE i # 0
  <2>1. i \in 1 .. m /\ i \in 1 .. n /\ i - 1 \in Nat /\ i - 1 \notin T
    BY <1>1, <1>3
  <2>2. g[i - 1] = e[i - 1]
    BY <2>1
  <2>3. g[i] = Onward(what, h, k, g[i - 1]) /\ e[i] = Onward(what, h, k, e[i - 1])
    BY <2>1, StepsAt
  <2> QED BY <1>1, <2>2, <2>3
<1> QED BY <1>2, <1>3

LEMMA CourseExists ==
    ASSUME NEW what, NEW h, NEW k, NEW a
    PROVE  \E f : Course(what, h, k, a, f)
<1> DEFINE G(n) == CHOOSE g : Steps(what, h, k, a, n, g)
           f == [n \in Nat |-> G(n)[n]]
<1>1. \A n \in Nat : Steps(what, h, k, a, n, G(n))
  BY StepsExist
<1> HIDE DEF G
<1>2. f[0] = a
  BY <1>1, StepsAt
<1>3. ASSUME NEW i \in Nat, i # 0 PROVE f[i] = Onward(what, h, k, f[i - 1])
  <2>1. i - 1 \in Nat /\ i - 1 <= i /\ i \in 1 .. i
    BY <1>3
  <2>2. G(i)[i] = Onward(what, h, k, G(i)[i - 1])
    BY <1>1, <2>1, StepsAt
  <2>3. G(i - 1)[i - 1] = G(i)[i - 1]
    BY <1>1, <2>1, StepsAgree
  <2> QED BY <2>1, <2>2, <2>3
<1>4. f = [i \in Nat |-> f[i]]
  OBVIOUS
<1> HIDE DEF f
<1>5. Course(what, h, k, a, f)
  BY <1>2, <1>3, <1>4 DEF Course
<1> QED BY <1>5

NextOf(h, p) == IF p = NULL THEN NULL ELSE h[p].next

LEMMA EntryAt ==
    ASSUME NEW b
    PROVE  /\ Table!Entry(b)[0] = hBuckets[b]
           /\ \A i \in Nat \ {0} : Table!Entry(b)[i] = NextOf(hHeap, Table!Entry(b)[i - 1])
<1>1. Table!Entry(b) = CHOOSE f : Course("chain", hHeap, 0, hBuckets[b], f)
  BY DEF Table!Entry, Course, Onward
<1>2. Course("chain", hHeap, 0, hBuckets[b], Table!Entry(b))
  BY <1>1, CourseExists, Zenon
<1> QED BY <1>2 DEF Course, Onward, NextOf

LEMMA WalkAt ==
    ASSUME NEW h, NEW n, NEW k
    PROVE  /\ Tree!Walk(h, n, k)[0] = n
           /\ \A i \in Nat \ {0} :
                LET p == Tree!Walk(h, n, k)[i - 1]
                IN  Tree!Walk(h, n, k)[i] = IF p = NULL \/ h[p].key = k THEN p ELSE Tree!Child(h, p, k)
<1>1. Tree!Walk(h, n, k) = CHOOSE f : Course("search", h, k, n, f)
  BY DEF Tree!Walk, Course, Onward
<1>2. Course("search", h, k, n, Tree!Walk(h, n, k))
  BY <1>1, CourseExists, Zenon
<1> QED BY <1>2 DEF Course, Onward

\* find_min's walk.
LeftWalk(n) == CHOOSE f : Course("left", tHeap, 0, n, f)

LEMMA LeftAt ==
    ASSUME NEW n
    PROVE  /\ Tree!FindMin(n) = LeftWalk(n)[Tree!MaxDepth] /\ LeftWalk(n)[0] = n
           /\ \A i \in Nat \ {0} :
                LET p == LeftWalk(n)[i - 1]
                IN  LeftWalk(n)[i] = IF tHeap[p].left = NULL THEN p ELSE tHeap[p].left
<1>1. Course("left", tHeap, 0, n, LeftWalk(n))
  BY CourseExists, Zenon DEF LeftWalk
<1>2. Tree!FindMin(n) = LeftWalk(n)[Tree!MaxDepth]
  BY DEF Tree!FindMin, LeftWalk, Course, Onward
<1> QED BY <1>1, <1>2 DEF Course, Onward

-----------------------------------------------------------------------------
(* The shape of the table. *)

TCell == [key : Keys, value : Values \cup {NULL}, next : Node \cup {NULL}]

\* The constants are what they stand for: finitely many addresses, none of them null, a
\* free cell is no entry; a table of at least one bucket and a hash for every key.
TableOK == /\ IsFiniteSet(Node) /\ NULL \notin Node /\ Freed \notin TCell
           /\ NumBuckets \in Nat \ {0} /\ Hash \in [Keys -> Nat]

Used == {n \in Node : hHeap[n] # Freed}

\* c[b][0] .. c[b][l[b] - 1] are the entries of bucket b in their order; they are those whose
\* key belongs there.
Chains(c, l) ==
    /\ \A b \in Table!Bucket : l[b] \in Nat /\ c[b][l[b]] = NULL /\ hBuckets[b] = c[b][0]
    /\ \A b \in Table!Bucket : \A i \in 0 .. l[b] - 1 :
         c[b][i] \in Used /\ hHeap[c[b][i]].next = c[b][i + 1] /\ Table!Idx(hHeap[c[b][i]].key) = b
    /\ \A b \in Table!Bucket : \A i, j \in 0 .. l[b] - 1 : c[b][i] = c[b][j] => i = j
    /\ \A n \in Used : \E i \in 0 .. l[Table!Idx(hHeap[n].key)] - 1 : c[Table!Idx(hHeap[n].key)][i] = n

Entries == /\ hHeap \in [Node -> TCell \cup {Freed}]
           /\ hBuckets = [b \in Table!Bucket |-> hBuckets[b]]
           /\ hSize = Cardinality(Used)

OneEntryPerKey == \A m, n \in Used : hHeap[m].key = hHeap[n].key => m = n

TableInv == Entries /\ OneEntryPerKey /\ \E c, l : Chains(c, l)

LEMMA EntryOf ==
    ASSUME Entries, NEW n \in Used
    PROVE  /\ n \in Node /\ hHeap[n] \in TCell /\ hHeap[n].key \in Keys
           /\ hHeap[n].value \in Values \cup {NULL} /\ hHeap[n].next \in Node \cup {NULL}
  BY DEF Entries, Used, TCell

LEMMA IdxInBucket == ASSUME TableOK, NEW k \in Keys PROVE Table!Idx(k) \in Table!Bucket
<1>1. Hash[k] \in Nat /\ NumBuckets \in Nat /\ NumBuckets > 0
  BY DEF TableOK
<1> QED BY <1>1 DEF Table!Idx, Table!Bucket

LEMMA UsedFinite == ASSUME TableOK, Entries PROVE IsFiniteSet(Used) /\ hSize \in Nat
<1>1. IsFiniteSet(Used)
  BY FS_Subset DEF Used, TableOK
<1> QED BY <1>1, FS_CardinalityType DEF Entries

\* The walk of the code meets the entries in that order, and nothing after them.
LEMMA WalkBucket ==
    ASSUME TableOK, NEW c, NEW l, Chains(c, l), NEW b \in Table!Bucket
    PROVE  /\ \A i \in 0 .. l[b] : Table!Entry(b)[i] = c[b][i]
           /\ \A i \in Nat : i >= l[b] => Table!Entry(b)[i] = NULL
<1> DEFINE e == Table!Entry(b)
           L == l[b]
<1>1. L \in Nat /\ c[b][L] = NULL /\ hBuckets[b] = c[b][0]
  BY DEF Chains
<1>2. \A i \in 0 .. L - 1 : c[b][i] # NULL /\ hHeap[c[b][i]].next = c[b][i + 1]
  BY DEF Chains, TableOK, Used
<1>3. e[0] = hBuckets[b] /\ \A i \in Nat \ {0} : e[i] = NextOf(hHeap, e[i - 1])
  BY EntryAt
<1> HIDE DEF e, L
<1>4. \A i \in 0 .. L : e[i] = c[b][i]
  <2> DEFINE T == {i \in Nat : i <= L /\ e[i] # c[b][i]}
  <2> SUFFICES ASSUME T # {} PROVE FALSE
    BY <1>1
  <2>1. PICK i \in T : \A j \in T : i <= j
    <3> HIDE DEF T
    <3> QED BY LeastIndex DEF T
  <2>2. i # 0
    BY <1>1, <1>3, <2>1
  <2>3. i \in Nat \ {0} /\ i - 1 \in 0 .. L - 1 /\ i - 1 \notin T /\ i - 1 + 1 = i
    BY <1>1, <2>1, <2>2
  <2>4. e[i - 1] = c[b][i - 1]
    BY <1>1, <2>3
  <2> QED BY <1>2, <1>3, <2>1, <2>3, <2>4 DEF NextOf
<1>5. \A i \in Nat : i >= L => e[i] = NULL
  <2> DEFINE T == {i \in Nat : i >= L /\ e[i] # NULL}
  <2> SUFFICES ASSUME T # {} PROVE FALSE
    OBVIOUS
  <2>1. PICK i \in T : \A j \in T : i <= j
    <3> HIDE DEF T
    <3> QED BY LeastIndex DEF T
  <2>2. i # L
    BY <1>1, <1>4, <2>1
  <2>3. i \in Nat \ {0} /\ i - 1 \in Nat /\ i - 1 >= L /\ i - 1 \notin T
    BY <1>1, <2>1, <2>2
  <2>4. e[i - 1] = NULL
    BY <2>3
  <2> QED BY <1>3, <2>1, <2>3, <2>4 DEF NextOf
<1> QED BY <1>4, <1>5 DEF e, L

\* No chain is longer than size: a walk of size steps meets its end.
LEMMA ChainBound ==
    ASSUME TableOK, Entries, NEW c, NEW l, Chains(c, l), NEW b \in Table!Bucket
    PROVE  l[b] <= hSize
<1> DEFINE S == 0 .. l[b] - 1
           f == [i \in S |-> c[b][i]]
<1>1. l[b] \in Nat
  BY DEF Chains
<1>2. IsFiniteSet(Used) /\ hSize \in Nat /\ hSize = Cardinality(Used)
  BY UsedFinite DEF Entries
<1>3. f \in Injection(S, Used)
  BY DEF Chains, Injection, IsInjective
<1>4. Cardinality(S) = l[b] /\ IsFiniteSet(S)
  <2>1. 0 \in Int /\ l[b] - 1 \in Int
    BY <1>1
  <2>2. IsFiniteSet(S) /\ Cardinality(S) = IF 0 > l[b] - 1 THEN 0 ELSE l[b] - 1 - 0 + 1
    BY <2>1, FS_Interval
  <2> QED BY <1>1, <2>2
<1> HIDE DEF f, S
<1>5. Cardinality(S) <= Cardinality(Used)
  BY <1>2, <1>3, FS_Injection
<1> QED BY <1>2, <1>4, <1>5

-----------------------------------------------------------------------------
(* What the shape means for the walks' results and for the property. *)

LEMMA FoundAt ==
    ASSUME TableOK, TableInv, NEW c, NEW l, Chains(c, l), NEW n \in Used,
           NEW k \in Keys, hHeap[n].key = k
    PROVE  /\ Table!Found(k) /\ Table!Hit(k) = n
           /\ Table!Pos(k) \in 0 .. l[Table!Idx(k)] - 1 /\ c[Table!Idx(k)][Table!Pos(k)] = n
<1> DEFINE b == Table!Idx(k)
           P == Table!Positions(k)
<1>1. b \in Table!Bucket /\ Entries /\ OneEntryPerKey
  BY IdxInBucket DEF TableInv
<1>2. PICK i \in 0 .. l[b] - 1 : c[b][i] = n
  BY DEF Chains
<1>3. l[b] \in Nat /\ l[b] <= hSize /\ hSize \in Nat
  <2>1. l[b] \in Nat
    BY <1>1 DEF Chains
  <2>2. l[b] <= hSize
    BY <1>1, ChainBound
  <2> QED BY <1>1, <2>1, <2>2, UsedFinite
<1>4. /\ \A j \in 0 .. l[b] : Table!Entry(b)[j] = c[b][j]
      /\ \A j \in Nat : j >= l[b] => Table!Entry(b)[j] = NULL
  BY <1>1, WalkBucket
<1>5. P = {j \in 0 .. hSize : Table!Entry(b)[j] # NULL /\ hHeap[Table!Entry(b)[j]].key = k}
  BY DEF Table!Positions
<1>6. n # NULL
  BY DEF Used, TableOK
<1> HIDE DEF b, P
<1>7. i \in P
  <2>1. i \in 0 .. hSize /\ i \in 0 .. l[b]
    BY <1>3
  <2> QED BY <1>2, <1>4, <1>5, <1>6, <2>1
<1>8. \A j \in P : j = i
  <2>1. ASSUME NEW j \in P PROVE j = i
    <3>1. j \in Nat /\ Table!Entry(b)[j] # NULL /\ hHeap[Table!Entry(b)[j]].key = k
      BY <1>3, <1>5
    <3>2. j \in 0 .. l[b] - 1 /\ j \in 0 .. l[b]
      BY <1>3, <1>4, <3>1
    <3>3. c[b][j] \in Used /\ hHeap[c[b][j]].key = k
      BY <1>1, <1>4, <3>1, <3>2 DEF Chains
    <3>4. c[b][j] = n
      BY <1>1, <3>3 DEF OneEntryPerKey
    <3> QED BY <1>1, <1>2, <3>2, <3>4 DEF Chains
  <2> QED BY <2>1
<1>9. P = {i}
  BY <1>7, <1>8
<1>10. Table!Pos(k) = i
  <2>1. Table!Pos(k) = CHOOSE j \in P : \A m \in P : j <= m
    BY DEF Table!Pos, P
  <2>2. i <= i
    BY <1>3
  <2> QED BY <1>9, <2>1, <2>2
<1>11. Table!Found(k) /\ Table!Hit(k) = Table!Entry(b)[i]
  BY <1>7, <1>10 DEF Table!Found, Table!Hit, P, b
<1>12. i \in 0 .. l[b]
  BY <1>3
<1> QED BY <1>2, <1>4, <1>10, <1>11, <1>12 DEF b

LEMMA FoundHolds ==
    ASSUME TableOK, TableInv, NEW k \in Keys, Table!Found(k)
    PROVE  Table!Hit(k) \in Used /\ hHeap[Table!Hit(k)].key = k
<1> DEFINE b == Table!Idx(k)
<1>1. PICK c, l : Chains(c, l)
  BY DEF TableInv
<1>2. b \in Table!Bucket /\ Entries
  BY IdxInBucket DEF TableInv
<1>3. PICK i \in 0 .. hSize : Table!Entry(b)[i] # NULL /\ hHeap[Table!Entry(b)[i]].key = k
  BY DEF Table!Found, Table!Positions
<1>4. l[b] \in Nat /\ hSize \in Nat /\ i \in Nat
  BY <1>1, <1>2, UsedFinite DEF Chains
<1> HIDE DEF b
<1>5. i \in 0 .. l[b] - 1 /\ i \in 0 .. l[b]
  BY <1>1, <1>2, <1>3, <1>4, WalkBucket
<1>6. c[b][i] \in Used /\ hHeap[c[b][i]].key = k
  <2>1. c[b][i] \in Used
    BY <1>1, <1>2, <1>5 DEF Chains
  <2>2. Table!Entry(b)[i] = c[b][i]
    BY <1>1, <1>2, <1>5, WalkBucket
  <2> QED BY <1>3, <2>1, <2>2
<1> QED BY <1>1, <1>6, FoundAt

LEMMA TableOwns == ASSUME TableOK PROVE TableInv => ChainsOwnHeap
<1> SUFFICES ASSUME TableInv PROVE ChainsOwnHeap
  OBVIOUS
<1>1. PICK c, l : Chains(c, l)
  BY DEF TableInv
<1>2. Entries /\ IsFiniteSet(Used) /\ hSize \in Nat /\ hSize = Cardinality(Used)
  BY UsedFinite DEF TableInv, Entries
<1> DEFINE B == Table!Bucket
           S == B \X (0 .. hSize)
           places == {p \in S : Table!Entry(p[1])[p[2]] # NULL}
           f == [p \in places |-> Table!Entry(p[1])[p[2]]]
<1>3. IsFiniteSet(places)
  <2>1. NumBuckets - 1 \in Int /\ hSize \in Int /\ 0 \in Int
    BY <1>2 DEF TableOK
  <2>2. IsFiniteSet(B) /\ IsFiniteSet(0 .. hSize)
    BY <2>1, FS_Interval DEF Table!Bucket
  <2>3. IsFiniteSet(S)
    BY <2>2, FS_Product
  <2> QED BY <2>3, FS_Subset
<1>4. ASSUME NEW p \in places
      PROVE  /\ p[1] \in B /\ p[2] \in 0 .. l[p[1]] - 1 /\ p = <<p[1], p[2]>>
             /\ f[p] = c[p[1]][p[2]] /\ f[p] \in Used /\ Table!Idx(hHeap[f[p]].key) = p[1]
  <2>1. p[1] \in B /\ p[2] \in 0 .. hSize /\ Table!Entry(p[1])[p[2]] # NULL /\ p = <<p[1], p[2]>>
    OBVIOUS
  <2>2. l[p[1]] \in Nat /\ p[2] \in Nat
    BY <1>1, <1>2, <2>1 DEF Chains
  <2>3. p[2] \in 0 .. l[p[1]] - 1 /\ p[2] \in 0 .. l[p[1]]
    BY <1>1, <2>1, <2>2, WalkBucket
  <2>4. f[p] = c[p[1]][p[2]]
    BY <1>1, <2>1, <2>3, WalkBucket
  <2> HIDE DEF f
  <2>5. c[p[1]][p[2]] \in Used /\ Table!Idx(hHeap[c[p[1]][p[2]]].key) = p[1]
    BY <1>1, <2>1, <2>3 DEF Chains
  <2> QED BY <2>1, <2>3, <2>4, <2>5
<1>5. ASSUME NEW n \in Used PROVE \E p \in places : f[p] = n
  <2> DEFINE b == Table!Idx(hHeap[n].key)
  <2>1. b \in B
    BY <1>2, EntryOf, IdxInBucket
  <2>2. PICK i \in 0 .. l[b] - 1 : c[b][i] = n
    BY <1>1 DEF Chains
  <2> HIDE DEF b
  <2>3. l[b] \in Nat /\ l[b] <= hSize
    <3>1. l[b] \in Nat
      BY <1>1, <2>1 DEF Chains
    <3> QED BY <1>1, <1>2, <2>1, <3>1, ChainBound
  <2>4. i \in 0 .. hSize /\ i \in 0 .. l[b]
    BY <1>2, <2>3
  <2>5. Table!Entry(b)[i] = n /\ n # NULL
    BY <1>1, <2>1, <2>2, <2>4, WalkBucket DEF Used, TableOK
  <2>6. <<b, i>> \in places
    BY <2>1, <2>4, <2>5
  <2> QED BY <2>5, <2>6
<1>6. f \in Surjection(places, Used) /\ f \in Injection(places, Used)
  <2>1. f \in [places -> Used]
    BY <1>4
  <2>2. ASSUME NEW p \in places, NEW q \in places, f[p] = f[q] PROVE p = q
    <3> HIDE DEF f, places
    <3>1. p[1] = q[1]
      BY <1>4, <2>2
    <3>2. p[2] = q[2]
      BY <1>1, <1>4, <2>2, <3>1 DEF Chains
    <3> QED BY <1>4, <3>1, <3>2
  <2> HIDE DEF f, places
  <2> QED BY <1>5, <2>1, <2>2 DEF Surjection, Injection, IsInjective
<1>7. {Table!Entry(p[1])[p[2]] : p \in places} = Used
  <2>1. \A p \in places : f[p] = Table!Entry(p[1])[p[2]]
    OBVIOUS
  <2> HIDE DEF f, places
  <2> QED BY <1>4, <1>5, <2>1
<1>8. Cardinality(Used) = Cardinality(places)
  <2> HIDE DEF f, places
  <2> QED BY <1>3, <1>6, FS_Surjection
<1>9. Used = Node \ Table!FreeNodes
  BY DEF Used, Table!FreeNodes
<1>10. places = {p \in Table!Bucket \X (0 .. hSize) : Table!Entry(p[1])[p[2]] # NULL}
  OBVIOUS
<1> HIDE DEF f, places
<1>11. \A T : Cardinality(T) = Table!Cardinality(T)
  BY DEF Cardinality, Table!Cardinality
<1>12. hSize = Table!Cardinality(places) /\ Table!Cardinality(Node \ Table!FreeNodes) = Table!Cardinality(places)
  BY <1>2, <1>8, <1>9, <1>11
<1> QED BY <1>7, <1>9, <1>10, <1>12, Zenon DEF ChainsOwnHeap, Table!ChainsOwnHeap

-----------------------------------------------------------------------------
(* A table without entries. *)

Emptied == /\ hBuckets = [b \in Table!Bucket |-> NULL]
           /\ hHeap = [n \in Node |-> Freed] /\ hSize = 0

EmptiedHolds == TableOK /\ Emptied => TableInv /\ Used = {}

LEMMA EmptyTable == EmptiedHolds
<1> SUFFICES ASSUME TableOK, Emptied PROVE TableInv /\ Used = {}
  BY DEF EmptiedHolds
<1> DEFINE c == [b \in Table!Bucket |-> [i \in {0} |-> NULL]]
           l == [b \in Table!Bucket |-> 0]
<1>1. Used = {}
  BY DEF Used, Emptied
<1>2. Entries
  <2>1. Cardinality(Used) = 0
    BY <1>1, FS_EmptySet
  <2>2. hHeap \in [Node -> TCell \cup {Freed}]
    BY DEF Emptied
  <2>3. hBuckets = [b \in Table!Bucket |-> hBuckets[b]]
    BY DEF Emptied
  <2> QED BY <2>1, <2>2, <2>3 DEF Entries, Emptied
<1>3. \A b \in Table!Bucket : l[b] = 0 /\ c[b][0] = NULL /\ hBuckets[b] = NULL
  BY DEF Emptied
<1> HIDE DEF c, l
<1>4. Chains(c, l)
  BY <1>1, <1>3 DEF Chains
<1> QED BY <1>1, <1>2, <1>4 DEF TableInv, OneEntryPerKey

LEMMA EmptyTableNext == TableOK /\ Emptied' => TableInv' /\ Used' = {}
<1>1. EmptiedHolds'
  BY EmptyTable, PTL
<1>2. TableOK => TableOK'
  BY DEF TableOK, TCell
<1> QED BY <1>1, <1>2 DEF EmptiedHolds

\* Every entry is met by the walk of its bucket within size steps.
LEMMA EntryMet ==
    ASSUME TableOK, TableInv, NEW n \in Used
    PROVE  \E b \in Table!Bucket, i \in 0 .. hSize : Table!Entry(b)[i] = n
<1> DEFINE b == Table!Idx(hHeap[n].key)
<1>1. PICK c, l : Chains(c, l)
  BY DEF TableInv
<1>2. Entries /\ b \in Table!Bucket
  BY EntryOf, IdxInBucket DEF TableInv
<1>3. PICK i \in 0 .. l[b] - 1 : c[b][i] = n
  BY <1>1 DEF Chains
<1> HIDE DEF b
<1>4. l[b] \in Nat
  BY <1>1, <1>2 DEF Chains
<1>5. l[b] <= hSize /\ hSize \in Nat
  BY <1>1, <1>2, ChainBound, UsedFinite
<1>6. i \in 0 .. l[b] /\ i \in 0 .. hSize
  BY <1>4, <1>5
<1> QED BY <1>1, <1>2, <1>3, <1>6, WalkBucket

LEMMA DestroyEmpties == ASSUME TableOK, TableInv, Table!Destroy PROVE Emptied'
<1>1. hHeap' = [n \in Node |->
                  IF \E b \in Table!Bucket, i \in 0 .. hSize : Table!Entry(b)[i] = n THEN Freed ELSE hHeap[n]]
  BY DEF Table!Destroy
<1>2. ASSUME NEW n \in Node PROVE hHeap'[n] = Freed
  <2>1. CASE n \in Used
    BY <1>1, <2>1, EntryMet
  <2>2. CASE n \notin Used
    BY <1>1, <2>2 DEF Used
  <2> QED BY <2>1, <2>2
<1>3. hHeap' = [n \in Node |-> Freed]
  BY <1>1, <1>2
<1>4. hBuckets' = [b \in Table!Bucket |-> NULL] /\ hSize' = 0
  BY DEF Table!Destroy
<1>5. Table!Bucket' = Table!Bucket
  BY DEF Table!Bucket
<1> QED BY <1>3, <1>4, <1>5 DEF Emptied, Table!Bucket

-----------------------------------------------------------------------------
(* An overwrite changes one value. *)

LEMMA ValueStep ==
    ASSUME TableOK, TableInv, NEW n \in Used, NEW v \in Values \cup {NULL},
           hHeap' = [hHeap EXCEPT ![n].value = v], UNCHANGED <<hBuckets, hSize>>
    PROVE  /\ TableInv' /\ Used' = Used /\ hHeap'[n].value = v
           /\ \A m \in Used : /\ hHeap'[m].key = hHeap[m].key
                              /\ m # n => hHeap'[m].value = hHeap[m].value
<1>1. Entries /\ OneEntryPerKey /\ hHeap = [m \in Node |-> hHeap[m]]
  BY DEF TableInv, Entries
<1>2. PICK c, l : Chains(c, l)
  BY DEF TableInv
<1>3. n \in Node /\ hHeap[n] \in TCell
  BY <1>1, EntryOf
<1>4. \A m \in Node \ {n} : hHeap'[m] = hHeap[m]
  BY <1>1
<1>5. hHeap'[n] = [hHeap[n] EXCEPT !.value = v]
  BY <1>1, <1>3
<1>6. hHeap'[n] \in TCell /\ hHeap'[n].key = hHeap[n].key /\ hHeap'[n].next = hHeap[n].next /\ hHeap'[n].value = v
  BY <1>3, <1>5 DEF TCell
<1>7. hHeap' \in [Node -> TCell \cup {Freed}]
  <2>1. hHeap' = [m \in Node |-> hHeap'[m]]
    BY <1>1
  <2>2. ASSUME NEW m \in Node PROVE hHeap'[m] \in TCell \cup {Freed}
    BY <1>1, <1>4, <1>6 DEF Entries
  <2> QED BY <2>1, <2>2
<1>8. Used' = Used
  BY <1>3, <1>4, <1>6 DEF Used, TableOK
<1>9. \A m \in Used : /\ hHeap'[m].key = hHeap[m].key /\ hHeap'[m].next = hHeap[m].next
                      /\ m # n => hHeap'[m].value = hHeap[m].value
  BY <1>4, <1>6 DEF Used
<1>10. \A b : Table!Idx(b)' = Table!Idx(b)
  BY DEF Table!Idx
<1>11. Table!Bucket' = Table!Bucket
  BY DEF Table!Bucket
<1>12. Entries' /\ OneEntryPerKey'
  BY <1>1, <1>7, <1>8, <1>9, <1>11 DEF Entries, OneEntryPerKey
<1>13. Chains(c, l)'
  <2>1. \A b \in Table!Bucket : l[b] \in Nat /\ c[b][l[b]] = NULL /\ hBuckets'[b] = c[b][0]
    BY <1>2 DEF Chains
  <2>2. \A b \in Table!Bucket : \A i \in 0 .. l[b] - 1 :
          c[b][i] \in Used' /\ hHeap'[c[b][i]].next = c[b][i + 1] /\ Table!Idx(hHeap'[c[b][i]].key) = b
    BY <1>2, <1>8, <1>9 DEF Chains
  <2>3. \A b \in Table!Bucket : \A i, j \in 0 .. l[b] - 1 : c[b][i] = c[b][j] => i = j
    BY <1>2 DEF Chains
  <2>4. \A m \in Used' : \E i \in 0 .. l[Table!Idx(hHeap'[m].key)] - 1 : c[Table!Idx(hHeap'[m].key)][i] = m
    BY <1>2, <1>8, <1>9 DEF Chains
  <2> QED BY <2>1, <2>2, <2>3, <2>4 DEF Chains, Table!Idx, Table!Bucket
<1> QED BY <1>6, <1>8, <1>9, <1>12, <1>13 DEF TableInv

-----------------------------------------------------------------------------
(* A new entry is put in front of its bucket. *)

Fronted(c, l, b, n, c2, l2) ==
    /\ l2[b] = l[b] + 1 /\ c2[b][0] = n
    /\ \A j \in 0 .. l[b] : c2[b][j + 1] = c[b][j]
    /\ \A d \in Table!Bucket \ {b} : l2[d] = l[d] /\ c2[d] = c[d]

LEMMA FrontedExists ==
    ASSUME NEW c, NEW l, NEW b \in Table!Bucket, NEW n, l[b] \in Nat
    PROVE  \E c2, l2 : Fronted(c, l, b, n, c2, l2)
<1> DEFINE c2 == [d \in Table!Bucket |->
                    IF d = b THEN [j \in 0 .. l[b] + 1 |-> IF j = 0 THEN n ELSE c[b][j - 1]] ELSE c[d]]
           l2 == [d \in Table!Bucket |-> IF d = b THEN l[b] + 1 ELSE l[d]]
<1>1. c2[b] = [j \in 0 .. l[b] + 1 |-> IF j = 0 THEN n ELSE c[b][j - 1]] /\ l2[b] = l[b] + 1
  OBVIOUS
<1>2. \A d \in Table!Bucket \ {b} : l2[d] = l[d] /\ c2[d] = c[d]
  OBVIOUS
<1> HIDE DEF c2, l2
<1>3. c2[b][0] = n
  BY <1>1
<1>4. ASSUME NEW j \in 0 .. l[b] PROVE c2[b][j + 1] = c[b][j]
  <2>1. j + 1 \in 0 .. l[b] + 1 /\ j + 1 # 0 /\ j + 1 - 1 = j
    OBVIOUS
  <2> QED BY <1>1, <2>1
<1>5. Fronted(c, l, b, n, c2, l2)
  BY <1>1, <1>2, <1>3, <1>4 DEF Fronted
<1> QED BY <1>5

LEMMA NotFound ==
    ASSUME TableOK, TableInv, NEW k \in Keys, ~Table!Found(k)
    PROVE  \A m \in Used : hHeap[m].key # k
<1>1. PICK c, l : Chains(c, l)
  BY DEF TableInv
<1> QED BY <1>1, FoundAt

LEMMA InsertStep ==
    ASSUME TableOK, TableInv, NEW n \in Node, NEW k \in Keys, NEW v \in Values,
           Table!InsertNew(n, k, v)
    PROVE  /\ TableInv' /\ n \notin Used /\ Used' = Used \cup {n}
           /\ hHeap'[n].key = k /\ hHeap'[n].value = v
           /\ \A m \in Used : hHeap'[m] = hHeap[m] /\ hHeap[m].key # k
<1> DEFINE b == Table!Idx(k)
<1>1. Entries /\ OneEntryPerKey /\ b \in Table!Bucket
  BY IdxInBucket DEF TableInv
<1>2. PICK c, l : Chains(c, l)
  BY DEF TableInv
<1>3. \A m \in Used : hHeap[m].key # k
  BY NotFound DEF Table!InsertNew
<1>4. /\ hHeap[n] = Freed /\ hHeap' = [hHeap EXCEPT ![n] = [key |-> k, value |-> v, next |-> hBuckets[b]]]
      /\ hBuckets' = [hBuckets EXCEPT ![b] = n] /\ hSize' = hSize + 1
  BY DEF Table!InsertNew, Table!Fresh, Table!FreeNodes
<1>5. /\ hHeap = [m \in Node |-> hHeap[m]] /\ hBuckets = [d \in Table!Bucket |-> hBuckets[d]]
  BY <1>1 DEF Entries
<1>6. /\ hHeap'[n] = [key |-> k, value |-> v, next |-> hBuckets[b]]
      /\ \A m \in Node \ {n} : hHeap'[m] = hHeap[m]
      /\ hHeap' = [m \in Node |-> hHeap'[m]]
  BY <1>4, <1>5
<1> HIDE DEF b
<1>7. l[b] \in Nat /\ hBuckets[b] = c[b][0]
  BY <1>1, <1>2 DEF Chains
<1>8. hBuckets[b] \in Node \cup {NULL}
  <2>1. CASE l[b] = 0
    BY <1>1, <1>2, <1>7, <2>1 DEF Chains
  <2>2. CASE l[b] # 0
    <3>1. 0 \in 0 .. l[b] - 1
      BY <1>7, <2>2
    <3> QED BY <1>1, <1>2, <1>7, <3>1 DEF Chains, Used
  <2> QED BY <2>1, <2>2
<1>9. hHeap'[n] \in TCell /\ hHeap'[n].key = k /\ hHeap'[n].value = v /\ hHeap'[n].next = hBuckets[b]
  BY <1>6, <1>8 DEF TCell
<1>10. n \notin Used /\ Used' = Used \cup {n}
  BY <1>4, <1>6, <1>9 DEF Used, TableOK
<1>11. \A m \in Used : hHeap'[m] = hHeap[m] /\ m # n /\ m \in Node
  BY <1>6, <1>10 DEF Used
<1>12. hHeap' \in [Node -> TCell \cup {Freed}]
  <2>1. ASSUME NEW m \in Node PROVE hHeap'[m] \in TCell \cup {Freed}
    BY <1>1, <1>6, <1>9 DEF Entries
  <2> QED BY <1>6, <2>1
<1>13. hBuckets' = [d \in Table!Bucket |-> hBuckets'[d]] /\ hBuckets'[b] = n
       /\ \A d \in Table!Bucket \ {b} : hBuckets'[d] = hBuckets[d]
  BY <1>1, <1>4, <1>5
<1>14. hSize' = Cardinality(Used')
  <2>1. IsFiniteSet(Used) /\ hSize = Cardinality(Used)
    BY <1>1, UsedFinite DEF Entries
  <2> QED BY <1>4, <1>10, <2>1, FS_AddElement
<1>15. Table!Bucket' = Table!Bucket /\ \A q : Table!Idx(q)' = Table!Idx(q)
  BY DEF Table!Bucket, Table!Idx
<1>16. Entries'
  BY <1>12, <1>13, <1>14, <1>15 DEF Entries
<1>17. OneEntryPerKey'
  BY <1>1, <1>3, <1>9, <1>10, <1>11 DEF OneEntryPerKey
<1>18. PICK c2, l2 : Fronted(c, l, b, n, c2, l2)
  BY <1>1, <1>7, FrontedExists
<1>19. /\ l2[b] = l[b] + 1 /\ c2[b][0] = n /\ \A j \in 0 .. l[b] : c2[b][j + 1] = c[b][j]
       /\ \A d \in Table!Bucket \ {b} : l2[d] = l[d] /\ c2[d] = c[d]
  BY <1>18 DEF Fronted
<1>20. \A i \in 0 .. l[b] : i = 0 \/ (i - 1 \in 0 .. l[b] - 1 /\ i - 1 \in 0 .. l[b] /\ i = (i - 1) + 1)
  BY <1>7
<1>21. Chains(c2, l2)'
  <2>1. ASSUME NEW d \in Table!Bucket
        PROVE  l2[d] \in Nat /\ c2[d][l2[d]] = NULL /\ hBuckets'[d] = c2[d][0]
    <3>1. CASE d = b
      <4>1. l[b] \in 0 .. l[b] /\ l[b] + 1 \in Nat
        BY <1>7
      <4> QED BY <1>1, <1>2, <1>13, <1>19, <3>1, <4>1 DEF Chains
    <3>2. CASE d # b
      BY <1>2, <1>13, <1>19, <3>2 DEF Chains
    <3> QED BY <3>1, <3>2
  <2>2. ASSUME NEW d \in Table!Bucket, NEW i \in 0 .. l2[d] - 1
        PROVE  /\ c2[d][i] \in Used' /\ hHeap'[c2[d][i]].next = c2[d][i + 1]
               /\ Table!Idx(hHeap'[c2[d][i]].key) = d
    <3>1. CASE d = b /\ i = 0
      <4>1. 0 \in 0 .. l[b] /\ 0 + 1 = i + 1
        BY <1>7, <3>1
      <4>2. c2[b][i + 1] = c[b][0] /\ c2[b][i] = n
        BY <1>19, <3>1, <4>1
      <4> QED BY <1>7, <1>9, <1>10, <3>1, <4>2 DEF b
    <3>2. CASE d = b /\ i # 0
      <4> DEFINE j == i - 1
      <4>1. j \in 0 .. l[b] - 1 /\ j \in 0 .. l[b] /\ i = j + 1 /\ j + 1 \in 0 .. l[b]
        BY <1>7, <1>19, <3>2
      <4> HIDE DEF j
      <4>2. c2[b][i] = c[b][j] /\ c2[b][i + 1] = c[b][j + 1]
        BY <1>19, <4>1
      <4>3. c[b][j] \in Used /\ hHeap[c[b][j]].next = c[b][j + 1] /\ Table!Idx(hHeap[c[b][j]].key) = b
        BY <1>1, <1>2, <4>1 DEF Chains
      <4> QED BY <1>10, <1>11, <3>2, <4>2, <4>3
    <3>3. CASE d # b
      <4>1. l2[d] = l[d] /\ c2[d] = c[d]
        BY <1>19, <3>3
      <4>2. c[d][i] \in Used /\ hHeap[c[d][i]].next = c[d][i + 1] /\ Table!Idx(hHeap[c[d][i]].key) = d
        BY <1>2, <4>1 DEF Chains
      <4> QED BY <1>10, <1>11, <4>1, <4>2
    <3> QED BY <3>1, <3>2, <3>3
  <2>3. ASSUME NEW d \in Table!Bucket, NEW i \in 0 .. l2[d] - 1, NEW j \in 0 .. l2[d] - 1,
               c2[d][i] = c2[d][j]
        PROVE  i = j
    <3>1. CASE d = b
      <4>1. i \in 0 .. l[b] /\ j \in 0 .. l[b]
        BY <1>7, <1>19, <3>1
      <4>2. \A p, q \in 0 .. l[b] - 1 : c[b][p] = c[b][q] => p = q
        BY <1>1, <1>2 DEF Chains
      <4>3. \A p \in 0 .. l[b] : p # 0 => /\ p - 1 \in 0 .. l[b] - 1 /\ c2[b][p] = c[b][p - 1]
                                          /\ c[b][p - 1] # n
        <5>1. ASSUME NEW p \in 0 .. l[b], p # 0
              PROVE  /\ p - 1 \in 0 .. l[b] - 1 /\ c2[b][p] = c[b][p - 1] /\ c[b][p - 1] # n
          <6>1. p - 1 \in 0 .. l[b] - 1 /\ p - 1 \in 0 .. l[b] /\ p = (p - 1) + 1
            BY <1>20, <5>1
          <6>2. c2[b][p] = c[b][p - 1]
            BY <1>19, <6>1
          <6>3. c[b][p - 1] \in Used
            BY <1>1, <1>2, <6>1 DEF Chains
          <6> QED BY <1>10, <6>1, <6>2, <6>3
        <5> QED BY <5>1
      <4>4. CASE i = 0
        BY <1>19, <2>3, <3>1, <4>1, <4>3, <4>4
      <4>5. CASE i # 0
        <5>1. j # 0
          BY <1>19, <2>3, <3>1, <4>1, <4>3, <4>5
        <5>2. i - 1 = j - 1
          BY <2>3, <3>1, <4>1, <4>2, <4>3, <4>5, <5>1
        <5> QED BY <4>1, <5>2
      <4> QED BY <4>4, <4>5
    <3>2. CASE d # b
      BY <1>2, <1>19, <2>3, <3>2 DEF Chains
    <3> QED BY <3>1, <3>2
  <2>4. ASSUME NEW m \in Used'
        PROVE  \E i \in 0 .. l2[Table!Idx(hHeap'[m].key)] - 1 : c2[Table!Idx(hHeap'[m].key)][i] = m
    <3>1. CASE m = n
      <4>1. 0 \in 0 .. l2[b] - 1 /\ c2[b][0] = n /\ Table!Idx(hHeap'[n].key) = b
        BY <1>7, <1>9, <1>19 DEF b
      <4> QED BY <3>1, <4>1
    <3>2. CASE m # n
      <4> DEFINE d == Table!Idx(hHeap[m].key)
      <4>1. m \in Used /\ hHeap'[m] = hHeap[m] /\ d \in Table!Bucket
        BY <1>1, <1>10, <1>11, <3>2, EntryOf, IdxInBucket
      <4>2. PICK i \in 0 .. l[d] - 1 : c[d][i] = m
        BY <1>2, <4>1 DEF Chains
      <4> HIDE DEF d
      <4>3. \E j \in 0 .. l2[d] - 1 : c2[d][j] = m
        <5>1. CASE d = b
          <6>1. i \in 0 .. l[b] /\ i + 1 \in 0 .. l2[b] - 1
            BY <1>7, <1>19, <4>2, <5>1
          <6> QED BY <1>19, <4>2, <5>1, <6>1
        <5>2. CASE d # b
          BY <1>19, <4>1, <4>2, <5>2
        <5> QED BY <5>1, <5>2
      <4> QED BY <4>1, <4>3 DEF d
    <3> QED BY <3>1, <3>2
  <2> QED BY <2>1, <2>2, <2>3, <2>4 DEF Chains, Table!Idx, Table!Bucket
<1>22. TableInv'
  BY <1>16, <1>17, <1>21 DEF TableInv
<1> QED BY <1>3, <1>9, <1>10, <1>11, <1>22

-----------------------------------------------------------------------------
(* A removal sends every pointer to the entry past it. *)

LEMMA OnePointerTo ==
    ASSUME TableOK, NEW c, NEW l, Chains(c, l), NEW n \in Used,
           NEW b \in Table!Bucket, NEW r \in 0 .. l[b] - 1, c[b][r] = n
    PROVE  /\ \A d \in Table!Bucket : \A i \in 0 .. l[d] - 1 : c[d][i + 1] = n <=> d = b /\ i + 1 = r
           /\ \A d \in Table!Bucket : hBuckets[d] = n <=> d = b /\ r = 0
<1>1. n # NULL
  BY DEF Used, TableOK
<1>2. \A d \in Table!Bucket : \A i \in 0 .. l[d] - 1 : c[d][i] = n => d = b /\ i = r
  <2>1. Table!Idx(hHeap[n].key) = b
    BY DEF Chains
  <2>2. ASSUME NEW d \in Table!Bucket, NEW i \in 0 .. l[d] - 1, c[d][i] = n PROVE d = b /\ i = r
    <3>1. Table!Idx(hHeap[n].key) = d
      BY <2>2 DEF Chains
    <3> QED BY <2>1, <2>2, <3>1 DEF Chains
  <2> QED BY <2>2
<1>3. \A d \in Table!Bucket : l[d] \in Nat /\ c[d][l[d]] = NULL /\ hBuckets[d] = c[d][0]
  BY DEF Chains
<1>4. ASSUME NEW d \in Table!Bucket, NEW i \in 0 .. l[d], c[d][i] = n PROVE d = b /\ i = r
  <2>1. i # l[d] /\ l[d] \in Nat
    BY <1>1, <1>3, <1>4
  <2>2. i \in 0 .. l[d] - 1
    BY <2>1
  <2> QED BY <1>2, <1>4, <2>2
<1>5. \A d \in Table!Bucket : \A i \in 0 .. l[d] - 1 : c[d][i + 1] = n <=> d = b /\ i + 1 = r
  <2>1. ASSUME NEW d \in Table!Bucket, NEW i \in 0 .. l[d] - 1
        PROVE  c[d][i + 1] = n <=> d = b /\ i + 1 = r
    <3>1. i + 1 \in 0 .. l[d]
      BY <1>3
    <3> QED BY <1>4, <3>1
  <2> QED BY <2>1
<1>6. \A d \in Table!Bucket : hBuckets[d] = n <=> d = b /\ r = 0
  <2>1. ASSUME NEW d \in Table!Bucket PROVE hBuckets[d] = n <=> d = b /\ r = 0
    <3>1. 0 \in 0 .. l[d] /\ hBuckets[d] = c[d][0]
      BY <1>3
    <3> QED BY <1>4, <3>1
  <2> QED BY <2>1
<1> QED BY <1>5, <1>6

Past(n, p) == IF p = n THEN hHeap[n].next ELSE p

Detached(n) ==
    /\ hHeap'[n] = Freed /\ \A m \in Node \ {n} : hHeap[m] = Freed => hHeap'[m] = Freed
    /\ \A m \in Used \ {n} :
         hHeap'[m] = [key |-> hHeap[m].key, value |-> hHeap[m].value, next |-> Past(n, hHeap[m].next)]
    /\ hHeap' = [m \in Node |-> hHeap'[m]]
    /\ hBuckets' = [d \in Table!Bucket |-> Past(n, hBuckets[d])]
    /\ hSize' = hSize - 1

LEMMA EntryRecord ==
    ASSUME Entries, NEW m \in Used
    PROVE  hHeap[m] = [key |-> hHeap[m].key, value |-> hHeap[m].value, next |-> hHeap[m].next]
<1>1. hHeap[m] \in TCell
  BY EntryOf
<1> QED BY <1>1 DEF TCell

LEMMA RemoveDetaches ==
    ASSUME TableOK, TableInv, NEW k \in Keys, Table!Remove(k)
    PROVE  \E n \in Used : hHeap[n].key = k /\ Detached(n)
<1> DEFINE b == Table!Idx(k)
           r == Table!Pos(k)
<1>1. Entries /\ b \in Table!Bucket /\ Table!Found(k)
  BY IdxInBucket DEF TableInv, Table!Remove
<1>2. PICK n : n = Table!Hit(k)
  OBVIOUS
<1>3. n \in Used /\ hHeap[n].key = k
  BY <1>1, <1>2, FoundHolds
<1>4. PICK c, l : Chains(c, l)
  BY DEF TableInv
<1>5. r \in 0 .. l[b] - 1 /\ c[b][r] = n
  BY <1>3, <1>4, FoundAt
<1>6. /\ hHeap = [m \in Node |-> hHeap[m]] /\ hBuckets = [d \in Table!Bucket |-> hBuckets[d]]
  BY <1>1 DEF Entries
<1>7. hSize' = hSize - 1 /\ Table!Bypassed(k)
  BY DEF Table!Remove
<1>8. \/ /\ r = 0
         /\ hBuckets' = [hBuckets EXCEPT ![b] = hHeap[n].next]
         /\ hHeap' = [hHeap EXCEPT ![n] = Freed]
      \/ /\ r # 0
         /\ hHeap' = [hHeap EXCEPT ![Table!Entry(b)[r - 1]].next = hHeap[n].next, ![n] = Freed]
         /\ hBuckets' = hBuckets
  BY <1>2, <1>7 DEF Table!Bypassed
<1> HIDE DEF b, r
<1>9. l[b] \in Nat
  BY <1>1, <1>4 DEF Chains
<1>10. /\ \A d \in Table!Bucket : \A i \in 0 .. l[d] - 1 : c[d][i + 1] = n <=> d = b /\ i + 1 = r
       /\ \A d \in Table!Bucket : hBuckets[d] = n <=> d = b /\ r = 0
  BY <1>1, <1>3, <1>4, <1>5, OnePointerTo
<1>11. ASSUME NEW m \in Used, hHeap[m].next = n PROVE r # 0 /\ m = c[b][r - 1]
  <2> DEFINE d == Table!Idx(hHeap[m].key)
  <2>1. d \in Table!Bucket
    BY <1>1, EntryOf, IdxInBucket
  <2>2. PICK i \in 0 .. l[d] - 1 : c[d][i] = m
    BY <1>4 DEF Chains
  <2> HIDE DEF d
  <2>3. c[d][i + 1] = n
    BY <1>4, <1>11, <2>1, <2>2 DEF Chains
  <2>4. d = b /\ i + 1 = r /\ i = r - 1
    BY <1>5, <1>10, <2>1, <2>3
  <2> QED BY <2>2, <2>4
<1>12. CASE r = 0
  <2>1. hBuckets' = [hBuckets EXCEPT ![b] = hHeap[n].next] /\ hHeap' = [hHeap EXCEPT ![n] = Freed]
    BY <1>8, <1>12
  <2>2. hBuckets' = [d \in Table!Bucket |-> Past(n, hBuckets[d])]
    BY <1>1, <1>6, <1>10, <1>12, <2>1 DEF Past
  <2>3. hHeap'[n] = Freed /\ (\A m \in Node \ {n} : hHeap'[m] = hHeap[m]) /\ hHeap' = [m \in Node |-> hHeap'[m]]
    BY <1>3, <1>6, <2>1 DEF Used
  <2>4. ASSUME NEW m \in Used \ {n}
        PROVE  hHeap'[m] = [key |-> hHeap[m].key, value |-> hHeap[m].value, next |-> Past(n, hHeap[m].next)]
    <3>1. hHeap'[m] = hHeap[m]
      BY <2>3 DEF Used
    <3>2. Past(n, hHeap[m].next) = hHeap[m].next
      BY <1>11, <1>12 DEF Past
    <3> QED BY <1>1, <3>1, <3>2, EntryRecord
  <2> QED BY <1>3, <1>7, <2>2, <2>3, <2>4 DEF Detached
<1>13. CASE r # 0
  <2>1. PICK p : p = c[b][r - 1]
    OBVIOUS
  <2>2. r - 1 \in 0 .. l[b] - 1 /\ r - 1 \in 0 .. l[b] /\ r - 1 + 1 = r /\ r - 1 # r
    BY <1>5, <1>9, <1>13
  <2>3. p \in Used /\ hHeap[p].next = n
    BY <1>1, <1>4, <1>5, <2>1, <2>2 DEF Chains
  <2>4. p # n
    BY <1>1, <1>4, <1>5, <2>1, <2>2 DEF Chains
  <2>5. Table!Entry(b)[r - 1] = p
    BY <1>1, <1>4, <2>1, <2>2, WalkBucket
  <2>6. hHeap' = [hHeap EXCEPT ![p].next = hHeap[n].next, ![n] = Freed] /\ hBuckets' = hBuckets
    BY <1>8, <1>13, <2>5
  <2>7. hBuckets' = [d \in Table!Bucket |-> Past(n, hBuckets[d])]
    BY <1>6, <1>10, <1>13, <2>6 DEF Past
  <2>8. p \in Node /\ n \in Node
    BY <1>3, <2>3 DEF Used
  <2>9. /\ hHeap'[n] = Freed /\ hHeap' = [m \in Node |-> hHeap'[m]]
        /\ \A m \in Node \ {n, p} : hHeap'[m] = hHeap[m]
    BY <1>6, <2>6, <2>8
  <2>10. hHeap'[p] = [hHeap[p] EXCEPT !.next = hHeap[n].next]
    BY <1>6, <2>4, <2>6, <2>8
  <2>11. hHeap'[p] = [key |-> hHeap[p].key, value |-> hHeap[p].value, next |-> hHeap[n].next]
    <3>1. hHeap[p] = [key |-> hHeap[p].key, value |-> hHeap[p].value, next |-> hHeap[p].next]
      BY <1>1, <2>3, EntryRecord
    <3> QED BY <2>10, <3>1
  <2>12. ASSUME NEW m \in Used \ {n}
         PROVE  hHeap'[m] = [key |-> hHeap[m].key, value |-> hHeap[m].value, next |-> Past(n, hHeap[m].next)]
    <3>1. CASE m = p
      BY <2>3, <2>11, <3>1 DEF Past
    <3>2. CASE m # p
      <4>1. hHeap'[m] = hHeap[m]
        BY <2>9, <3>2 DEF Used
      <4>2. Past(n, hHeap[m].next) = hHeap[m].next
        BY <1>11, <2>1, <3>2 DEF Past
      <4> QED BY <1>1, <4>1, <4>2, EntryRecord
    <3> QED BY <3>1, <3>2
  <2>13. \A m \in Node \ {n} : hHeap[m] = Freed => hHeap'[m] = Freed
    BY <2>3, <2>9 DEF Used
  <2> QED BY <1>3, <1>7, <2>7, <2>9, <2>12, <2>13 DEF Detached
<1> QED BY <1>12, <1>13

CutOut(c, l, b, r, c2, l2) ==
    /\ l2[b] = l[b] - 1
    /\ \A j \in 0 .. l[b] - 1 : /\ j < r => c2[b][j] = c[b][j]
                                /\ j >= r => c2[b][j] = c[b][j + 1]
    /\ \A d \in Table!Bucket \ {b} : l2[d] = l[d] /\ c2[d] = c[d]

LEMMA CutExists ==
    ASSUME NEW c, NEW l, NEW b \in Table!Bucket, NEW r, l[b] \in Nat, r \in 0 .. l[b] - 1
    PROVE  \E c2, l2 : CutOut(c, l, b, r, c2, l2)
<1> DEFINE c2 == [d \in Table!Bucket |->
                    IF d = b THEN [j \in 0 .. l[b] - 1 |-> IF j < r THEN c[b][j] ELSE c[b][j + 1]] ELSE c[d]]
           l2 == [d \in Table!Bucket |-> IF d = b THEN l[b] - 1 ELSE l[d]]
<1>1. c2[b] = [j \in 0 .. l[b] - 1 |-> IF j < r THEN c[b][j] ELSE c[b][j + 1]] /\ l2[b] = l[b] - 1
  OBVIOUS
<1>2. \A d \in Table!Bucket \ {b} : l2[d] = l[d] /\ c2[d] = c[d]
  OBVIOUS
<1> HIDE DEF c2, l2
<1>3. \A j \in 0 .. l[b] - 1 : c2[b][j] = IF j < r THEN c[b][j] ELSE c[b][j + 1]
  BY <1>1
<1>4. CutOut(c, l, b, r, c2, l2)
  BY <1>1, <1>2, <1>3 DEF CutOut
<1> QED BY <1>4

LEMMA DetachedEntries ==
    ASSUME TableOK, TableInv, NEW n \in Used, Detached(n)
    PROVE  /\ Entries' /\ OneEntryPerKey' /\ Used' = Used \ {n}
           /\ \A m \in Used \ {n} : hHeap'[m].key = hHeap[m].key /\ hHeap'[m].value = hHeap[m].value
                                    /\ hHeap'[m].next = Past(n, hHeap[m].next)
<1>1. Entries /\ OneEntryPerKey
  BY DEF TableInv
<1>2. ASSUME NEW m \in Used \ {n}
      PROVE  /\ hHeap'[m] \in TCell /\ hHeap'[m].key = hHeap[m].key /\ hHeap'[m].value = hHeap[m].value
             /\ hHeap'[m].next = Past(n, hHeap[m].next)
  <2>1. hHeap'[m] = [key |-> hHeap[m].key, value |-> hHeap[m].value, next |-> Past(n, hHeap[m].next)]
    BY DEF Detached
  <2>2. Past(n, hHeap[m].next) \in Node \cup {NULL}
    BY <1>1, EntryOf DEF Past
  <2>3. hHeap[m].key \in Keys /\ hHeap[m].value \in Values \cup {NULL}
    BY <1>1, EntryOf
  <2> QED BY <2>1, <2>2, <2>3 DEF TCell
<1>3. \A m \in Node \ Used : hHeap'[m] = Freed
  BY DEF Detached, Used
<1>4. n \in Node /\ hHeap'[n] = Freed /\ Used \subseteq Node
  BY DEF Detached, Used
<1>5. Used' = Used \ {n}
  BY <1>2, <1>3, <1>4 DEF Used, TableOK
<1>6. hHeap' \in [Node -> TCell \cup {Freed}]
  <2>1. ASSUME NEW m \in Node PROVE hHeap'[m] \in TCell \cup {Freed}
    BY <1>2, <1>3, <1>4
  <2> QED BY <2>1 DEF Detached
<1>7. hBuckets' = [d \in Table!Bucket |-> hBuckets'[d]]
  BY DEF Detached
<1>8. hSize' = Cardinality(Used')
  <2>1. IsFiniteSet(Used) /\ hSize = Cardinality(Used)
    BY <1>1, UsedFinite DEF Entries
  <2>2. Cardinality(Used \ {n}) = Cardinality(Used) - 1
    BY <2>1, FS_RemoveElement
  <2> QED BY <1>5, <2>1, <2>2 DEF Detached
<1>9. Table!Bucket' = Table!Bucket
  BY DEF Table!Bucket
<1>10. Entries'
  BY <1>6, <1>7, <1>8, <1>9 DEF Entries
<1>11. OneEntryPerKey'
  BY <1>1, <1>2, <1>5 DEF OneEntryPerKey
<1> QED BY <1>2, <1>5, <1>10, <1>11

LEMMA RemoveStep ==
    ASSUME TableOK, TableInv, NEW n \in Used, Detached(n)
    PROVE  TableInv'
<1> DEFINE b == Table!Idx(hHeap[n].key)
<1>1. Entries /\ b \in Table!Bucket
  BY EntryOf, IdxInBucket DEF TableInv
<1>2. PICK c, l : Chains(c, l)
  BY DEF TableInv
<1>3. PICK r \in 0 .. l[b] - 1 : c[b][r] = n
  BY <1>2 DEF Chains
<1>4. /\ Entries' /\ OneEntryPerKey' /\ Used' = Used \ {n}
      /\ \A m \in Used \ {n} : hHeap'[m].key = hHeap[m].key /\ hHeap'[m].next = Past(n, hHeap[m].next)
  BY DetachedEntries
<1>5. \A d \in Table!Bucket : hBuckets'[d] = Past(n, hBuckets[d])
  BY DEF Detached
<1> HIDE DEF b
<1>6. l[b] \in Nat /\ hHeap[n].next = c[b][r + 1]
  BY <1>1, <1>2, <1>3 DEF Chains
<1>7. /\ \A d \in Table!Bucket : \A i \in 0 .. l[d] - 1 : c[d][i + 1] = n <=> d = b /\ i + 1 = r
      /\ \A d \in Table!Bucket : hBuckets[d] = n <=> d = b /\ r = 0
  BY <1>1, <1>2, <1>3, OnePointerTo
<1>8. PICK c2, l2 : CutOut(c, l, b, r, c2, l2)
  BY <1>1, <1>3, <1>6, CutExists
<1>9. /\ l2[b] = l[b] - 1
      /\ \A j \in 0 .. l[b] - 1 : /\ j < r => c2[b][j] = c[b][j]
                                  /\ j >= r => c2[b][j] = c[b][j + 1]
      /\ \A d \in Table!Bucket \ {b} : l2[d] = l[d] /\ c2[d] = c[d]
  BY <1>8 DEF CutOut
\* An entry of the bucket other than n keeps its successor unless that is n.
<1>10. ASSUME NEW d \in Table!Bucket, NEW i \in 0 .. l[d] - 1, ~(d = b /\ i = r)
       PROVE  /\ c[d][i] \in Used \ {n} /\ Table!Idx(hHeap'[c[d][i]].key) = d
              /\ hHeap'[c[d][i]].next = IF d = b /\ i + 1 = r THEN c[b][r + 1] ELSE c[d][i + 1]
  <2>1. c[d][i] \in Used /\ hHeap[c[d][i]].next = c[d][i + 1] /\ Table!Idx(hHeap[c[d][i]].key) = d
    BY <1>2 DEF Chains
  <2>2. c[d][i] # n
    <3>1. CASE d = b
      BY <1>2, <1>3, <1>10, <3>1 DEF Chains
    <3>2. CASE d # b
      BY <2>1, <3>2 DEF b
    <3> QED BY <3>1, <3>2
  <2> QED BY <1>4, <1>6, <1>7, <2>1, <2>2 DEF Past
<1>11. Chains(c2, l2)'
  <2>1. ASSUME NEW d \in Table!Bucket
        PROVE  l2[d] \in Nat /\ c2[d][l2[d]] = NULL /\ hBuckets'[d] = c2[d][0]
    <3>0. l[d] \in Nat /\ c[d][l[d]] = NULL /\ hBuckets[d] = c[d][0]
      BY <1>2 DEF Chains
    <3>1. CASE d = b
      <4>1. l[b] - 1 \in Nat /\ l[b] - 1 \in 0 .. l[b] - 1 /\ l[b] - 1 >= r /\ l[b] - 1 + 1 = l[b]
        BY <1>3, <1>6
      <4>2. c2[b][l[b] - 1] = NULL
        BY <1>9, <3>0, <3>1, <4>1
      <4>3. hBuckets'[b] = c2[b][0]
        <5>1. 0 \in 0 .. l[b] - 1
          BY <1>3, <1>6
        <5>2. CASE r = 0
          <6>1. hBuckets'[b] = c[b][0 + 1]
            BY <1>1, <1>5, <1>6, <1>7, <5>2 DEF Past
          <6> QED BY <1>9, <5>1, <5>2, <6>1
        <5>3. CASE r # 0
          <6>1. hBuckets'[b] = c[b][0]
            BY <1>1, <1>5, <1>7, <3>0, <3>1, <5>3 DEF Past
          <6>2. 0 < r
            BY <1>3, <5>3
          <6> QED BY <1>9, <5>1, <6>1, <6>2
        <5> QED BY <5>2, <5>3
      <4> QED BY <1>9, <3>1, <4>1, <4>2, <4>3
    <3>2. CASE d # b
      BY <1>5, <1>7, <1>9, <3>0, <3>2 DEF Past
    <3> QED BY <3>1, <3>2
  <2>2. ASSUME NEW d \in Table!Bucket, NEW i \in 0 .. l2[d] - 1
        PROVE  /\ c2[d][i] \in Used' /\ hHeap'[c2[d][i]].next = c2[d][i + 1]
               /\ Table!Idx(hHeap'[c2[d][i]].key) = d
    <3>1. CASE d = b /\ i < r
      <4>1. i \in 0 .. l[b] - 1 /\ i + 1 \in 0 .. l[b] - 1 /\ i # r
        BY <1>3, <1>6, <1>9, <3>1
      <4>2. c2[b][i] = c[b][i]
        BY <1>9, <3>1, <4>1
      <4>3. c2[b][i + 1] = IF i + 1 = r THEN c[b][r + 1] ELSE c[b][i + 1]
        <5>1. CASE i + 1 = r
          BY <1>3, <1>9, <4>1, <5>1
        <5>2. CASE i + 1 # r
          <6>1. i + 1 < r
            BY <1>3, <3>1, <4>1, <5>2
          <6> QED BY <1>9, <4>1, <5>2, <6>1
        <5> QED BY <5>1, <5>2
      <4> QED BY <1>1, <1>4, <1>10, <3>1, <4>1, <4>2, <4>3
    <3>2. CASE d = b /\ i >= r
      <4> DEFINE j == i + 1
      <4>1. i \in 0 .. l[b] - 1 /\ j \in 0 .. l[b] - 1 /\ j # r /\ j + 1 # r /\ j >= r
        BY <1>3, <1>6, <1>9, <3>2
      <4>2. c2[b][i] = c[b][j]
        BY <1>9, <3>2, <4>1
      <4>3. i + 1 = j
        OBVIOUS
      <4> HIDE DEF j
      <4>4. c2[b][j] = c[b][j + 1]
        BY <1>9, <4>1
      <4>5. c[b][j] \in Used \ {n} /\ Table!Idx(hHeap'[c[b][j]].key) = b /\ hHeap'[c[b][j]].next = c[b][j + 1]
        BY <1>1, <1>10, <4>1
      <4> QED BY <1>4, <3>2, <4>2, <4>3, <4>4, <4>5
    <3>3. CASE d # b
      <4>1. l2[d] = l[d] /\ c2[d] = c[d]
        BY <1>9, <3>3
      <4> QED BY <1>4, <1>10, <3>3, <4>1
    <3>4. d = b => i < r \/ i >= r
      BY <1>3, <1>6, <1>9
    <3> QED BY <3>1, <3>2, <3>3, <3>4
  <2>3. ASSUME NEW d \in Table!Bucket, NEW i \in 0 .. l2[d] - 1, NEW j \in 0 .. l2[d] - 1,
               c2[d][i] = c2[d][j]
        PROVE  i = j
    <3>1. CASE d = b
      <4>1. \A p, q \in 0 .. l[b] - 1 : c[b][p] = c[b][q] => p = q
        BY <1>1, <1>2 DEF Chains
      <4>2. i \in 0 .. l[b] - 2 /\ j \in 0 .. l[b] - 2 /\ r \in 0 .. l[b] - 1
        BY <1>3, <1>6, <1>9, <3>1
      <4>3. \A p \in 0 .. l[b] - 2 : /\ p \in 0 .. l[b] - 1 /\ p + 1 \in 0 .. l[b] - 1
                                     /\ p < r => c2[b][p] = c[b][p]
                                     /\ p >= r => c2[b][p] = c[b][p + 1]
        BY <1>6, <1>9
      <4>4. CASE i < r /\ j < r
        BY <2>3, <3>1, <4>1, <4>2, <4>3, <4>4
      <4>5. CASE i < r /\ j >= r
        <5>1. i = j + 1
          BY <2>3, <3>1, <4>1, <4>2, <4>3, <4>5
        <5> QED BY <4>2, <4>5, <5>1
      <4>6. CASE i >= r /\ j < r
        <5>1. i + 1 = j
          BY <2>3, <3>1, <4>1, <4>2, <4>3, <4>6
        <5> QED BY <4>2, <4>6, <5>1
      <4>7. CASE i >= r /\ j >= r
        <5>1. i + 1 = j + 1
          BY <2>3, <3>1, <4>1, <4>2, <4>3, <4>7
        <5> QED BY <4>2, <5>1
      <4> QED BY <4>2, <4>4, <4>5, <4>6, <4>7
    <3>2. CASE d # b
      BY <1>2, <1>9, <2>3, <3>2 DEF Chains
    <3> QED BY <3>1, <3>2
  <2>4. ASSUME NEW m \in Used'
        PROVE  \E i \in 0 .. l2[Table!Idx(hHeap'[m].key)] - 1 : c2[Table!Idx(hHeap'[m].key)][i] = m
    <3> DEFINE d == Table!Idx(hHeap[m].key)
    <3>1. m \in Used /\ m # n /\ hHeap'[m].key = hHeap[m].key
      BY <1>4
    <3>2. d \in Table!Bucket
      BY <1>1, <3>1, EntryOf, IdxInBucket
    <3>3. PICK i \in 0 .. l[d] - 1 : c[d][i] = m
      BY <1>2, <3>1 DEF Chains
    <3> HIDE DEF d
    <3>4. \E j \in 0 .. l2[d] - 1 : c2[d][j] = m
      <4>1. CASE d = b /\ i < r
        <5>1. i \in 0 .. l2[b] - 1 /\ i \in 0 .. l[b] - 1
          BY <1>3, <1>6, <1>9, <3>3, <4>1
        <5> QED BY <1>9, <3>3, <4>1, <5>1
      <4>2. CASE d = b /\ i > r
        <5>1. i - 1 \in 0 .. l2[b] - 1 /\ i - 1 \in 0 .. l[b] - 1 /\ i - 1 >= r /\ i - 1 + 1 = i
          BY <1>3, <1>6, <1>9, <3>3, <4>2
        <5>2. c2[b][i - 1] = c[b][i]
          BY <1>9, <5>1
        <5> QED BY <3>3, <4>2, <5>1, <5>2
      <4>3. CASE d # b
        BY <1>9, <3>2, <3>3, <4>3
      <4>4. ~(d = b /\ i = r)
        BY <1>3, <3>1, <3>3
      <4>5. d = b => i < r \/ i > r
        BY <1>3, <1>6, <3>3, <4>4
      <4> QED BY <4>1, <4>2, <4>3, <4>5
    <3> QED BY <3>1, <3>4 DEF d
  <2> QED BY <2>1, <2>2, <2>3, <2>4 DEF Chains, Table!Idx, Table!Bucket
<1> QED BY <1>4, <1>11 DEF TableInv

-----------------------------------------------------------------------------
(* The dictionary the table stands for. *)

MapOK == None \notin Values \cup {NULL}

TMap == [k \in Keys |-> IF Table!Found(k) THEN hHeap[Table!Hit(k)].value ELSE None]

MapFacts ==
    TableOK /\ TableInv =>
      /\ \A n \in Used : hHeap[n].key \in Keys /\ TMap[hHeap[n].key] = hHeap[n].value
      /\ \A k \in Keys : (\A n \in Used : hHeap[n].key # k) => TMap[k] = None

LEMMA MapIs == MapFacts
<1> SUFFICES ASSUME TableOK, TableInv
             PROVE  /\ \A n \in Used : hHeap[n].key \in Keys /\ TMap[hHeap[n].key] = hHeap[n].value
                    /\ \A k \in Keys : (\A n \in Used : hHeap[n].key # k) => TMap[k] = None
  BY DEF MapFacts
<1>1. PICK c, l : Chains(c, l)
  BY DEF TableInv
<1>2. ASSUME NEW n \in Used PROVE hHeap[n].key \in Keys /\ TMap[hHeap[n].key] = hHeap[n].value
  <2>1. hHeap[n].key \in Keys
    BY EntryOf DEF TableInv
  <2>2. Table!Found(hHeap[n].key) /\ Table!Hit(hHeap[n].key) = n
    BY <1>1, <2>1, FoundAt
  <2> QED BY <2>1, <2>2 DEF TMap
<1>3. ASSUME NEW k \in Keys, \A n \in Used : hHeap[n].key # k PROVE TMap[k] = None
  <2>1. ~Table!Found(k)
    BY <1>3, FoundHolds
  <2> QED BY <2>1 DEF TMap
<1> QED BY <1>2, <1>3

LEMMA MapNext ==
    ASSUME TableOK, TableInv'
    PROVE  /\ \A n \in Used' : hHeap'[n].key \in Keys /\ TMap'[hHeap'[n].key] = hHeap'[n].value
           /\ \A k \in Keys : (\A n \in Used' : hHeap'[n].key # k) => TMap'[k] = None
<1>1. MapFacts'
  BY MapIs, PTL
<1>2. TableOK'
  BY DEF TableOK, TCell
<1> QED BY <1>1, <1>2 DEF MapFacts

LEMMA MapFunction == TMap = [k \in Keys |-> TMap[k]] /\ TMap' = [k \in Keys |-> TMap'[k]]
  BY DEF TMap

\* A value for one key, all others as they were.
LEMMA MapUpdate ==
    ASSUME TableOK, TableInv, TableInv', NEW k \in Keys, NEW v,
           TMap'[k] = v,
           \A m \in Used : hHeap[m].key # k => /\ m \in Used' /\ hHeap'[m].key = hHeap[m].key
                                               /\ hHeap'[m].value = hHeap[m].value,
           \A m \in Used' : hHeap'[m].key # k => m \in Used /\ hHeap[m].key = hHeap'[m].key
    PROVE  TMap' = [TMap EXCEPT ![k] = v]
<1>1. ASSUME NEW q \in Keys, q # k PROVE TMap'[q] = TMap[q]
  <2>1. CASE \E m \in Used : hHeap[m].key = q
    <3>1. PICK m \in Used : hHeap[m].key = q
      BY <2>1
    <3>2. m \in Used' /\ hHeap'[m].key = q /\ hHeap'[m].value = hHeap[m].value
      BY <1>1, <3>1
    <3>3. TMap[q] = hHeap[m].value
      BY <3>1, MapIs DEF MapFacts
    <3>4. TMap'[q] = hHeap'[m].value
      BY <3>2, MapNext
    <3> QED BY <3>2, <3>3, <3>4
  <2>2. CASE \A m \in Used : hHeap[m].key # q
    <3>1. \A m \in Used' : hHeap'[m].key # q
      BY <1>1, <2>2
    <3>2. TMap[q] = None
      BY <2>2, MapIs DEF MapFacts
    <3>3. TMap'[q] = None
      BY <3>1, MapNext
    <3> QED BY <3>2, <3>3
  <2> QED BY <2>1, <2>2
<1>2. [TMap EXCEPT ![k] = v] = [q \in Keys |-> IF q = k THEN v ELSE TMap[q]]
  BY MapFunction
<1>3. TMap' = [q \in Keys |-> TMap'[q]]
  BY MapFunction
<1>4. ASSUME NEW q \in Keys PROVE TMap'[q] = IF q = k THEN v ELSE TMap[q]
  BY <1>1
<1> QED BY <1>2, <1>3, <1>4

LEMMA MapOfFound ==
    ASSUME TableOK, TableInv, NEW k \in Keys
    PROVE  /\ Table!Found(k) => /\ TMap[k] = hHeap[Table!Hit(k)].value
                                /\ TMap[k] \in Values \cup {NULL}
           /\ ~Table!Found(k) => TMap[k] = None
<1>1. ASSUME Table!Found(k) PROVE hHeap[Table!Hit(k)].value \in Values \cup {NULL}
  <2>1. Table!Hit(k) \in Used
    BY <1>1, FoundHolds
  <2> QED BY <2>1, EntryOf DEF TableInv
<1> QED BY <1>1 DEF TMap

LEMMA MapStays ==
    ASSUME UNCHANGED <<hBuckets, hHeap, hSize>>
    PROVE  TMap' = TMap /\ (TableInv <=> TableInv')
<1>1. \A b : Table!Entry(b)' = Table!Entry(b)
  BY DEF Table!Entry
<1>2. \A k : Table!Positions(k)' = Table!Positions(k)
  BY <1>1 DEF Table!Positions, Table!Idx
<1>3. \A k : Table!Found(k)' = Table!Found(k) /\ Table!Hit(k)' = Table!Hit(k)
  BY <1>1, <1>2 DEF Table!Found, Table!Hit, Table!Pos, Table!Idx
<1>4. Used' = Used
  BY DEF Used
<1>5. \A c, l : Chains(c, l)' <=> Chains(c, l)
  BY <1>4 DEF Chains, Table!Bucket, Table!Idx
<1>6. Entries' <=> Entries
  BY <1>4 DEF Entries, Table!Bucket
<1>7. OneEntryPerKey' <=> OneEntryPerKey
  BY <1>4 DEF OneEntryPerKey
<1> QED BY <1>3, <1>5, <1>6, <1>7 DEF TMap, TableInv

LEMMA OverwriteRefines ==
    ASSUME TableOK, MapOK, TableInv, NEW k \in Keys,
           \/ \E v \in Values : Table!Overwrite(k, v)
           \/ Table!OverwriteFails(k)
    PROVE  TableInv' /\ Table!Abs!Next
<1>1. PICK v \in Values \cup {NULL} :
        /\ Table!Found(k) /\ hHeap' = [hHeap EXCEPT ![Table!Hit(k)].value = v]
        /\ UNCHANGED <<hBuckets, hSize>>
        /\ \/ v \in Values /\ hOut' = Table!Answer("insert", 0, k, None)
           \/ v = NULL /\ hOut' = Table!Answer("insert", -1, k, None)
  BY DEF Table!Overwrite, Table!OverwriteFails
<1>2. PICK n : n = Table!Hit(k)
  OBVIOUS
<1>3. n \in Used /\ hHeap[n].key = k
  BY <1>1, <1>2, FoundHolds
<1>4. hHeap' = [hHeap EXCEPT ![n].value = v]
  BY <1>1, <1>2
<1>5. /\ TableInv' /\ Used' = Used /\ hHeap'[n].value = v
      /\ \A m \in Used : /\ hHeap'[m].key = hHeap[m].key
                         /\ m # n => hHeap'[m].value = hHeap[m].value
  BY <1>1, <1>3, <1>4, ValueStep
<1>6. TMap'[k] = v
  BY <1>3, <1>5, MapNext
<1>7. TMap' = [TMap EXCEPT ![k] = v]
  BY <1>3, <1>5, <1>6, MapUpdate
<1>8. TMap[k] # None
  BY <1>1, MapOfFound DEF MapOK
<1>9. CASE v \in Values /\ hOut' = Table!Answer("insert", 0, k, None)
  <2>1. Table!Abs!Put(k, v)
    BY <1>7, <1>9 DEF Table!Abs!Put, Table!Abs!Answer, Table!Answer, TMap
  <2> QED BY <1>5, <1>9, <2>1 DEF Table!Abs!Next
<1>10. CASE v = NULL /\ hOut' = Table!Answer("insert", -1, k, None)
  <2>1. Table!Abs!PutFails(k)
    BY <1>7, <1>8, <1>10 DEF Table!Abs!PutFails, Table!Abs!Answer, Table!Answer, TMap
  <2> QED BY <1>5, <2>1 DEF Table!Abs!Next
<1> QED BY <1>1, <1>9, <1>10

LEMMA InsertNewRefines ==
    ASSUME TableOK, TableInv, NEW n \in Node, NEW k \in Keys, NEW v \in Values,
           Table!InsertNew(n, k, v)
    PROVE  TableInv' /\ Table!Abs!Next
<1>1. /\ TableInv' /\ n \notin Used /\ Used' = Used \cup {n}
      /\ hHeap'[n].key = k /\ hHeap'[n].value = v
      /\ \A m \in Used : hHeap'[m] = hHeap[m] /\ hHeap[m].key # k
  BY InsertStep
<1>2. TMap'[k] = v
  BY <1>1, MapNext
<1>3. TMap' = [TMap EXCEPT ![k] = v]
  BY <1>1, <1>2, MapUpdate
<1>4. hOut' = Table!Answer("insert", 0, k, None)
  BY DEF Table!InsertNew
<1>5. Table!Abs!Put(k, v)
  BY <1>3, <1>4 DEF Table!Abs!Put, Table!Abs!Answer, Table!Answer, TMap
<1> QED BY <1>1, <1>5 DEF Table!Abs!Next

LEMMA RemoveRefines ==
    ASSUME TableOK, MapOK, TableInv, NEW k \in Keys, Table!Remove(k)
    PROVE  TableInv' /\ Table!Abs!Next
<1>1. PICK n \in Used : hHeap[n].key = k /\ Detached(n)
  BY RemoveDetaches
<1>2. TableInv'
  BY <1>1, RemoveStep
<1>3. /\ Used' = Used \ {n}
      /\ \A m \in Used \ {n} : hHeap'[m].key = hHeap[m].key /\ hHeap'[m].value = hHeap[m].value
  BY <1>1, DetachedEntries
<1>4. \A m \in Used \ {n} : hHeap[m].key # k
  BY <1>1 DEF TableInv, OneEntryPerKey
<1>5. TMap'[k] = None
  BY <1>2, <1>3, <1>4, MapNext
<1>6. TMap' = [TMap EXCEPT ![k] = None]
  BY <1>1, <1>2, <1>3, <1>4, <1>5, MapUpdate
<1>7. Table!Found(k) /\ hOut' = Table!Answer("remove", 0, k, None)
  BY DEF Table!Remove
<1>8. TMap[k] # None
  BY <1>7, MapOfFound DEF MapOK
<1>9. Table!Abs!Delete(k)
  BY <1>6, <1>7, <1>8 DEF Table!Abs!Delete, Table!Abs!Answer, Table!Answer, TMap
<1> QED BY <1>2, <1>9 DEF Table!Abs!Next

\* A failed call and a search change nothing, and answer by what the dictionary holds.
LEMMA AnswerRefines ==
    ASSUME TableOK, MapOK, TableInv, NEW k \in Keys,
           Table!InsertFails(k) \/ Table!Search(k) \/ Table!RemoveFails(k)
    PROVE  TableInv' /\ Table!Abs!Next
<1>1. UNCHANGED <<hBuckets, hHeap, hSize>>
  BY DEF Table!InsertFails, Table!Search, Table!RemoveFails
<1>2. TMap' = TMap /\ TableInv'
  BY <1>1, MapStays
<1>3. CASE Table!InsertFails(k)
  <2>1. Table!Abs!PutFails(k)
    BY <1>2, <1>3 DEF Table!InsertFails, Table!Abs!PutFails, Table!Abs!Answer, Table!Answer, TMap
  <2> QED BY <1>2, <2>1 DEF Table!Abs!Next
<1>4. CASE Table!Search(k) /\ Table!Found(k)
  <2>1. PICK v : v = TMap[k]
    OBVIOUS
  <2>2. v \in Values \cup {NULL} /\ hOut' = Table!Answer("search", 0, k, v)
    BY <1>4, <2>1, MapOfFound DEF Table!Search
  <2>3. Table!Abs!Lookup(k, v)
    BY <1>2, <2>1, <2>2 DEF Table!Abs!Lookup, Table!Abs!Answer, Table!Answer, TMap
  <2> QED BY <1>2, <2>2, <2>3 DEF Table!Abs!Next
<1>5. CASE Table!Search(k) /\ ~Table!Found(k)
  <2>1. TMap[k] = None /\ hOut' = Table!Answer("search", -1, k, None)
    BY <1>5, MapOfFound DEF Table!Search
  <2>2. Table!Abs!Absent(k, "search")
    BY <1>2, <2>1 DEF Table!Abs!Absent, Table!Abs!Answer, Table!Answer, TMap
  <2> QED BY <1>2, <2>2 DEF Table!Abs!Next
<1>6. CASE Table!RemoveFails(k)
  <2>1. TMap[k] = None /\ hOut' = Table!Answer("remove", -1, k, None)
    BY <1>6, MapOfFound DEF Table!RemoveFails
  <2>2. Table!Abs!Absent(k, "remove")
    BY <1>2, <2>1 DEF Table!Abs!Absent, Table!Abs!Answer, Table!Answer, TMap
  <2> QED BY <1>2, <2>2 DEF Table!Abs!Next
<1> QED BY <1>3, <1>4, <1>5, <1>6

LEMMA DestroyRefines ==
    ASSUME TableOK, TableInv, Table!Destroy
    PROVE  TableInv' /\ Table!Abs!Next
<1>1. Emptied'
  BY DestroyEmpties
<1>2. TableInv' /\ Used' = {}
  BY <1>1, EmptyTableNext
<1>3. TMap' = [k \in Keys |-> None]
  <2>1. \A k \in Keys : TMap'[k] = None
    BY <1>2, MapNext
  <2> QED BY <2>1, MapFunction
<1>4. Table!Abs!Destroy
  BY <1>3 DEF Table!Destroy, Table!Abs!Destroy, Table!Abs!Answer, Table!Answer, TMap
<1> QED BY <1>2, <1>4 DEF Table!Abs!Next

LEMMA TableStep ==
    ASSUME TableOK, MapOK
    PROVE  TableInv /\ [Table!Next]_(Table!vars) => TableInv' /\ [Table!Abs!Next]_(Table!Abs!vars)
<1> SUFFICES ASSUME TableInv, [Table!Next]_(Table!vars)
             PROVE  TableInv' /\ [Table!Abs!Next]_(Table!Abs!vars)
  OBVIOUS
<1>1. ASSUME NEW k \in Keys, NEW v \in Values, Table!Overwrite(k, v) PROVE TableInv' /\ Table!Abs!Next
  BY <1>1, OverwriteRefines
<1>2. ASSUME NEW k \in Keys, Table!OverwriteFails(k) PROVE TableInv' /\ Table!Abs!Next
  BY <1>2, OverwriteRefines
<1>3. ASSUME NEW k \in Keys, NEW v \in Values, NEW n \in Node, Table!InsertNew(n, k, v)
      PROVE  TableInv' /\ Table!Abs!Next
  BY <1>3, InsertNewRefines
<1>4. ASSUME NEW k \in Keys, Table!InsertFails(k) \/ Table!Search(k) \/ Table!RemoveFails(k)
      PROVE  TableInv' /\ Table!Abs!Next
  BY <1>4, AnswerRefines
<1>5. ASSUME NEW k \in Keys, Table!Remove(k) PROVE TableInv' /\ Table!Abs!Next
  BY <1>5, RemoveRefines
<1>6. CASE Table!Destroy
  BY <1>6, DestroyRefines
<1>7. CASE UNCHANGED Table!vars
  <2>1. UNCHANGED <<hBuckets, hHeap, hSize>> /\ hOut' = hOut
    BY <1>7 DEF Table!vars
  <2>2. TMap' = TMap /\ TableInv'
    BY <2>1, MapStays
  <2> QED BY <2>1, <2>2 DEF Table!Abs!vars, TMap
<1> QED BY <1>1, <1>2, <1>3, <1>4, <1>5, <1>6, <1>7 DEF Table!Next

\* The shape is kept whatever marks an absent value.
LEMMA TableKeeps == ASSUME TableOK PROVE TableInv /\ [Table!Next]_(Table!vars) => TableInv'
<1> SUFFICES ASSUME TableInv, [Table!Next]_(Table!vars) PROVE TableInv'
  OBVIOUS
<1>1. ASSUME NEW k \in Keys, (\E v \in Values : Table!Overwrite(k, v)) \/ Table!OverwriteFails(k)
      PROVE  TableInv'
  <2>1. PICK v \in Values \cup {NULL} :
          /\ Table!Found(k) /\ hHeap' = [hHeap EXCEPT ![Table!Hit(k)].value = v]
          /\ UNCHANGED <<hBuckets, hSize>>
    BY <1>1 DEF Table!Overwrite, Table!OverwriteFails
  <2>2. PICK n : n = Table!Hit(k)
    OBVIOUS
  <2>3. n \in Used
    BY <2>1, <2>2, FoundHolds
  <2>4. hHeap' = [hHeap EXCEPT ![n].value = v]
    BY <2>1, <2>2
  <2> QED BY <2>1, <2>3, <2>4, ValueStep
<1>2. ASSUME NEW k \in Keys, NEW v \in Values, NEW n \in Node, Table!InsertNew(n, k, v) PROVE TableInv'
  BY <1>2, InsertStep
<1>3. ASSUME NEW k \in Keys, Table!InsertFails(k) \/ Table!Search(k) \/ Table!RemoveFails(k)
      PROVE  TableInv'
  <2>1. UNCHANGED <<hBuckets, hHeap, hSize>>
    BY <1>3 DEF Table!InsertFails, Table!Search, Table!RemoveFails
  <2> QED BY <2>1, MapStays
<1>4. ASSUME NEW k \in Keys, Table!Remove(k) PROVE TableInv'
  <2>1. PICK n \in Used : hHeap[n].key = k /\ Detached(n)
    BY <1>4, RemoveDetaches
  <2> QED BY <2>1, RemoveStep
<1>5. CASE Table!Destroy
  BY <1>5, DestroyRefines
<1>6. CASE UNCHANGED Table!vars
  <2>1. UNCHANGED <<hBuckets, hHeap, hSize>>
    BY <1>6 DEF Table!vars
  <2> QED BY <2>1, MapStays
<1> QED BY <1>1, <1>2, <1>3, <1>4, <1>5, <1>6 DEF Table!Next

LEMMA TableStart == ASSUME TableOK PROVE Table!Init => TableInv /\ Table!Abs!Init
<1> SUFFICES ASSUME Table!Init PROVE TableInv /\ Table!Abs!Init
  OBVIOUS
<1>1. Emptied
  BY DEF Table!Init, Emptied
<1>2. TableInv /\ Used = {}
  BY <1>1, EmptyTable DEF EmptiedHolds
<1>3. \A k \in Keys : TMap[k] = None
  BY <1>2, MapIs DEF MapFacts
<1>4. TMap = [k \in Keys |-> None]
  BY <1>3, MapFunction
<1> QED BY <1>2, <1>4 DEF Table!Init, Table!Abs!Init, Table!Abs!Answer, Table!Answer, TMap

\* ht_insert, ht_remove and ht_destroy neither lose nor share an entry: each that is
\* allocated is in one place of one chain, and size counts them, however the user's hash
\* function spreads the keys.
THEOREM EveryEntryInOneChain == ASSUME TableOK PROVE Table!Spec => []ChainsOwnHeap
<1>1. Table!Init => TableInv
  BY TableStart
<1>2. TableInv /\ [Table!Next]_(Table!vars) => TableInv'
  BY TableKeeps
<1>3. TableInv => ChainsOwnHeap
  BY TableOwns
<1> QED BY <1>1, <1>2, <1>3, PTL DEF Table!Spec

\* A hash table is a dictionary: what ht_search answers for a key is what was inserted for it
\* last and not removed since, whatever keys share its bucket, and only an overwrite for which
\* malloc fails loses a value.
THEOREM TableIsADictionary == ASSUME TableOK, MapOK PROVE Table!Spec => TableImplementsMap
<1>1. Table!Init => TableInv /\ Table!Abs!Init
  BY TableStart
<1>2. TableInv /\ [Table!Next]_(Table!vars) => TableInv' /\ [Table!Abs!Next]_(Table!Abs!vars)
  BY TableStep
<1> QED BY <1>1, <1>2, PTL DEF Table!Spec, TableImplementsMap, Table!TableImplementsMap, Table!Abs!Spec

-----------------------------------------------------------------------------
(* Trees in a heap. *)

\* S gives the nodes of the subtree at each node of U.
Below(h, S, U) ==
    /\ U \in SUBSET Node /\ S \in [Node \cup {NULL} -> SUBSET Node] /\ S[NULL] = {}
    /\ \A n \in U : /\ h[n].left \in U \cup {NULL} /\ h[n].right \in U \cup {NULL}
                    /\ S[n] = S[h[n].left] \cup {n} \cup S[h[n].right]
                    /\ S[n] \subseteq U
                    /\ \A m \in S[n] : S[m] \subseteq S[n]

\* The search order at every node.
Sorted(h, S, U) ==
    /\ \A n \in U : /\ h[n].key \in Int
                    /\ \A m \in S[h[n].left] : h[m].key < h[n].key
                    /\ \A m \in S[h[n].right] : h[n].key < h[m].key
    /\ \A m, n \in U : h[m].key = h[n].key => m = n

LEMMA Apart ==
    ASSUME NEW h, NEW S, NEW U, Below(h, S, U), Sorted(h, S, U), NEW n \in U
    PROVE  /\ n \notin S[h[n].left] /\ n \notin S[h[n].right]
           /\ S[h[n].left] \cap S[h[n].right] = {}
           /\ S[h[n].left] \subseteq U /\ S[h[n].right] \subseteq U
<1>1. S[h[n].left] \subseteq U /\ S[h[n].right] \subseteq U
  BY DEF Below
<1>2. \A m \in U : h[m].key \in Int
  BY DEF Sorted
<1>3. n \notin S[h[n].left] /\ n \notin S[h[n].right]
  BY <1>2 DEF Sorted
<1>4. ASSUME NEW m \in S[h[n].left], m \in S[h[n].right] PROVE FALSE
  <2>1. h[m].key < h[n].key /\ h[n].key < h[m].key /\ h[m].key \in Int /\ h[n].key \in Int
    BY <1>1, <1>2, <1>4 DEF Sorted
  <2> QED BY <2>1
<1> QED BY <1>1, <1>3, <1>4

LEMMA Sizes ==
    ASSUME IsFiniteSet(Node), NEW h, NEW S, NEW U, Below(h, S, U), Sorted(h, S, U)
    PROVE  /\ \A n \in Node \cup {NULL} : IsFiniteSet(S[n]) /\ Cardinality(S[n]) \in Nat
           /\ \A n \in U : Cardinality(S[n]) =
                             Cardinality(S[h[n].left]) + Cardinality(S[h[n].right]) + 1
<1>1. ASSUME NEW n \in Node \cup {NULL} PROVE IsFiniteSet(S[n]) /\ Cardinality(S[n]) \in Nat
  <2>1. S[n] \subseteq Node
    BY DEF Below
  <2> QED BY <2>1, FS_Subset, FS_CardinalityType
<1>2. ASSUME NEW n \in U
      PROVE  Cardinality(S[n]) = Cardinality(S[h[n].left]) + Cardinality(S[h[n].right]) + 1
  <2> DEFINE l == S[h[n].left]
             r == S[h[n].right]
  <2>1. h[n].left \in Node \cup {NULL} /\ h[n].right \in Node \cup {NULL}
    BY DEF Below
  <2>2. /\ IsFiniteSet(l) /\ IsFiniteSet(r) /\ Cardinality(l) \in Nat /\ Cardinality(r) \in Nat
        /\ n \notin l /\ n \notin r /\ l \cap r = {} /\ S[n] = (l \cup r) \cup {n}
    BY <1>1, <2>1, Apart DEF Below
  <2> HIDE DEF l, r
  <2>3. IsFiniteSet(l \cup r) /\ Cardinality(l \cup r) = Cardinality(l) + Cardinality(r)
    <3>1. l \cap r = {}
      BY <2>2
    <3>2. Cardinality(l \cap r) = 0
      BY <3>1, FS_EmptySet, Zenon
    <3>3. /\ IsFiniteSet(l \cup r)
          /\ Cardinality(l \cup r) = Cardinality(l) + Cardinality(r) - Cardinality(l \cap r)
      BY <2>2, FS_Union, Zenon
    <3> QED BY <2>2, <3>2, <3>3
  <2>4. Cardinality((l \cup r) \cup {n}) = Cardinality(l \cup r) + 1
    BY <2>2, <2>3, FS_AddElement
  <2> QED BY <2>2, <2>3, <2>4 DEF l, r
<1> QED BY <1>1, <1>2

LEMMA Within ==
    ASSUME NEW h, NEW S, NEW U, Below(h, S, U), Sorted(h, S, U), NEW q \in U \cup {NULL}
    PROVE  Below(h, S, S[q]) /\ Sorted(h, S, S[q]) /\ S[q] \subseteq U
<1>1. S[q] \subseteq U
  BY DEF Below
<1>2. ASSUME NEW n \in S[q]
      PROVE  h[n].left \in S[q] \cup {NULL} /\ h[n].right \in S[q] \cup {NULL} /\ S[n] \subseteq S[q]
  <2>1. q \in U /\ n \in U /\ S[n] \subseteq S[q]
    BY <1>1 DEF Below
  <2>2. ASSUME NEW c \in {h[n].left, h[n].right}, c # NULL PROVE c \in S[q]
    <3>1. c \in U /\ c \in S[c] /\ S[c] \subseteq S[n]
      BY <2>1, <2>2 DEF Below
    <3> QED BY <2>1, <3>1
  <2> QED BY <2>1, <2>2
<1>3. Below(h, S, S[q])
  BY <1>1, <1>2 DEF Below
<1>4. Sorted(h, S, S[q])
  BY <1>1 DEF Sorted
<1> QED BY <1>1, <1>3, <1>4

LEMMA CardinalityIs == \A T : Tree!Cardinality(T) = Cardinality(T)
  BY DEF Cardinality, Tree!Cardinality

\* The search for k comes ever closer to the node that holds it, if one does.
LEMMA SearchAlong ==
    ASSUME IsFiniteSet(Node), NULL \notin Node, NEW h, NEW S, NEW U, Below(h, S, U), Sorted(h, S, U),
           NEW r \in U \cup {NULL}, NEW k \in Int, NEW i \in Nat
    PROVE  LET w == Tree!Walk(h, r, k)
           IN  /\ w[i] \in U \cup {NULL} /\ S[w[i]] \subseteq S[r]
               /\ \A m \in S[r] : h[m].key = k => m \in S[w[i]]
               /\ w[i] = NULL \/ h[w[i]].key = k \/ Cardinality(S[w[i]]) + i <= Cardinality(S[r])
<1> DEFINE w == Tree!Walk(h, r, k)
           G(j) == /\ w[j] \in U \cup {NULL} /\ S[w[j]] \subseteq S[r]
                   /\ \A m \in S[r] : h[m].key = k => m \in S[w[j]]
                   /\ w[j] = NULL \/ h[w[j]].key = k \/ Cardinality(S[w[j]]) + j <= Cardinality(S[r])
           T == {j \in Nat : G(j)}
<1>0. /\ w[0] = r
      /\ \A j \in Nat : w[j + 1] = IF w[j] = NULL \/ h[w[j]].key = k THEN w[j] ELSE Tree!Child(h, w[j], k)
  <2>1. \A j \in Nat : j + 1 \in Nat \ {0} /\ (j + 1) - 1 = j
    OBVIOUS
  <2>2. /\ w[0] = r
        /\ \A j \in Nat \ {0} : w[j] = IF w[j - 1] = NULL \/ h[w[j - 1]].key = k THEN w[j - 1]
                                       ELSE Tree!Child(h, w[j - 1], k)
    BY WalkAt
  <2> HIDE DEF w
  <2> QED BY <2>1, <2>2
<1> HIDE DEF w
<1>1. U \subseteq Node /\ \A n \in Node \cup {NULL} : Cardinality(S[n]) \in Nat
  BY Sizes DEF Below
<1>2. 0 \in T
  <2>1. Cardinality(S[r]) \in Nat
    BY <1>1
  <2> QED BY <1>0, <2>1
<1>3. ASSUME NEW j \in Nat, j \in T PROVE j + 1 \in T
  <2>0. G(j)
    BY <1>3
  <2>1. CASE w[j] = NULL \/ h[w[j]].key = k
    <3>1. w[j + 1] = w[j]
      BY <1>0, <2>1
    <3>2. G(j + 1)
      BY <2>0, <2>1, <3>1
    <3> QED BY <3>2
  <2>2. CASE ~(w[j] = NULL \/ h[w[j]].key = k)
    <3>1. PICK p : p = w[j]
      OBVIOUS
    <3>2. p \in U /\ p # NULL /\ h[p].key # k /\ h[p].key \in Int /\ S[p] \subseteq S[r]
      BY <2>0, <2>2, <3>1 DEF Sorted
    <3>3. PICK c : c = w[j + 1]
      OBVIOUS
    <3>4. c = IF k < h[p].key THEN h[p].left ELSE h[p].right
      BY <1>0, <2>2, <3>1, <3>3 DEF Tree!Child
    <3>5. /\ c \in U \cup {NULL} /\ S[c] \subseteq S[p]
          /\ h[p].left \in Node \cup {NULL} /\ h[p].right \in Node \cup {NULL}
      BY <1>1, <3>2, <3>4 DEF Below
    <3>6. ASSUME NEW m \in S[r], h[m].key = k PROVE m \in S[c]
      <4>1. m \in S[p] /\ S[p] = S[h[p].left] \cup {p} \cup S[h[p].right] /\ S[p] \subseteq U
        BY <2>0, <3>1, <3>2, <3>6 DEF Below
      <4>2. m # p /\ (m \in S[h[p].left] => k < h[p].key) /\ (m \in S[h[p].right] => h[p].key < k)
        BY <3>2, <3>6 DEF Sorted
      <4> QED BY <3>2, <3>4, <4>1, <4>2
    <3>7. Cardinality(S[c]) + (j + 1) <= Cardinality(S[r])
      <4>1. Cardinality(S[p]) + j <= Cardinality(S[r])
        BY <2>0, <2>2, <3>1
      <4>2. Cardinality(S[p]) = Cardinality(S[h[p].left]) + Cardinality(S[h[p].right]) + 1
        BY <3>2, Sizes
      <4>3. /\ Cardinality(S[h[p].left]) \in Nat /\ Cardinality(S[h[p].right]) \in Nat
            /\ Cardinality(S[r]) \in Nat
        BY <1>1, <3>5
      <4> QED BY <3>4, <4>1, <4>2, <4>3
    <3>8. G(j + 1)
      BY <3>2, <3>3, <3>5, <3>6, <3>7
    <3> QED BY <3>8
  <2> QED BY <2>1, <2>2
<1>4. i \in T
  <2> HIDE DEF T
  <2> QED BY <1>2, <1>3, SetInduction
<1> QED BY <1>4 DEF w

LEMMA ReachedIs ==
    ASSUME IsFiniteSet(Node), NULL \notin Node, NEW h, NEW S, NEW U, Below(h, S, U), Sorted(h, S, U),
           NEW r \in U \cup {NULL}, NEW k \in Int
    PROVE  IF Tree!Reached(h, r, k) = NULL THEN \A m \in S[r] : h[m].key # k
           ELSE Tree!Reached(h, r, k) \in S[r] /\ h[Tree!Reached(h, r, k)].key = k
<1> DEFINE d == Cardinality(Node)
           w == Tree!Walk(h, r, k)
<1>1. d \in Nat /\ Tree!Reached(h, r, k) = w[d]
  BY FS_CardinalityType, CardinalityIs DEF Tree!Reached, Tree!MaxDepth
<1>2. PICK x : x = w[d]
  OBVIOUS
<1>3. /\ x \in U \cup {NULL} /\ S[x] \subseteq S[r] /\ \A m \in S[r] : h[m].key = k => m \in S[x]
      /\ x = NULL \/ h[x].key = k \/ Cardinality(S[x]) + d <= Cardinality(S[r])
  BY <1>1, <1>2, SearchAlong
<1> HIDE DEF w
<1>4. x = NULL \/ h[x].key = k
  <2>1. CASE x # NULL /\ Cardinality(S[x]) + d <= Cardinality(S[r])
    <3>1. x \in U /\ S[r] \subseteq Node /\ h[x].left \in Node \cup {NULL} /\ h[x].right \in Node \cup {NULL}
      BY <1>3, <2>1 DEF Below
    <3>2. Cardinality(S[r]) <= d /\ Cardinality(S[r]) \in Nat
      BY <3>1, FS_Subset, FS_CardinalityType
    <3>3. Cardinality(S[x]) \in Nat /\ Cardinality(S[x]) > 0
      <4>1. /\ Cardinality(S[x]) = Cardinality(S[h[x].left]) + Cardinality(S[h[x].right]) + 1
            /\ Cardinality(S[h[x].left]) \in Nat /\ Cardinality(S[h[x].right]) \in Nat
        BY <3>1, Sizes
      <4> QED BY <4>1
    <3> QED BY <1>1, <2>1, <3>2, <3>3
  <2> QED BY <1>3, <2>1
<1>5. x # NULL => x \in S[r]
  BY <1>3 DEF Below
<1>6. x = NULL => \A m \in S[r] : h[m].key # k
  BY <1>3 DEF Below
<1> QED BY <1>1, <1>2, <1>4, <1>5, <1>6

\* find_min of a tree that is not empty.
LEMMA LeftAlong ==
    ASSUME IsFiniteSet(Node), NULL \notin Node, NEW S, NEW U, Below(tHeap, S, U), Sorted(tHeap, S, U),
           NEW r \in U, NEW i \in Nat
    PROVE  LET w == LeftWalk(r)
           IN  /\ w[i] \in S[r]
               /\ \A m \in S[r] : m \in S[w[i]] \/ tHeap[w[i]].key < tHeap[m].key
               /\ tHeap[w[i]].left = NULL \/ Cardinality(S[w[i]]) + i <= Cardinality(S[r])
<1> DEFINE w == LeftWalk(r)
           G(j) == /\ w[j] \in S[r]
                   /\ \A m \in S[r] : m \in S[w[j]] \/ tHeap[w[j]].key < tHeap[m].key
                   /\ tHeap[w[j]].left = NULL \/ Cardinality(S[w[j]]) + j <= Cardinality(S[r])
           T == {j \in Nat : G(j)}
<1>0. w[0] = r /\ \A j \in Nat : w[j + 1] = IF tHeap[w[j]].left = NULL THEN w[j] ELSE tHeap[w[j]].left
  <2>1. \A j \in Nat : j + 1 \in Nat \ {0} /\ (j + 1) - 1 = j
    OBVIOUS
  <2>2. /\ w[0] = r
        /\ \A j \in Nat \ {0} : w[j] = IF tHeap[w[j - 1]].left = NULL THEN w[j - 1]
                                       ELSE tHeap[w[j - 1]].left
    BY LeftAt
  <2> HIDE DEF w
  <2> QED BY <2>1, <2>2
<1> HIDE DEF w
<1>1. U \subseteq Node /\ \A n \in Node \cup {NULL} : Cardinality(S[n]) \in Nat
  BY Sizes DEF Below
<1>2. 0 \in T
  <2>1. Cardinality(S[r]) \in Nat /\ r \in S[r]
    BY <1>1 DEF Below
  <2> QED BY <1>0, <2>1
<1>3. ASSUME NEW j \in Nat, j \in T PROVE j + 1 \in T
  <2>0. G(j)
    BY <1>3
  <2>1. CASE tHeap[w[j]].left = NULL
    <3>1. w[j + 1] = w[j]
      BY <1>0, <2>1
    <3>2. G(j + 1)
      BY <2>0, <2>1, <3>1
    <3> QED BY <3>2
  <2>2. CASE tHeap[w[j]].left # NULL
    <3>1. PICK p : p = w[j]
      OBVIOUS
    <3>2. PICK c : c = w[j + 1]
      OBVIOUS
    <3>3. p \in S[r] /\ p \in U /\ S[p] \subseteq S[r] /\ S[r] \subseteq U
      BY <2>0, <3>1 DEF Below
    <3>4. /\ c = tHeap[p].left /\ c \in U /\ c \in S[c] /\ S[c] \subseteq S[p]
          /\ tHeap[p].left \in Node \cup {NULL} /\ tHeap[p].right \in Node \cup {NULL}
      BY <1>0, <1>1, <2>2, <3>1, <3>2, <3>3 DEF Below
    <3>5. ASSUME NEW m \in S[r], m \notin S[c] PROVE tHeap[c].key < tHeap[m].key
      <4>1. /\ tHeap[c].key < tHeap[p].key
            /\ tHeap[c].key \in Int /\ tHeap[p].key \in Int /\ tHeap[m].key \in Int
        BY <3>3, <3>4 DEF Sorted
      <4>2. CASE m = p
        BY <4>1, <4>2
      <4>3. CASE m # p
        <5>1. m \in S[p] => m \in S[tHeap[p].right]
          BY <3>3, <3>4, <3>5, <4>3 DEF Below
        <5>2. tHeap[p].key < tHeap[m].key
          BY <2>0, <3>1, <3>3, <3>5, <5>1 DEF Sorted
        <5> QED BY <4>1, <5>2
      <4> QED BY <4>2, <4>3
    <3>6. Cardinality(S[c]) + (j + 1) <= Cardinality(S[r])
      <4>1. Cardinality(S[p]) + j <= Cardinality(S[r])
        BY <2>0, <2>2, <3>1
      <4>2. Cardinality(S[p]) = Cardinality(S[tHeap[p].left]) + Cardinality(S[tHeap[p].right]) + 1
        BY <3>3, Sizes
      <4>3. /\ Cardinality(S[tHeap[p].left]) \in Nat /\ Cardinality(S[tHeap[p].right]) \in Nat
            /\ Cardinality(S[r]) \in Nat
        BY <1>1, <3>4
      <4> QED BY <3>4, <4>1, <4>2, <4>3
    <3>7. G(j + 1)
      BY <3>2, <3>3, <3>4, <3>5, <3>6
    <3> QED BY <3>7
  <2> QED BY <2>1, <2>2
<1>4. i \in T
  <2> HIDE DEF T
  <2> QED BY <1>2, <1>3, SetInduction
<1> QED BY <1>4 DEF w

LEMMA FindMinIs ==
    ASSUME IsFiniteSet(Node), NULL \notin Node, NEW S, NEW U, Below(tHeap, S, U), Sorted(tHeap, S, U),
           NEW r \in U
    PROVE  /\ Tree!FindMin(r) \in S[r] /\ tHeap[Tree!FindMin(r)].left = NULL
           /\ \A m \in S[r] : m # Tree!FindMin(r) => tHeap[Tree!FindMin(r)].key < tHeap[m].key
<1> DEFINE d == Cardinality(Node)
           w == LeftWalk(r)
<1>1. d \in Nat /\ Tree!FindMin(r) = w[d]
  BY FS_CardinalityType, CardinalityIs, LeftAt DEF Tree!MaxDepth
<1>2. PICK s : s = w[d]
  OBVIOUS
<1>3. /\ s \in S[r] /\ \A m \in S[r] : m \in S[s] \/ tHeap[s].key < tHeap[m].key
      /\ tHeap[s].left = NULL \/ Cardinality(S[s]) + d <= Cardinality(S[r])
  BY <1>1, <1>2, LeftAlong
<1> HIDE DEF w
<1>4. s \in U /\ S[r] \subseteq Node /\ tHeap[s].left \in Node \cup {NULL} /\ tHeap[s].right \in Node \cup {NULL}
  BY <1>3 DEF Below
<1>5. tHeap[s].left = NULL
  <2>1. Cardinality(S[r]) <= d /\ Cardinality(S[r]) \in Nat
    BY <1>4, FS_Subset, FS_CardinalityType
  <2>2. Cardinality(S[s]) \in Nat /\ Cardinality(S[s]) > 0
    <3>1. /\ Cardinality(S[s]) = Cardinality(S[tHeap[s].left]) + Cardinality(S[tHeap[s].right]) + 1
          /\ Cardinality(S[tHeap[s].left]) \in Nat /\ Cardinality(S[tHeap[s].right]) \in Nat
      BY <1>4, Sizes
    <3> QED BY <3>1
  <2> QED BY <1>1, <1>3, <2>1, <2>2
<1>6. ASSUME NEW m \in S[r], m # s PROVE tHeap[s].key < tHeap[m].key
  <2>1. CASE m \in S[s]
    <3>1. m \in S[tHeap[s].right]
      BY <1>4, <1>5, <1>6, <2>1 DEF Below
    <3> QED BY <1>4, <3>1 DEF Sorted
  <2> QED BY <1>3, <2>1
<1> QED BY <1>1, <1>2, <1>3, <1>5, <1>6

-----------------------------------------------------------------------------
(* The shape of the tree. *)

TreeCell == [key : Keys, value : Values, left : Node \cup {NULL}, right : Node \cup {NULL}]

\* Finitely many addresses, none of them null; a free cell is no node; keys are numbers.
TreeOK == IsFiniteSet(Node) /\ NULL \notin Node /\ Freed \notin TreeCell /\ Keys \subseteq Int

Grown == {n \in Node : tHeap[n] # Freed}

TreeCells == tHeap \in [Node -> TreeCell \cup {Freed}] /\ tRoot \in Grown \cup {NULL}

\* The allocated nodes are one tree in search order.
Subtrees(S) == Below(tHeap, S, Grown) /\ Sorted(tHeap, S, Grown) /\ S[tRoot] = Grown

TreeInv == TreeCells /\ \E S : Subtrees(S)

LEMMA CellOf ==
    ASSUME TreeCells, NEW n \in Grown
    PROVE  n \in Node /\ tHeap[n] \in TreeCell
  BY DEF TreeCells, Grown

LEMMA HolderIs ==
    ASSUME TreeOK, TreeCells, NEW S, Subtrees(S), NEW k \in Keys
    PROVE  IF Tree!Holder(k) = NULL THEN \A m \in Grown : tHeap[m].key # k
           ELSE Tree!Holder(k) \in Grown /\ tHeap[Tree!Holder(k)].key = k
<1>1. k \in Int /\ tRoot \in Grown \cup {NULL}
  BY DEF TreeOK, TreeCells
<1>2. IF Tree!Reached(tHeap, tRoot, k) = NULL THEN \A m \in S[tRoot] : tHeap[m].key # k
      ELSE Tree!Reached(tHeap, tRoot, k) \in S[tRoot] /\ tHeap[Tree!Reached(tHeap, tRoot, k)].key = k
  BY <1>1, ReachedIs DEF TreeOK, Subtrees
<1> QED BY <1>2 DEF Subtrees, Tree!Holder

-----------------------------------------------------------------------------
(* Insertion. *)

\* The last node of the search is where k belongs.
LEMMA LastBeforeIs ==
    ASSUME TreeOK, TreeCells, NEW S, Subtrees(S), NEW k \in Keys,
           Tree!Holder(k) = NULL, tRoot # NULL, NEW p, p = Tree!LastBefore(k)
    PROVE  /\ p \in Grown
           /\ IF k < tHeap[p].key THEN tHeap[p].left = NULL ELSE tHeap[p].right = NULL
           /\ \A m \in Grown : /\ p \in S[tHeap[m].left] => k < tHeap[m].key
                               /\ p \in S[tHeap[m].right] => tHeap[m].key < k
<1> DEFINE d == Cardinality(Node)
           w == Tree!Walk(tHeap, tRoot, k)
<1>1. /\ k \in Int /\ tRoot \in Grown /\ d \in Nat /\ Tree!MaxDepth = d
      /\ Below(tHeap, S, Grown) /\ Sorted(tHeap, S, Grown) /\ S[tRoot] = Grown
  BY CardinalityIs, FS_CardinalityType DEF TreeOK, TreeCells, Subtrees, Tree!MaxDepth
<1>2. \A m \in Grown : tHeap[m].key # k
  BY HolderIs
<1>3. \A j \in Nat : w[j] \in Grown \cup {NULL}
  BY <1>1, SearchAlong DEF TreeOK
<1>4. w[d] = NULL
  BY <1>1 DEF Tree!Holder, Tree!Reached
<1>5. w[0] = tRoot
  BY WalkAt
<1>6. \A j \in Nat : w[j] \in Grown => w[j + 1] = Tree!Child(tHeap, w[j], k)
  <2> SUFFICES ASSUME NEW j \in Nat, w[j] \in Grown PROVE w[j + 1] = Tree!Child(tHeap, w[j], k)
    OBVIOUS
  <2>1. j + 1 \in Nat \ {0} /\ (j + 1) - 1 = j
    OBVIOUS
  <2>2. w[j] # NULL /\ tHeap[w[j]].key # k
    BY <1>2 DEF TreeOK, Grown
  <2>3. w[j + 1] = IF w[(j + 1) - 1] = NULL \/ tHeap[w[(j + 1) - 1]].key = k THEN w[(j + 1) - 1]
                   ELSE Tree!Child(tHeap, w[(j + 1) - 1], k)
    BY <2>1, WalkAt
  <2> HIDE DEF w
  <2> QED BY <2>1, <2>2, <2>3
<1>7. PICK i \in Nat : w[i] # NULL /\ w[i + 1] = NULL /\ p = w[i]
  <2> DEFINE c == CHOOSE j \in 0 .. Tree!MaxDepth : w[j] # NULL /\ w[j + 1] = NULL
  <2>1. p = w[c]
    BY DEF Tree!LastBefore
  <2> HIDE DEF w
  <2>2. \E j \in 0 .. Tree!MaxDepth : w[j] # NULL /\ w[j + 1] = NULL
    <3> DEFINE Z == {j \in Nat : w[j] = NULL}
    <3>1. d \in Z
      BY <1>1, <1>4
    <3>2. PICK z \in Z : \A j \in Z : z <= j
      <4> HIDE DEF Z
      <4> QED BY <3>1, LeastIndex DEF Z
    <3>3. z # 0
      BY <1>1, <1>5, <3>2 DEF TreeOK, Grown
    <3>4. z - 1 \in Nat /\ z - 1 \notin Z /\ z - 1 \in 0 .. d /\ (z - 1) + 1 = z
      BY <1>1, <3>1, <3>2, <3>3
    <3>5. w[z - 1] # NULL /\ w[(z - 1) + 1] = NULL
      BY <3>2, <3>4
    <3> QED BY <1>1, <3>4, <3>5
  <2>3. c \in 0 .. Tree!MaxDepth /\ w[c] # NULL /\ w[c + 1] = NULL
    BY <2>2
  <2> HIDE DEF c
  <2> QED BY <1>1, <2>1, <2>3
<1> HIDE DEF w
<1>8. p \in Grown /\ Tree!Child(tHeap, p, k) = NULL
  BY <1>3, <1>6, <1>7
\* Every node on the way has it below.
<1>9. \A t \in Nat : t <= i => p \in S[w[i - t]] /\ w[i - t] \in Grown
  <2> DEFINE T == {t \in Nat : t <= i => p \in S[w[i - t]] /\ w[i - t] \in Grown}
  <2>1. 0 \in T
    BY <1>1, <1>7, <1>8 DEF Below
  <2>2. ASSUME NEW t \in Nat, t \in T PROVE t + 1 \in T
    <3> SUFFICES ASSUME t + 1 <= i PROVE p \in S[w[i - (t + 1)]] /\ w[i - (t + 1)] \in Grown
      OBVIOUS
    <3>1. i - (t + 1) \in Nat /\ (i - (t + 1)) + 1 = i - t /\ t <= i
      OBVIOUS
    <3>2. PICK q, c : q = w[i - (t + 1)] /\ c = w[i - t]
      OBVIOUS
    <3>3. p \in S[c] /\ c \in Grown
      BY <2>2, <3>1, <3>2
    <3>4. q \in Grown \cup {NULL}
      BY <1>3, <3>1, <3>2
    <3>5. q \in Grown
      <4>1. CASE q = NULL
        <5>1. w[(i - (t + 1)) + 1] = NULL
          <6>1. i - (t + 1) \in Nat \ {0} \/ i - (t + 1) = 0
            BY <3>1
          <6>2. \A j \in Nat : w[j] = NULL => w[j + 1] = NULL
            <7> SUFFICES ASSUME NEW j \in Nat, w[j] = NULL PROVE w[j + 1] = NULL
              OBVIOUS
            <7>1. j + 1 \in Nat \ {0} /\ (j + 1) - 1 = j
              OBVIOUS
            <7>2. w[j + 1] = IF w[(j + 1) - 1] = NULL \/ tHeap[w[(j + 1) - 1]].key = k THEN w[(j + 1) - 1]
                             ELSE Tree!Child(tHeap, w[(j + 1) - 1], k)
              BY <7>1, WalkAt DEF w
            <7> QED BY <7>1, <7>2
          <6> QED BY <3>1, <3>2, <4>1, <6>2
        <5> QED BY <3>1, <3>2, <3>3, <5>1 DEF TreeOK, Grown
      <4> QED BY <3>4, <4>1
    <3>6. c = Tree!Child(tHeap, q, k)
      BY <1>6, <3>1, <3>2, <3>5
    <3>7. S[c] \subseteq S[q]
      BY <1>1, <3>5, <3>6 DEF Below, Tree!Child
    <3> QED BY <3>2, <3>3, <3>5, <3>7
  <2> HIDE DEF T
  <2>3. Nat \subseteq T
    BY <2>1, <2>2, SetInduction
  <2> QED BY <2>3 DEF T
<1>10. \A j \in Nat : j <= i => p \in S[w[j]] /\ w[j] \in Grown
  <2>1. ASSUME NEW j \in Nat, j <= i PROVE p \in S[w[j]] /\ w[j] \in Grown
    <3>1. i - j \in Nat /\ i - j <= i /\ i - (i - j) = j
      BY <2>1
    <3> QED BY <1>9, <3>1
  <2> QED BY <2>1
<1>11. ASSUME NEW m \in Grown
       PROVE  (p \in S[tHeap[m].left] => k < tHeap[m].key) /\ (p \in S[tHeap[m].right] => tHeap[m].key < k)
  <2> DEFINE Right == (p \in S[tHeap[m].left] => k < tHeap[m].key) /\ (p \in S[tHeap[m].right] => tHeap[m].key < k)
             T == {j \in Nat : j <= i => m \in S[w[j]] \/ Right}
  <2>0. \A x \in Grown : /\ x \notin S[tHeap[x].left] /\ x \notin S[tHeap[x].right]
                         /\ S[tHeap[x].left] \cap S[tHeap[x].right] = {}
    BY <1>1, Apart
  <2>1. 0 \in T
    BY <1>1, <1>5
  <2>2. ASSUME NEW j \in Nat, j \in T PROVE j + 1 \in T
    <3> SUFFICES ASSUME j + 1 <= i, m \in S[w[j]] PROVE m \in S[w[j + 1]] \/ Right
      BY <2>2
    <3>1. PICK q, c : q = w[j] /\ c = w[j + 1]
      OBVIOUS
    <3>2. q \in Grown /\ c \in Grown /\ p \in S[c] /\ c = Tree!Child(tHeap, q, k)
      BY <1>6, <1>10, <3>1
    <3>3. /\ tHeap[q].key \in Int /\ tHeap[q].key # k
          /\ S[q] = S[tHeap[q].left] \cup {q} \cup S[tHeap[q].right]
      BY <1>1, <1>2, <3>2 DEF Below, Sorted
    <3>4. CASE m = q
      BY <1>1, <2>0, <3>2, <3>3, <3>4 DEF Tree!Child
    <3>5. CASE m # q /\ m \notin S[c]
      <4>1. PICK b \in {tHeap[q].left, tHeap[q].right} : m \in S[b] /\ S[b] \cap S[c] = {}
        BY <2>0, <3>1, <3>2, <3>3, <3>5 DEF Tree!Child
      <4>2. b \in Grown
        BY <1>1, <3>2, <4>1 DEF Below
      <4>3. S[m] \subseteq S[b] /\ S[tHeap[m].left] \subseteq S[m] /\ S[tHeap[m].right] \subseteq S[m]
        BY <1>1, <4>1, <4>2 DEF Below
      <4> QED BY <3>2, <4>1, <4>3
    <3> QED BY <3>1, <3>4, <3>5
  <2>3. i \in T
    <3> HIDE DEF T
    <3> QED BY <2>1, <2>2, SetInduction
  <2>4. CASE m = p
    BY <2>0, <1>8, <2>4
  <2>5. CASE m \in S[p] /\ m # p
    <3>1. PICK b \in {tHeap[p].left, tHeap[p].right} : m \in S[b]
      BY <1>1, <1>8, <2>5 DEF Below
    <3>2. b \in Grown
      BY <1>1, <1>8, <3>1 DEF Below
    <3>3. S[m] \subseteq S[b] /\ S[tHeap[m].left] \subseteq S[m] /\ S[tHeap[m].right] \subseteq S[m]
      BY <1>1, <3>1, <3>2 DEF Below
    <3> QED BY <1>8, <2>0, <3>1, <3>3
  <2> QED BY <1>7, <2>3, <2>4, <2>5
<1> QED BY <1>8, <1>11 DEF Tree!Child

\* With node n hung below p, the subtrees n is in.
Hung(S, p, n) == [x \in Node \cup {NULL} |-> IF x = n THEN {n} ELSE IF p \in S[x] THEN S[x] \cup {n} ELSE S[x]]

\* What a step does to the data: the nodes are U, and each but n has the data it had.
DataKept(U, n) == /\ Grown' = U
                  /\ \A m \in U \ {n} : tHeap'[m].key = tHeap[m].key /\ tHeap'[m].value = tHeap[m].value

LEMMA InsertFirst ==
    ASSUME TreeOK, TreeInv, NEW n \in Node, NEW k \in Keys, NEW v \in Values,
           Tree!Insert(n, k, v), tRoot = NULL
    PROVE  /\ TreeInv' /\ DataKept(Grown \cup {n}, n) /\ n \notin Grown
           /\ tHeap'[n].key = k /\ tHeap'[n].value = v
<1> DEFINE e == [key |-> k, value |-> v, left |-> NULL, right |-> NULL]
           S2 == [x \in Node \cup {NULL} |-> IF x = n THEN {n} ELSE {}]
<1>1. n \notin Grown /\ n # NULL /\ TreeCells
  BY DEF Tree!Insert, Tree!FreeNodes, Grown, TreeOK, TreeInv
<1>2. Grown = {}
  <2>1. PICK S : Subtrees(S)
    BY DEF TreeInv
  <2> QED BY <2>1 DEF Subtrees, Below
<1>3. tHeap' = [tHeap EXCEPT ![n] = e] /\ tRoot' = n
  BY DEF Tree!Insert
<1>4. e \in TreeCell /\ e # Freed
  BY DEF TreeCell, TreeOK
<1>5. /\ tHeap' \in [Node -> TreeCell \cup {Freed}] /\ tHeap'[n] = e
      /\ \A m \in Node : m # n => tHeap'[m] = tHeap[m]
  BY <1>1, <1>3, <1>4 DEF TreeCells
<1>6. Grown' = {n}
  BY <1>2, <1>4, <1>5 DEF Grown
<1>7. Below(tHeap', S2, {n})
  BY <1>1, <1>5 DEF Below
<1>8. Sorted(tHeap', S2, {n})
  <2>1. /\ tHeap'[n].key = k /\ k \in Int /\ S2[tHeap'[n].left] = {} /\ S2[tHeap'[n].right] = {}
    <3>1. tHeap'[n].key = k /\ tHeap'[n].left = NULL /\ tHeap'[n].right = NULL
      BY <1>5
    <3>2. S2[NULL] = {}
      BY <1>1
    <3> HIDE DEF S2, e
    <3> QED BY <3>1, <3>2 DEF TreeOK
  <2> HIDE DEF S2, e
  <2> QED BY <2>1 DEF Sorted
<1>9. S2[n] = {n}
  OBVIOUS
<1>10. PICK S3 : S3 = S2
  OBVIOUS
<1>11. Below(tHeap', S3, Grown') /\ Sorted(tHeap', S3, Grown') /\ S3[tRoot'] = Grown'
  BY <1>3, <1>6, <1>7, <1>8, <1>9, <1>10
<1> HIDE DEF S2, e
<1>12. TreeInv'
  BY <1>3, <1>5, <1>6, <1>11 DEF TreeInv, TreeCells, Subtrees
<1>13. DataKept(Grown \cup {n}, n)
  BY <1>2, <1>6 DEF DataKept
<1> QED BY <1>1, <1>5, <1>12, <1>13 DEF e

LEMMA InsertBelow ==
    ASSUME TreeOK, TreeInv, NEW n \in Node, NEW k \in Keys, NEW v \in Values,
           Tree!Insert(n, k, v), tRoot # NULL
    PROVE  /\ TreeInv' /\ DataKept(Grown \cup {n}, n) /\ n \notin Grown
           /\ tHeap'[n].key = k /\ tHeap'[n].value = v
<1> DEFINE e == [key |-> k, value |-> v, left |-> NULL, right |-> NULL]
<1>1. n \notin Grown /\ n # NULL /\ NULL \notin Grown /\ TreeCells /\ Tree!Holder(k) = NULL /\ k \in Int
  BY DEF Tree!Insert, Tree!FreeNodes, Grown, TreeOK, TreeInv
<1>2. PICK S : Subtrees(S)
  BY DEF TreeInv
<1>3. PICK p : p = Tree!LastBefore(k)
  OBVIOUS
<1>4. /\ p \in Grown /\ p \in Node /\ p # n
      /\ IF k < tHeap[p].key THEN tHeap[p].left = NULL ELSE tHeap[p].right = NULL
      /\ \A m \in Grown : /\ p \in S[tHeap[m].left] => k < tHeap[m].key
                          /\ p \in S[tHeap[m].right] => tHeap[m].key < k
  BY <1>1, <1>2, <1>3, LastBeforeIs DEF Grown
<1>5. \A m \in Grown : tHeap[m].key # k /\ tHeap[m].key \in Int /\ m \in Node /\ tHeap[m] \in TreeCell
  <2>1. \A m \in Grown : tHeap[m].key # k
    BY <1>1, <1>2, HolderIs
  <2> QED BY <1>1, <1>2, <2>1, CellOf DEF Subtrees, Sorted
<1>6. e \in TreeCell /\ e # Freed
  BY DEF TreeCell, TreeOK
<1> DEFINE h == [tHeap EXCEPT ![n] = e]
<1>7. /\ tRoot' = tRoot
      /\ tHeap' = IF k < tHeap[p].key THEN [h EXCEPT ![p].left = n] ELSE [h EXCEPT ![p].right = n]
  BY <1>3 DEF Tree!Insert
<1>8. /\ tHeap' \in [Node -> TreeCell \cup {Freed}] /\ tHeap'[n] = e
      /\ \A m \in Node \ {n, p} : tHeap'[m] = tHeap[m]
      /\ tHeap'[p] = IF k < tHeap[p].key THEN [tHeap[p] EXCEPT !.left = n] ELSE [tHeap[p] EXCEPT !.right = n]
  <2>1. h \in [Node -> TreeCell \cup {Freed}] /\ h[n] = e /\ h[p] = tHeap[p] /\ \A m \in Node \ {n} : h[m] = tHeap[m]
    BY <1>1, <1>4, <1>6 DEF TreeCells
  <2> HIDE DEF h
  <2>2. /\ tHeap'[n] = e /\ \A m \in Node \ {n, p} : tHeap'[m] = tHeap[m]
        /\ tHeap'[p] = IF k < tHeap[p].key THEN [tHeap[p] EXCEPT !.left = n] ELSE [tHeap[p] EXCEPT !.right = n]
        /\ tHeap' = [m \in Node |-> tHeap'[m]]
    BY <1>4, <1>7, <2>1
  <2>3. tHeap'[p] \in TreeCell
    BY <1>4, <1>5, <2>2 DEF TreeCell
  <2>4. \A m \in Node : tHeap'[m] \in TreeCell \cup {Freed}
    <3>1. \A m \in Node : m = n \/ m = p \/ m \in Node \ {n, p}
      OBVIOUS
    <3> QED BY <1>1, <1>6, <2>2, <2>3, <3>1 DEF TreeCells
  <2> QED BY <2>2, <2>4
<1> HIDE DEF h
<1>9. /\ tHeap'[n].key = k /\ tHeap'[n].value = v /\ tHeap'[n].left = NULL /\ tHeap'[n].right = NULL
  BY <1>8
<1>10. \A m \in Grown : /\ tHeap'[m].key = tHeap[m].key /\ tHeap'[m].value = tHeap[m].value
                        /\ tHeap'[m].left = IF m = p /\ k < tHeap[p].key THEN n ELSE tHeap[m].left
                        /\ tHeap'[m].right = IF m = p /\ ~(k < tHeap[p].key) THEN n ELSE tHeap[m].right
                        /\ tHeap'[m] # Freed
  <2>1. \A m \in Grown : m = p \/ m \in Node \ {n, p}
    BY <1>1, <1>5
  <2>2. \A m \in Grown : tHeap[m] = [key |-> tHeap[m].key, value |-> tHeap[m].value,
                                     left |-> tHeap[m].left, right |-> tHeap[m].right]
    BY <1>5 DEF TreeCell
  <2>3. tHeap'[p] # Freed
    <3>1. tHeap'[p] \in TreeCell
      BY <1>1, <1>4, <1>5, <1>8 DEF TreeCell
    <3> QED BY <3>1 DEF TreeOK
  <2>4. \A m \in Grown : tHeap[m] # Freed
    BY DEF Grown
  <2> SUFFICES ASSUME NEW m \in Grown
               PROVE  /\ tHeap'[m].key = tHeap[m].key /\ tHeap'[m].value = tHeap[m].value
                      /\ tHeap'[m].left = IF m = p /\ k < tHeap[p].key THEN n ELSE tHeap[m].left
                      /\ tHeap'[m].right = IF m = p /\ ~(k < tHeap[p].key) THEN n ELSE tHeap[m].right
                      /\ tHeap'[m] # Freed
    OBVIOUS
  <2>5. CASE m = p /\ k < tHeap[p].key
    <3>1. tHeap'[m] = [key |-> tHeap[m].key, value |-> tHeap[m].value, left |-> n, right |-> tHeap[m].right]
      BY <1>8, <2>2, <2>5
    <3> QED BY <2>3, <2>5, <3>1
  <2>6. CASE m = p /\ ~(k < tHeap[p].key)
    <3>1. tHeap'[m] = [key |-> tHeap[m].key, value |-> tHeap[m].value, left |-> tHeap[m].left, right |-> n]
      BY <1>8, <2>2, <2>6
    <3> QED BY <2>3, <2>6, <3>1
  <2>7. CASE m # p
    BY <1>8, <2>1, <2>4, <2>7
  <2> QED BY <2>5, <2>6, <2>7
<1>11. Grown' = Grown \cup {n}
  <2>1. tHeap'[n] # Freed
    BY <1>6, <1>8
  <2>2. \A m \in Node : m # n /\ m \notin Grown => tHeap'[m] = Freed
    BY <1>4, <1>8 DEF Grown
  <2> QED BY <1>5, <1>10, <2>1, <2>2 DEF Grown
<1> HIDE DEF e
<1> DEFINE U == Grown \cup {n}
<1>12. PICK S2 : S2 = Hung(S, p, n)
  OBVIOUS
<1>13. /\ S \in [Node \cup {NULL} -> SUBSET Node] /\ S[NULL] = {} /\ Grown \subseteq Node
       /\ \A m \in Grown : /\ tHeap[m].left \in Grown \cup {NULL} /\ tHeap[m].right \in Grown \cup {NULL}
                           /\ S[m] = S[tHeap[m].left] \cup {m} \cup S[tHeap[m].right]
                           /\ S[m] \subseteq Grown
                           /\ \A x \in S[m] : S[x] \subseteq S[m]
  BY <1>2 DEF Subtrees, Below
<1>14. /\ S2 \in [Node \cup {NULL} -> SUBSET Node] /\ S2[NULL] = {} /\ S2[n] = {n}
       /\ \A m \in Grown : S2[m] = IF p \in S[m] THEN S[m] \cup {n} ELSE S[m]
  BY <1>1, <1>12, <1>13 DEF Hung
<1>15. \A m \in Grown \cup {NULL} : \A x : x \in S2[m] <=> x \in S[m] \/ (x = n /\ p \in S[m])
  <2>1. S2[NULL] = {} /\ S[NULL] = {}
    BY <1>13, <1>14
  <2>2. ASSUME NEW m \in Grown PROVE \A x : x \in S2[m] <=> x \in S[m] \/ (x = n /\ p \in S[m])
    <3>1. S2[m] = IF p \in S[m] THEN S[m] \cup {n} ELSE S[m]
      BY <1>14
    <3> QED BY <3>1
  <2> QED BY <2>1, <2>2
\* What is below the pointers of an old node.
<1>16. ASSUME NEW m \in Grown
       PROVE  /\ tHeap'[m].left \in U \cup {NULL} /\ tHeap'[m].right \in U \cup {NULL}
              /\ \A x : x \in S2[tHeap'[m].left] <=>
                   \/ x \in S[tHeap[m].left]
                   \/ (x = n /\ (p \in S[tHeap[m].left] \/ (m = p /\ k < tHeap[p].key)))
              /\ \A x : x \in S2[tHeap'[m].right] <=>
                   \/ x \in S[tHeap[m].right]
                   \/ (x = n /\ (p \in S[tHeap[m].right] \/ (m = p /\ ~(k < tHeap[p].key))))
  <2>1. /\ tHeap'[m].left = IF m = p /\ k < tHeap[p].key THEN n ELSE tHeap[m].left
        /\ tHeap'[m].right = IF m = p /\ ~(k < tHeap[p].key) THEN n ELSE tHeap[m].right
        /\ tHeap[m].left \in Grown \cup {NULL} /\ tHeap[m].right \in Grown \cup {NULL}
    BY <1>10, <1>13
  <2>2. CASE m = p /\ k < tHeap[p].key
    BY <1>4, <1>13, <1>14, <1>15, <2>1, <2>2
  <2>3. CASE m = p /\ ~(k < tHeap[p].key)
    BY <1>4, <1>13, <1>14, <1>15, <2>1, <2>3
  <2>4. CASE m # p
    BY <1>15, <2>1, <2>4
  <2> QED BY <2>2, <2>3, <2>4
<1>17. Below(tHeap', S2, U)
  <2>1. ASSUME NEW m \in Grown
        PROVE  /\ S2[m] = S2[tHeap'[m].left] \cup {m} \cup S2[tHeap'[m].right]
               /\ S2[m] \subseteq U
               /\ \A x \in S2[m] : S2[x] \subseteq S2[m]
    <3>1. S[m] = S[tHeap[m].left] \cup {m} \cup S[tHeap[m].right] /\ S[m] \subseteq Grown
      BY <1>13
    <3>2. \A x : x \in S2[m] <=> x \in S[m] \/ (x = n /\ p \in S[m])
      BY <1>15
    <3>3. \A x : x \in S2[m] <=> x \in S2[tHeap'[m].left] \/ x = m \/ x \in S2[tHeap'[m].right]
      BY <1>16, <3>1, <3>2
    <3>4. ASSUME NEW x \in S2[m] PROVE S2[x] \subseteq S2[m]
      <4>1. CASE x = n
        BY <1>1, <1>14, <3>4, <4>1
      <4>2. CASE x # n
        <5>1. x \in S[m] /\ x \in Grown
          BY <3>1, <3>2, <3>4, <4>2
        <5>2. S[x] \subseteq S[m]
          BY <1>13, <5>1
        <5>3. \A y : y \in S2[x] <=> y \in S[x] \/ (y = n /\ p \in S[x])
          BY <1>15, <5>1
        <5> QED BY <3>2, <5>2, <5>3
      <4> QED BY <4>1, <4>2
    <3> QED BY <3>1, <3>2, <3>3, <3>4
  <2>2. S2[n] = S2[tHeap'[n].left] \cup {n} \cup S2[tHeap'[n].right]
    BY <1>9, <1>14
  <2> QED BY <1>9, <1>13, <1>14, <1>16, <2>1, <2>2 DEF Below
<1>18. Sorted(tHeap', S2, U)
  <2>0. \A m \in U : tHeap'[m].key \in Int
    BY <1>1, <1>5, <1>9, <1>10
  <2>1. ASSUME NEW m \in Grown
        PROVE  /\ \A x \in S2[tHeap'[m].left] : tHeap'[x].key < tHeap'[m].key
               /\ \A x \in S2[tHeap'[m].right] : tHeap'[m].key < tHeap'[x].key
    <3>1. tHeap'[m].key = tHeap[m].key /\ tHeap[m].key \in Int /\ tHeap[m].key # k
      BY <1>5, <1>10
    <3>2. ASSUME NEW x \in S2[tHeap'[m].left] PROVE tHeap'[x].key < tHeap'[m].key
      <4>1. CASE x \in S[tHeap[m].left]
        BY <1>2, <1>10, <1>13, <4>1 DEF Subtrees, Sorted
      <4>2. CASE x = n /\ (p \in S[tHeap[m].left] \/ (m = p /\ k < tHeap[p].key))
        BY <1>4, <1>9, <3>1, <4>2
      <4> QED BY <1>16, <4>1, <4>2
    <3>3. ASSUME NEW x \in S2[tHeap'[m].right] PROVE tHeap'[m].key < tHeap'[x].key
      <4>1. CASE x \in S[tHeap[m].right]
        BY <1>2, <1>10, <1>13, <4>1 DEF Subtrees, Sorted
      <4>2. CASE x = n /\ p \in S[tHeap[m].right]
        BY <1>4, <1>9, <3>1, <4>2
      <4>3. CASE x = n /\ m = p /\ ~(k < tHeap[p].key)
        <5>1. tHeap[p].key < k
          BY <1>1, <3>1, <4>3
        <5> QED BY <1>9, <3>1, <4>3, <5>1
      <4> QED BY <1>16, <4>1, <4>2, <4>3
    <3> QED BY <3>2, <3>3
  <2>2. ASSUME NEW x \in U, NEW y \in U, tHeap'[x].key = tHeap'[y].key PROVE x = y
    BY <1>2, <1>5, <1>9, <1>10, <2>2 DEF Subtrees, Sorted
  <2>3. S2[tHeap'[n].left] = {} /\ S2[tHeap'[n].right] = {}
    BY <1>9, <1>14
  <2> QED BY <2>0, <2>1, <2>2, <2>3 DEF Sorted
<1>19. S2[tRoot] = U
  <2>1. S[tRoot] = Grown /\ tRoot \in Grown
    BY <1>1, <1>2 DEF Subtrees, TreeCells
  <2> QED BY <1>4, <1>14, <2>1
<1>20. TreeInv'
  <2>1. Below(tHeap', S2, Grown') /\ Sorted(tHeap', S2, Grown') /\ S2[tRoot'] = Grown'
    BY <1>7, <1>11, <1>17, <1>18, <1>19
  <2> QED BY <1>1, <1>7, <1>8, <1>11, <2>1 DEF TreeInv, TreeCells, Subtrees
<1>21. DataKept(U, n)
  BY <1>1, <1>10, <1>11 DEF DataKept
<1> QED BY <1>1, <1>9, <1>20, <1>21

-----------------------------------------------------------------------------
(* Removal. *)

Without(S, s) == [x \in Node \cup {NULL} |-> S[x] \ {s}]

\* Tree g is tree h without node s, and all else is below the pointers it was below.
Spared(h, S, U, s, g, S2) ==
    /\ g \in [Node -> TreeCell \cup {Freed}] /\ U \ {s} = {m \in Node : g[m] # Freed}
    /\ Below(g, S2, U \ {s})
    /\ \A m \in U \ {s} : /\ g[m].key = h[m].key /\ g[m].value = h[m].value
                          /\ S2[g[m].left] = S[h[m].left] \ {s}
                          /\ S2[g[m].right] = S[h[m].right] \ {s}
    /\ Tree!OnlyChild(s) \in (U \ {s}) \cup {NULL} /\ S2[Tree!OnlyChild(s)] = S[s] \ {s}

\* A node with one child at most is spliced out of tree h.
LEMMA SplicedTree ==
    ASSUME TreeOK, NEW h \in [Node -> TreeCell \cup {Freed}], NEW S, NEW U,
           U = {m \in Node : h[m] # Freed}, Below(h, S, U), NEW s \in U,
           h[s] = tHeap[s], h[s].left = NULL \/ h[s].right = NULL,
           s \notin S[h[s].left], s \notin S[h[s].right],
           NEW g, g = Tree!Spliced(h, s), NEW S2, S2 = Without(S, s)
    PROVE  Spared(h, S, U, s, g, S2)
<1> DEFINE c == Tree!OnlyChild(s)
<1>1. /\ U \subseteq Node /\ NULL \notin Node /\ S \in [Node \cup {NULL} -> SUBSET Node] /\ S[NULL] = {}
      /\ \A m \in U : /\ h[m].left \in U \cup {NULL} /\ h[m].right \in U \cup {NULL}
                      /\ S[m] = S[h[m].left] \cup {m} \cup S[h[m].right]
                      /\ S[m] \subseteq U
                      /\ \A x \in S[m] : S[x] \subseteq S[m]
  BY DEF Below, TreeOK
<1>2. S2 \in [Node \cup {NULL} -> SUBSET Node] /\ \A x \in Node \cup {NULL} : S2[x] = S[x] \ {s}
  BY <1>1 DEF Without
<1>3. c = IF h[s].left = NULL THEN h[s].right ELSE h[s].left
  BY DEF Tree!OnlyChild
<1> HIDE DEF c
<1>4. c \in (U \ {s}) \cup {NULL} /\ S[c] \ {s} = S[s] \ {s}
  <2>1. h[s].left # s /\ h[s].right # s
    BY <1>1
  <2> QED BY <1>1, <1>3, <2>1
<1>5. \A m \in U : h[m] \in TreeCell /\ h[m] # Freed
  OBVIOUS
<1>6. ASSUME NEW m \in Node
      PROVE  g[m] = IF m = s \/ h[m] = Freed THEN Freed
                    ELSE [key |-> h[m].key, value |-> h[m].value,
                          left |-> IF h[m].left = s THEN c ELSE h[m].left,
                          right |-> IF h[m].right = s THEN c ELSE h[m].right]
  <2>1. g[m] = IF m = s THEN Freed ELSE IF h[m] = Freed THEN Freed
               ELSE [h[m] EXCEPT !.left = IF @ = s THEN c ELSE @, !.right = IF @ = s THEN c ELSE @]
    BY DEF Tree!Spliced, c
  <2>2. CASE m = s \/ h[m] = Freed
    BY <2>1, <2>2
  <2>3. CASE ~(m = s \/ h[m] = Freed)
    <3>1. h[m] \in TreeCell
      BY <2>3
    <3>2. PICK x, y, l, r : h[m] = [key |-> x, value |-> y, left |-> l, right |-> r]
      BY <3>1 DEF TreeCell
    <3>3. PICK a, b : a = (IF l = s THEN c ELSE l) /\ b = (IF r = s THEN c ELSE r)
      OBVIOUS
    <3>4. [h[m] EXCEPT !.left = a, !.right = b] = [key |-> x, value |-> y, left |-> a, right |-> b]
      <4>1. PICK q, z : q = h[m] /\ z = [q EXCEPT !.left = a, !.right = b]
        OBVIOUS
      <4>2. /\ DOMAIN z = {"key", "value", "left", "right"}
            /\ z.key = x /\ z.value = y /\ z.left = a /\ z.right = b
        BY <3>2, <4>1
      <4>3. z = [f \in DOMAIN z |-> z[f]]
        BY <3>2, <4>1
      <4>4. z = [key |-> x, value |-> y, left |-> a, right |-> b]
        BY <4>2, <4>3
      <4> QED BY <4>1, <4>4
    <3>5. h[m].key = x /\ h[m].value = y /\ h[m].left = l /\ h[m].right = r
      BY <3>2
    <3>6. g[m] = [h[m] EXCEPT !.left = a, !.right = b]
      BY <2>1, <2>3, <3>3, <3>5
    <3> QED BY <2>3, <3>3, <3>4, <3>5, <3>6
  <2> QED BY <2>2, <2>3
<1>7. ASSUME NEW m \in U \ {s}
      PROVE  /\ g[m].key = h[m].key /\ g[m].value = h[m].value /\ g[m] \in TreeCell
             /\ g[m].left = (IF h[m].left = s THEN c ELSE h[m].left)
             /\ g[m].right = (IF h[m].right = s THEN c ELSE h[m].right)
  <2>1. g[m] = [key |-> h[m].key, value |-> h[m].value,
                left |-> IF h[m].left = s THEN c ELSE h[m].left,
                right |-> IF h[m].right = s THEN c ELSE h[m].right]
    BY <1>5, <1>6
  <2>2. h[m].key \in Keys /\ h[m].value \in Values
    BY <1>5 DEF TreeCell
  <2>3. /\ (IF h[m].left = s THEN c ELSE h[m].left) \in Node \cup {NULL}
        /\ (IF h[m].right = s THEN c ELSE h[m].right) \in Node \cup {NULL}
    BY <1>1, <1>4
  <2>4. g[m] \in TreeCell
    BY <2>1, <2>2, <2>3 DEF TreeCell
  <2> QED BY <2>1, <2>4
<1>8. /\ g \in [Node -> TreeCell \cup {Freed}] /\ U \ {s} = {m \in Node : g[m] # Freed}
  <2>1. \A m \in Node : m \notin U \/ m = s => g[m] = Freed
    BY <1>6
  <2>2. \A m \in U \ {s} : g[m] \in TreeCell /\ g[m] # Freed
    BY <1>7 DEF TreeOK
  <2>3. g = [m \in Node |-> g[m]]
    BY DEF Tree!Spliced
  <2> QED BY <1>1, <2>1, <2>2, <2>3
<1>9. ASSUME NEW m \in U \ {s}
      PROVE  /\ g[m].left \in (U \ {s}) \cup {NULL} /\ g[m].right \in (U \ {s}) \cup {NULL}
             /\ S2[g[m].left] = S[h[m].left] \ {s} /\ S2[g[m].right] = S[h[m].right] \ {s}
  <2>1. /\ h[m].left \in U \cup {NULL} /\ h[m].right \in U \cup {NULL}
        /\ c \in Node \cup {NULL} /\ S2[c] = S[s] \ {s}
    BY <1>1, <1>2, <1>4
  <2> QED BY <1>1, <1>2, <1>4, <1>7, <2>1
<1>10. Below(g, S2, U \ {s})
  <2>1. ASSUME NEW m \in U \ {s}
        PROVE  /\ S2[m] = S2[g[m].left] \cup {m} \cup S2[g[m].right]
               /\ S2[m] \subseteq U \ {s}
               /\ \A x \in S2[m] : S2[x] \subseteq S2[m]
    <3>1. S2[m] = S[m] \ {s} /\ S[m] = S[h[m].left] \cup {m} \cup S[h[m].right] /\ S[m] \subseteq U
      BY <1>1, <1>2
    <3>2. S2[m] = S2[g[m].left] \cup {m} \cup S2[g[m].right]
      <4>1. PICK a, b : a = S[h[m].left] /\ b = S[h[m].right]
        OBVIOUS
      <4>2. S2[g[m].left] = a \ {s} /\ S2[g[m].right] = b \ {s}
        BY <1>9, <4>1
      <4>3. S2[m] = (a \cup {m} \cup b) \ {s} /\ m # s
        BY <3>1, <4>1
      <4> QED BY <4>2, <4>3
    <3>3. ASSUME NEW x \in S2[m] PROVE S2[x] \subseteq S2[m]
      <4>1. x \in S[m] /\ x \in Node /\ S[x] \subseteq S[m]
        BY <1>1, <3>1, <3>3
      <4> QED BY <1>2, <3>1, <4>1
    <3> QED BY <3>1, <3>2, <3>3
  <2>2. S2[NULL] = {} /\ U \ {s} \subseteq Node
    BY <1>1, <1>2
  <2> QED BY <1>2, <1>9, <2>1, <2>2 DEF Below
<1>11. S2[c] = S[s] \ {s}
  BY <1>1, <1>2, <1>4
<1> QED BY <1>4, <1>7, <1>8, <1>9, <1>10, <1>11 DEF c, Spared

LEMMA RemoveNodeKeeps ==
    ASSUME TreeOK, TreeInv, NEW n \in Grown, Tree!RemoveNode(n)
    PROVE  TreeInv' /\ DataKept(Grown \ {n}, n)
<1>1. PICK S : Subtrees(S)
  BY DEF TreeInv
<1>2. TreeCells /\ Below(tHeap, S, Grown) /\ Sorted(tHeap, S, Grown) /\ S[tRoot] = Grown
  BY <1>1 DEF TreeInv, Subtrees
<1>3. n \notin S[tHeap[n].left] /\ n \notin S[tHeap[n].right]
  BY <1>2, Apart
<1>4. PICK S2 : S2 = Without(S, n)
  OBVIOUS
<1>5. PICK g : g = Tree!Spliced(tHeap, n)
  OBVIOUS
<1>6. /\ tHeap' = g /\ tRoot' = IF tRoot = n THEN Tree!OnlyChild(n) ELSE tRoot
      /\ tHeap[n].left = NULL \/ tHeap[n].right = NULL
  BY <1>5 DEF Tree!RemoveNode
<1>7. tHeap \in [Node -> TreeCell \cup {Freed}] /\ Grown = {m \in Node : tHeap[m] # Freed}
  BY <1>2 DEF TreeCells, Grown
<1>8. Spared(tHeap, S, Grown, n, g, S2)
  BY <1>2, <1>3, <1>4, <1>5, <1>6, <1>7, SplicedTree
<1>9. Grown' = Grown \ {n}
  BY <1>6, <1>8 DEF Grown, Spared
<1>10. Sorted(g, S2, Grown \ {n})
  <2>1. \A m \in Grown : S[tHeap[m].left] \subseteq Grown /\ S[tHeap[m].right] \subseteq Grown
    BY <1>2, Apart
  <2> QED BY <1>2, <1>8, <2>1 DEF Sorted, Spared
<1>11. tRoot' \in (Grown \ {n}) \cup {NULL} /\ S2[tRoot'] = Grown \ {n}
  <2>1. tRoot \in Grown \cup {NULL} /\ tRoot \in Node \cup {NULL}
    BY <1>2, <1>7 DEF TreeCells
  <2>2. S2[tRoot] = S[tRoot] \ {n}
    BY <1>4, <2>1 DEF Without
  <2> QED BY <1>2, <1>6, <1>8, <2>1, <2>2 DEF Spared
<1>12. TreeInv'
  <2>1. Below(tHeap', S2, Grown') /\ Sorted(tHeap', S2, Grown') /\ S2[tRoot'] = Grown'
    BY <1>6, <1>8, <1>9, <1>10, <1>11 DEF Spared
  <2> QED BY <1>6, <1>8, <1>9, <1>11, <2>1 DEF TreeInv, TreeCells, Subtrees, Spared
<1> QED BY <1>6, <1>8, <1>9, <1>12 DEF DataKept, Spared

\* The successor's datum in the node of the key, and the successor spliced out.
LEMMA RemoveSuccessorKeeps ==
    ASSUME TreeOK, TreeInv, NEW n \in Grown, Tree!RemoveSuccessor(n)
    PROVE  /\ TreeInv'
           /\ \E s \in Grown \ {n} : /\ Grown' = Grown \ {s}
                                     /\ tHeap'[n].key = tHeap[s].key /\ tHeap'[n].value = tHeap[s].value
                                     /\ \A m \in Grown \ {s, n} : /\ tHeap'[m].key = tHeap[m].key
                                                                  /\ tHeap'[m].value = tHeap[m].value
<1>1. PICK S : Subtrees(S)
  BY DEF TreeInv
<1>2. TreeCells /\ Below(tHeap, S, Grown) /\ Sorted(tHeap, S, Grown) /\ S[tRoot] = Grown
  BY <1>1 DEF TreeInv, Subtrees
<1>3. PICK r, s, h : r = tHeap[n].right /\ s = Tree!FindMin(r) /\ h = Tree!Copied(n, s)
  OBVIOUS
<1>4. /\ tHeap[n].left # NULL /\ r # NULL /\ tRoot' = tRoot
      /\ tHeap' = Tree!Spliced(h, Tree!Second(h, n, h[s].key))
  BY <1>3 DEF Tree!RemoveSuccessor
<1>5. r \in Grown /\ S[r] \subseteq Grown /\ S[r] \subseteq S[n]
  BY <1>2, <1>3, <1>4 DEF Below
<1>6. \A m \in Grown : /\ m \notin S[tHeap[m].left] /\ m \notin S[tHeap[m].right]
                       /\ S[tHeap[m].left] \subseteq Grown /\ S[tHeap[m].right] \subseteq Grown
  BY <1>2, Apart
<1>7. /\ s \in S[r] /\ s \in Grown /\ s # n /\ tHeap[s].left = NULL
      /\ \A m \in S[r] : m # s => tHeap[s].key < tHeap[m].key
  <2>1. s \in S[r] /\ tHeap[s].left = NULL /\ \A m \in S[r] : m # s => tHeap[s].key < tHeap[m].key
    BY <1>2, <1>3, <1>5, FindMinIs DEF TreeOK
  <2> QED BY <1>3, <1>5, <1>6, <2>1
<1>8. \A m \in Grown : m \in Node /\ tHeap[m] \in TreeCell /\ tHeap[m].key \in Keys /\ tHeap[m].key \in Int
  BY <1>2, CellOf DEF TreeCell, TreeOK
<1>9. /\ h \in [Node -> TreeCell \cup {Freed}] /\ \A m \in Node \ {n} : h[m] = tHeap[m]
      /\ h[n] = [key |-> tHeap[s].key, value |-> tHeap[s].value, left |-> tHeap[n].left, right |-> tHeap[n].right]
      /\ h[n] # Freed
  <2>1. h = [[tHeap EXCEPT ![n].key = tHeap[s].key] EXCEPT ![n].value = tHeap[s].value]
    BY <1>3 DEF Tree!Copied
  <2>2. tHeap \in [Node -> TreeCell \cup {Freed}]
    BY <1>2 DEF TreeCells
  <2>3. /\ h = [m \in Node |-> h[m]] /\ \A m \in Node \ {n} : h[m] = tHeap[m]
        /\ h[n] = [[tHeap[n] EXCEPT !.key = tHeap[s].key] EXCEPT !.value = tHeap[s].value]
    BY <1>8, <2>1, <2>2
  <2>4. PICK x, y, a, b : tHeap[n] = [key |-> x, value |-> y, left |-> a, right |-> b]
    BY <1>8 DEF TreeCell
  <2>5. PICK z : z = [[tHeap[n] EXCEPT !.key = tHeap[s].key] EXCEPT !.value = tHeap[s].value]
    OBVIOUS
  <2>6. /\ DOMAIN z = {"key", "value", "left", "right"}
        /\ z.key = tHeap[s].key /\ z.value = tHeap[s].value /\ z.left = a /\ z.right = b
    BY <2>4, <2>5
  <2>7. z = [f \in DOMAIN z |-> z[f]]
    BY <2>5
  <2>8. z = [key |-> tHeap[s].key, value |-> tHeap[s].value, left |-> a, right |-> b]
    BY <2>6, <2>7
  <2>9. z \in TreeCell
    <3>1. tHeap[n] \in TreeCell /\ tHeap[s] \in TreeCell
      BY <1>7, <1>8
    <3>2. tHeap[s].key \in Keys /\ tHeap[s].value \in Values /\ a \in Node \cup {NULL} /\ b \in Node \cup {NULL}
      BY <2>4, <3>1 DEF TreeCell
    <3> QED BY <2>8, <3>2 DEF TreeCell
  <2>10. h[n] = z /\ a = tHeap[n].left /\ b = tHeap[n].right
    BY <2>3, <2>4, <2>5
  <2>11. \A m \in Node : h[m] \in TreeCell \cup {Freed}
    BY <2>2, <2>3, <2>9, <2>10
  <2> QED BY <2>3, <2>8, <2>9, <2>10, <2>11 DEF TreeOK
<1>10. \A m \in Grown : /\ h[m].left = tHeap[m].left /\ h[m].right = tHeap[m].right
                        /\ h[m].key = (IF m = n THEN tHeap[s].key ELSE tHeap[m].key)
                        /\ h[m].value = (IF m = n THEN tHeap[s].value ELSE tHeap[m].value)
  BY <1>8, <1>9
<1>11. Below(h, S, Grown)
  BY <1>2, <1>10 DEF Below
\* The second search finds the successor.
<1>12. Tree!Second(h, n, h[s].key) = s
  <2>1. Below(tHeap, S, S[r]) /\ Sorted(tHeap, S, S[r])
    BY <1>2, <1>5, Within
  <2>2. \A m \in S[r] : m \in Grown /\ m # n
    BY <1>3, <1>5, <1>6
  <2>3. Below(h, S, S[r])
    BY <1>10, <2>1, <2>2 DEF Below
  <2>4. Sorted(h, S, S[r])
    <3>1. \A m \in S[r] : S[tHeap[m].left] \subseteq S[r] /\ S[tHeap[m].right] \subseteq S[r]
      BY <2>1, Apart
    <3> QED BY <1>10, <2>1, <2>2, <3>1 DEF Sorted
  <2>5. r \in S[r] /\ h[n].right = r /\ h[s].key \in Int
    BY <1>2, <1>3, <1>5, <1>7, <1>8, <1>10 DEF Below
  <2>6. PICK t : t = Tree!Reached(h, r, h[s].key)
    OBVIOUS
  <2>7. IF t = NULL THEN \A m \in S[r] : h[m].key # h[s].key ELSE t \in S[r] /\ h[t].key = h[s].key
    <3>1. \A k \in Int : IF Tree!Reached(h, r, k) = NULL THEN \A m \in S[r] : h[m].key # k
                         ELSE Tree!Reached(h, r, k) \in S[r] /\ h[Tree!Reached(h, r, k)].key = k
      BY <2>3, <2>4, <2>5, ReachedIs DEF TreeOK
    <3> QED BY <2>5, <2>6, <3>1
  <2>8. t = s
    BY <1>7, <2>4, <2>7 DEF Sorted
  <2> QED BY <2>5, <2>6, <2>8 DEF Tree!Second
<1>13. PICK S2, g : S2 = Without(S, s) /\ g = Tree!Spliced(h, s)
  OBVIOUS
<1>14. tHeap' = g
  BY <1>4, <1>12, <1>13
<1>15. Grown = {m \in Node : h[m] # Freed}
  BY <1>8, <1>9 DEF Grown
<1>16. /\ h[s] = tHeap[s] /\ h[s].left = NULL /\ s \notin S[h[s].left] /\ s \notin S[h[s].right]
  BY <1>6, <1>7, <1>8, <1>9
<1>17. Spared(h, S, Grown, s, g, S2)
  BY <1>7, <1>9, <1>11, <1>13, <1>15, <1>16, SplicedTree
<1>18. Grown' = Grown \ {s}
  BY <1>14, <1>17 DEF Grown, Spared
<1>19. \A m \in Grown \ {s} : /\ g[m].key = (IF m = n THEN tHeap[s].key ELSE tHeap[m].key)
                              /\ g[m].value = (IF m = n THEN tHeap[s].value ELSE tHeap[m].value)
                              /\ S2[g[m].left] = S[tHeap[m].left] \ {s}
                              /\ S2[g[m].right] = S[tHeap[m].right] \ {s}
  BY <1>10, <1>17 DEF Spared
<1>20. Sorted(g, S2, Grown \ {s})
  <2>0. \A m \in Grown \ {s} : g[m].key \in Int
    BY <1>7, <1>8, <1>19
  <2>1. tHeap[n].key < tHeap[s].key
    BY <1>2, <1>3, <1>7 DEF Sorted
  <2>2. ASSUME NEW m \in Grown \ {s}, NEW x \in S2[g[m].left] PROVE g[x].key < g[m].key
    <3>1. x \in S[tHeap[m].left] /\ x # s /\ x \in Grown /\ tHeap[x].key < tHeap[m].key
      BY <1>2, <1>6, <1>19, <2>2 DEF Sorted
    <3>2. CASE m = n
      <4>1. x # n /\ g[x].key = tHeap[x].key /\ g[m].key = tHeap[s].key
        BY <1>6, <1>19, <3>1, <3>2
      <4> QED BY <1>7, <1>8, <2>1, <3>1, <3>2, <4>1
    <3>3. CASE m # n /\ x = n
      <4>1. tHeap[m].left \in Grown
        BY <1>2, <3>1 DEF Below
      <4>2. S[n] \subseteq S[tHeap[m].left]
        BY <1>2, <3>1, <3>3, <4>1 DEF Below
      <4>3. tHeap[s].key < tHeap[m].key
        BY <1>2, <1>5, <1>7, <4>2 DEF Sorted
      <4> QED BY <1>19, <3>1, <3>3, <4>3
    <3>4. CASE m # n /\ x # n
      BY <1>19, <3>1, <3>4
    <3> QED BY <3>2, <3>3, <3>4
  <2>3. ASSUME NEW m \in Grown \ {s}, NEW x \in S2[g[m].right] PROVE g[m].key < g[x].key
    <3>1. x \in S[tHeap[m].right] /\ x # s /\ x \in Grown /\ tHeap[m].key < tHeap[x].key
      BY <1>2, <1>6, <1>19, <2>3 DEF Sorted
    <3>2. CASE m = n
      <4>1. x # n /\ g[x].key = tHeap[x].key /\ g[m].key = tHeap[s].key
        BY <1>6, <1>19, <3>1, <3>2
      <4> QED BY <1>3, <1>7, <3>1, <3>2, <4>1
    <3>3. CASE m # n /\ x = n
      <4>1. tHeap[m].right \in Grown
        BY <1>2, <3>1 DEF Below
      <4>2. S[n] \subseteq S[tHeap[m].right]
        BY <1>2, <3>1, <3>3, <4>1 DEF Below
      <4>3. tHeap[m].key < tHeap[s].key
        BY <1>2, <1>5, <1>7, <4>2 DEF Sorted
      <4> QED BY <1>19, <3>1, <3>3, <4>3
    <3>4. CASE m # n /\ x # n
      BY <1>19, <3>1, <3>4
    <3> QED BY <3>2, <3>3, <3>4
  <2>4. ASSUME NEW x \in Grown \ {s}, NEW y \in Grown \ {s}, g[x].key = g[y].key PROVE x = y
    <3>1. \A a, b \in Grown : tHeap[a].key = tHeap[b].key => a = b
      BY <1>2 DEF Sorted
    <3> QED BY <1>7, <1>19, <2>4, <3>1
  <2> QED BY <2>0, <2>2, <2>3, <2>4 DEF Sorted
<1>21. tRoot \in (Grown \ {s}) \cup {NULL} /\ S2[tRoot] = Grown \ {s}
  <2>1. tRoot \in Grown /\ tRoot \in Node
    <3>1. tRoot # NULL
      BY <1>2, <1>7 DEF Below
    <3> QED BY <1>2, <1>8, <3>1 DEF TreeCells
  <2>2. tRoot # s
    <3>1. tRoot = s => S[s] \subseteq S[r] /\ n \in S[s]
      BY <1>2, <1>5, <1>7 DEF Below
    <3> QED BY <1>3, <1>6, <3>1
  <2>3. S2[tRoot] = S[tRoot] \ {s}
    BY <1>13, <2>1 DEF Without
  <2> QED BY <1>2, <2>1, <2>2, <2>3
<1>22. TreeInv'
  <2>1. Below(tHeap', S2, Grown') /\ Sorted(tHeap', S2, Grown') /\ S2[tRoot'] = Grown'
    BY <1>4, <1>14, <1>17, <1>18, <1>20, <1>21 DEF Spared
  <2> QED BY <1>4, <1>14, <1>17, <1>18, <1>21, <2>1 DEF TreeInv, TreeCells, Subtrees, Spared
<1>23. /\ s \in Grown \ {n}
       /\ tHeap'[n].key = tHeap[s].key /\ tHeap'[n].value = tHeap[s].value
       /\ \A m \in Grown \ {s, n} : tHeap'[m].key = tHeap[m].key /\ tHeap'[m].value = tHeap[m].value
  BY <1>7, <1>14, <1>19
<1> QED BY <1>18, <1>22, <1>23

-----------------------------------------------------------------------------
(* Traversal. *)

\* The table of a traversal's recursion: the visits of the subtree at n, to depth d.
VisitTable(pos, t) ==
    t = [d \in 0 .. Tree!MaxDepth |->
           [n \in Node \cup {NULL} |->
              IF n = NULL \/ d = 0 THEN <<>>
              ELSE LET l == t[d - 1][tHeap[n].left]
                       r == t[d - 1][tHeap[n].right]
                   IN  CASE pos = 0 -> <<n>> \o l \o r
                         [] pos = 1 -> l \o <<n>> \o r
                         [] pos = 2 -> l \o r \o <<n>>]]

LEMMA TableExists ==
    ASSUME TreeOK, NEW pos
    PROVE  \E t : VisitTable(pos, t)
<1> DEFINE D == Tree!MaxDepth
           nothing == [n \in Node \cup {NULL} |-> <<>>]
<1>1. D \in Nat
  BY CardinalityIs, FS_CardinalityType DEF Tree!MaxDepth, TreeOK
<1> HIDE DEF D
<1>2. PICK t : Steps("visit", tHeap, pos, nothing, D, t)
  BY <1>1, StepsExist
<1>3. t = [d \in 0 .. D |-> IF d = 0 THEN nothing ELSE Deeper(tHeap, pos, t[d - 1])]
  BY <1>2 DEF Steps, Onward
<1>4. ASSUME NEW d \in 0 .. D
      PROVE  (IF d = 0 THEN nothing ELSE Deeper(tHeap, pos, t[d - 1]))
               = [n \in Node \cup {NULL} |->
                    IF n = NULL \/ d = 0 THEN <<>>
                    ELSE LET l == t[d - 1][tHeap[n].left]
                             r == t[d - 1][tHeap[n].right]
                         IN  CASE pos = 0 -> <<n>> \o l \o r
                               [] pos = 1 -> l \o <<n>> \o r
                               [] pos = 2 -> l \o r \o <<n>>]
  <2>1. CASE d = 0
    BY <2>1
  <2>2. CASE d # 0
    <3> DEFINE F(n) == LET l == t[d - 1][tHeap[n].left]
                           r == t[d - 1][tHeap[n].right]
                       IN  CASE pos = 0 -> <<n>> \o l \o r
                             [] pos = 1 -> l \o <<n>> \o r
                             [] pos = 2 -> l \o r \o <<n>>
    <3>1. Deeper(tHeap, pos, t[d - 1]) = [n \in Node \cup {NULL} |-> IF n = NULL THEN <<>> ELSE F(n)]
      BY DEF Deeper
    <3> HIDE DEF F
    <3>2. Deeper(tHeap, pos, t[d - 1])
            = [n \in Node \cup {NULL} |-> IF n = NULL \/ d = 0 THEN <<>> ELSE F(n)]
      BY <2>2, <3>1
    <3> QED BY <2>2, <3>2 DEF F
  <2> QED BY <2>1, <2>2
<1> HIDE DEF nothing
<1>5. VisitTable(pos, t)
  BY <1>3, <1>4 DEF VisitTable, D
<1> QED BY <1>5

LEMMA VisitsAt ==
    ASSUME TreeOK, NEW pos
    PROVE  \E t : /\ VisitTable(pos, t) /\ Tree!Visits(pos) = t[Tree!MaxDepth][tRoot]
<1> DEFINE t == CHOOSE u : VisitTable(pos, u)
<1>1. VisitTable(pos, t)
  BY TableExists
<1>2. Tree!Visits(pos) = t[Tree!MaxDepth][tRoot]
  BY DEF Tree!Visits, VisitTable
<1> QED BY <1>1, <1>2, Zenon

\* A sequence of the members of T, each once.
Met(v, T) == v \in Seq(T) /\ Len(v) = Cardinality(T) /\ \A x \in T : \E i \in 1 .. Len(v) : v[i] = x

Ascends(v) == \A i, j \in 1 .. Len(v) : i < j => tHeap[v[i]].key < tHeap[v[j]].key

LEMMA Joined ==
    ASSUME NEW A, NEW B, IsFiniteSet(A), IsFiniteSet(B), A \cap B = {},
           NEW a, NEW b, Met(a, A), Met(b, B)
    PROVE  /\ IsFiniteSet(A \cup B) /\ Met(a \o b, A \cup B)
           /\ Ascends(a) /\ Ascends(b) /\ (\A x \in A, y \in B : tHeap[x].key < tHeap[y].key) => Ascends(a \o b)
<1> DEFINE c == a \o b
<1>1. a \in Seq(A) /\ b \in Seq(B) /\ a \in Seq(A \cup B) /\ b \in Seq(A \cup B)
  BY DEF Met
<1>2. /\ c \in Seq(A \cup B) /\ Len(c) = Len(a) + Len(b) /\ Len(a) \in Nat /\ Len(b) \in Nat
      /\ \A i \in 1 .. Len(c) : c[i] = IF i <= Len(a) THEN a[i] ELSE b[i - Len(a)]
  BY <1>1, ConcatProperties, LenProperties
<1> HIDE DEF c
<1>3. IsFiniteSet(A \cup B) /\ Cardinality(A \cup B) = Cardinality(A) + Cardinality(B)
  <2>1. Cardinality(A \cap B) = 0
    BY FS_EmptySet, Zenon
  <2>2. /\ IsFiniteSet(A \cup B)
        /\ Cardinality(A \cup B) = Cardinality(A) + Cardinality(B) - Cardinality(A \cap B)
    BY FS_Union, Zenon
  <2>3. Cardinality(A) \in Nat /\ Cardinality(B) \in Nat
    BY FS_CardinalityType
  <2> QED BY <2>1, <2>2, <2>3
<1>4. ASSUME NEW x \in A \cup B PROVE \E i \in 1 .. Len(c) : c[i] = x
  <2>1. CASE x \in A
    <3>1. PICK i \in 1 .. Len(a) : a[i] = x
      BY <2>1 DEF Met
    <3> QED BY <1>2, <3>1
  <2>2. CASE x \in B
    <3>1. PICK i \in 1 .. Len(b) : b[i] = x
      BY <2>2 DEF Met
    <3>2. Len(a) + i \in 1 .. Len(c) /\ ~(Len(a) + i <= Len(a)) /\ (Len(a) + i) - Len(a) = i
      BY <1>2
    <3>3. c[Len(a) + i] = x
      BY <1>2, <3>1, <3>2
    <3> QED BY <3>2, <3>3
  <2> QED BY <2>1, <2>2
<1>5. Met(c, A \cup B)
  BY <1>2, <1>3, <1>4 DEF Met
<1>6. ASSUME Ascends(a), Ascends(b), \A x \in A, y \in B : tHeap[x].key < tHeap[y].key,
             NEW i \in 1 .. Len(c), NEW j \in 1 .. Len(c), i < j
      PROVE  tHeap[c[i]].key < tHeap[c[j]].key
  <2>1. /\ \A q \in 1 .. Len(a) : a[q] \in A
        /\ \A q \in 1 .. Len(b) : b[q] \in B
    BY <1>1
  <2>2. CASE j <= Len(a)
    <3>1. i \in 1 .. Len(a) /\ j \in 1 .. Len(a) /\ i <= Len(a)
      BY <1>2, <1>6, <2>2
    <3>2. c[i] = a[i] /\ c[j] = a[j]
      BY <1>2, <3>1
    <3> QED BY <1>6, <3>1, <3>2 DEF Ascends
  <2>3. CASE i > Len(a)
    <3>1. /\ i - Len(a) \in 1 .. Len(b) /\ j - Len(a) \in 1 .. Len(b) /\ i - Len(a) < j - Len(a)
          /\ ~(i <= Len(a)) /\ ~(j <= Len(a))
      BY <1>2, <1>6, <2>3
    <3>2. c[i] = b[i - Len(a)] /\ c[j] = b[j - Len(a)]
      BY <1>2, <3>1
    <3> QED BY <1>6, <3>1, <3>2 DEF Ascends
  <2>4. CASE i <= Len(a) /\ j > Len(a)
    <3>1. i \in 1 .. Len(a) /\ j - Len(a) \in 1 .. Len(b) /\ ~(j <= Len(a))
      BY <1>2, <1>6, <2>4
    <3>2. c[i] = a[i] /\ c[j] = b[j - Len(a)]
      BY <1>2, <2>4, <3>1
    <3> QED BY <1>6, <2>1, <3>1, <3>2
  <2> QED BY <1>2, <2>2, <2>3, <2>4
<1>7. (Ascends(a) /\ Ascends(b) /\ \A x \in A, y \in B : tHeap[x].key < tHeap[y].key) => Ascends(c)
  BY <1>6 DEF Ascends
<1> QED BY <1>3, <1>5, <1>7 DEF c

\* Two subtrees and the node above them, in any of the three orders.
LEMMA Around ==
    ASSUME NEW L, NEW R, NEW n, IsFiniteSet(L), IsFiniteSet(R), L \cap R = {}, n \notin L, n \notin R,
           NEW l, NEW r, Met(l, L), Met(r, R)
    PROVE  /\ Met(<<n>> \o l \o r, L \cup {n} \cup R)
           /\ Met(l \o r \o <<n>>, L \cup {n} \cup R)
           /\ Met(l \o <<n>> \o r, L \cup {n} \cup R)
           /\ /\ Ascends(l) /\ Ascends(r) /\ \A x \in L \cup {n} : tHeap[x].key \in Int
              /\ \A x \in L : tHeap[x].key < tHeap[n].key
              /\ \A x \in R : tHeap[x].key \in Int /\ tHeap[n].key < tHeap[x].key
              => Ascends(l \o <<n>> \o r)
<1>1. IsFiniteSet({n}) /\ Met(<<n>>, {n}) /\ Ascends(<<n>>)
  <2>1. IsFiniteSet({n}) /\ Cardinality({n}) = 1
    BY FS_Singleton
  <2> QED BY <2>1 DEF Met, Ascends
<1>2. Met(<<n>> \o l \o r, L \cup {n} \cup R)
  <2>1. {n} \cap L = {} /\ ({n} \cup L) \cap R = {} /\ ({n} \cup L) \cup R = L \cup {n} \cup R
    OBVIOUS
  <2>2. IsFiniteSet({n} \cup L) /\ Met(<<n>> \o l, {n} \cup L)
    BY <1>1, <2>1, Joined, Zenon
  <2>3. Met((<<n>> \o l) \o r, ({n} \cup L) \cup R)
    BY <2>1, <2>2, Joined, Zenon
  <2> QED BY <2>1, <2>3
<1>3. Met(l \o r \o <<n>>, L \cup {n} \cup R)
  <2>1. (L \cup R) \cap {n} = {} /\ (L \cup R) \cup {n} = L \cup {n} \cup R
    OBVIOUS
  <2>2. IsFiniteSet(L \cup R) /\ Met(l \o r, L \cup R)
    BY Joined, Zenon
  <2>3. Met((l \o r) \o <<n>>, (L \cup R) \cup {n})
    BY <1>1, <2>1, <2>2, Joined, Zenon
  <2> QED BY <2>1, <2>3
<1>4. L \cap {n} = {} /\ (L \cup {n}) \cap R = {}
  OBVIOUS
<1>5. IsFiniteSet(L \cup {n}) /\ Met(l \o <<n>>, L \cup {n})
  BY <1>1, <1>4, Joined, Zenon
<1>6. Met((l \o <<n>>) \o r, (L \cup {n}) \cup R)
  BY <1>4, <1>5, Joined, Zenon
<1>7. ASSUME Ascends(l), Ascends(r), \A x \in L \cup {n} : tHeap[x].key \in Int,
             \A x \in L : tHeap[x].key < tHeap[n].key,
             \A x \in R : tHeap[x].key \in Int /\ tHeap[n].key < tHeap[x].key
      PROVE  Ascends(l \o <<n>> \o r)
  <2>1. \A x \in L, y \in {n} : tHeap[x].key < tHeap[y].key
    BY <1>7
  <2>2. Ascends(l \o <<n>>)
    BY <1>1, <1>4, <1>7, <2>1, Joined, Zenon
  <2>3. ASSUME NEW x \in L \cup {n}, NEW y \in R PROVE tHeap[x].key < tHeap[y].key
    <3>1. CASE x = n
      BY <1>7, <3>1
    <3>2. CASE x \in L
      <4>1. /\ tHeap[x].key < tHeap[n].key /\ tHeap[n].key < tHeap[y].key
            /\ tHeap[x].key \in Int /\ tHeap[y].key \in Int /\ tHeap[n].key \in Int
        BY <1>7, <3>2
      <4> QED BY <4>1
    <3> QED BY <3>1, <3>2
  <2> QED BY <1>4, <1>5, <1>7, <2>2, <2>3, Joined, Zenon
<1> QED BY <1>2, <1>3, <1>6, <1>7

\* Every traversal meets each node of a subtree once, and in-order in the order of the keys.
LEMMA SubtreeVisited ==
    ASSUME TreeOK, NEW S, Subtrees(S), NEW pos \in {0, 1, 2}, NEW t, VisitTable(pos, t),
           NEW d \in Nat, d <= Tree!MaxDepth, NEW n \in Grown \cup {NULL}, Cardinality(S[n]) <= d
    PROVE  Met(t[d][n], S[n]) /\ (pos = 1 => Ascends(t[d][n]))
<1> DEFINE D == Tree!MaxDepth
           G(e) == e <= D => \A m \in Grown \cup {NULL} : Cardinality(S[m]) <= e =>
                                Met(t[e][m], S[m]) /\ (pos = 1 => Ascends(t[e][m]))
           T == {e \in Nat : G(e)}
<1>1. /\ D \in Nat /\ Below(tHeap, S, Grown) /\ Sorted(tHeap, S, Grown) /\ Grown \subseteq Node
      /\ IsFiniteSet(Node) /\ NULL \notin Grown
  BY CardinalityIs, FS_CardinalityType DEF Tree!MaxDepth, TreeOK, Subtrees, Grown
<1> HIDE DEF D
<1>2. ASSUME NEW e \in 0 .. D
      PROVE  /\ t[e][NULL] = <<>>
             /\ e # 0 => \A m \in Grown :
                  LET l == t[e - 1][tHeap[m].left]
                      r == t[e - 1][tHeap[m].right]
                  IN  t[e][m] = CASE pos = 0 -> <<m>> \o l \o r
                                  [] pos = 1 -> l \o <<m>> \o r
                                  [] pos = 2 -> l \o r \o <<m>>
  <2>1. t[e] = [m \in Node \cup {NULL} |->
                  IF m = NULL \/ e = 0 THEN <<>>
                  ELSE LET l == t[e - 1][tHeap[m].left]
                           r == t[e - 1][tHeap[m].right]
                       IN  CASE pos = 0 -> <<m>> \o l \o r
                             [] pos = 1 -> l \o <<m>> \o r
                             [] pos = 2 -> l \o r \o <<m>>]
    BY DEF VisitTable, D
  <2> QED BY <1>1, <2>1
<1>3. Met(<<>>, {}) /\ Ascends(<<>>)
  BY FS_EmptySet DEF Met, Ascends
<1>4. S[NULL] = {}
  BY <1>1 DEF Below
<1>0. /\ \A m \in Node \cup {NULL} : IsFiniteSet(S[m]) /\ Cardinality(S[m]) \in Nat
      /\ \A m \in Grown :
           Cardinality(S[m]) = Cardinality(S[tHeap[m].left]) + Cardinality(S[tHeap[m].right]) + 1
  BY <1>1, Sizes
<1>5. ASSUME NEW m \in Grown PROVE Cardinality(S[m]) \in Nat /\ Cardinality(S[m]) > 0
  <2>1. tHeap[m].left \in Node \cup {NULL} /\ tHeap[m].right \in Node \cup {NULL}
    BY <1>1 DEF Below
  <2>2. /\ Cardinality(S[m]) = Cardinality(S[tHeap[m].left]) + Cardinality(S[tHeap[m].right]) + 1
        /\ Cardinality(S[tHeap[m].left]) \in Nat /\ Cardinality(S[tHeap[m].right]) \in Nat
    BY <1>0, <2>1
  <2> QED BY <2>2
<1>6. 0 \in T
  <2>1. ASSUME NEW m \in Grown \cup {NULL}, Cardinality(S[m]) <= 0
        PROVE  Met(t[0][m], S[m]) /\ (pos = 1 => Ascends(t[0][m]))
    <3>1. m = NULL
      BY <1>5, <2>1
    <3>2. t[0][NULL] = <<>>
      BY <1>1, <1>2
    <3> QED BY <1>3, <1>4, <3>1, <3>2
  <2> QED BY <2>1
<1>7. ASSUME NEW e \in Nat, e \in T PROVE e + 1 \in T
  <2> SUFFICES ASSUME e + 1 <= D, NEW m \in Grown \cup {NULL}, Cardinality(S[m]) <= e + 1
               PROVE  Met(t[e + 1][m], S[m]) /\ (pos = 1 => Ascends(t[e + 1][m]))
    OBVIOUS
  <2>1. e <= D /\ e + 1 \in 0 .. D /\ e + 1 # 0 /\ (e + 1) - 1 = e /\ G(e)
    BY <1>1, <1>7
  <2>2. CASE m = NULL
    BY <1>2, <1>3, <1>4, <2>1, <2>2
  <2>3. CASE m \in Grown
    <3>1. PICK a, b, l, r, L, R : /\ a = tHeap[m].left /\ b = tHeap[m].right /\ L = S[a] /\ R = S[b]
                                  /\ l = t[e][a] /\ r = t[e][b]
      OBVIOUS
    <3>2. /\ a \in Grown \cup {NULL} /\ b \in Grown \cup {NULL} /\ S[m] = L \cup {m} \cup R
          /\ m \notin L /\ m \notin R /\ L \cap R = {} /\ L \subseteq Grown /\ R \subseteq Grown
      BY <1>1, <2>3, <3>1, Apart DEF Below
    <3>3. /\ IsFiniteSet(L) /\ IsFiniteSet(R) /\ Cardinality(L) \in Nat /\ Cardinality(R) \in Nat
          /\ Cardinality(S[m]) = Cardinality(L) + Cardinality(R) + 1
      <4>1. a \in Node \cup {NULL} /\ b \in Node \cup {NULL}
        BY <1>1, <3>2
      <4> QED BY <1>0, <2>3, <3>1, <4>1
    <3>4. Cardinality(L) <= e /\ Cardinality(R) <= e
      BY <3>3
    <3>5. Met(l, L) /\ Met(r, R) /\ (pos = 1 => Ascends(l) /\ Ascends(r))
      BY <2>1, <3>1, <3>2, <3>4
    <3>6. t[e + 1][m] = CASE pos = 0 -> <<m>> \o l \o r
                          [] pos = 1 -> l \o <<m>> \o r
                          [] pos = 2 -> l \o r \o <<m>>
      BY <1>2, <2>1, <2>3, <3>1
    <3>7. /\ \A x \in L \cup {m} : tHeap[x].key \in Int
          /\ \A x \in L : tHeap[x].key < tHeap[m].key
          /\ \A x \in R : tHeap[x].key \in Int /\ tHeap[m].key < tHeap[x].key
      BY <1>1, <2>3, <3>1, <3>2 DEF Sorted
    <3>8. CASE pos = 0
      <4>1. t[e + 1][m] = <<m>> \o l \o r
        BY <3>6, <3>8
      <4>2. Met(<<m>> \o l \o r, L \cup {m} \cup R)
        BY <3>2, <3>3, <3>5, Around
      <4> QED BY <3>2, <3>8, <4>1, <4>2
    <3>9. CASE pos = 1
      <4>1. t[e + 1][m] = l \o <<m>> \o r
        BY <3>6, <3>9
      <4>2. Met(l \o <<m>> \o r, L \cup {m} \cup R) /\ Ascends(l \o <<m>> \o r)
        BY <3>2, <3>3, <3>5, <3>7, <3>9, Around
      <4> QED BY <3>2, <4>1, <4>2
    <3>10. CASE pos = 2
      <4>1. t[e + 1][m] = l \o r \o <<m>>
        BY <3>6, <3>10
      <4>2. Met(l \o r \o <<m>>, L \cup {m} \cup R)
        BY <3>2, <3>3, <3>5, Around
      <4> QED BY <3>2, <3>10, <4>1, <4>2
    <3> QED BY <3>8, <3>9, <3>10
  <2> QED BY <2>2, <2>3
<1>8. d \in T
  <2> HIDE DEF T
  <2> QED BY <1>6, <1>7, SetInduction
<1> QED BY <1>8 DEF D

LEMMA VisitsAre ==
    ASSUME TreeOK, TreeInv, NEW pos \in {0, 1, 2}
    PROVE  Met(Tree!Visits(pos), Grown) /\ (pos = 1 => Ascends(Tree!Visits(pos)))
<1>1. PICK S : Subtrees(S)
  BY DEF TreeInv
<1>2. PICK t : VisitTable(pos, t) /\ Tree!Visits(pos) = t[Tree!MaxDepth][tRoot]
  BY VisitsAt
<1>3. Tree!MaxDepth \in Nat /\ Tree!MaxDepth = Cardinality(Node)
  BY CardinalityIs, FS_CardinalityType DEF Tree!MaxDepth, TreeOK
<1>4. Cardinality(Grown) <= Cardinality(Node)
  BY FS_Subset DEF Grown, TreeOK
<1>5. S[tRoot] = Grown /\ tRoot \in Grown \cup {NULL}
  BY <1>1 DEF Subtrees, TreeInv, TreeCells
<1> QED BY <1>1, <1>2, <1>3, <1>4, <1>5, SubtreeVisited

LEMMA TreeAscends == ASSUME TreeOK PROVE TreeInv => InorderAscends
<1> SUFFICES ASSUME TreeInv PROVE InorderAscends
  OBVIOUS
<1>1. PICK v : v = Tree!Inorder
  OBVIOUS
<1>2. Met(v, Grown) /\ Ascends(v)
  BY <1>1, VisitsAre DEF Tree!Inorder
<1>3. Len(v) \in Nat
  BY <1>2, LenProperties DEF Met
<1>4. ASSUME NEW i \in 1 .. Len(v) - 1 PROVE tHeap[v[i]].key < tHeap[v[i + 1]].key
  <2>1. i \in 1 .. Len(v) /\ i + 1 \in 1 .. Len(v) /\ i < i + 1
    BY <1>3
  <2> QED BY <1>2, <2>1 DEF Ascends
<1> QED BY <1>1, <1>4 DEF InorderAscends, Tree!InorderAscends

\* What a traversal meets.
LEMMA MetRange ==
    ASSUME NEW v, NEW T, Met(v, T)
    PROVE  {v[i] : i \in DOMAIN v} = T
<1>1. v \in Seq(T) /\ DOMAIN v = 1 .. Len(v)
  BY LenProperties DEF Met
<1>2. \A i \in 1 .. Len(v) : v[i] \in T
  BY <1>1
<1> QED BY <1>1, <1>2 DEF Met

LEMMA FreeIs == Node \ Tree!FreeNodes = Grown
  BY DEF Tree!FreeNodes, Grown

LEMMA TreeOwns == ASSUME TreeOK PROVE TreeInv => TreeOwnsHeap
<1> SUFFICES ASSUME TreeInv PROVE TreeOwnsHeap
  OBVIOUS
<1>1. Met(Tree!Postorder, Grown) /\ Met(Tree!Preorder, Grown)
  BY VisitsAre DEF Tree!Postorder, Tree!Preorder
<1>2. {Tree!Postorder[i] : i \in DOMAIN Tree!Postorder} = Grown
  BY <1>1, MetRange
<1>3. Tree!Size = Tree!Cardinality(Node \ Tree!FreeNodes)
  BY <1>1, CardinalityIs, FreeIs DEF Tree!Size, Met
<1> QED BY <1>2, <1>3, FreeIs DEF TreeOwnsHeap, Tree!TreeOwnsHeap

-----------------------------------------------------------------------------
(* The tree as a dictionary. *)

TreeMap == [k \in Keys |-> IF Tree!Holder(k) = NULL THEN None ELSE tHeap[Tree!Holder(k)].value]

\* The map holds the datum of each node, and nothing else.
TreeMapFacts ==
    TreeOK /\ TreeInv => /\ \A m \in Grown : tHeap[m].key \in Keys /\ TreeMap[tHeap[m].key] = tHeap[m].value
                         /\ \A k \in Keys : (\A m \in Grown : tHeap[m].key # k) => TreeMap[k] = None

LEMMA TreeMapIs == TreeMapFacts
<1> SUFFICES ASSUME TreeOK, TreeInv
             PROVE  /\ \A m \in Grown : tHeap[m].key \in Keys /\ TreeMap[tHeap[m].key] = tHeap[m].value
                    /\ \A k \in Keys : (\A m \in Grown : tHeap[m].key # k) => TreeMap[k] = None
  BY DEF TreeMapFacts
<1>1. PICK S : Subtrees(S)
  BY DEF TreeInv
<1>2. TreeCells
  BY DEF TreeInv
<1>3. \A k \in Keys : IF Tree!Holder(k) = NULL THEN \A m \in Grown : tHeap[m].key # k
                      ELSE Tree!Holder(k) \in Grown /\ tHeap[Tree!Holder(k)].key = k
  BY <1>1, <1>2, HolderIs
<1>4. ASSUME NEW m \in Grown PROVE tHeap[m].key \in Keys /\ TreeMap[tHeap[m].key] = tHeap[m].value
  <2>1. tHeap[m].key \in Keys
    BY <1>2, CellOf DEF TreeCell
  <2>2. Tree!Holder(tHeap[m].key) # NULL /\ Tree!Holder(tHeap[m].key) = m
    BY <1>1, <1>3, <2>1 DEF Subtrees, Sorted
  <2> QED BY <2>1, <2>2 DEF TreeMap
<1>5. ASSUME NEW k \in Keys, \A m \in Grown : tHeap[m].key # k PROVE TreeMap[k] = None
  BY <1>3, <1>5 DEF TreeMap
<1> QED BY <1>4, <1>5

LEMMA TreeMapNext ==
    TreeOK /\ TreeInv' =>
      /\ \A m \in Grown' : tHeap'[m].key \in Keys /\ TreeMap'[tHeap'[m].key] = tHeap'[m].value
      /\ \A k \in Keys : (\A m \in Grown' : tHeap'[m].key # k) => TreeMap'[k] = None
<1>1. TreeMapFacts'
  BY TreeMapIs, PTL
<1> QED BY <1>1 DEF TreeMapFacts, TreeOK, TreeCell

LEMMA TreeMapFunction == TreeMap = [k \in Keys |-> TreeMap[k]] /\ TreeMap' = [k \in Keys |-> TreeMap'[k]]
  BY DEF TreeMap

\* A step after which key k has datum e, or none, and every other key has what it had.
LEMMA TreeMapUpdate ==
    ASSUME TreeOK, TreeInv, TreeInv', NEW k \in Keys, NEW e,
           (\E m \in Grown' : tHeap'[m].key = k /\ tHeap'[m].value = e)
             \/ (e = None /\ \A m \in Grown' : tHeap'[m].key # k),
           \A m \in Grown' : tHeap'[m].key # k =>
             \E x \in Grown : tHeap[x].key = tHeap'[m].key /\ tHeap[x].value = tHeap'[m].value,
           \A x \in Grown : tHeap[x].key # k => \E m \in Grown' : tHeap'[m].key = tHeap[x].key
    PROVE  TreeMap' = [TreeMap EXCEPT ![k] = e]
<1>1. TreeMap'[k] = e
  BY TreeMapNext
<1>2. ASSUME NEW j \in Keys, j # k PROVE TreeMap'[j] = TreeMap[j]
  <2>1. CASE \E m \in Grown' : tHeap'[m].key = j
    <3>1. PICK m \in Grown' : tHeap'[m].key = j
      BY <2>1
    <3>2. PICK x \in Grown : tHeap[x].key = tHeap'[m].key /\ tHeap[x].value = tHeap'[m].value
      BY <1>2, <3>1
    <3>3. TreeMap[tHeap[x].key] = tHeap[x].value
      BY <3>2, TreeMapIs DEF TreeMapFacts
    <3>4. TreeMap'[tHeap'[m].key] = tHeap'[m].value
      BY <3>1, TreeMapNext
    <3> QED BY <3>1, <3>2, <3>3, <3>4
  <2>2. CASE \A m \in Grown' : tHeap'[m].key # j
    <3>1. TreeMap'[j] = None
      BY <2>2, TreeMapNext
    <3>2. \A x \in Grown : tHeap[x].key # j
      BY <1>2, <2>2
    <3>3. TreeMap[j] = None
      BY <3>2, TreeMapIs DEF TreeMapFacts
    <3> QED BY <3>1, <3>3
  <2> QED BY <2>1, <2>2
<1>3. PICK f, g : f = TreeMap /\ g = TreeMap'
  OBVIOUS
<1>4. f = [j \in Keys |-> f[j]] /\ g = [j \in Keys |-> g[j]]
  BY <1>3, TreeMapFunction
<1>5. g[k] = e /\ \A j \in Keys : j # k => g[j] = f[j]
  BY <1>1, <1>2, <1>3
<1>6. g = [f EXCEPT ![k] = e]
  BY <1>4, <1>5
<1> QED BY <1>3, <1>6

LEMMA TreeMapOf ==
    ASSUME TreeOK, MapOK, TreeInv, NEW k \in Keys
    PROVE  IF Tree!Holder(k) = NULL THEN TreeMap[k] = None
           ELSE /\ Tree!Holder(k) \in Grown /\ tHeap[Tree!Holder(k)].key = k
                /\ TreeMap[k] = tHeap[Tree!Holder(k)].value
                /\ TreeMap[k] \in Values /\ TreeMap[k] # None
<1>1. PICK S : Subtrees(S)
  BY DEF TreeInv
<1>2. IF Tree!Holder(k) = NULL THEN \A m \in Grown : tHeap[m].key # k
      ELSE Tree!Holder(k) \in Grown /\ tHeap[Tree!Holder(k)].key = k
  BY <1>1, HolderIs DEF TreeInv
<1>3. Tree!Holder(k) # NULL => tHeap[Tree!Holder(k)].value \in Values
  BY <1>2, CellOf DEF TreeInv, TreeCell
<1> QED BY <1>2, <1>3 DEF TreeMap, MapOK

LEMMA TreeStays ==
    ASSUME TreeInv, UNCHANGED <<tHeap, tRoot>>
    PROVE  TreeInv' /\ TreeMap' = TreeMap
<1>1. Grown' = Grown
  BY DEF Grown
<1>2. PICK S : Subtrees(S)
  BY DEF TreeInv
<1>3. Below(tHeap', S, Grown') /\ Sorted(tHeap', S, Grown') /\ S[tRoot'] = Grown'
  BY <1>1, <1>2 DEF Subtrees
<1>4. TreeInv'
  BY <1>1, <1>3 DEF TreeInv, TreeCells, Subtrees
<1>5. \A k : Tree!Holder(k)' = Tree!Holder(k)
  BY DEF Tree!Holder, Tree!Reached, Tree!Walk, Tree!Child
<1> QED BY <1>4, <1>5 DEF TreeMap

LEMMA TreeInsertRefines ==
    ASSUME TreeOK, MapOK, TreeInv, NEW n \in Node, NEW k \in Keys, NEW v \in Values, Tree!Insert(n, k, v)
    PROVE  TreeInv' /\ Tree!Abs!Next
<1>1. /\ TreeInv' /\ DataKept(Grown \cup {n}, n) /\ n \notin Grown
      /\ tHeap'[n].key = k /\ tHeap'[n].value = v
  BY InsertFirst, InsertBelow
<1>2. Tree!Holder(k) = NULL /\ tOut' = Tree!Answer("insert", 0, k, None)
  BY DEF Tree!Insert
<1>3. /\ Grown' = Grown \cup {n}
      /\ \A m \in Grown : tHeap'[m].key = tHeap[m].key /\ tHeap'[m].value = tHeap[m].value
  BY <1>1 DEF DataKept
<1>4. TreeMap' = [TreeMap EXCEPT ![k] = v]
  BY <1>1, <1>3, TreeMapUpdate
<1>5. TreeMap[k] = None
  BY <1>2, TreeMapOf
<1>6. Tree!Abs!Put(k, v)
  BY <1>2, <1>4, <1>5 DEF Tree!Abs!Put, Tree!Abs!Answer, Tree!Answer, TreeMap
<1> QED BY <1>1, <1>6 DEF Tree!Abs!Next

LEMMA TreeRemoveRefines ==
    ASSUME TreeOK, MapOK, TreeInv, NEW k \in Keys, Tree!Remove(k)
    PROVE  TreeInv' /\ Tree!Abs!Next
<1>1. PICK n : n = Tree!Holder(k)
  OBVIOUS
<1>2. /\ n \in Grown /\ tHeap[n].key = k /\ TreeMap[k] # None
      /\ Tree!RemoveNode(n) \/ Tree!RemoveSuccessor(n)
      /\ tOut' = Tree!Answer("remove", 0, k, None)
  BY <1>1, TreeMapOf DEF Tree!Remove
<1>3. \A m \in Grown : m # n => tHeap[m].key # k
  <2>1. PICK S : Subtrees(S)
    BY DEF TreeInv
  <2> QED BY <1>2, <2>1 DEF Subtrees, Sorted
<1>4. TreeInv' /\ TreeMap' = [TreeMap EXCEPT ![k] = None]
  <2>1. CASE Tree!RemoveNode(n)
    <3>1. TreeInv' /\ DataKept(Grown \ {n}, n)
      BY <1>2, <2>1, RemoveNodeKeeps
    <3>2. /\ Grown' = Grown \ {n}
          /\ \A m \in Grown \ {n} : tHeap'[m].key = tHeap[m].key /\ tHeap'[m].value = tHeap[m].value
      BY <3>1 DEF DataKept
    <3> QED BY <1>2, <1>3, <3>1, <3>2, TreeMapUpdate
  <2>2. CASE Tree!RemoveSuccessor(n)
    <3>1. TreeInv'
      BY <1>2, <2>2, RemoveSuccessorKeeps
    <3>2. PICK s \in Grown \ {n} :
            /\ Grown' = Grown \ {s}
            /\ tHeap'[n].key = tHeap[s].key /\ tHeap'[n].value = tHeap[s].value
            /\ \A m \in Grown \ {s, n} : tHeap'[m].key = tHeap[m].key /\ tHeap'[m].value = tHeap[m].value
      BY <1>2, <2>2, RemoveSuccessorKeeps
    <3>3. \A m \in Grown' : tHeap'[m].key # k
      BY <1>3, <3>2
    <3>4. \A m \in Grown' : \E x \in Grown : tHeap[x].key = tHeap'[m].key /\ tHeap[x].value = tHeap'[m].value
      BY <3>2
    <3>5. \A x \in Grown : tHeap[x].key # k => \E m \in Grown' : tHeap'[m].key = tHeap[x].key
      <4>1. ASSUME NEW x \in Grown, tHeap[x].key # k PROVE \E m \in Grown' : tHeap'[m].key = tHeap[x].key
        <5>1. x # n /\ n \in Grown'
          BY <1>2, <3>2, <4>1
        <5> QED BY <3>2, <5>1
      <4> QED BY <4>1
    <3> QED BY <3>1, <3>3, <3>4, <3>5, TreeMapUpdate
  <2> QED BY <1>2, <2>1, <2>2
<1>5. Tree!Abs!Delete(k)
  BY <1>2, <1>4 DEF Tree!Abs!Delete, Tree!Abs!Answer, Tree!Answer, TreeMap
<1> QED BY <1>4, <1>5 DEF Tree!Abs!Next

\* A failed call, a search and the insertion of a key that is there change nothing.
LEMMA TreeAnswerRefines ==
    ASSUME TreeOK, MapOK, TreeInv, NEW k \in Keys,
           Tree!InsertPresent(k) \/ Tree!InsertFails(k) \/ Tree!Search(k) \/ Tree!RemoveFails(k)
    PROVE  TreeInv' /\ Tree!Abs!Next
<1>1. UNCHANGED <<tHeap, tRoot>>
  BY DEF Tree!InsertPresent, Tree!InsertFails, Tree!Search, Tree!RemoveFails
<1>2. TreeMap' = TreeMap /\ TreeInv'
  BY <1>1, TreeStays
<1>3. CASE Tree!InsertPresent(k)
  <2>1. TreeMap[k] # None
    BY <1>3, TreeMapOf DEF Tree!InsertPresent
  <2>2. Tree!Abs!Keep(k)
    BY <1>2, <1>3, <2>1 DEF Tree!InsertPresent, Tree!Abs!Keep, Tree!Abs!Answer, Tree!Answer, TreeMap
  <2> QED BY <1>2, <2>2 DEF Tree!Abs!Next
<1>4. CASE Tree!InsertFails(k)
  <2>1. Tree!Abs!PutFails(k)
    BY <1>2, <1>4 DEF Tree!InsertFails, Tree!Abs!PutFails, Tree!Abs!Answer, Tree!Answer, TreeMap
  <2> QED BY <1>2, <2>1 DEF Tree!Abs!Next
<1>5. CASE Tree!Search(k) /\ Tree!Holder(k) # NULL
  <2>1. PICK v : v = TreeMap[k]
    OBVIOUS
  <2>2. v \in Values \cup {NULL} /\ tOut' = Tree!Answer("search", 0, k, v)
    BY <1>5, <2>1, TreeMapOf DEF Tree!Search
  <2>3. Tree!Abs!Lookup(k, v)
    BY <1>2, <2>1, <2>2 DEF Tree!Abs!Lookup, Tree!Abs!Answer, Tree!Answer, TreeMap
  <2> QED BY <1>2, <2>2, <2>3 DEF Tree!Abs!Next
<1>6. CASE Tree!Search(k) /\ Tree!Holder(k) = NULL
  <2>1. TreeMap[k] = None /\ tOut' = Tree!Answer("search", -1, k, None)
    BY <1>6, TreeMapOf DEF Tree!Search
  <2>2. Tree!Abs!Absent(k, "search")
    BY <1>2, <2>1 DEF Tree!Abs!Absent, Tree!Abs!Answer, Tree!Answer, TreeMap
  <2> QED BY <1>2, <2>2 DEF Tree!Abs!Next
<1>7. CASE Tree!RemoveFails(k)
  <2>1. TreeMap[k] = None /\ tOut' = Tree!Answer("remove", -1, k, None)
    BY <1>7, TreeMapOf DEF Tree!RemoveFails
  <2>2. Tree!Abs!Absent(k, "remove")
    BY <1>2, <2>1 DEF Tree!Abs!Absent, Tree!Abs!Answer, Tree!Answer, TreeMap
  <2> QED BY <1>2, <2>2 DEF Tree!Abs!Next
<1> QED BY <1>3, <1>4, <1>5, <1>6, <1>7

\* No node is allocated.
Bare == tHeap = [n \in Node |-> Freed] /\ tRoot = NULL

BareFacts == TreeOK /\ Bare => TreeInv /\ TreeMap = [k \in Keys |-> None]

LEMMA BareHolds == BareFacts
<1> SUFFICES ASSUME TreeOK, Bare PROVE TreeInv /\ TreeMap = [k \in Keys |-> None]
  BY DEF BareFacts
<1>1. Grown = {}
  BY DEF Grown, Bare
<1>2. PICK S : S = [x \in Node \cup {NULL} |-> {}]
  OBVIOUS
<1>3. S[NULL] = {} /\ S \in [Node \cup {NULL} -> SUBSET Node]
  BY <1>2
<1>4. Below(tHeap, S, Grown) /\ Sorted(tHeap, S, Grown) /\ S[tRoot] = Grown
  BY <1>1, <1>3 DEF Below, Sorted, Bare
<1>5. TreeInv
  BY <1>4 DEF TreeInv, TreeCells, Subtrees, Bare
<1>6. \A k \in Keys : TreeMap[k] = None
  BY <1>1, <1>5, TreeMapIs DEF TreeMapFacts
<1> QED BY <1>5, <1>6, TreeMapFunction

LEMMA BareNext == TreeOK /\ Bare' => TreeInv' /\ TreeMap' = [k \in Keys |-> None]
<1>1. BareFacts'
  BY BareHolds, PTL
<1> QED BY <1>1 DEF BareFacts, TreeOK, TreeCell

LEMMA TreeDestroyRefines ==
    ASSUME TreeOK, TreeInv, Tree!Destroy
    PROVE  TreeInv' /\ Tree!Abs!Next
<1>1. Tree!FreedByDestroy = Grown
  <2>1. Met(Tree!Postorder, Grown)
    BY VisitsAre DEF Tree!Postorder
  <2> QED BY <2>1, MetRange DEF Tree!FreedByDestroy
<1>2. Bare'
  BY <1>1 DEF Tree!Destroy, Bare, Grown
<1>3. TreeInv' /\ TreeMap' = [k \in Keys |-> None]
  BY <1>2, BareNext
<1>4. Tree!Abs!Destroy
  BY <1>3 DEF Tree!Destroy, Tree!Abs!Destroy, Tree!Abs!Answer, Tree!Answer, TreeMap
<1> QED BY <1>3, <1>4 DEF Tree!Abs!Next

LEMMA TreeStep ==
    ASSUME TreeOK, MapOK
    PROVE  TreeInv /\ [Tree!Next]_(Tree!vars) => TreeInv' /\ [Tree!Abs!Next]_(Tree!Abs!vars)
<1> SUFFICES ASSUME TreeInv, [Tree!Next]_(Tree!vars)
             PROVE  TreeInv' /\ [Tree!Abs!Next]_(Tree!Abs!vars)
  OBVIOUS
<1>1. ASSUME NEW k \in Keys, NEW n \in Node, NEW v \in Values, Tree!Insert(n, k, v)
      PROVE  TreeInv' /\ Tree!Abs!Next
  BY <1>1, TreeInsertRefines
<1>2. ASSUME NEW k \in Keys,
             Tree!InsertPresent(k) \/ Tree!InsertFails(k) \/ Tree!Search(k) \/ Tree!RemoveFails(k)
      PROVE  TreeInv' /\ Tree!Abs!Next
  BY <1>2, TreeAnswerRefines
<1>3. ASSUME NEW k \in Keys, Tree!Remove(k) PROVE TreeInv' /\ Tree!Abs!Next
  BY <1>3, TreeRemoveRefines
<1>4. CASE Tree!Destroy
  BY <1>4, TreeDestroyRefines
<1>5. CASE UNCHANGED Tree!vars
  <2>1. UNCHANGED <<tHeap, tRoot>> /\ tOut' = tOut
    BY <1>5 DEF Tree!vars
  <2>2. TreeInv' /\ TreeMap' = TreeMap
    BY <2>1, TreeStays
  <2> QED BY <2>1, <2>2 DEF Tree!Abs!vars, TreeMap
<1> QED BY <1>1, <1>2, <1>3, <1>4, <1>5 DEF Tree!Next

LEMMA TreeKeeps == ASSUME TreeOK PROVE TreeInv /\ [Tree!Next]_(Tree!vars) => TreeInv'
<1> SUFFICES ASSUME TreeInv, [Tree!Next]_(Tree!vars) PROVE TreeInv'
  OBVIOUS
<1>1. ASSUME NEW k \in Keys, NEW n \in Node, NEW v \in Values, Tree!Insert(n, k, v) PROVE TreeInv'
  BY <1>1, InsertFirst, InsertBelow
<1>2. ASSUME NEW k \in Keys,
             Tree!InsertPresent(k) \/ Tree!InsertFails(k) \/ Tree!Search(k) \/ Tree!RemoveFails(k)
      PROVE  TreeInv'
  <2>1. UNCHANGED <<tHeap, tRoot>>
    BY <1>2 DEF Tree!InsertPresent, Tree!InsertFails, Tree!Search, Tree!RemoveFails
  <2> QED BY <2>1, TreeStays
<1>3. ASSUME NEW k \in Keys, Tree!Remove(k) PROVE TreeInv'
  <2>1. PICK S : Subtrees(S)
    BY DEF TreeInv
  <2>2. PICK n : n = Tree!Holder(k)
    OBVIOUS
  <2>3. n \in Grown
    BY <1>3, <2>1, <2>2, HolderIs DEF TreeInv, Tree!Remove
  <2>4. Tree!RemoveNode(n) \/ Tree!RemoveSuccessor(n)
    BY <1>3, <2>2 DEF Tree!Remove
  <2> QED BY <2>3, <2>4, RemoveNodeKeeps, RemoveSuccessorKeeps
<1>4. CASE Tree!Destroy
  BY <1>4, TreeDestroyRefines
<1>5. CASE UNCHANGED Tree!vars
  <2>1. UNCHANGED <<tHeap, tRoot>>
    BY <1>5 DEF Tree!vars
  <2> QED BY <2>1, TreeStays
<1> QED BY <1>1, <1>2, <1>3, <1>4, <1>5 DEF Tree!Next

LEMMA TreeStart == ASSUME TreeOK PROVE Tree!Init => TreeInv /\ Tree!Abs!Init
<1> SUFFICES ASSUME Tree!Init PROVE TreeInv /\ Tree!Abs!Init
  OBVIOUS
<1>1. Bare
  BY DEF Tree!Init, Bare
<1>2. TreeInv /\ TreeMap = [k \in Keys |-> None]
  BY <1>1, BareHolds DEF BareFacts
<1> QED BY <1>2 DEF Tree!Init, Tree!Abs!Init, Tree!Abs!Answer, Tree!Answer, TreeMap

\* Whatever is inserted and removed, btree's in-order traversal meets the keys in ascending
\* order: btree_remove's copy of the successor's datum and its second search keep the search
\* order at every node.
THEOREM TreeStaysSorted == ASSUME TreeOK PROVE Tree!Spec => []InorderAscends
<1>1. Tree!Init => TreeInv
  BY TreeStart
<1>2. TreeInv /\ [Tree!Next]_(Tree!vars) => TreeInv'
  BY TreeKeeps
<1>3. TreeInv => InorderAscends
  BY TreeAscends
<1> QED BY <1>1, <1>2, <1>3, PTL DEF Tree!Spec

\* The binary tree neither loses nor shares a node: each that is allocated is in one place,
\* btree_size counts them and btree_destroy frees them all.
THEOREM EveryNodeInTree == ASSUME TreeOK PROVE Tree!Spec => []TreeOwnsHeap
<1>1. Tree!Init => TreeInv
  BY TreeStart
<1>2. TreeInv /\ [Tree!Next]_(Tree!vars) => TreeInv'
  BY TreeKeeps
<1>3. TreeInv => TreeOwnsHeap
  BY TreeOwns
<1> QED BY <1>1, <1>2, <1>3, PTL DEF Tree!Spec

\* A binary tree is a dictionary in which the first datum inserted for a key stays until
\* it is removed: btree_search answers by it after any calls.
THEOREM TreeIsADictionary == ASSUME TreeOK, MapOK PROVE Tree!Spec => TreeImplementsMap
<1>1. Tree!Init => TreeInv /\ Tree!Abs!Init
  BY TreeStart
<1>2. TreeInv /\ [Tree!Next]_(Tree!vars) => TreeInv' /\ [Tree!Abs!Next]_(Tree!Abs!vars)
  BY TreeStep
<1> QED BY <1>1, <1>2, PTL DEF Tree!Spec, TreeImplementsMap, Tree!TreeImplementsMap, Tree!Abs!Spec

-----------------------------------------------------------------------------
(* A program that uses one container behaves, for that container, as its   *)
(* own specification says.                                                 *)

LEMMA StackInUse == UseSpec => Pile!Spec
<1>1. UseInit => Pile!Init
  BY DEF UseInit
<1>2. [UseNext]_<<using, vars, dVars, sVars, hVars, tVars, kVars>> => [Pile!Next]_(Pile!vars)
  BY DEF UseNext, Rest, kVars, Pile!vars
<1> QED BY <1>1, <1>2, PTL DEF UseSpec, Pile!Spec

LEMMA TableInUse == UseSpec => Table!Spec
<1>1. UseInit => Table!Init
  BY DEF UseInit
<1>2. [UseNext]_<<using, vars, dVars, sVars, hVars, tVars, kVars>> => [Table!Next]_(Table!vars)
  BY DEF UseNext, Rest, hVars, Table!vars
<1> QED BY <1>1, <1>2, PTL DEF UseSpec, Table!Spec

LEMMA TreeInUse == UseSpec => Tree!Spec
<1>1. UseInit => Tree!Init
  BY DEF UseInit
<1>2. [UseNext]_<<using, vars, dVars, sVars, hVars, tVars, kVars>> => [Tree!Next]_(Tree!vars)
  BY DEF UseNext, Rest, tVars, Tree!vars
<1> QED BY <1>1, <1>2, PTL DEF UseSpec, Tree!Spec

\* Every container of a program that uses one of the three keeps its promise.
THEOREM ContainersKeepTheirPromise ==
    ASSUME StackOK, TableOK, TreeOK, MapOK
    PROVE  UseSpec => /\ StackImplementsList
                      /\ []ChainsOwnHeap /\ TableImplementsMap
                      /\ []InorderAscends /\ []TreeOwnsHeap /\ TreeImplementsMap
  BY StackInUse, TableInUse, TreeInUse, StackIsASequence, EveryEntryInOneChain, TableIsADictionary,
     TreeStaysSorted, EveryNodeInTree, TreeIsADictionary, PTL

=============================================================================
