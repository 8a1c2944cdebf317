------------------------- MODULE PriorityHeapProofs -------------------------
(***************************************************************************)
(* Proofs about PriorityHeap, for every set of items and every queue size. *)
(***************************************************************************)
EXTENDS PriorityHeap, WellFoundedInduction, TLAPS

\* Every nonempty set of naturals has a least member.
LEMMA LeastNatural ==
  ASSUME NEW S, S \subseteq Nat, S # {}
  PROVE  \E m \in S : \A k \in S : m <= k
<1> DEFINE R == {ss \in Nat \X Nat : ss[1] < ss[2]}
<1>1. IsWellFoundedOn(R, Nat)
  BY NatLessThanWellFounded DEF OpToRel
<1>2. \E m \in S : \A k \in S : <<k, m>> \notin R
  <2> HIDE DEF R
  <2> QED BY <1>1, WFMin
<1>3. \A k, m \in S : <<k, m>> \notin R => m <= k
  OBVIOUS
<1> QED
  BY <1>2, <1>3

\* "Not ahead of" is transitive: less is a strict weak order on items.
LEMMA NotLessTransitive ==
  ASSUME NEW x \in Items, NEW y \in Items, NEW z \in Items,
         ~ Less(x, y), ~ Less(y, z)
  PROVE  ~ Less(x, z)
BY ItemsAssumption DEF Less, Levels, Low, Normal, High, Critical

LEMMA LessIrreflexive ==
  ASSUME NEW x \in Items
  PROVE  ~ Less(x, x)
BY ItemsAssumption DEF Less, Levels, Low, Normal, High, Critical

\* A strictly better item is not beaten by the item it beats.
LEMMA LessAsymmetric ==
  ASSUME NEW x \in Items, NEW y \in Items, Less(x, y)
  PROVE  ~ Less(y, x)
BY ItemsAssumption DEF Less, Levels, Low, Normal, High, Critical

LEMMA ParentFacts ==
  ASSUME NEW k \in Nat, k > 1
  PROVE  /\ Parent(k) \in Nat
         /\ Parent(k) >= 1
         /\ Parent(k) < k
         /\ \A j \in Nat : Parent(k) = j <=> k = 2*j \/ k = 2*j + 1
BY DEF Parent

LEMMA SwapFacts ==
  ASSUME NEW s \in Seq(Items), NEW j \in 1 .. Len(s), NEW k \in 1 .. Len(s)
  PROVE  /\ Swap(s, j, k) \in Seq(Items)
         /\ Len(Swap(s, j, k)) = Len(s)
         /\ \A m \in 1 .. Len(s) :
              Swap(s, j, k)[m] = IF m = j THEN s[k] ELSE IF m = k THEN s[j] ELSE s[m]
BY DEF Swap

LEMMA WithoutRootFacts ==
  ASSUME NEW s \in Seq(Items), s # <<>>
  PROVE  /\ WithoutRoot(s) \in Seq(Items)
         /\ Len(WithoutRoot(s)) = Len(s) - 1
         /\ \A m \in 1 .. Len(s) - 1 :
              WithoutRoot(s)[m] = IF m = 1 THEN s[Len(s)] ELSE s[m]
<1>1. Len(s) \in Nat /\ Len(s) >= 1
  OBVIOUS
<1> QED
  BY <1>1 DEF WithoutRoot

\* A slice whose every element is not ahead of its parent has a best item at
\* its root: the first element ahead of the root would have a parent that is
\* not ahead of the root, and would not be ahead of that parent.
LEMMA RootOfHeap ==
  ASSUME TypeOK, items # <<>>, \A k \in 2 .. Len(items) : Ordered(k)
  PROVE  items[1] \in Best(Queued)
<1> DEFINE Ahead == {k \in 1 .. Len(items) : Less(items[1], items[k])}
<1>1. /\ Len(items) \in Nat
      /\ Len(items) >= 1
      /\ \A k \in 1 .. Len(items) : items[k] \in Items
  BY DEF TypeOK
<1>2. Ahead = {}
  <2> SUFFICES ASSUME Ahead # {} PROVE FALSE
    OBVIOUS
  <2>1. PICK k \in Ahead : \A j \in Ahead : k <= j
    <3>1. Ahead \subseteq Nat
      BY <1>1
    <3> QED
      BY <3>1, LeastNatural
  <2>2. k \in 1 .. Len(items) /\ Less(items[1], items[k])
    OBVIOUS
  <2>3. k # 1
    BY <1>1, <2>2, LessIrreflexive
  <2>4. Parent(k) \in 1 .. Len(items) /\ Parent(k) < k
    BY <1>1, <2>2, <2>3, ParentFacts
  <2>5. ~ Less(items[1], items[Parent(k)])
    BY <1>1, <2>1, <2>4
  <2>6. ~ Less(items[Parent(k)], items[k])
    BY <1>1, <2>2, <2>3 DEF Ordered
  <2> QED
    BY <1>1, <2>2, <2>4, <2>5, <2>6, NotLessTransitive
<1> QED
  BY <1>1, <1>2 DEF Best, Queued
-----------------------------------------------------------------------------
LEMMA InitIInv == Init => IInv
BY DEF Init, IInv, TypeOK, NoDuplicates, HeapShape, Ordered, GrandchildrenOrdered
-----------------------------------------------------------------------------
LEMMA PushIInv ==
  ASSUME IInv, NEW x \in Items, Push(x)
  PROVE  IInv'
<1> USE DEF IInv
<1>1. /\ items \in Seq(Items) /\ Len(items) \in Nat
      /\ \A k \in 1 .. Len(items) : items[k] \in Items
  BY DEF TypeOK
<1>2. /\ items' \in Seq(Items) /\ Len(items') = Len(items) + 1
      /\ \A k \in 1 .. Len(items) : items'[k] = items[k]
      /\ items'[Len(items) + 1] = x
  BY <1>1 DEF Push
<1>3. TypeOK'
  BY <1>1, <1>2 DEF TypeOK, Push
<1>4. NoDuplicates'
  BY <1>1, <1>2 DEF NoDuplicates, Push, Queued
<1>5. HeapShape'
  <2>1. \A k \in 2 .. Len(items') : k # i' => Ordered(k)'
    <3> SUFFICES ASSUME NEW k \in 2 .. Len(items), TRUE
                 PROVE  Ordered(k)'
      BY <1>1, <1>2 DEF Push
    <3>1. Parent(k) \in 1 .. Len(items)
      BY <1>1, ParentFacts
    <3>2. Ordered(k)
      BY <1>1 DEF HeapShape, Push
    <3> QED
      BY <1>1, <1>2, <3>1, <3>2 DEF Ordered, Parent
  <2>2. GrandchildrenOrdered'
    <3> SUFFICES ASSUME NEW k \in 2 .. Len(items'), Parent(k) = i'
                 PROVE  FALSE
      BY DEF GrandchildrenOrdered, Parent
    <3> QED
      BY <1>1, <1>2, ParentFacts DEF Push
  <2> QED
    BY <2>1, <2>2 DEF HeapShape, Push
<1> QED
  BY <1>3, <1>4, <1>5

LEMMA SiftUpSwapIInv ==
  ASSUME IInv, SiftUpSwap
  PROVE  IInv'
<1> USE DEF IInv
<1> DEFINE p == Parent(i)
<1>1. /\ items \in Seq(Items) /\ Len(items) \in Nat
      /\ \A k \in 1 .. Len(items) : items[k] \in Items
      /\ i \in 2 .. Len(items) /\ Less(items[p], items[i])
  BY DEF TypeOK, SiftUpSwap, SiftUpMoves
<1>2. p \in 1 .. Len(items) /\ p < i /\ i' = p
  BY <1>1, ParentFacts DEF SiftUpSwap
<1> HIDE DEF p
<1>3. /\ items' \in Seq(Items) /\ Len(items') = Len(items)
      /\ \A k \in 1 .. Len(items) :
           items'[k] = IF k = i THEN items[p] ELSE IF k = p THEN items[i] ELSE items[k]
  <2>1. items' = Swap(items, i, p) /\ i \in 1 .. Len(items)
    BY <1>1 DEF SiftUpSwap, p
  <2>2. items \in Seq(Items) /\ p \in 1 .. Len(items)
    BY <1>1, <1>2
  <2>3. /\ Swap(items, i, p) \in Seq(Items) /\ Len(Swap(items, i, p)) = Len(items)
        /\ \A k \in 1 .. Len(items) :
             Swap(items, i, p)[k]
               = IF k = i THEN items[p] ELSE IF k = p THEN items[i] ELSE items[k]
    BY <2>1, <2>2, SwapFacts, Zenon
  <2> QED
    BY <2>1, <2>3, Zenon
<1>4. TypeOK'
  BY <1>1, <1>2, <1>3 DEF TypeOK, SiftUpSwap
<1>5. NoDuplicates'
  BY <1>1, <1>2, <1>3 DEF NoDuplicates
<1>6. \A k \in 2 .. Len(items) : k # i => ~ Less(items[Parent(k)], items[k])
  BY DEF HeapShape, Ordered, SiftUpSwap
<1>7. \A k \in 2 .. Len(items) : Parent(k) = i => ~ Less(items[p], items[k])
  BY <1>1 DEF HeapShape, GrandchildrenOrdered, SiftUpSwap, p
<1>8. \A k \in 2 .. Len(items') : k # i' => Ordered(k)'
  <2> SUFFICES ASSUME NEW k \in 2 .. Len(items), k # p
               PROVE  ~ Less(items'[Parent(k)], items'[k])
    BY <1>2, <1>3 DEF Ordered, Parent
  <2>1. Parent(k) \in 1 .. Len(items) /\ Parent(k) # k
    BY <1>1, ParentFacts
  <2>2. CASE k = i
    BY <1>1, <1>2, <1>3, <2>2, LessAsymmetric DEF p
  <2>3. CASE k # i /\ Parent(k) = i
    BY <1>1, <1>2, <1>3, <1>7, <2>3
  <2>4. CASE k # i /\ Parent(k) = p
    <3>1. ~ Less(items[p], items[k])
      BY <1>6, <2>4
    <3>2. ~ Less(items[i], items[p])
      BY <1>1, <1>2, LessAsymmetric
    <3> QED
      BY <1>1, <1>2, <1>3, <2>4, <3>1, <3>2, NotLessTransitive
  <2>5. CASE k # i /\ Parent(k) # i /\ Parent(k) # p
    BY <1>1, <1>2, <1>3, <1>6, <2>1, <2>5
  <2> QED
    BY <2>2, <2>3, <2>4, <2>5
<1>9. GrandchildrenOrdered'
  <2> SUFFICES ASSUME NEW k \in 2 .. Len(items), p > 1, Parent(k) = p
               PROVE  ~ Less(items'[Parent(p)], items'[k])
    BY <1>2, <1>3 DEF GrandchildrenOrdered, Parent
  <2>1. /\ Parent(p) \in 1 .. Len(items)
        /\ Parent(p) # p /\ Parent(p) # i
        /\ k # p
    BY <1>1, <1>2, ParentFacts
  <2>2. ~ Less(items[Parent(p)], items[p])
    BY <1>1, <1>2, <1>6
  <2>3. CASE k = i
    BY <1>1, <1>2, <1>3, <2>1, <2>2, <2>3
  <2>4. CASE k # i
    <3>1. ~ Less(items[p], items[k])
      BY <1>6, <2>4
    <3> QED
      BY <1>1, <1>2, <1>3, <2>1, <2>2, <2>4, <3>1, NotLessTransitive
  <2> QED
    BY <2>3, <2>4
<1> QED
  BY <1>4, <1>5, <1>8, <1>9 DEF HeapShape, SiftUpSwap

LEMMA SiftUpDoneIInv ==
  ASSUME IInv, SiftUpDone
  PROVE  IInv'
<1> USE DEF IInv
<1>1. items' = items /\ mu = "siftUp" /\ mu' = "free" /\ i' = 1 /\ result' = result
  BY DEF SiftUpDone
<1>2. TypeOK' /\ NoDuplicates'
  BY <1>1 DEF TypeOK, NoDuplicates
<1>3. \A k \in 2 .. Len(items) : Ordered(k)
  BY DEF SiftUpDone, SiftUpMoves, HeapShape, Ordered
<1>4. HeapShape'
  BY <1>1, <1>3 DEF HeapShape, Ordered, Parent
<1> QED
  BY <1>2, <1>4
-----------------------------------------------------------------------------
LEMMA PopIInv ==
  ASSUME IInv, Pop
  PROVE  IInv'
<1> USE DEF IInv
<1>1. /\ items \in Seq(Items) /\ Len(items) \in Nat /\ Len(items) >= 1
      /\ \A k \in 1 .. Len(items) : items[k] \in Items
  BY DEF TypeOK, Pop
<1>2. /\ items' \in Seq(Items) /\ Len(items') = Len(items) - 1
      /\ \A k \in 1 .. Len(items) - 1 :
           items'[k] = IF k = 1 THEN items[Len(items)] ELSE items[k]
  BY <1>1, WithoutRootFacts DEF Pop
<1>3. TypeOK'
  BY <1>1, <1>2 DEF TypeOK, Pop
<1>4. NoDuplicates'
  BY <1>1, <1>2 DEF NoDuplicates
<1>5. \A k \in 2 .. Len(items') : Parent(k) # 1 => Ordered(k)'
  <2> SUFFICES ASSUME NEW k \in 2 .. Len(items) - 1, Parent(k) # 1
               PROVE  ~ Less(items'[Parent(k)], items'[k])
    BY <1>1, <1>2 DEF Ordered, Parent
  <2>1. Parent(k) \in 2 .. Len(items) - 1
    BY <1>1, ParentFacts
  <2>2. Ordered(k)
    BY <1>1 DEF HeapShape, Pop
  <2> QED
    BY <1>1, <1>2, <2>1, <2>2 DEF Ordered
<1>6. HeapShape'
  <2>1. CASE Len(items) > 1
    BY <1>1, <1>2, <1>5, <2>1 DEF HeapShape, GrandchildrenOrdered, Pop
  <2>2. CASE ~ (Len(items) > 1)
    BY <1>1, <1>2, <2>2 DEF HeapShape, Pop
  <2> QED
    BY <2>1, <2>2
<1> QED
  BY <1>3, <1>4, <1>6

\* What the two comparisons of a siftDown iteration find: the element at i or
\* one of its children, not beaten by any of the three, and a child only when
\* it beats the element at i.
LEMMA BestOfFamilyFacts ==
  ASSUME TypeOK, i \in 1 .. Len(items)
  PROVE  /\ BestOfFamily \in {i, 2*i, 2*i + 1}
         /\ BestOfFamily \in 1 .. Len(items)
         /\ \A k \in {i, 2*i, 2*i + 1} :
              k <= Len(items) => ~ Less(items[BestOfFamily], items[k])
         /\ BestOfFamily # i => Less(items[i], items[BestOfFamily])
<1> DEFINE b == Better(i, 2*i)
<1>1. /\ Len(items) \in Nat
      /\ \A k \in 1 .. Len(items) : items[k] \in Items
  BY DEF TypeOK
<1>2. /\ b \in {i, 2*i} /\ b \in 1 .. Len(items)
      /\ ~ Less(items[b], items[i])
      /\ 2*i <= Len(items) => ~ Less(items[b], items[2*i])
      /\ b # i => Less(items[i], items[b])
  BY <1>1, LessIrreflexive, LessAsymmetric DEF Better
<1> HIDE DEF b
<1>3. BestOfFamily = Better(b, 2*i + 1)
  BY DEF BestOfFamily, b
<1>4. CASE 2*i + 1 <= Len(items) /\ Less(items[b], items[2*i + 1])
  <2>1. BestOfFamily = 2*i + 1 /\ 2*i + 1 \in 1 .. Len(items)
    BY <1>1, <1>3, <1>4 DEF Better
  <2>2. ~ Less(items[2*i + 1], items[b])
    BY <1>1, <1>2, <1>4, <2>1, LessAsymmetric
  <2>3. ~ Less(items[2*i + 1], items[i])
    BY <1>1, <1>2, <2>1, <2>2, NotLessTransitive
  <2>4. 2*i <= Len(items) => ~ Less(items[2*i + 1], items[2*i])
    BY <1>1, <1>2, <2>1, <2>2, NotLessTransitive
  <2>5. Less(items[i], items[2*i + 1])
    <3>1. CASE b = i
      BY <1>4, <3>1
    <3>2. CASE b # i /\ ~ Less(items[i], items[2*i + 1])
      <4>1. ~ Less(items[b], items[i])
        BY <1>2
      <4> QED
        BY <1>1, <1>2, <1>4, <2>1, <3>2, <4>1, NotLessTransitive
    <3> QED
      BY <3>1, <3>2
  <2> QED
    BY <1>1, <2>1, <2>3, <2>4, <2>5, LessIrreflexive
<1>5. CASE ~ (2*i + 1 <= Len(items) /\ Less(items[b], items[2*i + 1]))
  <2>1. BestOfFamily = b
    BY <1>3, <1>5 DEF Better
  <2> QED
    BY <1>1, <1>2, <1>5, <2>1
<1> QED
  BY <1>4, <1>5

LEMMA SiftDownSwapIInv ==
  ASSUME IInv, SiftDownSwap
  PROVE  IInv'
<1> USE DEF IInv
<1> DEFINE c == BestOfFamily
<1>1. /\ items \in Seq(Items) /\ Len(items) \in Nat
      /\ \A k \in 1 .. Len(items) : items[k] \in Items
      /\ i \in 1 .. Len(items)
  BY DEF TypeOK, SiftDownSwap
<1>2. /\ c \in {2*i, 2*i + 1} /\ c \in 1 .. Len(items) /\ c > i /\ i' = c
      /\ Less(items[i], items[c])
      /\ \A k \in {2*i, 2*i + 1} : k <= Len(items) => ~ Less(items[c], items[k])
  BY <1>1, BestOfFamilyFacts DEF SiftDownSwap
<1>3. Parent(c) = i
  BY <1>1, <1>2, ParentFacts
<1>4. items' = Swap(items, i, c) /\ mu = "siftDown"
  BY DEF SiftDownSwap
<1> HIDE DEF c
<1>5. /\ items' \in Seq(Items) /\ Len(items') = Len(items)
      /\ \A k \in 1 .. Len(items) :
           items'[k] = IF k = i THEN items[c] ELSE IF k = c THEN items[i] ELSE items[k]
  <2>1. items \in Seq(Items) /\ i \in 1 .. Len(items) /\ c \in 1 .. Len(items)
    BY <1>1, <1>2
  <2>2. /\ Swap(items, i, c) \in Seq(Items) /\ Len(Swap(items, i, c)) = Len(items)
        /\ \A k \in 1 .. Len(items) :
             Swap(items, i, c)[k]
               = IF k = i THEN items[c] ELSE IF k = c THEN items[i] ELSE items[k]
    BY <2>1, SwapFacts, Zenon
  <2> QED
    BY <1>4, <2>2, Zenon
<1>6. TypeOK'
  BY <1>1, <1>2, <1>5 DEF TypeOK, SiftDownSwap
<1>7. NoDuplicates'
  BY <1>1, <1>2, <1>5 DEF NoDuplicates
<1>8. \A k \in 2 .. Len(items) : Parent(k) # i => ~ Less(items[Parent(k)], items[k])
  BY <1>4 DEF HeapShape, Ordered
<1>9. i > 1 => ~ Less(items[Parent(i)], items[c])
  BY <1>1, <1>2, <1>3, <1>4 DEF HeapShape, GrandchildrenOrdered
<1>10. \A k \in 2 .. Len(items') : Parent(k) # i' => Ordered(k)'
  <2> SUFFICES ASSUME NEW k \in 2 .. Len(items), Parent(k) # c
               PROVE  ~ Less(items'[Parent(k)], items'[k])
    BY <1>2, <1>5 DEF Ordered, Parent
  <2>1. Parent(k) \in 1 .. Len(items) /\ Parent(k) # k
    BY <1>1, ParentFacts
  <2>2. CASE k = c
    BY <1>1, <1>2, <1>3, <1>5, <2>2, LessAsymmetric
  <2>3. CASE k # c /\ Parent(k) = i
    <3>1. k \in {2*i, 2*i + 1} /\ k # i
      BY <1>1, <2>1, <2>3, ParentFacts
    <3> QED
      BY <1>1, <1>2, <1>5, <2>3, <3>1
  <2>4. CASE k = i
    BY <1>1, <1>2, <1>5, <1>9, <2>1, <2>4
  <2>5. CASE k # c /\ k # i /\ Parent(k) # i
    BY <1>1, <1>2, <1>5, <1>8, <2>1, <2>5
  <2> QED
    BY <2>2, <2>3, <2>4, <2>5
<1>11. GrandchildrenOrdered'
  <2> SUFFICES ASSUME NEW k \in 2 .. Len(items), Parent(k) = c
               PROVE  ~ Less(items'[i], items'[k])
    BY <1>2, <1>3, <1>5 DEF GrandchildrenOrdered, Parent
  <2>1. k # c /\ k # i /\ c # i
    BY <1>1, <1>2, ParentFacts
  <2>2. ~ Less(items[c], items[k])
    BY <1>8, <2>1
  <2> QED
    BY <1>1, <1>5, <2>1, <2>2
<1> QED
  BY <1>4, <1>6, <1>7, <1>10, <1>11 DEF HeapShape, SiftDownSwap

LEMMA SiftDownDoneIInv ==
  ASSUME IInv, SiftDownDone
  PROVE  IInv'
<1> USE DEF IInv
<1>1. items' = items /\ mu = "siftDown" /\ mu' = "free" /\ i' = 1 /\ result' = result
  BY DEF SiftDownDone
<1>2. /\ Len(items) \in Nat
      /\ i \in 1 .. Len(items)
  BY <1>1 DEF TypeOK
<1>3. TypeOK' /\ NoDuplicates'
  BY <1>1 DEF TypeOK, NoDuplicates
<1>4. \A k \in 2 .. Len(items) : Ordered(k)
  <2> TAKE k \in 2 .. Len(items)
  <2>1. CASE Parent(k) = i
    <3>1. k \in {2*i, 2*i + 1}
      BY <1>2, <2>1, ParentFacts
    <3>2. ~ Less(items[i], items[k])
      BY <1>2, <3>1, BestOfFamilyFacts DEF SiftDownDone
    <3> QED
      BY <2>1, <3>2 DEF Ordered
  <2>2. CASE Parent(k) # i
    BY <1>1, <2>2 DEF HeapShape
  <2> QED
    BY <2>1, <2>2
<1>5. HeapShape'
  BY <1>1, <1>4 DEF HeapShape, Ordered, Parent
<1> QED
  BY <1>3, <1>5
-----------------------------------------------------------------------------
LEMMA NextIInv == IInv /\ [Next]_vars => IInv'
<1> SUFFICES ASSUME IInv, [Next]_vars PROVE IInv'
  OBVIOUS
<1>1. ASSUME NEW x \in Items, Push(x) PROVE IInv'
  BY <1>1, PushIInv
<1>2. CASE Pop
  BY <1>2, PopIInv
<1>3. CASE TryPopEmpty
  BY <1>3 DEF TryPopEmpty, IInv, TypeOK, NoDuplicates, HeapShape, Ordered,
              GrandchildrenOrdered, Parent
<1>4. CASE SiftUp
  BY <1>4, SiftUpSwapIInv, SiftUpDoneIInv DEF SiftUp
<1>5. CASE SiftDown
  BY <1>5, SiftDownSwapIInv, SiftDownDoneIInv DEF SiftDown
<1>6. CASE UNCHANGED vars
  BY <1>6 DEF vars, IInv, TypeOK, NoDuplicates, HeapShape, Ordered,
              GrandchildrenOrdered, Parent
<1> QED
  BY <1>1, <1>2, <1>3, <1>4, <1>5, <1>6 DEF Next

\* The types, the absence of duplicates and the heap property hold in every
\* state of the heap (queue.go: Push, pop, siftUp, siftDown), however many
\* items it holds.
THEOREM HeapInvariant == Spec => [](TypeOK /\ NoDuplicates /\ HeapShape)
<1>1. Spec => []IInv
  BY InitIInv, NextIInv, PTL DEF Spec
<1> QED
  BY <1>1, PTL DEF IInv

\* The swaps of the heap lose no item and double none: no item is in it twice.
THEOREM NothingIsQueuedTwice == Spec => []NoDuplicates
<1>1. Spec => []IInv
  BY InitIInv, NextIInv, PTL DEF Spec
<1> QED
  BY <1>1, PTL DEF IInv

\* What Pop and TryPop are about to return is always an item that no queued
\* item is ahead of.
THEOREM RootIsAlwaysBest == Spec => []RootIsBest
<1>1. IInv => RootIsBest
  BY RootOfHeap DEF IInv, HeapShape, RootIsBest
<1>2. Spec => []IInv
  BY InitIInv, NextIInv, PTL DEF Spec
<1> QED
  BY <1>1, <1>2, PTL
-----------------------------------------------------------------------------
\* Exchanging two elements leaves the set of queued items as it was.
LEMMA SwapKeepsQueued ==
  ASSUME TypeOK, NEW j \in 1 .. Len(items), NEW k \in 1 .. Len(items),
         items' = Swap(items, j, k)
  PROVE  Queued' = Queued
<1>1. items \in Seq(Items) /\ Len(items) \in Nat
  BY DEF TypeOK
<1>2. /\ Len(items') = Len(items)
      /\ \A m \in 1 .. Len(items) :
           items'[m] = IF m = j THEN items[k] ELSE IF m = k THEN items[j] ELSE items[m]
  <2>1. /\ Len(Swap(items, j, k)) = Len(items)
        /\ \A m \in 1 .. Len(items) :
             Swap(items, j, k)[m]
               = IF m = j THEN items[k] ELSE IF m = k THEN items[j] ELSE items[m]
    BY <1>1, SwapFacts, Zenon
  <2> QED
    BY <2>1, Zenon
<1> QED
  BY <1>1, <1>2 DEF Queued

\* Every step of the heap is a step of the abstract queue, or changes nothing
\* that queue shows.
LEMMA StepRefines ==
  ASSUME IInv, [Next]_vars
  PROVE  [Abstract!Next]_(Abstract!vars)
<1> USE DEF Abstract!vars
<1>0. /\ TypeOK /\ items \in Seq(Items) /\ Len(items) \in Nat
      /\ \A k \in 1 .. Len(items) : items[k] \in Items
  BY DEF IInv, TypeOK
<1>1. ASSUME NEW x \in Items, Push(x) PROVE Abstract!Push(x)
  <2>1. /\ Len(items') = Len(items) + 1
        /\ \A k \in 1 .. Len(items) : items'[k] = items[k]
        /\ items'[Len(items) + 1] = x
    BY <1>0, <1>1 DEF Push
  <2>2. Queued' = Queued \cup {x}
    BY <1>0, <2>1 DEF Queued
  <2> QED
    BY <1>1, <2>2 DEF Push, Abstract!Push
<1>2. CASE Pop
  <2>1. items[1] \in Best(Queued)
    BY <1>0, <1>2, RootOfHeap DEF IInv, HeapShape, Pop
  <2>2. /\ Len(items) >= 1
        /\ Len(items') = Len(items) - 1
        /\ \A k \in 1 .. Len(items) - 1 :
             items'[k] = IF k = 1 THEN items[Len(items)] ELSE items[k]
    BY <1>0, <1>2, WithoutRootFacts DEF Pop
  <2>3. Queued' = Queued \ {items[1]}
    <3>1. \A k \in 1 .. Len(items') : items'[k] \in Queued \ {items[1]}
      BY <1>0, <2>2 DEF Queued, IInv, NoDuplicates
    <3>2. ASSUME NEW k \in 1 .. Len(items), items[k] # items[1]
          PROVE  \E m \in 1 .. Len(items') : items'[m] = items[k]
      <4>1. CASE k = Len(items)
        BY <1>0, <2>2, <3>2, <4>1
      <4>2. CASE k # Len(items)
        BY <1>0, <2>2, <3>2, <4>2
      <4> QED
        BY <4>1, <4>2
    <3> QED
      BY <3>1, <3>2 DEF Queued
  <2> QED
    BY <1>2, <2>1, <2>3 DEF Pop, Abstract!Take, Abstract!Next, Best, Abstract!Best,
                            Less, Abstract!Less
<1>3. CASE TryPopEmpty
  <2>1. Queued = {} /\ Queued' = Queued
    BY <1>0, <1>3 DEF TryPopEmpty, Queued
  <2> QED
    BY <1>3, <2>1 DEF TryPopEmpty, Abstract!TakeNone, Abstract!Next
<1>4. CASE SiftUp
  <2>1. CASE SiftUpDone
    BY <2>1 DEF SiftUpDone, Queued
  <2>2. CASE SiftUpSwap
    <3>1. i \in 2 .. Len(items)
      BY <2>2 DEF IInv, TypeOK, SiftUpSwap, SiftUpMoves
    <3>2. i \in 1 .. Len(items) /\ Parent(i) \in 1 .. Len(items)
      BY <1>0, <3>1, ParentFacts
    <3> QED
      BY <1>0, <2>2, <3>2, SwapKeepsQueued DEF SiftUpSwap
  <2> QED
    BY <1>4, <2>1, <2>2 DEF SiftUp
<1>5. CASE SiftDown
  <2>1. CASE SiftDownDone
    BY <2>1 DEF SiftDownDone, Queued
  <2>2. CASE SiftDownSwap
    <3>1. i \in 1 .. Len(items)
      BY <2>2 DEF IInv, TypeOK, SiftDownSwap
    <3>2. BestOfFamily \in 1 .. Len(items)
      BY <1>0, <3>1, BestOfFamilyFacts
    <3> QED
      BY <1>0, <2>2, <3>1, <3>2, SwapKeepsQueued DEF SiftDownSwap
  <2> QED
    BY <1>5, <2>1, <2>2 DEF SiftDown
<1>6. CASE UNCHANGED vars
  BY <1>6 DEF vars, Queued
<1> QED
  BY <1>1, <1>2, <1>3, <1>4, <1>5, <1>6 DEF Next, Abstract!Next

\* The heap implements the abstract priority queue for every set of items.
THEOREM HeapImplementsQueue == Spec => ImplementsQueue
<1>1. Init => Abstract!Init
  BY DEF Init, Abstract!Init, Queued
<1>2. IInv /\ [Next]_vars => [Abstract!Next]_(Abstract!vars)
  BY StepRefines
<1>3. Spec => []IInv
  BY InitIInv, NextIInv, PTL DEF Spec
<1> QED
  BY <1>1, <1>2, <1>3, PTL DEF Spec, ImplementsQueue, Abstract!Spec
-----------------------------------------------------------------------------
(***************************************************************************)
(* The loops run with q.mu held, and every producer and the drainer wait   *)
(* for them: that they end, and after how many iterations.                 *)
(***************************************************************************)
\* An iteration of siftUp at least halves the index and stays in the slice, one of
\* siftDown at least doubles it: neither loop takes more iterations than the heap has
\* rows, whatever the items are.
LoopsAdvance == /\ SiftUpSwap => 1 <= i' /\ 2 * i' <= i
                /\ SiftDownSwap => 2 * i <= i' /\ i' <= Len(items')

LEMMA StepAdvances == ASSUME IInv PROVE LoopsAdvance
<1>1. ASSUME SiftUpSwap PROVE 1 <= i' /\ 2 * i' <= i
  <2>1. i \in Nat /\ i > 1 /\ i' = Parent(i)
    BY <1>1 DEF IInv, TypeOK, SiftUpSwap, SiftUpMoves
  <2>2. i' \in Nat /\ i' >= 1 /\ (i = 2*i' \/ i = 2*i' + 1)
    BY <2>1, ParentFacts
  <2> QED
    BY <2>1, <2>2
<1>2. ASSUME SiftDownSwap PROVE 2 * i <= i' /\ i' <= Len(items')
  <2>1. /\ items \in Seq(Items) /\ Len(items) \in Nat /\ i \in 1 .. Len(items)
        /\ BestOfFamily # i /\ i' = BestOfFamily
    BY <1>2 DEF IInv, TypeOK, SiftDownSwap
  <2>2. BestOfFamily \in {i, 2*i, 2*i + 1} /\ BestOfFamily \in 1 .. Len(items)
    BY <2>1, BestOfFamilyFacts DEF BestOfFamily, Better
  <2>3. Len(items') = Len(items)
    BY <1>2, <2>1, <2>2, SwapFacts DEF SiftDownSwap
  <2> QED
    BY <2>1, <2>2, <2>3
<1> QED
  BY <1>1, <1>2 DEF LoopsAdvance

\* No operation holds the queue for ever: siftUp counts down to the root, siftDown up
\* to the end of the slice, both geometrically.
THEOREM LoopsAlwaysAdvance == Spec => [][LoopsAdvance]_vars
BY InitIInv, NextIInv, StepAdvances, PTL DEF Spec
-----------------------------------------------------------------------------
(***************************************************************************)
(* What the queue leaves open, and what it does not.                       *)
(***************************************************************************)
\* Whatever is queued, some item is best: the removal of the abstract queue is never
\* stuck.  The earliest of the highest level is one.
LEMMA BestExists ==
  ASSUME NEW S, S \subseteq Items, S # {}
  PROVE  Best(S) # {}
<1> USE ItemsAssumption
<1> DEFINE Gaps == {3 - x.priority : x \in S}
<1>1. \A x \in S : x.priority \in 0 .. 3 /\ x.createdAt \in Nat
  BY DEF Levels, Low, Normal, High, Critical
<1>2. PICK g \in Gaps : \A h \in Gaps : g <= h
  <2>1. Gaps \subseteq Nat /\ Gaps # {}
    BY <1>1
  <2> QED
    BY <2>1, LeastNatural
<1> DEFINE Top == {x \in S : 3 - x.priority = g}
           Times == {x.createdAt : x \in Top}
<1>3. PICK t \in Times : \A u \in Times : t <= u
  <2>1. Times \subseteq Nat /\ Times # {}
    BY <1>1
  <2> QED
    BY <2>1, LeastNatural
<1>4. PICK x \in S : 3 - x.priority = g /\ x.createdAt = t
  OBVIOUS
<1>5. ASSUME NEW y \in S PROVE ~ Less(x, y)
  <2>1. 3 - x.priority <= 3 - y.priority
    BY <1>2, <1>4
  <2>2. x.priority = y.priority => x.createdAt <= y.createdAt
    BY <1>3, <1>4
  <2> QED
    BY <1>1, <2>1, <2>2 DEF Less
<1> QED
  BY <1>4, <1>5 DEF Best

\* The order of removals is open only between items of one level and one creation
\* time, and the heap, which is not stable, may take them in either order.
LEMMA BestAreTied ==
  ASSUME NEW S, S \subseteq Items, NEW x \in Best(S), NEW y \in Best(S)
  PROVE  x.priority = y.priority /\ x.createdAt = y.createdAt
<1>1. x \in Items /\ y \in Items /\ ~ Less(x, y) /\ ~ Less(y, x)
  BY DEF Best
<1> QED
  BY <1>1, ItemsAssumption DEF Less, Levels, Low, Normal, High, Critical

\* Items that no other item ties with.
Untied(x, S) == \A y \in S : y.priority = x.priority /\ y.createdAt = x.createdAt => y = x

\* The next removal is decided by what is queued, not by the order of the pushes,
\* unless the items at the head tie.
HeadIsDetermined ==
  mu = "free" => \A x \in Best(Queued) : Untied(x, Queued) => items[1] = x

\* A Pop returns the one item that is ahead of all others, when there is one: the shape
\* the pushes and pops before have given the slice does not matter.
THEOREM HeadIsAlwaysDetermined == Spec => []HeadIsDetermined
<1>1. IInv => HeadIsDetermined
  <2> SUFFICES ASSUME IInv, mu = "free", NEW x \in Best(Queued), Untied(x, Queued)
               PROVE  items[1] = x
    BY DEF HeadIsDetermined
  <2>1. Queued \subseteq Items /\ items # <<>>
    BY DEF IInv, TypeOK, Queued, Best
  <2>2. items[1] \in Best(Queued)
    BY <2>1, RootOfHeap DEF IInv, HeapShape
  <2>3. items[1].priority = x.priority /\ items[1].createdAt = x.createdAt
    BY <2>1, <2>2, BestAreTied
  <2> QED
    BY <2>2, <2>3 DEF Untied, Best
<1> QED
  BY <1>1, InitIInv, NextIInv, PTL DEF Spec
=============================================================================
