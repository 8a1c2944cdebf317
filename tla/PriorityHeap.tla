---------------------------- MODULE PriorityHeap ----------------------------
(***************************************************************************)
(* The binary max-heap of internal/gateway/priority/queue.go.              *)
(*                                                                         *)
(* items is the slice q.items; a TLA+ sequence starts at 1, so the source's*)
(* index k is k + 1 here and the parent of i is i \div 2, its children 2i  *)
(* and 2i + 1.  One step is the straight-line part of Push or pop, or one  *)
(* iteration of the siftUp or siftDown loop.  q.mu is held from the first  *)
(* step of an operation to the end of its loop: mu = "free" exactly when   *)
(* no operation is under way.                                              *)
(***************************************************************************)
EXTENDS PriorityOrder, Sequences

CONSTANTS Items,   \* the notifications that may be queued
          NoItem   \* the zero Item, which TryPop returns with false

ASSUME ItemsAssumption ==
  /\ \A x \in Items : x.priority \in Levels /\ x.createdAt \in Nat
  /\ NoItem \notin Items

VARIABLES items,   \* q.items
          mu,      \* "free", or the loop run by the holder of q.mu
          i,       \* that loop's index; 1 when there is none
          result   \* what the last pop returned

vars == <<items, mu, i, result>>

TypeOK == /\ items \in Seq(Items)
          /\ mu \in {"free", "siftUp", "siftDown"}
          /\ i \in Nat \ {0}
          /\ mu # "free" => i \in 1 .. Len(items)
          /\ result \in Items \cup {NoItem}

Parent(k) == k \div 2

Queued == {items[k] : k \in 1 .. Len(items)}

\* Variant for the run's mutants: the exchange without a temporary.
Swap_Sequential(s, j, k) == [s EXCEPT ![j] = s[k]]

Swap(s, j, k) == [s EXCEPT ![j] = s[k], ![k] = s[j]]
-----------------------------------------------------------------------------
Init == /\ items = <<>>
        /\ mu = "free"
        /\ i = 1
        /\ result = NoItem

\* Notification ids are fresh UUIDs and a re-queued item has left the queue
\* before: an item is never pushed while it is queued.
Push(x) == /\ mu = "free"
           /\ x \notin Queued
           /\ items' = Append(items, x)
           /\ mu' = "siftUp"
           /\ i' = Len(items) + 1
           /\ UNCHANGED result

\* Variant: siftUp that compares levels and forgets the creation times.
SiftUpMoves_LevelOnly == i > 1 /\ items[Parent(i)].priority < items[i].priority

SiftUpMoves == i > 1 /\ Less(items[Parent(i)], items[i])

SiftUpSwap == /\ mu = "siftUp"
              /\ SiftUpMoves
              /\ items' = Swap(items, i, Parent(i))
              /\ i' = Parent(i)
              /\ UNCHANGED <<mu, result>>

SiftUpDone == /\ mu = "siftUp"
              /\ ~ SiftUpMoves
              /\ mu' = "free"
              /\ i' = 1
              /\ UNCHANGED <<items, result>>

\* Variant: the slice is shortened, but the last element is not moved first.
WithoutRoot_LastLost(s) == SubSeq(s, 1, Len(s) - 1)

\* The slice without its root, whose place the last element takes.
WithoutRoot(s) == [k \in 1 .. Len(s) - 1 |-> IF k = 1 THEN s[Len(s)] ELSE s[k]]

\* Variant: siftDown is called without the test len(q.items) > 0.
Pop_AlwaysSifts == /\ mu = "free"
                   /\ items # <<>>
                   /\ result' = items[1]
                   /\ items' = WithoutRoot(items)
                   /\ mu' = "siftDown"
                   /\ i' = 1

\* pop(), which Pop and TryPop call with the lock held.
Pop == /\ mu = "free"
       /\ items # <<>>
       /\ result' = items[1]
       /\ items' = WithoutRoot(items)
       /\ mu' = IF Len(items) > 1 THEN "siftDown" ELSE "free"
       /\ i' = 1

TryPopEmpty == /\ mu = "free"
               /\ items = <<>>
               /\ result' = NoItem
               /\ UNCHANGED <<items, mu, i>>

\* One of the two comparisons of a siftDown iteration: the child c when it
\* exists and beats the best so far.
Better(best, c) == IF c <= Len(items) /\ Less(items[best], items[c])
                   THEN c ELSE best

\* Variant: the right child is compared with i and not with the best so far.
BestOfFamily_RightFirst == IF Better(i, 2*i + 1) # i THEN 2*i + 1
                                                     ELSE Better(i, 2*i)

BestOfFamily == Better(Better(i, 2*i), 2*i + 1)

SiftDownSwap == /\ mu = "siftDown"
                /\ BestOfFamily # i
                /\ items' = Swap(items, i, BestOfFamily)
                /\ i' = BestOfFamily
                /\ UNCHANGED <<mu, result>>

SiftDownDone == /\ mu = "siftDown"
                /\ BestOfFamily = i
                /\ mu' = "free"
                /\ i' = 1
                /\ UNCHANGED <<items, result>>

SiftUp   == SiftUpSwap \/ SiftUpDone
SiftDown == SiftDownSwap \/ SiftDownDone

Next == \/ \E x \in Items : Push(x)
        \/ Pop
        \/ TryPopEmpty
        \/ SiftUp
        \/ SiftDown

Spec == Init /\ [][Next]_vars
-----------------------------------------------------------------------------
\* The element at k is not ahead of its parent.
Ordered(k) == ~ Less(items[Parent(k)], items[k])

\* The children of i, the element being sifted, are not ahead of i's parent.
GrandchildrenOrdered ==
  \A k \in 2 .. Len(items) : i > 1 /\ Parent(k) = i
                                => ~ Less(items[Parent(i)], items[k])

\* No item is in the slice twice: push, pop and the swaps of the loops move
\* items and never copy one.
NoDuplicates ==
  \A j, k \in 1 .. Len(items) : items[j] = items[k] => j = k

\* The heap property, weakened while a loop runs: siftUp may only have the
\* sifted element ahead of its parent, siftDown may only have it behind its
\* children, and in both the rest of the heap stays ordered around it.
HeapShape ==
  /\ mu = "free"     => \A k \in 2 .. Len(items) : Ordered(k)
  /\ mu = "siftUp"   => /\ \A k \in 2 .. Len(items) : k # i => Ordered(k)
                        /\ GrandchildrenOrdered
  /\ mu = "siftDown" => /\ \A k \in 2 .. Len(items) : Parent(k) # i => Ordered(k)
                        /\ GrandchildrenOrdered

IInv == TypeOK /\ NoDuplicates /\ HeapShape

\* Whenever q.mu is free the root, which the next Pop or TryPop returns, is an
\* item that no queued item is ahead of: the highest level and, within it, the
\* earliest CreatedAt.
RootIsBest == mu = "free" /\ items # <<>> => items[1] \in Best(Queued)

\* The heap implements the abstract queue: every removal returns a best item
\* and takes exactly that item away, TryPop reports an empty queue only when
\* nothing is queued, and the loops change nothing a caller can see.
Abstract == INSTANCE PriorityQueue WITH pending <- Queued
ImplementsQueue == Abstract!Spec
=============================================================================
