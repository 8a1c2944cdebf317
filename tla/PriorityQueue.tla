--------------------------- MODULE PriorityQueue ---------------------------
(***************************************************************************)
(* What internal/gateway/priority promises its callers: a set of pending   *)
(* items from which a removal takes one that no other pending item is      *)
(* ahead of.  PriorityHeap implements this with a binary heap.             *)
(***************************************************************************)
EXTENDS PriorityOrder

CONSTANTS Items,   \* the notifications that may be queued
          NoItem   \* what a TryPop that finds nothing returns

VARIABLES pending, \* the items in the queue
          result   \* what the last removal returned

vars == <<pending, result>>

Init == /\ pending = {}
        /\ result = NoItem

Push(x) == /\ x \notin pending
           /\ pending' = pending \cup {x}
           /\ UNCHANGED result

Take == \E x \in Best(pending) : /\ pending' = pending \ {x}
                                 /\ result' = x

TakeNone == /\ pending = {}
            /\ result' = NoItem
            /\ UNCHANGED pending

Next == \/ \E x \in Items : Push(x)
        \/ Take
        \/ TakeNone

Spec == Init /\ [][Next]_vars
=============================================================================
