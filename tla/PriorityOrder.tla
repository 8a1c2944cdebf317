--------------------------- MODULE PriorityOrder ---------------------------
(***************************************************************************)
(* The order of the gateway's priority queue                               *)
(* (internal/gateway/priority/queue.go): the levels, how a request's       *)
(* string becomes a level, and the comparison the heap is ordered by.      *)
(***************************************************************************)
EXTENDS Integers

Low      == 0
Normal   == 1
High     == 2
Critical == 3

Levels == {Low, Normal, High, Critical}

\* Every string that is not one of the six listed, "LOW" and a lower-case
\* "critical" included, is Low.
ParseLevel(s) ==
  CASE s \in {"CRITICAL", "PRIORITY_CRITICAL"} -> Critical
    [] s \in {"HIGH", "PRIORITY_HIGH"}         -> High
    [] s \in {"NORMAL", "PRIORITY_NORMAL"}     -> Normal
    [] OTHER                                   -> Low

\* Less(a, b): a has LOWER priority than b.  Two items with the same level
\* and the same CreatedAt are not ordered.
Less(a, b) ==
  IF a.priority # b.priority THEN a.priority < b.priority
                             ELSE a.createdAt > b.createdAt

\* The members of S that no member of S is ahead of: what a removal from a
\* priority queue holding S may return.
Best(S) == {x \in S : \A y \in S : ~ Less(x, y)}
=============================================================================
