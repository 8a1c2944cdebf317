---------------------------- MODULE MCBlockingPop ----------------------------
(***************************************************************************)
(* Two pushers, two poppers, and items that are each pushed once, as by a  *)
(* gateway whose publishes succeed: a queue that is refilled for ever need *)
(* never be empty.                                                         *)
(***************************************************************************)
EXTENDS BlockingPop

VARIABLE pushed   \* the items pushed so far

MCItems == { [id |-> "a", priority |-> Low, createdAt |-> 1],
             [id |-> "b", priority |-> High, createdAt |-> 2] }

MCInit == InitQueue /\ pushed = {}

MCInsert(u, x) == x \notin pushed /\ pushed' = pushed \cup {x} /\ Insert(u, x)

MCNext ==
  \/ \E u \in Pushers : \E x \in Items : MCInsert(u, x)
  \/ /\ UNCHANGED pushed
     /\ \/ \E u \in Pushers : Signal(u)
        \/ \E p \in Poppers : PopperStep(p) \/ WaiterStep(p) \/ CallAgain(p) \/ CloseDone(p)
        \/ TryPop

MCSpec == MCInit /\ [][MCNext]_<<queueVars, pushed>> /\ QueueFairness
=============================================================================
