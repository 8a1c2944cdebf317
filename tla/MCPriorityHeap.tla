--------------------------- MODULE MCPriorityHeap ---------------------------
(***************************************************************************)
(* Seven items: enough for a heap of three levels, in which siftUp and     *)
(* siftDown make two swaps, with every level of priority, several creation *)
(* times within one level and two items that tie.                          *)
(***************************************************************************)
EXTENDS PriorityHeap

MCItem(id, priority, createdAt) ==
  [id |-> id, priority |-> priority, createdAt |-> createdAt]

MCItems == { MCItem("a", Low, 1), MCItem("b", Low, 3),
             MCItem("c", Normal, 2), MCItem("d", Normal, 2),
             MCItem("e", High, 1),
             MCItem("f", Critical, 2), MCItem("g", Critical, 4) }
=============================================================================
