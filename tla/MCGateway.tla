------------------------------ MODULE MCGateway ------------------------------
(***************************************************************************)
(* Two handlers, three requests of which one is rejected, two failed       *)
(* publishes: an item can fail, go back to the queue where a later one of  *)
(* its level waits, and fail again.  In the run with an oversized request  *)
(* that one is of the highest level.                                       *)
(***************************************************************************)
EXTENDS Gateway

Request(id, valid, priority, oversized) ==
  [id |-> id, valid |-> valid, priority |-> priority, oversized |-> oversized]

MCRequests == { Request("bad", FALSE, "HIGH", FALSE),
                Request("a", TRUE, "NORMAL", FALSE),
                Request("b", TRUE, "PRIORITY_NORMAL", FALSE) }

MCOversizedRequests == { Request("a", TRUE, "NORMAL", FALSE),
                         Request("big", TRUE, "CRITICAL", TRUE) }

ItemsOf(requests) == {MakeItem(r, t) : r \in requests, t \in 1 .. MaxClock}
MCItems          == ItemsOf(MCRequests)
MCOversizedItems == ItemsOf(MCOversizedRequests)
=============================================================================
