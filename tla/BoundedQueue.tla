---------------------------- MODULE BoundedQueue ----------------------------
(***************************************************************************)
(* What pkg/dlq/dlq.go promises of Memory: "It has a bounded capacity -    *)
(* when full, oldest messages are dropped", in the order of their pushes.  *)
(***************************************************************************)
EXTENDS Naturals, Sequences

CONSTANTS Letters, Capacity

VARIABLE contents

Init == contents = <<>>

Push(x) == contents' = Append(IF Len(contents) < Capacity THEN contents
                                                          ELSE Tail(contents), x)

Drain == contents' = <<>>

Next == Drain \/ \E x \in Letters : Push(x)

Spec == Init /\ [][Next]_contents
=============================================================================
