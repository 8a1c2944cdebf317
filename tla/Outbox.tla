------------------------------- MODULE Outbox -------------------------------
(***************************************************************************)
(* What the gateway promises: an item it takes is held in memory until the *)
(* stream has confirmed it, the stream may get it more than once, and the  *)
(* end of the process loses what is held, answered with 202 or not.        *)
(* Gateway implements this, with its handlers, the queue, Pop and the      *)
(* drainer hidden.                                                         *)
(***************************************************************************)
EXTENDS Naturals

CONSTANT Items

VARIABLES place,    \* place[x]: "none", "held", "confirmed" or "lost"
          copies,   \* copies[x]: messages of x that the stream has stored
          accepted  \* the items answered with 202

vars == <<place, copies, accepted>>

Init == /\ place = [x \in Items |-> "none"]
        /\ copies = [x \in Items |-> 0]
        /\ accepted = {}

Take(x) == /\ place[x] = "none"
           /\ place' = [place EXCEPT ![x] = "held"]
           /\ UNCHANGED <<copies, accepted>>

Accept(x) == /\ place[x] \in {"held", "confirmed"}
             /\ accepted' = accepted \cup {x}
             /\ UNCHANGED <<place, copies>>

\* The stream has stored x; the gateway learns so only if it is confirmed.
Store(x, confirmed) ==
  /\ place[x] = "held"
  /\ copies' = [copies EXCEPT ![x] = @ + 1]
  /\ place' = [place EXCEPT ![x] = IF confirmed THEN "confirmed" ELSE "held"]
  /\ UNCHANGED accepted

Stop == /\ place' = [x \in Items |-> IF place[x] = "held" THEN "lost" ELSE place[x]]
        /\ UNCHANGED <<copies, accepted>>

Next == \/ \E x \in Items : \/ Take(x) \/ Accept(x)
                            \/ \E confirmed \in BOOLEAN : Store(x, confirmed)
        \/ Stop

Spec == Init /\ [][Next]_vars
=============================================================================
