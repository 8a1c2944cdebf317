---------------------------- MODULE AtLeastOnce ----------------------------
(***************************************************************************)
(* What the stream and the delivery workers promise together: a message    *)
(* that is stored leaves the stream by an ack only after each target has   *)
(* been dealt with, or by its age.  Delivery implements this, with its     *)
(* workers, retries, dead letters and redeliveries hidden.                 *)
(***************************************************************************)
CONSTANTS Messages,    \* what the stream may hold
          Deliverable, \* those of them that the worker can decode
          Targets,     \* the channels
          Exempt       \* channels to which nothing is ever sent

VARIABLES state,   \* state[m]: "absent", "stored", "acked" or "expired"
          settled  \* settled[m]: the targets that have been dealt with

vars == <<state, settled>>

Init == /\ state = [m \in Messages |-> "absent"]
        /\ settled = [m \in Messages |-> Exempt]

Move(m, from, to) == /\ state[m] = from
                     /\ state' = [state EXCEPT ![m] = to]
                     /\ UNCHANGED settled

Store(m) == Move(m, "absent", "stored")

\* A worker that is slow may settle what another one has acked.
Settle(m, k) == /\ state[m] # "absent"
                /\ settled' = [settled EXCEPT ![m] = @ \cup {k}]
                /\ UNCHANGED state

Ack(m) == /\ m \in Deliverable => settled[m] = Targets
          /\ Move(m, "stored", "acked")

Expire(m) == Move(m, "stored", "expired")

Next == \E m \in Messages : \/ Store(m) \/ Ack(m) \/ Expire(m)
                            \/ \E k \in Targets : Settle(m, k)

Spec == Init /\ [][Next]_vars
=============================================================================
