------------------------------- MODULE Gateway -------------------------------
(***************************************************************************)
(* The gateway-api process: the HTTP handlers of internal/gateway/rest.go, *)
(* the queue they push to (BlockingPop), and run and drainQueue of         *)
(* cmd/gateway-api/main.go, which take the items out and publish them to   *)
(* the JetStream stream.  drainQueue is the only popper; it also pushes,   *)
(* when a publish fails.                                                   *)
(*                                                                         *)
(* A crash is the end of a behaviour at any state: the safety properties   *)
(* hold of every prefix.                                                   *)
(***************************************************************************)
EXTENDS BlockingPop, FiniteSets

CONSTANTS Drainer,     \* the goroutine of drainQueue
          Requests,    \* the POSTs that clients may send
          MaxClock,    \* bound: requests that are stamped
          MaxFailures  \* bound: failed publishes of items NATS can take

Handlers == Pushers \ {Drainer}

\* What handleSend queues for request r at time t.
MakeItem(r, t) == [id |-> r.id, priority |-> ParseLevel(r.priority),
                   createdAt |-> t, oversized |-> r.oversized]

ASSUME GatewayAssumption ==
  /\ Drainer \in Pushers
  /\ Poppers = {Drainer}
  /\ MaxClock \in Nat /\ MaxFailures \in Nat
  /\ \A r \in Requests : r.valid \in BOOLEAN
  /\ \A r \in Requests, t \in 1 .. MaxClock : MakeItem(r, t) \in Items
  /\ \A x \in Items : /\ x.priority \in Levels /\ x.createdAt \in Nat
                      /\ x.oversized \in BOOLEAN

VARIABLES unseen,    \* requests not yet received
          phase,     \* phase[h]: how far handler h is in handleSend
          serving,   \* serving[h]: the item handler h has made
          clock,     \* the next time.Now()
          accepted,  \* items answered with 202
          drainer,   \* what drainQueue does while it has an item
          failures,  \* publishes that have failed so far (bounded)
          copies,    \* copies[x]: messages of x the stream has stored
          unacked,   \* unacked[x]: those whose Publish returned an error
          settled,   \* items whose Publish returned no error
          server,    \* "up", "draining" (httpServer.Shutdown), "gone"
          behind     \* history: <<x, y>> when x was accepted before y was
                     \* stamped and y's level is not above x's

gatewayVars == <<unseen, phase, serving, clock, accepted, drainer, failures,
                 copies, unacked, settled, server, behind>>

vars == <<queueVars, gatewayVars>>

TypeOKGateway ==
  /\ TypeOK
  /\ unseen \subseteq Requests
  /\ phase \in [Handlers -> {"idle", "stamped", "pushed"}]
  /\ serving \in [Handlers -> Items \cup {NoItem}]
  /\ \A h \in Handlers : phase[h] = "idle" <=> serving[h] = NoItem
  /\ clock \in 1 .. MaxClock + 1
  /\ accepted \subseteq Items
  /\ drainer \in {"publish", "backoff"}
  /\ drainer = "backoff" => pc[Drainer] = "holding"
  /\ failures \in 0 .. MaxFailures
  /\ copies \in [Items -> Nat]
  /\ unacked \in [Items -> Nat]
  /\ settled \subseteq Items
  /\ server \in {"up", "draining", "gone"}
  /\ behind \subseteq Items \X Items
-----------------------------------------------------------------------------
Init == /\ InitQueue
        /\ unseen = Requests
        /\ phase = [h \in Handlers |-> "idle"]
        /\ serving = [h \in Handlers |-> NoItem]
        /\ clock = 1
        /\ accepted = {}
        /\ drainer = "publish"
        /\ failures = 0
        /\ copies = [x \in Items |-> 0]
        /\ unacked = [x \in Items |-> 0]
        /\ settled = {}
        /\ server = "up"
        /\ behind = {}

(***************************************************************************)
(* handleSend.  A request is valid when its body decodes and has a subject *)
(* or a body; otherwise it is answered with 400 and leaves nothing behind. *)
(***************************************************************************)
Receive(h, r) ==
  /\ server = "up"
  /\ phase[h] = "idle"
  /\ r \in unseen
  /\ unseen' = unseen \ {r}
  /\ \/ /\ ~ r.valid
        /\ UNCHANGED <<phase, serving, clock, behind>>
     \/ /\ r.valid
        /\ clock <= MaxClock
        /\ LET y == MakeItem(r, clock) IN
             /\ serving' = [serving EXCEPT ![h] = y]
             /\ behind' = behind \cup {<<x, y>> : x \in {a \in accepted :
                                                    a.priority >= y.priority}}
        /\ phase' = [phase EXCEPT ![h] = "stamped"]
        /\ clock' = clock + 1
  /\ UNCHANGED <<queueVars, accepted, drainer, failures, copies, unacked,
                 settled, server>>

HandlerPushes(h) ==
  /\ phase[h] = "stamped"
  /\ Insert(h, serving[h])
  /\ phase' = [phase EXCEPT ![h] = "pushed"]
  /\ UNCHANGED <<unseen, serving, clock, accepted, drainer, failures, copies,
                 unacked, settled, server, behind>>

\* Variant for the runs' mutants: 202 is written before the item is pushed.
Answer_BeforePush(h) ==
  /\ phase[h] # "idle"
  /\ accepted' = accepted \cup {serving[h]}
  /\ UNCHANGED <<queueVars, unseen, phase, serving, clock, drainer, failures,
                 copies, unacked, settled, server, behind>>

\* Variant: the handler's state survives the request.
Answer_KeepsItem(h) ==
  /\ phase[h] = "pushed"
  /\ signals[h] = NoItem
  /\ accepted' = accepted \cup {serving[h]}
  /\ phase' = [phase EXCEPT ![h] = "idle"]
  /\ UNCHANGED <<queueVars, unseen, serving, clock, drainer, failures, copies,
                 unacked, settled, server, behind>>

\* Push has returned: the handler answers 202.
Answer(h) ==
  /\ phase[h] = "pushed"
  /\ signals[h] = NoItem
  /\ accepted' = accepted \cup {serving[h]}
  /\ phase' = [phase EXCEPT ![h] = "idle"]
  /\ serving' = [serving EXCEPT ![h] = NoItem]
  /\ UNCHANGED <<queueVars, unseen, clock, drainer, failures, copies, unacked,
                 settled, server, behind>>

(***************************************************************************)
(* drainQueue.  Its Publish takes the process's context: once that is      *)
(* cancelled it fails without sending.  NATS refuses a payload above its   *)
(* limit, and any other publish may fail, with the message stored (only    *)
(* the answer was lost) or not.                                            *)
(***************************************************************************)
Publishing == pc[Drainer] = "holding" /\ drainer = "publish"

\* Variant: the branch of a failed publish is taken after a success as well.
PublishSucceeds_Requeues ==
  /\ Publishing
  /\ ~ done[Drainer]
  /\ ~ held[Drainer].oversized
  /\ copies' = [copies EXCEPT ![held[Drainer]] = @ + 1]
  /\ Insert(Drainer, held[Drainer])
  /\ drainer' = "backoff"
  /\ copies[held[Drainer]] < 2
  /\ UNCHANGED <<unseen, phase, serving, clock, accepted, failures, unacked,
                 settled, server, behind>>

PublishSucceeds ==
  /\ Publishing
  /\ ~ done[Drainer]
  /\ ~ held[Drainer].oversized
  /\ copies' = [copies EXCEPT ![held[Drainer]] = @ + 1]
  /\ settled' = settled \cup {held[Drainer]}
  /\ CallAgain(Drainer)
  /\ UNCHANGED <<unseen, phase, serving, clock, accepted, drainer, failures,
                 unacked, server, behind>>

\* The outcomes of a Publish that returns an error.
PublishError ==
  \/ /\ done[Drainer] \/ held[Drainer].oversized
     /\ UNCHANGED <<failures, copies, unacked>>
  \/ /\ ~ done[Drainer] /\ ~ held[Drainer].oversized
     /\ failures < MaxFailures
     /\ failures' = failures + 1
     /\ \/ UNCHANGED <<copies, unacked>>
        \/ /\ copies' = [copies EXCEPT ![held[Drainer]] = @ + 1]
           /\ unacked' = [unacked EXCEPT ![held[Drainer]] = @ + 1]

\* Variant: a failed publish is logged and the item forgotten.
PublishFails_Drops ==
  /\ Publishing
  /\ PublishError
  /\ CallAgain(Drainer)
  /\ UNCHANGED <<unseen, phase, serving, clock, accepted, drainer, settled,
                 server, behind>>

\* The item, with the CreatedAt it had, goes back into the queue.
PublishFails ==
  /\ Publishing
  /\ PublishError
  /\ Insert(Drainer, held[Drainer])
  /\ drainer' = "backoff"
  /\ UNCHANGED <<unseen, phase, serving, clock, accepted, settled, server, behind>>

\* Variant: an error ends the drainer.
Backoff_Returns ==
  /\ drainer = "backoff"
  /\ signals[Drainer] = NoItem
  /\ drainer' = "publish"
  /\ pc' = [pc EXCEPT ![Drainer] = "stopped"]
  /\ UNCHANGED <<queue, signals, held, waiter, done, alerted, unseen, phase,
                 serving, clock, accepted, failures, copies, unacked, settled,
                 server, behind>>

\* The sleep of 100 ms after the Push, which ignores the context.
Backoff ==
  /\ drainer = "backoff"
  /\ signals[Drainer] = NoItem
  /\ drainer' = "publish"
  /\ CallAgain(Drainer)
  /\ UNCHANGED <<unseen, phase, serving, clock, accepted, failures, copies,
                 unacked, settled, server, behind>>

\* Push's Signal, Pop and Pop's goroutine.
QueueStep ==
  /\ \/ \E u \in Pushers : Signal(u)
     \/ PopperStep(Drainer)
     \/ WaiterStep(Drainer)
  /\ UNCHANGED gatewayVars

(***************************************************************************)
(* run.  SIGTERM cancels the context; run then stops the server from       *)
(* taking requests and returns when the handlers have ended, or after 10   *)
(* seconds whether they have or not.  The process is gone then, and with   *)
(* it the queue: nobody waits for the drainer.                             *)
(***************************************************************************)
Cancel == CloseDone(Drainer) /\ UNCHANGED gatewayVars

SetServer(from, to) ==
  /\ server = from
  /\ server' = to
  /\ UNCHANGED <<queueVars, unseen, phase, serving, clock, accepted, drainer,
                 failures, copies, unacked, settled, behind>>

Shutdown == done[Drainer] /\ SetServer("up", "draining")

Exit == SetServer("draining", "gone")

HandlerStep(h) == HandlerPushes(h) \/ Answer(h)
DrainerStep == PublishSucceeds \/ PublishFails \/ Backoff

Next == /\ server # "gone"
        /\ \/ \E h \in Handlers : HandlerStep(h) \/ \E r \in Requests : Receive(h, r)
           \/ DrainerStep
           \/ QueueStep
           \/ Cancel
           \/ Shutdown
           \/ Exit

Spec == Init /\ [][Next]_vars

\* The goroutines that can run do, until the process is gone.  Requests and
\* SIGTERM need not come.
Alive(A) == server # "gone" /\ A

Fairness ==
  /\ \A h \in Handlers : WF_vars(Alive(HandlerStep(h)))
  /\ WF_vars(Alive(DrainerStep))
  /\ \A u \in Pushers : WF_vars(Alive(Signal(u) /\ UNCHANGED gatewayVars))
  /\ WF_vars(Alive(PopperStep(Drainer) /\ UNCHANGED gatewayVars))
  /\ WF_vars(Alive(WaiterStep(Drainer) /\ UNCHANGED gatewayVars))
  /\ WF_vars(Shutdown) /\ WF_vars(Exit)

FairSpec == Spec /\ Fairness
-----------------------------------------------------------------------------
InHand == IF Publishing THEN {held[Drainer]} ELSE {}

\* What handlers have pushed, answered or about to be.
Taken == accepted \cup {serving[h] : h \in {g \in Handlers : phase[g] = "pushed"}}

\* Every item a handler has pushed is in exactly one place: in the queue, in
\* the drainer's hands or acknowledged by the stream.  What a restart loses is
\* what is in the first two.
Conservation ==
  /\ Taken \subseteq queue \cup InHand \cup settled
  /\ queue \cap InHand = {}
  /\ (queue \cup InHand) \cap settled = {}

\* The stream has one message of a settled item and one more for each Publish
\* that stored the message and returned an error: nothing else is sent twice.
DuplicatesExplained ==
  \A x \in Items :
    copies[x] = unacked[x] + (IF x \in settled THEN 1 ELSE 0)

\* To its clients the gateway is an outbox: whatever handlers, queue, Pop and
\* re-queues do to it, an item that was taken stays held until the stream has
\* confirmed it or the process ends.
PlaceOf(x) == CASE x \in settled -> "confirmed"
                [] x \in queue \cup InHand -> IF server = "gone" THEN "lost" ELSE "held"
                [] OTHER -> "none"

Abstract == INSTANCE Outbox WITH place <- [x \in Items |-> PlaceOf(x)]

ImplementsOutbox == Abstract!Spec

\* An item accepted before another request was stamped, on the same or a higher
\* level, reaches the stream first, failed publishes and re-queues included
\* (items the stream can take; the others stay at the head).
NoOvertaking ==
  \A pair \in behind : copies[pair[2]] > 0 => copies[pair[1]] > 0

\* The drainer sleeps in Pop although there is work: the wake-up was lost.
Stranded == /\ queue # {}
            /\ pc[Drainer] = "select" /\ waiter[Drainer] = "waiting"
            /\ \A u \in Pushers : signals[u] = NoItem

Oversized(S) == \E x \in S : x.oversized

\* An accepted item reaches the stream, unless the process is told to stop, a
\* wake-up was lost, or an item the stream refuses has been accepted.
AcceptedIsStored ==
  \A x \in Items :
    x \in accepted ~> (x \in settled \/ done[Drainer] \/ Stranded \/ Oversized(accepted))

\* queue.go:9 says a NORMAL item must be dequeued within 60 seconds.  It need
\* not be dequeued at all, with every wake-up delivered and no SIGTERM: an item
\* that the stream always refuses comes back to the head of the queue for ever.
NormalIsDequeued ==
  \A x \in Items :
    (x \in accepted /\ x.priority >= Normal /\ ~ x.oversized)
      ~> (x \notin queue \/ done[Drainer] \/ Stranded)
=============================================================================
