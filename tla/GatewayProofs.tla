--------------------------- MODULE GatewayProofs ---------------------------
(***************************************************************************)
(* The invariant of Gateway, for any handlers, requests and items, and the *)
(* proof that Gateway implements Outbox.                                   *)
(***************************************************************************)
EXTENDS Gateway, BlockingPopProofs

\* What was ever in the queue, answered or stored was stamped before now, and
\* each handler has an item of its own.
Stamps ==
  /\ \A x \in Items : x \in queue \cup InHand \cup settled \cup accepted \/ copies[x] > 0 =>
       x.createdAt < clock
  /\ \A h \in Handlers : phase[h] # "idle" => serving[h].createdAt < clock
  /\ \A h, g \in Handlers : h # g /\ phase[h] # "idle" /\ phase[g] # "idle" =>
       serving[h] # serving[g]

\* What a handler is about to push is nowhere yet.
Fresh == \A h \in Handlers : phase[h] = "stamped" =>
           serving[h] \notin queue \cup InHand \cup settled \cup accepted

Kept == /\ accepted \subseteq queue \cup InHand \cup settled
        /\ \A h \in Handlers : phase[h] = "pushed" =>
             serving[h] \in queue \cup InHand \cup settled

Apart == /\ queue \cap InHand = {}
         /\ (queue \cup InHand) \cap settled = {}

\* Who is behind waits for the other to be settled.
InOrder ==
  \A x, y \in Items : <<x, y>> \in behind =>
    /\ x \in accepted /\ Less(y, x)
    /\ y \in InHand \/ copies[y] > 0 => x \in settled

GatewayInv == /\ TypeOKGateway /\ DuplicatesExplained
              /\ Stamps /\ Fresh /\ Kept /\ Apart /\ InOrder

(***************************************************************************)
(* What a step does to the items.                                          *)
(***************************************************************************)
Quiet == /\ UNCHANGED <<queue, settled, accepted, phase, serving, clock, copies, unacked, behind>>
         /\ InHand' = InHand

Stamping(h, y) ==
  /\ phase[h] = "idle" /\ y.createdAt = clock
  /\ phase' = [phase EXCEPT ![h] = "stamped"]
  /\ serving' = [serving EXCEPT ![h] = y]
  /\ clock' = clock + 1
  /\ behind' = behind \cup {<<x, y>> : x \in {a \in accepted : a.priority >= y.priority}}
  /\ UNCHANGED <<queue, settled, accepted, copies, unacked, server>> /\ InHand' = InHand

Pushing(h) ==
  /\ phase[h] = "stamped" /\ serving[h] \in Items
  /\ queue' = queue \cup {serving[h]}
  /\ phase' = [phase EXCEPT ![h] = "pushed"]
  /\ UNCHANGED <<settled, accepted, serving, clock, copies, unacked, behind, server>>
  /\ InHand' = InHand

Answering(h) ==
  /\ phase[h] = "pushed" /\ serving[h] \in Items
  /\ accepted' = accepted \cup {serving[h]}
  /\ phase' = [phase EXCEPT ![h] = "idle"]
  /\ serving' = [serving EXCEPT ![h] = NoItem]
  /\ UNCHANGED <<queue, settled, clock, copies, unacked, behind, server>>
  /\ InHand' = InHand

Handling == UNCHANGED <<accepted, phase, serving, clock, behind, server>>

Taking(x) == /\ x \in Best(queue)
             /\ queue' = queue \ {x}
             /\ InHand = {} /\ InHand' = {x}
             /\ UNCHANGED <<settled, copies, unacked>> /\ Handling

Storing(x) == /\ InHand = {x} /\ InHand' = {}
              /\ settled' = settled \cup {x}
              /\ copies' = [copies EXCEPT ![x] = @ + 1]
              /\ UNCHANGED <<queue, unacked>> /\ Handling

Returning(x) == /\ InHand = {x} /\ InHand' = {}
                /\ queue' = queue \cup {x}
                /\ \/ UNCHANGED <<copies, unacked>>
                   \/ /\ copies' = [copies EXCEPT ![x] = @ + 1]
                      /\ unacked' = [unacked EXCEPT ![x] = @ + 1]
                /\ UNCHANGED settled /\ Handling

Effect == \/ Quiet
          \/ \E h \in Handlers : Pushing(h) \/ Answering(h) \/ \E y \in Items : Stamping(h, y)
          \/ \E x \in Items : Taking(x) \/ Storing(x) \/ Returning(x)

\* What the drainer has in its hands is one item, or nothing.
LEMMA HandFacts ==
  ASSUME TypeOKGateway
  PROVE  /\ Drainer \in Poppers
         /\ InHand \subseteq Items
         /\ Publishing => InHand = {held[Drainer]}
         /\ pc[Drainer] = "holding" => held[Drainer] \in Items
<1>1. Drainer \in Poppers
  BY GatewayAssumption
<1>2. pc[Drainer] = "holding" => held[Drainer] \in Items
  BY <1>1 DEF TypeOKGateway, TypeOK
<1> QED
  BY <1>1, <1>2 DEF InHand, Publishing

\* A handler that is not idle has an item.
LEMMA ServingFacts ==
  ASSUME TypeOKGateway, NEW h \in Handlers, phase[h] # "idle"
  PROVE  serving[h] \in Items
BY DEF TypeOKGateway

\* Every step has one of the effects.
LEMMA StepEffect == ASSUME TypeOKGateway, Next PROVE Effect
<1>1. ASSUME UNCHANGED <<queue, gatewayVars>>, UNCHANGED <<pc, held>> PROVE Quiet
  BY <1>1 DEF Quiet, gatewayVars, InHand, Publishing
<1>2. ASSUME NEW h \in Handlers, NEW r \in Requests, Receive(h, r) PROVE Effect
  <2>1. InHand' = InHand
    BY <1>2 DEF Receive, queueVars, InHand, Publishing
  <2>2. CASE ~ r.valid
    BY <1>2, <2>1, <2>2 DEF Receive, Effect, Quiet, queueVars
  <2>3. CASE r.valid
    <3>1. clock \in 1 .. MaxClock
      BY <1>2, <2>3, GatewayAssumption DEF Receive, TypeOKGateway
    <3>2. MakeItem(r, clock) \in Items
      BY <3>1, GatewayAssumption
    <3>3. MakeItem(r, clock).createdAt = clock
      BY DEF MakeItem
    <3>4. Stamping(h, MakeItem(r, clock))
      BY <1>2, <2>1, <2>3, <3>3 DEF Receive, Stamping, queueVars
    <3> QED
      BY <3>2, <3>4 DEF Effect
  <2> QED
    BY <2>2, <2>3, GatewayAssumption
<1>3. ASSUME NEW h \in Handlers, HandlerPushes(h) PROVE Pushing(h)
  <2>1. serving[h] \in Items
    BY <1>3, ServingFacts DEF HandlerPushes
  <2> QED
    BY <1>3, <2>1 DEF HandlerPushes, Insert, Pushing, InHand, Publishing
<1>4. ASSUME NEW h \in Handlers, Answer(h) PROVE Answering(h)
  <2>1. serving[h] \in Items
    BY <1>4, ServingFacts DEF Answer
  <2> QED
    BY <1>4, <2>1 DEF Answer, Answering, queueVars, InHand, Publishing
<1>5. CASE PublishSucceeds
  <2>1. held[Drainer] \in Items /\ InHand = {held[Drainer]}
    BY <1>5, HandFacts DEF PublishSucceeds, Publishing
  <2>2. pc'[Drainer] = "call"
    BY <1>5, HandFacts DEF PublishSucceeds, CallAgain, TypeOKGateway, TypeOK
  <2>3. InHand' = {}
    BY <2>2 DEF InHand, Publishing
  <2>4. Storing(held[Drainer])
    BY <1>5, <2>1, <2>3 DEF PublishSucceeds, CallAgain, Storing, Handling
  <2> QED
    BY <2>1, <2>4 DEF Effect
<1>6. CASE PublishFails
  <2>1. held[Drainer] \in Items /\ InHand = {held[Drainer]}
    BY <1>6, HandFacts DEF PublishFails, Publishing
  <2>2. InHand' = {}
    BY <1>6 DEF PublishFails, InHand, Publishing
  <2>3. Returning(held[Drainer])
    BY <1>6, <2>1, <2>2 DEF PublishFails, PublishError, Insert, Returning, Handling
  <2> QED
    BY <2>1, <2>3 DEF Effect
<1>7. CASE Backoff
  <2>1. pc'[Drainer] = "call"
    BY <1>7, HandFacts DEF Backoff, CallAgain, TypeOKGateway, TypeOK
  <2>2. InHand = {} /\ InHand' = {}
    BY <1>7, <2>1 DEF Backoff, InHand, Publishing
  <2> QED
    BY <1>7, <2>2 DEF Backoff, CallAgain, Effect, Quiet
<1>8. ASSUME NEW u \in Pushers, Signal(u), UNCHANGED gatewayVars PROVE Effect
  BY <1>1, <1>8 DEF Signal, Effect
<1>9. ASSUME PopItem(Drainer), UNCHANGED gatewayVars PROVE Effect
  <2>1. PICK x \in Best(queue) : Remove(x) /\ held' = [held EXCEPT ![Drainer] = x]
    BY <1>9 DEF PopItem
  <2>2. x \in Items
    BY <2>1 DEF Best, TypeOKGateway, TypeOK
  <2>3. pc[Drainer] # "holding"
    BY <1>9 DEF PopItem, AtTest
  <2>4. drainer = "publish"
    BY <2>3 DEF TypeOKGateway
  <2>5. pc'[Drainer] = "holding" /\ held'[Drainer] = x
    BY <1>9, <2>1, HandFacts DEF PopItem, TypeOKGateway, TypeOK
  <2>6. InHand = {} /\ InHand' = {x}
    BY <1>9, <2>3, <2>4, <2>5 DEF InHand, Publishing, gatewayVars
  <2>7. Taking(x)
    BY <1>9, <2>1, <2>6 DEF Taking, Remove, Handling, gatewayVars
  <2> QED
    BY <2>2, <2>7 DEF Effect
<1>10. ASSUME PopBlocks(Drainer) \/ PopStops(Drainer), UNCHANGED gatewayVars PROVE Effect
  <2>1. pc[Drainer] # "holding" /\ pc'[Drainer] # "holding" /\ UNCHANGED queue
    BY <1>10, HandFacts DEF PopBlocks, PopStops, AtTest, TypeOKGateway, TypeOK
  <2>2. InHand' = InHand
    BY <2>1 DEF InHand, Publishing
  <2> QED
    BY <1>10, <2>1, <2>2 DEF Effect, Quiet, gatewayVars
<1>11. ASSUME WaiterStep(Drainer), UNCHANGED gatewayVars PROVE Effect
  BY <1>1, <1>11 DEF WaiterStep, WaiterWaits, WaiterEnds, Effect
<1>12. CASE Cancel
  BY <1>1, <1>12 DEF Cancel, CloseDone, Effect
<1>13. CASE Shutdown \/ Exit
  BY <1>13 DEF Shutdown, Exit, SetServer, Effect, Quiet, queueVars, InHand, Publishing
<1> QED
  BY <1>2, <1>3, <1>4, <1>5, <1>6, <1>7, <1>8, <1>9, <1>10, <1>11, <1>12, <1>13
     DEF Next, HandlerStep, DrainerStep, QueueStep, PopperStep, Effect

(***************************************************************************)
(* Types.                                                                  *)
(***************************************************************************)
\* What a step does to the queue's variables is a step of BlockingPop.
LEMMA QueueMoves == ASSUME TypeOKGateway, Next PROVE NextQueue \/ UNCHANGED queueVars
<1>0. TypeOK /\ Drainer \in Poppers /\ Drainer \in Pushers
  BY GatewayAssumption DEF TypeOKGateway
<1>1. ASSUME NEW u \in Pushers, NEW x \in Items, Insert(u, x) PROVE NextQueue
  BY <1>1 DEF NextQueue
<1>2. ASSUME NEW h \in Handlers, HandlerPushes(h) PROVE NextQueue
  BY <1>1, <1>2, ServingFacts DEF HandlerPushes, Handlers
<1>3. ASSUME PublishFails PROVE NextQueue
  BY <1>0, <1>1, <1>3, HandFacts DEF PublishFails, Publishing
<1>4. ASSUME PublishSucceeds \/ Backoff PROVE NextQueue
  BY <1>0, <1>4 DEF PublishSucceeds, Backoff, NextQueue
<1>5. ASSUME QueueStep \/ Cancel PROVE NextQueue
  BY <1>0, <1>5 DEF QueueStep, Cancel, NextQueue
<1>6. ASSUME NEW h \in Handlers, Answer(h) \/ \E r \in Requests : Receive(h, r)
      PROVE  UNCHANGED queueVars
  BY <1>6 DEF Answer, Receive
<1>7. ASSUME Shutdown \/ Exit PROVE UNCHANGED queueVars
  BY <1>7 DEF Shutdown, Exit, SetServer
<1> QED
  BY <1>2, <1>3, <1>4, <1>5, <1>6, <1>7 DEF Next, HandlerStep, DrainerStep

LEMMA QueueTypes == ASSUME TypeOKGateway, Next PROVE TypeOK'
<1>1. TypeOK
  BY DEF TypeOKGateway
<1>2. ASSUME UNCHANGED queueVars PROVE TypeOK'
  BY <1>1, <1>2 DEF TypeOK, queueVars
<1> QED
  BY <1>1, <1>2, QueueMoves, NextTypeOK

\* The types of Gateway's own variables.
GatewayTypes ==
  /\ unseen \subseteq Requests
  /\ phase \in [Handlers -> {"idle", "stamped", "pushed"}]
  /\ serving \in [Handlers -> Items \cup {NoItem}]
  /\ \A h \in Handlers : phase[h] = "idle" <=> serving[h] = NoItem
  /\ clock \in 1 .. MaxClock + 1
  /\ accepted \subseteq Items
  /\ drainer \in {"publish", "backoff"}
  /\ drainer = "backoff" => pc[Drainer] = "holding"
  /\ failures \in 0 .. MaxFailures
  /\ copies \in [Items -> Nat]
  /\ unacked \in [Items -> Nat]
  /\ settled \subseteq Items
  /\ server \in {"up", "draining", "gone"}
  /\ behind \subseteq Items \X Items

LEMMA TypesSplit == TypeOKGateway <=> TypeOK /\ GatewayTypes
BY DEF TypeOKGateway, GatewayTypes

LEMMA NextTypes == ASSUME TypeOKGateway, Next PROVE TypeOKGateway'
<1>0. TypeOK /\ GatewayTypes /\ TypeOK' /\ Drainer \in Poppers
  BY QueueTypes, TypesSplit, HandFacts
<1> SUFFICES GatewayTypes'
  BY <1>0 DEF TypeOKGateway, GatewayTypes
<1> USE <1>0, GatewayAssumption
<1>1. ASSUME NEW h \in Handlers, NEW r \in Requests, Receive(h, r) PROVE GatewayTypes'
  <2>1. CASE ~ r.valid
    BY <1>1, <2>1 DEF Receive, GatewayTypes, queueVars
  <2>2. CASE r.valid
    <3> DEFINE y == MakeItem(r, clock)
    <3>1. clock \in 1 .. MaxClock
      BY <1>1, <2>2 DEF Receive, GatewayTypes
    <3>2. y \in Items /\ y # NoItem
      BY <3>1, NoItemAssumption
    <3>3. /\ phase' = [phase EXCEPT ![h] = "stamped"]
          /\ serving' = [serving EXCEPT ![h] = y]
          /\ clock' = clock + 1 /\ clock' \in 1 .. MaxClock + 1
          /\ behind' = behind \cup {<<x, y>> : x \in {a \in accepted : a.priority >= y.priority}}
          /\ unseen' = unseen \ {r}
          /\ UNCHANGED <<queueVars, accepted, drainer, failures, copies, unacked, settled, server>>
      BY <1>1, <2>2, <3>1 DEF Receive
    <3> HIDE DEF y
    <3>4. behind' \subseteq Items \X Items
      BY <3>2, <3>3 DEF GatewayTypes
    <3> QED
      BY <3>2, <3>3, <3>4 DEF GatewayTypes, queueVars
  <2> QED
    BY <2>1, <2>2
<1>2. ASSUME NEW h \in Handlers, HandlerPushes(h) PROVE GatewayTypes'
  BY <1>2 DEF HandlerPushes, Insert, GatewayTypes
<1>3. ASSUME NEW h \in Handlers, Answer(h) PROVE GatewayTypes'
  <2>1. serving[h] \in Items
    BY <1>3, ServingFacts DEF Answer
  <2> QED
    BY <1>3, <2>1 DEF Answer, GatewayTypes, queueVars
<1>4. CASE PublishSucceeds
  <2>1. held[Drainer] \in Items
    BY <1>4, HandFacts DEF PublishSucceeds, Publishing
  <2> QED
    BY <1>4, <2>1 DEF PublishSucceeds, Publishing, CallAgain, GatewayTypes
<1>5. CASE PublishFails
  <2>1. held[Drainer] \in Items /\ pc[Drainer] = "holding" /\ pc' = pc
    BY <1>5, HandFacts DEF PublishFails, Publishing, Insert
  <2>2. /\ failures' \in 0 .. MaxFailures
        /\ copies' \in [Items -> Nat] /\ unacked' \in [Items -> Nat]
    BY <1>5, <2>1 DEF PublishFails, PublishError, GatewayTypes
  <2> QED
    BY <1>5, <2>1, <2>2 DEF PublishFails, GatewayTypes
<1>6. CASE Backoff
  BY <1>6 DEF Backoff, GatewayTypes
<1>7. CASE QueueStep
  <2>1. UNCHANGED gatewayVars /\ (pc[Drainer] = "holding" => pc'[Drainer] = "holding")
    BY <1>7 DEF QueueStep, Signal, PopperStep, WaiterStep, PopItem, PopBlocks, PopStops,
                AtTest, WaiterWaits, WaiterEnds, TypeOK
  <2> QED
    BY <2>1 DEF GatewayTypes, gatewayVars
<1>8. CASE Cancel
  BY <1>8 DEF Cancel, CloseDone, GatewayTypes, gatewayVars
<1>9. CASE Shutdown \/ Exit
  BY <1>9 DEF Shutdown, Exit, SetServer, GatewayTypes, queueVars
<1> QED
  BY <1>1, <1>2, <1>3, <1>4, <1>5, <1>6, <1>7, <1>8, <1>9
     DEF Next, HandlerStep, DrainerStep

(***************************************************************************)
(* The invariant.  What it speaks of has types that the effects need.      *)
(***************************************************************************)
LEMMA EffectTypes ==
  ASSUME TypeOKGateway
  PROVE  /\ queue \subseteq Items /\ InHand \subseteq Items /\ settled \subseteq Items
         /\ accepted \subseteq Items
         /\ phase \in [Handlers -> {"idle", "stamped", "pushed"}]
         /\ serving \in [Handlers -> Items \cup {NoItem}]
         /\ clock \in Nat
         /\ copies \in [Items -> Nat] /\ unacked \in [Items -> Nat]
         /\ \A h \in Handlers : phase[h] # "idle" => serving[h] \in Items
         /\ \A x \in Items : x.priority \in Levels /\ x.createdAt \in Nat
<1>1. TypeOK
  BY DEF TypeOKGateway
<1> QED
  BY <1>1, HandFacts, ServingFacts, GatewayAssumption DEF TypeOKGateway, TypeOK

LEMMA KeepsStamps == ASSUME GatewayInv, Effect PROVE Stamps'
<1> USE EffectTypes DEF GatewayInv
<1>1. CASE Quiet
  BY <1>1 DEF Quiet, Stamps
<1>2. ASSUME NEW h \in Handlers, NEW y \in Items, Stamping(h, y) PROVE Stamps'
  BY <1>2 DEF Stamping, Stamps
<1>3. ASSUME NEW h \in Handlers, Pushing(h) PROVE Stamps'
  BY <1>3 DEF Pushing, Stamps
<1>4. ASSUME NEW h \in Handlers, Answering(h) PROVE Stamps'
  BY <1>4 DEF Answering, Stamps
<1>5. ASSUME NEW x \in Items, Taking(x) \/ Storing(x) \/ Returning(x) PROVE Stamps'
  BY <1>5 DEF Taking, Storing, Returning, Handling, Best, Stamps
<1> QED
  BY <1>1, <1>2, <1>3, <1>4, <1>5 DEF Effect

LEMMA KeepsFresh == ASSUME GatewayInv, Effect PROVE Fresh'
<1> USE EffectTypes DEF GatewayInv
<1>1. CASE Quiet
  BY <1>1 DEF Quiet, Fresh
<1>2. ASSUME NEW h \in Handlers, NEW y \in Items, Stamping(h, y) PROVE Fresh'
  BY <1>2 DEF Stamping, Stamps, Fresh
<1>3. ASSUME NEW h \in Handlers, Pushing(h) PROVE Fresh'
  BY <1>3 DEF Pushing, Stamps, Fresh
<1>4. ASSUME NEW h \in Handlers, Answering(h) PROVE Fresh'
  BY <1>4 DEF Answering, Stamps, Fresh
<1>5. ASSUME NEW x \in Items, Taking(x) \/ Storing(x) \/ Returning(x) PROVE Fresh'
  BY <1>5 DEF Taking, Storing, Returning, Handling, Best, Fresh
<1> QED
  BY <1>1, <1>2, <1>3, <1>4, <1>5 DEF Effect

LEMMA KeepsKept == ASSUME GatewayInv, Effect PROVE Kept' /\ Apart'
<1> USE EffectTypes DEF GatewayInv, Kept, Apart
<1>1. CASE Quiet
  BY <1>1 DEF Quiet
<1>2. ASSUME NEW h \in Handlers, NEW y \in Items, Stamping(h, y) PROVE Kept' /\ Apart'
  BY <1>2 DEF Stamping
<1>3. ASSUME NEW h \in Handlers, Pushing(h) PROVE Kept' /\ Apart'
  BY <1>3 DEF Pushing, Fresh
<1>4. ASSUME NEW h \in Handlers, Answering(h) PROVE Kept' /\ Apart'
  BY <1>4 DEF Answering
<1>5. ASSUME NEW x \in Items, Taking(x) \/ Storing(x) \/ Returning(x)
      PROVE  Kept' /\ Apart'
  BY <1>5 DEF Taking, Storing, Returning, Handling, Best
<1> QED
  BY <1>1, <1>2, <1>3, <1>4, <1>5 DEF Effect

LEMMA KeepsCopies == ASSUME GatewayInv, Effect PROVE DuplicatesExplained'
<1> USE EffectTypes DEF GatewayInv, DuplicatesExplained
<1>1. ASSUME UNCHANGED <<copies, unacked, settled>> PROVE DuplicatesExplained'
  BY <1>1
<1>2. ASSUME NEW x \in Items, Storing(x) PROVE DuplicatesExplained'
  BY <1>2 DEF Storing, Apart
<1>3. ASSUME NEW x \in Items, Returning(x) PROVE DuplicatesExplained'
  BY <1>3 DEF Returning, Apart
<1> QED
  BY <1>1, <1>2, <1>3 DEF Effect, Quiet, Stamping, Pushing, Answering, Taking

\* An item that another is behind is taken from the queue before it, and comes
\* back into it until it is settled.
LEMMA KeepsOrder == ASSUME GatewayInv, Effect PROVE InOrder'
<1> USE EffectTypes DEF GatewayInv
<1>1. CASE Quiet
  BY <1>1 DEF Quiet, InOrder
<1>2. ASSUME NEW h \in Handlers, NEW n \in Items, Stamping(h, n) PROVE InOrder'
  <2> SUFFICES ASSUME NEW x \in Items, NEW y \in Items, <<x, y>> \in behind'
               PROVE  /\ x \in accepted' /\ Less(y, x)
                      /\ y \in InHand' \/ copies'[y] > 0 => x \in settled'
    BY DEF InOrder
  <2>1. CASE <<x, y>> \in behind
    BY <1>2, <2>1 DEF Stamping, InOrder
  <2>2. CASE y = n /\ x \in accepted /\ x.priority >= n.priority
    <3>1. x.createdAt < y.createdAt
      BY <1>2, <2>2 DEF Stamping, Stamps
    <3>2. Less(y, x)
      BY <2>2, <3>1 DEF Less, Levels, Low, Normal, High, Critical
    <3>3. y \notin InHand /\ ~ copies[y] > 0
      BY <1>2, <2>2 DEF Stamping, Stamps
    <3> QED
      BY <1>2, <2>2, <3>2, <3>3 DEF Stamping
  <2> QED
    BY <1>2, <2>1, <2>2 DEF Stamping
<1>3. ASSUME NEW h \in Handlers, Pushing(h) \/ Answering(h) PROVE InOrder'
  BY <1>3 DEF Pushing, Answering, InOrder
<1>4. ASSUME NEW n \in Items, Taking(n) PROVE InOrder'
  <2>1. ASSUME NEW x \in Items, <<x, n>> \in behind PROVE x \in settled
    <3>1. x \in accepted /\ Less(n, x)
      BY <2>1 DEF InOrder
    <3>2. x \in queue \cup settled
      BY <1>4, <3>1 DEF Taking, Kept
    <3> QED
      BY <1>4, <3>1, <3>2 DEF Taking, Best
  <2> QED
    BY <1>4, <2>1 DEF Taking, Handling, InOrder
<1>5. ASSUME NEW n \in Items, Storing(n) \/ Returning(n) PROVE InOrder'
  BY <1>5 DEF Storing, Returning, Handling, InOrder
<1> QED
  BY <1>1, <1>2, <1>3, <1>4, <1>5 DEF Effect

LEMMA InitGatewayInv == Init => GatewayInv
<1> SUFFICES ASSUME Init PROVE GatewayInv
  OBVIOUS
<1>1. TypeOK
  BY QueueInit DEF Init, IInv
<1>2. TypeOKGateway
  BY <1>1, GatewayAssumption DEF Init, TypeOKGateway
<1>3. InHand = {}
  BY GatewayAssumption DEF Init, InitQueue, InHand, Publishing
<1> QED
  BY <1>2, <1>3
     DEF Init, InitQueue, GatewayInv, DuplicatesExplained, Stamps, Fresh, Kept, Apart, InOrder

LEMMA NextGatewayInv == GatewayInv /\ [Next]_vars => GatewayInv'
<1>1. ASSUME GatewayInv, Next PROVE GatewayInv'
  <2>1. TypeOKGateway
    BY <1>1 DEF GatewayInv
  <2>2. TypeOKGateway' /\ Effect
    BY <1>1, <2>1, NextTypes, StepEffect
  <2> QED
    BY <1>1, <2>2, KeepsStamps, KeepsFresh, KeepsKept, KeepsCopies, KeepsOrder
       DEF GatewayInv
<1>2. ASSUME GatewayInv, UNCHANGED vars PROVE GatewayInv'
  <2>1. UNCHANGED <<queueVars, gatewayVars>>
    BY <1>2 DEF vars
  <2>2. Quiet
    BY <2>1 DEF queueVars, gatewayVars, Quiet, InHand, Publishing
  <2>3. TypeOKGateway'
    BY <1>2, <2>1 DEF GatewayInv, TypeOKGateway, TypeOK, queueVars, gatewayVars
  <2> QED
    BY <1>2, <2>2, <2>3, KeepsStamps, KeepsFresh, KeepsKept, KeepsCopies, KeepsOrder
       DEF GatewayInv, Effect
<1> QED
  BY <1>1, <1>2

LEMMA GatewayInvariant == Spec => []GatewayInv
BY InitGatewayInv, NextGatewayInv, PTL DEF Spec

\* The types of Gateway hold in every reachable state.
THEOREM GatewayTypeOK == Spec => []TypeOKGateway
BY GatewayInvariant, PTL DEF GatewayInv

\* No pushed item is lost or held twice while the process lives, for any number
\* of handlers and through any failed publishes.
THEOREM ItemsAreConserved == Spec => []Conservation
<1>1. GatewayInv => Conservation
  BY DEF GatewayInv, Kept, Apart, Conservation, Taken
<1> QED
  BY <1>1, GatewayInvariant, PTL

\* Only a publish whose answer was lost is sent again.
THEOREM DuplicatesAreExplained == Spec => []DuplicatesExplained
BY GatewayInvariant, PTL DEF GatewayInv

\* An item accepted earlier, on the same or a higher level, is stored first.
THEOREM NothingOvertakes == Spec => []NoOvertaking
<1>1. GatewayInv => NoOvertaking
  <2> SUFFICES ASSUME GatewayInv, NEW pair \in behind, copies[pair[2]] > 0
               PROVE  copies[pair[1]] > 0
    BY DEF NoOvertaking
  <2>1. PICK x \in Items, y \in Items : pair = <<x, y>>
    BY DEF GatewayInv, TypeOKGateway
  <2>2. x \in settled
    BY <2>1 DEF GatewayInv, InOrder
  <2>3. unacked[x] \in Nat
    BY DEF GatewayInv, TypeOKGateway
  <2> QED
    BY <2>1, <2>2, <2>3 DEF GatewayInv, DuplicatesExplained
<1> QED
  BY <1>1, GatewayInvariant, PTL
-----------------------------------------------------------------------------
(***************************************************************************)
(* The refinement.                                                         *)
(***************************************************************************)
PlaceMap == [x \in Items |-> PlaceOf(x)]

\* With the server as it was, an item's place depends on where it is alone.
LEMMA PlaceFacts ==
  ASSUME GatewayInv, server # "gone", NEW x \in Items
  PROVE  /\ PlaceMap[x] = "confirmed" <=> x \in settled
         /\ PlaceMap[x] = "held" <=> x \in queue \cup InHand
         /\ PlaceMap[x] = "none" <=> x \notin queue \cup InHand \cup settled
BY DEF GatewayInv, Apart, PlaceMap, PlaceOf

LEMMA StepIsOutbox ==
  ASSUME GatewayInv, GatewayInv', Effect, server # "gone"
  PROVE  Abstract!Next \/ UNCHANGED <<PlaceMap, copies, accepted>>
<1> USE DEF PlaceMap
<1>0. /\ queue \subseteq Items /\ InHand \subseteq Items
      /\ copies \in [Items -> Nat]
  BY EffectTypes DEF GatewayInv
<1>1. CASE Quiet
  <2>1. CASE server' = "gone"
    <3>1. PlaceMap' = [x \in Items |-> IF PlaceMap[x] = "held" THEN "lost" ELSE PlaceMap[x]]
      BY <1>1, <2>1 DEF Quiet, PlaceOf, GatewayInv, Apart
    <3>2. UNCHANGED <<copies, accepted>>
      BY <1>1 DEF Quiet
    <3> QED
      BY <3>1, <3>2 DEF Abstract!Next, Abstract!Stop
  <2>2. CASE server' # "gone"
    BY <1>1, <2>2 DEF Quiet, PlaceOf
  <2> QED
    BY <2>1, <2>2
<1>2. ASSUME NEW h \in Handlers, NEW y \in Items, Stamping(h, y)
      PROVE  UNCHANGED <<PlaceMap, copies, accepted>>
  BY <1>2 DEF Stamping, PlaceOf
<1>3. ASSUME NEW h \in Handlers, Pushing(h) PROVE Abstract!Next
  <2>1. PICK x \in Items : x = serving[h]
    BY <1>3 DEF Pushing
  <2>2. x \notin queue \cup InHand \cup settled /\ queue' = queue \cup {x}
    BY <1>3, <2>1 DEF Pushing, GatewayInv, Fresh
  <2>3. PlaceMap[x] = "none"
    BY <2>2 DEF PlaceOf
  <2>4. \A z \in Items : PlaceOf(z)' = IF z = x THEN "held" ELSE PlaceOf(z)
    BY <1>3, <2>2 DEF Pushing, PlaceOf
  <2>5. PlaceMap' = [PlaceMap EXCEPT ![x] = "held"]
    BY <2>4
  <2> QED
    BY <1>3, <2>3, <2>5 DEF Pushing, Abstract!Next, Abstract!Take
<1>4. ASSUME NEW h \in Handlers, Answering(h) PROVE Abstract!Next
  <2>1. PICK x \in Items : x = serving[h]
    BY <1>4 DEF Answering
  <2>2. x \in queue \cup InHand \cup settled
    BY <1>4, <2>1 DEF Answering, GatewayInv, Kept
  <2>3. PlaceMap[x] \in {"held", "confirmed"} /\ PlaceMap' = PlaceMap
    BY <1>4, <2>2 DEF Answering, PlaceOf
  <2> QED
    BY <1>4, <2>1, <2>3 DEF Answering, Abstract!Next, Abstract!Accept
<1>5. ASSUME NEW x \in Items, Taking(x) PROVE UNCHANGED <<PlaceMap, copies, accepted>>
  <2>1. queue' \cup InHand' = queue \cup InHand
    BY <1>5 DEF Taking, Best
  <2> QED
    BY <1>5, <2>1 DEF Taking, Handling, PlaceOf
<1>6. ASSUME NEW x \in Items, Storing(x) PROVE Abstract!Next
  <2>1. PlaceMap[x] = "held" /\ PlaceMap' = [PlaceMap EXCEPT ![x] = "confirmed"]
    BY <1>6 DEF Storing, Handling, PlaceOf, GatewayInv, Apart
  <2>2. Abstract!Store(x, TRUE)
    BY <1>6, <2>1 DEF Storing, Handling, Abstract!Store
  <2> QED
    BY <2>2 DEF Abstract!Next
<1>7. ASSUME NEW x \in Items, Returning(x)
      PROVE  Abstract!Next \/ UNCHANGED <<PlaceMap, copies, accepted>>
  <2>1. queue' \cup InHand' = queue \cup InHand
    BY <1>7 DEF Returning
  <2>2. PlaceMap' = PlaceMap /\ PlaceMap[x] = "held"
    BY <1>7, <2>1 DEF Returning, Handling, PlaceOf, GatewayInv, Apart
  <2>3. CASE UNCHANGED copies
    BY <1>7, <2>2, <2>3 DEF Returning, Handling
  <2>4. CASE copies' = [copies EXCEPT ![x] = @ + 1]
    <3>1. PlaceMap' = [PlaceMap EXCEPT ![x] = "held"]
      BY <2>2
    <3>2. Abstract!Store(x, FALSE)
      BY <1>7, <2>2, <2>4, <3>1 DEF Returning, Handling, Abstract!Store
    <3> QED
      BY <3>2 DEF Abstract!Next
  <2> QED
    BY <1>7, <2>3, <2>4 DEF Returning
<1> QED
  BY <1>1, <1>2, <1>3, <1>4, <1>5, <1>6, <1>7 DEF Effect

\* Handlers, queue, Pop, drainer and re-queues implement the outbox.
THEOREM GatewayIsAnOutbox == Spec => ImplementsOutbox
<1>1. Init => Abstract!Init
  <2> SUFFICES ASSUME Init PROVE Abstract!Init
    OBVIOUS
  <2>1. queue = {} /\ InHand = {} /\ settled = {}
    BY GatewayAssumption DEF Init, InitQueue, InHand, Publishing
  <2>2. \A x \in Items : PlaceOf(x) = "none"
    BY <2>1 DEF PlaceOf
  <2> QED
    BY <2>2 DEF Init, Abstract!Init
<1>2. GatewayInv /\ GatewayInv' /\ [Next]_vars => [Abstract!Next]_(Abstract!vars)
  <2> SUFFICES ASSUME GatewayInv, GatewayInv', [Next]_vars
               PROVE  [Abstract!Next]_(Abstract!vars)
    OBVIOUS
  <2>1. CASE Next
    <3>1. Effect /\ server # "gone"
      BY <2>1, StepEffect DEF GatewayInv, Next
    <3> QED
      BY <3>1, StepIsOutbox DEF PlaceMap, Abstract!vars
  <2>2. CASE UNCHANGED vars
    BY <2>2 DEF vars, queueVars, gatewayVars, PlaceOf, InHand, Publishing, Abstract!vars
  <2> QED
    BY <2>1, <2>2
<1> QED
  BY <1>1, <1>2, GatewayInvariant, PTL DEF Spec, ImplementsOutbox, Abstract!Spec
-----------------------------------------------------------------------------
(***************************************************************************)
(* The queue inside the gateway, and the order at its head.                *)
(***************************************************************************)
\* Handlers and drainer use the queue as BlockingPop allows: Gateway implements
\* it, so what is proved of Push, Pop and Signal holds in the gateway.
THEOREM GatewayUsesTheQueue == Spec => SpecQueue
<1>1. Init => InitQueue
  BY DEF Init
<1>2. GatewayInv /\ [Next]_vars => [NextQueue]_queueVars
  BY QueueMoves DEF GatewayInv, vars
<1> QED
  BY <1>1, <1>2, GatewayInvariant, PTL DEF Spec, SpecQueue

\* In the gateway too, a Signal that reached Pop's goroutine brings the drainer to
\* the queue, until it is told to stop.
THEOREM DrainerIsServed == Spec => []AlertIsServed
BY GatewayUsesTheQueue, NoAlertIsWasted, PTL

\* Once the stream has confirmed an item it stays confirmed and is never sent
\* again, and a 202 is not taken back.
ConfirmedIsFinal ==
  /\ \A x \in settled : x \in settled' /\ copies'[x] = copies[x]
  /\ accepted \subseteq accepted'

\* A settled item is out of the drainer's reach.
THEOREM ConfirmedStays == Spec => [][ConfirmedIsFinal]_vars
<1>1. ASSUME GatewayInv, Next PROVE ConfirmedIsFinal
  <2>1. Effect /\ copies \in [Items -> Nat] /\ settled \subseteq Items
    BY <1>1, StepEffect DEF GatewayInv, TypeOKGateway
  <2>2. ASSUME NEW x \in Items, Storing(x) \/ Returning(x) PROVE ConfirmedIsFinal
    BY <1>1, <2>1, <2>2 DEF Storing, Returning, Handling, GatewayInv, Apart, ConfirmedIsFinal
  <2>3. ASSUME NEW x \in Items, Taking(x) PROVE ConfirmedIsFinal
    BY <2>3 DEF Taking, Handling, ConfirmedIsFinal
  <2> QED
    BY <2>1, <2>2, <2>3
       DEF Effect, Quiet, Pushing, Answering, Stamping, ConfirmedIsFinal
<1> QED
  BY <1>1, GatewayInvariant, PTL DEF Spec

\* An item that is refused as oversized never gets into the stream, and whatever
\* is behind it never does either: it does not even get into the drainer's hands.
OversizedBlocks ==
  /\ \A x \in Items : x.oversized => copies[x] = 0 /\ x \notin settled
  /\ \A pair \in behind : pair[1].oversized =>
       pair[2] \notin InHand /\ copies[pair[2]] = 0

\* The run oversized finds a NORMAL item that is never dequeued.  This is how far
\* that goes: one oversized item keeps every later item of its level and of the
\* levels below out of the stream, in all behaviours.
THEOREM OversizedAlwaysBlocks == Spec => []OversizedBlocks
<1> DEFINE Refused == \A x \in Items : x.oversized => copies[x] = 0 /\ x \notin settled
<1>1. Init => Refused
  BY DEF Init
<1>2. ASSUME GatewayInv, Refused, Next PROVE Refused'
  <2>1. CASE UNCHANGED <<copies, settled>>
    BY <1>2, <2>1
  <2>2. CASE PublishSucceeds
    BY <1>2, <2>2, EffectTypes DEF PublishSucceeds, GatewayInv
  <2>3. CASE PublishFails
    BY <1>2, <2>3, EffectTypes DEF PublishFails, PublishError, GatewayInv
  <2> QED
    BY <1>2, <2>1, <2>2, <2>3
       DEF Next, HandlerStep, DrainerStep, HandlerPushes, Answer, Receive, Backoff,
           QueueStep, Cancel, Shutdown, Exit, SetServer, gatewayVars
<1>3. Refused /\ UNCHANGED vars => Refused'
  BY DEF vars, gatewayVars
<1>4. GatewayInv /\ Refused => OversizedBlocks
  <2> SUFFICES ASSUME GatewayInv, Refused, NEW pair \in behind, pair[1].oversized
               PROVE  pair[2] \notin InHand /\ copies[pair[2]] = 0
    BY DEF OversizedBlocks
  <2>1. PICK x \in Items, y \in Items : pair = <<x, y>>
    BY DEF GatewayInv, TypeOKGateway
  <2>2. x \notin settled
    BY <2>1
  <2>3. y \notin InHand /\ ~ (copies[y] > 0)
    BY <2>1, <2>2 DEF GatewayInv, InOrder
  <2>4. copies[y] \in Nat
    BY DEF GatewayInv, TypeOKGateway
  <2> QED
    BY <2>1, <2>3, <2>4
<1> HIDE DEF Refused
<1> QED
  BY <1>1, <1>2, <1>3, <1>4, GatewayInvariant, PTL DEF Spec
=============================================================================
