---------------------------- MODULE SystemProofs ----------------------------
(***************************************************************************)
(* What System keeps, for any environments, numbers of notifications,      *)
(* copies, channels and faults.                                            *)
(***************************************************************************)
EXTENDS System, TLAPS

(***************************************************************************)
(* The services.                                                           *)
(***************************************************************************)
\* EnsureStream stands before all that needs the stream, and nothing removes it.
StreamMade ==
  /\ phase["gateway"] \in {"launch", "announce", "serve", "shutdown", "stopping"} => stream
  /\ phase["worker"] = "serve" => stream

\* The order of the end: not ready, then the server is shut down, then the end.
ShutInOrder ==
  /\ phase["gateway"] \in {"shutdown", "stopping"} => ~ ready["gateway"]
  /\ listener[Api] = "closed" => phase["gateway"] = "stopping"

ServicesInv == TypeOKServices /\ StreamMade /\ ShutInOrder

LEMMA ListenerFacts ==
  /\ Api \in Listeners /\ Api \in ListenersOf("gateway") /\ Api \notin ListenersOf("worker")
  /\ \A s \in ServiceNames : Health(s) \in ListenersOf(s) /\ Health(s) # Api
  /\ \A l \in Listeners : l[1] \in ServiceNames /\ l \in ListenersOf(l[1])
BY DEF Api, Health, Listeners, ListenersOf, ServiceNames

LEMMA ToFacts ==
  ASSUME TypeOKServices, NEW s \in ServiceNames, NEW p \in Phases[s], To(s, p)
  PROVE  /\ phase' \in [ServiceNames -> Phases.gateway \cup Phases.worker]
         /\ \A t \in ServiceNames : phase'[t] \in Phases[t]
         /\ phase'[s] = p /\ \A t \in ServiceNames \ {s} : phase'[t] = phase[t]
<1>1. p \in Phases.gateway \cup Phases.worker
  BY DEF ServiceNames, Phases
<1> QED
  BY <1>1 DEF To, TypeOKServices

\* The end of a process leaves nothing of it.
LEMMA EndInv ==
  ASSUME ServicesInv, NEW s \in ServiceNames, End(s), stream => stream',
         stream' \in BOOLEAN, broker' \in BOOLEAN, env' = env, faults' \in 0 .. MaxFaults
  PROVE  ServicesInv' /\ phase'[s] = "down"
<1>0. TypeOKServices /\ StreamMade /\ ShutInOrder
  BY DEF ServicesInv
<1>1. /\ phase' \in [ServiceNames -> Phases.gateway \cup Phases.worker]
      /\ \A t \in ServiceNames : phase'[t] \in Phases[t]
      /\ phase'[s] = "down" /\ \A t \in ServiceNames \ {s} : phase'[t] = phase[t]
  <2>1. "down" \in Phases[s]
    BY DEF ServiceNames, Phases
  <2> QED
    BY <1>0, <2>1, ToFacts DEF End
<1>2. /\ cancelled' \in [ServiceNames -> BOOLEAN] /\ ready' \in [ServiceNames -> BOOLEAN]
      /\ listener' \in [Listeners -> ListenerStates]
      /\ ~ ready'[s] /\ \A t \in ServiceNames \ {s} : ready'[t] = ready[t]
      /\ \A l \in ListenersOf(s) : listener'[l] = "none"
      /\ \A t \in ServiceNames \ {s} : \A l \in ListenersOf(t) : listener'[l] = listener[l]
  BY <1>0 DEF End, TypeOKServices, ListenerStates, ListenersOf
<1>3. TypeOKServices'
  <2>1. ASSUME NEW t \in ServiceNames, phase'[t] \in {"down", "connect", "ensure", "launch"}
        PROVE  ~ ready'[t] /\ \A l \in ListenersOf(t) : listener'[l] = "none"
    BY <1>0, <1>1, <1>2, <2>1 DEF TypeOKServices
  <2> QED
    BY <1>0, <1>1, <1>2, <2>1 DEF TypeOKServices
<1>4. StreamMade'
  BY <1>0, <1>1 DEF StreamMade, ServiceNames
<1>5. ShutInOrder'
  <2>1. CASE s = "gateway"
    BY <1>1, <1>2, <2>1, ListenerFacts DEF ShutInOrder
  <2>2. CASE s # "gateway"
    BY <1>0, <1>1, <1>2, <2>2, ListenerFacts DEF ShutInOrder, ServiceNames
  <2> QED
    BY <2>1, <2>2
<1> QED
  BY <1>1, <1>3, <1>4, <1>5 DEF ServicesInv

\* A step of a process that goes on and leaves the listeners alone.
LEMMA GoesOnInv ==
  ASSUME ServicesInv, NEW s \in ServiceNames, NEW p \in Phases[s], To(s, p), p # "down",
         ready' \in [ServiceNames -> BOOLEAN],
         \A t \in ServiceNames \ {s} : ready'[t] = ready[t],
         phase[s] \notin {"shutdown", "stopping"},
         p \in {"connect", "ensure", "launch"} =>
           phase[s] \in {"down", "connect", "ensure", "launch"} /\ ready'[s] = ready[s],
         p \in {"shutdown", "stopping"} => ~ ready'[s],
         p \in {"launch", "announce", "serve", "shutdown", "stopping"} =>
           \/ stream'
           \/ s = "worker" /\ p # "serve"
           \/ s = "gateway" /\ phase[s] \in {"launch", "announce", "serve"},
         UNCHANGED <<env, cancelled, listener, broker, faults>>,
         stream => stream', stream' \in BOOLEAN
  PROVE  ServicesInv'
<1>0. TypeOKServices /\ StreamMade /\ ShutInOrder
  BY DEF ServicesInv
<1>1. /\ phase' \in [ServiceNames -> Phases.gateway \cup Phases.worker]
      /\ \A t \in ServiceNames : phase'[t] \in Phases[t]
      /\ phase'[s] = p /\ \A t \in ServiceNames \ {s} : phase'[t] = phase[t]
  BY <1>0, ToFacts
<1>2. TypeOKServices'
  <2>1. ASSUME NEW t \in ServiceNames, phase'[t] \in {"down", "connect", "ensure", "launch"}
        PROVE  ~ ready'[t] /\ \A l \in ListenersOf(t) : listener'[l] = "none"
    BY <1>0, <1>1, <2>1 DEF TypeOKServices
  <2> QED
    BY <1>0, <1>1, <2>1 DEF TypeOKServices
<1>3. StreamMade'
  BY <1>0, <1>1 DEF StreamMade, ServiceNames
<1>4. ShutInOrder'
  BY <1>0, <1>1 DEF ShutInOrder, ServiceNames
<1> QED
  BY <1>2, <1>3, <1>4 DEF ServicesInv

LEMMA StartUpInv ==
  ASSUME ServicesInv, NEW s \in ServiceNames,
         Start(s) \/ Connect(s) \/ Launch(s) \/ Announce(s)
  PROVE  ServicesInv'
<1>0. TypeOKServices /\ StreamMade /\ ShutInOrder
  BY DEF ServicesInv
<1>1. CASE Start(s)
  <2>1. "connect" \in Phases[s]
    BY DEF ServiceNames, Phases
  <2> QED
    BY <1>0, <1>1, <2>1, GoesOnInv DEF Start, Unmoved, TypeOKServices
<1>2. CASE Connect(s)
  <2> DEFINE next == IF s = "gateway" THEN "ensure" ELSE "launch"
  <2>1. CASE To(s, next) /\ Unmoved
    <3>1. next \in Phases[s] /\ next \in {"ensure", "launch"} /\ (next = "launch" => s = "worker")
      BY DEF ServiceNames, Phases
    <3>2. phase[s] = "connect"
      BY <1>2 DEF Connect
    <3> HIDE DEF next
    <3> QED
      BY <1>0, <2>1, <3>1, <3>2, GoesOnInv DEF Unmoved, TypeOKServices
  <2>2. CASE End(s) /\ UNCHANGED <<env, config, broker, stream, faults>>
    BY <1>0, <2>2, EndInv DEF TypeOKServices
  <2> QED
    BY <1>2, <2>1, <2>2 DEF Connect
<1>3. CASE Launch(s)
  <2>1. "announce" \in Phases[s]
    BY DEF ServiceNames, Phases
  <2>2. /\ phase' \in [ServiceNames -> Phases.gateway \cup Phases.worker]
        /\ \A t \in ServiceNames : phase'[t] \in Phases[t]
        /\ phase'[s] = "announce" /\ \A t \in ServiceNames \ {s} : phase'[t] = phase[t]
        /\ phase[s] = "launch"
    BY <1>0, <1>3, <2>1, ToFacts DEF Launch
  <2>3. /\ listener' = [l \in Listeners |-> IF l[1] = s THEN "starting" ELSE listener[l]]
        /\ UNCHANGED <<env, cancelled, ready, broker, stream, faults>>
    BY <1>3 DEF Launch
  <2>4. /\ listener' \in [Listeners -> ListenerStates]
        /\ \A t \in ServiceNames \ {s} : \A l \in ListenersOf(t) : listener'[l] = listener[l]
    BY <1>0, <2>3 DEF TypeOKServices, ListenerStates, ListenersOf
  <2>5. TypeOKServices'
    <3>1. ASSUME NEW t \in ServiceNames, phase'[t] \in {"down", "connect", "ensure", "launch"}
          PROVE  ~ ready'[t] /\ \A l \in ListenersOf(t) : listener'[l] = "none"
      BY <1>0, <2>2, <2>3, <2>4, <3>1 DEF TypeOKServices
    <3> QED
      BY <1>0, <2>2, <2>3, <2>4, <3>1 DEF TypeOKServices
  <2>6. StreamMade'
    BY <1>0, <2>2, <2>3 DEF StreamMade, ServiceNames
  <2>7. ShutInOrder'
    BY <1>0, <2>2, <2>3, ListenerFacts DEF ShutInOrder, ServiceNames, Api
  <2> QED
    BY <2>5, <2>6, <2>7 DEF ServicesInv
<1>4. CASE Announce(s)
  <2> DEFINE next == IF s = "gateway" THEN "serve" ELSE "consume"
  <2>1. /\ next \in Phases[s] /\ next \in {"serve", "consume"}
        /\ next = "serve" => s = "gateway"
    BY DEF ServiceNames, Phases
  <2>2. /\ phase[s] = "announce" /\ To(s, next)
        /\ ready' \in [ServiceNames -> BOOLEAN]
        /\ \A t \in ServiceNames \ {s} : ready'[t] = ready[t]
        /\ UNCHANGED <<env, cancelled, listener, broker, stream, faults>>
    BY <1>0, <1>4 DEF Announce, TypeOKServices
  <2> HIDE DEF next
  <2> QED
    BY <1>0, <2>1, <2>2, GoesOnInv DEF TypeOKServices
<1> QED
  BY <1>1, <1>2, <1>3, <1>4

LEMMA GatewayRunsInv == ASSUME ServicesInv, GatewayRuns PROVE ServicesInv'
<1>0. TypeOKServices /\ StreamMade /\ ShutInOrder /\ "gateway" \in ServiceNames
  BY DEF ServicesInv, ServiceNames
<1>1. CASE Connect("gateway") \/ Launch("gateway") \/ Announce("gateway")
  BY <1>0, <1>1, StartUpInv
<1>2. CASE EnsureStream
  <2>1. CASE broker /\ To("gateway", "launch") /\ stream' = TRUE
             /\ UNCHANGED <<env, cancelled, ready, listener, broker, faults>>
    <3>1. "launch" \in Phases["gateway"] /\ phase["gateway"] = "ensure"
      BY <1>2 DEF Phases, EnsureStream
    <3> QED
      BY <1>0, <2>1, <3>1, GoesOnInv DEF TypeOKServices
  <2>2. CASE End("gateway") /\ (UNCHANGED stream \/ stream' = TRUE)
             /\ UNCHANGED <<env, broker, faults>>
    <3>1. stream' \in BOOLEAN /\ (stream => stream')
      <4>1. CASE stream' = stream
        BY <1>0, <4>1 DEF TypeOKServices
      <4>2. CASE stream' = TRUE
        BY <4>2
      <4> QED
        BY <2>2, <4>1, <4>2
    <3>2. broker' \in BOOLEAN /\ env' = env /\ faults' \in 0 .. MaxFaults
      BY <1>0, <2>2 DEF TypeOKServices
    <3> QED
      BY <1>0, <2>2, <3>1, <3>2, EndInv
  <2> QED
    BY <1>2, <2>1, <2>2 DEF EnsureStream
<1>3. CASE NotReady
  <2>1. "shutdown" \in Phases["gateway"]
    BY DEF Phases
  <2>2. /\ phase["gateway"] = "serve" /\ To("gateway", "shutdown")
        /\ ready' \in [ServiceNames -> BOOLEAN] /\ ~ ready'["gateway"]
        /\ \A t \in ServiceNames \ {"gateway"} : ready'[t] = ready[t]
        /\ UNCHANGED <<env, cancelled, listener, broker, stream, faults>>
    BY <1>0, <1>3 DEF NotReady, TypeOKServices
  <2> QED
    BY <1>0, <2>1, <2>2, GoesOnInv DEF TypeOKServices
<1>4. CASE Shutdown
  <2>1. "stopping" \in Phases["gateway"]
    BY DEF Phases
  <2>2. /\ phase' \in [ServiceNames -> Phases.gateway \cup Phases.worker]
        /\ \A t \in ServiceNames : phase'[t] \in Phases[t]
        /\ phase'["gateway"] = "stopping"
        /\ \A t \in ServiceNames \ {"gateway"} : phase'[t] = phase[t]
        /\ phase["gateway"] = "shutdown"
    BY <1>0, <1>4, <2>1, ToFacts DEF Shutdown
  <2>3. /\ listener' \in [Listeners -> ListenerStates]
        /\ \A l \in Listeners \ {Api} : listener'[l] = listener[l]
        /\ UNCHANGED <<env, cancelled, ready, broker, stream, faults>>
    BY <1>0, <1>4 DEF Shutdown, Closed, TypeOKServices, ListenerStates
  <2>4. TypeOKServices'
    <3>1. ASSUME NEW t \in ServiceNames, phase'[t] \in {"down", "connect", "ensure", "launch"}
          PROVE  ~ ready'[t] /\ \A l \in ListenersOf(t) : listener'[l] = "none"
      <4>1. t = "worker" /\ phase[t] = phase'[t]
        BY <2>2, <3>1 DEF ServiceNames
      <4> QED
        BY <1>0, <2>3, <3>1, <4>1, ListenerFacts DEF TypeOKServices, ListenersOf
    <3> QED
      BY <1>0, <2>2, <2>3, <3>1 DEF TypeOKServices
  <2> QED
    BY <1>0, <2>2, <2>3, <2>4 DEF ServicesInv, StreamMade, ShutInOrder, ServiceNames
<1>5. CASE Exit
  BY <1>0, <1>5, EndInv DEF Exit, TypeOKServices
<1> QED
  BY <1>1, <1>2, <1>3, <1>4, <1>5 DEF GatewayRuns

LEMMA WorkerRunsInv == ASSUME ServicesInv, WorkerRuns PROVE ServicesInv'
<1>0. TypeOKServices /\ StreamMade /\ ShutInOrder /\ "worker" \in ServiceNames
  BY DEF ServicesInv, ServiceNames
<1>1. CASE Connect("worker") \/ Launch("worker") \/ Announce("worker")
  BY <1>0, <1>1, StartUpInv
<1>2. CASE Consume
  <2>1. CASE stream /\ To("worker", "serve") /\ Unmoved
    <3>1. "serve" \in Phases["worker"] /\ phase["worker"] = "consume"
      BY <1>2 DEF Phases, Consume
    <3> QED
      BY <1>0, <2>1, <3>1, GoesOnInv DEF Unmoved, TypeOKServices
  <2>2. CASE End("worker") /\ UNCHANGED <<env, config, broker, stream, faults>>
    BY <1>0, <2>2, EndInv DEF TypeOKServices
  <2> QED
    BY <1>2, <2>1, <2>2 DEF Consume
<1>3. CASE WorkerStops
  BY <1>0, <1>3, EndInv DEF WorkerStops, TypeOKServices
<1> QED
  BY <1>1, <1>2, <1>3 DEF WorkerRuns

LEMMA GoroutinesInv == ASSUME ServicesInv, Goroutines PROVE ServicesInv' /\ phase' = phase
<1>0. TypeOKServices /\ StreamMade /\ ShutInOrder
  BY DEF ServicesInv
<1>1. ASSUME NEW l \in Listeners, NEW new \in ListenerStates \ {"none"}, SetListener(l, new),
             listener[l] # "none", l # Api \/ new # "closed"
      PROVE  ServicesInv' /\ phase' = phase
  <2>1. /\ listener' = [listener EXCEPT ![l] = new]
        /\ UNCHANGED <<env, phase, cancelled, ready, broker, stream, faults>>
    BY <1>1 DEF SetListener
  <2>2. TypeOKServices'
    <3>1. ASSUME NEW t \in ServiceNames, phase'[t] \in {"down", "connect", "ensure", "launch"}
          PROVE  ~ ready'[t] /\ \A k \in ListenersOf(t) : listener'[k] = "none"
      <4>1. ~ ready[t] /\ \A k \in ListenersOf(t) : listener[k] = "none"
        BY <1>0, <2>1, <3>1 DEF TypeOKServices
      <4>2. l \notin ListenersOf(t)
        BY <1>1, <4>1
      <4> QED
        BY <1>0, <2>1, <4>1, <4>2 DEF TypeOKServices, ListenersOf
    <3>2. listener' \in [Listeners -> ListenerStates]
      BY <1>0, <2>1 DEF TypeOKServices
    <3> QED
      BY <1>0, <2>1, <3>1, <3>2 DEF TypeOKServices
  <2>3. StreamMade'
    BY <1>0, <2>1 DEF StreamMade
  <2>4. ShutInOrder'
    BY <1>0, <1>1, <2>1, ListenerFacts DEF ShutInOrder, TypeOKServices
  <2> QED
    BY <2>1, <2>2, <2>3, <2>4 DEF ServicesInv
<1>2. ASSUME NEW l \in Listeners, Listen(l) PROVE ServicesInv' /\ phase' = phase
  <2> DEFINE new == IF Refused(l) THEN "failed" ELSE "listening"
  <2>1. listener[l] = "starting" /\ SetListener(l, new)
    BY <1>2 DEF Listen
  <2>2. new \in ListenerStates \ {"none", "closed"}
    BY DEF ListenerStates
  <2> QED
    BY <1>1, <2>1, <2>2
<1>3. ASSUME NEW s \in ServiceNames, HealthCloses(s) PROVE ServicesInv' /\ phase' = phase
  <2>1. Health(s) \in Listeners /\ Health(s) # Api
    BY ListenerFacts DEF ListenersOf
  <2> QED
    BY <1>1, <1>3, <2>1 DEF HealthCloses, ListenerStates
<1> QED
  BY <1>2, <1>3 DEF Goroutines

LEMMA NextServicesInv == ASSUME ServicesInv, NextServices PROVE ServicesInv' /\ (stream => stream')
<1>0. TypeOKServices /\ StreamMade /\ ShutInOrder
  BY DEF ServicesInv
<1>1. stream => stream'
  <2>1. Goroutines => UNCHANGED stream
    BY DEF Goroutines, Listen, HealthCloses, SetListener
  <2> QED
    BY <2>1 DEF NextServices, GatewayRuns, WorkerRuns, Start, Cancel, Crash, Connect,
                EnsureStream, Launch, Announce, Consume, WorkerStops, NotReady, Shutdown, Exit,
                BrokerFails, BrokerRecovers, Unmoved
<1>2. ASSUME NEW s \in ServiceNames, Start(s) PROVE ServicesInv'
  BY <1>2, StartUpInv
<1>3. ASSUME NEW s \in ServiceNames, Cancel(s) PROVE ServicesInv'
  <2>1. faults' \in 0 .. MaxFaults
    BY <1>0, <1>3, SystemAssumption DEF Cancel, Fault, TypeOKServices
  <2> QED
    BY <1>0, <1>3, <2>1 DEF Cancel, ServicesInv, TypeOKServices, StreamMade, ShutInOrder
<1>4. ASSUME NEW s \in ServiceNames, Crash(s) PROVE ServicesInv'
  <2>1. faults' \in 0 .. MaxFaults
    BY <1>0, <1>4, SystemAssumption DEF Crash, Fault, TypeOKServices
  <2> QED
    BY <1>0, <1>4, <2>1, EndInv DEF Crash, TypeOKServices
<1>5. CASE BrokerFails \/ BrokerRecovers
  <2>1. faults' \in 0 .. MaxFaults
    BY <1>0, <1>5, SystemAssumption DEF BrokerFails, BrokerRecovers, Fault, TypeOKServices
  <2> QED
    BY <1>0, <1>5, <2>1 DEF BrokerFails, BrokerRecovers, ServicesInv, TypeOKServices,
                            StreamMade, ShutInOrder
<1> QED
  BY <1>1, <1>2, <1>3, <1>4, <1>5, GatewayRunsInv, WorkerRunsInv, GoroutinesInv DEF NextServices

(***************************************************************************)
(* The notifications.                                                      *)
(***************************************************************************)
\* Nothing is asked of the gateway or taken by it before the stream exists.
TakenAfterStream ==
  requests # {} \/ accepted # {} \/ (\E x \in Notifications : place[x] # "none") => stream

\* The stream has as many messages of a notification as the gateway has had
\* stored, one at least of what it holds no longer because it was confirmed.
StoredAsSent ==
  \A x \in Notifications :
    /\ x \in accepted => place[x] # "none"
    /\ place[x] = "confirmed" => copies[x] > 0
    /\ \A i \in 1 .. MaxCopies : state[<<x, i>>] # "absent" <=> i <= copies[x]

\* A worker acks after the last channel, and nothing becomes unsettled.
AckedByAll == \A m \in Messages : state[m] = "acked" => settled[m] = Targets

SystemInv == TypeOK /\ ServicesInv /\ TakenAfterStream /\ StoredAsSent /\ AckedByAll

LEMMA InitSystemInv == Init => SystemInv
<1> SUFFICES ASSUME Init PROVE SystemInv
  OBVIOUS
<1>1. TypeOKServices
  <2>1. \A s \in ServiceNames : "down" \in Phases[s]
    BY DEF ServiceNames, Phases
  <2>2. "down" \in Phases.gateway
    BY DEF Phases
  <2>3. faults \in 0 .. MaxFaults
    BY SystemAssumption DEF Init, InitServices
  <2>4. /\ listener \in [Listeners -> ListenerStates]
        /\ \A s \in ServiceNames : \A l \in ListenersOf(s) : listener[l] = "none"
    BY DEF Init, InitServices, ListenerStates, ListenersOf
  <2> QED
    BY <2>1, <2>2, <2>3, <2>4 DEF Init, InitServices, TypeOKServices
<1>2. ServicesInv
  BY <1>1, ListenerFacts DEF Init, InitServices, ServicesInv, StreamMade, ShutInOrder, ServiceNames
<1>3. TypeOK
  BY <1>1, SystemAssumption DEF Init, TypeOK, Gateway!Init, Delivery!Init
<1>4. TakenAfterStream
  BY DEF Init, TakenAfterStream, Gateway!Init
<1>5. StoredAsSent
  BY SystemAssumption DEF Init, StoredAsSent, Gateway!Init, Delivery!Init, Messages
<1>6. AckedByAll
  BY DEF Init, AckedByAll, Delivery!Init
<1> QED
  BY <1>2, <1>3, <1>4, <1>5, <1>6 DEF SystemInv

LEMMA LivingInv == ASSUME SystemInv, Living(NextServices) PROVE SystemInv'
<1>0. TypeOK /\ ServicesInv /\ TakenAfterStream /\ StoredAsSent /\ AckedByAll
  BY DEF SystemInv
<1>1. ServicesInv' /\ (stream => stream') /\ UNCHANGED streamVars
  BY <1>0, NextServicesInv DEF Living
<1>2. /\ requests' \subseteq requests /\ copies' = copies /\ accepted' = accepted
      /\ place' \in [Notifications -> {"none", "held", "confirmed", "lost"}]
      /\ \A x \in Notifications :
           /\ place'[x] = "none" <=> place[x] = "none"
           /\ place'[x] = "confirmed" <=> place[x] = "confirmed"
      /\ phase'["gateway"] = "down" =>
           requests' = {} /\ \A x \in Notifications : place'[x] # "held"
  <2>1. CASE phase["gateway"] # "down" /\ phase'["gateway"] = "down"
    BY <1>0, <2>1 DEF Living, Gateway!Stop, TypeOK
  <2>2. CASE ~ (phase["gateway"] # "down" /\ phase'["gateway"] = "down")
    BY <1>0, <2>2 DEF Living, gatewayVars, TypeOK
  <2> QED
    BY <2>1, <2>2
<1>3. TypeOK'
  BY <1>0, <1>1, <1>2 DEF TypeOK, ServicesInv, streamVars
<1>4. TakenAfterStream'
  BY <1>0, <1>1, <1>2 DEF TakenAfterStream
<1>5. StoredAsSent' /\ AckedByAll'
  BY <1>0, <1>1, <1>2 DEF StoredAsSent, AckedByAll, streamVars
<1> QED
  BY <1>1, <1>3, <1>4, <1>5 DEF SystemInv

\* The flow leaves the services alone.
LEMMA ServicesUndisturbed ==
  ASSUME ServicesInv, UNCHANGED serviceVars PROVE ServicesInv'
BY DEF ServicesInv, serviceVars, TypeOKServices, StreamMade, ShutInOrder

LEMMA MessageFacts ==
  /\ \A x \in Notifications : \A i \in 1 .. MaxCopies : <<x, i>> \in Messages
  /\ \A x, y, i, j : <<x, i>> = <<y, j>> => x = y /\ i = j
BY DEF Messages

LEMMA NotificationInv ==
  ASSUME SystemInv, NEW x \in Notifications,
         Receive(x) \/ Push(x) \/ Answer(x) \/ Publish(x)
  PROVE  SystemInv'
<1>0. TypeOK /\ ServicesInv /\ TakenAfterStream /\ StoredAsSent /\ AckedByAll /\ TypeOKServices
  BY DEF SystemInv, ServicesInv
<1>1. UNCHANGED serviceVars /\ ServicesInv' /\ TypeOKServices'
  BY <1>0, ServicesUndisturbed DEF Receive, Push, Answer, Publish, ServicesInv
<1>2. CASE Receive(x)
  <2>1. phase["gateway"] \in {"announce", "serve", "shutdown", "stopping"}
    BY <1>0, <1>2, ListenerFacts DEF Receive, TypeOKServices, ServiceNames, Phases
  <2>2. stream
    BY <1>0, <2>1 DEF ServicesInv, StreamMade
  <2> QED
    BY <1>0, <1>1, <1>2, <2>1, <2>2 DEF Receive, SystemInv, TypeOK, TakenAfterStream, StoredAsSent,
                                       AckedByAll, serviceVars, gatewayVars, streamVars
<1>3. CASE Push(x)
  <2>1. stream /\ phase["gateway"] # "down"
    BY <1>0, <1>3 DEF Push, TakenAfterStream, TypeOK
  <2>2. place[x] = "none" /\ place' = [place EXCEPT ![x] = "held"]
        /\ UNCHANGED <<requests, copies, accepted, state, settled>>
    BY <1>3 DEF Push, Gateway!Take, streamVars
  <2> QED
    BY <1>0, <1>1, <2>1, <2>2 DEF SystemInv, TypeOK, TakenAfterStream, StoredAsSent, AckedByAll,
                                       serviceVars
<1>4. CASE Answer(x)
  <2>1. stream
    BY <1>0, <1>4 DEF Answer, TakenAfterStream
  <2>2. place[x] # "none" /\ accepted' = accepted \cup {x} /\ requests' = requests \ {x}
        /\ UNCHANGED <<place, copies, state, settled>>
    BY <1>4 DEF Answer, Gateway!Accept, streamVars
  <2> QED
    BY <1>0, <1>1, <2>1, <2>2 DEF SystemInv, TypeOK, TakenAfterStream, StoredAsSent, AckedByAll,
                                       serviceVars
<1>5. CASE Publish(x)
  <2> DEFINE m == <<x, copies[x] + 1>>
  <2>1. /\ place[x] = "held" /\ copies[x] < MaxCopies
        /\ copies' = [copies EXCEPT ![x] = @ + 1]
        /\ place' \in {place, [place EXCEPT ![x] = "confirmed"]}
        /\ state' = [state EXCEPT ![m] = "stored"]
        /\ UNCHANGED <<requests, accepted, settled>>
    <3>1. \E confirmed \in BOOLEAN : Gateway!Store(x, confirmed) /\ Delivery!Store(m)
      BY <1>5 DEF Publish
    <3>2. place[x] = "held" /\ place' \in {place, [place EXCEPT ![x] = "confirmed"]}
      BY <1>0, <3>1 DEF Gateway!Store, TypeOK
    <3> QED
      BY <1>5, <3>1, <3>2 DEF Publish, Gateway!Store, Delivery!Store, Delivery!Move
  <2>2. copies[x] \in 0 .. MaxCopies /\ copies[x] + 1 \in 1 .. MaxCopies /\ m \in Messages
    BY <1>0, <2>1, SystemAssumption DEF TypeOK, Messages
  <2>3. TypeOK'
    BY <1>0, <1>1, <2>1, <2>2, SystemAssumption DEF TypeOK, serviceVars
  <2>4. TakenAfterStream'
    BY <1>0, <1>1, <2>1 DEF TakenAfterStream, serviceVars
  <2>5. ASSUME NEW y \in Notifications, NEW i \in 1 .. MaxCopies
        PROVE  state'[<<y, i>>] # "absent" <=> i <= copies'[y]
    <3>1. <<y, i>> \in Messages /\ (<<y, i>> = m <=> y = x /\ i = copies[x] + 1)
      BY MessageFacts
    <3>2. state'[<<y, i>>] = IF y = x /\ i = copies[x] + 1 THEN "stored" ELSE state[<<y, i>>]
      BY <1>0, <2>1, <2>2, <3>1 DEF TypeOK
    <3>3. copies'[y] = IF y = x THEN copies[x] + 1 ELSE copies[y]
      BY <1>0, <2>1 DEF TypeOK
    <3>4. (state[<<y, i>>] # "absent" <=> i <= copies[y]) /\ i \in Int /\ copies[x] \in Int
      BY <1>0, <2>2 DEF StoredAsSent
    <3> QED
      BY <3>2, <3>3, <3>4
  <2>6. ASSUME NEW y \in Notifications
        PROVE  /\ y \in accepted' => place'[y] # "none"
               /\ place'[y] = "confirmed" => copies'[y] > 0
    <3>1. place'[y] = place[y] \/ (y = x /\ place'[y] = "confirmed")
      <4>1. CASE place' = place
        BY <4>1
      <4>2. CASE place' = [place EXCEPT ![x] = "confirmed"]
        BY <1>0, <4>2 DEF TypeOK
      <4> QED
        BY <2>1, <4>1, <4>2
    <3>2. copies'[y] = IF y = x THEN copies[x] + 1 ELSE copies[y]
      BY <1>0, <2>1 DEF TypeOK
    <3> QED
      BY <1>0, <2>1, <2>2, <3>1, <3>2 DEF StoredAsSent
  <2>7. AckedByAll'
    BY <1>0, <2>1, <2>2 DEF AckedByAll, TypeOK
  <2> QED
    BY <1>1, <2>3, <2>4, <2>5, <2>6, <2>7 DEF SystemInv, StoredAsSent
<1> QED
  BY <1>2, <1>3, <1>4, <1>5

LEMMA MessageInv ==
  ASSUME SystemInv, NEW m \in Messages, Deliver(m) \/ Ack(m) \/ Expire(m)
  PROVE  SystemInv'
<1>0. TypeOK /\ ServicesInv /\ TakenAfterStream /\ StoredAsSent /\ AckedByAll
  BY DEF SystemInv
<1>1. UNCHANGED serviceVars /\ ServicesInv' /\ UNCHANGED <<requests, place, copies, accepted>>
  BY <1>0, ServicesUndisturbed DEF Deliver, Ack, Expire, gatewayVars
<1>2. /\ state' \in [Messages -> {"absent", "stored", "acked", "expired"}]
      /\ settled' \in [Messages -> SUBSET Targets]
      /\ \A n \in Messages : state'[n] = "absent" <=> state[n] = "absent"
  <2>1. CASE Deliver(m)
    <3>1. PICK k \in Targets : settled' = [settled EXCEPT ![m] = @ \cup {k}] /\ state' = state
      BY <2>1 DEF Deliver, Delivery!Settle
    <3> QED
      BY <1>0, <3>1 DEF TypeOK
  <2>2. CASE Ack(m) \/ Expire(m)
    BY <1>0, <2>2 DEF Ack, Expire, Delivery!Ack, Delivery!Expire, Delivery!Move, TypeOK
  <2> QED
    BY <2>1, <2>2
<1>3. TypeOK'
  BY <1>0, <1>1, <1>2 DEF TypeOK, ServicesInv, serviceVars
<1>4. TakenAfterStream'
  BY <1>0, <1>1 DEF TakenAfterStream, serviceVars
<1>5. StoredAsSent'
  BY <1>0, <1>1, <1>2, MessageFacts DEF StoredAsSent
<1>6. AckedByAll'
  <2>1. CASE Deliver(m)
    <3>1. state[m] = "stored" /\ UNCHANGED state
          /\ \A n \in Messages \ {m} : settled'[n] = settled[n]
      BY <1>0, <2>1 DEF Deliver, Delivery!Settle, TypeOK
    <3> QED
      BY <1>0, <3>1 DEF AckedByAll
  <2>2. CASE Ack(m)
    BY <1>0, <2>2 DEF Ack, Delivery!Ack, Delivery!Move, AckedByAll, TypeOK
  <2>3. CASE Expire(m)
    BY <1>0, <2>3 DEF Expire, Delivery!Expire, Delivery!Move, AckedByAll, TypeOK
  <2> QED
    BY <2>1, <2>2, <2>3
<1> QED
  BY <1>1, <1>3, <1>4, <1>5, <1>6 DEF SystemInv

LEMMA NextSystemInv == SystemInv /\ [Next]_vars => SystemInv'
<1> SUFFICES ASSUME SystemInv, [Next]_vars PROVE SystemInv'
  OBVIOUS
<1>1. CASE UNCHANGED vars
  <2>1. ServicesInv'
    BY <1>1, ServicesUndisturbed DEF vars, SystemInv
  <2> QED
    BY <1>1, <2>1 DEF vars, serviceVars, flowVars, gatewayVars, streamVars, SystemInv, ServicesInv,
                      TypeOK, TakenAfterStream, StoredAsSent, AckedByAll
<1> QED
  BY <1>1, LivingInv, NotificationInv, MessageInv DEF Next

(***************************************************************************)
(* The configuration.                                                      *)
(***************************************************************************)
\* What Load decodes into the field at path, which is known because
\* bindStructKeys walks the nested structs too.
Got(prefix, struct, file, environment, path) ==
  IF InEnv(environment, EnvName(prefix, path)) THEN Text(environment[EnvName(prefix, path)])
  ELSE IF path \in DOMAIN file.content THEN file.content[path]
  ELSE FieldAt(struct, path)

Gathered(prefix, struct, file, environment) ==
  [path \in Paths(struct) |-> Got(prefix, struct, file, environment, path)]

\* Unmarshal, of one scalar for each field.
Unmarshalled(struct, got) ==
  IF \E path \in Paths(struct) : ~ Decodes(Kind(FieldAt(struct, path)), got[path])
  THEN Error
  ELSE Loaded([path \in Paths(struct) |-> Decoded(Kind(FieldAt(struct, path)), got[path])])

LEMMA LoadUnmarshals ==
  ASSUME NEW prefix, NEW struct, NEW file, NEW environment
  PROVE  Load(prefix, struct, file, environment)
           = IF file.status \in {"missing", "malformed"}
             THEN Error
             ELSE Unmarshalled(struct, Gathered(prefix, struct, file, environment))
<1> DEFINE bound == BindStructKeys(struct)
           known == DOMAIN bound \cup (DOMAIN file.content \cap Paths(struct))
           Get(path) == IF InEnv(environment, EnvName(prefix, path))
                        THEN Text(environment[EnvName(prefix, path)])
                        ELSE IF path \in DOMAIN file.content THEN file.content[path]
                        ELSE bound[path]
           kind(path) == Kind(FieldAt(struct, path))
           got == Gathered(prefix, struct, file, environment)
<1>1. known = Paths(struct)
  BY DEF BindStructKeys
<1>2. \A path \in Paths(struct) : Get(path) = got[path]
  BY DEF BindStructKeys, Got, Gathered
<1>3. Load(prefix, struct, file, environment)
        = IF \/ file.status \in {"missing", "malformed"}
             \/ \E path \in known : ~ Decodes(kind(path), Get(path))
          THEN Error
          ELSE Loaded([path \in Paths(struct) |->
                         IF path \in known THEN Decoded(kind(path), Get(path))
                                           ELSE Value(FieldAt(struct, path))])
  BY DEF Load
<1>4. Unmarshalled(struct, got)
        = IF \E path \in Paths(struct) : ~ Decodes(kind(path), got[path])
          THEN Error
          ELSE Loaded([path \in Paths(struct) |-> Decoded(kind(path), got[path])])
  BY DEF Unmarshalled
<1> HIDE DEF known, Get, kind, got
<1>5. (\E path \in known : ~ Decodes(kind(path), Get(path)))
        <=> (\E path \in Paths(struct) : ~ Decodes(kind(path), got[path]))
  BY <1>1, <1>2
<1>6. [path \in Paths(struct) |-> IF path \in known THEN Decoded(kind(path), Get(path))
                                                    ELSE Value(FieldAt(struct, path))]
        = [path \in Paths(struct) |-> Decoded(kind(path), got[path])]
  BY <1>1, <1>2
<1>7. Load(prefix, struct, file, environment)
        = IF file.status \in {"missing", "malformed"} THEN Error ELSE Unmarshalled(struct, got)
  BY <1>3, <1>4, <1>5, <1>6
<1> QED
  BY <1>7 DEF got

\* One scalar in another's place changes its field, or is an error.
LEMMA UnmarshalOneMore ==
  ASSUME NEW struct, NEW path \in Paths(struct), NEW scalar, NEW got, NEW new,
         new[path] = scalar,
         \A q \in Paths(struct) : q # path => new[q] = got[q],
         Unmarshalled(struct, got).ok
  PROVE  Unmarshalled(struct, new) = Updated(Unmarshalled(struct, got), struct, path, scalar)
<1> DEFINE kind(q) == Kind(FieldAt(struct, q))
           value   == [q \in Paths(struct) |-> Decoded(kind(q), got[q])]
<1>1. /\ \A q \in Paths(struct) : Decodes(kind(q), got[q])
      /\ Unmarshalled(struct, got) = Loaded(value)
  BY DEF Unmarshalled, Error
<1>2. Unmarshalled(struct, got).value = value
  BY <1>1 DEF Loaded
<1>3. CASE Decodes(kind(path), scalar)
  <2>1. [q \in Paths(struct) |-> Decoded(kind(q), new[q])]
          = [value EXCEPT ![path] = Decoded(kind(path), scalar)]
    OBVIOUS
  <2>2. Unmarshalled(struct, new) = Loaded([q \in Paths(struct) |-> Decoded(kind(q), new[q])])
    BY <1>1, <1>3 DEF Unmarshalled
  <2> QED
    BY <1>2, <1>3, <2>1, <2>2 DEF Updated
<1>4. CASE ~ Decodes(kind(path), scalar)
  BY <1>4 DEF Unmarshalled, Updated
<1> QED
  BY <1>3, <1>4

\* Whatever the struct is, as long as its fields have names of their own, and
\* whatever the file and the environment are: a variable decides its field, a
\* line of the file yields to the variable, and neither touches another field.
THEOREM PriorityForEveryStruct ==
  \A prefix, struct, file, environment : NamesDiffer(prefix, struct) =>
    /\ DefaultsStay(prefix, struct)
    /\ \A path \in Paths(struct) :
         /\ \A text : text # "" => VariableDecides(prefix, struct, file, environment, path, text)
         /\ \A scalar : FileYields(prefix, struct, file, environment, path, scalar)
<1> SUFFICES ASSUME NEW prefix, NEW struct, NEW file, NEW environment,
                    NamesDiffer(prefix, struct)
             PROVE  /\ DefaultsStay(prefix, struct)
                    /\ \A path \in Paths(struct) :
                         /\ \A text : text # "" =>
                              VariableDecides(prefix, struct, file, environment, path, text)
                         /\ \A scalar :
                              FileYields(prefix, struct, file, environment, path, scalar)
  OBVIOUS
<1> DEFINE got    == Gathered(prefix, struct, file, environment)
           before == Load(prefix, struct, file, environment)
<1>1. before.ok => /\ file.status \notin {"missing", "malformed"}
                   /\ before = Unmarshalled(struct, got)
  BY LoadUnmarshals DEF Error
<1>2. DefaultsStay(prefix, struct)
  <2> DEFINE defaults == Gathered(prefix, struct, NoFile, <<>>)
  <2>1. DOMAIN NoFile.content = {} /\ NoFile.status = "none"
    BY DEF NoFile, File
  <2>2. \A path \in Paths(struct) : defaults[path] = FieldAt(struct, path)
    BY <2>1 DEF Gathered, Got, InEnv
  <2>3. ASSUME NEW field
        PROVE  Decodes(Kind(field), field) /\ Decoded(Kind(field), field) = Value(field)
    BY DEF Decodes, Decoded
  <2> HIDE DEF defaults
  <2>4. Unmarshalled(struct, defaults)
          = Loaded([path \in Paths(struct) |-> Value(FieldAt(struct, path))])
    BY <2>2, <2>3 DEF Unmarshalled
  <2> QED
    BY <2>1, <2>4, LoadUnmarshals DEF DefaultsStay, defaults
<1>3. ASSUME NEW path \in Paths(struct), NEW text, text # ""
      PROVE  VariableDecides(prefix, struct, file, environment, path, text)
  <2> DEFINE name  == EnvName(prefix, path)
             with  == Put(environment, name, text)
             new   == Gathered(prefix, struct, file, with)
  <2>1. /\ InEnv(with, name) /\ with[name] = text
        /\ \A other : other # name =>
             /\ InEnv(with, other) <=> InEnv(environment, other)
             /\ InEnv(environment, other) => with[other] = environment[other]
    BY <1>3 DEF Put, InEnv
  <2> HIDE DEF with
  <2>2. new[path] = Text(text)
    BY <2>1 DEF Gathered, Got
  <2>3. \A q \in Paths(struct) : q # path => new[q] = got[q]
    BY <2>1 DEF NamesDiffer, Gathered, Got
  <2> HIDE DEF new, got, before
  <2>4. before.ok => Load(prefix, struct, file, with)
                       = Updated(before, struct, path, Text(text))
    <3> SUFFICES ASSUME before.ok
                 PROVE  Load(prefix, struct, file, with)
                          = Updated(before, struct, path, Text(text))
      OBVIOUS
    <3>1. Load(prefix, struct, file, with) = Unmarshalled(struct, new)
      BY <1>1, LoadUnmarshals DEF new
    <3> QED
      BY <1>1, <2>2, <2>3, <3>1, UnmarshalOneMore
  <2> QED
    BY <2>4 DEF VariableDecides, before, with
<1>4. ASSUME NEW path \in Paths(struct), NEW scalar
      PROVE  FileYields(prefix, struct, file, environment, path, scalar)
  <2> DEFINE name == EnvName(prefix, path)
             with == File("read", Put(file.content, path, scalar))
             new  == Gathered(prefix, struct, with, environment)
  <2>1. /\ with.status = "read" /\ path \in DOMAIN with.content /\ with.content[path] = scalar
        /\ \A q : q # path => /\ q \in DOMAIN with.content <=> q \in DOMAIN file.content
                              /\ q \in DOMAIN file.content => with.content[q] = file.content[q]
    BY DEF File, Put
  <2> HIDE DEF with
  <2>2. \A q \in Paths(struct) : q # path => new[q] = got[q]
    BY <2>1 DEF Gathered, Got
  <2>3. InEnv(environment, name) => new[path] = got[path]
    BY <2>1 DEF Gathered, Got
  <2>4. ~ InEnv(environment, name) => new[path] = scalar
    BY <2>1 DEF Gathered, Got
  <2>5. InEnv(environment, name) => new = got
    BY <2>2, <2>3 DEF Gathered
  <2>6. Load(prefix, struct, with, environment) = Unmarshalled(struct, new)
    BY <2>1, LoadUnmarshals
  <2> HIDE DEF new, got, before, name
  <2>7. before.ok => Load(prefix, struct, with, environment)
                       = IF InEnv(environment, name) THEN before
                         ELSE Updated(before, struct, path, scalar)
    BY <1>1, <2>2, <2>4, <2>5, <2>6, UnmarshalOneMore
  <2> QED
    BY <2>7 DEF FileYields, before, with, name
<1> QED
  BY <1>2, <1>3, <1>4

(***************************************************************************)
(* The theorems.                                                           *)
(***************************************************************************)
\* The types of the whole, and that a gateway that is down holds nothing.
THEOREM SystemTypeOK == Spec => []TypeOK
<1>1. SystemInv => TypeOK
  BY DEF SystemInv
<1> QED
  BY <1>1, InitSystemInv, NextSystemInv, PTL DEF Spec

\* The gateway's Run ends if EnsureStream fails, and the worker's if there is no
\* stream for its consumer: what is ready, accepted or fetched has a stream.
THEOREM StreamIsAlwaysThere == Spec => []StreamIsThere
<1>1. SystemInv => StreamIsThere
  BY DEF SystemInv, ServicesInv, TypeOKServices, StreamMade, TakenAfterStream, StreamIsThere,
         ServiceNames, Phases
<1> QED
  BY <1>1, InitSystemInv, NextSystemInv, PTL DEF Spec

\* A notification answered with 202 has not disappeared while the gateway runs,
\* and has not left the stream by an ack before every channel was dealt with.
THEOREM AcceptedIsAlwaysSomewhere == Spec => []AcceptedIsSomewhere
<1>1. ASSUME SystemInv PROVE AcceptedIsSomewhere
  <2>1. ASSUME NEW x \in Notifications, x \in accepted, place[x] \notin {"held", "lost"}
        PROVE  \E i \in 1 .. MaxCopies : state[<<x, i>>] # "absent"
    <3>1. place[x] = "confirmed" /\ copies[x] \in 1 .. MaxCopies
      BY <1>1, <2>1, SystemAssumption DEF SystemInv, TypeOK, StoredAsSent
    <3>2. 1 \in 1 .. MaxCopies /\ 1 <= copies[x]
      BY <3>1, SystemAssumption
    <3> QED
      BY <1>1, <3>2 DEF SystemInv, StoredAsSent
  <2> QED
    BY <1>1, <2>1, MessageFacts DEF SystemInv, StoredAsSent, AckedByAll, AcceptedIsSomewhere
<1> QED
  BY <1>1, InitSystemInv, NextSystemInv, PTL DEF Spec

\* SetReady(false) comes before the API server is shut down, and stays.
THEOREM NeverReadyOnceClosed == Spec => []NotReadyOnceClosed
<1>1. SystemInv => NotReadyOnceClosed
  BY DEF SystemInv, ServicesInv, ShutInOrder, NotReadyOnceClosed
<1> QED
  BY <1>1, InitSystemInv, NextSystemInv, PTL DEF Spec

\* For any files, environments and values: of both services' structs, a variable
\* decides its field, the file the fields without one, and the defaults the rest.
THEOREM LoadAlwaysFollowsPriority == Spec => []LoadFollowsPriority
<1>1. ASSUME NEW prefix, NEW struct, NamesDiffer(prefix, struct)
      PROVE  FollowsPriority(prefix, struct)
  BY <1>1, PriorityForEveryStruct, TextsAssumption DEF FollowsPriority
<1>2. LoadFollowsPriority
  BY <1>1, NamesAssumption DEF LoadFollowsPriority
<1> QED
  BY <1>2, PTL

\* The two halves keep their promises when they are joined: what the services,
\* the requests and the stream make of them are steps of Outbox and AtLeastOnce.
THEOREM SystemComposes == Spec => Gateway!Spec /\ Delivery!Spec
<1>1. Init => Gateway!Init /\ Delivery!Init
  BY DEF Init
<1>2. SystemInv /\ [Next]_vars => [Gateway!Next]_(Gateway!vars) /\ [Delivery!Next]_(Delivery!vars)
  <2> SUFFICES ASSUME SystemInv, [Next]_vars
               PROVE  [Gateway!Next]_(Gateway!vars) /\ [Delivery!Next]_(Delivery!vars)
    OBVIOUS
  <2>1. CASE Living(NextServices)
    BY <2>1 DEF Living, gatewayVars, streamVars, Gateway!Next, Gateway!vars, Delivery!vars
  <2>2. ASSUME NEW x \in Notifications, Receive(x) \/ Push(x) \/ Answer(x)
        PROVE  [Gateway!Next]_(Gateway!vars) /\ [Delivery!Next]_(Delivery!vars)
    BY <2>2 DEF Receive, Push, Answer, gatewayVars, streamVars, Gateway!Next, Gateway!vars,
                Delivery!vars
  <2>3. ASSUME NEW x \in Notifications, Publish(x)
        PROVE  Gateway!Next /\ Delivery!Next
    <3>1. <<x, copies[x] + 1>> \in Messages
      BY <2>3, SystemAssumption DEF Publish, SystemInv, TypeOK, Messages
    <3>2. \E confirmed \in BOOLEAN : Gateway!Store(x, confirmed)
      BY <2>3 DEF Publish
    <3> QED
      BY <2>3, <3>1, <3>2 DEF Publish, Gateway!Next, Delivery!Next
  <2>4. ASSUME NEW m \in Messages, Deliver(m) \/ Ack(m) \/ Expire(m)
        PROVE  Delivery!Next /\ UNCHANGED Gateway!vars
    BY <2>4 DEF Deliver, Ack, Expire, gatewayVars, Gateway!vars, Delivery!Next
  <2>5. CASE UNCHANGED vars
    BY <2>5 DEF vars, flowVars, gatewayVars, streamVars, Gateway!vars, Delivery!vars
  <2> QED
    BY <2>1, <2>2, <2>3, <2>4, <2>5 DEF Next
<1> QED
  BY <1>1, <1>2, InitSystemInv, NextSystemInv, PTL DEF Spec, Gateway!Spec, Delivery!Spec
=============================================================================
