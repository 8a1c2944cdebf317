------------------------------- MODULE System -------------------------------
(***************************************************************************)
(* The whole: the two services, started, stopped and crashed at any time,  *)
(* with notifications going from a client through the gateway (Outbox),    *)
(* the stream and the worker (AtLeastOnce) to the channels.  The detailed  *)
(* Gateway and Delivery implement these two; here their steps are joined:  *)
(* what the gateway publishes is what the workers' stream stores, and each *)
(* step needs the processes and connections that the code needs for it.    *)
(***************************************************************************)
EXTENDS Services

CONSTANTS Notifications,
          MaxCopies,    \* bound: messages of a notification that are stored
          Targets,      \* the worker's channels
          Files,        \* configuration files, for Load alone, and what may be
          Texts,        \* written in them (Scalars) and in variables (Texts)
          Scalars

ASSUME SystemAssumption == MaxCopies \in Nat /\ MaxFaults \in Nat

ASSUME TextsAssumption == "" \notin Texts

\* Which is so of the two structs as they are.
ASSUME NamesAssumption == /\ NamesDiffer("GATEWAY", GatewayConfig)
                          /\ NamesDiffer("DELIVERY", WorkerConfig)

\* The i-th copy of a notification is a message of its own.
Messages == Notifications \X (1 .. MaxCopies)

VARIABLES requests,                \* received, not answered yet
          place, copies, accepted, \* of the gateway
          state, settled           \* of the stream and the worker

gatewayVars == <<place, copies, accepted>>
streamVars  == <<state, settled>>
flowVars    == <<requests, gatewayVars, streamVars>>
vars        == <<serviceVars, flowVars>>

Gateway  == INSTANCE Outbox WITH Items <- Notifications
Delivery == INSTANCE AtLeastOnce WITH Deliverable <- Messages, Exempt <- {}

TypeOK == /\ TypeOKServices
          /\ requests \subseteq Notifications
          /\ place \in [Notifications -> {"none", "held", "confirmed", "lost"}]
          /\ copies \in [Notifications -> 0 .. MaxCopies]
          /\ accepted \subseteq Notifications
          /\ state \in [Messages -> {"absent", "stored", "acked", "expired"}]
          /\ settled \in [Messages -> SUBSET Targets]
          /\ phase["gateway"] = "down" =>
               requests = {} /\ \A x \in Notifications : place[x] # "held"

Init == InitServices /\ requests = {} /\ Gateway!Init /\ Delivery!Init

(***************************************************************************)
(* The life of the services.  The end of the gateway ends its requests and *)
(* its queue.                                                              *)
(***************************************************************************)
Living(A) == /\ A
             /\ IF phase["gateway"] # "down" /\ phase'["gateway"] = "down"
                THEN requests' = {} /\ Gateway!Stop
                ELSE UNCHANGED <<requests, gatewayVars>>
             /\ UNCHANGED streamVars

(***************************************************************************)
(* The way of a notification.                                              *)
(***************************************************************************)
Receive(x) == /\ listener[Api] = "listening"
              /\ place[x] = "none"
              /\ requests' = requests \cup {x}
              /\ UNCHANGED <<serviceVars, gatewayVars, streamVars>>

Push(x) == /\ x \in requests
           /\ Gateway!Take(x)
           /\ UNCHANGED <<serviceVars, requests, streamVars>>

Answer(x) == /\ x \in requests
             /\ Gateway!Accept(x)
             /\ requests' = requests \ {x}
             /\ UNCHANGED <<serviceVars, streamVars>>

\* Variant for the runs' mutants: Publish does not wait for the stream's answer.
Publish_NoAck(x) == /\ ~ cancelled["gateway"]
                    /\ copies[x] < MaxCopies
                    /\ Gateway!Store(x, TRUE)
                    /\ IF broker /\ stream THEN Delivery!Store(<<x, copies[x] + 1>>)
                                           ELSE UNCHANGED streamVars
                    /\ UNCHANGED <<serviceVars, requests>>

\* The answer may be lost, or come when the context is done.
Publish(x) == /\ broker /\ stream
              /\ copies[x] < MaxCopies
              /\ \/ ~ cancelled["gateway"] /\ Gateway!Store(x, TRUE)
                 \/ copies[x] + 1 < MaxCopies /\ Gateway!Store(x, FALSE)
              /\ Delivery!Store(<<x, copies[x] + 1>>)
              /\ UNCHANGED <<serviceVars, requests>>

Deliver(m) == /\ phase["worker"] = "serve"
              /\ state[m] = "stored"
              /\ \E k \in Targets \ settled[m] : Delivery!Settle(m, k)
              /\ UNCHANGED <<serviceVars, requests, gatewayVars>>

Ack(m) == /\ phase["worker"] = "serve" /\ broker
          /\ Delivery!Ack(m)
          /\ UNCHANGED <<serviceVars, requests, gatewayVars>>

Expire(m) == /\ Delivery!Expire(m)
             /\ UNCHANGED <<serviceVars, requests, gatewayVars>>

Next == \/ Living(NextServices)
        \/ \E x \in Notifications : Receive(x) \/ Push(x) \/ Answer(x) \/ Publish(x)
        \/ \E m \in Messages : Deliver(m) \/ Ack(m) \/ Expire(m)

Spec == Init /\ [][Next]_vars

\* Services are restarted, their goroutines run, and the broker comes back.
\* The gateway publishes what it holds (Gateway's AcceptedIsStored) and the
\* worker goes on (Delivery's fairness).  Faults and requests need not come.
Fairness ==
  /\ \A s \in ServiceNames : WF_vars(Living(Start(s))) /\ WF_vars(Living(HealthCloses(s)))
  /\ \A l \in Listeners : WF_vars(Living(Listen(l)))
  /\ WF_vars(Living(GatewayRuns)) /\ WF_vars(Living(WorkerRuns))
  /\ WF_vars(Living(BrokerRecovers))
  /\ \A x \in Notifications : WF_vars(Push(x)) /\ WF_vars(Answer(x)) /\ WF_vars(Publish(x))
  /\ \A m \in Messages : WF_vars(Deliver(m)) /\ WF_vars(Ack(m))

FairSpec == Spec /\ Fairness
-----------------------------------------------------------------------------
\* What the gateway takes has somewhere to go: before it says ready, receives
\* a request or holds an item, the stream exists, and so it does for a worker
\* that fetches.
StreamIsThere ==
  /\ ready["gateway"] \/ requests # {} \/ accepted # {} => stream
  /\ (\E x \in Notifications : place[x] # "none") \/ phase["worker"] = "serve" => stream

\* A notification answered with 202 is in the gateway's memory, has a message
\* in the stream or had one, or was lost with a gateway that ended; the stream
\* has no message that the gateway has not sent; and a message that left it by
\* an ack has been to every channel.
AcceptedIsSomewhere ==
  \A x \in Notifications :
    /\ x \in accepted =>
         place[x] \in {"held", "lost"} \/ \E i \in 1 .. MaxCopies : state[<<x, i>>] # "absent"
    /\ \A i \in 1 .. MaxCopies :
         /\ state[<<x, i>>] # "absent" => i <= copies[x]
         /\ state[<<x, i>>] = "acked" => settled[<<x, i>>] = Targets

\* The environment gives each service a configuration that it can be started
\* with, the broker's address, and the API a port of its own.
WellConfigured ==
  /\ \A s \in ServiceNames :
       /\ config[s].ok
       /\ Setting(s, <<<<"log", "level">>>>) \in LogLevels
       /\ Setting(s, <<Key("nats"), Key("url")>>) = BrokerURL
  /\ PortOf(Api) \in 1 .. 65535 /\ PortOf(Api) # PortOf(Health("gateway"))

\* In any order of starts, and after crashes, SIGTERMs and outages at any step,
\* both services are up in the end: the worker, whose Run fails as long as the
\* gateway has not made the stream, and the gateway, which listens.
ServicesComeUp ==
  WellConfigured =>
    <>[](ready["gateway"] /\ listener[Api] = "listening" /\ phase["worker"] = "serve")

\* A service told to stop does, whatever step of its start it is at.
StopsWhenTold == \A s \in ServiceNames : cancelled[s] ~> ~ cancelled[s]

\* End to end: what the gateway has taken leaves the stream by an ack, after
\* all channels, or by its age, unless the gateway ended with it.
TakenIsDelivered ==
  \A x \in Notifications :
    WellConfigured /\ place[x] = "held" ~>
      \/ place[x] = "lost"
      \/ \E i \in 1 .. MaxCopies : state[<<x, i>>] \in {"acked", "expired"}

\* config.go:41, variables over the file over the struct's defaults, field by
\* field, for both services' structs with every file and environment here.  Load
\* reads no state, so one state is enough to look at: nothing has started yet.
Untouched == faults = 0 /\ ~ stream /\ \A s \in ServiceNames : phase[s] = "down"

FollowsPriority(prefix, struct) ==
  /\ DefaultsStay(prefix, struct)
  /\ \A file \in Files, path \in Paths(struct) :
       /\ \A text \in Texts : VariableDecides(prefix, struct, file, env, path, text)
       /\ \A scalar \in Scalars : FileYields(prefix, struct, file, env, path, scalar)

LoadFollowsPriority ==
  Untouched => FollowsPriority("GATEWAY", GatewayConfig) /\ FollowsPriority("DELIVERY", WorkerConfig)
=============================================================================
