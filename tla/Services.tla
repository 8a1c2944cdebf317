------------------------------ MODULE Services ------------------------------
(***************************************************************************)
(* The processes: run of cmd/gateway-api/main.go and of                    *)
(* cmd/delivery-worker/main.go from the start to the exit, with the health *)
(* checker (pkg/health), the configuration and natsutil's Connect and      *)
(* EnsureStream.  The HTTP servers' goroutines run on their own.  The      *)
(* broker is external: it may fail and recover, and it keeps its streams.  *)
(***************************************************************************)
EXTENDS Configuration, Naturals

CONSTANTS Environments, \* the environments the services may be started in
          BrokerURL,    \* where the broker listens
          MaxFaults     \* bound: SIGTERMs, crashes and outages of the broker

VARIABLES env,       \* the environment variables
          config,    \* what each service loads from them when it starts
          phase,     \* phase[s]: how far run is
          cancelled, \* cancelled[s]: its context is cancelled
          ready,     \* the flag of its health.Checker
          listener,  \* what became of each HTTP server's goroutine
          broker,    \* the broker is up
          stream,    \* the stream HERALD exists
          faults     \* faults so far (bounded)

serviceVars == <<env, config, phase, cancelled, ready, listener, broker, stream, faults>>

ServiceNames == {"gateway", "worker"}

\* How far run is: "connect", "ensure" (EnsureStream), "launch" (the go
\* statements), "announce" (SetReady(true)), "consume" (CreateOrUpdateConsumer),
\* "serve", "shutdown" and "stopping" (httpServer.Shutdown is to come, has begun).
Phases == [gateway |-> {"down", "connect", "ensure", "launch", "announce", "serve",
                        "shutdown", "stopping"},
           worker  |-> {"down", "connect", "launch", "announce", "consume", "serve"}]

Api == <<"gateway", "api">>
Health(s) == <<s, "health">>
Listeners == {Api} \cup {Health(s) : s \in ServiceNames}
ListenersOf(s) == {l \in Listeners : l[1] = s}

\* http.Server: not started, before its Listen, serving, unable to listen (which
\* is only logged), shut down.
ListenerStates == {"none", "starting", "listening", "failed", "closed"}

Setting(s, path) == config[s].value[path]

PortOf(l) == Setting(l[1], IF l = Api THEN <<<<"http", "port">>>>
                                      ELSE <<<<"metrics", "port">>>>)

TypeOKServices ==
  /\ env \in Environments
  /\ phase \in [ServiceNames -> Phases.gateway \cup Phases.worker]
  /\ \A s \in ServiceNames : phase[s] \in Phases[s]
  /\ cancelled \in [ServiceNames -> BOOLEAN] /\ ready \in [ServiceNames -> BOOLEAN]
  /\ listener \in [Listeners -> ListenerStates]
  /\ \A s \in ServiceNames : phase[s] \in {"down", "connect", "ensure", "launch"} =>
       ~ ready[s] /\ \A l \in ListenersOf(s) : listener[l] = "none"
  /\ broker \in BOOLEAN /\ stream \in BOOLEAN
  /\ faults \in 0 .. MaxFaults

InitServices == /\ env \in Environments
                /\ config = [gateway |-> Load("GATEWAY", GatewayConfig, NoFile, env),
                             worker  |-> Load("DELIVERY", WorkerConfig, NoFile, env)]
                /\ phase = [s \in ServiceNames |-> "down"]
                /\ cancelled = [s \in ServiceNames |-> FALSE]
                /\ ready = [s \in ServiceNames |-> FALSE]
                /\ listener = [l \in Listeners |-> "none"]
                /\ broker = TRUE /\ stream = FALSE
                /\ faults = 0

To(s, p) == phase' = [phase EXCEPT ![s] = p]

\* The process is gone, and its sockets with it.
End(s) == /\ To(s, "down")
          /\ cancelled' = [cancelled EXCEPT ![s] = FALSE]
          /\ ready' = [ready EXCEPT ![s] = FALSE]
          /\ listener' = [l \in Listeners |-> IF l[1] = s THEN "none" ELSE listener[l]]

Unmoved == UNCHANGED <<env, config, cancelled, ready, listener, broker, stream, faults>>

(***************************************************************************)
(* The start.                                                              *)
(***************************************************************************)
LogLevels == {"debug", "info", "warn", "error"}

\* What cannot be loaded, or gives MustLogger no level, ends the process at once.
Start(s) == /\ phase[s] = "down"
            /\ config[s].ok
            /\ Setting(s, <<<<"log", "level">>>>) \in LogLevels
            /\ To(s, "connect")
            /\ Unmoved

\* Variant for the runs' mutants: the service says ready once it is connected.
Connect_Announces(s) ==
  /\ phase[s] = "connect"
  /\ broker /\ Setting(s, <<Key("nats"), Key("url")>>) = BrokerURL
  /\ To(s, IF s = "gateway" THEN "ensure" ELSE "launch")
  /\ ready' = [ready EXCEPT ![s] = TRUE]
  /\ UNCHANGED <<env, config, cancelled, listener, broker, stream, faults>>

\* nats.Connect fails unless the broker answers now; MaxReconnects is about
\* connections that were made once.  Connect ignores its context.  (Its default
\* for an empty URL is out of reach: both services have one by default.)
Connect(s) ==
  /\ phase[s] = "connect"
  /\ IF broker /\ Setting(s, <<Key("nats"), Key("url")>>) = BrokerURL
     THEN To(s, IF s = "gateway" THEN "ensure" ELSE "launch") /\ Unmoved
     ELSE End(s) /\ UNCHANGED <<env, config, broker, stream, faults>>

\* Variant: an error of EnsureStream is only logged.
EnsureStream_Goes ==
  /\ phase["gateway"] = "ensure"
  /\ To("gateway", "launch")
  /\ stream' = (stream \/ broker)
  /\ UNCHANGED <<env, config, cancelled, ready, listener, broker, faults>>

\* A cancellation may come before the request is sent or after.
EnsureStream ==
  /\ phase["gateway"] = "ensure"
  /\ \/ /\ broker /\ ~ cancelled["gateway"]
        /\ To("gateway", "launch")
        /\ stream' = TRUE
        /\ UNCHANGED <<cancelled, ready, listener>>
     \/ /\ ~ broker \/ cancelled["gateway"]
        /\ End("gateway")
        /\ \/ UNCHANGED stream
           \/ broker /\ stream' = TRUE
  /\ UNCHANGED <<env, config, broker, faults>>

\* The go statements: the health server, and the drainer and the API server.
Launch(s) ==
  /\ phase[s] = "launch"
  /\ To(s, "announce")
  /\ listener' = [l \in Listeners |-> IF l[1] = s THEN "starting" ELSE listener[l]]
  /\ UNCHANGED <<env, config, cancelled, ready, broker, stream, faults>>

Announce(s) ==
  /\ phase[s] = "announce"
  /\ ready' = [ready EXCEPT ![s] = TRUE]
  /\ To(s, IF s = "gateway" THEN "serve" ELSE "consume")
  /\ UNCHANGED <<env, config, cancelled, listener, broker, stream, faults>>

\* Worker.Run asks for the consumer of a stream that the gateway has to make.
Consume ==
  /\ phase["worker"] = "consume"
  /\ IF broker /\ stream /\ ~ cancelled["worker"]
     THEN To("worker", "serve") /\ Unmoved
     ELSE End("worker") /\ UNCHANGED <<env, config, broker, stream, faults>>

(***************************************************************************)
(* The end.                                                                *)
(***************************************************************************)
\* Variant: the loop looks at the context only after a failed fetch.
WorkerStops_OnError == /\ phase["worker"] = "serve"
                       /\ cancelled["worker"] /\ ~ broker
                       /\ End("worker")
                       /\ UNCHANGED <<env, config, broker, stream, faults>>

WorkerStops == /\ phase["worker"] = "serve"
               /\ cancelled["worker"]
               /\ End("worker")
               /\ UNCHANGED <<env, config, broker, stream, faults>>

\* Variant: the server is shut down first.
NotReady_Late == /\ phase["gateway"] = "serve"
                 /\ cancelled["gateway"]
                 /\ listener' = [listener EXCEPT ![Api] = "closed"]
                 /\ To("gateway", "shutdown")
                 /\ UNCHANGED <<env, config, cancelled, ready, broker, stream, faults>>

\* SetReady(false).
NotReady == /\ phase["gateway"] = "serve"
            /\ cancelled["gateway"]
            /\ ready' = [ready EXCEPT !["gateway"] = FALSE]
            /\ To("gateway", "shutdown")
            /\ UNCHANGED <<env, config, cancelled, listener, broker, stream, faults>>

\* A server that is shut down before it listens never will.
Closed(l) == IF listener[l] = "failed" THEN "failed" ELSE "closed"

Shutdown == /\ phase["gateway"] = "shutdown"
            /\ listener' = [listener EXCEPT ![Api] = Closed(Api)]
            /\ To("gateway", "stopping")
            /\ UNCHANGED <<env, config, cancelled, ready, broker, stream, faults>>

Exit == /\ phase["gateway"] = "stopping"
        /\ End("gateway")
        /\ UNCHANGED <<env, config, broker, stream, faults>>

(***************************************************************************)
(* The goroutines of the HTTP servers.  A port that another server of the  *)
(* process has cannot be listened on, nor can what is no port; 0 asks for  *)
(* any free one.                                                           *)
(***************************************************************************)
SetListener(l, state) ==
  /\ listener' = [listener EXCEPT ![l] = state]
  /\ UNCHANGED <<env, config, phase, cancelled, ready, broker, stream, faults>>

Refused(l) == \/ PortOf(l) \notin 0 .. 65535
              \/ \E o \in ListenersOf(l[1]) \ {l} :
                   listener[o] = "listening" /\ PortOf(o) = PortOf(l) /\ PortOf(l) # 0

Listen(l) == /\ listener[l] = "starting"
             /\ SetListener(l, IF Refused(l) THEN "failed" ELSE "listening")

\* Checker.ListenAndServe shuts its server down when the context is done.
HealthCloses(s) == /\ cancelled[s]
                   /\ listener[Health(s)] \in {"starting", "listening"}
                   /\ SetListener(Health(s), "closed")

(***************************************************************************)
(* SIGTERM, crashes, and the broker.                                       *)
(***************************************************************************)
Fault == faults < MaxFaults /\ faults' = faults + 1

Cancel(s) == /\ phase[s] # "down" /\ ~ cancelled[s]
             /\ cancelled' = [cancelled EXCEPT ![s] = TRUE]
             /\ Fault
             /\ UNCHANGED <<env, config, phase, ready, listener, broker, stream>>

Crash(s) == /\ phase[s] # "down"
            /\ End(s)
            /\ Fault
            /\ UNCHANGED <<env, config, broker, stream>>

BrokerFails == /\ broker
               /\ broker' = FALSE
               /\ Fault
               /\ UNCHANGED <<env, config, phase, cancelled, ready, listener, stream>>

BrokerRecovers == /\ ~ broker
                  /\ broker' = TRUE
                  /\ UNCHANGED <<env, config, phase, cancelled, ready, listener, stream, faults>>

GatewayRuns == \/ Connect("gateway") \/ EnsureStream \/ Launch("gateway")
               \/ Announce("gateway") \/ NotReady \/ Shutdown \/ Exit
WorkerRuns  == \/ Connect("worker") \/ Launch("worker") \/ Announce("worker")
               \/ Consume \/ WorkerStops
Goroutines  == (\E l \in Listeners : Listen(l)) \/ (\E s \in ServiceNames : HealthCloses(s))

NextServices == \/ \E s \in ServiceNames : Start(s) \/ Cancel(s) \/ Crash(s)
                \/ GatewayRuns \/ WorkerRuns \/ Goroutines
                \/ BrokerFails \/ BrokerRecovers
-----------------------------------------------------------------------------
\* Probes are answered before the server they speak for is closed: the API is
\* never shut down under a checker that says ready.
NotReadyOnceClosed == listener[Api] = "closed" => ~ ready["gateway"]
=============================================================================
