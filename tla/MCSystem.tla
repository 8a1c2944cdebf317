------------------------------ MODULE MCSystem ------------------------------
(***************************************************************************)
(* One notification, published at most twice, two channels, two faults.    *)
(* The environments: one with settings of both services, a nested one and  *)
(* an empty one among them; the API on the port of the gateway's health    *)
(* server, with a worker that has a Boolean that is none; a gateway that   *)
(* looks for the broker elsewhere, with a worker whose log level does not  *)
(* exist.  The files are for Load alone: the services read none.           *)
(***************************************************************************)
EXTENDS System

MCLiterals == ("9000" :> 9000) @@ ("8091" :> 8091) @@ ("0x2328" :> 9000) @@
              ("-1" :> -1) @@ ("0" :> 0) @@ ("1" :> 1)
MCBrokerURL == "nats://localhost:4222"

\* Names as EnvName makes them: GATEWAY_HTTP_PORT and so on.
MCEnvironments ==
  { (<<"GATEWAY", "http", "port">> :> "9000") @@
    (<<"GATEWAY", "postgres", "max", "conns">> :> "9000") @@
    (<<"GATEWAY", "log", "level">> :> "") @@
    (<<"DELIVERY", "log", "level">> :> "warn"),
    (<<"GATEWAY", "http", "port">> :> "8091") @@
    (<<"DELIVERY", "development">> :> "maybe"),
    (<<"GATEWAY", "nats", "url">> :> "nats://elsewhere:4222") @@
    (<<"DELIVERY", "log", "level">> :> "loud") }

\* Of each field's kind, of none, and such as one kind takes from another.
MCTexts   == {"9000", "0x2328", "1", "TRUE", "0", "f", "maybe", "loud"}
MCScalars == {Text(t) : t \in {"9000", "-1", "t", "maybe", ""}} \cup
             {Field("int", 7), Field("int", 0), Field("bool", TRUE), Field("bool", FALSE)}

MCFiles ==
  { NoFile, File("missing", <<>>), File("malformed", <<>>), File("read", <<>>),
    File("read", (<<<<"log", "level">>>> :> Text("error")) @@
                 (<<<<"http", "port">>>> :> Field("int", 10)) @@
                 (<<Key("development")>> :> Field("int", 0)) @@
                 (<<Key("postgres"), Key("port")>> :> Text("0x2328")) @@
                 (<<Key("unknown")>> :> Text("x"))),
    File("read", <<<<"metrics", "port">>>> :> Text("many")) }
=============================================================================
