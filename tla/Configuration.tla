--------------------------- MODULE Configuration ---------------------------
(***************************************************************************)
(* pkg/config/config.go and the two structs that are loaded with it.       *)
(*                                                                         *)
(* A key of a struct, "http_port", is the sequence of its words, and a     *)
(* field's path the sequence of the keys that lead to it.  A struct gives  *)
(* its own fields in leaves and those of the structs in it in structs:     *)
(* the structs that are loaded are nested once.  A scalar is a value with  *)
(* its kind, "int", "bool" or "string": what the environment gives is a    *)
(* string, a YAML file gives all three (floats, nulls and lists are left   *)
(* out), and a field is described by its default.                          *)
(***************************************************************************)
EXTENDS Integers, Sequences, SequencesExt

Key(word) == <<word>>

CONSTANT Literals   \* the strings that strconv.ParseInt(_, 0, 64) takes, "0x10"
                    \* among them, and the integer that each stands for

Field(kind, value) == <<kind, value>>
Text(string) == Field("string", string)

Kind(scalar)  == scalar[1]
Value(scalar) == scalar[2]

NatsConfig(url) == (Key("url") :> Field("string", url))

\* gateway.Config with gateway.Defaults.  Of several strings that no property
\* tells apart (the database's name, the channels' secrets) one is listed.
GatewayConfig ==
  [leaves |->
     (<<"http", "port">> :> Field("int", 8090)) @@
     (<<"metrics", "port">> :> Field("int", 8091)) @@
     (<<"log", "level">> :> Field("string", "info")) @@
     (Key("development") :> Field("bool", TRUE)) @@
     (<<"otlp", "endpoint">> :> Field("string", "")),
   structs |->
     (Key("nats") :> NatsConfig("nats://localhost:4222")) @@
     (Key("postgres") :>
        ((Key("host") :> Field("string", "localhost")) @@
         (Key("port") :> Field("int", 5432)) @@
         (<<"max", "conns">> :> Field("int", 10))))]

\* workerConfig with the defaults of run.
WorkerConfig ==
  [leaves |->
     (<<"metrics", "port">> :> Field("int", 8092)) @@
     (<<"log", "level">> :> Field("string", "info")) @@
     (Key("development") :> Field("bool", TRUE)) @@
     (<<"webhook", "url">> :> Field("string", "")) @@
     (<<"telegram", "token">> :> Field("string", "")) @@
     (<<"slack", "webhook">> :> Field("string", "")),
   structs |-> (Key("nats") :> NatsConfig("nats://localhost:4222"))]

Leaves(struct)  == {<<k>> : k \in DOMAIN struct.leaves}
Nested(struct) == UNION {{<<k, j>> : j \in DOMAIN struct.structs[k]} :
                          k \in DOMAIN struct.structs}
Paths(struct)   == Leaves(struct) \cup Nested(struct)

FieldAt(struct, path) == IF Len(path) = 1 THEN struct.leaves[path[1]]
                                          ELSE struct.structs[path[1]][path[2]]

\* Variant for the runs' mutants: nested structs are not walked.
BindStructKeys_TopLevel(struct) ==
  [path \in Leaves(struct) |-> FieldAt(struct, path)]

\* The keys viper is told of, each with the value that dst has.
BindStructKeys(struct) == [path \in Paths(struct) |-> FieldAt(struct, path)]

\* The name that viper asks the environment for: the prefix and the key in
\* capitals, with "." and "_" alike.  Only the words are left.
EnvName(prefix, path) == <<prefix>> \o FlattenSeq(path)

\* A variable that is set to nothing counts as not set.
InEnv(env, name) == name \in DOMAIN env /\ env[name] # ""

(***************************************************************************)
(* The decoding of a scalar into a field, which viper asks mapstructure to *)
(* do weakly: numbers, Booleans and strings are converted to each other,   *)
(* and only a string may fail to be.                                       *)
(***************************************************************************)
TrueWords  == {"1", "t", "T", "true", "TRUE", "True"}
FalseWords == {"0", "f", "F", "false", "FALSE", "False", ""}

Decodes(kind, scalar) ==
  Kind(scalar) = "string" => CASE kind = "int"    -> Value(scalar) \in DOMAIN Literals \cup {""}
                              [] kind = "bool"   -> Value(scalar) \in TrueWords \cup FalseWords
                              [] kind = "string" -> TRUE

AsNumber(bool) == IF bool THEN 1 ELSE 0

Decoded(kind, scalar) ==
  CASE Kind(scalar) = kind -> Value(scalar)
    [] Kind(scalar) = "string" /\ kind = "int" ->
         IF Value(scalar) = "" THEN 0 ELSE Literals[Value(scalar)]
    [] Kind(scalar) = "string" /\ kind = "bool"   -> Value(scalar) \in TrueWords
    [] Kind(scalar) = "bool"   /\ kind = "int"    -> AsNumber(Value(scalar))
    [] Kind(scalar) = "bool"   /\ kind = "string" -> ToString(AsNumber(Value(scalar)))
    [] Kind(scalar) = "int"    /\ kind = "bool"   -> Value(scalar) # 0
    [] Kind(scalar) = "int"    /\ kind = "string" -> ToString(Value(scalar))

Error == [ok |-> FALSE]

Loaded(value) == [ok |-> TRUE, value |-> value]

\* A file that can be read gives scalars to paths; others are "missing" or
\* "malformed"; with an empty configPath there is "none".
File(status, content) == [status |-> status, content |-> content]
NoFile == File("none", <<>>)

(***************************************************************************)
(* Load.  viper knows the keys that were bound and those of the file;      *)
(* Unmarshal decodes each of them into its field, if it has one, and what  *)
(* viper does not know keeps the value that dst had.  A missing file is an *)
(* error, although the comment at config.go:62 says that it is none: what  *)
(* ReadInConfig returns is not the type that Load tests for, as the end of *)
(* config_test.go notes.  The properties below say nothing of it.          *)
(***************************************************************************)
Load(prefix, struct, file, env) ==
  LET bound == BindStructKeys(struct)
      known == DOMAIN bound \cup (DOMAIN file.content \cap Paths(struct))
      Get(path) == IF InEnv(env, EnvName(prefix, path)) THEN Text(env[EnvName(prefix, path)])
                   ELSE IF path \in DOMAIN file.content THEN file.content[path]
                   ELSE bound[path]
  IN  IF \/ file.status \in {"missing", "malformed"}
         \/ \E path \in known : ~ Decodes(Kind(FieldAt(struct, path)), Get(path))
      THEN Error
      ELSE Loaded([path \in Paths(struct) |->
                     IF path \in known THEN Decoded(Kind(FieldAt(struct, path)), Get(path))
                                       ELSE Value(FieldAt(struct, path))])

\* No two fields are asked for under the same name, as the field nats_url and
\* the field url of the struct nats would be.
NamesDiffer(prefix, struct) ==
  \A p, q \in Paths(struct) : EnvName(prefix, p) = EnvName(prefix, q) => p = q
-----------------------------------------------------------------------------
Put(f, key, value) == [k \in DOMAIN f \cup {key} |-> IF k = key THEN value ELSE f[k]]

\* What Load should return once the field at path is decided by scalar, if it
\* returned result before: that field changes and no other, or it is an error.
Updated(result, struct, path, scalar) ==
  LET kind == Kind(FieldAt(struct, path))
  IN  IF Decodes(kind, scalar)
      THEN Loaded([result.value EXCEPT ![path] = Decoded(kind, scalar)])
      ELSE Error

\* A variable decides its field, of a nested struct too, with a file that says
\* otherwise and with none, and no other field.
VariableDecides(prefix, struct, file, env, path, text) ==
  LET before == Load(prefix, struct, file, env)
      after  == Load(prefix, struct, file, Put(env, EnvName(prefix, path), text))
  IN  before.ok => after = Updated(before, struct, path, Text(text))

\* A line of the file decides its field and no other; it is not even looked at,
\* whatever it is, if the field has a variable.
FileYields(prefix, struct, file, env, path, scalar) ==
  LET before == Load(prefix, struct, file, env)
      after  == Load(prefix, struct, File("read", Put(file.content, path, scalar)), env)
  IN  before.ok => after = IF InEnv(env, EnvName(prefix, path))
                           THEN before
                           ELSE Updated(before, struct, path, scalar)

\* With neither, every field keeps the default of its struct.
DefaultsStay(prefix, struct) ==
  Load(prefix, struct, NoFile, <<>>)
    = Loaded([path \in Paths(struct) |-> Value(FieldAt(struct, path))])
=============================================================================
