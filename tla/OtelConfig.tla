----------------------------- MODULE OtelConfig -----------------------------
(***************************************************************************)
(* otel.go and setAgentgatewayParametersSpec: the translation of a         *)
(* ToolGateway's environment into the spec of its AgentgatewayParameters.  *)
(*                                                                         *)
(* An environment variable is [name, value, valueFrom].  None stands for   *)
(* the empty value, which is also the value of a variable that takes it    *)
(* from elsewhere; valueFrom is then what a container would find there,    *)
(* and None otherwise.  The text of a *_HEADERS variable is *)
(* [json, pairs]: the map encoding/json reads in it, or Failed, and the    *)
(* fields of each comma-separated piece, split at the first "=".  The text *)
(* of a *_PROTOCOL variable is [family, rest]: "http/protobuf" is          *)
(* [family |-> "http", rest |-> "/protobuf"], and a value with neither     *)
(* known prefix has family "".                                             *)
(***************************************************************************)
EXTENDS Integers, Sequences, KubeClient

Signals == {"", "TRACES_", "METRICS_", "LOGS_"}
Kinds   == {"ENDPOINT", "PROTOCOL", "HEADERS"}

OtelName(signal, kind) == "OTEL_EXPORTER_OTLP_" \o signal \o kind
OtelNames == {OtelName(signal, kind) : signal \in Signals, kind \in Kinds}

\* The value of the last variable with a name; None when there is none.
LastValue(envVars, name) ==
  LET at == {i \in DOMAIN envVars : envVars[i].name = name}
  IN  IF at = {} THEN None
      ELSE envVars[CHOOSE i \in at : \A j \in at : j <= i].value

extractOTELEnvVars(envVars) ==
  [config   |-> [signal \in Signals |-> [kind \in Kinds |->
                   LastValue(envVars, OtelName(signal, kind))]],
   filtered |-> SelectSeq(envVars, LAMBDA e : e.name \notin OtelNames)]


\* The value for tracing: the signal's own, else the general one.
TracingValue(config, kind) ==
  IF config["TRACES_"][kind] # None THEN config["TRACES_"][kind] ELSE config[""][kind]

NormalizedProtocol(p) == IF p = None THEN None
                         ELSE IF p.family \in {"grpc", "http"} THEN p.family ELSE p.rest

\* The header map; a later pair overrides an earlier one with the same key.
parseHeaders(h) ==
  LET ok(i)   == Len(h.pairs[i]) = 2
      keys    == {h.pairs[i][1] : i \in {j \in DOMAIN h.pairs : ok(j)}}
      last(k) == CHOOSE i \in DOMAIN h.pairs :
                   /\ ok(i) /\ h.pairs[i][1] = k
                   /\ \A j \in DOMAIN h.pairs : (ok(j) /\ h.pairs[j][1] = k) => j <= i
  IN  IF h.json # Failed THEN h.json ELSE [k \in keys |-> h.pairs[last(k)][2]]

\* The tracing section, or None when no endpoint says where to send traces.
\* The JSON form omits an empty protocol and an empty map of headers.
buildTelemetryConfig(config) ==
  LET headers == IF TracingValue(config, "HEADERS") = None THEN None
                 ELSE parseHeaders(TracingValue(config, "HEADERS"))
  IN  IF TracingValue(config, "ENDPOINT") = None
      THEN None
      ELSE [otlpEndpoint |-> TracingValue(config, "ENDPOINT"),
            otlpProtocol |-> NormalizedProtocol(TracingValue(config, "PROTOCOL")),
            headers      |-> IF headers = None \/ DOMAIN headers = {} THEN None ELSE headers]

\* The parts of the AgentgatewayParameters spec that depend on the ToolGateway.
setAgentgatewayParametersSpec(spec) ==
  LET otel == extractOTELEnvVars(spec.env)
  IN  [rawConfig |-> buildTelemetryConfig(otel.config),
       env       |-> otel.filtered,
       envFrom   |-> spec.envFrom]
=============================================================================
