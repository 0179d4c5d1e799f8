--------------------------- MODULE OtelSemantics ---------------------------
(***************************************************************************)
(* What the translation of a ToolGateway's environment should yield: the   *)
(* tracing that an OpenTelemetry SDK would be configured for in a          *)
(* container with this environment (header texts may also be JSON), and,   *)
(* for everything else, the environment itself.  The state is a list of    *)
(* variables that grows.                                                   *)
(***************************************************************************)
EXTENDS OtelConfig

CONSTANTS Variables,    \* the variables [name, value, valueFrom] a user may write
          MaxVariables  \* bound on the length of the list

VARIABLE env

-----------------------------------------------------------------------------
(* The reference.                                                          *)

\* The environment a list of variables makes: a later one replaces an earlier.
RECURSIVE Environment(_)
Environment(vs) ==
  IF vs = <<>> THEN <<>>
  ELSE LET earlier == Environment(SubSeq(vs, 1, Len(vs) - 1))
           last    == vs[Len(vs)]
       IN  [n \in DOMAIN earlier \cup {last.name} |-> IF n = last.name THEN last ELSE earlier[n]]

\* What a container finds under a name: a reference is looked up, and a
\* variable that is missing counts as an empty one.
Value(e, name) ==
  CASE name \notin DOMAIN e       -> None
    [] e[name].valueFrom # None   -> e[name].valueFrom
    [] OTHER                      -> e[name].value

ForTraces(e, kind) ==
  LET own == Value(e, OtelName("TRACES_", kind))
  IN  IF own = None THEN Value(e, OtelName("", kind)) ELSE own

\* The same "later replaces earlier" for the pairs of a header text.
RECURSIVE HeaderMap(_)
HeaderMap(pairs) ==
  IF pairs = <<>> THEN <<>>
  ELSE LET earlier == HeaderMap(SubSeq(pairs, 1, Len(pairs) - 1))
           last    == pairs[Len(pairs)]
       IN  IF Len(last) # 2 THEN earlier
           ELSE [n \in DOMAIN earlier \cup {last[1]} |->
                   IF n = last[1] THEN last[2] ELSE earlier[n]]

Tracing(e) ==
  LET endpoint == ForTraces(e, "ENDPOINT")
      protocol == ForTraces(e, "PROTOCOL")
      text     == ForTraces(e, "HEADERS")
      headers  == IF text = None THEN <<>>
                  ELSE IF text.json # Failed THEN text.json ELSE HeaderMap(text.pairs)
  IN  IF endpoint = None THEN None
      ELSE [otlpEndpoint |-> endpoint,
            otlpProtocol |-> IF protocol = None THEN None ELSE protocol.family,
            headers      |-> IF headers = <<>> THEN None ELSE headers]

-----------------------------------------------------------------------------
OtelInit == env = <<>>

AddVariable == /\ Len(env) < MaxVariables
               /\ \E v \in Variables : env' = Append(env, v)

Translated == setAgentgatewayParametersSpec([env |-> env, envFrom |-> <<>>])

\* No variable for tracing takes its value from elsewhere.
Literal(e) ==
  \A signal \in {"", "TRACES_"}, kind \in Kinds :
    OtelName(signal, kind) \in DOMAIN e => e[OtelName(signal, kind)].valueFrom = None

\* The protocol for tracing is one that agentgateway has.
KnownProtocol(e) ==
  LET protocol == ForTraces(e, "PROTOCOL")
  IN  protocol # None => protocol.family \in {"grpc", "http"}

=============================================================================
