--------------------------- MODULE MCTranslations ---------------------------
(***************************************************************************)
(* The two translations of a spec into agentgateway's terms, one at a time *)
(* from the empty filter and the empty environment.                        *)
(***************************************************************************)
EXTENDS ToolFilterSemantics, OtelSemantics

\* Every pattern of at most two characters over a letter, the wildcards, a
\* regex metacharacter and the two characters that CEL strings escape.
MCRegexMeta == {"\\", ".", "+", "*", "?", "(", ")", "|", "[", "]", "{", "}", "^", "$"}
MCChars     == {"a", ".", BackSlash, Quote}
Symbols     == MCChars \cup {"*", "?"}
MCPatterns  == {<<>>} \cup {<<c>> : c \in Symbols} \cup {<<c, d>> : c, d \in Symbols}

\* Lists of two patterns are made of these.
Joined == {<<"a">>, <<"?">>, <<".", "*">>}

\* Variables of every kind, for tracing in general and of its own, one of
\* another signal, one of the exporter that is not translated, one that is
\* none of the exporter's, an empty one and one that takes its value from a
\* Secret.
Var(n, v) == [name |-> n, value |-> v, valueFrom |-> None]

Repeated  == [json |-> Failed, pairs |-> <<<<"a", "1">>, <<"b", "2">>, <<"a", "3">>>>]
Malformed == [json |-> Failed, pairs |-> <<<<"junk">>>>]
AsJSON    == [json |-> [c |-> "4"], pairs |-> <<<<"{\"c\":\"4\"}">>>>]

MCVariables ==
  {Var(OtelName(s, "ENDPOINT"), v) : s \in {"", "TRACES_"}, v \in {"http://a", "http://b", None}}
  \cup {Var(OtelName("", "PROTOCOL"), [family |-> "grpc", rest |-> ""]),
        Var(OtelName("TRACES_", "PROTOCOL"), [family |-> "http", rest |-> "/protobuf"]),
        Var(OtelName("TRACES_", "PROTOCOL"), [family |-> "", rest |-> "json"]),
        Var(OtelName("", "HEADERS"), Repeated), Var(OtelName("", "HEADERS"), AsJSON),
        Var(OtelName("TRACES_", "HEADERS"), Malformed),
        Var(OtelName("METRICS_", "ENDPOINT"), "http://m"),
        Var(OtelName("", "TIMEOUT"), "10"),
        Var("LOG_LEVEL", "debug"), Var("LOG_LEVEL", None),
        [name |-> OtelName("", "ENDPOINT"), value |-> None, valueFrom |-> "http://s"],
        [name |-> "TOKEN", value |-> None, valueFrom |-> "secret"]}

TranslationsInit == Init /\ OtelInit

\* Lists of one arbitrary pattern, and of two simple ones.
Lists == \A list \in {filter'.allow, filter'.deny} :
           Len(list) > 1 => SeqElems(list) \subseteq Joined

TranslationsNext ==
  \/ env = <<>> /\ Allow  /\ Lists /\ UNCHANGED env
  \/ env = <<>> /\ Deny   /\ Lists /\ UNCHANGED env
  \/ env = <<>> /\ Rename /\ UNCHANGED env
  \/ Init /\ AddVariable /\ UNCHANGED <<filter, name>>

TranslationsSpec == TranslationsInit /\ [][TranslationsNext]_<<filter, name, env>>
=============================================================================
