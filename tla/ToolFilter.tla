----------------------------- MODULE ToolFilter -----------------------------
(***************************************************************************)
(* toolroute_authz.go: the translation of a ToolRoute's toolFilter into    *)
(* the CEL rule of its AgentgatewayPolicy.  A pattern, like every string   *)
(* whose characters matter here, is a sequence of one-character strings; a *)
(* CEL expression is its syntax tree.                                      *)
(***************************************************************************)
EXTENDS Sequences, KubeClient

CONSTANT RegexMeta     \* the characters regexp.QuoteMeta escapes

BackSlash == "\\"
Quote     == "\""

SeqElems(s) == {s[i] : i \in DOMAIN s}

hasGlobMeta(p) == SeqElems(p) \cap {"*", "?"} # {}

(***************************************************************************)
(* An atom of the anchored regular expression: ".*", "." or the text of    *)
(* one literal character, escaped when it is a metacharacter.  A regular   *)
(* expression is the sequence of its atoms between "^" and "$".            *)
(***************************************************************************)
QuoteMeta(c) == IF c \in RegexMeta THEN <<BackSlash, c>> ELSE <<c>>

globToRegex(glob) ==
  [i \in DOMAIN glob |-> CASE glob[i] = "*" -> <<".", "*">>
                           [] glob[i] = "?" -> <<".">>
                           [] OTHER         -> QuoteMeta(glob[i])]

\* Mutant: backslashes are not escaped.
celEscapeQuotes(s) == [i \in DOMAIN s |-> IF s[i] = Quote THEN <<BackSlash, Quote>> ELSE <<s[i]>>]

\* A character of a CEL string literal.
celEscape(s) == [i \in DOMAIN s |-> IF s[i] \in {BackSlash, Quote}
                                    THEN <<BackSlash, s[i]>> ELSE <<s[i]>>]

\* Every atom of a regular expression becomes part of a CEL string literal.
celEscapeRegex(re) == [i \in DOMAIN re |-> celEscape(re[i])]

globToCELPredicate(p) ==
  IF hasGlobMeta(p) THEN [op |-> "matches", arg |-> celEscapeRegex(globToRegex(p))]
                    ELSE [op |-> "==",      arg |-> celEscape(p)]

orJoin(preds) == [op |-> "||", args |-> preds]
not(e)        == [op |-> "!",  args |-> <<e>>]
and(e, f)     == [op |-> "&&", args |-> <<e, f>>]

Predicates(patterns) == [i \in DOMAIN patterns |-> globToCELPredicate(patterns[i])]

\* No rule (nil) when there is nothing to filter, otherwise one compound rule.
buildMcpAuthorizationRules(filter) ==
  IF filter = None \/ (filter.allow = <<>> /\ filter.deny = <<>>)
  THEN <<>>
  ELSE LET allow == orJoin(Predicates(filter.allow))
           deny  == not(orJoin(Predicates(filter.deny)))
       IN  CASE filter.allow # <<>> /\ filter.deny # <<>> -> <<and(allow, deny)>>
             [] filter.allow # <<>> /\ filter.deny = <<>> -> <<allow>>
             [] filter.allow = <<>> /\ filter.deny # <<>> -> <<deny>>
=============================================================================
