------------------------ MODULE ToolFilterSemantics ------------------------
(***************************************************************************)
(* What a compiled tool filter admits, against what its globs mean.  The   *)
(* CEL evaluator and the regular expression engine belong to agentgateway: *)
(* they are modelled on the expressions toolroute_authz.go generates.      *)
(* The state is a filter that grows pattern by pattern and a tool name     *)
(* that grows character by character.                                      *)
(***************************************************************************)
EXTENDS ToolFilter, Integers

CONSTANTS Chars,        \* the characters of tool names
          Patterns,     \* the glob patterns a user may write
          MaxName,      \* bound on the length of a tool name
          MaxPatterns   \* bound on the patterns of a filter

VARIABLES filter, name

-----------------------------------------------------------------------------
(* The reference: glob matching.                                           *)

RECURSIVE GlobMatch(_, _)
GlobMatch(p, s) ==
  IF p = <<>> THEN s = <<>>
  ELSE CASE Head(p) = "*" -> \/ GlobMatch(Tail(p), s)
                             \/ s # <<>> /\ GlobMatch(p, Tail(s))
         [] Head(p) = "?" -> s # <<>> /\ GlobMatch(Tail(p), Tail(s))
         [] OTHER         -> s # <<>> /\ Head(s) = Head(p) /\ GlobMatch(Tail(p), Tail(s))

MatchesSome(patterns, s) == \E i \in DOMAIN patterns : GlobMatch(patterns[i], s)

\* A deny pattern wins; an empty allow list allows everything.
Allowed(f, s) == f = None \/ /\ f.allow = <<>> \/ MatchesSome(f.allow, s)
                             /\ ~MatchesSome(f.deny, s)

-----------------------------------------------------------------------------
(* The CEL evaluator.                                                      *)

RECURSIVE Flatten(_)
Flatten(ss) == IF ss = <<>> THEN <<>> ELSE Head(ss) \o Flatten(Tail(ss))

\* The string a CEL literal denotes: a backslash quotes the next character.
RECURSIVE Unescape(_)
Unescape(t) ==
  IF t = <<>> THEN <<>>
  ELSE IF Head(t) = BackSlash /\ Len(t) > 1 THEN <<t[2]>> \o Unescape(Tail(Tail(t)))
                              ELSE <<Head(t)>> \o Unescape(Tail(t))

\* RE2 on the anchored text between "^" and "$".
RECURSIVE RegexMatch(_, _)
RegexMatch(re, s) ==
  IF re = <<>> THEN s = <<>>
  ELSE IF Head(re) = BackSlash
       THEN Len(re) > 1 /\ s # <<>> /\ Head(s) = re[2] /\ RegexMatch(Tail(Tail(re)), Tail(s))
  ELSE IF Head(re) = "." /\ Len(re) > 1 /\ re[2] = "*"
       THEN RegexMatch(Tail(Tail(re)), s) \/ (s # <<>> /\ RegexMatch(re, Tail(s)))
  ELSE /\ s # <<>>
       /\ Head(re) = "." \/ Head(re) = Head(s)
       /\ RegexMatch(Tail(re), Tail(s))

RECURSIVE Eval(_, _)
Eval(e, s) ==
  CASE e.op = "=="      -> Unescape(Flatten(e.arg)) = s
    [] e.op = "matches" -> RegexMatch(Unescape(Flatten(Flatten(e.arg))), s)
    [] e.op = "||"      -> \E i \in DOMAIN e.args : Eval(e.args[i], s)
    [] e.op = "&&"      -> \A i \in DOMAIN e.args : Eval(e.args[i], s)
    [] e.op = "!"       -> ~Eval(e.args[1], s)

\* No policy admits every tool; a policy admits what some expression matches.
Admitted(f, s) ==
  LET rules == buildMcpAuthorizationRules(f)
  IN  rules = <<>> \/ \E i \in DOMAIN rules : Eval(rules[i], s)

-----------------------------------------------------------------------------
Init == filter = [allow |-> <<>>, deny |-> <<>>] /\ name = <<>>

Allow == /\ Len(filter.allow) < MaxPatterns
         /\ \E p \in Patterns : filter' = [filter EXCEPT !.allow = Append(@, p)]
         /\ UNCHANGED name

Deny == /\ Len(filter.deny) < MaxPatterns
        /\ \E p \in Patterns : filter' = [filter EXCEPT !.deny = Append(@, p)]
        /\ UNCHANGED name

Rename == /\ Len(name) < MaxName
          /\ \E c \in Chars : name' = Append(name, c)
          /\ UNCHANGED filter

Next == Allow \/ Deny \/ Rename

Spec == Init /\ [][Next]_<<filter, name>>

(***************************************************************************)
(* The generated policy admits a tool exactly when the user's globs do:    *)
(* regex metacharacters, backslashes and quotes of a pattern stand for     *)
(* themselves through both levels of escaping, "*" and "?" keep their      *)
(* meaning, patterns match whole names, and deny wins over allow.          *)
(***************************************************************************)
FilterExact == Admitted(filter, name) <=> Allowed(filter, name)
=============================================================================
