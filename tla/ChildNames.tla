----------------------------- MODULE ChildNames -----------------------------
(***************************************************************************)
(* What the ToolRoute controller promises about the names of the children  *)
(* it writes, whatever caches, failures and garbage collection do beneath: *)
(* a name has at most one holder, the holder keeps it until it is deleted, *)
(* and only the holder attaches an HTTPRoute or a policy under it.         *)
(*                                                                         *)
(* A holder is one incarnation of a route: a route deleted and created     *)
(* again under its name is another holder.                                 *)
(***************************************************************************)
CONSTANTS Names,     \* the names children may have
          Holders,   \* the routes that may ever hold one
          None

Parts == {"httproute", "policy"}

VARIABLES alive,     \* the routes that exist
          holder,    \* Names -> the route that holds the name, or None
          attached   \* Names -> Parts -> the route that attached it, or None

vars == <<alive, holder, attached>>

Init == /\ alive \subseteq Holders
        /\ holder   = [n \in Names |-> None]
        /\ attached = [n \in Names |-> [p \in Parts |-> None]]

\* A new route holds nothing.
Appear == /\ \E o \in alive' \ alive : o \in Holders /\ alive' = alive \cup {o}
          /\ UNCHANGED <<holder, attached>>

\* All that a route held ends with it, and nothing else does.
Vanish(o) ==
  LET rest(h) == IF h = o THEN None ELSE h
  IN  /\ alive'    = alive \ {o}
      /\ holder'   = [n \in Names |-> rest(holder[n])]
      /\ attached' = [n \in Names |-> [p \in Parts |-> rest(attached[n][p])]]

Acquire(n, o) == /\ holder[n] = None
                 /\ holder' = [holder EXCEPT ![n] = o]
                 /\ UNCHANGED <<alive, attached>>

Attach(n, p) == /\ holder[n] # None /\ attached[n][p] = None
                /\ attached' = [attached EXCEPT ![n][p] = holder[n]]
                /\ UNCHANGED <<alive, holder>>

\* The holder's filter was cleared, or a user removed the HTTPRoute.
Detach(n, p) == /\ attached' = [attached EXCEPT ![n][p] = None]
                /\ UNCHANGED <<alive, holder>>

Next == \/ Appear
        \/ \E o \in alive : Vanish(o) \/ \E n \in Names : Acquire(n, o)
        \/ \E n \in Names, p \in Parts : Attach(n, p) \/ Detach(n, p)

Spec == Init /\ [][Next]_vars
=============================================================================
