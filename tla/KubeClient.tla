----------------------------- MODULE KubeClient -----------------------------
(***************************************************************************)
(* The client calls that every reconciler of the operator makes on the     *)
(* Kubernetes API, as pure operators.  They belong to controller-runtime   *)
(* and are modelled from how src/internal/controller uses them:            *)
(*                                                                         *)
(*  - a child object is [owner, spec]: the controller owner reference that *)
(*    SetControllerReference leaves on it and the part of the object the   *)
(*    reconciler computes;                                                 *)
(*  - Get returns the object or None;                                      *)
(*  - client.MergeFrom builds a merge patch from the fields in which the   *)
(*    modified copy differs from the copy that was READ, so a field that   *)
(*    already had the wanted value in a stale copy is not sent at all;     *)
(*  - the patch carries no resourceVersion: it is never refused because    *)
(*    the object moved on, only because it is gone.                        *)
(***************************************************************************)

CONSTANTS None,     \* the object or reference that does not exist
          Failed    \* the result of a call that returned an error

\* client.Get: the object under a key, None (NotFound) when there is none.
Get(objs, key) == IF key \in DOMAIN objs THEN objs[key] ELSE None

\* types.NamespacedName of a reference whose namespace "" means "the
\* namespace of the object that holds the reference".
RefKey(ref, ns) == [ns   |-> IF ref.ns = "" THEN ns ELSE ref.ns,
                    name |-> ref.name]

\* client.MergeFrom + Patch: the fields of live that want changes w.r.t. read.
MergePatch(read, live, want) ==
  [f \in DOMAIN want |-> IF want[f] = read[f] THEN live[f] ELSE want[f]]

\* controllerutil.SetControllerReference refuses an object that another
\* object (by name; uids are not compared) already controls.
OwnedByAnother(obj, want) == obj.owner.key # want.owner.key

(***************************************************************************)
(* controllerutil.CreateOrPatch.  read is what Get returned: the live      *)
(* object for the unstructured agentgateway kinds, the cached one for the  *)
(* typed kinds.  The result is the live object afterwards, or Failed.      *)
(***************************************************************************)
CreateOrPatch(read, live, want) ==
  CASE read = None /\ live = None                         -> want
    [] read = None /\ live # None                         -> Failed  \* AlreadyExists
    [] read # None /\ OwnedByAnother(read, want)          -> Failed  \* AlreadyOwnedError
    [] read # None /\ ~OwnedByAnother(read, want)
       /\ read = want                                     -> live    \* nothing to send
    [] read # None /\ ~OwnedByAnother(read, want)
       /\ read # want /\ live = None                      -> Failed  \* NotFound
    [] read # None /\ ~OwnedByAnother(read, want)
       /\ read # want /\ live # None                      -> MergePatch(read, live, want)
=============================================================================
