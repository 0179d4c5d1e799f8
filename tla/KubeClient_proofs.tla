--------------------------- MODULE KubeClient_proofs ---------------------------
(***************************************************************************)
(* What the reconcilers may rely on when they write through the client,    *)
(* whatever the objects are.                                               *)
(***************************************************************************)
EXTENDS KubeClient, TLAPS

\* A merge patch takes each field from the live object or from the wanted one,
\* and from the live one exactly when the copy that was read had it right.
LEMMA MergedField ==
  ASSUME NEW read, NEW live, NEW want, NEW f \in DOMAIN want
  PROVE  /\ DOMAIN MergePatch(read, live, want) = DOMAIN want
         /\ want[f] = read[f] => MergePatch(read, live, want)[f] = live[f]
         /\ want[f] # read[f] => MergePatch(read, live, want)[f] = want[f]
BY DEF MergePatch

\* CreateOrPatch on a copy that is up to date (the unstructured kinds) either
\* fails or leaves the wanted object, and fails when another one controls it.
LEMMA PatchLive ==
  ASSUME NEW live, NEW want, want = [f \in DOMAIN want |-> want[f]],
         CreateOrPatch(live, live, want) # Failed
  PROVE  /\ CreateOrPatch(live, live, want) = want
         /\ live # None => live.owner.key = want.owner.key
<1>1. MergePatch(live, live, want) = want
  BY DEF MergePatch
<1>2. CASE live = None
  BY <1>2, Zenon DEF CreateOrPatch
<1>3. CASE live # None
  <2>1. ~OwnedByAnother(live, want)
    BY <1>3, Zenon DEF CreateOrPatch
  <2>2. CreateOrPatch(live, live, want) = want
    BY <1>1, <1>3, <2>1, Zenon DEF CreateOrPatch
  <2>. QED
    BY <2>1, <2>2 DEF OwnedByAnother
<1>. QED
  BY <1>2, <1>3

\* CreateOrPatch on a cached copy: what is there afterwards.
LEMMA PatchCached ==
  ASSUME NEW read, NEW live, NEW want, CreateOrPatch(read, live, want) # Failed
  PROVE  \/ CreateOrPatch(read, live, want) = want
         \/ CreateOrPatch(read, live, want) = live
         \/ live # None /\ CreateOrPatch(read, live, want) = MergePatch(read, live, want)
BY Zenon DEF CreateOrPatch

\* A CreateOrPatch that succeeds found nothing at all, or an object that the
\* writer's own owner controls.
LEMMA PatchAllowed ==
  ASSUME NEW read, NEW live, NEW want, CreateOrPatch(read, live, want) # Failed
  PROVE  \/ read = None /\ live = None
         \/ read # None /\ read.owner.key = want.owner.key
BY DEF CreateOrPatch, OwnedByAnother
=============================================================================
