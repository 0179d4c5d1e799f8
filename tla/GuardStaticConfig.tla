------------------------- MODULE GuardStaticConfig -------------------------
(***************************************************************************)
(* guard_static_config.go: the adapter configuration rendered from a Guard *)
(* and its GuardrailProvider, or the reason why there is none.             *)
(*                                                                         *)
(* A Guard's spec is [provider, mode, presidio]: the reference to its      *)
(* provider, the sequence of its modes and its optional Presidio settings. *)
(* A provider is [type, baseUrl], baseUrl "" when unset.                   *)
(***************************************************************************)
EXTENDS Sequences, KubeClient

providerTypePresidio == "presidio-api"

guardReasonReconciled              == "Reconciled"
guardReasonAdapterNotConfigured    == "AdapterNotConfigured"
guardReasonProviderNotFound        == "ProviderNotFound"
guardReasonUnsupportedProviderType == "UnsupportedProviderType"
guardReasonInvalidConfig           == "InvalidConfig"
guardReasonReconcileFailed         == "ReconcileFailed"

supportedModes == {"pre_call", "post_call"}

Rejected(reason, message) == [reason |-> reason, message |-> message, config |-> None]

\* The checks in the order of the code; reason None when all of them pass.
renderStaticConfig(guard, provider) ==
  IF provider.type # providerTypePresidio
  THEN Rejected(guardReasonUnsupportedProviderType, provider.type)
  ELSE IF guard.mode = <<>>
  THEN Rejected(guardReasonInvalidConfig, "modes is required")
  ELSE IF \E i \in DOMAIN guard.mode : guard.mode[i] \notin supportedModes
  THEN Rejected(guardReasonInvalidConfig, "mode not supported")
  ELSE IF provider.baseUrl = ""
  THEN Rejected(guardReasonInvalidConfig, "baseUrl is required")
  ELSE [reason  |-> None,
        message |-> None,
        config  |-> [modes    |-> guard.mode,
                     endpoint |-> provider.baseUrl,
                     presidio |-> guard.presidio]]

\* sha256 of the rendered bytes: equal exactly for equal configurations.
configHash(config) == [sha256 |-> config]
=============================================================================
