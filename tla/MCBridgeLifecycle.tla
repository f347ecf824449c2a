------------------------- MODULE MCBridgeLifecycle --------------------------
(***************************************************************************)
(* Instances of BridgeLifecycle for TLC.                                   *)
(***************************************************************************)
EXTENDS BridgeLifecycle, TLC

=============================================================================
