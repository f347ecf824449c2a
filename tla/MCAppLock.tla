------------------------------- MODULE MCAppLock -------------------------------
(***************************************************************************)
(* Instances of AppLock for TLC.                                           *)
(***************************************************************************)
EXTENDS AppLock, TLC

=============================================================================
