----------------------------- MODULE MCService -----------------------------
(***************************************************************************)
(* Instances of VpnService for TLC; MCService*.cfg give the constants.     *)
(***************************************************************************)
EXTENDS VpnService

=============================================================================
