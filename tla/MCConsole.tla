----------------------------- MODULE MCConsole -----------------------------
(***************************************************************************)
(* Instances of Console for TLC; MCConsole.cfg gives the constants.        *)
(***************************************************************************)
EXTENDS Console

=============================================================================
