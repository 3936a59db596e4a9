------------------------------ MODULE MCProxy ------------------------------
(***************************************************************************)
(* Instances of SslProxy for TLC; MCProxy.cfg gives the constants.         *)
(***************************************************************************)
EXTENDS SslProxy

=============================================================================
