------------------------------- MODULE MCTcp -------------------------------
(***************************************************************************)
(* Instances of NetGuardTcp for TLC; the configurations MCTcp*.cfg give    *)
(* the constants.  Each one keeps the sequence numbers of the two          *)
(* directions apart (10.. and 100..), so that a mix-up of the two cannot   *)
(* go unnoticed.                                                           *)
(***************************************************************************)
EXTENDS NetGuardTcp

=============================================================================
