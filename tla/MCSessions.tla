----------------------------- MODULE MCSessions -----------------------------
(***************************************************************************)
(* Instances of NetGuardSessions for TLC; the configurations               *)
(* MCSessions*.cfg give the constants.  Addresses are interchangeable.     *)
(***************************************************************************)
EXTENDS NetGuardSessions, TLC

Symmetry == Permutations(Ptr)

=============================================================================
