------------------------- MODULE MCAuthTransaction --------------------------
(***************************************************************************)
(* Instances of AuthTransaction for TLC.                                   *)
(***************************************************************************)
EXTENDS AuthTransaction
=============================================================================
