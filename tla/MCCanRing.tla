------------------------------ MODULE MCCanRing ------------------------------
(***************************************************************************)
(* CanRing for TLC.                                                         *)
(***************************************************************************)
EXTENDS CanRing
=============================================================================
