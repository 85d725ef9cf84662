----------------------------- MODULE MCZeroLog -----------------------------
(***************************************************************************)
(* ZeroLog for TLC.                                                         *)
(***************************************************************************)
EXTENDS ZeroLog
=============================================================================
