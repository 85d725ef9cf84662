----------------------------- MODULE MCTextLink -----------------------------
(***************************************************************************)
(* TextLink for TLC.                                                        *)
(***************************************************************************)
EXTENDS TextLink
=============================================================================
