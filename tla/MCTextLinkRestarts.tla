------------------------- MODULE MCTextLinkRestarts -------------------------
(***************************************************************************)
(* TextLinkRestarts for TLC.                                                *)
(***************************************************************************)
EXTENDS TextLinkRestarts
=============================================================================
