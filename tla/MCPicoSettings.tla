--------------------------- MODULE MCPicoSettings ---------------------------
(***************************************************************************)
(* PicoSettings for TLC.                                                    *)
(***************************************************************************)
EXTENDS PicoSettings
=============================================================================
