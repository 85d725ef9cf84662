-------------------------- MODULE MCPicoCalibration --------------------------
(***************************************************************************)
(* PicoCalibration for TLC.                                                 *)
(***************************************************************************)
EXTENDS PicoCalibration
=============================================================================
