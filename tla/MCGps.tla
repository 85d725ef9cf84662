-------------------------------- MODULE MCGps --------------------------------
(***************************************************************************)
(* Gps for TLC: a fix without and one with the sync bytes in it; a byte that *)
(* may turn into the longest length; garbage that is nothing or the beginning*)
(* of a frame.                                                               *)
(***************************************************************************)
EXTENDS Gps

MCChecksum(body) == FoldSeq(LAMBDA b, s : (b + s) % (MaxByte + 1), 0, body)
MCFixes == {<<0>>, <<Sync1, Sync2>>}
MCNoise == {MaxPayload}
MCGarbage == {<<>>, <<Sync1, Sync2, NavPvt, MaxPayload>>}
=============================================================================
