----------------------------- MODULE MCAudioEngine -----------------------------
(***************************************************************************)
(* AudioEngine for TLC: all decoders, engine after engine without end.     *)
(* START, STOP, RELEASE and MaxSends = 2 others overflow a pool of 3 in every *)
(* way, as they do the source's pool of 4 with one more.                   *)
(***************************************************************************)
EXTENDS AudioEngine
=============================================================================
