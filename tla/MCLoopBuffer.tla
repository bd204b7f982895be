----------------------------- MODULE MCLoopBuffer -----------------------------
(***************************************************************************)
(* LoopBuffer for TLC.                                                     *)
(*                                                                         *)
(* A ring of 4 in front of a file of 5 is wrapped around without a seek,   *)
(* and seeks back make it wrap again; what is sought back to is lost in    *)
(* part.  The demuxer asks for the head, the middle and the last byte, in  *)
(* the ring, by reading on and by a seek of the input.  ReadSeekMax = 3    *)
(* lets a gap be read over or be too large.  One request fails in a        *)
(* history, with one further try, so that the retry succeeds.              *)
(***************************************************************************)
EXTENDS LoopBuffer
=============================================================================
