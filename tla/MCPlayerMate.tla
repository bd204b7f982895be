----------------------------- MODULE MCPlayerMate -----------------------------
(* Up to MaxSem wakes may pile up before the mate notices the first. *)
EXTENDS PlayerMate
=============================================================================
