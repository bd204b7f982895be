--------------------------- MODULE MCPlayerThread ---------------------------
(***************************************************************************)
(* PlayerThread for TLC.  The callers are model values; the commands are   *)
(* the strings of the module, so a configuration lists those its question  *)
(* needs.                                                                  *)
(***************************************************************************)
EXTENDS PlayerThread
=============================================================================
