------------------------------ MODULE MCPidPool ------------------------------
(* Four ids, enough for the search to wrap, to skip an id and to run out. *)
EXTENDS PidPool
=============================================================================
