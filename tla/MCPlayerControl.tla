---------------------------- MODULE MCPlayerControl ----------------------------
(* Clients, blocks and pthread_t values have no order among themselves. *)
EXTENDS PlayerControl, TLC
Interchangeable == Permutations(Client) \cup Permutations(Block) \cup Permutations(Tid)
=============================================================================
