---------------------------- MODULE MCMessagePool ----------------------------
(***************************************************************************)
(* Two clients, a ring of two slots, and enough blocks to fill it, both    *)
(* clients' hands and one more.  No symmetry: liveness is checked.         *)
(***************************************************************************)
EXTENDS MessagePool

CONSTANTS c1, c2, c3, c4, c5

AllCmd    == {c1, c2, c3, c4, c5}
SomeProxy == {c1, c2}
=============================================================================
