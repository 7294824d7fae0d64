---------------------------- MODULE MCGraphSync ----------------------------
(* Instances of GraphSync for TLC: three files in a row, and one name. *)
EXTENDS GraphSync

CONSTANT x
=============================================================================
