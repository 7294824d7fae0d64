------------------------------ MODULE MCWatches ------------------------------
(* Instances of Watches for TLC: a file and one in a removable directory, and *)
(* three directories, one below another.                                      *)
EXTENDS Watches

CONSTANTS f1, d1

MCParent == <<0, 1, 0, 1, 2>>
=============================================================================
