---------------------------- MODULE MCIndexLock ----------------------------
(* Instances of IndexLock for TLC. *)
EXTENDS IndexLock
=============================================================================
