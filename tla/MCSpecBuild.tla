---------------------------- MODULE MCSpecBuild ----------------------------
(* An instance of SpecGraph for TLC: two commits that name one spec. *)
EXTENDS SpecGraph

MCScope == <<1, 1>>
MCTouches == <<{"f"}, {"g"}>>
MCMined == <<2, 3>>
MCSpecs == 1..3
=============================================================================
