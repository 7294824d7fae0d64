---------------------------- MODULE MCTraversal ----------------------------
(* Instances of Traversal for TLC: two classes, a method and a function. *)
EXTENDS Traversal

\* 1 is a class with the method 2, 3 a class, 4 a function, which may be one of its
\* methods; calls go in circles, over parallel edges and over longer ways round.
MCRows ==
  <<<<1, 2, "contains">>, <<3, 4, "contains">>, <<4, 2, "references">>, <<4, 2, "calls">>,
    <<3, 2, "calls">>, <<3, 4, "calls">>, <<1, 3, "calls">>, <<2, 4, "calls">>,
    <<3, 1, "extends">>, <<2, 1, "references">>>>
=============================================================================
