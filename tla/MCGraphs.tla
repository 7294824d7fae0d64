------------------------------ MODULE MCGraphs ------------------------------
(* Instances of BothGraphs for TLC: three files in a row and one name, or two *)
(* commands over three commits, two specs with a document and three that      *)
(* mining may add.                                                            *)
EXTENDS BothGraphs

CONSTANT x

\* Commit 1 names spec 1, commits 2 and 3 name spec 2, and all share a file.
MCScope == <<1, 2, 2>>
MCTouches == <<{"f"}, {"f"}, {"f", "g"}>>
MCMined == <<3, 4, 5>>
MCSpecs == 1..5
=============================================================================
