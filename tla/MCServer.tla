------------------------------ MODULE MCServer ------------------------------
(* A server on small instances, and beside it the walks over the graph that  *)
(* its answers come from.                                                    *)
EXTENDS Server

CONSTANTS c1, c2, c3, s1, s2, w1, w2

\* The sessions of a proxy, of a proxy whose close may be lost, and of a silent
\* client whose close may be lost.
MCConns == {c1, c2, c3}
MCSilent == {c3}
MCLossy == {c2, c3}

\* Two sessions with a call each, or one with two; two threads, of which one is a
\* worker; three calls of the cache that ask the same, of two files.
MCClients == {s1, s2}
MCToolCalls == {c1, c2}
MCThreads == {w1, w2}
MCFiles == {s1, s2}
MCKeys == {w1}
MCLookups == {c1, c2, c3}

VARIABLES tGraph, tQuery, tAnswer

\* The walks: 1 is a class with the method 2, 3 a class, 4 a function; calls go in
\* circles, over parallel edges and over longer ways round.
T == INSTANCE Traversal WITH
       Nodes <- {1, 2, 3, 4}, Containers <- {1, 3}, CallerCap <- 3,
       Rows <- <<<<1, 2, "contains">>, <<4, 2, "references">>, <<4, 2, "calls">>,
                 <<3, 2, "calls">>, <<3, 4, "calls">>, <<2, 4, "calls">>,
                 <<3, 1, "extends">>, <<1, 3, "calls">>>>,
       graph <- tGraph, query <- tQuery, answer <- tAnswer
tVars == <<tGraph, tQuery, tAnswer>>

\* The one that is not shown rests in one of its initial states.
MCInit ==
  /\ which \in {"sessions", "engine", "pool", "cache", "walk"}
  /\ Parts /\ T!Init
  /\ which # "engine" => ~eIndex /\ ~eDaemon /\ eBy = [c \in ToolCalls |-> s1]
  /\ which # "walk" => tGraph = {}
MCNext ==
  \/ AllNext /\ UNCHANGED tVars
  \/ which = "walk" /\ T!Next /\ UNCHANGED allVars
MCSpec == MCInit /\ [][MCNext]_<<allVars, tVars>> /\ Fairness

\* What a walk returns lies within the distance it is asked for, and without a limit
\* it is all there is.
AnswersAreRight == Shown("walk", T!TypeOK /\ T!AnswersAreRight)
=============================================================================
