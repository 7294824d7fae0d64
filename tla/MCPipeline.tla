----------------------------- MODULE MCPipeline -----------------------------
(* A full index on small instances.                                          *)
EXTENDS Pipeline

CONSTANTS w1, w2, w3

\* Three files, two workers recycled after two parses, a spare identity.
MCThreads == {w1, w2, w3}

\* Two batches of two references, two workers, one death.
MCWorkers == {w1, w2}

\* Three passes, two at a time, that may find the same two edges.
MCEnds == {w1, w3}

\* What is not shown rests in one of its initial states, and of the pool that is
\* shown again two requests are made.
MCInit ==
  /\ AllInit
  /\ which # "resolution" => bKind = [r \in 1 .. Rows |-> "call"] /\ bPool = "untried"
  /\ which # "synthesis" =>
       sFinds = [i \in 1 .. Passes |-> {}] /\ ~sGo /\ ~sLarge /\ sPool = "none"
  /\ which # "log" => vSize = 0
MCNext == AllNext /\ (which = "fewer" => pPool'.outcome[3] = "none")
MCSpec == MCInit /\ [][MCNext]_allVars /\ Fairness
=============================================================================
