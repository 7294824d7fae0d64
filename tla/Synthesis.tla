----------------------------- MODULE Synthesis -----------------------------
(***************************************************************************)
(* How the edges that static parsing leaves out are synthesized:           *)
(* synthesizeCallbackEdges of src/resolution/callback-synthesizer.ts, on   *)
(* the pool of src/resolution/resolver-pool.ts if it outlived resolution.  *)
(* Two steps for Go run first and are inserted; then independent passes    *)
(* run, some at a time, and their edges are merged in the order of the     *)
(* registry, the first of two with the same ends.                          *)
(*                                                                         *)
(* An edge is [ends, by, saw]: its source and target, the pass that made   *)
(* it, and what was committed when the pass read the graph.                *)
(***************************************************************************)
EXTENDS Naturals, FiniteSets, FiniteSetsExt

CONSTANTS
  Passes,       \* 1 .. Passes, in the order of SYNTH_PASSES
  Ends,         \* pairs of source and target
  Concurrency   \* resolveSynthConcurrency: passes that run at a time

SynthesisAssumption == Passes \in Nat /\ Concurrency \in Nat

Registry == 1 .. Passes
GoSteps == {"contains", "implements"}  \* goCrossFileMethodContainsEdges, goImplementsEdges

VARIABLES
  finds,    \* the ends that each pass finds in this project
  go,       \* the project has Go files
  large,    \* more nodes than MAIN_RETRY_MAX_NODES
  pool,     \* none, live, or failed
  phase,    \* contains, implements, passes, insert, done, dropped
  at,       \* of each pass: todo, pool, rejected, main, done, skipped
  out,      \* passEdges
  merged,
  goGraph,  \* the steps of Go whose edges are committed
  graph,    \* the passes' edges that are committed
  culprits  \* history: the passes that killed their worker or failed on it

project == <<finds, go, large>>
vars == <<project, pool, phase, at, out, merged, goGraph, graph, culprits>>

Edges == [ends : Ends, by : Registry, saw : SUBSET (GoSteps \cup Ends)]

\* The types of the state.  Without a pool a pass is always on the main thread,
\* and one at a time.
TypeOK ==
  /\ finds \in [Registry -> SUBSET Ends] /\ go \in BOOLEAN /\ large \in BOOLEAN
  /\ pool \in {"none", "live", "failed"}
  /\ phase \in {"contains", "implements", "passes", "insert", "done", "dropped"}
  /\ at \in [Registry -> {"todo", "pool", "rejected", "main", "done", "skipped"}]
  /\ out \in [Registry -> SUBSET Edges] /\ merged \subseteq Edges
  /\ goGraph \subseteq GoSteps /\ graph \subseteq Edges
  /\ culprits \subseteq Registry
  /\ pool = "none" =>
       /\ \A i \in Registry : at[i] \in {"todo", "main", "done"}
       /\ Cardinality({i \in Registry : at[i] = "main"}) <= 1

Init ==
  /\ finds \in [Registry -> SUBSET Ends] /\ go \in BOOLEAN /\ large \in BOOLEAN
  /\ pool \in {"none", "live", "failed"}
  /\ phase = "contains"
  /\ at = [i \in Registry |-> "todo"] /\ out = [i \in Registry |-> {}]
  /\ merged = {} /\ goGraph = {} /\ graph = {} /\ culprits = {}

-----------------------------------------------------------------------------
\* Go's cross-file contains edges, then the implements edges, which are derived
\* from them.
GoStep ==
  /\ phase \in GoSteps
  /\ goGraph' = IF go THEN goGraph \cup {phase} ELSE goGraph
  /\ phase' = IF phase = "contains" THEN "implements" ELSE "passes"
  /\ UNCHANGED <<project, pool, at, out, merged, graph, culprits>>

\* What pass i makes of the graph it reads.
Committed == goGraph \cup {e.ends : e \in graph}
Made(i) == [ends : finds[i], by : {i}, saw : {Committed}]

Running == {i \in Registry : at[i] \in {"pool", "rejected", "main"}}
AtATime == IF pool = "none" THEN 1 ELSE Concurrency

\* A runner takes the next pass.  A pool that has failed rejects it at once.
Take(i) ==
  /\ phase = "passes" /\ at[i] = "todo" /\ \A j \in Registry : at[j] = "todo" => i <= j
  /\ Cardinality(Running) < AtATime
  /\ at' = [at EXCEPT ![i] = CASE pool = "none" -> "main"
                               [] pool = "live" -> "pool"
                               [] pool = "failed" -> "rejected"]
  /\ UNCHANGED <<project, pool, phase, out, merged, goGraph, graph, culprits>>

\* A pass ends: its edges are kept, and nothing is written.
Return(i) ==
  /\ phase = "passes"
  /\ at[i] = "main" \/ (at[i] = "pool" /\ i \notin culprits)
  /\ at' = [at EXCEPT ![i] = "done"]
  /\ out' = [out EXCEPT ![i] = Made(i)]
  /\ UNCHANGED <<project, pool, phase, merged, goGraph, graph, culprits>>

\* A pass throws on its worker: it alone is rejected.
ThrowOnPool(i) ==
  /\ phase = "passes" /\ at[i] = "pool"
  /\ at' = [at EXCEPT ![i] = "rejected"]
  /\ culprits' = culprits \cup {i}
  /\ UNCHANGED <<project, pool, phase, out, merged, goGraph, graph>>

\* A worker dies of a pass: all that wait for the pool are rejected.
WorkerDies(i) ==
  /\ phase = "passes" /\ at[i] = "pool" /\ pool = "live"
  /\ pool' = "failed"
  /\ at' = [j \in Registry |-> IF at[j] = "pool" THEN "rejected" ELSE at[j]]
  /\ culprits' = culprits \cup {i}
  /\ UNCHANGED <<project, phase, out, merged, goGraph, graph>>

\* runPassOnPool's catch: once more on the main thread, unless the graph is large.
SkippedAtScale == large
Retry(i) ==
  /\ phase = "passes" /\ at[i] = "rejected"
  /\ at' = [at EXCEPT ![i] = IF SkippedAtScale THEN "skipped" ELSE "main"]
  /\ UNCHANGED <<project, pool, phase, out, merged, goGraph, graph, culprits>>

\* A pass throws on the main thread: the caller ignores it, and all that was made
\* is dropped.
ThrowOnMain(i) ==
  /\ phase = "passes" /\ at[i] = "main"
  /\ phase' = "dropped"
  /\ UNCHANGED <<project, pool, at, out, merged, goGraph, graph, culprits>>

\* All have returned: merge in the order of the registry, first wins.
Flat == UNION {out[i] : i \in Registry}
LastWins == {e \in Flat : \A d \in Flat : d.ends = e.ends => d.by <= e.by}
FirstWins == {e \in Flat : \A d \in Flat : d.ends = e.ends => e.by <= d.by}
Merge ==
  /\ phase = "passes" /\ \A i \in Registry : at[i] \in {"done", "skipped"}
  /\ merged' = FirstWins
  /\ phase' = "insert"
  /\ UNCHANGED <<project, pool, at, out, goGraph, graph, culprits>>

\* Some at a time, and yields in between.
Insert ==
  /\ phase = "insert"
  /\ IF merged \subseteq graph
       THEN phase' = "done" /\ UNCHANGED graph
       ELSE \E e \in merged \ graph : graph' = graph \cup {e} /\ UNCHANGED phase
  /\ UNCHANGED <<project, pool, at, out, merged, goGraph, culprits>>

-----------------------------------------------------------------------------
Settles(i) == Take(i) \/ Return(i) \/ Retry(i)
Fails(i) == ThrowOnPool(i) \/ WorkerDies(i) \/ ThrowOnMain(i)
Next == GoStep \/ Merge \/ Insert \/ \E i \in Registry : Settles(i) \/ Fails(i)

Spec == Init /\ [][Next]_vars
\* Passes return or throw, and the loop of the main thread goes on.
Progress == GoStep \/ Merge \/ Insert \/ \E i \in Registry : Settles(i)
FairSpec == Spec /\ WF_vars(Progress)

-----------------------------------------------------------------------------
(* What the code promises.                                                  *)

\* The passes one after the other on one thread.
GoEdges == IF go THEN GoSteps ELSE {}
Sequential ==
  {[ends |-> d, by |-> Min({i \in Registry : d \in finds[i]}), saw |-> GoEdges] :
     d \in UNION {finds[i] : i \in Registry}}

\* "byte-identical to the pool path": with a pool or none, whichever pass ends
\* first and whatever fails, no edge differs from the sequential run's, and unless
\* a pass was skipped for the size of the graph none is missing.
SameEdgesHoweverRun ==
  /\ phase \in {"insert", "done"} /\ (\A i \in Registry : at[i] # "skipped") =>
       graph \subseteq Sequential
  /\ phase = "done" /\ ~large => graph = Sequential

\* Synthesis is over in the end.
SynthesisIsOver == phase \in {"done", "dropped"}
=============================================================================
