------------------------------ MODULE Pipeline ------------------------------
(***************************************************************************)
(* A full index: the pipeline that parses and stores, the pool that parses *)
(* for it, the resolution of the references this leaves and the synthesis  *)
(* of edges after that, and the valve on the log they write.  To the       *)
(* pipeline the pool is requests that come back in any order or fail, the  *)
(* valve a pause between two commits, and resolution begins when it is     *)
(* done, so each is checked beside the others and `which' says whose a     *)
(* behaviour is.                                                           *)
(***************************************************************************)
EXTENDS Indexing

CONSTANTS
  MaxJobs, ParseThreads, MaxSize, RecycleInterval, CrashBudget,  \* of ParsePool
  Rows, BatchSize, Workers, MaxCrashes,                          \* of BatchResolver
  Passes, Ends, Concurrency,                                     \* of Synthesis
  MaxTransaction, MaxPasses, MaxFrames                           \* of WalValve

VARIABLES
  which,
  pPool, pThread, pMail, pGone,
  bKind, bPending, bParked, bEdges, bPc, bBatch, bNext, bResult, bFlight, bDeferred,
  bPool, bFailed, bInbox, bMemo, bCrashes,
  sFinds, sGo, sLarge, sPool, sPhase, sAt, sOut, sMerged, sGoGraph, sGraph, sCulprits,
  vSize, vLog, vDone, vPin, vBaseline, vInflight, vPass, vPasses, vGiveUps, vFutile, vPc,
  vFrames, vFolded, vCrowded

P == INSTANCE ParsePool WITH
       Threads <- ParseThreads,
       pool <- pPool, thread <- pThread, mail <- pMail, gone <- pGone
B == INSTANCE BatchResolver WITH
       kind <- bKind, pending <- bPending, parked <- bParked, edges <- bEdges, pc <- bPc,
       batch <- bBatch, next <- bNext, result <- bResult, flight <- bFlight,
       deferred <- bDeferred, pool <- bPool, failed <- bFailed, inbox <- bInbox,
       memo <- bMemo, crashes <- bCrashes
S == INSTANCE Synthesis WITH
       finds <- sFinds, go <- sGo, large <- sLarge, pool <- sPool, phase <- sPhase,
       at <- sAt, out <- sOut, merged <- sMerged, goGraph <- sGoGraph, graph <- sGraph,
       culprits <- sCulprits
V == INSTANCE WalValve WITH
       size <- vSize, log <- vLog, done <- vDone, pin <- vPin, baseline <- vBaseline,
       inflight <- vInflight, pass <- vPass, passes <- vPasses, giveUps <- vGiveUps,
       futile <- vFutile, pc <- vPc, frames <- vFrames, folded <- vFolded,
       crowded <- vCrowded

ASSUME PipelineAssumption ==
  /\ P!ParsePoolAssumption /\ B!BatchResolverAssumption
  /\ S!SynthesisAssumption /\ V!WalValveAssumption

pVars == <<pPool, pThread, pMail, pGone>>
bVars == <<bKind, bPending, bParked, bEdges, bPc, bBatch, bNext, bResult, bFlight, bDeferred,
           bPool, bFailed, bInbox, bMemo, bCrashes>>
sVars == <<sFinds, sGo, sLarge, sPool, sPhase, sAt, sOut, sMerged, sGoGraph, sGraph,
           sCulprits>>
vVars == <<vSize, vLog, vDone, vPin, vBaseline, vInflight, vPass, vPasses, vGiveUps, vFutile,
           vPc, vFrames, vFolded, vCrowded>>
allVars == <<which, vars, pVars, bVars, sVars, vVars>>

\* The pool is shown with all its requests, and again with fewer of them for what
\* must happen in the end.
Pool == {"pool", "fewer"}

Parts == Init /\ P!Init /\ B!Init /\ S!Init /\ V!Init
AllInit == which \in Pool \cup {"indexing", "resolution", "synthesis", "log"} /\ Parts
AllNext ==
  /\ UNCHANGED which
  /\ \/ which = "indexing" /\ Next /\ UNCHANGED <<pVars, bVars, sVars, vVars>>
     \/ which \in Pool /\ P!Next /\ UNCHANGED <<vars, bVars, sVars, vVars>>
     \/ which = "resolution" /\ B!Next /\ UNCHANGED <<vars, pVars, sVars, vVars>>
     \/ which = "synthesis" /\ S!Next /\ UNCHANGED <<vars, pVars, bVars, vVars>>
     \/ which = "log" /\ V!Next /\ UNCHANGED <<vars, pVars, bVars, sVars>>
PipelineSpec == AllInit /\ [][AllNext]_allVars

\* The fairness of each, while it is the one that is shown.
Indexes(A) == which = "indexing" /\ A /\ UNCHANGED <<which, pVars, bVars, sVars, vVars>>
Pools(A) == which = "fewer" /\ A /\ UNCHANGED <<which, vars, bVars, sVars, vVars>>
Progress ==
  /\ UNCHANGED <<which, vars, pVars, vVars>>
  /\ \/ which = "resolution" /\ B!Progress /\ UNCHANGED sVars
     \/ which = "synthesis" /\ S!Progress /\ UNCHANGED bVars
Folds(A) == which = "log" /\ A /\ UNCHANGED <<which, vars, pVars, bVars, sVars>>
Fairness ==
  /\ WF_allVars(Indexes(Main)) /\ WF_allVars(Indexes(Parses))
  /\ WF_allVars(Indexes(Flush)) /\ WF_allVars(Indexes(Writer))
  /\ WF_allVars(Pools(P!MainThread))
  /\ WF_allVars(Pools(\E w \in ParseThreads : P!Load(w)))
  /\ WF_allVars(Progress)
  /\ WF_allVars(Folds(V!Checkpoints)) /\ WF_allVars(Folds(V!Writes))

-----------------------------------------------------------------------------
(* Each of the one that is shown.                                           *)

Shown(one, property) == which = one => property
PoolShown(property) == which \in Pool => property

\* The types of the state.
TypesOK ==
  /\ Shown("indexing", TypeOK) /\ PoolShown(P!TypeOK)
  /\ Shown("resolution", B!TypeOK) /\ Shown("synthesis", S!TypeOK)
  /\ Shown("log", V!TypeOK)

\* The pool: each worker in one place, each parse in one place and watched over,
\* and no parse that waits while nobody will turn to it; what waits is failed only
\* with the pool.
ParsesAreAccounted ==
  /\ [](PoolShown(P!WorkersHaveOnePlace /\ P!QueueIsServed /\ P!Accounted))
  /\ P!QueuedWorkIsNotFailedEarly

\* No reference is lost by the resolution that takes it up, nor left unattempted,
\* whoever dies meanwhile.
ReferencesAreKept == Shown("resolution", B!RowsOutliveTheirEdges /\ B!NothingIsAbandoned)

\* The graph does not depend on who resolves references, in which order the answers
\* come, and what fails; nor on who runs the passes of the synthesis.
SameGraphWhoeverWorks ==
  /\ Shown("resolution", B!SameGraphWhoeverResolves /\ B!DeferredInOrder)
  /\ Shown("synthesis", S!SameEdgesHoweverRun)

\* The log does not grow past its cap, and a fold that succeeds leaves nothing of it
\* to those who read next.
LogIsBounded == Shown("log", V!FileIsBounded /\ V!FoldedMeansFolded)

\* Indexing ends, every parse comes back, resolution and synthesis end, and the
\* valve lets the writer go on.
EverythingEnds ==
  []<>(/\ Shown("indexing", IndexingIsOver) /\ Shown("fewer", P!NoneIsOpen)
       /\ Shown("resolution", B!ResolutionIsOver) /\ Shown("synthesis", S!SynthesisIsOver)
       /\ Shown("log", V!ValveIsOver))
=============================================================================
