----------------------------- MODULE BothGraphs -----------------------------
(***************************************************************************)
(* The graph of the code and that of the specs.  They are two databases    *)
(* that no step writes both of, so each is checked beside the other and    *)
(* `which' says whose a behaviour is.                                      *)
(***************************************************************************)
EXTENDS GraphSync

CONSTANTS Procs, Specs, Documents, Last, Scope, Touches, Mined, HasClient, MaxRuns,
          MayDie   \* of SpecGraph

VARIABLES which, sHead, sMeta, sGraph, sDisk, sLock, sWriter, sRun, sStarted, sTorn, sCut,
          sOverlapped

S == INSTANCE SpecGraph WITH
       head <- sHead, meta <- sMeta, graph <- sGraph, disk <- sDisk, lock <- sLock,
       writer <- sWriter, run <- sRun, started <- sStarted, torn <- sTorn, cut <- sCut,
       overlapped <- sOverlapped

ASSUME GraphsAssumption == S!SpecGraphAssumption

sVars == <<sHead, sMeta, sGraph, sDisk, sLock, sWriter, sRun, sStarted, sTorn, sCut,
           sOverlapped>>
allVars == <<which, vars, sVars>>

\* The one that is not shown rests in one of its initial states.
GraphsInit ==
  \/ which = "code" /\ Init /\ S!Fresh
  \/ which = "specs" /\ Init /\ Present(disk) = {} /\ unguessed = {} /\ S!Init
GraphsNext ==
  \/ which = "code" /\ Next /\ UNCHANGED <<which, sVars>>
  \/ which = "specs" /\ S!Next /\ UNCHANGED <<which, vars>>
GraphsSpec == GraphsInit /\ [][GraphsNext]_allVars

-----------------------------------------------------------------------------
\* The types of the state, of both; in the graph of the specs every foreign key finds
\* its row, and what evolved from a spec is a version of it.
TypesOK == TypeOK /\ S!TypeOK

\* The tables of the graph of specs describe the documents, unless a command was cut
\* between the two.
RecordsMatchTheFiles == S!RecordsMatchTheFiles

\* From a spec all its versions are reached, and a commit has its fragments.
GraphHangsTogether == S!VersionsAreChained /\ S!CommitsAreWhole

\* meta.json passes no commit its command took up and did not store.
AdvancesOverStored == S!AdvancesOverStored
=============================================================================
