------------------------------- MODULE Watches -------------------------------
(***************************************************************************)
(* The watcher and, on Linux, the watches it sets.  The watches only say   *)
(* which files Watcher is to hand to a sync, and DirWatch keeps of a sync  *)
(* only what it is told to look at, so each is checked beside the other    *)
(* and `which' says whose a behaviour is.                                  *)
(***************************************************************************)
EXTENDS Watcher

CONSTANTS Root, Dirs, Sources, Parent, MaxDirs, MaxChanges   \* of DirWatch

VARIABLES
  which,
  wNode, wDisk, wIndex, wChanges, wEvents, wWatching, wDirWatchers,
  wInotifyLimitWarned, wWalk, wMarkExisting, wPendingFiles, wNeedsFullScan, wCatchUp,
  wRefused, wForgotten, wUnheard

W == INSTANCE DirWatch WITH
       Files <- Sources,
       node <- wNode, disk <- wDisk, index <- wIndex, changes <- wChanges,
       events <- wEvents, watching <- wWatching, dirWatchers <- wDirWatchers,
       inotifyLimitWarned <- wInotifyLimitWarned, walk <- wWalk,
       markExisting <- wMarkExisting, pendingFiles <- wPendingFiles,
       needsFullScan <- wNeedsFullScan, catchUp <- wCatchUp, refused <- wRefused,
       forgotten <- wForgotten, unheard <- wUnheard

ASSUME WatchesAssumption == W!DirWatchAssumption

wVars == <<wNode, wDisk, wIndex, wChanges, wEvents, wWatching, wDirWatchers,
           wInotifyLimitWarned, wWalk, wMarkExisting, wPendingFiles, wNeedsFullScan,
           wCatchUp, wRefused, wForgotten, wUnheard>>
allVars == <<which, vars, wVars>>

\* The one that is not shown rests in one of its initial states.
AllInit ==
  /\ which \in {"syncs", "watches"}
  /\ Init /\ W!Init
  /\ which = "syncs" => \A d \in Dirs : wNode[d] = 0
  /\ which = "watches" => disk = [f \in Files |-> 0]
Syncs(A) == which = "syncs" /\ A /\ UNCHANGED <<which, wVars>>
AllNext ==
  \/ Syncs(Next)
  \/ which = "watches" /\ W!Next /\ UNCHANGED <<which, vars>>
WatchesSpec == AllInit /\ [][AllNext]_allVars

\* The fairness of the event loop, while the watcher is shown.
FairWatchesSpec ==
  /\ WatchesSpec
  /\ WF_allVars(Syncs(Deliver)) /\ WF_allVars(Syncs(TimerFires))
  /\ WF_allVars(Syncs(SyncStep))

-----------------------------------------------------------------------------
\* The types of the state, of both.
TypesOK == TypeOK /\ W!TypeOK

\* What changes below a directory that is watched is heard of.
ChangesAreHeard == W!ChangesAreHeard
=============================================================================
