------------------------------ MODULE DirWatch ------------------------------
(***************************************************************************)
(* The watches of src/sync/watcher.ts on Linux, where a watch covers one   *)
(* directory: startPerDirectory(), watchTree(), handleDirEvent(),          *)
(* unwatchDir() and the limits they run into.                              *)
(*                                                                         *)
(* A walk runs on the JavaScript thread, but the disk changes under it: it *)
(* is cut at each fs.watch and each readdir.  A directory's node is a      *)
(* number that is new whenever the directory is, since a watch belongs to  *)
(* the node and dirWatchers to the path.  Of a sync only what it is told   *)
(* to look at is kept; Watcher takes it apart.  Directories that are       *)
(* ignored are left out.                                                   *)
(***************************************************************************)
EXTENDS Naturals, FiniteSets, SequencesExt

CONSTANTS
  Root,        \* projectRoot
  Dirs,        \* the directories that may be below it
  Files,       \* the source files that may be below it
  Parent,      \* the directory of each of them
  MaxDirs,     \* maxDirWatches()
  MaxChanges   \* bound of the model: changes made to the disk

AllDirs == {Root} \cup Dirs

\* The directory, its parent, and so on.
Upwards(S) == \A d \in S \cap Dirs : Parent[d] \in S
Above(d) == {e \in AllDirs : \A S \in SUBSET AllDirs : d \in S /\ Upwards(S) => e \in S}
Within(d) == {e \in Dirs : d \in Above(e)}
FilesIn(ds) == {f \in Files : Parent[f] \in ds}

\* The directories are a tree.
DirWatchAssumption ==
  /\ IsFiniteSet(Dirs) /\ Root \notin Dirs /\ Files \cap AllDirs = {}
  /\ \A x \in Dirs \cup Files : Parent[x] \in AllDirs
  /\ \A d \in AllDirs : Root \in Above(d)
  /\ MaxDirs \in Nat /\ MaxChanges \in Nat \ {0}

VARIABLES
  node,                \* of each directory, 0 if it is not there
  disk,                \* version of each file, 0 if it is not there
  index,               \* version of each file's row
  changes,             \* made so far; numbers nodes and versions
  events,              \* raised and not yet delivered, in order
  watching,            \* start() has succeeded and stop() not been called
  dirWatchers,         \* node each path's watch is on, 0 without an entry
  inotifyLimitWarned,
  walk,                \* what watchTree has still to do
  markExisting,        \* its argument
  pendingFiles,
  needsFullScan,
  catchUp,             \* the host's sync after start() is still to come
  refused,             \* history: paths that were not watched, by a limit or an
                       \* error, since a full sync last found them watched
  forgotten,           \* history: paths whose entry was found on another node
  unheard              \* history: files that went with, or from, a directory that
                       \* was not watched

diskVars  == <<node, disk, changes, unheard>>
watchVars == <<dirWatchers, inotifyLimitWarned, refused, forgotten>>
walkVars  == <<walk, markExisting>>
syncVars  == <<index, pendingFiles, needsFullScan, catchUp>>
vars == <<diskVars, events, watching, watchVars, walkVars, syncVars>>

Numbers == 0 .. MaxChanges
Watched == {d \in AllDirs : dirWatchers[d] # 0}
Live(d) == dirWatchers[d] # 0 /\ dirWatchers[d] = node[d]

Event == [at : AllDirs, of : AllDirs \cup Files]
Task == [do : {"watch", "list"}, dir : AllDirs]

TypeOK ==
  /\ node \in [AllDirs -> Numbers] /\ disk \in [Files -> Numbers]
  /\ index \in [Files -> Numbers] /\ changes \in Numbers
  /\ events \in Seq(Event)
  /\ watching \in BOOLEAN
  /\ dirWatchers \in [AllDirs -> Numbers] /\ Cardinality(Watched) <= MaxDirs
  /\ inotifyLimitWarned \in BOOLEAN
  /\ walk \in Seq(Task) /\ markExisting \in BOOLEAN
  /\ pendingFiles \subseteq Files
  /\ needsFullScan \in BOOLEAN /\ catchUp \in BOOLEAN
  /\ refused \subseteq AllDirs /\ forgotten \subseteq AllDirs /\ unheard \subseteq Files
  /\ ~watching => Watched = {} /\ events = <<>> /\ walk = <<>>

\* A project that is not watched yet, indexed as it stands.
Init ==
  /\ node \in [AllDirs -> {0, 1}] /\ node[Root] = 1
  /\ \A d \in Dirs : node[d] # 0 => node[Parent[d]] # 0
  /\ disk \in [Files -> {0, 1}]
  /\ \A f \in Files : disk[f] # 0 => node[Parent[f]] # 0
  /\ index = disk /\ changes = 1
  /\ events = <<>> /\ watching = FALSE
  /\ dirWatchers = [d \in AllDirs |-> 0] /\ inotifyLimitWarned = FALSE
  /\ walk = <<>> /\ markExisting = FALSE
  /\ pendingFiles = {} /\ needsFullScan = FALSE /\ catchUp = FALSE
  /\ refused = {} /\ forgotten = {} /\ unheard = {}

-----------------------------------------------------------------------------
(* The disk, and fs.watch on it.  An entry that comes, goes or changes      *)
(* raises an event of its name at the watch of its directory; a directory   *)
(* that goes raises one of its own name at its own watch, which stays open. *)

Raise(at, of) == IF Live(at) THEN <<[at |-> at, of |-> of]>> ELSE <<>>

\* A file that goes is heard of by the watch of the directory it goes with, or from.
Change(newNode, newDisk, from, raised) ==
  /\ changes < MaxChanges
  /\ changes' = changes + 1
  /\ node' = newNode /\ disk' = newDisk
  /\ events' = events \o raised
  /\ unheard' = {f \in Files :
                   newDisk[f] = 0 /\ (f \in unheard \/ (disk[f] # 0 /\ ~Live(from)))}
  /\ UNCHANGED <<watching, watchVars, walkVars, syncVars>>

Save(f) ==
  /\ node[Parent[f]] # 0
  /\ Change(node, [disk EXCEPT ![f] = changes + 1], Parent[f], Raise(Parent[f], f))

Unlink(f) ==
  /\ disk[f] # 0
  /\ Change(node, [disk EXCEPT ![f] = 0], Parent[f], Raise(Parent[f], f))

\* mkdir, or a directory moved in with all that it has below it.
Appear(d, below, files) ==
  /\ node[d] = 0 /\ node[Parent[d]] # 0
  /\ Change([e \in AllDirs |-> IF e \in {d} \cup below THEN changes + 1 ELSE node[e]],
            [f \in Files |-> IF f \in files THEN changes + 1 ELSE disk[f]],
            Parent[d], Raise(Parent[d], d))

\* rmdir.
RemoveDir(d) ==
  /\ node[d] # 0
  /\ \A e \in Dirs : Parent[e] = d => node[e] = 0
  /\ \A f \in FilesIn({d}) : disk[f] = 0
  /\ Change([node EXCEPT ![d] = 0], disk, d, Raise(d, d) \o Raise(Parent[d], d))

\* A directory is moved out of the project with all that it has below it.
MoveAway(d) ==
  /\ node[d] # 0
  /\ Change([e \in AllDirs |-> IF e \in Within(d) THEN 0 ELSE node[e]],
            [f \in Files |-> IF f \in FilesIn(Within(d)) THEN 0 ELSE disk[f]],
            d, Raise(Parent[d], d) \o Raise(d, d))

DiskChanges ==
  \/ \E f \in Files : Save(f) \/ Unlink(f)
  \/ \E d \in Dirs :
       \/ RemoveDir(d)
       \/ MoveAway(d)
       \/ \E below \in SUBSET {e \in Dirs : Parent[e] = d} :
          \E files \in SUBSET FilesIn({d} \cup below) : Appear(d, below, files)

-----------------------------------------------------------------------------
(* start() and stop().                                                      *)

Start ==
  /\ ~watching
  /\ watching' = TRUE
  /\ walk' = <<[do |-> "watch", dir |-> Root]>> /\ markExisting' = FALSE
  /\ catchUp' = TRUE
  /\ UNCHANGED <<diskVars, events, watchVars, index, pendingFiles, needsFullScan>>

\* needsFullScan is left as it is.
Stopped ==
  /\ watching' = FALSE
  /\ events' = <<>> /\ walk' = <<>>
  /\ dirWatchers' = [d \in AllDirs |-> 0] /\ inotifyLimitWarned' = FALSE
  /\ pendingFiles' = {} /\ catchUp' = FALSE
  /\ refused' = {} /\ forgotten' = {}
  /\ UNCHANGED <<diskVars, markExisting, index, needsFullScan>>

Stop == watching /\ walk = <<>> /\ Stopped

-----------------------------------------------------------------------------
(* watchTree().                                                             *)

ToDo(do) == walk # <<>> /\ Head(walk).do = do
Here == Head(walk).dir

\* What it does not watch: a path that has an entry, and any once a limit is met.
Skips(d) == inotifyLimitWarned \/ d \in Watched \/ Cardinality(Watched) >= MaxDirs

SkipDir ==
  /\ ToDo("watch") /\ Skips(Here)
  /\ walk' = Tail(walk)
  /\ refused' = IF Here \in Watched THEN refused ELSE refused \cup {Here}
  /\ forgotten' = IF Here \notin Watched \/ Live(Here) THEN forgotten
                                                       ELSE forgotten \cup {Here}
  /\ UNCHANGED <<diskVars, events, watching, dirWatchers, inotifyLimitWarned,
                 markExisting, syncVars>>

WatchDir ==
  /\ ToDo("watch") /\ ~Skips(Here)
  /\ dirWatchers' = [dirWatchers EXCEPT ![Here] = node[Here]]
  /\ walk' = (IF node[Here] = 0 THEN <<>> ELSE <<[do |-> "list", dir |-> Here]>>)
             \o Tail(walk)
  /\ UNCHANGED <<diskVars, events, watching, inotifyLimitWarned, refused, forgotten,
                 markExisting, syncVars>>

\* ENOSPC: the kernel has no watch left; those that are set are kept.
WatchHitsLimit ==
  /\ ToDo("watch") /\ ~Skips(Here) /\ node[Here] # 0
  /\ inotifyLimitWarned' = TRUE
  /\ refused' = refused \cup {Here}
  /\ walk' = Tail(walk)
  /\ UNCHANGED <<diskVars, events, watching, dirWatchers, forgotten, markExisting,
                 syncVars>>

\* EMFILE, ENFILE: degrade().
WatchExhausts == ToDo("watch") /\ ~Skips(Here) /\ Stopped

\* The files of a listing that are queued: those of a directory that is new.
QueuesNone(files) == {}
Queued(files) == IF markExisting THEN files ELSE {}

\* readdir, now that the watch is set, in any order.
ListDir ==
  /\ ToDo("list")
  /\ \E order \in SetToSeqs({e \in Dirs : Parent[e] = Here /\ node[e] # 0}) :
       walk' = [i \in DOMAIN order |-> [do |-> "watch", dir |-> order[i]]]
               \o Tail(walk)
  /\ pendingFiles' =
       pendingFiles \cup Queued({f \in FilesIn({Here}) : disk[f] # 0})
  /\ UNCHANGED <<diskVars, events, watching, watchVars, markExisting, index,
                 needsFullScan, catchUp>>

-----------------------------------------------------------------------------
(* Callbacks.                                                               *)

Idle == watching /\ walk = <<>>

Delivered(do) ==
  /\ Idle /\ events # <<>>
  /\ do
  /\ events' = Tail(events)
  /\ UNCHANGED <<diskVars, watching, watchVars, index, catchUp>>

\* handleChange on a source file.
HandleFile ==
  Delivered(/\ Head(events).of \in Files
            /\ pendingFiles' = pendingFiles \cup {Head(events).of}
            /\ UNCHANGED <<walkVars, needsFullScan>>)

\* The path is a directory, and may be a new one.
HandleDir ==
  Delivered(LET e == Head(events)
            IN  /\ e.of \in Dirs \ {e.at} /\ node[e.of] # 0
                /\ walk' = <<[do |-> "watch", dir |-> e.of]>>
                /\ markExisting' = TRUE
                /\ UNCHANGED <<pendingFiles, needsFullScan>>)

\* There is nothing at the path: maybeScheduleForRemovedDir.  The event a directory
\* raises at its own watch names a path below it, which does not exist either.
HandleGone ==
  Delivered(LET e == Head(events)
            IN  /\ e.of \in Dirs /\ (e.of = e.at \/ node[e.of] = 0)
                /\ needsFullScan' = TRUE
                /\ UNCHANGED <<walkVars, pendingFiles>>)

\* The events that were raised elsewhere, in order.
Elsewhere(d) ==
  LET Left == {i \in DOMAIN events : events[i].at # d}
      Place(i) == Cardinality({j \in Left : j <= i})
  IN [k \in 1 .. Cardinality(Left) |-> events[CHOOSE i \in Left : Place(i) = k]]

\* A watch reports an error: unwatchDir closes it, so that what it has raised is not
\* delivered, and after an ENOSPC no more are set.
WatchError(d) ==
  /\ Idle /\ d \in Watched
  /\ inotifyLimitWarned' \in {inotifyLimitWarned, TRUE}
  /\ dirWatchers' = [dirWatchers EXCEPT ![d] = 0]
  /\ events' = Elsewhere(d)
  /\ refused' = refused \cup {d}
  /\ UNCHANGED <<diskVars, watching, forgotten, walkVars, syncVars>>

\* The directories of `ds' that a full sync does not settle: their rows are right
\* then, but the watch is not.
Unsettled(ds) == {d \in ds : node[d] # 0 /\ ~Live(d)}

\* The debounced sync, of the pending files or of all.
Sync ==
  /\ Idle /\ (pendingFiles # {} \/ needsFullScan)
  /\ index' = [f \in Files |-> IF needsFullScan \/ f \in pendingFiles THEN disk[f]
                                                                      ELSE index[f]]
  /\ pendingFiles' = {} /\ needsFullScan' = FALSE
  /\ refused' = IF needsFullScan THEN Unsettled(refused) ELSE refused
  /\ forgotten' = IF needsFullScan THEN Unsettled(forgotten) ELSE forgotten
  /\ UNCHANGED <<diskVars, events, watching, dirWatchers, inotifyLimitWarned, walkVars,
                 catchUp>>

\* The host's sync after start().
CatchUp ==
  /\ Idle /\ catchUp
  /\ catchUp' = FALSE
  /\ index' = disk
  /\ refused' = Unsettled(refused) /\ forgotten' = Unsettled(forgotten)
  /\ UNCHANGED <<diskVars, events, watching, dirWatchers, inotifyLimitWarned, walkVars,
                 pendingFiles, needsFullScan>>

Next ==
  \/ DiskChanges
  \/ Start \/ Stop
  \/ SkipDir \/ WatchDir \/ WatchHitsLimit \/ WatchExhausts \/ ListDir
  \/ HandleFile \/ HandleDir \/ HandleGone
  \/ \E d \in AllDirs : WatchError(d)
  \/ Sync \/ CatchUp

Spec == Init /\ [][Next]_vars

-----------------------------------------------------------------------------
(* What the watches promise.                                                *)

\* Nothing that happens at or below the path need be heard.
Deaf(d) == Above(d) \cap (refused \cup forgotten) # {}

\* Once all events are delivered, whatever the disk did during the walks and between
\* them, every directory is watched, and every file whose row is out of date is queued
\* or a full scan is owed (watchTree's comment, 462-471: files written before the watch
\* is set are recorded).  The exceptions are what is at or below a directory that the
\* limits or an error left unwatched; a directory that was there before, whose entry
\* nothing removes though unwatchDir is to "forget the watch for a directory that
\* errored/was removed" (624); and a file a sync saw in a new directory, and that was
\* removed before the watch was set.
ChangesAreHeard ==
  Idle /\ events = <<>> /\ ~catchUp =>
    /\ \A d \in AllDirs : node[d] # 0 => Live(d) \/ Deaf(d)
    /\ \A f \in Files \ unheard : index[f] # disk[f] =>
         f \in pendingFiles \/ needsFullScan \/ Deaf(Parent[f])
=============================================================================
