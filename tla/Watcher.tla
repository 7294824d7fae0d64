------------------------------ MODULE Watcher ------------------------------
(***************************************************************************)
(* The file watcher of src/sync/watcher.ts (class FileWatcher), the sync   *)
(* callback HomeGraph.watch hands to it (src/index.ts), and the part of    *)
(* ExtractionOrchestrator.sync (src/extraction/index.ts) that decides what *)
(* the index records about each file.                                      *)
(*                                                                         *)
(* Everything runs on one JavaScript thread, so a callback is one atomic   *)
(* action; the sync is cut at its awaits (the index mutex, the scan, each  *)
(* file), and edits, events, timers, stop() and start() fall between them. *)
(*                                                                         *)
(* A file's content is a version number, 0 standing for "not on disk" and  *)
(* "no row in the index".  Of the timestamps, only the outcome of the one  *)
(* comparison the code makes with them, lastSeenMs <= syncStartedMs, is    *)
(* kept: seenBeforeSync is the set of pending files it is true of.         *)
(***************************************************************************)
EXTENDS Naturals, FiniteSets

CONSTANTS
  Files,            \* source files inside the watch scope
  Dir,              \* those of them that live in one removable directory
  DirPath,          \* that directory's own path, the subject of one OS event
  ScopedMax,        \* SCOPED_SYNC_MAX_PENDING
  MaxLockRetries,   \* MAX_LOCK_RETRIES
  MaxSyncFailures,  \* MAX_SYNC_FAILURE_RETRIES
  MaxEdits          \* bound of the model: changes made to the disk

ASSUME WatcherAssumption ==
  /\ Dir \subseteq Files
  /\ DirPath \notin Files
  /\ ScopedMax \in Nat
  /\ MaxLockRetries \in Nat \ {0}
  /\ MaxSyncFailures \in Nat \ {0}
  /\ MaxEdits \in Nat \ {0}

VARIABLES
  disk,                   \* version of each file on disk
  index,                  \* version of each file recorded in the index
  edits,                  \* changes made so far; numbers the versions
  osEvents,               \* fs.watch events raised and not yet delivered
  reported,               \* history: how each file's last edit since the watch set
                          \* was installed reaches the watcher, "none" without one,
                          \* "tie" if within the millisecond a sync started
  ready,                  \* the watch set is installed (also: isActive())
  stopped,
  degraded,               \* degradedReason # null
  debounceTimer,          \* a timer is armed
  pendingFiles,           \* keys of pendingFiles
  seenBeforeSync,         \* pending files with lastSeenMs <= syncStartedMs
  sameMs,                 \* Date.now() still equals syncStartedMs
  needsFullScan,
  lockRetryCount,
  syncFailureRetryCount,
  failedInARow,           \* history: failed syncs since a clean one or a start
  sync,                   \* where the awaited syncFn is
  scoped,                 \* flush passed it explicit paths
  todo,                   \* files it has still to reconcile
  currentFiles            \* files its scan found on disk

diskVars  == <<disk, edits, reported>>
watchVars == <<ready, stopped, degraded, reported, osEvents>>
pendVars  == <<pendingFiles, seenBeforeSync>>
countVars == <<lockRetryCount, syncFailureRetryCount, failedInARow>>
syncVars  == <<sync, scoped, todo, currentFiles>>
vars == <<disk, index, edits, osEvents, reported, ready, stopped, degraded,
          debounceTimer, pendingFiles, seenBeforeSync, sameMs, needsFullScan,
          lockRetryCount, syncFailureRetryCount, failedInARow, sync, scoped,
          todo, currentFiles>>

Versions == 0 .. MaxEdits
syncing  == sync # "idle"
OnDisk   == {f \in Files : disk[f] # 0}

\* The types of the state.  pendingFiles holds files, never a directory's path.
TypeOK ==
  /\ disk \in [Files -> Versions]
  /\ index \in [Files -> Versions]
  /\ edits \in Versions
  /\ osEvents \subseteq Files \cup {DirPath}
  /\ reported \in [Files -> {"none", "file", "dir", "tie"}]
  /\ ready \in BOOLEAN /\ stopped \in BOOLEAN /\ degraded \in BOOLEAN
  /\ debounceTimer \in BOOLEAN
  /\ pendingFiles \subseteq Files
  /\ seenBeforeSync \subseteq pendingFiles
  /\ sameMs \in BOOLEAN
  /\ needsFullScan \in BOOLEAN
  /\ lockRetryCount \in Nat
  /\ syncFailureRetryCount \in Nat
  /\ failedInARow \in Nat
  /\ sync \in {"idle", "waiting", "running"}
  /\ scoped \in BOOLEAN
  /\ todo \subseteq Files
  /\ currentFiles \subseteq Files

Init ==
  /\ disk \in [Files -> {0, 1}] /\ index = disk /\ edits = 1
  /\ osEvents = {} /\ reported = [f \in Files |-> "none"]
  /\ ready = FALSE /\ stopped = FALSE /\ degraded = FALSE
  /\ debounceTimer = FALSE
  /\ pendingFiles = {} /\ seenBeforeSync = {} /\ sameMs = FALSE
  /\ needsFullScan = FALSE
  /\ lockRetryCount = 0 /\ syncFailureRetryCount = 0 /\ failedInARow = 0
  /\ sync = "idle" /\ scoped = FALSE /\ todo = {} /\ currentFiles = {}

-----------------------------------------------------------------------------
(* The project on disk.  A save or a deletion raises an event on the file;  *)
(* removing the directory raises one event on the directory's path only,    *)
(* which is what the comment at maybeScheduleForRemovedDir describes.       *)

Raise(events) == osEvents' = IF ready THEN osEvents \cup events ELSE osEvents

\* `files' change to `newDisk'; the events raised name them or their directory.
DiskStep(newDisk, files, events, how) ==
  /\ edits < MaxEdits
  /\ edits' = edits + 1
  /\ disk' = newDisk
  /\ Raise(events)
  /\ reported' = [f \in Files |-> IF ready /\ f \in files THEN how
                                                          ELSE reported[f]]
  /\ UNCHANGED <<index, ready, stopped, degraded, debounceTimer, sameMs,
                 needsFullScan, pendVars, countVars, syncVars>>

Save(f) == DiskStep([disk EXCEPT ![f] = edits + 1], {f}, {f}, "file")

Delete(f) ==
  /\ disk[f] # 0
  /\ DiskStep([disk EXCEPT ![f] = 0], {f}, {f}, "file")

RemoveDir ==
  LET gone == Dir \cap OnDisk
  IN  /\ gone # {}
      /\ DiskStep([f \in Files |-> IF f \in gone THEN 0 ELSE disk[f]],
                  gone, {DirPath}, "dir")

-----------------------------------------------------------------------------
(* Event handlers.                                                          *)

\* handleChange on a source file: pending, stamped now, debounce re-armed.
HandleChange(f) ==
  /\ f \in osEvents
  /\ osEvents' = osEvents \ {f}
  /\ pendingFiles' = pendingFiles \cup {f}
  /\ seenBeforeSync' = IF sameMs THEN seenBeforeSync \cup {f}
                                 ELSE seenBeforeSync \ {f}
  /\ reported' = IF sameMs /\ reported[f] = "file"
                    THEN [reported EXCEPT ![f] = "tie"] ELSE reported
  /\ debounceTimer' = TRUE
  /\ UNCHANGED <<disk, edits, index, ready, stopped, degraded, sameMs,
                 needsFullScan, countVars, syncVars>>

\* The directory's own path queued like a source file's.
QueuesTheDirectory ==
  /\ DirPath \in osEvents
  /\ osEvents' = osEvents \ {DirPath}
  /\ pendingFiles' = pendingFiles \cup {DirPath}
  /\ debounceTimer' = TRUE
  /\ UNCHANGED <<index, diskVars, ready, stopped, degraded, sameMs,
                 needsFullScan, seenBeforeSync, countVars, syncVars>>

\* maybeScheduleForRemovedDir: the path is gone only if nothing is left in it.
HandleRemovedDir ==
  /\ DirPath \in osEvents
  /\ osEvents' = osEvents \ {DirPath}
  /\ IF Dir \cap OnDisk = {}
       THEN needsFullScan' = TRUE /\ debounceTimer' = TRUE
       ELSE UNCHANGED <<needsFullScan, debounceTimer>>
  /\ UNCHANGED <<index, diskVars, ready, stopped, degraded, sameMs,
                 pendVars, countVars, syncVars>>

\* The clock leaves the millisecond in which the last sync started.
Tick ==
  /\ sameMs
  /\ sameMs' = FALSE
  /\ UNCHANGED <<disk, index, edits, watchVars, debounceTimer, needsFullScan,
                 pendVars, countVars, syncVars>>

-----------------------------------------------------------------------------
(* start(), stop() and degrade().                                           *)

\* What stop() leaves behind.  Not reset: degradedReason, needsFullScan and
\* the flag of a sync that is still awaited.
Stopped ==
  /\ stopped' = TRUE
  /\ ready' = FALSE
  /\ debounceTimer' = FALSE
  /\ pendingFiles' = {} /\ seenBeforeSync' = {}
  /\ lockRetryCount' = 0 /\ syncFailureRetryCount' = 0 /\ failedInARow' = 0
  /\ osEvents' = {} /\ reported' = [f \in Files |-> "none"]

Stop ==
  /\ Stopped
  /\ UNCHANGED <<disk, index, edits, degraded, sameMs, needsFullScan, syncVars>>

\* EMFILE/ENFILE from a live watch: degrade(EXHAUSTION_REASON).
WatchError ==
  /\ ready
  /\ degraded' = TRUE
  /\ Stopped
  /\ UNCHANGED <<disk, index, edits, sameMs, needsFullScan, syncVars>>

\* start() succeeds, is skipped by watchDisabledReason, runs out of watch
\* resources (degrade) or fails otherwise (stop).
StartOk ==
  /\ ~ready
  /\ ready' = TRUE /\ stopped' = FALSE /\ degraded' = FALSE
  /\ pendingFiles' = {} /\ seenBeforeSync' = {}
  /\ lockRetryCount' = 0 /\ syncFailureRetryCount' = 0 /\ failedInARow' = 0
  /\ UNCHANGED <<diskVars, index, osEvents, debounceTimer, sameMs,
                 needsFullScan, syncVars>>

StartDisabled ==
  /\ ~ready
  /\ stopped' = FALSE /\ degraded' = FALSE
  /\ lockRetryCount' = 0 /\ syncFailureRetryCount' = 0 /\ failedInARow' = 0
  /\ UNCHANGED <<diskVars, index, osEvents, ready, debounceTimer, sameMs,
                 needsFullScan, pendVars, syncVars>>

StartFails ==
  /\ ~ready
  /\ degraded' \in BOOLEAN
  /\ Stopped
  /\ UNCHANGED <<disk, index, edits, sameMs, needsFullScan, syncVars>>

-----------------------------------------------------------------------------
(* flush(): the debounce timer fires.                                       *)

FlushSkipped ==
  /\ debounceTimer
  /\ syncing \/ stopped
  /\ debounceTimer' = FALSE
  /\ UNCHANGED <<disk, index, edits, watchVars, sameMs, needsFullScan,
                 pendVars, countVars, syncVars>>

ScopedSync ==
  ~needsFullScan /\ pendingFiles # {} /\ Cardinality(pendingFiles) <= ScopedMax

Flush ==
  /\ debounceTimer
  /\ ~syncing /\ ~stopped
  /\ debounceTimer' = FALSE
  /\ sync' = "waiting"
  /\ seenBeforeSync' = pendingFiles
  /\ sameMs' = TRUE
  /\ scoped' = ScopedSync
  /\ todo' = IF ScopedSync THEN pendingFiles ELSE Files
  /\ currentFiles' = {}
  /\ UNCHANGED <<disk, index, edits, watchVars, needsFullScan, pendingFiles,
                 countVars>>

\* The index mutex and the file lock are ours; the scan lists the disk.
SyncBegins ==
  /\ sync = "waiting"
  /\ sync' = "running"
  /\ currentFiles' = todo \cap OnDisk
  /\ UNCHANGED <<disk, index, edits, watchVars, debounceTimer, sameMs,
                 needsFullScan, pendVars, countVars, scoped, todo>>

\* One file is reconciled: a row whose file the scan did not list, or that is
\* gone when the removal pass reaches it, is deleted; a file listed but gone by
\* the time it is read is skipped; any other is indexed as it is on disk now.
SyncFile(f) ==
  /\ sync = "running"
  /\ f \in todo
  /\ todo' = todo \ {f}
  /\ \/ /\ f \notin currentFiles \/ disk[f] = 0
        /\ index' = [index EXCEPT ![f] = 0]
     \/ /\ f \in currentFiles /\ disk[f] = 0
        /\ UNCHANGED index
     \/ /\ f \in currentFiles /\ disk[f] # 0
        /\ index' = [index EXCEPT ![f] = disk[f]]
  /\ UNCHANGED <<disk, edits, watchVars, debounceTimer, sameMs, needsFullScan,
                 pendVars, countVars, sync, scoped, currentFiles>>

\* The finally block: the sync is over, and what is pending gets another pass.
MissingReschedule == UNCHANGED debounceTimer
Reschedule ==
  debounceTimer' = (debounceTimer \/ (pendingFiles' # {} /\ ~stopped))

SyncOver == sync' = "idle" /\ todo' = {} /\ currentFiles' = {} /\ scoped' = FALSE

\* Entries an event touched after the sync started stay for the next one.
ClearsEverything == {}
StillPending == pendingFiles \ seenBeforeSync

SyncSucceeds ==
  /\ sync = "running" /\ todo = {}
  /\ SyncOver
  /\ needsFullScan' = IF scoped THEN needsFullScan ELSE FALSE
  /\ lockRetryCount' = 0 /\ syncFailureRetryCount' = 0 /\ failedInARow' = 0
  /\ pendingFiles' = StillPending
  /\ seenBeforeSync' = {}
  /\ Reschedule
  /\ UNCHANGED <<disk, index, edits, watchVars, sameMs>>

\* A failed sync keeps every pending entry and is tried again.
Retry(lockFailures, otherFailures) ==
  /\ lockRetryCount' = lockFailures
  /\ syncFailureRetryCount' = otherFailures
  /\ failedInARow' = failedInARow + 1
  /\ UNCHANGED <<ready, stopped, reported, osEvents, pendVars>>
  /\ Reschedule

RetryLater(lockFailures, otherFailures) ==
  Retry(lockFailures, otherFailures) /\ UNCHANGED degraded

\* degrade() without the stop() it ends with.
GiveUpKeepsWatching(lockFailures, otherFailures) ==
  degraded' = TRUE /\ Retry(lockFailures, otherFailures)

\* degrade() is a no-op on a watcher that has already degraded.
GiveUp(lockFailures, otherFailures) ==
  IF degraded
    THEN RetryLater(lockFailures, otherFailures)
    ELSE degraded' = TRUE /\ Stopped

LockFailureForgivesErrors ==
  IF lockRetryCount + 1 > MaxLockRetries
    THEN GiveUp(lockRetryCount + 1, 0)
    ELSE RetryLater(lockRetryCount + 1, 0)
OnLockUnavailable ==
  IF lockRetryCount + 1 > MaxLockRetries
    THEN GiveUp(lockRetryCount + 1, syncFailureRetryCount)
    ELSE RetryLater(lockRetryCount + 1, syncFailureRetryCount)

OnSyncError ==
  IF syncFailureRetryCount + 1 > MaxSyncFailures
    THEN GiveUp(0, syncFailureRetryCount + 1)
    ELSE RetryLater(0, syncFailureRetryCount + 1)

\* Another process holds the file lock: sync() returns its zero shape.
SyncRefused ==
  /\ sync = "waiting"
  /\ SyncOver
  /\ OnLockUnavailable
  /\ UNCHANGED <<disk, index, edits, sameMs, needsFullScan>>

\* A full sync that lists no file and takes no measurable time returns the
\* same zero shape, which HomeGraph.watch takes for a lock failure.
SyncLooksRefused ==
  /\ sync = "running" /\ todo = {} /\ ~scoped /\ currentFiles = {}
  /\ SyncOver
  /\ OnLockUnavailable
  /\ UNCHANGED <<disk, index, edits, sameMs, needsFullScan>>

\* Any other error, at any point; what was indexed so far stays.
SyncFails ==
  /\ syncing
  /\ SyncOver
  /\ OnSyncError
  /\ UNCHANGED <<disk, index, edits, sameMs, needsFullScan>>

-----------------------------------------------------------------------------
Edit  == (\E f \in Files : Save(f) \/ Delete(f)) \/ RemoveDir
Deliver == (\E f \in Files : HandleChange(f)) \/ HandleRemovedDir
Start == StartOk \/ StartDisabled \/ StartFails
TimerFires == FlushSkipped \/ Flush
SyncStep ==
  \/ SyncBegins
  \/ \E f \in Files : SyncFile(f)
  \/ SyncSucceeds
  \/ SyncRefused
  \/ SyncLooksRefused
  \/ SyncFails

Next == Edit \/ Deliver \/ Tick \/ Start \/ Stop \/ WatchError \/ TimerFires \/ SyncStep

Spec == Init /\ [][Next]_vars

\* Events are delivered, timers fire and an awaited sync settles.  Nothing
\* obliges anybody to edit, to start or to stop.
FairSpec == Spec /\ WF_vars(Deliver) /\ WF_vars(TimerFires) /\ WF_vars(SyncStep)

-----------------------------------------------------------------------------
(* What the watcher promises.                                               *)

\* The files whose row lags the disk though nothing says so: not pending, and
\* the OS has delivered their event.
Unflagged(f) == index[f] # disk[f] /\ f \notin pendingFiles \cup osEvents

\* The staleness signal of getPendingFiles: while the watcher is installed, a
\* file that was edited since is pending for as long as its row lags, unless
\* its event was handled in the very millisecond in which a sync started.
StaleIsFlagged == ready => \A f \in Files : reported[f] = "file" => ~Unflagged(f)

\* No lost wake-up: whatever is pending, a timer is armed or a sync is in
\* flight whose end re-arms one (flush returning early while syncing, 840).
PendingHasWakeup == pendingFiles # {} => debounceTimer \/ syncing

\* Retries are bounded (MAX_LOCK_RETRIES, MAX_SYNC_FAILURE_RETRIES): lock
\* contention and other failures, interleaved in any way, cannot fail more
\* syncs in a row than this without the watcher degrading.
RetryBudget ==
  failedInARow <= MaxSyncFailures * (MaxLockRetries + 1) + MaxLockRetries

\* A watcher that has degraded is off until the next start(): nothing it does
\* afterwards can begin a sync (degrade's stop(), 669).
DegradedStaysOff == [][degraded /\ ~syncing => ~syncing']_vars

\* Auto-sync does its job: a file that was edited while the watcher is
\* installed, and whose row lags, is eventually indexed, or the watcher stops.
EditsReachTheIndex ==
  \A f \in Files :
    (ready /\ reported[f] = "file" /\ index[f] # disk[f])
      ~> (index[f] = disk[f] \/ ~ready \/ reported[f] # "file")

\* A directory removed under a live watcher is reconciled: between syncs, while
\* a file of it still has a row, the full scan is owed, "cleared only after a
\* successful FULL sync reconciles the tree" (295), and a timer is armed for it:
\* one that fired during a sync loses nothing, "the post-sync check will
\* re-trigger" (839), and after a failed sync "the `finally` block reschedules"
\* (877).  The code breaks each of these promises.
RemovalIsOwed ==
  \A f \in Files :
    /\ ready /\ ~syncing /\ DirPath \notin osEvents
    /\ reported[f] = "dir" /\ disk[f] = 0 /\ index[f] # 0
    => f \in pendingFiles \/ (needsFullScan /\ debounceTimer)
=============================================================================
