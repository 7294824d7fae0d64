--------------------------- MODULE WatcherProofs ---------------------------
(* Theorems about the file watcher, for any set of files and any budgets,   *)
(* and about the watches it sets, for any tree, limit and number of changes.*)
EXTENDS Watches, Sequences, FiniteSetTheorems, TLAPS

-----------------------------------------------------------------------------
(* The inductive invariant, one part per idea.                              *)

\* stop() leaves nothing behind that could act or be reported.
Quiet ==
  /\ ready => ~stopped
  /\ ~ready => /\ osEvents = {} /\ pendingFiles = {} /\ ~debounceTimer
               /\ \A f \in Files : reported[f] = "none"

\* The counters stay within their budgets and account for every failed sync;
\* a degraded watcher has only the sync that was in flight left to count.
Budgeted ==
  /\ lockRetryCount <= MaxLockRetries
  /\ syncFailureRetryCount <= MaxSyncFailures
  /\ failedInARow <= syncFailureRetryCount * (MaxLockRetries + 1) + lockRetryCount
  /\ degraded => /\ ~ready
                 /\ syncing => lockRetryCount = 0 /\ syncFailureRetryCount = 0

\* No event has named f since the sync took its list of files.
Untouched(f) ==
  /\ reported[f] = "file"
  /\ f \notin osEvents
  /\ f \in pendingFiles => f \in seenBeforeSync

\* The sync still has to read every pending file it answers for; its scan is
\* right about an untouched file, and so is the index once it has been read.
Covers(f) ==
  /\ sync = "waiting" /\ Untouched(f) /\ f \in seenBeforeSync => f \in todo
  /\ sync = "running" /\ Untouched(f) /\ f \in todo
       => (f \in currentFiles <=> disk[f] # 0)
  /\ sync = "running" /\ Untouched(f) /\ f \in seenBeforeSync /\ f \notin todo
       => index[f] = disk[f]

SyncCovers ==
  ready => \A f \in Files : Covers(f)

\* Inductive for any value of the constants.
IInv ==
  TypeOK /\ Quiet /\ Budgeted /\ PendingHasWakeup

\* One file's share of StaleIsFlagged.
Flagged(f) == reported[f] = "file" => ~Unflagged(f)

\* Inductive together with IInv.
StaleInv == SyncCovers /\ StaleIsFlagged

-----------------------------------------------------------------------------
\* A retry keeps the types of what it touches, whatever the counters become.
LEMMA RetryTypes ==
  ASSUME NEW m \in Nat, NEW n \in Nat, failedInARow \in Nat,
         debounceTimer \in BOOLEAN, RetryLater(m, n)
  PROVE  /\ lockRetryCount' \in Nat /\ syncFailureRetryCount' \in Nat
         /\ failedInARow' \in Nat
         /\ debounceTimer' \in BOOLEAN
         /\ UNCHANGED <<watchVars, pendVars>>
<1>1. debounceTimer' \in BOOLEAN
  BY Zenon DEF RetryLater, Retry, Reschedule
<1> QED BY <1>1 DEF RetryLater, Retry, watchVars, pendVars

\* The state types are kept by every step of the watcher and its environment.
LEMMA TypeStep == TypeOK /\ [Next]_vars => TypeOK'
<1> SUFFICES ASSUME TypeOK, [Next]_vars PROVE TypeOK'
  OBVIOUS
<1> USE WatcherAssumption DEF TypeOK, Versions
<1>1. CASE Edit
  <2>1. ASSUME NEW f \in Files, Save(f) PROVE TypeOK'
    BY <2>1 DEF Save, DiskStep, Raise, pendVars, countVars, syncVars
  <2>2. ASSUME NEW f \in Files, Delete(f) PROVE TypeOK'
    BY <2>2 DEF Delete, DiskStep, Raise, pendVars, countVars, syncVars
  <2>3. CASE RemoveDir
    BY <2>3 DEF RemoveDir, DiskStep, Raise, OnDisk, pendVars, countVars, syncVars
  <2> QED BY <1>1, <2>1, <2>2, <2>3 DEF Edit
<1>2. CASE Deliver
  <2>1. ASSUME NEW f \in Files, HandleChange(f) PROVE TypeOK'
    BY <2>1 DEF HandleChange, diskVars, countVars, syncVars
  <2>2. CASE HandleRemovedDir
    BY <2>2 DEF HandleRemovedDir, diskVars, pendVars, countVars, syncVars
  <2> QED BY <1>2, <2>1, <2>2 DEF Deliver
<1>3. CASE Tick
  BY <1>3 DEF Tick, watchVars, pendVars, countVars, syncVars
<1>4. CASE Start
  <2>1. CASE StartOk
    BY <2>1 DEF StartOk, diskVars, syncVars
  <2>2. CASE StartDisabled
    BY <2>2 DEF StartDisabled, diskVars, pendVars, syncVars
  <2>3. CASE StartFails
    BY <2>3 DEF StartFails, Stopped, syncVars
  <2> QED BY <1>4, <2>1, <2>2, <2>3 DEF Start
<1>5. CASE Stop
  BY <1>5 DEF Stop, Stopped, syncVars
<1>6. CASE WatchError
  BY <1>6 DEF WatchError, Stopped, syncVars
<1>7. CASE TimerFires
  <2>1. CASE FlushSkipped
    BY <2>1 DEF FlushSkipped, watchVars, pendVars, countVars, syncVars
  <2>2. CASE Flush
    <3>1. (todo' \subseteq Files) /\ (scoped' \in BOOLEAN)
      BY <2>2 DEF Flush, ScopedSync
    <3> QED BY <2>2, <3>1 DEF Flush, watchVars, countVars
  <2> QED BY <1>7, <2>1, <2>2 DEF TimerFires
<1>8. CASE SyncStep
  <2>1. CASE SyncBegins
    BY <2>1 DEF SyncBegins, OnDisk, watchVars, pendVars, countVars
  <2>2. ASSUME NEW f \in Files, SyncFile(f) PROVE TypeOK'
    BY <2>2 DEF SyncFile, watchVars, pendVars, countVars
  <2>3. CASE SyncSucceeds
    BY <2>3 DEF SyncSucceeds, SyncOver, StillPending, Reschedule, watchVars
  <2>4. CASE SyncRefused \/ SyncLooksRefused
    <3>1. UNCHANGED <<disk, index, edits, sameMs, needsFullScan>> /\ SyncOver
      BY <2>4 DEF SyncRefused, SyncLooksRefused
    <3>2. \/ degraded' = TRUE /\ Stopped
          \/ RetryLater(lockRetryCount + 1, syncFailureRetryCount)
      BY <2>4 DEF SyncRefused, SyncLooksRefused, OnLockUnavailable, GiveUp
    <3>3. CASE degraded' = TRUE /\ Stopped
      BY <3>1, <3>3 DEF SyncOver, Stopped
    <3>4. CASE RetryLater(lockRetryCount + 1, syncFailureRetryCount)
      <4>1. /\ lockRetryCount' \in Nat /\ syncFailureRetryCount' \in Nat
            /\ failedInARow' \in Nat /\ debounceTimer' \in BOOLEAN
            /\ UNCHANGED <<watchVars, pendVars>>
        <5>1. (lockRetryCount + 1) \in Nat /\ (syncFailureRetryCount) \in Nat
          OBVIOUS
        <5> QED BY <3>4, <5>1, RetryTypes
      <4> QED BY <3>1, <4>1 DEF SyncOver, watchVars, pendVars
    <3> QED BY <3>2, <3>3, <3>4
  <2>5. CASE SyncFails
    <3>1. UNCHANGED <<disk, index, edits, sameMs, needsFullScan>> /\ SyncOver
      BY <2>5 DEF SyncFails
    <3>2. \/ degraded' = TRUE /\ Stopped
          \/ RetryLater(0, syncFailureRetryCount + 1)
      BY <2>5 DEF SyncFails, OnSyncError, GiveUp
    <3>3. CASE degraded' = TRUE /\ Stopped
      BY <3>1, <3>3 DEF SyncOver, Stopped
    <3>4. CASE RetryLater(0, syncFailureRetryCount + 1)
      <4>1. /\ lockRetryCount' \in Nat /\ syncFailureRetryCount' \in Nat
            /\ failedInARow' \in Nat /\ debounceTimer' \in BOOLEAN
            /\ UNCHANGED <<watchVars, pendVars>>
        <5>1. (0) \in Nat /\ (syncFailureRetryCount + 1) \in Nat
          OBVIOUS
        <5> QED BY <3>4, <5>1, RetryTypes
      <4> QED BY <3>1, <4>1 DEF SyncOver, watchVars, pendVars
    <3> QED BY <3>2, <3>3, <3>4
  <2> QED BY <1>8, <2>1, <2>2, <2>3, <2>4, <2>5 DEF SyncStep
<1>9. CASE UNCHANGED vars
  BY <1>9 DEF vars
<1> QED
  BY <1>1, <1>2, <1>3, <1>4, <1>5, <1>6, <1>7, <1>8, <1>9 DEF Next

\* The watcher is created with well-typed state, whatever is on disk.
LEMMA TypeInit == Init => TypeOK
<1> SUFFICES ASSUME Init PROVE TypeOK
  OBVIOUS
<1>1. {0, 1} \subseteq Versions /\ edits \in Versions
  BY WatcherAssumption DEF Init, Versions
<1>2. disk \in [Files -> Versions] /\ index \in [Files -> Versions]
  BY <1>1 DEF Init
<1> QED BY <1>1, <1>2 DEF Init, TypeOK

-----------------------------------------------------------------------------
\* Multiplication of naturals is monotone; the retry budget is a product.
LEMMA TimesMonotone ==
  ASSUME NEW a \in Nat, NEW b \in Nat, NEW c \in Nat, a <= b
  PROVE  a * c <= b * c
<1> DEFINE d == b - a
<1>1. d \in Nat /\ b = a + d
  OBVIOUS
<1>2. b * c = a * c + d * c
  BY <1>1
<1>3. a * c \in Nat /\ d * c \in Nat
  BY <1>1
<1> QED BY <1>2, <1>3

\* stop() satisfies every part of the invariant that mentions what it resets.
LEMMA StoppedIsQuiet ==
  ASSUME Stopped
  PROVE  /\ Quiet' /\ PendingHasWakeup'
         /\ lockRetryCount' = 0 /\ syncFailureRetryCount' = 0 /\ failedInARow' = 0
         /\ ~ready'
BY DEF Stopped, Quiet, PendingHasWakeup

\* stop() resets every counter, so the budgets hold after it.
LEMMA StoppedIsBudgeted == ASSUME Stopped PROVE Budgeted'
BY StoppedIsQuiet, WatcherAssumption DEF Budgeted, Stopped

\* Nothing but start() and a settled sync touches the counters.
LEMMA BudgetKept ==
  ASSUME Budgeted, UNCHANGED countVars, UNCHANGED degraded,
         degraded => (~ready' /\ (syncing' => syncing))
  PROVE  Budgeted'
BY DEF Budgeted, countVars

\* A retry that raises one counter within its budget, resetting the lock counter
\* when it raises the other, keeps the failures in a row within their bound.
LEMMA RetryIsBudgeted ==
  ASSUME TypeOK, Budgeted, NEW m \in Nat, NEW n \in Nat,
         m <= MaxLockRetries, n <= MaxSyncFailures,
         \/ m = lockRetryCount + 1 /\ n = syncFailureRetryCount
         \/ m = 0 /\ n = syncFailureRetryCount + 1,
         RetryLater(m, n), SyncOver
  PROVE  Budgeted'
<1> DEFINE L == MaxLockRetries + 1
<1>1. L \in Nat
  BY WatcherAssumption
<1>2. failedInARow' <= n * L + m
  <2>1. failedInARow <= syncFailureRetryCount * L + lockRetryCount
    BY DEF Budgeted
  <2>2. failedInARow' = failedInARow + 1
    BY DEF RetryLater, Retry
  <2>3. CASE m = lockRetryCount + 1 /\ n = syncFailureRetryCount
    <3>1. n * L \in Nat
      BY <1>1
    <3> HIDE DEF L
    <3> QED BY <2>1, <2>2, <2>3, <3>1 DEF TypeOK
  <2>4. CASE m = 0 /\ n = syncFailureRetryCount + 1
    <3>1. n * L = syncFailureRetryCount * L + L
      BY <1>1, <2>4 DEF TypeOK
    <3>2. syncFailureRetryCount * L \in Nat
      BY <1>1 DEF TypeOK
    <3>3. lockRetryCount + 1 <= L
      BY WatcherAssumption DEF Budgeted, TypeOK
    <3> HIDE DEF L
    <3> QED BY <1>1, <2>1, <2>2, <2>4, <3>1, <3>2, <3>3 DEF TypeOK
  <2> QED BY <2>3, <2>4
<1>3. /\ lockRetryCount' = m /\ syncFailureRetryCount' = n
      /\ ready' = ready /\ degraded' = degraded /\ ~syncing'
  BY DEF RetryLater, Retry, SyncOver, syncing
<1>4. degraded => ~ready
  BY DEF Budgeted
<1> QED BY <1>2, <1>3, <1>4 DEF Budgeted

\* A failed sync either stays within the budget or stops the watcher: the one
\* a degraded watcher may still have in flight is the first it counts.
LEMMA FailureKept ==
  ASSUME TypeOK, Quiet, Budgeted, syncing, SyncOver,
         OnLockUnavailable \/ OnSyncError
  PROVE  Quiet' /\ Budgeted' /\ PendingHasWakeup'
<1>2. degraded => lockRetryCount + 1 <= MaxLockRetries
                  /\ syncFailureRetryCount + 1 <= MaxSyncFailures
  BY WatcherAssumption DEF Budgeted
<1>3. CASE degraded' = TRUE /\ Stopped
  BY <1>3, StoppedIsQuiet, StoppedIsBudgeted
<1>4. ASSUME NEW m \in Nat, NEW n \in Nat, RetryLater(m, n),
             m <= MaxLockRetries, n <= MaxSyncFailures,
             \/ m = lockRetryCount + 1 /\ n = syncFailureRetryCount
             \/ m = 0 /\ n = syncFailureRetryCount + 1
      PROVE  Quiet' /\ Budgeted' /\ PendingHasWakeup'
  <2>1. Budgeted'
    BY <1>4, RetryIsBudgeted
  <2>2. /\ UNCHANGED <<ready, stopped, reported, osEvents, pendingFiles>>
        /\ debounceTimer' = (debounceTimer \/ (pendingFiles' # {} /\ ~stopped))
    BY <1>4 DEF RetryLater, Retry, Reschedule, pendVars
  <2>3. Quiet' /\ PendingHasWakeup'
    BY <2>2 DEF Quiet, PendingHasWakeup
  <2> QED BY <2>1, <2>3
<1>5. CASE OnLockUnavailable
  <2>1. CASE lockRetryCount + 1 > MaxLockRetries
    <3>1. ~degraded
      <4>1. ~(lockRetryCount + 1 <= MaxLockRetries)
        BY <2>1, WatcherAssumption DEF TypeOK
      <4> QED BY <1>2, <4>1
    <3>2. degraded' = TRUE /\ Stopped
      BY <1>5, <2>1, <3>1 DEF OnLockUnavailable, GiveUp
    <3> QED BY <1>3, <3>2
  <2>2. CASE ~(lockRetryCount + 1 > MaxLockRetries)
    <3>1. /\ lockRetryCount + 1 \in Nat /\ lockRetryCount + 1 <= MaxLockRetries
          /\ syncFailureRetryCount \in Nat
          /\ syncFailureRetryCount <= MaxSyncFailures
      BY <2>2, WatcherAssumption DEF TypeOK, Budgeted
    <3>2. RetryLater(lockRetryCount + 1, syncFailureRetryCount)
      BY <1>5, <2>2 DEF OnLockUnavailable
    <3> QED BY <1>4, <3>1, <3>2
  <2> QED BY <2>1, <2>2
<1>6. CASE OnSyncError
  <2>1. CASE syncFailureRetryCount + 1 > MaxSyncFailures
    <3>1. ~degraded
      <4>1. ~(syncFailureRetryCount + 1 <= MaxSyncFailures)
        BY <2>1, WatcherAssumption DEF TypeOK
      <4> QED BY <1>2, <4>1
    <3>2. degraded' = TRUE /\ Stopped
      BY <1>6, <2>1, <3>1 DEF OnSyncError, GiveUp
    <3> QED BY <1>3, <3>2
  <2>2. CASE ~(syncFailureRetryCount + 1 > MaxSyncFailures)
    <3>1. /\ syncFailureRetryCount + 1 \in Nat
          /\ syncFailureRetryCount + 1 <= MaxSyncFailures
          /\ 0 <= MaxLockRetries /\ 0 \in Nat
      BY <2>2, WatcherAssumption DEF TypeOK, Budgeted
    <3>2. RetryLater(0, syncFailureRetryCount + 1)
      BY <1>6, <2>2 DEF OnSyncError
    <3> QED BY <1>4, <3>1, <3>2
  <2> QED BY <2>1, <2>2
<1> QED BY <1>5, <1>6

-----------------------------------------------------------------------------
\* A new FileWatcher satisfies the invariant.
LEMMA InvInit == Init => IInv
<1> SUFFICES ASSUME Init PROVE IInv
  OBVIOUS
<1>1. TypeOK
  BY TypeInit
<1>2. Quiet /\ PendingHasWakeup
  BY DEF Init, Quiet, PendingHasWakeup
<1>3. Budgeted
  <2>1. 0 <= 0 * (MaxLockRetries + 1) + 0
    BY WatcherAssumption
  <2> QED BY <2>1, WatcherAssumption DEF Init, Budgeted
<1> QED BY <1>1, <1>2, <1>3 DEF IInv

\* Every handler, timer, sync step and edit keeps the invariant.
LEMMA InvStep == IInv /\ [Next]_vars => IInv'
<1> SUFFICES ASSUME IInv, [Next]_vars PROVE IInv'
  OBVIOUS
<1>0. TypeOK /\ Quiet /\ Budgeted /\ PendingHasWakeup
  BY DEF IInv
<1>t. TypeOK'
  BY <1>0, TypeStep
<1> SUFFICES Quiet' /\ Budgeted' /\ PendingHasWakeup'
  BY <1>t DEF IInv
<1>1. CASE Edit
  <2> SUFFICES ASSUME NEW n, NEW files, NEW ev, NEW how,
                      DiskStep(n, files, ev, how)
               PROVE  Quiet' /\ Budgeted' /\ PendingHasWakeup'
    BY <1>1 DEF Edit, Save, Delete, RemoveDir
  <2>1. UNCHANGED <<ready, stopped, degraded, sync, debounceTimer, sameMs,
                   pendVars, countVars>>
    BY DEF DiskStep, syncVars
  <2>2. ~ready => UNCHANGED <<osEvents, reported>>
    BY <1>0 DEF DiskStep, Raise, TypeOK
  <2>3. Budgeted'
    BY <1>0, <2>1, BudgetKept DEF Budgeted, syncing
  <2> QED BY <1>0, <2>1, <2>2, <2>3 DEF Quiet, PendingHasWakeup, syncing, pendVars
<1>2. CASE Deliver
  <2>1. /\ ready /\ UNCHANGED <<ready, degraded, sync, sameMs, countVars>>
        /\ debounceTimer' \/ UNCHANGED <<pendingFiles, debounceTimer>>
        /\ UNCHANGED stopped
    BY <1>0, <1>2 DEF Deliver, HandleChange, HandleRemovedDir, Quiet, syncVars,
                      countVars, pendVars
  <2>2. Budgeted'
    BY <1>0, <2>1, BudgetKept DEF Budgeted, syncing
  <2> QED BY <1>0, <2>1, <2>2 DEF Quiet, PendingHasWakeup, syncing
<1>3. CASE Tick
  <2>1. UNCHANGED <<watchVars, debounceTimer, pendVars, countVars, sync>> /\ ~sameMs'
    BY <1>3 DEF Tick, syncVars
  <2>2. Budgeted'
    BY <1>0, <2>1, BudgetKept DEF Budgeted, syncing, watchVars
  <2> QED BY <1>0, <2>1, <2>2
      DEF Quiet, PendingHasWakeup, syncing, watchVars, pendVars
<1>4. CASE Start
  <2>1. CASE StartFails
    <3>1. Stopped /\ UNCHANGED sameMs
      BY <2>1 DEF StartFails
    <3> QED BY <1>0, <3>1, StoppedIsQuiet, StoppedIsBudgeted
  <2>2. CASE StartOk \/ StartDisabled
    <3>1. /\ UNCHANGED <<osEvents, reported, debounceTimer, sameMs, sync>>
          /\ ~stopped' /\ pendingFiles' = {} /\ ~ready /\ ~degraded'
          /\ lockRetryCount' = 0 /\ syncFailureRetryCount' = 0 /\ failedInARow' = 0
      BY <1>0, <2>2 DEF StartOk, StartDisabled, Quiet, diskVars, pendVars, syncVars
    <3>2. Budgeted'
      <4>1. 0 <= 0 * (MaxLockRetries + 1) + 0
        BY WatcherAssumption
      <4> QED BY <3>1, <4>1, WatcherAssumption DEF Budgeted
    <3> QED BY <1>0, <3>1, <3>2 DEF Quiet, PendingHasWakeup
  <2> QED BY <1>4, <2>1, <2>2 DEF Start
<1>5. CASE Stop \/ WatchError
  <2>1. Stopped /\ UNCHANGED sameMs
    BY <1>5 DEF Stop, WatchError
  <2> QED BY <1>0, <2>1, StoppedIsQuiet, StoppedIsBudgeted
<1>6. CASE TimerFires
  <2>1. ready /\ UNCHANGED <<watchVars, pendingFiles, countVars>>
    BY <1>0, <1>6 DEF TimerFires, FlushSkipped, Flush, Quiet, pendVars
  <2>2. ~degraded
    BY <1>0, <2>1 DEF Budgeted
  <2>3. Quiet' /\ Budgeted'
    BY <1>0, <2>1, <2>2, BudgetKept DEF Quiet, watchVars
  <2>4. PendingHasWakeup'
    <3>1. CASE FlushSkipped
      <4>1. syncing
        BY <1>0, <2>1, <3>1 DEF FlushSkipped, Quiet
      <4> QED BY <1>0, <3>1, <4>1
          DEF FlushSkipped, PendingHasWakeup, syncing, syncVars
    <3>2. CASE Flush
      BY <3>2 DEF Flush, PendingHasWakeup, syncing
    <3> QED BY <1>6, <3>1, <3>2 DEF TimerFires
  <2> QED BY <2>3, <2>4
<1>7. CASE SyncStep
  <2>1. CASE SyncBegins \/ \E f \in Files : SyncFile(f)
    <3>1. /\ UNCHANGED <<watchVars, debounceTimer, sameMs, pendVars, countVars>>
          /\ syncing /\ syncing'
      BY <2>1 DEF SyncBegins, SyncFile, syncing
    <3>2. Budgeted'
      BY <1>0, <3>1, BudgetKept DEF Budgeted, watchVars
    <3> QED BY <1>0, <3>1, <3>2
        DEF Quiet, PendingHasWakeup, watchVars, pendVars
  <2>2. CASE SyncSucceeds
    <3>1. /\ UNCHANGED <<watchVars, sameMs>> /\ Reschedule
          /\ pendingFiles' \subseteq pendingFiles /\ ~syncing'
          /\ lockRetryCount' = 0 /\ syncFailureRetryCount' = 0 /\ failedInARow' = 0
      BY <2>2 DEF SyncSucceeds, SyncOver, StillPending, syncing
    <3>2. Budgeted'
      <4>1. 0 <= 0 * (MaxLockRetries + 1) + 0
        BY WatcherAssumption
      <4> QED BY <1>0, <3>1, <4>1, WatcherAssumption DEF Budgeted, watchVars
    <3>3. Quiet' /\ PendingHasWakeup'
      BY <1>0, <3>1 DEF Quiet, PendingHasWakeup, Reschedule, watchVars
    <3> QED BY <1>0, <3>1, <3>2, <3>3
  <2>3. CASE SyncRefused \/ SyncLooksRefused
    <3>1. syncing /\ SyncOver /\ OnLockUnavailable /\ UNCHANGED sameMs
      BY <2>3 DEF SyncRefused, SyncLooksRefused, syncing
    <3> QED BY <1>0, <3>1, FailureKept
  <2>4. CASE SyncFails
    <3>1. syncing /\ SyncOver /\ OnSyncError /\ UNCHANGED sameMs
      BY <2>4 DEF SyncFails
    <3> QED BY <1>0, <3>1, FailureKept
  <2> QED BY <1>7, <2>1, <2>2, <2>3, <2>4 DEF SyncStep
<1>8. CASE UNCHANGED vars
  <2>1. UNCHANGED <<watchVars, debounceTimer, sameMs, pendVars, countVars, sync>>
    BY <1>8 DEF vars, watchVars, pendVars, countVars
  <2>2. Budgeted'
    BY <1>0, <2>1, BudgetKept DEF Budgeted, syncing, watchVars
  <2> QED BY <1>0, <2>1, <2>2
      DEF Quiet, PendingHasWakeup, syncing, watchVars, pendVars
<1> QED
  BY <1>1, <1>2, <1>3, <1>4, <1>5, <1>6, <1>7, <1>8 DEF Next

-----------------------------------------------------------------------------
\* The state types, the retry budget and the absence of lost wake-ups hold of
\* every behaviour of the watcher.
LEMMA Invariance == Spec => []IInv
BY InvInit, InvStep, PTL DEF Spec

\* Every variable keeps its type, whatever the files and the budgets.
THEOREM TypeCorrect == Spec => []TypeOK
BY Invariance, PTL DEF IInv

\* flush() may return early while a sync runs without losing the wake-up of a
\* pending file: the end of that sync re-arms the timer.
THEOREM NoLostWakeup == Spec => []PendingHasWakeup
BY Invariance, PTL DEF IInv

\* However lock contention and other errors interleave, the watcher gives up
\* after a number of failed syncs that the two budgets fix.
THEOREM RetriesAreBounded == Spec => []RetryBudget
<1>1. IInv => RetryBudget
  <2> SUFFICES ASSUME IInv PROVE RetryBudget
    OBVIOUS
  <2> DEFINE L == MaxLockRetries + 1
  <2>1. /\ lockRetryCount \in Nat /\ syncFailureRetryCount \in Nat
        /\ failedInARow \in Nat /\ L \in Nat
    BY WatcherAssumption DEF IInv, TypeOK
  <2>2. /\ lockRetryCount <= MaxLockRetries
        /\ syncFailureRetryCount <= MaxSyncFailures
        /\ failedInARow <= syncFailureRetryCount * L + lockRetryCount
    BY DEF IInv, Budgeted
  <2>3. syncFailureRetryCount * L <= MaxSyncFailures * L
    BY <2>1, <2>2, TimesMonotone, WatcherAssumption
  <2>4. syncFailureRetryCount * L \in Nat /\ MaxSyncFailures * L \in Nat
    BY <2>1, WatcherAssumption
  <2> QED BY <2>1, <2>2, <2>3, <2>4, WatcherAssumption DEF RetryBudget
<1> QED BY <1>1, Invariance, PTL

\* Once degraded, the watcher begins no sync until start() is called again.
THEOREM DegradedBeginsNothing == Spec => DegradedStaysOff
<1>1. IInv /\ [Next]_vars => [degraded /\ ~syncing => ~syncing']_vars
  <2> SUFFICES ASSUME IInv, Next, degraded, ~syncing PROVE ~syncing'
    BY DEF vars, syncing
  <2>1. ~debounceTimer
    BY DEF IInv, Quiet, Budgeted
  <2>2. sync' = sync \/ sync' = "idle"
    BY <2>1 DEF Next, Edit, Save, Delete, RemoveDir, DiskStep, Deliver,
       HandleChange, HandleRemovedDir, Tick, Start, StartOk, StartDisabled,
       StartFails, Stop, WatchError, TimerFires, FlushSkipped, Flush, SyncStep,
       SyncBegins, SyncFile, SyncSucceeds, SyncRefused, SyncLooksRefused,
       SyncFails, SyncOver, syncVars, syncing
  <2> QED BY <2>2 DEF syncing
<1> QED BY <1>1, Invariance, PTL DEF Spec, DegradedStaysOff

-----------------------------------------------------------------------------
(* The staleness signal.                                                    *)

\* Nothing is watched yet, so nothing can be stale unflagged.
LEMMA StaleInit == Init => StaleInv
BY DEF Init, StaleInv, SyncCovers, StaleIsFlagged, Covers, Untouched

\* Every step keeps what the sync answers for and the staleness signal.
LEMMA StaleStep ==
  ASSUME IInv, StaleInv, [Next]_vars
  PROVE  StaleInv'
<1>1. /\ TypeOK /\ DirPath \notin Files
      /\ ~ready => /\ osEvents = {} /\ pendingFiles = {} /\ ~debounceTimer
                   /\ \A f \in Files : reported[f] = "none"
  BY WatcherAssumption DEF IInv, Quiet
<1> SUFFICES ASSUME ready', NEW f \in Files
             PROVE  Covers(f)' /\ Flagged(f)'
  BY DEF StaleInv, SyncCovers, StaleIsFlagged, Flagged
<1>2. ready => Covers(f) /\ Flagged(f)
  BY DEF StaleInv, SyncCovers, StaleIsFlagged, Flagged
<1> USE DEF Covers, Flagged, Unflagged, Untouched
<1>3. CASE Edit
  <2>1. ready
    BY <1>3 DEF Edit, Save, Delete, RemoveDir, DiskStep
  <2>2. ASSUME NEW g \in Files, Save(g) \/ Delete(g) PROVE Covers(f)' /\ Flagged(f)'
    <3>1. /\ UNCHANGED <<index, pendVars, syncVars>>
          /\ osEvents' = osEvents \cup {g}
          /\ f # g => disk'[f] = disk[f] /\ reported'[f] = reported[f]
      BY <1>1, <2>1, <2>2 DEF Save, Delete, DiskStep, Raise, TypeOK
    <3> QED BY <1>2, <2>1, <3>1 DEF pendVars, syncVars
  <2>3. CASE RemoveDir
    <3>1. /\ UNCHANGED <<index, pendVars, syncVars>>
          /\ osEvents' = osEvents \cup {DirPath}
          /\ \/ reported'[f] = "dir"
             \/ disk'[f] = disk[f] /\ reported'[f] = reported[f]
      BY <1>1, <2>1, <2>3 DEF RemoveDir, DiskStep, Raise, TypeOK
    <3> QED BY <1>1, <1>2, <2>1, <3>1 DEF pendVars, syncVars
  <2> QED BY <1>3, <2>2, <2>3 DEF Edit
<1>4. CASE Deliver
  <2>1. ready
    BY <1>4 DEF Deliver, HandleChange, HandleRemovedDir
  <2>2. ASSUME NEW g \in Files, HandleChange(g) PROVE Covers(f)' /\ Flagged(f)'
    <3>1. /\ UNCHANGED <<index, disk, syncVars>>
          /\ osEvents' = osEvents \ {g}
          /\ pendingFiles' = pendingFiles \cup {g}
      BY <1>1, <2>2 DEF HandleChange
    <3>2. /\ reported'[f] = "file" => reported[f] = "file"
          /\ reported'[f] = "file" /\ f = g => ~sameMs
          /\ f # g => (f \in seenBeforeSync' <=> f \in seenBeforeSync)
          /\ ~sameMs => g \notin seenBeforeSync'
      BY <1>1, <2>2 DEF HandleChange, TypeOK
    <3> QED BY <1>1, <1>2, <2>1, <3>1, <3>2 DEF syncVars, TypeOK
  <2>3. CASE HandleRemovedDir
    <3>1. UNCHANGED <<index, diskVars, pendVars, syncVars>>
          /\ osEvents' = osEvents \ {DirPath}
      BY <2>3 DEF HandleRemovedDir
    <3> QED BY <1>1, <1>2, <2>1, <3>1 DEF diskVars, pendVars, syncVars
  <2> QED BY <1>4, <2>2, <2>3 DEF Deliver
<1>5. CASE Tick \/ Stop \/ WatchError \/ FlushSkipped \/ UNCHANGED vars
  <2>1. UNCHANGED <<index, disk, watchVars, pendVars, syncVars>>
    BY <1>5 DEF Tick, Stop, WatchError, FlushSkipped, Stopped, vars, watchVars,
                pendVars, syncVars
  <2> QED BY <1>2, <2>1 DEF watchVars, pendVars, syncVars
<1>6. CASE Start
  <2>1. StartOk
    BY <1>6 DEF Start, StartDisabled, StartFails, Stopped
  <2>2. reported'[f] = "none" /\ seenBeforeSync' = {}
    BY <1>1, <2>1 DEF StartOk, diskVars
  <2> QED BY <2>2
<1>7. CASE Flush
  <2>1. /\ UNCHANGED <<index, disk, watchVars, pendingFiles>>
        /\ sync' = "waiting" /\ seenBeforeSync' = pendingFiles
        /\ pendingFiles \subseteq todo'
    BY <1>1, <1>7 DEF Flush, TypeOK
  <2> QED BY <1>2, <2>1 DEF watchVars
<1>8. CASE SyncBegins
  <2>1. /\ UNCHANGED <<index, disk, watchVars, pendVars, todo>>
        /\ sync = "waiting" /\ currentFiles' = todo \cap OnDisk
    BY <1>8 DEF SyncBegins
  <2> QED BY <1>2, <2>1 DEF OnDisk, watchVars, pendVars
<1>9. ASSUME NEW g \in Files, SyncFile(g) PROVE Covers(f)' /\ Flagged(f)'
  <2>1. /\ UNCHANGED <<disk, watchVars, pendVars, sync, currentFiles>>
        /\ sync = "running" /\ todo' = todo \ {g} /\ g \in todo
        /\ ready
    BY <1>9 DEF SyncFile, watchVars
  <2>2. CASE f # g
    <3>1. index'[f] = index[f]
      BY <1>1, <1>9, <2>2 DEF SyncFile, TypeOK
    <3> QED BY <1>2, <2>1, <2>2, <3>1 DEF watchVars, pendVars
  <2>3. CASE f = g
    <3>1. (f \in currentFiles <=> disk[f] # 0) => index'[f] = disk[f]
      BY <1>1, <1>9, <2>3 DEF SyncFile, TypeOK
    <3> QED BY <1>2, <2>1, <2>3, <3>1 DEF watchVars, pendVars
  <2> QED BY <2>2, <2>3
<1>10. CASE SyncSucceeds
  <2>1. /\ UNCHANGED <<index, disk, watchVars>>
        /\ sync = "running" /\ todo = {} /\ sync' = "idle" /\ ready
        /\ pendingFiles' = pendingFiles \ seenBeforeSync
    BY <1>10 DEF SyncSucceeds, SyncOver, StillPending, watchVars
  <2> QED BY <1>2, <2>1 DEF watchVars
<1>11. CASE SyncRefused \/ SyncLooksRefused \/ SyncFails
  <2>1. UNCHANGED <<index, disk>> /\ sync' = "idle"
    BY <1>11 DEF SyncRefused, SyncLooksRefused, SyncFails, SyncOver
  <2>2. UNCHANGED <<ready, reported, osEvents, pendVars>>
    BY <1>11 DEF SyncRefused, SyncLooksRefused, SyncFails, OnLockUnavailable,
       OnSyncError, GiveUp, RetryLater, Retry, Stopped
  <2> QED BY <1>2, <2>1, <2>2 DEF pendVars
<1> QED
  BY <1>3, <1>4, <1>5, <1>6, <1>7, <1>8, <1>9, <1>10, <1>11
     DEF Next, TimerFires, SyncStep

\* A file whose row lags the disk is in pendingFiles or its event is still to
\* come, unless that event tied with the start of a sync, across failures, stops and
\* restarts, and whatever the sync in flight has already read.
THEOREM StalenessSignal == Spec => []StaleIsFlagged
<1>1. IInv /\ StaleInv /\ [Next]_vars => StaleInv'
  BY StaleStep
<1>2. StaleInv => StaleIsFlagged
  BY DEF StaleInv
<1> QED BY StaleInit, <1>1, <1>2, Invariance, PTL DEF Spec

-----------------------------------------------------------------------------
(* The watches: the inductive invariant.                                    *)

\* What is in a directory is there only while the directory is.
Hangs ==
  /\ wNode[Root] # 0
  /\ \A d \in Dirs : wNode[d] # 0 => wNode[Parent[d]] # 0
  /\ \A f \in Sources : wDisk[f] # 0 => wNode[Parent[f]] # 0

\* Nodes and versions have been numbered, and watches are on nodes there have been.
Numbered ==
  /\ \A d \in W!AllDirs : wNode[d] <= wChanges /\ wDirWatchers[d] <= wChanges
  /\ \A f \in Sources : wDisk[f] <= wChanges

Raised(at, of) == W!Contains(wEvents, [at |-> at, of |-> of])
Doing(do, d) == W!Contains(wWalk, [do |-> do, dir |-> d])
Marked == wRefused \cup wForgotten

\* A directory in a watched one is watched itself, or excepted, or there is something
\* on its way that will have it watched.
DirsAreSeen ==
  wWatching =>
    /\ W!Live(Root) \/ Root \in Marked \/ Doing("watch", Root)
    /\ \A d \in Dirs : wNode[d] # 0 /\ W!Live(Parent[d]) =>
         \/ W!Live(d) \/ d \in Marked
         \/ Doing("watch", d) \/ Doing("list", Parent[d]) \/ Raised(Parent[d], d)

\* A file whose row is out of date is queued, or there is something on its way that
\* will have it queued or all files looked at.
Heard(f) ==
  \/ wCatchUp \/ wNeedsFullScan \/ f \in wPendingFiles \/ Raised(Parent[f], f)
  \/ wDisk[f] # 0 /\ (~W!Live(Parent[f]) \/ Doing("list", Parent[f]))
  \/ wDisk[f] = 0 /\ (W!Deaf(Parent[f]) \/ \E d \in W!Above(Parent[f]) : Raised(d, d))
FilesAreHeard == wWatching => \A f \in Sources \ wUnheard : wIndex[f] # wDisk[f] => Heard(f)

\* Only the first walk marks no files, and a sync of all follows it.
FirstWalk == wWalk # <<>> /\ ~wMarkExisting => wCatchUp

\* A file that is there again has been forgotten as unheard.
Gone == \A f \in wUnheard : wDisk[f] = 0

DInv ==
  W!TypeOK /\ Hangs /\ Numbered /\ DirsAreSeen /\ FilesAreHeard /\ FirstWalk /\ Gone

-----------------------------------------------------------------------------
(* Sequences and the tree.                                                  *)

\* The cardinalities of DirWatch are those of the library.
LEMMA CountsAlike ==
  \A S : W!Cardinality(S) = Cardinality(S) /\ W!IsFiniteSet(S) = IsFiniteSet(S)
BY DEF W!Cardinality, Cardinality, W!IsFiniteSet, IsFiniteSet

\* What is numbered without gaps or repetition is all there.
LEMMA AllAreNumbered ==
  ASSUME NEW S, IsFiniteSet(S), NEW n \in Nat, Cardinality(S) = n,
         NEW f \in [1 .. n -> S], \A i, j \in 1 .. n : i # j => f[i] # f[j]
  PROVE  \A x \in S : \E i \in 1 .. n : f[i] = x
<1>1. IsFiniteSet(1 .. n) /\ Cardinality(1 .. n) = n
  BY FS_Interval
<1>2. f \in Injection(1 .. n, S)
  BY DEF Injection, IsInjective
<1>3. f \in Surjection(1 .. n, S)
  BY <1>1, <1>2, FS_Injection
<1> QED BY <1>3 DEF Surjection

\* readdir lists every entry, in whatever order.
LEMMA Listed ==
  ASSUME NEW S, IsFiniteSet(S), NEW order \in W!SetToSeqs(S)
  PROVE  /\ order \in Seq(S)
         /\ \A x \in S : W!Contains(order, x)
<1>1. Cardinality(S) \in Nat
  BY FS_CardinalityType
<1>2. /\ order \in [1 .. Cardinality(S) -> S]
      /\ \A i, j \in 1 .. Cardinality(S) : i # j => order[i] # order[j]
  BY CountsAlike DEF W!SetToSeqs
<1>3. \A x \in S : \E i \in 1 .. Cardinality(S) : order[i] = x
  BY <1>1, <1>2, AllAreNumbered
<1>4. order \in Seq(S) /\ Len(order) = Cardinality(S)
  BY <1>1, <1>2
<1> QED BY <1>3, <1>4 DEF W!Contains

\* What is after the head of a queue stays in it.
LEMMA Follows ==
  ASSUME NEW T, NEW s \in Seq(T), s # <<>>
  PROVE  /\ Tail(s) \in Seq(T) /\ Head(s) \in T
         /\ \A x : W!Contains(s, x) <=> x = Head(s) \/ W!Contains(Tail(s), x)
<1>1. /\ Len(s) \in Nat /\ Len(s) > 0 /\ Tail(s) \in Seq(T) /\ Len(Tail(s)) = Len(s) - 1
      /\ \A i \in 1 .. Len(s) - 1 : Tail(s)[i] = s[i + 1]
      /\ Head(s) = s[1] /\ Head(s) \in T
  OBVIOUS
<1>2. ASSUME NEW i \in 1 .. Len(s), i # 1
          PROVE \E k \in 1 .. Len(Tail(s)) : Tail(s)[k] = s[i]
  <2>1. i - 1 \in 1 .. Len(s) - 1 /\ Tail(s)[i - 1] = s[i]
    BY <1>1, <1>2
  <2> QED BY <1>1, <2>1
<1>3. ASSUME NEW i \in 1 .. Len(Tail(s)) PROVE \E k \in 1 .. Len(s) : s[k] = Tail(s)[i]
  <2>1. i + 1 \in 1 .. Len(s) /\ Tail(s)[i] = s[i + 1]
    BY <1>1, <1>3
  <2> QED BY <2>1
<1>4. 1 \in 1 .. Len(s)
  BY <1>1
<1> QED BY <1>1, <1>2, <1>3, <1>4 DEF W!Contains

\* What is in one of two queues is in the two together.
LEMMA Joined ==
  ASSUME NEW T, NEW s \in Seq(T), NEW t \in Seq(T)
  PROVE  /\ s \o t \in Seq(T)
         /\ \A x : W!Contains(s \o t, x) <=> W!Contains(s, x) \/ W!Contains(t, x)
<1>1. /\ Len(s) \in Nat /\ Len(t) \in Nat /\ s \o t \in Seq(T)
      /\ Len(s \o t) = Len(s) + Len(t)
      /\ \A i \in 1 .. Len(s) : (s \o t)[i] = s[i]
      /\ \A i \in Len(s) + 1 .. Len(s) + Len(t) : (s \o t)[i] = t[i - Len(s)]
  OBVIOUS
<1>2. ASSUME NEW i \in 1 .. Len(s \o t)
      PROVE  \/ \E k \in 1 .. Len(s) : s[k] = (s \o t)[i]
             \/ \E k \in 1 .. Len(t) : t[k] = (s \o t)[i]
  <2>1. CASE i \in 1 .. Len(s)
    BY <1>1, <2>1
  <2>2. CASE i \notin 1 .. Len(s)
    <3>1. i - Len(s) \in 1 .. Len(t) /\ (s \o t)[i] = t[i - Len(s)]
      BY <1>1, <1>2, <2>2
    <3> QED BY <3>1
  <2> QED BY <2>1, <2>2
<1>3. ASSUME NEW k \in 1 .. Len(s) PROVE \E i \in 1 .. Len(s \o t) : (s \o t)[i] = s[k]
  BY <1>1, <1>3
<1>4. ASSUME NEW k \in 1 .. Len(t) PROVE \E i \in 1 .. Len(s \o t) : (s \o t)[i] = t[k]
  <2>1. Len(s) + k \in 1 .. Len(s \o t) /\ (s \o t)[Len(s) + k] = t[k]
    BY <1>1, <1>4
  <2> QED BY <2>1
<1> QED BY <1>1, <1>2, <1>3, <1>4 DEF W!Contains

\* What a watch that is closed has raised is dropped, and nothing else.
LEMMA OthersAreLeft ==
  ASSUME wEvents \in Seq(W!Event), NEW d
  PROVE  /\ W!Elsewhere(d) \in Seq(W!Event)
         /\ \A x \in W!Event : x.at # d /\ W!Contains(wEvents, x)
              => W!Contains(W!Elsewhere(d), x)
<1> DEFINE Left == {i \in DOMAIN wEvents : wEvents[i].at # d}
           Upto(i) == {j \in Left : j <= i}
           Place(i) == W!Cardinality(Upto(i))
           n == W!Cardinality(Left)
           place == [i \in Left |-> Place(i)]
           It(k) == CHOOSE i \in Left : Place(i) = k
<1>1. /\ Len(wEvents) \in Nat /\ DOMAIN wEvents = 1 .. Len(wEvents)
      /\ \A i \in 1 .. Len(wEvents) : wEvents[i] \in W!Event
  OBVIOUS
<1>2. IsFiniteSet(Left) /\ n \in Nat /\ Left \subseteq 1 .. Len(wEvents)
  <2>1. IsFiniteSet(1 .. Len(wEvents))
    BY <1>1, FS_Interval
  <2>2. Left \in SUBSET (1 .. Len(wEvents))
    BY <1>1
  <2>3. IsFiniteSet(Left)
    BY <2>1, <2>2, FS_Subset
  <2> QED BY <2>2, <2>3, CountsAlike, FS_CardinalityType
<1>3. ASSUME NEW i \in Left
      PROVE  IsFiniteSet(Upto(i)) /\ Place(i) \in 1 .. n
  <2>1. IsFiniteSet(Upto(i)) /\ Place(i) <= n
    <3>1. Upto(i) \in SUBSET Left
      OBVIOUS
    <3> QED BY <1>2, <3>1, CountsAlike, FS_Subset
  <2>2. Place(i) \in Nat
    BY <2>1, CountsAlike, FS_CardinalityType
  <2>3. i \in Upto(i)
    BY <1>2
  <2>4. Place(i) # 0
    BY <2>1, <2>3, CountsAlike, FS_EmptySet
  <2> QED BY <1>2, <2>1, <2>2, <2>4
<1>4. ASSUME NEW i \in Left, NEW j \in Left, i < j PROVE Place(i) # Place(j)
  <2>1. Upto(i) \in SUBSET Upto(j) /\ j \in Upto(j) /\ j \notin Upto(i)
    BY <1>2, <1>4
  <2>2. IsFiniteSet(Upto(j))
    BY <1>3
  <2> QED BY <2>1, <2>2, CountsAlike, FS_Subset
<1>5. \A i, j \in Left : Place(i) = Place(j) => i = j
  <2> SUFFICES ASSUME NEW i \in Left, NEW j \in Left, Place(i) = Place(j) PROVE i = j
    OBVIOUS
  <2>1. i < j \/ j < i \/ i = j
    BY <1>2
  <2> QED BY <1>4, <2>1
<1>6. place \in [Left -> 1 .. n]
  BY <1>3
<1>7. place \in Surjection(Left, 1 .. n)
  <2>1. place \in Injection(Left, 1 .. n)
    BY <1>5, <1>6 DEF Injection, IsInjective
  <2>2. IsFiniteSet(1 .. n) /\ Cardinality(1 .. n) = n
    BY <1>2, FS_Interval
  <2> QED BY <1>2, <2>1, <2>2, CountsAlike, FS_Injection
<1>8. \A k \in 1 .. n : It(k) \in Left /\ Place(It(k)) = k
  <2> SUFFICES ASSUME NEW k \in 1 .. n PROVE \E i \in Left : Place(i) = k
    OBVIOUS
  <2> QED BY <1>7 DEF Surjection
<1>9. \A i \in Left : Place(i) \in 1 .. n /\ It(Place(i)) = i
  BY <1>3, <1>5, <1>8
<1>10. W!Elsewhere(d) = [k \in 1 .. n |-> wEvents[It(k)]]
  BY DEF W!Elsewhere
<1> HIDE DEF Left, Place, n, It
<1>11. W!Elsewhere(d) \in Seq(W!Event) /\ Len(W!Elsewhere(d)) = n
  <2>1. \A k \in 1 .. n : wEvents[It(k)] \in W!Event
    BY <1>1, <1>2, <1>8
  <2>2. W!Elsewhere(d) \in [1 .. n -> W!Event]
    BY <1>10, <2>1
  <2> QED BY <1>2, <2>2
<1>12. ASSUME NEW i \in 1 .. Len(wEvents), wEvents[i].at # d
       PROVE  \E k \in 1 .. Len(W!Elsewhere(d)) : W!Elsewhere(d)[k] = wEvents[i]
  <2>1. i \in Left
    BY <1>1, <1>12 DEF Left
  <2> QED BY <1>9, <1>10, <1>11, <2>1
<1> QED BY <1>11, <1>12 DEF W!Contains

\* The directories above the parent are above the directory, and it is one of them.
LEMMA Ancestors ==
  ASSUME W!DirWatchAssumption, NEW d \in W!AllDirs
  PROVE  /\ d \in W!Above(d)
         /\ d \in Dirs => Parent[d] \in W!AllDirs /\ W!Above(Parent[d]) \subseteq W!Above(d)
BY DEF W!DirWatchAssumption, W!Above, W!Upwards

\* A directory is not its own parent.
LEMMA NotItsParent ==
  ASSUME W!DirWatchAssumption, NEW d \in Dirs
  PROVE  Parent[d] # d
<1> SUFFICES ASSUME Parent[d] = d PROVE FALSE
  OBVIOUS
<1>1. {d} \in SUBSET W!AllDirs /\ W!Upwards({d})
  BY DEF W!AllDirs, W!Upwards
<1>2. W!Above(d) \subseteq {d}
  BY <1>1 DEF W!Above
<1> QED BY <1>2 DEF W!DirWatchAssumption, W!AllDirs

\* The paths that have a watch are finitely many.
LEMMA WatchedAreFinite ==
  ASSUME W!DirWatchAssumption
  PROVE  IsFiniteSet(W!Watched) /\ Cardinality(W!Watched) \in Nat
<1>1. IsFiniteSet(W!AllDirs) /\ W!Watched \in SUBSET W!AllDirs
  BY CountsAlike, FS_AddElement DEF W!DirWatchAssumption, W!AllDirs, W!Watched
<1> QED BY <1>1, FS_Subset, FS_CardinalityType

-----------------------------------------------------------------------------
(* What the changes of the disk keep.                                       *)

\* A watch that is set raises the event, and none is raised without watches.
LEMMA WatchRaises ==
  ASSUME DInv, NEW at \in W!AllDirs, NEW of \in W!AllDirs \cup Sources
  PROVE  /\ W!Raise(at, of) \in Seq(W!Event)
         /\ W!Live(at) => W!Contains(W!Raise(at, of), [at |-> at, of |-> of])
         /\ W!Watched = {} => W!Raise(at, of) = <<>>
<1> DEFINE e == [at |-> at, of |-> of]
<1>1. e \in W!Event
  BY DEF W!Event
<1> HIDE DEF e
<1>2. <<e>> \in Seq(W!Event) /\ Len(<<e>>) = 1 /\ <<e>>[1] = e /\ <<>> \in Seq(W!Event)
  BY <1>1
<1>3. W!Contains(<<e>>, e)
  BY <1>2 DEF W!Contains
<1>4. W!Live(at) => W!Watched # {}
  BY DEF W!Live, W!Watched
<1>5. W!Raise(at, of) = IF W!Live(at) THEN <<e>> ELSE <<>>
  BY DEF W!Raise, e
<1> QED BY <1>2, <1>3, <1>4, <1>5 DEF e

\* A change numbers what is new by changes + 1, and raises an event for each directory
\* or file that is new in a watched directory, and for what goes.
Told(newNode, newDisk, from, raised) ==
  /\ newNode \in [W!AllDirs -> Nat] /\ newDisk \in [Sources -> Nat]
  /\ raised \in Seq(W!Event) /\ (W!Watched = {} => raised = <<>>)
  /\ newNode[Root] = wNode[Root]
  /\ \A d \in W!AllDirs : newNode[d] \in {0, wNode[d], wChanges + 1}
  /\ \A f \in Sources : newDisk[f] \in {0, wDisk[f], wChanges + 1}
  /\ \A d \in Dirs : newNode[d] = wChanges + 1 /\ newNode[Parent[d]] # wChanges + 1
                     /\ W!Live(Parent[d]) => W!Contains(raised, [at |-> Parent[d],
                          of |-> d])
  /\ \A f \in Sources : newDisk[f] = wChanges + 1 /\ newNode[Parent[f]] # wChanges + 1
                     /\ W!Live(Parent[f]) => W!Contains(raised, [at |-> Parent[f],
                          of |-> f])
  /\ \A f \in Sources : newDisk[f] = 0 /\ wDisk[f] # 0 /\ W!Live(from) =>
       \/ W!Contains(raised, [at |-> Parent[f], of |-> f])
       \/ \E d \in W!Above(Parent[f]) : W!Contains(raised, [at |-> d, of |-> d])

\* Such a change keeps the invariant, whatever it is.
LEMMA ChangeKeeps ==
  ASSUME W!DirWatchAssumption, DInv, NEW newNode, NEW newDisk, NEW from, NEW raised,
         W!Change(newNode, newDisk, from, raised), Told(newNode, newDisk, from, raised),
         Hangs'
  PROVE  DInv'
<1>0. Told(newNode, newDisk, from, raised)
  OBVIOUS
<1> USE DEF DInv
<1>1. /\ wChanges \in Nat /\ wChanges < MaxChanges /\ wChanges' = wChanges + 1
      /\ MaxChanges \in Nat
      /\ wNode' = newNode /\ wDisk' = newDisk /\ wEvents' = wEvents \o raised
      /\ UNCHANGED <<wWatching, wDirWatchers, wInotifyLimitWarned, wRefused, wForgotten,
                     wWalk, wMarkExisting, wIndex, wPendingFiles, wNeedsFullScan, wCatchUp>>
  BY DEF W!Change, W!watchVars, W!walkVars, W!syncVars, W!TypeOK, W!Numbers,
  W!DirWatchAssumption
<1>2. /\ wNode \in [W!AllDirs -> W!Numbers] /\ wDirWatchers \in [W!AllDirs -> W!Numbers]
      /\ wDisk \in [Sources -> W!Numbers] /\ wIndex \in [Sources -> W!Numbers]
      /\ wEvents \in Seq(W!Event)
      /\ \A d \in W!AllDirs : wNode[d] <= wChanges /\ wDirWatchers[d] <= wChanges
      /\ \A f \in Sources : wDisk[f] <= wChanges
  BY DEF W!TypeOK, Numbered
<1>3. \A d \in W!AllDirs : W!Live(d)' => W!Live(d) /\ newNode[d] = wNode[d]
          /\ newNode[d] # wChanges + 1
  BY <1>0, <1>1, <1>2 DEF Told, W!Live, W!Numbers
<1>4. /\ wEvents' \in Seq(W!Event)
      /\ \A at, of : Raised(at, of)' <=> Raised(at, of)
           \/ W!Contains(raised, [at |-> at, of |-> of])
  <2> HIDE DEF DInv, W!Event
  <2>0. wEvents \in Seq(W!Event) /\ raised \in Seq(W!Event)
    BY <1>0, <1>2 DEF Told
  <2>1. wEvents \o raised \in Seq(W!Event)
        /\ \A x : W!Contains(wEvents \o raised, x) <=> W!Contains(wEvents, x)
             \/ W!Contains(raised, x)
    BY <2>0, Joined
  <2> QED BY <1>1, <2>1 DEF Raised
<1>5. \A do, d : Doing(do, d)' <=> Doing(do, d)
  BY <1>1 DEF Doing
<1>6. Marked' = Marked /\ \A d : W!Deaf(d)' <=> W!Deaf(d)
  BY <1>1 DEF Marked, W!Deaf
<1>7. W!TypeOK'
  <2>1. W!Watched' = W!Watched
    BY <1>1 DEF W!Watched
  <2>2. newNode \in [W!AllDirs -> W!Numbers] /\ newDisk \in [Sources -> W!Numbers]
    <3>1. \A n \in W!Numbers \cup {0, wChanges + 1} : n \in W!Numbers
      BY <1>1 DEF W!Numbers
    <3>2. \A d \in W!AllDirs : newNode[d] \in W!Numbers
      BY <1>0, <1>2, <3>1 DEF Told
    <3>3. \A f \in Sources : newDisk[f] \in W!Numbers
      BY <1>0, <1>2, <3>1 DEF Told
    <3> QED BY <1>0, <3>2, <3>3 DEF Told
  <2>3. wUnheard' \subseteq Sources
    BY DEF W!Change
  <2>4. wChanges' \in W!Numbers
    BY <1>1 DEF W!Numbers
  <2>5. ~wWatching => raised = <<>> /\ wEvents = <<>>
    BY <1>0 DEF Told, W!TypeOK
  <2>6. ~wWatching => wEvents' = <<>>
    BY <1>1, <2>5
  <2> QED BY <1>1, <1>4, <2>1, <2>2, <2>3, <2>4, <2>6 DEF W!TypeOK
<1>8. Numbered'
  <2>1. \A n \in W!Numbers : n <= wChanges => n <= wChanges + 1
    BY <1>1 DEF W!Numbers
  <2>2. 0 <= wChanges + 1 /\ wChanges + 1 <= wChanges + 1
    BY <1>1
  <2> QED BY <1>0, <1>1, <1>2, <2>1, <2>2 DEF Told, Numbered
<1>9. DirsAreSeen'
  <2> SUFFICES ASSUME wWatching PROVE DirsAreSeen!2'
    BY <1>1 DEF DirsAreSeen
  <2>1. W!Live(Root)' \/ (Root \in Marked)' \/ Doing("watch", Root)'
    <3>1. W!Live(Root)' <=> W!Live(Root)
      BY <1>0, <1>1 DEF Told, W!Live
    <3> QED BY <1>5, <1>6, <3>1 DEF DirsAreSeen
  <2>2. ASSUME NEW d \in Dirs, newNode[d] # 0, W!Live(Parent[d])'
        PROVE  W!Live(d)' \/ (d \in Marked)' \/ Doing("watch", d)'
               \/ Doing("list", Parent[d])' \/ Raised(Parent[d], d)'
    <3>1. Parent[d] \in W!AllDirs /\ d \in W!AllDirs
      BY DEF W!DirWatchAssumption, W!AllDirs
    <3>2. W!Live(Parent[d]) /\ newNode[Parent[d]] # wChanges + 1
      BY <1>3, <2>2, <3>1
    <3>3. CASE newNode[d] = wChanges + 1
      BY <1>0, <1>4, <3>2, <3>3 DEF Told
    <3>4. CASE newNode[d] = wNode[d]
      <4>1. W!Live(d)' <=> W!Live(d)
        BY <1>1, <3>4 DEF W!Live
      <4> QED BY <1>4, <1>5, <1>6, <2>2, <3>2, <3>4, <4>1 DEF DirsAreSeen
    <3> QED BY <1>0, <2>2, <3>1, <3>3, <3>4 DEF Told
  <2> QED BY <1>1, <2>1, <2>2
<1>10. FilesAreHeard'
  <2> SUFFICES ASSUME wWatching, NEW f \in Sources, f \notin wUnheard',
          wIndex[f] # newDisk[f]
               PROVE  Heard(f)'
    BY <1>1 DEF FilesAreHeard
  <2>1. Parent[f] \in W!AllDirs
    BY DEF W!DirWatchAssumption
  <2>2. CASE newDisk[f] = wDisk[f]
    <3>1. f \notin wUnheard
      BY <2>2 DEF W!Change, Gone
    <3>2. Heard(f)
      BY <2>2, <3>1 DEF FilesAreHeard
    <3>3. ~W!Live(Parent[f]) => ~W!Live(Parent[f])'
      BY <1>3, <2>1
    <3> QED BY <1>1, <1>4, <1>5, <1>6, <2>2, <3>2, <3>3 DEF Heard
  <2>3. CASE newDisk[f] = wChanges + 1
    <3>1. W!Live(Parent[f])' => Raised(Parent[f], f)'
      BY <1>0, <1>3, <1>4, <2>1, <2>3 DEF Told
    <3>2. newDisk[f] # 0
      BY <1>1, <2>3
    <3> QED BY <1>1, <3>1, <3>2 DEF Heard
  <2>4. CASE newDisk[f] = 0 /\ wDisk[f] # 0
    <3>1. W!Live(from)
      BY <2>4 DEF W!Change
    <3>2. Raised(Parent[f], f)' \/ \E d \in W!Above(Parent[f]) : Raised(d, d)'
      BY <1>0, <1>4, <2>4, <3>1 DEF Told
    <3> QED BY <1>1, <2>4, <3>2 DEF Heard
  <2> QED BY <1>0, <2>2, <2>3, <2>4 DEF Told
<1>11. FirstWalk'
  BY <1>1 DEF FirstWalk
<1>12. Gone'
  BY DEF W!Change, Gone
<1> QED BY <1>7, <1>8, <1>9, <1>10, <1>11, <1>12

\* The version that is saved is new, and the watch of its directory tells of it.
LEMMA SaveKeeps ==
  ASSUME W!DirWatchAssumption, DInv, NEW f \in Sources, W!Save(f)
  PROVE  DInv'
<1> DEFINE newDisk == [wDisk EXCEPT ![f] = wChanges + 1]
           raised == W!Raise(Parent[f], f)
<1>1. /\ W!Change(wNode, newDisk, Parent[f], raised) /\ wNode[Parent[f]] # 0
      /\ Parent[f] \in W!AllDirs /\ f \in W!AllDirs \cup Sources
  BY DEF W!Save, W!DirWatchAssumption
<1>2. /\ wNode \in [W!AllDirs -> Nat] /\ wDisk \in [Sources -> Nat] /\ wChanges \in Nat
      /\ \A d \in W!AllDirs : wNode[d] # wChanges + 1
      /\ \A g \in Sources : wDisk[g] # wChanges + 1
  BY DEF DInv, W!TypeOK, W!Numbers, Numbered
<1>3. /\ newDisk \in [Sources -> Nat] /\ newDisk[f] = wChanges + 1
      /\ \A g \in Sources \ {f} : newDisk[g] = wDisk[g]
  BY <1>2
<1>4. /\ raised \in Seq(W!Event) /\ (W!Watched = {} => raised = <<>>)
      /\ W!Live(Parent[f]) => W!Contains(raised, [at |-> Parent[f], of |-> f])
  BY <1>1, WatchRaises
<1>5. wNode' = wNode /\ wDisk' = newDisk
  BY <1>1 DEF W!Change
<1> HIDE DEF newDisk, raised
<1>6. Hangs'
  BY <1>1, <1>3, <1>5 DEF DInv, Hangs
<1>7. Told(wNode, newDisk, Parent[f], raised)
  <2>1. \A g \in Sources : newDisk[g] \in {0, wDisk[g], wChanges + 1}
    BY <1>3
  <2>2. \A d \in Dirs : wNode[d] # wChanges + 1
    BY <1>2 DEF W!AllDirs
  <2>3. \A g \in Sources : newDisk[g] = wChanges + 1 => g = f
    BY <1>2, <1>3
  <2>4. \A g \in Sources : newDisk[g] = 0 => wDisk[g] = 0
    BY <1>2, <1>3
  <2>5. \A d \in Dirs : wNode[d] = wChanges + 1 /\ wNode[Parent[d]] # wChanges + 1
          /\ W!Live(Parent[d]) => W!Contains(raised, [at |-> Parent[d], of |-> d])
    BY <2>2
  <2>6. \A g \in Sources : newDisk[g] = wChanges + 1 /\ wNode[Parent[g]] # wChanges + 1
          /\ W!Live(Parent[g]) => W!Contains(raised, [at |-> Parent[g], of |-> g])
    BY <1>4, <2>3
  <2>7. \A d \in W!AllDirs : wNode[d] \in {0, wNode[d], wChanges + 1}
    OBVIOUS
  <2>8. wNode \in [W!AllDirs -> Nat] /\ newDisk \in [Sources -> Nat]
    BY <1>2, <1>3
  <2> QED BY <1>4, <2>1, <2>4, <2>5, <2>6, <2>7, <2>8 DEF Told
<1> QED BY <1>1, <1>6, <1>7, ChangeKeeps

\* Of a file that goes, the watch of its directory tells.
LEMMA UnlinkKeeps ==
  ASSUME W!DirWatchAssumption, DInv, NEW f \in Sources, W!Unlink(f)
  PROVE  DInv'
<1> DEFINE newDisk == [wDisk EXCEPT ![f] = 0]
           raised == W!Raise(Parent[f], f)
<1>1. /\ W!Change(wNode, newDisk, Parent[f], raised)
      /\ Parent[f] \in W!AllDirs /\ f \in W!AllDirs \cup Sources
  BY DEF W!Unlink, W!DirWatchAssumption
<1>2. /\ wNode \in [W!AllDirs -> Nat] /\ wDisk \in [Sources -> Nat] /\ wChanges \in Nat
      /\ \A d \in W!AllDirs : wNode[d] # wChanges + 1
      /\ \A g \in Sources : wDisk[g] # wChanges + 1
  BY DEF DInv, W!TypeOK, W!Numbers, Numbered
<1>3. /\ newDisk \in [Sources -> Nat] /\ newDisk[f] = 0
      /\ \A g \in Sources \ {f} : newDisk[g] = wDisk[g]
  BY <1>2
<1>4. /\ raised \in Seq(W!Event) /\ (W!Watched = {} => raised = <<>>)
      /\ W!Live(Parent[f]) => W!Contains(raised, [at |-> Parent[f], of |-> f])
  BY <1>1, WatchRaises
<1>5. wNode' = wNode /\ wDisk' = newDisk
  BY <1>1 DEF W!Change
<1> HIDE DEF newDisk, raised
<1>6. Hangs'
  BY <1>3, <1>5 DEF DInv, Hangs
<1>7. Told(wNode, newDisk, Parent[f], raised)
  <2>1. \A g \in Sources : newDisk[g] \in {0, wDisk[g]} /\ newDisk[g] # wChanges + 1
    BY <1>2, <1>3
  <2>2. \A d \in Dirs : wNode[d] # wChanges + 1
    BY <1>2 DEF W!AllDirs
  <2>3. \A g \in Sources : newDisk[g] = 0 /\ wDisk[g] # 0 => g = f
    BY <1>3
  <2>4. \A g \in Sources : newDisk[g] = 0 /\ wDisk[g] # 0 /\ W!Live(Parent[f]) =>
          W!Contains(raised, [at |-> Parent[g], of |-> g])
    BY <1>4, <2>3
  <2> QED BY <1>2, <1>3, <1>4, <2>1, <2>2, <2>4 DEF Told
<1> QED BY <1>1, <1>6, <1>7, ChangeKeeps

\* Of a directory that comes with others and with files, the watch above it tells.
LEMMA AppearKeeps ==
  ASSUME W!DirWatchAssumption, DInv, NEW d \in Dirs,
         NEW below \in SUBSET {e \in Dirs : Parent[e] = d},
         NEW files \in SUBSET W!FilesIn({d} \cup below), W!Appear(d, below, files)
  PROVE  DInv'
<1> DEFINE new == {d} \cup below
           newNode == [e \in W!AllDirs |-> IF e \in new THEN wChanges + 1 ELSE wNode[e]]
           newDisk == [f \in Sources |-> IF f \in files THEN wChanges + 1 ELSE wDisk[f]]
           raised == W!Raise(Parent[d], d)
<1>1. /\ W!Change(newNode, newDisk, Parent[d], raised)
      /\ wNode[d] = 0 /\ wNode[Parent[d]] # 0
      /\ Parent[d] \in W!AllDirs /\ d \in W!AllDirs \cup Sources
      /\ new \subseteq Dirs /\ d \in new /\ Dirs \subseteq W!AllDirs
      /\ \A e \in Dirs : Parent[e] \in W!AllDirs
      /\ \A f \in Sources : Parent[f] \in W!AllDirs
  BY DEF W!Appear, W!DirWatchAssumption, W!AllDirs
<1>2. /\ wNode \in [W!AllDirs -> Nat] /\ wDisk \in [Sources -> Nat] /\ wChanges \in Nat
      /\ \A e \in W!AllDirs : wNode[e] # wChanges + 1
      /\ \A f \in Sources : wDisk[f] # wChanges + 1
  BY DEF DInv, W!TypeOK, W!Numbers, Numbered
<1>3. /\ newNode \in [W!AllDirs -> Nat] /\ newDisk \in [Sources -> Nat]
      /\ \A e \in new : newNode[e] = wChanges + 1
      /\ \A e \in W!AllDirs \ new : newNode[e] = wNode[e]
      /\ \A f \in files : newDisk[f] = wChanges + 1
      /\ \A f \in Sources \ files : newDisk[f] = wDisk[f]
      /\ wChanges + 1 # 0
  <2>1. new \subseteq W!AllDirs /\ files \subseteq Sources
    BY <1>1 DEF W!FilesIn
  <2>2. wChanges + 1 \in Nat /\ wChanges + 1 # 0
    BY <1>2
  <2> QED BY <1>2, <2>1, <2>2
<1>4. /\ raised \in Seq(W!Event) /\ (W!Watched = {} => raised = <<>>)
      /\ W!Live(Parent[d]) => W!Contains(raised, [at |-> Parent[d], of |-> d])
  BY <1>1, WatchRaises
<1>5. wNode' = newNode /\ wDisk' = newDisk
  BY <1>1 DEF W!Change
<1>6. /\ Root \in W!AllDirs \ new
      /\ \A e \in new : e = d \/ Parent[e] = d
      /\ \A f \in files : f \in Sources /\ Parent[f] \in new
  BY <1>1 DEF W!DirWatchAssumption, W!AllDirs, W!FilesIn
<1> HIDE DEF new, newNode, newDisk, raised
<1>7. Hangs'
  <2>1. \A e \in W!AllDirs : wNode[e] # 0 => newNode[e] # 0
    BY <1>3
  <2>2. ASSUME NEW e \in Dirs, newNode[e] # 0 PROVE newNode[Parent[e]] # 0
    BY <1>1, <1>3, <1>6, <2>1, <2>2 DEF DInv, Hangs
  <2>3. ASSUME NEW f \in Sources, newDisk[f] # 0 PROVE newNode[Parent[f]] # 0
    BY <1>1, <1>3, <1>6, <2>1, <2>3 DEF DInv, Hangs
  <2> QED BY <1>5, <1>6, <2>1, <2>2, <2>3 DEF DInv, Hangs
<1>8. Told(newNode, newDisk, Parent[d], raised)
  <2>1. \A e \in W!AllDirs : newNode[e] \in {0, wNode[e], wChanges + 1}
    BY <1>3
  <2>2. \A f \in Sources : newDisk[f] \in {0, wDisk[f], wChanges + 1}
            /\ newDisk[f] \in {wDisk[f], wChanges + 1}
    BY <1>3
  <2>3. \A e \in Dirs : newNode[e] = wChanges + 1 /\ newNode[Parent[e]] # wChanges + 1
            => e = d
    BY <1>1, <1>2, <1>3, <1>6
  <2>4. \A e \in Dirs : newNode[e] = wChanges + 1 /\ newNode[Parent[e]] # wChanges + 1
          /\ W!Live(Parent[e]) => W!Contains(raised, [at |-> Parent[e], of |-> e])
    BY <1>4, <2>3
  <2>5. \A f \in Sources : newDisk[f] = wChanges + 1 => newNode[Parent[f]] = wChanges + 1
    BY <1>1, <1>2, <1>3, <1>6
  <2>6. \A f \in Sources : ~(newDisk[f] = 0 /\ wDisk[f] # 0)
    BY <1>3
  <2>7. newNode[Root] = wNode[Root]
    BY <1>3, <1>6
  <2> QED BY <1>3, <1>4, <2>1, <2>2, <2>4, <2>5, <2>6, <2>7 DEF Told
<1> QED BY <1>1, <1>7, <1>8, ChangeKeeps

\* A directory that is removed has nothing left in it.
LEMMA RemoveDirKeeps ==
  ASSUME W!DirWatchAssumption, DInv, NEW d \in Dirs, W!RemoveDir(d)
  PROVE  DInv'
<1> DEFINE newNode == [wNode EXCEPT ![d] = 0]
           raised == W!Raise(d, d) \o W!Raise(Parent[d], d)
<1>1. /\ W!Change(newNode, wDisk, d, raised)
      /\ Parent[d] \in W!AllDirs /\ d \in W!AllDirs /\ Root \in W!AllDirs \ {d}
      /\ Dirs \subseteq W!AllDirs
      /\ \A e \in Dirs : Parent[e] = d => wNode[e] = 0
      /\ \A f \in Sources : Parent[f] = d => wDisk[f] = 0
  BY DEF W!RemoveDir, W!DirWatchAssumption, W!AllDirs, W!FilesIn
<1>2. /\ wNode \in [W!AllDirs -> Nat] /\ wDisk \in [Sources -> Nat] /\ wChanges \in Nat
      /\ \A e \in W!AllDirs : wNode[e] # wChanges + 1
      /\ \A f \in Sources : wDisk[f] # wChanges + 1
  BY DEF DInv, W!TypeOK, W!Numbers, Numbered
<1>3. /\ newNode \in [W!AllDirs -> Nat] /\ newNode[d] = 0
      /\ \A e \in W!AllDirs \ {d} : newNode[e] = wNode[e]
  BY <1>1, <1>2
<1>4. raised \in Seq(W!Event) /\ (W!Watched = {} => raised = <<>>)
  <2>1. /\ W!Raise(d, d) \in Seq(W!Event) /\ W!Raise(Parent[d], d) \in Seq(W!Event)
        /\ W!Watched = {} => W!Raise(d, d) = <<>> /\ W!Raise(Parent[d], d) = <<>>
    BY <1>1, WatchRaises
  <2>2. raised \in Seq(W!Event)
    BY <2>1, Joined
  <2> QED BY <2>1, <2>2
<1>5. wNode' = newNode /\ wDisk' = wDisk
  BY <1>1 DEF W!Change
<1> HIDE DEF newNode, raised
<1>6. Hangs'
  BY <1>1, <1>3, <1>5 DEF DInv, Hangs, W!DirWatchAssumption
<1>7. Told(newNode, wDisk, d, raised)
  <2>1. \A e \in W!AllDirs : newNode[e] \in {0, wNode[e], wChanges + 1}
            /\ newNode[e] # wChanges + 1
    BY <1>2, <1>3
  <2>2. \A e \in Dirs : newNode[e] # wChanges + 1
    BY <1>1, <2>1
  <2>3. newNode[Root] = wNode[Root]
    BY <1>1, <1>3
  <2> QED BY <1>2, <1>3, <1>4, <2>1, <2>2, <2>3 DEF Told
<1> QED BY <1>1, <1>6, <1>7, ChangeKeeps

\* A directory that is moved away tells of itself, for all the files below it.
LEMMA MoveAwayKeeps ==
  ASSUME W!DirWatchAssumption, DInv, NEW d \in Dirs, W!MoveAway(d)
  PROVE  DInv'
<1> DEFINE gone == W!Within(d)
           newNode == [e \in W!AllDirs |-> IF e \in gone THEN 0 ELSE wNode[e]]
           newDisk == [f \in Sources |-> IF f \in W!FilesIn(gone) THEN 0 ELSE wDisk[f]]
           raised == W!Raise(Parent[d], d) \o W!Raise(d, d)
<1>1. /\ W!Change(newNode, newDisk, d, raised)
      /\ Parent[d] \in W!AllDirs /\ d \in W!AllDirs /\ Root \in W!AllDirs \ gone
      /\ Dirs \subseteq W!AllDirs
      /\ \A e \in Dirs : Parent[e] \in W!AllDirs
      /\ \A f \in Sources : Parent[f] \in W!AllDirs
  BY DEF W!MoveAway, W!DirWatchAssumption, W!AllDirs, W!Within
<1>2. /\ wNode \in [W!AllDirs -> Nat] /\ wDisk \in [Sources -> Nat] /\ wChanges \in Nat
      /\ \A e \in W!AllDirs : wNode[e] # wChanges + 1
      /\ \A f \in Sources : wDisk[f] # wChanges + 1
  BY DEF DInv, W!TypeOK, W!Numbers, Numbered
<1>3. /\ newNode \in [W!AllDirs -> Nat] /\ newDisk \in [Sources -> Nat]
      /\ \A e \in W!AllDirs \cap gone : newNode[e] = 0
      /\ \A e \in W!AllDirs \ gone : newNode[e] = wNode[e]
      /\ \A f \in Sources : Parent[f] \in gone => newDisk[f] = 0
      /\ \A f \in Sources : Parent[f] \notin gone => newDisk[f] = wDisk[f]
  BY <1>2 DEF W!FilesIn
<1>4. /\ raised \in Seq(W!Event) /\ (W!Watched = {} => raised = <<>>)
      /\ W!Live(d) => W!Contains(raised, [at |-> d, of |-> d])
  <2>1. /\ W!Raise(d, d) \in Seq(W!Event) /\ W!Raise(Parent[d], d) \in Seq(W!Event)
        /\ W!Watched = {} => W!Raise(d, d) = <<>> /\ W!Raise(Parent[d], d) = <<>>
        /\ W!Live(d) => W!Contains(W!Raise(d, d), [at |-> d, of |-> d])
    BY <1>1, WatchRaises
  <2>2. /\ raised \in Seq(W!Event)
        /\ \A x : W!Contains(raised, x) <=>
                   W!Contains(W!Raise(Parent[d], d), x) \/ W!Contains(W!Raise(d, d), x)
    BY <2>1, Joined
  <2> QED BY <2>1, <2>2
<1>5. wNode' = newNode /\ wDisk' = newDisk
  BY <1>1 DEF W!Change
<1>6. /\ \A e \in Dirs : Parent[e] \in gone => e \in gone
      /\ \A e \in gone : d \in W!Above(e)
  <2>1. ASSUME NEW e \in Dirs, Parent[e] \in gone PROVE e \in gone
    <3>1. d \in W!Above(Parent[e])
      BY <2>1 DEF W!Within
    <3>2. W!Above(Parent[e]) \subseteq W!Above(e)
      BY <1>1, Ancestors
    <3> QED BY <3>1, <3>2 DEF W!Within
  <2> QED BY <2>1 DEF W!Within
<1> HIDE DEF gone, newNode, newDisk, raised
<1>7. Hangs'
  <2>1. ASSUME NEW e \in Dirs, newNode[e] # 0 PROVE newNode[Parent[e]] # 0
    BY <1>1, <1>3, <1>6, <2>1 DEF DInv, Hangs
  <2>2. ASSUME NEW f \in Sources, newDisk[f] # 0 PROVE newNode[Parent[f]] # 0
    BY <1>1, <1>3, <2>2 DEF DInv, Hangs
  <2> QED BY <1>1, <1>3, <1>5, <2>1, <2>2 DEF DInv, Hangs
<1>8. Told(newNode, newDisk, d, raised)
  <2>1. \A e \in W!AllDirs : newNode[e] \in {0, wNode[e], wChanges + 1}
            /\ newNode[e] # wChanges + 1
    BY <1>2, <1>3
  <2>2. \A f \in Sources : newDisk[f] \in {0, wDisk[f], wChanges + 1}
            /\ newDisk[f] # wChanges + 1
    BY <1>2, <1>3
  <2>3. \A e \in Dirs : newNode[e] # wChanges + 1
    BY <1>1, <2>1
  <2>4. \A f \in Sources : newDisk[f] = 0 /\ wDisk[f] # 0 => d \in W!Above(Parent[f])
    BY <1>3, <1>6
  <2>5. newNode[Root] = wNode[Root]
    BY <1>1, <1>3
  <2>6. \A f \in Sources : newDisk[f] = 0 /\ wDisk[f] # 0 /\ W!Live(d) =>
          \E e \in W!Above(Parent[f]) : W!Contains(raised, [at |-> e, of |-> e])
    BY <1>4, <2>4
  <2> QED BY <1>3, <1>4, <2>1, <2>2, <2>3, <2>5, <2>6 DEF Told
<1> QED BY <1>1, <1>7, <1>8, ChangeKeeps

-----------------------------------------------------------------------------
(* start(), stop() and the walk.                                            *)

\* The first walk begins at the root, and a sync of all is to come.
LEMMA StartKeeps == ASSUME W!DirWatchAssumption, DInv, W!Start PROVE DInv'
<1>1. /\ wWatching' = TRUE /\ wCatchUp' = TRUE /\ wMarkExisting' = FALSE
      /\ wWalk' = <<[do |-> "watch", dir |-> Root]>>
      /\ UNCHANGED <<wNode, wDisk, wChanges, wUnheard, wEvents, wDirWatchers,
                     wInotifyLimitWarned, wRefused, wForgotten, wIndex, wPendingFiles,
                     wNeedsFullScan>>
      /\ W!Watched = {}
  BY DEF W!Start, W!diskVars, W!watchVars, DInv, W!TypeOK
<1>2. wWalk' \in Seq(W!Task) /\ Doing("watch", Root)'
  <2>1. [do |-> "watch", dir |-> Root] \in W!Task
    BY DEF W!Task, W!AllDirs
  <2>2. Len(wWalk') = 1 /\ wWalk'[1] = [do |-> "watch", dir |-> Root]
    BY <1>1
  <2>3. W!Contains(wWalk', [do |-> "watch", dir |-> Root])
    BY <2>2 DEF W!Contains
  <2> QED BY <1>1, <2>1, <2>3 DEF Doing
<1>3. W!Watched' = {}
  BY <1>1 DEF W!Watched
<1>4. W!TypeOK'
  BY <1>1, <1>2, <1>3 DEF DInv, W!TypeOK
<1>5. DirsAreSeen'
  <2>1. \A d \in W!AllDirs : ~W!Live(d)'
    BY <1>3 DEF W!Live, W!Watched
  <2>2. \A d \in Dirs : ~W!Live(Parent[d])'
    BY <2>1 DEF W!DirWatchAssumption
  <2> QED BY <1>2, <2>2 DEF DirsAreSeen
<1>6. FilesAreHeard'
  BY <1>1 DEF FilesAreHeard, Heard
<1> QED BY <1>1, <1>4, <1>5, <1>6 DEF DInv, Hangs, Numbered, FirstWalk, Gone

\* A watcher that is stopped owes nothing.
LEMMA StoppedKeeps == ASSUME W!DirWatchAssumption, DInv, W!Stopped PROVE DInv'
<1>1. /\ wWatching' = FALSE /\ wCatchUp' = FALSE /\ wInotifyLimitWarned' = FALSE
      /\ wEvents' = <<>> /\ wWalk' = <<>> /\ wPendingFiles' = {}
      /\ wDirWatchers' = [d \in W!AllDirs |-> 0] /\ wRefused' = {} /\ wForgotten' = {}
      /\ UNCHANGED <<wNode, wDisk, wChanges, wUnheard, wMarkExisting, wIndex,
           wNeedsFullScan>>
  BY DEF W!Stopped, W!diskVars
<1>2. wChanges \in Nat /\ 0 \in W!Numbers /\ MaxDirs \in Nat
  BY DEF DInv, W!TypeOK, W!Numbers, W!DirWatchAssumption
<1>3. W!Watched' = {} /\ Cardinality({}) = 0
  BY <1>1, FS_EmptySet DEF W!Watched
<1>4. Cardinality(W!Watched') <= MaxDirs
  BY <1>2, <1>3
<1>5. wDirWatchers' \in [W!AllDirs -> W!Numbers]
  BY <1>1, <1>2
<1>6. W!TypeOK'
  <2>1. <<>> \in Seq(W!Event) /\ <<>> \in Seq(W!Task)
    OBVIOUS
  <2>2. \A S : S = {} => S \subseteq W!AllDirs /\ S \subseteq Sources
    OBVIOUS
  <2> QED BY <1>1, <1>3, <1>4, <1>5, <2>1, <2>2, CountsAlike DEF DInv, W!TypeOK
<1>7. Numbered'
  BY <1>1, <1>2 DEF DInv, Numbered
<1> QED BY <1>1, <1>6, <1>7 DEF DInv, Hangs, DirsAreSeen, FilesAreHeard, FirstWalk, Gone

\* The task at hand, and those that are left when it is done.
LEMMA TheTask ==
  ASSUME DInv, NEW do, W!ToDo(do)
  PROVE  /\ wWatching /\ wWalk \in Seq(W!Task) /\ Tail(wWalk) \in Seq(W!Task)
         /\ W!Here \in W!AllDirs
         /\ \A what, d : Doing(what, d) =>
               (what = do /\ d = W!Here)
               \/ W!Contains(Tail(wWalk), [do |-> what, dir |-> d])
<1> HIDE DEF W!Task
<1>1. wWalk \in Seq(W!Task) /\ wWalk # <<>> /\ Head(wWalk).do = do
  BY DEF W!ToDo, DInv, W!TypeOK
<1>2. /\ Tail(wWalk) \in Seq(W!Task) /\ Head(wWalk) \in W!Task
      /\ \A x : W!Contains(wWalk, x) <=> x = Head(wWalk) \/ W!Contains(Tail(wWalk), x)
  BY <1>1, Follows
<1>3. Head(wWalk) = [do |-> do, dir |-> W!Here] /\ W!Here \in W!AllDirs
  BY <1>1, <1>2 DEF W!Task, W!Here
<1>4. \A what, d : [do |-> what, dir |-> d] = [do |-> do, dir |-> W!Here] =>
                     what = do /\ d = W!Here
  OBVIOUS
<1>5. wWatching
  BY <1>1 DEF DInv, W!TypeOK
<1> QED BY <1>1, <1>2, <1>3, <1>4, <1>5 DEF Doing

\* A path that is passed over is excepted, or has its watch.
LEMMA SkipKeeps ==
  ASSUME W!DirWatchAssumption, DInv, W!ToDo("watch"),
         wWalk' = Tail(wWalk), wRefused \subseteq wRefused',
         wForgotten \subseteq wForgotten',
         wRefused' \subseteq W!AllDirs, wForgotten' \subseteq W!AllDirs,
         W!Live(W!Here) \/ W!Here \in wRefused' \cup wForgotten',
         wInotifyLimitWarned' \in BOOLEAN,
         UNCHANGED <<W!diskVars, wEvents, wWatching, wDirWatchers, wMarkExisting,
         W!syncVars>>
  PROVE  DInv'
<1>1. /\ wWatching /\ wWalk # <<>> /\ wWalk' \in Seq(W!Task) /\ W!Here \in W!AllDirs
      /\ \A d \in W!AllDirs : Doing("watch", d) => d = W!Here \/ Doing("watch", d)'
      /\ \A d \in W!AllDirs : Doing("list", d) => Doing("list", d)'
  BY TheTask DEF Doing, W!ToDo
<1>2. UNCHANGED <<wNode, wDisk, wChanges, wUnheard, wEvents, wWatching, wDirWatchers,
                 wMarkExisting, wIndex, wPendingFiles, wNeedsFullScan, wCatchUp>>
  BY DEF W!diskVars, W!syncVars
<1>3. W!Watched' = W!Watched /\ \A d \in W!AllDirs : W!Live(d)' <=> W!Live(d)
  BY <1>2 DEF W!Watched, W!Live
<1>4. /\ Marked \subseteq Marked' /\ (W!Live(W!Here) \/ W!Here \in Marked')
      /\ \A d : W!Deaf(d) => W!Deaf(d)'
      /\ \A at, of : Raised(at, of)' <=> Raised(at, of)
  BY <1>2 DEF Marked, W!Deaf, Raised
<1>5. W!TypeOK'
  BY <1>1, <1>2, <1>3 DEF DInv, W!TypeOK
<1>6. DirsAreSeen'
  <2>1. W!Live(Root)' \/ (Root \in Marked)' \/ Doing("watch", Root)'
    BY <1>1, <1>3, <1>4 DEF DInv, DirsAreSeen, W!AllDirs
  <2>2. ASSUME NEW d \in Dirs, wNode[d] # 0, W!Live(Parent[d])'
        PROVE  W!Live(d)' \/ (d \in Marked)' \/ Doing("watch", d)'
               \/ Doing("list", Parent[d])' \/ Raised(Parent[d], d)'
    <3>1. d \in W!AllDirs /\ Parent[d] \in W!AllDirs
      BY DEF W!DirWatchAssumption, W!AllDirs
    <3> QED BY <1>1, <1>3, <1>4, <2>2, <3>1 DEF DInv, DirsAreSeen
  <2> QED BY <1>2, <2>1, <2>2 DEF DirsAreSeen
<1>7. FilesAreHeard'
  <2> SUFFICES ASSUME NEW f \in Sources, f \notin wUnheard, wIndex[f] # wDisk[f]
          PROVE Heard(f)'
    BY <1>2 DEF FilesAreHeard
  <2>1. Heard(f) /\ Parent[f] \in W!AllDirs
    BY <1>1 DEF W!DirWatchAssumption, DInv, FilesAreHeard
  <2> QED BY <1>1, <1>2, <1>3, <1>4, <2>1 DEF Heard
<1>8. FirstWalk'
  BY <1>1, <1>2 DEF DInv, FirstWalk
<1> QED BY <1>2, <1>5, <1>6, <1>7, <1>8 DEF DInv, Hangs, Numbered, Gone

\* A path that is passed over has an entry, or is refused.
LEMMA SkipDirKeeps == ASSUME W!DirWatchAssumption, DInv, W!SkipDir PROVE DInv'
<1>1. /\ W!ToDo("watch") /\ wWalk' = Tail(wWalk)
      /\ wRefused' = IF W!Here \in W!Watched THEN wRefused ELSE wRefused \cup {W!Here}
      /\ wForgotten' = IF W!Here \notin W!Watched \/ W!Live(W!Here) THEN wForgotten
                                                            ELSE wForgotten \cup {W!Here}
      /\ UNCHANGED <<W!diskVars, wEvents, wWatching, wDirWatchers, wMarkExisting,
           W!syncVars>>
      /\ wInotifyLimitWarned' \in BOOLEAN
  BY DEF W!SkipDir, DInv, W!TypeOK
<1>2. W!Here \in W!AllDirs
  BY <1>1, TheTask
<1>3. /\ wRefused \subseteq wRefused' /\ wForgotten \subseteq wForgotten'
      /\ wRefused' \subseteq W!AllDirs /\ wForgotten' \subseteq W!AllDirs
      /\ W!Live(W!Here) \/ W!Here \in wRefused' \cup wForgotten'
  BY <1>1, <1>2 DEF DInv, W!TypeOK
<1> QED BY <1>1, <1>3, SkipKeeps

\* The path at which the limit is met is refused.
LEMMA LimitKeeps == ASSUME W!DirWatchAssumption, DInv, W!WatchHitsLimit PROVE DInv'
<1>1. /\ W!ToDo("watch") /\ wWalk' = Tail(wWalk)
      /\ wRefused' = wRefused \cup {W!Here} /\ wForgotten' = wForgotten
      /\ UNCHANGED <<W!diskVars, wEvents, wWatching, wDirWatchers, wMarkExisting,
           W!syncVars>>
      /\ wInotifyLimitWarned' \in BOOLEAN
  BY DEF W!WatchHitsLimit
<1>2. W!Here \in W!AllDirs
  BY <1>1, TheTask
<1>3. /\ wRefused \subseteq wRefused' /\ wForgotten \subseteq wForgotten'
      /\ wRefused' \subseteq W!AllDirs /\ wForgotten' \subseteq W!AllDirs
      /\ W!Live(W!Here) \/ W!Here \in wRefused' \cup wForgotten'
  BY <1>1, <1>2 DEF DInv, W!TypeOK
<1> QED BY <1>1, <1>3, SkipKeeps

\* A path that gets its watch is to be listed, if there is a directory at it.
LEMMA WatchDirKeeps == ASSUME W!DirWatchAssumption, DInv, W!WatchDir PROVE DInv'
<1>0. PICK h : h = W!Here
  OBVIOUS
<1> DEFINE listing == IF wNode[h] = 0 THEN <<>> ELSE <<[do |-> "list", dir |-> h]>>
<1>1. /\ W!ToDo("watch") /\ ~W!Skips(h) /\ wWalk # <<>>
      /\ wDirWatchers' = [wDirWatchers EXCEPT ![h] = wNode[h]]
      /\ wWalk' = listing \o Tail(wWalk)
      /\ UNCHANGED <<wNode, wDisk, wChanges, wUnheard, wEvents, wWatching,
           wInotifyLimitWarned,
                     wRefused, wForgotten, wMarkExisting, wIndex, wPendingFiles,
                     wNeedsFullScan, wCatchUp>>
  BY <1>0 DEF W!WatchDir, W!ToDo, W!diskVars, W!syncVars
<1>2. /\ wWatching /\ Tail(wWalk) \in Seq(W!Task) /\ h \in W!AllDirs
      /\ \A what, d : Doing(what, d) => (what = "watch" /\ d = h)
                                        \/ W!Contains(Tail(wWalk), [do |-> what, dir |-> d])
  BY <1>0, <1>1, TheTask
<1>3. /\ listing \in Seq(W!Task)
      /\ wNode[h] # 0 => W!Contains(listing, [do |-> "list", dir |-> h])
  <2> DEFINE t == [do |-> "list", dir |-> h]
  <2>1. t \in W!Task
    BY <1>2 DEF W!Task
  <2> HIDE DEF t
  <2>2. <<t>> \in Seq(W!Task) /\ Len(<<t>>) = 1 /\ <<t>>[1] = t /\ <<>> \in Seq(W!Task)
    BY <2>1
  <2>3. W!Contains(<<t>>, t)
    BY <2>2 DEF W!Contains
  <2> QED BY <2>2, <2>3 DEF t
<1> HIDE DEF listing
<1>4. /\ wWalk' \in Seq(W!Task)
      /\ \A what, d : Doing(what, d) => (what = "watch" /\ d = h) \/ Doing(what, d)'
      /\ wNode[h] # 0 => Doing("list", h)'
  <2> HIDE DEF W!Task
  <2>1. /\ listing \o Tail(wWalk) \in Seq(W!Task)
        /\ \A x : W!Contains(listing \o Tail(wWalk), x) <=>
                     W!Contains(listing, x) \/ W!Contains(Tail(wWalk), x)
    BY <1>2, <1>3, Joined
  <2>2. wWalk' = listing \o Tail(wWalk)
    BY <1>1
  <2>3. \A what, d : Doing(what, d)' <=> \/ W!Contains(listing, [do |-> what, dir |-> d])
                                        \/ W!Contains(Tail(wWalk), [do |-> what, dir |-> d])
    BY <2>1, <2>2 DEF Doing
  <2> QED BY <1>2, <1>3, <2>1, <2>2, <2>3
<1>5. /\ wNode \in [W!AllDirs -> W!Numbers] /\ wDirWatchers \in [W!AllDirs -> W!Numbers]
      /\ MaxDirs \in Nat /\ Cardinality(W!Watched) < MaxDirs
  <2>1. Cardinality(W!Watched) \in Nat /\ MaxDirs \in Nat
    BY WatchedAreFinite DEF W!DirWatchAssumption
  <2> QED BY <1>1, <2>1, CountsAlike DEF DInv, W!TypeOK, W!Skips
<1>6. /\ wDirWatchers' \in [W!AllDirs -> W!Numbers]
      /\ \A d \in W!AllDirs \ {h} : W!Live(d)' <=> W!Live(d)
      /\ W!Live(h)' <=> wNode[h] # 0
  <2>1. /\ wDirWatchers' \in [W!AllDirs -> W!Numbers] /\ wDirWatchers'[h] = wNode[h]
        /\ \A d \in W!AllDirs \ {h} : wDirWatchers'[d] = wDirWatchers[d]
    BY <1>1, <1>2, <1>5
  <2>2. wNode' = wNode
    BY <1>1
  <2> QED BY <2>1, <2>2 DEF W!Live
<1>7. Cardinality(W!Watched') <= MaxDirs
  <2>1. /\ IsFiniteSet(W!Watched) /\ Cardinality(W!Watched) \in Nat
        /\ W!Watched' \in SUBSET (W!Watched \cup {h})
    BY <1>1, <1>5, WatchedAreFinite DEF W!Watched
  <2>2. /\ IsFiniteSet(W!Watched \cup {h})
        /\ Cardinality(W!Watched \cup {h}) <= Cardinality(W!Watched) + 1
    BY <2>1, FS_AddElement
  <2>3. /\ IsFiniteSet(W!Watched') /\ Cardinality(W!Watched') <= Cardinality(W!Watched \cup {h})
    BY <2>1, <2>2, FS_Subset
  <2>4. Cardinality(W!Watched') \in Nat /\ Cardinality(W!Watched \cup {h}) \in Nat
    BY <2>2, <2>3, FS_CardinalityType
  <2> QED BY <1>5, <2>1, <2>2, <2>3, <2>4
<1>8. /\ Marked' = Marked /\ \A d : W!Deaf(d)' <=> W!Deaf(d)
      /\ \A at, of : Raised(at, of)' <=> Raised(at, of)
  BY <1>1 DEF Marked, W!Deaf, Raised
<1>9. W!TypeOK'
  BY <1>1, <1>2, <1>4, <1>6, <1>7, CountsAlike DEF DInv, W!TypeOK
<1>10. Numbered'
  BY <1>1, <1>2, <1>5 DEF DInv, Numbered
<1>11. DirsAreSeen'
  <2>1. W!Live(Root)' \/ (Root \in Marked)' \/ Doing("watch", Root)'
    BY <1>2, <1>4, <1>6, <1>8 DEF DInv, DirsAreSeen, Hangs, W!AllDirs
  <2>2. ASSUME NEW d \in Dirs, wNode[d] # 0, W!Live(Parent[d])'
        PROVE  W!Live(d)' \/ (d \in Marked)' \/ Doing("watch", d)'
               \/ Doing("list", Parent[d])' \/ Raised(Parent[d], d)'
    <3>1. d \in W!AllDirs /\ Parent[d] \in W!AllDirs
      BY DEF W!DirWatchAssumption, W!AllDirs
    <3>2. CASE Parent[d] = h \/ d = h
      BY <1>4, <1>6, <2>2, <3>2
    <3>3. CASE Parent[d] # h /\ d # h
      <4>1. W!Live(Parent[d])
        BY <1>6, <2>2, <3>1, <3>3
      <4> QED BY <1>2, <1>4, <1>6, <1>8, <2>2, <3>1, <3>3, <4>1 DEF DInv, DirsAreSeen
    <3> QED BY <3>2, <3>3
  <2> QED BY <1>1, <2>1, <2>2 DEF DirsAreSeen
<1>12. FilesAreHeard'
  <2> SUFFICES ASSUME NEW f \in Sources, f \notin wUnheard, wIndex[f] # wDisk[f]
          PROVE Heard(f)'
    BY <1>1 DEF FilesAreHeard
  <2>1. Heard(f) /\ Parent[f] \in W!AllDirs
    BY <1>2 DEF W!DirWatchAssumption, DInv, FilesAreHeard
  <2>2. ~W!Live(Parent[f]) => ~W!Live(Parent[f])' \/ Doing("list", Parent[f])'
    BY <1>4, <1>6, <2>1
  <2>3. Doing("list", Parent[f]) => Doing("list", Parent[f])'
    BY <1>4
  <2> QED BY <1>1, <1>8, <2>1, <2>2, <2>3 DEF Heard
<1>13. FirstWalk'
  BY <1>1 DEF DInv, FirstWalk
<1> QED BY <1>1, <1>9, <1>10, <1>11, <1>12, <1>13 DEF DInv, Hangs, Gone

\* What is in a directory when it is listed is watched next, and its files are queued
\* unless all are looked at anyway.
LEMMA ListDirKeeps == ASSUME W!DirWatchAssumption, DInv, W!ListDir PROVE DInv'
<1> DEFINE found == {e \in Dirs : Parent[e] = W!Here /\ wNode[e] # 0}
<1>1. PICK order \in W!SetToSeqs(found) :
        wWalk' = [i \in DOMAIN order |-> [do |-> "watch", dir |-> order[i]]] \o Tail(wWalk)
  BY DEF W!ListDir
<1> DEFINE tasks == [i \in DOMAIN order |-> [do |-> "watch", dir |-> order[i]]]
<1>2. /\ W!ToDo("list") /\ wWalk # <<>>
      /\ wPendingFiles' = wPendingFiles \cup W!Queued({f \in W!FilesIn({W!Here}) : wDisk[f] # 0})
      /\ UNCHANGED <<wNode, wDisk, wChanges, wUnheard, wEvents, wWatching, wDirWatchers,
                     wInotifyLimitWarned, wRefused, wForgotten, wMarkExisting, wIndex,
                     wNeedsFullScan, wCatchUp>>
  BY DEF W!ListDir, W!ToDo, W!diskVars, W!watchVars
<1>3. /\ wWatching /\ Tail(wWalk) \in Seq(W!Task) /\ W!Here \in W!AllDirs
      /\ \A what, d : Doing(what, d) => (what = "list" /\ d = W!Here)
                                        \/ W!Contains(Tail(wWalk), [do |-> what, dir |-> d])
  BY <1>2, TheTask
<1>4. order \in Seq(found) /\ \A d \in found : W!Contains(order, d)
  <2>1. IsFiniteSet(found)
    BY CountsAlike, FS_Subset DEF W!DirWatchAssumption
  <2> HIDE DEF found
  <2> QED BY <2>1, Listed
<1>5. /\ tasks \in Seq(W!Task)
      /\ \A d \in found : W!Contains(tasks, [do |-> "watch", dir |-> d])
  <2>1. /\ DOMAIN order = 1 .. Len(order) /\ Len(order) \in Nat
        /\ \A i \in 1 .. Len(order) : order[i] \in found
    BY <1>4
  <2>2. \A d \in found : [do |-> "watch", dir |-> d] \in W!Task
    BY DEF W!Task, W!AllDirs
  <2> HIDE DEF found
  <2>3. tasks \in Seq(W!Task) /\ Len(tasks) = Len(order)
    BY <2>1, <2>2
  <2> QED BY <1>4, <2>1, <2>3 DEF W!Contains
<1> HIDE DEF tasks
<1>6. /\ wWalk' \in Seq(W!Task)
      /\ \A what, d : Doing(what, d) => (what = "list" /\ d = W!Here) \/ Doing(what, d)'
      /\ \A d \in found : Doing("watch", d)'
  <2> HIDE DEF W!Task, found
  <2>1. /\ tasks \o Tail(wWalk) \in Seq(W!Task)
        /\ \A x : W!Contains(tasks \o Tail(wWalk), x) <=>
                     W!Contains(tasks, x) \/ W!Contains(Tail(wWalk), x)
    BY <1>3, <1>5, Joined
  <2>2. wWalk' = tasks \o Tail(wWalk)
    BY <1>1 DEF tasks
  <2> QED BY <1>3, <1>5, <2>1, <2>2 DEF Doing
<1>7. /\ wPendingFiles \subseteq wPendingFiles' /\ wPendingFiles' \subseteq Sources
      /\ wCatchUp \/ \A f \in Sources : Parent[f] = W!Here /\ wDisk[f] # 0
           => f \in wPendingFiles'
  BY <1>2 DEF DInv, W!TypeOK, FirstWalk, W!Queued, W!FilesIn
<1>8. /\ Marked' = Marked /\ W!Watched' = W!Watched /\ \A d : W!Deaf(d)' <=> W!Deaf(d)
      /\ \A at, of : Raised(at, of)' <=> Raised(at, of)
      /\ \A d : W!Live(d)' <=> W!Live(d)
  BY <1>2 DEF Marked, W!Watched, W!Deaf, Raised, W!Live
<1>9. W!TypeOK'
  BY <1>2, <1>3, <1>6, <1>7, <1>8 DEF DInv, W!TypeOK
<1>10. DirsAreSeen'
  <2>1. W!Live(Root)' \/ (Root \in Marked)' \/ Doing("watch", Root)'
    BY <1>3, <1>6, <1>8 DEF DInv, DirsAreSeen
  <2>2. ASSUME NEW d \in Dirs, wNode[d] # 0, W!Live(Parent[d])'
        PROVE  W!Live(d)' \/ (d \in Marked)' \/ Doing("watch", d)'
               \/ Doing("list", Parent[d])' \/ Raised(Parent[d], d)'
    <3>1. CASE Parent[d] = W!Here
      BY <1>6, <2>2, <3>1
    <3>2. CASE Parent[d] # W!Here
      BY <1>3, <1>6, <1>8, <2>2, <3>2 DEF DInv, DirsAreSeen
    <3> QED BY <3>1, <3>2
  <2> QED BY <1>2, <2>1, <2>2 DEF DirsAreSeen
<1>11. FilesAreHeard'
  <2> SUFFICES ASSUME NEW f \in Sources, f \notin wUnheard, wIndex[f] # wDisk[f]
          PROVE Heard(f)'
    BY <1>2 DEF FilesAreHeard
  <2>1. Heard(f)
    BY <1>3 DEF DInv, FilesAreHeard
  <2>2. wDisk[f] # 0 /\ Doing("list", Parent[f]) =>
          Doing("list", Parent[f])' \/ wCatchUp \/ f \in wPendingFiles'
    BY <1>6, <1>7
  <2> QED BY <1>2, <1>7, <1>8, <2>1, <2>2 DEF Heard
<1>12. FirstWalk'
  BY <1>2 DEF DInv, FirstWalk
<1> QED BY <1>2, <1>9, <1>10, <1>11, <1>12 DEF DInv, Hangs, Numbered, Gone

-----------------------------------------------------------------------------
(* The callbacks.                                                           *)

\* Between walks nothing is being walked.
LEMMA AtRest == ASSUME W!Idle PROVE wWatching /\ wWalk = <<>> /\ \A do, d : ~Doing(do, d)
<1>1. wWatching /\ wWalk = <<>>
  BY DEF W!Idle
<1>2. Len(wWalk) = 0
  BY <1>1
<1>3. \A x : ~W!Contains(wWalk, x)
  BY <1>2 DEF W!Contains
<1> QED BY <1>1, <1>3 DEF Doing

\* The event that is delivered, and those that are left.
LEMMA TheEvent ==
  ASSUME DInv, NEW do, W!Delivered(do)
  PROVE  /\ W!Idle /\ do /\ Head(wEvents) \in W!Event /\ wEvents' \in Seq(W!Event)
         /\ \A at, of : Raised(at, of) =>
                         Raised(at, of)' \/ (Head(wEvents).at = at /\ Head(wEvents).of = of)
         /\ UNCHANGED <<wNode, wDisk, wChanges, wUnheard, wWatching, wDirWatchers,
                        wInotifyLimitWarned, wRefused, wForgotten, wIndex, wCatchUp>>
         /\ Marked' = Marked /\ W!Watched' = W!Watched
         /\ (\A d : W!Deaf(d)' <=> W!Deaf(d)) /\ (\A d : W!Live(d)' <=> W!Live(d))
<1>1. /\ W!Idle /\ do /\ wEvents \in Seq(W!Event) /\ wEvents # <<>>
           /\ wEvents' = Tail(wEvents)
      /\ UNCHANGED <<wNode, wDisk, wChanges, wUnheard, wWatching, wDirWatchers,
                     wInotifyLimitWarned, wRefused, wForgotten, wIndex, wCatchUp>>
  BY DEF W!Delivered, W!diskVars, W!watchVars, DInv, W!TypeOK
<1>2. /\ Tail(wEvents) \in Seq(W!Event) /\ Head(wEvents) \in W!Event
      /\ \A x : W!Contains(wEvents, x) <=> x = Head(wEvents) \/ W!Contains(Tail(wEvents), x)
  <2> HIDE DEF W!Event
  <2> QED BY <1>1, Follows
<1>3. \A at, of : Raised(at, of) =>
                  Raised(at, of)' \/ (Head(wEvents).at = at /\ Head(wEvents).of = of)
  BY <1>1, <1>2 DEF Raised
<1> QED BY <1>1, <1>2, <1>3 DEF Marked, W!Watched, W!Deaf, W!Live

\* The events of directories that are there are left when others are delivered.
LEMMA HandlingKeeps ==
  ASSUME W!DirWatchAssumption, DInv, NEW do, W!Delivered(do),
         wWalk' \in Seq(W!Task), wMarkExisting' \in BOOLEAN,
         wPendingFiles' \subseteq Sources,
         wNeedsFullScan' \in BOOLEAN, wPendingFiles \subseteq wPendingFiles',
         wNeedsFullScan => wNeedsFullScan', wWalk' # <<>> => wMarkExisting',
         \A d \in Dirs : wNode[d] # 0 /\ Head(wEvents).at = Parent[d]
         /\ Head(wEvents).of = d
                        => Doing("watch", d)',
         wNeedsFullScan' \/ \A f \in Sources : Head(wEvents).of = f => f \in wPendingFiles',
         wNeedsFullScan' \/ Head(wEvents).of # Head(wEvents).at
  PROVE  DInv'
<1>1. /\ W!Idle /\ wEvents' \in Seq(W!Event)
      /\ \A at, of : Raised(at, of) =>
                      Raised(at, of)' \/ (Head(wEvents).at = at /\ Head(wEvents).of = of)
      /\ UNCHANGED <<wNode, wDisk, wChanges, wUnheard, wWatching, wDirWatchers,
                     wInotifyLimitWarned, wRefused, wForgotten, wIndex, wCatchUp>>
      /\ Marked' = Marked /\ W!Watched' = W!Watched
      /\ (\A d : W!Deaf(d)' <=> W!Deaf(d)) /\ (\A d : W!Live(d)' <=> W!Live(d))
  BY TheEvent
<1>2. wWatching /\ wWalk = <<>> /\ \A what, d : ~Doing(what, d)
  BY <1>1, AtRest
<1>3. W!TypeOK'
  BY <1>1, <1>2 DEF DInv, W!TypeOK
<1>4. DirsAreSeen'
  <2>1. W!Live(Root)' \/ (Root \in Marked)'
    BY <1>1, <1>2 DEF DInv, DirsAreSeen
  <2>2. ASSUME NEW d \in Dirs, wNode[d] # 0, W!Live(Parent[d])'
        PROVE  W!Live(d)' \/ (d \in Marked)' \/ Doing("watch", d)' \/ Raised(Parent[d], d)'
    BY <1>1, <1>2, <2>2 DEF DInv, DirsAreSeen
  <2> QED BY <1>1, <2>1, <2>2 DEF DirsAreSeen
<1>5. FilesAreHeard'
  <2> SUFFICES ASSUME NEW f \in Sources, f \notin wUnheard, wIndex[f] # wDisk[f]
          PROVE Heard(f)'
    BY <1>1 DEF FilesAreHeard
  <2>1. Heard(f)
    BY <1>2 DEF DInv, FilesAreHeard
  <2>2. Raised(Parent[f], f) => Raised(Parent[f], f)' \/ f \in wPendingFiles'
            \/ wNeedsFullScan'
    BY <1>1
  <2>3. \A d : Raised(d, d) => Raised(d, d)' \/ wNeedsFullScan'
    BY <1>1
  <2>4. (\E d \in W!Above(Parent[f]) : Raised(d, d)) =>
          wNeedsFullScan' \/ \E d \in W!Above(Parent[f]) : Raised(d, d)'
    BY <2>3
  <2> QED BY <1>1, <1>2, <2>1, <2>2, <2>4 DEF Heard
<1>6. FirstWalk'
  BY DEF FirstWalk
<1> QED BY <1>1, <1>3, <1>4, <1>5, <1>6 DEF DInv, Hangs, Numbered, Gone

\* A file that is heard of is queued.
LEMMA HandleFileKeeps == ASSUME W!DirWatchAssumption, DInv, W!HandleFile PROVE DInv'
<1> DEFINE do == /\ Head(wEvents).of \in Sources
                 /\ wPendingFiles' = wPendingFiles \cup {Head(wEvents).of}
                 /\ UNCHANGED <<W!walkVars, wNeedsFullScan>>
<1>1. W!Delivered(do)
  BY DEF W!HandleFile
<1> HIDE DEF do
<1>2. do /\ W!Idle /\ Head(wEvents) \in W!Event
  BY <1>1, TheEvent
<1>3. wWalk = <<>>
  BY <1>2 DEF W!Idle
<1>4. /\ wWalk' = <<>> /\ wMarkExisting' = wMarkExisting /\ wNeedsFullScan' = wNeedsFullScan
      /\ wPendingFiles' = wPendingFiles \cup {Head(wEvents).of}
           /\ Head(wEvents).of \in Sources
      /\ Head(wEvents).at \in W!AllDirs
  BY <1>2, <1>3 DEF do, W!walkVars, W!Event
<1>5. \A d \in Dirs : Head(wEvents).of # d
  BY <1>4 DEF W!DirWatchAssumption, W!AllDirs
<1>6. Head(wEvents).of # Head(wEvents).at
  BY <1>4 DEF W!DirWatchAssumption
<1>7. wWalk' \in Seq(W!Task)
  BY <1>4
<1> QED BY <1>1, <1>4, <1>5, <1>6, <1>7, HandlingKeeps DEF DInv, W!TypeOK

\* A directory that is heard of is walked.
LEMMA HandleDirKeeps == ASSUME W!DirWatchAssumption, DInv, W!HandleDir PROVE DInv'
<1> DEFINE e == Head(wEvents)
           do == /\ e.of \in Dirs \ {e.at} /\ wNode[e.of] # 0
                 /\ wWalk' = <<[do |-> "watch", dir |-> e.of]>>
                 /\ wMarkExisting' = TRUE
                 /\ UNCHANGED <<wPendingFiles, wNeedsFullScan>>
<1>1. W!Delivered(do)
  BY DEF W!HandleDir
<1> HIDE DEF do
<1>2. do
  BY <1>1, TheEvent
<1>3. PICK d : d = Head(wEvents).of
  OBVIOUS
<1>4. /\ wWalk' = <<[do |-> "watch", dir |-> d]>> /\ wMarkExisting' = TRUE /\ d \in Dirs
      /\ wPendingFiles' = wPendingFiles /\ wNeedsFullScan' = wNeedsFullScan
      /\ Head(wEvents).of # Head(wEvents).at
  BY <1>2, <1>3 DEF do
<1>5. wWalk' \in Seq(W!Task) /\ Doing("watch", d)'
  <2>1. [do |-> "watch", dir |-> d] \in W!Task
    BY <1>4 DEF W!Task, W!AllDirs
  <2>2. Len(wWalk') = 1 /\ wWalk'[1] = [do |-> "watch", dir |-> d]
    BY <1>4
  <2>3. W!Contains(wWalk', [do |-> "watch", dir |-> d])
    BY <2>2 DEF W!Contains
  <2> QED BY <1>4, <2>1, <2>3 DEF Doing
<1>6. \A f \in Sources : d # f
  BY <1>4 DEF W!DirWatchAssumption, W!AllDirs
<1>7. \A c \in Dirs : Head(wEvents).of = c => Doing("watch", c)'
  BY <1>3, <1>5
<1>8. wPendingFiles' \subseteq Sources /\ wNeedsFullScan' \in BOOLEAN
  BY <1>4 DEF DInv, W!TypeOK
<1> QED BY <1>1, <1>3, <1>4, <1>5, <1>6, <1>7, <1>8, HandlingKeeps

\* A path with nothing at it has all files looked at.
LEMMA HandleGoneKeeps == ASSUME W!DirWatchAssumption, DInv, W!HandleGone PROVE DInv'
<1> DEFINE e == Head(wEvents)
           do == /\ e.of \in Dirs /\ (e.of = e.at \/ wNode[e.of] = 0)
                 /\ wNeedsFullScan' = TRUE
                 /\ UNCHANGED <<W!walkVars, wPendingFiles>>
<1>1. W!Delivered(do)
  BY DEF W!HandleGone
<1> HIDE DEF do
<1>2. do /\ W!Idle
  BY <1>1, TheEvent
<1>3. wWalk = <<>>
  BY <1>2 DEF W!Idle
<1>4. /\ wWalk' = <<>> /\ wMarkExisting' = wMarkExisting /\ wNeedsFullScan' = TRUE
      /\ wPendingFiles' = wPendingFiles
      /\ Head(wEvents).of = Head(wEvents).at \/ wNode[Head(wEvents).of] = 0
  BY <1>2, <1>3 DEF do, W!walkVars
<1>5. \A d \in Dirs : ~(wNode[d] # 0 /\ Head(wEvents).at = Parent[d]
          /\ Head(wEvents).of = d)
  BY <1>4, NotItsParent
<1>6. /\ wWalk' \in Seq(W!Task) /\ wMarkExisting' \in BOOLEAN
           /\ wPendingFiles' \subseteq Sources
      /\ wNeedsFullScan' \in BOOLEAN
  BY <1>4 DEF DInv, W!TypeOK
<1> QED BY <1>1, <1>4, <1>5, <1>6, HandlingKeeps

\* What a closed watch would have told is excepted, with its directory.
LEMMA ErrorKeeps ==
  ASSUME W!DirWatchAssumption, DInv, NEW x \in W!AllDirs, W!WatchError(x)
  PROVE  DInv'
<1>1. /\ W!Idle /\ wInotifyLimitWarned' \in BOOLEAN
      /\ wDirWatchers' = [wDirWatchers EXCEPT ![x] = 0]
      /\ wEvents' = W!Elsewhere(x) /\ wRefused' = wRefused \cup {x}
      /\ UNCHANGED <<wNode, wDisk, wChanges, wUnheard, wWatching, wForgotten, wWalk,
                     wMarkExisting, wIndex, wPendingFiles, wNeedsFullScan, wCatchUp>>
  BY DEF W!WatchError, W!diskVars, W!walkVars, W!syncVars, DInv, W!TypeOK
<1>2. wWatching /\ wWalk = <<>> /\ \A do, d : ~Doing(do, d)
  BY <1>1, AtRest
<1>3. /\ wNode \in [W!AllDirs -> W!Numbers] /\ wDirWatchers \in [W!AllDirs -> W!Numbers]
      /\ wEvents \in Seq(W!Event) /\ wChanges \in Nat /\ 0 \in W!Numbers
  BY DEF W!DirWatchAssumption, DInv, W!TypeOK, W!Numbers
<1>4. /\ wDirWatchers' \in [W!AllDirs -> W!Numbers] /\ wDirWatchers'[x] = 0
      /\ \A d \in W!AllDirs \ {x} : wDirWatchers'[d] = wDirWatchers[d]
  BY <1>1, <1>3
<1>5. /\ ~W!Live(x)'
      /\ \A d \in W!AllDirs \ {x} : W!Live(d)' <=> W!Live(d)
  BY <1>1, <1>4 DEF W!Live
<1>6. /\ wEvents' \in Seq(W!Event)
      /\ \A at \in W!AllDirs \ {x} : \A of \in W!AllDirs \cup Sources :
            Raised(at, of) => Raised(at, of)'
  <2>1. /\ W!Elsewhere(x) \in Seq(W!Event)
        /\ \A y \in W!Event : y.at # x /\ W!Contains(wEvents, y)
             => W!Contains(W!Elsewhere(x), y)
    BY <1>3, OthersAreLeft
  <2>2. \A at \in W!AllDirs \ {x} : \A of \in W!AllDirs \cup Sources :
          [at |-> at, of |-> of] \in W!Event /\ [at |-> at, of |-> of].at # x
    BY DEF W!Event
  <2> HIDE DEF W!Event
  <2> QED BY <1>1, <2>1, <2>2 DEF Raised
<1>7. /\ Marked \subseteq Marked' /\ x \in Marked'
      /\ \A d : W!Deaf(d) => W!Deaf(d)'
      /\ \A d : x \in W!Above(d) => W!Deaf(d)'
  BY <1>1 DEF Marked, W!Deaf
<1>8. Cardinality(W!Watched') <= MaxDirs
  <2>1. W!Watched' \in SUBSET W!Watched
    BY <1>1, <1>4 DEF W!Watched
  <2>2. IsFiniteSet(W!Watched) /\ Cardinality(W!Watched) \in Nat
            /\ Cardinality(W!Watched) <= MaxDirs
    BY CountsAlike, WatchedAreFinite DEF DInv, W!TypeOK
  <2>3. IsFiniteSet(W!Watched') /\ Cardinality(W!Watched') <= Cardinality(W!Watched)
    BY <2>1, <2>2, FS_Subset
  <2>4. Cardinality(W!Watched') \in Nat /\ MaxDirs \in Nat
    BY <2>3, FS_CardinalityType DEF W!DirWatchAssumption
  <2> QED BY <2>2, <2>3, <2>4
<1>9. W!TypeOK'
  BY <1>1, <1>2, <1>4, <1>6, <1>8, CountsAlike DEF DInv, W!TypeOK
<1>10. Numbered'
  BY <1>1, <1>3, <1>4 DEF DInv, Numbered
<1>11. DirsAreSeen'
  <2>1. W!Live(Root)' \/ (Root \in Marked)'
    BY <1>2, <1>5, <1>7 DEF DInv, DirsAreSeen, W!AllDirs
  <2>2. ASSUME NEW d \in Dirs, wNode[d] # 0, W!Live(Parent[d])'
        PROVE  W!Live(d)' \/ (d \in Marked)' \/ Raised(Parent[d], d)'
    <3>1. d \in W!AllDirs /\ Parent[d] \in W!AllDirs /\ Parent[d] # x
      BY <1>5, <2>2 DEF W!DirWatchAssumption, W!AllDirs
    <3>2. CASE d = x
      BY <1>7, <3>2
    <3>3. CASE d # x
      <4>1. W!Live(Parent[d])
        BY <1>5, <2>2, <3>1
      <4> QED BY <1>2, <1>5, <1>6, <1>7, <2>2, <3>1, <3>3, <4>1 DEF DInv, DirsAreSeen
    <3> QED BY <3>2, <3>3
  <2> QED BY <1>1, <2>1, <2>2 DEF DirsAreSeen
<1>12. FilesAreHeard'
  <2> SUFFICES ASSUME NEW f \in Sources, f \notin wUnheard, wIndex[f] # wDisk[f]
          PROVE Heard(f)'
    BY <1>1 DEF FilesAreHeard
  <2>1. Heard(f) /\ Parent[f] \in W!AllDirs
    BY <1>2 DEF W!DirWatchAssumption, DInv, FilesAreHeard
  <2>2. CASE Parent[f] = x
    <3>1. W!Deaf(Parent[f])' /\ ~W!Live(Parent[f])'
      BY <1>5, <1>7, <2>1, <2>2, Ancestors
    <3> QED BY <1>1, <2>1, <3>1 DEF Heard
  <2>3. CASE Parent[f] # x
    <3>1. Raised(Parent[f], f) => Raised(Parent[f], f)'
      BY <1>6, <2>1, <2>3
    <3>2. (\E d \in W!Above(Parent[f]) : Raised(d, d)) =>
            W!Deaf(Parent[f])' \/ \E d \in W!Above(Parent[f]) : Raised(d, d)'
      <4>1. W!Above(Parent[f]) \subseteq W!AllDirs
        BY DEF W!Above
      <4> QED BY <1>6, <1>7, <4>1
    <3>3. ~W!Live(Parent[f]) => ~W!Live(Parent[f])'
      BY <1>5, <2>1, <2>3
    <3> QED BY <1>1, <1>2, <1>7, <2>1, <3>1, <3>2, <3>3 DEF Heard
  <2> QED BY <2>2, <2>3
<1>13. FirstWalk'
  BY <1>1 DEF DInv, FirstWalk
<1> QED BY <1>1, <1>9, <1>10, <1>11, <1>12, <1>13 DEF DInv, Hangs, Gone

\* A sync brings the row of every file up to date, or of those that are queued; what
\* stays excepted after a sync of all is what is there and has no live watch.
LEMMA SyncKeeps == ASSUME W!DirWatchAssumption, DInv, W!Sync \/ W!CatchUp PROVE DInv'
<1>1. /\ W!Idle
      /\ UNCHANGED <<wNode, wDisk, wChanges, wUnheard, wEvents, wWatching, wDirWatchers,
                     wInotifyLimitWarned, wWalk, wMarkExisting>>
  BY DEF W!Sync, W!CatchUp, W!diskVars, W!walkVars
<1>2. wWatching /\ wWalk = <<>> /\ \A do, d : ~Doing(do, d)
  BY <1>1, AtRest
<1>3. /\ wIndex \in [Sources -> W!Numbers] /\ wDisk \in [Sources -> W!Numbers]
      /\ wRefused \subseteq W!AllDirs /\ wForgotten \subseteq W!AllDirs
  BY DEF DInv, W!TypeOK
<1>4. /\ wIndex' \in [Sources -> W!Numbers] /\ wCatchUp' \in BOOLEAN
      /\ wPendingFiles' \subseteq Sources /\ wNeedsFullScan' \in BOOLEAN
      /\ wRefused' \subseteq W!AllDirs /\ wForgotten' \subseteq W!AllDirs
  BY <1>3 DEF W!Sync, W!CatchUp, W!Unsettled, DInv, W!TypeOK
<1>5. /\ W!Watched' = W!Watched /\ \A d : W!Live(d)' <=> W!Live(d)
      /\ \A at, of : Raised(at, of)' <=> Raised(at, of)
  BY <1>1 DEF W!Watched, W!Live, Raised
<1>6. \A d \in Marked : wNode[d] # 0 => W!Live(d) \/ d \in Marked'
  BY DEF W!Sync, W!CatchUp, Marked, W!Unsettled
<1>7. W!TypeOK'
  BY <1>1, <1>2, <1>4, <1>5 DEF DInv, W!TypeOK
<1>8. DirsAreSeen'
  <2>1. W!Live(Root)' \/ (Root \in Marked)'
    BY <1>2, <1>5, <1>6 DEF DInv, DirsAreSeen, Hangs
  <2>2. ASSUME NEW d \in Dirs, wNode[d] # 0, W!Live(Parent[d])'
        PROVE  W!Live(d)' \/ (d \in Marked)' \/ Raised(Parent[d], d)'
    BY <1>2, <1>5, <1>6, <2>2 DEF DInv, DirsAreSeen
  <2> QED BY <1>1, <2>1, <2>2 DEF DirsAreSeen
<1>9. FilesAreHeard'
  <2>1. CASE W!CatchUp \/ wNeedsFullScan
    <3>1. \A f \in Sources : wIndex'[f] = wDisk[f]
      BY <1>3, <2>1 DEF W!Sync, W!CatchUp
    <3> QED BY <1>1, <3>1 DEF FilesAreHeard
  <2>2. CASE W!Sync /\ ~wNeedsFullScan
    <3> SUFFICES ASSUME NEW f \in Sources, f \notin wUnheard, wIndex'[f] # wDisk[f]
                 PROVE  Heard(f)'
      BY <1>1 DEF FilesAreHeard
    <3>1. /\ wRefused' = wRefused /\ wForgotten' = wForgotten /\ wCatchUp' = wCatchUp
          /\ f \notin wPendingFiles /\ wIndex'[f] = wIndex[f]
      BY <2>2 DEF W!Sync
    <3>2. Heard(f)
      BY <1>2, <3>1 DEF DInv, FilesAreHeard
    <3> QED BY <1>1, <1>2, <1>5, <2>2, <3>1, <3>2 DEF Heard, W!Deaf
  <2> QED BY <2>1, <2>2
<1>10. FirstWalk'
  BY <1>1, <1>2 DEF FirstWalk
<1> QED BY <1>1, <1>7, <1>8, <1>9, <1>10 DEF DInv, Hangs, Numbered, Gone

-----------------------------------------------------------------------------
(* The theorems.                                                            *)

\* The index is right before anything has happened.
LEMMA Begun == ASSUME W!DirWatchAssumption, W!Init PROVE DInv
<1>1. /\ wChanges = 1 /\ MaxChanges \in Nat /\ 1 <= MaxChanges /\ MaxDirs \in Nat
      /\ {0, 1} \subseteq W!Numbers
  BY DEF W!Init, W!DirWatchAssumption, W!Numbers
<1>2. /\ wNode \in [W!AllDirs -> {0, 1}] /\ wDisk \in [Sources -> {0, 1}]
      /\ wIndex = wDisk /\ wDirWatchers = [d \in W!AllDirs |-> 0]
      /\ wEvents = <<>> /\ wWalk = <<>> /\ wWatching = FALSE
  BY DEF W!Init
<1>3. W!Watched = {} /\ Cardinality({}) = 0
  BY <1>2, FS_EmptySet DEF W!Watched
<1>4. Cardinality(W!Watched) <= MaxDirs
  BY <1>1, <1>3
<1>5. /\ wNode \in [W!AllDirs -> W!Numbers] /\ wDisk \in [Sources -> W!Numbers]
      /\ wDirWatchers \in [W!AllDirs -> W!Numbers] /\ wChanges \in W!Numbers
  <2>1. /\ \A d \in W!AllDirs : wNode[d] \in W!Numbers /\ wDirWatchers[d] \in W!Numbers
        /\ \A f \in Sources : wDisk[f] \in W!Numbers
    BY <1>1, <1>2
  <2> QED BY <1>1, <1>2, <2>1
<1>6. W!TypeOK
  <2>1. <<>> \in Seq(W!Event) /\ <<>> \in Seq(W!Task)
    OBVIOUS
  <2>2. /\ wIndex \in [Sources -> W!Numbers] /\ wEvents \in Seq(W!Event)
             /\ wWalk \in Seq(W!Task)
        /\ wInotifyLimitWarned = FALSE /\ wMarkExisting = FALSE /\ wNeedsFullScan = FALSE
        /\ wCatchUp = FALSE
        /\ wPendingFiles = {} /\ wRefused = {} /\ wForgotten = {} /\ wUnheard = {}
    BY <1>2, <1>5, <2>1 DEF W!Init
  <2> QED BY <1>2, <1>3, <1>4, <1>5, <2>2, CountsAlike DEF W!TypeOK
<1>7. Numbered
  <2>1. \A n \in {0, 1} : n <= wChanges
    BY <1>1
  <2> QED BY <1>2, <2>1 DEF Numbered
<1> QED BY <1>6, <1>7 DEF W!Init, DInv, Hangs, DirsAreSeen, FilesAreHeard, FirstWalk, Gone

\* No change of the disk breaks the invariant.
LEMMA DiskKeeps == ASSUME W!DirWatchAssumption, DInv, W!DiskChanges PROVE DInv'
<1>1. ASSUME NEW f \in Sources, W!Save(f) \/ W!Unlink(f) PROVE DInv'
  BY <1>1, SaveKeeps, UnlinkKeeps
<1>2. ASSUME NEW d \in Dirs, W!RemoveDir(d) \/ W!MoveAway(d) PROVE DInv'
  BY <1>2, RemoveDirKeeps, MoveAwayKeeps
<1>3. ASSUME NEW d \in Dirs, NEW below \in SUBSET {e \in Dirs : Parent[e] = d},
             NEW files \in SUBSET W!FilesIn({d} \cup below), W!Appear(d, below, files)
      PROVE  DInv'
  BY <1>3, AppearKeeps
<1> QED BY <1>1, <1>2, <1>3 DEF W!DiskChanges

\* No step does.
LEMMA Kept == ASSUME W!DirWatchAssumption, DInv, [W!Next]_(W!vars) PROVE DInv'
<1>1. CASE UNCHANGED W!vars
  <2>1. UNCHANGED <<wNode, wDisk, wChanges, wUnheard, wEvents, wWatching, wDirWatchers,
                   wInotifyLimitWarned, wRefused, wForgotten, wWalk, wMarkExisting, wIndex,
                   wPendingFiles, wNeedsFullScan, wCatchUp>>
    BY <1>1 DEF W!vars, W!diskVars, W!watchVars, W!walkVars, W!syncVars
  <2> QED BY <2>1 DEF DInv, W!TypeOK, W!Watched, Hangs, Numbered, DirsAreSeen,
          FilesAreHeard,
             Heard, Raised, Doing, W!Live, Marked, W!Deaf, FirstWalk, Gone
<1>2. CASE W!DiskChanges
  BY <1>2, DiskKeeps
<1>3. CASE W!Start
  BY <1>3, StartKeeps
<1>4. CASE W!Stop \/ W!WatchExhausts
  BY <1>4, StoppedKeeps DEF W!Stop, W!WatchExhausts
<1>5. CASE W!SkipDir
  BY <1>5, SkipDirKeeps
<1>6. CASE W!WatchDir
  BY <1>6, WatchDirKeeps
<1>7. CASE W!WatchHitsLimit
  BY <1>7, LimitKeeps
<1>8. CASE W!ListDir
  BY <1>8, ListDirKeeps
<1>9. CASE W!HandleFile
  BY <1>9, HandleFileKeeps
<1>10. CASE W!HandleDir
  BY <1>10, HandleDirKeeps
<1>11. CASE W!HandleGone
  BY <1>11, HandleGoneKeeps
<1>12. ASSUME NEW d \in W!AllDirs, W!WatchError(d) PROVE DInv'
  BY <1>12, ErrorKeeps
<1>13. CASE W!Sync \/ W!CatchUp
  BY <1>13, SyncKeeps
<1> QED BY <1>1, <1>2, <1>3, <1>4, <1>5, <1>6, <1>7, <1>8, <1>9, <1>10, <1>11, <1>12,
        <1>13 DEF W!Next

\* If some directory were there, neither watched nor excepted, so would its parent be,
\* and so on up to the root, which is watched or excepted.
LEMMA SeenFromTheRoot ==
  ASSUME W!DirWatchAssumption, DInv, W!Idle, wEvents = <<>>
  PROVE  \A d \in W!AllDirs : wNode[d] # 0 => W!Live(d) \/ W!Deaf(d)
<1> DEFINE S == {d \in W!AllDirs : wNode[d] # 0 /\ ~W!Live(d) /\ ~W!Deaf(d)}
<1>1. wWatching /\ \A do, d : ~Doing(do, d)
  BY AtRest
<1>2. \A at, of : ~Raised(at, of)
  <2>1. Len(wEvents) = 0
    OBVIOUS
  <2> QED BY <2>1 DEF Raised, W!Contains
<1>3. \A d \in W!AllDirs : d \in Marked => W!Deaf(d)
  BY Ancestors DEF Marked, W!Deaf
<1>4. ASSUME NEW d \in S \cap Dirs PROVE Parent[d] \in S
  <2>1. Parent[d] \in W!AllDirs /\ W!Above(Parent[d]) \subseteq W!Above(d)
    BY Ancestors
  <2>2. wNode[Parent[d]] # 0 /\ ~W!Deaf(Parent[d])
    BY <2>1 DEF DInv, Hangs, W!Deaf
  <2>3. ~W!Live(Parent[d])
    BY <1>1, <1>2, <1>3 DEF DInv, DirsAreSeen
  <2> QED BY <2>1, <2>2, <2>3
<1>5. Root \notin S
  BY <1>1, <1>3 DEF DInv, DirsAreSeen, W!AllDirs
<1>6. \A d \in S : Root \in W!Above(d)
  BY DEF W!DirWatchAssumption
<1>7. S \in SUBSET W!AllDirs /\ W!Upwards(S)
  BY <1>4 DEF W!Upwards
<1> HIDE DEF S
<1>8. S = {}
  BY <1>5, <1>6, <1>7 DEF W!Above
<1> QED BY <1>8 DEF S

\* Between events the invariant is what the watches promise.
LEMMA DInvHears == ASSUME W!DirWatchAssumption, DInv PROVE W!ChangesAreHeard
<1> SUFFICES ASSUME W!Idle, wEvents = <<>>, ~wCatchUp
             PROVE  /\ \A d \in W!AllDirs : wNode[d] # 0 => W!Live(d) \/ W!Deaf(d)
                    /\ \A f \in Sources \ wUnheard : wIndex[f] # wDisk[f] =>
                         f \in wPendingFiles \/ wNeedsFullScan \/ W!Deaf(Parent[f])
  BY DEF W!ChangesAreHeard
<1>1. \A d \in W!AllDirs : wNode[d] # 0 => W!Live(d) \/ W!Deaf(d)
  BY SeenFromTheRoot
<1>2. wWatching /\ \A do, d : ~Doing(do, d)
  BY AtRest
<1>3. \A at, of : ~Raised(at, of)
  <2>1. Len(wEvents) = 0
    OBVIOUS
  <2> QED BY <2>1 DEF Raised, W!Contains
<1>4. ASSUME NEW f \in Sources \ wUnheard, wIndex[f] # wDisk[f]
      PROVE  f \in wPendingFiles \/ wNeedsFullScan \/ W!Deaf(Parent[f])
  <2>1. Heard(f)
    BY <1>2, <1>4 DEF DInv, FilesAreHeard
  <2>2. wDisk[f] # 0 => wNode[Parent[f]] # 0 /\ Parent[f] \in W!AllDirs
    BY DEF DInv, Hangs, W!DirWatchAssumption
  <2> QED BY <1>1, <1>2, <1>3, <2>1, <2>2 DEF Heard
<1> QED BY <1>1, <1>4

\* The invariant holds throughout.
LEMMA WatchInvariance == ASSUME W!DirWatchAssumption PROVE W!Spec => []DInv
<1>1. W!Init => DInv
  BY Begun
<1>2. DInv /\ [W!Next]_(W!vars) => DInv'
  BY Kept
<1> QED BY <1>1, <1>2, PTL DEF W!Spec

\* A behaviour of the two is one of the watcher.
LEMMA WatcherBehaves == WatchesSpec => Spec
<1>1. AllInit => Init
  BY DEF AllInit
<1>2. [AllNext]_allVars => [Next]_vars
  BY DEF AllNext, Syncs, allVars
<1> QED BY <1>1, <1>2, PTL DEF WatchesSpec, Spec

\* The same of the watches.
LEMMA WatchesBehave == WatchesSpec => W!Spec
<1>1. AllInit => W!Init
  BY DEF AllInit
<1>2. [AllNext]_allVars => [W!Next]_(W!vars)
  BY DEF AllNext, Syncs, allVars, wVars, W!vars, W!diskVars, W!watchVars, W!walkVars,
         W!syncVars
<1> QED BY <1>1, <1>2, PTL DEF WatchesSpec, W!Spec

\* The states of the watcher and of the watches are of their types; there are never
\* more watches than maxDirWatches() allows.
THEOREM WatchesAreTyped == WatchesSpec => []TypesOK
<1>1. Spec => []TypeOK
  BY TypeCorrect
<1>2. W!Spec => []DInv
  BY WatchesAssumption, WatchInvariance
<1>3. TypeOK /\ DInv => TypesOK
  BY DEF TypesOK, DInv
<1> QED BY <1>1, <1>2, <1>3, WatcherBehaves, WatchesBehave, PTL

\* Once the events are delivered, every directory is watched and every file whose row
\* is out of date is queued or a full scan is owed, with the exceptions that
\* ChangesAreHeard names, for any tree of directories and whatever the disk did.
THEOREM EveryChangeIsHeard == WatchesSpec => []ChangesAreHeard
<1>1. W!Spec => []DInv
  BY WatchesAssumption, WatchInvariance
<1>2. DInv => ChangesAreHeard
  BY WatchesAssumption, DInvHears DEF ChangesAreHeard
<1> QED BY <1>1, <1>2, WatchesBehave, PTL
=============================================================================
