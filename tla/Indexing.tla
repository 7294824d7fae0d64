------------------------------ MODULE Indexing ------------------------------
(***************************************************************************)
(* A full index of a fresh database: ExtractionOrchestrator.indexAll of    *)
(* src/extraction/index.ts, with the store writer thread of                *)
(* store-writer.ts.  Files are read, parsed concurrently by a pool within  *)
(* a window, committed in file order by a chain of flushes, and sent to    *)
(* the writer, which is allowed to lag by a window of its own.             *)
(*                                                                         *)
(* What a parse came to matters only when it is committed, so it is chosen *)
(* there.  The parse pool is only its promise: every parse settles, by the *)
(* hard timeout at the latest.  The ArkTS batch and the in-process store   *)
(* are left out.                                                           *)
(***************************************************************************)
EXTENDS Integers, FiniteSets

CONSTANTS
  Files,          \* number of files scanned
  Window,         \* windowSize
  WriterWindow,   \* STORE_WRITER_WINDOW
  WriterMayFail,  \* may a bundle be refused, or the writer thread die?
  MayAbort        \* may the caller's signal fire?

ASSUME IndexingAssumption ==
  /\ Files \in Nat
  /\ Window \in Nat \ {0} /\ WriterWindow \in Nat \ {0}
  /\ WriterMayFail \in BOOLEAN /\ MayAbort \in BOOLEAN

VARIABLES
  pc,           \* where indexAll is
  signal,       \* signal.aborted
  taken,        \* files the loop has gone past
  nextSeq,      \* sequence numbers given to parses
  cursor,       \* nextToStore
  inFlight,     \* parses not settled
  completed,    \* settled and not yet committed
  flushing,     \* a flush is in its loop
  storing,      \* what it awaits the writer for: a file to be counted so
  flushError,
  outstanding,  \* StoreWriter.outstanding
  queue,        \* bundles the writer thread has yet to take up
  firstError,   \* of the writer
  lost,         \* history: a bundle was posted and not applied
  indexed, skipped, errored,
  retryable     \* errors that the retry pass will take up

parseVars == <<taken, nextSeq, inFlight>>
commitVars == <<cursor, completed, flushing, storing, flushError>>
writerVars == <<outstanding, queue, firstError, lost>>
countVars == <<indexed, skipped, errored, retryable>>
vars == <<pc, signal, parseVars, commitVars, writerVars, countVars>>

Ended == {"done", "aborted", "threw"}

\* The types of the state.  A number is in flight, completed, or behind the
\* cursor.  filesErrored may well be negative, see Recount.
TypeOK ==
  /\ pc \in {"feeding", "room", "settling", "draining", "retrying"} \cup Ended
  /\ signal \in BOOLEAN
  /\ taken \in 0 .. Files
  /\ nextSeq \in 0 .. taken
  /\ cursor \in 0 .. nextSeq
  /\ inFlight \cup completed = cursor .. nextSeq - 1
  /\ inFlight \cap completed = {}
  /\ flushing \in BOOLEAN /\ flushError \in BOOLEAN
  /\ storing \in {"none", "indexed", "skipped"}
  /\ outstanding \in Nat /\ queue \in Nat
  /\ firstError \in BOOLEAN /\ lost \in BOOLEAN
  /\ indexed \in Nat /\ skipped \in Nat /\ errored \in Int
  /\ retryable \in Nat

Init ==
  /\ pc = "feeding" /\ signal = FALSE
  /\ taken = 0 /\ nextSeq = 0 /\ cursor = 0
  /\ inFlight = {} /\ completed = {}
  /\ flushing = FALSE /\ storing = "none" /\ flushError = FALSE
  /\ outstanding = 0 /\ queue = 0 /\ firstError = FALSE /\ lost = FALSE
  /\ indexed = 0 /\ skipped = 0 /\ errored = 0 /\ retryable = 0

-----------------------------------------------------------------------------
(* The loop over the files.                                                 *)

NextFile == pc = "feeding" /\ ~signal /\ taken < Files /\ taken' = taken + 1

\* A file that cannot be read is an error, one that is too large is skipped.
PassOver ==
  /\ NextFile
  /\ \/ errored' = errored + 1 /\ UNCHANGED skipped
     \/ skipped' = skipped + 1 /\ UNCHANGED errored
  /\ UNCHANGED <<pc, signal, nextSeq, inFlight, commitVars, writerVars, indexed, retryable>>

\* feed(): the parse is dispatched, and the loop waits for room.
Feed ==
  /\ NextFile
  /\ nextSeq' = nextSeq + 1
  /\ inFlight' = inFlight \cup {nextSeq}
  /\ pc' = "room"
  /\ UNCHANGED <<signal, commitVars, writerVars, countVars>>

\* Not only parses in flight take up the window, completed ones do as well.
Fits == nextSeq - cursor < Window

RoomFree ==
  /\ pc = "room" /\ Fits
  /\ pc' = "feeding"
  /\ UNCHANGED <<signal, parseVars, commitVars, writerVars, countVars>>

\* The head of the loop looks at the signal.  An abort closes the writer and
\* destroys the pool.
Abort ==
  /\ pc = "feeding" /\ signal /\ taken < Files
  /\ pc' = "aborted"
  /\ UNCHANGED <<signal, parseVars, commitVars, writerVars, countVars>>

-----------------------------------------------------------------------------
(* Parses settle, and the chain of flushes commits them in order.           *)

Untrack(s) == inFlight' = inFlight \ {s}

\* A result or a rejection; either way a flush is queued behind it.
Settle(s) ==
  /\ s \in inFlight
  /\ Untrack(s)
  /\ completed' = completed \cup {s}
  /\ UNCHANGED <<pc, signal, taken, nextSeq, cursor, flushing, storing, flushError,
                 writerVars, countVars>>

\* A flush looks for an abort and for an earlier error when it begins.
CommitNext ==
  /\ storing = "none" /\ ~flushError
  /\ flushing \/ pc # "aborted"
  /\ cursor \in completed
  /\ completed' = completed \ {cursor}
  /\ cursor' = cursor + 1

\* The retry pass looks for "Worker exited" and memory faults, not for timeouts.
MayBeRetried == retryable' \in {retryable, retryable + 1}

\* A rejected parse, or no nodes but errors: there is nothing to store.
CommitFailure ==
  /\ CommitNext
  /\ \/ errored' = errored + 1 /\ MayBeRetried /\ UNCHANGED skipped
     \/ skipped' = skipped + 1 /\ UNCHANGED <<errored, retryable>>  \* mere warnings
  /\ flushing' = TRUE
  /\ UNCHANGED <<pc, signal, parseVars, storing, flushError, writerVars, indexed>>

\* The bundle is posted, and the flush waits until the writer has caught up.
CommitResult(kind) ==
  /\ CommitNext
  /\ ~firstError
  /\ outstanding' = outstanding + 1 /\ queue' = queue + 1
  /\ storing' = kind /\ flushing' = TRUE
  /\ UNCHANGED <<pc, signal, parseVars, flushError, firstError, lost, countVars>>

\* The writer has failed: send() throws, and no flush does anything any more.
CommitThrows ==
  /\ CommitNext
  /\ firstError
  /\ flushError' = TRUE /\ flushing' = FALSE
  /\ UNCHANGED <<pc, signal, parseVars, storing, writerVars, countVars>>

\* waitBelow's promise resolves.  A file with nodes is indexed and may have
\* errors all the same (a component whose script faulted).
Stored ==
  /\ storing # "none"
  /\ outstanding < WriterWindow
  /\ storing' = "none"
  /\ IF storing = "indexed"
       THEN indexed' = indexed + 1 /\ MayBeRetried /\ UNCHANGED skipped
       ELSE skipped' = skipped + 1 /\ UNCHANGED <<indexed, retryable>>
  /\ UNCHANGED <<pc, signal, parseVars, cursor, completed, flushing, flushError, writerVars,
                 errored>>

FlushEnds ==
  /\ flushing /\ storing = "none" /\ cursor \notin completed
  /\ flushing' = FALSE
  /\ UNCHANGED <<pc, signal, parseVars, cursor, completed, storing, flushError, writerVars,
                 countVars>>

\* Every flush queued so far has run.
Flushed == storing = "none" /\ ~flushing /\ (flushError \/ cursor \notin completed)

-----------------------------------------------------------------------------
(* The writer thread, until its close.                                      *)

WriterOpen == pc \notin {"retrying", "done", "threw"}

SettleOne == outstanding' = IF outstanding > 0 THEN outstanding - 1 ELSE 0

Ack ==
  /\ WriterOpen /\ queue > 0
  /\ queue' = queue - 1 /\ SettleOne
  /\ UNCHANGED <<pc, signal, parseVars, commitVars, firstError, lost, countVars>>

\* "The error reply is also the failed bundle's ack."
IsNoAck == UNCHANGED outstanding
IsTheAck == SettleOne

BundleFails ==
  /\ WriterMayFail
  /\ WriterOpen /\ queue > 0
  /\ queue' = queue - 1 /\ IsTheAck
  /\ firstError' = TRUE /\ lost' = TRUE
  /\ UNCHANGED <<pc, signal, parseVars, commitVars, countVars>>

\* failAll, after a crash, or after the exit that an abort has asked for.
WriterGone ==
  /\ WriterOpen /\ (WriterMayFail \/ pc = "aborted") /\ ~firstError
  /\ firstError' = TRUE
  /\ lost' = (lost \/ queue > 0)
  /\ outstanding' = 0 /\ queue' = 0
  /\ UNCHANGED <<pc, signal, parseVars, commitVars, countVars>>

-----------------------------------------------------------------------------
(* The end.                                                                 *)

AllFed ==
  /\ pc = "feeding" /\ taken = Files
  /\ pc' = "settling"
  /\ UNCHANGED <<signal, parseVars, commitVars, writerVars, countVars>>

\* Promise.all(inFlight), then the flushes.
AllSettled ==
  /\ pc = "settling" /\ inFlight = {} /\ Flushed
  /\ pc' = IF flushError THEN "threw" ELSE "draining"
  /\ UNCHANGED <<signal, parseVars, commitVars, writerVars, countVars>>

\* drain() is answered when the thread gets to it, after every bundle; an error
\* before that, or before drain() was called, rejects it.
NeverRejects == FALSE
DrainRejects == firstError

Drained ==
  /\ pc = "draining"
  /\ queue = 0 \/ firstError
  /\ pc' = IF DrainRejects THEN "threw" ELSE IF signal THEN "aborted" ELSE "retrying"
  /\ UNCHANGED <<signal, parseVars, commitVars, writerVars, countVars>>

\* A file that crashed its worker is parsed again, and once more without its
\* comments; the store, in-process now, may throw.  The counts are moved whether
\* the file was counted as errored or not.
CountTwice == indexed' = indexed + 1 /\ UNCHANGED errored
Recount == indexed' = indexed + 1 /\ errored' = errored - 1

Retry ==
  /\ pc = "retrying" /\ ~signal /\ retryable > 0
  /\ retryable' = retryable - 1
  /\ \/ Recount /\ UNCHANGED pc
     \/ UNCHANGED <<pc, indexed, errored>>
     \/ pc' = "threw" /\ UNCHANGED <<indexed, errored>>
  /\ UNCHANGED <<signal, parseVars, commitVars, writerVars, skipped>>

Return ==
  /\ pc = "retrying" /\ (retryable = 0 \/ signal)
  /\ pc' = "done"
  /\ UNCHANGED <<signal, parseVars, commitVars, writerVars, countVars>>

\* The caller's AbortSignal.
Signal ==
  /\ MayAbort /\ ~signal /\ pc \notin Ended
  /\ signal' = TRUE
  /\ UNCHANGED <<pc, parseVars, commitVars, writerVars, countVars>>

-----------------------------------------------------------------------------
Main == PassOver \/ Feed \/ RoomFree \/ Abort \/ AllFed \/ AllSettled \/ Drained
          \/ Retry \/ Return
Commit == CommitFailure \/ CommitResult("indexed") \/ CommitResult("skipped")
            \/ CommitThrows
Flush == Commit \/ Stored \/ FlushEnds
Writer == Ack \/ BundleFails \/ WriterGone
Parses == \E s \in inFlight : Settle(s)

Next == Main \/ Parses \/ Flush \/ Writer \/ Signal

Spec == Init /\ [][Next]_vars

\* Continuations run, every parse settles, and the writer answers or dies.
FairSpec == Spec /\ WF_vars(Main) /\ WF_vars(Parses) /\ WF_vars(Flush) /\ WF_vars(Writer)

-----------------------------------------------------------------------------
(* What indexing promises.                                                  *)

\* "This bound is load-bearing for memory" (feed): contents held for parses in
\* flight and for results that wait behind a slow file never exceed the window.
WindowIsBounded == nextSeq - cursor <= Window

\* An index that returns has accounted for every file, whatever became of its
\* parse and of its retry: HomeGraph.indexAll takes a shortfall for a PARTIAL
\* index (src/index.ts:665-685).
FilesAreAccounted == pc = "done" => indexed + skipped + errored = Files

\* No index succeeds with a file that the writer lost or has yet to apply,
\* though files are counted as soon as the writer is within its window.
SuccessMeansStored == pc \in {"retrying", "done"} => ~lost /\ queue = 0

\* Indexing ends, however parses, flushes and the writer fail, except in the
\* state CommitChainMakesRoom is about.
IndexingIsOver == pc \in Ended \/ (pc = "room" /\ flushError)

\* "When nothing is in flight but the window is still full, the async commit
\* chain is what's behind - await it so the cursor advances" (feed): once it
\* has been awaited there is room.
CommitChainMakesRoom == pc = "room" /\ inFlight = {} /\ Flushed => Fits
=============================================================================
