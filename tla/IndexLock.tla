------------------------------ MODULE IndexLock ------------------------------
(***************************************************************************)
(* The locks around the index: the FileLock of src/utils.ts, a pid file in *)
(* the data directory that processes contend for, under the Mutex of the   *)
(* same file, which lets one operation of a HomeGraph instance run at a    *)
(* time (src/index.ts: indexAll, sync, indexFiles, close).                 *)
(*                                                                         *)
(* Each process has one instance.  Its own code runs without interruption  *)
(* between awaits, but each system call of acquire() and release() may     *)
(* interleave with those of other processes, so each is an action.  The    *)
(* lock file is known by the process that created it: what the code reads  *)
(* from it is that process's pid, once it has been written.                *)
(***************************************************************************)
EXTENDS Naturals, FiniteSets

CONSTANTS
  Procs,        \* processes that open the project
  Nobody,       \* no lock file exists
  Ops,          \* which of "sync" (also indexAll) and "indexFiles" are called
  MayCrash,     \* processes that may be killed
  MayClose,     \* processes that may call close() with operations under way
  MayExpire,    \* may an operation outlast STALE_TIMEOUT_MS?
  MaxRequests   \* bound of the model: operations each process asks for

\* What the theorems assume of them.
IndexLockAssumption ==
  /\ Nobody \notin Procs
  /\ Ops \subseteq {"sync", "indexFiles"}
  /\ MayCrash \subseteq Procs /\ MayClose \subseteq Procs
  /\ MayExpire \in BOOLEAN
  /\ MaxRequests \in Nat

VARIABLES
  lockOwner,    \* who created the lock file on disk, Nobody if there is none
  lockWritten,  \* its pid has been written (writeFileSync: open, then write)
  lockOld,      \* it is older than STALE_TIMEOUT_MS
  alive,        \* processes still running
  closed,       \* instances whose close() has run
  asked,        \* requests made so far
  queue,        \* requests waiting on the instance's mutex
  op,           \* the operation that has the mutex
  held,         \* FileLock.held
  pc            \* where that operation is; "idle" when the mutex is free

lockVars == <<lockOwner, lockWritten, lockOld>>
procVars == <<alive, closed, asked, queue>>
vars == <<lockOwner, lockWritten, lockOld, alive, closed, asked, queue, op, held, pc>>

\* "reading" to "writing" are the system calls of acquire(), "setup" what an
\* operation does between acquire() and its try, "releasing" and "unlinking"
\* those of release(); "detached" is an indexFiles that has released already.
Steps == {"idle", "reading", "breaking", "creating", "writing", "setup",
          "working", "releasing", "unlinking", "detached"}

\* The types of the state.
TypeOK ==
  /\ lockOwner \in Procs \cup {Nobody}
  /\ lockWritten \in BOOLEAN /\ lockOld \in BOOLEAN
  /\ alive \subseteq Procs /\ closed \subseteq Procs
  /\ asked \in [Procs -> 0 .. MaxRequests] /\ queue \in [Procs -> Nat]
  /\ op \in [Procs -> {"sync", "indexFiles"}]
  /\ held \in [Procs -> BOOLEAN]
  /\ pc \in [Procs -> Steps]

Init ==
  /\ lockOwner = Nobody /\ lockWritten = FALSE /\ lockOld = FALSE
  /\ alive = Procs /\ closed = {}
  /\ asked = [p \in Procs |-> 0] /\ queue = [p \in Procs |-> 0]
  /\ op = [p \in Procs |-> "sync"]
  /\ held = [p \in Procs |-> FALSE]
  /\ pc = [p \in Procs |-> "idle"]

-----------------------------------------------------------------------------
At(p, step) == p \in alive /\ pc[p] = step
Goto(p, step) == pc' = [pc EXCEPT ![p] = step]
Exists == lockOwner # Nobody
Removed == lockOwner' = Nobody /\ lockWritten' = FALSE /\ lockOld' = FALSE

\* sync() or indexFiles() is called, and waits its turn in Mutex.withLock.
Request(p) ==
  /\ p \in alive
  /\ asked[p] < MaxRequests
  /\ asked' = [asked EXCEPT ![p] = @ + 1]
  /\ queue' = [queue EXCEPT ![p] = @ + 1]
  /\ UNCHANGED <<lockVars, alive, closed, op, held, pc>>

\* Mutex.acquire lets one of the waiting calls through.
TakesTurn(p) == queue[p] > 0 /\ queue' = [queue EXCEPT ![p] = @ - 1]

\* The mutex is ours; acquire() looks whether the lock file exists.
Enter(p, kind) ==
  /\ At(p, "idle")
  /\ TakesTurn(p)
  /\ op' = [op EXCEPT ![p] = kind]
  /\ Goto(p, IF Exists THEN "reading" ELSE "creating")
  /\ UNCHANGED <<lockVars, alive, closed, asked, held>>

\* It reads the pid, the age and whether that process runs.  A live, recent
\* owner refuses us; anything else, a failed read included, is broken.
AnyOwner  == Exists /\ lockWritten /\ ~lockOld
LiveOwner == Exists /\ lockWritten /\ ~lockOld /\ lockOwner \in alive

Read(p) ==
  /\ At(p, "reading")
  /\ Goto(p, IF LiveOwner THEN "idle" ELSE "breaking")
  /\ UNCHANGED <<lockVars, procVars, op, held>>

\* It unlinks the lock file: whichever is there by now.
Break(p) ==
  /\ At(p, "breaking")
  /\ Removed
  /\ Goto(p, "creating")
  /\ UNCHANGED <<procVars, op, held>>

\* It creates the file exclusively: refused if somebody was faster.
Create(p) ==
  /\ At(p, "creating")
  /\ IF Exists
       THEN Goto(p, "idle") /\ UNCHANGED lockVars
       ELSE /\ lockOwner' = p /\ lockWritten' = FALSE /\ lockOld' = FALSE
            /\ Goto(p, "writing")
  /\ UNCHANGED <<procVars, op, held>>

\* The pid goes to the file it created, which may have been unlinked since.
\* indexFiles returns its promise without awaiting it, so its finally releases
\* the lock before the work it has started goes on.
Write(p) ==
  /\ At(p, "writing")
  /\ lockWritten' = (lockWritten \/ lockOwner = p)
  /\ held' = [held EXCEPT ![p] = TRUE]
  /\ Goto(p, IF op[p] = "sync" THEN "setup" ELSE "releasing")
  /\ UNCHANGED <<lockOwner, lockOld, procVars, op>>

\* sync() and indexAll() ask the database for its journal mode before their
\* try: on a closed connection that throws past the finally that releases.
Setup(p) ==
  /\ At(p, "setup")
  /\ Goto(p, IF p \in closed THEN "idle" ELSE "working")
  /\ UNCHANGED <<lockVars, procVars, op, held>>

\* The work ends, or fails.
Finish(p) ==
  /\ At(p, "working")
  /\ Goto(p, "releasing")
  /\ UNCHANGED <<lockVars, procVars, op, held>>

\* What the mutex holder does once its lock is released.
Return(p) ==
  Goto(p, IF op[p] = "indexFiles" /\ p \notin closed THEN "detached" ELSE "idle")

\* release(): a file that names us is unlinked, any other is left alone.
ForgetsTheFile(p) ==
  /\ At(p, "releasing")
  /\ held' = [held EXCEPT ![p] = FALSE]
  /\ Return(p)
  /\ UNCHANGED <<lockVars, procVars, op>>
Release(p) ==
  /\ At(p, "releasing")
  /\ IF held[p] /\ lockOwner = p /\ lockWritten
       THEN Goto(p, "unlinking") /\ UNCHANGED held
       ELSE held' = [held EXCEPT ![p] = FALSE] /\ Return(p)
  /\ UNCHANGED <<lockVars, procVars, op>>

Unlink(p) ==
  /\ At(p, "unlinking")
  /\ Removed
  /\ held' = [held EXCEPT ![p] = FALSE]
  /\ Return(p)
  /\ UNCHANGED <<procVars, op>>

\* The unawaited indexing of indexFiles ends and frees the mutex.
DetachedEnds(p) ==
  /\ At(p, "detached")
  /\ Goto(p, "idle")
  /\ UNCHANGED <<lockVars, procVars, op, held>>

\* close() between two awaits: it releases the lock of the operation under
\* way, whose connection is gone and which can only fail.
Close(p) ==
  /\ p \in MayClose /\ p \in alive \ closed
  /\ pc[p] \in {"idle", "working", "detached"}
  /\ closed' = closed \cup {p}
  /\ Goto(p, IF pc[p] = "working" THEN "releasing" ELSE "idle")
  /\ UNCHANGED <<lockVars, alive, asked, queue, op, held>>

Crash(p) ==
  /\ p \in MayCrash /\ p \in alive
  /\ alive' = alive \ {p}
  /\ UNCHANGED <<lockVars, closed, asked, queue, op, held, pc>>

\* The lock file outlives the timeout.
Expire ==
  /\ MayExpire /\ Exists /\ ~lockOld
  /\ lockOld' = TRUE
  /\ UNCHANGED <<lockOwner, lockWritten, procVars, op, held, pc>>

-----------------------------------------------------------------------------
Acquiring(p) == Read(p) \/ Break(p) \/ Create(p) \/ Write(p)
Running(p) ==
  \/ \E kind \in Ops : Enter(p, kind)
  \/ Acquiring(p)
  \/ Setup(p) \/ Finish(p) \/ Release(p) \/ Unlink(p) \/ DetachedEnds(p)

Next ==
  \/ \E p \in Procs : Request(p) \/ Running(p) \/ Close(p) \/ Crash(p)
  \/ Expire

Spec == Init /\ [][Next]_vars

\* A live process goes on with the operation it has begun.
FairSpec == Spec /\ \A p \in Procs : WF_vars(Running(p))
-----------------------------------------------------------------------------
(* What the locks promise.                                                  *)

Writers == {p \in alive : pc[p] \in {"working", "detached"}}

\* The class comment of FileLock (220): it "prevents multiple processes from
\* writing to the same database simultaneously".
OneWriter == Cardinality(Writers) <= 1

\* A finished operation leaves no lock file behind, however its release raced
\* with processes that were breaking locks: a file on disk is of an operation
\* that still has to release it, of a dead process, or of a closed instance.
NoLeak ==
  Exists => \/ lockOwner \notin alive \cup {Nobody}
            \/ lockOwner \in closed
            \/ pc[lockOwner] \in {"writing", "setup", "working", "releasing", "unlinking"}

\* The lock file of a dead process keeps nobody out: a lone survivor that asks
\* gets to write, unless it is closed or dies as well.
DeadHolderNeverBlocks ==
  \A p \in Procs :
    (alive = {p} /\ p \notin closed /\ pc[p] = "idle" /\ queue[p] > 0)
      ~> (p \in Writers \cup closed \/ p \notin alive)
=============================================================================
