----------------------------- MODULE DaemonLock -----------------------------
(***************************************************************************)
(* How the shared daemon of a project is elected and retires:              *)
(* startDaemonProcess of src/mcp/index.ts with tryAcquireDaemonLock,       *)
(* clearStaleDaemonLock, Daemon.start and Daemon.stop of src/mcp/daemon.ts.*)
(*                                                                         *)
(* Launchers that find no daemon each spawn a candidate, and the           *)
(* candidates contend for a pid file that is hard-linked into place with   *)
(* its record already in it.  The winner binds a socket at a fixed path.   *)
(* Each system call on the two files is an action.  Filesystems without    *)
(* hard links, and the relocation of the socket, are left out.             *)
(***************************************************************************)
EXTENDS Naturals, FiniteSets

CONSTANTS
  Procs,      \* candidate processes, one pid each
  Nobody,     \* the file does not exist
  Retries,    \* TAKEOVER_MAX_RETRIES
  MayCrash,   \* processes that may be killed
  MayStop,    \* daemons that may be idle for too long or told to stop
  MayFail     \* daemons for which no socket candidate may be usable

\* What the theorems assume of them.
DaemonLockAssumption ==
  /\ Nobody \notin Procs
  /\ Retries \in Nat \ {0}
  /\ MayCrash \subseteq Procs /\ MayStop \subseteq Procs /\ MayFail \subseteq Procs

VARIABLES
  pidFile,      \* the process the pid file names
  socketFile,   \* the process that bound the socket at the fixed path
  crashed,      \* processes that were killed
  pc,           \* where each process is
  attempts,     \* of startDaemonProcess's loop
  seen          \* the holder it read when it found the lock taken

vars == <<pidFile, socketFile, crashed, pc, attempts, seen>>

\* A candidate links, reads the holder, re-reads the file and clears it; the
\* winner binds, listens and serves; then the server closes, the lock is
\* checked and removed, the socket path too, and the process has exited.
Steps == {"unborn", "linking", "reading", "rereading", "clearing",
          "binding", "listening", "serving",
          "checking", "removing", "dropping", "exited"}

\* The types of the state.
TypeOK ==
  /\ pidFile \in Procs \cup {Nobody}
  /\ socketFile \in Procs \cup {Nobody}
  /\ crashed \subseteq Procs
  /\ pc \in [Procs -> Steps]
  /\ attempts \in [Procs -> 0 .. Retries]
  /\ seen \in [Procs -> Procs \cup {Nobody}]

Init ==
  /\ pidFile = Nobody /\ socketFile = Nobody
  /\ crashed = {}
  /\ pc = [p \in Procs |-> "unborn"]
  /\ attempts = [p \in Procs |-> 0]
  /\ seen = [p \in Procs |-> Nobody]

-----------------------------------------------------------------------------
At(p, step) == p \notin crashed /\ pc[p] = step
Goto(p, step) == pc' = [pc EXCEPT ![p] = step]
Alive(p) == p \notin crashed /\ pc[p] \notin {"unborn", "exited"}

\* A launcher that could not connect spawns a detached candidate.
Spawn(p) ==
  /\ At(p, "unborn")
  /\ Goto(p, "linking")
  /\ UNCHANGED <<pidFile, socketFile, crashed, attempts, seen>>

MayRetryOnceMore(p) == attempts[p] <= Retries
MayRetry(p) == attempts[p] < Retries

\* One round of the loop: link() puts the whole record in place, or fails
\* because a pid file exists, whose holder is then read.
Link(p) ==
  /\ At(p, "linking")
  /\ MayRetry(p)
  /\ attempts' = [attempts EXCEPT ![p] = @ + 1]
  /\ IF pidFile = Nobody
       THEN pidFile' = p /\ Goto(p, "binding")
       ELSE UNCHANGED pidFile /\ Goto(p, "reading")
  /\ UNCHANGED <<socketFile, crashed, seen>>

\* The pid file may be gone by the time it is read: the holder is then null.
ReadHolder(p) ==
  /\ At(p, "reading")
  /\ seen' = [seen EXCEPT ![p] = pidFile]
  /\ Goto(p, "rereading")
  /\ UNCHANGED <<pidFile, socketFile, crashed, attempts>>

\* A live holder makes us redundant; the record of a dead one is to be cleared.
Judge(p) ==
  /\ At(p, "rereading")
  /\ seen[p] # Nobody /\ Alive(seen[p])
  /\ Goto(p, "exited")
  /\ UNCHANGED <<pidFile, socketFile, crashed, attempts, seen>>

\* clearStaleDaemonLock reads the file again and goes on only if it still
\* names the dead process the caller saw (any dead one, if it saw none).
ClearsBlindly(p) == pidFile # Nobody
ClearsOnlyOthers(p) ==
  /\ pidFile # Nobody /\ ~Alive(pidFile)
  /\ seen[p] # Nobody => pidFile # seen[p]
StillStale(p) ==
  /\ pidFile # Nobody /\ ~Alive(pidFile)
  /\ seen[p] # Nobody => pidFile = seen[p]

Reread(p) ==
  /\ At(p, "rereading")
  /\ seen[p] # Nobody => ~Alive(seen[p])
  /\ Goto(p, IF StillStale(p) THEN "clearing" ELSE "linking")
  /\ UNCHANGED <<pidFile, socketFile, crashed, attempts, seen>>

\* It unlinks the pid file: whichever is there by now.
Clear(p) ==
  /\ At(p, "clearing")
  /\ pidFile' = Nobody
  /\ Goto(p, "linking")
  /\ UNCHANGED <<socketFile, crashed, attempts, seen>>

\* Out of retries.
GiveUp(p) ==
  /\ At(p, "linking")
  /\ ~MayRetry(p)
  /\ Goto(p, "exited")
  /\ UNCHANGED <<pidFile, socketFile, crashed, attempts, seen>>

\* The winner's listen(): it unlinks the socket path and binds it.
Bind(p) ==
  /\ At(p, "binding")
  /\ socketFile' = Nobody
  /\ Goto(p, "listening")
  /\ UNCHANGED <<pidFile, crashed, attempts, seen>>

\* A path taken meanwhile, or unusable, ends the start; the lock is given back.
FailureExits(p) == Goto(p, "exited")
FailureCleansUp(p) == Goto(p, "checking")

Listen(p) ==
  /\ At(p, "listening")
  /\ \/ socketFile = Nobody /\ socketFile' = p /\ Goto(p, "serving")
     \/ /\ socketFile # Nobody \/ p \in MayFail
        /\ FailureCleansUp(p)
        /\ UNCHANGED socketFile
  /\ UNCHANGED <<pidFile, crashed, attempts, seen>>

\* stop(): the server closes, and unlinks its path as it does.
Stop(p) ==
  /\ p \in MayStop
  /\ At(p, "serving")
  /\ socketFile' = Nobody
  /\ Goto(p, "checking")
  /\ UNCHANGED <<pidFile, crashed, attempts, seen>>

\* cleanupLockfile: the pid file is removed if it still names us.
Check(p) ==
  /\ At(p, "checking")
  /\ Goto(p, IF pidFile = p THEN "removing" ELSE "dropping")
  /\ UNCHANGED <<pidFile, socketFile, crashed, attempts, seen>>

Remove(p) ==
  /\ At(p, "removing")
  /\ pidFile' = Nobody
  /\ Goto(p, "dropping")
  /\ UNCHANGED <<socketFile, crashed, attempts, seen>>

\* The socket path is unlinked once more, and the process exits.
DropSocket(p) ==
  /\ At(p, "dropping")
  /\ socketFile' = Nobody
  /\ Goto(p, "exited")
  /\ UNCHANGED <<pidFile, crashed, attempts, seen>>

Crash(p) ==
  /\ p \in MayCrash /\ Alive(p)
  /\ crashed' = crashed \cup {p}
  /\ UNCHANGED <<pidFile, socketFile, pc, attempts, seen>>

-----------------------------------------------------------------------------
Electing(p) ==
  Link(p) \/ ReadHolder(p) \/ Judge(p) \/ Reread(p) \/ Clear(p) \/ GiveUp(p)
Retiring(p) == Check(p) \/ Remove(p) \/ DropSocket(p)
Running(p) == Electing(p) \/ Bind(p) \/ Listen(p) \/ Retiring(p)

Next == \E p \in Procs : Spawn(p) \/ Running(p) \/ Stop(p) \/ Crash(p)

Spec == Init /\ [][Next]_vars

\* A process that has started goes on; nobody has to start, stop or crash one.
FairSpec == Spec /\ \A p \in Procs : WF_vars(Running(p))

-----------------------------------------------------------------------------
(* What the election promises.                                              *)

\* Past the lock and before its exit: with a watcher and an index to write to.
Daemons == {p \in Procs : p \notin crashed /\
              pc[p] \in {"binding", "listening", "serving", "checking", "removing"}}

\* clearStaleDaemonLock's comment (627): "we never delete a lock that a live
\* daemon (re)acquired in the meantime", else there are "two daemons (two
\* watchers, two writers)" (527).
OneDaemon == \A p, q \in Daemons : p = q

\* Stops, failed binds and any number of candidates never yield two daemons;
\* that takes a stale lock, hence a process that was killed.
OneDaemonUnlessKilled == crashed = {} => OneDaemon

\* A daemon that stops, or fails to start, gives its lock back: only a killed
\* process leaves a pid file behind, so launchers do not "spin respawning us
\* on a stale lock" (242).
OnlyCrashesLeaveALock ==
  pidFile # Nobody => pidFile \in crashed \/ pidFile \in Daemons

\* A killed daemon's pid file does not keep its successors out: if only
\* candidates are left when one starts, one of them gets to bind.
DeadLockNeverBlocks ==
  \A p \in Procs :
    /\ At(p, "linking") /\ attempts[p] = 0
    /\ MayCrash \subseteq crashed
    /\ \A q \in Procs \ crashed : pc[q] \in {"unborn", "linking", "exited"}
    ~> \E q \in Procs : At(q, "listening")
=============================================================================
