------------------------------ MODULE Processes ------------------------------
(***************************************************************************)
(* The processes of a project beside the indexing: what keeps writers      *)
(* apart, which is the mutex between the operations of an instance, the    *)
(* lock file between processes and the election of the one daemon, and the *)
(* proxy between a host and that daemon.  IndexLock keeps of the mutex     *)
(* only that one operation has its turn, which is what TakesTurns says of  *)
(* it, a daemon is to the lock file a process like any other, and the      *)
(* proxy sees of the daemon that it answers or is gone, so each is checked *)
(* beside the others and `which' says whose a behaviour is.                *)
(***************************************************************************)
EXTENDS Mutex

CONSTANTS
  Procs, Ops, MayCrash, MayClose, MayExpire, MaxRequests,   \* of IndexLock
  Candidates, Retries, MayDie, MayStop, MayFail,            \* of DaemonLock
  Tools, Others, Inits, Answers,                            \* of Proxy
  Nobody

VARIABLES
  which,
  lOwner, lWritten, lOld, lAlive, lClosed, lAsked, lQueue, lOp, lHeld, lPc,
  dPidFile, dSocketFile, dCrashed, dPc, dAttempts, dSeen,
  xStatus, xExited, xAsked, xSent, xPending, xInflight, xTimers, xTimedOut,
  xAtDaemon, xBacklog, xLocal, xReplies

L == INSTANCE IndexLock WITH
       lockOwner <- lOwner, lockWritten <- lWritten, lockOld <- lOld, alive <- lAlive,
       closed <- lClosed, asked <- lAsked, queue <- lQueue, op <- lOp, held <- lHeld,
       pc <- lPc
D == INSTANCE DaemonLock WITH
       Procs <- Candidates, MayCrash <- MayDie,
       pidFile <- dPidFile, socketFile <- dSocketFile, crashed <- dCrashed, pc <- dPc,
       attempts <- dAttempts, seen <- dSeen
X == INSTANCE Proxy WITH
       daemonStatus <- xStatus, exited <- xExited, asked <- xAsked, sent <- xSent,
       pending <- xPending, inflight <- xInflight, timers <- xTimers,
       timedOut <- xTimedOut, atDaemon <- xAtDaemon, backlog <- xBacklog,
       local <- xLocal, replies <- xReplies

ASSUME ProcessesAssumption ==
  /\ L!IndexLockAssumption /\ D!DaemonLockAssumption /\ X!ProxyAssumption

lVars == <<lOwner, lWritten, lOld, lAlive, lClosed, lAsked, lQueue, lOp, lHeld, lPc>>
dVars == <<dPidFile, dSocketFile, dCrashed, dPc, dAttempts, dSeen>>
xVars == <<xStatus, xExited, xAsked, xSent, xPending, xInflight, xTimers, xTimedOut,
           xAtDaemon, xBacklog, xLocal, xReplies>>
allVars == <<which, vars, lVars, dVars, xVars>>

AllInit ==
  /\ which \in {"mutex", "file", "election", "proxy"}
  /\ Init /\ L!Init /\ D!Init /\ X!Init
AllNext ==
  /\ UNCHANGED which
  /\ \/ which = "mutex" /\ Next /\ UNCHANGED <<lVars, dVars, xVars>>
     \/ which = "file" /\ L!Next /\ UNCHANGED <<vars, dVars, xVars>>
     \/ which = "election" /\ D!Next /\ UNCHANGED <<vars, lVars, xVars>>
     \/ which = "proxy" /\ X!Next /\ UNCHANGED <<vars, lVars, dVars>>
ProcessesSpec == AllInit /\ [][AllNext]_allVars

\* The fairness of each, while it is the one that is shown.
Guards(A) == which = "mutex" /\ A /\ UNCHANGED <<which, lVars, dVars, xVars>>
Runs(p) == which = "file" /\ L!Running(p) /\ UNCHANGED <<which, vars, dVars, xVars>>
Elects(p) == which = "election" /\ D!Running(p) /\ UNCHANGED <<which, vars, lVars, xVars>>
Relays(A) == which = "proxy" /\ A /\ UNCHANGED <<which, vars, lVars, dVars>>
FairProcessesSpec ==
  /\ ProcessesSpec
  /\ \A c \in Callers : WF_allVars(Guards(Resume(c))) /\ WF_allVars(Guards(Release(c)))
  /\ \A p \in Procs : WF_allVars(Runs(p))
  /\ \A p \in Candidates : WF_allVars(Elects(p))
  /\ WF_allVars(Relays(X!Resolves))
  /\ \A t \in Tools : /\ WF_allVars(Relays(X!Deadline(t)))
                      /\ WF_allVars(Relays(X!LocalAnswers(t)))
  /\ \A m \in X!Messages : WF_allVars(Relays(X!BacklogAnswers(m)))

-----------------------------------------------------------------------------
\* The types of the state of what keeps writers apart and of the proxy.
TypesOK == TypeOK /\ L!TypeOK /\ D!TypeOK /\ X!TypeOK

\* A finished operation leaves no lock file behind.
NoLeak == L!NoLeak

\* Every call gets the mutex, and neither the lock file of a dead process nor the pid
\* file of a killed daemon keeps anybody out.
NobodyIsLockedOut ==
  EveryCallRuns /\ L!DeadHolderNeverBlocks /\ D!DeadLockNeverBlocks

\* Candidates that race, retire and fail to bind never make two daemons; that takes
\* a process that was killed.
OneDaemonUnlessKilled == D!OneDaemonUnlessKilled

\* A daemon that stops, or fails to start, gives its lock back.
OnlyCrashesLeaveALock == D!OnlyCrashesLeaveALock

\* No request of the host is answered twice.
AtMostOneReply == X!AtMostOneReply

\* No request of the host drops out of the books of the proxy.
NothingForgotten == X!NothingForgotten

\* Every tool call is answered, and every request once the daemon is gone.
EveryCallIsAnswered == X!EveryCallIsAnswered /\ X!OrphansAreServed
=============================================================================
