------------------------------- MODULE Server -------------------------------
(***************************************************************************)
(* A server of a project: the sessions of its daemon, the engine they      *)
(* share, the pool of threads that serves their read tools and the cache   *)
(* of answers.  The engine sees of the daemon that it has sessions or is   *)
(* stopped, the pool that it is healthy and is destroyed, and the cache    *)
(* the calls alone, so each is checked beside the others and `which' says  *)
(* whose a behaviour is.                                                   *)
(***************************************************************************)
EXTENDS Sessions, Naturals

CONSTANTS
  Clients, ToolCalls, MaxOpens,                                 \* of Engine
  MaxPoolCalls, Threads, MaxSize, MaxRetries, CrashBudget,      \* of QueryPool
  Files, Keys, Lookups, MaxChanges                              \* of QueryCache

VARIABLES
  which,
  eIndex, eDaemon, eBy, eClosed, eProjectPath, eInitPromise, eCg, eWatcherStarted,
  eQueryPool, eDefault, eCatchUpGate, eOpened, eLive, eWatching, eSyncing, eGreeted,
  ePromise, eResolvePromise, eRootsAttempted, ePc, eGate, eRaced,
  qPool, qThread, qOpened, qMail, qGone, qKilled,
  kVersion, kIndexedAt, kRows, kStoredStamp, kConnection, kKeys, kSyncedStamp, kHeld,
  kPc, kKey, kBuilder, kRead, kHit, kOvertaken, kClock

E == INSTANCE Engine WITH
       Sessions <- Clients, Calls <- ToolCalls,
       index <- eIndex, daemon <- eDaemon, by <- eBy,
       closed <- eClosed, projectPath <- eProjectPath, initPromise <- eInitPromise,
       cg <- eCg, watcherStarted <- eWatcherStarted, queryPool <- eQueryPool,
       default <- eDefault, catchUpGate <- eCatchUpGate,
       opened <- eOpened, live <- eLive, watching <- eWatching, syncing <- eSyncing,
       greeted <- eGreeted, promise <- ePromise, resolvePromise <- eResolvePromise,
       rootsAttempted <- eRootsAttempted, pc <- ePc, gate <- eGate, raced <- eRaced
Q == INSTANCE QueryPool WITH
       MaxCalls <- MaxPoolCalls,
       pool <- qPool, thread <- qThread, opened <- qOpened, mail <- qMail, gone <- qGone,
       killed <- qKilled
K == INSTANCE QueryCache WITH
       Calls <- Lookups,
       version <- kVersion, indexedAt <- kIndexedAt, rows <- kRows,
       storedStamp <- kStoredStamp, connection <- kConnection,
       keys <- kKeys, syncedStamp <- kSyncedStamp, held <- kHeld,
       pc <- kPc, key <- kKey, builder <- kBuilder, read <- kRead, hit <- kHit,
       overtaken <- kOvertaken, clock <- kClock

ASSUME ServerAssumption ==
  E!EngineAssumption /\ Q!QueryPoolAssumption /\ K!QueryCacheAssumption

eVars == <<eIndex, eDaemon, eBy, eClosed, eProjectPath, eInitPromise, eCg, eWatcherStarted,
           eQueryPool, eDefault, eCatchUpGate, eOpened, eLive, eWatching, eSyncing, eGreeted,
           ePromise, eResolvePromise, eRootsAttempted, ePc, eGate, eRaced>>
qVars == <<qPool, qThread, qOpened, qMail, qGone, qKilled>>
kVars == <<kVersion, kIndexedAt, kRows, kStoredStamp, kConnection, kKeys, kSyncedStamp, kHeld,
           kPc, kKey, kBuilder, kRead, kHit, kOvertaken, kClock>>
allVars == <<which, vars, eVars, qVars, kVars>>

Parts == Init /\ E!Init /\ Q!Init /\ K!Init
AllInit == which \in {"sessions", "engine", "pool", "cache"} /\ Parts
AllNext ==
  /\ UNCHANGED which
  /\ \/ which = "sessions" /\ Next /\ UNCHANGED <<eVars, qVars, kVars>>
     \/ which = "engine" /\ E!Next /\ UNCHANGED <<vars, qVars, kVars>>
     \/ which = "pool" /\ Q!Next /\ UNCHANGED <<vars, eVars, kVars>>
     \/ which = "cache" /\ K!Next /\ UNCHANGED <<vars, eVars, qVars>>
ServerSpec == AllInit /\ [][AllNext]_allVars

\* The fairness of each, while it is the one that is shown.
Served(A) == which = "sessions" /\ A /\ UNCHANGED <<which, eVars, qVars, kVars>>
Progress ==
  /\ UNCHANGED <<which, vars, kVars>>
  /\ \/ which = "engine" /\ E!Progress /\ UNCHANGED qVars
     \/ which = "pool" /\ Q!Timers /\ UNCHANGED eVars
Fairness ==
  /\ \A c \in Conns : WF_allVars(Served(Event(c)))
  /\ WF_allVars(Served(IdleTimeout)) /\ WF_allVars(Served(Sweep))
  /\ WF_allVars(Served(Backstop)) /\ WF_allVars(Served(WindowPasses))
  /\ WF_allVars(Progress)

-----------------------------------------------------------------------------
(* Each of the one that is shown.                                           *)

Shown(one, property) == which = one => property

\* The types of the state.
TypesOK ==
  /\ Shown("sessions", TypeOK) /\ Shown("engine", E!TypeOK)
  /\ Shown("pool", Q!TypeOK) /\ Shown("cache", K!TypeOK)

\* Each worker of the pool is in one place, every waiting call in one place and with
\* somebody who will turn to it; and neither all the calls nor a single one that
\* kills its workers cost the pool more than they may.
PoolServesWhatItAdmits ==
  Shown("pool", /\ Q!WorkersHaveOnePlace /\ Q!QueueIsServed
                /\ Q!AdmissionHolds /\ Q!PoisonIsBounded)

\* The instance of the project that serves is the one open and watched, and a pool
\* that would start late is not started.
EngineServesWhatItWatches ==
  Shown("engine", E!ServedByTheOneThatIsWatched /\ E!NoPoolAfterStop)

\* Every tool call is answered, by the engine's thread or the pool's.
EveryCallIsAnswered == E!EveryToolCallIsAnswered /\ Q!EveryCallResolves

\* A cached answer is of the index it is served with.
HitsAreOfThisStamp == K!HitsAreOfThisStamp
=============================================================================
