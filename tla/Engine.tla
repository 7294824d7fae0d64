------------------------------- MODULE Engine -------------------------------
(***************************************************************************)
(* How the sessions of one server share its project: MCPEngine of          *)
(* src/mcp/engine.ts, the lazy resolution of src/mcp/session.ts and the    *)
(* gate of ToolHandler.execute in src/mcp/tools.ts.  The first session to  *)
(* need the project opens it, which takes a while; a tool call that finds  *)
(* none opens it on the spot; what was edited while no server ran is       *)
(* caught up with in the background, and the first call waits for that.    *)
(*                                                                         *)
(* An instance of the project (a HomeGraph) is a number; 0 is none.  Which *)
(* directory is searched, and cross-project calls, are left out.           *)
(***************************************************************************)
EXTENDS Naturals, FiniteSets

CONSTANTS
  Sessions,
  Calls,      \* tool calls and tools/list
  MaxOpens    \* bound of the model: instances opened

EngineAssumption == MaxOpens \in Nat \ {0}

Instances == 1 .. MaxOpens
None == 0

VARIABLES
  \* the world
  index,     \* .homegraph/ is there
  daemon,    \* a daemon, whose sessions know its path; else one client without a path
  by,        \* the session of each call
  \* MCPEngine
  closed, projectPath, initPromise, cg, watcherStarted, queryPool,
  \* ToolHandler
  default,   \* its cg
  catchUpGate,
  \* the instances
  opened,    \* how many there have been
  live,      \* those not closed
  watching, syncing,
  \* MCPSession
  greeted, promise, resolvePromise, rootsAttempted,
  \* the calls
  pc,
  gate,      \* the catch-up each waits for
  \* history
  raced      \* a call opened the project while an open was under way

engine == <<closed, projectPath, initPromise, cg, watcherStarted, queryPool>>
handler == <<default, catchUpGate>>
instances == <<opened, live, watching, syncing>>
session == <<greeted, promise, resolvePromise, rootsAttempted>>
world == <<index, daemon, by>>
vars == <<world, engine, handler, instances, session, pc, gate, raced>>

\* The types of the state.  One watcher at most is ever started.
TypeOK ==
  /\ index \in BOOLEAN /\ daemon \in BOOLEAN /\ by \in [Calls -> Sessions]
  /\ closed \in BOOLEAN /\ projectPath \in BOOLEAN /\ initPromise \in 0 .. MaxOpens
  /\ cg \in Instances \cup {None} /\ watcherStarted \in BOOLEAN /\ queryPool \in BOOLEAN
  /\ default \in Instances \cup {None} /\ catchUpGate \in Instances \cup {None}
  /\ opened \in 0 .. MaxOpens /\ live \subseteq 1 .. opened
  /\ watching \subseteq 1 .. opened /\ Cardinality(watching) <= 1
  /\ syncing \subseteq 1 .. opened
  /\ greeted \subseteq Sessions /\ rootsAttempted \subseteq Sessions
  /\ resolvePromise \subseteq Sessions
  /\ promise \in [Sessions -> {"none", "roots", "init", "settled"}]
  /\ pc \in [Calls -> {"idle", "awaiting", "rooting", "dispatched", "gated", "serving", "answered"}]
  /\ gate \in [Calls -> Instances \cup {None}]
  /\ raced \in BOOLEAN

Init ==
  /\ index \in BOOLEAN /\ daemon \in BOOLEAN /\ by \in [Calls -> Sessions]
  /\ ~daemon => \A c, d \in Calls : by[c] = by[d]
  /\ closed = FALSE /\ projectPath = daemon
  /\ initPromise = IF daemon /\ index THEN 1 ELSE 0  \* Daemon.start
  /\ cg = None /\ watcherStarted = FALSE /\ queryPool = FALSE
  /\ default = None /\ catchUpGate = None
  /\ opened = 0 /\ live = {} /\ watching = {} /\ syncing = {}
  /\ greeted = {} /\ promise = [s \in Sessions |-> "none"]
  /\ resolvePromise = {} /\ rootsAttempted = {}
  /\ pc = [c \in Calls |-> "idle"] /\ gate = [c \in Calls |-> None]
  /\ raced = FALSE

\* homegraph init.
Appears ==
  /\ ~index /\ index' = TRUE
  /\ UNCHANGED <<daemon, by, engine, handler, instances, session, pc, gate, raced>>

-----------------------------------------------------------------------------
(* The engine.                                                              *)

\* maybeStartPool
StartsIfOpen == queryPool \/ (daemon /\ ~closed)

\* A new instance is installed: it serves, is watched if none was, is caught up
\* with, and gets the pool.
Install(left) ==
  /\ opened < MaxOpens /\ opened' = opened + 1
  /\ LET i == opened + 1
     IN /\ cg' = i /\ default' = i
        /\ live' = (live \ left) \cup {i}
        /\ IF watcherStarted THEN UNCHANGED watching ELSE watching' = {i}
        /\ watcherStarted' = TRUE
        /\ \/ catchUpGate' = i /\ syncing' = syncing \cup {i}
           \/ UNCHANGED <<catchUpGate, syncing>>  \* shouldSkipCatchUpSync
        /\ queryPool' = StartsIfOpen

Alone == FALSE
Shared == initPromise > 0

\* ensureInitialized, called by s: an open under way is shared.  Without an index
\* there is nothing to wait for.
EnsureInitialized(s) ==
  /\ projectPath' = (projectPath \/ ~(closed \/ default # None \/ Shared))
  /\ IF ~closed /\ default = None /\ (Shared \/ index)
       THEN promise' = [promise EXCEPT ![s] = "init"]
       ELSE promise' = [promise EXCEPT ![s] = "settled"]
  /\ IF ~closed /\ default = None /\ ~Shared /\ index
       THEN initPromise < MaxOpens /\ initPromise' = initPromise + 1
       ELSE UNCHANGED initPromise

\* doInitialize goes on after the open, or its catch; and finally.
Forgotten == promise
Settled == [s \in Sessions |-> IF promise[s] = "init" THEN "settled" ELSE promise[s]]
Finally ==
  /\ initPromise > 0 /\ initPromise' = initPromise - 1
  /\ promise' = Settled
  /\ UNCHANGED <<world, closed, projectPath, greeted, resolvePromise, rootsAttempted,
                 pc, gate, raced>>
Opened == Finally /\ Install({})
OpenFails ==
  /\ Finally
  /\ UNCHANGED <<cg, watcherStarted, queryPool, handler, instances>>

\* retryInitializeSync: an open that is under way does not stop it.
RetryInitializeSync ==
  \/ /\ ~closed /\ default = None /\ index
     /\ Install({cg}) /\ projectPath' = TRUE
     /\ raced' = (raced \/ initPromise > 0)
     /\ UNCHANGED <<closed, initPromise>>
  \/ UNCHANGED <<engine, handler, instances, raced>>  \* it fails, or has nothing to do

\* stop: the tool handler keeps its reference.
Stop ==
  /\ ~closed /\ closed' = TRUE
  /\ queryPool' = FALSE
  /\ live' = live \ {cg} /\ watching' = watching \ {cg} /\ cg' = None
  /\ UNCHANGED <<world, projectPath, initPromise, watcherStarted, handler, opened, syncing,
                 session, pc, gate, raced>>

CaughtUp(i) ==
  /\ i \in syncing /\ syncing' = syncing \ {i}
  /\ UNCHANGED <<world, engine, handler, opened, live, watching, session, pc, gate, raced>>

-----------------------------------------------------------------------------
(* The sessions.                                                            *)

\* handleInitialize: answered, and then the project is opened if its path is known.
Greet(s) ==
  /\ s \notin greeted /\ (daemon \/ greeted = {})
  /\ greeted' = greeted \cup {s}
  /\ IF daemon
       THEN EnsureInitialized(s) /\ resolvePromise' = resolvePromise \cup {s}
       ELSE UNCHANGED <<projectPath, initPromise, promise, resolvePromise>>
  /\ UNCHANGED <<world, closed, cg, watcherStarted, queryPool, handler, instances,
                 rootsAttempted, pc, gate, raced>>

Goto(c, step) == pc' = [pc EXCEPT ![c] = step]

\* retryInitIfNeeded.  1: await what handleInitialize began.
Await(c) ==
  /\ pc[c] = "idle" /\ by[c] \in resolvePromise
  /\ Goto(c, "awaiting")
  /\ UNCHANGED <<world, engine, handler, instances, session, gate, raced>>

Resolving(c) ==
  \/ pc[c] = "idle" /\ by[c] \in greeted \ resolvePromise
  \/ pc[c] = "awaiting" /\ promise[by[c]] = "settled"

\* 2: ask the client for its roots, once, or take the working directory.
AskRoots(c) ==
  /\ Resolving(c) /\ default = None
  /\ ~projectPath /\ by[c] \notin rootsAttempted
  /\ rootsAttempted' = rootsAttempted \cup {by[c]}
  /\ resolvePromise' = resolvePromise \cup {by[c]}
  /\ Goto(c, "rooting")
  /\ \/ promise' = [promise EXCEPT ![by[c]] = "roots"] /\ UNCHANGED <<projectPath, initPromise>>
     \/ EnsureInitialized(by[c])
  /\ UNCHANGED <<world, closed, cg, watcherStarted, queryPool, handler, instances, greeted,
                 gate, raced>>

\* They answer, or not in time: initFromRoots goes on.
RootsAnswer(s) ==
  /\ promise[s] = "roots"
  /\ EnsureInitialized(s)
  /\ UNCHANGED <<world, closed, cg, watcherStarted, queryPool, handler, instances, greeted,
                 resolvePromise, rootsAttempted, pc, gate, raced>>

\* 3: open it here and now.
Retry(c) ==
  /\ \/ Resolving(c) /\ (default # None \/ projectPath \/ by[c] \in rootsAttempted)
     \/ pc[c] = "rooting" /\ promise[by[c]] = "settled"
  /\ IF default = None THEN RetryInitializeSync ELSE UNCHANGED <<engine, handler, instances, raced>>
  /\ resolvePromise' = resolvePromise \ {by[c]}
  /\ Goto(c, "dispatched")
  /\ UNCHANGED <<world, greeted, promise, rootsAttempted, gate>>

-----------------------------------------------------------------------------
(* The tool calls.                                                          *)

\* execute: the gate is taken down, and then waited for.
Execute(c) ==
  /\ pc[c] = "dispatched"
  /\ gate' = [gate EXCEPT ![c] = catchUpGate]
  /\ catchUpGate' = None
  /\ Goto(c, IF catchUpGate = None THEN "serving" ELSE "gated")
  /\ UNCHANGED <<world, engine, default, instances, session, raced>>

\* awaitCatchUpGate: the catch-up is over, or it takes too long.
PassGate(c) ==
  /\ pc[c] = "gated"
  /\ Goto(c, "serving")
  /\ IF gate[c] \in syncing THEN UNCHANGED gate ELSE gate' = [gate EXCEPT ![c] = None]
  /\ UNCHANGED <<world, engine, handler, instances, session, raced>>

Answer(c) ==
  /\ pc[c] = "serving"
  /\ Goto(c, "answered")
  /\ UNCHANGED <<world, engine, handler, instances, session, gate, raced>>

-----------------------------------------------------------------------------
Advances(c) ==
  Await(c) \/ AskRoots(c) \/ Retry(c) \/ Execute(c) \/ PassGate(c) \/ Answer(c)
Opening == Opened \/ OpenFails \/ \E s \in Sessions : RootsAnswer(s)
Next ==
  \/ Appears \/ Stop \/ Opening
  \/ \E s \in Sessions : Greet(s)
  \/ \E c \in Calls : Advances(c)
  \/ \E i \in Instances : CaughtUp(i)

Spec == Init /\ [][Next]_vars
\* The event loop: opens end, roots are answered or time out, calls go on.
Progress == Opening \/ \E c \in Calls : Advances(c)
FairSpec == Spec /\ WF_vars(Progress)

-----------------------------------------------------------------------------
(* What the code promises.                                                  *)

\* However many sessions want the project, the one that serves is the only one
\* open and the one that is watched, unless a call opened it during an open.
ServedByTheOneThatIsWatched ==
  ~closed /\ ~raced /\ default # None => live = {default} /\ watching = live

\* An open that ends after stop() starts no threads that nobody would stop.
NoPoolAfterStop == closed => ~queryPool

\* Every call of a session that was greeted is answered.
EveryToolCallIsAnswered ==
  \A c \in Calls : by[c] \in greeted ~> pc[c] = "answered"
=============================================================================
