---------------------------- MODULE ServerProofs ----------------------------
(* Theorems about a server: its sessions, its engine, its cache, and what is *)
(* proved of the pool, for any sets and any bounds.                          *)
EXTENDS Server, FiniteSetTheorems, TLAPS

PoolProofs == INSTANCE QueryPoolProofs WITH
       MaxCalls <- MaxPoolCalls,
       pool <- qPool, thread <- qThread, opened <- qOpened, mail <- qMail, gone <- qGone,
       killed <- qKilled

-----------------------------------------------------------------------------
(* The sessions.                                                            *)

\* The state has its types: only clients that sent a hello have pids, and only
\* sessions are counted (handleConnection, dropClient).
THEOREM TypeCorrect == Spec => []TypeOK
<1>1. Init => TypeOK
  BY DEF Init, TypeOK
<1>2. TypeOK /\ [Next]_vars => TypeOK'
  <2> SUFFICES ASSUME TypeOK, [Next]_vars PROVE TypeOK'
    OBVIOUS
  <2> USE DEF TypeOK
  <2>1. ASSUME NEW c \in Conns, Connect(c) PROVE TypeOK'
    BY <2>1 DEF Connect
  <2>2. ASSUME NEW c \in Conns, Leave(c) PROVE TypeOK'
    BY <2>2 DEF Leave
  <2>3. ASSUME NEW c \in Conns, HostDies(c) PROVE TypeOK'
    BY <2>3 DEF HostDies
  <2>4. ASSUME NEW c \in Conns, Query(c) PROVE TypeOK'
    BY <2>4 DEF Query, connVars
  <2>5. ASSUME NEW c \in Conns, Hello(c) PROVE TypeOK'
    BY <2>5 DEF Hello, HelloArrives, NoHello, EarlyClose, Adopt
  <2>6. ASSUME NEW c \in Conns, SocketClosed(c) PROVE TypeOK'
    BY <2>6 DEF SocketClosed, DropClients, ArmIfLast, stopping
  <2>7. CASE WindowPasses
    BY <2>7 DEF WindowPasses, connVars
  <2>8. CASE Sweep
    <3>1. phase' \in [Conns -> {"none", "hello", "session", "phantom", "closed"}]
      BY <2>8 DEF Sweep, Destroy
    <3>2. clients' \subseteq {c \in Conns : phase'[c] \in {"session", "phantom"}}
      BY <2>8 DEF Sweep, Destroy, DropClients
    <3> QED
      BY <2>8, <3>1, <3>2 DEF Sweep, Destroy, DropClients, ArmIfLast, stopping
  <2>9. ASSUME NEW why \in {"signal", "idle timeout", "inactivity backstop"},
               Stop(why)
        PROVE  TypeOK'
    <3>1. phase' \in [Conns -> {"none", "hello", "session", "phantom", "closed"}]
      BY <2>9 DEF Stop, Destroy
    <3> QED
      BY <2>9, <3>1 DEF Stop, Destroy
  <2>10. CASE Signal \/ IdleTimeout \/ Backstop
    BY <2>9, <2>10 DEF Signal, IdleTimeout, Backstop
  <2>11. CASE Exit
    BY <2>11 DEF Exit, connVars
  <2>12. CASE UNCHANGED vars
    BY <2>12 DEF vars
  <2> QED
    BY <2>1, <2>2, <2>3, <2>4, <2>5, <2>6, <2>7, <2>8, <2>10, <2>11, <2>12
    DEF Next, Event, Timers
<1> QED
  BY <1>1, <1>2, PTL DEF Spec

\* A daemon with no client has its idle timer armed, whichever way its clients
\* went (dropClient, armIdleTimer).
THEOREM NeverUnwatched == Spec => []IdleWatched
<1>1. Init => IdleWatched
  BY DEF Init, IdleWatched
<1>2. IdleWatched /\ [Next]_vars => IdleWatched'
  <2> SUFFICES ASSUME IdleWatched, [Next]_vars PROVE IdleWatched'
    OBVIOUS
  <2> USE DEF IdleWatched, stopping
  <2>1. ASSUME NEW c \in Conns, Hello(c) PROVE IdleWatched'
    BY <2>1 DEF Hello, HelloArrives, NoHello, EarlyClose, Adopt
  <2>2. ASSUME NEW gone, DropClients(gone), UNCHANGED reason PROVE IdleWatched'
    BY <2>2 DEF DropClients, ArmIfLast
  <2>3. ASSUME NEW c \in Conns, SocketClosed(c) PROVE IdleWatched'
    BY <2>2, <2>3 DEF SocketClosed
  <2>4. CASE Sweep
    BY <2>2, <2>4 DEF Sweep
  <2>5. CASE Signal \/ IdleTimeout \/ Backstop
    BY <2>5 DEF Signal, IdleTimeout, Backstop, Stop
  <2>6. ASSUME UNCHANGED <<clients, idleTimer, reason>> PROVE IdleWatched'
    BY <2>6
  <2>7. ASSUME NEW c \in Conns, Connect(c) \/ Leave(c) \/ HostDies(c) \/ Query(c)
        PROVE  IdleWatched'
    BY <2>6, <2>7 DEF Connect, Leave, HostDies, Query
  <2>8. CASE WindowPasses \/ Exit \/ UNCHANGED vars
    BY <2>6, <2>8 DEF WindowPasses, Exit, vars
  <2> QED
    BY <2>1, <2>3, <2>4, <2>5, <2>7, <2>8 DEF Next, Event, Timers
<1> QED
  BY <1>1, <1>2, PTL DEF Spec

-----------------------------------------------------------------------------
\* Until the daemon stops, every session with a live socket is counted.
Counted == ~stopping => \A c \in Conns : phase[c] = "session" => c \in clients

\* Sessions are counted until the daemon stops.
LEMMA CountedHolds == Spec => []Counted
<1>1. Init => Counted
  BY DEF Init, Counted
<1>2. TypeOK /\ Counted /\ [Next]_vars => Counted'
  <2> SUFFICES ASSUME TypeOK, Counted, [Next]_vars PROVE Counted'
    OBVIOUS
  <2> USE DEF Counted, stopping, TypeOK
  <2>1. ASSUME NEW c \in Conns, Connect(c) PROVE Counted'
    BY <2>1 DEF Connect
  <2>2. ASSUME NEW c \in Conns, Hello(c) PROVE Counted'
    BY <2>2 DEF Hello, HelloArrives, NoHello, EarlyClose, Adopt
  <2>3. ASSUME NEW c \in Conns, SocketClosed(c) PROVE Counted'
    BY <2>3 DEF SocketClosed, DropClients
  <2>4. CASE Sweep
    BY <2>4 DEF Sweep, Destroy, DropClients
  <2>5. CASE Signal \/ IdleTimeout \/ Backstop
    BY <2>5 DEF Signal, IdleTimeout, Backstop, Stop
  <2>6. ASSUME UNCHANGED <<phase, clients, reason>> PROVE Counted'
    BY <2>6
  <2>7. ASSUME NEW c \in Conns, Leave(c) \/ HostDies(c) \/ Query(c)
        PROVE  Counted'
    BY <2>6, <2>7 DEF Leave, HostDies, Query, connVars
  <2>8. CASE WindowPasses \/ Exit \/ UNCHANGED vars
    BY <2>6, <2>8 DEF WindowPasses, Exit, vars, connVars
  <2> QED
    BY <2>1, <2>2, <2>3, <2>4, <2>5, <2>7, <2>8 DEF Next, Event, Timers
<1> QED
  BY <1>1, <1>2, TypeCorrect, PTL DEF Spec

\* A running client's connected session ends by a signal, or by the backstop if
\* its pid is not known: neither the sweep nor the idle timer can take it for
\* gone (backstopShouldExit, reapDeadClients, armIdleTimer).
KeptStep ==
  \A c \in alive \ left :
    phase[c] = "session" /\ EndsSession(c) =>
      \/ reason' = "signal"
      \/ reason' = "inactivity backstop" /\ c \notin known

THEOREM QuietSessionsSurvive == Spec => LiveSessionsAreKept
<1>1. TypeOK /\ Counted /\ [Next]_vars => [KeptStep]_vars
  <2> SUFFICES ASSUME TypeOK, Counted, Next,
                      NEW c \in alive \ left, phase[c] = "session",
                      EndsSession(c)
               PROVE  \/ reason' = "signal"
                      \/ reason' = "inactivity backstop" /\ c \notin known
    BY DEF KeptStep
  <2> c \in Conns
    BY DEF TypeOK
  <2> USE DEF TypeOK, EndsSession, stopping
  <2>1. ASSUME NEW d \in Conns, Hello(d) PROVE FALSE
    BY <2>1 DEF Hello, HelloArrives, NoHello, EarlyClose, Adopt
  <2>2. ASSUME NEW d \in Conns, SocketClosed(d) PROVE FALSE
    \* d's client has left, so d is not c.
    BY <2>2 DEF SocketClosed
  <2>3. CASE Sweep
    \* c runs, so it is not among the Dead.
    BY <2>3 DEF Sweep, Destroy, Dead
  <2>4. CASE Signal
    BY <2>4 DEF Signal, Stop
  <2>5. CASE IdleTimeout
    \* c is counted, or the daemon is stopping and nothing is destroyed.
    BY <2>5 DEF IdleTimeout, Stop, Destroy, Counted
  <2>6. CASE Backstop
    <3>1. c \in clients \ Dead
      BY <2>6 DEF Backstop, Counted, Dead
    <3>2. c \notin known
      BY <2>6, <3>1 DEF Backstop, NobodyVouched
    <3> QED
      BY <2>6, <3>2 DEF Backstop, Stop
  <2>7. ASSUME NEW d \in Conns, Connect(d) PROVE FALSE
    BY <2>7 DEF Connect
  <2>8. ASSUME NEW d \in Conns, Leave(d) \/ HostDies(d) \/ Query(d) PROVE FALSE
    BY <2>8 DEF Leave, HostDies, Query, connVars
  <2>9. CASE WindowPasses \/ Exit
    BY <2>9 DEF WindowPasses, Exit, connVars
  <2> QED
    BY <2>1, <2>2, <2>3, <2>4, <2>5, <2>6, <2>7, <2>8, <2>9
    DEF Next, Event, Timers
<1> QED
  BY <1>1, TypeCorrect, CountedHolds, PTL DEF Spec, LiveSessionsAreKept, KeptStep

-----------------------------------------------------------------------------
(* The engine.                                                              *)

\* Until a call overtakes an open that is under way, there is one open at most, and the
\* engine, the tool handler and the watcher all have the one instance that is live.
OneServes ==
  ~eClosed =>
    /\ eCg = eDefault
    /\ ~eRaced =>
         IF eDefault = E!None
           THEN eLive = {} /\ eWatching = {} /\ ~eWatcherStarted /\ eInitPromise \in {0, 1}
           ELSE eLive = {eDefault} /\ eWatching = {eDefault} /\ eInitPromise = 0
Stages == {"idle", "awaiting", "rooting", "dispatched", "gated", "serving", "answered"}
EInv == E!TypeOK /\ OneServes /\ E!NoPoolAfterStop

\* The engine counts as the library does.
LEMMA Counts == \A S : E!Cardinality(S) = Cardinality(S)
BY DEF E!Cardinality, Cardinality

\* The server begins with no instance.
LEMMA EngineInit == ASSUME E!EngineAssumption, E!Init PROVE EInv
<1> USE DEF Stages
<1>1. Cardinality({}) = 0 /\ 1 \in 0 .. MaxOpens /\ 0 \in 0 .. MaxOpens
  BY FS_EmptySet DEF E!EngineAssumption
<1>2. eInitPromise \in {0, 1} /\ eInitPromise \in 0 .. MaxOpens
  BY <1>1 DEF E!Init
<1>3. eBy \in [ToolCalls -> Clients] /\ eIndex \in BOOLEAN /\ eDaemon \in BOOLEAN
      /\ eProjectPath \in BOOLEAN
  BY DEF E!Init
<1>4. ePromise \in [Clients -> {"none", "roots", "init", "settled"}]
  BY DEF E!Init
<1>5. /\ ePc \in [ToolCalls -> Stages]
      /\ eGate \in [ToolCalls -> E!Instances \cup {E!None}]
  BY DEF E!Init
<1>6. /\ eClosed = FALSE /\ eCg = E!None /\ eWatcherStarted = FALSE /\ eQueryPool = FALSE
      /\ eDefault = E!None /\ eCatchUpGate = E!None
      /\ eOpened = 0 /\ eLive = {} /\ eWatching = {} /\ eSyncing = {}
      /\ eGreeted = {} /\ eResolvePromise = {} /\ eRootsAttempted = {} /\ eRaced = FALSE
  BY DEF E!Init
<1>7. E!TypeOK
  <2>1. Cardinality(eWatching) <= 1
    BY <1>1, <1>6
  <2>2. /\ eCg \in E!Instances \cup {E!None} /\ eDefault \in E!Instances \cup {E!None}
        /\ eCatchUpGate \in E!Instances \cup {E!None} /\ eOpened \in 0 .. MaxOpens
        /\ eLive \subseteq 1 .. eOpened /\ eWatching \subseteq 1 .. eOpened
        /\ eSyncing \subseteq 1 .. eOpened
    BY <1>1, <1>6
  <2> QED BY <1>2, <1>3, <1>4, <1>5, <1>6, <2>1, <2>2, Counts DEF E!TypeOK
<1> QED BY <1>2, <1>6, <1>7 DEF EInv, OneServes, E!NoPoolAfterStop, E!None

\* What an instance that is installed in the place of those leaves behind.
Installed(those) ==
  /\ eCg' \in E!Instances /\ eDefault' = eCg'
  /\ eOpened' = eCg' /\ eOpened' \in 0 .. MaxOpens
  /\ eLive' = (eLive \ those) \cup {eCg'} /\ eLive' \subseteq 1 .. eOpened'
  /\ eWatching' = (IF eWatcherStarted THEN eWatching ELSE {eCg'})
  /\ eWatching' \subseteq 1 .. eOpened' /\ Cardinality(eWatching') <= 1
  /\ eWatcherStarted' = TRUE /\ eQueryPool' \in BOOLEAN
  /\ eCatchUpGate' \in E!Instances \cup {E!None} /\ eSyncing' \subseteq 1 .. eOpened'
  /\ eClosed => eQueryPool' = eQueryPool

\* Installing an instance keeps the types, and makes it the one that serves.
LEMMA Installing ==
  ASSUME E!EngineAssumption, E!TypeOK, NEW those, E!Install(those)
  PROVE  Installed(those)
<1>1. eOpened \in Nat /\ eOpened + 1 \in E!Instances /\ eOpened + 1 \in 0 .. MaxOpens
  BY DEF E!Install, E!TypeOK, E!Instances, E!EngineAssumption
<1>2. \A n \in 1 .. eOpened : n \in 1 .. eOpened + 1
  BY <1>1
<1>3. eOpened' = eOpened + 1 /\ eCg' = eOpened + 1 /\ eDefault' = eOpened + 1
      /\ eLive' = (eLive \ those) \cup {eOpened + 1} /\ eWatcherStarted' = TRUE
      /\ eWatching' = (IF eWatcherStarted THEN eWatching ELSE {eOpened + 1})
      /\ eQueryPool' = E!StartsIfOpen
      /\ eCatchUpGate' \in {eCatchUpGate, eOpened + 1}
      /\ eSyncing' \in {eSyncing, eSyncing \cup {eOpened + 1}}
  BY DEF E!Install
<1>4. eOpened + 1 \in 1 .. eOpened + 1
  BY <1>1
<1>5. Cardinality(eWatching') <= 1
  <2>1. Cardinality({eOpened + 1}) = 1
    BY FS_Singleton
  <2> QED BY <1>3, <2>1, Counts DEF E!TypeOK
<1>6. /\ eLive' \subseteq 1 .. eOpened' /\ eWatching' \subseteq 1 .. eOpened'
      /\ eSyncing' \subseteq 1 .. eOpened'
  BY <1>2, <1>3, <1>4 DEF E!TypeOK
<1> QED BY <1>1, <1>3, <1>5, <1>6 DEF E!TypeOK, E!StartsIfOpen, Installed

\* The open that ensureInitialized has begun is the only one.
Ensured ==
  /\ eProjectPath' \in BOOLEAN
  /\ ePromise' \in [Clients -> {"none", "roots", "init", "settled"}]
  /\ eInitPromise' \in 0 .. MaxOpens
  /\ \/ eInitPromise' = eInitPromise
     \/ eDefault = E!None /\ eInitPromise = 0 /\ eInitPromise' = 1

\* ensureInitialized begins one only if there is none.
LEMMA Ensuring ==
  ASSUME E!EngineAssumption, E!TypeOK, NEW s \in Clients, E!EnsureInitialized(s)
  PROVE  Ensured
<1>1. eProjectPath' \in BOOLEAN
  BY DEF E!EnsureInitialized, E!TypeOK
<1>2. ePromise' \in [Clients -> {"none", "roots", "init", "settled"}]
  BY DEF E!EnsureInitialized, E!TypeOK
<1>3. eInitPromise' \in 0 .. MaxOpens
      /\ \/ eInitPromise' = eInitPromise
         \/ eDefault = E!None /\ eInitPromise = 0 /\ eInitPromise' = 1
  BY DEF E!EnsureInitialized, E!TypeOK, E!Shared, E!EngineAssumption
<1> QED BY <1>1, <1>2, <1>3 DEF Ensured

\* Opens that end or fail, sessions, calls and catch-ups keep all of it.
LEMMA EngineStep == ASSUME E!EngineAssumption, EInv, [E!Next]_(E!vars) PROVE EInv'
<1> USE DEF EInv, Installed, Ensured, Stages
<1>0. 1 \in Int /\ eOpened \in Int
  BY DEF E!TypeOK
<1>1. CASE E!Appears
  BY <1>1 DEF E!Appears, E!engine, E!handler, E!instances, E!session, E!TypeOK, OneServes,
     E!NoPoolAfterStop
<1>2. CASE E!Stop
  <2>1. Cardinality(eWatching \ {eCg}) <= 1
    <3>1. IsFiniteSet(1 .. eOpened)
      BY <1>0, FS_Interval
    <3>2. IsFiniteSet(eWatching) /\ Cardinality(eWatching) <= 1
      BY <3>1, FS_Subset, Counts DEF E!TypeOK
    <3>3. /\ Cardinality(eWatching \ {eCg}) <= Cardinality(eWatching)
          /\ Cardinality(eWatching) \in Nat /\ Cardinality(eWatching \ {eCg}) \in Nat
      BY <3>2, FS_Subset, FS_CardinalityType
    <3> QED BY <3>2, <3>3
  <2> QED BY <1>2, <2>1, Counts DEF E!Stop, E!world, E!handler, E!session, E!TypeOK,
           OneServes, E!NoPoolAfterStop
<1>3. CASE E!Opened
  <2>1. E!Install({})
    BY <1>3 DEF E!Opened
  <2>2. /\ eInitPromise > 0 /\ eInitPromise' = eInitPromise - 1 /\ ePromise' = E!Settled
        /\ UNCHANGED <<E!world, eClosed, eProjectPath, eGreeted, eResolvePromise,
                       eRootsAttempted, ePc, eGate, eRaced>>
    BY <1>3 DEF E!Opened, E!Finally
  <2>3. Installed({})
    BY <2>1, Installing
  <2>4. eInitPromise' \in 0 .. MaxOpens /\ (eInitPromise = 1 => eInitPromise' = 0)
    BY <2>2 DEF E!TypeOK, E!EngineAssumption
  <2>5. ePromise' \in [Clients -> {"none", "roots", "init", "settled"}]
    BY <2>2 DEF E!Settled, E!TypeOK
  <2>6. E!TypeOK'
    BY <2>2, <2>3, <2>4, <2>5, Counts DEF E!TypeOK, E!world
  <2>7. OneServes'
    <3>1. eCg' # E!None
      BY <2>3 DEF E!Instances, E!None
    <3>2. eInitPromise \in Nat /\ eInitPromise # 0
      BY <2>2 DEF E!TypeOK
    <3> QED BY <2>2, <2>3, <2>4, <3>1, <3>2 DEF OneServes
  <2>8. E!NoPoolAfterStop'
    BY <2>2, <2>3 DEF E!NoPoolAfterStop
  <2> QED BY <2>6, <2>7, <2>8
<1>4. CASE E!OpenFails
  <2>1. eInitPromise' \in 0 .. MaxOpens /\ (eInitPromise \in {0, 1} => eInitPromise' = 0)
    BY <1>4 DEF E!OpenFails, E!Finally, E!TypeOK, E!EngineAssumption
  <2>2. ePromise' \in [Clients -> {"none", "roots", "init", "settled"}]
    BY <1>4 DEF E!OpenFails, E!Finally, E!Settled, E!TypeOK
  <2>3. eInitPromise # 0
    BY <1>4 DEF E!OpenFails, E!Finally, E!TypeOK
  <2> QED BY <1>4, <2>1, <2>2, <2>3 DEF E!OpenFails, E!Finally, E!world, E!handler,
           E!instances, E!TypeOK, OneServes, E!NoPoolAfterStop
<1>5. ASSUME NEW s \in Clients, E!RootsAnswer(s) PROVE EInv'
  <2>1. Ensured
    BY <1>5, Ensuring DEF E!RootsAnswer
  <2> QED BY <1>5, <2>1 DEF E!RootsAnswer, E!world, E!handler, E!instances, E!TypeOK,
           OneServes, E!NoPoolAfterStop
<1>6. ASSUME NEW s \in Clients, E!Greet(s) PROVE EInv'
  <2>1. Ensured
    <3>1. CASE eDaemon
      <4>1. E!EnsureInitialized(s)
        BY <1>6, <3>1 DEF E!Greet
      <4> QED BY <4>1, Ensuring
    <3>2. CASE ~eDaemon
      BY <1>6, <3>2 DEF E!Greet, E!TypeOK
    <3> QED BY <3>1, <3>2
  <2>2. eGreeted' \subseteq Clients /\ eResolvePromise' \subseteq Clients
    BY <1>6 DEF E!Greet, E!TypeOK
  <2> QED BY <1>6, <2>1, <2>2 DEF E!Greet, E!world, E!handler, E!instances, E!TypeOK,
           OneServes, E!NoPoolAfterStop
<1>7. ASSUME NEW c \in ToolCalls, E!Advances(c) PROVE EInv'
  <2>0. eBy[c] \in Clients
    BY DEF E!TypeOK
  <2>1. CASE E!Await(c) \/ E!PassGate(c) \/ E!Answer(c)
    <3>1. /\ UNCHANGED <<E!world, E!engine, E!handler, E!instances, E!session, eRaced>>
          /\ ePc' \in [ToolCalls -> Stages]
      BY <2>1 DEF E!Await, E!PassGate, E!Answer, E!Goto, E!TypeOK
    <3>2. eGate' \in [ToolCalls -> E!Instances \cup {E!None}]
      BY <2>1 DEF E!Await, E!PassGate, E!Answer, E!TypeOK
    <3> QED BY <3>1, <3>2 DEF E!world, E!engine, E!handler, E!instances, E!session,
             E!TypeOK, OneServes, E!NoPoolAfterStop
  <2>2. CASE E!Execute(c)
    <3>1. /\ ePc' \in [ToolCalls -> Stages]
          /\ eGate' \in [ToolCalls -> E!Instances \cup {E!None}]
      BY <2>2 DEF E!Execute, E!Goto, E!TypeOK
    <3> QED BY <2>2, <3>1 DEF E!Execute, E!world, E!engine, E!instances, E!session,
             E!TypeOK, OneServes, E!NoPoolAfterStop
  <2>3. CASE E!AskRoots(c)
    <3>1. Ensured
      <4>1. CASE E!EnsureInitialized(eBy[c])
        BY <2>0, <4>1, Ensuring
      <4>2. CASE /\ ePromise' = [ePromise EXCEPT ![eBy[c]] = "roots"]
                 /\ UNCHANGED <<eProjectPath, eInitPromise>>
        BY <4>2 DEF E!TypeOK
      <4> QED BY <2>3, <4>1, <4>2 DEF E!AskRoots
    <3>2. /\ ePc' \in [ToolCalls -> Stages]
          /\ eResolvePromise' \subseteq Clients /\ eRootsAttempted' \subseteq Clients
      BY <2>0, <2>3 DEF E!AskRoots, E!Goto, E!TypeOK
    <3> QED BY <2>3, <3>1, <3>2 DEF E!AskRoots, E!world, E!handler, E!instances, E!TypeOK,
             OneServes, E!NoPoolAfterStop
  <2>4. CASE E!Retry(c)
    <3>1. /\ ePc' \in [ToolCalls -> Stages]
          /\ eResolvePromise' \subseteq Clients
          /\ UNCHANGED <<E!world, eGreeted, ePromise, eRootsAttempted, eGate>>
      BY <2>4 DEF E!Retry, E!Goto, E!TypeOK
    <3>2. CASE UNCHANGED <<E!engine, E!handler, E!instances, eRaced>>
      BY <3>1, <3>2 DEF E!world, E!engine, E!handler, E!instances, E!TypeOK, OneServes,
         E!NoPoolAfterStop
    <3>3. CASE /\ ~eClosed /\ eDefault = E!None /\ eIndex
               /\ E!Install({eCg}) /\ eProjectPath' = TRUE
               /\ eRaced' = (eRaced \/ eInitPromise > 0)
               /\ UNCHANGED <<eClosed, eInitPromise>>
      <4>1. Installed({eCg})
        BY <3>3, Installing
      <4>2. E!TypeOK'
        BY <3>1, <3>3, <4>1, Counts DEF E!TypeOK, E!world
      <4>3. OneServes'
        <5>1. eCg' # E!None
          BY <4>1 DEF E!Instances, E!None
        <5>2. ~(eInitPromise > 0) => eInitPromise = 0
          BY DEF E!TypeOK
        <5> QED BY <3>3, <4>1, <5>1, <5>2 DEF OneServes
      <4>4. E!NoPoolAfterStop'
        BY <3>3 DEF E!NoPoolAfterStop
      <4> QED BY <4>2, <4>3, <4>4
    <3> QED BY <2>4, <3>2, <3>3 DEF E!Retry, E!RetryInitializeSync
  <2> QED BY <1>7, <2>1, <2>2, <2>3, <2>4 DEF E!Advances
<1>8. ASSUME NEW i \in E!Instances, E!CaughtUp(i) PROVE EInv'
  BY <1>8 DEF E!CaughtUp, E!world, E!engine, E!handler, E!session, E!TypeOK, OneServes,
     E!NoPoolAfterStop
<1>9. CASE UNCHANGED E!vars
  BY <1>9 DEF E!vars, E!world, E!engine, E!handler, E!instances, E!session, E!TypeOK,
     OneServes, E!NoPoolAfterStop
<1> QED BY <1>1, <1>2, <1>3, <1>4, <1>5, <1>6, <1>7, <1>8, <1>9 DEF E!Next, E!Opening

\* Whatever opens fail, end late or are overtaken, what serves is watched, and no pool
\* outlives stop().
THEOREM EngineIsSafe ==
  ASSUME E!EngineAssumption
  PROVE  E!Spec => [](E!TypeOK /\ E!ServedByTheOneThatIsWatched /\ E!NoPoolAfterStop)
<1>1. E!Init => EInv
  BY EngineInit
<1>2. EInv /\ [E!Next]_(E!vars) => EInv'
  BY EngineStep
<1>3. EInv => E!TypeOK /\ E!ServedByTheOneThatIsWatched /\ E!NoPoolAfterStop
  BY DEF EInv, OneServes, E!ServedByTheOneThatIsWatched
<1> QED BY <1>1, <1>2, <1>3, PTL DEF E!Spec

-----------------------------------------------------------------------------
(* The cache.                                                               *)

\* What is cached was computed under the stamp that is stored, or a change overtook it; and
\* a call that has not begun has hit nothing.
Cached ==
  /\ \A k \in Keys : kRows[k] # <<>> => kRows[k].at = kStoredStamp \/ k \in kOvertaken
  /\ \A c \in Lookups : kPc[c] = "idle" => ~kHit[c]
Clocked == kVersion <= kClock + 1 /\ kConnection <= kClock + 1
KInv == K!TypeOK /\ Cached /\ Clocked

\* The members of a set of numbers have their ranks, as the pool's calls have.
LEMMA Ranked ==
  ASSUME NEW S \in SUBSET Nat, IsFiniteSet(S),
         NEW R, R = [i \in S |-> Cardinality({h \in S : h <= i})]
  PROVE  /\ R \in [S -> 1 .. Cardinality(S)]
         /\ \A i, j \in S : i < j => R[i] < R[j]
         /\ \A r \in 1 .. Cardinality(S) : \E i \in S : R[i] = r
<1>1. /\ \A T : PoolProofs!Cardinality(T) = Cardinality(T)
      /\ PoolProofs!IsFiniteSet(S) = IsFiniteSet(S)
  BY DEF PoolProofs!Cardinality, Cardinality, PoolProofs!IsFiniteSet, IsFiniteSet
<1>2. R = [i \in S |-> PoolProofs!Cardinality({h \in S : h <= i})]
  <2>1. \A i \in S : PoolProofs!Cardinality({h \in S : h <= i})
                       = Cardinality({h \in S : h <= i})
    BY <1>1
  <2> QED BY <2>1
<1>3. PoolProofs!IsFiniteSet(S)
  BY <1>1
<1>4. /\ R \in [S -> 1 .. PoolProofs!Cardinality(S)]
      /\ \A i, j \in S : i < j => R[i] < R[j]
      /\ \A r \in 1 .. PoolProofs!Cardinality(S) : \E i \in S : R[i] = r
  BY <1>2, <1>3, PoolProofs!Ranks
<1>5. PoolProofs!Cardinality(S) = Cardinality(S)
  BY <1>1
<1> QED BY <1>4, <1>5

\* A finite set of numbers has a greatest.
LEMMA Greatest ==
  ASSUME NEW S \in SUBSET Nat, IsFiniteSet(S), S # {}
  PROVE  K!Max(S) \in S /\ \A n \in S : K!Max(S) >= n
<1> DEFINE R == [i \in S |-> Cardinality({h \in S : h <= i})]
<1>1. Cardinality(S) \in Nat /\ Cardinality(S) # 0
  BY FS_CardinalityType, FS_EmptySet
<1>2. /\ R \in [S -> 1 .. Cardinality(S)]
      /\ \A i, j \in S : i < j => R[i] < R[j]
      /\ \A r \in 1 .. Cardinality(S) : \E i \in S : R[i] = r
  <2> HIDE DEF R
  <2>1. R = [i \in S |-> Cardinality({h \in S : h <= i})]
    BY DEF R
  <2> QED BY <2>1, Ranked
<1> HIDE DEF R
<1>3. PICK m \in S : R[m] = Cardinality(S)
  BY <1>1, <1>2
<1>4. \A n \in S : m >= n
  <2> SUFFICES ASSUME NEW n \in S, m < n PROVE FALSE
    OBVIOUS
  <2> QED BY <1>1, <1>2, <1>3
<1>5. \E x \in S : \A y \in S : x >= y
  BY <1>4
<1> QED BY <1>5 DEF K!Max

\* The stamp is that of a file.
LEMMA Stamped ==
  ASSUME K!QueryCacheAssumption, K!TypeOK PROVE K!IndexStamp \in 0 .. MaxChanges + 1
<1> DEFINE S == {kIndexedAt[f] : f \in Files}
<1>1. S \in SUBSET Nat /\ S \in SUBSET (0 .. MaxChanges + 1) /\ S # {}
  BY DEF K!TypeOK, K!QueryCacheAssumption
<1>2. IsFiniteSet(S)
  <2>1. 0 \in Int /\ MaxChanges + 1 \in Int
    BY DEF K!QueryCacheAssumption
  <2>2. IsFiniteSet(0 .. MaxChanges + 1)
    BY <2>1, FS_Interval
  <2> QED BY <1>1, <2>2, FS_Subset
<1> HIDE DEF S
<1>3. K!Max(S) \in S
  BY <1>1, <1>2, Greatest
<1> QED BY <1>1, <1>3 DEF K!IndexStamp, S

\* The server begins with an empty cache.
LEMMA CacheInit == ASSUME K!QueryCacheAssumption, K!Init PROVE KInv
<1>1. 1 \in 1 .. MaxChanges + 1 /\ 1 \in 0 .. MaxChanges + 1 /\ 0 \in 0 .. MaxChanges + 1
      /\ 0 \in 0 .. MaxChanges /\ 1 \in 1 .. 1
  BY DEF K!QueryCacheAssumption
<1>2. kRows = [k \in Keys |-> <<>>]
  BY DEF K!Init, K!Empty
<1>3. K!TypeOK
  <2>1. /\ kRows \in [Keys -> K!Answers \cup {<<>>}]
        /\ kIndexedAt \in [Files -> 0 .. MaxChanges + 1]
        /\ kPc \in [Lookups -> {"idle", "running", "done", "failed"}]
        /\ kBuilder \in [Lookups -> 1 .. MaxChanges + 1] /\ kKey \in [Lookups -> Keys]
        /\ kRead \in [Lookups -> K!Answers \cup {<<>>}] /\ kHit \in [Lookups -> BOOLEAN]
    BY <1>1, <1>2 DEF K!Init
  <2> QED BY <1>1, <2>1 DEF K!Init, K!TypeOK, K!Unset
<1> QED BY <1>2, <1>3 DEF K!Init, KInv, Cached, Clocked

\* A change of the index leaves what is cached, or the rows go with their database.
LEMMA ChangeStep ==
  ASSUME K!QueryCacheAssumption, KInv,
         (\E f \in Files : K!Reindex(f) \/ K!Remove(f)) \/ K!Replace \/ K!Restart
  PROVE  KInv'
<1> USE DEF KInv
<1>1. /\ kVersion \in Nat /\ kClock \in Nat /\ kConnection \in Nat /\ MaxChanges \in Nat
      /\ kHeld \in 1 .. kConnection
  BY DEF K!TypeOK, K!QueryCacheAssumption
<1>2. ASSUME K!Change
      PROVE  /\ kVersion' = kVersion + 1 /\ kVersion' \in 1 .. MaxChanges + 1
             /\ kVersion + 1 \in 0 .. MaxChanges + 1
             /\ kClock' \in 0 .. MaxChanges /\ kClock' = kClock + 1 /\ kVersion' <= kClock' + 1
             /\ kConnection <= kClock' + 1 /\ kConnection + 1 <= kClock' + 1
             /\ kConnection + 1 \in 1 .. MaxChanges + 1
  BY <1>1, <1>2 DEF K!Change, Clocked
<1>3. CASE \E f \in Files : K!Reindex(f) \/ K!Remove(f)
  <2>1. /\ K!Change
        /\ UNCHANGED <<kRows, kStoredStamp, kConnection, K!memory, K!calls, kOvertaken>>
        /\ \E f \in Files, n \in {kVersion + 1, 0} : kIndexedAt' = [kIndexedAt EXCEPT ![f] = n]
    BY <1>3 DEF K!Reindex, K!Remove, K!Unset
  <2>2. kIndexedAt' \in [Files -> 0 .. MaxChanges + 1]
    <3>1. 0 \in 0 .. MaxChanges + 1 /\ kIndexedAt \in [Files -> 0 .. MaxChanges + 1]
      BY <1>1 DEF K!TypeOK
    <3> QED BY <1>2, <2>1, <3>1
  <2>3. K!TypeOK'
    BY <1>2, <2>1, <2>2 DEF K!TypeOK, K!memory, K!calls
  <2> QED BY <1>2, <2>1, <2>3 DEF Cached, Clocked, K!memory, K!calls
<1>4. CASE K!Replace
  <2>1. /\ K!Change /\ kConnection' = kConnection + 1 /\ kRows' = [k \in Keys |-> <<>>]
        /\ kIndexedAt' = [f \in Files |-> kVersion + 1] /\ kStoredStamp' = 0 /\ kOvertaken' = {}
        /\ UNCHANGED <<K!memory, K!calls>>
    BY <1>4 DEF K!Replace, K!Empty, K!Unset
  <2>2. kIndexedAt' \in [Files -> 0 .. MaxChanges + 1]
    BY <1>2, <2>1
  <2>3. kRows' \in [Keys -> K!Answers \cup {<<>>}] /\ 0 \in 0 .. MaxChanges + 1
    BY <1>1, <2>1
  <2>4. kHeld \in 1 .. kConnection + 1 /\ kHeld # kConnection + 1
    BY <1>1
  <2>5. K!TypeOK'
    BY <1>2, <2>1, <2>2, <2>3, <2>4 DEF K!TypeOK, K!memory, K!calls
  <2> QED BY <1>2, <2>1, <2>5 DEF Cached, Clocked, K!memory, K!calls
<1>5. CASE K!Restart
  <2>1. /\ kClock < MaxChanges /\ kClock' = kClock + 1 /\ kKeys' = {} /\ kSyncedStamp' = 0
        /\ kHeld' = kConnection
        /\ kPc' = [c \in Lookups |-> IF kPc[c] = "running" THEN "failed" ELSE kPc[c]]
        /\ UNCHANGED <<K!database, kKey, kBuilder, kRead, kHit, kOvertaken>>
    BY <1>5 DEF K!Restart, K!Unset
  <2>2. kClock' \in 0 .. MaxChanges /\ kVersion <= kClock' + 1 /\ kConnection <= kClock' + 1
        /\ kConnection \in 1 .. kConnection /\ 0 \in 0 .. MaxChanges + 1
    <3>1. kConnection # 0
      BY DEF K!TypeOK
    <3> QED BY <1>1, <2>1, <3>1 DEF Clocked
  <2>3. kPc' \in [Lookups -> {"idle", "running", "done", "failed"}]
    BY <2>1 DEF K!TypeOK
  <2>4. K!TypeOK'
    BY <2>1, <2>2, <2>3 DEF K!TypeOK, K!database, K!Unset
  <2>5. \A c \in Lookups : kPc'[c] = "idle" => kPc[c] = "idle"
    BY <2>1
  <2> QED BY <2>1, <2>2, <2>4, <2>5 DEF Cached, Clocked, K!database
<1> QED BY <1>3, <1>4, <1>5

\* A call looks up what is of this stamp, or a change overtook.
LEMMA BeginStep ==
  ASSUME K!QueryCacheAssumption, KInv, NEW c \in Lookups, K!Begin(c)
  PROVE  /\ KInv'
         /\ kHit'[c] => kRead'[c].at = K!IndexStamp \/ kKey[c] \in kOvertaken'
         /\ \A d \in Lookups \ {c} : kHit'[d] = kHit[d]
<1> USE DEF KInv
<1>1. /\ kPc[c] = "idle" /\ K!EnsureValid
      /\ kSyncedStamp' = K!IndexStamp /\ kHeld' = kConnection
      /\ kBuilder' = [kBuilder EXCEPT ![c] = kConnection]
      /\ kHit' = [kHit EXCEPT ![c] = kKey[c] \in kKeys' /\ kRows'[kKey[c]] # <<>>]
      /\ kRead' = [kRead EXCEPT ![c] = kRows'[kKey[c]]]
      /\ kPc' = [kPc EXCEPT ![c] = IF kHit'[c] THEN "done" ELSE "running"]
      /\ UNCHANGED <<kVersion, kIndexedAt, kConnection, kKey, kClock>>
  BY DEF K!Begin
<1>2. K!IndexStamp \in 0 .. MaxChanges + 1
  BY Stamped
<1> DEFINE filled(r) == {k \in Keys : r[k] # <<>>}
<1>3. /\ kRows' \in [Keys -> K!Answers \cup {<<>>}] /\ kStoredStamp' \in 0 .. MaxChanges + 1
      /\ kKeys' \subseteq Keys /\ kOvertaken' \subseteq Keys /\ kStoredStamp' = K!IndexStamp
      /\ \A k \in Keys : kRows'[k] # <<>> => kRows'[k].at = kStoredStamp' \/ k \in kOvertaken'
      /\ K!IndexStamp # K!Unset => kKeys' = filled(kRows')
  <2>1. CASE K!ThisStamp
    <3>1. /\ kKeys' = IF K!Freshened = K!IndexStamp THEN kKeys ELSE filled(kRows)
          /\ UNCHANGED <<kRows, kStoredStamp, kOvertaken>> /\ kStoredStamp = K!IndexStamp
      BY <1>1, <2>1 DEF K!EnsureValid, K!ThisStamp
    <3>2. K!Freshened = K!IndexStamp /\ K!IndexStamp # K!Unset => kKeys = filled(kRows)
      BY DEF K!Freshened, K!TypeOK
    <3>3. kKeys' \subseteq Keys
      BY <3>1 DEF K!TypeOK
    <3>4. filled(kRows') = filled(kRows)
      BY <3>1
    <3> QED BY <1>2, <3>1, <3>2, <3>3, <3>4 DEF K!TypeOK, Cached
  <2>2. CASE ~K!ThisStamp
    <3>1. kKeys' = {} /\ kRows' = [k \in Keys |-> <<>>] /\ kStoredStamp' = K!IndexStamp
          /\ kOvertaken' = {}
      BY <1>1, <2>2 DEF K!EnsureValid, K!Empty
    <3> QED BY <1>2, <3>1
  <2> QED BY <2>1, <2>2
<1>4. /\ kKey[c] \in Keys /\ kConnection \in 1 .. MaxChanges + 1
      /\ kConnection \in 1 .. kConnection
  BY DEF K!TypeOK
<1>5. /\ kBuilder' \in [Lookups -> 1 .. MaxChanges + 1]
      /\ kHit' \in [Lookups -> BOOLEAN]
      /\ kHit'[c] = (kKey[c] \in kKeys' /\ kRows'[kKey[c]] # <<>>)
      /\ \A d \in Lookups \ {c} : kHit'[d] = kHit[d]
  BY <1>1, <1>4 DEF K!TypeOK
<1>6. /\ kPc' \in [Lookups -> {"idle", "running", "done", "failed"}] /\ kPc'[c] # "idle"
      /\ \A d \in Lookups \ {c} : kPc'[d] = kPc[d]
  BY <1>1 DEF K!TypeOK
<1>7. kRead' \in [Lookups -> K!Answers \cup {<<>>}] /\ kRead'[c] = kRows'[kKey[c]]
  <2>1. kRows'[kKey[c]] \in K!Answers \cup {<<>>}
    BY <1>3, <1>4
  <2> QED BY <1>1, <2>1 DEF K!TypeOK
<1>8. K!TypeOK'
  BY <1>1, <1>2, <1>3, <1>4, <1>5, <1>6, <1>7 DEF K!TypeOK
<1>9. Cached'
  BY <1>3, <1>5, <1>6 DEF Cached
<1>10. kHit'[c] => kRead'[c].at = K!IndexStamp \/ kKey[c] \in kOvertaken'
  BY <1>3, <1>4, <1>5, <1>7
<1> QED BY <1>1, <1>5, <1>8, <1>9, <1>10 DEF Clocked

\* A tool reads the graph as it is, and stores what it has read.
LEMMA AnswerStep ==
  ASSUME K!QueryCacheAssumption, KInv, NEW c \in Lookups, K!Read(c) \/ K!Store(c)
  PROVE  KInv' /\ kHit' = kHit
<1> USE DEF KInv
<1>1. CASE K!Read(c)
  <2>1. /\ \E a \in {K!Now, K!Busy} : kRead' = [kRead EXCEPT ![c] = a]
        /\ UNCHANGED <<K!database, K!memory, kPc, kKey, kBuilder, kHit, kOvertaken, kClock>>
    BY <1>1 DEF K!Read
  <2>2. K!Now \in K!Answers /\ K!Busy \in K!Answers
    BY Stamped DEF K!Now, K!Busy, K!Answers, K!TypeOK, K!QueryCacheAssumption
  <2>3. kRead' \in [Lookups -> K!Answers \cup {<<>>}]
    BY <2>1, <2>2 DEF K!TypeOK
  <2> QED BY <2>1, <2>3 DEF K!TypeOK, Cached, Clocked, K!database, K!memory
<1>2. CASE K!Store(c)
  <2>1. /\ kRead[c] # <<>> /\ kRead[c] \in K!Answers \cup {<<>>} /\ kKey[c] \in Keys
        /\ UNCHANGED <<kVersion, kIndexedAt, kStoredStamp, kConnection, kSyncedStamp, kHeld,
                       kKey, kBuilder, kRead, kHit, kClock>>
    BY <1>2 DEF K!Store, K!TypeOK
  <2>2. kPc' \in [Lookups -> {"idle", "running", "done", "failed"}]
        /\ \A d \in Lookups : kPc'[d] = "idle" => kPc[d] = "idle"
    BY <1>2 DEF K!Store, K!TypeOK
  <2>3. CASE kBuilder[c] = kHeld /\ kHeld = kConnection
    <3>1. /\ kRows' = [kRows EXCEPT ![kKey[c]] = kRead[c]] /\ kKeys' = kKeys \cup {kKey[c]}
          /\ kOvertaken' = IF kRead[c].at = kStoredStamp THEN kOvertaken \ {kKey[c]}
                                                        ELSE kOvertaken \cup {kKey[c]}
      BY <1>2, <2>3 DEF K!Store
    <3>2. kRows' \in [Keys -> K!Answers \cup {<<>>}]
      BY <2>1, <3>1 DEF K!TypeOK
    <3>3. \A k \in Keys : kRows'[k] = IF k = kKey[c] THEN kRead[c] ELSE kRows[k]
      BY <2>1, <3>1 DEF K!TypeOK
    <3>4. kSyncedStamp # K!Unset => kKeys' = {k \in Keys : kRows'[k] # <<>>}
      BY <2>1, <2>3, <3>1, <3>3 DEF K!TypeOK
    <3>5. K!TypeOK'
      BY <2>1, <2>2, <3>1, <3>2, <3>4 DEF K!TypeOK
    <3>6. Cached'
      BY <2>1, <2>2, <3>1, <3>3 DEF Cached
    <3> QED BY <2>1, <3>5, <3>6 DEF Clocked
  <2>4. CASE ~(kBuilder[c] = kHeld /\ kHeld = kConnection)
    <3>1. UNCHANGED <<kRows, kOvertaken>> /\ kKeys' \in {kKeys, kKeys \cup {kKey[c]}}
          /\ (kHeld = kConnection => kKeys' = kKeys)
      BY <1>2, <2>4 DEF K!Store
    <3> QED BY <2>1, <2>2, <3>1 DEF K!TypeOK, Cached, Clocked
  <2> QED BY <2>1, <2>3, <2>4
<1> QED BY <1>1, <1>2

\* All that the cache does keeps it right.
LEMMA CacheStep ==
  ASSUME K!QueryCacheAssumption, KInv, [K!Next]_(K!vars)
  PROVE  /\ KInv'
         /\ \A c \in Lookups : kPc[c] = "idle" /\ kHit'[c] =>
              kRead'[c].at = K!IndexStamp \/ kKey[c] \in kOvertaken'
<1>1. \A c \in Lookups : kPc[c] = "idle" => ~kHit[c]
  BY DEF KInv, Cached
<1>2. CASE (\E f \in Files : K!Reindex(f) \/ K!Remove(f)) \/ K!Replace \/ K!Restart
  <2>1. kHit' = kHit
    BY <1>2 DEF K!Reindex, K!Remove, K!Replace, K!Restart, K!calls
  <2> QED BY <1>1, <1>2, <2>1, ChangeStep
<1>3. ASSUME NEW c \in Lookups, K!Begin(c)
      PROVE  /\ KInv'
             /\ \A d \in Lookups : kPc[d] = "idle" /\ kHit'[d] =>
                  kRead'[d].at = K!IndexStamp \/ kKey[d] \in kOvertaken'
  <2>1. /\ KInv' /\ (kHit'[c] => kRead'[c].at = K!IndexStamp \/ kKey[c] \in kOvertaken')
        /\ \A d \in Lookups \ {c} : kHit'[d] = kHit[d]
    BY <1>3, BeginStep
  <2> QED BY <1>1, <2>1
<1>4. ASSUME NEW c \in Lookups, K!Read(c) \/ K!Store(c)
      PROVE  /\ KInv'
             /\ \A d \in Lookups : kPc[d] = "idle" /\ kHit'[d] =>
                  kRead'[d].at = K!IndexStamp \/ kKey[d] \in kOvertaken'
  <2>1. KInv' /\ kHit' = kHit
    BY <1>4, AnswerStep
  <2> QED BY <1>1, <2>1
<1>5. CASE UNCHANGED K!vars
  <2>1. kHit' = kHit
    BY <1>5 DEF K!vars, K!calls
  <2>2. KInv'
    BY <1>5 DEF K!vars, K!database, K!memory, K!calls, KInv, K!TypeOK, Cached, Clocked
  <2> QED BY <1>1, <2>1, <2>2
<1> QED BY <1>2, <1>3, <1>4, <1>5 DEF K!Next

\* The cache's state has its types; a synchronized set of keys has the rows'.
THEOREM CacheIsTyped ==
  ASSUME K!QueryCacheAssumption PROVE K!Spec => []K!TypeOK
<1>1. K!Init => KInv
  BY CacheInit
<1>2. KInv /\ [K!Next]_(K!vars) => KInv'
  BY CacheStep
<1>3. KInv => K!TypeOK
  BY DEF KInv
<1> QED BY <1>1, <1>2, <1>3, PTL DEF K!Spec

\* A lookup hits what is of this stamp, or what an overtaken call stored.
THEOREM HitsAreFresh ==
  ASSUME K!QueryCacheAssumption PROVE K!Spec => K!HitsAreOfThisStamp
<1>1. K!Init => KInv
  BY CacheInit
<1>2. KInv /\ [K!Next]_(K!vars) => KInv'
  BY CacheStep
<1>3. KInv /\ [K!Next]_(K!vars) => [\A c \in Lookups : kPc[c] = "idle" /\ kHit'[c] =>
                                 \/ kRead'[c].at = K!IndexStamp
                                 \/ kKey[c] \in kOvertaken']_(K!vars)
  BY CacheStep
<1> QED BY <1>1, <1>2, <1>3, PTL DEF K!Spec, K!HitsAreOfThisStamp

-----------------------------------------------------------------------------
(* The four of them.  A behaviour of the server is one of each, and while    *)
(* another is shown it rests.                                                *)

\* A behaviour of the server is one of its sessions.
LEMMA SessionsBehave == ServerSpec => Spec
<1>1. AllInit => Init
  BY DEF AllInit, Parts
<1>2. [AllNext]_allVars => [Next]_vars
  BY DEF AllNext, allVars
<1> QED BY <1>1, <1>2, PTL DEF ServerSpec, Spec

\* A behaviour of the server is one of its engine.
LEMMA EngineBehaves == ServerSpec => E!Spec
<1>1. AllInit => E!Init
  BY DEF AllInit, Parts
<1>2. [AllNext]_allVars => [E!Next]_(E!vars)
  BY DEF AllNext, allVars, eVars, E!vars, E!world, E!engine, E!handler, E!instances,
     E!session
<1> QED BY <1>1, <1>2, PTL DEF ServerSpec, E!Spec

\* A behaviour of the server is one of its cache.
LEMMA CacheBehaves == ServerSpec => K!Spec
<1>1. AllInit => K!Init
  BY DEF AllInit, Parts
<1>2. [AllNext]_allVars => [K!Next]_(K!vars)
  BY DEF AllNext, allVars, kVars, K!vars, K!database, K!memory, K!calls
<1> QED BY <1>1, <1>2, PTL DEF ServerSpec, K!Spec

\* A step of the pool is one of the module the theorems about it are in.
LEMMA PoolNext == Q!Next => PoolProofs!Next
BY Zenon DEF Q!MaxConcurrentSpawn, PoolProofs!MaxConcurrentSpawn, Q!Calls,
   PoolProofs!Calls, Q!NoCall, PoolProofs!NoCall, Q!Nothing, PoolProofs!Nothing,
   Q!Answers, PoolProofs!Answers, Q!Open, PoolProofs!Open, Q!Idle, PoolProofs!Idle,
   Q!Busy, PoolProofs!Busy, Q!Healthy, PoolProofs!Healthy, Q!Settle, PoolProofs!Settle,
   Q!Clean, PoolProofs!Clean, Q!Start, PoolProofs!Start, Q!Room, PoolProofs!Room,
   Q!SpawnOne, PoolProofs!SpawnOne, Q!Monus, PoolProofs!Monus, Q!Wanted,
   PoolProofs!Wanted, Q!Grown, PoolProofs!Grown, Q!OpenPlaces, PoolProofs!OpenPlaces,
   Q!Rank, PoolProofs!Rank, Q!Served, PoolProofs!Served, Q!Given, PoolProofs!Given,
   Q!To, PoolProofs!To, Q!Kept, PoolProofs!Kept, Q!InFlight, PoolProofs!InFlight,
   Q!Dispatched, PoolProofs!Dispatched, Q!Drained, PoolProofs!Drained, Q!BecomesPool,
   PoolProofs!BecomesPool, Q!EventsAfter, PoolProofs!EventsAfter, Q!Outstanding,
   PoolProofs!Outstanding, Q!Admitted, PoolProofs!Admitted, Q!Run, PoolProofs!Run,
   Q!Destroy, PoolProofs!Destroy, Q!Warm, PoolProofs!Warm, Q!OnReady,
   PoolProofs!OnReady, Q!OnResult, PoolProofs!OnResult, Q!Retried, PoolProofs!Retried,
   Q!Without, PoolProofs!Without, Q!Removed, PoolProofs!Removed, Q!OnWorkerGone,
   PoolProofs!OnWorkerGone, Q!OnSoftTimeout, PoolProofs!OnSoftTimeout, Q!OpenProject,
   PoolProofs!OpenProject, Q!Serve, PoolProofs!Serve, Q!Die, PoolProofs!Die, Q!Timers,
   PoolProofs!Timers, Q!Event, PoolProofs!Event, Q!Next, PoolProofs!Next, Q!Min,
   PoolProofs!Min, Q!Max, PoolProofs!Max, Q!Cardinality, PoolProofs!Cardinality

\* A behaviour of the server is one of its pool.
LEMMA PoolBehaves == ServerSpec => PoolProofs!Spec
<1>1. AllInit => PoolProofs!Init
  BY DEF AllInit, Parts, Q!Init, PoolProofs!Init, Q!Nothing, PoolProofs!Nothing, Q!NoCall,
         PoolProofs!NoCall, Q!Calls, PoolProofs!Calls
<1>2. [AllNext]_allVars => [PoolProofs!Next]_(PoolProofs!vars)
  BY PoolNext DEF AllNext, allVars, qVars, PoolProofs!vars
<1> QED BY <1>1, <1>2, PTL DEF ServerSpec, PoolProofs!Spec

\* What the theorems about the pool assume of the constants is assumed here.
LEMMA PoolAssumptions == PoolProofs!QueryPoolAssumption
BY ServerAssumption DEF Q!QueryPoolAssumption, PoolProofs!QueryPoolAssumption,
                        Q!IsFiniteSet, PoolProofs!IsFiniteSet

\* The sessions, the engine, the pool and the cache keep their types, for any clients,
\* calls, threads, files and keys.
THEOREM ServerIsTyped == ServerSpec => []TypesOK
<1>1. Spec => []TypeOK
  BY TypeCorrect
<1>2. E!Spec => [](E!TypeOK /\ E!ServedByTheOneThatIsWatched /\ E!NoPoolAfterStop)
  BY ServerAssumption, EngineIsSafe
<1>3. PoolProofs!Spec => []PoolProofs!IInv
  BY PoolAssumptions, PoolProofs!AlwaysBooked
<1>4. PoolProofs!IInv => Q!TypeOK
  BY DEF PoolProofs!IInv, PoolProofs!TypeOK, Q!TypeOK, Q!Calls, PoolProofs!Calls, Q!NoCall,
         PoolProofs!NoCall, Q!Answers, PoolProofs!Answers, Q!Cardinality, PoolProofs!Cardinality
<1>5. K!Spec => []K!TypeOK
  BY ServerAssumption, CacheIsTyped
<1>6. TypeOK /\ E!TypeOK /\ Q!TypeOK /\ K!TypeOK => TypesOK
  BY DEF TypesOK, Shown
<1> QED BY <1>1, <1>2, <1>3, <1>4, <1>5, <1>6, SessionsBehave, EngineBehaves, PoolBehaves,
        CacheBehaves, PTL

\* Each worker of the pool is in one place, every waiting call in one place and with
\* somebody who will turn to it, and neither the calls nor one that kills its workers cost
\* more than they may, for any numbers of threads, calls and retries.
THEOREM PoolIsRight == ServerSpec => []PoolServesWhatItAdmits
<1>1. PoolProofs!Spec => []PoolProofs!WorkersHaveOnePlace
  BY PoolAssumptions, PoolProofs!WorkersArePlaced
<1>2. PoolProofs!Spec => []PoolProofs!QueueIsServed
  BY PoolAssumptions, PoolProofs!CallsAreServed
<1>3. PoolProofs!Spec => [](PoolProofs!AdmissionHolds /\ PoolProofs!PoisonIsBounded)
  BY PoolAssumptions, PoolProofs!CallsAreBounded
<1>4. PoolProofs!WorkersHaveOnePlace => Q!WorkersHaveOnePlace
  BY Zenon DEF PoolProofs!WorkersHaveOnePlace, Q!WorkersHaveOnePlace, PoolProofs!Idle,
     Q!Idle, PoolProofs!Busy, Q!Busy, PoolProofs!NoCall, Q!NoCall, PoolProofs!Cardinality,
     Q!Cardinality
<1>5. PoolProofs!QueueIsServed => Q!QueueIsServed
  BY Zenon DEF PoolProofs!QueueIsServed, Q!QueueIsServed, PoolProofs!Healthy, Q!Healthy,
     PoolProofs!OpenPlaces, Q!OpenPlaces, PoolProofs!Open, Q!Open, PoolProofs!Busy, Q!Busy,
     PoolProofs!NoCall, Q!NoCall, PoolProofs!Calls, Q!Calls, PoolProofs!Cardinality,
     Q!Cardinality
<1>6. PoolProofs!AdmissionHolds /\ PoolProofs!PoisonIsBounded
      => Q!AdmissionHolds /\ Q!PoisonIsBounded
  BY Zenon DEF PoolProofs!AdmissionHolds, Q!AdmissionHolds, PoolProofs!PoisonIsBounded,
     Q!PoisonIsBounded, PoolProofs!Outstanding, Q!Outstanding, PoolProofs!OpenPlaces,
     Q!OpenPlaces, PoolProofs!Open, Q!Open, PoolProofs!Busy, Q!Busy, PoolProofs!NoCall,
     Q!NoCall, PoolProofs!Calls, Q!Calls, PoolProofs!Cardinality, Q!Cardinality
<1>7. /\ Q!WorkersHaveOnePlace /\ Q!QueueIsServed /\ Q!AdmissionHolds /\ Q!PoisonIsBounded
      => PoolServesWhatItAdmits
  BY DEF PoolServesWhatItAdmits, Shown
<1> QED BY <1>1, <1>2, <1>3, <1>4, <1>5, <1>6, <1>7, PoolBehaves, PTL

\* The instance that serves is the one open and watched unless a call opened it during an
\* open, and no pool starts after stop, for any numbers of sessions, calls and opens.
THEOREM EngineIsRight == ServerSpec => []EngineServesWhatItWatches
<1>1. E!Spec => [](E!TypeOK /\ E!ServedByTheOneThatIsWatched /\ E!NoPoolAfterStop)
  BY ServerAssumption, EngineIsSafe
<1>2. E!ServedByTheOneThatIsWatched /\ E!NoPoolAfterStop => EngineServesWhatItWatches
  BY DEF EngineServesWhatItWatches, Shown
<1> QED BY <1>1, <1>2, EngineBehaves, PTL

\* A hit was computed under the stamp it is served with, unless a call that a change
\* overtook stored it, for any numbers of calls, keys, files and changes.
THEOREM CacheIsRight == ServerSpec => HitsAreOfThisStamp
<1>1. K!Spec => K!HitsAreOfThisStamp
  BY ServerAssumption, HitsAreFresh
<1> QED BY <1>1, CacheBehaves DEF HitsAreOfThisStamp

\* What holds of the sessions alone holds of them in the server.
THEOREM SessionsAreRight == ServerSpec => []IdleWatched /\ LiveSessionsAreKept
<1>1. Spec => []IdleWatched
  BY NeverUnwatched
<1>2. Spec => LiveSessionsAreKept
  BY QuietSessionsSurvive
<1> QED BY <1>1, <1>2, SessionsBehave
=============================================================================
