------------------------------ MODULE Sessions ------------------------------
(***************************************************************************)
(* The clients of the shared daemon and how it decides to go away:         *)
(* handleConnection, readClientHello, the reference count with its idle    *)
(* timer, the sweep of dead peers, the inactivity backstop and stop() of   *)
(* src/mcp/daemon.ts, over the SocketTransport of src/mcp/transport.ts.    *)
(*                                                                         *)
(* A client process makes one connection.  The promise of readClientHello  *)
(* is continued in a microtask, before the next event, so settling it and  *)
(* adopting the session are one step.                                      *)
(***************************************************************************)
EXTENDS FiniteSets

CONSTANTS
  Conns,      \* client connections
  Silent,     \* those that send no client-hello (legacy, direct clients)
  Lossy       \* those whose close the OS may never deliver (named pipes)

ASSUME SessionsAssumption == Silent \subseteq Conns /\ Lossy \subseteq Conns

VARIABLES
  phase,      \* of each connection at the daemon: see TypeOK
  alive,      \* clients whose process and host both run
  left,       \* connections whose client end is gone
  closing,    \* sockets with a 'close' event still to be emitted
  known,      \* clientPeers with pids
  clients,    \* sessions counted
  idleTimer,  \* armed
  quiet,      \* no inbound byte for maxIdleMs
  reason,     \* stop's, "none" while it has not been called
  exited

connVars == <<phase, alive, left, closing>>
vars == <<phase, alive, left, closing, known, clients, idleTimer, quiet,
          reason, exited>>

stopping == reason # "none"

\* The types of the state.  A "phantom" is a session whose socket had closed
\* before it was adopted; only clients that sent a hello have pids, and only
\* sessions are counted.
TypeOK ==
  /\ phase \in [Conns -> {"none", "hello", "session", "phantom", "closed"}]
  /\ alive \subseteq Conns /\ left \subseteq Conns
  /\ closing \subseteq left
  /\ known \subseteq Conns \ Silent
  /\ clients \subseteq {c \in Conns : phase[c] \in {"session", "phantom"}}
  /\ idleTimer \in BOOLEAN /\ quiet \in BOOLEAN /\ exited \in BOOLEAN
  /\ reason \in {"none", "signal", "idle timeout", "inactivity backstop"}

\* The daemon has just begun to listen: start() armed the idle timer.
Init ==
  /\ phase = [c \in Conns |-> "none"]
  /\ alive = Conns /\ left = {} /\ closing = {}
  /\ known = {} /\ clients = {}
  /\ idleTimer = TRUE /\ quiet = FALSE
  /\ reason = "none" /\ exited = FALSE

-----------------------------------------------------------------------------
(* The clients.                                                             *)

\* The server accepts; the daemon-hello is written and the client's awaited.
Connect(c) ==
  /\ ~stopping
  /\ phase[c] = "none" /\ c \notin left
  /\ phase' = [phase EXCEPT ![c] = "hello"]
  /\ UNCHANGED <<alive, left, closing, known, clients, idleTimer, quiet, reason, exited>>

\* The client closes its end or dies.  It may do so before the daemon, busy
\* as it was, has looked at it: a proxy waits 3 s for the daemon-hello, and one
\* of another version leaves as soon as it has read it.
Leave(c) ==
  /\ ~exited
  /\ c \notin left
  /\ left' = left \cup {c}
  /\ alive' \in {alive, alive \ {c}}
  /\ IF phase[c] \in {"hello", "session"}
       THEN \/ closing' = closing \cup {c}
            \/ c \in Lossy /\ c \notin alive' /\ UNCHANGED closing
       ELSE UNCHANGED closing
  /\ UNCHANGED <<phase, known, clients, idleTimer, quiet, reason, exited>>

\* The host dies first; the proxy will notice.
HostDies(c) ==
  /\ ~exited
  /\ c \in alive \ left
  /\ alive' = alive \ {c}
  /\ UNCHANGED <<phase, left, closing, known, clients, idleTimer, quiet, reason, exited>>

\* Inbound bytes feed lastActivityAt; the window then passes again.
Query(c) ==
  /\ phase[c] = "session" /\ c \notin left
  /\ quiet /\ quiet' = FALSE
  /\ UNCHANGED <<connVars, known, clients, idleTimer, reason, exited>>

WindowPasses ==
  /\ ~exited /\ ~quiet
  /\ quiet' = TRUE
  /\ UNCHANGED <<connVars, known, clients, idleTimer, reason, exited>>

-----------------------------------------------------------------------------
(* Adoption.                                                                *)

\* The session is counted and the idle timer disarmed, also while stopping.
Adopt(c, as) ==
  /\ phase[c] = "hello" /\ ~exited
  /\ phase' = [phase EXCEPT ![c] = as]
  /\ clients' = clients \cup {c}
  /\ idleTimer' = FALSE
  /\ UNCHANGED <<alive, left, quiet, reason, exited>>

HelloArrives(c) ==
  /\ c \notin Silent
  /\ Adopt(c, "session")
  /\ known' = known \cup {c}
  /\ UNCHANGED closing

\* Three seconds without one, or a first line that is something else.
NoHello(c) ==
  /\ Adopt(c, "session")
  /\ UNCHANGED <<known, closing>>

\* readClientHello's own 'close' listener settles it: by the time the transport
\* attaches its listener, the event has been emitted.
EarlyClose(c) ==
  /\ c \in closing
  /\ Adopt(c, "phantom")
  /\ closing' = closing \ {c}
  /\ UNCHANGED known

-----------------------------------------------------------------------------
(* The reference count.                                                     *)

\* Sessions go; the last one arms the idle timer, save in a stopping daemon.
NeverArm(gone) == UNCHANGED idleTimer
ArmIfLast(gone) ==
  idleTimer' = (idleTimer \/ (gone # {} /\ clients \subseteq gone /\ ~stopping))

ForgetsToDelete(gone) == UNCHANGED clients /\ ArmIfLast(gone)
DropClients(gone) ==
  /\ clients' = clients \ gone
  /\ ArmIfLast(gone)

\* The transport's 'close' handler.
SocketClosed(c) ==
  /\ phase[c] = "session" /\ c \in closing
  /\ phase' = [phase EXCEPT ![c] = "closed"]
  /\ closing' = closing \ {c}
  /\ DropClients({c} \cap clients)
  /\ UNCHANGED <<alive, left, known, quiet, reason, exited>>

\* Sessions whose peer is provably gone; no pid, no proof.
UnknownIsDead == clients \ (known \cap alive)
Dead == (clients \cap known) \ alive

\* session.stop() destroys the socket.
Destroy(cs) ==
  /\ phase' = [c \in Conns |-> IF c \in cs THEN "closed" ELSE phase[c]]
  /\ closing' = closing \ cs

Sweep ==
  /\ ~stopping
  /\ Dead # {}
  /\ Destroy(Dead)
  /\ DropClients(Dead)
  /\ UNCHANGED <<alive, left, known, quiet, reason, exited>>

-----------------------------------------------------------------------------
(* stop().                                                                  *)

Stop(why) ==
  /\ reason' = why
  /\ idleTimer' = FALSE
  /\ Destroy(clients)
  /\ clients' = {}
  /\ UNCHANGED <<alive, left, known, quiet, exited>>

Signal == ~stopping /\ Stop("signal")

\* With a client after all, the timer would be armed again.
IdleTimeout ==
  /\ idleTimer
  /\ clients = {}
  /\ Stop("idle timeout")

\* Only clients nobody can vouch for are left after a silent window.
ProvenGone(rest) == rest \cap known \cap alive = {} /\ rest \subseteq known
NobodyVouched(rest) == rest \cap known \cap alive = {}

Backstop ==
  /\ ~stopping /\ quiet
  /\ clients \ Dead # {}
  /\ NobodyVouched(clients \ Dead)
  /\ Stop("inactivity backstop")

\* The server has closed once every connection has: the process exits.
Exit ==
  /\ stopping /\ ~exited
  /\ \A c \in Conns : phase[c] \notin {"hello", "session"}
  /\ exited' = TRUE
  /\ UNCHANGED <<connVars, known, clients, idleTimer, quiet, reason>>

-----------------------------------------------------------------------------
Hello(c) == HelloArrives(c) \/ NoHello(c) \/ EarlyClose(c)
Event(c) == Hello(c) \/ SocketClosed(c)
Timers == IdleTimeout \/ Sweep \/ Backstop

Next ==
  \/ \E c \in Conns : Connect(c) \/ Leave(c) \/ HostDies(c) \/ Query(c) \/ Event(c)
  \/ WindowPasses \/ Timers \/ Signal \/ Exit

Spec == Init /\ [][Next]_vars

\* Timers fire, emitted events are handled and time passes.  Clients need not
\* do anything.
FairSpec ==
  /\ Spec
  /\ \A c \in Conns : WF_vars(Event(c))
  /\ WF_vars(IdleTimeout) /\ WF_vars(Sweep) /\ WF_vars(Backstop)
  /\ WF_vars(WindowPasses)

-----------------------------------------------------------------------------
(* Properties.                                                              *)

\* A daemon with no client has its idle timer armed, however its clients went:
\* closed, swept as dead, or closed before they were adopted (dropClient,
\* armIdleTimer).
IdleWatched == ~stopping /\ clients = {} => idleTimer

\* Nothing but a signal ends the session of a client that is connected and
\* runs, or stops the daemon under it; save the inactivity backstop, and that
\* only for a client whose pid the daemon never learned (backstopShouldExit:
\* "It must never reap a live-but-quiet session").
EndsSession(c) == phase'[c] = "closed" \/ (~stopping /\ stopping')
LiveSessionsAreKept ==
  [][\A c \in alive \ left :
       phase[c] = "session" /\ EndsSession(c) =>
         \/ reason' = "signal"
         \/ reason' = "inactivity backstop" /\ c \notin known]_vars

\* A daemon that all clients have left stops, even one that never saw some of
\* them close: the idle timer, the sweep and the backstop together leave no
\* case out (startLivenessTimers).
AbandonedDaemonStops == (left = Conns) ~> stopping

=============================================================================
