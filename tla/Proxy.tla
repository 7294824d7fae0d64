-------------------------------- MODULE Proxy --------------------------------
(***************************************************************************)
(* The local-handshake proxy of src/mcp/proxy.ts, between an MCP host on   *)
(* stdio and the shared daemon of the project.  It answers the handshake   *)
(* itself, buffers what the host sends until the daemon connection has     *)
(* resolved, forwards it, gives every tool call a deadline of its own, and *)
(* serves in-process what a daemon that never came or went away leaves     *)
(* unanswered.                                                             *)
(*                                                                         *)
(* A message stands for its JSON-RPC id; the host uses each id once.       *)
(* Notifications and the probes the proxy answers from constants           *)
(* (tools/list and the like) touch no state and are left out.              *)
(***************************************************************************)
EXTENDS Naturals

CONSTANTS
  Tools,     \* tools/call requests of the host
  Others,    \* its other requests that go to the daemon: ping, unknown methods
  Inits,     \* its initialize request
  Answers    \* its responses to requests of the daemon (roots/list)

Tracked  == Tools \cup Others
Requests == Tracked \cup Inits
Messages == Requests \cup Answers

\* The kinds are told apart.
ProxyAssumption ==
  /\ Tools \cap (Others \cup Inits \cup Answers) = {}
  /\ Others \cap (Inits \cup Answers) = {}
  /\ Inits \cap Answers = {}

VARIABLES
  daemonStatus,     \* "connecting", "ready" or "failed"
  exited,           \* shutdown() has run
  asked,            \* requests of the daemon that have reached the host
  sent,             \* messages of the host that have arrived on stdin
  pending,          \* those buffered while connecting
  inflight,         \* requests forwarded to the daemon and not yet answered
  timers,           \* keys of toolDeadlineTimers
  timedOut,         \* timedOutToolIds
  atDaemon,         \* requests the daemon has not answered
  backlog,          \* buffered lines served one by one after a failed connect
  local,            \* tool calls under way in the in-process engine
  replies           \* how often each id was answered on stdout

routeVars == <<pending, inflight, atDaemon, backlog, local>>
vars == <<daemonStatus, exited, asked, sent, pending, inflight, timers,
          timedOut, atDaemon, backlog, local, replies>>

\* The types of the state: which kinds of message can be where.
TypeOK ==
  /\ daemonStatus \in {"connecting", "ready", "failed"}
  /\ exited \in BOOLEAN
  /\ asked \subseteq Answers
  /\ sent \subseteq Messages
  /\ pending \subseteq Messages /\ backlog \subseteq Messages
  /\ inflight \subseteq Tracked
  /\ timers \subseteq Tools /\ timedOut \subseteq Tools /\ local \subseteq Tools
  /\ atDaemon \subseteq Requests
  /\ replies \in [Messages -> Nat]

Init ==
  /\ daemonStatus = "connecting" /\ exited = FALSE
  /\ asked = {} /\ sent = {}
  /\ pending = {} /\ inflight = {} /\ atDaemon = {} /\ backlog = {} /\ local = {}
  /\ timers = {} /\ timedOut = {}
  /\ replies = [m \in Messages |-> 0]

-----------------------------------------------------------------------------
\* One response on stdout for each id in `ids'.
WriteClient(ids) ==
  replies' = [m \in Messages |-> IF m \in ids THEN replies[m] + 1 ELSE replies[m]]

\* trackInflight remembers every request but the initialize; a response of the
\* host has no method and is not tracked either.
TracksRequests(ids) == ids \cap Requests
TrackInflight(ids) == ids \cap Tracked

\* Written to the daemon's socket.
Forward(ids) ==
  /\ inflight' = inflight \cup TrackInflight(ids)
  /\ atDaemon' = atDaemon \cup (ids \cap Requests)

\* handleLocally awaits the engine for a tool call and answers anything else
\* that has an id at once, save an initialize: a ping, or an error.
Immediate(ids) == ids \cap (Others \cup Answers)

-----------------------------------------------------------------------------
(* The host.                                                                *)

\* A line arrives on stdin.  An initialize is answered here and now and then
\* routed like the rest; a tool call is first given its deadline.
Arrives(m) ==
  /\ ~exited
  /\ m \notin sent
  /\ m \in Answers => m \in asked
  /\ sent' = sent \cup {m}
  /\ timers' = timers \cup ({m} \cap Tools)
  /\ UNCHANGED <<daemonStatus, exited, asked, timedOut>>

Buffer(m) ==
  /\ daemonStatus = "connecting"
  /\ Arrives(m)
  /\ pending' = pending \cup {m}
  /\ WriteClient({m} \cap Inits)
  /\ UNCHANGED <<inflight, atDaemon, backlog, local>>

SendToDaemon(m) ==
  /\ daemonStatus = "ready"
  /\ Arrives(m)
  /\ Forward({m})
  /\ WriteClient({m} \cap Inits)
  /\ UNCHANGED <<pending, backlog, local>>

HandleLocally(m) ==
  /\ daemonStatus = "failed"
  /\ Arrives(m)
  /\ local' = local \cup ({m} \cap Tools)
  /\ WriteClient(({m} \cap Inits) \cup Immediate({m}))
  /\ UNCHANGED <<pending, inflight, atDaemon, backlog>>

\* stdin ends, the parent is gone, or no byte ever came.
Shutdown ==
  /\ ~exited
  /\ exited' = TRUE
  /\ timers' = {}
  /\ UNCHANGED <<daemonStatus, asked, sent, timedOut, routeVars, replies>>

-----------------------------------------------------------------------------
(* The daemon connection.                                                   *)

\* getDaemonSocket resolves with a live socket: the buffer is flushed to it.
FlushUntracked(ids) ==
  /\ atDaemon' = atDaemon \cup (ids \cap Requests)
  /\ UNCHANGED inflight
Flush(ids) == Forward(ids)

Connected ==
  /\ ~exited /\ daemonStatus = "connecting"
  /\ daemonStatus' = "ready"
  /\ Flush(pending)
  /\ pending' = {}
  /\ UNCHANGED <<exited, asked, sent, timers, timedOut, backlog, local, replies>>

\* It resolves without one: the buffered lines are served in-process.
Unavailable ==
  /\ ~exited /\ daemonStatus = "connecting"
  /\ daemonStatus' = "failed"
  /\ backlog' = pending
  /\ pending' = {}
  /\ UNCHANGED <<exited, asked, sent, inflight, timers, timedOut, atDaemon,
                 local, replies>>

\* The daemon answers.  Its answer is dropped if the host has had a Partial,
\* and if it is the one to the forwarded initialize.
NeverTimedOut(m) == FALSE
AlreadyTimedOut(m) == m \in timedOut

DaemonAnswers(m) ==
  /\ ~exited /\ daemonStatus = "ready"
  /\ m \in atDaemon
  /\ atDaemon' = atDaemon \ {m}
  /\ timers' = timers \ {m}
  /\ IF AlreadyTimedOut(m)
       THEN timedOut' = timedOut \ {m} /\ UNCHANGED <<inflight, replies>>
       ELSE /\ inflight' = inflight \ {m}
            /\ WriteClient({m} \ Inits)
            /\ UNCHANGED timedOut
  /\ UNCHANGED <<daemonStatus, exited, asked, sent, pending, backlog, local>>

\* A request of the daemon is relayed to the host.
DaemonAsks(a) ==
  /\ ~exited /\ daemonStatus = "ready"
  /\ a \notin asked
  /\ asked' = asked \cup {a}
  /\ UNCHANGED <<daemonStatus, exited, sent, timers, timedOut, routeVars, replies>>

\* onDaemonLost: what the dead daemon had not answered is served in-process.
OrphanedTools == inflight \cap Tools
Orphaned == inflight

DaemonLost ==
  /\ ~exited /\ daemonStatus = "ready"
  /\ daemonStatus' = "failed"
  /\ local' = local \cup (Orphaned \cap Tools)
  /\ WriteClient(Immediate(Orphaned))
  /\ inflight' = {} /\ atDaemon' = {}
  /\ UNCHANGED <<exited, asked, sent, pending, timers, timedOut, backlog>>

-----------------------------------------------------------------------------
(* The proxy's own timers and engine.                                       *)

\* The deadline of a call passes: a Partial is sent if it is in flight, and
\* its id is remembered so that the daemon's late answer is dropped.
ForgetsThePartial(t) == UNCHANGED replies
Partial(t) == WriteClient({t})

DeadlineTooLate(t) ==
  /\ ~exited
  /\ t \in timers \ inflight
  /\ timers' = timers \ {t}
  /\ UNCHANGED <<daemonStatus, exited, asked, sent, timedOut, routeVars, replies>>

DeadlineFires(t) ==
  /\ ~exited
  /\ t \in timers \cap inflight
  /\ timers' = timers \ {t}
  /\ inflight' = inflight \ {t}
  /\ timedOut' = timedOut \cup {t}
  /\ Partial(t)
  /\ UNCHANGED <<daemonStatus, exited, asked, sent, pending, atDaemon, backlog, local>>

\* The awaited engine returns or throws: an answer either way.
LocalAnswers(t) ==
  /\ ~exited
  /\ t \in local
  /\ local' = local \ {t}
  /\ WriteClient({t})
  /\ UNCHANGED <<daemonStatus, exited, asked, sent, pending, inflight, timers,
                 timedOut, atDaemon, backlog>>

BacklogAnswers(m) ==
  /\ ~exited
  /\ m \in backlog
  /\ backlog' = backlog \ {m}
  /\ WriteClient({m} \ Inits)
  /\ UNCHANGED <<daemonStatus, exited, asked, sent, pending, inflight, timers,
                 timedOut, atDaemon, local>>

-----------------------------------------------------------------------------
HostSends(m) == Buffer(m) \/ SendToDaemon(m) \/ HandleLocally(m)
Resolves == Connected \/ Unavailable
Deadline(t) == DeadlineTooLate(t) \/ DeadlineFires(t)

Next ==
  \/ \E m \in Messages : HostSends(m) \/ DaemonAnswers(m) \/ BacklogAnswers(m)
  \/ \E a \in Answers : DaemonAsks(a)
  \/ \E t \in Tools : Deadline(t) \/ LocalAnswers(t)
  \/ Resolves \/ DaemonLost \/ Shutdown

Spec == Init /\ [][Next]_vars

\* The connection attempt settles, timers fire and the engine settles.  The
\* daemon owes nobody anything: it may be wedged for ever without closing.
FairSpec ==
  /\ Spec
  /\ WF_vars(Resolves)
  /\ \A t \in Tools : WF_vars(Deadline(t)) /\ WF_vars(LocalAnswers(t))
  /\ \A m \in Messages : WF_vars(BacklogAnswers(m))

-----------------------------------------------------------------------------
(* What the proxy promises.                                                 *)

\* The host is never "confused by a second response" (241): each request gets
\* one answer at most, from the daemon, from the deadline or from the engine,
\* however a late answer, a timer and the loss of the daemon are ordered.
AtMostOneReply == \A m \in Requests : replies[m] <= 1

\* No request that has arrived drops out of the books: until it is answered it
\* is buffered, in flight, in the backlog or in the engine, so that whichever
\* of the daemon, the deadline and the fallback comes next still finds it.
NothingForgotten ==
  \A m \in Tracked \cap sent :
    replies[m] = 0 => m \in pending \cup inflight \cup backlog \cup local

\* Every tool call is answered, even by a daemon that wedges, unless the host
\* goes away or the call's deadline has passed before the daemon was given it.
EveryCallIsAnswered ==
  \A t \in Tools :
    t \in sent ~> (replies[t] = 1 \/ exited \/ t \in inflight \ timers)

\* When the daemon is gone no request hangs (#662): each that had arrived is
\* answered in-process, whatever its kind and wherever it was.
OrphansAreServed ==
  \A m \in Tracked :
    (m \in sent /\ daemonStatus = "failed") ~> (replies[m] = 1 \/ exited)

\* "daemon wedging must not become empty client -32001" (252): a call that the
\* daemon has and may never answer still has its deadline.
WedgeIsBounded == ~exited => inflight \cap Tools \subseteq timers
=============================================================================
