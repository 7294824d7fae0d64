------------------------------ MODULE ParsePool ------------------------------
(***************************************************************************)
(* The pool of tree-sitter threads of src/extraction/parse-pool.ts.  The   *)
(* main thread owns the fields of ParseWorkerPool; a thread loads its      *)
(* grammars, parses what it is sent and may hang or die at any moment, and *)
(* the main thread learns of it from messages and from `error' and `exit'  *)
(* events that lie in its queue until it turns to them.                    *)
(***************************************************************************)
EXTENDS Naturals, Sequences, FiniteSets, FiniteSetsExt

CONSTANTS
  MaxJobs,           \* bound of the model: calls of requestParse
  Threads,           \* identities of threads; a clean one is used again
  MaxSize,           \* maxSize
  RecycleInterval,   \* recycleInterval
  CrashBudget        \* CRASH_BUDGET

MaxConcurrentSpawn == 2

ParsePoolAssumption ==
  /\ MaxJobs \in Nat /\ MaxSize \in Nat \ {0} /\ RecycleInterval \in Nat \ {0}
  /\ CrashBudget \in Nat /\ IsFiniteSet(Threads) /\ Threads # {}

Jobs == 1 .. MaxJobs   \* by their ids
NoJob == 0

VARIABLES
  pool,      \* the fields of the ParseWorkerPool and of its jobs, see TypeOK
  thread,    \* what each thread does
  mail,      \* a message it has posted: "loaded", or the job it has parsed
  gone       \* `error' and `exit' events still to be emitted for it

vars == <<pool, thread, mail, gone>>

Nothing == [kind |-> "none"]
Queued(p) == {p.queue[i] : i \in 1 .. Len(p.queue)}
Idle(p) == {p.idle[i] : i \in 1 .. Len(p.idle)}
Busy(p) == {w \in Threads : p.inflight[w] # NoJob}

\* The types of the state.
TypeOK ==
  /\ pool.idle \in Seq(Threads) /\ pool.queue \in Seq(Jobs)
  /\ pool.inflight \in [Threads -> Jobs \cup {NoJob}]
  /\ pool.workers \subseteq Threads /\ pool.pending \subseteq Threads
  /\ pool.parses \in [Threads -> 0 .. RecycleInterval]
  /\ pool.crashes \in Nat /\ pool.destroyed \in BOOLEAN
  /\ pool.outcome \in [Jobs -> {"none", "open", "ok", "error"}]
  /\ pool.timer \in [Jobs -> {"off", "base", "hard"}]
  /\ thread \in [Threads -> {"none", "loading", "waiting", "parsing", "dead"}]
  /\ mail \in [Threads -> [kind : {"none", "loaded"}] \cup [kind : {"result"}, id : Jobs]]
  /\ gone \in [Threads -> 0 .. 2]
  /\ Cardinality(pool.workers) <= MaxSize

\* The constructor has spawned one eager worker.
Init ==
  LET first == CHOOSE w \in Threads : TRUE IN
    /\ pool = [idle |-> <<>>, queue |-> <<>>, inflight |-> [w \in Threads |-> NoJob],
               workers |-> {first}, pending |-> {first},
               parses |-> [w \in Threads |-> 0], crashes |-> 0, destroyed |-> FALSE,
               outcome |-> [j \in Jobs |-> "none"], timer |-> [j \in Jobs |-> "off"]]
    /\ thread = [w \in Threads |-> IF w = first THEN "loading" ELSE "none"]
    /\ mail = [w \in Threads |-> Nothing]
    /\ gone = [w \in Threads |-> 0]

-----------------------------------------------------------------------------
(* The methods of the pool, as functions of its fields.                    *)

Healthy(p) == ~p.destroyed /\ p.crashes < CrashBudget

Settle(p, j, result) ==
  IF p.outcome[j] = "open"
    THEN [p EXCEPT !.outcome[j] = result, !.timer[j] = "off"]
    ELSE p

\* The idle workers but w, which is at one place among them at most.
Without(idle, w) ==
  IF \A i \in 1 .. Len(idle) : idle[i] # w THEN idle
  ELSE LET at == CHOOSE i \in 1 .. Len(idle) : idle[i] = w
       IN SubSeq(idle, 1, at - 1) \o SubSeq(idle, at + 1, Len(idle))

\* removeWorker, with what the worker had in flight.
Removed(p, w) ==
  [p EXCEPT !.workers = @ \ {w}, !.pending = @ \ {w}, !.inflight[w] = NoJob,
            !.parses[w] = 0, !.idle = Without(@, w)]

\* n new threads, with identities nothing is left of, and constructor calls
\* that threw: those are charged as crashes.
Clean == {w \in Threads : thread[w] \in {"none", "dead"} /\ mail[w] = Nothing /\ gone[w] = 0}
Start(p, n, threw) ==
  LET W == CHOOSE V \in SUBSET (Clean \ p.workers) : Cardinality(V) = n
  IN [p EXCEPT !.workers = @ \cup W, !.pending = @ \cup W, !.crashes = @ + threw,
               !.parses = [w \in Threads |-> IF w \in W THEN 0 ELSE @[w]]]
Room(p) == Cardinality(Clean \ p.workers)

\* n calls of spawnOne, some of which throw, up to the crash budget.
Spawned(p, n) ==
  LET left == IF Healthy(p) THEN CrashBudget - p.crashes ELSE 0
  IN IF left = 0 THEN {p}
     ELSE {Start(p, k, n - k) : k \in {i \in 0 .. Min({n, Room(p)}) : n - i < left}}
          \cup {Start(p, k, left) : k \in {i \in 0 .. Room(p) : i + left <= n}}
SpawnOne(p) == IF Cardinality(p.workers) >= MaxSize THEN {p} ELSE Spawned(p, 1)

\* The first loop of drain calls spawnOne until there are as many workers as it
\* wants, or the constructor has failed it up to the crash budget.
Monus(a, b) == IF a > b THEN a - b ELSE 0
WantedUncapped(p) ==
  Min({Monus(Len(p.queue), Len(p.idle) + Cardinality(p.pending)),
       Monus(MaxConcurrentSpawn, Cardinality(p.pending))})
Wanted(p) ==
  Min({Monus(Len(p.queue), Len(p.idle) + Cardinality(p.pending)),
       Monus(MaxSize, Cardinality(p.workers)),
       Monus(MaxConcurrentSpawn, Cardinality(p.pending))})
GrownNever(p) == {p}
Grown(p) ==
  LET left == CrashBudget - p.crashes
  IN IF Wanted(p) = 0 \/ ~Healthy(p) THEN {p}
     ELSE {Start(p, Wanted(p), threw) :
             threw \in {t \in 0 .. left - 1 : Wanted(p) <= Room(p)}}
          \cup {Start(p, n, left) : n \in {k \in 0 .. Wanted(p) - 1 : k <= Room(p)}}

\* The second loop of drain gives the head of the queue to the last of the idle.
Dispatched(p) ==
  LET k == Min({Len(p.idle), Len(p.queue)})
      Rank(w) == CHOOSE i \in 1 .. k : p.idle[Len(p.idle) - i + 1] = w
      Taken == {p.idle[Len(p.idle) - i + 1] : i \in 1 .. k}
  IN [p EXCEPT !.idle = SubSeq(@, 1, Len(@) - k),
               !.queue = SubSeq(@, k + 1, Len(@)),
               !.inflight = [w \in Threads |-> IF w \in Taken THEN p.queue[Rank(w)] ELSE @[w]],
               !.parses = [w \in Threads |-> IF w \in Taken THEN @[w] + 1 ELSE @[w]],
               !.timer = [j \in Jobs |->
                 IF \E i \in 1 .. k : p.queue[i] = j THEN "base" ELSE @[j]]]

\* The end of drain fails what nothing can ever run.
Stranded(p) == p.idle = <<>> /\ p.pending = {} /\ p.workers = {}
Unstranded(p) ==
  IF ~Stranded(p) THEN p
  ELSE [p EXCEPT !.queue = <<>>,
                 !.outcome = [j \in Jobs |-> IF j \in Queued(p) THEN "error" ELSE @[j]]]

Drained(p) == {Unstranded(Dispatched(q)) : q \in Grown(p)}

\* What the pool does to its threads: it starts one, sends one a file, and
\* terminates each one it removes, whose exit code is not 0.
BecomesPool(p) ==
  /\ pool' = p
  /\ thread' = [w \in Threads |->
       CASE w \in pool.workers \ p.workers -> "dead"
         [] w \in p.workers \ pool.workers -> "loading"
         [] /\ p.inflight[w] \notin {NoJob, pool.inflight[w]}
            /\ thread[w] # "dead" -> "parsing"
         [] OTHER -> thread[w]]

Terminates(w) == w \in pool.workers \ pool'.workers /\ thread[w] # "dead"

\* The events that are left, of which the handler has taken those in `heard'.
EventsAfter(heard) ==
  gone' = [w \in Threads |->
    IF Terminates(w) THEN 1 ELSE IF w \in heard THEN gone[w] - 1 ELSE gone[w]]

-----------------------------------------------------------------------------
(* The orchestrator's calls.                                               *)

\* requestParse, which fails at once on a destroyed pool.
RequestParse(j) ==
  /\ pool.outcome[j] = "none" /\ \A i \in 1 .. j - 1 : pool.outcome[i] # "none"
  /\ IF pool.destroyed
       THEN BecomesPool([pool EXCEPT !.outcome[j] = "error"])
       ELSE \E p \in Drained([pool EXCEPT !.outcome[j] = "open", !.queue = Append(@, j)]) :
              BecomesPool(p)
  /\ EventsAfter({}) /\ UNCHANGED mail

\* recycleAll, called between the passes, when all that was asked is answered:
\* each idle worker is removed and replaced.
RecycleAll ==
  /\ \A j \in Jobs : pool.outcome[j] # "open"
  /\ pool.idle # <<>>
  /\ \E p \in Spawned([pool EXCEPT !.workers = @ \ Idle(pool), !.idle = <<>>,
                              !.parses = [w \in Threads |->
                                            IF w \in Idle(pool) THEN 0 ELSE @[w]]],
                      Len(pool.idle)) :
       BecomesPool(p)
  /\ EventsAfter({}) /\ UNCHANGED mail

\* destroy: after a run, or in the middle of one that is aborted.
Destroy ==
  /\ ~pool.destroyed
  /\ LET Left == Queued(pool) \cup {pool.inflight[w] : w \in Busy(pool)}
     IN BecomesPool([pool EXCEPT
          !.destroyed = TRUE, !.workers = {}, !.pending = {}, !.idle = <<>>, !.queue = <<>>,
          !.inflight = [w \in Threads |-> NoJob], !.parses = [w \in Threads |-> 0],
          !.outcome = [j \in Jobs |-> IF j \in Left THEN "error" ELSE @[j]],
          !.timer = [j \in Jobs |-> IF j \in Left THEN "off" ELSE @[j]]])
  /\ EventsAfter({}) /\ UNCHANGED mail

-----------------------------------------------------------------------------
(* Events of the main thread.                                              *)

\* onMessage: 'grammars-loaded', of a worker that may be gone by now.
OnLoaded(w) ==
  /\ mail[w].kind = "loaded"
  /\ mail' = [mail EXCEPT ![w] = Nothing]
  /\ IF w \notin pool.workers
       THEN UNCHANGED <<pool, thread, gone>>
       ELSE /\ \E p \in Drained([pool EXCEPT !.pending = @ \ {w}, !.idle = Append(@, w)]) :
                 BecomesPool(p)
            /\ EventsAfter({})

\* onMessage: 'parse-result'.  It is taken however late it comes, if its job is
\* still the one in flight; the worker is replaced once it has parsed enough.
Returned(p, w) ==
  IF p.parses[w] >= RecycleInterval
    THEN SpawnOne(Removed(p, w))
    ELSE {[p EXCEPT !.idle = Append(@, w)]}
OnResult(w) ==
  /\ mail[w].kind = "result"
  /\ mail' = [mail EXCEPT ![w] = Nothing]
  /\ IF pool.inflight[w] # mail[w].id
       THEN UNCHANGED <<pool, thread, gone>>
       ELSE /\ \E q \in Returned([pool EXCEPT !.inflight[w] = NoJob], w) :
               \E p \in Drained(Settle(q, mail[w].id, "ok")) : BecomesPool(p)
            /\ EventsAfter({})

\* onWorkerGone, once for a worker whose `error' and `exit' both fire.
OnWorkerGone(w) ==
  /\ gone[w] > 0 /\ mail[w] = Nothing
  /\ IF w \notin pool.workers
       THEN UNCHANGED <<pool, thread>>
       ELSE LET job == pool.inflight[w]
                rest == [Removed(pool, w) EXCEPT !.crashes = @ + 1]
                p1 == IF job = NoJob THEN rest ELSE Settle(rest, job, "error")
            IN \E q \in SpawnOne(p1) : \E p \in Drained(q) : BecomesPool(p)
  /\ EventsAfter({w}) /\ UNCHANGED mail

\* onTimeout only marks the job late: its result may lie in the queue.
OnTimeout(w) ==
  LET j == pool.inflight[w] IN
  /\ j # NoJob /\ pool.timer[j] = "base"
  /\ pool' = [pool EXCEPT !.timer[j] = "hard"]
  /\ UNCHANGED <<thread, mail, gone>>

\* onHardTimeout gives the worker up, which is not charged.
HardKillAndKeep(p, w) ==
  SpawnOne(Settle([p EXCEPT !.inflight[w] = NoJob], p.inflight[w], "error"))
HardKill(p, w) == SpawnOne(Settle(Removed(p, w), p.inflight[w], "error"))
OnHardTimeout(w) ==
  /\ pool.inflight[w] # NoJob /\ pool.timer[pool.inflight[w]] = "hard"
  /\ \E q \in HardKill(pool, w) : \E p \in Drained(q) : BecomesPool(p)
  /\ EventsAfter({}) /\ UNCHANGED mail

-----------------------------------------------------------------------------
(* The threads.                                                            *)

Load(w) ==
  /\ thread[w] = "loading"
  /\ thread' = [thread EXCEPT ![w] = "waiting"]
  /\ mail' = [mail EXCEPT ![w] = [kind |-> "loaded"]]
  /\ UNCHANGED <<pool, gone>>

\* A parse need not end: nothing obliges this step.
Parse(w) ==
  /\ thread[w] = "parsing" /\ mail[w] = Nothing
  /\ thread' = [thread EXCEPT ![w] = "waiting"]
  /\ mail' = [mail EXCEPT ![w] = [kind |-> "result", id |-> pool.inflight[w]]]
  /\ UNCHANGED <<pool, gone>>

\* A thread dies, in a parse or out of one; what it posted may die with it.
Die(w) ==
  /\ thread[w] \in {"loading", "waiting", "parsing"}
  /\ thread' = [thread EXCEPT ![w] = "dead"]
  /\ mail' \in {mail, [mail EXCEPT ![w] = Nothing]}
  /\ gone' = [gone EXCEPT ![w] = 2]
  /\ UNCHANGED pool

-----------------------------------------------------------------------------
Call == (\E j \in Jobs : RequestParse(j)) \/ RecycleAll \/ Destroy
Event(w) ==
  OnLoaded(w) \/ OnResult(w) \/ OnWorkerGone(w) \/ OnTimeout(w) \/ OnHardTimeout(w)
MainThread == \E w \in Threads : Event(w)
Next == Call \/ \E w \in Threads : Event(w) \/ Load(w) \/ Parse(w) \/ Die(w)

Spec == Init /\ [][Next]_vars

\* The main thread turns to its events and timers, and threads that load their
\* grammars end doing so or die.  Nobody has to call, nothing has to die and no
\* parse has to end.
Fairness ==
  /\ WF_vars(MainThread)
  /\ WF_vars(\E w \in Threads : Load(w))
FairSpec == Spec /\ Fairness

-----------------------------------------------------------------------------
(* What the pool promises.                                                 *)

\* A worker is in exactly one of the places the pool keeps workers in, across
\* recycling, crashes, kills and restarts.
WorkersHaveOnePlace ==
  /\ pool.workers = pool.pending \cup Idle(pool) \cup Busy(pool)
  /\ pool.pending \cap (Idle(pool) \cup Busy(pool)) = {}
  /\ Idle(pool) \cap Busy(pool) = {}
  /\ Cardinality(Idle(pool)) = Len(pool.idle)

\* An unanswered parse waits in the queue, once, or is in flight at one worker
\* that one of its two timers will take it from: no order of a late result, a
\* crash, a kill and a restart drops it.
Accounted ==
  \A j \in Jobs :
    LET at == {w \in Threads : pool.inflight[w] = j}
        places == {i \in 1 .. Len(pool.queue) : pool.queue[i] = j}
    IN /\ pool.outcome[j] = "open" <=> Cardinality(at) + Cardinality(places) = 1
       /\ pool.outcome[j] # "open" => at = {} /\ places = {}
       /\ at # {} <=> pool.timer[j] # "off"

\* Queued work is never left to itself: somebody who will call drain again is
\* loading or busy, and nobody sits idle beside it.
QueueIsServed ==
  pool.queue # <<>> =>
    pool.idle = <<>> /\ (pool.pending # {} \/ Busy(pool) # {})

\* A file that no worker was given fails only when the pool is destroyed or its
\* crash budget is spent.
QueuedWorkIsNotFailedEarly ==
  [][\A j \in Queued(pool) :
       pool'.outcome[j] = "error" => pool'.destroyed \/ pool'.crashes >= CrashBudget]_vars

\* Every parse comes back, from a thread that answers, dies or hangs: with
\* finitely many asked, there comes a time when none is open.
NoneIsOpen == \A j \in Jobs : pool.outcome[j] # "open"
=============================================================================
