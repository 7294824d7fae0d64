------------------------------ MODULE QueryPool ------------------------------
(***************************************************************************)
(* The pool of reader threads that serve the daemon's read tools,          *)
(* src/mcp/query-pool.ts, with the threads of src/mcp/query-worker.ts.  A  *)
(* thread opens the project, says whether it could, and answers the calls  *)
(* it is sent, in any time, or dies.  A call that waits too long is given  *)
(* an answer by its soft timer; the thread that works for it goes on.      *)
(***************************************************************************)
EXTENDS Naturals, Sequences, FiniteSets, FiniteSetsExt

CONSTANTS
  MaxCalls,      \* bound of the model: calls of run
  Threads,       \* identities of threads; a clean one is used again
  MaxSize,       \* maxSize
  MaxRetries,    \* maxRetries
  CrashBudget    \* CRASH_BUDGET

MaxConcurrentSpawn == 2

QueryPoolAssumption ==
  /\ MaxCalls \in Nat /\ MaxSize \in Nat \ {0} /\ MaxRetries \in Nat /\ CrashBudget \in Nat
  /\ IsFiniteSet(Threads) /\ Threads # {}

Calls == 1 .. MaxCalls   \* by their ids
NoCall == 0

VARIABLES
  pool,      \* the fields of the QueryPool and of its jobs, see TypeOK
  thread,    \* what each thread does
  opened,    \* threads that could open the project
  mail,      \* a message it has posted
  gone,      \* `error' and `exit' events still to be emitted for it
  killed     \* history: the threads that died with a call in flight

vars == <<pool, thread, opened, mail, gone, killed>>

Nothing == [kind |-> "none"]
Answers == {"result", "unopened", "busy", "crashed", "shutdown"}
Open(p, c) == p.outcome[c] = "open"
Idle(p) == {p.idle[i] : i \in 1 .. Len(p.idle)}
Busy(p) == {w \in Threads : p.inflight[w] # NoCall}

\* The types of the state.
TypeOK ==
  /\ pool.idle \in Seq(Threads) /\ pool.queue \in Seq(Calls)
  /\ pool.inflight \in [Threads -> Calls \cup {NoCall}]
  /\ pool.workers \subseteq Threads /\ pool.pending \subseteq Threads
  /\ pool.crashes \in Nat /\ pool.destroyed \in BOOLEAN
  /\ pool.outcome \in [Calls -> {"none", "open"} \cup Answers]
  /\ pool.retries \in [Calls -> 0 .. MaxRetries]
  /\ thread \in [Threads -> {"none", "loading", "waiting", "serving", "dead"}]
  /\ opened \subseteq Threads
  /\ mail \in [Threads -> [kind : {"none", "ready", "result"}]]
  /\ gone \in [Threads -> 0 .. 2]
  /\ killed \in [Calls -> 0 .. MaxRetries + 1]
  /\ Cardinality(pool.workers) <= MaxSize

\* The constructor has spawned one eager worker.
Init ==
  LET first == CHOOSE w \in Threads : TRUE IN
  /\ pool = [idle |-> <<>>, queue |-> <<>>, inflight |-> [w \in Threads |-> NoCall],
             workers |-> {first}, pending |-> {first}, crashes |-> 0, destroyed |-> FALSE,
             outcome |-> [c \in Calls |-> "none"], retries |-> [c \in Calls |-> 0]]
  /\ thread = [w \in Threads |-> IF w = first THEN "loading" ELSE "none"]
  /\ opened = {}
  /\ mail = [w \in Threads |-> Nothing]
  /\ gone = [w \in Threads |-> 0]
  /\ killed = [c \in Calls |-> 0]

-----------------------------------------------------------------------------
(* The methods of the pool, as functions of its fields.                    *)

Healthy(p) == ~p.destroyed /\ p.crashes < CrashBudget

\* settle, after which the soft timer is cleared.
Settle(p, c, answer) == IF Open(p, c) THEN [p EXCEPT !.outcome[c] = answer] ELSE p

\* n new threads, with identities nothing is left of, and constructor calls
\* that threw: those are charged as crashes.
Clean == {w \in Threads : thread[w] \in {"none", "dead"} /\ mail[w] = Nothing /\ gone[w] = 0}
Start(p, n, threw) ==
  LET W == CHOOSE V \in SUBSET (Clean \ p.workers) : Cardinality(V) = n
  IN [p EXCEPT !.workers = @ \cup W, !.pending = @ \cup W, !.crashes = @ + threw]
Room(p) == Cardinality(Clean \ p.workers)

\* spawnOne, as onWorkerGone calls it.
SpawnOne(p) ==
  IF ~Healthy(p) \/ Cardinality(p.workers) >= MaxSize THEN {p}
  ELSE {Start(p, 0, 1)} \cup {Start(p, 1, 0) : full \in {r \in {Room(p)} : r > 0}}

\* The first loop of drain calls spawnOne until there are as many workers as it
\* wants, or the constructor has failed it up to the crash budget.
Monus(a, b) == IF a > b THEN a - b ELSE 0
Wanted(p) ==
  Min({Monus(Len(p.queue), Len(p.idle) + Cardinality(p.pending)),
       Monus(MaxSize, Cardinality(p.workers)),
       Monus(MaxConcurrentSpawn, Cardinality(p.pending))})
Grown(p) ==
  LET left == CrashBudget - p.crashes
  IN IF Wanted(p) = 0 \/ ~Healthy(p) THEN {p}
     ELSE {Start(p, Wanted(p), threw) :
             threw \in {t \in 0 .. left - 1 : Wanted(p) <= Room(p)}}
          \cup {Start(p, n, left) : n \in {k \in 0 .. Wanted(p) - 1 : k <= Room(p)}}

\* The second loop of drain gives the first open call to the last idle worker, the
\* next to the one before, dropping those on its way that have been answered meanwhile.
OpenPlaces(p) == {i \in 1 .. Len(p.queue) : Open(p, p.queue[i])}
Rank(p, i) == Cardinality({h \in OpenPlaces(p) : h <= i})
Served(p) == Min({Len(p.idle), Cardinality(OpenPlaces(p))})
Given(p) == {i \in OpenPlaces(p) : Rank(p, i) <= Served(p)}
To(p, i) == p.idle[Len(p.idle) - Rank(p, i) + 1]
Kept(p) ==
  IF p.idle = <<>> THEN p.queue
  ELSE IF Served(p) < Len(p.idle) THEN <<>>
  ELSE SubSeq(p.queue, Max(Given(p)) + 1, Len(p.queue))
InFlight(p) ==
  [w \in Threads |->
    IF \E i \in Given(p) : To(p, i) = w
      THEN p.queue[CHOOSE i \in Given(p) : To(p, i) = w] ELSE p.inflight[w]]
Dispatched(p) ==
  [p EXCEPT !.idle = SubSeq(@, 1, Len(@) - Served(p)), !.queue = Kept(p),
            !.inflight = InFlight(p)]

Drained(p) == {Dispatched(q) : q \in Grown(p)}

\* What the pool does to its threads: it starts one, sends one a call, and
\* terminates those it removes.
BecomesPool(p) ==
  /\ pool' = p
  /\ thread' = [w \in Threads |->
       CASE w \in pool.workers \ p.workers -> "dead"
         [] w \in p.workers \ pool.workers -> "loading"
         [] /\ p.inflight[w] \notin {NoCall, pool.inflight[w]}
            /\ thread[w] # "dead" -> "serving"
         [] OTHER -> thread[w]]
  /\ opened' = opened \ (p.workers \ pool.workers)

EventsAfter(heard) ==
  gone' = [w \in Threads |->
    IF w \in pool.workers \ pool'.workers /\ thread[w] # "dead" THEN 1
    ELSE IF w \in heard THEN gone[w] - 1 ELSE gone[w]]

-----------------------------------------------------------------------------
(* The ToolHandler's calls.                                                *)

\* In flight, with the answered ones, or queued and open.
Outstanding(p) == Cardinality(Busy(p)) + Cardinality(OpenPlaces(p))

\* run, which ToolHandler calls while the pool is healthy.
AdmittedOneMore(p) == Outstanding(p) <= 2 * MaxSize
Admitted(p) == Outstanding(p) < 2 * MaxSize
Run(c) ==
  /\ Healthy(pool)
  /\ pool.outcome[c] = "none" /\ \A b \in 1 .. c - 1 : pool.outcome[b] # "none"
  /\ IF Admitted(pool)
       THEN \E p \in Drained([pool EXCEPT !.outcome[c] = "open", !.queue = Append(@, c)]) :
              BecomesPool(p)
       ELSE BecomesPool([pool EXCEPT !.outcome[c] = "busy"])
  /\ EventsAfter({}) /\ UNCHANGED <<mail, killed>>

Destroy ==
  /\ ~pool.destroyed
  /\ BecomesPool([pool EXCEPT
       !.destroyed = TRUE, !.workers = {}, !.pending = {}, !.idle = <<>>, !.queue = <<>>,
       !.inflight = [w \in Threads |-> NoCall],
       !.outcome = [c \in Calls |-> IF Open(pool, c) THEN "shutdown" ELSE @[c]]])
  /\ EventsAfter({}) /\ UNCHANGED <<mail, killed>>

-----------------------------------------------------------------------------
(* Events of the main thread.                                              *)

\* onMessage: 'ready'.  A worker that could not open the project is charged as
\* a crash and joins the idle ones like the others.
Warm(w) ==
  [pool EXCEPT !.pending = @ \ {w}, !.idle = Append(@, w),
               !.crashes = IF w \in opened THEN @ ELSE @ + 1]
OnReady(w) ==
  /\ mail[w].kind = "ready"
  /\ mail' = [mail EXCEPT ![w] = Nothing]
  /\ \E p \in Drained(Warm(w)) : BecomesPool(p)
  /\ EventsAfter({}) /\ UNCHANGED killed

\* onMessage: 'result', which a call that has been answered does without.
OnResult(w) ==
  LET c == pool.inflight[w]
      freed == [pool EXCEPT !.inflight[w] = NoCall, !.idle = Append(@, w)]
      answer == IF w \in opened THEN "result" ELSE "unopened"
  IN /\ mail[w].kind = "result"
     /\ mail' = [mail EXCEPT ![w] = Nothing]
     /\ \E p \in Drained(IF c = NoCall THEN freed ELSE Settle(freed, c, answer)) :
          BecomesPool(p)
     /\ EventsAfter({}) /\ UNCHANGED killed

\* The call a dead worker had in flight: to the head of the queue once more.
Retried(p, c) ==
  IF p.retries[c] < MaxRetries /\ Healthy(p)
    THEN [p EXCEPT !.retries[c] = @ + 1, !.queue = <<c>> \o @]
    ELSE Settle(p, c, "crashed")

\* The idle workers but w, which is at one place among them at most.
Without(idle, w) ==
  IF \A i \in 1 .. Len(idle) : idle[i] # w THEN idle
  ELSE LET at == CHOOSE i \in 1 .. Len(idle) : idle[i] = w
       IN SubSeq(idle, 1, at - 1) \o SubSeq(idle, at + 1, Len(idle))

Removed(w) ==
  [pool EXCEPT !.workers = @ \ {w}, !.pending = @ \ {w}, !.inflight[w] = NoCall,
               !.crashes = @ + 1, !.idle = Without(@, w)]

\* onWorkerGone, once for a worker whose `error' and `exit' both fire.
OnWorkerGone(w) ==
  /\ gone[w] > 0 /\ mail[w] = Nothing
  /\ LET c == pool.inflight[w]
     IN IF w \notin pool.workers
          THEN UNCHANGED <<pool, thread, opened, killed>>
          ELSE /\ \E q \in SpawnOne(Removed(w)) :
                  \E p \in Drained(IF c = NoCall THEN q ELSE Retried(q, c)) : BecomesPool(p)
               /\ killed' = IF c = NoCall THEN killed ELSE [killed EXCEPT ![c] = @ + 1]
  /\ EventsAfter({w}) /\ UNCHANGED mail

\* The soft timer of a call, armed by run until the call is settled.
OnSoftTimeout(c) ==
  /\ Open(pool, c)
  /\ pool' = Settle(pool, c, "busy")
  /\ UNCHANGED <<thread, opened, mail, gone, killed>>

-----------------------------------------------------------------------------
(* The threads.                                                            *)

\* The worker's module opens the project or fails to, and says so.
OpenProject(w) ==
  /\ thread[w] = "loading"
  /\ thread' = [thread EXCEPT ![w] = "waiting"]
  /\ mail' = [mail EXCEPT ![w] = [kind |-> "ready"]]
  /\ opened' \in {opened, opened \cup {w}}
  /\ UNCHANGED <<pool, gone, killed>>

\* A call need not end: nothing obliges this step.
Serve(w) ==
  /\ thread[w] = "serving" /\ mail[w] = Nothing
  /\ thread' = [thread EXCEPT ![w] = "waiting"]
  /\ mail' = [mail EXCEPT ![w] = [kind |-> "result"]]
  /\ UNCHANGED <<pool, opened, gone, killed>>

\* A thread dies, at a call or without; what it posted may die with it.
Die(w) ==
  /\ thread[w] \in {"loading", "waiting", "serving"}
  /\ thread' = [thread EXCEPT ![w] = "dead"]
  /\ mail' \in {mail, [mail EXCEPT ![w] = Nothing]}
  /\ gone' = [gone EXCEPT ![w] = 2]
  /\ UNCHANGED <<pool, opened, killed>>

-----------------------------------------------------------------------------
Timers == \E c \in Calls : OnSoftTimeout(c)
Event(w) == OnReady(w) \/ OnResult(w) \/ OnWorkerGone(w)
Next ==
  \/ \E c \in Calls : Run(c)
  \/ Destroy
  \/ Timers
  \/ \E w \in Threads : Event(w) \/ OpenProject(w) \/ Serve(w) \/ Die(w)

Spec == Init /\ [][Next]_vars

\* Armed timers fire; no thread owes anything.
Fairness == WF_vars(Timers)
FairSpec == Spec /\ Fairness

-----------------------------------------------------------------------------
(* What the pool promises.                                                 *)

\* Until the pool is destroyed a worker is in exactly one of the places the pool
\* keeps workers in, whatever answers first.
WorkersHaveOnePlace ==
  ~pool.destroyed =>
    /\ pool.workers = pool.pending \cup Idle(pool) \cup Busy(pool)
    /\ pool.pending \cap (Idle(pool) \cup Busy(pool)) = {}
    /\ Idle(pool) \cap Busy(pool) = {}
    /\ Cardinality(Idle(pool)) = Len(pool.idle)

\* While the pool is healthy an unanswered call that waits has somebody who
\* will call drain again, and no idle worker beside it; and an unanswered call
\* is in one place, a crash or an early answer in between or not.
QueueIsServed ==
  /\ Healthy(pool) /\ OpenPlaces(pool) # {} =>
       pool.idle = <<>> /\ (pool.pending # {} \/ Busy(pool) # {})
  /\ \A c \in Calls : Open(pool, c) =>
       Cardinality({i \in 1 .. Len(pool.queue) : pool.queue[i] = c})
         + Cardinality({w \in Threads : pool.inflight[w] = c}) = 1

\* One wave running and one waiting: retries and answered calls whose workers
\* go on never stack up more.
AdmissionHolds == Outstanding(pool) <= 2 * MaxSize

\* A call that kills its workers is given up after its retries: it costs the
\* pool no more threads than that.
PoisonIsBounded == \A c \in Calls : killed[c] <= pool.retries[c] + 1 /\ killed[c] <= MaxRetries + 1

\* Every call is answered, by a worker or by its timer, or by destroy: with
\* finitely many made, there comes a time when none is open.
EveryCallResolves == []<>(\A c \in Calls : ~Open(pool, c))
=============================================================================
