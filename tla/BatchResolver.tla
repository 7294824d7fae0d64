---------------------------- MODULE BatchResolver ----------------------------
(***************************************************************************)
(* How the pending references of a project are resolved:                   *)
(* resolveAndPersistBatched of src/resolution/index.ts, the pool of        *)
(* src/resolution/resolver-pool.ts that it fans batches out to, and the    *)
(* threads of src/resolution/resolver-worker.ts.  A batch is settled while *)
(* the one before it is still being cleaned up.  Pool or no pool, whoever  *)
(* answers first, the graph has to be the one a single thread would build. *)
(*                                                                         *)
(* What a reference resolves to is seen in what it was resolved against:   *)
(* an edge is <<row, the supertype edges its resolver saw>>.               *)
(***************************************************************************)
EXTENDS Naturals, Sequences, FiniteSets, FiniteSetsExt

CONSTANTS
  Rows,       \* pending references, 1 .. Rows in the order of their row ids
  BatchSize,  \* rows of a batch; one row to a chunk
  Workers,    \* threads of the pool
  MaxCrashes  \* bound of the model: processes that die in the loop

BatchResolverAssumption == Rows \in Nat /\ BatchSize \in Nat \ {0} /\ MaxCrashes \in Nat

Refs == 1 .. Rows
Main == "main"     \* the resolver of the main thread
Unread == {0}      \* nothing remembered of this batch

VARIABLES
  kind,      \* of each reference: "super" makes a supertype edge, "call" is bound
             \* by the supertypes known, "chain" only if there are any
  \* the database
  pending, parked, edges,
  \* the loop
  pc,
  batch, next,
  result,    \* the edges that settled the batch
  flight,    \* [mode, done, got, lost]: the batch that has begun
  deferred,  \* deferredChainRefs
  \* the pool
  pool,      \* poolEngageTried, pool and poolReady: untried, declined, booting, ready, gone
  failed,
  inbox,     \* chunks posted to each thread and not answered
  memo,      \* supertypeMemo of each resolver: what it remembers of this batch
  \* the model
  crashes

db == <<pending, parked, edges>>
poolVars == <<pool, failed, inbox>>
vars == <<kind, db, pc, batch, next, result, flight, deferred, poolVars, memo, crashes>>

NoFlight == [mode |-> "none", done |-> {}, got |-> {}, lost |-> FALSE]
Resolvers == Workers \cup {Main}
Idle == [w \in Workers |-> {}]

\* The types of the state.  Connections are recycled when no chunk is out.
TypeOK ==
  /\ kind \in [Refs -> {"super", "call", "chain"}]
  /\ pending \subseteq Refs /\ parked \subseteq Refs \ pending
  /\ edges \subseteq Refs \X SUBSET Refs /\ result \subseteq Refs \X SUBSET Refs
  /\ pc \in {"start", "read", "settle", "boundary", "persist", "conform", "done"}
  /\ batch \subseteq Refs /\ next \subseteq Refs
  /\ flight \in [mode : {"none", "seq", "pool"}, done : SUBSET Refs,
                 got : SUBSET (Refs \X SUBSET Refs), lost : BOOLEAN]
  /\ deferred \in Seq(Refs)
  /\ pool \in {"untried", "declined", "booting", "ready", "gone"} /\ failed \in BOOLEAN
  /\ memo \in [Resolvers -> (SUBSET Refs) \cup {Unread}]
  /\ inbox \in [Workers -> SUBSET Refs]
  /\ pc = "boundary" => inbox = Idle
  /\ crashes \in 0 .. MaxCrashes

\* tryCreate may decline: one core, little memory, no worker script.
Engaged == {"declined", "booting"}

Init ==
  /\ kind \in [Refs -> {"super", "call", "chain"}]
  /\ pending = Refs /\ parked = {} /\ edges = {}
  /\ pc = "start" /\ crashes = 0
  /\ batch = {} /\ next = {} /\ result = {} /\ flight = NoFlight /\ deferred = <<>>
  /\ pool \in Engaged \cup {"untried"} /\ failed = FALSE /\ inbox = Idle
  /\ memo = [a \in Resolvers |-> Unread]

-----------------------------------------------------------------------------
(* One resolver.                                                            *)

Supers == {e[1] : e \in {d \in edges : kind[d[1]] = "super"}}

\* getSupertypes remembers, and advanceSupertypeGeneration forgets at the head
\* of each list.
Advanced(m) == Unread
Seen(m) == IF m = Unread THEN Supers ELSE m
Asks(S) == \E r \in S : kind[r] # "super"
Answers(m, S) ==
  {<<r, IF kind[r] = "super" THEN {} ELSE Seen(m)>> :
     r \in {q \in S : kind[q] = "chain" => Seen(m) # {}}}

\* What a resolver defers, in order.
Deferrals(S, R) ==
  LET D == {r \in S : kind[r] = "chain" /\ r \notin {e[1] : e \in R}}
  IN CHOOSE s \in [1 .. Cardinality(D) -> D] :
       \A i, j \in 1 .. Cardinality(D) : i < j => s[i] < s[j]

\* resolveBatchYielding and resolveListForAdmission, of a list S by resolver a.
Resolved(a, S) == Answers(Advanced(memo[a]), S)
Resolves(a, S) ==
  LET m == Advanced(memo[a])
  IN memo' = [memo EXCEPT ![a] = IF Asks(S) THEN Seen(m) ELSE m]

-----------------------------------------------------------------------------
(* The pool.                                                                *)

\* resolveBatch hands each chunk to one of the least busy.
Dealt(S) ==
  {[w \in Workers |-> {r \in S : f[r] = w}] :
     f \in {g \in [S -> Workers] :
       \A v, w \in Workers :
         Cardinality({r \in S : g[r] = v}) <= Cardinality({r \in S : g[r] = w}) + 1}}

\* beginBatch: big batches go to a pool that is ready.
Begin(S) ==
  IF pool = "ready" /\ Cardinality(S) = BatchSize
    THEN /\ flight' = [NoFlight EXCEPT !.mode = "pool", !.lost = failed]
         /\ IF failed THEN UNCHANGED inbox ELSE inbox' \in Dealt(S)
    ELSE /\ flight' = IF S = {} THEN NoFlight ELSE [NoFlight EXCEPT !.mode = "seq"]
         /\ UNCHANGED inbox

\* All threads have opened the database and warmed their caches.
Boot ==
  /\ pool = "booting" /\ ~failed
  /\ pool' = "ready"
  /\ UNCHANGED <<kind, db, pc, batch, next, result, flight, deferred, failed, inbox, memo, crashes>>

\* A thread works through its chunks in order.
Answer(w) ==
  /\ inbox[w] # {}
  /\ LET r == Min(inbox[w])
         R == Resolved(w, {r})
     IN /\ Resolves(w, {r})
        /\ flight' = [flight EXCEPT !.done = @ \cup {r}, !.got = @ \cup R]
        /\ inbox' = [inbox EXCEPT ![w] = @ \ {r}]
  /\ UNCHANGED <<kind, db, pc, batch, next, result, deferred, pool, failed, crashes>>

\* It reports an error for a chunk.
ChunkFails(w) ==
  /\ inbox[w] # {}
  /\ inbox' = [inbox EXCEPT ![w] = @ \ {Min(@)}]
  /\ flight' = [flight EXCEPT !.lost = TRUE]
  /\ UNCHANGED <<kind, db, pc, batch, next, result, deferred, pool, failed, memo, crashes>>

\* failAll
Rejected == IF flight.mode = "pool" THEN [flight EXCEPT !.lost = TRUE] ELSE flight

\* A thread dies: all that wait for the pool are rejected.  While it boots, the
\* loop drops it, unless the database could not be opened: that is reported with
\* no request's id, and ready() then never settles.
Die ==
  /\ pool \in {"booting", "ready"} /\ ~failed
  /\ failed' = TRUE
  /\ pool' \in IF pool = "booting" THEN {"booting", "gone"} ELSE {"ready"}
  /\ inbox' = Idle
  /\ flight' = Rejected
  /\ UNCHANGED <<kind, db, pc, batch, next, result, deferred, memo, crashes>>

-----------------------------------------------------------------------------
(* The loop.                                                                *)

\* getUnresolvedReferencesBatchAfter
BatchAfter(r) ==
  LET Later == {q \in pending : q > r}
  IN {q \in Later : Cardinality({p \in Later : p <= q}) <= BatchSize}

Start ==
  /\ pc = "start"
  /\ batch' = BatchAfter(0)
  /\ Begin(BatchAfter(0))
  /\ pc' = IF pending = {} THEN "conform" ELSE "read"
  /\ UNCHANGED <<kind, db, next, result, deferred, pool, failed, memo, crashes>>

Prefetch ==
  /\ pc = "read"
  /\ next' = BatchAfter(Max(batch))
  /\ pc' = "settle"
  /\ UNCHANGED <<kind, db, batch, result, flight, deferred, poolVars, memo, crashes>>

\* The threads have answered: their deferrals are appended here, in order.
Admit ==
  /\ pc = "settle" /\ flight.mode = "pool" /\ ~flight.lost /\ flight.done = batch
  /\ result' = flight.got
  /\ deferred' = deferred \o Deferrals(batch, flight.got)
  /\ flight' = NoFlight /\ pc' = "boundary"
  /\ UNCHANGED <<kind, db, batch, next, poolVars, memo, crashes>>

\* destroy: the threads stop, whatever they still had.
Destroyed == inbox' = Idle

\* No pool, or one that failed and is given up: the main thread resolves all of it.
Sequential ==
  /\ pc = "settle"
  /\ flight.mode = "seq" \/ flight.lost
  /\ Resolves(Main, batch)
  /\ result' = Resolved(Main, batch)
  /\ deferred' = deferred \o Deferrals(batch, Resolved(Main, batch))
  /\ IF flight.lost
       THEN pool' = "gone" /\ Destroyed
       ELSE UNCHANGED <<pool, inbox>>
  /\ flight' = NoFlight /\ pc' = "boundary"
  /\ UNCHANGED <<kind, db, batch, next, failed, crashes>>

\* Between two batches: the pool may be engaged, and connections are recycled,
\* which may fail.
Boundary ==
  /\ pc = "boundary"
  /\ pool' \in CASE pool = "untried" -> Engaged \cup {"untried"}
                 [] pool = "ready" -> {"ready", "gone"}
                 [] OTHER -> {pool}
  /\ pc' = "persist"
  /\ UNCHANGED <<kind, db, batch, next, result, flight, deferred, failed, inbox, memo, crashes>>

\* Edges in transactions of some, and yields in between.
InsertEdges ==
  /\ pc = "persist" /\ result \ edges # {}
  /\ \E e \in result \ edges :
       /\ \A d \in result \ edges : e[1] <= d[1]
       /\ edges' = edges \cup {e}
  /\ UNCHANGED <<kind, pending, parked, pc, batch, next, result, flight, deferred,
                 poolVars, memo, crashes>>

\* The next batch begins when they are all in.
AllIn == result \subseteq edges
BeginNext ==
  /\ pc = "persist" /\ flight = NoFlight /\ next # {}
  /\ AllIn
  /\ Begin(next)
  /\ UNCHANGED <<kind, db, pc, batch, next, result, deferred, pool, failed, memo, crashes>>

\* Then the rows go, or are marked failed.
BeforeTheirEdges == pc = "persist"
EdgesFirst == pc = "persist" /\ result \subseteq edges /\ (flight # NoFlight \/ next = {})
CleanUp(r) ==
  /\ EdgesFirst
  /\ r \in batch \cap pending /\ r = Min(batch \cap pending)
  /\ pending' = pending \ {r}
  /\ parked' = IF r \in {e[1] : e \in result} THEN parked ELSE parked \cup {r}
  /\ UNCHANGED <<kind, edges, pc, batch, next, result, flight, deferred, poolVars, memo, crashes>>

\* The count of what was removed shows that the loop got on.
GoesOn == next # {}
Advance ==
  /\ EdgesFirst /\ batch \cap pending = {}
  /\ batch' = next /\ next' = {} /\ result' = {}
  /\ pc' = IF GoesOn THEN "read" ELSE "conform"
  /\ UNCHANGED <<kind, db, flight, deferred, poolVars, memo, crashes>>

\* resolveChainedCallsViaConformance: clearCaches, and once more with the
\* supertypes of the whole graph.
Conform ==
  /\ pc = "conform"
  /\ edges' = edges \cup {<<r, Supers>> : r \in {q \in Range(deferred) : Supers # {}}}
  /\ deferred' = <<>> /\ pc' = "done" /\ pool' = "gone" /\ inbox' = Idle
  /\ memo' = [memo EXCEPT ![Main] = Unread]
  /\ UNCHANGED <<kind, pending, parked, batch, next, result, flight, failed, crashes>>

\* The process dies: the next run takes up what is pending.
Crash ==
  /\ pc \notin {"start", "done"}
  /\ crashes < MaxCrashes /\ crashes' = crashes + 1
  /\ pc' = "start"
  /\ batch' = {} /\ next' = {} /\ result' = {} /\ flight' = NoFlight /\ deferred' = <<>>
  /\ pool' \in Engaged \cup {"untried"} /\ failed' = FALSE /\ inbox' = Idle
  /\ memo' = [a \in Resolvers |-> Unread]
  /\ UNCHANGED <<kind, db>>

-----------------------------------------------------------------------------
Loop ==
  \/ Start \/ Prefetch \/ Admit \/ Sequential \/ Boundary \/ InsertEdges \/ BeginNext
  \/ (\E r \in Refs : CleanUp(r)) \/ Advance \/ Conform
Threads == \E w \in Workers : Answer(w)
Next == Loop \/ Threads \/ Boot \/ Die \/ Crash \/ (\E w \in Workers : ChunkFails(w))

Spec == Init /\ [][Next]_vars
\* Promises settle, and a thread with a chunk answers unless it fails.
Progress == Loop \/ Threads
FairSpec == Spec /\ WF_vars(Progress)

-----------------------------------------------------------------------------
(* What the code promises.                                                  *)

\* The one-threaded answer: the supertypes of the batches before, and for a
\* chain that found none, those of the whole project.
AllSupers == {r \in Refs : kind[r] = "super"}
Before(r) == {s \in AllSupers : (s - 1) \div BatchSize < (r - 1) \div BatchSize}
Expected ==
  {<<r, CASE kind[r] = "super" -> {}
          [] kind[r] = "chain" /\ Before(r) = {} -> AllSupers
          [] OTHER -> Before(r)>> :
     r \in {q \in Refs : kind[q] = "chain" => AllSupers # {}}}

\* Whoever resolved it, and whatever failed, every edge is the one a single
\* thread would have made, and in the end they are all there.
SameGraphWhoeverResolves ==
  crashes = 0 =>
    /\ edges \subseteq Expected
    /\ pc = "done" => edges = Expected

\* The post-pass has its references in their order, each once.
DeferredInOrder == \A i, j \in 1 .. Len(deferred) : i < j => deferred[i] < deferred[j]

\* A row leaves the queue after its edge is in: nothing that a death interrupts
\* is lost to the next run.
RowsOutliveTheirEdges ==
  \A r \in Refs \ pending : r \in parked \/ \E e \in edges : e[1] = r

\* The loop leaves nothing unattempted, though a batch resolves nothing.
NothingIsAbandoned == pc \in {"conform", "done"} => pending = {}

\* It ends.
ResolutionIsOver == pc = "done"
=============================================================================
