--------------------------- MODULE ParsePoolProofs ---------------------------
(* Theorems about the parse pool, for any threads, sizes and budgets.       *)
EXTENDS ParsePool, FiniteSetTheorems, TLAPS

\* The fields of the pool.
Pools ==
  [idle : Seq(Threads), queue : Seq(Jobs), inflight : [Threads -> Jobs \cup {NoJob}],
   workers : SUBSET Threads, pending : SUBSET Threads,
   parses : [Threads -> 0 .. RecycleInterval], crashes : Nat, destroyed : BOOLEAN,
   outcome : [Jobs -> {"none", "open", "ok", "error"}],
   timer : [Jobs -> {"off", "base", "hard"}]]

\* Where a parse can be: at a place of the queue, or with a worker.
Waits(p, j) == \E i \in 1 .. Len(p.queue) : p.queue[i] = j
Handed(p, j) == \E w \in Threads : p.inflight[w] = j
Distinct(s) == \A i, j \in 1 .. Len(s) : s[i] = s[j] => i = j

\* Each worker is in one place, and those that do not parse may parse once more.
Stationed(p) ==
  /\ p.workers = p.pending \cup Idle(p) \cup Busy(p)
  /\ p.pending \cap (Idle(p) \cup Busy(p)) = {} /\ Idle(p) \cap Busy(p) = {}
  /\ Distinct(p.idle)
  /\ \A w \in Threads \ Busy(p) : p.parses[w] < RecycleInterval

\* Each open parse is in one place, and its timer runs when a worker has it.
Placed(p) ==
  /\ Distinct(p.queue)
  /\ \A v, w \in Threads : p.inflight[v] = p.inflight[w] /\ p.inflight[v] # NoJob => v = w
  /\ \A j \in Jobs : ~(Waits(p, j) /\ Handed(p, j))
  /\ \A j \in Jobs : p.outcome[j] = "open" <=> Waits(p, j) \/ Handed(p, j)
  /\ \A j \in Jobs : p.timer[j] # "off" <=> Handed(p, j)

\* The state of the pool between two events, whatever it is still to be drained of.
Booked(p) ==
  /\ p \in Pools /\ IsFiniteSet(p.workers) /\ Cardinality(p.workers) <= MaxSize
  /\ Stationed(p) /\ Placed(p)
  /\ p.destroyed => p.workers = {} /\ p.queue = <<>>

\* Who waits does so because no worker is idle and one at least works or starts.
Fed(p) == p.queue # <<>> => p.idle = <<>> /\ p.workers # {}

\* What a thread does, and what it has posted, tell where the pool has it.
Reported ==
  \A w \in Threads :
    /\ mail[w].kind = "loaded" /\ w \in pool.workers => w \in pool.pending
    /\ mail[w].kind = "result" /\ w \in pool.workers => w \in Busy(pool)
    /\ thread[w] = "loading" => w \in pool.pending /\ mail[w] = Nothing
    /\ thread[w] = "parsing" => w \in Busy(pool) /\ mail[w] = Nothing

\* A worker has a thread; of one that has died the main thread is still to hear.
Present ==
  \A w \in pool.workers : thread[w] # "none" /\ (thread[w] = "dead" => gone[w] > 0)

\* Inductive for any value of the constants.
IInv == TypeOK /\ Booked(pool) /\ Fed(pool) /\ Reported /\ Present

\* What QueuedWorkIsNotFailedEarly says of a step.
FailsNoneEarly ==
  \A j \in Queued(pool) :
    pool'.outcome[j] = "error" => pool'.destroyed \/ pool'.crashes >= CrashBudget
-----------------------------------------------------------------------------
(* Small facts about numbers and finite sets.                               *)

\* The lesser of two numbers.
LEMMA MinOfTwo ==
  ASSUME NEW a \in Nat, NEW b \in Nat
  PROVE  Min({a, b}) = IF a <= b THEN a ELSE b
<1>1. CASE a <= b
  BY <1>1 DEF Min
<1>2. CASE ~(a <= b)
  BY <1>2 DEF Min
<1> QED BY <1>1, <1>2

\* The least of three numbers.
LEMMA MinOfThree ==
  ASSUME NEW a \in Nat, NEW b \in Nat, NEW c \in Nat
  PROVE  LET m == Min({a, b, c})
         IN  m \in {a, b, c} /\ m <= a /\ m <= b /\ m <= c
<1>1. \E m \in {a, b, c} : \A n \in {a, b, c} : m <= n
  OBVIOUS
<1> QED BY <1>1 DEF Min

\* A finite set has subsets of every size up to its own.
LEMMA SubsetOfSize ==
  ASSUME NEW S, IsFiniteSet(S), NEW n \in Nat, n <= Cardinality(S)
  PROVE  \E V \in SUBSET S : Cardinality(V) = n
<1>1. Cardinality(S) \in Nat /\ ExistsBijection(1 .. Cardinality(S), S)
  BY FS_CardinalityType
<1>2. PICK f \in Bijection(1 .. Cardinality(S), S) : TRUE
  BY <1>1 DEF ExistsBijection
<1> DEFINE V == {f[i] : i \in 1 .. n}
<1>3. 1 .. n \subseteq 1 .. Cardinality(S)
  BY <1>1
<1>4. V \in SUBSET S
  BY <1>2, <1>3 DEF Bijection, Injection
<1>5. [i \in 1 .. n |-> f[i]] \in Surjection(1 .. n, V)
  BY DEF Surjection
<1>6. [i \in 1 .. n |-> f[i]] \in Injection(1 .. n, V)
  BY <1>2, <1>3 DEF Bijection, Injection, IsInjective
<1>7. IsFiniteSet(1 .. n) /\ Cardinality(1 .. n) = n
  <2>1. 1 \in Int /\ n \in Int /\ (IF 1 > n THEN 0 ELSE n - 1 + 1) = n
    OBVIOUS
  <2> QED BY <2>1, FS_Interval
<1>8. Cardinality(V) = n
  <2> HIDE DEF V
  <2> QED BY <1>5, <1>6, <1>7, FS_Surjection
<1> QED BY <1>4, <1>8

-----------------------------------------------------------------------------
(* What drain does.                                                         *)

\* A pool p in which k parses have been given to idle workers is q.
GivesOut(p, q, k) ==
  LET m == Len(p.idle)
      n == Len(p.queue)
      Taken == {p.idle[m - i + 1] : i \in 1 .. k}
  IN /\ k <= m /\ k <= n /\ (k = m \/ k = n)
     /\ q \in Pools
     /\ q.workers = p.workers /\ q.pending = p.pending /\ q.crashes = p.crashes
     /\ q.destroyed = p.destroyed /\ q.outcome = p.outcome
     /\ Len(q.idle) = m - k /\ \A i \in 1 .. m - k : q.idle[i] = p.idle[i]
     /\ Len(q.queue) = n - k /\ \A i \in 1 .. n - k : q.queue[i] = p.queue[i + k]
     /\ \A i \in 1 .. k : q.inflight[p.idle[m - i + 1]] = p.queue[i]
     /\ \A w \in Threads \ Taken :
          q.inflight[w] = p.inflight[w] /\ q.parses[w] = p.parses[w]
     /\ \A j \in Jobs :
          q.timer[j] = IF \E i \in 1 .. k : p.queue[i] = j THEN "base" ELSE p.timer[j]

\* The first of the queue go to the last of the idle, one to each.
LEMMA Dispatching ==
  ASSUME ParsePoolAssumption, NEW p \in Pools, Stationed(p), NEW q, q = Dispatched(p)
  PROVE  \E k \in Nat : GivesOut(p, q, k)
<1> DEFINE m == Len(p.idle)
           n == Len(p.queue)
           k == Min({m, n})
           Taken == {p.idle[m - i + 1] : i \in 1 .. k}
           Rank(w) == CHOOSE i \in 1 .. k : p.idle[m - i + 1] = w
           I == [w \in Threads |-> IF w \in Taken THEN p.queue[Rank(w)] ELSE p.inflight[w]]
           P == [w \in Threads |-> IF w \in Taken THEN p.parses[w] + 1 ELSE p.parses[w]]
           T == [j \in Jobs |-> IF \E i \in 1 .. k : p.queue[i] = j THEN "base" ELSE p.timer[j]]
<1>1. /\ p.idle \in Seq(Threads) /\ p.queue \in Seq(Jobs) /\ m \in Nat /\ n \in Nat
      /\ \A i \in 1 .. m : p.idle[i] \in Threads
      /\ \A i \in 1 .. n : p.queue[i] \in Jobs
  BY DEF Pools
<1>2. k \in Nat /\ k <= m /\ k <= n /\ (k = m \/ k = n)
  <2> HIDE DEF m, n
  <2> QED BY <1>1, MinOfTwo
<1>3. q = [p EXCEPT !.idle = SubSeq(p.idle, 1, m - k), !.queue = SubSeq(p.queue, k + 1, n),
                    !.inflight = I, !.parses = P, !.timer = T]
  BY DEF Dispatched, Pools
<1> HIDE DEF k
<1>4. \A i \in 1 .. k : m - i + 1 \in 1 .. m
  BY <1>1, <1>2
<1>5. Taken \subseteq Idle(p)
  BY <1>4 DEF Idle
<1>6. \A i \in 1 .. k : I[p.idle[m - i + 1]] = p.queue[i]
  <2> SUFFICES ASSUME NEW i \in 1 .. k PROVE I[p.idle[m - i + 1]] = p.queue[i]
    OBVIOUS
  <2>1. \A j \in 1 .. k : p.idle[m - j + 1] = p.idle[m - i + 1] <=> j = i
    <3> SUFFICES ASSUME NEW j \in 1 .. k, p.idle[m - j + 1] = p.idle[m - i + 1] PROVE j = i
      OBVIOUS
    <3>1. m - j + 1 = m - i + 1
      BY <1>4 DEF Stationed, Distinct
    <3> QED BY <1>1, <1>2, <3>1
  <2>2. Rank(p.idle[m - i + 1]) = i
    BY <2>1
  <2>3. p.idle[m - i + 1] \in Threads /\ p.idle[m - i + 1] \in Taken
    BY <1>1, <1>4
  <2> HIDE DEF Taken, Rank
  <2> QED BY <2>2, <2>3
<1>7. I \in [Threads -> Jobs \cup {NoJob}]
  <2> SUFFICES ASSUME NEW w \in Threads PROVE I[w] \in Jobs \cup {NoJob}
    OBVIOUS
  <2>1. CASE w \in Taken
    <3>1. PICK i \in 1 .. k : w = p.idle[m - i + 1]
      BY <2>1
    <3>2. i \in 1 .. n
      BY <1>1, <1>2
    <3> HIDE DEF I
    <3> QED BY <1>1, <1>6, <3>1, <3>2
  <2>2. CASE w \notin Taken
    <3>1. p.inflight[w] \in Jobs \cup {NoJob}
      BY DEF Pools
    <3> HIDE DEF Taken
    <3> QED BY <2>2, <3>1
  <2> QED BY <2>1, <2>2
<1>8. P \in [Threads -> 0 .. RecycleInterval]
  <2> SUFFICES ASSUME NEW w \in Threads PROVE P[w] \in 0 .. RecycleInterval
    OBVIOUS
  <2>1. p.parses[w] \in 0 .. RecycleInterval /\ RecycleInterval \in Nat
    BY DEF Pools, ParsePoolAssumption
  <2>2. w \in Taken => p.parses[w] < RecycleInterval
    BY <1>5 DEF Stationed
  <2> HIDE DEF Taken
  <2> QED BY <2>1, <2>2
<1>9. T \in [Jobs -> {"off", "base", "hard"}]
  BY DEF Pools
<1>10. /\ SubSeq(p.idle, 1, m - k) \in Seq(Threads) /\ Len(SubSeq(p.idle, 1, m - k)) = m - k
       /\ \A i \in 1 .. m - k : SubSeq(p.idle, 1, m - k)[i] = p.idle[i]
  BY <1>1, <1>2
<1>11. /\ SubSeq(p.queue, k + 1, n) \in Seq(Jobs) /\ Len(SubSeq(p.queue, k + 1, n)) = n - k
       /\ \A i \in 1 .. n - k : SubSeq(p.queue, k + 1, n)[i] = p.queue[i + k]
  BY <1>1, <1>2
<1>12. \A w \in Threads \ Taken : I[w] = p.inflight[w] /\ P[w] = p.parses[w]
  OBVIOUS
<1>13. \A j \in Jobs : T[j] = IF \E i \in 1 .. k : p.queue[i] = j THEN "base" ELSE p.timer[j]
  OBVIOUS
<1>14. /\ q \in Pools
       /\ q.workers = p.workers /\ q.pending = p.pending /\ q.crashes = p.crashes
       /\ q.destroyed = p.destroyed /\ q.outcome = p.outcome
       /\ q.idle = SubSeq(p.idle, 1, m - k) /\ q.queue = SubSeq(p.queue, k + 1, n)
       /\ q.inflight = I /\ q.parses = P /\ q.timer = T
  <2> HIDE DEF I, P, T, m, n
  <2> QED BY <1>3, <1>7, <1>8, <1>9, <1>10, <1>11 DEF Pools
<1> HIDE DEF I, P, T
<1>15. GivesOut(p, q, k)
  BY <1>2, <1>6, <1>10, <1>11, <1>12, <1>13, <1>14 DEF GivesOut
<1> QED BY <1>2, <1>15

\* Who was given a parse was idle, and the parse was first in the queue.
LEMMA DispatchedBooks ==
  ASSUME ParsePoolAssumption, NEW p, Booked(p), NEW q, q = Dispatched(p)
  PROVE  /\ Booked(q) /\ (q.idle = <<>> \/ q.queue = <<>>)
         /\ q.workers = p.workers /\ q.pending = p.pending /\ q.crashes = p.crashes
         /\ q.destroyed = p.destroyed /\ q.outcome = p.outcome
         /\ \A w \in Busy(p) : q.inflight[w] = p.inflight[w]
         /\ \A j \in Jobs : Waits(q, j) => Waits(p, j)
<1> DEFINE m == Len(p.idle)
           n == Len(p.queue)
<1>1. p \in Pools /\ Stationed(p) /\ Placed(p)
  BY DEF Booked
<1>2. PICK k \in Nat : GivesOut(p, q, k)
  BY <1>1, Dispatching
<1>20. /\ k <= m /\ k <= n /\ (k = m \/ k = n)
       /\ q \in Pools
       /\ q.workers = p.workers /\ q.pending = p.pending /\ q.crashes = p.crashes
       /\ q.destroyed = p.destroyed /\ q.outcome = p.outcome
       /\ Len(q.idle) = m - k /\ Len(q.queue) = n - k
  BY <1>2 DEF GivesOut
<1>21. \A i \in 1 .. m - k : q.idle[i] = p.idle[i]
  BY <1>2 DEF GivesOut
<1>22. \A i \in 1 .. n - k : q.queue[i] = p.queue[i + k]
  BY <1>2 DEF GivesOut
<1>23. \A i \in 1 .. k : q.inflight[p.idle[m - i + 1]] = p.queue[i]
  BY <1>2 DEF GivesOut
<1>24. \A w \in Threads \ {p.idle[m - i + 1] : i \in 1 .. k} :
         q.inflight[w] = p.inflight[w] /\ q.parses[w] = p.parses[w]
  BY <1>2 DEF GivesOut
<1>25. \A j \in Jobs :
         q.timer[j] = IF \E i \in 1 .. k : p.queue[i] = j THEN "base" ELSE p.timer[j]
  BY <1>2 DEF GivesOut
<1> DEFINE Taken == {p.idle[m - i + 1] : i \in 1 .. k}
<1>3. /\ m \in Nat /\ n \in Nat
      /\ \A i \in 1 .. m : p.idle[i] \in Threads
      /\ \A i \in 1 .. n : p.queue[i] \in Jobs
  BY <1>1 DEF Pools
<1>4. \A i \in 1 .. k : i \in 1 .. n /\ m - i + 1 \in 1 .. m /\ m - i + 1 > m - k
  BY <1>20, <1>21, <1>22, <1>23, <1>24, <1>25, <1>3
<1>5. \A i \in 1 .. n - k : i + k \in 1 .. n /\ i + k > k
  BY <1>20, <1>21, <1>22, <1>23, <1>24, <1>25, <1>3
<1>6. Taken \subseteq Idle(p) /\ Taken \subseteq Threads
  BY <1>3, <1>4 DEF Idle
<1>7. NoJob \notin Jobs
  BY DEF NoJob, Jobs
<1>8. Busy(q) = Busy(p) \cup Taken
  <2>1. \A i \in 1 .. k : q.inflight[p.idle[m - i + 1]] \in Jobs
    BY <1>3, <1>4, <1>23
  <2>2. \A w \in Threads \ Taken : q.inflight[w] = p.inflight[w]
    BY <1>24
  <2>3. \A w \in Taken : q.inflight[w] \in Jobs /\ w \in Threads
    BY <1>6, <2>1
  <2> HIDE DEF Taken
  <2> QED BY <1>7, <2>2, <2>3 DEF Busy
<1>9. Distinct(q.idle) /\ Idle(q) = Idle(p) \ Taken
  <2>1. Distinct(q.idle)
    <3> SUFFICES ASSUME NEW i \in 1 .. m - k, NEW j \in 1 .. m - k, q.idle[i] = q.idle[j]
                 PROVE  i = j
      BY <1>20 DEF Distinct
    <3>1. i \in 1 .. m /\ j \in 1 .. m
      BY <1>20, <1>21, <1>22, <1>23, <1>24, <1>25, <1>3
    <3> QED BY <1>1, <1>20, <1>21, <1>22, <1>23, <1>24, <1>25, <3>1 DEF Stationed, Distinct
  <2>2. ASSUME NEW w PROVE w \in Idle(q) <=> w \in Idle(p) /\ w \notin Taken
    <3>1. ASSUME w \in Idle(q) PROVE w \in Idle(p) /\ w \notin Taken
      <4>1. PICK i \in 1 .. m - k : w = p.idle[i]
        BY <1>20, <1>21, <3>1 DEF Idle
      <4>2. i \in 1 .. m
        BY <1>20, <1>21, <1>22, <1>23, <1>24, <1>25, <1>3
      <4>3. ASSUME NEW h \in 1 .. k, w = p.idle[m - h + 1] PROVE FALSE
        <5>1. m - h + 1 = i
          BY <1>1, <1>4, <4>1, <4>2, <4>3 DEF Stationed, Distinct
        <5> QED BY <1>20, <1>21, <1>22, <1>23, <1>24, <1>25, <1>3, <1>4, <5>1
      <4> QED BY <4>1, <4>2, <4>3 DEF Idle
    <3>2. ASSUME w \in Idle(p), w \notin Taken PROVE w \in Idle(q)
      <4>1. PICK i \in 1 .. m : w = p.idle[i]
        BY <3>2 DEF Idle
      <4>2. CASE i <= m - k
        <5>1. i \in 1 .. m - k
          BY <1>20, <1>21, <1>22, <1>23, <1>24, <1>25, <1>3, <4>2
        <5> QED BY <1>20, <1>21, <1>22, <1>23, <1>24, <1>25, <4>1, <5>1 DEF Idle
      <4>3. CASE i > m - k
        <5>1. m - i + 1 \in 1 .. k /\ m - (m - i + 1) + 1 = i
          BY <1>20, <1>21, <1>22, <1>23, <1>24, <1>25, <1>3, <4>3
        <5> QED BY <3>2, <4>1, <5>1
      <4> QED BY <1>20, <1>21, <1>22, <1>23, <1>24, <1>25, <1>3, <4>2, <4>3
    <3> QED BY <3>1, <3>2
  <2> HIDE DEF Taken
  <2> QED BY <2>1, <2>2
<1>10. Stationed(q)
  <2>1. \A w \in Threads \ Busy(q) : q.parses[w] < RecycleInterval
    BY <1>1, <1>20, <1>21, <1>22, <1>23, <1>24, <1>25, <1>8 DEF Stationed
  <2> HIDE DEF Taken
  <2> QED BY <1>1, <1>20, <1>21, <1>22, <1>23, <1>24, <1>25, <1>6, <1>8, <1>9, <2>1
      DEF Stationed
<1>11. \A w \in Busy(p) : q.inflight[w] = p.inflight[w] /\ w \notin Taken
  <2>1. \A w \in Busy(p) : w \in Threads /\ w \notin Taken
    BY <1>1, <1>6 DEF Stationed, Busy
  <2> QED BY <1>20, <1>21, <1>22, <1>23, <1>24, <1>25, <2>1
<1>12. \A j \in Jobs : Waits(q, j) <=> \E i \in k + 1 .. n : p.queue[i] = j
  <2> SUFFICES ASSUME NEW j \in Jobs
               PROVE  Waits(q, j) <=> \E i \in k + 1 .. n : p.queue[i] = j
    OBVIOUS
  <2>1. ASSUME NEW i \in 1 .. n - k, q.queue[i] = j PROVE \E h \in k + 1 .. n : p.queue[h] = j
    <3>1. i + k \in k + 1 .. n /\ p.queue[i + k] = j
      BY <1>20, <1>22, <1>3, <2>1
    <3> QED BY <3>1
  <2>2. ASSUME NEW i \in k + 1 .. n, p.queue[i] = j PROVE \E h \in 1 .. n - k : q.queue[h] = j
    <3>1. i - k \in 1 .. n - k /\ (i - k) + k = i
      BY <1>20, <1>21, <1>22, <1>23, <1>24, <1>25, <1>3
    <3>2. q.queue[i - k] = j
      BY <1>22, <2>2, <3>1
    <3> QED BY <3>1, <3>2
  <2> QED BY <1>20, <1>21, <1>22, <1>23, <1>24, <1>25, <2>1, <2>2 DEF Waits
<1>13. \A j \in Jobs : Handed(q, j) <=> Handed(p, j) \/ \E i \in 1 .. k : p.queue[i] = j
  <2> SUFFICES ASSUME NEW j \in Jobs
               PROVE  Handed(q, j) <=> Handed(p, j) \/ \E i \in 1 .. k : p.queue[i] = j
    OBVIOUS
  <2>1. ASSUME NEW w \in Threads, q.inflight[w] = j
        PROVE  Handed(p, j) \/ \E i \in 1 .. k : p.queue[i] = j
    <3>1. CASE w \in Taken
      BY <1>23, <2>1, <3>1
    <3>2. CASE w \notin Taken
      BY <1>20, <1>21, <1>22, <1>23, <1>24, <1>25, <2>1, <3>2 DEF Handed
    <3> QED BY <3>1, <3>2
  <2>2. ASSUME NEW w \in Threads, p.inflight[w] = j PROVE Handed(q, j)
    <3>1. w \in Busy(p)
      BY <1>7, <2>2 DEF Busy
    <3> QED BY <1>11, <2>2, <3>1 DEF Handed
  <2>3. ASSUME NEW i \in 1 .. k, p.queue[i] = j PROVE Handed(q, j)
    <3>1. p.idle[m - i + 1] \in Threads
      BY <1>3, <1>4
    <3> QED BY <1>20, <1>21, <1>22, <1>23, <1>24, <1>25, <2>3, <3>1 DEF Handed
  <2> QED BY <2>1, <2>2, <2>3 DEF Handed
<1>14. \A j \in Jobs : Waits(p, j) <=> Waits(q, j) \/ \E i \in 1 .. k : p.queue[i] = j
  <2>1. \A i \in 1 .. n : i \in 1 .. k \/ i \in k + 1 .. n
    BY <1>20, <1>21, <1>22, <1>23, <1>24, <1>25, <1>3
  <2>2. \A i \in k + 1 .. n : i \in 1 .. n
    BY <1>20, <1>21, <1>22, <1>23, <1>24, <1>25, <1>3
  <2> QED BY <1>4, <1>12, <2>1, <2>2 DEF Waits
<1>15. Placed(q)
  <2>1. Distinct(q.queue)
    <3> SUFFICES ASSUME NEW i \in 1 .. n - k, NEW j \in 1 .. n - k, q.queue[i] = q.queue[j]
                 PROVE  i = j
      BY <1>20 DEF Distinct
    <3>1. i + k = j + k
      BY <1>1, <1>20, <1>21, <1>22, <1>23, <1>24, <1>25, <1>5 DEF Placed, Distinct
    <3> QED BY <1>20, <1>21, <1>22, <1>23, <1>24, <1>25, <1>3, <3>1
  <2>2. ASSUME NEW v \in Threads, NEW w \in Threads, q.inflight[v] = q.inflight[w],
               q.inflight[v] # NoJob
        PROVE  v = w
    <3>1. CASE v \in Taken /\ w \in Taken
      <4>1. PICK i \in 1 .. k : v = p.idle[m - i + 1]
        BY <3>1
      <4>2. PICK j \in 1 .. k : w = p.idle[m - j + 1]
        BY <3>1
      <4>3. i = j
        <5>1. p.queue[i] = p.queue[j]
          BY <1>23, <2>2, <4>1, <4>2
        <5> QED BY <1>1, <1>4, <5>1 DEF Placed, Distinct
      <4> QED BY <4>1, <4>2, <4>3
    <3>2. CASE v \in Taken /\ w \notin Taken
      <4>1. PICK i \in 1 .. k : v = p.idle[m - i + 1]
        BY <3>2
      <4>2. p.inflight[w] = p.queue[i] /\ p.queue[i] \in Jobs
        BY <1>20, <1>21, <1>22, <1>23, <1>24, <1>25, <1>3, <1>4, <2>2, <3>2, <4>1
      <4> QED BY <1>1, <1>4, <4>2 DEF Placed, Waits, Handed
    <3>3. CASE v \notin Taken /\ w \in Taken
      <4>1. PICK i \in 1 .. k : w = p.idle[m - i + 1]
        BY <3>3
      <4>2. p.inflight[v] = p.queue[i] /\ p.queue[i] \in Jobs
        BY <1>20, <1>21, <1>22, <1>23, <1>24, <1>25, <1>3, <1>4, <2>2, <3>3, <4>1
      <4> QED BY <1>1, <1>4, <4>2 DEF Placed, Waits, Handed
    <3>4. CASE v \notin Taken /\ w \notin Taken
      <4>1. q.inflight[v] = p.inflight[v] /\ q.inflight[w] = p.inflight[w]
        BY <1>20, <1>21, <1>22, <1>23, <1>24, <1>25, <3>4
      <4> QED BY <1>1, <2>2, <4>1 DEF Placed
    <3> QED BY <3>1, <3>2, <3>3, <3>4
  <2>3. ASSUME NEW j \in Jobs PROVE ~(Waits(q, j) /\ Handed(q, j))
    <3>1. ASSUME NEW i \in k + 1 .. n, p.queue[i] = j, NEW h \in 1 .. k, p.queue[h] = j
          PROVE  FALSE
      <4>1. i \in 1 .. n /\ h \in 1 .. n /\ i # h
        BY <1>20, <1>21, <1>22, <1>23, <1>24, <1>25, <1>3
      <4> QED BY <1>1, <3>1, <4>1 DEF Placed, Distinct
    <3>2. ~(Waits(q, j) /\ Handed(p, j))
      BY <1>1, <1>14 DEF Placed
    <3> QED BY <1>12, <1>13, <3>1, <3>2
  <2>4. \A j \in Jobs : q.outcome[j] = "open" <=> Waits(q, j) \/ Handed(q, j)
    BY <1>1, <1>20, <1>21, <1>22, <1>23, <1>24, <1>25, <1>13, <1>14 DEF Placed
  <2>5. \A j \in Jobs : q.timer[j] # "off" <=> Handed(q, j)
    BY <1>1, <1>20, <1>21, <1>22, <1>23, <1>24, <1>25, <1>13 DEF Placed
  <2> QED BY <2>1, <2>2, <2>3, <2>4, <2>5 DEF Placed
<1>16. q.idle = <<>> \/ q.queue = <<>>
  <2>1. q.idle \in Seq(Threads) /\ q.queue \in Seq(Jobs)
        /\ (Len(q.idle) = 0 \/ Len(q.queue) = 0)
    BY <1>20, <1>21, <1>22, <1>23, <1>24, <1>25, <1>3 DEF Pools
  <2> QED BY <2>1
<1>17. q.destroyed => q.workers = {} /\ q.queue = <<>>
  <2> SUFFICES ASSUME q.destroyed PROVE q.workers = {} /\ q.queue = <<>>
    OBVIOUS
  <2>1. p.workers = {} /\ n = 0
    BY <1>20 DEF Booked
  <2>2. Len(q.queue) = 0 /\ q.queue \in Seq(Jobs)
    BY <1>20, <1>21, <1>22, <1>23, <1>24, <1>25, <1>3, <2>1 DEF Pools
  <2> QED BY <1>20, <1>21, <1>22, <1>23, <1>24, <1>25, <2>1, <2>2
<1>18. IsFiniteSet(q.workers) /\ Cardinality(q.workers) <= MaxSize
  BY <1>20 DEF Booked
<1> QED BY <1>20, <1>21, <1>22, <1>23, <1>24, <1>25, <1>10, <1>11, <1>14, <1>15, <1>16, <1>17, <1>18
    DEF Booked
-----------------------------------------------------------------------------
(* How the pool grows.                                                      *)

\* What the threads of a pool have parsed once those of W are new.
Fresh(p, W) == [w \in Threads |-> IF w \in W THEN 0 ELSE p.parses[w]]

\* A pool that has started the threads W and been charged with some crashes.
StartedWith(p, q, W) ==
  /\ W \in SUBSET (Clean \ p.workers) /\ q \in Pools /\ (W # {} => ~p.destroyed)
  /\ q.workers = p.workers \cup W /\ q.pending = p.pending \cup W
  /\ q.crashes >= p.crashes /\ q.parses = Fresh(p, W)
  /\ q.idle = p.idle /\ q.queue = p.queue /\ q.inflight = p.inflight
  /\ q.destroyed = p.destroyed /\ q.outcome = p.outcome /\ q.timer = p.timer
  /\ IsFiniteSet(q.workers) /\ Cardinality(q.workers) <= MaxSize

\* The constructor of n threads, while there is room for them.
LEMMA Starting ==
  ASSUME ParsePoolAssumption, NEW p \in Pools, NEW n \in Nat, n <= Room(p),
         NEW threw \in Nat, ~p.destroyed, IsFiniteSet(p.workers),
            Cardinality(p.workers) + n <= MaxSize
  PROVE  \E W : StartedWith(p, Start(p, n, threw), W) /\ Cardinality(W) = n
<1> DEFINE W == CHOOSE V \in SUBSET (Clean \ p.workers) : Cardinality(V) = n
<1>1. IsFiniteSet(Clean \ p.workers)
  BY FS_Subset DEF ParsePoolAssumption, Clean
<1>2. W \in SUBSET (Clean \ p.workers) /\ Cardinality(W) = n
  BY <1>1, SubsetOfSize DEF Room
<1>3. Start(p, n, threw) = [p EXCEPT !.workers = @ \cup W, !.pending = @ \cup W,
                                     !.crashes = @ + threw, !.parses = Fresh(p, W)]
  BY DEF Start, Fresh
<1> HIDE DEF W
<1>4. W \subseteq Threads
  BY <1>2 DEF Clean
<1>5. IsFiniteSet(W) /\ W \cap p.workers = {}
  BY <1>1, <1>2, FS_Subset
<1>6. IsFiniteSet(p.workers \cup W) /\ Cardinality(p.workers \cup W) <= MaxSize
  <2>1. Cardinality(p.workers) \in Nat /\ Cardinality(p.workers \cap W) = 0
    BY <1>5, FS_CardinalityType, FS_EmptySet
  <2>2. IsFiniteSet(p.workers \cup W)
        /\ Cardinality(p.workers \cup W)
             = Cardinality(p.workers) + Cardinality(W) - Cardinality(p.workers \cap W)
    BY <1>5, FS_Union
  <2> QED BY <1>2, <2>1, <2>2
<1>7. Start(p, n, threw) \in Pools
  <2>1. p.workers \cup W \in SUBSET Threads /\ p.pending \cup W \in SUBSET Threads
        /\ p.crashes + threw \in Nat /\ Fresh(p, W) \in [Threads -> 0 .. RecycleInterval]
    BY <1>4 DEF Pools, Fresh, ParsePoolAssumption
  <2> QED BY <1>3, <2>1 DEF Pools
<1>8. StartedWith(p, Start(p, n, threw), W)
  BY <1>2, <1>3, <1>6, <1>7 DEF StartedWith, Pools
<1> QED BY <1>2, <1>8

\* A pool is one that has started nothing.
LEMMA StartedNone ==
  ASSUME NEW p \in Pools, IsFiniteSet(p.workers), Cardinality(p.workers) <= MaxSize
  PROVE  StartedWith(p, p, {})
BY DEF StartedWith, Pools, Fresh

\* Calls of spawnOne for which there is room keep the size.
LEMMA Spawning ==
  ASSUME ParsePoolAssumption, NEW p \in Pools, IsFiniteSet(p.workers), NEW n \in Nat,
         Cardinality(p.workers) + n <= MaxSize, NEW q \in Spawned(p, n)
  PROVE  \E W : StartedWith(p, q, W)
<1> DEFINE left == IF Healthy(p) THEN CrashBudget - p.crashes ELSE 0
<1>1. Cardinality(p.workers) \in Nat /\ Room(p) \in Nat
  <2>1. IsFiniteSet(Clean \ p.workers)
    BY FS_Subset DEF ParsePoolAssumption, Clean
  <2> QED BY <2>1, FS_CardinalityType DEF Room
<1>2. left \in Nat /\ (left # 0 => ~p.destroyed)
  BY DEF Healthy, Pools, ParsePoolAssumption
<1>3. \/ q = p
      \/ left # 0 /\ \E k \in 0 .. Min({n, Room(p)}) : q = Start(p, k, n - k)
      \/ left # 0 /\ \E k \in 0 .. Room(p) : k + left <= n /\ q = Start(p, k, left)
  BY DEF Spawned
<1> HIDE DEF left
<1>4. CASE q = p
  <2>1. Cardinality(p.workers) <= MaxSize
    BY <1>1 DEF ParsePoolAssumption
  <2> QED BY <1>4, <2>1, StartedNone
<1>5. CASE left # 0 /\ \E k \in 0 .. Min({n, Room(p)}) : q = Start(p, k, n - k)
  <2>1. PICK k \in 0 .. Min({n, Room(p)}) : q = Start(p, k, n - k)
    BY <1>5
  <2>2. k \in Nat /\ k <= n /\ k <= Room(p)
    BY <1>1, MinOfTwo
  <2>3. n - k \in Nat /\ Cardinality(p.workers) + k <= MaxSize
    BY <1>1, <2>2 DEF ParsePoolAssumption
  <2> QED BY <1>2, <1>5, <2>1, <2>2, <2>3, Starting
<1>6. CASE left # 0 /\ \E k \in 0 .. Room(p) : k + left <= n /\ q = Start(p, k, left)
  <2>1. PICK k \in 0 .. Room(p) : k + left <= n /\ q = Start(p, k, left)
    BY <1>6
  <2>2. k \in Nat /\ k <= n /\ k <= Room(p) /\ Cardinality(p.workers) + k <= MaxSize
    BY <1>1, <1>2, <2>1 DEF ParsePoolAssumption
  <2> QED BY <1>2, <1>6, <2>1, <2>2, Starting
<1> QED BY <1>3, <1>4, <1>5, <1>6

\* The first loop of drain keeps the size, and ends with a worker for the first parse
\* or with the crash budget spent.
LEMMA Growing ==
  ASSUME ParsePoolAssumption, NEW p \in Pools, IsFiniteSet(p.workers),
         Cardinality(p.workers) <= MaxSize, NEW q \in Grown(p),
         p.pending \subseteq p.workers, Idle(p) \subseteq p.workers
  PROVE  /\ \E W : StartedWith(p, q, W)
         /\ p.queue # <<>> /\ Healthy(q) => q.workers # {}
<1> DEFINE a == Monus(Len(p.queue), Len(p.idle) + Cardinality(p.pending))
           b == Monus(MaxSize, Cardinality(p.workers))
           c == Monus(MaxConcurrentSpawn, Cardinality(p.pending))
           left == CrashBudget - p.crashes
<1>1. Cardinality(p.workers) \in Nat /\ IsFiniteSet(p.pending) /\ Cardinality(p.pending) \in Nat
  BY FS_CardinalityType, FS_Subset
<1>2. Len(p.queue) \in Nat /\ Len(p.idle) \in Nat
  BY DEF Pools
<1>3. a \in Nat /\ b \in Nat /\ c \in Nat
  BY <1>1, <1>2 DEF Monus, MaxConcurrentSpawn, ParsePoolAssumption
<1>4. Wanted(p) \in {a, b, c} /\ Wanted(p) <= b
  <2> HIDE DEF a, b, c
  <2>1. Wanted(p) = Min({a, b, c})
    BY DEF Wanted, a, b, c
  <2> QED BY <1>3, <2>1, MinOfThree
<1>5. Wanted(p) \in Nat /\ Cardinality(p.workers) + Wanted(p) <= MaxSize
  BY <1>1, <1>3, <1>4 DEF Monus, ParsePoolAssumption
<1>6. \A n \in 0 .. Wanted(p) : n \in Nat /\ Cardinality(p.workers) + n <= MaxSize
  BY <1>1, <1>5 DEF ParsePoolAssumption
<1>7. p.crashes \in Nat
  BY DEF Pools
<1>10. Healthy(p) => ~p.destroyed
  BY DEF Healthy
<1>8. CASE Wanted(p) = 0 \/ ~Healthy(p)
  <2>1. q = p
    BY <1>8 DEF Grown
  <2>2. ASSUME p.queue # <<>>, Healthy(q) PROVE q.workers # {}
    <3> SUFFICES ASSUME p.workers = {} PROVE FALSE
      BY <2>1
    <3>1. Wanted(p) = 0
      BY <1>8, <2>1, <2>2
    <3>2. Cardinality(p.pending) = 0 /\ Cardinality(p.workers) = 0
      BY FS_EmptySet
    <3>3. Len(p.idle) = 0
      <4>1. Idle(p) = {}
        OBVIOUS
      <4>2. 1 \notin 1 .. Len(p.idle)
        BY <4>1 DEF Idle
      <4> QED BY <1>2, <4>2
    <3>4. Len(p.queue) > 0
      BY <1>2, <2>2 DEF Pools
    <3>5. a > 0 /\ b > 0 /\ c > 0
      BY <1>2, <3>2, <3>3, <3>4 DEF Monus, MaxConcurrentSpawn, ParsePoolAssumption
    <3> QED BY <1>3, <1>4, <3>1, <3>5
  <2> QED BY <2>1, <2>2, StartedNone
<1>9. CASE Wanted(p) # 0 /\ Healthy(p)
  <2>1. left \in Nat /\ left > 0
    BY <1>7, <1>9 DEF Healthy, ParsePoolAssumption
  <2>2. \/ \E threw \in 0 .. left - 1 : Wanted(p) <= Room(p) /\ q = Start(p, Wanted(p), threw)
        \/ \E n \in 0 .. Wanted(p) - 1 : n <= Room(p) /\ q = Start(p, n, left)
    BY <1>9 DEF Grown
  <2>3. CASE \E threw \in 0 .. left - 1 : Wanted(p) <= Room(p) /\ q = Start(p, Wanted(p), threw)
    <3>1. PICK threw \in 0 .. left - 1 : Wanted(p) <= Room(p) /\ q = Start(p, Wanted(p), threw)
      BY <2>3
    <3>2. threw \in Nat
      BY <2>1
    <3>3. PICK W : StartedWith(p, q, W) /\ Cardinality(W) = Wanted(p)
      BY <1>5, <1>9, <1>10, <3>1, <3>2, Starting
    <3>4. W # {}
      BY <1>9, <3>3, FS_EmptySet
    <3> QED BY <3>3, <3>4 DEF StartedWith
  <2>4. CASE \E n \in 0 .. Wanted(p) - 1 : n <= Room(p) /\ q = Start(p, n, left)
    <3>1. PICK n \in 0 .. Wanted(p) - 1 : n <= Room(p) /\ q = Start(p, n, left)
      BY <2>4
    <3>2. n \in 0 .. Wanted(p)
      BY <1>5
    <3>3. PICK W : StartedWith(p, q, W)
      BY <1>6, <1>9, <1>10, <2>1, <3>1, <3>2, Starting
    <3>4. q.crashes = CrashBudget
      BY <1>7, <3>1 DEF Start, Pools, ParsePoolAssumption
    <3>5. ~Healthy(q)
      BY <3>4 DEF Healthy, ParsePoolAssumption
    <3> QED BY <3>3, <3>5
  <2> QED BY <2>2, <2>3, <2>4
<1> QED BY <1>8, <1>9

\* Who has been started waits for no parse and has none.
LEMMA StartedBooks ==
  ASSUME ParsePoolAssumption, NEW p, Booked(p), NEW q, NEW W, StartedWith(p, q, W)
  PROVE  /\ Booked(q) /\ Idle(q) = Idle(p) /\ Busy(q) = Busy(p)
         /\ \A j \in Jobs : Waits(q, j) <=> Waits(p, j)
<1>1. /\ W \in SUBSET (Clean \ p.workers) /\ q \in Pools /\ (W # {} => ~p.destroyed)
      /\ q.workers = p.workers \cup W /\ q.pending = p.pending \cup W
      /\ q.parses = Fresh(p, W)
      /\ q.idle = p.idle /\ q.queue = p.queue /\ q.inflight = p.inflight
      /\ q.destroyed = p.destroyed /\ q.outcome = p.outcome /\ q.timer = p.timer
      /\ IsFiniteSet(q.workers) /\ Cardinality(q.workers) <= MaxSize
  BY DEF StartedWith
<1>2. Idle(q) = Idle(p) /\ Busy(q) = Busy(p)
  BY <1>1 DEF Idle, Busy
<1>3. \A j \in Jobs : (Waits(q, j) <=> Waits(p, j)) /\ (Handed(q, j) <=> Handed(p, j))
  BY <1>1 DEF Waits, Handed
<1>4. Stationed(q)
  <2>1. Stationed(p) /\ W \cap p.workers = {}
    BY <1>1 DEF Booked
  <2>2. \A w \in Threads \ Busy(q) : q.parses[w] < RecycleInterval
    <3>1. 0 < RecycleInterval
      BY DEF ParsePoolAssumption
    <3> QED BY <1>1, <1>2, <2>1, <3>1 DEF Stationed, Fresh
  <2> QED BY <1>1, <1>2, <2>1, <2>2 DEF Stationed
<1>5. Placed(q)
  BY <1>1, <1>3 DEF Booked, Placed
<1> QED BY <1>1, <1>2, <1>3, <1>4, <1>5 DEF Booked
-----------------------------------------------------------------------------
(* What a call of drain leaves.                                             *)

\* What drain keeps of a pool p, and what it may do to it.
Served(p, q) ==
  /\ \E W \in SUBSET (Clean \ p.workers) :
       q.workers = p.workers \cup W /\ q.pending = p.pending \cup W
  /\ q.destroyed = p.destroyed /\ q.crashes >= p.crashes
  /\ \A w \in Busy(p) : q.inflight[w] = p.inflight[w]
  /\ \A j \in Jobs : \/ q.outcome[j] = p.outcome[j]
                      \/ q.crashes >= CrashBudget

\* drain ends with nobody waiting for nobody, and fails who waits only for want of threads.
LEMMA Draining ==
  ASSUME ParsePoolAssumption, NEW p, Booked(p), NEW q \in Drained(p)
  PROVE  Booked(q) /\ Fed(q) /\ Served(p, q)
<1>1. PICK g \in Grown(p) : q = Unstranded(Dispatched(g))
  BY DEF Drained
<1>2. /\ p \in Pools /\ Stationed(p) /\ IsFiniteSet(p.workers)
      /\ Cardinality(p.workers) <= MaxSize
  BY DEF Booked
<1>3. p.pending \subseteq p.workers /\ Idle(p) \subseteq p.workers
  BY <1>2 DEF Stationed
<1>4. PICK W : StartedWith(p, g, W)
  BY <1>1, <1>2, <1>3, Growing
<1>5. p.queue # <<>> /\ Healthy(g) => g.workers # {}
  BY <1>1, <1>2, <1>3, Growing
<1>6. Booked(g) /\ Busy(g) = Busy(p)
  BY <1>4, StartedBooks
<1>7. /\ W \in SUBSET (Clean \ p.workers) /\ g \in Pools
      /\ g.workers = p.workers \cup W /\ g.pending = p.pending \cup W
      /\ g.queue = p.queue /\ g.inflight = p.inflight
      /\ g.destroyed = p.destroyed /\ g.outcome = p.outcome /\ g.crashes >= p.crashes
  BY <1>4 DEF StartedWith
<1> DEFINE d == Dispatched(g)
<1>8. /\ Booked(d) /\ (d.idle = <<>> \/ d.queue = <<>>)
      /\ d.workers = g.workers /\ d.pending = g.pending /\ d.crashes = g.crashes
      /\ d.destroyed = g.destroyed /\ d.outcome = g.outcome
      /\ \A w \in Busy(g) : d.inflight[w] = g.inflight[w]
      /\ \A j \in Jobs : Waits(d, j) => Waits(g, j)
  BY <1>6, DispatchedBooks
<1>9. q = Unstranded(d)
  BY <1>1
<1> HIDE DEF d
<1>10. /\ \E V \in SUBSET (Clean \ p.workers) :
            d.workers = p.workers \cup V /\ d.pending = p.pending \cup V
       /\ d.destroyed = p.destroyed /\ d.outcome = p.outcome /\ d.crashes >= p.crashes
       /\ \A w \in Busy(p) : d.inflight[w] = p.inflight[w]
  BY <1>6, <1>7, <1>8
<1>11. CASE ~Stranded(d)
  <2>1. q = d
    BY <1>9, <1>11 DEF Unstranded
  <2>2. Fed(d)
    <3> SUFFICES ASSUME d.queue # <<>> PROVE d.idle = <<>> /\ d.workers # {}
      BY DEF Fed
    <3>1. d.idle = <<>>
      BY <1>8
    <3>2. d.workers = {} => d.pending = {}
      BY <1>8 DEF Booked, Stationed
    <3> QED BY <1>11, <3>1, <3>2 DEF Stranded
  <2> QED BY <1>8, <1>10, <2>1, <2>2 DEF Served
<1>12. CASE Stranded(d)
  <2> DEFINE O == [j \in Jobs |-> IF j \in Queued(d) THEN "error" ELSE d.outcome[j]]
  <2>1. q = [d EXCEPT !.queue = <<>>, !.outcome = O]
    BY <1>8, <1>9, <1>12 DEF Unstranded, Booked, Pools
  <2>2. d.workers = {} /\ d \in Pools /\ Stationed(d) /\ Placed(d)
    BY <1>8, <1>12 DEF Stranded, Booked
  <2>3. Busy(d) = {} /\ Idle(d) = {}
    BY <2>2 DEF Stationed
  <2>4. O \in [Jobs -> {"none", "open", "ok", "error"}] /\ <<>> \in Seq(Jobs)
    BY <2>2 DEF Pools
  <2>5. \A j \in Jobs : j \in Queued(d) <=> Waits(d, j)
    BY DEF Queued, Waits
  <2>6. \A j \in Jobs : O[j] = IF Waits(d, j) THEN "error" ELSE d.outcome[j]
    BY <2>5
  <2> HIDE DEF O
  <2>7. /\ q \in Pools /\ q.queue = <<>> /\ q.outcome = O
        /\ q.idle = d.idle /\ q.inflight = d.inflight /\ q.workers = d.workers
        /\ q.pending = d.pending /\ q.parses = d.parses /\ q.crashes = d.crashes
        /\ q.destroyed = d.destroyed /\ q.timer = d.timer
    BY <2>1, <2>2, <2>4 DEF Pools
  <2>8. Idle(q) = Idle(d) /\ Busy(q) = Busy(d)
    BY <2>7 DEF Idle, Busy
  <2>9. \A j \in Jobs : ~Waits(q, j) /\ (Handed(q, j) <=> Handed(d, j)) /\ ~Handed(d, j)
    <3>1. \A j \in Jobs : j # NoJob
      BY DEF Jobs, NoJob
    <3> QED BY <2>3, <2>7, <3>1 DEF Waits, Handed, Busy
  <2>10. Stationed(q)
    BY <2>2, <2>7, <2>8 DEF Stationed
  <2>11. Placed(q)
    <3>1. Distinct(q.queue)
      BY <2>7 DEF Distinct
    <3>2. \A j \in Jobs : q.outcome[j] = "open" <=> Waits(q, j) \/ Handed(q, j)
      <4>1. \A j \in Jobs : d.outcome[j] = "open" <=> Waits(d, j) \/ Handed(d, j)
        BY <2>2 DEF Placed
      <4> QED BY <2>6, <2>7, <2>9, <4>1
    <3>3. \A j \in Jobs : q.timer[j] # "off" <=> Handed(q, j)
      BY <2>2, <2>7, <2>9 DEF Placed
    <3>4. \A v, w \in Threads : q.inflight[v] = q.inflight[w] /\ q.inflight[v] # NoJob => v = w
      BY <2>2, <2>7 DEF Placed
    <3> QED BY <2>9, <3>1, <3>2, <3>3, <3>4 DEF Placed
  <2>12. Booked(q)
    BY <1>8, <2>7, <2>10, <2>11 DEF Booked
  <2>13. Fed(q)
    BY <2>7 DEF Fed
  <2>14. \A j \in Jobs : q.outcome[j] = p.outcome[j] \/ q.crashes >= CrashBudget
    <3> SUFFICES ASSUME NEW j \in Jobs, q.outcome[j] # p.outcome[j]
                 PROVE  q.crashes >= CrashBudget
      OBVIOUS
    <3>1. Waits(d, j)
      BY <1>10, <2>6, <2>7
    <3>2. Waits(g, j)
      BY <1>8, <3>1
    <3>3. p.queue # <<>>
      BY <1>7, <3>2 DEF Waits
    <3>4. ~Healthy(g) /\ ~g.destroyed
      BY <1>5, <1>6, <1>7, <1>8, <2>2, <3>3 DEF Booked
    <3>5. ~(g.crashes < CrashBudget) /\ g.crashes \in Nat
      BY <1>7, <3>4 DEF Healthy, Pools
    <3> QED BY <1>8, <2>7, <3>5 DEF ParsePoolAssumption
  <2>15. Served(p, q)
    BY <1>10, <2>7, <2>14 DEF Served
  <2> QED BY <2>12, <2>13, <2>15
<1> QED BY <1>11, <1>12
-----------------------------------------------------------------------------
(* From one state of the pool to the next.                                  *)

Messages == [kind : {"none", "loaded"}] \cup [kind : {"result"}, id : Jobs]

\* A pool p that the main thread may make of the one it has: its new workers have clean
\* threads, and those it keeps load and parse what they did or have done with that.
Follows(p) ==
  /\ \A w \in p.workers \ pool.workers : w \in Clean /\ w \in p.pending
  /\ \A w \in pool.pending \cap p.workers :
       w \in p.pending \/ (thread[w] # "loading" /\ mail'[w] = Nothing)
  /\ \A w \in Busy(pool) \cap p.workers :
       p.inflight[w] = pool.inflight[w] \/ (thread[w] # "parsing" /\ mail'[w] = Nothing)
  /\ \A j \in Jobs : Waits(pool, j) =>
       p.outcome[j] = "open" \/ p.destroyed \/ p.crashes >= CrashBudget

\* drain, and starting threads, may always follow.
LEMMA DrainFollows ==
  ASSUME ParsePoolAssumption, IInv, NEW p, Booked(p), Follows(p), NEW q, Booked(q), Served(p, q)
  PROVE  Follows(q)
<1>1. PICK W \in SUBSET (Clean \ p.workers) :
        q.workers = p.workers \cup W /\ q.pending = p.pending \cup W
  BY DEF Served
<1>2. \A w \in pool.workers : w \notin Clean
  BY DEF IInv, Present, Clean, TypeOK
<1>3. Busy(pool) \subseteq pool.workers /\ pool.pending \subseteq pool.workers
  BY DEF IInv, Booked, Stationed
<1>4. \A w \in q.workers \ pool.workers : w \in Clean /\ w \in q.pending
  BY <1>1 DEF Follows
<1>5. \A w \in pool.pending \cap q.workers :
        w \in q.pending \/ (thread[w] # "loading" /\ mail'[w] = Nothing)
  BY <1>1, <1>2, <1>3 DEF Follows
<1>6. \A w \in Busy(pool) \cap q.workers :
        q.inflight[w] = pool.inflight[w] \/ (thread[w] # "parsing" /\ mail'[w] = Nothing)
  <2> SUFFICES ASSUME NEW w \in Busy(pool) \cap q.workers,
                      ~(thread[w] # "parsing" /\ mail'[w] = Nothing)
               PROVE  q.inflight[w] = pool.inflight[w]
    OBVIOUS
  <2>1. w \in p.workers
    BY <1>1, <1>2, <1>3
  <2>2. p.inflight[w] = pool.inflight[w]
    BY <2>1 DEF Follows
  <2>3. w \in Busy(p)
    BY <2>2 DEF Busy
  <2> QED BY <2>2, <2>3 DEF Served
<1>7. \A j \in Jobs : Waits(pool, j) =>
        q.outcome[j] = "open" \/ q.destroyed \/ q.crashes >= CrashBudget
  <2>1. p.crashes \in Nat /\ q.crashes \in Nat /\ CrashBudget \in Nat
    BY DEF Booked, Pools, ParsePoolAssumption
  <2> QED BY <2>1 DEF Served, Follows
<1> QED BY <1>4, <1>5, <1>6, <1>7 DEF Follows

\* So does what starting threads leaves.
LEMMA StartFollows ==
  ASSUME ParsePoolAssumption, IInv, NEW p, Booked(p), Follows(p), NEW q, Booked(q),
         NEW W, StartedWith(p, q, W)
  PROVE  Follows(q)
<1>1. Served(p, q)
  BY DEF StartedWith, Served
<1> QED BY <1>1, DrainFollows

\* What holds of the pool's new value holds of the pool then.
LEMMA Carried ==
  ASSUME NEW q, pool' = q
  PROVE  (Booked(pool)' <=> Booked(q)) /\ (Fed(pool)' <=> Fed(q))
<1>1. Booked(pool)' <=> Booked(q)
  BY DEF Booked, Pools, Busy, Idle, Distinct, Stationed, Placed, Waits, Handed
<1>2. Fed(pool)' <=> Fed(q)
  BY DEF Fed
<1> QED BY <1>1, <1>2

\* The invariant holds of a pool that may follow, and who waited has not failed early.
LEMMA Becoming ==
  ASSUME ParsePoolAssumption, IInv, NEW q, Booked(q), Fed(q), Follows(q), BecomesPool(q),
         NEW heard \in SUBSET Threads, EventsAfter(heard), \A w \in heard : gone[w] > 0,
         heard \cap q.workers = {},
         mail' \in [Threads -> Messages], \A w \in Threads : mail'[w] \in {mail[w], Nothing}
  PROVE  IInv' /\ FailsNoneEarly
<1>1. pool' = q /\ q \in Pools /\ Cardinality(q.workers) <= MaxSize /\ Stationed(q)
  BY DEF BecomesPool, Booked
<1>2. /\ TypeOK /\ pool \in Pools /\ Stationed(pool) /\ Placed(pool) /\ Reported /\ Present
      /\ thread \in [Threads -> {"none", "loading", "waiting", "parsing", "dead"}]
      /\ mail \in [Threads -> Messages] /\ gone \in [Threads -> 0 .. 2]
  BY DEF IInv, Booked, TypeOK, Messages
<1>3. /\ \A w \in q.workers \ pool.workers : w \in Clean /\ w \in q.pending
      /\ \A w \in pool.pending \cap q.workers :
           w \in q.pending \/ (thread[w] # "loading" /\ mail'[w] = Nothing)
      /\ \A w \in Busy(pool) \cap q.workers :
           q.inflight[w] = pool.inflight[w] \/ (thread[w] # "parsing" /\ mail'[w] = Nothing)
  BY DEF Follows
<1>4. TypeOK'
  <2>1. thread' \in [Threads -> {"none", "loading", "waiting", "parsing", "dead"}]
    BY <1>2 DEF BecomesPool
  <2>2. gone' \in [Threads -> 0 .. 2]
    BY <1>2 DEF EventsAfter
  <2> QED BY <1>1, <2>1, <2>2 DEF TypeOK, Pools, Messages
<1>5. Booked(pool)' /\ Fed(pool)'
  BY <1>1, Carried
<1>6. Busy(pool)' = Busy(q)
  BY <1>1 DEF Busy
<1>7. \A w \in Threads : w \notin Busy(q) <=> q.inflight[w] = NoJob
  BY DEF Busy
<1>8. \A w \in Threads :
        thread'[w] = CASE w \in pool.workers \ q.workers -> "dead"
         [] w \in q.workers \ pool.workers -> "loading"
         [] /\ q.inflight[w] \notin {NoJob, pool.inflight[w]}
            /\ thread[w] # "dead" -> "parsing"
         [] OTHER -> thread[w]
  BY DEF BecomesPool
<1>9. Busy(q) \subseteq q.workers /\ q.pending \subseteq q.workers
      /\ q.pending \cap Busy(q) = {}
      /\ Busy(pool) \subseteq pool.workers /\ pool.pending \subseteq pool.workers
  BY <1>1, <1>2 DEF Stationed
<1>10. \A w \in Threads : thread'[w] =
         IF w \in pool.workers \ q.workers THEN "dead"
         ELSE IF w \in q.workers \ pool.workers THEN "loading"
         ELSE IF /\ q.inflight[w] \notin {NoJob, pool.inflight[w]}
                 /\ thread[w] # "dead" THEN "parsing"
         ELSE thread[w]
  <2> SUFFICES ASSUME NEW w \in Threads
               PROVE  thread'[w] =
                        IF w \in pool.workers \ q.workers THEN "dead"
                        ELSE IF w \in q.workers \ pool.workers THEN "loading"
                        ELSE IF /\ q.inflight[w] \notin {NoJob, pool.inflight[w]}
                                /\ thread[w] # "dead" THEN "parsing"
                        ELSE thread[w]
    OBVIOUS
  <2>1. w \in pool.workers \ q.workers => q.inflight[w] = NoJob
    BY <1>7, <1>9
  <2>2. w \in q.workers \ pool.workers => q.inflight[w] = NoJob
    BY <1>3, <1>7, <1>9
  <2> QED BY <1>8, <2>1, <2>2
<1>11. \A w \in Threads : mail[w] = Nothing \/ mail[w].kind \in {"loaded", "result"}
  BY <1>2 DEF Messages, Nothing
<1>12. Nothing.kind = "none"
  BY DEF Nothing
<1>13. \A w \in Clean : mail[w] = Nothing
  BY DEF Clean
<1>14. Reported'
  <2> SUFFICES ASSUME NEW w \in Threads
               PROVE  /\ mail'[w].kind = "loaded" /\ w \in q.workers => w \in q.pending
                      /\ mail'[w].kind = "result" /\ w \in q.workers => w \in Busy(q)
                      /\ thread'[w] = "loading" => w \in q.pending /\ mail'[w] = Nothing
                      /\ thread'[w] = "parsing" => w \in Busy(q) /\ mail'[w] = Nothing
    BY <1>1, <1>6 DEF Reported
  <2>1. /\ mail[w].kind = "loaded" /\ w \in pool.workers => w \in pool.pending
        /\ mail[w].kind = "result" /\ w \in pool.workers => w \in Busy(pool)
        /\ thread[w] = "loading" => w \in pool.pending /\ mail[w] = Nothing
        /\ thread[w] = "parsing" => w \in Busy(pool) /\ mail[w] = Nothing
    BY <1>2 DEF Reported
  <2>2. mail'[w] \in {mail[w], Nothing}
    OBVIOUS
  <2>3. mail'[w].kind = "loaded" /\ w \in q.workers => w \in q.pending
    BY <1>3, <1>12, <1>13, <2>1, <2>2
  <2>4. mail'[w].kind = "result" /\ w \in q.workers => w \in Busy(q)
    <3> SUFFICES ASSUME mail'[w].kind = "result", w \in q.workers PROVE w \in Busy(q)
      OBVIOUS
    <3>1. w \in Busy(pool)
      BY <1>3, <1>12, <1>13, <2>1, <2>2
    <3>2. q.inflight[w] = pool.inflight[w]
      BY <1>3, <1>12, <3>1
    <3> QED BY <3>1, <3>2 DEF Busy
  <2>5. thread'[w] = "loading" => w \in q.pending /\ mail'[w] = Nothing
    BY <1>3, <1>9, <1>10, <1>13, <2>1, <2>2
  <2>6. thread'[w] = "parsing" => w \in Busy(q) /\ mail'[w] = Nothing
    <3>1. CASE /\ w \notin pool.workers \ q.workers /\ w \notin q.workers \ pool.workers
               /\ q.inflight[w] \notin {NoJob, pool.inflight[w]}
      <4>1. w \in Busy(q) /\ w \in pool.workers /\ w \notin q.pending
        BY <1>7, <1>9, <3>1
      <4>2. mail[w].kind = "loaded" => mail'[w] = Nothing
        BY <1>3, <1>9, <2>1, <4>1
      <4>3. mail[w].kind = "result" => mail'[w] = Nothing
        BY <1>3, <1>9, <2>1, <3>1, <4>1
      <4> QED BY <1>11, <2>2, <4>1, <4>2, <4>3
    <3>2. CASE /\ w \notin pool.workers \ q.workers /\ w \notin q.workers \ pool.workers
               /\ q.inflight[w] \in {NoJob, pool.inflight[w]}
      <4> SUFFICES ASSUME thread'[w] = "parsing" PROVE w \in Busy(q) /\ mail'[w] = Nothing
        OBVIOUS
      <4>1. thread[w] = "parsing"
        BY <1>10, <3>2
      <4>2. w \in Busy(pool) /\ mail[w] = Nothing /\ w \in q.workers
        BY <1>9, <2>1, <3>2, <4>1
      <4>3. q.inflight[w] = pool.inflight[w]
        BY <1>3, <4>1, <4>2
      <4> QED BY <2>2, <4>2, <4>3 DEF Busy
    <3> QED BY <1>10, <3>1, <3>2
  <2> QED BY <2>3, <2>4, <2>5, <2>6
<1>15. Present'
  <2> SUFFICES ASSUME NEW w \in q.workers
               PROVE  thread'[w] # "none" /\ (thread'[w] = "dead" => gone'[w] > 0)
    BY <1>1 DEF Present
  <2>1. w \in Threads
    BY <1>1 DEF Pools
  <2>2. gone'[w] = gone[w]
    BY <1>1, <2>1 DEF EventsAfter, Terminates
  <2>3. w \in pool.workers => thread[w] # "none" /\ (thread[w] = "dead" => gone[w] > 0)
    BY <1>2 DEF Present
  <2> QED BY <1>10, <2>1, <2>2, <2>3
<1>16. FailsNoneEarly
  <2>1. \A j \in Queued(pool) : j \in Jobs /\ Waits(pool, j)
    BY <1>2 DEF Queued, Waits, Pools
  <2> QED BY <1>1, <2>1 DEF FailsNoneEarly, Follows
<1> QED BY <1>4, <1>5, <1>14, <1>15, <1>16 DEF IInv

\* An event after whose books the pool is drained.
LEMMA DrainedStep ==
  ASSUME ParsePoolAssumption, IInv, NEW p, Booked(p), Follows(p),
         NEW q \in Drained(p), BecomesPool(q),
         NEW heard \in SUBSET Threads, EventsAfter(heard), \A w \in heard : gone[w] > 0,
         heard \cap p.workers = {}, heard \cap Clean = {},
         mail' \in [Threads -> Messages], \A w \in Threads : mail'[w] \in {mail[w], Nothing}
  PROVE  IInv' /\ FailsNoneEarly
<1>1. Booked(q) /\ Fed(q) /\ Served(p, q)
  BY Draining
<1>2. Follows(q)
  BY <1>1, DrainFollows
<1>3. heard \cap q.workers = {}
  BY <1>1 DEF Served
<1> QED BY <1>1, <1>2, <1>3, Becoming
-----------------------------------------------------------------------------
(* The list of idle workers.                                                *)

\* A worker joins the idle ones once.
LEMMA Joining ==
  ASSUME NEW p \in Pools, NEW w \in Threads \ Idle(p), Distinct(p.idle),
         NEW q, q.idle = Append(p.idle, w)
  PROVE  Idle(q) = Idle(p) \cup {w} /\ Distinct(q.idle) /\ q.idle \in Seq(Threads)
<1>1. p.idle \in Seq(Threads) /\ Len(p.idle) \in Nat
  BY DEF Pools
<1>2. /\ Len(q.idle) = Len(p.idle) + 1 /\ q.idle[Len(p.idle) + 1] = w
      /\ \A i \in 1 .. Len(p.idle) : q.idle[i] = p.idle[i]
      /\ q.idle \in Seq(Threads)
  BY <1>1
<1>3. 1 .. Len(p.idle) + 1 = 1 .. Len(p.idle) \cup {Len(p.idle) + 1}
  BY <1>1
<1>4. \A i \in 1 .. Len(p.idle) : p.idle[i] # w
  BY DEF Idle
<1>5. \A i, j \in 1 .. Len(p.idle) \cup {Len(p.idle) + 1} : q.idle[i] = q.idle[j] => i = j
  BY <1>2, <1>4 DEF Distinct
<1>6. Idle(q) = {q.idle[i] : i \in 1 .. Len(p.idle) \cup {Len(p.idle) + 1}}
  BY <1>2, <1>3 DEF Idle
<1>7. Idle(q) = Idle(p) \cup {w}
  BY <1>2, <1>6 DEF Idle
<1> QED BY <1>2, <1>3, <1>5, <1>7 DEF Distinct

\* What two sequences make one after the other.
LEMMA Concatenated ==
  ASSUME NEW S, NEW a \in Seq(S), NEW b \in Seq(S)
  PROVE  /\ a \o b \in Seq(S) /\ Len(a \o b) = Len(a) + Len(b)
         /\ \A i \in 1 .. Len(a) : (a \o b)[i] = a[i]
         /\ \A i \in 1 .. Len(b) : (a \o b)[Len(a) + i] = b[i]
OBVIOUS

\* A worker that is gone is idle no more.
Members(s) == {s[i] : i \in 1 .. Len(s)}
LEMMA Leaving ==
  ASSUME NEW idle \in Seq(Threads), Distinct(idle), NEW w \in Threads,
         NEW left, left = Without(idle, w)
  PROVE  /\ left \in Seq(Threads) /\ Distinct(left)
         /\ Members(left) = Members(idle) \ {w}
<1>1. CASE \A i \in 1 .. Len(idle) : idle[i] # w
  <2>1. left = idle
    BY <1>1 DEF Without
  <2> QED BY <1>1, <2>1 DEF Members
<1>2. CASE \E i \in 1 .. Len(idle) : idle[i] = w
  <2> DEFINE at == CHOOSE i \in 1 .. Len(idle) : idle[i] = w
  <2>1. at \in 1 .. Len(idle) /\ idle[at] = w
    BY <1>2
  <2>2. left = SubSeq(idle, 1, at - 1) \o SubSeq(idle, at + 1, Len(idle))
    BY <1>2 DEF Without
  <2> HIDE DEF at
  <2>3. Len(idle) \in Nat
    OBVIOUS
  <2>4. /\ SubSeq(idle, 1, at - 1) \in Seq(Threads) /\ Len(SubSeq(idle, 1, at - 1)) = at - 1
        /\ \A i \in 1 .. at - 1 : SubSeq(idle, 1, at - 1)[i] = idle[i]
    BY <2>1, <2>3
  <2>5. /\ SubSeq(idle, at + 1, Len(idle)) \in Seq(Threads)
        /\ Len(SubSeq(idle, at + 1, Len(idle))) = Len(idle) - at
        /\ \A i \in 1 .. Len(idle) - at : SubSeq(idle, at + 1, Len(idle))[i] = idle[at + i]
    BY <2>1, <2>3
  <2>12. /\ left \in Seq(Threads) /\ Len(left) = (at - 1) + (Len(idle) - at)
         /\ \A i \in 1 .. at - 1 : left[i] = idle[i]
         /\ \A i \in 1 .. Len(idle) - at : left[at - 1 + i] = idle[at + i]
    <3> DEFINE A == SubSeq(idle, 1, at - 1)
               B == SubSeq(idle, at + 1, Len(idle))
    <3>1. /\ A \in Seq(Threads) /\ Len(A) = at - 1 /\ \A i \in 1 .. at - 1 : A[i] = idle[i]
          /\ B \in Seq(Threads) /\ Len(B) = Len(idle) - at
          /\ \A i \in 1 .. Len(idle) - at : B[i] = idle[at + i]
          /\ left = A \o B
      BY <2>2, <2>4, <2>5
    <3> HIDE DEF A, B
    <3>2. /\ A \o B \in Seq(Threads) /\ Len(A \o B) = Len(A) + Len(B)
          /\ \A i \in 1 .. Len(A) : (A \o B)[i] = A[i]
          /\ \A i \in 1 .. Len(B) : (A \o B)[Len(A) + i] = B[i]
      <4>1. A \in Seq(Threads) /\ B \in Seq(Threads)
        BY <3>1
      <4> QED BY ONLY <4>1, Concatenated
    <3> QED BY <3>1, <3>2
  <2>6. left \in Seq(Threads) /\ Len(left) = Len(idle) - 1
    BY <2>1, <2>3, <2>12
  <2>7. \A i \in 1 .. Len(idle) - 1 : left[i] = IF i < at THEN idle[i] ELSE idle[i + 1]
    <3> SUFFICES ASSUME NEW i \in 1 .. Len(idle) - 1
                 PROVE  left[i] = IF i < at THEN idle[i] ELSE idle[i + 1]
      OBVIOUS
    <3>1. CASE i < at
      BY <2>1, <2>3, <2>12, <3>1
    <3>2. CASE ~(i < at)
      <4>1. i - (at - 1) \in 1 .. Len(idle) - at /\ at + (i - (at - 1)) = i + 1
        BY <2>1, <2>3, <3>2
      <4>2. at - 1 + (i - (at - 1)) = i
        BY <2>1, <2>3
      <4> QED BY <2>12, <3>2, <4>1, <4>2
    <3> QED BY <3>1, <3>2
  <2>8. Distinct(left)
    <3> SUFFICES ASSUME NEW i \in 1 .. Len(idle) - 1, NEW j \in 1 .. Len(idle) - 1,
                        left[i] = left[j]
                 PROVE  i = j
      BY <2>6 DEF Distinct
    <3> DEFINE old(k) == IF k < at THEN k ELSE k + 1
    <3>1. old(i) \in 1 .. Len(idle) /\ old(j) \in 1 .. Len(idle)
      BY <2>1, <2>3
    <3>2. idle[old(i)] = idle[old(j)]
      BY <2>7
    <3>3. old(i) = old(j)
      BY <3>1, <3>2 DEF Distinct
    <3> QED BY <2>1, <2>3, <3>3
  <2>9. \A i \in 1 .. Len(idle) : i # at => \E j \in 1 .. Len(left) : left[j] = idle[i]
    <3> SUFFICES ASSUME NEW i \in 1 .. Len(idle), i # at
                 PROVE  \E j \in 1 .. Len(left) : left[j] = idle[i]
      OBVIOUS
    <3> DEFINE j == IF i < at THEN i ELSE i - 1
    <3>1. j \in 1 .. Len(left) /\ left[j] = idle[i]
      BY <2>1, <2>3, <2>6, <2>7
    <3> QED BY <3>1
  <2>10. \A j \in 1 .. Len(left) : \E i \in 1 .. Len(idle) : i # at /\ left[j] = idle[i]
    <3> SUFFICES ASSUME NEW j \in 1 .. Len(left)
                 PROVE  \E i \in 1 .. Len(idle) : i # at /\ left[j] = idle[i]
      OBVIOUS
    <3> DEFINE i == IF j < at THEN j ELSE j + 1
    <3>1. i \in 1 .. Len(idle) /\ i # at /\ left[j] = idle[i]
      BY <2>1, <2>3, <2>6, <2>7
    <3> QED BY <3>1
  <2>11. \A i \in 1 .. Len(idle) : idle[i] = w <=> i = at
    BY <2>1 DEF Distinct
  <2>13. \A x : (\E j \in 1 .. Len(left) : x = left[j]) <=>
                (\E i \in 1 .. Len(idle) : x = idle[i]) /\ x # w
    <3> SUFFICES ASSUME NEW x
                 PROVE  (\E j \in 1 .. Len(left) : x = left[j]) <=>
                          (\E i \in 1 .. Len(idle) : x = idle[i]) /\ x # w
      OBVIOUS
    <3>1. ASSUME NEW j \in 1 .. Len(left), x = left[j]
          PROVE  (\E i \in 1 .. Len(idle) : x = idle[i]) /\ x # w
      BY <2>10, <2>11, <3>1
    <3>2. ASSUME NEW i \in 1 .. Len(idle), x = idle[i], x # w
          PROVE  \E j \in 1 .. Len(left) : x = left[j]
      BY <2>1, <2>9, <3>2
    <3> QED BY <3>1, <3>2
  <2>14. Members(left) = Members(idle) \ {w}
    BY <2>13 DEF Members
  <2> QED BY <2>6, <2>8, <2>14
<1> QED BY <1>1, <1>2

\* The idle workers are as many as the pool has on its list.
LEMMA IdleCount ==
  ASSUME NEW p \in Pools, Distinct(p.idle) PROVE Cardinality(Idle(p)) = Len(p.idle)
<1>1. Len(p.idle) \in Nat
  BY DEF Pools
<1>2. IsFiniteSet(1 .. Len(p.idle)) /\ Cardinality(1 .. Len(p.idle)) = Len(p.idle)
  <2> DEFINE n == Len(p.idle)
  <2>1. 1 \in Int /\ n \in Int /\ (IF 1 > n THEN 0 ELSE n - 1 + 1) = n
    BY <1>1
  <2> HIDE DEF n
  <2>2. IsFiniteSet(1 .. n) /\ Cardinality(1 .. n) = n
    BY <2>1, FS_Interval
  <2> QED BY <2>2 DEF n
<1> DEFINE f == [i \in 1 .. Len(p.idle) |-> p.idle[i]]
<1>3. f \in Injection(1 .. Len(p.idle), Idle(p)) /\ f \in Surjection(1 .. Len(p.idle), Idle(p))
  BY DEF Injection, IsInjective, Surjection, Idle, Distinct
<1>4. f \in Bijection(1 .. Len(p.idle), Idle(p))
  BY <1>3 DEF Bijection
<1>5. ExistsBijection(1 .. Len(p.idle), Idle(p))
  BY <1>4 DEF ExistsBijection
<1> QED BY <1>2, <1>5, FS_Bijection

-----------------------------------------------------------------------------
(* Steps that leave the pool as it is.                                      *)

\* Who waits is owed an answer.
LEMMA QueuedIsOpen ==
  ASSUME NEW p, Booked(p) PROVE \A j \in Queued(p) : p.outcome[j] = "open"
<1>1. p \in Pools /\ Placed(p)
  BY DEF Booked
<1>2. \A j \in Queued(p) : j \in Jobs /\ Waits(p, j)
  BY <1>1 DEF Queued, Waits, Pools
<1> QED BY <1>1, <1>2 DEF Placed

\* An event that the pool does not heed.
LEMMA UnheededStep ==
  ASSUME ParsePoolAssumption, IInv, pool' = pool, thread' = thread,
         mail' \in [Threads -> Messages], \A w \in Threads : mail'[w] \in {mail[w], Nothing},
         gone' \in [Threads -> 0 .. 2], \A w \in pool.workers : gone'[w] = gone[w]
  PROVE  IInv' /\ FailsNoneEarly
<1>1. Booked(pool)' /\ Fed(pool)'
  BY Carried DEF IInv
<1>2. TypeOK'
  BY DEF IInv, TypeOK, Messages
<1>3. Reported'
  <2>1. Busy(pool)' = Busy(pool) /\ Nothing.kind = "none" /\ Reported
    BY DEF Busy, Nothing, IInv
  <2> QED BY <2>1 DEF Reported
<1>4. Present'
  BY DEF Present, IInv
<1>5. FailsNoneEarly
  BY QueuedIsOpen DEF FailsNoneEarly, IInv
<1> QED BY <1>1, <1>2, <1>3, <1>4, <1>5 DEF IInv

\* A step of a thread: from what the pool has told it to do to where it has ended that.
LEMMA ThreadStep ==
  ASSUME ParsePoolAssumption, IInv, NEW w \in Threads, Load(w) \/ Parse(w) \/ Die(w)
  PROVE  IInv' /\ FailsNoneEarly
<1>1. pool' = pool /\ Nothing.kind = "none"
  BY DEF Load, Parse, Die, Nothing
<1>2. Booked(pool)' /\ Fed(pool)' /\ Busy(pool)' = Busy(pool)
  BY <1>1, Carried DEF IInv, Busy
<1>3. /\ thread \in [Threads -> {"none", "loading", "waiting", "parsing", "dead"}]
      /\ mail \in [Threads -> Messages] /\ gone \in [Threads -> 0 .. 2] /\ Reported /\ Present
  BY DEF IInv, TypeOK, Messages
<1>4. /\ thread' \in [Threads -> {"none", "loading", "waiting", "parsing", "dead"}]
      /\ \A v \in Threads \ {w} : thread'[v] = thread[v]
      /\ thread'[w] \in {"waiting", "dead"}
  BY <1>3 DEF Load, Parse, Die
<1>5. /\ gone' \in [Threads -> 0 .. 2] /\ \A v \in Threads \ {w} : gone'[v] = gone[v]
      /\ (thread'[w] = "dead" => gone'[w] > 0)
  <2>1. CASE Load(w) \/ Parse(w)
    <3>1. gone' = gone /\ thread'[w] = "waiting"
      BY <1>3, <2>1 DEF Load, Parse
    <3> QED BY <1>3, <3>1
  <2>2. CASE Die(w)
    <3>1. gone' = [gone EXCEPT ![w] = 2]
      BY <2>2 DEF Die
    <3> QED BY <1>3, <3>1
  <2> QED BY <2>1, <2>2
<1>6. /\ mail' \in [Threads -> Messages] /\ \A v \in Threads \ {w} : mail'[v] = mail[v]
      /\ \/ mail'[w] \in {mail[w], Nothing}
         \/ mail'[w].kind = "loaded" /\ thread[w] = "loading"
         \/ mail'[w].kind = "result" /\ thread[w] = "parsing"
  <2>1. CASE Load(w)
    <3> DEFINE m == [kind |-> "loaded"]
    <3>1. m \in Messages /\ m.kind = "loaded"
      BY DEF Messages
    <3>2. mail' = [mail EXCEPT ![w] = m] /\ thread[w] = "loading"
      BY <2>1 DEF Load
    <3> HIDE DEF m
    <3> QED BY <1>3, <3>1, <3>2
  <2>2. CASE Parse(w)
    <3> DEFINE m == [kind |-> "result", id |-> pool.inflight[w]]
    <3>1. pool.inflight[w] \in Jobs
      BY <1>3, <2>2 DEF Parse, Reported, Busy, IInv, TypeOK
    <3>2. m \in Messages /\ m.kind = "result"
      BY <3>1 DEF Messages
    <3>3. mail' = [mail EXCEPT ![w] = m] /\ thread[w] = "parsing"
      BY <2>2 DEF Parse
    <3> HIDE DEF m
    <3> QED BY <1>3, <3>2, <3>3
  <2>3. CASE Die(w)
    <3>1. Nothing \in Messages
      BY DEF Nothing, Messages
    <3>2. mail' \in {mail, [mail EXCEPT ![w] = Nothing]}
      BY <2>3 DEF Die
    <3> QED BY <1>3, <3>1, <3>2
  <2> QED BY <2>1, <2>2, <2>3
<1>7. TypeOK'
  BY <1>1, <1>4, <1>5, <1>6 DEF IInv, TypeOK, Messages
<1>8. Reported'
  BY <1>1, <1>2, <1>3, <1>4, <1>6 DEF Reported
<1>9. Present'
  <2>1. pool.workers \subseteq Threads
    BY DEF IInv, TypeOK
  <2> SUFFICES ASSUME NEW v \in pool.workers
               PROVE  thread'[v] # "none" /\ (thread'[v] = "dead" => gone'[v] > 0)
    BY <1>1 DEF Present
  <2>2. thread[v] # "none" /\ (thread[v] = "dead" => gone[v] > 0) /\ v \in Threads
    BY <1>3, <2>1 DEF Present
  <2>3. CASE v = w
    <3>1. thread'[w] # "none" /\ (thread'[w] = "dead" => gone'[w] > 0)
      BY <1>4, <1>5
    <3> QED BY ONLY <2>3, <3>1
  <2>4. CASE v # w
    BY <1>4, <1>5, <2>2, <2>4
  <2> QED BY <2>3, <2>4
<1>10. FailsNoneEarly
  BY <1>1, QueuedIsOpen DEF FailsNoneEarly, IInv
<1> QED BY <1>2, <1>7, <1>8, <1>9, <1>10 DEF IInv

\* The first timer of a parse makes way for the second.
LEMMA OnTimeoutStep ==
  ASSUME ParsePoolAssumption, IInv, NEW w \in Threads, OnTimeout(w)
  PROVE  IInv' /\ FailsNoneEarly
<1> DEFINE j == pool.inflight[w]
           q == [pool EXCEPT !.timer[j] = "hard"]
<1>1. pool' = q /\ thread' = thread /\ mail' = mail /\ gone' = gone /\ j # NoJob
  BY DEF OnTimeout
<1>2. TypeOK /\ pool \in Pools /\ Booked(pool) /\ Fed(pool)
  BY DEF IInv, Booked
<1>3. j \in Jobs
  BY <1>1, <1>2 DEF Pools
<1>4. /\ q \in Pools /\ q.idle = pool.idle /\ q.queue = pool.queue /\ q.outcome = pool.outcome
      /\ q.inflight = pool.inflight /\ q.workers = pool.workers /\ q.pending = pool.pending
      /\ q.parses = pool.parses /\ q.crashes = pool.crashes /\ q.destroyed = pool.destroyed
      /\ \A i \in Jobs : q.timer[i] = IF i = j THEN "hard" ELSE pool.timer[i]
  BY <1>2, <1>3 DEF Pools
<1> HIDE DEF q
<1>5. Idle(q) = Idle(pool) /\ Busy(q) = Busy(pool)
  BY <1>4 DEF Idle, Busy
<1>6. Booked(q)
  <2>1. Stationed(q)
    BY <1>2, <1>4, <1>5 DEF Booked, Stationed
  <2>2. \A i \in Jobs : (Waits(q, i) <=> Waits(pool, i)) /\ (Handed(q, i) <=> Handed(pool, i))
    BY <1>4 DEF Waits, Handed
  <2>3. Handed(pool, j)
    BY DEF Handed
  <2>4. \A i \in Jobs : q.timer[i] # "off" <=> Handed(q, i)
    BY <1>2, <1>4, <2>2, <2>3 DEF Booked, Placed
  <2>5. Placed(q)
    BY <1>2, <1>4, <2>2, <2>4 DEF Booked, Placed
  <2> QED BY <1>2, <1>4, <2>1, <2>5 DEF Booked
<1>7. Booked(pool)' /\ Fed(pool)'
  <2>1. Fed(q)
    BY <1>2, <1>4 DEF Fed
  <2> QED BY <1>1, <1>6, <2>1, Carried
<1>8. TypeOK'
  BY <1>1, <1>2, <1>4 DEF TypeOK, Pools
<1>9. Reported' /\ Present'
  <2>1. Busy(pool)' = Busy(pool) /\ Reported /\ Present
    BY <1>1, <1>5 DEF Busy, IInv
  <2> QED BY <1>1, <1>4, <2>1 DEF Reported, Present
<1>10. FailsNoneEarly
  BY <1>1, <1>2, <1>4, QueuedIsOpen DEF FailsNoneEarly
<1> QED BY <1>7, <1>8, <1>9, <1>10 DEF IInv
-----------------------------------------------------------------------------
(* The calls of the orchestrator.                                           *)

\* The constructor has started one worker.
LEMMA PoolInit == ASSUME ParsePoolAssumption, Init PROVE IInv
<1> DEFINE first == CHOOSE w \in Threads : TRUE
<1>1. first \in Threads /\ 0 < RecycleInterval /\ RecycleInterval \in Nat
  BY DEF ParsePoolAssumption
<1>2. /\ pool = [idle |-> <<>>, queue |-> <<>>, inflight |-> [w \in Threads |-> NoJob],
                 workers |-> {first}, pending |-> {first},
                 parses |-> [w \in Threads |-> 0], crashes |-> 0, destroyed |-> FALSE,
                 outcome |-> [j \in Jobs |-> "none"], timer |-> [j \in Jobs |-> "off"]]
      /\ thread = [w \in Threads |-> IF w = first THEN "loading" ELSE "none"]
      /\ mail = [w \in Threads |-> Nothing] /\ gone = [w \in Threads |-> 0]
  BY DEF Init
<1> HIDE DEF first
<1>3. pool \in Pools
  <2>1. 0 \in 0 .. RecycleInterval /\ <<>> \in Seq(Threads) /\ <<>> \in Seq(Jobs)
    BY <1>1
  <2> QED BY <1>1, <1>2, <2>1 DEF Pools
<1>4. IsFiniteSet(pool.workers) /\ Cardinality(pool.workers) <= MaxSize
  <2>1. IsFiniteSet({first}) /\ Cardinality({first}) = 1
    BY FS_Singleton
  <2> QED BY <1>2, <2>1 DEF ParsePoolAssumption
<1>5. TypeOK
  <2>1. Nothing \in Messages
    BY DEF Nothing, Messages
  <2>2. thread \in [Threads -> {"none", "loading", "waiting", "parsing", "dead"}]
        /\ mail \in [Threads -> Messages] /\ gone \in [Threads -> 0 .. 2]
    BY <1>2, <2>1
  <2> QED BY <1>3, <1>4, <2>2 DEF TypeOK, Pools, Messages
<1>6. Idle(pool) = {} /\ Busy(pool) = {}
  BY <1>2 DEF Idle, Busy
<1>7. Stationed(pool)
  <2>1. Distinct(pool.idle)
    BY <1>2 DEF Distinct
  <2> QED BY <1>1, <1>2, <1>6, <2>1 DEF Stationed
<1>8. Placed(pool)
  <2>1. \A j \in Jobs : ~Waits(pool, j) /\ ~Handed(pool, j)
    BY <1>2 DEF Waits, Handed, NoJob, Jobs
  <2>2. Distinct(pool.queue)
    BY <1>2 DEF Distinct
  <2>3. \A w \in Threads : pool.inflight[w] = NoJob
    BY <1>2
  <2>4. \A j \in Jobs : pool.outcome[j] = "none" /\ pool.timer[j] = "off"
    BY <1>2
  <2> QED BY <2>1, <2>2, <2>3, <2>4 DEF Placed
<1>9. Booked(pool) /\ Fed(pool)
  BY <1>2, <1>3, <1>4, <1>7, <1>8 DEF Booked, Fed
<1>10. Reported /\ Present
  BY <1>1, <1>2 DEF Reported, Present, Nothing
<1> QED BY <1>5, <1>9, <1>10 DEF IInv

\* A parse that is asked for waits behind the others, and nobody else moves.
LEMMA Queueing ==
  ASSUME ParsePoolAssumption, IInv, NEW j \in Jobs, pool.outcome[j] = "none", ~pool.destroyed,
         NEW p, p = [pool EXCEPT !.outcome[j] = "open", !.queue = Append(@, j)]
  PROVE  Booked(p) /\ Follows(p)
<1>1. pool \in Pools /\ Booked(pool) /\ Stationed(pool) /\ Placed(pool)
  BY DEF IInv, Booked
<1> DEFINE n == Len(pool.queue)
<1>2. pool.queue \in Seq(Jobs) /\ n \in Nat /\ \A i \in 1 .. n : pool.queue[i] \in Jobs
  BY <1>1 DEF Pools
<1>3. /\ p \in Pools /\ p.queue = Append(pool.queue, j) /\ p.idle = pool.idle
      /\ p.inflight = pool.inflight /\ p.workers = pool.workers /\ p.pending = pool.pending
      /\ p.parses = pool.parses /\ p.crashes = pool.crashes /\ p.destroyed = pool.destroyed
      /\ p.timer = pool.timer
      /\ \A i \in Jobs : p.outcome[i] = IF i = j THEN "open" ELSE pool.outcome[i]
  <2>1. Append(pool.queue, j) \in Seq(Jobs)
    BY <1>2
  <2> QED BY <1>1, <2>1 DEF Pools
<1>4. /\ Len(p.queue) = n + 1 /\ p.queue[n + 1] = j
      /\ \A i \in 1 .. n : p.queue[i] = pool.queue[i]
  BY <1>2, <1>3
<1>5. ~Waits(pool, j) /\ ~Handed(pool, j)
  BY <1>1 DEF Placed
<1>6. 1 .. n + 1 = 1 .. n \cup {n + 1}
  BY <1>2
<1>7. \A i \in Jobs : Waits(p, i) <=> Waits(pool, i) \/ i = j
  BY <1>4, <1>6 DEF Waits
<1>8. \A i \in Jobs : Handed(p, i) <=> Handed(pool, i)
  BY <1>3 DEF Handed
<1>9. Idle(p) = Idle(pool) /\ Busy(p) = Busy(pool)
  BY <1>3 DEF Idle, Busy
<1>10. Stationed(p)
  BY <1>1, <1>3, <1>9 DEF Stationed
<1>11. Distinct(p.queue)
  <2>1. \A i \in 1 .. n : p.queue[i] # j
    BY <1>4, <1>5 DEF Waits
  <2>2. \A a, b \in 1 .. n \cup {n + 1} : p.queue[a] = p.queue[b] => a = b
    BY <1>1, <1>4, <2>1 DEF Placed, Distinct
  <2> QED BY <1>4, <1>6, <2>2 DEF Distinct
<1>12. Placed(p)
  <2>1. \A i \in Jobs : ~(Waits(p, i) /\ Handed(p, i))
    BY <1>1, <1>5, <1>7, <1>8 DEF Placed
  <2>2. \A i \in Jobs : p.outcome[i] = "open" <=> Waits(p, i) \/ Handed(p, i)
    BY <1>1, <1>3, <1>7, <1>8 DEF Placed
  <2>3. \A i \in Jobs : p.timer[i] # "off" <=> Handed(p, i)
    BY <1>1, <1>3, <1>8 DEF Placed
  <2>4. \A v, w \in Threads : p.inflight[v] = p.inflight[w] /\ p.inflight[v] # NoJob => v = w
    BY <1>1, <1>3 DEF Placed
  <2> QED BY <1>11, <2>1, <2>2, <2>3, <2>4 DEF Placed
<1>13. Follows(p)
  BY <1>1, <1>3 DEF Follows, Placed
<1> QED BY <1>1, <1>3, <1>10, <1>12, <1>13 DEF Booked

\* A destroyed pool fails what it is asked, and has nobody to ask.
LEMMA Refusing ==
  ASSUME ParsePoolAssumption, IInv, NEW j \in Jobs, pool.outcome[j] = "none", pool.destroyed,
         NEW p, p = [pool EXCEPT !.outcome[j] = "error"]
  PROVE  Booked(p) /\ Fed(p) /\ Follows(p)
<1>1. pool \in Pools /\ Booked(pool) /\ Stationed(pool) /\ Placed(pool) /\ Fed(pool)
  BY DEF IInv, Booked
<1>2. /\ p \in Pools /\ p.queue = pool.queue /\ p.idle = pool.idle
      /\ p.inflight = pool.inflight /\ p.workers = pool.workers /\ p.pending = pool.pending
      /\ p.parses = pool.parses /\ p.crashes = pool.crashes /\ p.destroyed = pool.destroyed
      /\ p.timer = pool.timer
      /\ \A i \in Jobs : p.outcome[i] = IF i = j THEN "error" ELSE pool.outcome[i]
  BY <1>1 DEF Pools
<1>3. \A i \in Jobs : (Waits(p, i) <=> Waits(pool, i)) /\ (Handed(p, i) <=> Handed(pool, i))
  BY <1>2 DEF Waits, Handed
<1>4. Idle(p) = Idle(pool) /\ Busy(p) = Busy(pool)
  BY <1>2 DEF Idle, Busy
<1>5. Stationed(p)
  BY <1>1, <1>2, <1>4 DEF Stationed
<1>6. Placed(p)
  <2>1. ~Waits(pool, j) /\ ~Handed(pool, j)
    BY <1>1 DEF Placed
  <2> QED BY <1>1, <1>2, <1>3, <2>1 DEF Placed
<1>7. Follows(p)
  BY <1>1, <1>2 DEF Follows
<1>8. Fed(p)
  BY <1>1, <1>2 DEF Fed
<1> QED BY <1>1, <1>2, <1>5, <1>6, <1>7, <1>8 DEF Booked

\* requestParse.
LEMMA RequestParseStep ==
  ASSUME ParsePoolAssumption, IInv, NEW j \in Jobs, RequestParse(j)
  PROVE  IInv' /\ FailsNoneEarly
<1>1. pool.outcome[j] = "none" /\ EventsAfter({}) /\ mail' = mail
  BY DEF RequestParse
<1>2. mail' \in [Threads -> Messages] /\ \A w \in Threads : mail'[w] \in {mail[w], Nothing}
  BY <1>1 DEF IInv, TypeOK, Messages
<1>3. CASE pool.destroyed
  <2> DEFINE p == [pool EXCEPT !.outcome[j] = "error"]
  <2>1. BecomesPool(p)
    BY <1>3 DEF RequestParse
  <2>2. p = [pool EXCEPT !.outcome[j] = "error"]
    OBVIOUS
  <2> HIDE DEF p
  <2>3. Booked(p) /\ Fed(p) /\ Follows(p)
    BY <1>1, <1>3, <2>2, Refusing
  <2> QED BY <1>1, <1>2, <2>1, <2>3, Becoming
<1>4. CASE ~pool.destroyed
  <2> DEFINE p == [pool EXCEPT !.outcome[j] = "open", !.queue = Append(@, j)]
  <2>1. PICK q \in Drained(p) : BecomesPool(q)
    BY <1>4 DEF RequestParse
  <2>2. p = [pool EXCEPT !.outcome[j] = "open", !.queue = Append(@, j)]
    OBVIOUS
  <2> HIDE DEF p
  <2>3. Booked(p) /\ Follows(p)
    BY <1>1, <1>4, <2>2, Queueing
  <2> QED BY <1>1, <1>2, <2>1, <2>3, DrainedStep
<1> QED BY <1>3, <1>4
-----------------------------------------------------------------------------
(* Workers that have parsed, or are gone.                                   *)

\* A pool p that has taken its parse from w and answered that.
Freed(p, w, result) ==
  /\ p \in Pools /\ p.queue = pool.queue /\ p.destroyed = pool.destroyed
  /\ \A v \in Threads : p.inflight[v] = IF v = w THEN NoJob ELSE pool.inflight[v]
  /\ \A i \in Jobs : p.outcome[i] = IF i = pool.inflight[w] THEN result ELSE pool.outcome[i]
  /\ \A i \in Jobs : p.timer[i] = IF i = pool.inflight[w] THEN "off" ELSE pool.timer[i]

\* Nobody else's place changes.
LEMMA Freeing ==
  ASSUME ParsePoolAssumption, Booked(pool), NEW w \in Threads, NEW result \in {"ok", "error"},
         NEW p, Freed(p, w, result)
  PROVE  /\ Placed(p) /\ Busy(p) = Busy(pool) \ {w}
         /\ \A i \in Jobs : Waits(pool, i) => p.outcome[i] = "open"
<1>1. pool \in Pools /\ Placed(pool)
  BY DEF Booked
<1>2. \A i \in Jobs : i # NoJob
  BY DEF Jobs, NoJob
<1>3. \A i \in Jobs : Waits(p, i) <=> Waits(pool, i)
  BY DEF Freed, Waits
<1>4. \A i \in Jobs : Handed(p, i) <=> Handed(pool, i) /\ i # pool.inflight[w]
  <2> SUFFICES ASSUME NEW i \in Jobs
               PROVE  Handed(p, i) <=> Handed(pool, i) /\ i # pool.inflight[w]
    OBVIOUS
  <2>1. ASSUME NEW v \in Threads, p.inflight[v] = i
        PROVE  pool.inflight[v] = i /\ i # pool.inflight[w]
    <3>1. v # w /\ pool.inflight[v] = i
      BY <1>2, <2>1 DEF Freed
    <3> QED BY <1>1, <1>2, <3>1 DEF Placed
  <2>2. ASSUME NEW v \in Threads, pool.inflight[v] = i, i # pool.inflight[w]
        PROVE  p.inflight[v] = i
    BY <2>2 DEF Freed
  <2> QED BY <2>1, <2>2 DEF Handed
<1>5. \A i \in Jobs : i = pool.inflight[w] => Handed(pool, i) /\ ~Waits(pool, i)
  BY <1>1 DEF Placed, Handed
<1>6. Placed(p)
  <2>1. Distinct(p.queue)
    BY <1>1 DEF Placed, Freed
  <2>2. \A u, v \in Threads : p.inflight[u] = p.inflight[v] /\ p.inflight[u] # NoJob => u = v
    BY <1>1 DEF Placed, Freed
  <2>3. \A i \in Jobs : ~(Waits(p, i) /\ Handed(p, i))
    BY <1>1, <1>3, <1>4 DEF Placed
  <2>4. \A i \in Jobs : p.outcome[i] = "open" <=> Waits(p, i) \/ Handed(p, i)
    BY <1>1, <1>3, <1>4, <1>5 DEF Placed, Freed
  <2>5. \A i \in Jobs : p.timer[i] # "off" <=> Handed(p, i)
    BY <1>1, <1>4 DEF Placed, Freed
  <2> QED BY <2>1, <2>2, <2>3, <2>4, <2>5 DEF Placed
<1>7. Busy(p) = Busy(pool) \ {w}
  BY DEF Freed, Busy
<1>8. \A i \in Jobs : Waits(pool, i) => p.outcome[i] = "open"
  BY <1>1, <1>5 DEF Placed, Freed
<1> QED BY <1>6, <1>7, <1>8

\* A worker that is done with its grammars, or with its parse, joins the idle ones.
LEMMA Rejoining ==
  ASSUME ParsePoolAssumption, IInv, NEW w \in pool.workers \ Idle(pool),
         pool.parses[w] < RecycleInterval, thread[w] \notin {"loading", "parsing"},
         mail'[w] = Nothing,
         NEW p, Freed(p, w, "ok"), p.idle = Append(pool.idle, w), p.workers = pool.workers,
         p.pending = pool.pending \ {w}, p.parses = pool.parses
  PROVE  Booked(p) /\ Follows(p)
<1>1. pool \in Pools /\ Booked(pool) /\ Stationed(pool) /\ w \in Threads
  BY DEF IInv, Booked, Pools
<1>2. /\ Placed(p) /\ Busy(p) = Busy(pool) \ {w}
      /\ \A i \in Jobs : Waits(pool, i) => p.outcome[i] = "open"
  BY <1>1, Freeing
<1>3. Idle(p) = Idle(pool) \cup {w} /\ Distinct(p.idle)
  BY <1>1, Joining DEF Stationed
<1>4. p.pending = pool.pending \ {w} /\ p.workers = pool.workers /\ p.parses = pool.parses
  OBVIOUS
<1>5. Stationed(p)
  <2>1. \A v \in Threads \ Busy(p) : p.parses[v] < RecycleInterval
    BY <1>1, <1>2 DEF Stationed
  <2> QED BY <1>1, <1>2, <1>3, <1>4, <2>1 DEF Stationed
<1>6. Follows(p)
  <2>1. \A v \in pool.pending \cap p.workers :
          v \in p.pending \/ (thread[v] # "loading" /\ mail'[v] = Nothing)
    BY <1>4
  <2>2. \A v \in Busy(pool) \cap p.workers :
          p.inflight[v] = pool.inflight[v] \/ (thread[v] # "parsing" /\ mail'[v] = Nothing)
    BY DEF Freed, Busy
  <2> QED BY <1>2, <1>4, <2>1, <2>2 DEF Follows
<1>7. p.destroyed => p.workers = {} /\ p.queue = <<>>
  BY <1>1 DEF Booked, Freed
<1> QED BY <1>1, <1>2, <1>4, <1>5, <1>6, <1>7 DEF Booked, Freed

\* onMessage: 'grammars-loaded'.
LEMMA OnLoadedStep ==
  ASSUME ParsePoolAssumption, IInv, NEW w \in Threads, OnLoaded(w)
  PROVE  IInv' /\ FailsNoneEarly
<1>1. mail[w].kind = "loaded" /\ mail' = [mail EXCEPT ![w] = Nothing]
  BY DEF OnLoaded
<1>2. Nothing \in Messages /\ Nothing.kind = "none"
  BY DEF Nothing, Messages
<1>3. /\ mail' \in [Threads -> Messages] /\ mail'[w] = Nothing
      /\ \A v \in Threads : mail'[v] \in {mail[v], Nothing}
  <2>1. mail \in [Threads -> Messages]
    BY DEF IInv, TypeOK, Messages
  <2> QED BY <1>1, <1>2, <2>1
<1>4. CASE w \notin pool.workers
  <2>1. pool' = pool /\ thread' = thread /\ gone' = gone
    BY <1>4 DEF OnLoaded
  <2>2. gone' \in [Threads -> 0 .. 2]
    BY <2>1 DEF IInv, TypeOK
  <2> QED BY <1>3, <2>1, <2>2, UnheededStep
<1>5. CASE w \in pool.workers
  <2> DEFINE p == [pool EXCEPT !.pending = @ \ {w}, !.idle = Append(@, w)]
  <2>1. EventsAfter({}) /\ \E q \in Drained(p) : BecomesPool(q)
    BY <1>5 DEF OnLoaded
  <2>2. pool \in Pools /\ Booked(pool) /\ Stationed(pool) /\ Reported
    BY DEF IInv, Booked
  <2>3. w \in pool.pending
    BY <1>1, <1>5, <2>2 DEF Reported
  <2>4. w \notin Idle(pool) /\ w \notin Busy(pool) /\ pool.parses[w] < RecycleInterval
    BY <2>2, <2>3 DEF Stationed
  <2>5. thread[w] \notin {"loading", "parsing"}
    BY <1>1, <1>2, <2>2 DEF Reported
  <2>6. /\ p \in Pools /\ p.idle = Append(pool.idle, w) /\ p.pending = pool.pending \ {w}
        /\ p.queue = pool.queue /\ p.inflight = pool.inflight /\ p.workers = pool.workers
        /\ p.parses = pool.parses /\ p.destroyed = pool.destroyed /\ p.timer = pool.timer
        /\ p.outcome = pool.outcome
    <3>1. Append(pool.idle, w) \in Seq(Threads) /\ pool.pending \ {w} \in SUBSET Threads
      BY <2>2 DEF Pools
    <3> QED BY <2>2, <3>1 DEF Pools
  <2> HIDE DEF p
  <2>7. Freed(p, w, "ok")
    <3>1. pool.inflight[w] = NoJob /\ \A i \in Jobs : i # NoJob
      BY <2>4 DEF Busy, Jobs, NoJob
    <3> QED BY <2>6, <3>1 DEF Freed
  <2>8. Booked(p) /\ Follows(p)
    BY <1>3, <1>5, <2>4, <2>5, <2>6, <2>7, Rejoining
  <2> QED BY <1>3, <2>1, <2>8, DrainedStep
<1> QED BY <1>4, <1>5

\* What is left of the pool without a worker.
Without1(r, w) ==
  /\ r.workers = pool.workers \ {w} /\ r.pending = pool.pending \ {w}
  /\ r.idle = Without(pool.idle, w)
  /\ \A v \in Threads : r.parses[v] = IF v = w THEN 0 ELSE pool.parses[v]
LEMMA Releasing ==
  ASSUME ParsePoolAssumption, IInv, NEW w \in pool.workers, NEW result \in {"ok", "error"},
         NEW r, Freed(r, w, result), Without1(r, w)
  PROVE  Booked(r) /\ Follows(r)
<1>1. pool \in Pools /\ Booked(pool) /\ Stationed(pool) /\ w \in Threads /\ r \in Pools
  BY DEF IInv, Booked, Pools, Freed
<1>2. /\ Placed(r) /\ Busy(r) = Busy(pool) \ {w}
      /\ \A i \in Jobs : Waits(pool, i) => r.outcome[i] = "open"
  BY <1>1, Freeing
<1>3. Distinct(r.idle) /\ Idle(r) = Idle(pool) \ {w}
  <2>1. pool.idle \in Seq(Threads) /\ Distinct(pool.idle) /\ r.idle = Without(pool.idle, w)
    BY <1>1 DEF Stationed, Pools, Without1
  <2>2. Distinct(r.idle) /\ Members(r.idle) = Members(pool.idle) \ {w}
    BY <1>1, <2>1, Leaving
  <2> QED BY <2>2 DEF Idle, Members
<1>4. /\ r.workers = pool.workers \ {w} /\ r.pending = pool.pending \ {w}
      /\ \A v \in Threads : r.parses[v] = IF v = w THEN 0 ELSE pool.parses[v]
  BY DEF Without1
<1>5. Stationed(r)
  <2>1. \A v \in Threads \ Busy(r) : r.parses[v] < RecycleInterval
    BY <1>1, <1>2, <1>4 DEF Stationed, ParsePoolAssumption
  <2> QED BY <1>1, <1>2, <1>3, <1>4, <2>1 DEF Stationed
<1>6. Follows(r)
  <2>1. \A v \in Busy(pool) \cap r.workers : r.inflight[v] = pool.inflight[v]
    BY <1>4 DEF Freed, Busy
  <2> QED BY <1>2, <1>4, <2>1 DEF Follows
<1>7. IsFiniteSet(r.workers) /\ Cardinality(r.workers) <= MaxSize
  <2>1. IsFiniteSet(pool.workers) /\ Cardinality(pool.workers) <= MaxSize
    BY <1>1 DEF Booked
  <2>2. /\ IsFiniteSet(r.workers) /\ Cardinality(r.workers) <= Cardinality(pool.workers)
        /\ Cardinality(r.workers) \in Nat /\ Cardinality(pool.workers) \in Nat
    BY <1>4, <2>1, FS_Subset, FS_CardinalityType
  <2> QED BY <2>1, <2>2 DEF ParsePoolAssumption
<1>8. r.destroyed => r.workers = {} /\ r.queue = <<>>
  BY <1>1, <1>4 DEF Booked, Freed
<1> QED BY <1>1, <1>2, <1>5, <1>6, <1>7, <1>8 DEF Booked

\* spawnOne starts a thread if there is a place for it.
LEMMA SpawningOne ==
  ASSUME ParsePoolAssumption, NEW p \in Pools, IsFiniteSet(p.workers),
         Cardinality(p.workers) <= MaxSize, NEW q \in SpawnOne(p)
  PROVE  \E W : StartedWith(p, q, W)
<1>1. CASE Cardinality(p.workers) >= MaxSize
  BY <1>1, StartedNone DEF SpawnOne
<1>2. CASE ~(Cardinality(p.workers) >= MaxSize)
  <2>1. Cardinality(p.workers) \in Nat
    BY FS_CardinalityType
  <2>2. Cardinality(p.workers) + 1 <= MaxSize
    BY <1>2, <2>1 DEF ParsePoolAssumption
  <2>3. q \in Spawned(p, 1)
    BY <1>2 DEF SpawnOne
  <2> QED BY <2>2, <2>3, Spawning
<1> QED BY <1>1, <1>2

\* What settle does to a pool that a worker has been removed from.
LEMMA SettlingRemoved ==
  ASSUME ParsePoolAssumption, IInv, NEW w \in pool.workers, NEW result \in {"ok", "error"},
         NEW r, r \in {Removed(pool, w), [Removed(pool, w) EXCEPT !.crashes = @ + 1]},
         NEW s, s = IF pool.inflight[w] = NoJob THEN r ELSE Settle(r, pool.inflight[w], result)
  PROVE  /\ Freed(s, w, result) /\ Without1(s, w)
         /\ r \in Pools /\ r.workers = pool.workers \ {w}
<1> DEFINE j == pool.inflight[w]
<1>1. pool \in Pools /\ Booked(pool) /\ Stationed(pool) /\ Placed(pool) /\ w \in Threads
  BY DEF IInv, Booked, Pools
<1>2. j \in Jobs \cup {NoJob} /\ \A i \in Jobs : i # NoJob
  BY <1>1 DEF Pools, Jobs, NoJob
<1>3. Without(pool.idle, w) \in Seq(Threads)
  <2>1. pool.idle \in Seq(Threads) /\ Distinct(pool.idle)
    BY <1>1 DEF Stationed, Pools
  <2> QED BY <1>1, <2>1, Leaving
<1>4. /\ [pool.inflight EXCEPT ![w] = NoJob] \in [Threads -> Jobs \cup {NoJob}]
      /\ \A v \in Threads : [pool.inflight EXCEPT ![w] = NoJob][v]
                             = IF v = w THEN NoJob ELSE pool.inflight[v]
  <2>1. pool.inflight \in [Threads -> Jobs \cup {NoJob}]
    BY <1>1 DEF Pools
  <2> QED BY <2>1
<1>5. /\ [pool.parses EXCEPT ![w] = 0] \in [Threads -> 0 .. RecycleInterval]
      /\ \A v \in Threads : [pool.parses EXCEPT ![w] = 0][v]
                             = IF v = w THEN 0 ELSE pool.parses[v]
  <2>1. pool.parses \in [Threads -> 0 .. RecycleInterval]
    BY <1>1 DEF Pools
  <2>2. 0 \in 0 .. RecycleInterval
    BY DEF ParsePoolAssumption
  <2> QED BY <2>1, <2>2
<1>6. /\ r \in Pools /\ r.workers = pool.workers \ {w} /\ r.pending = pool.pending \ {w}
      /\ r.inflight = [pool.inflight EXCEPT ![w] = NoJob]
      /\ r.parses = [pool.parses EXCEPT ![w] = 0] /\ r.idle = Without(pool.idle, w)
      /\ r.queue = pool.queue /\ r.destroyed = pool.destroyed
      /\ r.outcome = pool.outcome /\ r.timer = pool.timer
  <2>1. pool.workers \ {w} \in SUBSET Threads /\ pool.pending \ {w} \in SUBSET Threads
        /\ pool.crashes \in Nat /\ pool.crashes + 1 \in Nat
    BY <1>1 DEF Pools
  <2>2. CASE r = Removed(pool, w)
    BY <1>1, <1>3, <1>4, <1>5, <2>1, <2>2 DEF Removed, Pools
  <2>3. CASE r = [Removed(pool, w) EXCEPT !.crashes = @ + 1]
    BY <1>1, <1>3, <1>4, <1>5, <2>1, <2>3 DEF Removed, Pools
  <2> QED BY <2>2, <2>3
<1> HIDE DEF j
<1>7. CASE j = NoJob
  <2>1. s = r
    BY <1>7 DEF j
  <2>2. \A i \in Jobs : i # pool.inflight[w]
    BY <1>2, <1>7 DEF j
  <2>3. \A v \in Threads : s.inflight[v] = IF v = w THEN NoJob ELSE pool.inflight[v]
    BY <1>4, <1>6, <2>1
  <2>4. \A v \in Threads : s.parses[v] = IF v = w THEN 0 ELSE pool.parses[v]
    BY <1>5, <1>6, <2>1
  <2>5. Freed(s, w, result)
    BY <1>6, <2>1, <2>2, <2>3 DEF Freed
  <2>6. Without1(s, w)
    BY <1>6, <2>1, <2>4 DEF Without1
  <2> QED BY <1>6, <2>5, <2>6
<1>8. CASE j # NoJob
  <2>1. j \in Jobs /\ pool.outcome[j] = "open"
    BY <1>1, <1>2, <1>8 DEF Placed, Handed, j
  <2>2. s = [r EXCEPT !.outcome[j] = result, !.timer[j] = "off"]
    BY <1>6, <1>8, <2>1 DEF Settle, j
  <2>3. /\ s \in Pools /\ s.workers = r.workers /\ s.pending = r.pending
        /\ s.inflight = r.inflight /\ s.parses = r.parses /\ s.idle = r.idle
        /\ s.queue = r.queue /\ s.destroyed = r.destroyed
        /\ \A i \in Jobs : s.outcome[i] = IF i = j THEN result ELSE r.outcome[i]
        /\ \A i \in Jobs : s.timer[i] = IF i = j THEN "off" ELSE r.timer[i]
    <3>1. /\ [r.outcome EXCEPT ![j] = result] \in [Jobs -> {"none", "open", "ok", "error"}]
          /\ \A i \in Jobs : [r.outcome EXCEPT ![j] = result][i]
                             = IF i = j THEN result ELSE r.outcome[i]
      <4>1. r.outcome \in [Jobs -> {"none", "open", "ok", "error"}]
        BY <1>6 DEF Pools
      <4> QED BY <2>1, <4>1
    <3>2. /\ [r.timer EXCEPT ![j] = "off"] \in [Jobs -> {"off", "base", "hard"}]
          /\ \A i \in Jobs : [r.timer EXCEPT ![j] = "off"][i]
                             = IF i = j THEN "off" ELSE r.timer[i]
      <4>1. r.timer \in [Jobs -> {"off", "base", "hard"}]
        BY <1>6 DEF Pools
      <4> QED BY <2>1, <4>1
    <3>3. s = [r EXCEPT !.outcome = [r.outcome EXCEPT ![j] = result],
                        !.timer = [r.timer EXCEPT ![j] = "off"]]
      BY <1>6, <2>2 DEF Pools
    <3>4. r \in Pools
      BY <1>6
    <3> QED BY <3>1, <3>2, <3>3, <3>4 DEF Pools
  <2>4. \A v \in Threads : s.inflight[v] = IF v = w THEN NoJob ELSE pool.inflight[v]
    BY <1>4, <1>6, <2>3
  <2>5. \A v \in Threads : s.parses[v] = IF v = w THEN 0 ELSE pool.parses[v]
    BY <1>5, <1>6, <2>3
  <2>6. Freed(s, w, result)
    BY <1>6, <2>3, <2>4 DEF Freed, j
  <2>7. Without1(s, w)
    BY <1>6, <2>3, <2>5 DEF Without1
  <2> QED BY <1>6, <2>6, <2>7
<1> QED BY <1>7, <1>8

\* onWorkerGone.
LEMMA OnWorkerGoneStep ==
  ASSUME ParsePoolAssumption, IInv, NEW w \in Threads, OnWorkerGone(w)
  PROVE  IInv' /\ FailsNoneEarly
<1>1. gone[w] > 0 /\ EventsAfter({w}) /\ mail' = mail
  BY DEF OnWorkerGone
<1>2. /\ mail' \in [Threads -> Messages] /\ \A v \in Threads : mail'[v] \in {mail[v], Nothing}
      /\ gone \in [Threads -> 0 .. 2]
  BY <1>1 DEF IInv, TypeOK, Messages
<1>3. CASE w \notin pool.workers
  <2>1. pool' = pool /\ thread' = thread
    BY <1>3 DEF OnWorkerGone
  <2>2. gone' \in [Threads -> 0 .. 2] /\ \A v \in pool.workers : gone'[v] = gone[v]
    BY <1>1, <1>2, <1>3, <2>1 DEF EventsAfter, Terminates, IInv, TypeOK
  <2> QED BY <1>2, <2>1, <2>2, UnheededStep
<1>4. CASE w \in pool.workers
  <2> DEFINE j == pool.inflight[w]
             r == [Removed(pool, w) EXCEPT !.crashes = @ + 1]
             s == IF j = NoJob THEN r ELSE Settle(r, j, "error")
  <2>1. PICK g \in SpawnOne(s) : \E q \in Drained(g) : BecomesPool(q)
    BY <1>4 DEF OnWorkerGone
  <2>2. PICK q \in Drained(g) : BecomesPool(q)
    BY <2>1
  <2>3. Freed(s, w, "error") /\ Without1(s, w)
    <3>1. r \in {Removed(pool, w), [Removed(pool, w) EXCEPT !.crashes = @ + 1]}
          /\ s = IF pool.inflight[w] = NoJob THEN r ELSE Settle(r, pool.inflight[w], "error")
      OBVIOUS
    <3> HIDE DEF j, r, s
    <3> QED BY <1>4, <3>1, SettlingRemoved
  <2> HIDE DEF j, r, s
  <2>4. Booked(s) /\ Follows(s)
    BY <1>4, <2>3, Releasing
  <2>5. PICK W : StartedWith(s, g, W)
    BY <2>1, <2>4, SpawningOne DEF Booked
  <2>6. Booked(g) /\ Follows(g)
    BY <2>4, <2>5, StartedBooks, StartFollows
  <2>7. w \notin Clean
    BY <1>1, <1>2 DEF Clean
  <2>8. w \notin g.workers
    BY <2>3, <2>5, <2>7 DEF Without1, StartedWith
  <2>9. {w} \cap g.workers = {} /\ {w} \cap Clean = {} /\ {w} \in SUBSET Threads
        /\ \A v \in {w} : gone[v] > 0
    BY <1>1, <2>7, <2>8
  <2> QED BY <1>1, <1>2, <2>2, <2>6, <2>9, DrainedStep
<1> QED BY <1>3, <1>4

\* onHardTimeout.
LEMMA OnHardTimeoutStep ==
  ASSUME ParsePoolAssumption, IInv, NEW w \in Threads, OnHardTimeout(w)
  PROVE  IInv' /\ FailsNoneEarly
<1> DEFINE j == pool.inflight[w]
           r == Removed(pool, w)
           s == Settle(r, j, "error")
<1>1. EventsAfter({}) /\ mail' = mail /\ j # NoJob
  BY DEF OnHardTimeout
<1>2. mail' \in [Threads -> Messages] /\ \A v \in Threads : mail'[v] \in {mail[v], Nothing}
  BY <1>1 DEF IInv, TypeOK, Messages
<1>3. PICK g \in SpawnOne(s) : \E q \in Drained(g) : BecomesPool(q)
  BY DEF OnHardTimeout, HardKill
<1>4. PICK q \in Drained(g) : BecomesPool(q)
  BY <1>3
<1>5. w \in pool.workers /\ pool \in Pools
  BY <1>1 DEF IInv, Booked, Stationed, Busy
<1>7. Freed(s, w, "error") /\ Without1(s, w)
  <2>1. r \in {Removed(pool, w), [Removed(pool, w) EXCEPT !.crashes = @ + 1]}
    OBVIOUS
  <2>2. s = IF pool.inflight[w] = NoJob THEN r ELSE Settle(r, pool.inflight[w], "error")
    BY <1>1
  <2> HIDE DEF j, r, s
  <2> QED BY <1>5, <2>1, <2>2, SettlingRemoved
<1> HIDE DEF j, r, s
<1>8. Booked(s) /\ Follows(s)
  BY <1>5, <1>7, Releasing
<1>9. PICK W : StartedWith(s, g, W)
  BY <1>3, <1>8, SpawningOne DEF Booked
<1>10. Booked(g) /\ Follows(g)
  BY <1>8, <1>9, StartedBooks, StartFollows
<1> QED BY <1>1, <1>2, <1>4, <1>10, DrainedStep

\* Threads may be started before a parse is settled as well as after.
LEMMA SettlingStarted ==
  ASSUME NEW r \in Pools, NEW g, NEW W, StartedWith(r, g, W), NEW j \in Jobs
  PROVE  StartedWith(Settle(r, j, "ok"), Settle(g, j, "ok"), W)
<1>1. /\ g \in Pools /\ W \in SUBSET (Clean \ r.workers) /\ (W # {} => ~r.destroyed)
      /\ g.workers = r.workers \cup W /\ g.pending = r.pending \cup W
      /\ g.crashes >= r.crashes /\ g.parses = Fresh(r, W)
      /\ g.idle = r.idle /\ g.queue = r.queue /\ g.inflight = r.inflight
      /\ g.destroyed = r.destroyed /\ g.outcome = r.outcome /\ g.timer = r.timer
      /\ IsFiniteSet(g.workers) /\ Cardinality(g.workers) <= MaxSize
  BY DEF StartedWith
<1>2. CASE r.outcome[j] # "open"
  <2>1. Settle(r, j, "ok") = r /\ Settle(g, j, "ok") = g
    BY <1>1, <1>2 DEF Settle
  <2> QED BY <2>1
<1>3. CASE r.outcome[j] = "open"
  <2> DEFINE O == [r.outcome EXCEPT ![j] = "ok"]
             T == [r.timer EXCEPT ![j] = "off"]
             a == Settle(r, j, "ok")
             b == Settle(g, j, "ok")
  <2>1. O \in [Jobs -> {"none", "open", "ok", "error"}]
        /\ T \in [Jobs -> {"off", "base", "hard"}]
    <3>1. r.outcome \in [Jobs -> {"none", "open", "ok", "error"}]
          /\ r.timer \in [Jobs -> {"off", "base", "hard"}]
      BY DEF Pools
    <3> QED BY <3>1
  <2>2. a = [r EXCEPT !.outcome = O, !.timer = T] /\ b = [g EXCEPT !.outcome = O, !.timer = T]
    BY <1>1, <1>3 DEF Settle, Pools
  <2> HIDE DEF O, T, a, b
  <2>3. /\ a.workers = r.workers /\ a.pending = r.pending /\ a.crashes = r.crashes
        /\ a.parses = r.parses /\ a.idle = r.idle /\ a.queue = r.queue
        /\ a.inflight = r.inflight /\ a.destroyed = r.destroyed
        /\ a.outcome = O /\ a.timer = T
    BY <2>2 DEF Pools
  <2>4. /\ b \in Pools /\ b.workers = g.workers /\ b.pending = g.pending
        /\ b.crashes = g.crashes /\ b.parses = g.parses /\ b.idle = g.idle
        /\ b.queue = g.queue /\ b.inflight = g.inflight /\ b.destroyed = g.destroyed
        /\ b.outcome = O /\ b.timer = T
    BY <1>1, <2>1, <2>2 DEF Pools
  <2>5. Fresh(a, W) = Fresh(r, W)
    BY <2>3 DEF Fresh
  <2>6. StartedWith(a, b, W)
    BY <1>1, <2>3, <2>4, <2>5 DEF StartedWith
  <2> QED BY <2>6 DEF a, b
<1> QED BY <1>2, <1>3

\* onMessage: 'parse-result'.
LEMMA OnResultStep ==
  ASSUME ParsePoolAssumption, IInv, NEW w \in Threads, OnResult(w)
  PROVE  IInv' /\ FailsNoneEarly
<1> DEFINE j == mail[w].id
           freed == [pool EXCEPT !.inflight[w] = NoJob]
<1>1. mail[w].kind = "result" /\ mail' = [mail EXCEPT ![w] = Nothing]
  BY DEF OnResult
<1>2. Nothing \in Messages /\ Nothing.kind = "none"
  BY DEF Nothing, Messages
<1>3. mail \in [Threads -> Messages] /\ gone \in [Threads -> 0 .. 2] /\ Reported
      /\ pool \in Pools /\ Booked(pool) /\ Stationed(pool) /\ Placed(pool)
  BY DEF IInv, TypeOK, Messages, Booked
<1>4. /\ mail' \in [Threads -> Messages] /\ mail'[w] = Nothing
      /\ \A v \in Threads : mail'[v] \in {mail[v], Nothing}
  BY <1>1, <1>2, <1>3
<1>5. j \in Jobs /\ NoJob \notin Jobs
  <2>1. mail[w] \in Messages
    BY <1>3
  <2> QED BY <1>1, <2>1 DEF Messages, Jobs, NoJob
<1>6. CASE pool.inflight[w] # j
  <2>1. pool' = pool /\ thread' = thread /\ gone' = gone
    BY <1>6 DEF OnResult
  <2> QED BY <1>3, <1>4, <2>1, UnheededStep
<1>7. CASE pool.inflight[w] = j
  <2>1. EventsAfter({}) /\ \E g \in Returned(freed, w) :
          \E q \in Drained(Settle(g, j, "ok")) : BecomesPool(q)
    BY <1>7 DEF OnResult
  <2>2. PICK g \in Returned(freed, w) : \E q \in Drained(Settle(g, j, "ok")) : BecomesPool(q)
    BY <2>1
  <2> DEFINE p == Settle(g, j, "ok")
  <2>3. PICK q \in Drained(p) : BecomesPool(q)
    BY <2>2
  <2>4. w \in Busy(pool) /\ w \in pool.workers /\ w \notin Idle(pool)
        /\ pool.outcome[j] = "open"
    BY <1>3, <1>5, <1>7 DEF Busy, Stationed, Placed, Handed
  <2>5. thread[w] \notin {"loading", "parsing"}
    BY <1>1, <1>2, <1>3 DEF Reported
  <2>6. /\ [pool.inflight EXCEPT ![w] = NoJob] \in [Threads -> Jobs \cup {NoJob}]
        /\ \A v \in Threads : [pool.inflight EXCEPT ![w] = NoJob][v]
                               = IF v = w THEN NoJob ELSE pool.inflight[v]
    <3>1. pool.inflight \in [Threads -> Jobs \cup {NoJob}]
      BY <1>3 DEF Pools
    <3> QED BY <3>1
  <2>7. Booked(p) /\ Follows(p)
    <3>1. CASE freed.parses[w] >= RecycleInterval
      <4> DEFINE r == Removed(pool, w)
                 s == Settle(r, j, "ok")
      <4>1. Removed(freed, w) = r
        <5>1. [[pool.inflight EXCEPT ![w] = NoJob] EXCEPT ![w] = NoJob]
                = [pool.inflight EXCEPT ![w] = NoJob]
          BY <1>3 DEF Pools
        <5> QED BY <1>3, <5>1 DEF Removed, Pools
      <4>2. g \in SpawnOne(r)
        BY <3>1, <4>1 DEF Returned
      <4>3. /\ Freed(s, w, "ok") /\ Without1(s, w)
            /\ r \in Pools /\ r.workers = pool.workers \ {w}
        <5>1. r \in {Removed(pool, w), [Removed(pool, w) EXCEPT !.crashes = @ + 1]}
          OBVIOUS
        <5>2. s = IF pool.inflight[w] = NoJob THEN r ELSE Settle(r, pool.inflight[w], "ok")
          BY <1>5, <1>7
        <5> HIDE DEF r, s
        <5> QED BY <2>4, <5>1, <5>2, SettlingRemoved
      <4>4. s = Settle(r, j, "ok")
        OBVIOUS
      <4> HIDE DEF r, s, j
      <4>5. Booked(s) /\ Follows(s)
        BY <2>4, <4>3, Releasing
      <4>6. IsFiniteSet(r.workers) /\ Cardinality(r.workers) <= MaxSize
        BY <4>3, <4>5 DEF Booked, Without1
      <4>7. PICK W : StartedWith(r, g, W)
        BY <4>2, <4>3, <4>6, SpawningOne
      <4>8. StartedWith(s, p, W)
        BY <1>5, <4>3, <4>4, <4>7, SettlingStarted
      <4> HIDE DEF p
      <4> QED BY <4>5, <4>8, StartedBooks, StartFollows
    <3>2. CASE ~(freed.parses[w] >= RecycleInterval)
      <4>1. g = [freed EXCEPT !.idle = Append(@, w)]
        BY <3>2 DEF Returned
      <4> DEFINE I == [pool.inflight EXCEPT ![w] = NoJob]
                 L == Append(pool.idle, w)
                 O == [pool.outcome EXCEPT ![j] = "ok"]
                 T == [pool.timer EXCEPT ![j] = "off"]
      <4>2. g = [pool EXCEPT !.inflight = I, !.idle = L]
        BY <1>3, <4>1 DEF Pools
      <4>3. L \in Seq(Threads) /\ I \in [Threads -> Jobs \cup {NoJob}]
        BY <1>3, <2>6 DEF Pools
      <4>4. /\ O \in [Jobs -> {"none", "open", "ok", "error"}]
            /\ \A i \in Jobs : O[i] = IF i = j THEN "ok" ELSE pool.outcome[i]
        <5>1. pool.outcome \in [Jobs -> {"none", "open", "ok", "error"}]
          BY <1>3 DEF Pools
        <5> QED BY <1>5, <5>1
      <4>5. /\ T \in [Jobs -> {"off", "base", "hard"}]
            /\ \A i \in Jobs : T[i] = IF i = j THEN "off" ELSE pool.timer[i]
        <5>1. pool.timer \in [Jobs -> {"off", "base", "hard"}]
          BY <1>3 DEF Pools
        <5> QED BY <1>5, <5>1
      <4>6. p = [pool EXCEPT !.inflight = I, !.idle = L, !.outcome = O, !.timer = T]
        BY <1>3, <2>4, <4>2 DEF Settle, Pools
      <4>7. \A v \in Threads : I[v] = IF v = w THEN NoJob ELSE pool.inflight[v]
        BY <2>6
      <4>11. L = Append(pool.idle, w)
        OBVIOUS
      <4> HIDE DEF I, L, O, T, p
      <4>8. /\ p \in Pools /\ p.idle = L /\ p.inflight = I /\ p.outcome = O /\ p.timer = T
            /\ p.queue = pool.queue /\ p.workers = pool.workers /\ p.pending = pool.pending
            /\ p.parses = pool.parses /\ p.destroyed = pool.destroyed
        BY <1>3, <4>3, <4>4, <4>5, <4>6 DEF Pools
      <4>9. Freed(p, w, "ok")
        BY <1>7, <4>4, <4>5, <4>7, <4>8 DEF Freed
      <4>10. /\ pool.parses[w] < RecycleInterval /\ p.pending = pool.pending \ {w}
             /\ p.idle = Append(pool.idle, w)
        <5>1. w \notin pool.pending
          BY <1>3, <2>4 DEF Stationed
        <5>2. pool.parses[w] \in Nat /\ RecycleInterval \in Nat
          BY <1>3 DEF Pools, ParsePoolAssumption
        <5>3. freed.parses = pool.parses
          BY <1>3 DEF Pools
        <5> QED BY <3>2, <4>8, <4>11, <5>1, <5>2, <5>3
      <4> QED BY <1>4, <2>4, <2>5, <4>8, <4>9, <4>10, Rejoining
    <3> QED BY <3>1, <3>2
  <2> HIDE DEF p
  <2> QED BY <1>4, <2>1, <2>3, <2>7, DrainedStep
<1> QED BY <1>6, <1>7

\* recycleAll, at a time when every parse has been answered.
LEMMA RecycleAllStep ==
  ASSUME ParsePoolAssumption, IInv, RecycleAll PROVE IInv' /\ FailsNoneEarly
<1> DEFINE P == [w \in Threads |-> IF w \in Idle(pool) THEN 0 ELSE pool.parses[w]]
           r == [pool EXCEPT !.workers = @ \ Idle(pool), !.idle = <<>>, !.parses = P]
           n == Len(pool.idle)
<1>1. /\ EventsAfter({}) /\ mail' = mail /\ \A j \in Jobs : pool.outcome[j] # "open"
      /\ \E q \in Spawned([pool EXCEPT !.workers = @ \ Idle(pool), !.idle = <<>>,
              !.parses = [w \in Threads |-> IF w \in Idle(pool) THEN 0 ELSE @[w]]], n) :
           BecomesPool(q)
  BY DEF RecycleAll
<1>2. pool \in Pools /\ Booked(pool) /\ Stationed(pool) /\ Placed(pool) /\ n \in Nat
      /\ IsFiniteSet(pool.workers) /\ Cardinality(pool.workers) <= MaxSize
  BY DEF IInv, Booked, Pools
<1>3. PICK q \in Spawned(r, n) : BecomesPool(q)
  <2>1. [pool EXCEPT !.workers = @ \ Idle(pool), !.idle = <<>>,
              !.parses = [w \in Threads |-> IF w \in Idle(pool) THEN 0 ELSE @[w]]] = r
    BY <1>2 DEF Pools
  <2> QED BY <1>1, <2>1
<1>4. mail' \in [Threads -> Messages] /\ \A w \in Threads : mail'[w] \in {mail[w], Nothing}
  BY <1>1 DEF IInv, TypeOK, Messages
<1>5. \A j \in Jobs : ~Waits(pool, j) /\ ~Handed(pool, j)
  BY <1>1, <1>2 DEF Placed
<1>6. pool.queue = <<>> /\ Busy(pool) = {}
  <2>1. pool.queue \in Seq(Jobs) /\ Len(pool.queue) \in Nat
        /\ \A i \in 1 .. Len(pool.queue) : pool.queue[i] \in Jobs
    BY <1>2 DEF Pools
  <2>2. ~(1 \in 1 .. Len(pool.queue))
    BY <1>5, <2>1 DEF Waits
  <2>3. \A w \in Threads : pool.inflight[w] \in Jobs \cup {NoJob}
    BY <1>2 DEF Pools
  <2>4. Busy(pool) = {}
    BY <1>5, <2>3 DEF Busy, Handed
  <2> QED BY <2>1, <2>2, <2>4
<1>7. P \in [Threads -> 0 .. RecycleInterval] /\ \A w \in Threads : P[w] < RecycleInterval
  <2> SUFFICES ASSUME NEW w \in Threads
               PROVE  P[w] \in 0 .. RecycleInterval /\ P[w] < RecycleInterval
    OBVIOUS
  <2>1. pool.parses[w] \in 0 .. RecycleInterval
    BY <1>2 DEF Pools
  <2>2. w \notin Busy(pool) => pool.parses[w] < RecycleInterval
    BY <1>2 DEF Stationed
  <2> QED BY <1>6, <2>1, <2>2 DEF ParsePoolAssumption
<1>8. /\ r \in Pools /\ r.idle = <<>> /\ r.workers = pool.workers \ Idle(pool) /\ r.parses = P
      /\ r.queue = pool.queue /\ r.inflight = pool.inflight /\ r.pending = pool.pending
      /\ r.crashes = pool.crashes /\ r.destroyed = pool.destroyed
      /\ r.outcome = pool.outcome /\ r.timer = pool.timer
  <2>1. <<>> \in Seq(Threads) /\ pool.workers \ Idle(pool) \in SUBSET Threads
    BY <1>2 DEF Pools
  <2> HIDE DEF P
  <2> QED BY <1>2, <1>7, <2>1 DEF Pools
<1> HIDE DEF r, P
<1>9. Idle(r) = {} /\ Busy(r) = {}
  BY <1>6, <1>8 DEF Idle, Busy
<1>10. Stationed(r)
  <2>1. Distinct(r.idle)
    BY <1>8 DEF Distinct
  <2>2. r.workers = r.pending \cup Idle(r) \cup Busy(r)
    BY <1>2, <1>6, <1>8, <1>9 DEF Stationed
  <2> QED BY <1>7, <1>8, <1>9, <2>1, <2>2 DEF Stationed
<1>11. Placed(r)
  <2>1. \A j \in Jobs : (Waits(r, j) <=> Waits(pool, j)) /\ (Handed(r, j) <=> Handed(pool, j))
    BY <1>8 DEF Waits, Handed
  <2> QED BY <1>2, <1>8, <2>1 DEF Placed
<1>12. IsFiniteSet(r.workers) /\ Cardinality(r.workers) + n <= MaxSize
  <2>1. Idle(pool) \subseteq pool.workers
    BY <1>2 DEF Stationed
  <2>2. IsFiniteSet(r.workers) /\ IsFiniteSet(Idle(pool))
    BY <1>2, <1>8, <2>1, FS_Subset
  <2>3. r.workers \cup Idle(pool) = pool.workers /\ r.workers \cap Idle(pool) = {}
    BY <1>8, <2>1
  <2>4. Cardinality(pool.workers) = Cardinality(r.workers) + Cardinality(Idle(pool))
    <3>1. Cardinality(r.workers \cup Idle(pool))
            = Cardinality(r.workers) + Cardinality(Idle(pool))
              - Cardinality(r.workers \cap Idle(pool))
      BY <2>2, FS_Union
    <3>2. Cardinality(r.workers \cap Idle(pool)) = 0
      BY <2>3, FS_EmptySet
    <3>3. Cardinality(r.workers) \in Nat /\ Cardinality(Idle(pool)) \in Nat
      BY <2>2, FS_CardinalityType
    <3>4. Cardinality(pool.workers) = Cardinality(r.workers \cup Idle(pool))
      BY <2>3
    <3> HIDE DEF n
    <3> QED BY ONLY <3>1, <3>2, <3>3, <3>4
  <2>5. Cardinality(Idle(pool)) = n
    BY <1>2, IdleCount DEF Stationed
  <2> QED BY <1>2, <2>2, <2>4, <2>5
<1>13. Cardinality(r.workers) <= MaxSize
  BY <1>2, <1>12, FS_CardinalityType DEF ParsePoolAssumption
<1>14. r.destroyed => r.workers = {} /\ r.queue = <<>>
  BY <1>2, <1>8 DEF Booked
<1>15. Booked(r)
  BY <1>8, <1>10, <1>11, <1>12, <1>13, <1>14 DEF Booked
<1>16. Follows(r)
  BY <1>5, <1>8 DEF Follows
<1> HIDE DEF n
<1>17. PICK W : StartedWith(r, q, W)
  BY <1>2, <1>3, <1>8, <1>12, Spawning
<1>18. Booked(q) /\ Follows(q)
  BY <1>15, <1>16, <1>17, StartedBooks, StartFollows
<1>19. Fed(q)
  BY <1>6, <1>8, <1>17 DEF Fed, StartedWith
<1> QED BY <1>1, <1>3, <1>4, <1>18, <1>19, Becoming

\* destroy, which answers whoever is still open.
LEMMA DestroyStep ==
  ASSUME ParsePoolAssumption, IInv, Destroy PROVE IInv' /\ FailsNoneEarly
<1> DEFINE Left == Queued(pool) \cup {pool.inflight[w] : w \in Busy(pool)}
           O == [j \in Jobs |-> IF j \in Left THEN "error" ELSE pool.outcome[j]]
           T == [j \in Jobs |-> IF j \in Left THEN "off" ELSE pool.timer[j]]
           N == [w \in Threads |-> NoJob]
           Z == [w \in Threads |-> 0]
           p == [pool EXCEPT
                  !.destroyed = TRUE, !.workers = {}, !.pending = {}, !.idle = <<>>,
                  !.queue = <<>>, !.inflight = N, !.parses = Z, !.outcome = O, !.timer = T]
<1>1. pool \in Pools /\ Booked(pool) /\ Placed(pool)
  BY DEF IInv, Booked
<1>2. /\ EventsAfter({}) /\ mail' = mail
      /\ BecomesPool([pool EXCEPT
          !.destroyed = TRUE, !.workers = {}, !.pending = {}, !.idle = <<>>, !.queue = <<>>,
          !.inflight = [w \in Threads |-> NoJob], !.parses = [w \in Threads |-> 0],
          !.outcome = [j \in Jobs |-> IF j \in Left THEN "error" ELSE @[j]],
          !.timer = [j \in Jobs |-> IF j \in Left THEN "off" ELSE @[j]]])
  BY DEF Destroy
<1>3. BecomesPool(p)
  <2> HIDE DEF Left
  <2>1. [pool EXCEPT
          !.destroyed = TRUE, !.workers = {}, !.pending = {}, !.idle = <<>>, !.queue = <<>>,
          !.inflight = [w \in Threads |-> NoJob], !.parses = [w \in Threads |-> 0],
          !.outcome = [j \in Jobs |-> IF j \in Left THEN "error" ELSE @[j]],
          !.timer = [j \in Jobs |-> IF j \in Left THEN "off" ELSE @[j]]] = p
    BY <1>1 DEF Pools
  <2> QED BY <1>2, <2>1
<1>4. \A j \in Jobs : j \in Left <=> Waits(pool, j) \/ Handed(pool, j)
  <2> SUFFICES ASSUME NEW j \in Jobs PROVE j \in Left <=> Waits(pool, j) \/ Handed(pool, j)
    OBVIOUS
  <2>1. j \in Queued(pool) <=> Waits(pool, j)
    BY DEF Queued, Waits
  <2>2. j \in {pool.inflight[w] : w \in Busy(pool)} <=> Handed(pool, j)
    BY DEF Busy, Handed, Jobs, NoJob
  <2> QED BY <2>1, <2>2
<1> HIDE DEF Left
<1>5. /\ O \in [Jobs -> {"none", "open", "ok", "error"}]
         /\ T \in [Jobs -> {"off", "base", "hard"}]
      /\ N \in [Threads -> Jobs \cup {NoJob}] /\ Z \in [Threads -> 0 .. RecycleInterval]
  BY <1>1 DEF Pools, ParsePoolAssumption
<1>6. /\ \A j \in Jobs : O[j] # "open" /\ T[j] = "off"
      /\ \A w \in Threads : N[w] = NoJob /\ Z[w] < RecycleInterval
  BY <1>1, <1>4 DEF Placed, ParsePoolAssumption
<1> HIDE DEF O, T, N, Z
<1>7. /\ p \in Pools /\ p.destroyed /\ p.workers = {} /\ p.pending = {} /\ p.idle = <<>>
      /\ p.queue = <<>> /\ p.inflight = N /\ p.parses = Z /\ p.outcome = O /\ p.timer = T
  <2>1. <<>> \in Seq(Threads) /\ <<>> \in Seq(Jobs)
    OBVIOUS
  <2> QED BY <1>1, <1>5, <2>1 DEF Pools
<1> HIDE DEF p
<1>8. Idle(p) = {} /\ Busy(p) = {}
  BY <1>6, <1>7 DEF Idle, Busy
<1>9. Distinct(p.idle) /\ Distinct(p.queue)
  BY <1>7 DEF Distinct
<1>10. Stationed(p)
  BY <1>6, <1>7, <1>8, <1>9 DEF Stationed
<1>11. Placed(p)
  <2>1. \A j \in Jobs : ~Waits(p, j) /\ ~Handed(p, j)
    BY <1>6, <1>7 DEF Waits, Handed, Jobs, NoJob
  <2> QED BY <1>6, <1>7, <1>9, <2>1 DEF Placed
<1>12. Booked(p) /\ Fed(p)
  <2>1. IsFiniteSet(p.workers) /\ Cardinality(p.workers) <= MaxSize
    BY <1>7, FS_EmptySet DEF ParsePoolAssumption
  <2> QED BY <1>7, <1>10, <1>11, <2>1 DEF Booked, Fed
<1>13. Follows(p)
  BY <1>7 DEF Follows
<1>14. mail' \in [Threads -> Messages] /\ \A w \in Threads : mail'[w] \in {mail[w], Nothing}
  BY <1>2 DEF IInv, TypeOK, Messages
<1> QED BY <1>2, <1>3, <1>12, <1>13, <1>14, Becoming

-----------------------------------------------------------------------------
(* The theorems.                                                            *)

\* Every step keeps the invariant, and fails nobody early.
LEMMA Inductive ==
  ASSUME ParsePoolAssumption, IInv, [Next]_vars PROVE IInv' /\ FailsNoneEarly
<1>1. CASE \E j \in Jobs : RequestParse(j)
  BY <1>1, RequestParseStep
<1>2. CASE RecycleAll
  BY <1>2, RecycleAllStep
<1>3. CASE Destroy
  BY <1>3, DestroyStep
<1>4. CASE \E w \in Threads : Event(w)
  BY <1>4, OnLoadedStep, OnResultStep, OnWorkerGoneStep, OnTimeoutStep, OnHardTimeoutStep
  DEF Event
<1>5. CASE \E w \in Threads : Load(w) \/ Parse(w) \/ Die(w)
  BY <1>5, ThreadStep
<1>6. CASE UNCHANGED vars
  <2>1. pool' = pool /\ thread' = thread /\ mail' = mail /\ gone' = gone
    BY <1>6 DEF vars
  <2>2. /\ mail' \in [Threads -> Messages] /\ \A w \in Threads : mail'[w] = mail[w]
        /\ gone' \in [Threads -> 0 .. 2]
    BY <2>1 DEF IInv, TypeOK, Messages
  <2> QED BY <2>1, <2>2, UnheededStep
<1> QED BY <1>1, <1>2, <1>3, <1>4, <1>5, <1>6 DEF Next, Call

\* The books of the pool are right whatever its threads do: see IInv.
THEOREM AlwaysBooked == ASSUME ParsePoolAssumption PROVE Spec => []IInv
<1>1. Init => IInv
  BY PoolInit
<1>2. IInv /\ [Next]_vars => IInv'
  BY Inductive
<1> QED BY <1>1, <1>2, PTL DEF Spec

\* An open parse is at one place or with one worker, and the timer of the latter runs.
LEMMA Counted ==
  ASSUME ParsePoolAssumption, IInv PROVE Accounted
<1>1. pool \in Pools /\ Placed(pool)
  BY DEF IInv, Booked
<1> SUFFICES ASSUME NEW j \in Jobs
             PROVE  LET at == {w \in Threads : pool.inflight[w] = j}
                        places == {i \in 1 .. Len(pool.queue) : pool.queue[i] = j}
                    IN /\ pool.outcome[j] = "open" <=> Cardinality(at) + Cardinality(places) = 1
                       /\ pool.outcome[j] # "open" => at = {} /\ places = {}
                       /\ at # {} <=> pool.timer[j] # "off"
  BY DEF Accounted
<1> DEFINE at == {w \in Threads : pool.inflight[w] = j}
           places == {i \in 1 .. Len(pool.queue) : pool.queue[i] = j}
<1>2. j # NoJob
  BY DEF Jobs, NoJob
<1>3. at # {} <=> Handed(pool, j)
  BY DEF Handed
<1>4. places # {} <=> Waits(pool, j)
  BY DEF Waits
<1>5. \A v, w \in at : v = w
  BY <1>1, <1>2 DEF Placed
<1>6. \A h, i \in places : h = i
  BY <1>1 DEF Placed, Distinct
<1> HIDE DEF at, places
<1>7. Cardinality(at) = IF Handed(pool, j) THEN 1 ELSE 0
  <2>1. CASE Handed(pool, j)
    <3>1. PICK w \in at : at = {w}
      BY <1>3, <1>5, <2>1
    <3> QED BY <2>1, <3>1, FS_Singleton
  <2>2. CASE ~Handed(pool, j)
    BY <1>3, <2>2, FS_EmptySet
  <2> QED BY <2>1, <2>2
<1>8. Cardinality(places) = IF Waits(pool, j) THEN 1 ELSE 0
  <2>1. CASE Waits(pool, j)
    <3>1. PICK i \in places : places = {i}
      BY <1>4, <1>6, <2>1
    <3> QED BY <2>1, <3>1, FS_Singleton
  <2>2. CASE ~Waits(pool, j)
    BY <1>4, <2>2, FS_EmptySet
  <2> QED BY <2>1, <2>2
<1>9. /\ ~(Waits(pool, j) /\ Handed(pool, j))
      /\ pool.outcome[j] = "open" <=> Waits(pool, j) \/ Handed(pool, j)
      /\ pool.timer[j] # "off" <=> Handed(pool, j)
  BY <1>1 DEF Placed
<1>10. /\ pool.outcome[j] = "open" <=> Cardinality(at) + Cardinality(places) = 1
       /\ pool.outcome[j] # "open" => at = {} /\ places = {}
       /\ at # {} <=> pool.timer[j] # "off"
  BY <1>3, <1>4, <1>7, <1>8, <1>9
<1> QED BY <1>10 DEF at, places

\* WorkersHaveOnePlace, Accounted and QueueIsServed, for any threads, sizes and budgets:
\* no order of late results, crashes, kills and restarts loses a worker or a parse.
THEOREM ParsesAreServed ==
  ASSUME ParsePoolAssumption
  PROVE  Spec => [](TypeOK /\ WorkersHaveOnePlace /\ Accounted /\ QueueIsServed)
<1>1. Spec => []IInv
  BY AlwaysBooked
<1>2. IInv => TypeOK /\ WorkersHaveOnePlace /\ Accounted /\ QueueIsServed
  <2> SUFFICES ASSUME IInv
               PROVE  TypeOK /\ WorkersHaveOnePlace /\ Accounted /\ QueueIsServed
    OBVIOUS
  <2>1. pool \in Pools /\ Stationed(pool) /\ Fed(pool) /\ TypeOK
    BY DEF IInv, Booked
  <2>2. WorkersHaveOnePlace
    BY <2>1, IdleCount DEF Stationed, WorkersHaveOnePlace
  <2>3. QueueIsServed
    <3> SUFFICES ASSUME pool.queue # <<>>
                 PROVE  pool.idle = <<>> /\ (pool.pending # {} \/ Busy(pool) # {})
      BY DEF QueueIsServed
    <3>1. pool.idle = <<>> /\ pool.workers # {}
      BY <2>1 DEF Fed
    <3>2. Idle(pool) = {}
      BY <3>1 DEF Idle
    <3> QED BY <2>1, <3>1, <3>2 DEF Stationed
  <2> QED BY <2>1, <2>2, <2>3, Counted
<1> QED BY <1>1, <1>2, PTL

\* QueuedWorkIsNotFailedEarly, of every step: a file that no worker was given fails only
\* when the pool is destroyed or its crash budget is spent.
THEOREM NobodyFailsEarly ==
  ASSUME ParsePoolAssumption PROVE Spec => QueuedWorkIsNotFailedEarly
<1>1. Spec => []IInv
  BY AlwaysBooked
<1>2. IInv /\ [Next]_vars =>
        [\A j \in Queued(pool) :
           pool'.outcome[j] = "error" => pool'.destroyed \/ pool'.crashes >= CrashBudget]_vars
  BY Inductive DEF FailsNoneEarly
<1> QED BY <1>1, <1>2, PTL DEF Spec, QueuedWorkIsNotFailedEarly
=============================================================================
