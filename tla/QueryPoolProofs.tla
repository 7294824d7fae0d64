--------------------------- MODULE QueryPoolProofs ---------------------------
(* Theorems about the query pool, for any threads, sizes and budgets.       *)
EXTENDS QueryPool, FiniteSetTheorems, TLAPS

\* The fields of the pool.
Pools ==
  [idle : Seq(Threads), queue : Seq(Calls), inflight : [Threads -> Calls \cup {NoCall}],
   workers : SUBSET Threads, pending : SUBSET Threads, crashes : Nat, destroyed : BOOLEAN,
   outcome : [Calls -> {"none", "open"} \cup Answers], retries : [Calls -> 0 .. MaxRetries]]

\* Where a call can be: at a place of the queue, or with a worker.
Queued(p, c) == \E i \in 1 .. Len(p.queue) : p.queue[i] = c
Handed(p, c) == \E w \in Threads : p.inflight[w] = c
Distinct(s) == \A i, j \in 1 .. Len(s) : s[i] = s[j] => i = j

\* Of the workers, each is in one of the places for them; of a destroyed pool, nothing
\* is left but idle workers whose last message came late.
Stationed(p) ==
  /\ p.workers = p.pending \cup Idle(p) \cup Busy(p)
  /\ p.pending \cap (Idle(p) \cup Busy(p)) = {} /\ Idle(p) \cap Busy(p) = {}
  /\ Distinct(p.idle)
Emptied(p) ==
  /\ p.workers = {} /\ p.queue = <<>> /\ Busy(p) = {}
  /\ \A c \in Calls : ~Open(p, c)

\* Of the calls, each is in one place at most, those that have not been made in none,
\* and those that are owed an answer in one.
Apart(p) ==
  /\ Distinct(p.queue)
  /\ \A v, w \in Threads : p.inflight[v] = p.inflight[w] /\ p.inflight[v] # NoCall => v = w
  /\ \A c \in Calls : ~(Queued(p, c) /\ Handed(p, c))
  /\ \A c \in Calls : p.outcome[c] = "none" => ~Queued(p, c) /\ ~Handed(p, c)
Owed(p) == \A c \in Calls : Open(p, c) => Queued(p, c) \/ Handed(p, c)

\* Whoever waits does so because no worker is idle and one at least works or starts.
Fed(p) == Healthy(p) /\ OpenPlaces(p) # {} => p.idle = <<>> /\ p.workers # {}

\* What a thread does, and what it has posted, tell where the pool has it.
Reported ==
  \A w \in Threads :
    /\ mail[w].kind = "ready" => w \in pool.pending
    /\ mail[w].kind = "result" => w \in Busy(pool)
    /\ thread[w] = "loading" => w \in pool.pending /\ mail[w] = Nothing
    /\ thread[w] = "serving" => w \in Busy(pool) /\ mail[w] = Nothing

\* The threads of a destroyed pool have ended, but a message of theirs may be on its way.
Silent ==
  \A w \in Threads :
    /\ thread[w] \notin {"loading", "serving"}
    /\ mail[w].kind # "none" => w \notin Idle(pool)

\* A call that may still be given to a worker has killed one per retry at most.
Charged(p, deaths) ==
  \A c \in Calls :
    /\ deaths[c] <= p.retries[c] + 1
    /\ Queued(p, c) \/ Handed(p, c) \/ p.outcome[c] = "none" => deaths[c] <= p.retries[c]

\* The state of the pool between two events, whatever it is still to be drained of.
Booked(p) ==
  /\ p \in Pools /\ IsFiniteSet(p.workers) /\ Cardinality(p.workers) <= MaxSize
  /\ Distinct(p.idle) /\ Idle(p) \cap Busy(p) = {}
  /\ p.destroyed => Emptied(p)
  /\ ~p.destroyed => Stationed(p)
  /\ Apart(p) /\ Owed(p)

\* Inductive for any value of the constants.
IInv ==
  /\ TypeOK /\ Booked(pool) /\ Fed(pool)
  /\ IF pool.destroyed THEN Silent ELSE Reported
  /\ Outstanding(pool) <= 2 * MaxSize
  /\ Charged(pool, killed)

-----------------------------------------------------------------------------
(* Small facts about numbers and sets of numbers.                           *)

\* The lesser of two numbers.
LEMMA MinOfTwo ==
  ASSUME NEW a \in Nat, NEW b \in Nat
  PROVE  Min({a, b}) = IF a <= b THEN a ELSE b
<1>1. CASE a <= b
  BY <1>1 DEF Min
<1>2. CASE ~(a <= b)
  BY <1>2 DEF Min
<1> QED BY <1>1, <1>2

\* The least of three numbers.
LEMMA MinOfThree ==
  ASSUME NEW a \in Nat, NEW b \in Nat, NEW c \in Nat
  PROVE  LET m == Min({a, b, c})
         IN  m \in {a, b, c} /\ m <= a /\ m <= b /\ m <= c
<1>1. \E m \in {a, b, c} : \A n \in {a, b, c} : m <= n
  OBVIOUS
<1> QED BY <1>1 DEF Min

\* The n members of a set of numbers have the ranks 1 to n.
LEMMA Ranks ==
  ASSUME NEW S \in SUBSET Nat, IsFiniteSet(S),
         NEW R, R = [i \in S |-> Cardinality({h \in S : h <= i})]
  PROVE  /\ R \in [S -> 1 .. Cardinality(S)]
         /\ \A i, j \in S : i < j => R[i] < R[j]
         /\ \A r \in 1 .. Cardinality(S) : \E i \in S : R[i] = r
<1> DEFINE Upto(i) == {h \in S : h <= i}
<1>1. Cardinality(S) \in Nat
  BY FS_CardinalityType
<1>2. \A i \in S : IsFiniteSet(Upto(i)) /\ Cardinality(Upto(i)) \in 1 .. Cardinality(S)
  <2> SUFFICES ASSUME NEW i \in S
               PROVE  IsFiniteSet(Upto(i)) /\ Cardinality(Upto(i)) \in 1 .. Cardinality(S)
    OBVIOUS
  <2>1. Upto(i) \in SUBSET S /\ i \in Upto(i)
    OBVIOUS
  <2>2. IsFiniteSet(Upto(i)) /\ Cardinality(Upto(i)) <= Cardinality(S)
    BY <2>1, FS_Subset
  <2>3. Cardinality(Upto(i)) \in Nat /\ Cardinality(Upto(i)) # 0
    BY <2>1, <2>2, FS_CardinalityType, FS_EmptySet
  <2> QED BY <1>1, <2>2, <2>3
<1>3. R \in [S -> 1 .. Cardinality(S)]
  BY <1>2
<1>4. \A i, j \in S : i < j => R[i] < R[j]
  <2> SUFFICES ASSUME NEW i \in S, NEW j \in S, i < j PROVE R[i] < R[j]
    OBVIOUS
  <2>1. i \in Nat /\ j \in Nat /\ \A h \in S : h \in Nat
    OBVIOUS
  <2>2. j \in Upto(j) /\ j \notin Upto(i)
    BY <2>1
  <2>3. Upto(i) \in SUBSET Upto(j)
    <3>1. \A h \in S : h <= i => h <= j
      BY <2>1
    <3> QED BY <3>1
  <2>4. Cardinality(Upto(i)) <= Cardinality(Upto(j))
        /\ Cardinality(Upto(i)) # Cardinality(Upto(j))
    BY <1>2, <2>2, <2>3, FS_Subset
  <2> QED BY <1>2, <2>4
<1>5. R \in Injection(S, 1 .. Cardinality(S))
  <2>1. \A i, j \in S : R[i] = R[j] => i = j
    BY <1>3, <1>4
  <2> QED BY <1>3, <2>1 DEF Injection, IsInjective
<1>6. IsFiniteSet(1 .. Cardinality(S)) /\ Cardinality(1 .. Cardinality(S)) = Cardinality(S)
  BY <1>1, FS_Interval
<1>7. R \in Surjection(S, 1 .. Cardinality(S))
  BY <1>5, <1>6, FS_Injection
<1> QED BY <1>3, <1>4, <1>7 DEF Surjection

-----------------------------------------------------------------------------
(* What drain does.                                                         *)

\* The open calls of the queue that drain hands out are its first, as many as there
\* are workers for, each to a worker of its own; what goes from the queue is all up
\* to the last of them, and everything if idle workers are left.
LEMMA Handing ==
  ASSUME NEW p \in Pools, Distinct(p.idle)
  PROVE  /\ IsFiniteSet(OpenPlaces(p)) /\ Cardinality(OpenPlaces(p)) \in Nat
         /\ Served(p) \in Nat
         /\ Served(p) = IF Len(p.idle) <= Cardinality(OpenPlaces(p))
                          THEN Len(p.idle) ELSE Cardinality(OpenPlaces(p))
         /\ Given(p) \subseteq OpenPlaces(p)
         /\ IsFiniteSet(Given(p)) /\ Cardinality(Given(p)) = Served(p)
         /\ \A i \in Given(p) :
              \E at \in Len(p.idle) - Served(p) + 1 .. Len(p.idle) : To(p, i) = p.idle[at]
         /\ \A at \in Len(p.idle) - Served(p) + 1 .. Len(p.idle) :
              \E i \in Given(p) : To(p, i) = p.idle[at]
         /\ \A i, j \in Given(p) : To(p, i) = To(p, j) => i = j
         /\ \E s \in 0 .. Len(p.queue) :
              /\ Kept(p) = SubSeq(p.queue, s + 1, Len(p.queue))
              /\ \A i \in OpenPlaces(p) : i \in Given(p) <=> i <= s
              /\ Served(p) < Len(p.idle) => s = Len(p.queue)
<1> DEFINE S == OpenPlaces(p)
           n == Cardinality(S)
           m == Len(p.idle)
           k == Served(p)
           R == [i \in S |-> Rank(p, i)]
<1>1. S \in SUBSET (1 .. Len(p.queue)) /\ Len(p.queue) \in Nat /\ m \in Nat
  BY DEF Pools, OpenPlaces
<1>2. IsFiniteSet(S) /\ n \in Nat
  <2>1. IsFiniteSet(1 .. Len(p.queue))
    <3>1. 1 \in Int /\ Len(p.queue) \in Int
      BY <1>1
    <3> QED BY <3>1, FS_Interval
  <2> QED BY <1>1, <2>1, FS_Subset, FS_CardinalityType
<1>3. k \in Nat /\ k = IF m <= n THEN m ELSE n
  BY <1>1, <1>2, MinOfTwo DEF Served
<1>4. /\ R \in [S -> 1 .. n]
      /\ \A i, j \in S : i < j => R[i] < R[j]
      /\ \A r \in 1 .. n : \E i \in S : R[i] = r
  <2>1. S \in SUBSET Nat /\ R = [i \in S |-> Cardinality({h \in S : h <= i})]
    BY <1>1 DEF Rank
  <2> HIDE DEF R, S
  <2> QED BY <1>2, <2>1, Ranks
<1>5. Given(p) = {i \in S : R[i] <= k}
  BY DEF Given
<1>6. \A i \in S : To(p, i) = p.idle[m - R[i] + 1]
  BY DEF To
<1> HIDE DEF S, n, m, k, R
<1>7. \A i, j \in S : R[i] = R[j] => i = j
  BY <1>1, <1>4
<1>8. IsFiniteSet(Given(p)) /\ Cardinality(Given(p)) = k
  <2>1. [i \in Given(p) |-> R[i]] \in Injection(Given(p), 1 .. k)
    BY <1>3, <1>4, <1>5, <1>7 DEF Injection, IsInjective
  <2>2. [i \in Given(p) |-> R[i]] \in Surjection(Given(p), 1 .. k)
    BY <1>2, <1>3, <1>4, <1>5 DEF Surjection
  <2>3. IsFiniteSet(1 .. k) /\ Cardinality(1 .. k) = k
    <3>1. 1 \in Int /\ k \in Int /\ (IF 1 > k THEN 0 ELSE k - 1 + 1) = k
      BY <1>3
    <3> QED BY <3>1, FS_Interval
  <2> QED BY <2>1, <2>2, <2>3, FS_Injection
<1>9. \A i \in Given(p) : \E at \in m - k + 1 .. m : To(p, i) = p.idle[at]
  <2> SUFFICES ASSUME NEW i \in Given(p)
               PROVE  \E at \in m - k + 1 .. m : To(p, i) = p.idle[at]
    OBVIOUS
  <2>1. i \in S /\ R[i] \in 1 .. n /\ R[i] <= k
    BY <1>4, <1>5
  <2>2. m - R[i] + 1 \in m - k + 1 .. m
    BY <1>1, <1>2, <1>3, <2>1
  <2> QED BY <1>6, <2>1, <2>2
<1>10. \A at \in m - k + 1 .. m : \E i \in Given(p) : To(p, i) = p.idle[at]
  <2> SUFFICES ASSUME NEW at \in m - k + 1 .. m
               PROVE  \E i \in Given(p) : To(p, i) = p.idle[at]
    OBVIOUS
  <2>1. m - at + 1 \in 1 .. n /\ m - at + 1 <= k /\ at = m - (m - at + 1) + 1
    BY <1>1, <1>2, <1>3
  <2>2. PICK i \in S : R[i] = m - at + 1
    BY <1>4, <2>1
  <2> QED BY <1>5, <1>6, <2>1, <2>2
<1>11. \A i, j \in Given(p) : To(p, i) = To(p, j) => i = j
  <2> SUFFICES ASSUME NEW i \in Given(p), NEW j \in Given(p), To(p, i) = To(p, j)
               PROVE  i = j
    OBVIOUS
  <2>1. R[i] \in 1 .. k /\ R[j] \in 1 .. k
    BY <1>2, <1>3, <1>4, <1>5
  <2>2. m - R[i] + 1 \in 1 .. m /\ m - R[j] + 1 \in 1 .. m
    BY <1>1, <1>2, <1>3, <2>1
  <2>3. m - R[i] + 1 = m - R[j] + 1
    BY <1>5, <1>6, <2>2 DEF Distinct, m
  <2>4. R[i] = R[j]
    BY <1>1, <2>1, <2>3
  <2> QED BY <1>5, <1>7, <2>4
<1>12. \E s \in 0 .. Len(p.queue) :
         /\ Kept(p) = SubSeq(p.queue, s + 1, Len(p.queue))
         /\ \A i \in S : i \in Given(p) <=> i <= s
         /\ k < m => s = Len(p.queue)
  <2>1. CASE m = 0
    <3>1. p.idle = <<>> /\ Given(p) = {} /\ k = 0
      <4>1. p.idle = <<>>
        BY <2>1 DEF m, Pools
      <4>2. k = 0
        BY <1>2, <1>3, <2>1
      <4>3. \A i \in S : R[i] \in 1 .. n /\ ~(R[i] <= 0)
        BY <1>2, <1>4
      <4> QED BY <1>5, <4>1, <4>2, <4>3
    <3>2. Kept(p) = SubSeq(p.queue, 0 + 1, Len(p.queue))
      BY <3>1 DEF Kept, Pools
    <3>3. \A i \in S : ~(i <= 0)
      BY <1>1
    <3> WITNESS 0 \in 0 .. Len(p.queue)
    <3> QED BY <2>1, <3>1, <3>2, <3>3
  <2>2. CASE m > 0 /\ k < m
    <3>1. p.idle # <<>> /\ Kept(p) = <<>>
      BY <2>2 DEF m, k, Kept
    <3>2. Kept(p) = SubSeq(p.queue, Len(p.queue) + 1, Len(p.queue))
      BY <1>1, <3>1 DEF Pools
    <3>3. Given(p) = S
      BY <1>2, <1>3, <1>4, <1>5, <2>2
    <3>4. \A i \in S : i <= Len(p.queue)
      BY <1>1
    <3> WITNESS Len(p.queue) \in 0 .. Len(p.queue)
    <3> QED BY <3>2, <3>3, <3>4
  <2>3. CASE m > 0 /\ k = m
    <3>1. PICK last \in S : R[last] = k
      BY <1>1, <1>2, <1>3, <1>4, <2>3
    <3>2. last \in Given(p) /\ \A i \in Given(p) : last >= i
      BY <1>1, <1>3, <1>4, <1>5, <3>1
    <3>3. Max(Given(p)) = last
      <4>1. \A i \in Given(p) : i \in Nat
        <5>1. \A i \in S : i \in Nat
          BY <1>1
        <5> QED BY <1>5, <5>1
      <4>2. \A i \in Given(p) : (\A j \in Given(p) : i >= j) => i = last
        BY <3>2, <4>1
      <4> QED BY <3>2, <4>2 DEF Max
    <3>4. p.idle # <<>> /\ Kept(p) = SubSeq(p.queue, last + 1, Len(p.queue))
      <4>1. p.idle # <<>> /\ ~(Served(p) < Len(p.idle))
        BY <1>1, <1>3, <2>3 DEF m, k
      <4> QED BY <3>3, <4>1 DEF Kept
    <3>5. \A i \in S : i \in Given(p) <=> i <= last
      BY <1>1, <1>3, <1>4, <1>5, <3>1, <3>2
    <3>6. last \in 0 .. Len(p.queue)
      BY <1>1
    <3>7. ~(k < m)
      BY <1>1, <1>3, <2>3
    <3> WITNESS last \in 0 .. Len(p.queue)
    <3> QED BY <3>4, <3>5, <3>7
  <2> QED BY <1>1, <1>2, <1>3, <2>1, <2>2, <2>3
<1> QED BY <1>2, <1>3, <1>5, <1>8, <1>9, <1>10, <1>11, <1>12 DEF S, n, m, k

\* Whoever is given a call has that one, and the others what they had.
LEMMA HandedOut ==
  ASSUME QueryPoolAssumption, NEW p \in Pools, Distinct(p.idle)
  PROVE  /\ \A i \in Given(p) : To(p, i) \in Idle(p) /\ InFlight(p)[To(p, i)] = p.queue[i]
         /\ \A w \in Threads : (\A i \in Given(p) : To(p, i) # w) =>
              InFlight(p)[w] = p.inflight[w]
         /\ InFlight(p) \in [Threads -> Calls \cup {NoCall}]
<1>1. \A i \in Given(p) : i \in 1 .. Len(p.queue) /\ p.queue[i] \in Calls
  <2>1. Given(p) \subseteq OpenPlaces(p)
    BY Handing
  <2> QED BY <2>1 DEF OpenPlaces, Pools
<1>2. Len(p.idle) \in Nat /\ \A i \in 1 .. Len(p.idle) : p.idle[i] \in Threads
  BY DEF Pools
<1>3. \A i \in Given(p) : To(p, i) \in Idle(p) /\ To(p, i) \in Threads
  <2> SUFFICES ASSUME NEW i \in Given(p) PROVE To(p, i) \in Idle(p) /\ To(p, i) \in Threads
    OBVIOUS
  <2>1. PICK at \in Len(p.idle) - Served(p) + 1 .. Len(p.idle) : To(p, i) = p.idle[at]
    BY Handing
  <2>2. Served(p) \in Nat /\ Served(p) <= Len(p.idle)
    BY <1>2, Handing
  <2>3. at \in 1 .. Len(p.idle)
    BY <1>2, <2>2
  <2> QED BY <1>2, <2>1, <2>3 DEF Idle
<1>4. \A w \in Threads : (\A i \in Given(p) : To(p, i) # w) =>
        InFlight(p)[w] = p.inflight[w]
  BY DEF InFlight
<1>5. \A i \in Given(p) : InFlight(p)[To(p, i)] = p.queue[i]
  <2> SUFFICES ASSUME NEW i \in Given(p) PROVE InFlight(p)[To(p, i)] = p.queue[i]
    OBVIOUS
  <2>1. \A j \in Given(p) : To(p, j) = To(p, i) <=> j = i
    BY Handing
  <2>2. (CHOOSE j \in Given(p) : To(p, j) = To(p, i)) = i
    BY <2>1
  <2> QED BY <1>3, <2>2 DEF InFlight
<1>6. \A w \in Threads : InFlight(p)[w] \in Calls \cup {NoCall}
  <2>1. p.inflight \in [Threads -> Calls \cup {NoCall}]
    BY DEF Pools
  <2> QED BY <1>1, <1>4, <1>5, <2>1
<1>7. InFlight(p) = [w \in Threads |-> InFlight(p)[w]]
  BY DEF InFlight
<1>8. InFlight(p) \in [Threads -> Calls \cup {NoCall}]
  BY <1>6, <1>7
<1> QED BY <1>3, <1>4, <1>5, <1>8

\* The fields after the second loop of drain.
LEMMA DispatchedFields ==
  ASSUME QueryPoolAssumption, NEW p \in Pools, Distinct(p.idle),
         NEW q, q = Dispatched(p)
  PROVE  /\ q \in Pools
         /\ q.workers = p.workers /\ q.pending = p.pending /\ q.crashes = p.crashes
         /\ q.destroyed = p.destroyed /\ q.outcome = p.outcome /\ q.retries = p.retries
         /\ q.idle = SubSeq(p.idle, 1, Len(p.idle) - Served(p))
         /\ q.queue = Kept(p) /\ q.inflight = InFlight(p)
<1>1. Kept(p) \in Seq(Calls)
  <2>1. PICK s \in 0 .. Len(p.queue) : Kept(p) = SubSeq(p.queue, s + 1, Len(p.queue))
    BY Handing
  <2> QED BY <2>1 DEF Pools
<1>2. SubSeq(p.idle, 1, Len(p.idle) - Served(p)) \in Seq(Threads)
  <2>1. Served(p) \in Nat /\ Served(p) <= Len(p.idle)
    <3>1. Len(p.idle) \in Nat
      BY DEF Pools
    <3> QED BY <3>1, Handing
  <2> QED BY <2>1 DEF Pools
<1>3. InFlight(p) \in [Threads -> Calls \cup {NoCall}]
  BY HandedOut
<1> QED BY <1>1, <1>2, <1>3 DEF Dispatched, Pools

\* The queue after the second loop of drain is what was behind some place of it.
LEMMA DispatchedQueue ==
  ASSUME QueryPoolAssumption, NEW p \in Pools, Distinct(p.idle),
         NEW q, q = Dispatched(p)
  PROVE  \E s \in 0 .. Len(p.queue) :
           /\ Len(q.queue) = Len(p.queue) - s
           /\ \A i \in 1 .. Len(q.queue) : i + s \in 1 .. Len(p.queue)
                                           /\ q.queue[i] = p.queue[i + s]
           /\ \A i \in OpenPlaces(p) : i \in Given(p) <=> i <= s
           /\ Served(p) < Len(p.idle) => s = Len(p.queue)
<1>1. PICK s \in 0 .. Len(p.queue) :
        /\ Kept(p) = SubSeq(p.queue, s + 1, Len(p.queue))
        /\ \A i \in OpenPlaces(p) : i \in Given(p) <=> i <= s
        /\ Served(p) < Len(p.idle) => s = Len(p.queue)
  BY Handing
<1>2. q.queue = SubSeq(p.queue, s + 1, Len(p.queue))
  BY <1>1, DispatchedFields
<1>3. p.queue \in Seq(Calls) /\ Len(p.queue) \in Nat
  BY DEF Pools
<1>4. /\ Len(q.queue) = Len(p.queue) - s
      /\ \A i \in 1 .. Len(q.queue) : i + s \in 1 .. Len(p.queue)
                                      /\ q.queue[i] = p.queue[i + s]
  BY <1>2, <1>3
<1> WITNESS s \in 0 .. Len(p.queue)
<1> QED BY <1>1, <1>4

\* The workers that drain calls on change from idle to busy.
LEMMA DispatchedWorkers ==
  ASSUME QueryPoolAssumption, NEW p \in Pools, Distinct(p.idle), Idle(p) \cap Busy(p) = {},
         NEW q, q = Dispatched(p)
  PROVE  /\ Busy(q) = Busy(p) \cup {To(p, i) : i \in Given(p)}
         /\ Idle(q) = Idle(p) \ {To(p, i) : i \in Given(p)}
         /\ Distinct(q.idle)
         /\ Len(q.idle) = Len(p.idle) - Served(p)
         /\ \A w \in Busy(p) : q.inflight[w] = p.inflight[w]
         /\ \A w \in Threads \ Busy(q) : q.inflight[w] = NoCall
<1> DEFINE T == {To(p, i) : i \in Given(p)}
           m == Len(p.idle)
           k == Served(p)
<1>1. q.idle = SubSeq(p.idle, 1, m - k) /\ q.inflight = InFlight(p)
  BY DispatchedFields
<1>2. m \in Nat /\ p.idle \in Seq(Threads) /\ \A i \in 1 .. m : p.idle[i] \in Threads
  BY DEF Pools
<1>3. k \in Nat /\ k <= m
  BY <1>2, Handing
<1>4. Len(q.idle) = m - k /\ \A i \in 1 .. m - k : q.idle[i] = p.idle[i]
  BY <1>1, <1>2, <1>3
<1>5. T \subseteq Threads /\ T \subseteq Idle(p)
  <2>1. T \subseteq Idle(p)
    BY HandedOut
  <2> QED BY <1>2, <2>1 DEF Idle
<1>6. \A w \in T : w \notin Busy(p) /\ q.inflight[w] \in Calls
  <2>1. \A i \in Given(p) : q.inflight[To(p, i)] = p.queue[i]
    BY <1>1, HandedOut
  <2>2. \A i \in Given(p) : p.queue[i] \in Calls
    <3>1. Given(p) \subseteq OpenPlaces(p)
      BY Handing
    <3> QED BY <3>1 DEF OpenPlaces, Pools
  <2> QED BY <1>5, <2>1, <2>2
<1>7. \A w \in Threads \ T : q.inflight[w] = p.inflight[w]
  BY <1>1, HandedOut
<1>8. NoCall \notin Calls
  BY DEF NoCall, Calls
<1>9. Busy(q) = Busy(p) \cup T
  BY <1>5, <1>6, <1>7, <1>8 DEF Busy
<1>10. Distinct(q.idle)
  BY <1>2, <1>3, <1>4 DEF Distinct
<1>11. Idle(q) = Idle(p) \ T
  <2>1. Idle(q) = {p.idle[i] : i \in 1 .. m - k}
    BY <1>2, <1>3, <1>4 DEF Idle
  <2>2. T = {p.idle[i] : i \in m - k + 1 .. m}
    <3>1. \A i \in Given(p) : \E at \in m - k + 1 .. m : To(p, i) = p.idle[at]
      BY Handing
    <3>2. \A at \in m - k + 1 .. m : \E i \in Given(p) : To(p, i) = p.idle[at]
      BY Handing
    <3> QED BY <3>1, <3>2
  <2>3. \A i \in 1 .. m - k, j \in m - k + 1 .. m : p.idle[i] # p.idle[j]
    BY <1>2, <1>3 DEF Distinct
  <2>4. 1 .. m = (1 .. m - k) \cup (m - k + 1 .. m)
    BY <1>2, <1>3
  <2>5. Idle(p) = {p.idle[i] : i \in 1 .. m}
    BY DEF Idle
  <2> HIDE DEF T, m, k
  <2> QED BY <2>1, <2>2, <2>3, <2>4, <2>5
<1>12. \A w \in Threads \ Busy(q) : q.inflight[w] = NoCall
  BY DEF Busy
<1>13. \A w \in Busy(p) : q.inflight[w] = p.inflight[w]
  BY <1>6, <1>7 DEF Busy
<1> QED BY <1>4, <1>9, <1>10, <1>11, <1>12, <1>13

\* Calls stay apart, and none that is owed an answer is dropped.
LEMMA DispatchedCalls ==
  ASSUME QueryPoolAssumption, NEW p \in Pools, Distinct(p.idle), Idle(p) \cap Busy(p) = {},
         Apart(p), Owed(p), NEW q, q = Dispatched(p)
  PROVE  /\ Apart(q) /\ Owed(q)
         /\ \A c \in Calls : Queued(q, c) \/ Handed(q, c) => Queued(p, c) \/ Handed(p, c)
         /\ p.queue = <<>> => q.queue = <<>> /\ Busy(q) = Busy(p)
         /\ q.idle = <<>> \/ q.queue = <<>>
<1>1. PICK s \in 0 .. Len(p.queue) :
        /\ Len(q.queue) = Len(p.queue) - s
        /\ \A i \in 1 .. Len(q.queue) : i + s \in 1 .. Len(p.queue)
                                        /\ q.queue[i] = p.queue[i + s]
        /\ \A i \in OpenPlaces(p) : i \in Given(p) <=> i <= s
        /\ Served(p) < Len(p.idle) => s = Len(p.queue)
  BY DispatchedQueue
<1>2. /\ q \in Pools /\ q.outcome = p.outcome /\ q.inflight = InFlight(p)
  BY DispatchedFields
<1>3. Len(p.queue) \in Nat /\ \A i \in 1 .. Len(p.queue) : p.queue[i] \in Calls
  BY DEF Pools
<1>4. Given(p) \subseteq OpenPlaces(p) /\ OpenPlaces(p) \subseteq 1 .. Len(p.queue)
  BY Handing DEF OpenPlaces
<1>5. \A i, j \in Given(p) : To(p, i) = To(p, j) => i = j
  BY Handing
<1>6. /\ \A i \in Given(p) : To(p, i) \in Threads /\ q.inflight[To(p, i)] = p.queue[i]
      /\ \A w \in Threads : (\A i \in Given(p) : To(p, i) # w) => q.inflight[w] = p.inflight[w]
  <2>1. Idle(p) \subseteq Threads
    BY DEF Idle, Pools
  <2> QED BY <1>2, <2>1, HandedOut
<1>7. \A i \in Given(p) : i \in 1 .. s
  BY <1>1, <1>3, <1>4
<1>8. \A j \in 1 .. Len(q.queue) : ~(j + s <= s)
  BY <1>1, <1>3
<1>9. Distinct(q.queue)
  BY <1>1, <1>3 DEF Apart, Distinct
<1>10. \A c \in Calls : Queued(q, c) => Queued(p, c)
  BY <1>1 DEF Queued
<1>11. \A c \in Calls : Handed(q, c) => Handed(p, c) \/ \E i \in Given(p) : p.queue[i] = c
  BY <1>6 DEF Handed
<1>12. \A c \in Calls, i \in Given(p) : p.queue[i] = c => Queued(p, c) /\ ~Queued(q, c)
  <2> SUFFICES ASSUME NEW i \in Given(p), NEW j \in 1 .. Len(q.queue)
               PROVE  q.queue[j] # p.queue[i]
    BY <1>4 DEF Queued
  <2> QED BY <1>1, <1>3, <1>4, <1>7, <1>8 DEF Apart, Distinct
<1>13. \A c \in Calls : ~(Queued(q, c) /\ Handed(q, c))
  BY <1>10, <1>11, <1>12 DEF Apart
<1>14. \A c \in Calls : q.outcome[c] = "none" => ~Queued(q, c) /\ ~Handed(q, c)
  BY <1>2, <1>10, <1>11, <1>12 DEF Apart
<1>15. \A v, w \in Threads : q.inflight[v] = q.inflight[w] /\ q.inflight[v] # NoCall => v = w
  <2> SUFFICES ASSUME NEW v \in Threads, NEW w \in Threads,
                      q.inflight[v] = q.inflight[w], q.inflight[v] # NoCall
               PROVE  v = w
    OBVIOUS
  <2>1. CASE \E i \in Given(p) : To(p, i) = v
    <3>1. PICK i \in Given(p) : To(p, i) = v
      BY <2>1
    <3>2. Queued(p, p.queue[i]) /\ p.queue[i] \in Calls
      BY <1>3, <1>4 DEF Queued
    <3>3. CASE \E j \in Given(p) : To(p, j) = w
      BY <1>3, <1>4, <1>6, <3>1, <3>3 DEF Apart, Distinct
    <3>4. CASE \A j \in Given(p) : To(p, j) # w
      BY <1>6, <3>1, <3>2, <3>4 DEF Apart, Handed
    <3> QED BY <3>3, <3>4
  <2>2. CASE \A i \in Given(p) : To(p, i) # v
    <3>1. CASE \E j \in Given(p) : To(p, j) = w
      <4>1. PICK j \in Given(p) : To(p, j) = w
        BY <3>1
      <4>2. Queued(p, p.queue[j]) /\ p.queue[j] \in Calls
        BY <1>3, <1>4 DEF Queued
      <4> QED BY <1>6, <2>2, <4>1, <4>2 DEF Apart, Handed
    <3>2. CASE \A j \in Given(p) : To(p, j) # w
      BY <1>6, <2>2, <3>2 DEF Apart
    <3> QED BY <3>1, <3>2
  <2> QED BY <2>1, <2>2
<1>16. Apart(q)
  BY <1>9, <1>13, <1>14, <1>15 DEF Apart
<1>17. Owed(q)
  <2> SUFFICES ASSUME NEW c \in Calls, Open(q, c) PROVE Queued(q, c) \/ Handed(q, c)
    BY DEF Owed
  <2>1. Open(p, c)
    BY <1>2 DEF Open
  <2>2. CASE Handed(p, c)
    <3>1. PICK w \in Threads : p.inflight[w] = c
      BY <2>2 DEF Handed
    <3>2. w \in Busy(p)
      BY <3>1 DEF Busy, NoCall, Calls
    <3>3. q.inflight[w] = c
      BY <3>1, <3>2, DispatchedWorkers
    <3> QED BY <3>3 DEF Handed
  <2>3. CASE Queued(p, c)
    <3>1. PICK i \in 1 .. Len(p.queue) : p.queue[i] = c
      BY <2>3 DEF Queued
    <3>2. i \in OpenPlaces(p)
      BY <2>1, <3>1 DEF OpenPlaces
    <3>3. CASE i <= s
      <4>1. i \in Given(p)
        BY <1>1, <3>2, <3>3
      <4> QED BY <1>6, <3>1, <4>1 DEF Handed
    <3>4. CASE ~(i <= s)
      <4>1. i - s \in 1 .. Len(q.queue) /\ (i - s) + s = i
        BY <1>1, <1>3, <3>4
      <4> QED BY <1>1, <3>1, <4>1 DEF Queued
    <3> QED BY <3>3, <3>4
  <2> QED BY <2>1, <2>2, <2>3 DEF Owed
<1>18. p.queue = <<>> => q.queue = <<>> /\ Busy(q) = Busy(p)
  <2> SUFFICES ASSUME p.queue = <<>> PROVE q.queue = <<>> /\ Busy(q) = Busy(p)
    OBVIOUS
  <2>1. Len(p.queue) = 0
    OBVIOUS
  <2>2. Given(p) = {}
    BY <1>4, <2>1
  <2>3. Len(q.queue) = 0
    BY <1>1, <2>1
  <2>4. q.queue = <<>>
    BY <1>2, <2>3 DEF Pools
  <2>5. Busy(q) = Busy(p) \cup {To(p, i) : i \in Given(p)}
    BY DispatchedWorkers
  <2> QED BY <2>2, <2>4, <2>5
<1>19. q.idle = <<>> \/ q.queue = <<>>
  <2>1. Served(p) \in Nat /\ Served(p) <= Len(p.idle) /\ Len(p.idle) \in Nat
    <3>1. Len(p.idle) \in Nat
      BY DEF Pools
    <3> QED BY <3>1, Handing
  <2>2. CASE Served(p) < Len(p.idle)
    <3>1. Len(q.queue) = 0
      BY <1>1, <1>3, <2>2
    <3> QED BY <1>2, <3>1 DEF Pools
  <2>3. CASE Served(p) = Len(p.idle)
    <3>1. Len(q.idle) = 0
      BY <2>1, <2>3, DispatchedWorkers
    <3> QED BY <1>2, <3>1 DEF Pools
  <2> QED BY <2>1, <2>2, <2>3
<1> QED BY <1>10, <1>11, <1>12, <1>16, <1>17, <1>18, <1>19

\* Handing out calls changes the number of those that are outstanding by none.
LEMMA DispatchedCount ==
  ASSUME QueryPoolAssumption, NEW p \in Pools, Distinct(p.idle), Idle(p) \cap Busy(p) = {},
         NEW q, q = Dispatched(p)
  PROVE  Outstanding(q) = Outstanding(p)
<1> DEFINE S == OpenPlaces(p)
           G == Given(p)
           T == {To(p, i) : i \in G}
<1>1. /\ IsFiniteSet(S) /\ Cardinality(S) \in Nat
      /\ G \subseteq S /\ IsFiniteSet(G) /\ Cardinality(G) = Served(p) /\ Served(p) \in Nat
      /\ \A i, j \in G : To(p, i) = To(p, j) => i = j
  BY Handing
<1>2. Cardinality(OpenPlaces(q)) = Cardinality(S) - Served(p)
  <2>1. PICK s \in 0 .. Len(p.queue) :
          /\ Len(q.queue) = Len(p.queue) - s
          /\ \A i \in 1 .. Len(q.queue) : i + s \in 1 .. Len(p.queue)
                                          /\ q.queue[i] = p.queue[i + s]
          /\ \A i \in OpenPlaces(p) : i \in Given(p) <=> i <= s
    BY DispatchedQueue
  <2>2. q.outcome = p.outcome
    BY DispatchedFields
  <2>3. Len(p.queue) \in Nat
    BY DEF Pools
  <2> DEFINE f == [i \in S \ G |-> i - s]
  <2>4. \A i \in S \ G : i - s \in OpenPlaces(q)
    <3> SUFFICES ASSUME NEW i \in S \ G PROVE i - s \in OpenPlaces(q)
      OBVIOUS
    <3>1. i \in 1 .. Len(p.queue) /\ ~(i <= s) /\ Open(p, p.queue[i])
      BY <2>1 DEF OpenPlaces
    <3>2. i - s \in 1 .. Len(q.queue) /\ (i - s) + s = i
      BY <2>1, <2>3, <3>1
    <3>3. q.queue[i - s] = p.queue[i]
      BY <2>1, <3>2
    <3> QED BY <2>2, <3>1, <3>2, <3>3 DEF OpenPlaces, Open
  <2>5. \A j \in OpenPlaces(q) : j + s \in S \ G /\ (j + s) - s = j
    <3> SUFFICES ASSUME NEW j \in OpenPlaces(q) PROVE j + s \in S \ G /\ (j + s) - s = j
      OBVIOUS
    <3>1. j \in 1 .. Len(q.queue) /\ Open(q, q.queue[j])
      BY DEF OpenPlaces
    <3>2. j + s \in 1 .. Len(p.queue) /\ ~(j + s <= s) /\ (j + s) - s = j
      BY <2>1, <2>3, <3>1
    <3>3. q.queue[j] = p.queue[j + s]
      BY <2>1, <3>1
    <3> QED BY <2>1, <2>2, <3>1, <3>2, <3>3 DEF OpenPlaces, Open
  <2>6. \A i, j \in S \ G : i - s = j - s => i = j
    BY <2>1, <2>3 DEF OpenPlaces
  <2>7. f \in Injection(S \ G, OpenPlaces(q))
    BY <2>4, <2>6 DEF Injection, IsInjective
  <2>8. f \in Surjection(S \ G, OpenPlaces(q))
    BY <2>4, <2>5 DEF Surjection
  <2>9. IsFiniteSet(S \ G) /\ Cardinality(S \ G) = Cardinality(S) - Cardinality(S \cap G)
    BY <1>1, FS_Difference
  <2>10. S \cap G = G
    BY <1>1
  <2>11. Cardinality(OpenPlaces(q)) = Cardinality(S \ G)
    <3> HIDE DEF f, S, G
    <3> QED BY <2>7, <2>8, <2>9, FS_Surjection
  <2> QED BY <1>1, <2>9, <2>10, <2>11
<1>3. IsFiniteSet(T) /\ Cardinality(T) = Served(p)
  <2> DEFINE f == [i \in G |-> To(p, i)]
  <2>1. f \in Surjection(G, T) /\ f \in Injection(G, T)
    BY <1>1 DEF Surjection, Injection, IsInjective
  <2> HIDE DEF f, G, T
  <2> QED BY <1>1, <2>1, FS_Surjection
<1>4. IsFiniteSet(Busy(p)) /\ Cardinality(Busy(p)) \in Nat
  BY FS_Subset, FS_CardinalityType DEF QueryPoolAssumption, Busy
<1>5. Busy(q) = Busy(p) \cup T
  BY DispatchedWorkers
<1>6. Busy(p) \cap T = {}
  BY HandedOut
<1>7. Cardinality(Busy(q)) = Cardinality(Busy(p)) + Served(p)
  <2> HIDE DEF T
  <2>1. Cardinality(Busy(p) \cap T) = 0
    BY <1>6, FS_EmptySet
  <2>2. Cardinality(Busy(p) \cup T)
          = Cardinality(Busy(p)) + Cardinality(T) - Cardinality(Busy(p) \cap T)
    BY <1>3, <1>4, FS_Union
  <2> QED BY <1>1, <1>3, <1>4, <1>5, <2>1, <2>2
<1> QED BY <1>1, <1>2, <1>4, <1>7 DEF Outstanding

-----------------------------------------------------------------------------
(* How the pool grows.                                                      *)

\* A pool that has started the threads W and been charged with some crashes.
StartedWith(p, q, W) ==
  /\ W \in SUBSET (Clean \ p.workers) /\ q \in Pools
  /\ q.workers = p.workers \cup W /\ q.pending = p.pending \cup W
  /\ q.crashes >= p.crashes
  /\ q.idle = p.idle /\ q.queue = p.queue /\ q.inflight = p.inflight
  /\ q.destroyed = p.destroyed /\ q.outcome = p.outcome /\ q.retries = p.retries
  /\ IsFiniteSet(q.workers) /\ Cardinality(q.workers) <= MaxSize

\* A finite set has subsets of every size up to its own.
LEMMA SubsetOfSize ==
  ASSUME NEW S, IsFiniteSet(S), NEW n \in Nat, n <= Cardinality(S)
  PROVE  \E V \in SUBSET S : Cardinality(V) = n
<1>1. Cardinality(S) \in Nat /\ ExistsBijection(1 .. Cardinality(S), S)
  BY FS_CardinalityType
<1>2. PICK f \in Bijection(1 .. Cardinality(S), S) : TRUE
  BY <1>1 DEF ExistsBijection
<1> DEFINE V == {f[i] : i \in 1 .. n}
<1>3. 1 .. n \subseteq 1 .. Cardinality(S)
  BY <1>1
<1>4. V \in SUBSET S
  BY <1>2, <1>3 DEF Bijection, Injection
<1>5. [i \in 1 .. n |-> f[i]] \in Surjection(1 .. n, V)
  BY DEF Surjection
<1>6. [i \in 1 .. n |-> f[i]] \in Injection(1 .. n, V)
  BY <1>2, <1>3 DEF Bijection, Injection, IsInjective
<1>7. IsFiniteSet(1 .. n) /\ Cardinality(1 .. n) = n
  <2>1. 1 \in Int /\ n \in Int /\ (IF 1 > n THEN 0 ELSE n - 1 + 1) = n
    OBVIOUS
  <2> QED BY <2>1, FS_Interval
<1>8. Cardinality(V) = n
  <2> HIDE DEF V
  <2> QED BY <1>5, <1>6, <1>7, FS_Surjection
<1> QED BY <1>4, <1>8

\* The constructor of n threads, while there is room for them.
LEMMA Starting ==
  ASSUME QueryPoolAssumption, NEW p \in Pools, NEW n \in Nat, n <= Room(p),
         NEW threw \in Nat, IsFiniteSet(p.workers), Cardinality(p.workers) + n <= MaxSize
  PROVE  \E W : StartedWith(p, Start(p, n, threw), W) /\ Cardinality(W) = n
<1> DEFINE W == CHOOSE V \in SUBSET (Clean \ p.workers) : Cardinality(V) = n
<1>1. IsFiniteSet(Clean \ p.workers)
  BY FS_Subset DEF QueryPoolAssumption, Clean
<1>2. W \in SUBSET (Clean \ p.workers) /\ Cardinality(W) = n
  BY <1>1, SubsetOfSize DEF Room
<1>3. Start(p, n, threw) = [p EXCEPT !.workers = @ \cup W, !.pending = @ \cup W,
                                     !.crashes = @ + threw]
  BY DEF Start
<1> HIDE DEF W
<1>4. W \subseteq Threads
  BY <1>2 DEF Clean
<1>5. IsFiniteSet(W) /\ W \cap p.workers = {}
  BY <1>1, <1>2, FS_Subset
<1>6. IsFiniteSet(p.workers \cup W) /\ Cardinality(p.workers \cup W) <= MaxSize
  <2>1. Cardinality(p.workers) \in Nat /\ Cardinality(p.workers \cap W) = 0
    BY <1>5, FS_CardinalityType, FS_EmptySet
  <2>2. IsFiniteSet(p.workers \cup W)
        /\ Cardinality(p.workers \cup W)
             = Cardinality(p.workers) + Cardinality(W) - Cardinality(p.workers \cap W)
    BY <1>5, FS_Union
  <2> QED BY <1>2, <2>1, <2>2
<1>7. Start(p, n, threw) \in Pools
  <2>1. p.workers \cup W \in SUBSET Threads /\ p.pending \cup W \in SUBSET Threads
        /\ p.crashes + threw \in Nat
    BY <1>4 DEF Pools
  <2> QED BY <1>3, <2>1 DEF Pools
<1>8. StartedWith(p, Start(p, n, threw), W)
  BY <1>2, <1>3, <1>6, <1>7 DEF StartedWith, Pools
<1> QED BY <1>2, <1>8

\* A pool is one that has started nothing.
LEMMA StartedNone ==
  ASSUME NEW p \in Pools, IsFiniteSet(p.workers), Cardinality(p.workers) <= MaxSize
  PROVE  StartedWith(p, p, {})
BY DEF StartedWith, Pools

\* spawnOne keeps the size.
LEMMA Spawning ==
  ASSUME QueryPoolAssumption, NEW p \in Pools, IsFiniteSet(p.workers),
         Cardinality(p.workers) <= MaxSize, NEW q \in SpawnOne(p)
  PROVE  \E W : StartedWith(p, q, W)
<1>1. Cardinality(p.workers) \in Nat
  BY FS_CardinalityType
<1>2. CASE q = p
  BY <1>2, StartedNone
<1>3. CASE Cardinality(p.workers) < MaxSize /\ q = Start(p, 0, 1)
  <2>1. 0 <= Room(p)
    <3>1. IsFiniteSet(Clean \ p.workers)
      BY FS_Subset DEF QueryPoolAssumption, Clean
    <3> QED BY <3>1, FS_CardinalityType DEF Room
  <2>2. Cardinality(p.workers) + 0 <= MaxSize
    BY <1>1
  <2> QED BY <1>3, <2>1, <2>2, Starting
<1>4. CASE Cardinality(p.workers) < MaxSize /\ q = Start(p, 1, 0) /\ Room(p) > 0
  <2>1. 1 <= Room(p)
    <3>1. IsFiniteSet(Clean \ p.workers)
      BY FS_Subset DEF QueryPoolAssumption, Clean
    <3>2. Room(p) \in Nat
      BY <3>1, FS_CardinalityType DEF Room
    <3> QED BY <1>4, <3>2
  <2>2. Cardinality(p.workers) + 1 <= MaxSize
    BY <1>1, <1>4 DEF QueryPoolAssumption
  <2> QED BY <1>4, <2>1, <2>2, Starting
<1>5. q = p \/ /\ ~(Cardinality(p.workers) >= MaxSize)
               /\ q = Start(p, 0, 1) \/ (q = Start(p, 1, 0) /\ Room(p) > 0)
  <2>1. CASE ~Healthy(p) \/ Cardinality(p.workers) >= MaxSize
    BY <2>1 DEF SpawnOne
  <2>2. CASE ~(~Healthy(p) \/ Cardinality(p.workers) >= MaxSize)
    <3>1. q \in {Start(p, 0, 1)} \cup {Start(p, 1, 0) : full \in {r \in {Room(p)} : r > 0}}
      BY <2>2 DEF SpawnOne
    <3>2. q = Start(p, 0, 1) \/ \E full \in {r \in {Room(p)} : r > 0} : q = Start(p, 1, 0)
      BY <3>1
    <3>3. \A full \in {r \in {Room(p)} : r > 0} : Room(p) > 0
      OBVIOUS
    <3> QED BY <2>2, <3>2, <3>3
  <2> QED BY <2>1, <2>2
<1>6. ~(Cardinality(p.workers) >= MaxSize) => Cardinality(p.workers) < MaxSize
  BY <1>1 DEF QueryPoolAssumption
<1> QED BY <1>2, <1>3, <1>4, <1>5, <1>6

\* The first loop of drain keeps the size, and ends with a worker for the first call
\* or with the crash budget spent.
LEMMA Growing ==
  ASSUME QueryPoolAssumption, NEW p \in Pools, IsFiniteSet(p.workers),
         Cardinality(p.workers) <= MaxSize, NEW q \in Grown(p),
         p.pending \subseteq p.workers, Idle(p) \subseteq p.workers
  PROVE  /\ \E W : StartedWith(p, q, W)
         /\ p.queue # <<>> /\ Healthy(q) => q.workers # {}
<1> DEFINE a == Monus(Len(p.queue), Len(p.idle) + Cardinality(p.pending))
           b == Monus(MaxSize, Cardinality(p.workers))
           c == Monus(MaxConcurrentSpawn, Cardinality(p.pending))
           left == CrashBudget - p.crashes
<1>1. Cardinality(p.workers) \in Nat /\ IsFiniteSet(p.pending) /\ Cardinality(p.pending) \in Nat
  BY FS_CardinalityType, FS_Subset
<1>2. Len(p.queue) \in Nat /\ Len(p.idle) \in Nat
  BY DEF Pools
<1>3. a \in Nat /\ b \in Nat /\ c \in Nat
  BY <1>1, <1>2 DEF Monus, MaxConcurrentSpawn, QueryPoolAssumption
<1>4. Wanted(p) \in {a, b, c} /\ Wanted(p) <= b
  <2> HIDE DEF a, b, c
  <2>1. Wanted(p) = Min({a, b, c})
    BY DEF Wanted, a, b, c
  <2> QED BY <1>3, <2>1, MinOfThree
<1>5. Wanted(p) \in Nat /\ Cardinality(p.workers) + Wanted(p) <= MaxSize
  BY <1>1, <1>3, <1>4 DEF Monus, QueryPoolAssumption
<1>6. \A n \in 0 .. Wanted(p) : n \in Nat /\ Cardinality(p.workers) + n <= MaxSize
  BY <1>1, <1>5 DEF QueryPoolAssumption
<1>7. p.crashes \in Nat
  BY DEF Pools
<1>8. CASE Wanted(p) = 0 \/ ~Healthy(p)
  <2>1. q = p
    BY <1>8 DEF Grown
  <2>2. ASSUME p.queue # <<>>, Healthy(q) PROVE q.workers # {}
    <3> SUFFICES ASSUME p.workers = {} PROVE FALSE
      BY <2>1
    <3>1. Wanted(p) = 0
      BY <1>8, <2>1, <2>2
    <3>2. Cardinality(p.pending) = 0 /\ Cardinality(p.workers) = 0
      BY FS_EmptySet
    <3>3. Len(p.idle) = 0
      <4>1. Idle(p) = {}
        OBVIOUS
      <4>2. 1 \notin 1 .. Len(p.idle)
        BY <4>1 DEF Idle
      <4> QED BY <1>2, <4>2
    <3>4. Len(p.queue) > 0
      BY <1>2, <2>2 DEF Pools
    <3>5. a > 0 /\ b > 0 /\ c > 0
      BY <1>2, <3>2, <3>3, <3>4 DEF Monus, MaxConcurrentSpawn, QueryPoolAssumption
    <3> QED BY <1>3, <1>4, <3>1, <3>5
  <2> QED BY <2>1, <2>2, StartedNone
<1>9. CASE Wanted(p) # 0 /\ Healthy(p)
  <2>1. left \in Nat /\ left > 0
    BY <1>7, <1>9 DEF Healthy, QueryPoolAssumption
  <2>2. \/ \E threw \in 0 .. left - 1 : Wanted(p) <= Room(p) /\ q = Start(p, Wanted(p), threw)
        \/ \E n \in 0 .. Wanted(p) - 1 : n <= Room(p) /\ q = Start(p, n, left)
    BY <1>9 DEF Grown
  <2>3. CASE \E threw \in 0 .. left - 1 : Wanted(p) <= Room(p) /\ q = Start(p, Wanted(p), threw)
    <3>1. PICK threw \in 0 .. left - 1 : Wanted(p) <= Room(p) /\ q = Start(p, Wanted(p), threw)
      BY <2>3
    <3>2. threw \in Nat
      BY <2>1
    <3>3. PICK W : StartedWith(p, q, W) /\ Cardinality(W) = Wanted(p)
      BY <1>5, <3>1, <3>2, Starting
    <3>4. W # {}
      BY <1>9, <3>3, FS_EmptySet
    <3> QED BY <3>3, <3>4 DEF StartedWith
  <2>4. CASE \E n \in 0 .. Wanted(p) - 1 : n <= Room(p) /\ q = Start(p, n, left)
    <3>1. PICK n \in 0 .. Wanted(p) - 1 : n <= Room(p) /\ q = Start(p, n, left)
      BY <2>4
    <3>2. n \in 0 .. Wanted(p)
      BY <1>5
    <3>3. PICK W : StartedWith(p, q, W)
      BY <1>6, <2>1, <3>1, <3>2, Starting
    <3>4. q.crashes = CrashBudget
      BY <1>7, <3>1 DEF Start, Pools, QueryPoolAssumption
    <3>5. ~Healthy(q)
      BY <3>4 DEF Healthy, QueryPoolAssumption
    <3> QED BY <3>3, <3>5
  <2> QED BY <2>2, <2>3, <2>4
<1> QED BY <1>8, <1>9
-----------------------------------------------------------------------------
(* What a call of drain leaves.                                             *)

\* drain starts threads and hands out calls, of which none comes or goes.
LEMMA Draining ==
  ASSUME QueryPoolAssumption, NEW p \in Pools, Booked(p), NEW q \in Drained(p)
  PROVE  /\ Booked(q) /\ Fed(q) /\ Outstanding(q) = Outstanding(p)
         /\ \E W \in SUBSET (Clean \ p.workers) :
              q.workers = p.workers \cup W /\ q.pending = p.pending \cup W
         /\ q.destroyed = p.destroyed /\ q.outcome = p.outcome /\ q.retries = p.retries
         /\ \A w \in Busy(p) : q.inflight[w] = p.inflight[w]
         /\ \A c \in Calls : Queued(q, c) \/ Handed(q, c) => Queued(p, c) \/ Handed(p, c)
         /\ Idle(q) \subseteq Idle(p)
<1> USE DEF Booked
<1>1. PICK g \in Grown(p) : q = Dispatched(g)
  BY DEF Drained
<1>2. CASE p.destroyed
  <2>1. g = p
    BY <1>1, <1>2 DEF Grown, Healthy
  <2>2. /\ q \in Pools /\ q.workers = p.workers /\ q.pending = p.pending
        /\ q.destroyed = p.destroyed /\ q.outcome = p.outcome /\ q.retries = p.retries
    BY <1>1, <2>1, DispatchedFields
  <2>3. /\ Busy(q) = Busy(p) \cup {To(p, i) : i \in Given(p)}
        /\ Idle(q) = Idle(p) \ {To(p, i) : i \in Given(p)}
        /\ Distinct(q.idle)
        /\ \A w \in Busy(p) : q.inflight[w] = p.inflight[w]
    BY <1>1, <2>1, DispatchedWorkers
  <2>4. /\ Apart(q) /\ Owed(q)
        /\ \A c \in Calls : Queued(q, c) \/ Handed(q, c) => Queued(p, c) \/ Handed(p, c)
        /\ p.queue = <<>> => q.queue = <<>> /\ Busy(q) = Busy(p)
    BY <1>1, <2>1, DispatchedCalls
  <2>5. Emptied(q)
    BY <1>2, <2>2, <2>4 DEF Emptied, Open
  <2>6. Outstanding(q) = Outstanding(p)
    BY <1>1, <2>1, DispatchedCount
  <2>7. Fed(q)
    BY <1>2, <2>2 DEF Fed, Healthy
  <2>8. Busy(q) = {}
    BY <2>5 DEF Emptied
  <2>9. Booked(q)
    BY <1>2, <2>2, <2>3, <2>4, <2>5, <2>8
  <2>10. \E W \in SUBSET (Clean \ p.workers) :
           q.workers = p.workers \cup W /\ q.pending = p.pending \cup W
    <3> WITNESS {} \in SUBSET (Clean \ p.workers)
    <3> QED BY <2>2
  <2> QED BY <2>2, <2>3, <2>4, <2>6, <2>7, <2>9, <2>10
<1>3. CASE ~p.destroyed
  <2>1. p.pending \subseteq p.workers /\ Idle(p) \subseteq p.workers
    BY <1>3 DEF Stationed
  <2>2. PICK W : StartedWith(p, g, W)
    BY <1>1, <2>1, Growing
  <2>3. p.queue # <<>> /\ Healthy(g) => g.workers # {}
    BY <1>1, <2>1, Growing
  <2>4. /\ g \in Pools /\ W \in SUBSET (Clean \ p.workers)
        /\ g.workers = p.workers \cup W /\ g.pending = p.pending \cup W
        /\ g.idle = p.idle /\ g.queue = p.queue /\ g.inflight = p.inflight
        /\ g.destroyed = p.destroyed /\ g.outcome = p.outcome /\ g.retries = p.retries
        /\ IsFiniteSet(g.workers) /\ Cardinality(g.workers) <= MaxSize
    BY <2>2 DEF StartedWith
  <2>5. /\ Idle(g) = Idle(p) /\ Busy(g) = Busy(p) /\ OpenPlaces(g) = OpenPlaces(p)
        /\ \A c \in Calls : /\ Queued(g, c) <=> Queued(p, c)
                            /\ Handed(g, c) <=> Handed(p, c)
    BY <2>4 DEF Idle, Busy, OpenPlaces, Open, Queued, Handed
  <2>6. Apart(g) /\ Owed(g) /\ Distinct(g.idle) /\ Idle(g) \cap Busy(g) = {}
    BY <2>4, <2>5 DEF Apart, Owed, Open
  <2>7. Outstanding(g) = Outstanding(p)
    BY <2>5 DEF Outstanding
  <2>8. /\ q \in Pools /\ q.workers = g.workers /\ q.pending = g.pending
        /\ q.crashes = g.crashes
        /\ q.destroyed = g.destroyed /\ q.outcome = g.outcome /\ q.retries = g.retries
    BY <1>1, <2>4, <2>6, DispatchedFields
  <2>9. /\ Busy(q) = Busy(g) \cup {To(g, i) : i \in Given(g)}
        /\ Idle(q) = Idle(g) \ {To(g, i) : i \in Given(g)}
        /\ Distinct(q.idle)
        /\ \A w \in Busy(g) : q.inflight[w] = g.inflight[w]
    BY <1>1, <2>4, <2>6, DispatchedWorkers
  <2>10. /\ Apart(q) /\ Owed(q)
         /\ \A c \in Calls : Queued(q, c) \/ Handed(q, c) => Queued(g, c) \/ Handed(g, c)
         /\ g.queue = <<>> => q.queue = <<>>
         /\ q.idle = <<>> \/ q.queue = <<>>
    BY <1>1, <2>4, <2>6, DispatchedCalls
  <2>11. {To(g, i) : i \in Given(g)} \subseteq Idle(g)
    BY <2>4, <2>6, HandedOut
  <2>12. p.workers \cap W = {}
    BY <2>4
  <2>13. Stationed(q)
    <3>1. Idle(q) \cup Busy(q) = Idle(p) \cup Busy(p) /\ Idle(q) \cap Busy(q) = {}
      BY <2>5, <2>6, <2>9, <2>11
    <3>2. /\ p.workers = p.pending \cup Idle(p) \cup Busy(p)
          /\ p.pending \cap (Idle(p) \cup Busy(p)) = {}
      BY <1>3 DEF Stationed
    <3> QED BY <2>4, <2>8, <2>9, <2>12, <3>1, <3>2 DEF Stationed
  <2>14. Idle(q) \cap Busy(q) = {}
    BY <2>13 DEF Stationed
  <2>15. Booked(q)
    BY <1>3, <2>4, <2>8, <2>9, <2>10, <2>13, <2>14
  <2>16. Outstanding(q) = Outstanding(p)
    BY <1>1, <2>4, <2>6, <2>7, DispatchedCount
  <2>17. Fed(q)
    <3> SUFFICES ASSUME Healthy(q), OpenPlaces(q) # {} PROVE q.idle = <<>> /\ q.workers # {}
      BY DEF Fed
    <3>1. q.queue # <<>>
      BY DEF OpenPlaces
    <3>2. Healthy(g)
      BY <2>8 DEF Healthy
    <3> QED BY <2>3, <2>4, <2>8, <2>10, <3>1, <3>2
  <2>18. \A w \in Busy(p) : q.inflight[w] = p.inflight[w]
    BY <2>4, <2>5, <2>9
  <2>19. \E V \in SUBSET (Clean \ p.workers) :
           q.workers = p.workers \cup V /\ q.pending = p.pending \cup V
    BY <2>4, <2>8
  <2>20. Idle(q) \subseteq Idle(p)
    BY <2>5, <2>9
  <2> QED BY <2>4, <2>5, <2>8, <2>10, <2>15, <2>16, <2>17, <2>18, <2>19, <2>20
<1> QED BY <1>2, <1>3
-----------------------------------------------------------------------------
(* The threads that a drained pool has.                                     *)

\* What a thread does, and what it has posted, still tells where the pool has it.
LEMMA Reporting ==
  ASSUME QueryPoolAssumption, TypeOK, Reported, Stationed(pool),
         NEW p \in Pools, Booked(p), ~p.destroyed, NEW q \in Drained(p), BecomesPool(q),
         \A w \in p.workers : w \in pool.workers \/ w \in Clean \cap p.pending,
         Clean \cap pool.workers \subseteq p.workers,
         \A w \in Threads : p.inflight[w] \in {NoCall, pool.inflight[w]},
         \A w \in Threads : mail'[w] \in {mail[w], Nothing},
         \A w \in Threads : mail'[w].kind = "ready" => w \in p.pending,
         \A w \in Threads : mail'[w].kind = "result" => w \in Busy(p),
         \A w \in p.workers : thread[w] = "loading" => w \in p.pending,
         \A w \in p.workers : thread[w] = "serving" => w \in Busy(p)
  PROVE  Reported'
<1>1. PICK W \in SUBSET (Clean \ p.workers) :
        q.workers = p.workers \cup W /\ q.pending = p.pending \cup W
  BY Draining
<1>2. /\ \A w \in Busy(p) : q.inflight[w] = p.inflight[w]
      /\ Stationed(q) /\ q \in Pools
  BY Draining DEF Booked
<1>3. Stationed(p)
  BY DEF Booked
<1>4. pool' = q /\ Busy(q) = Busy(pool)'
  BY DEF BecomesPool, Busy
<1>5. Busy(p) \subseteq Busy(q)
  BY <1>2 DEF Busy
<1>6. W \subseteq Threads /\ p.workers \subseteq Threads /\ \A w \in W : w \notin p.workers
  BY <1>1 DEF Clean, Pools
<1>7. \A w \in Threads : mail[w] = Nothing \/ mail[w].kind \in {"ready", "result"}
  BY DEF TypeOK, Nothing
<1>8. Nothing.kind = "none"
  BY DEF Nothing
<1> SUFFICES ASSUME NEW w \in Threads
             PROVE  /\ mail'[w].kind = "ready" => w \in q.pending
                    /\ mail'[w].kind = "result" => w \in Busy(q)
                    /\ thread'[w] = "loading" => w \in q.pending /\ mail'[w] = Nothing
                    /\ thread'[w] = "serving" => w \in Busy(q) /\ mail'[w] = Nothing
  BY <1>4 DEF Reported
<1>9. mail'[w].kind = "ready" => w \in q.pending
  BY <1>1
<1>10. mail'[w].kind = "result" => w \in Busy(q)
  BY <1>5
<1>11. thread'[w] = CASE w \in pool.workers \ q.workers -> "dead"
         [] w \in q.workers \ pool.workers -> "loading"
         [] /\ q.inflight[w] \notin {NoCall, pool.inflight[w]}
            /\ thread[w] # "dead" -> "serving"
         [] OTHER -> thread[w]
  BY DEF BecomesPool
<1>12. w \in Clean => mail[w] = Nothing /\ thread[w] \in {"none", "dead"}
  BY DEF Clean
<1>13. /\ thread[w] = "loading" => w \in pool.workers /\ mail[w] = Nothing
       /\ thread[w] = "serving" => w \in pool.workers /\ mail[w] = Nothing
  BY DEF Reported, Stationed
<1>14. CASE w \in pool.workers \ q.workers
  <2>1. q.inflight[w] = NoCall
    BY <1>2, <1>14 DEF Stationed, Busy
  <2>2. thread'[w] = "dead"
    BY <1>11, <1>14, <2>1
  <2> QED BY <1>9, <1>10, <2>2
<1>15. CASE w \in q.workers \ pool.workers
  <2>1. w \in Clean /\ w \in q.pending
    BY <1>1, <1>15
  <2>2. mail'[w] = Nothing
    BY <1>12, <2>1
  <2>3. thread'[w] = "loading"
    <3>1. q.inflight[w] = NoCall
      BY <1>2, <2>1 DEF Stationed, Busy
    <3> QED BY <1>11, <1>15, <3>1
  <2> QED BY <1>9, <1>10, <2>1, <2>2, <2>3
<1>16. CASE /\ w \notin pool.workers \ q.workers /\ w \notin q.workers \ pool.workers
            /\ q.inflight[w] \notin {NoCall, pool.inflight[w]} /\ thread[w] # "dead"
  <2>1. w \in Busy(q) /\ w \notin Busy(p)
    BY <1>2, <1>16 DEF Busy
  <2>2. w \notin q.pending
    BY <1>2, <2>1 DEF Stationed
  <2>3. w \notin p.pending
    BY <1>1, <2>2
  <2>4. mail'[w] = Nothing
    BY <1>7, <1>8, <2>1, <2>3
  <2>5. thread'[w] = "serving"
    BY <1>11, <1>16
  <2> QED BY <1>9, <1>10, <2>1, <2>4, <2>5
<1>17. CASE /\ w \notin pool.workers \ q.workers /\ w \notin q.workers \ pool.workers
            /\ ~(q.inflight[w] \notin {NoCall, pool.inflight[w]} /\ thread[w] # "dead")
  <2>1. thread'[w] = thread[w]
    BY <1>11, <1>17
  <2>2. thread[w] \in {"loading", "serving"} => w \in p.workers
    BY <1>1, <1>12, <1>13, <1>17
  <2>3. thread[w] \in {"loading", "serving"} => mail'[w] = Nothing
    BY <1>13
  <2>4. thread[w] = "loading" => w \in q.pending
    BY <1>1, <2>2
  <2>5. thread[w] = "serving" => w \in Busy(q)
    BY <1>5, <2>2
  <2> QED BY <1>9, <1>10, <2>1, <2>3, <2>4, <2>5
<1> QED BY <1>14, <1>15, <1>16, <1>17

\* The types after an event.
LEMMA Becoming ==
  ASSUME QueryPoolAssumption, TypeOK, NEW p, Booked(p), BecomesPool(p),
         NEW heard \in SUBSET Threads, EventsAfter(heard), \A w \in heard : gone[w] > 0,
         mail' \in [Threads -> [kind : {"none", "ready", "result"}]],
         killed' \in [Calls -> 0 .. MaxRetries + 1]
  PROVE  TypeOK'
<1>1. pool' = p /\ p \in Pools /\ Cardinality(p.workers) <= MaxSize
  BY DEF BecomesPool, Booked
<1>2. thread' \in [Threads -> {"none", "loading", "waiting", "serving", "dead"}]
  BY DEF BecomesPool, TypeOK
<1>3. opened' \subseteq Threads
  BY DEF BecomesPool, TypeOK
<1>4. gone' \in [Threads -> 0 .. 2]
  BY DEF EventsAfter, TypeOK
<1> QED BY <1>1, <1>2, <1>3, <1>4 DEF TypeOK, Pools

\* What holds of the pool's new value holds of the pool then.
LEMMA Carried ==
  ASSUME NEW q, pool' = q
  PROVE  /\ Booked(pool)' <=> Booked(q)
         /\ Fed(pool)' <=> Fed(q)
         /\ Outstanding(pool)' = Outstanding(q)
         /\ Charged(pool, killed)' <=> Charged(q, killed')
<1>1. Booked(pool)' <=> Booked(q)
  BY DEF Booked, Pools, Busy, Idle, Distinct, Emptied, Stationed, Apart, Owed, Open,
         Queued, Handed
<1>2. Fed(pool)' <=> Fed(q)
  BY DEF Fed, Healthy, OpenPlaces, Open
<1>3. Outstanding(pool)' = Outstanding(q)
  BY DEF Outstanding, OpenPlaces, Open, Busy
<1>4. Charged(pool, killed)' <=> Charged(q, killed')
  BY DEF Charged, Queued, Handed
<1> QED BY <1>1, <1>2, <1>3, <1>4

\* An event that books its call and its worker, and then drains the pool.
LEMMA DrainedStep ==
  ASSUME QueryPoolAssumption, IInv, NEW p, Booked(p), NEW q \in Drained(p), BecomesPool(q),
         NEW heard \in SUBSET Threads, EventsAfter(heard), \A w \in heard : gone[w] > 0,
         p.destroyed = pool.destroyed,
         \A w \in p.workers : w \in pool.workers \/ w \in Clean \cap p.pending,
         Clean \cap pool.workers \subseteq p.workers,
         \A w \in Threads : p.inflight[w] \in {NoCall, pool.inflight[w]},
         mail' \in [Threads -> [kind : {"none", "ready", "result"}]],
         \A w \in Threads : mail'[w] \in {mail[w], Nothing},
         ~p.destroyed => \A w \in Threads : mail'[w].kind = "ready" => w \in p.pending,
         ~p.destroyed => \A w \in Threads : mail'[w].kind = "result" => w \in Busy(p),
         ~p.destroyed => \A w \in p.workers : thread[w] = "loading" => w \in p.pending,
         ~p.destroyed => \A w \in p.workers : thread[w] = "serving" => w \in Busy(p),
         p.destroyed => \A w \in Threads : mail'[w].kind # "none" => w \notin Idle(p),
         killed' \in [Calls -> 0 .. MaxRetries + 1], Charged(p, killed'),
         Outstanding(p) <= 2 * MaxSize
  PROVE  IInv'
<1>1. p \in Pools
  BY DEF Booked
<1>2. /\ Booked(q) /\ Fed(q) /\ Outstanding(q) = Outstanding(p)
      /\ q.destroyed = p.destroyed /\ q.outcome = p.outcome /\ q.retries = p.retries
      /\ \A c \in Calls : Queued(q, c) \/ Handed(q, c) => Queued(p, c) \/ Handed(p, c)
      /\ Idle(q) \subseteq Idle(p)
  BY <1>1, Draining
<1>3. TypeOK /\ (~pool.destroyed => Reported /\ Stationed(pool))
      /\ (pool.destroyed => Silent /\ Emptied(pool))
  BY DEF IInv, Booked
<1>4. pool' = q
  BY DEF BecomesPool
<1>5. TypeOK'
  BY <1>2, <1>3, Becoming
<1>6. ~q.destroyed => Reported'
  BY <1>1, <1>2, <1>3, Reporting
<1>7. Charged(q, killed')
  BY <1>2 DEF Charged
<1>8. Booked(pool)' /\ Fed(pool)' /\ (Outstanding(pool) <= 2 * MaxSize)'
      /\ Charged(pool, killed)'
  BY <1>2, <1>4, <1>7, Carried
<1>9. ASSUME q.destroyed PROVE Silent'
  <2>1. pool.workers = {} /\ q.workers = {} /\ Busy(q) = {}
    BY <1>2, <1>3, <1>9 DEF Booked, Emptied
  <2>2. \A w \in Threads : thread'[w] = thread[w]
    <3>1. \A w \in Threads : q.inflight[w] = NoCall
      BY <2>1 DEF Busy
    <3> QED BY <2>1, <3>1 DEF BecomesPool
  <2>3. \A w \in Threads : mail'[w].kind # "none" => w \notin Idle(q)
    BY <1>2, <1>9
  <2>4. Idle(pool)' = Idle(q)
    BY <1>4 DEF Idle
  <2> QED BY <1>2, <1>3, <1>9, <2>2, <2>3, <2>4 DEF Silent
<1> QED BY <1>4, <1>5, <1>6, <1>8, <1>9 DEF IInv

-----------------------------------------------------------------------------
(* The calls of the ToolHandler.                                            *)

\* A constructed pool has one worker, which starts.
LEMMA PoolInit == QueryPoolAssumption /\ Init => IInv
<1> SUFFICES ASSUME QueryPoolAssumption, Init PROVE IInv
  OBVIOUS
<1> DEFINE first == CHOOSE w \in Threads : TRUE
<1>1. first \in Threads
  BY DEF QueryPoolAssumption
<1>2. pool = [idle |-> <<>>, queue |-> <<>>, inflight |-> [w \in Threads |-> NoCall],
              workers |-> {first}, pending |-> {first}, crashes |-> 0, destroyed |-> FALSE,
              outcome |-> [c \in Calls |-> "none"], retries |-> [c \in Calls |-> 0]]
  BY DEF Init
<1>3. thread = [w \in Threads |-> IF w = first THEN "loading" ELSE "none"]
  BY DEF Init
<1> HIDE DEF first
<1>4. 0 \in 0 .. MaxRetries /\ 0 \in 0 .. MaxRetries + 1
  BY DEF QueryPoolAssumption
<1>5. pool \in Pools
  BY <1>1, <1>2, <1>4 DEF Pools
<1>6. IsFiniteSet(pool.workers) /\ Cardinality(pool.workers) <= MaxSize
  <2>1. IsFiniteSet({first}) /\ Cardinality({first}) = 1
    BY FS_Singleton
  <2> QED BY <1>2, <2>1 DEF QueryPoolAssumption
<1>7. TypeOK
  <2>1. /\ opened \subseteq Threads
        /\ mail \in [Threads -> [kind : {"none", "ready", "result"}]]
        /\ gone \in [Threads -> 0 .. 2] /\ killed \in [Calls -> 0 .. MaxRetries + 1]
        /\ thread \in [Threads -> {"none", "loading", "waiting", "serving", "dead"}]
    BY <1>3, <1>4 DEF Init, Nothing
  <2> QED BY <1>5, <1>6, <2>1 DEF TypeOK, Pools
<1>8. Idle(pool) = {} /\ Busy(pool) = {} /\ OpenPlaces(pool) = {}
  BY <1>2 DEF Idle, Busy, OpenPlaces
<1>9. Stationed(pool) /\ Apart(pool) /\ Owed(pool)
  <2>1. \A c \in Calls : ~Queued(pool, c) /\ ~Handed(pool, c) /\ ~Open(pool, c)
    BY <1>2 DEF Queued, Handed, Open, NoCall, Calls
  <2>2. Distinct(pool.idle) /\ Distinct(pool.queue)
    BY <1>2 DEF Distinct
  <2> QED BY <1>2, <1>8, <2>1, <2>2 DEF Stationed, Apart, Owed
<1>10. Booked(pool)
  BY <1>2, <1>5, <1>6, <1>8, <1>9 DEF Booked, Stationed
<1>11. Fed(pool) /\ Outstanding(pool) <= 2 * MaxSize
  BY <1>8, FS_EmptySet DEF Fed, Outstanding, QueryPoolAssumption
<1>12. Reported
  BY <1>1, <1>2, <1>3 DEF Reported, Init, Nothing
<1>13. Charged(pool, killed)
  BY <1>2 DEF Charged, Init
<1> QED BY <1>2, <1>7, <1>10, <1>11, <1>12, <1>13 DEF IInv

\* The counts that are compared are numbers.
LEMMA Counts ==
  ASSUME QueryPoolAssumption, NEW p \in Pools
  PROVE  /\ IsFiniteSet(Busy(p)) /\ Cardinality(Busy(p)) \in Nat
         /\ IsFiniteSet(OpenPlaces(p)) /\ Cardinality(OpenPlaces(p)) \in Nat
<1>1. IsFiniteSet(Busy(p)) /\ Cardinality(Busy(p)) \in Nat
  BY FS_Subset, FS_CardinalityType DEF QueryPoolAssumption, Busy
<1>2. IsFiniteSet(1 .. Len(p.queue))
  <2>1. 1 \in Int /\ Len(p.queue) \in Int
    BY DEF Pools
  <2> QED BY <2>1, FS_Interval
<1>3. OpenPlaces(p) \in SUBSET (1 .. Len(p.queue))
  BY DEF OpenPlaces
<1> QED BY <1>1, <1>2, <1>3, FS_Subset, FS_CardinalityType

\* A call that is admitted waits at the end of the queue.
Enqueued(p, c) == [p EXCEPT !.outcome[c] = "open", !.queue = Append(@, c)]
LEMMA Queueing ==
  ASSUME QueryPoolAssumption, NEW p, Booked(p), ~p.destroyed, NEW c \in Calls,
         p.outcome[c] = "none", NEW q, q = Enqueued(p, c)
  PROVE  /\ Booked(q) /\ Outstanding(q) = Outstanding(p) + 1
         /\ \A d \in Calls \ {c} :
              (Queued(q, d) <=> Queued(p, d)) /\ q.outcome[d] = p.outcome[d]
<1>1. p \in Pools /\ p.queue \in Seq(Calls) /\ Len(p.queue) \in Nat
  BY DEF Booked, Pools
<1>2. /\ q \in Pools /\ q.idle = p.idle /\ q.inflight = p.inflight /\ q.workers = p.workers
      /\ q.pending = p.pending /\ q.destroyed = p.destroyed /\ q.retries = p.retries
      /\ q.outcome = [p.outcome EXCEPT ![c] = "open"] /\ q.queue = Append(p.queue, c)
  <2>1. Append(p.queue, c) \in Seq(Calls)
    BY <1>1
  <2>2. [p.outcome EXCEPT ![c] = "open"] \in [Calls -> {"none", "open"} \cup Answers]
    BY <1>1 DEF Pools
  <2> QED BY <1>1, <2>1, <2>2 DEF Pools, Enqueued
<1>3. /\ Len(q.queue) = Len(p.queue) + 1 /\ q.queue[Len(p.queue) + 1] = c
      /\ \A i \in 1 .. Len(p.queue) : q.queue[i] = p.queue[i]
  BY <1>1, <1>2
<1>4. ~Queued(p, c) /\ ~Handed(p, c)
  BY DEF Booked, Apart
<1>5. 1 .. Len(p.queue) + 1 = 1 .. Len(p.queue) \cup {Len(p.queue) + 1}
  BY <1>1
<1>6. \A d \in Calls : Queued(q, d) <=> Queued(p, d) \/ d = c
  <2>1. \A d \in Calls :
          Queued(q, d) <=> \E i \in 1 .. Len(p.queue) \cup {Len(p.queue) + 1} : q.queue[i] = d
    BY <1>3, <1>5 DEF Queued
  <2>2. \A d \in Calls : Queued(p, d) <=> \E i \in 1 .. Len(p.queue) : q.queue[i] = d
    BY <1>3 DEF Queued
  <2> QED BY <1>3, <2>1, <2>2, Zenon
<1>7. \A d \in Calls : Handed(q, d) <=> Handed(p, d)
  BY <1>2 DEF Handed
<1>8. \A d \in Calls \ {c} : (Queued(q, d) <=> Queued(p, d)) /\ q.outcome[d] = p.outcome[d]
  BY <1>1, <1>2, <1>6 DEF Pools
<1>9. q.outcome[c] = "open"
  BY <1>1, <1>2 DEF Pools
<1>10. Idle(q) = Idle(p) /\ Busy(q) = Busy(p)
  BY <1>2 DEF Idle, Busy
<1>11. Distinct(q.queue)
  <2>1. \A i \in 1 .. Len(p.queue) : p.queue[i] # c
    BY <1>4 DEF Queued
  <2>2. \A i, j \in 1 .. Len(p.queue) \cup {Len(p.queue) + 1} : q.queue[i] = q.queue[j] => i = j
    BY <1>3, <2>1 DEF Booked, Apart, Distinct
  <2> QED BY <1>3, <1>5, <2>2 DEF Distinct
<1>12. Apart(q)
  <2>1. \A d \in Calls : ~(Queued(q, d) /\ Handed(q, d))
    BY <1>4, <1>6, <1>7 DEF Booked, Apart
  <2>2. \A d \in Calls : q.outcome[d] = "none" => ~Queued(q, d) /\ ~Handed(q, d)
    BY <1>7, <1>8, <1>9 DEF Booked, Apart
  <2> QED BY <1>2, <1>11, <2>1, <2>2 DEF Booked, Apart
<1>13. Owed(q)
  BY <1>6, <1>7, <1>8 DEF Owed, Booked, Open
<1>14. Stationed(q)
  BY <1>2, <1>10 DEF Booked, Stationed
<1>15. Booked(q)
  BY <1>2, <1>10, <1>12, <1>13, <1>14 DEF Booked
<1>16. OpenPlaces(q) = OpenPlaces(p) \cup {Len(p.queue) + 1}
  <2>1. \A i \in 1 .. Len(p.queue) : Open(q, q.queue[i]) <=> Open(p, p.queue[i])
    <3> SUFFICES ASSUME NEW i \in 1 .. Len(p.queue)
                 PROVE  Open(q, q.queue[i]) <=> Open(p, p.queue[i])
      OBVIOUS
    <3>1. p.queue[i] \in Calls \ {c}
      BY <1>1, <1>4 DEF Queued
    <3> QED BY <1>3, <1>8, <3>1 DEF Open
  <2>2. Open(q, q.queue[Len(p.queue) + 1])
    BY <1>3, <1>9 DEF Open
  <2> QED BY <1>3, <1>5, <2>1, <2>2 DEF OpenPlaces
<1>17. Outstanding(q) = Outstanding(p) + 1
  <2>1. Len(p.queue) + 1 \notin OpenPlaces(p)
    BY <1>1 DEF OpenPlaces
  <2>2. IsFiniteSet(OpenPlaces(p)) /\ Cardinality(OpenPlaces(p)) \in Nat
        /\ Cardinality(Busy(p)) \in Nat
    BY <1>1, Counts
  <2>3. Cardinality(OpenPlaces(q)) = Cardinality(OpenPlaces(p)) + 1
    BY <1>16, <2>1, <2>2, FS_AddElement
  <2> QED BY <1>10, <2>2, <2>3 DEF Outstanding
<1> QED BY <1>8, <1>15, <1>17

\* An answer takes its call from those that are owed one.
LEMMA Settling ==
  ASSUME QueryPoolAssumption, NEW p \in Pools, NEW c \in Calls,
         NEW answer \in Answers \cup {"open"},
         p.outcome[c] # "none",
         NEW q, q = [p EXCEPT !.outcome[c] = answer]
  PROVE  /\ q \in Pools /\ q.idle = p.idle /\ q.inflight = p.inflight /\ q.queue = p.queue
         /\ q.workers = p.workers /\ q.pending = p.pending /\ q.destroyed = p.destroyed
         /\ q.retries = p.retries /\ q.crashes = p.crashes
         /\ \A d \in Calls \ {c} : q.outcome[d] = p.outcome[d]
         /\ q.outcome[c] = answer
         /\ Idle(q) = Idle(p) /\ Busy(q) = Busy(p)
         /\ Apart(p) => Apart(q)
<1>1. /\ q \in Pools /\ q.idle = p.idle /\ q.inflight = p.inflight /\ q.queue = p.queue
      /\ q.workers = p.workers /\ q.pending = p.pending /\ q.destroyed = p.destroyed
      /\ q.retries = p.retries /\ q.crashes = p.crashes
      /\ q.outcome = [p.outcome EXCEPT ![c] = answer]
  BY DEF Pools
<1>2. /\ \A d \in Calls \ {c} : q.outcome[d] = p.outcome[d]
      /\ q.outcome[c] = answer
  <2>1. p.outcome \in [Calls -> {"none", "open"} \cup Answers]
    BY DEF Pools
  <2> QED BY <1>1, <2>1
<1>3. Idle(q) = Idle(p) /\ Busy(q) = Busy(p)
  BY <1>1 DEF Idle, Busy
<1>4. Apart(p) => Apart(q)
  <2>1. \A d \in Calls : (Queued(q, d) <=> Queued(p, d)) /\ (Handed(q, d) <=> Handed(p, d))
    BY <1>1 DEF Queued, Handed
  <2>2. \A d \in Calls : q.outcome[d] = "none" => p.outcome[d] = "none"
    BY <1>2 DEF Answers
  <2> QED BY <1>1, <2>1, <2>2 DEF Apart
<1> QED BY <1>1, <1>2, <1>3, <1>4

\* Fewer open calls are no more places.
LEMMA FewerOutstanding ==
  ASSUME QueryPoolAssumption, NEW p \in Pools, NEW q \in Pools,
         Busy(q) \subseteq Busy(p), OpenPlaces(q) \subseteq OpenPlaces(p)
  PROVE  Outstanding(q) <= Outstanding(p)
<1>1. /\ IsFiniteSet(Busy(p)) /\ IsFiniteSet(OpenPlaces(p))
      /\ Cardinality(Busy(p)) \in Nat /\ Cardinality(OpenPlaces(p)) \in Nat
      /\ Cardinality(Busy(q)) \in Nat /\ Cardinality(OpenPlaces(q)) \in Nat
  BY Counts
<1>2. Cardinality(Busy(q)) <= Cardinality(Busy(p))
  BY <1>1, FS_Subset
<1>3. Cardinality(OpenPlaces(q)) <= Cardinality(OpenPlaces(p))
  BY <1>1, FS_Subset
<1> QED BY <1>1, <1>2, <1>3 DEF Outstanding

\* An answer in between, by the timer or because of the admission limit, leaves the
\* queue and the workers as they are.
LEMMA AnswerStep ==
  ASSUME QueryPoolAssumption, IInv, NEW c \in Calls, pool.outcome[c] # "none" \/ Healthy(pool),
         NEW answer \in Answers, pool' = [pool EXCEPT !.outcome[c] = answer],
         UNCHANGED <<thread, opened, mail, gone, killed>>
  PROVE  IInv'
<1>1. pool \in Pools /\ Booked(pool)
  BY DEF IInv, Booked
<1> DEFINE q == [pool EXCEPT !.outcome[c] = answer]
<1>2. /\ q \in Pools /\ q.idle = pool.idle /\ q.inflight = pool.inflight
      /\ q.queue = pool.queue /\ q.workers = pool.workers /\ q.pending = pool.pending
      /\ q.destroyed = pool.destroyed /\ q.retries = pool.retries /\ q.crashes = pool.crashes
      /\ \A d \in Calls \ {c} : q.outcome[d] = pool.outcome[d]
      /\ q.outcome[c] = answer
  <2>1. pool.outcome \in [Calls -> {"none", "open"} \cup Answers]
    BY <1>1 DEF Pools
  <2> QED BY <1>1, <2>1 DEF Pools
<1>3. pool' = q
  OBVIOUS
<1> HIDE DEF q
<1>4. answer # "none" /\ answer # "open"
  BY DEF Answers
<1>5. /\ Idle(q) = Idle(pool) /\ Busy(q) = Busy(pool)
      /\ \A d \in Calls : /\ Queued(q, d) <=> Queued(pool, d)
                          /\ Handed(q, d) <=> Handed(pool, d)
                          /\ Open(q, d) => Open(pool, d)
                          /\ q.outcome[d] = "none" => pool.outcome[d] = "none"
  BY <1>2, <1>4 DEF Idle, Busy, Queued, Handed, Open
<1>6. \A i \in 1 .. Len(pool.queue) : pool.queue[i] \in Calls
  BY <1>1 DEF Pools
<1>7. OpenPlaces(q) \subseteq OpenPlaces(pool)
  BY <1>2, <1>5, <1>6 DEF OpenPlaces
<1>8. Booked(q)
  <2>1. Apart(q) /\ Owed(q)
    BY <1>1, <1>2, <1>5 DEF Booked, Apart, Owed
  <2>2. q.destroyed => Emptied(q)
    BY <1>1, <1>2, <1>5 DEF Booked, Emptied
  <2>3. ~q.destroyed => Stationed(q)
    BY <1>1, <1>2, <1>5 DEF Booked, Stationed
  <2> QED BY <1>1, <1>2, <1>5, <2>1, <2>2, <2>3 DEF Booked
<1>9. Fed(q)
  BY <1>2, <1>7 DEF IInv, Fed, Healthy
<1>10. Outstanding(q) <= 2 * MaxSize
  <2>1. Outstanding(q) <= Outstanding(pool)
    BY <1>1, <1>2, <1>5, <1>7, FewerOutstanding
  <2>2. Outstanding(q) \in Nat /\ Outstanding(pool) \in Nat
    BY <1>1, <1>2, Counts DEF Outstanding
  <2> QED BY <2>1, <2>2 DEF IInv, QueryPoolAssumption
<1>11. Charged(q, killed)
  BY <1>2, <1>5 DEF IInv, Charged
<1>12. Reported' <=> Reported
  BY <1>2, <1>3, <1>5 DEF Reported, Busy
<1>15. Silent' <=> Silent
  <2>1. Idle(pool)' = Idle(pool)
    BY <1>2, <1>3 DEF Idle
  <2> QED BY <2>1 DEF Silent
<1>13. TypeOK'
  BY <1>2, <1>3, <1>8 DEF IInv, TypeOK, Booked, Pools
<1>14. /\ Booked(pool)' <=> Booked(q)
       /\ Fed(pool)' <=> Fed(q)
       /\ Outstanding(pool)' = Outstanding(q)
       /\ Charged(pool, killed)' <=> Charged(q, killed')
  BY <1>3, Carried
<1> QED BY <1>2, <1>3, <1>8, <1>9, <1>10, <1>11, <1>12, <1>13, <1>14, <1>15 DEF IInv

\* run
LEMMA RunStep == ASSUME QueryPoolAssumption, IInv, NEW c \in Calls, Run(c) PROVE IInv'
<1>1. pool \in Pools /\ Booked(pool) /\ TypeOK
  BY DEF IInv, Booked
<1>2. Healthy(pool) /\ pool.outcome[c] = "none" /\ ~pool.destroyed
  BY DEF Run, Healthy
<1>3. UNCHANGED <<mail, killed>> /\ EventsAfter({})
  BY DEF Run
<1>4. CASE Admitted(pool)
  <2> DEFINE p == Enqueued(pool, c)
  <2>1. PICK q \in Drained(p) : BecomesPool(q)
    BY <1>4 DEF Run, Enqueued
  <2>2. /\ Booked(p) /\ Outstanding(p) = Outstanding(pool) + 1
        /\ \A d \in Calls \ {c} : (Queued(p, d) <=> Queued(pool, d))
                                  /\ p.outcome[d] = pool.outcome[d]
    BY <1>1, <1>2, Queueing
  <2>3. /\ p.inflight = pool.inflight /\ p.workers = pool.workers /\ p.pending = pool.pending
        /\ p.destroyed = pool.destroyed /\ p.retries = pool.retries
    BY <1>1 DEF Pools, Enqueued
  <2> HIDE DEF p
  <2>4. Outstanding(p) <= 2 * MaxSize
    BY <1>1, <1>4, <2>2, Counts DEF Admitted, Outstanding, QueryPoolAssumption
  <2>5. Charged(p, killed')
    <3>1. Charged(pool, killed)
      BY DEF IInv
    <3>2. \A d \in Calls : Handed(p, d) <=> Handed(pool, d)
      BY <2>3 DEF Handed
    <3>3. killed[c] <= pool.retries[c]
      BY <1>2, <3>1 DEF Charged
    <3> QED BY <1>3, <2>2, <2>3, <3>1, <3>2, <3>3 DEF Charged
  <2>6. Reported /\ Busy(p) = Busy(pool)
    BY <1>2, <2>3 DEF IInv, Busy
  <2>7. /\ \A w \in Threads : mail'[w] \in {mail[w], Nothing}
        /\ \A w \in Threads : mail'[w].kind = "ready" => w \in p.pending
        /\ \A w \in Threads : mail'[w].kind = "result" => w \in Busy(p)
        /\ \A w \in p.workers : thread[w] = "loading" => w \in p.pending
        /\ \A w \in p.workers : thread[w] = "serving" => w \in Busy(p)
    BY <1>1, <1>3, <2>3, <2>6 DEF Reported, Pools
  <2>8. /\ mail' \in [Threads -> [kind : {"none", "ready", "result"}]]
        /\ killed' \in [Calls -> 0 .. MaxRetries + 1]
    BY <1>1, <1>3 DEF TypeOK
  <2>9. /\ \A w \in p.workers : w \in pool.workers
        /\ \A w \in Threads : p.inflight[w] \in {NoCall, pool.inflight[w]}
    BY <2>3
  <2> QED BY <1>2, <1>3, <2>1, <2>2, <2>3, <2>4, <2>5, <2>7, <2>8, <2>9, DrainedStep
<1>5. CASE ~Admitted(pool)
  <2>1. BecomesPool([pool EXCEPT !.outcome[c] = "busy"])
    BY <1>5 DEF Run
  <2>2. pool' = [pool EXCEPT !.outcome[c] = "busy"]
    BY <2>1 DEF BecomesPool
  <2>3. pool'.workers = pool.workers /\ pool'.inflight = pool.inflight
    BY <1>1, <2>2 DEF Pools
  <2>4. UNCHANGED <<thread, opened>>
    BY <1>1, <2>1, <2>3 DEF BecomesPool, TypeOK, Pools
  <2>5. UNCHANGED gone
    BY <1>1, <1>3, <2>3 DEF EventsAfter, TypeOK
  <2>6. "busy" \in Answers
    BY DEF Answers
  <2> QED BY <1>2, <1>3, <2>2, <2>4, <2>5, <2>6, AnswerStep
<1> QED BY <1>4, <1>5

\* destroy
LEMMA DestroyStep == ASSUME QueryPoolAssumption, IInv, Destroy PROVE IInv'
<1> DEFINE p == [pool EXCEPT
       !.destroyed = TRUE, !.workers = {}, !.pending = {}, !.idle = <<>>, !.queue = <<>>,
       !.inflight = [w \in Threads |-> NoCall],
       !.outcome = [c \in Calls |-> IF Open(pool, c) THEN "shutdown" ELSE @[c]]]
<1>1. pool \in Pools /\ Booked(pool) /\ TypeOK /\ ~pool.destroyed
  BY DEF IInv, Booked, Destroy
<1>2. BecomesPool(p) /\ EventsAfter({}) /\ UNCHANGED <<mail, killed>>
  BY DEF Destroy
<1>3. /\ p.destroyed /\ p.workers = {} /\ p.pending = {} /\ p.idle = <<>> /\ p.queue = <<>>
      /\ p.inflight = [w \in Threads |-> NoCall] /\ p.retries = pool.retries
      /\ p.outcome = [c \in Calls |-> IF Open(pool, c) THEN "shutdown" ELSE pool.outcome[c]]
      /\ p \in Pools
  <2>1. <<>> \in Seq(Threads) /\ <<>> \in Seq(Calls)
    OBVIOUS
  <2>2. [c \in Calls |-> IF Open(pool, c) THEN "shutdown" ELSE pool.outcome[c]]
          \in [Calls -> {"none", "open"} \cup Answers]
    BY <1>1 DEF Pools, Answers
  <2> QED BY <1>1, <2>1, <2>2 DEF Pools
<1> HIDE DEF p
<1>4. \A c \in Calls : /\ ~Open(p, c) /\ (p.outcome[c] = "none" => pool.outcome[c] = "none")
                       /\ ~Queued(p, c) /\ ~Handed(p, c)
  <2>1. \A c \in Calls : c # NoCall
    BY DEF Calls, NoCall
  <2> QED BY <1>3, <2>1 DEF Open, Queued, Handed
<1>5. Idle(p) = {} /\ Busy(p) = {} /\ OpenPlaces(p) = {}
  BY <1>3 DEF Idle, Busy, OpenPlaces
<1>6. Booked(p)
  <2>1. Distinct(p.idle) /\ Distinct(p.queue)
    BY <1>3 DEF Distinct
  <2>2. Apart(p) /\ Owed(p)
    BY <1>3, <1>4, <2>1 DEF Apart, Owed
  <2>3. Emptied(p)
    BY <1>3, <1>4, <1>5 DEF Emptied
  <2>4. IsFiniteSet(p.workers) /\ Cardinality(p.workers) <= MaxSize
    BY <1>3, FS_EmptySet DEF QueryPoolAssumption
  <2> QED BY <1>3, <1>5, <2>1, <2>2, <2>3, <2>4 DEF Booked
<1>7. Fed(p) /\ Outstanding(p) <= 2 * MaxSize
  BY <1>5, FS_EmptySet DEF Fed, Outstanding, QueryPoolAssumption
<1>8. Charged(p, killed')
  <2>1. Charged(pool, killed)
    BY DEF IInv
  <2> QED BY <1>2, <1>3, <1>4, <2>1 DEF Charged
<1>9. TypeOK'
  <2>1. /\ mail' \in [Threads -> [kind : {"none", "ready", "result"}]]
        /\ killed' \in [Calls -> 0 .. MaxRetries + 1]
    BY <1>1, <1>2 DEF TypeOK
  <2> QED BY <1>1, <1>2, <1>6, <2>1, Becoming
<1>10. pool' = p
  BY <1>2 DEF BecomesPool
<1>11. Silent'
  <2>1. Reported /\ Stationed(pool)
    BY <1>1 DEF IInv, Booked
  <2>2. \A w \in Threads : thread'[w] \notin {"loading", "serving"}
    <3> SUFFICES ASSUME NEW w \in Threads PROVE thread'[w] \notin {"loading", "serving"}
      OBVIOUS
    <3>1. p.inflight[w] = NoCall /\ p.workers = {}
      BY <1>3
    <3>2. thread[w] \in {"loading", "serving"} => w \in pool.workers
      BY <2>1 DEF Reported, Stationed
    <3>3. thread'[w] = CASE w \in pool.workers \ p.workers -> "dead"
         [] w \in p.workers \ pool.workers -> "loading"
         [] /\ p.inflight[w] \notin {NoCall, pool.inflight[w]}
            /\ thread[w] # "dead" -> "serving"
         [] OTHER -> thread[w]
      BY <1>2 DEF BecomesPool
    <3> QED BY <3>1, <3>2, <3>3
  <2>3. Idle(pool)' = {}
    BY <1>3, <1>10 DEF Idle
  <2> QED BY <2>2, <2>3 DEF Silent
<1> QED BY <1>3, <1>6, <1>7, <1>8, <1>9, <1>10, <1>11, Carried DEF IInv
-----------------------------------------------------------------------------
(* The events of the main thread.                                           *)

\* A worker joins the idle ones once.
LEMMA Joining ==
  ASSUME NEW p \in Pools, NEW w \in Threads \ Idle(p), Distinct(p.idle),
         NEW q, q.idle = Append(p.idle, w)
  PROVE  Idle(q) = Idle(p) \cup {w} /\ Distinct(q.idle) /\ q.idle \in Seq(Threads)
<1>1. p.idle \in Seq(Threads) /\ Len(p.idle) \in Nat
  BY DEF Pools
<1>2. /\ Len(q.idle) = Len(p.idle) + 1 /\ q.idle[Len(p.idle) + 1] = w
      /\ \A i \in 1 .. Len(p.idle) : q.idle[i] = p.idle[i]
      /\ q.idle \in Seq(Threads)
  BY <1>1
<1>3. 1 .. Len(p.idle) + 1 = 1 .. Len(p.idle) \cup {Len(p.idle) + 1}
  BY <1>1
<1>4. \A i \in 1 .. Len(p.idle) : p.idle[i] # w
  BY DEF Idle
<1>5. \A i, j \in 1 .. Len(p.idle) \cup {Len(p.idle) + 1} : q.idle[i] = q.idle[j] => i = j
  BY <1>2, <1>4 DEF Distinct
<1>6. Idle(q) = {q.idle[i] : i \in 1 .. Len(p.idle) \cup {Len(p.idle) + 1}}
  BY <1>2, <1>3 DEF Idle
<1>7. Idle(q) = Idle(p) \cup {w}
  BY <1>2, <1>6 DEF Idle
<1> QED BY <1>2, <1>3, <1>5, <1>7 DEF Distinct

\* The state in which a worker has just joined is booked if it is nowhere else.
LEMMA OnReadyStep ==
  ASSUME QueryPoolAssumption, IInv, NEW w \in Threads, OnReady(w) PROVE IInv'
<1> DEFINE p == Warm(w)
<1>1. pool \in Pools /\ Booked(pool) /\ TypeOK
  BY DEF IInv, Booked
<1>2. mail[w].kind = "ready" /\ mail' = [mail EXCEPT ![w] = Nothing] /\ UNCHANGED killed
      /\ EventsAfter({})
  BY DEF OnReady
<1>3. PICK q \in Drained(p) : BecomesPool(q)
  BY DEF OnReady
<1>4. w \notin Idle(pool) /\ w \notin Busy(pool) /\ (~pool.destroyed => w \in pool.pending)
  BY <1>1, <1>2 DEF IInv, Silent, Reported, Booked, Stationed, Emptied
<1>5. /\ p \in Pools /\ p.idle = Append(pool.idle, w) /\ p.pending = pool.pending \ {w}
      /\ p.queue = pool.queue /\ p.inflight = pool.inflight /\ p.workers = pool.workers
      /\ p.destroyed = pool.destroyed /\ p.outcome = pool.outcome /\ p.retries = pool.retries
  <2>1. Append(pool.idle, w) \in Seq(Threads) /\ pool.pending \ {w} \in SUBSET Threads
    BY <1>1 DEF Pools
  <2>2. (IF w \in opened THEN pool.crashes ELSE pool.crashes + 1) \in Nat
    BY <1>1 DEF Pools
  <2> QED BY <1>1, <2>1, <2>2 DEF Warm, Pools
<1> HIDE DEF p
<1>6. /\ Idle(p) = Idle(pool) \cup {w} /\ Distinct(p.idle)
      /\ Busy(p) = Busy(pool) /\ OpenPlaces(p) = OpenPlaces(pool)
      /\ \A c \in Calls : /\ Queued(p, c) <=> Queued(pool, c)
                          /\ Handed(p, c) <=> Handed(pool, c)
                          /\ Open(p, c) <=> Open(pool, c)
  <2>1. Idle(p) = Idle(pool) \cup {w} /\ Distinct(p.idle)
    BY <1>1, <1>4, <1>5, Joining DEF Booked
  <2> QED BY <1>5, <2>1 DEF Busy, OpenPlaces, Queued, Handed, Open
<1>7. Booked(p)
  <2>1. Apart(p) /\ Owed(p)
    BY <1>1, <1>5, <1>6 DEF Booked, Apart, Owed
  <2>2. p.destroyed => Emptied(p)
    BY <1>1, <1>5, <1>6 DEF Booked, Emptied
  <2>3. ~p.destroyed => Stationed(p)
    BY <1>1, <1>4, <1>5, <1>6 DEF Booked, Stationed
  <2> QED BY <1>1, <1>4, <1>5, <1>6, <2>1, <2>2, <2>3 DEF Booked
<1>8. Outstanding(p) <= 2 * MaxSize
  BY <1>6 DEF IInv, Outstanding
<1>9. Charged(p, killed')
  BY <1>2, <1>5, <1>6 DEF IInv, Charged
<1>10. /\ mail' \in [Threads -> [kind : {"none", "ready", "result"}]]
       /\ \A v \in Threads : mail'[v] = IF v = w THEN Nothing ELSE mail[v]
       /\ killed' \in [Calls -> 0 .. MaxRetries + 1]
  <2>1. Nothing \in [kind : {"none", "ready", "result"}]
    BY DEF Nothing
  <2> QED BY <1>1, <1>2, <2>1 DEF TypeOK
<1>11. Nothing.kind = "none"
  BY DEF Nothing
<1>12. ~p.destroyed =>
         /\ \A v \in Threads : mail'[v].kind = "ready" => v \in p.pending
         /\ \A v \in Threads : mail'[v].kind = "result" => v \in Busy(p)
         /\ \A v \in p.workers : thread[v] = "loading" => v \in p.pending
         /\ \A v \in p.workers : thread[v] = "serving" => v \in Busy(p)
  <2> SUFFICES ASSUME ~p.destroyed, NEW v \in Threads
               PROVE  /\ mail'[v].kind = "ready" => v \in p.pending
                      /\ mail'[v].kind = "result" => v \in Busy(p)
                      /\ thread[v] = "loading" => v \in p.pending
                      /\ thread[v] = "serving" => v \in Busy(p)
    BY <1>5 DEF Pools
  <2>1. Reported
    BY <1>5 DEF IInv
  <2>2. mail[w] # Nothing
    BY <1>2, <1>11
  <2> QED BY <1>5, <1>6, <1>10, <1>11, <2>1, <2>2 DEF Reported
<1>13. p.destroyed => \A v \in Threads : mail'[v].kind # "none" => v \notin Idle(p)
  BY <1>5, <1>6, <1>10, <1>11 DEF IInv, Silent
<1>14. /\ \A v \in p.workers : v \in pool.workers
       /\ \A v \in Threads : p.inflight[v] = pool.inflight[v]
       /\ Clean \cap pool.workers \subseteq p.workers
       /\ \A v \in Threads : mail'[v] \in {mail[v], Nothing}
  BY <1>5, <1>10
<1> QED BY <1>2, <1>3, <1>5, <1>7, <1>8, <1>9, <1>10, <1>12, <1>13, <1>14, DrainedStep

\* A worker that has answered is idle, and its call is owed nothing.
LEMMA OnResultStep ==
  ASSUME QueryPoolAssumption, IInv, NEW w \in Threads, OnResult(w) PROVE IInv'
<1> DEFINE c == pool.inflight[w]
           freed == [pool EXCEPT !.inflight[w] = NoCall, !.idle = Append(@, w)]
           answer == IF w \in opened THEN "result" ELSE "unopened"
           p == IF c = NoCall THEN freed ELSE Settle(freed, c, answer)
<1>1. pool \in Pools /\ Booked(pool) /\ TypeOK
  BY DEF IInv, Booked
<1>2. mail[w].kind = "result" /\ mail' = [mail EXCEPT ![w] = Nothing] /\ UNCHANGED killed
      /\ EventsAfter({})
  BY DEF OnResult
<1>3. PICK q \in Drained(p) : BecomesPool(q)
  BY DEF OnResult
<1>4. w \notin Idle(pool) /\ (~pool.destroyed => w \in Busy(pool)) /\ c \in Calls \cup {NoCall}
  <2>1. ~pool.destroyed => w \in Busy(pool) /\ Stationed(pool)
    BY <1>1, <1>2 DEF IInv, Booked, Reported
  <2>2. c \in Calls \cup {NoCall}
    BY <1>1 DEF Pools
  <2> QED BY <1>2, <2>1, <2>2 DEF Stationed, IInv, Silent
<1>5. /\ freed \in Pools /\ freed.idle = Append(pool.idle, w) /\ freed.pending = pool.pending
      /\ freed.queue = pool.queue /\ freed.inflight = [pool.inflight EXCEPT ![w] = NoCall]
      /\ freed.workers = pool.workers /\ freed.destroyed = pool.destroyed
      /\ freed.outcome = pool.outcome /\ freed.retries = pool.retries
  <2>1. Append(pool.idle, w) \in Seq(Threads)
    <3>1. pool.idle \in Seq(Threads)
      BY <1>1 DEF Pools
    <3> QED BY <3>1
  <2>2. [pool.inflight EXCEPT ![w] = NoCall] \in [Threads -> Calls \cup {NoCall}]
    <3>1. pool.inflight \in [Threads -> Calls \cup {NoCall}]
      BY <1>1 DEF Pools
    <3> QED BY <3>1
  <2> QED BY <1>1, <2>1, <2>2 DEF Pools
<1>6. answer \in Answers
  BY DEF Answers
<1> HIDE DEF freed, answer
<1>7. /\ p \in Pools /\ p.idle = Append(pool.idle, w) /\ p.pending = pool.pending
      /\ p.queue = pool.queue /\ p.inflight = [pool.inflight EXCEPT ![w] = NoCall]
      /\ p.workers = pool.workers /\ p.destroyed = pool.destroyed /\ p.retries = pool.retries
      /\ \A d \in Calls \ {c} : p.outcome[d] = pool.outcome[d]
      /\ c # NoCall =>
           p.outcome[c] # "open" /\ (p.outcome[c] = "none" => pool.outcome[c] = "none")
  <2>1. CASE c = NoCall \/ ~Open(freed, c)
    <3>1. p = freed
      BY <2>1 DEF Settle
    <3> QED BY <1>4, <1>5, <2>1, <3>1 DEF Open
  <2>2. CASE c \in Calls /\ Open(freed, c)
    <3>1. p = [freed EXCEPT !.outcome[c] = answer]
      BY <2>2 DEF Settle, NoCall, Calls
    <3>2. freed.outcome[c] # "none"
      BY <2>2 DEF Open
    <3>3. answer \in Answers \cup {"open"} /\ answer # "open" /\ answer # "none"
      BY <1>6 DEF Answers
    <3> HIDE DEF c, p
    <3>4. /\ p \in Pools /\ p.idle = freed.idle /\ p.inflight = freed.inflight
          /\ p.queue = freed.queue /\ p.workers = freed.workers /\ p.pending = freed.pending
          /\ p.destroyed = freed.destroyed /\ p.retries = freed.retries
          /\ \A d \in Calls \ {c} : p.outcome[d] = freed.outcome[d]
          /\ p.outcome[c] = answer
      BY <1>5, <2>2, <3>1, <3>2, <3>3, Settling
    <3> QED BY <1>5, <3>3, <3>4
  <2> QED BY <1>4, <2>1, <2>2
<1> HIDE DEF p
<1>8. /\ \A v \in Threads : p.inflight[v] = IF v = w THEN NoCall ELSE pool.inflight[v]
      /\ \A v \in Threads : v # w /\ pool.inflight[v] = c => c = NoCall
  <2>1. \A v \in Threads : p.inflight[v] = IF v = w THEN NoCall ELSE pool.inflight[v]
    BY <1>1, <1>7 DEF Pools
  <2> QED BY <1>1, <2>1 DEF Booked, Apart
<1> HIDE DEF c
<1>9. \A d \in Calls : d # NoCall
  BY DEF Calls, NoCall
<1>10. /\ Idle(p) = Idle(pool) \cup {w} /\ Distinct(p.idle) /\ Busy(p) = Busy(pool) \ {w}
       /\ \A d \in Calls : /\ Queued(p, d) <=> Queued(pool, d)
                           /\ Handed(p, d) <=> Handed(pool, d) /\ d # c
                           /\ Open(p, d) => Open(pool, d) /\ d # c
                           /\ p.outcome[d] = "none" => pool.outcome[d] = "none"
  <2>1. Idle(p) = Idle(pool) \cup {w} /\ Distinct(p.idle)
    BY <1>1, <1>4, <1>7, Joining DEF Booked
  <2>2. Busy(p) = Busy(pool) \ {w}
    BY <1>8 DEF Busy
  <2>3. \A d \in Calls : Handed(p, d) <=> Handed(pool, d) /\ d # c
    BY <1>8, <1>9 DEF Handed, c
  <2> QED BY <1>4, <1>7, <1>9, <2>1, <2>2, <2>3 DEF Queued, Open
<1>11. OpenPlaces(p) \subseteq OpenPlaces(pool)
  <2>1. \A i \in 1 .. Len(pool.queue) : pool.queue[i] \in Calls
    BY <1>1 DEF Pools
  <2> QED BY <1>7, <1>10, <2>1 DEF OpenPlaces
<1>12. Booked(p)
  <2>1. Apart(p) /\ Owed(p)
    <3>1. Distinct(p.queue) /\ \A v, u \in Threads :
            p.inflight[v] = p.inflight[u] /\ p.inflight[v] # NoCall => v = u
      BY <1>1, <1>7, <1>8 DEF Booked, Apart
    <3>2. /\ \A d \in Calls : ~(Queued(p, d) /\ Handed(p, d))
          /\ \A d \in Calls : p.outcome[d] = "none" => ~Queued(p, d) /\ ~Handed(p, d)
      BY <1>1, <1>10 DEF Booked, Apart
    <3>3. Owed(p)
      BY <1>1, <1>10 DEF Booked, Owed
    <3> QED BY <3>1, <3>2, <3>3 DEF Apart
  <2>2. p.destroyed => Emptied(p)
    BY <1>1, <1>7, <1>10 DEF Booked, Emptied
  <2>3. ~p.destroyed => Stationed(p)
    BY <1>1, <1>4, <1>7, <1>10 DEF Booked, Stationed
  <2> QED BY <1>1, <1>4, <1>7, <1>10, <2>1, <2>2, <2>3 DEF Booked
<1>13. Outstanding(p) <= 2 * MaxSize
  <2>1. Outstanding(p) <= Outstanding(pool)
    BY <1>1, <1>7, <1>10, <1>11, FewerOutstanding
  <2>2. Outstanding(p) \in Nat /\ Outstanding(pool) \in Nat
    BY <1>1, <1>7, Counts DEF Outstanding
  <2> QED BY <2>1, <2>2 DEF IInv, QueryPoolAssumption
<1>14. Charged(p, killed')
  BY <1>2, <1>7, <1>10 DEF IInv, Charged
<1>15. /\ mail' \in [Threads -> [kind : {"none", "ready", "result"}]]
       /\ \A v \in Threads : mail'[v] = IF v = w THEN Nothing ELSE mail[v]
       /\ killed' \in [Calls -> 0 .. MaxRetries + 1]
  <2>1. Nothing \in [kind : {"none", "ready", "result"}]
    BY DEF Nothing
  <2> QED BY <1>1, <1>2, <2>1 DEF TypeOK
<1>16. Nothing.kind = "none"
  BY DEF Nothing
<1>17. ~p.destroyed =>
         /\ \A v \in Threads : mail'[v].kind = "ready" => v \in p.pending
         /\ \A v \in Threads : mail'[v].kind = "result" => v \in Busy(p)
         /\ \A v \in p.workers : thread[v] = "loading" => v \in p.pending
         /\ \A v \in p.workers : thread[v] = "serving" => v \in Busy(p)
  <2> SUFFICES ASSUME ~p.destroyed, NEW v \in Threads
               PROVE  /\ mail'[v].kind = "ready" => v \in p.pending
                      /\ mail'[v].kind = "result" => v \in Busy(p)
                      /\ thread[v] = "loading" => v \in p.pending
                      /\ thread[v] = "serving" => v \in Busy(p)
    BY <1>7 DEF Pools
  <2>1. Reported
    BY <1>7 DEF IInv
  <2>2. mail[w] # Nothing
    BY <1>2, <1>16
  <2> QED BY <1>7, <1>10, <1>15, <1>16, <2>1, <2>2 DEF Reported
<1>18. p.destroyed => \A v \in Threads : mail'[v].kind # "none" => v \notin Idle(p)
  BY <1>7, <1>10, <1>15, <1>16 DEF IInv, Silent
<1>19. /\ \A v \in p.workers : v \in pool.workers
       /\ \A v \in Threads : p.inflight[v] \in {NoCall, pool.inflight[v]}
       /\ Clean \cap pool.workers \subseteq p.workers
       /\ \A v \in Threads : mail'[v] \in {mail[v], Nothing}
  BY <1>7, <1>8, <1>15
<1> QED BY <1>2, <1>3, <1>7, <1>12, <1>13, <1>14, <1>15, <1>17, <1>18, <1>19, DrainedStep

\* Two sequences, one after the other.
LEMMA Concatenated ==
  ASSUME NEW S, NEW a \in Seq(S), NEW b \in Seq(S)
  PROVE  /\ a \o b \in Seq(S) /\ Len(a \o b) = Len(a) + Len(b)
         /\ \A i \in 1 .. Len(a) : (a \o b)[i] = a[i]
         /\ \A i \in 1 .. Len(b) : (a \o b)[Len(a) + i] = b[i]
OBVIOUS

\* A worker that is gone is idle no more.
Members(s) == {s[i] : i \in 1 .. Len(s)}
LEMMA Leaving ==
  ASSUME NEW idle \in Seq(Threads), Distinct(idle), NEW w \in Threads,
         NEW left, left = Without(idle, w)
  PROVE  /\ left \in Seq(Threads) /\ Distinct(left)
         /\ Members(left) = Members(idle) \ {w}
<1>1. CASE \A i \in 1 .. Len(idle) : idle[i] # w
  <2>1. left = idle
    BY <1>1 DEF Without
  <2> QED BY <1>1, <2>1 DEF Members
<1>2. CASE \E i \in 1 .. Len(idle) : idle[i] = w
  <2> DEFINE at == CHOOSE i \in 1 .. Len(idle) : idle[i] = w
  <2>1. at \in 1 .. Len(idle) /\ idle[at] = w
    BY <1>2
  <2>2. left = SubSeq(idle, 1, at - 1) \o SubSeq(idle, at + 1, Len(idle))
    BY <1>2 DEF Without
  <2> HIDE DEF at
  <2>3. Len(idle) \in Nat
    OBVIOUS
  <2>4. /\ SubSeq(idle, 1, at - 1) \in Seq(Threads) /\ Len(SubSeq(idle, 1, at - 1)) = at - 1
        /\ \A i \in 1 .. at - 1 : SubSeq(idle, 1, at - 1)[i] = idle[i]
    BY <2>1, <2>3
  <2>5. /\ SubSeq(idle, at + 1, Len(idle)) \in Seq(Threads)
        /\ Len(SubSeq(idle, at + 1, Len(idle))) = Len(idle) - at
        /\ \A i \in 1 .. Len(idle) - at : SubSeq(idle, at + 1, Len(idle))[i] = idle[at + i]
    BY <2>1, <2>3
  <2>12. /\ left \in Seq(Threads) /\ Len(left) = (at - 1) + (Len(idle) - at)
         /\ \A i \in 1 .. at - 1 : left[i] = idle[i]
         /\ \A i \in 1 .. Len(idle) - at : left[at - 1 + i] = idle[at + i]
    <3> DEFINE A == SubSeq(idle, 1, at - 1)
               B == SubSeq(idle, at + 1, Len(idle))
    <3>1. /\ A \in Seq(Threads) /\ Len(A) = at - 1 /\ \A i \in 1 .. at - 1 : A[i] = idle[i]
          /\ B \in Seq(Threads) /\ Len(B) = Len(idle) - at
          /\ \A i \in 1 .. Len(idle) - at : B[i] = idle[at + i]
          /\ left = A \o B
      BY <2>2, <2>4, <2>5
    <3> HIDE DEF A, B
    <3>2. /\ A \o B \in Seq(Threads) /\ Len(A \o B) = Len(A) + Len(B)
          /\ \A i \in 1 .. Len(A) : (A \o B)[i] = A[i]
          /\ \A i \in 1 .. Len(B) : (A \o B)[Len(A) + i] = B[i]
      <4>1. A \in Seq(Threads) /\ B \in Seq(Threads)
        BY <3>1
      <4> QED BY ONLY <4>1, Concatenated
    <3> QED BY <3>1, <3>2
  <2>6. left \in Seq(Threads) /\ Len(left) = Len(idle) - 1
    BY <2>1, <2>3, <2>12
  <2>7. \A i \in 1 .. Len(idle) - 1 : left[i] = IF i < at THEN idle[i] ELSE idle[i + 1]
    <3> SUFFICES ASSUME NEW i \in 1 .. Len(idle) - 1
                 PROVE  left[i] = IF i < at THEN idle[i] ELSE idle[i + 1]
      OBVIOUS
    <3>1. CASE i < at
      BY <2>1, <2>3, <2>12, <3>1
    <3>2. CASE ~(i < at)
      <4>1. i - (at - 1) \in 1 .. Len(idle) - at /\ at + (i - (at - 1)) = i + 1
        BY <2>1, <2>3, <3>2
      <4>2. at - 1 + (i - (at - 1)) = i
        BY <2>1, <2>3
      <4> QED BY <2>12, <3>2, <4>1, <4>2
    <3> QED BY <3>1, <3>2
  <2>8. Distinct(left)
    <3> SUFFICES ASSUME NEW i \in 1 .. Len(idle) - 1, NEW j \in 1 .. Len(idle) - 1,
                        left[i] = left[j]
                 PROVE  i = j
      BY <2>6 DEF Distinct
    <3> DEFINE old(k) == IF k < at THEN k ELSE k + 1
    <3>1. old(i) \in 1 .. Len(idle) /\ old(j) \in 1 .. Len(idle)
      BY <2>1, <2>3
    <3>2. idle[old(i)] = idle[old(j)]
      BY <2>7
    <3>3. old(i) = old(j)
      BY <3>1, <3>2 DEF Distinct
    <3> QED BY <2>1, <2>3, <3>3
  <2>9. \A i \in 1 .. Len(idle) : i # at => \E j \in 1 .. Len(left) : left[j] = idle[i]
    <3> SUFFICES ASSUME NEW i \in 1 .. Len(idle), i # at
                 PROVE  \E j \in 1 .. Len(left) : left[j] = idle[i]
      OBVIOUS
    <3> DEFINE j == IF i < at THEN i ELSE i - 1
    <3>1. j \in 1 .. Len(left) /\ left[j] = idle[i]
      BY <2>1, <2>3, <2>6, <2>7
    <3> QED BY <3>1
  <2>10. \A j \in 1 .. Len(left) : \E i \in 1 .. Len(idle) : i # at /\ left[j] = idle[i]
    <3> SUFFICES ASSUME NEW j \in 1 .. Len(left)
                 PROVE  \E i \in 1 .. Len(idle) : i # at /\ left[j] = idle[i]
      OBVIOUS
    <3> DEFINE i == IF j < at THEN j ELSE j + 1
    <3>1. i \in 1 .. Len(idle) /\ i # at /\ left[j] = idle[i]
      BY <2>1, <2>3, <2>6, <2>7
    <3> QED BY <3>1
  <2>11. \A i \in 1 .. Len(idle) : idle[i] = w <=> i = at
    BY <2>1 DEF Distinct
  <2>13. \A x : (\E j \in 1 .. Len(left) : x = left[j]) <=>
                (\E i \in 1 .. Len(idle) : x = idle[i]) /\ x # w
    <3> SUFFICES ASSUME NEW x
                 PROVE  (\E j \in 1 .. Len(left) : x = left[j]) <=>
                          (\E i \in 1 .. Len(idle) : x = idle[i]) /\ x # w
      OBVIOUS
    <3>1. ASSUME NEW j \in 1 .. Len(left), x = left[j]
          PROVE  (\E i \in 1 .. Len(idle) : x = idle[i]) /\ x # w
      BY <2>10, <2>11, <3>1
    <3>2. ASSUME NEW i \in 1 .. Len(idle), x = idle[i], x # w
          PROVE  \E j \in 1 .. Len(left) : x = left[j]
      BY <2>1, <2>9, <3>2
    <3> QED BY <3>1, <3>2
  <2>14. Members(left) = Members(idle) \ {w}
    BY <2>13 DEF Members
  <2> QED BY <2>6, <2>8, <2>14
<1> QED BY <1>1, <1>2

\* What is left of the pool without a worker, and with one started in its place.
LEMMA Removing ==
  ASSUME QueryPoolAssumption, Booked(pool), ~pool.destroyed, NEW w \in pool.workers,
         NEW q \in SpawnOne(Removed(w))
  PROVE  /\ q \in Pools /\ IsFiniteSet(q.workers) /\ Cardinality(q.workers) <= MaxSize
         /\ \E W \in SUBSET (Clean \ (pool.workers \ {w})) :
              /\ q.workers = (pool.workers \ {w}) \cup W
              /\ q.pending = (pool.pending \ {w}) \cup W
         /\ Distinct(q.idle) /\ Idle(q) = Idle(pool) \ {w} /\ Busy(q) = Busy(pool) \ {w}
         /\ q.destroyed = pool.destroyed /\ q.queue = pool.queue
         /\ q.outcome = pool.outcome /\ q.retries = pool.retries
         /\ \A v \in Threads : q.inflight[v] = IF v = w THEN NoCall ELSE pool.inflight[v]
         /\ Stationed(q) /\ Apart(q)
         /\ \A d \in Calls : /\ Queued(q, d) <=> Queued(pool, d)
                             /\ Handed(q, d) <=> Handed(pool, d) /\ d # pool.inflight[w]
<1> DEFINE r == Removed(w)
<1>1. pool \in Pools /\ w \in Threads
  BY DEF Booked, Pools
<1> DEFINE left == Without(pool.idle, w)
<1>2. /\ left \in Seq(Threads) /\ Distinct(left)
      /\ Members(left) = Members(pool.idle) \ {w}
  <2>1. pool.idle \in Seq(Threads) /\ Distinct(pool.idle)
    BY <1>1 DEF Booked, Pools
  <2>2. left = Without(pool.idle, w)
    OBVIOUS
  <2> HIDE DEF left
  <2> QED BY <1>1, <2>1, <2>2, Leaving
<1>15. left \in Seq(Threads)
  BY <1>2
<1>3. [pool.inflight EXCEPT ![w] = NoCall] \in [Threads -> Calls \cup {NoCall}]
  <2>1. pool.inflight \in [Threads -> Calls \cup {NoCall}]
    BY <1>1 DEF Pools
  <2> QED BY <2>1
<1>4. /\ r \in Pools /\ r.workers = pool.workers \ {w} /\ r.pending = pool.pending \ {w}
      /\ r.inflight = [pool.inflight EXCEPT ![w] = NoCall] /\ r.idle = left
      /\ r.queue = pool.queue /\ r.destroyed = pool.destroyed
      /\ r.outcome = pool.outcome /\ r.retries = pool.retries
  <2>1. pool.workers \ {w} \in SUBSET Threads /\ pool.pending \ {w} \in SUBSET Threads
        /\ pool.crashes + 1 \in Nat
    BY <1>1 DEF Pools
  <2>2. /\ r.workers = pool.workers \ {w} /\ r.pending = pool.pending \ {w}
        /\ r.inflight = [pool.inflight EXCEPT ![w] = NoCall] /\ r.idle = left
        /\ r.queue = pool.queue /\ r.destroyed = pool.destroyed
        /\ r.outcome = pool.outcome /\ r.retries = pool.retries
    BY <1>1 DEF Pools, Removed
  <2>3. r \in Pools
    BY <1>1, <1>3, <1>15, <2>1 DEF Pools, Removed
  <2> QED BY <2>2, <2>3
<1> HIDE DEF r, left
<1>5. IsFiniteSet(r.workers) /\ Cardinality(r.workers) <= MaxSize
  <2>1. IsFiniteSet(pool.workers) /\ Cardinality(pool.workers) <= MaxSize
    BY DEF Booked
  <2>2. /\ IsFiniteSet(r.workers) /\ Cardinality(r.workers) <= Cardinality(pool.workers)
        /\ Cardinality(r.workers) \in Nat /\ Cardinality(pool.workers) \in Nat
    BY <1>4, <2>1, FS_Subset, FS_CardinalityType
  <2> QED BY <2>1, <2>2 DEF QueryPoolAssumption
<1>6. PICK W : StartedWith(r, q, W)
  BY <1>4, <1>5, Spawning DEF r
<1>7. /\ q \in Pools /\ W \in SUBSET (Clean \ r.workers)
      /\ q.workers = r.workers \cup W /\ q.pending = r.pending \cup W
      /\ q.idle = r.idle /\ q.queue = r.queue /\ q.inflight = r.inflight
      /\ q.destroyed = r.destroyed /\ q.outcome = r.outcome /\ q.retries = r.retries
      /\ IsFiniteSet(q.workers) /\ Cardinality(q.workers) <= MaxSize
  BY <1>6 DEF StartedWith
<1>8. Idle(q) = Idle(pool) \ {w} /\ Distinct(q.idle)
  <2>1. q.idle = left
    BY <1>4, <1>7
  <2>2. Idle(q) = Members(q.idle) /\ Idle(pool) = Members(pool.idle)
    BY DEF Idle, Members
  <2> QED BY <1>2, <2>1, <2>2
<1>9. \A v \in Threads : q.inflight[v] = IF v = w THEN NoCall ELSE pool.inflight[v]
  <2>1. pool.inflight \in [Threads -> Calls \cup {NoCall}]
    BY <1>1 DEF Pools
  <2> QED BY <1>4, <1>7, <2>1
<1>10. Busy(q) = Busy(pool) \ {w}
  BY <1>9 DEF Busy
<1>11. \A d \in Calls : d # NoCall
  BY DEF Calls, NoCall
<1>12. \A d \in Calls : /\ Queued(q, d) <=> Queued(pool, d)
                        /\ Handed(q, d) <=> Handed(pool, d) /\ d # pool.inflight[w]
  <2>1. \A v \in Threads :
          pool.inflight[v] = pool.inflight[w] /\ pool.inflight[w] # NoCall => v = w
    BY <1>1 DEF Booked, Apart
  <2> QED BY <1>1, <1>4, <1>7, <1>9, <1>11, <2>1 DEF Queued, Handed
<1>13. Apart(q)
  <2>1. Distinct(q.queue) /\ \A v, u \in Threads :
          q.inflight[v] = q.inflight[u] /\ q.inflight[v] # NoCall => v = u
    BY <1>4, <1>7, <1>9 DEF Booked, Apart
  <2>2. /\ \A d \in Calls : ~(Queued(q, d) /\ Handed(q, d))
        /\ \A d \in Calls : q.outcome[d] = "none" => ~Queued(q, d) /\ ~Handed(q, d)
    BY <1>4, <1>7, <1>12 DEF Booked, Apart
  <2> QED BY <2>1, <2>2 DEF Apart
<1>14. Stationed(q)
  <2>1. Stationed(pool)
    BY DEF Booked
  <2>2. W \cap r.workers = {}
    BY <1>7
  <2> QED BY <1>4, <1>7, <1>8, <1>10, <2>1, <2>2 DEF Stationed
<1> QED BY <1>4, <1>7, <1>8, <1>9, <1>10, <1>12, <1>13, <1>14

\* The call of a worker that is gone is first in the queue, or is owed nothing.
LEMMA Retrying ==
  ASSUME QueryPoolAssumption, NEW p \in Pools, Apart(p), ~p.destroyed, NEW c \in Calls,
         ~Queued(p, c), ~Handed(p, c), p.outcome[c] # "none",
         \A d \in Calls \ {c} : Open(p, d) => Queued(p, d) \/ Handed(p, d),
         NEW q, q = Retried(p, c)
  PROVE  /\ q \in Pools /\ q.idle = p.idle /\ q.inflight = p.inflight
         /\ q.workers = p.workers /\ q.pending = p.pending /\ q.destroyed = p.destroyed
         /\ Apart(q) /\ Owed(q)
         /\ Cardinality(OpenPlaces(q)) <= Cardinality(OpenPlaces(p)) + 1
         /\ \A d \in Calls \ {c} : /\ Queued(q, d) <=> Queued(p, d)
                                   /\ q.outcome[d] = p.outcome[d] /\ q.retries[d] = p.retries[d]
         /\ q.outcome[c] # "none" /\ ~Handed(q, c)
         /\ \/ q.retries[c] = p.retries[c] + 1
            \/ q.retries[c] = p.retries[c] /\ ~Queued(q, c)
<1>1. /\ p.queue \in Seq(Calls) /\ Len(p.queue) \in Nat
      /\ p.retries \in [Calls -> 0 .. MaxRetries]
  BY DEF Pools
<1>2. /\ IsFiniteSet(OpenPlaces(p)) /\ Cardinality(OpenPlaces(p)) \in Nat
  BY Counts
<1>3. CASE p.retries[c] < MaxRetries /\ Healthy(p)
  <2> DEFINE longer == <<c>> \o p.queue
             again == [p.retries EXCEPT ![c] = @ + 1]
  <2>1. /\ longer \in Seq(Calls) /\ Len(longer) = 1 + Len(p.queue) /\ longer[1] = c
        /\ \A i \in 1 .. Len(p.queue) : longer[1 + i] = p.queue[i]
    <3>1. <<c>> \in Seq(Calls) /\ Len(<<c>>) = 1 /\ <<c>>[1] = c
      OBVIOUS
    <3> DEFINE one == <<c>>
    <3> HIDE DEF one
    <3>2. /\ one \o p.queue \in Seq(Calls) /\ Len(one \o p.queue) = Len(one) + Len(p.queue)
          /\ \A i \in 1 .. Len(one) : (one \o p.queue)[i] = one[i]
          /\ \A i \in 1 .. Len(p.queue) : (one \o p.queue)[Len(one) + i] = p.queue[i]
      <4>1. one \in Seq(Calls) /\ p.queue \in Seq(Calls)
        BY <1>1, <3>1 DEF one
      <4> QED BY ONLY <4>1, Concatenated
    <3>3. Len(one) = 1 /\ one[1] = c
      BY <3>1 DEF one
    <3>4. longer = one \o p.queue
      BY DEF one
    <3> HIDE DEF longer
    <3> QED BY <3>2, <3>3, <3>4
  <2>2. again \in [Calls -> 0 .. MaxRetries] /\ again[c] = p.retries[c] + 1
        /\ \A d \in Calls \ {c} : again[d] = p.retries[d]
    BY <1>1, <1>3 DEF QueryPoolAssumption
  <2>3. q = [p EXCEPT !.retries[c] = @ + 1, !.queue = <<c>> \o @]
    BY <1>3 DEF Retried
  <2>4. /\ q \in Pools /\ q.idle = p.idle /\ q.inflight = p.inflight /\ q.workers = p.workers
        /\ q.pending = p.pending /\ q.destroyed = p.destroyed /\ q.outcome = p.outcome
        /\ q.queue = longer /\ q.retries = again
    BY <2>1, <2>2, <2>3 DEF Pools
  <2> HIDE DEF longer, again
  <2>5. 1 .. Len(longer) = {1} \cup {1 + i : i \in 1 .. Len(p.queue)}
    <3> SUFFICES ASSUME NEW k
                 PROVE  k \in 1 .. Len(longer)
                        <=> k = 1 \/ \E i \in 1 .. Len(p.queue) : k = 1 + i
      OBVIOUS
    <3>1. ASSUME k \in 1 .. Len(longer), k # 1
          PROVE  k - 1 \in 1 .. Len(p.queue) /\ k = 1 + (k - 1)
      BY <1>1, <2>1, <3>1
    <3>2. ASSUME NEW i \in 1 .. Len(p.queue) PROVE 1 + i \in 1 .. Len(longer)
      BY <1>1, <2>1
    <3>3. 1 \in 1 .. Len(longer)
      BY <1>1, <2>1
    <3> QED BY <3>1, <3>2, <3>3
  <2>6. \A d \in Calls : Queued(q, d) <=> Queued(p, d) \/ d = c
    <3>1. \A d \in Calls : Queued(q, d) <=>
            longer[1] = d \/ \E i \in 1 .. Len(p.queue) : longer[1 + i] = d
      BY <2>4, <2>5 DEF Queued
    <3>2. \A d \in Calls : Queued(p, d) <=> \E i \in 1 .. Len(p.queue) : longer[1 + i] = d
      BY <2>1 DEF Queued
    <3> QED BY <2>1, <3>1, <3>2
  <2>7. \A d \in Calls : Handed(q, d) <=> Handed(p, d)
    BY <2>4 DEF Handed
  <2>8. Distinct(q.queue)
    <3>1. \A i \in 1 .. Len(p.queue) : longer[1 + i] # c
      BY <2>1 DEF Queued
    <3>2. \A i, j \in 1 .. Len(p.queue) : longer[1 + i] = longer[1 + j] => i = j
      BY <2>1 DEF Apart, Distinct
    <3>3. \A h, k \in 1 .. Len(longer) : longer[h] = longer[k] => h = k
      <4> SUFFICES ASSUME NEW h \in 1 .. Len(longer), NEW k \in 1 .. Len(longer),
                          longer[h] = longer[k]
                   PROVE  h = k
        OBVIOUS
      <4>1. h # 1 => h - 1 \in 1 .. Len(p.queue) /\ h = 1 + (h - 1)
        BY <1>1, <2>1
      <4>2. k # 1 => k - 1 \in 1 .. Len(p.queue) /\ k = 1 + (k - 1)
        BY <1>1, <2>1
      <4> QED BY <2>1, <3>1, <3>2, <4>1, <4>2
    <3> QED BY <2>4, <3>3 DEF Distinct
  <2>9. Apart(q)
    <3>1. /\ \A d \in Calls : ~(Queued(q, d) /\ Handed(q, d))
          /\ \A d \in Calls : q.outcome[d] = "none" => ~Queued(q, d) /\ ~Handed(q, d)
      BY <2>4, <2>6, <2>7 DEF Apart
    <3> QED BY <2>4, <2>8, <3>1 DEF Apart
  <2>10. Owed(q)
    BY <2>4, <2>6, <2>7 DEF Owed, Open
  <2>11. Cardinality(OpenPlaces(q)) <= Cardinality(OpenPlaces(p)) + 1
    <3> DEFINE moved == {1 + i : i \in OpenPlaces(p)}
               f == [i \in OpenPlaces(p) |-> 1 + i]
    <3>1. \A i \in OpenPlaces(p) : i \in Nat
      BY <1>1 DEF OpenPlaces
    <3>2. f \in Surjection(OpenPlaces(p), moved)
      BY DEF Surjection
    <3>3. IsFiniteSet(moved) /\ Cardinality(moved) <= Cardinality(OpenPlaces(p))
      BY <1>2, <3>2, FS_Surjection
    <3>4. OpenPlaces(q) \subseteq moved \cup {1}
      <4> SUFFICES ASSUME NEW k \in OpenPlaces(q), k # 1 PROVE k \in moved
        OBVIOUS
      <4>1. k \in 1 .. Len(longer) /\ Open(p, longer[k])
        BY <2>4 DEF OpenPlaces, Open
      <4>2. PICK i \in 1 .. Len(p.queue) : k = 1 + i
        BY <2>5, <4>1
      <4>3. i \in OpenPlaces(p)
        BY <2>1, <4>1, <4>2 DEF OpenPlaces
      <4> QED BY <4>2, <4>3
    <3> HIDE DEF moved
    <3>5. IsFiniteSet(moved \cup {1}) /\ Cardinality(moved \cup {1}) <= Cardinality(moved) + 1
      <4>1. Cardinality(moved) \in Nat
        BY <3>3, FS_CardinalityType
      <4>2. /\ IsFiniteSet(moved \cup {1})
            /\ Cardinality(moved \cup {1}) =
                 IF 1 \in moved THEN Cardinality(moved) ELSE Cardinality(moved) + 1
        BY <3>3, FS_AddElement
      <4> QED BY <4>1, <4>2
    <3>6. /\ Cardinality(OpenPlaces(q)) <= Cardinality(moved \cup {1})
          /\ Cardinality(OpenPlaces(q)) \in Nat /\ Cardinality(moved \cup {1}) \in Nat
          /\ Cardinality(moved) \in Nat
      BY <2>4, <3>3, <3>4, <3>5, FS_Subset, FS_CardinalityType
    <3> QED BY <1>2, <3>3, <3>5, <3>6
  <2> QED BY <2>2, <2>4, <2>6, <2>7, <2>9, <2>10, <2>11
<1>4. CASE ~(p.retries[c] < MaxRetries /\ Healthy(p))
  <2>1. q = Settle(p, c, "crashed")
    BY <1>4 DEF Retried
  <2>2. /\ q \in Pools /\ q.idle = p.idle /\ q.inflight = p.inflight /\ q.queue = p.queue
        /\ q.workers = p.workers /\ q.pending = p.pending /\ q.destroyed = p.destroyed
        /\ q.retries = p.retries
        /\ \A d \in Calls \ {c} : q.outcome[d] = p.outcome[d]
        /\ q.outcome[c] # "none" /\ q.outcome[c] # "open"
    <3>1. CASE ~Open(p, c)
      BY <2>1, <3>1 DEF Settle, Open
    <3>2. CASE Open(p, c)
      <4>1. q = [p EXCEPT !.outcome[c] = "crashed"] /\ "crashed" \in Answers \cup {"open"}
        BY <2>1, <3>2 DEF Settle, Answers
      <4>2. /\ q \in Pools /\ q.idle = p.idle /\ q.inflight = p.inflight /\ q.queue = p.queue
            /\ q.workers = p.workers /\ q.pending = p.pending /\ q.destroyed = p.destroyed
            /\ q.retries = p.retries
            /\ \A d \in Calls \ {c} : q.outcome[d] = p.outcome[d]
            /\ q.outcome[c] = "crashed"
        BY <4>1, Settling
      <4> QED BY <4>2
    <3> QED BY <3>1, <3>2
  <2>3. \A d \in Calls : (Queued(q, d) <=> Queued(p, d)) /\ (Handed(q, d) <=> Handed(p, d))
    BY <2>2 DEF Queued, Handed
  <2>4. Apart(q) /\ Owed(q)
    BY <2>2, <2>3 DEF Apart, Owed, Open
  <2>5. OpenPlaces(q) \subseteq OpenPlaces(p)
    <3>1. \A i \in 1 .. Len(p.queue) : p.queue[i] \in Calls
      BY <1>1
    <3> QED BY <2>2, <3>1 DEF OpenPlaces, Open
  <2>6. Cardinality(OpenPlaces(q)) <= Cardinality(OpenPlaces(p)) + 1
    <3>1. Cardinality(OpenPlaces(q)) <= Cardinality(OpenPlaces(p))
          /\ Cardinality(OpenPlaces(q)) \in Nat
      BY <1>2, <2>5, FS_Subset, FS_CardinalityType
    <3> QED BY <1>2, <3>1
  <2> QED BY <2>2, <2>3, <2>4, <2>6
<1> QED BY <1>3, <1>4

\* The step in which the pool of threads and the pool's fields stay as they are.
LEMMA UnchangedPool ==
  ASSUME QueryPoolAssumption, IInv, UNCHANGED <<pool, thread, opened, mail, killed>>,
         gone' \in [Threads -> 0 .. 2]
  PROVE  IInv'
<1>1. Booked(pool)' /\ Fed(pool)' /\ (Outstanding(pool) <= 2 * MaxSize)'
      /\ Charged(pool, killed)'
  BY Carried DEF IInv
<1>2. TypeOK'
  BY DEF IInv, TypeOK
<1>3. (Silent' <=> Silent) /\ (Reported' <=> Reported)
  BY DEF Silent, Reported, Idle, Busy
<1> QED BY <1>1, <1>2, <1>3 DEF IInv

\* A worker that dies gives its call to whoever comes next, or is the last it has killed.
LEMMA OnWorkerGoneStep ==
  ASSUME QueryPoolAssumption, IInv, NEW w \in Threads, OnWorkerGone(w) PROVE IInv'
<1> DEFINE c == pool.inflight[w]
<1>1. pool \in Pools /\ Booked(pool) /\ TypeOK /\ Charged(pool, killed)
  BY DEF IInv, Booked
<1>2. gone[w] > 0 /\ mail[w] = Nothing /\ EventsAfter({w}) /\ UNCHANGED mail
  BY DEF OnWorkerGone
<1>3. CASE w \notin pool.workers
  <2>1. UNCHANGED <<pool, thread, opened, killed>>
    BY <1>3 DEF OnWorkerGone
  <2>2. gone' \in [Threads -> 0 .. 2]
    BY <1>1, <1>2 DEF EventsAfter, TypeOK
  <2> QED BY <1>2, <2>1, <2>2, UnchangedPool
<1>4. CASE w \in pool.workers
  <2>1. PICK g \in SpawnOne(Removed(w)) :
          \E q \in Drained(IF c = NoCall THEN g ELSE Retried(g, c)) : BecomesPool(q)
    BY <1>4 DEF OnWorkerGone
  <2> DEFINE p == IF c = NoCall THEN g ELSE Retried(g, c)
  <2>2. PICK q \in Drained(p) : BecomesPool(q)
    BY <2>1
  <2>3. killed' = IF c = NoCall THEN killed ELSE [killed EXCEPT ![c] = @ + 1]
    BY <1>4 DEF OnWorkerGone
  <2>4. ~pool.destroyed
    BY <1>1, <1>4 DEF Booked, Emptied
  <2>5. Reported /\ Stationed(pool)
    BY <1>1, <2>4 DEF IInv, Booked
  <2>6. c \in Calls \cup {NoCall}
    BY <1>1 DEF Pools
  <2>7. /\ g \in Pools /\ IsFiniteSet(g.workers) /\ Cardinality(g.workers) <= MaxSize
        /\ Distinct(g.idle) /\ Idle(g) = Idle(pool) \ {w} /\ Busy(g) = Busy(pool) \ {w}
        /\ g.destroyed = pool.destroyed /\ g.queue = pool.queue
        /\ g.outcome = pool.outcome /\ g.retries = pool.retries
        /\ \A v \in Threads : g.inflight[v] = IF v = w THEN NoCall ELSE pool.inflight[v]
        /\ Stationed(g) /\ Apart(g)
        /\ \A d \in Calls : /\ Queued(g, d) <=> Queued(pool, d)
                            /\ Handed(g, d) <=> Handed(pool, d) /\ d # c
    BY <1>1, <1>4, <2>4, Removing
  <2>8. PICK W \in SUBSET (Clean \ (pool.workers \ {w})) :
          g.workers = (pool.workers \ {w}) \cup W /\ g.pending = (pool.pending \ {w}) \cup W
    BY <1>1, <1>4, <2>4, Removing
  <2>9. w \notin Clean
    BY <1>1, <1>2 DEF Clean, TypeOK
  <2>10. \A d \in Calls \ {c} : Open(g, d) => Queued(g, d) \/ Handed(g, d)
    BY <1>1, <2>7 DEF Booked, Owed, Open
  <2>11. c # NoCall => /\ c \in Calls /\ Handed(pool, c) /\ w \in Busy(pool)
                       /\ ~Queued(g, c) /\ ~Handed(g, c) /\ g.outcome[c] # "none"
    <3>1. c # NoCall => c \in Calls /\ Handed(pool, c) /\ w \in Busy(pool)
      BY <2>6 DEF Handed, Busy
    <3> QED BY <1>1, <2>7, <3>1 DEF Booked, Apart
  <2>12. OpenPlaces(g) = OpenPlaces(pool)
    BY <2>7 DEF OpenPlaces, Open
  <2> HIDE DEF c
  <2>13. /\ p \in Pools /\ p.idle = g.idle /\ p.inflight = g.inflight
         /\ p.workers = g.workers /\ p.pending = g.pending /\ p.destroyed = g.destroyed
         /\ Apart(p) /\ Owed(p)
         /\ c = NoCall => OpenPlaces(p) = OpenPlaces(g)
         /\ c # NoCall => Cardinality(OpenPlaces(p)) <= Cardinality(OpenPlaces(g)) + 1
         /\ \A d \in Calls \ {c} : /\ Queued(p, d) <=> Queued(g, d)
                                   /\ p.outcome[d] = g.outcome[d] /\ p.retries[d] = g.retries[d]
         /\ c # NoCall => p.outcome[c] # "none" /\ ~Handed(p, c)
         /\ c # NoCall => \/ p.retries[c] = g.retries[c] + 1
                          \/ p.retries[c] = g.retries[c] /\ ~Queued(p, c)
    <3>1. CASE c = NoCall
      <4>1. \A d \in Calls : d # c
        BY <3>1 DEF Calls, NoCall
      <4>2. Owed(g)
        BY <2>10, <4>1 DEF Owed
      <4> QED BY <2>7, <3>1, <4>2
    <3>2. CASE c # NoCall
      <4>1. p = Retried(g, c)
        BY <3>2
      <4> HIDE DEF p
      <4>2. /\ c \in Calls /\ ~g.destroyed /\ ~Queued(g, c) /\ ~Handed(g, c)
            /\ g.outcome[c] # "none" /\ g \in Pools /\ Apart(g)
        BY <2>4, <2>7, <2>11, <3>2
      <4>3. /\ p \in Pools /\ p.idle = g.idle /\ p.inflight = g.inflight
            /\ p.workers = g.workers /\ p.pending = g.pending /\ p.destroyed = g.destroyed
            /\ Apart(p) /\ Owed(p)
            /\ Cardinality(OpenPlaces(p)) <= Cardinality(OpenPlaces(g)) + 1
            /\ \A d \in Calls \ {c} :
                 /\ Queued(p, d) <=> Queued(g, d)
                 /\ p.outcome[d] = g.outcome[d] /\ p.retries[d] = g.retries[d]
            /\ p.outcome[c] # "none" /\ ~Handed(p, c)
            /\ \/ p.retries[c] = g.retries[c] + 1
               \/ p.retries[c] = g.retries[c] /\ ~Queued(p, c)
        BY <2>10, <4>1, <4>2, Retrying
      <4> QED BY <3>2, <4>3
    <3> QED BY <3>1, <3>2
  <2> HIDE DEF p
  <2>14. Idle(p) = Idle(g) /\ Busy(p) = Busy(g)
    BY <2>13 DEF Idle, Busy
  <2>15. Booked(p)
    <3>1. Stationed(p)
      BY <2>7, <2>13, <2>14 DEF Stationed
    <3>2. Idle(p) \cap Busy(p) = {} /\ Distinct(p.idle)
      BY <3>1 DEF Stationed
    <3> QED BY <2>4, <2>7, <2>13, <3>1, <3>2 DEF Booked
  <2>16. Outstanding(p) <= 2 * MaxSize
    <3>1. /\ IsFiniteSet(Busy(pool)) /\ Cardinality(Busy(pool)) \in Nat
          /\ Cardinality(OpenPlaces(pool)) \in Nat
          /\ Cardinality(Busy(p)) \in Nat /\ Cardinality(OpenPlaces(p)) \in Nat
      BY <1>1, <2>13, Counts
    <3>2. Outstanding(pool) <= 2 * MaxSize
      BY DEF IInv
    <3>3. CASE c = NoCall
      <4>1. Cardinality(Busy(p)) <= Cardinality(Busy(pool))
        BY <2>7, <2>14, <3>1, FS_Subset
      <4> QED BY <2>12, <2>13, <3>1, <3>2, <3>3, <4>1 DEF Outstanding, QueryPoolAssumption
    <3>4. CASE c # NoCall
      <4>1. Cardinality(Busy(p)) = Cardinality(Busy(pool)) - 1
        <5>1. Busy(p) = Busy(pool) \ {w} /\ w \in Busy(pool)
          BY <2>7, <2>11, <2>14, <3>4
        <5> HIDE DEF p
        <5> QED BY <3>1, <5>1, FS_RemoveElement
      <4> QED BY <2>12, <2>13, <3>1, <3>2, <3>4, <4>1 DEF Outstanding, QueryPoolAssumption
    <3> QED BY <3>3, <3>4
  <2>17. killed' \in [Calls -> 0 .. MaxRetries + 1] /\ Charged(p, killed')
    <3>1. CASE c = NoCall
      <4>1. \A d \in Calls : d # c
        BY <3>1 DEF Calls, NoCall
      <4>2. \A d \in Calls : Handed(p, d) <=> Handed(g, d)
        BY <2>13 DEF Handed
      <4> QED BY <1>1, <2>3, <2>7, <2>13, <3>1, <4>1, <4>2 DEF Charged, TypeOK
    <3>2. CASE c # NoCall
      <4>1. c \in Calls /\ killed[c] <= pool.retries[c] /\ pool.retries[c] \in 0 .. MaxRetries
            /\ killed \in [Calls -> 0 .. MaxRetries + 1] /\ p.retries[c] \in Nat
        BY <1>1, <2>11, <2>13, <3>2 DEF Charged, TypeOK, Pools
      <4>2. killed[c] + 1 \in 0 .. MaxRetries + 1
        BY <4>1 DEF QueryPoolAssumption
      <4>3. killed' \in [Calls -> 0 .. MaxRetries + 1] /\ killed'[c] = killed[c] + 1
            /\ \A d \in Calls \ {c} : killed'[d] = killed[d]
        BY <2>3, <3>2, <4>1, <4>2
      <4>4. \A d \in Calls : Handed(p, d) <=> Handed(g, d)
        BY <2>13 DEF Handed
      <4>5. ASSUME NEW d \in Calls \ {c}
            PROVE  /\ killed'[d] <= p.retries[d] + 1
                   /\ Queued(p, d) \/ Handed(p, d) \/ p.outcome[d] = "none" =>
                        killed'[d] <= p.retries[d]
        BY <1>1, <2>7, <2>13, <4>3, <4>4 DEF Charged
      <4>6. /\ killed'[c] <= p.retries[c] + 1
            /\ Queued(p, c) \/ Handed(p, c) \/ p.outcome[c] = "none" =>
                 killed'[c] <= p.retries[c]
        <5>1. killed[c] \in Nat /\ pool.retries[c] \in Nat /\ g.retries[c] = pool.retries[c]
          BY <2>7, <4>1
        <5> QED BY <2>13, <3>2, <4>1, <4>3, <5>1
      <4> QED BY <4>3, <4>5, <4>6 DEF Charged
    <3> QED BY <3>1, <3>2
  <2>18. /\ \A v \in p.workers : v \in pool.workers \/ v \in Clean \cap p.pending
         /\ Clean \cap pool.workers \subseteq p.workers
         /\ \A v \in Threads : p.inflight[v] \in {NoCall, pool.inflight[v]}
    BY <2>7, <2>8, <2>9, <2>13
  <2>19. /\ mail' \in [Threads -> [kind : {"none", "ready", "result"}]]
         /\ \A v \in Threads : mail'[v] = mail[v]
    BY <1>1, <1>2 DEF TypeOK
  <2>20. Nothing.kind = "none"
    BY DEF Nothing
  <2>21. \A v \in Threads : mail'[v].kind = "ready" => v \in p.pending
    BY <1>2, <2>5, <2>8, <2>13, <2>19, <2>20 DEF Reported
  <2>22. \A v \in Threads : mail'[v].kind = "result" => v \in Busy(p)
    BY <1>2, <2>5, <2>7, <2>14, <2>19, <2>20 DEF Reported
  <2>23. \A v \in p.workers : thread[v] = "loading" => v \in p.pending
    <3> SUFFICES ASSUME NEW v \in p.workers, thread[v] = "loading" PROVE v \in p.pending
      OBVIOUS
    <3>1. v \in Threads
      BY <2>13 DEF Pools
    <3>2. v \in pool.pending
      BY <2>5, <3>1 DEF Reported
    <3>3. v = w => v \in W
      BY <2>8, <2>13
    <3> QED BY <2>8, <2>13, <3>2, <3>3
  <2>24. \A v \in p.workers : thread[v] = "serving" => v \in Busy(p)
    <3> SUFFICES ASSUME NEW v \in p.workers, thread[v] = "serving" PROVE v \in Busy(p)
      OBVIOUS
    <3>1. v \in Threads
      BY <2>13 DEF Pools
    <3>2. v \in Busy(pool)
      BY <2>5, <3>1 DEF Reported
    <3>3. v # w
      BY <2>8, <2>9, <2>13
    <3> QED BY <2>7, <2>14, <3>2, <3>3
  <2>25. p.destroyed = pool.destroyed
    BY <2>7, <2>13
  <2>26. \A v \in {w} : gone[v] > 0
    BY <1>2
  <2> QED BY <1>2, <2>2, <2>4, <2>15, <2>16, <2>17, <2>18, <2>19, <2>21, <2>22, <2>23, <2>24,
             <2>25, <2>26, DrainedStep
<1> QED BY <1>3, <1>4

\* The soft timer answers, and the pool goes on as it was.
LEMMA OnSoftTimeoutStep ==
  ASSUME QueryPoolAssumption, IInv, NEW c \in Calls, OnSoftTimeout(c) PROVE IInv'
<1>1. pool' = [pool EXCEPT !.outcome[c] = "busy"] /\ pool.outcome[c] # "none"
  BY DEF OnSoftTimeout, Settle, Open
<1>2. UNCHANGED <<thread, opened, mail, gone, killed>>
  BY DEF OnSoftTimeout
<1>3. "busy" \in Answers
  BY DEF Answers
<1> QED BY <1>1, <1>2, <1>3, AnswerStep

-----------------------------------------------------------------------------
(* The threads.                                                             *)

\* A step of a thread, which changes no field of the pool, from what it is said to do
\* by the pool to where it has ended that.
LEMMA ThreadStep ==
  ASSUME QueryPoolAssumption, IInv, NEW w \in Threads, OpenProject(w) \/ Serve(w) \/ Die(w)
  PROVE  IInv'
<1>1. pool' = pool /\ killed' = killed /\ TypeOK /\ Nothing.kind = "none"
  BY DEF IInv, OpenProject, Serve, Die, Nothing
<1>2. Booked(pool)' /\ Fed(pool)' /\ (Outstanding(pool) <= 2 * MaxSize)'
      /\ Charged(pool, killed)'
  BY <1>1, Carried DEF IInv
<1>3. TypeOK'
  <2>1. [kind |-> "ready"] \in [kind : {"none", "ready", "result"}]
        /\ [kind |-> "result"] \in [kind : {"none", "ready", "result"}]
        /\ Nothing \in [kind : {"none", "ready", "result"}]
    BY DEF Nothing
  <2>2. mail' \in [Threads -> [kind : {"none", "ready", "result"}]]
    <3> DEFINE Messages == [kind : {"none", "ready", "result"}]
    <3>1. mail \in [Threads -> Messages]
      BY <1>1 DEF TypeOK
    <3>2. \E m : m \in {[kind |-> "ready"], [kind |-> "result"], Nothing}
                 /\ mail' \in {mail, [mail EXCEPT ![w] = m]}
      BY DEF OpenProject, Serve, Die
    <3>3. \A m : m \in {[kind |-> "ready"], [kind |-> "result"], Nothing} => m \in Messages
      BY <2>1
    <3> HIDE DEF Messages
    <3>4. mail' \in [Threads -> Messages]
      BY <3>1, <3>2, <3>3
    <3> QED BY <3>4 DEF Messages
  <2>3. thread' \in [Threads -> {"none", "loading", "waiting", "serving", "dead"}]
    BY <1>1 DEF TypeOK, OpenProject, Serve, Die
  <2>4. opened' \subseteq Threads /\ gone' \in [Threads -> 0 .. 2]
    <3>1. gone \in [Threads -> 0 .. 2] /\ opened \subseteq Threads
      BY <1>1 DEF TypeOK
    <3>2. opened' \subseteq Threads
      BY <3>1 DEF OpenProject, Serve, Die
    <3>3. gone' \in {gone, [gone EXCEPT ![w] = 2]}
      BY DEF OpenProject, Serve, Die
    <3> QED BY <3>1, <3>2, <3>3
  <2> QED BY <1>1, <2>2, <2>3, <2>4 DEF TypeOK
<1>4. /\ \A v \in Threads \ {w} : thread'[v] = thread[v] /\ mail'[v] = mail[v]
      /\ thread'[w] \in {"waiting", "dead"}
      /\ \/ mail'[w] \in {mail[w], Nothing}
         \/ mail'[w] = [kind |-> "ready"] /\ thread[w] = "loading"
         \/ mail'[w] = [kind |-> "result"] /\ thread[w] = "serving"
  BY <1>1 DEF OpenProject, Serve, Die, TypeOK
<1>5. Idle(pool)' = Idle(pool) /\ Busy(pool)' = Busy(pool)
  BY <1>1 DEF Idle, Busy
<1>6. CASE pool.destroyed
  <2>1. Silent
    BY <1>6 DEF IInv
  <2>2. Silent'
    BY <1>1, <1>4, <1>5, <2>1 DEF Silent
  <2> QED BY <1>1, <1>2, <1>3, <1>6, <2>2 DEF IInv
<1>7. CASE ~pool.destroyed
  <2>1. Reported
    BY <1>7 DEF IInv
  <2>2. Reported'
    BY <1>1, <1>4, <1>5, <2>1 DEF Reported
  <2> QED BY <1>1, <1>2, <1>3, <1>7, <2>2 DEF IInv
<1> QED BY <1>6, <1>7

-----------------------------------------------------------------------------
(* The theorems.                                                            *)

\* Every step keeps the invariant.
LEMMA Inductive == ASSUME QueryPoolAssumption, IInv, [Next]_vars PROVE IInv'
<1>1. CASE \E c \in Calls : Run(c)
  BY <1>1, RunStep
<1>2. CASE Destroy
  BY <1>2, DestroyStep
<1>3. CASE Timers
  BY <1>3, OnSoftTimeoutStep DEF Timers
<1>4. CASE \E w \in Threads : Event(w)
  BY <1>4, OnReadyStep, OnResultStep, OnWorkerGoneStep DEF Event
<1>5. CASE \E w \in Threads : OpenProject(w) \/ Serve(w) \/ Die(w)
  BY <1>5, ThreadStep
<1>6. CASE UNCHANGED vars
  BY <1>6, UnchangedPool DEF vars, IInv, TypeOK
<1> QED BY <1>1, <1>2, <1>3, <1>4, <1>5, <1>6 DEF Next

\* The books of the pool are right whatever its threads do: see IInv.
THEOREM AlwaysBooked ==
  ASSUME QueryPoolAssumption PROVE Spec => []IInv
<1>1. Init => IInv
  BY PoolInit
<1>2. IInv /\ [Next]_vars => IInv'
  BY Inductive
<1> QED BY <1>1, <1>2, PTL DEF Spec

\* The idle workers are as many as the pool has on its list.
LEMMA IdleCount ==
  ASSUME NEW p \in Pools, Distinct(p.idle) PROVE Cardinality(Idle(p)) = Len(p.idle)
<1>1. Len(p.idle) \in Nat
  BY DEF Pools
<1>2. IsFiniteSet(1 .. Len(p.idle)) /\ Cardinality(1 .. Len(p.idle)) = Len(p.idle)
  <2> DEFINE n == Len(p.idle)
  <2>1. 1 \in Int /\ n \in Int /\ (IF 1 > n THEN 0 ELSE n - 1 + 1) = n
    BY <1>1
  <2> HIDE DEF n
  <2>2. IsFiniteSet(1 .. n) /\ Cardinality(1 .. n) = n
    BY <2>1, FS_Interval
  <2> QED BY <2>2 DEF n
<1> DEFINE f == [i \in 1 .. Len(p.idle) |-> p.idle[i]]
<1>3. f \in Injection(1 .. Len(p.idle), Idle(p)) /\ f \in Surjection(1 .. Len(p.idle), Idle(p))
  BY DEF Injection, IsInjective, Surjection, Idle, Distinct
<1>4. f \in Bijection(1 .. Len(p.idle), Idle(p))
  BY <1>3 DEF Bijection
<1>5. ExistsBijection(1 .. Len(p.idle), Idle(p))
  BY <1>4 DEF ExistsBijection
<1> QED BY <1>2, <1>5, FS_Bijection

\* A worker is in one of the pool's places, however threads die and calls are answered
\* early: WorkersHaveOnePlace, for any number of threads and calls.
THEOREM WorkersArePlaced ==
  ASSUME QueryPoolAssumption PROVE Spec => []WorkersHaveOnePlace
<1>1. Spec => []IInv
  BY AlwaysBooked
<1>2. IInv => WorkersHaveOnePlace
  <2> SUFFICES ASSUME IInv, ~pool.destroyed
               PROVE  /\ Stationed(pool)
                      /\ Cardinality(Idle(pool)) = Len(pool.idle)
    BY DEF WorkersHaveOnePlace, Stationed
  <2>1. pool \in Pools /\ Stationed(pool)
    BY DEF IInv, Booked
  <2> QED BY <2>1, IdleCount DEF Stationed
<1> QED BY <1>1, <1>2, PTL

\* An open call waits for somebody or is with a worker, and is in one place only.
THEOREM CallsAreServed ==
  ASSUME QueryPoolAssumption PROVE Spec => []QueueIsServed
<1>1. Spec => []IInv
  BY AlwaysBooked
<1>2. IInv => QueueIsServed
  <2> SUFFICES ASSUME IInv PROVE QueueIsServed
    OBVIOUS
  <2>1. pool \in Pools /\ Booked(pool) /\ Fed(pool) /\ Apart(pool) /\ Owed(pool)
    BY DEF IInv, Booked
  <2>2. Healthy(pool) /\ OpenPlaces(pool) # {} =>
          pool.idle = <<>> /\ (pool.pending # {} \/ Busy(pool) # {})
    <3> SUFFICES ASSUME Healthy(pool), OpenPlaces(pool) # {}
                 PROVE  pool.idle = <<>> /\ (pool.pending # {} \/ Busy(pool) # {})
      OBVIOUS
    <3>1. pool.idle = <<>> /\ pool.workers # {} /\ Stationed(pool)
      BY <2>1 DEF Fed, Healthy, Booked
    <3>2. Idle(pool) = {}
      BY <3>1 DEF Idle
    <3> QED BY <3>1, <3>2 DEF Stationed
  <2>3. ASSUME NEW c \in Calls, Open(pool, c)
        PROVE  Cardinality({i \in 1 .. Len(pool.queue) : pool.queue[i] = c})
                 + Cardinality({w \in Threads : pool.inflight[w] = c}) = 1
    <3> DEFINE places == {i \in 1 .. Len(pool.queue) : pool.queue[i] = c}
               hands == {w \in Threads : pool.inflight[w] = c}
    <3>1. c # NoCall
      BY DEF Calls, NoCall
    <3>2. CASE Queued(pool, c)
      <4>1. PICK i \in 1 .. Len(pool.queue) : pool.queue[i] = c
        BY <3>2 DEF Queued
      <4>2. places = {i}
        BY <2>1, <4>1 DEF Apart, Distinct
      <4>3. hands = {}
        BY <2>1, <3>2 DEF Apart, Handed
      <4> HIDE DEF places, hands
      <4>4. Cardinality(places) = 1 /\ Cardinality(hands) = 0
        BY <4>2, <4>3, FS_Singleton, FS_EmptySet
      <4> QED BY <4>4 DEF places, hands
    <3>3. CASE Handed(pool, c) /\ ~Queued(pool, c)
      <4>1. PICK w \in Threads : pool.inflight[w] = c
        BY <3>3 DEF Handed
      <4>2. hands = {w}
        BY <2>1, <3>1, <4>1 DEF Apart
      <4>3. places = {}
        BY <3>3 DEF Queued
      <4> HIDE DEF places, hands
      <4>4. Cardinality(places) = 0 /\ Cardinality(hands) = 1
        BY <4>2, <4>3, FS_Singleton, FS_EmptySet
      <4> QED BY <4>4 DEF places, hands
    <3> QED BY <2>1, <2>3, <3>2, <3>3 DEF Owed
  <2> QED BY <2>2, <2>3 DEF QueueIsServed
<1> QED BY <1>1, <1>2, PTL

\* Never more than one wave runs and one waits, and no call kills more workers than its
\* retries and one.
THEOREM CallsAreBounded ==
  ASSUME QueryPoolAssumption PROVE Spec => [](AdmissionHolds /\ PoisonIsBounded)
<1>1. Spec => []IInv
  BY AlwaysBooked
<1>2. IInv => AdmissionHolds /\ PoisonIsBounded
  BY DEF IInv, AdmissionHolds, PoisonIsBounded, Charged, TypeOK, QueryPoolAssumption
<1> QED BY <1>1, <1>2, PTL
=============================================================================
