---------------------------- MODULE BatchProofs ----------------------------
(* Theorems about the resolution of references, for any numbers of them, of  *)
(* batches, workers and deaths.                                              *)
EXTENDS BatchResolver, FiniteSetTheorems, TLAPS

\* The members of a finite set of numbers are ranked.
LEMMA Ranked ==
  ASSUME NEW S \in SUBSET Nat, IsFiniteSet(S),
         NEW R, R = [i \in S |-> Cardinality({h \in S : h <= i})]
  PROVE  /\ R \in [S -> 1 .. Cardinality(S)]
         /\ \A i, j \in S : i < j => R[i] < R[j]
         /\ \A r \in 1 .. Cardinality(S) : \E i \in S : R[i] = r
<1> DEFINE Upto(i) == {h \in S : h <= i}
<1>1. Cardinality(S) \in Nat
  BY FS_CardinalityType
<1>2. \A i \in S : IsFiniteSet(Upto(i)) /\ Cardinality(Upto(i)) \in 1 .. Cardinality(S)
  <2> SUFFICES ASSUME NEW i \in S
               PROVE  IsFiniteSet(Upto(i)) /\ Cardinality(Upto(i)) \in 1 .. Cardinality(S)
    OBVIOUS
  <2>1. Upto(i) \in SUBSET S /\ i \in Upto(i)
    OBVIOUS
  <2>2. IsFiniteSet(Upto(i)) /\ Cardinality(Upto(i)) <= Cardinality(S)
    BY <2>1, FS_Subset
  <2>3. Cardinality(Upto(i)) \in Nat /\ Cardinality(Upto(i)) # 0
    BY <2>1, <2>2, FS_CardinalityType, FS_EmptySet
  <2> QED BY <1>1, <2>2, <2>3
<1>3. R \in [S -> 1 .. Cardinality(S)]
  BY <1>2
<1>4. \A i, j \in S : i < j => R[i] < R[j]
  <2> SUFFICES ASSUME NEW i \in S, NEW j \in S, i < j PROVE R[i] < R[j]
    OBVIOUS
  <2>1. i \in Nat /\ j \in Nat /\ \A h \in S : h \in Nat
    OBVIOUS
  <2>2. j \in Upto(j) /\ j \notin Upto(i)
    BY <2>1
  <2>3. Upto(i) \in SUBSET Upto(j)
    <3>1. \A h \in S : h <= i => h <= j
      BY <2>1
    <3> QED BY <3>1
  <2>4. Cardinality(Upto(i)) <= Cardinality(Upto(j))
        /\ Cardinality(Upto(i)) # Cardinality(Upto(j))
    BY <1>2, <2>2, <2>3, FS_Subset
  <2> QED BY <1>2, <2>4
<1>5. R \in Injection(S, 1 .. Cardinality(S))
  <2>1. \A i, j \in S : R[i] = R[j] => i = j
    BY <1>3, <1>4
  <2> QED BY <1>3, <2>1 DEF Injection, IsInjective
<1>6. IsFiniteSet(1 .. Cardinality(S)) /\ Cardinality(1 .. Cardinality(S)) = Cardinality(S)
  BY <1>1, FS_Interval
<1>7. R \in Surjection(S, 1 .. Cardinality(S))
  BY <1>5, <1>6, FS_Injection
<1> QED BY <1>3, <1>4, <1>7 DEF Surjection

\* It has a least and a greatest member.
LEMMA Extremes ==
  ASSUME NEW S \in SUBSET Nat, IsFiniteSet(S), S # {}
  PROVE  /\ \E m \in S : \A n \in S : m <= n
         /\ \E m \in S : \A n \in S : n <= m
<1> DEFINE R == [i \in S |-> Cardinality({h \in S : h <= i})]
<1>1. Cardinality(S) \in Nat /\ Cardinality(S) # 0
  BY FS_CardinalityType, FS_EmptySet
<1>2. /\ R \in [S -> 1 .. Cardinality(S)]
      /\ \A i, j \in S : i < j => R[i] < R[j]
      /\ \A r \in 1 .. Cardinality(S) : \E i \in S : R[i] = r
  <2> HIDE DEF R
  <2>1. R = [i \in S |-> Cardinality({h \in S : h <= i})]
    BY DEF R
  <2> QED BY <2>1, Ranked
<1> HIDE DEF R
<1>3. PICK l \in S : R[l] = 1
  BY <1>1, <1>2
<1>4. PICK m \in S : R[m] = Cardinality(S)
  BY <1>1, <1>2
<1>5. \A n \in S : l <= n
  <2> SUFFICES ASSUME NEW n \in S, n < l PROVE FALSE
    OBVIOUS
  <2> QED BY <1>1, <1>2, <1>3
<1>6. \A n \in S : n <= m
  <2> SUFFICES ASSUME NEW n \in S, m < n PROVE FALSE
    OBVIOUS
  <2> QED BY <1>1, <1>2, <1>4
<1> QED BY <1>5, <1>6

-----------------------------------------------------------------------------
(* The resolution in batches.                                               *)

\* What is pending beside the batch comes after it, and is what is read next.
Covered ==
  /\ pc \in {"read", "settle", "boundary", "persist"} =>
       batch # {} /\ \A r \in batch, q \in pending \ batch : r < q
  /\ pc \in {"read", "settle", "boundary"} => batch \subseteq pending
  /\ pc \in {"settle", "boundary", "persist"} => next = BatchAfter(Max(batch))
  /\ pc \in {"conform", "done"} => pending = {}

\* The threads have parts of the batch that is in flight, each reference once.
InFlight == IF pc = "persist" THEN next ELSE batch
Posted ==
  /\ flight.mode # "pool" => inbox = Idle /\ flight = [NoFlight EXCEPT !.mode = flight.mode]
  /\ pc \in {"start", "boundary", "conform", "done"} => flight = NoFlight
  /\ pc = "persist" /\ flight.mode = "pool" => AllIn
  /\ pc = "persist" /\ next = {} => flight = NoFlight
  /\ flight.mode = "pool" =>
       /\ flight.done \subseteq InFlight
       /\ \A w \in Workers : inbox[w] \subseteq InFlight \ flight.done
       /\ \A v, w \in Workers : v # w => inbox[v] \cap inbox[w] = {}

\* What was deferred comes before what is still to be resolved.
Sorted ==
  /\ DeferredInOrder
  /\ \A i \in 1 .. Len(deferred), q \in pending :
       /\ pc \in {"start", "read", "settle"} => deferred[i] < q
       /\ pc \in {"boundary", "persist"} => q \in batch \/ deferred[i] < q

\* One thread settles S, and defers the rest.
Block(r) == (r - 1) \div BatchSize
Bound(r) == kind[r] = "chain" => Before(r) # {}
EdgeOf(r) == <<r, IF kind[r] = "super" THEN {} ELSE Before(r)>>
Settled(S) == {EdgeOf(r) : r \in {q \in S : Bound(q)}}
Late(S) == {r \in S : ~Bound(r)}
Upto(k) == {r \in Refs : Block(r) < k}
From(k) == {r \in Refs : Block(r) >= k}
Nth(k) == {r \in Refs : Block(r) = k}

\* In the k-th batch the graph has what one thread had made of those before.
AtBatch(k) ==
  /\ batch = Nth(k) /\ pending \subseteq From(k) /\ pending \ batch = From(k + 1)
  /\ pc # "read" => next = Nth(k + 1)
  /\ pc \in {"read", "settle"} => edges = Settled(Upto(k)) /\ Range(deferred) = Late(Upto(k))
  /\ pc \in {"boundary", "persist"} =>
       result = Settled(Nth(k)) /\ Range(deferred) = Late(Upto(k + 1))
  /\ pc = "boundary" => edges = Settled(Upto(k))
  /\ pc = "persist" => Settled(Upto(k)) \subseteq edges /\ edges \subseteq Settled(Upto(k + 1))
AsOneThread ==
  crashes = 0 =>
    /\ pc = "start" => pending = Refs /\ edges = {} /\ deferred = <<>>
    /\ pc \in {"read", "settle", "boundary", "persist"} => \E k \in Nat : AtBatch(k)
    /\ pc = "conform" => edges = Settled(Refs) /\ Range(deferred) = Late(Refs)
    /\ pc = "done" => edges = Expected
    /\ flight.mode = "pool" => flight.got = Settled(flight.done)

BInv == TypeOK /\ RowsOutliveTheirEdges /\ Covered /\ Posted /\ Sorted /\ AsOneThread

-----------------------------------------------------------------------------
\* Any references are finitely many numbers.
LEMMA RefsAreFinite ==
  ASSUME BatchResolverAssumption, NEW S \in SUBSET Refs
  PROVE  IsFiniteSet(S) /\ Cardinality(S) \in Nat /\ S \in SUBSET Nat
<1>1. IsFiniteSet(Refs)
  BY FS_Interval DEF BatchResolverAssumption, Refs
<1>2. IsFiniteSet(S)
  BY <1>1, FS_Subset
<1>3. S \in SUBSET Nat
  BY DEF Refs
<1> QED BY <1>2, <1>3, FS_CardinalityType

\* The last of some references.
LEMMA LastOf ==
  ASSUME BatchResolverAssumption, NEW S \in SUBSET Refs, S # {}
  PROVE  Max(S) \in S /\ \A r \in S : r <= Max(S)
<1>1. \E m \in S : \A n \in S : n <= m
  BY RefsAreFinite, Extremes
<1>2. \E m \in S : \A n \in S : m >= n
  BY <1>1, RefsAreFinite
<1> QED BY <1>2, RefsAreFinite DEF Max

\* The first of some references.
LEMMA FirstOf ==
  ASSUME BatchResolverAssumption, NEW S \in SUBSET Refs, S # {}
  PROVE  Min(S) \in S /\ \A r \in S : Min(S) <= r
<1>1. \E m \in S : \A n \in S : m <= n
  BY RefsAreFinite, Extremes
<1> QED BY <1>1 DEF Min

\* What is read after m is the first of what is pending after m.
LEMMA ReadAhead ==
  ASSUME BatchResolverAssumption, pending \subseteq Refs, NEW m \in Nat,
         NEW L, L = {q \in pending : q > m}
  PROVE  /\ BatchAfter(m) \subseteq L
         /\ L # {} => BatchAfter(m) # {}
         /\ \A p \in BatchAfter(m), q \in L \ BatchAfter(m) : p < q
<1> DEFINE Rank(q) == {p \in L : p <= q}
<1>1. BatchAfter(m) = {q \in L : Cardinality(Rank(q)) <= BatchSize}
  BY DEF BatchAfter
<1>2. L \in SUBSET Refs /\ \A q \in L : q \in Nat /\ Rank(q) \in SUBSET Refs
  <2>1. L \in SUBSET Refs
    OBVIOUS
  <2> QED BY <2>1 DEF Refs
<1>3. ASSUME L # {} PROVE BatchAfter(m) # {}
  <2>1. Min(L) \in L /\ \A r \in L : Min(L) <= r
    BY <1>2, <1>3, FirstOf
  <2>2. Rank(Min(L)) = {Min(L)}
    BY <1>2, <2>1
  <2>3. Cardinality(Rank(Min(L))) = 1
    <3> HIDE DEF Rank
    <3> QED BY <2>2, FS_Singleton
  <2> QED BY <1>1, <2>1, <2>3 DEF BatchResolverAssumption
<1>4. ASSUME NEW p \in BatchAfter(m), NEW q \in L \ BatchAfter(m), ~(p < q) PROVE FALSE
  <2>1. p \in L /\ q <= p
    BY <1>1, <1>2, <1>4
  <2>2. Rank(q) \in SUBSET Rank(p)
    <3>1. \A r \in L : r <= q => r <= p
      BY <1>2, <2>1
    <3> QED BY <3>1
  <2>3. Cardinality(Rank(p)) <= BatchSize /\ ~(Cardinality(Rank(q)) <= BatchSize)
    BY <1>1, <1>4
  <2>4. /\ Rank(p) \in SUBSET Refs /\ Rank(q) \in SUBSET Refs
    BY <1>2, <2>1
  <2> HIDE DEF Rank
  <2>5. Cardinality(Rank(q)) <= Cardinality(Rank(p))
        /\ Cardinality(Rank(p)) \in Nat /\ Cardinality(Rank(q)) \in Nat
    BY <2>2, <2>4, RefsAreFinite, FS_Subset
  <2> QED BY <2>3, <2>5 DEF BatchResolverAssumption
<1> QED BY <1>1, <1>3, <1>4

\* The batches of a project whose references are all pending.
LEMMA Blocks ==
  ASSUME BatchResolverAssumption, NEW r \in Refs
  PROVE  /\ Block(r) \in Nat /\ r \in Nat
         /\ BatchSize * Block(r) < r /\ r <= BatchSize * Block(r) + BatchSize
<1>1. r - 1 \in Nat /\ BatchSize \in Nat \ {0}
  BY DEF Refs, BatchResolverAssumption
<1> QED BY <1>1 DEF Block, Refs

\* What is read where all before the k-th batch is settled is the k-th batch.
LEMMA AlignedBatch ==
  ASSUME BatchResolverAssumption, NEW k \in Nat
  PROVE  {q \in From(k) : Cardinality({p \in From(k) : p <= q}) <= BatchSize} = Nth(k)
<1>1. PICK c \in Nat : c = BatchSize * k
  BY DEF BatchResolverAssumption
<1>2. ASSUME NEW r \in Refs
      PROVE  /\ r \in From(k) <=> c < r
             /\ r \in Nth(k) <=> c < r /\ r <= c + BatchSize
  <2>1. Block(r) >= k => c < r
    BY <1>1, Blocks DEF BatchResolverAssumption
  <2>2. Block(r) < k => r <= c
    BY <1>1, Blocks DEF BatchResolverAssumption
  <2>3. Block(r) = k => r <= c + BatchSize
    BY <1>1, Blocks DEF BatchResolverAssumption
  <2>4. Block(r) > k => c + BatchSize < r
    <3>1. Block(r) > k => BatchSize * k + BatchSize <= BatchSize * Block(r)
      BY Blocks DEF BatchResolverAssumption
    <3> QED BY <1>1, <3>1, Blocks DEF BatchResolverAssumption
  <2>5. Block(r) \in Nat /\ r \in Nat
    BY Blocks
  <2>6. (Block(r) >= k <=> c < r) /\ (Block(r) = k <=> c < r /\ r <= c + BatchSize)
    BY <1>1, <2>1, <2>2, <2>3, <2>4, <2>5 DEF BatchResolverAssumption
  <2> QED BY <2>6 DEF From, Nth
<1>3. ASSUME NEW q \in From(k) PROVE Cardinality({p \in From(k) : p <= q}) = q - c
  <2>1. q \in Refs /\ q \in Nat /\ c < q
    BY <1>2 DEF From, Refs
  <2>2. {p \in From(k) : p <= q} = (c + 1) .. q
    <3>1. \A p \in From(k) : p \in Refs /\ p \in Nat /\ c < p
      BY <1>2 DEF From, Refs
    <3>2. \A p \in (c + 1) .. q : p \in From(k)
      BY <1>2, <2>1 DEF Refs, BatchResolverAssumption
    <3>3. \A p \in (c + 1) .. q : p <= q
      BY <2>1
    <3>4. \A p \in From(k) : p <= q => p \in (c + 1) .. q
      BY <2>1, <3>1
    <3> QED BY <3>2, <3>3, <3>4
  <2>3. Cardinality((c + 1) .. q) = q - c
    <3>1. c + 1 \in Int /\ q \in Int
      BY <2>1
    <3> QED BY <2>1, <3>1, FS_Interval
  <2> QED BY <2>2, <2>3
<1>4. \A q \in From(k) : q \in Refs /\ q \in Nat
  BY DEF From, Refs
<1>5. Nth(k) \subseteq From(k)
  BY Blocks DEF Nth, From
<1> QED BY <1>2, <1>3, <1>4, <1>5 DEF BatchResolverAssumption

\* A function that rises is a sequence, and takes no value twice.
LEMMA OrderedInjection ==
  ASSUME NEW D \in SUBSET Nat, NEW n \in Nat, NEW t \in [1 .. n -> D],
         \A i, j \in 1 .. n : i < j => t[i] < t[j]
  PROVE  t \in Seq(D) /\ Len(t) = n /\ t \in Injection(1 .. n, D)
<1>1. \A i, j \in 1 .. n : t[i] = t[j] => i = j
  <2> SUFFICES ASSUME NEW i \in 1 .. n, NEW j \in 1 .. n, t[i] = t[j], i # j PROVE FALSE
    OBVIOUS
  <2>1. t[i] \in Nat /\ t[j] \in Nat
    OBVIOUS
  <2>2. i < j \/ j < i
    OBVIOUS
  <2> QED BY <2>1, <2>2
<1>2. t \in Injection(1 .. n, D)
  BY <1>1 DEF Injection, IsInjective
<1>3. t \in Seq(D) /\ Len(t) = n
  OBVIOUS
<1> QED BY <1>2, <1>3

\* The ordered sequence of a set's members.
LEMMA Ordered ==
  ASSUME BatchResolverAssumption, NEW D \in SUBSET Refs,
         NEW q, q = CHOOSE t \in [1 .. Cardinality(D) -> D] :
                      \A i, j \in 1 .. Cardinality(D) : i < j => t[i] < t[j]
  PROVE  /\ q \in Seq(Refs) /\ Range(q) = D
         /\ \A i, j \in 1 .. Len(q) : i < j => q[i] < q[j]
<1> DEFINE n == Cardinality(D)
           Rank == [i \in D |-> Cardinality({h \in D : h <= i})]
           s == [i \in 1 .. n |-> CHOOSE r \in D : Rank[r] = i]
<1>1. D \in SUBSET Nat /\ IsFiniteSet(D) /\ n \in Nat
  BY RefsAreFinite
<1>2. /\ Rank \in [D -> 1 .. n]
      /\ \A i, j \in D : i < j => Rank[i] < Rank[j]
      /\ \A r \in 1 .. n : \E i \in D : Rank[i] = r
  <2> HIDE DEF Rank
  <2>1. Rank = [i \in D |-> Cardinality({h \in D : h <= i})]
    BY DEF Rank
  <2> QED BY <1>1, <2>1, Ranked
<1> HIDE DEF Rank, n
<1>3. s \in [1 .. n -> D] /\ \A i \in 1 .. n : Rank[s[i]] = i
  BY <1>2
<1>4. \A i, j \in 1 .. n : i < j => s[i] < s[j]
  <2> SUFFICES ASSUME NEW i \in 1 .. n, NEW j \in 1 .. n, i < j, ~(s[i] < s[j]) PROVE FALSE
    OBVIOUS
  <2>1. s[i] \in D /\ s[j] \in D /\ Rank[s[i]] = i /\ Rank[s[j]] = j
    BY <1>3
  <2>2. s[i] \in Nat /\ s[j] \in Nat
    BY <1>1, <2>1
  <2> HIDE DEF s
  <2>3. s[i] = s[j] \/ Rank[s[j]] < Rank[s[i]]
    BY <1>2, <2>1, <2>2
  <2> QED BY <1>1, <2>1, <2>3
<1> HIDE DEF s
<1>5. PICK t \in [1 .. n -> D] :
        t = q /\ \A i, j \in 1 .. n : i < j => t[i] < t[j]
  <2>1. q = CHOOSE t \in [1 .. n -> D] : \A i, j \in 1 .. n : i < j => t[i] < t[j]
    BY DEF n
  <2> QED BY <1>3, <1>4, <2>1
<1>6. t \in Seq(D) /\ Len(t) = n /\ t \in Injection(1 .. n, D)
  BY <1>1, <1>5, OrderedInjection
<1>8. IsFiniteSet(1 .. n) /\ Cardinality(1 .. n) = n
  BY <1>1, FS_Interval
<1>9. t \in Surjection(1 .. n, D)
  BY <1>1, <1>6, <1>8, FS_Injection DEF n
<1>10. Range(t) = D
  BY <1>9 DEF Range, Surjection
<1>11. t \in Seq(Refs)
  BY <1>6
<1> QED BY <1>5, <1>6, <1>10, <1>11

\* What a resolver defers has an order.
LEMMA DeferredSequence ==
  ASSUME BatchResolverAssumption, NEW S \in SUBSET Refs, NEW R,
         NEW d, d = Deferrals(S, R)
  PROVE  /\ d \in Seq(Refs) /\ \A i, j \in 1 .. Len(d) : i < j => d[i] < d[j]
         /\ Range(d) = {r \in S : kind[r] = "chain" /\ r \notin {e[1] : e \in R}}
<1> DEFINE D == {r \in S : kind[r] = "chain" /\ r \notin {e[1] : e \in R}}
<1>1. d = CHOOSE t \in [1 .. Cardinality(D) -> D] :
            \A i, j \in 1 .. Cardinality(D) : i < j => t[i] < t[j]
  BY DEF Deferrals
<1>2. D \in SUBSET Refs
  OBVIOUS
<1> HIDE DEF D
<1>3. /\ d \in Seq(Refs) /\ Range(d) = D
      /\ \A i, j \in 1 .. Len(d) : i < j => d[i] < d[j]
  BY <1>1, <1>2, Ordered
<1> QED BY <1>3 DEF D

\* What two sequences make one after the other.
LEMMA Concatenated ==
  ASSUME NEW S, NEW a \in Seq(S), NEW b \in Seq(S)
  PROVE  /\ a \o b \in Seq(S) /\ Len(a \o b) = Len(a) + Len(b)
         /\ \A i \in 1 .. Len(a) : (a \o b)[i] = a[i]
         /\ \A i \in 1 .. Len(b) : (a \o b)[Len(a) + i] = b[i]
OBVIOUS

Rising(s) == \A i, j \in 1 .. Len(s) : i < j => s[i] < s[j]
Joined(c, a, b) == Range(c) = Range(a) \cup Range(b)
Below(a, b) == \A i \in 1 .. Len(a), j \in 1 .. Len(b) : a[i] < b[j]

\* It has the members of both.
LEMMA BothRanges ==
  ASSUME NEW S, NEW a \in Seq(S), NEW b \in Seq(S), NEW c, c = a \o b
  PROVE  Joined(c, a, b)
<1>1. /\ c \in Seq(S) /\ Len(c) = Len(a) + Len(b) /\ Len(a) \in Nat /\ Len(b) \in Nat
      /\ \A i \in 1 .. Len(a) : c[i] = a[i]
      /\ \A i \in 1 .. Len(b) : c[Len(a) + i] = b[i]
  BY Concatenated
<1>2. \A i \in 1 .. Len(c) : i \in 1 .. Len(a) \/ i - Len(a) \in 1 .. Len(b)
  BY <1>1
<1>3. \A i \in 1 .. Len(c) : i - Len(a) \in 1 .. Len(b) => c[i] = b[i - Len(a)]
  BY <1>1
<1>4. /\ Range(a) = {a[i] : i \in 1 .. Len(a)} /\ Range(b) = {b[i] : i \in 1 .. Len(b)}
      /\ Range(c) = {c[i] : i \in 1 .. Len(c)}
  <2>1. DOMAIN a = 1 .. Len(a) /\ DOMAIN b = 1 .. Len(b) /\ DOMAIN c = 1 .. Len(c)
    BY <1>1
  <2> QED BY <2>1 DEF Range
<1>5. \A i \in 1 .. Len(b) : Len(a) + i \in 1 .. Len(c)
  BY <1>1
<1>6. \A i \in 1 .. Len(a) : i \in 1 .. Len(c)
  BY <1>1
<1>7. ASSUME NEW x \in Range(c) PROVE x \in Range(a) \cup Range(b)
  <2>1. PICK i \in 1 .. Len(c) : x = c[i]
    BY <1>4
  <2>2. CASE i \in 1 .. Len(a)
    BY <1>1, <1>4, <2>1, <2>2
  <2>3. CASE i - Len(a) \in 1 .. Len(b)
    BY <1>3, <1>4, <2>1, <2>3
  <2> QED BY <1>2, <2>2, <2>3
<1>8. ASSUME NEW x \in Range(a) PROVE x \in Range(c)
  <2>1. PICK i \in 1 .. Len(a) : x = a[i]
    BY <1>4
  <2> QED BY <1>1, <1>4, <1>6, <2>1
<1>9. ASSUME NEW x \in Range(b) PROVE x \in Range(c)
  <2>1. PICK i \in 1 .. Len(b) : x = b[i]
    BY <1>4
  <2> QED BY <1>1, <1>4, <1>5, <2>1
<1> QED BY <1>7, <1>8, <1>9 DEF Joined

\* What rises, followed by what rises above it, rises.
LEMMA Appended ==
  ASSUME NEW S \in SUBSET Nat, NEW a \in Seq(S), NEW b \in Seq(S),
         Rising(a), Rising(b), Below(a, b), NEW c, c = a \o b
  PROVE  c \in Seq(S) /\ Joined(c, a, b) /\ Rising(c)
<1>1. /\ c \in Seq(S) /\ Len(c) = Len(a) + Len(b) /\ Len(a) \in Nat /\ Len(b) \in Nat
      /\ \A i \in 1 .. Len(a) : c[i] = a[i]
      /\ \A i \in 1 .. Len(b) : c[Len(a) + i] = b[i]
  BY Concatenated
<1>2. \A i \in 1 .. Len(c) : i \in 1 .. Len(a) \/ i - Len(a) \in 1 .. Len(b)
  BY <1>1
<1>3. \A i \in 1 .. Len(c) : i - Len(a) \in 1 .. Len(b) => c[i] = b[i - Len(a)]
  BY <1>1
<1>4. \A i, j \in 1 .. Len(c) : i < j => c[i] < c[j]
  <2> SUFFICES ASSUME NEW i \in 1 .. Len(c), NEW j \in 1 .. Len(c), i < j PROVE c[i] < c[j]
    OBVIOUS
  <2>1. CASE j \in 1 .. Len(a)
    BY <1>1, <2>1 DEF Rising
  <2>2. CASE i \in 1 .. Len(a) /\ j - Len(a) \in 1 .. Len(b)
    BY <1>1, <1>3, <2>2 DEF Below
  <2>3. CASE i - Len(a) \in 1 .. Len(b) /\ j - Len(a) \in 1 .. Len(b)
    <3>1. b[i - Len(a)] < b[j - Len(a)]
      BY <1>1, <2>3 DEF Rising
    <3> QED BY <1>3, <2>3, <3>1
  <2> QED BY <1>1, <1>2, <2>1, <2>2, <2>3
<1>5. Joined(c, a, b)
  BY BothRanges
<1> QED BY <1>1, <1>4, <1>5 DEF Rising
-----------------------------------------------------------------------------
Flights == [mode : {"none", "seq", "pool"}, done : SUBSET Refs,
            got : SUBSET (Refs \X SUBSET Refs), lost : BOOLEAN]

\* What a resolver answers is of the list it was given.
LEMMA Answering ==
  ASSUME edges \subseteq Refs \X SUBSET Refs, NEW S \in SUBSET Refs, NEW a
  PROVE  /\ Supers \subseteq Refs
         /\ Resolved(a, S) \subseteq S \X SUBSET Refs
<1>1. Supers \subseteq Refs
  BY DEF Supers
<1>2. Seen(Unread) = Supers
  BY DEF Seen
<1> QED BY <1>1, <1>2 DEF Resolved, Answers, Advanced

\* What a resolver remembers of a batch are supertypes.
LEMMA Remembering ==
  ASSUME edges \subseteq Refs \X SUBSET Refs, NEW a \in Resolvers, NEW S \in SUBSET Refs,
         memo \in [Resolvers -> (SUBSET Refs) \cup {Unread}], Resolves(a, S)
  PROVE  memo' \in [Resolvers -> (SUBSET Refs) \cup {Unread}]
<1>1. Supers \subseteq Refs
  BY Answering
<1>2. memo' = [memo EXCEPT ![a] = IF Asks(S) THEN Seen(Unread) ELSE Unread]
  BY DEF Resolves, Advanced
<1>3. Seen(Unread) = Supers
  BY DEF Seen
<1>4. ASSUME NEW m, m = Supers \/ m = Unread
      PROVE  [memo EXCEPT ![a] = m] \in [Resolvers -> (SUBSET Refs) \cup {Unread}]
  <2>1. m \in (SUBSET Refs) \cup {Unread}
    BY <1>1, <1>4
  <2> QED BY <2>1
<1>5. (IF Asks(S) THEN Supers ELSE Unread) \in {Supers, Unread}
  OBVIOUS
<1> QED BY <1>2, <1>3, <1>4, <1>5

\* A batch begins with each of its references at one thread at most.
LEMMA Beginning ==
  ASSUME BatchResolverAssumption, TypeOK, inbox = Idle, NEW S \in SUBSET Refs, Begin(S)
  PROVE  /\ flight' \in Flights /\ inbox' \in [Workers -> SUBSET Refs]
         /\ flight'.mode # "pool" => inbox' = Idle
                /\ flight' = [NoFlight EXCEPT !.mode = flight'.mode]
         /\ flight'.mode = "pool" =>
              /\ flight'.done = {} /\ flight'.got = {}
              /\ \A w \in Workers : inbox'[w] \subseteq S
              /\ \A v, w \in Workers : v # w => inbox'[v] \cap inbox'[w] = {}
         /\ S = {} => flight' = NoFlight
         /\ flight' # NoFlight => S # {}
<1> USE DEF NoFlight, Flights
<1>1. CASE pool = "ready" /\ Cardinality(S) = BatchSize
  <2>4. flight' = [NoFlight EXCEPT !.mode = "pool", !.lost = failed]
    BY <1>1 DEF Begin
  <2>1. flight' = [mode |-> "pool", done |-> {}, got |-> {}, lost |-> failed]
        /\ failed \in BOOLEAN
    BY <2>4 DEF TypeOK
  <2>2. S # {}
    BY <1>1, FS_EmptySet DEF BatchResolverAssumption
  <2>3. /\ inbox' \in [Workers -> SUBSET Refs]
        /\ \A w \in Workers : inbox'[w] \subseteq S
        /\ \A v, w \in Workers : v # w => inbox'[v] \cap inbox'[w] = {}
    <3>1. CASE failed
      <4>1. inbox' = Idle
        BY <1>1, <3>1 DEF Begin
      <4> QED BY <4>1 DEF Idle
    <3>2. CASE ~failed
      <4>1. inbox' \in Dealt(S)
        BY <1>1, <3>2 DEF Begin
      <4>2. PICK f \in [S -> Workers] : inbox' = [w \in Workers |-> {r \in S : f[r] = w}]
        BY <4>1 DEF Dealt
      <4> QED BY <4>2
    <3> QED BY <3>1, <3>2
  <2> QED BY <2>1, <2>2, <2>3
<1>2. CASE ~(pool = "ready" /\ Cardinality(S) = BatchSize)
  <2>1. inbox' = Idle /\ flight' = IF S = {} THEN NoFlight ELSE [NoFlight EXCEPT !.mode = "seq"]
    BY <1>2 DEF Begin
  <2>2. Idle \in [Workers -> SUBSET Refs]
    BY DEF Idle
  <2> QED BY <2>1, <2>2
<1> QED BY <1>1, <1>2

\* The loop begins with nothing read, posted or deferred.
LEMMA BatchInit == ASSUME BatchResolverAssumption, Init PROVE BInv
<1>1. deferred \in Seq(Refs) /\ Len(deferred) = 0 /\ inbox = Idle
  BY DEF Init
<1>2. Idle \in [Workers -> SUBSET Refs] /\ memo \in [Resolvers -> (SUBSET Refs) \cup {Unread}]
  <2>1. Idle \in [Workers -> SUBSET Refs]
    BY DEF Idle
  <2>2. memo = [a \in Resolvers |-> Unread]
    BY DEF Init
  <2>3. \A m \in {Unread} : m \in (SUBSET Refs) \cup {Unread}
    OBVIOUS
  <2> HIDE DEF Unread
  <2>4. memo \in [Resolvers -> (SUBSET Refs) \cup {Unread}]
    BY <2>2, <2>3
  <2> QED BY <2>1, <2>4
<1>3. crashes \in 0 .. MaxCrashes
  BY DEF Init, BatchResolverAssumption
<1>4. TypeOK
  BY <1>1, <1>2, <1>3 DEF Init, TypeOK, NoFlight, Engaged
<1>5. RowsOutliveTheirEdges /\ Covered /\ Posted
  BY <1>1 DEF Init, RowsOutliveTheirEdges, Covered, Posted, NoFlight
<1>6. Sorted
  BY <1>1 DEF Sorted, DeferredInOrder
<1>7. AsOneThread
  BY DEF Init, AsOneThread, NoFlight
<1> QED BY <1>4, <1>5, <1>6, <1>7 DEF BInv
-----------------------------------------------------------------------------
\* The types.
LEMMA TypeStep ==
  ASSUME BatchResolverAssumption, TypeOK, Posted, Covered, [Next]_vars
  PROVE  TypeOK'
<1>1. /\ kind \in [Refs -> {"super", "call", "chain"}]
      /\ pending \subseteq Refs /\ parked \subseteq Refs \ pending
      /\ edges \subseteq Refs \X SUBSET Refs /\ result \subseteq Refs \X SUBSET Refs
      /\ pc \in {"start", "read", "settle", "boundary", "persist", "conform", "done"}
      /\ batch \subseteq Refs /\ next \subseteq Refs /\ flight \in Flights
      /\ deferred \in Seq(Refs)
      /\ pool \in {"untried", "declined", "booting", "ready", "gone"} /\ failed \in BOOLEAN
      /\ memo \in [Resolvers -> (SUBSET Refs) \cup {Unread}]
      /\ inbox \in [Workers -> SUBSET Refs]
      /\ pc = "boundary" => inbox = Idle
      /\ crashes \in 0 .. MaxCrashes
  BY DEF TypeOK, Flights
<1>2. Idle \in [Workers -> SUBSET Refs] /\ NoFlight \in Flights /\ Rejected \in Flights
  BY <1>1 DEF Idle, NoFlight, Flights, Rejected
<1>3. Main \in Resolvers /\ Workers \subseteq Resolvers
  BY DEF Resolvers
<1>4. \A m \in Nat : BatchAfter(m) \subseteq Refs
  BY <1>1 DEF BatchAfter
<1> USE DEF Flights
<1>5. CASE Start
  <2>1. inbox = Idle
    BY <1>5 DEF Start, Posted, NoFlight
  <2>2. BatchAfter(0) \subseteq Refs /\ Begin(BatchAfter(0))
    BY <1>4, <1>5 DEF Start
  <2>3. flight' \in Flights /\ inbox' \in [Workers -> SUBSET Refs]
    BY <2>1, <2>2, Beginning
  <2> QED BY <1>1, <1>5, <2>2, <2>3 DEF Start, TypeOK, db
<1>6. CASE Prefetch
  <2>1. BatchAfter(Max(batch)) \subseteq Refs
    BY <1>1 DEF BatchAfter
  <2> QED BY <1>1, <1>6, <2>1 DEF Prefetch, TypeOK, db, poolVars
<1>7. CASE Admit
  <2>1. deferred' \in Seq(Refs)
    <3>1. Deferrals(batch, flight.got) \in Seq(Refs)
      BY <1>1, DeferredSequence
    <3> QED BY <1>1, <1>7, <3>1, Concatenated DEF Admit
  <2>2. inbox = Idle
    <3>1. \A w \in Workers : inbox[w] = {}
      BY <1>7 DEF Admit, Posted, InFlight
    <3> QED BY <1>1, <3>1 DEF Idle
  <2> QED BY <1>1, <1>2, <1>7, <2>1, <2>2 DEF Admit, TypeOK, db, poolVars
<1>8. CASE Sequential
  <2>1. Resolved(Main, batch) \subseteq Refs \X SUBSET Refs
    <3>1. Resolved(Main, batch) \subseteq batch \X SUBSET Refs
      BY <1>1, Answering
    <3> QED BY <1>1, <3>1
  <2>2. memo' \in [Resolvers -> (SUBSET Refs) \cup {Unread}]
    BY <1>1, <1>3, <1>8, Remembering DEF Sequential
  <2>3. deferred' \in Seq(Refs)
    <3>1. Deferrals(batch, Resolved(Main, batch)) \in Seq(Refs)
      BY <1>1, DeferredSequence
    <3> QED BY <1>1, <1>8, <3>1, Concatenated DEF Sequential
  <2>4. inbox' = Idle /\ pool' \in {pool, "gone"}
    BY <1>8 DEF Sequential, Destroyed, Posted, NoFlight
  <2> QED BY <1>1, <1>2, <1>8, <2>1, <2>2, <2>3, <2>4 DEF Sequential, TypeOK, db
<1>9. CASE Boundary
  BY <1>1, <1>9 DEF Boundary, TypeOK, db, Engaged
<1>10. CASE InsertEdges
  BY <1>1, <1>10 DEF InsertEdges, TypeOK, poolVars
<1>11. CASE BeginNext
  <2>1. inbox = Idle
    BY <1>11 DEF BeginNext, Posted, NoFlight
  <2>2. flight' \in Flights /\ inbox' \in [Workers -> SUBSET Refs]
    BY <1>1, <1>11, <2>1, Beginning DEF BeginNext
  <2> QED BY <1>1, <1>11, <2>2 DEF BeginNext, TypeOK, db
<1>12. ASSUME NEW r \in Refs, CleanUp(r) PROVE TypeOK'
  BY <1>1, <1>12 DEF CleanUp, EdgesFirst, TypeOK, poolVars
<1>13. CASE Advance
  BY <1>1, <1>13 DEF Advance, TypeOK, db, poolVars
<1>14. CASE Conform
  <2>1. memo' \in [Resolvers -> (SUBSET Refs) \cup {Unread}]
    <3>1. Unread \in (SUBSET Refs) \cup {Unread}
      OBVIOUS
    <3> HIDE DEF Unread
    <3> QED BY <1>1, <1>14, <3>1 DEF Conform
  <2>2. edges' \subseteq Refs \X SUBSET Refs
    <3>1. Range(deferred) \subseteq Refs
      BY <1>1 DEF Range
    <3>2. Supers \subseteq Refs
      BY <1>1, Answering
    <3> QED BY <1>1, <1>14, <3>1, <3>2 DEF Conform
  <2>3. deferred' \in Seq(Refs) /\ inbox' = Idle
    BY <1>14 DEF Conform
  <2> QED BY <1>1, <1>2, <1>14, <2>1, <2>2, <2>3 DEF Conform, TypeOK
<1>15. ASSUME NEW w \in Workers, Answer(w) PROVE TypeOK'
  <2> DEFINE r == Min(inbox[w])
  <2>1. r \in inbox[w] /\ inbox[w] \subseteq Refs /\ inbox # Idle
    <3>1. inbox[w] \in SUBSET Refs /\ inbox[w] # {}
      BY <1>1, <1>15 DEF Answer
    <3> QED BY <3>1, FirstOf DEF Idle
  <2> HIDE DEF r
  <2>2. /\ Resolves(w, {r})
        /\ flight' = [flight EXCEPT !.done = @ \cup {r}, !.got = @ \cup Resolved(w, {r})]
        /\ inbox' = [inbox EXCEPT ![w] = @ \ {r}]
        /\ UNCHANGED <<kind, db, pc, batch, next, result, deferred, pool, failed, crashes>>
    BY <1>15 DEF Answer, r
  <2>3. {r} \in SUBSET Refs /\ w \in Resolvers
    BY <1>3, <2>1
  <2>4. memo' \in [Resolvers -> (SUBSET Refs) \cup {Unread}]
    BY <1>1, <2>2, <2>3, Remembering
  <2>5. Resolved(w, {r}) \subseteq {r} \X SUBSET Refs
    BY <1>1, <2>3, Answering
  <2>6. flight' \in Flights
    <3>1. Resolved(w, {r}) \subseteq Refs \X SUBSET Refs
      BY <2>3, <2>5
    <3>2. flight.done \cup {r} \in SUBSET Refs
          /\ flight.got \cup Resolved(w, {r}) \in SUBSET (Refs \X SUBSET Refs)
      BY <1>1, <2>3, <3>1
    <3> QED BY <1>1, <2>2, <3>2
  <2>7. inbox' \in [Workers -> SUBSET Refs]
    BY <1>1, <2>2
  <2>8. pc # "boundary"
    BY <1>1, <2>1
  <2> QED BY <1>1, <2>2, <2>4, <2>6, <2>7, <2>8 DEF TypeOK, db
<1>16. ASSUME NEW w \in Workers, ChunkFails(w) PROVE TypeOK'
  <2>1. inbox # Idle
    BY <1>1, <1>16 DEF ChunkFails, Idle
  <2> QED BY <1>1, <1>16, <2>1 DEF ChunkFails, TypeOK, db
<1>17. CASE Boot
  BY <1>1, <1>17 DEF Boot, TypeOK, db
<1>18. CASE Die
  BY <1>1, <1>2, <1>18 DEF Die, TypeOK, db
<1>19. CASE Crash
  <2>1. memo' \in [Resolvers -> (SUBSET Refs) \cup {Unread}]
    <3>1. Unread \in (SUBSET Refs) \cup {Unread} /\ memo' = [a \in Resolvers |-> Unread]
      BY <1>19 DEF Crash
    <3> HIDE DEF Unread
    <3> QED BY <3>1
  <2>2. deferred' \in Seq(Refs) /\ inbox' = Idle /\ crashes' \in 0 .. MaxCrashes
    BY <1>1, <1>19 DEF Crash, BatchResolverAssumption
  <2> QED BY <1>1, <1>2, <1>19, <2>1, <2>2 DEF Crash, TypeOK, db, Engaged
<1>20. CASE UNCHANGED vars
  BY <1>1, <1>20 DEF vars, TypeOK, db, poolVars
<1> QED
  BY <1>5, <1>6, <1>7, <1>8, <1>9, <1>10, <1>11, <1>12, <1>13, <1>14, <1>15, <1>16, <1>17,
     <1>18, <1>19, <1>20 DEF Next, Loop, Threads

\* A row leaves the queue after its edge.
LEMMA RowStep ==
  ASSUME RowsOutliveTheirEdges, [Next]_vars
  PROVE  RowsOutliveTheirEdges'
<1>1. CASE UNCHANGED db
  BY <1>1 DEF db, RowsOutliveTheirEdges
<1>2. CASE InsertEdges \/ Conform
  <2>1. pending' = pending /\ parked' = parked /\ edges \subseteq edges'
    BY <1>2 DEF InsertEdges, Conform
  <2> QED BY <2>1 DEF RowsOutliveTheirEdges
<1>3. ASSUME NEW r \in Refs, CleanUp(r) PROVE RowsOutliveTheirEdges'
  BY <1>3 DEF CleanUp, EdgesFirst, RowsOutliveTheirEdges
<1> QED
  BY <1>1, <1>2, <1>3 DEF Next, Loop, Threads, Start, Prefetch, Admit, Sequential, Boundary,
     BeginNext, Advance, Answer, ChunkFails, Boot, Die, Crash, vars, db

\* What is pending beside the batch.
LEMMA CoverStep ==
  ASSUME BatchResolverAssumption, TypeOK, Covered, [Next]_vars
  PROVE  Covered'
<1>1. /\ pending \subseteq Refs /\ batch \subseteq Refs /\ next \subseteq Refs
      /\ \A r \in Refs : r \in Nat /\ r > 0
  BY DEF TypeOK, Refs
<1>2. {q \in pending : q > 0} = pending
  BY <1>1
<1>3. /\ BatchAfter(0) \subseteq pending
      /\ pending # {} => BatchAfter(0) # {}
      /\ \A p \in BatchAfter(0), q \in pending \ BatchAfter(0) : p < q
  <2>1. 0 \in Nat
    OBVIOUS
  <2> QED BY <1>1, <1>2, <2>1, ReadAhead
<1>4. ASSUME batch # {}
      PROVE  Max(batch) \in batch /\ Max(batch) \in Nat /\ \A r \in batch : r <= Max(batch)
  BY <1>1, <1>4, LastOf
<1>5. CASE Start
  <2>1. pc' \in {"read", "conform"} /\ (pc' = "conform" <=> pending = {})
        /\ batch' = BatchAfter(0) /\ pending' = pending
    BY <1>5 DEF Start, db
  <2> QED BY <1>3, <2>1 DEF Covered
<1>6. CASE Prefetch
  BY <1>6 DEF Prefetch, db, Covered, BatchAfter
<1>7. CASE Admit \/ Sequential \/ Boundary \/ InsertEdges \/ BeginNext
  <2>1. /\ pc \in {"settle", "boundary", "persist"} /\ pc' \in {"boundary", "persist"}
        /\ pc' = "boundary" => pc = "settle"
        /\ UNCHANGED <<pending, batch, next>>
    BY <1>7 DEF Admit, Sequential, Boundary, InsertEdges, BeginNext, db
  <2>2. BatchAfter(Max(batch))' = BatchAfter(Max(batch))
    BY <2>1 DEF BatchAfter
  <2> QED BY <2>1, <2>2 DEF Covered
<1>8. ASSUME NEW r \in Refs, CleanUp(r) PROVE Covered'
  <2>1. /\ pc = "persist" /\ pc' = pc /\ r \in batch /\ pending' = pending \ {r}
        /\ batch' = batch /\ next' = next
    BY <1>8 DEF CleanUp, EdgesFirst
  <2>2. {q \in pending : q > Max(batch)} = {q \in pending' : q > Max(batch)}
    BY <1>1, <1>4, <2>1
  <2>3. BatchAfter(Max(batch))' = BatchAfter(Max(batch))
    <3>1. \A L : L = {q \in pending : q > Max(batch)} =>
             BatchAfter(Max(batch)) = {q \in L : Cardinality({p \in L : p <= q}) <= BatchSize}
      BY DEF BatchAfter
    <3>2. \A L : L = {q \in pending' : q > Max(batch)} =>
             BatchAfter(Max(batch))' = {q \in L : Cardinality({p \in L : p <= q}) <= BatchSize}
      BY <2>1 DEF BatchAfter
    <3> QED BY <2>2, <3>1, <3>2
  <2> QED BY <2>1, <2>3 DEF Covered
<1>9. CASE Advance
  <2>1. /\ pc = "persist" /\ batch \cap pending = {} /\ batch' = next /\ pending' = pending
        /\ pc' = IF next # {} THEN "read" ELSE "conform"
    BY <1>9 DEF Advance, EdgesFirst, GoesOn, db
  <2>2. /\ batch # {} /\ \A r \in batch, q \in pending : r < q
        /\ next = BatchAfter(Max(batch))
    BY <2>1 DEF Covered
  <2> DEFINE L == {q \in pending : q > Max(batch)}
  <2>3. L = pending
    BY <1>1, <1>4, <2>2
  <2>4. /\ next \subseteq L /\ (L # {} => next # {})
        /\ \A p \in next, q \in L \ next : p < q
    <3> HIDE DEF L
    <3>1. L = {q \in pending : q > Max(batch)} /\ Max(batch) \in Nat
      BY <1>4, <2>2 DEF L
    <3> QED BY <1>1, <2>2, <3>1, ReadAhead
  <2> QED BY <2>1, <2>3, <2>4 DEF Covered
<1>10. CASE Conform
  BY <1>10 DEF Conform, Covered
<1>11. CASE Crash
  BY <1>11 DEF Crash, Covered
<1>12. CASE UNCHANGED <<pending, pc, batch, next>>
  BY <1>12 DEF Covered, BatchAfter
<1> QED
  BY <1>5, <1>6, <1>7, <1>8, <1>9, <1>10, <1>11, <1>12 DEF Next, Loop, Threads, Answer,
     ChunkFails, Boot, Die, vars, db

\* The order of what is deferred.
LEMMA SortStep ==
  ASSUME BatchResolverAssumption, TypeOK, Covered, Sorted, [Next]_vars
  PROVE  Sorted'
<1>1. /\ pending \subseteq Refs /\ batch \subseteq Refs /\ Refs \in SUBSET Nat
      /\ deferred \in Seq(Refs)
  BY DEF TypeOK, Refs
<1>2. ASSUME NEW R, pc = "settle", pc' = "boundary", pending' = pending, batch' = batch,
             deferred' = deferred \o Deferrals(batch, R)
      PROVE  Sorted'
  <2>1. PICK d \in Seq(Refs) : d = Deferrals(batch, R) /\ Range(d) \subseteq batch
          /\ \A i, j \in 1 .. Len(d) : i < j => d[i] < d[j]
    BY <1>1, DeferredSequence
  <2>2. \A i \in 1 .. Len(d) : d[i] \in batch
    BY <2>1 DEF Range
  <2>3. /\ \A i, j \in 1 .. Len(deferred) : i < j => deferred[i] < deferred[j]
        /\ \A i \in 1 .. Len(deferred), q \in pending : deferred[i] < q
        /\ batch \subseteq pending /\ \A r \in batch, q \in pending \ batch : r < q
    BY <1>2 DEF Sorted, DeferredInOrder, Covered
  <2>4. \A i \in 1 .. Len(deferred), j \in 1 .. Len(d) : deferred[i] < d[j]
    BY <2>2, <2>3
  <2>5. PICK c : c = deferred' /\ c = deferred \o d
    BY <1>2, <2>1
  <2>6. /\ c \in Seq(Refs) /\ Range(c) = Range(deferred) \cup Range(d)
        /\ \A i, j \in 1 .. Len(c) : i < j => c[i] < c[j]
    <3>1. Rising(deferred) /\ Rising(d) /\ Below(deferred, d)
      BY <2>1, <2>3, <2>4 DEF Rising, Below
    <3>2. c \in Seq(Refs) /\ Range(c) = Range(deferred) \cup Range(d) /\ Rising(c)
      <4>1. Refs \in SUBSET Nat /\ deferred \in Seq(Refs) /\ d \in Seq(Refs)
            /\ c = deferred \o d
        BY <1>1, <2>5
      <4>2. c \in Seq(Refs)
        BY <3>1, <4>1, Appended
      <4>3. Joined(c, deferred, d)
        BY <3>1, <4>1, Appended
      <4>4. Rising(c)
        BY <3>1, <4>1, Appended
      <4> QED BY <4>2, <4>3, <4>4 DEF Joined
    <3> QED BY <3>2 DEF Rising
  <2>7. ASSUME NEW i \in 1 .. Len(c), NEW q \in pending \ batch PROVE c[i] < q
    <3>1. c[i] \in Range(c)
      BY <2>6 DEF Range
    <3>2. c[i] \in batch \/ \E j \in 1 .. Len(deferred) : c[i] = deferred[j]
      <4>1. c[i] \in Range(deferred) \/ c[i] \in batch
        BY <2>1, <2>6, <3>1
      <4>2. DOMAIN deferred = 1 .. Len(deferred)
        BY <1>1
      <4> QED BY <4>1, <4>2 DEF Range
    <3> QED BY <2>3, <3>2
  <2> QED BY <1>2, <2>5, <2>6, <2>7 DEF Sorted, DeferredInOrder
<1>3. CASE Admit
  BY <1>2, <1>3 DEF Admit, db
<1>4. CASE Sequential
  BY <1>2, <1>4 DEF Sequential, db
<1>5. CASE Conform \/ Crash
  <2>1. Len(deferred') = 0
    BY <1>5 DEF Conform, Crash
  <2> QED BY <2>1 DEF Sorted, DeferredInOrder
<1>6. ASSUME NEW r \in Refs, CleanUp(r) PROVE Sorted'
  BY <1>6 DEF CleanUp, EdgesFirst, Sorted, DeferredInOrder
<1>7. CASE Advance
  BY <1>7 DEF Advance, EdgesFirst, GoesOn, db, Sorted, DeferredInOrder
<1>8. CASE Start \/ Prefetch \/ Boundary
  BY <1>8 DEF Start, Prefetch, Boundary, db, Sorted, DeferredInOrder
<1>9. CASE UNCHANGED <<deferred, pending, pc, batch>>
  BY <1>9 DEF Sorted, DeferredInOrder
<1> QED
  BY <1>3, <1>4, <1>5, <1>6, <1>7, <1>8, <1>9 DEF Next, Loop, Threads, InsertEdges, BeginNext,
     Answer, ChunkFails, Boot, Die, vars, db

\* What the threads have.
LEMMA PostStep ==
  ASSUME BatchResolverAssumption, TypeOK, Posted, Covered, [Next]_vars
  PROVE  Posted'
<1>1. /\ batch \subseteq Refs /\ next \subseteq Refs /\ flight \in Flights
      /\ inbox \in [Workers -> SUBSET Refs] /\ result \subseteq Refs \X SUBSET Refs
  BY DEF TypeOK, Flights
<1>2. [NoFlight EXCEPT !.mode = NoFlight.mode] = NoFlight /\ NoFlight.mode # "pool"
  BY DEF NoFlight
<1>3. ASSUME inbox' = Idle, flight' = NoFlight, pc' # "persist" PROVE Posted'
  BY <1>2, <1>3 DEF Posted, Idle, NoFlight
<1>4. CASE Start
  <2>1. BatchAfter(0) \in SUBSET Refs /\ Begin(BatchAfter(0)) /\ batch' = BatchAfter(0)
        /\ inbox = Idle /\ pc' = IF pending = {} THEN "conform" ELSE "read"
    BY <1>4 DEF Start, Posted, NoFlight, BatchAfter, TypeOK
  <2> DEFINE S == BatchAfter(0)
  <2>2. pc' = "conform" => S = {}
    BY <2>1 DEF BatchAfter
  <2> HIDE DEF S
  <2>3. S \in SUBSET Refs /\ Begin(S)
    BY <2>1 DEF S
  <2>4. /\ flight'.mode # "pool" => inbox' = Idle
           /\ flight' = [NoFlight EXCEPT !.mode = flight'.mode]
        /\ flight'.mode = "pool" =>
             /\ flight'.done = {}
             /\ \A w \in Workers : inbox'[w] \subseteq S
             /\ \A v, w \in Workers : v # w => inbox'[v] \cap inbox'[w] = {}
        /\ S = {} => flight' = NoFlight
    BY <2>1, <2>3, Beginning
  <2>5. pc' \in {"conform", "read"} /\ InFlight' = S
    BY <2>1 DEF InFlight, S
  <2> QED BY <2>2, <2>4, <2>5 DEF Posted, Idle
<1>5. CASE BeginNext
  <2>1. next \in SUBSET Refs /\ Begin(next) /\ inbox = Idle /\ pc = "persist" /\ AllIn
        /\ UNCHANGED <<pc, batch, next, result, edges>>
    BY <1>1, <1>5 DEF BeginNext, Posted, NoFlight, db
  <2>2. /\ flight'.mode # "pool" => inbox' = Idle
           /\ flight' = [NoFlight EXCEPT !.mode = flight'.mode]
        /\ flight'.mode = "pool" =>
             /\ flight'.done = {}
             /\ \A w \in Workers : inbox'[w] \subseteq next
             /\ \A v, w \in Workers : v # w => inbox'[v] \cap inbox'[w] = {}
    BY <2>1, Beginning
  <2>3. InFlight' = next /\ next # {}
    BY <1>5, <2>1 DEF InFlight, BeginNext
  <2> QED BY <2>1, <2>2, <2>3 DEF Posted, Idle, AllIn
<1>6. CASE Prefetch
  BY <1>6 DEF Prefetch, Posted, InFlight, db, poolVars, AllIn
<1>7. CASE Admit
  <2>1. \A w \in Workers : inbox[w] = {}
    BY <1>7 DEF Admit, Posted, InFlight
  <2>2. inbox = Idle
    BY <1>1, <2>1 DEF Idle
  <2> QED BY <1>3, <1>7, <2>2 DEF Admit, poolVars
<1>8. CASE Sequential
  <2>1. inbox' = Idle
    BY <1>8 DEF Sequential, Destroyed, Posted, NoFlight
  <2> QED BY <1>3, <1>8, <2>1 DEF Sequential
<1>9. CASE Boundary
  BY <1>9 DEF Boundary, Posted, db, NoFlight
<1>10. CASE InsertEdges
  BY <1>10 DEF InsertEdges, Posted, InFlight, AllIn, poolVars
<1>11. ASSUME NEW r \in Refs, CleanUp(r) PROVE Posted'
  BY <1>11 DEF CleanUp, EdgesFirst, Posted, InFlight, AllIn, poolVars
<1>12. CASE Advance
  <2>1. pc = "persist" /\ batch' = next /\ flight' = flight /\ inbox' = inbox
    BY <1>12 DEF Advance, EdgesFirst, poolVars
  <2>4. pc' = IF next # {} THEN "read" ELSE "conform"
    BY <1>12 DEF Advance, GoesOn
  <2>2. InFlight = next /\ InFlight' = next
    BY <2>1, <2>4 DEF InFlight
  <2>3. next = {} => flight = NoFlight
    BY <2>1 DEF Posted
  <2> QED BY <2>1, <2>2, <2>3, <2>4 DEF Posted, Idle
<1>13. CASE Conform
  <2>1. flight = NoFlight
    BY <1>13 DEF Conform, Posted
  <2> QED BY <1>3, <1>13, <2>1 DEF Conform
<1>14. CASE Crash
  BY <1>3, <1>14 DEF Crash
<1>15. ASSUME NEW w \in Workers, Answer(w) PROVE Posted'
  <2> DEFINE r == Min(inbox[w])
  <2>1. r \in inbox[w] /\ inbox[w] \subseteq Refs /\ inbox # Idle
    <3>1. inbox[w] \in SUBSET Refs /\ inbox[w] # {}
      BY <1>1, <1>15 DEF Answer
    <3> QED BY <3>1, FirstOf DEF Idle
  <2> HIDE DEF r
  <2>2. /\ flight' = [flight EXCEPT !.done = @ \cup {r}, !.got = @ \cup Resolved(w, {r})]
        /\ inbox' = [inbox EXCEPT ![w] = @ \ {r}]
        /\ UNCHANGED <<edges, pc, batch, next, result>>
    BY <1>15 DEF Answer, r, db
  <2>3. flight.mode = "pool" /\ flight # NoFlight
    BY <1>2, <2>1 DEF Posted
  <2>4. flight'.mode = "pool" /\ flight'.done = flight.done \cup {r}
    BY <1>1, <2>2, <2>3 DEF Flights
  <2>5. InFlight' = InFlight /\ AllIn' = AllIn
    BY <2>2 DEF InFlight, AllIn
  <2>6. \A v \in Workers : inbox'[v] = IF v = w THEN inbox[w] \ {r} ELSE inbox[v]
    BY <1>1, <2>2
  <2>7. /\ flight.done \subseteq InFlight
        /\ \A v \in Workers : inbox[v] \subseteq InFlight \ flight.done
        /\ \A u, v \in Workers : u # v => inbox[u] \cap inbox[v] = {}
        /\ pc \notin {"start", "boundary", "conform", "done"}
        /\ pc = "persist" => AllIn
    BY <2>3 DEF Posted
  <2>8. /\ flight'.done \subseteq InFlight'
        /\ \A v \in Workers : inbox'[v] \subseteq InFlight' \ flight'.done
        /\ \A u, v \in Workers : u # v => inbox'[u] \cap inbox'[v] = {}
    BY <2>1, <2>4, <2>5, <2>6, <2>7
  <2>9. pc = "persist" => next # {}
    BY <2>3 DEF Posted
  <2> QED BY <2>2, <2>4, <2>5, <2>7, <2>8, <2>9 DEF Posted
<1>16. ASSUME NEW w \in Workers, ChunkFails(w) PROVE Posted'
  <2>1. /\ flight' = [flight EXCEPT !.lost = TRUE] /\ inbox # Idle
        /\ UNCHANGED <<edges, pc, batch, next, result>>
    BY <1>1, <1>16 DEF ChunkFails, db, Idle
  <2>2. flight.mode = "pool" /\ flight # NoFlight
    BY <1>2, <2>1 DEF Posted
  <2>3. flight'.mode = "pool" /\ flight'.done = flight.done
    BY <1>1, <2>1, <2>2 DEF Flights
  <2>4. \A v \in Workers : inbox'[v] \subseteq inbox[v]
    BY <1>1, <1>16 DEF ChunkFails
  <2>5. InFlight' = InFlight /\ AllIn' = AllIn
    BY <2>1 DEF InFlight, AllIn
  <2>6. /\ flight.done \subseteq InFlight
        /\ \A v \in Workers : inbox[v] \subseteq InFlight \ flight.done
        /\ \A u, v \in Workers : u # v => inbox[u] \cap inbox[v] = {}
        /\ pc \notin {"start", "boundary", "conform", "done"}
        /\ pc = "persist" => AllIn
    BY <2>2 DEF Posted
  <2>7. \A u, v \in Workers : u # v => inbox'[u] \cap inbox'[v] = {}
    BY <2>4, <2>6
  <2>8. pc = "persist" => next # {}
    BY <2>2 DEF Posted
  <2> QED BY <2>1, <2>3, <2>4, <2>5, <2>6, <2>7, <2>8 DEF Posted
<1>17. CASE Die
  <2>1. inbox' = Idle /\ UNCHANGED <<edges, pc, batch, next, result>>
        /\ flight' = IF flight.mode = "pool" THEN [flight EXCEPT !.lost = TRUE] ELSE flight
    BY <1>17 DEF Die, Rejected, db
  <2>2. flight'.mode = flight.mode /\ flight'.done = flight.done
    BY <1>1, <2>1 DEF Flights
  <2>3. InFlight' = InFlight /\ AllIn' = AllIn
    BY <2>1 DEF InFlight, AllIn
  <2>4. flight.mode # "pool" => flight' = flight
    BY <2>1
  <2>5. flight.mode = "pool" => pc \notin {"start", "boundary", "conform", "done"}
    BY <1>2 DEF Posted
  <2>6. pc = "persist" /\ next = {} => flight' = NoFlight
    BY <1>2, <2>4 DEF Posted
  <2> QED BY <2>1, <2>2, <2>3, <2>4, <2>5, <2>6 DEF Posted, Idle
<1>18. CASE Boot
  BY <1>18 DEF Boot, Posted, InFlight, AllIn, db
<1>19. CASE UNCHANGED vars
  BY <1>19 DEF vars, Posted, InFlight, AllIn, db, poolVars
<1> QED
  BY <1>4, <1>5, <1>6, <1>7, <1>8, <1>9, <1>10, <1>11, <1>12, <1>13, <1>14, <1>15, <1>16,
     <1>17, <1>18, <1>19 DEF Next, Loop, Threads
-----------------------------------------------------------------------------
\* What is settled of two sets is what is settled of each; and the batches of
\* a project follow one another.
LEMMA Portions ==
  ASSUME BatchResolverAssumption
  PROVE  /\ \A S, T : Settled(S \cup T) = Settled(S) \cup Settled(T)
         /\ \A S, T : Late(S \cup T) = Late(S) \cup Late(T)
         /\ Settled({}) = {} /\ Late({}) = {}
         /\ \A k \in Nat : Upto(k + 1) = Upto(k) \cup Nth(k)
         /\ \A k \in Nat : From(k) \ Nth(k) = From(k + 1)
         /\ \A k \in Nat : From(k) = {} => Upto(k) = Refs
         /\ Upto(0) = {} /\ From(0) = Refs
<1>1. \A r \in Refs : Block(r) \in Nat
  BY Blocks
<1>2. /\ \A k \in Nat : Upto(k + 1) = Upto(k) \cup Nth(k)
      /\ \A k \in Nat : From(k) \ Nth(k) = From(k + 1)
      /\ \A k \in Nat : From(k) = {} => Upto(k) = Refs
      /\ Upto(0) = {} /\ From(0) = Refs
  BY <1>1 DEF Upto, From, Nth
<1>3. ASSUME NEW S, NEW T PROVE Settled(S \cup T) = Settled(S) \cup Settled(T)
  BY DEF Settled
<1>4. /\ \A S, T : Late(S \cup T) = Late(S) \cup Late(T)
      /\ Settled({}) = {} /\ Late({}) = {}
  BY DEF Late, Settled
<1> QED BY <1>2, <1>3, <1>4

\* Whoever is given a part of a batch, once those before it are settled, answers
\* as one thread would, and the rest of it is deferred.
LEMMA Settling ==
  ASSUME BatchResolverAssumption, NEW k \in Nat, edges = Settled(Upto(k)),
         NEW S \in SUBSET Nth(k), NEW a
  PROVE  Resolved(a, S) = Settled(S)
<1>1. \A e : e \in edges <=> \E r \in Upto(k) : Bound(r) /\ e = EdgeOf(r)
  BY DEF Settled
<1>2. Supers = {s \in AllSupers : Block(s) < k}
  <2>1. ASSUME NEW s \in Supers PROVE s \in AllSupers /\ Block(s) < k
    <3>1. PICK e \in edges : kind[e[1]] = "super" /\ s = e[1]
      BY DEF Supers
    <3>2. PICK r \in Upto(k) : Bound(r) /\ e = EdgeOf(r)
      BY <1>1, <3>1
    <3> QED BY <3>1, <3>2 DEF EdgeOf, AllSupers, Upto
  <2>2. ASSUME NEW s \in AllSupers, Block(s) < k PROVE s \in Supers
    <3>1. s \in Upto(k) /\ Bound(s) /\ kind[s] = "super"
      BY <2>2 DEF AllSupers, Upto, Bound
    <3>2. EdgeOf(s) \in edges /\ EdgeOf(s)[1] = s
      BY <1>1, <3>1 DEF EdgeOf
    <3> QED BY <3>1, <3>2 DEF Supers
  <2> QED BY <2>1, <2>2
<1>3. \A r \in S : Before(r) = Supers
  BY <1>2 DEF Before, Nth, Block
<1>4. Seen(Unread) = Supers
  BY DEF Seen
<1>5. Resolved(a, S) = {<<r, IF kind[r] = "super" THEN {} ELSE Supers>> :
                          r \in {q \in S : kind[q] = "chain" => Supers # {}}}
  BY <1>4 DEF Resolved, Advanced, Answers
<1>6. Settled(S) = {<<r, IF kind[r] = "super" THEN {} ELSE Before(r)>> :
                      r \in {q \in S : kind[q] = "chain" => Before(q) # {}}}
  BY DEF Settled, EdgeOf, Bound
<1> QED BY <1>3, <1>5, <1>6

\* What is deferred of a list settled as one thread settles it is what is late in it.
LEMMA Deferring ==
  ASSUME NEW S, NEW R, R = Settled(S)
  PROVE  {r \in S : kind[r] = "chain" /\ r \notin {e[1] : e \in R}} = Late(S)
<1>1. ASSUME NEW r \in S PROVE r \in {e[1] : e \in R} <=> Bound(r)
  <2>1. ASSUME NEW e \in R, e[1] = r PROVE Bound(r)
    BY <2>1 DEF Settled, EdgeOf
  <2>2. ASSUME Bound(r) PROVE \E e \in R : e[1] = r
    <3>1. EdgeOf(r) \in R /\ EdgeOf(r)[1] = r
      BY <2>2 DEF Settled, EdgeOf
    <3> QED BY <3>1
  <2> QED BY <2>1, <2>2
<1> QED BY <1>1 DEF Late, Bound

\* At the end what is left is bound by the supertypes of the whole project.
LEMMA Conforming ==
  ASSUME kind \in [Refs -> {"super", "call", "chain"}], edges = Settled(Refs)
  PROVE  edges \cup {<<r, Supers>> : r \in {q \in Late(Refs) : Supers # {}}} = Expected
<1>1. Supers = AllSupers
  <2>1. ASSUME NEW s \in Supers PROVE s \in AllSupers
    BY DEF Supers, Settled, EdgeOf, AllSupers
  <2>2. ASSUME NEW s \in AllSupers PROVE s \in Supers
    <3>1. EdgeOf(s) \in edges /\ EdgeOf(s)[1] = s /\ kind[s] = "super"
      BY DEF AllSupers, Settled, Bound, EdgeOf
    <3> QED BY <3>1 DEF Supers
  <2> QED BY <2>1, <2>2
<1>2. \A r \in Refs : Before(r) \subseteq AllSupers
  BY DEF Before
<1> DEFINE Final(r) == <<r, CASE kind[r] = "super" -> {}
                              [] kind[r] = "chain" /\ Before(r) = {} -> AllSupers
                              [] OTHER -> Before(r)>>
<1>3. Expected = {Final(r) : r \in {q \in Refs : kind[q] = "chain" => AllSupers # {}}}
  BY DEF Expected
<1>4. \A r \in Refs : Bound(r) => Final(r) = EdgeOf(r) /\ (kind[r] = "chain" => AllSupers # {})
  BY <1>2 DEF Bound, EdgeOf
<1>5. \A r \in Late(Refs) : kind[r] = "chain" /\ Final(r) = <<r, AllSupers>>
  BY DEF Late, Bound
<1>6. \A r \in Refs : r \in Late(Refs) <=> ~Bound(r)
  BY DEF Late
<1> HIDE DEF Final
<1>7. \A e : e \in edges <=> \E r \in Refs : Bound(r) /\ e = EdgeOf(r)
  BY DEF Settled
<1>8. Late(Refs) \subseteq Refs
  BY DEF Late
<1>9. ASSUME NEW e
      PROVE  e \in edges \cup {<<r, AllSupers>> : r \in {q \in Late(Refs) : AllSupers # {}}}
                         <=> e \in Expected
  <2>1. ASSUME e \in edges PROVE e \in Expected
    BY <1>3, <1>4, <1>7, <2>1
  <2>2. ASSUME NEW r \in Late(Refs), AllSupers # {}, e = <<r, AllSupers>> PROVE e \in Expected
    BY <1>3, <1>5, <1>8, <2>2
  <2>3. ASSUME NEW r \in Refs, kind[r] = "chain" => AllSupers # {}, e = Final(r)
        PROVE  e \in edges \/ (r \in Late(Refs) /\ AllSupers # {} /\ e = <<r, AllSupers>>)
    <3>1. CASE Bound(r)
      BY <1>4, <1>7, <2>3, <3>1
    <3>2. CASE ~Bound(r)
      BY <1>5, <1>6, <2>3, <3>2
    <3> QED BY <3>1, <3>2
  <2> QED BY <1>3, <2>1, <2>2, <2>3
<1> QED BY <1>1, <1>9

\* So what the loop has deferred grows by the late ones of the list.
LEMMA DeferredRange ==
  ASSUME BatchResolverAssumption, NEW S \in SUBSET Refs, NEW R, R = Settled(S),
         deferred \in Seq(Refs), NEW c, c = deferred \o Deferrals(S, R)
  PROVE  Range(c) = Range(deferred) \cup Late(S)
<1>1. PICK d : d = Deferrals(S, R)
  OBVIOUS
<1>2. d \in Seq(Refs)
  BY <1>1, DeferredSequence
<1>3. Range(d) = {r \in S : kind[r] = "chain" /\ r \notin {e[1] : e \in R}}
  BY <1>1, DeferredSequence
<1>4. Range(d) = Late(S)
  BY <1>3, Deferring
<1>5. Joined(c, deferred, d)
  BY <1>1, <1>2, BothRanges
<1> QED BY <1>4, <1>5 DEF Joined

\* What is read from a queue that starts at a batch is that batch.
LEMMA Aligned ==
  ASSUME BatchResolverAssumption, NEW k \in Nat, NEW m,
         {q \in pending : q > m} = From(k)
  PROVE  BatchAfter(m) = Nth(k)
BY AlignedBatch DEF BatchAfter

\* The graph is the one that one thread builds.
LEMMA AlignStep ==
  ASSUME BatchResolverAssumption, TypeOK, Covered, Covered', Posted, AsOneThread, [Next]_vars
  PROVE  AsOneThread'
<1> SUFFICES ASSUME crashes' = 0, ~Crash PROVE AsOneThread'
  <2>1. Crash => crashes' # 0
    BY DEF Crash, TypeOK, BatchResolverAssumption
  <2> QED BY <2>1 DEF AsOneThread
<1>1. /\ kind \in [Refs -> {"super", "call", "chain"}]
      /\ pending \subseteq Refs /\ deferred \in Seq(Refs)
      /\ batch \subseteq Refs /\ next \subseteq Refs /\ flight \in Flights
      /\ \A r \in Refs : r \in Nat /\ r > 0
  BY DEF TypeOK, Flights, Refs
<1>2. crashes = 0 /\ kind' = kind
  BY DEF Next, Loop, Threads, Start, Prefetch, Admit, Sequential, Boundary, InsertEdges,
         BeginNext, CleanUp, Advance, Conform, Answer, ChunkFails, Boot, Die, vars
<1>3. /\ \A S : Settled(S)' = Settled(S) /\ Late(S)' = Late(S)
      /\ Expected' = Expected
  BY <1>2 DEF Settled, Late, EdgeOf, Bound, Before, AllSupers, Expected
<1>4. /\ pc = "start" => pending = Refs /\ edges = {} /\ deferred = <<>>
      /\ pc \in {"read", "settle", "boundary", "persist"} => \E k \in Nat : AtBatch(k)
      /\ pc = "conform" => edges = Settled(Refs) /\ Range(deferred) = Late(Refs)
      /\ pc = "done" => edges = Expected
      /\ flight.mode = "pool" => flight.got = Settled(flight.done)
  BY <1>2 DEF AsOneThread
<1>5. ASSUME flight'.mode = "pool" => flight'.got = Settled(flight'.done),
             pc' = "start" => pending' = Refs /\ edges' = {} /\ deferred' = <<>>,
             pc' \in {"read", "settle", "boundary", "persist"} => \E k \in Nat : AtBatch(k)',
             pc' = "conform" => edges' = Settled(Refs) /\ Range(deferred') = Late(Refs),
             pc' = "done" => edges' = Expected
      PROVE  AsOneThread'
  <2>1. Settled(flight.done)' = Settled(flight'.done)
    BY <1>2 DEF Settled, EdgeOf, Bound, Before, AllSupers
  <2> QED BY <1>3, <1>5, <2>1 DEF AsOneThread
<1>6. ASSUME UNCHANGED <<pending, edges, pc, batch, next, result, deferred>>,
             flight'.mode = "pool" => flight'.got = Settled(flight'.done)
      PROVE  AsOneThread'
  <2>1. \A k \in Nat : AtBatch(k) => AtBatch(k)'
    BY <1>3, <1>6 DEF AtBatch
  <2> QED BY <1>4, <1>5, <1>6, <2>1
<1>7. CASE Start
  <2>0. pending = Refs /\ edges = {} /\ deferred = <<>>
    BY <1>4, <1>7 DEF Start
  <2>1. /\ batch' = BatchAfter(0) /\ Begin(BatchAfter(0))
        /\ pc' = IF pending = {} THEN "conform" ELSE "read"
        /\ pending' = pending /\ edges' = edges /\ deferred' = deferred
    BY <1>7 DEF Start, db
  <2>7. 0 \in Nat
    OBVIOUS
  <2>2. BatchAfter(0) = Nth(0)
    <3>1. {q \in pending : q > 0} = From(0)
      BY <1>1, <2>0, Portions
    <3> QED BY <2>7, <3>1, Aligned
  <2>3. flight'.mode = "pool" => flight'.got = Settled(flight'.done)
    <3>1. inbox = Idle
      BY <1>7 DEF Start, Posted, NoFlight
    <3>2. BatchAfter(0) \in SUBSET Refs
      BY <1>1 DEF BatchAfter
    <3>3. flight'.mode = "pool" => flight'.done = {} /\ flight'.got = {}
      BY <2>1, <3>1, <3>2, Beginning
    <3> QED BY <3>3, Portions
  <2>4. edges' = Settled(Upto(0)) /\ Range(deferred') = Late(Upto(0))
    <3>1. Range(deferred) = {}
      <4>1. DOMAIN deferred = {}
        BY <2>0
      <4> QED BY <4>1 DEF Range
    <3> QED BY <2>0, <2>1, <3>1, Portions
  <2>5. pc' = "read" => AtBatch(0)'
    <3>1. pending' = From(0) /\ From(0) \ Nth(0) = From(0 + 1)
      BY <2>0, <2>1, <2>7, Portions
    <3> QED BY <1>3, <2>1, <2>2, <2>4, <3>1 DEF AtBatch
  <2>6. pc' = "conform" => Refs = Upto(0)
    BY <2>0, <2>1, <2>7, Portions
  <2> QED BY <1>5, <2>1, <2>7, <2>3, <2>4, <2>5, <2>6
<1>8. CASE Prefetch
  <2>1. pc = "read" /\ next' = BatchAfter(Max(batch)) /\ pc' = "settle"
        /\ UNCHANGED <<pending, edges, batch, result, flight, deferred>>
    BY <1>8 DEF Prefetch, db
  <2>2. PICK k \in Nat : AtBatch(k)
    BY <1>4, <2>1
  <2>3. {q \in pending : q > Max(batch)} = From(k + 1)
    <3>1. batch # {} /\ \A r \in batch, q \in pending \ batch : r < q
      BY <2>1 DEF Covered
    <3>2. Max(batch) \in batch /\ \A r \in batch : r <= Max(batch)
      BY <1>1, <3>1, LastOf
    <3>3. {q \in pending : q > Max(batch)} = pending \ batch
      BY <1>1, <3>1, <3>2
    <3> QED BY <2>2, <3>3 DEF AtBatch
  <2>4. next' = Nth(k + 1)
    BY <2>1, <2>3, Aligned
  <2>5. AtBatch(k)'
    BY <1>3, <2>1, <2>2, <2>4 DEF AtBatch
  <2> QED BY <1>4, <1>5, <2>1, <2>5
<1>9. ASSUME NEW R, pc = "settle", pc' = "boundary", result' = R, R = Settled(batch),
             deferred' = deferred \o Deferrals(batch, R), flight' = NoFlight,
             UNCHANGED <<pending, edges, batch, next>>
      PROVE  AsOneThread'
  <2>1. PICK k \in Nat : AtBatch(k)
    BY <1>4, <1>9
  <2>2. PICK c : c = deferred'
    OBVIOUS
  <2>3. Range(c) = Range(deferred) \cup Late(batch)
    BY <1>1, <1>9, <2>2, DeferredRange
  <2>4. Range(deferred') = Late(Upto(k + 1))
    <3>1. Range(deferred) = Late(Upto(k)) /\ batch = Nth(k)
      BY <1>9, <2>1 DEF AtBatch
    <3>2. Late(Upto(k + 1)) = Late(Upto(k)) \cup Late(Nth(k))
      BY Portions
    <3> QED BY <2>2, <2>3, <3>1, <3>2
  <2>5. AtBatch(k)'
    BY <1>3, <1>9, <2>1, <2>4 DEF AtBatch
  <2>6. flight'.mode # "pool"
    BY <1>9 DEF NoFlight
  <2> QED BY <1>5, <1>9, <2>5, <2>6
<1>10. CASE Admit
  <2>1. flight.got = Settled(batch)
    BY <1>4, <1>10 DEF Admit
  <2> QED BY <1>9, <1>10, <2>1 DEF Admit, db
<1>11. CASE Sequential
  <2>1. PICK k \in Nat : AtBatch(k)
    BY <1>4, <1>11 DEF Sequential
  <2>2. batch \in SUBSET Nth(k) /\ edges = Settled(Upto(k))
    BY <1>11, <2>1 DEF AtBatch, Sequential
  <2>3. Resolved(Main, batch) = Settled(batch)
    BY <2>2, Settling
  <2> QED BY <1>9, <1>11, <2>3 DEF Sequential, db
<1>12. CASE Boundary
  <2>1. pc = "boundary" /\ pc' = "persist"
        /\ UNCHANGED <<pending, edges, batch, next, result, flight, deferred>>
    BY <1>12 DEF Boundary, db
  <2>2. PICK k \in Nat : AtBatch(k)
    BY <1>4, <2>1
  <2>3. Settled(Upto(k)) \subseteq Settled(Upto(k + 1))
    BY Portions
  <2>4. AtBatch(k)'
    BY <1>3, <2>1, <2>2, <2>3 DEF AtBatch
  <2> QED BY <1>4, <1>5, <2>1, <2>4
<1>13. CASE InsertEdges
  <2>1. pc = "persist" /\ pc' = "persist" /\ UNCHANGED <<pending, batch, next, result, flight,
        deferred>>
    BY <1>13 DEF InsertEdges
  <2>2. edges \subseteq edges' /\ edges' \subseteq edges \cup result
    BY <1>13 DEF InsertEdges
  <2>3. PICK k \in Nat : AtBatch(k)
    BY <1>4, <2>1
  <2>4. result = Settled(Nth(k)) /\ Settled(Nth(k)) \subseteq Settled(Upto(k + 1))
    BY <2>1, <2>3, Portions DEF AtBatch
  <2>5. AtBatch(k)'
    BY <1>3, <2>1, <2>2, <2>3, <2>4 DEF AtBatch
  <2> QED BY <1>4, <1>5, <2>1, <2>5
<1>14. CASE BeginNext
  <2>1. next \in SUBSET Refs /\ inbox = Idle /\ Begin(next)
        /\ UNCHANGED <<pending, edges, pc, batch, next, result, deferred>>
    BY <1>1, <1>14 DEF BeginNext, Posted, NoFlight, db
  <2>2. flight'.mode = "pool" => flight'.done = {} /\ flight'.got = {}
    BY <2>1, Beginning
  <2> QED BY <1>6, <2>1, <2>2, Portions
<1>15. ASSUME NEW r \in Refs, CleanUp(r) PROVE AsOneThread'
  <2>1. pc = "persist" /\ pending' = pending \ {r} /\ r \in batch
        /\ UNCHANGED <<edges, pc, batch, next, result, flight, deferred>>
    BY <1>15 DEF CleanUp, EdgesFirst
  <2>2. PICK k \in Nat : AtBatch(k)
    BY <1>4, <2>1
  <2>3. pending' \ batch = pending \ batch
    BY <2>1
  <2>4. AtBatch(k)'
    BY <1>3, <2>1, <2>2, <2>3 DEF AtBatch
  <2> QED BY <1>4, <1>5, <2>1, <2>4
<1>16. CASE Advance
  <2>1. /\ pc = "persist" /\ result \subseteq edges /\ batch \cap pending = {} /\ batch' = next
        /\ next' = {} /\ pc' = IF next # {} THEN "read" ELSE "conform"
        /\ pending' = pending /\ edges' = edges /\ flight' = flight /\ deferred' = deferred
    BY <1>16 DEF Advance, EdgesFirst, GoesOn, db
  <2>2. PICK k \in Nat : AtBatch(k)
    BY <1>4, <2>1
  <2>3. edges = Settled(Upto(k + 1)) /\ Range(deferred) = Late(Upto(k + 1))
    <3>1. Settled(Upto(k + 1)) = Settled(Upto(k)) \cup Settled(Nth(k))
      BY Portions
    <3> QED BY <2>1, <2>2, <3>1 DEF AtBatch
  <2>4. pending = From(k + 1) /\ next = Nth(k + 1) /\ From(k + 1) \ Nth(k + 1) = From(k + 1 + 1)
    <3>1. pending = From(k + 1) /\ next = Nth(k + 1)
      BY <2>1, <2>2 DEF AtBatch
    <3>2. k + 1 \in Nat
      OBVIOUS
    <3> QED BY <3>1, <3>2, Portions
  <2>5. pc' = "read" => AtBatch(k + 1)'
    BY <1>3, <2>1, <2>3, <2>4 DEF AtBatch
  <2>6. pc' = "conform" => Upto(k + 1) = Refs
    <3>1. pc' = "conform" => pending' = {}
      BY DEF Covered
    <3>2. k + 1 \in Nat
      OBVIOUS
    <3> QED BY <2>1, <2>4, <3>1, <3>2, Portions
  <2> QED BY <1>4, <1>5, <2>1, <2>3, <2>5, <2>6
<1>17. CASE Conform
  <2>1. edges = Settled(Refs) /\ Range(deferred) = Late(Refs) /\ flight = NoFlight
        /\ edges' = edges \cup {<<r, Supers>> : r \in {q \in Range(deferred) : Supers # {}}}
        /\ pc' = "done" /\ flight' = flight
    BY <1>4, <1>17 DEF Conform, Posted
  <2>2. edges' = Expected
    BY <1>1, <2>1, Conforming
  <2> QED BY <1>5, <2>1, <2>2 DEF NoFlight
<1>18. ASSUME NEW w \in Workers, Answer(w) PROVE AsOneThread'
  <2> DEFINE r == Min(inbox[w])
  <2>1. r \in inbox[w]
    <3>1. inbox[w] \in SUBSET Refs /\ inbox[w] # {}
      BY <1>18 DEF Answer, TypeOK
    <3> QED BY <3>1, FirstOf
  <2> HIDE DEF r
  <2>2. /\ flight' = [flight EXCEPT !.done = @ \cup {r}, !.got = @ \cup Resolved(w, {r})]
        /\ UNCHANGED <<pending, edges, pc, batch, next, result, deferred>>
    BY <1>18 DEF Answer, r, db
  <2>3. flight.mode = "pool" /\ flight # NoFlight
    BY <2>1 DEF Posted, Idle, NoFlight
  <2>4. r \in InFlight /\ pc \in {"read", "settle", "persist"} /\ (pc = "persist" => AllIn)
    BY <2>1, <2>3 DEF Posted, TypeOK
  <2>5. PICK k \in Nat : AtBatch(k)
    BY <1>4, <2>4
  <2>6. Resolved(w, {r}) = Settled({r})
    <3>1. CASE pc = "persist"
      <4>1. Settled(Upto(k + 1)) = Settled(Upto(k)) \cup Settled(Nth(k))
        BY Portions
      <4>2. edges = Settled(Upto(k + 1))
        BY <2>4, <2>5, <3>1, <4>1 DEF AtBatch, AllIn
      <4>3. {r} \in SUBSET Nth(k + 1) /\ k + 1 \in Nat
        BY <2>4, <2>5, <3>1 DEF AtBatch, InFlight
      <4> QED BY <4>2, <4>3, Settling
    <3>2. CASE pc \in {"read", "settle"}
      <4>1. edges = Settled(Upto(k)) /\ {r} \in SUBSET Nth(k)
        BY <2>4, <2>5, <3>2 DEF AtBatch, InFlight
      <4> QED BY <4>1, Settling
    <3> QED BY <2>4, <3>1, <3>2
  <2>7. flight'.done = flight.done \cup {r} /\ flight'.got = flight.got \cup Settled({r})
    BY <1>1, <2>2, <2>6 DEF Flights
  <2>8. flight.got = Settled(flight.done)
    BY <1>4, <2>3
  <2>9. flight'.got = Settled(flight'.done)
    BY <2>7, <2>8, Portions
  <2> QED BY <1>6, <2>2, <2>9
<1>19. ASSUME NEW w \in Workers, ChunkFails(w) PROVE AsOneThread'
  <2>1. flight' = [flight EXCEPT !.lost = TRUE]
        /\ UNCHANGED <<pending, edges, pc, batch, next, result, deferred>>
    BY <1>19 DEF ChunkFails, db
  <2>2. flight'.mode = flight.mode /\ flight'.done = flight.done /\ flight'.got = flight.got
    BY <1>1, <2>1 DEF Flights
  <2> QED BY <1>4, <1>6, <2>1, <2>2
<1>20. CASE Die
  <2>1. flight' = IF flight.mode = "pool" THEN [flight EXCEPT !.lost = TRUE] ELSE flight
    BY <1>20 DEF Die, Rejected
  <2>2. flight'.mode = flight.mode /\ flight'.done = flight.done /\ flight'.got = flight.got
    BY <1>1, <2>1 DEF Flights
  <2> QED BY <1>4, <1>6, <1>20, <2>2 DEF Die, db
<1>21. CASE Boot
  BY <1>4, <1>6, <1>21 DEF Boot, db
<1>22. CASE UNCHANGED vars
  BY <1>4, <1>6, <1>22 DEF vars, db
<1> QED
  BY <1>7, <1>8, <1>10, <1>11, <1>12, <1>13, <1>14, <1>15, <1>16, <1>17, <1>18, <1>19, <1>20,
     <1>21, <1>22 DEF Next, Loop, Threads

\* Each step of the loop, the pool and the threads keeps the invariant.
LEMMA BatchStep ==
  ASSUME BatchResolverAssumption, BInv, [Next]_vars
  PROVE  BInv'
<1>1. TypeOK /\ RowsOutliveTheirEdges /\ Covered /\ Posted /\ Sorted /\ AsOneThread
  BY DEF BInv
<1>2. TypeOK' /\ RowsOutliveTheirEdges' /\ Covered' /\ Posted' /\ Sorted'
  BY <1>1, TypeStep, RowStep, CoverStep, PostStep, SortStep
<1>3. AsOneThread'
  BY <1>1, <1>2, AlignStep
<1> QED BY <1>2, <1>3 DEF BInv

\* What the loop promises follows from the invariant.
LEMMA BatchPromises ==
  ASSUME BatchResolverAssumption, BInv
  PROVE  /\ TypeOK /\ RowsOutliveTheirEdges /\ NothingIsAbandoned /\ DeferredInOrder
         /\ SameGraphWhoeverResolves
<1>1. /\ kind \in [Refs -> {"super", "call", "chain"}]
      /\ pc \in {"start", "read", "settle", "boundary", "persist", "conform", "done"}
  BY DEF BInv, TypeOK
<1>2. Settled(Refs) \subseteq Expected
  <2>1. \A r \in Refs : Bound(r) => EdgeOf(r) \in Expected
    <3>1. \A r \in Refs : Before(r) \subseteq AllSupers
      BY DEF Before
    <3> QED BY <1>1, <3>1 DEF Bound, EdgeOf, Expected
  <2> QED BY <2>1 DEF Settled
<1>3. \A k \in Nat : Settled(Upto(k)) \subseteq Settled(Refs)
  BY DEF Settled, Upto
<1>4. ASSUME crashes = 0 PROVE edges \subseteq Expected /\ (pc = "done" => edges = Expected)
  <2>1. ASSUME NEW k \in Nat, AtBatch(k), pc \in {"read", "settle", "boundary", "persist"}
        PROVE  edges \subseteq Settled(Upto(k)) \/ edges \subseteq Settled(Upto(k + 1))
    BY <2>1 DEF AtBatch
  <2>2. \A k \in Nat : k + 1 \in Nat
    OBVIOUS
  <2> QED BY <1>1, <1>2, <1>3, <1>4, <2>1, <2>2 DEF BInv, AsOneThread
<1> QED
  BY <1>1, <1>4 DEF BInv, Covered, Sorted, NothingIsAbandoned, SameGraphWhoeverResolves

\* Whoever resolves, whatever fails and wherever the process dies.
THEOREM BatchIsRight ==
  ASSUME BatchResolverAssumption
  PROVE  Spec => [](TypeOK /\ RowsOutliveTheirEdges /\ NothingIsAbandoned /\ DeferredInOrder
                    /\ SameGraphWhoeverResolves)
<1>1. Init => BInv
  BY BatchInit
<1>2. BInv /\ [Next]_vars => BInv'
  BY BatchStep
<1>3. BInv => TypeOK /\ RowsOutliveTheirEdges /\ NothingIsAbandoned /\ DeferredInOrder
                    /\ SameGraphWhoeverResolves
  BY BatchPromises
<1> QED BY <1>1, <1>2, <1>3, PTL DEF Spec
=============================================================================
