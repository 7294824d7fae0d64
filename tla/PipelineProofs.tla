--------------------------- MODULE PipelineProofs ---------------------------
(* Theorems about a full index: the pipeline, the synthesis, the valve, and  *)
(* what is proved of the parse pool and of resolution, for any numbers of    *)
(* files, parses, references, passes and frames, and any windows.            *)
EXTENDS Pipeline, FiniteSetTheorems, TLAPS

ParseProofs == INSTANCE ParsePoolProofs WITH
       Threads <- ParseThreads,
       pool <- pPool, thread <- pThread, mail <- pMail, gone <- pGone
RefProofs == INSTANCE BatchProofs WITH
       kind <- bKind, pending <- bPending, parked <- bParked, edges <- bEdges, pc <- bPc,
       batch <- bBatch, next <- bNext, result <- bResult, flight <- bFlight,
       deferred <- bDeferred, pool <- bPool, failed <- bFailed, inbox <- bInbox,
       memo <- bMemo, crashes <- bCrashes

-----------------------------------------------------------------------------
(* The pipeline.                                                            *)

\* The file that a flush awaits the writer for is past the cursor and not yet
\* counted.
Awaited == IF storing = "none" THEN 0 ELSE 1

\* Until a flush has failed, a file the loop has gone past is counted, awaited,
\* or between the cursor and nextSeq.
Counted ==
  ~flushError => indexed + skipped + errored + Awaited + (nextSeq - cursor) = taken

\* Past the loop, every file has been taken; past the flushes, committed.
Committed ==
  /\ pc \in {"settling", "draining", "retrying", "done"} => taken = Files
  /\ pc \in {"draining", "retrying", "done"} =>
       nextSeq = cursor /\ storing = "none" /\ ~flushError

\* A bundle is only lost with an error, and the writer is closed when it has
\* none left.
Applied ==
  /\ lost => firstError
  /\ pc \in {"retrying", "done"} => ~lost /\ queue = 0

\* The loop only goes on when there is room for one more.
Bounded == nextSeq - cursor <= (IF pc = "feeding" THEN Window - 1 ELSE Window)

IInv == TypeOK /\ Counted /\ Committed /\ Applied /\ Bounded

\* Indexing begins with nothing taken.
LEMMA IndexInit == Init => IInv
<1> SUFFICES ASSUME Init PROVE IInv
  OBVIOUS
<1>1. 0 .. 0 - 1 = {}
  OBVIOUS
<1>2. TypeOK
  <2>1. taken \in 0 .. Files /\ nextSeq \in 0 .. taken /\ cursor \in 0 .. nextSeq
        /\ retryable \in Nat /\ errored \in Int
    BY IndexingAssumption DEF Init
  <2>2. inFlight \cup completed = cursor .. nextSeq - 1 /\ inFlight \cap completed = {}
    BY <1>1 DEF Init
  <2> QED BY <2>1, <2>2 DEF Init, TypeOK
<1>3. Counted /\ Committed /\ Applied /\ Bounded
  BY IndexingAssumption DEF Init, Counted, Awaited, Committed, Applied, Bounded
<1> QED BY <1>2, <1>3 DEF IInv

\* The steps of the loop over the files.
LEMMA LoopSteps ==
  ASSUME IInv, PassOver \/ Feed \/ RoomFree \/ Abort PROVE IInv'
<1> USE IndexingAssumption DEF IInv, TypeOK, Counted, Awaited, Committed, Applied,
      Bounded, Ended, writerVars, commitVars, countVars, parseVars
<1>1. CASE PassOver
  BY <1>1 DEF PassOver, NextFile
<1>2. CASE Feed
  <2>1. inFlight' \cup completed' = cursor' .. nextSeq' - 1
    <3>1. cursor .. nextSeq = (cursor .. nextSeq - 1) \cup {nextSeq}
      OBVIOUS
    <3> QED BY <1>2, <3>1 DEF Feed, NextFile
  <2>2. inFlight' \cap completed' = {}
    <3>1. nextSeq \notin cursor .. nextSeq - 1
      OBVIOUS
    <3> QED BY <1>2, <3>1 DEF Feed, NextFile
  <2> QED BY <1>2, <2>1, <2>2 DEF Feed, NextFile
<1>3. CASE RoomFree
  BY <1>3 DEF RoomFree, Fits
<1>4. CASE Abort
  BY <1>4 DEF Abort
<1> QED BY <1>1, <1>2, <1>3, <1>4

\* Parses settle and flushes commit.
LEMMA CommitSteps == ASSUME IInv, Parses \/ Flush PROVE IInv'
<1> USE IndexingAssumption DEF IInv, TypeOK, Counted, Awaited, Committed, Applied,
      Bounded, Ended, writerVars, commitVars, countVars, parseVars
<1>1. CASE Parses
  <2> PICK s \in inFlight : Settle(s)
    BY <1>1 DEF Parses
  <2>1. inFlight' \cup completed' = inFlight \cup completed /\ inFlight' \cap completed' = {}
    BY DEF Settle, Untrack
  <2> QED BY <2>1 DEF Settle, Untrack
<1>2. ASSUME CommitNext, UNCHANGED inFlight, UNCHANGED nextSeq
      PROVE  /\ cursor \in 0 .. nextSeq - 1 /\ cursor' = cursor + 1
             /\ inFlight' \cup completed' = cursor' .. nextSeq' - 1
             /\ inFlight' \cap completed' = {}
             /\ storing = "none" /\ ~flushError
             /\ pc \notin {"draining", "retrying", "done"}
  <2>1. cursor \in cursor .. nextSeq - 1
    BY <1>2 DEF CommitNext
  <2>2. (cursor .. nextSeq - 1) \ {cursor} = cursor + 1 .. nextSeq - 1
    BY <2>1
  <2>3. cursor \notin inFlight
    BY <1>2 DEF CommitNext
  <2> QED BY <1>2, <2>1, <2>2, <2>3 DEF CommitNext
<1>3. CASE CommitFailure
  BY <1>2, <1>3 DEF CommitFailure, MayBeRetried
<1>4. ASSUME NEW kind \in {"indexed", "skipped"}, CommitResult(kind) PROVE IInv'
  BY <1>2, <1>4 DEF CommitResult
<1>5. CASE CommitThrows
  <2>1. TypeOK'
    <3>1. cursor' \in 0 .. nextSeq' /\ flushError' /\ ~flushing'
          /\ UNCHANGED <<pc, signal, taken, nextSeq, storing, outstanding, queue,
                         firstError, lost, indexed, skipped, errored, retryable>>
      BY <1>2, <1>5 DEF CommitThrows
    <3>2. inFlight' \cup completed' = cursor' .. nextSeq' - 1 /\ inFlight' \cap completed' = {}
      BY <1>2, <1>5 DEF CommitThrows
    <3> QED BY <1>5, <3>1, <3>2 DEF CommitThrows
  <2>4. Counted'
    BY <1>5 DEF CommitThrows
  <2>2. Committed' /\ Applied'
    BY <1>2, <1>5 DEF CommitThrows
  <2>3. Bounded'
    BY <1>2, <1>5 DEF CommitThrows
  <2> QED BY <2>1, <2>2, <2>3, <2>4
<1>6. CASE Stored
  BY <1>6 DEF Stored, MayBeRetried
<1>7. CASE FlushEnds
  BY <1>7 DEF FlushEnds
<1> QED BY <1>1, <1>3, <1>4, <1>5, <1>6, <1>7 DEF Flush, Commit

\* The writer answers or dies.
LEMMA WriterSteps == ASSUME IInv, Writer PROVE IInv'
<1> USE IndexingAssumption DEF IInv, TypeOK, Counted, Awaited, Committed, Applied,
      Bounded, Ended, WriterOpen, SettleOne, commitVars, countVars, parseVars
<1>1. CASE Ack
  BY <1>1 DEF Ack
<1>2. CASE BundleFails
  BY <1>2 DEF BundleFails, IsTheAck
<1>3. CASE WriterGone
  BY <1>3 DEF WriterGone
<1> QED BY <1>1, <1>2, <1>3 DEF Writer

\* indexAll winds up.
LEMMA EndSteps ==
  ASSUME IInv, AllFed \/ AllSettled \/ Drained \/ Retry \/ Return \/ Signal PROVE IInv'
<1> USE IndexingAssumption DEF IInv, TypeOK, Counted, Awaited, Committed, Applied,
      Bounded, Ended, writerVars, commitVars, countVars, parseVars
<1>1. CASE AllFed
  BY <1>1 DEF AllFed
<1>2. CASE AllSettled
  <2>1. ~flushError => nextSeq = cursor
    BY <1>2 DEF AllSettled, Flushed
  <2> QED BY <1>2, <2>1 DEF AllSettled, Flushed
<1>3. CASE Drained
  BY <1>3 DEF Drained, DrainRejects
<1>4. CASE Retry
  BY <1>4 DEF Retry, Recount
<1>5. CASE Return
  BY <1>5 DEF Return
<1>6. CASE Signal
  BY <1>6 DEF Signal
<1> QED BY <1>1, <1>2, <1>3, <1>4, <1>5, <1>6

\* The invariant holds throughout.
LEMMA IndexInv == Spec => []IInv
<1>1. IInv /\ UNCHANGED vars => IInv'
  BY DEF vars, IInv, TypeOK, Counted, Awaited, Committed, Applied, Bounded,
         writerVars, commitVars, countVars, parseVars
<1>2. IInv /\ [Next]_vars => IInv'
  BY <1>1, LoopSteps, CommitSteps, WriterSteps, EndSteps DEF Next, Main
<1> QED BY IndexInit, <1>2, PTL DEF Spec

\* What indexing holds in memory is bounded by the window, for any window.
THEOREM MemoryIsBounded == Spec => []WindowIsBounded
<1>1. IInv => WindowIsBounded
  BY IndexingAssumption DEF IInv, TypeOK, Bounded, WindowIsBounded
<1> QED BY <1>1, IndexInv, PTL

\* An index that returns accounts for each file, for any number of
\* files, any outcomes of their parses and retries, and any order of events.
THEOREM NothingGoesUncounted == Spec => []FilesAreAccounted
<1>1. IInv => FilesAreAccounted
  BY DEF IInv, TypeOK, Counted, Awaited, Committed, FilesAreAccounted
<1> QED BY <1>1, IndexInv, PTL

\* An index that succeeds has had all its bundles applied.
THEOREM NothingIsLost == Spec => []SuccessMeansStored
<1>1. IInv => SuccessMeansStored
  BY DEF IInv, Applied, SuccessMeansStored
<1> QED BY <1>1, IndexInv, PTL

-----------------------------------------------------------------------------
(* The least and the greatest of a finite set of numbers.                   *)

\* The members of a finite set of numbers are ranked.
LEMMA Ranked ==
  ASSUME NEW T \in SUBSET Nat, IsFiniteSet(T),
         NEW R, R = [i \in T |-> Cardinality({h \in T : h <= i})]
  PROVE  /\ R \in [T -> 1 .. Cardinality(T)]
         /\ \A i, j \in T : i < j => R[i] < R[j]
         /\ \A r \in 1 .. Cardinality(T) : \E i \in T : R[i] = r
<1> DEFINE Upto(i) == {h \in T : h <= i}
<1>1. Cardinality(T) \in Nat
  BY FS_CardinalityType
<1>2. \A i \in T : IsFiniteSet(Upto(i)) /\ Cardinality(Upto(i)) \in 1 .. Cardinality(T)
  <2> SUFFICES ASSUME NEW i \in T
               PROVE  IsFiniteSet(Upto(i)) /\ Cardinality(Upto(i)) \in 1 .. Cardinality(T)
    OBVIOUS
  <2>1. Upto(i) \in SUBSET T /\ i \in Upto(i)
    OBVIOUS
  <2>2. IsFiniteSet(Upto(i)) /\ Cardinality(Upto(i)) <= Cardinality(T)
    BY <2>1, FS_Subset
  <2>3. Cardinality(Upto(i)) \in Nat /\ Cardinality(Upto(i)) # 0
    BY <2>1, <2>2, FS_CardinalityType, FS_EmptySet
  <2> QED BY <1>1, <2>2, <2>3
<1>3. R \in [T -> 1 .. Cardinality(T)]
  BY <1>2
<1>4. \A i, j \in T : i < j => R[i] < R[j]
  <2> SUFFICES ASSUME NEW i \in T, NEW j \in T, i < j PROVE R[i] < R[j]
    OBVIOUS
  <2>1. i \in Nat /\ j \in Nat /\ \A h \in T : h \in Nat
    OBVIOUS
  <2>2. j \in Upto(j) /\ j \notin Upto(i)
    BY <2>1
  <2>3. Upto(i) \in SUBSET Upto(j)
    <3>1. \A h \in T : h <= i => h <= j
      BY <2>1
    <3> QED BY <3>1
  <2>4. Cardinality(Upto(i)) <= Cardinality(Upto(j))
        /\ Cardinality(Upto(i)) # Cardinality(Upto(j))
    BY <1>2, <2>2, <2>3, FS_Subset
  <2> QED BY <1>2, <2>4
<1>5. R \in Injection(T, 1 .. Cardinality(T))
  <2>1. \A i, j \in T : R[i] = R[j] => i = j
    BY <1>3, <1>4
  <2> QED BY <1>3, <2>1 DEF Injection, IsInjective
<1>6. IsFiniteSet(1 .. Cardinality(T)) /\ Cardinality(1 .. Cardinality(T)) = Cardinality(T)
  BY <1>1, FS_Interval
<1>7. R \in Surjection(T, 1 .. Cardinality(T))
  BY <1>5, <1>6, FS_Injection
<1> QED BY <1>3, <1>4, <1>7 DEF Surjection

\* It has a least and a greatest member.
LEMMA Extremes ==
  ASSUME NEW T \in SUBSET Nat, IsFiniteSet(T), T # {}
  PROVE  /\ \E m \in T : \A n \in T : m <= n
         /\ \E m \in T : \A n \in T : n <= m
<1> DEFINE R == [i \in T |-> Cardinality({h \in T : h <= i})]
<1>1. Cardinality(T) \in Nat /\ Cardinality(T) # 0
  BY FS_CardinalityType, FS_EmptySet
<1>2. /\ R \in [T -> 1 .. Cardinality(T)]
      /\ \A i, j \in T : i < j => R[i] < R[j]
      /\ \A r \in 1 .. Cardinality(T) : \E i \in T : R[i] = r
  <2> HIDE DEF R
  <2>1. R = [i \in T |-> Cardinality({h \in T : h <= i})]
    BY DEF R
  <2> QED BY <2>1, Ranked
<1> HIDE DEF R
<1>3. PICK l \in T : R[l] = 1
  BY <1>1, <1>2
<1>4. PICK m \in T : R[m] = Cardinality(T)
  BY <1>1, <1>2
<1>5. \A n \in T : l <= n
  <2> SUFFICES ASSUME NEW n \in T, n < l PROVE FALSE
    OBVIOUS
  <2> QED BY <1>1, <1>2, <1>3
<1>6. \A n \in T : n <= m
  <2> SUFFICES ASSUME NEW n \in T, m < n PROVE FALSE
    OBVIOUS
  <2> QED BY <1>1, <1>2, <1>4
<1> QED BY <1>5, <1>6

-----------------------------------------------------------------------------
(* The synthesis.                                                           *)

\* The cardinalities the synthesis speaks of are those of the library's theorems.
LEMMA PassCounts == \A T : S!Cardinality(T) = Cardinality(T)
BY DEF S!Cardinality, Cardinality

\* What pass i makes whenever it runs: the steps for Go are over.
Makes(i) == [ends : sFinds[i], by : {i}, saw : {S!GoEdges}]

\* The steps for Go come first.
GoFirst ==
  /\ sPhase = "contains" => sGoGraph = {}
  /\ sPhase = "implements" => sGoGraph = IF sGo THEN {"contains"} ELSE {}
  /\ sPhase \notin S!GoSteps => sGoGraph = S!GoEdges

\* Until all have returned, nothing is written.
Unwritten ==
  /\ sPhase \in S!GoSteps => \A i \in S!Registry : sAt[i] = "todo"
  /\ sPhase \in S!GoSteps \cup {"passes", "dropped"} => sGraph = {} /\ sMerged = {}

\* A pass that has returned has made its edges, and no other.
Passed ==
  \A i \in S!Registry :
    /\ sOut[i] = IF sAt[i] = "done" THEN Makes(i) ELSE {}
    /\ sAt[i] = "skipped" => sLarge

\* What is written is what was merged.
MergedOnce ==
  /\ sPhase \in {"insert", "done"} =>
       /\ \A i \in S!Registry : sAt[i] \in {"done", "skipped"}
       /\ sMerged = S!FirstWins /\ sGraph \subseteq sMerged
  /\ sPhase = "done" => sMerged \subseteq sGraph

SInv == S!TypeOK /\ GoFirst /\ Unwritten /\ Passed /\ MergedOnce

\* Synthesis begins with no pass run and nothing written.
LEMMA SynthesisInit == ASSUME S!SynthesisAssumption, S!Init PROVE SInv
<1>1. {i \in S!Registry : sAt[i] = "main"} = {}
  BY DEF S!Init
<1>2. S!Cardinality({i \in S!Registry : sAt[i] = "main"}) = 0
  BY <1>1, PassCounts, FS_EmptySet
<1>3. S!TypeOK
  BY <1>2 DEF S!Init, S!TypeOK
<1> QED BY <1>3 DEF S!Init, SInv, GoFirst, Unwritten, Passed, MergedOnce, S!GoSteps

\* The passes that a state without a pool has on the main thread.
LEMMA RunningIsFinite ==
  ASSUME S!SynthesisAssumption, NEW T \in SUBSET S!Registry
  PROVE  IsFiniteSet(T) /\ S!Cardinality(T) \in Nat
<1>1. IsFiniteSet(S!Registry)
  BY FS_Interval DEF S!SynthesisAssumption, S!Registry
<1> QED BY <1>1, PassCounts, FS_Subset, FS_CardinalityType

\* A runner that takes a pass.
LEMMA TakeStep ==
  ASSUME S!SynthesisAssumption, SInv, NEW i \in S!Registry, S!Take(i)
  PROVE  SInv'
<1> DEFINE On == {j \in S!Registry : sAt[j] = "main"}
           Off == {j \in S!Registry : sAt'[j] = "main"}
<1>1. /\ sAt \in [S!Registry -> {"todo", "pool", "rejected", "main", "done", "skipped"}]
      /\ sAt' = [sAt EXCEPT ![i] = CASE sPool = "none" -> "main"
                                   [] sPool = "live" -> "pool"
                                   [] sPool = "failed" -> "rejected"]
      /\ sPool \in {"none", "live", "failed"} /\ sPool' = sPool
      /\ sAt[i] = "todo" /\ sPhase = "passes"
  BY DEF SInv, S!TypeOK, S!Take
<1>2. /\ sAt' \in [S!Registry -> {"todo", "pool", "rejected", "main", "done", "skipped"}]
      /\ \A j \in S!Registry : j # i => sAt'[j] = sAt[j]
      /\ sAt'[i] \in {"pool", "rejected", "main"}
      /\ sPool = "none" => sAt'[i] = "main"
  BY <1>1
<1>3. ASSUME sPool = "none" PROVE S!Cardinality(Off) <= 1
  <2>1. S!Cardinality(S!Running) < 1
    BY <1>3 DEF S!Take, S!AtATime
  <2>2. S!Running = {}
    BY <2>1, RunningIsFinite, PassCounts, FS_EmptySet DEF S!Running
  <2>3. Off = {i}
    BY <1>2, <1>3, <2>2 DEF S!Running
  <2> HIDE DEF Off
  <2>4. Cardinality({i}) = 1
    BY FS_Singleton
  <2> QED BY <2>3, <2>4, PassCounts
<1>4. S!TypeOK'
  BY <1>1, <1>2, <1>3 DEF SInv, S!TypeOK, S!Take, S!project, S!Edges
<1>5. GoFirst' /\ Unwritten' /\ MergedOnce'
  BY <1>1, <1>2 DEF SInv, S!Take, S!project, GoFirst, Unwritten, MergedOnce, S!GoSteps,
     S!GoEdges
<1>6. Passed'
  BY <1>1, <1>2 DEF SInv, S!Take, S!project, Passed, Makes, S!GoEdges
<1> QED BY <1>4, <1>5, <1>6 DEF SInv

\* A pass that returns, or has to go to the main thread, on its own or with all.
LEMMA SettleStep ==
  ASSUME S!SynthesisAssumption, SInv, NEW i \in S!Registry,
         S!Return(i) \/ S!ThrowOnPool(i) \/ S!WorkerDies(i) \/ S!Retry(i)
  PROVE  SInv'
<1> DEFINE On == {j \in S!Registry : sAt[j] = "main"}
           Off == {j \in S!Registry : sAt'[j] = "main"}
<1>1. /\ sAt \in [S!Registry -> {"todo", "pool", "rejected", "main", "done", "skipped"}]
      /\ sOut \in [S!Registry -> SUBSET S!Edges] /\ sCulprits \subseteq S!Registry
      /\ sPool \in {"none", "live", "failed"} /\ sPhase = "passes"
      /\ sFinds \in [S!Registry -> SUBSET Ends] /\ sGo \in BOOLEAN /\ sLarge \in BOOLEAN
      /\ sGoGraph = S!GoEdges /\ sGraph = {} /\ sMerged = {}
      /\ \A j \in S!Registry : sOut[j] = IF sAt[j] = "done" THEN Makes(j) ELSE {}
      /\ \A j \in S!Registry : sAt[j] = "skipped" => sLarge
      /\ sPool = "none" => \A j \in S!Registry : sAt[j] \in {"todo", "main", "done"}
      /\ sPool = "none" => S!Cardinality(On) <= 1
  BY DEF SInv, S!TypeOK, Passed, GoFirst, Unwritten, S!GoSteps, S!Return, S!ThrowOnPool,
         S!WorkerDies, S!Retry
<1>2. S!Made(i) = Makes(i) /\ Makes(i) \subseteq S!Edges
  <2>1. S!Committed = S!GoEdges /\ S!GoEdges \in SUBSET (S!GoSteps \cup Ends)
    BY <1>1 DEF S!Committed, S!GoEdges
  <2>2. sFinds[i] \subseteq Ends
    BY <1>1
  <2> QED BY <2>1, <2>2 DEF S!Made, Makes, S!Edges
<1>3. /\ UNCHANGED <<sFinds, sGo, sLarge, sPhase, sMerged, sGoGraph, sGraph>>
      /\ sPool' \in {"none", "live", "failed"} /\ sCulprits' \subseteq S!Registry
      /\ sAt' \in [S!Registry -> {"todo", "pool", "rejected", "main", "done", "skipped"}]
      /\ sPool' = "none" => sPool = "none" /\ sAt[i] = "main"
             /\ sAt' = [sAt EXCEPT ![i] = "done"]
  BY <1>1 DEF S!Return, S!ThrowOnPool, S!WorkerDies, S!Retry, S!project, S!SkippedAtScale
<1>4. /\ sOut' \in [S!Registry -> SUBSET S!Edges]
      /\ \A j \in S!Registry : sOut'[j] = IF sAt'[j] = "done" THEN Makes(j) ELSE {}
      /\ \A j \in S!Registry : sAt'[j] = "skipped" => sLarge
  <2>1. CASE S!Return(i)
    BY <1>1, <1>2, <2>1 DEF S!Return
  <2>2. CASE S!ThrowOnPool(i) \/ S!WorkerDies(i) \/ S!Retry(i)
    BY <1>1, <2>2 DEF S!ThrowOnPool, S!WorkerDies, S!Retry, S!SkippedAtScale
  <2> QED BY <2>1, <2>2
<1>5. ASSUME sPool' = "none"
      PROVE  (\A j \in S!Registry : sAt'[j] \in {"todo", "main", "done"})
             /\ S!Cardinality(Off) <= 1
  <2>1. \A j \in S!Registry : sAt'[j] = IF j = i THEN "done" ELSE sAt[j]
    BY <1>1, <1>3, <1>5
  <2>2. Off \in SUBSET On /\ On \in SUBSET S!Registry
    BY <2>1
  <2>3. \A j \in S!Registry : sAt'[j] \in {"todo", "main", "done"}
    BY <1>1, <1>3, <1>5, <2>1
  <2>4. S!Cardinality(On) <= 1
    BY <1>1, <1>3, <1>5
  <2> HIDE DEF On, Off
  <2>5. IsFiniteSet(On) /\ S!Cardinality(On) \in Nat
    BY <2>2, RunningIsFinite
  <2>6. IsFiniteSet(Off) /\ S!Cardinality(Off) \in Nat
        /\ S!Cardinality(Off) <= S!Cardinality(On)
    BY <2>2, <2>5, PassCounts, FS_Subset, FS_CardinalityType
  <2> QED BY <2>3, <2>4, <2>5, <2>6
<1>6. S!TypeOK'
  BY <1>1, <1>3, <1>4, <1>5 DEF SInv, S!TypeOK, S!Edges
<1>7. GoFirst' /\ Unwritten' /\ MergedOnce' /\ Passed'
  BY <1>1, <1>3, <1>4 DEF GoFirst, Unwritten, MergedOnce, Passed, Makes, S!GoSteps, S!GoEdges
<1> QED BY <1>6, <1>7 DEF SInv

\* Each step of synthesis keeps the invariant.
LEMMA SynthesisStep == ASSUME S!SynthesisAssumption, SInv, [S!Next]_(S!vars) PROVE SInv'
<1>1. CASE S!GoStep
  BY <1>1 DEF S!GoStep, S!project, SInv, S!TypeOK, GoFirst, Unwritten, Passed, MergedOnce,
          Makes,
              S!GoEdges, S!GoSteps, S!Edges
<1>2. CASE S!Merge
  <2>1. S!FirstWins \subseteq S!Edges
    BY DEF S!FirstWins, S!Flat, SInv, S!TypeOK
  <2>2. S!FirstWins' = S!FirstWins
    BY <1>2 DEF S!Merge, S!FirstWins, S!Flat, S!Registry
  <2> QED
    BY <1>2, <2>1, <2>2 DEF S!Merge, S!project, SInv, S!TypeOK, GoFirst, Unwritten, Passed,
       MergedOnce,
                            Makes, S!GoEdges, S!GoSteps, S!Edges
<1>3. CASE S!Insert
  <2>1. S!FirstWins' = S!FirstWins
    BY <1>3 DEF S!Insert, S!FirstWins, S!Flat, S!Registry
  <2> QED
    BY <1>3, <2>1 DEF S!Insert, S!project, SInv, S!TypeOK, GoFirst, Unwritten, Passed,
       MergedOnce,
                      Makes, S!GoEdges, S!GoSteps, S!Edges
<1>4. ASSUME NEW i \in S!Registry, S!ThrowOnMain(i) PROVE SInv'
  BY <1>4 DEF S!ThrowOnMain, S!project, SInv, S!TypeOK, GoFirst, Unwritten, Passed, MergedOnce,
              Makes, S!GoEdges, S!GoSteps, S!Edges
<1>5. CASE UNCHANGED S!vars
  <2>1. S!FirstWins' = S!FirstWins
    BY <1>5 DEF S!vars, S!FirstWins, S!Flat, S!Registry
  <2> QED
    BY <1>5, <2>1 DEF S!vars, S!project, SInv, S!TypeOK, GoFirst, Unwritten, Passed, MergedOnce,
                      Makes, S!GoEdges, S!GoSteps, S!Edges
<1> QED BY <1>1, <1>2, <1>3, <1>4, <1>5, TakeStep, SettleStep DEF S!Next, S!Settles, S!Fails

\* The first of a set of passes.
LEMMA First ==
  ASSUME S!SynthesisAssumption, NEW I \in SUBSET S!Registry, I # {}
  PROVE  S!Min(I) \in I /\ \A i \in I : S!Min(I) <= i
<1>1. IsFiniteSet(I) /\ I \in SUBSET Nat
  BY RunningIsFinite DEF S!Registry
<1>2. \E m \in I : \A n \in I : m <= n
  BY <1>1, Extremes
<1> QED BY <1>2 DEF S!Min

\* When all have returned, what is merged is what one thread would have made.
LEMMA MergedIsSequential ==
  ASSUME S!SynthesisAssumption, SInv, \A i \in S!Registry : sAt[i] = "done"
  PROVE  S!FirstWins = S!Sequential
<1>1. \A i \in S!Registry : sOut[i] = Makes(i)
  BY DEF SInv, Passed
<1>2. \A i \in S!Registry : i \in Nat
  BY DEF S!Registry
<1> DEFINE Edge(d, i) == [ends |-> d, by |-> i, saw |-> S!GoEdges]
<1>3. \A e : e \in S!Flat <=> \E i \in S!Registry : \E d \in sFinds[i] : e = Edge(d, i)
  <2> SUFFICES ASSUME NEW e
               PROVE  e \in S!Flat <=> \E i \in S!Registry : \E d \in sFinds[i] : e = Edge(d, i)
    OBVIOUS
  <2>1. e \in S!Flat <=> \E i \in S!Registry : e \in Makes(i)
    BY <1>1 DEF S!Flat
  <2>2. ASSUME NEW i \in S!Registry
        PROVE  e \in Makes(i) <=> \E d \in sFinds[i] : e = Edge(d, i)
    BY DEF Makes
  <2> QED BY <2>1, <2>2
<1>4. \A d, i : Edge(d, i).ends = d /\ Edge(d, i).by = i
  OBVIOUS
<1> HIDE DEF Edge
<1>5. ASSUME NEW e \in S!FirstWins PROVE e \in S!Sequential
  <2>1. PICK i \in S!Registry : \E d \in sFinds[i] : e = Edge(d, i)
    BY <1>3, <1>5 DEF S!FirstWins
  <2>7. PICK d \in sFinds[i] : e = Edge(d, i)
    BY <2>1
  <2> DEFINE I == {j \in S!Registry : d \in sFinds[j]}
  <2>2. I \in SUBSET S!Registry /\ i \in I
    OBVIOUS
  <2>3. \A j \in I : i <= j
    <3> SUFFICES ASSUME NEW j \in I PROVE i <= j
      OBVIOUS
    <3>1. Edge(d, j) \in S!Flat
      BY <1>3
    <3> QED BY <1>4, <2>7, <3>1 DEF S!FirstWins
  <2>4. S!Min(I) = i
    <3> HIDE DEF I
    <3>1. S!Min(I) \in I /\ \A j \in I : S!Min(I) <= j
      BY <2>2, First
    <3>2. S!Min(I) <= i /\ i <= S!Min(I) /\ S!Min(I) \in Nat /\ i \in Nat
      BY <1>2, <2>2, <2>3, <3>1
    <3> QED BY <3>2
  <2>5. d \in UNION {sFinds[j] : j \in S!Registry}
    BY <2>7
  <2>6. e = [ends |-> d, by |-> S!Min({j \in S!Registry : d \in sFinds[j]}), saw |-> S!GoEdges]
    BY <2>7, <2>4 DEF Edge
  <2> QED BY <2>5, <2>6 DEF S!Sequential
<1>6. ASSUME NEW e \in S!Sequential PROVE e \in S!FirstWins
  <2>1. PICK d \in UNION {sFinds[j] : j \in S!Registry} :
          e = Edge(d, S!Min({j \in S!Registry : d \in sFinds[j]}))
    BY DEF S!Sequential, Edge
  <2> DEFINE I == {j \in S!Registry : d \in sFinds[j]}
  <2>2. I \in SUBSET S!Registry /\ I # {}
    OBVIOUS
  <2>3. S!Min(I) \in I /\ \A j \in I : S!Min(I) <= j
    <3> HIDE DEF I
    <3> QED BY <2>2, First
  <2>4. e = Edge(d, S!Min(I)) /\ S!Min(I) \in S!Registry /\ d \in sFinds[S!Min(I)]
    BY <2>1, <2>3
  <2>5. e \in S!Flat
    BY <1>3, <2>4
  <2>6. ASSUME NEW f \in S!Flat, f.ends = e.ends PROVE e.by <= f.by
    <3>1. PICK j \in S!Registry : \E c \in sFinds[j] : f = Edge(c, j)
      BY <1>3
    <3>3. PICK c \in sFinds[j] : f = Edge(c, j)
      BY <3>1
    <3>2. c = d /\ j \in I /\ e.by = S!Min(I) /\ f.by = j
      BY <1>4, <2>4, <2>6, <3>3
    <3> QED BY <2>3, <3>2
  <2> QED BY <2>5, <2>6 DEF S!FirstWins
<1> QED BY <1>5, <1>6

\* No edge differs from the sequential run's, and unless the graph is large none is missing.
THEOREM SynthesisIsRight ==
  ASSUME S!SynthesisAssumption PROVE S!Spec => [](S!TypeOK /\ S!SameEdgesHoweverRun)
<1>1. SInv => S!TypeOK /\ S!SameEdgesHoweverRun
  <2> SUFFICES ASSUME SInv PROVE S!SameEdgesHoweverRun
    BY DEF SInv
  <2>1. ASSUME sPhase \in {"insert", "done"}, \A i \in S!Registry : sAt[i] # "skipped"
        PROVE  sGraph \subseteq S!Sequential /\ (sPhase = "done" => sGraph = S!Sequential)
    <3>1. \A i \in S!Registry : sAt[i] = "done"
      BY <2>1 DEF SInv, MergedOnce
    <3> QED BY <2>1, <3>1, MergedIsSequential DEF SInv, MergedOnce
  <2>2. sPhase = "done" /\ ~sLarge => \A i \in S!Registry : sAt[i] # "skipped"
    BY DEF SInv, Passed
  <2> QED BY <2>1, <2>2 DEF S!SameEdgesHoweverRun
<1>2. S!Init => SInv
  BY SynthesisInit
<1>3. SInv /\ [S!Next]_(S!vars) => SInv'
  BY SynthesisStep
<1> QED BY <1>1, <1>2, <1>3, PTL DEF S!Spec

-----------------------------------------------------------------------------
(* The valve.                                                               *)

\* Without a reader or a lack of threads a pause needs one pass, the valve never gives up,
\* and a transaction begins below the cap.
Clear ==
  ~vCrowded =>
    /\ vPin = 0 /\ ~vFutile /\ vGiveUps = 0 /\ vPass \notin {"partial", "null"}
    /\ V!Parked => vPasses = 0
    /\ vSize <= V!FileCap + MaxTransaction
    /\ vPc \in {"writing", "fold"} => vSize <= V!FileCap

\* What a full pass has copied stays copied until the writer goes on.
Folded ==
  /\ vPass \in {"full", "truncate"} => vDone = vLog
  /\ vPc = "drain" /\ vFolded => vDone = vLog
  /\ vFolded => vPc \in {"drain", "done"}
  /\ vPass # "none" => vPasses < MaxPasses
VInv == V!TypeOK /\ Clear /\ Folded /\ vSize <= vFrames

\* The valve begins with the log of an earlier run at most.
LEMMA ValveInit == ASSUME V!WalValveAssumption, V!Init PROVE VInv
<1> USE DEF V!WalValveAssumption
<1>1. vSize \in 0 .. 1 /\ vSize \in 0 .. MaxFrames /\ vLog = vSize /\ vDone \in 0 .. vLog
      /\ vPin = 0
  BY DEF V!Init
<1>2. V!TypeOK
  <2>1. 0 \in 0 .. MaxPasses /\ 0 \in 0 .. MaxFrames /\ 0 \in 0 .. 2 /\ 0 \in 0 .. vLog
        /\ vLog \in 0 .. vSize /\ vSize \in 0 .. MaxFrames /\ vDone \in 0 .. vLog
    BY <1>1
  <2> QED BY <2>1 DEF V!Init, V!TypeOK, V!Found
<1>3. Clear /\ Folded /\ vSize <= vFrames
  BY <1>1 DEF V!Init, Clear, Folded, V!Parked, V!FileCap, V!Soft
<1> QED BY <1>2, <1>3 DEF VInv

\* Each step of readers, the valve and the writer keeps the invariant.
LEMMA ValveStep == ASSUME V!WalValveAssumption, VInv, [V!Next]_(V!vars) PROVE VInv'
<1> USE DEF V!WalValveAssumption, VInv, V!TypeOK, Clear, Folded, V!Found, V!Parked, V!FileCap,
    V!Soft
<1>1. CASE V!ReaderBegins
  <2>1. V!TypeOK'
    BY <1>1 DEF V!ReaderBegins, V!timer, V!pause
  <2>2. Clear'
    BY <1>1 DEF V!ReaderBegins, V!timer, V!pause
  <2>3. Folded' /\ vSize' <= vFrames'
    BY <1>1 DEF V!ReaderBegins, V!timer, V!pause
  <2> QED BY <2>1, <2>2, <2>3
<1>2. CASE V!ReaderEnds
  <2>1. V!TypeOK'
    BY <1>2 DEF V!ReaderEnds, V!timer, V!pause
  <2>2. Clear'
    BY <1>2 DEF V!ReaderEnds, V!timer, V!pause
  <2>3. Folded' /\ vSize' <= vFrames'
    BY <1>2 DEF V!ReaderEnds, V!timer, V!pause
  <2> QED BY <2>1, <2>2, <2>3
<1>3. CASE V!Check
  <2>1. V!TypeOK'
    BY <1>3 DEF V!Check, V!file, V!pause
  <2>2. Clear'
    BY <1>3 DEF V!Check, V!file, V!pause
  <2>3. Folded' /\ vSize' <= vFrames'
    BY <1>3 DEF V!Check, V!file, V!pause
  <2> QED BY <2>1, <2>2, <2>3
<1>4. CASE V!CoolsDown
  <2>1. V!TypeOK'
    BY <1>4 DEF V!CoolsDown, V!file, V!timer
  <2>2. Clear'
    BY <1>4 DEF V!CoolsDown, V!file, V!timer
  <2>3. Folded' /\ vSize' <= vFrames'
    BY <1>4 DEF V!CoolsDown, V!file, V!timer
  <2> QED BY <2>1, <2>2, <2>3
<1>5. ASSUME NEW k \in 1 .. MaxTransaction, V!Commit(k) PROVE VInv'
  BY <1>5 DEF V!Commit, V!StartsOver, V!Larger, V!timer, V!pause
<1>6. V!Copied \in 0 .. vLog /\ (vDone = vLog => V!Copied = vLog)
      /\ (vPin = 0 => V!Copied = vLog)
  BY DEF V!Copied, V!Smaller, V!Larger
<1>7. CASE V!PassRuns
  BY <1>6, <1>7 DEF V!PassRuns, V!Report, V!pause
<1>8. CASE V!OnPass
  BY <1>8 DEF V!OnPass, V!file, V!pause
<1>9. CASE V!BeginPass
  BY <1>9 DEF V!BeginPass, V!file, V!timer
<1>10. CASE V!PauseRuns
  BY <1>6, <1>10 DEF V!PauseRuns, V!Report, V!timer
<1>11. CASE V!Unavailable
  <2>1. V!TypeOK'
    BY <1>11 DEF V!Unavailable, V!Resumes, V!file, V!timer
  <2>2. Clear'
    BY <1>11 DEF V!Unavailable, V!Resumes, V!file, V!timer
  <2>3. Folded' /\ vSize' <= vFrames'
    BY <1>11 DEF V!Unavailable, V!Resumes, V!file, V!timer
  <2> QED BY <2>1, <2>2, <2>3
<1>12. CASE V!Partial
  <2>1. V!TypeOK'
    BY <1>12 DEF V!Partial, V!file, V!timer
  <2>2. Clear'
    BY <1>12 DEF V!Partial, V!file, V!timer
  <2>3. Folded' /\ vSize' <= vFrames'
    BY <1>12 DEF V!Partial, V!file, V!timer
  <2> QED BY <2>1, <2>2, <2>3
<1>13. CASE V!Full
  <2>1. V!TypeOK'
    BY <1>13 DEF V!Full, V!file, V!timer
  <2>2. Clear'
    BY <1>13 DEF V!Full, V!file, V!timer
  <2>3. Folded' /\ vSize' <= vFrames'
    BY <1>13 DEF V!Full, V!file, V!timer
  <2> QED BY <2>1, <2>2, <2>3
<1>14. CASE V!Truncate
  <2>1. V!TypeOK'
    <3>1. vSize' \in 0 .. MaxFrames /\ vLog' \in 0 .. vSize' /\ vDone' \in 0 .. vLog'
          /\ vPin' \in 0 .. vLog'
      BY <1>14 DEF V!Truncate, V!StartsOver
    <3>2. vPc' \in {"writing", "drain"} /\ vFolded' \in BOOLEAN /\ vCrowded' \in BOOLEAN
      BY <1>14 DEF V!Truncate, V!Resumes
    <3>3. /\ vBaseline' = vSize' /\ vInflight' = vInflight /\ vPass' = "none"
             /\ vPasses' = vPasses
          /\ vGiveUps' = 0 /\ vFutile' = FALSE /\ vFrames' = vFrames
      BY <1>14 DEF V!Truncate
    <3>4. 0 \in 0 .. 2
      OBVIOUS
    <3> QED BY <3>1, <3>2, <3>3, <3>4
  <2>2. Clear'
    BY <1>14 DEF V!Truncate, V!StartsOver, V!Resumes
  <2>3. Folded' /\ vSize' <= vFrames'
    BY <1>14 DEF V!Truncate, V!StartsOver, V!Resumes
  <2> QED BY <2>1, <2>2, <2>3
<1>15. CASE V!GiveUp
  <2>1. V!TypeOK'
    <3>1. vGiveUps' \in 0 .. 2 /\ vPasses' \in 0 .. MaxPasses /\ vFutile' \in BOOLEAN
      BY <1>15 DEF V!GiveUp, V!Smaller
    <3>2. vPc' \in {"writing", "drain"} /\ vFolded' \in BOOLEAN
      BY <1>15 DEF V!GiveUp, V!Resumes
    <3> QED BY <1>15, <3>1, <3>2 DEF V!GiveUp, V!file, V!timer
  <2>2. Clear'
    BY <1>15 DEF V!GiveUp, V!Exhausted, V!Smaller, V!Resumes, V!file, V!timer
  <2>3. Folded' /\ vSize' <= vFrames'
    BY <1>15 DEF V!GiveUp, V!Exhausted, V!Smaller, V!Resumes, V!file, V!timer
  <2> QED BY <2>1, <2>2, <2>3
<1>16. CASE V!Backpressure
  BY <1>16 DEF V!Backpressure, V!OverCap, V!Hard, V!Pause, V!file, V!timer
<1>17. CASE V!EndsPhase \/ V!FoldNow \/ V!Drain
  BY <1>17 DEF V!EndsPhase, V!FoldNow, V!Drain, V!Pause, V!file, V!timer, V!pause
<1>18. CASE UNCHANGED V!vars
  BY <1>18 DEF V!vars, V!file, V!timer, V!pause
<1> QED BY <1>1, <1>2, <1>3, <1>4, <1>5, <1>7, <1>8, <1>9, <1>10, <1>11, <1>12, <1>13, <1>14,
    <1>15, <1>16, <1>17, <1>18
    DEF V!Next, V!Checkpoints, V!Writes

\* Unless something was in the way the file stays within a transaction of its cap, and a
\* fold that succeeds has left nothing to copy.
THEOREM LogStaysSmall ==
  ASSUME V!WalValveAssumption PROVE V!Spec
         => [](V!TypeOK /\ V!FileIsBounded /\ V!FoldedMeansFolded)
<1>1. VInv => V!TypeOK /\ V!FileIsBounded /\ V!FoldedMeansFolded
  BY DEF VInv, Clear, Folded, V!FileIsBounded, V!FoldedMeansFolded
<1>2. V!Init => VInv
  BY ValveInit
<1>3. VInv /\ [V!Next]_(V!vars) => VInv'
  BY ValveStep
<1> QED BY <1>1, <1>2, <1>3, PTL DEF V!Spec

-----------------------------------------------------------------------------
(* The five of them.  A behaviour of the index is one of each, and while     *)
(* another is shown it rests.                                                *)

\* A behaviour of the index is one of its pipeline.
LEMMA IndexingBehaves == PipelineSpec => Spec
<1>1. AllInit => Init
  BY DEF AllInit, Parts
<1>2. [AllNext]_allVars => [Next]_vars
  BY DEF AllNext, allVars
<1> QED BY <1>1, <1>2, PTL DEF PipelineSpec, Spec

\* A behaviour of the index is one of its synthesis.
LEMMA SynthesisBehaves == PipelineSpec => S!Spec
<1>1. AllInit => S!Init
  BY DEF AllInit, Parts
<1>2. [AllNext]_allVars => [S!Next]_(S!vars)
  BY DEF AllNext, allVars, sVars, S!vars, S!project
<1> QED BY <1>1, <1>2, PTL DEF PipelineSpec, S!Spec

\* A behaviour of the index is one of its valve.
LEMMA ValveBehaves == PipelineSpec => V!Spec
<1>1. AllInit => V!Init
  BY DEF AllInit, Parts
<1>2. [AllNext]_allVars => [V!Next]_(V!vars)
  BY DEF AllNext, allVars, vVars, V!vars, V!file, V!timer, V!pause
<1> QED BY <1>1, <1>2, PTL DEF PipelineSpec, V!Spec

\* A step of the pool is one of the module the theorems about it are in.
LEMMA ParseNext == P!Next => ParseProofs!Next
BY Zenon DEF P!MaxConcurrentSpawn, ParseProofs!MaxConcurrentSpawn, P!Jobs,
   ParseProofs!Jobs, P!NoJob, ParseProofs!NoJob, P!Nothing, ParseProofs!Nothing,
   P!Queued, ParseProofs!Queued, P!Idle, ParseProofs!Idle, P!Busy, ParseProofs!Busy,
   P!Healthy, ParseProofs!Healthy, P!Settle, ParseProofs!Settle, P!Without,
   ParseProofs!Without, P!Removed, ParseProofs!Removed, P!Clean, ParseProofs!Clean,
   P!Start, ParseProofs!Start, P!Room, ParseProofs!Room, P!Spawned, ParseProofs!Spawned,
   P!SpawnOne, ParseProofs!SpawnOne, P!Monus, ParseProofs!Monus, P!WantedUncapped,
   ParseProofs!WantedUncapped, P!Wanted, ParseProofs!Wanted, P!GrownNever,
   ParseProofs!GrownNever, P!Grown, ParseProofs!Grown, P!Dispatched,
   ParseProofs!Dispatched, P!Stranded, ParseProofs!Stranded, P!Unstranded,
   ParseProofs!Unstranded, P!Drained, ParseProofs!Drained, P!BecomesPool,
   ParseProofs!BecomesPool, P!Terminates, ParseProofs!Terminates, P!EventsAfter,
   ParseProofs!EventsAfter, P!RequestParse, ParseProofs!RequestParse, P!RecycleAll,
   ParseProofs!RecycleAll, P!Destroy, ParseProofs!Destroy, P!OnLoaded,
   ParseProofs!OnLoaded, P!Returned, ParseProofs!Returned, P!OnResult,
   ParseProofs!OnResult, P!OnWorkerGone, ParseProofs!OnWorkerGone, P!OnTimeout,
   ParseProofs!OnTimeout, P!HardKillAndKeep, ParseProofs!HardKillAndKeep, P!HardKill,
   ParseProofs!HardKill, P!OnHardTimeout, ParseProofs!OnHardTimeout, P!Load,
   ParseProofs!Load, P!Parse, ParseProofs!Parse, P!Die, ParseProofs!Die, P!Call,
   ParseProofs!Call, P!Event, ParseProofs!Event, P!MainThread, ParseProofs!MainThread,
   P!Next, ParseProofs!Next, P!Min, ParseProofs!Min, P!Cardinality,
   ParseProofs!Cardinality

\* A behaviour of the index is one of its pool.
LEMMA PoolBehaves == PipelineSpec => ParseProofs!Spec
<1>1. AllInit => ParseProofs!Init
  BY DEF AllInit, Parts, P!Init, ParseProofs!Init, P!Nothing, ParseProofs!Nothing, P!NoJob,
         ParseProofs!NoJob, P!Jobs, ParseProofs!Jobs
<1>2. [AllNext]_allVars => [ParseProofs!Next]_(ParseProofs!vars)
  BY ParseNext DEF AllNext, allVars, pVars, ParseProofs!vars
<1> QED BY <1>1, <1>2, PTL DEF PipelineSpec, ParseProofs!Spec

\* A step of resolution is one of the module the theorems about it are in.
LEMMA RefNext == B!Next => RefProofs!Next
BY Zenon DEF B!Refs, RefProofs!Refs, B!Main, RefProofs!Main, B!Unread, RefProofs!Unread,
   B!db, RefProofs!db, B!poolVars, RefProofs!poolVars, B!NoFlight, RefProofs!NoFlight,
   B!Resolvers, RefProofs!Resolvers, B!Idle, RefProofs!Idle, B!Engaged,
   RefProofs!Engaged, B!Supers, RefProofs!Supers, B!Advanced, RefProofs!Advanced,
   B!Seen, RefProofs!Seen, B!Asks, RefProofs!Asks, B!Answers, RefProofs!Answers,
   B!Deferrals, RefProofs!Deferrals, B!Resolved, RefProofs!Resolved, B!Resolves,
   RefProofs!Resolves, B!Dealt, RefProofs!Dealt, B!Begin, RefProofs!Begin, B!Boot,
   RefProofs!Boot, B!Answer, RefProofs!Answer, B!ChunkFails, RefProofs!ChunkFails,
   B!Rejected, RefProofs!Rejected, B!Die, RefProofs!Die, B!BatchAfter,
   RefProofs!BatchAfter, B!Start, RefProofs!Start, B!Prefetch, RefProofs!Prefetch,
   B!Admit, RefProofs!Admit, B!Destroyed, RefProofs!Destroyed, B!Sequential,
   RefProofs!Sequential, B!Boundary, RefProofs!Boundary, B!InsertEdges,
   RefProofs!InsertEdges, B!AllIn, RefProofs!AllIn, B!BeginNext, RefProofs!BeginNext,
   B!BeforeTheirEdges, RefProofs!BeforeTheirEdges, B!EdgesFirst, RefProofs!EdgesFirst,
   B!CleanUp, RefProofs!CleanUp, B!GoesOn, RefProofs!GoesOn, B!Advance,
   RefProofs!Advance, B!Conform, RefProofs!Conform, B!Crash, RefProofs!Crash, B!Loop,
   RefProofs!Loop, B!Threads, RefProofs!Threads, B!Next, RefProofs!Next, B!Min,
   RefProofs!Min, B!Max, RefProofs!Max, B!Cardinality, RefProofs!Cardinality, B!Range,
   RefProofs!Range

\* A behaviour of the index is one of its resolution.
LEMMA ResolutionBehaves == PipelineSpec => RefProofs!Spec
<1>1. AllInit => RefProofs!Init
  BY DEF AllInit, Parts, B!Init, RefProofs!Init, B!Refs, RefProofs!Refs, B!Unread,
         RefProofs!Unread, B!NoFlight, RefProofs!NoFlight, B!Engaged, RefProofs!Engaged,
         B!Idle, RefProofs!Idle, B!Resolvers, RefProofs!Resolvers, B!Main, RefProofs!Main
<1>2. [AllNext]_allVars => [RefProofs!Next]_(RefProofs!vars)
  BY RefNext DEF AllNext, allVars, bVars, RefProofs!vars, RefProofs!db, RefProofs!poolVars
<1> QED BY <1>1, <1>2, PTL DEF PipelineSpec, RefProofs!Spec

\* What the theorems about the pool and resolution assume of the constants is assumed here.
LEMMA PartsAssumptions ==
  ParseProofs!ParsePoolAssumption /\ RefProofs!BatchResolverAssumption
BY PipelineAssumption DEF P!ParsePoolAssumption, ParseProofs!ParsePoolAssumption,
   P!IsFiniteSet, ParseProofs!IsFiniteSet, B!BatchResolverAssumption,
   RefProofs!BatchResolverAssumption

\* What is proved of the pool and of resolution, in the terms of the index.
LEMMA PoolHolds ==
  PipelineSpec =>
    [](P!TypeOK /\ P!WorkersHaveOnePlace /\ P!Accounted /\ P!QueueIsServed)
<1>1. ParseProofs!Spec =>
        [](ParseProofs!TypeOK /\ ParseProofs!WorkersHaveOnePlace
           /\ ParseProofs!Accounted /\ ParseProofs!QueueIsServed)
  BY PartsAssumptions, ParseProofs!ParsesAreServed
<1>2. ParseProofs!TypeOK => P!TypeOK
  BY Zenon DEF ParseProofs!TypeOK, P!TypeOK, P!Jobs, ParseProofs!Jobs, P!NoJob,
     ParseProofs!NoJob, P!Cardinality, ParseProofs!Cardinality
<1>3. ParseProofs!WorkersHaveOnePlace => P!WorkersHaveOnePlace
  BY Zenon DEF ParseProofs!WorkersHaveOnePlace, P!WorkersHaveOnePlace, ParseProofs!Idle,
     P!Idle, ParseProofs!Busy, P!Busy, ParseProofs!NoJob, P!NoJob, ParseProofs!Cardinality,
     P!Cardinality
<1>4. ParseProofs!Accounted => P!Accounted
  BY Zenon DEF ParseProofs!Accounted, P!Accounted, ParseProofs!Jobs, P!Jobs,
     ParseProofs!Cardinality, P!Cardinality
<1>5. ParseProofs!QueueIsServed => P!QueueIsServed
  BY Zenon DEF ParseProofs!QueueIsServed, P!QueueIsServed, ParseProofs!Busy, P!Busy,
     ParseProofs!NoJob, P!NoJob
<1> QED BY <1>1, <1>2, <1>3, <1>4, <1>5, PoolBehaves, PTL

\* What is proved of resolution, in the terms of the index.
LEMMA ResolutionHolds ==
  PipelineSpec =>
    [](/\ B!TypeOK /\ B!RowsOutliveTheirEdges /\ B!NothingIsAbandoned
       /\ B!DeferredInOrder /\ B!SameGraphWhoeverResolves)
<1>1. RefProofs!Spec =>
        [](RefProofs!TypeOK /\ RefProofs!RowsOutliveTheirEdges
           /\ RefProofs!NothingIsAbandoned /\ RefProofs!DeferredInOrder
           /\ RefProofs!SameGraphWhoeverResolves)
  BY PartsAssumptions, RefProofs!BatchIsRight
<1>2. RefProofs!TypeOK => B!TypeOK
  BY Zenon DEF RefProofs!TypeOK, B!TypeOK, RefProofs!Refs, B!Refs, RefProofs!Resolvers,
     B!Resolvers, RefProofs!Main, B!Main, RefProofs!Unread, B!Unread, RefProofs!Idle, B!Idle,
     RefProofs!NoFlight, B!NoFlight
<1>3. RefProofs!RowsOutliveTheirEdges /\ RefProofs!NothingIsAbandoned
      /\ RefProofs!DeferredInOrder
      => B!RowsOutliveTheirEdges /\ B!NothingIsAbandoned /\ B!DeferredInOrder
  BY Zenon DEF RefProofs!RowsOutliveTheirEdges, B!RowsOutliveTheirEdges, RefProofs!Refs,
     B!Refs, RefProofs!NothingIsAbandoned, B!NothingIsAbandoned, RefProofs!DeferredInOrder,
     B!DeferredInOrder
<1>4. RefProofs!SameGraphWhoeverResolves => B!SameGraphWhoeverResolves
  BY Zenon DEF RefProofs!SameGraphWhoeverResolves, B!SameGraphWhoeverResolves,
     RefProofs!Expected, B!Expected, RefProofs!AllSupers, B!AllSupers, RefProofs!Before,
     B!Before, RefProofs!Refs, B!Refs
<1> QED BY <1>1, <1>2, <1>3, <1>4, ResolutionBehaves, PTL

\* The pipeline, its pool, resolution, synthesis and the valve keep their types, for any
\* files, windows, parses, threads, references, passes and frames.
THEOREM PipelineIsTyped == PipelineSpec => []TypesOK
<1>1. IInv => TypeOK
  BY DEF IInv
<1>2. S!Spec => [](S!TypeOK /\ S!SameEdgesHoweverRun)
  BY PipelineAssumption, SynthesisIsRight
<1>3. V!Spec => [](V!TypeOK /\ V!FileIsBounded /\ V!FoldedMeansFolded)
  BY PipelineAssumption, LogStaysSmall
<1>4. TypeOK /\ P!TypeOK /\ B!TypeOK /\ S!TypeOK /\ V!TypeOK => TypesOK
  BY DEF TypesOK, Shown, PoolShown
<1> QED BY <1>1, <1>2, <1>3, <1>4, IndexInv, PoolHolds, ResolutionHolds, IndexingBehaves,
        SynthesisBehaves, ValveBehaves, PTL

\* An index that returns has accounted for each file, and one that succeeds has had all its
\* bundles applied, with its pool, its resolution and the rest beside it.
THEOREM FilesAreRight == PipelineSpec => [](FilesAreAccounted /\ SuccessMeansStored)
BY NothingGoesUncounted, NothingIsLost, IndexingBehaves, PTL

\* Each worker is in one place, each open parse in one place and watched over by a timer,
\* no parse waits beside an idle worker or for nobody, and none that waits is failed but
\* with the pool, for any numbers of threads and parses and any budget.
THEOREM ParsesAreRight == PipelineSpec => ParsesAreAccounted
<1>1. P!WorkersHaveOnePlace /\ P!Accounted /\ P!QueueIsServed =>
        PoolShown(P!WorkersHaveOnePlace /\ P!QueueIsServed /\ P!Accounted)
  BY DEF PoolShown
<1>2. ParseProofs!Spec => ParseProofs!QueuedWorkIsNotFailedEarly
  BY PartsAssumptions, ParseProofs!NobodyFailsEarly
<1>3. ParseProofs!QueuedWorkIsNotFailedEarly => P!QueuedWorkIsNotFailedEarly
  <2>1. [\A j \in ParseProofs!Queued(pPool) :
           pPool'.outcome[j] = "error" =>
             pPool'.destroyed \/ pPool'.crashes >= CrashBudget]_(ParseProofs!vars)
        => [\A j \in P!Queued(pPool) :
              pPool'.outcome[j] = "error" =>
                pPool'.destroyed \/ pPool'.crashes >= CrashBudget]_(P!vars)
    BY DEF ParseProofs!Queued, P!Queued, ParseProofs!vars, P!vars
  <2> QED BY <2>1, PTL DEF ParseProofs!QueuedWorkIsNotFailedEarly, P!QueuedWorkIsNotFailedEarly
<1> QED BY <1>1, <1>2, <1>3, PoolHolds, PoolBehaves, PTL DEF ParsesAreAccounted

\* No reference leaves the queue without its edge or a place among the parked, and the loop
\* leaves none unattempted, for any numbers of references, batches, workers and deaths.
THEOREM ReferencesAreRight == PipelineSpec => []ReferencesAreKept
<1>1. B!RowsOutliveTheirEdges /\ B!NothingIsAbandoned => ReferencesAreKept
  BY DEF ReferencesAreKept, Shown
<1> QED BY <1>1, ResolutionHolds, PTL

\* The graph is the one a single thread would have built, whichever threads resolve and
\* synthesize and in which order they answer, for any numbers of references and passes.
THEOREM GraphIsRight == PipelineSpec => []SameGraphWhoeverWorks
<1>1. S!Spec => [](S!TypeOK /\ S!SameEdgesHoweverRun)
  BY PipelineAssumption, SynthesisIsRight
<1>2. B!SameGraphWhoeverResolves /\ B!DeferredInOrder /\ S!SameEdgesHoweverRun
      => SameGraphWhoeverWorks
  BY DEF SameGraphWhoeverWorks, Shown
<1> QED BY <1>1, <1>2, ResolutionHolds, SynthesisBehaves, PTL

\* While nothing is in the way of checkpoints the log stays within a transaction of its cap,
\* and a fold that succeeds leaves nothing to copy, for any transactions and pauses.
THEOREM LogIsRight == PipelineSpec => []LogIsBounded
<1>1. V!Spec => [](V!TypeOK /\ V!FileIsBounded /\ V!FoldedMeansFolded)
  BY PipelineAssumption, LogStaysSmall
<1>2. V!FileIsBounded /\ V!FoldedMeansFolded => LogIsBounded
  BY DEF LogIsBounded, Shown
<1> QED BY <1>1, <1>2, ValveBehaves, PTL
=============================================================================
