-------------------------- MODULE ProcessesProofs --------------------------
(* Theorems about the four of them together.  A behaviour of the composition  *)
(* is one of each, so what is proved of each alone holds here too.            *)
EXTENDS Processes, FiniteSetTheorems, TLAPS

-----------------------------------------------------------------------------
(* The mutex.                                                               *)

\* The lock is taken exactly when one guarded function runs.
HeldByOne ==
  /\ locked => \E c \in Callers : holders = {c}
  /\ ~locked => holders = {}

\* Inductive for any callers.
IInv == TypeOK /\ HeldByOne /\ NoLostWakeup

\* Nobody has called yet.
LEMMA MutexInit == Init => IInv
<1> SUFFICES ASSUME Init PROVE IInv
  OBVIOUS
<1>1. 0 \in 0 .. MaxCalls
  BY MutexAssumption
<1>2. TypeOK
  <2>1. waitQueue \in Seq(Callers) /\ Len(waitQueue) = 0
    BY DEF Init
  <2>2. OnePlace
    BY <2>1 DEF Init, OnePlace
  <2> QED BY <1>1, <2>1, <2>2 DEF Init, TypeOK
<1>3. HeldByOne /\ NoLostWakeup
  BY DEF Init, HeldByOne, NoLostWakeup
<1> QED BY <1>2, <1>3 DEF IInv

\* Whoever tests the lock, and is neither queued nor running, keeps every call
\* in one place and the lock with one of them.
LEMMA TestKept ==
  ASSUME NEW c \in Callers, IInv, Away(c) \/ c \in woken,
         TakeOrWait(c), woken' = woken \ {c}
  PROVE  /\ waitQueue' \in Seq(Callers) /\ holders' \subseteq Callers
         /\ locked' \in BOOLEAN
         /\ OnePlace' /\ HeldByOne' /\ NoLostWakeup'
<1>1. /\ waitQueue \in Seq(Callers) /\ OnePlace /\ HeldByOne
      /\ \A i \in 1 .. Len(waitQueue) : waitQueue[i] # c
      /\ c \notin holders
  BY DEF IInv, TypeOK, OnePlace, Away, Queued
<1>2. CASE locked
  <2>1. /\ waitQueue' = Append(waitQueue, c)
        /\ UNCHANGED <<locked, holders>>
    BY <1>2 DEF TakeOrWait
  <2>2. /\ waitQueue' \in Seq(Callers) /\ Len(waitQueue') = Len(waitQueue) + 1
        /\ waitQueue'[Len(waitQueue) + 1] = c
        /\ \A i \in 1 .. Len(waitQueue) : waitQueue'[i] = waitQueue[i]
    BY <1>1, <2>1
  <2>3. \A i \in 1 .. Len(waitQueue') : i \in 1 .. Len(waitQueue) \/ i = Len(waitQueue) + 1
    BY <1>1, <2>2
  <2>4. OnePlace'
    BY <1>1, <2>1, <2>2, <2>3 DEF OnePlace
  <2> QED BY <1>1, <1>2, <2>1, <2>2, <2>4 DEF HeldByOne, NoLostWakeup, IInv, TypeOK
<1>3. CASE ~locked
  <2>1. locked' = TRUE /\ holders' = {c} /\ waitQueue' = waitQueue
    BY <1>1, <1>3 DEF TakeOrWait, HeldByOne
  <2>2. OnePlace'
    BY <1>1, <2>1 DEF OnePlace
  <2> QED BY <1>1, <2>1, <2>2 DEF HeldByOne, NoLostWakeup
<1> QED BY <1>2, <1>3

\* A release wakes the first waiter and keeps the others in line.
LEMMA WakeKept ==
  ASSUME IInv, WakeFirst, NEW c \in Callers, c \in holders,
         holders' = holders \ {c}, locked' = FALSE
  PROVE  /\ waitQueue' \in Seq(Callers) /\ woken' \subseteq Callers
         /\ OnePlace' /\ HeldByOne' /\ NoLostWakeup'
<1>1. /\ waitQueue \in Seq(Callers) /\ OnePlace /\ woken \subseteq Callers
      /\ holders' = {}
  BY DEF IInv, TypeOK, HeldByOne
<1>2. CASE waitQueue = <<>>
  BY <1>1, <1>2 DEF WakeFirst, OnePlace, HeldByOne, NoLostWakeup
<1>3. CASE waitQueue # <<>>
  <2>1. waitQueue' = Tail(waitQueue) /\ woken' = woken \cup {Head(waitQueue)}
    BY <1>3 DEF WakeFirst
  <2>2. /\ Head(waitQueue) = waitQueue[1] /\ waitQueue[1] \in Callers
        /\ Len(waitQueue) \in Nat /\ Len(waitQueue) > 0
        /\ waitQueue' \in Seq(Callers) /\ Len(waitQueue') = Len(waitQueue) - 1
        /\ \A i \in 1 .. Len(waitQueue') : waitQueue'[i] = waitQueue[i + 1]
    BY <1>1, <1>3, <2>1
  <2>3. \A i \in 1 .. Len(waitQueue') :
          i + 1 \in 1 .. Len(waitQueue) /\ i + 1 # 1
    BY <2>2
  <2>4. \A i, j \in 1 .. Len(waitQueue') :
          waitQueue'[i] = waitQueue'[j] => i = j
    BY <1>1, <2>2, <2>3 DEF OnePlace
  <2>5. \A i \in 1 .. Len(waitQueue') : waitQueue'[i] \notin woken'
    BY <1>1, <2>1, <2>2, <2>3 DEF OnePlace
  <2> QED BY <1>1, <2>1, <2>2, <2>4, <2>5 DEF OnePlace, HeldByOne, NoLostWakeup
<1> QED BY <1>2, <1>3

\* Calls, wake-ups and releases keep the invariant.
LEMMA MutexStep == IInv /\ [Next]_vars => IInv'
<1> SUFFICES ASSUME IInv, [Next]_vars PROVE IInv'
  OBVIOUS
<1>1. ASSUME NEW c \in Callers, Call(c) PROVE IInv'
  <2>1. c \notin woken /\ woken' = woken \ {c} /\ Away(c) /\ TakeOrWait(c)
    BY <1>1 DEF Call, Away
  <2>2. calls' \in [Callers -> 0 .. MaxCalls]
    BY <1>1, MutexAssumption DEF Call, IInv, TypeOK
  <2>3. woken' \subseteq Callers
    BY <2>1 DEF IInv, TypeOK
  <2> QED BY <2>1, <2>2, <2>3, TestKept DEF IInv, TypeOK
<1>2. ASSUME NEW c \in Callers, Resume(c) PROVE IInv'
  <2>1. /\ c \in woken /\ woken' = woken \ {c} /\ TakeOrWait(c)
        /\ UNCHANGED calls
    BY <1>2 DEF Resume
  <2>2. woken' \subseteq Callers
    BY <2>1 DEF IInv, TypeOK
  <2> QED BY <2>1, <2>2, TestKept DEF IInv, TypeOK
<1>3. ASSUME NEW c \in Callers, Release(c) PROVE IInv'
  <2>1. /\ c \in holders /\ holders' = holders \ {c} /\ locked' = FALSE
        /\ WakeFirst /\ UNCHANGED calls
    BY <1>3 DEF Release
  <2> QED BY <2>1, WakeKept DEF IInv, TypeOK
<1>4. CASE UNCHANGED vars
  BY <1>4 DEF vars, IInv, TypeOK, OnePlace, HeldByOne, NoLostWakeup
<1> QED BY <1>1, <1>2, <1>3, <1>4 DEF Next

\* The invariant holds of every behaviour.
LEMMA MutexInv == Spec => []IInv
BY MutexInit, MutexStep, PTL DEF Spec

\* Two guarded functions never run together, for any number of callers and
\* although the lock is not handed to the waiter that is woken.
THEOREM OneOperationAtATime == Spec => []MutualExclusion
<1>1. IInv => MutualExclusion
  BY DEF IInv, HeldByOne, MutualExclusion
<1> QED BY <1>1, MutexInv, PTL

\* The lock is never free with calls waiting and none of them woken.
THEOREM NoWakeupIsLost == Spec => []NoLostWakeup
BY MutexInv, PTL DEF IInv

-----------------------------------------------------------------------------
(* Mutex implements Turns.                                                  *)

\* The woken calls can be counted, however many callers there are.
WokenFinite == IsFiniteSet(woken)

\* Finitely many waiters have been woken.
LEMMA WokenCounted == Spec => []WokenFinite
<1>1. Init => WokenFinite
  BY FS_EmptySet DEF Init, WokenFinite
<1>2. WokenFinite /\ [Next]_vars => WokenFinite'
  <2> SUFFICES ASSUME WokenFinite, [Next]_vars PROVE WokenFinite'
    OBVIOUS
  <2>1. ASSUME NEW c \in Callers, Call(c) PROVE WokenFinite'
    BY <2>1 DEF Call, WokenFinite
  <2>2. ASSUME NEW c \in Callers, Resume(c) PROVE WokenFinite'
    BY <2>2, FS_RemoveElement DEF Resume, WokenFinite
  <2>3. ASSUME NEW c \in Callers, Release(c) PROVE WokenFinite'
    BY <2>3, FS_AddElement DEF Release, WakeFirst, WokenFinite
  <2>4. CASE UNCHANGED vars
    BY <2>4 DEF vars, WokenFinite
  <2> QED BY <2>1, <2>2, <2>3, <2>4 DEF Next
<1> QED BY <1>1, <1>2, PTL DEF Spec

\* A test of the lock is a turn taken at once, or one more call that waits.
LEMMA TestIsATurn ==
  ASSUME IInv, NEW c \in Callers, TakeOrWait(c)
  PROVE  /\ locked => /\ Len(waitQueue') = Len(waitQueue) + 1
                      /\ UNCHANGED holders /\ holders # {}
         /\ ~locked => /\ Len(waitQueue') = Len(waitQueue)
                       /\ holders = {} /\ holders' # {}
<1>1. waitQueue \in Seq(Callers)
  BY DEF IInv, TypeOK
<1>2. CASE locked
  <2>1. waitQueue' = Append(waitQueue, c) /\ UNCHANGED holders
    BY <1>2 DEF TakeOrWait
  <2>2. Len(waitQueue') = Len(waitQueue) + 1
    BY <1>1, <2>1
  <2>3. holders # {}
    BY <1>2, Zenon DEF IInv, HeldByOne
  <2> QED BY <1>2, <2>1, <2>2, <2>3, Zenon
<1>3. CASE ~locked
  <2>1. /\ UNCHANGED waitQueue
        /\ holders = {} /\ holders' = holders \cup {c}
    BY <1>3, Zenon DEF TakeOrWait, IInv, HeldByOne
  <2> QED BY <1>3, <2>1, Zenon
<1> QED BY <1>2, <1>3

\* The mutex begins with nobody's turn taken.
LEMMA TurnInit == Init => Turn!Init
<1> SUFFICES ASSUME Init PROVE Turn!Init
  OBVIOUS
<1>1. Len(waitQueue) = 0 /\ Cardinality(woken) = 0 /\ holders = {}
  BY FS_EmptySet DEF Init
<1> QED BY <1>1 DEF Turn!Init

\* Each step of the mutex is a turn or none.
LEMMA TurnStep ==
  IInv /\ WokenFinite /\ [Next]_vars
    => [Turn!Next]_<<Len(waitQueue) + Cardinality(woken), holders # {}>>
<1> SUFFICES ASSUME IInv, WokenFinite, [Next]_vars
             PROVE  [Turn!Next]_<<Len(waitQueue) + Cardinality(woken), holders # {}>>
  OBVIOUS
<1>1. /\ Len(waitQueue) \in Nat /\ Cardinality(woken) \in Nat
      /\ \A c \in woken : Cardinality(woken) > 0
  BY FS_CardinalityType, FS_EmptySet DEF IInv, TypeOK, WokenFinite
<1>2. ASSUME NEW c \in Callers, Call(c) PROVE Turn!Join \/ Turn!GoAhead
  <2>1. TakeOrWait(c) /\ woken' = woken
    BY <1>2 DEF Call
  <2>2. CASE locked
    <3>1. /\ Len(waitQueue') = Len(waitQueue) + 1 /\ holders' = holders
      BY <2>1, <2>2, TestIsATurn
    <3> QED BY <1>1, <2>1, <3>1 DEF Turn!Join
  <2>3. CASE ~locked
    <3>1. /\ Len(waitQueue') = Len(waitQueue) /\ holders = {} /\ holders' # {}
      BY <2>1, <2>3, TestIsATurn
    <3> QED BY <1>1, <2>1, <3>1 DEF Turn!GoAhead
  <2> QED BY <2>2, <2>3
<1>3. ASSUME NEW c \in Callers, Resume(c)
      PROVE  \/ Turn!TakeTurn
             \/ UNCHANGED <<Len(waitQueue) + Cardinality(woken), holders # {}>>
  <2>1. TakeOrWait(c) /\ c \in woken /\ woken' = woken \ {c}
    BY <1>3 DEF Resume
  <2>2. Cardinality(woken') = Cardinality(woken) - 1 /\ Cardinality(woken) > 0
    BY <1>1, <2>1, FS_RemoveElement DEF WokenFinite
  <2>3. CASE locked
    <3>1. /\ Len(waitQueue') = Len(waitQueue) + 1 /\ holders' = holders
      BY <2>1, <2>3, TestIsATurn
    <3> QED BY <1>1, <2>2, <3>1
  <2>4. CASE ~locked
    <3>1. /\ Len(waitQueue') = Len(waitQueue) /\ holders = {} /\ holders' # {}
      BY <2>1, <2>4, TestIsATurn
    <3> QED BY <1>1, <2>2, <3>1 DEF Turn!TakeTurn
  <2> QED BY <2>3, <2>4
<1>4. ASSUME NEW c \in Callers, Release(c) PROVE Turn!GiveBack
  <2>1. holders # {} /\ holders' = {}
    BY <1>4 DEF Release, IInv, HeldByOne
  <2>2. Len(waitQueue') + Cardinality(woken') = Len(waitQueue) + Cardinality(woken)
    <3>1. CASE waitQueue = <<>>
      BY <1>4, <3>1 DEF Release, WakeFirst
    <3>2. CASE waitQueue # <<>>
      <4>1. /\ waitQueue' = Tail(waitQueue)
            /\ woken' = woken \cup {Head(waitQueue)}
        BY <1>4, <3>2 DEF Release, WakeFirst
      <4>2. Len(waitQueue') = Len(waitQueue) - 1
        BY <3>2, <4>1 DEF IInv, TypeOK
      <4>3. Head(waitQueue) \notin woken
        BY <3>2 DEF IInv, TypeOK, OnePlace
      <4>4. Cardinality(woken') = Cardinality(woken) + 1
        BY <4>1, <4>3, FS_AddElement DEF WokenFinite
      <4> QED BY <1>1, <4>2, <4>4
    <3> QED BY <3>1, <3>2
  <2> QED BY <1>1, <2>1, <2>2 DEF Turn!GiveBack
<1>5. CASE UNCHANGED vars
  BY <1>5 DEF vars
<1> QED BY <1>2, <1>3, <1>4, <1>5 DEF Next, Turn!Next

\* To the operations of an instance the queue with its wake-ups is a plain lock,
\* which is all that IndexLock assumes of it; for any number of callers.
THEOREM MutexImplementsTurns == Spec => TakesTurns
<1>1. Spec => []IInv /\ []WokenFinite
  BY MutexInv, WokenCounted
<1> QED BY <1>1, TurnInit, TurnStep, PTL DEF TakesTurns, Turn!Spec, Spec

-----------------------------------------------------------------------------
(* The lock file.                                                           *)

\* Where an operation is whose lock file may be on disk.
Owning == {"writing", "setup", "working", "releasing", "unlinking"}

\* The lock on disk names its creator as soon as the creator has gone past
\* writing it, and FileLock.held is set from then on, so that a release that
\* finds the lock there cannot pass it by.
Owned ==
  \A p \in Procs :
    lOwner = p /\ p \in lAlive /\ p \notin lClosed =>
      /\ lPc[p] \in Owning
      /\ lPc[p] # "writing" => lWritten /\ lHeld[p]

\* Inductive for any value of the constants.
FileInv == L!TypeOK /\ Owned

\* A new instance has no lock and asks for nothing.
LEMMA LockInit == L!IndexLockAssumption /\ L!Init => FileInv
<1> SUFFICES ASSUME L!IndexLockAssumption, L!Init PROVE FileInv
  OBVIOUS
<1>1. MaxRequests \in Nat /\ 0 \in 0 .. MaxRequests
  BY DEF L!IndexLockAssumption
<1>2. L!TypeOK
  BY <1>1 DEF L!Init, L!TypeOK, L!Steps
<1>3. Owned
  BY DEF L!Init, Owned, L!IndexLockAssumption
<1> QED BY <1>2, <1>3 DEF FileInv

\* Every system call keeps the types of the state.
LEMMA LockTypes == L!IndexLockAssumption /\ L!TypeOK /\ [L!Next]_(L!vars) => L!TypeOK'
<1> SUFFICES ASSUME L!IndexLockAssumption, L!TypeOK, [L!Next]_(L!vars) PROVE L!TypeOK'
  OBVIOUS
<1> USE DEF L!IndexLockAssumption, L!TypeOK, L!Steps, L!Goto, L!Removed, L!lockVars, L!procVars
<1>1. ASSUME NEW p \in Procs, L!Request(p) PROVE L!TypeOK'
  BY <1>1 DEF L!Request
<1>2. ASSUME NEW p \in Procs, NEW kind \in Ops, L!Enter(p, kind) PROVE L!TypeOK'
  <2>1. lQueue' \in [Procs -> Nat]
    BY <1>2 DEF L!Enter, L!TakesTurn
  <2>2. lPc' \in [Procs -> L!Steps] /\ lOp' \in [Procs -> {"sync", "indexFiles"}]
    BY <1>2 DEF L!Enter
  <2> QED BY <1>2, <2>1, <2>2 DEF L!Enter
<1>3. ASSUME NEW p \in Procs, L!Acquiring(p) PROVE L!TypeOK'
  BY <1>3 DEF L!Acquiring, L!Read, L!Break, L!Create, L!Write
<1>4. ASSUME NEW p \in Procs,
             L!Setup(p) \/ L!Finish(p) \/ L!Release(p) \/ L!Unlink(p) \/ L!DetachedEnds(p)
      PROVE  L!TypeOK'
  BY <1>4 DEF L!Setup, L!Finish, L!Release, L!Unlink, L!DetachedEnds, L!Return
<1>5. ASSUME NEW p \in Procs, L!Close(p) \/ L!Crash(p) PROVE L!TypeOK'
  BY <1>5 DEF L!Close, L!Crash
<1>6. CASE L!Expire
  BY <1>6 DEF L!Expire
<1>7. CASE UNCHANGED L!vars
  BY <1>7 DEF L!vars
<1> QED BY <1>1, <1>2, <1>3, <1>4, <1>5, <1>6, <1>7 DEF L!Next, L!Running

\* Every system call keeps the lock with an operation that will release it.
LEMMA LockOwned == L!IndexLockAssumption /\ L!TypeOK /\ Owned /\ [L!Next]_(L!vars) => Owned'
<1> SUFFICES ASSUME L!IndexLockAssumption, L!TypeOK, Owned, [L!Next]_(L!vars),
                    NEW q \in Procs, lOwner' = q, q \in lAlive', q \notin lClosed'
             PROVE  /\ lPc'[q] \in Owning
                    /\ lPc'[q] # "writing" => lWritten' /\ lHeld'[q]
  BY DEF Owned
<1>0. /\ q # Nobody
      /\ lOwner = q /\ q \in lAlive /\ q \notin lClosed
           => lPc[q] \in Owning /\ (lPc[q] # "writing" => lWritten /\ lHeld[q])
  BY DEF L!IndexLockAssumption, Owned
<1> USE DEF Owning, L!At, L!Goto, L!Exists, L!Removed, L!lockVars, L!procVars
<1>1. ASSUME NEW p \in Procs, L!Request(p) \/ L!Crash(p)
      PROVE  lPc'[q] \in Owning /\ (lPc'[q] # "writing" => lWritten' /\ lHeld'[q])
  BY <1>0, <1>1 DEF L!Request, L!Crash
<1>2. ASSUME NEW p \in Procs, NEW kind \in Ops, L!Enter(p, kind)
      PROVE  lPc'[q] \in Owning /\ (lPc'[q] # "writing" => lWritten' /\ lHeld'[q])
  BY <1>0, <1>2 DEF L!Enter, L!TypeOK
<1>3. ASSUME NEW p \in Procs, L!Acquiring(p)
      PROVE  lPc'[q] \in Owning /\ (lPc'[q] # "writing" => lWritten' /\ lHeld'[q])
  BY <1>0, <1>3 DEF L!Acquiring, L!Read, L!Break, L!Create, L!Write, L!TypeOK
<1>4. ASSUME NEW p \in Procs,
             L!Setup(p) \/ L!Finish(p) \/ L!Release(p) \/ L!Unlink(p) \/ L!DetachedEnds(p)
      PROVE  lPc'[q] \in Owning /\ (lPc'[q] # "writing" => lWritten' /\ lHeld'[q])
  BY <1>0, <1>4 DEF L!Setup, L!Finish, L!Release, L!Unlink, L!DetachedEnds, L!Return, L!TypeOK
<1>5. ASSUME NEW p \in Procs, L!Close(p)
      PROVE  lPc'[q] \in Owning /\ (lPc'[q] # "writing" => lWritten' /\ lHeld'[q])
  BY <1>0, <1>5 DEF L!Close, L!TypeOK
<1>6. CASE L!Expire \/ UNCHANGED L!vars
  BY <1>0, <1>6 DEF L!Expire, L!vars
<1> QED BY <1>1, <1>2, <1>3, <1>4, <1>5, <1>6 DEF L!Next, L!Running

\* Both hold in every behaviour.
LEMMA LockInv == ASSUME L!IndexLockAssumption PROVE L!Spec => []FileInv
<1>1. L!Init => FileInv
  BY LockInit
<1>2. FileInv /\ [L!Next]_(L!vars) => FileInv'
  BY LockTypes, LockOwned DEF FileInv
<1> QED BY <1>1, <1>2, PTL DEF L!Spec

\* Whatever the processes do to each other's lock files, an operation that is
\* over has left none, unless its process died or its instance was closed.
THEOREM NothingLeaks ==
  ASSUME L!IndexLockAssumption PROVE L!Spec => []L!NoLeak
<1>1. L!Spec => []FileInv
  BY LockInv
<1>2. FileInv => L!NoLeak
  BY DEF FileInv, L!TypeOK, Owned, L!NoLeak, L!Exists, Owning
<1> QED BY <1>1, <1>2, PTL

-----------------------------------------------------------------------------
(* The election of the daemon.                                              *)

\* The pid file on disk names a daemon that will remove it, or a dead one.
Accounted == D!TypeOK /\ D!OnlyCrashesLeaveALock

\* While nobody has been killed, every daemon is named by the pid file, so there
\* is one of them, its record is never stale, and nobody gets to clear it.
Unshared ==
  dCrashed = {} => /\ \A p \in D!Daemons : dPidFile = p
                  /\ \A p \in Candidates : dPc[p] # "clearing"

\* Nothing runs and neither file exists.
LEMMA ElectionInit ==
  ASSUME D!DaemonLockAssumption PROVE D!Init => Accounted /\ Unshared
<1> SUFFICES ASSUME D!Init PROVE Accounted /\ Unshared
  OBVIOUS
<1>1. 0 \in 0 .. Retries
  BY DEF D!DaemonLockAssumption
<1>2. D!TypeOK
  BY <1>1 DEF D!Init, D!TypeOK, D!Steps
<1>3. D!OnlyCrashesLeaveALock /\ Unshared
  BY DEF D!Init, D!OnlyCrashesLeaveALock, Unshared, D!Daemons
<1> QED BY <1>2, <1>3 DEF Accounted

\* Every system call keeps the types of the state.
LEMMA ElectionTypes ==
  ASSUME D!DaemonLockAssumption PROVE D!TypeOK /\ [D!Next]_(D!vars) => D!TypeOK'
<1> SUFFICES ASSUME D!TypeOK, [D!Next]_(D!vars) PROVE D!TypeOK'
  OBVIOUS
<1> USE DEF D!DaemonLockAssumption, D!TypeOK, D!Steps, D!Goto
<1>1. ASSUME NEW p \in Candidates, D!Spawn(p) \/ D!Stop(p) \/ D!Crash(p) PROVE D!TypeOK'
  BY <1>1 DEF D!Spawn, D!Stop, D!Crash
<1>2. ASSUME NEW p \in Candidates, D!Link(p) PROVE D!TypeOK'
  <2>1. dAttempts' \in [Candidates -> 0 .. Retries]
    BY <1>2 DEF D!Link, D!MayRetry
  <2> QED BY <1>2, <2>1 DEF D!Link
<1>3. ASSUME NEW p \in Candidates,
             D!ReadHolder(p) \/ D!Judge(p) \/ D!Reread(p) \/ D!Clear(p) \/ D!GiveUp(p)
      PROVE  D!TypeOK'
  BY <1>3 DEF D!ReadHolder, D!Judge, D!Reread, D!Clear, D!GiveUp
<1>4. ASSUME NEW p \in Candidates, D!Bind(p) \/ D!Listen(p) \/ D!Retiring(p) PROVE D!TypeOK'
  BY <1>4 DEF D!Bind, D!Listen, D!FailureCleansUp, D!Retiring, D!Check, D!Remove, D!DropSocket
<1>5. CASE UNCHANGED D!vars
  BY <1>5 DEF D!vars
<1> QED BY <1>1, <1>2, <1>3, <1>4, <1>5 DEF D!Next, D!Running, D!Electing

\* Whoever stops being a daemon without being killed no longer has its name in
\* the pid file.
LEMMA AccountedStep == D!TypeOK /\ D!OnlyCrashesLeaveALock /\ [D!Next]_(D!vars)
                       => D!OnlyCrashesLeaveALock'
<1> SUFFICES ASSUME D!TypeOK, D!OnlyCrashesLeaveALock, [D!Next]_(D!vars),
                    dPidFile' # Nobody, dPidFile' \notin dCrashed'
             PROVE  dPidFile' \in D!Daemons'
  BY DEF D!OnlyCrashesLeaveALock
<1> USE DEF D!TypeOK, D!OnlyCrashesLeaveALock, D!Daemons, D!At, D!Goto
<1>1. ASSUME NEW p \in Candidates, D!Spawn(p) \/ D!Stop(p) \/ D!Crash(p)
      PROVE  dPidFile' \in D!Daemons'
  BY <1>1 DEF D!Spawn, D!Stop, D!Crash
<1>2. ASSUME NEW p \in Candidates, D!Link(p) PROVE dPidFile' \in D!Daemons'
  BY <1>2 DEF D!Link
<1>3. ASSUME NEW p \in Candidates,
             D!ReadHolder(p) \/ D!Judge(p) \/ D!Reread(p) \/ D!Clear(p) \/ D!GiveUp(p)
      PROVE  dPidFile' \in D!Daemons'
  BY <1>3 DEF D!ReadHolder, D!Judge, D!Reread, D!Clear, D!GiveUp
<1>4. ASSUME NEW p \in Candidates, D!Bind(p) \/ D!Listen(p) \/ D!Retiring(p)
      PROVE  dPidFile' \in D!Daemons'
  BY <1>4 DEF D!Bind, D!Listen, D!FailureCleansUp, D!Retiring, D!Check, D!Remove, D!DropSocket
<1>5. CASE UNCHANGED D!vars
  BY <1>5 DEF D!vars
<1> QED BY <1>1, <1>2, <1>3, <1>4, <1>5 DEF D!Next, D!Running, D!Electing

\* While nobody has been killed, no step makes a second daemon or clears a lock.
LEMMA UnsharedStep ==
  ASSUME D!DaemonLockAssumption, Accounted, Unshared, [D!Next]_(D!vars)
  PROVE  Unshared'
<1> SUFFICES ASSUME dCrashed' = {} PROVE Unshared'
  BY DEF Unshared
<1>0. dCrashed = {}
  <2>1. dCrashed \subseteq dCrashed'
    BY DEF D!Next, D!Running, D!Electing, D!Retiring, D!Spawn, D!Stop, D!Crash, D!Link,
       D!ReadHolder,
           D!Judge, D!Reread, D!Clear, D!GiveUp, D!Bind, D!Listen, D!Check, D!Remove,
              D!DropSocket, D!vars
  <2> QED BY <2>1
<1> USE <1>0 DEF Accounted, D!TypeOK, Unshared, D!Daemons, D!At, D!Goto
<1>1. dPidFile # Nobody => dPidFile \in D!Daemons /\ D!Alive(dPidFile)
  BY DEF D!OnlyCrashesLeaveALock, D!Alive
<1>2. ASSUME NEW p \in Candidates, D!Spawn(p) \/ D!Stop(p) \/ D!Crash(p) PROVE Unshared'
  BY <1>2 DEF D!Spawn, D!Stop, D!Crash
<1>3. ASSUME NEW p \in Candidates, D!Link(p) PROVE Unshared'
  BY <1>1, <1>3 DEF D!Link, D!DaemonLockAssumption
<1>4. ASSUME NEW p \in Candidates, D!Reread(p) PROVE Unshared'
  BY <1>1, <1>4 DEF D!Reread, D!StillStale
<1>5. ASSUME NEW p \in Candidates, D!ReadHolder(p) \/ D!Judge(p) \/ D!Clear(p) \/ D!GiveUp(p)
      PROVE  Unshared'
  BY <1>5 DEF D!ReadHolder, D!Judge, D!Clear, D!GiveUp
<1>6. ASSUME NEW p \in Candidates, D!Bind(p) \/ D!Listen(p) \/ D!Retiring(p)
      PROVE  Unshared'
  BY <1>6 DEF D!Bind, D!Listen, D!FailureCleansUp, D!Retiring, D!Check, D!Remove, D!DropSocket
<1>7. CASE UNCHANGED D!vars
  BY <1>7 DEF D!vars
<1> QED BY <1>2, <1>3, <1>4, <1>5, <1>6, <1>7 DEF D!Next, D!Running, D!Electing

\* The pid file is accounted for in every behaviour.
LEMMA AlwaysAccounted == ASSUME D!DaemonLockAssumption PROVE D!Spec => []Accounted
<1>1. D!Init => Accounted
  BY ElectionInit
<1>2. Accounted /\ [D!Next]_(D!vars) => Accounted'
  BY ElectionTypes, AccountedStep DEF Accounted
<1> QED BY <1>1, <1>2, PTL DEF D!Spec

\* A daemon that stops or fails to start has given its lock back; only killed
\* processes leave one behind.
THEOREM LocksAreGivenBack ==
  ASSUME D!DaemonLockAssumption PROVE D!Spec => []D!OnlyCrashesLeaveALock
<1>1. D!Spec => []Accounted
  BY AlwaysAccounted
<1> QED BY <1>1, PTL DEF Accounted

\* As long as no process is killed there is one daemon at most, however many
\* candidates race, stop and fail to bind.
THEOREM ElectionIsSafe ==
  ASSUME D!DaemonLockAssumption PROVE D!Spec => []D!OneDaemonUnlessKilled
<1>1. D!Init => Unshared
  BY ElectionInit
<1>2. Accounted /\ Unshared /\ [D!Next]_(D!vars) => Unshared'
  BY UnsharedStep
<1>3. Unshared => D!OneDaemonUnlessKilled
  BY DEF Unshared, D!OneDaemonUnlessKilled, D!OneDaemon
<1>4. D!Spec => []Accounted
  BY AlwaysAccounted
<1> QED BY <1>1, <1>2, <1>3, <1>4, PTL DEF D!Spec

-----------------------------------------------------------------------------
(* The proxy.                                                               *)

\* Where a request waits depends on the state of the connection.
ByStatus ==
  /\ xStatus # "connecting" => xPending = {}
  /\ xStatus # "ready" => xInflight = {} /\ xAtDaemon = {}
  /\ xStatus # "failed" => xBacklog = {} /\ xLocal = {}

Waiting == xPending \cup xInflight \cup xBacklog \cup xLocal

\* The books of one request: it waits only after it arrived and only while it
\* is unanswered, in the engine or in the backlog but not in both; the daemon
\* still has it only if it is in flight or its late answer will be dropped.
BookedOne(m) ==
  /\ m \in Waiting \cup xAtDaemon => m \in xSent
  /\ m \notin xSent => xReplies[m] = 0
  /\ xReplies[m] <= 1
  /\ m \in X!Tracked =>
       /\ m \in Waiting => xReplies[m] = 0
       /\ m \in xSent /\ xReplies[m] = 0 => m \in Waiting
       /\ m \in xBacklog => m \notin xLocal
       /\ m \in xAtDaemon => m \in xInflight \cup xTimedOut

Booked == \A m \in X!Requests : BookedOne(m)

ProxyInv == X!TypeOK /\ ByStatus /\ Booked

\* Nothing has arrived and nothing is booked.
LEMMA ProxyInit == X!Init => ProxyInv
<1> SUFFICES ASSUME X!Init PROVE ProxyInv
  OBVIOUS
<1>1. X!TypeOK /\ ByStatus
  BY DEF X!Init, X!TypeOK, ByStatus
<1>2. Booked
  <2>1. ASSUME NEW m \in X!Requests PROVE BookedOne(m)
    <3>1. xReplies[m] = 0 /\ 0 <= 1
      BY DEF X!Init, X!Messages
    <3> QED BY <3>1 DEF X!Init, BookedOne, Waiting
  <2> QED BY <2>1 DEF Booked
<1> QED BY <1>1, <1>2 DEF ProxyInv

\* A response on stdout keeps the type of the count.
LEMMA WriteTypes ==
  ASSUME NEW ids, xReplies \in [X!Messages -> Nat], X!WriteClient(ids)
  PROVE  /\ xReplies' \in [X!Messages -> Nat]
         /\ \A m \in X!Messages : xReplies'[m] = IF m \in ids THEN xReplies[m] + 1
                                                           ELSE xReplies[m]
BY DEF X!WriteClient

\* Every step keeps the types.
LEMMA ProxyTypes == X!TypeOK /\ [X!Next]_(X!vars) => X!TypeOK'
<1> SUFFICES ASSUME X!TypeOK, [X!Next]_(X!vars) PROVE X!TypeOK'
  OBVIOUS
<1> USE DEF X!TypeOK
<1>1. X!Tracked \subseteq X!Requests /\ X!Requests \subseteq X!Messages
      /\ Tools \subseteq X!Tracked /\ Answers \subseteq X!Messages
  BY DEF X!Tracked, X!Requests, X!Messages
<1>2. xReplies' \in [X!Messages -> Nat]
  <2>1. xReplies' = xReplies \/ \E ids : X!WriteClient(ids)
    BY DEF X!Next, X!HostSends, X!Buffer, X!SendToDaemon, X!HandleLocally, X!DaemonAnswers,
       X!BacklogAnswers, X!DaemonAsks, X!Deadline, X!DeadlineTooLate, X!DeadlineFires,
       X!Partial,
       X!LocalAnswers, X!Resolves, X!Connected, X!Unavailable, X!DaemonLost, X!Shutdown, X!vars
  <2> QED BY <2>1, WriteTypes
<1>3. ASSUME NEW m \in X!Messages, X!HostSends(m) PROVE X!TypeOK'
  BY <1>1, <1>2, <1>3 DEF X!HostSends, X!Buffer, X!SendToDaemon, X!HandleLocally, X!Arrives,
     X!Forward, X!TrackInflight
<1>4. ASSUME NEW m \in X!Messages, X!DaemonAnswers(m) \/ X!BacklogAnswers(m) PROVE X!TypeOK'
  BY <1>1, <1>2, <1>4 DEF X!DaemonAnswers, X!BacklogAnswers
<1>5. ASSUME NEW t \in Tools, X!Deadline(t) \/ X!LocalAnswers(t) PROVE X!TypeOK'
  BY <1>1, <1>2, <1>5 DEF X!Deadline, X!DeadlineTooLate, X!DeadlineFires, X!LocalAnswers,
     X!routeVars
<1>6. CASE X!Resolves \/ X!DaemonLost
  BY <1>1, <1>2, <1>6 DEF X!Resolves, X!Connected, X!Unavailable, X!DaemonLost, X!Flush,
     X!Forward, X!TrackInflight, X!Orphaned
<1>7. ASSUME NEW a \in Answers, X!DaemonAsks(a) PROVE X!TypeOK'
  BY <1>2, <1>7 DEF X!DaemonAsks, X!routeVars
<1>8. CASE X!Shutdown \/ UNCHANGED X!vars
  BY <1>2, <1>8 DEF X!Shutdown, X!vars, X!routeVars
<1> QED BY <1>3, <1>4, <1>5, <1>6, <1>7, <1>8 DEF X!Next

\* What waits in a place is moved or dropped when the connection changes.
LEMMA StatusStep == ByStatus /\ [X!Next]_(X!vars) => ByStatus'
<1> SUFFICES ASSUME ByStatus, [X!Next]_(X!vars) PROVE ByStatus'
  OBVIOUS
<1> USE DEF ByStatus
<1>1. ASSUME NEW m \in X!Messages, X!HostSends(m) PROVE ByStatus'
  BY <1>1 DEF X!HostSends, X!Buffer, X!SendToDaemon, X!HandleLocally, X!Arrives
<1>2. ASSUME NEW m \in X!Messages, X!DaemonAnswers(m) \/ X!BacklogAnswers(m) PROVE ByStatus'
  BY <1>2 DEF X!DaemonAnswers, X!BacklogAnswers
<1>3. ASSUME NEW t \in Tools, X!Deadline(t) \/ X!LocalAnswers(t) PROVE ByStatus'
  BY <1>3 DEF X!Deadline, X!DeadlineTooLate, X!DeadlineFires, X!LocalAnswers, X!routeVars
<1>4. CASE X!Resolves \/ X!DaemonLost
  BY <1>4 DEF X!Resolves, X!Connected, X!Unavailable, X!DaemonLost
<1>5. CASE X!Shutdown \/ (\E a \in Answers : X!DaemonAsks(a)) \/ UNCHANGED X!vars
  BY <1>5 DEF X!Shutdown, X!DaemonAsks, X!routeVars, X!vars
<1> QED BY <1>1, <1>2, <1>3, <1>4, <1>5 DEF X!Next

\* Every step keeps the books of every request.
LEMMA BookStep ==
  ASSUME X!ProxyAssumption, ProxyInv, [X!Next]_(X!vars), NEW r \in X!Requests
  PROVE  BookedOne(r)'
<1>1. /\ r \in X!Messages /\ BookedOne(r) /\ ByStatus
      /\ xReplies \in [X!Messages -> Nat] /\ xReplies[r] \in Nat
      /\ xInflight \subseteq X!Tracked /\ xLocal \subseteq Tools
  BY DEF ProxyInv, X!TypeOK, Booked, X!Requests, X!Messages
<1>2. /\ r \in X!Tracked <=> r \notin Inits
      /\ r \in Inits <=> r \notin X!Tracked
      /\ r \notin Answers
      /\ r \in X!Tracked <=> r \in Tools \cup Others
      /\ r \in Tools => r \notin Others
  BY DEF X!ProxyAssumption, X!Tracked, X!Requests
<1>3. /\ 0 + 1 = 1 /\ 0 <= 1 /\ 1 # 0
      /\ xReplies[r] <= 1 => xReplies[r] = 0 \/ xReplies[r] = 1
  BY <1>1
<1> USE DEF BookedOne, Waiting, ByStatus
<1>4. ASSUME NEW m \in X!Messages, X!HostSends(m) PROVE BookedOne(r)'
  <2>1. CASE r # m
    <3>1. CASE X!Buffer(m)
      <4>1. xReplies'[r] = xReplies[r]
        BY <1>1, <2>1, <3>1, WriteTypes DEF X!Buffer
      <4> QED BY <1>1, <2>1, <3>1, <4>1 DEF X!Buffer, X!Arrives
    <3>2. CASE X!SendToDaemon(m)
      <4>1. xReplies'[r] = xReplies[r]
        BY <1>1, <2>1, <3>2, WriteTypes DEF X!SendToDaemon
      <4> QED BY <1>1, <2>1, <3>2, <4>1
          DEF X!SendToDaemon, X!Arrives, X!Forward, X!TrackInflight
    <3>3. CASE X!HandleLocally(m)
      <4>1. xReplies'[r] = xReplies[r]
        BY <1>1, <2>1, <3>3, WriteTypes DEF X!HandleLocally, X!Immediate
      <4> QED BY <1>1, <2>1, <3>3, <4>1 DEF X!HandleLocally, X!Arrives
    <3> QED BY <1>4, <3>1, <3>2, <3>3 DEF X!HostSends
  <2>2. CASE r = m
    <3>0. r \notin xSent /\ xReplies[r] = 0 /\ r \notin Waiting /\ r \notin xAtDaemon
      BY <1>1, <1>4, <2>2 DEF X!HostSends, X!Buffer, X!SendToDaemon, X!HandleLocally, X!Arrives
    <3>1. CASE X!Buffer(m)
      <4>1. xReplies'[r] = IF r \in Inits THEN 1 ELSE 0
        BY <1>1, <1>3, <2>2, <3>0, <3>1, WriteTypes DEF X!Buffer
      <4> QED BY <1>1, <1>2, <1>3, <2>2, <3>0, <3>1, <4>1 DEF X!Buffer, X!Arrives
    <3>2. CASE X!SendToDaemon(m)
      <4>1. xReplies'[r] = IF r \in Inits THEN 1 ELSE 0
        BY <1>1, <1>3, <2>2, <3>0, <3>2, WriteTypes DEF X!SendToDaemon
      <4> QED BY <1>1, <1>2, <1>3, <2>2, <3>0, <3>2, <4>1
          DEF X!SendToDaemon, X!Arrives, X!Forward, X!TrackInflight
    <3>3. CASE X!HandleLocally(m)
      <4>1. xReplies'[r] = IF r \in Inits \cup Others THEN 1 ELSE 0
        BY <1>1, <1>2, <1>3, <2>2, <3>0, <3>3, WriteTypes
        DEF X!HandleLocally, X!Immediate
      <4> QED BY <1>1, <1>2, <1>3, <2>2, <3>0, <3>3, <4>1 DEF X!HandleLocally, X!Arrives
    <3> QED BY <1>4, <3>1, <3>2, <3>3 DEF X!HostSends
  <2> QED BY <2>1, <2>2
<1>5. ASSUME NEW m \in X!Messages, X!DaemonAnswers(m) PROVE BookedOne(r)'
  <2>1. CASE X!AlreadyTimedOut(m)
    BY <1>1, <1>5, <2>1 DEF X!DaemonAnswers, X!AlreadyTimedOut
  <2>2. CASE ~X!AlreadyTimedOut(m)
    <3>1. xReplies'[r] = IF r \in {m} \ Inits THEN xReplies[r] + 1 ELSE xReplies[r]
      BY <1>1, <1>5, <2>2, WriteTypes DEF X!DaemonAnswers
    <3>2. /\ UNCHANGED <<xStatus, xSent, xPending, xBacklog, xLocal, xTimedOut>>
          /\ xAtDaemon' = xAtDaemon \ {m} /\ xInflight' = xInflight \ {m}
          /\ m \in xAtDaemon /\ m \notin xTimedOut /\ xStatus = "ready"
      BY <1>5, <2>2 DEF X!DaemonAnswers, X!AlreadyTimedOut
    <3> QED BY <1>1, <1>2, <1>3, <3>1, <3>2
  <2> QED BY <2>1, <2>2
<1>6. ASSUME NEW m \in X!Messages, X!BacklogAnswers(m) PROVE BookedOne(r)'
  <2>1. xReplies'[r] = IF r \in {m} \ Inits THEN xReplies[r] + 1 ELSE xReplies[r]
    BY <1>1, <1>6, WriteTypes DEF X!BacklogAnswers
  <2> QED BY <1>1, <1>2, <1>3, <1>6, <2>1 DEF X!BacklogAnswers
<1>7. ASSUME NEW t \in Tools, X!DeadlineFires(t) PROVE BookedOne(r)'
  <2>1. xReplies'[r] = IF r = t THEN xReplies[r] + 1 ELSE xReplies[r]
    BY <1>1, <1>7, WriteTypes DEF X!DeadlineFires, X!Partial
  <2> QED BY <1>1, <1>2, <1>3, <1>7, <2>1 DEF X!DeadlineFires
<1>8. ASSUME NEW t \in Tools, X!LocalAnswers(t) PROVE BookedOne(r)'
  <2>1. xReplies'[r] = IF r = t THEN xReplies[r] + 1 ELSE xReplies[r]
    BY <1>1, <1>8, WriteTypes DEF X!LocalAnswers
  <2> QED BY <1>1, <1>2, <1>3, <1>8, <2>1 DEF X!LocalAnswers
<1>9. CASE X!Connected
  BY <1>1, <1>9 DEF X!Connected, X!Flush, X!Forward, X!TrackInflight
<1>10. CASE X!Unavailable
  BY <1>1, <1>10 DEF X!Unavailable
<1>11. CASE X!DaemonLost
  <2>1. xReplies'[r] = IF r \in xInflight \cap Others THEN xReplies[r] + 1 ELSE xReplies[r]
    BY <1>1, <1>2, <1>11, WriteTypes DEF X!DaemonLost, X!Immediate, X!Orphaned
  <2> QED BY <1>1, <1>2, <1>3, <1>11, <2>1 DEF X!DaemonLost, X!Orphaned
<1>12. CASE \/ X!Shutdown \/ UNCHANGED X!vars
            \/ \E a \in Answers : X!DaemonAsks(a)
            \/ \E t \in Tools : X!DeadlineTooLate(t)
  BY <1>1, <1>12 DEF X!Shutdown, X!DaemonAsks, X!DeadlineTooLate, X!routeVars, X!vars
<1> QED BY <1>4, <1>5, <1>6, <1>7, <1>8, <1>9, <1>10, <1>11, <1>12
        DEF X!Next, X!Resolves, X!Deadline

\* The books are kept in every behaviour.
LEMMA AlwaysBooked == ASSUME X!ProxyAssumption PROVE X!Spec => []ProxyInv
<1>1. ProxyInv /\ [X!Next]_(X!vars) => ProxyInv'
  <2> SUFFICES ASSUME ProxyInv, [X!Next]_(X!vars) PROVE ProxyInv'
    OBVIOUS
  <2>1. X!TypeOK' /\ ByStatus'
    BY ProxyTypes, StatusStep DEF ProxyInv
  <2>2. Booked'
    BY BookStep DEF Booked
  <2> QED BY <2>1, <2>2 DEF ProxyInv
<1> QED BY ProxyInit, <1>1, PTL DEF X!Spec

\* The host gets at most one response to each of its requests, however the
\* daemon, the deadlines and the fallback race.
THEOREM NoSecondReply ==
  ASSUME X!ProxyAssumption PROVE X!Spec => []X!AtMostOneReply
<1>1. ProxyInv => X!AtMostOneReply
  BY DEF ProxyInv, Booked, BookedOne, X!AtMostOneReply
<1> QED BY <1>1, AlwaysBooked, PTL

\* An unanswered request is always in one of the places from which the daemon,
\* the deadline or the engine will answer it.
THEOREM NoRequestIsLost ==
  ASSUME X!ProxyAssumption PROVE X!Spec => []X!NothingForgotten
<1>1. ProxyInv => X!NothingForgotten
  BY DEF ProxyInv, Booked, BookedOne, X!NothingForgotten, Waiting, X!Requests
<1> QED BY <1>1, AlwaysBooked, PTL

-----------------------------------------------------------------------------
(* The four of them.                                                        *)

\* A behaviour of the four is one of the mutex.
LEMMA MutexBehaves == ProcessesSpec => Spec
<1>1. AllInit => Init
  BY DEF AllInit
<1>2. [AllNext]_allVars => [Next]_vars
  BY DEF AllNext, allVars
<1> QED BY <1>1, <1>2, PTL DEF ProcessesSpec, Spec

\* A behaviour of the four is one of the lock file.
LEMMA FileBehaves == ProcessesSpec => L!Spec
<1>1. AllInit => L!Init
  BY DEF AllInit
<1>2. [AllNext]_allVars => [L!Next]_(L!vars)
  BY DEF AllNext, allVars, lVars, L!vars, L!lockVars, L!procVars
<1> QED BY <1>1, <1>2, PTL DEF ProcessesSpec, L!Spec

\* A behaviour of the four is one of the election.
LEMMA ElectionBehaves == ProcessesSpec => D!Spec
<1>1. AllInit => D!Init
  BY DEF AllInit
<1>2. [AllNext]_allVars => [D!Next]_(D!vars)
  BY DEF AllNext, allVars, dVars, D!vars
<1> QED BY <1>1, <1>2, PTL DEF ProcessesSpec, D!Spec

\* A behaviour of the four is one of the proxy.
LEMMA ProxyBehaves == ProcessesSpec => X!Spec
<1>1. AllInit => X!Init
  BY DEF AllInit
<1>2. [AllNext]_allVars => [X!Next]_(X!vars)
  BY DEF AllNext, allVars, xVars, X!vars
<1> QED BY <1>1, <1>2, PTL DEF ProcessesSpec, X!Spec

-----------------------------------------------------------------------------
\* The states of the mutex, of the lock file, of the election and of the proxy keep
\* their types, whatever the callers, processes, candidates and messages are.
THEOREM ProcessesAreTyped == ProcessesSpec => []TypesOK
<1>1. Spec => []IInv
  BY MutexInv
<1>2. L!Spec => []FileInv
  BY ProcessesAssumption, LockInv
<1>3. D!Spec => []Accounted
  BY ProcessesAssumption, AlwaysAccounted
<1>4. X!Spec => []ProxyInv
  BY ProcessesAssumption, AlwaysBooked
<1>5. IInv /\ FileInv /\ Accounted /\ ProxyInv => TypesOK
  BY DEF IInv, FileInv, Accounted, ProxyInv, TypesOK
<1> QED BY <1>1, <1>2, <1>3, <1>4, <1>5, MutexBehaves, FileBehaves, ElectionBehaves,
        ProxyBehaves, PTL

\* A finished operation has left no lock file, for any number of processes, whatever
\* crashes, closes and expiries do to its file.
THEOREM NoFileIsLeftBehind == ProcessesSpec => []NoLeak
<1>1. L!Spec => []L!NoLeak
  BY ProcessesAssumption, NothingLeaks
<1> QED BY <1>1, FileBehaves, PTL DEF NoLeak

\* Without a kill there is one daemon at most, for any number of candidates.
THEOREM NoSecondDaemon == ProcessesSpec => []OneDaemonUnlessKilled
<1>1. D!Spec => []D!OneDaemonUnlessKilled
  BY ProcessesAssumption, ElectionIsSafe
<1> QED BY <1>1, ElectionBehaves, PTL DEF OneDaemonUnlessKilled

\* Only killed processes leave a pid file behind, for any number of candidates.
THEOREM PidFilesAreGivenBack == ProcessesSpec => []OnlyCrashesLeaveALock
<1>1. D!Spec => []D!OnlyCrashesLeaveALock
  BY ProcessesAssumption, LocksAreGivenBack
<1> QED BY <1>1, ElectionBehaves, PTL DEF OnlyCrashesLeaveALock

\* The host gets at most one response to each of its requests, for any sets of
\* messages, however the daemon, the deadlines and the fallback race.
THEOREM HostHearsOnce == ProcessesSpec => []AtMostOneReply
<1>1. X!Spec => []X!AtMostOneReply
  BY ProcessesAssumption, NoSecondReply
<1> QED BY <1>1, ProxyBehaves, PTL DEF AtMostOneReply

\* An unanswered request is always in one of the places from which the daemon, the
\* deadline or the engine will answer it, for any sets of messages.
THEOREM NoRequestIsDropped == ProcessesSpec => []NothingForgotten
<1>1. X!Spec => []X!NothingForgotten
  BY ProcessesAssumption, NoRequestIsLost
<1> QED BY <1>1, ProxyBehaves, PTL DEF NothingForgotten
=============================================================================
