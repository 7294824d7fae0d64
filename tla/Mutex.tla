-------------------------------- MODULE Mutex --------------------------------
(***************************************************************************)
(* The in-process Mutex of src/utils.ts, which lets one indexing operation *)
(* of a HomeGraph instance run at a time.  It hands nothing over: release  *)
(* frees the lock and resolves the promise of the first waiter, whose      *)
(* continuation runs a microtask later and looks at the lock again.  A     *)
(* call that comes in between takes it.                                    *)
(***************************************************************************)
EXTENDS Naturals, Sequences, FiniteSets

CONSTANTS
  Callers,    \* concurrent calls of withLock
  MaxCalls    \* bound of the model: calls each of them makes

ASSUME MutexAssumption == MaxCalls \in Nat

VARIABLES
  locked,
  waitQueue,   \* resolvers of the waiting calls, in the order they came
  woken,       \* resolved, continuation not yet run
  holders,     \* running their function
  calls        \* made so far

vars == <<locked, waitQueue, woken, holders, calls>>

\* A call waits once, and not while it is woken or runs.
OnePlace ==
  /\ \A i, j \in 1 .. Len(waitQueue) : waitQueue[i] = waitQueue[j] => i = j
  /\ \A i \in 1 .. Len(waitQueue) : waitQueue[i] \notin woken \cup holders
  /\ woken \cap holders = {}

\* The types of the state, with every call in one place.
TypeOK ==
  /\ locked \in BOOLEAN
  /\ waitQueue \in Seq(Callers)
  /\ woken \subseteq Callers
  /\ holders \subseteq Callers
  /\ calls \in [Callers -> 0 .. MaxCalls]
  /\ OnePlace

Init ==
  /\ locked = FALSE
  /\ waitQueue = <<>> /\ woken = {} /\ holders = {}
  /\ calls = [c \in Callers |-> 0]

-----------------------------------------------------------------------------
Queued(c) == \E i \in 1 .. Len(waitQueue) : waitQueue[i] = c
Away(c) == ~Queued(c) /\ c \notin woken \cup holders

\* The test at the head of acquire's loop: take the lock or join the queue.
TakeOrWait(c) ==
  IF locked
    THEN waitQueue' = Append(waitQueue, c) /\ UNCHANGED <<locked, holders>>
    ELSE /\ locked' = TRUE /\ holders' = holders \cup {c}
         /\ UNCHANGED waitQueue

\* acquire() is called.
Call(c) ==
  /\ Away(c)
  /\ calls[c] < MaxCalls
  /\ calls' = [calls EXCEPT ![c] = @ + 1]
  /\ TakeOrWait(c)
  /\ UNCHANGED woken

\* The continuation of a resolved waiter, with an `if' for the loop's `while'.
GoesAhead(c) ==
  /\ c \in woken
  /\ woken' = woken \ {c}
  /\ locked' = TRUE /\ holders' = holders \cup {c}
  /\ UNCHANGED <<waitQueue, calls>>

\* The continuation of a resolved waiter goes round the loop.
Resume(c) ==
  /\ c \in woken
  /\ woken' = woken \ {c}
  /\ TakeOrWait(c)
  /\ UNCHANGED calls

\* Only the first waiter ever learns of a release.
WakeButKeep ==
  /\ woken' = IF waitQueue = <<>> THEN woken ELSE woken \cup {Head(waitQueue)}
  /\ UNCHANGED waitQueue
WakeAndDrop ==
  /\ woken' = IF waitQueue = <<>> THEN woken ELSE woken \cup {Head(waitQueue)}
  /\ waitQueue' = <<>>
WakeFirst ==
  IF waitQueue = <<>>
    THEN UNCHANGED <<waitQueue, woken>>
    ELSE waitQueue' = Tail(waitQueue) /\ woken' = woken \cup {Head(waitQueue)}

\* The function of withLock returns or throws; release() runs either way.
Release(c) ==
  /\ c \in holders
  /\ holders' = holders \ {c}
  /\ locked' = FALSE
  /\ WakeFirst
  /\ UNCHANGED calls

-----------------------------------------------------------------------------
Next == \E c \in Callers : Call(c) \/ Resume(c) \/ Release(c)

Spec == Init /\ [][Next]_vars

\* Microtasks run and the guarded functions settle; nobody has to call.
FairSpec == Spec /\ \A c \in Callers : WF_vars(Resume(c)) /\ WF_vars(Release(c))

-----------------------------------------------------------------------------
(* What the mutex promises.                                                 *)

\* Two guarded functions never run together, though a woken waiter is not
\* given the lock and a newcomer may take it first.
MutualExclusion ==
  /\ \A c, d \in holders : c = d
  /\ locked <=> holders # {}

\* The queue with its wake-ups is a plain lock to those who use it: a call that
\* is woken too early, queued again or overtaken is still one that waits, and
\* none is dropped on the way or let in by a second door.
Turn == INSTANCE Turns WITH waiting <- Len(waitQueue) + Cardinality(woken),
                            busy <- holders # {}
TakesTurns == Turn!Spec

\* The lock is not free while calls wait for it, unless one has been woken
\* and will find that out.
NoLostWakeup == waitQueue # <<>> => locked \/ woken # {}

\* A call that waits gets the lock in the end, as long as the others do not
\* call for ever.
EveryCallRuns == \A c \in Callers : (Queued(c) \/ c \in woken) ~> c \in holders
=============================================================================
