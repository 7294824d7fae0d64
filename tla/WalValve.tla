------------------------------ MODULE WalValve ------------------------------
(***************************************************************************)
(* The valve that bounds the write-ahead log of a bulk index whose         *)
(* automatic checkpoints are deferred: WalCheckpointValve of               *)
(* src/db/wal-valve.ts, with the writer that consults it between two       *)
(* transactions (indexAll and sync of src/index.ts, storeResult of         *)
(* src/extraction/index.ts, resolveAndPersistBatched of                    *)
(* src/resolution/index.ts) and the checkpoints it has run on threads of   *)
(* their own.  Sizes are in units of the soft threshold.                   *)
(*                                                                         *)
(* Of SQLite's log there is what the valve depends on: the file does not   *)
(* shrink; a passive checkpoint copies the frames that no reader is behind *)
(* of, as many as there are when it starts, and says whether these were    *)
(* all; a commit that finds everything copied and no reader starts over at *)
(* the head of the file; a truncating checkpoint needs the same.           *)
(***************************************************************************)
EXTENDS Naturals

CONSTANTS
  MaxTransaction,  \* frames of one transaction, at most
  MaxPasses,       \* MAX_PAUSED_BACKFILL_PASSES
  MaxFrames        \* bound of the model: frames written

WalValveAssumption ==
  MaxTransaction \in Nat /\ MaxPasses \in Nat \ {0} /\ MaxFrames \in Nat \ {0}

Soft == 1
Hard == 2 * Soft
FileCap == 4 * Soft

VARIABLES
  \* the log
  size,      \* of the file
  log,       \* frames in it since it was last started over
  done,      \* of these, copied into the database
  pin,       \* the frame that a reader has its snapshot at, 0 for none
  \* the valve
  baseline,  \* sizeAtLastFullBackfill
  inflight,  \* none, running, or what the timer's pass has found: full, partial, null
  pass,      \* the same for the pass of a pause, or truncate
  passes,    \* partial passes of this pause
  giveUps,   \* consecutiveGiveUps, counted to two
  futile,    \* the cooldown runs
  \* the writer
  pc,        \* between transactions, in one, parked, at the fold, parked for it, drain, done
  \* the model
  frames,    \* written so far
  folded,    \* history: the pause of the fold has ended with success
  crowded    \* history: since the file was last empty, a reader has been behind, or a
             \* checkpoint could not be run

file == <<size, log, done, pin>>
timer == <<baseline, inflight>>
pause == <<pass, passes, giveUps, futile>>
vars == <<file, timer, pause, pc, frames, folded, crowded>>

Found == {"full", "partial", "null"}
Parked == pc \in {"parked", "parkedToFold"}
Larger(a, b) == IF a > b THEN a ELSE b
Smaller(a, b) == IF a < b THEN a ELSE b

\* The types of the state; and a pause has a pass, or waits for the timer's.
TypeOK ==
  /\ size \in 0 .. MaxFrames /\ log \in 0 .. size /\ done \in 0 .. log /\ pin \in 0 .. log
  /\ baseline \in 0 .. MaxFrames
  /\ inflight \in {"none", "running"} \cup Found
  /\ pass \in {"none", "running", "truncate"} \cup Found
  /\ passes \in 0 .. MaxPasses /\ giveUps \in 0 .. 2 /\ futile \in BOOLEAN
  /\ pc \in {"between", "writing", "parked", "fold", "parkedToFold", "drain", "done"}
  /\ frames \in 0 .. MaxFrames
  /\ folded \in BOOLEAN /\ crowded \in BOOLEAN
  /\ pass # "none" => Parked /\ inflight = "none"

\* An earlier run may have left a log, all of it copied or not.
Init ==
  /\ size \in 0 .. 1 /\ log = size /\ done \in 0 .. log /\ pin = 0
  /\ baseline = 0 /\ inflight = "none" /\ pass = "none" /\ passes = 0
  /\ giveUps = 0 /\ futile = FALSE
  /\ pc = "between" /\ frames = size /\ folded = FALSE /\ crowded = FALSE

-----------------------------------------------------------------------------
(* SQLite.                                                                  *)

\* A reader takes its snapshot.  If all is copied it reads the database only.
ReaderBegins ==
  /\ pc # "done" /\ pin = 0 /\ done < log /\ pin' = log
  /\ crowded' = TRUE
  /\ UNCHANGED <<size, log, done, timer, pause, pc, frames, folded>>
ReaderEnds ==
  /\ pin # 0 /\ pin' = 0
  /\ UNCHANGED <<size, log, done, timer, pause, pc, frames, folded, crowded>>

\* A transaction commits.
StartsOver == done = log /\ pin = 0
Commit(k) ==
  /\ pc = "writing" /\ frames + k <= MaxFrames
  /\ frames' = frames + k /\ pc' = "between"
  /\ log' = (IF StartsOver THEN 0 ELSE log) + k
  /\ done' = IF StartsOver THEN 0 ELSE done
  /\ size' = Larger(size, log')
  /\ UNCHANGED <<pin, timer, pause, folded, crowded>>

\* What a passive checkpoint copies, and reports of the frames it saw.
Copied == IF pin = 0 THEN log ELSE Smaller(log, Larger(pin, done))
Report == IF Copied = log THEN "full" ELSE "partial"

-----------------------------------------------------------------------------
(* The valve's own passes.                                                  *)

\* check, by the timer; fire.  Whoever waits for a pass goes on before the next tick.
Check ==
  /\ pc \in {"between", "writing"} /\ inflight = "none"
  /\ size > baseline + Soft
  /\ inflight' = "running"
  /\ UNCHANGED <<file, baseline, pause, pc, frames, folded, crowded>>
PassRuns ==
  /\ inflight = "running"
  /\ \/ done' = Copied /\ inflight' = Report /\ UNCHANGED crowded
     \/ UNCHANGED done /\ inflight' = "null" /\ crowded' = TRUE
  /\ UNCHANGED <<size, log, pin, baseline, pause, pc, frames, folded>>

\* What fire has follow: the size is the one of now, whatever was written since.
OnPass ==
  /\ inflight \in Found
  /\ inflight' = "none"
  /\ baseline' = IF inflight = "full" THEN size ELSE baseline
  /\ UNCHANGED <<file, pause, pc, frames, folded, crowded>>

-----------------------------------------------------------------------------
(* The writer's pauses.                                                     *)

\* backpressure.
BacklogOnly == size > baseline + Hard
OverCap == size > baseline + Hard \/ size > FileCap
Pause(next) == pc' = next /\ passes' = 0
Backpressure ==
  /\ pc = "between"
  /\ IF ~futile /\ OverCap THEN Pause("parked") ELSE pc' = "writing" /\ UNCHANGED passes
  /\ UNCHANGED <<file, timer, pass, giveUps, futile, frames, folded, crowded>>

\* backfillFully: after a pass of the timer, one of its own, and one more until one
\* is full or there were enough.
BeginPass ==
  /\ Parked /\ pass = "none" /\ inflight = "none" /\ passes < MaxPasses
  /\ pass' = "running"
  /\ UNCHANGED <<file, timer, passes, giveUps, futile, pc, frames, folded, crowded>>
PauseRuns ==
  /\ pass = "running"
  /\ \/ done' = Copied /\ pass' = Report /\ UNCHANGED crowded
     \/ UNCHANGED done /\ pass' = "null" /\ crowded' = TRUE
  /\ UNCHANGED <<size, log, pin, timer, passes, giveUps, futile, pc, frames, folded>>

Resumes(how) ==
  IF pc = "parked" THEN pc' = "writing" /\ UNCHANGED folded
  ELSE pc' = "drain" /\ folded' = how
Unavailable ==
  /\ pass = "null" /\ pass' = "none" /\ Resumes(FALSE)
  /\ UNCHANGED <<file, timer, passes, giveUps, futile, frames, crowded>>
Partial ==
  /\ pass = "partial" /\ pass' = "none" /\ passes' = passes + 1
  /\ UNCHANGED <<file, timer, giveUps, futile, pc, frames, folded, crowded>>
Full ==
  /\ pass = "full" /\ pass' = "truncate"
  /\ UNCHANGED <<file, timer, passes, giveUps, futile, pc, frames, folded, crowded>>

\* checkpointWalTruncate empties the file unless a reader or the lack of a thread
\* keeps it from doing so.
Truncate ==
  /\ pass = "truncate" /\ pass' = "none"
  /\ \/ StartsOver /\ size' = 0 /\ log' = 0 /\ done' = 0 /\ crowded' = FALSE
     \/ UNCHANGED <<size, log, done>> /\ crowded' = TRUE
  /\ baseline' = size' /\ giveUps' = 0 /\ futile' = FALSE
  /\ Resumes(TRUE)
  /\ UNCHANGED <<pin, inflight, passes, frames>>

Exhausted == passes = MaxPasses
GiveUp ==
  /\ Parked /\ pass = "none" /\ inflight = "none" /\ Exhausted
  /\ giveUps' = Smaller(giveUps + 1, 2) /\ futile' = (giveUps >= 1)
  /\ passes' = 0 /\ Resumes(FALSE)
  /\ UNCHANGED <<file, timer, pass, frames, crowded>>

\* futileUntil is over.
CoolsDown ==
  /\ futile /\ futile' = FALSE
  /\ UNCHANGED <<file, timer, pass, passes, giveUps, pc, frames, folded, crowded>>

-----------------------------------------------------------------------------
(* The end of a phase.                                                      *)

\* The writer has no more to write: foldNow, then stop and drain.
EndsPhase ==
  /\ pc = "writing" /\ pc' = "fold"
  /\ UNCHANGED <<file, timer, pause, frames, folded, crowded>>
FoldNow ==
  /\ pc = "fold" /\ inflight = "none"
  /\ IF size > baseline THEN Pause("parkedToFold") ELSE pc' = "drain" /\ UNCHANGED passes
  /\ UNCHANGED <<file, timer, pass, giveUps, futile, frames, folded, crowded>>
Drain ==
  /\ pc = "drain" /\ inflight = "none" /\ pc' = "done"
  /\ UNCHANGED <<file, timer, pause, frames, folded, crowded>>

Checkpoints == PassRuns \/ OnPass \/ BeginPass \/ PauseRuns \/ Unavailable \/ Partial \/ Full
               \/ Truncate \/ GiveUp
Writes == Backpressure \/ EndsPhase \/ FoldNow \/ Drain \/ \E k \in 1 .. MaxTransaction : Commit(k)
Next == ReaderBegins \/ ReaderEnds \/ Check \/ CoolsDown \/ Checkpoints \/ Writes

Spec == Init /\ [][Next]_vars
FairSpec == Spec /\ WF_vars(Checkpoints) /\ WF_vars(Writes)

-----------------------------------------------------------------------------
(* Properties.                                                              *)

\* As long as no reader has been in the way and checkpoints could be run, the file
\* is at most one transaction larger than its cap.
FileIsBounded == ~crowded => size <= FileCap + MaxTransaction

\* A pause that ends with success has left nothing to copy for the phase that
\* follows, and its readers will not page through a log.
FoldedMeansFolded == pc = "drain" /\ folded => done = log

\* The writer goes on in the end, a reader that never leaves or not.
ValveIsOver == pc = "done"
=============================================================================
