-------------------------------- MODULE Turns --------------------------------
(***************************************************************************)
(* What the operations of a HomeGraph instance expect of the mutex around  *)
(* them (src/index.ts): calls wait, one at a time gets its turn, and no    *)
(* order is promised.  Mutex implements it; IndexLock counts on no more.   *)
(***************************************************************************)
EXTENDS Naturals

VARIABLES
  waiting,   \* calls that wait for their turn
  busy       \* one of them has it

Init == waiting = 0 /\ busy = FALSE

\* A call joins those that wait, or goes ahead if nobody has the turn.
Join == waiting' = waiting + 1 /\ UNCHANGED busy
GoAhead == ~busy /\ busy' = TRUE /\ UNCHANGED waiting

\* One of the waiting calls gets the turn.
TakeTurn == ~busy /\ waiting > 0 /\ busy' = TRUE /\ waiting' = waiting - 1

GiveBack == busy /\ busy' = FALSE /\ UNCHANGED waiting

Next == Join \/ GoAhead \/ TakeTurn \/ GiveBack

Spec == Init /\ [][Next]_<<waiting, busy>>
=============================================================================
