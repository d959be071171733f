--------------------------- MODULE CountDownLatch ---------------------------
(***************************************************************************)
(* ouge::CountDownLatch (base/CountDownLatch.h).  A waiter is about to     *)
(* test the predicate with the mutex held ("wait"), asleep in the wait set *)
(* of condition_ ("condition"), or has come back ("returned").  Waking up  *)
(* is going back to the test, so that a notification that comes too early, *)
(* or none at all (a spurious wake-up), is the same step.                  *)
(***************************************************************************)
EXTENDS Integers

CONSTANTS Waiters, Count

VARIABLES count_, waiterPc

Init == count_ = Count /\ waiterPc = [w \in Waiters |-> "wait"]

OpensEarly == count_ <= 1

(* The predicate of wait. *)
Open == count_ <= 0

Wait(w) ==
  /\ waiterPc[w] = "wait"
  /\ waiterPc' = [waiterPc EXCEPT ![w] = IF Open THEN "returned" ELSE "condition"]
  /\ UNCHANGED count_

SpuriousWakeup(w) ==
  /\ waiterPc[w] = "condition"
  /\ waiterPc' = [waiterPc EXCEPT ![w] = "wait"]
  /\ UNCHANGED count_

(* --count_, and notify_all when it comes to 0, not when it goes below. *)
CountDown ==
  /\ count_' = count_ - 1
  /\ waiterPc' = [w \in Waiters |->
       IF count_ = 1 /\ waiterPc[w] = "condition" THEN "wait" ELSE waiterPc[w]]

LatchStep == \E w \in Waiters : Wait(w) \/ SpuriousWakeup(w)

LatchTypeOK ==
  /\ count_ \in Int
  /\ waiterPc \in [Waiters -> {"wait", "condition", "returned"}]

=============================================================================
