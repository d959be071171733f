---------------------------- MODULE MCTimerQueue ----------------------------
(***************************************************************************)
(* Two addresses and two timers, so that an address may be used again, one *)
(* thread besides the loop thread, and one setting of the wall clock.      *)
(***************************************************************************)
EXTENDS TimerQueue
=============================================================================
