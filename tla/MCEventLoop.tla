---------------------------- MODULE MCEventLoop ----------------------------
(***************************************************************************)
(* Two threads besides the loop thread and three functors: enough for a    *)
(* functor queued before, during and after each phase of an iteration      *)
(* while another thread is between its push and its wakeup().              *)
(***************************************************************************)
EXTENDS EventLoop
=============================================================================
