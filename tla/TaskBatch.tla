----------------------------- MODULE TaskBatch ------------------------------
(***************************************************************************)
(* A ThreadPool whose tasks count a CountDownLatch down as they return,    *)
(* and threads that wait on the latch for all of them: what the two        *)
(* classes are for.                                                        *)
(***************************************************************************)
EXTENDS ThreadPool

CONSTANT Waiters

(* The latch counts with an int. *)
ASSUME BatchAssumption == IsFiniteSet(Tasks)

VARIABLES count_, waiterPc

Latch == INSTANCE CountDownLatch WITH Count <- Cardinality(Tasks)

batchVars == <<vars, count_, waiterPc>>

BatchInit == Init /\ Latch!Init

PoolSteps == PoolStep /\ UNCHANGED <<count_, waiterPc>>
TaskCountsDown(t) == TaskReturns(t) /\ Latch!CountDown
LatchSteps == Latch!LatchStep /\ UNCHANGED vars

Next == PoolSteps \/ (\E t \in Threads : TaskCountsDown(t)) \/ LatchSteps

Spec == BatchInit /\ [][Next]_batchVars

(***************************************************************************)
(* Threads are scheduled, tasks return, the owner finishes start and stop  *)
(* once it has begun.  Nobody is obliged to call run or stop, and no       *)
(* spurious wake-up need ever happen.                                      *)
(***************************************************************************)
FairSpec ==
  /\ Spec
  /\ \A t \in Threads :
       WF_batchVars((ThreadStep(t) /\ UNCHANGED <<count_, waiterPc>>) \/ TaskCountsDown(t))
  /\ WF_batchVars(OwnerStep /\ UNCHANGED <<count_, waiterPc>>)
  /\ \A w \in Waiters : WF_batchVars(Latch!Wait(w) /\ UNCHANGED vars)

(* The types, and what notify_one has to keep up (see NoLostNotify).       *)
NotifiesSuffice == TypeOK /\ Latch!LatchTypeOK /\ NoLostNotify

(* A task that run has queued is executed and returns; only a task that is *)
(* still in the queue of a stopped pool may stay there, and no worker that *)
(* notices stop drops the one it has taken.                                *)
OnlyStopLeavesTasks ==
  \A f \in Tasks :
    [](f \in ToSet(queue_) \cup ToSet(executed) =>
         <>(f \in done) \/ <>[](f \in ToSet(queue_) /\ ~running_))

(* stop comes back: every worker, asleep or not, notices that running_ is  *)
(* false, finishes the task it has and exits.                              *)
StopReturns == owner = "joining" ~> owner = "stopped"

(* A thread comes back from CountDownLatch::wait only when all the tasks   *)
(* of the batch have returned, and then it does, also one that tests the   *)
(* predicate while the last task counts down.                              *)
LatchOpens ==
  \A w \in Waiters : /\ [](waiterPc[w] = "returned" => done = Tasks)
                     /\ done = Tasks ~> waiterPc[w] = "returned"

=============================================================================
