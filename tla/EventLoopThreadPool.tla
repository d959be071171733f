------------------------ MODULE EventLoopThreadPool -------------------------
(***************************************************************************)
(* ouge::net::EventLoopThreadPool with its EventLoopThreads                *)
(* (net/EventLoopThreadPool.cc, net/EventLoopThread.cc): one owner that    *)
(* starts the threads one after the other, hands out their loops, and in   *)
(* the end makes them quit and joins them.                                 *)
(*                                                                         *)
(* Each thread runs EventLoop::loop: "check" is the test of quit_, "poll"  *)
(* stands for epoll_wait and the handling of channels, "functors" for      *)
(* doPendingFunctors.  What the functors are is left to the modules that   *)
(* use the pool.  loop_ is read outside the mutex except by the wait, and  *)
(* quit() sets quit_ and then writes the eventfd.                          *)
(*                                                                         *)
(* startLoop begins with loop_->assertInLoopThread() while loop_ is NULL,  *)
(* which is undefined.  Either it crashes, reading threadId_ at an address *)
(* that is not mapped, or it is mapped, the id differs, and the method     *)
(* logs that and goes on.                                                  *)
(***************************************************************************)
EXTENDS Sequences, Integers

CONSTANTS MaxThreads, ThreadNums

ASSUME PoolAssumption == MaxThreads \in Nat /\ ThreadNums \subseteq 0..MaxThreads

VARIABLES
  numThreads_, started_, next_,
  loops_,         \* the loops handed over by startLoop, by thread
  ownerPc,        \* "out", "startLoop", "wait" (about to test loop_ with the
                  \* mutex), "asleep", "quit", "wakeup", "join", "gone"
  dying,          \* the thread that the destructor is at
  threadPc,
  loop_,          \* loop_ is not NULL
  quit_, wakeupFd_,
  failed      \* what stopped the program, or "none"

threadVars == <<threadPc, loop_, quit_, wakeupFd_>>
poolVars == <<numThreads_, started_, next_, loops_, ownerPc, dying, threadVars,
              failed>>

Threads == 1..MaxThreads
Base == 0       \* stands for baseLoop_

PoolInit ==
  /\ numThreads_ \in ThreadNums /\ started_ = FALSE /\ next_ = 0 /\ loops_ = <<>>
  /\ ownerPc = "out" /\ dying = 1
  /\ threadPc = [t \in Threads |-> "none"]
  /\ loop_ = [t \in Threads |-> FALSE]
  /\ quit_ = [t \in Threads |-> FALSE]
  /\ wakeupFd_ = [t \in Threads |-> FALSE]
  /\ failed = "none"

NotFailed == failed = "none"

-----------------------------------------------------------------------------
(***************************************************************************)
(* The owner: start.                                                       *)
(***************************************************************************)

nextStep(n) == IF n < numThreads_ THEN "startLoop" ELSE "out"

PoolStart ==
  /\ NotFailed /\ ownerPc = "out"
  /\ failed' = IF started_ THEN "start" ELSE failed
  /\ started_' = TRUE
  /\ ownerPc' = nextStep(0)
  /\ UNCHANGED <<numThreads_, next_, loops_, dying, threadVars>>

(* startLoop up to the creation of the thread. *)
StartLoop ==
  /\ NotFailed /\ ownerPc = "startLoop"
  /\ \/ failed' = "nullLoop" /\ UNCHANGED <<ownerPc, threadPc>>
     \/ /\ threadPc' = [threadPc EXCEPT ![Len(loops_) + 1] = "init"]
        /\ ownerPc' = "wait"
        /\ UNCHANGED failed
  /\ UNCHANGED <<numThreads_, started_, next_, loops_, dying, loop_, quit_, wakeupFd_>>

published(t) == loop_[t]

(* cond_.wait with its predicate, then the return to start. *)
WaitForLoop ==
  /\ NotFailed /\ ownerPc = "wait"
  /\ LET t == Len(loops_) + 1 IN
     IF published(t)
     THEN loops_' = Append(loops_, t) /\ ownerPc' = nextStep(t)
     ELSE ownerPc' = "asleep" /\ UNCHANGED loops_
  /\ UNCHANGED <<numThreads_, started_, next_, dying, threadVars, failed>>

SpuriousWakeup ==
  /\ NotFailed /\ ownerPc = "asleep"
  /\ ownerPc' = "wait"
  /\ UNCHANGED <<numThreads_, started_, next_, loops_, dying, threadVars, failed>>

-----------------------------------------------------------------------------
(***************************************************************************)
(* getNextLoop.                                                            *)
(***************************************************************************)

nextLoop == IF loops_ = <<>> THEN Base ELSE loops_[next_ + 1]

wrapsEarly(n) == IF n + 2 >= Len(loops_) THEN 0 ELSE n + 1

(* ++next_, back to 0 at the end. *)
advanced(n) == IF n + 1 >= Len(loops_) THEN 0 ELSE n + 1

getNextLoop == next_' = IF loops_ = <<>> THEN next_ ELSE advanced(next_)

-----------------------------------------------------------------------------
(***************************************************************************)
(* The owner: the destructors of the pool and of its EventLoopThreads.     *)
(***************************************************************************)

dyingStep(t) == IF t <= Len(loops_) THEN "quit" ELSE "gone"

PoolDestroy ==
  /\ NotFailed /\ ownerPc = "out"
  /\ ownerPc' = dyingStep(1)
  /\ UNCHANGED <<numThreads_, started_, next_, loops_, dying, threadVars, failed>>

(* quit_ = true; a joinable thread that is not joined terminates. *)
QuitThread ==
  /\ NotFailed /\ ownerPc = "quit"
  /\ IF loop_[dying]
     THEN /\ quit_' = [quit_ EXCEPT ![dying] = TRUE]
          /\ ownerPc' = "wakeup" /\ UNCHANGED failed
     ELSE failed' = "terminate" /\ UNCHANGED <<quit_, ownerPc>>
  /\ UNCHANGED <<numThreads_, started_, next_, loops_, dying, threadPc, loop_, wakeupFd_>>

wakesNobody(t) == UNCHANGED wakeupFd_
wakes(t) == wakeupFd_' = [wakeupFd_ EXCEPT ![t] = TRUE]

(* The rest of quit(): the EventLoop may have seen quit_ and be gone. *)
WakeupThread ==
  /\ NotFailed /\ ownerPc = "wakeup"
  /\ IF threadPc[dying] = "ended"
     THEN failed' = "deadLoop" /\ UNCHANGED <<wakeupFd_, ownerPc>>
     ELSE wakes(dying) /\ ownerPc' = "join" /\ UNCHANGED failed
  /\ UNCHANGED <<numThreads_, started_, next_, loops_, dying, threadPc, loop_, quit_>>

Join ==
  /\ NotFailed /\ ownerPc = "join" /\ threadPc[dying] = "ended"
  /\ dying' = dying + 1
  /\ ownerPc' = dyingStep(dying + 1)
  /\ UNCHANGED <<numThreads_, started_, next_, loops_, threadVars, failed>>

OwnerStep == StartLoop \/ WaitForLoop \/ QuitThread \/ WakeupThread \/ Join

-----------------------------------------------------------------------------
(***************************************************************************)
(* A thread: threadFunc and EventLoop::loop.                               *)
(***************************************************************************)

At(t, from, to) ==
  /\ NotFailed /\ threadPc[t] = from
  /\ threadPc' = [threadPc EXCEPT ![t] = to]
  /\ UNCHANGED <<numThreads_, started_, next_, loops_, dying>>

notifies == ownerPc' = IF ownerPc = "asleep" THEN "wait" ELSE ownerPc

(* The callback, then loop_ = &loop and notify_one. *)
Publish(t) ==
  /\ At(t, "init", "enter")
  /\ loop_' = [loop_ EXCEPT ![t] = TRUE]
  /\ notifies
  /\ UNCHANGED <<quit_, wakeupFd_, failed>>

EnterLoop(t) ==
  /\ At(t, "enter", "check")
  /\ quit_' = [quit_ EXCEPT ![t] = FALSE]
  /\ UNCHANGED <<ownerPc, loop_, wakeupFd_, failed>>

CheckQuit(t) ==
  /\ At(t, "check", IF quit_[t] THEN "left" ELSE "poll")
  /\ UNCHANGED <<ownerPc, loop_, quit_, wakeupFd_, failed>>

(* epoll_wait returns, because of wakeup() or for another reason. *)
PollReturns(t) ==
  /\ At(t, "poll", "functors")
  /\ wakeupFd_' = [wakeupFd_ EXCEPT ![t] = FALSE]
  /\ UNCHANGED <<ownerPc, loop_, quit_, failed>>

(* What the functors' destruction does to failed is left to the modules    *)
(* that use the pool, here and in LeaveThread.                             *)
FunctorsDone(t) ==
  /\ At(t, "functors", "check")
  /\ UNCHANGED <<ownerPc, loop_, quit_, wakeupFd_>>

(* loop_ = NULL, and the EventLoop is destroyed with the frame. *)
LeaveThread(t) ==
  /\ At(t, "left", "ended")
  /\ loop_' = [loop_ EXCEPT ![t] = FALSE]
  /\ UNCHANGED <<ownerPc, quit_, wakeupFd_>>

ThreadStep(t) == Publish(t) \/ EnterLoop(t) \/ CheckQuit(t)

PoolNext ==
  \/ PoolStart \/ OwnerStep \/ SpuriousWakeup \/ PoolDestroy
  \/ \E t \in Threads : \/ ThreadStep(t) \/ PollReturns(t)
                        \/ (FunctorsDone(t) \/ LeaveThread(t)) /\ UNCHANGED failed

PoolSpec == PoolInit /\ [][PoolNext]_poolVars

-----------------------------------------------------------------------------
PoolTypeOK ==
  /\ numThreads_ \in ThreadNums /\ started_ \in BOOLEAN
  /\ Len(loops_) \in 0..numThreads_ /\ \A i \in 1..Len(loops_) : loops_[i] = i
  /\ next_ = 0 \/ next_ \in 0..(Len(loops_) - 1)
  /\ ownerPc \in {"out", "startLoop", "wait", "asleep", "quit", "wakeup", "join", "gone"}
  /\ dying \in 1..(MaxThreads + 1)
  /\ threadPc \in [Threads -> {"none", "init", "enter", "check", "poll", "functors",
                               "left", "ended"}]
  /\ loop_ \in [Threads -> BOOLEAN] /\ quit_ \in [Threads -> BOOLEAN]
  /\ wakeupFd_ \in [Threads -> BOOLEAN]

(* startLoop hands over a loop only once its thread has published it, and  *)
(* the pointer stays good as long as the pool may hand it out: no EventLoop*)
(* ends before the destructor has reached its thread.                      *)
LoopsExist ==
  \A i \in 1..Len(loops_) :
    \/ threadPc[loops_[i]] \in {"enter", "check", "poll", "functors"}
    \/ ownerPc \in {"quit", "wakeup", "join", "gone"} /\ loops_[i] <= dying

(* net/TcpServer.h:49-53: a server with N threads has them run its I/O.    *)
(* EventLoopThread::startLoop must not use the loop_ that is not there yet.*)
StartLoopUsesNoNull == failed # "nullLoop"

=============================================================================
