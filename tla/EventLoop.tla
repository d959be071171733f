----------------------------- MODULE EventLoop -----------------------------
(***************************************************************************)
(* ouge::net::EventLoop (net/EventLoop.cc): one loop thread that polls,    *)
(* handles active channels and then runs the functors other threads handed *)
(* to it, and any number of other threads that call runInLoop, queueInLoop *)
(* and quit.                                                               *)
(*                                                                         *)
(* The loop thread is sequential; pc is its place in loop() or in          *)
(* doPendingFunctors().  User code runs in the loop thread in three        *)
(* places: outside loop() ("idle"), in a channel's callback ("callback")   *)
(* and in a pending functor ("functor"); there it may call any method of   *)
(* the loop.  Another thread takes two steps per call, because the         *)
(* mutex_ is released before wakeup() writes the eventfd, and quit_ is set *)
(* before it.                                                              *)
(*                                                                         *)
(* A functor is a model value, submitted at most once.  The eventfd's      *)
(* counter is abstracted to "readable or not", which is all epoll_wait and *)
(* handleRead tell apart.  All channels but the wakeup channel are one     *)
(* channel "io" that may become readable at any time.                      *)
(***************************************************************************)
EXTENDS Sequences, Naturals

CONSTANTS
  Callers,    \* threads other than the loop thread
  Functors    \* the functors that may be submitted

VARIABLES
  pc,                       \* place of the loop thread
  looping_, quit_, callingPendingFunctors_,
  pendingFunctors_,         \* guarded by mutex_
  functors,                 \* what is left of doPendingFunctors' local vector
  wakeupFd_,                \* TRUE iff the eventfd is readable
  activeChannels_,          \* active channels not handled yet
  callerPc,                 \* place of each other thread
  queuedIn,                 \* history: where each functor was submitted
  executed                  \* history: functors called, in order

loopVars == <<pc, looping_, quit_, callingPendingFunctors_, functors,
              activeChannels_>>
vars == <<pc, looping_, quit_, callingPendingFunctors_, pendingFunctors_,
          functors, wakeupFd_, activeChannels_, callerPc, queuedIn, executed>>

Places == {"idle", "check", "poll", "handle", "callback", "pending", "functor"}
UserCode == {"idle", "callback", "functor"}
Origins == {"none", "idle", "callback", "functor", "caller", "direct"}

Elements(s) == {s[i] : i \in 1..Len(s)}

Init ==
  /\ pc = "idle"
  /\ looping_ = FALSE
  /\ quit_ = FALSE
  /\ callingPendingFunctors_ = FALSE
  /\ pendingFunctors_ = <<>>
  /\ functors = <<>>
  /\ wakeupFd_ = FALSE
  /\ activeChannels_ = {}
  /\ callerPc = [c \in Callers |-> "out"]
  /\ queuedIn = [f \in Functors |-> "none"]
  /\ executed = <<>>

-----------------------------------------------------------------------------
(***************************************************************************)
(* Calls made in the loop thread, from user code.                          *)
(***************************************************************************)

NeedsWakeupOnlyFromOutside(inLoopThread) == ~inLoopThread

(* A call of queueInLoop wakes the loop unless the call is made in the     *)
(* loop thread outside doPendingFunctors.                                  *)
NeedsWakeup(inLoopThread) == ~inLoopThread \/ callingPendingFunctors_

QueueInLoop(f) ==
  /\ pc \in UserCode
  /\ queuedIn[f] = "none"
  /\ pendingFunctors_' = Append(pendingFunctors_, f)
  /\ wakeupFd_' = (wakeupFd_ \/ NeedsWakeup(TRUE))
  /\ queuedIn' = [queuedIn EXCEPT ![f] = pc]
  /\ UNCHANGED <<loopVars, callerPc, executed>>

RunInLoop(f) ==
  /\ pc \in UserCode
  /\ queuedIn[f] = "none"
  /\ queuedIn' = [queuedIn EXCEPT ![f] = "direct"]
  /\ executed' = Append(executed, f)
  /\ UNCHANGED <<loopVars, pendingFunctors_, wakeupFd_, callerPc>>

Quit ==
  /\ pc \in UserCode
  /\ quit_' = TRUE
  /\ UNCHANGED <<pc, looping_, callingPendingFunctors_, pendingFunctors_,
                 functors, wakeupFd_, activeChannels_, callerPc, queuedIn,
                 executed>>

UserCall == (\E f \in Functors : QueueInLoop(f) \/ RunInLoop(f)) \/ Quit

-----------------------------------------------------------------------------
(***************************************************************************)
(* Calls made in the other threads.  "waking": about to call wakeup().     *)
(***************************************************************************)

CallerWakingIfPolling(c) ==
  callerPc' = [callerPc EXCEPT ![c] = IF pc = "poll" THEN "waking" ELSE "out"]

(* Both queueInLoop and quit go on to wakeup() outside the loop thread. *)
CallerWaking(c) ==
  callerPc' = [callerPc EXCEPT ![c] = IF NeedsWakeup(FALSE) THEN "waking" ELSE "out"]

(* runInLoop and queueInLoop are the same outside the loop thread. *)
CallerQueueInLoop(c, f) ==
  /\ callerPc[c] = "out"
  /\ queuedIn[f] = "none"
  /\ pendingFunctors_' = Append(pendingFunctors_, f)
  /\ queuedIn' = [queuedIn EXCEPT ![f] = "caller"]
  /\ CallerWaking(c)
  /\ UNCHANGED <<loopVars, wakeupFd_, executed>>

CallerQuitWithoutWakeup(c) ==
  /\ callerPc[c] = "out"
  /\ quit_' = TRUE
  /\ UNCHANGED <<pc, looping_, callingPendingFunctors_, pendingFunctors_,
                 functors, wakeupFd_, activeChannels_, callerPc, queuedIn,
                 executed>>

CallerQuit(c) ==
  /\ callerPc[c] = "out"
  /\ quit_' = TRUE
  /\ callerPc' = [callerPc EXCEPT ![c] = "waking"]
  /\ UNCHANGED <<pc, looping_, callingPendingFunctors_, pendingFunctors_,
                 functors, wakeupFd_, activeChannels_, queuedIn, executed>>

CallerWakeup(c) ==
  /\ callerPc[c] = "waking"
  /\ wakeupFd_' = TRUE
  /\ callerPc' = [callerPc EXCEPT ![c] = "out"]
  /\ UNCHANGED <<loopVars, pendingFunctors_, queuedIn, executed>>

-----------------------------------------------------------------------------
(***************************************************************************)
(* The loop thread in loop().                                              *)
(***************************************************************************)

EnterLoop ==
  /\ pc = "idle"
  /\ ~looping_
  /\ looping_' = TRUE
  /\ quit_' = FALSE
  /\ pc' = "check"
  /\ UNCHANGED <<callingPendingFunctors_, pendingFunctors_, functors,
                 wakeupFd_, activeChannels_, callerPc, queuedIn, executed>>

CheckQuit ==
  /\ pc = "check"
  /\ pc' = IF quit_ THEN "idle" ELSE "poll"
  /\ looping_' = ~quit_
  /\ UNCHANGED <<quit_, callingPendingFunctors_, pendingFunctors_, functors,
                 wakeupFd_, activeChannels_, callerPc, queuedIn, executed>>

(* epoll_wait returns these channels; it reports every readable channel.  *)
PollReturns(active) ==
  /\ pc = "poll"
  /\ pc' = "handle"
  /\ activeChannels_' = active
  /\ UNCHANGED <<looping_, quit_, callingPendingFunctors_, pendingFunctors_,
                 functors, wakeupFd_, callerPc, queuedIn, executed>>

PollWoken == wakeupFd_ /\ \E io \in SUBSET {"io"} : PollReturns({"wakeup"} \cup io)
PollIo == ~wakeupFd_ /\ PollReturns({"io"})
PollTimeout == ~wakeupFd_ /\ PollReturns({})

(* The wakeup channel's callback, EventLoop::handleRead. *)
HandleRead ==
  /\ pc = "handle"
  /\ "wakeup" \in activeChannels_
  /\ wakeupFd_' = FALSE
  /\ activeChannels_' = activeChannels_ \ {"wakeup"}
  /\ UNCHANGED <<pc, looping_, quit_, callingPendingFunctors_,
                 pendingFunctors_, functors, callerPc, queuedIn, executed>>

HandleIo ==
  /\ pc = "handle"
  /\ "io" \in activeChannels_
  /\ pc' = "callback"
  /\ activeChannels_' = activeChannels_ \ {"io"}
  /\ UNCHANGED <<looping_, quit_, callingPendingFunctors_, pendingFunctors_,
                 functors, wakeupFd_, callerPc, queuedIn, executed>>

CallbackReturns ==
  /\ pc = "callback"
  /\ pc' = "handle"
  /\ UNCHANGED <<looping_, quit_, callingPendingFunctors_, pendingFunctors_,
                 functors, wakeupFd_, activeChannels_, callerPc, queuedIn,
                 executed>>

SwapKeepsPending ==
  /\ pc = "handle"
  /\ activeChannels_ = {}
  /\ callingPendingFunctors_' = TRUE
  /\ functors' = pendingFunctors_
  /\ pc' = "pending"
  /\ UNCHANGED <<looping_, quit_, pendingFunctors_, wakeupFd_,
                 activeChannels_, callerPc, queuedIn, executed>>

SwapUnlessQuit ==
  /\ pc = "handle"
  /\ activeChannels_ = {}
  /\ callingPendingFunctors_' = TRUE
  /\ functors' = IF quit_ THEN <<>> ELSE pendingFunctors_
  /\ pendingFunctors_' = IF quit_ THEN pendingFunctors_ ELSE <<>>
  /\ pc' = "pending"
  /\ UNCHANGED <<looping_, quit_, wakeupFd_, activeChannels_, callerPc,
                 queuedIn, executed>>

(* All channels are handled: doPendingFunctors up to the end of the swap. *)
SwapPendingFunctors ==
  /\ pc = "handle"
  /\ activeChannels_ = {}
  /\ callingPendingFunctors_' = TRUE
  /\ functors' = pendingFunctors_
  /\ pendingFunctors_' = <<>>
  /\ pc' = "pending"
  /\ UNCHANGED <<looping_, quit_, wakeupFd_, activeChannels_, callerPc,
                 queuedIn, executed>>

CallFunctor ==
  /\ pc = "pending"
  /\ functors # <<>>
  /\ executed' = Append(executed, Head(functors))
  /\ functors' = Tail(functors)
  /\ pc' = "functor"
  /\ UNCHANGED <<looping_, quit_, callingPendingFunctors_, pendingFunctors_,
                 wakeupFd_, activeChannels_, callerPc, queuedIn>>

FunctorReturns ==
  /\ pc = "functor"
  /\ pc' = "pending"
  /\ UNCHANGED <<looping_, quit_, callingPendingFunctors_, pendingFunctors_,
                 functors, wakeupFd_, activeChannels_, callerPc, queuedIn,
                 executed>>

PendingFunctorsDone ==
  /\ pc = "pending"
  /\ functors = <<>>
  /\ callingPendingFunctors_' = FALSE
  /\ pc' = "check"
  /\ UNCHANGED <<looping_, quit_, pendingFunctors_, functors, wakeupFd_,
                 activeChannels_, callerPc, queuedIn, executed>>

(* What the loop thread does without being asked: everything but entering *)
(* loop(), being called by user code, and events of the outside world.    *)
LoopStep ==
  \/ CheckQuit \/ PollWoken \/ HandleRead \/ HandleIo \/ CallbackReturns
  \/ SwapPendingFunctors \/ CallFunctor \/ FunctorReturns
  \/ PendingFunctorsDone

CallerStep(c) ==
  \/ \E f \in Functors : CallerQueueInLoop(c, f)
  \/ CallerQuit(c)
  \/ CallerWakeup(c)

Next ==
  \/ EnterLoop \/ LoopStep \/ PollIo \/ PollTimeout \/ UserCall
  \/ \E c \in Callers : CallerStep(c)

Spec == Init /\ [][Next]_vars

(***************************************************************************)
(* Threads are scheduled, user callbacks and functors return, and a thread *)
(* that has begun a call finishes it.  Nothing obliges epoll_wait to time  *)
(* out or another file descriptor to become ready: what is proved live     *)
(* below is live because of wakeup() alone.                                *)
(***************************************************************************)
FairSpec ==
  Spec /\ WF_vars(LoopStep) /\ \A c \in Callers : WF_vars(CallerWakeup(c))

-----------------------------------------------------------------------------
(* Every variable has its type, and the flags the code keeps agree with   *)
(* the place of the loop thread: looping_ while in loop(),                 *)
(* callingPendingFunctors_ exactly during doPendingFunctors.               *)
TypeOK ==
  /\ pc \in Places
  /\ looping_ \in BOOLEAN
  /\ looping_ <=> pc # "idle"
  /\ quit_ \in BOOLEAN
  /\ callingPendingFunctors_ \in BOOLEAN
  /\ callingPendingFunctors_ <=> pc \in {"pending", "functor"}
  /\ pendingFunctors_ \in Seq(Functors)
  /\ functors \in Seq(Functors)
  /\ functors # <<>> => callingPendingFunctors_
  /\ wakeupFd_ \in BOOLEAN
  /\ activeChannels_ \subseteq {"wakeup", "io"}
  /\ activeChannels_ # {} => pc \in {"handle", "callback"}
  /\ callerPc \in [Callers -> {"out", "waking"}]
  /\ queuedIn \in [Functors -> Origins]
  /\ executed \in Seq(Functors)

WakeupComing == wakeupFd_ \/ \E c \in Callers : callerPc[c] = "waking"

(* EventLoop::queueInLoop and quit never leave the loop thread asleep: if  *)
(* it is in poll() and there is a functor to run or a quit to notice, then *)
(* the eventfd is readable or some thread is about to write it.  Functors  *)
(* that user code queued in the loop thread outside loop() are the         *)
(* exception: they wait for the poll to return.                            *)
NoLostWakeup ==
  pc = "poll" =>
    /\ (\E f \in Elements(pendingFunctors_) : queuedIn[f] # "idle") => WakeupComing
    /\ quit_ => WakeupComing

(* net/EventLoop.cc:146-147: queueInLoop need not wake the loop when it is *)
(* called in a channel's callback, "because cb is certainly run right      *)
(* after".  So when the loop is about to test quit_, polls, or has         *)
(* returned, no functor queued from a channel's callback is left over,     *)
(* even if that callback or another thread called quit().                  *)
CallbackFunctorsRunBeforeNextPoll ==
  pc \in {"check", "poll", "idle"} =>
    \A f \in Elements(pendingFunctors_) : queuedIn[f] # "callback"

(* quit() ends loop(): once quit_ is set while the loop runs, the loop     *)
(* thread returns from loop(), without the help of a poll timeout.         *)
QuitEndsLoop == (looping_ /\ quit_) ~> ~looping_

(* A functor queued while or after the loop runs, by any thread, is called *)
(* or loop() returns first, without the help of a poll timeout.            *)
QueuedFunctorsRun ==
  \A f \in Functors :
    (f \in Elements(pendingFunctors_) /\ queuedIn[f] # "idle")
      ~> (f \in Elements(executed) \/ ~looping_)

(* runInLoop and queueInLoop implement a FIFO queue of functors, each      *)
(* called at most once: the functors not yet called are those left of the  *)
(* vector being run followed by pendingFunctors_.                          *)
FQ == INSTANCE FunctorQueue WITH queue <- functors \o pendingFunctors_
ImplementsFunctorQueue == FQ!Spec

=============================================================================
