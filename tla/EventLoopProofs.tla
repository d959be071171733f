-------------------------- MODULE EventLoopProofs --------------------------
(***************************************************************************)
(* Theorems about EventLoop, for any set of threads and any set of         *)
(* functors: its type invariant, that no wake-up is lost, that functors    *)
(* queued from a channel's callback run in the same iteration, and that    *)
(* the loop implements a FIFO queue of functors.                           *)
(***************************************************************************)
EXTENDS EventLoop, SequenceTheorems, TLAPS

(* What a push at the back does to the set of elements. *)
LEMMA ElementsAppend ==
  ASSUME NEW S, NEW s \in Seq(S), NEW x \in S
  PROVE  /\ Append(s, x) \in Seq(S)
         /\ Elements(Append(s, x)) = Elements(s) \cup {x}
<1>1. Append(s, x) \in Seq(S)
  OBVIOUS
<1>2. Len(Append(s, x)) = Len(s) + 1 /\ Len(s) \in Nat
  OBVIOUS
<1>3. \A i \in 1..Len(s) : Append(s, x)[i] = s[i]
  OBVIOUS
<1>4. Append(s, x)[Len(s) + 1] = x
  OBVIOUS
<1>5. 1..(Len(s) + 1) = (1..Len(s)) \cup {Len(s) + 1}
  BY <1>2
<1> QED
  BY <1>1, <1>2, <1>3, <1>4, <1>5 DEF Elements

(* An empty sequence has no elements.                                      *)
LEMMA ElementsEmpty == Elements(<<>>) = {}
BY DEF Elements

(* Whatever ends epoll_wait, it reports some set of channels. *)
LEMMA PollIsBounded ==
  ASSUME PollWoken \/ PollIo \/ PollTimeout
  PROVE  \E active \in SUBSET {"wakeup", "io"} : PollReturns(active)
<1>1. CASE PollWoken
  <2>1. PICK io \in SUBSET {"io"} : PollReturns({"wakeup"} \cup io)
    BY <1>1 DEF PollWoken
  <2>2. {"wakeup"} \cup io \in SUBSET {"wakeup", "io"}
    OBVIOUS
  <2> QED
    BY <2>1, <2>2
<1>2. CASE PollIo
  <2>1. {"io"} \in SUBSET {"wakeup", "io"}
    OBVIOUS
  <2> QED
    BY <1>2, <2>1 DEF PollIo
<1>3. CASE PollTimeout
  <2>1. {} \in SUBSET {"wakeup", "io"}
    OBVIOUS
  <2> QED
    BY <1>3, <2>1 DEF PollTimeout
<1> QED
  BY <1>1, <1>2, <1>3

(* The type invariant, flags included, is inductive. *)
THEOREM TypeCorrect == Spec => []TypeOK
<1>1. Init => TypeOK
  <2> SUFFICES ASSUME Init PROVE TypeOK
    OBVIOUS
  <2> USE DEF Init
  <2>1. pendingFunctors_ \in Seq(Functors) /\ functors \in Seq(Functors)
        /\ executed \in Seq(Functors)
    OBVIOUS
  <2>2. callerPc \in [Callers -> {"out", "waking"}]
        /\ queuedIn \in [Functors -> Origins]
    BY DEF Origins
  <2> QED
    BY <2>1, <2>2, Zenon DEF TypeOK, Places
<1>2. TypeOK /\ [Next]_vars => TypeOK'
  <2> SUFFICES ASSUME TypeOK, [Next]_vars PROVE TypeOK'
    OBVIOUS
  <2> USE DEF TypeOK, Places, Origins, UserCode
  <2>1. CASE EnterLoop
    BY <2>1 DEF EnterLoop
  <2>2. CASE CheckQuit
    <3>1. CASE quit_
      BY <2>2, <3>1 DEF CheckQuit
    <3>2. CASE ~quit_
      BY <2>2, <3>2 DEF CheckQuit
    <3> QED
      BY <3>1, <3>2
  <2>3. CASE PollWoken \/ PollIo \/ PollTimeout
    <3>1. PICK active \in SUBSET {"wakeup", "io"} : PollReturns(active)
      BY <2>3, PollIsBounded
    <3> QED
      BY <3>1 DEF PollReturns
  <2>4. CASE HandleRead
    BY <2>4 DEF HandleRead
  <2>5. CASE HandleIo
    BY <2>5 DEF HandleIo
  <2>6. CASE CallbackReturns
    BY <2>6 DEF CallbackReturns
  <2>7. CASE SwapPendingFunctors
    BY <2>7 DEF SwapPendingFunctors
  <2>8. CASE CallFunctor
    BY <2>8 DEF CallFunctor
  <2>9. CASE FunctorReturns
    BY <2>9 DEF FunctorReturns
  <2>10. CASE PendingFunctorsDone
    BY <2>10 DEF PendingFunctorsDone
  <2>11. ASSUME NEW f \in Functors, QueueInLoop(f) PROVE TypeOK'
    BY <2>11 DEF QueueInLoop, loopVars, NeedsWakeup
  <2>12. ASSUME NEW f \in Functors, RunInLoop(f) PROVE TypeOK'
    BY <2>12 DEF RunInLoop, loopVars
  <2>13. CASE Quit
    BY <2>13 DEF Quit
  <2>14. ASSUME NEW c \in Callers, NEW f \in Functors, CallerQueueInLoop(c, f)
         PROVE  TypeOK'
    BY <2>14 DEF CallerQueueInLoop, CallerWaking, NeedsWakeup, loopVars
  <2>15. ASSUME NEW c \in Callers, CallerQuit(c) PROVE TypeOK'
    BY <2>15 DEF CallerQuit
  <2>16. ASSUME NEW c \in Callers, CallerWakeup(c) PROVE TypeOK'
    BY <2>16 DEF CallerWakeup, loopVars
  <2>17. CASE UNCHANGED vars
    BY <2>17 DEF vars
  <2> QED
    BY <2>1, <2>2, <2>3, <2>4, <2>5, <2>6, <2>7, <2>8, <2>9, <2>10, <2>11,
       <2>12, <2>13, <2>14, <2>15, <2>16, <2>17
    DEF Next, LoopStep, UserCall, CallerStep
<1> QED
  BY <1>1, <1>2, PTL DEF Spec

-----------------------------------------------------------------------------
(***************************************************************************)
(* No wake-up is lost.  NoLostWakeup speaks of poll() only and is not      *)
(* inductive: the functor that needs the wake-up was queued earlier, when  *)
(* the loop thread was elsewhere.  The strengthening says the same of      *)
(* every place but "handle" and "callback", where the eventfd may already  *)
(* have been drained because the swap that takes the functors is certain   *)
(* to follow.                                                              *)
(***************************************************************************)
Waiting == {f \in Elements(pendingFunctors_) : queuedIn[f] # "idle"}

WakeInv ==
  /\ pc \notin {"handle", "callback"} =>
       /\ Waiting # {} => WakeupComing
       /\ \A f \in Elements(pendingFunctors_) : queuedIn[f] # "callback"
  /\ pc = "poll" /\ quit_ => WakeupComing

(* The invariant of the wakeup is inductive.                               *)
LEMMA WakeInvInductive == TypeOK /\ WakeInv /\ [Next]_vars => WakeInv'
<1> SUFFICES ASSUME TypeOK, WakeInv, [Next]_vars PROVE WakeInv'
  OBVIOUS
<1> USE DEF WakeInv, Waiting, WakeupComing
<1>1. CASE EnterLoop
  BY <1>1 DEF EnterLoop
<1>2. CASE CheckQuit
  <2>1. CASE quit_
    BY <1>2, <2>1 DEF CheckQuit
  <2>2. CASE ~quit_
    BY <1>2, <2>2 DEF CheckQuit
  <2> QED
    BY <2>1, <2>2
<1>3. CASE PollWoken \/ PollIo \/ PollTimeout
  <2>1. PICK active \in SUBSET {"wakeup", "io"} : PollReturns(active)
    BY <1>3, PollIsBounded
  <2> QED
    BY <2>1 DEF PollReturns
<1>4. CASE HandleRead
  BY <1>4 DEF HandleRead
<1>5. CASE HandleIo
  BY <1>5 DEF HandleIo
<1>6. CASE CallbackReturns
  BY <1>6 DEF CallbackReturns
<1>7. CASE SwapPendingFunctors
  BY <1>7, ElementsEmpty DEF SwapPendingFunctors
<1>8. CASE CallFunctor
  BY <1>8 DEF CallFunctor
<1>9. CASE FunctorReturns
  BY <1>9 DEF FunctorReturns
<1>10. CASE PendingFunctorsDone
  BY <1>10 DEF PendingFunctorsDone
<1>11. ASSUME NEW f \in Functors, QueueInLoop(f) PROVE WakeInv'
  <2>1. Elements(pendingFunctors_') = Elements(pendingFunctors_) \cup {f}
    BY <1>11, ElementsAppend DEF QueueInLoop, TypeOK
  <2>2. queuedIn' \in [Functors -> Origins] /\ queuedIn'[f] = pc
        /\ \A g \in Elements(pendingFunctors_) :
             queuedIn'[g] = queuedIn[g] \/ queuedIn'[g] = pc
    BY <1>11 DEF QueueInLoop, TypeOK, UserCode, Origins, Elements
  <2>3. UNCHANGED <<pc, quit_, callerPc>>
    BY <1>11 DEF QueueInLoop, loopVars
  <2>4. CASE pc = "functor"
    <3>1. wakeupFd_'
      BY <1>11, <2>4 DEF QueueInLoop, NeedsWakeup, TypeOK
    <3> QED
      BY <2>1, <2>2, <2>3, <2>4, <3>1
  <2>5. CASE pc = "idle"
    <3>1. wakeupFd_ => wakeupFd_'
      BY <1>11 DEF QueueInLoop
    <3> QED
      BY <2>1, <2>2, <2>3, <2>5, <3>1
  <2>6. CASE pc = "callback"
    BY <2>3, <2>6
  <2> QED
    BY <1>11, <2>4, <2>5, <2>6 DEF QueueInLoop, UserCode
<1>12. ASSUME NEW f \in Functors, RunInLoop(f) PROVE WakeInv'
  <2>1. \A g \in Elements(pendingFunctors_) :
          queuedIn'[g] = queuedIn[g] \/ queuedIn[g] = "none"
    BY <1>12 DEF RunInLoop, TypeOK, Elements
  <2>2. \A g \in Elements(pendingFunctors_) :
          queuedIn'[g] = queuedIn[g] \/ queuedIn'[g] = "direct"
    BY <1>12 DEF RunInLoop, TypeOK, Elements
  <2>3. UNCHANGED <<pc, quit_, callerPc, wakeupFd_, pendingFunctors_>>
    BY <1>12 DEF RunInLoop, loopVars
  <2> QED
    BY <2>1, <2>2, <2>3
<1>13. CASE Quit
  BY <1>13 DEF Quit, UserCode
<1>14. ASSUME NEW c \in Callers, NEW f \in Functors, CallerQueueInLoop(c, f)
       PROVE  WakeInv'
  <2>1. Elements(pendingFunctors_') = Elements(pendingFunctors_) \cup {f}
    BY <1>14, ElementsAppend DEF CallerQueueInLoop, TypeOK
  <2>2. \A g \in Elements(pendingFunctors_) \cup {f} :
          queuedIn'[g] = queuedIn[g] \/ queuedIn'[g] = "caller"
    BY <1>14 DEF CallerQueueInLoop, TypeOK, Elements
  <2>3. queuedIn'[f] = "caller"
    BY <1>14 DEF CallerQueueInLoop, TypeOK
  <2>4. callerPc'[c] = "waking"
    BY <1>14 DEF CallerQueueInLoop, CallerWaking, NeedsWakeup, TypeOK
  <2>5. UNCHANGED <<pc, quit_, wakeupFd_>>
    BY <1>14 DEF CallerQueueInLoop, loopVars
  <2> QED
    BY <2>1, <2>2, <2>3, <2>4, <2>5
<1>15. ASSUME NEW c \in Callers, CallerQuit(c) PROVE WakeInv'
  <2>1. callerPc'[c] = "waking"
    BY <1>15 DEF CallerQuit, TypeOK
  <2> QED
    BY <1>15, <2>1 DEF CallerQuit
<1>16. ASSUME NEW c \in Callers, CallerWakeup(c) PROVE WakeInv'
  BY <1>16 DEF CallerWakeup, loopVars
<1>17. CASE UNCHANGED vars
  BY <1>17 DEF vars
<1> QED
  BY <1>1, <1>2, <1>3, <1>4, <1>5, <1>6, <1>7, <1>8, <1>9, <1>10, <1>11,
     <1>12, <1>13, <1>14, <1>15, <1>16, <1>17
  DEF Next, LoopStep, UserCall, CallerStep

(* The invariant of the wakeup holds in every reachable state.             *)
LEMMA WakeInvHolds == Spec => []WakeInv
<1>1. Init => WakeInv
  BY ElementsEmpty DEF Init, WakeInv, Waiting
<1> QED
  BY <1>1, WakeInvInductive, TypeCorrect, PTL DEF Spec

(* EventLoop::queueInLoop and quit: a loop thread blocked in poll() with a *)
(* functor to run or a quit to notice has a wake-up on its way.            *)
THEOREM WakeupNeverLost == Spec => []NoLostWakeup
<1>1. WakeInv => NoLostWakeup
  BY DEF WakeInv, Waiting, NoLostWakeup
<1> QED
  BY <1>1, WakeInvHolds, PTL

(* Functors queued from a channel's callback are taken by the              *)
(* doPendingFunctors of the same iteration.                                *)
THEOREM CallbackFunctorsRun == Spec => []CallbackFunctorsRunBeforeNextPoll
<1>1. WakeInv => CallbackFunctorsRunBeforeNextPoll
  BY DEF WakeInv, CallbackFunctorsRunBeforeNextPoll
<1> QED
  BY <1>1, WakeInvHolds, PTL

-----------------------------------------------------------------------------
(***************************************************************************)
(* The loop implements FunctorQueue: the queue is what is left of the      *)
(* vector being run, followed by pendingFunctors_.                         *)
(***************************************************************************)

(* The elements of a concatenation.                                        *)
LEMMA ElementsConcat ==
  ASSUME NEW S, NEW s \in Seq(S), NEW t \in Seq(S)
  PROVE  /\ s \o t \in Seq(S)
         /\ Elements(s \o t) = Elements(s) \cup Elements(t)
<1>1. s \o t \in Seq(S) /\ Len(s \o t) = Len(s) + Len(t)
  OBVIOUS
<1>2. Len(s) \in Nat /\ Len(t) \in Nat
  OBVIOUS
<1>3. \A i \in 1..Len(s) : (s \o t)[i] = s[i] /\ i \in 1..(Len(s) + Len(t))
  BY <1>2
<1>4. \A i \in 1..Len(t) : (s \o t)[Len(s) + i] = t[i]
                          /\ Len(s) + i \in 1..(Len(s) + Len(t))
  BY <1>2
<1>5. \A i \in 1..(Len(s) + Len(t)) :
        \/ i \in 1..Len(s)
        \/ i - Len(s) \in 1..Len(t) /\ i = Len(s) + (i - Len(s))
  BY <1>2
<1>6. Elements(s \o t) \subseteq Elements(s) \cup Elements(t)
  BY <1>1, <1>3, <1>4, <1>5 DEF Elements
<1>7. Elements(s) \subseteq Elements(s \o t)
  BY <1>1, <1>3 DEF Elements
<1>8. Elements(t) \subseteq Elements(s \o t)
  BY <1>1, <1>4 DEF Elements
<1> QED
  BY <1>1, <1>6, <1>7, <1>8

(* Appending to the second of two queues appends to both together.         *)
LEMMA ConcatAppend ==
  ASSUME NEW S, NEW s \in Seq(S), NEW t \in Seq(S), NEW x \in S
  PROVE  s \o Append(t, x) = Append(s \o t, x)
OBVIOUS

(* Taking the head of the first of two queues takes it from both together. *)
LEMMA ConcatHeadTail ==
  ASSUME NEW S, NEW s \in Seq(S), NEW t \in Seq(S), s # <<>>
  PROVE  /\ s \o t # <<>>
         /\ Head(s \o t) = Head(s) /\ Head(s) \in Elements(s)
         /\ Tail(s \o t) = Tail(s) \o t
         /\ Tail(s) \in Seq(S)
         /\ Elements(Tail(s)) \subseteq Elements(s)
<1>1. Len(s) \in Nat /\ Len(s) > 0 /\ Len(t) \in Nat
  OBVIOUS
<1>2. s \o t # <<>> /\ Head(s \o t) = Head(s)
  OBVIOUS
<1>3. Head(s) \in Elements(s)
  BY <1>1 DEF Elements
<1>4. Tail(s) \in Seq(S) /\ Len(Tail(s)) = Len(s) - 1
      /\ \A i \in 1..(Len(s) - 1) : Tail(s)[i] = s[i + 1]
  OBVIOUS
<1>5. Elements(Tail(s)) \subseteq Elements(s)
  BY <1>1, <1>4 DEF Elements
<1>6. Tail(s \o t) = Tail(s) \o t
  OBVIOUS
<1> QED
  BY <1>2, <1>3, <1>4, <1>5, <1>6

(* A functor that was never submitted is nowhere. *)
Submitted ==
  \A f \in Elements(functors) \cup Elements(pendingFunctors_) \cup Elements(executed) :
    queuedIn[f] # "none"

(* That everything queued was submitted, once, is inductive.               *)
LEMMA SubmittedInductive == TypeOK /\ Submitted /\ [Next]_vars => Submitted'
<1> SUFFICES ASSUME TypeOK, Submitted, [Next]_vars PROVE Submitted'
  OBVIOUS
<1> USE DEF Submitted
<1>1. CASE UNCHANGED <<functors, pendingFunctors_, executed, queuedIn>>
  BY <1>1
<1>2. CASE SwapPendingFunctors
  BY <1>2, ElementsEmpty DEF SwapPendingFunctors
<1>3. CASE CallFunctor
  <2>1. Head(functors) \in Elements(functors) /\ Head(functors) \in Functors
        /\ Elements(functors') \subseteq Elements(functors)
    BY <1>3, ConcatHeadTail DEF CallFunctor, TypeOK
  <2>2. Elements(executed') = Elements(executed) \cup {Head(functors)}
    BY <1>3, <2>1, ElementsAppend DEF CallFunctor, TypeOK
  <2> QED
    BY <1>3, <2>1, <2>2 DEF CallFunctor
<1>4. ASSUME NEW f \in Functors, QueueInLoop(f) PROVE Submitted'
  <2>1. Elements(pendingFunctors_') = Elements(pendingFunctors_) \cup {f}
    BY <1>4, ElementsAppend DEF QueueInLoop, TypeOK
  <2>2. queuedIn'[f] # "none" /\ \A g : g # f => queuedIn'[g] = queuedIn[g]
    BY <1>4 DEF QueueInLoop, TypeOK, UserCode
  <2> QED
    BY <1>4, <2>1, <2>2 DEF QueueInLoop, loopVars
<1>5. ASSUME NEW f \in Functors, RunInLoop(f) PROVE Submitted'
  <2>1. Elements(executed') = Elements(executed) \cup {f}
    BY <1>5, ElementsAppend DEF RunInLoop, TypeOK
  <2>2. queuedIn'[f] # "none" /\ \A g : g # f => queuedIn'[g] = queuedIn[g]
    BY <1>5 DEF RunInLoop, TypeOK, UserCode
  <2> QED
    BY <1>5, <2>1, <2>2 DEF RunInLoop, loopVars
<1>6. ASSUME NEW c \in Callers, NEW f \in Functors, CallerQueueInLoop(c, f)
      PROVE  Submitted'
  <2>1. Elements(pendingFunctors_') = Elements(pendingFunctors_) \cup {f}
    BY <1>6, ElementsAppend DEF CallerQueueInLoop, TypeOK
  <2>2. queuedIn'[f] # "none" /\ \A g : g # f => queuedIn'[g] = queuedIn[g]
    BY <1>6 DEF CallerQueueInLoop, TypeOK
  <2> QED
    BY <1>6, <2>1, <2>2 DEF CallerQueueInLoop, loopVars
<1> QED
  BY <1>1, <1>2, <1>3, <1>4, <1>5, <1>6
  DEF Next, LoopStep, UserCall, CallerStep, EnterLoop, CheckQuit, PollWoken,
      PollIo, PollTimeout, PollReturns, HandleRead, HandleIo, CallbackReturns,
      FunctorReturns, PendingFunctorsDone, Quit, CallerQuit, CallerWakeup,
      vars, loopVars

(* Everything queued was submitted, once, in every reachable state.        *)
LEMMA SubmittedHolds == Spec => []Submitted
<1>1. Init => Submitted
  BY ElementsEmpty DEF Init, Submitted
<1> QED
  BY <1>1, SubmittedInductive, TypeCorrect, PTL DEF Spec

(* A functor not submitted yet is fresh in the abstract queue. *)
LEMMA UnsubmittedIsFresh ==
  ASSUME TypeOK, Submitted, NEW f \in Functors, queuedIn[f] = "none"
  PROVE  FQ!Fresh(f)
<1>1. Elements(functors \o pendingFunctors_)
        = Elements(functors) \cup Elements(pendingFunctors_)
  BY ElementsConcat DEF TypeOK
<1>2. f \notin Elements(functors \o pendingFunctors_) \cup Elements(executed)
  BY <1>1 DEF Submitted
<1> QED
  BY <1>2 DEF FQ!Fresh, FQ!Elements, Elements

(* Every step is a step of the abstract queue of functors, or none.        *)
LEMMA StepRefines ==
  TypeOK /\ Submitted /\ [Next]_vars => [FQ!Next]_(FQ!fqVars)
<1> SUFFICES ASSUME TypeOK, Submitted, [Next]_vars
             PROVE  FQ!Next \/ UNCHANGED FQ!fqVars
  OBVIOUS
<1>1. CASE UNCHANGED <<functors, pendingFunctors_, executed>>
  BY <1>1 DEF FQ!fqVars
<1>2. CASE SwapPendingFunctors
  <2>1. functors = <<>>
    BY <1>2 DEF SwapPendingFunctors, TypeOK
  <2>2. functors \o pendingFunctors_ = pendingFunctors_
        /\ pendingFunctors_ \o <<>> = pendingFunctors_
    BY <2>1 DEF TypeOK
  <2> QED
    BY <1>2, <2>2 DEF SwapPendingFunctors, FQ!fqVars
<1>3. CASE CallFunctor
  <2>1. FQ!CallHead
    BY <1>3, ConcatHeadTail DEF CallFunctor, FQ!CallHead, TypeOK
  <2> QED
    BY <2>1 DEF FQ!Next
<1>4. ASSUME NEW f \in Functors, QueueInLoop(f) PROVE FQ!Next
  <2>1. FQ!Fresh(f)
    BY <1>4, UnsubmittedIsFresh DEF QueueInLoop
  <2>2. FQ!Submit(f)
    BY <1>4, <2>1, ConcatAppend DEF QueueInLoop, loopVars, FQ!Submit, TypeOK
  <2> QED
    BY <2>2 DEF FQ!Next
<1>5. ASSUME NEW f \in Functors, RunInLoop(f) PROVE FQ!Next
  <2>1. FQ!Fresh(f)
    BY <1>5, UnsubmittedIsFresh DEF RunInLoop
  <2>2. FQ!CallDirectly(f)
    BY <1>5, <2>1 DEF RunInLoop, loopVars, FQ!CallDirectly
  <2> QED
    BY <2>2 DEF FQ!Next
<1>6. ASSUME NEW c \in Callers, NEW f \in Functors, CallerQueueInLoop(c, f)
      PROVE  FQ!Next
  <2>1. FQ!Fresh(f)
    BY <1>6, UnsubmittedIsFresh DEF CallerQueueInLoop
  <2>2. FQ!Submit(f)
    BY <1>6, <2>1, ConcatAppend
    DEF CallerQueueInLoop, loopVars, FQ!Submit, TypeOK
  <2> QED
    BY <2>2 DEF FQ!Next
<1> QED
  BY <1>1, <1>2, <1>3, <1>4, <1>5, <1>6
  DEF Next, LoopStep, UserCall, CallerStep, EnterLoop, CheckQuit, PollWoken,
      PollIo, PollTimeout, PollReturns, HandleRead, HandleIo, CallbackReturns,
      FunctorReturns, PendingFunctorsDone, Quit, CallerQuit, CallerWakeup,
      vars, loopVars

(* The loop implements the FIFO executor: every functor is called at most  *)
(* once and in the order of the queueInLoop calls, whatever the threads    *)
(* and whatever the functors themselves queue.                             *)
THEOREM LoopIsFifoExecutor == Spec => ImplementsFunctorQueue
<1>1. Init => FQ!Init
  BY DEF Init, FQ!Init
<1> QED
  BY <1>1, StepRefines, TypeCorrect, SubmittedHolds, PTL
  DEF Spec, ImplementsFunctorQueue, FQ!Spec
=============================================================================
