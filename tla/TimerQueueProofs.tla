-------------------------- MODULE TimerQueueProofs --------------------------
(***************************************************************************)
(* What TimerQueue guarantees for any number of addresses, timers, calling *)
(* threads and settings of the wall clock, over any horizon:               *)
(*   - timers_ and activeTimers_ hold the same timers, and every Timer has *)
(*     exactly one owner;                                                  *)
(*   - the timerfd is armed, early enough, whenever a timer waits;         *)
(*   - a cancellation ends the timer that it names, for good, and no other.*)
(***************************************************************************)
EXTENDS TimerQueue, FiniteSetTheorems, WellFoundedInduction, TLAPS

-----------------------------------------------------------------------------
(***************************************************************************)
(* A non-empty set of natural numbers has a least element.                 *)
(***************************************************************************)

(* Without the induction theorems: the segments 0..n of the numbers n of   *)
(* the set are finite sets, and proper inclusion is well-founded on those. *)
LEMMA LeastNatural ==
  ASSUME NEW S \in SUBSET Nat, S # {}
  PROVE  \E m \in S : \A k \in S : m <= k
<1> DEFINE Seg(n) == 0..n
           Segs == {Seg(n) : n \in S}
           R == StrictSubsetOrdering(Nat)
<1>1. IsWellFoundedOn(R, FiniteSubsetsOf(Nat))
  BY FS_StrictSubsetOrderingWellFounded
<1>2. ASSUME NEW n \in Nat PROVE Seg(n) \in FiniteSubsetsOf(Nat)
  <2>1. IsFiniteSet(0..n)
    BY FS_Interval
  <2> QED
    BY <2>1 DEF FiniteSubsetsOf
<1>3. Segs \subseteq FiniteSubsetsOf(Nat) /\ Segs # {}
  BY <1>2
<1> HIDE DEF R, Segs
<1>4. PICK u \in Segs : \A v \in Segs : ~ (<<v, u>> \in R)
  BY <1>1, <1>3, WFMin
<1>5. PICK m \in S : u = Seg(m)
  BY <1>4 DEF Segs
<1>6. ASSUME NEW k \in S, k < m PROVE FALSE
  <2>1. 0..k \subseteq 0..m /\ 0..k # 0..m
    <3>1. m \in 0..m /\ m \notin 0..k
      BY <1>6
    <3> QED
      BY <3>1, <1>6
  <2>2. Seg(k) \in Segs
    BY DEF Segs
  <2>3. <<Seg(k), Seg(m)>> \in R
    <3>1. Seg(k) \in SUBSET Nat /\ Seg(m) \in SUBSET Nat
      OBVIOUS
    <3> HIDE DEF Seg
    <3> QED
      BY <2>1, <3>1 DEF R, StrictSubsetOrdering, Seg
  <2> QED
    BY <1>4, <1>5, <2>2, <2>3
<1> QED
  BY <1>6

-----------------------------------------------------------------------------
(***************************************************************************)
(* The steps.                                                              *)
(***************************************************************************)

(* The loop thread runs a queued addTimerInLoop. *)
RunAdd ==
  /\ RunFunctor
  /\ Head(pending).op = "add"
  /\ addTimerInLoop(Head(pending).id[1], timer[Head(pending).id[1]])
  /\ UNCHANGED <<allocated, cancelingTimers_, cancelled>>

(* The loop thread runs a queued cancelInLoop. *)
RunCancel ==
  /\ RunFunctor
  /\ Head(pending).op = "cancel"
  /\ cancelInLoop(Head(pending).id)
  /\ UNCHANGED timerfd_

(* The steps of a TimerQueue, one case for each operation, for proofs      *)
(* that go through them.                                                   *)
LEMMA StepCases ==
  ASSUME Next, NEW G,
         Tick => G, ClockStep => G, PollReports => G, HandleRead => G,
         RunTimer => G, CallbackReturns => G, Reset => G, RunAdd => G, RunCancel => G,
         Destroy => G,
         \A a \in Addr, when \in Times, interval \in Times, repeat \in BOOLEAN :
           AddTimer(a, when, interval, repeat) => G,
         \A c \in Callers, a \in Addr, when \in Times, interval \in Times,
            repeat \in BOOLEAN :
           CallerAddTimer(c, a, when, interval, repeat) => G,
         \A id \in ids : Cancel(id) => G,
         \A c \in Callers, id \in ids : CallerCancel(c, id) => G,
         \A c \in Callers : CallerReturns(c) => G
  PROVE  G
<1>1. RunFunctor => RunAdd \/ RunCancel
  BY DEF RunFunctor, RunAdd, RunCancel
<1>2. AddStep => G
  BY DEF AddStep
<1>3. CancelStep => G
  BY DEF CancelStep
<1> QED
  BY <1>1, <1>2, <1>3 DEF Next, LoopStep

-----------------------------------------------------------------------------
(***************************************************************************)
(* Types.                                                                  *)
(***************************************************************************)

(* The clocks and the timerfd. *)
ClockTyped ==
  /\ now \in Times \ {0} /\ clockSteps \in 0..MaxClockSteps
  /\ timerfd_ \in {Disarmed} \cup 0..Limit

(* The Timer objects and the two sets. *)
HeapTyped ==
  /\ allocated \subseteq Addr
  /\ timer \in [Addr -> Timers]
  /\ numCreated \in 0..MaxTimers
  /\ timers_ \subseteq Times \X Addr
  /\ activeTimers_ \subseteq TimerIds

(* What is being cancelled, and handleRead's place and locals. *)
HandleTyped ==
  /\ cancelingTimers_ \subseteq TimerIds
  /\ callingExpiredTimers_ \in BOOLEAN
  /\ callingExpiredTimers_ <=> pc \in {"running", "callback"}
  /\ pc \in {"loop", "reported", "running", "callback", "destroyed"}
  /\ expired \subseteq Addr /\ toRun \subseteq expired
  /\ handledAt \in Times

(* The users' side. *)
UserTyped ==
  /\ pending \in Seq(Requests)
  /\ adding \in [Callers -> Addr \cup {NoAddr}]
  /\ ids \subseteq TimerIds
  /\ cancelled \subseteq 0..MaxTimers

(* The type invariant, in the four parts that the proofs take one by one. *)
LEMMA TypeParts ==
  TypeOK <=> ClockTyped /\ HeapTyped /\ HandleTyped /\ UserTyped
BY DEF TypeOK, ClockTyped, HeapTyped, HandleTyped, UserTyped

(* The timerfd is armed for a delay within the horizon. *)
LEMMA DelayBounded ==
  ASSUME ClockTyped, NEW t \in Times, resetTimerfd(t)
  PROVE  timerfd_' \in 1..Limit
BY TimerAssumption
   DEF ClockTyped, resetTimerfd, howMuchTimeFromNow, Larger, Times

(* Saturated sums stay within the horizon. *)
LEMMA SaturatedTyped ==
  ASSUME NEW t \in Nat
  PROVE  /\ Saturated(t) \in Times
         /\ t > 0 => Saturated(t) > 0
BY TimerAssumption DEF Saturated, Times

(* The clocks and the timerfd keep their types. *)
LEMMA ClockTypedStep ==
  ASSUME TypeOK, Next
  PROVE  ClockTyped'
<1> USE TypeParts
<1>1. Tick => ClockTyped'
  <2>1. now \in Nat /\ now + 1 \in Nat /\ now + 1 > 0
    BY DEF ClockTyped, Times
  <2>2. Saturated(now + 1) \in Times \ {0}
    BY <2>1, SaturatedTyped
  <2> QED
    BY <2>2, TimerAssumption DEF ClockTyped, Tick, Larger, Disarmed
<1>2. ClockStep => ClockTyped'
  BY TimerAssumption DEF ClockTyped, ClockStep
<1>3. ASSUME UNCHANGED <<clockVars, timerfd_>> PROVE ClockTyped'
  BY <1>3 DEF ClockTyped, clockVars
<1>4. ASSUME UNCHANGED clockVars, NEW t \in Times, resetTimerfd(t) PROVE ClockTyped'
  BY <1>4, DelayBounded DEF ClockTyped, clockVars
<1>5. ASSUME UNCHANGED clockVars, NEW t \in Times, NEW a, NEW s,
             addTimerInLoop(a, s), s.expiration = t
      PROVE  ClockTyped'
  BY <1>3, <1>4, <1>5 DEF addTimerInLoop
<1>p. PollReports => ClockTyped'
  BY <1>3 DEF PollReports
<1>6. HandleRead => ClockTyped'
  BY DEF ClockTyped, HandleRead, clockVars
<1>7. RunTimer => ClockTyped'
  BY <1>3 DEF RunTimer
<1>8. CallbackReturns => ClockTyped'
  BY <1>3 DEF CallbackReturns
<1>9. Reset => ClockTyped'
  <2> SUFFICES ASSUME Reset PROVE ClockTyped'
    OBVIOUS
  <2>1. timers_' \subseteq Times \X Addr
    <3>1. ASSUME NEW a \in Restarted
          PROVE  timer'[a].expiration \in Times /\ a \in Addr
      <4>1. handledAt + timer[a].interval \in Nat
        BY DEF HandleTyped, HeapTyped, Times, Timers, Restarted
      <4>2. a \in Addr
        BY DEF HandleTyped, Restarted
      <4> QED
        BY <4>1, <4>2, SaturatedTyped DEF Reset, restart, HeapTyped, Timers
    <3>2. timers_' = timers_ \cup {<<timer'[a].expiration, a>> : a \in Restarted}
      BY DEF Reset
    <3> QED
      BY <3>1, <3>2 DEF HeapTyped
  <2>2. ASSUME NEW e \in timers_', resetTimerfd(e[1]) PROVE ClockTyped'
    BY <2>1, <2>2, <1>4 DEF Reset
  <2> QED
    BY <2>2, <1>3 DEF Reset, rearm
<1>10. RunAdd => ClockTyped'
  <2> SUFFICES ASSUME RunAdd PROVE ClockTyped'
    OBVIOUS
  <2>1. Head(pending) \in Requests
    BY DEF RunAdd, RunFunctor, UserTyped
  <2>2. timer[Head(pending).id[1]].expiration \in Times
    BY <2>1 DEF Requests, TimerIds, HeapTyped, Timers
  <2> QED
    BY <2>2, <1>5 DEF RunAdd, RunFunctor
<1>11. RunCancel => ClockTyped'
  BY <1>3 DEF RunCancel, RunFunctor
<1>12. Destroy => ClockTyped'
  BY DEF ClockTyped, Destroy, clockVars
<1>13. ASSUME NEW a \in Addr, NEW when \in Times, NEW interval \in Times,
              NEW repeat \in BOOLEAN, AddTimer(a, when, interval, repeat)
       PROVE  ClockTyped'
  <2>1. timer'[a].expiration = when
    BY <1>13 DEF AddTimer, newTimer, HeapTyped
  <2> QED
    BY <2>1, <1>5, <1>13 DEF AddTimer
<1>14. ASSUME NEW c \in Callers, NEW a \in Addr, NEW when \in Times,
              NEW interval \in Times, NEW repeat \in BOOLEAN,
              CallerAddTimer(c, a, when, interval, repeat)
       PROVE  ClockTyped'
  BY <1>3, <1>14 DEF CallerAddTimer
<1>15. ASSUME NEW id \in ids, Cancel(id) PROVE ClockTyped'
  BY <1>3, <1>15 DEF Cancel
<1>16. ASSUME NEW c \in Callers, NEW id \in ids, CallerCancel(c, id)
       PROVE  ClockTyped'
  BY <1>3, <1>16 DEF CallerCancel
<1>17. ASSUME NEW c \in Callers, CallerReturns(c) PROVE ClockTyped'
  BY <1>3, <1>17 DEF CallerReturns
<1> HIDE DEF ClockTyped
<1> QED
  BY <1>p, <1>1, <1>2, <1>6, <1>7, <1>8, <1>9, <1>10, <1>11, <1>12, <1>13, <1>14,
     <1>15, <1>16, <1>17, StepCases

(* What one more Timer does to the heap. *)
LEMMA NewTimerTyped ==
  ASSUME HeapTyped, NEW a \in Addr, NEW when \in Times, NEW interval \in Times,
         NEW repeat \in BOOLEAN, newTimer(a, when, interval, repeat)
  PROVE  /\ allocated' \subseteq Addr
         /\ timer' \in [Addr -> Timers]
         /\ numCreated' \in 0..MaxTimers
         /\ timer'[a] = [sequence |-> numCreated + 1, expiration |-> when,
                         interval |-> interval, repeat |-> repeat]
         /\ \A b \in Addr : b # a => timer'[b] = timer[b]
BY TimerAssumption DEF HeapTyped, newTimer, Timers

(* An inserted Timer's entries have their types. *)
LEMMA InsertTyped ==
  ASSUME HeapTyped, NEW a \in Addr, NEW t \in Timers, insertEntry(a, t)
  PROVE  /\ timers_' \subseteq Times \X Addr
         /\ activeTimers_' \subseteq TimerIds
BY DEF HeapTyped, insertEntry, Timers, TimerIds

(* What cancelInLoop leaves has its type. *)
LEMMA CancelTyped ==
  ASSUME HeapTyped, HandleTyped, UserTyped, NEW id \in TimerIds, cancelInLoop(id)
  PROVE  /\ timers_' \subseteq Times \X Addr
         /\ activeTimers_' \subseteq TimerIds
         /\ allocated' \subseteq Addr
         /\ cancelingTimers_' \subseteq TimerIds
         /\ cancelled' \subseteq 0..MaxTimers
<1>1. id[2] \in 0..MaxTimers
  BY DEF TimerIds
<1> QED
  BY <1>1 DEF HeapTyped, HandleTyped, UserTyped, cancelInLoop, setVars

(* The oldest functor and those behind it are requests. *)
LEMMA OldestTyped ==
  ASSUME UserTyped, pending # <<>>
  PROVE  /\ Head(pending) \in Requests
         /\ Head(pending).id \in TimerIds
         /\ Head(pending).id[1] \in Addr
         /\ Tail(pending) \in Seq(Requests)
<1>1. pending \in Seq(Requests) /\ pending # <<>>
  BY DEF UserTyped
<1>2. Head(pending) \in Requests /\ Tail(pending) \in Seq(Requests)
  BY <1>1
<1> QED
  BY <1>2 DEF Requests, TimerIds

(* The heap and the sets keep their types. *)
LEMMA HeapTypedStep ==
  ASSUME TypeOK, Next
  PROVE  HeapTyped'
<1> USE TypeParts
<1>1. ASSUME UNCHANGED <<heapVars, setVars>> PROVE HeapTyped'
  BY <1>1 DEF HeapTyped, heapVars, setVars
<1>2. Tick => HeapTyped'
  BY <1>1 DEF Tick
<1>3. ClockStep => HeapTyped'
  BY <1>1 DEF ClockStep
<1>p. PollReports => HeapTyped'
  BY <1>1 DEF PollReports
<1>4. HandleRead => HeapTyped'
  BY DEF HeapTyped, HandleRead, heapVars
<1>5. RunTimer => HeapTyped'
  BY <1>1 DEF RunTimer
<1>6. CallbackReturns => HeapTyped'
  BY <1>1 DEF CallbackReturns
<1>7. Reset => HeapTyped'
  <2> SUFFICES ASSUME Reset PROVE HeapTyped'
    OBVIOUS
  <2>1. ASSUME NEW a \in Restarted
        PROVE  a \in Addr /\ restart(timer[a]) \in Timers
    <3>1. handledAt + timer[a].interval \in Nat /\ a \in Addr
      BY DEF HandleTyped, HeapTyped, Times, Timers, Restarted
    <3> QED
      BY <3>1, SaturatedTyped DEF restart, HeapTyped, Timers
  <2>2. timer' \in [Addr -> Timers]
    BY <2>1 DEF Reset, HeapTyped
  <2>3. ASSUME NEW a \in Restarted
        PROVE  timer'[a].expiration \in Times /\ IdOf(a) \in TimerIds
    BY <2>1, <2>2 DEF Timers, IdOf, TimerIds, HeapTyped
  <2>4. timers_' = timers_ \cup {<<timer'[a].expiration, a>> : a \in Restarted}
    BY DEF Reset
  <2>5. activeTimers_' = activeTimers_ \cup {IdOf(a) : a \in Restarted}
    BY DEF Reset
  <2>6. timers_' \subseteq Times \X Addr /\ activeTimers_' \subseteq TimerIds
    BY <2>1, <2>3, <2>4, <2>5 DEF HeapTyped
  <2> QED
    BY <2>2, <2>6 DEF Reset, keptByReset, HeapTyped
<1>8. RunAdd => HeapTyped'
  <2> SUFFICES ASSUME RunAdd PROVE HeapTyped'
    OBVIOUS
  <2>1. Head(pending).id[1] \in Addr
    BY OldestTyped DEF RunAdd, RunFunctor
  <2>2. timer[Head(pending).id[1]] \in Timers
    BY <2>1 DEF HeapTyped
  <2>3. insertEntry(Head(pending).id[1], timer[Head(pending).id[1]])
    BY DEF RunAdd, addTimerInLoop
  <2>4. timers_' \subseteq Times \X Addr /\ activeTimers_' \subseteq TimerIds
    BY <2>1, <2>2, <2>3, InsertTyped
  <2> QED
    BY <2>4 DEF RunAdd, RunFunctor, HeapTyped
<1>9. RunCancel => HeapTyped'
  BY OldestTyped, CancelTyped DEF RunCancel, RunFunctor, HeapTyped
<1>10. Destroy => HeapTyped'
  BY DEF Destroy, HeapTyped
<1>11. ASSUME NEW a \in Addr, NEW when \in Times, NEW interval \in Times,
              NEW repeat \in BOOLEAN, AddTimer(a, when, interval, repeat)
       PROVE  HeapTyped'
  <2>1. newTimer(a, when, interval, repeat) /\ insertEntry(a, timer'[a])
    BY <1>11 DEF AddTimer, addTimerInLoop
  <2>2. timer' \in [Addr -> Timers]
    BY <2>1, NewTimerTyped
  <2>3. timer'[a] \in Timers
    BY <2>2
  <2> QED
    BY <2>1, <2>3, NewTimerTyped, InsertTyped DEF HeapTyped
<1>12. ASSUME NEW c \in Callers, NEW a \in Addr, NEW when \in Times,
              NEW interval \in Times, NEW repeat \in BOOLEAN,
              CallerAddTimer(c, a, when, interval, repeat)
       PROVE  HeapTyped'
  <2>1. newTimer(a, when, interval, repeat)
    BY <1>12 DEF CallerAddTimer
  <2> QED
    BY <1>12, <2>1, NewTimerTyped DEF HeapTyped, CallerAddTimer, setVars
<1>13. ASSUME NEW id \in ids, Cancel(id) PROVE HeapTyped'
  <2>1. id \in TimerIds
    BY DEF UserTyped
  <2> QED
    BY <1>13, <2>1, CancelTyped DEF Cancel, HeapTyped
<1>14. ASSUME NEW c \in Callers, NEW id \in ids, CallerCancel(c, id)
       PROVE  HeapTyped'
  BY <1>1, <1>14 DEF CallerCancel
<1>15. ASSUME NEW c \in Callers, CallerReturns(c) PROVE HeapTyped'
  BY <1>1, <1>15 DEF CallerReturns
<1> HIDE DEF HeapTyped
<1> QED
  BY <1>2, <1>3, <1>p, <1>4, <1>5, <1>6, <1>7, <1>8, <1>9, <1>10, <1>11, <1>12,
     <1>13, <1>14, <1>15, StepCases

(* The variables of handleRead keep their types. *)
LEMMA HandleTypedStep ==
  ASSUME TypeOK, Next
  PROVE  HandleTyped'
<1> USE TypeParts
<1>1. ASSUME UNCHANGED <<cancelingTimers_, handleVars>> PROVE HandleTyped'
  BY <1>1 DEF HandleTyped, handleVars
<1>2. Tick => HandleTyped'
  BY <1>1 DEF Tick
<1>3. ClockStep => HandleTyped'
  BY <1>1 DEF ClockStep
<1>p. PollReports => HandleTyped'
  BY DEF PollReports, HandleTyped
<1>4. HandleRead => HandleTyped'
  BY DEF HandleTyped, HandleRead, HeapTyped, ClockTyped, Due
<1>5. RunTimer => HandleTyped'
  BY DEF RunTimer, HandleTyped
<1>6. CallbackReturns => HandleTyped'
  BY DEF CallbackReturns, HandleTyped
<1>7. Reset => HandleTyped'
  <2> SUFFICES ASSUME Reset PROVE HandleTyped'
    OBVIOUS
  <2>1. /\ callingExpiredTimers_' = FALSE /\ expired' = {} /\ handledAt' = 0
        /\ pc' = "loop" /\ UNCHANGED <<cancelingTimers_, toRun>> /\ toRun = {}
    BY DEF Reset
  <2>2. /\ callingExpiredTimers_' \in BOOLEAN
        /\ callingExpiredTimers_' <=> pc' \in {"running", "callback"}
    BY <2>1, Zenon
  <2>3. handledAt' \in Times
    BY <2>1, TimerAssumption DEF Times
  <2> QED
    BY <2>1, <2>2, <2>3 DEF HandleTyped
<1>8. RunAdd => HandleTyped'
  BY <1>1 DEF RunAdd, RunFunctor
<1>9. RunCancel => HandleTyped'
  BY OldestTyped, CancelTyped DEF RunCancel, RunFunctor, HandleTyped, handleVars
<1>10. Destroy => HandleTyped'
  BY DEF Destroy, HandleTyped
<1>11. ASSUME NEW a \in Addr, NEW when \in Times, NEW interval \in Times,
              NEW repeat \in BOOLEAN, AddTimer(a, when, interval, repeat)
       PROVE  HandleTyped'
  BY <1>1, <1>11 DEF AddTimer
<1>12. ASSUME NEW c \in Callers, NEW a \in Addr, NEW when \in Times,
              NEW interval \in Times, NEW repeat \in BOOLEAN,
              CallerAddTimer(c, a, when, interval, repeat)
       PROVE  HandleTyped'
  BY <1>1, <1>12 DEF CallerAddTimer
<1>13. ASSUME NEW id \in ids, Cancel(id) PROVE HandleTyped'
  <2>1. id \in TimerIds
    BY DEF UserTyped
  <2> QED
    BY <1>13, <2>1, CancelTyped DEF Cancel, HandleTyped, handleVars
<1>14. ASSUME NEW c \in Callers, NEW id \in ids, CallerCancel(c, id)
       PROVE  HandleTyped'
  BY <1>1, <1>14 DEF CallerCancel
<1>15. ASSUME NEW c \in Callers, CallerReturns(c) PROVE HandleTyped'
  BY <1>1, <1>15 DEF CallerReturns
<1> HIDE DEF HandleTyped
<1> QED
  BY <1>2, <1>3, <1>p, <1>4, <1>5, <1>6, <1>7, <1>8, <1>9, <1>10, <1>11, <1>12,
     <1>13, <1>14, <1>15, StepCases

(* The users' variables keep their types. *)
LEMMA UserTypedStep ==
  ASSUME TypeOK, Next
  PROVE  UserTyped'
<1> USE TypeParts
<1>1. ASSUME UNCHANGED <<userVars, cancelled>> PROVE UserTyped'
  BY <1>1 DEF UserTyped, userVars
<1>2. Tick => UserTyped'
  BY <1>1 DEF Tick
<1>3. ClockStep => UserTyped'
  BY <1>1 DEF ClockStep
<1>p. PollReports => UserTyped'
  BY <1>1 DEF PollReports
<1>4. HandleRead => UserTyped'
  BY <1>1 DEF HandleRead
<1>5. RunTimer => UserTyped'
  BY <1>1 DEF RunTimer
<1>6. CallbackReturns => UserTyped'
  BY <1>1 DEF CallbackReturns
<1>7. Reset => UserTyped'
  BY <1>1 DEF Reset
<1>8. RunAdd => UserTyped'
  BY OldestTyped DEF RunAdd, RunFunctor, UserTyped
<1>9. RunCancel => UserTyped'
  BY OldestTyped, CancelTyped DEF RunCancel, RunFunctor, UserTyped
<1>10. Destroy => UserTyped'
  BY <1>1 DEF Destroy
<1>11. ASSUME NEW a \in Addr, NEW when \in Times, NEW interval \in Times,
              NEW repeat \in BOOLEAN, AddTimer(a, when, interval, repeat)
       PROVE  UserTyped'
  <2>1. <<a, numCreated + 1>> \in TimerIds
    BY <1>11, TimerAssumption DEF AddTimer, newTimer, HeapTyped, TimerIds
  <2> QED
    BY <1>11, <2>1 DEF AddTimer, UserTyped
<1>12. ASSUME NEW c \in Callers, NEW a \in Addr, NEW when \in Times,
              NEW interval \in Times, NEW repeat \in BOOLEAN,
              CallerAddTimer(c, a, when, interval, repeat)
       PROVE  UserTyped'
  <2>1. <<a, numCreated + 1>> \in TimerIds
    BY <1>12, TimerAssumption DEF CallerAddTimer, newTimer, HeapTyped, TimerIds
  <2>2. [op |-> "add", id |-> <<a, numCreated + 1>>] \in Requests
    BY <2>1 DEF Requests
  <2> QED
    BY <1>12, <2>2 DEF CallerAddTimer, UserTyped
<1>13. ASSUME NEW id \in ids, Cancel(id) PROVE UserTyped'
  <2>1. id \in TimerIds
    BY DEF UserTyped
  <2> QED
    BY <1>13, <2>1, CancelTyped DEF Cancel, UserTyped, userVars
<1>14. ASSUME NEW c \in Callers, NEW id \in ids, CallerCancel(c, id)
       PROVE  UserTyped'
  <2>1. [op |-> "cancel", id |-> id] \in Requests
    BY DEF UserTyped, Requests
  <2> QED
    BY <1>14, <2>1 DEF CallerCancel, UserTyped
<1>15. ASSUME NEW c \in Callers, CallerReturns(c) PROVE UserTyped'
  <2>1. adding[c] \in Addr
    BY <1>15 DEF CallerReturns, UserTyped
  <2> QED
    BY <1>15, <2>1 DEF CallerReturns, UserTyped, TimerIds
<1> HIDE DEF UserTyped
<1> QED
  BY <1>2, <1>3, <1>p, <1>4, <1>5, <1>6, <1>7, <1>8, <1>9, <1>10, <1>11, <1>12,
     <1>13, <1>14, <1>15, StepCases

-----------------------------------------------------------------------------
(***************************************************************************)
(* The two sets and the owners.                                            *)
(***************************************************************************)

(* The vector of expired timers exists only while handleRead runs. *)
HandlerAtRest == pc \in {"loop", "reported", "destroyed"} => expired = {}

(* The inductive invariant of the sets and of ownership. *)
TimersInv == TimersConsistent /\ HandlerAtRest

(* The timers that a queued addTimerInLoop will insert. *)
PendingTimers == {pending[i].id[1] : i \in PendingAdds}

(* What the queued functors promise: each inserts a Timer of its own, with *)
(* the sequence number that its TimerId shows.                             *)
PendingDistinct ==
  \A i \in PendingAdds :
    /\ pending[i].id = IdOf(pending[i].id[1])
    /\ \A j \in PendingAdds : pending[i].id[1] = pending[j].id[1] => i = j

(* The owners, as three disjoint sets. *)
Owned ==
  /\ allocated = Queued \cup expired \cup PendingTimers
  /\ Queued \cap expired = {}
  /\ PendingTimers \cap (Queued \cup expired) = {}

(* OneOwner in the two parts that the proofs take one by one. *)
LEMMA OwnerParts ==
  OneOwner <=> Owned /\ PendingDistinct
BY DEF OneOwner, Owned, PendingDistinct, PendingTimers

(* An entry of timers_ is known by its address. *)
LEMMA EntryOfQueued ==
  ASSUME SetsAgree, NEW a
  PROVE  /\ a \in Queued <=> <<timer[a].expiration, a>> \in timers_
         /\ \A t : <<t, a>> \in timers_ => t = timer[a].expiration
         /\ \A n : <<a, n>> \in activeTimers_ <=> a \in Queued /\ n = timer[a].sequence
BY DEF SetsAgree, Queued, IdOf

(* An entry of either set shows what is in its object. *)
LEMMA EntryShows ==
  ASSUME SetsAgree
  PROVE  /\ \A e \in timers_ : e[2] \in Queued /\ e = <<timer[e[2]].expiration, e[2]>>
         /\ \A id \in activeTimers_ : id[1] \in Queued /\ id = IdOf(id[1])
         /\ \A a \in Queued : IdOf(a) \in activeTimers_
BY DEF SetsAgree, IdOf

(* SetsAgree, entry by entry. *)
EntriesAgree ==
  /\ \A e \in timers_ : e = <<timer[e[2]].expiration, e[2]>>
  /\ \A id \in activeTimers_ : id[1] \in Queued /\ id = IdOf(id[1])
  /\ \A a \in Queued : IdOf(a) \in activeTimers_

(* The two sets agree if each entry shows what is in its object. *)
LEMMA AgreeByEntries == EntriesAgree => SetsAgree
<1> SUFFICES ASSUME EntriesAgree PROVE SetsAgree
  OBVIOUS
<1>1. timers_ = {<<timer[a].expiration, a>> : a \in Queued}
  <2>1. \A e \in timers_ : e[2] \in Queued
    BY DEF Queued
  <2>2. \A a \in Queued : \E e \in timers_ : e[2] = a
    BY DEF Queued
  <2> QED
    BY <2>1, <2>2 DEF EntriesAgree
<1>2. activeTimers_ = {IdOf(a) : a \in Queued}
  BY DEF EntriesAgree
<1> QED
  BY <1>1, <1>2 DEF SetsAgree

(* The addresses of a set of entries with one more. *)
LEMMA AddressesAdd ==
  ASSUME NEW S, NEW t, NEW a
  PROVE  {e[2] : e \in S \cup {<<t, a>>}} = {e[2] : e \in S} \cup {a}
<1> DEFINE x == <<t, a>>
<1>1. x[2] = a
  OBVIOUS
<1> HIDE DEF x
<1>2. {e[2] : e \in S \cup {x}} = {e[2] : e \in S} \cup {x[2]}
  OBVIOUS
<1> QED
  BY <1>1, <1>2 DEF x

(* An insertion of a Timer that does not wait adds it to both sets. *)
LEMMA InsertKeeps ==
  ASSUME SetsAgree, NEW a \in Addr, a \notin Queued,
         insertEntry(a, timer'[a]), \A b \in Queued : timer'[b] = timer[b]
  PROVE  SetsAgree' /\ Queued' = Queued \cup {a}
<1>1. Queued' = Queued \cup {a}
  BY AddressesAdd DEF Queued, insertEntry
<1>2. \A e \in timers_' : e = <<timer'[e[2]].expiration, e[2]>>
  BY EntryShows DEF insertEntry
<1>3. \A id \in activeTimers_' : id[1] \in Queued' /\ id = IdOf(id[1])'
  BY <1>1, EntryShows DEF insertEntry, IdOf
<1>4. \A b \in Queued' : IdOf(b)' \in activeTimers_'
  BY <1>1, EntryShows DEF insertEntry, IdOf
<1>5. EntriesAgree'
  BY <1>2, <1>3, <1>4 DEF EntriesAgree
<1> QED
  BY <1>1, <1>5, AgreeByEntries, PTL

(* A cancellation by a TimerId that is in activeTimers_ removes its Timer  *)
(* from both sets; any other leaves them alone.                            *)
LEMMA CancelKeeps ==
  ASSUME SetsAgree, NEW id, cancelInLoop(id), timer' = timer
  PROVE  /\ SetsAgree'
         /\ \/ /\ id \in activeTimers_ /\ id[1] \in Queued /\ id = IdOf(id[1])
               /\ Queued' = Queued \ {id[1]}
               /\ allocated' = allocated \ {id[1]}
               /\ cancelled' = cancelled \cup {id[2]}
            \/ /\ id \notin activeTimers_
               /\ Queued' = Queued /\ allocated' = allocated
<1>1. CASE id \in activeTimers_
  <2>1. id[1] \in Queued /\ id = IdOf(id[1])
    BY <1>1, EntryShows
  <2>2. /\ timers_' = timers_ \ {<<timer[id[1]].expiration, id[1]>>}
        /\ activeTimers_' = activeTimers_ \ {id}
        /\ allocated' = allocated \ {id[1]}
        /\ cancelled' = cancelled \cup {id[2]}
    BY <1>1 DEF cancelInLoop
  <2>3. Queued' = Queued \ {id[1]}
    <3>1. \A e \in timers_ : e[2] \in Queued /\ e = <<timer[e[2]].expiration, e[2]>>
      BY EntryShows
    <3>2. \A e \in timers_' : e[2] \in Queued /\ e[2] # id[1]
      BY <2>2, <3>1
    <3>3. ASSUME NEW a \in Queued, a # id[1] PROVE a \in Queued'
      <4>1. PICK e \in timers_ : e[2] = a
        BY <3>3 DEF Queued
      <4>2. e \in timers_'
        BY <2>2, <3>3, <4>1
      <4> QED
        BY <4>1, <4>2 DEF Queued
    <3>4. \A a \in Queued' : \E e \in timers_' : e[2] = a
      BY DEF Queued
    <3> QED
      BY <3>2, <3>3, <3>4
  <2>4. EntriesAgree'
    <3>1. \A e \in timers_' : e = <<timer'[e[2]].expiration, e[2]>>
      BY <2>2, EntryShows
    <3>2. \A x \in activeTimers_' : x[1] \in Queued' /\ x = IdOf(x[1])'
      BY <2>1, <2>2, <2>3, EntryShows DEF IdOf
    <3>3. \A b \in Queued' : IdOf(b)' \in activeTimers_'
      BY <2>1, <2>2, <2>3, EntryShows DEF IdOf
    <3> QED
      BY <3>1, <3>2, <3>3 DEF EntriesAgree
  <2>5. SetsAgree'
    BY <2>4, AgreeByEntries, PTL
  <2> QED
    BY <1>1, <2>1, <2>2, <2>3, <2>5
<1>2. CASE id \notin activeTimers_
  <2>1. UNCHANGED <<timers_, activeTimers_, allocated>>
    BY <1>2 DEF cancelInLoop, setVars
  <2> QED
    BY <1>2, <2>1 DEF SetsAgree, Queued, IdOf
<1> QED
  BY <1>1, <1>2

(* Functors are added at the end of the queue. *)
LEMMA PendingAppend ==
  ASSUME UserTyped, NEW r \in Requests, pending' = Append(pending, r)
  PROVE  /\ r.op = "add" =>
              /\ PendingAdds' = PendingAdds \cup {Len(pending) + 1}
              /\ PendingTimers' = PendingTimers \cup {r.id[1]}
         /\ r.op = "cancel" =>
              /\ PendingAdds' = PendingAdds
              /\ PendingTimers' = PendingTimers
         /\ \A i \in PendingAdds : pending'[i] = pending[i]
         /\ pending'[Len(pending) + 1] = r
<1>1. pending \in Seq(Requests) /\ Len(pending) \in Nat
  BY DEF UserTyped
<1>2. /\ Len(pending') = Len(pending) + 1
      /\ \A i \in 1..Len(pending) : pending'[i] = pending[i]
      /\ pending'[Len(pending) + 1] = r
  BY <1>1
<1>3. r.op = "add" => PendingAdds' = PendingAdds \cup {Len(pending) + 1}
  BY <1>1, <1>2 DEF PendingAdds
<1>4. r.op = "cancel" => PendingAdds' = PendingAdds
  BY <1>1, <1>2 DEF PendingAdds
<1>5. \A i \in PendingAdds : pending'[i] = pending[i]
  BY <1>2 DEF PendingAdds
<1>6. ASSUME r.op = "add" PROVE PendingTimers' = PendingTimers \cup {r.id[1]}
  <2>1. \A i \in PendingAdds' : i \in PendingAdds \/ i = Len(pending) + 1
    BY <1>3, <1>6
  <2>2. \A i \in PendingAdds : i \in PendingAdds' /\ pending'[i].id[1] = pending[i].id[1]
    BY <1>3, <1>5, <1>6
  <2>3. Len(pending) + 1 \in PendingAdds' /\ pending'[Len(pending) + 1].id[1] = r.id[1]
    BY <1>2, <1>3, <1>6
  <2>4. ASSUME NEW a \in PendingTimers' PROVE a \in PendingTimers \cup {r.id[1]}
    BY <2>1, <2>2, <2>3 DEF PendingTimers
  <2>5. ASSUME NEW a \in PendingTimers PROVE a \in PendingTimers'
    BY <2>2 DEF PendingTimers
  <2>6. r.id[1] \in PendingTimers'
    BY <2>3 DEF PendingTimers
  <2> QED
    BY <2>4, <2>5, <2>6
<1>7. r.op = "cancel" => PendingTimers' = PendingTimers
  BY <1>4, <1>5 DEF PendingTimers
<1> QED
  BY <1>2, <1>3, <1>4, <1>5, <1>6, <1>7

(* The oldest functor leaves the queue. *)
LEMMA PendingTail ==
  ASSUME UserTyped, PendingDistinct, pending # <<>>, pending' = Tail(pending),
         timer' = timer
  PROVE  /\ PendingDistinct'
         /\ Head(pending).op = "add" =>
              /\ Head(pending).id = IdOf(Head(pending).id[1])
              /\ Head(pending).id[1] \in PendingTimers
              /\ PendingTimers' = PendingTimers \ {Head(pending).id[1]}
         /\ Head(pending).op = "cancel" => PendingTimers' = PendingTimers
<1>1. pending \in Seq(Requests) /\ Len(pending) \in Nat /\ Len(pending) >= 1
  BY DEF UserTyped
<1>2. /\ Len(pending') = Len(pending) - 1
      /\ \A i \in 1..Len(pending') : pending'[i] = pending[i + 1]
      /\ Head(pending) = pending[1]
  BY <1>1
<1>3. \A i \in PendingAdds' : i + 1 \in PendingAdds /\ pending'[i] = pending[i + 1]
  BY <1>1, <1>2 DEF PendingAdds
<1>4. \A i \in PendingAdds : i # 1 => i - 1 \in PendingAdds' /\ pending'[i - 1] = pending[i]
  BY <1>1, <1>2 DEF PendingAdds
<1>5. PendingAdds \subseteq Nat /\ PendingAdds' \subseteq Nat
  BY DEF PendingAdds
<1>6. PendingDistinct'
  <2>1. ASSUME NEW i \in PendingAdds' PROVE (pending[i].id = IdOf(pending[i].id[1]))'
    BY <1>3 DEF PendingDistinct, IdOf
  <2>2. ASSUME NEW i \in PendingAdds', NEW j \in PendingAdds',
               pending'[i].id[1] = pending'[j].id[1]
        PROVE  i = j
    <3>0. /\ i + 1 \in PendingAdds /\ j + 1 \in PendingAdds
          /\ pending[i + 1].id[1] = pending[j + 1].id[1]
      BY <1>3, <2>2
    <3>1. i + 1 = j + 1
      BY <3>0 DEF PendingDistinct
    <3> QED
      BY <3>1, <1>5
  <2> QED
    BY <2>1, <2>2 DEF PendingDistinct
<1>7. ASSUME Head(pending).op = "add"
      PROVE  /\ Head(pending).id = IdOf(Head(pending).id[1])
             /\ Head(pending).id[1] \in PendingTimers
             /\ PendingTimers' = PendingTimers \ {Head(pending).id[1]}
  <2>1. 1 \in PendingAdds
    BY <1>1, <1>2, <1>7 DEF PendingAdds
  <2>2. Head(pending).id = IdOf(Head(pending).id[1]) /\ Head(pending).id[1] \in PendingTimers
    BY <1>2, <2>1 DEF PendingDistinct, PendingTimers
  <2>3. ASSUME NEW a \in PendingTimers'
        PROVE  a \in PendingTimers /\ a # Head(pending).id[1]
    <3>1. PICK i \in PendingAdds' : a = pending'[i].id[1]
      BY DEF PendingTimers
    <3>2. i + 1 \in PendingAdds /\ a = pending[i + 1].id[1] /\ i + 1 # 1
      BY <1>2, <1>3, <1>5, <3>1 DEF PendingAdds
    <3> QED
      BY <1>2, <2>1, <3>2 DEF PendingTimers, PendingDistinct
  <2>4. ASSUME NEW a \in PendingTimers, a # Head(pending).id[1]
        PROVE  a \in PendingTimers'
    <3>1. PICK i \in PendingAdds : a = pending[i].id[1]
      BY DEF PendingTimers
    <3> QED
      BY <1>2, <1>4, <2>4, <3>1 DEF PendingTimers
  <2> QED
    BY <2>2, <2>3, <2>4
<1>8. ASSUME Head(pending).op = "cancel"
      PROVE  PendingTimers' = PendingTimers
  <2>1. 1 \notin PendingAdds
    BY <1>2, <1>8 DEF PendingAdds
  <2>2. ASSUME NEW a \in PendingTimers' PROVE a \in PendingTimers
    BY <1>3 DEF PendingTimers
  <2>3. ASSUME NEW a \in PendingTimers PROVE a \in PendingTimers'
    <3>1. PICK i \in PendingAdds : a = pending[i].id[1]
      BY DEF PendingTimers
    <3> QED
      BY <1>4, <2>1, <3>1 DEF PendingTimers
  <2> QED
    BY <2>2, <2>3
<1> QED
  BY <1>6, <1>7, <1>8

(* The functors stay as they are while their Timers do. *)
LEMMA PendingKept ==
  ASSUME PendingDistinct, pending' = pending, \A a \in PendingTimers : timer'[a] = timer[a]
  PROVE  PendingDistinct' /\ PendingTimers' = PendingTimers
BY DEF PendingDistinct, PendingTimers, PendingAdds, IdOf

-----------------------------------------------------------------------------
(* The invariant holds at first. *)
LEMMA TimersInit ==
  ASSUME Init
  PROVE  TimersInv
<1>1. TypeOK
  <2>1. 0 \in Times /\ 1 \in Times \ {0} /\ 0 \in 0..MaxTimers /\ 0 \in 0..MaxClockSteps
    BY TimerAssumption DEF Times
  <2>2. ClockTyped
    BY <2>1 DEF Init, ClockTyped
  <2>3. HeapTyped
    BY <2>1 DEF Init, HeapTyped, Timers
  <2>4. HandleTyped
    BY <2>1 DEF Init, HandleTyped
  <2>5. UserTyped
    BY DEF Init, UserTyped
  <2> QED
    BY <2>2, <2>3, <2>4, <2>5, TypeParts
<1>2. Queued = {} /\ PendingAdds = {}
  BY DEF Init, Queued, PendingAdds
<1>3. SetsAgree
  BY <1>2 DEF Init, SetsAgree
<1>4. OneOwner
  BY <1>2 DEF Init, OneOwner
<1> QED
  BY <1>1, <1>3, <1>4 DEF TimersInv, TimersConsistent, HandlerAtRest, Init

(* The steps that touch neither the Timers nor the sets nor the functors. *)
LEMMA OwnersRest ==
  ASSUME SetsAgree, OneOwner,
         UNCHANGED <<timer, allocated, timers_, activeTimers_, pending, expired>>
  PROVE  SetsAgree' /\ OneOwner'
BY DEF SetsAgree, OneOwner, Queued, PendingAdds, IdOf

(* A Timer made at a free address has no owner yet. *)
LEMMA FreeAddress ==
  ASSUME OneOwner, NEW a, a \notin allocated
  PROVE  a \notin Queued /\ a \notin expired /\ a \notin PendingTimers
BY OwnerParts DEF Owned

(* The sets and the owners stay consistent in every step. *)
LEMMA OwnersStep ==
  ASSUME TypeOK, TypeOK', SetsAgree, OneOwner, HandlerAtRest, Next
  PROVE  SetsAgree' /\ OneOwner' /\ HandlerAtRest'
<1> DEFINE Good == SetsAgree' /\ OneOwner' /\ HandlerAtRest'
<1> USE TypeParts
<1>0. Owned /\ PendingDistinct
  BY OwnerParts
<1>1. ASSUME UNCHANGED <<heapVars, setVars, pending, expired, pc>> PROVE Good
  BY <1>1, OwnersRest DEF heapVars, setVars, HandlerAtRest
<1>2. Tick => Good
  BY <1>1 DEF Tick, handleVars, userVars
<1>3. ClockStep => Good
  BY <1>1 DEF ClockStep, handleVars, userVars
<1>p. PollReports => Good
  <2>1. PollReports => UNCHANGED <<heapVars, setVars, pending, expired>> /\ pc = "loop"
    BY DEF PollReports, userVars
  <2> QED
    BY <2>1, OwnersRest DEF heapVars, setVars, HandlerAtRest
<1>4. HandleRead => Good
  <2> SUFFICES ASSUME HandleRead PROVE Good
    OBVIOUS
  <2>1. /\ expired' = {e[2] : e \in Due}
        /\ timers_' = timers_ \ Due
        /\ activeTimers_' = activeTimers_ \ {IdOf(a) : a \in expired'}
        /\ UNCHANGED <<allocated, timer, pending>>
        /\ expired = {} /\ pc' = "running"
    BY DEF HandleRead, heapVars, userVars, HandlerAtRest
  <2>2. \A e \in timers_ : e \in Due <=> e[2] \in expired'
    <3>1. \A e, f \in timers_ : e[2] = f[2] => e = f
      BY EntryShows
    <3>2. Due \subseteq timers_
      BY DEF Due
    <3> QED
      BY <2>1, <3>1, <3>2
  <2>3. expired' \subseteq Queued
    BY <2>1 DEF Due, Queued
  <2>4. Queued' = Queued \ expired'
    <3>1. \A a \in Queued : \E e \in timers_ : e[2] = a
      BY DEF Queued
    <3>2. \A a \in Queued' : \E e \in timers_' : e[2] = a
      BY DEF Queued
    <3>3. \A e \in timers_' : e[2] \in Queued'
      BY DEF Queued
    <3>4. \A e \in timers_ : e[2] \in Queued
      BY DEF Queued
    <3> QED
      BY <2>1, <2>2, <3>1, <3>2, <3>3, <3>4
  <2>5. EntriesAgree'
    <3>1. \A e \in timers_' : e = <<timer'[e[2]].expiration, e[2]>>
      BY <2>1, EntryShows
    <3>2. \A x \in activeTimers_' : x[1] \in Queued' /\ x = IdOf(x[1])'
      BY <2>1, <2>4, EntryShows DEF IdOf
    <3>3. \A b \in Queued' : IdOf(b)' \in activeTimers_'
      BY <2>1, <2>4, EntryShows DEF IdOf
    <3> QED
      BY <3>1, <3>2, <3>3 DEF EntriesAgree
  <2>6. SetsAgree'
    BY <2>5, AgreeByEntries, PTL
  <2>7. PendingDistinct' /\ PendingTimers' = PendingTimers
    BY <1>0, <2>1, PendingKept
  <2>8. Owned'
    BY <1>0, <2>1, <2>3, <2>4, <2>7 DEF Owned
  <2>9. OneOwner'
    BY <2>7, <2>8, OwnerParts, PTL
  <2> QED
    BY <2>1, <2>6, <2>9 DEF HandlerAtRest
<1>5. RunTimer => Good
  <2>1. RunTimer => UNCHANGED <<heapVars, setVars, pending, expired>> /\ pc' = "callback"
    BY DEF RunTimer, userVars
  <2> QED
    BY <2>1, OwnersRest DEF heapVars, setVars, HandlerAtRest
<1>6. CallbackReturns => Good
  <2>1. CallbackReturns => UNCHANGED <<heapVars, setVars, pending, expired>> /\ pc' = "running"
    BY DEF CallbackReturns, userVars
  <2> QED
    BY <2>1, OwnersRest DEF heapVars, setVars, HandlerAtRest
<1>7. Reset => Good
  <2> SUFFICES ASSUME Reset PROVE Good
    OBVIOUS
  <2>1. /\ timers_' = timers_ \cup {<<timer'[a].expiration, a>> : a \in Restarted}
        /\ activeTimers_' = activeTimers_ \cup {IdOf(a) : a \in Restarted}
        /\ allocated' = allocated \ (expired \ Restarted)
        /\ expired' = {} /\ pending' = pending
    BY DEF Reset, keptByReset, userVars
  <2>2. Restarted \subseteq expired
    BY DEF Restarted
  <2>3. \A a \in Addr : timer'[a].sequence = timer[a].sequence
    BY DEF Reset, HeapTyped, Timers, restart
  <2>4. \A a \in Addr \ Restarted : timer'[a] = timer[a]
    BY DEF Reset
  <2>5. Queued \subseteq Addr /\ PendingTimers \subseteq Addr /\ expired \subseteq Addr
    BY <1>0 DEF Owned, HeapTyped
  <2>6. /\ \A a \in Queued \cup PendingTimers : timer'[a] = timer[a]
        /\ \A a \in Restarted : IdOf(a)' = IdOf(a)
    BY <1>0, <2>2, <2>3, <2>4, <2>5 DEF Owned, IdOf
  <2>7. Queued' = Queued \cup Restarted
    <3>1. \A a \in Restarted : <<timer'[a].expiration, a>>[2] = a
      OBVIOUS
    <3>2. ASSUME NEW a \in Queued \cup Restarted PROVE a \in Queued'
      BY <2>1, <3>1 DEF Queued
    <3>3. \A a \in Queued' : \E e \in timers_' : e[2] = a
      BY DEF Queued
    <3>4. ASSUME NEW e \in timers_' PROVE e[2] \in Queued \cup Restarted
      BY <2>1, <3>1 DEF Queued
    <3> QED
      BY <3>2, <3>3, <3>4
  <2>8. EntriesAgree'
    <3>1. \A e \in timers_' : e = <<timer'[e[2]].expiration, e[2]>>
      BY <2>1, <2>6, EntryShows
    <3>2. \A x \in activeTimers_' : x[1] \in Queued' /\ x = IdOf(x[1])'
      BY <2>1, <2>6, <2>7, EntryShows DEF IdOf
    <3>3. \A b \in Queued' : IdOf(b)' \in activeTimers_'
      BY <2>1, <2>6, <2>7, EntryShows DEF IdOf
    <3> QED
      BY <3>1, <3>2, <3>3 DEF EntriesAgree
  <2>9. SetsAgree'
    BY <2>8, AgreeByEntries, PTL
  <2>10. PendingDistinct' /\ PendingTimers' = PendingTimers
    BY <1>0, <2>1, <2>6, PendingKept
  <2>11. Owned'
    BY <1>0, <2>1, <2>2, <2>7, <2>10 DEF Owned
  <2>12. OneOwner'
    BY <2>10, <2>11, OwnerParts, PTL
  <2> QED
    BY <2>1, <2>9, <2>12 DEF HandlerAtRest
<1>8. RunAdd => Good
  <2> SUFFICES ASSUME RunAdd PROVE Good
    OBVIOUS
  <2> DEFINE a == Head(pending).id[1]
  <2>1. /\ pending # <<>> /\ pending' = Tail(pending) /\ Head(pending).op = "add"
        /\ insertEntry(a, timer[a])
        /\ UNCHANGED <<allocated, timer, expired, pc>>
    BY DEF RunAdd, RunFunctor, addTimerInLoop, handleVars
  <2>2. a \in Addr
    BY <2>1, OldestTyped
  <2>3. PendingDistinct' /\ a \in PendingTimers /\ PendingTimers' = PendingTimers \ {a}
    BY <1>0, <2>1, PendingTail
  <2> HIDE DEF a
  <2>4. a \notin Queued /\ a \notin expired
    BY <1>0, <2>3 DEF Owned
  <2>5. SetsAgree' /\ Queued' = Queued \cup {a}
    BY <2>1, <2>2, <2>4, InsertKeeps
  <2>6. Owned'
    BY <1>0, <2>1, <2>3, <2>4, <2>5 DEF Owned
  <2>7. OneOwner'
    BY <2>3, <2>6, OwnerParts, PTL
  <2> QED
    BY <2>1, <2>5, <2>7 DEF HandlerAtRest
<1>9. RunCancel => Good
  <2> SUFFICES ASSUME RunCancel PROVE Good
    OBVIOUS
  <2> DEFINE id == Head(pending).id
  <2>1. /\ pending # <<>> /\ pending' = Tail(pending) /\ Head(pending).op = "cancel"
        /\ cancelInLoop(id) /\ UNCHANGED <<timer, expired, pc>>
    BY DEF RunCancel, RunFunctor, handleVars
  <2>2. PendingDistinct' /\ PendingTimers' = PendingTimers
    BY <1>0, <2>1, PendingTail
  <2> HIDE DEF id
  <2>3. Owned' /\ SetsAgree'
    BY <1>0, <2>1, <2>2, CancelKeeps DEF Owned
  <2>4. OneOwner'
    BY <2>2, <2>3, OwnerParts, PTL
  <2> QED
    BY <2>1, <2>3, <2>4 DEF HandlerAtRest
<1>10. Destroy => Good
  <2> SUFFICES ASSUME Destroy PROVE Good
    OBVIOUS
  <2>1. /\ allocated' = allocated \ Queued /\ timers_' = {} /\ activeTimers_' = {}
        /\ UNCHANGED <<timer, pending, expired>> /\ pc = "loop"
    BY DEF Destroy, Queued, userVars
  <2>2. Queued' = {}
    BY <2>1 DEF Queued
  <2>3. SetsAgree'
    BY <2>1, <2>2 DEF SetsAgree
  <2>4. PendingDistinct' /\ PendingTimers' = PendingTimers
    BY <1>0, <2>1, PendingKept
  <2>5. Owned'
    BY <1>0, <2>1, <2>2, <2>4 DEF Owned
  <2>6. OneOwner'
    BY <2>4, <2>5, OwnerParts, PTL
  <2> QED
    BY <2>1, <2>3, <2>6 DEF HandlerAtRest
<1>11. ASSUME NEW a \in Addr, NEW when \in Times, NEW interval \in Times,
              NEW repeat \in BOOLEAN, AddTimer(a, when, interval, repeat)
       PROVE  Good
  <2>1. /\ a \notin allocated /\ allocated' = allocated \cup {a}
        /\ insertEntry(a, timer'[a])
        /\ UNCHANGED <<pending, expired, pc>>
        /\ newTimer(a, when, interval, repeat)
    BY <1>11 DEF AddTimer, newTimer, addTimerInLoop, handleVars
  <2>2. a \notin Queued /\ a \notin expired /\ a \notin PendingTimers
    BY <2>1, FreeAddress
  <2>3. \A b \in Addr : b # a => timer'[b] = timer[b]
    BY <2>1, NewTimerTyped
  <2>4. Queued \subseteq Addr /\ PendingTimers \subseteq Addr
    BY <1>0 DEF Owned, HeapTyped
  <2>5. SetsAgree' /\ Queued' = Queued \cup {a}
    BY <2>1, <2>2, <2>3, <2>4, InsertKeeps
  <2>6. PendingDistinct' /\ PendingTimers' = PendingTimers
    BY <1>0, <2>1, <2>2, <2>3, <2>4, PendingKept
  <2>7. Owned'
    BY <1>0, <2>1, <2>2, <2>5, <2>6 DEF Owned
  <2>8. OneOwner'
    BY <2>6, <2>7, OwnerParts, PTL
  <2> QED
    BY <2>1, <2>5, <2>8 DEF HandlerAtRest
<1>12. ASSUME NEW c \in Callers, NEW a \in Addr, NEW when \in Times,
              NEW interval \in Times, NEW repeat \in BOOLEAN,
              CallerAddTimer(c, a, when, interval, repeat)
       PROVE  Good
  <2> DEFINE r == [op |-> "add", id |-> <<a, numCreated + 1>>]
  <2>1. /\ a \notin allocated /\ allocated' = allocated \cup {a}
        /\ newTimer(a, when, interval, repeat)
        /\ pending' = Append(pending, r)
        /\ UNCHANGED <<expired, pc, timers_, activeTimers_>>
    BY <1>12 DEF CallerAddTimer, newTimer, handleVars, setVars
  <2>2. r \in Requests /\ r.op = "add" /\ r.id[1] = a /\ r.id = <<a, timer'[a].sequence>>
    <3>0. timer'[a] = [sequence |-> numCreated + 1, expiration |-> when,
                       interval |-> interval, repeat |-> repeat]
      BY <2>1, NewTimerTyped
    <3>1. timer'[a].sequence = numCreated + 1
      BY <3>0
    <3>2. numCreated + 1 \in 0..MaxTimers
      BY <2>1, TimerAssumption DEF newTimer, HeapTyped
    <3> QED
      BY <3>1, <3>2 DEF Requests, TimerIds
  <2> HIDE DEF r
  <2>3. a \notin Queued /\ a \notin expired /\ a \notin PendingTimers
    BY <2>1, FreeAddress
  <2>4. \A b \in Addr : b # a => timer'[b] = timer[b]
    BY <2>1, NewTimerTyped
  <2>5. Queued \subseteq Addr /\ PendingTimers \subseteq Addr
    BY <1>0 DEF Owned, HeapTyped
  <2>6. /\ \A b \in Queued : timer'[b] = timer[b]
        /\ \A b \in PendingTimers : timer'[b] = timer[b]
    BY <2>3, <2>4, <2>5
  <2>7. SetsAgree' /\ Queued' = Queued
    <3>1. Queued' = Queued
      BY <2>1 DEF Queued
    <3> QED
      BY <2>1, <2>6, <3>1 DEF SetsAgree, IdOf
  <2>8. /\ PendingAdds' = PendingAdds \cup {Len(pending) + 1}
        /\ PendingTimers' = PendingTimers \cup {a}
        /\ \A i \in PendingAdds : pending'[i] = pending[i]
        /\ pending'[Len(pending) + 1] = r
    BY <2>1, <2>2, PendingAppend
  <2>9. PendingDistinct'
    <3>1. \A i \in PendingAdds : pending[i].id[1] \in PendingTimers
      BY DEF PendingTimers
    <3>2. ASSUME NEW i \in PendingAdds'
          PROVE  (pending[i].id = IdOf(pending[i].id[1]))'
      <4>1. CASE i \in PendingAdds
        BY <1>0, <2>6, <2>8, <3>1, <4>1 DEF PendingDistinct, IdOf
      <4>2. CASE i = Len(pending) + 1
        BY <2>2, <2>8, <4>2 DEF IdOf
      <4> QED
        BY <2>8, <4>1, <4>2
    <3>3. ASSUME NEW i \in PendingAdds', NEW j \in PendingAdds',
                 pending'[i].id[1] = pending'[j].id[1]
          PROVE  i = j
      BY <1>0, <2>2, <2>3, <2>8, <3>1, <3>3 DEF PendingDistinct
    <3> QED
      BY <3>2, <3>3 DEF PendingDistinct
  <2>10. Owned'
    BY <1>0, <2>1, <2>3, <2>7, <2>8 DEF Owned
  <2>11. OneOwner'
    BY <2>9, <2>10, OwnerParts, PTL
  <2> QED
    BY <2>1, <2>7, <2>11 DEF HandlerAtRest
<1>13. ASSUME NEW id \in ids, Cancel(id) PROVE Good
  <2>1. cancelInLoop(id) /\ UNCHANGED <<timer, expired, pc, pending>>
    BY <1>13 DEF Cancel, handleVars, userVars
  <2>2. PendingDistinct' /\ PendingTimers' = PendingTimers
    BY <1>0, <2>1, PendingKept
  <2>3. Owned' /\ SetsAgree'
    BY <1>0, <2>1, <2>2, CancelKeeps DEF Owned
  <2>4. OneOwner'
    BY <2>2, <2>3, OwnerParts, PTL
  <2> QED
    BY <2>1, <2>3, <2>4 DEF HandlerAtRest
<1>14. ASSUME NEW c \in Callers, NEW id \in ids, CallerCancel(c, id)
       PROVE  Good
  <2> DEFINE r == [op |-> "cancel", id |-> id]
  <2>1. /\ pending' = Append(pending, r)
        /\ UNCHANGED <<expired, pc, timer, allocated, timers_, activeTimers_>>
    BY <1>14 DEF CallerCancel, handleVars, heapVars, setVars
  <2>2. r \in Requests /\ r.op = "cancel"
    BY DEF Requests, UserTyped
  <2> HIDE DEF r
  <2>3. /\ PendingAdds' = PendingAdds
        /\ PendingTimers' = PendingTimers
        /\ \A i \in PendingAdds : pending'[i] = pending[i]
    BY <2>1, <2>2, PendingAppend
  <2>4. Queued' = Queued
    BY <2>1 DEF Queued
  <2>5. SetsAgree'
    BY <2>1, <2>4 DEF SetsAgree, IdOf
  <2>6. PendingDistinct'
    <3>1. ASSUME NEW i \in PendingAdds'
          PROVE  (pending[i].id = IdOf(pending[i].id[1]))'
      BY <1>0, <2>1, <2>3 DEF PendingDistinct, IdOf
    <3>2. ASSUME NEW i \in PendingAdds', NEW j \in PendingAdds',
                 pending'[i].id[1] = pending'[j].id[1]
          PROVE  i = j
      BY <1>0, <2>3, <3>2 DEF PendingDistinct
    <3> QED
      BY <3>1, <3>2 DEF PendingDistinct
  <2>7. Owned'
    BY <1>0, <2>1, <2>3, <2>4 DEF Owned
  <2>8. OneOwner'
    BY <2>6, <2>7, OwnerParts, PTL
  <2> QED
    BY <2>1, <2>5, <2>8 DEF HandlerAtRest
<1>15. ASSUME NEW c \in Callers, CallerReturns(c) PROVE Good
  BY <1>1, <1>15 DEF CallerReturns, handleVars
<1> HIDE DEF Good
<1> QED
  BY <1>2, <1>3, <1>p, <1>4, <1>5, <1>6, <1>7, <1>8, <1>9, <1>10, <1>11, <1>12,
     <1>13, <1>14, <1>15, StepCases DEF Good

(* The type invariant, the two sets and the owners are kept by every step. *)
LEMMA TimersStep ==
  ASSUME TimersInv, [Next]_vars
  PROVE  TimersInv'
<1> USE DEF TimersInv, TimersConsistent
<1>1. CASE Next
  <2>1. TypeOK'
    <3>1. ClockTyped' /\ HeapTyped' /\ HandleTyped' /\ UserTyped'
      BY <1>1, ClockTypedStep, HeapTypedStep, HandleTypedStep, UserTypedStep
    <3> QED
      BY <3>1, TypeParts, PTL
  <2> QED
    BY <1>1, <2>1, OwnersStep
<1>2. CASE UNCHANGED vars
  <2>1. TypeOK'
    BY <1>2 DEF TypeOK, vars, clockVars, heapVars, setVars, handleVars, userVars
  <2> QED
    BY <1>2, <2>1, OwnersRest
    DEF vars, heapVars, setVars, handleVars, userVars, HandlerAtRest
<1> QED
  BY <1>1, <1>2

(* In every reachable state of the timer queue the two sets agree and each *)
(* Timer has its one owner.                                                *)
THEOREM TimersInvariant == Spec => []TimersInv
<1>1. Init => TimersInv
  BY TimersInit
<1>2. TimersInv /\ [Next]_vars => TimersInv'
  BY TimersStep
<1> QED
  BY <1>1, <1>2, PTL DEF Spec

(* No pointer that the loop thread follows dangles, no Timer is deleted    *)
(* twice and none is leaked, whatever callbacks and other threads add and  *)
(* cancel meanwhile.                                                       *)
THEOREM TimersStayConsistent == Spec => []TimersConsistent
<1>1. TimersInv => TimersConsistent
  BY DEF TimersInv
<1> QED
  BY <1>1, TimersInvariant, PTL

-----------------------------------------------------------------------------
(***************************************************************************)
(* Cancelled timers.                                                       *)
(***************************************************************************)

(* A sequence number is given once: no two live Timers share one.          *)
NumbersUnique ==
  /\ \A a \in allocated : timer[a].sequence \in 1..numCreated
  /\ \A a, b \in allocated : timer[a].sequence = timer[b].sequence => a = b

(* No Timer that waits, or will be inserted, was cancelled.                *)
WaitingNotCancelled ==
  \A a \in Queued \cup PendingTimers : timer[a].sequence \notin cancelled

(* cancelingTimers_, where reset looks, holds of the expired Timers those  *)
(* that were cancelled while their batch runs.                             *)
ExpiredRemembered ==
  \A a \in expired : timer[a].sequence \in cancelled <=> IdOf(a) \in cancelingTimers_

(* The inductive invariant of cancellation. *)
CancelInv ==
  /\ NumbersUnique
  /\ cancelled \subseteq 1..numCreated
  /\ WaitingNotCancelled
  /\ ExpiredRemembered

(* Nothing has been cancelled, and no Timer made, at first. *)
LEMMA CancelInit ==
  ASSUME Init
  PROVE  CancelInv
BY DEF Init, CancelInv, NumbersUnique, WaitingNotCancelled, ExpiredRemembered,
       Queued, PendingTimers, PendingAdds

(* A new Timer has a number of its own, larger than any before. *)
LEMMA NewNumber ==
  ASSUME HeapTyped, OneOwner, CancelInv, NEW a \in Addr, NEW when \in Times,
         NEW interval \in Times, NEW repeat \in BOOLEAN,
         newTimer(a, when, interval, repeat), cancelled' = cancelled
  PROVE  /\ NumbersUnique'
         /\ cancelled' \subseteq 1..numCreated'
         /\ timer'[a].sequence \notin cancelled'
         /\ \A b \in allocated : timer'[b] = timer[b]
<1>1. timer'[a] = [sequence |-> numCreated + 1, expiration |-> when,
                   interval |-> interval, repeat |-> repeat]
  BY NewTimerTyped
<1>2. timer'[a].sequence = numCreated + 1
  BY <1>1
<1>3. /\ a \notin allocated /\ allocated' = allocated \cup {a}
      /\ numCreated' = numCreated + 1 /\ numCreated \in Nat
  BY TimerAssumption DEF newTimer, HeapTyped
<1>4. \A b \in allocated : timer'[b] = timer[b]
  BY <1>3, NewTimerTyped DEF HeapTyped
<1>5. \A b \in allocated : timer'[b].sequence \in 1..numCreated
  BY <1>4 DEF CancelInv, NumbersUnique
<1>6. NumbersUnique'
  <2>1. \A b \in allocated' : timer'[b].sequence \in 1..numCreated'
    BY <1>2, <1>3, <1>5
  <2>2. ASSUME NEW b \in allocated', NEW c \in allocated',
               timer'[b].sequence = timer'[c].sequence
        PROVE  b = c
    <3>1. CASE b \in allocated /\ c \in allocated
      BY <1>4, <2>2, <3>1 DEF CancelInv, NumbersUnique
    <3>2. CASE b = a \/ c = a
      BY <1>2, <1>3, <1>5, <2>2, <3>2
    <3> QED
      BY <1>3, <3>1, <3>2
  <2> QED
    BY <2>1, <2>2 DEF NumbersUnique
<1>7. cancelled' \subseteq 1..numCreated' /\ timer'[a].sequence \notin cancelled'
  BY <1>2, <1>3 DEF CancelInv
<1> QED
  BY <1>4, <1>6, <1>7

(* A cancellation in the loop thread marks a waiting Timer that leaves the *)
(* sets, or an expired one that reset will not restart.                    *)
LEMMA CancelStepKeeps ==
  ASSUME TypeOK, SetsAgree, OneOwner, HandlerAtRest, CancelInv, NEW id, cancelInLoop(id),
         PendingTimers' \subseteq PendingTimers,
         UNCHANGED <<timer, numCreated, expired>>
  PROVE  CancelInv'
<1> USE TypeParts
<1>0. Owned /\ NumbersUnique
  BY OwnerParts DEF CancelInv
<1>1. CASE id \in activeTimers_
  <2>1. /\ id[1] \in Queued /\ id = IdOf(id[1])
        /\ Queued' = Queued \ {id[1]}
        /\ allocated' = allocated \ {id[1]}
        /\ cancelled' = cancelled \cup {id[2]}
        /\ UNCHANGED cancelingTimers_
    BY <1>1, CancelKeeps DEF cancelInLoop
  <2>2. id[2] = timer[id[1]].sequence /\ id[1] \in allocated
    BY <1>0, <2>1 DEF IdOf, Owned
  <2>3. \A b \in allocated : timer[b].sequence = id[2] => b = id[1]
    BY <1>0, <2>2 DEF NumbersUnique
  <2>4. NumbersUnique'
    BY <1>0, <2>1 DEF NumbersUnique
  <2>5. cancelled' \subseteq 1..numCreated'
    BY <1>0, <2>1, <2>2 DEF NumbersUnique, CancelInv
  <2>6. ASSUME NEW a \in Queued' \cup PendingTimers' PROVE timer'[a].sequence \notin cancelled'
    <3>1. a \in Queued \cup PendingTimers /\ a # id[1] /\ a \in allocated
      BY <1>0, <2>1 DEF Owned
    <3> QED
      BY <2>1, <2>3, <3>1 DEF CancelInv, WaitingNotCancelled
  <2>7. ASSUME NEW a \in expired'
        PROVE  timer'[a].sequence \in cancelled' <=> IdOf(a)' \in cancelingTimers_'
    <3>1. a \in expired /\ a # id[1] /\ a \in allocated
      BY <1>0, <2>1 DEF Owned
    <3> QED
      BY <2>1, <2>3, <3>1 DEF CancelInv, ExpiredRemembered, IdOf
  <2> QED
    BY <2>4, <2>5, <2>6, <2>7 DEF CancelInv, WaitingNotCancelled, ExpiredRemembered
<1>2. CASE id \notin activeTimers_
  <2>1. /\ Queued' = Queued /\ allocated' = allocated
        /\ cancelingTimers_' = IF callingExpiredTimers_
                               THEN cancelingTimers_ \cup {id} ELSE cancelingTimers_
        /\ cancelled' = IF id \in ExpiredIds THEN cancelled \cup {id[2]} ELSE cancelled
    BY <1>2, CancelKeeps DEF cancelInLoop
  <2>2. NumbersUnique'
    BY <1>0, <2>1 DEF NumbersUnique
  <2>3. CASE id \in ExpiredIds
    <3>1. PICK x \in expired : id = IdOf(x)
      BY <2>3 DEF ExpiredIds
    <3>2. x \in allocated /\ id[2] = timer[x].sequence /\ id[1] = x
      BY <1>0, <3>1 DEF IdOf, Owned
    <3>3. callingExpiredTimers_
      BY <3>1 DEF HandleTyped, HandlerAtRest
    <3>4. \A b \in allocated : timer[b].sequence = id[2] => b = x
      BY <1>0, <3>2 DEF NumbersUnique
    <3>5. cancelled' \subseteq 1..numCreated'
      BY <1>0, <2>1, <3>2 DEF NumbersUnique, CancelInv
    <3>6. ASSUME NEW a \in Queued' \cup PendingTimers'
          PROVE  timer'[a].sequence \notin cancelled'
      <4>1. a \in Queued \cup PendingTimers /\ a # x /\ a \in allocated
        BY <1>0, <2>1 DEF Owned
      <4> QED
        BY <2>1, <2>3, <3>4, <4>1 DEF CancelInv, WaitingNotCancelled
    <3>7. ASSUME NEW a \in expired'
          PROVE  timer'[a].sequence \in cancelled' <=> IdOf(a)' \in cancelingTimers_'
      <4>1. a \in expired /\ a \in allocated
        BY <1>0 DEF Owned
      <4>2. CASE a = x
        BY <2>1, <2>3, <3>1, <3>2, <3>3, <4>2 DEF IdOf
      <4>3. CASE a # x
        <5>1. IdOf(a) # id
          BY <3>2, <4>3 DEF IdOf
        <5> QED
          BY <2>1, <2>3, <3>4, <4>1, <4>3, <5>1 DEF CancelInv, ExpiredRemembered, IdOf
      <4> QED
        BY <4>2, <4>3
    <3> QED
      BY <2>2, <3>5, <3>6, <3>7 DEF CancelInv, WaitingNotCancelled, ExpiredRemembered
  <2>4. CASE id \notin ExpiredIds
    <3>1. cancelled' = cancelled
      BY <2>1, <2>4
    <3>2. \A a \in expired : IdOf(a) \in cancelingTimers_' <=> IdOf(a) \in cancelingTimers_
      BY <2>1, <2>4 DEF ExpiredIds
    <3> QED
      BY <2>1, <2>2, <3>1, <3>2
      DEF CancelInv, WaitingNotCancelled, ExpiredRemembered, IdOf
  <2> QED
    BY <2>3, <2>4
<1> QED
  BY <1>1, <1>2

(* The steps that make no Timer, cancel nothing and insert nothing. *)
LEMMA CancelRests ==
  ASSUME CancelInv,
         UNCHANGED <<timer, allocated, numCreated, timers_, pending, expired,
                     cancelingTimers_, cancelled>>
  PROVE  CancelInv'
BY DEF CancelInv, NumbersUnique, WaitingNotCancelled, ExpiredRemembered,
       Queued, PendingTimers, PendingAdds, IdOf

(* Every step keeps the invariant of cancellation. *)
LEMMA CancellationStep ==
  ASSUME TimersInv, TimersInv', CancelInv, Next
  PROVE  CancelInv'
<1> USE TypeParts
<1> DEFINE Good == CancelInv'
<1>0. TypeOK /\ TypeOK' /\ SetsAgree /\ SetsAgree' /\ OneOwner /\ OneOwner' /\ HandlerAtRest
  BY DEF TimersInv, TimersConsistent
<1>a. Owned /\ Owned' /\ PendingDistinct
  <2>1. Owned'
    BY <1>0, OwnerParts, PTL
  <2> QED
    BY <1>0, <2>1, OwnerParts
<1>1. ASSUME UNCHANGED <<heapVars, setVars, pending, expired, cancelingTimers_, cancelled>>
      PROVE  Good
  BY <1>1, CancelRests DEF heapVars, setVars
<1>2. Tick => Good
  BY <1>1 DEF Tick, handleVars, userVars
<1>3. ClockStep => Good
  BY <1>1 DEF ClockStep, handleVars, userVars
<1>p. PollReports => Good
  BY <1>1 DEF PollReports, userVars
<1>4. HandleRead => Good
  <2> SUFFICES ASSUME HandleRead PROVE Good
    OBVIOUS
  <2>1. /\ UNCHANGED <<timer, allocated, numCreated, pending, cancelled>>
        /\ timers_' \subseteq timers_ /\ Due \subseteq timers_
        /\ expired' = {e[2] : e \in Due} /\ cancelingTimers_' = {}
    BY DEF HandleRead, heapVars, userVars, Due
  <2>2. Queued' \subseteq Queued /\ expired' \subseteq Queued
    BY <2>1 DEF Queued
  <2>3. PendingTimers' = PendingTimers
    BY <2>1 DEF PendingTimers, PendingAdds
  <2>4. NumbersUnique'
    BY <2>1 DEF CancelInv, NumbersUnique
  <2>5. WaitingNotCancelled' /\ ExpiredRemembered'
    BY <2>1, <2>2, <2>3 DEF CancelInv, WaitingNotCancelled, ExpiredRemembered
  <2> QED
    BY <2>1, <2>4, <2>5 DEF CancelInv
<1>5. RunTimer => Good
  BY <1>1 DEF RunTimer, userVars
<1>6. CallbackReturns => Good
  BY <1>1 DEF CallbackReturns, userVars
<1>7. Reset => Good
  <2> SUFFICES ASSUME Reset PROVE Good
    OBVIOUS
  <2>1. /\ timers_' = timers_ \cup {<<timer'[a].expiration, a>> : a \in Restarted}
        /\ allocated' \subseteq allocated
        /\ UNCHANGED <<numCreated, pending, cancelled>>
        /\ expired' = {}
    BY DEF Reset, keptByReset, userVars
  <2>2. \A a \in Addr : timer'[a].sequence = timer[a].sequence
    BY <1>0 DEF Reset, HeapTyped, Timers, restart
  <2>3. \A a \in Queued' : a \in Queued \/ a \in Restarted
    <3>1. \A a \in Restarted : <<timer'[a].expiration, a>>[2] = a
      OBVIOUS
    <3> QED
      BY <2>1, <3>1 DEF Queued
  <2>4. PendingTimers' = PendingTimers
    BY <2>1 DEF PendingTimers, PendingAdds
  <2>5. allocated \subseteq Addr /\ allocated' \subseteq Addr
    BY <1>0, <2>1 DEF HeapTyped
  <2>6. \A a \in Restarted : timer[a].sequence \notin cancelled /\ a \in allocated
    BY <1>a DEF Restarted, CancelInv, ExpiredRemembered, Owned
  <2>7. NumbersUnique'
    BY <2>1, <2>2, <2>5 DEF CancelInv, NumbersUnique
  <2>8. WaitingNotCancelled'
    <3>1. ASSUME NEW a \in Queued' \cup PendingTimers'
          PROVE  timer'[a].sequence \notin cancelled'
      <4>1. a \in Addr
        BY <1>a, <2>5 DEF Owned
      <4>2. a \in Queued \cup PendingTimers \/ a \in Restarted
        BY <2>3, <2>4
      <4>3. timer[a].sequence \notin cancelled
        BY <2>6, <4>2 DEF CancelInv, WaitingNotCancelled
      <4> QED
        BY <2>1, <2>2, <4>1, <4>3
    <3> QED
      BY <3>1 DEF WaitingNotCancelled
  <2>9. ExpiredRemembered'
    BY <2>1 DEF ExpiredRemembered
  <2> QED
    BY <2>1, <2>7, <2>8, <2>9 DEF CancelInv
<1>8. RunAdd => Good
  <2> SUFFICES ASSUME RunAdd PROVE Good
    OBVIOUS
  <2> DEFINE a == Head(pending).id[1]
  <2>1. /\ pending # <<>> /\ pending' = Tail(pending) /\ Head(pending).op = "add"
        /\ insertEntry(a, timer[a])
        /\ UNCHANGED <<allocated, timer, numCreated, expired, cancelingTimers_, cancelled>>
    BY DEF RunAdd, RunFunctor, addTimerInLoop, handleVars
  <2>2. a \in Addr
    BY <1>0, <2>1, OldestTyped
  <2>3. a \in PendingTimers /\ PendingTimers' = PendingTimers \ {a}
    BY <1>0, <1>a, <2>1, PendingTail
  <2> HIDE DEF a
  <2>4. a \notin Queued
    BY <1>a, <2>3 DEF Owned
  <2>5. Queued' = Queued \cup {a}
    BY <1>0, <2>1, <2>2, <2>4, InsertKeeps
  <2>6. NumbersUnique' /\ WaitingNotCancelled' /\ ExpiredRemembered'
    BY <2>1, <2>3, <2>5
    DEF CancelInv, NumbersUnique, WaitingNotCancelled, ExpiredRemembered, IdOf
  <2> QED
    BY <2>1, <2>6 DEF CancelInv
<1>9. RunCancel => Good
  <2> SUFFICES ASSUME RunCancel PROVE Good
    OBVIOUS
  <2> DEFINE id == Head(pending).id
  <2>1. /\ pending # <<>> /\ pending' = Tail(pending) /\ Head(pending).op = "cancel"
        /\ cancelInLoop(id) /\ UNCHANGED <<timer, numCreated, expired>>
    BY DEF RunCancel, RunFunctor, handleVars
  <2>2. PendingTimers' = PendingTimers
    BY <1>0, <1>a, <2>1, PendingTail
  <2> HIDE DEF id
  <2> QED
    BY <1>0, <2>1, <2>2, CancelStepKeeps
<1>10. Destroy => Good
  <2> SUFFICES ASSUME Destroy PROVE Good
    OBVIOUS
  <2>1. /\ allocated' \subseteq allocated /\ timers_' = {}
        /\ UNCHANGED <<timer, numCreated, pending, expired, cancelingTimers_, cancelled>>
    BY DEF Destroy, userVars
  <2>2. Queued' = {} /\ PendingTimers' = PendingTimers
    BY <2>1 DEF Queued, PendingTimers, PendingAdds
  <2>3. NumbersUnique' /\ WaitingNotCancelled' /\ ExpiredRemembered'
    BY <2>1, <2>2
    DEF CancelInv, NumbersUnique, WaitingNotCancelled, ExpiredRemembered, IdOf
  <2> QED
    BY <2>1, <2>3 DEF CancelInv
<1>11. ASSUME NEW a \in Addr, NEW when \in Times, NEW interval \in Times,
              NEW repeat \in BOOLEAN, AddTimer(a, when, interval, repeat)
       PROVE  Good
  <2>1. /\ insertEntry(a, timer'[a])
        /\ UNCHANGED <<pending, expired, cancelingTimers_, cancelled>>
        /\ newTimer(a, when, interval, repeat) /\ a \notin allocated
    BY <1>11 DEF AddTimer, newTimer, addTimerInLoop, handleVars
  <2>2. /\ NumbersUnique' /\ cancelled' \subseteq 1..numCreated'
        /\ timer'[a].sequence \notin cancelled'
        /\ \A b \in allocated : timer'[b] = timer[b]
    BY <1>0, <2>1, NewNumber
  <2>3. a \notin Queued /\ Queued \subseteq allocated
    BY <1>a, <2>1 DEF Owned
  <2>4. Queued' = Queued \cup {a}
    BY <1>0, <2>1, <2>2, <2>3, InsertKeeps
  <2>5. PendingTimers' = PendingTimers
    BY <2>1 DEF PendingTimers, PendingAdds
  <2>6. WaitingNotCancelled' /\ ExpiredRemembered'
    BY <1>a, <2>1, <2>2, <2>4, <2>5
    DEF CancelInv, WaitingNotCancelled, ExpiredRemembered, IdOf, Owned
  <2> QED
    BY <2>2, <2>6 DEF CancelInv
<1>12. ASSUME NEW c \in Callers, NEW a \in Addr, NEW when \in Times,
              NEW interval \in Times, NEW repeat \in BOOLEAN,
              CallerAddTimer(c, a, when, interval, repeat)
       PROVE  Good
  <2> DEFINE r == [op |-> "add", id |-> <<a, numCreated + 1>>]
  <2>1. /\ newTimer(a, when, interval, repeat) /\ a \notin allocated
        /\ pending' = Append(pending, r)
        /\ UNCHANGED <<expired, timers_, cancelingTimers_, cancelled>>
    BY <1>12 DEF CallerAddTimer, newTimer, handleVars, setVars
  <2>2. r \in Requests /\ r.op = "add" /\ r.id[1] = a
    BY <1>0, <2>1, TimerAssumption DEF newTimer, HeapTyped, Requests, TimerIds
  <2> HIDE DEF r
  <2>3. PendingTimers' = PendingTimers \cup {a}
    BY <1>0, <2>1, <2>2, PendingAppend
  <2>4. Queued' = Queued
    BY <2>1 DEF Queued
  <2>5. /\ NumbersUnique' /\ cancelled' \subseteq 1..numCreated'
        /\ timer'[a].sequence \notin cancelled'
        /\ \A b \in allocated : timer'[b] = timer[b]
    BY <1>0, <2>1, NewNumber
  <2>6. WaitingNotCancelled' /\ ExpiredRemembered'
    BY <1>a, <2>1, <2>3, <2>4, <2>5
    DEF CancelInv, WaitingNotCancelled, ExpiredRemembered, IdOf, Owned
  <2> QED
    BY <2>5, <2>6 DEF CancelInv
<1>13. ASSUME NEW id \in ids, Cancel(id) PROVE Good
  <2>1. cancelInLoop(id) /\ UNCHANGED <<timer, numCreated, expired, pending>>
    BY <1>13 DEF Cancel, handleVars, userVars
  <2>2. PendingTimers' = PendingTimers
    BY <2>1 DEF PendingTimers, PendingAdds
  <2> QED
    BY <1>0, <2>1, <2>2, CancelStepKeeps
<1>14. ASSUME NEW c \in Callers, NEW id \in ids, CallerCancel(c, id)
       PROVE  Good
  <2> DEFINE r == [op |-> "cancel", id |-> id]
  <2>1. /\ pending' = Append(pending, r)
        /\ UNCHANGED <<timer, allocated, numCreated, timers_, expired,
                       cancelingTimers_, cancelled>>
    BY <1>14 DEF CallerCancel, handleVars, heapVars, setVars
  <2>2. r \in Requests /\ r.op = "cancel"
    BY <1>0 DEF Requests, UserTyped
  <2> HIDE DEF r
  <2>3. PendingTimers' = PendingTimers
    BY <1>0, <2>1, <2>2, PendingAppend
  <2>4. Queued' = Queued
    BY <2>1 DEF Queued
  <2>5. NumbersUnique' /\ WaitingNotCancelled' /\ ExpiredRemembered'
    BY <2>1, <2>3, <2>4
    DEF CancelInv, NumbersUnique, WaitingNotCancelled, ExpiredRemembered, IdOf
  <2> QED
    BY <2>1, <2>5 DEF CancelInv
<1>15. ASSUME NEW c \in Callers, CallerReturns(c) PROVE Good
  BY <1>1, <1>15 DEF CallerReturns, handleVars
<1> HIDE DEF Good
<1> QED
  BY <1>2, <1>3, <1>p, <1>4, <1>5, <1>6, <1>7, <1>8, <1>9, <1>10, <1>11, <1>12,
     <1>13, <1>14, <1>15, StepCases DEF Good

(* In every reachable state, numbers tell Timers apart, no cancelled Timer *)
(* waits, and the cancelled ones among the expired are remembered.         *)
THEOREM CancelInvariant == Spec => []CancelInv
<1>1. Init => CancelInv
  BY CancelInit
<1>2. TimersInv /\ TimersInv' /\ CancelInv /\ [Next]_vars => CancelInv'
  <2>1. UNCHANGED vars /\ CancelInv => CancelInv'
    BY CancelRests DEF vars, heapVars, setVars, handleVars, userVars
  <2> QED
    BY <2>1, CancellationStep
<1> QED
  BY <1>1, <1>2, TimersInvariant, PTL DEF Spec

(* What leaves the queue had a reason to. *)
LEMMA LeavingStep ==
  ASSUME TimersInv, TimersInv', CancelInv, [Next]_vars
  PROVE  LeavesForAReason
<1> USE TypeParts
<1> DEFINE Good == LeavesForAReason
<1>0. TypeOK /\ SetsAgree /\ HandlerAtRest
  BY DEF TimersInv, TimersConsistent
<1>1. ASSUME activeTimers_ \subseteq activeTimers_', expired \subseteq expired' PROVE Good
  BY <1>1 DEF LeavesForAReason
<1>2. ASSUME NEW id, cancelInLoop(id), UNCHANGED expired PROVE Good
  <2>1. id \in activeTimers_ => /\ activeTimers_' = activeTimers_ \ {id}
                                /\ id[2] \in cancelled'
    BY <1>2 DEF cancelInLoop
  <2>2. id \notin activeTimers_ => activeTimers_' = activeTimers_
    BY <1>2 DEF cancelInLoop, setVars
  <2> QED
    BY <1>2, <2>1, <2>2 DEF LeavesForAReason
<1>3. HandleRead => Good
  <2> SUFFICES ASSUME HandleRead PROVE Good
    OBVIOUS
  <2>1. /\ pc' = "running" /\ expired = {}
        /\ activeTimers_' = activeTimers_ \ {IdOf(a) : a \in expired'}
    BY <1>0 DEF HandleRead, HandlerAtRest
  <2> QED
    BY <2>1 DEF LeavesForAReason, IdOf
<1>4. Reset => Good
  <2> SUFFICES ASSUME Reset PROVE Good
    OBVIOUS
  <2>1. /\ activeTimers_ \subseteq activeTimers_' /\ cancelled' = cancelled
        /\ timers_' = timers_ \cup {<<timer'[a].expiration, a>> : a \in Restarted}
    BY DEF Reset
  <2>2. ASSUME NEW a \in Restarted PROVE a \in Queued'
    <3>1. <<timer'[a].expiration, a>> \in timers_' /\ <<timer'[a].expiration, a>>[2] = a
      BY <2>1
    <3> QED
      BY <3>1 DEF Queued
  <2>3. ASSUME NEW a \in expired, timer[a].repeat
        PROVE  a \in Queued' \/ timer[a].sequence \in cancelled'
    BY <2>1, <2>2, <2>3 DEF Restarted, CancelInv, ExpiredRemembered
  <2> QED
    BY <2>1, <2>3 DEF LeavesForAReason
<1>5. Destroy => Good
  BY DEF Destroy, LeavesForAReason
<1>6. CASE UNCHANGED vars
  BY <1>1, <1>6 DEF vars, setVars, handleVars
<1>7. CASE Next
  <2>1. Tick => Good
    BY <1>1 DEF Tick, setVars, handleVars
  <2>2. ClockStep => Good
    BY <1>1 DEF ClockStep, setVars, handleVars
  <2>3. PollReports => Good
    BY <1>1 DEF PollReports, setVars
  <2>4. RunTimer => Good
    BY <1>1 DEF RunTimer, setVars
  <2>5. CallbackReturns => Good
    BY <1>1 DEF CallbackReturns, setVars
  <2>6. RunAdd => Good
    BY <1>1 DEF RunAdd, RunFunctor, addTimerInLoop, insertEntry, handleVars
  <2>7. RunCancel => Good
    BY <1>2 DEF RunCancel, RunFunctor, handleVars
  <2>8. ASSUME NEW a \in Addr, NEW when \in Times, NEW interval \in Times,
               NEW repeat \in BOOLEAN, AddTimer(a, when, interval, repeat)
        PROVE  Good
    BY <1>1, <2>8 DEF AddTimer, addTimerInLoop, insertEntry, handleVars
  <2>9. ASSUME NEW c \in Callers, NEW a \in Addr, NEW when \in Times,
               NEW interval \in Times, NEW repeat \in BOOLEAN,
               CallerAddTimer(c, a, when, interval, repeat)
        PROVE  Good
    BY <1>1, <2>9 DEF CallerAddTimer, setVars, handleVars
  <2>10. ASSUME NEW id \in ids, Cancel(id) PROVE Good
    BY <1>2, <2>10 DEF Cancel, handleVars
  <2>11. ASSUME NEW c \in Callers, NEW id \in ids, CallerCancel(c, id) PROVE Good
    BY <1>1, <2>11 DEF CallerCancel, setVars, handleVars
  <2>12. ASSUME NEW c \in Callers, CallerReturns(c) PROVE Good
    BY <1>1, <2>12 DEF CallerReturns, setVars, handleVars
  <2> HIDE DEF Good
  <2> QED
    BY <1>3, <1>4, <1>5, <1>7, <2>1, <2>2, <2>3, <2>4, <2>5, <2>6, <2>7, <2>8,
       <2>9, <2>10, <2>11, <2>12, StepCases DEF Good
<1> QED
  BY <1>6, <1>7

(* A cancellation ends the timer that its TimerId names, whether that      *)
(* waits or is being run, and no other: not the one that was made later at *)
(* the same address, nor one of the same batch.                            *)
THEOREM CancellationIsExact == Spec => CancelExact
<1>1. TimersInv /\ CancelInv => CancelledNotRestarted
  <2> SUFFICES ASSUME TimersInv, CancelInv, NEW id \in activeTimers_
               PROVE  id[2] \notin cancelled
    BY DEF CancelledNotRestarted
  <2>1. id[1] \in Queued /\ id[2] = timer[id[1]].sequence
    BY EntryShows DEF TimersInv, TimersConsistent, IdOf
  <2> QED
    BY <2>1 DEF CancelInv, WaitingNotCancelled
<1>2. TimersInv /\ TimersInv' /\ CancelInv /\ [Next]_vars => LeavesForAReason
  BY LeavingStep
<1>3. (TimersInv /\ CancelInv)' => CancelledNotRestarted'
  BY <1>1, PTL
<1>4. TimersInv /\ TimersInv' /\ CancelInv /\ CancelInv' /\ [Next]_vars
      => [CancelledNotRestarted' /\ LeavesForAReason]_vars
  BY <1>2, <1>3
<1> QED
  BY <1>4, TimersInvariant, CancelInvariant, PTL DEF Spec, CancelExact

-----------------------------------------------------------------------------
(***************************************************************************)
(* The timerfd.                                                            *)
(***************************************************************************)

Handling == pc \in {"running", "callback"}

(* The timerfd is armed, and early enough for a timer that expires at t.   *)
ArmedFor(t) ==
  /\ timerfd_ # Disarmed
  /\ clockSteps = 0 => timerfd_ <= Larger(t - now, 1)

(* While handleRead runs, the timerfd need not be armed - reset will see   *)
(* to that -, except for a timer of the invalid time 0, which reset does   *)
(* not look at; and what reset restarts is later than that.                *)
ArmedWhileHandling ==
  Handling =>
    /\ handledAt > 0
    /\ \A e \in timers_ : e[1] = 0 => timerfd_ \in {0, 1}

(* The inductive invariant of the timerfd. *)
ArmInv ==
  /\ ~Handling => \A e \in timers_ : ArmedFor(e[1])
  /\ ArmedWhileHandling

(* Nothing waits at first. *)
LEMMA ArmInit ==
  ASSUME Init
  PROVE  ArmInv
BY DEF Init, ArmInv, ArmedWhileHandling, Handling

(* A timerfd that was just armed for t serves every timer from t on. *)
LEMMA ArmedByReset ==
  ASSUME ClockTyped, NEW t \in Times, NEW u \in Times, t <= u,
         resetTimerfd(t), UNCHANGED clockVars
  PROVE  ArmedFor(u)' /\ (t = 0 => timerfd_' = 1)
BY TimerAssumption
   DEF ClockTyped, Times, resetTimerfd, howMuchTimeFromNow, Larger, ArmedFor,
       clockVars, Disarmed

(* A timerfd that serves a timer serves every later one. *)
LEMMA ArmedForLater ==
  ASSUME ClockTyped, NEW t \in Times, NEW u \in Times, t <= u, ArmedFor(t)
  PROVE  ArmedFor(u)
BY TimerAssumption DEF ClockTyped, Times, ArmedFor, Larger, Disarmed

(* A timerfd about to expire serves every timer. *)
LEMMA ArmedForAll ==
  ASSUME ClockTyped, NEW t \in Times, timerfd_ \in {0, 1}
  PROVE  ArmedFor(t)
BY TimerAssumption DEF ClockTyped, Times, ArmedFor, Larger, Disarmed

(* One tick takes as much from the timerfd as it brings the timer nearer. *)
LEMMA ArmedTick ==
  ASSUME ClockTyped, NEW t \in Times, ArmedFor(t), Tick
  PROVE  ArmedFor(t)'
<1>1. now \in Nat /\ now > 0 /\ now <= Limit /\ t \in Nat /\ t <= Limit /\ Limit \in Nat
  BY TimerAssumption DEF ClockTyped, Times
<1>2. timerfd_ \in Nat /\ timerfd_' = Larger(timerfd_ - 1, 0)
  BY TimerAssumption DEF ClockTyped, ArmedFor, Tick
<1>3. now' = IF now + 1 < Limit THEN now + 1 ELSE Limit
  BY DEF Tick, Saturated
<1>4. clockSteps' = clockSteps
  BY DEF Tick
<1>5. timerfd_' # Disarmed
  BY <1>2 DEF Larger, Disarmed
<1>6. ASSUME clockSteps = 0 PROVE timerfd_' <= Larger(t - now', 1)
  <2>1. timerfd_ <= Larger(t - now, 1)
    BY <1>6 DEF ArmedFor
  <2> QED
    BY <1>1, <1>2, <1>3, <2>1 DEF Larger
<1> QED
  BY <1>4, <1>5, <1>6 DEF ArmedFor

(* An insertion arms the timerfd for the new timer, and lets it serve the  *)
(* others.                                                                 *)
LEMMA ArmedInsert ==
  ASSUME TypeOK, TypeOK', ArmInv, NEW a \in Addr, NEW t, t.expiration \in Times,
         addTimerInLoop(a, t), UNCHANGED <<clockVars, pc, handledAt>>
  PROVE  ArmInv'
<1> USE TypeParts
<1> DEFINE w == t.expiration
<1>1. /\ timers_' = timers_ \cup {<<w, a>>} /\ w \in Times
      /\ IF earliestChanged(w) THEN resetTimerfd(w) ELSE timerfd_' = timerfd_
  BY DEF addTimerInLoop, insertEntry
<1> HIDE DEF w
<1>2. \A e \in timers_ : e[1] \in Times
  BY DEF HeapTyped
<1>3. \A u \in Times : u \in Nat
  BY DEF Times
<1>4. Handling' <=> Handling
  BY DEF Handling
<1>5. <<w, a>>[1] = w
  OBVIOUS
<1>6. \A e \in timers_' : e \in timers_ \/ e[1] = w
  BY <1>1, <1>5
<1>7. CASE earliestChanged(w)
  <2>1. \A e \in timers_ : w < e[1]
    BY <1>7 DEF earliestChanged
  <2>2. \A e \in timers_' : e[1] \in Times /\ w <= e[1]
    BY <1>1, <1>2, <1>3, <1>6, <2>1
  <2>3. resetTimerfd(w)
    BY <1>1, <1>7
  <2>4. \A e \in timers_' : ArmedFor(e[1])'
    BY <1>1, <2>2, <2>3, ArmedByReset
  <2>5. w = 0 => timerfd_' = 1
    BY <1>1, <1>3, <2>3, ArmedByReset
  <2>6. \A e \in timers_' : e[1] = 0 => w = 0
    BY <1>1, <1>3, <2>2
  <2> QED
    BY <1>4, <2>4, <2>5, <2>6 DEF ArmInv, ArmedWhileHandling
<1>8. CASE ~earliestChanged(w)
  <2>1. PICK f \in timers_ : f[1] <= w
    BY <1>1, <1>2, <1>3, <1>8 DEF earliestChanged
  <2>2. UNCHANGED <<timerfd_, clockVars>>
    BY <1>1, <1>8
  <2>3. ~Handling => ArmedFor(w)
    BY <1>1, <1>2, <2>1, ArmedForLater DEF ArmInv
  <2>4. ~Handling => \A e \in timers_' : ArmedFor(e[1])'
    BY <1>6, <2>2, <2>3 DEF ArmInv, ArmedFor, clockVars
  <2>5. w = 0 => f[1] = 0
    <3>1. w \in Nat /\ f[1] \in Nat
      BY <1>1, <1>2, <1>3
    <3> QED
      BY <2>1, <3>1
  <2>6. Handling => \A e \in timers_' : e[1] = 0 => timerfd_ \in {0, 1}
    BY <1>6, <2>5 DEF ArmInv, ArmedWhileHandling
  <2> QED
    BY <1>4, <2>2, <2>4, <2>6 DEF ArmInv, ArmedWhileHandling
<1> QED
  BY <1>7, <1>8

(* With fewer timers waiting the timerfd still serves all. *)
LEMMA ArmedForFewer ==
  ASSUME ArmInv, timers_' \subseteq timers_,
         UNCHANGED <<clockVars, timerfd_, handledAt>>, Handling' = Handling
  PROVE  ArmInv'
BY DEF ArmInv, ArmedWhileHandling, ArmedFor, clockVars

(* reset arms the timerfd for the first timer, or leaves it armed for one  *)
(* of time 0, added by a callback, which comes before all others.          *)
LEMMA ArmedReset ==
  ASSUME TypeOK, TypeOK', ArmInv, Reset
  PROVE  ArmInv'
<1> USE TypeParts
<1>1. /\ Handling /\ ~Handling' /\ UNCHANGED clockVars
      /\ timers_' = timers_ \cup {<<timer'[a].expiration, a>> : a \in Restarted}
      /\ rearm(timers_')
  BY DEF Reset, Handling
<1>2. \A e \in timers_' : e[1] \in Times
  BY DEF TypeOK
<1>3. Times \subseteq Nat
  BY DEF Times
<1>4. CASE \E e \in timers_' : e[1] > 0 /\ \A f \in timers_' : e[1] <= f[1]
  <2>1. PICK e \in timers_' : (\A f \in timers_' : e[1] <= f[1]) /\ resetTimerfd(e[1])
    BY <1>1, <1>4 DEF rearm
  <2>2. \A f \in timers_' : ArmedFor(f[1])'
    BY <1>1, <1>2, <2>1, ArmedByReset
  <2> QED
    BY <1>1, <2>2 DEF ArmInv, ArmedWhileHandling
<1>5. CASE ~\E e \in timers_' : e[1] > 0 /\ \A f \in timers_' : e[1] <= f[1]
  <2>1. timerfd_' = timerfd_
    BY <1>1, <1>5 DEF rearm
  <2>2. CASE timers_' = {}
    BY <1>1, <2>2 DEF ArmInv, ArmedWhileHandling
  <2>3. CASE timers_' # {}
    <3> DEFINE S == {e[1] : e \in timers_'}
    <3>1. S \in SUBSET Nat /\ S # {}
      BY <1>2, <1>3, <2>3
    <3>2. PICK m \in S : \A k \in S : m <= k
      <4> HIDE DEF S
      <4> QED
        BY <3>1, LeastNatural
    <3>3. PICK e \in timers_' : e[1] = m
      BY <3>2
    <3>4. \A f \in timers_' : e[1] <= f[1]
      BY <3>2, <3>3
    <3>5. e[1] = 0
      <4>1. e[1] \in Nat
        BY <1>2, <1>3
      <4>2. ~(e[1] > 0)
        BY <1>5, <3>4
      <4> QED
        BY <4>1, <4>2
    <3>6. e \in timers_
      <4>1. ASSUME NEW a \in Restarted PROVE timer'[a].expiration > 0
        <5>1. a \in Addr /\ handledAt \in Nat /\ timer[a].interval \in Nat
          BY <1>3 DEF HandleTyped, HeapTyped, Timers, Restarted
        <5>2. handledAt + timer[a].interval \in Nat /\ handledAt + timer[a].interval > 0
          BY <1>1, <5>1 DEF ArmInv, ArmedWhileHandling
        <5>3. timer'[a].expiration = Saturated(handledAt + timer[a].interval)
          BY <5>1 DEF Reset, restart, HeapTyped, Timers
        <5> QED
          BY <5>2, <5>3, SaturatedTyped
      <4>2. \A a \in Restarted : <<timer'[a].expiration, a>>[1] = timer'[a].expiration
        OBVIOUS
      <4> QED
        BY <1>1, <3>5, <4>1, <4>2
    <3>7. timerfd_' \in {0, 1}
      BY <1>1, <2>1, <3>5, <3>6 DEF ArmInv, ArmedWhileHandling
    <3>8. ClockTyped'
      BY <1>1, <3>7, TimerAssumption DEF ClockTyped, clockVars
    <3>9. ASSUME NEW t \in Times PROVE ArmedFor(t)'
      <4>1. now' \in Nat /\ t \in Nat
        BY <1>3, <3>8 DEF ClockTyped
      <4>2. timerfd_' # Disarmed /\ timerfd_' <= 1
        BY <3>7 DEF Disarmed
      <4>3. ASSUME NEW n \in Nat, NEW d \in {0, 1} PROVE d <= Larger(t - n, 1)
        BY <4>1 DEF Larger
      <4>4. timerfd_' <= Larger(t - now', 1)
        BY <3>7, <4>1, <4>3
      <4> QED
        BY <4>2, <4>4 DEF ArmedFor
    <3> QED
      BY <1>1, <1>2, <3>9 DEF ArmInv, ArmedWhileHandling
  <2> QED
    BY <2>2, <2>3
<1> QED
  BY <1>4, <1>5

(* Every step keeps the timerfd armed. *)
LEMMA ArmStep ==
  ASSUME TypeOK, TypeOK', ArmInv, Next
  PROVE  ArmInv'
<1> USE TypeParts
<1> DEFINE Good == ArmInv'
<1>0. (\A e \in timers_ : e[1] \in Times) /\ Times \subseteq Nat
  BY DEF HeapTyped, Times
<1>1. ASSUME UNCHANGED <<clockVars, timers_, timerfd_, handledAt>>, Handling' = Handling
      PROVE  Good
  BY <1>1, ArmedForFewer
<1>2. Tick => Good
  <2> SUFFICES ASSUME Tick PROVE Good
    OBVIOUS
  <2>1. UNCHANGED <<timers_, pc, handledAt>>
    BY DEF Tick, setVars, handleVars
  <2>2. \A e \in timers_ : ArmedFor(e[1]) => ArmedFor(e[1])'
    BY <1>0, ArmedTick
  <2>3. timerfd_ \in {0, 1} => timerfd_' \in {0, 1}
    BY DEF Tick, Larger, Disarmed
  <2> QED
    BY <2>1, <2>2, <2>3 DEF ArmInv, ArmedWhileHandling, Handling
<1>3. ClockStep => Good
  <2> SUFFICES ASSUME ClockStep PROVE Good
    OBVIOUS
  <2>1. /\ UNCHANGED <<timers_, timerfd_, pc, handledAt>>
        /\ clockSteps' = clockSteps + 1 /\ clockSteps \in Nat
    BY TimerAssumption DEF ClockStep, setVars, handleVars, ClockTyped
  <2>2. clockSteps' # 0
    BY <2>1
  <2> QED
    BY <2>1, <2>2 DEF ArmInv, ArmedWhileHandling, Handling, ArmedFor
<1>p. PollReports => Good
  BY <1>1 DEF PollReports, Handling, setVars
<1>4. HandleRead => Good
  <2> SUFFICES ASSUME HandleRead PROVE Good
    OBVIOUS
  <2>1. /\ Handling' /\ handledAt' = now /\ now > 0 /\ now \in Nat
        /\ timers_' = timers_ \ Due
    BY DEF HandleRead, Handling, ClockTyped, Times
  <2>2. \A e \in timers_' : e[1] # 0
    BY <1>0, <2>1 DEF Due
  <2> QED
    BY <2>1, <2>2 DEF ArmInv, ArmedWhileHandling
<1>5. RunTimer => Good
  BY <1>1 DEF RunTimer, Handling, setVars
<1>6. CallbackReturns => Good
  BY <1>1 DEF CallbackReturns, Handling, setVars
<1>7. Reset => Good
  BY ArmedReset
<1>8. RunAdd => Good
  <2> SUFFICES ASSUME RunAdd PROVE Good
    OBVIOUS
  <2>1. Head(pending).id[1] \in Addr
    BY OldestTyped DEF RunAdd, RunFunctor
  <2>2. timer[Head(pending).id[1]].expiration \in Times
    BY <2>1 DEF HeapTyped, Timers
  <2>3. UNCHANGED <<clockVars, pc, handledAt>>
    BY DEF RunAdd, RunFunctor, handleVars
  <2>4. addTimerInLoop(Head(pending).id[1], timer[Head(pending).id[1]])
    BY DEF RunAdd
  <2> QED
    BY <2>1, <2>2, <2>3, <2>4, ArmedInsert
<1>9. RunCancel => Good
  <2> SUFFICES ASSUME RunCancel PROVE Good
    OBVIOUS
  <2>1. UNCHANGED <<clockVars, timerfd_, handledAt, pc>> /\ timers_' \subseteq timers_
    BY DEF RunCancel, RunFunctor, handleVars, cancelInLoop, setVars
  <2> QED
    BY <2>1, ArmedForFewer DEF Handling
<1>10. Destroy => Good
  BY DEF Destroy, ArmInv, ArmedWhileHandling, Handling
<1>11. ASSUME NEW a \in Addr, NEW when \in Times, NEW interval \in Times,
              NEW repeat \in BOOLEAN, AddTimer(a, when, interval, repeat)
       PROVE  Good
  <2>1. newTimer(a, when, interval, repeat)
    BY <1>11 DEF AddTimer
  <2>2. timer'[a] = [sequence |-> numCreated + 1, expiration |-> when,
                     interval |-> interval, repeat |-> repeat]
    BY <2>1, NewTimerTyped
  <2>3. timer'[a].expiration \in Times
    BY <2>2
  <2>4. addTimerInLoop(a, timer'[a]) /\ UNCHANGED <<clockVars, pc, handledAt>>
    BY <1>11 DEF AddTimer, handleVars
  <2> QED
    BY <2>3, <2>4, ArmedInsert
<1>12. ASSUME NEW c \in Callers, NEW a \in Addr, NEW when \in Times,
              NEW interval \in Times, NEW repeat \in BOOLEAN,
              CallerAddTimer(c, a, when, interval, repeat)
       PROVE  Good
  BY <1>1, <1>12 DEF CallerAddTimer, Handling, setVars, handleVars
<1>13. ASSUME NEW id \in ids, Cancel(id) PROVE Good
  <2>1. UNCHANGED <<clockVars, timerfd_, handledAt, pc>> /\ timers_' \subseteq timers_
    BY <1>13 DEF Cancel, handleVars, cancelInLoop, setVars
  <2> QED
    BY <2>1, ArmedForFewer DEF Handling
<1>14. ASSUME NEW c \in Callers, NEW id \in ids, CallerCancel(c, id)
       PROVE  Good
  BY <1>1, <1>14 DEF CallerCancel, Handling, setVars, handleVars
<1>15. ASSUME NEW c \in Callers, CallerReturns(c) PROVE Good
  BY <1>1, <1>15 DEF CallerReturns, Handling, setVars, handleVars
<1> HIDE DEF Good
<1> QED
  BY <1>2, <1>3, <1>p, <1>4, <1>5, <1>6, <1>7, <1>8, <1>9, <1>10, <1>11, <1>12,
     <1>13, <1>14, <1>15, StepCases DEF Good

(* In every reachable state the timerfd serves what waits, or reset is     *)
(* still to come and will arm it.                                          *)
THEOREM ArmInvariant == Spec => []ArmInv
<1>1. Init => ArmInv
  BY ArmInit
<1>2. TimersInv /\ TimersInv' /\ ArmInv /\ [Next]_vars => ArmInv'
  <2>1. UNCHANGED vars /\ ArmInv => ArmInv'
    BY ArmedForFewer DEF vars, setVars, handleVars, Handling
  <2> QED
    BY <2>1, ArmStep DEF TimersInv, TimersConsistent
<1> QED
  BY <1>1, <1>2, TimersInvariant, PTL DEF Spec

(* While a timer waits, the timerfd is armed, and for no later than it     *)
(* must be as long as the wall clock is not set.                           *)
THEOREM TimerfdIsArmed == Spec => []TimerfdArmed
<1>1. ArmInv => TimerfdArmed
  BY DEF ArmInv, TimerfdArmed, ArmedFor, Handling
<1> QED
  BY <1>1, ArmInvariant, PTL
=============================================================================
