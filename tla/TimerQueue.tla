----------------------------- MODULE TimerQueue -----------------------------
(***************************************************************************)
(* ouge::net::TimerQueue (net/TimerQueue.cc) with Timer and TimerId: the   *)
(* timers of one event loop, driven by one timerfd.                        *)
(*                                                                         *)
(* Timers are heap objects known by raw pointers.  An address is used      *)
(* again after delete, and a TimerId is an address and the sequence number *)
(* that tells its successive timers apart.  Other threads hand their       *)
(* requests to the loop thread as functors, which run one at a time in the *)
(* order of their submission (EventLoop's theorem LoopIsFifoExecutor).     *)
(*                                                                         *)
(* One unit of time is the 100 microseconds that is the least delay the    *)
(* timerfd is armed with.  now is the wall clock, which may be set; the    *)
(* timerfd counts down on the monotonic clock.  The horizon Limit stands   *)
(* for every time from Limit on: sums saturate there, and time goes on.    *)
(* Time 0 is Timestamp::invalid(), which the clock never shows.            *)
(***************************************************************************)
EXTENDS Sequences, Integers

CONSTANTS
  Addr, NoAddr,     \* addresses of Timer objects, and none
  Callers,          \* threads other than the loop thread
  Limit,            \* bound: the time horizon
  MaxTimers,        \* bound: the number of timers created
  MaxClockSteps     \* bound: how often the wall clock is set

ASSUME TimerAssumption ==
  /\ NoAddr \notin Addr
  /\ Limit \in Nat \ {0}
  /\ MaxTimers \in Nat
  /\ MaxClockSteps \in Nat

VARIABLES
  now,                    \* Timestamp::now()
  clockSteps,
  allocated,              \* addresses that hold a live Timer
  timer,                  \* contents of each address
  numCreated,             \* Timer::s_numCreated_
  timers_,                \* set of <<expiration, address>>
  activeTimers_,          \* set of <<address, sequence>>
  cancelingTimers_, callingExpiredTimers_,
  timerfd_,               \* units until it is readable, or Disarmed
  pc,                     \* place of the loop thread
  expired, toRun,         \* handleRead: the expired timers; those left to run
  handledAt,              \* handleRead: its local now
  pending,                \* functors queued by other threads
  adding,                 \* addTimer in another thread: its local timer
  ids,                    \* TimerIds that users hold
  cancelled               \* history: sequence numbers of cancelled timers

clockVars == <<now, clockSteps>>
heapVars == <<allocated, timer, numCreated>>
setVars == <<timers_, activeTimers_>>
handleVars == <<pc, expired, toRun, handledAt, callingExpiredTimers_>>
userVars == <<pending, adding, ids>>
vars == <<clockVars, heapVars, setVars, cancelingTimers_, timerfd_,
          handleVars, userVars, cancelled>>

Times == 0..Limit
Disarmed == -1
Larger(a, b) == IF a < b THEN b ELSE a
Saturated(t) == IF t < Limit THEN t ELSE Limit

TimerIds == Addr \X (0..MaxTimers)
Timers == [sequence : 0..MaxTimers, expiration : Times, interval : Times,
           repeat : BOOLEAN]
Requests == [op : {"add", "cancel"}, id : TimerIds]

Init ==
  /\ now = 1 /\ clockSteps = 0
  /\ allocated = {}
  /\ timer = [a \in Addr |->
       [sequence |-> 0, expiration |-> 0, interval |-> 0, repeat |-> FALSE]]
  /\ numCreated = 0
  /\ timers_ = {} /\ activeTimers_ = {} /\ cancelingTimers_ = {}
  /\ callingExpiredTimers_ = FALSE
  /\ timerfd_ = Disarmed
  /\ pc = "loop"
  /\ expired = {} /\ toRun = {} /\ handledAt = 0
  /\ pending = <<>>
  /\ adding = [c \in Callers |-> NoAddr]
  /\ ids = {}
  /\ cancelled = {}

-----------------------------------------------------------------------------
(***************************************************************************)
(* The timerfd and the two clocks.                                         *)
(***************************************************************************)

howMuchTimeFromNow(when) == Larger(when - now, 1)

resetTimerfd(when) == timerfd_' = howMuchTimeFromNow(when)

Tick ==
  /\ now' = Saturated(now + 1)
  /\ timerfd_' = IF timerfd_ = Disarmed THEN Disarmed ELSE Larger(timerfd_ - 1, 0)
  /\ UNCHANGED <<clockSteps, heapVars, setVars, cancelingTimers_, handleVars,
                 userVars, cancelled>>

(* The administrator or a time daemon sets the wall clock. *)
ClockStep ==
  /\ clockSteps < MaxClockSteps
  /\ clockSteps' = clockSteps + 1
  /\ \E t \in Times \ {0} : now' = t
  /\ UNCHANGED <<heapVars, setVars, cancelingTimers_, timerfd_, handleVars,
                 userVars, cancelled>>

-----------------------------------------------------------------------------
(***************************************************************************)
(* TimerQueue's private methods, in the loop thread.                       *)
(***************************************************************************)

UserCode == {"loop", "reported", "callback"}

firstOfAll(when) == timers_ = {}

earliestChanged(when) == \A e \in timers_ : when < e[1]

insertEntry(a, t) ==
  /\ timers_' = timers_ \cup {<<t.expiration, a>>}
  /\ activeTimers_' = activeTimers_ \cup {<<a, t.sequence>>}

addTimerInLoop(a, t) ==
  /\ insertEntry(a, t)
  /\ IF earliestChanged(t.expiration)
     THEN resetTimerfd(t.expiration)
     ELSE UNCHANGED timerfd_

IdOf(a) == <<a, timer[a].sequence>>
ExpiredIds == {IdOf(a) : a \in expired}

cancelKeepsEntry(id) ==
  \/ /\ id \in activeTimers_
     /\ UNCHANGED <<timers_, cancelingTimers_>>
     /\ activeTimers_' = activeTimers_ \ {id}
     /\ allocated' = allocated \ {id[1]}
     /\ cancelled' = cancelled \cup {id[2]}
  \/ /\ id \notin activeTimers_
     /\ UNCHANGED <<setVars, allocated, cancelingTimers_, cancelled>>

AtSameAddress(id) == {x \in activeTimers_ : x[1] = id[1]}

cancelByAddress(id) ==
  \/ /\ AtSameAddress(id) # {}
     /\ timers_' = timers_ \ {<<timer[id[1]].expiration, id[1]>>}
     /\ activeTimers_' = activeTimers_ \ AtSameAddress(id)
     /\ allocated' = allocated \ {id[1]}
     /\ cancelled' = cancelled \cup {id[2]}
     /\ UNCHANGED cancelingTimers_
  \/ /\ AtSameAddress(id) = {}
     /\ cancelingTimers_' = IF callingExpiredTimers_
                            THEN cancelingTimers_ \cup {id}
                            ELSE cancelingTimers_
     /\ cancelled' = IF id \in ExpiredIds THEN cancelled \cup {id[2]} ELSE cancelled
     /\ UNCHANGED <<setVars, allocated>>

cancelInLoop(id) ==
  \/ /\ id \in activeTimers_
     /\ timers_' = timers_ \ {<<timer[id[1]].expiration, id[1]>>}
     /\ activeTimers_' = activeTimers_ \ {id}
     /\ allocated' = allocated \ {id[1]}
     /\ cancelled' = cancelled \cup {id[2]}
     /\ UNCHANGED cancelingTimers_
  \/ /\ id \notin activeTimers_
     /\ cancelingTimers_' = IF callingExpiredTimers_
                            THEN cancelingTimers_ \cup {id}
                            ELSE cancelingTimers_
     /\ cancelled' = IF id \in ExpiredIds THEN cancelled \cup {id[2]} ELSE cancelled
     /\ UNCHANGED <<setVars, allocated>>

(* new Timer at a free address. *)
newTimer(a, when, interval, repeat) ==
  /\ numCreated < MaxTimers
  /\ a \notin allocated
  /\ numCreated' = numCreated + 1
  /\ allocated' = allocated \cup {a}
  /\ timer' = [timer EXCEPT ![a] =
       [sequence |-> numCreated + 1, expiration |-> when,
        interval |-> interval, repeat |-> repeat]]

-----------------------------------------------------------------------------
(***************************************************************************)
(* addTimer and cancel called in the loop thread, by a timer's callback or *)
(* by other user code: runInLoop calls them on the spot.                   *)
(***************************************************************************)

AddTimer(a, when, interval, repeat) ==
  /\ pc \in UserCode
  /\ newTimer(a, when, interval, repeat)
  /\ addTimerInLoop(a, timer'[a])
  /\ ids' = ids \cup {<<a, numCreated + 1>>}
  /\ UNCHANGED <<clockVars, cancelingTimers_, handleVars, pending, adding,
                 cancelled>>

Cancel(id) ==
  /\ pc \in UserCode
  /\ id \in ids
  /\ cancelInLoop(id)
  /\ UNCHANGED <<clockVars, timer, numCreated, timerfd_, handleVars, userVars>>

-----------------------------------------------------------------------------
(***************************************************************************)
(* addTimer and cancel called in another thread: the functor is queued,    *)
(* and then addTimer reads timer->sequence() for the TimerId it returns.   *)
(***************************************************************************)

CallerAddTimer(c, a, when, interval, repeat) ==
  /\ pc # "destroyed"
  /\ adding[c] = NoAddr
  /\ newTimer(a, when, interval, repeat)
  /\ pending' = Append(pending, [op |-> "add", id |-> <<a, numCreated + 1>>])
  /\ adding' = [adding EXCEPT ![c] = a]
  /\ UNCHANGED <<clockVars, setVars, cancelingTimers_, timerfd_, handleVars,
                 ids, cancelled>>

(* The read of a deleted Timer may give any number. *)
CallerReturns(c) ==
  /\ adding[c] # NoAddr
  /\ \E s \in 0..MaxTimers :
       /\ adding[c] \in allocated => s = timer[adding[c]].sequence
       /\ ids' = ids \cup {<<adding[c], s>>}
  /\ adding' = [adding EXCEPT ![c] = NoAddr]
  /\ UNCHANGED <<clockVars, heapVars, setVars, cancelingTimers_, timerfd_,
                 handleVars, pending, cancelled>>

CallerCancel(c, id) ==
  /\ pc # "destroyed"
  /\ adding[c] = NoAddr
  /\ id \in ids
  /\ Len(pending) <= MaxTimers
  /\ pending' = Append(pending, [op |-> "cancel", id |-> id])
  /\ UNCHANGED <<clockVars, heapVars, setVars, cancelingTimers_, timerfd_,
                 handleVars, adding, ids, cancelled>>

(* The loop thread runs the oldest functor. *)
RunFunctor ==
  /\ pc = "loop"
  /\ pending # <<>>
  /\ pending' = Tail(pending)
  /\ LET id == Head(pending).id IN
       \/ /\ Head(pending).op = "add"
          /\ addTimerInLoop(id[1], timer[id[1]])
          /\ UNCHANGED <<allocated, cancelingTimers_, cancelled>>
       \/ /\ Head(pending).op = "cancel"
          /\ cancelInLoop(id)
          /\ UNCHANGED timerfd_
  /\ UNCHANGED <<clockVars, timer, numCreated, handleVars, adding, ids>>

-----------------------------------------------------------------------------
(***************************************************************************)
(* handleRead, the timerfd channel's read callback.                        *)
(***************************************************************************)

Due == {e \in timers_ : e[1] <= now}

(* The poll returns with the timerfd's channel active; the handlers of the *)
(* channels before it, which are user code too, run first.                 *)
PollReports ==
  /\ pc = "loop"
  /\ timerfd_ = 0
  /\ pc' = "reported"
  /\ UNCHANGED <<clockVars, heapVars, setVars, cancelingTimers_, timerfd_,
                 expired, toRun, handledAt, callingExpiredTimers_, userVars,
                 cancelled>>

(* From the start to the first callback: read the timerfd, getExpired.     *)
(* The read of a timerfd that was armed again since the poll only fails.   *)
HandleRead ==
  /\ pc = "reported"
  /\ timerfd_' = IF timerfd_ = 0 THEN Disarmed ELSE timerfd_
  /\ handledAt' = now
  /\ expired' = {e[2] : e \in Due}
  /\ toRun' = expired'
  /\ timers_' = timers_ \ Due
  /\ activeTimers_' = activeTimers_ \ {IdOf(a) : a \in expired'}
  /\ callingExpiredTimers_' = TRUE
  /\ cancelingTimers_' = {}
  /\ pc' = "running"
  /\ UNCHANGED <<clockVars, heapVars, userVars, cancelled>>

(* The expired timers run in the order of their expirations. *)
RunTimer ==
  /\ pc = "running"
  /\ \E a \in toRun :
       /\ \A b \in toRun : timer[a].expiration <= timer[b].expiration
       /\ toRun' = toRun \ {a}
  /\ pc' = "callback"
  /\ UNCHANGED <<clockVars, heapVars, setVars, cancelingTimers_, timerfd_,
                 expired, handledAt, callingExpiredTimers_, userVars, cancelled>>

CallbackReturns ==
  /\ pc = "callback"
  /\ pc' = "running"
  /\ UNCHANGED <<clockVars, heapVars, setVars, cancelingTimers_, timerfd_,
                 expired, toRun, handledAt, callingExpiredTimers_, userVars,
                 cancelled>>

restart(t) == [t EXCEPT !.expiration = Saturated(handledAt + t.interval)]

RestartedEvenCancelled == {a \in expired : timer[a].repeat}
Restarted == {a \in expired : timer[a].repeat /\ IdOf(a) \notin cancelingTimers_}

rearmOnlyIfRestarted(entries) ==
  IF entries # timers_
  THEN \E e \in entries :
         (\A f \in entries : e[1] <= f[1]) /\ resetTimerfd(e[1])
  ELSE UNCHANGED timerfd_

(* The last lines of reset: arm the timerfd for the first timer, if its    *)
(* expiration is valid().                                                  *)
rearm(entries) ==
  IF \E e \in entries : e[1] > 0 /\ \A f \in entries : e[1] <= f[1]
  THEN \E e \in entries :
         (\A f \in entries : e[1] <= f[1]) /\ resetTimerfd(e[1])
  ELSE UNCHANGED timerfd_

(* What the deletes of reset leave allocated. *)
keptByReset == allocated \ (expired \ Restarted)

Reset ==
  /\ pc = "running"
  /\ toRun = {}
  /\ callingExpiredTimers_' = FALSE
  /\ timer' = [a \in Addr |-> IF a \in Restarted THEN restart(timer[a]) ELSE timer[a]]
  /\ timers_' = timers_ \cup {<<timer'[a].expiration, a>> : a \in Restarted}
  /\ activeTimers_' = activeTimers_ \cup {IdOf(a) : a \in Restarted}
  /\ allocated' = keptByReset
  /\ rearm(timers_')
  /\ expired' = {}
  /\ handledAt' = 0
  /\ pc' = "loop"
  /\ UNCHANGED <<clockVars, numCreated, cancelingTimers_, toRun, userVars,
                 cancelled>>

(* ~TimerQueue, after loop() has returned for good. *)
Destroy ==
  /\ pc = "loop"
  /\ allocated' = allocated \ {e[2] : e \in timers_}
  /\ timers_' = {} /\ activeTimers_' = {}
  /\ timerfd_' = Disarmed
  /\ pc' = "destroyed"
  /\ UNCHANGED <<clockVars, timer, numCreated, cancelingTimers_, expired, toRun,
                 handledAt, callingExpiredTimers_, userVars, cancelled>>

LoopStep ==
  PollReports \/ HandleRead \/ RunTimer \/ CallbackReturns \/ Reset \/ RunFunctor

AddStep ==
  \E a \in Addr, when \in Times, interval \in Times, repeat \in BOOLEAN :
    /\ interval > 0 => repeat
    /\ \/ AddTimer(a, when, interval, repeat)
       \/ \E c \in Callers : CallerAddTimer(c, a, when, interval, repeat)

CancelStep == \E id \in ids : Cancel(id) \/ \E c \in Callers : CallerCancel(c, id)

Next ==
  \/ Tick \/ ClockStep \/ LoopStep \/ AddStep \/ CancelStep \/ Destroy
  \/ \E c \in Callers : CallerReturns(c)

Spec == Init /\ [][Next]_vars

(* Time passes, callbacks return, and the event loop alternates between    *)
(* the active channels, the timerfd's among them, and the functors.        *)
FairSpec ==
  /\ Spec
  /\ WF_vars(Tick)
  /\ WF_vars(PollReports)
  /\ WF_vars(HandleRead)
  /\ WF_vars(RunTimer \/ CallbackReturns \/ Reset)
  /\ WF_vars(RunFunctor)

-----------------------------------------------------------------------------
(* The types of the variables, and where handleRead's locals are in use. *)
TypeOK ==
  /\ now \in Times \ {0} /\ clockSteps \in 0..MaxClockSteps
  /\ allocated \subseteq Addr
  /\ timer \in [Addr -> Timers]
  /\ numCreated \in 0..MaxTimers
  /\ timers_ \subseteq Times \X Addr
  /\ activeTimers_ \subseteq TimerIds
  /\ cancelingTimers_ \subseteq TimerIds
  /\ callingExpiredTimers_ \in BOOLEAN
  /\ callingExpiredTimers_ <=> pc \in {"running", "callback"}
  /\ timerfd_ \in {Disarmed} \cup 0..Limit
  /\ pc \in {"loop", "reported", "running", "callback", "destroyed"}
  /\ expired \subseteq Addr /\ toRun \subseteq expired
  /\ handledAt \in Times
  /\ pending \in Seq(Requests)
  /\ adding \in [Callers -> Addr \cup {NoAddr}]
  /\ ids \subseteq TimerIds
  /\ cancelled \subseteq 0..MaxTimers

Queued == {e[2] : e \in timers_}
PendingAdds == {i \in 1..Len(pending) : pending[i].op = "add"}

(* timers_ and activeTimers_ hold the same timers, each with the           *)
(* expiration and the sequence number that are in its object: the          *)
(* assertions of size, and of n == 1 and result.second, in cancelInLoop,   *)
(* getExpired and insert.                                                  *)
SetsAgree ==
  /\ timers_ = {<<timer[a].expiration, a>> : a \in Queued}
  /\ activeTimers_ = {IdOf(a) : a \in Queued}

(* Every live Timer has exactly one owner - timers_, the vector of expired *)
(* timers, or a functor that will insert it - and an owner's Timer is      *)
(* live: no pointer that the loop thread will follow dangles, no Timer is  *)
(* deleted twice, none is leaked.                                          *)
OneOwner ==
  /\ allocated = Queued \cup expired \cup {pending[i].id[1] : i \in PendingAdds}
  /\ Queued \cap expired = {}
  /\ \A i \in PendingAdds :
       /\ pending[i].id[1] \notin Queued \cup expired
       /\ pending[i].id = IdOf(pending[i].id[1])
       /\ \A j \in PendingAdds : pending[i].id[1] = pending[j].id[1] => i = j

(* The types, the agreement of the two sets, and ownership: what           *)
(* cancelInLoop, getExpired, insert and reset keep together, whatever is   *)
(* cancelled or added from a callback or another thread meanwhile.         *)
TimersConsistent == TypeOK /\ SetsAgree /\ OneOwner

(* While a timer waits, the timerfd is armed, and - as long as the wall    *)
(* clock was not set - it becomes readable no later than the first         *)
(* expiration or the least delay allow.  Cancelling the first timer, and   *)
(* adding from callbacks, while reset is still to come, must not break it. *)
TimerfdArmed ==
  pc \notin {"running", "callback"} =>
    \A e \in timers_ :
      /\ timerfd_ # Disarmed
      /\ clockSteps = 0 => timerfd_ <= Larger(e[1] - now, 1)

(* A timer cancelled while it is waiting or while the callbacks of its     *)
(* batch are running, its own included, never waits again.                 *)
CancelledNotRestarted ==
  pc \notin {"running", "callback"} =>
    \A id \in activeTimers_ : id[2] \notin cancelled

(* A step takes a timer out of the queue only when it expires, when its    *)
(* own TimerId is cancelled, or with the queue; and it ends a repeating    *)
(* timer that has run only if that timer was cancelled.                    *)
LeavesForAReason ==
  /\ \A id \in activeTimers_ \ activeTimers_' :
       \/ pc' = "running" /\ id[1] \in expired'
       \/ id[2] \in cancelled'
       \/ pc' = "destroyed"
  /\ \A a \in expired \ expired' :
       timer[a].repeat => a \in Queued' \/ timer[a].sequence \in cancelled'

(* A cancellation ends the timer that its TimerId names, whether that      *)
(* waits or is being run, and no other: not the one that was made later at *)
(* the same address, nor one of the same batch.                            *)
CancelExact == [][CancelledNotRestarted' /\ LeavesForAReason]_vars

(* A waiting timer does not wait for ever: it is run or cancelled, or the  *)
(* queue is destroyed, even if the wall clock is set while it waits.       *)
TimersExpire ==
  \A a \in Addr : a \in Queued ~> a \notin Queued

=============================================================================
