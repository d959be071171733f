-------------------------- MODULE ConnectorProofs ---------------------------
(***************************************************************************)
(* Theorems about Connector, for any delays and any number of calls and    *)
(* connections: the types with the bounds of the delay, at most one        *)
(* attempt and one socket at a time for a client that calls connect once,  *)
(* what stop promises when the loop thread calls it, and that no assert    *)
(* fails.                                                                  *)
(***************************************************************************)
EXTENDS Connector, TLAPS

(* A functor of this kind is in the queue, and at most once.               *)
Has(q, fn) == \E i \in 1..Len(q) : q[i].fn = fn
Once(q, fn) == \A i, j \in 1..Len(q) : q[i].fn = fn /\ q[j].fn = fn => i = j
Queued(fn) == Has(functors, fn) \/ Has(pending, fn)

(* Nothing is in an empty queue.                                           *)
LEMMA HasEmpty == \A fn : ~Has(<<>>, fn) /\ Once(<<>>, fn)
BY DEF Has, Once

(* What is in a queue after Append.                                        *)
LEMMA HasAppend ==
  ASSUME NEW q \in Seq(Functors), NEW f \in Functors
  PROVE  /\ Append(q, f) \in Seq(Functors)
         /\ \A fn : Has(Append(q, f), fn) <=> Has(q, fn) \/ f.fn = fn
         /\ \A fn : Once(q, fn) /\ (f.fn = fn => ~Has(q, fn)) => Once(Append(q, f), fn)
<1>1. /\ Append(q, f) \in Seq(Functors)
      /\ Len(Append(q, f)) = Len(q) + 1 /\ Len(q) \in Nat
      /\ Append(q, f)[Len(q) + 1] = f
      /\ \A i \in 1..Len(q) : Append(q, f)[i] = q[i]
  OBVIOUS
<1>2. 1..(Len(q) + 1) = (1..Len(q)) \cup {Len(q) + 1}
  BY <1>1
<1>3. \A fn : Has(Append(q, f), fn) <=> Has(q, fn) \/ f.fn = fn
  BY <1>1, <1>2 DEF Has
<1>4. \A fn : Once(q, fn) /\ (f.fn = fn => ~Has(q, fn)) => Once(Append(q, f), fn)
  BY <1>1, <1>2 DEF Once, Has
<1> QED
  BY <1>1, <1>3, <1>4

(* What is in a queue whose head is taken.                                 *)
LEMMA HasTail ==
  ASSUME NEW q \in Seq(Functors), q # <<>>
  PROVE  /\ Tail(q) \in Seq(Functors) /\ Head(q) \in Functors
         /\ \A fn : Has(q, fn) <=> Has(Tail(q), fn) \/ Head(q).fn = fn
         /\ \A fn : Once(q, fn) => /\ Once(Tail(q), fn)
                                   /\ Head(q).fn = fn => ~Has(Tail(q), fn)
<1>1. /\ Tail(q) \in Seq(Functors) /\ Head(q) \in Functors /\ Head(q) = q[1]
      /\ Len(Tail(q)) = Len(q) - 1 /\ Len(q) \in Nat /\ Len(q) >= 1
  OBVIOUS
<1>2. \A i \in 1..Len(Tail(q)) : Tail(q)[i] = q[i + 1] /\ i + 1 \in 1..Len(q)
  BY <1>1
<1>3. \A i \in 1..Len(q) : i = 1 \/ (i - 1 \in 1..Len(Tail(q)) /\ q[i] = Tail(q)[i - 1])
  BY <1>1, <1>2
<1>4. 1 \in 1..Len(q)
  BY <1>1
<1>5. \A fn : Has(q, fn) <=> Has(Tail(q), fn) \/ Head(q).fn = fn
  BY <1>1, <1>2, <1>3, <1>4 DEF Has
<1>6. ASSUME NEW fn, Once(q, fn)
      PROVE  Once(Tail(q), fn) /\ (Head(q).fn = fn => ~Has(Tail(q), fn))
  <2>1. ASSUME NEW i \in 1..Len(Tail(q)), NEW j \in 1..Len(Tail(q)),
               Tail(q)[i].fn = fn, Tail(q)[j].fn = fn
        PROVE  i = j
    <3>1. i + 1 = j + 1
      BY <1>2, <1>6, <2>1 DEF Once
    <3> QED
      BY <1>1, <3>1
  <2>2. ASSUME NEW i \in 1..Len(Tail(q)), Tail(q)[i].fn = fn, Head(q).fn = fn
        PROVE  FALSE
    <3>1. i + 1 = 1
      BY <1>1, <1>2, <1>4, <1>6, <2>2 DEF Once
    <3> QED
      BY <1>1, <3>1
  <2> QED
    BY <2>1, <2>2 DEF Once, Has
<1> QED
  BY <1>1, <1>5, <1>6

-----------------------------------------------------------------------------
(***************************************************************************)
(* What startInLoop may do: fail an assert, start an attempt, set a retry  *)
(* timer, or nothing.                                                      *)
(***************************************************************************)

Attempts(n) ==
  /\ channel_ = "none" /\ channel_' = "added" /\ fds' = fds + 1
  /\ state_' = "kConnecting" /\ timers' = n /\ UNCHANGED failed

Rests(state, n) ==
  /\ UNCHANGED <<channel_, fds, failed>>
  /\ state = "kDisconnected" /\ state_' = "kDisconnected"
  /\ timers' \in {n, n + 1}

(* startInLoop attempts a connection if it may, and otherwise leaves       *)
(* everything for later; or its assert fails.                              *)
LEMMA StartOutcomes ==
  ASSUME TypeOK, NotFailed, NEW state, NEW want, NEW delay, NEW n,
         startInLoop(state, want, delay, n)
  PROVE  \/ ~NotFailed'
         \/ want /\ state = "kDisconnected" /\ Attempts(n)
         \/ Rests(state, n) /\ (want \/ timers' = n)
<1>1. fds \in Nat /\ (fds + 1) - 1 = fds
  BY DEF TypeOK
<1> QED
  BY <1>1 DEF startInLoop, connect, connecting, retry, Attempts, Rests, NotFailed

(* Doubling with the cap keeps the delay of a retry within its bounds.     *)
LEMMA DelayBounded ==
  ASSUME NEW delay \in kInitRetryDelayMs..kMaxRetryDelayMs
  PROVE  doubled(delay) \in kInitRetryDelayMs..kMaxRetryDelayMs
BY ConnectorAssumption DEF doubled

(* startInLoop, connect and retry leave the Connector well typed.          *)
LEMMA StartTyped ==
  ASSUME TypeOK, NotFailed,
         NEW state \in {"kDisconnected", "kConnecting", "kConnected"}, NEW want,
         NEW delay \in kInitRetryDelayMs..kMaxRetryDelayMs, NEW n \in Nat,
         startInLoop(state, want, delay, n)
  PROVE  /\ state_' \in {"kDisconnected", "kConnecting", "kConnected"}
         /\ retryDelayMs_' \in kInitRetryDelayMs..kMaxRetryDelayMs
         /\ channel_' \in {"none", "added", "removed"}
         /\ fds' \in Nat /\ timers' \in Nat
         /\ failed' \in {"none", "connecting", "startInLoop"}
<1>1. CASE state = "kDisconnected" /\ want
  <2>1. connect(want, delay, n)
    BY <1>1 DEF startInLoop
  <2>2. CASE connecting(delay, n, fds + 1)
    BY <2>2 DEF connecting, TypeOK, NotFailed
  <2>3. CASE retry(want, delay, n, fds + 1) /\ UNCHANGED <<channel_, failed>>
    <3>1. n + 1 \in Nat /\ (fds + 1) - 1 \in Nat
      BY DEF TypeOK
    <3> QED
      BY <2>3, <3>1, DelayBounded DEF retry, TypeOK, NotFailed
  <2>4. CASE /\ state_' = "kDisconnected" /\ retryDelayMs_' = delay /\ timers' = n
             /\ fds' = (fds + 1) - 1 /\ UNCHANGED <<channel_, failed>>
    BY <2>4 DEF TypeOK, NotFailed
  <2> QED
    BY <2>1, <2>2, <2>3, <2>4 DEF connect
<1>2. CASE ~(state = "kDisconnected" /\ want)
  BY <1>2 DEF startInLoop, TypeOK, NotFailed
<1> QED
  BY <1>1, <1>2

-----------------------------------------------------------------------------
(***************************************************************************)
(* The inductive invariants.                                               *)
(***************************************************************************)

(* The loop thread is in one phase at a time; a retry timer that expires   *)
(* in this poll is still in the TimerQueue.                                *)
Phases ==
  /\ pc = "events" => functors = <<>>
  /\ pc = "functors" => hup = {} /\ revents_ = "none"
  /\ hup \subseteq live
  /\ ripe <= timers

(* What leads to an attempt, is one or came of one: a call of connect that *)
(* is still to come, a queued startInLoop, a retry timer, the attempt, its *)
(* connection, the decision to restart.                                    *)
Tokens ==
  (MaxConnects - connects) + One(Has(functors, "startInLoop"))
    + One(Has(pending, "startInLoop")) + timers + One(channel_ = "added")
    + One(live # {}) + One(restarting)

OneAttempt ==
  /\ Tokens <= 1
  /\ Once(functors, "startInLoop") /\ Once(pending, "startInLoop")

(* The Channel and the socket are there while an attempt is under way, and *)
(* a connection, or the decision to restart after it, rules one out.       *)
Attempted ==
  /\ state_ = "kConnecting" <=> channel_ = "added"
  /\ fds = One(channel_ = "added")
  /\ live # {} \/ restarting => state_ = "kConnected"
  /\ restarting => live = {}
  /\ \A a, b \in live : a = b

(* resetChannel finds the Channel it was queued for.                       *)
ChannelResets ==
  /\ Queued("resetChannel") => channel_ = "removed"
  /\ ~(Has(functors, "resetChannel") /\ Has(pending, "resetChannel"))
  /\ Once(functors, "resetChannel") /\ Once(pending, "resetChannel")

SocketInv == TypeOK /\ Phases /\ (NotFailed => Attempted /\ ChannelResets)
AttemptInv == SocketInv /\ (NotFailed => OneAttempt)

(* stop clears both flags; until stopInLoop has run an attempt may be left. *)
StopRests ==
  stopped =>
    /\ ~connect_ /\ ~restarting
    /\ client = "destroyed" \/ ~clientConnect_
    /\ state_ = "kConnecting" => Queued("stopInLoop")

(* When an attempt starts, the Channel of the one before is gone, whoever  *)
(* starts it: user code, a retry timer, or restart.                        *)
ResetQueued == channel_ = "removed" => Queued("resetChannel")
ClearForConnect ==
  connects < MaxConnects \/ Queued("startInLoop") =>
    channel_ = "none" /\ state_ = "kDisconnected"
ClearForRetry == timers > 0 => state_ = "kDisconnected"
ClearInEvents == pc = "events" /\ (ripe > 0 \/ hup # {}) => channel_ = "none"
ClearByNextPoll ==
  pc = "functors" /\ Has(pending, "resetChannel") => ripe = 0 /\ live = {}
ClearForRestart == restarting => channel_ = "none" /\ client = "alive"
EventOfAttempt == revents_ # "none" => state_ = "kConnecting"

ChannelGone ==
  /\ ResetQueued /\ ClearForConnect /\ ClearForRetry /\ ClearInEvents
  /\ ClearByNextPoll /\ ClearForRestart /\ EventOfAttempt

(* resetChannel was queued before anyone could close the connection: l     *)
(* are the connections that are open, n is the last one.                   *)
ResetFirstIn(q, l, n) ==
  \A j \in 1..Len(q) :
    q[j].fn = "forceCloseInLoop" =>
      /\ q[j].conn <= n
      /\ \A i \in 1..Len(q) : q[i].fn = "resetChannel" /\ q[j].conn \in l => i < j
ResetFirst == ResetFirstIn(functors, live, numConns) /\ ResetFirstIn(pending, live, numConns)

(* The connection that may close is the client's.                          *)
ConnectionOwned ==
  /\ live \subseteq 1..numConns /\ connection_ <= numConns
  /\ client = "alive" => \A c \in live : c = connection_
  /\ client = "alive" /\ connection_ # 0 => connection_ \in live

NothingBound ==
  ~Queued("startInLoop") /\ ~Queued("stopInLoop") /\ ~Queued("resetChannel")

(* Nothing is left to be done on the Connector once nobody but a timer     *)
(* holds it.                                                               *)
Released ==
  /\ client = "alive" => keeper = "none"
  /\ keeper # "none" => stopped
  /\ client = "destroyed" =>
       /\ ~connect_ \/ (timers = 0 /\ keeper = "none")
       /\ keeper # "set" => channel_ = "none" /\ NothingBound

AssertInv ==
  /\ NotFailed /\ AttemptInv /\ StopRests
  /\ ChannelGone /\ ResetFirst /\ ConnectionOwned /\ Released

(* What a step may do to the queues.                                       *)
QueuesKept == UNCHANGED <<functors, pending>>
Pushes(fn) ==
  /\ functors' = functors
  /\ \E conn \in 0..MaxConns : pending' = Append(pending, F(fn, conn))

(* What is queued after a functor is pushed.                               *)
LEMMA PushOutcome ==
  ASSUME TypeOK,
         NEW fn \in {"startInLoop", "stopInLoop", "resetChannel", "forceCloseInLoop"},
         Pushes(fn)
  PROVE  /\ pending' \in Seq(Functors)
         /\ \A g : Has(pending', g) <=> Has(pending, g) \/ fn = g
         /\ \A g : Once(pending, g) /\ (fn = g => ~Has(pending, g)) => Once(pending', g)
<1>1. PICK conn \in 0..MaxConns : pending' = Append(pending, F(fn, conn))
  BY DEF Pushes
<1>2. F(fn, conn) \in Functors /\ F(fn, conn).fn = fn
  BY DEF F, Functors
<1>3. pending \in Seq(Functors)
  BY DEF TypeOK
<1> QED
  BY <1>1, <1>2, <1>3, HasAppend

(* What is queued after a functor is taken to run.                         *)
LEMMA PopOutcome ==
  ASSUME TypeOK, NEW fn, RunFunctor(fn)
  PROVE  /\ functors # <<>> /\ Head(functors).fn = fn /\ functors' = Tail(functors)
         /\ functors' \in Seq(Functors) /\ Head(functors) \in Functors
         /\ \A g : Has(functors, g) <=> Has(functors', g) \/ fn = g
         /\ \A g : Once(functors, g) => Once(functors', g)
         /\ Once(functors, fn) => ~Has(functors', fn)
<1>1. /\ functors # <<>> /\ Head(functors).fn = fn /\ functors' = Tail(functors)
      /\ functors \in Seq(Functors)
  BY DEF RunFunctor, TypeOK
<1> QED
  BY <1>1, HasTail

(* The phases of the loop thread are kept.                                 *)
LEMMA PhasesStep ==
  ASSUME TypeOK, Phases, [Next]_vars
  PROVE  Phases'
<1> USE DEF TypeOK, Phases, vars, loopVars, pollVars, connVars, userVars, attemptVars
<1>1. CASE Poll
  BY <1>1 DEF Poll
<1>2. CASE HandleFailure
  BY <1>2 DEF HandleFailure, InEvents, retry
<1>3. CASE HandleSuccess
  BY <1>3 DEF HandleSuccess, InEvents, newConnection
<1>4. CASE ConnectionCloses
  BY <1>4 DEF ConnectionCloses, InEvents, removeConnection
<1>5. CASE Restart
  BY <1>5, StartOutcomes DEF Restart, startInLoop, connect, connecting, retry
<1>6. CASE SwapPendingFunctors
  BY <1>6 DEF SwapPendingFunctors
<1>7. CASE RunStartInLoop
  BY <1>7 DEF RunStartInLoop, RunFunctor, startInLoop, connect, connecting, retry
<1>8. CASE RunStopInLoop
  BY <1>8 DEF RunStopInLoop, RunFunctor, retry
<1>9. CASE RunResetChannel
  BY <1>9 DEF RunResetChannel, RunFunctor
<1>10. CASE RunForceClose
  BY <1>10 DEF RunForceClose, RunFunctor, removeConnection
<1>11. CASE KeeperExpires
  BY <1>11 DEF KeeperExpires
<1>12. CASE RetryTimer
  BY <1>12 DEF RetryTimer, startInLoop, connect, connecting, retry
<1>13. CASE Connect
  BY <1>13 DEF Connect, startInLoop, connect, connecting, retry
<1>14. CASE CallerConnect \/ Stop \/ Disconnect \/ ForceClose
  BY <1>14 DEF CallerConnect, Stop, Disconnect, ForceClose
<1>15. CASE Destruct
  BY <1>15 DEF Destruct, DestructConnected, DestructUnconnected
<1>16. CASE UNCHANGED vars
  BY <1>16
<1> QED
  BY <1>1, <1>2, <1>3, <1>4, <1>5, <1>6, <1>7, <1>8, <1>9, <1>10, <1>11, <1>12, <1>13,
     <1>14, <1>15, <1>16
  DEF Next, LoopStep, UserStep

(* The types in three parts: the queues, the attempt, and the rest.        *)
QueuesTyped == functors \in Seq(Functors) /\ pending \in Seq(Functors)
AttemptTyped ==
  /\ state_ \in {"kDisconnected", "kConnecting", "kConnected"}
  /\ retryDelayMs_ \in kInitRetryDelayMs..kMaxRetryDelayMs
  /\ channel_ \in {"none", "added", "removed"}
  /\ fds \in Nat /\ timers \in Nat
  /\ failed \in {"none", "connecting", "startInLoop", "handleWrite",
                 "removeConnection"}
ConnsTyped ==
  /\ hup \subseteq 1..MaxConns /\ connection_ \in 0..MaxConns
  /\ live \subseteq 1..MaxConns /\ numConns \in 0..MaxConns
  /\ restarting \in BOOLEAN
LoopTyped ==
  /\ pc \in {"events", "functors"}
  /\ revents_ \in {"none", "out", "err"} /\ ripe \in Nat
  /\ keeper \in {"none", "set", "ripe"}
UserTyped ==
  /\ connect_ \in BOOLEAN
  /\ clientConnect_ \in BOOLEAN /\ stopped \in BOOLEAN
  /\ client \in {"alive", "destroyed"}
  /\ connects \in 0..MaxConnects /\ calls \in 0..MaxCalls

(* The parts together are the type invariant.                              *)
LEMMA TypeParts ==
  /\ TypeOK <=> QueuesTyped /\ AttemptTyped /\ ConnsTyped /\ LoopTyped /\ UserTyped
  /\ TypeOK' <=> QueuesTyped' /\ AttemptTyped' /\ ConnsTyped' /\ LoopTyped' /\ UserTyped'
BY DEF TypeOK, QueuesTyped, AttemptTyped, ConnsTyped, LoopTyped, UserTyped

(* What each step does to the queues: one functor is queued, the batch is  *)
(* swapped in, a functor is taken, or nothing.                             *)
Swapped == functors' = pending /\ pending' = <<>>
(* Every step does one of these things to the two queues.                  *)
LEMMA QueuesStep ==
  ASSUME TypeOK, [Next]_vars
  PROVE  \/ QueuesKept
         \/ Swapped
         \/ \E fn \in {"startInLoop", "stopInLoop", "resetChannel", "forceCloseInLoop"} :
              Pushes(fn)
         \/ \E fn : RunFunctor(fn) /\ pending' = pending
         \/ RunStopInLoop /\ \E conn \in 0..MaxConns : pending' = Append(pending, F("resetChannel", conn))
<1> USE DEF vars, loopVars, QueuesKept, Pushes
<1>0. 0 \in 0..MaxConns /\ connection_ \in 0..MaxConns
  BY ConnectorAssumption DEF TypeOK
<1>1. CASE Poll \/ KeeperExpires \/ RetryTimer \/ Connect \/ Disconnect \/ Restart
           \/ ConnectionCloses \/ UNCHANGED vars
  BY <1>1 DEF Poll, KeeperExpires, RetryTimer, Connect, Disconnect, Restart, ConnectionCloses
<1>2. CASE HandleFailure
  <2>1. functors' = functors /\ (pending' = pending \/ pending' = Append(pending, F("resetChannel", 0)))
    BY <1>2 DEF HandleFailure, removeAndResetChannel
  <2> QED
    BY <1>0, <2>1
<1>3. CASE HandleSuccess
  BY <1>0, <1>3 DEF HandleSuccess, removeAndResetChannel
<1>4. CASE SwapPendingFunctors
  BY <1>4 DEF SwapPendingFunctors, Swapped
<1>5. CASE RunStartInLoop \/ RunResetChannel \/ RunForceClose
  BY <1>5 DEF RunStartInLoop, RunResetChannel, RunForceClose
<1>6. CASE RunStopInLoop
  <2>1. RunFunctor("stopInLoop")
        /\ (pending' = pending \/ pending' = Append(pending, F("resetChannel", 0)))
    BY <1>6 DEF RunStopInLoop, removeAndResetChannel
  <2> QED
    BY <1>0, <1>6, <2>1
<1>7. CASE CallerConnect \/ Stop \/ ForceClose
  BY <1>0, <1>7 DEF CallerConnect, Stop, ForceClose
<1>8. CASE Destruct
  <2>1. functors' = functors
        /\ \/ pending' = pending
           \/ pending' = Append(pending, F("forceCloseInLoop", connection_))
           \/ pending' = Append(pending, F("stopInLoop", 0))
    BY <1>8 DEF Destruct, DestructConnected, DestructUnconnected
  <2> QED
    BY <1>0, <2>1
<1> QED
  BY <1>1, <1>2, <1>3, <1>4, <1>5, <1>6, <1>7, <1>8 DEF Next, LoopStep, UserStep

(* The queues stay well typed.                                             *)
LEMMA QueuesTypedStep ==
  ASSUME TypeOK, [Next]_vars
  PROVE  QueuesTyped'
<1>0. QueuesTyped
  BY TypeParts
<1>1. CASE QueuesKept
  BY <1>0, <1>1 DEF QueuesTyped, QueuesKept
<1>2. CASE Swapped
  BY <1>0, <1>2 DEF QueuesTyped, Swapped
<1>3. CASE \E fn \in {"startInLoop", "stopInLoop", "resetChannel", "forceCloseInLoop"} :
             Pushes(fn)
  BY <1>0, <1>3, PushOutcome DEF QueuesTyped, Pushes
<1>4. CASE \E fn : RunFunctor(fn) /\ pending' = pending
  BY <1>0, <1>4, PopOutcome DEF QueuesTyped
<1>5. CASE RunStopInLoop /\ \E conn \in 0..MaxConns :
             pending' = Append(pending, F("resetChannel", conn))
  <2>1. PICK conn \in 0..MaxConns : pending' = Append(pending, F("resetChannel", conn))
    BY <1>5
  <2>2. F("resetChannel", conn) \in Functors
    BY DEF F, Functors
  <2>3. pending' \in Seq(Functors)
    BY <1>0, <2>1, <2>2 DEF QueuesTyped
  <2>4. functors' \in Seq(Functors)
    BY <1>5, PopOutcome DEF RunStopInLoop
  <2> QED
    BY <2>3, <2>4 DEF QueuesTyped
<1> QED
  BY <1>1, <1>2, <1>3, <1>4, <1>5, QueuesStep

(* retry and removeAndResetChannel keep the types.                         *)
LEMMA RetryTyped ==
  ASSUME AttemptTyped, NEW want, retry(want, retryDelayMs_, timers, fds),
         channel_' \in {"none", "added", "removed"}, fds - 1 \in Nat, UNCHANGED failed
  PROVE  AttemptTyped'
<1>1. retryDelayMs_' \in kInitRetryDelayMs..kMaxRetryDelayMs
  BY DelayBounded DEF AttemptTyped, retry
<1>2. timers' \in Nat
  BY DEF AttemptTyped, retry
<1> QED
  BY <1>1, <1>2 DEF AttemptTyped, retry

(* The state of the attempt stays well typed, the delay within its bounds. *)
LEMMA AttemptTypedStep ==
  ASSUME SocketInv, [Next]_vars
  PROVE  AttemptTyped'
<1>0. /\ TypeOK /\ AttemptTyped
      /\ NotFailed /\ state_ = "kConnecting" => fds - 1 \in Nat
  BY TypeParts DEF SocketInv, Attempted, One
<1>1. CASE UNCHANGED <<attemptVars, failed>>
  BY <1>0, <1>1 DEF AttemptTyped, attemptVars
<1>2. CASE HandleFailure
  <2>1. CASE state_ = "kConnecting"
    BY <1>0, <1>2, <2>1, RetryTyped
    DEF HandleFailure, removeAndResetChannel, InEvents, Idle
  <2>2. CASE state_ # "kConnecting"
    BY <1>0, <1>2, <2>2 DEF HandleFailure, AttemptTyped, attemptVars
  <2> QED
    BY <2>1, <2>2
<1>3. CASE HandleSuccess
  BY <1>0, <1>3
  DEF HandleSuccess, removeAndResetChannel, newConnection, InEvents, Idle, AttemptTyped
<1>4. CASE ConnectionCloses
  <2>1. failed' \in {failed, "removeConnection"} /\ UNCHANGED attemptVars
    BY <1>4 DEF ConnectionCloses, removeConnection
  <2> QED
    BY <1>0, <2>1 DEF AttemptTyped, attemptVars
<1>5. CASE Restart
  <2>1. kInitRetryDelayMs \in kInitRetryDelayMs..kMaxRetryDelayMs
    BY ConnectorAssumption
  <2> QED
    BY <1>0, <1>5, <2>1, StartTyped DEF Restart, AttemptTyped
<1>7. CASE RunStartInLoop
  BY <1>0, <1>7, StartTyped DEF RunStartInLoop, RunFunctor, Idle, AttemptTyped
<1>8. CASE RunStopInLoop
  <2>2. CASE state_ = "kConnecting"
    BY <1>0, <1>8, <2>2, RetryTyped
    DEF RunStopInLoop, RunFunctor, removeAndResetChannel, Idle
  <2>3. CASE state_ # "kConnecting"
    BY <1>0, <1>8, <2>3 DEF RunStopInLoop, AttemptTyped, attemptVars
  <2> QED
    BY <2>2, <2>3
<1>9. CASE RunResetChannel
  BY <1>0, <1>9 DEF RunResetChannel, AttemptTyped
<1>10. CASE RunForceClose
  <2>1. failed' \in {failed, "removeConnection"} /\ UNCHANGED attemptVars
    BY <1>10 DEF RunForceClose, removeConnection
  <2> QED
    BY <1>0, <2>1 DEF AttemptTyped, attemptVars
<1>12. CASE RetryTimer
  <2>1. timers - 1 \in Nat
    BY <1>0, <1>12 DEF RetryTimer, SocketInv, Phases, TypeOK
  <2> QED
    BY <1>0, <1>12, <2>1, StartTyped DEF RetryTimer, InEvents, Idle, AttemptTyped
<1>13. CASE Connect
  BY <1>0, <1>13, StartTyped DEF Connect, Idle, AttemptTyped
<1>14. CASE CallerConnect \/ Stop \/ Disconnect \/ ForceClose \/ Destruct \/ Poll
            \/ SwapPendingFunctors \/ KeeperExpires \/ UNCHANGED vars
  BY <1>1, <1>14 DEF CallerConnect, Stop, Disconnect, ForceClose, Destruct, Poll,
     SwapPendingFunctors, KeeperExpires, vars
<1> QED
  BY <1>2, <1>3, <1>4, <1>5, <1>7, <1>8, <1>9, <1>10, <1>12, <1>13, <1>14
  DEF Next, LoopStep, UserStep

(* A connection that is closed leaves the client without one.              *)
LEMMA RemoveTyped ==
  ASSUME ConnsTyped, NEW conn, removeConnection(conn), hup' \subseteq hup
  PROVE  ConnsTyped'
<1>1. live' \subseteq live /\ connection_' \in {0, connection_} /\ numConns' = numConns
  BY DEF removeConnection
<1>2. restarting' \in BOOLEAN
  BY DEF removeConnection, ConnsTyped
<1>3. 0 \in 0..MaxConns
  BY ConnectorAssumption
<1> QED
  BY <1>1, <1>2, <1>3 DEF ConnsTyped

(* The numbers of connections, calls and timers stay well typed.           *)
LEMMA ConnsTypedStep ==
  ASSUME TypeOK, [Next]_vars
  PROVE  ConnsTyped'
<1>0. ConnsTyped
  BY TypeParts
<1>1. CASE UNCHANGED <<restarting, hup, connVars>>
  BY <1>0, <1>1 DEF ConnsTyped, connVars
<1>2. CASE Poll
  BY <1>0, <1>2 DEF Poll, ConnsTyped, connVars
<1>3. CASE HandleSuccess
  <2>1. restarting' = restarting /\ hup' = hup
    BY <1>3 DEF HandleSuccess, loopVars
  <2>2. CASE UNCHANGED connVars
    BY <1>0, <2>1, <2>2 DEF ConnsTyped, connVars
  <2>3. CASE newConnection
    <3>1. numConns' \in 1..MaxConns
      BY <1>0, <1>3, <2>3, ConnectorAssumption DEF HandleSuccess, newConnection, ConnsTyped
    <3>2. connection_' = numConns' /\ live' = live \cup {numConns'}
      BY <2>3 DEF newConnection
    <3> QED
      BY <1>0, <2>1, <3>1, <3>2 DEF ConnsTyped
  <2> QED
    BY <1>3, <2>2, <2>3 DEF HandleSuccess
<1>4. CASE ConnectionCloses
  BY <1>0, <1>4, RemoveTyped DEF ConnectionCloses
<1>5. CASE Restart
  BY <1>0, <1>5 DEF Restart, ConnsTyped, pollVars, connVars
<1>6. CASE RunForceClose
  <2>1. hup' = hup
    BY <1>6 DEF RunForceClose, RunFunctor, pollVars
  <2>2. CASE UNCHANGED <<restarting, connVars, failed>>
    BY <1>1, <2>1, <2>2
  <2>3. CASE removeConnection(Head(functors).conn)
    BY <1>0, <2>1, <2>3, RemoveTyped
  <2> QED
    BY <1>6, <2>2, <2>3 DEF RunForceClose
<1>7. CASE Destruct
  <2>1. connection_' \in {0, connection_} /\ UNCHANGED <<restarting, hup, live, numConns>>
    BY <1>7 DEF Destruct, DestructConnected, DestructUnconnected, loopVars, pollVars
  <2>2. 0 \in 0..MaxConns
    BY ConnectorAssumption
  <2> QED
    BY <1>0, <2>1, <2>2 DEF ConnsTyped
<1>8. CASE HandleFailure \/ SwapPendingFunctors \/ RunStartInLoop \/ RunStopInLoop
           \/ RunResetChannel \/ KeeperExpires \/ RetryTimer \/ Connect
           \/ CallerConnect \/ Stop \/ Disconnect \/ ForceClose \/ UNCHANGED vars
  BY <1>1, <1>8 DEF HandleFailure, SwapPendingFunctors, RunStartInLoop, RunStopInLoop,
     RunResetChannel, KeeperExpires, RetryTimer, Connect, CallerConnect, Stop, Disconnect,
     ForceClose, RunFunctor, vars, loopVars, pollVars, connVars
<1> QED
  BY <1>2, <1>3, <1>4, <1>5, <1>6, <1>7, <1>8 DEF Next, LoopStep, UserStep

(* The places of the loop thread stay well typed.                          *)
LEMMA LoopTypedStep ==
  ASSUME TypeOK, Phases, [Next]_vars
  PROVE  LoopTyped'
<1>0. LoopTyped /\ timers \in Nat
  BY TypeParts DEF AttemptTyped
<1>1. CASE UNCHANGED <<pc, revents_, ripe, keeper>>
  BY <1>0, <1>1 DEF LoopTyped
<1>2. CASE Poll
  BY <1>0, <1>2 DEF Poll, LoopTyped
<1>3. CASE HandleFailure \/ HandleSuccess
  BY <1>0, <1>3 DEF HandleFailure, HandleSuccess, LoopTyped, loopVars
<1>4. CASE SwapPendingFunctors
  BY <1>0, <1>4 DEF SwapPendingFunctors, LoopTyped
<1>5. CASE KeeperExpires
  BY <1>0, <1>5 DEF KeeperExpires, LoopTyped, loopVars, pollVars
<1>6. CASE RetryTimer
  BY <1>0, <1>6 DEF RetryTimer, LoopTyped, loopVars
<1>7. CASE Destruct
  BY <1>0, <1>7 DEF Destruct, DestructConnected, DestructUnconnected, LoopTyped, loopVars,
     pollVars
<1>8. CASE ConnectionCloses \/ Restart \/ RunStartInLoop \/ RunStopInLoop \/ RunResetChannel
           \/ RunForceClose \/ Connect
  BY <1>1, <1>8 DEF ConnectionCloses, Restart, RunStartInLoop, RunStopInLoop, RunResetChannel,
     RunForceClose, RunFunctor, Connect, WantsConnection, loopVars, pollVars
<1>9. CASE CallerConnect \/ Stop \/ Disconnect \/ ForceClose \/ UNCHANGED vars
  BY <1>1, <1>9 DEF CallerConnect, WantsConnection, Stop, Disconnect, ForceClose, CountsCall,
     vars, loopVars, pollVars
<1> QED
  BY <1>2, <1>3, <1>4, <1>5, <1>6, <1>7, <1>8, <1>9 DEF Next, LoopStep, UserStep

(* What user code and the other threads have stays well typed.             *)
LEMMA UserTypedStep ==
  ASSUME TypeOK, [Next]_vars
  PROVE  UserTyped'
<1>0. UserTyped
  BY TypeParts
<1>1. CASE UNCHANGED <<connect_, userVars>>
  BY <1>0, <1>1 DEF UserTyped, userVars
<1>2. CASE Restart
  <2>1. connect_' \in BOOLEAN /\ UNCHANGED userVars
    BY <1>2 DEF Restart
  <2> QED
    BY <1>0, <2>1 DEF UserTyped, userVars
<1>3. CASE Connect \/ CallerConnect
  <2>1. WantsConnection
    BY <1>3 DEF Connect, CallerConnect
  <2>2. connects' \in 0..MaxConnects
    BY <1>0, <2>1, ConnectorAssumption DEF UserTyped, WantsConnection
  <2> QED
    BY <1>0, <2>1, <2>2 DEF UserTyped, WantsConnection
<1>4. CASE Stop \/ Disconnect \/ ForceClose
  <2>1. /\ connect_' \in BOOLEAN /\ stopped' \in BOOLEAN /\ clientConnect_' \in BOOLEAN
        /\ CountsCall
    BY <1>0, <1>4 DEF Stop, Disconnect, ForceClose, UserTyped
  <2>2. calls' \in 0..MaxCalls
    BY <1>0, <2>1, ConnectorAssumption DEF UserTyped, CountsCall
  <2> QED
    BY <1>0, <2>1, <2>2 DEF UserTyped, CountsCall
<1>5. CASE Destruct
  <2>1. connect_' \in BOOLEAN /\ stopped' \in BOOLEAN
    BY <1>0, <1>5 DEF Destruct, DestructConnected, DestructUnconnected, UserTyped
  <2> QED
    BY <1>0, <1>5, <2>1 DEF Destruct, UserTyped
<1>6. CASE Poll \/ HandleFailure \/ HandleSuccess \/ ConnectionCloses \/ SwapPendingFunctors
           \/ RunStartInLoop \/ RunStopInLoop \/ RunResetChannel \/ RunForceClose
           \/ KeeperExpires \/ RetryTimer \/ UNCHANGED vars
  BY <1>1, <1>6 DEF Poll, HandleFailure, HandleSuccess, ConnectionCloses,
     SwapPendingFunctors, RunStartInLoop, RunStopInLoop, RunResetChannel, RunForceClose,
     RunFunctor, KeeperExpires, RetryTimer, vars
<1> QED
  BY <1>2, <1>3, <1>4, <1>5, <1>6 DEF Next, LoopStep, UserStep

(* The types are kept.                                                     *)
LEMMA TypesStep ==
  ASSUME SocketInv, [Next]_vars
  PROVE  TypeOK'
BY TypeParts, QueuesTypedStep, AttemptTypedStep, ConnsTypedStep, LoopTypedStep,
   UserTypedStep DEF SocketInv

-----------------------------------------------------------------------------
(***************************************************************************)
(* At most one attempt.                                                    *)
(***************************************************************************)

FunctorNames == {"startInLoop", "stopInLoop", "resetChannel", "forceCloseInLoop"}

(* The queues hold the same functors of kind g as before.                  *)
SameQueued(g) ==
  /\ Has(functors', g) <=> Has(functors, g)
  /\ Has(pending', g) <=> Has(pending, g)
  /\ Once(functors, g) => Once(functors', g)
  /\ Once(pending, g) => Once(pending', g)

(* Queueing another kind of functor does not disturb kind g.               *)
LEMMA OthersQueued ==
  ASSUME TypeOK, NEW g, QueuesKept \/ \E fn \in FunctorNames \ {g} : Pushes(fn)
  PROVE  SameQueued(g)
<1>1. CASE QueuesKept
  BY <1>1 DEF QueuesKept, SameQueued
<1>2. ASSUME NEW fn \in FunctorNames \ {g}, Pushes(fn)
      PROVE  SameQueued(g)
  <2>1. functors' = functors
    BY <1>2 DEF Pushes
  <2>2. /\ Has(pending', g) <=> Has(pending, g)
        /\ Once(pending, g) => Once(pending', g)
    BY <1>2, PushOutcome DEF FunctorNames
  <2> QED
    BY <2>1, <2>2 DEF SameQueued
<1> QED
  BY <1>1, <1>2

(* Running another kind of functor does not disturb kind g.                *)
LEMMA OtherRuns ==
  ASSUME TypeOK, NEW g, NEW fn, fn # g, RunFunctor(fn), pending' = pending
  PROVE  SameQueued(g)
BY PopOutcome DEF SameQueued

(* The counts of the tokens.                                               *)
LEMMA OneRange == \A b : One(b) \in {0, 1}
BY DEF One

(* The tokens are counted by natural numbers.                              *)
LEMMA TokenCounts ==
  ASSUME TypeOK
  PROVE  MaxConnects - connects \in Nat /\ timers \in Nat /\ fds \in Nat
BY ConnectorAssumption DEF TypeOK

(* Queues with the same startInLoop functors have as many tokens.          *)
LEMMA SameStarts ==
  ASSUME SameQueued("startInLoop")
  PROVE  /\ One(Has(functors', "startInLoop")) = One(Has(functors, "startInLoop"))
         /\ One(Has(pending', "startInLoop")) = One(Has(pending, "startInLoop"))
BY DEF SameQueued, One

(* The calls of connect that are left are a natural number.                *)
LEMMA CallsLeft == \A c \in 0..MaxConnects : MaxConnects - c \in Nat
BY ConnectorAssumption

(* Arithmetic: tokens that move from some counters to others, without      *)
(* becoming more, stay at most one.                                        *)
LEMMA SumMoves ==
  ASSUME NEW c \in Nat, NEW a \in Nat, NEW b \in Nat, NEW r \in Nat, NEW t \in Nat,
         NEW u \in Nat, NEW x \in Nat, NEW l \in Nat, NEW y \in Nat, NEW m \in Nat,
         c + a + b + t + x + l + r <= 1, u + y + m <= t + x + l
  PROVE  c + a + b + u + y + m + r <= 1
OBVIOUS

(* A step that keeps the calls, the queued starts and the decision to      *)
(* restart only moves the token between timer, attempt and connection.     *)
LEMMA TokenMoves ==
  ASSUME TypeOK, Tokens <= 1, SameQueued("startInLoop"), UNCHANGED <<connects, restarting>>,
         timers' \in Nat,
         timers' + One(channel_' = "added") + One(live' # {})
           <= timers + One(channel_ = "added") + One(live # {})
  PROVE  Tokens' <= 1
<1> DEFINE c == MaxConnects - connects   d == MaxConnects - connects'
           a == One(Has(functors, "startInLoop"))   b == One(Has(pending, "startInLoop"))
           e == One(Has(functors', "startInLoop"))  f == One(Has(pending', "startInLoop"))
           r == One(restarting)  s == One(restarting')
           x == One(channel_ = "added")  l == One(live # {})
           y == One(channel_' = "added")  m == One(live' # {})
<1>1. /\ c \in Nat /\ a \in {0, 1} /\ b \in {0, 1} /\ r \in {0, 1}
      /\ x \in {0, 1} /\ l \in {0, 1} /\ y \in {0, 1} /\ m \in {0, 1} /\ timers \in Nat
  BY TokenCounts, OneRange
<1>2. d = c /\ e = a /\ f = b /\ r = s
  BY SameStarts
<1>3. c + a + b + timers + x + l + r <= 1 /\ timers' + y + m <= timers + x + l
  BY DEF Tokens
<1> HIDE DEF a, b, c, d, e, f, r, s, x, l, y, m
<1>4. c + a + b + timers' + y + m + r <= 1
  <2>1. /\ c \in Nat /\ a \in Nat /\ b \in Nat /\ r \in Nat
        /\ x \in Nat /\ l \in Nat /\ y \in Nat /\ m \in Nat /\ timers \in Nat
    BY <1>1
  <2> QED
    BY <1>3, <2>1, SumMoves
<1>5. d + e + f + timers' + y + m + s <= 1
  BY <1>2, <1>4
<1> QED
  BY <1>5 DEF Tokens, a, b, c, d, e, f, r, s, x, l, y, m

(* A step that touches no token keeps them at most one.                    *)
LEMMA NoTokenMoves ==
  ASSUME TypeOK, OneAttempt, SameQueued("startInLoop"),
         UNCHANGED <<connects, restarting, live, timers, state_, fds>>,
         channel_' = "added" <=> channel_ = "added"
  PROVE  OneAttempt'
<1>1. One(channel_' = "added") = One(channel_ = "added")
  BY DEF One
<1>2. Tokens' <= 1
  BY <1>1, TokenMoves, TokenCounts, OneRange DEF OneAttempt
<1> QED
  BY <1>1, <1>2 DEF OneAttempt, SameQueued

(* A startInLoop that consumes a token leaves at most one: m is what the   *)
(* step leaves of the tokens that are not timers, attempt or connection.   *)
LEMMA StartLeavesOne ==
  ASSUME AttemptInv, NotFailed, NotFailed',
         NEW state, NEW want, NEW delay, NEW n \in Nat,
         startInLoop(state, want, delay, n),
         state = "kDisconnected" \/ state = state_, live' = live,
         (MaxConnects - connects') + One(Has(functors', "startInLoop"))
           + One(Has(pending', "startInLoop")) + n + One(restarting') + 1
         <= (MaxConnects - connects) + One(Has(functors, "startInLoop"))
              + One(Has(pending, "startInLoop")) + timers + One(restarting),
         connects' \in 0..MaxConnects, restarting' \in BOOLEAN,
         Once(functors', "startInLoop"), Once(pending', "startInLoop")
  PROVE  OneAttempt'
<1>0. TypeOK /\ OneAttempt
  BY DEF AttemptInv, SocketInv
<1>1. /\ MaxConnects - connects' \in Nat /\ MaxConnects - connects \in Nat /\ timers \in Nat
      /\ \A b : One(b) \in {0, 1}
  <2>1. MaxConnects - connects' \in Nat
    BY CallsLeft
  <2> QED
    BY <1>0, <2>1, TokenCounts, OneRange
<1>2. /\ One(channel_ = "added") = 0 /\ One(live # {}) = 0 /\ n = 0
      /\ MaxConnects - connects' = 0 /\ One(Has(functors', "startInLoop")) = 0
      /\ One(Has(pending', "startInLoop")) = 0 /\ One(restarting') = 0
  <2> DEFINE c == MaxConnects - connects   d == MaxConnects - connects'
             a == One(Has(functors, "startInLoop"))   b == One(Has(pending, "startInLoop"))
             e == One(Has(functors', "startInLoop"))  f == One(Has(pending', "startInLoop"))
             r == One(restarting)  s == One(restarting')
             x == One(channel_ = "added")  l == One(live # {})
  <2>1. /\ c \in Nat /\ d \in Nat /\ a \in {0, 1} /\ b \in {0, 1} /\ e \in {0, 1}
        /\ f \in {0, 1} /\ r \in {0, 1} /\ s \in {0, 1} /\ x \in {0, 1} /\ l \in {0, 1}
    BY <1>1
  <2>2. c + a + b + timers + x + l + r <= 1 /\ d + e + f + n + s + 1 <= c + a + b + timers + r
    BY <1>0 DEF OneAttempt, Tokens
  <2> HIDE DEF a, b, c, d, e, f, r, s, x, l
  <2>3. x = 0 /\ l = 0 /\ n = 0 /\ d = 0 /\ e = 0 /\ f = 0 /\ s = 0
    BY <1>1, <2>1, <2>2
  <2> QED
    BY <2>3 DEF d, e, f, s, x, l
<1>3. channel_ # "added" /\ live = {}
  BY <1>2 DEF One
<1>4. Tokens' = timers' + One(channel_' = "added")
  <2>1. One(live' # {}) = 0
    BY <1>2
  <2>2. timers' \in Nat /\ One(channel_' = "added") \in Nat
    <3>1. timers' \in {n, n + 1}
      BY <1>0, StartOutcomes DEF Attempts, Rests
    <3> QED
      BY <3>1, OneRange
  <2> QED
    BY <1>2, <2>1, <2>2 DEF Tokens
<1>5. CASE Attempts(n)
  <2>1. Tokens' = 1
    BY <1>2, <1>4, <1>5 DEF Attempts, One
  <2> QED
    BY <1>0, <1>3, <1>5, <2>1 DEF Attempts, OneAttempt, One
<1>6. CASE Rests(state, n)
  <2>1. Tokens' <= 1
    <3>1. One(channel_' = "added") = 0 /\ timers' \in {0, 1}
      BY <1>2, <1>3, <1>6 DEF Rests, One
    <3> QED
      BY <1>4, <3>1
  <2> QED
    BY <1>0, <1>3, <1>6, <2>1 DEF Rests, OneAttempt, One
<1> QED
  BY <1>0, <1>5, <1>6, StartOutcomes

(* There is at most one token after any step: connect, startInLoop, retry  *)
(* and restart pass on what they take.                                     *)
LEMMA OneAttemptStep ==
  ASSUME AttemptInv, [Next]_vars, NotFailed, NotFailed'
  PROVE  OneAttempt'
<1>0. /\ TypeOK /\ OneAttempt /\ Attempted
      /\ Phases /\ ChannelResets
  BY DEF AttemptInv, SocketInv
<1>t. TypeOK'
  BY TypesStep DEF AttemptInv
<1>1. CASE HandleFailure
  <2>1. QueuesKept \/ Pushes("resetChannel")
    BY <1>1, ConnectorAssumption
    DEF HandleFailure, removeAndResetChannel, QueuesKept, Pushes, loopVars
  <2>2. SameQueued("startInLoop")
    BY <1>0, <2>1, OthersQueued DEF FunctorNames
  <2>3. /\ UNCHANGED <<connects, live, restarting>>
    BY <1>1 DEF HandleFailure, userVars, connVars, loopVars
  <2>4. CASE state_ = "kConnecting"
    <3>1. /\ state_' = "kDisconnected" /\ channel_' = "removed" /\ fds' = fds - 1
          /\ timers' \in {timers, timers + 1}
      BY <1>1, <2>4 DEF HandleFailure, removeAndResetChannel, retry
    <3>2. One(channel_ = "added") = 1 /\ One(channel_' = "added") = 0 /\ fds = 1
      BY <1>0, <2>4, <3>1 DEF OneAttempt, Attempted, One
    <3>3. Tokens' <= 1
      BY <1>0, <2>2, <2>3, <3>1, <3>2, SameStarts, TokenCounts, OneRange
      DEF OneAttempt, Attempted, Tokens
    <3> QED
      BY <1>0, <2>2, <2>3, <3>1, <3>2, <3>3 DEF OneAttempt, Attempted, SameQueued, One
  <2>5. CASE state_ # "kConnecting"
    BY <1>0, <1>1, <2>2, <2>3, <2>5, NoTokenMoves DEF HandleFailure, attemptVars
  <2> QED
    BY <2>4, <2>5
<1>2. CASE HandleSuccess
  <2>1. Pushes("resetChannel")
    BY <1>2, ConnectorAssumption DEF HandleSuccess, removeAndResetChannel, Pushes, loopVars
  <2>2. SameQueued("startInLoop")
    BY <1>0, <2>1, OthersQueued DEF FunctorNames
  <2>3. /\ UNCHANGED <<connects, restarting, timers>>
        /\ state_ = "kConnecting" /\ state_' = "kConnected" /\ channel_' = "removed"
        /\ fds' = fds - 1
        /\ live' = live \/ live' = live \cup {numConns'}
    BY <1>2 DEF HandleSuccess, removeAndResetChannel, newConnection, userVars, loopVars,
       connVars
  <2>4. live = {} /\ fds = 1
    <3>1. One(channel_ = "added") = 1
      BY <1>0, <2>3 DEF OneAttempt, Attempted, One
    <3>2. One(live # {}) = 0
      BY <1>0, <3>1, TokenCounts, OneRange DEF OneAttempt, Attempted, Tokens
    <3> QED
      BY <1>0, <3>1, <3>2 DEF OneAttempt, Attempted, One
  <2>5. \A a, b \in live' : a = b
    BY <2>3, <2>4
  <2>6. Tokens' <= 1
    <3>1. /\ One(channel_ = "added") = 1 /\ One(channel_' = "added") = 0
          /\ One(live # {}) = 0 /\ One(live' # {}) \in {0, 1}
      BY <1>0, <2>3, <2>4 DEF OneAttempt, Attempted, One
    <3> QED
      BY <1>0, <2>2, <2>3, <3>1, TokenMoves, TokenCounts DEF OneAttempt, Attempted
  <2> QED
    BY <1>0, <2>2, <2>3, <2>4, <2>5, <2>6 DEF OneAttempt, Attempted, SameQueued, One
<1>3. CASE ConnectionCloses \/ RunForceClose
  <2>1. SameQueued("startInLoop")
    <3>1. CASE ConnectionCloses
      BY <1>0, <3>1, OthersQueued DEF ConnectionCloses, QueuesKept
    <3>2. CASE RunForceClose
      BY <1>0, <3>2, OtherRuns DEF RunForceClose
    <3> QED
      BY <1>3, <3>1, <3>2
  <2>2. \/ \E conn \in live : removeConnection(conn)
        \/ UNCHANGED <<restarting, connVars>>
    BY <1>0, <1>3 DEF ConnectionCloses, RunForceClose, Phases
  <2>3. UNCHANGED <<connects, attemptVars>>
    BY <1>3 DEF ConnectionCloses, RunForceClose, RunFunctor, userVars
  <2>4. CASE UNCHANGED <<restarting, connVars>>
    BY <1>0, <2>1, <2>3, <2>4, NoTokenMoves DEF attemptVars, connVars
  <2>5. ASSUME NEW conn \in live, removeConnection(conn)
        PROVE  OneAttempt'
    <3>1. live' = live \ {conn} /\ \A a \in live : a = conn
      BY <1>0, <2>5 DEF removeConnection, OneAttempt, Attempted
    <3>2. live' = {} /\ live # {}
      BY <2>5, <3>1
    <3>3. Tokens' <= Tokens /\ Tokens' \in Nat /\ Tokens \in Nat
      <4>1. One(live # {}) = 1 /\ One(live' # {}) = 0
        BY <3>2 DEF One
      <4>2. timers' = timers /\ channel_' = channel_
        BY <2>3 DEF attemptVars
      <4>3. One(restarting') \in {0, 1} /\ One(restarting) \in {0, 1}
        BY OneRange
      <4> QED
        BY <1>0, <2>1, <2>3, <4>1, <4>2, <4>3, SameStarts, TokenCounts, OneRange DEF Tokens
    <3>4. Tokens' <= 1
      BY <1>0, <3>3 DEF OneAttempt, Attempted
    <3> QED
      BY <1>0, <2>1, <2>3, <3>2, <3>4 DEF OneAttempt, Attempted, SameQueued, attemptVars
  <2> QED
    BY <2>2, <2>4, <2>5
<1>4. CASE Restart
  <2>1. SameQueued("startInLoop")
    BY <1>0, <1>4, OthersQueued DEF Restart, QueuesKept
  <2>2. /\ restarting = TRUE /\ restarting' = FALSE /\ UNCHANGED <<connects, live>>
        /\ startInLoop("kDisconnected", TRUE, kInitRetryDelayMs, timers)
    BY <1>0, <1>4 DEF Restart, userVars, connVars, TypeOK
  <2>3. connects' \in 0..MaxConnects /\ restarting' \in BOOLEAN /\ timers \in Nat
    BY <1>0, <1>t DEF TypeOK
  <2>4. Once(functors', "startInLoop") /\ Once(pending', "startInLoop")
    BY <1>0, <2>1 DEF OneAttempt, Attempted, SameQueued
  <2>5. One(restarting) = 1 /\ One(restarting') = 0
    BY <2>2 DEF One
  <2>6. (MaxConnects - connects') + One(Has(functors', "startInLoop"))
          + One(Has(pending', "startInLoop")) + timers + One(restarting') + 1
        <= (MaxConnects - connects) + One(Has(functors, "startInLoop"))
             + One(Has(pending, "startInLoop")) + timers + One(restarting)
    BY <1>0, <2>1, <2>2, <2>5, SameStarts, TokenCounts, OneRange
  <2> QED
    BY <2>2, <2>3, <2>4, <2>6, StartLeavesOne
<1>5. CASE SwapPendingFunctors
  <2>1. functors = <<>> /\ functors' = pending /\ pending' = <<>>
    BY <1>0, <1>5 DEF SwapPendingFunctors, Phases, InEvents
  <2>2. UNCHANGED <<connects, attemptVars, live, restarting>>
    BY <1>5 DEF SwapPendingFunctors, userVars, connVars
  <2>3. Once(functors', "startInLoop") /\ Once(pending', "startInLoop")
    BY <1>0, <2>1, HasEmpty DEF OneAttempt, Attempted
  <2>4. Tokens' <= 1
    <3>1. /\ One(Has(functors', "startInLoop")) = One(Has(pending, "startInLoop"))
          /\ One(Has(pending', "startInLoop")) = 0 /\ One(Has(functors, "startInLoop")) = 0
      BY <2>1, HasEmpty DEF One
    <3> QED
      BY <1>0, <2>2, <3>1, TokenCounts, OneRange DEF OneAttempt, Attempted, Tokens, attemptVars
  <2> QED
    BY <1>0, <2>2, <2>3, <2>4 DEF OneAttempt, Attempted, attemptVars
<1>6. CASE RunStartInLoop
  <2>1. /\ Has(functors, "startInLoop") /\ ~Has(functors', "startInLoop")
        /\ Once(functors', "startInLoop") /\ pending' = pending
    BY <1>0, <1>6, PopOutcome DEF RunStartInLoop, OneAttempt, Attempted
  <2>2. /\ UNCHANGED <<connects, live, restarting>>
        /\ startInLoop(state_, connect_, retryDelayMs_, timers)
    BY <1>6 DEF RunStartInLoop, RunFunctor, userVars, connVars
  <2>3. connects' \in 0..MaxConnects /\ restarting' \in BOOLEAN /\ timers \in Nat
    BY <1>0, <1>t DEF TypeOK
  <2>4. Once(pending', "startInLoop")
    BY <1>0, <2>1 DEF OneAttempt, Attempted
  <2>5. (MaxConnects - connects') + One(Has(functors', "startInLoop"))
          + One(Has(pending', "startInLoop")) + timers + One(restarting') + 1
        <= (MaxConnects - connects) + One(Has(functors, "startInLoop"))
             + One(Has(pending, "startInLoop")) + timers + One(restarting)
    <3>1. One(Has(functors, "startInLoop")) = 1 /\ One(Has(functors', "startInLoop")) = 0
      BY <2>1 DEF One
    <3> QED
      BY <1>0, <2>1, <2>2, <3>1, TokenCounts, OneRange
  <2> QED
    BY <2>1, <2>2, <2>3, <2>4, <2>5, StartLeavesOne
<1>7. CASE RunStopInLoop
  <2>1. /\ \A g : Has(functors, g) <=> Has(functors', g) \/ g = "stopInLoop"
        /\ \A g : Once(functors, g) => Once(functors', g)
    BY <1>0, <1>7, PopOutcome DEF RunStopInLoop
  <2>2. UNCHANGED <<connects, live, restarting>>
    BY <1>7 DEF RunStopInLoop, RunFunctor, userVars, connVars
  <2>3. CASE state_ = "kConnecting"
    <3>1. pending' = Append(pending, F("resetChannel", 0))
      BY <1>7, <2>3 DEF RunStopInLoop, removeAndResetChannel
    <3>2. F("resetChannel", 0) \in Functors /\ F("resetChannel", 0).fn = "resetChannel"
      BY ConnectorAssumption DEF F, Functors
    <3>3. pending \in Seq(Functors)
      BY <1>0, TypeParts DEF QueuesTyped
    <3>4. /\ Has(pending', "startInLoop") <=> Has(pending, "startInLoop")
          /\ Once(pending, "startInLoop") => Once(pending', "startInLoop")
      BY <3>1, <3>2, <3>3, HasAppend
    <3>5. /\ state_' = "kDisconnected" /\ channel_' = "removed" /\ fds' = fds - 1
          /\ timers' \in {timers, timers + 1}
      BY <1>7, <2>3 DEF RunStopInLoop, removeAndResetChannel, retry
    <3>6. One(channel_ = "added") = 1 /\ One(channel_' = "added") = 0 /\ fds = 1
      BY <1>0, <2>3, <3>5 DEF OneAttempt, Attempted, One
    <3>7. Tokens' <= 1
      <4>1. /\ One(Has(functors', "startInLoop")) = One(Has(functors, "startInLoop"))
            /\ One(Has(pending', "startInLoop")) = One(Has(pending, "startInLoop"))
        BY <2>1, <3>4 DEF One
      <4> QED
        BY <1>0, <2>2, <3>5, <3>6, <4>1, TokenCounts, OneRange DEF OneAttempt, Attempted, Tokens
    <3> QED
      BY <1>0, <2>1, <2>2, <3>4, <3>5, <3>6, <3>7 DEF OneAttempt, Attempted, One
  <2>4. CASE state_ # "kConnecting"
    <3>1. SameQueued("startInLoop") /\ UNCHANGED attemptVars
      BY <1>7, <2>1, <2>4 DEF RunStopInLoop, SameQueued
    <3> QED
      BY <1>0, <2>2, <3>1, NoTokenMoves DEF attemptVars
  <2> QED
    BY <2>3, <2>4
<1>8. CASE RunResetChannel
  <2>1. SameQueued("startInLoop")
    BY <1>0, <1>8, OtherRuns DEF RunResetChannel
  <2>2. channel_ = "removed"
    BY <1>0, <1>8, PopOutcome DEF RunResetChannel, ChannelResets, Queued
  <2>3. /\ UNCHANGED <<connects, live, restarting, state_, fds, timers>>
        /\ channel_' = "none"
    BY <1>8 DEF RunResetChannel, RunFunctor, userVars, connVars
  <2> QED
    BY <1>0, <2>1, <2>2, <2>3, NoTokenMoves
<1>9. CASE RetryTimer
  <2>1. SameQueued("startInLoop")
    BY <1>0, <1>9, OthersQueued DEF RetryTimer, QueuesKept, loopVars
  <2>2. /\ UNCHANGED <<connects, live, restarting>>
        /\ startInLoop(state_, connect_, retryDelayMs_, timers - 1)
    BY <1>9 DEF RetryTimer, loopVars, userVars, connVars
  <2>3. timers - 1 \in Nat
    BY <1>0, <1>9 DEF RetryTimer, Phases, TypeOK
  <2>4. connects' \in 0..MaxConnects /\ restarting' \in BOOLEAN
    BY <1>t DEF TypeOK
  <2> QED
    <3>1. Once(functors', "startInLoop") /\ Once(pending', "startInLoop")
      BY <1>0, <2>1 DEF OneAttempt, Attempted, SameQueued
    <3>2. (MaxConnects - connects') + One(Has(functors', "startInLoop"))
            + One(Has(pending', "startInLoop")) + (timers - 1) + One(restarting') + 1
          <= (MaxConnects - connects) + One(Has(functors, "startInLoop"))
               + One(Has(pending, "startInLoop")) + timers + One(restarting)
      BY <1>0, <2>1, <2>2, SameStarts, TokenCounts, OneRange
    <3> QED
      BY <2>2, <2>3, <2>4, <3>1, <3>2, StartLeavesOne
<1>10. CASE Connect
  <2>1. SameQueued("startInLoop")
    BY <1>0, <1>10, OthersQueued DEF Connect, QueuesKept, loopVars
  <2>2. /\ UNCHANGED <<live, restarting>> /\ connects' = connects + 1
        /\ startInLoop(state_, TRUE, retryDelayMs_, timers)
    BY <1>10 DEF Connect, WantsConnection, loopVars, connVars
  <2>3. connects' \in 0..MaxConnects /\ restarting' \in BOOLEAN /\ timers \in Nat
    BY <1>0, <1>t DEF TypeOK
  <2>4. Once(functors', "startInLoop") /\ Once(pending', "startInLoop")
    BY <1>0, <2>1 DEF OneAttempt, Attempted, SameQueued
  <2>5. (MaxConnects - connects') + One(Has(functors', "startInLoop"))
          + One(Has(pending', "startInLoop")) + timers + One(restarting') + 1
        <= (MaxConnects - connects) + One(Has(functors, "startInLoop"))
             + One(Has(pending, "startInLoop")) + timers + One(restarting)
    <3>1. connects \in Nat /\ connects' = connects + 1
      BY <1>0, <2>2 DEF TypeOK
    <3> QED
      BY <1>0, <2>1, <2>2, <3>1, ConnectorAssumption, SameStarts, TokenCounts, OneRange
  <2> QED
    BY <2>2, <2>3, <2>4, <2>5, StartLeavesOne
<1>11. CASE CallerConnect
  <2>1. functors' = functors /\ Pushes("startInLoop")
    BY <1>11, ConnectorAssumption DEF CallerConnect, Pushes, loopVars
  <2>2. /\ UNCHANGED <<live, restarting, attemptVars>> /\ connects' = connects + 1
    BY <1>11 DEF CallerConnect, WantsConnection, loopVars, connVars
  <2>3. ~Has(pending, "startInLoop")
    <3>1. MaxConnects - connects >= 1
      BY <1>0, <1>t, <2>2, ConnectorAssumption DEF TypeOK
    <3>2. One(Has(pending, "startInLoop")) = 0
      BY <1>0, <3>1, TokenCounts, OneRange DEF OneAttempt, Attempted, Tokens
    <3> QED
      BY <3>2 DEF One
  <2>4. Has(pending', "startInLoop") /\ Once(pending', "startInLoop")
    BY <1>0, <2>1, <2>3, PushOutcome DEF OneAttempt, Attempted
  <2>5. Tokens' <= 1
    <3>1. One(Has(pending, "startInLoop")) = 0 /\ One(Has(pending', "startInLoop")) = 1
      BY <2>3, <2>4 DEF One
    <3>2. connects \in Nat /\ connects' = connects + 1
      BY <1>0, <2>2 DEF TypeOK
    <3> QED
      BY <1>0, <2>1, <2>2, <3>1, <3>2, ConnectorAssumption, TokenCounts, OneRange
      DEF OneAttempt, Attempted, Tokens, attemptVars
  <2> QED
    BY <1>0, <2>1, <2>2, <2>4, <2>5 DEF OneAttempt, Attempted, attemptVars
<1>12. CASE Stop \/ Disconnect \/ ForceClose \/ Destruct \/ Poll \/ KeeperExpires
  <2>1. QueuesKept \/ Pushes("stopInLoop") \/ Pushes("forceCloseInLoop")
    BY <1>0, <1>12, ConnectorAssumption
    DEF Stop, Disconnect, ForceClose, Destruct, DestructConnected,
       DestructUnconnected, Poll, KeeperExpires, QueuesKept, Pushes, loopVars, TypeOK
  <2>2. SameQueued("startInLoop")
    BY <1>0, <2>1, OthersQueued DEF FunctorNames
  <2>3. UNCHANGED <<connects, live, restarting, attemptVars>>
    BY <1>12 DEF Stop, Disconnect, ForceClose, CountsCall, Destruct, Poll, KeeperExpires,
       loopVars, connVars, userVars
  <2> QED
    BY <1>0, <2>2, <2>3, NoTokenMoves DEF attemptVars
<1>13. CASE UNCHANGED vars
  BY <1>0, <1>13, NoTokenMoves, OthersQueued
  DEF vars, loopVars, connVars, userVars, attemptVars, QueuesKept
<1> QED
  BY <1>1, <1>2, <1>3, <1>4, <1>5, <1>6, <1>7, <1>8, <1>9, <1>10, <1>11, <1>12, <1>13
  DEF Next, LoopStep, UserStep

(* removeAndResetChannel finds a registered Channel, and no resetChannel.  *)
LEMMA RemoveResets ==
  ASSUME TypeOK, ChannelResets, channel_ = "added", removeAndResetChannel,
         Has(functors', "resetChannel") => Has(functors, "resetChannel"),
         Once(functors', "resetChannel")
  PROVE  ChannelResets'
<1>1. ~Has(functors, "resetChannel") /\ ~Has(pending, "resetChannel")
  BY DEF ChannelResets, Queued
<1>2. F("resetChannel", 0) \in Functors /\ F("resetChannel", 0).fn = "resetChannel"
  BY ConnectorAssumption DEF F, Functors
<1>3. pending \in Seq(Functors) /\ pending' = Append(pending, F("resetChannel", 0))
  BY TypeParts DEF QueuesTyped, removeAndResetChannel
<1>4. Once(pending', "resetChannel")
  BY <1>1, <1>2, <1>3, HasAppend DEF ChannelResets
<1> QED
  BY <1>1, <1>4 DEF ChannelResets, Queued, removeAndResetChannel

(* A step that queues no resetChannel and brings back no Channel keeps     *)
(* that resetChannel finds its Channel.                                    *)
LEMMA ResetsKept ==
  ASSUME TypeOK, ChannelResets, SameQueued("resetChannel"),
         channel_ = "removed" => channel_' = "removed"
  PROVE  ChannelResets'
BY DEF ChannelResets, Queued, SameQueued

(* resetChannel finds the Channel it was queued for after any step.        *)
LEMMA ChannelResetsStep ==
  ASSUME SocketInv, [Next]_vars, NotFailed, NotFailed'
  PROVE  ChannelResets'
<1>0. /\ TypeOK /\ Attempted /\ ChannelResets /\ Phases
  BY DEF SocketInv
<1>s. ASSUME NEW state, NEW want, NEW delay, NEW n, startInLoop(state, want, delay, n)
      PROVE  channel_ = "removed" => channel_' = "removed"
  BY <1>0, <1>s, StartOutcomes DEF Attempts, Rests
<1>1. CASE HandleFailure
  <2>1. functors' = functors
    BY <1>1 DEF HandleFailure, loopVars
  <2>2. CASE state_ = "kConnecting"
    BY <1>0, <1>1, <2>1, <2>2, RemoveResets DEF HandleFailure, Attempted, ChannelResets
  <2>3. CASE state_ # "kConnecting"
    <3>1. QueuesKept /\ channel_' = channel_
      BY <1>1, <2>1, <2>3 DEF HandleFailure, QueuesKept, attemptVars
    <3> QED
      BY <1>0, <3>1, OthersQueued, ResetsKept
  <2> QED
    BY <2>2, <2>3
<1>2. CASE HandleSuccess
  <2>1. functors' = functors
    BY <1>2 DEF HandleSuccess, loopVars
  <2> QED
    BY <1>0, <1>2, <2>1, RemoveResets DEF HandleSuccess, Attempted, ChannelResets
<1>3. CASE ConnectionCloses \/ Disconnect \/ Poll \/ KeeperExpires \/ UNCHANGED vars
  <2>1. QueuesKept /\ channel_' = channel_
    BY <1>3 DEF ConnectionCloses, Disconnect, Poll, KeeperExpires, QueuesKept, attemptVars,
       vars, loopVars
  <2> QED
    BY <1>0, <2>1, OthersQueued, ResetsKept
<1>4. CASE Restart \/ RetryTimer \/ Connect
  <2>1. QueuesKept
    BY <1>4 DEF Restart, RetryTimer, Connect, QueuesKept, loopVars
  <2>2. channel_ = "removed" => channel_' = "removed"
    BY <1>4, <1>s DEF Restart, RetryTimer, Connect
  <2> QED
    BY <1>0, <2>1, <2>2, OthersQueued, ResetsKept
<1>5. CASE SwapPendingFunctors
  <2>1. functors = <<>> /\ functors' = pending /\ pending' = <<>> /\ channel_' = channel_
    BY <1>0, <1>5 DEF SwapPendingFunctors, Phases, InEvents, attemptVars
  <2> QED
    BY <1>0, <2>1, HasEmpty DEF ChannelResets, Queued
<1>6. CASE RunStartInLoop
  <2>1. SameQueued("resetChannel")
    BY <1>0, <1>6, OtherRuns DEF RunStartInLoop
  <2>2. channel_ = "removed" => channel_' = "removed"
    BY <1>6, <1>s DEF RunStartInLoop
  <2> QED
    BY <1>0, <2>1, <2>2, ResetsKept
<1>7. CASE RunStopInLoop
  <2>1. CASE state_ = "kConnecting"
    <3>1. /\ Has(functors', "resetChannel") => Has(functors, "resetChannel")
          /\ Once(functors', "resetChannel")
      BY <1>0, <1>7, PopOutcome DEF RunStopInLoop, ChannelResets
    <3> QED
      BY <1>0, <1>7, <2>1, <3>1, RemoveResets DEF RunStopInLoop, Attempted
  <2>2. CASE state_ # "kConnecting"
    <3>1. pending' = pending /\ channel_' = channel_
      BY <1>7, <2>2 DEF RunStopInLoop, attemptVars
    <3> QED
      BY <1>0, <1>7, <3>1, OtherRuns, ResetsKept DEF RunStopInLoop
  <2> QED
    BY <2>1, <2>2
<1>8. CASE RunResetChannel
  <2>1. /\ Has(functors, "resetChannel") /\ ~Has(functors', "resetChannel")
        /\ Once(functors', "resetChannel") /\ pending' = pending
    BY <1>0, <1>8, PopOutcome DEF RunResetChannel, ChannelResets
  <2> QED
    BY <1>0, <2>1 DEF ChannelResets, Queued
<1>9. CASE RunForceClose
  <2>1. SameQueued("resetChannel") /\ channel_' = channel_
    BY <1>0, <1>9, OtherRuns DEF RunForceClose, attemptVars
  <2> QED
    BY <1>0, <2>1, ResetsKept
<1>10. CASE CallerConnect \/ Stop \/ ForceClose \/ Destruct
  <2>1. QueuesKept \/ \E fn \in FunctorNames \ {"resetChannel"} : Pushes(fn)
    <3>1. /\ functors' = functors
          /\ \/ pending' = pending
             \/ pending' = Append(pending, F("startInLoop", 0))
             \/ pending' = Append(pending, F("stopInLoop", 0))
             \/ pending' = Append(pending, F("forceCloseInLoop", connection_))
      BY <1>10 DEF CallerConnect, Stop, ForceClose, Destruct, DestructConnected,
         DestructUnconnected, loopVars
    <3>2. 0 \in 0..MaxConns /\ connection_ \in 0..MaxConns
      BY <1>0, ConnectorAssumption, TypeParts DEF ConnsTyped
    <3> QED
      BY <3>1, <3>2 DEF QueuesKept, Pushes, FunctorNames
  <2>2. channel_' = channel_
    BY <1>10 DEF CallerConnect, Stop, ForceClose, Destruct, attemptVars
  <2> QED
    BY <1>0, <2>1, <2>2, OthersQueued, ResetsKept
<1> QED
  BY <1>1, <1>2, <1>3, <1>4, <1>5, <1>6, <1>7, <1>8, <1>9, <1>10
  DEF Next, LoopStep, UserStep

(* The assert that failed ends the behaviour.                              *)
LEMMA FailedStays ==
  ASSUME [Next]_vars, ~NotFailed
  PROVE  UNCHANGED vars
BY DEF Next, LoopStep, UserStep, Poll, HandleFailure, HandleSuccess, ConnectionCloses, Restart,
   SwapPendingFunctors, RunStartInLoop, RunStopInLoop, RunResetChannel, RunForceClose,
   RunFunctor, KeeperExpires, RetryTimer, Connect, CallerConnect, Stop, Disconnect, ForceClose,
   Destruct, MayCall, InEvents, Idle

(* An attempt that starts finds no connection and no socket.               *)
LEMMA StartKeepsAttempted ==
  ASSUME SocketInv, NotFailed, NotFailed', NEW state, NEW want, NEW delay, NEW n,
         startInLoop(state, want, delay, n),
         state = state_ \/ (state_ = "kConnected" /\ restarting' = FALSE /\ live = {}),
         restarting' => restarting, live' = live
  PROVE  Attempted'
<1>0. TypeOK /\ Attempted
  BY DEF SocketInv
<1>1. CASE Attempts(n)
  <2>1. state = "kDisconnected" /\ fds = 0
    BY <1>0, <1>1, StartOutcomes DEF Attempts, Rests, Attempted, One
  <2>2. live = {} /\ ~restarting'
    BY <1>0, <2>1 DEF Attempted
  <2> QED
    BY <1>1, <2>1, <2>2 DEF Attempts, Attempted, One
<1>2. CASE Rests(state, n)
  <2>1. live' = {} /\ ~restarting'
    BY <1>0, <1>2 DEF Rests, Attempted
  <2>2. channel_ # "added"
    BY <1>0, <1>2 DEF Rests, Attempted
  <2> QED
    BY <1>0, <1>2, <2>1, <2>2 DEF Rests, Attempted, One
<1> QED
  BY <1>0, <1>1, <1>2, StartOutcomes

(* The Channel and the socket belong to an attempt after any step.         *)
LEMMA AttemptedStep ==
  ASSUME SocketInv, [Next]_vars, NotFailed, NotFailed'
  PROVE  Attempted'
<1>0. TypeOK /\ Attempted /\ Phases /\ ChannelResets
  BY DEF SocketInv
<1>u. CASE UNCHANGED <<state_, fds, live, restarting>>
           /\ (channel_' = "added" <=> channel_ = "added")
  BY <1>0, <1>u DEF Attempted, One
<1>r. ASSUME state_ = "kConnecting", removeAndResetChannel,
             retry(connect_, retryDelayMs_, timers, fds), UNCHANGED <<live, restarting>>
      PROVE  Attempted'
  <2>1. fds = 1 /\ live = {} /\ ~restarting
    BY <1>0, <1>r DEF Attempted, One
  <2> QED
    BY <1>r, <2>1 DEF Attempted, One, removeAndResetChannel, retry
<1>1. CASE HandleFailure
  <2>1. CASE state_ = "kConnecting"
    BY <1>1, <2>1, <1>r DEF HandleFailure, retry, loopVars, connVars
  <2>2. CASE state_ # "kConnecting"
    BY <1>1, <2>2, <1>u DEF HandleFailure, loopVars, connVars, attemptVars
  <2> QED
    BY <2>1, <2>2
<1>2. CASE HandleSuccess
  <2>1. /\ state_ = "kConnecting" /\ state_' = "kConnected" /\ channel_' = "removed"
        /\ fds' = fds - 1 /\ restarting' = restarting
        /\ live' = live \/ live' = live \cup {numConns'}
    BY <1>2 DEF HandleSuccess, removeAndResetChannel, newConnection, loopVars, connVars
  <2>2. fds = 1 /\ live = {} /\ ~restarting
    BY <1>0, <2>1 DEF Attempted, One
  <2> QED
    BY <2>1, <2>2 DEF Attempted, One
<1>3. CASE ConnectionCloses \/ RunForceClose
  <2>1. \/ \E conn \in live : removeConnection(conn)
        \/ UNCHANGED <<restarting, connVars>>
    BY <1>0, <1>3 DEF ConnectionCloses, RunForceClose, Phases
  <2>2. UNCHANGED <<state_, fds, channel_>>
    BY <1>3 DEF ConnectionCloses, RunForceClose, attemptVars
  <2>3. ASSUME NEW conn \in live, removeConnection(conn)
        PROVE  Attempted'
    <3>1. live' = live \ {conn} /\ \A a \in live : a = conn
      BY <1>0, <2>3 DEF removeConnection, Attempted
    <3>2. live' = {} /\ state_ = "kConnected"
      BY <1>0, <2>3, <3>1 DEF Attempted
    <3> QED
      BY <1>0, <2>2, <3>2 DEF Attempted, One
  <2> QED
    BY <2>1, <2>2, <2>3, <1>u DEF connVars
<1>4. CASE Restart
  <2>1. restarting' = FALSE /\ live' = live /\ state_ = "kConnected" /\ live = {}
    BY <1>0, <1>4 DEF Restart, Attempted, connVars
  <2> QED
    BY <1>4, <2>1, StartKeepsAttempted DEF Restart
<1>5. CASE RunStartInLoop \/ RetryTimer \/ Connect
  <2>1. restarting' = restarting /\ live' = live
    BY <1>5 DEF RunStartInLoop, RetryTimer, Connect, connVars, loopVars
  <2>2. \E want, delay, n : startInLoop(state_, want, delay, n)
    BY <1>5 DEF RunStartInLoop, RetryTimer, Connect
  <2> QED
    BY <2>1, <2>2, StartKeepsAttempted
<1>6. CASE RunStopInLoop
  <2>1. CASE state_ = "kConnecting"
    BY <1>6, <2>1, <1>r DEF RunStopInLoop, retry, connVars
  <2>2. CASE state_ # "kConnecting"
    BY <1>6, <2>2, <1>u DEF RunStopInLoop, connVars, attemptVars
  <2> QED
    BY <2>1, <2>2
<1>7. CASE RunResetChannel
  <2>1. channel_ = "removed"
    BY <1>0, <1>7, PopOutcome DEF RunResetChannel, ChannelResets, Queued
  <2> QED
    BY <1>7, <2>1, <1>u DEF RunResetChannel, connVars
<1>8. CASE CallerConnect \/ Stop \/ Disconnect \/ ForceClose \/ Destruct \/ Poll
           \/ SwapPendingFunctors \/ KeeperExpires \/ UNCHANGED vars
  BY <1>8, <1>u DEF CallerConnect, Stop, Disconnect, ForceClose, Destruct, Poll,
     SwapPendingFunctors, KeeperExpires, vars, loopVars, connVars, attemptVars
<1> QED
  BY <1>1, <1>2, <1>3, <1>4, <1>5, <1>6, <1>7, <1>8 DEF Next, LoopStep, UserStep

(* The invariant of the socket holds at first.                             *)
LEMMA SocketInit == Init => SocketInv
<1> SUFFICES ASSUME Init PROVE SocketInv
  OBVIOUS
<1>1. TypeOK
  <2>1. QueuesTyped
    BY DEF Init, QueuesTyped
  <2>2. AttemptTyped
    BY ConnectorAssumption DEF Init, AttemptTyped
  <2>3. ConnsTyped
    <3>1. 0 \in 0..MaxConns
      BY ConnectorAssumption
    <3> QED
      BY <3>1, Zenon DEF Init, ConnsTyped
  <2>4. LoopTyped
    BY DEF Init, LoopTyped
  <2>5. UserTyped
    <3>1. 0 \in 0..MaxConnects /\ 0 \in 0..MaxCalls
      BY ConnectorAssumption
    <3> QED
      BY <3>1, Zenon DEF Init, UserTyped
  <2> QED
    BY <2>1, <2>2, <2>3, <2>4, <2>5, TypeParts
<1>2. Phases
  BY DEF Init, Phases
<1>3. Attempted
  BY DEF Init, Attempted, One
<1>4. ChannelResets
  BY HasEmpty DEF Init, ChannelResets, Queued
<1> QED
  BY <1>1, <1>2, <1>3, <1>4 DEF SocketInv

(* The invariant of the socket is inductive.                               *)
LEMMA SocketStep == SocketInv /\ [Next]_vars => SocketInv'
<1> SUFFICES ASSUME SocketInv, [Next]_vars PROVE SocketInv'
  OBVIOUS
<1>1. TypeOK' /\ Phases'
  BY TypesStep, PhasesStep DEF SocketInv
<1>2. ASSUME NotFailed' PROVE NotFailed
  BY <1>2, FailedStays DEF vars, NotFailed
<1>3. NotFailed' => Attempted' /\ ChannelResets'
  BY <1>2, AttemptedStep, ChannelResetsStep
<1> QED
  BY <1>1, <1>3 DEF SocketInv

(* However often connect is called, in whatever threads: the delay stays   *)
(* in its bounds, the Connector holds a socket exactly while an attempt is *)
(* under way, no attempt is under way while a connection is open, and      *)
(* resetChannel frees the Channel it was queued for.                       *)
THEOREM SocketInvariant == Spec => []SocketInv
BY SocketInit, SocketStep, PTL DEF Spec

(* So no retry, stop, success or restart leaks a descriptor.               *)
THEOREM SocketsNeverLeak == Spec => []NoSocketLeaks
<1>1. SocketInv => NoSocketLeaks
  BY DEF SocketInv, Attempted, NoSocketLeaks
<1> QED
  BY <1>1, SocketInvariant, PTL

(* At first the only token is the call of connect to come.                 *)
LEMMA TokenInit ==
  ASSUME MaxConnects <= 1
  PROVE  Init => OneAttempt
BY HasEmpty, ConnectorAssumption DEF Init, OneAttempt, Tokens, One

(* The invariant of the attempts is inductive.                             *)
LEMMA AttemptStep == AttemptInv /\ [Next]_vars => AttemptInv'
<1> SUFFICES ASSUME AttemptInv, [Next]_vars PROVE AttemptInv'
  OBVIOUS
<1>1. SocketInv'
  BY SocketStep DEF AttemptInv
<1>2. ASSUME NotFailed' PROVE NotFailed
  BY <1>2, FailedStays DEF vars, NotFailed
<1>3. NotFailed' => OneAttempt'
  BY <1>2, OneAttemptStep
<1> QED
  BY <1>1, <1>3 DEF AttemptInv

(* A client that calls connect once has at any time one timer, one attempt *)
(* or one connection at most, for any delays and whatever else is called,  *)
(* in either thread.                                                       *)
THEOREM AttemptInvariant ==
  ASSUME MaxConnects <= 1
  PROVE  Spec => []AttemptInv
<1>1. Init => AttemptInv
  BY SocketInit, TokenInit DEF AttemptInv
<1> QED
  BY <1>1, AttemptStep, PTL DEF Spec

(* So timers never pile up into parallel attempts.                         *)
THEOREM OneAttemptAtATime ==
  ASSUME MaxConnects <= 1
  PROVE  Spec => []AttemptsConsistent
<1>1. ASSUME AttemptInv PROVE AttemptsConsistent
  <2>1. TypeOK
    BY <1>1 DEF AttemptInv, SocketInv
  <2>2. NoSocketLeaks
    BY <1>1 DEF AttemptInv, SocketInv, Attempted, NoSocketLeaks
  <2>3. AtMostOneAttempt
    <3>1. ASSUME NotFailed
          PROVE  timers + One(channel_ = "added") + One(live # {}) <= 1
      BY <1>1, <2>1, <3>1, TokenCounts, OneRange DEF AttemptInv, OneAttempt, Tokens
    <3> QED
      BY <3>1 DEF AtMostOneAttempt
  <2> QED
    BY <2>1, <2>2, <2>3 DEF AttemptsConsistent
<1>2. AttemptInv => AttemptsConsistent
  BY <1>1
<1> QED
  BY <1>2, AttemptInvariant, PTL

-----------------------------------------------------------------------------
(***************************************************************************)
(* What stop promises.                                                     *)
(***************************************************************************)

(* What stop leaves stays so when only the loop thread calls it.           *)
LEMMA StopRestsStep ==
  ASSUME "stop" \notin CallerOps, SocketInv, StopRests, [Next]_vars
  PROVE  StopRests'
<1>0. TypeOK /\ Phases
  BY DEF SocketInv
<1>q. ASSUME SameQueued("stopInLoop")
      PROVE  Queued("stopInLoop")' <=> Queued("stopInLoop")
  BY <1>q DEF SameQueued, Queued
<1>1. CASE HandleFailure \/ HandleSuccess
  <2>1. state_' # "kConnecting" /\ UNCHANGED <<restarting, connect_, userVars>>
    BY <1>1 DEF HandleFailure, HandleSuccess, retry, loopVars, attemptVars
  <2> QED
    BY <2>1 DEF StopRests, userVars
<1>2. CASE ConnectionCloses \/ RunForceClose
  <2>1. UNCHANGED <<connect_, state_, userVars>>
    BY <1>2 DEF ConnectionCloses, RunForceClose, RunFunctor, attemptVars
  <2>2. Queued("stopInLoop")' <=> Queued("stopInLoop")
    <3>1. CASE ConnectionCloses
      BY <1>0, <1>q, <3>1, OthersQueued DEF ConnectionCloses, QueuesKept
    <3>2. CASE RunForceClose
      BY <1>0, <1>q, <3>2, OtherRuns DEF RunForceClose
    <3> QED
      BY <1>2, <3>1, <3>2
  <2>3. ASSUME stopped PROVE ~restarting'
    <3>1. /\ ~restarting
          /\ client = "destroyed" \/ ~clientConnect_
          /\ UNCHANGED restarting \/ \E conn : removeConnection(conn)
      BY <1>2, <2>3 DEF StopRests, ConnectionCloses, RunForceClose
    <3>2. ASSUME NEW conn, removeConnection(conn) PROVE ~restarting'
      BY <3>1, <3>2 DEF removeConnection
    <3> QED
      BY <3>1, <3>2
  <2> QED
    BY <2>1, <2>2, <2>3 DEF StopRests, userVars
<1>3. CASE Restart
  BY <1>3 DEF Restart, StopRests, userVars
<1>4. CASE Poll \/ KeeperExpires \/ UNCHANGED vars \/ Disconnect
  <2>1. QueuesKept /\ UNCHANGED <<restarting, connect_, state_, client, stopped>>
        /\ clientConnect_' \in {FALSE, clientConnect_}
    BY <1>4 DEF Poll, KeeperExpires, Disconnect, CountsCall, vars, QueuesKept, loopVars,
       attemptVars, userVars
  <2> QED
    BY <1>0, <1>q, <2>1, OthersQueued DEF StopRests
<1>5. CASE SwapPendingFunctors
  <2>1. functors = <<>> /\ functors' = pending
    BY <1>0, <1>5 DEF SwapPendingFunctors, Phases, InEvents
  <2>2. Queued("stopInLoop") => Queued("stopInLoop")'
    BY <2>1, HasEmpty DEF Queued
  <2>3. UNCHANGED <<restarting, connect_, state_, userVars>>
    BY <1>5 DEF SwapPendingFunctors, attemptVars
  <2> QED
    BY <2>2, <2>3 DEF StopRests, userVars
<1>6. CASE RunStartInLoop \/ RetryTimer
  <2>1. Queued("stopInLoop")' <=> Queued("stopInLoop")
    <3>1. CASE RunStartInLoop
      BY <1>0, <1>q, <3>1, OtherRuns DEF RunStartInLoop
    <3>2. CASE RetryTimer
      BY <1>0, <1>q, <3>2, OthersQueued DEF RetryTimer, QueuesKept, loopVars
    <3> QED
      BY <1>6, <3>1, <3>2
  <2>2. /\ UNCHANGED <<restarting, connect_, userVars>>
        /\ \E delay, n : startInLoop(state_, connect_, delay, n)
    BY <1>6 DEF RunStartInLoop, RunFunctor, RetryTimer, loopVars
  <2>3. ~connect_ => state_' = state_
    BY <2>2 DEF startInLoop
  <2> QED
    BY <2>1, <2>2, <2>3 DEF StopRests, userVars
<1>7. CASE RunStopInLoop
  <2>1. state_' # "kConnecting" /\ UNCHANGED <<restarting, connect_, userVars>>
    BY <1>7 DEF RunStopInLoop, RunFunctor, retry, attemptVars
  <2> QED
    BY <2>1 DEF StopRests, userVars
<1>8. CASE RunResetChannel
  <2>1. UNCHANGED <<restarting, connect_, state_, userVars>>
    BY <1>8 DEF RunResetChannel, RunFunctor
  <2>2. Queued("stopInLoop")' <=> Queued("stopInLoop")
    BY <1>0, <1>8, <1>q, OtherRuns DEF RunResetChannel
  <2> QED
    BY <2>1, <2>2 DEF StopRests, userVars
<1>9. CASE Connect \/ CallerConnect
  BY <1>9 DEF Connect, CallerConnect, WantsConnection, StopRests
<1>10. CASE Stop
  <2>1. ~restarting' /\ ~connect_' /\ ~clientConnect_'
    BY <1>10 DEF Stop, MayCall, loopVars
  <2>2. Pushes("stopInLoop")
    BY <1>10, ConnectorAssumption DEF Stop, Pushes, loopVars
  <2>3. Queued("stopInLoop")'
    BY <1>0, <2>2, PushOutcome DEF Queued
  <2> QED
    BY <2>1, <2>3 DEF StopRests
<1>11. CASE ForceClose
  <2>1. Pushes("forceCloseInLoop")
    BY <1>0, <1>11, TypeParts DEF ForceClose, Pushes, loopVars, ConnsTyped
  <2>2. Queued("stopInLoop")' <=> Queued("stopInLoop")
    BY <1>0, <1>q, <2>1, OthersQueued DEF FunctorNames
  <2>3. UNCHANGED <<restarting, connect_, state_, client, stopped, clientConnect_>>
    BY <1>11 DEF ForceClose, CountsCall, loopVars, attemptVars
  <2> QED
    BY <2>2, <2>3 DEF StopRests
<1>12. CASE Destruct
  <2>1. ~restarting' /\ client' = "destroyed" /\ state_' = state_
    BY <1>12 DEF Destruct, Idle, loopVars, attemptVars
  <2>2. CASE DestructUnconnected
    <3>1. Pushes("stopInLoop")
      BY <1>12, <2>2, ConnectorAssumption DEF Destruct, DestructUnconnected, Pushes, loopVars
    <3>2. Queued("stopInLoop")' /\ ~connect_'
      BY <1>0, <2>2, <3>1, PushOutcome DEF Queued, DestructUnconnected
    <3> QED
      BY <2>1, <3>2 DEF StopRests
  <2>3. CASE DestructConnected
    <3>1. QueuesKept \/ Pushes("forceCloseInLoop")
      BY <1>0, <1>12, <2>3, TypeParts
      DEF Destruct, DestructConnected, Pushes, QueuesKept, loopVars, ConnsTyped
    <3>2. Queued("stopInLoop")' <=> Queued("stopInLoop")
      BY <1>0, <1>q, <3>1, OthersQueued DEF FunctorNames
    <3> QED
      BY <2>1, <2>3, <3>2 DEF StopRests, DestructConnected
  <2> QED
    BY <1>12, <2>2, <2>3 DEF Destruct
<1> QED
  BY <1>1, <1>2, <1>3, <1>4, <1>5, <1>6, <1>7, <1>8, <1>9, <1>10, <1>11, <1>12
  DEF Next, LoopStep, UserStep

(* stop is called in the loop thread: until connect is called again the    *)
(* Connector does not want a connection, the client will not restart, and  *)
(* an attempt is under way only as long as stopInLoop is queued.           *)
THEOREM StopInvariant ==
  ASSUME "stop" \notin CallerOps
  PROVE  Spec => []StopRests
<1>1. Init => StopRests
  BY DEF Init, StopRests
<1>2. SocketInv /\ StopRests /\ [Next]_vars => StopRests'
  BY StopRestsStep
<1> QED
  BY <1>1, <1>2, SocketInvariant, PTL DEF Spec

(* A stop in the loop thread holds, for any number of calls of connect: no *)
(* attempt is left once stopInLoop has run, and no connection is handed to *)
(* the client after the call.                                              *)
THEOREM StopKeepsItsPromise ==
  ASSUME "stop" \notin CallerOps
  PROVE  Spec => StopHolds
<1>1. StopRests => StopTakesEffect
  BY DEF StopRests, StopTakesEffect, Queued, Has, StopQueued
<1>2. ASSUME StopRests, [Next]_vars, stopped
      PROVE  numConns' = numConns
  <2>1. ~connect_
    BY <1>2 DEF StopRests
  <2>2. CASE HandleSuccess
    BY <2>1, <2>2 DEF HandleSuccess, connVars
  <2>3. CASE ConnectionCloses \/ RunForceClose
    BY <2>3 DEF ConnectionCloses, RunForceClose, removeConnection, connVars
  <2>4. CASE Poll \/ HandleFailure \/ Restart \/ SwapPendingFunctors \/ RunStartInLoop
             \/ RunStopInLoop \/ RunResetChannel \/ KeeperExpires \/ RetryTimer \/ Connect
             \/ CallerConnect \/ Stop \/ Disconnect \/ ForceClose \/ Destruct \/ UNCHANGED vars
    BY <2>4 DEF Poll, HandleFailure, Restart, SwapPendingFunctors, RunStartInLoop,
       RunStopInLoop, RunResetChannel, KeeperExpires, RetryTimer, Connect, CallerConnect,
       Stop, Disconnect, ForceClose, Destruct, vars, connVars
  <2> QED
    BY <1>2, <2>2, <2>3, <2>4 DEF Next, LoopStep, UserStep
<1>3. StopRests /\ [Next]_vars => [stopped => numConns' = numConns]_vars
  BY <1>2
<1> QED
  BY <1>1, <1>3, StopInvariant, PTL DEF Spec, StopHolds, NoConnectionAfterStop

-----------------------------------------------------------------------------
(***************************************************************************)
(* No assert fails.                                                        *)
(***************************************************************************)

(* What one token excludes.                                                *)
TokensExclude ==
  /\ connects < MaxConnects => timers = 0 /\ channel_ # "added" /\ live = {}
                                 /\ ~restarting /\ ~Queued("startInLoop")
  /\ Queued("startInLoop") => timers = 0 /\ channel_ # "added" /\ live = {} /\ ~restarting
  /\ timers > 0 => timers = 1 /\ channel_ # "added" /\ live = {} /\ ~restarting
  /\ channel_ = "added" => live = {} /\ ~restarting

(* One token excludes all others.                                          *)
LEMMA OneToken == AttemptInv /\ NotFailed => TokensExclude
<1> SUFFICES ASSUME AttemptInv, NotFailed PROVE TokensExclude
  OBVIOUS
<1> DEFINE c == MaxConnects - connects
           a == One(Has(functors, "startInLoop"))   b == One(Has(pending, "startInLoop"))
           r == One(restarting)  x == One(channel_ = "added")  l == One(live # {})
<1>1. TypeOK /\ c + a + b + timers + x + l + r <= 1 /\ connects \in 0..MaxConnects
  BY TypeParts DEF AttemptInv, SocketInv, OneAttempt, Tokens, UserTyped
<1>2. /\ c \in Nat /\ a \in Nat /\ b \in Nat /\ timers \in Nat /\ x \in Nat /\ l \in Nat
      /\ r \in Nat
  BY <1>1, TokenCounts, OneRange
<1>3. /\ connects < MaxConnects => c > 0
      /\ Queued("startInLoop") => a + b > 0
      /\ channel_ = "added" => x > 0
      /\ live # {} => l > 0
      /\ restarting => r > 0
  <2>1. connects < MaxConnects => c > 0
    BY <1>1, ConnectorAssumption
  <2>2. Queued("startInLoop") => a + b > 0
    BY <1>2 DEF One, Queued
  <2> QED
    BY <2>1, <2>2 DEF One
<1> HIDE DEF a, b, c, r, x, l
<1>4. /\ c > 0 => a + b = 0 /\ timers = 0 /\ x = 0 /\ l = 0 /\ r = 0
      /\ a + b > 0 => timers = 0 /\ x = 0 /\ l = 0 /\ r = 0
      /\ timers > 0 => timers = 1 /\ x = 0 /\ l = 0 /\ r = 0
      /\ x > 0 => l = 0 /\ r = 0
  BY <1>1, <1>2
<1> QED
  BY <1>2, <1>3, <1>4 DEF TokensExclude

(* The Connector is bound to a queued functor exactly if one of these      *)
(* kinds is queued.                                                        *)
LEMMA BoundQueued ==
  ASSUME TypeOK
  PROVE  ConnectorQueued <=> ~NothingBound
<1>1. functors \in Seq(Functors) /\ pending \in Seq(Functors)
  BY TypeParts DEF QueuesTyped
<1>2. ASSUME NEW q \in Seq(Functors), NEW i \in 1..Len(q)
      PROVE  q[i].fn \in FunctorNames
  <2>1. q[i] \in Functors
    OBVIOUS
  <2> QED
    BY <2>1 DEF Functors, FunctorNames
<1> QED
  BY <1>1, <1>2 DEF ConnectorQueued, NothingBound, Queued, Has, FunctorNames

(* Without an attempt and without its Channel startInLoop fails no assert. *)
LEMMA StartsClean ==
  ASSUME NotFailed, channel_ = "none", NEW want, NEW delay, NEW n,
         startInLoop("kDisconnected", want, delay, n)
  PROVE  NotFailed'
BY DEF startInLoop, connect, connecting, retry, NotFailed

(* No assert fails in a step from a state of the invariant.                *)
LEMMA NothingFails ==
  ASSUME AssertInv, [Next]_vars
  PROVE  NotFailed'
<1>0. /\ TypeOK /\ Phases /\ TokensExclude /\ Attempted /\ ChannelResets /\ NotFailed
      /\ ChannelGone /\ ConnectionOwned
  BY OneToken DEF AssertInv, AttemptInv, SocketInv
<1>1. CASE HandleFailure
  BY <1>0, <1>1 DEF HandleFailure, ChannelGone, EventOfAttempt, NotFailed
<1>2. CASE ConnectionCloses \/ RunForceClose
  <2>1. \/ \E conn \in live : removeConnection(conn)
        \/ UNCHANGED failed
    BY <1>0, <1>2 DEF ConnectionCloses, RunForceClose, Phases
  <2> QED
    BY <1>0, <2>1, TypeParts DEF removeConnection, ConnectionOwned, NotFailed, UserTyped
<1>3. CASE Restart
  BY <1>0, <1>3, StartsClean DEF Restart, ChannelGone, ClearForRestart
<1>4. CASE RunStartInLoop
  <2>1. Queued("startInLoop")
    BY <1>0, <1>4, PopOutcome DEF RunStartInLoop, Queued
  <2>2. channel_ = "none" /\ state_ = "kDisconnected"
    BY <1>0, <2>1 DEF ChannelGone, ClearForConnect
  <2> QED
    BY <1>0, <1>4, <2>2, StartsClean DEF RunStartInLoop
<1>5. CASE RetryTimer
  <2>1. ripe > 0 /\ timers > 0 /\ pc = "events"
    BY <1>0, <1>5 DEF RetryTimer, Phases, InEvents, TypeOK
  <2>2. channel_ = "none" /\ state_ = "kDisconnected"
    BY <1>0, <2>1 DEF ChannelGone, ClearInEvents, ClearForRetry
  <2> QED
    BY <1>0, <1>5, <2>2, StartsClean DEF RetryTimer
<1>6. CASE Connect
  <2>1. channel_ = "none" /\ state_ = "kDisconnected"
    BY <1>0, <1>6 DEF Connect, WantsConnection, ChannelGone, ClearForConnect
  <2> QED
    BY <1>0, <1>6, <2>1, StartsClean DEF Connect
<1>7. CASE HandleSuccess \/ Poll \/ SwapPendingFunctors \/ RunStopInLoop \/ RunResetChannel
           \/ KeeperExpires \/ CallerConnect \/ Stop \/ Disconnect \/ ForceClose \/ Destruct
           \/ UNCHANGED vars
  BY <1>0, <1>7 DEF HandleSuccess, Poll, SwapPendingFunctors, RunStopInLoop, RunResetChannel,
     KeeperExpires, CallerConnect, Stop, Disconnect, ForceClose, Destruct, vars, NotFailed
<1> QED
  BY <1>1, <1>2, <1>3, <1>4, <1>5, <1>6, <1>7 DEF Next, LoopStep, UserStep

(* What holds again after a step in which no assert fails.                 *)
LEMMA AfterStep ==
  ASSUME AssertInv, [Next]_vars
  PROVE  NotFailed' /\ TypeOK' /\ Phases' /\ Attempted' /\ ChannelResets' /\ TokensExclude'
<1>1. NotFailed' /\ AttemptInv'
  BY NothingFails, AttemptStep DEF AssertInv
<1>2. TokensExclude'
  <2>1. AttemptInv' /\ NotFailed' => TokensExclude'
    BY OneToken, PTL
  <2> QED
    BY <1>1, <2>1
<1> QED
  BY <1>1, <1>2 DEF AttemptInv, SocketInv

(* Only a removal queues resetChannel, and only startInLoop registers a    *)
(* Channel; everything else leaves both alone.                             *)
Removes == state_ = "kConnecting" /\ removeAndResetChannel /\ state_' # "kConnecting"
(* What a step does to the Channel and to the resetChannel functors.       *)
LEMMA ChannelSteps ==
  ASSUME AssertInv, [Next]_vars
  PROVE  \/ Removes
         \/ channel_' = channel_ /\ SameQueued("resetChannel")
         \/ SwapPendingFunctors
         \/ RunResetChannel
         \/ channel_ = "none" /\ channel_' = "added" /\ SameQueued("resetChannel")
<1>0. TypeOK /\ NotFailed
  BY DEF AssertInv, AttemptInv, SocketInv
<1>s. ASSUME \E state, want, delay, n : startInLoop(state, want, delay, n)
      PROVE  channel_' = channel_ \/ (channel_ = "none" /\ channel_' = "added")
  BY <1>0, <1>s DEF startInLoop, connect, connecting, retry
<1>1. CASE HandleFailure
  <2>1. CASE state_ = "kConnecting"
    BY <1>1, <2>1 DEF HandleFailure, Removes, retry
  <2>2. CASE state_ # "kConnecting"
    BY <1>0, <1>1, <2>2, OthersQueued DEF HandleFailure, attemptVars, QueuesKept, loopVars
  <2> QED
    BY <2>1, <2>2
<1>2. CASE HandleSuccess
  BY <1>2 DEF HandleSuccess, Removes
<1>3. CASE ConnectionCloses \/ Disconnect \/ Poll \/ KeeperExpires \/ UNCHANGED vars
  <2>1. QueuesKept /\ channel_' = channel_
    BY <1>3 DEF ConnectionCloses, Disconnect, Poll, KeeperExpires, QueuesKept, attemptVars,
       vars, loopVars
  <2> QED
    BY <1>0, <2>1, OthersQueued
<1>4. CASE Restart \/ RetryTimer \/ Connect
  <2>1. QueuesKept
    BY <1>4 DEF Restart, RetryTimer, Connect, QueuesKept, loopVars
  <2>2. \E state, want, delay, n : startInLoop(state, want, delay, n)
    BY <1>4 DEF Restart, RetryTimer, Connect
  <2> QED
    BY <1>0, <1>s, <2>1, <2>2, OthersQueued
<1>5. CASE RunStartInLoop
  <2>1. SameQueued("resetChannel")
    BY <1>0, <1>5, OtherRuns DEF RunStartInLoop
  <2> QED
    BY <1>5, <1>s, <2>1 DEF RunStartInLoop
<1>6. CASE RunStopInLoop
  <2>1. CASE state_ = "kConnecting"
    BY <1>6, <2>1 DEF RunStopInLoop, Removes, retry
  <2>2. CASE state_ # "kConnecting"
    <3>1. pending' = pending /\ channel_' = channel_
      BY <1>6, <2>2 DEF RunStopInLoop, attemptVars
    <3> QED
      BY <1>0, <1>6, <3>1, OtherRuns DEF RunStopInLoop
  <2> QED
    BY <2>1, <2>2
<1>7. CASE RunForceClose
  BY <1>0, <1>7, OtherRuns DEF RunForceClose, attemptVars
<1>8. CASE CallerConnect \/ Stop \/ ForceClose \/ Destruct
  <2>1. QueuesKept \/ \E fn \in FunctorNames \ {"resetChannel"} : Pushes(fn)
    <3>1. /\ functors' = functors
          /\ \/ pending' = pending
             \/ pending' = Append(pending, F("startInLoop", 0))
             \/ pending' = Append(pending, F("stopInLoop", 0))
             \/ pending' = Append(pending, F("forceCloseInLoop", connection_))
      BY <1>8 DEF CallerConnect, Stop, ForceClose, Destruct, DestructConnected,
         DestructUnconnected, loopVars
    <3>2. 0 \in 0..MaxConns /\ connection_ \in 0..MaxConns
      BY <1>0, ConnectorAssumption, TypeParts DEF ConnsTyped
    <3> QED
      BY <3>1, <3>2 DEF QueuesKept, Pushes, FunctorNames
  <2>2. channel_' = channel_
    BY <1>8 DEF CallerConnect, Stop, ForceClose, Destruct, attemptVars
  <2> QED
    BY <1>0, <2>1, <2>2, OthersQueued
<1> QED
  BY <1>1, <1>2, <1>3, <1>4, <1>5, <1>6, <1>7, <1>8 DEF Next, LoopStep, UserStep

(* A removal leaves resetChannel in pendingFunctors_, and nothing else of  *)
(* the attempt: no timer of before, no connection of before.               *)
LEMMA RemovalClears ==
  ASSUME AssertInv, [Next]_vars, Removes
  PROVE  /\ channel_ = "added" /\ channel_' = "removed" /\ Has(pending', "resetChannel")
         /\ timers = 0 /\ live = {} /\ ripe = 0 /\ hup = {} /\ ~restarting
         /\ connects = MaxConnects /\ ~Queued("startInLoop")
<1>0. /\ TypeOK /\ Phases /\ TokensExclude /\ Attempted
  BY OneToken DEF AssertInv, AttemptInv, SocketInv
<1>1. /\ channel_ = "added" /\ channel_' = "removed"
      /\ timers = 0 /\ live = {} /\ ripe = 0 /\ hup = {} /\ ~restarting
      /\ connects = MaxConnects /\ ~Queued("startInLoop")
  <2>1. channel_ = "added" /\ channel_' = "removed"
    BY <1>0 DEF Removes, Attempted, removeAndResetChannel
  <2>2. live = {} /\ ~restarting /\ ~(timers > 0) /\ ~(connects < MaxConnects)
        /\ ~Queued("startInLoop")
    BY <1>0, <2>1 DEF TokensExclude
  <2>3. connects \in 0..MaxConnects /\ timers \in Nat /\ ripe \in Nat /\ ripe <= timers
        /\ hup \subseteq live
    BY <1>0, TypeParts DEF UserTyped, AttemptTyped, LoopTyped, Phases
  <2>4. timers = 0 /\ ripe = 0 /\ connects = MaxConnects
    BY <2>2, <2>3, ConnectorAssumption
  <2> QED
    BY <2>1, <2>2, <2>3, <2>4
<1>2. Has(pending', "resetChannel")
  <2>1. F("resetChannel", 0) \in Functors /\ F("resetChannel", 0).fn = "resetChannel"
    BY ConnectorAssumption DEF F, Functors
  <2>2. pending \in Seq(Functors) /\ pending' = Append(pending, F("resetChannel", 0))
    BY <1>0, TypeParts DEF QueuesTyped, Removes, removeAndResetChannel
  <2> QED
    BY <2>1, <2>2, HasAppend
<1> QED
  BY <1>1, <1>2

(* A removed Channel keeps its resetChannel queued.                        *)
LEMMA ResetQueuedStep ==
  ASSUME AssertInv, [Next]_vars
  PROVE  ResetQueued'
<1>0. Phases /\ ResetQueued
  BY DEF AssertInv, AttemptInv, SocketInv, ChannelGone
<1>1. CASE Removes
  BY <1>1, RemovalClears DEF ResetQueued, Queued
<1>2. CASE SameQueued("resetChannel") /\ (channel_' = channel_ \/ channel_' = "added")
  BY <1>0, <1>2 DEF ResetQueued, SameQueued, Queued
<1>3. CASE SwapPendingFunctors
  <2>1. functors = <<>> /\ functors' = pending /\ channel_' = channel_
    BY <1>0, <1>3 DEF SwapPendingFunctors, Phases, InEvents, attemptVars
  <2> QED
    BY <1>0, <2>1, HasEmpty DEF ResetQueued, Queued
<1>4. CASE RunResetChannel
  BY <1>4 DEF RunResetChannel, ResetQueued
<1> QED
  BY <1>1, <1>2, <1>3, <1>4, ChannelSteps

(* A start that is queued after a step was called for before it.           *)
LEMMA StartsCalledFor ==
  ASSUME AssertInv, [Next]_vars, connects' < MaxConnects \/ Queued("startInLoop")'
  PROVE  connects < MaxConnects \/ Queued("startInLoop")
<1>0. TypeOK /\ Phases
  BY DEF AssertInv, AttemptInv, SocketInv
<1>c. connects \in 0..MaxConnects
  BY <1>0, TypeParts DEF UserTyped
<1>1. CASE Connect \/ CallerConnect
  BY <1>1 DEF Connect, CallerConnect, WantsConnection
<1>2. CASE SwapPendingFunctors
  <2>1. functors' = pending /\ pending' = <<>> /\ connects' = connects
    BY <1>2 DEF SwapPendingFunctors, userVars
  <2> QED
    BY <2>1, HasEmpty DEF Queued
<1>3. CASE RunStartInLoop \/ RunStopInLoop \/ RunResetChannel \/ RunForceClose
  <2>1. \E fn : RunFunctor(fn)
    BY <1>3 DEF RunStartInLoop, RunStopInLoop, RunResetChannel, RunForceClose
  <2>2. Has(functors', "startInLoop") => Has(functors, "startInLoop")
    BY <1>0, <2>1, PopOutcome
  <2>3. Has(pending', "startInLoop") => Has(pending, "startInLoop")
    <3>1. pending' = pending \/ pending' = Append(pending, F("resetChannel", 0))
      BY <1>3 DEF RunStartInLoop, RunStopInLoop, RunResetChannel, RunForceClose,
         removeAndResetChannel
    <3>2. F("resetChannel", 0) \in Functors /\ F("resetChannel", 0).fn = "resetChannel"
      BY ConnectorAssumption DEF F, Functors
    <3>3. pending \in Seq(Functors)
      BY <1>0, TypeParts DEF QueuesTyped
    <3> QED
      BY <3>1, <3>2, <3>3, HasAppend
  <2>4. connects' = connects
    BY <2>1 DEF RunFunctor, userVars
  <2> QED
    BY <2>2, <2>3, <2>4 DEF Queued
<1>4. CASE HandleFailure \/ HandleSuccess \/ Poll \/ ConnectionCloses \/ Restart
           \/ KeeperExpires \/ RetryTimer \/ Stop \/ Disconnect \/ ForceClose \/ Destruct
           \/ UNCHANGED vars
  <2>1. /\ functors' = functors
        /\ \/ pending' = pending
           \/ pending' = Append(pending, F("resetChannel", 0))
           \/ pending' = Append(pending, F("stopInLoop", 0))
           \/ pending' = Append(pending, F("forceCloseInLoop", connection_))
    BY <1>4 DEF HandleFailure, HandleSuccess, Poll, ConnectionCloses, Restart, KeeperExpires,
       RetryTimer, Stop, Disconnect, ForceClose, Destruct, DestructConnected,
       DestructUnconnected, removeAndResetChannel, vars, loopVars
  <2>2. 0 \in 0..MaxConns /\ connection_ \in 0..MaxConns
    BY <1>0, ConnectorAssumption, TypeParts DEF ConnsTyped
  <2>3. QueuesKept \/ \E fn \in FunctorNames \ {"startInLoop"} : Pushes(fn)
    BY <2>1, <2>2 DEF QueuesKept, Pushes, FunctorNames
  <2>4. SameQueued("startInLoop")
    BY <1>0, <2>3, OthersQueued
  <2>5. connects' = connects
    BY <1>4 DEF HandleFailure, HandleSuccess, Poll, ConnectionCloses, Restart, KeeperExpires,
       RetryTimer, Stop, Disconnect, ForceClose, CountsCall, Destruct, vars, userVars
  <2> QED
    BY <2>4, <2>5 DEF SameQueued, Queued
<1> QED
  BY <1>1, <1>2, <1>3, <1>4 DEF Next, LoopStep, UserStep

(* Only an attempt that succeeds leads to kConnected.                      *)
LEMMA ConnectedSteps ==
  ASSUME AssertInv, [Next]_vars, state_' = "kConnected"
  PROVE  state_ # "kDisconnected" /\ timers' = timers
<1>0. TypeOK /\ NotFailed /\ NotFailed'
  BY NothingFails DEF AssertInv, AttemptInv, SocketInv
<1>s. ASSUME \E state, want, delay, n : startInLoop(state, want, delay, n)
      PROVE  FALSE
  BY <1>0, <1>s DEF startInLoop, connect, connecting, retry, NotFailed
<1>1. CASE Restart \/ RetryTimer \/ Connect \/ RunStartInLoop
  <2>1. \E state, want, delay, n : startInLoop(state, want, delay, n)
    BY <1>1 DEF Restart, RetryTimer, Connect, RunStartInLoop
  <2> QED
    BY <1>s, <2>1
<1>2. CASE HandleFailure \/ RunStopInLoop \/ HandleSuccess
  BY <1>2 DEF HandleFailure, RunStopInLoop, HandleSuccess, retry, attemptVars
<1>3. CASE ConnectionCloses \/ Disconnect \/ Poll \/ KeeperExpires \/ SwapPendingFunctors
           \/ RunResetChannel \/ RunForceClose \/ CallerConnect \/ Stop \/ ForceClose
           \/ Destruct \/ UNCHANGED vars
  BY <1>3 DEF ConnectionCloses, Disconnect, Poll, KeeperExpires, SwapPendingFunctors,
     RunResetChannel, RunForceClose, CallerConnect, Stop, ForceClose, Destruct, vars,
     attemptVars
<1> QED
  BY <1>1, <1>2, <1>3 DEF Next, LoopStep, UserStep

(* No Channel is left when connect starts an attempt.                      *)
LEMMA ClearForConnectStep ==
  ASSUME AssertInv, [Next]_vars
  PROVE  ClearForConnect'
<1> SUFFICES ASSUME connects' < MaxConnects \/ Queued("startInLoop")'
             PROVE  channel_' = "none" /\ state_' = "kDisconnected"
  BY DEF ClearForConnect
<1>0. TypeOK' /\ Attempted' /\ TokensExclude'
  BY AfterStep
<1>1. channel_ = "none" /\ state_ = "kDisconnected"
  BY StartsCalledFor DEF AssertInv, ChannelGone, ClearForConnect
<1>2. channel_' # "added"
  BY <1>0 DEF TokensExclude
<1>3. channel_' = "none"
  BY <1>1, <1>2, ChannelSteps DEF Removes, SwapPendingFunctors, RunResetChannel, attemptVars
<1>4. state_' # "kConnecting" /\ state_' # "kConnected"
  BY <1>0, <1>1, <1>2, ConnectedSteps DEF Attempted
<1> QED
  BY <1>0, <1>3, <1>4, TypeParts DEF AttemptTyped

(* While a retry timer is set the Connector stays in kDisconnected.        *)
LEMMA ClearForRetryStep ==
  ASSUME AssertInv, [Next]_vars
  PROVE  ClearForRetry'
<1> SUFFICES ASSUME timers' > 0 PROVE state_' = "kDisconnected"
  BY DEF ClearForRetry
<1>0. TypeOK /\ TypeOK' /\ Attempted /\ Attempted' /\ TokensExclude /\ TokensExclude'
  BY AfterStep, OneToken DEF AssertInv, AttemptInv, SocketInv
<1>1. state_' # "kConnecting"
  BY <1>0 DEF TokensExclude, Attempted
<1>2. ASSUME state_' = "kConnected" PROVE FALSE
  <2>1. state_ # "kDisconnected" /\ timers > 0
    BY <1>2, ConnectedSteps
  <2> QED
    BY <2>1 DEF AssertInv, ChannelGone, ClearForRetry
<1> QED
  BY <1>0, <1>1, <1>2, TypeParts DEF AttemptTyped

(* The phases of the loop: between polls the reported events only get      *)
(* fewer; a batch runs without new connections.                            *)
LEMMA PhaseSteps ==
  ASSUME TypeOK, [Next]_vars
  PROVE  /\ pc' = "events" => Poll \/ (pc = "events" /\ ripe' <= ripe /\ hup' \subseteq hup)
         /\ pc' = "functors" =>
              SwapPendingFunctors \/ (pc = "functors" /\ ripe' = ripe /\ live' \subseteq live)
<1>0. ripe \in Nat
  BY TypeParts DEF LoopTyped
<1>1. CASE Poll \/ SwapPendingFunctors
  BY <1>1 DEF Poll, SwapPendingFunctors
<1>2. CASE HandleFailure \/ HandleSuccess
  BY <1>0, <1>2 DEF HandleFailure, HandleSuccess, InEvents, loopVars
<1>3. CASE ConnectionCloses
  BY <1>0, <1>3 DEF ConnectionCloses, InEvents
<1>4. CASE RetryTimer
  BY <1>0, <1>4 DEF RetryTimer, InEvents, loopVars
<1>5. CASE RunForceClose
  <2>1. pc' = "functors" /\ pc = "functors" /\ ripe' = ripe
    BY <1>5 DEF RunForceClose, RunFunctor, pollVars
  <2>2. live' \subseteq live
    BY <1>5 DEF RunForceClose, removeConnection, connVars
  <2> QED
    BY <2>1, <2>2
<1>6. CASE RunStartInLoop \/ RunStopInLoop \/ RunResetChannel
  BY <1>0, <1>6 DEF RunStartInLoop, RunStopInLoop, RunResetChannel, RunFunctor, pollVars,
     connVars
<1>7. CASE Restart \/ KeeperExpires \/ Connect \/ CallerConnect \/ Stop \/ Disconnect
           \/ ForceClose \/ Destruct \/ UNCHANGED vars
  <2>1. UNCHANGED <<pc, ripe, hup, live>>
    BY <1>7 DEF Restart, KeeperExpires, Connect, CallerConnect, Stop, Disconnect, ForceClose,
       Destruct, vars, loopVars, pollVars, connVars
  <2>2. pc \in {"events", "functors"}
    BY TypeParts DEF LoopTyped
  <2> QED
    BY <1>0, <2>1, <2>2
<1> QED
  BY <1>1, <1>2, <1>3, <1>4, <1>5, <1>6, <1>7 DEF Next, LoopStep, UserStep

(* No Channel is left while expired timers or closed connections are still *)
(* to be handled.                                                          *)
LEMMA ClearInEventsStep ==
  ASSUME AssertInv, [Next]_vars
  PROVE  ClearInEvents'
<1> SUFFICES ASSUME pc' = "events", ripe' > 0 \/ hup' # {}
             PROVE  channel_' = "none"
  BY DEF ClearInEvents
<1>0. /\ TypeOK /\ TokensExclude /\ Phases /\ ChannelGone
      /\ TypeOK' /\ TokensExclude' /\ Phases'
  BY AfterStep, OneToken DEF AssertInv, AttemptInv, SocketInv
<1>t. /\ ripe \in Nat /\ timers \in Nat /\ ripe' \in Nat /\ timers' \in Nat
      /\ ripe <= timers /\ ripe' <= timers' /\ hup' \subseteq live'
      /\ channel_ \in {"none", "added", "removed"}
  BY <1>0, TypeParts DEF LoopTyped, AttemptTyped, Phases
<1>1. channel_' # "added"
  BY <1>0, <1>t DEF TokensExclude
<1>2. CASE Poll
  <2>1. /\ functors = <<>> /\ pc = "functors" /\ channel_' = channel_
        /\ timers' = timers /\ live' = live
        /\ ripe' = ripe \/ pending = <<>>
    BY <1>2 DEF Poll, attemptVars, connVars
  <2>2. ASSUME channel_ = "removed" PROVE FALSE
    <3>1. Has(pending, "resetChannel")
      BY <1>0, <2>1, <2>2, HasEmpty DEF ChannelGone, ResetQueued, Queued
    <3>2. ripe = 0 /\ live = {}
      BY <1>0, <2>1, <3>1 DEF ChannelGone, ClearByNextPoll
    <3>3. pending # <<>>
      BY <3>1, HasEmpty
    <3> QED
      BY <1>t, <2>1, <3>2, <3>3
  <2> QED
    BY <1>t, <1>1, <2>1, <2>2
<1>3. CASE pc = "events" /\ ripe' <= ripe /\ hup' \subseteq hup
  <2>1. channel_ = "none" /\ (ripe > 0 \/ hup # {})
    BY <1>0, <1>t, <1>3 DEF ChannelGone, ClearInEvents
  <2> QED
    BY <1>1, <2>1, ChannelSteps, RemovalClears DEF SwapPendingFunctors, RunResetChannel, attemptVars
<1> QED
  BY <1>0, <1>2, <1>3, PhaseSteps

(* While a batch runs and resetChannel waits for the next, no timer is     *)
(* ripe and no connection is open.                                         *)
LEMMA ClearByNextPollStep ==
  ASSUME AssertInv, [Next]_vars
  PROVE  ClearByNextPoll'
<1> SUFFICES ASSUME pc' = "functors", Has(pending', "resetChannel")
             PROVE  ripe' = 0 /\ live' = {}
  BY DEF ClearByNextPoll
<1>0. TypeOK /\ ChannelGone
  BY DEF AssertInv, AttemptInv, SocketInv
<1>1. ~SwapPendingFunctors
  BY HasEmpty DEF SwapPendingFunctors
<1>2. pc = "functors" /\ ripe' = ripe /\ live' \subseteq live
  BY <1>0, <1>1, PhaseSteps
<1>3. CASE Removes
  BY <1>2, <1>3, RemovalClears
<1>4. CASE ~Removes
  <2>1. Has(pending, "resetChannel")
    BY <1>1, <1>4, ChannelSteps DEF SameQueued, RunResetChannel
  <2> QED
    BY <1>0, <1>2, <2>1 DEF ChannelGone, ClearByNextPoll
<1> QED
  BY <1>3, <1>4

(* The functor of a connection that closes ran after its resetChannel.     *)
LEMMA CloseFindsClear ==
  ASSUME AssertInv, RunForceClose, Head(functors).conn \in live
  PROVE  channel_ = "none"
<1>0. /\ TypeOK /\ Phases /\ TokensExclude /\ ChannelGone /\ ResetFirst
      /\ channel_ \in {"none", "added", "removed"} /\ functors \in Seq(Functors)
  BY OneToken, TypeParts
  DEF AssertInv, AttemptInv, SocketInv, AttemptTyped, QueuesTyped
<1>1. /\ pc = "functors" /\ functors # <<>> /\ Head(functors).fn = "forceCloseInLoop"
      /\ Head(functors) = functors[1] /\ 1 \in 1..Len(functors)
  BY <1>0 DEF RunForceClose, RunFunctor
<1>2. channel_ # "added"
  BY <1>0 DEF TokensExclude
<1>3. ~Has(pending, "resetChannel")
  BY <1>0, <1>1 DEF ChannelGone, ClearByNextPoll
<1>4. ASSUME Has(functors, "resetChannel") PROVE FALSE
  <2>1. PICK i \in 1..Len(functors) : functors[i].fn = "resetChannel"
    BY <1>4 DEF Has
  <2>2. i < 1
    BY <1>0, <1>1, <2>1 DEF ResetFirst, ResetFirstIn
  <2> QED
    BY <2>1, <2>2
<1> QED
  BY <1>0, <1>2, <1>3, <1>4 DEF ChannelGone, ResetQueued, Queued

(* No Channel is left when restart starts an attempt.                      *)
LEMMA ClearForRestartStep ==
  ASSUME AssertInv, [Next]_vars
  PROVE  ClearForRestart'
<1> SUFFICES ASSUME restarting'
             PROVE  channel_' = "none" /\ client' = "alive"
  BY DEF ClearForRestart
<1>0. TypeOK /\ Phases /\ ChannelGone /\ NotFailed'
  BY NothingFails DEF AssertInv, AttemptInv, SocketInv
<1>r. ASSUME NEW conn, removeConnection(conn)
      PROVE  client = "alive"
  BY <1>0, <1>r DEF removeConnection, NotFailed
<1>1. CASE ConnectionCloses
  <2>1. \E conn \in hup : removeConnection(conn)
    BY <1>1 DEF ConnectionCloses
  <2>2. channel_ = "none"
    BY <1>0, <1>1, <2>1 DEF ConnectionCloses, InEvents, ChannelGone, ClearInEvents
  <2> QED
    BY <1>1, <1>r, <2>1, <2>2 DEF ConnectionCloses, attemptVars, userVars
<1>2. CASE RunForceClose
  <2>1. ~restarting
    BY <1>2 DEF RunForceClose, RunFunctor, Idle
  <2>2. Head(functors).conn \in live /\ removeConnection(Head(functors).conn)
    BY <1>2, <2>1 DEF RunForceClose
  <2>3. channel_ = "none" /\ client = "alive"
    BY <1>2, <1>r, <2>2, CloseFindsClear
  <2> QED
    BY <1>2, <2>3 DEF RunForceClose, RunFunctor, attemptVars, userVars
<1>3. CASE CallerConnect \/ Stop \/ Disconnect \/ ForceClose \/ UNCHANGED vars
  BY <1>0, <1>3 DEF CallerConnect, WantsConnection, Stop, Disconnect, ForceClose, CountsCall,
     vars, loopVars, attemptVars, userVars, ChannelGone, ClearForRestart
<1>4. CASE Restart
  BY <1>4 DEF Restart
<1>5. CASE Poll \/ HandleFailure \/ HandleSuccess \/ SwapPendingFunctors \/ RunStartInLoop
           \/ RunStopInLoop \/ RunResetChannel \/ KeeperExpires \/ RetryTimer \/ Connect
           \/ Destruct
  BY <1>5 DEF Poll, HandleFailure, HandleSuccess, SwapPendingFunctors, RunStartInLoop,
     RunStopInLoop, RunResetChannel, RunFunctor, KeeperExpires, RetryTimer, Connect, Destruct,
     InEvents, Idle, loopVars
<1> QED
  BY <1>1, <1>2, <1>3, <1>4, <1>5 DEF Next, LoopStep, UserStep

(* An event of the Channel that the loop has still to handle is of the     *)
(* attempt under way.                                                      *)
LEMMA EventOfAttemptStep ==
  ASSUME AssertInv, [Next]_vars
  PROVE  EventOfAttempt'
<1> SUFFICES ASSUME revents_' # "none" PROVE state_' = "kConnecting"
  BY DEF EventOfAttempt
<1>0. TypeOK /\ Phases /\ ChannelGone /\ Attempted
  BY DEF AssertInv, AttemptInv, SocketInv
<1>k. CASE UNCHANGED <<revents_, state_>>
  BY <1>0, <1>k DEF ChannelGone, EventOfAttempt
<1>1. CASE Poll
  BY <1>0, <1>1 DEF Poll, Attempted, attemptVars
<1>2. CASE HandleFailure \/ HandleSuccess
  BY <1>2 DEF HandleFailure, HandleSuccess
<1>3. CASE RunStartInLoop \/ RunStopInLoop \/ RunResetChannel \/ RunForceClose
  BY <1>0, <1>3 DEF RunStartInLoop, RunStopInLoop, RunResetChannel, RunForceClose, RunFunctor,
     pollVars, Phases
<1>4. CASE RetryTimer
  <2>1. timers > 0
    BY <1>0, <1>4, TypeParts DEF RetryTimer, Phases, LoopTyped, AttemptTyped
  <2> QED
    BY <1>0, <1>4, <2>1 DEF RetryTimer, ChannelGone, ClearForRetry, EventOfAttempt
<1>5. CASE Connect
  BY <1>0, <1>5 DEF Connect, WantsConnection, ChannelGone, ClearForConnect, EventOfAttempt,
     pollVars
<1>6. CASE Restart
  BY <1>0, <1>6 DEF Restart, Attempted, ChannelGone, EventOfAttempt, pollVars
<1>7. CASE ConnectionCloses \/ Disconnect \/ KeeperExpires \/ SwapPendingFunctors
           \/ CallerConnect \/ Stop \/ ForceClose \/ Destruct \/ UNCHANGED vars
  BY <1>7, <1>k DEF ConnectionCloses, Disconnect, KeeperExpires, SwapPendingFunctors,
     CallerConnect, Stop, ForceClose, Destruct, vars, attemptVars, pollVars
<1> QED
  BY <1>1, <1>2, <1>3, <1>4, <1>5, <1>6, <1>7 DEF Next, LoopStep, UserStep

(* The Channel of an attempt that is over is gone before the next attempt. *)
LEMMA ChannelGoneStep ==
  ASSUME AssertInv, [Next]_vars
  PROVE  ChannelGone'
BY ResetQueuedStep, ClearForConnectStep, ClearForRetryStep, ClearInEventsStep,
   ClearByNextPollStep, ClearForRestartStep, EventOfAttemptStep DEF ChannelGone

(* The order of resetChannel and forceCloseInLoop in a queue.              *)
LEMMA ResetFirstAppend ==
  ASSUME NEW q \in Seq(Functors), NEW f \in Functors, NEW l, NEW n \in Nat,
         ResetFirstIn(q, l, n),
         f.fn = "forceCloseInLoop" => f.conn <= n,
         f.fn = "resetChannel" => l = {}
  PROVE  ResetFirstIn(Append(q, f), l, n)
<1>1. /\ Len(Append(q, f)) = Len(q) + 1 /\ Len(q) \in Nat
      /\ Append(q, f)[Len(q) + 1] = f
      /\ \A i \in 1..Len(q) : Append(q, f)[i] = q[i]
      /\ \A i \in 1..(Len(q) + 1) : i = Len(q) + 1 \/ i \in 1..Len(q)
  OBVIOUS
<1> DEFINE p == Append(q, f)
<1> HIDE DEF p
<1>2. SUFFICES ASSUME NEW j \in 1..(Len(q) + 1), p[j].fn = "forceCloseInLoop"
               PROVE  /\ p[j].conn <= n
                      /\ \A i \in 1..(Len(q) + 1) :
                           p[i].fn = "resetChannel" /\ p[j].conn \in l => i < j
  BY <1>1 DEF ResetFirstIn, p
<1>3. CASE j = Len(q) + 1
  <2>1. p[j] = f
    BY <1>1, <1>3 DEF p
  <2>2. ASSUME NEW i \in 1..(Len(q) + 1), p[i].fn = "resetChannel" PROVE i < j
    <3>1. i # j
      BY <1>2, <2>2
    <3> QED
      BY <1>1, <1>3, <3>1
  <2> QED
    BY <1>2, <2>1, <2>2
<1>4. CASE j \in 1..Len(q)
  <2>1. p[j] = q[j]
    BY <1>1, <1>4 DEF p
  <2>2. ASSUME NEW i \in 1..(Len(q) + 1), p[i].fn = "resetChannel", p[j].conn \in l
        PROVE  i < j
    <3>1. CASE i = Len(q) + 1
      BY <1>1, <2>2, <3>1 DEF p
    <3>2. CASE i \in 1..Len(q)
      <4>1. p[i] = q[i]
        BY <1>1, <3>2 DEF p
      <4> QED
        BY <1>2, <1>4, <2>1, <2>2, <3>2, <4>1 DEF ResetFirstIn
    <3> QED
      BY <1>1, <3>1, <3>2
  <2> QED
    BY <1>2, <1>4, <2>1, <2>2 DEF ResetFirstIn
<1> QED
  BY <1>1, <1>3, <1>4

(* Taking the first functor keeps resetChannel before the closes.          *)
LEMMA ResetFirstTail ==
  ASSUME NEW q \in Seq(Functors), q # <<>>, NEW l, NEW n, ResetFirstIn(q, l, n)
  PROVE  ResetFirstIn(Tail(q), l, n)
<1>1. /\ Len(Tail(q)) = Len(q) - 1 /\ Len(q) \in Nat /\ Len(q) >= 1
      /\ \A i \in 1..Len(Tail(q)) : Tail(q)[i] = q[i + 1] /\ i + 1 \in 1..Len(q)
  OBVIOUS
<1> DEFINE p == Tail(q)
<1>2. SUFFICES ASSUME NEW j \in 1..Len(p), p[j].fn = "forceCloseInLoop"
               PROVE  /\ p[j].conn <= n
                      /\ \A i \in 1..Len(p) :
                           p[i].fn = "resetChannel" /\ p[j].conn \in l => i < j
  BY DEF ResetFirstIn
<1> HIDE DEF p
<1>3. p[j] = q[j + 1] /\ j + 1 \in 1..Len(q)
  BY <1>1 DEF p
<1>4. ASSUME NEW i \in 1..Len(p), p[i].fn = "resetChannel", p[j].conn \in l
      PROVE  i < j
  <2>1. p[i] = q[i + 1] /\ i + 1 \in 1..Len(q)
    BY <1>1 DEF p
  <2>2. i + 1 < j + 1
    BY <1>2, <1>3, <1>4, <2>1 DEF ResetFirstIn
  <2>3. i \in Nat /\ j \in Nat
    BY <1>1 DEF p
  <2> QED
    BY <2>2, <2>3
<1> QED
  BY <1>2, <1>3, <1>4 DEF ResetFirstIn

(* Closing connections and counting on leave the order as it is.           *)
LEMMA ResetFirstShrinks ==
  ASSUME NEW q \in Seq(Functors), NEW l, NEW n \in Nat, NEW k, NEW m \in Nat,
         ResetFirstIn(q, l, n), n <= m, \A c \in k : c \in l \/ (c \in Nat /\ c > n)
  PROVE  ResetFirstIn(q, k, m)
<1>1. ASSUME NEW j \in 1..Len(q), q[j].fn = "forceCloseInLoop"
      PROVE  /\ q[j].conn \in Nat /\ q[j].conn <= n
             /\ q[j].conn \in k => q[j].conn \in l
             /\ q[j].conn <= m
  <2>1. q[j].conn <= n
    BY <1>1 DEF ResetFirstIn
  <2>2. q[j] \in Functors
    BY <1>1
  <2>3. q[j].conn \in Nat
    BY <2>2, ConnectorAssumption DEF Functors
  <2>4. q[j].conn \in k => q[j].conn \in l
    BY <2>1, <2>3
  <2>5. q[j].conn <= m
    BY <2>1, <2>3
  <2> QED
    BY <2>1, <2>3, <2>4, <2>5
<1> QED
  BY <1>1 DEF ResetFirstIn

(* What a step may append to the pending functors.                         *)
LEMMA QueueChanges ==
  ASSUME [Next]_vars
  PROVE  \/ SwapPendingFunctors
         \/ /\ functors' = functors \/ (functors # <<>> /\ functors' = Tail(functors))
            /\ \/ pending' = pending
               \/ pending' = Append(pending, F("startInLoop", 0))
               \/ pending' = Append(pending, F("stopInLoop", 0))
               \/ pending' = Append(pending, F("forceCloseInLoop", connection_))
               \/ Removes
<1>1. CASE HandleFailure \/ HandleSuccess
  BY <1>1 DEF HandleFailure, HandleSuccess, Removes, retry, loopVars
<1>2. CASE RunStartInLoop \/ RunStopInLoop \/ RunResetChannel \/ RunForceClose
  BY <1>2 DEF RunStartInLoop, RunStopInLoop, RunResetChannel, RunForceClose, RunFunctor,
     Removes, retry
<1>3. CASE Poll \/ SwapPendingFunctors \/ ConnectionCloses \/ Restart \/ KeeperExpires
           \/ RetryTimer \/ UNCHANGED vars
  BY <1>3 DEF Poll, ConnectionCloses, Restart, KeeperExpires, RetryTimer, vars, loopVars
<1>4. CASE Connect \/ CallerConnect \/ Stop \/ Disconnect \/ ForceClose \/ Destruct
  BY <1>4 DEF Connect, CallerConnect, Stop, Disconnect, ForceClose, Destruct,
     DestructConnected, DestructUnconnected, loopVars
<1> QED
  BY <1>1, <1>2, <1>3, <1>4 DEF Next, LoopStep, UserStep

(* A connection that is new has a number above all others.                 *)
LEMMA ConnChanges ==
  ASSUME TypeOK, [Next]_vars
  PROVE  /\ numConns \in Nat /\ numConns' \in Nat /\ numConns <= numConns'
         /\ \A c \in live' : c \in live \/ (c \in Nat /\ c > numConns)
<1>0. numConns \in Nat
  BY TypeParts, ConnectorAssumption DEF ConnsTyped
<1>1. CASE HandleSuccess
  BY <1>0, <1>1 DEF HandleSuccess, newConnection, connVars
<1>2. CASE ConnectionCloses \/ RunForceClose
  BY <1>0, <1>2 DEF ConnectionCloses, RunForceClose, removeConnection, connVars
<1>3. CASE Destruct
  BY <1>0, <1>3 DEF Destruct
<1>4. CASE Poll \/ HandleFailure \/ Restart \/ SwapPendingFunctors \/ RunStartInLoop
           \/ RunStopInLoop \/ RunResetChannel \/ KeeperExpires \/ RetryTimer \/ Connect
           \/ CallerConnect \/ Stop \/ Disconnect \/ ForceClose \/ UNCHANGED vars
  <2>1. UNCHANGED connVars
    BY <1>4 DEF Poll, HandleFailure, Restart, SwapPendingFunctors, RunStartInLoop,
       RunStopInLoop, RunResetChannel, KeeperExpires, RetryTimer, Connect, CallerConnect, Stop,
       Disconnect, ForceClose, vars
  <2> QED
    BY <1>0, <2>1 DEF connVars
<1> QED
  BY <1>1, <1>2, <1>3, <1>4 DEF Next, LoopStep, UserStep

(* resetChannel stays before the close of the connection that its attempt  *)
(* made.                                                                   *)
LEMMA ResetFirstStep ==
  ASSUME AssertInv, [Next]_vars
  PROVE  ResetFirst'
<1>0. /\ TypeOK /\ functors \in Seq(Functors) /\ pending \in Seq(Functors)
      /\ ResetFirstIn(functors, live, numConns) /\ ResetFirstIn(pending, live, numConns)
      /\ connection_ \in 0..MaxConns /\ connection_ <= numConns /\ 0 \in 0..MaxConns
  BY TypeParts, ConnectorAssumption
  DEF AssertInv, AttemptInv, SocketInv, QueuesTyped, ResetFirst, ConnectionOwned, ConnsTyped
<1>1. /\ numConns \in Nat /\ numConns' \in Nat /\ numConns <= numConns'
      /\ \A c \in live' : c \in live \/ (c \in Nat /\ c > numConns)
  BY <1>0, ConnChanges
<1>2. ASSUME NEW q \in Seq(Functors), ResetFirstIn(q, live, numConns)
      PROVE  ResetFirstIn(q, live', numConns')
  BY <1>1, <1>2, ResetFirstShrinks
<1>3. ResetFirstIn(<<>>, live', numConns')
  BY DEF ResetFirstIn
<1>4. CASE SwapPendingFunctors
  BY <1>0, <1>2, <1>3, <1>4 DEF SwapPendingFunctors, ResetFirst
<1>5. ASSUME functors' = functors \/ (functors # <<>> /\ functors' = Tail(functors))
      PROVE  ResetFirstIn(functors', live', numConns')
  <2>1. CASE functors # <<>> /\ functors' = Tail(functors)
    <3>1. Tail(functors) \in Seq(Functors) /\ ResetFirstIn(Tail(functors), live, numConns)
      BY <1>0, <2>1, ResetFirstTail
    <3> QED
      BY <1>2, <2>1, <3>1
  <2> QED
    BY <1>0, <1>2, <1>5, <2>1
<1>6. ASSUME NEW f \in Functors, ResetFirstIn(Append(pending, f), live, numConns)
      PROVE  ResetFirstIn(Append(pending, f), live', numConns')
  <2>1. Append(pending, f) \in Seq(Functors)
    BY <1>0
  <2> QED
    BY <1>2, <1>6, <2>1
<1>7. ASSUME NEW fn \in FunctorNames \ {"resetChannel"}, NEW c \in 0..MaxConns,
             c <= numConns, pending' = Append(pending, F(fn, c))
      PROVE  ResetFirstIn(pending', live', numConns')
  <2>1. F(fn, c) \in Functors /\ F(fn, c).fn = fn /\ F(fn, c).conn = c
    BY DEF F, Functors, FunctorNames
  <2>2. ResetFirstIn(Append(pending, F(fn, c)), live, numConns)
    BY <1>0, <1>1, <1>7, <2>1, ResetFirstAppend
  <2> QED
    BY <1>6, <1>7, <2>1, <2>2
<1>8. ASSUME Removes
      PROVE  ResetFirstIn(pending', live', numConns')
  <2>1. F("resetChannel", 0) \in Functors /\ F("resetChannel", 0).fn = "resetChannel"
    BY <1>0 DEF F, Functors
  <2>2. pending' = Append(pending, F("resetChannel", 0)) /\ live = {}
    BY <1>8, RemovalClears DEF Removes, removeAndResetChannel
  <2>3. ResetFirstIn(Append(pending, F("resetChannel", 0)), live, numConns)
    BY <1>0, <1>1, <2>1, <2>2, ResetFirstAppend
  <2> QED
    BY <1>6, <2>1, <2>2, <2>3
<1>9. 0 <= numConns
  BY <1>1
<1>10. CASE /\ functors' = functors \/ (functors # <<>> /\ functors' = Tail(functors))
            /\ \/ pending' = pending
               \/ pending' = Append(pending, F("startInLoop", 0))
               \/ pending' = Append(pending, F("stopInLoop", 0))
               \/ pending' = Append(pending, F("forceCloseInLoop", connection_))
               \/ Removes
  <2>1. ResetFirstIn(functors', live', numConns')
    BY <1>5, <1>10
  <2>2. ResetFirstIn(pending', live', numConns')
    <3>1. CASE pending' = pending
      BY <1>0, <1>2, <3>1
    <3>2. CASE pending' = Append(pending, F("startInLoop", 0))
      BY <1>0, <1>7, <1>9, <3>2 DEF FunctorNames
    <3>3. CASE pending' = Append(pending, F("stopInLoop", 0))
      BY <1>0, <1>7, <1>9, <3>3 DEF FunctorNames
    <3>4. CASE pending' = Append(pending, F("forceCloseInLoop", connection_))
      BY <1>0, <1>7, <3>4 DEF FunctorNames
    <3> QED
      BY <1>8, <1>10, <3>1, <3>2, <3>3, <3>4
  <2> QED
    BY <2>1, <2>2 DEF ResetFirst
<1> QED
  BY <1>4, <1>10, QueueChanges

(* The connection that may close stays the one that the client holds.      *)
LEMMA ConnectionOwnedStep ==
  ASSUME AssertInv, [Next]_vars
  PROVE  ConnectionOwned'
<1>0. /\ TypeOK /\ Phases /\ Attempted /\ TokensExclude /\ ConnectionOwned
      /\ numConns \in Nat /\ connection_ \in Nat /\ NotFailed'
  BY OneToken, NothingFails, TypeParts, ConnectorAssumption
  DEF AssertInv, AttemptInv, SocketInv, ConnsTyped
<1>1. CASE HandleSuccess
  <2>1. live = {} /\ client' = client
    BY <1>0, <1>1 DEF HandleSuccess, Attempted, TokensExclude, userVars
  <2>2. CASE newConnection
    <3>1. /\ numConns' = numConns + 1 /\ connection_' = numConns + 1
          /\ live' = {numConns + 1}
      BY <2>1, <2>2 DEF newConnection
    <3> QED
      BY <1>0, <3>1 DEF ConnectionOwned
  <2>3. CASE UNCHANGED connVars
    BY <1>0, <2>1, <2>3 DEF ConnectionOwned, connVars
  <2> QED
    BY <1>1, <2>2, <2>3 DEF HandleSuccess
<1>2. CASE ConnectionCloses \/ RunForceClose
  <2>1. \/ \E conn \in live : removeConnection(conn)
        \/ UNCHANGED connVars
    BY <1>0, <1>2 DEF ConnectionCloses, RunForceClose, Phases
  <2>2. client' = client
    BY <1>2 DEF ConnectionCloses, RunForceClose, RunFunctor, userVars
  <2>3. ASSUME NEW conn \in live, removeConnection(conn)
        PROVE  ConnectionOwned'
    <3>1. live' = {} /\ connection_' = 0 /\ numConns' = numConns
      BY <1>0, <2>3 DEF removeConnection, Attempted, NotFailed
    <3> QED
      BY <1>0, <3>1 DEF ConnectionOwned
  <2> QED
    BY <1>0, <2>1, <2>2, <2>3 DEF ConnectionOwned, connVars
<1>3. CASE Destruct
  <2>1. /\ client' = "destroyed" /\ UNCHANGED <<live, numConns>>
        /\ connection_' \in {0, connection_}
    BY <1>3 DEF Destruct, DestructConnected, DestructUnconnected
  <2> QED
    BY <1>0, <2>1 DEF ConnectionOwned
<1>4. CASE Poll \/ HandleFailure \/ Restart \/ SwapPendingFunctors \/ RunStartInLoop
           \/ RunStopInLoop \/ RunResetChannel \/ KeeperExpires \/ RetryTimer \/ Connect
           \/ CallerConnect \/ Stop \/ Disconnect \/ ForceClose \/ UNCHANGED vars
  <2>1. UNCHANGED <<client, connVars>>
    BY <1>4 DEF Poll, HandleFailure, Restart, SwapPendingFunctors, RunStartInLoop,
       RunStopInLoop, RunResetChannel, RunFunctor, KeeperExpires, RetryTimer, Connect,
       CallerConnect, WantsConnection, Stop, Disconnect, ForceClose, CountsCall, vars,
       userVars
  <2> QED
    BY <1>0, <2>1 DEF ConnectionOwned, connVars
<1> QED
  BY <1>1, <1>2, <1>3, <1>4 DEF Next, LoopStep, UserStep

(* After the client's destructor nobody calls the Connector any more.      *)
LEMMA DestroyedStays ==
  ASSUME AssertInv, [Next]_vars, client = "destroyed"
  PROVE  /\ client' = "destroyed" /\ connect_' = connect_ /\ stopped' = stopped
         /\ ~Connect /\ ~CallerConnect /\ ~Stop /\ ~Disconnect /\ ~ForceClose /\ ~Destruct
         /\ ~Restart
<1>1. /\ ~Connect /\ ~CallerConnect /\ ~Stop /\ ~Disconnect /\ ~ForceClose /\ ~Destruct
  BY DEF Connect, CallerConnect, WantsConnection, Stop, Disconnect, ForceClose, MayCall, Destruct
<1>2. ~Restart
  BY DEF Restart, AssertInv, ChannelGone, ClearForRestart
<1>3. UNCHANGED <<client, connect_, stopped>>
  BY <1>1, <1>2 DEF Next, LoopStep, UserStep, Poll, HandleFailure, HandleSuccess,
     ConnectionCloses, SwapPendingFunctors, RunStartInLoop, RunStopInLoop, RunResetChannel,
     RunForceClose, RunFunctor, KeeperExpires, RetryTimer, vars, userVars
<1> QED
  BY <1>1, <1>2, <1>3

(* Once nothing is bound to the Connector, nothing is any more.            *)
LEMMA ReleasedSteps ==
  ASSUME AssertInv, [Next]_vars, client = "destroyed", keeper # "set"
  PROVE  \/ Poll \/ ConnectionCloses \/ SwapPendingFunctors \/ RunForceClose
         \/ KeeperExpires \/ RetryTimer \/ UNCHANGED vars
<1>0. /\ TypeOK /\ Attempted /\ channel_ = "none" /\ NothingBound /\ EventOfAttempt
  BY DEF AssertInv, AttemptInv, SocketInv, Released, ChannelGone
<1>1. state_ # "kConnecting" /\ revents_ = "none"
  BY <1>0 DEF Attempted, EventOfAttempt
<1>2. ~HandleFailure /\ ~HandleSuccess
  BY <1>1 DEF HandleFailure, HandleSuccess
<1>3. ~RunStartInLoop /\ ~RunStopInLoop /\ ~RunResetChannel
  BY <1>0, PopOutcome DEF RunStartInLoop, RunStopInLoop, RunResetChannel, NothingBound, Queued
<1> QED
  BY <1>2, <1>3, DestroyedStays DEF Next, LoopStep, UserStep

(* A Connector that nobody but a timer holds stays without a Channel and   *)
(* without functors.                                                       *)
LEMMA ReleasedKept ==
  ASSUME AssertInv, [Next]_vars, client = "destroyed", keeper # "set"
  PROVE  /\ channel_' = "none" /\ NothingBound' /\ timers' <= timers
         /\ keeper = "none" => keeper' = "none"
<1>0. /\ TypeOK /\ Phases /\ channel_ = "none" /\ NothingBound /\ NotFailed
      /\ connect_ = FALSE \/ timers = 0
      /\ timers \in Nat /\ ripe \in Nat /\ ripe <= timers
  BY TypeParts DEF AssertInv, AttemptInv, SocketInv, Released, AttemptTyped, LoopTyped, Phases, UserTyped
<1>1. CASE Poll \/ ConnectionCloses \/ KeeperExpires \/ UNCHANGED vars
  <2>1. UNCHANGED <<functors, pending, channel_, timers>>
    BY <1>1 DEF Poll, ConnectionCloses, KeeperExpires, vars, loopVars, attemptVars
  <2>2. keeper = "none" => keeper' = "none"
    BY <1>1 DEF Poll, ConnectionCloses, KeeperExpires, vars
  <2>3. NothingBound'
    BY <1>0, <2>1 DEF NothingBound, Queued
  <2> QED
    BY <1>0, <2>1, <2>2, <2>3
<1>2. CASE SwapPendingFunctors
  <2>1. functors' = pending /\ pending' = <<>> /\ UNCHANGED <<keeper, channel_, timers>>
    BY <1>2 DEF SwapPendingFunctors, attemptVars
  <2>2. NothingBound'
    BY <1>0, <2>1, HasEmpty DEF NothingBound, Queued
  <2> QED
    BY <1>0, <2>1, <2>2
<1>3. CASE RunForceClose
  <2>1. UNCHANGED <<pending, keeper, channel_, timers>>
    BY <1>3 DEF RunForceClose, RunFunctor, attemptVars
  <2>2. NothingBound'
    BY <1>0, <1>3, <2>1, PopOutcome DEF RunForceClose, NothingBound, Queued
  <2> QED
    BY <1>0, <2>1, <2>2
<1>4. CASE RetryTimer
  <2>1. /\ UNCHANGED <<functors, pending, keeper>> /\ connect_ = FALSE
        /\ startInLoop(state_, connect_, retryDelayMs_, timers - 1)
    BY <1>0, <1>4 DEF RetryTimer, loopVars
  <2>2. channel_' = channel_ /\ timers' = timers - 1
    BY <2>1 DEF startInLoop
  <2>3. NothingBound'
    BY <1>0, <2>1 DEF NothingBound, Queued
  <2> QED
    BY <1>0, <2>1, <2>2, <2>3
<1> QED
  BY <1>1, <1>2, <1>3, <1>4, ReleasedSteps

(* The timer of removeConnector expires after a poll that found nothing    *)
(* queued: stopInLoop and resetChannel have run.                           *)
LEMMA KeeperWaits ==
  ASSUME AssertInv, Poll, keeper = "set", keeper' # "set"
  PROVE  channel_' = "none" /\ NothingBound'
<1>0. /\ TypeOK /\ Attempted /\ ResetQueued /\ StopRests /\ stopped
      /\ channel_ \in {"none", "added", "removed"}
  BY TypeParts DEF AssertInv, AttemptInv, SocketInv, ChannelGone, Released, AttemptTyped
<1>1. functors = <<>> /\ pending = <<>> /\ UNCHANGED <<functors, pending, channel_>>
  BY DEF Poll, attemptVars
<1>2. NothingBound /\ NothingBound'
  BY <1>1, HasEmpty DEF NothingBound, Queued
<1>3. channel_ # "added" /\ channel_ # "removed"
  BY <1>0, <1>2 DEF NothingBound, StopRests, Attempted, ResetQueued
<1> QED
  BY <1>0, <1>1, <1>2, <1>3

(* A client is destroyed with a connection only when nothing is bound.     *)
LEMMA DestructReleases ==
  ASSUME AssertInv, Destruct, ~DestroyBusy
  PROVE  Released'
<1>0. /\ TypeOK /\ Attempted /\ TokensExclude /\ ResetQueued /\ ConnectionOwned
      /\ channel_ \in {"none", "added", "removed"} /\ timers \in Nat
      /\ client = "alive" /\ keeper = "none"
  BY TypeParts, OneToken
  DEF AssertInv, AttemptInv, SocketInv, ChannelGone, Released, AttemptTyped, Destruct
<1>1. client' = "destroyed" /\ functors' = functors /\ UNCHANGED <<channel_, timers>>
  BY DEF Destruct, loopVars, attemptVars
<1>2. CASE DestructConnected
  <2>1. NothingBound /\ live # {}
    BY <1>0, <1>2, BoundQueued DEF DestructConnected, ConnectionOwned
  <2>2. channel_ = "none" /\ timers = 0
    BY <1>0, <2>1 DEF TokensExclude, ResetQueued, NothingBound
  <2>3. NothingBound'
    <3>1. QueuesKept \/ Pushes("forceCloseInLoop")
      BY <1>0, <1>1, <1>2, TypeParts DEF DestructConnected, Pushes, QueuesKept, ConnsTyped
    <3>2. SameQueued("startInLoop") /\ SameQueued("stopInLoop") /\ SameQueued("resetChannel")
      BY <1>0, <3>1, OthersQueued DEF FunctorNames
    <3> QED
      BY <2>1, <3>2 DEF SameQueued, NothingBound, Queued
  <2>4. keeper' = "none"
    BY <1>0, <1>2 DEF DestructConnected
  <2> QED
    BY <1>1, <2>2, <2>3, <2>4 DEF Released
<1>3. CASE DestructUnconnected
  BY <1>1, <1>3 DEF DestructUnconnected, Released
<1> QED
  BY <1>2, <1>3 DEF Destruct

(* Nothing is left to be done on a Connector that only a timer holds after *)
(* any step, if the client was not destroyed while it was connecting.      *)
LEMMA ReleasedStep ==
  ASSUME AssertInv, [Next]_vars, ~DestroyBusy
  PROVE  Released'
<1>0. TypeOK /\ TypeOK' /\ Released
  BY AfterStep DEF AssertInv, AttemptInv, SocketInv
<1>1. CASE Destruct
  BY <1>1, DestructReleases
<1>2. CASE client = "destroyed"
  <2>1. client' = "destroyed" /\ connect_' = connect_ /\ stopped' = stopped
    BY <1>2, DestroyedStays
  <2>2. CASE keeper # "set"
    <3>1. /\ channel_' = "none" /\ NothingBound' /\ timers' <= timers
          /\ keeper = "none" => keeper' = "none"
      BY <1>2, <2>2, ReleasedKept
    <3>2. timers = 0 => timers' = 0
      BY <1>0, <3>1, TypeParts DEF AttemptTyped
    <3> QED
      BY <1>0, <1>2, <2>1, <3>1, <3>2 DEF Released
  <2>3. CASE keeper = "set"
    <3>1. stopped /\ ~connect_
      BY <1>0, <1>2, <2>3 DEF Released
    <3>2. CASE keeper' = "set"
      BY <2>1, <3>1, <3>2 DEF Released
    <3>3. CASE keeper' # "set"
      <4>1. Poll
        BY <1>2, <2>3, <3>3, DestroyedStays
        DEF Next, LoopStep, UserStep, HandleFailure, HandleSuccess, ConnectionCloses,
           SwapPendingFunctors, RunStartInLoop, RunStopInLoop, RunResetChannel, RunForceClose,
           RunFunctor, KeeperExpires, RetryTimer, vars
      <4> QED
        BY <2>1, <2>3, <3>1, <3>3, <4>1, KeeperWaits DEF Released
    <3> QED
      BY <3>2, <3>3
  <2> QED
    BY <2>2, <2>3
<1>3. CASE client = "alive" /\ ~Destruct
  <2>1. keeper = "none"
    BY <1>0, <1>3 DEF Released
  <2>2. client' = client /\ keeper' = keeper
    BY <1>3, <2>1 DEF Next, LoopStep, UserStep, Poll, HandleFailure, HandleSuccess,
       ConnectionCloses, Restart, SwapPendingFunctors, RunStartInLoop, RunStopInLoop,
       RunResetChannel, RunForceClose, RunFunctor, KeeperExpires, RetryTimer, Connect,
       CallerConnect, WantsConnection, Stop, Disconnect, ForceClose, CountsCall, vars, userVars
  <2> QED
    BY <1>3, <2>1, <2>2 DEF Released
<1>4. client \in {"alive", "destroyed"}
  BY <1>0, TypeParts DEF UserTyped
<1> QED
  BY <1>1, <1>2, <1>3, <1>4

(* The invariant of the asserts holds at first.                            *)
LEMMA AssertInit ==
  ASSUME MaxConnects <= 1, Init
  PROVE  AssertInv
<1>1. NotFailed /\ AttemptInv /\ StopRests
  BY SocketInit, TokenInit DEF AttemptInv, Init, NotFailed, StopRests
<1>2. ChannelGone
  BY DEF Init, ChannelGone, ResetQueued, ClearForConnect, ClearForRetry, ClearInEvents,
     ClearByNextPoll, ClearForRestart, EventOfAttempt
<1>3. ResetFirst
  BY DEF Init, ResetFirst, ResetFirstIn
<1>4. ConnectionOwned /\ Released
  BY DEF Init, ConnectionOwned, Released
<1> QED
  BY <1>1, <1>2, <1>3, <1>4 DEF AssertInv

(* The inductive invariant of the asserts: when an attempt starts, nothing *)
(* of the one before is left, and what is queued runs in an order in which *)
(* the Channel goes before the connection.                                 *)
THEOREM AssertInvariant ==
  ASSUME MaxConnects <= 1, "stop" \notin CallerOps, ~DestroyBusy
  PROVE  Spec => []AssertInv
<1>1. Init => AssertInv
  BY AssertInit
<1>2. ASSUME AssertInv, [Next]_vars PROVE AssertInv'
  <2>1. NotFailed' /\ AttemptInv'
    BY <1>2, NothingFails, AttemptStep DEF AssertInv
  <2>2. StopRests'
    BY <1>2, StopRestsStep DEF AssertInv, AttemptInv
  <2> QED
    BY <1>2, <2>1, <2>2, ChannelGoneStep, ResetFirstStep, ConnectionOwnedStep, ReleasedStep
    DEF AssertInv
<1>3. AssertInv /\ [Next]_vars => AssertInv'
  BY <1>2
<1> QED
  BY <1>1, <1>3, PTL DEF Spec

(* No assert of Connector.cc or of TcpClient fails, and no functor or      *)
(* Channel outlives the Connector, for a client that calls connect once,   *)
(* calls stop in the loop thread, and is not destroyed with a connection   *)
(* while functors of its Connector are queued.                             *)
THEOREM AssertsHold ==
  ASSUME MaxConnects <= 1, "stop" \notin CallerOps, ~DestroyBusy
  PROVE  Spec => []NoAssertFails
<1>1. ASSUME AssertInv PROVE NoAssertFails
  <2>1. failed = "none" /\ TypeOK /\ Released
    BY <1>1 DEF AssertInv, NotFailed, AttemptInv, SocketInv
  <2> QED
    BY <2>1, BoundQueued DEF Released, NoAssertFails, ConnectorFreed
<1>2. AssertInv => NoAssertFails
  BY <1>1
<1> QED
  BY <1>2, AssertInvariant, PTL

=============================================================================
