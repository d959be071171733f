----------------------------- MODULE Connector -----------------------------
(***************************************************************************)
(* ouge::net::Connector (net/Connector.cc) and the TcpClient that drives   *)
(* it (net/TcpClient.cc): attempts to connect, retries with a growing delay, *)
(* stop, reconnection when a connection is closed, and the destructor.     *)
(*                                                                         *)
(* The loop thread alternates between the events of one poll (pc =         *)
(* "events") and one batch of functors (pc = "functors").  User code calls *)
(* connect, disconnect and stop in the loop thread or in another thread,   *)
(* and destroys the client in the loop thread.  The Connector is held by   *)
(* its client, by retry timers and, once the client is gone, by the timer  *)
(* of removeConnector (keeper); functors bound to it hold raw pointers.    *)
(*                                                                         *)
(* Callbacks take less than kInitRetryDelayMs: a retry timer set in the    *)
(* callbacks of a poll does not expire in that poll, and one set by a      *)
(* functor does not expire in the next poll if that poll finds functors    *)
(* pending and therefore does not block.  Two iterations take less than the *)
(* second of removeConnector, which expires in a poll that blocks.         *)
(***************************************************************************)
EXTENDS Sequences, Naturals

CONSTANTS
  LoopOps, CallerOps,   \* what user code calls in the loop thread, elsewhere
  retry_,               \* TcpClient::enableRetry was called
  kInitRetryDelayMs, kMaxRetryDelayMs,
  DestroyBusy,          \* a client with a connection may be destroyed while
                        \* functors of its Connector are queued
  MaxConnects,          \* bound: calls of connect
  MaxCalls,             \* bound: other calls of user code
  MaxConns              \* bound: connections the server accepts

Ops == {"connect", "disconnect", "stop", "forceClose"}

ASSUME ConnectorAssumption ==
  /\ LoopOps \subseteq Ops \cup {"destroy"} /\ CallerOps \subseteq Ops
  /\ retry_ \in BOOLEAN /\ DestroyBusy \in BOOLEAN
  /\ kInitRetryDelayMs \in Nat \ {0} /\ kMaxRetryDelayMs \in Nat
  /\ kInitRetryDelayMs <= kMaxRetryDelayMs
  /\ MaxConnects \in Nat /\ MaxCalls \in Nat /\ MaxConns \in Nat

VARIABLES
  pc,                   \* "events" or "functors"
  restarting,           \* removeConnection has decided to call restart
  functors, pending,    \* the batch that runs; pendingFunctors_
  revents_,             \* the event reported for channel_, or "none"
  hup,                  \* connections that the poll reported as closed
  ripe,                 \* retry timers old enough to expire in this poll
  connect_, state_, retryDelayMs_,
  channel_,             \* "none", "added", or "removed" and not yet reset
  fds,                  \* open sockets that the Connector has to close or pass on
  timers,               \* retry timers in the TimerQueue
  clientConnect_,       \* TcpClient::connect_
  connection_,          \* TcpClient::connection_: a number, 0 for none
  live,                 \* connections that are not closed
  numConns,             \* nextConnId_ - 1
  client,               \* the TcpClient: "alive" or "destroyed"
  keeper,               \* removeConnector's timer: "none", "set", or "ripe"
                        \* when it expires in this poll
  connects, calls,
  stopped,              \* history: stop was called, and connect not since
  failed                \* the assert that failed, or "none"

loopVars == <<pc, restarting, functors>>
pollVars == <<revents_, hup, ripe>>
attemptVars == <<state_, retryDelayMs_, channel_, fds, timers>>
connVars == <<connection_, live, numConns>>
userVars == <<clientConnect_, client, connects, calls, stopped>>
vars == <<loopVars, pending, pollVars, connect_, attemptVars, connVars,
          userVars, keeper, failed>>

F(fn, conn) == [fn |-> fn, conn |-> conn]

(* A new TcpClient. *)
Init ==
  /\ pc = "events" /\ restarting = FALSE
  /\ functors = <<>> /\ pending = <<>>
  /\ revents_ = "none" /\ hup = {} /\ ripe = 0
  /\ connect_ = FALSE /\ state_ = "kDisconnected"
  /\ retryDelayMs_ = kInitRetryDelayMs
  /\ channel_ = "none" /\ fds = 0 /\ timers = 0
  /\ connection_ = 0 /\ live = {} /\ numConns = 0
  /\ clientConnect_ = TRUE /\ client = "alive" /\ keeper = "none"
  /\ connects = 0 /\ calls = 0 /\ stopped = FALSE
  /\ failed = "none"

NotFailed == failed = "none"
Idle == NotFailed /\ ~restarting
InEvents == Idle /\ pc = "events"

-----------------------------------------------------------------------------
(***************************************************************************)
(* Connector's methods in the loop thread.  want and state are connect_    *)
(* and state_ at the call, delay is retryDelayMs_, n is timers, and open   *)
(* is fds.                                                                 *)
(***************************************************************************)

doubled(delay) ==
  IF 2 * delay < kMaxRetryDelayMs THEN 2 * delay ELSE kMaxRetryDelayMs

retryLeavesOpen(want, delay, n, open) ==
  /\ fds' = open
  /\ state_' = "kDisconnected"
  /\ timers' = IF want THEN n + 1 ELSE n
  /\ retryDelayMs_' = IF want THEN doubled(delay) ELSE delay

(* retry closes the socket of the attempt. *)
retry(want, delay, n, open) ==
  /\ fds' = open - 1
  /\ state_' = "kDisconnected"
  /\ timers' = IF want THEN n + 1 ELSE n
  /\ retryDelayMs_' = IF want THEN doubled(delay) ELSE delay

connecting(delay, n, open) ==
  /\ fds' = open
  /\ state_' = "kConnecting"
  /\ IF channel_ = "none"
     THEN channel_' = "added" /\ UNCHANGED failed
     ELSE failed' = "connecting" /\ UNCHANGED channel_
  /\ retryDelayMs_' = delay /\ timers' = n

(* A socket is opened, and connect(2) is under way; or fails and is        *)
(* retried; or fails for good, and the socket is closed.                   *)
connect(want, delay, n) ==
  \/ connecting(delay, n, fds + 1)
  \/ retry(want, delay, n, fds + 1) /\ UNCHANGED <<channel_, failed>>
  \/ /\ state_' = "kDisconnected" /\ retryDelayMs_' = delay /\ timers' = n
     /\ fds' = (fds + 1) - 1
     /\ UNCHANGED <<channel_, failed>>

startInLoop(state, want, delay, n) ==
  IF state = "kDisconnected" /\ want
  THEN connect(want, delay, n)
  ELSE /\ failed' = IF state = "kDisconnected" THEN failed ELSE "startInLoop"
       /\ state_' = state /\ retryDelayMs_' = delay /\ timers' = n
       /\ UNCHANGED <<channel_, fds>>

(* removeAndResetChannel leaves the socket open, to its caller. *)
removeAndResetChannel ==
  /\ channel_' = "removed"
  /\ pending' = Append(pending, F("resetChannel", 0))

-----------------------------------------------------------------------------
(***************************************************************************)
(* Calls of user code.                                                     *)
(***************************************************************************)

MayCall(op) ==
  /\ NotFailed /\ client = "alive"
  /\ \/ op \in LoopOps /\ ~restarting
     \/ op \in CallerOps

CountsCall ==
  /\ calls < MaxCalls
  /\ calls' = calls + 1
  /\ UNCHANGED <<connects, client, keeper>>

WantsConnection ==
  /\ client = "alive"
  /\ connects < MaxConnects
  /\ connects' = connects + 1
  /\ clientConnect_' = TRUE /\ connect_' = TRUE /\ stopped' = FALSE
  /\ UNCHANGED <<calls, client, keeper>>

(* TcpClient::connect: in the loop thread startInLoop runs on the spot. *)
Connect ==
  /\ Idle /\ "connect" \in LoopOps
  /\ WantsConnection
  /\ startInLoop(state_, TRUE, retryDelayMs_, timers)
  /\ UNCHANGED <<loopVars, pending, pollVars, connVars>>

CallerConnect ==
  /\ NotFailed /\ "connect" \in CallerOps
  /\ WantsConnection
  /\ pending' = Append(pending, F("startInLoop", 0))
  /\ UNCHANGED <<loopVars, pollVars, attemptVars, connVars, failed>>

StopFlagOnly ==
  /\ MayCall("stop") /\ CountsCall
  /\ clientConnect_' = FALSE /\ connect_' = FALSE /\ stopped' = TRUE
  /\ UNCHANGED <<loopVars, pending, pollVars, attemptVars, connVars, failed>>

(* TcpClient::stop queues stopInLoop in the loop thread too. *)
Stop ==
  /\ MayCall("stop") /\ CountsCall
  /\ clientConnect_' = FALSE /\ connect_' = FALSE /\ stopped' = TRUE
  /\ pending' = Append(pending, F("stopInLoop", 0))
  /\ UNCHANGED <<loopVars, pollVars, attemptVars, connVars, failed>>

(* TcpClient::disconnect.  The peer answers the shutdown of the connection *)
(* by closing it, or does not: see Poll.                                   *)
Disconnect ==
  /\ MayCall("disconnect") /\ CountsCall
  /\ clientConnect_' = FALSE
  /\ UNCHANGED <<loopVars, pending, pollVars, connect_, attemptVars, connVars,
                 stopped, failed>>

(* TcpConnection::forceClose of the client's connection. *)
ForceClose ==
  /\ MayCall("forceClose") /\ CountsCall
  /\ connection_ # 0
  /\ pending' = Append(pending, F("forceCloseInLoop", connection_))
  /\ UNCHANGED <<loopVars, pollVars, connect_, attemptVars, connVars,
                 clientConnect_, stopped, failed>>

(* Functors with a raw pointer to the Connector are queued. *)
ConnectorQueued ==
  \E q \in {functors, pending} : \E i \in 1..Len(q) : q[i].fn # "forceCloseInLoop"

(* TcpClient::~TcpClient with a connection: its close callback no longer   *)
(* leads to the client, and it is closed unless someone else holds it.     *)
DestructConnected ==
  /\ connection_ # 0
  /\ DestroyBusy \/ ~ConnectorQueued
  /\ connection_' = 0
  /\ pending' \in {pending, Append(pending, F("forceCloseInLoop", connection_))}
  /\ UNCHANGED <<connect_, stopped, keeper>>

(* Without one: stop, and a timer that holds the Connector for a second. *)
DestructUnconnected ==
  /\ connection_ = 0
  /\ connect_' = FALSE /\ stopped' = TRUE
  /\ pending' = Append(pending, F("stopInLoop", 0))
  /\ keeper' = "set"
  /\ UNCHANGED connection_

Destruct ==
  /\ Idle /\ "destroy" \in LoopOps /\ client = "alive"
  /\ client' = "destroyed"
  /\ DestructConnected \/ DestructUnconnected
  /\ UNCHANGED <<loopVars, pollVars, attemptVars, live, numConns, clientConnect_,
                 connects, calls, failed>>

-----------------------------------------------------------------------------
(***************************************************************************)
(* The loop thread.                                                        *)
(***************************************************************************)

Poll ==
  /\ Idle /\ pc = "functors" /\ functors = <<>>
  /\ pc' = "events"
  /\ revents_' \in {"none"} \cup (IF channel_ = "added" THEN {"out", "err"} ELSE {})
  /\ hup' \in SUBSET live
  /\ ripe' = IF pending = <<>> THEN timers ELSE ripe
  /\ keeper' = IF keeper = "set" /\ pending = <<>> THEN "ripe" ELSE keeper
  /\ UNCHANGED <<restarting, functors, pending, connect_, attemptVars, connVars,
                 userVars, failed>>

(* handleWrite when the attempt failed or reached itself, and handleError. *)
(* Both may be called for one event: the second finds kDisconnected.       *)
HandleFailure ==
  /\ InEvents /\ revents_ # "none"
  /\ revents_' = "none"
  /\ IF state_ = "kConnecting"
     THEN /\ removeAndResetChannel
          /\ retry(connect_, retryDelayMs_, timers, fds)
          /\ UNCHANGED failed
     ELSE /\ failed' = IF state_ = "kDisconnected" THEN failed ELSE "handleWrite"
          /\ UNCHANGED <<pending, attemptVars>>
  /\ UNCHANGED <<loopVars, hup, ripe, connect_, connVars, userVars, keeper>>

(* TcpClient::newConnection takes the socket. *)
newConnection ==
  /\ fds' = fds - 1
  /\ numConns' = numConns + 1 /\ connection_' = numConns'
  /\ live' = live \cup {numConns'}

HandOverAnyway ==
  /\ InEvents /\ revents_ = "out" /\ state_ = "kConnecting"
  /\ numConns < MaxConns
  /\ revents_' = "none"
  /\ removeAndResetChannel
  /\ state_' = "kConnected"
  /\ newConnection
  /\ UNCHANGED <<loopVars, hup, ripe, connect_, retryDelayMs_, timers, userVars, keeper,
                 failed>>

(* handleWrite when the attempt succeeded: newConnection takes the socket, *)
(* or it is closed, if stop was called meanwhile.                          *)
HandleSuccess ==
  /\ InEvents /\ revents_ = "out" /\ state_ = "kConnecting"
  /\ numConns < MaxConns
  /\ revents_' = "none"
  /\ removeAndResetChannel
  /\ state_' = "kConnected"
  /\ IF connect_ THEN newConnection ELSE fds' = fds - 1 /\ UNCHANGED connVars
  /\ UNCHANGED <<loopVars, hup, ripe, connect_, retryDelayMs_, timers, userVars, keeper,
                 failed>>

RetryTimerRepeats ==
  /\ InEvents /\ ripe > 0
  /\ ripe' = ripe - 1
  /\ startInLoop(state_, connect_, retryDelayMs_, timers)
  /\ UNCHANGED <<loopVars, pending, revents_, hup, connect_, connVars, userVars,
                 keeper>>

(* A retry timer expires and runs startInLoop. *)
RetryTimer ==
  /\ InEvents /\ ripe > 0
  /\ ripe' = ripe - 1
  /\ startInLoop(state_, connect_, retryDelayMs_, timers - 1)
  /\ UNCHANGED <<loopVars, pending, revents_, hup, connect_, connVars, userVars,
                 keeper>>

(* removeConnector's timer expires and lets go of the Connector. *)
KeeperExpires ==
  /\ InEvents /\ keeper = "ripe"
  /\ keeper' = "none"
  /\ UNCHANGED <<loopVars, pending, pollVars, connect_, attemptVars, connVars,
                 userVars, failed>>

(* TcpClient::removeConnection, up to its test of retry_ and connect_; or  *)
(* detail::removeConnection, after the client's destructor.                *)
(* connectDestroyed, which it queues, belongs to module TcpConnection.     *)
removeConnection(conn) ==
  /\ live' = live \ {conn}
  /\ IF client = "destroyed" \/ connection_ = conn
     THEN /\ connection_' = 0
          /\ restarting' = (client = "alive" /\ retry_ /\ clientConnect_)
          /\ UNCHANGED failed
     ELSE failed' = "removeConnection" /\ UNCHANGED <<connection_, restarting>>
  /\ UNCHANGED numConns

(* The peer closed a connection. *)
ConnectionCloses ==
  /\ InEvents
  /\ \E conn \in hup : hup' = hup \ {conn} /\ removeConnection(conn)
  /\ UNCHANGED <<pc, functors, pending, revents_, ripe, connect_, attemptVars,
                 userVars, keeper>>

RestartInPlace ==
  /\ NotFailed /\ restarting
  /\ restarting' = FALSE
  /\ connect_' = TRUE
  /\ startInLoop(state_, TRUE, kInitRetryDelayMs, timers)
  /\ UNCHANGED <<pc, functors, pending, pollVars, connVars, userVars, keeper>>

(* The rest of removeConnection: restart. *)
Restart ==
  /\ NotFailed /\ restarting
  /\ restarting' = FALSE
  /\ connect_' = TRUE
  /\ startInLoop("kDisconnected", TRUE, kInitRetryDelayMs, timers)
  /\ UNCHANGED <<pc, functors, pending, pollVars, connVars, userVars, keeper>>

(* The loop has handled what the poll reported; a timer that is left has   *)
(* not expired yet.                                                        *)
SwapPendingFunctors ==
  /\ InEvents /\ revents_ = "none" /\ hup = {}
  /\ pc' = "functors"
  /\ functors' = pending /\ pending' = <<>>
  /\ ripe' = timers
  /\ UNCHANGED <<restarting, revents_, hup, connect_, attemptVars, connVars,
                 userVars, keeper, failed>>

RunFunctor(fn) ==
  /\ Idle /\ pc = "functors"
  /\ functors # <<>> /\ Head(functors).fn = fn
  /\ functors' = Tail(functors)
  /\ UNCHANGED <<pc, pollVars, connect_, userVars, keeper>>

RunStartInLoop ==
  /\ RunFunctor("startInLoop")
  /\ startInLoop(state_, connect_, retryDelayMs_, timers)
  /\ UNCHANGED <<restarting, pending, connVars>>

RunStopInLoop ==
  /\ RunFunctor("stopInLoop")
  /\ IF state_ = "kConnecting"
     THEN removeAndResetChannel /\ retry(connect_, retryDelayMs_, timers, fds)
     ELSE UNCHANGED <<pending, attemptVars>>
  /\ UNCHANGED <<restarting, connVars, failed>>

RunResetChannel ==
  /\ RunFunctor("resetChannel")
  /\ channel_' = "none"
  /\ UNCHANGED <<restarting, pending, state_, retryDelayMs_, fds, timers,
                 connVars, failed>>

(* TcpConnection::forceCloseInLoop: nothing if the connection is closed. *)
RunForceClose ==
  /\ RunFunctor("forceCloseInLoop")
  /\ LET conn == Head(functors).conn IN
       IF conn \in live
       THEN removeConnection(conn)
       ELSE UNCHANGED <<restarting, connVars, failed>>
  /\ UNCHANGED <<pending, attemptVars>>

LoopStep ==
  \/ Poll \/ HandleFailure \/ HandleSuccess \/ ConnectionCloses \/ Restart
  \/ SwapPendingFunctors
  \/ RunStartInLoop \/ RunStopInLoop \/ RunResetChannel \/ RunForceClose
  \/ KeeperExpires

UserStep ==
  Connect \/ CallerConnect \/ Stop \/ Disconnect \/ ForceClose \/ Destruct

Next == LoopStep \/ RetryTimer \/ UserStep

Spec == Init /\ [][Next]_vars

(* The loop thread keeps running.  A timer expires after enough polls.     *)
FairSpec ==
  Spec /\ WF_vars(LoopStep) /\ SF_vars(RetryTimer) /\ SF_vars(KeeperExpires)

-----------------------------------------------------------------------------
Functors == [fn : {"startInLoop", "stopInLoop", "resetChannel",
                   "forceCloseInLoop"}, conn : 0..MaxConns]

(* The types of the variables; the delay stays between kInitRetryDelayMs   *)
(* and kMaxRetryDelayMs whatever the number of failed attempts.            *)
TypeOK ==
  /\ pc \in {"events", "functors"} /\ restarting \in BOOLEAN
  /\ functors \in Seq(Functors) /\ pending \in Seq(Functors)
  /\ revents_ \in {"none", "out", "err"}
  /\ hup \subseteq 1..MaxConns /\ ripe \in Nat
  /\ connect_ \in BOOLEAN
  /\ state_ \in {"kDisconnected", "kConnecting", "kConnected"}
  /\ retryDelayMs_ \in kInitRetryDelayMs..kMaxRetryDelayMs
  /\ channel_ \in {"none", "added", "removed"}
  /\ fds \in Nat /\ timers \in Nat
  /\ connection_ \in 0..MaxConns /\ live \subseteq 1..MaxConns
  /\ numConns \in 0..MaxConns
  /\ clientConnect_ \in BOOLEAN /\ stopped \in BOOLEAN
  /\ client \in {"alive", "destroyed"} /\ keeper \in {"none", "set", "ripe"}
  /\ connects \in 0..MaxConnects /\ calls \in 0..MaxCalls
  /\ failed \in {"none", "connecting", "startInLoop", "handleWrite",
                 "removeConnection"}

ConnectorFreed == client = "destroyed" /\ keeper = "none" /\ timers = 0

(* No assert of Connector.cc or of TcpClient::removeConnection fails: an   *)
(* attempt starts only when none is under way and the Channel of the last  *)
(* one is gone, and the connection that closes is the client's.  Nor does  *)
(* that of ~Connector, and no functor runs on a freed Connector: when its  *)
(* last reference goes, its Channel is gone and nothing bound to it is     *)
(* queued, wherever the attempt stood when the client was destroyed.       *)
NoAssertFails ==
  /\ failed = "none"
  /\ ConnectorFreed => channel_ = "none" /\ ~ConnectorQueued

One(b) == IF b THEN 1 ELSE 0

(* The client makes one thing at a time: a retry timer, an attempt, or a   *)
(* connection; timers never pile up into parallel attempts, and an attempt *)
(* starts only when the connection before it is closed.                    *)
AtMostOneAttempt ==
  NotFailed => timers + One(channel_ = "added") + One(live # {}) <= 1

(* The socket of an attempt is owned by exactly one place: the Connector   *)
(* holds one if and only if its Channel is registered with the loop, so no *)
(* retry, stop or success leaks a descriptor.                              *)
NoSocketLeaks == NotFailed => fds = One(channel_ = "added")

(* The types, one attempt at a time, and one socket for it: what retries,  *)
(* stops, successes and restarts could break in many steps.                *)
AttemptsConsistent == TypeOK /\ AtMostOneAttempt /\ NoSocketLeaks

StopQueued ==
  \E q \in {functors, pending} : \E i \in 1..Len(q) : q[i].fn = "stopInLoop"

(* A stop that has been carried out holds: the Connector is not connecting *)
(* and will not start, though its retry timer is not cancelled.            *)
StopTakesEffect ==
  stopped /\ ~StopQueued /\ ~restarting
    => ~connect_ /\ state_ # "kConnecting"

(* After stop no new connection is handed to the client, even by an        *)
(* attempt that succeeds between the call and stopInLoop.                  *)
NoConnectionAfterStop == [][stopped => numConns' = numConns]_vars

(* Both: a stop holds from the moment of the call.                         *)
StopHolds == []StopTakesEffect /\ NoConnectionAfterStop

(* After a stop the Connector comes to rest: its Channel is freed and its  *)
(* retry timer is gone, unless user code connects again; and it is freed   *)
(* itself after its client.                                                *)
StopQuiesces ==
  stopped ~> \/ ~stopped
             \/ /\ channel_ = "none" /\ timers = 0 /\ fds = 0
                /\ client = "destroyed" => ConnectorFreed

=============================================================================
