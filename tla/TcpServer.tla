----------------------------- MODULE TcpServer ------------------------------
(***************************************************************************)
(* ouge::net::TcpServer with its Acceptor and its EventLoopThreadPool      *)
(* (net/TcpServer.cc, net/Acceptor.cc), several connections, and the       *)
(* functors that the base loop and the io loops hand to one another.       *)
(*                                                                         *)
(* The base loop and each io loop handle events while they are in poll,    *)
(* take their pending functors as one batch (PollReturns) and run it.      *)
(* start may be called in the base loop's thread or in another one.  The   *)
(* base loop's thread is busy (~BaseFree) while it runs start or the       *)
(* destructor, and acceptPc is its place in handleRead's way out of        *)
(* EMFILE, where other threads may take and close descriptors.             *)
(*                                                                         *)
(* A TcpConnection is reduced to its life: connecting, up, down after      *)
(* handleClose, destroyed after connectDestroyed, freed.  It keeps its     *)
(* descriptor until it is freed.                                           *)
(***************************************************************************)
EXTENDS EventLoopThreadPool, SequencesExt, FiniteSets

CONSTANTS
  MaxClients,     \* clients that come
  FreeFds,        \* descriptors left to the process beside idleFd_
  MaxTaken,       \* descriptors that the rest of the program may hold
  DestroyBusy     \* may a server with threads be destroyed while they work?

ASSUME ServerAssumption ==
  {MaxClients, FreeFds, MaxTaken} \subseteq Nat /\ DestroyBusy \in BOOLEAN

VARIABLES
  exchanged,      \* started_ of the server, which is not initialised
  starter,        \* who runs start: "none", "base", "other", then "done"
  server,         \* "alive", "destructing" or "gone"
  listenning_, idleFd_, acceptPc,
  backlog, arrived, free, taken,
  nextConnId_, connections_,
  conn,           \* the connections, by number: [state, loop]
  pending, batch, \* pendingFunctors_ of each loop, and what is left to run of
                  \* the batch that doPendingFunctors has taken
  functors        \* the connections to which that batch refers

startVars == <<exchanged, starter>>
acceptorVars == <<listenning_, idleFd_, acceptPc, backlog>>
connVars == <<nextConnId_, connections_, conn>>
queueVars == <<pending, batch, functors>>
serverVars == <<startVars, server, acceptorVars, arrived, free, taken, connVars,
                queueVars>>
poolRest == <<numThreads_, started_, loops_, ownerPc, dying, threadPc, loop_, quit_>>
allVars == <<poolVars, serverVars>>

Loops == {Base} \cup Threads
Conns == 1..MaxClients
Gone == [state |-> "none", loop |-> Base]
functor(f, c) == [f |-> f, c |-> c]

Init ==
  /\ PoolInit
  /\ exchanged \in {0, 1} /\ starter = "none" /\ server = "alive"
  /\ listenning_ = FALSE /\ idleFd_ = "open" /\ acceptPc = "none"
  /\ backlog = 0 /\ arrived = 0 /\ free = FreeFds /\ taken = 0
  /\ nextConnId_ = 1 /\ connections_ = {}
  /\ conn = [i \in Conns |-> Gone]
  /\ pending = [l \in Loops |-> <<>>] /\ batch = [l \in Loops |-> <<>>]
  /\ functors = [l \in Loops |-> {}]

BaseFree == starter # "base" /\ server # "destructing" /\ acceptPc = "none"

(* The thread of loop l is handling events. *)
Polls(l) == IF l = Base
            THEN BaseFree /\ batch[Base] = <<>> /\ functors[Base] = {}
            ELSE threadPc[l] = "poll"

queuesSilently(l, fn) ==
  pending' = [pending EXCEPT ![l] = Append(@, fn)] /\ UNCHANGED wakeupFd_

(* queueInLoop: the base loop's poll returns when something is pending. *)
queueInLoop(l, fn) ==
  /\ pending' = [pending EXCEPT ![l] = Append(@, fn)]
  /\ wakeupFd_' = [t \in Threads |-> wakeupFd_[t] \/ t = l]

queues(l, fn) == queueInLoop(l, fn) /\ UNCHANGED failed
-----------------------------------------------------------------------------
(***************************************************************************)
(* TcpServer::start and Acceptor::listen.                                  *)
(***************************************************************************)

Start(who) ==
  /\ server = "alive" /\ starter = "none" /\ exchanged = 0
  /\ who = "base" => BaseFree
  /\ PoolStart
  /\ exchanged' = 1 /\ starter' = who
  /\ UNCHANGED <<server, acceptorVars, arrived, free, taken, connVars, queueVars>>

PoolWorks ==
  /\ OwnerStep \/ SpuriousWakeup
  /\ UNCHANGED serverVars

(* The rest of start, once the pool has been started. *)
StartListening ==
  /\ NotFailed /\ starter \in {"base", "other"} /\ ownerPc = "out"
  /\ starter' = "done"
  /\ IF listenning_
     THEN failed' = "listenning" /\ UNCHANGED <<listenning_, pending>>
     ELSE /\ IF starter = "base"
             THEN listenning_' = TRUE /\ UNCHANGED pending
             ELSE /\ pending' = [pending EXCEPT ![Base] = Append(@, functor("listen", 0))]
                  /\ UNCHANGED listenning_
          /\ UNCHANGED failed
  /\ UNCHANGED <<poolRest, next_, wakeupFd_, exchanged, server, idleFd_, acceptPc,
                 backlog, arrived, free, taken, connVars, batch, functors>>

-----------------------------------------------------------------------------
(***************************************************************************)
(* Acceptor::handleRead.                                                   *)
(***************************************************************************)

ClientArrives ==
  /\ NotFailed /\ listenning_ /\ arrived < MaxClients
  /\ arrived' = arrived + 1 /\ backlog' = backlog + 1
  /\ UNCHANGED <<poolVars, startVars, server, listenning_, idleFd_, acceptPc, free,
                 taken, connVars, queueVars>>

(* newConnection: connectEstablished at once, or in the io loop. *)
newConnection(i, l) ==
  /\ getNextLoop
  /\ nextConnId_' = i + 1
  /\ connections_' = connections_ \cup {i}
  /\ conn' = [conn EXCEPT ![i] = [state |-> IF l = Base THEN "up" ELSE "connecting",
                                  loop |-> l]]
  /\ IF l = Base THEN UNCHANGED <<pending, wakeupFd_, failed>>
                 ELSE queues(l, functor("connectEstablished", i))

Accept ==
  /\ NotFailed /\ Polls(Base) /\ listenning_ /\ backlog > 0 /\ free > 0
  /\ backlog' = backlog - 1 /\ free' = free - 1
  /\ newConnection(nextConnId_, nextLoop)
  /\ UNCHANGED <<poolRest, startVars, server, listenning_, idleFd_, acceptPc,
                 arrived, taken, batch, functors>>

acceptorOnly == UNCHANGED <<poolVars, startVars, server, listenning_, arrived, taken,
                            connVars, queueVars>>

keepsReserve ==
  /\ acceptPc' = "none"
  /\ UNCHANGED <<idleFd_, free>>

(* ::close(idleFd_) of a reserve that is open. *)
givesUpReserve ==
  /\ acceptPc' = "accept"
  /\ idleFd_' = "closed"
  /\ free' = IF idleFd_ = "open" THEN free + 1 ELSE free

(* accept fails with EMFILE. *)
AcceptFails ==
  /\ NotFailed /\ Polls(Base) /\ listenning_ /\ backlog > 0 /\ free = 0
  /\ givesUpReserve
  /\ UNCHANGED backlog /\ acceptorOnly

(* idleFd_ = ::accept. *)
AcceptOnReserve ==
  /\ NotFailed /\ acceptPc = "accept"
  /\ acceptPc' = "close"
  /\ IF free > 0 /\ backlog > 0
     THEN idleFd_' = "client" /\ free' = free - 1 /\ backlog' = backlog - 1
     ELSE idleFd_' = "lost" /\ UNCHANGED <<free, backlog>>
  /\ acceptorOnly

closesNothing == UNCHANGED free
closesClient == free' = IF idleFd_ = "client" THEN free + 1 ELSE free

CloseClient ==
  /\ NotFailed /\ acceptPc = "close"
  /\ acceptPc' = "open" /\ idleFd_' = "closed"
  /\ closesClient
  /\ UNCHANGED backlog /\ acceptorOnly

(* idleFd_ = ::open("/dev/null"). *)
ReopenReserve ==
  /\ NotFailed /\ acceptPc = "open"
  /\ acceptPc' = "none"
  /\ idleFd_' = IF free > 0 THEN "open" ELSE "lost"
  /\ free' = IF free > 0 THEN free - 1 ELSE free
  /\ UNCHANGED backlog /\ acceptorOnly

(* The rest of the program: the base loop's thread between its handlers,   *)
(* and, if the server has threads, other threads at any time.              *)
OthersMay == NotFailed /\ (acceptPc = "none" \/ numThreads_ > 0)

OtherOpens ==
  /\ OthersMay /\ taken < MaxTaken /\ free > 0
  /\ taken' = taken + 1 /\ free' = free - 1
  /\ UNCHANGED <<poolVars, startVars, server, acceptorVars, arrived, connVars, queueVars>>

OtherCloses ==
  /\ OthersMay /\ taken > 0
  /\ taken' = taken - 1 /\ free' = free + 1
  /\ UNCHANGED <<poolVars, startVars, server, acceptorVars, arrived, connVars, queueVars>>

-----------------------------------------------------------------------------
(***************************************************************************)
(* Connections close, are removed and destroyed.                           *)
(***************************************************************************)

removesWithoutErase(i) ==
  /\ queues(conn[i].loop, functor("connectDestroyed", i))
  /\ UNCHANGED connections_

removeConnectionInLoop(i) ==
  IF server # "alive" \/ i \notin connections_
  THEN /\ failed' = IF server = "alive" THEN "erase" ELSE "serverGone"
       /\ UNCHANGED <<connections_, pending, wakeupFd_>>
  ELSE /\ connections_' = connections_ \ {i}
       /\ queues(conn[i].loop, functor("connectDestroyed", i))

(* closeCallback_. *)
removeConnection(i) ==
  IF conn[i].loop = Base
  THEN removeConnectionInLoop(i)
  ELSE /\ IF server = "gone"
          THEN failed' = "serverGone" /\ UNCHANGED <<pending, wakeupFd_>>
          ELSE queues(Base, functor("removeConnectionInLoop", i))
       /\ UNCHANGED connections_

staysConnected(i) == UNCHANGED conn
setsDisconnected(i) == conn' = [conn EXCEPT ![i].state = "down"]

(* TcpConnection::handleClose, from an event or from forceClose. *)
ConnectionCloses(i) ==
  /\ NotFailed /\ conn[i].state = "up" /\ Polls(conn[i].loop)
  /\ setsDisconnected(i)
  /\ removeConnection(i)
  /\ UNCHANGED <<poolRest, next_, startVars, server, acceptorVars, arrived, free,
                 taken, nextConnId_, batch, functors>>

mentioned(q) == {q[k].c : k \in DOMAIN q} \cap Conns

(* The connections to which a map, pending functors or batches refer. *)
referenced(cs, p, fs) == cs \cup UNION {mentioned(p[l]) \cup fs[l] : l \in Loops}

(* The last references to cs are dropped, with the asserts of              *)
(* ~TcpConnection and ~Channel: connectDestroyed must have run.            *)
frees(cs) ==
  IF \E i \in cs : conn[i].state # "destroyed"
  THEN failed' = "destructor" /\ UNCHANGED <<conn, free>>
  ELSE /\ conn' = [i \in Conns |-> IF i \in cs THEN [conn[i] EXCEPT !.state = "freed"]
                                   ELSE conn[i]]
       /\ free' = free + Cardinality(cs)
       /\ UNCHANGED failed

-----------------------------------------------------------------------------
(***************************************************************************)
(* The loops.                                                              *)
(***************************************************************************)

takesPending(l) ==
  /\ batch' = [batch EXCEPT ![l] = pending[l]]
  /\ functors' = [functors EXCEPT ![l] = mentioned(pending[l])]
  /\ pending' = [pending EXCEPT ![l] = <<>>]

BasePollReturns ==
  /\ NotFailed /\ Polls(Base) /\ pending[Base] # <<>>
  /\ takesPending(Base)
  /\ UNCHANGED <<poolVars, startVars, server, acceptorVars, arrived, free, taken, connVars>>

IoPollReturns(t) ==
  /\ PollReturns(t) /\ takesPending(t)
  /\ UNCHANGED <<startVars, server, acceptorVars, arrived, free, taken, connVars>>

RunListen ==
  /\ IF server = "gone"
     THEN failed' = "acceptorGone" /\ UNCHANGED listenning_
     ELSE listenning_' = TRUE /\ UNCHANGED failed
  /\ UNCHANGED <<conn, connections_, pending, wakeupFd_>>

RunConnectEstablished(i) ==
  /\ IF conn[i].state # "connecting"
     THEN failed' = "connectEstablished" /\ UNCHANGED conn
     ELSE conn' = [conn EXCEPT ![i].state = "up"] /\ UNCHANGED failed
  /\ UNCHANGED <<listenning_, connections_, pending, wakeupFd_>>

RunConnectDestroyed(i) ==
  /\ IF conn[i].state \notin {"up", "down"}
     THEN failed' = "remove" /\ UNCHANGED conn
     ELSE conn' = [conn EXCEPT ![i].state = "destroyed"] /\ UNCHANGED failed
  /\ UNCHANGED <<listenning_, connections_, pending, wakeupFd_>>

RunRemoveConnectionInLoop(i) ==
  /\ removeConnectionInLoop(i)
  /\ UNCHANGED <<listenning_, conn>>

RunFunctor(l) ==
  /\ NotFailed
  /\ l = Base => BaseFree
  /\ batch[l] # <<>>
  /\ LET fn == Head(batch[l]) IN
     \/ fn.f = "listen" /\ RunListen
     \/ fn.f = "connectEstablished" /\ RunConnectEstablished(fn.c)
     \/ fn.f = "removeConnectionInLoop" /\ RunRemoveConnectionInLoop(fn.c)
     \/ fn.f = "connectDestroyed" /\ RunConnectDestroyed(fn.c)
  /\ batch' = [batch EXCEPT ![l] = Tail(@)]
  /\ UNCHANGED <<poolRest, next_, startVars, server, idleFd_, acceptPc, backlog,
                 arrived, free, taken, nextConnId_, functors>>

(* doPendingFunctors returns and destroys its functors. *)
dropsFunctors(l) ==
  /\ batch[l] = <<>>
  /\ functors' = [functors EXCEPT ![l] = {}]
  /\ frees(functors[l] \ referenced(connections_, pending, functors'))

BaseFunctorsDone ==
  /\ NotFailed /\ BaseFree /\ functors[Base] # {}
  /\ dropsFunctors(Base)
  /\ UNCHANGED <<poolRest, next_, wakeupFd_, startVars, server, acceptorVars, arrived,
                 taken, nextConnId_, connections_, pending, batch>>

IoFunctorsDone(t) ==
  /\ FunctorsDone(t) /\ dropsFunctors(t)
  /\ UNCHANGED <<startVars, server, acceptorVars, arrived, taken, nextConnId_,
                 connections_, pending, batch>>

IoThreadSteps(t) == ThreadStep(t) /\ UNCHANGED serverVars

(* The functors that came after the last batch are dropped, not run. *)
IoLoopEnds(t) ==
  /\ LeaveThread(t)
  /\ pending' = [pending EXCEPT ![t] = <<>>]
  /\ frees(mentioned(pending[t]) \ referenced(connections_, pending', functors))
  /\ UNCHANGED <<startVars, server, acceptorVars, arrived, taken, nextConnId_,
                 connections_, batch, functors>>

-----------------------------------------------------------------------------
(***************************************************************************)
(* ~TcpServer.                                                             *)
(***************************************************************************)

(* When a program may destroy its server: not while start is under way     *)
(* or listen is pending, which is bound to the Acceptor's address.  With   *)
(* threads, unless DestroyBusy, only when every connection is gone and the *)
(* io loops rest: otherwise functors come after their loop has ended or    *)
(* after the server.                                                       *)
MayDestroy ==
  /\ starter \in {"none", "done"}
  /\ functor("listen", 0) \notin ToSet(pending[Base]) \cup ToSet(batch[Base])
  /\ numThreads_ > 0 /\ ~DestroyBusy =>
       /\ \A i \in Conns : conn[i].state \in {"none", "freed"}
       /\ \A t \in ToSet(loops_) : threadPc[t] = "poll" /\ ~wakeupFd_[t]

(* connectDestroyed of every connection in the map, on the spot or queued, *)
(* then the destructor of the pool begins.                                 *)
Destruct ==
  /\ BaseFree /\ server = "alive" /\ MayDestroy
  /\ PoolDestroy
  /\ server' = "destructing"
  /\ connections_' = {}
  /\ LET direct == {i \in connections_ : conn[i].loop = Base}
         dropped == direct \ referenced({}, pending, functors)
         later(t) == {i \in connections_ : conn[i].loop = t}
     IN /\ conn' = [i \in Conns |->
              IF i \in dropped THEN [conn[i] EXCEPT !.state = "freed"]
              ELSE IF i \in direct THEN [conn[i] EXCEPT !.state = "destroyed"]
              ELSE conn[i]]
        /\ free' = free + Cardinality(dropped)
        /\ pending' = [l \in Loops |->
              IF l = Base THEN pending[l]
              ELSE pending[l] \o SetToSeq({functor("connectDestroyed", i) : i \in later(l)})]
  /\ UNCHANGED <<startVars, acceptorVars, arrived, taken, nextConnId_, batch, functors>>

(* ~Acceptor, after the pool. *)
AcceptorGone ==
  /\ NotFailed /\ server = "destructing" /\ ownerPc = "gone"
  /\ server' = "gone"
  /\ listenning_' = FALSE /\ backlog' = 0 /\ idleFd_' = "closed"
  /\ free' = IF idleFd_ = "open" THEN free + 1 ELSE free
  /\ UNCHANGED <<poolVars, startVars, acceptPc, arrived, taken, connVars, queueVars>>

-----------------------------------------------------------------------------
HandleEmfile == AcceptOnReserve \/ CloseClient \/ ReopenReserve
BaseStep == HandleEmfile \/ RunFunctor(Base) \/ BaseFunctorsDone \/ AcceptorGone
IoStep(t) == IoThreadSteps(t) \/ RunFunctor(t) \/ IoFunctorsDone(t) \/ IoLoopEnds(t)
ToAccept == Accept \/ AcceptFails

Next ==
  \/ \E who \in {"base", "other"} : Start(who)
  \/ PoolWorks \/ StartListening \/ ToAccept \/ BaseStep \/ BasePollReturns \/ Destruct
  \/ \E t \in Threads : IoStep(t) \/ IoPollReturns(t)
  \/ \E i \in Conns : ConnectionCloses(i)
  \/ ClientArrives \/ OtherOpens \/ OtherCloses

Spec == Init /\ [][Next]_allVars

(***************************************************************************)
(* Every thread is scheduled.  The base loop comes both to its ready       *)
(* channels and to its functors in every iteration, while other steps come *)
(* in between (strong fairness); an io loop comes back from poll when it   *)
(* was woken up.  Nothing is assumed of clients and of the rest of the     *)
(* program, and nobody has to call start or to destroy the server.         *)
(***************************************************************************)
FairSpec ==
  /\ Spec
  /\ WF_allVars(OwnerStep /\ UNCHANGED serverVars) /\ WF_allVars(StartListening)
  /\ WF_allVars(BaseStep)
  /\ SF_allVars(BasePollReturns) /\ SF_allVars(ToAccept)
  /\ \A t \in Threads : WF_allVars(IoStep(t) \/ (wakeupFd_[t] /\ IoPollReturns(t)))

-----------------------------------------------------------------------------
State == {"none", "connecting", "up", "down", "destroyed", "freed"}

TypeOK ==
  /\ PoolTypeOK
  /\ exchanged \in {0, 1} /\ starter \in {"none", "base", "other", "done"}
  /\ server \in {"alive", "destructing", "gone"}
  /\ listenning_ \in BOOLEAN /\ acceptPc \in {"none", "accept", "close", "open"}
  /\ idleFd_ \in {"open", "closed", "client", "lost"}
  /\ backlog \in 0..arrived /\ arrived \in 0..MaxClients
  /\ free \in Nat /\ taken \in 0..MaxTaken
  /\ nextConnId_ \in 1..(MaxClients + 1)
  /\ connections_ \subseteq 1..(nextConnId_ - 1)
  /\ conn \in [Conns -> [state : State, loop : Loops]]
  /\ DOMAIN pending = Loops /\ DOMAIN batch = Loops
  /\ functors \in [Loops -> SUBSET Conns]

(* The asserts of TcpServer, TcpConnection and their destructors hold, and *)
(* neither the server nor its acceptor is used after it is gone: each      *)
(* connection is established once, erased once and destroyed once, in that *)
(* order, although the three run in two loops.  What startLoop and quit do *)
(* to a loop that is not there is a matter of the pool.                    *)
NoAssertFails == failed \in {"none", "nullLoop", "deadLoop"}

(* net/TcpServer.h:52-53: "new connections are assigned on a round-robin   *)
(* basis", whatever has closed meanwhile: the loops' shares of all         *)
(* connections so far differ by one at most.                               *)
share(l) == Cardinality({i \in 1..(nextConnId_ - 1) : conn[i].loop = l})
RoundRobin ==
  IF loops_ = <<>> THEN share(Base) = nextConnId_ - 1
  ELSE \A l, m \in ToSet(loops_) : share(l) - share(m) <= 1

(* The map and the life of each connection agree: one that is up or on its *)
(* way up is in the map; one that is down but still in the map has exactly *)
(* one call of removeConnectionInLoop on its way, and one that has left    *)
(* the map without having been destroyed, one of connectDestroyed.         *)
work(l) == batch[l] \o pending[l]       \* what l has still to run, in order
calls(f, i) == {p \in UNION {{l} \X DOMAIN work(l) : l \in Loops} :
                  work(p[1])[p[2]] = functor(f, i)}
MapFollowsConnections ==
  NotFailed /\ server = "alive" =>
    \A i \in Conns :
      /\ conn[i].state \in {"connecting", "up"} => i \in connections_
      /\ Cardinality(calls("removeConnectionInLoop", i)) =
           IF conn[i].state = "down" /\ i \in connections_ THEN 1 ELSE 0
      /\ Cardinality(calls("connectDestroyed", i)) =
           IF conn[i].state = "down" /\ i \notin connections_ THEN 1 ELSE 0

(* Each connection and its place in the map go through the life that       *)
(* TcpConnection.tla shows of one connection in every detail.              *)
Life(i) == INSTANCE ConnectionLifecycle WITH life <- conn[i].state,
                                             held <- i \in connections_
ConnectionsImplementLifecycle ==
  /\ \A i \in Conns : Life(i)!Init
  /\ [][\A i \in Conns : [Life(i)!Next]_(Life(i)!lifeVars)]_allVars

(* All of it, and the loops of the pool.                                   *)
ServerConsistent == TypeOK /\ LoopsExist /\ NoAssertFails /\ MapFollowsConnections

(* No descriptor is lost or counted twice by the detour over the reserve,  *)
(* whatever other threads open and close meanwhile, or by the two ways a   *)
(* connection is freed.                                                    *)
DescriptorsConserved ==
  NotFailed =>
    free + taken + Cardinality({i \in Conns : conn[i].state \notin {"none", "freed"}})
      + (IF idleFd_ \in {"open", "client"} THEN 1 ELSE 0) = FreeFds + 1

(* Without threads nobody can take the descriptor that handleRead gives up *)
(* for a moment: the reserve is there again when it returns.               *)
ReserveKept ==
  numThreads_ = 0 /\ acceptPc = "none" /\ server = "alive" => idleFd_ = "open"

(* Both: EMFILE costs the client its connection and nothing else.          *)
DescriptorsKept == DescriptorsConserved /\ ReserveKept

(* net/TcpServer.h:61: start makes the server listen, from any thread,     *)
(* unless startLoop crashes, once it finds started_ to be 0.               *)
StartMakesListen ==
  starter \in {"base", "other"} ~> listenning_ \/ server # "alive" \/ ~NotFailed

(* A client in the queue of the listening socket is accepted, or accepted  *)
(* and closed when descriptors run out, as long as the reserve is there.   *)
BacklogServed ==
  listenning_ /\ backlog > 0 ~> backlog = 0 \/ idleFd_ = "lost" \/ ~NotFailed

(* A connection that closes is freed, after the steps in two loops that    *)
(* erase and destroy it.                                                   *)
ClosedConnectionsFreed ==
  \A i \in Conns : conn[i].state = "down" ~> conn[i].state = "freed" \/ ~NotFailed

(* The destructor comes back: quit ends each io loop, so that it can be    *)
(* joined, also one whose loop is just going to sleep.                     *)
DestructorReturns == server = "destructing" ~> server = "gone" \/ ~NotFailed

(* The two calls that wait for io threads.                                 *)
StartAndDestructorReturn == StartMakesListen /\ DestructorReturns

=============================================================================
