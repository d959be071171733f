-------------------------- MODULE TcpServerProofs ---------------------------
(***************************************************************************)
(* What TcpServer with its Acceptor and its EventLoopThreadPool guarantees *)
(* for any number of threads, clients and descriptors:                     *)
(*   - the loops that the pool hands out exist, and connections are dealt  *)
(*     out to them evenly;                                                 *)
(*   - no descriptor is lost by the detour over the reserve or by the two  *)
(*     ways a connection is freed;                                         *)
(*   - each connection is established, erased and destroyed once and in    *)
(*     this order, across two loops, if the server is not destroyed while  *)
(*     they work.                                                          *)
(***************************************************************************)
EXTENDS TcpServer, FiniteSetTheorems, TLAPS

-----------------------------------------------------------------------------
(***************************************************************************)
(* The steps.                                                              *)
(***************************************************************************)

(* A step of the pool's owner or of an io thread in which the server has   *)
(* no part.                                                                *)
PoolOnly ==
  /\ OwnerStep \/ SpuriousWakeup \/ \E t \in Threads : ThreadStep(t)
  /\ UNCHANGED serverVars

(* The steps of a server, one case for each operation, for proofs that go  *)
(* through them.                                                           *)
LEMMA StepCases ==
  ASSUME Next, NEW G,
         \A who \in {"base", "other"} : Start(who) => G,
         PoolOnly => G, StartListening => G, Accept => G, AcceptFails => G,
         AcceptOnReserve => G, CloseClient => G, ReopenReserve => G,
         \A l \in Loops : RunFunctor(l) => G,
         BaseFunctorsDone => G, AcceptorGone => G, BasePollReturns => G,
         Destruct => G,
         \A t \in Threads : IoFunctorsDone(t) => G,
         \A t \in Threads : IoLoopEnds(t) => G,
         \A t \in Threads : IoPollReturns(t) => G,
         \A i \in Conns : ConnectionCloses(i) => G,
         ClientArrives => G, OtherOpens => G, OtherCloses => G
  PROVE  G
<1>1. PoolWorks => PoolOnly
  BY DEF PoolWorks, PoolOnly
<1>2. \A t \in Threads : IoThreadSteps(t) => PoolOnly
  BY DEF IoThreadSteps, PoolOnly
<1>3. Base \in Loops /\ \A t \in Threads : t \in Loops
  BY DEF Loops
<1>4. ToAccept => G
  BY DEF ToAccept
<1>5. BaseStep => G
  BY <1>3 DEF BaseStep, HandleEmfile
<1>6. \A t \in Threads : IoStep(t) => G
  BY <1>2, <1>3 DEF IoStep
<1> QED
  BY <1>1, <1>4, <1>5, <1>6 DEF Next

-----------------------------------------------------------------------------
(***************************************************************************)
(* The pool.                                                               *)
(***************************************************************************)

Running == {"enter", "check", "poll", "functors"}
Starting == {"startLoop", "wait", "asleep"}
Quitting == {"quit", "wakeup", "join"}

(* The types of the pool, next_ and wakeupFd_ apart. *)
PoolTyped ==
  /\ numThreads_ \in ThreadNums /\ started_ \in BOOLEAN
  /\ loops_ \in Seq(Threads)
  /\ Len(loops_) <= numThreads_ /\ \A i \in 1..Len(loops_) : loops_[i] = i
  /\ ownerPc \in {"out", "gone"} \cup Starting \cup Quitting
  /\ dying \in 1..(MaxThreads + 1)
  /\ threadPc \in [Threads -> {"none", "init", "left", "ended"} \cup Running]
  /\ loop_ \in [Threads -> BOOLEAN] /\ quit_ \in [Threads -> BOOLEAN]

(* The owner's place fits the loops that it has started or is to end.      *)
OwnerFits ==
  /\ ownerPc \in Starting => Len(loops_) < numThreads_
  /\ ownerPc \in Quitting => dying <= Len(loops_)
  /\ ownerPc \notin Quitting \cup {"gone"} => dying = 1

(* The destructor has told thread t to quit. *)
ToldToQuit(t) == t < dying \/ (t = dying /\ ownerPc \in {"wakeup", "join"})

(* The owner has seen that thread t has a loop, or is waiting for that.    *)
Known(t) == t <= Len(loops_) \/ (t = Len(loops_) + 1 /\ ownerPc \in {"wait", "asleep"})

(* Each thread's loop_ is good from threadFunc's publication of it to its  *)
(* end, which nobody but the destructor brings about.                      *)
ThreadsFit ==
  \A t \in Threads :
    /\ loop_[t] <=> threadPc[t] \in Running \cup {"left"}
    /\ quit_[t] => ToldToQuit(t)
    /\ threadPc[t] \in {"left", "ended"} => ToldToQuit(t)
    /\ threadPc[t] # "none" => Known(t)
    /\ t <= Len(loops_) => threadPc[t] \notin {"none", "init"}

(* The inductive invariant of the pool. *)
PoolInv == PoolTyped /\ OwnerFits /\ ThreadsFit

(* Numbers of threads are natural numbers. *)
LEMMA ThreadFacts ==
  /\ MaxThreads \in Nat /\ Threads \subseteq Nat /\ ThreadNums \subseteq Nat
  /\ \A n \in ThreadNums : n <= MaxThreads
  /\ \A t \in Threads : t >= 1 /\ t <= MaxThreads /\ t # Base
BY PoolAssumption DEF Threads, Base

(* The pool's invariant holds at first. *)
LEMMA PoolInvInit ==
  ASSUME PoolInit
  PROVE  PoolInv
<1>1. Len(loops_) = 0 /\ loops_ \in Seq(Threads)
  BY DEF PoolInit
<1>2. PoolTyped
  <2>1. numThreads_ \in ThreadNums /\ numThreads_ \in Nat /\ 1 \in 1..(MaxThreads + 1)
    BY ThreadFacts DEF PoolInit
  <2>2. Len(loops_) <= numThreads_ /\ \A i \in 1..Len(loops_) : loops_[i] = i
    BY <1>1, <2>1
  <2> QED
    BY <1>1, <2>1, <2>2 DEF PoolInit, PoolTyped
<1>3. OwnerFits
  BY DEF PoolInit, OwnerFits, Starting, Quitting
<1>4. ThreadsFit
  BY <1>1, ThreadFacts DEF PoolInit, ThreadsFit, Running
<1> QED
  BY <1>2, <1>3, <1>4 DEF PoolInv

(* Before start, the pool is as it was made. *)
Unstarted ==
  starter = "none" => ~started_ /\ loops_ = <<>> /\ ownerPc \notin Starting

(* Nothing is started at first. *)
LEMMA UnstartedInit ==
  ASSUME Init
  PROVE  Unstarted
BY DEF Init, PoolInit, Unstarted, Starting

(* Nothing but start starts the pool. *)
LEMMA UnstartedStep ==
  ASSUME Unstarted, Next
  PROVE  Unstarted'
<1> DEFINE Good == Unstarted'
<1> USE DEF Unstarted
<1>0. ASSUME UNCHANGED <<starter, poolRest>> PROVE Good
  BY <1>0 DEF poolRest
<1>1. \A who \in {"base", "other"} : Start(who) => Good
  BY DEF Start
<1>2. PoolOnly => Good
  <2> SUFFICES ASSUME PoolOnly, starter = "none" PROVE Good
    BY DEF PoolOnly, serverVars, startVars
  <2>1. starter' = "none" /\ ~started_ /\ loops_ = <<>> /\ ownerPc \notin Starting
    BY DEF PoolOnly, serverVars, startVars
  <2>2. ~StartLoop /\ ~WaitForLoop /\ ~SpuriousWakeup
    BY <2>1 DEF StartLoop, WaitForLoop, SpuriousWakeup, Starting
  <2>3. QuitThread => Good
    BY <2>1 DEF QuitThread, Starting
  <2>4. WakeupThread => Good
    BY <2>1 DEF WakeupThread, Starting
  <2>5. Join => Good
    BY <2>1 DEF Join, dyingStep, Starting
  <2>6. ASSUME NEW t \in Threads, ThreadStep(t) PROVE Good
    <3>1. started_' = started_ /\ loops_' = loops_
      BY <2>6 DEF ThreadStep, Publish, EnterLoop, CheckQuit, At
    <3>2. ownerPc # "asleep"
      BY <2>1 DEF Starting
    <3>3. ownerPc' = ownerPc
      BY <2>6, <3>2 DEF ThreadStep, Publish, EnterLoop, CheckQuit, notifies
    <3> QED
      BY <2>1, <3>1, <3>3
  <2> QED
    BY <2>2, <2>3, <2>4, <2>5, <2>6 DEF PoolOnly, OwnerStep
<1>3. StartListening => Good
  BY DEF StartListening
<1>4. Accept => Good
  BY <1>0 DEF Accept, startVars
<1>5. AcceptFails => Good
  BY <1>0 DEF AcceptFails, acceptorOnly, poolVars, poolRest, threadVars, startVars
<1>6. AcceptOnReserve => Good
  BY <1>0 DEF AcceptOnReserve, acceptorOnly, poolVars, poolRest, threadVars, startVars
<1>7. CloseClient => Good
  BY <1>0 DEF CloseClient, acceptorOnly, poolVars, poolRest, threadVars, startVars
<1>8. ReopenReserve => Good
  BY <1>0 DEF ReopenReserve, acceptorOnly, poolVars, poolRest, threadVars, startVars
<1>9. \A l \in Loops : RunFunctor(l) => Good
  BY <1>0 DEF RunFunctor, startVars
<1>10. BaseFunctorsDone => Good
  BY <1>0 DEF BaseFunctorsDone, startVars
<1>11. AcceptorGone => Good
  BY <1>0 DEF AcceptorGone, poolVars, poolRest, threadVars, startVars
<1>12. BasePollReturns => Good
  BY <1>0 DEF BasePollReturns, poolVars, poolRest, threadVars, startVars
<1>13. Destruct => Good
  BY DEF Destruct, PoolDestroy, dyingStep, Starting, startVars
<1>14. \A t \in Threads : IoFunctorsDone(t) => Good
  BY DEF IoFunctorsDone, FunctorsDone, At, startVars
<1>15. \A t \in Threads : IoLoopEnds(t) => Good
  BY DEF IoLoopEnds, LeaveThread, At, startVars
<1>16. \A t \in Threads : IoPollReturns(t) => Good
  BY DEF IoPollReturns, PollReturns, At, startVars
<1>17. \A i \in Conns : ConnectionCloses(i) => Good
  BY <1>0 DEF ConnectionCloses, startVars
<1>18. ClientArrives => Good
  BY <1>0 DEF ClientArrives, poolVars, poolRest, threadVars, startVars
<1>19. OtherOpens => Good
  BY <1>0 DEF OtherOpens, poolVars, poolRest, threadVars, startVars
<1>20. OtherCloses => Good
  BY <1>0 DEF OtherCloses, poolVars, poolRest, threadVars, startVars
<1> HIDE DEF Good
<1> QED
  BY <1>1, <1>2, <1>3, <1>4, <1>5, <1>6, <1>7, <1>8, <1>9, <1>10, <1>11,
     <1>12, <1>13, <1>14, <1>15, <1>16, <1>17, <1>18, <1>19, <1>20, StepCases
     DEF Good

(* What a step of the server does to the pool: a step of the pool, or      *)
(* nothing that its invariant tells of.                                    *)
LEMMA PoolMoves ==
  ASSUME Next, NEW G,
         UNCHANGED poolRest => G, PoolStart /\ starter = "none" => G,
         StartLoop => G,
         WaitForLoop => G, SpuriousWakeup => G, PoolDestroy => G,
         QuitThread => G, WakeupThread => G, Join => G,
         \A t \in Threads : Publish(t) => G,
         \A t \in Threads : EnterLoop(t) => G,
         \A t \in Threads : CheckQuit(t) => G,
         \A t \in Threads : PollReturns(t) => G,
         \A t \in Threads : FunctorsDone(t) => G,
         \A t \in Threads : LeaveThread(t) => G
  PROVE  G
<1>1. \A who \in {"base", "other"} : Start(who) => G
  BY DEF Start
<1>2. PoolOnly => G
  BY DEF PoolOnly, OwnerStep, ThreadStep
<1>3. StartListening => G
  BY DEF StartListening
<1>4. Accept => G
  BY DEF Accept
<1>5. AcceptFails => G
  BY DEF AcceptFails, acceptorOnly, poolVars, poolRest, threadVars
<1>6. AcceptOnReserve => G
  BY DEF AcceptOnReserve, acceptorOnly, poolVars, poolRest, threadVars
<1>7. CloseClient => G
  BY DEF CloseClient, acceptorOnly, poolVars, poolRest, threadVars
<1>8. ReopenReserve => G
  BY DEF ReopenReserve, acceptorOnly, poolVars, poolRest, threadVars
<1>9. \A l \in Loops : RunFunctor(l) => G
  BY DEF RunFunctor
<1>10. BaseFunctorsDone => G
  BY DEF BaseFunctorsDone
<1>11. AcceptorGone => G
  BY DEF AcceptorGone, poolVars, poolRest, threadVars
<1>12. BasePollReturns => G
  BY DEF BasePollReturns, poolVars, poolRest, threadVars
<1>13. Destruct => G
  BY DEF Destruct
<1>14. \A t \in Threads : IoFunctorsDone(t) => G
  BY DEF IoFunctorsDone
<1>15. \A t \in Threads : IoLoopEnds(t) => G
  BY DEF IoLoopEnds
<1>16. \A t \in Threads : IoPollReturns(t) => G
  BY DEF IoPollReturns
<1>17. \A i \in Conns : ConnectionCloses(i) => G
  BY DEF ConnectionCloses
<1>18. ClientArrives => G
  BY DEF ClientArrives, poolVars, poolRest, threadVars
<1>19. OtherOpens => G
  BY DEF OtherOpens, poolVars, poolRest, threadVars
<1>20. OtherCloses => G
  BY DEF OtherCloses, poolVars, poolRest, threadVars
<1> QED
  BY <1>1, <1>2, <1>3, <1>4, <1>5, <1>6, <1>7, <1>8, <1>9, <1>10, <1>11,
     <1>12, <1>13, <1>14, <1>15, <1>16, <1>17, <1>18, <1>19, <1>20, StepCases

(* The pool's invariant is kept where its variables are. *)
LEMMA PoolRests ==
  ASSUME PoolInv, UNCHANGED poolRest
  PROVE  PoolInv'
BY DEF PoolInv, PoolTyped, OwnerFits, ThreadsFit, ToldToQuit, Known, poolRest

(* A thread other than those of a step stays fit. *)
LEMMA ThreadStays ==
  ASSUME PoolInv, NEW t \in Threads,
         threadPc'[t] = threadPc[t], loop_'[t] = loop_[t], quit_'[t] = quit_[t],
         ToldToQuit(t) => ToldToQuit(t)', Known(t) => Known(t)', loops_' = loops_
  PROVE  /\ loop_'[t] <=> threadPc'[t] \in Running \cup {"left"}
         /\ quit_'[t] => ToldToQuit(t)'
         /\ threadPc'[t] \in {"left", "ended"} => ToldToQuit(t)'
         /\ threadPc'[t] # "none" => Known(t)'
         /\ t <= Len(loops_') => threadPc'[t] \notin {"none", "init"}
BY DEF PoolInv, ThreadsFit

(* The owner moves, and no thread does. *)
LEMMA OwnerMoves ==
  ASSUME PoolInv, UNCHANGED <<numThreads_, loops_, threadPc, loop_>>,
         \A t \in Threads : quit_'[t] => quit_[t] \/ ToldToQuit(t)',
         \A t \in Threads : ToldToQuit(t) => ToldToQuit(t)',
         \A t \in Threads : Known(t) => Known(t)'
  PROVE  ThreadsFit'
BY DEF PoolInv, ThreadsFit

(* A thread moves, and the owner does not, unless it is woken up.          *)
LEMMA ThreadMoves ==
  ASSUME PoolInv, NEW t \in Threads, NEW from, NEW to, At(t, from, to),
         ownerPc' = ownerPc \/ (ownerPc = "asleep" /\ ownerPc' = "wait"),
         to \in {"enter", "left", "ended"} \cup Running,
         from # "none", from = "init" <=> to = "enter",
         \A u \in Threads : u # t => loop_'[u] = loop_[u] /\ quit_'[u] = quit_[u],
         loop_' \in [Threads -> BOOLEAN], quit_' \in [Threads -> BOOLEAN],
         loop_'[t] <=> to \in Running \cup {"left"},
         quit_'[t] => ToldToQuit(t),
         to \in {"left", "ended"} => ToldToQuit(t)
  PROVE  PoolInv'
<1>1. /\ UNCHANGED <<numThreads_, started_, loops_, dying>>
      /\ threadPc[t] = from /\ threadPc' = [threadPc EXCEPT ![t] = to]
  BY DEF At
<1>2. PoolTyped' /\ threadPc'[t] = to /\ \A u \in Threads : u # t => threadPc'[u] = threadPc[u]
  BY <1>1 DEF PoolInv, PoolTyped, Running, Starting
<1>3. OwnerFits'
  BY <1>1 DEF PoolInv, OwnerFits, Starting, Quitting
<1>4. \A u \in Threads : (ToldToQuit(u) => ToldToQuit(u)') /\ (Known(u) => Known(u)')
  BY <1>1 DEF ToldToQuit, Known
<1>5. Known(t)' /\ ToldToQuit(t)' = ToldToQuit(t)
  BY <1>1, <1>4 DEF PoolInv, ThreadsFit, ToldToQuit
<1>6. ThreadsFit'
  <2>1. ASSUME NEW u \in Threads, u # t
        PROVE  /\ loop_'[u] <=> threadPc'[u] \in Running \cup {"left"}
               /\ quit_'[u] => ToldToQuit(u)'
               /\ threadPc'[u] \in {"left", "ended"} => ToldToQuit(u)'
               /\ threadPc'[u] # "none" => Known(u)'
               /\ u <= Len(loops_') => threadPc'[u] \notin {"none", "init"}
    BY <1>1, <1>2, <1>4, <2>1, ThreadStays
  <2>2. to # "none" /\ to # "init"
    BY DEF Running
  <2> QED
    BY <1>2, <1>5, <2>1, <2>2 DEF ThreadsFit
<1> QED
  BY <1>2, <1>3, <1>6 DEF PoolInv

(* One more loop at the end. *)
LEMMA LoopsAppend ==
  ASSUME PoolTyped, NEW t \in Threads, t = Len(loops_) + 1,
         Len(loops_) < numThreads_, loops_' = Append(loops_, t)
  PROVE  /\ loops_' \in Seq(Threads) /\ Len(loops_') = t /\ t <= numThreads_
         /\ \A i \in 1..Len(loops_') : loops_'[i] = i
<1>1. loops_ \in Seq(Threads) /\ Len(loops_) \in Nat /\ \A i \in 1..Len(loops_) : loops_[i] = i
  BY DEF PoolTyped
<1>2. /\ loops_' \in Seq(Threads) /\ Len(loops_') = Len(loops_) + 1
      /\ loops_'[Len(loops_) + 1] = t
      /\ \A i \in 1..Len(loops_) : loops_'[i] = loops_[i]
  BY <1>1
<1>3. numThreads_ \in Nat
  BY ThreadFacts DEF PoolTyped
<1> QED
  BY <1>1, <1>2, <1>3

(* Every step of the server keeps the pool's invariant. *)
LEMMA PoolInvStep ==
  ASSUME PoolInv, Unstarted, Next
  PROVE  PoolInv'
<1> DEFINE Good == PoolInv'
<1> USE ThreadFacts
<1>0. /\ PoolTyped /\ OwnerFits /\ ThreadsFit
      /\ numThreads_ \in Nat /\ numThreads_ <= MaxThreads
      /\ Len(loops_) \in Nat /\ Len(loops_) <= numThreads_ /\ dying \in Nat /\ dying >= 1
  BY DEF PoolInv, PoolTyped
<1>1. UNCHANGED poolRest => Good
  BY PoolRests
<1>2. PoolStart /\ starter = "none" => Good
  <2> SUFFICES ASSUME PoolStart, starter = "none" PROVE Good
    OBVIOUS
  <2>1. /\ UNCHANGED <<numThreads_, loops_, dying, threadPc, loop_, quit_>>
        /\ ownerPc = "out" /\ started_' = TRUE /\ Len(loops_) = 0
        /\ ownerPc' = IF 0 < numThreads_ THEN "startLoop" ELSE "out"
    BY DEF PoolStart, threadVars, nextStep, Unstarted
  <2>2. PoolTyped' /\ OwnerFits'
    BY <1>0, <2>1 DEF PoolTyped, OwnerFits, Starting, Quitting
  <2>3. ThreadsFit'
    BY <2>1, OwnerMoves DEF ToldToQuit, Known
  <2> QED
    BY <2>2, <2>3 DEF PoolInv
<1>3. StartLoop => Good
  <2> SUFFICES ASSUME StartLoop PROVE Good
    OBVIOUS
  <2>1. CASE ownerPc' = ownerPc /\ threadPc' = threadPc
    BY <2>1, PoolRests DEF StartLoop, poolRest
  <2>2. CASE ~(ownerPc' = ownerPc /\ threadPc' = threadPc)
    <3> DEFINE t == Len(loops_) + 1
    <3>1. /\ UNCHANGED <<numThreads_, started_, loops_, dying, loop_, quit_>>
          /\ ownerPc = "startLoop" /\ ownerPc' = "wait"
          /\ threadPc' = [threadPc EXCEPT ![t] = "init"]
      BY <2>2 DEF StartLoop
    <3>2. Len(loops_) < numThreads_ /\ t \in Threads
      BY <1>0, <3>1, PoolAssumption DEF OwnerFits, Starting, Threads
    <3>3. PoolTyped' /\ OwnerFits'
      BY <1>0, <3>1 DEF PoolTyped, OwnerFits, Starting, Quitting
    <3>4. \A u \in Threads : Known(u) => u # t /\ Known(u)'
      BY <1>0, <3>1 DEF Known
    <3>5. \A u \in Threads : ToldToQuit(u) => u # t /\ ToldToQuit(u)'
      BY <1>0, <3>1 DEF ToldToQuit, OwnerFits, Starting, Quitting
    <3>6. threadPc[t] = "none"
      BY <3>2, <3>4 DEF PoolInv, ThreadsFit
    <3>7. ~loop_[t] /\ ~quit_[t]
      BY <1>0, <3>2, <3>5, <3>6 DEF ThreadsFit, Running
    <3>8. threadPc'[t] = "init" /\ \A u \in Threads : u # t => threadPc'[u] = threadPc[u]
      BY <1>0, <3>1, <3>2 DEF PoolTyped
    <3>9. Known(t)' /\ ~(t <= Len(loops_'))
      BY <1>0, <3>1 DEF Known
    <3>10. ASSUME NEW u \in Threads
           PROVE  /\ loop_'[u] <=> threadPc'[u] \in Running \cup {"left"}
                  /\ quit_'[u] => ToldToQuit(u)'
                  /\ threadPc'[u] \in {"left", "ended"} => ToldToQuit(u)'
                  /\ threadPc'[u] # "none" => Known(u)'
                  /\ u <= Len(loops_') => threadPc'[u] \notin {"none", "init"}
      <4>1. CASE u = t
        BY <3>1, <3>7, <3>8, <3>9, <4>1 DEF Running
      <4>2. CASE u # t
        BY <3>1, <3>4, <3>5, <3>8, <4>2, ThreadStays
      <4> QED
        BY <4>1, <4>2
    <3>11. ThreadsFit'
      BY <3>10 DEF ThreadsFit
    <3> QED
      BY <3>3, <3>11 DEF PoolInv
  <2> QED
    BY <2>1, <2>2
<1>4. WaitForLoop => Good
  <2> SUFFICES ASSUME WaitForLoop PROVE Good
    OBVIOUS
  <2> DEFINE t == Len(loops_) + 1
  <2>1. /\ UNCHANGED <<numThreads_, started_, dying, threadPc, loop_, quit_>>
        /\ ownerPc = "wait" /\ dying = 1 /\ Len(loops_) < numThreads_
    BY <1>0 DEF WaitForLoop, threadVars, OwnerFits, Starting, Quitting
  <2>2. CASE loop_[t]
    <3>1. loops_' = Append(loops_, t) /\ ownerPc' = IF t < numThreads_ THEN "startLoop" ELSE "out"
      BY <2>2 DEF WaitForLoop, published, nextStep
    <3>2. t \in Threads
      BY <1>0, <2>1, PoolAssumption DEF Threads
    <3>3. /\ loops_' \in Seq(Threads) /\ Len(loops_') = t /\ t <= numThreads_
          /\ \A i \in 1..Len(loops_') : loops_'[i] = i
      BY <1>0, <2>1, <3>1, <3>2, LoopsAppend
    <3>4. PoolTyped' /\ OwnerFits'
      BY <1>0, <2>1, <3>1, <3>3 DEF PoolTyped, OwnerFits, Starting, Quitting
    <3>5. threadPc[t] \in Running \cup {"left"} /\ threadPc[t] \notin {"none", "init"}
      BY <1>0, <2>2, <3>2 DEF ThreadsFit, Running
    <3>6. \A u \in Threads : Known(u) <=> Known(u)'
      BY <1>0, <2>1, <3>1, <3>3 DEF Known
    <3>7. \A u \in Threads : ToldToQuit(u) => ToldToQuit(u)'
      BY <1>0, <2>1 DEF ToldToQuit
    <3>8. \A u \in Threads : u <= Len(loops_') => u <= Len(loops_) \/ u = t
      BY <1>0, <3>3
    <3>9. ThreadsFit'
      BY <1>0, <2>1, <3>5, <3>6, <3>7, <3>8 DEF ThreadsFit
    <3> QED
      BY <3>4, <3>9 DEF PoolInv
  <2>3. CASE ~loop_[t]
    <3>1. loops_' = loops_ /\ ownerPc' = "asleep"
      BY <2>3 DEF WaitForLoop, published
    <3>2. PoolTyped' /\ OwnerFits'
      BY <1>0, <2>1, <3>1 DEF PoolTyped, OwnerFits, Starting, Quitting
    <3>3. ThreadsFit'
      BY <2>1, <3>1, OwnerMoves DEF ToldToQuit, Known
    <3> QED
      BY <3>2, <3>3 DEF PoolInv
  <2> QED
    BY <2>2, <2>3
<1>5. SpuriousWakeup => Good
  <2> SUFFICES ASSUME SpuriousWakeup PROVE Good
    OBVIOUS
  <2>1. /\ UNCHANGED <<numThreads_, started_, loops_, dying, threadPc, loop_, quit_>>
        /\ ownerPc = "asleep" /\ ownerPc' = "wait"
    BY DEF SpuriousWakeup, threadVars
  <2>2. PoolTyped' /\ OwnerFits'
    BY <1>0, <2>1 DEF PoolTyped, OwnerFits, Starting, Quitting
  <2>3. ThreadsFit'
    BY <2>1, OwnerMoves DEF ToldToQuit, Known
  <2> QED
    BY <2>2, <2>3 DEF PoolInv
<1>6. PoolDestroy => Good
  <2> SUFFICES ASSUME PoolDestroy PROVE Good
    OBVIOUS
  <2>1. /\ UNCHANGED <<numThreads_, started_, loops_, dying, threadPc, loop_, quit_>>
        /\ ownerPc = "out" /\ ownerPc' = IF 1 <= Len(loops_) THEN "quit" ELSE "gone"
        /\ dying = 1
    BY <1>0 DEF PoolDestroy, threadVars, dyingStep, OwnerFits, Starting, Quitting
  <2>2. PoolTyped' /\ OwnerFits'
    BY <1>0, <2>1 DEF PoolTyped, OwnerFits, Starting, Quitting
  <2>3. ThreadsFit'
    BY <2>1, OwnerMoves DEF ToldToQuit, Known
  <2> QED
    BY <2>2, <2>3 DEF PoolInv
<1>7. QuitThread => Good
  <2> SUFFICES ASSUME QuitThread PROVE Good
    OBVIOUS
  <2>1. /\ UNCHANGED <<numThreads_, started_, loops_, dying, threadPc, loop_>>
        /\ ownerPc = "quit"
        /\ \/ quit_' = [quit_ EXCEPT ![dying] = TRUE] /\ ownerPc' = "wakeup"
           \/ UNCHANGED <<quit_, ownerPc>>
    BY DEF QuitThread
  <2>2. CASE UNCHANGED <<quit_, ownerPc>>
    BY <2>1, <2>2, PoolRests DEF poolRest
  <2>3. CASE quit_' = [quit_ EXCEPT ![dying] = TRUE] /\ ownerPc' = "wakeup"
    <3>1. PoolTyped' /\ OwnerFits'
      BY <1>0, <2>1, <2>3 DEF PoolTyped, OwnerFits, Starting, Quitting
    <3>2. \A t \in Threads : quit_'[t] => quit_[t] \/ t = dying
      BY <1>0, <2>3 DEF PoolTyped
    <3>3. ToldToQuit(dying)'
      BY <2>1, <2>3 DEF ToldToQuit
    <3>4. \A t \in Threads : (ToldToQuit(t) => ToldToQuit(t)') /\ (Known(t) => Known(t)')
      BY <2>1, <2>3 DEF ToldToQuit, Known
    <3>5. \A t \in Threads : quit_'[t] => quit_[t] \/ ToldToQuit(t)'
      BY <2>1, <2>3, <3>2 DEF ToldToQuit
    <3>6. ThreadsFit'
      BY <2>1, <3>4, <3>5, OwnerMoves
    <3> QED
      BY <3>1, <3>6 DEF PoolInv
  <2> QED
    BY <2>1, <2>2, <2>3
<1>8. WakeupThread => Good
  <2> SUFFICES ASSUME WakeupThread PROVE Good
    OBVIOUS
  <2>1. /\ UNCHANGED <<numThreads_, started_, loops_, dying, threadPc, loop_, quit_>>
        /\ ownerPc = "wakeup" /\ ownerPc' \in {"wakeup", "join"}
    BY DEF WakeupThread
  <2>2. PoolTyped' /\ OwnerFits'
    BY <1>0, <2>1 DEF PoolTyped, OwnerFits, Starting, Quitting
  <2>3. ThreadsFit'
    BY <2>1, OwnerMoves DEF ToldToQuit, Known
  <2> QED
    BY <2>2, <2>3 DEF PoolInv
<1>9. Join => Good
  <2> SUFFICES ASSUME Join PROVE Good
    OBVIOUS
  <2>1. /\ UNCHANGED <<numThreads_, started_, loops_, threadPc, loop_, quit_>>
        /\ ownerPc = "join" /\ dying' = dying + 1 /\ dying <= Len(loops_)
        /\ ownerPc' = IF dying + 1 <= Len(loops_) THEN "quit" ELSE "gone"
    BY <1>0 DEF Join, threadVars, dyingStep, OwnerFits, Quitting
  <2>2. PoolTyped' /\ OwnerFits'
    BY <1>0, <2>1 DEF PoolTyped, OwnerFits, Starting, Quitting
  <2>3. \A t \in Threads : (ToldToQuit(t) => ToldToQuit(t)') /\ (Known(t) => Known(t)')
    BY <1>0, <2>1 DEF ToldToQuit, Known
  <2>4. ThreadsFit'
    BY <2>1, <2>3, OwnerMoves
  <2> QED
    BY <2>2, <2>4 DEF PoolInv
<1>10. ASSUME NEW t \in Threads, Publish(t) PROVE Good
  <2>1. /\ At(t, "init", "enter") /\ loop_' = [loop_ EXCEPT ![t] = TRUE] /\ quit_' = quit_
        /\ ownerPc' = ownerPc \/ (ownerPc = "asleep" /\ ownerPc' = "wait")
        /\ threadPc[t] = "init"
    BY <1>10 DEF Publish, notifies, At
  <2>2. /\ \A u \in Threads : u # t => loop_'[u] = loop_[u] /\ quit_'[u] = quit_[u]
        /\ loop_' \in [Threads -> BOOLEAN] /\ quit_' \in [Threads -> BOOLEAN] /\ loop_'[t]
    BY <1>0, <2>1 DEF PoolTyped
  <2>3. quit_'[t] => ToldToQuit(t)
    BY <1>0, <2>1 DEF ThreadsFit
  <2>4. "enter" \in Running
    BY DEF Running
  <2> QED
    BY <2>1, <2>2, <2>3, <2>4, ThreadMoves
<1>11. ASSUME NEW t \in Threads, EnterLoop(t) PROVE Good
  <2>1. /\ At(t, "enter", "check") /\ quit_' = [quit_ EXCEPT ![t] = FALSE] /\ loop_' = loop_
        /\ ownerPc' = ownerPc /\ threadPc[t] = "enter"
    BY <1>11 DEF EnterLoop, At
  <2>2. /\ \A u \in Threads : u # t => loop_'[u] = loop_[u] /\ quit_'[u] = quit_[u]
        /\ loop_' \in [Threads -> BOOLEAN] /\ quit_' \in [Threads -> BOOLEAN] /\ ~quit_'[t]
    BY <1>0, <2>1 DEF PoolTyped
  <2>3. loop_'[t]
    BY <1>0, <2>1 DEF ThreadsFit, Running
  <2>4. "check" \in Running
    BY DEF Running
  <2> QED
    BY <2>1, <2>2, <2>3, <2>4, ThreadMoves
<1>12. ASSUME NEW t \in Threads, CheckQuit(t) PROVE Good
  <2> DEFINE to == IF quit_[t] THEN "left" ELSE "poll"
  <2>1. /\ At(t, "check", to) /\ UNCHANGED <<quit_, loop_>>
        /\ ownerPc' = ownerPc /\ threadPc[t] = "check"
    BY <1>12 DEF CheckQuit, At
  <2>2. /\ \A u \in Threads : u # t => loop_'[u] = loop_[u] /\ quit_'[u] = quit_[u]
        /\ loop_' \in [Threads -> BOOLEAN] /\ quit_' \in [Threads -> BOOLEAN]
    BY <1>0, <2>1 DEF PoolTyped
  <2>3. loop_'[t] /\ (quit_'[t] => ToldToQuit(t))
    BY <1>0, <2>1 DEF ThreadsFit, Running
  <2>4. /\ to \in {"enter", "left", "ended"} \cup Running /\ to \in Running \cup {"left"}
        /\ to # "enter"
        /\ to \in {"left", "ended"} => ToldToQuit(t)
    BY <2>1, <2>3 DEF Running
  <2> HIDE DEF to
  <2> QED
    BY <2>1, <2>2, <2>3, <2>4, ThreadMoves
<1>13. ASSUME NEW t \in Threads, PollReturns(t) PROVE Good
  <2>1. /\ At(t, "poll", "functors") /\ UNCHANGED <<quit_, loop_>>
        /\ ownerPc' = ownerPc /\ threadPc[t] = "poll"
    BY <1>13 DEF PollReturns, At
  <2>2. /\ \A u \in Threads : u # t => loop_'[u] = loop_[u] /\ quit_'[u] = quit_[u]
        /\ loop_' \in [Threads -> BOOLEAN] /\ quit_' \in [Threads -> BOOLEAN]
    BY <1>0, <2>1 DEF PoolTyped
  <2>3. loop_'[t] /\ (quit_'[t] => ToldToQuit(t))
    BY <1>0, <2>1 DEF ThreadsFit, Running
  <2>4. "functors" \in Running
    BY DEF Running
  <2> QED
    BY <2>1, <2>2, <2>3, <2>4, ThreadMoves
<1>14. ASSUME NEW t \in Threads, FunctorsDone(t) PROVE Good
  <2>1. /\ At(t, "functors", "check") /\ UNCHANGED <<quit_, loop_>>
        /\ ownerPc' = ownerPc /\ threadPc[t] = "functors"
    BY <1>14 DEF FunctorsDone, At
  <2>2. /\ \A u \in Threads : u # t => loop_'[u] = loop_[u] /\ quit_'[u] = quit_[u]
        /\ loop_' \in [Threads -> BOOLEAN] /\ quit_' \in [Threads -> BOOLEAN]
    BY <1>0, <2>1 DEF PoolTyped
  <2>3. loop_'[t] /\ (quit_'[t] => ToldToQuit(t))
    BY <1>0, <2>1 DEF ThreadsFit, Running
  <2>4. "check" \in Running
    BY DEF Running
  <2> QED
    BY <2>1, <2>2, <2>3, <2>4, ThreadMoves
<1>15. ASSUME NEW t \in Threads, LeaveThread(t) PROVE Good
  <2>1. /\ At(t, "left", "ended") /\ loop_' = [loop_ EXCEPT ![t] = FALSE] /\ quit_' = quit_
        /\ ownerPc' = ownerPc /\ threadPc[t] = "left"
    BY <1>15 DEF LeaveThread, At
  <2>2. /\ \A u \in Threads : u # t => loop_'[u] = loop_[u] /\ quit_'[u] = quit_[u]
        /\ loop_' \in [Threads -> BOOLEAN] /\ quit_' \in [Threads -> BOOLEAN] /\ ~loop_'[t]
    BY <1>0, <2>1 DEF PoolTyped
  <2>3. ToldToQuit(t)
    BY <1>0, <2>1 DEF ThreadsFit
  <2>4. "ended" \notin Running \cup {"left"}
    BY DEF Running
  <2> QED
    BY <2>1, <2>2, <2>3, <2>4, ThreadMoves
<1> HIDE DEF Good
<1> QED
  BY <1>1, <1>2, <1>3, <1>4, <1>5, <1>6, <1>7, <1>8, <1>9, <1>10, <1>11,
     <1>12, <1>13, <1>14, <1>15, PoolMoves DEF Good

(* The loops that startLoop has handed over run until the destructor comes *)
(* to them.                                                                *)
LEMMA LoopsOfPool ==
  ASSUME PoolInv
  PROVE  LoopsExist
<1> USE ThreadFacts
<1>1. ASSUME NEW i \in 1..Len(loops_)
      PROVE  \/ threadPc[loops_[i]] \in Running
             \/ ownerPc \in Quitting \cup {"gone"} /\ loops_[i] <= dying
  <2>1. /\ loops_[i] = i /\ i \in Threads /\ i <= Len(loops_) /\ i \in Nat
        /\ threadPc[i] \in {"none", "init", "left", "ended"} \cup Running
        /\ dying \in Nat
    BY DEF PoolInv, PoolTyped
  <2>2. threadPc[i] \in {"left", "ended"} \cup Running
    BY <2>1 DEF PoolInv, ThreadsFit
  <2>3. CASE threadPc[i] \in {"left", "ended"}
    <3>1. ToldToQuit(i)
      BY <2>1, <2>3 DEF PoolInv, ThreadsFit
    <3>2. ownerPc \in Quitting \cup {"gone"}
      BY <2>1, <3>1 DEF PoolInv, OwnerFits, ToldToQuit, Quitting
    <3> QED
      BY <2>1, <3>1, <3>2 DEF ToldToQuit
  <2> QED
    BY <2>1, <2>2, <2>3
<1> QED
  BY <1>1 DEF LoopsExist, Running, Quitting

(* In every reachable state of the server its pool is in order: for any    *)
(* number of threads, and also when the server is destroyed while they     *)
(* work.                                                                   *)
THEOREM PoolInvariant == Spec => [](PoolInv /\ Unstarted)
<1>1. Init => PoolInv /\ Unstarted
  BY PoolInvInit, UnstartedInit DEF Init
<1>2. PoolInv /\ Unstarted /\ [Next]_allVars => (PoolInv /\ Unstarted)'
  <2>1. PoolInv /\ Unstarted /\ UNCHANGED allVars => (PoolInv /\ Unstarted)'
    BY PoolRests DEF allVars, poolVars, poolRest, threadVars, serverVars, startVars, Unstarted
  <2> QED
    BY <2>1, PoolInvStep, UnstartedStep
<1> QED
  BY <1>1, <1>2, PTL DEF Spec

(* No loop that getNextLoop may hand out, and none that a connection uses, *)
(* ends before the destructor has come to its thread.                      *)
THEOREM LoopsAlwaysExist == Spec => []LoopsExist
<1>1. PoolInv => LoopsExist
  BY LoopsOfPool
<1> QED
  BY <1>1, PoolInvariant, PTL

-----------------------------------------------------------------------------
(***************************************************************************)
(* Types.                                                                  *)
(***************************************************************************)

Calls == {"listen", "connectEstablished", "removeConnectionInLoop", "connectDestroyed"}
Jobs == [f : Calls, c : 0..MaxClients]

NextTyped ==
  /\ next_ \in Nat /\ (next_ = 0 \/ next_ < Len(loops_))
  /\ wakeupFd_ \in [Threads -> BOOLEAN]

ServerTyped ==
  /\ exchanged \in {0, 1} /\ starter \in {"none", "base", "other", "done"}
  /\ server \in {"alive", "destructing", "gone"}
  /\ listenning_ \in BOOLEAN /\ acceptPc \in {"none", "accept", "close", "open"}
  /\ idleFd_ \in {"open", "closed", "client", "lost"}

(* Every client that came waits, has a connection or was turned away.      *)
CountTyped ==
  /\ backlog \in Nat /\ arrived \in Nat /\ arrived <= MaxClients
  /\ nextConnId_ \in Nat /\ nextConnId_ >= 1
  /\ backlog + (nextConnId_ - 1) <= arrived
  /\ free \in Nat /\ taken \in 0..MaxTaken

QueueTyped ==
  /\ pending \in [Loops -> Seq(Jobs)] /\ batch \in [Loops -> Seq(Jobs)]
  /\ functors \in [Loops -> SUBSET Conns]

(* A connection lives in the base loop or in one that the pool has handed  *)
(* out, and what is in the map is not freed.                               *)
ConnTyped ==
  /\ connections_ \subseteq 1..(nextConnId_ - 1)
  /\ conn \in [Conns -> [state : State, loop : Loops]]
  /\ \A i \in Conns : i >= nextConnId_ => conn[i] = Gone
  /\ \A i \in Conns : conn[i].loop # Base => conn[i].loop <= Len(loops_)
  /\ \A i \in connections_ : conn[i].state \notin {"none", "freed"}

ServerTypes == NextTyped /\ ServerTyped /\ CountTyped /\ QueueTyped /\ ConnTyped

(* They are the types of the specification, and more. *)
LEMMA TypesSuffice ==
  ASSUME PoolInv, ServerTypes
  PROVE  TypeOK
<1> USE DEF ServerTypes
<1>1. PoolTypeOK
  <2>1. Len(loops_) \in 0..numThreads_
    BY ThreadFacts DEF PoolInv, PoolTyped
  <2>2. next_ = 0 \/ next_ \in 0..(Len(loops_) - 1)
    BY <2>1, ThreadFacts DEF PoolInv, PoolTyped, NextTyped
  <2>3. wakeupFd_ \in [Threads -> BOOLEAN]
    BY DEF NextTyped
  <2> QED
    BY <2>1, <2>2, <2>3 DEF PoolInv, PoolTyped, PoolTypeOK, Starting, Quitting, Running
<1>2. backlog \in 0..arrived /\ arrived \in 0..MaxClients
  BY ServerAssumption DEF CountTyped
<1>3. nextConnId_ \in 1..(MaxClients + 1)
  BY ServerAssumption DEF CountTyped
<1>4. DOMAIN pending = Loops /\ DOMAIN batch = Loops
  BY DEF QueueTyped
<1> QED
  BY <1>1, <1>2, <1>3, <1>4 DEF TypeOK, ServerTyped, CountTyped, QueueTyped, ConnTyped

(* The types hold at first. *)
LEMMA ServerTypesInit ==
  ASSUME Init
  PROVE  ServerTypes
<1>1. NextTyped
  BY DEF Init, PoolInit, NextTyped
<1>2. ServerTyped
  BY DEF Init, ServerTyped
<1>3. CountTyped
  BY ServerAssumption DEF Init, CountTyped
<1>4. QueueTyped
  <2>1. <<>> \in Seq(Jobs)
    OBVIOUS
  <2> QED
    BY <2>1 DEF Init, QueueTyped
<1>5. ConnTyped
  <2>1. conn = [i \in Conns |-> Gone] /\ Gone \in [state : State, loop : Loops]
    BY DEF Init, Gone, State, Loops
  <2> QED
    BY <2>1 DEF Init, ConnTyped, Gone
<1> QED
  BY <1>1, <1>2, <1>3, <1>4, <1>5 DEF ServerTypes

(* The steps that concern connections and functors, one case each.         *)
LEMMA ConnMoves ==
  ASSUME Next, NEW G,
         UNCHANGED <<next_, connVars, queueVars>> => G,
         StartListening => G, Accept => G,
         \A l \in Loops : RunFunctor(l) => G,
         BaseFunctorsDone => G, BasePollReturns => G, Destruct => G,
         \A t \in Threads : IoFunctorsDone(t) => G,
         \A t \in Threads : IoLoopEnds(t) => G,
         \A t \in Threads : IoPollReturns(t) => G,
         \A i \in Conns : ConnectionCloses(i) => G
  PROVE  G
<1>1. \A who \in {"base", "other"} : Start(who) => G
  BY DEF Start, PoolStart
<1>2. PoolOnly => G
  <2> SUFFICES ASSUME PoolOnly PROVE G
    OBVIOUS
  <2>1. UNCHANGED <<connVars, queueVars>>
    BY DEF PoolOnly, serverVars
  <2>2. OwnerStep \/ SpuriousWakeup => next_' = next_
    BY DEF OwnerStep, StartLoop, WaitForLoop, QuitThread, WakeupThread, Join, SpuriousWakeup
  <2>3. \A t \in Threads : ThreadStep(t) => next_' = next_
    BY DEF ThreadStep, Publish, EnterLoop, CheckQuit, At
  <2> QED
    BY <2>1, <2>2, <2>3 DEF PoolOnly
<1>3. AcceptFails => G
  BY DEF AcceptFails, acceptorOnly, poolVars
<1>4. AcceptOnReserve => G
  BY DEF AcceptOnReserve, acceptorOnly, poolVars
<1>5. CloseClient => G
  BY DEF CloseClient, acceptorOnly, poolVars
<1>6. ReopenReserve => G
  BY DEF ReopenReserve, acceptorOnly, poolVars
<1>7. AcceptorGone => G
  BY DEF AcceptorGone, poolVars
<1>8. ClientArrives => G
  BY DEF ClientArrives, poolVars
<1>9. OtherOpens => G
  BY DEF OtherOpens, poolVars
<1>10. OtherCloses => G
  BY DEF OtherCloses, poolVars
<1> QED
  BY <1>1, <1>2, <1>3, <1>4, <1>5, <1>6, <1>7, <1>8, <1>9, <1>10, StepCases

(* The pool hands out more and more loops, and all of them are threads.    *)
LEMMA LoopsGrow ==
  ASSUME PoolInv, Next
  PROVE  /\ loops_' = loops_ \/ (ownerPc = "wait" /\ loops_' = Append(loops_, Len(loops_) + 1))
         /\ Len(loops_) \in Nat /\ Len(loops_') \in Nat /\ Len(loops_) <= Len(loops_')
<1> DEFINE Good == loops_' = loops_
                   \/ (ownerPc = "wait" /\ loops_' = Append(loops_, Len(loops_) + 1))
<1>1. UNCHANGED poolRest => Good
  BY DEF poolRest
<1>2. PoolStart /\ starter = "none" => Good
  BY DEF PoolStart
<1>3. StartLoop => Good
  BY DEF StartLoop
<1>4. WaitForLoop => Good
  BY DEF WaitForLoop
<1>5. SpuriousWakeup \/ PoolDestroy \/ QuitThread \/ WakeupThread \/ Join => Good
  BY DEF SpuriousWakeup, PoolDestroy, QuitThread, WakeupThread, Join
<1>6. ASSUME NEW t \in Threads
      PROVE  Publish(t) \/ EnterLoop(t) \/ CheckQuit(t) \/ PollReturns(t)
               \/ FunctorsDone(t) \/ LeaveThread(t) => Good
  BY DEF Publish, EnterLoop, CheckQuit, PollReturns, FunctorsDone, LeaveThread, At
<1> HIDE DEF Good
<1>7. Good
  BY <1>1, <1>2, <1>3, <1>4, <1>5, <1>6, PoolMoves DEF Good
<1>8. loops_ \in Seq(Threads)
  BY DEF PoolInv, PoolTyped
<1>9. CASE loops_' = loops_
  BY <1>8, <1>9
<1>10. CASE ownerPc = "wait" /\ loops_' = Append(loops_, Len(loops_) + 1)
  BY <1>8, <1>10
<1> QED
  BY <1>7, <1>9, <1>10 DEF Good

(* getNextLoop returns the loop at next_, or the base loop. *)
LEMMA NextLoopKnown ==
  ASSUME PoolInv, NextTyped
  PROVE  /\ nextLoop \in Loops
         /\ loops_ = <<>> => nextLoop = Base
         /\ loops_ # <<>> => /\ nextLoop = next_ + 1 /\ nextLoop \in Threads
                             /\ nextLoop <= Len(loops_)
<1>1. loops_ \in Seq(Threads) /\ Len(loops_) \in Nat /\ \A i \in 1..Len(loops_) : loops_[i] = i
  BY DEF PoolInv, PoolTyped
<1>2. CASE loops_ = <<>>
  BY <1>2 DEF nextLoop, Loops
<1>3. CASE loops_ # <<>>
  <2>1. Len(loops_) # 0
    BY <1>1, <1>3
  <2>2. next_ + 1 \in 1..Len(loops_)
    BY <1>1, <2>1 DEF NextTyped
  <2>3. loops_[next_ + 1] \in Threads /\ loops_[next_ + 1] = next_ + 1
    BY <1>1, <2>2
  <2> QED
    BY <1>3, <2>2, <2>3 DEF nextLoop, Loops
<1> QED
  BY <1>2, <1>3

(* Where next_ goes. *)
LEMMA NextAdvances ==
  ASSUME PoolInv, NextTyped, getNextLoop
  PROVE  next_' \in Nat /\ (next_' = 0 \/ next_' < Len(loops_))
<1>1. Len(loops_) \in Nat
  BY DEF PoolInv, PoolTyped
<1> QED
  BY <1>1 DEF NextTyped, getNextLoop, advanced

(* The eventfds keep their type. *)
LEMMA WakeupTyped ==
  ASSUME wakeupFd_ \in [Threads -> BOOLEAN], Next
  PROVE  wakeupFd_' \in [Threads -> BOOLEAN]
<1> DEFINE Good == wakeupFd_' \in [Threads -> BOOLEAN]
<1>0. UNCHANGED wakeupFd_ => Good
  OBVIOUS
<1>1. ASSUME NEW l, NEW fn, queueInLoop(l, fn) PROVE Good
  <2>1. wakeupFd_' = [t \in Threads |-> wakeupFd_[t] \/ t = l]
    BY <1>1 DEF queueInLoop
  <2>2. \A t \in Threads : (wakeupFd_[t] \/ t = l) \in BOOLEAN
    BY Zenon
  <2> QED
    BY <2>1, <2>2, Zenon
<1>2. \A who \in {"base", "other"} : Start(who) => Good
  BY <1>0 DEF Start, PoolStart, threadVars
<1>3. PoolOnly => Good
  <2>1. StartLoop \/ WaitForLoop \/ QuitThread \/ Join \/ SpuriousWakeup => Good
    BY <1>0 DEF StartLoop, WaitForLoop, QuitThread, Join, SpuriousWakeup, threadVars
  <2>2. WakeupThread => Good
    BY DEF WakeupThread, wakes
  <2>3. \A t \in Threads : ThreadStep(t) => Good
    BY <1>0 DEF ThreadStep, Publish, EnterLoop, CheckQuit
  <2> HIDE DEF Good
  <2> QED
    BY <2>1, <2>2, <2>3 DEF PoolOnly, OwnerStep
<1>4. StartListening => Good
  BY <1>0 DEF StartListening
<1>5. Accept => Good
  BY <1>0, <1>1 DEF Accept, newConnection, queues
<1>6. AcceptFails \/ AcceptOnReserve \/ CloseClient \/ ReopenReserve => Good
  BY <1>0 DEF AcceptFails, AcceptOnReserve, CloseClient, ReopenReserve, acceptorOnly,
              poolVars, threadVars
<1>7. ASSUME NEW i, removeConnectionInLoop(i) PROVE Good
  BY <1>0, <1>1, <1>7 DEF removeConnectionInLoop, queues
<1>8. ASSUME NEW l \in Loops, RunFunctor(l) PROVE Good
  BY <1>0, <1>7, <1>8
     DEF RunFunctor, RunListen, RunConnectEstablished, RunConnectDestroyed,
         RunRemoveConnectionInLoop
<1>9. BaseFunctorsDone => Good
  BY <1>0 DEF BaseFunctorsDone
<1>10. AcceptorGone \/ BasePollReturns \/ ClientArrives \/ OtherOpens \/ OtherCloses => Good
  BY <1>0 DEF AcceptorGone, BasePollReturns, ClientArrives, OtherOpens, OtherCloses,
              poolVars, threadVars
<1>11. Destruct => Good
  BY <1>0 DEF Destruct, PoolDestroy, threadVars
<1>12. \A t \in Threads : IoFunctorsDone(t) \/ IoLoopEnds(t) => Good
  BY <1>0 DEF IoFunctorsDone, FunctorsDone, IoLoopEnds, LeaveThread
<1>13. \A t \in Threads : IoPollReturns(t) => Good
  BY DEF IoPollReturns, PollReturns
<1>14. ASSUME NEW i \in Conns, ConnectionCloses(i) PROVE Good
  BY <1>0, <1>1, <1>7, <1>14 DEF ConnectionCloses, removeConnection, queues
<1> HIDE DEF Good
<1> QED
  BY <1>2, <1>3, <1>4, <1>5, <1>6, <1>8, <1>9, <1>10, <1>11, <1>12, <1>13, <1>14,
     StepCases DEF Good

(* next_ stays in range. *)
LEMMA NextTypedStep ==
  ASSUME PoolInv, NextTyped, Next
  PROVE  NextTyped'
<1> DEFINE Good == next_' \in Nat /\ (next_' = 0 \/ next_' < Len(loops_'))
<1>0. Len(loops_) \in Nat /\ Len(loops_') \in Nat /\ Len(loops_) <= Len(loops_')
  BY LoopsGrow
<1>1. next_' = next_ => Good
  BY <1>0 DEF NextTyped
<1>2. Accept => Good
  BY NextAdvances DEF Accept, newConnection, poolRest
<1>3. StartListening \/ BaseFunctorsDone \/ BasePollReturns \/ Destruct => Good
  BY <1>1 DEF StartListening, BaseFunctorsDone, BasePollReturns, Destruct, PoolDestroy, poolVars
<1>4. \A l \in Loops : RunFunctor(l) => Good
  BY <1>1 DEF RunFunctor
<1>5. \A t \in Threads : IoFunctorsDone(t) \/ IoLoopEnds(t) \/ IoPollReturns(t) => Good
  BY <1>1 DEF IoFunctorsDone, FunctorsDone, IoLoopEnds, LeaveThread, IoPollReturns,
              PollReturns, At
<1>6. \A i \in Conns : ConnectionCloses(i) => Good
  BY <1>1 DEF ConnectionCloses
<1>7. Good
  <2> HIDE DEF Good
  <2>1. UNCHANGED <<next_, connVars, queueVars>> => Good
    BY <1>1
  <2> QED
    BY <1>2, <1>3, <1>4, <1>5, <1>6, <2>1, ConnMoves
<1>8. wakeupFd_' \in [Threads -> BOOLEAN]
  BY WakeupTyped DEF NextTyped
<1> QED
  BY <1>7, <1>8 DEF NextTyped

(* The variables that have a few values each keep to them. *)
LEMMA ServerTypedStep ==
  ASSUME ServerTyped, Next
  PROVE  ServerTyped'
<1> DEFINE Good == ServerTyped'
           Small == <<exchanged, starter, server, acceptPc, idleFd_, listenning_>>
<1>0. UNCHANGED Small => Good
  BY DEF ServerTyped
<1>1. \A who \in {"base", "other"} : Start(who) => Good
  BY DEF Start, acceptorVars, ServerTyped
<1>2. PoolOnly => Good
  BY <1>0 DEF PoolOnly, serverVars, startVars, acceptorVars
<1>3. StartListening => Good
  BY DEF StartListening, ServerTyped
<1>4. Accept => Good
  BY <1>0 DEF Accept, startVars
<1>5. AcceptFails => Good
  BY DEF AcceptFails, acceptorOnly, givesUpReserve, startVars, ServerTyped
<1>6. AcceptOnReserve => Good
  BY DEF AcceptOnReserve, acceptorOnly, startVars, ServerTyped
<1>7. CloseClient => Good
  BY DEF CloseClient, acceptorOnly, startVars, ServerTyped
<1>8. ReopenReserve => Good
  BY DEF ReopenReserve, acceptorOnly, startVars, ServerTyped
<1>9. ASSUME NEW l \in Loops, RunFunctor(l) PROVE Good
  <2>1. UNCHANGED <<startVars, server, idleFd_, acceptPc>>
    BY <1>9 DEF RunFunctor
  <2>2. listenning_' \in BOOLEAN
    BY <1>9 DEF RunFunctor, RunListen, RunConnectEstablished, RunConnectDestroyed,
                RunRemoveConnectionInLoop, ServerTyped
  <2> QED
    BY <2>1, <2>2 DEF startVars, ServerTyped
<1>10. BaseFunctorsDone \/ BasePollReturns \/ ClientArrives \/ OtherOpens \/ OtherCloses => Good
  BY <1>0 DEF BaseFunctorsDone, BasePollReturns, ClientArrives, OtherOpens, OtherCloses,
              startVars, acceptorVars
<1>11. AcceptorGone => Good
  BY DEF AcceptorGone, startVars, ServerTyped
<1>12. Destruct => Good
  BY DEF Destruct, startVars, acceptorVars, ServerTyped
<1>13. \A t \in Threads : IoFunctorsDone(t) \/ IoLoopEnds(t) \/ IoPollReturns(t) => Good
  BY <1>0 DEF IoFunctorsDone, IoLoopEnds, IoPollReturns, startVars, acceptorVars
<1>14. \A i \in Conns : ConnectionCloses(i) => Good
  BY <1>0 DEF ConnectionCloses, startVars, acceptorVars
<1> HIDE DEF Good
<1> QED
  BY <1>1, <1>2, <1>3, <1>4, <1>5, <1>6, <1>7, <1>8, <1>9, <1>10, <1>11, <1>12,
     <1>13, <1>14, StepCases DEF Good

(* The numbers of connections are finitely many. *)
LEMMA ConnsFinite ==
  /\ IsFiniteSet(Conns) /\ MaxClients \in Nat
  /\ \A cs \in SUBSET Conns : IsFiniteSet(cs) /\ Cardinality(cs) \in Nat
<1>1. MaxClients \in Nat
  BY ServerAssumption
<1>2. IsFiniteSet(Conns)
  BY <1>1, FS_Interval DEF Conns
<1> QED
  BY <1>1, <1>2, FS_Subset, FS_CardinalityType

(* Connections that are freed were destroyed, and the others stay.         *)
LEMMA FreesOutcome ==
  ASSUME conn \in [Conns -> [state : State, loop : Loops]], free \in Nat,
         NEW cs \in SUBSET Conns, frees(cs)
  PROVE  /\ conn' \in [Conns -> [state : State, loop : Loops]]
         /\ free' \in Nat
         /\ \A i \in Conns :
              /\ conn'[i].loop = conn[i].loop
              /\ i \notin cs => conn'[i] = conn[i]
              /\ conn[i].state # "destroyed" => conn'[i] = conn[i]
         /\ \/ /\ \E i \in cs : conn[i].state # "destroyed"
               /\ failed' = "destructor" /\ conn' = conn /\ free' = free
            \/ /\ \A i \in cs : conn[i].state = "destroyed" /\ conn'[i].state = "freed"
               /\ failed' = failed /\ free' = free + Cardinality(cs)
<1>1. CASE \E i \in cs : conn[i].state # "destroyed"
  BY <1>1 DEF frees
<1>2. CASE ~(\E i \in cs : conn[i].state # "destroyed")
  <2> DEFINE after(i) == IF i \in cs THEN [conn[i] EXCEPT !.state = "freed"] ELSE conn[i]
  <2>1. /\ conn' = [i \in Conns |-> after(i)]
        /\ free' = free + Cardinality(cs) /\ failed' = failed
    BY <1>2 DEF frees
  <2>2. ASSUME NEW i \in Conns
        PROVE  /\ after(i) \in [state : State, loop : Loops]
               /\ after(i).loop = conn[i].loop
               /\ i \notin cs => after(i) = conn[i]
               /\ i \in cs => after(i).state = "freed"
    <3>1. conn[i] \in [state : State, loop : Loops]
      OBVIOUS
    <3>2. "freed" \in State
      BY DEF State
    <3> QED
      BY <3>1, <3>2
  <2> HIDE DEF after
  <2>3. \A i \in Conns : conn'[i] = after(i)
    BY <2>1
  <2>4. conn' \in [Conns -> [state : State, loop : Loops]]
    BY <2>1, <2>2
  <2>5. Cardinality(cs) \in Nat
    BY ConnsFinite
  <2> QED
    BY <1>2, <2>1, <2>2, <2>3, <2>4, <2>5
<1> QED
  BY <1>1, <1>2

(* What is dropped with functors, or with a loop, are connections.         *)
LEMMA MentionsConns ==
  \A q : mentioned(q) \subseteq Conns
BY DEF mentioned

(* What is in the map are connections. *)
LEMMA MapHoldsConns ==
  ASSUME CountTyped, ConnTyped
  PROVE  connections_ \subseteq Conns /\ nextConnId_ <= MaxClients + 1
<1>1. nextConnId_ - 1 <= MaxClients
  BY ConnsFinite DEF CountTyped
<1>2. 1..(nextConnId_ - 1) \subseteq Conns
  BY <1>1, ConnsFinite DEF CountTyped, Conns
<1> QED
  BY <1>1, <1>2, ConnsFinite DEF ConnTyped, CountTyped

(* Clients and descriptors are counted in natural numbers. *)
LEMMA CountTypedStep ==
  ASSUME CountTyped, QueueTyped, ConnTyped, Next
  PROVE  CountTyped'
<1> DEFINE Good == CountTyped'
<1> USE ServerAssumption, ConnsFinite DEF CountTyped
<1>0. UNCHANGED <<backlog, arrived, nextConnId_, taken>> /\ free' \in Nat => Good
  OBVIOUS
<1>1. \A who \in {"base", "other"} : Start(who) => Good
  BY <1>0 DEF Start, acceptorVars, connVars
<1>2. PoolOnly => Good
  BY <1>0 DEF PoolOnly, serverVars, acceptorVars, connVars
<1>3. StartListening => Good
  BY <1>0 DEF StartListening, connVars
<1>4. Accept => Good
  BY DEF Accept, newConnection
<1>5. AcceptFails => Good
  BY DEF AcceptFails, acceptorOnly, givesUpReserve, connVars
<1>6. AcceptOnReserve => Good
  BY DEF AcceptOnReserve, acceptorOnly, connVars
<1>7. CloseClient => Good
  BY DEF CloseClient, closesClient, acceptorOnly, connVars
<1>8. ReopenReserve => Good
  BY DEF ReopenReserve, acceptorOnly, connVars
<1>9. \A l \in Loops : RunFunctor(l) => Good
  BY <1>0 DEF RunFunctor
<1>10. BasePollReturns => Good
  BY <1>0 DEF BasePollReturns, acceptorVars, connVars
<1>11. BaseFunctorsDone => Good
  <2> SUFFICES ASSUME BaseFunctorsDone PROVE Good
    OBVIOUS
  <2> DEFINE cs == functors[Base] \ referenced(connections_, pending, functors')
  <2>1. frees(cs) /\ cs \in SUBSET Conns
    BY DEF BaseFunctorsDone, dropsFunctors, QueueTyped, Loops
  <2> HIDE DEF cs
  <2>2. free' \in Nat
    BY <2>1, FreesOutcome DEF ConnTyped
  <2> QED
    BY <1>0, <2>2 DEF BaseFunctorsDone, acceptorVars
<1>12. AcceptorGone => Good
  BY DEF AcceptorGone, connVars
<1>13. Destruct => Good
  <2> SUFFICES ASSUME Destruct PROVE Good
    OBVIOUS
  <2> DEFINE direct == {i \in connections_ : conn[i].loop = Base}
             dropped == direct \ referenced({}, pending, functors)
  <2>1. /\ free' = free + Cardinality(dropped)
        /\ UNCHANGED <<acceptorVars, arrived, taken, nextConnId_>>
    BY DEF Destruct
  <2>2. dropped \in SUBSET Conns
    BY MapHoldsConns
  <2> HIDE DEF dropped
  <2>3. Cardinality(dropped) \in Nat
    BY <2>2
  <2> QED
    BY <1>0, <2>1, <2>3 DEF acceptorVars
<1>14. ASSUME NEW t \in Threads, IoFunctorsDone(t) PROVE Good
  <2> DEFINE cs == functors[t] \ referenced(connections_, pending, functors')
  <2>1. frees(cs) /\ cs \in SUBSET Conns
    BY <1>14 DEF IoFunctorsDone, dropsFunctors, QueueTyped, Loops
  <2> HIDE DEF cs
  <2>2. free' \in Nat
    BY <2>1, FreesOutcome DEF ConnTyped
  <2> QED
    BY <1>0, <1>14, <2>2 DEF IoFunctorsDone, acceptorVars
<1>15. ASSUME NEW t \in Threads, IoLoopEnds(t) PROVE Good
  <2> DEFINE cs == mentioned(pending[t]) \ referenced(connections_, pending', functors)
  <2>1. frees(cs) /\ cs \in SUBSET Conns
    BY <1>15, MentionsConns DEF IoLoopEnds
  <2> HIDE DEF cs
  <2>2. free' \in Nat
    BY <2>1, FreesOutcome DEF ConnTyped
  <2> QED
    BY <1>0, <1>15, <2>2 DEF IoLoopEnds, acceptorVars
<1>16. \A t \in Threads : IoPollReturns(t) => Good
  BY <1>0 DEF IoPollReturns, acceptorVars, connVars
<1>17. \A i \in Conns : ConnectionCloses(i) => Good
  BY <1>0 DEF ConnectionCloses, acceptorVars
<1>18. ClientArrives => Good
  BY DEF ClientArrives, connVars
<1>19. OtherOpens => Good
  BY DEF OtherOpens, acceptorVars, connVars
<1>20. OtherCloses => Good
  BY DEF OtherCloses, acceptorVars, connVars
<1> HIDE DEF Good
<1> QED
  BY <1>1, <1>2, <1>3, <1>4, <1>5, <1>6, <1>7, <1>8, <1>9, <1>10, <1>11, <1>12,
     <1>13, <1>14, <1>15, <1>16, <1>17, <1>18, <1>19, <1>20, StepCases DEF Good

(* One more functor in a loop's queue. *)
LEMMA QueuedTyped ==
  ASSUME pending \in [Loops -> Seq(Jobs)], NEW l \in Loops, NEW f \in Calls,
         NEW c \in 0..MaxClients,
         pending' = [pending EXCEPT ![l] = Append(@, functor(f, c))]
  PROVE  /\ pending' \in [Loops -> Seq(Jobs)]
         /\ pending'[l] = Append(pending[l], functor(f, c))
         /\ \A m \in Loops : m # l => pending'[m] = pending[m]
<1>1. functor(f, c) \in Jobs
  BY DEF functor, Jobs
<1>2. pending[l] \in Seq(Jobs)
  OBVIOUS
<1>3. Append(pending[l], functor(f, c)) \in Seq(Jobs)
  BY <1>1, <1>2
<1> HIDE DEF functor
<1> QED
  BY <1>3

(* removeConnectionInLoop queues connectDestroyed, or fails. *)
LEMMA RemoveQueues ==
  ASSUME CountTyped, ConnTyped, pending \in [Loops -> Seq(Jobs)], NEW i,
         removeConnectionInLoop(i)
  PROVE  \/ /\ server # "alive" \/ i \notin connections_
            /\ failed' # "none" /\ pending' = pending /\ connections_' = connections_
         \/ /\ server = "alive" /\ i \in connections_ /\ i \in Conns
            /\ connections_' = connections_ \ {i} /\ failed' = failed
            /\ conn[i].loop \in Loops
            /\ pending' = [pending EXCEPT ![conn[i].loop] =
                             Append(@, functor("connectDestroyed", i))]
            /\ pending' \in [Loops -> Seq(Jobs)]
<1>1. CASE server # "alive" \/ i \notin connections_
  BY <1>1 DEF removeConnectionInLoop
<1>2. CASE ~(server # "alive" \/ i \notin connections_)
  <2>1. /\ connections_' = connections_ \ {i} /\ failed' = failed
        /\ pending' = [pending EXCEPT ![conn[i].loop] =
                         Append(@, functor("connectDestroyed", i))]
    BY <1>2 DEF removeConnectionInLoop, queues, queueInLoop
  <2>2. i \in Conns /\ conn[i].loop \in Loops /\ i \in 0..MaxClients
    <3>1. i \in Conns
      BY <1>2, MapHoldsConns
    <3>2. conn[i] \in [state : State, loop : Loops]
      BY <3>1 DEF ConnTyped
    <3> QED
      BY <3>1, <3>2, ConnsFinite DEF Conns
  <2>3. pending' \in [Loops -> Seq(Jobs)]
    BY <2>1, <2>2, QueuedTyped DEF Calls
  <2> QED
    BY <1>2, <2>1, <2>2, <2>3
<1> QED
  BY <1>1, <1>2

(* SetToSeq lists the elements of a finite set. *)
LEMMA SetToSeqLists ==
  ASSUME NEW S, IsFiniteSet(S)
  PROVE  /\ SetToSeq(S) \in Seq(S)
         /\ S = {} => SetToSeq(S) = <<>>
<1>1. Cardinality(S) \in Nat /\ ExistsBijection(1..Cardinality(S), S)
  BY FS_CardinalityType
<1>2. \E f \in [1..Cardinality(S) -> S] : IsInjective(f)
  BY <1>1 DEF ExistsBijection, Bijection, Injection
<1>3. SetToSeq(S) \in [1..Cardinality(S) -> S]
  BY <1>2 DEF SetToSeq
<1>4. SetToSeq(S) \in Seq(S)
  BY <1>1, <1>3
<1>5. S = {} => Cardinality(S) = 0
  BY FS_EmptySet
<1>6. S = {} => Len(SetToSeq(S)) = 0
  BY <1>1, <1>3, <1>4, <1>5
<1>7. S = {} => SetToSeq(S) = <<>>
  BY <1>4, <1>6
<1> QED
  BY <1>4, <1>7

(* The functors that the destructor queues in a loop. *)
LEMMA LaterTyped ==
  ASSUME NEW cs \in SUBSET Conns
  PROVE  /\ SetToSeq({functor("connectDestroyed", i) : i \in cs}) \in Seq(Jobs)
         /\ cs = {} => SetToSeq({functor("connectDestroyed", i) : i \in cs}) = <<>>
         /\ \A k \in DOMAIN SetToSeq({functor("connectDestroyed", i) : i \in cs}) :
              SetToSeq({functor("connectDestroyed", i) : i \in cs})[k].f = "connectDestroyed"
<1> DEFINE S == {functor("connectDestroyed", i) : i \in cs}
           g == [i \in cs |-> functor("connectDestroyed", i)]
<1>1. g \in Surjection(cs, S)
  BY DEF Surjection
<1>2. IsFiniteSet(cs)
  BY ConnsFinite
<1>3. IsFiniteSet(S)
  <2> HIDE DEF g, S
  <2> QED
    BY <1>1, <1>2, FS_Surjection
<1>4. S \subseteq Jobs
  BY ConnsFinite DEF functor, Jobs, Calls, Conns
<1>5. (cs = {} => S = {}) /\ \A x \in S : x.f = "connectDestroyed"
  BY DEF functor
<1> HIDE DEF S
<1>6. SetToSeq(S) \in Seq(S) /\ (S = {} => SetToSeq(S) = <<>>)
  BY <1>3, SetToSeqLists
<1>7. SetToSeq(S) \in Seq(Jobs)
  BY <1>4, <1>6
<1>8. \A k \in DOMAIN SetToSeq(S) : SetToSeq(S)[k] \in S
  BY <1>6
<1> QED
  BY <1>5, <1>6, <1>7, <1>8 DEF S

(* The functors keep their types. *)
LEMMA QueueTypedStep ==
  ASSUME PoolInv, NextTyped, CountTyped, QueueTyped, ConnTyped, Next
  PROVE  QueueTyped'
<1> DEFINE Good == QueueTyped'
           Queues == pending' \in [Loops -> Seq(Jobs)]
<1> USE DEF QueueTyped
<1>0. ASSUME Queues, UNCHANGED <<batch, functors>> PROVE Good
  BY <1>0
<1>1. UNCHANGED <<next_, connVars, queueVars>> => Good
  BY DEF queueVars
<1>2. StartListening => Good
  <2> SUFFICES ASSUME StartListening PROVE Good
    OBVIOUS
  <2>1. \/ pending' = pending
        \/ pending' = [pending EXCEPT ![Base] = Append(@, functor("listen", 0))]
    BY DEF StartListening
  <2>2. Base \in Loops /\ "listen" \in Calls /\ 0 \in 0..MaxClients
    BY ConnsFinite DEF Loops, Calls
  <2>3. Queues
    BY <2>1, <2>2, QueuedTyped
  <2> QED
    BY <1>0, <2>3 DEF StartListening
<1>3. Accept => Good
  <2> SUFFICES ASSUME Accept PROVE Good
    OBVIOUS
  <2>1. \/ pending' = pending
        \/ pending' = [pending EXCEPT ![nextLoop] =
                         Append(@, functor("connectEstablished", nextConnId_))]
    BY DEF Accept, newConnection, queues, queueInLoop
  <2>2. nextConnId_ \in 0..MaxClients
    BY ConnsFinite DEF Accept, CountTyped
  <2>3. Queues
    BY <2>1, <2>2, NextLoopKnown, QueuedTyped DEF Calls
  <2> QED
    BY <1>0, <2>3 DEF Accept
<1>4. ASSUME NEW l \in Loops, RunFunctor(l) PROVE Good
  <2>1. batch[l] \in Seq(Jobs) /\ batch[l] # <<>> /\ Head(batch[l]) \in Jobs
        /\ Tail(batch[l]) \in Seq(Jobs)
    BY <1>4 DEF RunFunctor
  <2>2. batch' \in [Loops -> Seq(Jobs)] /\ functors' = functors
    BY <1>4, <2>1 DEF RunFunctor
  <2>3. Queues
    <3>1. pending' = pending \/ \E i : removeConnectionInLoop(i)
      BY <1>4 DEF RunFunctor, RunListen, RunConnectEstablished, RunConnectDestroyed,
                  RunRemoveConnectionInLoop
    <3> QED
      BY <3>1, RemoveQueues
  <2> QED
    BY <2>2, <2>3
<1>5. BaseFunctorsDone => Good
  BY DEF BaseFunctorsDone, dropsFunctors, Loops
<1>6. ASSUME NEW l \in Loops, takesPending(l) PROVE Good
  <2>1. pending[l] \in Seq(Jobs) /\ <<>> \in Seq(Jobs) /\ mentioned(pending[l]) \subseteq Conns
    BY MentionsConns
  <2> QED
    BY <1>6, <2>1 DEF takesPending
<1>7. BasePollReturns => Good
  BY <1>6 DEF BasePollReturns, Loops
<1>8. \A t \in Threads : IoPollReturns(t) => Good
  BY <1>6 DEF IoPollReturns, Loops
<1>9. \A t \in Threads : IoFunctorsDone(t) => Good
  BY DEF IoFunctorsDone, dropsFunctors
<1>10. ASSUME NEW t \in Threads, IoLoopEnds(t) PROVE Good
  <2>1. pending' = [pending EXCEPT ![t] = <<>>] /\ UNCHANGED <<batch, functors>>
    BY <1>10 DEF IoLoopEnds
  <2>2. <<>> \in Seq(Jobs)
    OBVIOUS
  <2> QED
    BY <1>0, <2>1, <2>2
<1>11. Destruct => Good
  <2> SUFFICES ASSUME Destruct PROVE Good
    OBVIOUS
  <2> DEFINE later(t) == {i \in connections_ : conn[i].loop = t}
             jobs(t) == SetToSeq({functor("connectDestroyed", i) : i \in later(t)})
  <2>1. /\ pending' = [l \in Loops |-> IF l = Base THEN pending[l] ELSE pending[l] \o jobs(l)]
        /\ UNCHANGED <<batch, functors>>
    BY DEF Destruct
  <2>2. ASSUME NEW l \in Loops PROVE jobs(l) \in Seq(Jobs)
    <3>1. later(l) \in SUBSET Conns
      BY MapHoldsConns
    <3> HIDE DEF later
    <3> QED
      BY <3>1, LaterTyped
  <2> HIDE DEF jobs
  <2>3. \A l \in Loops : pending[l] \o jobs(l) \in Seq(Jobs)
    BY <2>2
  <2>4. Queues
    BY <2>1, <2>3
  <2> QED
    BY <1>0, <2>1, <2>4
<1>12. ASSUME NEW i \in Conns, ConnectionCloses(i) PROVE Good
  <2>1. \/ pending' = pending
        \/ removeConnectionInLoop(i)
        \/ pending' = [pending EXCEPT ![Base] = Append(@, functor("removeConnectionInLoop", i))]
    BY <1>12 DEF ConnectionCloses, removeConnection, queues, queueInLoop
  <2>2. i \in 0..MaxClients /\ Base \in Loops /\ "removeConnectionInLoop" \in Calls
    BY ConnsFinite DEF Conns, Loops, Calls
  <2>3. Queues
    BY <2>1, <2>2, RemoveQueues, QueuedTyped
  <2> QED
    BY <1>0, <1>12, <2>3 DEF ConnectionCloses
<1> HIDE DEF Good
<1> QED
  BY <1>1, <1>2, <1>3, <1>4, <1>5, <1>7, <1>8, <1>9, <1>10, <1>11, <1>12, ConnMoves
     DEF Good

(* One connection's state changes. *)
LEMMA StateChanges ==
  ASSUME ConnTyped, NEW i \in Conns, NEW s \in State,
         conn' = [conn EXCEPT ![i].state = s]
  PROVE  /\ conn' \in [Conns -> [state : State, loop : Loops]]
         /\ conn'[i].state = s
         /\ \A j \in Conns : /\ conn'[j].loop = conn[j].loop
                             /\ j # i => conn'[j] = conn[j]
<1>1. conn \in [Conns -> [state : State, loop : Loops]]
  BY DEF ConnTyped
<1>2. conn[i] \in [state : State, loop : Loops]
  BY <1>1
<1>3. conn' = [conn EXCEPT ![i] = [conn[i] EXCEPT !.state = s]]
  BY <1>1
<1>4. /\ [conn[i] EXCEPT !.state = s] \in [state : State, loop : Loops]
      /\ [conn[i] EXCEPT !.state = s].state = s
      /\ [conn[i] EXCEPT !.state = s].loop = conn[i].loop
  BY <1>2
<1> QED
  BY <1>1, <1>3, <1>4

(* The connections in the map of a server that is destroyed: those of the  *)
(* base loop are destroyed on the spot, and freed unless a functor refers  *)
(* to them.                                                                *)
LEMMA DestructOutcome ==
  ASSUME CountTyped, ConnTyped, Destruct
  PROVE  /\ conn' \in [Conns -> [state : State, loop : Loops]]
         /\ \A i \in Conns :
              /\ conn'[i].loop = conn[i].loop
              /\ i \notin connections_ \/ conn[i].loop # Base => conn'[i] = conn[i]
              /\ i \in connections_ /\ conn[i].loop = Base =>
                   conn'[i].state = IF i \in referenced({}, pending, functors)
                                    THEN "destroyed" ELSE "freed"
         /\ free' = free + Cardinality({i \in connections_ : conn[i].loop = Base}
                                         \ referenced({}, pending, functors))
<1> DEFINE direct == {i \in connections_ : conn[i].loop = Base}
           dropped == direct \ referenced({}, pending, functors)
           after(i) == IF i \in dropped THEN [conn[i] EXCEPT !.state = "freed"]
                       ELSE IF i \in direct THEN [conn[i] EXCEPT !.state = "destroyed"]
                       ELSE conn[i]
<1>1. conn' = [i \in Conns |-> after(i)] /\ free' = free + Cardinality(dropped)
  BY DEF Destruct
<1>2. ASSUME NEW i \in Conns
      PROVE  /\ after(i) \in [state : State, loop : Loops]
             /\ after(i).loop = conn[i].loop
             /\ i \notin direct => after(i) = conn[i]
             /\ i \in direct => after(i).state = IF i \in dropped THEN "freed" ELSE "destroyed"
  <2>1. conn[i] \in [state : State, loop : Loops]
    BY DEF ConnTyped
  <2>2. "freed" \in State /\ "destroyed" \in State
    BY DEF State
  <2>3. i \in dropped => i \in direct
    OBVIOUS
  <2> HIDE DEF dropped, direct
  <2> QED
    BY <2>1, <2>2, <2>3
<1>3. \A i \in Conns : conn'[i] = after(i)
  BY <1>1
<1>4. \A i : i \in direct <=> i \in connections_ /\ conn[i].loop = Base
  OBVIOUS
<1>5. \A i : i \in dropped <=> i \in direct /\ i \notin referenced({}, pending, functors)
  OBVIOUS
<1> HIDE DEF after
<1>6. conn' \in [Conns -> [state : State, loop : Loops]]
  BY <1>1, <1>2
<1> HIDE DEF direct
<1>7. free' = free + Cardinality(dropped)
  BY <1>1
<1> HIDE DEF dropped
<1>8. ASSUME NEW i \in Conns
      PROVE  /\ conn'[i].loop = conn[i].loop
             /\ i \notin connections_ \/ conn[i].loop # Base => conn'[i] = conn[i]
             /\ i \in connections_ /\ conn[i].loop = Base =>
                  conn'[i].state = IF i \in referenced({}, pending, functors)
                                   THEN "destroyed" ELSE "freed"
  BY <1>2, <1>3, <1>4, <1>5
<1> QED
  BY <1>6, <1>7, <1>8 DEF direct, dropped

(* The types of the connections hold where no connection comes and none    *)
(* changes its loop.                                                       *)
LEMMA ConnTypedKept ==
  ASSUME PoolInv, Next, CountTyped, ConnTyped,
         conn' \in [Conns -> [state : State, loop : Loops]],
         \A i \in Conns : /\ conn'[i].loop = conn[i].loop
                          /\ conn[i].state = "none" => conn'[i] = conn[i]
                          /\ i \in connections_' /\ conn'[i] # conn[i] =>
                               conn'[i].state \notin {"none", "freed"},
         connections_' \subseteq connections_, nextConnId_' = nextConnId_
  PROVE  ConnTyped'
<1>1. \A i \in Conns : i >= nextConnId_ => conn'[i] = Gone
  BY DEF ConnTyped, Gone
<1>2. Len(loops_) \in Nat /\ Len(loops_') \in Nat /\ Len(loops_) <= Len(loops_')
  BY LoopsGrow
<1>3. \A i \in Conns : conn'[i].loop # Base => conn'[i].loop <= Len(loops_')
  <2> SUFFICES ASSUME NEW i \in Conns, conn[i].loop # Base PROVE conn[i].loop <= Len(loops_')
    OBVIOUS
  <2>1. conn[i].loop <= Len(loops_) /\ conn[i].loop \in Loops
    <3>1. conn[i] \in [state : State, loop : Loops]
      BY DEF ConnTyped
    <3> QED
      BY <3>1 DEF ConnTyped
  <2>2. conn[i].loop \in Nat
    BY <2>1, ThreadFacts DEF Loops
  <2> QED
    BY <1>2, <2>1, <2>2
<1>4. connections_' \subseteq 1..(nextConnId_' - 1)
  BY DEF ConnTyped
<1>5. \A i \in connections_' : conn'[i].state \notin {"none", "freed"}
  BY MapHoldsConns DEF ConnTyped
<1> QED
  BY <1>1, <1>3, <1>4, <1>5 DEF ConnTyped

(* A connection is where its number says, in a loop of the pool. *)
LEMMA AcceptOutcome ==
  ASSUME PoolInv, NextTyped, CountTyped, ConnTyped, Accept
  PROVE  /\ nextConnId_ \in Conns /\ nextConnId_' = nextConnId_ + 1
         /\ conn[nextConnId_] = Gone
         /\ connections_' = connections_ \cup {nextConnId_}
         /\ conn' \in [Conns -> [state : State, loop : Loops]]
         /\ conn'[nextConnId_].loop = nextLoop
         /\ conn'[nextConnId_].state = IF nextLoop = Base THEN "up" ELSE "connecting"
         /\ \A i \in Conns : i # nextConnId_ => conn'[i] = conn[i]
<1>1. nextConnId_ \in Conns
  BY ConnsFinite DEF Accept, CountTyped, Conns
<1>2. conn[nextConnId_] = Gone
  BY <1>1, ConnsFinite DEF ConnTyped, CountTyped
<1> DEFINE new == [state |-> IF nextLoop = Base THEN "up" ELSE "connecting", loop |-> nextLoop]
<1>3. /\ nextConnId_' = nextConnId_ + 1
      /\ connections_' = connections_ \cup {nextConnId_}
      /\ conn' = [conn EXCEPT ![nextConnId_] = new]
  BY DEF Accept, newConnection
<1>4. /\ new \in [state : State, loop : Loops] /\ new.loop = nextLoop
      /\ new.state = IF nextLoop = Base THEN "up" ELSE "connecting"
  BY NextLoopKnown DEF State
<1>5. conn \in [Conns -> [state : State, loop : Loops]]
  BY DEF ConnTyped
<1> HIDE DEF new
<1> QED
  BY <1>1, <1>2, <1>3, <1>4, <1>5

(* The connections keep their types. *)
LEMMA ConnTypedStep ==
  ASSUME PoolInv, NextTyped, CountTyped, QueueTyped, ConnTyped, Next
  PROVE  ConnTyped'
<1> DEFINE Good == ConnTyped'
<1>0. conn \in [Conns -> [state : State, loop : Loops]]
      /\ connections_ \subseteq Conns /\ free \in Nat
  BY MapHoldsConns DEF ConnTyped, CountTyped
<1>1. ASSUME conn' \in [Conns -> [state : State, loop : Loops]],
             \A i \in Conns : /\ conn'[i].loop = conn[i].loop
                              /\ conn[i].state = "none" => conn'[i] = conn[i]
                              /\ i \in connections_' /\ conn'[i] # conn[i] =>
                                   conn'[i].state \notin {"none", "freed"},
             connections_' \subseteq connections_, nextConnId_' = nextConnId_
      PROVE  Good
  BY <1>1, ConnTypedKept
<1>2. UNCHANGED connVars => Good
  BY <1>0, <1>1 DEF connVars
<1>3. UNCHANGED <<next_, connVars, queueVars>> => Good
  BY <1>2
<1>4. StartListening => Good
  BY <1>2 DEF StartListening
<1>5. Accept => Good
  <2> SUFFICES ASSUME Accept PROVE Good
    OBVIOUS
  <2> DEFINE n == nextConnId_
  <2>1. /\ n \in Conns /\ nextConnId_' = n + 1
        /\ connections_' = connections_ \cup {n}
        /\ conn' \in [Conns -> [state : State, loop : Loops]]
        /\ conn'[n].loop = nextLoop
        /\ \A i \in Conns : i # n => conn'[i] = conn[i]
    BY AcceptOutcome
  <2>2. n \in Nat /\ n >= 1 /\ connections_' \subseteq 1..(nextConnId_' - 1)
    BY <2>1 DEF ConnTyped, CountTyped
  <2>3. \A i \in Conns : i >= n + 1 => conn'[i] = Gone
    BY <2>1, <2>2, ConnsFinite DEF ConnTyped, Conns
  <2>4. nextLoop # Base => nextLoop <= Len(loops_)
    BY NextLoopKnown
  <2>5. loops_' = loops_
    BY DEF Accept, poolRest
  <2>6. \A i \in Conns : conn'[i].loop # Base => conn'[i].loop <= Len(loops_')
    BY <2>1, <2>4, <2>5 DEF ConnTyped
  <2>7. \A i \in connections_' : conn'[i].state \notin {"none", "freed"}
    <3>1. conn'[n].state \in {"up", "connecting"}
      BY AcceptOutcome
    <3> QED
      BY <1>0, <2>1, <3>1 DEF ConnTyped
  <2> QED
    BY <2>1, <2>2, <2>3, <2>6, <2>7 DEF ConnTyped
<1>6. ASSUME NEW l \in Loops, RunFunctor(l) PROVE Good
  <2> DEFINE fn == Head(batch[l])
  <2>1. nextConnId_' = nextConnId_
    BY <1>6 DEF RunFunctor
  <2>2. CASE RunListen
    BY <1>2, <2>1, <2>2 DEF RunListen, connVars
  <2>3. CASE RunConnectEstablished(fn.c) \/ RunConnectDestroyed(fn.c)
    <3>1. connections_' = connections_
      BY <2>3 DEF RunConnectEstablished, RunConnectDestroyed
    <3>2. \/ conn' = conn
          \/ /\ conn[fn.c].state # "none"
             /\ \E s \in {"up", "destroyed"} : conn' = [conn EXCEPT ![fn.c].state = s]
      BY <2>3 DEF RunConnectEstablished, RunConnectDestroyed
    <3>3. CASE conn' = conn \/ fn.c \notin Conns
      <4>1. conn' = conn
        BY <1>0, <3>2, <3>3
      <4> QED
        BY <1>2, <2>1, <3>1, <4>1 DEF connVars
    <3>4. CASE conn' # conn /\ fn.c \in Conns
      <4>1. PICK s \in {"up", "destroyed"} : conn' = [conn EXCEPT ![fn.c].state = s]
        BY <3>2, <3>4
      <4>3. s \in State /\ s \notin {"none", "freed"}
        BY DEF State
      <4> HIDE DEF fn
      <4>2. /\ conn' \in [Conns -> [state : State, loop : Loops]]
            /\ \A j \in Conns : /\ conn'[j].loop = conn[j].loop
                                /\ j # fn.c => conn'[j] = conn[j]
            /\ conn'[fn.c].state = s
        BY <3>4, <4>1, <4>3, StateChanges
      <4> QED
        BY <1>1, <2>1, <3>1, <3>2, <3>4, <4>2, <4>3
    <3> QED
      BY <3>3, <3>4
  <2>4. CASE RunRemoveConnectionInLoop(fn.c)
    <3>1. conn' = conn /\ connections_' \subseteq connections_
      BY <2>4 DEF RunRemoveConnectionInLoop, removeConnectionInLoop
    <3> QED
      BY <1>0, <1>1, <2>1, <3>1
  <2> QED
    BY <1>6, <2>2, <2>3, <2>4 DEF RunFunctor
<1>7. ASSUME NEW cs \in SUBSET Conns, frees(cs), cs \cap connections_ = {},
             UNCHANGED <<nextConnId_, connections_>>
      PROVE  Good
  <2>1. /\ conn' \in [Conns -> [state : State, loop : Loops]]
        /\ \A i \in Conns :
              /\ conn'[i].loop = conn[i].loop
              /\ conn[i].state # "destroyed" => conn'[i] = conn[i]
              /\ i \notin cs => conn'[i] = conn[i]
    BY <1>0, <1>7, FreesOutcome
  <2> QED
    BY <1>1, <1>7, <2>1
<1>8. BaseFunctorsDone => Good
  <2> SUFFICES ASSUME BaseFunctorsDone PROVE Good
    OBVIOUS
  <2> DEFINE cs == functors[Base] \ referenced(connections_, pending, functors')
  <2>1. frees(cs) /\ cs \in SUBSET Conns /\ cs \cap connections_ = {}
    BY DEF BaseFunctorsDone, dropsFunctors, QueueTyped, Loops, referenced
  <2> HIDE DEF cs
  <2> QED
    BY <1>7, <2>1 DEF BaseFunctorsDone
<1>9. BasePollReturns => Good
  BY <1>2 DEF BasePollReturns
<1>10. Destruct => Good
  <2> SUFFICES ASSUME Destruct PROVE Good
    OBVIOUS
  <2>1. connections_' = {} /\ nextConnId_' = nextConnId_
    BY DEF Destruct
  <2>2. ASSUME NEW i \in Conns, conn[i].state = "none" PROVE conn'[i] = conn[i]
    BY <2>2, DestructOutcome DEF ConnTyped
  <2> QED
    BY <1>1, <2>1, <2>2, DestructOutcome
<1>11. ASSUME NEW t \in Threads, IoFunctorsDone(t) PROVE Good
  <2> DEFINE cs == functors[t] \ referenced(connections_, pending, functors')
  <2>1. frees(cs) /\ cs \in SUBSET Conns /\ cs \cap connections_ = {}
    BY <1>11 DEF IoFunctorsDone, dropsFunctors, QueueTyped, Loops, referenced
  <2> HIDE DEF cs
  <2> QED
    BY <1>7, <1>11, <2>1 DEF IoFunctorsDone
<1>12. ASSUME NEW t \in Threads, IoLoopEnds(t) PROVE Good
  <2> DEFINE cs == mentioned(pending[t]) \ referenced(connections_, pending', functors)
  <2>1. frees(cs) /\ cs \in SUBSET Conns /\ cs \cap connections_ = {}
    BY <1>12, MentionsConns DEF IoLoopEnds, referenced
  <2> HIDE DEF cs
  <2> QED
    BY <1>7, <1>12, <2>1 DEF IoLoopEnds
<1>13. \A t \in Threads : IoPollReturns(t) => Good
  BY <1>2 DEF IoPollReturns
<1>14. ASSUME NEW i \in Conns, ConnectionCloses(i) PROVE Good
  <2>1. connections_' \subseteq connections_ /\ nextConnId_' = nextConnId_
    BY <1>14 DEF ConnectionCloses, removeConnection, removeConnectionInLoop
  <2>2. conn' = [conn EXCEPT ![i].state = "down"] /\ conn[i].state = "up" /\ "down" \in State
    BY <1>14 DEF ConnectionCloses, setsDisconnected, State
  <2>3. /\ conn' \in [Conns -> [state : State, loop : Loops]]
        /\ \A j \in Conns : /\ conn'[j].loop = conn[j].loop
                            /\ j # i => conn'[j] = conn[j]
        /\ conn'[i].state = "down"
    BY <2>2, StateChanges
  <2> QED
    BY <1>1, <2>1, <2>2, <2>3
<1> HIDE DEF Good
<1> QED
  BY <1>3, <1>4, <1>5, <1>6, <1>8, <1>9, <1>10, <1>11, <1>12, <1>13, <1>14, ConnMoves
     DEF Good

(* The server's types hold in every step. *)
LEMMA ServerTypesStep ==
  ASSUME PoolInv, ServerTypes, Next
  PROVE  ServerTypes'
BY NextTypedStep, ServerTypedStep, CountTypedStep, QueueTypedStep, ConnTypedStep
   DEF ServerTypes

(* Type correctness, for any number of threads, clients and descriptors    *)
(* and also for a server that is destroyed while its threads work.         *)
THEOREM TypesInvariant == Spec => [](PoolInv /\ Unstarted /\ ServerTypes)
<1>1. Init => ServerTypes
  BY ServerTypesInit
<1>2. PoolInv /\ ServerTypes /\ [Next]_allVars => ServerTypes'
  <2>1. ServerTypes /\ UNCHANGED allVars => ServerTypes'
    BY DEF allVars, poolVars, threadVars, serverVars, startVars, acceptorVars, connVars,
           queueVars, ServerTypes, NextTyped, ServerTyped, CountTyped, QueueTyped, ConnTyped
  <2> QED
    BY <2>1, ServerTypesStep
<1> QED
  BY <1>1, <1>2, PoolInvariant, PTL DEF Spec

-----------------------------------------------------------------------------
(***************************************************************************)
(* Where start, the destructor and the acceptor are.                       *)
(***************************************************************************)

NoListen(q) == \A k \in DOMAIN q : q[k].f # "listen"

(* The functor of listen comes when start is at its end. *)
ListenLast ==
  starter # "done" => \A l \in Loops : NoListen(pending[l]) /\ NoListen(batch[l])

(* Nobody listens or accepts before start is done, and start is not under  *)
(* way in a server that is being destroyed.                                *)
StartFits ==
  /\ ownerPc \in Starting => starter \in {"base", "other"}
  /\ server = "alive" <=> ownerPc \in Starting \cup {"out"}
  /\ server = "gone" => ownerPc = "gone"
  /\ server # "alive" => starter \in {"none", "done"}
  /\ listenning_ => starter = "done" /\ server # "gone"
  /\ nextConnId_ > 1 => starter = "done"
  /\ nextConnId_ = 1 => next_ = 0
  /\ acceptPc # "none" => server = "alive" /\ starter = "done"

(* Where the owner of the pool goes, unless it starts or destroys the pool *)
LEMMA OwnerGoes ==
  ASSUME PoolOnly
  PROVE  \/ ownerPc' = ownerPc
         \/ ownerPc \in Starting /\ ownerPc' \in Starting \cup {"out"}
         \/ ownerPc \in Quitting /\ ownerPc' \in Quitting \cup {"gone"}
<1> USE DEF Starting, Quitting
<1>1. StartLoop \/ WaitForLoop \/ SpuriousWakeup =>
        ownerPc \in Starting /\ ownerPc' \in Starting \cup {"out"}
  BY DEF StartLoop, WaitForLoop, SpuriousWakeup, nextStep
<1>2. QuitThread \/ WakeupThread \/ Join =>
        ownerPc \in Quitting /\ ownerPc' \in Quitting \cup {"gone"}
  BY DEF QuitThread, WakeupThread, Join, dyingStep
<1>3. ASSUME NEW t \in Threads, ThreadStep(t)
      PROVE  ownerPc' = ownerPc \/ (ownerPc = "asleep" /\ ownerPc' = "wait")
  BY <1>3 DEF ThreadStep, Publish, EnterLoop, CheckQuit, notifies
<1> QED
  BY <1>1, <1>2, <1>3 DEF PoolOnly, OwnerStep

(* An io thread's batch concerns only queues, connections and itself.      *)
LEMMA IoBatchSteps ==
  ASSUME NEW t \in Threads, IoFunctorsDone(t) \/ IoLoopEnds(t) \/ IoPollReturns(t)
  PROVE  UNCHANGED <<ownerPc, starter, server, listenning_, nextConnId_, next_, acceptPc,
                     loops_, numThreads_>>
BY DEF IoFunctorsDone, FunctorsDone, IoLoopEnds, LeaveThread, IoPollReturns, PollReturns,
       At, startVars, acceptorVars, connVars

(* StartFits holds in every step. *)
LEMMA StartFitsStep ==
  ASSUME PoolInv, Unstarted, ServerTypes, ListenLast, StartFits, Next
  PROVE  StartFits'
<1> DEFINE Good == StartFits'
           Here == <<ownerPc, starter, server, listenning_, nextConnId_, next_, acceptPc>>
<1> USE DEF StartFits
<1>0. UNCHANGED Here => Good
  OBVIOUS
<1>1. ASSUME NEW who \in {"base", "other"}, Start(who) PROVE Good
  <2>1. ownerPc = "out" /\ ownerPc' \in Starting \cup {"out"} /\ starter = "none"
    BY <1>1 DEF Start, PoolStart, nextStep, Starting
  <2>2. /\ starter' = who /\ UNCHANGED <<server, listenning_, nextConnId_, acceptPc, next_>>
        /\ server = "alive"
    BY <1>1 DEF Start, PoolStart, acceptorVars, connVars
  <2> QED
    BY <2>1, <2>2
<1>2. PoolOnly => Good
  <2> SUFFICES ASSUME PoolOnly PROVE Good
    OBVIOUS
  <2>1. UNCHANGED <<starter, server, listenning_, nextConnId_, acceptPc>>
    BY DEF PoolOnly, serverVars, startVars, acceptorVars, connVars
  <2>2. next_' = next_
    <3>1. OwnerStep \/ SpuriousWakeup => next_' = next_
      BY DEF OwnerStep, StartLoop, WaitForLoop, QuitThread, WakeupThread, Join, SpuriousWakeup
    <3>2. \A t \in Threads : ThreadStep(t) => next_' = next_
      BY DEF ThreadStep, Publish, EnterLoop, CheckQuit, At
    <3> QED
      BY <3>1, <3>2 DEF PoolOnly
  <2>3. CASE ownerPc' = ownerPc
    BY <1>0, <2>1, <2>2, <2>3
  <2>4. CASE ownerPc \in Starting /\ ownerPc' \in Starting \cup {"out"}
    <3>1. ownerPc # "gone" /\ ownerPc' # "gone"
      BY <2>4 DEF Starting
    <3> QED
      BY <2>1, <2>2, <2>4, <3>1
  <2>5. CASE ownerPc \in Quitting /\ ownerPc' \in Quitting \cup {"gone"}
    <3>1. /\ ownerPc \notin Starting \cup {"out", "gone"}
          /\ ownerPc' \notin Starting \cup {"out"}
      BY <2>5 DEF Quitting, Starting
    <3> QED
      BY <2>1, <2>2, <3>1
  <2> QED
    BY <2>3, <2>4, <2>5, OwnerGoes
<1>3. StartListening => Good
  <2> SUFFICES ASSUME StartListening PROVE Good
    OBVIOUS
  <2>1. /\ ownerPc = "out" /\ starter \in {"base", "other"} /\ starter' = "done"
        /\ UNCHANGED <<ownerPc, server, nextConnId_, next_, acceptPc>>
    BY DEF StartListening, poolRest, connVars
  <2>2. ownerPc \notin Starting /\ ownerPc # "gone"
    BY <2>1 DEF Starting
  <2> QED
    BY <2>1, <2>2
<1>4. Accept => Good
  <2> SUFFICES ASSUME Accept PROVE Good
    OBVIOUS
  <2>1. /\ listenning_ /\ nextConnId_' = nextConnId_ + 1
        /\ UNCHANGED <<ownerPc, starter, server, listenning_, acceptPc>>
    BY DEF Accept, newConnection, poolRest, startVars
  <2>2. nextConnId_ \in Nat /\ nextConnId_ >= 1
    BY DEF ServerTypes, CountTyped
  <2> QED
    BY <2>1, <2>2
<1>5. AcceptFails => Good
  <2> SUFFICES ASSUME AcceptFails PROVE Good
    OBVIOUS
  <2>1. /\ listenning_ /\ server # "destructing"
        /\ UNCHANGED <<ownerPc, starter, server, listenning_, nextConnId_, next_>>
    BY DEF AcceptFails, Polls, BaseFree, acceptorOnly, startVars, connVars, poolVars
  <2>2. server \in {"alive", "destructing", "gone"}
    BY DEF ServerTypes, ServerTyped
  <2> QED
    BY <2>1, <2>2
<1>6. AcceptOnReserve \/ CloseClient \/ ReopenReserve => Good
  BY DEF AcceptOnReserve, CloseClient, ReopenReserve, acceptorOnly, startVars, connVars, poolVars
<1>7. ASSUME NEW l \in Loops, RunFunctor(l) PROVE Good
  <2>1. UNCHANGED <<ownerPc, starter, server, nextConnId_, next_, acceptPc>>
    BY <1>7 DEF RunFunctor, poolRest, startVars
  <2>2. CASE RunListen /\ Head(batch[l]).f = "listen"
    <3>1. batch[l] \in Seq(Jobs) /\ batch[l] # <<>>
      BY <1>7 DEF RunFunctor, ServerTypes, QueueTyped
    <3>2. 1 \in DOMAIN batch[l] /\ batch[l][1].f = "listen"
      BY <2>2, <3>1
    <3>3. starter = "done"
      BY <3>2 DEF ListenLast, NoListen
    <3> QED
      BY <2>1, <2>2, <3>3 DEF RunListen
  <2>3. CASE listenning_' = listenning_
    BY <1>0, <2>1, <2>3
  <2> QED
    BY <1>7, <2>2, <2>3
       DEF RunFunctor, RunConnectEstablished, RunConnectDestroyed, RunRemoveConnectionInLoop
<1>8. BaseFunctorsDone => Good
  BY <1>0 DEF BaseFunctorsDone, poolRest, startVars, acceptorVars
<1>9. BasePollReturns \/ ClientArrives \/ OtherOpens \/ OtherCloses => Good
  BY <1>0 DEF BasePollReturns, ClientArrives, OtherOpens, OtherCloses, startVars,
              acceptorVars, connVars, poolVars
<1>10. AcceptorGone => Good
  BY DEF AcceptorGone, startVars, connVars, poolVars
<1>11. Destruct => Good
  <2> SUFFICES ASSUME Destruct PROVE Good
    OBVIOUS
  <2>1. /\ server = "alive" /\ server' = "destructing" /\ starter \in {"none", "done"}
        /\ acceptPc = "none"
        /\ UNCHANGED <<starter, listenning_, acceptPc, nextConnId_, next_>>
        /\ ownerPc' \in {"quit", "gone"}
    BY DEF Destruct, BaseFree, MayDestroy, PoolDestroy, dyingStep, startVars, acceptorVars
  <2>2. ownerPc' \notin Starting \cup {"out"}
    BY <2>1 DEF Starting
  <2> QED
    BY <2>1, <2>2
<1>12. \A t \in Threads : IoFunctorsDone(t) \/ IoLoopEnds(t) \/ IoPollReturns(t) => Good
  BY <1>0, IoBatchSteps
<1>13. \A i \in Conns : ConnectionCloses(i) => Good
  BY <1>0 DEF ConnectionCloses, poolRest, startVars, acceptorVars
<1> HIDE DEF Good
<1> QED
  BY <1>1, <1>2, <1>3, <1>4, <1>5, <1>6, <1>7, <1>8, <1>9, <1>10, <1>11, <1>12,
     <1>13, StepCases DEF Good

(* Sequences of functors without listen. *)
LEMMA NoListenKept ==
  ASSUME NEW p \in Seq(Jobs), NoListen(p)
  PROVE  /\ \A fn \in Jobs : fn.f # "listen" => NoListen(Append(p, fn))
         /\ p # <<>> => NoListen(Tail(p))
         /\ \A q \in Seq(Jobs) : NoListen(q) => NoListen(p \o q)
<1>1. ASSUME NEW fn \in Jobs, fn.f # "listen" PROVE NoListen(Append(p, fn))
  <2>1. Append(p, fn) \in Seq(Jobs) /\ Len(Append(p, fn)) = Len(p) + 1
    OBVIOUS
  <2>2. ASSUME NEW k \in 1..Len(p) + 1 PROVE Append(p, fn)[k].f # "listen"
    <3>1. Append(p, fn)[k] = IF k <= Len(p) THEN p[k] ELSE fn
      OBVIOUS
    <3> QED
      BY <1>1, <3>1 DEF NoListen
  <2> QED
    BY <2>1, <2>2 DEF NoListen
<1>2. ASSUME p # <<>> PROVE NoListen(Tail(p))
  <2>1. Tail(p) \in Seq(Jobs) /\ Len(Tail(p)) = Len(p) - 1
    BY <1>2
  <2>2. \A k \in 1..Len(p) - 1 : Tail(p)[k] = p[k + 1]
    BY <1>2
  <2> QED
    BY <2>1, <2>2 DEF NoListen
<1>3. ASSUME NEW q \in Seq(Jobs), NoListen(q) PROVE NoListen(p \o q)
  <2>1. p \o q \in Seq(Jobs) /\ Len(p \o q) = Len(p) + Len(q)
    OBVIOUS
  <2>2. ASSUME NEW k \in 1..Len(p) + Len(q) PROVE (p \o q)[k].f # "listen"
    <3>1. (p \o q)[k] = IF k <= Len(p) THEN p[k] ELSE q[k - Len(p)]
      OBVIOUS
    <3>2. k <= Len(p) => k \in DOMAIN p
      OBVIOUS
    <3>3. ~(k <= Len(p)) => k - Len(p) \in DOMAIN q
      OBVIOUS
    <3> QED
      BY <1>3, <3>1, <3>2, <3>3 DEF NoListen
  <2> QED
    BY <2>1, <2>2 DEF NoListen
<1> QED
  BY <1>1, <1>2, <1>3

(* A functor other than listen is queued. *)
LEMMA NoListenQueued ==
  ASSUME pending \in [Loops -> Seq(Jobs)], \A l \in Loops : NoListen(pending[l]),
         NEW m \in Loops, NEW f \in Calls, f # "listen", NEW c \in 0..MaxClients,
         pending' = [pending EXCEPT ![m] = Append(@, functor(f, c))]
  PROVE  \A l \in Loops : NoListen(pending'[l])
<1>1. /\ pending'[m] = Append(pending[m], functor(f, c))
      /\ \A l \in Loops : l # m => pending'[l] = pending[l]
  BY QueuedTyped
<1>2. functor(f, c) \in Jobs /\ functor(f, c).f # "listen"
  BY DEF functor, Jobs
<1>3. pending[m] \in Seq(Jobs) /\ NoListen(pending[m])
  OBVIOUS
<1>4. NoListen(pending'[m])
  BY <1>1, <1>2, <1>3, NoListenKept
<1> QED
  BY <1>1, <1>4

(* Only start queues listen. *)
LEMMA ListenLastStep ==
  ASSUME PoolInv, ServerTypes, ListenLast, Next
  PROVE  ListenLast'
<1> DEFINE AtRest == \A l \in Loops : NoListen(pending[l]) /\ NoListen(batch[l])
           Good == starter' # "done" => AtRest'
<1>0. /\ pending \in [Loops -> Seq(Jobs)] /\ batch \in [Loops -> Seq(Jobs)]
      /\ ConnTyped /\ CountTyped
  BY DEF ServerTypes, QueueTyped
<1>1. starter' # "done" => starter # "done"
  <2>1. UNCHANGED starter => (starter' # "done" => starter # "done")
    OBVIOUS
  <2>2. \A who \in {"base", "other"} : Start(who) => starter = "none"
    BY DEF Start
  <2>3. StartListening => starter' = "done"
    BY DEF StartListening
  <2>4. PoolOnly \/ Accept \/ AcceptFails \/ AcceptOnReserve \/ CloseClient \/ ReopenReserve
          \/ BaseFunctorsDone \/ AcceptorGone \/ BasePollReturns \/ Destruct
          \/ ClientArrives \/ OtherOpens \/ OtherCloses => UNCHANGED starter
    BY DEF PoolOnly, serverVars, Accept, AcceptFails, AcceptOnReserve, CloseClient,
           ReopenReserve, acceptorOnly, BaseFunctorsDone, AcceptorGone, BasePollReturns,
           Destruct, ClientArrives, OtherOpens, OtherCloses, startVars
  <2>5. \A l \in Loops : RunFunctor(l) => UNCHANGED starter
    BY DEF RunFunctor, startVars
  <2>6. \A t \in Threads : IoFunctorsDone(t) \/ IoLoopEnds(t) \/ IoPollReturns(t) =>
          UNCHANGED starter
    BY DEF IoFunctorsDone, IoLoopEnds, IoPollReturns, startVars
  <2>7. \A i \in Conns : ConnectionCloses(i) => UNCHANGED starter
    BY DEF ConnectionCloses, startVars
  <2> DEFINE Stays == starter' # "done" => starter # "done"
  <2>8. UNCHANGED starter => Stays
    OBVIOUS
  <2>9. (\A who \in {"base", "other"} : Start(who) => Stays) /\ (StartListening => Stays)
    BY <2>2, <2>3
  <2> HIDE DEF Stays
  <2>10. Stays
    BY <2>4, <2>5, <2>6, <2>7, <2>8, <2>9, StepCases
  <2> QED
    BY <2>10 DEF Stays
<1> SUFFICES ASSUME starter' # "done", AtRest PROVE AtRest'
  BY <1>1 DEF ListenLast
<1>2. ASSUME \A l \in Loops : NoListen(pending'[l]), UNCHANGED batch PROVE AtRest'
  BY <1>2
<1>3. UNCHANGED <<next_, connVars, queueVars>> => AtRest'
  BY <1>2 DEF queueVars
<1>4. ~StartListening
  BY DEF StartListening
<1>5. Accept => AtRest'
  <2> SUFFICES ASSUME Accept PROVE AtRest'
    OBVIOUS
  <2>1. \/ pending' = pending
        \/ pending' = [pending EXCEPT ![nextLoop] =
                         Append(@, functor("connectEstablished", nextConnId_))]
    BY DEF Accept, newConnection, queues, queueInLoop
  <2>2. nextConnId_ \in 0..MaxClients
    BY ConnsFinite DEF Accept, ServerTypes, CountTyped
  <2>3. nextLoop \in Loops
    BY NextLoopKnown DEF ServerTypes
  <2>4. \A l \in Loops : NoListen(pending'[l])
    BY <1>0, <2>1, <2>2, <2>3, NoListenQueued DEF Calls
  <2> QED
    BY <1>2, <2>4 DEF Accept
<1>6. ASSUME NEW i, removeConnectionInLoop(i)
      PROVE  \A l \in Loops : NoListen(pending'[l])
  <2>1. CASE pending' = pending
    BY <2>1
  <2>2. CASE pending' # pending
    <3>1. /\ i \in Conns /\ conn[i].loop \in Loops
          /\ pending' = [pending EXCEPT ![conn[i].loop] =
                           Append(@, functor("connectDestroyed", i))]
      BY <1>0, <1>6, <2>2, RemoveQueues
    <3>2. i \in 0..MaxClients
      BY <3>1, ConnsFinite DEF Conns
    <3> QED
      BY <1>0, <3>1, <3>2, NoListenQueued DEF Calls
  <2> QED
    BY <2>1, <2>2
<1>7. ASSUME NEW l \in Loops, RunFunctor(l) PROVE AtRest'
  <2>1. \A m \in Loops : NoListen(pending'[m])
    <3>1. pending' = pending \/ \E i : removeConnectionInLoop(i)
      BY <1>7 DEF RunFunctor, RunListen, RunConnectEstablished, RunConnectDestroyed,
                  RunRemoveConnectionInLoop
    <3> QED
      BY <1>6, <3>1
  <2>2. batch[l] \in Seq(Jobs) /\ batch[l] # <<>> /\ NoListen(batch[l])
    BY <1>0, <1>7 DEF RunFunctor
  <2>3. NoListen(Tail(batch[l]))
    BY <2>2, NoListenKept
  <2>4. batch'[l] = Tail(batch[l]) /\ \A m \in Loops : m # l => batch'[m] = batch[m]
    BY <1>0, <1>7 DEF RunFunctor
  <2>5. \A m \in Loops : NoListen(batch'[m])
    BY <2>3, <2>4
  <2> QED
    BY <2>1, <2>5
<1>8. BaseFunctorsDone => AtRest'
  BY <1>2 DEF BaseFunctorsDone
<1>9. ASSUME NEW l \in Loops, takesPending(l) PROVE AtRest'
  <2>1. /\ batch'[l] = pending[l] /\ \A m \in Loops : m # l => batch'[m] = batch[m]
        /\ pending'[l] = <<>> /\ \A m \in Loops : m # l => pending'[m] = pending[m]
    BY <1>0, <1>9 DEF takesPending
  <2>2. NoListen(<<>>)
    BY DEF NoListen
  <2> QED
    BY <2>1, <2>2
<1>10. BasePollReturns => AtRest'
  BY <1>9 DEF BasePollReturns, Loops
<1>11. \A t \in Threads : IoPollReturns(t) => AtRest'
  BY <1>9 DEF IoPollReturns, Loops
<1>12. \A t \in Threads : IoFunctorsDone(t) => AtRest'
  BY <1>2 DEF IoFunctorsDone
<1>13. ASSUME NEW t \in Threads, IoLoopEnds(t) PROVE AtRest'
  <2>1. pending' = [pending EXCEPT ![t] = <<>>] /\ UNCHANGED batch
    BY <1>13 DEF IoLoopEnds
  <2>2. \A m \in Loops : pending'[m] = pending[m] \/ pending'[m] = <<>>
    BY <1>0, <2>1
  <2>3. NoListen(<<>>)
    BY DEF NoListen
  <2> QED
    BY <2>1, <2>2, <2>3
<1>14. Destruct => AtRest'
  <2> SUFFICES ASSUME Destruct PROVE AtRest'
    OBVIOUS
  <2> DEFINE later(t) == {i \in connections_ : conn[i].loop = t}
             jobs(t) == SetToSeq({functor("connectDestroyed", i) : i \in later(t)})
  <2>1. /\ pending' = [l \in Loops |-> IF l = Base THEN pending[l] ELSE pending[l] \o jobs(l)]
        /\ UNCHANGED batch
    BY DEF Destruct
  <2>2. ASSUME NEW l \in Loops PROVE jobs(l) \in Seq(Jobs) /\ NoListen(jobs(l))
    <3>1. later(l) \in SUBSET Conns
      BY <1>0, MapHoldsConns
    <3> HIDE DEF later
    <3>2. jobs(l) \in Seq(Jobs) /\ \A k \in DOMAIN jobs(l) : jobs(l)[k].f = "connectDestroyed"
      BY <3>1, LaterTyped
    <3> QED
      BY <3>2 DEF NoListen
  <2> HIDE DEF jobs
  <2>3. \A l \in Loops : NoListen(pending[l] \o jobs(l))
    BY <1>0, <2>2, NoListenKept
  <2>4. \A l \in Loops : pending'[l] = pending[l] \/ pending'[l] = pending[l] \o jobs(l)
    BY <2>1
  <2> QED
    BY <1>2, <2>1, <2>3, <2>4
<1>15. ASSUME NEW i \in Conns, ConnectionCloses(i) PROVE AtRest'
  <2>1. \/ pending' = pending
        \/ removeConnectionInLoop(i)
        \/ pending' = [pending EXCEPT ![Base] = Append(@, functor("removeConnectionInLoop", i))]
    BY <1>15 DEF ConnectionCloses, removeConnection, queues, queueInLoop
  <2>2. i \in 0..MaxClients /\ Base \in Loops
    BY ConnsFinite DEF Conns, Loops
  <2>3. \A l \in Loops : NoListen(pending'[l])
    BY <1>0, <1>6, <2>1, <2>2, NoListenQueued DEF Calls
  <2> QED
    BY <1>2, <1>15, <2>3 DEF ConnectionCloses
<1> DEFINE Fine == AtRest'
<1>16. Fine
  <2> HIDE DEF AtRest
  <2>1. UNCHANGED <<next_, connVars, queueVars>> => Fine
    BY <1>3
  <2>2. (StartListening => Fine) /\ (Accept => Fine) /\ (BaseFunctorsDone => Fine)
        /\ (BasePollReturns => Fine) /\ (Destruct => Fine)
    BY <1>4, <1>5, <1>8, <1>10, <1>14
  <2>3. \A l \in Loops : RunFunctor(l) => Fine
    BY <1>7
  <2>4. (\A t \in Threads : IoFunctorsDone(t) => Fine)
        /\ (\A t \in Threads : IoLoopEnds(t) => Fine)
        /\ (\A t \in Threads : IoPollReturns(t) => Fine)
    BY <1>11, <1>12, <1>13
  <2>5. \A i \in Conns : ConnectionCloses(i) => Fine
    BY <1>15
  <2> HIDE DEF Fine
  <2> QED
    BY <2>1, <2>2, <2>3, <2>4, <2>5, ConnMoves
<1> QED
  BY <1>16

(* The state of the server that all of the following rests on. *)
ServerInv == PoolInv /\ Unstarted /\ ServerTypes /\ ListenLast /\ StartFits

(* It holds at first. *)
LEMMA ServerInvInit ==
  ASSUME Init
  PROVE  ServerInv
<1>1. ListenLast
  BY DEF Init, ListenLast, NoListen
<1>2. StartFits
  BY DEF Init, PoolInit, StartFits, Starting
<1> QED
  BY <1>1, <1>2, PoolInvInit, UnstartedInit, ServerTypesInit DEF ServerInv, Init

(* It holds in every step. *)
LEMMA ServerInvStep ==
  ASSUME ServerInv, [Next]_allVars
  PROVE  ServerInv'
<1>1. CASE Next
  BY <1>1, PoolInvStep, UnstartedStep, ServerTypesStep, ListenLastStep, StartFitsStep
     DEF ServerInv
<1>2. CASE UNCHANGED allVars
  <2>1. PoolInv' /\ Unstarted'
    BY <1>2, PoolRests DEF allVars, poolVars, poolRest, threadVars, serverVars, startVars,
                           Unstarted, ServerInv
  <2>2. ServerTypes'
    BY <1>2 DEF allVars, poolVars, threadVars, serverVars, startVars, acceptorVars, connVars,
           queueVars, ServerTypes, NextTyped, ServerTyped, CountTyped, QueueTyped, ConnTyped,
           ServerInv
  <2>3. ListenLast' /\ StartFits'
    BY <1>2 DEF allVars, poolVars, threadVars, serverVars, startVars, acceptorVars, connVars,
           queueVars, ListenLast, StartFits, ServerInv
  <2> QED
    BY <2>1, <2>2, <2>3 DEF ServerInv
<1> QED
  BY <1>1, <1>2

(* Types, the pool, and where start, destructor and acceptor may be.       *)
THEOREM ServerInvariant == Spec => []ServerInv
BY ServerInvInit, ServerInvStep, PTL DEF Spec

-----------------------------------------------------------------------------
(***************************************************************************)
(* Connections are dealt out evenly.                                       *)
(***************************************************************************)

(* Only Accept makes a connection, and none changes its loop. *)
LEMMA LoopsStay ==
  ASSUME ServerInv, Next
  PROVE  \/ Accept
         \/ /\ nextConnId_' = nextConnId_ /\ next_' = next_
            /\ \A i \in Conns : conn'[i].loop = conn[i].loop
<1> DEFINE Good == \/ Accept
                   \/ /\ nextConnId_' = nextConnId_ /\ next_' = next_
                      /\ \A i \in Conns : conn'[i].loop = conn[i].loop
<1>0. /\ conn \in [Conns -> [state : State, loop : Loops]] /\ free \in Nat
      /\ QueueTyped /\ CountTyped /\ ConnTyped
  BY DEF ServerInv, ServerTypes, ConnTyped, CountTyped
<1>1. UNCHANGED <<next_, connVars, queueVars>> => Good
  BY DEF connVars
<1>2. StartListening \/ BasePollReturns => Good
  BY DEF StartListening, BasePollReturns, connVars, poolVars
<1>3. ASSUME NEW l \in Loops, RunFunctor(l) PROVE Good
  <2> DEFINE c == Head(batch[l]).c
  <2>1. conn' = conn \/ \E s \in {"up", "destroyed"} : conn' = [conn EXCEPT ![c].state = s]
    BY <1>3 DEF RunFunctor, RunListen, RunConnectEstablished, RunConnectDestroyed,
                RunRemoveConnectionInLoop
  <2> HIDE DEF c
  <2>2. CASE conn' = conn \/ c \notin Conns
    <3>1. conn' = conn
      BY <1>0, <2>1, <2>2
    <3> QED
      BY <1>3, <3>1 DEF RunFunctor
  <2>3. CASE c \in Conns /\ conn' # conn
    <3>1. PICK s \in State : conn' = [conn EXCEPT ![c].state = s]
      BY <2>1, <2>3 DEF State
    <3>2. \A i \in Conns : conn'[i].loop = conn[i].loop
      BY <1>0, <2>3, <3>1, StateChanges
    <3> QED
      BY <1>3, <3>2 DEF RunFunctor
  <2> QED
    BY <2>2, <2>3
<1>4. ASSUME NEW cs \in SUBSET Conns, frees(cs)
      PROVE  \A i \in Conns : conn'[i].loop = conn[i].loop
  BY <1>0, <1>4, FreesOutcome
<1>5. BaseFunctorsDone => Good
  BY <1>0, <1>4 DEF BaseFunctorsDone, dropsFunctors, QueueTyped, Loops
<1>6. Destruct => Good
  BY <1>0, DestructOutcome DEF Destruct, PoolDestroy
<1>7. \A t \in Threads : IoFunctorsDone(t) => Good
  BY <1>0, <1>4 DEF IoFunctorsDone, FunctorsDone, At, dropsFunctors, QueueTyped, Loops
<1>8. \A t \in Threads : IoLoopEnds(t) => Good
  BY <1>4, MentionsConns DEF IoLoopEnds, LeaveThread, At
<1>9. \A t \in Threads : IoPollReturns(t) => Good
  BY DEF IoPollReturns, PollReturns, At, connVars
<1>10. ASSUME NEW i \in Conns, ConnectionCloses(i) PROVE Good
  <2>1. conn' = [conn EXCEPT ![i].state = "down"] /\ "down" \in State
    BY <1>10 DEF ConnectionCloses, setsDisconnected, State
  <2>2. \A j \in Conns : conn'[j].loop = conn[j].loop
    BY <1>0, <2>1, StateChanges
  <2> QED
    BY <1>10, <2>2 DEF ConnectionCloses
<1>11. Accept => Good
  OBVIOUS
<1> HIDE DEF Good
<1> QED
  BY <1>1, <1>2, <1>3, <1>5, <1>6, <1>7, <1>8, <1>9, <1>10, <1>11, ConnMoves DEF Good

Dealt(l) == {i \in 1..(nextConnId_ - 1) : conn[i].loop = l}

(* A connection more for a loop, or none. *)
LEMMA ShareGrows ==
  ASSUME ServerInv, Next, NEW l
  PROVE  /\ share(l) \in Nat
         /\ ~Accept => share(l)' = share(l)
         /\ Accept => share(l)' = share(l) + IF l = nextLoop THEN 1 ELSE 0
<1>0. /\ CountTyped /\ ConnTyped /\ PoolInv /\ NextTyped /\ nextConnId_ \in Nat
      /\ nextConnId_ >= 1 /\ nextConnId_ <= MaxClients + 1
  BY MapHoldsConns DEF ServerInv, ServerTypes, CountTyped
<1>1. share(l) = Cardinality(Dealt(l)) /\ share(l)' = Cardinality(Dealt(l)')
  BY DEF share, Dealt
<1>2. Dealt(l) \subseteq Conns /\ IsFiniteSet(Dealt(l)) /\ Cardinality(Dealt(l)) \in Nat
  <2>1. Dealt(l) \in SUBSET Conns
    BY <1>0, ConnsFinite DEF Dealt, Conns
  <2> QED
    BY <2>1, ConnsFinite
<1>3. CASE ~Accept
  <2>1. nextConnId_' = nextConnId_ /\ \A i \in Conns : conn'[i].loop = conn[i].loop
    BY <1>3, LoopsStay
  <2>2. \A i \in 1..(nextConnId_ - 1) : i \in Conns
    BY <1>0, ConnsFinite DEF Conns
  <2>3. Dealt(l)' = Dealt(l)
    BY <2>1, <2>2 DEF Dealt
  <2> QED
    BY <1>1, <1>2, <1>3, <2>3
<1>4. CASE Accept
  <2> DEFINE n == nextConnId_
  <2>1. /\ n \in Conns /\ nextConnId_' = n + 1 /\ conn'[n].loop = nextLoop
        /\ \A i \in Conns : i # n => conn'[i] = conn[i]
    BY <1>0, <1>4, AcceptOutcome
  <2>2. \A i : i \in 1..(nextConnId_' - 1) <=> i \in 1..(n - 1) \/ i = n
    BY <1>0, <2>1
  <2>3. \A i \in 1..(n - 1) : i \in Conns /\ i # n
    BY <1>0, <2>1, ConnsFinite DEF Conns
  <2>4. CASE l = nextLoop
    <3>1. Dealt(l)' = Dealt(l) \cup {n}
      BY <2>1, <2>2, <2>3, <2>4 DEF Dealt
    <3>2. n \notin Dealt(l)
      BY <2>3 DEF Dealt
    <3>3. Cardinality(Dealt(l) \cup {n}) = Cardinality(Dealt(l)) + 1
      BY <1>2, <3>2, FS_AddElement
    <3> QED
      BY <1>1, <1>2, <1>4, <2>4, <3>1, <3>3
  <2>5. CASE l # nextLoop
    <3>1. Dealt(l)' = Dealt(l)
      BY <2>1, <2>2, <2>3, <2>5 DEF Dealt
    <3> QED
      BY <1>1, <1>2, <1>4, <2>5, <3>1
  <2> QED
    BY <2>4, <2>5
<1> QED
  BY <1>3, <1>4

(* Those before next_ have had one connection more than the others.        *)
Dealing ==
  /\ loops_ = <<>> => share(Base) = nextConnId_ - 1
  /\ \A l \in 1..Len(loops_) : share(l) = share(Len(loops_)) + IF l <= next_ THEN 1 ELSE 0

(* Nothing is dealt before the first connection. *)
LEMMA NothingDealt ==
  ASSUME nextConnId_ = 1
  PROVE  \A l : share(l) = 0
<1>1. \A l : {i \in 1..(nextConnId_ - 1) : conn[i].loop = l} = {}
  OBVIOUS
<1> QED
  BY <1>1, FS_EmptySet DEF share

(* The order in which connections are dealt is kept in every step.         *)
LEMMA DealingStep ==
  ASSUME ServerInv, Dealing, Next
  PROVE  Dealing'
<1>0. /\ PoolInv /\ NextTyped /\ next_ \in Nat /\ nextConnId_ \in Nat /\ nextConnId_ >= 1
      /\ StartFits /\ Len(loops_) \in Nat /\ loops_ \in Seq(Threads)
  BY DEF ServerInv, ServerTypes, CountTyped, NextTyped, PoolInv, PoolTyped
<1>1. CASE loops_' # loops_
  <2>1. ownerPc = "wait" /\ loops_' = Append(loops_, Len(loops_) + 1)
    BY <1>0, <1>1, LoopsGrow
  <2>2. nextConnId_ = 1 /\ next_ = 0
    BY <1>0, <2>1 DEF StartFits, Starting
  <2>3. ~Accept
    BY <1>1 DEF Accept, poolRest
  <2>4. nextConnId_' = 1 /\ next_' = 0
    BY <2>2, <2>3, LoopsStay
  <2>5. \A l : share(l)' = 0
    BY <2>4, NothingDealt, <2>2, <2>3, ShareGrows
  <2>6. Len(loops_') \in Nat /\ loops_' # <<>>
    BY <1>0, <2>1
  <2> QED
    BY <2>4, <2>5, <2>6 DEF Dealing
<1>2. CASE loops_' = loops_ /\ ~Accept
  <2>1. nextConnId_' = nextConnId_ /\ next_' = next_
    BY <1>2, LoopsStay
  <2>2. \A l : share(l)' = share(l)
    BY <1>2, ShareGrows
  <2>3. PICK n \in Nat : n = Len(loops_)
    BY <1>0
  <2>4. \A l \in 1..n : share(l)' = share(n)' + IF l <= next_' THEN 1 ELSE 0
    BY <2>1, <2>2, <2>3 DEF Dealing
  <2>5. loops_' = <<>> => share(Base)' = nextConnId_' - 1
    BY <1>2, <2>1, <2>2 DEF Dealing
  <2>6. n = Len(loops_')
    BY <1>2, <2>3
  <2> QED
    BY <2>4, <2>5, <2>6 DEF Dealing
<1>3. CASE Accept
  <2>1. /\ loops_' = loops_ /\ nextConnId_' = nextConnId_ + 1
        /\ next_' = IF loops_ = <<>> THEN next_
                    ELSE IF next_ + 1 >= Len(loops_) THEN 0 ELSE next_ + 1
    BY <1>3 DEF Accept, newConnection, poolRest, getNextLoop, advanced
  <2>2. \A l : share(l) \in Nat /\ share(l)' = share(l) + IF l = nextLoop THEN 1 ELSE 0
    BY <1>3, ShareGrows
  <2>3. CASE loops_ = <<>>
    <3>1. nextLoop = Base
      BY <1>0, <2>3, NextLoopKnown
    <3>2. share(Base)' = nextConnId_' - 1
      BY <1>0, <2>1, <2>2, <2>3, <3>1 DEF Dealing
    <3>3. Len(loops_') = 0
      BY <2>1, <2>3
    <3> QED
      BY <3>2, <3>3 DEF Dealing
  <2>4. CASE loops_ # <<>>
    <3>1. PICK n \in Nat : n = Len(loops_)
      BY <1>0
    <3>2. n >= 1 /\ nextLoop = next_ + 1 /\ next_ + 1 <= n
      BY <1>0, <2>4, <3>1, NextLoopKnown
    <3>3. next_' = IF next_ + 1 >= n THEN 0 ELSE next_ + 1
      BY <2>1, <2>4, <3>1
    <3>4. ASSUME NEW l \in 1..n
          PROVE  share(l)' = share(n)' + IF l <= next_' THEN 1 ELSE 0
      <4>1. /\ share(l) = share(n) + IF l <= next_ THEN 1 ELSE 0
            /\ share(l)' = share(l) + IF l = next_ + 1 THEN 1 ELSE 0
            /\ share(n)' = share(n) + IF n = next_ + 1 THEN 1 ELSE 0
            /\ share(l) \in Nat /\ share(n) \in Nat
        BY <2>2, <3>1, <3>2 DEF Dealing
      <4> HIDE DEF share
      <4>2. CASE next_ + 1 >= n
        <5>1. n = next_ + 1 /\ next_' = 0
          BY <1>0, <3>2, <3>3, <4>2
        <5> QED
          BY <1>0, <4>1, <5>1
      <4>3. CASE next_ + 1 < n
        <5>1. n # next_ + 1 /\ next_' = next_ + 1
          BY <1>0, <3>2, <3>3, <4>3
        <5> QED
          BY <1>0, <4>1, <5>1
      <4> QED
        BY <1>0, <4>2, <4>3
    <3>5. n = Len(loops_') /\ loops_' # <<>>
      BY <2>1, <2>4, <3>1
    <3> QED
      BY <3>4, <3>5 DEF Dealing
  <2> QED
    BY <2>3, <2>4
<1> QED
  BY <1>1, <1>2, <1>3 DEF Accept, poolRest

(* net/TcpServer.h:52-53: connections are assigned on a round-robin basis. *)
(* Whatever closes meanwhile, the loops' shares of all connections differ  *)
(* by one at most.                                                         *)
THEOREM SharesStayEven == Spec => []RoundRobin
<1>1. Init => Dealing
  <2> SUFFICES ASSUME Init PROVE Dealing
    OBVIOUS
  <2>1. nextConnId_ = 1 /\ loops_ = <<>> /\ Len(loops_) = 0
    BY DEF Init, PoolInit
  <2> QED
    BY <2>1, NothingDealt DEF Dealing
<1>2. ServerInv /\ Dealing /\ [Next]_allVars => Dealing'
  <2> SUFFICES ASSUME ServerInv, Dealing, UNCHANGED allVars PROVE Dealing'
    BY DealingStep
  <2>1. UNCHANGED <<loops_, next_, nextConnId_, conn>>
    BY DEF allVars, poolVars, serverVars, connVars
  <2> QED
    BY <2>1 DEF Dealing, share
<1>3. ServerInv /\ Dealing => RoundRobin
  <2> SUFFICES ASSUME ServerInv, Dealing PROVE RoundRobin
    OBVIOUS
  <2>1. loops_ \in Seq(Threads) /\ Len(loops_) \in Nat /\ \A i \in 1..Len(loops_) : loops_[i] = i
    BY DEF ServerInv, PoolInv, PoolTyped
  <2>2. \A l : share(l) \in Nat
    <3>1. CountTyped /\ ConnTyped /\ nextConnId_ \in Nat /\ nextConnId_ >= 1
          /\ nextConnId_ <= MaxClients + 1
      BY MapHoldsConns DEF ServerInv, ServerTypes, CountTyped
    <3>2. \A l : {i \in 1..(nextConnId_ - 1) : conn[i].loop = l} \in SUBSET Conns
      BY <3>1, ConnsFinite DEF Conns
    <3> QED
      BY <3>2, ConnsFinite DEF share
  <2>3. ASSUME NEW l \in ToSet(loops_), NEW m \in ToSet(loops_) PROVE share(l) - share(m) <= 1
    <3>1. l \in 1..Len(loops_) /\ m \in 1..Len(loops_)
      BY <2>1 DEF ToSet
    <3>2. /\ share(l) = share(Len(loops_)) + IF l <= next_ THEN 1 ELSE 0
          /\ share(m) = share(Len(loops_)) + IF m <= next_ THEN 1 ELSE 0
      BY <3>1 DEF Dealing
    <3>3. share(l) \in Nat /\ share(m) \in Nat /\ share(Len(loops_)) \in Nat
      BY <2>2
    <3> HIDE DEF share
    <3> QED
      BY <3>2, <3>3
  <2> QED
    BY <2>3 DEF RoundRobin, Dealing
<1> QED
  BY <1>1, <1>2, <1>3, ServerInvariant, PTL DEF Spec

-----------------------------------------------------------------------------
(***************************************************************************)
(* Descriptors.                                                            *)
(***************************************************************************)

(* A program that has failed does not go on. *)
LEMMA FailedStops ==
  ASSUME Next
  PROVE  NotFailed
<1>1. \A who \in {"base", "other"} : Start(who) => NotFailed
  BY DEF Start, PoolStart
<1>2. PoolOnly => NotFailed
  BY DEF PoolOnly, OwnerStep, StartLoop, WaitForLoop, QuitThread, WakeupThread, Join,
         SpuriousWakeup, ThreadStep, Publish, EnterLoop, CheckQuit, At
<1>3. StartListening \/ Accept \/ AcceptFails \/ AcceptOnReserve \/ CloseClient
        \/ ReopenReserve \/ BaseFunctorsDone \/ AcceptorGone \/ BasePollReturns
        \/ ClientArrives => NotFailed
  BY DEF StartListening, Accept, AcceptFails, AcceptOnReserve, CloseClient, ReopenReserve,
         BaseFunctorsDone, AcceptorGone, BasePollReturns, ClientArrives
<1>4. OtherOpens \/ OtherCloses => NotFailed
  BY DEF OtherOpens, OtherCloses, OthersMay
<1>5. Destruct => NotFailed
  BY DEF Destruct, PoolDestroy
<1>6. \A l \in Loops : RunFunctor(l) => NotFailed
  BY DEF RunFunctor
<1>7. \A t \in Threads : IoFunctorsDone(t) \/ IoLoopEnds(t) \/ IoPollReturns(t) => NotFailed
  BY DEF IoFunctorsDone, FunctorsDone, IoLoopEnds, LeaveThread, IoPollReturns, PollReturns, At
<1>8. \A i \in Conns : ConnectionCloses(i) => NotFailed
  BY DEF ConnectionCloses
<1> QED
  BY <1>1, <1>2, <1>3, <1>4, <1>5, <1>6, <1>7, <1>8, StepCases

(* The connections that have a descriptor. *)
Live == {i \in Conns : conn[i].state \notin {"none", "freed"}}

(* What idleFd_ is at each place of handleRead. *)
IdleFits ==
  /\ acceptPc \in {"accept", "open"} => idleFd_ = "closed"
  /\ acceptPc = "close" => idleFd_ \in {"client", "lost"}
  /\ acceptPc = "none" => idleFd_ \in {"open", "closed", "lost"}

Spare == IF idleFd_ \in {"open", "client"} THEN 1 ELSE 0
Balance == free + taken + Cardinality(Live) + Spare = FreeFds + 1

(* Without threads, the descriptor that is given up is there to be taken   *)
(* back.                                                                   *)
ReserveFits ==
  numThreads_ = 0 =>
    /\ acceptPc = "accept" => free > 0 /\ backlog > 0
    /\ acceptPc = "close" => idleFd_ = "client"
    /\ acceptPc = "open" => free > 0
    /\ acceptPc = "none" /\ server = "alive" => idleFd_ = "open"

(* IdleFits holds in every step. *)
LEMMA IdleFitsStep ==
  ASSUME ServerInv, IdleFits, Next
  PROVE  IdleFits'
<1> DEFINE Good == IdleFits'
<1> USE DEF IdleFits
<1>0. UNCHANGED <<idleFd_, acceptPc>> => Good
  OBVIOUS
<1>1. \A who \in {"base", "other"} : Start(who) => Good
  BY DEF Start, acceptorVars
<1>2. PoolOnly => Good
  BY <1>0 DEF PoolOnly, serverVars, acceptorVars
<1>3. StartListening \/ Accept \/ BasePollReturns \/ BaseFunctorsDone \/ ClientArrives
        \/ OtherOpens \/ OtherCloses \/ Destruct => Good
  BY <1>0 DEF StartListening, Accept, BasePollReturns, BaseFunctorsDone, ClientArrives,
              OtherOpens, OtherCloses, Destruct, acceptorVars
<1>4. AcceptFails => Good
  BY DEF AcceptFails, givesUpReserve
<1>5. AcceptOnReserve => Good
  BY DEF AcceptOnReserve
<1>6. CloseClient => Good
  BY DEF CloseClient
<1>7. ReopenReserve => Good
  BY DEF ReopenReserve
<1>8. \A l \in Loops : RunFunctor(l) => Good
  BY <1>0 DEF RunFunctor
<1>9. AcceptorGone => Good
  BY DEF AcceptorGone, ServerInv, StartFits
<1>10. \A t \in Threads : IoFunctorsDone(t) \/ IoLoopEnds(t) \/ IoPollReturns(t) => Good
  BY <1>0 DEF IoFunctorsDone, IoLoopEnds, IoPollReturns, acceptorVars
<1>11. \A i \in Conns : ConnectionCloses(i) => Good
  BY <1>0 DEF ConnectionCloses, acceptorVars
<1> HIDE DEF Good
<1> QED
  BY <1>1, <1>2, <1>3, <1>4, <1>5, <1>6, <1>7, <1>8, <1>9, <1>10, <1>11, StepCases DEF Good

(* ReserveFits holds in every step: nobody takes a descriptor while the    *)
(* base loop's thread, the only one, is in handleRead.                     *)
LEMMA ReserveFitsStep ==
  ASSUME ServerInv, IdleFits, ReserveFits, Next
  PROVE  ReserveFits'
<1> DEFINE Good == ReserveFits'
<1> USE DEF ReserveFits
<1>a. /\ CountTyped /\ ConnTyped /\ free \in Nat /\ backlog \in Nat
      /\ conn \in [Conns -> [state : State, loop : Loops]]
      /\ CountTyped' /\ free' \in Nat /\ backlog' \in Nat
  BY ServerInvStep DEF ServerInv, ServerTypes, CountTyped, ConnTyped
<1>0. ASSUME UNCHANGED <<numThreads_, idleFd_, acceptPc, server, backlog>>, free' >= free
      PROVE  Good
  BY <1>0, <1>a
<1>b. UNCHANGED <<numThreads_, idleFd_, acceptPc, server, backlog, free>> => Good
  BY <1>a
<1>1. \A who \in {"base", "other"} : Start(who) => Good
  BY <1>b DEF Start, PoolStart, acceptorVars
<1>2. PoolOnly => Good
  <2> SUFFICES ASSUME PoolOnly PROVE Good
    OBVIOUS
  <2>1. OwnerStep \/ SpuriousWakeup => numThreads_' = numThreads_
    BY DEF OwnerStep, StartLoop, WaitForLoop, QuitThread, WakeupThread, Join, SpuriousWakeup
  <2>2. \A t \in Threads : ThreadStep(t) => numThreads_' = numThreads_
    BY DEF ThreadStep, Publish, EnterLoop, CheckQuit, At
  <2> QED
    BY <1>b, <2>1, <2>2 DEF PoolOnly, serverVars, acceptorVars
<1>3. StartListening \/ BasePollReturns => Good
  BY <1>b DEF StartListening, BasePollReturns, acceptorVars, poolRest, poolVars
<1>4. Accept => Good
  <2> SUFFICES ASSUME Accept PROVE Good
    OBVIOUS
  <2>1. acceptPc = "none" /\ UNCHANGED <<numThreads_, idleFd_, acceptPc, server>>
    BY DEF Accept, Polls, BaseFree, poolRest
  <2> QED
    BY <2>1
<1>5. AcceptFails => Good
  <2> SUFFICES ASSUME AcceptFails, numThreads_' = 0 PROVE Good
    OBVIOUS
  <2>1. /\ acceptPc = "none" /\ acceptPc' = "accept" /\ numThreads_ = 0 /\ listenning_
        /\ backlog > 0 /\ backlog' = backlog /\ server # "destructing"
        /\ free' = IF idleFd_ = "open" THEN free + 1 ELSE free
    BY DEF AcceptFails, Polls, BaseFree, givesUpReserve, acceptorOnly, poolVars
  <2>2. server = "alive"
    BY <2>1 DEF ServerInv, StartFits, ServerTypes, ServerTyped
  <2>3. free' > 0
    BY <1>a, <2>1, <2>2
  <2> QED
    BY <2>1, <2>3
<1>6. AcceptOnReserve => Good
  <2> SUFFICES ASSUME AcceptOnReserve, numThreads_' = 0 PROVE Good
    OBVIOUS
  <2>1. acceptPc = "accept" /\ acceptPc' = "close" /\ numThreads_ = 0
    BY DEF AcceptOnReserve, acceptorOnly, poolVars
  <2>2. idleFd_' = "client"
    BY <2>1 DEF AcceptOnReserve
  <2> QED
    BY <2>1, <2>2
<1>7. CloseClient => Good
  <2> SUFFICES ASSUME CloseClient, numThreads_' = 0 PROVE Good
    OBVIOUS
  <2>1. acceptPc = "close" /\ acceptPc' = "open" /\ numThreads_ = 0
    BY DEF CloseClient, acceptorOnly, poolVars
  <2>2. free' = free + 1
    BY <2>1 DEF CloseClient, closesClient
  <2> QED
    BY <1>a, <2>1, <2>2
<1>8. ReopenReserve => Good
  <2> SUFFICES ASSUME ReopenReserve, numThreads_' = 0 PROVE Good
    OBVIOUS
  <2>1. acceptPc = "open" /\ acceptPc' = "none" /\ numThreads_ = 0
    BY DEF ReopenReserve, acceptorOnly, poolVars
  <2>2. idleFd_' = "open"
    BY <2>1 DEF ReopenReserve
  <2> QED
    BY <2>1, <2>2
<1>9. \A l \in Loops : RunFunctor(l) => Good
  BY <1>b DEF RunFunctor, poolRest
<1>10. ASSUME NEW cs \in SUBSET Conns, frees(cs) PROVE free' >= free
  <2>1. free' = free \/ free' = free + Cardinality(cs)
    BY <1>a, <1>10, FreesOutcome
  <2>2. Cardinality(cs) \in Nat
    BY ConnsFinite
  <2> QED
    BY <1>a, <2>1, <2>2
<1>11. BaseFunctorsDone => Good
  <2> SUFFICES ASSUME BaseFunctorsDone PROVE Good
    OBVIOUS
  <2>1. free' >= free
    BY <1>10 DEF BaseFunctorsDone, dropsFunctors, ServerInv, ServerTypes, QueueTyped, Loops
  <2> QED
    BY <1>0, <2>1 DEF BaseFunctorsDone, poolRest, acceptorVars
<1>12. AcceptorGone => Good
  BY DEF AcceptorGone, ServerInv, StartFits
<1>13. Destruct => Good
  BY DEF Destruct, BaseFree, acceptorVars
<1>14. ASSUME NEW t \in Threads, IoFunctorsDone(t) PROVE Good
  <2>1. free' >= free
    BY <1>10, <1>14
       DEF IoFunctorsDone, dropsFunctors, ServerInv, ServerTypes, QueueTyped, Loops
  <2> QED
    BY <1>0, <1>14, <2>1 DEF IoFunctorsDone, FunctorsDone, At, acceptorVars
<1>15. ASSUME NEW t \in Threads, IoLoopEnds(t) PROVE Good
  <2>1. free' >= free
    BY <1>10, <1>15, MentionsConns DEF IoLoopEnds
  <2> QED
    BY <1>0, <1>15, <2>1 DEF IoLoopEnds, LeaveThread, At, acceptorVars
<1>16. \A t \in Threads : IoPollReturns(t) => Good
  BY <1>b DEF IoPollReturns, PollReturns, At, acceptorVars
<1>17. \A i \in Conns : ConnectionCloses(i) => Good
  BY <1>b DEF ConnectionCloses, poolRest, acceptorVars
<1>18. ClientArrives => Good
  BY <1>a DEF ClientArrives, poolVars
<1>19. OtherOpens => Good
  BY DEF OtherOpens, OthersMay, acceptorVars, poolVars
<1>20. OtherCloses => Good
  BY <1>a, <1>0 DEF OtherCloses, acceptorVars, poolVars
<1> HIDE DEF Good
<1> QED
  BY <1>1, <1>2, <1>3, <1>4, <1>5, <1>6, <1>7, <1>8, <1>9, <1>11, <1>12, <1>13, <1>14,
     <1>15, <1>16, <1>17, <1>18, <1>19, <1>20, StepCases DEF Good

(* A set of connections that had descriptors and lose them. *)
LEMMA LiveShrinks ==
  ASSUME NEW cs \in SUBSET Conns, cs \subseteq Live,
         \A i \in Conns : i \in Live' <=> i \in Live /\ i \notin cs
  PROVE  /\ Cardinality(Live') + Cardinality(cs) = Cardinality(Live)
         /\ Cardinality(Live') \in Nat /\ Cardinality(Live) \in Nat /\ Cardinality(cs) \in Nat
<1>1. Live \in SUBSET Conns /\ IsFiniteSet(Live) /\ IsFiniteSet(cs)
      /\ Cardinality(Live) \in Nat /\ Cardinality(cs) \in Nat
  BY ConnsFinite DEF Live
<1>2. Live' = Live \ cs
  BY DEF Live
<1>3. Live \cap cs = cs
  OBVIOUS
<1>4. Cardinality(Live \ cs) = Cardinality(Live) - Cardinality(Live \cap cs)
  BY <1>1, FS_Difference
<1>5. Cardinality(Live \ cs) \in Nat
  BY <1>1, ConnsFinite
<1>6. Cardinality(Live') = Cardinality(Live) - Cardinality(cs)
  BY <1>2, <1>3, <1>4
<1>7. Cardinality(Live') \in Nat
  BY <1>2, <1>5
<1> HIDE DEF Live
<1> QED
  BY <1>1, <1>6, <1>7

(* Where no connection comes or is freed, as many have descriptors. *)
LEMMA LiveKept ==
  ASSUME \A i \in Conns : conn'[i].state \in {"none", "freed"}
                            <=> conn[i].state \in {"none", "freed"}
  PROVE  Live' = Live
BY DEF Live

(* The books of descriptors balance after every step, unless it fails.     *)
LEMMA BalanceStep ==
  ASSUME ServerInv, IdleFits, Balance, Next, NotFailed'
  PROVE  Balance'
<1> DEFINE Good == Balance'
<1>a. /\ CountTyped /\ ConnTyped /\ free \in Nat /\ taken \in Nat /\ QueueTyped
      /\ conn \in [Conns -> [state : State, loop : Loops]]
      /\ free' \in Nat /\ FreeFds \in Nat
      /\ Cardinality(Live) \in Nat /\ Spare \in {0, 1}
      /\ free + taken + Cardinality(Live) + Spare = FreeFds + 1
  <2>1. free' \in Nat
    BY ServerInvStep DEF ServerInv, ServerTypes, CountTyped
  <2>2. Cardinality(Live) \in Nat
    BY ConnsFinite DEF Live
  <2>3. taken \in Nat
    BY ServerAssumption DEF ServerInv, ServerTypes, CountTyped
  <2> QED
    BY <2>1, <2>2, <2>3, ServerAssumption
       DEF ServerInv, ServerTypes, CountTyped, ConnTyped, Spare, Balance
<1>z. /\ free \in Nat /\ free' \in Nat /\ taken \in Nat /\ Cardinality(Live) \in Nat
      /\ Spare \in {0, 1}
  BY <1>a
<1>b. conn' = conn => Live' = Live
  BY LiveKept
<1>c. UNCHANGED <<free, taken, idleFd_>> /\ Live' = Live => Good
  BY <1>a DEF Balance, Spare
<1>0. UNCHANGED <<free, taken, idleFd_, conn>> => Good
  BY <1>b, <1>c
<1>1. \A who \in {"base", "other"} : Start(who) => Good
  BY <1>0 DEF Start, acceptorVars, connVars
<1>2. PoolOnly => Good
  BY <1>0 DEF PoolOnly, serverVars, acceptorVars, connVars
<1>3. StartListening \/ BasePollReturns \/ ClientArrives => Good
  BY <1>0 DEF StartListening, BasePollReturns, ClientArrives, acceptorVars, connVars
<1>4. Accept => Good
  <2> SUFFICES ASSUME Accept PROVE Good
    OBVIOUS
  <2> DEFINE n == nextConnId_
  <2>1. /\ n \in Conns /\ conn[n] = Gone /\ conn'[n].state \in {"up", "connecting"}
        /\ \A i \in Conns : i # n => conn'[i] = conn[i]
    BY <1>a, AcceptOutcome DEF ServerInv, ServerTypes
  <2>2. n \notin Live /\ Live' = Live \cup {n}
    BY <2>1 DEF Live, Gone
  <2>3. IsFiniteSet(Live)
    BY ConnsFinite DEF Live
  <2>4. Cardinality(Live') = Cardinality(Live) + 1
    BY <2>2, <2>3, FS_AddElement
  <2>5. free > 0 /\ free' = free - 1 /\ UNCHANGED <<taken, idleFd_>>
    BY DEF Accept
  <2> QED
    BY <1>a, <2>4, <2>5 DEF Balance, Spare
<1>5. ASSUME conn' = conn, taken' = taken, free' + Spare' = free + Spare PROVE Good
  <2>1. Live' = Live /\ Spare' \in {0, 1}
    BY <1>b, <1>5 DEF Spare
  <2>2. free' + taken' + Cardinality(Live') + Spare' = free + taken + Cardinality(Live) + Spare
    <3>1. taken' = taken /\ free' + Spare' = free + Spare /\ Cardinality(Live') = Cardinality(Live)
      BY <1>5, <2>1
    <3>2. Spare \in Nat /\ Spare' \in Nat
      BY <1>z, <2>1
    <3>3. PICK f, g, t, l, s1, s2 \in Nat :
            /\ f = free /\ g = free' /\ t = taken /\ l = Cardinality(Live)
            /\ s1 = Spare /\ s2 = Spare'
      BY <1>z, <3>2
    <3>4. g + s2 = f + s1
      BY <3>1, <3>3
    <3>5. g + t + l + s2 = f + t + l + s1
      BY <3>4
    <3> QED
      BY <3>1, <3>3, <3>5
  <2> QED
    BY <1>a, <2>2 DEF Balance
<1>6. acceptorOnly => conn' = conn /\ taken' = taken
  BY DEF acceptorOnly, connVars
<1>7. AcceptFails => Good
  <2> SUFFICES ASSUME AcceptFails PROVE Good
    OBVIOUS
  <2>1. /\ idleFd_ \in {"open", "closed", "lost"} /\ idleFd_' = "closed"
        /\ free' = IF idleFd_ = "open" THEN free + 1 ELSE free
    BY DEF AcceptFails, givesUpReserve, IdleFits, Polls, BaseFree
  <2> QED
    BY <1>a, <1>5, <1>6, <2>1 DEF AcceptFails, Spare
<1>8. AcceptOnReserve => Good
  <2> SUFFICES ASSUME AcceptOnReserve PROVE Good
    OBVIOUS
  <2>1. /\ idleFd_ = "closed"
        /\ \/ idleFd_' = "client" /\ free' = free - 1
           \/ idleFd_' = "lost" /\ free' = free
    BY DEF AcceptOnReserve, IdleFits
  <2>2. free' + Spare' = free + Spare
    <3>1. Spare = 0 /\ (idleFd_' = "client" => Spare' = 1) /\ (idleFd_' = "lost" => Spare' = 0)
      BY <2>1 DEF Spare
    <3> QED
      BY <1>z, <2>1, <3>1
  <2> QED
    BY <1>5, <1>6, <2>2 DEF AcceptOnReserve
<1>9. CloseClient => Good
  <2> SUFFICES ASSUME CloseClient PROVE Good
    OBVIOUS
  <2>1. /\ idleFd_ \in {"client", "lost"} /\ idleFd_' = "closed"
        /\ free' = IF idleFd_ = "client" THEN free + 1 ELSE free
    BY DEF CloseClient, closesClient, IdleFits
  <2> QED
    BY <1>a, <1>5, <1>6, <2>1 DEF CloseClient, Spare
<1>10. ReopenReserve => Good
  <2> SUFFICES ASSUME ReopenReserve PROVE Good
    OBVIOUS
  <2>1. /\ idleFd_ = "closed"
        /\ \/ idleFd_' = "open" /\ free' = free - 1
           \/ idleFd_' = "lost" /\ free' = free
    BY DEF ReopenReserve, IdleFits
  <2> QED
    BY <1>a, <1>5, <1>6, <2>1 DEF ReopenReserve, Spare
<1>11. ASSUME NEW l \in Loops, RunFunctor(l) PROVE Good
  <2> DEFINE c == Head(batch[l]).c
  <2>1. UNCHANGED <<free, taken, idleFd_>>
    BY <1>11 DEF RunFunctor
  <2>2. \/ conn' = conn
        \/ /\ conn[c].state \in {"connecting", "up", "down"}
           /\ \E s \in {"up", "destroyed"} : conn' = [conn EXCEPT ![c].state = s]
    BY <1>11 DEF RunFunctor, RunListen, RunConnectEstablished, RunConnectDestroyed,
                 RunRemoveConnectionInLoop
  <2> HIDE DEF c
  <2>3. CASE conn' = conn \/ c \notin Conns
    <3>1. conn' = conn
      BY <1>a, <2>2, <2>3
    <3> QED
      BY <1>0, <2>1, <3>1
  <2>4. CASE conn' # conn /\ c \in Conns
    <3>1. PICK s \in {"up", "destroyed"} : conn' = [conn EXCEPT ![c].state = s]
      BY <2>2, <2>4
    <3>2. s \in State
      BY DEF State
    <3>3. conn'[c].state = s /\ \A j \in Conns : j # c => conn'[j] = conn[j]
      BY <1>a, <2>4, <3>1, <3>2, StateChanges
    <3>4. \A i \in Conns : conn'[i].state \in {"none", "freed"}
                             <=> conn[i].state \in {"none", "freed"}
      BY <2>2, <2>4, <3>3
    <3> QED
      BY <1>c, <2>1, <3>4, LiveKept
  <2> QED
    BY <2>3, <2>4
<1>12. ASSUME NEW cs \in SUBSET Conns, cs \subseteq Live, UNCHANGED <<taken, idleFd_>>,
              \A i \in Conns : i \in Live' <=> i \in Live /\ i \notin cs,
              free' = free + Cardinality(cs)
       PROVE  Good
  BY <1>a, <1>12, LiveShrinks DEF Balance, Spare
<1>13. ASSUME NEW cs \in SUBSET Conns, frees(cs), UNCHANGED <<taken, idleFd_>> PROVE Good
  <2>1. /\ \A i \in Conns : i \notin cs => conn'[i] = conn[i]
        /\ \A i \in cs : conn[i].state = "destroyed" /\ conn'[i].state = "freed"
        /\ free' = free + Cardinality(cs)
    <3>1. failed' # "destructor"
      BY DEF NotFailed
    <3> QED
      BY <1>a, <1>13, <3>1, FreesOutcome
  <2>2. cs \subseteq Live
    BY <2>1 DEF Live
  <2>3. \A i \in Conns : i \in Live' <=> i \in Live /\ i \notin cs
    BY <2>1 DEF Live
  <2> QED
    BY <1>12, <1>13, <2>1, <2>2, <2>3
<1>14. BaseFunctorsDone => Good
  BY <1>13 DEF BaseFunctorsDone, dropsFunctors, acceptorVars, ServerInv, ServerTypes,
               QueueTyped, Loops
<1>15. ASSUME NEW t \in Threads, IoFunctorsDone(t) PROVE Good
  BY <1>13, <1>15 DEF IoFunctorsDone, dropsFunctors, acceptorVars, ServerInv, ServerTypes,
                      QueueTyped, Loops
<1>16. ASSUME NEW t \in Threads, IoLoopEnds(t) PROVE Good
  BY <1>13, <1>16, MentionsConns DEF IoLoopEnds, acceptorVars
<1>17. AcceptorGone => Good
  <2> SUFFICES ASSUME AcceptorGone PROVE Good
    OBVIOUS
  <2>1. /\ idleFd_ \in {"open", "closed", "lost"} /\ idleFd_' = "closed"
        /\ free' = IF idleFd_ = "open" THEN free + 1 ELSE free
    BY DEF AcceptorGone, IdleFits, ServerInv, StartFits
  <2>2. UNCHANGED <<conn, taken>>
    BY DEF AcceptorGone, connVars
  <2> QED
    BY <1>a, <1>5, <2>1, <2>2 DEF Spare
<1>18. Destruct => Good
  <2> SUFFICES ASSUME Destruct PROVE Good
    OBVIOUS
  <2> DEFINE dropped == {i \in connections_ : conn[i].loop = Base}
                          \ referenced({}, pending, functors)
  <2>1. /\ \A i \in Conns :
              /\ i \notin connections_ \/ conn[i].loop # Base => conn'[i] = conn[i]
              /\ i \in connections_ /\ conn[i].loop = Base =>
                   conn'[i].state = IF i \in referenced({}, pending, functors)
                                    THEN "destroyed" ELSE "freed"
        /\ free' = free + Cardinality(dropped)
    BY <1>a, DestructOutcome
  <2>2. UNCHANGED <<taken, idleFd_>>
    BY DEF Destruct, acceptorVars
  <2>3. connections_ \subseteq Live /\ connections_ \subseteq Conns
    BY <1>a, MapHoldsConns DEF ConnTyped, Live
  <2>4. dropped \in SUBSET Conns /\ dropped \subseteq Live
    BY <2>3
  <2>5. \A i \in Conns : i \in dropped <=> i \in connections_ /\ conn[i].loop = Base
                                           /\ i \notin referenced({}, pending, functors)
    OBVIOUS
  <2> HIDE DEF dropped
  <2>6. ASSUME NEW i \in Conns PROVE i \in Live' <=> i \in Live /\ i \notin dropped
    BY <2>1, <2>3, <2>5 DEF Live
  <2> QED
    BY <1>12, <2>1, <2>2, <2>4, <2>6
<1>19. \A t \in Threads : IoPollReturns(t) => Good
  BY <1>0 DEF IoPollReturns, acceptorVars, connVars
<1>20. ASSUME NEW i \in Conns, ConnectionCloses(i) PROVE Good
  <2>1. conn' = [conn EXCEPT ![i].state = "down"] /\ conn[i].state = "up" /\ "down" \in State
    BY <1>20 DEF ConnectionCloses, setsDisconnected, State
  <2>2. conn'[i].state = "down" /\ \A j \in Conns : j # i => conn'[j] = conn[j]
    BY <1>a, <2>1, StateChanges
  <2>3. Live' = Live
    BY <2>1, <2>2, LiveKept
  <2> QED
    BY <1>20, <1>c, <2>3 DEF ConnectionCloses, acceptorVars
<1>21. OtherOpens => Good
  BY <1>a, <1>b DEF OtherOpens, Balance, Spare, acceptorVars, connVars
<1>22. OtherCloses => Good
  BY <1>a, <1>b DEF OtherCloses, Balance, Spare, acceptorVars, connVars
<1> HIDE DEF Good
<1> QED
  BY <1>1, <1>2, <1>3, <1>4, <1>7, <1>8, <1>9, <1>10, <1>11, <1>14, <1>15, <1>16,
     <1>17, <1>18, <1>19, <1>20, <1>21, <1>22, StepCases DEF Good

(* The inductive invariant of descriptors. *)
DescriptorsInv == IdleFits /\ ReserveFits /\ (NotFailed => Balance)

(* No descriptor is lost or counted twice, by the detour over the reserve  *)
(* (whatever other threads open and close meanwhile) and by the ways a     *)
(* connection is freed; and without threads the reserve is always there    *)
(* again when handleRead returns.                                          *)
THEOREM DescriptorsNeverLost == Spec => []DescriptorsKept
<1>1. Init => DescriptorsInv
  <2> SUFFICES ASSUME Init PROVE DescriptorsInv
    OBVIOUS
  <2>1. IdleFits /\ ReserveFits
    BY DEF Init, IdleFits, ReserveFits
  <2>2. Live = {}
    BY DEF Init, Live, Gone
  <2>3. Cardinality(Live) = 0 /\ Spare = 1 /\ free = FreeFds /\ taken = 0 /\ FreeFds \in Nat
    BY <2>2, FS_EmptySet, ServerAssumption DEF Init, Spare
  <2> QED
    BY <2>1, <2>3 DEF DescriptorsInv, Balance
<1>2. ServerInv /\ DescriptorsInv /\ [Next]_allVars => DescriptorsInv'
  <2>1. ServerInv /\ DescriptorsInv /\ Next => DescriptorsInv'
    BY IdleFitsStep, ReserveFitsStep, BalanceStep, FailedStops DEF DescriptorsInv
  <2>2. ASSUME DescriptorsInv, UNCHANGED allVars PROVE DescriptorsInv'
    <3>1. UNCHANGED <<idleFd_, acceptPc, backlog, free, taken, conn, numThreads_, server, failed>>
      BY <2>2 DEF allVars, poolVars, serverVars, acceptorVars, connVars
    <3> QED
      BY <2>2, <3>1 DEF DescriptorsInv, IdleFits, ReserveFits, Balance, Live, Spare, NotFailed
  <2> QED
    BY <2>1, <2>2
<1>3. DescriptorsInv => DescriptorsKept
  BY DEF DescriptorsInv, ReserveFits, Balance, Live, Spare, DescriptorsKept,
         DescriptorsConserved, ReserveKept
<1> QED
  BY <1>1, <1>2, <1>3, ServerInvariant, PTL DEF Spec

-----------------------------------------------------------------------------
(***************************************************************************)
(* Functors in queues.                                                     *)
(***************************************************************************)

Has(q, fn) == \E k \in DOMAIN q : q[k] = fn
Distinct(q) == \A j, k \in DOMAIN q : q[j] = q[k] => j = k

(* One more functor at the end. *)
LEMMA HasAppend ==
  ASSUME NEW q \in Seq(Jobs), NEW x \in Jobs
  PROVE  /\ \A y : Has(Append(q, x), y) <=> Has(q, y) \/ y = x
         /\ Distinct(q) /\ ~Has(q, x) => Distinct(Append(q, x))
<1>1. Append(q, x) \in Seq(Jobs) /\ DOMAIN Append(q, x) = 1..(Len(q) + 1)
      /\ DOMAIN q = 1..Len(q) /\ Len(q) \in Nat
  OBVIOUS
<1>2. /\ \A k \in 1..Len(q) : Append(q, x)[k] = q[k]
      /\ Append(q, x)[Len(q) + 1] = x
  OBVIOUS
<1>3. \A y : Has(Append(q, x), y) <=> Has(q, y) \/ y = x
  <2> SUFFICES ASSUME NEW y PROVE Has(Append(q, x), y) <=> Has(q, y) \/ y = x
    OBVIOUS
  <2>1. \A k \in 1..(Len(q) + 1) : k \in 1..Len(q) \/ k = Len(q) + 1
    BY <1>1
  <2>2. Len(q) + 1 \in 1..(Len(q) + 1) /\ \A k \in 1..Len(q) : k \in 1..(Len(q) + 1)
    BY <1>1
  <2> QED
    BY <1>1, <1>2, <2>1, <2>2 DEF Has
<1>4. ASSUME Distinct(q), ~Has(q, x) PROVE Distinct(Append(q, x))
  <2>1. \A k \in 1..(Len(q) + 1) : k \in 1..Len(q) \/ k = Len(q) + 1
    BY <1>1
  <2>2. ASSUME NEW j \in 1..(Len(q) + 1), NEW k \in 1..(Len(q) + 1),
               Append(q, x)[j] = Append(q, x)[k]
        PROVE  j = k
    BY <1>1, <1>2, <1>4, <2>1, <2>2 DEF Has, Distinct
  <2> QED
    BY <1>1, <2>2 DEF Distinct
<1> QED
  BY <1>3, <1>4

(* The functor at the front is run. *)
LEMMA HasTail ==
  ASSUME NEW q \in Seq(Jobs), q # <<>>
  PROVE  /\ Has(q, Head(q)) /\ Head(q) \in Jobs
         /\ Distinct(q) => /\ Distinct(Tail(q))
                           /\ \A y : Has(Tail(q), y) <=> Has(q, y) /\ y # Head(q)
<1>1. /\ Len(q) \in Nat /\ Len(q) >= 1 /\ DOMAIN q = 1..Len(q) /\ Head(q) = q[1]
      /\ Tail(q) \in Seq(Jobs) /\ DOMAIN Tail(q) = 1..(Len(q) - 1)
  OBVIOUS
<1>2. \A k \in 1..(Len(q) - 1) : Tail(q)[k] = q[k + 1]
  OBVIOUS
<1>3. Has(q, Head(q)) /\ Head(q) \in Jobs
  BY <1>1 DEF Has
<1>4. ASSUME Distinct(q)
      PROVE  /\ Distinct(Tail(q))
             /\ \A y : Has(Tail(q), y) <=> Has(q, y) /\ y # Head(q)
  <2>1. ASSUME NEW j \in 1..(Len(q) - 1), NEW k \in 1..(Len(q) - 1), Tail(q)[j] = Tail(q)[k]
        PROVE  j = k
    <3>1. j + 1 \in DOMAIN q /\ k + 1 \in DOMAIN q /\ q[j + 1] = q[k + 1]
      BY <1>1, <1>2, <2>1
    <3>2. j + 1 = k + 1
      BY <1>4, <3>1 DEF Distinct
    <3> QED
      BY <1>1, <3>2
  <2>2. Distinct(Tail(q))
    BY <1>1, <2>1 DEF Distinct
  <2>3. ASSUME NEW y, Has(Tail(q), y) PROVE Has(q, y) /\ y # Head(q)
    <3>1. PICK k \in 1..(Len(q) - 1) : q[k + 1] = y
      BY <1>1, <1>2, <2>3 DEF Has
    <3>2. k + 1 \in DOMAIN q /\ 1 \in DOMAIN q /\ k + 1 # 1
      BY <1>1
    <3> QED
      BY <1>1, <1>4, <3>1, <3>2 DEF Has, Distinct
  <2>4. ASSUME NEW y, Has(q, y), y # Head(q) PROVE Has(Tail(q), y)
    <3>1. PICK k \in 1..Len(q) : q[k] = y
      BY <1>1, <2>4 DEF Has
    <3>2. k # 1
      BY <1>1, <2>4, <3>1
    <3>3. k - 1 \in 1..(Len(q) - 1) /\ (k - 1) + 1 = k
      BY <1>1, <3>2
    <3>4. Tail(q)[k - 1] = y
      BY <1>2, <3>1, <3>3
    <3> QED
      BY <1>1, <3>3, <3>4 DEF Has
  <2> QED
    BY <2>2, <2>3, <2>4
<1> QED
  BY <1>3, <1>4

(* Two queues, one behind the other. *)
LEMMA HasConcat ==
  ASSUME NEW p \in Seq(Jobs), NEW q \in Seq(Jobs)
  PROVE  \A y : Has(p \o q, y) <=> Has(p, y) \/ Has(q, y)
<1>1. /\ Len(p) \in Nat /\ Len(q) \in Nat /\ DOMAIN p = 1..Len(p) /\ DOMAIN q = 1..Len(q)
      /\ p \o q \in Seq(Jobs) /\ DOMAIN (p \o q) = 1..(Len(p) + Len(q))
  OBVIOUS
<1>2. \A k \in 1..(Len(p) + Len(q)) :
        (p \o q)[k] = IF k <= Len(p) THEN p[k] ELSE q[k - Len(p)]
  OBVIOUS
<1> SUFFICES ASSUME NEW y PROVE Has(p \o q, y) <=> Has(p, y) \/ Has(q, y)
  OBVIOUS
<1>3. ASSUME Has(p \o q, y) PROVE Has(p, y) \/ Has(q, y)
  <2>1. PICK k \in 1..(Len(p) + Len(q)) : (p \o q)[k] = y
    BY <1>1, <1>3 DEF Has
  <2>2. k <= Len(p) => k \in DOMAIN p /\ p[k] = y
    BY <1>1, <1>2, <2>1
  <2>3. ~(k <= Len(p)) => k - Len(p) \in DOMAIN q /\ q[k - Len(p)] = y
    BY <1>1, <1>2, <2>1
  <2> QED
    BY <2>2, <2>3 DEF Has
<1>4. ASSUME Has(p, y) PROVE Has(p \o q, y)
  <2>1. PICK k \in 1..Len(p) : p[k] = y
    BY <1>1, <1>4 DEF Has
  <2>2. k \in 1..(Len(p) + Len(q)) /\ k <= Len(p)
    BY <1>1
  <2> QED
    BY <1>1, <1>2, <2>1, <2>2 DEF Has
<1>5. ASSUME Has(q, y) PROVE Has(p \o q, y)
  <2>1. PICK k \in 1..Len(q) : q[k] = y
    BY <1>1, <1>5 DEF Has
  <2>2. k + Len(p) \in 1..(Len(p) + Len(q)) /\ ~(k + Len(p) <= Len(p))
        /\ (k + Len(p)) - Len(p) = k
    BY <1>1
  <2>3. (p \o q)[k + Len(p)] = y
    BY <1>2, <2>1, <2>2
  <2> QED
    BY <1>1, <2>2, <2>3 DEF Has
<1> QED
  BY <1>3, <1>4, <1>5

(* How a loop's work changes with its queues. *)
LEMMA WorkChanges ==
  ASSUME NEW p \in Seq(Jobs), NEW q \in Seq(Jobs)
  PROVE  /\ p \o q \in Seq(Jobs) /\ p \o <<>> = p /\ <<>> \o q = q
         /\ \A x \in Jobs : p \o Append(q, x) = Append(p \o q, x)
         /\ p # <<>> => /\ p \o q # <<>> /\ Head(p \o q) = Head(p)
                        /\ Tail(p) \o q = Tail(p \o q)
<1>1. p \o q \in Seq(Jobs) /\ p \o <<>> = p /\ <<>> \o q = q
  OBVIOUS
<1>2. ASSUME NEW x \in Jobs PROVE p \o Append(q, x) = Append(p \o q, x)
  OBVIOUS
<1>3. ASSUME p # <<>>
      PROVE  /\ p \o q # <<>> /\ Head(p \o q) = Head(p)
             /\ Tail(p) \o q = Tail(p \o q)
  BY <1>3
<1> QED
  BY <1>1, <1>2, <1>3

(* A functor for a connection mentions it. *)
LEMMA HasMentions ==
  ASSUME NEW q, NEW fn \in Jobs, fn.c \in Conns, Has(q, fn)
  PROVE  fn.c \in mentioned(q)
BY DEF Has, mentioned

(* What is mentioned has a functor. *)
LEMMA MentionsHas ==
  ASSUME NEW q \in Seq(Jobs), NEW i \in mentioned(q)
  PROVE  i \in Conns /\ \E fn \in Jobs : Has(q, fn) /\ fn.c = i
<1>1. PICK k \in DOMAIN q : q[k].c = i
  BY DEF mentioned
<1>2. q[k] \in Jobs
  OBVIOUS
<1> QED
  BY <1>1, <1>2 DEF Has, mentioned

-----------------------------------------------------------------------------
(***************************************************************************)
(* The functors on their way, the map and the lives of the connections.    *)
(*                                                                         *)
(* From here on a server with threads is destroyed only at rest            *)
(* (~DestroyBusy): net/TcpServer.h leaves it to its user when to destroy   *)
(* it, and a server destroyed over working loops breaks what follows.      *)
(***************************************************************************)

Queued(l, fn) == Has(work(l), fn)

(* The functors that the state of the connections calls for, but listen.   *)
Due(l, fn) ==
  /\ fn.c \in Conns
  /\ \/ /\ fn.f = "connectEstablished" /\ l = conn[fn.c].loop
        /\ conn[fn.c].state = "connecting"
     \/ /\ fn.f = "removeConnectionInLoop" /\ l = Base
        /\ conn[fn.c].state = "down" /\ fn.c \in connections_
     \/ /\ fn.f = "connectDestroyed" /\ l = conn[fn.c].loop
        /\ conn[fn.c].state = "down" /\ fn.c \notin connections_

(* What a loop has to run is what is due in it, each functor once.         *)
LoopFits(l) ==
  /\ Distinct(work(l))
  /\ \A fn \in Jobs : fn.f # "listen" => (Queued(l, fn) <=> Due(l, fn))

CallsFit == \A l \in Loops : LoopFits(l)

(* listen waits in the base loop of a server that is there and deaf.       *)
ListenFits ==
  \A l \in Loops, fn \in Jobs :
    fn.f = "listen" /\ Queued(l, fn) =>
      l = Base /\ fn.c = 0 /\ server = "alive" /\ ~listenning_ /\ starter = "done"

(* The map holds what is up or on its way up, and what is down and not yet *)
(* erased; the base loop's own connections need no functor for that.       *)
LifeFits ==
  \A i \in Conns :
    /\ conn[i].state \in {"connecting", "up"} => i \in connections_
    /\ i \in connections_ => conn[i].state \in {"connecting", "up", "down"}
    /\ conn[i].loop = Base /\ i \in connections_ => conn[i].state = "up"

(* A batch refers to connections that are not freed, to all of those that  *)
(* its functors mention, and only in a loop that runs it.                  *)
BatchFits ==
  /\ \A t \in Threads : threadPc[t] # "functors" => batch[t] = <<>> /\ functors[t] = {}
  /\ \A l \in Loops : mentioned(batch[l]) \subseteq functors[l]
RefFits == \A l \in Loops : \A i \in functors[l] : conn[i].state \notin {"none", "freed"}

(* A server that is going has no connections, and with threads no functors *)
(* either.                                                                 *)
QuietDown ==
  server # "alive" =>
    /\ connections_ = {}
    /\ numThreads_ # 0 => \A i \in Conns : conn[i].state \in {"none", "freed"}

LifeInv == CallsFit /\ ListenFits /\ LifeFits /\ BatchFits /\ RefFits /\ QuietDown

(* How a step changes what the loops have to run. *)
WorkSame == \A l \in Loops : work(l)' = work(l)
WorkPlus(m, x) ==
  \A l \in Loops : work(l)' = IF l = m THEN Append(work(l), x) ELSE work(l)
WorkMinus(m, x) ==
  /\ work(m) # <<>> /\ Head(work(m)) = x
  /\ \A l \in Loops : work(l)' = IF l = m THEN Tail(work(l)) ELSE work(l)

(* Connection i changes its state and nothing else does. *)
Turns(i, s) ==
  /\ i \in Conns
  /\ conn'[i].state = s
  /\ \A j \in Conns : conn'[j].loop = conn[j].loop /\ (j # i => conn'[j] = conn[j])

(* The steps as far as connections and functors are concerned. *)
Rests == conn' = conn /\ connections_' = connections_ /\ WorkSame
Listens ==
  /\ starter \in {"base", "other"} /\ starter' = "done" /\ ~listenning_ /\ ~listenning_'
  /\ server' = server
  /\ conn' = conn /\ connections_' = connections_ /\ WorkPlus(Base, functor("listen", 0))
Listened ==
  /\ conn' = conn /\ connections_' = connections_ /\ WorkMinus(Base, functor("listen", 0))
Opens(i, l) ==
  /\ i \in Conns /\ l \in Loops /\ conn[i] = Gone /\ i \notin connections_
  /\ server = "alive" /\ server' = "alive"
  /\ connections_' = connections_ \cup {i}
  /\ conn'[i].loop = l
  /\ conn'[i].state = IF l = Base THEN "up" ELSE "connecting"
  /\ \A j \in Conns : j # i => conn'[j] = conn[j]
  /\ IF l = Base THEN WorkSame ELSE WorkPlus(l, functor("connectEstablished", i))
Establishes(i) ==
  /\ Turns(i, "up") /\ conn[i].state = "connecting"
  /\ connections_' = connections_
  /\ WorkMinus(conn[i].loop, functor("connectEstablished", i))
Closes(i) ==
  /\ Turns(i, "down") /\ conn[i].state = "up"
  /\ \/ /\ conn[i].loop = Base /\ connections_' = connections_ \ {i}
        /\ WorkPlus(Base, functor("connectDestroyed", i))
     \/ /\ conn[i].loop # Base /\ connections_' = connections_
        /\ WorkPlus(Base, functor("removeConnectionInLoop", i))
Erases(i) ==
  /\ i \in Conns /\ i \in connections_ /\ conn[i].state = "down" /\ conn[i].loop # Base
  /\ conn' = conn /\ connections_' = connections_ \ {i}
  /\ work(Base) # <<>> /\ Head(work(Base)) = functor("removeConnectionInLoop", i)
  /\ \A l \in Loops :
       work(l)' = IF l = Base THEN Tail(work(l))
                  ELSE IF l = conn[i].loop THEN Append(work(l), functor("connectDestroyed", i))
                  ELSE work(l)
Destroys(i) ==
  /\ Turns(i, "destroyed") /\ conn[i].state = "down" /\ i \notin connections_
  /\ connections_' = connections_
  /\ WorkMinus(conn[i].loop, functor("connectDestroyed", i))
Frees(cs) ==
  /\ \A i \in Conns : conn'[i].loop = conn[i].loop
  /\ \A i \in Conns : i \notin cs => conn'[i] = conn[i]
  /\ \A i \in cs : conn[i].state = "destroyed" /\ conn'[i].state = "freed"
  /\ \A l \in Loops : functors'[l] \cap cs = {}
  /\ connections_' = connections_ /\ WorkSame
Dies ==
  /\ server = "alive" /\ connections_' = {} /\ WorkSame
  /\ \A i \in Conns : conn'[i].loop = conn[i].loop
  /\ \A i \in Conns : i \notin connections_ => conn'[i] = conn[i]
  /\ \A i \in connections_ :
       /\ conn[i].state = "up" /\ conn[i].loop = Base
       /\ conn'[i].state \in {"destroyed", "freed"}
       /\ conn'[i].state = "freed" => \A l \in Loops : i \notin functors'[l]

Moves ==
  \/ Rests \/ Listens \/ Listened \/ Dies
  \/ \E i \in Conns, l \in Loops : Opens(i, l)
  \/ \E i \in Conns : Establishes(i) \/ Closes(i) \/ Erases(i) \/ Destroys(i)
  \/ \E cs \in SUBSET Conns : Frees(cs)

(* No assert fails in the step. *)
Sound == failed' \in {failed, "nullLoop", "deadLoop"}

(* A functor more behind the pending ones is one more behind the work.     *)
LEMMA WorkAppends ==
  ASSUME NEW p \in Seq(Jobs), NEW q \in Seq(Jobs), NEW x \in Jobs
  PROVE  p \o Append(q, x) = Append(p \o q, x)
OBVIOUS

(* Neither queue changes. *)
LEMMA WorkStays ==
  ASSUME UNCHANGED <<pending, batch>>
  PROVE  WorkSame
BY DEF WorkSame, work

(* A functor is queued. *)
LEMMA WorkQueued ==
  ASSUME QueueTyped, NEW m \in Loops, NEW f \in Calls, NEW c \in 0..MaxClients,
         pending' = [pending EXCEPT ![m] = Append(@, functor(f, c))], batch' = batch
  PROVE  WorkPlus(m, functor(f, c))
<1>1. functor(f, c) \in Jobs
  BY DEF functor, Jobs
<1>2. /\ pending'[m] = Append(pending[m], functor(f, c))
      /\ \A l \in Loops : l # m => pending'[l] = pending[l]
  BY QueuedTyped DEF QueueTyped
<1>3. batch[m] \in Seq(Jobs) /\ pending[m] \in Seq(Jobs)
  BY DEF QueueTyped
<1>4. batch[m] \o Append(pending[m], functor(f, c)) = Append(batch[m] \o pending[m], functor(f, c))
  BY <1>1, <1>3, WorkAppends
<1>5. work(m)' = Append(work(m), functor(f, c))
  BY <1>2, <1>4 DEF work
<1>6. \A l \in Loops : l # m => work(l)' = work(l)
  BY <1>2 DEF work
<1> QED
  BY <1>5, <1>6 DEF WorkPlus

(* A functor is taken from the batch, and perhaps another one queued. *)
LEMMA WorkTaken ==
  ASSUME QueueTyped, NEW l \in Loops, batch[l] # <<>>,
         batch' = [batch EXCEPT ![l] = Tail(@)]
  PROVE  /\ work(l) # <<>> /\ Head(work(l)) = Head(batch[l]) /\ Head(batch[l]) \in Jobs
         /\ pending'[l] = pending[l] => work(l)' = Tail(work(l))
         /\ pending' = pending => WorkMinus(l, Head(batch[l]))
         /\ \A m \in Loops, f \in Calls, c \in 0..MaxClients :
              m # l /\ pending' = [pending EXCEPT ![m] = Append(@, functor(f, c))] =>
                \A k \in Loops : work(k)' = IF k = l THEN Tail(work(k))
                                            ELSE IF k = m THEN Append(work(k), functor(f, c))
                                            ELSE work(k)
<1>1. batch[l] \in Seq(Jobs) /\ pending[l] \in Seq(Jobs)
  BY DEF QueueTyped
<1>2. batch'[l] = Tail(batch[l]) /\ \A k \in Loops : k # l => batch'[k] = batch[k]
  BY DEF QueueTyped
<1>3. /\ work(l) # <<>> /\ Head(work(l)) = Head(batch[l]) /\ Head(batch[l]) \in Jobs
      /\ Tail(batch[l]) \o pending[l] = Tail(work(l))
  BY <1>1, WorkChanges, HasTail DEF work
<1>4. pending'[l] = pending[l] => work(l)' = Tail(work(l))
  BY <1>2, <1>3 DEF work
<1>5. ASSUME pending' = pending PROVE WorkMinus(l, Head(batch[l]))
  <2>1. \A k \in Loops : k # l => work(k)' = work(k)
    BY <1>2, <1>5 DEF work
  <2> QED
    BY <1>3, <1>4, <1>5, <2>1 DEF WorkMinus
<1>6. ASSUME NEW m \in Loops, NEW f \in Calls, NEW c \in 0..MaxClients, m # l,
             pending' = [pending EXCEPT ![m] = Append(@, functor(f, c))]
      PROVE  \A k \in Loops : work(k)' = IF k = l THEN Tail(work(k))
                                         ELSE IF k = m THEN Append(work(k), functor(f, c))
                                         ELSE work(k)
  <2>1. functor(f, c) \in Jobs
    BY DEF functor, Jobs
  <2>2. /\ pending'[m] = Append(pending[m], functor(f, c))
        /\ \A k \in Loops : k # m => pending'[k] = pending[k]
    BY <1>6, QueuedTyped DEF QueueTyped
  <2>3. batch[m] \in Seq(Jobs) /\ pending[m] \in Seq(Jobs)
    BY DEF QueueTyped
  <2>4. batch[m] \o Append(pending[m], functor(f, c)) = Append(batch[m] \o pending[m], functor(f, c))
    BY <2>1, <2>3, WorkAppends
  <2>5. work(m)' = Append(work(m), functor(f, c))
    BY <1>2, <1>6, <2>2, <2>4 DEF work
  <2>6. work(l)' = Tail(work(l))
    BY <1>4, <1>6, <2>2
  <2>7. \A k \in Loops : k # l /\ k # m => work(k)' = work(k)
    BY <1>2, <2>2 DEF work
  <2> QED
    BY <1>6, <2>5, <2>6, <2>7
<1> QED
  BY <1>3, <1>4, <1>5, <1>6

(* A loop takes its pending functors as a batch. *)
LEMMA WorkBatched ==
  ASSUME QueueTyped, NEW l \in Loops, batch[l] = <<>>, takesPending(l)
  PROVE  WorkSame
<1>1. /\ batch'[l] = pending[l] /\ pending'[l] = <<>>
      /\ \A k \in Loops : k # l => batch'[k] = batch[k] /\ pending'[k] = pending[k]
  BY DEF takesPending, QueueTyped
<1>2. pending[l] \in Seq(Jobs)
  BY DEF QueueTyped
<1>3. pending[l] \o <<>> = pending[l] /\ <<>> \o pending[l] = pending[l]
  BY <1>2, WorkChanges
<1> QED
  BY <1>1, <1>3 DEF WorkSame, work

(* A loop to which nothing is due has nothing to run. *)
LEMMA NothingDue ==
  ASSUME ServerInv, LifeInv, NEW t \in Threads, \A fn \in Jobs : ~Due(t, fn)
  PROVE  work(t) = <<>> /\ (batch[t] = <<>> => pending[t] = <<>>)
<1>1. t \in Loops /\ t # Base
  BY ThreadFacts DEF Loops
<1>2. batch[t] \in Seq(Jobs) /\ pending[t] \in Seq(Jobs)
  BY <1>1 DEF ServerInv, ServerTypes, QueueTyped
<1>3. work(t) \in Seq(Jobs) /\ (batch[t] = <<>> => work(t) = pending[t])
  BY <1>2, WorkChanges DEF work
<1>4. ASSUME work(t) # <<>> PROVE FALSE
  <2>1. PICK fn \in Jobs : Has(work(t), fn)
    BY <1>3, <1>4, HasTail
  <2>2. Queued(t, fn)
    BY <2>1 DEF Queued
  <2>3. fn.f # "listen"
    BY <1>1, <2>2 DEF LifeInv, ListenFits
  <2> QED
    BY <1>1, <2>2, <2>3 DEF LifeInv, CallsFit, LoopFits
<1> QED
  BY <1>3, <1>4

(* The listen functor comes when start leaves the other thread.            *)
LEMMA StartListeningMoves ==
  ASSUME ServerInv, StartListening
  PROVE  Moves /\ Sound
<1>1. ~listenning_
  BY DEF StartListening, ServerInv, StartFits
<1>2. /\ failed' = failed /\ UNCHANGED <<conn, connections_, batch>>
      /\ \/ pending' = pending
         \/ pending' = [pending EXCEPT ![Base] = Append(@, functor("listen", 0))]
  BY <1>1 DEF StartListening, connVars
<1>3. CASE pending' = pending
  BY <1>2, <1>3, WorkStays DEF Moves, Rests, Sound
<1>4. CASE pending' = [pending EXCEPT ![Base] = Append(@, functor("listen", 0))]
  <2>1. Base \in Loops /\ "listen" \in Calls /\ 0 \in 0..MaxClients
    BY ServerAssumption DEF Loops, Calls
  <2>2. WorkPlus(Base, functor("listen", 0))
    BY <1>2, <1>4, <2>1, WorkQueued DEF ServerInv, ServerTypes
  <2>3. pending[Base] \in Seq(Jobs)
    BY <2>1 DEF ServerInv, ServerTypes, QueueTyped
  <2>4. /\ starter \in {"base", "other"} /\ starter' = "done" /\ server' = server
        /\ starter = "other" => listenning_' = listenning_
    BY <1>1 DEF StartListening
  <2>5. starter = "base" => pending' = pending
    BY <1>1 DEF StartListening
  <2> QED
    BY <1>1, <1>2, <1>3, <2>2, <2>4, <2>5 DEF Moves, Listens, Sound
<1> QED
  BY <1>2, <1>3, <1>4

(* A connection is accepted only while the server is there. *)
LEMMA AcceptMoves ==
  ASSUME ServerInv, Accept
  PROVE  Moves /\ Sound
<1>0. PoolInv /\ NextTyped /\ CountTyped /\ QueueTyped /\ ConnTyped /\ ServerTyped
  BY DEF ServerInv, ServerTypes
<1> DEFINE i == nextConnId_
           l == nextLoop
<1>1. /\ i \in Conns /\ conn[i] = Gone
      /\ connections_' = connections_ \cup {i}
      /\ conn'[i].loop = l
      /\ conn'[i].state = IF l = Base THEN "up" ELSE "connecting"
      /\ \A j \in Conns : j # i => conn'[j] = conn[j]
  BY <1>0, AcceptOutcome
<1>2. l \in Loops
  BY <1>0, NextLoopKnown
<1>3. i \notin connections_
  <2>1. connections_ \subseteq 1..(nextConnId_ - 1) /\ nextConnId_ \in Nat
    BY <1>0 DEF ConnTyped, CountTyped
  <2> QED
    BY <2>1
<1>4. server = "alive" /\ server' = "alive"
  <2>1. listenning_ /\ server # "destructing" /\ server' = server
    BY DEF Accept, Polls, BaseFree
  <2> QED
    BY <1>0, <2>1 DEF ServerInv, StartFits, ServerTyped
<1>5. failed' = failed /\ batch' = batch
  BY DEF Accept, newConnection, queues
<1>6. IF l = Base THEN WorkSame ELSE WorkPlus(l, functor("connectEstablished", i))
  <2>1. CASE l = Base
    <3>1. pending' = pending
      BY <2>1 DEF Accept, newConnection
    <3> QED
      BY <1>5, <2>1, <3>1, WorkStays
  <2>2. CASE l # Base
    <3>1. pending' = [pending EXCEPT ![l] = Append(@, functor("connectEstablished", i))]
      BY <2>2 DEF Accept, newConnection, queues, queueInLoop
    <3>2. "connectEstablished" \in Calls /\ i \in 0..MaxClients
      BY <1>1, ConnsFinite DEF Calls, Conns
    <3> QED
      BY <1>0, <1>2, <1>5, <2>2, <3>1, <3>2, WorkQueued
  <2> QED
    BY <2>1, <2>2
<1> HIDE DEF i, l
<1>7. Opens(i, l)
  BY <1>1, <1>2, <1>3, <1>4, <1>6 DEF Opens
<1> QED
  BY <1>1, <1>2, <1>5, <1>7 DEF Moves, Sound

(* One connection changes its state. *)
LEMMA StateTurns ==
  ASSUME ConnTyped, NEW i \in Conns, NEW s \in State, conn' = [conn EXCEPT ![i].state = s]
  PROVE  Turns(i, s)
BY StateChanges DEF Turns

(* handleClose of a connection that is up, in its own loop. *)
LEMMA CloseMoves ==
  ASSUME ServerInv, LifeInv, NEW i \in Conns, ConnectionCloses(i)
  PROVE  Moves /\ Sound
<1>0. CountTyped /\ QueueTyped /\ ConnTyped /\ ServerTyped
  BY DEF ServerInv, ServerTypes
<1>1. conn[i].state = "up" /\ i \in connections_ /\ server = "alive"
  <2>1. conn[i].state = "up"
    BY DEF ConnectionCloses
  <2> QED
    BY <2>1 DEF LifeInv, LifeFits, QuietDown
<1>2. Turns(i, "down")
  <2>1. "down" \in State
    BY DEF State
  <2>2. conn' = [conn EXCEPT ![i].state = "down"]
    BY DEF ConnectionCloses, setsDisconnected
  <2> QED
    BY <1>0, <2>1, <2>2, StateTurns
<1>3. batch' = batch /\ i \in 0..MaxClients /\ Base \in Loops
  BY ConnsFinite DEF ConnectionCloses, Conns, Loops
<1>4. CASE conn[i].loop = Base
  <2>1. removeConnectionInLoop(i)
    BY <1>4 DEF ConnectionCloses, removeConnection
  <2>2. /\ connections_' = connections_ \ {i} /\ failed' = failed
        /\ pending' = [pending EXCEPT ![Base] = Append(@, functor("connectDestroyed", i))]
    BY <1>1, <1>4, <2>1 DEF removeConnectionInLoop, queues, queueInLoop
  <2>3. WorkPlus(Base, functor("connectDestroyed", i))
    BY <1>0, <1>3, <2>2, WorkQueued DEF Calls
  <2>4. Closes(i)
    BY <1>1, <1>2, <1>4, <2>2, <2>3 DEF Closes
  <2> QED
    BY <2>2, <2>4 DEF Moves, Sound
<1>5. CASE conn[i].loop # Base
  <2>1. /\ connections_' = connections_ /\ failed' = failed
        /\ pending' = [pending EXCEPT ![Base] = Append(@, functor("removeConnectionInLoop", i))]
    BY <1>1, <1>5 DEF ConnectionCloses, removeConnection, queues, queueInLoop
  <2>2. WorkPlus(Base, functor("removeConnectionInLoop", i))
    BY <1>0, <1>3, <2>1, WorkQueued DEF Calls
  <2>3. Closes(i)
    BY <1>1, <1>2, <1>5, <2>1, <2>2 DEF Closes
  <2> QED
    BY <2>1, <2>3 DEF Moves, Sound
<1> QED
  BY <1>4, <1>5

(* What is at the front of a batch is due, or is listen.                   *)
LEMMA FrontIsDue ==
  ASSUME ServerInv, LifeInv, NEW l \in Loops, batch[l] # <<>>
  PROVE  /\ Head(batch[l]) \in Jobs
         /\ Head(batch[l]).f # "listen" => Due(l, Head(batch[l]))
         /\ Head(batch[l]).f = "listen" =>
              /\ l = Base /\ Head(batch[l]) = functor("listen", 0)
              /\ server = "alive" /\ ~listenning_ /\ starter = "done"
<1>1. batch[l] \in Seq(Jobs) /\ pending[l] \in Seq(Jobs)
  BY DEF ServerInv, ServerTypes, QueueTyped
<1>2. Head(batch[l]) \in Jobs /\ Has(batch[l], Head(batch[l]))
  BY <1>1, HasTail
<1>3. Queued(l, Head(batch[l]))
  BY <1>1, <1>2, HasConcat DEF Queued, work
<1> DEFINE x == Head(batch[l])
<1> HIDE DEF x
<1>4. x \in Jobs /\ Queued(l, x)
  BY <1>2, <1>3 DEF x
<1>5. x.f # "listen" => Due(l, x)
  BY <1>4 DEF LifeInv, CallsFit, LoopFits
<1>6. ASSUME x.f = "listen"
      PROVE  /\ l = Base /\ x = functor("listen", 0)
             /\ server = "alive" /\ ~listenning_ /\ starter = "done"
  <2>1. l = Base /\ x.c = 0 /\ server = "alive" /\ ~listenning_ /\ starter = "done"
    BY <1>4, <1>6 DEF LifeInv, ListenFits
  <2>2. x = functor("listen", 0)
    BY <1>4, <1>6, <2>1 DEF functor, Jobs
  <2> QED
    BY <2>1, <2>2
<1> QED
  BY <1>4, <1>5, <1>6 DEF x

(* A functor runs when it is due. *)
LEMMA RunMoves ==
  ASSUME ServerInv, LifeInv, NEW l \in Loops, RunFunctor(l)
  PROVE  Moves /\ Sound
<1>0. CountTyped /\ QueueTyped /\ ConnTyped /\ ServerTyped
  BY DEF ServerInv, ServerTypes
<1>1. batch[l] # <<>> /\ batch' = [batch EXCEPT ![l] = Tail(@)]
  BY DEF RunFunctor
<1> DEFINE x == Head(batch[l])
           i == x.c
<1>2. /\ x \in Jobs
      /\ x.f # "listen" => Due(l, x)
      /\ x.f = "listen" => l = Base /\ x = functor("listen", 0) /\ server = "alive"
  BY <1>1, FrontIsDue
<1>3. /\ work(l) # <<>> /\ Head(work(l)) = x
      /\ pending'[l] = pending[l] => work(l)' = Tail(work(l))
      /\ pending' = pending => WorkMinus(l, x)
  BY <1>0, <1>1, WorkTaken
<1>4. \/ x.f = "listen" /\ RunListen
      \/ x.f = "connectEstablished" /\ RunConnectEstablished(i)
      \/ x.f = "removeConnectionInLoop" /\ RunRemoveConnectionInLoop(i)
      \/ x.f = "connectDestroyed" /\ RunConnectDestroyed(i)
  BY DEF RunFunctor
<1>5. \A m \in Loops, f \in Calls, c \in 0..MaxClients :
        m # l /\ pending' = [pending EXCEPT ![m] = Append(@, functor(f, c))] =>
          \A k \in Loops : work(k)' = IF k = l THEN Tail(work(k))
                                      ELSE IF k = m THEN Append(work(k), functor(f, c))
                                      ELSE work(k)
  BY <1>0, <1>1, WorkTaken
<1>6. x = functor(x.f, i)
  BY <1>2 DEF functor, Jobs
<1> HIDE DEF x
<1>7. CASE x.f = "listen"
  <2>1. UNCHANGED <<conn, connections_, pending, failed>>
    BY <1>2, <1>4, <1>7 DEF RunListen
  <2>2. WorkMinus(Base, functor("listen", 0))
    BY <1>2, <1>3, <1>7, <2>1
  <2> QED
    BY <2>1, <2>2 DEF Moves, Listened, Sound
<1>8. CASE x.f = "connectEstablished"
  <2>1. i \in Conns /\ l = conn[i].loop /\ conn[i].state = "connecting"
    BY <1>2, <1>8 DEF Due
  <2>2. /\ conn' = [conn EXCEPT ![i].state = "up"]
        /\ UNCHANGED <<connections_, pending, failed>>
    BY <1>4, <1>8, <2>1 DEF RunConnectEstablished
  <2>3. Turns(i, "up")
    <3>1. "up" \in State
      BY DEF State
    <3> QED
      BY <1>0, <2>1, <2>2, <3>1, StateTurns
  <2>4. WorkMinus(conn[i].loop, functor("connectEstablished", i))
    BY <1>3, <1>6, <1>8, <2>1, <2>2
  <2> QED
    BY <2>1, <2>2, <2>3, <2>4 DEF Moves, Establishes, Sound
<1>9. CASE x.f = "removeConnectionInLoop"
  <2>1. i \in Conns /\ l = Base /\ conn[i].state = "down" /\ i \in connections_
    BY <1>2, <1>9 DEF Due
  <2>2. server = "alive" /\ conn[i].loop # Base
    BY <2>1 DEF LifeInv, QuietDown, LifeFits
  <2>3. /\ conn' = conn /\ connections_' = connections_ \ {i} /\ failed' = failed
        /\ pending' = [pending EXCEPT ![conn[i].loop] = Append(@, functor("connectDestroyed", i))]
    BY <1>4, <1>9, <2>1, <2>2
       DEF RunRemoveConnectionInLoop, removeConnectionInLoop, queues, queueInLoop
  <2>4. conn[i].loop \in Loops /\ i \in 0..MaxClients /\ "connectDestroyed" \in Calls
    BY <1>0, <2>1, ConnsFinite DEF ConnTyped, Conns, Calls
  <2>5. \A k \in Loops :
          work(k)' = IF k = Base THEN Tail(work(k))
                     ELSE IF k = conn[i].loop THEN Append(work(k), functor("connectDestroyed", i))
                     ELSE work(k)
    BY <1>5, <2>1, <2>2, <2>3, <2>4
  <2>6. work(Base) # <<>> /\ Head(work(Base)) = functor("removeConnectionInLoop", i)
    BY <1>3, <1>6, <1>9, <2>1
  <2>7. Erases(i)
    BY <2>1, <2>2, <2>3, <2>5, <2>6 DEF Erases
  <2> QED
    BY <2>1, <2>3, <2>7 DEF Moves, Sound
<1>10. CASE x.f = "connectDestroyed"
  <2>1. i \in Conns /\ l = conn[i].loop /\ conn[i].state = "down" /\ i \notin connections_
    BY <1>2, <1>10 DEF Due
  <2>2. /\ conn' = [conn EXCEPT ![i].state = "destroyed"]
        /\ UNCHANGED <<connections_, pending, failed>>
    BY <1>4, <1>10, <2>1 DEF RunConnectDestroyed
  <2>3. Turns(i, "destroyed")
    <3>1. "destroyed" \in State
      BY DEF State
    <3> QED
      BY <1>0, <2>1, <2>2, <3>1, StateTurns
  <2>4. WorkMinus(conn[i].loop, functor("connectDestroyed", i))
    BY <1>3, <1>6, <1>10, <2>1, <2>2
  <2> QED
    BY <2>1, <2>2, <2>3, <2>4 DEF Moves, Destroys, Sound
<1> QED
  BY <1>4, <1>7, <1>8, <1>9, <1>10

(* A connection to which a batch that has been run refers and nothing else *)
(* has been destroyed: all its other states leave it in the map or make a  *)
(* functor due that refers to it.                                          *)
LEMMA LastReference ==
  ASSUME ServerInv, LifeInv, NEW l \in Loops, batch[l] = <<>>,
         NEW i \in functors[l],
         NEW fs, \A m \in Loops : m # l => fs[m] = functors[m],
         i \notin referenced(connections_, pending, fs)
  PROVE  i \in Conns /\ conn[i].state = "destroyed"
<1>0. QueueTyped /\ ConnTyped
  BY DEF ServerInv, ServerTypes
<1>1. i \in Conns /\ conn[i].loop \in Loops /\ conn[i].state \in State
  BY <1>0 DEF QueueTyped, ConnTyped
<1>2. conn[i].state \notin {"none", "freed"}
  BY DEF LifeInv, RefFits
<1>3. /\ i \notin connections_
      /\ \A m \in Loops : i \notin mentioned(pending[m]) /\ i \notin fs[m]
  BY DEF referenced
<1>4. conn[i].state \notin {"connecting", "up"}
  BY <1>1, <1>3 DEF LifeInv, LifeFits
<1>5. ASSUME conn[i].state = "down" PROVE FALSE
  <2> DEFINE x == functor("connectDestroyed", i)
             m == conn[i].loop
  <2>1. x \in Jobs /\ x.f = "connectDestroyed" /\ x.c = i
    BY <1>1, ConnsFinite DEF functor, Jobs, Calls, Conns
  <2>2. Due(m, x)
    BY <1>1, <1>3, <1>5, <2>1 DEF Due
  <2> HIDE DEF x
  <2>3. Has(work(m), x)
    BY <1>1, <2>1, <2>2 DEF LifeInv, CallsFit, LoopFits, Queued
  <2>4. batch[m] \in Seq(Jobs) /\ pending[m] \in Seq(Jobs)
    BY <1>0, <1>1 DEF QueueTyped
  <2>5. Has(batch[m], x) \/ Has(pending[m], x)
    BY <2>3, <2>4, HasConcat DEF work
  <2>6. ~Has(pending[m], x)
    BY <1>1, <1>3, <2>1, HasMentions
  <2>7. i \in mentioned(batch[m])
    BY <1>1, <2>1, <2>5, <2>6, HasMentions
  <2>8. i \in functors[m]
    BY <1>1, <2>7 DEF LifeInv, BatchFits
  <2>9. m # l
    BY <2>7 DEF mentioned
  <2> QED
    BY <1>1, <1>3, <2>8, <2>9
<1> QED
  BY <1>1, <1>2, <1>4, <1>5 DEF State

(* The functors of a batch are destroyed, with the last references.        *)
LEMMA DropMoves ==
  ASSUME ServerInv, LifeInv, NEW l \in Loops, dropsFunctors(l),
         UNCHANGED <<connections_, pending, batch>>
  PROVE  Moves /\ Sound
<1>0. QueueTyped /\ ConnTyped /\ free \in Nat
  BY DEF ServerInv, ServerTypes, CountTyped
<1> DEFINE cs == functors[l] \ referenced(connections_, pending, functors')
<1>1. /\ batch[l] = <<>> /\ frees(cs)
      /\ functors'[l] = {} /\ \A m \in Loops : m # l => functors'[m] = functors[m]
  BY <1>0 DEF dropsFunctors, QueueTyped
<1>2. cs \in SUBSET Conns
  BY <1>0 DEF QueueTyped
<1>3. \A i \in cs : conn[i].state = "destroyed"
  <2> SUFFICES ASSUME NEW i \in cs PROVE conn[i].state = "destroyed"
    OBVIOUS
  <2> QED
    BY <1>1, LastReference
<1>4. \A m \in Loops : functors'[m] \cap cs = {}
  BY DEF referenced
<1> HIDE DEF cs
<1>5. /\ \A i \in Conns : conn'[i].loop = conn[i].loop /\ (i \notin cs => conn'[i] = conn[i])
      /\ \A i \in cs : conn'[i].state = "freed"
      /\ failed' = failed
  BY <1>0, <1>1, <1>2, <1>3, FreesOutcome DEF ConnTyped
<1>6. Frees(cs)
  BY <1>3, <1>4, <1>5, WorkStays DEF Frees
<1> QED
  BY <1>2, <1>5, <1>6 DEF Moves, Sound

(* The end of an io loop: nothing is due to it any more.                   *)
LEMMA EndMoves ==
  ASSUME ServerInv, LifeInv, NEW t \in Threads, IoLoopEnds(t)
  PROVE  Moves /\ Sound
<1>0. QueueTyped /\ ConnTyped /\ free \in Nat /\ PoolInv /\ t \in Loops
  BY DEF ServerInv, ServerTypes, CountTyped, Loops
<1>1. threadPc[t] = "left"
  BY DEF IoLoopEnds, LeaveThread, At
<1>2. server # "alive"
  <2>1. ToldToQuit(t)
    BY <1>0, <1>1 DEF PoolInv, ThreadsFit
  <2>2. ownerPc \in Quitting \cup {"gone"}
    BY <1>0, <2>1, ThreadFacts DEF ToldToQuit, Quitting, PoolInv, OwnerFits
  <2> QED
    BY <2>2 DEF ServerInv, StartFits, Starting, Quitting
<1>3. numThreads_ # 0
  <2>1. Known(t)
    BY <1>0, <1>1 DEF PoolInv, ThreadsFit
  <2>2. t <= Len(loops_)
    BY <1>2, <2>1 DEF Known, ServerInv, StartFits, Starting
  <2> QED
    BY <1>0, <2>2, ThreadFacts DEF PoolInv, PoolTyped
<1>4. \A fn \in Jobs : ~Due(t, fn)
  BY <1>2, <1>3 DEF LifeInv, QuietDown, Due
<1>5. batch[t] = <<>> /\ pending[t] = <<>>
  BY <1>1, <1>4, NothingDue DEF LifeInv, BatchFits
<1>6. pending' = pending
  BY <1>0, <1>5 DEF IoLoopEnds, QueueTyped
<1>7. frees({}) /\ UNCHANGED <<connections_, batch>>
  <2>1. mentioned(pending[t]) = {}
    BY <1>5 DEF mentioned
  <2>2. mentioned(pending[t]) \ referenced(connections_, pending', functors) = {}
    BY <2>1
  <2>3. frees(mentioned(pending[t]) \ referenced(connections_, pending', functors))
        /\ UNCHANGED <<connections_, batch>>
    BY DEF IoLoopEnds
  <2> QED
    BY <2>2, <2>3
<1>8. conn' = conn /\ failed' = failed
  BY <1>0, <1>7 DEF frees, ConnTyped
<1> QED
  BY <1>6, <1>7, <1>8, WorkStays DEF Moves, Rests, Sound

(* The destructor of a server without threads destroys its connections on  *)
(* the spot; one with threads, which rests, has none.                      *)
LEMMA DestructMoves ==
  ASSUME ~DestroyBusy, ServerInv, LifeInv, Destruct
  PROVE  Moves /\ Sound
<1>0. PoolInv /\ CountTyped /\ QueueTyped /\ ConnTyped
  BY DEF ServerInv, ServerTypes
<1>1. \A i \in connections_ : i \in Conns /\ conn[i].loop = Base
  <2>1. connections_ \subseteq Conns
    BY <1>0, MapHoldsConns
  <2>2. numThreads_ \in Nat /\ Len(loops_) \in Nat /\ Len(loops_) <= numThreads_
    BY <1>0, ThreadFacts DEF PoolInv, PoolTyped
  <2>3. CASE numThreads_ > 0
    <3>1. \A i \in Conns : conn[i].state \in {"none", "freed"}
      BY <2>3 DEF Destruct, MayDestroy
    <3> QED
      BY <1>0, <2>1, <3>1 DEF ConnTyped
  <2>4. CASE numThreads_ = 0
    <3> SUFFICES ASSUME NEW i \in connections_, conn[i].loop # Base PROVE FALSE
      BY <2>1
    <3>1. conn[i].loop <= Len(loops_) /\ conn[i].loop \in Threads
      BY <1>0, <2>1 DEF ConnTyped, Loops
    <3>2. PICK n \in Nat : n = Len(loops_) /\ n <= 0
      BY <2>2, <2>4
    <3>3. PICK t \in Threads : t = conn[i].loop
      BY <3>1
    <3>4. t \in Nat /\ t >= 1
      BY ThreadFacts
    <3> QED
      BY <3>1, <3>2, <3>3, <3>4
  <2> QED
    BY <2>2, <2>3, <2>4
<1>2. \A i \in connections_ : conn[i].state = "up"
  BY <1>1 DEF LifeInv, LifeFits
<1>3. UNCHANGED <<pending, batch, functors, failed>>
  <2>1. UNCHANGED <<batch, functors, failed>>
    BY DEF Destruct, PoolDestroy
  <2>2. \A l \in Loops : l # Base => {i \in connections_ : conn[i].loop = l} = {}
    BY <1>1
  <2>3. SetToSeq({functor("connectDestroyed", i) : i \in {}}) = <<>>
    BY LaterTyped
  <2>4. pending' = [l \in Loops |->
           IF l = Base THEN pending[l]
           ELSE pending[l] \o SetToSeq({functor("connectDestroyed", i) :
                                          i \in {j \in connections_ : conn[j].loop = l}})]
    BY DEF Destruct
  <2>5. \A l \in Loops : pending'[l] = pending[l]
    <3> SUFFICES ASSUME NEW l \in Loops PROVE pending'[l] = pending[l]
      OBVIOUS
    <3>1. pending[l] \in Seq(Jobs)
      BY <1>0 DEF QueueTyped
    <3>2. pending[l] \o <<>> = pending[l]
      BY <3>1
    <3>3. CASE l # Base
      <4>1. {i \in connections_ : conn[i].loop = l} = {}
        BY <2>2, <3>3
      <4>2. SetToSeq({functor("connectDestroyed", i) :
                        i \in {j \in connections_ : conn[j].loop = l}}) = <<>>
        BY <2>3, <4>1
      <4> QED
        BY <2>4, <3>2, <3>3, <4>2
    <3>4. CASE l = Base
      BY <2>4, <3>4
    <3> QED
      BY <3>3, <3>4
  <2>6. pending' = pending
    BY <1>0, <2>4, <2>5 DEF QueueTyped
  <2> QED
    BY <2>1, <2>6
<1>4. /\ \A i \in Conns :
           /\ conn'[i].loop = conn[i].loop
           /\ i \notin connections_ \/ conn[i].loop # Base => conn'[i] = conn[i]
           /\ i \in connections_ /\ conn[i].loop = Base =>
                conn'[i].state = IF i \in referenced({}, pending, functors)
                                 THEN "destroyed" ELSE "freed"
  BY <1>0, DestructOutcome
<1>5. \A i \in connections_ :
        conn'[i].state = "freed" => \A l \in Loops : i \notin functors'[l]
  <2> SUFFICES ASSUME NEW i \in connections_, conn'[i].state = "freed"
               PROVE  \A l \in Loops : i \notin functors[l]
    BY <1>3
  <2>1. i \notin referenced({}, pending, functors)
    BY <1>1, <1>4
  <2> QED
    BY <2>1 DEF referenced
<1>6. server = "alive" /\ connections_' = {}
  BY DEF Destruct
<1>7. Dies
  BY <1>1, <1>2, <1>3, <1>4, <1>5, <1>6, WorkStays DEF Dies
<1> QED
  BY <1>3, <1>7 DEF Moves, Sound

(* The pool by itself leaves the connections alone, and the destructor     *)
(* finds each thread in its loop when it tells it to quit.                 *)
LEMMA PoolOnlyMoves ==
  ASSUME ServerInv, PoolOnly
  PROVE  Moves /\ Sound
<1>0. PoolInv
  BY DEF ServerInv
<1>1. UNCHANGED <<conn, connections_, pending, batch>>
  BY DEF PoolOnly, serverVars, connVars, queueVars
<1>2. QuitThread => Sound
  <2> SUFFICES ASSUME QuitThread PROVE Sound
    OBVIOUS
  <2>1. ownerPc = "quit"
    BY DEF QuitThread
  <2>2. dying \in Threads /\ dying \in Nat /\ dying <= Len(loops_)
    <3>1. Len(loops_) \in Nat /\ Len(loops_) <= numThreads_ /\ numThreads_ \in Nat
          /\ numThreads_ <= MaxThreads /\ dying \in Nat /\ dying >= 1
      BY <1>0, ThreadFacts DEF PoolInv, PoolTyped
    <3>2. dying <= Len(loops_)
      BY <1>0, <2>1 DEF PoolInv, OwnerFits, Quitting
    <3> QED
      BY <3>1, <3>2, ThreadFacts DEF Threads
  <2>3. ~ToldToQuit(dying)
    BY <2>1, <2>2 DEF ToldToQuit
  <2>4. threadPc[dying] \in Running
    BY <1>0, <2>2, <2>3 DEF PoolInv, PoolTyped, ThreadsFit
  <2>5. loop_[dying]
    BY <1>0, <2>2, <2>4 DEF PoolInv, ThreadsFit
  <2> QED
    BY <2>5 DEF QuitThread, Sound
<1>3. StartLoop \/ WaitForLoop \/ WakeupThread \/ Join \/ SpuriousWakeup => Sound
  BY DEF StartLoop, WaitForLoop, WakeupThread, Join, SpuriousWakeup, Sound
<1>4. \A t \in Threads : ThreadStep(t) => Sound
  BY DEF ThreadStep, Publish, EnterLoop, CheckQuit, Sound
<1>5. Sound
  BY <1>2, <1>3, <1>4 DEF PoolOnly, OwnerStep
<1> QED
  BY <1>1, <1>5, WorkStays DEF Moves, Rests

(* Steps that have nothing to do with connections or functors.             *)
LEMMA OtherMoves ==
  ASSUME \/ AcceptFails \/ AcceptOnReserve \/ CloseClient \/ ReopenReserve
         \/ AcceptorGone \/ ClientArrives \/ OtherOpens \/ OtherCloses
  PROVE  Moves /\ Sound
<1>1. UNCHANGED <<conn, connections_, pending, batch, failed>>
  BY DEF AcceptFails, AcceptOnReserve, CloseClient, ReopenReserve, acceptorOnly,
         AcceptorGone, ClientArrives, OtherOpens, OtherCloses, connVars, queueVars, poolVars
<1> QED
  BY <1>1, WorkStays DEF Moves, Rests, Sound

(* Every step is one of the moves, and no assert fails in it.              *)
LEMMA EveryStepMoves ==
  ASSUME ~DestroyBusy, ServerInv, LifeInv, Next
  PROVE  Moves /\ Sound
<1>0. QueueTyped
  BY DEF ServerInv, ServerTypes
<1> DEFINE Good == Moves /\ Sound
<1>1. ASSUME NEW who \in {"base", "other"}, Start(who) PROVE Good
  <2>1. UNCHANGED <<conn, connections_, pending, batch>> /\ failed' = failed
    BY <1>1 DEF Start, PoolStart, connVars, queueVars, ServerInv, Unstarted
  <2> QED
    BY <2>1, WorkStays DEF Moves, Rests, Sound
<1>2. BasePollReturns => Good
  <2> SUFFICES ASSUME BasePollReturns PROVE Good
    OBVIOUS
  <2>1. batch[Base] = <<>> /\ takesPending(Base) /\ Base \in Loops
        /\ UNCHANGED <<conn, connections_, failed>>
    BY DEF BasePollReturns, Polls, Loops, connVars, poolVars
  <2> QED
    BY <1>0, <2>1, WorkBatched DEF Moves, Rests, Sound
<1>3. ASSUME NEW t \in Threads, IoPollReturns(t) PROVE Good
  <2>1. takesPending(t) /\ t \in Loops /\ UNCHANGED <<conn, connections_, failed>>
    BY <1>3 DEF IoPollReturns, PollReturns, Loops, connVars
  <2>2. batch[t] = <<>>
    BY <1>3 DEF IoPollReturns, PollReturns, At, LifeInv, BatchFits
  <2> QED
    BY <1>0, <2>1, <2>2, WorkBatched DEF Moves, Rests, Sound
<1>4. BaseFunctorsDone => Good
  BY DropMoves DEF BaseFunctorsDone, Loops
<1>5. \A t \in Threads : IoFunctorsDone(t) => Good
  BY DropMoves DEF IoFunctorsDone, Loops
<1>6. /\ PoolOnly => Good
      /\ StartListening => Good
      /\ Accept => Good
      /\ \A i \in Conns : ConnectionCloses(i) => Good
      /\ \A l \in Loops : RunFunctor(l) => Good
      /\ \A t \in Threads : IoLoopEnds(t) => Good
      /\ Destruct => Good
  BY PoolOnlyMoves, StartListeningMoves, AcceptMoves, CloseMoves, RunMoves, EndMoves, DestructMoves
<1>7. AcceptFails \/ AcceptOnReserve \/ CloseClient \/ ReopenReserve \/ AcceptorGone
        \/ ClientArrives \/ OtherOpens \/ OtherCloses => Good
  BY OtherMoves
<1> HIDE DEF Good
<1> QED
  BY <1>1, <1>2, <1>3, <1>4, <1>5, <1>6, <1>7, StepCases DEF Good

(* The sequences of what the loops have to run. *)
LEMMA WorkTyped ==
  ASSUME ServerInv, NEW l \in Loops
  PROVE  work(l) \in Seq(Jobs)
<1>1. batch[l] \in Seq(Jobs) /\ pending[l] \in Seq(Jobs)
  BY DEF ServerInv, ServerTypes, QueueTyped
<1> QED
  BY <1>1, WorkChanges DEF work

(* A loop whose work stays while nothing else comes to be due in it.       *)
LEMMA FitsStays ==
  ASSUME NEW l, LoopFits(l), work(l)' = work(l),
         \A fn \in Jobs : fn.f # "listen" => (Due(l, fn)' <=> Due(l, fn))
  PROVE  LoopFits(l)'
BY DEF LoopFits, Queued

(* A loop to which one functor comes, when it is due and was not before.   *)
LEMMA FitsPlus ==
  ASSUME NEW l, LoopFits(l), work(l) \in Seq(Jobs), NEW x \in Jobs,
         work(l)' = Append(work(l), x), ~Queued(l, x),
         \A fn \in Jobs : fn.f # "listen" => (Due(l, fn)' <=> Due(l, fn) \/ fn = x)
  PROVE  LoopFits(l)'
<1>1. /\ \A y : Has(Append(work(l), x), y) <=> Has(work(l), y) \/ y = x
      /\ Distinct(Append(work(l), x))
  BY HasAppend DEF LoopFits, Queued
<1>2. Distinct(work(l))' /\ \A y : Queued(l, y)' <=> Has(work(l), y) \/ y = x
  BY <1>1 DEF Queued
<1> QED
  BY <1>2 DEF LoopFits, Queued

(* A loop that runs a functor, which is no longer due then.                *)
LEMMA FitsMinus ==
  ASSUME NEW l, LoopFits(l), work(l) \in Seq(Jobs), work(l) # <<>>,
         work(l)' = Tail(work(l)),
         \A fn \in Jobs : fn.f # "listen" =>
           (Due(l, fn)' <=> Due(l, fn) /\ fn # Head(work(l)))
  PROVE  LoopFits(l)'
<1>1. /\ \A y : Has(Tail(work(l)), y) <=> Has(work(l), y) /\ y # Head(work(l))
      /\ Distinct(Tail(work(l)))
  BY HasTail DEF LoopFits
<1>2. Distinct(work(l))' /\ \A y : Queued(l, y)' <=> Has(work(l), y) /\ y # Head(work(l))
  BY <1>1 DEF Queued
<1> QED
  BY <1>2 DEF LoopFits, Queued

(* One functor comes to the loop m. *)
LEMMA OneComes ==
  ASSUME NEW l, NEW m, LoopFits(l), work(l) \in Seq(Jobs), NEW x \in Jobs,
         x.f # "listen", ~Due(l, x),
         work(l)' = IF l = m THEN Append(work(l), x) ELSE work(l),
         \A fn \in Jobs : Due(l, fn)' <=> Due(l, fn) \/ (l = m /\ fn = x)
  PROVE  LoopFits(l)'
<1>1. ~Queued(l, x)
  BY DEF LoopFits
<1>2. CASE l = m
  BY <1>1, <1>2, FitsPlus
<1>3. CASE l # m
  BY <1>3, FitsStays
<1> QED
  BY <1>2, <1>3

(* One functor is taken from the loop m. *)
LEMMA OneGoes ==
  ASSUME NEW l, NEW m, LoopFits(l), work(l) \in Seq(Jobs), NEW x \in Jobs,
         l = m => work(l) # <<>> /\ Head(work(l)) = x,
         work(l)' = IF l = m THEN Tail(work(l)) ELSE work(l),
         \A fn \in Jobs : fn.f # "listen" =>
           (Due(l, fn)' <=> Due(l, fn) /\ ~(l = m /\ fn = x))
  PROVE  LoopFits(l)'
<1>1. CASE l = m
  BY <1>1, FitsMinus
<1>2. CASE l # m
  BY <1>2, FitsStays
<1> QED
  BY <1>1, <1>2

(* A functor is a record, determined by its two fields. *)
LEMMA FunctorsDiffer ==
  /\ \A f \in Calls, i \in Conns :
       functor(f, i) \in Jobs /\ functor(f, i).f = f /\ functor(f, i).c = i
  /\ \A fn \in Jobs : \A f, i : fn = functor(f, i) <=> fn.f = f /\ fn.c = i
BY ConnsFinite DEF functor, Jobs, Conns

(* What a loop has to run is what is due in it, in every step.             *)
LEMMA CallsFitStep ==
  ASSUME ServerInv, LifeInv, Next, Moves
  PROVE  CallsFit'
<1>0. ConnTyped /\ CallsFit /\ LifeFits
  BY DEF ServerInv, ServerTypes, LifeInv
<1> SUFFICES ASSUME NEW l \in Loops PROVE LoopFits(l)'
  BY DEF CallsFit
<1>1. LoopFits(l) /\ work(l) \in Seq(Jobs)
  BY <1>0, WorkTyped DEF CallsFit
<1>2. Base \in Loops /\ Base' = Base /\ Calls = {"listen", "connectEstablished",
        "removeConnectionInLoop", "connectDestroyed"}
  BY DEF Loops, Base, Calls
<1>3. CASE Rests
  BY <1>1, <1>3, FitsStays DEF Rests, WorkSame, Due
<1>4. CASE Listens
  <2>1. \A fn \in Jobs : Due(l, fn)' <=> Due(l, fn)
    BY <1>4 DEF Listens, Due
  <2> DEFINE x == functor("listen", 0)
  <2>2. x \in Jobs /\ x.f = "listen"
    BY ServerAssumption DEF functor, Jobs, Calls
  <2>3. ~Queued(l, x)
    BY <1>4, <2>2 DEF Listens, LifeInv, ListenFits
  <2>4. l # Base => work(l)' = work(l)
    BY <1>4 DEF Listens, WorkPlus
  <2>5. l = Base => work(l)' = Append(work(l), x)
    BY <1>4 DEF Listens, WorkPlus
  <2>6. \A fn \in Jobs : fn.f # "listen" => (Due(l, fn)' <=> Due(l, fn) \/ fn = x)
    BY <2>1, <2>2
  <2> HIDE DEF x
  <2>7. l = Base => LoopFits(l)'
    BY <1>1, <2>2, <2>3, <2>5, <2>6, FitsPlus
  <2>8. l # Base => LoopFits(l)'
    BY <1>1, <2>1, <2>4, FitsStays
  <2> QED
    BY <2>7, <2>8
<1>5. CASE Listened
  <2> DEFINE x == functor("listen", 0)
  <2>1. \A fn \in Jobs : fn.f # "listen" => (Due(l, fn)' <=> Due(l, fn)) /\ fn # x
    BY <1>5 DEF Listened, Due, functor
  <2>2. l # Base => work(l)' = work(l)
    BY <1>5 DEF Listened, WorkMinus
  <2>3. l = Base => work(l) # <<>> /\ Head(work(l)) = x /\ work(l)' = Tail(work(l))
    BY <1>5 DEF Listened, WorkMinus
  <2> HIDE DEF x
  <2>4. l = Base => LoopFits(l)'
    BY <1>1, <2>1, <2>3, FitsMinus
  <2> QED
    BY <1>1, <2>1, <2>2, <2>4, FitsStays
<1>6. CASE Dies
  <2>1. \A i \in Conns : /\ conn'[i].loop = conn[i].loop
                         /\ i \in connections_ => conn[i].state = "up"
                         /\ i \in connections_ => conn'[i].state \in {"destroyed", "freed"}
                         /\ i \notin connections_ => conn'[i] = conn[i]
    BY <1>6 DEF Dies
  <2>2. \A fn \in Jobs : Due(l, fn)' <=> Due(l, fn)
    <3> SUFFICES ASSUME NEW fn \in Jobs, fn.c \in Conns PROVE Due(l, fn)' <=> Due(l, fn)
      BY DEF Due
    <3>1. CASE fn.c \in connections_
      BY <2>1, <3>1, <1>6 DEF Due, Dies
    <3>2. CASE fn.c \notin connections_
      BY <2>1, <3>2, <1>6 DEF Due, Dies
    <3> QED
      BY <3>1, <3>2
  <2> QED
    BY <1>1, <1>6, <2>2, FitsStays DEF Dies, WorkSame
<1>7. ASSUME NEW i \in Conns, NEW m \in Loops, Opens(i, m) PROVE LoopFits(l)'
  <2> DEFINE x == functor("connectEstablished", i)
  <2>1. x \in Jobs /\ x.f = "connectEstablished" /\ x.c = i
    BY <1>2, FunctorsDiffer
  <2>2. \A fn \in Jobs : fn = x <=> fn.f = "connectEstablished" /\ fn.c = i
    BY FunctorsDiffer
  <2>3. /\ conn[i].state = "none" /\ i \notin connections_ /\ i \in connections_'
        /\ conn'[i].loop = m /\ conn'[i].state = IF m = Base THEN "up" ELSE "connecting"
        /\ \A j \in Conns : j # i => /\ conn'[j] = conn[j]
                                     /\ j \in connections_' <=> j \in connections_
    BY <1>7 DEF Opens, Gone
  <2>4. ~Due(l, x)
    BY <2>1, <2>3 DEF Due
  <2> HIDE DEF x
  <2>5. \A fn \in Jobs : Due(l, fn)' <=> Due(l, fn) \/ (m # Base /\ l = m /\ fn = x)
    <3> SUFFICES ASSUME NEW fn \in Jobs, fn.c \in Conns
                 PROVE Due(l, fn)' <=> Due(l, fn) \/ (m # Base /\ l = m /\ fn = x)
      BY <2>1 DEF Due
    <3>1. CASE fn.c = i
      BY <1>2, <2>2, <2>3, <3>1 DEF Due
    <3>2. CASE fn.c # i
      BY <1>2, <2>2, <2>3, <3>2 DEF Due
    <3> QED
      BY <3>1, <3>2
  <2>6. CASE m = Base
    <3>1. work(l)' = work(l)
      BY <1>7, <2>6 DEF Opens, WorkSame
    <3> QED
      BY <1>1, <2>5, <2>6, <3>1, FitsStays
  <2>7. CASE m # Base
    <3>1. work(l)' = IF l = m THEN Append(work(l), x) ELSE work(l)
      BY <1>7, <2>7 DEF Opens, WorkPlus, x
    <3> QED
      BY <1>1, <2>1, <2>4, <2>5, <2>7, <3>1, OneComes
  <2> QED
    BY <2>6, <2>7
<1>8. ASSUME NEW i \in Conns, Establishes(i) PROVE LoopFits(l)'
  <2> DEFINE x == functor("connectEstablished", i)
  <2>1. x \in Jobs /\ x.f = "connectEstablished" /\ x.c = i
    BY <1>2, FunctorsDiffer
  <2>2. \A fn \in Jobs : fn = x <=> fn.f = "connectEstablished" /\ fn.c = i
    BY FunctorsDiffer
  <2>3. PICK m : m = conn[i].loop
    OBVIOUS
  <2>4. /\ conn[i].state = "connecting" /\ conn'[i].state = "up" /\ conn'[i].loop = m
        /\ connections_' = connections_
        /\ \A j \in Conns : j # i => conn'[j] = conn[j]
    BY <1>8, <2>3 DEF Establishes, Turns
  <2>5. /\ l = m => work(l) # <<>> /\ Head(work(l)) = x
        /\ work(l)' = IF l = m THEN Tail(work(l)) ELSE work(l)
    BY <1>8, <2>3 DEF Establishes, WorkMinus
  <2> HIDE DEF x
  <2>6. \A fn \in Jobs : fn.f # "listen" =>
          (Due(l, fn)' <=> Due(l, fn) /\ ~(l = m /\ fn = x))
    <3> SUFFICES ASSUME NEW fn \in Jobs, fn.c \in Conns
                 PROVE Due(l, fn)' <=> Due(l, fn) /\ ~(l = m /\ fn = x)
      BY DEF Due
    <3>1. CASE fn.c = i
      BY <1>2, <2>2, <2>3, <2>4, <3>1 DEF Due
    <3>2. CASE fn.c # i
      BY <1>2, <2>2, <2>4, <3>2 DEF Due
    <3> QED
      BY <3>1, <3>2
  <2> QED
    BY <1>1, <2>1, <2>5, <2>6, OneGoes
<1>9. ASSUME NEW i \in Conns, Destroys(i) PROVE LoopFits(l)'
  <2> DEFINE x == functor("connectDestroyed", i)
  <2>1. x \in Jobs /\ x.f = "connectDestroyed" /\ x.c = i
    BY <1>2, FunctorsDiffer
  <2>2. \A fn \in Jobs : fn = x <=> fn.f = "connectDestroyed" /\ fn.c = i
    BY FunctorsDiffer
  <2>3. PICK m : m = conn[i].loop
    OBVIOUS
  <2>4. /\ conn[i].state = "down" /\ conn'[i].state = "destroyed" /\ conn'[i].loop = m
        /\ connections_' = connections_ /\ i \notin connections_
        /\ \A j \in Conns : j # i => conn'[j] = conn[j]
    BY <1>9, <2>3 DEF Destroys, Turns
  <2>5. /\ l = m => work(l) # <<>> /\ Head(work(l)) = x
        /\ work(l)' = IF l = m THEN Tail(work(l)) ELSE work(l)
    BY <1>9, <2>3 DEF Destroys, WorkMinus
  <2> HIDE DEF x
  <2>6. \A fn \in Jobs : fn.f # "listen" =>
          (Due(l, fn)' <=> Due(l, fn) /\ ~(l = m /\ fn = x))
    <3> SUFFICES ASSUME NEW fn \in Jobs, fn.c \in Conns
                 PROVE Due(l, fn)' <=> Due(l, fn) /\ ~(l = m /\ fn = x)
      BY DEF Due
    <3>1. CASE fn.c = i
      BY <1>2, <2>2, <2>3, <2>4, <3>1 DEF Due
    <3>2. CASE fn.c # i
      BY <1>2, <2>2, <2>4, <3>2 DEF Due
    <3> QED
      BY <3>1, <3>2
  <2> QED
    BY <1>1, <2>1, <2>5, <2>6, OneGoes
<1>10. ASSUME NEW i \in Conns, Closes(i) PROVE LoopFits(l)'
  <2>1. PICK m : m = conn[i].loop
    OBVIOUS
  <2>2. /\ conn[i].state = "up" /\ conn'[i].state = "down" /\ conn'[i].loop = m
        /\ i \in connections_
        /\ \A j \in Conns : j # i => conn'[j] = conn[j]
    BY <1>0, <1>10, <2>1 DEF Closes, Turns, LifeFits
  <2>3. CASE m = Base
    <3> DEFINE x == functor("connectDestroyed", i)
    <3>1. x \in Jobs /\ x.f = "connectDestroyed" /\ x.c = i
      BY <1>2, FunctorsDiffer
    <3>2. \A fn \in Jobs : fn = x <=> fn.f = "connectDestroyed" /\ fn.c = i
      BY FunctorsDiffer
    <3>3. /\ work(l)' = IF l = Base THEN Append(work(l), x) ELSE work(l)
          /\ i \notin connections_'
          /\ \A j \in Conns : j # i => (j \in connections_' <=> j \in connections_)
      BY <1>10, <2>1, <2>3 DEF Closes, WorkPlus
    <3> HIDE DEF x
    <3>4. ~Due(l, x)
      BY <2>2, <3>1 DEF Due
    <3>5. \A fn \in Jobs : Due(l, fn)' <=> Due(l, fn) \/ (l = Base /\ fn = x)
      <4> SUFFICES ASSUME NEW fn \in Jobs, fn.c \in Conns
                   PROVE Due(l, fn)' <=> Due(l, fn) \/ (l = Base /\ fn = x)
        BY <3>1 DEF Due
      <4>1. CASE fn.c = i
        BY <1>2, <2>2, <2>3, <3>2, <3>3, <4>1 DEF Due
      <4>2. CASE fn.c # i
        BY <1>2, <2>2, <3>2, <3>3, <4>2 DEF Due
      <4> QED
        BY <4>1, <4>2
    <3> QED
      BY <1>1, <1>2, <3>1, <3>3, <3>4, <3>5, OneComes
  <2>4. CASE m # Base
    <3> DEFINE x == functor("removeConnectionInLoop", i)
    <3>1. x \in Jobs /\ x.f = "removeConnectionInLoop" /\ x.c = i
      BY <1>2, FunctorsDiffer
    <3>2. \A fn \in Jobs : fn = x <=> fn.f = "removeConnectionInLoop" /\ fn.c = i
      BY FunctorsDiffer
    <3>3. /\ work(l)' = IF l = Base THEN Append(work(l), x) ELSE work(l)
          /\ connections_' = connections_
      BY <1>10, <2>1, <2>4 DEF Closes, WorkPlus
    <3> HIDE DEF x
    <3>4. ~Due(l, x)
      BY <2>2, <3>1 DEF Due
    <3>5. \A fn \in Jobs : Due(l, fn)' <=> Due(l, fn) \/ (l = Base /\ fn = x)
      <4> SUFFICES ASSUME NEW fn \in Jobs, fn.c \in Conns
                   PROVE Due(l, fn)' <=> Due(l, fn) \/ (l = Base /\ fn = x)
        BY <3>1 DEF Due
      <4>1. CASE fn.c = i
        BY <1>2, <2>2, <3>2, <3>3, <4>1 DEF Due
      <4>2. CASE fn.c # i
        BY <1>2, <2>2, <3>2, <3>3, <4>2 DEF Due
      <4> QED
        BY <4>1, <4>2
    <3> QED
      BY <1>1, <1>2, <3>1, <3>3, <3>4, <3>5, OneComes
  <2> QED
    BY <2>3, <2>4
<1>11. ASSUME NEW cs \in SUBSET Conns, Frees(cs) PROVE LoopFits(l)'
  <2>1. /\ work(l)' = work(l) /\ connections_' = connections_
        /\ \A i \in Conns : /\ conn'[i].loop = conn[i].loop
                            /\ i \notin cs => conn'[i] = conn[i]
                            /\ i \in cs => conn[i].state = "destroyed" /\ conn'[i].state = "freed"
    BY <1>11 DEF Frees, WorkSame
  <2>2. \A fn \in Jobs : Due(l, fn)' <=> Due(l, fn)
    BY <1>2, <2>1 DEF Due
  <2> QED
    BY <1>1, <2>1, <2>2, FitsStays
<1>12. ASSUME NEW i \in Conns, Erases(i) PROVE LoopFits(l)'
  <2> DEFINE x == functor("removeConnectionInLoop", i)
             y == functor("connectDestroyed", i)
  <2>1. /\ x \in Jobs /\ x.f = "removeConnectionInLoop" /\ x.c = i
        /\ y \in Jobs /\ y.f = "connectDestroyed" /\ y.c = i
    BY <1>2, FunctorsDiffer
  <2>2. \A fn \in Jobs : /\ fn = x <=> fn.f = "removeConnectionInLoop" /\ fn.c = i
                         /\ fn = y <=> fn.f = "connectDestroyed" /\ fn.c = i
    BY FunctorsDiffer
  <2>3. PICK m : m = conn[i].loop
    OBVIOUS
  <2>4. /\ conn[i].state = "down" /\ conn' = conn /\ m # Base
        /\ i \in connections_ /\ i \notin connections_'
        /\ \A j \in Conns : j # i => (j \in connections_' <=> j \in connections_)
    BY <1>12, <2>3 DEF Erases
  <2>5. /\ work(Base) # <<>> /\ Head(work(Base)) = x
        /\ work(l)' = IF l = Base THEN Tail(work(l))
                      ELSE IF l = m THEN Append(work(l), y) ELSE work(l)
    BY <1>12, <2>3 DEF Erases
  <2> HIDE DEF x, y
  <2>6. ~Due(l, y)
    BY <2>1, <2>4 DEF Due
  <2>7. \A fn \in Jobs : Due(l, fn)' <=> (Due(l, fn) /\ ~(l = Base /\ fn = x))
                                        \/ (l = m /\ fn = y)
    <3> SUFFICES ASSUME NEW fn \in Jobs, fn.c \in Conns
                 PROVE Due(l, fn)' <=> (Due(l, fn) /\ ~(l = Base /\ fn = x)) \/ (l = m /\ fn = y)
      BY <2>1 DEF Due
    <3>1. CASE fn.c = i
      BY <1>2, <2>2, <2>3, <2>4, <3>1 DEF Due
    <3>2. CASE fn.c # i
      BY <1>2, <2>2, <2>4, <3>2 DEF Due
    <3> QED
      BY <3>1, <3>2
  <2>8. CASE l = Base
    <3>1. \A fn \in Jobs : fn.f # "listen" =>
            (Due(l, fn)' <=> Due(l, fn) /\ ~(l = Base /\ fn = x))
      BY <2>4, <2>7, <2>8
    <3>2. work(l)' = IF l = Base THEN Tail(work(l)) ELSE work(l)
      BY <2>5, <2>8
    <3> QED
      BY <1>1, <2>1, <2>5, <2>8, <3>1, <3>2, OneGoes
  <2>9. CASE l # Base
    <3>1. \A fn \in Jobs : Due(l, fn)' <=> Due(l, fn) \/ (l = m /\ fn = y)
      BY <2>7, <2>9
    <3>2. work(l)' = IF l = m THEN Append(work(l), y) ELSE work(l)
      BY <2>5, <2>9
    <3> QED
      <4>1. y \in Jobs /\ y.f # "listen"
        BY <2>1
      <4> QED
        BY <1>1, <2>6, <3>1, <3>2, <4>1, OneComes
  <2> QED
    BY <2>8, <2>9
<1> QED
  BY <1>3, <1>4, <1>5, <1>6, <1>7, <1>8, <1>9, <1>10, <1>11, <1>12 DEF Moves

(* The map and the lives of the connections agree in every step.           *)
LEMMA LifeFitsStep ==
  ASSUME ServerInv, LifeInv, Moves
  PROVE  LifeFits'
<1>0. ConnTyped /\ Base' = Base
  BY DEF ServerInv, ServerTypes, Base
<1> USE DEF LifeInv, LifeFits
<1>1. CASE Rests \/ Listens \/ Listened
  BY <1>1 DEF Rests, Listens, Listened
<1>2. CASE Dies
  <2>1. \A i \in Conns : i \in connections_ => conn'[i].state \in {"destroyed", "freed"}
    BY <1>2 DEF Dies
  <2>2. \A i \in Conns : i \notin connections_ => conn'[i] = conn[i]
    BY <1>2 DEF Dies
  <2>3. connections_' = {}
    BY <1>2 DEF Dies
  <2> QED
    BY <2>1, <2>2, <2>3
<1>3. ASSUME NEW i \in Conns, NEW l \in Loops, Opens(i, l) PROVE LifeFits'
  <2>1. /\ connections_' = connections_ \cup {i} /\ conn'[i].loop = l
        /\ conn'[i].state = IF l = Base THEN "up" ELSE "connecting"
        /\ \A j \in Conns : j # i => conn'[j] = conn[j]
    BY <1>3 DEF Opens
  <2> QED
    BY <1>0, <2>1
<1>4. ASSUME NEW i \in Conns, Establishes(i) PROVE LifeFits'
  BY <1>0, <1>4 DEF Establishes, Turns
<1>5. ASSUME NEW i \in Conns, Closes(i) PROVE LifeFits'
  <2>1. i \in connections_
    BY <1>5 DEF Closes
  <2>2. /\ conn'[i].state = "down" /\ conn'[i].loop = conn[i].loop
        /\ \A j \in Conns : j # i => /\ conn'[j] = conn[j]
                                     /\ j \in connections_' <=> j \in connections_
        /\ conn[i].loop = Base => i \notin connections_'
    BY <1>5 DEF Closes, Turns
  <2> QED
    BY <1>0, <2>1, <2>2
<1>6. ASSUME NEW i \in Conns, Erases(i) PROVE LifeFits'
  BY <1>0, <1>6 DEF Erases
<1>7. ASSUME NEW i \in Conns, Destroys(i) PROVE LifeFits'
  BY <1>0, <1>7 DEF Destroys, Turns
<1>8. ASSUME NEW cs \in SUBSET Conns, Frees(cs) PROVE LifeFits'
  <2>1. \A i \in cs : i \in Conns /\ i \notin connections_ /\ conn'[i].state = "freed"
    BY <1>8 DEF Frees
  <2>2. \A i \in Conns : i \notin cs => conn'[i] = conn[i]
    BY <1>8 DEF Frees
  <2>3. connections_' = connections_
    BY <1>8 DEF Frees
  <2> QED
    BY <1>0, <2>1, <2>2, <2>3
<1> QED
  BY <1>1, <1>2, <1>3, <1>4, <1>5, <1>6, <1>7, <1>8 DEF Moves

(* Which steps end the server's life. *)
LEMMA ServerGoes ==
  ASSUME Next
  PROVE  /\ numThreads_' = numThreads_
         /\ Destruct \/ server' = server \/ (server = "destructing" /\ server' = "gone")
<1> DEFINE Good == /\ numThreads_' = numThreads_
                   /\ \/ Destruct
                      \/ server' = server
                      \/ (server = "destructing" /\ server' = "gone")
<1>0. numThreads_' = numThreads_ /\ server' = server => Good
  OBVIOUS
<1>1. \A who \in {"base", "other"} : Start(who) => Good
  BY DEF Start, PoolStart
<1>2. PoolOnly => Good
  <2>1. OwnerStep \/ SpuriousWakeup => numThreads_' = numThreads_
    BY DEF OwnerStep, StartLoop, WaitForLoop, QuitThread, WakeupThread, Join, SpuriousWakeup
  <2>2. \A t \in Threads : ThreadStep(t) => numThreads_' = numThreads_
    BY DEF ThreadStep, Publish, EnterLoop, CheckQuit, At
  <2> QED
    BY <2>1, <2>2 DEF PoolOnly, serverVars
<1>3. StartListening \/ Accept \/ BaseFunctorsDone => Good
  BY DEF StartListening, Accept, BaseFunctorsDone, poolRest
<1>4. AcceptFails \/ AcceptOnReserve \/ CloseClient \/ ReopenReserve \/ AcceptorGone
        \/ BasePollReturns \/ ClientArrives \/ OtherOpens \/ OtherCloses => Good
  BY DEF AcceptFails, AcceptOnReserve, CloseClient, ReopenReserve, acceptorOnly,
         AcceptorGone, BasePollReturns, ClientArrives, OtherOpens, OtherCloses, poolVars
<1>5. Destruct => Good
  BY DEF Destruct, PoolDestroy
<1>6. \A l \in Loops : RunFunctor(l) => Good
  BY DEF RunFunctor, poolRest
<1>7. \A t \in Threads : IoFunctorsDone(t) \/ IoLoopEnds(t) \/ IoPollReturns(t) => Good
  BY IoBatchSteps
<1>8. \A i \in Conns : ConnectionCloses(i) => Good
  BY DEF ConnectionCloses, poolRest
<1> HIDE DEF Good
<1> QED
  BY <1>1, <1>2, <1>3, <1>4, <1>5, <1>6, <1>7, <1>8, StepCases DEF Good

(* A server that is going has no connections, and gets none.               *)
LEMMA QuietDownStep ==
  ASSUME ~DestroyBusy, ServerInv, LifeInv, Next, Moves
  PROVE  QuietDown'
<1>0. ConnTyped /\ CountTyped /\ numThreads_' = numThreads_ /\ numThreads_ \in Nat
  BY ServerGoes, ThreadFacts DEF ServerInv, ServerTypes, PoolInv, PoolTyped
<1>1. CASE Destruct
  <2>1. connections_' = {}
    BY <1>1 DEF Destruct
  <2>2. ASSUME numThreads_ # 0 PROVE \A i \in Conns : conn'[i].state \in {"none", "freed"}
    <3>1. \A i \in Conns : conn[i].state \in {"none", "freed"}
      BY <1>0, <1>1, <2>2 DEF Destruct, MayDestroy
    <3>2. \A i \in Conns : i \notin connections_
      BY <3>1 DEF LifeInv, LifeFits
    <3>3. \A i \in Conns : conn'[i] = conn[i]
      BY <1>0, <1>1, <3>2, DestructOutcome
    <3> QED
      BY <3>1, <3>3
  <2> QED
    BY <1>0, <2>1, <2>2 DEF QuietDown
<1>2. CASE server' # "alive" /\ server # "alive"
  <2>1. connections_ = {} /\ (numThreads_ # 0 => \A i \in Conns : conn[i].state \in {"none", "freed"})
    BY <1>2 DEF LifeInv, QuietDown
  <2>2. ASSUME Rests \/ Listens \/ Listened PROVE QuietDown'
    BY <1>0, <2>1, <2>2 DEF Rests, Listens, Listened, QuietDown
  <2>3. ~Dies /\ \A i \in Conns, l \in Loops : ~Opens(i, l)
    BY <1>2 DEF Dies, Opens
  <2>4. ASSUME NEW i \in Conns, Establishes(i) \/ Closes(i) \/ Erases(i) PROVE FALSE
    BY <2>1, <2>4 DEF Establishes, Closes, Erases, LifeInv, LifeFits
  <2>5. ASSUME NEW i \in Conns, Destroys(i) PROVE QuietDown'
    BY <1>0, <2>1, <2>5 DEF Destroys, QuietDown
  <2>6. ASSUME NEW cs \in SUBSET Conns, Frees(cs) PROVE QuietDown'
    <3>1. connections_' = {}
      BY <2>1, <2>6 DEF Frees
    <3>2. \A i \in Conns : conn[i].state \in {"none", "freed"} => conn'[i].state \in {"none", "freed"}
      BY <2>6 DEF Frees
    <3> QED
      BY <1>0, <2>1, <3>1, <3>2 DEF QuietDown
  <2> QED
    BY <2>2, <2>3, <2>4, <2>5, <2>6 DEF Moves
<1>3. CASE server' = "alive"
  BY <1>3 DEF QuietDown
<1> QED
  BY <1>1, <1>2, <1>3, ServerGoes

(* The threads that run functors go on doing so but in FunctorsDone.       *)
LEMMA BatchKept ==
  ASSUME BatchFits, UNCHANGED <<batch, functors>>,
         \A t \in Threads : threadPc[t] = "functors" => threadPc'[t] = "functors"
  PROVE  BatchFits'
BY DEF BatchFits, mentioned

(* What is left of a queue mentions no more than it did.                   *)
LEMMA TailMentions ==
  ASSUME NEW q \in Seq(Jobs), q # <<>>
  PROVE  mentioned(Tail(q)) \subseteq mentioned(q)
<1> SUFFICES ASSUME NEW i \in mentioned(Tail(q)) PROVE i \in mentioned(q)
  OBVIOUS
<1>1. Tail(q) \in Seq(Jobs) /\ DOMAIN Tail(q) = 1..(Len(q) - 1) /\ DOMAIN q = 1..Len(q)
      /\ Len(q) \in Nat
  OBVIOUS
<1>2. PICK k \in 1..(Len(q) - 1) : Tail(q)[k].c = i /\ i \in Conns
  BY <1>1 DEF mentioned
<1>3. Tail(q)[k] = q[k + 1] /\ k + 1 \in DOMAIN q
  BY <1>1
<1> QED
  BY <1>2, <1>3 DEF mentioned

(* The batches and the references that they keep.                          *)
LEMMA BatchFitsStep ==
  ASSUME ServerInv, LifeInv, Next
  PROVE  BatchFits'
<1> DEFINE Good == BatchFits'
           Kept == /\ UNCHANGED <<batch, functors>>
                   /\ \A t \in Threads : threadPc[t] = "functors" => threadPc'[t] = "functors"
<1>0. /\ BatchFits /\ QueueTyped
      /\ threadPc \in [Threads -> {"none", "init", "left", "ended"} \cup Running]
      /\ Base \notin Threads
  BY ThreadFacts DEF LifeInv, ServerInv, ServerTypes, PoolInv, PoolTyped
<1>1. Kept => Good
  BY <1>0, BatchKept
<1>2. \A who \in {"base", "other"} : Start(who) => Kept
  BY DEF Start, PoolStart, threadVars, queueVars
<1>3. ASSUME PoolOnly PROVE Kept
  <2>1. UNCHANGED <<batch, functors>>
    BY <1>3 DEF PoolOnly, serverVars, queueVars
  <2>2. ASSUME StartLoop, NEW t \in Threads, threadPc[t] = "functors"
        PROVE  threadPc'[t] = "functors"
    <3>1. threadPc' = threadPc \/ threadPc' = [threadPc EXCEPT ![Len(loops_) + 1] = "init"]
      BY <2>2 DEF StartLoop
    <3>2. ownerPc = "startLoop"
      BY <2>2 DEF StartLoop
    <3>3. Known(t)
      BY <2>2 DEF ServerInv, PoolInv, ThreadsFit
    <3>4. t <= Len(loops_) /\ t \in Nat /\ Len(loops_) \in Nat
      BY <3>2, <3>3, ThreadFacts DEF Known, ServerInv, PoolInv, PoolTyped
    <3>5. t # Len(loops_) + 1
      BY <3>4
    <3> QED
      BY <1>0, <2>2, <3>1, <3>5
  <2>3. WaitForLoop \/ QuitThread \/ WakeupThread \/ Join \/ SpuriousWakeup => UNCHANGED threadPc
    BY DEF WaitForLoop, QuitThread, WakeupThread, Join, SpuriousWakeup, threadVars
  <2>4. ASSUME NEW u \in Threads, ThreadStep(u), NEW t \in Threads, threadPc[t] = "functors"
        PROVE  threadPc'[t] = "functors"
    <3>1. PICK to : threadPc' = [threadPc EXCEPT ![u] = to]
      BY <2>4 DEF ThreadStep, Publish, EnterLoop, CheckQuit, At
    <3>2. threadPc[u] # "functors"
      BY <2>4 DEF ThreadStep, Publish, EnterLoop, CheckQuit, At
    <3> QED
      BY <1>0, <2>4, <3>1, <3>2
  <2> QED
    BY <1>3, <2>1, <2>2, <2>3, <2>4 DEF PoolOnly, OwnerStep
<1>4. StartListening \/ Accept \/ AcceptFails \/ AcceptOnReserve \/ CloseClient
        \/ ReopenReserve \/ AcceptorGone \/ ClientArrives \/ OtherOpens \/ OtherCloses
        \/ Destruct => Kept
  BY DEF StartListening, Accept, AcceptFails, AcceptOnReserve, CloseClient, ReopenReserve,
         acceptorOnly, AcceptorGone, ClientArrives, OtherOpens, OtherCloses, Destruct,
         PoolDestroy, poolRest, poolVars, threadVars, queueVars
<1>5. \A i \in Conns : ConnectionCloses(i) => Kept
  BY DEF ConnectionCloses, poolRest
<1>6. ASSUME NEW l \in Loops, RunFunctor(l) PROVE Good
  <2>1. /\ batch[l] # <<>> /\ batch' = [batch EXCEPT ![l] = Tail(@)]
        /\ UNCHANGED <<functors, threadPc>>
    BY <1>6 DEF RunFunctor, poolRest
  <2>2. batch'[l] = Tail(batch[l]) /\ \A m \in Loops : m # l => batch'[m] = batch[m]
    BY <1>0, <2>1 DEF QueueTyped
  <2>3. mentioned(Tail(batch[l])) \subseteq mentioned(batch[l])
    BY <1>0, <2>1, TailMentions DEF QueueTyped
  <2>4. \A m \in Loops : mentioned(batch'[m]) \subseteq functors'[m]
    BY <1>0, <2>1, <2>2, <2>3 DEF BatchFits
  <2>5. \A t \in Threads : threadPc'[t] # "functors" => batch'[t] = <<>> /\ functors'[t] = {}
    BY <1>0, <2>1, <2>2 DEF BatchFits, Loops
  <2> QED
    BY <2>4, <2>5 DEF BatchFits, mentioned
<1>7. ASSUME BasePollReturns PROVE Good
  <2>1. takesPending(Base) /\ UNCHANGED threadPc
    BY <1>7 DEF BasePollReturns, poolVars, threadVars
  <2>2. /\ batch'[Base] = pending[Base] /\ functors'[Base] = mentioned(pending[Base])
        /\ \A m \in Loops : m # Base => batch'[m] = batch[m] /\ functors'[m] = functors[m]
    BY <1>0, <2>1 DEF takesPending, QueueTyped, Loops
  <2>3. \A m \in Loops : mentioned(batch'[m]) \subseteq functors'[m]
    BY <1>0, <2>2 DEF BatchFits
  <2>4. \A t \in Threads : threadPc'[t] # "functors" => batch'[t] = <<>> /\ functors'[t] = {}
    BY <1>0, <2>1, <2>2 DEF BatchFits, Loops
  <2> QED
    BY <2>3, <2>4 DEF BatchFits, mentioned
<1>8. ASSUME NEW t \in Threads, IoPollReturns(t) PROVE Good
  <2>1. takesPending(t) /\ threadPc' = [threadPc EXCEPT ![t] = "functors"] /\ t \in Loops
    BY <1>8 DEF IoPollReturns, PollReturns, At, Loops
  <2>2. /\ batch'[t] = pending[t] /\ functors'[t] = mentioned(pending[t])
        /\ \A m \in Loops : m # t => batch'[m] = batch[m] /\ functors'[m] = functors[m]
    BY <1>0, <2>1 DEF takesPending, QueueTyped
  <2>3. threadPc'[t] = "functors" /\ \A u \in Threads : u # t => threadPc'[u] = threadPc[u]
    BY <1>0, <2>1
  <2>4. \A m \in Loops : mentioned(batch'[m]) \subseteq functors'[m]
    BY <1>0, <2>2 DEF BatchFits
  <2>5. \A u \in Threads : threadPc'[u] # "functors" => batch'[u] = <<>> /\ functors'[u] = {}
    BY <1>0, <2>2, <2>3 DEF BatchFits, Loops
  <2> QED
    BY <2>4, <2>5 DEF BatchFits, mentioned
<1>9. ASSUME NEW l \in Loops, dropsFunctors(l), UNCHANGED batch,
             \A u \in Threads : u # l => threadPc'[u] = threadPc[u]
      PROVE  Good
  <2>1. /\ batch[l] = <<>> /\ functors'[l] = {}
        /\ \A m \in Loops : m # l => functors'[m] = functors[m]
    BY <1>0, <1>9 DEF dropsFunctors, QueueTyped
  <2>2. mentioned(batch[l]) = {}
    BY <2>1 DEF mentioned
  <2>3. \A m \in Loops : mentioned(batch'[m]) \subseteq functors'[m]
    BY <1>0, <1>9, <2>1, <2>2 DEF BatchFits
  <2>4. \A u \in Threads : threadPc'[u] # "functors" => batch'[u] = <<>> /\ functors'[u] = {}
    BY <1>0, <1>9, <2>1 DEF BatchFits, Loops
  <2> QED
    BY <2>3, <2>4 DEF BatchFits, mentioned
<1>10. BaseFunctorsDone => Good
  BY <1>9 DEF BaseFunctorsDone, poolRest, Loops
<1>11. ASSUME NEW t \in Threads, IoFunctorsDone(t) PROVE Good
  <2>1. /\ dropsFunctors(t) /\ UNCHANGED batch /\ t \in Loops
        /\ threadPc' = [threadPc EXCEPT ![t] = "check"]
    BY <1>11 DEF IoFunctorsDone, FunctorsDone, At, Loops
  <2> QED
    BY <1>0, <1>9, <2>1
<1>12. ASSUME NEW t \in Threads, IoLoopEnds(t) PROVE Kept
  <2>1. /\ UNCHANGED <<batch, functors>> /\ threadPc[t] = "left"
        /\ threadPc' = [threadPc EXCEPT ![t] = "ended"]
    BY <1>12 DEF IoLoopEnds, LeaveThread, At
  <2> QED
    BY <1>0, <2>1
<1> HIDE DEF Good, Kept
<1> QED
  BY <1>1, <1>2, <1>3, <1>4, <1>5, <1>6, <1>7, <1>8, <1>10, <1>11, <1>12, StepCases DEF Good

(* A batch gets its references from pending functors and from nowhere else *)
LEMMA ReferencesCome ==
  ASSUME QueueTyped, Next
  PROVE  \A l \in Loops : functors'[l] \subseteq functors[l]
                          \/ functors'[l] = mentioned(pending[l])
<1> DEFINE Good == \A l \in Loops : functors'[l] \subseteq functors[l]
                                    \/ functors'[l] = mentioned(pending[l])
<1>0. functors' = functors => Good
  OBVIOUS
<1>1. \A who \in {"base", "other"} : Start(who) => Good
  BY <1>0 DEF Start, queueVars
<1>2. PoolOnly \/ StartListening \/ Accept \/ AcceptFails \/ AcceptOnReserve \/ CloseClient
        \/ ReopenReserve \/ AcceptorGone \/ ClientArrives \/ OtherOpens \/ OtherCloses
        \/ Destruct => Good
  BY <1>0 DEF PoolOnly, serverVars, StartListening, Accept, AcceptFails, AcceptOnReserve,
         CloseClient, ReopenReserve, acceptorOnly, AcceptorGone, ClientArrives, OtherOpens,
         OtherCloses, Destruct, queueVars
<1>3. \A i \in Conns : ConnectionCloses(i) => Good
  BY <1>0 DEF ConnectionCloses
<1>4. \A l \in Loops : RunFunctor(l) => Good
  BY <1>0 DEF RunFunctor
<1>5. ASSUME NEW l \in Loops, takesPending(l) PROVE Good
  BY <1>5 DEF takesPending, QueueTyped
<1>6. ASSUME NEW l \in Loops, dropsFunctors(l) PROVE Good
  BY <1>6 DEF dropsFunctors, QueueTyped
<1>7. \A t \in Threads : IoLoopEnds(t) => Good
  BY <1>0 DEF IoLoopEnds
<1>8. BasePollReturns \/ BaseFunctorsDone => Good
  BY <1>5, <1>6 DEF BasePollReturns, BaseFunctorsDone, Loops
<1>9. \A t \in Threads : IoPollReturns(t) \/ IoFunctorsDone(t) => Good
  BY <1>5, <1>6 DEF IoPollReturns, IoFunctorsDone, Loops
<1> HIDE DEF Good
<1> QED
  BY <1>1, <1>2, <1>3, <1>4, <1>7, <1>8, <1>9, StepCases DEF Good

(* What a pending functor mentions is not freed. *)
LEMMA MentionedLive ==
  ASSUME ServerInv, LifeInv, NEW l \in Loops, NEW i \in mentioned(pending[l])
  PROVE  conn[i].state \notin {"none", "freed"}
<1>1. batch[l] \in Seq(Jobs) /\ pending[l] \in Seq(Jobs)
  BY DEF ServerInv, ServerTypes, QueueTyped
<1>2. i \in Conns /\ \E fn \in Jobs : Has(pending[l], fn) /\ fn.c = i
  BY <1>1, MentionsHas
<1>3. PICK fn \in Jobs : Has(pending[l], fn) /\ fn.c = i
  BY <1>2
<1>4. Queued(l, fn)
  BY <1>1, <1>3, HasConcat DEF Queued, work
<1>5. i # 0
  BY <1>2 DEF Conns
<1>6. fn.f # "listen"
  BY <1>3, <1>4, <1>5 DEF LifeInv, ListenFits
<1>7. Due(l, fn)
  BY <1>4, <1>6 DEF LifeInv, CallsFit, LoopFits
<1> QED
  BY <1>3, <1>7 DEF Due

(* Batches refer to no freed connection. *)
LEMMA RefFitsStep ==
  ASSUME ServerInv, LifeInv, Next, Moves
  PROVE  RefFits'
<1> SUFFICES ASSUME NEW l \in Loops, NEW i \in functors'[l]
             PROVE  conn'[i].state \notin {"none", "freed"}
  BY DEF RefFits
<1>0. ConnTyped /\ QueueTyped
  BY DEF ServerInv, ServerTypes
<1>1. conn[i].state \notin {"none", "freed"}
  <2>1. CASE i \in functors[l]
    BY <2>1 DEF LifeInv, RefFits
  <2>2. CASE i \in mentioned(pending[l])
    BY <2>2, MentionedLive
  <2> QED
    BY <1>0, <2>1, <2>2, ReferencesCome
<1>2. i \in Conns
  <2>1. functors[l] \subseteq Conns
    BY <1>0 DEF QueueTyped
  <2> QED
    BY <1>0, <2>1, MentionsConns, ReferencesCome
<1>3. CASE Rests \/ Listens \/ Listened
  BY <1>1, <1>3 DEF Rests, Listens, Listened
<1>4. CASE Dies
  <2>1. CASE i \in connections_
    BY <1>4, <2>1 DEF Dies
  <2>2. CASE i \notin connections_
    BY <1>1, <1>2, <1>4, <2>2 DEF Dies
  <2> QED
    BY <2>1, <2>2
<1>5. ASSUME NEW j \in Conns, NEW m \in Loops, Opens(j, m)
      PROVE  conn'[i].state \notin {"none", "freed"}
  <2>1. CASE i = j
    BY <1>5, <2>1 DEF Opens
  <2>2. CASE i # j
    BY <1>1, <1>2, <1>5, <2>2 DEF Opens
  <2> QED
    BY <2>1, <2>2
<1>6. ASSUME NEW j \in Conns, NEW s \in {"up", "down", "destroyed"}, Turns(j, s)
      PROVE  conn'[i].state \notin {"none", "freed"}
  <2>1. CASE i = j
    BY <1>6, <2>1 DEF Turns
  <2>2. CASE i # j
    BY <1>1, <1>2, <1>6, <2>2 DEF Turns
  <2> QED
    BY <2>1, <2>2
<1>7. ASSUME NEW j \in Conns, Establishes(j) \/ Closes(j) \/ Destroys(j)
      PROVE  conn'[i].state \notin {"none", "freed"}
  BY <1>6, <1>7 DEF Establishes, Closes, Destroys
<1>8. ASSUME NEW j \in Conns, Erases(j) PROVE conn'[i].state \notin {"none", "freed"}
  BY <1>1, <1>8 DEF Erases
<1>9. ASSUME NEW cs \in SUBSET Conns, Frees(cs) PROVE conn'[i].state \notin {"none", "freed"}
  BY <1>1, <1>2, <1>9 DEF Frees
<1> QED
  BY <1>3, <1>4, <1>5, <1>7, <1>8, <1>9 DEF Moves

(* A queue gets listen from start alone.                                   *)
LEMMA ListenComes ==
  ASSUME ServerInv, LifeInv, Moves, NEW l \in Loops, NEW fn \in Jobs,
         fn.f = "listen", Queued(l, fn)'
  PROVE  Queued(l, fn) \/ (Listens /\ l = Base /\ fn.c = 0)
<1>0. work(l) \in Seq(Jobs)
  BY WorkTyped
<1>1. /\ \A x \in Jobs : Has(Append(work(l), x), fn) <=> Has(work(l), fn) \/ fn = x
      /\ work(l) # <<>> => (Has(Tail(work(l)), fn) <=> Has(work(l), fn) /\ fn # Head(work(l)))
  BY <1>0, HasAppend, HasTail DEF LifeInv, CallsFit, LoopFits
<1>2. Has(work(l)', fn)
  BY DEF Queued
<1>3. ASSUME work(l)' = work(l) PROVE Queued(l, fn)
  BY <1>2, <1>3 DEF Queued
<1>4. ASSUME work(l) # <<>>, work(l)' = Tail(work(l)) PROVE Queued(l, fn)
  BY <1>1, <1>2, <1>4 DEF Queued
<1>5. ASSUME NEW f \in Calls \ {"listen"}, NEW i \in Conns,
             work(l)' = Append(work(l), functor(f, i))
      PROVE  Queued(l, fn)
  <2>1. functor(f, i) \in Jobs /\ functor(f, i).f # "listen"
    BY FunctorsDiffer
  <2> QED
    BY <1>1, <1>2, <1>5, <2>1 DEF Queued
<1>6. CASE Rests \/ Dies
  BY <1>3, <1>6 DEF Rests, Dies, WorkSame
<1>7. CASE Listened
  BY <1>3, <1>4, <1>7 DEF Listened, WorkMinus
<1>8. CASE Listens
  <2>1. CASE l = Base
    <3>1. work(l)' = Append(work(l), functor("listen", 0))
      BY <1>8, <2>1 DEF Listens, WorkPlus
    <3>2. functor("listen", 0) \in Jobs /\ functor("listen", 0).c = 0
      BY ServerAssumption DEF functor, Jobs, Calls
    <3> QED
      BY <1>1, <1>2, <1>8, <2>1, <3>1, <3>2 DEF Queued
  <2>2. CASE l # Base
    BY <1>3, <1>8, <2>2 DEF Listens, WorkPlus
  <2> QED
    BY <2>1, <2>2
<1>9. ASSUME NEW i \in Conns, NEW m \in Loops, Opens(i, m) PROVE Queued(l, fn)
  <2>1. work(l)' = work(l) \/ work(l)' = Append(work(l), functor("connectEstablished", i))
    BY <1>9 DEF Opens, WorkSame, WorkPlus
  <2> QED
    BY <1>3, <1>5, <2>1 DEF Calls
<1>10. ASSUME NEW i \in Conns, Establishes(i) \/ Destroys(i) PROVE Queued(l, fn)
  BY <1>3, <1>4, <1>10 DEF Establishes, Destroys, WorkMinus
<1>11. ASSUME NEW i \in Conns, Closes(i) PROVE Queued(l, fn)
  <2>1. \/ work(l)' = work(l)
        \/ work(l)' = Append(work(l), functor("connectDestroyed", i))
        \/ work(l)' = Append(work(l), functor("removeConnectionInLoop", i))
    BY <1>11 DEF Closes, WorkPlus
  <2> QED
    BY <1>3, <1>5, <2>1 DEF Calls
<1>12. ASSUME NEW i \in Conns, Erases(i) PROVE Queued(l, fn)
  <2>1. \/ work(l)' = work(l)
        \/ work(l) # <<>> /\ work(l)' = Tail(work(l))
        \/ work(l)' = Append(work(l), functor("connectDestroyed", i))
    BY <1>12 DEF Erases
  <2> QED
    BY <1>3, <1>4, <1>5, <2>1 DEF Calls
<1>13. ASSUME NEW cs \in SUBSET Conns, Frees(cs) PROVE Queued(l, fn)
  BY <1>3, <1>13 DEF Frees, WorkSame
<1> QED
  BY <1>6, <1>7, <1>8, <1>9, <1>10, <1>11, <1>12, <1>13 DEF Moves

(* The end of start is not taken back, and who makes the acceptor listen.  *)
LEMMA ListenGoes ==
  ASSUME Next, starter = "done"
  PROVE  /\ starter' = "done"
         /\ \/ listenning_' = listenning_ \/ listenning_' = FALSE
            \/ \E l \in Loops : RunFunctor(l) /\ RunListen /\ Head(batch[l]).f = "listen"
<1> DEFINE Runs == \E l \in Loops : RunFunctor(l) /\ RunListen /\ Head(batch[l]).f = "listen"
           Good == /\ starter' = "done"
                   /\ listenning_' = listenning_ \/ listenning_' = FALSE \/ Runs
<1>0. UNCHANGED <<starter, listenning_>> => Good
  OBVIOUS
<1>1. (\A who \in {"base", "other"} : ~Start(who)) /\ ~StartListening
  BY DEF Start, StartListening
<1>2. PoolOnly \/ Accept \/ AcceptFails \/ AcceptOnReserve \/ CloseClient \/ ReopenReserve
        \/ BaseFunctorsDone \/ BasePollReturns \/ Destruct \/ ClientArrives \/ OtherOpens
        \/ OtherCloses => Good
  BY <1>0 DEF PoolOnly, serverVars, Accept, AcceptFails, AcceptOnReserve, CloseClient,
         ReopenReserve, acceptorOnly, BaseFunctorsDone, BasePollReturns, Destruct,
         ClientArrives, OtherOpens, OtherCloses, startVars, acceptorVars
<1>3. AcceptorGone => Good
  BY DEF AcceptorGone, startVars
<1>4. ASSUME NEW l \in Loops, RunFunctor(l) PROVE Good
  <2>1. starter' = starter
    BY <1>4 DEF RunFunctor, startVars
  <2>2. listenning_' = listenning_ \/ (RunListen /\ Head(batch[l]).f = "listen")
    BY <1>4 DEF RunFunctor, RunConnectEstablished, RunConnectDestroyed, RunRemoveConnectionInLoop
  <2> QED
    BY <1>4, <2>1, <2>2
<1>5. \A t \in Threads : IoFunctorsDone(t) \/ IoLoopEnds(t) \/ IoPollReturns(t) => Good
  BY <1>0, IoBatchSteps
<1>6. \A i \in Conns : ConnectionCloses(i) => Good
  BY <1>0 DEF ConnectionCloses, startVars, acceptorVars
<1> HIDE DEF Good
<1>7. Good
  BY <1>1, <1>2, <1>3, <1>4, <1>5, <1>6, StepCases
<1> QED
  BY <1>7 DEF Good

(* listen waits only where it may. *)
LEMMA ListenFitsStep ==
  ASSUME ServerInv, LifeInv, Next, Moves
  PROVE  ListenFits'
<1> SUFFICES ASSUME NEW l \in Loops, NEW fn \in Jobs, fn.f = "listen", Queued(l, fn)'
             PROVE  /\ l = Base /\ fn.c = 0 /\ server' = "alive" /\ ~listenning_'
                    /\ starter' = "done"
  BY DEF ListenFits, Base
<1>0. QueueTyped
  BY DEF ServerInv, ServerTypes
<1>1. CASE Listens /\ l = Base /\ fn.c = 0
  <2>1. starter \in {"base", "other"} /\ starter' = "done" /\ ~listenning_' /\ server' = server
    BY <1>1 DEF Listens
  <2>2. server = "alive"
    BY <2>1 DEF ServerInv, StartFits
  <2> QED
    BY <1>1, <2>1, <2>2
<1>2. CASE Queued(l, fn)
  <2>1. l = Base /\ fn.c = 0 /\ server = "alive" /\ ~listenning_ /\ starter = "done"
    BY <1>2 DEF LifeInv, ListenFits
  <2>2. fn = functor("listen", 0)
    BY <2>1, FunctorsDiffer
  <2>3. batch[Base] \in Seq(Jobs) /\ pending[Base] \in Seq(Jobs)
    BY <1>0 DEF QueueTyped, Loops
  <2>4. ~Destruct
    <3>1. Has(batch[Base], fn) \/ Has(pending[Base], fn)
      BY <1>2, <2>1, <2>3, HasConcat DEF Queued, work
    <3>2. fn \in ToSet(pending[Base]) \cup ToSet(batch[Base])
      BY <3>1 DEF Has, ToSet
    <3> QED
      BY <2>2, <3>2 DEF Destruct, MayDestroy
  <2>5. server' = "alive"
    BY <2>1, <2>4, ServerGoes
  <2>6. ASSUME NEW m \in Loops, RunFunctor(m), RunListen, Head(batch[m]).f = "listen" PROVE FALSE
    <3>1. batch[m] # <<>> /\ batch' = [batch EXCEPT ![m] = Tail(@)] /\ pending' = pending
      BY <2>6 DEF RunFunctor, RunListen
    <3>2. m = Base /\ Head(batch[m]) = fn
      BY <2>2, <2>6, <3>1, FrontIsDue
    <3>3. /\ work(Base) # <<>> /\ Head(work(Base)) = fn
          /\ work(Base)' = Tail(work(Base))
      BY <1>0, <3>1, <3>2, WorkTaken
    <3>4. work(Base) \in Seq(Jobs) /\ Distinct(work(Base))
      BY WorkTyped DEF LifeInv, CallsFit, LoopFits, Loops
    <3>5. ~Has(Tail(work(Base)), fn)
      BY <3>3, <3>4, HasTail
    <3>6. Has(work(l)', fn)
      BY DEF Queued
    <3>7. work(l)' = Tail(work(Base))
      BY <2>1, <3>3 DEF work
    <3> QED
      BY <3>5, <3>6, <3>7
  <2>7. starter' = "done" /\ (listenning_' = listenning_ \/ listenning_' = FALSE)
    <3>1. /\ starter' = "done"
          /\ \/ listenning_' = listenning_ \/ listenning_' = FALSE
             \/ \E m \in Loops : RunFunctor(m) /\ RunListen /\ Head(batch[m]).f = "listen"
      BY <2>1, ListenGoes
    <3> QED
      BY <2>6, <3>1
  <2>8. ~listenning_'
    BY <2>1, <2>7, Zenon
  <2> QED
    BY <2>1, <2>5, <2>7, <2>8
<1> QED
  BY <1>1, <1>2, ListenComes

(* At first there is nothing to agree about. *)
LEMMA LifeInvInit ==
  ASSUME Init
  PROVE  LifeInv
<1>1. \A l \in Loops : work(l) = <<>> /\ batch[l] = <<>> /\ functors[l] = {}
  <2>1. \A l \in Loops : batch[l] = <<>> /\ pending[l] = <<>> /\ functors[l] = {}
    BY DEF Init
  <2>2. <<>> \o <<>> = <<>>
    OBVIOUS
  <2> QED
    BY <2>1, <2>2 DEF work
<1>2. \A i \in Conns : conn[i] = Gone
  BY DEF Init
<1>3. connections_ = {} /\ server = "alive"
  BY DEF Init
<1>4. \A l \in Loops : Distinct(work(l)) /\ \A fn : ~Queued(l, fn)
  <2>1. DOMAIN <<>> = {}
    OBVIOUS
  <2> QED
    BY <1>1, <2>1 DEF Distinct, Queued, Has
<1>5. \A l, fn : ~Due(l, fn)
  BY <1>2 DEF Due, Gone
<1>6. CallsFit /\ ListenFits
  BY <1>4, <1>5 DEF CallsFit, LoopFits, ListenFits
<1>7. LifeFits
  BY <1>2, <1>3 DEF LifeFits, Gone
<1>8. BatchFits /\ RefFits
  <2>1. mentioned(<<>>) = {}
    BY DEF mentioned
  <2> QED
    BY <1>1, <2>1 DEF BatchFits, RefFits, Loops
<1>9. QuietDown
  BY <1>3 DEF QuietDown
<1> QED
  BY <1>6, <1>7, <1>8, <1>9 DEF LifeInv

(* Neither these facts nor an assert is broken by a step. *)
LEMMA LifeInvStep ==
  ASSUME ~DestroyBusy, ServerInv, LifeInv, NoAssertFails, [Next]_allVars
  PROVE  LifeInv' /\ NoAssertFails'
<1>1. CASE Next
  <2>1. Moves /\ Sound
    BY <1>1, EveryStepMoves
  <2>2. NoAssertFails'
    BY <2>1 DEF Sound, NoAssertFails
  <2>3. LifeInv'
    BY <1>1, <2>1, CallsFitStep, ListenFitsStep, LifeFitsStep, BatchFitsStep, RefFitsStep,
       QuietDownStep DEF LifeInv
  <2> QED
    BY <2>2, <2>3
<1>2. CASE UNCHANGED allVars
  <2>1. UNCHANGED <<conn, connections_, pending, batch, functors, server, listenning_, starter,
                    threadPc, numThreads_, failed>>
    BY <1>2 DEF allVars, poolVars, threadVars, serverVars, startVars, acceptorVars, connVars,
                queueVars
  <2>2. UNCHANGED <<CallsFit, ListenFits>>
    BY <2>1 DEF CallsFit, LoopFits, ListenFits, Queued, Due, work
  <2>3. UNCHANGED <<LifeFits, BatchFits, RefFits, QuietDown, NoAssertFails>>
    BY <2>1 DEF LifeFits, BatchFits, RefFits, QuietDown, NoAssertFails, mentioned
  <2> QED
    BY <2>2, <2>3 DEF LifeInv
<1> QED
  BY <1>1, <1>2

(* The functors on their way fit the map and the lives of the connections, *)
(* the batches refer to no freed connection, and the asserts hold, in a    *)
(* server that is destroyed at rest if it has threads.                     *)
THEOREM LifeInvariant ==
  ~DestroyBusy => (Spec => [](ServerInv /\ LifeInv /\ NoAssertFails))
<1> SUFFICES ASSUME ~DestroyBusy PROVE Spec => [](ServerInv /\ LifeInv /\ NoAssertFails)
  OBVIOUS
<1>1. Init => LifeInv /\ NoAssertFails
  BY LifeInvInit DEF Init, PoolInit, NoAssertFails
<1>2. ServerInv /\ LifeInv /\ NoAssertFails /\ [Next]_allVars => LifeInv' /\ NoAssertFails'
  BY LifeInvStep
<1> QED
  BY <1>1, <1>2, ServerInvariant, PTL DEF Spec

(* The functors of one kind for one connection, wherever they are.         *)
LEMMA CallsCounted ==
  ASSUME CallsFit, NEW f \in Calls \ {"listen"}, NEW i \in Conns
  PROVE  /\ (\A l \in Loops : ~Due(l, functor(f, i))) => Cardinality(calls(f, i)) = 0
         /\ \A m \in Loops : (\A l \in Loops : Due(l, functor(f, i)) <=> l = m) =>
              Cardinality(calls(f, i)) = 1
<1> DEFINE x == functor(f, i)
<1>1. x \in Jobs /\ x.f # "listen"
  BY FunctorsDiffer
<1>2. \A l \in Loops : Has(work(l), x) <=> Due(l, x)
  BY <1>1 DEF CallsFit, LoopFits, Queued
<1>3. \A l \in Loops : Distinct(work(l))
  BY DEF CallsFit, LoopFits
<1>4. calls(f, i) = {p \in UNION {{l} \X DOMAIN work(l) : l \in Loops} : work(p[1])[p[2]] = x}
  BY DEF calls
<1> HIDE DEF x
<1>5. \A p \in calls(f, i) : /\ p = <<p[1], p[2]>> /\ p[1] \in Loops /\ p[2] \in DOMAIN work(p[1])
                             /\ work(p[1])[p[2]] = x
  BY <1>4
<1>6. ASSUME \A l \in Loops : ~Due(l, x) PROVE Cardinality(calls(f, i)) = 0
  <2>1. calls(f, i) = {}
    BY <1>2, <1>5, <1>6 DEF Has
  <2> QED
    BY <2>1, FS_EmptySet
<1>7. ASSUME NEW m \in Loops, \A l \in Loops : Due(l, x) <=> l = m
      PROVE  Cardinality(calls(f, i)) = 1
  <2>1. PICK k \in DOMAIN work(m) : work(m)[k] = x
    BY <1>2, <1>7 DEF Has
  <2>2. <<m, k>> \in calls(f, i)
    <3>1. <<m, k>> \in {m} \X DOMAIN work(m)
      BY <2>1
    <3>2. <<m, k>> \in UNION {{l} \X DOMAIN work(l) : l \in Loops}
      BY <3>1
    <3> QED
      BY <1>4, <2>1, <3>2
  <2>3. ASSUME NEW p \in calls(f, i) PROVE p = <<m, k>>
    <3>1. p[1] = m
      BY <1>2, <1>5, <1>7 DEF Has
    <3>2. p[2] = k
      BY <1>3, <1>5, <2>1, <3>1 DEF Distinct
    <3> QED
      BY <1>5, <3>1, <3>2
  <2>4. calls(f, i) = {<<m, k>>}
    BY <2>2, <2>3
  <2> QED
    BY <2>4, FS_Singleton
<1> QED
  BY <1>6, <1>7 DEF x

(* The map follows the connections. *)
LEMMA MapFollows ==
  ASSUME ServerInv, LifeInv
  PROVE  MapFollowsConnections
<1> SUFFICES ASSUME NEW i \in Conns
             PROVE  /\ conn[i].state \in {"connecting", "up"} => i \in connections_
                    /\ Cardinality(calls("removeConnectionInLoop", i)) =
                         IF conn[i].state = "down" /\ i \in connections_ THEN 1 ELSE 0
                    /\ Cardinality(calls("connectDestroyed", i)) =
                         IF conn[i].state = "down" /\ i \notin connections_ THEN 1 ELSE 0
  BY DEF MapFollowsConnections
<1>1. conn[i].loop \in Loops /\ Base \in Loops /\ CallsFit
  BY DEF ServerInv, ServerTypes, ConnTyped, LifeInv, Loops
<1>2. conn[i].state \in {"connecting", "up"} => i \in connections_
  BY DEF LifeInv, LifeFits
<1>3. \A l : Due(l, functor("removeConnectionInLoop", i))
               <=> l = Base /\ conn[i].state = "down" /\ i \in connections_
  BY DEF Due, functor
<1>4. \A l : Due(l, functor("connectDestroyed", i))
               <=> l = conn[i].loop /\ conn[i].state = "down" /\ i \notin connections_
  BY DEF Due, functor
<1>5. Cardinality(calls("removeConnectionInLoop", i)) =
        IF conn[i].state = "down" /\ i \in connections_ THEN 1 ELSE 0
  <2>1. "removeConnectionInLoop" \in Calls \ {"listen"}
    BY DEF Calls
  <2> QED
    BY <1>1, <1>3, <2>1, CallsCounted
<1>6. Cardinality(calls("connectDestroyed", i)) =
        IF conn[i].state = "down" /\ i \notin connections_ THEN 1 ELSE 0
  <2>1. "connectDestroyed" \in Calls \ {"listen"}
    BY DEF Calls
  <2> QED
    BY <1>1, <1>4, <2>1, CallsCounted
<1> QED
  BY <1>2, <1>5, <1>6

(* In a server that is destroyed at rest if it has threads, whatever the   *)
(* base loop and the io loops do in between: the types and the loops of    *)
(* the pool are right, no assert of TcpServer, TcpConnection and their     *)
(* destructors fails, and the map holds each connection until the one      *)
(* functor that erases it has run, and the loop of a connection the one    *)
(* that destroys it.                                                       *)
THEOREM ServerStaysConsistent == ~DestroyBusy => (Spec => []ServerConsistent)
<1>1. ServerInv /\ LifeInv /\ NoAssertFails => ServerConsistent
  <2> SUFFICES ASSUME ServerInv, LifeInv, NoAssertFails PROVE ServerConsistent
    OBVIOUS
  <2>1. TypeOK /\ LoopsExist
    BY TypesSuffice, LoopsOfPool DEF ServerInv
  <2> QED
    BY <2>1, MapFollows DEF ServerConsistent
<1>2. ~DestroyBusy => (Spec => [](ServerInv /\ LifeInv /\ NoAssertFails))
  BY LifeInvariant
<1> QED
  BY <1>1, <1>2, PTL

(* A move is a step of each connection's life, or leaves it as it is.      *)
LEMMA LivesMove ==
  ASSUME ServerInv, LifeInv, Moves, NEW i \in Conns
  PROVE  [Life(i)!Next]_(Life(i)!lifeVars)
<1> DEFINE Same == conn'[i].state = conn[i].state /\ (i \in connections_' <=> i \in connections_)
           Good == [Life(i)!Next]_(Life(i)!lifeVars)
<1>1. Same => Good
  BY DEF Life!lifeVars
<1>2. CASE Rests \/ Listens \/ Listened
  BY <1>1, <1>2 DEF Rests, Listens, Listened
<1>3. CASE Dies
  <2>1. CASE i \in connections_
    <3>1. Life(i)!ServerDies
      BY <1>3, <2>1 DEF Dies, Life!ServerDies
    <3> QED
      BY <3>1 DEF Life!Next
  <2>2. CASE i \notin connections_
    BY <1>1, <1>3, <2>2 DEF Dies
  <2> QED
    BY <2>1, <2>2
<1>4. ASSUME NEW j \in Conns, NEW m \in Loops, Opens(j, m) PROVE Good
  <2>1. CASE j = i
    <3>1. Life(i)!Create
      BY <1>4, <2>1 DEF Life!Create, Opens, Gone
    <3> QED
      BY <3>1 DEF Life!Next
  <2>2. CASE j # i
    BY <1>1, <1>4, <2>2 DEF Opens
  <2> QED
    BY <2>1, <2>2
<1>5. ASSUME NEW j \in Conns, Establishes(j) PROVE Good
  <2>1. CASE j = i
    <3>1. Life(i)!Establish
      BY <1>5, <2>1 DEF Life!Establish, Establishes, Turns
    <3> QED
      BY <3>1 DEF Life!Next
  <2>2. CASE j # i
    BY <1>1, <1>5, <2>2 DEF Establishes, Turns
  <2> QED
    BY <2>1, <2>2
<1>6. ASSUME NEW j \in Conns, Closes(j) PROVE Good
  <2>1. CASE j = i
    <3>1. Life(i)!Close
      BY <1>6, <2>1 DEF Life!Close, Closes, Turns
    <3> QED
      BY <3>1 DEF Life!Next
  <2>2. CASE j # i
    BY <1>1, <1>6, <2>2 DEF Closes, Turns
  <2> QED
    BY <2>1, <2>2
<1>7. ASSUME NEW j \in Conns, Erases(j) PROVE Good
  <2>1. CASE j = i
    <3>1. Life(i)!LetGo
      BY <1>7, <2>1 DEF Life!LetGo, Erases
    <3> QED
      BY <3>1 DEF Life!Next
  <2>2. CASE j # i
    BY <1>1, <1>7, <2>2 DEF Erases
  <2> QED
    BY <2>1, <2>2
<1>8. ASSUME NEW j \in Conns, Destroys(j) PROVE Good
  <2>1. CASE j = i
    <3>1. Life(i)!Destroy
      BY <1>8, <2>1 DEF Life!Destroy, Destroys, Turns
    <3> QED
      BY <3>1 DEF Life!Next
  <2>2. CASE j # i
    BY <1>1, <1>8, <2>2 DEF Destroys, Turns
  <2> QED
    BY <2>1, <2>2
<1>9. ASSUME NEW cs \in SUBSET Conns, Frees(cs) PROVE Good
  <2>1. CASE i \in cs
    <3>1. Life(i)!Free
      BY <1>9, <2>1 DEF Life!Free, Frees
    <3> QED
      BY <3>1 DEF Life!Next
  <2>2. CASE i \notin cs
    BY <1>1, <1>9, <2>2 DEF Frees
  <2> QED
    BY <2>1, <2>2
<1> QED
  BY <1>2, <1>3, <1>4, <1>5, <1>6, <1>7, <1>8, <1>9 DEF Moves

(* Each connection of such a server, together with its place in the map,   *)
(* goes through the life of ConnectionLifecycle, although newConnection,   *)
(* handleClose, removeConnectionInLoop, connectDestroyed and the last      *)
(* reference to it come in two loops, one functor after the other.         *)
THEOREM ConnectionsLiveTheirLives ==
  ~DestroyBusy => (Spec => ConnectionsImplementLifecycle)
<1> SUFFICES ASSUME ~DestroyBusy PROVE Spec => ConnectionsImplementLifecycle
  OBVIOUS
<1>1. Init => \A i \in Conns : Life(i)!Init
  BY DEF Init, Gone, Life!Init
<1>2. ServerInv /\ LifeInv /\ [Next]_allVars =>
        [\A i \in Conns : [Life(i)!Next]_(Life(i)!lifeVars)]_allVars
  BY EveryStepMoves, LivesMove
<1>3. Spec => [](ServerInv /\ LifeInv)
  BY LifeInvariant, PTL
<1> QED
  BY <1>1, <1>2, <1>3, PTL DEF Spec, ConnectionsImplementLifecycle

=============================================================================
