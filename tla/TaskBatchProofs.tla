-------------------------- MODULE TaskBatchProofs ---------------------------
(***************************************************************************)
(* Theorems about ThreadPool and CountDownLatch, for any finite sets of    *)
(* workers and callers and any batch of tasks: no notification of run or   *)
(* take is lost, tasks are taken in the order of the queue and each begun  *)
(* once, and the latch of the batch does not open early.                   *)
(***************************************************************************)
EXTENDS TaskBatch, FiniteSetTheorems, SequenceTheorems, TLAPS

Places == {"none", "unborn", "check", "take", "notEmpty", "taken", "task", "run",
           "notFull", "exited", "out"}

(* Threads that have a task: they are about to begin it, in it, or in run  *)
(* called by it.                                                           *)
Executing == {t \in Threads :
  \/ pc[t] \in {"taken", "task"}
  \/ t \in Workers /\ pc[t] \in {"run", "notFull"}}

(* What the places of the threads say about the owner.                     *)
PlacesAgree ==
  /\ pc \in [Threads -> Places]
  /\ owner = "new" => \A w \in Workers : pc[w] = "none"
  /\ At("unborn") # {} => owner = "starting"

(* A task is in one place: about to be queued, in the queue, or in one     *)
(* thread that has taken it and, unless it is still "taken", begun it,     *)
(* until it is done.                                                       *)
ArgsDisjoint ==
  \A t \in Threads : arg[t] # NoTask =>
    /\ arg[t] \notin ToSet(queue_) \cup ToSet(executed)
    /\ \A u \in Threads : arg[t] # task[u] /\ (arg[u] = arg[t] => u = t)

QueueDisjoint ==
  /\ \A i, j \in 1..Len(queue_) : queue_[i] = queue_[j] => i = j
  /\ ToSet(queue_) \cap ToSet(executed) = {}

TakenDisjoint ==
  \A t \in Threads : task[t] # NoTask =>
    /\ task[t] \notin ToSet(queue_) \cup done
    /\ task[t] \in ToSet(executed) <=> pc[t] # "taken"
    /\ \A u \in Threads : task[u] = task[t] => u = t

TasksDisjoint ==
  /\ ArgsDisjoint /\ QueueDisjoint /\ TakenDisjoint
  /\ \A t \in Executing : task[t] # NoTask

(* The latch counts the tasks that have not returned.                      *)
LatchCounts ==
  /\ count_ = Cardinality(Tasks) - Cardinality(done)
  /\ \A w \in Waiters : waiterPc[w] = "returned" => count_ <= 0

BatchInv == NotifiesSuffice /\ PlacesAgree /\ TasksDisjoint /\ LatchCounts

-----------------------------------------------------------------------------
(* The threads at a place, and what moving one does to the numbers.        *)
In(p, place) == {t \in Threads : p[t] = place}

(* The threads at a place can be counted.                                  *)
LEMMA InFinite ==
  ASSUME NEW p, NEW place
  PROVE  IsFiniteSet(In(p, place)) /\ Cardinality(In(p, place)) \in Nat
<1>1. IsFiniteSet(Threads)
  BY PoolAssumption, FS_Union DEF Threads
<1>2. In(p, place) \in SUBSET Threads
  BY DEF In
<1> QED
  BY <1>1, <1>2, FS_Subset, FS_CardinalityType

(* One thread moves from one place to another: the one number goes down    *)
(* and the other up by one.                                                *)
LEMMA ThreadMoves ==
  ASSUME NEW p, NEW q, NEW t \in Threads, NEW a, NEW b, p[t] = a, q[t] = b, a # b,
         \A u \in Threads : u # t => q[u] = p[u]
  PROVE  /\ \A place : place # a /\ place # b => In(q, place) = In(p, place)
         /\ Cardinality(In(q, b)) = Cardinality(In(p, b)) + 1
         /\ Cardinality(In(q, a)) = Cardinality(In(p, a)) - 1
<1>1. \A place : place # a /\ place # b => In(q, place) = In(p, place)
  BY DEF In
<1>2. Cardinality(In(q, b)) = Cardinality(In(p, b)) + 1
  <2>1. In(q, b) = In(p, b) \cup {t} /\ t \notin In(p, b)
    BY DEF In
  <2> QED
    BY <2>1, InFinite, FS_AddElement
<1>3. Cardinality(In(q, a)) = Cardinality(In(p, a)) - 1
  <2>1. In(q, a) = In(p, a) \ {t} /\ t \in In(p, a)
    BY DEF In
  <2> QED
    BY <2>1, InFinite, FS_RemoveElement
<1> QED
  BY <1>1, <1>2, <1>3

(* notify_one: nobody was asleep, or one sleeper goes on.                  *)
LEMMA NotifyOneMoves ==
  ASSUME NEW p \in [Threads -> Places], NEW waitSet \in Places, NEW next \in Places,
         waitSet # next, NEW q \in notifyOne(p, waitSet, next)
  PROVE  /\ q \in [Threads -> Places]
         /\ \A place : place # waitSet /\ place # next => In(q, place) = In(p, place)
         /\ \A t \in Threads : q[t] = p[t] \/ (p[t] = waitSet /\ q[t] = next)
         /\ \/ In(p, waitSet) = {} /\ q = p
            \/ Cardinality(In(q, next)) = Cardinality(In(p, next)) + 1
<1>1. CASE In(p, waitSet) = {}
  BY <1>1 DEF notifyOne, In
<1>2. CASE In(p, waitSet) # {}
  <2>1. PICK t \in In(p, waitSet) : q = [p EXCEPT ![t] = next]
    BY <1>2 DEF notifyOne, In
  <2>2. t \in Threads /\ p[t] = waitSet /\ q[t] = next
    BY <2>1 DEF In
  <2>3. q \in [Threads -> Places] /\ \A u \in Threads : u # t => q[u] = p[u]
    BY <2>1, <2>2
  <2>4. /\ \A place : place # waitSet /\ place # next => In(q, place) = In(p, place)
        /\ Cardinality(In(q, next)) = Cardinality(In(p, next)) + 1
    BY <2>2, <2>3, ThreadMoves
  <2> QED
    BY <2>2, <2>3, <2>4
<1> QED
  BY <1>1, <1>2

-----------------------------------------------------------------------------
(***************************************************************************)
(* What the steps do to the places, the queue and the tasks.               *)
(***************************************************************************)

(* The types of places and numbers, for the lemmas that follow.            *)
LEMMA TypeOfPlaces ==
  ASSUME TypeOK, PlacesAgree
  PROVE  /\ \A place : At(place) = In(pc, place)
         /\ \A t \in Workers : t \in Threads
         /\ maxQueueSize_ \in Nat
         /\ Len(queue_) \in Nat
BY PoolAssumption DEF TypeOK, At, In, Threads

(* Nobody falls asleep, and those on their way to a lock get no fewer.     *)
LEMMA NotifiesKept ==
  ASSUME TypeOK, PlacesAgree, NoLostNotify, UNCHANGED <<maxQueueSize_, queue_>>,
         In(pc, "notEmpty") = {} \/ running_',
         In(pc', "notEmpty") \subseteq In(pc, "notEmpty"),
         In(pc', "notFull") \subseteq In(pc, "notFull"),
         Cardinality(In(pc, "take")) <= Cardinality(In(pc', "take")),
         Cardinality(In(pc, "run")) <= Cardinality(In(pc', "run"))
  PROVE  NoLostNotify'
<1>1. \A place : At(place)' = In(pc', place)
  BY DEF At, In, Threads
<1>2. /\ Cardinality(In(pc, "take")) \in Nat /\ Cardinality(In(pc', "take")) \in Nat
      /\ Cardinality(In(pc, "run")) \in Nat /\ Cardinality(In(pc', "run")) \in Nat
  BY InFinite
<1> QED
  BY <1>1, <1>2, TypeOfPlaces DEF NoLostNotify

(* ThreadPool::run loses no notification.                                  *)
LEMMA RunKeepsNotifies ==
  ASSUME TypeOK, PlacesAgree, NoLostNotify, NEW t \in Threads, Run(t)
  PROVE  NoLostNotify'
<1>0. /\ UNCHANGED <<maxQueueSize_, running_>> /\ pc[t] = "run"
      /\ \A place : At(place)' = In(pc', place)
      /\ pc \in [Threads -> Places]
  BY DEF Run, At, In, Threads, PlacesAgree
<1>1. CASE isFull
  <2>1. pc' = [pc EXCEPT ![t] = "notFull"] /\ queue_' = queue_
    BY <1>1 DEF Run
  <2>2. /\ In(pc', "notEmpty") = In(pc, "notEmpty")
        /\ In(pc', "take") = In(pc, "take")
    BY <1>0, <2>1 DEF In
  <2>3. Cardinality(In(pc', "run")) \in Nat
    BY InFinite
  <2> QED
    BY <1>0, <1>1, <2>1, <2>2, <2>3, TypeOfPlaces DEF NoLostNotify, isFull
<1>2. CASE ~isFull
  <2> DEFINE q == [pc EXCEPT ![t] = IF t \in Workers THEN "task" ELSE "out"]
  <2>1. /\ queue_' = Append(queue_, arg[t])
        /\ pc' \in notifyOne(q, "notEmpty", "take")
    BY <1>2 DEF Run, pushWakes
  <2>2. Len(queue_') = Len(queue_) + 1
    BY <2>1 DEF TypeOK
  <2>3. /\ q \in [Threads -> Places]
        /\ In(q, "notEmpty") = In(pc, "notEmpty")
        /\ In(q, "notFull") = In(pc, "notFull")
        /\ In(q, "take") = In(pc, "take")
        /\ Cardinality(In(q, "run")) = Cardinality(In(pc, "run")) - 1
    <3>1. /\ q \in [Threads -> Places] /\ q[t] \in {"task", "out"}
          /\ \A u \in Threads : u # t => q[u] = pc[u]
      BY <1>0 DEF Places
    <3> HIDE DEF q
    <3> QED
      BY <1>0, <3>1, ThreadMoves
  <2> HIDE DEF q
  <2>4. /\ In(pc', "notFull") = In(q, "notFull")
        /\ In(pc', "run") = In(q, "run")
        /\ \/ In(q, "notEmpty") = {} /\ pc' = q
           \/ Cardinality(In(pc', "take")) = Cardinality(In(q, "take")) + 1
    BY <2>1, <2>3, NotifyOneMoves DEF Places
  <2>5. \A u \in Threads : pc'[u] = "notEmpty" => q[u] = "notEmpty"
    BY <2>1, <2>3, NotifyOneMoves DEF Places
  <2>6. In(pc', "notEmpty") # {} => In(pc, "notEmpty") # {}
    BY <2>3, <2>5 DEF In
  <2>7. /\ Cardinality(In(pc, "run")) \in Nat
        /\ Cardinality(In(pc, "take")) \in Nat
    BY InFinite
  <2>8. (maxQueueSize_ > 0 => Len(queue_) <= maxQueueSize_)'
    BY <1>0, <1>2, <2>2, TypeOfPlaces DEF isFull
  <2>9. (At("notEmpty") # {} => running_ /\ Len(queue_) <= Cardinality(At("take")))'
    BY <1>0, <2>2, <2>3, <2>4, <2>6, <2>7, TypeOfPlaces DEF NoLostNotify
  <2>10. (At("notFull") # {} => maxQueueSize_ - Len(queue_) <= Cardinality(At("run")))'
    BY <1>0, <2>2, <2>3, <2>4, <2>7, TypeOfPlaces DEF NoLostNotify
  <2> QED
    BY <2>8, <2>9, <2>10 DEF NoLostNotify
<1> QED
  BY <1>1, <1>2

(* ThreadPool::take loses no notification.                                 *)
LEMMA TakeKeepsNotifies ==
  ASSUME TypeOK, PlacesAgree, NoLostNotify, NEW w \in Threads, Take(w)
  PROVE  NoLostNotify'
<1>0. /\ UNCHANGED <<maxQueueSize_, running_>> /\ pc[w] = "take"
      /\ \A place : At(place)' = In(pc', place)
      /\ pc \in [Threads -> Places]
  BY DEF Take, At, In, Threads, PlacesAgree
<1>1. CASE queue_ = <<>> /\ running_
  <2>1. pc' = [pc EXCEPT ![w] = "notEmpty"] /\ queue_' = queue_
    BY <1>1 DEF Take, waitsToTake
  <2>2. /\ In(pc', "notFull") = In(pc, "notFull")
        /\ In(pc', "run") = In(pc, "run")
    BY <1>0, <2>1 DEF In
  <2>3. Cardinality(In(pc', "take")) \in Nat /\ Len(queue_) = 0
    BY <1>1, InFinite
  <2> QED
    BY <1>0, <1>1, <2>1, <2>2, <2>3, TypeOfPlaces DEF NoLostNotify
<1>2. CASE queue_ = <<>> /\ ~running_
  <2>1. pc' = [pc EXCEPT ![w] = "check"] /\ queue_' = queue_
    BY <1>2 DEF Take, waitsToTake
  <2>2. /\ In(pc', "notFull") = In(pc, "notFull")
        /\ In(pc', "run") = In(pc, "run")
        /\ In(pc', "notEmpty") = In(pc, "notEmpty")
    BY <1>0, <2>1 DEF In
  <2> QED
    BY <1>0, <1>2, <2>1, <2>2, TypeOfPlaces DEF NoLostNotify
<1>3. CASE queue_ # <<>>
  <2> DEFINE p == [pc EXCEPT ![w] = "taken"]
  <2>1. /\ queue_' = Tail(queue_)
        /\ pc' \in IF maxQueueSize_ > 0 THEN notifyOne(p, "notFull", "run") ELSE {p}
    BY <1>3 DEF Take, waitsToTake, takes
  <2>2. Len(queue_') = Len(queue_) - 1 /\ Len(queue_') \in Nat
    BY <1>3, <2>1 DEF TypeOK
  <2>3. /\ p \in [Threads -> Places]
        /\ In(p, "notEmpty") = In(pc, "notEmpty")
        /\ In(p, "notFull") = In(pc, "notFull")
        /\ In(p, "run") = In(pc, "run")
        /\ Cardinality(In(p, "take")) = Cardinality(In(pc, "take")) - 1
    <3>1. /\ p \in [Threads -> Places] /\ p[w] = "taken"
          /\ \A u \in Threads : u # w => p[u] = pc[u]
      BY <1>0 DEF Places
    <3> HIDE DEF p
    <3> QED
      BY <1>0, <3>1, ThreadMoves
  <2> HIDE DEF p
  <2>4. /\ In(pc', "notEmpty") = In(p, "notEmpty")
        /\ In(pc', "take") = In(p, "take")
        /\ maxQueueSize_ > 0 =>
             \/ In(p, "notFull") = {} /\ pc' = p
             \/ Cardinality(In(pc', "run")) = Cardinality(In(p, "run")) + 1
    BY <2>1, <2>3, NotifyOneMoves DEF Places
  <2>5. maxQueueSize_ > 0 => (In(pc', "notFull") # {} => In(pc, "notFull") # {})
    <3>1. maxQueueSize_ > 0 => \A t \in Threads : pc'[t] = "notFull" => p[t] = "notFull"
      BY <2>1, <2>3, NotifyOneMoves DEF Places
    <3> QED
      BY <2>3, <3>1 DEF In
  <2>6. /\ Cardinality(In(pc, "run")) \in Nat /\ Cardinality(In(pc', "run")) \in Nat
        /\ Cardinality(In(pc, "take")) \in Nat
    BY InFinite
  <2>7. (maxQueueSize_ > 0 => Len(queue_) <= maxQueueSize_)'
    BY <1>0, <2>2, TypeOfPlaces DEF NoLostNotify
  <2>8. (At("notEmpty") # {} => running_ /\ Len(queue_) <= Cardinality(At("take")))'
    BY <1>0, <2>2, <2>3, <2>4, <2>6, TypeOfPlaces DEF NoLostNotify
  <2>9. (At("notFull") # {} => maxQueueSize_ - Len(queue_) <= Cardinality(At("run")))'
    BY <1>0, <2>2, <2>3, <2>4, <2>5, <2>6, TypeOfPlaces DEF NoLostNotify
  <2> QED
    BY <2>7, <2>8, <2>9 DEF NoLostNotify
<1> QED
  BY <1>1, <1>2, <1>3

(* One thread goes from a to b, where b is not asleep.                     *)
LEMMA MoveKeepsNotifies ==
  ASSUME TypeOK, PlacesAgree, NoLostNotify,
         UNCHANGED <<maxQueueSize_, queue_, running_>>,
         NEW t \in Threads, NEW b \in Places, pc' = [pc EXCEPT ![t] = b],
         b \notin {"notEmpty", "notFull"}, pc[t] \notin {"take", "run"}
  PROVE  NoLostNotify'
<1>1. \A u \in Threads : IF u = t THEN pc'[u] = b ELSE pc'[u] = pc[u]
  BY DEF PlacesAgree
<1>2. /\ In(pc', "notEmpty") \subseteq In(pc, "notEmpty")
      /\ In(pc', "notFull") \subseteq In(pc, "notFull")
  BY <1>1 DEF In
<1>3. ASSUME NEW place \in {"take", "run"}
      PROVE  Cardinality(In(pc, place)) <= Cardinality(In(pc', place))
  <2>1. In(pc, place) \in SUBSET In(pc', place)
    BY <1>1 DEF In
  <2> QED
    BY <2>1, InFinite, FS_Subset
<1>4. In(pc, "notEmpty") = {} \/ running_'
  BY TypeOfPlaces DEF NoLostNotify
<1> QED
  BY <1>2, <1>3, <1>4, NotifiesKept

(* ThreadPool::start, when nobody waits yet, loses none.                   *)
LEMMA StartKeepsNotifies ==
  ASSUME TypeOK, PlacesAgree, NoLostNotify, NEW threads \in SUBSET Workers, Start(threads)
  PROVE  NoLostNotify'
<1>1. /\ \A t \in Threads : pc'[t] = pc[t] \/ (pc[t] = "none" /\ pc'[t] = "unborn")
      /\ UNCHANGED <<maxQueueSize_, queue_>> /\ running_'
  BY DEF Start, PlacesAgree
<1>2. \A place \in {"notEmpty", "notFull", "take", "run"} : In(pc', place) = In(pc, place)
  BY <1>1 DEF In
<1> QED
  BY <1>1, <1>2, InFinite, NotifiesKept

(* ThreadPool::stop wakes everyone.                                        *)
LEMMA StopKeepsNotifies ==
  ASSUME TypeOK, PlacesAgree, NoLostNotify, Stop
  PROVE  NoLostNotify'
<1>1. /\ \A t \in Threads : pc'[t] = IF pc[t] = "notEmpty" THEN "take" ELSE pc[t]
      /\ UNCHANGED <<maxQueueSize_, queue_>>
  BY DEF Stop, notifyAll
<1>2. /\ In(pc', "notEmpty") = {} /\ In(pc', "notFull") = In(pc, "notFull")
      /\ In(pc', "run") = In(pc, "run")
      /\ \A place : At(place)' = In(pc', place)
  BY <1>1 DEF In, At, Threads
<1> QED
  BY <1>1, <1>2, TypeOfPlaces DEF NoLostNotify

(* No step loses a notification.                                           *)
LEMMA NotifiesStep ==
  ASSUME TypeOK, PlacesAgree, NoLostNotify, [Next]_batchVars
  PROVE  NoLostNotify'
<1> USE DEF vars, batchVars, Places
<1>1. ASSUME NEW w \in Workers, StartThread(w)
      PROVE  NoLostNotify'
  BY <1>1, TypeOfPlaces, MoveKeepsNotifies DEF StartThread
<1>2. CASE Join
  BY <1>2, NotifiesKept, InFinite, TypeOfPlaces DEF Join, NoLostNotify
<1>3. ASSUME NEW t \in Threads, CheckRunning(t)
      PROVE  NoLostNotify'
  BY <1>3, MoveKeepsNotifies DEF CheckRunning
<1>4. ASSUME NEW t \in Threads, TaskReturns(t)
      PROVE  NoLostNotify'
  BY <1>4, MoveKeepsNotifies DEF TaskReturns
<1>5. ASSUME NEW t \in Threads, NEW f \in Tasks, CallRun(t, f)
      PROVE  NoLostNotify'
  BY <1>5, MoveKeepsNotifies DEF CallRun
<1>6. ASSUME NEW t \in Threads, SpuriousWakeup(t)
      PROVE  NoLostNotify'
  BY <1>6, MoveKeepsNotifies DEF SpuriousWakeup
<1>7. CASE UNCHANGED vars
  BY <1>7, NotifiesKept, InFinite, TypeOfPlaces DEF NoLostNotify
<1>8. ASSUME NEW t \in Threads, BeginTask(t)
      PROVE  NoLostNotify'
  BY <1>8, MoveKeepsNotifies DEF BeginTask
<1> QED
  BY <1>1, <1>2, <1>3, <1>4, <1>5, <1>6, <1>7, <1>8, RunKeepsNotifies, TakeKeepsNotifies,
     StartKeepsNotifies, StopKeepsNotifies
  DEF Next, PoolSteps, PoolStep, OwnerStep, ThreadStep, TaskCountsDown, LatchSteps

-----------------------------------------------------------------------------
(***************************************************************************)
(* Tasks.                                                                  *)
(***************************************************************************)

(* The elements of a queue after Append.                                   *)
LEMMA ToSetAppend ==
  ASSUME NEW S, NEW s \in Seq(S), NEW x \in S
  PROVE  /\ Append(s, x) \in Seq(S)
         /\ ToSet(Append(s, x)) = ToSet(s) \cup {x}
<1>1. Append(s, x) \in Seq(S) /\ Len(Append(s, x)) = Len(s) + 1 /\ Len(s) \in Nat
  OBVIOUS
<1>2. \A i \in 1..Len(s) : Append(s, x)[i] = s[i]
  OBVIOUS
<1>3. Append(s, x)[Len(s) + 1] = x
  OBVIOUS
<1>4. DOMAIN Append(s, x) = DOMAIN s \cup {Len(s) + 1} /\ DOMAIN s = 1..Len(s)
  BY <1>1
<1> QED
  BY <1>1, <1>2, <1>3, <1>4 DEF ToSet

(* The elements of a queue whose head is taken.                            *)
LEMMA ToSetTail ==
  ASSUME NEW S, NEW s \in Seq(S), s # <<>>
  PROVE  /\ Tail(s) \in Seq(S) /\ Head(s) \in S
         /\ ToSet(s) = ToSet(Tail(s)) \cup {Head(s)}
         /\ Len(Tail(s)) = Len(s) - 1 /\ Head(s) = s[1]
         /\ \A i \in 1..Len(Tail(s)) : Tail(s)[i] = s[i + 1]
<1>1. /\ Tail(s) \in Seq(S) /\ Head(s) \in S /\ Head(s) = s[1]
      /\ Len(Tail(s)) = Len(s) - 1 /\ Len(s) \in Nat /\ Len(s) >= 1
  OBVIOUS
<1>2. \A i \in 1..Len(Tail(s)) : Tail(s)[i] = s[i + 1]
  BY <1>1
<1>3. DOMAIN Tail(s) = 1..(Len(s) - 1) /\ DOMAIN s = 1..Len(s)
  BY <1>1
<1>4. \A i \in DOMAIN s : i = 1 \/ ((i - 1) \in DOMAIN Tail(s) /\ s[i] = Tail(s)[i - 1])
  BY <1>1, <1>2, <1>3
<1>5. \A i \in DOMAIN Tail(s) : (i + 1) \in DOMAIN s
  BY <1>1, <1>3
<1>6. ToSet(s) \subseteq ToSet(Tail(s)) \cup {Head(s)}
  BY <1>1, <1>4 DEF ToSet
<1>7. ToSet(Tail(s)) \cup {Head(s)} \subseteq ToSet(s)
  BY <1>1, <1>2, <1>3, <1>5 DEF ToSet
<1> QED
  BY <1>1, <1>2, <1>6, <1>7

(* A step that moves no task keeps each in one place.                      *)
LEMMA TasksKept ==
  ASSUME TasksDisjoint, UNCHANGED <<arg, queue_, executed, task, done>>,
         Executing' \subseteq Executing,
         \A t \in Threads : pc'[t] = "taken" <=> pc[t] = "taken"
  PROVE  TasksDisjoint'
BY DEF TasksDisjoint, ArgsDisjoint, QueueDisjoint, TakenDisjoint, Threads

(* run is given tasks nobody has seen, and executes one on the spot only   *)
(* in a producer: the pool of a worker has a thread.                       *)
LEMMA TasksAfterCallRun ==
  ASSUME TypeOK, PlacesAgree, TasksDisjoint, NEW t \in Threads, NEW f \in Tasks,
         CallRun(t, f)
  PROVE  TasksDisjoint'
<1>0. /\ f \notin ToSet(queue_) /\ f \notin ToSet(executed)
      /\ \A u \in Threads : arg[u] # f /\ task[u] # f
      /\ UNCHANGED <<queue_, done>> /\ f # NoTask
      /\ done \subseteq ToSet(executed)
      /\ arg \in [Threads -> Tasks \cup {NoTask}] /\ task \in [Threads -> Tasks \cup {NoTask}]
      /\ pc \in [Threads -> Places]
  BY PoolAssumption DEF CallRun, Known, TypeOK, PlacesAgree
<1>1. CASE threads_ = {}
  <2>1. /\ pc' = [pc EXCEPT ![t] = "task"] /\ task' = [task EXCEPT ![t] = f]
        /\ executed' = Append(executed, f) /\ arg' = arg
    BY <1>1 DEF CallRun
  <2>2. ToSet(executed') = ToSet(executed) \cup {f}
    BY <2>1, ToSetAppend DEF TypeOK
  <2>3. \A u \in Threads : u # t /\ u \in Executing' => u \in Executing
    BY <1>0, <2>1 DEF Executing, Threads
  <2>4. \A u \in Threads : /\ task'[u] = IF u = t THEN f ELSE task[u]
                           /\ pc'[u] = IF u = t THEN "task" ELSE pc[u]
    BY <1>0, <2>1
  <2>5. ArgsDisjoint'
    BY <1>0, <2>1, <2>2, <2>4 DEF TasksDisjoint, ArgsDisjoint, Threads
  <2>6. TakenDisjoint'
    BY <1>0, <2>2, <2>4 DEF TasksDisjoint, TakenDisjoint, Threads
  <2>7. (\A u \in Executing : task[u] # NoTask)'
    BY <1>0, <2>3, <2>4 DEF TasksDisjoint, Executing, Threads
  <2>8. QueueDisjoint'
    BY <1>0, <2>2 DEF TasksDisjoint, QueueDisjoint
  <2> QED
    BY <2>5, <2>6, <2>7, <2>8 DEF TasksDisjoint
<1>2. CASE threads_ # {}
  <2>1. /\ pc' = [pc EXCEPT ![t] = "run"] /\ arg' = [arg EXCEPT ![t] = f]
        /\ UNCHANGED <<task, executed>>
    BY <1>2 DEF CallRun
  <2>2. /\ t \in Workers => pc[t] = "task"
        /\ pc[t] # "taken"
    BY DEF CallRun, TypeOK
  <2>3. \A u \in Threads : u \in Executing' => u \in Executing
    BY <1>0, <2>1, <2>2 DEF Executing, Threads
  <2>4. \A u \in Threads : /\ arg'[u] = IF u = t THEN f ELSE arg[u]
                           /\ pc'[u] = IF u = t THEN "run" ELSE pc[u]
    BY <1>0, <2>1
  <2>5. ArgsDisjoint'
    BY <1>0, <2>1, <2>4 DEF TasksDisjoint, ArgsDisjoint, Threads
  <2>6. TakenDisjoint' /\ QueueDisjoint'
    BY <1>0, <2>1, <2>2, <2>4 DEF TasksDisjoint, TakenDisjoint, QueueDisjoint, Threads
  <2> QED
    BY <2>1, <2>3, <2>5, <2>6 DEF TasksDisjoint, Executing, Threads
<1> QED
  BY <1>1, <1>2

(* run moves a task to the queue, or executes it at once in a pool without *)
(* threads.                                                                *)
LEMMA TasksAfterRun ==
  ASSUME TypeOK, PlacesAgree, TasksDisjoint, NEW t \in Threads, Run(t)
  PROVE  TasksDisjoint'
<1>0. /\ UNCHANGED <<task, executed, done>> /\ pc[t] = "run"
      /\ pc \in [Threads -> Places]
  BY DEF Run, PlacesAgree
<1>1. CASE isFull
  <2>1. pc' = [pc EXCEPT ![t] = "notFull"] /\ UNCHANGED <<queue_, arg>>
    BY <1>1 DEF Run
  <2>2. /\ Executing' \subseteq Executing
        /\ \A u \in Threads : pc'[u] = "taken" <=> pc[u] = "taken"
    BY <1>0, <2>1 DEF Executing, Threads
  <2> QED
    BY <1>0, <2>1, <2>2, TasksKept
<1>2. CASE ~isFull
  <2> DEFINE q == [pc EXCEPT ![t] = IF t \in Workers THEN "task" ELSE "out"]
  <2>1. /\ queue_' = Append(queue_, arg[t]) /\ arg' = [arg EXCEPT ![t] = NoTask]
        /\ pc' \in notifyOne(q, "notEmpty", "take")
    BY <1>2 DEF Run, pushWakes
  <2>2. arg[t] \in Tasks /\ arg[t] # NoTask /\ queue_ \in Seq(Tasks)
    BY <1>0, PoolAssumption DEF TypeOK
  <2>3. ToSet(queue_') = ToSet(queue_) \cup {arg[t]}
    BY <2>1, <2>2, ToSetAppend
  <2>4. \A u \in Threads : arg'[u] = IF u = t THEN NoTask ELSE arg[u]
    BY <2>1 DEF TypeOK
  <2>5. /\ arg[t] \notin ToSet(queue_) \cup ToSet(executed)
        /\ \A u \in Threads : arg[t] # task[u]
    BY <2>2 DEF TasksDisjoint, ArgsDisjoint
  <2>6. /\ Executing' \subseteq Executing
        /\ \A u \in Threads : pc'[u] = "taken" <=> pc[u] = "taken"
    <3>1. q \in [Threads -> Places]
      BY <1>0 DEF Places
    <3> HIDE DEF q
    <3>2. \A u \in Threads : pc'[u] = q[u] \/ (q[u] = "notEmpty" /\ pc'[u] = "take")
      BY <2>1, <3>1, NotifyOneMoves DEF Places
    <3>3. \A u \in Threads : /\ u \in Executing' => u \in Executing
                             /\ pc'[u] = "taken" <=> pc[u] = "taken"
      BY <1>0, <3>2 DEF Executing, Threads, q
    <3> QED
      BY <3>3 DEF Executing, Threads
  <2>7. ArgsDisjoint'
    BY <1>0, <2>2, <2>3, <2>4 DEF TasksDisjoint, ArgsDisjoint, Threads
  <2>8. (\A i, j \in 1..Len(queue_) : queue_[i] = queue_[j] => i = j)'
    <3>1. /\ Len(queue_') = Len(queue_) + 1 /\ Len(queue_) \in Nat
          /\ queue_'[Len(queue_) + 1] = arg[t]
          /\ \A i \in 1..Len(queue_) : queue_'[i] = queue_[i]
      BY <2>1, <2>2
    <3>2. \A i \in 1..Len(queue_) : queue_[i] # arg[t]
      BY <2>2, <2>5 DEF ToSet
    <3> QED
      BY <3>1, <3>2 DEF TasksDisjoint, QueueDisjoint
  <2>9. ToSet(queue_') \cap ToSet(executed') = {}
    BY <1>0, <2>3, <2>5 DEF TasksDisjoint, QueueDisjoint
  <2>10. TakenDisjoint'
    BY <1>0, <2>3, <2>5, <2>6 DEF TasksDisjoint, TakenDisjoint, Threads
  <2> QED
    BY <1>0, <2>6, <2>7, <2>8, <2>9, <2>10 DEF TasksDisjoint, QueueDisjoint, Threads
<1> QED
  BY <1>1, <1>2

(* take moves a task from the queue to one worker.                         *)
LEMMA TasksAfterTake ==
  ASSUME TypeOK, PlacesAgree, TasksDisjoint, NEW w \in Threads, Take(w)
  PROVE  TasksDisjoint'
<1>0. /\ UNCHANGED <<arg, executed, done>> /\ pc[w] = "take"
      /\ pc \in [Threads -> Places]
  BY DEF Take, PlacesAgree
<1>1. CASE queue_ = <<>>
  <2>1. UNCHANGED <<queue_, task>>
    BY <1>1 DEF Take
  <2>2. \A u \in Threads : \/ pc'[u] = pc[u]
                           \/ pc[u] = "take" /\ pc'[u] \in {"notEmpty", "check"}
    BY <1>0, <1>1 DEF Take
  <2>3. Executing' \subseteq Executing
    BY <2>2 DEF Executing, Threads
  <2> QED
    BY <1>0, <2>1, <2>2, <2>3, TasksKept
<1>2. CASE queue_ # <<>>
  <2> DEFINE p == [pc EXCEPT ![w] = "taken"]
             f == Head(queue_)
  <2>1. /\ task' = [task EXCEPT ![w] = f] /\ queue_' = Tail(queue_)
        /\ pc' \in IF maxQueueSize_ > 0 THEN notifyOne(p, "notFull", "run") ELSE {p}
    BY <1>2 DEF Take, waitsToTake, takes
  <2>2. /\ f \in Tasks /\ f # NoTask /\ f = queue_[1] /\ queue_ \in Seq(Tasks)
        /\ ToSet(queue_) = ToSet(queue_') \cup {f}
        /\ Len(queue_') = Len(queue_) - 1 /\ Len(queue_) \in Nat
        /\ \A i \in 1..Len(queue_') : queue_'[i] = queue_[i + 1]
    BY <1>2, <2>1, ToSetTail, PoolAssumption DEF TypeOK
  <2>3. \A u \in Threads : /\ arg[u] # NoTask => arg[u] # f
                           /\ task[u] # f
    BY <2>2 DEF TasksDisjoint, ArgsDisjoint, TakenDisjoint
  <2>4. f \notin ToSet(executed) /\ f \notin done
    BY <2>2 DEF TasksDisjoint, QueueDisjoint, TypeOK
  <2>5. \A u \in Threads : task'[u] = IF u = w THEN f ELSE task[u]
    BY <2>1 DEF TypeOK
  <2>6. \A u \in Threads : /\ u # w /\ u \in Executing' => u \in Executing
                           /\ pc'[u] = "taken" <=> u = w \/ pc[u] = "taken"
    <3>1. p \in [Threads -> Places]
      BY <1>0 DEF Places
    <3> HIDE DEF p
    <3>2. \A u \in Threads : pc'[u] = p[u] \/ (p[u] = "notFull" /\ pc'[u] = "run")
      BY <2>1, <3>1, NotifyOneMoves DEF Places
    <3> QED
      BY <1>0, <3>2 DEF Executing, Threads, p
  <2>7. f \notin ToSet(queue_')
    <3>1. \A i \in 1..Len(queue_') : queue_'[i] # f
      BY <1>2, <2>2 DEF TasksDisjoint, QueueDisjoint
    <3>2. queue_' \in Seq(Tasks)
      BY <1>2, <2>1, <2>2
    <3> QED
      BY <3>1, <3>2 DEF ToSet
  <2> HIDE DEF f
  <2>8. ArgsDisjoint'
    BY <1>0, <2>2, <2>3, <2>5 DEF TasksDisjoint, ArgsDisjoint, Threads
  <2>9. TakenDisjoint'
    BY <1>0, <2>2, <2>3, <2>4, <2>5, <2>6, <2>7 DEF TasksDisjoint, TakenDisjoint, Threads
  <2>10. (\A u \in Executing : task[u] # NoTask)'
    BY <2>2, <2>5, <2>6 DEF TasksDisjoint, Executing, Threads
  <2>11. QueueDisjoint'
    BY <1>0, <2>2 DEF TasksDisjoint, QueueDisjoint
  <2> QED
    BY <2>8, <2>9, <2>10, <2>11 DEF TasksDisjoint
<1> QED
  BY <1>1, <1>2

(* The worker that has taken a task begins it, and nobody has before.      *)
LEMMA TasksAfterBegin ==
  ASSUME TypeOK, PlacesAgree, TasksDisjoint, NEW w \in Threads, BeginTask(w)
  PROVE  /\ TasksDisjoint'
         /\ task[w] \in Tasks \ ToSet(executed)
<1>0. /\ UNCHANGED <<arg, queue_, task, done>> /\ pc[w] = "taken"
      /\ pc' = [pc EXCEPT ![w] = "task"] /\ executed' = Append(executed, task[w])
      /\ pc \in [Threads -> Places]
  BY DEF BeginTask, PlacesAgree
<1>1. w \in Executing
  BY <1>0 DEF Executing
<1>2. /\ task[w] \in Tasks /\ task[w] # NoTask
      /\ task[w] \notin ToSet(executed) \cup ToSet(queue_)
  BY <1>0, <1>1 DEF TasksDisjoint, TakenDisjoint, TypeOK
<1>3. ToSet(executed') = ToSet(executed) \cup {task[w]}
  BY <1>0, <1>2, ToSetAppend DEF TypeOK
<1>4. \A u \in Threads : pc'[u] = IF u = w THEN "task" ELSE pc[u]
  BY <1>0
<1>5. \A u \in Threads : u \in Executing' => u \in Executing
  BY <1>0, <1>4 DEF Executing, Threads
<1>6. ArgsDisjoint'
  BY <1>0, <1>2, <1>3 DEF TasksDisjoint, ArgsDisjoint, Threads
<1>7. TakenDisjoint'
  BY <1>0, <1>2, <1>3, <1>4 DEF TasksDisjoint, TakenDisjoint, Threads
<1>8. QueueDisjoint'
  BY <1>0, <1>2, <1>3 DEF TasksDisjoint, QueueDisjoint
<1>9. (\A u \in Executing : task[u] # NoTask)'
  BY <1>0, <1>5 DEF TasksDisjoint, Executing, Threads
<1> QED
  BY <1>2, <1>6, <1>7, <1>8, <1>9 DEF TasksDisjoint

(* A task that returns is done, and was not before.                        *)
LEMMA TasksAfterReturn ==
  ASSUME TypeOK, PlacesAgree, TasksDisjoint, NEW t \in Threads, TaskReturns(t)
  PROVE  /\ TasksDisjoint'
         /\ task[t] \in Tasks \ done
<1>1. /\ done' = done \cup {task[t]} /\ task' = [task EXCEPT ![t] = NoTask]
      /\ pc' = [pc EXCEPT ![t] = IF t \in Workers THEN "check" ELSE "out"]
      /\ UNCHANGED <<queue_, arg, executed>> /\ pc[t] = "task"
      /\ pc \in [Threads -> Places] /\ task \in [Threads -> Tasks \cup {NoTask}]
  BY DEF TaskReturns, TypeOK, PlacesAgree
<1>2. t \in Executing
  BY <1>1 DEF Executing
<1>3. task[t] # NoTask /\ task[t] \in Tasks /\ task[t] \notin done
  BY <1>1, <1>2 DEF TasksDisjoint, TakenDisjoint
<1>4. \A u \in Threads : /\ task'[u] = IF u = t THEN NoTask ELSE task[u]
                         /\ pc'[u] = "taken" <=> pc[u] = "taken"
  BY <1>1
<1>5. \A u \in Threads : u \in Executing' => u \in Executing /\ u # t
  BY <1>1 DEF Executing, Threads
<1>6. TakenDisjoint' /\ ArgsDisjoint' /\ QueueDisjoint'
  BY <1>1, <1>3, <1>4 DEF TasksDisjoint, TakenDisjoint, ArgsDisjoint, QueueDisjoint, Threads
<1>7. (\A u \in Executing : task[u] # NoTask)'
  BY <1>4, <1>5 DEF TasksDisjoint, Executing, Threads
<1> QED
  BY <1>1, <1>3, <1>6, <1>7 DEF TasksDisjoint, Threads

(* Each task stays in one place.                                           *)
LEMMA TasksStep ==
  ASSUME TypeOK, PlacesAgree, TasksDisjoint, [Next]_batchVars
  PROVE  TasksDisjoint'
<1> USE DEF vars, batchVars
<1>1. ASSUME NEW threads \in SUBSET Workers, Start(threads)
      PROVE  TasksDisjoint'
  <2>1. \A t \in Threads : pc'[t] = pc[t] \/ (pc[t] = "none" /\ pc'[t] = "unborn")
    BY <1>1 DEF Start, PlacesAgree
  <2>2. /\ Executing' \subseteq Executing
        /\ \A t \in Threads : pc'[t] = "taken" <=> pc[t] = "taken"
    BY <2>1 DEF Executing, Threads
  <2> QED
    BY <1>1, <2>2, TasksKept DEF Start
<1>2. ASSUME NEW w \in Workers, StartThread(w)
      PROVE  TasksDisjoint'
  <2>1. /\ Executing' \subseteq Executing
        /\ \A t \in Threads : pc'[t] = "taken" <=> pc[t] = "taken"
    BY <1>2 DEF StartThread, PlacesAgree, Executing, Threads
  <2> QED
    BY <1>2, <2>1, TasksKept DEF StartThread
<1>3. CASE Stop
  <2>1. \A t \in Threads : pc'[t] = IF pc[t] = "notEmpty" THEN "take" ELSE pc[t]
    BY <1>3 DEF Stop, notifyAll
  <2>2. /\ Executing' \subseteq Executing
        /\ \A t \in Threads : pc'[t] = "taken" <=> pc[t] = "taken"
    BY <2>1 DEF Executing, Threads
  <2> QED
    BY <1>3, <2>2, TasksKept DEF Stop
<1>4. ASSUME NEW t \in Threads, CheckRunning(t) \/ SpuriousWakeup(t)
      PROVE  TasksDisjoint'
  <2>1. \A u \in Threads :
          \/ pc'[u] = pc[u]
          \/ pc[u] \in {"check", "notEmpty"} /\ pc'[u] \in {"take", "exited"}
          \/ pc[u] = "notFull" /\ pc'[u] = "run"
    BY <1>4 DEF CheckRunning, SpuriousWakeup, PlacesAgree
  <2>2. /\ Executing' \subseteq Executing
        /\ \A u \in Threads : pc'[u] = "taken" <=> pc[u] = "taken"
    BY <2>1 DEF Executing, Threads
  <2> QED
    BY <1>4, <2>2, TasksKept DEF CheckRunning, SpuriousWakeup
<1>5. CASE Join
  <2>1. /\ Executing' \subseteq Executing
        /\ \A t \in Threads : pc'[t] = "taken" <=> pc[t] = "taken"
    BY <1>5 DEF Join, Executing, Threads
  <2> QED
    BY <1>5, <2>1, TasksKept DEF Join
<1>6. CASE UNCHANGED vars
  <2>1. /\ Executing' \subseteq Executing
        /\ \A t \in Threads : pc'[t] = "taken" <=> pc[t] = "taken"
    BY <1>6 DEF Executing, Threads
  <2> QED
    BY <1>6, <2>1, TasksKept
<1> QED
  BY <1>1, <1>2, <1>3, <1>4, <1>5, <1>6, TasksAfterCallRun, TasksAfterRun,
     TasksAfterTake, TasksAfterBegin, TasksAfterReturn
  DEF Next, PoolSteps, PoolStep, OwnerStep, ThreadStep, TaskCountsDown, LatchSteps

(* The places of the threads and what the owner has done keep agreeing.    *)
LEMMA PlacesStep ==
  ASSUME TypeOK, PlacesAgree, [Next]_batchVars
  PROVE  PlacesAgree'
<1> USE DEF PlacesAgree, vars, batchVars, At
<1>0. /\ "unborn" \in Places /\ "check" \in Places /\ "take" \in Places
      /\ "notEmpty" \in Places /\ "notFull" \in Places /\ "task" \in Places
      /\ "out" \in Places /\ "run" \in Places /\ "exited" \in Places
      /\ "taken" \in Places
  BY DEF Places
<1>1. ASSUME NEW threads \in SUBSET Workers, Start(threads)
      PROVE  PlacesAgree'
  <2>1. pc' \in [Threads -> Places]
    BY <1>0, <1>1 DEF Start
  <2>2. owner' \in {"starting", "running"}
        /\ (owner' = "running" => \A t \in Threads : pc'[t] = pc[t])
    BY <1>1 DEF Start
  <2>3. owner = "new"
    BY <1>1 DEF Start
  <2> QED
    BY <2>1, <2>2, <2>3 DEF Threads
<1>2. ASSUME NEW w \in Workers, StartThread(w)
      PROVE  PlacesAgree'
  <2>1. /\ pc[w] = "unborn" /\ w \in Threads
        /\ pc' = [pc EXCEPT ![w] = "check"]
        /\ owner' = IF At("unborn") = {w} THEN "running" ELSE owner
    BY <1>2 DEF StartThread, Threads
  <2>2. owner = "starting"
    BY <2>1
  <2>3. \A t \in Threads : pc'[t] = IF t = w THEN "check" ELSE pc[t]
    BY <2>1
  <2>4. pc' \in [Threads -> Places]
    BY <1>0, <2>1
  <2> QED
    BY <2>1, <2>2, <2>3, <2>4 DEF Threads
<1>3. CASE Stop
  <2>1. \A t \in Threads : pc'[t] \in {pc[t], "take"}
    BY <1>3 DEF Stop, notifyAll
  <2>2. pc' \in [Threads -> Places]
    BY <1>0, <1>3 DEF Stop, notifyAll
  <2> QED
    BY <1>3, <2>1, <2>2 DEF Stop, Threads
<1>4. CASE Join
  BY <1>4 DEF Join, Threads
<1>5. ASSUME NEW t \in Threads,
             \/ CheckRunning(t) \/ SpuriousWakeup(t) \/ BeginTask(t) \/ TaskReturns(t)
             \/ \E f \in Tasks : CallRun(t, f)
      PROVE  PlacesAgree'
  <2>1. PICK b \in Places : /\ pc' = [pc EXCEPT ![t] = b] /\ b \notin {"unborn", "none"}
                            /\ owner' = owner /\ pc[t] # "none"
    BY <1>0, <1>5 DEF CheckRunning, SpuriousWakeup, BeginTask, TaskReturns, CallRun
  <2>2. \A u \in Threads : pc'[u] = IF u = t THEN b ELSE pc[u]
    BY <2>1
  <2>3. t \in Workers => owner # "new"
    BY <2>1
  <2> QED
    BY <2>1, <2>2, <2>3 DEF Threads
<1>6. ASSUME NEW t \in Threads, Run(t) \/ Take(t)
      PROVE  PlacesAgree'
  <2>1. owner' = owner /\ pc[t] \in {"run", "take"}
    BY <1>6 DEF Run, Take
  <2>2. PICK q \in [Threads -> Places] :
          /\ \A u \in Threads : u # t => q[u] = pc[u]
          /\ q[t] \notin {"unborn", "none"}
          /\ \/ pc' = q
             \/ pc' \in notifyOne(q, "notEmpty", "take")
             \/ pc' \in notifyOne(q, "notFull", "run")
    <3>1. CASE Run(t) /\ isFull
      BY <1>0, <3>1 DEF Run
    <3>2. CASE Run(t) /\ ~isFull
      <4> DEFINE r == [pc EXCEPT ![t] = IF t \in Workers THEN "task" ELSE "out"]
      <4>1. r \in [Threads -> Places] /\ pc' \in notifyOne(r, "notEmpty", "take")
        BY <1>0, <3>2 DEF Run, pushWakes
      <4> QED
        BY <4>1
    <3>3. CASE Take(t) /\ queue_ = <<>>
      BY <1>0, <3>3 DEF Take
    <3>4. CASE Take(t) /\ queue_ # <<>>
      <4> DEFINE r == [pc EXCEPT ![t] = "taken"]
      <4>1. r \in [Threads -> Places] /\ (pc' = r \/ pc' \in notifyOne(r, "notFull", "run"))
        BY <1>0, <3>4 DEF Take, waitsToTake, takes
      <4> QED
        BY <4>1
    <3> QED
      BY <1>6, <3>1, <3>2, <3>3, <3>4
  <2>3. /\ pc' \in [Threads -> Places]
        /\ \A u \in Threads : \/ pc'[u] = q[u]
                              \/ q[u] = "notEmpty" /\ pc'[u] = "take"
                              \/ q[u] = "notFull" /\ pc'[u] = "run"
    BY <1>0, <2>2, NotifyOneMoves
  <2>4. t \in Workers => owner # "new"
    BY <2>1
  <2> QED
    BY <2>1, <2>2, <2>3, <2>4 DEF Threads
<1>7. CASE UNCHANGED vars
  BY <1>7 DEF Threads
<1> QED
  BY <1>1, <1>2, <1>3, <1>4, <1>5, <1>6, <1>7
  DEF Next, PoolSteps, PoolStep, OwnerStep, ThreadStep, TaskCountsDown, LatchSteps

(* The steps, one case for each operation.                                 *)
LEMMA StepCases ==
  ASSUME [Next]_batchVars
  PROVE  \/ UNCHANGED vars \/ Join \/ Stop
         \/ \E w \in Workers : StartThread(w)
         \/ \E threads \in SUBSET Workers : Start(threads)
         \/ \E t \in Threads : \/ Run(t) \/ CheckRunning(t) \/ Take(t) \/ BeginTask(t)
                              \/ SpuriousWakeup(t) \/ TaskReturns(t)
                              \/ \E f \in Tasks : CallRun(t, f)
BY DEF batchVars, Next, PoolSteps, PoolStep, OwnerStep, ThreadStep, TaskCountsDown,
       LatchSteps

(* The places a thread of each kind can be at, in TypeOK.                  *)
PlacesTyped ==
  \A t \in Threads :
    /\ pc[t] \in IF t \in Workers
                 THEN {"none", "unborn", "check", "take", "notEmpty", "taken",
                       "task", "run", "notFull", "exited"}
                 ELSE {"out", "task", "run", "notFull"}
    /\ arg[t] # NoTask <=> pc[t] \in {"run", "notFull"}

OwnerTyped ==
  /\ owner \in {"new", "starting", "running", "joining", "stopped"}
  /\ running_ <=> owner \in {"starting", "running"}
  /\ maxQueueSize_ \in MaxSizes

TasksTyped ==
  /\ queue_ \in Seq(Tasks) /\ executed \in Seq(Tasks)
  /\ arg \in [Threads -> Tasks \cup {NoTask}]
  /\ task \in [Threads -> Tasks \cup {NoTask}]
  /\ done \subseteq ToSet(executed)

(* The places of the threads stay well typed.                              *)
LEMMA PlacesTypedStep ==
  ASSUME TypeOK, PlacesAgree, [Next]_batchVars
  PROVE  PlacesTyped'
<1> USE DEF vars, batchVars
<1>0. PlacesTyped /\ pc \in [Threads -> Places] /\ arg \in [Threads -> Tasks \cup {NoTask}]
  BY DEF TypeOK, PlacesTyped, PlacesAgree
<1>1. ASSUME NEW threads \in SUBSET Workers, Start(threads)
      PROVE  PlacesTyped'
  BY <1>0, <1>1 DEF Start, PlacesTyped, Threads, PlacesAgree
<1>2. ASSUME NEW w \in Workers, StartThread(w)
      PROVE  PlacesTyped'
  BY <1>0, <1>2 DEF StartThread, PlacesTyped, Threads
<1>3. CASE Stop
  <2>1. /\ \A t \in Threads : pc'[t] = IF pc[t] = "notEmpty" THEN "take" ELSE pc[t]
        /\ arg' = arg
    BY <1>3 DEF Stop, notifyAll
  <2> QED
    BY <1>0, <2>1 DEF PlacesTyped, Threads
<1>4. CASE Join
  BY <1>0, <1>4 DEF Join, PlacesTyped, Threads
<1>5. ASSUME NEW t \in Threads, \/ CheckRunning(t) \/ SpuriousWakeup(t)
                                \/ BeginTask(t) \/ TaskReturns(t)
      PROVE  PlacesTyped'
  BY <1>0, <1>5
  DEF CheckRunning, SpuriousWakeup, BeginTask, TaskReturns, PlacesTyped, Threads
<1>6. ASSUME NEW t \in Threads, NEW f \in Tasks, CallRun(t, f)
      PROVE  PlacesTyped'
  <2>1. /\ pc[t] \in {"out", "task"} /\ (t \in Workers => threads_ # {})
        /\ f # NoTask
    BY <1>0, <1>6, PoolAssumption DEF CallRun, PlacesTyped, threads_
  <2> QED
    BY <1>0, <1>6, <2>1 DEF CallRun, PlacesTyped, Threads
<1>7. ASSUME NEW t \in Threads, Run(t)
      PROVE  PlacesTyped'
  <2>1. CASE isFull
    BY <1>0, <1>7, <2>1 DEF Run, PlacesTyped, Threads
  <2>2. CASE ~isFull
    <3> DEFINE q == [pc EXCEPT ![t] = IF t \in Workers THEN "task" ELSE "out"]
    <3>1. /\ pc' \in notifyOne(q, "notEmpty", "take")
          /\ arg' = [arg EXCEPT ![t] = NoTask] /\ q \in [Threads -> Places]
      BY <1>0, <1>7, <2>2 DEF Run, pushWakes, Places
    <3>2. \A u \in Threads :
            /\ q[u] = IF u # t THEN pc[u] ELSE IF t \in Workers THEN "task" ELSE "out"
            /\ arg'[u] = IF u = t THEN NoTask ELSE arg[u]
      BY <1>0, <3>1
    <3> HIDE DEF q
    <3>3. \A u \in Threads : pc'[u] = q[u] \/ (q[u] = "notEmpty" /\ pc'[u] = "take")
      BY <3>1, NotifyOneMoves DEF Places
    <3> QED
      BY <1>0, <3>2, <3>3 DEF PlacesTyped, Threads
  <2> QED
    BY <2>1, <2>2
<1>8. ASSUME NEW w \in Threads, Take(w)
      PROVE  PlacesTyped'
  <2>0. pc[w] = "take" /\ arg' = arg
    BY <1>8 DEF Take
  <2>1. w \in Workers
    BY <1>0, <2>0 DEF PlacesTyped
  <2>2. CASE queue_ = <<>>
    BY <1>0, <1>8, <2>1, <2>2 DEF Take, PlacesTyped, Threads
  <2>3. CASE queue_ # <<>>
    <3> DEFINE p == [pc EXCEPT ![w] = "taken"]
    <3>1. /\ pc' = p \/ pc' \in notifyOne(p, "notFull", "run")
          /\ p \in [Threads -> Places]
      BY <1>0, <1>8, <2>3 DEF Take, waitsToTake, takes, Places
    <3>2. \A u \in Threads : p[u] = IF u # w THEN pc[u] ELSE "taken"
      BY <1>0
    <3> HIDE DEF p
    <3>3. \A u \in Threads : pc'[u] = p[u] \/ (p[u] = "notFull" /\ pc'[u] = "run")
      BY <3>1, NotifyOneMoves DEF Places
    <3> QED
      BY <1>0, <2>0, <2>1, <3>2, <3>3 DEF PlacesTyped, Threads
  <2> QED
    BY <2>2, <2>3
<1>9. CASE UNCHANGED vars
  BY <1>0, <1>9 DEF PlacesTyped, Threads
<1> QED
  BY <1>1, <1>2, <1>3, <1>4, <1>5, <1>6, <1>7, <1>8, <1>9
  DEF Next, PoolSteps, PoolStep, OwnerStep, ThreadStep, TaskCountsDown, LatchSteps

(* The types are kept.                                                     *)
LEMMA TypesStep ==
  ASSUME TypeOK, PlacesAgree, TasksDisjoint, [Next]_batchVars
  PROVE  TypeOK'
<1> USE DEF vars, batchVars
<1>0. PlacesTyped'
  BY PlacesTypedStep
<1>1. TasksTyped'
  <2> USE DEF TasksTyped
  <2>0. TasksTyped /\ Threads' = Threads
    BY DEF TypeOK, Threads
  <2>1. ASSUME NEW t \in Threads, NEW f \in Tasks, CallRun(t, f)
        PROVE  TasksTyped'
    <3>1. /\ UNCHANGED <<queue_, done>>
          /\ \/ executed' = Append(executed, f) /\ task' = [task EXCEPT ![t] = f]
                /\ arg' = arg
             \/ executed' = executed /\ task' = task /\ arg' = [arg EXCEPT ![t] = f]
      BY <2>1 DEF CallRun
    <3>2. /\ Append(executed, f) \in Seq(Tasks)
          /\ ToSet(Append(executed, f)) = ToSet(executed) \cup {f}
      BY <2>0, ToSetAppend
    <3>3. queue_' \in Seq(Tasks)
      BY <2>0, <3>1
    <3>4. arg' \in [Threads -> Tasks \cup {NoTask}]
      BY <2>0, <3>1
    <3>5. task' \in [Threads -> Tasks \cup {NoTask}]
      BY <2>0, <3>1
    <3> QED
      BY <2>0, <3>1, <3>2, <3>3, <3>4, <3>5
  <2>2. ASSUME NEW t \in Threads, Run(t)
        PROVE  TasksTyped'
    <3>1. arg[t] \in Tasks
      BY <2>2 DEF Run, TypeOK
    <3>2. /\ UNCHANGED <<task, executed, done>>
          /\ \/ UNCHANGED <<queue_, arg>>
             \/ /\ queue_' = Append(queue_, arg[t])
                /\ arg' = [arg EXCEPT ![t] = NoTask]
      BY <2>2 DEF Run
    <3>3. /\ Append(queue_, arg[t]) \in Seq(Tasks)
          /\ [arg EXCEPT ![t] = NoTask] \in [Threads -> Tasks \cup {NoTask}]
      BY <2>0, <3>1
    <3> QED
      BY <2>0, <3>2, <3>3
  <2>3. ASSUME NEW w \in Threads, Take(w)
        PROVE  TasksTyped'
    <3>1. CASE queue_ = <<>>
      BY <2>0, <2>3, <3>1 DEF Take
    <3>2. CASE queue_ # <<>>
      <4>1. Head(queue_) \in Tasks /\ Tail(queue_) \in Seq(Tasks)
        BY <3>2, ToSetTail DEF TypeOK
      <4> QED
        BY <2>0, <2>3, <3>2, <4>1 DEF Take, waitsToTake, takes
    <3> QED
      BY <3>1, <3>2
  <2>4. ASSUME NEW t \in Threads, TaskReturns(t)
        PROVE  TasksTyped'
    <3>1. task[t] \in ToSet(executed)
      BY <2>4 DEF TaskReturns, TasksDisjoint, TakenDisjoint, Executing
    <3> QED
      BY <2>0, <2>4, <3>1 DEF TaskReturns
  <2>5. ASSUME UNCHANGED <<queue_, executed, arg, task, done>>
        PROVE  TasksTyped'
    BY <2>0, <2>5
  <2>6. ASSUME \/ UNCHANGED vars \/ Join \/ Stop
               \/ \E w \in Workers : StartThread(w)
               \/ \E threads \in SUBSET Workers : Start(threads)
               \/ \E t \in Threads : CheckRunning(t) \/ SpuriousWakeup(t)
        PROVE  TasksTyped'
    BY <2>5, <2>6 DEF Start, StartThread, Stop, Join, CheckRunning, SpuriousWakeup
  <2>7. ASSUME NEW w \in Threads, BeginTask(w)
        PROVE  TasksTyped'
    <3>1. task[w] \in Tasks
      BY <2>7, TasksAfterBegin
    <3>2. /\ Append(executed, task[w]) \in Seq(Tasks)
          /\ ToSet(Append(executed, task[w])) = ToSet(executed) \cup {task[w]}
      BY <2>0, <3>1, ToSetAppend
    <3> QED
      BY <2>0, <2>7, <3>2 DEF BeginTask
  <2> HIDE DEF vars, batchVars, TasksTyped
  <2> QED
    BY <2>1, <2>2, <2>3, <2>4, <2>6, <2>7, StepCases
<1>2. OwnerTyped'
  <2> USE DEF OwnerTyped
  <2>1. ASSUME NEW w \in Workers, StartThread(w)
        PROVE  owner = "starting"
    BY <2>1 DEF StartThread, PlacesAgree, At, Threads
  <2>2. ASSUME UNCHANGED <<owner, running_, maxQueueSize_>>
        PROVE  OwnerTyped'
    BY <2>2 DEF TypeOK
  <2>3. ASSUME \/ Join \/ Stop \/ \E w \in Workers : StartThread(w)
               \/ \E threads \in SUBSET Workers : Start(threads)
        PROVE  OwnerTyped'
    BY <2>1, <2>3 DEF TypeOK, StartThread, Join, Stop, Start
  <2>4. ASSUME NEW t \in Threads,
               \/ Run(t) \/ CheckRunning(t) \/ Take(t) \/ SpuriousWakeup(t)
               \/ BeginTask(t) \/ TaskReturns(t) \/ \E f \in Tasks : CallRun(t, f)
        PROVE  OwnerTyped'
    BY <2>2, <2>4
    DEF CallRun, Run, Take, BeginTask, TaskReturns, CheckRunning, SpuriousWakeup
  <2>5. CASE UNCHANGED vars
    BY <2>5 DEF TypeOK
  <2> HIDE DEF vars, batchVars, OwnerTyped
  <2> QED
    BY <2>3, <2>4, <2>5, StepCases
<1> QED
  BY <1>0, <1>1, <1>2 DEF TypeOK, PlacesTyped, OwnerTyped, TasksTyped

-----------------------------------------------------------------------------
(***************************************************************************)
(* The latch, and the theorems.                                            *)
(***************************************************************************)

(* The tasks that are done can be counted, and are all when as many as     *)
(* all.                                                                    *)
LEMMA DoneIsFinite ==
  ASSUME TypeOK
  PROVE  /\ done \in SUBSET Tasks /\ IsFiniteSet(done)
         /\ Cardinality(done) \in Nat /\ Cardinality(Tasks) \in Nat
         /\ Cardinality(done) = Cardinality(Tasks) => done = Tasks
         /\ Cardinality(done) <= Cardinality(Tasks)
<1>1. done \in SUBSET Tasks
  BY DEF TypeOK, ToSet
<1> QED
  BY <1>1, BatchAssumption, FS_Subset, FS_CardinalityType

(* The latch counts down once for each task that returns.                  *)
LEMMA LatchStepKeeps ==
  ASSUME TypeOK, PlacesAgree, TasksDisjoint, Latch!LatchTypeOK, LatchCounts,
         [Next]_batchVars
  PROVE  Latch!LatchTypeOK' /\ LatchCounts'
<1> USE DEF Latch!LatchTypeOK, LatchCounts
<1>1. ASSUME NEW t \in Threads, TaskCountsDown(t)
      PROVE  Latch!LatchTypeOK' /\ LatchCounts'
  <2>1. /\ task[t] \in Tasks \ done /\ done' = done \cup {task[t]}
        /\ count_' = count_ - 1
    BY <1>1, TasksAfterReturn DEF TaskCountsDown, TaskReturns, Latch!CountDown
  <2>2. Cardinality(done') = Cardinality(done) + 1
    BY <2>1, DoneIsFinite, FS_AddElement
  <2>3. /\ waiterPc' \in [Waiters -> {"wait", "condition", "returned"}]
        /\ \A w \in Waiters : waiterPc'[w] = "returned" => waiterPc[w] = "returned"
    BY <1>1 DEF TaskCountsDown, Latch!CountDown
  <2> QED
    BY <2>1, <2>2, <2>3, DoneIsFinite
<1>2. CASE LatchSteps
  <2>1. UNCHANGED <<done, count_>>
    BY <1>2 DEF LatchSteps, vars, Latch!LatchStep, Latch!Wait, Latch!SpuriousWakeup
  <2>2. PICK w \in Waiters : Latch!Wait(w) \/ Latch!SpuriousWakeup(w)
    BY <1>2 DEF LatchSteps, Latch!LatchStep
  <2>3. /\ waiterPc' \in [Waiters -> {"wait", "condition", "returned"}]
        /\ \A v \in Waiters : waiterPc'[v] = "returned" =>
                                waiterPc[v] = "returned" \/ count_ <= 0
    BY <2>2 DEF Latch!Wait, Latch!SpuriousWakeup, Latch!Open
  <2> QED
    BY <2>1, <2>3
<1>3. CASE PoolSteps \/ UNCHANGED batchVars
  <2>1. UNCHANGED <<done, count_, waiterPc>>
    BY <1>3
    DEF PoolSteps, PoolStep, OwnerStep, ThreadStep, batchVars, vars, Join, StartThread,
        Stop, Start, Run, CheckRunning, Take, BeginTask, SpuriousWakeup, CallRun
  <2> QED
    BY <2>1
<1> QED
  BY <1>1, <1>2, <1>3 DEF Next

(* The invariant of the batch holds at first.                              *)
LEMMA InitHolds ==
  ASSUME BatchInit
  PROVE  BatchInv
<1> USE DEF BatchInit, Init, Latch!Init
<1>1. \A t \in Threads : pc[t] = IF t \in Workers THEN "none" ELSE "out"
  OBVIOUS
<1>2. ToSet(<<>>) = {}
  BY DEF ToSet
<1>3. TypeOK
  <2>1. OwnerTyped
    BY DEF OwnerTyped
  <2>2. TasksTyped
    BY DEF TasksTyped
  <2>3. PlacesTyped
    BY <1>1 DEF PlacesTyped
  <2> QED
    BY <2>1, <2>2, <2>3 DEF TypeOK, OwnerTyped, TasksTyped, PlacesTyped
<1>4. PlacesAgree
  <2>1. pc \in [Threads -> Places]
    BY DEF Places
  <2> QED
    BY <1>1, <2>1 DEF PlacesAgree, At, Threads
<1>5. NoLostNotify
  BY <1>1, PoolAssumption DEF NoLostNotify, At
<1>6. TasksDisjoint
  BY <1>1, <1>2
  DEF TasksDisjoint, ArgsDisjoint, QueueDisjoint, TakenDisjoint, Executing
<1>7. Latch!LatchTypeOK /\ LatchCounts
  BY <1>3, DoneIsFinite, FS_EmptySet DEF Latch!LatchTypeOK, LatchCounts
<1> QED
  BY <1>3, <1>4, <1>5, <1>6, <1>7 DEF BatchInv, NotifiesSuffice

(* The inductive invariant.                                                *)
THEOREM BatchInvariant == Spec => []BatchInv
<1>1. BatchInv /\ [Next]_batchVars => BatchInv'
  BY TypesStep, PlacesStep, NotifiesStep, TasksStep, LatchStepKeeps
  DEF BatchInv, NotifiesSuffice
<1> QED
  BY <1>1, InitHolds, PTL DEF Spec

(* run and take call notify_one, and no wake-up is lost, whoever sleeps,   *)
(* wakes up by itself or comes in between.                                 *)
THEOREM NotifyOneSuffices == Spec => []NotifiesSuffice
BY BatchInvariant, PTL DEF BatchInv

(* CountDownLatch::wait returns to nobody before every task of the batch   *)
(* has returned: the safety half of LatchOpens.                            *)
THEOREM LatchNeverOpensEarly ==
  Spec => [](\A w \in Waiters : waiterPc[w] = "returned" => done = Tasks)
<1>1. BatchInv => \A w \in Waiters : waiterPc[w] = "returned" => done = Tasks
  BY DoneIsFinite DEF BatchInv, NotifiesSuffice, LatchCounts
<1> QED
  BY <1>1, BatchInvariant, PTL

(* The elements of a sequence, in the words of both modules.               *)
LEMMA ElementsIsToSet ==
  ASSUME NEW S, NEW s \in Seq(S)
  PROVE  TQ!Elements(s) = ToSet(s)
BY DEF TQ!Elements, ToSet

(* What each worker has taken and not begun, in TaskQueue.                 *)
TakenBy(p, held) == [w \in Workers |-> IF p[w] = "taken" THEN held[w] ELSE NoTask]

(* A step that begins and takes nothing leaves what is taken.              *)
LEMMA TakenKept ==
  ASSUME \A w \in Workers : pc'[w] = "taken" <=> pc[w] = "taken",
         \A w \in Workers : pc[w] = "taken" => task'[w] = task[w]
  PROVE  TakenBy(pc', task') = TakenBy(pc, task)
BY DEF TakenBy

(* Every step is a step of the abstract queue of tasks, or none.           *)
LEMMA TaskQueueStep ==
  ASSUME TypeOK, PlacesAgree, TasksDisjoint, [Next]_batchVars
  PROVE  [TQ!Next]_(TQ!tqVars)
<1> DEFINE taken == TakenBy(pc, task)
<1>0. /\ queue_ \in Seq(Tasks) /\ executed \in Seq(Tasks)
      /\ TQ!Elements(queue_) = ToSet(queue_) /\ TQ!Elements(executed) = ToSet(executed)
      /\ pc \in [Threads -> Places] /\ \A w \in Workers : w \in Threads
      /\ task \in [Threads -> Tasks \cup {NoTask}]
  BY ElementsIsToSet DEF TypeOK, PlacesAgree, Threads
<1>1. ASSUME NEW t \in Threads, NEW f \in Tasks, CallRun(t, f)
      PROVE  TQ!BeginDirectly(f) \/ UNCHANGED TQ!tqVars
  <2>1. /\ TakenBy(pc', task') = taken /\ queue_' = queue_
        /\ executed' = executed \/ executed' = Append(executed, f)
    <3>1. /\ pc[t] # "taken" /\ pc'[t] # "taken"
          /\ \A w \in Workers : w # t => pc'[w] = pc[w] /\ task'[w] = task[w]
          /\ executed' = executed \/ executed' = Append(executed, f)
          /\ queue_' = queue_
      BY <1>0, <1>1 DEF CallRun
    <3> QED
      BY <3>1, TakenKept
  <2>2. f \notin ToSet(queue_) \cup ToSet(executed) \cup {taken[w] : w \in Workers}
    BY <1>0, <1>1, PoolAssumption DEF CallRun, Known, TakenBy
  <2> QED
    BY <1>0, <2>1, <2>2 DEF TQ!BeginDirectly, TQ!Fresh, TQ!tqVars, TakenBy
<1>2. ASSUME NEW t \in Threads, Run(t)
      PROVE  (\E f \in Tasks : TQ!Submit(f)) \/ UNCHANGED TQ!tqVars
  <2>1. /\ arg[t] \in Tasks /\ arg[t] # NoTask
        /\ arg[t] \notin ToSet(queue_) \cup ToSet(executed)
        /\ \A u \in Threads : task[u] # arg[t]
    BY <1>2, PoolAssumption DEF Run, TypeOK, TasksDisjoint, ArgsDisjoint
  <2>2. /\ TakenBy(pc', task') = taken /\ executed' = executed
        /\ queue_' = queue_ \/ queue_' = Append(queue_, arg[t])
    <3>1. \A w \in Workers : pc'[w] = "taken" <=> pc[w] = "taken"
      <4>1. CASE isFull
        BY <1>0, <1>2, <4>1 DEF Run
      <4>2. CASE ~isFull
        <5> DEFINE q == [pc EXCEPT ![t] = IF t \in Workers THEN "task" ELSE "out"]
        <5>1. q \in [Threads -> Places] /\ pc' \in notifyOne(q, "notEmpty", "take")
          BY <1>0, <1>2, <4>2 DEF Run, pushWakes, Places
        <5>2. \A w \in Workers : q[w] = "taken" <=> pc[w] = "taken"
          BY <1>0, <1>2 DEF Run
        <5> HIDE DEF q
        <5>3. \A u \in Threads : pc'[u] = q[u] \/ (q[u] = "notEmpty" /\ pc'[u] = "take")
          BY <5>1, NotifyOneMoves DEF Places
        <5> QED
          BY <1>0, <5>2, <5>3
      <4> QED
        BY <4>1, <4>2
    <3> QED
      BY <1>2, <3>1, TakenKept DEF Run
  <2>3. arg[t] \notin {taken[w] : w \in Workers}
    BY <1>0, <2>1 DEF TakenBy
  <2>4. TQ!Submit(arg[t]) \/ UNCHANGED TQ!tqVars
    BY <1>0, <2>1, <2>2, <2>3 DEF TQ!Submit, TQ!Fresh, TQ!tqVars, TakenBy
  <2> QED
    BY <2>1, <2>4
<1>3. ASSUME NEW w \in Threads, Take(w)
      PROVE  (\E v \in Workers : TQ!TakeHead(v)) \/ UNCHANGED TQ!tqVars
  <2>1. w \in Workers /\ pc[w] = "take" /\ executed' = executed
    BY <1>3 DEF Take, TypeOK
  <2>2. CASE queue_ = <<>>
    <3>1. \A v \in Workers : pc'[v] = "taken" <=> pc[v] = "taken"
      BY <1>0, <1>3, <2>2 DEF Take
    <3> QED
      BY <1>3, <2>1, <2>2, <3>1, TakenKept DEF Take, TQ!tqVars, TakenBy
  <2>3. CASE queue_ # <<>>
    <3> DEFINE p == [pc EXCEPT ![w] = "taken"]
    <3>1. /\ task' = [task EXCEPT ![w] = Head(queue_)] /\ queue_' = Tail(queue_)
          /\ pc' = p \/ pc' \in notifyOne(p, "notFull", "run")
          /\ p \in [Threads -> Places]
      BY <1>0, <1>3, <2>3 DEF Take, waitsToTake, takes, Places
    <3>2. \A v \in Workers : p[v] = IF v = w THEN "taken" ELSE pc[v]
      BY <1>0
    <3> HIDE DEF p
    <3>3. \A u \in Threads : pc'[u] = p[u] \/ (p[u] = "notFull" /\ pc'[u] = "run")
      BY <3>1, NotifyOneMoves DEF Places
    <3>4. TakenBy(pc', task') = [taken EXCEPT ![w] = Head(queue_)]
      BY <1>0, <2>1, <3>1, <3>2, <3>3 DEF TakenBy
    <3>5. taken[w] = NoTask
      BY <2>1 DEF TakenBy
    <3> QED
      BY <2>1, <2>3, <3>1, <3>4, <3>5 DEF TQ!TakeHead, TakenBy
  <2> QED
    BY <2>2, <2>3
<1>4. ASSUME NEW w \in Threads, BeginTask(w)
      PROVE  \E v \in Workers : TQ!Begin(v)
  <2>1. /\ w \in Workers /\ pc[w] = "taken" /\ UNCHANGED <<queue_, task>>
        /\ pc' = [pc EXCEPT ![w] = "task"] /\ executed' = Append(executed, task[w])
    BY <1>4 DEF BeginTask, TypeOK
  <2>2. task[w] # NoTask
    BY <1>4, TasksAfterBegin, PoolAssumption
  <2>3. TakenBy(pc', task') = [taken EXCEPT ![w] = NoTask]
    BY <1>0, <2>1 DEF TakenBy
  <2>4. taken[w] = task[w]
    BY <2>1 DEF TakenBy
  <2> QED
    BY <2>1, <2>2, <2>3, <2>4 DEF TQ!Begin, TakenBy
<1>5. ASSUME NEW t \in Threads, CheckRunning(t) \/ SpuriousWakeup(t) \/ TaskReturns(t)
      PROVE  UNCHANGED TQ!tqVars
  <2>1. /\ \A w \in Workers : pc'[w] = "taken" <=> pc[w] = "taken"
        /\ \A w \in Workers : pc[w] = "taken" => task'[w] = task[w]
        /\ UNCHANGED <<queue_, executed>>
    BY <1>0, <1>5 DEF CheckRunning, SpuriousWakeup, TaskReturns
  <2> QED
    BY <2>1, TakenKept DEF TQ!tqVars, TakenBy
<1>6. ASSUME \/ UNCHANGED vars \/ Join \/ Stop
             \/ \E w \in Workers : StartThread(w)
             \/ \E threads \in SUBSET Workers : Start(threads)
      PROVE  UNCHANGED TQ!tqVars
  <2>1. /\ \A w \in Workers : pc'[w] = "taken" <=> pc[w] = "taken"
        /\ UNCHANGED <<queue_, executed, task>>
    <3>1. CASE Stop
      BY <1>0, <3>1 DEF Stop, notifyAll
    <3>2. ASSUME NEW threads \in SUBSET Workers, Start(threads)
          PROVE  /\ \A w \in Workers : pc'[w] = "taken" <=> pc[w] = "taken"
                 /\ UNCHANGED <<queue_, executed, task>>
      BY <1>0, <3>2 DEF Start, PlacesAgree
    <3>3. ASSUME NEW v \in Workers, StartThread(v)
          PROVE  /\ \A w \in Workers : pc'[w] = "taken" <=> pc[w] = "taken"
                 /\ UNCHANGED <<queue_, executed, task>>
      BY <1>0, <3>3 DEF StartThread
    <3> QED
      BY <1>6, <3>1, <3>2, <3>3 DEF vars, Join, Stop, Start, StartThread
  <2> QED
    BY <2>1, TakenKept DEF TQ!tqVars, TakenBy
<1> QED
  BY <1>1, <1>2, <1>3, <1>4, <1>5, <1>6, StepCases DEF TQ!Next

(* Tasks are taken in the order in which run queued them, and each is      *)
(* begun once, by the worker that took it: the pool implements the queue   *)
(* of tasks.                                                               *)
THEOREM PoolImplementsTaskQueue == Spec => ImplementsTaskQueue
<1>1. BatchInit => TQ!Init
  BY DEF BatchInit, Init, TQ!Init, Threads
<1>2. BatchInv /\ [Next]_batchVars => [TQ!Next]_(TQ!tqVars)
  BY TaskQueueStep DEF BatchInv, NotifiesSuffice
<1> QED
  BY <1>1, <1>2, BatchInvariant, PTL DEF Spec, TQ!Spec, ImplementsTaskQueue

=============================================================================
