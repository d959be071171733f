----------------------------- MODULE ThreadPool -----------------------------
(***************************************************************************)
(* ouge::ThreadPool (base/ThreadPool.cc): workers that take tasks from a   *)
(* bounded queue, threads that hand tasks over with run, and an owner that *)
(* starts and stops the pool.                                              *)
(*                                                                         *)
(* A critical section of mutex_ is one step.  Waiting on a condition       *)
(* variable is two: the thread enters the wait set (pc = "notEmpty" or     *)
(* "notFull") and, notified or not, comes back to where it locks mutex_    *)
(* and tests the predicate again ("take", "run").  running_ is read        *)
(* outside the mutex by the loop of runInThread ("check"), and a task that *)
(* take has removed from the queue is begun outside it too, after take has *)
(* returned ("taken", then "task").                                        *)
(*                                                                         *)
(* A task may itself call run.  setMaxQueueSize is declared but has no     *)
(* definition: MaxSizes holds the constructor's 0 and what it would set.   *)
(***************************************************************************)
EXTENDS SequencesExt, Integers

CONSTANTS
  Workers,      \* the threads the pool may create
  Producers,    \* threads that call run
  Tasks, NoTask,
  MaxSizes,     \* values of maxQueueSize_
  NestedSizes   \* those of them with which tasks call run

ASSUME PoolAssumption ==
  /\ MaxSizes \subseteq Nat /\ NestedSizes \subseteq MaxSizes
  /\ NoTask \notin Tasks /\ Workers \cap Producers = {}
  /\ IsFiniteSet(Workers) /\ IsFiniteSet(Producers)

VARIABLES
  owner,          \* "new", "starting", "running", "joining" or "stopped"
  running_, maxQueueSize_,
  queue_,
  pc,             \* place of each thread; a worker is "none" unless the pool
                  \* has or will have it, and "unborn" until it is created
  arg,            \* the task each thread is handing to run
  task,           \* the task each thread has taken or is executing
  executed,       \* history: tasks in the order in which they were begun
  done            \* tasks that have returned

vars == <<owner, running_, maxQueueSize_, queue_, pc, arg, task, executed, done>>

Threads == Workers \cup Producers
threads_ == {w \in Workers : pc[w] \notin {"none", "unborn"}}
At(place) == {t \in Threads : pc[t] = place}
Known ==
  ToSet(queue_) \cup ToSet(executed) \cup {arg[t] : t \in Threads} \cup {task[t] : t \in Threads}

Init ==
  /\ owner = "new" /\ running_ = FALSE
  /\ maxQueueSize_ \in MaxSizes
  /\ queue_ = <<>> /\ executed = <<>> /\ done = {}
  /\ pc = [t \in Threads |-> IF t \in Workers THEN "none" ELSE "out"]
  /\ arg = [t \in Threads |-> NoTask]
  /\ task = [t \in Threads |-> NoTask]

isFull == maxQueueSize_ > 0 /\ Len(queue_) >= maxQueueSize_

(* What notify_one may make of the places p: one sleeper in the wait set,  *)
(* if there is any, goes on to test its predicate again.                   *)
notifyOne(p, waitSet, next) ==
  LET asleep == {t \in Threads : p[t] = waitSet} IN
  IF asleep = {} THEN {p} ELSE {[p EXCEPT ![t] = next] : t \in asleep}

notifyAll(waitSet, next) ==
  [t \in Threads |-> IF pc[t] = waitSet THEN next ELSE pc[t]]

-----------------------------------------------------------------------------
(***************************************************************************)
(* run, in a producer or in a worker whose task calls it.                  *)
(***************************************************************************)

(* run up to the lock.  A pool without threads executes the task on the    *)
(* spot.  Nothing protects threads_ while start fills it.                  *)
CallRun(t, f) ==
  /\ owner # "starting" /\ f \notin Known
  /\ \/ pc[t] = "out"
     \/ pc[t] = "task" /\ t \in Workers /\ maxQueueSize_ \in NestedSizes
  /\ IF threads_ = {}
     THEN /\ pc' = [pc EXCEPT ![t] = "task"]
          /\ task' = [task EXCEPT ![t] = f]
          /\ executed' = Append(executed, f)
          /\ UNCHANGED arg
     ELSE /\ pc' = [pc EXCEPT ![t] = "run"]
          /\ arg' = [arg EXCEPT ![t] = f]
          /\ UNCHANGED <<task, executed>>
  /\ UNCHANGED <<owner, running_, maxQueueSize_, queue_, done>>

pushWakesIfEmpty(p) ==
  IF queue_ = <<>> THEN notifyOne(p, "notEmpty", "take") ELSE {p}

(* Every task that is queued wakes a worker, p being the places before. *)
pushWakes(p) == notifyOne(p, "notEmpty", "take")

(* The critical section of run. *)
Run(t) ==
  /\ pc[t] = "run"
  /\ IF isFull
     THEN /\ pc' = [pc EXCEPT ![t] = "notFull"]
          /\ UNCHANGED <<queue_, arg>>
     ELSE /\ queue_' = Append(queue_, arg[t])
          /\ arg' = [arg EXCEPT ![t] = NoTask]
          /\ pc' \in pushWakes([pc EXCEPT ![t] = IF t \in Workers THEN "task" ELSE "out"])
  /\ UNCHANGED <<owner, running_, maxQueueSize_, task, executed, done>>

SpuriousWakeup(t) ==
  /\ pc[t] \in {"notEmpty", "notFull"}
  /\ pc' = [pc EXCEPT ![t] = IF @ = "notEmpty" THEN "take" ELSE "run"]
  /\ UNCHANGED <<owner, running_, maxQueueSize_, queue_, arg, task, executed, done>>

-----------------------------------------------------------------------------
(***************************************************************************)
(* runInThread: test running_, take a task, execute it.                    *)
(***************************************************************************)

CheckRunning(w) ==
  /\ pc[w] = "check"
  /\ pc' = [pc EXCEPT ![w] = IF running_ THEN "take" ELSE "exited"]
  /\ UNCHANGED <<owner, running_, maxQueueSize_, queue_, arg, task, executed, done>>

takesNewest(w, p) ==
  /\ task' = [task EXCEPT ![w] = Last(queue_)] /\ queue_' = Front(queue_)
  /\ pc' \in notifyOne(p, "notFull", "run")

(* take's removal of a task, p being the places if nobody is notified. *)
takes(w, p) ==
  /\ task' = [task EXCEPT ![w] = Head(queue_)] /\ queue_' = Tail(queue_)
  /\ pc' \in IF maxQueueSize_ > 0 THEN notifyOne(p, "notFull", "run") ELSE {p}

(* The wait of take goes on. *)
waitsToTake == queue_ = <<>> /\ running_

Take(w) ==
  /\ pc[w] = "take"
  /\ IF waitsToTake
     THEN pc' = [pc EXCEPT ![w] = "notEmpty"] /\ UNCHANGED <<queue_, task>>
     ELSE IF queue_ = <<>>
     THEN pc' = [pc EXCEPT ![w] = "check"] /\ UNCHANGED <<queue_, task>>
     ELSE takes(w, [pc EXCEPT ![w] = "taken"])
  /\ UNCHANGED <<owner, running_, maxQueueSize_, arg, executed, done>>

dropIfStopped(w) ==
  /\ pc[w] = "taken"
  /\ IF running_
     THEN pc' = [pc EXCEPT ![w] = "task"] /\ executed' = Append(executed, task[w])
          /\ UNCHANGED task
     ELSE pc' = [pc EXCEPT ![w] = "check"] /\ task' = [task EXCEPT ![w] = NoTask]
          /\ UNCHANGED executed
  /\ UNCHANGED <<owner, running_, maxQueueSize_, queue_, arg, done>>

(* take has returned, and the worker calls the task, stopped or not. *)
BeginTask(w) ==
  /\ pc[w] = "taken"
  /\ pc' = [pc EXCEPT ![w] = "task"]
  /\ executed' = Append(executed, task[w])
  /\ UNCHANGED <<owner, running_, maxQueueSize_, queue_, arg, task, done>>

TaskReturns(t) ==
  /\ pc[t] = "task"
  /\ done' = done \cup {task[t]}
  /\ task' = [task EXCEPT ![t] = NoTask]
  /\ pc' = [pc EXCEPT ![t] = IF t \in Workers THEN "check" ELSE "out"]
  /\ UNCHANGED <<owner, running_, maxQueueSize_, queue_, arg, executed>>

-----------------------------------------------------------------------------
(***************************************************************************)
(* The owner's start and stop; the destructor of a running pool is stop.   *)
(* A pool is started once: stop leaves threads_, and start asserts that it *)
(* is empty.                                                               *)
(***************************************************************************)

Start(threads) ==
  /\ owner = "new"
  /\ running_' = TRUE
  /\ owner' = IF threads = {} THEN "running" ELSE "starting"
  /\ pc' = [t \in Threads |-> IF t \in threads THEN "unborn" ELSE pc[t]]
  /\ UNCHANGED <<maxQueueSize_, queue_, arg, task, executed, done>>

StartThread(w) ==
  /\ pc[w] = "unborn"
  /\ pc' = [pc EXCEPT ![w] = "check"]
  /\ owner' = IF At("unborn") = {w} THEN "running" ELSE owner
  /\ UNCHANGED <<running_, maxQueueSize_, queue_, arg, task, executed, done>>

StopNotifiesOne ==
  /\ owner = "running"
  /\ owner' = "joining" /\ running_' = FALSE
  /\ pc' \in notifyOne(pc, "notEmpty", "take")
  /\ UNCHANGED <<maxQueueSize_, queue_, arg, task, executed, done>>

Stop ==
  /\ owner = "running"
  /\ owner' = "joining" /\ running_' = FALSE
  /\ pc' = notifyAll("notEmpty", "take")
  /\ UNCHANGED <<maxQueueSize_, queue_, arg, task, executed, done>>

Join ==
  /\ owner = "joining"
  /\ \A w \in threads_ : pc[w] = "exited"
  /\ owner' = "stopped"
  /\ UNCHANGED <<running_, maxQueueSize_, queue_, pc, arg, task, executed, done>>

-----------------------------------------------------------------------------
OwnerStep == Join \/ \E w \in Workers : StartThread(w)
ThreadStep(t) == Run(t) \/ CheckRunning(t) \/ Take(t) \/ BeginTask(t)

(* Every step but the return of a task. *)
PoolStep ==
  \/ OwnerStep \/ Stop
  \/ \E threads \in SUBSET Workers : Start(threads)
  \/ \E t \in Threads :
       \/ ThreadStep(t) \/ SpuriousWakeup(t)
       \/ \E f \in Tasks : CallRun(t, f)

TypeOK ==
  /\ owner \in {"new", "starting", "running", "joining", "stopped"}
  /\ running_ <=> owner \in {"starting", "running"}
  /\ maxQueueSize_ \in MaxSizes
  /\ queue_ \in Seq(Tasks) /\ executed \in Seq(Tasks)
  /\ arg \in [Threads -> Tasks \cup {NoTask}]
  /\ task \in [Threads -> Tasks \cup {NoTask}]
  /\ \A t \in Threads :
       /\ pc[t] \in IF t \in Workers
                    THEN {"none", "unborn", "check", "take", "notEmpty", "taken",
                          "task", "run", "notFull", "exited"}
                    ELSE {"out", "task", "run", "notFull"}
       /\ arg[t] # NoTask <=> pc[t] \in {"run", "notFull"}
  /\ done \subseteq ToSet(executed)

(* No wake-up is lost although run and take call notify_one: while a       *)
(* worker sleeps there are at least as many workers on their way to the    *)
(* lock of take as there are tasks, and while a caller of run sleeps, at   *)
(* least as many callers on their way to the lock of run as free places.   *)
(* There are never fewer than none, whoever was notified, woke up by       *)
(* itself or came in between (base/ThreadPool.cc:71).                      *)
NoLostNotify ==
  /\ maxQueueSize_ > 0 => Len(queue_) <= maxQueueSize_
  /\ At("notEmpty") # {} => /\ running_
                            /\ Len(queue_) <= Cardinality(At("take"))
  /\ At("notFull") # {} => maxQueueSize_ - Len(queue_) <= Cardinality(At("run"))

(* Tasks are taken in the order in which run queued them, and each is begun *)
(* once, by the worker that took it, before that worker takes another;     *)
(* several workers may overtake one another between take and task().       *)
TQ == INSTANCE TaskQueue WITH
  queue <- queue_, begun <- executed,
  taken <- [w \in Workers |-> IF pc[w] = "taken" THEN task[w] ELSE NoTask]
ImplementsTaskQueue == TQ!Spec

=============================================================================
