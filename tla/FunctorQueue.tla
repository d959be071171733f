---------------------------- MODULE FunctorQueue ----------------------------
(***************************************************************************)
(* What EventLoop::runInLoop and EventLoop::queueInLoop promise their      *)
(* callers, with threads, locks and wake-ups left out: a functor handed to *)
(* queueInLoop waits in one queue, functors leave the queue in the order   *)
(* they entered it, each is called exactly when it leaves, and a functor   *)
(* is never handed over twice.  A functor given to runInLoop in the loop   *)
(* thread is called on the spot and never enters the queue.                *)
(***************************************************************************)
EXTENDS Sequences, Naturals

CONSTANT Functors

VARIABLES
  queue,     \* functors accepted and not yet called, oldest first
  executed   \* every functor called so far, in the order of the calls

fqVars == <<queue, executed>>

Elements(s) == {s[i] : i \in 1..Len(s)}

Fresh(f) == f \notin Elements(queue) \cup Elements(executed)

Init ==
  /\ queue = <<>>
  /\ executed = <<>>

Submit(f) ==
  /\ Fresh(f)
  /\ queue' = Append(queue, f)
  /\ UNCHANGED executed

CallHead ==
  /\ queue # <<>>
  /\ executed' = Append(executed, Head(queue))
  /\ queue' = Tail(queue)

CallDirectly(f) ==
  /\ Fresh(f)
  /\ executed' = Append(executed, f)
  /\ UNCHANGED queue

Next ==
  \/ \E f \in Functors : Submit(f) \/ CallDirectly(f)
  \/ CallHead

Spec == Init /\ [][Next]_fqVars
=============================================================================
