----------------------------- MODULE TaskQueue -----------------------------
(***************************************************************************)
(* What ThreadPool::run promises its callers, with locks, conditions and   *)
(* stop left out: tasks wait in one queue and are taken from it in the     *)
(* order in which run queued them, each by one worker, which begins it     *)
(* later, outside the lock, and takes no other before it has.  Tasks taken *)
(* by several workers may therefore begin in another order; each begins    *)
(* once.  A pool without threads begins a task on the spot.                *)
(***************************************************************************)
EXTENDS Sequences, Naturals

CONSTANTS Tasks, NoTask, Workers

VARIABLES
  queue,     \* tasks queued and not taken, oldest first
  taken,     \* the task each worker has taken and not begun, or NoTask
  begun      \* every task begun so far, in the order of the beginnings

tqVars == <<queue, taken, begun>>

Elements(s) == {s[i] : i \in 1..Len(s)}

Fresh(f) ==
  f \notin Elements(queue) \cup Elements(begun) \cup {taken[w] : w \in Workers}

Init ==
  /\ queue = <<>>
  /\ taken = [w \in Workers |-> NoTask]
  /\ begun = <<>>

Submit(f) ==
  /\ Fresh(f)
  /\ queue' = Append(queue, f)
  /\ UNCHANGED <<taken, begun>>

TakeHead(w) ==
  /\ queue # <<>> /\ taken[w] = NoTask
  /\ taken' = [taken EXCEPT ![w] = Head(queue)]
  /\ queue' = Tail(queue)
  /\ UNCHANGED begun

Begin(w) ==
  /\ taken[w] # NoTask
  /\ begun' = Append(begun, taken[w])
  /\ taken' = [taken EXCEPT ![w] = NoTask]
  /\ UNCHANGED queue

BeginDirectly(f) ==
  /\ Fresh(f)
  /\ begun' = Append(begun, f)
  /\ UNCHANGED <<queue, taken>>

Next ==
  \/ \E f \in Tasks : Submit(f) \/ BeginDirectly(f)
  \/ \E w \in Workers : TakeHead(w) \/ Begin(w)

Spec == Init /\ [][Next]_tqVars
=============================================================================
