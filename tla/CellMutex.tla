----------------------------- MODULE CellMutex -----------------------------
(***************************************************************************)
(* The mutex of activecond/src/pthread_mutex.c on the real lists, for the  *)
(* modules that add the other users of a thread's cell to it: ActiveCond   *)
(* and ActiveBarrier.  Coarser than ActiveMutex in one way: what a thread  *)
(* does between the moment a queue's lock serves it and the release of     *)
(* that lock is one step, which ActiveMutex takes apart; finer in another: *)
(* the lists are the heap of SpinQueue.  A thread's cell is the thread.    *)
(***************************************************************************)
EXTENDS SpinQueue, FiniteSets

CONSTANT Mutexes   \* the queues that are mutexes

Threads == Cells
Others == Queues \ Mutexes

ASSUME ThreadsAssumption == IsFiniteSet(Threads)
ASSUME QueuesAssumption == Mutexes \subseteq Queues /\ NULL \notin Mutexes

VARIABLES
  pc,      \* where a thread is: "idle" is in the application
  then,    \* where its current unlock returns to
  mutex,   \* the mutex of its current call
  held,    \* the mutexes it may think it holds
  owned,   \* the flag in the data word of a mutex
  line,    \* the threads that took a ticket of a queue's lock, served in order
  heap     \* the lists

mutexVars == <<pc, then, mutex, held, owned, line, heap>>

MutexLabels == {"idle", "l_take", "l_try", "wait", "u_take", "u_try"}

MutexInit ==
  /\ pc = [t \in Threads |-> "idle"]
  /\ then = [t \in Threads |-> "idle"]
  /\ mutex = [t \in Threads |-> NULL]
  /\ held = [t \in Threads |-> {}]
  /\ owned = [m \in Mutexes |-> 0]
  /\ line = [q \in Queues |-> <<>>]
  /\ heap = ZeroHeap

Goto(t, label) == pc' = [pc EXCEPT ![t] = label]

\* A call forgets its arguments when it returns.
Return(t) ==
  /\ Goto(t, "idle")
  /\ mutex' = [mutex EXCEPT ![t] = NULL]
  /\ then' = [then EXCEPT ![t] = "idle"]

EndUnlock(t) ==
  IF then[t] = "idle" THEN Return(t) ELSE Goto(t, then[t]) /\ UNCHANGED <<then, mutex>>

Served(t, q) == line[q] # <<>> /\ Head(line[q]) = t
Join(t, q) == [line EXCEPT ![q] = Append(@, t)]
Leave(q) == [line EXCEPT ![q] = Tail(@)]

---------------------------------------------------------------------------
\* A thread holds one mutex at most here; ActiveMutex has the nested ones.
FastLock(t, m) ==
  /\ pc[t] = "idle" /\ held[t] = {}
  /\ owned[m] = 0
  /\ owned' = [owned EXCEPT ![m] = 1]
  /\ held' = [held EXCEPT ![t] = {m}]
  /\ UNCHANGED <<pc, then, mutex, line, heap>>

SlowLock(t, m) ==
  /\ pc[t] = "idle" /\ held[t] = {}
  /\ owned[m] = 1
  /\ mutex' = [mutex EXCEPT ![t] = m]
  /\ Goto(t, "l_take")
  /\ UNCHANGED <<then, held, owned, line, heap>>

LockTake(t) ==
  /\ pc[t] = "l_take"
  /\ line' = Join(t, mutex[t])
  /\ Goto(t, "l_try")
  /\ UNCHANGED <<then, mutex, held, owned, heap>>

\* Mutant: the test is a fetch-and-add that a failure does not undo.
LockTryAdds(t) ==
  LET m == mutex[t] IN
  /\ pc[t] = "l_try" /\ Served(t, m)
  /\ owned' = [owned EXCEPT ![m] = @ + 1]
  /\ heap' = IF owned[m] = 0 THEN heap ELSE Enqueue(heap, m, t)
  /\ line' = Leave(m)
  /\ Goto(t, "wait")
  /\ UNCHANGED <<then, mutex, held>>

\* Served: the second compare-and-swap, or the enqueue.
LockTry(t) ==
  LET m == mutex[t] IN
  /\ pc[t] = "l_try" /\ Served(t, m)
  /\ IF owned[m] = 0
     THEN owned' = [owned EXCEPT ![m] = 1] /\ UNCHANGED heap
     ELSE heap' = Enqueue(heap, m, t) /\ UNCHANGED owned
  /\ line' = Leave(m)
  /\ Goto(t, "wait")
  /\ UNCHANGED <<then, mutex, held>>

\* queue_cell_wait(&self), the end of lock and of cond_wait.
Wait(t) ==
  /\ pc[t] = "wait"
  /\ heap.wait[t] = 0
  /\ held' = [held EXCEPT ![t] = {mutex[t]}]
  /\ Return(t)
  /\ UNCHANGED <<owned, line, heap>>

Unlock(t) ==
  /\ pc[t] = "idle"
  /\ \E m \in held[t] :
       /\ mutex' = [mutex EXCEPT ![t] = m]
       /\ line' = Join(t, m)
  /\ held' = [held EXCEPT ![t] = {}]
  /\ Goto(t, "u_try")
  /\ UNCHANGED <<then, owned, heap>>

\* The ticket of the unlock that a wait makes.
UnlockTake(t) ==
  /\ pc[t] = "u_take"
  /\ line' = Join(t, mutex[t])
  /\ Goto(t, "u_try")
  /\ UNCHANGED <<then, mutex, held, owned, heap>>

\* Served: the mutex is free, or goes to the head of its queue.
UnlockTry(t) ==
  LET m == mutex[t]
      c == heap.head[m]
  IN
  /\ pc[t] = "u_try" /\ Served(t, m)
  /\ IF c = NULL
     THEN owned' = [owned EXCEPT ![m] = 0] /\ UNCHANGED heap
     ELSE heap' = Wake(Dequeue(heap, m, c), c) /\ UNCHANGED owned
  /\ line' = Leave(m)
  /\ EndUnlock(t)
  /\ UNCHANGED held

MutexCall(t) == (\E m \in Mutexes : FastLock(t, m) \/ SlowLock(t, m)) \/ Unlock(t)
MutexStep(t) ==
  LockTake(t) \/ LockTry(t) \/ Wait(t) \/ UnlockTake(t) \/ UnlockTry(t)

---------------------------------------------------------------------------
\* Reading the lists.

\* Where the next pointers lead from the head of q; NULL from the end on, or a
\* chain as long as the lists can be.
Follow(q) ==
  LET After(c) == IF c = NULL THEN NULL ELSE heap.next[c]
      At[n \in 1..Cardinality(Threads)] ==
        IF n = 1 THEN heap.head[q] ELSE After(At[n - 1])
  IN At

\* The cells on the way, as a set and in their order.
Chain(q) == LET f == Follow(q) IN {f[n] : n \in 1..Cardinality(Threads)} \ {NULL}
List(q) == LET f == Follow(q) IN [n \in 1..Cardinality(Chain(q)) |-> f[n]]

IsList(q) == Represents(heap, q, List(q))

\* A thread has the mutex of its call from the step that grants it, the wake
\* of its cell included, to the step of its unlock that gives it away.
\* "t_wait" is the timed wait of ActiveCond.
Possesses(t, m) ==
  \/ m \in held[t]
  \/ mutex[t] = m /\ pc[t] \in {"u_take", "u_try"}
  \/ mutex[t] = m /\ pc[t] \in {"wait", "t_wait"} /\ heap.wait[t] = 0

OneOwner ==
  \A m \in Mutexes :
    /\ \A t, u \in Threads : Possesses(t, m) /\ Possesses(u, m) => t = u
    /\ owned[m] = 1 <=> \E t \in Threads : Possesses(t, m)

=============================================================================
