---------------------------- MODULE ActiveMutex ----------------------------
(***************************************************************************)
(* activecond/src/pthread_mutex.c: the spinning replacement of the pthread *)
(* mutex.  A mutex is a struct queue (include/spinqueue.h) protected by a  *)
(* ticket lock; its data word is the flag `owned`.  A thread that finds    *)
(* the mutex owned puts its only cell, `self`, in the queue and spins on   *)
(* the cell's `wait` byte; unlock hands the mutex to the head of the queue *)
(* without ever clearing `owned`.                                          *)
(*                                                                         *)
(* Two parts of the code are abstracted here and modelled on their own:    *)
(* the ticket and owner words are a FIFO line of threads (module           *)
(* TicketLock implements it), and the doubly linked list is a sequence of  *)
(* threads, each standing for its cell (module SpinQueue implements it).   *)
(***************************************************************************)
EXTENDS Naturals, Sequences

CONSTANTS
  Threads,
  Mutexes,
  Rank      \* the order in which the application takes mutexes

ASSUME RankAssumption == Rank \in [Mutexes -> Nat]

VARIABLES
  pc,     \* where a thread is: "idle" is in the application
  arg,    \* the mutex of the thread's current, or last, call
  held,   \* the mutexes a thread has been given by a call that returned
  owned,  \* the flag in the data word of the mutex's queue
  line,   \* threads that took a ticket of the queue's lock; the head owns it
  queue,  \* the cells waiting for the mutex
  wait,   \* the wait byte of a thread's cell
  cell    \* unlock's local variable, the cell it dequeues; else its own

vars == <<pc, arg, held, owned, line, queue, wait, cell>>

InQueueLock ==
  {"l_spin", "l_enq", "l_rel", "u_spin", "u_free", "u_deq", "u_wake", "u_rel"}
Labels == {"idle", "l_take", "l_wait"} \cup InQueueLock

Init ==
  /\ pc = [t \in Threads |-> "idle"]
  /\ arg \in {[t \in Threads |-> m] : m \in Mutexes}
  /\ held = [t \in Threads |-> {}]
  /\ owned = [m \in Mutexes |-> 0]
  /\ line = [m \in Mutexes |-> <<>>]
  /\ queue = [m \in Mutexes |-> <<>>]
  /\ wait = [t \in Threads |-> 0]
  /\ cell = [t \in Threads |-> t]

---------------------------------------------------------------------------
\* The queue's own lock, queue_acquire and queue_release.

TakeTicket(t, m) == line' = [line EXCEPT ![m] = Append(@, t)]
IsServed(t, m) == line[m] # <<>> /\ Head(line[m]) = t
LeaveLine(m) == line' = [line EXCEPT ![m] = Tail(@)]

Goto(t, label) == pc' = [pc EXCEPT ![t] = label]

\* The application's side of the contract: it locks in rank order, so it
\* does not deadlock on its own, and never relocks what it holds.
InOrder(t, m) == \A h \in held[t] : Rank[h] < Rank[m]

---------------------------------------------------------------------------
\* pthread_mutex_lock

\* The first compare-and-swap succeeds and the call returns.
FastLock(t, m) ==
  /\ pc[t] = "idle"
  /\ InOrder(t, m)
  /\ owned[m] = 0
  /\ owned' = [owned EXCEPT ![m] = 1]
  /\ held' = [held EXCEPT ![t] = @ \cup {m}]
  /\ UNCHANGED <<pc, arg, line, queue, wait, cell>>

\* Mutant: the test is a fetch-and-add that a failure does not undo.
SlowLockAdds(t, m) ==
  /\ pc[t] = "idle"
  /\ InOrder(t, m)
  /\ owned[m] # 0
  /\ owned' = [owned EXCEPT ![m] = @ + 1]
  /\ arg' = [arg EXCEPT ![t] = m]
  /\ Goto(t, "l_take")
  /\ UNCHANGED <<held, line, queue, wait, cell>>

\* It fails: the thread goes for the queue's lock.
SlowLock(t, m) ==
  /\ pc[t] = "idle"
  /\ InOrder(t, m)
  /\ owned[m] = 1
  /\ arg' = [arg EXCEPT ![t] = m]
  /\ Goto(t, "l_take")
  /\ UNCHANGED <<held, owned, line, queue, wait, cell>>

LockTake(t) ==
  /\ pc[t] = "l_take"
  /\ TakeTicket(t, arg[t])
  /\ Goto(t, "l_spin")
  /\ UNCHANGED <<arg, held, owned, queue, wait, cell>>

\* Mutant: the retry does not wait to be served by the queue's lock.
LockRetryUnserved(t) ==
  /\ pc[t] = "l_spin"
  /\ IF owned[arg[t]] = 0
     THEN owned' = [owned EXCEPT ![arg[t]] = 1] /\ Goto(t, "l_rel")
     ELSE Goto(t, "l_enq") /\ UNCHANGED owned
  /\ UNCHANGED <<arg, held, line, queue, wait, cell>>

\* Mutant: the second compare-and-swap is left out.
LockRetryNoTest(t) ==
  /\ pc[t] = "l_spin"
  /\ IsServed(t, arg[t])
  /\ Goto(t, "l_enq")
  /\ UNCHANGED <<arg, held, owned, line, queue, wait, cell>>

\* Served by the queue's lock: the second compare-and-swap.
LockRetry(t) ==
  /\ pc[t] = "l_spin"
  /\ IsServed(t, arg[t])
  /\ IF owned[arg[t]] = 0
     THEN owned' = [owned EXCEPT ![arg[t]] = 1] /\ Goto(t, "l_rel")
     ELSE Goto(t, "l_enq") /\ UNCHANGED owned
  /\ UNCHANGED <<arg, held, line, queue, wait, cell>>

\* Mutant: the cell is linked at the head of the queue.
LockEnqueueFirst(t) ==
  /\ pc[t] = "l_enq"
  /\ queue' = [queue EXCEPT ![arg[t]] = <<t>> \o @]
  /\ wait' = [wait EXCEPT ![t] = 1]
  /\ Goto(t, "l_rel")
  /\ UNCHANGED <<arg, held, owned, line, cell>>

LockEnqueue(t) ==
  /\ pc[t] = "l_enq"
  /\ queue' = [queue EXCEPT ![arg[t]] = Append(@, t)]
  /\ wait' = [wait EXCEPT ![t] = 1]
  /\ Goto(t, "l_rel")
  /\ UNCHANGED <<arg, held, owned, line, cell>>

LockLeave(t) ==
  /\ pc[t] = "l_rel"
  /\ LeaveLine(arg[t])
  /\ Goto(t, "l_wait")
  /\ UNCHANGED <<arg, held, owned, queue, wait, cell>>

\* Mutant: lock returns without waiting on its cell.
LockReturnEarly(t) ==
  /\ pc[t] = "l_wait"
  /\ held' = [held EXCEPT ![t] = @ \cup {arg[t]}]
  /\ Goto(t, "idle")
  /\ UNCHANGED <<arg, owned, line, queue, wait, cell>>

\* queue_cell_wait ends; at once when the thread did not enqueue itself.
LockReturn(t) ==
  /\ pc[t] = "l_wait"
  /\ wait[t] = 0
  /\ held' = [held EXCEPT ![t] = @ \cup {arg[t]}]
  /\ Goto(t, "idle")
  /\ UNCHANGED <<arg, owned, line, queue, wait, cell>>

\* pthread_mutex_trylock that succeeds; it may be called out of rank order.
\* One that fails returns EBUSY and changes nothing.
TryLock(t, m) ==
  /\ pc[t] = "idle"
  /\ owned[m] = 0
  /\ owned' = [owned EXCEPT ![m] = 1]
  /\ held' = [held EXCEPT ![t] = @ \cup {m}]
  /\ UNCHANGED <<pc, arg, line, queue, wait, cell>>

---------------------------------------------------------------------------
\* pthread_mutex_unlock

Unlock(t, m) ==
  /\ pc[t] = "idle"
  /\ m \in held[t]
  /\ held' = [held EXCEPT ![t] = @ \ {m}]
  /\ arg' = [arg EXCEPT ![t] = m]
  /\ TakeTicket(t, m)
  /\ Goto(t, "u_spin")
  /\ UNCHANGED <<owned, queue, wait, cell>>

\* Served by the queue's lock: look at the head of the queue.
UnlockRead(t) ==
  LET m == arg[t] IN
  /\ pc[t] = "u_spin"
  /\ IsServed(t, m)
  /\ IF queue[m] = <<>>
     THEN Goto(t, "u_free") /\ UNCHANGED cell
     ELSE Goto(t, "u_deq") /\ cell' = [cell EXCEPT ![t] = Head(queue[m])]
  /\ UNCHANGED <<arg, held, owned, line, queue, wait>>

UnlockFree(t) ==
  /\ pc[t] = "u_free"
  /\ owned' = [owned EXCEPT ![arg[t]] = 0]
  /\ Goto(t, "u_rel")
  /\ UNCHANGED <<arg, held, line, queue, wait, cell>>

\* dequeue(queue, cell), the cell being the head (HeadInHand).
UnlockDequeue(t) ==
  /\ pc[t] = "u_deq"
  /\ queue' = [queue EXCEPT ![arg[t]] = Tail(@)]
  /\ Goto(t, "u_wake")
  /\ UNCHANGED <<arg, held, owned, line, wait, cell>>

\* Mutant: `owned` is cleared although the mutex is handed over.
UnlockWakeClears(t) ==
  /\ pc[t] = "u_wake"
  /\ owned' = [owned EXCEPT ![arg[t]] = 0]
  /\ wait' = [wait EXCEPT ![cell[t]] = 0]
  /\ cell' = [cell EXCEPT ![t] = t]
  /\ Goto(t, "u_rel")
  /\ UNCHANGED <<arg, held, line, queue>>

\* The wake gives the mutex away: `owned` stays 1.
UnlockWake(t) ==
  /\ pc[t] = "u_wake"
  /\ wait' = [wait EXCEPT ![cell[t]] = 0]
  /\ cell' = [cell EXCEPT ![t] = t]
  /\ Goto(t, "u_rel")
  /\ UNCHANGED <<arg, held, owned, line, queue>>

UnlockLeave(t) ==
  /\ pc[t] = "u_rel"
  /\ LeaveLine(arg[t])
  /\ Goto(t, "idle")
  /\ UNCHANGED <<arg, held, owned, queue, wait, cell>>

---------------------------------------------------------------------------
Lock(t) == \E m \in Mutexes : FastLock(t, m) \/ SlowLock(t, m) \/ TryLock(t, m)

Internal(t) ==
  \/ LockTake(t) \/ LockRetry(t) \/ LockEnqueue(t)
  \/ LockLeave(t) \/ LockReturn(t)
  \/ UnlockRead(t) \/ UnlockFree(t) \/ UnlockDequeue(t)
  \/ UnlockWake(t) \/ UnlockLeave(t)

Next ==
  \E t \in Threads :
    Lock(t) \/ Internal(t) \/ \E m \in Mutexes : Unlock(t, m)

Spec == Init /\ [][Next]_vars

---------------------------------------------------------------------------
\* Properties

\* Every variable has its type; the cells and flags are bytes used as bits.
TypeOK ==
  /\ pc \in [Threads -> Labels]
  /\ arg \in [Threads -> Mutexes]
  /\ held \in [Threads -> SUBSET Mutexes]
  /\ owned \in [Mutexes -> {0, 1}]
  /\ line \in [Mutexes -> Seq(Threads)]
  /\ queue \in [Mutexes -> Seq(Threads)]
  /\ wait \in [Threads -> {0, 1}]
  /\ cell \in [Threads -> Threads]

\* A thread has a mutex from the step that grants it (a compare-and-swap, or
\* the wake of its cell, after which its lock call can only return) to the
\* step of its unlock that gives it away.
Granted(t) == pc[t] \in {"l_rel", "l_wait"} /\ wait[t] = 0
Unlocking(t) == pc[t] \in {"u_spin", "u_free", "u_deq", "u_wake"}

Possesses(t, m) ==
  m \in held[t] \/ (arg[t] = m /\ (Granted(t) \/ Unlocking(t)))

\* The flag `owned` tells exactly whether some thread has the mutex, through
\* fast path, slow path and direct hand-off, and never two threads have it.
OneOwner ==
  \A m \in Mutexes :
    /\ \A t, u \in Threads : Possesses(t, m) /\ Possesses(u, m) => t = u
    /\ owned[m] = 1 <=> \E t \in Threads : Possesses(t, m)

IsIn(x, s) == \E i \in 1..Len(s) : s[i] = x
Distinct(s) == \A i, j \in 1..Len(s) : s[i] = s[j] => i = j

\* The single cell of a thread is in a mutex's queue, or in the hand of the
\* thread that unlocks that mutex, exactly while it waits for it: it is never
\* enqueued twice, never left behind in a queue nobody serves, and a thread
\* that spins on its byte can always be found by the owner of the mutex.
Waiting(t, m) == arg[t] = m /\ pc[t] \in {"l_rel", "l_wait"} /\ wait[t] = 1
InHand(t, m) == \E u \in Threads : pc[u] = "u_wake" /\ arg[u] = m /\ cell[u] = t
Enqueued(t, m) == IsIn(t, queue[m])

CellsSound ==
  /\ \A m \in Mutexes :
       /\ Distinct(queue[m])
       /\ \A t \in Threads : Waiting(t, m) <=> Enqueued(t, m) \/ InHand(t, m)
       /\ \A t \in Threads : ~(Enqueued(t, m) /\ InHand(t, m))
       /\ owned[m] = 0 => queue[m] = <<>>
  /\ \A t \in Threads : wait[t] = 1 => Waiting(t, arg[t])

\* Nobody overtakes a waiting thread.  The threads that wait for a mutex, the
\* one in the hand of its unlocker first, only ever change by a new one at the
\* end or by the first one leaving; and while there are some, the only thread
\* a step can give the mutex to is the first, whatever fast paths and trylocks
\* run meanwhile.
WaitLine(m) ==
  IF \E u \in Threads : InHand(u, m)
  THEN <<CHOOSE u \in Threads : InHand(u, m)>> \o queue[m]
  ELSE queue[m]

LineKept(m) ==
  \/ UNCHANGED WaitLine(m)
  \/ \E t \in Threads : WaitLine(m)' = Append(WaitLine(m), t)
  \/ WaitLine(m) # <<>> /\ WaitLine(m)' = Tail(WaitLine(m))

ServedInTurn(m) ==
  \A t \in Threads :
    WaitLine(m) # <<>> /\ ~Possesses(t, m) /\ Possesses(t, m)'
      => t = Head(WaitLine(m))

FirstComeFirstServed ==
  [][\A m \in Mutexes : LineKept(m) /\ ServedInTurn(m)]_vars

\* What makes OneOwner and CellsSound inductive: a thread inside a call has
\* not yet, or no longer, been given its mutex; the thread in the critical
\* section of a queue is the one its lock serves, and what that thread read
\* there still holds.
Critical == {"l_enq", "l_rel", "u_free", "u_deq", "u_wake", "u_rel"}

CallsOK == \A t \in Threads : pc[t] # "idle" => arg[t] \notin held[t]
ServedOK == \A t \in Threads : pc[t] \in Critical => IsServed(t, arg[t])
ReadsOK ==
  \A t \in Threads :
    /\ pc[t] = "l_enq" => owned[arg[t]] = 1
    /\ pc[t] = "u_free" => queue[arg[t]] = <<>>
    /\ pc[t] = "u_deq" => queue[arg[t]] # <<>> /\ cell[t] = Head(queue[arg[t]])

IInv == TypeOK /\ CallsOK /\ ServedOK /\ ReadsOK /\ OneOwner /\ CellsSound

\* The scheduler runs every thread that is inside a call (they spin, they do
\* not sleep, and the kernel preempts them), and the application unlocks what
\* it locked.
Fairness ==
  \A t \in Threads :
    WF_vars(Internal(t)) /\ \A m \in Mutexes : SF_vars(Unlock(t, m))

FairSpec == Spec /\ Fairness

\* A lock call that left the fast path returns: no wake-up is lost between
\* the failed test of `owned`, the enqueue and a concurrent unlock.
LockReturns ==
  \A t \in Threads : pc[t] = "l_take" ~> pc[t] = "idle"

\* The promise of the lock seen by its callers.
Wants(t) ==
  IF pc[t] \in {"l_take", "l_spin", "l_enq", "l_rel", "l_wait"}
  THEN {arg[t]} ELSE {}

Abstract == INSTANCE Mutex WITH has <- held, wants <- [t \in Threads |-> Wants(t)]

\* Every execution of the spinning mutex is one of an ideal mutex: a call
\* returns with the mutex only when no other thread has it.
ImplementsMutex == Abstract!MutexSpec

=============================================================================
