------------------------------ MODULE QueueUse ------------------------------
(***************************************************************************)
(* The lists of SpinQueue under the operations the mutex and the condition *)
(* variable perform on them, in any order.  A queue's list is only touched *)
(* by the holder of the queue's lock (TicketLock); an operation is cut     *)
(* where other threads can see it half done: a cell taken out and not yet  *)
(* woken or queued again, a wait byte cleared by a thread that has not got *)
(* the lock, a list that is being emptied while the cell that was woken    *)
(* first is queued elsewhere.  `cells` is the sequence each list ought to  *)
(* be; the operations never read it except to state what the callers       *)
(* guarantee: a timed waiter does not give up while a wake-up is on its    *)
(* way to it (ActiveCond has what happens if it does).                     *)
(***************************************************************************)
EXTENDS SpinQueue

CONSTANTS
  Conds,   \* the queues of condition variables; the others are mutexes'
  Timed    \* those whose waits have an end

ASSUME QueueAssumption == Conds \subseteq Queues /\ Timed \subseteq Conds /\ NULL \notin Queues

VARIABLES
  heap,    \* heads, tails, pointers and wait bytes
  stage,   \* stage[q]: where the holder of q's lock is in its operation
  hand,    \* hand[q]: its local variable, the cell it took out of q or the
           \* first of those it has still to move
  dest,    \* dest[q]: the mutex whose lock a broadcast on q holds as well
  cells,   \* auxiliary: cells[q], the cells put in q and not yet taken out
  late     \* cells whose threads gave up and are not yet out of their list

vars == <<heap, stage, hand, dest, cells, late>>

Init ==
  /\ heap = ZeroHeap
  /\ stage = [q \in Queues |-> "open"]
  /\ hand = [q \in Queues |-> NULL]
  /\ dest = [q \in Queues |-> NULL]
  /\ cells = [q \in Queues |-> <<>>]
  /\ late = {}

\* The lock of q can be had.
Free(q) == stage[q] = "open" /\ \A r \in Queues : dest[r] # q

\* A thread that is not waiting for anything, so that its cell is its own.
Up(c) == heap.wait[c] = 0 /\ c \notin late

\* pthread_mutex_lock, __cond_wait: a thread puts its own cell.
Put(q, c) ==
  /\ Free(q) /\ Up(c)
  /\ heap' = Enqueue(heap, q, c)
  /\ cells' = [cells EXCEPT ![q] = Append(@, c)]
  /\ UNCHANGED <<stage, hand, dest, late>>

\* pthread_mutex_unlock, __cond_signal: the head of the list is taken out.
Take(q) ==
  LET c == heap.head[q] IN
  /\ Free(q) /\ c # NULL /\ c \notin late
  /\ heap' = Dequeue(heap, q, c)
  /\ cells' = [cells EXCEPT ![q] = Tail(@)]
  /\ stage' = [stage EXCEPT ![q] = "taken"]
  /\ hand' = [hand EXCEPT ![q] = c]
  /\ UNCHANGED <<dest, late>>

\* The holder of q's lock is done.
Done(q) ==
  /\ stage' = [stage EXCEPT ![q] = "open"]
  /\ hand' = [hand EXCEPT ![q] = NULL]
  /\ dest' = [dest EXCEPT ![q] = NULL]

\* The cell taken out is woken: its mutex goes to its thread.
WakeTaken(q) ==
  /\ stage[q] = "taken" /\ Done(q)
  /\ heap' = Wake(heap, hand[q])
  /\ UNCHANGED <<cells, late>>

\* __cond_signal, when the mutex is owned: the cell is queued on the mutex.
MoveTaken(q, d) ==
  /\ stage[q] = "taken" /\ Done(q)
  /\ q \in Conds /\ d \notin Conds /\ Free(d)
  /\ heap' = Enqueue(heap, d, hand[q])
  /\ cells' = [cells EXCEPT ![d] = Append(@, hand[q])]
  /\ UNCHANGED late

\* queue_cell_timedwait: the thread clears its own wait byte, without a lock.
GiveUp(c) ==
  /\ heap.wait[c] = 1
  /\ \E q \in Timed : IsIn(c, cells[q]) /\ stage[q] # "emptying"
  /\ heap' = Wake(heap, c)
  /\ late' = late \cup {c}
  /\ UNCHANGED <<stage, hand, dest, cells>>

\* __cond_timedwait: a late cell takes itself out from wherever it is.
TakeSelf(q, k) ==
  LET c == cells[q][k] IN
  /\ Free(q) /\ k \in 1..Len(cells[q]) /\ c \in late
  /\ heap' = Dequeue(heap, q, c)
  /\ cells' = [cells EXCEPT ![q] = Without(@, k)]
  /\ late' = late \ {c}
  /\ UNCHANGED <<stage, hand, dest>>

\* A broadcast that has q's lock walks the whole list, where nobody is giving
\* up, and has the lock of d, the mutex of the waiters.
Walked(q, d) ==
  /\ q \in Conds /\ Free(q) /\ heap.head[q] # NULL
  /\ \A c \in late : ~IsIn(c, cells[q])
  /\ d \notin Conds /\ Free(d)
  /\ stage' = [stage EXCEPT ![q] = "emptying"]

\* Mutant: a broadcast that found the mutex free forgets the rest of the list.
RouseOnly(q, d) ==
  LET a == heap.head[q] IN
  /\ Walked(q, d)
  /\ heap' = Wake(heap, a)
  /\ hand' = [hand EXCEPT ![q] = heap.next[a]]
  /\ cells' = [cells EXCEPT ![q] = Tail(@)]
  /\ UNCHANGED <<dest, late>>

\* __cond_broadcast_transfert when the mutex is free: the head is woken before
\* the rest of the list, if there is one, has moved.
Rouse(q, d) ==
  LET a == heap.head[q] IN
  /\ Walked(q, d)
  /\ heap' = Wake(heap, a)
  /\ hand' = [hand EXCEPT ![q] = heap.next[a]]
  /\ dest' = [dest EXCEPT ![q] = IF a = heap.tail[q] THEN NULL ELSE d]
  /\ cells' = [cells EXCEPT ![q] = Tail(@)]
  /\ UNCHANGED late

\* The list from cell a to the tail of q goes to the end of d.
MoveFrom(q, a, d) ==
  /\ heap' = Enqueues(heap, d, a, heap.tail[q])
  /\ cells' = [cells EXCEPT ![q] = <<>>, ![d] = @ \o cells[q]]
  /\ hand' = [hand EXCEPT ![q] = NULL]
  /\ dest' = [dest EXCEPT ![q] = NULL]
  /\ UNCHANGED late

\* ... when the mutex is owned: all are moved to it.
MoveAll(q, d) == Walked(q, d) /\ MoveFrom(q, heap.head[q], d)

\* Mutant: the next of the woken cell is read after it was woken.
MoveRestLate(q) ==
  /\ dest[q] # NULL
  /\ MoveFrom(q, heap.next[heap.head[q]], dest[q])
  /\ UNCHANGED stage

\* ... when the mutex was free: the rest is moved.
MoveRest(q) ==
  /\ dest[q] # NULL
  /\ MoveFrom(q, hand[q], dest[q])
  /\ UNCHANGED stage

\* __cond_broadcast: the queue's words are cleared.
Empty(q) ==
  /\ stage[q] = "emptying" /\ dest[q] = NULL /\ Done(q)
  /\ heap' = Flush(heap, q)
  /\ cells' = [cells EXCEPT ![q] = <<>>]
  /\ UNCHANGED late

Next ==
  \/ \E c \in Cells : GiveUp(c)
  \/ \E q \in Queues :
       \/ \E c \in Cells : Put(q, c)
       \/ Take(q) \/ WakeTaken(q) \/ MoveRest(q) \/ Empty(q)
       \/ \E k \in 1..Len(cells[q]) : TakeSelf(q, k)
       \/ \E d \in Queues : MoveTaken(q, d) \/ Rouse(q, d) \/ MoveAll(q, d)

Spec == Init /\ [][Next]_vars

---------------------------------------------------------------------------
Carried(c) == \E q \in Queues : stage[q] = "taken" /\ hand[q] = c
Listed(c) == \E q \in Queues : IsIn(c, cells[q])

\* Every pointer is a cell or NULL, every wait byte a bit.
TypeOK ==
  /\ heap \in Heaps
  /\ stage \in [Queues -> {"open", "taken", "emptying"}]
  /\ hand \in [Queues -> Ptr]
  /\ dest \in [Queues -> Queues \cup {NULL}]
  /\ cells \in [Queues -> Seq(Cells)]
  /\ late \subseteq Cells

\* A cell is in one list at most, and there once; one that is carried from a
\* queue is in none, and carried once.
Apart ==
  /\ \A q, r \in Queues : \A i \in 1..Len(cells[q]), j \in 1..Len(cells[r]) :
       cells[q][i] = cells[r][j] => q = r /\ i = j
  /\ \A c \in Cells : Carried(c) => ~Listed(c)
  /\ \A q, r \in Queues :
       stage[q] = "taken" /\ stage[r] = "taken" /\ hand[q] = hand[r] => q = r

\* Of a queue that is being emptied, what is still to move is linked from the
\* broadcast's local to the tail, whatever its woken head has become.
Remains(q) ==
  /\ Tied(heap, cells[q])
  /\ IF cells[q] = <<>> THEN hand[q] = NULL
     ELSE hand[q] = cells[q][1] /\ heap.tail[q] = cells[q][Len(cells[q])]

\* Heads, tails and the pointers of the cells always spell, in both
\* directions, the sequences the operations are meant to produce, whatever
\* stale pointers the cells outside the lists carry and wherever a broadcast
\* is with the list it empties.
ListsFaithful ==
  \A q \in Queues :
    IF stage[q] = "emptying" THEN Remains(q) ELSE Represents(heap, q, cells[q])

\* A thread that spins on its wait byte can be reached from a queue or is in
\* the hand of a thread about to wake or queue it; a thread that has stopped
\* spinning is in no list, unless it gave up and has yet to take itself out
\* of a list of timed waits.
WaitersReachable ==
  /\ \A c \in Cells : heap.wait[c] = 1 <=> (Listed(c) \/ Carried(c)) /\ c \notin late
  /\ \A c \in late : \E q \in Timed : IsIn(c, cells[q]) /\ stage[q] # "emptying"

\* A hand is full exactly while it holds a cell taken out or the rest of a
\* list; the lock of a mutex is held by one broadcast at most, for such a rest.
Hands ==
  /\ \A q \in Queues :
       /\ stage[q] = "open" => hand[q] = NULL
       /\ stage[q] = "taken" => hand[q] \in Cells
       /\ dest[q] # NULL <=> stage[q] = "emptying" /\ hand[q] # NULL
       /\ dest[q] # NULL => q \in Conds /\ dest[q] \notin Conds /\ stage[dest[q]] = "open"
  /\ \A q, r \in Queues : dest[q] = dest[r] /\ dest[q] # NULL => q = r

IInv == TypeOK /\ Apart /\ ListsFaithful /\ WaitersReachable /\ Hands

=============================================================================
