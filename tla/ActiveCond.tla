----------------------------- MODULE ActiveCond -----------------------------
(***************************************************************************)
(* activecond/src/pthread_cond.c: condition variables whose waiters are    *)
(* moved from the queue of the condition to the queue of their mutex, or   *)
(* woken when that mutex is free.  A waiter's only cell is in one queue    *)
(* or the other; its data field remembers the mutex.  Composes CellMutex   *)
(* and SpinQueue; Others is the set of conditions.                         *)
(***************************************************************************)
EXTENDS CellMutex

CONSTANTS
  Programs, \* the applications: the calls each thread makes, and "timeout" if
            \* the clock may pass the abstime of its timed waits
  Residue   \* what the uninitialised local `exit` may read as, a subset of {0, 1}

Conds == Others

ASSUME ProgramsAssumption ==
  Programs \subseteq
    [Threads -> SUBSET {"wait", "timedwait", "timeout", "signal", "broadcast"}]
ASSUME ResidueAssumption == Residue # {} /\ Residue \subseteq {0, 1}

VARIABLES
  uses,   \* the application that runs, one of Programs
  cond,   \* the condition of a thread's current call
  data,   \* the data field of its cell
  walk    \* the locals of its broadcast or signal: cell, mqueue, head, tail

condVars == <<uses, cond, data, walk>>
vars == <<mutexVars, condVars>>

CondLabels ==
  {"w_enq", "t_wait", "t_late", "t_take", "t_deq", "t_lock",
   "s_pick", "s_move", "s_leave", "b_first", "b_scan", "b_move", "b_flush"}

NoWalk == [cell |-> NULL, mqueue |-> NULL, head |-> NULL, tail |-> NULL]

Init ==
  /\ MutexInit
  /\ uses \in Programs
  /\ cond = [t \in Threads |-> NULL]
  /\ data = [t \in Threads |-> NULL]
  /\ walk = [t \in Threads |-> NoWalk]

CondReturn(t) == Return(t) /\ cond' = [cond EXCEPT ![t] = NULL]

---------------------------------------------------------------------------
\* __cond_wait, __cond_timedwait up to queue_cell_timedwait

\* Mutant: the data field is only set the first time.
StartWaitStaleData(t, c, next) ==
  /\ pc[t] = "idle"
  /\ \E m \in held[t] :
       /\ mutex' = [mutex EXCEPT ![t] = m]
       /\ data' = [data EXCEPT ![t] = IF @ = NULL THEN m ELSE @]
  /\ cond' = [cond EXCEPT ![t] = c]
  /\ then' = [then EXCEPT ![t] = next]
  /\ line' = Join(t, c)
  /\ Goto(t, "w_enq")
  /\ UNCHANGED <<held, owned, heap, walk>>

\* The caller holds the mutex; `next` is where the unlock will return to.
StartWait(t, c, next) ==
  /\ pc[t] = "idle"
  /\ \E m \in held[t] :
       /\ mutex' = [mutex EXCEPT ![t] = m]
       /\ data' = [data EXCEPT ![t] = m]
  /\ cond' = [cond EXCEPT ![t] = c]
  /\ then' = [then EXCEPT ![t] = next]
  /\ line' = Join(t, c)
  /\ Goto(t, "w_enq")
  /\ UNCHANGED <<held, owned, heap, walk>>

CondWait(t, c) == "wait" \in uses[t] /\ StartWait(t, c, "wait")
CondTimedWait(t, c) == "timedwait" \in uses[t] /\ StartWait(t, c, "t_wait")

\* Mutant: the mutex is given up before the cell is in the queue.
WaitEnqueueLate(t) ==
  LET m == mutex[t] IN
  /\ pc[t] = "w_enq" /\ Served(t, cond[t])
  /\ IF m \in held[t]
     THEN /\ held' = [held EXCEPT ![t] = {}]
          /\ IF heap.head[m] = NULL
             THEN owned' = [owned EXCEPT ![m] = 0] /\ UNCHANGED heap
             ELSE /\ heap' = Wake(Dequeue(heap, m, heap.head[m]), heap.head[m])
                  /\ UNCHANGED owned
          /\ UNCHANGED <<pc, line>>
     ELSE /\ heap' = Enqueue(heap, cond[t], t)
          /\ line' = Leave(cond[t])
          /\ Goto(t, then[t])
          /\ UNCHANGED <<held, owned>>
  /\ UNCHANGED <<then, mutex, condVars>>

\* Served by the condition's lock.  From here on the thread sleeps as far as
\* signallers are concerned, although it still has the mutex to unlock.
WaitEnqueue(t) ==
  /\ pc[t] = "w_enq" /\ Served(t, cond[t])
  /\ heap' = Enqueue(heap, cond[t], t)
  /\ line' = Leave(cond[t])
  /\ held' = [held EXCEPT ![t] = {}]
  /\ Goto(t, "u_take")
  /\ UNCHANGED <<then, mutex, owned, condVars>>

---------------------------------------------------------------------------
\* __cond_timedwait from queue_cell_timedwait on

\* The loop ends because the byte was cleared: the thread has the mutex.
TimedWoken(t) ==
  /\ pc[t] = "t_wait"
  /\ heap.wait[t] = 0
  /\ held' = [held EXCEPT ![t] = {mutex[t]}]
  /\ CondReturn(t)
  /\ UNCHANGED <<owned, line, heap, data, walk>>

\* The byte was still set, and the clock is past abstime.
TimedLate(t) ==
  /\ "timeout" \in uses[t]
  /\ pc[t] = "t_wait"
  /\ heap.wait[t] = 1
  /\ Goto(t, "t_late")
  /\ UNCHANGED <<then, mutex, held, owned, line, heap, condVars>>

\* *wait = 0; return 1
TimedGiveUp(t) ==
  /\ pc[t] = "t_late"
  /\ heap' = Wake(heap, t)
  /\ Goto(t, "t_take")
  /\ UNCHANGED <<then, mutex, held, owned, line, condVars>>

TimedTake(t) ==
  /\ pc[t] = "t_take"
  /\ line' = Join(t, cond[t])
  /\ Goto(t, "t_deq")
  /\ UNCHANGED <<then, mutex, held, owned, heap, condVars>>

\* Mutant: the cell stays in the condition's queue.
TimedDequeueForgotten(t) ==
  /\ pc[t] = "t_deq" /\ Served(t, cond[t])
  /\ line' = Leave(cond[t])
  /\ Goto(t, "t_lock")
  /\ UNCHANGED <<then, mutex, held, owned, heap, condVars>>

TimedDequeue(t) ==
  /\ pc[t] = "t_deq" /\ Served(t, cond[t])
  /\ heap' = Dequeue(heap, cond[t], t)
  /\ line' = Leave(cond[t])
  /\ Goto(t, "t_lock")
  /\ UNCHANGED <<then, mutex, held, owned, condVars>>

\* Mutant: a wait that timed out returns without its mutex.
TimedLockSkipped(t) ==
  /\ pc[t] = "t_lock"
  /\ held' = [held EXCEPT ![t] = {mutex[t]}]
  /\ CondReturn(t)
  /\ UNCHANGED <<owned, line, heap, data, walk>>

\* The call of pthread_mutex_lock that ends it.
TimedLock(t) ==
  LET m == mutex[t] IN
  /\ pc[t] = "t_lock"
  /\ IF owned[m] = 0
     THEN /\ owned' = [owned EXCEPT ![m] = 1]
          /\ held' = [held EXCEPT ![t] = {m}]
          /\ CondReturn(t)
     ELSE Goto(t, "l_take") /\ UNCHANGED <<then, mutex, cond, owned, held>>
  /\ UNCHANGED <<line, heap, data, walk>>

---------------------------------------------------------------------------
\* __cond_signal

Signal(t, c) ==
  /\ "signal" \in uses[t]
  /\ pc[t] = "idle"
  /\ cond' = [cond EXCEPT ![t] = c]
  /\ line' = Join(t, c)
  /\ Goto(t, "s_pick")
  /\ UNCHANGED <<then, mutex, held, owned, heap, data, walk>>

\* Served by the condition: nobody waits, and the call returns, or the head
\* is dequeued and a ticket of its mutex's queue taken.
SignalPick(t) ==
  LET c == heap.head[cond[t]] IN
  /\ pc[t] = "s_pick" /\ Served(t, cond[t])
  /\ IF c = NULL
     THEN /\ line' = Leave(cond[t])
          /\ CondReturn(t)
          /\ UNCHANGED <<heap, walk>>
     ELSE /\ heap' = Dequeue(heap, cond[t], c)
          /\ walk' = [walk EXCEPT ![t].cell = c, ![t].mqueue = data[c]]
          /\ line' = Join(t, data[c])
          /\ Goto(t, "s_move")
          /\ UNCHANGED <<then, mutex, cond>>
  /\ UNCHANGED <<held, owned, data>>

\* Served by the mutex's queue as well.
SignalMove(t) ==
  LET c == walk[t].cell
      m == walk[t].mqueue
  IN
  /\ pc[t] = "s_move" /\ Served(t, m)
  /\ IF owned[m] = 0
     THEN owned' = [owned EXCEPT ![m] = 1] /\ heap' = Wake(heap, c)
     ELSE heap' = Enqueue(heap, m, c) /\ UNCHANGED owned
  /\ line' = Leave(m)
  /\ walk' = [walk EXCEPT ![t] = NoWalk]
  /\ Goto(t, "s_leave")
  /\ UNCHANGED <<then, mutex, held, cond, data>>

SignalLeave(t) ==
  /\ pc[t] = "s_leave"
  /\ line' = Leave(cond[t])
  /\ CondReturn(t)
  /\ UNCHANGED <<held, owned, heap, data, walk>>

---------------------------------------------------------------------------
\* __cond_broadcast

Broadcast(t, c) ==
  /\ "broadcast" \in uses[t]
  /\ pc[t] = "idle"
  /\ cond' = [cond EXCEPT ![t] = c]
  /\ line' = Join(t, c)
  /\ Goto(t, "b_first")
  /\ UNCHANGED <<then, mutex, held, owned, heap, data, walk>>

BroadcastFirst(t) ==
  /\ pc[t] = "b_first" /\ Served(t, cond[t])
  /\ walk' = [walk EXCEPT ![t].cell = heap.head[cond[t]]]
  /\ Goto(t, IF heap.head[cond[t]] = NULL THEN "b_flush" ELSE "b_scan")
  /\ UNCHANGED <<then, mutex, held, owned, line, heap, cond, data>>

\* One turn of the loop while the group of cells of one mutex goes on, or
\* begins with no group before it.
BroadcastScan(t) ==
  LET w == walk[t]
      c == w.cell
  IN
  /\ pc[t] = "b_scan"
  /\ c # NULL
  /\ w.mqueue \in {NULL, data[c]}
  /\ walk' = [walk EXCEPT ![t] =
       [cell |-> heap.next[c], mqueue |-> data[c], tail |-> c,
        head |-> IF w.mqueue = NULL THEN c ELSE w.head]]
  /\ UNCHANGED <<pc, then, mutex, held, owned, line, heap, cond, data>>

\* The group has ended, at another mutex's cell or at the end of the queue.
BroadcastGroup(t) ==
  LET w == walk[t] IN
  /\ pc[t] = "b_scan"
  /\ w.mqueue # NULL
  /\ w.cell # NULL => data[w.cell] # w.mqueue
  /\ line' = Join(t, w.mqueue)
  /\ Goto(t, "b_move")
  /\ UNCHANGED <<then, mutex, held, owned, heap, condVars>>

\* Mutant: the whole group is queued although the mutex is free.
BroadcastMoveAll(t) ==
  LET w == walk[t]
      m == w.mqueue
  IN
  /\ pc[t] = "b_move" /\ Served(t, m)
  /\ heap' = Enqueues(heap, m, w.head, w.tail)
  /\ line' = Leave(m)
  /\ walk' = [walk EXCEPT ![t] = [NoWalk EXCEPT !.cell = w.cell]]
  /\ Goto(t, IF w.cell = NULL THEN "b_flush" ELSE "b_scan")
  /\ UNCHANGED <<then, mutex, held, owned, cond, data>>

\* __cond_broadcast_transfert, served by the mutex's queue: when the mutex is
\* free its first waiter gets it and the rest is queued; when it is owned the
\* uninitialised `exit` says whether anything is queued.
BroadcastMove(t) ==
  LET w == walk[t]
      m == w.mqueue
      alone == w.head = w.tail
      rest == heap.next[w.head]
  IN
  /\ pc[t] = "b_move" /\ Served(t, m)
  /\ \/ /\ owned[m] = 0
        /\ owned' = [owned EXCEPT ![m] = 1]
        /\ heap' = IF alone THEN Wake(heap, w.head)
                   ELSE Enqueues(Wake(heap, w.head), m, rest, w.tail)
     \/ /\ owned[m] = 1
        /\ \E exit \in Residue :
             heap' = IF exit = 0 THEN Enqueues(heap, m, w.head, w.tail) ELSE heap
        /\ UNCHANGED owned
  /\ line' = Leave(m)
  /\ walk' = [walk EXCEPT ![t] = [NoWalk EXCEPT !.cell = w.cell]]
  /\ Goto(t, IF w.cell = NULL THEN "b_flush" ELSE "b_scan")
  /\ UNCHANGED <<then, mutex, held, cond, data>>

\* Mutant: the queue of the condition is not emptied.
BroadcastFlushForgotten(t) ==
  /\ pc[t] = "b_flush"
  /\ line' = Leave(cond[t])
  /\ CondReturn(t)
  /\ UNCHANGED <<held, owned, heap, data, walk>>

BroadcastFlush(t) ==
  /\ pc[t] = "b_flush"
  /\ heap' = Flush(heap, cond[t])
  /\ line' = Leave(cond[t])
  /\ CondReturn(t)
  /\ UNCHANGED <<held, owned, data, walk>>

---------------------------------------------------------------------------
CondCall(t) ==
  /\ UNCHANGED uses
  /\ \E c \in Conds :
    CondWait(t, c) \/ CondTimedWait(t, c) \/ Signal(t, c) \/ Broadcast(t, c)

TimedStep(t) ==
  \/ TimedWoken(t) \/ TimedLate(t) \/ TimedGiveUp(t)
  \/ TimedTake(t) \/ TimedDequeue(t) \/ TimedLock(t)
SignalStep(t) == SignalPick(t) \/ SignalMove(t) \/ SignalLeave(t)
BroadcastStep(t) ==
  \/ BroadcastFirst(t) \/ BroadcastScan(t) \/ BroadcastGroup(t)
  \/ BroadcastMove(t) \/ BroadcastFlush(t)

\* The mutex's steps, the last of which ends a wait as well.
CondKept(t) ==
  /\ cond' = IF pc'[t] = "idle" THEN [cond EXCEPT ![t] = NULL] ELSE cond
  /\ UNCHANGED <<data, walk>>

Internal(t) ==
  /\ UNCHANGED uses
  /\ \/ MutexStep(t) /\ CondKept(t)
     \/ WaitEnqueue(t) \/ TimedStep(t) \/ SignalStep(t) \/ BroadcastStep(t)

Next ==
  \E t \in Threads :
    (MutexCall(t) /\ UNCHANGED condVars) \/ CondCall(t) \/ Internal(t)

Spec == Init /\ [][Next]_vars

---------------------------------------------------------------------------
\* Properties

\* Every variable has its type.
TypeOK ==
  /\ pc \in [Threads -> MutexLabels \cup CondLabels]
  /\ then \in [Threads -> {"idle", "wait", "t_wait"}]
  /\ mutex \in [Threads -> Mutexes \cup {NULL}]
  /\ held \in [Threads -> SUBSET Mutexes]
  /\ owned \in [Mutexes -> {0, 1}]
  /\ line \in [Queues -> Seq(Threads)]
  /\ heap \in Heaps
  /\ uses \in Programs
  /\ cond \in [Threads -> Conds \cup {NULL}]
  /\ data \in [Threads -> Mutexes \cup {NULL}]
  /\ walk \in [Threads -> [cell : Ptr, mqueue : Mutexes \cup {NULL},
                          head : Ptr, tail : Ptr]]

\* The threads inside the critical section of a condition's queue.
Signalling(c) ==
  {t \in Threads : cond[t] = c /\ pc[t] \in {"s_move", "s_leave"}}
Broadcasting(c) ==
  {t \in Threads : cond[t] = c /\ pc[t] \in {"b_scan", "b_move", "b_flush"}}

\* The cells whose thread relies on somebody to wake it.
Waiters == {t \in Threads : heap.wait[t] = 1}

\* No waiter is forgotten: while no signal or broadcast is under way, the
\* lists of the mutexes and conditions are sound and hold every cell that
\* waits, exactly once between them, and nothing waits for a free mutex.
\* t/broadcast.c relies on it: its workers wait for a broadcast of the clock
\* thread, which waits for one of theirs.
NoWaiterForgotten ==
  (\A c \in Conds : Signalling(c) \cup Broadcasting(c) = {}) =>
    /\ \A q \in Queues : IsList(q)
    /\ \A t \in Waiters :
         Cardinality({q \in Queues : t \in Chain(q)}) = 1
    /\ \A m \in Mutexes : owned[m] = 0 => heap.head[m] = NULL

\* A thread sleeps while its cell is in a condition that no broadcast empties.
SleepLine(c) == IF Broadcasting(c) = {} THEN List(c) ELSE <<>>
Sleeps(t) == \E c \in Conds : Broadcasting(c) = {} /\ t \in Chain(c)

\* The promise to the callers.
Calling ==
  {"l_take", "l_try", "wait", "t_wait", "t_late", "t_take", "t_deq", "t_lock"}
Wants(t) ==
  IF pc[t] \in Calling \/ (pc[t] \in {"u_take", "u_try"} /\ then[t] # "idle")
  THEN {mutex[t]} ELSE {}

Promise == INSTANCE Monitor WITH
  has <- held, wants <- [t \in Threads |-> Wants(t)],
  asleep <- [c \in Conds |-> SleepLine(c)]

\* Every execution is one of an ideal monitor: a wait releases its mutex and
\* sleeps in one step, a signal rouses exactly the longest sleeper, a broadcast
\* all of them, nobody else wakes up but by a timeout, and a wait returns with
\* its mutex and alone with it.
ImplementsMonitor == Promise!MonitorSpec

\* "Return 0 if it ends because of awaken by antoher thread and 1 if it ends on
\* the timeout" (spinqueue.h, queue_cell_timedwait): at the step that gives up,
\* nobody has woken the cell.
TimeoutIsNoWake ==
  [][\A t \in Threads : TimedGiveUp(t) => heap.wait[t] = 1]_vars

=============================================================================
