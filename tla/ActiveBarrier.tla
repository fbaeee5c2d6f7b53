--------------------------- MODULE ActiveBarrier ---------------------------
(***************************************************************************)
(* activecond/src/gomp_barrier.c: the GOMP barrier.  The threads of the    *)
(* team queue their cells, the same cells they use for mutexes, and count  *)
(* themselves in the queue's data word; the last one walks the list and    *)
(* wakes it.  Composes CellMutex; Others is {Barrier}.                     *)
(***************************************************************************)
EXTENDS CellMutex

CONSTANTS
  Barrier,   \* the queue of the team, team_barriers[0]
  Team,      \* the threads of the OpenMP team
  Lockers,   \* the threads that use the mutexes
  Rounds     \* bound: how many barriers a thread passes

ASSUME BarrierAssumption == Others = {Barrier}
ASSUME TeamAssumption == Team # {} /\ Team \subseteq Threads /\ Lockers \subseteq Threads
ASSUME RoundsAssumption == Rounds \in Nat

VARIABLES
  waiting,   \* the data word of the barrier's queue
  cell,      \* the local variable of the thread that wakes the others
  round      \* auxiliary: the barriers a thread has passed

barrierVars == <<waiting, cell, round>>
vars == <<mutexVars, barrierVars>>

BarrierLabels == {"b_spin", "b_wait", "b_wake", "b_next", "b_flush"}

\* omp_get_num_threads()
Amount == Cardinality(Team)

Init ==
  /\ MutexInit
  /\ waiting = 0
  /\ cell = [t \in Threads |-> NULL]
  /\ round = [t \in Threads |-> 0]

---------------------------------------------------------------------------
\* A thread that holds a mutex may well come to a barrier.
Arrive(t) ==
  /\ pc[t] = "idle"
  /\ round[t] < Rounds
  /\ line' = Join(t, Barrier)
  /\ Goto(t, "b_spin")
  /\ UNCHANGED <<then, mutex, held, owned, heap, barrierVars>>

\* Mutant: the count of a round is left for the next one.
CountLeft(t) ==
  /\ pc[t] = "b_spin" /\ Served(t, Barrier)
  /\ IF waiting + 1 < Amount
     THEN /\ waiting' = waiting + 1
          /\ heap' = Enqueue(heap, Barrier, t)
          /\ line' = Leave(Barrier)
          /\ Goto(t, "b_wait")
          /\ UNCHANGED cell
     ELSE /\ cell' = [cell EXCEPT ![t] = heap.head[Barrier]]
          /\ Goto(t, IF heap.head[Barrier] = NULL THEN "b_flush" ELSE "b_wake")
          /\ UNCHANGED <<heap, line, waiting>>
  /\ UNCHANGED <<then, mutex, held, owned, round>>

\* Served by the queue's lock: all but the last thread wait.
Count(t) ==
  /\ pc[t] = "b_spin" /\ Served(t, Barrier)
  /\ IF waiting + 1 < Amount
     THEN /\ waiting' = waiting + 1
          /\ heap' = Enqueue(heap, Barrier, t)
          /\ line' = Leave(Barrier)
          /\ Goto(t, "b_wait")
          /\ UNCHANGED cell
     ELSE /\ waiting' = 0
          /\ cell' = [cell EXCEPT ![t] = heap.head[Barrier]]
          /\ Goto(t, IF heap.head[Barrier] = NULL THEN "b_flush" ELSE "b_wake")
          /\ UNCHANGED <<heap, line>>
  /\ UNCHANGED <<then, mutex, held, owned, round>>

\* queue_cell_wake(cell)
WakeOne(t) ==
  /\ pc[t] = "b_wake"
  /\ heap' = Wake(heap, cell[t])
  /\ Goto(t, "b_next")
  /\ UNCHANGED <<then, mutex, held, owned, line, barrierVars>>

\* Mutant: the walk ends one cell early.
NextOneShort(t) ==
  LET next == heap.next[cell[t]] IN
  /\ pc[t] = "b_next"
  /\ cell' = [cell EXCEPT ![t] = IF next = heap.tail[Barrier] THEN NULL ELSE next]
  /\ Goto(t, IF cell'[t] = NULL THEN "b_flush" ELSE "b_wake")
  /\ UNCHANGED <<then, mutex, held, owned, line, heap, waiting, round>>

\* cell = cell->next, of a thread that is already awake
NextOne(t) ==
  /\ pc[t] = "b_next"
  /\ cell' = [cell EXCEPT ![t] = heap.next[@]]
  /\ Goto(t, IF cell'[t] = NULL THEN "b_flush" ELSE "b_wake")
  /\ UNCHANGED <<then, mutex, held, owned, line, heap, waiting, round>>

\* Mutant: the list of the round is left in the queue.
FinishUnflushed(t) ==
  /\ pc[t] = "b_flush"
  /\ line' = Leave(Barrier)
  /\ round' = [round EXCEPT ![t] = @ + 1]
  /\ Goto(t, "idle")
  /\ UNCHANGED <<then, mutex, held, owned, heap, waiting, cell>>

Finish(t) ==
  /\ pc[t] = "b_flush"
  /\ heap' = Flush(heap, Barrier)
  /\ line' = Leave(Barrier)
  /\ round' = [round EXCEPT ![t] = @ + 1]
  /\ Goto(t, "idle")
  /\ UNCHANGED <<then, mutex, held, owned, waiting, cell>>

Pass(t) ==
  /\ pc[t] = "b_wait"
  /\ heap.wait[t] = 0
  /\ round' = [round EXCEPT ![t] = @ + 1]
  /\ Goto(t, "idle")
  /\ UNCHANGED <<then, mutex, held, owned, line, heap, waiting, cell>>

BarrierStep(t) == Count(t) \/ WakeOne(t) \/ NextOne(t) \/ Finish(t) \/ Pass(t)
Internal(t) == (MutexStep(t) /\ UNCHANGED barrierVars) \/ BarrierStep(t)

Next ==
  \E t \in Threads :
    \/ t \in Lockers /\ MutexCall(t) /\ UNCHANGED barrierVars
    \/ t \in Team /\ Arrive(t)
    \/ Internal(t)

Spec == Init /\ [][Next]_vars

---------------------------------------------------------------------------
\* Properties

\* Every variable has its type.
TypeOK ==
  /\ pc \in [Threads -> MutexLabels \cup BarrierLabels]
  /\ heap \in Heaps
  /\ line \in [Queues -> Seq(Threads)]
  /\ waiting \in 0..(Amount - 1)
  /\ cell \in [Threads -> Ptr]
  /\ round \in [Threads -> 0..Rounds]

\* The barriers a thread has come to.
Arrived(t) == round[t] + IF pc[t] \in BarrierLabels THEN 1 ELSE 0

\* The barrier holds: nobody is past a barrier that another thread of the team
\* has not come to, however fast a woken thread runs to the next one while the
\* others of its round still wait to be woken.
NobodyPassesEarly == \A t, u \in Team : round[t] <= Arrived(u)

\* The count stays below the team's size, and outside the last thread's walk the
\* queue of the barrier is a sound list of exactly the threads that wait, as many
\* as the count says.
RoundSound ==
  /\ TypeOK
  /\ (\A t \in Threads : pc[t] \notin {"b_wake", "b_next", "b_flush"}) =>
       \E s \in [1..waiting -> Team] :
         /\ Represents(heap, Barrier, s)
         /\ \A i, k \in 1..waiting : s[i] = s[k] => i = k
         /\ \A t \in Threads : pc[t] = "b_wait" /\ heap.wait[t] = 1 <=> IsIn(t, s)

\* "Wake up any thread sleeping on the queue_cell" (spinqueue.h): the walk of
\* the barrier only wakes threads that wait at the barrier.
WakesItsOwn ==
  \A t \in Threads : pc[t] = "b_wake" => pc[cell[t]] = "b_wait"

\* The scheduler runs every thread inside a call, the program keeps coming to
\* its barriers, and it unlocks what it locked.
FairSpec ==
  /\ Spec
  /\ \A t \in Threads :
       /\ WF_vars(Internal(t)) /\ WF_vars(t \in Team /\ Arrive(t))
       /\ SF_vars(Unlock(t) /\ UNCHANGED barrierVars)

\* The whole team passes every barrier.
EverybodyPasses == <>(\A t \in Team : round[t] = Rounds)

=============================================================================
