------------------------- MODULE ActiveBarrierProofs -------------------------
(***************************************************************************)
(* The barrier holds, for any team and any number of barriers: an          *)
(* invariant of the lists, of how far the walk of the last thread is, and  *)
(* of the barriers each thread has passed.  The theorems are about a team  *)
(* that keeps away from the mutexes, Team \cap Lockers = {}; without that  *)
(* the walk can follow a cell into the queue of a mutex, as the run        *)
(* barrier_mutex shows.                                                    *)
(***************************************************************************)
EXTENDS ActiveBarrier, SpinQueueProofs, FiniteSetTheorems, FunctionTheorems

USE DEF Threads

\* The thread that makes the others of its round pass.
Walking == {"b_wake", "b_next", "b_flush"}
Nobody == \A t \in Threads : pc[t] \notin Walking

Bit(b) == IF b THEN 1 ELSE 0

\* Who does what: the team keeps away from the mutexes.
Parts ==
  /\ then = [t \in Threads |-> "idle"]
  /\ mutex \in [Threads -> Mutexes \cup {NULL}] /\ held \in [Threads -> SUBSET Mutexes]
  /\ \A t \in Threads :
       /\ pc[t] # "u_take"
       /\ pc[t] \in {"l_take", "l_try", "wait", "u_try"} => mutex[t] \in Mutexes /\ t \notin Team
       /\ pc[t] \in BarrierLabels => t \in Team /\ round[t] < Rounds
       /\ pc[t] \in Walking => Served(t, Barrier)
  /\ \A t \in Team : held[t] = {}

\* The lists are sound, the walk of the barrier's included: a thread it has woken
\* cannot queue its cell before the walk is over.
Lists(C) ==
  /\ Sound(heap, C, {})
  /\ \A m \in Mutexes, t \in Threads : IsIn(t, C[m]) => pc[t] = "wait" /\ heap.wait[t] = 1
  /\ \A t \in Threads : IsIn(t, C[Barrier]) => t \in Team

\* No walk is on: p barriers are passed, by all who have been woken too.
Open(s, p) ==
  /\ waiting = Len(s)
  /\ \A t \in Threads : IsIn(t, s) <=> pc[t] = "b_wait" /\ heap.wait[t] = 1
  /\ \A t \in Team : round[t] + Bit(pc[t] = "b_wait" /\ heap.wait[t] = 0) = p

\* Thread w walks the list of all others, which wait from the k-th on; those
\* before may have passed barrier p + 1 and come to the next.
Closing(w, s, p) ==
  /\ waiting = 0 /\ round[w] = p
  /\ \A t \in Team : IsIn(t, s) <=> t # w
  /\ \A t \in Team \ {w} :
       /\ pc[t] \in {"b_wait", "b_spin", "idle"}
       /\ heap.wait[t] = 1 => pc[t] = "b_wait"
       /\ round[t] + Bit(pc[t] = "b_wait") = p + 1
  /\ \E k \in 1..(Len(s) + 1) :
       /\ \A i \in 1..Len(s) : heap.wait[s[i]] = Bit(k <= i)
       /\ pc[w] = "b_wake" => k <= Len(s) /\ cell[w] = s[k]
       /\ pc[w] = "b_next" => 1 < k /\ cell[w] = s[k - 1]
       /\ pc[w] = "b_flush" => k = Len(s) + 1

Progress(s) ==
  \E p \in 0..Rounds :
    \/ Nobody /\ Open(s, p)
    \/ \E w \in Team : pc[w] \in Walking /\ Closing(w, s, p)

IInv == TypeOK /\ Parts /\ \E C : Lists(C) /\ Progress(C[Barrier])

---------------------------------------------------------------------------
LEMMA Queued ==
  /\ Barrier \in Queues /\ Barrier \notin Mutexes /\ Mutexes \subseteq Queues
  /\ NULL \notin Mutexes /\ NULL \notin Threads
  /\ Team \subseteq Threads /\ IsFiniteSet(Team) /\ Team # {} /\ Amount \in Nat \ {0}
<1>1. IsFiniteSet(Team) /\ Cardinality(Team) \in Nat /\ (Cardinality(Team) = 0 => Team = {})
  BY TeamAssumption, ThreadsAssumption, FS_Subset, FS_CardinalityType, FS_EmptySet
<1>. QED
  BY <1>1, BarrierAssumption, QueuesAssumption, NullAssumption, TeamAssumption DEF Others, Amount

\* The head of a line that grows stays, and a line that is left is not empty.
LEMMA Lines ==
  ASSUME line \in [Queues -> Seq(Threads)], NEW t \in Threads, NEW q \in Queues
  PROVE  /\ Join(t, q) \in [Queues -> Seq(Threads)]
         /\ \A r \in Queues : line[r] # <<>> => Join(t, q)[r] # <<>> /\ Head(Join(t, q)[r]) = Head(line[r])
         /\ \A r \in Queues \ {q} : Join(t, q)[r] = line[r]
         /\ line[q] # <<>> => Leave(q) \in [Queues -> Seq(Threads)]
         /\ \A r \in Queues \ {q} : Leave(q)[r] = line[r]
BY DEF Join, Leave

---------------------------------------------------------------------------
\* The mutexes, which the team does not use

\* What a step of a mutex by thread t leaves of the threads.
Shape(t) ==
  /\ pc' \in [Threads -> MutexLabels \cup BarrierLabels]
  /\ pc'[t] \notin BarrierLabels \cup {"u_take"}
  /\ \A u \in Threads \ {t} : pc'[u] = pc[u] /\ mutex'[u] = mutex[u] /\ held'[u] = held[u]
  /\ then' = then
  /\ mutex' \in [Threads -> Mutexes \cup {NULL}] /\ held' \in [Threads -> SUBSET Mutexes]
  /\ pc'[t] \in {"l_take", "l_try", "wait", "u_try"} => mutex'[t] \in Mutexes

LEMMA MutexParts ==
  ASSUME TypeOK, Parts, Team \cap Lockers = {}, NEW t \in Threads,
         (t \in Lockers /\ MutexCall(t)) \/ MutexStep(t), UNCHANGED barrierVars, heap' \in Heaps
  PROVE  /\ TypeOK' /\ Parts'
         /\ t \notin Team /\ pc[t] \notin BarrierLabels /\ pc'[t] \notin BarrierLabels
         /\ \A u \in Threads \ {t} : pc'[u] = pc[u]
<1>. USE DEF Goto
<1>r. /\ pc \in [Threads -> MutexLabels \cup BarrierLabels]
      /\ line \in [Queues -> Seq(Threads)]
      /\ then = [u \in Threads |-> "idle"]
      /\ mutex \in [Threads -> Mutexes \cup {NULL}] /\ held \in [Threads -> SUBSET Mutexes]
  BY DEF TypeOK, Parts
<1>1. /\ t \notin Team /\ pc[t] \notin BarrierLabels
      /\ pc[t] # "idle" => mutex[t] \in Mutexes
  BY DEF Parts, MutexCall, MutexStep, FastLock, SlowLock, LockTake, LockTry, Wait, Unlock, UnlockTake,
     UnlockTry, BarrierLabels
<1>2. Shape(t)
  <2>. USE <1>r, <1>1 DEF Shape, MutexLabels, BarrierLabels
  <2>1. CASE \E m \in Mutexes : FastLock(t, m) \/ SlowLock(t, m)
    BY <2>1 DEF FastLock, SlowLock
  <2>2. CASE Unlock(t)
    BY <2>2 DEF Unlock
  <2>3. CASE LockTake(t) \/ LockTry(t)
    BY <2>3 DEF LockTake, LockTry
  <2>5. CASE Wait(t)
    BY <2>5 DEF Wait, Return
  <2>4. CASE UnlockTake(t) \/ UnlockTry(t)
    BY <2>4 DEF UnlockTake, UnlockTry, EndUnlock, Return, Parts
  <2>. QED  BY <2>1, <2>2, <2>3, <2>4, <2>5 DEF MutexCall, MutexStep
<1>3. /\ line' \in [Queues -> Seq(Threads)]
      /\ line'[Barrier] = line[Barrier]
  <2>1. CASE \E m \in Mutexes : FastLock(t, m) \/ SlowLock(t, m)
    BY <1>r, <2>1 DEF FastLock, SlowLock
  <2>2. CASE Unlock(t)
    <3>1. PICK m \in Mutexes : line' = Join(t, m)
      BY <1>r, <2>2 DEF Unlock
    <3>. QED  BY <1>r, <3>1, Lines, Queued
  <2>3. CASE LockTake(t) \/ UnlockTake(t)
    <3>1. mutex[t] \in Mutexes /\ line' = Join(t, mutex[t])
      BY <1>1, <2>3 DEF LockTake, UnlockTake
    <3>. QED  BY <1>r, <3>1, Lines, Queued
  <2>4. CASE LockTry(t) \/ UnlockTry(t)
    <3>1. mutex[t] \in Mutexes /\ line' = Leave(mutex[t]) /\ line[mutex[t]] # <<>>
      BY <1>1, <2>4 DEF LockTry, UnlockTry, Served
    <3>. QED  BY <1>r, <3>1, Lines, Queued
  <2>5. CASE Wait(t)
    BY <1>r, <2>5 DEF Wait
  <2>. QED  BY <2>1, <2>2, <2>3, <2>4, <2>5 DEF MutexCall, MutexStep
<1>4. TypeOK'
  BY <1>2, <1>3 DEF TypeOK, Shape, barrierVars
<1>5. Parts'
  <2>1. \A u \in Threads : Served(u, Barrier)' <=> Served(u, Barrier)
    BY <1>3 DEF Served
  <2>2. \A u \in Team : held'[u] = {}
    BY <1>1, <1>2, Queued DEF Shape, Parts
  <2>3. \A u \in Threads : pc'[u] \in Walking => pc[u] \in Walking
    BY <1>2 DEF Shape, Walking, BarrierLabels
  <2>. QED  BY <1>1, <1>2, <2>1, <2>2, <2>3 DEF Shape, Parts, barrierVars, BarrierLabels
<1>. QED  BY <1>1, <1>2, <1>4, <1>5 DEF Shape

\* What a mutex does to the lists: a thread that is in none is added to that of a
\* mutex, or the head of one is taken out.
LEMMA MutexLists ==
  ASSUME TypeOK, Parts, NEW t \in Threads, t \notin Team, MutexCall(t) \/ MutexStep(t),
         NEW C, Lists(C)
  PROVE  /\ \E D : Lists(D)' /\ D[Barrier] = C[Barrier]
         /\ \A u \in Team : heap'.wait[u] = heap.wait[u]
<1>. USE DEF Goto
<1>r. /\ pc \in [Threads -> MutexLabels \cup BarrierLabels] /\ heap \in Heaps
      /\ Sound(heap, C, {}) /\ C \in [Queues -> Seq(Threads)]
  BY DEF TypeOK, Lists, Sound
<1>1. CASE UNCHANGED heap
  <2>1. \A u \in Threads : pc[u] = "wait" /\ heap.wait[u] = 1 => pc'[u] = pc[u]
    BY <1>r DEF MutexCall, MutexStep, FastLock, SlowLock, LockTake, LockTry, Wait, Unlock, UnlockTake,
       UnlockTry, Return, EndUnlock
  <2>2. Lists(C)'
    BY <1>1, <2>1 DEF Lists
  <2>. QED  BY <1>1, <2>2
<1>2. CASE LockTry(t) /\ owned[mutex[t]] # 0
  <2>0. PICK m \in Mutexes : m = mutex[t]
    BY <1>2 DEF LockTry, Parts
  <2>1. pc[t] = "l_try" /\ m \in Queues /\ heap' = Enqueue(heap, m, t) /\ pc' = [pc EXCEPT ![t] = "wait"]
    BY <1>2, <2>0, Queued DEF LockTry
  <2>2. \A q \in Queues : ~ IsIn(t, C[q])
    <3>1. \A q \in Mutexes : ~ IsIn(t, C[q])
      BY <2>1 DEF Lists
    <3>2. ~ IsIn(t, C[Barrier])
      BY DEF Lists
    <3>. QED  BY <3>1, <3>2, BarrierAssumption DEF Others
  <2>3. PICK D : D = [C EXCEPT ![m] = Append(@, t)]
    OBVIOUS
  <2>4. Sound(heap', D, {})
    BY <1>r, <2>1, <2>2, <2>3, SoundEnqueue
  <2>5. \A u \in Threads : heap'.wait[u] = IF u = t THEN 1 ELSE heap.wait[u]
    BY <1>r, <2>1, WaitBytes
  <2>6. /\ D[m] = Append(C[m], t) /\ \A q \in Queues \ {m} : D[q] = C[q]
        /\ \A u \in Threads : IsIn(u, Append(C[m], t)) <=> IsIn(u, C[m]) \/ u = t
    <3>1. Distinct(C[m]) /\ C[m] \in Seq(Threads)
      BY <1>r, <2>1 DEF Sound
    <3>2. \A u \in Threads : IsIn(u, Append(C[m], t)) <=> IsIn(u, C[m]) \/ u = t
      BY <2>1, <2>2, <3>1, AppendHolds
    <3>. QED  BY <1>r, <2>1, <2>3, <3>2
  <2>7. ASSUME NEW q \in Mutexes, NEW u \in Threads, IsIn(u, D[q])
        PROVE  pc'[u] = "wait" /\ heap'.wait[u] = 1
    <3>1. IsIn(u, C[q]) \/ u = t
      BY <2>6, <2>7, Queued
    <3>. QED  BY <1>r, <2>1, <2>5, <3>1 DEF Lists
  <2>8. D[Barrier] = C[Barrier]
    BY <2>0, <2>6, Queued
  <2>9. Lists(D)'
    BY <2>4, <2>7, <2>8 DEF Lists
  <2>. QED  BY <2>5, <2>8, <2>9, Queued
<1>3. CASE UnlockTry(t) /\ heap.head[mutex[t]] # NULL
  <2>0. PICK m \in Mutexes : m = mutex[t]
    BY <1>3 DEF UnlockTry, Parts
  <2>c. PICK c \in Threads : c = heap.head[m] /\ c = C[m][1]
    BY <1>r, <1>3, <2>0, Queued, HeadCell
  <2>1. /\ pc[t] = "u_try" /\ m \in Queues
        /\ heap' = Wake(Dequeue(heap, m, c), c) /\ pc' = [pc EXCEPT ![t] = "idle"]
    BY <1>3, <2>0, <2>c, Queued DEF UnlockTry, EndUnlock, Return, Parts
  <2>2. /\ C[m] \in Seq(Threads) /\ C[m] # <<>> /\ Distinct(C[m]) /\ 1 \in 1..Len(C[m])
    BY <1>r, <1>3, <2>0, <2>1, HeadCell
  <2>3. PICK D : D = [C EXCEPT ![m] = Without(@, 1)]
    OBVIOUS
  <2>4. Sound(heap', D, {})
    <3>1. Sound(Dequeue(heap, m, c), D, {})
      BY <1>r, <2>c, <2>1, <2>2, <2>3, SoundDequeue
    <3>2. Sound(Wake(Dequeue(heap, m, c), c), D, {})
      BY <3>1, SoundWake
    <3>. QED  BY <2>1, <3>2
  <2>5. \A u \in Threads : heap'.wait[u] = IF u = c THEN 0 ELSE heap.wait[u]
    <3>1. Dequeue(heap, m, c) \in Heaps
      BY <1>r, <2>1, DequeueHeap
    <3>2. \A u \in Threads : Dequeue(heap, m, c).wait[u] = heap.wait[u]
      BY <1>r, <2>1, WaitBytes
    <3>3. \A u \in Threads : Wake(Dequeue(heap, m, c), c).wait[u] =
                               IF u = c THEN 0 ELSE Dequeue(heap, m, c).wait[u]
      BY <2>1, <3>1, WaitBytes
    <3>. QED  BY <2>1, <3>2, <3>3
  <2>6. /\ D[m] = Without(C[m], 1) /\ \A q \in Queues \ {m} : D[q] = C[q]
        /\ \A u \in Threads : IsIn(u, Without(C[m], 1)) <=> IsIn(u, C[m]) /\ u # c
    BY <1>r, <2>c, <2>1, <2>2, <2>3, WithoutHolds
  <2>7. IsIn(c, C[m])
    BY <2>c, <2>2 DEF IsIn
  <2>8. ASSUME NEW q \in Mutexes, NEW u \in Threads, IsIn(u, D[q])
        PROVE  pc'[u] = "wait" /\ heap'.wait[u] = 1
    <3>1. \A r \in Queues \ {m} : ~ IsIn(c, C[r])
      BY <1>r, <2>1, <2>7, OneList
    <3>2. IsIn(u, C[q]) /\ u # c
      BY <2>6, <2>8, <3>1, Queued
    <3>. QED  BY <1>r, <2>1, <2>5, <3>2 DEF Lists
  <2>9. D[Barrier] = C[Barrier] /\ pc[c] = "wait"
    BY <2>0, <2>6, <2>7, Queued DEF Lists
  <2>10. c \notin Team
    BY <2>9 DEF Parts
  <2>11. Lists(D)'
    BY <2>4, <2>8, <2>9 DEF Lists
  <2>. QED  BY <2>5, <2>9, <2>10, <2>11, Queued
<1>. QED
  BY <1>1, <1>2, <1>3 DEF MutexCall, MutexStep, FastLock, SlowLock, LockTake, LockTry, Wait, Unlock,
     UnlockTake, UnlockTry

\* The barrier depends on the team alone.
LEMMA TeamAlone ==
  ASSUME NEW s \in Seq(Threads), Progress(s), UNCHANGED barrierVars,
         \A u \in Team : pc'[u] = pc[u] /\ heap'.wait[u] = heap.wait[u],
         \A u \in Threads \ Team : pc[u] \notin BarrierLabels /\ pc'[u] \notin BarrierLabels,
         \A u \in Threads : IsIn(u, s) => u \in Team
  PROVE  Progress(s)'
<1>0. /\ Nobody' <=> Nobody
      /\ \A i \in 1..Len(s) : s[i] \in Team
  <2>1. \A i \in 1..Len(s) : s[i] \in Team
    BY DEF IsIn
  <2>. QED  BY <2>1 DEF Nobody, Walking, BarrierLabels
<1>1. ASSUME NEW p \in 0..Rounds, Open(s, p) PROVE Open(s, p)'
  BY <1>1, Queued DEF Open, barrierVars, BarrierLabels
<1>2. ASSUME NEW p \in 0..Rounds, NEW w \in Team, Closing(w, s, p) PROVE Closing(w, s, p)'
  BY <1>0, <1>2 DEF Closing, barrierVars
<1>. QED  BY <1>0, <1>1, <1>2 DEF Progress

---------------------------------------------------------------------------
\* The barrier

\* A sequence without repetition that is as long as a finite set holds all of it.
LEMMA Full ==
  ASSUME NEW S, IsFiniteSet(S), NEW s \in Seq(S), Distinct(s), Cardinality(S) <= Len(s)
  PROVE  \A x \in S : IsIn(x, s)
<1>1. s \in Injection(1..Len(s), S)
  <2>1. s \in [1..Len(s) -> S]
    OBVIOUS
  <2>. QED  BY <2>1, Fun_IsInj DEF Distinct
<1>2. Cardinality(1..Len(s)) = Len(s)
  <2>1. Len(s) \in Nat /\ Len(s) \in Int /\ 1 \in Int
    OBVIOUS
  <2>2. Cardinality(1..Len(s)) = IF 1 > Len(s) THEN 0 ELSE Len(s) - 1 + 1
    BY <2>1, FS_Interval
  <2>. QED  BY <2>1, <2>2
<1>3. s \in Surjection(1..Len(s), S)
  <2>1. Cardinality(1..Len(s)) <= Cardinality(S)
    BY <1>1, FS_Injection
  <2>2. Cardinality(S) \in Nat
    BY FS_CardinalityType
  <2>3. Cardinality(1..Len(s)) = Cardinality(S)
    BY <1>2, <2>1, <2>2
  <2>. QED  BY <1>1, <2>3, FS_Injection
<1>. QED  BY <1>3 DEF Surjection, IsIn

\* A sequence is one over any set that holds its elements.
LEMMA SeqOver ==
  ASSUME NEW T, NEW s \in Seq(T), NEW S, \A i \in 1..Len(s) : s[i] \in S
  PROVE  s \in Seq(S)
<1>1. s \in [1..Len(s) -> S] /\ Len(s) \in Nat
  OBVIOUS
<1>. QED  BY <1>1

\* Only the thread that the queue's lock serves makes others pass.
LEMMA OneWalker ==
  ASSUME Parts, NEW t \in Threads, Served(t, Barrier)
  PROVE  /\ \A u \in Threads : pc[u] \in Walking => u = t
         /\ pc[t] \notin Walking => Nobody
BY DEF Parts, Served, Nobody

\* The types, as the steps of the barrier need them.
LEMMA Typed ==
  ASSUME TypeOK, Parts
  PROVE  /\ pc \in [Threads -> MutexLabels \cup BarrierLabels] /\ heap \in Heaps
         /\ line \in [Queues -> Seq(Threads)] /\ waiting \in 0..(Amount - 1)
         /\ cell \in [Threads -> Threads \cup {NULL}] /\ round \in [Threads -> 0..Rounds]
         /\ heap.wait \in [Threads -> {0, 1}] /\ Rounds \in Nat /\ Amount \in Nat \ {0}
         /\ Barrier \in Queues /\ Team \subseteq Threads /\ NULL \notin Threads
BY Queued, HeapFields, RoundsAssumption DEF TypeOK, Ptr

\* A thread in no list may come to have its wait byte and its place changed.
LEMMA ListsKept ==
  ASSUME NEW C, Lists(C), NEW t \in Threads, pc[t] # "wait", UNCHANGED heap,
         \A u \in Threads \ {t} : pc'[u] = pc[u]
  PROVE  Lists(C)'
BY DEF Lists

\* A thread comes to the barrier.
LEMMA ArriveKeeps ==
  ASSUME IInv, NEW t \in Team, Arrive(t)
  PROVE  IInv'
<1>. USE Typed DEF Goto
<1>r. TypeOK /\ Parts /\ t \in Threads
  BY Queued DEF IInv
<1>1. /\ pc[t] = "idle" /\ pc' = [pc EXCEPT ![t] = "b_spin"] /\ round[t] < Rounds
      /\ line' = Join(t, Barrier)
      /\ UNCHANGED <<then, mutex, held, owned, heap, waiting, cell, round>>
  BY DEF Arrive, barrierVars
<1>2. TypeOK'
  BY <1>r, <1>1, Lines DEF TypeOK, BarrierLabels
<1>3. Parts'
  <2>1. \A u \in Threads : Served(u, Barrier) => Served(u, Barrier)'
    <3>1. line \in [Queues -> Seq(Threads)] /\ Barrier \in Queues
      BY <1>r
    <3>2. line[Barrier] # <<>> => line'[Barrier] # <<>> /\ Head(line'[Barrier]) = Head(line[Barrier])
      <4>1. line' = Join(t, Barrier) /\ t \in Threads
        BY <1>r, <1>1
      <4>2. \A q \in Queues : line[q] # <<>> =>
              Join(t, Barrier)[q] # <<>> /\ Head(Join(t, Barrier)[q]) = Head(line[q])
        BY <3>1, <4>1, Lines
      <4>. QED  BY <3>1, <4>1, <4>2
    <3>. QED  BY <3>2 DEF Served
  <2>2. \A u \in Threads : pc'[u] = IF u = t THEN "b_spin" ELSE pc[u]
    BY <1>r, <1>1
  <2>3. ASSUME NEW u \in Threads
        PROVE  /\ pc'[u] # "u_take"
               /\ pc'[u] \in {"l_take", "l_try", "wait", "u_try"} => mutex[u] \in Mutexes /\ u \notin Team
               /\ pc'[u] \in BarrierLabels => u \in Team /\ round[u] < Rounds
               /\ pc'[u] \in Walking => Served(u, Barrier)
    BY <1>r, <1>1, <2>2 DEF Parts, Walking, BarrierLabels
  <2>. QED  BY <1>r, <1>1, <2>1, <2>3 DEF Parts
<1>4. PICK C : Lists(C) /\ Progress(C[Barrier])
  BY DEF IInv
<1>5. Lists(C)'
  BY <1>r, <1>1, <1>4, ListsKept
<1>6. ASSUME NEW p \in 0..Rounds, Nobody, Open(C[Barrier], p)
      PROVE  Nobody' /\ Open(C[Barrier], p)'
  BY <1>r, <1>1, <1>6 DEF Nobody, Walking, Open
<1>7. ASSUME NEW p \in 0..Rounds, NEW w \in Team, pc[w] \in Walking, Closing(w, C[Barrier], p)
      PROVE  pc'[w] \in Walking /\ Closing(w, C[Barrier], p)'
  <2>1. w # t /\ w \in Threads
    BY <1>1, <1>7, Queued DEF Walking
  <2>2. \A u \in Threads : pc'[u] = IF u = t THEN "b_spin" ELSE pc[u]
    BY <1>r, <1>1
  <2>. QED  BY <1>r, <1>1, <1>7, <2>1, <2>2, Queued DEF Closing, Bit
<1>8. Progress(C[Barrier])'
  BY <1>4, <1>6, <1>7 DEF Progress
<1>. QED  BY <1>2, <1>3, <1>5, <1>8 DEF IInv

\* A thread that is not the last queues its cell.
LEMMA CountKeeps ==
  ASSUME IInv, NEW t \in Threads, Count(t), waiting + 1 < Amount
  PROVE  IInv'
<1>. USE Typed DEF Goto
<1>r. TypeOK /\ Parts /\ t \in Team /\ round[t] < Rounds
  BY DEF IInv, Parts, Count, BarrierLabels
<1>1. /\ pc[t] = "b_spin" /\ pc' = [pc EXCEPT ![t] = "b_wait"] /\ waiting' = waiting + 1
      /\ heap' = Enqueue(heap, Barrier, t) /\ line' = Leave(Barrier) /\ Served(t, Barrier)
      /\ UNCHANGED <<then, mutex, held, owned, cell, round>>
  BY DEF Count
<1>2. Nobody /\ line[Barrier] # <<>>
  BY <1>r, <1>1, OneWalker DEF Walking, Served
<1>3. TypeOK'
  <2>1. heap' \in Heaps
    BY <1>r, <1>1, EnqueueHeap
  <2>2. line' \in [Queues -> Seq(Threads)]
    BY <1>r, <1>1, <1>2, Lines
  <2>. QED  BY <1>r, <1>1, <2>1, <2>2 DEF TypeOK, BarrierLabels
<1>4. \A u \in Threads : pc'[u] = IF u = t THEN "b_wait" ELSE pc[u]
  BY <1>r, <1>1
<1>5. Nobody'
  BY <1>2, <1>4 DEF Nobody, Walking
<1>6. Parts'
  BY <1>r, <1>1, <1>4, <1>5 DEF Parts, Nobody, BarrierLabels
<1>7. PICK C : Lists(C) /\ Progress(C[Barrier])
  BY DEF IInv
<1>8. PICK p \in 0..Rounds : Open(C[Barrier], p)
  BY <1>2, <1>7, Queued DEF Progress, Nobody
<1>9. /\ Sound(heap, C, {}) /\ C \in [Queues -> Seq(Threads)] /\ C[Barrier] \in Seq(Threads)
      /\ Distinct(C[Barrier])
  BY <1>7, Queued DEF Lists, Sound
<1>10. \A q \in Queues : ~ IsIn(t, C[q])
  <2>1. \A q \in Mutexes : ~ IsIn(t, C[q])
    BY <1>1, <1>7 DEF Lists
  <2>2. ~ IsIn(t, C[Barrier])
    BY <1>1, <1>8 DEF Open
  <2>. QED  BY <2>1, <2>2, BarrierAssumption DEF Others
<1>11. PICK D : D = [C EXCEPT ![Barrier] = Append(@, t)]
  OBVIOUS
<1>12. Sound(heap', D, {})
  BY <1>r, <1>1, <1>9, <1>10, <1>11, SoundEnqueue
<1>13. \A u \in Threads : heap'.wait[u] = IF u = t THEN 1 ELSE heap.wait[u]
  BY <1>r, <1>1, WaitBytes
<1>14. /\ D[Barrier] = Append(C[Barrier], t) /\ \A q \in Mutexes : D[q] = C[q]
       /\ \A u \in Threads : IsIn(u, D[Barrier]) <=> IsIn(u, C[Barrier]) \/ u = t
  BY <1>r, <1>9, <1>10, <1>11, Queued, AppendHolds
<1>15. Lists(D)'
  <2>1. ASSUME NEW m \in Mutexes, NEW u \in Threads, IsIn(u, D[m])
        PROVE  pc'[u] = "wait" /\ heap'.wait[u] = 1
    <3>1. pc[u] = "wait" /\ heap.wait[u] = 1
      BY <1>7, <1>14, <2>1 DEF Lists
    <3>. QED  BY <1>1, <1>4, <1>13, <3>1
  <2>2. \A u \in Threads : IsIn(u, D[Barrier]) => u \in Team
    BY <1>r, <1>7, <1>14 DEF Lists
  <2>. QED  BY <1>12, <2>1, <2>2 DEF Lists
<1>16. Open(D[Barrier], p)'
  <2>1. waiting' = Len(D[Barrier])
    BY <1>1, <1>8, <1>9, <1>14 DEF Open
  <2>2. \A u \in Threads : IsIn(u, D[Barrier]) <=> pc'[u] = "b_wait" /\ heap'.wait[u] = 1
    BY <1>4, <1>8, <1>13, <1>14 DEF Open
  <2>3. ASSUME NEW u \in Team
        PROVE  round'[u] + Bit(pc'[u] = "b_wait" /\ heap'.wait[u] = 0) = p
    BY <1>r, <1>1, <1>4, <1>8, <1>13 DEF Open, Bit
  <2>. QED  BY <2>1, <2>2, <2>3 DEF Open
<1>. QED  BY <1>3, <1>5, <1>6, <1>15, <1>16, RoundsAssumption DEF IInv, Progress

\* The last thread finds all the others in the list.
LEMMA LastKeeps ==
  ASSUME IInv, NEW t \in Threads, Count(t), ~ (waiting + 1 < Amount)
  PROVE  IInv'
<1>. USE Typed DEF Goto
<1>r. TypeOK /\ Parts /\ t \in Team /\ round[t] < Rounds
  BY DEF IInv, Parts, Count, BarrierLabels
<1>1. /\ pc[t] = "b_spin" /\ Served(t, Barrier)
      /\ pc' = [pc EXCEPT ![t] = IF heap.head[Barrier] = NULL THEN "b_flush" ELSE "b_wake"]
      /\ waiting' = 0 /\ cell' = [cell EXCEPT ![t] = heap.head[Barrier]]
      /\ UNCHANGED <<then, mutex, held, owned, round, line, heap>>
  BY DEF Count
<1>2. Nobody
  BY <1>r, <1>1, OneWalker DEF Walking
<1>3. TypeOK'
  <2>1. heap.head[Barrier] \in Threads \cup {NULL}
    BY <1>r, HeapFields DEF Ptr
  <2>. QED  BY <1>r, <1>1, <2>1 DEF TypeOK, BarrierLabels, Ptr
<1>4. \A u \in Threads \ {t} : pc'[u] = pc[u]
  BY <1>r, <1>1
<1>5. pc'[t] \in {"b_wake", "b_flush"}
  BY <1>r, <1>1
<1>6. Parts'
  <2>1. \A u \in Threads : Served(u, Barrier) <=> Served(u, Barrier)'
    BY <1>1 DEF Served
  <2>2. ASSUME NEW u \in Threads
        PROVE  /\ pc'[u] # "u_take"
               /\ pc'[u] \in {"l_take", "l_try", "wait", "u_try"} => mutex[u] \in Mutexes /\ u \notin Team
               /\ pc'[u] \in BarrierLabels => u \in Team /\ round[u] < Rounds
               /\ pc'[u] \in Walking => Served(u, Barrier)
    BY <1>r, <1>1, <1>4, <1>5 DEF Parts, Walking, BarrierLabels
  <2>. QED  BY <1>r, <1>1, <2>1, <2>2 DEF Parts
<1>7. PICK C : Lists(C) /\ Progress(C[Barrier])
  BY DEF IInv
<1>8. PICK p \in 0..Rounds : Open(C[Barrier], p)
  BY <1>2, <1>7, Queued DEF Progress, Nobody
<1>9. Lists(C)'
  BY <1>r, <1>1, <1>4, <1>7, ListsKept
<1>. DEFINE s == C[Barrier]
<1>10. s \in Seq(Threads) /\ Distinct(s) /\ Represents(heap, Barrier, s) /\ Sound(heap, C, {})
  BY <1>7, Queued, SoundLists DEF Lists
<1>11. \A i \in 1..Len(s) : s[i] \in Team \ {t} /\ heap.wait[s[i]] = 1
  <2>1. \A i \in 1..Len(s) : s[i] \in Threads /\ IsIn(s[i], s)
    BY <1>10 DEF IsIn
  <2>. QED  BY <1>1, <1>7, <1>8, <2>1 DEF Open, Lists
<1>12. \A u \in Team \ {t} : IsIn(u, s)
  <2>1. IsFiniteSet(Team \ {t}) /\ Cardinality(Team \ {t}) = Amount - 1
    BY <1>r, Queued, FS_RemoveElement DEF Amount
  <2>2. s \in Seq(Team \ {t})
    <3>1. s \in Seq(Threads) /\ \A i \in 1..Len(s) : s[i] \in Team \ {t}
      BY <1>10, <1>11
    <3>. HIDE DEF s
    <3>. QED  BY <3>1, SeqOver
  <2>3. Cardinality(Team \ {t}) <= Len(s)
    BY <1>r, <1>8, <2>1 DEF Open
  <2>. HIDE DEF s
  <2>. QED  BY <1>10, <2>1, <2>2, <2>3, Full
<1>13. \A u \in Team : IsIn(u, s) <=> u # t
  BY <1>11, <1>12 DEF IsIn
<1>14. \A u \in Team \ {t} : pc[u] = "b_wait" /\ heap.wait[u] = 1 /\ round[u] = p
  <2>1. ASSUME NEW u \in Team \ {t} PROVE pc[u] = "b_wait" /\ heap.wait[u] = 1
    BY <1>8, <1>13, <2>1, Queued DEF Open
  <2>2. ASSUME NEW u \in Team \ {t} PROVE round[u] = p
    <3>1. round[u] + Bit(pc[u] = "b_wait" /\ heap.wait[u] = 0) = p /\ round[u] \in Nat
      BY <1>r, <1>8 DEF Open
    <3>2. Bit(pc[u] = "b_wait" /\ heap.wait[u] = 0) = 0
      BY <2>1 DEF Bit
    <3>. QED  BY <3>1, <3>2
  <2>. QED  BY <2>1, <2>2
<1>15. round[t] = p
  <2>1. round[t] + Bit(pc[t] = "b_wait" /\ heap.wait[t] = 0) = p
    BY <1>r, <1>8 DEF Open
  <2>2. round[t] \in Nat
    BY <1>r
  <2>. QED  BY <1>1, <2>1, <2>2 DEF Bit
<1>16. /\ s = <<>> => heap.head[Barrier] = NULL
       /\ s # <<>> => heap.head[Barrier] = s[1] /\ s[1] \in Threads
  BY <1>10 DEF Represents
<1>17. Closing(t, s, p)'
  <2>1. \A u \in Team \ {t} :
          /\ pc'[u] \in {"b_wait", "b_spin", "idle"}
          /\ heap'.wait[u] = 1 => pc'[u] = "b_wait"
          /\ round'[u] + Bit(pc'[u] = "b_wait") = p + 1
    BY <1>r, <1>1, <1>4, <1>14 DEF Bit
  <2>2. /\ \A i \in 1..Len(s) : heap'.wait[s[i]] = Bit(1 <= i)
        /\ 1 \in 1..(Len(s) + 1)
    BY <1>1, <1>10, <1>11 DEF Bit
  <2>3. /\ pc'[t] = "b_wake" => 1 <= Len(s) /\ cell'[t] = s[1]
        /\ pc'[t] = "b_flush" => 1 = Len(s) + 1
    <3>1. /\ pc'[t] = IF heap.head[Barrier] = NULL THEN "b_flush" ELSE "b_wake"
          /\ cell'[t] = heap.head[Barrier] /\ NULL \notin Threads
      BY <1>r, <1>1
    <3>2. CASE s = <<>>
      BY <1>16, <3>1, <3>2
    <3>3. CASE s # <<>>
      <4>1. 1 <= Len(s)
        BY <1>10, <3>3
      <4>. QED  BY <1>16, <3>1, <3>3, <4>1
    <3>. QED  BY <3>2, <3>3
  <2>. HIDE DEF s
  <2>. QED  BY <1>1, <1>5, <1>13, <1>15, <2>1, <2>2, <2>3 DEF Closing
<1>18. Progress(s)'
  BY <1>r, <1>5, <1>17, RoundsAssumption DEF Progress, Walking
<1>. QED  BY <1>3, <1>6, <1>9, <1>18 DEF IInv

\* The walk wakes the next thread of the list.
LEMMA WakeKeeps ==
  ASSUME IInv, NEW t \in Threads, WakeOne(t)
  PROVE  IInv'
<1>. USE Typed DEF Goto
<1>r. TypeOK /\ Parts /\ t \in Team /\ round[t] < Rounds /\ Served(t, Barrier)
  BY DEF IInv, Parts, WakeOne, BarrierLabels, Walking
<1>1. /\ pc[t] = "b_wake" /\ pc' = [pc EXCEPT ![t] = "b_next"] /\ heap' = Wake(heap, cell[t])
      /\ UNCHANGED <<then, mutex, held, owned, line, waiting, cell, round>>
  BY DEF WakeOne, barrierVars
<1>2. PICK C : Lists(C) /\ Progress(C[Barrier])
  BY DEF IInv
<1>. DEFINE s == C[Barrier]
<1>3. PICK p \in 0..Rounds : Closing(t, s, p)
  BY <1>r, <1>1, <1>2, OneWalker DEF Progress, Nobody, Walking
<1>4. s \in Seq(Threads) /\ Distinct(s) /\ Sound(heap, C, {})
  BY <1>2, Queued DEF Lists, Sound
<1>. HIDE DEF s
<1>5. PICK k \in 1..(Len(s) + 1) :
        k <= Len(s) /\ cell[t] = s[k] /\ \A i \in 1..Len(s) : heap.wait[s[i]] = Bit(k <= i)
  BY <1>1, <1>3 DEF Closing
<1>6. PICK c \in Team \ {t} : c = s[k] /\ c = cell[t] /\ heap.wait[c] = 1 /\ pc[c] = "b_wait"
  <2>1. k \in 1..Len(s) /\ s[k] \in Threads /\ IsIn(s[k], s)
    BY <1>4, <1>5 DEF IsIn
  <2>2. s[k] \in Team \ {t}
    BY <1>2, <1>3, <2>1 DEF Lists, Closing, s
  <2>3. heap.wait[s[k]] = 1
    BY <1>5, <2>1 DEF Bit
  <2>. QED  BY <1>3, <1>5, <2>2, <2>3 DEF Closing
<1>7. \A u \in Threads : heap'.wait[u] = IF u = c THEN 0 ELSE heap.wait[u]
  BY <1>r, <1>1, <1>6, WaitBytes
<1>8. \A u \in Threads : pc'[u] = IF u = t THEN "b_next" ELSE pc[u]
  BY <1>r, <1>1
<1>9. TypeOK'
  <2>1. heap' \in Heaps
    BY <1>r, <1>1, <1>6, FlushWakeHeap
  <2>. QED  BY <1>r, <1>1, <2>1 DEF TypeOK, BarrierLabels
<1>10. Parts'
  <2>1. \A u \in Threads : Served(u, Barrier) <=> Served(u, Barrier)'
    BY <1>1 DEF Served
  <2>2. ASSUME NEW u \in Threads
        PROVE  /\ pc'[u] # "u_take"
               /\ pc'[u] \in {"l_take", "l_try", "wait", "u_try"} => mutex[u] \in Mutexes /\ u \notin Team
               /\ pc'[u] \in BarrierLabels => u \in Team /\ round[u] < Rounds
               /\ pc'[u] \in Walking => Served(u, Barrier)
    BY <1>r, <1>8 DEF Parts, Walking, BarrierLabels
  <2>. QED  BY <1>r, <1>1, <2>1, <2>2 DEF Parts
<1>11. Lists(C)'
  <2>1. Sound(heap', C, {})
    BY <1>r, <1>1, <1>4, <1>6, SoundWake
  <2>2. ASSUME NEW m \in Mutexes, NEW u \in Threads, IsIn(u, C[m])
        PROVE  pc'[u] = "wait" /\ heap'.wait[u] = 1
    <3>1. pc[u] = "wait" /\ heap.wait[u] = 1
      BY <1>2, <2>2 DEF Lists
    <3>. QED  BY <1>1, <1>6, <1>7, <1>8, <3>1
  <2>. QED  BY <1>2, <2>1, <2>2 DEF Lists
<1>12. Closing(t, s, p)'
  <2>1. \A u \in Team \ {t} :
          /\ pc'[u] \in {"b_wait", "b_spin", "idle"}
          /\ heap'.wait[u] = 1 => pc'[u] = "b_wait"
          /\ round'[u] + Bit(pc'[u] = "b_wait") = p + 1
    BY <1>r, <1>1, <1>3, <1>7, <1>8 DEF Closing
  <2>2. k + 1 \in 1..(Len(s) + 1) /\ 1 < k + 1 /\ cell'[t] = s[(k + 1) - 1]
    BY <1>1, <1>4, <1>5
  <2>3. ASSUME NEW i \in 1..Len(s)
        PROVE  heap'.wait[s[i]] = Bit(k + 1 <= i)
    <3>1. s[i] \in Threads /\ (s[i] = c <=> i = k)
      BY <1>4, <1>5, <1>6 DEF Distinct
    <3>. QED  BY <1>5, <1>7, <3>1 DEF Bit
  <2>4. pc'[t] = "b_next"
    BY <1>8
  <2>5. /\ waiting' = 0 /\ round'[t] = p
        /\ \A u \in Team : IsIn(u, s) <=> u # t
    BY <1>1, <1>3 DEF Closing
  <2>. QED  BY <2>1, <2>2, <2>3, <2>4, <2>5 DEF Closing
<1>13. Progress(s)'
  BY <1>r, <1>8, <1>12 DEF Progress, Walking
<1>. QED  BY <1>9, <1>10, <1>11, <1>13 DEF IInv, s

\* The walk goes from a thread that is awake to the next, or to the end.
LEMMA NextKeeps ==
  ASSUME IInv, NEW t \in Threads, NextOne(t)
  PROVE  IInv'
<1>. USE Typed DEF Goto
<1>r. TypeOK /\ Parts /\ t \in Team /\ round[t] < Rounds /\ Served(t, Barrier)
  BY DEF IInv, Parts, NextOne, BarrierLabels, Walking
<1>1. /\ pc[t] = "b_next" /\ cell' = [cell EXCEPT ![t] = heap.next[cell[t]]]
      /\ pc' = [pc EXCEPT ![t] = IF cell'[t] = NULL THEN "b_flush" ELSE "b_wake"]
      /\ UNCHANGED <<then, mutex, held, owned, line, heap, waiting, round>>
  BY DEF NextOne
<1>2. PICK C : Lists(C) /\ Progress(C[Barrier])
  BY DEF IInv
<1>. DEFINE s == C[Barrier]
<1>3. PICK p \in 0..Rounds : Closing(t, s, p)
  BY <1>r, <1>1, <1>2, OneWalker DEF Progress, Nobody, Walking
<1>4. s \in Seq(Threads) /\ Represents(heap, Barrier, s)
  BY <1>2, Queued, SoundLists DEF Lists
<1>. HIDE DEF s
<1>5. PICK k \in 1..(Len(s) + 1) :
        1 < k /\ cell[t] = s[k - 1] /\ \A i \in 1..Len(s) : heap.wait[s[i]] = Bit(k <= i)
  BY <1>1, <1>3 DEF Closing
<1>6. heap.next[s[k - 1]] = IF k <= Len(s) THEN s[k] ELSE NULL
  <2>0. Len(s) \in Nat /\ s # <<>>
    BY <1>4, <1>5
  <2>1. /\ heap.next[s[Len(s)]] = NULL
        /\ \A i \in 1..(Len(s) - 1) : heap.next[s[i]] = s[i + 1]
    BY ONLY <1>4, <2>0 DEF Represents, Linked
  <2>2. CASE k <= Len(s)
    <3>1. k - 1 \in 1..(Len(s) - 1) /\ (k - 1) + 1 = k
      BY <1>4, <1>5, <2>2
    <3>. QED  BY <2>1, <2>2, <3>1
  <2>3. CASE ~ (k <= Len(s))
    <3>1. k - 1 = Len(s)
      BY <1>4, <1>5, <2>3
    <3>. QED  BY <2>1, <2>3, <3>1
  <2>. QED  BY <2>2, <2>3
<1>7. /\ cell'[t] = IF k <= Len(s) THEN s[k] ELSE NULL
      /\ cell'[t] \in Threads \cup {NULL}
      /\ k <= Len(s) => s[k] \in Threads
  BY <1>r, <1>1, <1>4, <1>5, <1>6
<1>8. /\ \A u \in Threads \ {t} : pc'[u] = pc[u]
      /\ pc'[t] = IF k <= Len(s) THEN "b_wake" ELSE "b_flush"
  BY <1>r, <1>1, <1>7
<1>9. TypeOK'
  BY <1>r, <1>1, <1>7 DEF TypeOK, BarrierLabels, Ptr
<1>10. Parts'
  <2>1. \A u \in Threads : Served(u, Barrier) <=> Served(u, Barrier)'
    BY <1>1 DEF Served
  <2>2. ASSUME NEW u \in Threads
        PROVE  /\ pc'[u] # "u_take"
               /\ pc'[u] \in {"l_take", "l_try", "wait", "u_try"} => mutex[u] \in Mutexes /\ u \notin Team
               /\ pc'[u] \in BarrierLabels => u \in Team /\ round[u] < Rounds
               /\ pc'[u] \in Walking => Served(u, Barrier)
    BY <1>r, <1>8 DEF Parts, Walking, BarrierLabels
  <2>. QED  BY <1>r, <1>1, <2>1, <2>2 DEF Parts
<1>11. Lists(C)'
  BY <1>r, <1>1, <1>2, <1>8, ListsKept
<1>12. Closing(t, s, p)'
  <2>1. \A u \in Team \ {t} :
          /\ pc'[u] \in {"b_wait", "b_spin", "idle"}
          /\ heap'.wait[u] = 1 => pc'[u] = "b_wait"
          /\ round'[u] + Bit(pc'[u] = "b_wait") = p + 1
    BY <1>r, <1>1, <1>3, <1>8 DEF Closing
  <2>2. /\ pc'[t] = "b_wake" => k <= Len(s) /\ cell'[t] = s[k]
        /\ pc'[t] = "b_flush" => k = Len(s) + 1
        /\ pc'[t] # "b_next"
    BY <1>4, <1>5, <1>7, <1>8
  <2>3. /\ waiting' = 0 /\ round'[t] = p
        /\ \A u \in Team : IsIn(u, s) <=> u # t
        /\ \A i \in 1..Len(s) : heap'.wait[s[i]] = Bit(k <= i)
    BY <1>1, <1>3, <1>5 DEF Closing
  <2>. QED  BY <2>1, <2>2, <2>3 DEF Closing
<1>13. Progress(s)'
  BY <1>r, <1>8, <1>12 DEF Progress, Walking
<1>. QED  BY <1>9, <1>10, <1>11, <1>13 DEF IInv, s

\* All are awake: the list is dropped, and the walker passes too.
LEMMA FinishKeeps ==
  ASSUME IInv, NEW t \in Threads, Finish(t)
  PROVE  IInv'
<1>. USE Typed DEF Goto
<1>r. TypeOK /\ Parts /\ t \in Team /\ round[t] < Rounds /\ Served(t, Barrier)
  BY DEF IInv, Parts, Finish, BarrierLabels, Walking
<1>1. /\ pc[t] = "b_flush" /\ pc' = [pc EXCEPT ![t] = "idle"] /\ heap' = Flush(heap, Barrier)
      /\ line' = Leave(Barrier) /\ round' = [round EXCEPT ![t] = round[t] + 1]
      /\ UNCHANGED <<then, mutex, held, owned, waiting, cell>>
  BY DEF Finish
<1>2. PICK C : Lists(C) /\ Progress(C[Barrier])
  BY DEF IInv
<1>. DEFINE s == C[Barrier]
<1>3. PICK p \in 0..Rounds : Closing(t, s, p)
  BY <1>r, <1>1, <1>2, OneWalker DEF Progress, Nobody, Walking
<1>4. s \in Seq(Threads) /\ Sound(heap, C, {}) /\ C \in [Queues -> Seq(Threads)]
  BY <1>2, Queued DEF Lists, Sound
<1>. HIDE DEF s
<1>5. \A u \in Threads : heap'.wait[u] = heap.wait[u]
  BY <1>r, <1>1, MovedBytes
<1>6. \A i \in 1..Len(s) : heap.wait[s[i]] = 0
  BY <1>1, <1>3, <1>4 DEF Closing, Bit
<1>7. \A u \in Team \ {t} : heap.wait[u] = 0
  BY <1>3, <1>6 DEF Closing, IsIn
<1>8. \A u \in Threads : pc'[u] = IF u = t THEN "idle" ELSE pc[u]
  BY <1>r, <1>1
<1>9. Nobody'
  BY <1>r, <1>8, OneWalker DEF Nobody, Walking
<1>10. TypeOK'
  <2>1. heap' \in Heaps
    BY <1>r, <1>1, FlushWakeHeap
  <2>2. line' \in [Queues -> Seq(Threads)]
    BY <1>r, <1>1, Lines DEF Served
  <2>3. round' \in [Threads -> 0..Rounds]
    BY <1>r, <1>1
  <2>. QED  BY <1>r, <1>1, <2>1, <2>2, <2>3 DEF TypeOK, MutexLabels
<1>11. Parts'
  <2>1. ASSUME NEW u \in Threads
        PROVE  /\ pc'[u] # "u_take"
               /\ pc'[u] \in {"l_take", "l_try", "wait", "u_try"} => mutex[u] \in Mutexes /\ u \notin Team
               /\ pc'[u] \in BarrierLabels => u \in Team /\ round'[u] < Rounds
    BY <1>r, <1>1, <1>8 DEF Parts, BarrierLabels
  <2>. QED  BY <1>r, <1>1, <1>9, <2>1 DEF Parts, Nobody
<1>12. PICK D : D = [C EXCEPT ![Barrier] = <<>>]
  OBVIOUS
<1>13. D[Barrier] = <<>> /\ \A m \in Mutexes : D[m] = C[m]
  BY <1>4, <1>12, Queued
<1>14. Lists(D)'
  <2>1. Sound(heap', D, {} \ {Barrier})
    BY <1>r, <1>1, <1>4, <1>12, SoundFlush
  <2>3. {} \ {Barrier} = {}
    OBVIOUS
  <2>2. ASSUME NEW m \in Mutexes, NEW u \in Threads, IsIn(u, D[m])
        PROVE  pc'[u] = "wait" /\ heap'.wait[u] = 1
    <3>1. pc[u] = "wait" /\ heap.wait[u] = 1
      BY <1>2, <1>13, <2>2 DEF Lists
    <3>. QED  BY <1>1, <1>5, <1>8, <3>1
  <2>. QED  BY <1>13, <2>1, <2>2, <2>3 DEF Lists, IsIn
<1>15. p + 1 \in 0..Rounds
  BY <1>r, <1>3 DEF Closing
<1>16. Open(<<>>, p + 1)'
  <2>1. ASSUME NEW u \in Threads PROVE ~ (pc'[u] = "b_wait" /\ heap'.wait[u] = 1)
    <3>1. CASE u \in Team
      BY <1>5, <1>7, <1>8, <3>1
    <3>2. CASE u \notin Team
      BY <1>r, <1>8, <3>2 DEF Parts, BarrierLabels
    <3>. QED  BY <3>1, <3>2
  <2>2. ASSUME NEW u \in Team
        PROVE  round'[u] + Bit(pc'[u] = "b_wait" /\ heap'.wait[u] = 0) = p + 1
    <3>1. CASE u = t
      BY <1>r, <1>1, <1>3, <1>8, <3>1 DEF Closing, Bit
    <3>2. CASE u # t
      <4>1. round[u] + Bit(pc[u] = "b_wait") = p + 1 /\ heap.wait[u] = 0
        BY <1>3, <1>7, <3>2 DEF Closing
      <4>. QED  BY <1>r, <1>1, <1>5, <1>8, <3>2, <4>1
    <3>. QED  BY <3>1, <3>2
  <2>3. waiting' = 0
    BY <1>1, <1>3 DEF Closing
  <2>. QED  BY <2>1, <2>2, <2>3 DEF Open, IsIn
<1>17. Progress(D[Barrier])'
  BY <1>9, <1>13, <1>15, <1>16 DEF Progress
<1>. QED  BY <1>10, <1>11, <1>14, <1>17 DEF IInv

\* A thread that was woken passes, whether the walk is over or not.
LEMMA PassKeeps ==
  ASSUME IInv, NEW t \in Threads, Pass(t)
  PROVE  IInv'
<1>. USE Typed DEF Goto
<1>r. TypeOK /\ Parts /\ t \in Team /\ round[t] < Rounds
  BY DEF IInv, Parts, Pass, BarrierLabels
<1>1. /\ pc[t] = "b_wait" /\ heap.wait[t] = 0 /\ pc' = [pc EXCEPT ![t] = "idle"]
      /\ round' = [round EXCEPT ![t] = round[t] + 1]
      /\ UNCHANGED <<then, mutex, held, owned, line, heap, waiting, cell>>
  BY DEF Pass
<1>2. PICK C : Lists(C) /\ Progress(C[Barrier])
  BY DEF IInv
<1>3. /\ \A u \in Threads : pc'[u] = IF u = t THEN "idle" ELSE pc[u]
      /\ \A u \in Threads : round'[u] = IF u = t THEN round[u] + 1 ELSE round[u]
  BY <1>r, <1>1
<1>4. TypeOK'
  <2>1. round' \in [Threads -> 0..Rounds]
    BY <1>r, <1>1
  <2>. QED  BY <1>r, <1>1, <2>1 DEF TypeOK, MutexLabels
<1>5. Parts'
  <2>1. \A u \in Threads : Served(u, Barrier) <=> Served(u, Barrier)'
    BY <1>1 DEF Served
  <2>2. ASSUME NEW u \in Threads
        PROVE  /\ pc'[u] # "u_take"
               /\ pc'[u] \in {"l_take", "l_try", "wait", "u_try"} => mutex[u] \in Mutexes /\ u \notin Team
               /\ pc'[u] \in BarrierLabels => u \in Team /\ round'[u] < Rounds
               /\ pc'[u] \in Walking => Served(u, Barrier)
    BY <1>r, <1>1, <1>3 DEF Parts, Walking, BarrierLabels
  <2>. QED  BY <1>r, <1>1, <2>1, <2>2 DEF Parts
<1>6. Lists(C)'
  BY <1>r, <1>1, <1>2, <1>3, ListsKept
<1>7. ASSUME NEW p \in 0..Rounds, Nobody, Open(C[Barrier], p)
      PROVE  Nobody' /\ Open(C[Barrier], p)'
  <2>1. ASSUME NEW u \in Team
        PROVE  round'[u] + Bit(pc'[u] = "b_wait" /\ heap'.wait[u] = 0) = p
    <3>1. round[u] + Bit(pc[u] = "b_wait" /\ heap.wait[u] = 0) = p /\ round[u] \in Nat
      BY <1>r, <1>7 DEF Open
    <3>. QED  BY <1>r, <1>1, <1>3, <3>1 DEF Bit
  <2>. QED  BY <1>1, <1>3, <1>7, <2>1 DEF Nobody, Walking, Open
<1>8. ASSUME NEW p \in 0..Rounds, NEW w \in Team, pc[w] \in Walking, Closing(w, C[Barrier], p)
      PROVE  pc'[w] \in Walking /\ Closing(w, C[Barrier], p)'
  <2>1. w # t /\ w \in Threads
    BY <1>r, <1>1, <1>8 DEF Walking
  <2>2. ASSUME NEW u \in Team \ {w}
        PROVE  /\ pc'[u] \in {"b_wait", "b_spin", "idle"}
               /\ heap'.wait[u] = 1 => pc'[u] = "b_wait"
               /\ round'[u] + Bit(pc'[u] = "b_wait") = p + 1
    <3>1. /\ pc[u] \in {"b_wait", "b_spin", "idle"} /\ (heap.wait[u] = 1 => pc[u] = "b_wait")
          /\ round[u] + Bit(pc[u] = "b_wait") = p + 1 /\ round[u] \in Nat
      BY <1>r, <1>8 DEF Closing
    <3>. QED  BY <1>r, <1>1, <1>3, <3>1 DEF Bit
  <2>3. pc'[w] = pc[w] /\ round'[w] = round[w]
    BY <1>3, <2>1
  <2>. QED  BY <1>1, <1>8, <2>2, <2>3 DEF Closing
<1>9. Progress(C[Barrier])'
  BY <1>2, <1>7, <1>8 DEF Progress
<1>. QED  BY <1>4, <1>5, <1>6, <1>9 DEF IInv

---------------------------------------------------------------------------
\* The invariant

LEMMA InitHolds == Init => IInv
<1>. SUFFICES ASSUME Init PROVE IInv
  OBVIOUS
<1>. USE Queued, RoundsAssumption DEF Init, MutexInit
<1>1. heap \in Heaps /\ \A t \in Threads : heap.wait[t] = 0
  BY DEF ZeroHeap, Heaps, Ptr
<1>2. TypeOK
  BY <1>1 DEF TypeOK, MutexLabels, Ptr
<1>3. Parts
  BY DEF Parts, BarrierLabels, Walking
<1>4. PICK C : C = [q \in Queues |-> <<>>]
  OBVIOUS
<1>5. /\ C \in [Queues -> Seq(Threads)] /\ C[Barrier] = <<>>
      /\ \A q \in Queues : C[q] = <<>> /\ heap.head[q] = NULL /\ heap.tail[q] = NULL
  BY <1>4 DEF ZeroHeap
<1>6. Lists(C)
  <2>1. Sound(heap, C, {})
    BY <1>1, <1>5, SoundAll DEF Distinct, Separate, Represents
  <2>. QED  BY <1>5, <2>1, Queued DEF Lists, IsIn
<1>7. Nobody /\ Open(<<>>, 0)
  BY <1>1 DEF Nobody, Walking, Open, IsIn, Bit
<1>8. Progress(C[Barrier])
  BY <1>5, <1>7 DEF Progress
<1>. QED  BY <1>2, <1>3, <1>6, <1>8 DEF IInv

\* A step of the mutexes.
LEMMA MutexKeeps ==
  ASSUME IInv, Team \cap Lockers = {}, NEW t \in Threads,
         (t \in Lockers /\ MutexCall(t)) \/ MutexStep(t), UNCHANGED barrierVars
  PROVE  IInv'
<1>1. TypeOK /\ Parts
  BY DEF IInv
<1>2. t \notin Team
  BY <1>1 DEF Parts, MutexStep, LockTake, LockTry, Wait, UnlockTake, UnlockTry, MutexCall
<1>3. PICK C : Lists(C) /\ Progress(C[Barrier])
  BY DEF IInv
<1>4. PICK D : /\ Lists(D)' /\ D[Barrier] = C[Barrier]
               /\ \A u \in Team : heap'.wait[u] = heap.wait[u]
  BY <1>1, <1>2, <1>3, MutexLists
<1>5. heap' \in Heaps
  BY <1>4 DEF Lists, Sound
<1>6. /\ TypeOK' /\ Parts'
      /\ pc[t] \notin BarrierLabels /\ pc'[t] \notin BarrierLabels
      /\ \A u \in Threads \ {t} : pc'[u] = pc[u]
  BY <1>1, <1>5, MutexParts
<1>7. /\ \A u \in Team : pc'[u] = pc[u] /\ heap'.wait[u] = heap.wait[u]
      /\ \A u \in Threads \ Team : pc[u] \notin BarrierLabels /\ pc'[u] \notin BarrierLabels
  BY <1>1, <1>2, <1>4, <1>6, Queued DEF Parts
<1>8. /\ C[Barrier] \in Seq(Threads)
      /\ \A u \in Threads : IsIn(u, C[Barrier]) => u \in Team
  BY <1>3, Queued DEF Lists, Sound
<1>9. Progress(C[Barrier])'
  BY <1>3, <1>7, <1>8, TeamAlone
<1>10. Progress(D[Barrier])'
  BY <1>4, <1>9
<1>. QED  BY <1>4, <1>6, <1>10 DEF IInv

\* A step that changes nothing.
LEMMA StutterKeeps == IInv /\ UNCHANGED vars => IInv'
<1>. SUFFICES ASSUME IInv, UNCHANGED vars PROVE IInv'
  OBVIOUS
<1>. USE DEF vars, mutexVars, barrierVars
<1>1. TypeOK'
  BY DEF IInv, TypeOK
<1>2. Parts'
  BY DEF IInv, Parts, Served
<1>3. PICK C : Lists(C) /\ Progress(C[Barrier])
  BY DEF IInv
<1>4. Lists(C)'
  BY <1>3 DEF Lists
<1>5. Progress(C[Barrier])'
  BY <1>3 DEF Progress, Nobody, Open, Closing
<1>. QED  BY <1>1, <1>2, <1>4, <1>5 DEF IInv

LEMMA NextHolds ==
  ASSUME Team \cap Lockers = {}
  PROVE  IInv /\ [Next]_vars => IInv'
<1>. SUFFICES ASSUME IInv, [Next]_vars PROVE IInv'
  OBVIOUS
<1>1. CASE UNCHANGED vars
  BY <1>1, StutterKeeps
<1>2. ASSUME NEW t \in Threads, t \in Lockers /\ MutexCall(t) /\ UNCHANGED barrierVars
      PROVE  IInv'
  BY <1>2, MutexKeeps
<1>3. ASSUME NEW t \in Threads, t \in Team, Arrive(t)
      PROVE  IInv'
  BY <1>3, ArriveKeeps
<1>4. ASSUME NEW t \in Threads, MutexStep(t) /\ UNCHANGED barrierVars
      PROVE  IInv'
  BY <1>4, MutexKeeps
<1>5. ASSUME NEW t \in Threads, BarrierStep(t)
      PROVE  IInv'
  BY <1>5, CountKeeps, LastKeeps, WakeKeeps, NextKeeps, FinishKeeps, PassKeeps DEF BarrierStep
<1>. QED  BY <1>1, <1>2, <1>3, <1>4, <1>5 DEF Next, Internal

\* The invariant holds when the team does not use the mutexes.
THEOREM Inductive ==
  ASSUME Team \cap Lockers = {}
  PROVE  Spec => []IInv
<1>1. IInv /\ [Next]_vars => IInv'
  BY NextHolds
<1>. QED  BY <1>1, InitHolds, PTL DEF Spec

\* Every variable keeps its type.
THEOREM TypeCorrect ==
  ASSUME Team \cap Lockers = {}
  PROVE  Spec => []TypeOK
<1>1. IInv => TypeOK
  BY DEF IInv
<1>. QED  BY <1>1, Inductive, PTL

\* The barrier holds: a thread only leaves b_wait or the walk of round p + 1 when
\* the count has reached the team's size, that is when all others have queued.
THEOREM Holds ==
  ASSUME Team \cap Lockers = {}
  PROVE  Spec => []NobodyPassesEarly
<1>1. IInv => NobodyPassesEarly
  <2>. SUFFICES ASSUME IInv, NEW t \in Team, NEW u \in Team PROVE round[t] <= Arrived(u)
    BY DEF NobodyPassesEarly
  <2>1. TypeOK /\ Parts
    BY DEF IInv
  <2>2. /\ round[t] \in Nat /\ round[u] \in Nat
        /\ Arrived(u) = IF pc[u] \in BarrierLabels THEN round[u] + 1 ELSE round[u]
    BY <2>1, Typed DEF Arrived
  <2>0. PICK C : Progress(C[Barrier])
    BY DEF IInv
  <2>3. PICK p \in 0..Rounds :
          \/ Nobody /\ Open(C[Barrier], p)
          \/ \E w \in Team : pc[w] \in Walking /\ Closing(w, C[Barrier], p)
    BY <2>0 DEF Progress
  <2>4. CASE Nobody /\ Open(C[Barrier], p)
    <3>1. \A x \in Team : round[x] + Bit(pc[x] = "b_wait" /\ heap.wait[x] = 0) = p
      BY <2>4 DEF Open
    <3>. QED  BY <2>2, <3>1 DEF Bit, BarrierLabels
  <2>5. ASSUME NEW w \in Team, pc[w] \in Walking, Closing(w, C[Barrier], p)
        PROVE  round[t] <= Arrived(u)
    <3>1. \A x \in Team \ {w} : round[x] + Bit(pc[x] = "b_wait") = p + 1
      BY <2>5 DEF Closing
    <3>2. round[w] = p /\ pc[w] \in BarrierLabels
      BY <2>5 DEF Closing, Walking, BarrierLabels
    <3>. QED  BY <2>2, <3>1, <3>2 DEF Bit, BarrierLabels
  <2>. QED  BY <2>3, <2>4, <2>5
<1>. QED  BY <1>1, Inductive, PTL

\* The count says how many wait, and they are the list of the barrier's queue.
THEOREM RoundIsSound ==
  ASSUME Team \cap Lockers = {}
  PROVE  Spec => []RoundSound
<1>1. IInv => RoundSound
  <2>. SUFFICES ASSUME IInv, Nobody
                PROVE  \E s \in [1..waiting -> Team] :
                         /\ Represents(heap, Barrier, s)
                         /\ \A i, k \in 1..waiting : s[i] = s[k] => i = k
                         /\ \A t \in Threads : pc[t] = "b_wait" /\ heap.wait[t] = 1 <=> IsIn(t, s)
    BY DEF IInv, RoundSound, Nobody, Walking
  <2>1. PICK C : Lists(C) /\ \E p \in 0..Rounds : Open(C[Barrier], p)
    BY Queued DEF IInv, Progress, Nobody
  <2>. DEFINE s == C[Barrier]
  <2>2. /\ s \in Seq(Threads) /\ Distinct(s) /\ Represents(heap, Barrier, s)
        /\ waiting = Len(s)
        /\ \A t \in Threads : IsIn(t, s) <=> pc[t] = "b_wait" /\ heap.wait[t] = 1
    BY <2>1, Queued, SoundLists DEF Lists, Open
  <2>3. \A i \in 1..Len(s) : s[i] \in Team
    BY <2>1, <2>2 DEF Lists, IsIn
  <2>. HIDE DEF s
  <2>4. s \in [1..waiting -> Team]
    BY <2>2, <2>3
  <2>. QED  BY <2>2, <2>4 DEF Distinct
<1>. QED  BY <1>1, Inductive, PTL

\* The walk wakes threads that wait at the barrier, and no others.
THEOREM WakesWaiters ==
  ASSUME Team \cap Lockers = {}
  PROVE  Spec => []WakesItsOwn
<1>1. IInv => WakesItsOwn
  <2>. SUFFICES ASSUME IInv, NEW t \in Threads, pc[t] = "b_wake" PROVE pc[cell[t]] = "b_wait"
    BY DEF WakesItsOwn
  <2>1. TypeOK /\ Parts /\ Served(t, Barrier)
    BY DEF IInv, Parts, Walking
  <2>2. PICK C : Lists(C) /\ Progress(C[Barrier])
    BY DEF IInv
  <2>3. PICK p \in 0..Rounds : Closing(t, C[Barrier], p)
    BY <2>1, <2>2, OneWalker, Queued DEF Progress, Nobody, Walking
  <2>. DEFINE s == C[Barrier]
  <2>4. s \in Seq(Threads)
    BY <2>2, Queued DEF Lists, Sound
  <2>. HIDE DEF s
  <2>5. PICK k \in 1..Len(s) : cell[t] = s[k] /\ heap.wait[s[k]] = 1
    BY <2>3, <2>4 DEF Closing, Bit, s
  <2>6. s[k] \in Threads /\ IsIn(s[k], s)
    BY <2>4, <2>5 DEF IsIn
  <2>7. s[k] \in Team \ {t}
    BY <2>2, <2>3, <2>6 DEF Lists, Closing, s
  <2>. QED  BY <2>3, <2>5, <2>7 DEF Closing
<1>. QED  BY <1>1, Inductive, PTL

=============================================================================
