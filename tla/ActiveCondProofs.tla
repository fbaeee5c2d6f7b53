--------------------------- MODULE ActiveCondProofs ---------------------------
(***************************************************************************)
(* The condition variables keep every waiter, for any threads, mutexes and *)
(* conditions: an invariant of the lists, of the wait bytes and of what a  *)
(* signal or a broadcast has already moved; and to its callers the library *)
(* is an ideal monitor, step by step.  From there on the lists are out of  *)
(* sight: what signal.c and broadcast.c of activecond/t promise is proved  *)
(* of the monitor's sleepers, for any number of threads and any load.      *)
(* The theorems are about applications of which none lets a timed wait end *)
(* by its time in a program that also signals, Calm: without it the run    *)
(* cond_timed_wake shows a mutex with two owners.  They hold whatever the  *)
(* uninitialised `exit` of a broadcast reads as: one that reads as 1 drops *)
(* cells from the lists, and all else stays true.  Only that nobody is     *)
(* forgotten needs it to read as 0, as the run cond_exit shows.            *)
(***************************************************************************)
EXTENDS TestPrograms, SpinQueueProofs, FiniteSetTheorems, FunctionTheorems,
        WellFoundedInduction

USE DEF Threads, Conds, Others

\* No program has both timed waits that end by their time and signals.
Calm ==
  \A p \in Programs :
    (\E t \in Threads : "timeout" \in p[t])
    => \A t \in Threads : p[t] \cap {"signal", "broadcast"} = {}

---------------------------------------------------------------------------
\* The invariant

\* The time of some waits may pass.
Hasty == \E t \in Threads : "timeout" \in uses[t]

Late == {"t_late", "t_take", "t_deq", "t_lock"}
Sending == {"s_pick", "s_move", "s_leave", "b_first", "b_scan", "b_move", "b_flush"}
Inside == {"s_move", "s_leave", "b_scan", "b_move", "b_flush"}
Emptying == {"b_scan", "b_move", "b_flush"}

\* The thread of a wait, from the moment its cell is queued.
Asleep(t) ==
  \/ pc[t] \in {"wait", "t_wait", "t_late"}
  \/ pc[t] \in {"u_take", "u_try"} /\ then[t] # "idle"

\* What the place of a thread says of its variables.
PartOK(t) ==
  /\ \A m, n \in held[t] : m = n
  /\ pc[t] = "idle" => then[t] = "idle" 
  /\ pc[t] \in {"l_take", "l_try", "wait", "u_take", "u_try", "t_wait"} \cup Late =>
       mutex[t] \in Mutexes /\ held[t] = {}
  /\ pc[t] = "w_enq" =>
       /\ mutex[t] \in Mutexes /\ held[t] = {mutex[t]} /\ data[t] = mutex[t]
       /\ then[t] # "idle"
  /\ pc[t] = "u_take" => then[t] # "idle"
  /\ pc[t] \in {"w_enq", "t_wait"} \cup Late \cup Sending => cond[t] \in Conds
  /\ pc[t] \in {"u_take", "u_try"} /\ then[t] # "idle" => cond[t] \in Conds
  /\ pc[t] \in Late => Hasty
  /\ pc[t] \in Sending => ~ Hasty
  /\ pc[t] \notin {"s_move", "b_scan", "b_move"} => walk[t] = NoWalk

Parts == \A t \in Threads : PartOK(t)

\* A signaller is alone with its condition.
Locked == \A t \in Threads : pc[t] \in Inside => Served(t, cond[t])

\* The wait bytes, where they are known from the place of their thread.
Bytes ==
  \A t \in Threads :
    /\ heap.wait[t] = 1 => Asleep(t)
    /\ pc[t] \in {"u_take", "u_try"} /\ then[t] # "idle" => heap.wait[t] = 1
    /\ pc[t] = "t_late" => heap.wait[t] = 1

\* The cell x is in no queue while a signaller carries it to the mutex.
Carries(t, x) == pc[t] = "s_move" /\ walk[t].cell = x

\* The conditions whose words a broadcast is about to clear.
Stale == {c \in Conds : Broadcasting(c) # {}}

InMutex(m, x) == mutex[x] = m /\ heap.wait[x] = 1 /\ (Hasty => pc[x] = "wait")
InCond(c, x) ==
  /\ cond[x] = c /\ data[x] = mutex[x]
  /\ heap.wait[x] = 1 \/ pc[x] \in {"t_take", "t_deq"}

\* Whose cells the queues hold.
Holders(C) ==
  /\ \A m \in Mutexes, x \in Threads : IsIn(x, C[m]) => InMutex(m, x)
  /\ \A c \in Conds, x \in Threads : IsIn(x, C[c]) => InCond(c, x)

\* No broadcast leaves a cell behind by an `exit` that reads as 1.
Spared == Residue = {0} \/ Hasty

\* No waiter is in none.
Reached(C) ==
  /\ Spared => \A x \in Threads : heap.wait[x] = 1 =>
       (\E q \in Queues : IsIn(x, C[q])) \/ (\E t \in Threads : Carries(t, x))
  /\ \A x \in Threads : pc[x] \in {"t_late", "t_take", "t_deq"} => IsIn(x, C[cond[x]])

\* The cell a signaller carries.
Carried(C) ==
  \A t \in Threads : pc[t] = "s_move" =>
    LET x == walk[t].cell IN
    /\ x \in Threads /\ heap.wait[x] = 1
    /\ walk[t].mqueue = mutex[x] /\ mutex[x] \in Mutexes
    /\ \A q \in Queues : ~ IsIn(x, C[q])
    /\ \A u \in Threads : Carries(u, x) => u = t

\* A free mutex has no queue.
Free(C) == \A m \in Mutexes : owned[m] = 0 => C[m] = <<>>

\* A broadcast has j cells of one mutex before the cell it looks at.
Group(t, s, j) ==
  /\ walk[t].cell = IF j < Len(s) THEN s[j + 1] ELSE NULL
  /\ j = 0 => walk[t].mqueue = NULL /\ s # <<>> /\ pc[t] = "b_scan"
  /\ j > 0 =>
       /\ walk[t].mqueue \in Mutexes /\ walk[t].head = s[1] /\ walk[t].tail = s[j]
       /\ \A i \in 1..j : data[s[i]] = walk[t].mqueue

WalkOK(t, C) ==
  /\ pc[t] \in {"b_scan", "b_move"} =>
       \E j \in 0..Len(C[cond[t]]) : Group(t, C[cond[t]], j)
  /\ pc[t] = "b_flush" => C[cond[t]] = <<>>

Walks(C) == \A t \in Threads : WalkOK(t, C)

Lists(C) ==
  /\ Sound(heap, C, Stale)
  /\ Holders(C) /\ Reached(C) /\ Carried(C) /\ Free(C) /\ Walks(C)

IInv == TypeOK /\ Parts /\ Locked /\ Bytes /\ OneOwner /\ \E C : Lists(C)

---------------------------------------------------------------------------
\* What a step of one thread leaves alone

LEMMA Sorts ==
  /\ Mutexes \subseteq Queues /\ Conds \subseteq Queues /\ NULL \notin Mutexes /\ NULL \notin Threads
  /\ \A m \in Mutexes, c \in Conds : m # c
  /\ \A q \in Queues : q \in Mutexes \/ q \in Conds
BY QueuesAssumption, NullAssumption

\* The head of a line that grows stays, and a line that is left is not empty.
LEMMA Lines ==
  ASSUME line \in [Queues -> Seq(Threads)], NEW t \in Threads, NEW q \in Queues
  PROVE  /\ Join(t, q) \in [Queues -> Seq(Threads)]
         /\ \A r \in Queues, u \in Threads :
              line[r] # <<>> /\ Head(line[r]) = u => Join(t, q)[r] # <<>> /\ Head(Join(t, q)[r]) = u
         /\ line[q] # <<>> => Leave(q) \in [Queues -> Seq(Threads)]
         /\ \A r \in Queues \ {q} : Leave(q)[r] = line[r]
BY DEF Join, Leave

\* Thread t alone changes its variables, and takes its turn in the lines.
Step(t) ==
  /\ uses' = uses
  /\ \A u \in Threads \ {t} :
       /\ pc'[u] = pc[u] /\ then'[u] = then[u] /\ mutex'[u] = mutex[u] /\ held'[u] = held[u]
       /\ cond'[u] = cond[u] /\ data'[u] = data[u] /\ walk'[u] = walk[u]
  /\ \/ line' = line
     \/ \E q \in Queues : line' = Join(t, q)
     \/ \E q \in Queues : Served(t, q) /\ line' = Leave(q)
  /\ pc' \in [Threads -> MutexLabels \cup CondLabels]
  /\ then' \in [Threads -> {"idle", "wait", "t_wait"}]
  /\ mutex' \in [Threads -> Mutexes \cup {NULL}] /\ held' \in [Threads -> SUBSET Mutexes]
  /\ owned' \in [Mutexes -> {0, 1}]
  /\ cond' \in [Threads -> Conds \cup {NULL}] /\ data' \in [Threads -> Mutexes \cup {NULL}]
  /\ walk' \in [Threads -> [cell : Ptr, mqueue : Mutexes \cup {NULL}, head : Ptr, tail : Ptr]]
  /\ PartOK(t)'
  /\ pc'[t] \in Inside => Served(t, cond[t])'

LEMMA StepKeeps ==
  ASSUME TypeOK, Parts, Locked, NEW t \in Threads, Step(t), heap' \in Heaps
  PROVE  TypeOK' /\ Parts' /\ Locked' /\ (Hasty' <=> Hasty)
<1>1. line' \in [Queues -> Seq(Threads)]
  BY Lines DEF TypeOK, Step, Served
<1>2. TypeOK'
  BY <1>1 DEF TypeOK, Step
<1>3. Hasty' <=> Hasty
  BY DEF Step, Hasty
<1>4. ASSUME NEW u \in Threads, u # t PROVE PartOK(u)'
  <2>1. PartOK(u)
    BY DEF Parts
  <2>. QED  BY <1>3, <1>4, <2>1 DEF Step, PartOK
<1>5. Parts'
  BY <1>4 DEF Parts, Step
<1>6. ASSUME NEW u \in Threads, u # t, pc'[u] \in Inside PROVE Served(u, cond[u])'
  <2>1. pc[u] \in Inside /\ cond'[u] = cond[u]
    BY <1>6 DEF Step
  <2>2. Served(u, cond[u]) /\ cond[u] \in Queues /\ line \in [Queues -> Seq(Threads)]
    BY <2>1, Sorts DEF Locked, Parts, PartOK, Inside, Sending, TypeOK
  <2>3. PICK c \in Queues : c = cond[u]
    BY <2>2
  <2>4. line'[c] # <<>> /\ Head(line'[c]) = u
    <3>1. CASE line' = line
      BY <2>2, <2>3, <3>1 DEF Served
    <3>2. ASSUME NEW q \in Queues, line' = Join(t, q) PROVE line'[c] # <<>> /\ Head(line'[c]) = u
      <4>1. line[c] # <<>> /\ Head(line[c]) = u
        BY <2>2, <2>3 DEF Served
      <4>2. \A r \in Queues, v \in Threads :
              line[r] # <<>> /\ Head(line[r]) = v => Join(t, q)[r] # <<>> /\ Head(Join(t, q)[r]) = v
        BY <2>2, Lines
      <4>. QED  BY <3>2, <4>1, <4>2
    <3>3. ASSUME NEW q \in Queues, Served(t, q), line' = Leave(q)
          PROVE  line'[c] # <<>> /\ Head(line'[c]) = u
      <4>1. c # q
        BY <1>6, <2>2, <2>3, <3>3 DEF Served
      <4>2. line'[c] = line[c]
        BY <2>2, <3>3, <4>1, Lines
      <4>. QED  BY <2>2, <2>3, <4>2 DEF Served
    <3>. QED  BY <3>1, <3>2, <3>3 DEF Step
  <2>. QED  BY <2>1, <2>3, <2>4 DEF Served
<1>7. Locked'
  BY <1>6 DEF Locked, Step
<1>. QED  BY <1>2, <1>3, <1>5, <1>7

LEMMA SparedKept ==
  ASSUME NEW t \in Threads, Step(t)
  PROVE  Spared' <=> Spared
BY DEF Step, Spared, Hasty

\* No two signallers are in the section of one condition.
LEMMA Alone ==
  ASSUME Locked, NEW t \in Threads, NEW c \in Conds, Served(t, c)
  PROVE  /\ \A u \in Threads : pc[u] \in Inside /\ cond[u] = c => u = t
         /\ pc[t] \notin Emptying => c \notin Stale
BY DEF Locked, Served, Stale, Broadcasting, Inside, Emptying

\* A queue is only stale while a broadcast begins to empty it or ends.
LEMMA StaleKept ==
  ASSUME NEW t \in Threads, Step(t), pc[t] \in Emptying <=> pc'[t] \in Emptying,
         pc[t] \in Emptying => cond'[t] = cond[t]
  PROVE  Stale' = Stale
<1>1. ASSUME NEW c \in Conds, NEW u \in Threads
      PROVE  cond'[u] = c /\ pc'[u] \in Emptying <=> cond[u] = c /\ pc[u] \in Emptying
  BY DEF Step
<1>. QED  BY <1>1 DEF Stale, Broadcasting, Emptying

---------------------------------------------------------------------------
\* Ownership

\* The owner of m changes, or m becomes free, and the others keep theirs.
LEMMA Owner ==
  ASSUME OneOwner, NEW m \in Mutexes,
         \A n \in Mutexes \ {m} :
           owned'[n] = owned[n] /\ \A u \in Threads : Possesses(u, n)' <=> Possesses(u, n),
         \/ owned'[m] = 1 /\ \E x \in Threads : \A u \in Threads : Possesses(u, m)' <=> u = x
         \/ owned'[m] = 0 /\ \A u \in Threads : ~ Possesses(u, m)'
  PROVE  OneOwner'
<1>1. ASSUME NEW n \in Mutexes
      PROVE  /\ \A u, v \in Threads : Possesses(u, n)' /\ Possesses(v, n)' => u = v
             /\ owned'[n] = 1 <=> \E u \in Threads : Possesses(u, n)'
  <2>1. CASE n # m
    BY <2>1 DEF OneOwner
  <2>2. CASE n = m
    BY <2>2
  <2>. QED  BY <2>1, <2>2
<1>. QED  BY <1>1 DEF OneOwner

LEMMA OwnersKept ==
  ASSUME OneOwner, owned' = owned,
         \A n \in Mutexes, u \in Threads : Possesses(u, n)' <=> Possesses(u, n)
  PROVE  OneOwner'
BY DEF OneOwner

\* A free mutex is possessed by nobody, and an owned one by one.
LEMMA Owned ==
  ASSUME OneOwner, NEW m \in Mutexes
  PROVE  /\ owned[m] = 0 => \A u \in Threads : ~ Possesses(u, m)
         /\ \A t, u \in Threads : Possesses(t, m) /\ Possesses(u, m) => t = u
         /\ \A u \in Threads : Possesses(u, m) => owned[m] = 1
BY DEF OneOwner

---------------------------------------------------------------------------
\* Steps that move no cell

Awake(t) == (~ Asleep(t) \/ heap.wait[t] = 0) /\ pc[t] \notin {"t_take", "t_deq"}

\* The cell of a thread that does not wait is in no queue.
LEMMA AwakeNowhere ==
  ASSUME TypeOK, Bytes, NEW C, Holders(C), NEW t \in Threads, Awake(t)
  PROVE  heap.wait[t] = 0 /\ \A q \in Queues : ~ IsIn(t, C[q])
<1>1. heap.wait[t] \in {0, 1}
  BY HeapFields DEF TypeOK
<1>2. heap.wait[t] = 0
  BY <1>1 DEF Bytes, Awake
<1>3. ASSUME NEW q \in Queues, IsIn(t, C[q]) PROVE FALSE
  BY <1>2, <1>3, Sorts DEF Holders, InMutex, InCond, Awake
<1>. QED  BY <1>2, <1>3

\* What the thread of the step owes to the lists when none of them changes.
Settled(t, C) ==
  /\ \A q \in Queues : IsIn(t, C[q]) =>
       /\ mutex'[t] = mutex[t] /\ cond'[t] = cond[t] /\ data'[t] = data[t]
       /\ pc[t] # "wait"
       /\ pc[t] \in {"t_take", "t_deq"} => pc'[t] \in {"t_take", "t_deq"}
  /\ heap.wait[t] = 1 => mutex'[t] = mutex[t]
  /\ pc'[t] \in {"t_late", "t_take", "t_deq"} => IsIn(t, C[cond'[t]])
  /\ pc[t] # "s_move" /\ pc'[t] # "s_move"
  /\ \A m \in Mutexes : owned'[m] = 0 => owned[m] = 0 \/ C[m] = <<>>

LEMMA ListsKept ==
  ASSUME TypeOK, Parts, Bytes, NEW C, Lists(C), NEW t \in Threads, Step(t), heap' = heap,
         Settled(t, C), Sound(heap, C, Stale'), WalkOK(t, C)'
  PROVE  Lists(C)'
<1>0. /\ C \in [Queues -> Seq(Threads)]
      /\ \A u \in Threads \ {t} : pc[u] \in Sending => cond[u] \in Conds
      /\ Hasty' <=> Hasty
  BY DEF Lists, Sound, Parts, PartOK, Step, Hasty
<1>1. Sound(heap, C, Stale)'
  BY DEF Sound
<1>2. Holders(C)'
  <2>1. ASSUME NEW m \in Mutexes, NEW x \in Threads, IsIn(x, C[m]) PROVE InMutex(m, x)'
    <3>1. InMutex(m, x)
      BY <2>1 DEF Lists, Holders
    <3>2. mutex'[x] = mutex[x] /\ (pc[x] = "wait" => pc'[x] = pc[x])
      BY <2>1, Sorts DEF Step, Settled
    <3>. QED  BY <1>0, <3>1, <3>2 DEF InMutex
  <2>2. ASSUME NEW c \in Conds, NEW x \in Threads, IsIn(x, C[c]) PROVE InCond(c, x)'
    <3>1. InCond(c, x)
      BY <2>2 DEF Lists, Holders
    <3>2. /\ mutex'[x] = mutex[x] /\ cond'[x] = cond[x] /\ data'[x] = data[x]
          /\ pc[x] \in {"t_take", "t_deq"} => pc'[x] \in {"t_take", "t_deq"}
      BY <2>2, Sorts DEF Step, Settled
    <3>. QED  BY <3>1, <3>2 DEF InCond
  <2>. QED  BY <2>1, <2>2 DEF Holders
<1>3. \A u, x \in Threads : Carries(u, x)' <=> Carries(u, x)
  BY DEF Carries, Step, Settled
<1>4. Reached(C)'
  <2>1. ASSUME Spared, NEW x \in Threads, heap'.wait[x] = 1
        PROVE  (\E q \in Queues : IsIn(x, C[q])) \/ (\E u \in Threads : Carries(u, x)')
    BY <1>3, <2>1 DEF Lists, Reached
  <2>2. ASSUME NEW x \in Threads, pc'[x] \in {"t_late", "t_take", "t_deq"} PROVE IsIn(x, C[cond'[x]])
    <3>1. CASE x = t
      BY <2>2, <3>1 DEF Settled
    <3>2. CASE x # t
      BY <2>2, <3>2 DEF Step, Lists, Reached
    <3>. QED  BY <3>1, <3>2
  <2>. QED  BY <2>1, <2>2, SparedKept DEF Reached
<1>5. Carried(C)'
  <2>. SUFFICES ASSUME NEW u \in Threads, pc'[u] = "s_move", NEW x, x = walk'[u].cell
                PROVE  /\ x \in Threads /\ heap'.wait[x] = 1
                       /\ walk'[u].mqueue = mutex'[x] /\ mutex'[x] \in Mutexes
                       /\ \A q \in Queues : ~ IsIn(x, C[q])
                       /\ \A v \in Threads : Carries(v, x)' => v = u
    BY DEF Carried
  <2>1. u # t /\ pc[u] = "s_move" /\ walk[u] = walk'[u] /\ x = walk[u].cell
    BY DEF Step, Settled
  <2>2. /\ x \in Threads /\ heap.wait[x] = 1
        /\ walk[u].mqueue = mutex[x] /\ mutex[x] \in Mutexes
        /\ \A q \in Queues : ~ IsIn(x, C[q])
        /\ \A v \in Threads : Carries(v, x) => v = u
    BY <2>1 DEF Lists, Carried
  <2>3. mutex'[x] = mutex[x]
    BY <2>2 DEF Step, Settled
  <2>. QED  BY <1>3, <2>1, <2>2, <2>3
<1>6. Free(C)'
  BY DEF Lists, Free, Settled, Step
<1>7. Walks(C)'
  <2>1. ASSUME NEW u \in Threads, u # t PROVE WalkOK(u, C)'
    <3>1. WalkOK(u, C) /\ pc'[u] = pc[u] /\ cond'[u] = cond[u] /\ walk'[u] = walk[u]
      BY <2>1 DEF Lists, Walks, Step
    <3>2. ASSUME pc[u] \in {"b_scan", "b_move"}, NEW j \in 0..Len(C[cond[u]]), Group(u, C[cond[u]], j)
          PROVE  Group(u, C[cond[u]], j)'
      <4>1. PICK c \in Conds : c = cond[u]
        BY <1>0, <2>1, <3>2 DEF Sending
      <4>2. C[c] \in Seq(Threads)
        BY <1>0, Sorts
      <4>3. \A i \in 1..Len(C[c]) : C[c][i] \in Threads /\ IsIn(C[c][i], C[c])
        BY <4>2 DEF IsIn
      <4>4. \A i \in 1..Len(C[c]) : data'[C[c][i]] = data[C[c][i]]
        BY <4>3, Sorts DEF Step, Settled
      <4>5. \A i \in 1..j : i \in 1..Len(C[c])
        BY <3>2, <4>1, <4>2
      <4>6. \A i \in 1..j : data'[C[c][i]] = data[C[c][i]]
        BY ONLY <4>4, <4>5
      <4>7. Group(u, C[c], j) /\ walk'[u] = walk[u] /\ pc'[u] = pc[u] /\ cond'[u] = c
        BY <3>1, <3>2, <4>1
      <4>8. Group(u, C[c], j)'
        BY ONLY <4>6, <4>7 DEF Group
      <4>. QED  BY <4>7, <4>8
    <3>3. CASE pc[u] \in {"b_scan", "b_move"}
      BY <3>1, <3>2, <3>3 DEF WalkOK
    <3>. QED  BY <3>1, <3>3 DEF WalkOK
  <2>. QED  BY <2>1 DEF Walks
<1>. QED  BY <1>1, <1>2, <1>4, <1>5, <1>6, <1>7 DEF Lists

---------------------------------------------------------------------------
\* Steps that move cells, from the lists C to D

\* Thread t does not stay in a list, or keeps what its list needs.
Keeping(t, C, D) ==
  \/ heap.wait[t] = 0 /\ \A q \in Queues : ~ (IsIn(t, C[q]) /\ IsIn(t, D[q]))
  \/ /\ mutex'[t] = mutex[t] /\ cond'[t] = cond[t] /\ data'[t] = data[t]
     /\ pc[t] \notin {"wait", "t_take", "t_deq"}

\* The cell y was in queue q and is left in it.
Stays(q, y, C) == IsIn(y, C[q]) /\ heap'.wait[y] = heap.wait[y]

LEMMA ListsMove ==
  ASSUME TypeOK, Parts, NEW C, Lists(C), NEW t \in Threads, Step(t),
         NEW D, Keeping(t, C, D), Sound(heap', D, Stale'),
         \A m \in Mutexes, y \in Threads : IsIn(y, D[m]) => Stays(m, y, C) \/ InMutex(m, y)',
         \A c \in Conds, y \in Threads : IsIn(y, D[c]) => Stays(c, y, C) \/ InCond(c, y)',
         Reached(D)',
         \A u \in Threads \ {t} : pc[u] = "s_move" =>
           /\ heap'.wait[walk[u].cell] = 1
           /\ \A q \in Queues : ~ IsIn(walk[u].cell, D[q])
           /\ ~ (pc'[t] = "s_move" /\ walk'[t].cell = walk[u].cell),
         pc'[t] = "s_move" =>
           /\ walk'[t].cell \in Threads /\ heap'.wait[walk'[t].cell] = 1
           /\ walk'[t].mqueue = mutex'[walk'[t].cell] /\ mutex'[walk'[t].cell] \in Mutexes
           /\ \A q \in Queues : ~ IsIn(walk'[t].cell, D[q]),
         Free(D)',
         \A u \in Threads \ {t} : pc[u] \in Emptying => D[cond[u]] = C[cond[u]],
         WalkOK(t, D)'
  PROVE  Lists(D)'
<1>0. /\ C \in [Queues -> Seq(Threads)]
      /\ \A u \in Threads \ {t} : pc[u] \in Sending => cond[u] \in Conds
      /\ Hasty' <=> Hasty
  BY DEF Lists, Sound, Parts, PartOK, Step, Hasty
<1>1. Sound(heap, D, Stale)'
  BY DEF Sound
<1>2. Holders(D)'
  <2>1. ASSUME NEW m \in Mutexes, NEW x \in Threads, IsIn(x, D[m]), Stays(m, x, C)
        PROVE  InMutex(m, x)'
    <3>1. InMutex(m, x)
      BY <2>1 DEF Lists, Holders, Stays
    <3>2. mutex'[x] = mutex[x] /\ (pc[x] = "wait" => pc'[x] = pc[x])
      BY <2>1, Sorts DEF Step, Keeping, Stays
    <3>. QED  BY <1>0, <2>1, <3>1, <3>2 DEF InMutex, Stays
  <2>2. ASSUME NEW c \in Conds, NEW x \in Threads, IsIn(x, D[c]), Stays(c, x, C)
        PROVE  InCond(c, x)'
    <3>1. InCond(c, x)
      BY <2>2 DEF Lists, Holders, Stays
    <3>2. /\ mutex'[x] = mutex[x] /\ cond'[x] = cond[x] /\ data'[x] = data[x]
          /\ pc[x] \in {"t_take", "t_deq"} => pc'[x] \in {"t_take", "t_deq"}
      BY <2>2, Sorts DEF Step, Keeping, Stays
    <3>. QED  BY <2>2, <3>1, <3>2 DEF InCond, Stays
  <2>. QED  BY <2>1, <2>2 DEF Holders
<1>5. Carried(D)'
  <2>1. ASSUME NEW u \in Threads, u # t, pc'[u] = "s_move", NEW x, x = walk'[u].cell
        PROVE  /\ x \in Threads /\ heap'.wait[x] = 1
               /\ walk'[u].mqueue = mutex'[x] /\ mutex'[x] \in Mutexes
               /\ \A q \in Queues : ~ IsIn(x, D[q])
               /\ \A v \in Threads : Carries(v, x)' => v = u
    <3>1. pc[u] = "s_move" /\ walk[u] = walk'[u] /\ x = walk[u].cell
      BY <2>1 DEF Step
    <3>2. /\ x \in Threads /\ heap.wait[x] = 1
          /\ walk[u].mqueue = mutex[x] /\ mutex[x] \in Mutexes
          /\ \A v \in Threads : Carries(v, x) => v = u
      BY <3>1 DEF Lists, Carried
    <3>3. mutex'[x] = mutex[x]
      BY <3>2 DEF Step, Keeping
    <3>4. ASSUME NEW v \in Threads, Carries(v, x)' PROVE v = u
      <4>1. v # t
        BY <2>1, <3>1, <3>4 DEF Carries
      <4>2. Carries(v, x)
        BY <3>4, <4>1 DEF Carries, Step
      <4>. QED  BY <3>2, <4>2
    <3>. QED  BY <2>1, <3>1, <3>2, <3>3, <3>4
  <2>2. ASSUME pc'[t] = "s_move", NEW x, x = walk'[t].cell, NEW v \in Threads, Carries(v, x)'
        PROVE  v = t
    <3>1. SUFFICES ASSUME v # t PROVE FALSE
      OBVIOUS
    <3>2. pc[v] = "s_move" /\ walk[v].cell = walk'[t].cell
      BY <2>2, <3>1 DEF Carries, Step
    <3>. QED  BY <2>2, <3>1, <3>2
  <2>. QED  BY <2>1, <2>2 DEF Carried
<1>7. Walks(D)'
  <2>1. ASSUME NEW u \in Threads, u # t, pc[u] \in Emptying PROVE WalkOK(u, D)'
    <3>1. /\ WalkOK(u, C) /\ pc'[u] = pc[u] /\ cond'[u] = cond[u] /\ walk'[u] = walk[u]
          /\ D[cond[u]] = C[cond[u]]
      BY <2>1 DEF Lists, Walks, Step
    <3>2. ASSUME pc[u] \in {"b_scan", "b_move"}, NEW j \in 0..Len(C[cond[u]]), Group(u, C[cond[u]], j)
          PROVE  Group(u, D[cond[u]], j)'
      <4>1. PICK c \in Conds : c = cond[u]
        BY <1>0, <2>1, <3>2 DEF Sending
      <4>2. C[c] \in Seq(Threads)
        BY <1>0, Sorts
      <4>3. \A i \in 1..Len(C[c]) : C[c][i] \in Threads /\ IsIn(C[c][i], C[c])
        BY <4>2 DEF IsIn
      <4>4. \A i \in 1..Len(C[c]) : data'[C[c][i]] = data[C[c][i]]
        BY SMTT(30), <3>1, <4>1, <4>3, Sorts DEF Step, Keeping
      <4>5. \A i \in 1..j : i \in 1..Len(C[c])
        BY <3>2, <4>1, <4>2
      <4>. QED  BY <3>1, <3>2, <4>1, <4>4, <4>5 DEF Group
    <3>3. CASE pc[u] \in {"b_scan", "b_move"}
      BY <3>1, <3>2, <3>3 DEF WalkOK
    <3>. QED  BY <3>1, <3>3 DEF WalkOK
  <2>2. ASSUME NEW u \in Threads, u # t, pc[u] \notin Emptying PROVE WalkOK(u, D)'
    BY <2>2 DEF WalkOK, Emptying, Step
  <2>. QED  BY <2>1, <2>2 DEF Walks
<1>. QED  BY <1>1, <1>2, <1>5, <1>7 DEF Lists

\* A cell that is in no queue goes to the end of one.
LEMMA EnqueueLists ==
  ASSUME TypeOK, Parts, Bytes, NEW C, Lists(C), NEW t \in Threads, Step(t), Awake(t),
         NEW q \in Queues \ Stale, NEW x \in Threads, heap' = Enqueue(heap, q, x),
         Stale' = Stale, owned' = owned, q \in Mutexes => owned[q] = 1,
         \A r \in Queues : ~ IsIn(x, C[r]),
         q \in Mutexes => InMutex(q, x)', q \in Conds => InCond(q, x)',
         \A u \in Threads \ {t} : ~ Carries(u, x), \A y \in Threads : Carries(t, y) => y = x,
         pc'[t] \notin {"t_late", "t_take", "t_deq", "s_move"} \cup Emptying
  PROVE  \E D : Lists(D)'
<1>1. PICK D : D = [C EXCEPT ![q] = Append(@, x)]
  OBVIOUS
<1>2. Sound(heap, C, Stale) /\ C \in [Queues -> Seq(Threads)] /\ heap \in Heaps
  BY DEF Lists, Sound
<1>3. Sound(heap', D, Stale')
  BY <1>1, <1>2, SoundEnqueue
<1>4. \A y \in Threads : heap'.wait[y] = IF y = x THEN 1 ELSE heap.wait[y]
  BY <1>2, WaitBytes
<1>5. /\ \A r \in Queues \ {q} : D[r] = C[r]
      /\ \A y \in Threads : IsIn(y, D[q]) <=> IsIn(y, C[q]) \/ y = x
  <2>1. Distinct(C[q]) /\ C[q] \in Seq(Threads)
    BY <1>2 DEF Sound
  <2>2. \A y \in Threads : IsIn(y, Append(C[q], x)) <=> IsIn(y, C[q]) \/ y = x
    BY <2>1, AppendHolds
  <2>. QED  BY <1>1, <1>2, <2>2
<1>6. Keeping(t, C, D)
  BY AwakeNowhere DEF Keeping, Lists
<1>7. ASSUME NEW r \in Queues, NEW y \in Threads, IsIn(y, D[r])
      PROVE  Stays(r, y, C) \/ (r = q /\ y = x)
  BY <1>4, <1>5, <1>7 DEF Stays
<1>8. Reached(D)'
  <2>1. ASSUME Spared, NEW y \in Threads, heap'.wait[y] = 1
        PROVE  (\E r \in Queues : IsIn(y, D[r])) \/ (\E u \in Threads : Carries(u, y)')
    <3>1. CASE y = x
      BY <1>5, <3>1
    <3>2. CASE y # x
      <4>1. (\E r \in Queues : IsIn(y, C[r])) \/ (\E u \in Threads : Carries(u, y))
        BY <1>4, <2>1, <3>2 DEF Lists, Reached
      <4>2. ASSUME NEW u \in Threads, Carries(u, y) PROVE Carries(u, y)'
        BY <3>2, <4>2 DEF Carries, Step
      <4>. QED  BY <1>5, <4>1, <4>2
    <3>. QED  BY <3>1, <3>2
  <2>2. ASSUME NEW y \in Threads, pc'[y] \in {"t_late", "t_take", "t_deq"} PROVE IsIn(y, D[cond'[y]])
    <3>1. y # t /\ pc[y] = pc'[y] /\ cond'[y] = cond[y]
      BY <2>2 DEF Step
    <3>2. IsIn(y, C[cond[y]]) /\ cond[y] \in Conds
      BY <2>2, <3>1 DEF Lists, Reached, Parts, PartOK, Late
    <3>3. PICK c \in Conds : c = cond[y]
      BY <3>2
    <3>. QED  BY <1>5, <3>1, <3>2, <3>3, Sorts
  <2>. QED  BY <2>1, <2>2, SparedKept DEF Reached
<1>9. ASSUME NEW u \in Threads \ {t}, pc[u] = "s_move"
      PROVE  /\ heap'.wait[walk[u].cell] = 1
             /\ \A r \in Queues : ~ IsIn(walk[u].cell, D[r])
  <2>1. PICK y \in Threads : y = walk[u].cell /\ heap.wait[y] = 1 /\ \A r \in Queues : ~ IsIn(y, C[r])
    BY <1>9 DEF Lists, Carried
  <2>2. y # x
    BY <1>9, <2>1 DEF Carries
  <2>. QED  BY <1>4, <1>5, <2>1, <2>2
<1>10. Free(D)'
  BY <1>5, Sorts DEF Lists, Free
<1>11. ASSUME NEW u \in Threads \ {t}, pc[u] \in Emptying PROVE D[cond[u]] = C[cond[u]]
  <2>1. PICK c \in Conds : c = cond[u]
    BY <1>11 DEF Parts, PartOK, Emptying, Sending
  <2>2. c \in Stale
    BY <1>11, <2>1 DEF Stale, Broadcasting, Emptying
  <2>. QED  BY <1>5, <2>1, <2>2, Sorts
<1>12. WalkOK(t, D)'
  BY DEF WalkOK, Emptying
<1>13. /\ \A m \in Mutexes, y \in Threads : IsIn(y, D[m]) => Stays(m, y, C) \/ InMutex(m, y)'
       /\ \A c \in Conds, y \in Threads : IsIn(y, D[c]) => Stays(c, y, C) \/ InCond(c, y)'
  BY <1>7, Sorts
<1>. QED  BY <1>3, <1>6, <1>8, <1>9, <1>10, <1>11, <1>12, <1>13, ListsMove

\* Thread t takes a free mutex.
LEMMA TakeOwner ==
  ASSUME OneOwner, owned \in [Mutexes -> {0, 1}], NEW t \in Threads, NEW m \in Mutexes,
         owned[m] = 0, owned' = [owned EXCEPT ![m] = 1],
         \A u \in Threads \ {t}, n \in Mutexes : Possesses(u, n)' <=> Possesses(u, n),
         \A n \in Mutexes : Possesses(t, n)' <=> Possesses(t, n) \/ n = m
  PROVE  OneOwner'
<1>1. \A n \in Mutexes \ {m} : owned'[n] = owned[n] /\ \A u \in Threads : Possesses(u, n)' <=> Possesses(u, n)
  OBVIOUS
<1>2. owned'[m] = 1
  OBVIOUS
<1>3. \A u \in Threads : Possesses(u, m)' <=> u = t
  BY Owned
<1>. QED  BY <1>1, <1>2, <1>3, Owner

\* Thread t gives up its mutex.
LEMMA DropOwner ==
  ASSUME OneOwner, owned \in [Mutexes -> {0, 1}], NEW t \in Threads, NEW m \in Mutexes,
         Possesses(t, m), owned' = [owned EXCEPT ![m] = 0],
         \A u \in Threads \ {t}, n \in Mutexes : Possesses(u, n)' <=> Possesses(u, n),
         \A n \in Mutexes : Possesses(t, n)' <=> Possesses(t, n) /\ n # m
  PROVE  OneOwner'
<1>1. \A n \in Mutexes \ {m} : owned'[n] = owned[n] /\ \A u \in Threads : Possesses(u, n)' <=> Possesses(u, n)
  OBVIOUS
<1>2. owned'[m] = 0
  OBVIOUS
<1>3. \A u \in Threads : ~ Possesses(u, m)'
  BY Owned
<1>. QED  BY <1>1, <1>2, <1>3, Owner

\* What a step of t says of the others, when it leaves their wait bytes.
LEMMA OthersPossess ==
  ASSUME NEW t \in Threads, Step(t), \A u \in Threads \ {t} : heap'.wait[u] = heap.wait[u]
  PROVE  \A u \in Threads \ {t}, n \in Mutexes : Possesses(u, n)' <=> Possesses(u, n)
BY DEF Step, Possesses

\* A step of a thread that does not wait and that moves no cell.
LEMMA AwakeKeeps ==
  ASSUME IInv, NEW t \in Threads, Step(t), heap' = heap, Awake(t), OneOwner',
         pc[t] # "s_move", pc'[t] \notin {"t_late", "t_take", "t_deq", "s_move"},
         pc'[t] \in {"u_take", "u_try"} => then'[t] = "idle",
         pc[t] \in Emptying <=> pc'[t] \in Emptying,
         pc[t] \in Emptying => cond'[t] = cond[t],
         \A m \in Mutexes : owned'[m] = 0 => owned[m] = 0 \/ heap.head[m] = NULL,
         \A C : Lists(C) => WalkOK(t, C)'
  PROVE  IInv'
<1>1. TypeOK' /\ Parts' /\ Locked'
  BY StepKeeps DEF IInv, TypeOK
<1>2. PICK C : Lists(C)
  BY DEF IInv
<1>3. heap.wait[t] = 0 /\ \A q \in Queues : ~ IsIn(t, C[q])
  BY <1>2, AwakeNowhere DEF IInv, Lists
<1>4. Bytes'
  <2>1. ASSUME NEW u \in Threads
        PROVE  /\ heap'.wait[u] = 1 => Asleep(u)'
               /\ pc'[u] \in {"u_take", "u_try"} /\ then'[u] # "idle" => heap'.wait[u] = 1
               /\ pc'[u] = "t_late" => heap'.wait[u] = 1
    <3>1. CASE u = t
      BY <1>3, <3>1
    <3>2. CASE u # t
      BY <3>2 DEF IInv, Bytes, Step, Asleep
    <3>. QED  BY <3>1, <3>2
  <2>. QED  BY <2>1 DEF Bytes
<1>5. Stale' = Stale
  BY StaleKept
<1>6. \A m \in Mutexes : heap.head[m] = NULL => C[m] = <<>>
  BY <1>2, Sorts, NoHead DEF Lists, Stale
<1>7. Settled(t, C)
  BY <1>3, <1>6, Sorts DEF Settled
<1>8. Sound(heap, C, Stale')
  BY <1>2, <1>5 DEF Lists
<1>9. Lists(C)'
  BY <1>2, <1>7, <1>8, ListsKept DEF IInv
<1>. QED  BY <1>1, <1>4, <1>9 DEF IInv

\* What the invariant says of one thread.
LEMMA Fields ==
  ASSUME IInv, NEW t \in Threads
  PROVE  /\ PartOK(t) /\ OneOwner
         /\ pc \in [Threads -> MutexLabels \cup CondLabels] /\ then \in [Threads -> {"idle", "wait", "t_wait"}]
         /\ mutex \in [Threads -> Mutexes \cup {NULL}] /\ held \in [Threads -> SUBSET Mutexes]
         /\ owned \in [Mutexes -> {0, 1}] /\ cond \in [Threads -> Conds \cup {NULL}]
         /\ data \in [Threads -> Mutexes \cup {NULL}]
         /\ walk \in [Threads -> [cell : Ptr, mqueue : Mutexes \cup {NULL}, head : Ptr, tail : Ptr]]
         /\ NULL \notin Mutexes
BY Sorts DEF IInv, TypeOK, Parts

---------------------------------------------------------------------------
\* The mutex

LEMMA FastLockKeeps ==
  ASSUME IInv, NEW t \in Threads, NEW m \in Mutexes, FastLock(t, m), UNCHANGED condVars
  PROVE  IInv'
<1>. USE DEF condVars
<1>f. PartOK(t)
  BY Fields
<1>1. /\ pc[t] = "idle" /\ held[t] = {} /\ owned[m] = 0
      /\ owned' = [owned EXCEPT ![m] = 1] /\ held' = [held EXCEPT ![t] = {m}]
      /\ UNCHANGED <<pc, then, mutex, line, heap, uses, cond, data, walk>>
  BY DEF FastLock
<1>2. Step(t)
  <2>1. PartOK(t)'
    BY <1>f, <1>1, Fields DEF PartOK, Hasty, Late, Sending
  <2>. QED  BY <1>1, <2>1, Fields DEF Step, Inside
<1>3. OneOwner'
  <2>1. \A n \in Mutexes : Possesses(t, n)' <=> Possesses(t, n) \/ n = m
    BY <1>1, Fields DEF Possesses
  <2>. QED  BY <1>1, <1>2, <2>1, OthersPossess, TakeOwner, Fields
<1>4. \A C : WalkOK(t, C)'
  BY <1>1 DEF WalkOK
<1>. QED  BY <1>1, <1>2, <1>3, <1>4, Fields, AwakeKeeps DEF Awake, Asleep, Emptying

LEMMA SlowLockKeeps ==
  ASSUME IInv, NEW t \in Threads, NEW m \in Mutexes, SlowLock(t, m), UNCHANGED condVars
  PROVE  IInv'
<1>. USE DEF condVars
<1>f. PartOK(t)
  BY Fields
<1>1. /\ pc[t] = "idle" /\ held[t] = {}
      /\ mutex' = [mutex EXCEPT ![t] = m] /\ pc' = [pc EXCEPT ![t] = "l_take"]
      /\ UNCHANGED <<then, held, owned, line, heap, uses, cond, data, walk>>
  BY DEF SlowLock, Goto
<1>0. pc'[t] = "l_take" /\ mutex'[t] = m
  BY <1>1, Fields
<1>2. Step(t)
  <2>1. PartOK(t)'
    BY <1>f, <1>0, <1>1 DEF PartOK, Hasty, Late, Sending
  <2>. QED  BY <1>0, <1>1, <2>1, Fields DEF Step, Inside, MutexLabels
<1>3. OneOwner'
  <2>1. \A n \in Mutexes : Possesses(t, n)' <=> Possesses(t, n)
    BY <1>0, <1>1 DEF Possesses
  <2>. QED  BY <1>1, <1>2, <2>1, OthersPossess, OwnersKept, Fields
<1>4. \A C : WalkOK(t, C)'
  BY <1>0 DEF WalkOK
<1>. QED  BY <1>0, <1>1, <1>2, <1>3, <1>4, AwakeKeeps DEF Awake, Asleep, Emptying

LEMMA UnlockKeeps ==
  ASSUME IInv, NEW t \in Threads, Unlock(t), UNCHANGED condVars
  PROVE  IInv'
<1>. USE DEF condVars
<1>f. PartOK(t)
  BY Fields
<1>m. PICK m \in held[t] : mutex' = [mutex EXCEPT ![t] = m] /\ line' = Join(t, m)
  BY DEF Unlock
<1>1. /\ pc[t] = "idle" /\ m \in Mutexes /\ m \in Queues
      /\ held' = [held EXCEPT ![t] = {}] /\ pc' = [pc EXCEPT ![t] = "u_try"]
      /\ UNCHANGED <<then, owned, heap, uses, cond, data, walk>>
  BY Fields, Sorts DEF Unlock, Goto
<1>0. pc'[t] = "u_try" /\ mutex'[t] = m /\ held'[t] = {} /\ then[t] = "idle" /\ held[t] = {m}
  BY <1>f, <1>m, <1>1, Fields DEF PartOK
<1>2. Step(t)
  <2>1. PartOK(t)'
    BY <1>f, <1>0, <1>1 DEF PartOK, Hasty, Late, Sending
  <2>2. \A u \in Threads \ {t} : pc'[u] = pc[u] /\ mutex'[u] = mutex[u] /\ held'[u] = held[u]
    BY <1>m, <1>1, Fields
  <2>. QED  BY <1>m, <1>0, <1>1, <2>1, <2>2, Fields DEF Step, Inside, MutexLabels
<1>3. OneOwner'
  <2>1. \A n \in Mutexes : Possesses(t, n)' <=> Possesses(t, n)
    BY <1>0, <1>1 DEF Possesses
  <2>. QED  BY <1>1, <1>2, <2>1, OthersPossess, OwnersKept, Fields
<1>4. \A C : WalkOK(t, C)'
  BY <1>0 DEF WalkOK
<1>. QED  BY <1>0, <1>1, <1>2, <1>3, <1>4, AwakeKeeps DEF Awake, Asleep, Emptying

\* The steps of a mutex keep what a condition knows.
LEMMA LockTakeKeeps ==
  ASSUME IInv, NEW t \in Threads, LockTake(t), CondKept(t), UNCHANGED uses
  PROVE  IInv'
<1>f. PartOK(t)
  BY Fields
<1>1. /\ pc[t] = "l_take" /\ mutex[t] \in Mutexes /\ mutex[t] \in Queues /\ held[t] = {}
      /\ line' = Join(t, mutex[t]) /\ pc' = [pc EXCEPT ![t] = "l_try"]
      /\ UNCHANGED <<then, mutex, held, owned, heap, uses, data, walk>>
  BY <1>f, Fields, Sorts DEF LockTake, Goto, PartOK, CondKept
<1>0. pc'[t] = "l_try" /\ cond' = cond
  BY <1>1, Fields DEF CondKept
<1>2. Step(t)
  <2>1. PartOK(t)'
    BY <1>f, <1>0, <1>1 DEF PartOK, Hasty, Late, Sending
  <2>. QED  BY <1>0, <1>1, <2>1, Fields DEF Step, Inside, MutexLabels
<1>3. OneOwner'
  <2>1. \A n \in Mutexes : Possesses(t, n)' <=> Possesses(t, n)
    BY <1>0, <1>1 DEF Possesses
  <2>. QED  BY <1>1, <1>2, <2>1, OthersPossess, OwnersKept, Fields
<1>4. \A C : WalkOK(t, C)'
  BY <1>0 DEF WalkOK
<1>. QED  BY <1>0, <1>1, <1>2, <1>3, <1>4, AwakeKeeps DEF Awake, Asleep, Emptying

LEMMA WaitKeeps ==
  ASSUME IInv, NEW t \in Threads, Wait(t), CondKept(t), UNCHANGED uses
  PROVE  IInv'
<1>f. PartOK(t)
  BY Fields
<1>1. /\ pc[t] = "wait" /\ heap.wait[t] = 0 /\ mutex[t] \in Mutexes /\ held[t] = {}
      /\ held' = [held EXCEPT ![t] = {mutex[t]}] /\ pc' = [pc EXCEPT ![t] = "idle"]
      /\ mutex' = [mutex EXCEPT ![t] = NULL] /\ then' = [then EXCEPT ![t] = "idle"]
      /\ UNCHANGED <<owned, line, heap, uses, data, walk>>
  BY <1>f, Fields DEF Wait, Return, Goto, PartOK, CondKept
<1>0. /\ pc'[t] = "idle" /\ cond' = [cond EXCEPT ![t] = NULL] /\ mutex'[t] = NULL
      /\ then'[t] = "idle" /\ held'[t] = {mutex[t]}
  BY <1>1, Fields DEF CondKept
<1>2. Step(t)
  <2>1. PartOK(t)'
    BY <1>f, <1>0, <1>1 DEF PartOK, Hasty, Late, Sending
  <2>2. \A u \in Threads \ {t} :
          /\ pc'[u] = pc[u] /\ then'[u] = then[u] /\ mutex'[u] = mutex[u] /\ held'[u] = held[u]
          /\ cond'[u] = cond[u]
    BY <1>0, <1>1, Fields
  <2>. QED  BY <1>0, <1>1, <2>1, <2>2, Fields DEF Step, Inside, MutexLabels
<1>3. OneOwner'
  <2>1. \A n \in Mutexes : Possesses(t, n)' <=> Possesses(t, n)
    BY <1>0, <1>1, Fields DEF Possesses
  <2>. QED  BY <1>1, <1>2, <2>1, OthersPossess, OwnersKept, Fields
<1>4. \A C : WalkOK(t, C)'
  BY <1>0 DEF WalkOK
<1>5. Awake(t)
  BY <1>1 DEF Awake, Asleep
<1>. QED  BY <1>0, <1>1, <1>2, <1>3, <1>4, <1>5, AwakeKeeps DEF Emptying

\* The wait bytes of the others are kept, set for a thread that sleeps, or
\* cleared for one that has given up its mutex.
LEMMA BytesKept ==
  ASSUME Bytes, NEW t \in Threads, Step(t),
         \A u \in Threads \ {t} :
           \/ heap'.wait[u] = heap.wait[u]
           \/ heap'.wait[u] = 1 /\ Asleep(u)
           \/ heap'.wait[u] = 0 /\ pc[u] \notin {"u_take", "u_try", "t_late"},
         heap'.wait[t] = 1 => Asleep(t)',
         pc'[t] \in {"u_take", "u_try"} /\ then'[t] # "idle" => heap'.wait[t] = 1,
         pc'[t] = "t_late" => heap'.wait[t] = 1
  PROVE  Bytes'
<1>1. ASSUME NEW u \in Threads
      PROVE  /\ heap'.wait[u] = 1 => Asleep(u)'
             /\ pc'[u] \in {"u_take", "u_try"} /\ then'[u] # "idle" => heap'.wait[u] = 1
             /\ pc'[u] = "t_late" => heap'.wait[u] = 1
  <2>1. CASE u = t
    BY <2>1
  <2>2. CASE u # t
    <3>1. pc'[u] = pc[u] /\ then'[u] = then[u]
      BY <2>2 DEF Step
    <3>2. /\ heap.wait[u] = 1 => Asleep(u)
          /\ pc[u] \in {"u_take", "u_try"} /\ then[u] # "idle" => heap.wait[u] = 1
          /\ pc[u] = "t_late" => heap.wait[u] = 1
      BY DEF Bytes
    <3>3. Asleep(u)' <=> Asleep(u)
      BY <3>1 DEF Asleep
    <3>4. \/ heap'.wait[u] = heap.wait[u]
          \/ heap'.wait[u] = 1 /\ Asleep(u)
          \/ heap'.wait[u] = 0 /\ pc[u] \notin {"u_take", "u_try", "t_late"}
      BY <2>2
    <3>. QED  BY <3>1, <3>2, <3>3, <3>4
  <2>. QED  BY <2>1, <2>2
<1>. QED  BY <1>1 DEF Bytes

LEMMA LockTryKeeps ==
  ASSUME IInv, NEW t \in Threads, LockTry(t), CondKept(t), UNCHANGED uses
  PROVE  IInv'
<1>f. PartOK(t)
  BY Fields
<1>m. PICK m \in Mutexes : m = mutex[t]
  BY <1>f DEF LockTry, PartOK
<1>1. /\ pc[t] = "l_try" /\ held[t] = {} /\ m \in Queues /\ Served(t, m)
      /\ line' = Leave(m) /\ pc' = [pc EXCEPT ![t] = "wait"]
      /\ UNCHANGED <<then, mutex, held, uses, data, walk>>
  BY <1>f, <1>m, Fields, Sorts DEF LockTry, Goto, PartOK, CondKept
<1>0. pc'[t] = "wait" /\ cond' = cond
  BY <1>1, Fields DEF CondKept
<1>a. Awake(t)
  BY <1>1 DEF Awake, Asleep
<1>p. PartOK(t)'
  BY <1>f, <1>0, <1>1, <1>m DEF PartOK, Hasty, Late, Sending
<1>2. CASE owned[m] = 0
  <2>1. owned' = [owned EXCEPT ![m] = 1] /\ heap' = heap
    BY <1>m, <1>2 DEF LockTry
  <2>2. Step(t)
    BY <1>0, <1>1, <1>p, <2>1, Fields DEF Step, Inside, MutexLabels
  <2>3. heap.wait[t] = 0
    <3>1. PICK C : Lists(C)
      BY DEF IInv
    <3>. QED  BY <1>a, <3>1, AwakeNowhere DEF IInv, Lists
  <2>4. OneOwner'
    <3>1. \A n \in Mutexes : Possesses(t, n)' <=> Possesses(t, n) \/ n = m
      BY <1>0, <1>1, <1>m, <2>1, <2>3 DEF Possesses
    <3>. QED  BY <1>2, <2>1, <2>2, <3>1, OthersPossess, TakeOwner, Fields
  <2>5. \A C : WalkOK(t, C)'
    BY <1>0 DEF WalkOK
  <2>6. \A n \in Mutexes : owned'[n] = 0 => owned[n] = 0
    BY <2>1, Fields
  <2>. QED  BY <1>0, <1>1, <1>a, <2>1, <2>2, <2>4, <2>5, <2>6, AwakeKeeps DEF Emptying
<1>3. CASE owned[m] # 0
  <2>1. owned' = owned /\ heap' = Enqueue(heap, m, t) /\ owned[m] = 1
    BY <1>m, <1>3, Fields DEF LockTry
  <2>2. Step(t)
    BY <1>0, <1>1, <1>p, <2>1, Fields DEF Step, Inside, MutexLabels
  <2>3. PICK C : Lists(C)
    BY DEF IInv
  <2>4. heap.wait[t] = 0 /\ \A q \in Queues : ~ IsIn(t, C[q])
    BY <1>a, <2>3, AwakeNowhere DEF IInv, Lists
  <2>5. heap \in Heaps /\ \A u \in Threads : heap'.wait[u] = IF u = t THEN 1 ELSE heap.wait[u]
    BY <1>1, <2>1, <2>3, WaitBytes DEF Lists, Sound
  <2>6. Stale' = Stale /\ m \notin Stale
    <3>1. Stale' = Stale
      BY <1>0, <1>1, <2>2, StaleKept DEF Emptying
    <3>. QED  BY <3>1 DEF Stale
  <2>7. \A u, y \in Threads : Carries(u, y) => y # t /\ u # t
    BY <1>1, <2>3, <2>4 DEF Carries, Lists, Carried
  <2>8. InMutex(m, t)'
    BY <1>0, <1>1, <1>m, <2>5 DEF InMutex
  <2>9. \E D : Lists(D)'
    <3>1. m \in Queues \ Stale /\ m \notin Conds
      BY <1>1, <2>6
    <3>2. pc'[t] \notin {"t_late", "t_take", "t_deq", "s_move"} \cup Emptying
      BY <1>0 DEF Emptying
    <3>3. TypeOK /\ Parts /\ Bytes
      BY DEF IInv
    <3>. QED  BY <1>a, <2>1, <2>2, <2>3, <2>4, <2>6, <2>7, <2>8, <3>1, <3>2, <3>3, EnqueueLists
  <2>10. heap' \in Heaps
    BY <2>9 DEF Lists, Sound
  <2>11. Bytes'
    BY <1>0, <2>2, <2>5, BytesKept DEF IInv, Asleep
  <2>12. OneOwner'
    <3>1. \A n \in Mutexes : Possesses(t, n)' <=> Possesses(t, n)
      BY <1>0, <1>1, <2>5 DEF Possesses
    <3>2. \A u \in Threads \ {t}, n \in Mutexes : Possesses(u, n)' <=> Possesses(u, n)
      BY <2>2, <2>5, OthersPossess
    <3>. QED  BY <2>1, <3>1, <3>2, OwnersKept, Fields
  <2>13. TypeOK' /\ Parts' /\ Locked'
    BY <2>2, <2>10, StepKeeps DEF IInv
  <2>. QED  BY <2>9, <2>11, <2>12, <2>13 DEF IInv
<1>. QED  BY <1>2, <1>3

\* A step of a thread that waits, when it moves no cell.
LEMMA StillKeeps ==
  ASSUME IInv, NEW t \in Threads, Step(t), heap' = heap, OneOwner',
         pc[t] \notin Sending, pc'[t] \notin Sending, pc[t] # "wait",
         mutex'[t] = mutex[t], cond'[t] = cond[t], data'[t] = data[t],
         pc[t] \in {"t_take", "t_deq"} => pc'[t] \in {"t_take", "t_deq"},
         \A C : Lists(C) /\ pc'[t] \in {"t_late", "t_take", "t_deq"} => IsIn(t, C[cond[t]]),
         \A m \in Mutexes : owned'[m] = 0 => owned[m] = 0 \/ heap.head[m] = NULL,
         heap.wait[t] = 1 => Asleep(t)',
         pc'[t] \in {"u_take", "u_try"} /\ then'[t] # "idle" => heap.wait[t] = 1,
         pc'[t] = "t_late" => heap.wait[t] = 1
  PROVE  IInv'
<1>1. TypeOK' /\ Parts' /\ Locked'
  BY StepKeeps DEF IInv, TypeOK
<1>2. PICK C : Lists(C)
  BY DEF IInv
<1>3. Bytes'
  BY BytesKept DEF IInv
<1>4. Stale' = Stale
  BY StaleKept DEF Sending, Emptying
<1>5. \A m \in Mutexes : heap.head[m] = NULL => C[m] = <<>>
  BY <1>2, Sorts, NoHead DEF Lists, Stale
<1>6. Settled(t, C)
  BY <1>2, <1>5 DEF Settled, Sending
<1>7. Sound(heap, C, Stale')
  BY <1>2, <1>4 DEF Lists
<1>8. WalkOK(t, C)'
  BY DEF WalkOK, Sending
<1>9. Lists(C)'
  BY <1>2, <1>6, <1>7, <1>8, ListsKept DEF IInv
<1>. QED  BY <1>1, <1>3, <1>9 DEF IInv

LEMMA UnlockTakeKeeps ==
  ASSUME IInv, NEW t \in Threads, UnlockTake(t), CondKept(t), UNCHANGED uses
  PROVE  IInv'
<1>f. PartOK(t)
  BY Fields
<1>1. /\ pc[t] = "u_take" /\ mutex[t] \in Queues /\ line' = Join(t, mutex[t])
      /\ pc' = [pc EXCEPT ![t] = "u_try"]
      /\ UNCHANGED <<then, mutex, held, owned, heap, uses, data, walk>>
  BY <1>f, Fields, Sorts DEF UnlockTake, Goto, PartOK, CondKept
<1>0. pc'[t] = "u_try" /\ cond' = cond
  BY <1>1, Fields DEF CondKept
<1>2. Step(t)
  <2>1. PartOK(t)'
    BY <1>f, <1>0, <1>1 DEF PartOK, Hasty, Late, Sending
  <2>. QED  BY <1>0, <1>1, <2>1, Fields DEF Step, Inside, MutexLabels
<1>3. OneOwner'
  <2>1. \A n \in Mutexes : Possesses(t, n)' <=> Possesses(t, n)
    BY <1>0, <1>1 DEF Possesses
  <2>. QED  BY <1>1, <1>2, <2>1, OthersPossess, OwnersKept, Fields
<1>4. then[t] # "idle" /\ heap.wait[t] = 1
  BY <1>f, <1>1 DEF PartOK, IInv, Bytes
<1>5. Asleep(t)'
  BY <1>0, <1>1, <1>4 DEF Asleep
<1>6. pc[t] \notin Sending /\ pc'[t] \notin Sending
  BY <1>0, <1>1 DEF Sending
<1>. QED  BY <1>0, <1>1, <1>2, <1>3, <1>4, <1>5, <1>6, StillKeeps

\* A dequeue takes its cell out of the lists.
LEMMA TakeOut ==
  ASSUME NEW C, NEW F, Sound(heap, C, F), NEW q \in Queues \ F, NEW c, IsIn(c, C[q])
  PROVE  /\ c \in Threads /\ Dequeue(heap, q, c) \in Heaps
         /\ \A y \in Threads : Dequeue(heap, q, c).wait[y] = heap.wait[y]
         /\ \E D :
              /\ Sound(Dequeue(heap, q, c), D, F)
              /\ \A r \in Queues \ {q} : D[r] = C[r]
              /\ \A r \in Queues, y \in Threads : IsIn(y, D[r]) <=> IsIn(y, C[r]) /\ y # c
<1>1. C \in [Queues -> Seq(Threads)] /\ heap \in Heaps /\ C[q] \in Seq(Threads) /\ Distinct(C[q])
  BY DEF Sound
<1>2. PICK k \in 1..Len(C[q]) : c = C[q][k]
  BY DEF IsIn
<1>3. c \in Threads
  BY <1>1, <1>2
<1>4. PICK D : D = [C EXCEPT ![q] = Without(@, k)]
  OBVIOUS
<1>5. Sound(Dequeue(heap, q, c), D, F)
  BY <1>2, <1>4, SoundDequeue
<1>6. D[q] = Without(C[q], k) /\ \A r \in Queues \ {q} : D[r] = C[r]
  BY <1>1, <1>4
<1>7. \A y \in Threads : IsIn(y, D[q]) <=> IsIn(y, C[q]) /\ y # c
  BY <1>1, <1>2, <1>6, WithoutHolds
<1>8. \A r \in Queues \ {q} : ~ IsIn(c, C[r])
  BY <1>3, OneList
<1>9. \A r \in Queues, y \in Threads : IsIn(y, D[r]) <=> IsIn(y, C[r]) /\ y # c
  BY <1>6, <1>7, <1>8
<1>10. \A y \in Threads : Dequeue(heap, q, c).wait[y] = heap.wait[y]
  BY <1>1, <1>3, WaitBytes
<1>11. Dequeue(heap, q, c) \in Heaps
  BY <1>5 DEF Sound
<1>. QED  BY <1>3, <1>5, <1>6, <1>9, <1>10, <1>11

\* The end of an unlock: a return to the application, or to the wait of a cell
\* that is queued.
LEMMA UnlockEnds ==
  ASSUME IInv, NEW t \in Threads, UnlockTry(t), CondKept(t), UNCHANGED uses
  PROVE  /\ Step(t) /\ pc[t] = "u_try" /\ held[t] = {} /\ held' = held /\ data' = data /\ walk' = walk
         /\ mutex[t] \in Mutexes
         /\ \/ then[t] = "idle" /\ pc'[t] = "idle" /\ Awake(t)
            \/ /\ then[t] # "idle" /\ pc'[t] \in {"wait", "t_wait"} /\ heap.wait[t] = 1
               /\ UNCHANGED <<mutex, cond>>
<1>f. PartOK(t)
  BY Fields
<1>m. PICK m \in Mutexes : m = mutex[t]
  BY <1>f DEF UnlockTry, PartOK
<1>1. /\ pc[t] = "u_try" /\ held[t] = {} /\ m \in Queues /\ Served(t, m) /\ line' = Leave(m)
      /\ owned' \in [Mutexes -> {0, 1}]
      /\ UNCHANGED <<held, uses, data, walk>>
  <2>1. owned' \in [Mutexes -> {0, 1}]
    BY <1>m, Fields DEF UnlockTry
  <2>. QED  BY <1>f, <1>m, <2>1, Sorts DEF UnlockTry, PartOK, CondKept
<1>2. CASE then[t] = "idle"
  <2>1. /\ pc' = [pc EXCEPT ![t] = "idle"] /\ mutex' = [mutex EXCEPT ![t] = NULL]
        /\ then' = [then EXCEPT ![t] = "idle"]
    BY <1>2 DEF UnlockTry, EndUnlock, Return, Goto
  <2>2. cond' = [cond EXCEPT ![t] = NULL]
    BY <2>1, Fields DEF CondKept
  <2>3. pc'[t] = "idle" /\ then'[t] = "idle" /\ mutex'[t] = NULL
    BY <2>1, Fields
  <2>4. PartOK(t)'
    BY <1>f, <1>1, <2>3 DEF PartOK, Hasty, Late, Sending
  <2>5. \A u \in Threads \ {t} :
          pc'[u] = pc[u] /\ then'[u] = then[u] /\ mutex'[u] = mutex[u] /\ cond'[u] = cond[u]
    BY <2>1, <2>2, Fields
  <2>6. Step(t)
    BY <1>1, <2>1, <2>2, <2>3, <2>4, <2>5, Fields DEF Step, Inside, MutexLabels
  <2>. QED  BY <1>m, <1>1, <1>2, <2>3, <2>6 DEF Awake, Asleep
<1>3. CASE then[t] # "idle"
  <2>1. pc' = [pc EXCEPT ![t] = then[t]] /\ UNCHANGED <<mutex, then>>
    BY <1>3 DEF UnlockTry, EndUnlock, Goto
  <2>2. pc'[t] = then[t] /\ then[t] \in {"wait", "t_wait"}
    BY <1>3, <2>1, Fields
  <2>3. cond' = cond
    BY <2>2, <1>3 DEF CondKept
  <2>4. PartOK(t)'
    BY <1>f, <1>1, <1>3, <2>1, <2>2, <2>3 DEF PartOK, Hasty, Late, Sending
  <2>5. Step(t)
    BY <1>1, <2>1, <2>2, <2>3, <2>4, Fields DEF Step, Inside, MutexLabels, CondLabels
  <2>6. heap.wait[t] = 1
    BY <1>1, <1>3 DEF IInv, Bytes
  <2>. QED  BY <1>m, <1>1, <1>3, <2>1, <2>2, <2>3, <2>5, <2>6
<1>. QED  BY <1>2, <1>3

\* Nobody waits: the mutex is free.
LEMMA UnlockFreeKeeps ==
  ASSUME IInv, NEW t \in Threads, UnlockTry(t), CondKept(t), UNCHANGED uses,
         heap.head[mutex[t]] = NULL
  PROVE  IInv'
<1>1. /\ Step(t) /\ pc[t] = "u_try" /\ held[t] = {} /\ held' = held /\ data' = data
      /\ \/ then[t] = "idle" /\ pc'[t] = "idle" /\ Awake(t)
         \/ /\ then[t] # "idle" /\ pc'[t] \in {"wait", "t_wait"} /\ heap.wait[t] = 1
            /\ UNCHANGED <<mutex, cond>>
  BY UnlockEnds
<1>m. PICK m \in Mutexes : m = mutex[t]
  BY UnlockEnds
<1>2. owned' = [owned EXCEPT ![m] = 0] /\ heap' = heap /\ heap.head[m] = NULL
  BY <1>m DEF UnlockTry
<1>3. OneOwner'
  <2>1. \A n \in Mutexes : Possesses(t, n)' <=> Possesses(t, n) /\ n # m
    BY <1>1, <1>2, <1>m DEF Possesses
  <2>2. Possesses(t, m)
    BY <1>1, <1>m DEF Possesses
  <2>. QED  BY <1>1, <1>2, <2>1, <2>2, OthersPossess, DropOwner, Fields
<1>4. \A n \in Mutexes : owned'[n] = 0 => owned[n] = 0 \/ heap.head[n] = NULL
  BY <1>2, Fields
<1>5. CASE then[t] = "idle"
  <2>1. \A C : WalkOK(t, C)'
    BY <1>1, <1>5 DEF WalkOK
  <2>. QED  BY <1>1, <1>2, <1>3, <1>4, <1>5, <2>1, AwakeKeeps DEF Emptying
<1>6. CASE then[t] # "idle"
  <2>1. pc[t] \notin Sending /\ pc'[t] \notin Sending
    BY <1>1, <1>6 DEF Sending
  <2>2. Asleep(t)'
    BY <1>1, <1>6 DEF Asleep
  <2>. QED  BY <1>1, <1>2, <1>3, <1>4, <1>6, <2>1, <2>2, StillKeeps
<1>. QED  BY <1>5, <1>6

\* The mutex goes to the head of its queue, which may be the thread itself.
LEMMA UnlockPassKeeps ==
  ASSUME IInv, NEW t \in Threads, UnlockTry(t), CondKept(t), UNCHANGED uses,
         heap.head[mutex[t]] # NULL
  PROVE  IInv'
<1>1. /\ Step(t) /\ pc[t] = "u_try" /\ held[t] = {} /\ held' = held /\ data' = data /\ walk' = walk
      /\ \/ then[t] = "idle" /\ pc'[t] = "idle" /\ Awake(t)
         \/ /\ then[t] # "idle" /\ pc'[t] \in {"wait", "t_wait"} /\ heap.wait[t] = 1
            /\ UNCHANGED <<mutex, cond>>
  BY UnlockEnds
<1>m. PICK m \in Mutexes : m = mutex[t]
  BY UnlockEnds
<1>2. PICK C : Lists(C)
  BY DEF IInv
<1>3. PICK F : F = Stale /\ m \in Queues \ F /\ Stale' = F
  <2>1. Stale' = Stale
    BY <1>1, StaleKept DEF Emptying
  <2>. QED  BY <2>1, Sorts DEF Stale
<1>4. Sound(heap, C, F)
  BY <1>2, <1>3 DEF Lists
<1>5. PICK c : c = heap.head[m] /\ c = C[m][1] /\ 1 \in 1..Len(C[m])
  BY <1>m, <1>3, <1>4, HeadCell
<1>6. owned' = owned /\ heap' = Wake(Dequeue(heap, m, c), c)
  BY <1>m, <1>5 DEF UnlockTry
<1>7. IsIn(c, C[m])
  BY <1>5 DEF IsIn
<1>8. /\ c \in Threads /\ Dequeue(heap, m, c) \in Heaps
      /\ \A y \in Threads : Dequeue(heap, m, c).wait[y] = heap.wait[y]
  BY <1>3, <1>4, <1>7, TakeOut
<1>d. PICK D :
        /\ Sound(Dequeue(heap, m, c), D, F)
        /\ \A r \in Queues \ {m} : D[r] = C[r]
        /\ \A r \in Queues, y \in Threads : IsIn(y, D[r]) <=> IsIn(y, C[r]) /\ y # c
  BY <1>3, <1>4, <1>7, TakeOut
<1>9. Sound(heap', D, F)
  BY <1>6, <1>8, <1>d, SoundWake
<1>10. \A y \in Threads : heap'.wait[y] = IF y = c THEN 0 ELSE heap.wait[y]
  <2>1. \A y \in Threads : Wake(Dequeue(heap, m, c), c).wait[y] =
                             IF y = c THEN 0 ELSE Dequeue(heap, m, c).wait[y]
    BY <1>3, <1>8, WaitBytes
  <2>. QED  BY <1>6, <1>8, <2>1
<1>11. mutex[c] = m /\ heap.wait[c] = 1 /\ (Hasty => pc[c] = "wait")
  BY <1>2, <1>7, <1>8 DEF Lists, Holders, InMutex
<1>12. Possesses(t, m) /\ owned[m] = 1
  <2>1. Possesses(t, m)
    BY <1>1, <1>m DEF Possesses
  <2>. QED  BY <2>1, Owned, Fields
<1>13. c = t \/ pc[c] \in {"wait", "t_wait"}
  <2>1. Asleep(c)
    BY <1>8, <1>11 DEF IInv, Bytes
  <2>2. pc[c] # "t_late"
    BY <1>8, <1>11, Fields DEF PartOK, Late
  <2>3. pc[c] \in {"u_take", "u_try"} => c = t
    BY <1>8, <1>11, <1>12, Owned, Fields DEF Possesses
  <2>. QED  BY <2>1, <2>2, <2>3 DEF Asleep
<1>14. c = t => then[t] # "idle"
  <2>1. Awake(t) => \A q \in Queues : ~ IsIn(t, C[q])
    BY <1>2, AwakeNowhere DEF IInv, Lists
  <2>. QED  BY <1>1, <1>3, <1>7, <2>1
<1>15. OneOwner'
  <2>1. ASSUME NEW u \in Threads \ {t, c}, NEW n \in Mutexes PROVE Possesses(u, n)' <=> Possesses(u, n)
    BY <1>1, <1>10 DEF Step, Possesses
  <2>2. CASE c = t
    <3>1. \A n \in Mutexes : Possesses(t, n)' <=> Possesses(t, n)
      BY <1>1, <1>10, <1>14, <2>2 DEF Possesses
    <3>. QED  BY <1>6, <2>1, <2>2, <3>1, OwnersKept, Fields
  <2>3. CASE c # t
    <3>1. \A n \in Mutexes : ~ Possesses(t, n)'
      BY <1>1, <1>10, <2>3 DEF Possesses
    <3>2. held[c] = {}
      BY <1>8, <1>13, <2>3, Fields DEF PartOK
    <3>3. \A n \in Mutexes : ~ Possesses(c, n)
      BY <1>11, <1>13, <2>3, <3>2 DEF Possesses
    <3>4. pc'[c] = pc[c] /\ mutex'[c] = m /\ held'[c] = {} /\ heap'.wait[c] = 0
      BY <1>8, <1>1, <1>10, <1>11, <2>3, <3>2 DEF Step
    <3>5. \A n \in Mutexes : Possesses(c, n)' <=> n = m
      BY <1>13, <2>3, <3>4 DEF Possesses
    <3>6. \A n \in Mutexes : Possesses(t, n) => n = m
      BY <1>1, <1>m DEF Possesses
    <3>7. \A n \in Mutexes \ {m} : owned'[n] = owned[n] /\ \A u \in Threads : Possesses(u, n)' <=> Possesses(u, n)
      BY <1>6, <2>1, <3>1, <3>3, <3>5, <3>6
    <3>8. \A u \in Threads : Possesses(u, m) => u = t
      BY <1>12, Owned, Fields
    <3>9. \A u \in Threads : Possesses(u, m)' <=> u = c
      BY <1>8, <2>1, <2>3, <3>1, <3>5, <3>8
    <3>10. owned'[m] = 1
      BY <1>6, <1>12
    <3>. QED  BY <1>8, <3>7, <3>9, <3>10, Owner, Fields
  <2>. QED  BY <2>2, <2>3
<1>16. Bytes'
  <2>1. \A u \in Threads \ {t} :
          \/ heap'.wait[u] = heap.wait[u]
          \/ heap'.wait[u] = 0 /\ pc[u] \notin {"u_take", "u_try", "t_late"}
    BY <1>10, <1>13
  <2>2. heap'.wait[t] = 1 => Asleep(t)'
    <3>1. CASE then[t] = "idle"
      <4>1. heap.wait[t] = 0
        BY <1>1, <1>2, <3>1, AwakeNowhere DEF IInv, Lists
      <4>. QED  BY <1>10, <4>1
    <3>2. CASE then[t] # "idle"
      BY <1>1, <3>2 DEF Asleep
    <3>. QED  BY <3>1, <3>2
  <2>. QED  BY <1>1, <2>1, <2>2, BytesKept DEF IInv
<1>17. Lists(D)'
  <2>1. Keeping(t, C, D)
    <3>1. Awake(t) => heap.wait[t] = 0 /\ \A q \in Queues : ~ IsIn(t, C[q])
      BY <1>2, AwakeNowhere DEF IInv, Lists
    <3>. QED  BY <1>1, <3>1 DEF Keeping
  <2>2. \A r \in Queues, y \in Threads : IsIn(y, D[r]) => Stays(r, y, C)
    BY <1>8, <1>d, <1>10 DEF Stays
  <2>3. Reached(D)'
    <3>1. ASSUME Spared, NEW y \in Threads, heap'.wait[y] = 1
          PROVE  (\E r \in Queues : IsIn(y, D[r])) \/ (\E u \in Threads : Carries(u, y)')
      <4>1. y # c /\ heap.wait[y] = 1
        BY <1>10, <3>1
      <4>2. (\E r \in Queues : IsIn(y, C[r])) \/ (\E u \in Threads : Carries(u, y))
        BY <1>2, <3>1, <4>1 DEF Lists, Reached
      <4>3. ASSUME NEW u \in Threads, Carries(u, y) PROVE Carries(u, y)'
        BY <1>1, <4>3 DEF Carries, Step
      <4>. QED  BY <1>8, <1>d, <4>1, <4>2, <4>3
    <3>2. ASSUME NEW y \in Threads, pc'[y] \in {"t_late", "t_take", "t_deq"} PROVE IsIn(y, D[cond'[y]])
      <4>1. y # t /\ pc[y] = pc'[y] /\ cond'[y] = cond[y]
        BY <1>1, <3>2 DEF Step
      <4>2. IsIn(y, C[cond[y]]) /\ cond[y] \in Conds
        BY <1>2, <3>2, <4>1, Fields DEF Lists, Reached, PartOK, Late
      <4>3. D[cond[y]] = C[cond[y]]
        BY <1>8, <1>d, <4>2, Sorts
      <4>. QED  BY <4>1, <4>2, <4>3
    <3>. QED  BY <3>1, <3>2, <1>1, SparedKept DEF Reached
  <2>4. ASSUME NEW u \in Threads \ {t}, pc[u] = "s_move"
        PROVE  /\ heap'.wait[walk[u].cell] = 1
               /\ \A r \in Queues : ~ IsIn(walk[u].cell, D[r])
    <3>1. PICK y \in Threads : y = walk[u].cell /\ heap.wait[y] = 1 /\ \A r \in Queues : ~ IsIn(y, C[r])
      BY <1>2, <2>4 DEF Lists, Carried
    <3>2. y # c
      BY <1>3, <1>7, <3>1
    <3>3. heap'.wait[y] = 1 /\ \A r \in Queues : ~ IsIn(y, D[r])
      BY <1>d, <1>10, <3>1, <3>2
    <3>. QED  BY <3>1, <3>3
  <2>5. Free(D)'
    <3>1. \A n \in Mutexes : owned[n] = 0 => n # m /\ C[n] = <<>>
      BY <1>2, <1>12 DEF Lists, Free
    <3>2. \A n \in Mutexes \ {m} : D[n] = C[n]
      BY <1>d, Sorts
    <3>. QED  BY <1>6, <3>1, <3>2 DEF Free
  <2>6. ASSUME NEW u \in Threads \ {t}, pc[u] \in Emptying PROVE D[cond[u]] = C[cond[u]]
    BY <1>8, <1>d, <2>6, Fields, Sorts DEF PartOK, Emptying, Sending
  <2>7. WalkOK(t, D)' /\ pc'[t] # "s_move"
    BY <1>1 DEF WalkOK
  <2>8. TypeOK /\ Parts
    BY DEF IInv
  <2>9. Sound(heap', D, Stale')
    BY <1>3, <1>9
  <2>10. /\ \A n \in Mutexes, y \in Threads : IsIn(y, D[n]) => Stays(n, y, C) \/ InMutex(n, y)'
         /\ \A d \in Conds, y \in Threads : IsIn(y, D[d]) => Stays(d, y, C) \/ InCond(d, y)'
    BY <2>2, Sorts
  <2>. QED  BY <1>1, <1>2, <2>1, <2>3, <2>4, <2>5, <2>6, <2>7, <2>8, <2>9, <2>10, ListsMove
<1>18. TypeOK' /\ Parts' /\ Locked'
  BY <1>1, <1>9, StepKeeps DEF IInv, Sound
<1>. QED  BY <1>15, <1>16, <1>17, <1>18 DEF IInv

LEMMA MutexStepKeeps ==
  ASSUME IInv, NEW t \in Threads, MutexStep(t), CondKept(t), UNCHANGED uses
  PROVE  IInv'
BY LockTakeKeeps, LockTryKeeps, WaitKeeps, UnlockTakeKeeps, UnlockFreeKeeps, UnlockPassKeeps DEF MutexStep

---------------------------------------------------------------------------
\* The calls of a condition, and the steps in them that move no cell

LEMMA StartWaitKeeps ==
  ASSUME IInv, NEW t \in Threads, NEW c \in Conds, NEW next \in {"wait", "t_wait"},
         StartWait(t, c, next), UNCHANGED uses
  PROVE  IInv'
<1>f. PartOK(t)
  BY Fields
<1>m. PICK m \in held[t] : mutex' = [mutex EXCEPT ![t] = m] /\ data' = [data EXCEPT ![t] = m]
  BY DEF StartWait
<1>1. /\ pc[t] = "idle" /\ m \in Mutexes /\ c \in Queues /\ line' = Join(t, c)
      /\ cond' = [cond EXCEPT ![t] = c] /\ then' = [then EXCEPT ![t] = next]
      /\ pc' = [pc EXCEPT ![t] = "w_enq"]
      /\ UNCHANGED <<uses, held, owned, heap, walk>>
  BY Fields DEF StartWait, Goto
<1>0. /\ pc'[t] = "w_enq" /\ mutex'[t] = m /\ data'[t] = m /\ cond'[t] = c /\ then'[t] = next
      /\ next # "idle" /\ held[t] = {m}
  BY <1>f, <1>m, <1>1, Fields DEF PartOK
<1>2. Step(t)
  <2>1. PartOK(t)'
    BY <1>f, <1>0, <1>1 DEF PartOK, Hasty, Late, Sending
  <2>2. \A u \in Threads \ {t} :
          /\ pc'[u] = pc[u] /\ then'[u] = then[u] /\ mutex'[u] = mutex[u] /\ cond'[u] = cond[u]
          /\ data'[u] = data[u]
    BY <1>m, <1>1, Fields
  <2>. QED  BY <1>m, <1>0, <1>1, <2>1, <2>2, Fields DEF Step, Inside, CondLabels
<1>3. OneOwner'
  <2>1. \A n \in Mutexes : Possesses(t, n)' <=> Possesses(t, n)
    BY <1>0, <1>1 DEF Possesses
  <2>. QED  BY <1>1, <1>2, <2>1, OthersPossess, OwnersKept, Fields
<1>4. \A C : WalkOK(t, C)'
  BY <1>0 DEF WalkOK
<1>. QED  BY <1>0, <1>1, <1>2, <1>3, <1>4, AwakeKeeps DEF Awake, Asleep, Emptying

\* In a calm application that signals, no timed wait ends by its time.
LEMMA NotHasty ==
  ASSUME IInv, Calm, NEW t \in Threads, uses[t] \cap {"signal", "broadcast"} # {}
  PROVE  ~ Hasty
<1>1. uses \in Programs
  BY DEF IInv, TypeOK
<1>. QED  BY <1>1 DEF Calm, Hasty

\* The call of a signal or a broadcast takes a ticket.
LEMMA SendKeeps ==
  ASSUME IInv, Calm, NEW t \in Threads, NEW c \in Conds,
         Signal(t, c) \/ Broadcast(t, c), UNCHANGED uses
  PROVE  IInv'
<1>f. PartOK(t)
  BY Fields
<1>l. PICK label \in {"s_pick", "b_first"} : Goto(t, label)
  BY DEF Signal, Broadcast
<1>1. /\ pc[t] = "idle" /\ c \in Queues /\ line' = Join(t, c)
      /\ cond' = [cond EXCEPT ![t] = c] /\ pc' = [pc EXCEPT ![t] = label]
      /\ UNCHANGED <<uses, then, mutex, held, owned, heap, data, walk>>
  BY <1>l DEF Signal, Broadcast, Goto
<1>0. pc'[t] = label /\ cond'[t] = c
  BY <1>1, Fields
<1>h. ~ Hasty
  BY NotHasty DEF Signal, Broadcast
<1>2. Step(t)
  <2>1. PartOK(t)'
    BY <1>f, <1>h, <1>0, <1>1 DEF PartOK, Hasty, Late, Sending
  <2>2. \A u \in Threads \ {t} : pc'[u] = pc[u] /\ cond'[u] = cond[u]
    BY <1>1, Fields
  <2>. QED  BY <1>0, <1>1, <2>1, <2>2, Fields DEF Step, Inside, CondLabels
<1>3. OneOwner'
  <2>1. \A n \in Mutexes : Possesses(t, n)' <=> Possesses(t, n)
    BY <1>0, <1>1 DEF Possesses
  <2>. QED  BY <1>1, <1>2, <2>1, OthersPossess, OwnersKept, Fields
<1>4. \A C : WalkOK(t, C)'
  BY <1>0 DEF WalkOK
<1>. QED  BY <1>0, <1>1, <1>2, <1>3, <1>4, AwakeKeeps DEF Awake, Asleep, Emptying

\* A call that returns to the application, its words as they were.
LEMMA ReturnStep ==
  ASSUME IInv, NEW t \in Threads, CondReturn(t), PartOK(t), \A m, n \in held'[t] : m = n,
         UNCHANGED uses, \A u \in Threads \ {t} : held'[u] = held[u],
         held' \in [Threads -> SUBSET Mutexes], owned' \in [Mutexes -> {0, 1}],
         data' = data, walk' = walk, walk[t] = NoWalk,
         line' = line \/ \E q \in Queues : Served(t, q) /\ line' = Leave(q)
  PROVE  Step(t) /\ pc'[t] = "idle" /\ then'[t] = "idle" /\ mutex'[t] = NULL
<1>1. /\ pc' = [pc EXCEPT ![t] = "idle"] /\ mutex' = [mutex EXCEPT ![t] = NULL]
      /\ then' = [then EXCEPT ![t] = "idle"] /\ cond' = [cond EXCEPT ![t] = NULL]
  BY DEF CondReturn, Return, Goto
<1>2. pc'[t] = "idle" /\ then'[t] = "idle" /\ mutex'[t] = NULL
  BY <1>1, Fields
<1>3. PartOK(t)'
  BY <1>2 DEF PartOK, Late, Sending
<1>4. \A u \in Threads \ {t} :
        pc'[u] = pc[u] /\ then'[u] = then[u] /\ mutex'[u] = mutex[u] /\ cond'[u] = cond[u]
  BY <1>1, Fields
<1>5. /\ pc' \in [Threads -> MutexLabels \cup CondLabels]
      /\ then' \in [Threads -> {"idle", "wait", "t_wait"}]
      /\ mutex' \in [Threads -> Mutexes \cup {NULL}] /\ cond' \in [Threads -> Conds \cup {NULL}]
  BY <1>1, Fields DEF MutexLabels
<1>. QED  BY <1>2, <1>3, <1>4, <1>5, Fields DEF Step, Inside

\* A signal that found nobody, or has moved its cell.
LEMMA SignalEndKeeps ==
  ASSUME IInv, NEW t \in Threads,
         (SignalPick(t) /\ heap.head[cond[t]] = NULL) \/ SignalLeave(t), UNCHANGED uses
  PROVE  IInv'
<1>f. PartOK(t)
  BY Fields
<1>c. PICK c \in Conds : c = cond[t]
  BY <1>f DEF SignalPick, SignalLeave, PartOK, Sending
<1>1. /\ pc[t] \in {"s_pick", "s_leave"} /\ c \in Queues /\ Served(t, c) /\ line' = Leave(c)
      /\ CondReturn(t) /\ UNCHANGED <<uses, held, owned, heap, data, walk>>
  <2>1. Served(t, c)
    BY <1>c DEF SignalPick, SignalLeave, IInv, Locked, Inside
  <2>. QED  BY <1>c, <2>1 DEF SignalPick, SignalLeave
<1>2. \A m, n \in held'[t] : m = n
  BY <1>f, <1>1 DEF PartOK
<1>3. walk[t] = NoWalk
  BY <1>f, <1>1 DEF PartOK
<1>4. Step(t) /\ pc'[t] = "idle" /\ then'[t] = "idle" /\ mutex'[t] = NULL
  BY <1>f, <1>1, <1>2, <1>3, ReturnStep, Fields
<1>5. OneOwner'
  <2>1. \A n \in Mutexes : Possesses(t, n)' <=> Possesses(t, n)
    BY <1>1, <1>4 DEF Possesses
  <2>. QED  BY <1>1, <1>4, <2>1, OthersPossess, OwnersKept, Fields
<1>6. \A C : WalkOK(t, C)'
  BY <1>4 DEF WalkOK
<1>. QED  BY <1>1, <1>4, <1>5, <1>6, AwakeKeeps DEF Awake, Asleep, Emptying

\* The timed wait of a cell that has been woken returns.
LEMMA TimedWokenKeeps ==
  ASSUME IInv, NEW t \in Threads, TimedWoken(t), UNCHANGED uses
  PROVE  IInv'
<1>f. PartOK(t)
  BY Fields
<1>1. /\ pc[t] = "t_wait" /\ heap.wait[t] = 0 /\ mutex[t] \in Mutexes /\ held[t] = {}
      /\ held' = [held EXCEPT ![t] = {mutex[t]}] /\ CondReturn(t) /\ walk[t] = NoWalk
      /\ UNCHANGED <<owned, line, heap, uses, data, walk>>
  BY <1>f DEF TimedWoken, PartOK, Late
<1>2. Step(t) /\ pc'[t] = "idle" /\ then'[t] = "idle" /\ mutex'[t] = NULL
  <2>1. /\ held' \in [Threads -> SUBSET Mutexes] /\ \A a, b \in held'[t] : a = b
        /\ \A u \in Threads \ {t} : held'[u] = held[u]
    BY <1>1, Fields
  <2>. QED  BY <1>f, <1>1, <2>1, ReturnStep, Fields
<1>3. OneOwner'
  <2>1. held'[t] = {mutex[t]}
    BY <1>1, Fields
  <2>2. \A n \in Mutexes : Possesses(t, n)' <=> Possesses(t, n)
    BY <1>1, <1>2, <2>1 DEF Possesses
  <2>. QED  BY <1>1, <1>2, <2>2, OthersPossess, OwnersKept, Fields
<1>4. \A C : WalkOK(t, C)'
  BY <1>2 DEF WalkOK
<1>. QED  BY <1>1, <1>2, <1>3, <1>4, AwakeKeeps DEF Awake, Asleep, Emptying

\* The lock at the end of a wait that timed out.
LEMMA TimedLockKeeps ==
  ASSUME IInv, NEW t \in Threads, TimedLock(t), UNCHANGED uses
  PROVE  IInv'
<1>f. PartOK(t)
  BY Fields
<1>m. PICK m \in Mutexes : m = mutex[t]
  BY <1>f DEF TimedLock, PartOK, Late
<1>1. /\ pc[t] = "t_lock" /\ held[t] = {} /\ walk[t] = NoWalk
      /\ UNCHANGED <<line, heap, uses, data, walk>>
  BY <1>f DEF TimedLock, PartOK, Late
<1>2. CASE owned[m] = 0
  <2>1. owned' = [owned EXCEPT ![m] = 1] /\ held' = [held EXCEPT ![t] = {m}] /\ CondReturn(t)
    BY <1>m, <1>2 DEF TimedLock
  <2>2. Step(t) /\ pc'[t] = "idle" /\ then'[t] = "idle" /\ mutex'[t] = NULL
    <3>1. /\ held' \in [Threads -> SUBSET Mutexes] /\ \A a, b \in held'[t] : a = b
          /\ \A u \in Threads \ {t} : held'[u] = held[u]
          /\ owned' \in [Mutexes -> {0, 1}]
      BY <1>m, <2>1, Fields
    <3>. QED  BY <1>f, <1>1, <2>1, <3>1, ReturnStep, Fields
  <2>3. OneOwner'
    <3>1. held'[t] = {m}
      BY <2>1, Fields
    <3>2. \A n \in Mutexes : Possesses(t, n)' <=> Possesses(t, n) \/ n = m
      BY <1>1, <2>2, <3>1 DEF Possesses
    <3>. QED  BY <1>1, <1>2, <2>1, <2>2, <3>2, OthersPossess, TakeOwner, Fields
  <2>4. \A n \in Mutexes : owned'[n] = 0 => owned[n] = 0
    BY <2>1, Fields
  <2>5. \A C : WalkOK(t, C)'
    BY <2>2 DEF WalkOK
  <2>. QED  BY <1>1, <2>2, <2>3, <2>4, <2>5, AwakeKeeps DEF Awake, Asleep, Emptying
<1>3. CASE owned[m] # 0
  <2>1. pc' = [pc EXCEPT ![t] = "l_take"] /\ UNCHANGED <<then, mutex, cond, owned, held>>
    BY <1>m, <1>3 DEF TimedLock, Goto
  <2>2. pc'[t] = "l_take"
    BY <2>1, Fields
  <2>3. Step(t)
    <3>1. PartOK(t)'
      BY <1>f, <1>m, <1>1, <2>1, <2>2 DEF PartOK, Hasty, Late, Sending
    <3>. QED  BY <1>1, <2>1, <2>2, <3>1, Fields DEF Step, Inside, MutexLabels
  <2>4. OneOwner'
    <3>1. \A n \in Mutexes : Possesses(t, n)' <=> Possesses(t, n)
      BY <1>1, <2>1, <2>2 DEF Possesses
    <3>. QED  BY <1>1, <2>1, <2>3, <3>1, OthersPossess, OwnersKept, Fields
  <2>5. \A C : WalkOK(t, C)'
    BY <2>2 DEF WalkOK
  <2>. QED  BY <1>1, <2>1, <2>2, <2>3, <2>4, <2>5, AwakeKeeps DEF Awake, Asleep, Emptying
<1>. QED  BY <1>2, <1>3

\* The cells of a condition remember the mutexes of their threads.
LEMMA Queued ==
  ASSUME IInv, NEW C, Lists(C), NEW c \in Conds, NEW x \in Threads, IsIn(x, C[c])
  PROVE  /\ cond[x] = c /\ data[x] = mutex[x] /\ mutex[x] \in Mutexes
         /\ ~ Hasty => heap.wait[x] = 1 /\ (pc[x] \in {"wait", "t_wait"} \/ Possesses(x, mutex[x]))
         /\ pc[x] \notin Sending
<1>1. InCond(c, x)
  BY DEF Lists, Holders
<1>2. PartOK(x) /\ (heap.wait[x] = 1 => Asleep(x))
  BY Fields DEF IInv, Bytes
<1>. QED  BY <1>1, <1>2 DEF InCond, PartOK, Asleep, Late, Sending, Possesses

\* While a broadcast looks at its condition, the cells are tied to one another.
LEMMA Scanned ==
  ASSUME IInv, NEW C, Lists(C), NEW t \in Threads, pc[t] \in Emptying, NEW c, c = cond[t]
  PROVE  /\ c \in Conds /\ c \in Queues /\ c \in Stale
         /\ C[c] \in Seq(Threads) /\ Tied(heap, C[c])
         /\ \A i \in 1..Len(C[c]) : C[c][i] \in Threads /\ IsIn(C[c][i], C[c])
<1>1. c \in Conds /\ c \in Queues /\ c \in Stale
  BY Fields, Sorts DEF PartOK, Emptying, Sending, Stale, Broadcasting
<1>2. C[c] \in Seq(Threads) /\ Tied(heap, C[c])
  BY <1>1 DEF Lists, Sound, ListOf
<1>. QED  BY <1>1, <1>2 DEF IsIn

LEMMA BroadcastScanKeeps ==
  ASSUME IInv, NEW t \in Threads, BroadcastScan(t), UNCHANGED uses
  PROVE  IInv'
<1>f. PartOK(t)
  BY Fields
<1>w. PICK w \in [cell : Ptr, mqueue : Mutexes \cup {NULL}, head : Ptr, tail : Ptr] : w = walk[t]
  BY Fields
<1>c. PICK c \in Threads : c = w.cell
  BY <1>w DEF BroadcastScan, Ptr
<1>v. PICK v : v = [cell |-> heap.next[c], mqueue |-> data[c], tail |-> c,
                    head |-> IF w.mqueue = NULL THEN c ELSE w.head]
  OBVIOUS
<1>1. /\ pc[t] = "b_scan" /\ w.mqueue \in {NULL, data[c]}
      /\ walk' = [walk EXCEPT ![t] = v]
      /\ UNCHANGED <<pc, then, mutex, held, owned, line, heap, uses, cond, data>>
  BY <1>w, <1>c, <1>v DEF BroadcastScan
<1>2. v \in [cell : Ptr, mqueue : Mutexes \cup {NULL}, head : Ptr, tail : Ptr]
  <2>1. heap.next[c] \in Ptr
    BY HeapFields DEF IInv, TypeOK
  <2>. QED  BY <1>v, <1>c, <2>1, Fields DEF Ptr
<1>3. Step(t)
  <2>1. PartOK(t)'
    BY <1>f, <1>1 DEF PartOK, Hasty, Late, Sending
  <2>2. Served(t, cond[t])'
    BY <1>1 DEF IInv, Locked, Inside, Served
  <2>. QED  BY <1>1, <1>2, <2>1, <2>2, Fields DEF Step
<1>4. OneOwner'
  <2>1. \A n \in Mutexes : Possesses(t, n)' <=> Possesses(t, n)
    BY <1>1 DEF Possesses
  <2>. QED  BY <1>1, <1>3, <2>1, OthersPossess, OwnersKept, Fields
<1>5. ASSUME NEW C, Lists(C) PROVE WalkOK(t, C)'
  <2>1. PICK d : d = cond[t]
    OBVIOUS
  <2>2. PICK s \in Seq(Threads) :
          /\ s = C[d] /\ Tied(heap, s) /\ d \in Conds
          /\ \A i \in 1..Len(s) : s[i] \in Threads /\ IsIn(s[i], C[d])
    BY <1>1, <1>5, <2>1, Scanned DEF Emptying
  <2>3. PICK j \in 0..Len(s) : Group(t, s, j)
    BY <1>1, <1>5, <2>1, <2>2 DEF Lists, Walks, WalkOK
  <2>4. j < Len(s) /\ c = s[j + 1] /\ j + 1 \in 1..Len(s)
    BY <1>w, <1>c, <2>3, Sorts DEF Group
  <2>5. data[c] \in Mutexes
    BY <1>5, <2>2, <2>4, Queued
  <2>6. heap.next[c] = IF j + 1 < Len(s) THEN s[j + 2] ELSE NULL
    <3>1. CASE j + 1 < Len(s)
      BY <2>2, <2>4, <3>1 DEF Tied, Linked
    <3>2. CASE j + 1 = Len(s)
      BY <2>2, <2>4, <3>2 DEF Tied
    <3>. QED  BY <2>4, <3>1, <3>2
  <2>7. walk'[t] = v
    BY <1>1, Fields
  <2>8. v.head = s[1]
    BY <1>v, <1>w, <2>3, <2>4, Sorts DEF Group
  <2>9. \A i \in 1..(j + 1) : data[s[i]] = data[c]
    <3>1. \A i \in 1..j : data[s[i]] = data[c]
      BY <1>w, <1>1, <2>3, Sorts DEF Group
    <3>. QED  BY <2>4, <3>1
  <2>10. Group(t, s, j + 1)'
    <3>1. v.cell = heap.next[c] /\ v.mqueue = data[c] /\ v.tail = c
      BY <1>v
    <3>2. v.cell = IF j + 1 < Len(s) THEN s[(j + 1) + 1] ELSE NULL
      BY <2>4, <2>6, <3>1
    <3>. QED  BY <1>1, <2>4, <2>5, <2>7, <2>8, <2>9, <3>1, <3>2 DEF Group
  <2>11. pc'[t] = "b_scan" /\ cond'[t] = d /\ j + 1 \in 0..Len(s)
    BY <1>1, <2>1, <2>4
  <2>. QED  BY <2>2, <2>10, <2>11 DEF WalkOK
<1>6. pc[t] \in Emptying
  BY <1>1 DEF Emptying
<1>. QED  BY <1>1, <1>3, <1>4, <1>5, <1>6, AwakeKeeps DEF Awake, Asleep

LEMMA BroadcastGroupKeeps ==
  ASSUME IInv, NEW t \in Threads, BroadcastGroup(t), UNCHANGED uses
  PROVE  IInv'
<1>f. PartOK(t)
  BY Fields
<1>m. PICK m \in Mutexes : m = walk[t].mqueue
  BY Fields DEF BroadcastGroup
<1>1. /\ pc[t] = "b_scan" /\ m \in Queues /\ line' = Join(t, m)
      /\ pc' = [pc EXCEPT ![t] = "b_move"]
      /\ UNCHANGED <<then, mutex, held, owned, heap, uses, cond, data, walk>>
  BY <1>m, Sorts DEF BroadcastGroup, Goto, condVars
<1>2. pc'[t] = "b_move"
  BY <1>1, Fields
<1>3. Step(t)
  <2>1. PartOK(t)'
    BY <1>f, <1>1, <1>2 DEF PartOK, Hasty, Late, Sending
  <2>2. PICK c \in Conds : c = cond[t] /\ c \in Queues
    BY <1>f, <1>1, Sorts DEF PartOK, Sending
  <2>3. line[c] # <<>> /\ Head(line[c]) = t /\ line \in [Queues -> Seq(Threads)]
    BY <1>1, <2>2 DEF IInv, TypeOK, Locked, Inside, Served
  <2>4. line'[c] # <<>> /\ Head(line'[c]) = t
    BY <1>1, <2>2, <2>3, Lines
  <2>5. Served(t, cond[t])'
    BY <1>1, <2>2, <2>4 DEF Served
  <2>. QED  BY <1>1, <1>2, <2>1, <2>5, Fields DEF Step, CondLabels
<1>4. OneOwner'
  <2>1. \A n \in Mutexes : Possesses(t, n)' <=> Possesses(t, n)
    BY <1>1, <1>2 DEF Possesses
  <2>. QED  BY <1>1, <1>3, <2>1, OthersPossess, OwnersKept, Fields
<1>5. ASSUME NEW C, Lists(C) PROVE WalkOK(t, C)'
  <2>1. PICK j \in 0..Len(C[cond[t]]) : Group(t, C[cond[t]], j)
    BY <1>1, <1>5 DEF Lists, Walks, WalkOK
  <2>2. j > 0
    BY <1>m, <2>1, Sorts DEF Group
  <2>3. Group(t, C[cond[t]], j)'
    BY <1>1, <2>1, <2>2 DEF Group
  <2>. QED  BY <1>1, <1>2, <2>1, <2>3 DEF WalkOK
<1>6. pc[t] \in Emptying /\ pc'[t] \in Emptying
  BY <1>1, <1>2 DEF Emptying
<1>. QED  BY <1>1, <1>2, <1>3, <1>4, <1>5, <1>6, AwakeKeeps DEF Awake, Asleep

\* The clock is past abstime and the byte is set: the cell is still in the
\* queue of its condition.
LEMMA TimedLateKeeps ==
  ASSUME IInv, NEW t \in Threads, TimedLate(t), UNCHANGED uses
  PROVE  IInv'
<1>f. PartOK(t)
  BY Fields
<1>1. /\ pc[t] = "t_wait" /\ heap.wait[t] = 1 /\ Hasty
      /\ pc' = [pc EXCEPT ![t] = "t_late"]
      /\ UNCHANGED <<then, mutex, held, owned, line, heap, uses, cond, data, walk>>
  BY DEF TimedLate, Goto, condVars, Hasty
<1>2. pc'[t] = "t_late"
  BY <1>1, Fields
<1>3. Step(t)
  <2>1. PartOK(t)'
    BY <1>f, <1>1, <1>2 DEF PartOK, Hasty, Late, Sending
  <2>. QED  BY <1>1, <1>2, <2>1, Fields DEF Step, Inside, CondLabels
<1>4. OneOwner'
  <2>1. \A n \in Mutexes : Possesses(t, n)' <=> Possesses(t, n)
    BY <1>1, <1>2 DEF Possesses
  <2>. QED  BY <1>1, <1>3, <2>1, OthersPossess, OwnersKept, Fields
<1>5. ASSUME NEW C, Lists(C) PROVE IsIn(t, C[cond[t]])
  <2>1. \A u \in Threads : pc[u] # "s_move"
    BY <1>1, Fields DEF PartOK, Sending
  <2>2. PICK q \in Queues : IsIn(t, C[q])
    BY <1>1, <1>5, <2>1 DEF Lists, Reached, Spared, Carries
  <2>3. q \notin Mutexes
    BY <1>1, <1>5, <2>2 DEF Lists, Holders, InMutex
  <2>. QED  BY <1>5, <2>2, <2>3 DEF Lists, Holders, InCond
<1>6. Asleep(t)' /\ pc[t] \notin Sending /\ pc'[t] \notin Sending
  BY <1>1, <1>2 DEF Asleep, Sending
<1>. QED  BY <1>1, <1>2, <1>3, <1>4, <1>5, <1>6, StillKeeps

LEMMA TimedTakeKeeps ==
  ASSUME IInv, NEW t \in Threads, TimedTake(t), UNCHANGED uses
  PROVE  IInv'
<1>f. PartOK(t)
  BY Fields
<1>1. /\ pc[t] = "t_take" /\ cond[t] \in Queues /\ line' = Join(t, cond[t])
      /\ pc' = [pc EXCEPT ![t] = "t_deq"]
      /\ UNCHANGED <<then, mutex, held, owned, heap, uses, cond, data, walk>>
  BY <1>f, Sorts DEF TimedTake, Goto, condVars, PartOK, Late
<1>2. pc'[t] = "t_deq"
  BY <1>1, Fields
<1>3. Step(t)
  <2>1. PartOK(t)'
    BY <1>f, <1>1, <1>2 DEF PartOK, Hasty, Late, Sending
  <2>. QED  BY <1>1, <1>2, <2>1, Fields DEF Step, Inside, CondLabels
<1>4. OneOwner'
  <2>1. \A n \in Mutexes : Possesses(t, n)' <=> Possesses(t, n)
    BY <1>1, <1>2 DEF Possesses
  <2>. QED  BY <1>1, <1>3, <2>1, OthersPossess, OwnersKept, Fields
<1>5. heap.wait[t] # 1
  BY <1>1 DEF IInv, Bytes, Asleep
<1>6. pc[t] \notin Sending /\ pc'[t] \notin Sending
  BY <1>1, <1>2 DEF Sending
<1>7. \A C : Lists(C) => IsIn(t, C[cond[t]])
  BY <1>1 DEF Lists, Reached
<1>. QED  BY <1>1, <1>2, <1>3, <1>4, <1>5, <1>6, <1>7, StillKeeps

\* A broadcast begins: from here on the words of its condition are stale.
LEMMA BroadcastFirstKeeps ==
  ASSUME IInv, NEW t \in Threads, BroadcastFirst(t), UNCHANGED uses
  PROVE  IInv'
<1>f. PartOK(t)
  BY Fields
<1>c. PICK c \in Conds : c = cond[t]
  BY <1>f DEF BroadcastFirst, PartOK, Sending
<1>1. /\ pc[t] = "b_first" /\ Served(t, c) /\ walk[t] = NoWalk /\ c \in Queues
      /\ walk' = [walk EXCEPT ![t].cell = heap.head[c]]
      /\ pc' = [pc EXCEPT ![t] = IF heap.head[c] = NULL THEN "b_flush" ELSE "b_scan"]
      /\ UNCHANGED <<then, mutex, held, owned, line, heap, uses, cond, data>>
  BY <1>f, <1>c, Sorts DEF BroadcastFirst, Goto, PartOK
<1>2. pc'[t] = IF heap.head[c] = NULL THEN "b_flush" ELSE "b_scan"
  BY <1>1, Fields
<1>3. walk'[t] = [NoWalk EXCEPT !.cell = heap.head[c]]
  BY <1>1, Fields
<1>4. heap.head[c] \in Ptr
  BY <1>1, HeapFields DEF IInv, TypeOK
<1>5. Step(t)
  <2>1. PartOK(t)'
    <3>1. heap.head[c] = NULL => walk'[t] = NoWalk
      BY <1>3 DEF NoWalk
    <3>. QED  BY <1>f, <1>1, <1>2, <3>1 DEF PartOK, Hasty, Late, Sending
  <2>2. walk' \in [Threads -> [cell : Ptr, mqueue : Mutexes \cup {NULL}, head : Ptr, tail : Ptr]]
    <3>1. walk[t] \in [cell : Ptr, mqueue : Mutexes \cup {NULL}, head : Ptr, tail : Ptr]
      BY Fields
    <3>2. [walk[t] EXCEPT !.cell = heap.head[c]]
            \in [cell : Ptr, mqueue : Mutexes \cup {NULL}, head : Ptr, tail : Ptr]
      BY <1>4, <3>1
    <3>3. walk' = [walk EXCEPT ![t] = [walk[t] EXCEPT !.cell = heap.head[c]]]
      BY <1>1
    <3>. QED  BY <3>2, <3>3, Fields
  <2>3. pc'[t] \in Inside => Served(t, cond[t])'
    BY <1>1, <1>c DEF Served
  <2>. QED  BY <1>1, <1>2, <2>1, <2>2, <2>3, Fields DEF Step, CondLabels
<1>6. OneOwner'
  <2>1. \A n \in Mutexes : Possesses(t, n)' <=> Possesses(t, n)
    BY <1>1, <1>2 DEF Possesses
  <2>. QED  BY <1>1, <1>5, <2>1, OthersPossess, OwnersKept, Fields
<1>7. PICK C : Lists(C)
  BY DEF IInv
<1>8. heap.wait[t] = 0 /\ \A q \in Queues : ~ IsIn(t, C[q])
  BY <1>1, <1>7, AwakeNowhere DEF IInv, Lists, Awake, Asleep
<1>9. Stale' = Stale \cup {c}
  <2>1. ASSUME NEW d \in Conds, d # c, NEW u \in Threads
        PROVE  cond'[u] = d /\ pc'[u] \in Emptying <=> cond[u] = d /\ pc[u] \in Emptying
    BY <1>1, <1>c, <1>5, <2>1 DEF Step
  <2>2. cond'[t] = c /\ pc'[t] \in Emptying
    BY <1>1, <1>2, <1>c DEF Emptying
  <2>. QED  BY <2>1, <2>2 DEF Stale, Broadcasting, Emptying
<1>10. Sound(heap, C, Stale')
  BY <1>1, <1>7, <1>9, SoundForget DEF Lists
<1>11. Settled(t, C)
  BY <1>1, <1>2, <1>8, Sorts DEF Settled
<1>12. WalkOK(t, C)'
  <2>1. c \notin Stale
    BY <1>1, Alone DEF IInv, Emptying
  <2>2. Sound(heap, C, Stale) /\ c \in Queues \ Stale
    BY <1>1, <1>7, <2>1 DEF Lists
  <2>3. CASE heap.head[c] = NULL
    <3>1. C[c] = <<>>
      BY <2>2, <2>3, NoHead
    <3>. QED  BY <1>1, <1>2, <1>c, <2>3, <3>1 DEF WalkOK
  <2>4. CASE heap.head[c] # NULL
    <3>1. C[c] # <<>> /\ heap.head[c] = C[c][1] /\ 0 < Len(C[c])
      BY <2>2, <2>4, HeadCell
    <3>2. Group(t, C[c], 0)'
      BY <1>2, <1>3, <2>4, <3>1 DEF Group, NoWalk
    <3>3. 0 \in 0..Len(C[c]) /\ pc'[t] = "b_scan" /\ cond'[t] = c
      BY <1>1, <1>2, <1>c, <2>4, <3>1
    <3>. QED  BY <3>2, <3>3 DEF WalkOK
  <2>. QED  BY <2>3, <2>4
<1>13. Lists(C)'
  BY <1>1, <1>5, <1>7, <1>10, <1>11, <1>12, ListsKept DEF IInv
<1>14. Bytes'
  BY <1>1, <1>2, <1>5, <1>8, BytesKept DEF IInv
<1>15. TypeOK' /\ Parts' /\ Locked'
  BY <1>1, <1>5, StepKeeps DEF IInv, TypeOK
<1>. QED  BY <1>6, <1>13, <1>14, <1>15 DEF IInv

---------------------------------------------------------------------------
\* The steps of a wait that move its cell

\* The thread gives up its mutex: from here on it possesses it as the thread of
\* an unlock.
LEMMA WaitEnqueueKeeps ==
  ASSUME IInv, NEW t \in Threads, WaitEnqueue(t), UNCHANGED uses
  PROVE  IInv'
<1>f. PartOK(t)
  BY Fields
<1>c. PICK c \in Conds : c = cond[t]
  BY <1>f DEF WaitEnqueue, PartOK
<1>1. /\ pc[t] = "w_enq" /\ Served(t, c) /\ c \in Queues /\ heap' = Enqueue(heap, c, t)
      /\ mutex[t] \in Mutexes /\ data[t] = mutex[t] /\ held[t] = {mutex[t]} /\ then[t] # "idle"
      /\ line' = Leave(c) /\ held' = [held EXCEPT ![t] = {}] /\ pc' = [pc EXCEPT ![t] = "u_take"]
      /\ UNCHANGED <<then, mutex, owned, uses, cond, data, walk>>
  BY <1>f, <1>c, Sorts DEF WaitEnqueue, Goto, PartOK, condVars
<1>2. pc'[t] = "u_take" /\ held'[t] = {}
  BY <1>1, Fields
<1>3. Step(t)
  <2>1. PartOK(t)'
    BY <1>f, <1>1, <1>2 DEF PartOK, Hasty, Late, Sending
  <2>. QED  BY <1>1, <1>2, <2>1, Fields DEF Step, Inside, MutexLabels
<1>4. PICK C : Lists(C)
  BY DEF IInv
<1>a. Awake(t)
  BY <1>1 DEF Awake, Asleep
<1>5. heap.wait[t] = 0 /\ \A q \in Queues : ~ IsIn(t, C[q])
  BY <1>a, <1>4, AwakeNowhere DEF IInv, Lists
<1>6. heap \in Heaps /\ \A u \in Threads : heap'.wait[u] = IF u = t THEN 1 ELSE heap.wait[u]
  BY <1>1, <1>4, WaitBytes DEF Lists, Sound
<1>7. Stale' = Stale /\ c \in Queues \ Stale
  <2>1. Stale' = Stale
    BY <1>1, <1>2, <1>3, StaleKept DEF Emptying
  <2>2. c \notin Stale
    BY <1>1, Alone DEF IInv, Emptying
  <2>. QED  BY <1>1, <2>1, <2>2
<1>8. \A u, y \in Threads : Carries(u, y) => y # t /\ u # t
  BY <1>1, <1>4, <1>5 DEF Carries, Lists, Carried
<1>9. InCond(c, t)'
  BY <1>1, <1>6, <1>c DEF InCond
<1>10. \E D : Lists(D)'
  <2>1. pc'[t] \notin {"t_late", "t_take", "t_deq", "s_move"} \cup Emptying
    BY <1>2 DEF Emptying
  <2>2. TypeOK /\ Parts /\ Bytes
    BY DEF IInv
  <2>. QED  BY <1>a, <1>1, <1>3, <1>4, <1>5, <1>7, <1>8, <1>9, <2>1, <2>2, EnqueueLists
<1>11. heap' \in Heaps
  BY <1>10 DEF Lists, Sound
<1>12. Bytes'
  BY <1>1, <1>2, <1>3, <1>6, BytesKept DEF IInv, Asleep
<1>13. OneOwner'
  <2>1. \A n \in Mutexes : Possesses(t, n)' <=> Possesses(t, n)
    BY <1>1, <1>2, <1>6 DEF Possesses
  <2>2. \A u \in Threads \ {t}, n \in Mutexes : Possesses(u, n)' <=> Possesses(u, n)
    BY <1>3, <1>6, OthersPossess
  <2>. QED  BY <1>1, <2>1, <2>2, OwnersKept, Fields
<1>14. TypeOK' /\ Parts' /\ Locked'
  BY <1>3, <1>11, StepKeeps DEF IInv
<1>. QED  BY <1>10, <1>12, <1>13, <1>14 DEF IInv

\* The byte is cleared by its own thread, whose cell stays where it is.
LEMMA TimedGiveUpKeeps ==
  ASSUME IInv, NEW t \in Threads, TimedGiveUp(t), UNCHANGED uses
  PROVE  IInv'
<1>f. PartOK(t)
  BY Fields
<1>1. /\ pc[t] = "t_late" /\ Hasty /\ heap' = Wake(heap, t)
      /\ pc' = [pc EXCEPT ![t] = "t_take"]
      /\ UNCHANGED <<then, mutex, held, owned, line, uses, cond, data, walk>>
  BY <1>f DEF TimedGiveUp, Goto, condVars, PartOK, Late
<1>2. pc'[t] = "t_take"
  BY <1>1, Fields
<1>3. Step(t)
  <2>1. PartOK(t)'
    BY <1>f, <1>1, <1>2 DEF PartOK, Hasty, Late, Sending
  <2>. QED  BY <1>1, <1>2, <2>1, Fields DEF Step, Inside, CondLabels
<1>4. PICK C : Lists(C)
  BY DEF IInv
<1>5. \A u \in Threads : pc[u] \notin Sending /\ pc'[u] \notin Sending
  BY <1>1, <1>2, <1>3, Fields DEF PartOK, Sending, Step
<1>6. PICK q \in Queues : TRUE
  BY <1>f, <1>1, Sorts DEF PartOK, Late
<1>7. heap \in Heaps /\ \A u \in Threads : heap'.wait[u] = IF u = t THEN 0 ELSE heap.wait[u]
  BY <1>1, <1>4, <1>6, WaitBytes DEF Lists, Sound
<1>8. Stale' = Stale
  BY <1>3, <1>5, StaleKept DEF Emptying, Sending
<1>9. Sound(heap', C, Stale')
  BY <1>1, <1>4, <1>8, SoundWake DEF Lists
<1>10. Lists(C)'
  <2>1. Keeping(t, C, C)
    BY <1>1 DEF Keeping
  <2>2. \A m \in Mutexes, y \in Threads : IsIn(y, C[m]) => Stays(m, y, C)
    BY <1>1, <1>4, <1>7 DEF Stays, Lists, Holders, InMutex
  <2>3. ASSUME NEW c \in Conds, NEW y \in Threads, IsIn(y, C[c]) PROVE Stays(c, y, C) \/ InCond(c, y)'
    <3>1. CASE y = t
      BY <1>1, <1>2, <1>4, <2>3, <3>1 DEF Lists, Holders, InCond
    <3>2. CASE y # t
      BY <1>7, <2>3, <3>2 DEF Stays
    <3>. QED  BY <3>1, <3>2
  <2>4. Reached(C)'
    <3>1. ASSUME Spared, NEW y \in Threads, heap'.wait[y] = 1 PROVE \E r \in Queues : IsIn(y, C[r])
      BY <1>4, <1>5, <1>7, <3>1 DEF Lists, Reached, Carries, Sending
    <3>2. \A y \in Threads \ {t} : pc'[y] = pc[y]
      BY <1>3 DEF Step
    <3>3. \A y \in Threads : pc'[y] \in {"t_late", "t_take", "t_deq"} => IsIn(y, C[cond'[y]])
      BY <1>1, <1>4, <3>2 DEF Lists, Reached
    <3>. QED  BY <3>1, <3>3, <1>3, SparedKept DEF Reached
  <2>5. Free(C)'
    BY <1>1, <1>4 DEF Lists, Free
  <2>6. WalkOK(t, C)' /\ pc'[t] # "s_move" /\ \A u \in Threads : pc[u] # "s_move" /\ pc[u] \notin Emptying
    BY <1>2, <1>5 DEF WalkOK, Sending, Emptying
  <2>7. TypeOK /\ Parts
    BY DEF IInv
  <2>. QED  BY <1>3, <1>4, <1>9, <2>1, <2>2, <2>3, <2>4, <2>5, <2>6, <2>7, ListsMove
<1>11. Bytes'
  BY <1>2, <1>3, <1>7, BytesKept DEF IInv
<1>12. OneOwner'
  <2>1. \A n \in Mutexes : Possesses(t, n)' <=> Possesses(t, n)
    BY <1>1, <1>2 DEF Possesses
  <2>2. \A u \in Threads \ {t}, n \in Mutexes : Possesses(u, n)' <=> Possesses(u, n)
    BY <1>3, <1>7, OthersPossess
  <2>. QED  BY <1>1, <2>1, <2>2, OwnersKept, Fields
<1>13. TypeOK' /\ Parts' /\ Locked'
  BY <1>3, <1>9, StepKeeps DEF IInv, Sound
<1>. QED  BY <1>10, <1>11, <1>12, <1>13 DEF IInv

\* The cell of a wait that timed out leaves its condition.
LEMMA TimedDequeueKeeps ==
  ASSUME IInv, NEW t \in Threads, TimedDequeue(t), UNCHANGED uses
  PROVE  IInv'
<1>f. PartOK(t)
  BY Fields
<1>c. PICK c \in Conds : c = cond[t]
  BY <1>f DEF TimedDequeue, PartOK, Late
<1>1. /\ pc[t] = "t_deq" /\ Hasty /\ c \in Queues /\ Served(t, c) /\ heap' = Dequeue(heap, c, t)
      /\ line' = Leave(c) /\ pc' = [pc EXCEPT ![t] = "t_lock"]
      /\ UNCHANGED <<then, mutex, held, owned, uses, cond, data, walk>>
  BY <1>f, <1>c, Sorts DEF TimedDequeue, Goto, condVars, PartOK, Late
<1>2. pc'[t] = "t_lock"
  BY <1>1, Fields
<1>3. Step(t)
  <2>1. PartOK(t)'
    BY <1>f, <1>1, <1>2 DEF PartOK, Hasty, Late, Sending
  <2>. QED  BY <1>1, <1>2, <2>1, Fields DEF Step, Inside, CondLabels
<1>4. PICK C : Lists(C)
  BY DEF IInv
<1>5. \A u \in Threads : pc[u] \notin Sending /\ pc'[u] \notin Sending
  BY <1>1, <1>2, <1>3, Fields DEF PartOK, Sending, Step
<1>6. PICK F : F = Stale /\ c \in Queues \ F /\ Stale' = F
  <2>1. Stale' = Stale
    BY <1>3, <1>5, StaleKept DEF Emptying, Sending
  <2>2. c \notin Stale
    BY <1>5 DEF Stale, Broadcasting, Sending
  <2>. QED  BY <1>1, <2>1, <2>2
<1>7. Sound(heap, C, F) /\ IsIn(t, C[c])
  BY <1>1, <1>4, <1>6, <1>c DEF Lists, Reached
<1>8. heap' \in Heaps /\ \A y \in Threads : heap'.wait[y] = heap.wait[y]
  BY <1>1, <1>6, <1>7, TakeOut
<1>d. PICK D :
        /\ Sound(heap', D, F)
        /\ \A r \in Queues \ {c} : D[r] = C[r]
        /\ \A r \in Queues, y \in Threads : IsIn(y, D[r]) <=> IsIn(y, C[r]) /\ y # t
  BY <1>1, <1>6, <1>7, TakeOut
<1>9. heap.wait[t] = 0
  <2>1. heap.wait[t] # 1
    BY <1>1 DEF IInv, Bytes, Asleep
  <2>. QED  BY <2>1, HeapFields DEF IInv, TypeOK
<1>10. Lists(D)'
  <2>1. Keeping(t, C, D)
    BY <1>9, <1>d DEF Keeping
  <2>2. \A r \in Queues, y \in Threads : IsIn(y, D[r]) => Stays(r, y, C)
    BY <1>8, <1>d DEF Stays
  <2>3. Reached(D)'
    <3>1. ASSUME Spared, NEW y \in Threads, heap'.wait[y] = 1 PROVE \E r \in Queues : IsIn(y, D[r])
      <4>1. y # t /\ heap.wait[y] = 1
        BY <1>8, <1>9, <3>1
      <4>2. \E r \in Queues : IsIn(y, C[r])
        BY <1>4, <1>5, <3>1, <4>1 DEF Lists, Reached, Carries, Sending
      <4>. QED  BY <1>d, <4>1, <4>2
    <3>2. ASSUME NEW y \in Threads, pc'[y] \in {"t_late", "t_take", "t_deq"} PROVE IsIn(y, D[cond'[y]])
      <4>1. y # t /\ pc[y] = pc'[y] /\ cond'[y] = cond[y]
        BY <1>2, <1>3, <3>2 DEF Step
      <4>2. IsIn(y, C[cond[y]]) /\ cond[y] \in Queues
        BY <1>4, <3>2, <4>1, Fields, Sorts DEF Lists, Reached, PartOK, Late
      <4>. QED  BY <1>d, <4>1, <4>2
    <3>. QED  BY <3>1, <3>2, <1>3, SparedKept DEF Reached
  <2>4. Free(D)'
    <3>1. \A n \in Mutexes : D[n] = C[n]
      BY <1>d, Sorts
    <3>. QED  BY <1>1, <1>4, <3>1 DEF Lists, Free
  <2>5. WalkOK(t, D)' /\ pc'[t] # "s_move" /\ \A u \in Threads : pc[u] # "s_move" /\ pc[u] \notin Emptying
    BY <1>2, <1>5 DEF WalkOK, Sending, Emptying
  <2>6. TypeOK /\ Parts
    BY DEF IInv
  <2>7. Sound(heap', D, Stale')
    BY <1>6, <1>d
  <2>8. /\ \A n \in Mutexes, y \in Threads : IsIn(y, D[n]) => Stays(n, y, C) \/ InMutex(n, y)'
        /\ \A d \in Conds, y \in Threads : IsIn(y, D[d]) => Stays(d, y, C) \/ InCond(d, y)'
    BY <2>2, Sorts
  <2>. QED  BY <1>3, <1>4, <2>1, <2>3, <2>4, <2>5, <2>6, <2>7, <2>8, ListsMove
<1>11. Bytes'
  BY <1>2, <1>3, <1>8, <1>9, BytesKept DEF IInv
<1>12. OneOwner'
  <2>1. \A n \in Mutexes : Possesses(t, n)' <=> Possesses(t, n)
    BY <1>1, <1>2 DEF Possesses
  <2>2. \A u \in Threads \ {t}, n \in Mutexes : Possesses(u, n)' <=> Possesses(u, n)
    BY <1>3, <1>8, OthersPossess
  <2>. QED  BY <1>1, <2>1, <2>2, OwnersKept, Fields
<1>13. TypeOK' /\ Parts' /\ Locked'
  BY <1>3, <1>8, StepKeeps DEF IInv
<1>. QED  BY <1>10, <1>11, <1>12, <1>13 DEF IInv

---------------------------------------------------------------------------
\* The steps of a signal that move a cell

\* The cell at the head leaves the condition, and the signaller carries it.
LEMMA SignalPickKeeps ==
  ASSUME IInv, NEW t \in Threads, SignalPick(t), heap.head[cond[t]] # NULL, UNCHANGED uses
  PROVE  IInv'
<1>f. PartOK(t)
  BY Fields
<1>c. PICK c \in Conds : c = cond[t]
  BY <1>f DEF SignalPick, PartOK, Sending
<1>2. PICK C : Lists(C)
  BY DEF IInv
<1>0. pc[t] = "s_pick" /\ Served(t, c) /\ c \in Queues /\ ~ Hasty /\ heap.head[c] # NULL /\ walk[t] = NoWalk
  BY <1>f, <1>c, Sorts DEF SignalPick, PartOK, Sending
<1>3. PICK F : F = Stale /\ c \in Queues \ F
  BY <1>0, Alone DEF IInv, Emptying
<1>4. Sound(heap, C, F)
  BY <1>2, <1>3 DEF Lists
<1>5. PICK x \in Threads : x = heap.head[c] /\ IsIn(x, C[c])
  BY <1>0, <1>3, <1>4, HeadCell DEF IsIn
<1>6. /\ cond[x] = c /\ data[x] = mutex[x] /\ mutex[x] \in Mutexes /\ mutex[x] \in Queues
      /\ heap.wait[x] = 1
  BY <1>0, <1>2, <1>5, Queued, Sorts
<1>v. PICK v : v = [NoWalk EXCEPT !.cell = x, !.mqueue = data[x]]
  OBVIOUS
<1>1. /\ heap' = Dequeue(heap, c, x) /\ line' = Join(t, mutex[x])
      /\ walk' = [walk EXCEPT ![t] = v] /\ pc' = [pc EXCEPT ![t] = "s_move"]
      /\ UNCHANGED <<then, mutex, cond, held, owned, data, uses>>
  <2>1. walk' = [walk EXCEPT ![t].cell = x, ![t].mqueue = data[x]]
    BY <1>0, <1>c, <1>5 DEF SignalPick
  <2>2. walk' = [walk EXCEPT ![t] = v]
    BY <1>0, <1>v, <2>1, Fields
  <2>. QED  BY <1>0, <1>c, <1>5, <1>6, <2>2 DEF SignalPick, Goto
<1>7. pc'[t] = "s_move" /\ walk'[t] = v /\ v.cell = x /\ v.mqueue = mutex[x]
  BY <1>1, <1>v, <1>6, Fields DEF NoWalk
<1>8. Step(t)
  <2>1. PartOK(t)'
    BY <1>f, <1>0, <1>1, <1>7 DEF PartOK, Hasty, Late, Sending
  <2>2. v \in [cell : Ptr, mqueue : Mutexes \cup {NULL}, head : Ptr, tail : Ptr]
    BY <1>v, <1>6 DEF NoWalk, Ptr
  <2>3. line[c] # <<>> /\ Head(line[c]) = t /\ line \in [Queues -> Seq(Threads)]
    BY <1>0 DEF IInv, TypeOK, Served
  <2>4. line'[c] # <<>> /\ Head(line'[c]) = t
    <3>1. PICK q \in Queues : q = mutex[x]
      BY <1>6
    <3>2. line' = Join(t, q)
      BY <1>1, <3>1
    <3>3. \A r \in Queues, u \in Threads :
            line[r] # <<>> /\ Head(line[r]) = u => Join(t, q)[r] # <<>> /\ Head(Join(t, q)[r]) = u
      BY <2>3, Lines
    <3>. QED  BY <1>0, <2>3, <3>2, <3>3
  <2>5. Served(t, cond[t])'
    BY <1>c, <1>1, <2>4 DEF Served
  <2>. QED  BY <1>0, <1>1, <1>6, <2>1, <2>2, <2>5, Fields DEF Step, CondLabels
<1>9. Stale' = F
  BY <1>0, <1>3, <1>7, <1>8, StaleKept DEF Emptying
<1>10. heap' \in Heaps /\ \A y \in Threads : heap'.wait[y] = heap.wait[y]
  BY <1>1, <1>3, <1>4, <1>5, TakeOut
<1>d. PICK D :
        /\ Sound(heap', D, F)
        /\ \A r \in Queues \ {c} : D[r] = C[r]
        /\ \A r \in Queues, y \in Threads : IsIn(y, D[r]) <=> IsIn(y, C[r]) /\ y # x
  BY <1>1, <1>3, <1>4, <1>5, TakeOut
<1>11. heap.wait[t] = 0 /\ \A q \in Queues : ~ IsIn(t, C[q])
  BY <1>0, <1>2, AwakeNowhere DEF IInv, Lists, Awake, Asleep
<1>12. Lists(D)'
  <2>1. Keeping(t, C, D)
    BY <1>11 DEF Keeping
  <2>2. \A r \in Queues, y \in Threads : IsIn(y, D[r]) => Stays(r, y, C)
    BY <1>10, <1>d DEF Stays
  <2>3. Reached(D)'
    <3>1. ASSUME Spared, NEW y \in Threads, heap'.wait[y] = 1
          PROVE  (\E r \in Queues : IsIn(y, D[r])) \/ (\E u \in Threads : Carries(u, y)')
      <4>1. CASE y = x
        BY <1>7, <4>1 DEF Carries
      <4>2. CASE y # x
        <5>1. (\E r \in Queues : IsIn(y, C[r])) \/ (\E u \in Threads : Carries(u, y))
          BY <1>2, <1>10, <3>1 DEF Lists, Reached
        <5>2. ASSUME NEW u \in Threads, Carries(u, y) PROVE Carries(u, y)'
          BY <1>0, <1>8, <5>2 DEF Carries, Step
        <5>. QED  BY <1>d, <4>2, <5>1, <5>2
      <4>. QED  BY <4>1, <4>2
    <3>2. ASSUME NEW y \in Threads, pc'[y] \in {"t_late", "t_take", "t_deq"} PROVE IsIn(y, D[cond'[y]])
      <4>1. y # t /\ pc[y] = pc'[y] /\ cond'[y] = cond[y]
        BY <1>7, <1>8, <3>2 DEF Step
      <4>. QED  BY <1>0, <3>2, <4>1, Fields DEF PartOK, Late
    <3>. QED  BY <3>1, <3>2, <1>8, SparedKept DEF Reached
  <2>4. ASSUME NEW u \in Threads \ {t}, pc[u] = "s_move"
        PROVE  /\ heap'.wait[walk[u].cell] = 1
               /\ \A r \in Queues : ~ IsIn(walk[u].cell, D[r])
               /\ walk'[t].cell # walk[u].cell
    <3>1. PICK y \in Threads : y = walk[u].cell /\ heap.wait[y] = 1 /\ \A r \in Queues : ~ IsIn(y, C[r])
      BY <1>2, <2>4 DEF Lists, Carried
    <3>2. y # x
      BY <1>0, <1>5, <3>1
    <3>. QED  BY <1>7, <1>10, <1>d, <3>1, <3>2
  <2>5. /\ walk'[t].cell \in Threads /\ heap'.wait[walk'[t].cell] = 1
        /\ walk'[t].mqueue = mutex'[walk'[t].cell] /\ mutex'[walk'[t].cell] \in Mutexes
        /\ \A q \in Queues : ~ IsIn(walk'[t].cell, D[q])
    BY <1>1, <1>6, <1>7, <1>10, <1>d
  <2>6. Free(D)'
    <3>1. \A n \in Mutexes : D[n] = C[n]
      BY <1>d, Sorts
    <3>. QED  BY <1>1, <1>2, <3>1 DEF Lists, Free
  <2>7. ASSUME NEW u \in Threads \ {t}, pc[u] \in Emptying PROVE D[cond[u]] = C[cond[u]]
    <3>1. cond[u] \in Conds /\ cond[u] \in Queues /\ cond[u] \in Stale
      BY <2>7, Fields, Sorts DEF PartOK, Emptying, Sending, Stale, Broadcasting
    <3>. QED  BY <1>3, <1>d, <3>1
  <2>8. WalkOK(t, D)'
    BY <1>7 DEF WalkOK
  <2>9. TypeOK /\ Parts
    BY DEF IInv
  <2>10. Sound(heap', D, Stale')
    BY <1>9, <1>d
  <2>11. /\ \A n \in Mutexes, y \in Threads : IsIn(y, D[n]) => Stays(n, y, C) \/ InMutex(n, y)'
         /\ \A d \in Conds, y \in Threads : IsIn(y, D[d]) => Stays(d, y, C) \/ InCond(d, y)'
    BY <2>2, Sorts
  <2>. QED  BY <1>2, <1>8, <2>1, <2>3, <2>4, <2>5, <2>6, <2>7, <2>8, <2>9, <2>10, <2>11, ListsMove
<1>13. Bytes'
  BY <1>7, <1>8, <1>10, <1>11, BytesKept DEF IInv
<1>14. OneOwner'
  <2>1. \A n \in Mutexes : Possesses(t, n)' <=> Possesses(t, n)
    BY <1>0, <1>1, <1>7 DEF Possesses
  <2>2. \A u \in Threads \ {t}, n \in Mutexes : Possesses(u, n)' <=> Possesses(u, n)
    BY <1>8, <1>10, OthersPossess
  <2>. QED  BY <1>1, <2>1, <2>2, OwnersKept, Fields
<1>15. TypeOK' /\ Parts' /\ Locked'
  BY <1>8, <1>10, StepKeeps DEF IInv
<1>. QED  BY <1>12, <1>13, <1>14, <1>15 DEF IInv

\* A free mutex goes to the waiter x, which is woken.
LEMMA WakeOwner ==
  ASSUME IInv, NEW t \in Threads, Step(t), NEW m \in Mutexes, owned[m] = 0,
         owned' = [owned EXCEPT ![m] = 1],
         NEW x \in Threads \ {t}, pc[x] \in {"wait", "t_wait"}, mutex[x] = m, heap.wait[x] = 1,
         \A y \in Threads : heap'.wait[y] = IF y = x THEN 0 ELSE heap.wait[y],
         \A n \in Mutexes : Possesses(t, n)' <=> Possesses(t, n)
  PROVE  OneOwner'
<1>1. held[x] = {}
  BY Fields DEF PartOK
<1>2. \A n \in Mutexes : ~ Possesses(x, n)
  BY <1>1 DEF Possesses
<1>3. \A n \in Mutexes : Possesses(x, n)' <=> n = m
  <2>1. pc'[x] = pc[x] /\ mutex'[x] = m /\ held'[x] = {} /\ heap'.wait[x] = 0
    BY <1>1 DEF Step
  <2>. QED  BY <2>1 DEF Possesses
<1>4. \A u \in Threads \ {t, x}, n \in Mutexes : Possesses(u, n)' <=> Possesses(u, n)
  BY DEF Step, Possesses
<1>5. \A u \in Threads \ {x}, n \in Mutexes : Possesses(u, n)' <=> Possesses(u, n)
  BY <1>4
<1>6. \A n \in Mutexes : Possesses(x, n)' <=> Possesses(x, n) \/ n = m
  BY <1>2, <1>3
<1>7. OneOwner /\ owned \in [Mutexes -> {0, 1}]
  BY Fields
<1>. QED  BY ZenonT(60), <1>5, <1>6, <1>7, TakeOwner

\* The cell goes to the end of the mutex's queue, or gets the free mutex.
LEMMA SignalMoveKeeps ==
  ASSUME IInv, NEW t \in Threads, SignalMove(t), UNCHANGED uses
  PROVE  IInv'
<1>f. PartOK(t)
  BY Fields
<1>2. PICK C : Lists(C)
  BY DEF IInv
<1>c. PICK c \in Conds : c = cond[t]
  BY <1>f DEF SignalMove, PartOK, Sending
<1>x. PICK x \in Threads :
        /\ x = walk[t].cell /\ heap.wait[x] = 1 /\ mutex[x] = walk[t].mqueue /\ mutex[x] \in Mutexes
        /\ \A q \in Queues : ~ IsIn(x, C[q])
        /\ \A u \in Threads : Carries(u, x) => u = t
  BY <1>2 DEF SignalMove, Lists, Carried
<1>m. PICK m \in Mutexes : m = mutex[x]
  BY <1>x
<1>1. /\ pc[t] = "s_move" /\ Served(t, m) /\ m \in Queues /\ ~ Hasty /\ Served(t, c) /\ c \in Queues
      /\ line' = Leave(m) /\ walk' = [walk EXCEPT ![t] = NoWalk] /\ pc' = [pc EXCEPT ![t] = "s_leave"]
      /\ UNCHANGED <<then, mutex, held, cond, data, uses>>
  BY <1>f, <1>c, <1>x, <1>m, Sorts DEF SignalMove, Goto, PartOK, Sending, IInv, Locked, Inside
<1>3. pc'[t] = "s_leave" /\ walk'[t] = NoWalk
  BY <1>1, Fields
<1>4. Step(t)
  <2>1. PartOK(t)'
    BY <1>f, <1>1, <1>3 DEF PartOK, Hasty, Late, Sending
  <2>2. line'[c] = line[c]
    BY <1>1, <1>m, <1>c, Lines, Sorts DEF Served, IInv, TypeOK
  <2>3. Served(t, cond[t])'
    BY <1>c, <1>1, <2>2 DEF Served
  <2>4. owned' \in [Mutexes -> {0, 1}]
    BY <1>x, <1>m, Fields DEF SignalMove
  <2>5. walk' \in [Threads -> [cell : Ptr, mqueue : Mutexes \cup {NULL}, head : Ptr, tail : Ptr]]
    BY <1>1, Fields DEF NoWalk, Ptr
  <2>. QED  BY <1>1, <1>3, <2>1, <2>3, <2>4, <2>5, Fields DEF Step, CondLabels
<1>5. Stale' = Stale
  BY <1>1, <1>3, <1>4, StaleKept DEF Emptying
<1>a. Awake(t)
  BY <1>1 DEF Awake, Asleep
<1>6. heap.wait[t] = 0 /\ \A q \in Queues : ~ IsIn(t, C[q])
  BY <1>a, <1>2, AwakeNowhere DEF IInv, Lists
<1>7. CASE owned[m] = 1
  <2>1. heap' = Enqueue(heap, m, x) /\ owned' = owned
    BY <1>x, <1>m, <1>7 DEF SignalMove
  <2>2. heap \in Heaps /\ \A u \in Threads : heap'.wait[u] = IF u = x THEN 1 ELSE heap.wait[u]
    BY <1>1, <1>2, <2>1, WaitBytes DEF Lists, Sound
  <2>3. \A u \in Threads : heap'.wait[u] = heap.wait[u]
    BY <1>x, <2>2
  <2>4. ~ Hasty'
    BY <1>1 DEF Hasty
  <2>5. InMutex(m, x)'
    BY <1>1, <1>m, <2>2, <2>4 DEF InMutex
  <2>6. \E D : Lists(D)'
    <3>1. m \in Queues \ Stale /\ m \notin Conds
      BY <1>1 DEF Stale
    <3>2. pc'[t] \notin {"t_late", "t_take", "t_deq", "s_move"} \cup Emptying
      BY <1>3 DEF Emptying
    <3>3. TypeOK /\ Parts /\ Bytes
      BY DEF IInv
    <3>4. (\A u \in Threads \ {t} : ~ Carries(u, x)) /\ \A y \in Threads : Carries(t, y) => y = x
      BY <1>x DEF Carries
    <3>. QED  BY <1>a, <1>2, <1>4, <1>5, <1>7, <1>x, <2>1, <2>5, <3>1, <3>2, <3>3, <3>4, EnqueueLists
  <2>7. heap' \in Heaps
    BY <2>6 DEF Lists, Sound
  <2>8. Bytes'
    BY <1>3, <1>4, <1>6, <2>3, BytesKept DEF IInv
  <2>9. OneOwner'
    <3>1. \A n \in Mutexes : Possesses(t, n)' <=> Possesses(t, n)
      BY <1>1, <1>3 DEF Possesses
    <3>2. \A u \in Threads \ {t}, n \in Mutexes : Possesses(u, n)' <=> Possesses(u, n)
      BY <1>4, <2>3, OthersPossess
    <3>. QED  BY <2>1, <3>1, <3>2, OwnersKept, Fields
  <2>10. TypeOK' /\ Parts' /\ Locked'
    BY <1>4, <2>7, StepKeeps DEF IInv
  <2>. QED  BY <2>6, <2>8, <2>9, <2>10 DEF IInv
<1>8. CASE owned[m] = 0
  <2>1. heap' = Wake(heap, x) /\ owned' = [owned EXCEPT ![m] = 1]
    BY <1>x, <1>m, <1>8 DEF SignalMove
  <2>2. heap \in Heaps /\ \A u \in Threads : heap'.wait[u] = IF u = x THEN 0 ELSE heap.wait[u]
    BY <1>1, <1>2, <2>1, WaitBytes DEF Lists, Sound
  <2>3. Sound(heap', C, Stale')
    BY <1>2, <1>5, <2>1, SoundWake DEF Lists
  <2>4. x # t /\ pc[x] \in {"wait", "t_wait"}
    <3>1. Asleep(x)
      BY <1>x DEF IInv, Bytes
    <3>2. pc[x] # "t_late"
      BY <1>1, Fields DEF PartOK, Late
    <3>3. pc[x] \notin {"u_take", "u_try"}
      BY <1>m, <1>8, Owned, Fields DEF Possesses
    <3>. QED  BY <1>1, <3>1, <3>2, <3>3 DEF Asleep
  <2>5. OneOwner'
    <3>1. \A n \in Mutexes : Possesses(t, n)' <=> Possesses(t, n)
      BY <1>1, <1>3 DEF Possesses
    <3>2. x \in Threads \ {t} /\ mutex[x] = m /\ heap.wait[x] = 1
      BY <1>m, <1>x, <2>4
    <3>3. \A y \in Threads : heap'.wait[y] = IF y = x THEN 0 ELSE heap.wait[y]
      BY <2>2
    <3>. QED  BY <1>4, <1>8, <2>1, <2>4, <3>1, <3>2, <3>3, WakeOwner
  <2>6. Bytes'
    <3>1. heap'.wait[t] = 0
      BY <1>6, <2>2
    <3>2. \A u \in Threads \ {t} :
            \/ heap'.wait[u] = heap.wait[u]
            \/ heap'.wait[u] = 0 /\ pc[u] \notin {"u_take", "u_try", "t_late"}
      BY <2>2, <2>4
    <3>. QED  BY <1>3, <1>4, <3>1, <3>2, BytesKept DEF IInv
  <2>7. Lists(C)'
    <3>1. Keeping(t, C, C)
      BY <1>6 DEF Keeping
    <3>2. \A r \in Queues, y \in Threads : IsIn(y, C[r]) => Stays(r, y, C)
      BY <1>x, <2>2 DEF Stays
    <3>3. Reached(C)'
      <4>1. ASSUME Spared, NEW y \in Threads, heap'.wait[y] = 1
            PROVE  (\E r \in Queues : IsIn(y, C[r])) \/ (\E u \in Threads : Carries(u, y)')
        <5>1. y # x /\ heap.wait[y] = 1
          BY <2>2, <4>1
        <5>2. (\E r \in Queues : IsIn(y, C[r])) \/ (\E u \in Threads : Carries(u, y))
          BY <1>2, <4>1, <5>1 DEF Lists, Reached
        <5>3. ASSUME NEW u \in Threads, Carries(u, y) PROVE Carries(u, y)'
          BY <1>x, <1>4, <5>1, <5>3 DEF Carries, Step
        <5>. QED  BY <5>2, <5>3
      <4>2. \A y \in Threads : pc'[y] \notin {"t_late", "t_take", "t_deq"}
        BY <1>1, <1>3, <1>4, Fields DEF Step, PartOK, Late
      <4>. QED  BY <4>1, <4>2, <1>4, SparedKept DEF Reached
    <3>4. ASSUME NEW u \in Threads \ {t}, pc[u] = "s_move"
          PROVE  /\ heap'.wait[walk[u].cell] = 1
                 /\ \A r \in Queues : ~ IsIn(walk[u].cell, C[r])
      <4>1. PICK y \in Threads : y = walk[u].cell /\ heap.wait[y] = 1 /\ \A r \in Queues : ~ IsIn(y, C[r])
        BY <1>2, <3>4 DEF Lists, Carried
      <4>2. y # x
        BY <1>x, <3>4, <4>1 DEF Carries
      <4>. QED  BY <2>2, <4>1, <4>2
    <3>5. Free(C)'
      <4>1. \A n \in Mutexes : owned'[n] = 0 => owned[n] = 0
        BY <2>1, Fields
      <4>. QED  BY <1>2, <4>1 DEF Lists, Free
    <3>6. WalkOK(t, C)' /\ pc'[t] # "s_move"
      BY <1>3 DEF WalkOK
    <3>7. TypeOK /\ Parts
      BY DEF IInv
    <3>8. /\ \A n \in Mutexes, y \in Threads : IsIn(y, C[n]) => Stays(n, y, C) \/ InMutex(n, y)'
          /\ \A d \in Conds, y \in Threads : IsIn(y, C[d]) => Stays(d, y, C) \/ InCond(d, y)'
      BY <3>2, Sorts
    <3>. QED  BY <1>2, <1>4, <2>3, <3>1, <3>3, <3>4, <3>5, <3>6, <3>7, <3>8, ListsMove
  <2>8. TypeOK' /\ Parts' /\ Locked'
    BY <1>4, <2>3, StepKeeps DEF IInv, Sound
  <2>. QED  BY <2>5, <2>6, <2>7, <2>8 DEF IInv
<1>. QED  BY <1>7, <1>8, Fields

---------------------------------------------------------------------------
\* The steps of a broadcast that move cells

\* Broadcaster t holds the first j cells of condition c for mutex m.
Moving(t, C, c, m, j) ==
  /\ pc[t] = "b_move" /\ c = cond[t] /\ c \in Conds
  /\ m = walk[t].mqueue /\ m \in Mutexes
  /\ j \in 1..Len(C[c]) /\ Group(t, C[c], j)

\* Cells k to j of them have gone to the queue of m, and the first cell, when k
\* is 2, has been woken; or none of them has, and all are in no queue.
Moved(t, C, c, m, j, k, D) ==
  /\ k \in {1, 2} \/ (k = j + 2 /\ Residue # {0})
  /\ cond' = cond
  /\ owned'[m] = 1 /\ \A n \in Mutexes \ {m} : owned'[n] = owned[n]
  /\ walk'[t] = [NoWalk EXCEPT !.cell = walk[t].cell]
  /\ pc'[t] = IF walk[t].cell = NULL THEN "b_flush" ELSE "b_scan"
  /\ Sound(heap', D, Stale) /\ IsCut(D, C, c, m, k, j)
  /\ \A y \in Threads : heap'.wait[y] = IF k = 2 /\ y = C[c][1] THEN 0 ELSE heap.wait[y]

LEMMA GroupMoved ==
  ASSUME IInv, NEW t \in Threads, Step(t), NEW C, Lists(C), NEW c, NEW m, NEW j,
         Moving(t, C, c, m, j), NEW k, NEW D, Moved(t, C, c, m, j, k, D)
  PROVE  Lists(D)'
<1>s. PICK s : s = C[c]
  OBVIOUS
<1>a. /\ pc[t] = "b_move" /\ c = cond[t] /\ c \in Conds
      /\ m = walk[t].mqueue /\ m \in Mutexes /\ j \in 1..Len(s) /\ Group(t, s, j)
  BY <1>s DEF Moving
<1>b. /\ k \in {1, 2} \/ (k = j + 2 /\ Residue # {0})
      /\ cond' = cond
      /\ owned'[m] = 1 /\ \A n \in Mutexes \ {m} : owned'[n] = owned[n]
      /\ walk'[t] = [NoWalk EXCEPT !.cell = walk[t].cell]
      /\ pc'[t] = IF walk[t].cell = NULL THEN "b_flush" ELSE "b_scan"
      /\ Sound(heap', D, Stale) /\ \A r \in Queues \ {c, m} : D[r] = C[r]
      /\ Rests(D[c], s, j)
      /\ \A y \in Threads : IsIn(y, D[m]) <=> IsIn(y, C[m]) \/ \E i \in k..j : s[i] = y
      /\ \A y \in Threads : heap'.wait[y] = IF k = 2 /\ y = s[1] THEN 0 ELSE heap.wait[y]
  BY <1>s DEF Moved, IsCut
<1>. USE <1>s, <1>a, <1>b
<1>1. /\ Sound(heap, C, Stale) /\ s \in Seq(Threads) /\ Distinct(s) /\ c \in Queues /\ m \in Queues
      /\ c # m /\ c \in Stale /\ ~ Hasty
  BY Fields, Sorts, Scanned DEF Lists, Sound, Emptying, PartOK, Sending
<1>2. \A i \in 1..Len(s) : s[i] \in Threads /\ IsIn(s[i], C[c])
  BY Scanned DEF Emptying
<1>3. 1 \in 1..Len(s) /\ Len(s) \in Nat /\ j \in Nat
  BY <1>1
<1>4. heap.wait[t] = 0 /\ \A q \in Queues : ~ IsIn(t, C[q])
  BY AwakeNowhere DEF IInv, Lists, Awake, Asleep
<1>5. /\ D[c] \in Seq(Threads) /\ Len(D[c]) = Len(s) - j
      /\ \A i \in 1..(Len(s) - j) : D[c][i] = s[i + j]
      /\ \A y \in Threads : IsIn(y, D[c]) <=> \E i \in (j + 1)..Len(s) : s[i] = y
  BY DEF Rests
<1>6. \A y \in Threads : IsIn(y, D[c]) => IsIn(y, C[c]) /\ y # s[1]
  <2>1. ASSUME NEW i \in (j + 1)..Len(s) PROVE IsIn(s[i], C[c]) /\ s[i] # s[1]
    <3>1. i \in 1..Len(s) /\ i # 1
      BY <1>3
    <3>. QED  BY <1>1, <1>2, <1>3, <3>1 DEF Distinct
  <2>2. \A y \in Threads : IsIn(y, D[c]) => \E i \in (j + 1)..Len(s) : s[i] = y
    BY <1>5
  <2>. QED  BY <2>1, <2>2
<1>7. \A i \in k..j : i \in 1..Len(s) /\ (k = 2 => s[i] # s[1]) /\ data[s[i]] = m
  <2>1. \A i \in k..j : i \in 1..Len(s) /\ i \in 1..j /\ (k = 2 => i # 1)
    BY <1>3
  <2>. QED  BY <1>1, <1>3, <2>1 DEF Distinct, Group
<1>8. \A q \in Queues \ {c}, y \in Threads : IsIn(y, C[q]) => y # s[1]
  BY <1>1, <1>2, <1>3, OneList
<1>9. \A q \in Queues, y \in Threads : IsIn(y, D[q]) => IsIn(y, C[q]) \/ IsIn(y, C[c])
  <2>1. \A y \in Threads : IsIn(y, D[m]) => IsIn(y, C[m]) \/ IsIn(y, C[c])
    BY <1>2, <1>7
  <2>. QED  BY <1>6, <2>1
<1>10. Stale' = Stale
  BY StaleKept DEF Emptying
<1>11. Keeping(t, C, D)
  BY <1>4 DEF Keeping
<1>12. ASSUME NEW n \in Mutexes, NEW y \in Threads, IsIn(y, D[n]) PROVE Stays(n, y, C) \/ InMutex(n, y)'
  <2>1. CASE IsIn(y, C[n])
    BY <1>1, <1>8, <2>1, Sorts DEF Stays
  <2>2. CASE ~ IsIn(y, C[n])
    <3>1. n = m
      BY <1>12, <2>2, Sorts
    <3>2. PICK i \in k..j : s[i] = y
      BY <1>12, <2>2, <3>1
    <3>3. IsIn(y, C[c]) /\ (k = 2 => y # s[1]) /\ data[y] = m
      BY <1>2, <1>7, <3>2
    <3>4. mutex[y] = m /\ heap.wait[y] = 1
      BY <1>1, <3>3, Queued
    <3>5. mutex'[y] = m /\ heap'.wait[y] = 1 /\ ~ Hasty'
      BY <1>1, <1>4, <3>3, <3>4 DEF Step, Hasty
    <3>. QED  BY <3>1, <3>5 DEF InMutex
  <2>. QED  BY <2>1, <2>2
<1>13. ASSUME NEW d \in Conds, NEW y \in Threads, IsIn(y, D[d]) PROVE Stays(d, y, C)
  <2>1. CASE d = c
    BY <1>6, <1>13, <2>1 DEF Stays
  <2>2. CASE d # c
    <3>1. D[d] = C[d]
      BY <2>2, Sorts
    <3>2. y # s[1]
      BY <1>8, <1>13, <2>2, <3>1, Sorts
    <3>. QED  BY <1>13, <3>1, <3>2 DEF Stays
  <2>. QED  BY <2>1, <2>2
<1>14. Reached(D)'
  <2>1. ASSUME Spared, NEW y \in Threads, heap'.wait[y] = 1
        PROVE  (\E r \in Queues : IsIn(y, D[r])) \/ (\E u \in Threads : Carries(u, y)')
    <3>1. heap.wait[y] = 1 /\ (k = 2 => y # s[1]) /\ k \in {1, 2}
      BY <1>1, <2>1 DEF Spared
    <3>2. (\E q \in Queues : IsIn(y, C[q])) \/ (\E u \in Threads : Carries(u, y))
      BY <2>1, <3>1 DEF Lists, Reached
    <3>3. ASSUME NEW u \in Threads, Carries(u, y) PROVE Carries(u, y)'
      BY <3>3 DEF Carries, Step
    <3>4. ASSUME IsIn(y, C[c]) PROVE IsIn(y, D[c]) \/ IsIn(y, D[m])
      <4>1. PICK i \in 1..Len(s) : s[i] = y
        BY <3>4 DEF IsIn
      <4>2. i \in k..j \/ i \in (j + 1)..Len(s)
        <5>1. (k = 2 => i # 1) /\ k \in {1, 2}
          BY <3>1, <4>1
        <5>. QED  BY <1>3, <5>1
      <4>. QED  BY <1>5, <4>1, <4>2
    <3>. QED  BY <1>1, <3>2, <3>3, <3>4
  <2>2. \A y \in Threads : pc'[y] \notin {"t_late", "t_take", "t_deq"}
    BY <1>1, Fields DEF Step, PartOK, Late
  <2>. QED  BY <2>1, <2>2, SparedKept DEF Reached
<1>15. ASSUME NEW u \in Threads \ {t}, pc[u] = "s_move"
       PROVE  /\ heap'.wait[walk[u].cell] = 1
              /\ \A r \in Queues : ~ IsIn(walk[u].cell, D[r])
  <2>1. PICK y \in Threads : y = walk[u].cell /\ heap.wait[y] = 1 /\ \A r \in Queues : ~ IsIn(y, C[r])
    BY <1>15 DEF Lists, Carried
  <2>2. y # s[1]
    BY <1>1, <1>2, <1>3, <2>1
  <2>3. heap'.wait[y] = 1 /\ \A r \in Queues : ~ IsIn(y, D[r])
    BY <1>1, <1>9, <2>1, <2>2
  <2>. QED  BY <2>1, <2>3
<1>16. Free(D)'
  <2>1. \A n \in Mutexes : owned'[n] = 0 => n # m /\ owned[n] = 0 /\ C[n] = <<>>
    BY DEF Lists, Free
  <2>2. \A n \in Mutexes \ {m} : D[n] = C[n]
    BY Sorts
  <2>. QED  BY <2>1, <2>2 DEF Free
<1>17. ASSUME NEW u \in Threads \ {t}, pc[u] \in Emptying PROVE D[cond[u]] = C[cond[u]]
  <2>1. PICK d \in Conds : d = cond[u]
    BY <1>17, Fields DEF PartOK, Emptying, Sending
  <2>2. d # c
    BY <1>17, <2>1 DEF IInv, Locked, Inside, Emptying, Served
  <2>. QED  BY <2>1, <2>2, Sorts
<1>18. WalkOK(t, D)'
  <2>1. CASE walk[t].cell = NULL
    <3>a. j < Len(s) => j + 1 \in 1..Len(s)
      BY <1>3
    <3>b. j < Len(s) => s[j + 1] # NULL
      BY <1>2, <3>a, Sorts
    <3>c. ~ (j < Len(s))
      BY <2>1, <3>b DEF Group
    <3>1. Len(s) - j = 0
      BY <1>3, <3>c
    <3>d. D[c] \in Seq(Threads) /\ Len(D[c]) = 0
      BY <1>5, <3>1
    <3>2. D[c] = <<>>
      BY <3>d
    <3>. QED  BY <2>1, <3>2 DEF WalkOK
  <2>2. CASE walk[t].cell # NULL
    <3>1. j < Len(s) /\ walk[t].cell = s[j + 1]
      BY <2>2 DEF Group
    <3>a. Len(s) - j > 0 /\ 1 \in 1..(Len(s) - j) /\ 1 + j = j + 1
      BY <1>3, <3>1
    <3>b. D[c][1] = s[1 + j] /\ 0 < Len(D[c])
      <4>1. \A i \in 1..(Len(s) - j) : D[c][i] = s[i + j]
        BY <1>5
      <4>2. D[c][1] = s[1 + j]
        BY ONLY <4>1, <3>a
      <4>3. Len(D[c]) = Len(s) - j
        BY <1>5
      <4>. QED  BY ONLY <4>2, <4>3, <3>a
    <3>2. D[c] # <<>> /\ D[c][1] = s[j + 1] /\ 0 < Len(D[c])
      BY <3>a, <3>b
    <3>3. pc'[t] = "b_scan" /\ cond'[t] = c /\ 0 \in 0..Len(D[c])
      BY <2>2, <3>2
    <3>4. Group(t, D[c], 0)'
      BY <3>1, <3>2, <3>3 DEF Group, NoWalk
    <3>. QED  BY <3>3, <3>4 DEF WalkOK
  <2>. QED  BY <2>1, <2>2
<1>19. TypeOK /\ Parts /\ pc'[t] # "s_move" /\ Sound(heap', D, Stale')
  BY <1>10 DEF IInv
<1>. QED  BY <1>11, <1>12, <1>13, <1>14, <1>15, <1>16, <1>17, <1>18, <1>19, ListsMove

\* What it does is that: when m is free the first cell is woken, and when it is
\* owned all cells move or, with an `exit` that reads as 1, none.
LEMMA GroupMoves ==
  ASSUME IInv, NEW t \in Threads, BroadcastMove(t), NEW C, Lists(C)
  PROVE  \E c, m, j, k, D :
           Moving(t, C, c, m, j) /\ Moved(t, C, c, m, j, k, D) /\ (k = 2 <=> owned[m] = 0)
<1>f. PartOK(t)
  BY Fields
<1>p. pc[t] = "b_move" /\ pc[t] \in Emptying
  BY DEF BroadcastMove, Emptying
<1>c. PICK c \in Conds : c = cond[t] /\ c \in Queues /\ c \in Stale /\ ~ Hasty /\ Served(t, c)
  BY <1>f, <1>p, Sorts DEF PartOK, Sending, Stale, Broadcasting, IInv, Locked, Inside
<1>s. PICK s \in Seq(Threads) :
        /\ s = C[c] /\ Distinct(s) /\ Tied(heap, s)
        /\ \A i \in 1..Len(s) : s[i] \in Threads /\ IsIn(s[i], C[c])
  BY <1>c, <1>p, Scanned DEF Lists, Sound
<1>j. PICK j \in 1..Len(s) : Group(t, s, j)
  <2>1. PICK i \in 0..Len(s) : Group(t, s, i)
    BY <1>c, <1>p, <1>s DEF Lists, Walks, WalkOK
  <2>2. i # 0
    BY <1>p, <2>1 DEF Group
  <2>. QED  BY <2>1, <2>2
<1>m. PICK m \in Mutexes : m = walk[t].mqueue /\ m \in Queues /\ m # c /\ m \notin Stale
  BY <1>j, Sorts DEF Group, Stale
<1>0. 1 \in 1..Len(s) /\ Len(s) \in Nat /\ s[1] \in Threads /\ s[j] \in Threads
  BY <1>s
<1>w. walk[t].head = s[1] /\ walk[t].tail = s[j] /\ data[s[1]] = m
  BY <1>j, <1>m DEF Group
<1>1. /\ Served(t, m) /\ line' = Leave(m)
      /\ walk' = [walk EXCEPT ![t] = [NoWalk EXCEPT !.cell = walk[t].cell]]
      /\ pc' = [pc EXCEPT ![t] = IF walk[t].cell = NULL THEN "b_flush" ELSE "b_scan"]
      /\ UNCHANGED <<then, mutex, held, cond, data>>
  BY <1>m DEF BroadcastMove, Goto
<1>3. /\ pc'[t] = IF walk[t].cell = NULL THEN "b_flush" ELSE "b_scan"
      /\ walk'[t] = [NoWalk EXCEPT !.cell = walk[t].cell]
  BY <1>1, Fields DEF Emptying
<1>7. heap \in Heaps /\ Sound(heap, C, Stale)
  BY DEF Lists, Sound
<1>r. c \in Queues \cap Stale /\ m \in Queues \ Stale /\ Moving(t, C, c, m, j)
  BY <1>c, <1>j, <1>m, <1>p, <1>s DEF Moving
<1>8. CASE owned[m] = 1
  <2>1. PICK exit \in Residue :
          owned' = owned /\ heap' = IF exit = 0 THEN Enqueues(heap, m, s[1], s[j]) ELSE heap
    BY <1>8, <1>m, <1>w DEF BroadcastMove
  <2>2. owned'[m] = 1 /\ \A n \in Mutexes \ {m} : owned'[n] = owned[n]
    BY <1>8, <2>1
  <2>3. CASE exit = 0
    <3>1. heap' = Enqueues(heap, m, s[1], s[j])
      BY <2>1, <2>3
    <3>2. \A y \in Threads : heap'.wait[y] = heap.wait[y]
      BY <1>0, <1>7, <1>m, <3>1, MovedBytes
    <3>3. PICK i \in 1..Len(s) : i = 1 /\ j \in i..Len(s)
      BY <1>0
    <3>4. PICK D : Sound(Enqueues(heap, m, s[i], s[j]), D, Stale) /\ IsCut(D, C, c, m, i, j)
      BY <1>7, <1>r, <1>s, <3>3, CutOut
    <3>5. \A y \in Threads : heap'.wait[y] = IF i = 2 /\ y = s[1] THEN 0 ELSE heap.wait[y]
      BY <3>2, <3>3
    <3>6. Moved(t, C, c, m, j, i, D)
      BY <1>1, <1>3, <1>s, <2>2, <3>1, <3>3, <3>4, <3>5 DEF Moved
    <3>. QED  BY <1>8, <1>r, <3>3, <3>6
  <2>4. CASE exit # 0
    <3>1. heap' = heap /\ Residue # {0}
      BY <2>1, <2>4
    <3>2. PICK D :
            /\ Sound(heap, D, Stale) /\ \A r \in Queues \ {c} : D[r] = C[r]
            /\ Rests(D[c], s, j)
      BY <1>7, <1>r, <1>s, <1>j, DropOut
    <3>3. PICK k : k = j + 2 /\ k # 2 /\ \A n \in k..j : FALSE
      BY <1>0
    <3>4. D[m] = C[m]
      BY <1>m, <3>2
    <3>5. IsCut(D, C, c, m, k, j)
      BY <1>s, <3>2, <3>3, <3>4 DEF IsCut
    <3>6. \A y \in Threads : heap'.wait[y] = IF k = 2 /\ y = s[1] THEN 0 ELSE heap.wait[y]
      BY <3>1, <3>3
    <3>7. Moved(t, C, c, m, j, k, D)
      BY <1>1, <1>3, <1>s, <2>2, <3>1, <3>2, <3>3, <3>5, <3>6 DEF Moved
    <3>. QED  BY <1>8, <1>r, <3>3, <3>7
  <2>. QED  BY <2>3, <2>4
<1>9. CASE owned[m] = 0
  <2>1. /\ owned' = [owned EXCEPT ![m] = 1]
        /\ heap' = IF s[1] = s[j] THEN Wake(heap, s[1])
                   ELSE Enqueues(Wake(heap, s[1]), m, heap.next[s[1]], s[j])
    BY <1>9, <1>m, <1>w DEF BroadcastMove
  <2>2. PICK g : g = Wake(heap, s[1])
    OBVIOUS
  <2>3. /\ g \in Heaps /\ Sound(g, C, Stale)
        /\ \A y \in Threads : g.wait[y] = IF y = s[1] THEN 0 ELSE heap.wait[y]
    <3>1. Sound(g, C, Stale)
      BY <1>0, <1>7, <2>2, SoundWake
    <3>2. \A y \in Threads : Wake(heap, s[1]).wait[y] = IF y = s[1] THEN 0 ELSE heap.wait[y]
      BY <1>0, <1>7, <1>m, WaitBytes
    <3>. QED  BY <2>2, <3>1, <3>2 DEF Sound
  <2>5. PICK D :
          /\ Sound(heap', D, Stale) /\ IsCut(D, C, c, m, 2, j)
          /\ \A y \in Threads : heap'.wait[y] = g.wait[y]
    <3>1. CASE j = 1
      <4>1. heap' = g
        BY <2>1, <2>2, <3>1
      <4>3. PICK D :
              /\ Sound(g, D, Stale) /\ \A r \in Queues \ {c} : D[r] = C[r]
              /\ Rests(D[c], s, 1)
        BY <1>0, <1>r, <1>s, <2>3, DropOut
      <4>4. \A n \in 2..j : FALSE
        BY <3>1
      <4>5. D[m] = C[m]
        BY <1>m, <4>3
      <4>6. IsCut(D, C, c, m, 2, j)
        BY <1>s, <3>1, <4>3, <4>4, <4>5 DEF IsCut
      <4>. QED  BY <4>1, <4>3, <4>6
    <3>2. CASE j # 1
      <4>1. s[1] # s[j]
        BY <1>0, <1>s, <3>2 DEF Distinct
      <4>2. PICK i \in 1..Len(s) : i = 2 /\ j \in i..Len(s) /\ 1 \in 1..(Len(s) - 1)
        BY <1>0, <3>2
      <4>3. heap.next[s[1]] = s[i]
        BY <1>s, <4>2 DEF Tied, Linked
      <4>4. heap' = Enqueues(g, m, s[i], s[j])
        BY <2>1, <2>2, <4>1, <4>3
      <4>5. PICK D : Sound(Enqueues(g, m, s[i], s[j]), D, Stale) /\ IsCut(D, C, c, m, i, j)
        BY <1>r, <1>s, <2>3, <4>2, CutOut
      <4>6. \A y \in Threads : heap'.wait[y] = g.wait[y]
        BY <1>0, <1>m, <1>s, <2>3, <4>4, MovedBytes
      <4>. QED  BY <4>2, <4>4, <4>5, <4>6
    <3>. QED  BY <3>1, <3>2
  <2>6. \A y \in Threads : heap'.wait[y] = IF y = s[1] THEN 0 ELSE heap.wait[y]
    BY <2>3, <2>5
  <2>7. owned'[m] = 1 /\ \A n \in Mutexes \ {m} : owned'[n] = owned[n]
    BY <2>1, Fields
  <2>8. PICK k : k = 2
    OBVIOUS
  <2>9. Moved(t, C, c, m, j, k, D)
    BY <1>1, <1>3, <1>s, <2>5, <2>6, <2>7, <2>8 DEF Moved
  <2>. QED  BY <1>9, <1>r, <2>8, <2>9
<1>. QED  BY <1>8, <1>9, Fields

LEMMA BroadcastMoveKeeps ==
  ASSUME IInv, NEW t \in Threads, BroadcastMove(t), UNCHANGED uses
  PROVE  IInv'
<1>f. PartOK(t)
  BY Fields
<1>p. pc[t] = "b_move" /\ pc[t] \in Emptying
  BY DEF BroadcastMove, Emptying
<1>2. PICK C : Lists(C)
  BY DEF IInv
<1>k. PICK c, m, j, k, D :
        Moving(t, C, c, m, j) /\ Moved(t, C, c, m, j, k, D) /\ (k = 2 <=> owned[m] = 0)
  BY <1>2, GroupMoves
<1>c. c \in Conds /\ c = cond[t] /\ c \in Queues /\ ~ Hasty /\ Served(t, c)
  BY <1>f, <1>k, <1>p, Sorts DEF Moving, PartOK, Sending, IInv, Locked, Inside
<1>m. m \in Mutexes /\ m = walk[t].mqueue /\ m \in Queues /\ m # c
  BY <1>k, Sorts DEF Moving
<1>s. PICK s \in Seq(Threads) : s = C[c] /\ j \in 1..Len(s) /\ Group(t, s, j)
  BY <1>2, <1>c, <1>k DEF Moving, Lists, Sound
<1>0. 1 \in 1..Len(s) /\ s[1] \in Threads /\ IsIn(s[1], C[c]) /\ data[s[1]] = m
  BY <1>m, <1>s DEF Group, IsIn
<1>1. /\ Served(t, m) /\ line' = Leave(m)
      /\ walk' = [walk EXCEPT ![t] = [NoWalk EXCEPT !.cell = walk[t].cell]]
      /\ pc' = [pc EXCEPT ![t] = IF walk[t].cell = NULL THEN "b_flush" ELSE "b_scan"]
      /\ UNCHANGED <<then, mutex, held, cond, data, uses>>
  BY <1>m DEF BroadcastMove, Goto
<1>3. /\ pc'[t] = IF walk[t].cell = NULL THEN "b_flush" ELSE "b_scan"
      /\ walk'[t] = [NoWalk EXCEPT !.cell = walk[t].cell] /\ pc'[t] \in Emptying
  BY <1>1, Fields DEF Emptying
<1>4. Step(t)
  <2>1. PartOK(t)'
    <3>1. walk[t].cell = NULL => walk'[t] = NoWalk
      BY <1>3 DEF NoWalk
    <3>. QED  BY <1>f, <1>p, <1>1, <1>3, <3>1 DEF PartOK, Hasty, Late, Sending
  <2>2. line'[c] = line[c]
    BY <1>1, <1>m, <1>c, Lines DEF Served, IInv, TypeOK
  <2>3. Served(t, cond[t])'
    BY <1>c, <1>1, <2>2 DEF Served
  <2>4. owned' \in [Mutexes -> {0, 1}]
    BY <1>m, Fields DEF BroadcastMove
  <2>5. walk' \in [Threads -> [cell : Ptr, mqueue : Mutexes \cup {NULL}, head : Ptr, tail : Ptr]]
    BY <1>1, Fields DEF NoWalk, Ptr
  <2>. QED  BY <1>1, <1>3, <1>m, <2>1, <2>3, <2>4, <2>5, Fields DEF Step, CondLabels
<1>5. heap.wait[t] = 0
  BY <1>p, <1>2, AwakeNowhere DEF IInv, Lists, Awake, Asleep
<1>6. /\ mutex[s[1]] = m /\ heap.wait[s[1]] = 1
      /\ pc[s[1]] \in {"wait", "t_wait"} \/ Possesses(s[1], m)
  BY <1>0, <1>2, <1>c, Queued
<1>7. Lists(D)' /\ Sound(heap', D, Stale)
  BY <1>2, <1>4, <1>k, GroupMoved DEF Moved
<1>8. \A y \in Threads : heap'.wait[y] = IF k = 2 /\ y = s[1] THEN 0 ELSE heap.wait[y]
  BY <1>k, <1>s DEF Moved
<1>9. TypeOK' /\ Parts' /\ Locked'
  BY <1>4, <1>7, StepKeeps DEF IInv, Sound
<1>10. \A n \in Mutexes : Possesses(t, n)' <=> Possesses(t, n)
  BY <1>1, <1>3, <1>p DEF Possesses, Emptying
<1>11. CASE owned[m] = 1
  <2>1. owned' = owned
    BY <1>11, <1>m DEF BroadcastMove
  <2>2. \A y \in Threads : heap'.wait[y] = heap.wait[y]
    BY <1>8, <1>11, <1>k
  <2>3. Bytes'
    BY <1>3, <1>4, <1>5, <2>2, BytesKept DEF IInv, Emptying
  <2>4. \A u \in Threads \ {t}, n \in Mutexes : Possesses(u, n)' <=> Possesses(u, n)
    BY <1>4, <2>2, OthersPossess
  <2>5. OneOwner'
    BY <1>10, <2>1, <2>4, OwnersKept, Fields
  <2>. QED  BY <1>7, <1>9, <2>3, <2>5 DEF IInv
<1>12. CASE owned[m] = 0
  <2>1. owned' = [owned EXCEPT ![m] = 1]
    BY <1>12, <1>m DEF BroadcastMove
  <2>2. \A y \in Threads : heap'.wait[y] = IF y = s[1] THEN 0 ELSE heap.wait[y]
    BY <1>8, <1>12, <1>k DEF Moved
  <2>3. s[1] # t /\ pc[s[1]] \in {"wait", "t_wait"}
    <3>1. s[1] # t
      BY <1>0, <1>5, <1>6
    <3>. QED  BY <1>0, <1>6, <1>12, <1>m, <3>1, Owned, Fields
  <2>4. Bytes'
    <3>1. heap'.wait[t] = 0
      BY <1>5, <2>2
    <3>2. \A u \in Threads \ {t} :
            \/ heap'.wait[u] = heap.wait[u]
            \/ heap'.wait[u] = 0 /\ pc[u] \notin {"u_take", "u_try", "t_late"}
      BY <2>2, <2>3
    <3>. QED  BY <1>3, <1>4, <3>1, <3>2, BytesKept DEF IInv, Emptying
  <2>5. OneOwner'
    <3>1. PICK x \in Threads \ {t} : x = s[1]
      BY <1>0, <2>3
    <3>. QED  BY <1>4, <1>6, <1>10, <1>12, <1>m, <2>1, <2>2, <2>3, <3>1, WakeOwner
  <2>. QED  BY <1>7, <1>9, <2>4, <2>5 DEF IInv
<1>. QED  BY <1>11, <1>12, <1>m, Fields

\* The words of the condition are cleared, whose list has gone.
LEMMA BroadcastFlushKeeps ==
  ASSUME IInv, NEW t \in Threads, BroadcastFlush(t), UNCHANGED uses
  PROVE  IInv'
<1>f. PartOK(t)
  BY Fields
<1>2. PICK C : Lists(C)
  BY DEF IInv
<1>c. PICK c \in Conds : c = cond[t] /\ c \in Queues /\ ~ Hasty /\ Served(t, c)
  BY <1>f, Sorts DEF BroadcastFlush, PartOK, Sending, IInv, Locked, Inside
<1>1. /\ pc[t] = "b_flush" /\ heap' = Flush(heap, c) /\ line' = Leave(c) /\ CondReturn(t)
      /\ walk[t] = NoWalk /\ UNCHANGED <<held, owned, data, walk, uses>>
  BY <1>f, <1>c DEF BroadcastFlush, PartOK
<1>3. Step(t) /\ pc'[t] = "idle" /\ then'[t] = "idle" /\ mutex'[t] = NULL
  <2>1. \A m, n \in held'[t] : m = n
    BY <1>f, <1>1 DEF PartOK
  <2>. QED  BY <1>f, <1>1, <1>c, <2>1, ReturnStep, Fields
<1>4. heap \in Heaps /\ Sound(heap, C, Stale) /\ C \in [Queues -> Seq(Threads)] /\ C[c] = <<>>
  BY <1>1, <1>2, <1>c DEF Lists, Sound, Walks, WalkOK
<1>5. \A y \in Threads : heap'.wait[y] = heap.wait[y]
  BY <1>1, <1>4, <1>c, MovedBytes
<1>6. Stale' = Stale \ {c}
  <2>1. ASSUME NEW d \in Conds, d # c, NEW u \in Threads
        PROVE  cond'[u] = d /\ pc'[u] \in Emptying <=> cond[u] = d /\ pc[u] \in Emptying
    BY <1>1, <1>c, <1>3, <2>1 DEF Step, Emptying
  <2>2. ASSUME NEW u \in Threads, pc'[u] \in Emptying PROVE cond'[u] # c
    BY <1>c, <1>3, <2>2 DEF Step, Emptying, IInv, Locked, Inside, Served
  <2>. QED  BY <2>1, <2>2 DEF Stale, Broadcasting, Emptying
<1>7. Sound(heap', C, Stale')
  <2>1. PICK D : D = [C EXCEPT ![c] = <<>>]
    OBVIOUS
  <2>2. Sound(heap', D, Stale')
    BY <1>1, <1>4, <1>6, <1>c, <2>1, SoundFlush
  <2>3. D = C
    BY <1>4, <1>c, <2>1
  <2>. QED  BY <2>2, <2>3
<1>8. heap.wait[t] = 0 /\ \A q \in Queues : ~ IsIn(t, C[q])
  BY <1>1, <1>2, AwakeNowhere DEF IInv, Lists, Awake, Asleep
<1>9. Lists(C)'
  <2>1. Keeping(t, C, C)
    BY <1>8 DEF Keeping
  <2>2. \A r \in Queues, y \in Threads : IsIn(y, C[r]) => Stays(r, y, C)
    BY <1>5 DEF Stays
  <2>3. Reached(C)'
    <3>1. ASSUME Spared, NEW y \in Threads, heap'.wait[y] = 1
          PROVE  (\E r \in Queues : IsIn(y, C[r])) \/ (\E u \in Threads : Carries(u, y)')
      <4>1. (\E r \in Queues : IsIn(y, C[r])) \/ (\E u \in Threads : Carries(u, y))
        BY <1>2, <1>5, <3>1 DEF Lists, Reached
      <4>2. ASSUME NEW u \in Threads, Carries(u, y) PROVE Carries(u, y)'
        BY <1>1, <1>3, <4>2 DEF Carries, Step
      <4>. QED  BY <4>1, <4>2
    <3>2. \A y \in Threads : pc'[y] \notin {"t_late", "t_take", "t_deq"}
      BY <1>c, <1>3, Fields DEF Step, PartOK, Late
    <3>. QED  BY <3>1, <3>2, <1>3, SparedKept DEF Reached
  <2>4. ASSUME NEW u \in Threads \ {t}, pc[u] = "s_move"
        PROVE  /\ heap'.wait[walk[u].cell] = 1
               /\ \A r \in Queues : ~ IsIn(walk[u].cell, C[r])
    BY <1>2, <1>5, <2>4 DEF Lists, Carried
  <2>5. Free(C)'
    BY <1>1, <1>2 DEF Lists, Free
  <2>6. WalkOK(t, C)' /\ pc'[t] # "s_move"
    BY <1>3 DEF WalkOK
  <2>7. TypeOK /\ Parts
    BY DEF IInv
  <2>8. /\ \A n \in Mutexes, y \in Threads : IsIn(y, C[n]) => Stays(n, y, C) \/ InMutex(n, y)'
        /\ \A d \in Conds, y \in Threads : IsIn(y, C[d]) => Stays(d, y, C) \/ InCond(d, y)'
    BY <2>2, Sorts
  <2>. QED  BY <1>2, <1>3, <1>7, <2>1, <2>3, <2>4, <2>5, <2>6, <2>7, <2>8, ListsMove
<1>10. Bytes'
  BY <1>3, <1>5, <1>8, BytesKept DEF IInv
<1>11. OneOwner'
  <2>1. \A n \in Mutexes : Possesses(t, n)' <=> Possesses(t, n)
    BY <1>1, <1>3 DEF Possesses
  <2>2. \A u \in Threads \ {t}, n \in Mutexes : Possesses(u, n)' <=> Possesses(u, n)
    BY <1>3, <1>5, OthersPossess
  <2>. QED  BY <1>1, <2>1, <2>2, OwnersKept, Fields
<1>12. TypeOK' /\ Parts' /\ Locked'
  BY <1>3, <1>7, StepKeeps DEF IInv, Sound
<1>. QED  BY <1>9, <1>10, <1>11, <1>12 DEF IInv

---------------------------------------------------------------------------
\* The invariant

LEMMA InitHolds == Init => IInv
<1>. SUFFICES ASSUME Init PROVE IInv
  OBVIOUS
<1>. USE DEF Init, MutexInit
<1>1. TypeOK
  <2>1. heap \in Heaps
    BY DEF Heaps, ZeroHeap, Ptr
  <2>. QED  BY <2>1 DEF TypeOK, MutexLabels, CondLabels, NoWalk, Ptr
<1>2. heap.wait = [t \in Threads |-> 0] /\ \A q \in Queues : heap.head[q] = NULL /\ heap.tail[q] = NULL
  BY DEF ZeroHeap
<1>3. Parts /\ Locked
  BY DEF Parts, PartOK, Late, Sending, Locked, Inside
<1>4. Bytes
  BY <1>2 DEF Bytes
<1>5. OneOwner
  BY DEF OneOwner, Possesses
<1>6. PICK C : C = [q \in Queues |-> <<>>]
  OBVIOUS
<1>7. Stale = {}
  BY DEF Stale, Broadcasting
<1>8. Sound(heap, C, Stale)
  <2>1. C \in [Queues -> Seq(Threads)] /\ \A q \in Queues : C[q] = <<>>
    BY <1>6
  <2>2. \A q \in Queues : Distinct(C[q]) /\ Represents(heap, q, C[q])
    <3>1. ASSUME NEW s, s = <<>> PROVE Distinct(s)
      BY <3>1 DEF Distinct
    <3>2. ASSUME NEW q \in Queues, NEW s, s = <<>> PROVE Represents(heap, q, s)
      BY <1>2, <3>2 DEF Represents
    <3>. QED  BY <2>1, <3>1, <3>2
  <2>3. \A q, r \in Queues : q # r => Separate(C[q], C[r])
    BY <2>1 DEF Separate
  <2>. QED  BY <1>1, <1>7, <2>1, <2>2, <2>3, SoundAll DEF TypeOK
<1>9. \A q \in Queues, x \in Threads : ~ IsIn(x, C[q])
  BY <1>6 DEF IsIn
<1>10. Holders(C) /\ Reached(C) /\ Carried(C) /\ Walks(C)
  BY <1>2, <1>9, Sorts DEF Holders, Reached, Carried, Walks, WalkOK
<1>11. Free(C)
  BY <1>6, Sorts DEF Free
<1>. QED  BY <1>1, <1>3, <1>4, <1>5, <1>8, <1>10, <1>11 DEF IInv, Lists

LEMMA StutterKeeps == IInv /\ UNCHANGED vars => IInv'
<1>. SUFFICES ASSUME IInv, UNCHANGED vars PROVE IInv'
  OBVIOUS
<1>. USE DEF vars, mutexVars, condVars
<1>1. TypeOK'
  BY DEF IInv, TypeOK
<1>2. Parts' /\ Locked' /\ Bytes' /\ OneOwner'
  BY DEF IInv, Parts, PartOK, Hasty, Locked, Served, Bytes, Asleep, OneOwner, Possesses
<1>3. ASSUME NEW C, Lists(C) PROVE Lists(C)'
  <2>1. Sound(heap, C, Stale)'
    BY <1>3 DEF Lists, Stale, Broadcasting
  <2>2. Holders(C)' /\ Reached(C)' /\ Carried(C)' /\ Free(C)'
    BY <1>3 DEF Lists, Holders, InMutex, InCond, Hasty, Reached, Spared, Carries,
       Carried, Free
  <2>3. Walks(C)'
    BY <1>3 DEF Lists, Walks, WalkOK, Group
  <2>. QED  BY <2>1, <2>2, <2>3 DEF Lists
<1>. QED  BY <1>1, <1>2, <1>3 DEF IInv

LEMMA NextHolds ==
  ASSUME IInv, Calm, Next
  PROVE  IInv'
<1>. PICK t \in Threads : (MutexCall(t) /\ UNCHANGED condVars) \/ CondCall(t) \/ Internal(t)
  BY DEF Next
<1>1. CASE MutexCall(t) /\ UNCHANGED condVars
  BY <1>1, FastLockKeeps, SlowLockKeeps, UnlockKeeps DEF MutexCall
<1>2. CASE CondCall(t)
  <2>1. PICK c \in Conds : CondWait(t, c) \/ CondTimedWait(t, c) \/ Signal(t, c) \/ Broadcast(t, c)
    BY <1>2 DEF CondCall
  <2>2. UNCHANGED uses
    BY <1>2 DEF CondCall
  <2>3. CASE CondWait(t, c)
    BY <2>2, <2>3, StartWaitKeeps DEF CondWait
  <2>4. CASE CondTimedWait(t, c)
    BY <2>2, <2>4, StartWaitKeeps DEF CondTimedWait
  <2>5. CASE Signal(t, c) \/ Broadcast(t, c)
    BY <2>2, <2>5, SendKeeps
  <2>. QED  BY <2>1, <2>3, <2>4, <2>5
<1>3. CASE Internal(t)
  <2>1. UNCHANGED uses
    BY <1>3 DEF Internal
  <2>2. CASE MutexStep(t) /\ CondKept(t)
    BY <2>1, <2>2, MutexStepKeeps
  <2>3. CASE WaitEnqueue(t)
    BY <2>1, <2>3, WaitEnqueueKeeps
  <2>4. CASE TimedStep(t)
    BY <2>1, <2>4, TimedWokenKeeps, TimedLateKeeps, TimedGiveUpKeeps, TimedTakeKeeps,
       TimedDequeueKeeps, TimedLockKeeps DEF TimedStep
  <2>5. CASE SignalStep(t)
    BY <2>1, <2>5, SignalPickKeeps, SignalMoveKeeps, SignalEndKeeps DEF SignalStep
  <2>6. CASE BroadcastStep(t)
    BY <2>1, <2>6, BroadcastFirstKeeps, BroadcastScanKeeps, BroadcastGroupKeeps,
       BroadcastMoveKeeps, BroadcastFlushKeeps DEF BroadcastStep
  <2>. QED  BY <1>3, <2>2, <2>3, <2>4, <2>5, <2>6 DEF Internal
<1>. QED  BY <1>1, <1>2, <1>3

---------------------------------------------------------------------------
\* Following the pointers

\* A set of numbers has a smallest.
LEMMA Least ==
  ASSUME NEW S \in SUBSET Nat, S # {}
  PROVE  \E n \in S : \A m \in S : n <= m
<1>1. IsWellFoundedOn(OpToRel(<, Nat), Nat)
  BY NatLessThanWellFounded
<1>2. PICK n \in S : \A m \in S : ~ (<<m, n>> \in OpToRel(<, Nat))
  BY <1>1, WFMin, Zenon
<1>3. OpToRel(<, Nat) = {p \in Nat \X Nat : p[1] < p[2]}
  BY Zenon DEF OpToRel
<1>4. ASSUME NEW m \in S PROVE n <= m
  <2>1. <<m, n>> \notin {p \in Nat \X Nat : p[1] < p[2]}
    BY <1>2, <1>3, Zenon
  <2>2. m \in Nat /\ n \in Nat
    OBVIOUS
  <2>. QED  BY <2>1, <2>2
<1>. QED  BY <1>4

\* The way along the pointers, one step after another.
Way(q, f) ==
  f = [n \in 1..Cardinality(Threads) |->
         IF n = 1 THEN heap.head[q]
         ELSE IF f[n - 1] = NULL THEN NULL ELSE heap.next[f[n - 1]]]

\* Follow is the way, when there is one.
LEMMA FollowWay ==
  ASSUME NEW q, NEW g, Way(q, g)
  PROVE  Way(q, Follow(q))
BY Zenon DEF Way, Follow

\* There is no other way.
LEMMA OneWay ==
  ASSUME NEW q, NEW f, NEW g, Way(q, f), Way(q, g), Cardinality(Threads) \in Nat
  PROVE  f = g
<1>. DEFINE N == Cardinality(Threads)
            S == {n \in 1..N : f[n] # g[n]}
<1>1. ASSUME S # {} PROVE FALSE
  <2>1. PICK n \in S : \A m \in S : n <= m
    <3>1. S \in SUBSET Nat
      OBVIOUS
    <3>. HIDE DEF S
    <3>. QED  BY <1>1, <3>1, Least
  <2>2. /\ f[n] = IF n = 1 THEN heap.head[q]
                  ELSE IF f[n - 1] = NULL THEN NULL ELSE heap.next[f[n - 1]]
        /\ g[n] = IF n = 1 THEN heap.head[q]
                  ELSE IF g[n - 1] = NULL THEN NULL ELSE heap.next[g[n - 1]]
    BY DEF Way
  <2>3. n # 1
    BY <2>2
  <2>4. n - 1 \in 1..N /\ ~ (n <= n - 1)
    BY <2>3
  <2>5. f[n - 1] = g[n - 1]
    BY <2>1, <2>4
  <2>. QED  BY <2>2, <2>3, <2>5
<1>2. \A n \in 1..N : f[n] = g[n]
  BY <1>1
<1>3. /\ f = [n \in 1..N |-> f[n]]
      /\ g = [n \in 1..N |-> g[n]]
  BY DEF Way
<1>. HIDE DEF N
<1>. QED  BY <1>2, <1>3

\* A list of distinct cells is no longer than there are threads.
LEMMA Short ==
  ASSUME NEW s \in Seq(Threads), Distinct(s)
  PROVE  /\ Cardinality(Threads) \in Nat /\ Len(s) <= Cardinality(Threads)
         /\ Cardinality({s[i] : i \in 1..Len(s)}) = Len(s)
<1>1. Cardinality(Threads) \in Nat
  BY ThreadsAssumption, FS_CardinalityType
<1>2. IsFiniteSet(1..Len(s)) /\ Cardinality(1..Len(s)) = Len(s)
  <2>1. PICK n \in Nat : n = Len(s)
    OBVIOUS
  <2>2. IsFiniteSet(1..n) /\ Cardinality(1..n) = IF 1 > n THEN 0 ELSE n - 1 + 1
    BY FS_Interval
  <2>. QED  BY <2>1, <2>2
<1>3. s \in [1..Len(s) -> Threads] /\ \A i, j \in 1..Len(s) : s[i] = s[j] => i = j
  BY DEF Distinct
<1>4. s \in Injection(1..Len(s), Threads)
  BY <1>3, Fun_IsInj
<1>5. Cardinality(1..Len(s)) <= Cardinality(Threads)
  BY <1>4, ThreadsAssumption, FS_Injection
<1>6. DEFINE R == {s[i] : i \in 1..Len(s)}
<1>7. s \in [1..Len(s) -> R] /\ \A r \in R : \E i \in 1..Len(s) : s[i] = r
  BY <1>3
<1>. HIDE DEF R
<1>8. s \in Surjection(1..Len(s), R) /\ s \in Injection(1..Len(s), R)
  BY <1>3, <1>7, Fun_IsSurj, Fun_IsInj
<1>9. Cardinality(R) = Cardinality(1..Len(s))
  BY <1>2, <1>8, FS_Surjection
<1>. QED  BY <1>1, <1>2, <1>5, <1>9 DEF R

\* What can be read of a queue is the list it stands for.
LEMMA Reading ==
  ASSUME heap \in Heaps, NEW q \in Queues, NEW s \in Seq(Threads), Distinct(s),
         Represents(heap, q, s)
  PROVE  List(q) = s /\ Chain(q) = {s[i] : i \in 1..Len(s)}
<1>. DEFINE N == Cardinality(Threads)
            g == [n \in 1..N |-> IF n <= Len(s) THEN s[n] ELSE NULL]
<1>0. NULL \notin Threads
  BY NullAssumption
<1>1. N \in Nat /\ Len(s) <= N /\ Len(s) \in Nat
  <2>1. Cardinality(Threads) \in Nat /\ Len(s) <= Cardinality(Threads)
    BY Short
  <2>. QED  BY <2>1
<1>2. ASSUME NEW n \in 1..N
      PROVE  g[n] = IF n = 1 THEN heap.head[q]
                    ELSE IF g[n - 1] = NULL THEN NULL ELSE heap.next[g[n - 1]]
  <2>1. CASE n = 1
    <3>1. s # <<>> => 1 <= Len(s)
      BY <1>1
    <3>. QED  BY <2>1, <3>1 DEF Represents
  <2>2. CASE n # 1 /\ n - 1 <= Len(s)
    <3>1. n - 1 \in 1..N /\ n - 1 \in 1..Len(s) /\ (n - 1) + 1 = n
      BY <1>1, <2>2
    <3>2. g[n - 1] = s[n - 1] /\ s[n - 1] \in Threads /\ s[n - 1] # NULL /\ s # <<>>
      <4>1. g[n - 1] = s[n - 1]
        BY <2>2, <3>1
      <4>2. s[n - 1] \in Threads /\ s # <<>>
        <5>. HIDE DEF g, N
        <5>. QED  BY <3>1
      <4>. QED  BY <1>0, <4>1, <4>2
    <3>3. heap.next[s[n - 1]] = IF n <= Len(s) THEN s[n] ELSE NULL
      <4>1. CASE n <= Len(s)
        <5>1. n - 1 \in 1..(Len(s) - 1)
          BY <1>1, <3>1, <4>1
        <5>. QED  BY <3>1, <3>2, <4>1, <5>1 DEF Represents, Linked
      <4>2. CASE ~ (n <= Len(s))
        <5>1. n - 1 = Len(s)
          BY <1>1, <3>1, <4>2
        <5>. QED  BY <3>2, <4>2, <5>1 DEF Represents
      <4>. QED  BY <4>1, <4>2
    <3>. QED  BY <2>2, <3>2, <3>3
  <2>3. CASE n # 1 /\ ~ (n - 1 <= Len(s))
    <3>1. n - 1 \in 1..N /\ ~ (n <= Len(s))
      BY <1>1, <2>3
    <3>. QED  BY <2>3, <3>1
  <2>. QED  BY <2>1, <2>2, <2>3
<1>3. Way(q, g)
  BY <1>2 DEF Way
<1>4. Follow(q) = g
  <2>. HIDE DEF g
  <2>. QED  BY <1>1, <1>3, FollowWay, OneWay
<1>5. Chain(q) = {s[i] : i \in 1..Len(s)}
  <2>1. {g[n] : n \in 1..N} \ {NULL} = {s[i] : i \in 1..Len(s)}
    <3>1. ASSUME NEW n \in 1..N, g[n] # NULL PROVE g[n] \in {s[i] : i \in 1..Len(s)}
      <4>1. n \in 1..Len(s)
        BY <1>1, <3>1
      <4>. QED  BY <4>1
    <3>2. ASSUME NEW i \in 1..Len(s) PROVE i \in 1..N /\ g[i] = s[i] /\ s[i] # NULL
      <4>1. s[i] \in Threads
        OBVIOUS
      <4>2. i \in 1..N /\ i <= Len(s)
        BY <1>1
      <4>3. g[i] = s[i]
        BY <4>2
      <4>. QED  BY <1>0, <4>1, <4>2, <4>3
    <3>. HIDE DEF g
    <3>. QED  BY <3>1, <3>2
  <2>. HIDE DEF g
  <2>. QED  BY <1>4, <2>1 DEF Chain
<1>6. Cardinality(Chain(q)) = Len(s)
  BY <1>5, Short
<1>7. List(q) = [n \in 1..Len(s) |-> g[n]]
  <2>. HIDE DEF g
  <2>. QED  BY <1>4, <1>6 DEF List
<1>8. \A n \in 1..Len(s) : n \in 1..N /\ g[n] = s[n]
  BY <1>1
<1>9. s = [n \in 1..Len(s) |-> s[n]]
  OBVIOUS
<1>10. List(q) = s
  <2>. HIDE DEF g
  <2>. QED  BY <1>7, <1>8, <1>9
<1>. QED  BY <1>5, <1>10

\* So while no broadcast goes on, and if none left a cell behind, nobody that
\* waits is forgotten.
LEMMA Kept == Residue = {0} /\ IInv => NoWaiterForgotten
<1>. SUFFICES ASSUME Residue = {0}, IInv, \A c \in Conds : Signalling(c) \cup Broadcasting(c) = {}
              PROVE  /\ \A q \in Queues : IsList(q)
                     /\ \A t \in Waiters : Cardinality({q \in Queues : t \in Chain(q)}) = 1
                     /\ \A m \in Mutexes : owned[m] = 0 => heap.head[m] = NULL
  BY Zenon DEF NoWaiterForgotten
<1>0. /\ TypeOK /\ heap \in Heaps
      /\ Stale = {}
      /\ \A t, x \in Threads : ~ Carries(t, x)
  <2>1. TypeOK /\ Parts
    BY DEF IInv
  <2>2. Stale = {}
    BY DEF Stale
  <2>3. ASSUME NEW t \in Threads, pc[t] = "s_move" PROVE FALSE
    <3>1. cond[t] \in Conds
      BY <2>1, <2>3 DEF Parts, PartOK, Sending
    <3>2. t \in Signalling(cond[t])
      BY <2>3, <3>1 DEF Signalling
    <3>. QED  BY <3>1, <3>2
  <2>. QED  BY <2>1, <2>2, <2>3 DEF TypeOK, Carries
<1>1. PICK C : Lists(C)
  BY DEF IInv
<1>2. /\ Sound(heap, C, {}) /\ C \in [Queues -> Seq(Threads)]
      /\ Reached(C) /\ Free(C)
  <2>1. Sound(heap, C, Stale) /\ Reached(C) /\ Free(C)
    BY <1>1 DEF Lists
  <2>2. Sound(heap, C, {})
    <3>1. Stale = {}
      BY <1>0
    <3>. QED  BY <2>1, <3>1
  <2>. QED  BY <2>1, <2>2 DEF Sound
<1>3. ASSUME NEW q \in Queues
      PROVE  /\ Represents(heap, q, C[q]) /\ List(q) = C[q]
             /\ \A x \in Threads : x \in Chain(q) <=> IsIn(x, C[q])
  <2>1. Represents(heap, q, C[q]) /\ Distinct(C[q]) /\ C[q] \in Seq(Threads)
    BY <1>2 DEF Sound, ListOf
  <2>2. PICK s \in Seq(Threads) : s = C[q]
    BY <2>1
  <2>3. List(q) = s /\ Chain(q) = {s[i] : i \in 1..Len(s)}
    BY <1>0, <2>1, <2>2, Reading
  <2>. QED  BY <2>1, <2>2, <2>3 DEF IsIn
<1>4. \A q \in Queues : IsList(q)
  BY <1>3 DEF IsList
<1>5. ASSUME NEW t \in Waiters PROVE Cardinality({q \in Queues : t \in Chain(q)}) = 1
  <2>1. t \in Threads /\ heap.wait[t] = 1
    BY DEF Waiters
  <2>2. PICK q \in Queues : IsIn(t, C[q])
    BY <1>0, <1>2, <2>1 DEF Reached, Spared
  <2>3. ASSUME NEW r \in Queues, IsIn(t, C[r]) PROVE r = q
    <3>1. Sound(heap, C, {}) /\ t \in Cells
      BY <1>2, <2>1
    <3>2. q # r => ~ IsIn(t, C[r])
      BY <2>2, <3>1, OneList
    <3>. QED  BY <2>3, <3>2
  <2>4. {r \in Queues : t \in Chain(r)} = {q}
    BY <1>3, <2>1, <2>2, <2>3
  <2>. QED  BY <2>4, FS_Singleton
<1>6. ASSUME NEW m \in Mutexes, owned[m] = 0 PROVE heap.head[m] = NULL
  <2>1. C[m] = <<>> /\ m \in Queues
    BY <1>2, <1>6, Sorts DEF Free
  <2>. QED  BY <1>3, <2>1 DEF Represents
<1>. QED  BY <1>4, <1>5, <1>6

---------------------------------------------------------------------------
\* Towards an ideal monitor: what each step is to the callers

WantsNow == [t \in Threads |-> Wants(t)]
AsleepNow == [c \in Conds |-> SleepLine(c)]

\* The sleepers of a condition are its list, unless a broadcast empties it.
LEMMA SleepsAre ==
  \A D : Sound(heap, D, Stale) =>
    \A c \in Conds : SleepLine(c) = IF c \in Stale THEN <<>> ELSE D[c]
<1>. SUFFICES ASSUME NEW D, Sound(heap, D, Stale), NEW c \in Conds
              PROVE  SleepLine(c) = IF c \in Stale THEN <<>> ELSE D[c]
  OBVIOUS
<1>1. CASE c \in Stale
  BY <1>1 DEF Stale, SleepLine
<1>2. CASE c \notin Stale
  <2>1. Broadcasting(c) = {}
    BY <1>2 DEF Stale
  <2>2. /\ heap \in Heaps /\ c \in Queues /\ D[c] \in Seq(Threads)
        /\ Distinct(D[c]) /\ Represents(heap, c, D[c])
    BY <1>2, Sorts DEF Sound, ListOf
  <2>3. PICK s \in Seq(Threads) : s = D[c]
    BY <2>2
  <2>4. List(c) = s
    BY <2>2, <2>3, Reading
  <2>. QED  BY <1>2, <2>1, <2>3, <2>4 DEF SleepLine
<1>. QED  BY <1>1, <1>2

LEMMA SleepsNext ==
  \A D : Sound(heap', D, Stale') =>
    \A c \in Conds : SleepLine(c)' = IF c \in Stale' THEN <<>> ELSE D[c]
<1>1. (\A D : Sound(heap, D, Stale) =>
         \A c \in Conds : SleepLine(c) = IF c \in Stale THEN <<>> ELSE D[c])'
  BY SleepsAre, PTL
<1>. QED  BY <1>1

\* Thread t alone moves.
Only(t) ==
  \A u \in Threads \ {t} :
    pc'[u] = pc[u] /\ then'[u] = then[u] /\ mutex'[u] = mutex[u] /\ cond'[u] = cond[u]

\* No condition begins or ends to be emptied.
Steady(t) ==
  /\ Only(t)
  /\ pc[t] \in Emptying <=> pc'[t] \in Emptying
  /\ pc[t] \in Emptying => cond'[t] = cond[t]

LEMMA SteadyStale ==
  ASSUME NEW t \in Threads, Steady(t)
  PROVE  Stale' = Stale
<1>1. ASSUME NEW c \in Conds, NEW u \in Threads
      PROVE  cond'[u] = c /\ pc'[u] \in Emptying <=> cond[u] = c /\ pc[u] \in Emptying
  BY DEF Steady, Only
<1>. QED  BY <1>1 DEF Stale, Broadcasting, Emptying

\* The wishes of the others stay.
LEMMA WantsStay ==
  ASSUME NEW t \in Threads, Only(t)
  PROVE  WantsNow' = [WantsNow EXCEPT ![t] = Wants(t)']
<1>1. \A u \in Threads \ {t} : Wants(u)' = Wants(u)
  BY DEF Only, Wants
<1>. QED  BY <1>1 DEF WantsNow

\* The conditions keep their sleepers.
LEMMA AsleepStays ==
  ASSUME NEW C, Sound(heap, C, Stale), NEW D, Sound(heap', D, Stale'),
         NEW t \in Threads, Steady(t), \A c \in Conds : c \in Stale \/ D[c] = C[c]
  PROVE  AsleepNow' = AsleepNow
<1>1. Stale' = Stale
  BY SteadyStale
<1>2. ASSUME NEW c \in Conds PROVE SleepLine(c)' = SleepLine(c)
  <2>1. SleepLine(c) = IF c \in Stale THEN <<>> ELSE C[c]
    BY SleepsAre
  <2>2. SleepLine(c)' = IF c \in Stale' THEN <<>> ELSE D[c]
    BY SleepsNext
  <2>. QED  BY <1>1, <2>1, <2>2
<1>. QED  BY <1>2 DEF AsleepNow

LEMMA AsleepSame ==
  ASSUME IInv, NEW t \in Threads, Steady(t), heap' = heap
  PROVE  AsleepNow' = AsleepNow
<1>1. PICK C : Sound(heap, C, Stale)
  BY DEF IInv, Lists
<1>2. Sound(heap', C, Stale')
  BY <1>1, SteadyStale
<1>. QED  BY <1>1, <1>2, AsleepStays

\* What an ideal monitor does not see.
LEMMA Unseen ==
  ASSUME NEW t \in Threads, Only(t), held' = held, Wants(t)' = Wants(t), AsleepNow' = AsleepNow
  PROVE  UNCHANGED Promise!monitorVars
<1>1. WantsNow' = WantsNow
  BY WantsStay DEF WantsNow
<1>. QED  BY <1>1 DEF Promise!monitorVars, WantsNow, AsleepNow

\* A thread that is in no queue gets a free mutex.
LEMMA Acquires ==
  ASSUME IInv, NEW t \in Threads, NEW m \in Mutexes, Steady(t), heap' = heap, Awake(t),
         held[t] = {}, held' = [held EXCEPT ![t] = {m}],
         Wants(t) \subseteq {m}, Wants(t)' = {}, \A u \in Threads : m \notin held[u]
  PROVE  Promise!Acquire(t, m)
<1>1. AsleepNow' = AsleepNow
  BY AsleepSame
<1>2. WantsNow' = [WantsNow EXCEPT ![t] = {}]
  BY WantsStay DEF Steady
<1>3. PICK C : Lists(C)
  BY DEF IInv
<1>4. ASSUME NEW c \in Conds PROVE ~ IsIn(t, SleepLine(c))
  <2>1. ~ IsIn(t, C[c])
    BY <1>3, AwakeNowhere, Sorts DEF IInv, Lists
  <2>2. SleepLine(c) = IF c \in Stale THEN <<>> ELSE C[c]
    BY <1>3, SleepsAre DEF Lists
  <2>. QED  BY <2>1, <2>2 DEF IsIn
<1>5. Promise!Awake(t)
  BY <1>4 DEF Promise!Awake, Promise!SleepsOn, IsIn
<1>6. Promise!Free(m)
  BY DEF Promise!Free
<1>7. held' = [held EXCEPT ![t] = @ \cup {m}]
  BY Fields
<1>. QED  BY <1>1, <1>2, <1>5, <1>6, <1>7 DEF Promise!Acquire, WantsNow, AsleepNow

\* A mutex that is free, or that t was given, is held by no thread.
LEMMA NobodyHolds ==
  ASSUME IInv, NEW t \in Threads, NEW m \in Mutexes, held[t] = {}, owned[m] = 0 \/ Possesses(t, m)
  PROVE  \A u \in Threads : m \notin held[u]
<1>1. ASSUME NEW u \in Threads, m \in held[u] PROVE Possesses(u, m)
  BY <1>1 DEF Possesses
<1>. QED  BY <1>1, Owned DEF IInv

---------------------------------------------------------------------------
\* The calls and steps of the mutex

LEMMA FastLockRefines ==
  ASSUME IInv, NEW t \in Threads, NEW m \in Mutexes, FastLock(t, m), UNCHANGED condVars
  PROVE  Promise!Acquire(t, m)
<1>1. /\ pc[t] = "idle" /\ held[t] = {} /\ owned[m] = 0 /\ heap' = heap
      /\ held' = [held EXCEPT ![t] = {m}]
      /\ UNCHANGED <<pc, then, mutex, cond>>
  BY DEF FastLock, condVars
<1>2. Steady(t)
  BY <1>1 DEF Steady, Only
<1>3. Wants(t) = {} /\ Wants(t)' = {}
  BY <1>1 DEF Wants, Calling
<1>4. Awake(t)
  BY <1>1 DEF Awake, Asleep
<1>5. \A u \in Threads : m \notin held[u]
  BY <1>1, NobodyHolds
<1>. QED  BY <1>1, <1>2, <1>3, <1>4, <1>5, Acquires

LEMMA SlowLockRefines ==
  ASSUME IInv, NEW t \in Threads, NEW m \in Mutexes, SlowLock(t, m), UNCHANGED condVars
  PROVE  Promise!Request(t, m)
<1>1. /\ pc[t] = "idle" /\ held[t] = {} /\ heap' = heap
      /\ pc' = [pc EXCEPT ![t] = "l_take"] /\ mutex' = [mutex EXCEPT ![t] = m]
      /\ UNCHANGED <<held, then, cond>>
  BY DEF SlowLock, Goto, condVars
<1>2. Steady(t)
  BY <1>1, Fields DEF Steady, Only, Emptying
<1>3. Wants(t) = {} /\ Wants(t)' = {m}
  BY <1>1, Fields DEF Wants, Calling
<1>4. AsleepNow' = AsleepNow
  BY <1>1, <1>2, AsleepSame
<1>5. WantsNow' = [WantsNow EXCEPT ![t] = {m}]
  BY <1>2, <1>3, WantsStay DEF Steady
<1>. QED  BY <1>1, <1>3, <1>4, <1>5 DEF Promise!Request, WantsNow, AsleepNow

LEMMA UnlockRefines ==
  ASSUME IInv, NEW t \in Threads, Unlock(t), UNCHANGED condVars
  PROVE  \E m \in Mutexes : m \in held[t] /\ Promise!Release(t, m)
<1>1. PICK m \in held[t] : mutex' = [mutex EXCEPT ![t] = m]
  BY DEF Unlock
<1>2. /\ pc[t] = "idle" /\ then[t] = "idle" /\ heap' = heap /\ m \in Mutexes
      /\ pc' = [pc EXCEPT ![t] = "u_try"] /\ held' = [held EXCEPT ![t] = {}]
      /\ UNCHANGED <<then, cond>>
  BY <1>1, Fields DEF Unlock, Goto, condVars, PartOK
<1>3. held[t] \ {m} = {}
  BY <1>1, Fields DEF PartOK
<1>4. Steady(t)
  BY <1>1, <1>2, Fields DEF Steady, Only, Emptying
<1>5. Wants(t) = {} /\ Wants(t)' = {}
  BY <1>2, Fields DEF Wants, Calling
<1>6. AsleepNow' = AsleepNow
  BY <1>2, <1>4, AsleepSame
<1>7. WantsNow' = WantsNow
  BY <1>4, <1>5, WantsStay DEF Steady, WantsNow
<1>8. held' = [held EXCEPT ![t] = @ \ {m}]
  BY <1>2, <1>3
<1>9. Promise!Release(t, m)
  BY <1>1, <1>5, <1>6, <1>7, <1>8 DEF Promise!Release, WantsNow, AsleepNow
<1>. QED  BY <1>1, <1>2, <1>9

\* A thread gets the mutex it waits for.
Gets(t) == \E m \in Mutexes : Wants(t) = {m} /\ Promise!Acquire(t, m)

\* The end of lock, of a wait and of a timed wait: the cell has been woken.
LEMMA WaitRefines ==
  ASSUME IInv, NEW t \in Threads, (Wait(t) /\ CondKept(t)) \/ TimedWoken(t)
  PROVE  Gets(t)
<1>1. /\ pc[t] \in {"wait", "t_wait"} /\ heap.wait[t] = 0 /\ heap' = heap
      /\ pc' = [pc EXCEPT ![t] = "idle"] /\ then' = [then EXCEPT ![t] = "idle"]
      /\ mutex' = [mutex EXCEPT ![t] = NULL] /\ held' = [held EXCEPT ![t] = {mutex[t]}]
  BY DEF Wait, TimedWoken, CondReturn, Return, Goto
<1>2. \A u \in Threads \ {t} : cond'[u] = cond[u]
  BY Fields DEF CondKept, TimedWoken, CondReturn
<1>3. PICK m \in Mutexes : m = mutex[t]
  BY <1>1, Fields DEF PartOK
<1>4. held[t] = {}
  BY <1>1, Fields DEF PartOK
<1>5. Steady(t)
  BY <1>1, <1>2, Fields DEF Steady, Only, Emptying
<1>6. Wants(t) = {m} /\ Wants(t)' = {}
  BY <1>1, <1>3, Fields DEF Wants, Calling
<1>7. Awake(t)
  BY <1>1 DEF Awake, Asleep
<1>8. Possesses(t, m)
  BY <1>1, <1>3 DEF Possesses
<1>9. \A u \in Threads : m \notin held[u]
  BY <1>4, <1>8, NobodyHolds
<1>. QED  BY <1>1, <1>3, <1>4, <1>5, <1>6, <1>7, <1>9, Acquires DEF Gets

\* A ticket is taken.
LEMMA TakeUnseen ==
  ASSUME IInv, NEW t \in Threads, (LockTake(t) \/ UnlockTake(t)) /\ CondKept(t)
  PROVE  UNCHANGED Promise!monitorVars
<1>1. /\ \/ pc[t] = "l_take" /\ pc' = [pc EXCEPT ![t] = "l_try"]
         \/ pc[t] = "u_take" /\ pc' = [pc EXCEPT ![t] = "u_try"]
      /\ UNCHANGED <<then, mutex, held, heap>>
  BY DEF LockTake, UnlockTake, Goto
<1>2. cond' = cond
  BY <1>1, Fields DEF CondKept
<1>3. Steady(t)
  BY <1>1, <1>2, Fields DEF Steady, Only, Emptying
<1>4. Wants(t)' = Wants(t)
  BY <1>1, Fields DEF Wants, Calling
<1>. QED  BY <1>1, <1>3, <1>4, AsleepSame, Unseen DEF Steady

\* The queue of a mutex changes, or a byte: no sleeper notices.
LEMMA ElsewhereUnseen ==
  ASSUME IInv, NEW t \in Threads, NEW C, Sound(heap, C, Stale), NEW D, Sound(heap', D, Stale),
         Steady(t), \A c \in Conds : D[c] = C[c],
         held' = held, Wants(t)' = Wants(t)
  PROVE  UNCHANGED Promise!monitorVars
<1>1. Sound(heap', D, Stale')
  BY SteadyStale
<1>2. AsleepNow' = AsleepNow
  BY <1>1, AsleepStays
<1>. QED  BY <1>2, Unseen DEF Steady

LEMMA LockTryUnseen ==
  ASSUME IInv, NEW t \in Threads, LockTry(t), CondKept(t)
  PROVE  UNCHANGED Promise!monitorVars
<1>1. PICK m \in Mutexes : m = mutex[t]
  BY Fields DEF LockTry, PartOK
<1>2. /\ pc[t] = "l_try" /\ pc' = [pc EXCEPT ![t] = "wait"]
      /\ heap' = heap \/ heap' = Enqueue(heap, m, t)
      /\ UNCHANGED <<then, mutex, held>>
  BY <1>1 DEF LockTry, Goto
<1>3. cond' = cond
  BY <1>2, Fields DEF CondKept
<1>4. Steady(t)
  BY <1>2, <1>3, Fields DEF Steady, Only, Emptying
<1>5. Wants(t)' = Wants(t)
  BY <1>2, Fields DEF Wants, Calling
<1>6. PICK C : Lists(C)
  BY DEF IInv
<1>7. Sound(heap, C, Stale) /\ m \in Queues \ Stale /\ C \in [Queues -> Seq(Threads)]
  BY <1>6, Sorts DEF Lists, Stale, Sound
<1>8. CASE heap' = heap
  BY <1>2, <1>4, <1>5, <1>7, <1>8, ElsewhereUnseen
<1>9. CASE heap' = Enqueue(heap, m, t)
  <2>1. \A q \in Queues : ~ IsIn(t, C[q])
    BY <1>2, <1>6, AwakeNowhere DEF IInv, Lists, Awake, Asleep
  <2>2. PICK D : D = [C EXCEPT ![m] = Append(@, t)]
    OBVIOUS
  <2>3. Sound(heap', D, Stale)
    BY <1>7, <1>9, <2>1, <2>2, SoundEnqueue
  <2>4. \A c \in Conds : D[c] = C[c]
    BY <1>7, <2>2, Sorts
  <2>. QED  BY <1>2, <1>4, <1>5, <1>7, <2>3, <2>4, ElsewhereUnseen
<1>. QED  BY <1>2, <1>8, <1>9

LEMMA UnlockTryUnseen ==
  ASSUME IInv, NEW t \in Threads, UnlockTry(t), CondKept(t)
  PROVE  UNCHANGED Promise!monitorVars
<1>1. PICK m \in Mutexes : m = mutex[t]
  BY Fields DEF UnlockTry, PartOK
<1>2. PICK x : x = heap.head[m]
  OBVIOUS
<1>3. /\ pc[t] = "u_try" /\ held' = held
      /\ pc' = [pc EXCEPT ![t] = then[t]]
      /\ IF x = NULL THEN heap' = heap ELSE heap' = Wake(Dequeue(heap, m, x), x)
      /\ IF then[t] = "idle"
         THEN then' = [then EXCEPT ![t] = "idle"] /\ mutex' = [mutex EXCEPT ![t] = NULL]
         ELSE then' = then /\ mutex' = mutex
  BY <1>1, <1>2 DEF UnlockTry, EndUnlock, Return, Goto
<1>4. \A u \in Threads \ {t} : cond'[u] = cond[u]
  BY Fields DEF CondKept
<1>5. then[t] \in {"idle", "wait", "t_wait"}
  BY Fields
<1>6. Steady(t)
  BY <1>3, <1>4, <1>5, Fields DEF Steady, Only, Emptying
<1>7. Wants(t)' = Wants(t)
  BY <1>3, <1>5, Fields DEF Wants, Calling
<1>8. PICK C : Lists(C)
  BY DEF IInv
<1>9. Sound(heap, C, Stale) /\ m \in Queues \ Stale /\ C \in [Queues -> Seq(Threads)]
  BY <1>8, Sorts DEF Lists, Stale, Sound
<1>10. CASE x = NULL
  BY <1>3, <1>6, <1>7, <1>9, <1>10, ElsewhereUnseen
<1>11. CASE x # NULL
  <2>1. 1 \in 1..Len(C[m]) /\ x = C[m][1] /\ x \in Threads
    BY <1>2, <1>9, <1>11, HeadCell
  <2>2. PICK D : D = [C EXCEPT ![m] = Without(@, 1)]
    OBVIOUS
  <2>3. Sound(Dequeue(heap, m, C[m][1]), D, Stale)
    BY <1>9, <2>1, <2>2, SoundDequeue
  <2>4. PICK g : g = Dequeue(heap, m, x)
    OBVIOUS
  <2>5. Sound(g, D, Stale)
    BY <2>1, <2>3, <2>4
  <2>6. Sound(Wake(g, x), D, Stale)
    BY <2>1, <2>5, SoundWake
  <2>7. Sound(heap', D, Stale)
    BY <1>3, <1>11, <2>4, <2>6
  <2>8. \A c \in Conds : D[c] = C[c]
    BY <1>9, <2>2, Sorts
  <2>. QED  BY <1>3, <1>6, <1>7, <1>9, <2>7, <2>8, ElsewhereUnseen
<1>. QED  BY <1>10, <1>11

LEMMA MutexStepRefines ==
  ASSUME IInv, NEW t \in Threads, MutexStep(t), CondKept(t)
  PROVE  Gets(t) \/ UNCHANGED Promise!monitorVars
BY TakeUnseen, LockTryUnseen, WaitRefines, UnlockTryUnseen DEF MutexStep

---------------------------------------------------------------------------
\* Waits

\* Calls that begin: a wait, a signal or a broadcast has no effect yet.
LEMMA CallUnseen ==
  ASSUME IInv, NEW t \in Threads, NEW c \in Conds,
         \/ CondWait(t, c) \/ CondTimedWait(t, c) \/ Signal(t, c) \/ Broadcast(t, c)
  PROVE  UNCHANGED Promise!monitorVars
<1>1. /\ pc[t] = "idle" /\ held' = held /\ heap' = heap
      /\ \E next \in {"w_enq", "s_pick", "b_first"} : pc' = [pc EXCEPT ![t] = next]
      /\ cond' = [cond EXCEPT ![t] = c]
      /\ \A u \in Threads \ {t} : mutex'[u] = mutex[u] /\ then'[u] = then[u]
  BY Fields DEF CondWait, CondTimedWait, StartWait, Signal, Broadcast, Goto
<1>2. PICK next \in {"w_enq", "s_pick", "b_first"} : pc' = [pc EXCEPT ![t] = next]
  BY <1>1
<1>3. pc'[t] = next
  BY <1>2, Fields
<1>4. Steady(t)
  BY <1>1, <1>2, <1>3, Fields DEF Steady, Only, Emptying
<1>5. Wants(t)' = Wants(t)
  BY <1>1, <1>3 DEF Wants, Calling
<1>. QED  BY <1>1, <1>4, <1>5, AsleepSame, Unseen DEF Steady

\* The cell is in the queue: the thread sleeps, and has given up its mutex.
LEMMA WaitEnqueueRefines ==
  ASSUME IInv, NEW t \in Threads, WaitEnqueue(t)
  PROVE  cond[t] \in Conds /\ \E m \in Mutexes : Promise!Sleep(t, cond[t], m)
<1>1. PICK c \in Conds, m \in Mutexes : c = cond[t] /\ m = mutex[t]
  BY Fields DEF WaitEnqueue, PartOK
<1>2. /\ pc[t] = "w_enq" /\ then[t] # "idle" /\ held[t] = {m}
      /\ heap' = Enqueue(heap, c, t) /\ held' = [held EXCEPT ![t] = {}]
      /\ pc' = [pc EXCEPT ![t] = "u_take"]
      /\ UNCHANGED <<then, mutex, cond>>
  BY <1>1, Fields DEF WaitEnqueue, Goto, PartOK, condVars
<1>3. Steady(t)
  BY <1>2, Fields DEF Steady, Only, Emptying
<1>4. Stale' = Stale
  BY <1>3, SteadyStale
<1>5. c \notin Stale
  BY <1>1, <1>2, Alone DEF WaitEnqueue, IInv, Emptying
<1>6. PICK C : Lists(C)
  BY DEF IInv
<1>7. Sound(heap, C, Stale) /\ C \in [Queues -> Seq(Threads)] /\ c \in Queues \ Stale
  BY <1>5, <1>6 DEF Lists, Sound
<1>8. \A q \in Queues : ~ IsIn(t, C[q])
  BY <1>2, <1>6, AwakeNowhere DEF IInv, Lists, Awake, Asleep
<1>9. PICK D : D = [C EXCEPT ![c] = Append(@, t)]
  OBVIOUS
<1>10. Sound(heap', D, Stale')
  BY <1>2, <1>4, <1>7, <1>8, <1>9, SoundEnqueue
<1>11. ASSUME NEW d \in Conds
       PROVE  SleepLine(d)' = IF d = c THEN Append(SleepLine(d), t) ELSE SleepLine(d)
  <2>1. SleepLine(d) = IF d \in Stale THEN <<>> ELSE C[d]
    BY <1>7, SleepsAre
  <2>2. SleepLine(d)' = IF d \in Stale' THEN <<>> ELSE D[d]
    BY <1>10, SleepsNext
  <2>. QED  BY <1>4, <1>5, <1>7, <1>9, <2>1, <2>2
<1>12. AsleepNow' = [AsleepNow EXCEPT ![c] = Append(@, t)]
  BY <1>11 DEF AsleepNow
<1>13. Wants(t) = {} /\ Wants(t)' = {m}
  BY <1>1, <1>2, Fields DEF Wants, Calling
<1>14. WantsNow' = [WantsNow EXCEPT ![t] = {m}]
  BY <1>3, <1>13, WantsStay DEF Steady
<1>15. held' = [held EXCEPT ![t] = @ \ {m}]
  BY <1>2
<1>16. Promise!Sleep(t, c, m)
  BY <1>2, <1>12, <1>13, <1>14, <1>15 DEF Promise!Sleep, WantsNow, AsleepNow
<1>. QED  BY <1>1, <1>16

\* A timed wait that ends by its time, up to its dequeue.
LEMMA TimedUnseen ==
  ASSUME IInv, NEW t \in Threads, TimedLate(t) \/ TimedGiveUp(t) \/ TimedTake(t)
  PROVE  UNCHANGED Promise!monitorVars
<1>1. /\ pc[t] \in {"t_wait", "t_late", "t_take"}
      /\ \E next \in {"t_late", "t_take", "t_deq"} : pc' = [pc EXCEPT ![t] = next]
      /\ heap' = heap \/ heap' = Wake(heap, t)
      /\ UNCHANGED <<then, mutex, held, cond>>
  BY DEF TimedLate, TimedGiveUp, TimedTake, Goto, condVars
<1>2. PICK next \in {"t_late", "t_take", "t_deq"} : pc' = [pc EXCEPT ![t] = next]
  BY <1>1
<1>3. pc'[t] = next
  BY <1>2, Fields
<1>4. Steady(t)
  BY <1>1, <1>2, <1>3, Fields DEF Steady, Only, Emptying
<1>5. Wants(t)' = Wants(t)
  BY <1>1, <1>3 DEF Wants, Calling
<1>6. PICK C : Sound(heap, C, Stale)
  BY DEF IInv, Lists
<1>7. Sound(heap', C, Stale)
  BY <1>1, <1>6, SoundWake
<1>. QED  BY <1>1, <1>4, <1>5, <1>6, <1>7, ElsewhereUnseen

\* Its cell leaves the queue, from any place of it.
LEMMA TimedDequeueRefines ==
  ASSUME IInv, NEW t \in Threads, TimedDequeue(t)
  PROVE  Promise!MonitorNext
<1>1. PICK c \in Conds : c = cond[t]
  BY Fields DEF TimedDequeue, PartOK, Late
<1>2. /\ pc[t] = "t_deq" /\ heap' = Dequeue(heap, c, t)
      /\ pc' = [pc EXCEPT ![t] = "t_lock"]
      /\ UNCHANGED <<then, mutex, held, cond>>
  BY <1>1 DEF TimedDequeue, Goto, condVars
<1>3. Steady(t)
  BY <1>2, Fields DEF Steady, Only, Emptying
<1>4. Stale' = Stale
  BY <1>3, SteadyStale
<1>5. c \notin Stale
  BY <1>1, <1>2, Alone DEF TimedDequeue, IInv, Emptying
<1>6. PICK C : Lists(C)
  BY DEF IInv
<1>7. Sound(heap, C, Stale) /\ C \in [Queues -> Seq(Threads)] /\ c \in Queues \ Stale
  BY <1>5, <1>6 DEF Lists, Sound
<1>8. IsIn(t, C[c])
  BY <1>1, <1>2, <1>6 DEF Lists, Reached
<1>9. PICK k \in 1..Len(C[c]) : C[c][k] = t
  BY <1>8 DEF IsIn
<1>10. PICK D : D = [C EXCEPT ![c] = Without(@, k)]
  OBVIOUS
<1>11. Sound(Dequeue(heap, c, C[c][k]), D, Stale)
  BY <1>7, <1>10, SoundDequeue
<1>12. Sound(heap', D, Stale')
  BY <1>2, <1>4, <1>9, <1>11
<1>13. ASSUME NEW d \in Conds
       PROVE  /\ SleepLine(c) = C[c]
              /\ SleepLine(d)' = IF d = c THEN Without(SleepLine(d), k) ELSE SleepLine(d)
  <2>1. /\ SleepLine(d) = IF d \in Stale THEN <<>> ELSE C[d]
        /\ SleepLine(c) = IF c \in Stale THEN <<>> ELSE C[c]
    BY <1>7, SleepsAre
  <2>2. SleepLine(d)' = IF d \in Stale' THEN <<>> ELSE D[d]
    BY <1>12, SleepsNext
  <2>. QED  BY <1>4, <1>5, <1>7, <1>10, <2>1, <2>2
<1>14. AsleepNow' = [AsleepNow EXCEPT ![c] = Without(@, k)]
  BY <1>13 DEF AsleepNow
<1>15. Wants(t)' = Wants(t)
  BY <1>2, Fields DEF Wants, Calling
<1>16. WantsNow' = WantsNow
  BY <1>3, <1>15, WantsStay DEF Steady, WantsNow
<1>17. k \in 1..Len(AsleepNow[c]) /\ Promise!Timeout(c, k)
  BY <1>2, <1>13, <1>14, <1>16 DEF Promise!Timeout, WantsNow, AsleepNow, Without
<1>. QED  BY <1>17 DEF Promise!MonitorNext, AsleepNow

\* And it locks its mutex, at once or like any other.
LEMMA TimedLockRefines ==
  ASSUME IInv, NEW t \in Threads, TimedLock(t)
  PROVE  Gets(t) \/ UNCHANGED Promise!monitorVars
<1>1. PICK m \in Mutexes : m = mutex[t]
  BY Fields DEF TimedLock, PartOK, Late
<1>2. pc[t] = "t_lock" /\ held[t] = {} /\ heap' = heap
  BY Fields DEF TimedLock, PartOK, Late
<1>3. CASE owned[m] = 0
  <2>1. /\ held' = [held EXCEPT ![t] = {m}] /\ pc' = [pc EXCEPT ![t] = "idle"]
        /\ then' = [then EXCEPT ![t] = "idle"] /\ mutex' = [mutex EXCEPT ![t] = NULL]
        /\ cond' = [cond EXCEPT ![t] = NULL]
    BY <1>1, <1>3 DEF TimedLock, CondReturn, Return, Goto
  <2>2. Steady(t)
    BY <1>2, <2>1, Fields DEF Steady, Only, Emptying
  <2>3. Wants(t) = {m} /\ Wants(t)' = {}
    BY <1>1, <1>2, <2>1, Fields DEF Wants, Calling
  <2>4. Awake(t)
    BY <1>2 DEF Awake, Asleep
  <2>5. \A u \in Threads : m \notin held[u]
    BY <1>2, <1>3, NobodyHolds
  <2>. QED  BY <1>2, <2>1, <2>2, <2>3, <2>4, <2>5, Acquires DEF Gets
<1>4. CASE owned[m] # 0
  <2>1. pc' = [pc EXCEPT ![t] = "l_take"] /\ UNCHANGED <<then, mutex, cond, held>>
    BY <1>1, <1>4 DEF TimedLock, Goto
  <2>2. Steady(t)
    BY <1>2, <2>1, Fields DEF Steady, Only, Emptying
  <2>3. Wants(t)' = Wants(t)
    BY <1>2, <2>1, Fields DEF Wants, Calling
  <2>. QED  BY <1>2, <2>1, <2>2, <2>3, AsleepSame, Unseen DEF Steady
<1>. QED  BY <1>3, <1>4

---------------------------------------------------------------------------
\* Signals

\* The longest sleeper is roused when its cell leaves the condition's queue.
LEMMA SignalPickRefines ==
  ASSUME IInv, NEW t \in Threads, SignalPick(t)
  PROVE  /\ cond[t] \in Conds
         /\ \/ Promise!Signal(cond[t])
            \/ SleepLine(cond[t]) = <<>> /\ UNCHANGED Promise!monitorVars
<1>1. PICK c \in Conds : c = cond[t]
  BY Fields DEF SignalPick, PartOK, Sending
<1>2. PICK x : x = heap.head[c]
  OBVIOUS
<1>3. /\ pc[t] = "s_pick" /\ held' = held
      /\ IF x = NULL
         THEN heap' = heap /\ pc' = [pc EXCEPT ![t] = "idle"] /\ CondReturn(t)
         ELSE /\ heap' = Dequeue(heap, c, x) /\ pc' = [pc EXCEPT ![t] = "s_move"]
              /\ UNCHANGED <<then, mutex, cond>>
  BY <1>1, <1>2 DEF SignalPick, CondReturn, Return, Goto
<1>4. /\ pc'[t] \in {"idle", "s_move"}
      /\ \A u \in Threads \ {t} :
           pc'[u] = pc[u] /\ then'[u] = then[u] /\ mutex'[u] = mutex[u] /\ cond'[u] = cond[u]
  BY <1>3, Fields DEF CondReturn, Return
<1>5. Steady(t)
  BY <1>3, <1>4 DEF Steady, Only, Emptying
<1>6. Wants(t)' = Wants(t)
  BY <1>3, <1>4 DEF Wants, Calling
<1>7. CASE x = NULL
  <2>1. PICK C : Sound(heap, C, Stale)
    BY DEF IInv, Lists
  <2>2. SleepLine(c) = IF c \in Stale THEN <<>> ELSE C[c]
    BY <2>1, SleepsAre
  <2>3. c \in Queues
    BY Sorts
  <2>4. c \in Stale \/ C[c] = <<>>
    <3>1. PICK F : F = Stale
      OBVIOUS
    <3>2. c \notin F => (heap.head[c] = NULL <=> C[c] = <<>>)
      BY <2>1, <2>3, <3>1, NoHead
    <3>. QED  BY <1>2, <1>7, <3>1, <3>2
  <2>. QED  BY <1>1, <1>3, <1>5, <1>6, <1>7, <2>2, <2>4, AsleepSame, Unseen DEF Steady
<1>8. CASE x # NULL
  <2>1. Stale' = Stale
    BY <1>5, SteadyStale
  <2>2. c \notin Stale
    BY <1>1, <1>3, Alone DEF SignalPick, IInv, Emptying
  <2>3. PICK C : Sound(heap, C, Stale)
    BY DEF IInv, Lists
  <2>4. C \in [Queues -> Seq(Threads)] /\ c \in Queues \ Stale
    BY <2>2, <2>3 DEF Sound
  <2>5. /\ C[c] # <<>> /\ 1 \in 1..Len(C[c]) /\ x = C[c][1]
        /\ Tail(C[c]) = Without(C[c], 1)
    <3>1. heap.head[c] # NULL
      BY <1>2, <1>8
    <3>2. /\ C[c] # <<>> /\ 1 \in 1..Len(C[c]) /\ heap.head[c] = C[c][1]
          /\ Tail(C[c]) = Without(C[c], 1)
      <4>1. PICK F : F = Stale
        OBVIOUS
      <4>2. Sound(heap, C, F) /\ c \in Queues \ F
        BY <2>3, <2>4, <4>1
      <4>. QED  BY <3>1, <4>2, HeadCell
    <3>. QED  BY <1>2, <3>2
  <2>6. PICK D : D = [C EXCEPT ![c] = Without(@, 1)]
    OBVIOUS
  <2>7. Sound(Dequeue(heap, c, C[c][1]), D, Stale)
    BY <2>3, <2>4, <2>5, <2>6, SoundDequeue
  <2>8. Sound(heap', D, Stale')
    BY <1>3, <1>8, <2>1, <2>5, <2>7
  <2>9. ASSUME NEW d \in Conds
        PROVE  /\ SleepLine(c) # <<>>
               /\ SleepLine(d)' = IF d = c THEN Tail(SleepLine(d)) ELSE SleepLine(d)
    <3>1. /\ SleepLine(d) = IF d \in Stale THEN <<>> ELSE C[d]
          /\ SleepLine(c) = IF c \in Stale THEN <<>> ELSE C[c]
      BY <2>3, SleepsAre
    <3>2. SleepLine(d)' = IF d \in Stale' THEN <<>> ELSE D[d]
      BY <2>8, SleepsNext
    <3>3. D[c] = Tail(C[c]) /\ (d # c => D[d] = C[d])
      BY <2>4, <2>5, <2>6, Sorts
    <3>. QED  BY <2>1, <2>2, <2>5, <3>1, <3>2, <3>3
  <2>10. AsleepNow' = [AsleepNow EXCEPT ![c] = Tail(@)]
    BY <2>9 DEF AsleepNow
  <2>11. WantsNow' = WantsNow
    BY <1>5, <1>6, WantsStay DEF Steady, WantsNow
  <2>12. Promise!Signal(c)
    BY <1>3, <2>9, <2>10, <2>11 DEF Promise!Signal, WantsNow, AsleepNow
  <2>. QED  BY <1>1, <2>12
<1>. QED  BY <1>7, <1>8

\* What becomes of it then, in the queue of its mutex or awake, is no news.
LEMMA SignalMoveUnseen ==
  ASSUME IInv, NEW t \in Threads, SignalMove(t)
  PROVE  UNCHANGED Promise!monitorVars
<1>1. PICK C : Lists(C)
  BY DEF IInv
<1>2. PICK x \in Threads, m \in Mutexes :
        x = walk[t].cell /\ m = walk[t].mqueue /\ \A q \in Queues : ~ IsIn(x, C[q])
  BY <1>1 DEF SignalMove, Lists, Carried
<1>3. /\ pc[t] = "s_move" /\ pc' = [pc EXCEPT ![t] = "s_leave"]
      /\ heap' = Wake(heap, x) \/ heap' = Enqueue(heap, m, x)
      /\ UNCHANGED <<then, mutex, held, cond>>
  BY <1>2 DEF SignalMove, Goto
<1>4. Steady(t)
  BY <1>3, Fields DEF Steady, Only, Emptying
<1>5. Wants(t)' = Wants(t)
  BY <1>3, Fields DEF Wants, Calling
<1>6. Sound(heap, C, Stale) /\ m \in Queues \ Stale /\ C \in [Queues -> Seq(Threads)]
  BY <1>1, Sorts DEF Lists, Stale, Sound
<1>7. CASE heap' = Wake(heap, x)
  <2>1. Sound(heap', C, Stale)
    BY <1>6, <1>7, SoundWake
  <2>. QED  BY <1>3, <1>4, <1>5, <1>6, <2>1, ElsewhereUnseen
<1>8. CASE heap' = Enqueue(heap, m, x)
  <2>1. PICK D : D = [C EXCEPT ![m] = Append(@, x)]
    OBVIOUS
  <2>2. Sound(heap', D, Stale)
    BY <1>2, <1>6, <1>8, <2>1, SoundEnqueue
  <2>3. \A c \in Conds : D[c] = C[c]
    BY <1>6, <2>1, Sorts
  <2>. QED  BY <1>3, <1>4, <1>5, <1>6, <2>2, <2>3, ElsewhereUnseen
<1>. QED  BY <1>3, <1>7, <1>8

LEMMA SignalLeaveUnseen ==
  ASSUME IInv, NEW t \in Threads, SignalLeave(t)
  PROVE  UNCHANGED Promise!monitorVars
<1>1. pc[t] = "s_leave" /\ heap' = heap /\ held' = held /\ CondReturn(t)
  BY DEF SignalLeave
<1>2. /\ pc'[t] = "idle"
      /\ \A u \in Threads \ {t} :
           pc'[u] = pc[u] /\ then'[u] = then[u] /\ mutex'[u] = mutex[u] /\ cond'[u] = cond[u]
  BY <1>1, Fields DEF CondReturn, Return, Goto
<1>3. Steady(t)
  BY <1>1, <1>2 DEF Steady, Only, Emptying
<1>4. Wants(t)' = Wants(t)
  BY <1>1, <1>2 DEF Wants, Calling
<1>. QED  BY <1>1, <1>3, <1>4, AsleepSame, Unseen DEF Steady

---------------------------------------------------------------------------
\* Broadcasts

\* All sleepers are roused when the broadcast finds the head of the queue.
LEMMA BroadcastFirstRefines ==
  ASSUME IInv, NEW t \in Threads, BroadcastFirst(t)
  PROVE  cond[t] \in Conds /\ Promise!Broadcast(cond[t])
<1>1. PICK c \in Conds : c = cond[t]
  BY Fields DEF BroadcastFirst, PartOK, Sending
<1>2. /\ pc[t] = "b_first" /\ heap' = heap
      /\ \E next \in {"b_flush", "b_scan"} : pc' = [pc EXCEPT ![t] = next]
      /\ UNCHANGED <<then, mutex, held, cond>>
  BY DEF BroadcastFirst, Goto
<1>3. PICK next \in {"b_flush", "b_scan"} : pc' = [pc EXCEPT ![t] = next]
  BY <1>2
<1>4. /\ pc'[t] \in {"b_flush", "b_scan"} /\ Only(t)
  BY <1>2, <1>3, Fields DEF Only
<1>5. Stale' = Stale \cup {c}
  <2>1. ASSUME NEW d \in Conds, NEW u \in Threads
        PROVE  cond'[u] = d /\ pc'[u] \in Emptying
               <=> (cond[u] = d /\ pc[u] \in Emptying) \/ (u = t /\ d = c)
    BY <1>1, <1>2, <1>4 DEF Only, Emptying
  <2>. QED  BY <2>1 DEF Stale, Broadcasting, Emptying
<1>6. PICK C : Sound(heap, C, Stale)
  BY DEF IInv, Lists
<1>7. Sound(heap', C, Stale')
  <2>1. c \in Queues
    BY Sorts
  <2>2. Sound(heap, C, Stale \cup {c})
    BY <1>6, <2>1, SoundForget
  <2>. QED  BY <1>2, <1>5, <2>2
<1>8. ASSUME NEW d \in Conds
      PROVE  SleepLine(d)' = IF d = c THEN <<>> ELSE SleepLine(d)
  <2>1. SleepLine(d) = IF d \in Stale THEN <<>> ELSE C[d]
    BY <1>6, SleepsAre
  <2>2. SleepLine(d)' = IF d \in Stale' THEN <<>> ELSE C[d]
    BY <1>7, SleepsNext
  <2>. QED  BY <1>5, <2>1, <2>2
<1>9. AsleepNow' = [AsleepNow EXCEPT ![c] = <<>>]
  BY <1>8 DEF AsleepNow
<1>10. WantsNow' = WantsNow
  <2>1. Wants(t)' = Wants(t)
    BY <1>2, <1>4 DEF Wants, Calling
  <2>. QED  BY <1>4, <2>1, WantsStay DEF WantsNow
<1>11. Promise!Broadcast(c)
  BY <1>2, <1>9, <1>10 DEF Promise!Broadcast, WantsNow, AsleepNow
<1>. QED  BY <1>1, <1>11

\* The walk is no news.
LEMMA BroadcastWalkUnseen ==
  ASSUME IInv, NEW t \in Threads, BroadcastScan(t) \/ BroadcastGroup(t)
  PROVE  UNCHANGED Promise!monitorVars
<1>1. /\ pc[t] = "b_scan" /\ heap' = heap
      /\ pc' = pc \/ pc' = [pc EXCEPT ![t] = "b_move"]
      /\ UNCHANGED <<then, mutex, held, cond>>
  BY DEF BroadcastScan, BroadcastGroup, Goto, condVars
<1>2. Steady(t)
  BY <1>1, Fields DEF Steady, Only, Emptying
<1>3. Wants(t)' = Wants(t)
  BY <1>1, Fields DEF Wants, Calling
<1>. QED  BY <1>1, <1>2, <1>3, AsleepSame, Unseen DEF Steady

\* Cells leave a queue whose sleepers have been roused.
LEMMA BroadcastMoveUnseen ==
  ASSUME IInv, NEW t \in Threads, BroadcastMove(t)
  PROVE  UNCHANGED Promise!monitorVars
<1>1. PICK C : Lists(C)
  BY DEF IInv
<1>2. PICK c, m, j, k, D : Moving(t, C, c, m, j) /\ Moved(t, C, c, m, j, k, D)
  BY <1>1, GroupMoves
<1>3. /\ pc[t] = "b_move" /\ pc'[t] \in {"b_flush", "b_scan"}
      /\ UNCHANGED <<then, mutex, held, cond>>
      /\ \A u \in Threads \ {t} : pc'[u] = pc[u]
  BY <1>2, Fields DEF BroadcastMove, Moved, Goto
<1>4. Steady(t)
  BY <1>3 DEF Steady, Only, Emptying
<1>5. Wants(t)' = Wants(t)
  BY <1>3 DEF Wants, Calling
<1>6. Sound(heap, C, Stale) /\ Sound(heap', D, Stale')
  BY <1>1, <1>2, <1>4, SteadyStale DEF Lists, Moved
<1>7. c \in Conds /\ m \in Mutexes /\ c \in Stale
  BY <1>2 DEF Moving, Stale, Broadcasting
<1>8. \A d \in Conds : d \in Stale \/ D[d] = C[d]
  BY <1>2, <1>7, Sorts DEF Moved, IsCut
<1>. QED  BY <1>3, <1>4, <1>5, <1>6, <1>8, AsleepStays, Unseen DEF Steady

\* The words are cleared of a condition that was empty.
LEMMA BroadcastFlushUnseen ==
  ASSUME IInv, NEW t \in Threads, BroadcastFlush(t)
  PROVE  UNCHANGED Promise!monitorVars
<1>1. PICK c \in Conds : c = cond[t] /\ c \in Queues /\ Served(t, c)
  BY Fields, Sorts DEF BroadcastFlush, PartOK, Sending, IInv, Locked, Inside
<1>2. pc[t] = "b_flush" /\ heap' = Flush(heap, c) /\ held' = held /\ CondReturn(t)
  BY <1>1 DEF BroadcastFlush
<1>3. /\ pc'[t] = "idle" /\ Only(t)
  BY <1>2, Fields DEF CondReturn, Return, Goto, Only
<1>4. Stale' = Stale \ {c}
  <2>1. ASSUME NEW d \in Conds, d # c, NEW u \in Threads
        PROVE  cond'[u] = d /\ pc'[u] \in Emptying <=> cond[u] = d /\ pc[u] \in Emptying
    BY <1>1, <1>3, <2>1 DEF Only, Emptying
  <2>2. ASSUME NEW u \in Threads, pc'[u] \in Emptying PROVE cond'[u] # c
    BY <1>1, <1>3, <2>2 DEF Only, Emptying, IInv, Locked, Inside, Served
  <2>. QED  BY <2>1, <2>2 DEF Stale, Broadcasting, Emptying
<1>5. PICK C : Lists(C)
  BY DEF IInv
<1>6. Sound(heap, C, Stale) /\ C \in [Queues -> Seq(Threads)]
  BY <1>5 DEF Lists, Sound
<1>7. PICK D : D = [C EXCEPT ![c] = <<>>]
  OBVIOUS
<1>8. Sound(heap', D, Stale')
  BY <1>1, <1>2, <1>4, <1>6, <1>7, SoundFlush
<1>9. c \in Stale
  BY <1>1, <1>2 DEF Stale, Broadcasting
<1>10. ASSUME NEW d \in Conds PROVE SleepLine(d)' = SleepLine(d)
  <2>1. SleepLine(d) = IF d \in Stale THEN <<>> ELSE C[d]
    BY <1>6, SleepsAre
  <2>2. SleepLine(d)' = IF d \in Stale' THEN <<>> ELSE D[d]
    BY <1>8, SleepsNext
  <2>. QED  BY <1>4, <1>6, <1>7, <1>9, <2>1, <2>2
<1>11. AsleepNow' = AsleepNow
  BY <1>10 DEF AsleepNow
<1>12. Wants(t)' = Wants(t)
  BY <1>2, <1>3 DEF Wants, Calling
<1>. QED  BY <1>2, <1>3, <1>11, <1>12, Unseen

---------------------------------------------------------------------------
\* Every step is one of the monitor, or none.
LEMMA StepRefines ==
  ASSUME IInv, [Next]_vars
  PROVE  [Promise!MonitorNext]_(Promise!monitorVars)
<1>1. CASE UNCHANGED vars
  <2>1. UNCHANGED Promise!monitorVars
    BY <1>1 DEF vars, mutexVars, condVars, Promise!monitorVars, Wants, SleepLine,
                Broadcasting, List, Chain, Follow
  <2>. QED  BY <2>1
<1>2. CASE Next
  <2>. PICK t \in Threads : (MutexCall(t) /\ UNCHANGED condVars) \/ CondCall(t) \/ Internal(t)
    BY <1>2 DEF Next
  <2>1. CASE MutexCall(t) /\ UNCHANGED condVars
    BY <2>1, FastLockRefines, SlowLockRefines, UnlockRefines DEF MutexCall, Promise!MonitorNext
  <2>2. CASE CondCall(t)
    BY <2>2, CallUnseen DEF CondCall
  <2>3. CASE Internal(t)
    <3>1. CASE MutexStep(t) /\ CondKept(t)
      BY <3>1, MutexStepRefines DEF Gets, Promise!MonitorNext
    <3>2. CASE WaitEnqueue(t)
      BY <3>2, WaitEnqueueRefines DEF Promise!MonitorNext
    <3>3. CASE TimedStep(t)
      BY <3>3, WaitRefines, TimedUnseen, TimedDequeueRefines, TimedLockRefines
         DEF TimedStep, Gets, Promise!MonitorNext
    <3>4. CASE SignalStep(t)
      BY <3>4, SignalPickRefines, SignalMoveUnseen, SignalLeaveUnseen
         DEF SignalStep, Promise!MonitorNext
    <3>5. CASE BroadcastStep(t)
      BY <3>5, BroadcastFirstRefines, BroadcastWalkUnseen, BroadcastMoveUnseen,
         BroadcastFlushUnseen DEF BroadcastStep, Promise!MonitorNext
    <3>. QED  BY <2>3, <3>1, <3>2, <3>3, <3>4, <3>5 DEF Internal
  <2>. QED  BY <2>1, <2>2, <2>3
<1>. QED  BY <1>1, <1>2

LEMMA InitRefines == Init => Promise!MonitorInit
<1>. SUFFICES ASSUME Init PROVE Promise!MonitorInit
  OBVIOUS
<1>1. \A t \in Threads : Wants(t) = {}
  BY DEF Init, MutexInit, Wants, Calling
<1>2. PICK C : Lists(C)
  BY InitHolds DEF IInv
<1>3. ASSUME NEW c \in Conds PROVE SleepLine(c) = <<>>
  <2>1. heap.head[c] = NULL /\ c \notin Stale /\ c \in Queues \ Stale
    BY DEF Init, MutexInit, ZeroHeap, Stale, Broadcasting
  <2>2. C[c] = <<>>
    BY <1>2, <2>1, NoHead DEF Lists
  <2>. QED  BY <1>2, <2>1, <2>2, SleepsAre DEF Lists
<1>. QED  BY <1>1, <1>3 DEF Promise!MonitorInit, Init, MutexInit

---------------------------------------------------------------------------
\* The theorems

\* Every state keeps the lists, the wait bytes and the walks of the broadcasts
\* in step with the places of the threads.
THEOREM Inductive ==
  ASSUME Calm
  PROVE  Spec => []IInv
<1>1. Init => IInv
  BY InitHolds
<1>2. IInv /\ [Next]_vars => IInv'
  <2>1. IInv /\ Next => IInv'
    BY NextHolds
  <2>2. IInv /\ UNCHANGED vars => IInv'
    BY StutterKeeps
  <2>. QED  BY <2>1, <2>2
<1>. QED  BY <1>1, <1>2, PTL DEF Spec

\* Every variable of the condition variables has its type.
THEOREM TypeCorrect ==
  ASSUME Calm
  PROVE  Spec => []TypeOK
<1>1. IInv => TypeOK
  BY DEF IInv
<1>. QED  BY <1>1, Inductive, PTL

\* A mutex that is owned has one owner, a free one none: also when a signal or a
\* broadcast hands it to a waiter, whose byte it clears without the waiter
\* having asked for the lock again.
THEOREM OneOwnerHolds ==
  ASSUME Calm
  PROVE  Spec => []OneOwner
<1>1. IInv => OneOwner
  BY DEF IInv
<1>. QED  BY <1>1, Inductive, PTL

\* While no signal or broadcast is under way every list can be read, every
\* cell that waits is in exactly one of them, and a free mutex has no queue:
\* pthread_cond.c moves cells and loses none.
THEOREM NobodyForgotten ==
  ASSUME Calm, Residue = {0}
  PROVE  Spec => []NoWaiterForgotten
BY Kept, Inductive, PTL

\* Every behaviour of the library is one of an ideal monitor: a wait releases
\* its mutex and sleeps in one step, that in which its cell enters the queue of
\* the condition; a signal rouses exactly the longest sleeper, a broadcast all
\* who sleep when it begins to empty the queue; nobody else is roused but by its
\* time; and a wait returns with its mutex, which no other thread holds.
THEOREM Refinement ==
  ASSUME Calm
  PROVE  Spec => ImplementsMonitor
<1>1. Init => Promise!MonitorInit
  BY InitRefines
<1>2. IInv /\ [Next]_vars => [Promise!MonitorNext]_(Promise!monitorVars)
  BY StepRefines
<1>. QED  BY <1>1, <1>2, Inductive, PTL DEF Spec, ImplementsMonitor, Promise!MonitorSpec

---------------------------------------------------------------------------
\* What a program sees of the library

\* Between the call and the step by which the library acts on it.
Marks == {"w_enq", "s_pick", "b_first"}

\* The threads in the queue of a condition, and those on their way to it.
Dozers(c) == {t \in Threads : IsIn(t, SleepLine(c))}
Down(t, c) == t \in Dozers(c) \/ (pc[t] = "w_enq" /\ cond[t] = c)

\* A thread that sleeps makes no call, and sleeps on one condition.
LEMMA DozerFacts ==
  ASSUME IInv, NEW t \in Threads, NEW c \in Conds, t \in Dozers(c)
  PROVE  pc[t] \notin Marks \cup {"idle"} /\ cond[t] = c /\ IsIn(t, SleepLine(c))
<1>1. PICK C : Lists(C)
  BY DEF IInv
<1>2. SleepLine(c) = C[c] \/ SleepLine(c) = <<>>
  BY <1>1, SleepsAre DEF Lists
<1>3. IsIn(t, SleepLine(c))
  BY DEF Dozers
<1>4. IsIn(t, C[c]) /\ c \in Queues
  BY <1>2, <1>3, Sorts DEF IsIn
<1>5. cond[t] = c
  BY <1>1, <1>4 DEF Lists, Holders, InCond
<1>6. ~ Awake(t)
  BY <1>1, <1>4, AwakeNowhere DEF IInv, Lists
<1>. QED  BY <1>3, <1>5, <1>6 DEF Awake, Asleep, Marks

\* The sleepers of a condition are in order, each once.
LEMMA LineFacts ==
  ASSUME IInv, NEW c \in Conds
  PROVE  SleepLine(c) \in Seq(Threads) /\ Distinct(SleepLine(c))
<1>1. PICK C : Sound(heap, C, Stale)
  BY DEF IInv, Lists
<1>2. SleepLine(c) = C[c] \/ SleepLine(c) = <<>>
  BY <1>1, SleepsAre
<1>3. c \in Queues /\ C[c] \in Seq(Threads) /\ Distinct(C[c])
  BY <1>1, Sorts DEF Sound
<1>4. <<>> \in Seq(Threads) /\ Distinct(<<>>)
  BY DEF Distinct
<1>. QED  BY <1>2, <1>3, <1>4

\* The program's word for it.
LEMMA GoneMeans ==
  ASSUME IInv, NEW t \in Threads
  PROVE  GoneToSleep(t) <=> \E c \in Conds : Down(t, c)
<1>1. PICK C : Sound(heap, C, Stale)
  BY DEF IInv, Lists
<1>2. ASSUME NEW c \in Conds
      PROVE  t \in Dozers(c) <=> Broadcasting(c) = {} /\ t \in Chain(c)
  <2>1. SleepLine(c) = IF c \in Stale THEN <<>> ELSE C[c]
    BY <1>1, SleepsAre
  <2>2. CASE c \in Stale
    BY <2>1, <2>2 DEF Stale, Dozers, IsIn
  <2>3. CASE c \notin Stale
    <3>1. /\ heap \in Heaps /\ c \in Queues /\ C[c] \in Seq(Threads)
          /\ Distinct(C[c]) /\ Represents(heap, c, C[c])
      BY <1>1, <2>3, Sorts DEF Sound, ListOf
    <3>2. PICK s \in Seq(Threads) : s = C[c]
      BY <3>1
    <3>3. Chain(c) = {s[i] : i \in 1..Len(s)}
      BY <3>1, <3>2, Reading
    <3>. QED  BY <2>1, <2>3, <3>2, <3>3 DEF Stale, Dozers, IsIn
  <2>. QED  BY <2>2, <2>3
<1>3. pc[t] = "w_enq" => cond[t] \in Conds
  BY Fields DEF PartOK
<1>. QED  BY <1>2, <1>3 DEF GoneToSleep, Sleeps, Down

\* A mutex is held by one thread.
LEMMA OneHolds ==
  ASSUME IInv, NEW t \in Threads, NEW u \in Threads, NEW m \in Mutexes, m \in held[t], m \in held[u]
  PROVE  t = u
BY Owned DEF IInv, Possesses

\* What a step of t leaves to the others.
Apart(t) ==
  \A u \in Threads \ {t} :
    pc'[u] = pc[u] /\ cond'[u] = cond[u] /\ held'[u] = held[u] /\ Wants(u)' = Wants(u)

\* It does not touch the sleepers of D.
Sleeping(D) == \A c \in D : Dozers(c)' = Dozers(c)

\* What the step does to the mutexes of t.
Trades(t) == held'[t] \cup Wants(t)' = held[t] \cup Wants(t)
Keeps(t) == held'[t] = held[t] /\ Wants(t)' = Wants(t)

\* The four things that can be seen of a step inside a call.
Quiet(t) ==
  pc[t] \notin Marks /\ held[t] \subseteq held'[t] /\ Trades(t) /\ Sleeping(Conds)
FallsAsleep(t, c) ==
  /\ pc[t] = "w_enq" /\ Trades(t)
  /\ Sleeping(Conds \ {c}) /\ Dozers(c)' = Dozers(c) \cup {t}
Rouses(t, c) ==
  /\ pc[t] = "s_pick" /\ Keeps(t)
  /\ Sleeping(Conds \ {c})
  /\ IF Dozers(c) = {} THEN Dozers(c)' = {}
     ELSE \E x \in Dozers(c) : Dozers(c)' = Dozers(c) \ {x}
RousesAll(t, c) ==
  pc[t] = "b_first" /\ Keeps(t) /\ Sleeping(Conds \ {c}) /\ Dozers(c)' = {}
Inner(t) ==
  /\ Apart(t) /\ pc[t] # "idle" /\ pc'[t] \notin Marks /\ uses' = uses
  /\ \/ Quiet(t)
     \/ \E c \in Conds : c = cond[t] /\ (FallsAsleep(t, c) \/ Rouses(t, c) \/ RousesAll(t, c))

LEMMA SameSleepers ==
  ASSUME NEW c \in Conds, AsleepNow'[c] = AsleepNow[c]
  PROVE  Dozers(c)' = Dozers(c)
BY DEF AsleepNow, Dozers

\* Nothing of the monitor changes.
LEMMA UnseenSleepers ==
  ASSUME UNCHANGED Promise!monitorVars
  PROVE  /\ Sleeping(Conds) /\ held' = held
         /\ \A u \in Threads : Wants(u)' = Wants(u)
<1>1. AsleepNow' = AsleepNow /\ WantsNow' = WantsNow /\ held' = held
  BY DEF Promise!monitorVars, AsleepNow, WantsNow
<1>2. ASSUME NEW c \in Conds PROVE Dozers(c)' = Dozers(c)
  BY <1>1, SameSleepers
<1>3. ASSUME NEW u \in Threads PROVE Wants(u)' = Wants(u)
  BY <1>1 DEF WantsNow
<1>. QED  BY <1>1, <1>2, <1>3 DEF Sleeping

\* A mutex is taken, asked for or given back: nobody falls asleep or wakes up.
Elsewhere(t) == \A u \in Threads \ {t} : held'[u] = held[u] /\ Wants(u)' = Wants(u)

LEMMA MutexSeen ==
  ASSUME IInv, NEW t \in Threads, NEW H, NEW W,
         held' = [held EXCEPT ![t] = H], WantsNow' = [WantsNow EXCEPT ![t] = W],
         AsleepNow' = AsleepNow
  PROVE  Sleeping(Conds) /\ Elsewhere(t) /\ held'[t] = H /\ Wants(t)' = W
<1>1. ASSUME NEW c \in Conds PROVE Dozers(c)' = Dozers(c)
  BY SameSleepers
<1>2. held \in [Threads -> SUBSET Mutexes]
  BY Fields
<1>3. \A u \in Threads : WantsNow[u] = Wants(u) /\ WantsNow'[u] = Wants(u)'
  BY DEF WantsNow
<1>4. \A u \in Threads : WantsNow'[u] = IF u = t THEN W ELSE WantsNow[u]
  BY DEF WantsNow
<1>. QED  BY <1>1, <1>2, <1>3, <1>4 DEF Sleeping, Elsewhere

LEMMA AcquireSeen ==
  ASSUME IInv, NEW t \in Threads, NEW m \in Mutexes, Promise!Acquire(t, m)
  PROVE  Sleeping(Conds) /\ Elsewhere(t) /\ held'[t] = held[t] \cup {m} /\ Wants(t)' = {}
<1>1. /\ held' = [held EXCEPT ![t] = held[t] \cup {m}]
      /\ WantsNow' = [WantsNow EXCEPT ![t] = {}] /\ AsleepNow' = AsleepNow
  BY Fields DEF Promise!Acquire, WantsNow, AsleepNow
<1>. QED  BY <1>1, MutexSeen

LEMMA RequestSeen ==
  ASSUME IInv, NEW t \in Threads, NEW m \in Mutexes, Promise!Request(t, m)
  PROVE  Sleeping(Conds) /\ Elsewhere(t) /\ held'[t] = held[t] /\ Wants(t)' = {m}
<1>1. /\ held' = [held EXCEPT ![t] = held[t]]
      /\ WantsNow' = [WantsNow EXCEPT ![t] = {m}] /\ AsleepNow' = AsleepNow
  BY Fields DEF Promise!Request, WantsNow, AsleepNow
<1>. QED  BY <1>1, MutexSeen

LEMMA ReleaseSeen ==
  ASSUME IInv, NEW t \in Threads, NEW m \in Mutexes, Promise!Release(t, m)
  PROVE  Sleeping(Conds) /\ Elsewhere(t) /\ held'[t] = held[t] \ {m} /\ Wants(t)' = Wants(t)
<1>1. /\ held' = [held EXCEPT ![t] = held[t] \ {m}]
      /\ WantsNow' = [WantsNow EXCEPT ![t] = Wants(t)] /\ AsleepNow' = AsleepNow
  BY Fields DEF Promise!Release, WantsNow, AsleepNow
<1>. QED  BY <1>1, MutexSeen

\* Who falls asleep joins the sleepers of his condition.
LEMMA SleepSeen ==
  ASSUME IInv, NEW t \in Threads, NEW m \in Mutexes, NEW c \in Conds, Promise!Sleep(t, c, m),
         pc[t] = "w_enq"
  PROVE  Elsewhere(t) /\ FallsAsleep(t, c)
<1>1. /\ m \in held[t] /\ Wants(t) = {}
      /\ held' = [held EXCEPT ![t] = @ \ {m}] /\ WantsNow' = [WantsNow EXCEPT ![t] = {m}]
      /\ AsleepNow' = [AsleepNow EXCEPT ![c] = Append(@, t)]
  BY DEF Promise!Sleep, WantsNow, AsleepNow
<1>2. held \in [Threads -> SUBSET Mutexes]
  BY Fields
<1>3. \A u \in Threads : WantsNow'[u] = Wants(u)' /\ (u # t => WantsNow'[u] = Wants(u))
  BY <1>1 DEF WantsNow
<1>4. held'[t] = held[t] \ {m} /\ Wants(t)' = {m}
  BY <1>1, <1>2, <1>3 DEF WantsNow
<1>5. Elsewhere(t)
  BY <1>1, <1>2, <1>3 DEF Elsewhere
<1>6. Trades(t)
  BY <1>1, <1>4 DEF Trades
<1>7. ASSUME NEW d \in Conds \ {c} PROVE Dozers(d)' = Dozers(d)
  <2>1. AsleepNow'[d] = AsleepNow[d]
    BY <1>1 DEF AsleepNow
  <2>. QED  BY <2>1, SameSleepers
<1>8. Dozers(c)' = Dozers(c) \cup {t}
  <2>1. SleepLine(c)' = Append(SleepLine(c), t)
    BY <1>1 DEF AsleepNow
  <2>2. SleepLine(c) \in Seq(Threads)
    BY LineFacts
  <2>3. \A u \in Threads : IsIn(u, Append(SleepLine(c), t)) <=> IsIn(u, SleepLine(c)) \/ u = t
    BY <2>2 DEF IsIn
  <2>. QED  BY <2>1, <2>3 DEF Dozers
<1>. QED  BY <1>5, <1>6, <1>7, <1>8 DEF FallsAsleep, Sleeping

\* A signal rouses one of the sleepers, if there is any.
LEMMA SignalSeen ==
  ASSUME IInv, NEW t \in Threads, NEW c \in Conds, pc[t] = "s_pick",
         Promise!Signal(c) \/ (SleepLine(c) = <<>> /\ UNCHANGED Promise!monitorVars)
  PROVE  Elsewhere(t) /\ Rouses(t, c)
<1>1. CASE SleepLine(c) = <<>> /\ UNCHANGED Promise!monitorVars
  <2>1. Dozers(c) = {}
    BY <1>1 DEF Dozers, IsIn
  <2>. QED  BY <1>1, <2>1, UnseenSleepers DEF Elsewhere, Rouses, Keeps, Sleeping
<1>2. CASE Promise!Signal(c)
  <2>1. /\ SleepLine(c) # <<>> /\ held' = held /\ WantsNow' = WantsNow
        /\ AsleepNow' = [AsleepNow EXCEPT ![c] = Tail(@)]
    BY <1>2 DEF Promise!Signal, WantsNow, AsleepNow
  <2>2. \A u \in Threads : held'[u] = held[u] /\ Wants(u)' = Wants(u)
    BY <2>1 DEF WantsNow
  <2>3. ASSUME NEW d \in Conds \ {c} PROVE Dozers(d)' = Dozers(d)
    <3>1. AsleepNow'[d] = AsleepNow[d]
      BY <2>1 DEF AsleepNow
    <3>. QED  BY <3>1, SameSleepers
  <2>4. SleepLine(c)' = Tail(SleepLine(c))
    BY <2>1 DEF AsleepNow
  <2>5. SleepLine(c) \in Seq(Threads) /\ Distinct(SleepLine(c))
    BY LineFacts
  <2>6. PICK s \in Seq(Threads) : s = SleepLine(c) /\ s # <<>> /\ Distinct(s)
    BY <2>1, <2>5
  <2>7. /\ s[1] \in Threads /\ IsIn(s[1], s)
        /\ \A u \in Threads : IsIn(u, Tail(s)) <=> IsIn(u, s) /\ u # s[1]
    <3>1. Len(s) \in Nat \ {0} /\ s[1] \in Threads
      BY <2>6
    <3>2. Len(Tail(s)) = Len(s) - 1 /\ \A i \in 1..(Len(s) - 1) : Tail(s)[i] = s[i + 1]
      BY <2>6
    <3>3. ASSUME NEW u \in Threads, IsIn(u, Tail(s)) PROVE IsIn(u, s) /\ u # s[1]
      <4>1. PICK i \in 1..(Len(s) - 1) : s[i + 1] = u
        BY <3>1, <3>2, <3>3 DEF IsIn
      <4>2. i + 1 \in 1..Len(s) /\ 1 \in 1..Len(s) /\ i + 1 # 1
        BY <3>1
      <4>. QED  BY <2>6, <4>1, <4>2 DEF IsIn, Distinct
    <3>4. ASSUME NEW u \in Threads, IsIn(u, s), u # s[1] PROVE IsIn(u, Tail(s))
      <4>1. PICK i \in 1..Len(s) : s[i] = u
        BY <3>4 DEF IsIn
      <4>2. i - 1 \in 1..(Len(s) - 1) /\ (i - 1) + 1 = i
        BY <3>1, <3>4, <4>1
      <4>. QED  BY <3>2, <4>1, <4>2 DEF IsIn
    <3>5. IsIn(s[1], s)
      BY <3>1 DEF IsIn
    <3>. QED  BY <3>1, <3>3, <3>4, <3>5
  <2>8. s[1] \in Dozers(c) /\ Dozers(c)' = Dozers(c) \ {s[1]}
    BY <2>4, <2>6, <2>7 DEF Dozers
  <2>. QED  BY <2>2, <2>3, <2>8 DEF Elsewhere, Rouses, Keeps, Sleeping
<1>. QED  BY <1>1, <1>2

\* A broadcast rouses them all.
LEMMA BroadcastSeen ==
  ASSUME IInv, NEW t \in Threads, NEW c \in Conds, pc[t] = "b_first", Promise!Broadcast(c)
  PROVE  Elsewhere(t) /\ RousesAll(t, c)
<1>1. /\ held' = held /\ WantsNow' = WantsNow /\ AsleepNow' = [AsleepNow EXCEPT ![c] = <<>>]
  BY DEF Promise!Broadcast, WantsNow, AsleepNow
<1>2. \A u \in Threads : held'[u] = held[u] /\ Wants(u)' = Wants(u)
  BY <1>1 DEF WantsNow
<1>3. ASSUME NEW d \in Conds \ {c} PROVE Dozers(d)' = Dozers(d)
  <2>1. AsleepNow'[d] = AsleepNow[d]
    BY <1>1 DEF AsleepNow
  <2>. QED  BY <2>1, SameSleepers
<1>4. SleepLine(c)' = <<>>
  BY <1>1 DEF AsleepNow
<1>5. Dozers(c)' = {}
  BY <1>4 DEF Dozers, IsIn
<1>. QED  BY <1>2, <1>3, <1>5 DEF Elsewhere, RousesAll, Keeps, Sleeping

\* A step inside a call is the thread's own.
LEMMA InternalMoves ==
  ASSUME IInv, NEW t \in Threads, Internal(t)
  PROVE  /\ pc[t] # "idle" /\ pc'[t] \notin Marks
         /\ \A u \in Threads \ {t} : pc'[u] = pc[u] /\ cond'[u] = cond[u]
<1>. USE Fields DEF Marks, Goto
<1>1. CASE MutexStep(t) /\ CondKept(t)
  <2>1. /\ pc[t] # "idle" /\ pc'[t] \notin Marks
        /\ \A u \in Threads \ {t} : pc'[u] = pc[u]
    BY <1>1 DEF MutexStep, LockTake, LockTry, Wait, UnlockTake, UnlockTry, EndUnlock, Return, PartOK
  <2>. QED  BY <1>1, <2>1 DEF CondKept
<1>2. CASE WaitEnqueue(t)
  BY <1>2 DEF WaitEnqueue, condVars
<1>3. CASE TimedStep(t)
  BY <1>3 DEF TimedStep, TimedWoken, TimedLate, TimedGiveUp, TimedTake, TimedDequeue, TimedLock,
     CondReturn, Return, condVars
<1>4. CASE SignalStep(t)
  BY <1>4 DEF SignalStep, SignalPick, SignalMove, SignalLeave, CondReturn, Return
<1>5. CASE BroadcastStep(t)
  BY <1>5 DEF BroadcastStep, BroadcastFirst, BroadcastScan, BroadcastGroup, BroadcastMove,
     BroadcastFlush, CondReturn, Return, condVars
<1>. QED  BY <1>1, <1>2, <1>3, <1>4, <1>5 DEF Internal

\* Every step inside a call is one of the four, unless waits may end by their time.
LEMMA InnerSeen ==
  ASSUME IInv, ~ Hasty, NEW t \in Threads, Internal(t)
  PROVE  Inner(t)
<1>1. uses' = uses
  BY DEF Internal
<1>2. /\ pc[t] # "idle" /\ pc'[t] \notin Marks
      /\ \A u \in Threads \ {t} : pc'[u] = pc[u] /\ cond'[u] = cond[u]
  BY InternalMoves
<1>3. CASE Gets(t) /\ pc[t] \notin Marks
  <2>1. PICK m \in Mutexes : Wants(t) = {m} /\ Promise!Acquire(t, m)
    BY <1>3 DEF Gets
  <2>. QED  BY <1>1, <1>2, <1>3, <2>1, AcquireSeen
            DEF Inner, Apart, Elsewhere, Quiet, Trades
<1>4. CASE UNCHANGED Promise!monitorVars /\ pc[t] \notin Marks
  BY <1>1, <1>2, <1>4, UnseenSleepers DEF Inner, Apart, Quiet, Trades
<1>5. CASE WaitEnqueue(t)
  <2>1. PICK c \in Conds, m \in Mutexes : c = cond[t] /\ Promise!Sleep(t, c, m)
    BY <1>5, WaitEnqueueRefines
  <2>2. pc[t] = "w_enq"
    BY <1>5 DEF WaitEnqueue
  <2>. QED  BY <1>1, <1>2, <2>1, <2>2, SleepSeen DEF Inner, Apart, Elsewhere
<1>6. CASE SignalPick(t)
  <2>1. PICK c \in Conds : c = cond[t] /\ (Promise!Signal(c)
          \/ (SleepLine(c) = <<>> /\ UNCHANGED Promise!monitorVars))
    BY <1>6, SignalPickRefines
  <2>2. pc[t] = "s_pick"
    BY <1>6 DEF SignalPick
  <2>. QED  BY <1>1, <1>2, <2>1, <2>2, SignalSeen DEF Inner, Apart, Elsewhere
<1>7. CASE BroadcastFirst(t)
  <2>1. PICK c \in Conds : c = cond[t] /\ Promise!Broadcast(c)
    BY <1>7, BroadcastFirstRefines
  <2>2. pc[t] = "b_first"
    BY <1>7 DEF BroadcastFirst
  <2>. QED  BY <1>1, <1>2, <2>1, <2>2, BroadcastSeen DEF Inner, Apart, Elsewhere
<1>8. CASE MutexStep(t) /\ CondKept(t)
  <2>1. pc[t] \notin Marks
    BY <1>8 DEF MutexStep, LockTake, LockTry, Wait, UnlockTake, UnlockTry, Marks
  <2>. QED  BY <1>3, <1>4, <1>8, <2>1, MutexStepRefines
<1>9. CASE TimedStep(t)
  <2>1. pc[t] \notin Marks
    BY <1>9 DEF TimedStep, TimedWoken, TimedLate, TimedGiveUp, TimedTake, TimedDequeue,
                TimedLock, Marks
  <2>2. ~ TimedDequeue(t)
    BY Fields DEF TimedDequeue, PartOK, Late
  <2>. QED  BY <1>3, <1>4, <1>9, <2>1, <2>2, WaitRefines, TimedUnseen, TimedLockRefines
            DEF TimedStep
<1>10. CASE SignalMove(t) \/ SignalLeave(t)
  <2>1. pc[t] \notin Marks
    BY <1>10 DEF SignalMove, SignalLeave, Marks
  <2>. QED  BY <1>4, <1>10, <2>1, SignalMoveUnseen, SignalLeaveUnseen
<1>11. CASE BroadcastScan(t) \/ BroadcastGroup(t) \/ BroadcastMove(t) \/ BroadcastFlush(t)
  <2>1. pc[t] \notin Marks
    BY <1>11 DEF BroadcastScan, BroadcastGroup, BroadcastMove, BroadcastFlush, Marks
  <2>. QED  BY <1>4, <1>11, <2>1, BroadcastWalkUnseen, BroadcastMoveUnseen, BroadcastFlushUnseen
<1>. QED  BY <1>5, <1>6, <1>7, <1>8, <1>9, <1>10, <1>11
          DEF Internal, SignalStep, BroadcastStep

---------------------------------------------------------------------------
\* The calls of a program

\* What every step between two calls leaves alone.
Outer(t) == Apart(t) /\ Sleeping(Conds) /\ uses' = uses

\* The mutex is taken or asked for, or given up; a call has begun, or none.
Takes(t) ==
  /\ Outer(t) /\ pc'[t] \notin Marks /\ held'[t] \cup Wants(t)' = {Lock}
  /\ UNCHANGED <<left, shared>>
Gives(t) ==
  /\ Outer(t) /\ pc'[t] \notin Marks /\ held'[t] = {} /\ Wants(t)' = {}
  /\ UNCHANGED shared
Posts(t, mark, c) ==
  Outer(t) /\ pc'[t] = mark /\ cond'[t] = c /\ Keeps(t)
Idles(t) == Outer(t) /\ pc'[t] = "idle" /\ Keeps(t)

LEMMA LocksSeen ==
  ASSUME IInv, NEW t \in Threads, Locks(t)
  PROVE  Takes(t)
<1>1. /\ UNCHANGED condVars /\ UNCHANGED <<left, shared>>
      /\ FastLock(t, Lock) \/ SlowLock(t, Lock)
  BY DEF Locks
<1>2. Lock \in Mutexes
  BY LockAssumption
<1>3. /\ pc[t] = "idle" /\ held[t] = {}
      /\ cond' = cond /\ uses' = uses
      /\ pc' = pc \/ pc' = [pc EXCEPT ![t] = "l_take"]
  BY <1>1 DEF FastLock, SlowLock, Goto, condVars
<1>4. pc'[t] \notin Marks /\ \A u \in Threads \ {t} : pc'[u] = pc[u] /\ cond'[u] = cond[u]
  BY <1>3, Fields DEF Marks
<1>5. CASE FastLock(t, Lock)
  <2>1. Promise!Acquire(t, Lock)
    BY <1>1, <1>2, <1>5, FastLockRefines
  <2>. QED  BY <1>1, <1>2, <1>3, <1>4, <2>1, AcquireSeen DEF Takes, Outer, Apart, Elsewhere
<1>6. CASE SlowLock(t, Lock)
  <2>1. Promise!Request(t, Lock)
    BY <1>1, <1>2, <1>6, SlowLockRefines
  <2>. QED  BY <1>1, <1>2, <1>3, <1>4, <2>1, RequestSeen DEF Takes, Outer, Apart, Elsewhere
<1>. QED  BY <1>1, <1>5, <1>6

LEMMA UnlocksSeen ==
  ASSUME IInv, NEW t \in Threads, Unlocks(t)
  PROVE  Gives(t)
<1>1. /\ UNCHANGED condVars /\ UNCHANGED shared /\ Unlock(t)
      /\ pc[t] = "idle" /\ pc' = [pc EXCEPT ![t] = "u_try"] /\ held' = [held EXCEPT ![t] = {}]
  BY DEF Unlocks, Unlock, Goto
<1>2. PICK m \in Mutexes : Promise!Release(t, m)
  BY <1>1, UnlockRefines
<1>3. /\ pc'[t] = "u_try" /\ held'[t] = {}
      /\ \A u \in Threads \ {t} : pc'[u] = pc[u] /\ cond'[u] = cond[u]
  BY <1>1, Fields DEF condVars
<1>4. Wants(t) = {}
  BY <1>1 DEF Wants, Calling
<1>5. uses' = uses
  BY <1>1 DEF condVars
<1>. QED  BY <1>1, <1>2, <1>3, <1>4, <1>5, ReleaseSeen DEF Gives, Outer, Apart, Elsewhere, Marks

LEMMA PostsSeen ==
  ASSUME IInv, NEW t \in Threads, NEW c \in Conds, uses' = uses
  PROVE  /\ CondWait(t, c) => Posts(t, "w_enq", c)
         /\ Signal(t, c) => Posts(t, "s_pick", c)
         /\ Broadcast(t, c) => Posts(t, "b_first", c)
<1>1. ASSUME NEW mark, CondWait(t, c) \/ Signal(t, c) \/ Broadcast(t, c),
             pc' = [pc EXCEPT ![t] = mark], cond' = [cond EXCEPT ![t] = c]
      PROVE  Posts(t, mark, c)
  <2>1. UNCHANGED Promise!monitorVars
    BY <1>1, CallUnseen
  <2>2. Sleeping(Conds) /\ held' = held /\ \A u \in Threads : Wants(u)' = Wants(u)
    BY <2>1, UnseenSleepers
  <2>3. /\ pc'[t] = mark /\ cond'[t] = c
        /\ \A u \in Threads \ {t} : pc'[u] = pc[u] /\ cond'[u] = cond[u]
    BY <1>1, Fields
  <2>. QED  BY <2>2, <2>3 DEF Posts, Outer, Apart, Keeps
<1>2. CASE CondWait(t, c)
  BY <1>1, <1>2 DEF CondWait, StartWait, Goto, Signal, Broadcast
<1>3. CASE Signal(t, c)
  BY <1>1, <1>3 DEF CondWait, StartWait, Goto, Signal, Broadcast
<1>4. CASE Broadcast(t, c)
  BY <1>1, <1>4 DEF CondWait, StartWait, Goto, Signal, Broadcast
<1>. QED  BY <1>2, <1>3, <1>4

LEMMA IdlesSeen ==
  ASSUME NEW t \in Threads, UNCHANGED vars, pc[t] = "idle"
  PROVE  Idles(t)
<1>1. UNCHANGED <<pc, then, mutex, held, heap, cond, uses>>
  BY DEF vars, mutexVars, condVars
<1>2. \A u \in Threads : Wants(u)' = Wants(u)
  BY <1>1 DEF Wants
<1>3. ASSUME NEW c \in Conds PROVE Dozers(c)' = Dozers(c)
  BY <1>1 DEF Dozers, SleepLine, Broadcasting, List, Chain, Follow
<1>. QED  BY <1>1, <1>2, <1>3 DEF Idles, Outer, Apart, Sleeping, Keeps

LEMMA CallsSeen ==
  ASSUME IInv, NEW t \in Threads, pc[t] = "idle"
  PROVE  /\ Locks(t) => Takes(t)
         /\ Unlocks(t) => Gives(t)
         /\ \A c \in Conds :
              /\ WaitsOn(t, c) => Posts(t, "w_enq", c) /\ UNCHANGED <<left, shared>>
              /\ Signals(t, c) => Posts(t, "s_pick", c) /\ UNCHANGED <<left, shared>>
              /\ Broadcasts(t, c) => Posts(t, "b_first", c) /\ UNCHANGED <<left, shared>>
              /\ Broadcast(t, c) /\ UNCHANGED <<uses, shared>> =>
                   Posts(t, "b_first", c) /\ UNCHANGED shared
         /\ UNCHANGED vars => Idles(t)
BY LocksSeen, UnlocksSeen, PostsSeen, IdlesSeen DEF WaitsOn, Signals, Broadcasts

---------------------------------------------------------------------------
\* The mutex of the programs

\* The labels of signal.c and broadcast.c between a lock and an unlock, and
\* those of them to which no call leads that gives up the mutex.
Section ==
  {"test", "take", "signal", "unlock", "tell", "leave", "create", "created", "mark",
   "count", "wait"}
Bound == {"take", "signal", "tell", "wait"}

\* Inside its critical section a thread has the mutex, or waits for it.
GuardOK(t) ==
  /\ held[t] \subseteq {Lock} /\ Wants(t) \subseteq {Lock}
  /\ at[t] \in Section => held[t] \cup Wants(t) = {Lock}
  /\ at[t] \in Bound => held[t] = {Lock} /\ pc[t] # "w_enq"
  /\ pc[t] \in Marks => at[t] \in Section

Shaped == at = [t \in Threads |-> at[t]] /\ left = [t \in Threads |-> left[t]]
Guarded == Shaped /\ \A t \in Threads : GuardOK(t)

\* Between two calls, and on the way into one, that is: it has the mutex.
LEMMA Holding ==
  ASSUME Guarded, NEW t \in Threads,
         \/ pc[t] \in Marks \/ at[t] \in Bound
         \/ pc[t] = "idle" /\ at[t] \in Section
  PROVE  held[t] = {Lock} /\ (pc[t] \in Marks \cup {"idle"} => Wants(t) = {})
BY DEF Guarded, GuardOK, Wants, Calling, Marks

\* So nobody else is in such a place.
LEMMA Lonely ==
  ASSUME IInv, Guarded, NEW t \in Threads, NEW u \in Threads,
         pc[t] \in Marks \/ at[t] \in Bound \/ (pc[t] = "idle" /\ at[t] \in Section),
         pc[u] \in Marks \/ at[u] \in Bound \/ (pc[u] = "idle" /\ at[u] \in Section)
  PROVE  t = u
<1>1. held[t] = {Lock} /\ held[u] = {Lock} /\ Lock \in Mutexes
  BY Holding, LockAssumption
<1>. QED  BY <1>1, OneHolds

\* The others stay where they are, but those that the step creates.
Creating(t) ==
  /\ at' = [u \in Threads |-> at'[u]]
  /\ \A u \in Threads \ {t} : at'[u] = at[u] \/ (at[u] = "new" /\ at'[u] = "lock")

\* Steps that keep the mutex guarded.
LEMMA GuardKept ==
  ASSUME Guarded, NEW t \in Threads, Apart(t), Creating(t),
         left' = [u \in Threads |-> left'[u]], GuardOK(t)'
  PROVE  Guarded'
<1>1. ASSUME NEW u \in Threads \ {t} PROVE GuardOK(u)'
  <2>1. GuardOK(u)
    BY DEF Guarded
  <2>2. /\ pc'[u] = pc[u] /\ held'[u] = held[u] /\ Wants(u)' = Wants(u)
        /\ at'[u] = at[u] \/ (at[u] = "new" /\ at'[u] = "lock")
    BY DEF Apart, Creating
  <2>. QED  BY <2>1, <2>2 DEF GuardOK, Section, Bound
<1>. QED  BY <1>1 DEF Guarded, Shaped, Creating

LEMMA GuardInner ==
  ASSUME Guarded, NEW t \in Threads, Inner(t), UNCHANGED testVars
  PROVE  Guarded'
<1>1. GuardOK(t) /\ at' = at /\ left' = left
  BY DEF Guarded, testVars
<1>2. Apart(t) /\ Creating(t) /\ left' = [u \in Threads |-> left'[u]]
  BY <1>1 DEF Guarded, Shaped, Creating, Inner
<1>3. GuardOK(t)'
  <2>1. pc'[t] \notin Marks /\ at'[t] = at[t] /\ pc'[t] # "w_enq"
    BY <1>1 DEF Inner, Marks
  <2>2. \/ held[t] \subseteq held'[t]
        \/ pc[t] = "w_enq" 
    BY DEF Inner, Quiet, FallsAsleep, Rouses, RousesAll, Keeps
  <2>3. held'[t] \cup Wants(t)' = held[t] \cup Wants(t)
    BY DEF Inner, Quiet, FallsAsleep, Rouses, RousesAll, Keeps, Trades
  <2>. QED  BY <1>1, <2>1, <2>2, <2>3 DEF GuardOK
<1>. QED  BY <1>2, <1>3, GuardKept

\* A step between two calls keeps it if it goes the right way.
Orderly(t) ==
  \/ Takes(t) /\ at'[t] \notin Bound
  \/ Gives(t) /\ at'[t] \notin Section
  \/ /\ \E c \in Conds, mark \in Marks : Posts(t, mark, c)
     /\ at[t] \in Section /\ at'[t] \in Section
     /\ pc'[t] = "w_enq" => at'[t] \notin Bound
  \/ Idles(t) /\ (at'[t] \in Section => at[t] \in Section)

LEMMA GuardOuter ==
  ASSUME Guarded, NEW t \in Threads, pc[t] = "idle", Creating(t),
         left' = [u \in Threads |-> left'[u]], Orderly(t)
  PROVE  Guarded'
<1>1. GuardOK(t)
  BY DEF Guarded
<1>2. Wants(t) = {} /\ (at[t] \in Section => held[t] = {Lock})
  BY <1>1 DEF GuardOK, Wants, Calling
<1>3. Apart(t)
  BY DEF Orderly, Takes, Gives, Posts, Idles, Outer
<1>4. GuardOK(t)'
  <2>1. CASE Takes(t) /\ at'[t] \notin Bound
    BY <1>1, <2>1 DEF GuardOK, Takes
  <2>2. CASE Gives(t) /\ at'[t] \notin Section
    BY <2>2 DEF GuardOK, Gives, Section, Bound
  <2>3. CASE /\ \E c \in Conds, mark \in Marks : Posts(t, mark, c)
             /\ at[t] \in Section /\ at'[t] \in Section
             /\ pc'[t] = "w_enq" => at'[t] \notin Bound
    BY <1>2, <2>3 DEF GuardOK, Posts, Keeps, Marks
  <2>4. CASE Idles(t) /\ (at'[t] \in Section => at[t] \in Section)
    BY <1>1, <1>2, <2>4 DEF GuardOK, Idles, Keeps, Marks, Section, Bound
  <2>. QED  BY <2>1, <2>2, <2>3, <2>4 DEF Orderly
<1>. QED  BY <1>3, <1>4, GuardKept

---------------------------------------------------------------------------
\* Who goes to sleep and who is roused

Gone(t) == \E c \in Conds : Down(t, c)
Lying(threads) == {t \in threads : Gone(t)}

DownsStay == \A u \in Threads, c \in Conds : Down(u, c)' <=> Down(u, c)
Wakes(x) == \A u \in Threads, c \in Conds : Down(u, c)' <=> u # x /\ Down(u, c)
WakesAll(d) == \A u \in Threads, c \in Conds : Down(u, c)' <=> c # d /\ Down(u, c)

\* A signal that finds nobody, or that rouses x; a broadcast.
Misses(t) == pc[t] = "s_pick" => \A u \in Threads : ~ Down(u, cond[t])
InnerDowns(t) ==
  \/ DownsStay /\ Misses(t) /\ pc[t] # "b_first"
  \/ pc[t] = "s_pick" /\ \E x \in Threads : Down(x, cond[t]) /\ Wakes(x)
  \/ pc[t] = "b_first" /\ WakesAll(cond[t])

LEMMA InnerDownsAre ==
  ASSUME IInv, Guarded, NEW t \in Threads, Inner(t)
  PROVE  InnerDowns(t)
<1>1. \A u \in Threads \ {t} : pc'[u] = pc[u] /\ cond'[u] = cond[u]
  BY DEF Inner, Apart
<1>2. pc'[t] \notin Marks /\ pc'[t] # "w_enq"
  BY DEF Inner, Marks
<1>3. ASSUME pc[t] \in Marks, NEW u \in Threads \ {t}, pc[u] = "w_enq" PROVE FALSE
  BY <1>3, Lonely DEF Marks
<1>4. CASE Quiet(t)
  <2>1. pc[t] \notin Marks
    BY <1>4 DEF Quiet
  <2>2. DownsStay
    BY <1>1, <1>2, <1>4, <2>1 DEF Quiet, Sleeping, DownsStay, Down, Marks
  <2>. QED  BY <2>1, <2>2 DEF InnerDowns, Misses, Marks
<1>5. ASSUME NEW c \in Conds, c = cond[t], FallsAsleep(t, c) PROVE InnerDowns(t)
  <2>1. pc[t] = "w_enq" /\ Dozers(c)' = Dozers(c) \cup {t}
        /\ \A d \in Conds \ {c} : Dozers(d)' = Dozers(d)
    BY <1>5 DEF FallsAsleep, Sleeping
  <2>2. DownsStay
    BY <1>1, <1>2, <1>5, <2>1 DEF DownsStay, Down
  <2>. QED  BY <2>1, <2>2 DEF InnerDowns, Misses
<1>6. ASSUME NEW c \in Conds, c = cond[t], Rouses(t, c) PROVE InnerDowns(t)
  <2>1. pc[t] = "s_pick" /\ pc[t] \in Marks /\ \A d \in Conds \ {c} : Dozers(d)' = Dozers(d)
    BY <1>6 DEF Rouses, Sleeping, Marks
  <2>2. \A u \in Threads, d \in Conds :
          (Down(u, d) <=> u \in Dozers(d)) /\ (Down(u, d)' <=> u \in Dozers(d)')
    BY <1>1, <1>2, <1>3, <2>1 DEF Down
  <2>3. CASE Dozers(c) = {}
    <3>1. Dozers(c)' = {}
      BY <1>6, <2>3 DEF Rouses
    <3>2. DownsStay /\ Misses(t)
      BY <1>6, <2>1, <2>2, <2>3, <3>1 DEF DownsStay, Misses
    <3>. QED  BY <2>1, <3>2 DEF InnerDowns
  <2>4. CASE Dozers(c) # {}
    <3>1. PICK x \in Dozers(c) : Dozers(c)' = Dozers(c) \ {x}
      BY <1>6, <2>4 DEF Rouses
    <3>2. x \in Threads
      BY DEF Dozers
    <3>3. \A d \in Conds : x \in Dozers(d) => d = c
      BY <3>1, <3>2, DozerFacts
    <3>4. Wakes(x)
      BY <2>1, <2>2, <3>1, <3>2, <3>3 DEF Wakes
    <3>. QED  BY <1>6, <2>1, <2>2, <3>1, <3>2, <3>4 DEF InnerDowns
  <2>. QED  BY <2>3, <2>4
<1>7. ASSUME NEW c \in Conds, c = cond[t], RousesAll(t, c) PROVE InnerDowns(t)
  <2>1. pc[t] = "b_first" /\ pc[t] \in Marks /\ Dozers(c)' = {}
        /\ \A d \in Conds \ {c} : Dozers(d)' = Dozers(d)
    BY <1>7 DEF RousesAll, Sleeping, Marks
  <2>2. \A u \in Threads, d \in Conds :
          (Down(u, d) <=> u \in Dozers(d)) /\ (Down(u, d)' <=> u \in Dozers(d)')
    BY <1>1, <1>2, <1>3, <2>1 DEF Down
  <2>3. WakesAll(c)
    BY <2>1, <2>2 DEF WakesAll
  <2>. QED  BY <1>7, <2>1, <2>3 DEF InnerDowns
<1>. QED  BY <1>4, <1>5, <1>6, <1>7 DEF Inner

\* Between two calls nobody is roused, and a thread lies down by its own wait.
LEMMA OuterDowns ==
  ASSUME IInv, NEW t \in Threads, pc[t] = "idle", Outer(t)
  PROVE  /\ \A c \in Conds : ~ Down(t, c)
         /\ pc'[t] # "w_enq" => DownsStay
         /\ pc'[t] = "w_enq" =>
              \A u \in Threads, c \in Conds :
                Down(u, c)' <=> Down(u, c) \/ (u = t /\ cond'[t] = c)
<1>1. /\ \A u \in Threads \ {t} : pc'[u] = pc[u] /\ cond'[u] = cond[u]
      /\ \A c \in Conds : Dozers(c)' = Dozers(c)
  BY DEF Outer, Apart, Sleeping
<1>2. \A c \in Conds : ~ Down(t, c)
  BY DozerFacts DEF Down
<1>3. ASSUME pc'[t] # "w_enq" PROVE DownsStay
  BY <1>1, <1>3 DEF DownsStay, Down
<1>4. ASSUME pc'[t] = "w_enq", NEW u \in Threads, NEW c \in Conds
      PROVE  Down(u, c)' <=> Down(u, c) \/ (u = t /\ cond'[t] = c)
  BY <1>1, <1>4 DEF Down
<1>. QED  BY <1>2, <1>3, <1>4

---------------------------------------------------------------------------
\* signal.c

\* Only producers and consumers wait, at their test, for what each needs.
SignalBeds ==
  \A t \in Threads, c \in Conds : Down(t, c) =>
    /\ at[t] = "test" /\ t \in Producers \cup Consumers
    /\ c = IF t \in Producers THEN CondB ELSE CondA

\* Main creates the threads once, and marks the end when the producers ended.
MainOrder ==
  /\ at[Main] \in {"lock", "create"} => \A t \in Producers \cup Consumers : at[t] = "new"
  /\ at[Main] \in {"relock", "mark", "tell", "leave", "collect", "end"} =>
       \A t \in Producers : at[t] = "end"

\* The stock, and what a thread knows of it that has tested it.
Stocked ==
  /\ \/ stock \in 0..load.room
     \/ stock = EndMark /\ at[Main] \in {"tell", "leave", "collect", "end"}
  /\ \A t \in Consumers : at[t] = "take" => stock \notin {0, EndMark}
  /\ \A t \in Threads : at[t] = "tell" => stock = EndMark

\* A producer that is not at its end has a turn left.
Turns ==
  \A t \in Producers :
    /\ left[t] \in Nat
    /\ load.iter = 0 => left[t] = 0 /\ at[t] \in {"new", "lock", "end"}
    /\ load.iter > 0 /\ at[t] # "end" => left[t] > 0

\* Those of some threads that will look at the stock before they are at a label
\* of `past`, without a signal.
Fresh(threads, past) == {t \in threads : ~ Gone(t) /\ at[t] \notin past}

\* A signal to c that has been decided upon and has not yet picked a thread.
Owes(t, c) ==
  \/ pc[t] = "s_pick" /\ cond[t] = c
  \/ c = CondA /\ at[t] = "tell"
  \/ c = CondA /\ at[t] = "signal" /\ t \in Producers
  \/ c = CondB /\ at[t] = "signal" /\ t \in Consumers
Due(c) == IF \E t \in Threads : Owes(t, c) THEN 1 ELSE 0

\* What there is to do for consumers, the end mark being for one of them, and
\* for producers.
Work == IF stock = EndMark THEN 1 ELSE stock
Vacant == load.room - stock

\* While some sleep there is no more work than threads that will come for it.
Attending(work, threads, past, c) ==
  Lying(threads) # {} => work <= Cardinality(Fresh(threads, past)) + Due(c)
Attended ==
  /\ Attending(Work, Consumers, {"leave", "end"}, CondA)
  /\ Attending(Vacant, Producers, {"signal", "unlock", "end"}, CondB)

SignalInv ==
  /\ Guarded /\ SignalBeds /\ MainOrder /\ Stocked /\ Turns /\ Attended

LEMMA LoadFacts ==
  ASSUME load \in Loads
  PROVE  load.iter \in Nat /\ load.room \in Nat /\ EndMark \in Nat /\ load.room < EndMark
BY LoadsAssumption, WordAssumption DEF EndMark

\* A step between two calls of signal.c.
Proceeds(t) == load \in Loads /\ load' = load /\ ProgramStep(t)
Selling(t) == Proceeds(t) /\ load.program = "signal"

LEMMA SignalRoles ==
  ASSUME NEW t \in Threads, Selling(t)
  PROVE  /\ pc[t] = "idle"
         /\ \/ t \in Producers /\ ProducerStep(t) /\ t \notin Consumers /\ t # Main
            \/ t \in Consumers /\ ConsumerStep(t) /\ t \notin Producers /\ t # Main
            \/ t = Main /\ SignalMainStep(t) /\ t \notin Producers \cup Consumers
BY RolesAssumption
   DEF Selling, Proceeds, ProgramStep, ProducerStep, ConsumerStep, SignalMainStep,
       Skips, From, Creates, Joins

LEMMA SignalFrame ==
  ASSUME IInv, Guarded, MainOrder, NEW t \in Threads, Selling(t)
  PROVE  /\ Outer(t) /\ Creating(t) /\ Orderly(t)
         /\ left' = [u \in Threads |-> left'[u]]
<1>1. /\ pc[t] = "idle" /\ CondA \in Conds /\ CondB \in Conds
      /\ at = [u \in Threads |-> at[u]] /\ left = [u \in Threads |-> left[u]]
  BY SignalRoles, LockAssumption DEF Guarded, Shaped
<1>2. CASE ProducerStep(t)
  BY <1>1, <1>2, CallsSeen
     DEF ProducerStep, Skips, From, Turned, Again, Orderly, Creating, Takes, Gives, Posts, Idles,
         Section, Bound, Marks
<1>3. CASE ConsumerStep(t)
  BY <1>1, <1>3, CallsSeen
     DEF ConsumerStep, From, Orderly, Creating, Takes, Gives, Posts, Idles, Section, Bound, Marks
<1>4. CASE t = Main /\ SignalMainStep(t)
  BY <1>1, <1>4, CallsSeen
     DEF SignalMainStep, From, Creates, Joins, MainOrder, Orderly, Creating, Takes, Gives, Posts,
         Idles, Section, Bound, Marks
<1>. QED  BY <1>2, <1>3, <1>4, SignalRoles

LEMMA SignalBedsKept ==
  ASSUME IInv, Guarded, MainOrder, SignalBeds, NEW t \in Threads, Selling(t)
  PROVE  SignalBeds'
<1>1. /\ pc[t] = "idle" /\ CondA \in Conds /\ CondB \in Conds /\ Outer(t) /\ Creating(t)
      /\ at = [u \in Threads |-> at[u]]
  BY SignalRoles, SignalFrame, LockAssumption DEF Guarded, Shaped
<1>2. pc'[t] = "w_enq" => /\ at'[t] = "test" /\ t \in Producers \cup Consumers
                          /\ cond'[t] = IF t \in Producers THEN CondB ELSE CondA
  <2>1. CASE t \in Producers /\ ProducerStep(t)
    BY <1>1, <2>1, CallsSeen
       DEF ProducerStep, Skips, From, Takes, Gives, Posts, Idles, Marks
  <2>2. CASE t \in Consumers /\ ConsumerStep(t) /\ t \notin Producers
    BY <1>1, <2>2, CallsSeen DEF ConsumerStep, From, Takes, Gives, Posts, Idles, Marks
  <2>3. CASE t = Main /\ SignalMainStep(t)
    BY <1>1, <2>3, CallsSeen
       DEF SignalMainStep, From, Creates, Joins, Takes, Gives, Posts, Idles, Marks
  <2>. QED  BY <2>1, <2>2, <2>3, SignalRoles
<1>3. ASSUME NEW u \in Threads, NEW c \in Conds, Down(u, c)'
      PROVE  /\ at'[u] = "test" /\ u \in Producers \cup Consumers
             /\ c = IF u \in Producers THEN CondB ELSE CondA
  <2>1. CASE Down(u, c)
    <3>1. u # t /\ at[u] = "test"
      BY <1>1, <2>1, OuterDowns DEF SignalBeds
    <3>2. at'[u] = at[u]
      BY <1>1, <3>1 DEF Creating
    <3>. QED  BY <2>1, <3>1, <3>2 DEF SignalBeds
  <2>2. CASE ~ Down(u, c)
    <3>1. u = t /\ pc'[t] = "w_enq" /\ cond'[t] = c
      BY <1>1, <1>3, <2>2, OuterDowns DEF DownsStay
    <3>. QED  BY <1>2, <3>1
  <2>. QED  BY <2>1, <2>2
<1>. QED  BY <1>3 DEF SignalBeds

LEMMA MainOrderKept ==
  ASSUME IInv, Guarded, MainOrder, NEW t \in Threads, Selling(t)
  PROVE  MainOrder'
<1>1. /\ pc[t] = "idle" /\ Creating(t) /\ at = [u \in Threads |-> at[u]]
      /\ Main \in Threads /\ Main \notin Producers \cup Consumers
      /\ Producers \subseteq Threads /\ Consumers \subseteq Threads
  BY SignalRoles, SignalFrame, RolesAssumption DEF Guarded, Shaped
<1>2. CASE t \in Producers /\ ProducerStep(t)
  BY <1>1, <1>2 DEF ProducerStep, Skips, From, MainOrder
<1>3. CASE t \in Consumers /\ ConsumerStep(t) /\ t \notin Producers
  BY <1>1, <1>3 DEF ConsumerStep, From, MainOrder
<1>4. CASE t = Main /\ SignalMainStep(t)
  BY <1>1, <1>4 DEF SignalMainStep, From, Creates, Joins, MainOrder
<1>. QED  BY <1>2, <1>3, <1>4, SignalRoles

LEMMA TurnsKept ==
  ASSUME IInv, Guarded, MainOrder, Turns, NEW t \in Threads, Selling(t)
  PROVE  Turns'
<1>1. /\ pc[t] = "idle" /\ Creating(t) /\ at = [u \in Threads |-> at[u]]
      /\ left = [u \in Threads |-> left[u]] /\ Producers \subseteq Threads
      /\ load' = load /\ load.iter \in Nat /\ CondA \in Conds /\ CondB \in Conds
  BY SignalRoles, SignalFrame, LockAssumption, RolesAssumption, LoadFacts
      DEF Guarded, Shaped, Selling, Proceeds
<1>2. CASE t \in Producers /\ ProducerStep(t)
  <2>1. \A u \in Producers \ {t} : at'[u] = at[u] /\ left'[u] = left[u]
    BY <1>1, <1>2, CallsSeen
       DEF ProducerStep, Skips, From, Turned, Takes, WaitsOn, Signals
  <2>2. \/ left'[t] = left[t] /\ at[t] = "lock" /\ left[t] = 0 /\ at'[t] = "end"
        \/ left'[t] = left[t] /\ at[t] = "lock" /\ left[t] > 0 /\ at'[t] # "end"
        \/ left'[t] = left[t] /\ at[t] \in {"test", "signal"} /\ at'[t] # "end"
        \/ at[t] = "unlock" /\ left'[t] = left[t] - 1 /\ at'[t] = Again(t, "lock")
    BY <1>1, <1>2, CallsSeen
       DEF ProducerStep, Skips, From, Turned, Takes, WaitsOn, Signals
  <2>. QED  BY <1>1, <1>2, <2>1, <2>2 DEF Turns, Again
<1>3. CASE left' = left /\ \A u \in Producers : at'[u] = at[u] \/ (at[u] = "new" /\ at'[u] = "lock")
  BY <1>1, <1>3 DEF Turns
<1>4. CASE t \in Consumers /\ ConsumerStep(t) /\ t \notin Producers
  <2>1. left' = left
    BY <1>1, <1>4, CallsSeen DEF ConsumerStep, From, Takes
  <2>. QED  BY <1>1, <1>3, <1>4, <2>1 DEF Creating
<1>5. CASE t = Main /\ SignalMainStep(t) /\ t \notin Producers
  <2>1. left' = left
    BY <1>1, <1>5, CallsSeen DEF SignalMainStep, From, Creates, Joins, Takes
  <2>. QED  BY <1>1, <1>3, <1>5, <2>1 DEF Creating
<1>. QED  BY <1>2, <1>4, <1>5, SignalRoles

\* What each does to the stock.
LEMMA ProducerStock ==
  ASSUME IInv, Guarded, NEW t \in Threads, pc[t] = "idle", ProducerStep(t)
  PROVE  \/ stock' = stock /\ at'[t] \in {"lock", "test", "unlock", "end"}
         \/ /\ at[t] = "test" /\ stock < load.room /\ stock' = stock + 1
            /\ at'[t] = "signal" /\ UNCHANGED vars
BY CallsSeen, LockAssumption
   DEF Guarded, Shaped, ProducerStep, Skips, From, Again, Takes, Gives, shared

LEMMA ConsumerStock ==
  ASSUME IInv, Guarded, NEW t \in Threads, pc[t] = "idle", ConsumerStep(t)
  PROVE  \/ /\ stock' = stock
            /\ at'[t] = "take" => stock \notin {0, EndMark}
            /\ at'[t] = "tell" => stock = EndMark
         \/ /\ at[t] = "take" /\ stock' = (stock - 1) % Word
            /\ at'[t] = "signal" /\ UNCHANGED vars
BY CallsSeen, LockAssumption DEF Guarded, Shaped, ConsumerStep, From, Takes, Gives, shared

LEMMA MainStock ==
  ASSUME IInv, Guarded, NEW t \in Threads, pc[t] = "idle", SignalMainStep(t)
  PROVE  \/ /\ stock' = stock /\ at'[t] \notin {"take", "tell"}
            /\ at[t] \in {"tell", "leave", "collect", "end"} =>
                 at'[t] \in {"leave", "collect", "end"}
         \/ at[t] = "mark" /\ stock' = EndMark /\ at'[t] = "tell" /\ UNCHANGED vars
BY CallsSeen, LockAssumption
   DEF Guarded, Shaped, SignalMainStep, From, Creates, Joins, Takes, Gives, shared

\* One item less, without wrapping.
LEMMA OneLess ==
  ASSUME load \in Loads, NEW s \in 1..load.room
  PROVE  (s - 1) % Word = s - 1
<1>1. Word \in Nat /\ load.room \in Nat /\ load.room < Word - 1
  BY LoadsAssumption, WordAssumption
<1>2. Word > 0 /\ s - 1 \in 0..(Word - 1)
  BY <1>1
<1>. QED  BY <1>1, <1>2

LEMMA StockedKept ==
  ASSUME IInv, Guarded, MainOrder, Stocked, NEW t \in Threads, Selling(t)
  PROVE  Stocked'
<1>1. /\ pc[t] = "idle" /\ Creating(t) /\ load' = load /\ load \in Loads
      /\ Main \in Threads /\ Main \notin Producers \cup Consumers
      /\ Producers \subseteq Threads /\ Consumers \subseteq Threads
  BY SignalRoles, SignalFrame, RolesAssumption DEF Selling, Proceeds
<1>2. load.room \in Nat /\ EndMark \in Nat /\ load.room < EndMark /\ EndMark' = EndMark
  BY <1>1, LoadFacts DEF EndMark
<1>3. \A u \in Threads \ {t} : at'[u] = at[u] \/ (at[u] = "new" /\ at'[u] = "lock")
  BY <1>1 DEF Creating
\* A thread that changes the stock is alone between its lock and its unlock.
<1>4. ASSUME at[t] \in Section, NEW u \in Threads \ {t} PROVE at'[u] \notin Bound
  BY <1>1, <1>3, <1>4, Lonely DEF Bound
<1>5. CASE /\ stock' = stock /\ (at'[t] = "take" => stock \notin {0, EndMark})
           /\ (at'[t] = "tell" => stock = EndMark)
           /\ t # Main \/ (at[t] \in {"tell", "leave", "collect", "end"}
                             => at'[t] \in {"leave", "collect", "end"})
  <2>1. \A u \in Threads : at'[u] = "tell" => stock = EndMark
    BY <1>3, <1>5 DEF Stocked
  <2>2. \A u \in Consumers : at'[u] = "take" => stock \notin {0, EndMark}
    BY <1>1, <1>3, <1>5 DEF Stocked
  <2>3. stock \in 0..load.room
        \/ (stock = EndMark /\ at'[Main] \in {"tell", "leave", "collect", "end"})
    BY <1>1, <1>3, <1>5 DEF Stocked
  <2>. QED  BY <1>1, <1>2, <1>5, <2>1, <2>2, <2>3 DEF Stocked
<1>6. CASE t \in Producers /\ t # Main /\ ProducerStep(t) /\ t \notin Consumers
  <2>1. CASE /\ at[t] = "test" /\ stock < load.room /\ stock' = stock + 1 /\ at'[t] = "signal"
    <3>1. stock \in 0..load.room /\ stock' \in 0..load.room
      BY <1>2, <2>1 DEF Stocked
    <3>2. \A u \in Threads : at'[u] \notin {"take", "tell"}
      BY <1>4, <2>1 DEF Section, Bound
    <3>. QED  BY <1>1, <1>2, <3>1, <3>2 DEF Stocked
  <2>. QED  BY <1>1, <1>5, <1>6, <2>1, ProducerStock
<1>7. CASE t \in Consumers /\ t # Main /\ ConsumerStep(t)
  <2>1. CASE at[t] = "take" /\ stock' = (stock - 1) % Word /\ at'[t] = "signal"
    <3>1. stock \in 1..load.room
      BY <1>2, <1>7, <2>1 DEF Stocked
    <3>2. stock' \in 0..load.room
      <4>1. PICK s \in 1..load.room : s = stock
        BY <3>1
      <4>2. stock' = s - 1
        BY <1>1, <2>1, <4>1, OneLess
      <4>. QED  BY <1>2, <4>1, <4>2
    <3>3. \A u \in Threads : at'[u] \notin {"take", "tell"}
      BY <1>4, <2>1 DEF Section, Bound
    <3>. QED  BY <1>1, <1>2, <3>2, <3>3 DEF Stocked
  <2>. QED  BY <1>1, <1>5, <1>7, <2>1, ConsumerStock
<1>8. CASE t = Main /\ SignalMainStep(t)
  <2>1. CASE at[t] = "mark" /\ stock' = EndMark /\ at'[t] = "tell"
    <3>1. \A u \in Threads \ {t} : at'[u] \notin {"take", "tell"}
      BY <1>4, <2>1 DEF Section, Bound
    <3>. QED  BY <1>1, <1>2, <1>8, <2>1, <3>1 DEF Stocked
  <2>. QED  BY <1>1, <1>5, <1>8, <2>1, MainStock
<1>. QED  BY <1>6, <1>7, <1>8, SignalRoles

LEMMA DueFacts ==
  ASSUME NEW c
  PROVE  /\ Due(c) \in {0, 1} /\ Due(c)' \in {0, 1}
         /\ Due(c) = 1 <=> \E u \in Threads : Owes(u, c)
         /\ Due(c)' = 1 <=> \E u \in Threads : Owes(u, c)'
BY DEF Due

LEMMA FreshFinite ==
  ASSUME NEW S \in SUBSET Threads, NEW L
  PROVE  /\ IsFiniteSet(Fresh(S, L)) /\ Cardinality(Fresh(S, L)) \in Nat
         /\ IsFiniteSet(Fresh(S, L)') /\ Cardinality(Fresh(S, L)') \in Nat
<1>1. IsFiniteSet(S)
  BY ThreadsAssumption, FS_Subset DEF Threads
<1>2. Fresh(S, L) \subseteq S /\ Fresh(S, L)' \subseteq S
  BY DEF Fresh
<1>. QED  BY <1>1, <1>2, FS_Subset, FS_CardinalityType

\* While nobody lies, or a signal is due for all the work, enough attend.
LEMMA AttendEasily ==
  ASSUME NEW S \in SUBSET Threads, NEW L, NEW c, NEW v \in Int,
         v <= Due(c)' \/ \A u \in S : ~ Gone(u)'
  PROVE  Attending(v, S, L, c)'
<1>1. Cardinality(Fresh(S, L)') \in Nat /\ Due(c)' \in {0, 1}
  BY FreshFinite, DueFacts
<1>. QED  BY <1>1 DEF Attending, Lying

\* The work grows by no more than the signals that are due.
LEMMA AttendOn ==
  ASSUME NEW S \in SUBSET Threads, NEW L, NEW c, NEW w \in Int, NEW v \in Int,
         Attending(w, S, L, c), v + Due(c) <= w + Due(c)',
         \A u \in S : Gone(u)' => Gone(u),
         \A u \in S : at[u] \notin L => at'[u] \notin L
  PROVE  Attending(v, S, L, c)'
<1>1. Cardinality(Fresh(S, L)') \in Nat /\ Due(c)' \in {0, 1} /\ Due(c) \in {0, 1}
      /\ Cardinality(Fresh(S, L)) \in Nat /\ IsFiniteSet(Fresh(S, L)')
  BY FreshFinite, DueFacts
<1>2. Fresh(S, L) \subseteq Fresh(S, L)'
  BY DEF Fresh
<1>3. Cardinality(Fresh(S, L)) <= Cardinality(Fresh(S, L)')
  BY <1>1, <1>2, FS_Subset
<1>4. Lying(S)' # {} => Lying(S) # {}
  BY DEF Lying
<1>. QED  BY <1>1, <1>3, <1>4 DEF Attending

\* The thread of the step has done one piece of it.
LEMMA AttendLess ==
  ASSUME NEW S \in SUBSET Threads, NEW L, NEW c, NEW w \in Int, NEW v \in Int, NEW t \in S,
         Attending(w, S, L, c), v + Due(c) + 1 <= w + Due(c)',
         \A u \in S : Gone(u)' => Gone(u),
         \A u \in S \ {t} : at[u] \notin L => at'[u] \notin L
  PROVE  Attending(v, S, L, c)'
<1>1. /\ Cardinality(Fresh(S, L)') \in Nat /\ Due(c)' \in {0, 1} /\ Due(c) \in {0, 1}
      /\ Cardinality(Fresh(S, L)) \in Nat /\ IsFiniteSet(Fresh(S, L)') /\ IsFiniteSet(Fresh(S, L))
  BY FreshFinite, DueFacts
<1>2. Fresh(S, L) \ {t} \subseteq Fresh(S, L)'
  BY DEF Fresh
<1>3. /\ Cardinality(Fresh(S, L) \ {t}) >= Cardinality(Fresh(S, L)) - 1
      /\ Cardinality(Fresh(S, L) \ {t}) \in Nat
  <2>1. CASE t \in Fresh(S, L)
    <3>1. /\ IsFiniteSet(Fresh(S, L) \ {t})
          /\ Cardinality(Fresh(S, L) \ {t}) = Cardinality(Fresh(S, L)) - 1
      BY <1>1, <2>1, FS_RemoveElement
    <3>. QED  BY <1>1, <3>1, FS_CardinalityType
  <2>2. CASE t \notin Fresh(S, L)
    <3>1. Fresh(S, L) \ {t} = Fresh(S, L)
      BY <2>2
    <3>. QED  BY <1>1, <3>1
  <2>. QED  BY <2>1, <2>2
<1>4. Cardinality(Fresh(S, L) \ {t}) <= Cardinality(Fresh(S, L)')
  BY <1>1, <1>2, FS_Subset
<1>5. Lying(S)' # {} => Lying(S) # {}
  BY DEF Lying
<1>. QED  BY <1>1, <1>3, <1>4, <1>5 DEF Attending

\* A thread that was roused takes the place of the signal.
LEMMA AttendRoused ==
  ASSUME NEW S \in SUBSET Threads, NEW L, NEW c, NEW w \in Int, NEW x \in S,
         Attending(w, S, L, c), Gone(x), ~ Gone(x)', at[x] \notin L,
         \A u \in S : Gone(u)' => Gone(u),
         \A u \in S : at'[u] = at[u]
  PROVE  Attending(w, S, L, c)'
<1>1. /\ Cardinality(Fresh(S, L)') \in Nat /\ Due(c)' \in {0, 1} /\ Due(c) \in {0, 1}
      /\ Cardinality(Fresh(S, L)) \in Nat /\ IsFiniteSet(Fresh(S, L)') /\ IsFiniteSet(Fresh(S, L))
  BY FreshFinite, DueFacts
<1>2. Fresh(S, L) \cup {x} \subseteq Fresh(S, L)' /\ x \notin Fresh(S, L)
  BY DEF Fresh
<1>3. Cardinality(Fresh(S, L) \cup {x}) = Cardinality(Fresh(S, L)) + 1
  BY <1>1, <1>2, FS_AddElement
<1>4. Cardinality(Fresh(S, L) \cup {x}) <= Cardinality(Fresh(S, L)')
  BY <1>1, <1>2, FS_Subset
<1>5. Lying(S)' # {} => Lying(S) # {}
  BY DEF Lying
<1>. QED  BY <1>1, <1>3, <1>4, <1>5 DEF Attending

\* The others owe what they owed; and nobody owes anything while a thread is
\* between its lock and its unlock, unless that thread does.
LEMMA OthersOwe ==
  ASSUME NEW t \in Threads, Apart(t), Creating(t), NEW u \in Threads \ {t}, NEW c
  PROVE  Owes(u, c)' <=> Owes(u, c)
BY DEF Apart, Creating, Owes

LEMMA NothingDue ==
  ASSUME IInv, Guarded, NEW t \in Threads, pc[t] = "idle",
         at[t] \in Section \ {"tell", "signal"}, NEW c
  PROVE  Due(c) = 0
<1>1. ASSUME NEW u \in Threads, Owes(u, c) PROVE FALSE
  <2>1. pc[u] \in Marks \/ at[u] \in Bound
    BY <1>1 DEF Owes, Marks, Bound
  <2>2. at[t] \in Section
    OBVIOUS
  <2>3. u = t
    BY <2>1, <2>2, Lonely
  <2>. QED  BY <1>1, <2>3 DEF Owes
<1>. QED  BY <1>1, DueFacts

\* What each does, as far as it matters for those who attend.
ProducerDeeds(t) ==
  \/ at[t] = "lock" /\ at'[t] = "end" /\ left[t] = 0 /\ stock' = stock /\ pc'[t] = "idle"
  \/ at[t] = "test" /\ at'[t] = "test" /\ stock >= load.room /\ stock' = stock /\ pc'[t] = "w_enq"
  \/ /\ at[t] = "test" /\ at'[t] = "signal" /\ stock < load.room /\ stock' = stock + 1
     /\ pc'[t] = "idle"
  \/ /\ (at[t] = "lock" /\ at'[t] = "test") \/ at[t] \in {"signal", "unlock"}
     /\ at[t] = "signal" => pc'[t] = "s_pick" /\ cond'[t] = CondA
     /\ stock' = stock /\ pc'[t] # "w_enq"

ConsumerDeeds(t) ==
  \/ at[t] = "test" /\ at'[t] = "test" /\ stock = 0 /\ stock' = stock /\ pc'[t] = "w_enq"
  \/ /\ at[t] = "take" /\ at'[t] = "signal" /\ stock' = (stock - 1) % Word
     /\ pc'[t] = "idle"
  \/ /\ at[t] = "tell" /\ at'[t] = "leave" /\ stock' = stock
     /\ pc'[t] = "s_pick" /\ cond'[t] = CondA
  \/ /\ at[t] # "tell" /\ (at[t] = "leave" \/ at'[t] \notin {"leave", "end"})
     /\ at[t] = "signal" => pc'[t] = "s_pick" /\ cond'[t] = CondB
     /\ stock' = stock /\ pc'[t] # "w_enq"

MainDeeds(t) ==
  \/ at[t] = "mark" /\ at'[t] = "tell" /\ stock' = EndMark /\ pc'[t] = "idle"
  \/ /\ at[t] = "tell" => pc'[t] = "s_pick" /\ cond'[t] = CondA
     /\ stock' = stock /\ pc'[t] # "w_enq"

LEMMA DeedsAre ==
  ASSUME IInv, Guarded, NEW t \in Threads, pc[t] = "idle"
  PROVE  /\ ProducerStep(t) => ProducerDeeds(t)
         /\ ConsumerStep(t) => ConsumerDeeds(t)
         /\ SignalMainStep(t) => MainDeeds(t)
<1>1. CondA \in Conds /\ CondB \in Conds /\ at = [u \in Threads |-> at[u]]
  BY LockAssumption DEF Guarded, Shaped
<1>2. ASSUME ProducerStep(t) PROVE ProducerDeeds(t)
  BY <1>1, <1>2, CallsSeen
     DEF ProducerStep, ProducerDeeds, Skips, From, Again, Takes, Gives, Posts, Idles, Marks, shared
<1>3. ASSUME ConsumerStep(t) PROVE ConsumerDeeds(t)
  BY <1>1, <1>3, CallsSeen
     DEF ConsumerStep, ConsumerDeeds, From, Takes, Gives, Posts, Idles, Marks, shared
<1>4. ASSUME SignalMainStep(t) PROVE MainDeeds(t)
  BY <1>1, <1>4, CallsSeen
     DEF SignalMainStep, MainDeeds, From, Creates, Joins, Takes, Gives, Posts, Idles, Marks, shared
<1>. QED  BY <1>2, <1>3, <1>4

\* What the proofs below know of a step.
Bargain(t) ==
  /\ pc[t] = "idle" /\ Outer(t) /\ Apart(t) /\ Creating(t)
  /\ load \in Loads /\ load' = load /\ EndMark' = EndMark
  /\ load.room \in Nat /\ EndMark \in Nat /\ load.room < EndMark
  /\ Work \in Nat /\ Vacant \in Int /\ stock \in Nat
  /\ \A u \in Threads : Gone(u)' => Gone(u) \/ (u = t /\ pc'[t] = "w_enq")
  /\ \A u \in Threads \ {t} : at'[u] = at[u] \/ (at[u] = "new" /\ at'[u] = "lock")
  /\ \A u \in Threads \ {t}, c \in Conds : Owes(u, c)' <=> Owes(u, c)
  /\ CondA \in Conds /\ CondB \in Conds /\ CondA # CondB
  /\ Producers \in SUBSET Threads /\ Consumers \in SUBSET Threads

LEMMA Bargains ==
  ASSUME IInv, Guarded, MainOrder, Stocked, NEW t \in Threads, Selling(t)
  PROVE  Bargain(t)
<1>1. /\ pc[t] = "idle" /\ Outer(t) /\ Apart(t) /\ Creating(t)
      /\ load \in Loads /\ load' = load /\ EndMark' = EndMark
  BY SignalRoles, SignalFrame DEF Selling, Proceeds, Outer, EndMark
<1>2. load.room \in Nat /\ EndMark \in Nat /\ load.room < EndMark
  BY <1>1, LoadFacts
<1>3. stock \in Nat
  BY <1>2 DEF Stocked
<1>4. Work \in Nat /\ Vacant \in Int
  BY <1>2, <1>3 DEF Work, Vacant
<1>5. \A u \in Threads : Gone(u)' => Gone(u) \/ (u = t /\ pc'[t] = "w_enq")
  BY <1>1, OuterDowns DEF Gone, DownsStay
<1>6. \A u \in Threads \ {t} : at'[u] = at[u] \/ (at[u] = "new" /\ at'[u] = "lock")
  BY <1>1 DEF Creating
<1>7. \A u \in Threads \ {t}, c \in Conds : Owes(u, c)' <=> Owes(u, c)
  BY <1>1, OthersOwe
<1>. QED  BY <1>1, <1>2, <1>3, <1>4, <1>5, <1>6, <1>7, LockAssumption, RolesAssumption DEF Bargain

\* A signal that was due is still due when its sender has begun its call.
LEMMA DueStays ==
  ASSUME NEW t \in Threads, Bargain(t), NEW c \in Conds, Owes(t, c) => Owes(t, c)'
  PROVE  Due(c) <= Due(c)'
<1>1. ASSUME NEW u \in Threads, Owes(u, c) PROVE Owes(u, c)'
  BY <1>1 DEF Bargain
<1>. QED  BY <1>1, DueFacts

LEMMA ProducerAttended ==
  ASSUME IInv, Guarded, MainOrder, Stocked, Turns, Turns', SignalBeds, SignalBeds', Attended,
         NEW t \in Producers, t \notin Consumers, ProducerDeeds(t), Bargain(t)
  PROVE  Attended'
<1>1. PICK w \in Nat, v \in Int : w = Work /\ v = Vacant
  BY DEF Bargain
<1>2. /\ Attending(w, Consumers, {"leave", "end"}, CondA)
      /\ Attending(v, Producers, {"signal", "unlock", "end"}, CondB)
  BY <1>1 DEF Attended
<1>3. /\ Due(CondA) \in {0, 1} /\ Due(CondB) \in {0, 1}
      /\ Due(CondA)' \in {0, 1} /\ Due(CondB)' \in {0, 1}
  BY DueFacts
<1>4. /\ \A u \in Consumers : Gone(u)' => Gone(u)
      /\ \A u \in Consumers : at[u] \notin {"leave", "end"} => at'[u] \notin {"leave", "end"}
  BY DEF Bargain
<1>5. t \in Threads /\ ~ Owes(t, CondB)
  BY DEF Bargain, Owes, ProducerDeeds
<1>6. SUFFICES ASSUME TRUE
               PROVE  /\ Attending(Work, Consumers, {"leave", "end"}, CondA)'
                      /\ Attending(Vacant, Producers, {"signal", "unlock", "end"}, CondB)'
  BY DEF Attended
<1>7. CASE /\ at[t] = "test" /\ at'[t] = "signal" /\ stock < load.room /\ stock' = stock + 1
           /\ pc'[t] = "idle"
  <2>1. Due(CondA) = 0 /\ Due(CondB) = 0
    BY <1>5, <1>7, NothingDue DEF Bargain, Section
  <2>2. Due(CondA)' = 1
    BY <1>5, <1>7, DueFacts DEF Owes
  <2>3. Work' = w + 1 /\ Vacant' = v - 1
    BY <1>1, <1>7 DEF Bargain, Work, Vacant
  <2>4. Attending(w + 1, Consumers, {"leave", "end"}, CondA)'
    BY <1>2, <1>4, <2>1, <2>2, AttendOn DEF Bargain
  <2>5. Attending(v - 1, Producers, {"signal", "unlock", "end"}, CondB)'
    <3>1. \A u \in Producers : Gone(u)' => Gone(u)
      BY <1>7 DEF Bargain
    <3>2. \A u \in Producers \ {t} : at[u] \notin {"signal", "unlock", "end"}
                                       => at'[u] \notin {"signal", "unlock", "end"}
      BY DEF Bargain
    <3>3. (v - 1) + Due(CondB) + 1 <= v + Due(CondB)' /\ v - 1 \in Int
      BY <1>3, <2>1
    <3>. QED  BY <1>2, <3>1, <3>2, <3>3, AttendLess DEF Bargain
  <2>. QED  BY <2>3, <2>4, <2>5 DEF Attending
<1>8. CASE stock' = stock
  <2>1. Work' = w /\ Vacant' = v
    BY <1>1, <1>8 DEF Bargain, Work, Vacant
  <2>2. Owes(t, CondA) => Owes(t, CondA)'
    BY DEF ProducerDeeds, Bargain, Owes
  <2>3. Due(CondA) <= Due(CondA)' /\ Due(CondB) <= Due(CondB)'
    BY <1>5, <2>2, DueStays DEF Bargain
  <2>4. Attending(w, Consumers, {"leave", "end"}, CondA)'
    <3>1. w + Due(CondA) <= w + Due(CondA)'
      BY <1>3, <2>3
    <3>. QED  BY <1>2, <1>4, <3>1, AttendOn DEF Bargain
  <2>5. Attending(v, Producers, {"signal", "unlock", "end"}, CondB)'
    <3>1. CASE at[t] = "lock" /\ at'[t] = "end" /\ left[t] = 0
      <4>1. load.iter = 0
        BY <3>1, LoadFacts DEF Turns, Bargain
      <4>2. \A u \in Producers : ~ Gone(u)'
        BY <4>1 DEF Turns, Bargain, SignalBeds, Gone
      <4>. QED  BY <4>2, AttendEasily DEF Bargain
    <3>2. CASE stock >= load.room
      <4>1. v <= 0
        BY <1>1, <3>2 DEF Bargain, Vacant
      <4>2. v <= Due(CondB)'
        BY <1>3, <4>1
      <4>. QED  BY <4>2, AttendEasily DEF Bargain
    <3>3. CASE /\ (at[t] = "lock" /\ at'[t] = "test") \/ at[t] \in {"signal", "unlock"}
               /\ pc'[t] # "w_enq"
      <4>1. \A u \in Producers : Gone(u)' => Gone(u)
        BY <3>3 DEF Bargain
      <4>2. \A u \in Producers : at[u] \notin {"signal", "unlock", "end"}
                                   => at'[u] \notin {"signal", "unlock", "end"}
        BY <3>3 DEF Bargain
      <4>3. v + Due(CondB) <= v + Due(CondB)'
        BY <1>3, <2>3
      <4>. QED  BY <1>2, <4>1, <4>2, <4>3, AttendOn DEF Bargain
    <3>. QED  BY <1>8, <3>1, <3>2, <3>3 DEF ProducerDeeds, Bargain
  <2>. QED  BY <2>1, <2>4, <2>5 DEF Attending
<1>. QED  BY <1>7, <1>8 DEF ProducerDeeds

LEMMA ConsumerAttended ==
  ASSUME IInv, Guarded, MainOrder, Stocked, Attended,
         NEW t \in Consumers, t \notin Producers, ConsumerDeeds(t), Bargain(t)
  PROVE  Attended'
<1>1. PICK w \in Nat, v \in Int : w = Work /\ v = Vacant
  BY DEF Bargain
<1>2. /\ Attending(w, Consumers, {"leave", "end"}, CondA)
      /\ Attending(v, Producers, {"signal", "unlock", "end"}, CondB)
  BY <1>1 DEF Attended
<1>3. /\ Due(CondA) \in {0, 1} /\ Due(CondB) \in {0, 1}
      /\ Due(CondA)' \in {0, 1} /\ Due(CondB)' \in {0, 1}
  BY DueFacts
<1>4. /\ \A u \in Producers : Gone(u)' => Gone(u)
      /\ \A u \in Producers : at[u] \notin {"signal", "unlock", "end"}
                                => at'[u] \notin {"signal", "unlock", "end"}
  BY DEF Bargain
<1>5. t \in Threads /\ CondA \in Conds /\ CondB \in Conds
  BY DEF Bargain
<1>6. SUFFICES ASSUME TRUE
               PROVE  /\ Attending(Work, Consumers, {"leave", "end"}, CondA)'
                      /\ Attending(Vacant, Producers, {"signal", "unlock", "end"}, CondB)'
  BY DEF Attended
<1>7. CASE at[t] = "take" /\ at'[t] = "signal" /\ stock' = (stock - 1) % Word /\ pc'[t] = "idle"
  <2>1. Due(CondA) = 0 /\ Due(CondB) = 0
    BY <1>5, <1>7, NothingDue DEF Bargain, Section
  <2>2. Due(CondB)' = 1
    BY <1>5, <1>7, DueFacts DEF Owes
  <2>3. stock \in 1..load.room
    BY <1>7 DEF Stocked, Bargain
  <2>4. stock' = stock - 1
    <3>1. PICK s \in 1..load.room : s = stock
      BY <2>3
    <3>. QED  BY <1>7, <3>1, OneLess DEF Bargain
  <2>5. Work' = w - 1 /\ Vacant' = v + 1
    BY <1>1, <2>3, <2>4 DEF Bargain, Work, Vacant
  <2>6. Attending(w - 1, Consumers, {"leave", "end"}, CondA)'
    <3>1. \A u \in Consumers : Gone(u)' => Gone(u)
      BY <1>7 DEF Bargain
    <3>2. \A u \in Consumers : at[u] \notin {"leave", "end"} => at'[u] \notin {"leave", "end"}
      BY <1>7 DEF Bargain
    <3>3. (w - 1) + Due(CondA) <= w + Due(CondA)' /\ w - 1 \in Int
      BY <1>3, <2>1
    <3>. QED  BY <1>2, <3>1, <3>2, <3>3, AttendOn DEF Bargain
  <2>7. Attending(v + 1, Producers, {"signal", "unlock", "end"}, CondB)'
    <3>1. (v + 1) + Due(CondB) <= v + Due(CondB)' /\ v + 1 \in Int
      BY <1>3, <2>1, <2>2
    <3>. QED  BY <1>2, <1>4, <3>1, AttendOn DEF Bargain
  <2>. QED  BY <2>5, <2>6, <2>7 DEF Attending
<1>8. CASE stock' = stock
  <2>1. Work' = w /\ Vacant' = v
    BY <1>1, <1>8 DEF Bargain, Work, Vacant
  <2>2. Owes(t, CondB) => Owes(t, CondB)'
    BY <1>8 DEF ConsumerDeeds, Bargain, Owes
  <2>3. Due(CondB) <= Due(CondB)'
    BY <1>5, <2>2, DueStays
  <2>4. Attending(v, Producers, {"signal", "unlock", "end"}, CondB)'
    <3>1. v + Due(CondB) <= v + Due(CondB)'
      BY <1>3, <2>3
    <3>. QED  BY <1>2, <1>4, <3>1, AttendOn DEF Bargain
  <2>5. Attending(w, Consumers, {"leave", "end"}, CondA)'
    <3>1. CASE stock = 0
      <4>1. w <= Due(CondA)'
        BY <1>1, <1>3, <3>1 DEF Bargain, Work
      <4>. QED  BY <4>1, AttendEasily DEF Bargain
    <3>2. CASE at[t] = "tell" /\ pc'[t] = "s_pick" /\ cond'[t] = CondA
      <4>1. w = 1
        BY <1>1, <1>5, <3>2 DEF Stocked, Work
      <4>2. Due(CondA)' = 1
        BY <1>5, <3>2, DueFacts DEF Owes
      <4>. QED  BY <4>1, <4>2, AttendEasily DEF Bargain
    <3>3. CASE /\ at[t] # "tell" /\ (at[t] = "leave" \/ at'[t] \notin {"leave", "end"})
               /\ pc'[t] # "w_enq"
      <4>1. \A u \in Consumers : Gone(u)' => Gone(u)
        BY <3>3 DEF Bargain
      <4>2. \A u \in Consumers : at[u] \notin {"leave", "end"} => at'[u] \notin {"leave", "end"}
        BY <3>3 DEF Bargain
      <4>3. ~ Owes(t, CondA)
        BY <3>3 DEF Bargain, Owes
      <4>4. Due(CondA) <= Due(CondA)'
        BY <1>5, <4>3, DueStays
      <4>5. w + Due(CondA) <= w + Due(CondA)'
        BY <1>3, <4>4
      <4>. QED  BY <1>2, <4>1, <4>2, <4>5, AttendOn DEF Bargain
    <3>. QED  BY <1>8, <3>1, <3>2, <3>3 DEF ConsumerDeeds
  <2>. QED  BY <2>1, <2>4, <2>5 DEF Attending
<1>. QED  BY <1>7, <1>8 DEF ConsumerDeeds

LEMMA MainAttended ==
  ASSUME IInv, Guarded, MainOrder, Stocked, Attended,
         NEW t \in Threads, t \notin Producers \cup Consumers, MainDeeds(t), Bargain(t)
  PROVE  Attended'
<1>1. PICK w \in Nat, v \in Int : w = Work /\ v = Vacant
  BY DEF Bargain
<1>2. /\ Attending(w, Consumers, {"leave", "end"}, CondA)
      /\ Attending(v, Producers, {"signal", "unlock", "end"}, CondB)
  BY <1>1 DEF Attended
<1>3. /\ Due(CondA) \in {0, 1} /\ Due(CondB) \in {0, 1}
      /\ Due(CondA)' \in {0, 1} /\ Due(CondB)' \in {0, 1}
  BY DueFacts
<1>4. /\ \A u \in Producers \cup Consumers : Gone(u)' => Gone(u)
      /\ \A u \in Producers : at[u] \notin {"signal", "unlock", "end"}
                                => at'[u] \notin {"signal", "unlock", "end"}
      /\ \A u \in Consumers : at[u] \notin {"leave", "end"} => at'[u] \notin {"leave", "end"}
  BY DEF Bargain
<1>5. CondA \in Conds /\ CondB \in Conds /\ ~ Owes(t, CondB)
  BY DEF Bargain, Owes
<1>6. SUFFICES ASSUME TRUE
               PROVE  /\ Attending(Work, Consumers, {"leave", "end"}, CondA)'
                      /\ Attending(Vacant, Producers, {"signal", "unlock", "end"}, CondB)'
  BY DEF Attended
<1>7. CASE at[t] = "mark" /\ at'[t] = "tell" /\ stock' = EndMark
  <2>1. Due(CondA)' = 1
    BY <1>7, DueFacts DEF Owes
  <2>2. Work' = 1
    BY <1>7 DEF Bargain, Work
  <2>3. PICK z \in Int : z = Vacant' /\ z <= 0
    BY <1>7 DEF Bargain, Vacant
  <2>4. Attending(1, Consumers, {"leave", "end"}, CondA)'
    BY <2>1, AttendEasily DEF Bargain
  <2>5. z <= Due(CondB)'
    BY <1>3, <2>3
  <2>6. Attending(z, Producers, {"signal", "unlock", "end"}, CondB)'
    BY <2>5, AttendEasily DEF Bargain
  <2>. QED  BY <2>2, <2>3, <2>4, <2>6 DEF Attending
<1>8. CASE stock' = stock /\ (at[t] = "tell" => pc'[t] = "s_pick" /\ cond'[t] = CondA)
  <2>1. Work' = w /\ Vacant' = v
    BY <1>1, <1>8 DEF Bargain, Work, Vacant
  <2>2. Owes(t, CondA) => Owes(t, CondA)'
    BY <1>8 DEF Bargain, Owes
  <2>3. Due(CondA) <= Due(CondA)' /\ Due(CondB) <= Due(CondB)'
    BY <1>5, <2>2, DueStays
  <2>4. w + Due(CondA) <= w + Due(CondA)' /\ v + Due(CondB) <= v + Due(CondB)'
    BY <1>3, <2>3
  <2>5. Attending(w, Consumers, {"leave", "end"}, CondA)'
    BY <1>2, <1>4, <2>4, AttendOn DEF Bargain
  <2>6. Attending(v, Producers, {"signal", "unlock", "end"}, CondB)'
    BY <1>2, <1>4, <2>4, AttendOn DEF Bargain
  <2>. QED  BY <2>1, <2>5, <2>6 DEF Attending
<1>. QED  BY <1>7, <1>8 DEF MainDeeds

\* Every step of signal.c between two calls.
LEMMA SignalOuterKeeps ==
  ASSUME IInv, SignalInv, NEW t \in Threads, Selling(t)
  PROVE  SignalInv'
<1>1. /\ pc[t] = "idle" /\ Creating(t) /\ Orderly(t) /\ left' = [u \in Threads |-> left'[u]]
  BY SignalRoles, SignalFrame DEF SignalInv
<1>2. Guarded'
  BY <1>1, GuardOuter DEF SignalInv
<1>3. SignalBeds' /\ MainOrder' /\ Stocked' /\ Turns'
  BY SignalBedsKept, MainOrderKept, StockedKept, TurnsKept DEF SignalInv
<1>4. Bargain(t)
  BY Bargains DEF SignalInv
<1>5. Attended'
  BY <1>1, <1>3, <1>4, SignalRoles, DeedsAre, ProducerAttended, ConsumerAttended, MainAttended
     DEF SignalInv
<1>. QED  BY <1>2, <1>3, <1>5 DEF SignalInv

\* And every step inside a call.
LEMMA SignalInnerKeeps ==
  ASSUME IInv, SignalInv, load \in Loads, NEW t \in Threads, Inner(t), UNCHANGED testVars
  PROVE  SignalInv'
<1>1. InnerDowns(t) /\ Guarded'
  BY InnerDownsAre, GuardInner DEF SignalInv
<1>2. /\ UNCHANGED <<load, at, left, stock>> /\ pc'[t] \notin Marks
      /\ \A u \in Threads \ {t} : pc'[u] = pc[u] /\ cond'[u] = cond[u]
      /\ Producers \in SUBSET Threads /\ Consumers \in SUBSET Threads
      /\ Producers \cap Consumers = {}
      /\ CondA \in Conds /\ CondB \in Conds /\ CondA # CondB
  BY LockAssumption, RolesAssumption DEF testVars, shared, Inner, Apart
<1>3. \A u \in Threads, c \in Conds : Down(u, c)' => Down(u, c)
  BY <1>1 DEF InnerDowns, DownsStay, Wakes, WakesAll
<1>4. SignalBeds'
  BY <1>2, <1>3 DEF SignalInv, SignalBeds
<1>5. MainOrder' /\ Stocked' /\ Turns' /\ EndMark' = EndMark
  BY <1>2 DEF SignalInv, MainOrder, Stocked, Turns, EndMark
<1>6. PICK w \in Int, v \in Int : w = Work /\ v = Vacant
  BY LoadFacts DEF SignalInv, Stocked, Work, Vacant
<1>7. Work' = w /\ Vacant' = v
  BY <1>2, <1>5, <1>6 DEF Work, Vacant
<1>8. \A u \in Threads : Gone(u)' => Gone(u)
  BY <1>3 DEF Gone
<1>9. /\ Attending(w, Consumers, {"leave", "end"}, CondA)
      /\ Attending(v, Producers, {"signal", "unlock", "end"}, CondB)
  BY <1>6 DEF SignalInv, Attended
\* Enough for the threads S, who wait on c, and their work n.
<1>10. ASSUME NEW S \in SUBSET Threads, NEW L, NEW c \in Conds, NEW n \in Int,
              Attending(n, S, L, c), "test" \notin L,
              \A u \in S, d \in Conds : Down(u, d) => d = c,
              \A u \in Threads : Down(u, c) => u \in S /\ at[u] = "test"
       PROVE  Attending(n, S, L, c)'
  <2>1. Due(c) \in {0, 1} /\ Due(c)' \in {0, 1}
    BY DueFacts
  <2>2. ASSUME ~ (pc[t] = "s_pick" /\ cond[t] = c) PROVE Attending(n, S, L, c)'
    <3>1. ASSUME NEW u \in Threads, Owes(u, c) PROVE Owes(u, c)'
      BY <1>2, <2>2, <3>1 DEF Owes
    <3>2. Due(c) <= Due(c)'
      BY <3>1, DueFacts
    <3>3. n + Due(c) <= n + Due(c)'
      BY <2>1, <3>2
    <3>. QED  BY <1>2, <1>8, <1>10, <3>3, AttendOn
  <2>3. ASSUME pc[t] = "s_pick", cond[t] = c PROVE Attending(n, S, L, c)'
    <3>1. CASE DownsStay /\ Misses(t)
      <4>1. \A u \in Threads : ~ Down(u, c)
        BY <2>3, <3>1 DEF Misses
      <4>2. \A u \in S : ~ Gone(u)'
        BY <1>3, <1>10, <4>1 DEF Gone
      <4>. QED  BY <4>2, AttendEasily
    <3>2. CASE \E x \in Threads : Down(x, cond[t]) /\ Wakes(x)
      <4>1. PICK x \in Threads : Down(x, c) /\ Wakes(x)
        BY <2>3, <3>2
      <4>2. x \in S /\ at[x] \notin L /\ Gone(x) /\ ~ Gone(x)'
        BY <1>10, <4>1 DEF Gone, Wakes
      <4>. QED  BY <1>2, <1>8, <1>10, <4>2, AttendRoused
    <3>. QED  BY <1>1, <2>3, <3>1, <3>2 DEF InnerDowns
  <2>. QED  BY <2>2, <2>3
<1>11. Attending(w, Consumers, {"leave", "end"}, CondA)'
  BY <1>2, <1>9, <1>10 DEF SignalInv, SignalBeds
<1>12. Attending(v, Producers, {"signal", "unlock", "end"}, CondB)'
  BY <1>2, <1>9, <1>10 DEF SignalInv, SignalBeds
<1>13. Attended'
  BY <1>7, <1>11, <1>12 DEF Attended, Attending
<1>. QED  BY <1>1, <1>4, <1>5, <1>13 DEF SignalInv

---------------------------------------------------------------------------
\* broadcast.c

\* Workers wait for the clock, and broadcast to it; nobody signals.
BroadcastBeds ==
  /\ \A t \in Workers, c \in Conds : Down(t, c) => at[t] = "leave" /\ c = CondB
  /\ \A t \in Workers : pc[t] = "b_first" => cond[t] = CondA
  /\ pc[Clock] = "b_first" => at[Clock] = "test" /\ cond[Clock] = CondB
  /\ \A t \in Threads : pc[t] # "s_pick"
  /\ \A t \in Threads \ (Workers \cup {Clock}) : at[t] = "end"
  /\ \A t \in Threads : at[t] # "new"

\* The workers of this round, and the clock that has counted them all.
Counted == {t \in Workers : at[t] \in {"tell", "wait"} \/ Gone(t)}
Rousing == at[Clock] = "tell" \/ pc[Clock] = "b_first"

\* Ready is their number, until the clock rouses them: then all of them sleep.
RoundInv ==
  /\ Rousing => ready = 0 /\ \A t \in Workers : Gone(t)
  /\ ~ Rousing => ready = Cardinality(Counted)

BroadcastInv == Guarded /\ BroadcastBeds /\ RoundInv

\* A step between two calls of broadcast.c.
Rounding(t) == Proceeds(t) /\ load.program = "broadcast"

LEMMA BroadcastRoles ==
  ASSUME NEW t \in Threads, Rounding(t)
  PROVE  /\ pc[t] = "idle"
         /\ \/ t \in Workers /\ WorkerStep(t) /\ t # Clock
            \/ t = Clock /\ ClockStep(t) /\ t \notin Workers
BY RolesAssumption DEF Rounding, Proceeds, ProgramStep, WorkerStep, ClockStep, From

LEMMA BroadcastFrame ==
  ASSUME IInv, Guarded, NEW t \in Threads, Rounding(t)
  PROVE  /\ Outer(t) /\ Creating(t) /\ Orderly(t)
         /\ left' = [u \in Threads |-> left'[u]]
         /\ \A u \in Threads \ {t} : at'[u] = at[u]
<1>1. /\ pc[t] = "idle" /\ CondA \in Conds /\ CondB \in Conds
      /\ at = [u \in Threads |-> at[u]] /\ left = [u \in Threads |-> left[u]]
  BY BroadcastRoles, LockAssumption DEF Guarded, Shaped
<1>2. CASE WorkerStep(t)
  BY <1>1, <1>2, CallsSeen
     DEF WorkerStep, From, Orderly, Creating, Takes, Gives, Posts, Idles, Section, Bound, Marks
<1>3. CASE ClockStep(t)
  BY <1>1, <1>3, CallsSeen
     DEF ClockStep, From, Turned, Orderly, Creating, Takes, Gives, Posts, Idles, Section, Bound,
         Marks, shared
<1>. QED  BY <1>2, <1>3, BroadcastRoles

\* What each does, as far as it matters for the round.
WorkerDeeds(t) ==
  \/ at[t] = "lock" /\ at'[t] = "count" /\ ready' = ready /\ pc'[t] \notin Marks
  \/ at[t] = "count" /\ at'[t] = "tell" /\ ready' = ready + 1 /\ pc'[t] = "idle"
  \/ /\ at[t] = "tell" /\ at'[t] = "wait" /\ ready' = ready
     /\ pc'[t] = "b_first" /\ cond'[t] = CondA
  \/ /\ at[t] = "wait" /\ at'[t] = "leave" /\ ready' = ready
     /\ pc'[t] = "w_enq" /\ cond'[t] = CondB
  \/ at[t] = "leave" /\ at'[t] \in {"lock", "end"} /\ ready' = ready /\ pc'[t] \notin Marks

ClockDeeds(t) ==
  \/ /\ at[t] \in {"lock", "test", "leave"} /\ at'[t] \notin {"tell", "new"}
     /\ ready' = ready /\ pc'[t] \notin {"b_first", "s_pick"}
  \/ /\ at[t] = "test" /\ at'[t] = "tell" /\ ready = Cardinality(Workers) /\ ready' = 0
     /\ pc'[t] = "idle"
  \/ /\ at[t] = "tell" /\ at'[t] = "test" /\ ready' = ready
     /\ pc'[t] = "b_first" /\ cond'[t] = CondB

LEMMA RoundDeeds ==
  ASSUME IInv, Guarded, NEW t \in Threads, pc[t] = "idle"
  PROVE  (WorkerStep(t) => WorkerDeeds(t)) /\ (ClockStep(t) => ClockDeeds(t))
<1>1. CondA \in Conds /\ CondB \in Conds /\ at = [u \in Threads |-> at[u]]
  BY LockAssumption DEF Guarded, Shaped
<1>2. ASSUME WorkerStep(t) PROVE WorkerDeeds(t)
  BY <1>1, <1>2, CallsSeen
     DEF WorkerStep, WorkerDeeds, From, Takes, Gives, Posts, Idles, Marks, shared
<1>3. ASSUME ClockStep(t) PROVE ClockDeeds(t)
  BY <1>1, <1>3, CallsSeen
     DEF ClockStep, ClockDeeds, From, Takes, Gives, Posts, Idles, Marks, shared
<1>. QED  BY <1>2, <1>3

LEMMA CountedFinite ==
  /\ IsFiniteSet(Workers) /\ IsFiniteSet(Counted) /\ IsFiniteSet(Counted')
  /\ Counted \subseteq Workers /\ Counted' \subseteq Workers
<1>1. IsFiniteSet(Workers)
  BY ThreadsAssumption, RolesAssumption, FS_Subset DEF Threads
<1>2. Counted \subseteq Workers /\ Counted' \subseteq Workers
  BY DEF Counted
<1>. QED  BY <1>1, <1>2, FS_Subset

\* Who tests, counts or rouses is alone with the mutex.
LEMMA BroadcastOuterKeeps ==
  ASSUME IInv, BroadcastInv, NEW t \in Threads, Rounding(t)
  PROVE  BroadcastInv'
<1>1. /\ pc[t] = "idle" /\ Outer(t) /\ Apart(t) /\ Creating(t) /\ Orderly(t)
      /\ left' = [u \in Threads |-> left'[u]] /\ Guarded /\ BroadcastBeds /\ RoundInv
      /\ \A u \in Threads \ {t} : at'[u] = at[u] /\ pc'[u] = pc[u] /\ cond'[u] = cond[u]
  BY BroadcastRoles, BroadcastFrame DEF BroadcastInv, Outer, Apart
<1>2. Guarded'
  BY <1>1, GuardOuter
<1>3. /\ Workers \subseteq Threads /\ Clock \in Threads \ Workers
      /\ CondA \in Conds /\ CondB \in Conds /\ CondA # CondB
  BY RolesAssumption, LockAssumption
<1>4. \/ t \in Workers /\ WorkerDeeds(t) /\ t # Clock
      \/ t = Clock /\ ClockDeeds(t) /\ t \notin Workers
  BY <1>1, BroadcastRoles, RoundDeeds
<1>5. ASSUME NEW u \in Threads, NEW c \in Conds
      PROVE  Down(u, c)' <=> Down(u, c) \/ (u = t /\ pc'[t] = "w_enq" /\ cond'[t] = c)
  BY <1>1, OuterDowns DEF DownsStay
<1>6. \A c \in Conds : ~ Down(t, c)
  BY <1>1, OuterDowns
<1>7. BroadcastBeds'
  <2>1. CASE t \in Workers /\ WorkerDeeds(t) /\ t # Clock
    BY <1>1, <1>3, <1>5, <1>6, <2>1 DEF BroadcastBeds, WorkerDeeds, Marks
  <2>2. CASE t = Clock /\ ClockDeeds(t) /\ t \notin Workers
    BY <1>1, <1>3, <1>5, <1>6, <2>2 DEF BroadcastBeds, ClockDeeds, Marks
  <2>. QED  BY <1>4, <2>1, <2>2
<1>8. RoundInv'
  <2>1. ASSUME NEW u \in Workers
        PROVE  Gone(u)' <=> Gone(u) \/ (u = t /\ pc'[t] = "w_enq" /\ cond'[t] \in Conds)
    BY <1>3, <1>5 DEF Gone
  <2>2. ~ Gone(t)
    BY <1>6 DEF Gone
  <2>3. CASE t \in Workers /\ WorkerDeeds(t) /\ t # Clock
    <3>1. Rousing' <=> Rousing
      BY <1>1, <1>3, <2>3 DEF Rousing
    <3>2. ~ Rousing
      BY <1>1, <2>2, <2>3 DEF RoundInv
    <3>3. CASE at[t] = "count" /\ at'[t] = "tell" /\ ready' = ready + 1 /\ pc'[t] = "idle"
      <4>1. t \notin Counted
        BY <2>2, <3>3 DEF Counted
      <4>2. Counted' = Counted \cup {t}
        BY <1>1, <1>3, <2>1, <2>3, <3>3 DEF Counted
      <4>3. Cardinality(Counted') = Cardinality(Counted) + 1
        BY <4>1, <4>2, CountedFinite, FS_AddElement
      <4>. QED  BY <3>1, <3>2, <3>3, <4>3, <1>1 DEF RoundInv
    <3>4. CASE ready' = ready /\ (at[t] \in {"tell", "wait"} <=> at'[t] = "wait" \/ pc'[t] = "w_enq")
               /\ at'[t] # "tell" /\ (pc'[t] = "w_enq" => cond'[t] = CondB)
      <4>1. Counted' = Counted
        BY <1>1, <1>3, <2>1, <2>2, <2>3, <3>4 DEF Counted
      <4>. QED  BY <3>1, <3>2, <3>4, <4>1, <1>1 DEF RoundInv
    <3>. QED  BY <2>3, <3>3, <3>4 DEF WorkerDeeds, Marks
  <2>4. CASE t = Clock /\ ClockDeeds(t) /\ t \notin Workers
    <3>1. \A u \in Workers : (Gone(u)' <=> Gone(u)) /\ at'[u] = at[u]
      BY <1>1, <1>3, <2>1, <2>4
    <3>2. Counted' = Counted
      BY <3>1 DEF Counted
    <3>3. CASE /\ at[t] = "test" /\ at'[t] = "tell" /\ ready = Cardinality(Workers) /\ ready' = 0
               /\ pc'[t] = "idle"
      <4>1. ~ Rousing
        BY <1>1, <2>4, <3>3 DEF Rousing
      <4>2. Cardinality(Counted) = Cardinality(Workers)
        BY <1>1, <3>3, <4>1 DEF RoundInv
      <4>3. Counted = Workers
        BY <4>2, CountedFinite, FS_Subset
      <4>4. ASSUME NEW u \in Workers PROVE at[u] \notin {"tell", "wait"}
        <5>1. at[t] \in Section /\ u # t /\ u \in Threads
          BY <1>3, <2>4, <3>3 DEF Section
        <5>. QED  BY <1>1, <5>1, Lonely DEF Bound
      <4>5. \A u \in Workers : Gone(u)
        BY <4>3, <4>4 DEF Counted
      <4>6. Rousing'
        BY <2>4, <3>3 DEF Rousing
      <4>. QED  BY <3>1, <3>3, <4>5, <4>6 DEF RoundInv
    <3>4. CASE ready' = ready /\ (Rousing' <=> Rousing)
      BY <1>1, <3>1, <3>2, <3>4 DEF RoundInv
    <3>5. CASE ready' = ready /\ at[t] \in {"lock", "test", "leave"} /\ at'[t] # "tell"
               /\ pc'[t] # "b_first"
      BY <1>1, <2>4, <3>4, <3>5 DEF Rousing
    <3>6. CASE ready' = ready /\ at[t] = "tell" /\ pc'[t] = "b_first"
      BY <1>1, <2>4, <3>4, <3>6 DEF Rousing
    <3>. QED  BY <2>4, <3>3, <3>5, <3>6 DEF ClockDeeds
  <2>. QED  BY <1>4, <2>3, <2>4
<1>. QED  BY <1>2, <1>7, <1>8 DEF BroadcastInv

LEMMA BroadcastInnerKeeps ==
  ASSUME IInv, BroadcastInv, NEW t \in Threads, Inner(t), UNCHANGED testVars
  PROVE  BroadcastInv'
<1>1. InnerDowns(t) /\ Guarded' /\ Guarded /\ BroadcastBeds /\ RoundInv
  BY InnerDownsAre, GuardInner DEF BroadcastInv
<1>2. /\ UNCHANGED <<at, ready>> /\ pc'[t] \notin Marks
      /\ \A u \in Threads \ {t} : pc'[u] = pc[u] /\ cond'[u] = cond[u]
  BY DEF testVars, shared, Inner, Apart
<1>3. /\ Workers \subseteq Threads /\ Clock \in Threads \ Workers
      /\ CondA \in Conds /\ CondB \in Conds /\ CondA # CondB
  BY RolesAssumption, LockAssumption
<1>4. \A u \in Threads, c \in Conds : Down(u, c)' => Down(u, c)
  BY <1>1 DEF InnerDowns, DownsStay, Wakes, WakesAll
<1>5. BroadcastBeds'
  BY <1>1, <1>2, <1>3, <1>4 DEF BroadcastBeds, Marks
<1>6. ASSUME \A u \in Workers : Gone(u)' <=> Gone(u), pc[t] # "b_first" \/ t # Clock
      PROVE  RoundInv'
  <2>1. Counted' = Counted
    BY <1>2, <1>6 DEF Counted
  <2>2. Rousing' <=> Rousing
    BY <1>2, <1>3, <1>6 DEF Rousing, Marks
  <2>. QED  BY <1>1, <1>2, <1>6, <2>1, <2>2 DEF RoundInv
<1>7. CASE pc[t] # "b_first"
  <2>1. DownsStay
    BY <1>1, <1>7 DEF InnerDowns, BroadcastBeds
  <2>2. \A u \in Workers : Gone(u)' <=> Gone(u)
    BY <1>3, <2>1 DEF DownsStay, Gone
  <2>. QED  BY <1>1, <1>5, <1>6, <1>7, <2>2 DEF BroadcastInv
<1>8. CASE pc[t] = "b_first"
  <2>1. WakesAll(cond[t]) /\ pc[t] \in Marks
    BY <1>1, <1>8 DEF InnerDowns, Marks
  <2>2. CASE t \in Workers
    <3>1. cond[t] = CondA
      BY <1>1, <1>8, <2>2 DEF BroadcastBeds
    <3>2. \A u \in Workers : Gone(u)' <=> Gone(u)
      BY <1>1, <1>3, <2>1, <3>1 DEF WakesAll, Gone, BroadcastBeds
    <3>. QED  BY <1>1, <1>3, <1>5, <1>6, <2>2, <3>2 DEF BroadcastInv
  <2>3. CASE t = Clock
    <3>1. cond[t] = CondB /\ Rousing /\ at[Clock] = "test"
      BY <1>1, <1>8, <2>3 DEF BroadcastBeds, Rousing
    <3>2. \A u \in Workers : ~ Gone(u)'
      BY <1>1, <1>3, <2>1, <3>1 DEF WakesAll, Gone, BroadcastBeds
    <3>3. \A u \in Workers : Gone(u)
      BY <1>1, <3>1 DEF RoundInv
    <3>4. \A u \in Workers : at'[u] \notin {"tell", "wait"}
      BY <1>1, <1>2, <3>3 DEF BroadcastBeds, Gone
    <3>5. Counted' = {} /\ Cardinality({}) = 0
      BY <3>2, <3>4, FS_EmptySet DEF Counted
    <3>6. ready' = 0 /\ ~ Rousing'
      BY <1>1, <1>2, <2>3, <3>1 DEF RoundInv, Rousing, Marks
    <3>7. RoundInv'
      BY <3>5, <3>6 DEF RoundInv
    <3>. QED  BY <1>1, <1>5, <3>7 DEF BroadcastInv
  <2>4. CASE t \notin Workers \cup {Clock}
    <3>1. at[t] = "end" /\ at[t] \in Section
      BY <1>1, <2>1, <2>4 DEF BroadcastBeds, Guarded, GuardOK
    <3>. QED  BY <3>1 DEF Section
  <2>. QED  BY <2>2, <2>3, <2>4
<1>. QED  BY <1>7, <1>8

---------------------------------------------------------------------------
\* The programs together

\* The invariant of the programs, above that of the library.
ProgramInv ==
  /\ load \in Loads
  /\ load.program \in {"signal", "broadcast"} => uses = [t \in Threads |-> Everything]
  /\ load.program = "signal" => SignalInv
  /\ load.program = "broadcast" => BroadcastInv
  /\ load.program # "signal" => stock = 0

\* Their steps are steps of the library, or no step of it.
LEMMA ProgramCalls ==
  ASSUME NEW t \in Threads, ProgramStep(t)
  PROVE  \/ MutexCall(t) /\ UNCHANGED condVars
         \/ CondCall(t)
         \/ UNCHANGED vars
<1>1. Lock \in Mutexes /\ CondA \in Conds /\ CondB \in Conds
  BY LockAssumption
<1>2. /\ Locks(t) => MutexCall(t) /\ UNCHANGED condVars
      /\ Unlocks(t) => MutexCall(t) /\ UNCHANGED condVars
  BY <1>1 DEF Locks, Unlocks, MutexCall
<1>3. /\ \A c \in Conds : WaitsOn(t, c) => CondCall(t)
      /\ \A c \in Conds : Signals(t, c) => CondCall(t)
      /\ \A c \in Conds : Broadcasts(t, c) => CondCall(t)
      /\ \A c \in Conds : Broadcast(t, c) /\ UNCHANGED <<uses, shared>> => CondCall(t)
  BY DEF WaitsOn, Signals, Broadcasts, CondCall
<1>4. CASE ProducerStep(t)
  BY <1>1, <1>2, <1>3, <1>4 DEF ProducerStep, Skips
<1>5. CASE ConsumerStep(t)
  BY <1>1, <1>2, <1>3, <1>5 DEF ConsumerStep
<1>6. CASE SignalMainStep(t)
  BY <1>1, <1>2, <1>3, <1>6 DEF SignalMainStep, Creates, Joins
<1>7. CASE ClockStep(t)
  BY <1>1, <1>2, <1>3, <1>7 DEF ClockStep
<1>8. CASE WorkerStep(t)
  BY <1>1, <1>2, <1>3, <1>8 DEF WorkerStep
<1>9. CASE WaiterStep(t) \/ MainStep(t)
  BY <1>1, <1>2, <1>3, <1>9 DEF WaiterStep, MainStep
<1>10. CASE LockerStep(t) \/ MutexMainStep(t)
  BY <1>1, <1>2, <1>3, <1>10 DEF LockerStep, MutexMainStep, Skips, Creates, Joins
<1>. QED  BY <1>4, <1>5, <1>6, <1>7, <1>8, <1>9, <1>10 DEF ProgramStep

LEMMA TestNextIsNext == [TestNext]_allVars => [Next]_vars
<1>1. ASSUME UNCHANGED allVars PROVE UNCHANGED vars
  BY <1>1 DEF allVars
<1>2. ASSUME NEW t \in Threads, Proceed(t) PROVE [Next]_vars
  BY <1>2, ProgramCalls DEF Proceed, Next
<1>3. ASSUME NEW t \in Threads, InCall(t) PROVE [Next]_vars
  BY <1>3 DEF InCall, Next
<1>4. ASSUME NEW t \in Threads, FreeStep(t) PROVE [Next]_vars
  BY <1>4, LockAssumption DEF FreeStep, Next, CondCall
<1>. QED  BY <1>1, <1>2, <1>3, <1>4 DEF TestNext

LEMMA ProgramInvInit ==
  ASSUME TestInit
  PROVE  ProgramInv
<1>1. /\ load \in Loads /\ load.program \in {"signal", "broadcast", "main", "mutex", "free"}
      /\ load.iter \in Nat /\ load.room \in Nat
      /\ at = [t \in Threads |-> Start(t)] /\ left = [t \in Threads |-> load.iter]
      /\ stock = 0 /\ ready = 0 /\ Init
      /\ FreeUse <=> uses # [t \in Threads |-> Everything]
  BY LoadsAssumption DEF TestInit
<1>2. \A t \in Threads : pc[t] = "idle" /\ held[t] = {} /\ Wants(t) = {}
  BY <1>1 DEF Init, MutexInit, Wants, Calling
<1>3. ASSUME NEW t \in Threads, NEW c \in Conds PROVE ~ Down(t, c)
  BY <1>1, <1>2, InitHolds, DozerFacts DEF Down
<1>4. \A t \in Threads : ~ Gone(t)
  BY <1>3 DEF Gone
<1>5. CASE load.program = "signal"
  <2>1. /\ \A t \in Producers \cup Consumers : at[t] = "new"
        /\ at[Main] = "lock"
        /\ \A t \in Threads : at[t] \in {"new", "lock", "end"}
    BY <1>1, <1>5, RolesAssumption DEF Start, Created, First
  <2>2. Guarded
    BY <1>1, <1>2, <2>1 DEF Guarded, Shaped, GuardOK, Section, Bound, Marks
  <2>3. SignalBeds /\ MainOrder
    BY <1>3, <2>1 DEF SignalBeds, MainOrder
  <2>4. Stocked
    BY <1>1, <2>1, RolesAssumption DEF Stocked
  <2>5. Turns
    BY <1>1, <2>1, RolesAssumption DEF Turns
  <2>6. Attended
    BY <1>4, RolesAssumption DEF Attended, Attending, Lying
  <2>. QED  BY <1>1, <1>5, <2>2, <2>3, <2>4, <2>5, <2>6 DEF ProgramInv, SignalInv, FreeUse
<1>6. CASE load.program = "broadcast"
  <2>1. /\ \A t \in Workers \cup {Clock} : at[t] = "lock"
        /\ \A t \in Threads \ (Workers \cup {Clock}) : at[t] = "end"
    BY <1>1, <1>6, RolesAssumption DEF Start, Created, First
  <2>2. \A t \in Threads : at[t] \in {"lock", "end"}
    BY <2>1
  <2>3. Guarded
    BY <1>1, <1>2, <2>2 DEF Guarded, Shaped, GuardOK, Section, Bound, Marks
  <2>4. BroadcastBeds
    BY <1>2, <1>3, <2>1, <2>2, RolesAssumption DEF BroadcastBeds
  <2>5. Counted = {} /\ ~ Rousing
    BY <1>2, <1>4, <2>2, RolesAssumption DEF Counted, Rousing
  <2>6. RoundInv
    BY <1>1, <2>5, FS_EmptySet DEF RoundInv
  <2>. QED  BY <1>1, <1>6, <2>3, <2>4, <2>6 DEF ProgramInv, BroadcastInv, FreeUse
<1>7. CASE load.program \notin {"signal", "broadcast"}
  BY <1>1, <1>7 DEF ProgramInv
<1>. QED  BY <1>5, <1>6, <1>7

\* Programs other than signal.c have no stock.
LEMMA NoStock ==
  ASSUME NEW t \in Threads, ProgramStep(t), load.program # "signal"
  PROVE  stock' = stock
<1>1. CASE ClockStep(t) \/ WorkerStep(t)
  BY <1>1 DEF ClockStep, WorkerStep, Locks, Unlocks, WaitsOn, Broadcasts, shared
<1>2. CASE WaiterStep(t) \/ MainStep(t)
  BY <1>2 DEF WaiterStep, MainStep, Locks, Unlocks, WaitsOn, Signals, Broadcasts, shared
<1>3. CASE LockerStep(t) \/ MutexMainStep(t)
  BY <1>3 DEF LockerStep, MutexMainStep, Locks, Unlocks, Skips, Creates, Joins, shared
<1>. QED  BY <1>1, <1>2, <1>3 DEF ProgramStep

LEMMA ProgramInvNext ==
  ASSUME IInv, ProgramInv, TestNext
  PROVE  ProgramInv'
<1>1. load \in Loads
  BY DEF ProgramInv
<1>2. ASSUME NEW t \in Threads, Proceed(t) PROVE ProgramInv'
  <2>1. Proceeds(t) /\ load' = load
    BY <1>1, <1>2 DEF Proceed, Proceeds
  <2>2. CASE load.program = "signal"
    <3>1. Selling(t)
      BY <2>1, <2>2 DEF Selling
    <3>2. SignalInv /\ SignalInv'
      BY <2>2, <3>1, SignalOuterKeeps DEF ProgramInv
    <3>3. uses' = uses
      BY <3>1, <3>2, SignalFrame DEF SignalInv, Outer
    <3>. QED  BY <2>1, <2>2, <3>2, <3>3 DEF ProgramInv
  <2>3. CASE load.program = "broadcast"
    <3>1. Rounding(t)
      BY <2>1, <2>3 DEF Rounding
    <3>2. BroadcastInv /\ BroadcastInv'
      BY <2>3, <3>1, BroadcastOuterKeeps DEF ProgramInv
    <3>3. uses' = uses
      BY <3>1, <3>2, BroadcastFrame DEF BroadcastInv, Outer
    <3>4. stock' = stock
      BY <2>1, <2>3, NoStock DEF Proceeds
    <3>. QED  BY <2>1, <2>3, <3>2, <3>3, <3>4 DEF ProgramInv
  <2>4. CASE load.program \notin {"signal", "broadcast"}
    <3>1. stock' = stock
      BY <2>1, <2>4, NoStock DEF Proceeds
    <3>. QED  BY <2>1, <2>4, <3>1 DEF ProgramInv
  <2>. QED  BY <2>2, <2>3, <2>4
<1>3. ASSUME NEW t \in Threads, InCall(t) PROVE ProgramInv'
  <2>1. Internal(t) /\ UNCHANGED testVars /\ load' = load /\ stock' = stock /\ uses' = uses
    BY <1>3 DEF InCall, testVars, shared, Internal
  <2>2. ASSUME load.program \in {"signal", "broadcast"} PROVE Inner(t)
    <3>1. uses = [u \in Threads |-> Everything]
      BY <2>2 DEF ProgramInv
    <3>2. ~ Hasty
      BY <3>1 DEF Hasty, Everything
    <3>. QED  BY <2>1, <3>2, InnerSeen
  <2>3. load.program = "signal" => SignalInv'
    BY <1>1, <2>1, <2>2, SignalInnerKeeps DEF ProgramInv
  <2>4. load.program = "broadcast" => BroadcastInv'
    BY <2>1, <2>2, BroadcastInnerKeeps DEF ProgramInv
  <2>. QED  BY <2>1, <2>3, <2>4 DEF ProgramInv
<1>4. ASSUME NEW t \in Threads, FreeStep(t) PROVE ProgramInv'
  BY <1>4 DEF FreeStep, FreeUse, testVars, shared, ProgramInv
<1>. QED  BY <1>2, <1>3, <1>4 DEF TestNext

LEMMA ProgramInvStutter == ProgramInv /\ UNCHANGED allVars => ProgramInv'
<1>. SUFFICES ASSUME ProgramInv, UNCHANGED allVars PROVE ProgramInv'
  OBVIOUS
<1>1. /\ UNCHANGED vars /\ UNCHANGED testVars
      /\ UNCHANGED <<pc, then, mutex, held, cond, uses, heap, load, at, left, stock, ready>>
  BY DEF allVars, vars, mutexVars, condVars, testVars, shared
<1>2. \A u \in Threads, c \in Conds : Down(u, c)' <=> Down(u, c)
  BY <1>1 DEF Down, Dozers, SleepLine, Broadcasting, List, Chain, Follow
<1>3. \A u \in Threads : (Gone(u)' <=> Gone(u)) /\ Wants(u)' = Wants(u)
  BY <1>1, <1>2 DEF Gone, Wants
<1>4. Guarded => Guarded'
  BY <1>1, <1>3 DEF Guarded, Shaped, GuardOK
<1>5. SignalInv => SignalInv'
  <2>1. SignalBeds => SignalBeds'
    BY <1>1, <1>2 DEF SignalBeds
  <2>2. (MainOrder => MainOrder') /\ (Stocked => Stocked') /\ (Turns => Turns')
    BY <1>1 DEF MainOrder, Stocked, Turns, EndMark
  <2>3. Work' = Work /\ Vacant' = Vacant /\ \A c : Due(c)' = Due(c)
    BY <1>1 DEF Work, Vacant, EndMark, Due, Owes
  <2>4. ASSUME NEW S \in SUBSET Threads, NEW L
        PROVE  Fresh(S, L)' = Fresh(S, L) /\ Lying(S)' = Lying(S)
    BY <1>1, <1>3 DEF Fresh, Lying
  <2>5. Attended => Attended'
    BY <2>3, <2>4, RolesAssumption DEF Attended, Attending
  <2>. QED  BY <1>4, <2>1, <2>2, <2>5 DEF SignalInv
<1>6. BroadcastInv => BroadcastInv'
  <2>1. Workers \subseteq Threads
    BY RolesAssumption
  <2>2. Counted' = Counted /\ (Rousing' <=> Rousing) /\ ready' = ready
    BY <1>1, <1>3, <2>1 DEF Counted, Rousing
  <2>3. RoundInv => RoundInv'
    BY <1>3, <2>1, <2>2 DEF RoundInv
  <2>4. BroadcastBeds => BroadcastBeds'
    BY <1>1, <1>2, <2>1 DEF BroadcastBeds
  <2>. QED  BY <1>4, <2>3, <2>4 DEF BroadcastInv
<1>. QED  BY <1>1, <1>5, <1>6 DEF ProgramInv

---------------------------------------------------------------------------
\* The theorems about the programs

\* The test programs use the library by its calls alone, so all that is proved
\* of it above holds of the library under them: here that it is an ideal monitor.
THEOREM ProgramsRefine ==
  ASSUME Calm
  PROVE  TestSpec => ImplementsMonitor
<1>1. TestInit => Init
  BY DEF TestInit
<1>2. TestSpec => Spec
  BY <1>1, TestNextIsNext, PTL DEF TestSpec, Spec
<1>. QED  BY <1>2, Refinement, PTL

\* The places of the threads in signal.c and broadcast.c fit who holds the mutex,
\* who sleeps, and what the stock and the count say.
THEOREM ProgramInvariant ==
  ASSUME Calm
  PROVE  TestSpec => [](IInv /\ ProgramInv)
<1>1. TestInit => Init /\ ProgramInv
  BY ProgramInvInit DEF TestInit
<1>2. TestSpec => Spec
  BY <1>1, TestNextIsNext, PTL DEF TestSpec, Spec
<1>3. IInv /\ ProgramInv /\ [TestNext]_allVars => ProgramInv'
  <2>1. IInv /\ ProgramInv /\ TestNext => ProgramInv'
    BY ProgramInvNext
  <2>. QED  BY <2>1, ProgramInvStutter
<1>. QED  BY <1>1, <1>2, <1>3, Inductive, PTL DEF TestSpec

\* No decrement wraps the stock to the end mark: a stock above the room is the
\* mark that main() set when the producers had ended (signal.c).
THEOREM EndMarkHolds ==
  ASSUME Calm
  PROVE  TestSpec => []EndMarkIsTrue
<1>1. ASSUME ProgramInv PROVE EndMarkIsTrue
  <2>1. load.room \in Nat /\ load.room < EndMark
    BY <1>1, LoadFacts DEF ProgramInv
  <2>2. CASE load.program = "signal"
    BY <1>1, <2>1, <2>2 DEF ProgramInv, SignalInv, Stocked, MainOrder, EndMarkIsTrue
  <2>3. CASE load.program # "signal"
    BY <1>1, <2>1, <2>3 DEF ProgramInv, EndMarkIsTrue
  <2>. QED  BY <2>2, <2>3
<1>. QED  BY <1>1, ProgramInvariant, PTL

\* The clock of broadcast.c rouses its workers when all of them sleep, and
\* `ready` is the number of those that do: the wait that releases the mutex and
\* sleeps at once lets no worker be counted that the broadcast would miss.
THEOREM RoundsHold ==
  ASSUME Calm
  PROVE  TestSpec => []RoundsInStep
<1>1. ASSUME IInv, ProgramInv, load.program = "broadcast" PROVE RoundsInStep
  <2>1. RoundInv /\ Workers \subseteq Threads
    BY <1>1, RolesAssumption DEF ProgramInv, BroadcastInv
  <2>2. \A t \in Workers : GoneToSleep(t) <=> Gone(t)
    BY <1>1, <2>1, GoneMeans DEF Gone
  <2>3. (\A t \in Workers : at[t] \notin {"tell", "wait"}) => Counted = Some(Workers)
    BY <2>2 DEF Counted, Some
  <2>4. at[Clock] = "tell" => Some(Workers) = Workers
    BY <2>1, <2>2 DEF RoundInv, Rousing, Some
  <2>. QED  BY <2>1, <2>3, <2>4 DEF RoundInv, RoundsInStep
<1>2. IInv /\ ProgramInv => RoundsInStep
  BY <1>1 DEF RoundsInStep
<1>. QED  BY <1>2, ProgramInvariant, PTL

\* The signals of signal.c lose no wake-up, for any number of producers and
\* consumers, any room and any number of turns: whenever no signal is under way
\* there are as many threads awake as there is work for, if any sleep.  A
\* consumer or producer that comes in between may take what a roused one was
\* roused for, but it is awake then to take it.
THEOREM NoWakeupIsLost ==
  ASSUME Calm
  PROVE  TestSpec => []NoLostWakeup
<1>1. ASSUME IInv, ProgramInv, load.program = "signal", AllTold(Threads)
      PROVE  /\ Some(Consumers) # {} /\ stock # EndMark => stock <= Cardinality(Going(Consumers))
             /\ Some(Producers) # {} => load.room - stock <= Cardinality(Going(Producers))
             /\ Some(Consumers) # {} /\ stock = EndMark => Going(Consumers) # {}
  <2>1. Stocked /\ Attended /\ Producers \in SUBSET Threads /\ Consumers \in SUBSET Threads
    BY <1>1, RolesAssumption DEF ProgramInv, SignalInv
  <2>2. load.room \in Nat /\ EndMark \in Nat /\ stock \in Nat
    BY <1>1, <2>1, LoadFacts DEF ProgramInv, Stocked
  <2>3. \A c : Due(c) = 0
    BY <1>1 DEF AllTold, Due, Owes
  <2>4. \A t \in Threads : GoneToSleep(t) <=> Gone(t)
    BY <1>1, GoneMeans DEF Gone
  <2>5. ASSUME NEW S \in SUBSET Threads, NEW L, "end" \in L
        PROVE  /\ Lying(S) = Some(S) /\ Fresh(S, L) \subseteq Going(S)
               /\ Cardinality(Fresh(S, L)) <= Cardinality(Going(S))
               /\ Cardinality(Fresh(S, L)) \in Nat /\ Cardinality(Going(S)) \in Nat
               /\ Going(S) = {} => Cardinality(Going(S)) = 0
    <3>1. Lying(S) = Some(S) /\ Fresh(S, L) \subseteq Going(S) /\ Going(S) \subseteq Threads
      BY <2>4, <2>5 DEF Lying, Some, Fresh, Going
    <3>2. IsFiniteSet(Going(S))
      BY <3>1, ThreadsAssumption, FS_Subset DEF Threads
    <3>. QED  BY <3>1, <3>2, FS_Subset, FS_CardinalityType, FS_EmptySet
  <2>6. Some(Consumers) # {} => Work <= Cardinality(Going(Consumers))
    <3>1. Lying(Consumers) # {} =>
            Work <= Cardinality(Fresh(Consumers, {"leave", "end"})) + Due(CondA)
      BY <2>1 DEF Attended, Attending
    <3>2. Work \in Nat
      BY <2>2 DEF Work
    <3>3. /\ Lying(Consumers) = Some(Consumers)
          /\ Cardinality(Fresh(Consumers, {"leave", "end"})) <= Cardinality(Going(Consumers))
          /\ Cardinality(Fresh(Consumers, {"leave", "end"})) \in Nat
          /\ Cardinality(Going(Consumers)) \in Nat
      BY <2>1, <2>5
    <3>. QED  BY <2>3, <3>1, <3>2, <3>3
  <2>7. Some(Producers) # {} => Vacant <= Cardinality(Going(Producers))
    <3>1. Lying(Producers) # {} =>
            Vacant <= Cardinality(Fresh(Producers, {"signal", "unlock", "end"})) + Due(CondB)
      BY <2>1 DEF Attended, Attending
    <3>2. Vacant \in Int
      BY <2>2 DEF Vacant
    <3>3. /\ Lying(Producers) = Some(Producers)
          /\ Cardinality(Fresh(Producers, {"signal", "unlock", "end"})) <= Cardinality(Going(Producers))
          /\ Cardinality(Fresh(Producers, {"signal", "unlock", "end"})) \in Nat
          /\ Cardinality(Going(Producers)) \in Nat
      BY <2>1, <2>5
    <3>. QED  BY <2>3, <3>1, <3>2, <3>3
  <2>8. Some(Consumers) # {} /\ stock = EndMark => Going(Consumers) # {}
    <3>1. stock = EndMark => Work = 1
      BY DEF Work
    <3>2. "end" \in {"leave", "end"}
      OBVIOUS
    <3>3. Going(Consumers) = {} => Cardinality(Going(Consumers)) = 0
      BY <2>1, <2>5, <3>2
    <3>. QED  BY <2>6, <3>1, <3>3
  <2>9. stock # EndMark => Work = stock
    BY DEF Work
  <2>. QED  BY <2>6, <2>7, <2>8, <2>9 DEF Vacant
<1>2. IInv /\ ProgramInv => NoLostWakeup
  BY <1>1 DEF NoLostWakeup
<1>. QED  BY <1>2, ProgramInvariant, PTL

=============================================================================
