-------------------------- MODULE TicketLockProofs --------------------------
(* Theorems about TicketLock, for every number of threads and every width. *)
EXTENDS TicketLock, FiniteSetTheorems, TLAPS

\* There are n numbers from 1 to n.
LEMMA CardinalityOfPrefix ==
  ASSUME NEW n \in Nat
  PROVE  Cardinality(1..n) = n
<1>1. 1 \in Int /\ n \in Int /\ (IF 1 > n THEN 0 ELSE n - 1 + 1) = n
  OBVIOUS
<1>2. Cardinality(1..n) = IF 1 > n THEN 0 ELSE n - 1 + 1
  BY <1>1, FS_Interval
<1>. QED  BY <1>1, <1>2

\* A sequence of distinct threads is no longer than the threads are many.
LEMMA DistinctIsShort ==
  ASSUME NEW s \in Seq(Threads),
         \A i, j \in DOMAIN s : s[i] = s[j] => i = j
  PROVE  Len(s) <= W
<1>0. Len(s) \in Nat /\ Cardinality(Threads) \in Nat
  BY FS_CardinalityType, WidthAssumption
<1>1. Cardinality(1..Len(s)) = Len(s)
  BY <1>0, CardinalityOfPrefix
<1>2. s \in [1..Len(s) -> Threads]
  OBVIOUS
<1>3. s \in Injection(1..Len(s), Threads)
  BY <1>2 DEF Injection, IsInjective
<1>4. Cardinality(1..Len(s)) <= Cardinality(Threads)
  BY <1>3, FS_Injection, WidthAssumption
<1>. QED  BY <1>0, <1>1, <1>4, WidthAssumption

\* Words as the points of a circle of length W.
LEMMA PlusType ==
  ASSUME NEW x \in Words, NEW n \in 0..W
  PROVE  Plus(x, n) \in Words
BY WidthAssumption DEF Words, Plus

\* One step on the circle is the successor.
LEMMA PlusSucc ==
  ASSUME NEW x \in Words, NEW n \in 0..(W - 1)
  PROVE  Plus(Succ(x), n) = Plus(x, n + 1) /\ Succ(Plus(x, n)) = Plus(x, n + 1)
BY WidthAssumption DEF Words, Plus, Succ

\* Fewer than W steps come back to the start only when there are none.
LEMMA PlusFixed ==
  ASSUME NEW x \in Words, NEW n \in 0..(W - 1), Plus(x, n) = x
  PROVE  n = 0
BY WidthAssumption DEF Words, Plus

---------------------------------------------------------------------------
\* The invariant holds at the start.
LEMMA IInvInit == Init => IInv
BY WidthAssumption
   DEF Init, IInv, TypeOK, TicketsConsecutive, Queued, Words, Plus

\* No more threads are in line than there are words.
LEMMA LineIsShort == IInv => Len(line) <= W
BY DistinctIsShort DEF IInv, TypeOK, TicketsConsecutive

\* Taking a ticket keeps the invariant.
LEMMA TakeKeeps ==
  ASSUME IInv, NEW t \in Threads, Take(t)
  PROVE  IInv'
<1>. DEFINE n == Len(line)
<1>0. /\ TypeOK /\ TicketsConsecutive /\ n \in Nat /\ DOMAIN line = 1..n
      /\ W \in Nat \ {0}
  BY WidthAssumption DEF IInv, TypeOK
<1>1. ~Queued(t)
  BY <1>0 DEF Take, TicketsConsecutive
<1>2. /\ line' \in Seq(Threads) /\ Len(line') = n + 1 /\ DOMAIN line' = 1..(n + 1)
      /\ line'[n + 1] = t /\ \A i \in 1..n : line'[i] = line[i] /\ line[i] \in Threads
  BY <1>0 DEF Take, TypeOK
<1>3. \A i, j \in DOMAIN line' : line'[i] = line'[j] => i = j
  BY <1>0, <1>1, <1>2 DEF Queued, TicketsConsecutive
<1>4. n + 1 <= W
  BY <1>2, <1>3, DistinctIsShort
<1>5. Succ(ticket) = Plus(owner, n + 1) /\ ticket \in Words /\ Succ(ticket) \in Words
  BY <1>0, <1>4, PlusSucc, PlusType DEF TypeOK, TicketsConsecutive
<1>6. TypeOK'
  BY <1>0, <1>2, <1>5 DEF Take, TypeOK
<1>7. \A u \in Threads : Queued(u)' <=> Queued(u) \/ u = t
  BY <1>0, <1>2 DEF Queued
<1>8. \A u \in Threads : Queued(u)' <=> pc'[u] # "idle"
  BY <1>0, <1>7 DEF Take, TypeOK, TicketsConsecutive
<1>9. \A i \in DOMAIN line' :
        pc'[line'[i]] = "spin" => mine'[line'[i]] = Plus(owner', i - 1)
  <2> SUFFICES ASSUME NEW i \in 1..(n + 1), pc'[line'[i]] = "spin"
               PROVE  mine'[line'[i]] = Plus(owner, i - 1)
    BY <1>2 DEF Take
  <2>1. CASE i = n + 1
    BY <1>0, <1>2, <2>1 DEF Take, TypeOK, TicketsConsecutive
  <2>2. CASE i # n + 1
    <3>1. i \in 1..n /\ line[i] # t /\ line[i] \in Threads /\ line'[i] = line[i]
      BY <1>0, <1>1, <1>2, <2>2 DEF Queued
    <3>. QED  BY <1>0, <3>1 DEF Take, TypeOK, TicketsConsecutive
  <2>. QED  BY <2>1, <2>2
<1>10. \A u \in Threads :
         /\ pc'[u] \in {"inside", "store"} => line' # <<>> /\ u = Head(line')
         /\ pc'[u] = "store" => mine'[u] = owner'
  BY <1>0, <1>2 DEF Take, TypeOK, TicketsConsecutive
<1>11. ticket' = Plus(owner', Len(line'))
  BY <1>2, <1>5 DEF Take
<1>. QED
  BY <1>3, <1>6, <1>8, <1>9, <1>10, <1>11 DEF IInv, TicketsConsecutive

\* Reading the own ticket in `owner` keeps the invariant.
LEMMA SpinKeeps ==
  ASSUME IInv, NEW t \in Threads, Spin(t)
  PROVE  IInv'
<1>0. TypeOK /\ TicketsConsecutive /\ Len(line) \in 0..W /\ W \in Nat \ {0}
  BY LineIsShort, WidthAssumption DEF IInv, TypeOK
<1>1. PICK i \in 1..Len(line) : line[i] = t
  BY <1>0 DEF Spin, TypeOK, TicketsConsecutive, Queued
<1>2. mine[t] = Plus(owner, i - 1) /\ mine[t] = owner /\ i - 1 \in 0..(W - 1)
  BY <1>0, <1>1 DEF Spin, TypeOK, TicketsConsecutive
<1>3. i = 1
  BY <1>0, <1>1, <1>2, PlusFixed DEF TypeOK
<1>4. line # <<>> /\ t = Head(line)
  BY <1>0, <1>1, <1>3 DEF TypeOK
<1>. QED  BY <1>0, <1>4 DEF IInv, Spin, TypeOK, TicketsConsecutive, Queued

\* The load of queue_release keeps the invariant.
LEMMA LoadKeeps ==
  ASSUME IInv, NEW t \in Threads, Load(t)
  PROVE  IInv'
BY DEF IInv, Load, TypeOK, TicketsConsecutive, Queued

\* The store of queue_release keeps the invariant.
LEMMA StoreKeeps ==
  ASSUME IInv, NEW t \in Threads, Store(t)
  PROVE  IInv'
<1>. DEFINE n == Len(line)
<1>0. /\ TypeOK /\ TicketsConsecutive /\ n \in 0..W /\ DOMAIN line = 1..n
      /\ W \in Nat \ {0}
  BY LineIsShort, WidthAssumption DEF IInv, TypeOK
<1>1. n > 0 /\ line # <<>> /\ t = line[1] /\ mine[t] = owner
  BY <1>0 DEF Store, TicketsConsecutive, TypeOK
<1>2. /\ line' = Tail(line) /\ line' \in Seq(Threads) /\ Len(line') = n - 1
      /\ DOMAIN line' = 1..(n - 1)
      /\ \A i \in 1..(n - 1) : line'[i] = line[i + 1] /\ line[i + 1] \in Threads
  BY <1>0, <1>1 DEF Store, TypeOK
<1>3. owner' = Succ(owner) /\ owner' \in Words
  BY <1>0, <1>1, PlusType DEF Store, Succ, TypeOK
<1>4. TypeOK'
  BY <1>0, <1>2, <1>3 DEF Store, TypeOK
<1>5. \A i, j \in DOMAIN line' : line'[i] = line'[j] => i = j
  BY <1>0, <1>2 DEF TicketsConsecutive
<1>6. \A u \in Threads : Queued(u)' <=> Queued(u) /\ u # t
  <2> SUFFICES ASSUME NEW u \in Threads
               PROVE  Queued(u)' <=> Queued(u) /\ u # t
    OBVIOUS
  <2>1. ASSUME Queued(u)'
        PROVE  Queued(u) /\ u # t
    <3>1. PICK i \in 1..(n - 1) : line'[i] = u
      BY <1>2, <2>1 DEF Queued
    <3>. QED  BY <1>0, <1>1, <1>2, <3>1 DEF Queued, TicketsConsecutive
  <2>2. ASSUME Queued(u), u # t
        PROVE  Queued(u)'
    <3>1. PICK i \in 1..n : line[i] = u
      BY <1>0, <2>2 DEF Queued
    <3>2. i - 1 \in 1..(n - 1) /\ line'[i - 1] = u
      BY <1>0, <1>1, <1>2, <2>2, <3>1
    <3>. QED  BY <1>2, <3>2 DEF Queued
  <2>. QED  BY <2>1, <2>2
<1>7. \A u \in Threads : Queued(u)' <=> pc'[u] # "idle"
  BY <1>0, <1>6 DEF Store, TypeOK, TicketsConsecutive
<1>8. \A i \in DOMAIN line' :
        pc'[line'[i]] = "spin" => mine'[line'[i]] = Plus(owner', i - 1)
  <2> SUFFICES ASSUME NEW i \in 1..(n - 1), pc'[line'[i]] = "spin"
               PROVE  mine'[line'[i]] = Plus(owner', i - 1)
    BY <1>2
  <2>1. line'[i] = line[i + 1] /\ line[i + 1] # t /\ i + 1 \in 1..n
    BY <1>0, <1>1, <1>2 DEF TicketsConsecutive
  <2>2. pc[line[i + 1]] = "spin"
    BY <1>0, <1>2, <2>1 DEF Store, TypeOK
  <2>a. mine[line[i + 1]] = Plus(owner, (i + 1) - 1) /\ (i + 1) - 1 = i
    BY <1>0, <2>1, <2>2 DEF TicketsConsecutive
  <2>b. mine'[line'[i]] = Plus(owner, i)
    BY <2>1, <2>a DEF Store
  <2>3. Plus(Succ(owner), i - 1) = Plus(owner, i)
    BY <1>0, PlusSucc DEF TypeOK
  <2>. QED  BY <1>3, <2>3, <2>b
<1>9. ticket' = Plus(owner', Len(line'))
  <2>1. Plus(Succ(owner), n - 1) = Plus(owner, n)
    BY <1>0, <1>1, PlusSucc DEF TypeOK
  <2>. QED  BY <1>0, <1>2, <1>3, <2>1 DEF Store, TicketsConsecutive
<1>10. \A u \in Threads : pc'[u] \notin {"inside", "store"}
  BY <1>0, <1>1 DEF Store, TypeOK, TicketsConsecutive
<1>. QED
  BY <1>4, <1>5, <1>7, <1>8, <1>9, <1>10 DEF IInv, TicketsConsecutive

\* Every step keeps the invariant.
LEMMA IInvNext == IInv /\ [Next]_vars => IInv'
<1>1. ASSUME IInv, UNCHANGED vars
      PROVE  IInv'
  BY <1>1 DEF IInv, vars, TypeOK, TicketsConsecutive, Queued
<1>. QED
  BY <1>1, TakeKeeps, SpinKeeps, LoadKeeps, StoreKeeps DEF Next, Step

\* Every variable keeps its type; in particular neither counter leaves the words.
THEOREM TypeCorrect == Spec => []TypeOK
<1>1. IInv => TypeOK
  BY DEF IInv
<1>. QED  BY <1>1, IInvInit, IInvNext, PTL DEF Spec

\* Tickets in use are consecutive words from `owner` on, through every wrap of
\* the counters, as long as there are no more threads than words.
THEOREM TicketOrder == Spec => []TicketsConsecutive
<1>1. IInv => TicketsConsecutive
  BY DEF IInv
<1>. QED  BY <1>1, IInvInit, IInvNext, PTL DEF Spec

\* At most one thread is between queue_acquire and the end of queue_release.
THEOREM Exclusion == Spec => []MutualExclusion
<1>1. IInv => MutualExclusion
  BY DEF IInv, TicketsConsecutive, MutualExclusion
<1>. QED  BY <1>1, IInvInit, IInvNext, PTL DEF Spec

---------------------------------------------------------------------------
\* Every step is a step of the first-come first-served line or none.
LEMMA StepRefines == IInv /\ [Next]_vars => [Ideal!LockNext]_(Ideal!lockVars)
<1> SUFFICES ASSUME IInv, [Next]_vars
             PROVE  [Ideal!LockNext]_(Ideal!lockVars)
  OBVIOUS
<1>. DEFINE inside == {t \in Threads : pc[t] \in {"inside", "store"}}
<1>0. TypeOK /\ TicketsConsecutive
  BY DEF IInv
<1>1. ASSUME NEW t \in Threads, Take(t)
      PROVE  Ideal!Come(t)
  BY <1>0, <1>1 DEF Take, Ideal!Come, TypeOK, TicketsConsecutive, Queued
<1>2. ASSUME NEW t \in Threads, Spin(t)
      PROVE  Ideal!Enter(t)
  <2>1. line # <<>> /\ t = Head(line)
    BY <1>2, SpinKeeps DEF Spin, IInv, TypeOK, TicketsConsecutive
  <2>2. t \notin inside /\ inside' = inside \cup {t} /\ UNCHANGED line
    BY <1>0, <1>2 DEF Spin, TypeOK
  <2>. QED  BY <2>1, <2>2 DEF Ideal!Enter
<1>3. ASSUME NEW t \in Threads, Load(t)
      PROVE  UNCHANGED <<line, inside>>
  BY <1>0, <1>3 DEF Load, TypeOK
<1>4. ASSUME NEW t \in Threads, Store(t)
      PROVE  Ideal!Leave(t)
  <2>1. t \in inside /\ inside' = inside \ {t} /\ line' = Tail(line)
    BY <1>0, <1>4 DEF Store, TypeOK
  <2>. QED  BY <2>1 DEF Ideal!Leave
<1>5. CASE UNCHANGED vars
  BY <1>5 DEF vars, Ideal!lockVars
<1>. QED
  BY <1>1, <1>2, <1>3, <1>4, <1>5 DEF Next, Step, Ideal!LockNext, Ideal!lockVars

\* The two counters implement a first-come first-served line of threads.
THEOREM LineRefinement == Spec => ImplementsLine
<1>1. Init => Ideal!LockInit
  BY DEF Init, Ideal!LockInit
<1>. QED
  BY <1>1, StepRefines, IInvInit, IInvNext, PTL
     DEF Spec, ImplementsLine, Ideal!LockSpec

=============================================================================
