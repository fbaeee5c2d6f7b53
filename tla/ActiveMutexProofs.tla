------------------------- MODULE ActiveMutexProofs -------------------------
(* Theorems about ActiveMutex, for every set of threads and mutexes. *)
EXTENDS ActiveMutex, TLAPS

---------------------------------------------------------------------------
\* Sequences: lines and queues.

\* The head of a sequence is one of its elements.
LEMMA HeadIsElement ==
  ASSUME NEW S, NEW s \in Seq(S), s # <<>>
  PROVE  Head(s) \in S
OBVIOUS

\* Append to a sequence that is not empty keeps its head.
LEMMA HeadOfAppend ==
  ASSUME NEW S, NEW s \in Seq(S), NEW x \in S, s # <<>>
  PROVE  Append(s, x) # <<>> /\ Head(Append(s, x)) = Head(s)
OBVIOUS

\* The elements of a sequence one was appended to.
LEMMA InAppend ==
  ASSUME NEW S, NEW s \in Seq(S), NEW x \in S, NEW y
  PROVE  IsIn(y, Append(s, x)) <=> IsIn(y, s) \/ y = x
BY DEF IsIn

\* The elements of a sequence without repetition, its head taken.
LEMMA InTail ==
  ASSUME NEW S, NEW s \in Seq(S), s # <<>>, Distinct(s), NEW y
  PROVE  IsIn(y, Tail(s)) <=> IsIn(y, s) /\ y # Head(s)
BY SMTT(30) DEF IsIn, Distinct

\* Append of a new element keeps a sequence without repetition.
LEMMA DistinctAppend ==
  ASSUME NEW S, NEW s \in Seq(S), NEW x \in S, Distinct(s), ~IsIn(x, s)
  PROVE  Distinct(Append(s, x))
BY DEF IsIn, Distinct

\* Tail keeps a sequence without repetition.
LEMMA DistinctTail ==
  ASSUME NEW S, NEW s \in Seq(S), s # <<>>, Distinct(s)
  PROVE  Distinct(Tail(s))
BY DEF Distinct

---------------------------------------------------------------------------
\* Every step keeps the types.
LEMMA TypeNext == IInv /\ [Next]_vars => TypeOK'
<1> SUFFICES ASSUME TypeOK, ServedOK, ReadsOK, [Next]_vars
             PROVE  TypeOK'
  BY DEF IInv
<1> USE DEF TypeOK, Labels, InQueueLock, Goto
<1>1. ASSUME NEW t \in Threads, NEW m \in Mutexes, FastLock(t, m)
      PROVE  TypeOK'
  BY <1>1 DEF FastLock
<1>2. ASSUME NEW t \in Threads, NEW m \in Mutexes, SlowLock(t, m)
      PROVE  TypeOK'
  BY <1>2 DEF SlowLock
<1>3. ASSUME NEW t \in Threads, NEW m \in Mutexes, TryLock(t, m)
      PROVE  TypeOK'
  BY <1>3 DEF TryLock
<1>4. ASSUME NEW t \in Threads, NEW m \in Mutexes, Unlock(t, m)
      PROVE  TypeOK'
  BY <1>4 DEF Unlock, TakeTicket
<1>5. ASSUME NEW t \in Threads, LockTake(t)
      PROVE  TypeOK'
  BY <1>5 DEF LockTake, TakeTicket
<1>6. ASSUME NEW t \in Threads, LockRetry(t)
      PROVE  TypeOK'
  BY <1>6 DEF LockRetry
<1>7. ASSUME NEW t \in Threads, LockEnqueue(t)
      PROVE  TypeOK'
  BY <1>7 DEF LockEnqueue
<1>8. ASSUME NEW t \in Threads, LockLeave(t)
      PROVE  TypeOK'
  BY <1>8 DEF LockLeave, LeaveLine, ServedOK, Critical, IsServed
<1>9. ASSUME NEW t \in Threads, LockReturn(t)
      PROVE  TypeOK'
  BY <1>9 DEF LockReturn
<1>10. ASSUME NEW t \in Threads, UnlockRead(t)
      PROVE  TypeOK'
  <2>1. CASE queue[arg[t]] = <<>>
    BY <1>10, <2>1 DEF UnlockRead
  <2>2. CASE queue[arg[t]] # <<>>
    <3>1. Head(queue[arg[t]]) \in Threads
      BY <2>2, HeadIsElement
    <3>. QED  BY <1>10, <2>2, <3>1 DEF UnlockRead
  <2>. QED  BY <2>1, <2>2
<1>11. ASSUME NEW t \in Threads, UnlockFree(t)
      PROVE  TypeOK'
  BY <1>11 DEF UnlockFree
<1>12. ASSUME NEW t \in Threads, UnlockDequeue(t)
      PROVE  TypeOK'
  BY <1>12 DEF UnlockDequeue, ReadsOK
<1>13. ASSUME NEW t \in Threads, UnlockWake(t)
      PROVE  TypeOK'
  BY <1>13 DEF UnlockWake
<1>14. ASSUME NEW t \in Threads, UnlockLeave(t)
      PROVE  TypeOK'
  BY <1>14 DEF UnlockLeave, LeaveLine, ServedOK, Critical, IsServed
<1>15. CASE UNCHANGED vars
  BY <1>15 DEF vars
<1>. QED
  BY <1>1, <1>2, <1>3, <1>4, <1>5, <1>6, <1>7, <1>8, <1>9, <1>10, <1>11, <1>12, <1>13, <1>14, <1>15
     DEF Next, Lock, Internal

\* Every step keeps calls to mutexes the caller does not list as held.
LEMMA CallsNext == IInv /\ [Next]_vars => CallsOK'
<1> SUFFICES ASSUME TypeOK, CallsOK, [Next]_vars
             PROVE  CallsOK'
  BY DEF IInv
<1> USE DEF TypeOK, CallsOK, Goto
<1>1. ASSUME NEW t \in Threads, NEW m \in Mutexes, FastLock(t, m)
      PROVE  CallsOK'
  BY <1>1 DEF FastLock
<1>2. ASSUME NEW t \in Threads, NEW m \in Mutexes, SlowLock(t, m)
      PROVE  CallsOK'
  BY <1>2, RankAssumption DEF SlowLock, InOrder
<1>3. ASSUME NEW t \in Threads, NEW m \in Mutexes, TryLock(t, m)
      PROVE  CallsOK'
  BY <1>3 DEF TryLock
<1>4. ASSUME NEW t \in Threads, NEW m \in Mutexes, Unlock(t, m)
      PROVE  CallsOK'
  BY <1>4 DEF Unlock, TakeTicket
<1>5. ASSUME NEW t \in Threads, LockTake(t)
      PROVE  CallsOK'
  BY <1>5 DEF LockTake, TakeTicket
<1>6. ASSUME NEW t \in Threads, LockRetry(t)
      PROVE  CallsOK'
  BY <1>6 DEF LockRetry
<1>7. ASSUME NEW t \in Threads, LockEnqueue(t)
      PROVE  CallsOK'
  BY <1>7 DEF LockEnqueue
<1>8. ASSUME NEW t \in Threads, LockLeave(t)
      PROVE  CallsOK'
  BY <1>8 DEF LockLeave, LeaveLine
<1>9. ASSUME NEW t \in Threads, LockReturn(t)
      PROVE  CallsOK'
  BY <1>9 DEF LockReturn
<1>10. ASSUME NEW t \in Threads, UnlockRead(t)
      PROVE  CallsOK'
  BY <1>10 DEF UnlockRead
<1>11. ASSUME NEW t \in Threads, UnlockFree(t)
      PROVE  CallsOK'
  BY <1>11 DEF UnlockFree
<1>12. ASSUME NEW t \in Threads, UnlockDequeue(t)
      PROVE  CallsOK'
  BY <1>12 DEF UnlockDequeue
<1>13. ASSUME NEW t \in Threads, UnlockWake(t)
      PROVE  CallsOK'
  BY <1>13 DEF UnlockWake
<1>14. ASSUME NEW t \in Threads, UnlockLeave(t)
      PROVE  CallsOK'
  BY <1>14 DEF UnlockLeave, LeaveLine
<1>15. CASE UNCHANGED vars
  BY <1>15 DEF vars
<1>. QED
  BY <1>1, <1>2, <1>3, <1>4, <1>5, <1>6, <1>7, <1>8, <1>9, <1>10, <1>11, <1>12, <1>13, <1>14, <1>15
     DEF Next, Lock, Internal

\* The lock of a queue admits one thread at a time.
LEMMA OneInCritical ==
  ASSUME ServedOK, NEW t \in Threads, NEW u \in Threads,
         pc[t] \in Critical, pc[u] \in Critical, arg[t] = arg[u]
  PROVE  t = u
BY DEF ServedOK, IsServed

\* A thread in a critical section of a queue stays the one its lock serves.
LEMMA ServedNext == IInv /\ [Next]_vars => ServedOK'
<1> SUFFICES ASSUME TypeOK, ServedOK, [Next]_vars
             PROVE  ServedOK'
  BY DEF IInv
<1> USE DEF TypeOK, ServedOK, Critical, Goto, IsServed
<1>1. ASSUME NEW t \in Threads, NEW m \in Mutexes, FastLock(t, m)
      PROVE  ServedOK'
  BY <1>1 DEF FastLock
<1>2. ASSUME NEW t \in Threads, NEW m \in Mutexes, SlowLock(t, m)
      PROVE  ServedOK'
  BY <1>2 DEF SlowLock
<1>3. ASSUME NEW t \in Threads, NEW m \in Mutexes, TryLock(t, m)
      PROVE  ServedOK'
  BY <1>3 DEF TryLock
<1>4. ASSUME NEW t \in Threads, NEW m \in Mutexes, Unlock(t, m)
      PROVE  ServedOK'
  <2> SUFFICES ASSUME NEW u \in Threads, pc'[u] \in Critical
               PROVE  IsServed(u, arg[u])'
    BY DEF ServedOK
  <2>1. u # t /\ pc[u] \in Critical /\ arg'[u] = arg[u]
    BY <1>4 DEF Unlock
  <2>2. line[arg[u]] \in Seq(Threads) /\ line[arg[u]] # <<>>
    BY <2>1
  <2>3. Append(line[arg[u]], t) # <<>>
        /\ Head(Append(line[arg[u]], t)) = Head(line[arg[u]])
    BY <2>2, HeadOfAppend
  <2>. QED  BY <1>4, <2>1, <2>3 DEF Unlock, TakeTicket
<1>5. ASSUME NEW t \in Threads, LockTake(t)
      PROVE  ServedOK'
  <2> SUFFICES ASSUME NEW u \in Threads, pc'[u] \in Critical
               PROVE  IsServed(u, arg[u])'
    BY DEF ServedOK
  <2>1. u # t /\ pc[u] \in Critical /\ arg'[u] = arg[u]
    BY <1>5 DEF LockTake
  <2>2. line[arg[u]] \in Seq(Threads) /\ line[arg[u]] # <<>>
    BY <2>1
  <2>3. Append(line[arg[u]], t) # <<>>
        /\ Head(Append(line[arg[u]], t)) = Head(line[arg[u]])
    BY <2>2, HeadOfAppend
  <2>. QED  BY <1>5, <2>1, <2>3 DEF LockTake, TakeTicket
<1>6. ASSUME NEW t \in Threads, LockRetry(t)
      PROVE  ServedOK'
  BY <1>6 DEF LockRetry
<1>7. ASSUME NEW t \in Threads, LockEnqueue(t)
      PROVE  ServedOK'
  BY <1>7 DEF LockEnqueue
<1>8. ASSUME NEW t \in Threads, LockLeave(t)
      PROVE  ServedOK'
  BY <1>8 DEF LockLeave, LeaveLine
<1>9. ASSUME NEW t \in Threads, LockReturn(t)
      PROVE  ServedOK'
  BY <1>9 DEF LockReturn
<1>10. ASSUME NEW t \in Threads, UnlockRead(t)
      PROVE  ServedOK'
  BY <1>10 DEF UnlockRead
<1>11. ASSUME NEW t \in Threads, UnlockFree(t)
      PROVE  ServedOK'
  BY <1>11 DEF UnlockFree
<1>12. ASSUME NEW t \in Threads, UnlockDequeue(t)
      PROVE  ServedOK'
  BY <1>12 DEF UnlockDequeue
<1>13. ASSUME NEW t \in Threads, UnlockWake(t)
      PROVE  ServedOK'
  BY <1>13 DEF UnlockWake
<1>14. ASSUME NEW t \in Threads, UnlockLeave(t)
      PROVE  ServedOK'
  BY <1>14 DEF UnlockLeave, LeaveLine
<1>15. CASE UNCHANGED vars
  BY <1>15 DEF vars
<1>. QED
  BY <1>1, <1>2, <1>3, <1>4, <1>5, <1>6, <1>7, <1>8, <1>9, <1>10, <1>11, <1>12, <1>13, <1>14, <1>15
     DEF Next, Lock, Internal

\* What a thread read in a critical section holds until it leaves it.
LEMMA ReadsNext == IInv /\ [Next]_vars => ReadsOK'
<1> SUFFICES ASSUME IInv, [Next]_vars
             PROVE  ReadsOK'
  BY DEF IInv
<1> USE DEF IInv, TypeOK, ServedOK, ReadsOK, CellsSound, Waiting, Critical, Goto, IsServed
<1>1. ASSUME NEW t \in Threads, NEW m \in Mutexes, FastLock(t, m)
      PROVE  ReadsOK'
  BY <1>1 DEF FastLock
<1>2. ASSUME NEW t \in Threads, NEW m \in Mutexes, SlowLock(t, m)
      PROVE  ReadsOK'
  BY <1>2 DEF SlowLock
<1>3. ASSUME NEW t \in Threads, NEW m \in Mutexes, TryLock(t, m)
      PROVE  ReadsOK'
  BY <1>3 DEF TryLock
<1>4. ASSUME NEW t \in Threads, NEW m \in Mutexes, Unlock(t, m)
      PROVE  ReadsOK'
  BY <1>4 DEF Unlock, TakeTicket
<1>5. ASSUME NEW t \in Threads, LockTake(t)
      PROVE  ReadsOK'
  BY <1>5 DEF LockTake, TakeTicket
<1>6. ASSUME NEW t \in Threads, LockRetry(t)
      PROVE  ReadsOK'
  BY <1>6 DEF LockRetry
<1>7. ASSUME NEW t \in Threads, LockEnqueue(t)
      PROVE  ReadsOK'
  <2>1. \A u \in Threads : pc[u] \in Critical /\ arg[u] = arg[t] => u = t
    BY <1>7, OneInCritical DEF LockEnqueue
  <2>. QED  BY <1>7, <2>1 DEF LockEnqueue
<1>8. ASSUME NEW t \in Threads, LockLeave(t)
      PROVE  ReadsOK'
  BY <1>8 DEF LockLeave, LeaveLine
<1>9. ASSUME NEW t \in Threads, LockReturn(t)
      PROVE  ReadsOK'
  BY <1>9 DEF LockReturn
<1>10. ASSUME NEW t \in Threads, UnlockRead(t)
      PROVE  ReadsOK'
  BY <1>10 DEF UnlockRead
<1>11. ASSUME NEW t \in Threads, UnlockFree(t)
      PROVE  ReadsOK'
  <2>1. \A u \in Threads : pc[u] \in Critical /\ arg[u] = arg[t] => u = t
    BY <1>11, OneInCritical DEF UnlockFree
  <2>. QED  BY <1>11, <2>1 DEF UnlockFree
<1>12. ASSUME NEW t \in Threads, UnlockDequeue(t)
      PROVE  ReadsOK'
  <2>1. \A u \in Threads : pc[u] \in Critical /\ arg[u] = arg[t] => u = t
    BY <1>12, OneInCritical DEF UnlockDequeue
  <2>. QED  BY <1>12, <2>1 DEF UnlockDequeue
<1>13. ASSUME NEW t \in Threads, UnlockWake(t)
      PROVE  ReadsOK'
  BY <1>13 DEF UnlockWake
<1>14. ASSUME NEW t \in Threads, UnlockLeave(t)
      PROVE  ReadsOK'
  BY <1>14 DEF UnlockLeave, LeaveLine
<1>15. CASE UNCHANGED vars
  BY <1>15 DEF vars
<1>. QED
  BY <1>1, <1>2, <1>3, <1>4, <1>5, <1>6, <1>7, <1>8, <1>9, <1>10, <1>11, <1>12, <1>13, <1>14, <1>15
     DEF Next, Lock, Internal

---------------------------------------------------------------------------
\* Ownership, by what a step does to Possesses: nothing, a mutex gained, given
\* up, or passed on.

\* A step that changes no owner keeps their number.
LEMMA OwnersSame ==
  ASSUME OneOwner, UNCHANGED owned,
         \A u \in Threads, n \in Mutexes : Possesses(u, n)' <=> Possesses(u, n)
  PROVE  OneOwner'
BY DEF OneOwner

\* A free mutex that is taken has one owner.
LEMMA OwnersGain ==
  ASSUME TypeOK, OneOwner, NEW t \in Threads, NEW m \in Mutexes,
         owned[m] = 0, owned' = [owned EXCEPT ![m] = 1],
         \A u \in Threads, n \in Mutexes :
           Possesses(u, n)' <=> Possesses(u, n) \/ (u = t /\ n = m)
  PROVE  OneOwner'
BY DEF OneOwner, TypeOK

\* A mutex that is released by its only owner has none.
LEMMA OwnersLose ==
  ASSUME TypeOK, OneOwner, NEW t \in Threads, NEW m \in Mutexes,
         Possesses(t, m), owned' = [owned EXCEPT ![m] = 0],
         \A u \in Threads, n \in Mutexes :
           Possesses(u, n)' <=> Possesses(u, n) /\ ~(u = t /\ n = m)
  PROVE  OneOwner'
BY DEF OneOwner, TypeOK

\* A mutex that is handed over has one owner.
LEMMA OwnersPass ==
  ASSUME TypeOK, OneOwner, UNCHANGED owned,
         NEW t \in Threads, NEW c \in Threads, NEW m \in Mutexes,
         Possesses(t, m),
         \A u \in Threads, n \in Mutexes :
           Possesses(u, n)'
             <=> (Possesses(u, n) /\ ~(u = t /\ n = m)) \/ (u = c /\ n = m)
  PROVE  OneOwner'
BY DEF OneOwner, TypeOK

\* Every step keeps the mutexes exclusive.
LEMMA OwnerNext == IInv /\ [Next]_vars => OneOwner'
<1> SUFFICES ASSUME IInv, [Next]_vars
             PROVE  OneOwner'
  OBVIOUS
<1>0. TypeOK /\ CallsOK /\ OneOwner /\ CellsSound
  BY DEF IInv
<1>a. \A t \in Threads : wait[t] = 1 => Waiting(t, arg[t])
  BY <1>0 DEF CellsSound
<1> USE <1>0, <1>a
<1>1. ASSUME NEW t \in Threads, NEW m \in Mutexes, FastLock(t, m)
      PROVE  OneOwner'
  <2>1. \A u \in Threads, n \in Mutexes :
          Possesses(u, n)' <=> Possesses(u, n) \/ (u = t /\ n = m)
    BY <1>1 DEF FastLock, Possesses, Granted, Unlocking, TypeOK, CallsOK, Waiting,
           Goto
  <2>2. owned[m] = 0 /\ owned' = [owned EXCEPT ![m] = 1]
    BY <1>1 DEF FastLock
  <2>. QED  BY <2>1, <2>2, OwnersGain
<1>2. ASSUME NEW t \in Threads, NEW m \in Mutexes, SlowLock(t, m)
      PROVE  OneOwner'
  <2>1. \A u \in Threads, n \in Mutexes : Possesses(u, n)' <=> Possesses(u, n)
    BY <1>2 DEF SlowLock, Possesses, Granted, Unlocking, TypeOK, CallsOK, Waiting,
           Goto
  <2>2. UNCHANGED owned
    BY <1>2 DEF SlowLock
  <2>. QED  BY <2>1, <2>2, OwnersSame
<1>3. ASSUME NEW t \in Threads, NEW m \in Mutexes, TryLock(t, m)
      PROVE  OneOwner'
  <2>1. \A u \in Threads, n \in Mutexes :
          Possesses(u, n)' <=> Possesses(u, n) \/ (u = t /\ n = m)
    BY <1>3 DEF TryLock, Possesses, Granted, Unlocking, TypeOK, CallsOK, Waiting,
           Goto
  <2>2. owned[m] = 0 /\ owned' = [owned EXCEPT ![m] = 1]
    BY <1>3 DEF TryLock
  <2>. QED  BY <2>1, <2>2, OwnersGain
<1>4. ASSUME NEW t \in Threads, NEW m \in Mutexes, Unlock(t, m)
      PROVE  OneOwner'
  <2>1. \A u \in Threads, n \in Mutexes : Possesses(u, n)' <=> Possesses(u, n)
    BY <1>4 DEF Unlock, Possesses, Granted, Unlocking, TypeOK, CallsOK, Waiting,
           Goto
  <2>2. UNCHANGED owned
    BY <1>4 DEF Unlock
  <2>. QED  BY <2>1, <2>2, OwnersSame
<1>5. ASSUME NEW t \in Threads, LockTake(t)
      PROVE  OneOwner'
  <2>1. \A u \in Threads, n \in Mutexes : Possesses(u, n)' <=> Possesses(u, n)
    BY <1>5 DEF LockTake, Possesses, Granted, Unlocking, TypeOK, CallsOK, Waiting,
           Goto
  <2>2. UNCHANGED owned
    BY <1>5 DEF LockTake
  <2>. QED  BY <2>1, <2>2, OwnersSame
<1>6. ASSUME NEW t \in Threads, LockRetry(t)
      PROVE  OneOwner'
  <2>. DEFINE m == arg[t]
  <2>0. m \in Mutexes
    BY DEF TypeOK
  <2>1. CASE owned[m] = 0
    <3>1. \A u \in Threads, n \in Mutexes :
            Possesses(u, n)' <=> Possesses(u, n) \/ (u = t /\ n = m)
      BY <1>6, <2>1 DEF LockRetry, Possesses, Granted, Unlocking, TypeOK, CallsOK, Waiting,
           Goto
    <3>2. owned' = [owned EXCEPT ![m] = 1]
      BY <1>6, <2>1 DEF LockRetry
    <3>. QED  BY <2>0, <2>1, <3>1, <3>2, OwnersGain
  <2>2. CASE owned[m] # 0
    <3>1. \A u \in Threads, n \in Mutexes : Possesses(u, n)' <=> Possesses(u, n)
      BY <1>6, <2>2 DEF LockRetry, Possesses, Granted, Unlocking, TypeOK, CallsOK, Waiting,
           Goto
    <3>2. UNCHANGED owned
      BY <1>6, <2>2 DEF LockRetry
    <3>. QED  BY <3>1, <3>2, OwnersSame
  <2>. QED  BY <2>1, <2>2
<1>7. ASSUME NEW t \in Threads, LockEnqueue(t)
      PROVE  OneOwner'
  <2>1. \A u \in Threads, n \in Mutexes : Possesses(u, n)' <=> Possesses(u, n)
    BY <1>7 DEF LockEnqueue, Possesses, Granted, Unlocking, TypeOK, CallsOK, Waiting,
           Goto
  <2>2. UNCHANGED owned
    BY <1>7 DEF LockEnqueue
  <2>. QED  BY <2>1, <2>2, OwnersSame
<1>8. ASSUME NEW t \in Threads, LockLeave(t)
      PROVE  OneOwner'
  <2>1. \A u \in Threads, n \in Mutexes : Possesses(u, n)' <=> Possesses(u, n)
    BY <1>8 DEF LockLeave, Possesses, Granted, Unlocking, TypeOK, CallsOK, Waiting,
           Goto
  <2>2. UNCHANGED owned
    BY <1>8 DEF LockLeave
  <2>. QED  BY <2>1, <2>2, OwnersSame
<1>9. ASSUME NEW t \in Threads, LockReturn(t)
      PROVE  OneOwner'
  <2>1. \A u \in Threads, n \in Mutexes : Possesses(u, n)' <=> Possesses(u, n)
    BY <1>9 DEF LockReturn, Possesses, Granted, Unlocking, TypeOK, CallsOK, Waiting,
           Goto
  <2>2. UNCHANGED owned
    BY <1>9 DEF LockReturn
  <2>. QED  BY <2>1, <2>2, OwnersSame
<1>10. ASSUME NEW t \in Threads, UnlockRead(t)
      PROVE  OneOwner'
  <2>1. \A u \in Threads, n \in Mutexes : Possesses(u, n)' <=> Possesses(u, n)
    BY <1>10 DEF UnlockRead, Possesses, Granted, Unlocking, TypeOK, CallsOK, Waiting,
           Goto
  <2>2. UNCHANGED owned
    BY <1>10 DEF UnlockRead
  <2>. QED  BY <2>1, <2>2, OwnersSame
<1>11. ASSUME NEW t \in Threads, UnlockFree(t)
      PROVE  OneOwner'
  <2>. DEFINE m == arg[t]
  <2>0. m \in Mutexes
    BY DEF TypeOK
  <2>1. \A u \in Threads, n \in Mutexes :
          Possesses(u, n)' <=> Possesses(u, n) /\ ~(u = t /\ n = m)
    BY <1>11 DEF UnlockFree, Possesses, Granted, Unlocking, TypeOK, CallsOK, Waiting,
           Goto
  <2>2. Possesses(t, m) /\ owned' = [owned EXCEPT ![m] = 0]
    BY <1>11 DEF UnlockFree, Possesses, Unlocking
  <2>. QED  BY <2>0, <2>1, <2>2, OwnersLose
<1>12. ASSUME NEW t \in Threads, UnlockDequeue(t)
      PROVE  OneOwner'
  <2>1. \A u \in Threads, n \in Mutexes : Possesses(u, n)' <=> Possesses(u, n)
    BY <1>12 DEF UnlockDequeue, Possesses, Granted, Unlocking, TypeOK, CallsOK, Waiting,
           Goto
  <2>2. UNCHANGED owned
    BY <1>12 DEF UnlockDequeue
  <2>. QED  BY <2>1, <2>2, OwnersSame
<1>13. ASSUME NEW t \in Threads, UnlockWake(t)
      PROVE  OneOwner'
  <2>. DEFINE m == arg[t]
             c == cell[t]
  <2>0. m \in Mutexes /\ c \in Threads
    BY DEF TypeOK
  <2>1. Waiting(c, m)
    BY <1>13, <2>0 DEF UnlockWake, CellsSound, InHand
  <2>2. \A u \in Threads, n \in Mutexes :
          Possesses(u, n)'
            <=> (Possesses(u, n) /\ ~(u = t /\ n = m)) \/ (u = c /\ n = m)
    BY <1>13, <2>1 DEF UnlockWake, Possesses, Granted, Unlocking, TypeOK, CallsOK, Waiting,
           Goto
  <2>3. Possesses(t, m) /\ UNCHANGED owned
    BY <1>13 DEF UnlockWake, Possesses, Unlocking
  <2>. HIDE DEF m, c
  <2>. QED  BY <2>0, <2>2, <2>3, OwnersPass
<1>14. ASSUME NEW t \in Threads, UnlockLeave(t)
      PROVE  OneOwner'
  <2>1. \A u \in Threads, n \in Mutexes : Possesses(u, n)' <=> Possesses(u, n)
    BY <1>14 DEF UnlockLeave, Possesses, Granted, Unlocking, TypeOK, CallsOK, Waiting,
           Goto
  <2>2. UNCHANGED owned
    BY <1>14 DEF UnlockLeave
  <2>. QED  BY <2>1, <2>2, OwnersSame
<1>15. CASE UNCHANGED vars
  BY <1>15 DEF vars, OneOwner, Possesses, Granted, Unlocking
<1>. QED
  BY <1>1, <1>2, <1>3, <1>4, <1>5, <1>6, <1>7, <1>8, <1>9, <1>10, <1>11, <1>12, <1>13, <1>14, <1>15
     DEF Next, Lock, Internal

---------------------------------------------------------------------------
\* Cells: most steps leave every waiting cell where it is.

HandsKept ==
  \A u \in Threads :
    /\ pc'[u] = "u_wake" <=> pc[u] = "u_wake"
    /\ pc[u] = "u_wake" => UNCHANGED <<arg[u], cell[u]>>

\* The cells in the hands of unlocking threads, when no hand changes.
LEMMA HandsSame ==
  ASSUME HandsKept
  PROVE  \A u \in Threads, n \in Mutexes : InHand(u, n)' <=> InHand(u, n)
BY DEF HandsKept, InHand

\* The waiting cells, when no queue and no hand changes.
LEMMA CellsSame ==
  ASSUME CellsSound, UNCHANGED queue, HandsKept,
         \A n \in Mutexes : owned'[n] = 0 => owned[n] = 0 \/ queue[n] = <<>>,
         \A u \in Threads :
           /\ wait'[u] = 1 => Waiting(u, arg[u])'
           /\ \A n \in Mutexes : Waiting(u, n)' <=> Waiting(u, n)
  PROVE  CellsSound'
BY HandsSame DEF CellsSound, Enqueued

\* Every step keeps a waiting cell in one place.
LEMMA CellsNext == IInv /\ [Next]_vars => CellsSound'
<1> SUFFICES ASSUME IInv, [Next]_vars
             PROVE  CellsSound'
  OBVIOUS
<1>0. TypeOK /\ ServedOK /\ ReadsOK /\ CellsSound
  BY DEF IInv
<1>a. \A t \in Threads : wait[t] = 1 => Waiting(t, arg[t])
  BY <1>0 DEF CellsSound
<1> USE <1>0, <1>a
<1>1. ASSUME NEW t \in Threads, NEW m \in Mutexes, FastLock(t, m)
      PROVE  CellsSound'
  <2>1. HandsKept /\ UNCHANGED queue
    BY <1>1 DEF FastLock, HandsKept, Goto, TypeOK
  <2>2. \A n \in Mutexes : owned'[n] = 0 => owned[n] = 0 \/ queue[n] = <<>>
    BY <1>1 DEF FastLock, TypeOK, ReadsOK
  <2>3. \A u \in Threads :
          /\ wait'[u] = 1 => Waiting(u, arg[u])'
          /\ \A n \in Mutexes : Waiting(u, n)' <=> Waiting(u, n)
    BY <1>1 DEF FastLock, Waiting, Goto, TypeOK
  <2>. QED  BY <2>1, <2>2, <2>3, CellsSame
<1>2. ASSUME NEW t \in Threads, NEW m \in Mutexes, SlowLock(t, m)
      PROVE  CellsSound'
  <2>1. HandsKept /\ UNCHANGED queue
    BY <1>2 DEF SlowLock, HandsKept, Goto, TypeOK
  <2>2. \A n \in Mutexes : owned'[n] = 0 => owned[n] = 0 \/ queue[n] = <<>>
    BY <1>2 DEF SlowLock, TypeOK, ReadsOK
  <2>3. \A u \in Threads :
          /\ wait'[u] = 1 => Waiting(u, arg[u])'
          /\ \A n \in Mutexes : Waiting(u, n)' <=> Waiting(u, n)
    BY <1>2 DEF SlowLock, Waiting, Goto, TypeOK
  <2>. QED  BY <2>1, <2>2, <2>3, CellsSame
<1>3. ASSUME NEW t \in Threads, NEW m \in Mutexes, TryLock(t, m)
      PROVE  CellsSound'
  <2>1. HandsKept /\ UNCHANGED queue
    BY <1>3 DEF TryLock, HandsKept, Goto, TypeOK
  <2>2. \A n \in Mutexes : owned'[n] = 0 => owned[n] = 0 \/ queue[n] = <<>>
    BY <1>3 DEF TryLock, TypeOK, ReadsOK
  <2>3. \A u \in Threads :
          /\ wait'[u] = 1 => Waiting(u, arg[u])'
          /\ \A n \in Mutexes : Waiting(u, n)' <=> Waiting(u, n)
    BY <1>3 DEF TryLock, Waiting, Goto, TypeOK
  <2>. QED  BY <2>1, <2>2, <2>3, CellsSame
<1>4. ASSUME NEW t \in Threads, NEW m \in Mutexes, Unlock(t, m)
      PROVE  CellsSound'
  <2>1. HandsKept /\ UNCHANGED queue
    BY <1>4 DEF Unlock, HandsKept, Goto, TypeOK
  <2>2. \A n \in Mutexes : owned'[n] = 0 => owned[n] = 0 \/ queue[n] = <<>>
    BY <1>4 DEF Unlock, TypeOK, ReadsOK
  <2>3. \A u \in Threads :
          /\ wait'[u] = 1 => Waiting(u, arg[u])'
          /\ \A n \in Mutexes : Waiting(u, n)' <=> Waiting(u, n)
    BY <1>4 DEF Unlock, Waiting, Goto, TypeOK
  <2>. QED  BY <2>1, <2>2, <2>3, CellsSame
<1>5. ASSUME NEW t \in Threads, LockTake(t)
      PROVE  CellsSound'
  <2>1. HandsKept /\ UNCHANGED queue
    BY <1>5 DEF LockTake, HandsKept, Goto, TypeOK
  <2>2. \A n \in Mutexes : owned'[n] = 0 => owned[n] = 0 \/ queue[n] = <<>>
    BY <1>5 DEF LockTake, TypeOK, ReadsOK
  <2>3. \A u \in Threads :
          /\ wait'[u] = 1 => Waiting(u, arg[u])'
          /\ \A n \in Mutexes : Waiting(u, n)' <=> Waiting(u, n)
    BY <1>5 DEF LockTake, Waiting, Goto, TypeOK
  <2>. QED  BY <2>1, <2>2, <2>3, CellsSame
<1>6. ASSUME NEW t \in Threads, LockRetry(t)
      PROVE  CellsSound'
  <2>1. HandsKept /\ UNCHANGED queue
    BY <1>6 DEF LockRetry, HandsKept, Goto, TypeOK
  <2>2. \A n \in Mutexes : owned'[n] = 0 => owned[n] = 0 \/ queue[n] = <<>>
    BY <1>6 DEF LockRetry, TypeOK, ReadsOK
  <2>3. \A u \in Threads :
          /\ wait'[u] = 1 => Waiting(u, arg[u])'
          /\ \A n \in Mutexes : Waiting(u, n)' <=> Waiting(u, n)
    BY <1>6 DEF LockRetry, Waiting, Goto, TypeOK
  <2>. QED  BY <2>1, <2>2, <2>3, CellsSame
<1>7. ASSUME NEW t \in Threads, LockEnqueue(t)
      PROVE  CellsSound'
  <2>. DEFINE m == arg[t]
  <2>0. m \in Mutexes /\ queue[m] \in Seq(Threads) /\ owned[m] = 1
    BY <1>7 DEF LockEnqueue, TypeOK, ReadsOK
  <2>1. HandsKept
    BY <1>7 DEF LockEnqueue, HandsKept, Goto, TypeOK
  <2>2. \A n \in Mutexes : queue'[n] = IF n = m THEN Append(queue[m], t)
                                                ELSE queue[n]
    BY <1>7 DEF LockEnqueue, TypeOK
  <2>3. \A u \in Threads, n \in Mutexes :
          /\ Waiting(u, n)' <=> Waiting(u, n) \/ (u = t /\ n = m)
          /\ ~Waiting(t, n)
    BY <1>7 DEF LockEnqueue, Waiting, Goto, TypeOK
  <2>4. \A n \in Mutexes : ~Enqueued(t, n) /\ ~InHand(t, n)
    BY <2>3 DEF CellsSound
  <2>5. \A u \in Threads, n \in Mutexes :
          Enqueued(u, n)' <=> Enqueued(u, n) \/ (u = t /\ n = m)
    BY <2>0, <2>2, InAppend DEF Enqueued
  <2>6. \A n \in Mutexes : Distinct(queue'[n])
    BY <2>0, <2>2, <2>4, DistinctAppend DEF CellsSound, Enqueued
  <2>7. \A u \in Threads, n \in Mutexes : InHand(u, n)' <=> InHand(u, n)
    BY <2>1, HandsSame
  <2>8. \A n \in Mutexes : owned'[n] = 0 => queue'[n] = <<>>
    BY <1>7, <2>0, <2>2 DEF LockEnqueue, CellsSound
  <2>9. \A u \in Threads : wait'[u] = 1 => Waiting(u, arg[u])'
    BY <1>7 DEF LockEnqueue, Waiting, Goto, TypeOK
  <2>. HIDE DEF m
  <2>. QED  BY <2>3, <2>4, <2>5, <2>6, <2>7, <2>8, <2>9 DEF CellsSound
<1>8. ASSUME NEW t \in Threads, LockLeave(t)
      PROVE  CellsSound'
  <2>1. HandsKept /\ UNCHANGED queue
    BY <1>8 DEF LockLeave, HandsKept, Goto, TypeOK
  <2>2. \A n \in Mutexes : owned'[n] = 0 => owned[n] = 0 \/ queue[n] = <<>>
    BY <1>8 DEF LockLeave, TypeOK, ReadsOK
  <2>3. \A u \in Threads :
          /\ wait'[u] = 1 => Waiting(u, arg[u])'
          /\ \A n \in Mutexes : Waiting(u, n)' <=> Waiting(u, n)
    BY <1>8 DEF LockLeave, Waiting, Goto, TypeOK
  <2>. QED  BY <2>1, <2>2, <2>3, CellsSame
<1>9. ASSUME NEW t \in Threads, LockReturn(t)
      PROVE  CellsSound'
  <2>1. HandsKept /\ UNCHANGED queue
    BY <1>9 DEF LockReturn, HandsKept, Goto, TypeOK
  <2>2. \A n \in Mutexes : owned'[n] = 0 => owned[n] = 0 \/ queue[n] = <<>>
    BY <1>9 DEF LockReturn, TypeOK, ReadsOK
  <2>3. \A u \in Threads :
          /\ wait'[u] = 1 => Waiting(u, arg[u])'
          /\ \A n \in Mutexes : Waiting(u, n)' <=> Waiting(u, n)
    BY <1>9 DEF LockReturn, Waiting, Goto, TypeOK
  <2>. QED  BY <2>1, <2>2, <2>3, CellsSame
<1>10. ASSUME NEW t \in Threads, UnlockRead(t)
      PROVE  CellsSound'
  <2>1. HandsKept /\ UNCHANGED queue
    BY <1>10 DEF UnlockRead, HandsKept, Goto, TypeOK
  <2>2. \A n \in Mutexes : owned'[n] = 0 => owned[n] = 0 \/ queue[n] = <<>>
    BY <1>10 DEF UnlockRead, TypeOK, ReadsOK
  <2>3. \A u \in Threads :
          /\ wait'[u] = 1 => Waiting(u, arg[u])'
          /\ \A n \in Mutexes : Waiting(u, n)' <=> Waiting(u, n)
    BY <1>10 DEF UnlockRead, Waiting, Goto, TypeOK
  <2>. QED  BY <2>1, <2>2, <2>3, CellsSame
<1>11. ASSUME NEW t \in Threads, UnlockFree(t)
      PROVE  CellsSound'
  <2>1. HandsKept /\ UNCHANGED queue
    BY <1>11 DEF UnlockFree, HandsKept, Goto, TypeOK
  <2>2. \A n \in Mutexes : owned'[n] = 0 => owned[n] = 0 \/ queue[n] = <<>>
    BY <1>11 DEF UnlockFree, TypeOK, ReadsOK
  <2>3. \A u \in Threads :
          /\ wait'[u] = 1 => Waiting(u, arg[u])'
          /\ \A n \in Mutexes : Waiting(u, n)' <=> Waiting(u, n)
    BY <1>11 DEF UnlockFree, Waiting, Goto, TypeOK
  <2>. QED  BY <2>1, <2>2, <2>3, CellsSame
<1>12. ASSUME NEW t \in Threads, UnlockDequeue(t)
      PROVE  CellsSound'
  <2>. DEFINE m == arg[t]
             c == cell[t]
  <2>0. /\ m \in Mutexes /\ c \in Threads /\ queue[m] \in Seq(Threads)
        /\ queue[m] # <<>> /\ c = Head(queue[m]) /\ Distinct(queue[m])
    BY <1>12 DEF UnlockDequeue, TypeOK, ReadsOK, CellsSound
  <2>1. \A n \in Mutexes : queue'[n] = IF n = m THEN Tail(queue[m]) ELSE queue[n]
    BY <1>12 DEF UnlockDequeue, TypeOK
  <2>2. \A u \in Threads, n \in Mutexes :
          Enqueued(u, n)' <=> Enqueued(u, n) /\ ~(u = c /\ n = m)
    BY <2>0, <2>1, InTail DEF Enqueued
  <2>3. \A u \in Threads, n \in Mutexes :
          InHand(u, n)' <=> InHand(u, n) \/ (u = c /\ n = m)
    BY <1>12 DEF UnlockDequeue, InHand, Goto, TypeOK
  <2>4. Enqueued(c, m)
    BY <2>0 DEF Enqueued, IsIn
  <2>5. \A n \in Mutexes : Distinct(queue'[n])
    BY <2>0, <2>1, DistinctTail DEF CellsSound
  <2>6. \A n \in Mutexes : owned'[n] = 0 => queue'[n] = <<>>
    BY <1>12, <2>0, <2>1 DEF UnlockDequeue, CellsSound
  <2>7. \A u \in Threads :
          /\ wait'[u] = 1 => Waiting(u, arg[u])'
          /\ \A n \in Mutexes : Waiting(u, n)' <=> Waiting(u, n)
    BY <1>12 DEF UnlockDequeue, Waiting, Goto, TypeOK
  <2>. HIDE DEF m, c
  <2>. QED  BY <2>0, <2>2, <2>3, <2>4, <2>5, <2>6, <2>7 DEF CellsSound
<1>13. ASSUME NEW t \in Threads, UnlockWake(t)
      PROVE  CellsSound'
  <2>. DEFINE m == arg[t]
             c == cell[t]
  <2>0. m \in Mutexes /\ c \in Threads /\ InHand(c, m)
    BY <1>13 DEF UnlockWake, TypeOK, InHand
  <2>1. Waiting(c, m) /\ ~Enqueued(c, m) /\ \A n \in Mutexes : Waiting(c, n) => n = m
    BY <2>0 DEF CellsSound, Waiting
  <2>2. \A u \in Threads : pc[u] = "u_wake" /\ arg[u] = m => u = t
    BY <1>13, OneInCritical DEF UnlockWake, Critical
  <2>3. \A u \in Threads, n \in Mutexes :
          InHand(u, n)' <=> InHand(u, n) /\ ~(u = c /\ n = m)
    BY <1>13, <2>2 DEF UnlockWake, InHand, Goto, TypeOK
  <2>4. UNCHANGED <<queue, owned>>
    BY <1>13 DEF UnlockWake
  <2>5. \A u \in Threads :
          /\ wait'[u] = 1 => Waiting(u, arg[u])'
          /\ \A n \in Mutexes :
               Waiting(u, n)' <=> Waiting(u, n) /\ ~(u = c /\ n = m)
    BY <1>13, <2>1 DEF UnlockWake, Waiting, Goto, TypeOK
  <2>. HIDE DEF m, c
  <2>. QED  BY <2>0, <2>1, <2>3, <2>4, <2>5 DEF CellsSound, Enqueued
<1>14. ASSUME NEW t \in Threads, UnlockLeave(t)
      PROVE  CellsSound'
  <2>1. HandsKept /\ UNCHANGED queue
    BY <1>14 DEF UnlockLeave, HandsKept, Goto, TypeOK
  <2>2. \A n \in Mutexes : owned'[n] = 0 => owned[n] = 0 \/ queue[n] = <<>>
    BY <1>14 DEF UnlockLeave, TypeOK, ReadsOK
  <2>3. \A u \in Threads :
          /\ wait'[u] = 1 => Waiting(u, arg[u])'
          /\ \A n \in Mutexes : Waiting(u, n)' <=> Waiting(u, n)
    BY <1>14 DEF UnlockLeave, Waiting, Goto, TypeOK
  <2>. QED  BY <2>1, <2>2, <2>3, CellsSame
<1>15. CASE UNCHANGED vars
  BY <1>15 DEF vars, CellsSound, Waiting, Enqueued, InHand
<1>. QED
  BY <1>1, <1>2, <1>3, <1>4, <1>5, <1>6, <1>7, <1>8, <1>9, <1>10, <1>11, <1>12, <1>13, <1>14, <1>15
     DEF Next, Lock, Internal

---------------------------------------------------------------------------
\* The invariant, and what follows from it.

\* The invariant holds at the start.
LEMMA IInvInit == Init => IInv
<1> SUFFICES ASSUME Init
             PROVE  IInv
  OBVIOUS
<1>1. TypeOK
  BY DEF Init, TypeOK, Labels, InQueueLock
<1>2. CallsOK /\ ServedOK /\ ReadsOK
  BY DEF Init, CallsOK, ServedOK, ReadsOK, Critical
<1>3. OneOwner
  BY DEF Init, OneOwner, Possesses, Granted, Unlocking
<1>4. CellsSound
  BY DEF Init, CellsSound, Distinct, Enqueued, InHand, IsIn, Waiting
<1>. QED  BY <1>1, <1>2, <1>3, <1>4 DEF IInv

\* Every step keeps the invariant.
LEMMA IInvNext == IInv /\ [Next]_vars => IInv'
BY TypeNext, CallsNext, ServedNext, ReadsNext, OwnerNext, CellsNext DEF IInv

\* The inductive invariant of the spinning mutex always holds.
THEOREM Invariance == Spec => []IInv
BY IInvInit, IInvNext, PTL DEF Spec

\* Every variable always has its type: `owned` and the wait bytes stay bits,
\* lines and queues only ever hold threads.
THEOREM TypeCorrect == Spec => []TypeOK
<1>1. IInv => TypeOK
  BY DEF IInv
<1>. QED  BY <1>1, Invariance, PTL

\* pthread_mutex_lock, _trylock and _unlock never let two threads have a
\* mutex, and `owned` is set exactly while one has it.
THEOREM MutualExclusion == Spec => []OneOwner
<1>1. IInv => OneOwner
  BY DEF IInv
<1>. QED  BY <1>1, Invariance, PTL

\* A thread's cell is in one queue at most, in it once, and is reachable by
\* the owner of the mutex as long as the thread spins on it.
THEOREM CellsCorrect == Spec => []CellsSound
<1>1. IInv => CellsSound
  BY DEF IInv
<1>. QED  BY <1>1, Invariance, PTL

---------------------------------------------------------------------------
\* Granting in order.

GainsLegal ==
  \A u \in Threads, n \in Mutexes :
    ~Possesses(u, n) /\ Possesses(u, n)' => owned[n] = 0 \/ InHand(u, n)

\* A thread only gains a mutex that is free, or that is handed to it.
LEMMA Gains == IInv /\ [Next]_vars => GainsLegal
<1> SUFFICES ASSUME IInv, [Next]_vars
             PROVE  GainsLegal
  OBVIOUS
<1>0. TypeOK /\ \A t \in Threads : wait[t] = 1 => Waiting(t, arg[t])
  BY DEF IInv, CellsSound
<1> USE <1>0 DEF GainsLegal, TypeOK, Possesses, Granted, Unlocking, Waiting, Goto
<1>1. ASSUME NEW t \in Threads, NEW m \in Mutexes, FastLock(t, m)
      PROVE  GainsLegal
  BY <1>1 DEF FastLock
<1>2. ASSUME NEW t \in Threads, NEW m \in Mutexes, SlowLock(t, m)
      PROVE  GainsLegal
  BY <1>2 DEF SlowLock
<1>3. ASSUME NEW t \in Threads, NEW m \in Mutexes, TryLock(t, m)
      PROVE  GainsLegal
  BY <1>3 DEF TryLock
<1>4. ASSUME NEW t \in Threads, NEW m \in Mutexes, Unlock(t, m)
      PROVE  GainsLegal
  BY <1>4 DEF Unlock
<1>5. ASSUME NEW t \in Threads, LockTake(t)
      PROVE  GainsLegal
  BY <1>5 DEF LockTake
<1>6. ASSUME NEW t \in Threads, LockRetry(t)
      PROVE  GainsLegal
  BY <1>6 DEF LockRetry
<1>7. ASSUME NEW t \in Threads, LockEnqueue(t)
      PROVE  GainsLegal
  BY <1>7 DEF LockEnqueue
<1>8. ASSUME NEW t \in Threads, LockLeave(t)
      PROVE  GainsLegal
  BY <1>8 DEF LockLeave
<1>9. ASSUME NEW t \in Threads, LockReturn(t)
      PROVE  GainsLegal
  BY <1>9 DEF LockReturn
<1>10. ASSUME NEW t \in Threads, UnlockRead(t)
      PROVE  GainsLegal
  BY <1>10 DEF UnlockRead
<1>11. ASSUME NEW t \in Threads, UnlockFree(t)
      PROVE  GainsLegal
  BY <1>11 DEF UnlockFree
<1>12. ASSUME NEW t \in Threads, UnlockDequeue(t)
      PROVE  GainsLegal
  BY <1>12 DEF UnlockDequeue
<1>13. ASSUME NEW t \in Threads, UnlockWake(t)
       PROVE  GainsLegal
  <2>1. InHand(cell[t], arg[t])
    BY <1>13 DEF UnlockWake, InHand
  <2>2. arg[cell[t]] = arg[t]
    BY <2>1 DEF IInv, CellsSound
  <2>. QED  BY <1>13, <2>1, <2>2 DEF UnlockWake
<1>14. ASSUME NEW t \in Threads, UnlockLeave(t)
      PROVE  GainsLegal
  BY <1>14 DEF UnlockLeave
<1>15. CASE UNCHANGED vars
  BY <1>15 DEF vars
<1>. QED
  BY <1>1, <1>2, <1>3, <1>4, <1>5, <1>6, <1>7, <1>8, <1>9, <1>10, <1>11, <1>12, <1>13, <1>14, <1>15
     DEF Next, Lock, Internal

\* Nobody waits for a mutex that nobody owns.
LEMMA FreeHasNoWaiter ==
  ASSUME IInv, NEW m \in Mutexes, owned[m] = 0
  PROVE  WaitLine(m) = <<>>
<1>1. queue[m] = <<>>
  BY DEF IInv, CellsSound
<1>2. ASSUME NEW u \in Threads, NEW v \in Threads,
             pc[v] = "u_wake", arg[v] = m, cell[v] = u
      PROVE  FALSE
  <2>1. Possesses(v, m)
    BY <1>2 DEF Possesses, Unlocking
  <2>. QED  BY <2>1 DEF IInv, OneOwner
<1>. QED  BY <1>1, <1>2 DEF WaitLine, InHand

\* The cell in the hand of the unlocking thread is the first in line.
LEMMA HandIsFirst ==
  ASSUME IInv, NEW m \in Mutexes, NEW u \in Threads, InHand(u, m)
  PROVE  u = Head(WaitLine(m))
<1>. DEFINE c == CHOOSE v \in Threads : InHand(v, m)
<1>1. c \in Threads /\ InHand(c, m)
  OBVIOUS
<1>2. c = u
  BY <1>1, OneInCritical DEF InHand, IInv, Critical
<1>3. WaitLine(m) = <<c>> \o queue[m] /\ queue[m] \in Seq(Threads)
  BY DEF WaitLine, IInv, TypeOK
<1>. HIDE DEF c
<1>4. Head(<<c>> \o queue[m]) = c
  BY <1>1, <1>3
<1>. QED  BY <1>2, <1>3, <1>4

\* The line of a mutex is the same when its queue and the hands are.
LEMMA SameChoice ==
  ASSUME NEW m \in Mutexes, UNCHANGED queue[m],
         \A u \in Threads : InHand(u, m)' <=> InHand(u, m)
  PROVE  UNCHANGED WaitLine(m)
<1>1. (CHOOSE u \in Threads : InHand(u, m))' = CHOOSE u \in Threads : InHand(u, m)
  OBVIOUS
<1>. QED  BY <1>1 DEF WaitLine

\* A step that leaves queue, hand and owner alone keeps the line.
LEMMA SameLine ==
  ASSUME HandsKept, NEW m \in Mutexes, UNCHANGED queue[m]
  PROVE  UNCHANGED WaitLine(m)
BY HandsSame, SameChoice

\* Every step changes the line of a mutex as the abstract mutex does.
LEMMA LinesNext == IInv /\ [Next]_vars => \A m \in Mutexes : LineKept(m)
<1> SUFFICES ASSUME IInv, [Next]_vars, NEW m \in Mutexes
             PROVE  LineKept(m)
  OBVIOUS
<1>0. TypeOK /\ ServedOK /\ ReadsOK
  BY DEF IInv
<1>a. ASSUME HandsKept, UNCHANGED queue
      PROVE  LineKept(m)
  BY <1>a, SameLine DEF LineKept
<1>1. ASSUME NEW t \in Threads, NEW n \in Mutexes, FastLock(t, n)
      PROVE  LineKept(m)
  BY <1>0, <1>a, <1>1 DEF FastLock, HandsKept, Goto, TypeOK
<1>2. ASSUME NEW t \in Threads, NEW n \in Mutexes, SlowLock(t, n)
      PROVE  LineKept(m)
  BY <1>0, <1>a, <1>2 DEF SlowLock, HandsKept, Goto, TypeOK
<1>3. ASSUME NEW t \in Threads, NEW n \in Mutexes, TryLock(t, n)
      PROVE  LineKept(m)
  BY <1>0, <1>a, <1>3 DEF TryLock, HandsKept, Goto, TypeOK
<1>4. ASSUME NEW t \in Threads, NEW n \in Mutexes, Unlock(t, n)
      PROVE  LineKept(m)
  BY <1>0, <1>a, <1>4 DEF Unlock, HandsKept, Goto, TypeOK
<1>5. ASSUME NEW t \in Threads, LockTake(t)
      PROVE  LineKept(m)
  BY <1>0, <1>a, <1>5 DEF LockTake, HandsKept, Goto, TypeOK
<1>6. ASSUME NEW t \in Threads, LockRetry(t)
      PROVE  LineKept(m)
  BY <1>0, <1>a, <1>6 DEF LockRetry, HandsKept, Goto, TypeOK
<1>7. ASSUME NEW t \in Threads, LockEnqueue(t)
      PROVE  LineKept(m)
  <2>1. HandsKept
    BY <1>0, <1>7 DEF LockEnqueue, HandsKept, Goto, TypeOK
  <2>2. CASE m # arg[t]
    BY <1>0, <1>7, <2>1, <2>2, SameLine DEF LockEnqueue, LineKept, TypeOK
  <2>3. CASE m = arg[t]
    <3>1. queue[m] \in Seq(Threads) /\ queue'[m] = Append(queue[m], t)
      BY <1>0, <1>7, <2>3 DEF LockEnqueue, TypeOK
    <3>2. \A u \in Threads : InHand(u, m)' <=> InHand(u, m)
      BY <2>1, HandsSame
    <3>. DEFINE c == CHOOSE u \in Threads : InHand(u, m)
    <3>3. c' = c
      BY <3>2
    <3>4. ASSUME \E u \in Threads : InHand(u, m)
          PROVE  WaitLine(m)' = Append(WaitLine(m), t)
      <4>1. c \in Threads /\ WaitLine(m) = <<c>> \o queue[m]
            /\ WaitLine(m)' = <<c>> \o queue'[m]
        BY <3>2, <3>3, <3>4 DEF WaitLine
      <4>. HIDE DEF c
      <4>. QED  BY <3>1, <4>1
    <3>5. ASSUME ~\E u \in Threads : InHand(u, m)
          PROVE  WaitLine(m)' = Append(WaitLine(m), t)
      BY <3>1, <3>2, <3>5 DEF WaitLine
    <3>. QED  BY <3>4, <3>5 DEF LineKept
  <2>. QED  BY <2>2, <2>3
<1>8. ASSUME NEW t \in Threads, LockLeave(t)
      PROVE  LineKept(m)
  BY <1>0, <1>a, <1>8 DEF LockLeave, HandsKept, Goto, TypeOK
<1>9. ASSUME NEW t \in Threads, LockReturn(t)
      PROVE  LineKept(m)
  BY <1>0, <1>a, <1>9 DEF LockReturn, HandsKept, Goto, TypeOK
<1>10. ASSUME NEW t \in Threads, UnlockRead(t)
      PROVE  LineKept(m)
  BY <1>0, <1>a, <1>10 DEF UnlockRead, HandsKept, Goto, TypeOK
<1>11. ASSUME NEW t \in Threads, UnlockFree(t)
      PROVE  LineKept(m)
  BY <1>0, <1>a, <1>11 DEF UnlockFree, HandsKept, Goto, TypeOK
<1>12. ASSUME NEW t \in Threads, UnlockDequeue(t)
      PROVE  LineKept(m)
  <2>1. \A u \in Threads \ {t} : pc[u] = "u_wake" => arg[u] # arg[t]
    BY <1>12, <1>0, OneInCritical DEF UnlockDequeue, Critical
  <2>2. CASE m # arg[t]
    <3>1. \A u \in Threads : InHand(u, m)' <=> InHand(u, m)
      BY <1>0, <1>12, <2>2 DEF UnlockDequeue, InHand, Goto, TypeOK
    <3>2. UNCHANGED queue[m]
      BY <1>0, <1>12, <2>2 DEF UnlockDequeue, TypeOK
    <3>. QED  BY <3>1, <3>2, SameChoice DEF LineKept
  <2>3. CASE m = arg[t]
    <3>. DEFINE c == cell[t]
    <3>1. /\ queue[m] \in Seq(Threads) /\ queue[m] # <<>> /\ c = Head(queue[m])
          /\ queue'[m] = Tail(queue[m]) /\ c \in Threads
      BY <1>0, <1>12, <2>3 DEF UnlockDequeue, TypeOK, ReadsOK
    <3>2. \A u \in Threads : ~InHand(u, m)
      BY <1>0, <1>12, <2>1, <2>3 DEF UnlockDequeue, InHand
    <3>3. \A u \in Threads : InHand(u, m)' <=> u = c
      BY <1>0, <1>12, <2>1, <2>3 DEF UnlockDequeue, InHand, Goto, TypeOK
    <3>. HIDE DEF c
    <3>4. (CHOOSE u \in Threads : InHand(u, m))' = c
      BY <3>1, <3>3
    <3>5. WaitLine(m)' = <<c>> \o Tail(queue[m]) /\ WaitLine(m) = queue[m]
      BY <3>1, <3>2, <3>3, <3>4 DEF WaitLine
    <3>. QED  BY <3>1, <3>5 DEF LineKept
  <2>. QED  BY <2>2, <2>3
<1>13. ASSUME NEW t \in Threads, UnlockWake(t)
      PROVE  LineKept(m)
  <2>1. \A u \in Threads \ {t} : pc[u] = "u_wake" => arg[u] # arg[t]
    BY <1>13, <1>0, OneInCritical DEF UnlockWake, Critical
  <2>2. CASE m # arg[t]
    <3>1. \A u \in Threads : InHand(u, m)' <=> InHand(u, m)
      BY <1>0, <1>13, <2>2 DEF UnlockWake, InHand, Goto, TypeOK
    <3>2. UNCHANGED queue[m]
      BY <1>13 DEF UnlockWake
    <3>. QED  BY <3>1, <3>2, SameChoice DEF LineKept
  <2>3. CASE m = arg[t]
    <3>. DEFINE c == cell[t]
    <3>1. queue[m] \in Seq(Threads) /\ queue'[m] = queue[m] /\ c \in Threads
      BY <1>0, <1>13, <2>3 DEF UnlockWake, TypeOK
    <3>2. \A u \in Threads : InHand(u, m) <=> u = c
      BY <1>0, <1>13, <2>1, <2>3 DEF UnlockWake, InHand
    <3>3. \A u \in Threads : ~InHand(u, m)'
      BY <1>0, <1>13, <2>1, <2>3 DEF UnlockWake, InHand, Goto, TypeOK
    <3>. HIDE DEF c
    <3>4. (CHOOSE u \in Threads : InHand(u, m)) = c
      BY <3>1, <3>2
    <3>5. WaitLine(m)' = queue[m] /\ WaitLine(m) = <<c>> \o queue[m]
      BY <3>1, <3>2, <3>3, <3>4 DEF WaitLine
    <3>. QED  BY <3>1, <3>5 DEF LineKept
  <2>. QED  BY <2>2, <2>3
<1>14. ASSUME NEW t \in Threads, UnlockLeave(t)
      PROVE  LineKept(m)
  BY <1>0, <1>a, <1>14 DEF UnlockLeave, HandsKept, Goto, TypeOK
<1>15. CASE UNCHANGED vars
  BY <1>15, <1>a DEF vars, HandsKept
<1>. QED
  BY <1>1, <1>2, <1>3, <1>4, <1>5, <1>6, <1>7, <1>8, <1>9, <1>10, <1>11, <1>12, <1>13, <1>14, <1>15
     DEF Next, Lock, Internal

\* However fast paths, trylocks and hand-offs interleave, threads wait in the
\* order of their enqueues and a mutex goes to the first of its waiters.
THEOREM NoOvertaking == Spec => FirstComeFirstServed
<1>1. IInv /\ [Next]_vars => \A m \in Mutexes : ServedInTurn(m)
  BY Gains, FreeHasNoWaiter, HandIsFirst DEF GainsLegal, ServedInTurn
<1>2. IInv /\ [Next]_vars => [\A m \in Mutexes : LineKept(m) /\ ServedInTurn(m)]_vars
  BY <1>1, LinesNext
<1>. QED  BY <1>2, Invariance, PTL DEF Spec, FirstComeFirstServed

---------------------------------------------------------------------------
\* Refinement of Mutex.

\* A mutex with `owned` unset has no owner.
LEMMA UnownedIsFree ==
  ASSUME IInv, NEW m \in Mutexes, owned[m] = 0
  PROVE  Abstract!Free(m)
BY DEF IInv, OneOwner, Possesses, Abstract!Free

\* A mutex that its possessor has not yet recorded is free in the abstract mutex.
LEMMA OnlyHolder ==
  ASSUME IInv, NEW t \in Threads, NEW m \in Mutexes,
         Possesses(t, m), m \notin held[t]
  PROVE  Abstract!Free(m)
BY DEF IInv, OneOwner, Possesses, Abstract!Free

\* Every step is a step of the abstract mutex or none.
LEMMA StepRefines ==
  IInv /\ [Next]_vars => [Abstract!MutexNext]_(Abstract!mutexVars)
<1> SUFFICES ASSUME IInv, [Next]_vars
             PROVE  [Abstract!MutexNext]_(Abstract!mutexVars)
  OBVIOUS
<1>0. TypeOK /\ CallsOK /\ ReadsOK /\ CellsSound
  BY DEF IInv
<1>a. \A t \in Threads : wait[t] = 1 => Waiting(t, arg[t])
  BY <1>0 DEF CellsSound
<1>. DEFINE wants == [t \in Threads |-> Wants(t)]
            Goal == [Abstract!MutexNext]_(Abstract!mutexVars)
<1>b. ASSUME UNCHANGED <<held, wants>>
      PROVE  Goal
  BY <1>b DEF Abstract!mutexVars
<1>c. ASSUME NEW t \in Threads, NEW m \in Mutexes,
             \/ Abstract!Request(t, m)
             \/ Abstract!Acquire(t, m)
             \/ Abstract!Release(t, m)
      PROVE  Goal
  BY <1>c DEF Abstract!MutexNext
<1>1. ASSUME NEW t \in Threads, NEW m \in Mutexes, FastLock(t, m)
      PROVE  Goal
  <2>1. Wants(t) = {} /\ \A u \in Threads : Wants(u)' = Wants(u)
    BY <1>0, <1>1 DEF FastLock, Wants, TypeOK
  <2>2. wants' = [wants EXCEPT ![t] = {}]
    BY <2>1
  <2>3. Abstract!Free(m)
    <3>1. owned[m] = 0
      BY <1>1 DEF FastLock
    <3>. QED  BY <3>1, UnownedIsFree
  <2>4. Abstract!Acquire(t, m)
    BY <1>1, <2>1, <2>2, <2>3 DEF FastLock, Abstract!Acquire
  <2>. HIDE DEF Goal
  <2>. QED  BY <1>c, <2>4
<1>2. ASSUME NEW t \in Threads, NEW m \in Mutexes, SlowLock(t, m)
      PROVE  Goal
  <2>1. Wants(t) = {} /\ Wants(t)' = {m}
        /\ \A u \in Threads \ {t} : Wants(u)' = Wants(u)
    BY <1>0, <1>2 DEF SlowLock, Wants, Goto, TypeOK
  <2>2. wants' = [wants EXCEPT ![t] = {m}]
    BY <2>1
  <2>3. m \notin held[t] /\ UNCHANGED held
    BY <1>0, <1>2, RankAssumption DEF SlowLock, InOrder, TypeOK
  <2>4. Abstract!Request(t, m)
    BY <2>1, <2>2, <2>3 DEF Abstract!Request
  <2>. HIDE DEF Goal
  <2>. QED  BY <1>c, <2>4
<1>3. ASSUME NEW t \in Threads, NEW m \in Mutexes, TryLock(t, m)
      PROVE  Goal
  <2>1. Wants(t) = {} /\ \A u \in Threads : Wants(u)' = Wants(u)
    BY <1>0, <1>3 DEF TryLock, Wants, TypeOK
  <2>2. wants' = [wants EXCEPT ![t] = {}]
    BY <2>1
  <2>3. Abstract!Free(m)
    <3>1. owned[m] = 0
      BY <1>3 DEF TryLock
    <3>. QED  BY <3>1, UnownedIsFree
  <2>4. Abstract!Acquire(t, m)
    BY <1>3, <2>1, <2>2, <2>3 DEF TryLock, Abstract!Acquire
  <2>. HIDE DEF Goal
  <2>. QED  BY <1>c, <2>4
<1>4. ASSUME NEW t \in Threads, NEW m \in Mutexes, Unlock(t, m)
      PROVE  Goal
  <2>1. Wants(t) = {} /\ \A u \in Threads : Wants(u)' = Wants(u)
    BY <1>0, <1>4 DEF Unlock, Wants, Goto, TypeOK
  <2>2. UNCHANGED wants
    BY <2>1
  <2>3. Abstract!Release(t, m)
    BY <1>4, <2>1, <2>2 DEF Unlock, Abstract!Release
  <2>. HIDE DEF Goal
  <2>. QED  BY <1>c, <2>3
<1>5. ASSUME NEW t \in Threads, LockTake(t)
      PROVE  Goal
  <2>1. UNCHANGED held /\ \A u \in Threads : Wants(u)' = Wants(u)
    BY <1>0, <1>5 DEF LockTake, Wants, Goto, TypeOK
  <2>2. UNCHANGED wants
    BY <2>1
  <2>. HIDE DEF wants, Goal
  <2>. QED  BY <1>b, <2>1, <2>2
<1>6. ASSUME NEW t \in Threads, LockRetry(t)
      PROVE  Goal
  <2>1. UNCHANGED held /\ \A u \in Threads : Wants(u)' = Wants(u)
    BY <1>0, <1>6 DEF LockRetry, Wants, Goto, TypeOK
  <2>2. UNCHANGED wants
    BY <2>1
  <2>. HIDE DEF wants, Goal
  <2>. QED  BY <1>b, <2>1, <2>2
<1>7. ASSUME NEW t \in Threads, LockEnqueue(t)
      PROVE  Goal
  <2>1. UNCHANGED held /\ \A u \in Threads : Wants(u)' = Wants(u)
    BY <1>0, <1>7 DEF LockEnqueue, Wants, Goto, TypeOK
  <2>2. UNCHANGED wants
    BY <2>1
  <2>. HIDE DEF wants, Goal
  <2>. QED  BY <1>b, <2>1, <2>2
<1>8. ASSUME NEW t \in Threads, LockLeave(t)
      PROVE  Goal
  <2>1. UNCHANGED held /\ \A u \in Threads : Wants(u)' = Wants(u)
    BY <1>0, <1>8 DEF LockLeave, Wants, Goto, TypeOK
  <2>2. UNCHANGED wants
    BY <2>1
  <2>. HIDE DEF wants, Goal
  <2>. QED  BY <1>b, <2>1, <2>2
<1>9. ASSUME NEW t \in Threads, LockReturn(t)
      PROVE  Goal
  <2>. DEFINE m == arg[t]
  <2>0. m \in Mutexes
    BY <1>0 DEF TypeOK
  <2>1. Wants(t) = {m} /\ Wants(t)' = {}
        /\ \A u \in Threads \ {t} : Wants(u)' = Wants(u)
    BY <1>0, <1>9 DEF LockReturn, Wants, Goto, TypeOK
  <2>2. wants' = [wants EXCEPT ![t] = {}]
    BY <2>1
  <2>3. Possesses(t, m) /\ m \notin held[t]
    BY <1>0, <1>9 DEF LockReturn, Possesses, Granted, CallsOK
  <2>4. Abstract!Free(m)
    BY <2>0, <2>3, OnlyHolder
  <2>5. Abstract!Acquire(t, m)
    BY <1>9, <2>1, <2>2, <2>4 DEF LockReturn, Abstract!Acquire
  <2>. HIDE DEF Goal, m
  <2>. QED  BY <1>c, <2>0, <2>5
<1>10. ASSUME NEW t \in Threads, UnlockRead(t)
      PROVE  Goal
  <2>1. UNCHANGED held /\ \A u \in Threads : Wants(u)' = Wants(u)
    BY <1>0, <1>10 DEF UnlockRead, Wants, Goto, TypeOK
  <2>2. UNCHANGED wants
    BY <2>1
  <2>. HIDE DEF wants, Goal
  <2>. QED  BY <1>b, <2>1, <2>2
<1>11. ASSUME NEW t \in Threads, UnlockFree(t)
      PROVE  Goal
  <2>1. UNCHANGED held /\ \A u \in Threads : Wants(u)' = Wants(u)
    BY <1>0, <1>11 DEF UnlockFree, Wants, Goto, TypeOK
  <2>2. UNCHANGED wants
    BY <2>1
  <2>. HIDE DEF wants, Goal
  <2>. QED  BY <1>b, <2>1, <2>2
<1>12. ASSUME NEW t \in Threads, UnlockDequeue(t)
      PROVE  Goal
  <2>1. UNCHANGED held /\ \A u \in Threads : Wants(u)' = Wants(u)
    BY <1>0, <1>12 DEF UnlockDequeue, Wants, Goto, TypeOK
  <2>2. UNCHANGED wants
    BY <2>1
  <2>. HIDE DEF wants, Goal
  <2>. QED  BY <1>b, <2>1, <2>2
<1>13. ASSUME NEW t \in Threads, UnlockWake(t)
      PROVE  Goal
  <2>1. UNCHANGED held /\ \A u \in Threads : Wants(u)' = Wants(u)
    BY <1>0, <1>13 DEF UnlockWake, Wants, Goto, TypeOK
  <2>2. UNCHANGED wants
    BY <2>1
  <2>. HIDE DEF wants, Goal
  <2>. QED  BY <1>b, <2>1, <2>2
<1>14. ASSUME NEW t \in Threads, UnlockLeave(t)
      PROVE  Goal
  <2>1. UNCHANGED held /\ \A u \in Threads : Wants(u)' = Wants(u)
    BY <1>0, <1>14 DEF UnlockLeave, Wants, Goto, TypeOK
  <2>2. UNCHANGED wants
    BY <2>1
  <2>. HIDE DEF wants, Goal
  <2>. QED  BY <1>b, <2>1, <2>2
<1>15. CASE UNCHANGED vars
  BY <1>15 DEF vars, Wants, Abstract!mutexVars
<1>16. (\E t \in Threads : Lock(t) \/ Internal(t) \/ \E m \in Mutexes : Unlock(t, m)) => Goal
  <2>. HIDE DEF Goal
  <2>. QED  BY <1>1, <1>2, <1>3, <1>4, <1>5, <1>6, <1>7, <1>8, <1>9, <1>10, <1>11, <1>12, <1>13, <1>14
       DEF Lock, Internal
<1>. QED  BY <1>15, <1>16 DEF Next

\* The spinning mutex implements the mutex its callers expect.
THEOREM Refinement == Spec => ImplementsMutex
<1>1. Init => Abstract!MutexInit
  BY DEF Init, Abstract!MutexInit, Wants
<1>. QED
  BY <1>1, StepRefines, Invariance, PTL
     DEF Spec, ImplementsMutex, Abstract!MutexSpec

=============================================================================
