--------------------------- MODULE QueueUseProofs ---------------------------
(* The lists of QueueUse, for every set of queues and cells. *)
EXTENDS QueueUse, SpinQueueProofs

---------------------------------------------------------------------------
\* The invariant in the terms of SpinQueueProofs: the words of the queues that
\* are being emptied are out of date, but for the tail.

Emptied == {q \in Queues : stage[q] = "emptying"}

Kinds ==
  /\ stage \in [Queues -> {"open", "taken", "emptying"}]
  /\ hand \in [Queues -> Ptr]
  /\ dest \in [Queues -> Queues \cup {NULL}]
  /\ late \subseteq Cells

Left(q) ==
  IF cells[q] = <<>> THEN hand[q] = NULL
  ELSE hand[q] = cells[q][1] /\ heap.tail[q] = cells[q][Len(cells[q])]

Carries ==
  /\ \A c \in Cells : Carried(c) => ~Listed(c)
  /\ \A q, r \in Queues :
       stage[q] = "taken" /\ stage[r] = "taken" /\ hand[q] = hand[r] => q = r

Spelled == Sound(heap, cells, Emptied) /\ \A q \in Emptied : Left(q)

KInv == Spelled /\ Kinds /\ Carries /\ Hands /\ WaitersReachable

\* What the list of a queue becomes, seen by its cells.
LEMMA ListedBut ==
  ASSUME Sound(heap, cells, Emptied), cells' \in [Queues -> Seq(Cells)],
         NEW q \in Queues, NEW c \in Cells, IsIn(c, cells[q]),
         \A x \in Cells : IsIn(x, cells'[q]) <=> IsIn(x, cells[q]) /\ x # c,
         \A r \in Queues \ {q} : cells'[r] = cells[r]
  PROVE  \A x \in Cells : Listed(x)' <=> Listed(x) /\ x # c
<1>1. \A r \in Queues \ {q} : ~IsIn(c, cells[r])
  BY OneList
<1>2. ASSUME NEW x \in Cells, NEW r \in Queues
      PROVE  IsIn(x, cells'[r]) <=> IsIn(x, cells[r]) /\ x # c
  BY <1>1
<1> QED BY <1>2 DEF Listed

LEMMA ListedAnd ==
  ASSUME cells' \in [Queues -> Seq(Cells)],
         NEW q \in Queues, NEW c \in Cells,
         \A x \in Cells : IsIn(x, cells'[q]) <=> IsIn(x, cells[q]) \/ x = c,
         \A r \in Queues \ {q} : cells'[r] = cells[r]
  PROVE  \A x \in Cells : Listed(x)' <=> Listed(x) \/ x = c
<1>1. ASSUME NEW x \in Cells, NEW r \in Queues
      PROVE  IsIn(x, cells'[r]) <=> IsIn(x, cells[r]) \/ (r = q /\ x = c)
  OBVIOUS
<1> QED BY <1>1 DEF Listed

\* A queue that is being emptied is not disturbed by what is done elsewhere.
LEMMA LeftKept ==
  ASSUME NEW q \in Queues, Left(q), hand'[q] = hand[q], cells'[q] = cells[q],
         heap'.tail[q] = heap.tail[q]
  PROVE  Left(q)'
BY DEF Left

\* The tail of a queue is only written by operations on it.
LEMMA OtherTails ==
  ASSUME NEW h \in Heaps, NEW q \in Queues, NEW r \in Queues, q # r,
         NEW a \in Cells, NEW b \in Cells
  PROVE  /\ Enqueue(h, q, a).tail[r] = h.tail[r]
         /\ Enqueues(h, q, a, b).tail[r] = h.tail[r]
         /\ Dequeue(h, q, a).tail[r] = h.tail[r]
         /\ Flush(h, q).tail[r] = h.tail[r]
         /\ Wake(h, a).tail[r] = h.tail[r]
BY DEF Heaps, Enqueue, Enqueues, Dequeue, Flush, Wake

---------------------------------------------------------------------------
\* Each operation preserves the invariant.

\* A thread that queues its cell.
LEMMA PutStep ==
  ASSUME KInv, NEW q \in Queues, NEW c \in Cells, Put(q, c)
  PROVE  KInv'
<1>1. /\ stage[q] = "open" /\ \A r \in Queues : dest[r] # q
      /\ heap.wait[c] = 0 /\ c \notin late
      /\ heap' = Enqueue(heap, q, c) /\ cells' = [cells EXCEPT ![q] = Append(@, c)]
      /\ stage' = stage /\ hand' = hand /\ dest' = dest /\ late' = late
  BY DEF Put, Free, Up
<1>2. q \in Queues \ Emptied /\ Emptied' = Emptied
  BY <1>1 DEF Emptied
<1>3. /\ Sound(heap, cells, Emptied) /\ heap \in Heaps /\ cells \in [Queues -> Seq(Cells)]
      /\ cells[q] \in Seq(Cells) /\ Distinct(cells[q]) /\ ~Listed(c) /\ ~Carried(c)
  BY <1>1 DEF KInv, Spelled, Sound, WaitersReachable
<1>4. Sound(heap', cells', Emptied)
  BY <1>1, <1>2, <1>3, SoundEnqueue DEF Listed
<1>5. /\ \A x \in Cells : IsIn(x, cells'[q]) <=> IsIn(x, cells[q]) \/ x = c
      /\ \A r \in Queues \ {q} : cells'[r] = cells[r]
  BY <1>1, <1>3, AppendHolds DEF Listed
<1>6. \A x \in Cells : Listed(x)' <=> Listed(x) \/ x = c
  BY <1>4, <1>5, ListedAnd DEF Sound
<1>7. \A x \in Cells : Carried(x)' <=> Carried(x)
  BY <1>1 DEF Carried
<1>8. \A x \in Cells : heap'.wait[x] = IF x = c THEN 1 ELSE heap.wait[x]
  BY <1>1, <1>3, WaitBytes
<1>9. ASSUME NEW r \in Emptied PROVE Left(r)'
  BY <1>1, <1>2, <1>3, <1>5, LeftKept, OtherTails DEF KInv, Spelled, Emptied
<1>10. WaitersReachable'
  <2>1. \A x \in Cells : heap'.wait[x] = 1 <=> (Listed(x)' \/ Carried(x)') /\ x \notin late
    BY <1>1, <1>6, <1>7, <1>8 DEF KInv, WaitersReachable
  <2>2. \A x \in late : \E r \in Timed : IsIn(x, cells'[r]) /\ stage[r] # "emptying"
    BY <1>5, QueueAssumption DEF KInv, Kinds, WaitersReachable
  <2> QED BY <1>1, <2>1, <2>2 DEF WaitersReachable
<1>11. Carries'
  BY <1>1, <1>3, <1>6, <1>7 DEF KInv, Carries
<1> QED BY <1>1, <1>2, <1>4, <1>9, <1>10, <1>11 DEF KInv, Spelled, Kinds, Hands

\* A queue whose lock is free, and its head.
LEMMA FreeHead ==
  ASSUME KInv, NEW q \in Queues, Free(q), heap.head[q] # NULL
  PROVE  /\ q \in Queues \ Emptied /\ stage[q] = "open" /\ \A r \in Queues : dest[r] # q
         /\ Sound(heap, cells, Emptied) /\ heap \in Heaps /\ cells \in [Queues -> Seq(Cells)]
         /\ cells[q] \in Seq(Cells) /\ cells[q] # <<>> /\ Distinct(cells[q])
         /\ 1 \in 1..Len(cells[q]) /\ heap.head[q] = cells[q][1] /\ heap.head[q] \in Cells
         /\ heap.tail[q] = cells[q][Len(cells[q])]
         /\ Tail(cells[q]) = Without(cells[q], 1)
         /\ \A x \in Cells : IsIn(x, Tail(cells[q])) <=> IsIn(x, cells[q]) /\ x # heap.head[q]
         /\ Represents(heap, q, cells[q])
         /\ IsIn(heap.head[q], cells[q]) /\ Listed(heap.head[q]) /\ ~Carried(heap.head[q])
<1>1. q \in Queues \ Emptied /\ stage[q] = "open" /\ \A r \in Queues : dest[r] # q
  BY DEF Free, Emptied
<1>2. /\ Sound(heap, cells, Emptied) /\ heap \in Heaps /\ cells \in [Queues -> Seq(Cells)]
      /\ Represents(heap, q, cells[q])
  BY <1>1 DEF KInv, Spelled, Sound, ListOf
<1>3. /\ cells[q] \in Seq(Cells) /\ cells[q] # <<>> /\ Distinct(cells[q])
      /\ 1 \in 1..Len(cells[q]) /\ heap.head[q] = cells[q][1] /\ heap.head[q] \in Cells
      /\ heap.tail[q] = cells[q][Len(cells[q])]
      /\ Tail(cells[q]) = Without(cells[q], 1)
  <2>1. PICK F : F = Emptied
    OBVIOUS
  <2>2. q \in Queues \ F /\ Sound(heap, cells, F)
    BY <1>1, <1>2, <2>1
  <2> QED BY <2>2, HeadCell
<1>4. \A x \in Cells : IsIn(x, Without(cells[q], 1)) <=> IsIn(x, cells[q]) /\ x # cells[q][1]
  BY <1>3, WithoutHolds
<1>5. IsIn(heap.head[q], cells[q])
  BY <1>3 DEF IsIn
<1>6. Listed(heap.head[q]) /\ ~Carried(heap.head[q])
  BY <1>3, <1>5 DEF KInv, Carries, Listed
<1> QED BY <1>1, <1>2, <1>3, <1>4, <1>5, <1>6

\* The head of a list is taken out.
LEMMA TakeStep ==
  ASSUME KInv, NEW q \in Queues, Take(q)
  PROVE  KInv'
<1> DEFINE c == heap.head[q]
<1>1. /\ Free(q) /\ c # NULL /\ c \notin late
      /\ heap' = Dequeue(heap, q, c) /\ cells' = [cells EXCEPT ![q] = Tail(@)]
      /\ stage' = [stage EXCEPT ![q] = "taken"] /\ hand' = [hand EXCEPT ![q] = c]
      /\ dest' = dest /\ late' = late
  BY DEF Take
<1>2. /\ q \in Queues \ Emptied /\ stage[q] = "open" /\ \A r \in Queues : dest[r] # q
      /\ Sound(heap, cells, Emptied) /\ heap \in Heaps /\ cells \in [Queues -> Seq(Cells)]
      /\ 1 \in 1..Len(cells[q]) /\ c = cells[q][1] /\ c \in Cells
      /\ Tail(cells[q]) = Without(cells[q], 1)
      /\ \A x \in Cells : IsIn(x, Tail(cells[q])) <=> IsIn(x, cells[q]) /\ x # c
      /\ IsIn(c, cells[q]) /\ Listed(c) /\ ~Carried(c)
  BY <1>1, FreeHead
<1> HIDE DEF c
<1>3. Kinds /\ Emptied' = Emptied
  BY <1>1, <1>2 DEF KInv, Kinds, Emptied
<1>4. Sound(heap', cells', Emptied) /\ cells' \in [Queues -> Seq(Cells)]
  <2>1. Sound(heap', cells', Emptied)
    BY <1>1, <1>2, SoundDequeue
  <2> QED BY <2>1 DEF Sound
<1>5. /\ \A x \in Cells : IsIn(x, cells'[q]) <=> IsIn(x, cells[q]) /\ x # c
      /\ \A r \in Queues \ {q} : cells'[r] = cells[r]
  BY <1>1, <1>2
<1>6. \A x \in Cells : Listed(x)' <=> Listed(x) /\ x # c
  <2>1. IsIn(c, cells[q]) /\ c \in Cells /\ Sound(heap, cells, Emptied)
    BY <1>2
  <2> QED BY <1>4, <1>5, <2>1, ListedBut
<1>7. \A x \in Cells : Carried(x)' <=> Carried(x) \/ x = c
  BY <1>1, <1>2, <1>3 DEF Carried, Kinds
<1>8. \A x \in Cells : heap'.wait[x] = heap.wait[x]
  BY <1>1, <1>2, WaitBytes
<1>9. ASSUME NEW r \in Emptied PROVE Left(r)'
  <2>1. r \in Queues /\ r # q /\ Left(r)
    BY <1>2, <1>9 DEF Emptied, KInv, Spelled
  <2>2. heap'.tail[r] = heap.tail[r]
    BY <1>1, <1>2, <2>1, OtherTails
  <2>3. hand'[r] = hand[r]
    BY <1>1, <1>3, <2>1 DEF Kinds
  <2> QED BY <1>5, <2>1, <2>2, <2>3, LeftKept
<1>10. WaitersReachable'
  <2>1. \A x \in Cells : heap'.wait[x] = 1 <=> (Listed(x)' \/ Carried(x)') /\ x \notin late
    BY <1>1, <1>2, <1>6, <1>7, <1>8 DEF KInv, WaitersReachable
  <2>2. \A x \in late : \E r \in Timed : IsIn(x, cells'[r]) /\ stage'[r] # "emptying"
    BY <1>1, <1>3, <1>5, QueueAssumption DEF KInv, Kinds, WaitersReachable
  <2> QED BY <1>1, <2>1, <2>2 DEF WaitersReachable
<1>11. Carries'
  <2>1. \A x \in Cells : Carried(x)' => ~Listed(x)'
    BY <1>2, <1>6, <1>7 DEF KInv, Carries
  <2>2. \A r, t \in Queues :
          stage'[r] = "taken" /\ stage'[t] = "taken" /\ hand'[r] = hand'[t] => r = t
    BY <1>1, <1>2, <1>3 DEF KInv, Carries, Carried, Kinds
  <2> QED BY <2>1, <2>2 DEF Carries
<1>12. Kinds' /\ Hands'
  BY <1>1, <1>2, <1>3 DEF KInv, Kinds, Hands, Ptr
<1> QED BY <1>3, <1>4, <1>9, <1>10, <1>11, <1>12 DEF KInv, Spelled

\* What is in the hand of a thread that has taken a cell out.
LEMMA InHand ==
  ASSUME KInv, NEW q \in Queues, stage[q] = "taken"
  PROVE  /\ hand[q] \in Cells /\ Carried(hand[q]) /\ ~Listed(hand[q])
         /\ hand[q] \notin late /\ heap.wait[hand[q]] = 1 /\ dest[q] = NULL
         /\ Kinds /\ Sound(heap, cells, Emptied) /\ heap \in Heaps
         /\ \A r \in Queues : dest[r] # q
<1>1. hand[q] \in Cells /\ dest[q] = NULL /\ \A r \in Queues : dest[r] # q
  BY QueueAssumption DEF KInv, Hands
<1>2. Carried(hand[q])
  BY DEF Carried
<1>3. ~Listed(hand[q])
  BY <1>1, <1>2 DEF KInv, Carries
<1>4. hand[q] \notin late
  BY <1>3, QueueAssumption DEF KInv, WaitersReachable, Listed
<1> QED BY <1>1, <1>2, <1>3, <1>4 DEF KInv, Spelled, Sound, WaitersReachable

\* Once the cell is let go by Done, no other hand holds it.
LEMMA LetGo ==
  ASSUME KInv, NEW q \in Queues, stage[q] = "taken", Done(q)
  PROVE  /\ \A x \in Cells : Carried(x)' <=> Carried(x) /\ x # hand[q]
         /\ Emptied' = Emptied /\ Kinds /\ dest' = dest
         /\ \A r \in Queues \ {q} : stage'[r] = stage[r] /\ hand'[r] = hand[r]
         /\ stage'[q] = "open" /\ hand'[q] = NULL
         /\ stage' \in [Queues -> {"open", "taken", "emptying"}] /\ hand' \in [Queues -> Ptr]
         /\ \A r, t \in Queues :
              stage'[r] = "taken" /\ stage'[t] = "taken" /\ hand'[r] = hand'[t] => r = t
<1>1. Kinds /\ dest[q] = NULL
  BY InHand
<1>2. /\ stage' = [stage EXCEPT ![q] = "open"] /\ hand' = [hand EXCEPT ![q] = NULL]
      /\ dest' = [dest EXCEPT ![q] = NULL]
  BY DEF Done
<1>3. Emptied' = Emptied /\ dest' = dest
  BY <1>1, <1>2 DEF Emptied, Kinds
<1>4. /\ \A r \in Queues \ {q} : stage'[r] = stage[r] /\ hand'[r] = hand[r]
      /\ stage'[q] = "open" /\ hand'[q] = NULL
      /\ stage' \in [Queues -> {"open", "taken", "emptying"}] /\ hand' \in [Queues -> Ptr]
  BY <1>1, <1>2 DEF Kinds, Ptr
<1>5. \A r, t \in Queues :
        stage'[r] = "taken" /\ stage'[t] = "taken" /\ hand'[r] = hand'[t] => r = t
  BY <1>4 DEF KInv, Carries
<1>6. \A x \in Cells : Carried(x)' <=> Carried(x) /\ x # hand[q]
  BY <1>4 DEF KInv, Carries, Carried
<1> QED BY <1>1, <1>3, <1>4, <1>5, <1>6

\* The thread of the cell taken out is woken.
LEMMA WakeTakenStep ==
  ASSUME KInv, NEW q \in Queues, WakeTaken(q)
  PROVE  KInv'
<1> DEFINE c == hand[q]
<1>1. /\ stage[q] = "taken" /\ Done(q) /\ heap' = Wake(heap, c)
      /\ cells' = cells /\ late' = late
  BY DEF WakeTaken
<1>2. /\ c \in Cells /\ ~Listed(c) /\ c \notin late
      /\ Sound(heap, cells, Emptied) /\ heap \in Heaps /\ \A r \in Queues : dest[r] # q
  BY <1>1, InHand
<1>3. /\ \A x \in Cells : Carried(x)' <=> Carried(x) /\ x # c
      /\ Emptied' = Emptied /\ Kinds /\ dest' = dest
      /\ \A r \in Queues \ {q} : stage'[r] = stage[r] /\ hand'[r] = hand[r]
      /\ stage'[q] = "open" /\ hand'[q] = NULL
      /\ stage' \in [Queues -> {"open", "taken", "emptying"}] /\ hand' \in [Queues -> Ptr]
      /\ \A r, t \in Queues :
           stage'[r] = "taken" /\ stage'[t] = "taken" /\ hand'[r] = hand'[t] => r = t
  BY <1>1, LetGo
<1> HIDE DEF c
<1>4. Sound(heap', cells', Emptied)
  BY <1>1, <1>2, SoundWake
<1>5. \A x \in Cells : Listed(x)' <=> Listed(x)
  BY <1>1 DEF Listed
<1>6. \A x \in Cells : heap'.wait[x] = IF x = c THEN 0 ELSE heap.wait[x]
  BY <1>1, <1>2, WaitBytes
<1>7. ASSUME NEW r \in Emptied PROVE Left(r)'
  <2>1. r \in Queues /\ r # q /\ Left(r)
    BY <1>1, <1>7 DEF Emptied, KInv, Spelled
  <2>2. heap'.tail[r] = heap.tail[r]
    BY <1>1 DEF Wake
  <2> QED BY <1>1, <1>3, <2>1, <2>2, LeftKept
<1>8. WaitersReachable'
  <2>1. \A x \in Cells : heap'.wait[x] = 1 <=> (Listed(x)' \/ Carried(x)') /\ x \notin late
    BY <1>2, <1>3, <1>5, <1>6 DEF KInv, WaitersReachable
  <2>2. \A x \in late : \E r \in Timed : IsIn(x, cells'[r]) /\ stage'[r] # "emptying"
    BY <1>1, <1>3, QueueAssumption DEF KInv, WaitersReachable
  <2> QED BY <1>1, <2>1, <2>2 DEF WaitersReachable
<1>9. Carries'
  BY <1>3, <1>5 DEF KInv, Carries
<1>10. Kinds' /\ Hands'
  BY <1>1, <1>2, <1>3 DEF KInv, Kinds, Hands
<1> QED BY <1>3, <1>4, <1>7, <1>8, <1>9, <1>10 DEF KInv, Spelled

\* The cell taken out is queued on the mutex.
LEMMA MoveTakenStep ==
  ASSUME KInv, NEW q \in Queues, NEW d \in Queues, MoveTaken(q, d)
  PROVE  KInv'
<1> DEFINE c == hand[q]
<1>1. /\ stage[q] = "taken" /\ Done(q) /\ Free(d) /\ heap' = Enqueue(heap, d, c)
      /\ cells' = [cells EXCEPT ![d] = Append(@, c)] /\ late' = late /\ d \notin Conds
  BY DEF MoveTaken
<1>2. /\ c \in Cells /\ ~Listed(c) /\ c \notin late /\ heap.wait[c] = 1
      /\ Sound(heap, cells, Emptied) /\ heap \in Heaps /\ \A r \in Queues : dest[r] # q
  BY <1>1, InHand
<1>3. /\ \A x \in Cells : Carried(x)' <=> Carried(x) /\ x # c
      /\ Emptied' = Emptied /\ Kinds /\ dest' = dest
      /\ \A r \in Queues \ {q} : stage'[r] = stage[r] /\ hand'[r] = hand[r]
      /\ stage'[q] = "open" /\ hand'[q] = NULL
      /\ stage' \in [Queues -> {"open", "taken", "emptying"}] /\ hand' \in [Queues -> Ptr]
      /\ \A r, t \in Queues :
           stage'[r] = "taken" /\ stage'[t] = "taken" /\ hand'[r] = hand'[t] => r = t
  BY <1>1, LetGo
<1>4. /\ d \in Queues \ Emptied /\ cells \in [Queues -> Seq(Cells)] /\ Carried(c)
      /\ cells[d] \in Seq(Cells) /\ Distinct(cells[d]) /\ ~IsIn(c, cells[d])
  BY <1>1, <1>2, InHand DEF Free, Emptied, Sound, Listed
<1> HIDE DEF c
<1>5. Sound(heap', cells', Emptied)
  BY <1>1, <1>2, <1>4, SoundEnqueue DEF Listed
<1>6. /\ \A x \in Cells : IsIn(x, cells'[d]) <=> IsIn(x, cells[d]) \/ x = c
      /\ \A r \in Queues \ {d} : cells'[r] = cells[r]
  BY <1>1, <1>2, <1>4, AppendHolds
<1>7. \A x \in Cells : Listed(x)' <=> Listed(x) \/ x = c
  BY <1>2, <1>5, <1>6, ListedAnd DEF Sound
<1>8. \A x \in Cells : heap'.wait[x] = heap.wait[x]
  BY <1>1, <1>2, WaitBytes
<1>9. ASSUME NEW r \in Emptied PROVE Left(r)'
  <2>1. r \in Queues /\ r # q /\ r # d /\ Left(r)
    BY <1>1, <1>4, <1>9 DEF Emptied, KInv, Spelled
  <2>2. heap'.tail[r] = heap.tail[r]
    BY <1>1, <1>2, <2>1, OtherTails
  <2> QED BY <1>3, <1>6, <2>1, <2>2, LeftKept
<1>10. WaitersReachable'
  <2>1. \A x \in Cells : heap'.wait[x] = 1 <=> (Listed(x)' \/ Carried(x)') /\ x \notin late
    BY <1>2, <1>3, <1>4, <1>7, <1>8 DEF KInv, WaitersReachable
  <2>2. \A x \in late : \E r \in Timed : IsIn(x, cells'[r]) /\ stage'[r] # "emptying"
    BY <1>3, <1>6, QueueAssumption DEF KInv, Kinds, WaitersReachable
  <2> QED BY <1>1, <2>1, <2>2 DEF WaitersReachable
<1>11. Carries'
  BY <1>3, <1>7 DEF KInv, Carries
<1>12. Kinds' /\ Hands'
  BY <1>1, <1>2, <1>3 DEF KInv, Kinds, Hands
<1> QED BY <1>3, <1>5, <1>9, <1>10, <1>11, <1>12 DEF KInv, Spelled

\* A thread stops spinning on its own.
LEMMA GiveUpStep ==
  ASSUME KInv, NEW c \in Cells, GiveUp(c)
  PROVE  KInv'
<1>1. /\ heap.wait[c] = 1 /\ \E q \in Timed : IsIn(c, cells[q]) /\ stage[q] # "emptying"
      /\ heap' = Wake(heap, c) /\ late' = late \cup {c}
      /\ stage' = stage /\ hand' = hand /\ dest' = dest /\ cells' = cells
  BY DEF GiveUp
<1>2. /\ Sound(heap, cells, Emptied) /\ heap \in Heaps /\ Emptied' = Emptied
      /\ Listed(c) /\ ~Carried(c)
  BY <1>1, QueueAssumption DEF KInv, Spelled, Sound, Emptied, Listed, Carries
<1>3. Sound(heap', cells', Emptied)
  BY <1>1, <1>2, SoundWake
<1>4. \A x \in Cells : (Listed(x)' <=> Listed(x)) /\ (Carried(x)' <=> Carried(x))
  BY <1>1 DEF Listed, Carried
<1>5. \A x \in Cells : heap'.wait[x] = IF x = c THEN 0 ELSE heap.wait[x]
  BY <1>1, <1>2, QueueAssumption, WaitBytes
<1>6. ASSUME NEW r \in Emptied PROVE Left(r)'
  <2>1. r \in Queues /\ Left(r) /\ heap'.tail[r] = heap.tail[r]
    BY <1>1, <1>6 DEF Emptied, KInv, Spelled, Wake
  <2> QED BY <1>1, <2>1, LeftKept
<1>7. WaitersReachable'
  <2>1. \A x \in Cells : heap'.wait[x] = 1 <=> (Listed(x)' \/ Carried(x)') /\ x \notin late'
    BY <1>1, <1>4, <1>5 DEF KInv, WaitersReachable
  <2>2. \A x \in late' : \E r \in Timed : IsIn(x, cells'[r]) /\ stage'[r] # "emptying"
    BY <1>1 DEF KInv, WaitersReachable
  <2> QED BY <2>1, <2>2 DEF WaitersReachable
<1>8. Carries' /\ Kinds' /\ Hands'
  BY <1>1, <1>4 DEF KInv, Carries, Kinds, Hands
<1> QED BY <1>2, <1>3, <1>6, <1>7, <1>8 DEF KInv, Spelled

\* A late cell takes itself out.
LEMMA TakeSelfStep ==
  ASSUME KInv, NEW q \in Queues, NEW k \in 1..Len(cells[q]), TakeSelf(q, k)
  PROVE  KInv'
<1> DEFINE c == cells[q][k]
<1>1. /\ Free(q) /\ c \in late /\ heap' = Dequeue(heap, q, c)
      /\ cells' = [cells EXCEPT ![q] = Without(@, k)] /\ late' = late \ {c}
      /\ stage' = stage /\ hand' = hand /\ dest' = dest
  BY DEF TakeSelf
<1>2. /\ q \in Queues \ Emptied /\ Emptied' = Emptied /\ stage[q] = "open"
      /\ Sound(heap, cells, Emptied) /\ heap \in Heaps /\ cells \in [Queues -> Seq(Cells)]
      /\ cells[q] \in Seq(Cells) /\ Distinct(cells[q]) /\ c \in Cells /\ Kinds
      /\ IsIn(c, cells[q])
  <2>1. q \in Queues \ Emptied /\ Emptied' = Emptied /\ stage[q] = "open"
    BY <1>1 DEF Emptied, Free
  <2>2. /\ Sound(heap, cells, Emptied) /\ heap \in Heaps /\ cells \in [Queues -> Seq(Cells)]
        /\ cells[q] \in Seq(Cells) /\ Distinct(cells[q]) /\ c \in Cells /\ Kinds
    BY DEF KInv, Spelled, Sound
  <2>3. IsIn(c, cells[q])
    BY DEF IsIn
  <2> QED BY <2>1, <2>2, <2>3
<1>3. Listed(c) /\ ~Carried(c)
  BY <1>2 DEF Listed, KInv, Carries
<1>4. \A x \in Cells : IsIn(x, Without(cells[q], k)) <=> IsIn(x, cells[q]) /\ x # c
  BY <1>2, WithoutHolds
<1>5. Sound(heap', cells', Emptied)
  BY <1>1, <1>2, SoundDequeue
<1> HIDE DEF c
<1>6. /\ \A x \in Cells : IsIn(x, cells'[q]) <=> IsIn(x, cells[q]) /\ x # c
      /\ \A r \in Queues \ {q} : cells'[r] = cells[r]
  BY <1>1, <1>2, <1>4
<1>7. \A x \in Cells : Listed(x)' <=> Listed(x) /\ x # c
  BY <1>2, <1>5, <1>6, ListedBut DEF Sound
<1>8. \A x \in Cells : Carried(x)' <=> Carried(x)
  BY <1>1 DEF Carried
<1>9. \A x \in Cells : heap'.wait[x] = heap.wait[x]
  BY <1>1, <1>2, WaitBytes
<1>10. ASSUME NEW r \in Emptied PROVE Left(r)'
  <2>1. r \in Queues /\ r # q /\ Left(r)
    BY <1>2, <1>10 DEF Emptied, KInv, Spelled
  <2>2. heap'.tail[r] = heap.tail[r]
    BY <1>1, <1>2, <2>1, OtherTails
  <2> QED BY <1>1, <1>6, <2>1, <2>2, LeftKept
<1>11. WaitersReachable'
  <2>1. \A x \in Cells : heap'.wait[x] = 1 <=> (Listed(x)' \/ Carried(x)') /\ x \notin late'
    BY <1>1, <1>3, <1>7, <1>8, <1>9 DEF KInv, WaitersReachable
  <2>2. \A x \in late' : \E r \in Timed : IsIn(x, cells'[r]) /\ stage'[r] # "emptying"
    BY <1>1, <1>2, <1>6, QueueAssumption DEF KInv, Kinds, WaitersReachable
  <2> QED BY <2>1, <2>2 DEF WaitersReachable
<1>12. Carries' /\ Kinds' /\ Hands'
  BY <1>1, <1>7, <1>8 DEF KInv, Carries, Kinds, Hands
<1> QED BY <1>2, <1>5, <1>10, <1>11, <1>12 DEF KInv, Spelled

---------------------------------------------------------------------------
\* A broadcast takes the list of its condition to pieces.

\* A list without its head is a piece of it, and so are a whole list and none.
LEMMA WholePieces ==
  ASSUME NEW s \in Seq(Cells), s # <<>>
  PROVE  /\ Piece(s, 2, Len(s)) = Tail(s)
         /\ Piece(s, 1, Len(s)) = s
         /\ Piece(s, Len(s) + 1, Len(s)) = <<>>
<1>1. Len(s) \in Nat /\ Len(s) > 0 /\ s = [i \in 1..Len(s) |-> s[i]]
  OBVIOUS
<1>2. Tail(s) = [i \in 1..(Len(s) - 1) |-> s[i + 1]]
  BY <1>1, TailIsWithout DEF Without
<1>3. Piece(s, 2, Len(s)) = [k \in 1..(Len(s) - 2 + 1) |-> s[k + 2 - 1]]
  BY DEF Piece
<1>4. Len(s) - 2 + 1 = Len(s) - 1 /\ \A k \in 1..(Len(s) - 1) : k + 2 - 1 = k + 1
  BY <1>1
<1>5. Piece(s, 1, Len(s)) = [k \in 1..(Len(s) - 1 + 1) |-> s[k + 1 - 1]]
  BY DEF Piece
<1>6. Len(s) - 1 + 1 = Len(s) /\ \A k \in 1..Len(s) : k + 1 - 1 = k
  BY <1>1
<1>7. Piece(s, Len(s) + 1, Len(s)) = <<>>
  BY <1>1 DEF Piece
<1> QED BY <1>1, <1>2, <1>3, <1>4, <1>5, <1>6, <1>7

\* Linked lists and their tails.
LEMMA NextOfHead ==
  ASSUME NEW h, NEW q, NEW s \in Seq(Cells), s # <<>>, Distinct(s), Represents(h, q, s)
  PROVE  /\ Tail(s) \in Seq(Cells)
         /\ Tail(s) = <<>> <=> s[1] = s[Len(s)]
         /\ Tail(s) = <<>> <=> h.next[s[1]] = NULL
         /\ Tail(s) # <<>> => /\ h.next[s[1]] = Tail(s)[1]
                              /\ h.tail[q] = Tail(s)[Len(Tail(s))]
<1>1. /\ Len(s) \in Nat /\ Len(s) > 0 /\ Tail(s) \in Seq(Cells) /\ Len(Tail(s)) = Len(s) - 1
      /\ \A i \in 1..(Len(s) - 1) : Tail(s)[i] = s[i + 1]
      /\ \A i \in 1..Len(s) : s[i] \in Cells
  OBVIOUS
<1>2. /\ h.tail[q] = s[Len(s)] /\ h.next[s[Len(s)]] = NULL
      /\ \A i \in 1..(Len(s) - 1) : h.next[s[i]] = s[i + 1]
  BY DEF Represents, Linked
<1>t. PICK u \in Seq(Cells) : u = Tail(s)
  BY <1>1
<1>3. CASE Len(s) = 1
  <2>1. Len(u) = 0
    BY <1>1, <1>3, <1>t
  <2>2. u = <<>>
    BY <2>1
  <2> QED BY <1>2, <1>3, <1>t, <2>2
<1>4. CASE Len(s) # 1
  <2>1. 1 \in 1..(Len(s) - 1) /\ Len(s) - 1 \in 1..(Len(s) - 1) /\ (Len(s) - 1) + 1 = Len(s)
        /\ 1 + 1 \in 1..Len(s) /\ Len(s) \in 1..Len(s)
    BY <1>1, <1>4
  <2>2. s[1] # s[Len(s)]
    BY <1>4, <2>1 DEF Distinct
  <2>3. h.next[s[1]] = s[1 + 1] /\ Tail(s)[1] = s[1 + 1] /\ s[1 + 1] \in Cells
    BY <1>1, <1>2, <2>1
  <2>4. Tail(s)[Len(s) - 1] = s[(Len(s) - 1) + 1]
    BY <1>1, <2>1
  <2>5. Tail(s) # <<>>
    <3>1. Len(u) # 0
      BY <1>1, <1>4, <1>t
    <3> QED BY <1>t, <3>1
  <2> QED BY <1>1, <1>2, <2>1, <2>2, <2>3, <2>4, <2>5, NullAssumption
<1> QED BY <1>3, <1>4

\* The waiter at the head is woken, and the rest is in the broadcast's hand.
LEMMA RouseStep ==
  ASSUME KInv, NEW q \in Queues, NEW d \in Queues, Rouse(q, d)
  PROVE  KInv'
<1> DEFINE a == heap.head[q]
           s == cells[q]
<1>1. /\ Free(q) /\ a # NULL /\ Free(d) /\ q \in Conds /\ d \notin Conds
      /\ \A x \in late : ~IsIn(x, s)
      /\ heap' = Wake(heap, a)
      /\ stage' = [stage EXCEPT ![q] = "emptying"]
      /\ hand' = [hand EXCEPT ![q] = heap.next[a]]
      /\ dest' = [dest EXCEPT ![q] = IF a = heap.tail[q] THEN NULL ELSE d]
      /\ cells' = [cells EXCEPT ![q] = Tail(@)] /\ late' = late
  BY DEF Rouse, Walked
<1>2. /\ q \in Queues \ Emptied /\ stage[q] = "open" /\ \A r \in Queues : dest[r] # q
      /\ Sound(heap, cells, Emptied) /\ heap \in Heaps /\ cells \in [Queues -> Seq(Cells)]
      /\ s \in Seq(Cells) /\ s # <<>> /\ Distinct(s) /\ a = s[1] /\ a \in Cells
      /\ heap.tail[q] = s[Len(s)]
      /\ \A x \in Cells : IsIn(x, Tail(s)) <=> IsIn(x, s) /\ x # a
      /\ Represents(heap, q, s)
      /\ IsIn(a, s) /\ Listed(a) /\ ~Carried(a)
  BY <1>1, FreeHead
<1>3. /\ Tail(s) \in Seq(Cells)
      /\ Tail(s) = <<>> <=> a = heap.tail[q]
      /\ Tail(s) = <<>> <=> heap.next[a] = NULL
      /\ Tail(s) # <<>> => /\ heap.next[a] = Tail(s)[1]
                           /\ heap.tail[q] = Tail(s)[Len(Tail(s))]
  <2>1. PICK u \in Seq(Cells) : u = s
    BY <1>2
  <2>2. u # <<>> /\ Distinct(u) /\ Represents(heap, q, u)
    BY <1>2, <2>1
  <2>3. /\ Tail(u) \in Seq(Cells)
        /\ Tail(u) = <<>> <=> u[1] = u[Len(u)]
        /\ Tail(u) = <<>> <=> heap.next[u[1]] = NULL
        /\ Tail(u) # <<>> => /\ heap.next[u[1]] = Tail(u)[1]
                             /\ heap.tail[q] = Tail(u)[Len(Tail(u))]
    BY <2>2, NextOfHead
  <2> QED BY <1>2, <2>1, <2>3
<1>4. /\ stage[d] = "open" /\ d # q /\ \A r \in Queues : dest[r] # d
      /\ d # NULL /\ heap.next[a] \in Ptr /\ a \notin late
  BY <1>1, <1>2, QueueAssumption, HeapFields DEF Free
<1>5. /\ Kinds /\ Emptied' = Emptied \cup {q}
      /\ \A r \in Queues \ {q} : stage'[r] = stage[r] /\ hand'[r] = hand[r] /\ dest'[r] = dest[r]
      /\ stage'[q] = "emptying" /\ hand'[q] = heap.next[a]
      /\ dest'[q] = IF a = heap.tail[q] THEN NULL ELSE d
  BY <1>1 DEF KInv, Kinds, Emptied
<1>6. Sound(heap', cells', Emptied \cup {q})
  <2>1. PICK F : F = Emptied \cup {q}
    OBVIOUS
  <2>2. PICK g : g = Wake(heap, a)
    OBVIOUS
  <2>3. Sound(g, cells, F) /\ q \in Queues \cap F
    BY <1>2, <2>1, <2>2, SoundForget, SoundWake
  <2>4. 2 \in 1..(Len(s) + 1)
    BY <1>2
  <2>5. Sound(g, [cells EXCEPT ![q] = Piece(cells[q], 2, Len(cells[q]))], F)
    BY <2>3, <2>4, SoundDrop
  <2>6. Piece(cells[q], 2, Len(cells[q])) = Tail(cells[q])
    BY <1>2, WholePieces
  <2>7. cells' = [cells EXCEPT ![q] = Piece(cells[q], 2, Len(cells[q]))]
    BY <1>1, <2>6
  <2> QED BY <1>1, <2>1, <2>2, <2>5, <2>7
<1>7. /\ \A x \in Cells : IsIn(x, cells'[q]) <=> IsIn(x, s) /\ x # a
      /\ \A r \in Queues \ {q} : cells'[r] = cells[r]
      /\ cells'[q] = Tail(s) /\ cells' \in [Queues -> Seq(Cells)]
  BY <1>1, <1>2, <1>3
<1> HIDE DEF a
<1>8. \A x \in Cells : Listed(x)' <=> Listed(x) /\ x # a
  <2>1. IsIn(a, cells[q]) /\ a \in Cells /\ Sound(heap, cells, Emptied)
    BY <1>2
  <2> QED BY <1>7, <2>1, ListedBut
<1>9. \A x \in Cells : Carried(x)' <=> Carried(x)
  BY <1>2, <1>5 DEF Carried
<1>10. \A x \in Cells : heap'.wait[x] = IF x = a THEN 0 ELSE heap.wait[x]
  BY <1>1, <1>2, WaitBytes
<1>11. heap'.tail = heap.tail
  BY <1>1 DEF Wake
<1>12. ASSUME NEW r \in Emptied' PROVE Left(r)'
  <2>1. CASE r = q
    BY <1>3, <1>5, <1>7, <1>11, <2>1 DEF Left
  <2>2. CASE r # q
    <3>1. r \in Queues /\ Left(r)
      BY <1>5, <1>12, <2>2 DEF KInv, Spelled, Emptied
    <3> QED BY <1>5, <1>7, <1>11, <2>2, <3>1, LeftKept
  <2> QED BY <2>1, <2>2
<1>13. WaitersReachable'
  <2>1. \A x \in Cells : heap'.wait[x] = 1 <=> (Listed(x)' \/ Carried(x)') /\ x \notin late
    BY <1>2, <1>4, <1>8, <1>9, <1>10 DEF KInv, WaitersReachable
  <2>2. ASSUME NEW x \in late
        PROVE  \E r \in Timed : IsIn(x, cells'[r]) /\ stage'[r] # "emptying"
    <3>1. PICK r \in Timed : IsIn(x, cells[r]) /\ stage[r] # "emptying"
      BY DEF KInv, WaitersReachable
    <3>2. r \in Queues \ {q}
      BY <1>1, <3>1, QueueAssumption
    <3> QED BY <1>5, <1>7, <3>1, <3>2
  <2> QED BY <1>1, <2>1, <2>2 DEF WaitersReachable
<1>14. Carries'
  BY <1>5, <1>8, <1>9 DEF KInv, Carries
<1>15. Kinds'
  BY <1>1, <1>4, <1>5 DEF Kinds
<1>16. Hands'
  <2>1. ASSUME NEW r \in Queues
        PROVE  /\ stage'[r] = "open" => hand'[r] = NULL
               /\ stage'[r] = "taken" => hand'[r] \in Cells
               /\ dest'[r] # NULL <=> stage'[r] = "emptying" /\ hand'[r] # NULL
               /\ dest'[r] # NULL => /\ r \in Conds /\ dest'[r] \notin Conds
                                     /\ stage'[dest'[r]] = "open"
    <3>1. CASE r = q
      BY <1>1, <1>3, <1>4, <1>5, <3>1
    <3>2. CASE r # q
      BY <1>2, <1>5, <3>2 DEF KInv, Hands, Kinds
    <3> QED BY <3>1, <3>2
  <2>2. \A r, t \in Queues : dest'[r] = dest'[t] /\ dest'[r] # NULL => r = t
    BY <1>4, <1>5 DEF KInv, Hands
  <2> QED BY <2>1, <2>2 DEF Hands
<1> QED BY <1>5, <1>6, <1>12, <1>13, <1>14, <1>15, <1>16 DEF KInv, Spelled

\* A whole list that is being taken to pieces goes to the end of another.
LEMMA Spliced ==
  ASSUME NEW h, NEW C, NEW F, Sound(h, C, F), NEW q \in Queues \cap F, NEW d \in Queues \ F,
         C[q] # <<>>
  PROVE  /\ Sound(Enqueues(h, d, C[q][1], C[q][Len(C[q])]),
                  [C EXCEPT ![q] = <<>>, ![d] = @ \o C[q]], F)
         /\ \A x \in Cells : IsIn(x, C[d] \o C[q]) <=> IsIn(x, C[d]) \/ IsIn(x, C[q])
<1>1. /\ C[q] \in Seq(Cells) /\ C[d] \in Seq(Cells) /\ Distinct(C[q]) /\ Distinct(C[d])
      /\ Separate(C[d], C[q])
  BY DEF Sound
<1>2. 1 \in 1..Len(C[q]) /\ Len(C[q]) \in 1..Len(C[q])
  BY <1>1
<1>3. Piece(C[q], 1, Len(C[q])) = C[q] /\ Piece(C[q], Len(C[q]) + 1, Len(C[q])) = <<>>
  BY <1>1, WholePieces
<1>4. PICK i, j : i = 1 /\ j = Len(C[q])
  OBVIOUS
<1>5. Sound(Enqueues(h, d, C[q][i], C[q][j]),
            [C EXCEPT ![q] = Piece(C[q], j + 1, Len(C[q])), ![d] = @ \o Piece(C[q], i, j)], F)
  BY <1>2, <1>4, SoundCut
<1>6. \A x \in Cells : IsIn(x, C[d] \o C[q]) <=> IsIn(x, C[d]) \/ IsIn(x, C[q])
  BY <1>1, ConcatHolds
<1> QED BY <1>3, <1>4, <1>5, <1>6

\* The list from the broadcast's hand, or the whole list, goes to the mutex.
LEMMA MoveFromStep ==
  ASSUME KInv, NEW q \in Queues, NEW d \in Queues, NEW a,
         cells[q] # <<>>, a = cells[q][1], heap.tail[q] = cells[q][Len(cells[q])],
         MoveFrom(q, a, d),
         stage[q] \in {"open", "emptying"}, stage[d] = "open", q # d,
         stage' = [stage EXCEPT ![q] = "emptying"],
         \A r \in Queues : dest[r] # q,
         \A x \in late : ~IsIn(x, cells[q])
  PROVE  KInv'
<1> DEFINE s == cells[q]
<1>1. /\ heap' = Enqueues(heap, d, s[1], s[Len(s)])
      /\ cells' = [cells EXCEPT ![q] = <<>>, ![d] = @ \o cells[q]]
      /\ hand' = [hand EXCEPT ![q] = NULL]
      /\ dest' = [dest EXCEPT ![q] = NULL]
      /\ late' = late
  BY DEF MoveFrom
<1>2. /\ Sound(heap, cells, Emptied) /\ heap \in Heaps /\ cells \in [Queues -> Seq(Cells)]
      /\ s \in Seq(Cells) /\ s[1] \in Cells /\ s[Len(s)] \in Cells
  BY DEF KInv, Spelled, Sound
<1>3. /\ Kinds /\ Emptied' = Emptied \cup {q}
      /\ \A r \in Queues \ {q} : stage'[r] = stage[r] /\ hand'[r] = hand[r] /\ dest'[r] = dest[r]
      /\ stage'[q] = "emptying" /\ hand'[q] = NULL /\ dest'[q] = NULL
  BY <1>1 DEF KInv, Kinds, Emptied
<1>4. /\ Sound(heap', cells', Emptied \cup {q})
      /\ \A x \in Cells : IsIn(x, cells[d] \o s) <=> IsIn(x, cells[d]) \/ IsIn(x, s)
  <2>1. PICK F : F = Emptied \cup {q}
    OBVIOUS
  <2>2. q \in Queues \cap F /\ d \in Queues \ F
    BY <2>1 DEF Emptied
  <2>3. Sound(heap, cells, F)
    BY <1>2, <2>1, SoundForget
  <2> QED BY <1>1, <2>1, <2>2, <2>3, Spliced
<1>5. /\ cells'[q] = <<>> /\ cells'[d] = cells[d] \o s
      /\ \A r \in Queues \ {q, d} : cells'[r] = cells[r]
  BY <1>1, <1>2
<1>6. \A x \in Cells : Listed(x)' <=> Listed(x)
  <2>1. \A x \in Cells : ~IsIn(x, <<>>)
    BY DEF IsIn
  <2> QED BY ZenonT(60), <1>4, <1>5, <2>1 DEF Listed
<1>7. \A x \in Cells : Carried(x)' <=> Carried(x)
  BY <1>3 DEF Carried
<1>8. \A x \in Cells : heap'.wait[x] = heap.wait[x]
  BY <1>1, <1>2, MovedBytes
<1>9. ASSUME NEW r \in Emptied' PROVE Left(r)'
  <2>1. CASE r = q
    BY <1>3, <1>5, <2>1 DEF Left
  <2>2. CASE r # q
    <3>1. r \in Queues /\ r # d /\ Left(r)
      BY <1>3, <1>9, <2>2 DEF KInv, Spelled, Emptied
    <3>2. heap'.tail[r] = heap.tail[r]
      BY <1>1, <1>2, <3>1, OtherTails
    <3> QED BY <1>3, <1>5, <2>2, <3>1, <3>2, LeftKept
  <2> QED BY <2>1, <2>2
<1>10. WaitersReachable'
  <2>1. \A x \in Cells : heap'.wait[x] = 1 <=> (Listed(x)' \/ Carried(x)') /\ x \notin late
    BY <1>6, <1>7, <1>8 DEF KInv, WaitersReachable
  <2>2. ASSUME NEW x \in late
        PROVE  \E r \in Timed : IsIn(x, cells'[r]) /\ stage'[r] # "emptying"
    <3>1. PICK r \in Timed : IsIn(x, cells[r]) /\ stage[r] # "emptying"
      BY DEF KInv, WaitersReachable
    <3>2. r \in Queues \ {q} /\ x \in Cells
      BY <1>3, <3>1, QueueAssumption DEF Kinds
    <3>3. IsIn(x, cells'[r])
      BY <1>4, <1>5, <3>1, <3>2
    <3> QED BY <1>3, <3>1, <3>2, <3>3
  <2> QED BY <1>1, <2>1, <2>2 DEF WaitersReachable
<1>11. Carries'
  BY <1>3, <1>6, <1>7 DEF KInv, Carries
<1>12. Kinds' /\ Hands'
  <2>1. Kinds'
    BY <1>1, <1>3 DEF Kinds, Ptr
  <2>2. Hands'
    BY <1>3 DEF KInv, Kinds, Hands
  <2> QED BY <2>1, <2>2
<1> QED BY <1>3, <1>4, <1>9, <1>10, <1>11, <1>12 DEF KInv, Spelled

\* A broadcast that finds the mutex owned moves them all.
LEMMA MoveAllStep ==
  ASSUME KInv, NEW q \in Queues, NEW d \in Queues, MoveAll(q, d)
  PROVE  KInv'
<1>1. /\ Free(q) /\ heap.head[q] # NULL /\ Free(d) /\ q \in Conds /\ d \notin Conds
      /\ \A x \in late : ~IsIn(x, cells[q])
      /\ stage' = [stage EXCEPT ![q] = "emptying"] /\ MoveFrom(q, heap.head[q], d)
  BY DEF MoveAll, Walked
<1>2. /\ stage[q] = "open" /\ \A r \in Queues : dest[r] # q
      /\ cells[q] # <<>> /\ heap.head[q] = cells[q][1]
      /\ heap.tail[q] = cells[q][Len(cells[q])]
  BY <1>1, FreeHead
<1>3. stage[d] = "open" /\ q # d
  BY <1>1 DEF Free
<1> QED BY <1>1, <1>2, <1>3, MoveFromStep

\* One that found it free moves those that are left.
LEMMA MoveRestStep ==
  ASSUME KInv, NEW q \in Queues, MoveRest(q)
  PROVE  KInv'
<1>1. PICK d : d = dest[q]
  OBVIOUS
<1>2. d # NULL /\ MoveFrom(q, hand[q], d) /\ stage' = stage
  BY <1>1 DEF MoveRest
<1>3. /\ stage[q] = "emptying" /\ hand[q] # NULL /\ q \in Conds /\ d \notin Conds
      /\ stage[d] = "open" /\ d \in Queues /\ Kinds
      /\ \A r \in Queues : dest[r] # q
  BY <1>1, <1>2, QueueAssumption DEF KInv, Hands, Kinds
<1>4. /\ cells[q] # <<>> /\ hand[q] = cells[q][1]
      /\ heap.tail[q] = cells[q][Len(cells[q])]
  BY <1>3 DEF KInv, Spelled, Emptied, Left
<1>5. stage' = [stage EXCEPT ![q] = "emptying"]
  BY <1>2, <1>3 DEF Kinds
<1>6. ASSUME NEW x \in late, IsIn(x, cells[q]) PROVE FALSE
  <2>1. PICK r \in Timed : IsIn(x, cells[r]) /\ stage[r] # "emptying"
    BY DEF KInv, WaitersReachable
  <2>2. r \in Queues /\ r # q /\ x \in Cells /\ Sound(heap, cells, Emptied)
    BY <1>3, <2>1, QueueAssumption DEF Kinds, KInv, Spelled
  <2> QED BY <1>6, <2>1, <2>2, OneList
<1> QED BY <1>2, <1>3, <1>4, <1>5, <1>6, MoveFromStep

\* At the end the words of the condition's queue are cleared.
LEMMA EmptyStep ==
  ASSUME KInv, NEW q \in Queues, Empty(q)
  PROVE  KInv'
<1>1. /\ stage[q] = "emptying" /\ dest[q] = NULL
      /\ stage' = [stage EXCEPT ![q] = "open"] /\ hand' = [hand EXCEPT ![q] = NULL]
      /\ dest' = [dest EXCEPT ![q] = NULL]
      /\ heap' = Flush(heap, q) /\ cells' = [cells EXCEPT ![q] = <<>>] /\ late' = late
  BY DEF Empty, Done
<1>2. /\ Sound(heap, cells, Emptied) /\ heap \in Heaps /\ cells \in [Queues -> Seq(Cells)]
      /\ Kinds /\ cells[q] \in Seq(Cells)
  BY DEF KInv, Spelled, Sound
<1>3. hand[q] = NULL /\ cells[q] = <<>>
  <2>1. hand[q] = NULL /\ Left(q)
    BY <1>1 DEF KInv, Hands, Spelled, Emptied
  <2>2. cells[q] # <<>> => cells[q][1] \in Cells
    BY <1>2
  <2> QED BY <2>1, <2>2, NullAssumption DEF Left
<1>4. cells' = cells /\ hand' = hand /\ dest' = dest
  BY <1>1, <1>2, <1>3 DEF Kinds
<1>5. /\ \A r \in Queues \ {q} : stage'[r] = stage[r]
      /\ stage'[q] = "open" /\ Emptied' = Emptied \ {q}
  BY <1>1, <1>2 DEF Kinds, Emptied
<1>6. Sound(heap', cells', Emptied \ {q})
  BY <1>1, <1>2, SoundFlush
<1>7. \A x \in Cells : (Listed(x)' <=> Listed(x)) /\ (Carried(x)' <=> Carried(x))
  BY <1>1, <1>4, <1>5 DEF Listed, Carried
<1>8. \A x \in Cells : heap'.wait[x] = heap.wait[x]
  BY <1>1 DEF Flush
<1>9. ASSUME NEW r \in Emptied' PROVE Left(r)'
  <2>1. r \in Queues /\ r # q /\ Left(r)
    BY <1>5, <1>9 DEF KInv, Spelled, Emptied
  <2>2. heap'.tail[r] = heap.tail[r]
    BY <1>1, <1>2, <2>1 DEF Flush, Heaps
  <2> QED BY <1>4, <2>1, <2>2, LeftKept
<1>10. WaitersReachable'
  <2>1. \A x \in Cells : heap'.wait[x] = 1 <=> (Listed(x)' \/ Carried(x)') /\ x \notin late
    BY <1>7, <1>8 DEF KInv, WaitersReachable
  <2>2. \A x \in late : \E r \in Timed : IsIn(x, cells'[r]) /\ stage'[r] # "emptying"
    BY <1>4, <1>5, QueueAssumption DEF KInv, WaitersReachable
  <2> QED BY <1>1, <2>1, <2>2 DEF WaitersReachable
<1>11. Carries' /\ Kinds' /\ Hands'
  <2>1. Carries'
    BY <1>4, <1>5, <1>7 DEF KInv, Carries
  <2>2. Kinds'
    BY <1>1, <1>2, <1>4 DEF Kinds
  <2>3. Hands'
    BY <1>1, <1>2, <1>3, <1>4, <1>5 DEF KInv, Hands, Kinds
  <2> QED BY <2>1, <2>2, <2>3
<1> QED BY <1>5, <1>6, <1>9, <1>10, <1>11 DEF KInv, Spelled

---------------------------------------------------------------------------
\* Zeroed queues and cells are empty lists and nobody waits.
LEMMA Initially == Init => KInv
<1> SUFFICES ASSUME Init PROVE KInv
  OBVIOUS
<1>1. /\ heap \in Heaps /\ cells \in [Queues -> Seq(Cells)]
      /\ \A q \in Queues : cells[q] = <<>> /\ heap.head[q] = NULL /\ heap.tail[q] = NULL
      /\ \A c \in Cells : heap.wait[c] = 0
  BY DEF Init, ZeroHeap, Heaps, Ptr
<1>2. /\ \A q \in Queues : stage[q] = "open" /\ hand[q] = NULL /\ dest[q] = NULL
      /\ Emptied = {} /\ late = {} /\ Kinds
  BY DEF Init, Emptied, Kinds, Ptr
<1>3. Sound(heap, cells, Emptied)
  BY <1>1, <1>2 DEF Sound, ListOf, Distinct, Separate, Represents
<1>4. \A c \in Cells : ~Listed(c) /\ ~Carried(c)
  BY <1>1, <1>2 DEF Listed, Carried, IsIn
<1> QED BY <1>1, <1>2, <1>3, <1>4 DEF KInv, Spelled, Carries, Hands, WaitersReachable

\* No step breaks the lists or the wait bytes.
LEMMA StepByStep == KInv /\ [Next]_vars => KInv'
<1> SUFFICES ASSUME KInv, [Next]_vars PROVE KInv'
  OBVIOUS
<1>1. CASE UNCHANGED vars
  BY <1>1 DEF vars, KInv, Spelled, Emptied, Left, Kinds, Carries, Carried, Listed, Hands,
              WaitersReachable
<1>2. CASE \E c \in Cells : GiveUp(c)
  BY <1>2, GiveUpStep
<1>3. ASSUME NEW q \in Queues, NEW c \in Cells, Put(q, c) PROVE KInv'
  BY <1>3, PutStep
<1>4. ASSUME NEW q \in Queues, Take(q) \/ WakeTaken(q) \/ MoveRest(q) \/ Empty(q)
      PROVE  KInv'
  BY <1>4, TakeStep, WakeTakenStep, MoveRestStep, EmptyStep
<1>5. ASSUME NEW q \in Queues, NEW k \in 1..Len(cells[q]), TakeSelf(q, k) PROVE KInv'
  BY <1>5, TakeSelfStep
<1>6. ASSUME NEW q \in Queues, NEW d \in Queues,
             MoveTaken(q, d) \/ Rouse(q, d) \/ MoveAll(q, d)
      PROVE  KInv'
  BY <1>6, MoveTakenStep, RouseStep, MoveAllStep
<1> QED BY <1>1, <1>2, <1>3, <1>4, <1>5, <1>6 DEF Next

\* The invariant of QueueUse and its form in this module are one.
LEMMA InvIsKept == (IInv <=> KInv) /\ (IInv' <=> KInv')
<1>1. ASSUME IInv PROVE KInv
  <2>1. Sound(heap, cells, Emptied)
    <3>1. \A q \in Queues : Distinct(cells[q]) /\ ListOf(heap, q, cells[q], Emptied)
      BY <1>1 DEF IInv, Apart, ListsFaithful, Remains, Emptied, ListOf, Distinct
    <3>2. \A q, r \in Queues : q # r => Separate(cells[q], cells[r])
      BY <1>1 DEF IInv, Apart, Separate, IsIn
    <3> QED BY <1>1, <3>1, <3>2 DEF IInv, TypeOK, Sound
  <2>2. \A q \in Emptied : Left(q)
    BY <1>1 DEF IInv, ListsFaithful, Remains, Emptied, Left
  <2> QED BY <1>1, <2>1, <2>2 DEF IInv, TypeOK, Apart, KInv, Spelled, Kinds, Carries
<1>2. ASSUME KInv PROVE IInv
  <2>1. ListsFaithful
    BY <1>2 DEF KInv, Spelled, Sound, ListOf, ListsFaithful, Remains, Emptied, Left
  <2>2. Apart
    BY <1>2 DEF KInv, Spelled, Sound, Distinct, Separate, IsIn, Apart, Carries
  <2> QED BY <1>2, <2>1, <2>2 DEF IInv, TypeOK, KInv, Kinds, Spelled, Sound
<1>3. IInv <=> KInv
  BY <1>1, <1>2
<1> QED BY <1>3, PTL

\* The invariant is inductive.
THEOREM Invariance == Spec => []IInv
<1>1. Init => IInv
  BY Initially, InvIsKept
<1>2. IInv /\ [Next]_vars => IInv'
  BY StepByStep, InvIsKept
<1> QED BY <1>1, <1>2, PTL DEF Spec

\* Every pointer stays a cell or NULL, every wait byte a bit.
THEOREM TypeCorrect == Spec => []TypeOK
BY Invariance, PTL DEF IInv

\* Whatever the threads do with any number of queues and cells, the pointers
\* of spinqueue.h spell exactly the lists the operations are meant to build,
\* in both directions, and what a broadcast has still to move stays linked
\* while the waiter it woke first queues its cell elsewhere.
THEOREM Lists == Spec => []ListsFaithful
BY Invariance, PTL DEF IInv

\* No cell is in two lists, twice in one, or in a list and in a thread's hand.
THEOREM Apartness == Spec => []Apart
BY Invariance, PTL DEF IInv

\* A thread that spins on the wait byte of its cell is in a list, where a
\* later unlock, signal or broadcast finds it, or in the hand of one; a thread
\* that does not is in none, but for one that has given up and is waiting for
\* the lock of its condition's list to take itself out.
THEOREM Reachable == Spec => []WaitersReachable
BY Invariance, PTL DEF IInv

=============================================================================
