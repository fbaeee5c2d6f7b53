-------------------------- MODULE SpinQueueProofs --------------------------
(***************************************************************************)
(* What the operations of SpinQueue do to lists: each leaves the sequence  *)
(* it should in the queues it is given, and the other queues as they were. *)
(* Stated for any heap, for the modules that keep one.                     *)
(***************************************************************************)
EXTENDS SpinQueue, TLAPS

---------------------------------------------------------------------------
\* What the operations leave: a heap, and which of its fields they change.

Distinct(s) == \A i, j \in 1..Len(s) : s[i] = s[j] => i = j
Separate(s, u) == \A i \in 1..Len(s) : ~IsIn(s[i], u)

\* The fields of a heap.
LEMMA HeapFields ==
  ASSUME NEW h \in Heaps
  PROVE  /\ h.head \in [Queues -> Ptr] /\ h.tail \in [Queues -> Ptr]
         /\ h.next \in [Cells -> Ptr] /\ h.prev \in [Cells -> Ptr]
         /\ h.wait \in [Cells -> {0, 1}]
BY DEF Heaps

\* enqueue leaves a heap.
LEMMA EnqueueHeap ==
  ASSUME NEW h \in Heaps, NEW q \in Queues, NEW c \in Cells
  PROVE  Enqueue(h, q, c) \in Heaps
BY DEF Heaps, Enqueue, Ptr

\* enqueues leaves a heap.
LEMMA EnqueuesHeap ==
  ASSUME NEW h \in Heaps, NEW q \in Queues, NEW a \in Cells, NEW b \in Cells
  PROVE  Enqueues(h, q, a, b) \in Heaps
BY DEF Heaps, Enqueues, Ptr

\* dequeue leaves a heap.
LEMMA DequeueHeap ==
  ASSUME NEW h \in Heaps, NEW q \in Queues, NEW c \in Cells
  PROVE  Dequeue(h, q, c) \in Heaps
BY DEF Heaps, Dequeue, Ptr

\* queue_flush and queue_cell_wake leave a heap.
LEMMA FlushWakeHeap ==
  ASSUME NEW h \in Heaps, NEW q \in Queues, NEW c \in Cells
  PROVE  Flush(h, q) \in Heaps /\ Wake(h, c) \in Heaps
BY DEF Heaps, Flush, Wake, Ptr

---------------------------------------------------------------------------
\* A list that an operation does not touch.
LEMMA Frame ==
  ASSUME NEW h \in Heaps, NEW g \in Heaps, NEW q \in Queues, NEW s \in Seq(Cells),
         Represents(h, q, s),
         g.head[q] = h.head[q], g.tail[q] = h.tail[q],
         \A i \in 1..Len(s) : g.next[s[i]] = h.next[s[i]] /\ g.prev[s[i]] = h.prev[s[i]]
  PROVE  Represents(g, q, s)
BY DEF Represents, Linked

\* enqueue of a cell that is not in the list puts it at the end.
LEMMA EnqueueOwn ==
  ASSUME NEW h \in Heaps, NEW q \in Queues, NEW c \in Cells, NEW s \in Seq(Cells),
         Represents(h, q, s), ~IsIn(c, s)
  PROVE  Represents(Enqueue(h, q, c), q, Append(s, c))
<1> USE HeapFields, NullAssumption
<1>1. CASE s = <<>>
  BY <1>1 DEF Represents, Linked, Enqueue, Ptr
<1>2. CASE s # <<>>
  BY SMTT(30), <1>2 DEF Represents, Linked, Enqueue, Ptr, IsIn
<1> QED BY <1>1, <1>2

\* enqueue leaves the lists of the other queues alone.
LEMMA EnqueueOther ==
  ASSUME NEW h \in Heaps, NEW q \in Queues, NEW c \in Cells, NEW s \in Seq(Cells),
         NEW r \in Queues, NEW u \in Seq(Cells), r # q,
         Represents(h, q, s), Represents(h, r, u), ~IsIn(c, u), Separate(s, u)
  PROVE  Represents(Enqueue(h, q, c), r, u)
<1> DEFINE g == Enqueue(h, q, c)
<1>1. g \in Heaps
  BY EnqueueHeap
<1>2. \A i \in 1..Len(u) : u[i] # c /\ u[i] # h.tail[q]
  BY HeapFields, NullAssumption DEF Represents, IsIn, Ptr, Separate
<1>3. g.head[r] = h.head[r] /\ g.tail[r] = h.tail[r]
  BY HeapFields DEF Enqueue
<1>4. ASSUME NEW i \in 1..Len(u)
      PROVE  g.next[u[i]] = h.next[u[i]] /\ g.prev[u[i]] = h.prev[u[i]]
  BY HeapFields, <1>2 DEF Enqueue
<1> HIDE DEF g
<1>5. Represents(g, r, u)
  BY <1>1, <1>3, <1>4, Frame
<1> QED BY <1>5 DEF g

\* A place in a list of length n is its only one, its first, its last or between.
LEMMA Places ==
  ASSUME NEW n \in Nat, NEW k \in 1..n
  PROVE  n = 1 \/ (n > 1 /\ k = 1) \/ (k > 1 /\ k = n) \/ (k > 1 /\ k < n)
OBVIOUS

\* Cell s[k] leaves the list, from either end or between two others.
LEMMA DequeueOwn ==
  ASSUME NEW h \in Heaps, NEW q \in Queues, NEW s \in Seq(Cells),
         Represents(h, q, s), Distinct(s), NEW k \in 1..Len(s)
  PROVE  Represents(Dequeue(h, q, s[k]), q, Without(s, k))
<1>0. /\ h.head \in [Queues -> Ptr] /\ h.tail \in [Queues -> Ptr]
      /\ h.next \in [Cells -> Ptr] /\ h.prev \in [Cells -> Ptr]
      /\ NULL \notin Cells
  BY HeapFields, NullAssumption
<1> USE <1>0
<1> DEFINE g == Dequeue(h, q, s[k])
           p == h.prev[s[k]]
           n == h.next[s[k]]
<1>1. /\ k = 1 => p = NULL
      /\ k > 1 => p = s[k - 1] /\ p # NULL
      /\ k = Len(s) => n = NULL
      /\ k < Len(s) => n = s[k + 1] /\ n # NULL
  <2>0. s # <<>> /\ Len(s) \in Nat /\ \A i \in 1..Len(s) : s[i] \in Cells /\ s[i] # NULL
    OBVIOUS
  <2>1. k = 1 => p = NULL
    BY DEF Represents
  <2>2. ASSUME k > 1 PROVE p = s[k - 1] /\ p # NULL
    <3>1. k - 1 \in 1..(Len(s) - 1) /\ (k - 1) + 1 = k /\ k - 1 \in 1..Len(s)
      BY <2>0, <2>2
    <3>2. h.prev[s[(k - 1) + 1]] = s[k - 1]
      BY <2>0, <3>1 DEF Represents, Linked
    <3>3. h.prev[s[k]] = s[k - 1] /\ s[k - 1] # NULL
      <4> HIDE <1>0
      <4> QED BY <2>0, <3>1, <3>2
    <3> QED BY <3>3
  <2>3. k = Len(s) => n = NULL
    BY <2>0 DEF Represents
  <2>4. ASSUME k < Len(s) PROVE n = s[k + 1] /\ n # NULL
    <3>1. k \in 1..(Len(s) - 1) /\ k + 1 \in 1..Len(s)
      BY <2>0, <2>4
    <3> QED BY <2>0, <3>1 DEF Represents, Linked
  <2> QED BY <2>1, <2>2, <2>3, <2>4
<1>2. /\ Without(s, k) \in Seq(Cells) /\ Len(Without(s, k)) = Len(s) - 1
      /\ \A i \in 1..(Len(s) - 1) :
           Without(s, k)[i] = IF i < k THEN s[i] ELSE s[i + 1]
  BY DEF Without
<1>3. CASE Len(s) = 1
  BY <1>1, <1>2, <1>3 DEF Represents, Dequeue
<1>4. CASE Len(s) > 1 /\ k = 1
  <2>1. g.head[q] = s[2] /\ g.tail[q] = h.tail[q] /\ g.next = h.next
        /\ g.prev = [h.prev EXCEPT ![s[2]] = NULL]
    BY <1>1, <1>4 DEF Dequeue
  <2> QED BY <1>1, <1>2, <1>4, <2>1 DEF Represents, Linked, Distinct
<1>5. CASE k > 1 /\ k = Len(s)
  <2>1. g.tail[q] = s[k - 1] /\ g.head[q] = h.head[q] /\ g.prev = h.prev
        /\ g.next = [h.next EXCEPT ![s[k - 1]] = NULL]
    BY <1>1, <1>5 DEF Dequeue
  <2> QED BY <1>1, <1>2, <1>5, <2>1 DEF Represents, Linked, Distinct
<1>6. CASE k > 1 /\ k < Len(s)
  <2>1. /\ g.tail[q] = h.tail[q] /\ g.head[q] = h.head[q]
        /\ g.prev = [h.prev EXCEPT ![s[k + 1]] = s[k - 1]]
        /\ g.next = [h.next EXCEPT ![s[k - 1]] = s[k + 1]]
    BY SMTT(30), <1>1, <1>6 DEF Dequeue
  <2>2. /\ Len(s) \in Nat /\ k - 1 \in 1..Len(s) /\ k + 1 \in 1..Len(s) /\ s # <<>>
        /\ \A i \in 1..Len(s) : s[i] \in Cells
    BY <1>6
  <2>3. ASSUME NEW i \in 1..(Len(s) - 2)
        PROVE  /\ g.next[Without(s, k)[i]] = Without(s, k)[i + 1]
               /\ g.prev[Without(s, k)[i + 1]] = Without(s, k)[i]
    <3>1. CASE i < k - 1
      <4>0. i \in 1..(Len(s) - 1) /\ i \in 1..Len(s) /\ i + 1 \in 1..Len(s) /\ i + 1 < k
        BY <2>2, <3>1
      <4>1. Without(s, k)[i] = s[i] /\ Without(s, k)[i + 1] = s[i + 1]
            /\ i \in 1..(Len(s) - 1) /\ s[i] # s[k - 1] /\ s[i + 1] # s[k + 1]
        BY SMTT(30), <1>2, <2>2, <4>0, <3>1 DEF Distinct
      <4> QED BY <2>1, <2>2, <4>1 DEF Represents, Linked
    <3>2. CASE i = k - 1
      <4>1. Without(s, k)[i] = s[k - 1] /\ Without(s, k)[i + 1] = s[k + 1]
        BY <1>2, <2>2, <3>2
      <4> QED BY <2>1, <2>2, <4>1
    <3>3. CASE i > k - 1
      <4>0. /\ i + 1 \in 1..(Len(s) - 1) /\ i \in 1..(Len(s) - 1)
            /\ i + 1 \in 1..Len(s) /\ (i + 1) + 1 \in 1..Len(s) /\ ~(i < k) /\ i + 1 > k
        BY <2>2, <3>3
      <4>1. Without(s, k)[i] = s[i + 1] /\ Without(s, k)[i + 1] = s[(i + 1) + 1]
            /\ i + 1 \in 1..(Len(s) - 1) /\ s[i + 1] # s[k - 1]
            /\ s[(i + 1) + 1] # s[k + 1]
        BY <1>2, <2>2, <4>0, <3>3 DEF Distinct
      <4> QED BY <2>1, <2>2, <4>1 DEF Represents, Linked
    <3> QED BY <2>2, <3>1, <3>2, <3>3
  <2>4. /\ Without(s, k)[1] = s[1] /\ s[1] # s[k + 1]
        /\ Without(s, k)[Len(s) - 1] = s[Len(s)] /\ s[Len(s)] # s[k - 1]
    BY SMTT(30), <1>2, <1>6, <2>2 DEF Distinct
  <2>5. g.head[q] = s[1] /\ g.prev[s[1]] = NULL /\ g.tail[q] = s[Len(s)]
        /\ g.next[s[Len(s)]] = NULL
    BY <2>1, <2>2, <2>4 DEF Represents
  <2> HIDE DEF g
  <2>6. Represents(g, q, Without(s, k))
    <3>1. Len(Without(s, k)) - 1 = Len(s) - 2 /\ Without(s, k) # <<>>
      BY <1>2, <1>6, <2>2
    <3> HIDE <1>0
    <3> QED BY <1>2, <2>3, <2>4, <2>5, <3>1 DEF Represents, Linked
  <2> QED BY <2>6 DEF g
<1>7. Len(s) \in Nat /\ k \in 1..Len(s)
  OBVIOUS
<1>8. Len(s) = 1 \/ (Len(s) > 1 /\ k = 1) \/ (k > 1 /\ k = Len(s)) \/ (k > 1 /\ k < Len(s))
  BY <1>7, Places
<1> HIDE DEF g, p, n
<1> HIDE <1>0
<1>9. Represents(g, q, Without(s, k))
  BY <1>3, <1>4, <1>5, <1>6, <1>8 DEF g
<1> QED BY <1>9 DEF g

\* The neighbours of a cell are in its list.
LEMMA Neighbours ==
  ASSUME NEW h, NEW q, NEW s \in Seq(Cells), Represents(h, q, s), NEW k \in 1..Len(s)
  PROVE  /\ h.prev[s[k]] = NULL \/ \E i \in 1..Len(s) : h.prev[s[k]] = s[i]
         /\ h.next[s[k]] = NULL \/ \E i \in 1..Len(s) : h.next[s[k]] = s[i]
<1>1. k = 1 => h.prev[s[k]] = NULL
  BY DEF Represents
<1>2. k > 1 => k - 1 \in 1..(Len(s) - 1) /\ h.prev[s[k]] = s[k - 1]
  BY DEF Represents, Linked
<1>3. k = Len(s) => h.next[s[k]] = NULL
  BY DEF Represents
<1>4. k < Len(s) => h.next[s[k]] = s[k + 1] /\ k + 1 \in 1..Len(s)
  BY DEF Represents, Linked
<1> QED BY <1>1, <1>2, <1>3, <1>4

\* dequeue leaves the lists of the other queues alone.
LEMMA DequeueOther ==
  ASSUME NEW h \in Heaps, NEW q \in Queues, NEW s \in Seq(Cells),
         Represents(h, q, s), NEW k \in 1..Len(s),
         NEW r \in Queues, NEW u \in Seq(Cells), r # q,
         Represents(h, r, u), Separate(s, u)
  PROVE  Represents(Dequeue(h, q, s[k]), r, u)
<1> DEFINE g == Dequeue(h, q, s[k])
           p == h.prev[s[k]]
           n == h.next[s[k]]
<1>1. g \in Heaps
  BY DequeueHeap
<1>2. /\ p = NULL \/ \E i \in 1..Len(s) : p = s[i]
      /\ n = NULL \/ \E i \in 1..Len(s) : n = s[i]
  BY Neighbours
<1>3. \A i \in 1..Len(u) : u[i] # p /\ u[i] # n
  BY <1>2, NullAssumption DEF Separate, IsIn
<1>4. g.head[r] = h.head[r] /\ g.tail[r] = h.tail[r]
  BY HeapFields DEF Dequeue
<1>5. ASSUME NEW i \in 1..Len(u)
      PROVE  g.next[u[i]] = h.next[u[i]] /\ g.prev[u[i]] = h.prev[u[i]]
  BY HeapFields, <1>3 DEF Dequeue
<1> HIDE DEF g
<1>6. Represents(g, r, u)
  BY <1>1, <1>4, <1>5, Frame
<1> QED BY <1>6 DEF g

\* The cells of v, linked to one another, go to the end of the list u.
LEMMA EnqueuesOwn ==
  ASSUME NEW h \in Heaps, NEW d \in Queues, NEW u \in Seq(Cells), NEW v \in Seq(Cells),
         Represents(h, d, u), v # <<>>, Linked(h, v), Distinct(v), Separate(u, v)
  PROVE  Represents(Enqueues(h, d, v[1], v[Len(v)]), d, u \o v)
<1>0. /\ h.head \in [Queues -> Ptr] /\ h.tail \in [Queues -> Ptr]
      /\ h.next \in [Cells -> Ptr] /\ h.prev \in [Cells -> Ptr]
      /\ NULL \notin Cells
  BY HeapFields, NullAssumption
<1> USE <1>0
<1> DEFINE g == Enqueues(h, d, v[1], v[Len(v)])
           w == u \o v
<1>1. /\ w \in Seq(Cells) /\ Len(w) = Len(u) + Len(v) /\ Len(v) > 0
      /\ \A i \in 1..Len(w) : w[i] = IF i <= Len(u) THEN u[i] ELSE v[i - Len(u)]
  OBVIOUS
<1>2. CASE u = <<>>
  <2>1. /\ g.head[d] = v[1] /\ g.tail[d] = v[Len(v)]
        /\ g.next = [h.next EXCEPT ![v[Len(v)]] = NULL]
        /\ g.prev = [h.prev EXCEPT ![v[1]] = NULL]
    BY <1>2 DEF Enqueues, Represents
  <2>2. w = v
    BY <1>2
  <2> QED BY <2>1, <2>2, <1>1 DEF Represents, Linked, Distinct
<1>3. CASE u # <<>>
  <2>0. h.tail[d] = u[Len(u)] /\ Len(u) \in 1..Len(u) /\ u[Len(u)] # v[Len(v)]
        /\ h.head[d] = u[1] /\ u[1] # NULL
    BY <1>3, <1>1 DEF Represents, Separate, IsIn
  <2>1. /\ g.head[d] = u[1] /\ g.tail[d] = v[Len(v)]
        /\ g.next = [h.next EXCEPT ![v[Len(v)]] = NULL, ![u[Len(u)]] = v[1]]
        /\ g.prev = [h.prev EXCEPT ![v[1]] = u[Len(u)]]
    BY <2>0 DEF Enqueues
  <2>2. ASSUME NEW i \in 1..(Len(w) - 1)
        PROVE  g.next[w[i]] = w[i + 1] /\ g.prev[w[i + 1]] = w[i]
    <3>1. CASE i < Len(u)
      <4>1. w[i] = u[i] /\ w[i + 1] = u[i + 1] /\ i \in 1..(Len(u) - 1)
        BY <1>1, <3>1
      <4>2. u[i] # u[Len(u)]
        BY <1>3, <3>1, <4>1 DEF Represents, Linked, Ptr
      <4>3. u[i] # v[Len(v)] /\ u[i + 1] # v[1]
        BY <4>1, <1>1 DEF Separate, IsIn
      <4> QED BY <1>3, <2>1, <4>1, <4>2, <4>3 DEF Represents, Linked
    <3>2. CASE i = Len(u)
      BY <1>1, <2>0, <2>1, <3>2
    <3>3. CASE i > Len(u)
      <4>1. w[i] = v[i - Len(u)] /\ w[i + 1] = v[i - Len(u) + 1]
            /\ i - Len(u) \in 1..(Len(v) - 1)
        BY SMTT(30), <1>1, <3>3
      <4>2. v[i - Len(u)] # v[Len(v)] /\ v[i - Len(u) + 1] # v[1]
        BY <4>1 DEF Distinct
      <4>3. v[i - Len(u)] # u[Len(u)]
        BY SMTT(30), <4>1, <2>0 DEF Separate, IsIn
      <4>4. v[i - Len(u)] \in Cells /\ v[i - Len(u) + 1] \in Cells
        BY <4>1
      <4>5. /\ h.next[v[i - Len(u)]] = v[i - Len(u) + 1]
            /\ h.prev[v[i - Len(u) + 1]] = v[i - Len(u)]
        BY <4>1 DEF Linked
      <4> QED BY <2>1, <4>1, <4>2, <4>3, <4>4, <4>5
    <3> QED BY <1>1, <3>1, <3>2, <3>3
  <2>3. g.prev[u[1]] = NULL
    <3>1. u[1] # v[1]
      BY <1>1, <2>0 DEF Separate, IsIn
    <3> QED BY <1>3, <2>1, <3>1 DEF Represents
  <2>4. g.next[v[Len(v)]] = NULL
    BY <2>1, <2>0, <1>1
  <2>5. w[1] = u[1] /\ w[Len(w)] = v[Len(v)] /\ w # <<>>
    BY <1>1, <2>0
  <2> HIDE DEF g, w
  <2>6. Represents(g, d, w)
    BY <2>1, <2>2, <2>3, <2>4, <2>5 DEF Represents, Linked
  <2> QED BY <2>6 DEF g, w
<1> QED BY <1>2, <1>3

\* enqueues leaves the lists of the third queues alone.
LEMMA EnqueuesOther ==
  ASSUME NEW h \in Heaps, NEW d \in Queues, NEW u \in Seq(Cells), NEW v \in Seq(Cells),
         Represents(h, d, u), v # <<>>,
         NEW r \in Queues, NEW w \in Seq(Cells), r # d,
         Represents(h, r, w), Separate(u, w), Separate(v, w)
  PROVE  Represents(Enqueues(h, d, v[1], v[Len(v)]), r, w)
<1> DEFINE g == Enqueues(h, d, v[1], v[Len(v)])
<1>1. g \in Heaps
  BY EnqueuesHeap
<1>2. \A i \in 1..Len(w) : w[i] # v[1] /\ w[i] # v[Len(v)] /\ w[i] # h.tail[d]
  BY SMTT(30), HeapFields, NullAssumption DEF Represents, Separate, IsIn, Ptr
<1>3. g.head[r] = h.head[r] /\ g.tail[r] = h.tail[r]
  BY HeapFields DEF Enqueues
<1>4. ASSUME NEW i \in 1..Len(w)
      PROVE  g.next[w[i]] = h.next[w[i]] /\ g.prev[w[i]] = h.prev[w[i]]
  BY HeapFields, <1>2 DEF Enqueues
<1> HIDE DEF g
<1>5. Represents(g, r, w)
  BY <1>1, <1>3, <1>4, Frame
<1> QED BY <1>5 DEF g

\* queue_flush empties one list and leaves the others alone.
LEMMA FlushLists ==
  ASSUME NEW h \in Heaps, NEW q \in Queues
  PROVE  /\ Represents(Flush(h, q), q, <<>>)
         /\ \A r \in Queues, u \in Seq(Cells) :
              r # q /\ Represents(h, r, u) => Represents(Flush(h, q), r, u)
BY HeapFields DEF Represents, Linked, Flush

\* Clearing a wait byte moves no cell.
LEMMA WakeLists ==
  ASSUME NEW h \in Heaps, NEW c \in Cells, NEW q \in Queues, NEW u \in Seq(Cells)
  PROVE  Represents(Wake(h, c), q, u) <=> Represents(h, q, u)
BY HeapFields DEF Represents, Linked, Wake

---------------------------------------------------------------------------
\* Lists whose head and tail are not in any queue's words.

\* A queue's list is tied.
LEMMA TiedLists ==
  ASSUME NEW h, NEW q, NEW s, Represents(h, q, s), s \in Seq(Cells)
  PROVE  Tied(h, s)
BY DEF Represents, Tied, Linked

\* What an operation may do without disturbing it.
LEMMA FrameTied ==
  ASSUME NEW h \in Heaps, NEW g \in Heaps, NEW s \in Seq(Cells), Tied(h, s),
         \A i \in 1..Len(s) : g.next[s[i]] = h.next[s[i]],
         \A i \in 2..Len(s) : g.prev[s[i]] = h.prev[s[i]]
  PROVE  Tied(g, s)
BY DEF Tied, Linked

\* enqueue on a queue leaves it alone.
LEMMA EnqueueTied ==
  ASSUME NEW h \in Heaps, NEW q \in Queues, NEW c \in Cells, NEW s \in Seq(Cells),
         NEW u \in Seq(Cells), Represents(h, q, s), Tied(h, u), ~IsIn(c, u), Separate(s, u)
  PROVE  Tied(Enqueue(h, q, c), u)
<1> DEFINE g == Enqueue(h, q, c)
<1>1. g \in Heaps
  BY EnqueueHeap
<1>2. \A i \in 1..Len(u) : u[i] \in Cells /\ u[i] # c /\ u[i] # h.tail[q]
  BY HeapFields, NullAssumption DEF Represents, IsIn, Ptr, Separate
<1>3. \A i \in 1..Len(u) : g.next[u[i]] = h.next[u[i]] /\ g.prev[u[i]] = h.prev[u[i]]
  BY <1>2, HeapFields DEF Enqueue
<1> HIDE DEF g
<1>4. Tied(g, u)
  BY <1>1, <1>3, FrameTied
<1> QED BY <1>4 DEF g

\* So does dequeue of a cell of a queue ...
LEMMA DequeueTied ==
  ASSUME NEW h \in Heaps, NEW q \in Queues, NEW s \in Seq(Cells),
         Represents(h, q, s), NEW k \in 1..Len(s),
         NEW u \in Seq(Cells), Tied(h, u), Separate(s, u)
  PROVE  Tied(Dequeue(h, q, s[k]), u)
<1> DEFINE g == Dequeue(h, q, s[k])
           p == h.prev[s[k]]
           n == h.next[s[k]]
<1>1. g \in Heaps /\ s[k] \in Cells
  BY DequeueHeap
<1>2. /\ p = NULL \/ \E i \in 1..Len(s) : p = s[i]
      /\ n = NULL \/ \E i \in 1..Len(s) : n = s[i]
  BY Neighbours
<1>3. \A i \in 1..Len(u) : u[i] \in Cells /\ u[i] # p /\ u[i] # n
  BY <1>2, NullAssumption DEF Separate, IsIn
<1>4. \A i \in 1..Len(u) : g.next[u[i]] = h.next[u[i]] /\ g.prev[u[i]] = h.prev[u[i]]
  BY <1>1, <1>3, HeapFields DEF Dequeue
<1> HIDE DEF g
<1>5. Tied(g, u)
  BY <1>1, <1>4, FrameTied
<1> QED BY <1>5 DEF g

\* ... and enqueues of other cells.
LEMMA EnqueuesTied ==
  ASSUME NEW h \in Heaps, NEW d \in Queues, NEW u \in Seq(Cells), NEW a \in Cells, NEW b \in Cells,
         Represents(h, d, u), NEW w \in Seq(Cells), Tied(h, w), Separate(u, w),
         ~IsIn(a, w), ~IsIn(b, w)
  PROVE  Tied(Enqueues(h, d, a, b), w)
<1> DEFINE g == Enqueues(h, d, a, b)
<1>1. g \in Heaps
  BY EnqueuesHeap
<1>2. \A i \in 1..Len(w) : w[i] \in Cells /\ w[i] # a /\ w[i] # b /\ w[i] # h.tail[d]
  BY HeapFields, NullAssumption DEF Represents, IsIn, Ptr, Separate
<1>3. \A i \in 1..Len(w) : g.next[w[i]] = h.next[w[i]] /\ g.prev[w[i]] = h.prev[w[i]]
  BY <1>2, HeapFields DEF Enqueues
<1> HIDE DEF g
<1>4. Tied(g, w)
  BY <1>1, <1>3, FrameTied
<1> QED BY <1>4 DEF g

\* Waking and flushing move no cell.
LEMMA WakeTied ==
  ASSUME NEW h \in Heaps, NEW c \in Cells, NEW u \in Seq(Cells), Tied(h, u)
  PROVE  Tied(Wake(h, c), u)
BY HeapFields DEF Tied, Linked, Wake

LEMMA FlushTied ==
  ASSUME NEW h \in Heaps, NEW q \in Queues, NEW u \in Seq(Cells), Tied(h, u)
  PROVE  Tied(Flush(h, q), u)
BY HeapFields DEF Tied, Linked, Flush

---------------------------------------------------------------------------
\* Which cells the sequences hold.

\* Append adds one cell, and keeps a sequence without repetition.
LEMMA AppendHolds ==
  ASSUME NEW s \in Seq(Cells), NEW c \in Cells, Distinct(s), ~IsIn(c, s)
  PROVE  /\ Append(s, c) \in Seq(Cells) /\ Distinct(Append(s, c))
         /\ \A x \in Cells : IsIn(x, Append(s, c)) <=> IsIn(x, s) \/ x = c
<1>1. /\ Append(s, c) \in Seq(Cells) /\ Len(Append(s, c)) = Len(s) + 1 /\ Len(s) \in Nat
      /\ \A i \in 1..Len(s) : Append(s, c)[i] = s[i]
      /\ Append(s, c)[Len(s) + 1] = c
  OBVIOUS
<1> DEFINE t == Append(s, c)
           m == Len(s)
<1> HIDE DEF t, m
<1>2. t \in Seq(Cells) /\ Len(t) = m + 1 /\ m \in Nat /\ t[m + 1] = c
      /\ m = Len(s) /\ \A i \in 1..m : t[i] = s[i]
  BY <1>1 DEF t, m
<1>3. Distinct(t)
  BY <1>2 DEF Distinct, IsIn
<1>4. ASSUME NEW x \in Cells PROVE IsIn(x, t) <=> IsIn(x, s) \/ x = c
  <2>1. IsIn(x, t) => IsIn(x, s) \/ x = c
    BY <1>2 DEF IsIn
  <2>2. IsIn(x, s) => IsIn(x, t)
    BY <1>2 DEF IsIn
  <2>3. x = c => IsIn(x, t)
    BY <1>2 DEF IsIn
  <2> QED BY <2>1, <2>2, <2>3
<1> QED BY <1>2, <1>3, <1>4 DEF t

\* Without removes one cell, and keeps a sequence without repetition.
LEMMA WithoutHolds ==
  ASSUME NEW s \in Seq(Cells), Distinct(s), NEW k \in 1..Len(s)
  PROVE  /\ Without(s, k) \in Seq(Cells) /\ Distinct(Without(s, k))
         /\ \A x \in Cells : IsIn(x, Without(s, k)) <=> IsIn(x, s) /\ x # s[k]
<1> DEFINE t == Without(s, k)
           m == Len(s)
<1>1. /\ t \in Seq(Cells) /\ Len(t) = m - 1 /\ m \in Nat /\ k \in 1..m
      /\ \A i \in 1..(m - 1) : t[i] = IF i < k THEN s[i] ELSE s[i + 1]
  BY DEF Without
<1>2. m = Len(s)
  OBVIOUS
<1> HIDE DEF t, m
<1>3. Distinct(t)
  BY SMTT(30), <1>1, <1>2 DEF Distinct
<1>4. ASSUME NEW x \in Cells PROVE IsIn(x, t) <=> IsIn(x, s) /\ x # s[k]
  <2>1. ASSUME NEW i \in 1..Len(t), t[i] = x PROVE IsIn(x, s) /\ x # s[k]
    <3>1. CASE i < k
      <4>1. i \in 1..m /\ i # k /\ s[i] = x
        BY <1>1, <2>1, <3>1
      <4> QED BY <1>1, <1>2, <4>1 DEF Distinct, IsIn
    <3>2. CASE ~(i < k)
      <4>1. i + 1 \in 1..m /\ i + 1 # k /\ s[i + 1] = x
        BY <1>1, <2>1, <3>2
      <4> QED BY <1>1, <1>2, <4>1 DEF Distinct, IsIn
    <3> QED BY <3>1, <3>2
  <2>2. ASSUME NEW i \in 1..Len(s), s[i] = x, x # s[k] PROVE IsIn(x, t)
    <3>0. i # k
      BY <2>2
    <3>1. CASE i < k
      <4>1. i \in 1..Len(t) /\ t[i] = x
        BY <1>1, <1>2, <2>2, <3>1
      <4> QED BY <4>1 DEF IsIn
    <3>2. CASE i > k
      <4>1. i - 1 \in 1..Len(t) /\ i - 1 \in 1..(m - 1) /\ ~(i - 1 < k) /\ (i - 1) + 1 = i
        BY <1>1, <1>2, <3>2
      <4>2. t[i - 1] = x
        BY <1>1, <2>2, <4>1
      <4> QED BY <4>1, <4>2 DEF IsIn
    <3> QED BY <1>1, <1>2, <3>0, <3>1, <3>2
  <2> QED BY <2>1, <2>2 DEF IsIn
<1> QED BY <1>1, <1>3, <1>4 DEF t

\* Two separate sequences without repetition have a concatenation without any.
LEMMA ConcatHolds ==
  ASSUME NEW u \in Seq(Cells), NEW v \in Seq(Cells), Distinct(u), Distinct(v),
         Separate(u, v)
  PROVE  /\ u \o v \in Seq(Cells) /\ Distinct(u \o v)
         /\ \A x \in Cells : IsIn(x, u \o v) <=> IsIn(x, u) \/ IsIn(x, v)
<1> DEFINE t == u \o v
           m == Len(u)
           n == Len(v)
<1>1. /\ t \in Seq(Cells) /\ Len(t) = m + n /\ m \in Nat /\ n \in Nat
      /\ \A i \in 1..(m + n) : t[i] = IF i <= m THEN u[i] ELSE v[i - m]
  OBVIOUS
<1>2. m = Len(u) /\ n = Len(v)
  OBVIOUS
<1> HIDE DEF t, m, n
<1>3. ASSUME NEW i \in 1..(m + n)
      PROVE  \/ i \in 1..m /\ t[i] = u[i]
             \/ i > m /\ i - m \in 1..n /\ t[i] = v[i - m]
  BY <1>1
<1>4. \A i \in 1..m, j \in 1..n : u[i] # v[j]
  BY <1>2 DEF Separate, IsIn
<1>5. Distinct(t)
  <2> SUFFICES ASSUME NEW i \in 1..(m + n), NEW j \in 1..(m + n), t[i] = t[j]
               PROVE  i = j
    BY <1>1 DEF Distinct
  <2>1. CASE i \in 1..m /\ j \in 1..m
    BY <1>1, <1>2, <2>1 DEF Distinct
  <2>2. CASE i > m /\ j > m
    <3>1. i - m \in 1..n /\ j - m \in 1..n /\ v[i - m] = v[j - m]
      BY <1>1, <2>2
    <3>2. i - m = j - m
      BY <1>2, <3>1 DEF Distinct
    <3> QED BY <1>1, <3>2
  <2>3. CASE i \in 1..m /\ j > m
    BY SMTT(30), <1>1, <1>3, <1>4, <2>3
  <2>4. CASE i > m /\ j \in 1..m
    BY <1>1, <1>3, <1>4, <2>4
  <2> QED BY <1>1, <2>1, <2>2, <2>3, <2>4
<1>6. ASSUME NEW x \in Cells PROVE IsIn(x, t) <=> IsIn(x, u) \/ IsIn(x, v)
  <2>1. IsIn(x, t) => IsIn(x, u) \/ IsIn(x, v)
    BY <1>1, <1>2, <1>3 DEF IsIn
  <2>2. IsIn(x, u) => IsIn(x, t)
    BY <1>1, <1>2 DEF IsIn
  <2>3. ASSUME NEW j \in 1..n, v[j] = x PROVE IsIn(x, t)
    <3>1. m + j \in 1..Len(t) /\ m + j \in 1..(m + n) /\ ~(m + j <= m) /\ (m + j) - m = j
      BY <1>1
    <3>2. t[m + j] = x
      BY <1>1, <2>3, <3>1
    <3> QED BY <3>1, <3>2 DEF IsIn
  <2> QED BY <1>2, <2>1, <2>2, <2>3 DEF IsIn
<1> QED BY <1>1, <1>5, <1>6 DEF t

\* To take the head is to take the first place out.
LEMMA TailIsWithout ==
  ASSUME NEW s \in Seq(Cells), s # <<>>
  PROVE  Tail(s) = Without(s, 1)
<1>1. /\ Tail(s) \in Seq(Cells) /\ Len(Tail(s)) = Len(s) - 1
      /\ \A i \in 1..(Len(s) - 1) : Tail(s)[i] = s[i + 1]
  OBVIOUS
<1>2. /\ Without(s, 1) \in Seq(Cells) /\ Len(Without(s, 1)) = Len(s) - 1
      /\ \A i \in 1..(Len(s) - 1) : Without(s, 1)[i] = s[i + 1]
  BY DEF Without
<1> QED BY <1>1, <1>2

---------------------------------------------------------------------------
\* The invariant for any heap h and any sequences C, in terms of IsIn: the queues
\* hold the sequences, and nothing is said of the words of those in F, whose
\* cells are only tied to one another.

ListOf(h, q, s, F) == IF q \in F THEN Tied(h, s) ELSE Represents(h, q, s)

Sound(h, C, F) ==
  /\ h \in Heaps
  /\ C \in [Queues -> Seq(Cells)]
  /\ \A q \in Queues : Distinct(C[q]) /\ ListOf(h, q, C[q], F)
  /\ \A q, r \in Queues : q # r => Separate(C[q], C[r])

\* With every queue's words up to date.
LEMMA SoundLists ==
  ASSUME NEW h, NEW C, Sound(h, C, {}), NEW q \in Queues
  PROVE  h \in Heaps /\ C[q] \in Seq(Cells) /\ Distinct(C[q]) /\ Represents(h, q, C[q])
BY DEF Sound, ListOf

LEMMA SoundAll ==
  ASSUME NEW h \in Heaps, NEW C \in [Queues -> Seq(Cells)],
         \A q \in Queues : Distinct(C[q]) /\ Represents(h, q, C[q]),
         \A q, r \in Queues : q # r => Separate(C[q], C[r])
  PROVE  Sound(h, C, {})
BY DEF Sound, ListOf

\* Separation as a statement about cells.
LEMMA SeparateCells ==
  ASSUME NEW s \in Seq(Cells), NEW u \in Seq(Cells)
  PROVE  Separate(s, u) <=> \A x \in Cells : ~(IsIn(x, s) /\ IsIn(x, u))
<1>1. \A i \in 1..Len(s) : s[i] \in Cells
  OBVIOUS
<1> QED BY <1>1 DEF Separate, IsIn

\* enqueue of a cell that is nowhere keeps every list.
LEMMA SoundEnqueue ==
  ASSUME NEW h, NEW C, NEW F, Sound(h, C, F), NEW q \in Queues \ F, NEW c \in Cells,
         \A r \in Queues : ~IsIn(c, C[r])
  PROVE  Sound(Enqueue(h, q, c), [C EXCEPT ![q] = Append(@, c)], F)
<1> DEFINE g == Enqueue(h, q, c)
           D == [C EXCEPT ![q] = Append(@, c)]
<1>1. h \in Heaps /\ C \in [Queues -> Seq(Cells)] /\ \A r \in Queues : C[r] \in Seq(Cells)
  BY DEF Sound
<1>2. /\ Append(C[q], c) \in Seq(Cells) /\ Distinct(Append(C[q], c))
      /\ \A x \in Cells : IsIn(x, Append(C[q], c)) <=> IsIn(x, C[q]) \/ x = c
  BY <1>1, AppendHolds DEF Sound
<1>3. /\ D \in [Queues -> Seq(Cells)] /\ D[q] = Append(C[q], c)
      /\ \A r \in Queues : r # q => D[r] = C[r]
  BY <1>1, <1>2
<1>4. g \in Heaps
  BY <1>1, EnqueueHeap
<1>5. ListOf(g, q, D[q], F)
  BY <1>1, <1>3, EnqueueOwn DEF Sound, ListOf
<1>6. ASSUME NEW r \in Queues, r # q PROVE ListOf(g, r, D[r], F)
  <2>1. Represents(h, q, C[q]) /\ Separate(C[q], C[r]) /\ D[r] = C[r]
    BY <1>3, <1>6 DEF Sound, ListOf
  <2>2. CASE r \in F
    BY <1>1, <2>1, <2>2, EnqueueTied DEF Sound, ListOf
  <2>3. CASE r \notin F
    BY <1>1, <1>6, <2>1, <2>3, EnqueueOther DEF Sound, ListOf
  <2> QED BY <2>2, <2>3
<1> HIDE DEF g, D
<1>7. ASSUME NEW r \in Queues, NEW t \in Queues, r # t
      PROVE  Separate(D[r], D[t])
  <2>1. D[r] \in Seq(Cells) /\ D[t] \in Seq(Cells)
    BY <1>3
  <2>2. \A x \in Cells : ~(IsIn(x, C[r]) /\ IsIn(x, C[t]))
    BY <1>1, <1>7, SeparateCells DEF Sound
  <2>3. ASSUME NEW x \in Cells, NEW m \in Queues
        PROVE  IsIn(x, D[m]) <=> IsIn(x, C[m]) \/ (m = q /\ x = c)
    <3>1. CASE m = q
      BY <1>2, <1>3, <3>1
    <3>2. CASE m # q
      BY <1>3, <3>2
    <3> QED BY <3>1, <3>2
  <2>4. \A x \in Cells : ~(IsIn(x, D[r]) /\ IsIn(x, D[t]))
    BY <1>7, <2>2, <2>3
  <2> QED BY <2>1, <2>4, SeparateCells
<1>8. Sound(g, D, F)
  BY <1>2, <1>3, <1>4, <1>5, <1>6, <1>7 DEF Sound
<1> QED BY <1>8 DEF g, D

\* dequeue of any cell of a list keeps every list.
LEMMA SoundDequeue ==
  ASSUME NEW h, NEW C, NEW F, Sound(h, C, F), NEW q \in Queues \ F, NEW k \in 1..Len(C[q])
  PROVE  Sound(Dequeue(h, q, C[q][k]), [C EXCEPT ![q] = Without(@, k)], F)
<1> DEFINE g == Dequeue(h, q, C[q][k])
           D == [C EXCEPT ![q] = Without(@, k)]
<1>1. h \in Heaps /\ C \in [Queues -> Seq(Cells)] /\ \A r \in Queues : C[r] \in Seq(Cells)
  BY DEF Sound
<1>2. /\ Without(C[q], k) \in Seq(Cells) /\ Distinct(Without(C[q], k))
      /\ \A x \in Cells : IsIn(x, Without(C[q], k)) <=> IsIn(x, C[q]) /\ x # C[q][k]
  BY <1>1, WithoutHolds DEF Sound
<1>3. /\ D \in [Queues -> Seq(Cells)] /\ D[q] = Without(C[q], k)
      /\ \A r \in Queues : r # q => D[r] = C[r]
  BY <1>1, <1>2
<1>4. g \in Heaps
  BY <1>1, DequeueHeap
<1>5. ListOf(g, q, D[q], F)
  BY <1>1, <1>3, DequeueOwn DEF Sound, ListOf
<1>6. ASSUME NEW r \in Queues, r # q PROVE ListOf(g, r, D[r], F)
  <2>1. Represents(h, q, C[q]) /\ Separate(C[q], C[r]) /\ D[r] = C[r]
    BY <1>3, <1>6 DEF Sound, ListOf
  <2>2. CASE r \in F
    BY <1>1, <2>1, <2>2, DequeueTied DEF Sound, ListOf
  <2>3. CASE r \notin F
    BY <1>1, <1>6, <2>1, <2>3, DequeueOther DEF Sound, ListOf
  <2> QED BY <2>2, <2>3
<1> HIDE DEF g, D
<1>7. ASSUME NEW r \in Queues, NEW t \in Queues, r # t
      PROVE  Separate(D[r], D[t])
  <2>1. D[r] \in Seq(Cells) /\ D[t] \in Seq(Cells)
    BY <1>3
  <2>2. \A x \in Cells : ~(IsIn(x, C[r]) /\ IsIn(x, C[t]))
    BY <1>1, <1>7, SeparateCells DEF Sound
  <2>3. ASSUME NEW x \in Cells, NEW m \in Queues, IsIn(x, D[m]) PROVE IsIn(x, C[m])
    <3>1. CASE m = q
      BY <1>2, <1>3, <2>3, <3>1
    <3>2. CASE m # q
      BY <1>3, <2>3, <3>2
    <3> QED BY <3>1, <3>2
  <2>4. \A x \in Cells : ~(IsIn(x, D[r]) /\ IsIn(x, D[t]))
    BY <2>2, <2>3
  <2> QED BY <2>1, <2>4, SeparateCells
<1>8. Sound(g, D, F)
  BY <1>2, <1>3, <1>4, <1>5, <1>6, <1>7 DEF Sound
<1> QED BY <1>8 DEF g, D

\* queue_cell_wake keeps every list.
LEMMA SoundWake ==
  ASSUME NEW h, NEW C, NEW F, Sound(h, C, F), NEW c \in Cells
  PROVE  Sound(Wake(h, c), C, F)
<1>1. ASSUME NEW q \in Queues PROVE ListOf(Wake(h, c), q, C[q], F)
  BY WakeLists, WakeTied DEF Sound, ListOf
<1>2. Wake(h, c) \in Heaps
  BY DEF Sound, Heaps, Wake
<1> QED BY <1>1, <1>2 DEF Sound

\* A queue is emptied at once.
LEMMA SoundFlush ==
  ASSUME NEW h, NEW C, NEW F, Sound(h, C, F), NEW q \in Queues
  PROVE  Sound(Flush(h, q), [C EXCEPT ![q] = <<>>], F \ {q})
<1> DEFINE g == Flush(h, q)
           D == [C EXCEPT ![q] = <<>>]
<1>1. h \in Heaps /\ C \in [Queues -> Seq(Cells)] /\ \A r \in Queues : C[r] \in Seq(Cells)
  BY DEF Sound
<1>2. /\ D \in [Queues -> Seq(Cells)] /\ D[q] = <<>>
      /\ \A r \in Queues : r # q => D[r] = C[r]
  BY <1>1
<1>3. g \in Heaps
  BY <1>1 DEF Heaps, Flush, Ptr
<1>4. ListOf(g, q, D[q], F \ {q})
  BY <1>1, <1>2, FlushLists DEF ListOf
<1>5. ASSUME NEW r \in Queues, r # q PROVE ListOf(g, r, D[r], F \ {q})
  <2>1. CASE r \in F
    BY <1>1, <1>2, <1>5, <2>1, FlushTied DEF Sound, ListOf
  <2>2. CASE r \notin F
    BY <1>1, <1>2, <1>5, <2>2, FlushLists DEF Sound, ListOf
  <2> QED BY <2>1, <2>2
<1> HIDE DEF g, D
<1>6. ASSUME NEW r \in Queues PROVE Distinct(D[r])
  <2>1. CASE r = q
    BY <1>2, <2>1 DEF Distinct
  <2>2. CASE r # q
    BY <1>2, <2>2 DEF Sound
  <2> QED BY <2>1, <2>2
<1>7. ASSUME NEW r \in Queues, NEW t \in Queues, r # t PROVE Separate(D[r], D[t])
  <2>1. CASE r = q
    BY <1>2, <2>1 DEF Separate
  <2>2. CASE t = q
    BY <1>2, <2>2 DEF Separate, IsIn
  <2>3. CASE r # q /\ t # q
    BY <1>2, <1>7, <2>3 DEF Sound
  <2> QED BY <2>1, <2>2, <2>3
<1>8. Sound(g, D, F \ {q})
  BY <1>2, <1>3, <1>4, <1>5, <1>6, <1>7 DEF Sound
<1> QED BY <1>8 DEF g, D

---------------------------------------------------------------------------
\* A queue that is taken to pieces.

\* The cells of s from the i-th to the j-th.
Piece(s, i, j) == [k \in 1..(j - i + 1) |-> s[k + i - 1]]

LEMMA Pieces ==
  ASSUME NEW s \in Seq(Cells), Distinct(s), NEW i \in 1..(Len(s) + 1), NEW j \in (i - 1)..Len(s)
  PROVE  /\ Piece(s, i, j) \in Seq(Cells) /\ Distinct(Piece(s, i, j))
         /\ Len(Piece(s, i, j)) = j - i + 1
         /\ \A k \in 1..(j - i + 1) : Piece(s, i, j)[k] = s[k + i - 1]
         /\ \A x \in Cells : IsIn(x, Piece(s, i, j)) <=> \E k \in i..j : s[k] = x
<1> DEFINE v == Piece(s, i, j)
           n == j - i + 1
<1>1. n \in Nat /\ v \in [1..n -> Cells] /\ \A k \in 1..n : v[k] = s[k + i - 1]
  BY DEF Piece
<1>2. v \in Seq(Cells) /\ Len(v) = n
  BY <1>1
<1>3. Distinct(v)
  <2>. SUFFICES ASSUME NEW a \in 1..n, NEW b \in 1..n, v[a] = v[b] PROVE a = b
    BY <1>2 DEF Distinct
  <2>. HIDE DEF v
  <2>1. a + i - 1 \in 1..Len(s) /\ b + i - 1 \in 1..Len(s)
    OBVIOUS
  <2>2. s[a + i - 1] = s[b + i - 1]
    BY <1>1
  <2>3. a + i - 1 = b + i - 1
    BY <2>1, <2>2 DEF Distinct
  <2> QED BY <2>3
<1>4. ASSUME NEW x \in Cells PROVE IsIn(x, v) <=> \E k \in i..j : s[k] = x
  <2>1. ASSUME NEW k \in 1..n, v[k] = x PROVE \E l \in i..j : s[l] = x
    <3>1. k + i - 1 \in i..j /\ s[k + i - 1] = x
      BY <1>1, <2>1
    <3> QED BY <3>1
  <2>2. ASSUME NEW k \in i..j, s[k] = x PROVE \E l \in 1..n : v[l] = x
    <3>1. k - i + 1 \in 1..n /\ v[k - i + 1] = s[(k - i + 1) + i - 1] /\ (k - i + 1) + i - 1 = k
      BY <1>1
    <3> QED BY <2>2, <3>1
  <2> QED BY <1>2, <2>1, <2>2 DEF IsIn
<1> QED BY <1>1, <1>2, <1>3, <1>4

\* r is what is left of s when its first j cells have gone.
Rests(r, s, j) ==
  /\ r \in Seq(Cells) /\ Len(r) = Len(s) - j
  /\ \A i \in 1..(Len(s) - j) : r[i] = s[i + j]
  /\ \A x \in Cells : IsIn(x, r) <=> \E i \in (j + 1)..Len(s) : s[i] = x

LEMMA Rest ==
  ASSUME NEW s \in Seq(Cells), Distinct(s), NEW j \in 0..Len(s)
  PROVE  Rests(Piece(s, j + 1, Len(s)), s, j)
<1>r. PICK r : r = Piece(s, j + 1, Len(s))
  OBVIOUS
<1>1. PICK a \in 1..(Len(s) + 1) : a = j + 1
  OBVIOUS
<1>2. PICK b \in (a - 1)..Len(s) : b = Len(s)
  BY <1>1
<1>3. /\ Piece(s, a, b) \in Seq(Cells) /\ Len(Piece(s, a, b)) = b - a + 1
      /\ \A i \in 1..(b - a + 1) : Piece(s, a, b)[i] = s[i + a - 1]
      /\ \A x \in Cells : IsIn(x, Piece(s, a, b)) <=> \E i \in a..b : s[i] = x
  BY Pieces
<1>4. r = Piece(s, a, b)
  BY <1>1, <1>2, <1>r
<1>5. b - a + 1 = Len(s) - j /\ \A i \in 1..(Len(s) - j) : i + a - 1 = i + j
  BY <1>1, <1>2
<1>6. Len(r) = Len(s) - j
  BY <1>3, <1>4, <1>5
<1>7. \A i \in 1..(Len(s) - j) : r[i] = s[i + j]
  BY <1>3, <1>4, <1>5
<1>8. Rests(r, s, j)
  BY <1>1, <1>2, <1>3, <1>4, <1>6, <1>7 DEF Rests
<1>. QED  BY <1>r, <1>8

\* A piece of a tied list is linked, and its end is tied.
LEMMA TiedPieces ==
  ASSUME NEW h, NEW s \in Seq(Cells), Distinct(s), Tied(h, s),
         NEW i \in 1..(Len(s) + 1), NEW j \in (i - 1)..Len(s)
  PROVE  /\ Linked(h, Piece(s, i, j))
         /\ Tied(h, Piece(s, i, Len(s)))
<1>1. /\ Len(Piece(s, i, j)) = j - i + 1
      /\ \A k \in 1..(j - i + 1) : Piece(s, i, j)[k] = s[k + i - 1]
  BY Pieces
<1>2. /\ Len(Piece(s, i, Len(s))) = Len(s) - i + 1 /\ Piece(s, i, Len(s)) \in Seq(Cells)
      /\ \A k \in 1..(Len(s) - i + 1) : Piece(s, i, Len(s))[k] = s[k + i - 1]
  BY Pieces
<1>3. \A k \in 1..(Len(s) - 1) : h.next[s[k]] = s[k + 1] /\ h.prev[s[k + 1]] = s[k]
  BY DEF Tied, Linked
<1>4. ASSUME NEW m \in (i - 1)..Len(s), NEW v, Len(v) = m - i + 1,
             \A k \in 1..(m - i + 1) : v[k] = s[k + i - 1]
      PROVE  Linked(h, v)
  <2>1. ASSUME NEW k \in 1..(Len(v) - 1)
        PROVE  h.next[v[k]] = v[k + 1] /\ h.prev[v[k + 1]] = v[k]
    <3>1. /\ k \in 1..(m - i + 1) /\ k + 1 \in 1..(m - i + 1) /\ k + i - 1 \in 1..(Len(s) - 1)
          /\ (k + 1) + i - 1 = (k + i - 1) + 1
      BY <1>4
    <3>2. v[k] = s[k + i - 1]
      BY <1>4, <3>1
    <3>3. v[k + 1] = s[(k + 1) + i - 1]
      BY <1>4, <3>1
    <3> QED BY <1>3, <3>1, <3>2, <3>3
  <2> QED BY <2>1 DEF Linked
<1>5. Linked(h, Piece(s, i, j))
  BY <1>1, <1>4
<1>6. Linked(h, Piece(s, i, Len(s)))
  BY <1>2, <1>4
<1>7. ASSUME Piece(s, i, Len(s)) # <<>>
      PROVE  h.next[Piece(s, i, Len(s))[Len(s) - i + 1]] = NULL
  <2>1. Len(s) - i + 1 \in 1..(Len(s) - i + 1) /\ (Len(s) - i + 1) + i - 1 = Len(s) /\ s # <<>>
    BY <1>2, <1>7
  <2>2. Piece(s, i, Len(s))[Len(s) - i + 1] = s[Len(s)]
    BY <1>2, <2>1
  <2> QED BY <2>1, <2>2 DEF Tied
<1> QED BY <1>2, <1>5, <1>6, <1>7 DEF Tied

\* Nothing is said of the words of one queue more.
LEMMA SoundForget ==
  ASSUME NEW h, NEW C, NEW F, Sound(h, C, F), NEW c \in Queues
  PROVE  Sound(h, C, F \cup {c})
<1>1. ASSUME NEW q \in Queues PROVE ListOf(h, q, C[q], F \cup {c})
  BY TiedLists DEF Sound, ListOf
<1> QED BY <1>1 DEF Sound

\* The first cells of a queue whose words are out of date are let go.
LEMMA SoundDrop ==
  ASSUME NEW h, NEW C, NEW F, Sound(h, C, F), NEW c \in Queues \cap F, NEW i \in 1..(Len(C[c]) + 1)
  PROVE  Sound(h, [C EXCEPT ![c] = Piece(C[c], i, Len(C[c]))], F)
<1> DEFINE s == C[c]
           r == Piece(s, i, Len(s))
           D == [C EXCEPT ![c] = r]
<1>1. /\ h \in Heaps /\ C \in [Queues -> Seq(Cells)] /\ s \in Seq(Cells) /\ Distinct(s)
      /\ Tied(h, s)
  BY DEF Sound, ListOf
<1>2. r \in Seq(Cells) /\ Distinct(r) /\ Tied(h, r)
  BY <1>1, Pieces, TiedPieces
<1>3. \A x \in Cells : IsIn(x, r) => IsIn(x, s)
  <2>1. Len(s) \in (i - 1)..Len(s) /\ i..Len(s) \subseteq 1..Len(s)
    BY <1>1
  <2>2. \A x \in Cells : IsIn(x, r) <=> \E k \in i..Len(s) : s[k] = x
    BY <1>1, <2>1, Pieces
  <2> QED BY <2>1, <2>2 DEF IsIn
<1> HIDE DEF r, s
<1>4. /\ D \in [Queues -> Seq(Cells)] /\ D[c] = r /\ \A q \in Queues \ {c} : D[q] = C[q]
  BY <1>1, <1>2
<1> HIDE DEF D
<1>5. ASSUME NEW q \in Queues PROVE Distinct(D[q]) /\ ListOf(h, q, D[q], F)
  <2>1. CASE q = c
    BY <1>2, <1>4, <2>1 DEF ListOf
  <2>2. CASE q # c
    BY <1>4, <2>2 DEF Sound
  <2> QED BY <2>1, <2>2
<1>6. ASSUME NEW q \in Queues, NEW t \in Queues, q # t PROVE Separate(D[q], D[t])
  <2>1. \A x \in Cells, m \in Queues : IsIn(x, D[m]) => IsIn(x, C[m])
    BY <1>3, <1>4 DEF s
  <2>2. \A x \in Cells : ~(IsIn(x, C[q]) /\ IsIn(x, C[t]))
    BY <1>1, <1>6, SeparateCells DEF Sound
  <2> QED BY <1>4, <2>1, <2>2, SeparateCells
<1>7. Sound(h, D, F)
  BY <1>1, <1>4, <1>5, <1>6 DEF Sound
<1> QED BY <1>7 DEF D, r, s

\* Cells i to j of a queue whose words are out of date go to the end of queue d,
\* and those before them are let go.
LEMMA SoundCut ==
  ASSUME NEW h, NEW C, NEW F, Sound(h, C, F), NEW c \in Queues \cap F, NEW d \in Queues \ F,
         NEW i \in 1..Len(C[c]), NEW j \in i..Len(C[c])
  PROVE  Sound(Enqueues(h, d, C[c][i], C[c][j]),
               [C EXCEPT ![c] = Piece(C[c], j + 1, Len(C[c])), ![d] = @ \o Piece(C[c], i, j)], F)
<1> DEFINE s == C[c]
           r == Piece(s, j + 1, Len(s))
           v == Piece(s, i, j)
           g == Enqueues(h, d, s[i], s[j])
           D == [C EXCEPT ![c] = r, ![d] = @ \o v]
<1>1. /\ h \in Heaps /\ C \in [Queues -> Seq(Cells)] /\ s \in Seq(Cells) /\ Distinct(s)
      /\ Tied(h, s) /\ s[i] \in Cells /\ s[j] \in Cells /\ c # d
      /\ C[d] \in Seq(Cells) /\ Distinct(C[d]) /\ Represents(h, d, C[d])
  BY DEF Sound, ListOf
<1>2. /\ r \in Seq(Cells) /\ Distinct(r) /\ Tied(h, r)
      /\ \A x \in Cells : IsIn(x, r) <=> \E k \in (j + 1)..Len(s) : s[k] = x
  <2>1. j + 1 \in 1..(Len(s) + 1) /\ Len(s) \in ((j + 1) - 1)..Len(s)
    BY <1>1
  <2> QED BY <1>1, <2>1, Pieces, TiedPieces
<1>3. /\ v \in Seq(Cells) /\ Distinct(v) /\ Linked(h, v) /\ Len(v) = j - i + 1
      /\ v[1] = s[i] /\ v[Len(v)] = s[j] /\ v # <<>>
      /\ \A x \in Cells : IsIn(x, v) <=> \E k \in i..j : s[k] = x
  <2>1. i \in 1..(Len(s) + 1) /\ j \in (i - 1)..Len(s)
    BY <1>1
  <2>2. /\ v \in Seq(Cells) /\ Distinct(v) /\ Linked(h, v) /\ Len(v) = j - i + 1
        /\ \A k \in 1..(j - i + 1) : v[k] = s[k + i - 1]
        /\ \A x \in Cells : IsIn(x, v) <=> \E k \in i..j : s[k] = x
    BY SMTT(30), <1>1, <2>1, Pieces, TiedPieces
  <2> HIDE DEF v
  <2>3. 1 \in 1..(j - i + 1) /\ 1 + i - 1 = i /\ j - i + 1 \in 1..(j - i + 1) /\ (j - i + 1) + i - 1 = j
    BY <1>1
  <2>4. v[1] = s[1 + i - 1]
    BY <2>2, <2>3
  <2>5. v[j - i + 1] = s[(j - i + 1) + i - 1]
    BY <2>2, <2>3
  <2>6. v # <<>>
    BY <2>2, <2>3
  <2> HIDE DEF s
  <2> QED BY <2>2, <2>3, <2>4, <2>5, <2>6
<1>4. /\ \A x \in Cells : IsIn(x, r) \/ IsIn(x, v) => IsIn(x, s)
      /\ \A x \in Cells : ~ (IsIn(x, r) /\ IsIn(x, v))
  <2>1. /\ (j + 1)..Len(s) \subseteq 1..Len(s) /\ i..j \subseteq 1..Len(s)
        /\ \A k \in (j + 1)..Len(s), l \in i..j : k # l
    BY <1>1
  <2> HIDE DEF s, r, v
  <2>2. \A x \in Cells : IsIn(x, r) \/ IsIn(x, v) => IsIn(x, s)
    BY <1>2, <1>3, <2>1 DEF IsIn
  <2>3. ASSUME NEW x \in Cells, IsIn(x, r), IsIn(x, v) PROVE FALSE
    <3>1. PICK k \in (j + 1)..Len(s) : s[k] = x
      BY <1>2, <2>3
    <3>2. PICK l \in i..j : s[l] = x
      BY <1>3, <2>3
    <3> QED BY <1>1, <2>1, <3>1, <3>2 DEF Distinct
  <2> QED BY <2>2, <2>3
<1>5. /\ IsIn(s[i], v) /\ IsIn(s[j], v)
  BY <1>1, <1>3
<1> HIDE DEF r, v
<1>6. \A p, q \in Queues : p # q => \A x \in Cells : ~(IsIn(x, C[p]) /\ IsIn(x, C[q]))
  BY <1>1, SeparateCells DEF Sound
<1>7. \A q \in Queues \ {c} : Separate(C[q], v) /\ Separate(v, C[q]) /\ Separate(C[q], r)
  BY <1>1, <1>2, <1>3, <1>4, <1>6, SeparateCells
<1>8. /\ C[d] \o v \in Seq(Cells) /\ Distinct(C[d] \o v)
      /\ \A x \in Cells : IsIn(x, C[d] \o v) <=> IsIn(x, C[d]) \/ IsIn(x, v)
  BY <1>1, <1>3, <1>7, ConcatHolds
<1>9. /\ D \in [Queues -> Seq(Cells)] /\ D[c] = r /\ D[d] = C[d] \o v
      /\ \A q \in Queues \ {c, d} : D[q] = C[q]
  <2>1. D = [q \in Queues |-> IF q = c THEN r ELSE IF q = d THEN C[d] \o v ELSE C[q]]
    BY <1>1
  <2> HIDE DEF D
  <2> QED BY <1>1, <1>2, <1>8, <2>1
<1>10. g \in Heaps
  BY <1>1, EnqueuesHeap
<1>11. Represents(g, d, D[d])
  BY <1>1, <1>3, <1>7, <1>9, EnqueuesOwn
<1>12. Tied(g, r)
  BY <1>1, <1>2, <1>4, <1>5, <1>7, EnqueuesTied
<1>13. ASSUME NEW q \in Queues, q # c, q # d PROVE ListOf(g, q, C[q], F)
  <2>1. C[q] \in Seq(Cells) /\ Separate(C[d], C[q]) /\ Separate(v, C[q]) /\ ListOf(h, q, C[q], F)
    BY <1>1, <1>7, <1>13 DEF Sound
  <2>2. ~ IsIn(s[i], C[q]) /\ ~ IsIn(s[j], C[q])
    BY <1>1, <1>4, <1>5, <1>6, <1>13
  <2>3. CASE q \in F
    BY <1>1, <2>1, <2>2, <2>3, EnqueuesTied DEF ListOf
  <2>4. CASE q \notin F
    BY <1>1, <1>3, <1>13, <2>1, <2>4, EnqueuesOther DEF ListOf
  <2> QED BY <2>3, <2>4
<1> HIDE DEF D, g, s
<1>14. ASSUME NEW q \in Queues PROVE Distinct(D[q]) /\ ListOf(g, q, D[q], F)
  <2>1. CASE q = c
    BY <1>2, <1>9, <1>12, <2>1 DEF ListOf
  <2>2. CASE q = d
    BY <1>8, <1>9, <1>11, <2>2 DEF ListOf
  <2>3. CASE q # c /\ q # d
    BY <1>9, <1>13, <2>3 DEF Sound
  <2> QED BY <2>1, <2>2, <2>3
<1>15. ASSUME NEW p \in Queues, NEW q \in Queues, p # q PROVE Separate(D[p], D[q])
  <2>1. \A x \in Cells : ~(IsIn(x, D[p]) /\ IsIn(x, D[q]))
    BY <1>4, <1>6, <1>8, <1>9, <1>15 DEF s
  <2> QED BY <1>9, <2>1, SeparateCells
<1>16. Sound(g, D, F)
  BY <1>9, <1>10, <1>14, <1>15 DEF Sound
<1> QED BY <1>16 DEF D, g, r, s, v

---------------------------------------------------------------------------
\* The wait bytes.

\* What enqueue, queue_cell_wake and dequeue do to the wait bytes.
LEMMA WaitBytes ==
  ASSUME NEW h \in Heaps, NEW q \in Queues, NEW c \in Cells
  PROVE  \A x \in Cells :
           /\ Enqueue(h, q, c).wait[x] = IF x = c THEN 1 ELSE h.wait[x]
           /\ Wake(h, c).wait[x] = IF x = c THEN 0 ELSE h.wait[x]
           /\ Dequeue(h, q, c).wait[x] = h.wait[x]
BY DEF Heaps, Enqueue, Wake, Dequeue

\* enqueues and queue_flush leave the wait bytes alone.
LEMMA MovedBytes ==
  ASSUME NEW h \in Heaps, NEW q \in Queues, NEW a \in Cells, NEW b \in Cells
  PROVE  \A x \in Cells :
           Enqueues(h, q, a, b).wait[x] = h.wait[x] /\ Flush(h, q).wait[x] = h.wait[x]
BY DEF Heaps, Enqueues, Flush

\* A queue whose head is a cell has a list that starts with it.
LEMMA HeadCell ==
  ASSUME NEW h, NEW C, NEW F, Sound(h, C, F), NEW q \in Queues \ F, h.head[q] # NULL
  PROVE  /\ C[q] \in Seq(Cells) /\ C[q] # <<>> /\ Distinct(C[q])
         /\ 1 \in 1..Len(C[q]) /\ h.head[q] = C[q][1] /\ h.head[q] \in Cells
         /\ h.tail[q] = C[q][Len(C[q])]
         /\ Tail(C[q]) = Without(C[q], 1)
<1>1. C[q] \in Seq(Cells) /\ Represents(h, q, C[q]) /\ Distinct(C[q])
  BY DEF Sound, ListOf
<1>2. C[q] # <<>> /\ h.head[q] = C[q][1] /\ h.tail[q] = C[q][Len(C[q])]
  BY <1>1 DEF Represents
<1>3. 1 \in 1..Len(C[q]) /\ C[q][1] \in Cells
  BY <1>1, <1>2
<1> QED BY <1>1, <1>2, <1>3, TailIsWithout

\* The head word says whether the list is empty.
LEMMA NoHead ==
  ASSUME NEW h, NEW C, NEW F, Sound(h, C, F), NEW q \in Queues \ F
  PROVE  h.head[q] = NULL <=> C[q] = <<>>
<1>1. C[q] \in Seq(Cells) /\ Represents(h, q, C[q])
  BY DEF Sound, ListOf
<1>2. C[q] # <<>> => C[q][1] \in Cells
  BY <1>1
<1> QED BY <1>1, <1>2, NullAssumption DEF Represents

\* A cell of a list is in no other one.
LEMMA OneList ==
  ASSUME NEW h, NEW C, NEW F, Sound(h, C, F), NEW q \in Queues, NEW r \in Queues, q # r,
         NEW x \in Cells, IsIn(x, C[q])
  PROVE  ~IsIn(x, C[r])
<1>1. C[q] \in Seq(Cells) /\ C[r] \in Seq(Cells) /\ Separate(C[q], C[r])
  BY DEF Sound
<1> QED BY <1>1, SeparateCells

\* In D, cells i to j of queue c of C are in queue d, and those before them nowhere.
IsCut(D, C, c, d, i, j) ==
  /\ \A r \in Queues \ {c, d} : D[r] = C[r]
  /\ Rests(D[c], C[c], j)
  /\ \A x \in Cells : IsIn(x, D[d]) <=> IsIn(x, C[d]) \/ \E k \in i..j : C[c][k] = x

\* Cells i to j of a queue whose words are out of date go to the end of queue d,
\* and the cells before them are let go.
LEMMA CutOut ==
  ASSUME NEW h, NEW C, NEW F, Sound(h, C, F), NEW c \in Queues \cap F, NEW d \in Queues \ F,
         NEW s, s = C[c], NEW i \in 1..Len(s), NEW j \in i..Len(s)
  PROVE  \E D : Sound(Enqueues(h, d, s[i], s[j]), D, F) /\ IsCut(D, C, c, d, i, j)
<1>1. /\ C \in [Queues -> Seq(Cells)] /\ s \in Seq(Cells) /\ Distinct(s)
      /\ C[d] \in Seq(Cells) /\ Distinct(C[d]) /\ c # d /\ Separate(C[d], s)
  BY DEF Sound
<1>2. PICK v : v = Piece(s, i, j)
  OBVIOUS
<1>3. v \in Seq(Cells) /\ Distinct(v) /\ \A x \in Cells : IsIn(x, v) <=> \E k \in i..j : s[k] = x
  <2>1. i \in 1..(Len(s) + 1) /\ j \in (i - 1)..Len(s)
    BY <1>1
  <2>2. /\ Piece(s, i, j) \in Seq(Cells) /\ Distinct(Piece(s, i, j))
        /\ \A x \in Cells : IsIn(x, Piece(s, i, j)) <=> \E k \in i..j : s[k] = x
    BY ZenonT(60), <1>1, <2>1, Pieces
  <2>. QED  BY <1>2, <2>2
<1>4. PICK D : D = [C EXCEPT ![c] = Piece(s, j + 1, Len(s)), ![d] = @ \o v]
  OBVIOUS
<1>5. Sound(Enqueues(h, d, s[i], s[j]), D, F)
  BY <1>2, <1>4, SoundCut
<1>6. /\ D[c] = Piece(s, j + 1, Len(s)) /\ D[d] = C[d] \o v
      /\ \A r \in Queues \ {c, d} : D[r] = C[r]
  BY <1>1, <1>4
<1>7. j \in 0..Len(s)
  BY <1>1
<1>8. Rests(D[c], s, j)
  BY <1>1, <1>6, <1>7, Rest
<1>9. Separate(C[d], v)
  <2>1. \A k \in i..j : k \in 1..Len(s)
    BY <1>1
  <2>2. \A x \in Cells : IsIn(x, v) => IsIn(x, s)
    BY <1>3, <2>1 DEF IsIn
  <2>. QED  BY <1>1, <1>3, <2>2, SeparateCells
<1>10. \A x \in Cells : IsIn(x, D[d]) <=> IsIn(x, C[d]) \/ IsIn(x, v)
  BY <1>1, <1>3, <1>6, <1>9, ConcatHolds
<1>11. IsCut(D, C, c, d, i, j)
  BY <1>3, <1>6, <1>8, <1>10 DEF IsCut
<1>. QED  BY <1>5, <1>11

\* The first j cells of such a queue are let go.
LEMMA DropOut ==
  ASSUME NEW h, NEW C, NEW F, Sound(h, C, F), NEW c \in Queues \cap F,
         NEW s, s = C[c], NEW j \in 1..Len(s)
  PROVE  \E D :
           /\ Sound(h, D, F) /\ \A r \in Queues \ {c} : D[r] = C[r]
           /\ Rests(D[c], s, j)
<1>1. C \in [Queues -> Seq(Cells)] /\ s \in Seq(Cells) /\ Distinct(s)
  BY DEF Sound
<1>2. j \in 0..Len(s) /\ j + 1 \in 1..(Len(s) + 1)
  BY <1>1
<1>3. PICK D : D = [C EXCEPT ![c] = Piece(s, j + 1, Len(s))]
  OBVIOUS
<1>4. Sound(h, D, F)
  BY <1>2, <1>3, SoundDrop
<1>5. D[c] = Piece(s, j + 1, Len(s)) /\ \A r \in Queues \ {c} : D[r] = C[r]
  BY <1>1, <1>3
<1>6. Rests(D[c], s, j)
  BY <1>1, <1>2, <1>5, Rest
<1>. QED  BY <1>4, <1>5, <1>6

=============================================================================
