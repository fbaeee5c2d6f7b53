----------------------------- MODULE SpinQueue -----------------------------
(***************************************************************************)
(* The lists of activecond/include/spinqueue.h: struct queue with its head *)
(* and tail, struct queue_cell with its next, prev and wait fields.  A     *)
(* heap is the contents of all of them; each operator is the heap an       *)
(* inline function of the header leaves.  A cell that is nowhere keeps the *)
(* stale pointers it had, as in the code.                                  *)
(***************************************************************************)
EXTENDS Naturals, Sequences

CONSTANTS Queues, Cells, NULL

ASSUME NullAssumption == NULL \notin Cells

Ptr == Cells \cup {NULL}

Heaps ==
  [head : [Queues -> Ptr], tail : [Queues -> Ptr],
   next : [Cells -> Ptr], prev : [Cells -> Ptr], wait : [Cells -> {0, 1}]]

\* Queues and thread-local cells start zeroed.
ZeroHeap ==
  [head |-> [q \in Queues |-> NULL], tail |-> [q \in Queues |-> NULL],
   next |-> [c \in Cells |-> NULL], prev |-> [c \in Cells |-> NULL],
   wait |-> [c \in Cells |-> 0]]

Enqueue(h, q, c) ==
  IF h.head[q] = NULL
  THEN [h EXCEPT !.wait[c] = 1, !.next[c] = NULL, !.head[q] = c,
                 !.prev[c] = NULL, !.tail[q] = c]
  ELSE [h EXCEPT !.wait[c] = 1, !.next = [@ EXCEPT ![c] = NULL, ![h.tail[q]] = c],
                 !.prev[c] = h.tail[q], !.tail[q] = c]

\* The list from a to b goes to the end of q.
Enqueues(h, q, a, b) ==
  IF h.head[q] = NULL
  THEN [h EXCEPT !.next[b] = NULL, !.head[q] = a, !.prev[a] = NULL, !.tail[q] = b]
  ELSE [h EXCEPT !.next = [@ EXCEPT ![b] = NULL, ![h.tail[q]] = a],
                 !.prev[a] = h.tail[q], !.tail[q] = b]

\* c is unlinked from its neighbours; q only counts when it has none.
Dequeue(h, q, c) ==
  LET p == h.prev[c]
      n == h.next[c]
      unlinked == IF p # NULL THEN [h EXCEPT !.next[p] = n]
                              ELSE [h EXCEPT !.head[q] = n]
  IN IF n # NULL THEN [unlinked EXCEPT !.prev[n] = p]
                 ELSE [unlinked EXCEPT !.tail[q] = p]

Flush(h, q) == [h EXCEPT !.head[q] = NULL, !.tail[q] = NULL]

Wake(h, c) == [h EXCEPT !.wait[c] = 0]

---------------------------------------------------------------------------
\* What a list stands for.

IsIn(c, s) == \E i \in 1..Len(s) : s[i] = c
Without(s, k) == [i \in 1..(Len(s) - 1) |-> IF i < k THEN s[i] ELSE s[i + 1]]

\* The cells of s are linked to one another in the order of s.
Linked(h, s) ==
  \A i \in 1..(Len(s) - 1) : h.next[s[i]] = s[i + 1] /\ h.prev[s[i + 1]] = s[i]

\* A list whose head and tail are not in any queue's words, as while a broadcast
\* takes the queue of a condition to pieces.
Tied(h, s) == Linked(h, s) /\ (s # <<>> => h.next[s[Len(s)]] = NULL)

\* Queue q of heap h holds exactly the cells of s, readable in both directions.
Represents(h, q, s) ==
  IF s = <<>>
  THEN h.head[q] = NULL /\ h.tail[q] = NULL
  ELSE /\ h.head[q] = s[1] /\ h.prev[s[1]] = NULL
       /\ h.tail[q] = s[Len(s)] /\ h.next[s[Len(s)]] = NULL
       /\ Linked(h, s)

=============================================================================
