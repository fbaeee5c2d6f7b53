----------------------------- MODULE TicketLock -----------------------------
(***************************************************************************)
(* queue_acquire and queue_release of activecond/include/spinqueue.h: a    *)
(* ticket lock made of two machine words.  acquire takes a ticket with an  *)
(* atomic fetch-and-add and spins until `owner` shows it; release runs a   *)
(* fence and then increments `owner` with a plain load, add and store.     *)
(*                                                                         *)
(* The words wrap at W (2^64 in the code).  The memory is sequentially     *)
(* consistent: the code runs on x86 with the fence the lock issues before  *)
(* its store, and is compiled without optimisation (activecond/Makefile).  *)
(***************************************************************************)
EXTENDS Naturals, Sequences, FiniteSets

CONSTANTS Threads, W

\* There are never more threads than tickets.
ASSUME WidthAssumption ==
  /\ IsFiniteSet(Threads)
  /\ W \in Nat \ {0}
  /\ Cardinality(Threads) <= W

VARIABLES
  pc,      \* where a thread is in acquire, in its critical section, in release
  ticket,  \* q->ticket
  owner,   \* q->owner
  mine,    \* acquire's local t, and release's loaded value of q->owner
  line     \* auxiliary: threads by the order of their fetch-and-add

vars == <<pc, ticket, owner, mine, line>>

Words == 0..(W - 1)
Plus(x, n) == IF x + n < W THEN x + n ELSE x + n - W
Succ(x) == Plus(x, 1)

Init ==
  /\ pc = [t \in Threads |-> "idle"]
  /\ ticket = 0
  /\ owner = 0
  /\ mine = [t \in Threads |-> 0]
  /\ line = <<>>

\* queue_acquire: t = __sync_fetch_and_add(&q->ticket, 1)
Take(t) ==
  /\ pc[t] = "idle"
  /\ mine' = [mine EXCEPT ![t] = ticket]
  /\ ticket' = Succ(ticket)
  /\ line' = Append(line, t)
  /\ pc' = [pc EXCEPT ![t] = "spin"]
  /\ UNCHANGED owner

\* Mutant: the comparison lets a thread through one ticket early.
SpinEarly(t) ==
  /\ pc[t] = "spin"
  /\ mine[t] \in {owner, Succ(owner)}
  /\ pc' = [pc EXCEPT ![t] = "inside"]
  /\ UNCHANGED <<ticket, owner, mine, line>>

\* Mutant: a test-and-set lock, that serves whoever sees it free.
SpinUnordered(t) ==
  /\ pc[t] = "spin"
  /\ \A u \in Threads : pc[u] \in {"idle", "spin"}
  /\ pc' = [pc EXCEPT ![t] = "inside"]
  /\ UNCHANGED <<ticket, owner, mine, line>>

\* queue_acquire: the loop on q->owner ends.
Spin(t) ==
  /\ pc[t] = "spin"
  /\ owner = mine[t]
  /\ pc' = [pc EXCEPT ![t] = "inside"]
  /\ UNCHANGED <<ticket, owner, mine, line>>

\* queue_release: the load of q->owner, after the fence.
Load(t) ==
  /\ pc[t] = "inside"
  /\ mine' = [mine EXCEPT ![t] = owner]
  /\ pc' = [pc EXCEPT ![t] = "store"]
  /\ UNCHANGED <<ticket, owner, line>>

\* Mutant: the owner counter saturates where the ticket counter wraps.
StoreSaturates(t) ==
  /\ pc[t] = "store"
  /\ owner' = IF mine[t] = W - 1 THEN mine[t] ELSE mine[t] + 1
  /\ line' = Tail(line)
  /\ pc' = [pc EXCEPT ![t] = "idle"]
  /\ UNCHANGED <<ticket, mine>>

\* Mutant: the owner counter does not wrap with the ticket counter.
StoreUnwrapped(t) ==
  /\ pc[t] = "store"
  /\ owner' = mine[t] + 1
  /\ line' = Tail(line)
  /\ pc' = [pc EXCEPT ![t] = "idle"]
  /\ UNCHANGED <<ticket, mine>>

\* queue_release: the store of the incremented value.
Store(t) ==
  /\ pc[t] = "store"
  /\ owner' = Succ(mine[t])
  /\ line' = Tail(line)
  /\ pc' = [pc EXCEPT ![t] = "idle"]
  /\ UNCHANGED <<ticket, mine>>

Step(t) == Take(t) \/ Spin(t) \/ Load(t) \/ Store(t)

Next == \E t \in Threads : Step(t)

Spec == Init /\ [][Next]_vars

---------------------------------------------------------------------------
\* Properties

\* Both counters stay machine words.
TypeOK ==
  /\ pc \in [Threads -> {"idle", "spin", "inside", "store"}]
  /\ ticket \in Words
  /\ owner \in Words
  /\ mine \in [Threads -> Words]
  /\ line \in Seq(Threads)

\* Across any number of wraps, the tickets in use are the consecutive words
\* that start at `owner`: the i-th thread in line holds owner + i - 1, the
\* next ticket comes after the last of them, and only the first is past the
\* loop, with the value it will store still in its register.
Queued(t) == \E i \in DOMAIN line : line[i] = t

TicketsConsecutive ==
  /\ \A i, j \in DOMAIN line : line[i] = line[j] => i = j
  /\ \A t \in Threads : Queued(t) <=> pc[t] # "idle"
  /\ ticket = Plus(owner, Len(line))
  /\ \A i \in DOMAIN line :
       pc[line[i]] = "spin" => mine[line[i]] = Plus(owner, i - 1)
  /\ \A t \in Threads :
       pc[t] \in {"inside", "store"} => line # <<>> /\ t = Head(line)
  /\ \A t \in Threads : pc[t] = "store" => mine[t] = owner

IInv == TypeOK /\ TicketsConsecutive

\* Two threads are never in the critical section of one queue at a time, the
\* store that ends it included: the plain increment of `owner` is not a race.
MutualExclusion ==
  \A t, u \in Threads :
    pc[t] \in {"inside", "store"} /\ pc[u] \in {"inside", "store"} => t = u

\* Callers are served in the order of their tickets, one at a time.
Ideal == INSTANCE SpinLock WITH
  inside <- {t \in Threads : pc[t] \in {"inside", "store"}}

ImplementsLine == Ideal!LockSpec

\* A thread that took a ticket is eventually served: threads spin, so the
\* scheduler runs each of them, and critical sections end.
FairSpec ==
  Spec /\ \A t \in Threads : WF_vars(Spin(t) \/ Load(t) \/ Store(t))

Served == \A t \in Threads : pc[t] = "spin" ~> pc[t] = "inside"

=============================================================================
