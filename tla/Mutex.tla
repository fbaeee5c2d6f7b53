------------------------------- MODULE Mutex -------------------------------
(***************************************************************************)
(* What an application may expect from pthread_mutex_lock, _trylock and    *)
(* _unlock: a thread asks for a mutex, is granted it while no other thread *)
(* has it, and gives it back.  Nothing is said of queues or of spinning.   *)
(***************************************************************************)
CONSTANTS Threads, Mutexes

VARIABLES
  has,    \* has[t]: the mutexes thread t holds
  wants   \* wants[t]: the mutex thread t is blocked on, as a set of at most one

mutexVars == <<has, wants>>

MutexInit ==
  /\ has = [t \in Threads |-> {}]
  /\ wants = [t \in Threads |-> {}]

Free(m) == \A t \in Threads : m \notin has[t]

Request(t, m) ==
  /\ wants[t] = {}
  /\ m \notin has[t]
  /\ wants' = [wants EXCEPT ![t] = {m}]
  /\ UNCHANGED has

\* A lock call returns, or a trylock succeeds: the mutex was free.
Acquire(t, m) ==
  /\ wants[t] \subseteq {m}
  /\ Free(m)
  /\ has' = [has EXCEPT ![t] = @ \cup {m}]
  /\ wants' = [wants EXCEPT ![t] = {}]

Release(t, m) ==
  /\ wants[t] = {}
  /\ m \in has[t]
  /\ has' = [has EXCEPT ![t] = @ \ {m}]
  /\ UNCHANGED wants

MutexNext ==
  \E t \in Threads, m \in Mutexes :
    Request(t, m) \/ Acquire(t, m) \/ Release(t, m)

MutexSpec == MutexInit /\ [][MutexNext]_mutexVars

=============================================================================
