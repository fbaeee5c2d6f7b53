------------------------------ MODULE Monitor ------------------------------
(***************************************************************************)
(* What an application may expect from mutexes and condition variables     *)
(* together: a wait releases its mutex and sleeps at once, a signal rouses *)
(* one sleeper in order of arrival, a broadcast all of them, and a thread  *)
(* that was roused has to get its mutex back like any other.               *)
(***************************************************************************)
EXTENDS Naturals, Sequences

CONSTANTS Threads, Mutexes, Conds

VARIABLES
  has,     \* has[t]: the mutexes thread t holds
  wants,   \* wants[t]: the mutex it has to get before its call returns
  asleep   \* asleep[c]: the threads that sleep on condition c, in order

monitorVars == <<has, wants, asleep>>

MonitorInit ==
  /\ has = [t \in Threads |-> {}]
  /\ wants = [t \in Threads |-> {}]
  /\ asleep = [c \in Conds |-> <<>>]

Free(m) == \A t \in Threads : m \notin has[t]
SleepsOn(t, c) == \E i \in 1..Len(asleep[c]) : asleep[c][i] = t
Awake(t) == \A c \in Conds : ~SleepsOn(t, c)

Request(t, m) ==
  /\ wants[t] = {} /\ has[t] = {}
  /\ wants' = [wants EXCEPT ![t] = {m}]
  /\ UNCHANGED <<has, asleep>>

Acquire(t, m) ==
  /\ Awake(t)
  /\ wants[t] \subseteq {m}
  /\ Free(m)
  /\ has' = [has EXCEPT ![t] = @ \cup {m}]
  /\ wants' = [wants EXCEPT ![t] = {}]
  /\ UNCHANGED asleep

Release(t, m) ==
  /\ wants[t] = {} /\ m \in has[t]
  /\ has' = [has EXCEPT ![t] = @ \ {m}]
  /\ UNCHANGED <<wants, asleep>>

Sleep(t, c, m) ==
  /\ wants[t] = {} /\ m \in has[t]
  /\ has' = [has EXCEPT ![t] = @ \ {m}]
  /\ wants' = [wants EXCEPT ![t] = {m}]
  /\ asleep' = [asleep EXCEPT ![c] = Append(@, t)]

Signal(c) ==
  /\ asleep[c] # <<>>
  /\ asleep' = [asleep EXCEPT ![c] = Tail(@)]
  /\ UNCHANGED <<has, wants>>

Broadcast(c) ==
  /\ asleep' = [asleep EXCEPT ![c] = <<>>]
  /\ UNCHANGED <<has, wants>>

Timeout(c, k) ==
  /\ asleep' = [asleep EXCEPT ![c] =
       [i \in 1..(Len(@) - 1) |-> IF i < k THEN @[i] ELSE @[i + 1]]]
  /\ UNCHANGED <<has, wants>>

MonitorNext ==
  \/ \E t \in Threads, m \in Mutexes :
       \/ Request(t, m) \/ Acquire(t, m) \/ Release(t, m)
       \/ \E c \in Conds : Sleep(t, c, m)
  \/ \E c \in Conds :
       Signal(c) \/ Broadcast(c) \/ \E k \in 1..Len(asleep[c]) : Timeout(c, k)

MonitorSpec == MonitorInit /\ [][MonitorNext]_monitorVars

=============================================================================
