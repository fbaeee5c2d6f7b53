------------------------------ MODULE Busyloop ------------------------------
(***************************************************************************)
(* busyloop/main.c: a thread for every core of the command line, all at    *)
(* the lowest priority, main() being the first.  A new thread inherits the *)
(* affinity and the priority of main() and is moved to its core by main(). *)
(* No result of a call is looked at.                                       *)
(***************************************************************************)
EXTENDS Naturals, Sequences

CONSTANTS
  Cores,    \* the arguments
  AllCores, \* the cores of the machine
  Refused   \* the threads whose creation may fail, by their number

VARIABLES
  place,   \* where main() is, and its i
  mask,    \* mask[i]: the cores thread i may run on, none if it does not exist
  idle,    \* the threads at idle priority
  tid      \* the thread that `tid` names, 0 for one that does not exist

busyVars == <<place, mask, idle, tid>>
Spinners == 1..Len(Cores)
NoThreads == [i \in Spinners |-> {}]

BusyInit == place = <<"off", 0>> /\ mask = NoThreads /\ idle = {} /\ tid = 0

Arrive(label, i) == place' = <<label, i>>

\* parse_arguments ends the program when there is no core.
Start ==
  /\ place[1] = "off" /\ Cores # <<>>
  /\ Arrive("priority", 1)
  /\ mask' = [NoThreads EXCEPT ![1] = AllCores]
  /\ tid' = 1
  /\ UNCHANGED idle

\* setpriority and sched_setscheduler of the calling thread.
DecreasePriority ==
  /\ place[1] = "priority"
  /\ Arrive("bind", 1)
  /\ idle' = {1}
  /\ UNCHANGED <<mask, tid>>

\* The end of a turn, or of the loop, where `tid` is of no more use.
Bound(i) ==
  IF i = Len(Cores) THEN Arrive("spin", i) /\ tid' = 0
  ELSE Arrive("create", i + 1) /\ UNCHANGED tid

\* Mutant: the set is not cleared between two turns.
BindAll ==
  LET i == place[2] IN
  /\ place[1] = "bind"
  /\ mask' = IF tid = 0 THEN mask ELSE [mask EXCEPT ![tid] = {Cores[k] : k \in 1..i}]
  /\ Bound(i)
  /\ UNCHANGED idle

\* pthread_setaffinity_np(tid, ...)
Bind ==
  LET i == place[2] IN
  /\ place[1] = "bind"
  /\ mask' = IF tid = 0 THEN mask ELSE [mask EXCEPT ![tid] = {Cores[i]}]
  /\ Bound(i)
  /\ UNCHANGED idle

Create ==
  LET i == place[2] IN
  /\ place[1] = "create"
  /\ mask' = [mask EXCEPT ![i] = mask[1]]
  /\ idle' = IF 1 \in idle THEN idle \cup {i} ELSE idle
  /\ tid' = i
  /\ Arrive("bind", i)

\* A failed creation leaves in `tid` what was there, or a descriptor without a
\* thread: a call with it has no effect, or that of a call for oneself.
CreateFails ==
  LET i == place[2] IN
  /\ place[1] = "create" /\ i \in Refused
  /\ tid' \in {tid, 0, 1}
  /\ Arrive("bind", i)
  /\ UNCHANGED <<mask, idle>>

\* busy() is for ever; the machine is switched off under it.
SwitchOff == place' = <<"off", 0>> /\ mask' = NoThreads /\ idle' = {} /\ tid' = 0

BusyStep == DecreasePriority \/ Bind \/ Create \/ CreateFails

---------------------------------------------------------------------------
BusyTypeOK ==
  /\ place \in {"off", "priority", "bind", "create", "spin"} \X Nat
  /\ mask \in [Spinners -> SUBSET AllCores]
  /\ idle \subseteq Spinners
  /\ tid \in {0} \cup Spinners

\* "This process always tries to set itself the minimum priority", and its
\* threads each keep a core of their own busy: once main() spins, every thread is
\* at idle priority on a core of the command line, and two of them share one only
\* if the command line names it twice, whatever creations failed.
SpreadOut ==
  place[1] = "spin" =>
    \A i \in Spinners :
      mask[i] # {} =>
        /\ i \in idle
        /\ \E c \in Spinners : mask[i] = {Cores[c]}
        /\ \A k \in Spinners \ {i} : mask[k] = mask[i] =>
             \E c, d \in Spinners : c # d /\ mask[i] = {Cores[c]} /\ mask[k] = {Cores[d]}

=============================================================================
