---------------------------- MODULE TestPrograms ----------------------------
(***************************************************************************)
(* The programs of activecond/t over the library they are preloaded with:  *)
(* signal.c (producers, consumers and an end mark), broadcast.c (a clock   *)
(* and its workers), main.c (waiters that are signalled, then broadcast    *)
(* to) and mutex.c (a loop of critical sections).  The calls are those of  *)
(* ActiveCond, step by step; "free" is an application that makes the calls *)
(* of `uses` in any order.  Several sets of threads play different roles   *)
(* in different programs.                                                  *)
(***************************************************************************)
EXTENDS ActiveCond

CONSTANTS
  Main,        \* the thread of main()
  Producers, Consumers,   \* of signal.c
  Clock, Workers,         \* of broadcast.c
  TenWaiters,  \* of main.c, ten there
  Lockers,     \* of mutex.c, and of a free application
  Lock,        \* the mutex of a program
  CondA,       \* cmore of signal.c, single of broadcast.c, cond of main.c
  CondB,       \* cless of signal.c, worker of broadcast.c
  Loads,       \* the arguments: records program, iter, room
  Word         \* the number of values of a size_t, 2^64 in the code

ASSUME LockAssumption ==
  Lock \in Mutexes /\ {CondA, CondB} \subseteq Conds /\ CondA # CondB
ASSUME RolesAssumption ==
  /\ Producers \cup Consumers \cup Workers \cup TenWaiters \cup Lockers \cup {Main, Clock}
       \subseteq Threads
  /\ Producers \cap Consumers = {} /\ Clock \notin Workers
  /\ Main \notin Producers \cup Consumers \cup TenWaiters \cup Lockers
ASSUME LoadsAssumption ==
  Loads \subseteq [program : {"signal", "broadcast", "main", "mutex", "free"},
                   iter : Nat, room : Nat]
ASSUME WordAssumption == Word \in Nat /\ \A l \in Loads : l.room < Word - 1

VARIABLES
  load,    \* the program that runs and its arguments
  at,      \* where a thread is in its program
  left,    \* the iterations left to it
  stock,   \* of signal.c
  ready,   \* of broadcast.c
  done     \* of broadcast.c

shared == <<stock, ready, done>>
testVars == <<load, at, left, shared>>
allVars == <<vars, testVars>>

FreeUse == load.program = "free"
EndMark == Word - 1

\* The threads that the program creates, and those that begin by themselves.
Created ==
  CASE load.program = "signal" -> Producers \cup Consumers
    [] load.program = "mutex" -> Lockers
    [] OTHER -> {}
First ==
  CASE load.program \in {"signal", "mutex"} -> {Main}
    [] load.program = "broadcast" -> Workers \cup {Clock}
    [] load.program = "main" -> TenWaiters
    [] OTHER -> {}
Start(t) ==
  CASE t \in Created -> "new"
    [] t \in First -> "lock"
    [] load.program = "main" /\ t = Main -> "lock1"
    [] OTHER -> "end"
Everything == {"wait", "signal", "broadcast"}

TestInit ==
  /\ Init
  /\ load \in Loads
  /\ FreeUse <=> uses # [t \in Threads |-> Everything]
  /\ at = [t \in Threads |-> Start(t)]
  /\ left = [t \in Threads |-> load.iter]
  /\ stock = 0 /\ ready = 0 /\ done = 0

---------------------------------------------------------------------------
\* The steps of a program: from one place to another, by a call or without.

From(t, label, next) ==
  /\ pc[t] = "idle" /\ at[t] = label
  /\ at' = [at EXCEPT ![t] = next]

Locks(t) ==
  (FastLock(t, Lock) \/ SlowLock(t, Lock)) /\ UNCHANGED <<condVars, left, shared>>
Unlocks(t) == Unlock(t) /\ UNCHANGED <<condVars, shared>>
WaitsOn(t, c) == CondWait(t, c) /\ UNCHANGED <<uses, left, shared>>
Signals(t, c) == Signal(t, c) /\ UNCHANGED <<uses, left, shared>>
Broadcasts(t, c) == Broadcast(t, c) /\ UNCHANGED <<uses, left, shared>>

\* The end of a turn of a loop of `iter` turns, the first of which was tested.
Again(t, label) == IF left[t] > 1 THEN label ELSE "end"
Turned(t) == left' = [left EXCEPT ![t] = @ - 1]

\* A loop that makes no turn at all.
Skips(t, label) ==
  From(t, label, "end") /\ left[t] = 0 /\ UNCHANGED <<vars, left, shared>>

---------------------------------------------------------------------------
\* signal.c

ProducerStep(t) ==
  \/ Skips(t, "lock")
  \/ left[t] > 0 /\ From(t, "lock", "test") /\ Locks(t)
  \/ stock >= load.room /\ From(t, "test", "test") /\ WaitsOn(t, CondB)
  \/ /\ stock < load.room /\ From(t, "test", "signal")
     /\ stock' = stock + 1
     /\ UNCHANGED <<vars, left, ready, done>>
  \/ From(t, "signal", "unlock") /\ Signals(t, CondA)
  \/ From(t, "unlock", Again(t, "lock")) /\ Unlocks(t) /\ Turned(t)

\* Mutant: the stock is tested once, before the wait.
ConsumerStepIf(t) ==
  \/ From(t, "lock", "test") /\ Locks(t)
  \/ stock = 0 /\ From(t, "test", "take") /\ WaitsOn(t, CondA)
  \/ stock # 0 /\ From(t, "test", IF stock = EndMark THEN "tell" ELSE "take")
     /\ UNCHANGED <<vars, left, shared>>
  \/ /\ From(t, "take", "signal")
     /\ stock' = (stock - 1) % Word
     /\ UNCHANGED <<vars, left, ready, done>>
  \/ From(t, "signal", "unlock") /\ Signals(t, CondB)
  \/ From(t, "unlock", "lock") /\ Unlocks(t) /\ UNCHANGED left
  \/ From(t, "tell", "leave") /\ Signals(t, CondA)
  \/ From(t, "leave", "end") /\ Unlocks(t) /\ UNCHANGED left

\* Mutant: a consumer that finds the end mark does not tell the next one.
ConsumerStepSilent(t) ==
  \/ From(t, "lock", "test") /\ Locks(t)
  \/ stock = 0 /\ From(t, "test", "test") /\ WaitsOn(t, CondA)
  \/ stock # 0 /\ From(t, "test", IF stock = EndMark THEN "leave" ELSE "take")
     /\ UNCHANGED <<vars, left, shared>>
  \/ /\ From(t, "take", "signal")
     /\ stock' = (stock - 1) % Word
     /\ UNCHANGED <<vars, left, ready, done>>
  \/ From(t, "signal", "unlock") /\ Signals(t, CondB)
  \/ From(t, "unlock", "lock") /\ Unlocks(t) /\ UNCHANGED left
  \/ From(t, "leave", "end") /\ Unlocks(t) /\ UNCHANGED left

ConsumerStep(t) ==
  \/ From(t, "lock", "test") /\ Locks(t)
  \/ stock = 0 /\ From(t, "test", "test") /\ WaitsOn(t, CondA)
  \/ stock # 0 /\ From(t, "test", IF stock = EndMark THEN "tell" ELSE "take")
     /\ UNCHANGED <<vars, left, shared>>
  \/ /\ From(t, "take", "signal")
     /\ stock' = (stock - 1) % Word
     /\ UNCHANGED <<vars, left, ready, done>>
  \/ From(t, "signal", "unlock") /\ Signals(t, CondB)
  \/ From(t, "unlock", "lock") /\ Unlocks(t) /\ UNCHANGED left
  \/ From(t, "tell", "leave") /\ Signals(t, CondA)
  \/ From(t, "leave", "end") /\ Unlocks(t) /\ UNCHANGED left

\* main() creates the threads with the mutex held.
Creates(t, threads) ==
  /\ pc[t] = "idle" /\ at[t] = "create"
  /\ at' = [u \in Threads |->
              IF u = t THEN "created" ELSE IF u \in threads THEN "lock" ELSE at[u]]
  /\ UNCHANGED <<vars, left, shared>>
Joins(t, label, threads, next) ==
  /\ \A u \in threads : at[u] = "end" /\ pc[u] = "idle"
  /\ From(t, label, next) /\ UNCHANGED <<vars, left, shared>>

SignalMainStep(t) ==
  \/ From(t, "lock", "create") /\ Locks(t)
  \/ Creates(t, Producers \cup Consumers)
  \/ From(t, "created", "join") /\ Unlocks(t) /\ UNCHANGED left
  \/ Joins(t, "join", Producers, "relock")
  \/ From(t, "relock", "mark") /\ Locks(t)
  \/ From(t, "mark", "tell") /\ stock' = EndMark /\ UNCHANGED <<vars, left, ready, done>>
  \/ From(t, "tell", "leave") /\ Signals(t, CondA)
  \/ From(t, "leave", "collect") /\ Unlocks(t) /\ UNCHANGED left
  \/ Joins(t, "collect", Consumers, "end")

---------------------------------------------------------------------------
\* broadcast.c

ClockStep(t) ==
  \/ From(t, "lock", "test") /\ Locks(t)
  \/ /\ left[t] > 0 /\ ready # Cardinality(Workers)
     /\ From(t, "test", "test") /\ WaitsOn(t, CondA)
  \/ /\ left[t] > 0 /\ ready = Cardinality(Workers)
     /\ From(t, "test", "tell")
     /\ ready' = 0
     /\ UNCHANGED <<vars, left, stock, done>>
  \/ /\ From(t, "tell", "test") /\ Broadcast(t, CondB)
     /\ Turned(t) /\ UNCHANGED <<uses, shared>>
  \/ /\ left[t] = 0 /\ From(t, "test", "leave")
     /\ done' = 1
     /\ UNCHANGED <<vars, left, stock, ready>>
  \/ From(t, "leave", "end") /\ Unlocks(t) /\ UNCHANGED left

\* Mutant: the mutex is released between the count and the wait.
WorkerStepReleases(t) ==
  \/ From(t, "lock", "count") /\ Locks(t)
  \/ From(t, "count", "tell") /\ ready' = ready + 1 /\ UNCHANGED <<vars, left, stock, done>>
  \/ From(t, "tell", "drop") /\ Broadcasts(t, CondA)
  \/ From(t, "drop", "regain") /\ Unlocks(t) /\ UNCHANGED left
  \/ From(t, "regain", "wait") /\ Locks(t)
  \/ From(t, "wait", "leave") /\ WaitsOn(t, CondB)
  \/ /\ From(t, "leave", IF done = 1 THEN "end" ELSE "lock")
     /\ Unlocks(t) /\ UNCHANGED left

WorkerStep(t) ==
  \/ From(t, "lock", "count") /\ Locks(t)
  \/ From(t, "count", "tell") /\ ready' = ready + 1 /\ UNCHANGED <<vars, left, stock, done>>
  \/ From(t, "tell", "wait") /\ Broadcasts(t, CondA)
  \/ From(t, "wait", "leave") /\ WaitsOn(t, CondB)
  \/ /\ From(t, "leave", IF done = 1 THEN "end" ELSE "lock")
     /\ Unlocks(t) /\ UNCHANGED left

---------------------------------------------------------------------------
\* main.c: what its sleeps are for is not enforced, so no order is assumed.

WaiterStep(t) ==
  \/ From(t, "lock", "wait") /\ Locks(t)
  \/ From(t, "wait", "leave") /\ WaitsOn(t, CondA)
  \/ From(t, "leave", "end") /\ Unlocks(t) /\ UNCHANGED left

MainStep(t) ==
  \/ From(t, "lock1", "signal1") /\ Locks(t)
  \/ From(t, "signal1", "unlock1") /\ Signals(t, CondA)
  \/ From(t, "unlock1", "lock2") /\ Unlocks(t) /\ UNCHANGED left
  \/ From(t, "lock2", "signal2") /\ Locks(t)
  \/ From(t, "signal2", "signal3") /\ Signals(t, CondA)
  \/ From(t, "signal3", "unlock2") /\ Signals(t, CondA)
  \/ From(t, "unlock2", "lock3") /\ Unlocks(t) /\ UNCHANGED left
  \/ From(t, "lock3", "broadcast") /\ Locks(t)
  \/ From(t, "broadcast", "unlock3") /\ Broadcasts(t, CondA)
  \/ From(t, "unlock3", "end") /\ Unlocks(t) /\ UNCHANGED left

---------------------------------------------------------------------------
\* mutex.c

LockerStep(t) ==
  \/ Skips(t, "lock")
  \/ left[t] > 0 /\ From(t, "lock", "unlock") /\ Locks(t)
  \/ From(t, "unlock", Again(t, "lock")) /\ Unlocks(t) /\ Turned(t)

MutexMainStep(t) ==
  \/ From(t, "lock", "create") /\ Locks(t)
  \/ Creates(t, Lockers)
  \/ From(t, "created", "join") /\ Unlocks(t) /\ UNCHANGED left
  \/ Joins(t, "join", Lockers, "end")

---------------------------------------------------------------------------
ProgramStep(t) ==
  \/ /\ load.program = "signal"
     /\ \/ t \in Producers /\ ProducerStep(t)
        \/ t \in Consumers /\ ConsumerStep(t)
        \/ t = Main /\ SignalMainStep(t)
  \/ /\ load.program = "broadcast"
     /\ \/ t = Clock /\ ClockStep(t)
        \/ t \in Workers /\ WorkerStep(t)
  \/ /\ load.program = "main"
     /\ \/ t \in TenWaiters /\ WaiterStep(t)
        \/ t = Main /\ MainStep(t)
  \/ /\ load.program = "mutex"
     /\ \/ t \in Lockers /\ LockerStep(t)
        \/ t = Main /\ MutexMainStep(t)

\* The process of main.c is over when main() is, whoever still waits.
Alive == load.program = "main" => at[Main] # "end" \/ pc[Main] # "idle"

FreeStep(t) ==
  /\ FreeUse /\ t \in Lockers /\ uses[t] # {}
  /\ \/ MutexCall(t) /\ UNCHANGED condVars
     \/ UNCHANGED uses /\
        (CondWait(t, CondA) \/ CondTimedWait(t, CondA) \/ Signal(t, CondA) \/ Broadcast(t, CondA))
  /\ UNCHANGED testVars

Proceed(t) == ProgramStep(t) /\ Alive /\ UNCHANGED load
InCall(t) == Internal(t) /\ Alive /\ UNCHANGED testVars

TestNext == \E t \in Threads : Proceed(t) \/ InCall(t) \/ FreeStep(t)

\* The scheduler runs every thread, inside a call and between two calls; a
\* free application unlocks what it locked.
TestSpec ==
  /\ TestInit /\ [][TestNext]_allVars
  /\ \A t \in Threads : WF_allVars(InCall(t) \/ Proceed(t))
  /\ \A t \in Lockers :
       SF_allVars(FreeUse /\ Unlock(t) /\ UNCHANGED <<condVars, testVars>>)

---------------------------------------------------------------------------
\* Properties

\* The threads that decided to wait and that no signal has reached: up to the
\* enqueue they have the mutex, after it they sleep.
GoneToSleep(t) == Sleeps(t) \/ pc[t] = "w_enq"
Some(threads) == {t \in threads : GoneToSleep(t)}
Going(threads) == {t \in threads : ~GoneToSleep(t) /\ ~(at[t] = "end" /\ pc[t] = "idle")}

\* No thread is between a change of the stock and the end of its signal.
AllTold(threads) ==
  \A t \in threads : at[t] # "signal" /\ at[t] # "tell"
                     /\ pc[t] \notin {"s_pick", "s_move", "s_leave"}

\* signal.c never has more work than threads to do it while one sleeps, although
\* a consumer or producer that was not asleep may take what another was roused
\* for: items in stock have awake consumers, free places have awake producers,
\* and past the end mark the chain of signals from one consumer to the next is
\* not broken.
NoLostWakeup ==
  load.program = "signal" /\ AllTold(Threads) =>
    /\ Some(Consumers) # {} /\ stock # EndMark =>
         stock <= Cardinality(Going(Consumers))
    /\ Some(Producers) # {} =>
         load.room - stock <= Cardinality(Going(Producers))
    /\ Some(Consumers) # {} /\ stock = EndMark => Going(Consumers) # {}

\* The stock holds between 0 and room items until the producers have ended: no
\* decrement wraps it to the end mark, on which the consumers would leave.
EndMarkIsTrue ==
  stock > load.room =>
    stock = EndMark /\ \A t \in Producers : at[t] = "end"

\* The rounds of broadcast.c: `ready` counts the workers that wait for the clock
\* (it is above by the one that has not waited yet), and the clock calls when
\* all of them do, so that no worker misses a round.
RoundsInStep ==
  load.program = "broadcast" =>
    /\ (\A t \in Workers : at[t] \notin {"tell", "wait"}) /\ ready # 0 =>
         ready = Cardinality(Some(Workers))
    /\ at[Clock] = "tell" => Some(Workers) = Workers

\* No thread of a free application is inside a call for ever, except asleep in a
\* wait: so a wait that a signal or a broadcast has roused returns (it cannot
\* sleep again in the same call).  The transfer from the condition's queue to the
\* mutex's loses no wake-up, and the two queue locks never deadlock.
CallsReturn ==
  \A t \in Lockers :
    FreeUse => []<>(pc[t] = "idle" \/ Sleeps(t))

\* A program ends by itself: every producer finds a place, every consumer the
\* end mark, every worker the last round.  Two loads are not accepted: no room,
\* and a clock without iterations, whose workers wait for ever.
ProgramsEnd ==
  load.program \in {"signal", "mutex"} \/ (load.program = "broadcast" /\ load.iter > 0) =>
    <>(\A t \in Threads : at[t] = "end" /\ pc[t] = "idle")

=============================================================================
