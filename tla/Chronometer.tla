---------------------------- MODULE Chronometer ----------------------------
(***************************************************************************)
(* chronometer: the preloaded library that counts and times the calls a    *)
(* program makes to the pthread and OpenMP primitives.  Every thread has a *)
(* struct statistics of its own, put in a lock-free global list before the *)
(* thread's routine starts; the exit date comes from the destructor of a   *)
(* pthread key; whoever calls exit walks the list while the other threads  *)
(* still run, and writes a row for each of its structures.                 *)
(*                                                                         *)
(* Dates are readings of one growing clock (rdtsc behind a fence, counters *)
(* that agree between cores).  Only the dates of one structure are ever    *)
(* compared or subtracted, so each structure counts its own readings.      *)
(***************************************************************************)
EXTENDS Naturals, Sequences, FiniteSets

CONSTANTS
  Threads,
  Main,      \* the thread of main
  Kinds,     \* the overridden functions that are timed
  KeysMax,   \* PTHREAD_KEYS_MAX
  Calls,     \* bound: the timed calls of each kind a thread makes
  NULL

ASSUME MainAssumption == Main \in Threads /\ NULL \notin Threads
ASSUME FiniteAssumption == IsFiniteSet(Threads)
ASSUME BoundAssumption == KeysMax \in Nat \ {0} /\ Calls \in [Threads -> Nat]

VARIABLES
  pc,       \* where a thread is: "none" is not created, "run" in the program
  now,      \* the last reading of the clock that went into a structure
  key,      \* pthread_atexit_key
  keys,     \* the keys the process has created, numbered from 1
  setkey,   \* the key for which a thread has set a value, 0 for none
  list,     \* global_list_statistics; a structure is named by its thread
  stats,    \* the structures
  local,    \* the key pthread_key_create got, the list head that was read
  last,     \* the thread-local *_lastcall variables
  call,     \* the current call: its kind and the dates around the original
  pointer,  \* what __name points to: its loader or the original
  reporter, \* the thread in program_atexit
  cell,     \* its cursor
  rows,     \* the rows written, and whether nothing could change one any more
  truth,    \* auxiliary: the number of calls made, and the date of the first
  due,      \* auxiliary: the threads registered when exit was called
  over      \* auxiliary: the threads ended when exit was called

vars == <<pc, now, key, keys, setkey, list, stats, local, last, call, pointer,
          reporter, cell, rows, truth, due, over>>
measure == <<last, call, truth>>
report == <<reporter, cell, rows, due, over>>
exitkey == <<key, keys, setkey>>

Zero == [k \in Kinds |-> 0]
Blank ==
  [create |-> 0, exit |-> 0, count |-> Zero, intime |-> Zero, outtime |-> Zero,
   next |-> NULL]

NoCall == [kind |-> NULL, start |-> 0, end |-> 0]

Init ==
  /\ pc = [t \in Threads |-> IF t = Main THEN "s_alloc" ELSE "none"]
  /\ now = [t \in Threads |-> 0]
  /\ key = 0 /\ keys = 0
  /\ setkey = [t \in Threads |-> 0]
  /\ list = NULL
  /\ stats = [t \in Threads |-> Blank]
  /\ local = [t \in Threads |-> NULL]
  /\ last = [t \in Threads |-> Zero]
  /\ call = [t \in Threads |-> NoCall]
  /\ pointer = [k \in Kinds |-> "loader"]
  /\ reporter = NULL /\ cell = NULL /\ rows = {} /\ due = {} /\ over = {}
  /\ truth = [t \in Threads |-> [count |-> Zero, first |-> Zero]]

\* The threads whose structure is in the list.
Registered(t) == pc[t] \notin {"none", "s_alloc", "s_store", "s_set", "s_head", "s_push"}

Goto(t, label) == pc' = [pc EXCEPT ![t] = label]
Rdtsc(t) == now' = [now EXCEPT ![t] = @ + 1]

---------------------------------------------------------------------------
\* pthread_create, stub_routine and stub_thread

Create(p, t) ==
  /\ pc[p] = "run" /\ pc[t] = "none"
  /\ Goto(t, "s_alloc")
  /\ UNCHANGED <<now, exitkey, list, stats, local, measure, pointer, report>>

\* Mutant: the failure of pthread_key_create is not noticed.
KeyAllocAlways(t) ==
  /\ pc[t] = "s_alloc"
  /\ keys' = keys + 1
  /\ local' = [local EXCEPT ![t] = keys + 1]
  /\ Goto(t, "s_store")
  /\ UNCHANGED <<now, key, setkey, list, stats, measure, pointer, report>>

\* Inside pthread_key_create; it fails when the process has no key left.
KeyAlloc(t) ==
  /\ pc[t] = "s_alloc"
  /\ IF keys < KeysMax
     THEN /\ keys' = keys + 1
          /\ local' = [local EXCEPT ![t] = keys + 1]
          /\ Goto(t, "s_store")
     ELSE Goto(t, "s_set") /\ UNCHANGED <<keys, local>>
  /\ UNCHANGED <<now, key, setkey, list, stats, measure, pointer, report>>

\* Its store to the global variable, which every thread shares.
KeyStore(t) ==
  /\ pc[t] = "s_store"
  /\ key' = local[t]
  /\ Goto(t, "s_set")
  /\ UNCHANGED <<now, keys, setkey, list, stats, local, measure, pointer, report>>

\* pthread_setspecific, for the key that any thread stored last.
SetSpecific(t) ==
  /\ pc[t] = "s_set"
  /\ setkey' = [setkey EXCEPT ![t] = key]
  /\ Goto(t, "s_head")
  /\ UNCHANGED <<now, key, keys, list, stats, local, measure, pointer, report>>

ReadHead(t) ==
  /\ pc[t] = "s_head"
  /\ local' = [local EXCEPT ![t] = list]
  /\ stats' = [stats EXCEPT ![t].next = list]
  /\ Goto(t, "s_push")
  /\ UNCHANGED <<now, exitkey, list, measure, pointer, report>>

\* Mutant: the head is stored without a comparison.
PushBlindly(t) ==
  /\ pc[t] = "s_push"
  /\ list' = t
  /\ Goto(t, "s_date")
  /\ UNCHANGED <<now, exitkey, stats, local, measure, pointer, report>>

\* The compare-and-swap on the head of the list.
Push(t) ==
  /\ pc[t] = "s_push"
  /\ IF list = local[t]
     THEN list' = t /\ Goto(t, "s_date")
     ELSE Goto(t, "s_head") /\ UNCHANGED list
  /\ local' = [local EXCEPT ![t] = NULL]
  /\ UNCHANGED <<now, exitkey, stats, measure, pointer, report>>

\* __thread_local_statistics is this thread's structure from here on.
Born(t) ==
  /\ pc[t] = "s_date"
  /\ Rdtsc(t)
  /\ stats' = [stats EXCEPT ![t].create = now'[t]]
  /\ Goto(t, "run")
  /\ UNCHANGED <<exitkey, list, local, measure, pointer, report>>

---------------------------------------------------------------------------
\* A timed call, with OVERRIDE's resolution of the original

Start(t, k) ==
  /\ pc[t] = "run"
  /\ truth[t].count[k] < Calls[t]
  /\ Rdtsc(t)
  /\ call' = [call EXCEPT ![t] = [NoCall EXCEPT !.kind = k, !.start = now'[t]]]
  /\ truth' = [truth EXCEPT ![t].first[k] = IF @ = 0 THEN now'[t] ELSE @]
  /\ Goto(t, "enter")
  /\ UNCHANGED <<exitkey, list, stats, local, last, pointer, report>>

Enter(t) ==
  /\ pc[t] = "enter"
  /\ Goto(t, IF pointer[call[t].kind] = "loader" THEN "load" ELSE "inside")
  /\ UNCHANGED <<now, exitkey, list, stats, local, measure, pointer, report>>

\* dlsym, then the compare-and-swap, which the first thread wins.
Load(t) ==
  /\ pc[t] = "load"
  /\ pointer' = [pointer EXCEPT ![call[t].kind] = "original"]
  /\ Goto(t, "again")
  /\ UNCHANGED <<now, exitkey, list, stats, local, measure, report>>

\* The loader ends with a call through the pointer.
Again(t) ==
  /\ pc[t] = "again"
  /\ Goto(t, IF pointer[call[t].kind] = "loader" THEN "load" ELSE "inside")
  /\ UNCHANGED <<now, exitkey, list, stats, local, measure, pointer, report>>

\* The original returns.
Leave(t) ==
  /\ pc[t] = "inside"
  /\ Rdtsc(t)
  /\ call' = [call EXCEPT ![t].end = now'[t]]
  /\ truth' = [truth EXCEPT ![t].count[call[t].kind] = @ + 1]
  /\ Goto(t, "account")
  /\ UNCHANGED <<exitkey, list, stats, local, last, pointer, report>>

\* Mutant: the first call has a time before it, since the clock's origin.
AccountAlways(t) ==
  LET k == call[t].kind
      c == call[t]
  IN
  /\ pc[t] = "account"
  /\ stats' = [stats EXCEPT ![t].count[k] = @ + 1,
                            ![t].intime[k] = @ + (c.end - c.start),
                            ![t].outtime[k] = @ + (c.start - last[t][k])]
  /\ last' = [last EXCEPT ![t][k] = c.end]
  /\ call' = [call EXCEPT ![t] = NoCall]
  /\ Goto(t, "run")
  /\ UNCHANGED <<now, exitkey, list, local, truth, pointer, report>>

\* One call more, the time inside, and the time since the last call of the
\* kind if there was one.  Only the row of a thread that still runs could tell
\* that these are several stores, and nothing is said of such a row.
Account(t) ==
  LET k == call[t].kind
      c == call[t]
      out == IF last[t][k] = 0 THEN 0 ELSE c.start - last[t][k]
  IN
  /\ pc[t] = "account"
  /\ stats' = [stats EXCEPT ![t].count[k] = @ + 1,
                            ![t].intime[k] = @ + (c.end - c.start),
                            ![t].outtime[k] = @ + out]
  /\ last' = [last EXCEPT ![t][k] = c.end]
  /\ call' = [call EXCEPT ![t] = NoCall]
  /\ Goto(t, "run")
  /\ UNCHANGED <<now, exitkey, list, local, truth, pointer, report>>

---------------------------------------------------------------------------
\* The end of a thread, and of the program

\* Mutant: the thread deletes the key, so as not to run out of keys.
EndDeletesKey(t) ==
  /\ pc[t] = "run"
  /\ IF setkey[t] \in 1..keys
     THEN Rdtsc(t) /\ stats' = [stats EXCEPT ![t].exit = now'[t]]
     ELSE UNCHANGED <<now, stats>>
  /\ keys' = keys - 1
  /\ Goto(t, "ended")
  /\ UNCHANGED <<key, setkey, list, local, measure, pointer, report>>

\* The thread returns or calls pthread_exit: the destructor of the key it set
\* a value for.
End(t) ==
  /\ pc[t] = "run"
  /\ IF setkey[t] \in 1..keys
     THEN Rdtsc(t) /\ stats' = [stats EXCEPT ![t].exit = now'[t]]
     ELSE UNCHANGED <<now, stats>>
  /\ Goto(t, "ended")
  /\ UNCHANGED <<exitkey, list, local, measure, pointer, report>>

\* exit: the start of program_atexit, which dates the end of its own thread.
\* Main returns, any thread calls exit, or the last thread has ended.
Exit(t) ==
  /\ reporter = NULL
  /\ \/ pc[t] = "run"
     \/ pc[t] = "ended" /\ \A u \in Threads : pc[u] \in {"none", "ended"}
  /\ reporter' = t
  /\ due' = {u \in Threads : Registered(u)}
  /\ over' = {u \in Threads : pc[u] = "ended"}
  /\ Rdtsc(t)
  /\ stats' = [stats EXCEPT ![t].exit = now'[t]]
  /\ Goto(t, "r_head")
  /\ UNCHANGED <<exitkey, list, local, measure, pointer, cell, rows>>

ReportHead(t) ==
  /\ pc[t] = "r_head"
  /\ cell' = list
  /\ Goto(t, "r_date")
  /\ UNCHANGED <<now, exitkey, list, stats, local, measure, pointer, reporter, rows, due, over>>

\* Mutant: the exit date is set for every thread.
ReportTestAlways(t) ==
  /\ pc[t] = "r_date" /\ cell # NULL
  /\ Goto(t, "r_set")
  /\ UNCHANGED <<now, exitkey, list, stats, local, measure, pointer, report>>

\* A thread without an exit date gets one from the report; it may end between
\* the test and the store.
ReportTest(t) ==
  /\ pc[t] = "r_date" /\ cell # NULL
  /\ Goto(t, IF stats[cell].exit = 0 THEN "r_set" ELSE "r_row")
  /\ UNCHANGED <<now, exitkey, list, stats, local, measure, pointer, report>>

ReportSet(t) ==
  /\ pc[t] = "r_set"
  /\ Rdtsc(cell)
  /\ stats' = [stats EXCEPT ![cell].exit = now'[cell]]
  /\ Goto(t, "r_row")
  /\ UNCHANGED <<exitkey, list, local, measure, pointer, report>>

ReportRow(t) ==
  /\ pc[t] = "r_row"
  /\ rows' = rows \cup
       {[thread |-> cell, of |-> stats[cell], settled |-> pc[cell] = "ended" \/ cell = t]}
  /\ cell' = stats[cell].next
  /\ Goto(t, "r_date")
  /\ UNCHANGED <<now, exitkey, list, stats, local, measure, pointer, reporter, due, over>>

\* The process is gone, with all its threads.
Gone(t) ==
  /\ pc[t] = "r_date" /\ cell = NULL
  /\ Goto(t, "gone")
  /\ UNCHANGED <<now, exitkey, list, stats, local, measure, pointer, report>>

---------------------------------------------------------------------------
Stub(t) ==
  KeyAlloc(t) \/ KeyStore(t) \/ SetSpecific(t) \/ ReadHead(t) \/ Push(t) \/ Born(t)
Timed(t) ==
  \/ \E k \in Kinds : Start(t, k)
  \/ Enter(t) \/ Load(t) \/ Again(t) \/ Leave(t) \/ Account(t)
Report(t) ==
  \/ Exit(t) \/ ReportHead(t) \/ ReportTest(t) \/ ReportSet(t)
  \/ ReportRow(t) \/ Gone(t)

Alive == \A t \in Threads : pc[t] # "gone"

Next ==
  /\ Alive
  /\ \E t \in Threads :
       \/ Stub(t) \/ Timed(t) \/ End(t) \/ Report(t)
       \/ \E u \in Threads : Create(t, u)

Spec == Init /\ [][Next]_vars

---------------------------------------------------------------------------
\* Properties

\* Every variable has its type.
TypeOK ==
  /\ now \in [Threads -> Nat]
  /\ key \in 0..KeysMax /\ keys \in 0..KeysMax
  /\ setkey \in [Threads -> 0..KeysMax]
  /\ list \in Threads \cup {NULL}
  /\ stats \in [Threads ->
       [create : Nat, exit : Nat, count : [Kinds -> Nat], intime : [Kinds -> Nat],
        outtime : [Kinds -> Nat], next : Threads \cup {NULL}]]
  /\ last \in [Threads -> [Kinds -> Nat]]
  /\ pointer \in [Kinds -> {"loader", "original"}]

\* The next pointers, from the head on, go through the threads of q in order.
Spells(q) ==
  LET Nth(i) == IF i \in DOMAIN q THEN q[i] ELSE NULL IN
  /\ list = Nth(1)
  /\ \A i \in DOMAIN q : stats[q[i]].next = Nth(i + 1)

\* The list pushed to without a lock ends, and holds exactly the threads whose
\* compare-and-swap went through, each once.
ListSound ==
  LET there == {t \in Threads : Registered(t)} IN
  \E q \in [1..Cardinality(there) -> there] :
    Spells(q) /\ \A t \in there : \E i \in DOMAIN q : q[i] = t

\* A thread that has ended has its date, although every thread creates a key in
\* the same variable, uses the variable and not its key, and the process runs
\* out of keys.
EndDated == \A t \in Threads : pc[t] = "ended" => stats[t].exit # 0

\* What a thread leaves that ended before exit was called is not touched by the
\* report or by other threads.
EndedKept ==
  [][\A t \in Threads :
       /\ pc[t] = "ended" /\ pc'[t] = "ended"
       /\ reporter = NULL \/ t \in over
       => stats'[t] = stats[t]]_vars

\* The row of a thread that ended, or that calls exit, is exact: every call is
\* counted, the time in and between the calls adds up to the time from the
\* first to the last, and all of it lies within the thread's life.
RowsExact ==
  \A r \in rows :
    r.settled =>
      LET true == truth[r.thread]
          life == r.of.exit - r.of.create
      IN
      /\ 0 < r.of.create /\ r.of.create < r.of.exit
      /\ \A k \in Kinds :
           /\ r.of.count[k] = true.count[k]
           /\ r.of.intime[k] + r.of.outtime[k] = last[r.thread][k] - true.first[k]
           /\ r.of.intime[k] + r.of.outtime[k] < life

\* A thread that was registered when exit was called has one row in the report,
\* although others still push their structures and write theirs.
EverybodyReported ==
  reporter # NULL /\ pc[reporter] = "gone" =>
    \A t \in due : Cardinality({r \in rows : r.thread = t}) = 1

=============================================================================
