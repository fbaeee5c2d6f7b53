# Verification of bench-platform

bench-platform runs benchmarks in Xen guests, or on the bare host, and measures
them. A driver script (`bench-xen`, `bench-linux`) boots machines, starts one
benchmark run on each, keeps all of them loaded until the last one is done, and
collects logs. Inside the guests the benchmarks can be run over two preloaded
libraries written for the project: **activecond**, which replaces pthread
mutexes, condition variables and the OpenMP barrier by spinning ones, and
**chronometer**, which counts and times calls to these primitives.

This directory holds TLA+ models of that code, TLC configurations that check
them on small instances, and TLAPS proofs. Paths below are relative to `src/`;
`AC` stands for `control-payload/param/path/activecond` and `CH` for
`control-payload/param/path/chronometer`.

    tlc -workers 2 -config mutex.cfg MCActiveMutex     # one run
    tlapm ActiveMutexProofs.tla                        # one set of proofs

`PROJECT.json` lists components, runs, the definition-to-source map, the
hazards, the findings, the theorems, and for each property of a passing run a
mutant: a bug in a modelled definition that makes TLC find the property violated.

---

## 1. Inventory

| component | source | state it keeps | operations |
|---|---|---|---|
| activecond mutex | `AC/src/pthread_mutex.c` | a `struct queue` inside the `pthread_mutex_t`; its data word is the flag `owned` | lock, trylock, unlock |
| activecond queue lock | `AC/include/spinqueue.h` | the words `ticket` and `owner` of a queue | queue_acquire, queue_release |
| activecond cell lists | `AC/include/spinqueue.h`, `AC/src/thread.c` | `head`, `tail` of queues; `next`, `prev`, `wait`, `data` of the one cell `self` of each thread | enqueue, enqueues, dequeue, queue_flush, queue_cell_wait, queue_cell_timedwait, queue_cell_wake |
| activecond condition variable | `AC/src/pthread_cond.c` | a `struct queue` inside the `pthread_cond_t` | wait, timedwait, signal, broadcast (init and destroy do nothing) |
| activecond GOMP barrier | `AC/src/gomp_barrier.c` | `team_barriers[0]`, a queue whose data word counts the waiting threads | GOMP_barrier |
| chronometer | `CH/src`, `CH/include` | a list of `struct statistics`, a pthread key, one pointer per overridden symbol, thread-local dates of last calls | pthread_create, timed calls, thread end, report at exit |
| bench-xen orchestration | `bench-xen` | arrays indexed by machine (names, vcpus, pins, durations, pids, instances...), arrays of background processes | check options, pre_instancify, instancify_machines, run_commands, wait_any, terminate_machines, post_terminate |
| bench-linux orchestration | `bench-linux` | the same arrays; its instances are directories of the host | as above, without a VM |
| activecond test programs | `AC/t/*.c`, `AC/barrier.c`, `AC/script` | a mutex, one or two condition variables, counters under them | signal.c: producers, consumers, an end mark; broadcast.c: a clock and workers; main.c: waiters, signals, a broadcast; mutex.c: critical sections |
| guest runtime | `control-payload/param/path/*.sh` | deadline, log directory, pids of two monitors | a first run, further runs until the deadline, kill of the group |
| guest monitors | `control-payload/param/path/bin`, `rusage` | counters read at start and at TERM | start, TERM |
| VM life cycle | `vm-hvm-base/method` | instance directory, parameter cache, ssh control socket, Xen domain | boot (prepare, create, connect, pin), ssh, scp, poweroff |
| payloads | `*-payload/method` | parameter files and a file-system image | pack |
| background processes | `xen-*`, `linux-carrefour`, `amd16-*`, `measure/*` | a log directory each, registers of the host | pre, run until TERM, post |
| busyloop | `control-payload/param/path/busyloop` | a thread for each core, at idle priority | start threads, move each to its core, spin |
| generate.pl | `install/generate.pl` | a pool of threads and a counter of files | generate n files on a bounded pool |
| installation | `install/*.sh` | downloaded and built trees | download, build, copy |
| `cleanup`, `pack`, binaries | | | nothing stateful worth a model |

**How they interact.** `bench-xen` calls the methods of an instance directory
(`boot`, `ssh`, `scp`, `poweroff`) and starts background processes on the host;
over ssh it runs a `*-work.sh` of the payload, which sources `runtime.sh`. The
benchmark itself may be linked at run time with `activecond.so`, `chronometer.so`
or both. Inside activecond everything meets in two shared things: the queue lock
that protects every list, and the single cell of a thread, which is in the list
of a condition, then moves to the list of its mutex, and is used by the barrier
as well.

**What is hard.**

* *activecond*: the fast path of lock runs outside the queue lock; unlock hands
  the mutex over without clearing `owned`; a waiter's cell is moved by the
  signaller; a broadcast walks the list and splits it under several locks in
  turn; a timed wait clears its own byte without a lock; the barrier uses the
  same cell as the mutex. Nothing of this is visible to a unit test that does
  not hit the right interleaving.
* *chronometer*: registration without locks, a global key variable that every
  thread overwrites, a report that runs while other threads still do.
* *orchestration*: several processes end between two polls; the order in which
  runs, waiter runs and background processes are stopped before logs are
  collected; shell variables that are scalars and arrays at once.
* *guest runtime, VM life cycle, payloads*: deadlines against runs, signals that
  come before their handler, retry loops without a limit, steps that fail one by
  one.

**What makes each correct**

| component | properties |
|---|---|
| mutex | one owner; `owned` says exactly whether there is one; no waiter lost or queued twice; first come first served among waiters; a lock call returns |
| queue lock | one thread at a time, in order of tickets, across the wrap of the counters; every ticket served |
| lists | the pointers spell the intended sequences in both directions; a set wait byte belongs to a cell in a list or in the hand of a thread about to wake or queue it |
| condition variable | a wait releases and sleeps atomically; a signal rouses the longest sleeper, a broadcast all; no spurious return; no waiter forgotten; calls return |
| barrier | nobody passes before all have come; only barrier waiters are woken; everybody passes every round |
| chronometer | no structure lost; every ended thread is dated; rows of ended threads exact |
| test programs | no signal is lost between producers and consumers; the end mark means the end; no worker misses a round; they end |
| orchestration | everything is loaded as long as one main run is measured; one run at a time; nothing is collected while written; the machines get, and the saved configuration says, what the command line asked for; the bench ends |
| guest runtime | the first run is never cut; every monitor of a complete run that was signalled with its handler installed leaves its log; no run starts over the monitors of the last one; the deadline ends additional runs |
| busyloop | each thread on a core of the command line, its own unless that core is named twice, all at idle priority, whatever creations fail |
| VM life cycle | boot returns only with a reachable machine; every vcpu is pinned; a failure is reported |
| payloads | the old image survives until the new one is whole |
| generate.pl | at most the requested number of threads; every file once |

---

## 2. The models

### Modules

| module | what it is |
|---|---|
| `Mutex` | abstract specification: who has which mutex, who wants it |
| `ActiveMutex` | `pthread_mutex.c`, one action per atomic operation or per access to shared state |
| `ActiveMutexProofs` | its inductive invariant and five theorems |
| `SpinLock` | abstract specification: a first-come first-served line |
| `TicketLock` | `queue_acquire`, `queue_release` on wrapping words |
| `TicketLockProofs` | its inductive invariant and four theorems |
| `SpinQueue` | the list functions as operators on a heap of pointers |
| `SpinQueueProofs` | lemmas: what each list function does to the sequences that lists stand for, in any heap |
| `QueueUse` | the operations the callers perform on the lists, with the sequence each list should be |
| `QueueUseProofs` | its inductive invariant and five theorems |
| `CellMutex` | the mutex on the pointer heap, for the modules that add other users of a cell |
| `Monitor` | abstract specification: mutexes and condition variables together |
| `ActiveCond` | `pthread_cond.c`, EXTENDS CellMutex |
| `TestPrograms` | the programs of `AC/t`, EXTENDS ActiveCond |
| `ActiveCondProofs` | EXTENDS TestPrograms: the inductive invariant of `ActiveCond`, with five theorems, and above it that of the programs, with five more |
| `ActiveBarrier` | `gomp_barrier.c`, EXTENDS CellMutex |
| `ActiveBarrierProofs` | its inductive invariant and five theorems |
| `Chronometer` | the chronometer library |
| `ChronometerProofs` | its inductive invariant and seven theorems |
| `BenchRun` | `bench-xen` on the host, from `pre_instancify` to the end |
| `Guest` | `runtime.sh`, its process group and its monitors in one machine |
| `Busyloop` | `busyloop/main.c` |
| `Bench` | the whole: EXTENDS BenchRun, INSTANCE Guest and Busyloop |
| `BenchProofs` | its inductive invariant and eight theorems |
| `MC*` | constants and symmetry for TLC |

    Mutex  <-implements-  ActiveMutex   (queue lock as a line, list as a sequence)
    SpinLock <-implements- TicketLock   (justifies the line)
                           QueueUse     (justifies the sequence)
    Monitor <-implements- ActiveCond --EXTENDS-> CellMutex --INSTANCE-> SpinQueue
                          ActiveBarrier --EXTENDS-> CellMutex
    TestPrograms --EXTENDS-> ActiveCond   (clients on top of the library's steps)
    Bench --EXTENDS-> BenchRun            (all machines, from the host)
      |------INSTANCE-> Guest             (one of them from inside)
      `------INSTANCE-> Busyloop

### Granularity

*Queue lock.* `TicketLock` takes `queue_acquire` and `queue_release` apart into
fetch-and-add, spin, load and store of `owner`. The other modules use what it is
proved to implement: a line of threads, joined at the fetch-and-add, left at the
store; the head of the line is served.

*Mutex.* `ActiveMutex` has one action for each access to state that another
thread may touch at that time: the first compare-and-swap, the ticket, the
second compare-and-swap, the enqueue, the release, the end of the spin; in unlock
the ticket, the look at the head, the clearing of `owned` or the dequeue, the
wake, the release. The list is a sequence of threads. A thread may hold several
mutexes.

*CellMutex* and its users join what a thread does between the moment it is
served and its release of the queue lock into one step, since the state it
touches there is private to the holder of that lock, with two exceptions: the
flag `owned`, which fast paths and trylocks of other threads may set, and wait
bytes, on which other threads spin. Each such critical section accesses `owned`
at most once, so the section can be placed at that access; a wake is the last
thing done before the release, and a release delayed after a wake only keeps
others waiting. `ActiveMutex` takes the same sections apart and checks this for
the mutex. Where the code holds two locks or walks a list (signal, broadcast,
barrier), the walk is a sequence of separate actions, since other threads do run
in between. In return the lists are the real pointers, with everything stale
that the code leaves in a cell. A thread holds at most one mutex here.

*Memory.* All models are sequentially consistent. The code is x86 only (inline
`mfence`, `rdtsc`), every contended word is written by a lock-prefixed
instruction or by the holder of a queue lock, release fences before its store,
and `AC/Makefile` compiles without optimisation, so the plain loads of the spins
are loads.

*Contract.* The application unlocks what it holds and nothing else, does not
relock what it holds, takes mutexes in the order of `Rank` when it blocks
(trylock is free), and waits on a condition with the mutex it holds.

*Uninitialised memory.* The local `exit` of `__cond_broadcast_transfert` is read
before it is written on one path. `Residue` is the set of values it may have: {0, 1} in
`cond_exit`, and {0} in the other runs: `NoWaiterForgotten` and the ends of calls and
programs need it. The safety of the programs and the refinement do not, and are proved
for any residue (section 4).

### State and code

* `ActiveMutex`: `owned`, `line`, `queue` are the words of the struct queue in a
  `pthread_mutex_t`; `wait[t]` is `self.wait` of thread t; `cell[t]` is the local
  of unlock; `held[t]` is what the application believes it owns.
* `TicketLock`: `ticket`, `owner` modulo `W` (2^64 in the code), and the ticket
  and the loaded value each thread has in a register.
* `SpinQueue`: a heap is a record `head, tail, next, prev, wait`; each operator is
  the heap that one inline function leaves.
* `QueueUse`: `stage[q]` says where the holder of q's lock is in its operation, `hand[q]`
  is its local (the cell it took out, or the first of those it has still to move), `dest[q]`
  the mutex whose lock a broadcast has as well. An operation is cut wherever another thread
  can see it half done: a cell that a signal took out (`Take`) is in no list, its byte set,
  until `WakeTaken` or `MoveTaken`; a timed waiter clears its own byte without any lock
  (`GiveUp`) and is `late` until it has the lock and takes itself out (`TakeSelf`); a
  broadcast that finds the mutex free wakes the first waiter (`Rouse`), which may queue its
  cell anywhere, before it moves the rest (`MoveRest`), and clears the queue's words at the
  end (`Empty`). The contract of the callers is in the guards of `Take`, `GiveUp` and `Walked`:
  a timed waiter does not give up while a wake-up is on its way to it, nor does a wake-up go
  to one that did. The code does not see to it; `cond_timed_wake` is the run about that.
* `ActiveCond`: adds the condition of a call, the `data` field of the cell (which
  mutex to go back to), and `walk`, the locals of signal and broadcast. `uses` is
  the application: the calls each thread makes, chosen once among `Programs`.
* `ActiveBarrier`: adds the data word `waiting`, the cursor `cell`, and `round`,
  an auxiliary count of barriers passed.
* `Chronometer`: `stats[t]` is the structure of thread t, `list` the head pointer,
  `key` the global variable against `keys`, the keys that exist; `pointer[k]` is
  `__name`; `rows` is the report. Only the dates of one structure are compared, so
  each structure counts its own clock readings. The five overridden functions
  account in the same way: `Kinds`.
* `TestPrograms`: `at[t]` is where a thread is in its program, between the calls
  whose steps are `pc[t]`; `left` is the counter of its loop; `stock`, `ready`,
  `done` are the variables of the same name. `load` is the program that runs and
  its arguments, chosen once. `size_t` has `Word` values, so that the end mark -1
  is what a decrement of 0 would give. `Created`, `First` and `Start` say which threads
  a program creates, which begin by themselves, and where. A step of `TestNext` is
  one between two calls (`ProgramStep`) or one of the library in a call (`InCall`).
* `BenchRun`: `step` and `index` are the script's position; `pids[m]` tells whether
  the main run of machine m is still in `pids`; `main`, `waiter`, `bg`, `machine`
  are the other processes and machines. Element 0 of a shell array is element 1.
  The scalar `vcpus` has the name of the array, so `Assign` writes its element 1;
  `bench-linux`, whose loop is otherwise the same, calls its own `core`. `Turns` and `After`
  are the loops of the script and what follows each. `machine[m]` goes through the
  preparation too: a process in the background of the script for each machine,
  joined by a bare `wait`.
* `Guest`: `session` is the ssh the host waits for; `runtime` the position in
  `runtime.sh`, `run` the one in `_run_application`, `monitor` the two monitors of
  the run. A session has no terminal, so it lasts until the last process that has
  its standard error is gone: `Close` needs `Quiet`, although the script does not
  wait for the group it killed. A monitor that reads its counters runs another process
  for it, which the kill may hit as well: soft-network then reports nothing (`cut`) and
  soft-disk looks for a line for ever (`stuck`). `first` is what had become of the two
  monitors when the first run of the main session was over.
* `Busyloop`: `mask[i]` is the affinity of thread i, `tid` the thread that the
  variable of that name denotes after a creation that may have failed.
* `Bench`: the last machine is followed inside, since the script starts all
  busyloops there; its main run is over when its session is. The other machines
  are `BenchRun`'s.

---

## 3. The runs

| run | instance | what it shows |
|---|---|---|
| `mutex` | 3 threads, 2 ranked mutexes | type, one owner, soundness of cells, first come first served, refinement of `Mutex`, lock returns |
| `ticket` | 4 threads, words of 4 values | type, order of tickets, mutual exclusion, refinement of `SpinLock`, everybody served |
| `queue_lists` | 4 cells, 2 conditions, one of them with timed waits, 2 mutexes | pointers spell the sequences, also of a list that is being emptied; waiting cells are in a list or in a hand |
| `cond_safety` | 3 threads, 2 mutexes, 1 condition; all wait, signal and broadcast, or all sleep with timeouts | type, one owner, no waiter forgotten |
| `cond_exit` | as `cond_safety` with any residue | **violated**: `NoWaiterForgotten` |
| `cond_timed_wake` | timed waits that are signalled | **violated**: `TimeoutIsNoWake` |
| `test_programs` | 4 threads, 1 mutex, 2 conditions; each program of `AC/t` with 2 or 3 threads beside `main`; or an application with roles (waits, signals, broadcasts), or two timed sleepers; an `exit` that reads as 0 | refinement of `Monitor`, no wake-up lost, the end mark, rounds; calls return, the programs end |
| `barrier` | team of 3, three rounds, 2 more threads on a mutex | nobody passes early, the list and count of a round, only waiters woken, everybody passes |
| `barrier_mutex` | 3 threads that do both | **violated**: `OneOwner` |
| `chronometer` | 3 threads, 2 keys, up to 2 calls of a thread | list, dates, rows |
| `bench_run` | 2 machines, one of which may fail to boot and is followed inside; a busyloop of 2 threads, one of them refused or not; 2 background processes, one of which may end by itself | types, everything measured together, one run at a time on the host and in the guest, quiet when collected, first run unbroken and reported, busyloop spread out; the bench ends unless a soft-disk is stuck in the main run |
| `bench_vcpus` | 3 machines of different sizes, `BenchRun` alone | **violated**: `ReportIsTrue` |

### Why the bounds are enough to be interesting

* Three threads and one mutex give a holder, a first waiter and a second one (so
  order matters), or a holder, a waiter and a fast path that barges in. The
  second mutex adds nested holding and hand-offs that cross; waits with two
  mutexes on one condition cut a broadcast into groups. Counts of operations are
  not bounded: the graphs are finite without it.
* Four threads and `W = 4` is the tightest case the ticket lock allows (as many
  threads as words) and wraps for ever. One thread more breaks it; the code has
  2^64 words.
* Four cells in four lists have a head, a tail, two middles, and stale pointers of other
  lists. Two conditions, one with timed waits and one whose waiters a broadcast always
  moves, and two mutexes let signals, a broadcast and a late waiter be half done together.
* Three rounds of the barrier are the least for a thread to be one round ahead,
  with the same queue used again, and then be caught up with.
* Two keys for three threads run out; two calls are the least with a time between
  them.
* `signal.c` with one producer of two items, two consumers and room for one: a
  full stock, an empty one, and a consumer that takes what another was roused
  for. At `Word` = 4 the mark is 3, which no stock is. `broadcast.c` with two
  workers and two rounds has a worker that comes to the second round while the
  other still leaves the first; `main.c` has two waiters
  for its ten.
* Two machines in `bench_run` have a run that ends first and one that ends last,
  both ways round, and a machine that is down beside one that is up. Three
  machines in `bench_vcpus` have a first, a last and one in between.
* Sessions are not bounded, nor are the additional runs of a session. A busyloop of
  two threads has `main` and a thread whose creation may fail, which leaves `tid` with
  `main` or with none. Larger ones are the proof's (`Busy`).

Named bounds: `Rounds` (barriers a thread passes), `Calls` (timed calls of a kind),
`W` (words of the counters), `Word` (values of a `size_t`), `iter` and `room` of
`Loads` (arguments of the test programs). Symmetry is used in `cond_safety` and
`queue_lists` only, which check no liveness.

### Fairness

* activecond: `WF` on the steps of every thread inside a call. Threads spin, they
  never sleep, and the kernel runs every runnable thread. That is enough because
  the ticket lock is a line: no step of another thread can disable for ever the
  step a served thread takes. `SF` on the application's unlock: a holder that is
  between calls unlocks in the end; it must be strong because a holder may make
  other calls meanwhile.
* A thread that sleeps on a condition need not be signalled: `CallsReturn` only
  promises that a call of a free application returns or the thread sleeps.
* test programs: `WF` on each thread, inside a call and between two calls;
  nothing is assumed of the programs beyond it. `ProgramsEnd` leaves out `main.c`,
  whose `main` may end before its waiters have come, and `broadcast.c` without
  iterations: the clock ends at once and the workers wait for ever.
* barrier: in addition every thread of the team keeps coming to its barriers.
* bench: the script goes on; copies, boots and the filling of a tempfs end (a
  boot by success or, for a frail machine, by failure); a killed background
  process ends. In the guest every process is scheduled, applications end and
  time passes; ssh opens and closes sessions. Nothing makes a background process
  end by itself, and nothing is assumed of busyloops.

### Deadlock

`mutex`, `ticket` and `queue_lists` are checked for deadlock. The others stop by
design: all threads may sleep on a condition nobody signals, teams pass a bounded
number of barriers, programs and processes end. In these runs the liveness
properties say what must not stop.

### Findings

1. **Broadcast with the mutex owned** (`AC/src/pthread_cond.c:70`, run
   `cond_exit`). `exit` is assigned only if the compare-and-swap of line 62
   succeeds. If the mutex is owned, as when the broadcaster holds it, the
   waiters are queued or dropped according to what the stack held.
2. **A wake taken for a timeout** (`AC/include/spinqueue.h:153`, run
   `cond_timed_wake`). `queue_cell_timedwait` clears the byte and returns 1
   after a test that a wake may have followed. The thread was given the mutex and
   then locks it once more.
3. **The barrier's walk leaves its list** (`AC/src/gomp_barrier.c:46`, run
   `barrier_mutex`). `next` is read from a cell whose thread is awake and may
   have linked the same cell into a mutex's queue; the walk then wakes threads
   that wait for that mutex. The `barrier` run keeps mutex users out of the team.
4. **A scalar over an array** (`bench-xen:377`, `:419`, run `bench_vcpus`).
   `vcpus=${vcpus[$index]}` writes element 0: the first machine's waiter runs and
   the saved configuration have another machine's number. The other machines are
   not affected.

Met on the way and not the subject of a run, because no line of the repository
promises otherwise or because it follows from 2:

* After a timeout, `__cond_timedwait` dequeues its cell from the condition's queue
  although a signal or broadcast may have moved the cell to the mutex's queue or
  taken it out (`AC/src/pthread_cond.c:42`); and a cell that gave up is still in
  the queue a broadcast moves. `ActiveCond` models both; the passing runs either
  let nobody signal or let no wait time out.
* `getstats` of soft-disk shifts lines until one begins with `Device:`, without an end
  when none does (`control-payload/param/path/bin/soft-disk:19`). If the kill of the group
  (`runtime.sh:49`) hits the iostat that soft-disk's handler has just started, soft-disk
  never reports, keeps the session open, and with it the bench. `Guest` has this step
  (`KillGroup`, `stuck`) and `bench_run` takes it; `BenchEnds` says that it is the only way in
  which a bench does not end, and only if it happens in a main run: the waiter runs are
  killed from the host, and their machines switched off.
* A timed wait returns 0 whether it timed out or not (`AC/src/pthread_cond.c:48`).
* All teams share barrier queue 0 and its count (`AC/src/gomp_barrier.c:25`).
* The chronometer's row of a thread that is just being registered has a life
  counted from date 0 (`CH/src/pthread_create.c:124`), and a thread that ends
  between the test and the store of line 118 gets the report's date.
* The last machine whose main run ends gets a waiter run too, which is killed
  at once; the comment at `bench-xen:391` has waiter runs only "until all other
  machines are done". The logs of that machine hold the start of one more run.
* `bench-xen:318` skips a machine without busyloop before `index` advances, and
  line 321 uses the `instance` that an earlier loop left: busyloops stop at the
  first machine without one, and all that start do so on the last machine
  (`StartBusyloops`).
* `bench-xen:296` does not look at the results of boots: the runs of a machine
  that is down fail at once and its waiter run is repeated beside the others.
* A creation that fails in `busyloop/main.c:181` is not noticed; `tid` then names the thread
  before, which is moved to the next core and leaves its own idle. Two
  threads share a core only if the command line names it twice (`KeptBusy`).
* The test of `AC/t/mutex.c:116` is the wrong way round: it looks for a pin where the
  command line has none.
* `control-payload/param/path/rusage/main.c` takes `-v` where its help says `-V`.
* `vm-hvm-base/method/boot:19` and `:25` read `$?` after `!`: a failure exits with 0.
* `install/generate.pl` numbers files from 0; its help says from 1.

---

## 4. The proofs

The `*Proofs` modules are checked by TLAPS. They are about every set of threads,
mutexes, conditions, cells or keys and every number of machines, cores, rounds or
calls, under the assumptions each paragraph names. Each has one inductive invariant,
`IInv`, proved action by action; the theorems follow from it. Assumptions on
constants are the `ASSUME`s of the modules, which every run evaluates.

**ActiveMutex.** Assumption: `Rank` maps mutexes to numbers (`RankAssumption`).
`OneOwner` and `CellsSound` are not inductive alone: they do not say why the thread
that is about to enqueue still sees the mutex owned, or why the cell in an
unlocker's hand is the head. The inductive invariant `IInv` adds

* `CallsOK`: a thread inside a call does not yet, or no longer, hold its mutex;
* `ServedOK`: a thread in the critical section of a queue is the one its lock
  serves, so there is one at a time per queue;
* `ReadsOK`: what that thread read there still holds. Between the failed
  compare-and-swap and the enqueue `owned` stays 1, since only the unlocker
  clears it and it would need the same queue lock; between the look at the head
  and the dequeue the queue does not change.

`IInv` is proved conjunct by conjunct and action by action, and yields
`TypeCorrect`, `MutualExclusion` (`OneOwner`), `CellsCorrect` (`CellsSound`),
`NoOvertaking` (`FirstComeFirstServed`: `WaitLine` changes at its ends only and a
grant goes to its head) and `Refinement` (`ImplementsMutex`: each step is a
request, acquisition or release of `Mutex`, or stutters).

**TicketLock.** Assumption (`WidthAssumption`): `W` is a positive number, `Threads`
is finite and has at most `W` members. Mutual exclusion alone is not inductive: it
does not say why two spinning threads never wait for the same word. The invariant
`TicketsConsecutive` uses the auxiliary `line`, the threads in the order of their
fetch-and-adds: its i-th thread has the ticket `owner + i - 1` modulo `W`, the next
ticket follows the last of them, only the first thread is past the loop, and a
releasing thread still has `owner` in its register. The bound on threads keeps
two positions of the line from having the same word. It yields `TicketOrder`,
`Exclusion` and `LineRefinement` (`line` is the line of `SpinLock`).

**QueueUse.** Assumption (`NullAssumption`): NULL is no cell. The lists are right only
because no cell is in two of them, and a cell may be queued only because its wait
byte tells it is nowhere, so `IInv` is all of `TypeOK`, `Apart`, `ListsFaithful`,
`WaitersReachable` and `Hands` (what the locals of an operation under way are). Between two
steps of an operation the two facts part ways: a cell in a hand has its byte set and is in no
list, a late one is in a list with its byte cleared. A list that is being emptied is
linked from the broadcast's local to its tail, whatever the woken cell before it has become. First each function of the header is shown to do what it should
to the list it is called on (`EnqueueOwn`, `DequeueOwn`, `EnqueuesOwn`: a cell at an
end, in the middle, or alone) and nothing to the others (`EnqueueOther`, ...): the
pointers it writes belong to cells of its own list or to its argument. Then,
for any heap and sequences, each keeps `Sound` (the first three conjuncts); the
operations of the mutex and the condition are compositions of those. Theorems:
`Lists` (`ListsFaithful`), `Reachable` (`WaitersReachable`), `Apartness`, `TypeCorrect`.
This is what entitles `ActiveMutex` to write a list as a sequence. It holds of
callers that take the head, themselves, or the whole list, as all do but the timed
waiter that gave up while it was being woken or moved, and the barrier's walk (section 3,
findings 2 and 3).

**ActiveCond.** Assumptions: threads are finite, NULL is no cell, mutexes are queues.
One hypothesis stands in the theorems, and a run shows it needed: `Calm`, that no
program lets a timed wait end by its time and also signals (`cond_timed_wake`). They hold
whatever `exit` reads as, but for `NobodyForgotten`, which assumes `Residue = {0}`
(`cond_exit` loses waiters without it).
`NoWaiterForgotten` speaks of the moments when no signal or broadcast is under way,
so it says nothing of the middle of one. `IInv` says what holds in between:

* `Lists(C)`: each queue has a sequence of cells it stands for; no cell is in two.
  A queue in `Stale`, which a broadcast is emptying, has lost its first cells to
  mutexes while its words still name them: only the links of the rest are right.
* `Group`: a broadcast has passed over the first j cells of that rest, all of
  one mutex, and holds the (j+1)-th in `cell`.
* `Carried`: between the two halves of a signal one cell is in no queue; its
  signaller has it, and nobody else.
* `Holders`, `Reached`: a cell in the queue of a mutex wants that mutex, one in the
  queue of a condition is in a wait on it and has the mutex in `data`; a set wait
  byte has its cell in a queue or in a signaller's hand, if `exit` reads as 0 or nobody
  signals (`Spared`). When `exit` reads as 1 the cells of a group leave the broadcast's
  list and enter none; nothing else in `IInv` is about such cells.
* `Bytes`: a thread that has not finished its unlock cannot be granted the mutex,
  though its cell is in a list and may already have been moved.
* `Free`: nobody queues for a free mutex. It holds because the section that frees
  a mutex and the sections that queue for it are under the same lock.

`OneOwner` is part of it. Theorems: `TypeCorrect`, `OneOwnerHolds` (`OneOwner`),
`NobodyForgotten` (`NoWaiterForgotten`), `Inductive`. `NoWaiterForgotten` reads lists by
following pointers (`Follow`), so its proof shows that following them gives the
sequence: by the place where they would differ first (lemmas `Least`, `OneWay`). This
is how an induction over data can be had without the library's induction theorem:
for one property, from the least element of a set of numbers.

`Refinement` (`ImplementsMonitor`) maps each step, from the same invariant: a thread
acquires when lock or a wait returns, and releases when unlock draws its ticket;
it falls asleep when its cell is queued at the condition; a signal is the dequeue in
`SignalPick`, a broadcast is `BroadcastFirst`, whose later steps only move the cells it
found, and a timeout is `TimedDequeue`; no other step can be seen. The sleepers of a
condition are its sequence in `Lists(C)` unless it is in `Stale`, so what each step does
to the sleepers is what the lemmas of `SpinQueueProofs` say it does to the sequences.

**TestPrograms.** In addition: the two conditions of a program are different and a load
names a program with two numbers (`LockAssumption`, `LoadsAssumption`); `WordAssumption`,
that no stock is the end mark. `ProgramsRefine` comes first: each step of a program is a
call of the library, a step of it, or none of its business, so `TestSpec` implies `Spec`
and all of the above holds of the library under the programs. From then on lists and
pointers are out of sight. What a program can see of a step is
`Inner(t)`, what a step in a call does to who has a mutex (`held`), who waits for one
(`Wants`) and who sleeps in which order (`SleepLine`), which is read off the monitor step
that the refinement maps it to; and `Outer(t)`, what a call does to the same. The
invariant `ProgramInv` is about places and these:

* `Guarded`: at a label between a lock and an unlock a thread has the mutex or waits for
  it, and at `Bound` labels, and on the way to sleep or into a signal, it has it. With
  `OneOwner`, two threads in such places are one (lemma `Lonely`), which is all that the
  rest needs of mutual exclusion.
* `SignalBeds`, `BroadcastBeds`: who sleeps is at the label of a wait and on its
  condition, and nobody signals who should not.
* `MainOrder`, `Stocked`, `Turns`: `main` creates once and marks the end after the
  producers'; a consumer about to take has something to take, since the mutex was
  its own from the test on; a producer not at its end has a turn left.
* `Attended`: `NoLostWakeup` speaks of moments when no signal is under way, so it is not
  inductive. If some consumers sleep there is no more `Work` than consumers that will
  look at the stock without being signalled (`Fresh`: those awake that have not passed
  the last test of their turn), and one more if a signal is `Due`, which is decided upon
  and has not yet picked a thread. There is at most one such signal, since who owes it
  has the mutex. An item adds one to the work and one to what is due; the pick takes
  the due signal and makes a sleeper fresh, whoever takes the item in the end; a consumer
  that goes to sleep found the stock empty; and one that leaves at the end mark, which
  is work for one, owes the next its signal. For producers and free places it is the
  mirror image, but that a producer which has put its item is no longer counted.
* `RoundInv`: `ready` is the number of workers of the round counted so far, or 0 while
  the clock rouses them, and then all of them sleep.

Theorems: `EndMarkHolds` (`EndMarkIsTrue`), `RoundsHold` (`RoundsInStep`), `NoWakeupIsLost`
(`NoLostWakeup`), `ProgramsRefine` (`ImplementsMonitor` under `TestSpec`),
`ProgramInvariant`; for any number of threads, turns and places, under `Calm` and for any
`Residue`. `signal.c` never broadcasts. `broadcast.c` does so with the mutex held, the case of
finding 1: its workers then may wait for ever in their wait, but `RoundsInStep` holds, since to
the monitor they have been roused. That they come back, and the program ends, is `ProgramsEnd`,
which needs `exit` to read as 0 and is only model-checked.

**ActiveBarrier.** Hypothesis: `Team \cap Lockers = {}`, the team uses no mutex while it
uses the barrier; the run `barrier_mutex` is what happens otherwise. `NobodyPassesEarly`
is not inductive: it does not say who is in the list that the last thread walks, nor
that the walk stays in it. `IInv` has two modes: `Open`, where the count is the length of
the list and all have passed the same barriers but those woken; and `Closing`, where
thread w is at the k-th cell of a list of all others, those before it are awake and
may be one round ahead, spinning for the queue that w holds, those from it on wait.
A cell that is awake cannot be queued again before w releases the queue, so `next`
of the last woken cell still leads on. Theorems: `TypeCorrect`, `Holds`
(`NobodyPassesEarly`), `RoundIsSound` (`RoundSound`), `WakesWaiters` (`WakesItsOwn`),
`Inductive`.

**Chronometer.** Assumption: threads are finite, `Main` is one, keys are limited by a
positive number. The thread-local key works although every thread overwrites the
variable: the first key is created before the first thread starts, and keys are never
deleted, so `key` always names one with a destructor. The list is a sequence that
grows at its head; a thread that pushes has read a suffix of it and retries unless it
is the whole. A report walks down from the head it read; what is pushed meanwhile is
not on its way. `CountIs` ties the sums of a structure to the calls of its thread.
Theorems: `TypeCorrect`, `Dated` (`EndDated`), `Exactness` (`RowsExact`), `ListIsSound` (`ListSound`), `Everybody` (`EverybodyReported`), `Kept`
(`EndedKept`, an action property), `Inductive`.

**Bench.** Assumptions: at least one machine, steady processes among the background
ones, a busyloop per machine with cores to name (`SizeAssumption`, `VcpusAssumption`,
`SteadyAssumption`, `OptionsAssumption`, `BusyloopAssumption`). The script is
sequential, so `HostInv` says of every process what state `step` and `index` imply
(`BackgroundIs`, `MachineIs`, `RunIs`), whatever ended between two polls, and that
`waiters` names each machine with a waiter run once. `GuestInv` ties the session inside
the last machine to what the host believes of it: a session is open only in a machine
that is up or whose logs are being copied; and `FirstInv` says that until the first run of
the main session is over no monitor has been cut, since the kill comes only after it, so that
what `first` records of both, once the run has waited for them, is `reported` or `early`. `BusyInv` has the turn in which each thread was given its core last; no two
threads have the same turn, and `tid` may be stale after a failed creation without two
threads ending up on one core. Theorems: `Together` (`MeasuredTogether`), `OneRun`
(`OneRunAtATime`), `Collection` (`QuietWhenCollected`), `FirstRun` (`FirstRunUnbroken`), `Busy`
(`KeptBusy`), `BenchTypes`, `BenchImplementsBenchRun` and `Inductive`.

**Only model-checked.** The invariants of all passing runs are proved. Their liveness
properties (`LockReturns`, `Served`, `CallsReturn`, `ProgramsEnd`, `EverybodyPasses`,
`BenchEnds`) are not: fairness and ENABLED are out of the prover's reach. TLC checks them
on the instances of section 3.

---

## 5. What is not modelled

* Timed-wait clocks, attributes, `pthread_*_init` and `_destroy` (they do nothing or
  zero the object), `clock` arguments: a timeout may come at any time.
* The layout of a queue inside the pthread objects (sizes, alignment, statically
  initialised objects are zero).
* Thread cancellation and signals; a thread that exits while holding a mutex.
* Two OpenMP teams at once.
* Chronometer: failed allocation or symbol lookup (the program exits), the output
  path, symbol versions, threads that exist before the library's constructor.
* bench-xen: option checks (defaults and one pass over text), reuse of a pid while
  `wait_any` polls it, a user's interrupt, and a full disk.
* Guest: what `setup.sh` and the `*-work.sh` compute (environment variables and a
  command line, from text), the contents of reports, `scanpin` (a tool no run
  calls), and the time a run takes: the deadline may pass at any moment.
* VM life cycle: the preparation of configuration and image, which is mounts and
  copies of one process, and the pinning loop of `boot`, over arguments that name
  cores. A machine that `xl create` made is assumed to come up.
* Background processes: what each measures, and the traps of the scripts. The trap
  of `xen-vmm:28` is set after the sleep it interrupts has started; a TERM that came
  so early would lose the final dump, but it comes after all main runs.
* `bench-linux`: `run_commands` is the loop of `BenchRun` with a scalar of another name;
  the rest, chroots prepared and cleaned by mounts on the host, is input and output.
* Test programs: `AC/t/barrier.c` and `AC/barrier.c` time OpenMP loops, whose barriers
  are `ActiveBarrier`'s; `CH/t/main.c` calls each timed function and prints;
  `AC/script` sweeps arguments. Their timing, options and output are left out of
  those that are modelled, too.
* Payload methods, `generate.pl`, installation scripts, `cleanup` and `pack`: run by
  hand and once, one process each (but for the pool of `generate.pl`), on files
  nothing else uses meanwhile.

---

## 6. Plan

What decides whether measurements are right is modelled: the libraries, their clients,
and a bench from its host down to the monitors of a run. Every safety property and every
refinement that a passing run checks has a theorem. A change of the code begins with the
definition that `map` in `PROJECT.json` gives for its lines, then the run of that module,
then its proofs. What might be added, in this order:

* the pinning loop of `boot` with a pin of blanks, a hazard without a property, and the
  traps of the background processes (`xen-vmm:28`);
* two OpenMP teams on the one barrier queue (`AC/src/gomp_barrier.c:25`);
* the timed waits outside `Calm`, if finding 2 is repaired.
