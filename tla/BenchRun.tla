------------------------------ MODULE BenchRun ------------------------------
(***************************************************************************)
(* bench-xen on the host, from the checked options to the end: the script  *)
(* makes an instance of the base machine for every machine and boots it,   *)
(* starts the background processes and one main run per machine, gives a   *)
(* machine whose main run is over a waiter run that is repeated for ever,  *)
(* and once no main run is left kills the waiter runs and the background   *)
(* processes, collects the logs, and saves its configuration next to them. *)
(* run_commands of bench-linux is the same loop, but for a name (Assign).  *)
(***************************************************************************)
EXTENDS Naturals, Sequences, FiniteSets

CONSTANTS
  N,         \* the number of machines
  B,         \* the number of background processes
  Vcpus,     \* what the command line asked for each machine
  Steady,    \* the background processes that do not end by themselves
  Tempfs,    \* the machines whose payload goes to memory
  Busyloops, \* the cores of the busyloop of each machine, <<>> for none
  Frail      \* the machines whose boot may fail

Machines == 1..N
Bgprocs == 1..B

ASSUME SizeAssumption == N \in Nat \ {0} /\ B \in Nat
ASSUME VcpusAssumption == Vcpus \in [Machines -> Nat]
ASSUME SteadyAssumption == Steady \subseteq Bgprocs
ASSUME OptionsAssumption ==
  Tempfs \cup Frail \subseteq Machines /\ Busyloops \in [Machines -> Seq(Nat)]

VARIABLES
  step,      \* where the script is
  index,     \* the index of its current loop
  vcpus,     \* the array, element 0 of the shell being element 1 here
  pids,      \* pids[m]: is the main run of m still to be waited for
  found,     \* the machine of the pid wait_any printed
  waiters,   \* the waiter runs started, in order
  main, waiter,   \* the processes of a machine on the host
  bg,        \* the steps of a background process
  machine,   \* the life of a machine, and of the host's process that serves it
  busy,      \* the busyloops the last machine was asked to start
  given,     \* auxiliary: the numbers of vcpus the runs of a machine were given
  saved      \* the numbers in the saved configuration

vars == <<step, index, vcpus, pids, found, waiters, main, waiter, bg, machine, busy, given, saved>>
script == <<vcpus, pids, found, waiters, busy, given, saved>>

Init ==
  /\ step = "pre" /\ index = 1
  /\ vcpus = Vcpus
  /\ pids = [m \in Machines |-> FALSE]
  /\ found = 0
  /\ waiters = <<>>
  /\ main = [m \in Machines |-> "none"]
  /\ waiter = [m \in Machines |-> "none"]
  /\ bg = [b \in Bgprocs |-> "new"]
  /\ machine = [m \in Machines |-> "none"]
  /\ busy = <<>>
  /\ given = [m \in Machines |-> {}]
  /\ saved = <<>>

At(s) == step = s
Goto(s) == step' = s /\ index' = 1

\* The loops of the script: the number of turns of each, and what follows it.
Turns ==
  [pre |-> B, make |-> N, boot |-> N, fill |-> N,
   background |-> B, launch |-> N, kill |-> Len(waiters), stop |-> B, post |-> B]
After ==
  [pre |-> "make", make |-> "made", boot |-> "booted", fill |-> "filled",
   background |-> "launch", launch |-> "scan", kill |-> "stop",
   stop |-> "collect", post |-> "save"]

In(loop) == step = loop /\ index <= Turns[loop]
Turn == index' = index + 1 /\ UNCHANGED step

LoopEnds ==
  /\ step \in DOMAIN Turns
  /\ index > Turns[step]
  /\ Goto(After[step])
  /\ UNCHANGED <<script, main, waiter, bg, machine>>

\* vcpus=${vcpus[${index}]} writes element 0 of the array; bench-linux, whose scalar
\* is called core, leaves its array alone.
Assign(m) == vcpus' = [vcpus EXCEPT ![1] = vcpus[m]]
Give(m) == given' = [given EXCEPT ![m] = @ \cup {vcpus[m]}]

---------------------------------------------------------------------------
\* pre_instancify, instancify_machines

Pre ==
  /\ In("pre")
  /\ bg' = [bg EXCEPT ![index] = "ready"]
  /\ Turn
  /\ UNCHANGED <<script, main, waiter, machine>>

\* A turn of a loop that starts a process in the background for its machine.
Begin(loop, state) ==
  /\ In(loop)
  /\ machine' = [machine EXCEPT ![index] = state]
  /\ Turn
  /\ UNCHANGED <<script, main, waiter, bg>>

StartCopy == Begin("make", "making")
StartBoot == Begin("boot", "creating")
StartTempfs ==
  Begin("fill", IF index \in Tempfs /\ machine[index] = "up" THEN "filling"
                ELSE machine[index])

\* A bare `wait`, which tells nothing of how the processes ended.
WaitAll(label, states, next) ==
  /\ At(label)
  /\ \A m \in Machines : machine[m] \in states
  /\ Goto(next)
  /\ UNCHANGED <<script, main, waiter, bg, machine>>

\* Mutant: the script does not wait for tempfize.sh.
FilledHastily == At("filled") /\ Goto("busyloop") /\ UNCHANGED <<script, main, waiter, bg, machine>>

Made == WaitAll("made", {"made"}, "boot")
Booted == WaitAll("booted", {"up", "down"}, "fill")
Filled == WaitAll("filled", {"up", "down"}, "busyloop")

\* What those processes do.
Does(m, from, to) ==
  /\ machine[m] = from
  /\ machine' = [machine EXCEPT ![m] = to]
  /\ UNCHANGED <<step, index, script, main, waiter, bg>>

Copy(m) == Does(m, "making", "made")
\* method/boot up to xl create, which may fail.
Create(m) ==
  \/ Does(m, "creating", "connecting")
  \/ m \in Frail /\ Does(m, "creating", "down")
\* Tries until the master connection is up, then pins the vcpus.
Connect(m) == Does(m, "connecting", "up")
Tempfize(m) == Does(m, "filling", "up")

\* The busyloops of the machines, read at an index that a machine without one
\* does not advance, all go to the machine the last loop has left in `instance`.
StartBusyloops ==
  /\ At("busyloop")
  /\ LET asked == {m \in Machines : \A k \in 1..m : Busyloops[k] # <<>>}
     IN busy' = SubSeq(Busyloops, 1, Cardinality(asked))
  /\ Goto("background")
  /\ UNCHANGED <<vcpus, pids, found, waiters, given, saved, main, waiter, bg, machine>>

---------------------------------------------------------------------------
\* run_commands

StartBackground ==
  /\ In("background")
  /\ bg' = [bg EXCEPT ![index] = "running"]
  /\ Turn
  /\ UNCHANGED <<script, main, waiter, machine>>

Launch ==
  /\ In("launch")
  /\ Assign(index) /\ Give(index)
  /\ main' = [main EXCEPT ![index] = "running"]
  /\ pids' = [pids EXCEPT ![index] = TRUE]
  /\ Turn
  /\ UNCHANGED <<found, waiters, busy, saved, waiter, bg, machine>>

\* Mutant: the loop ends with the first main run.
ScanFirst ==
  /\ At("scan")
  /\ IF \A m \in Machines : pids[m] THEN Goto("poll") ELSE Goto("kill")
  /\ UNCHANGED <<script, main, waiter, bg, machine>>

\* towait is every pid that is not 0.
Scan ==
  /\ At("scan")
  /\ IF \E m \in Machines : pids[m] THEN Goto("poll") ELSE Goto("kill")
  /\ UNCHANGED <<script, main, waiter, bg, machine>>

\* wait_any: some pid of towait that no process has any more.  Several may have
\* ended; the sleep between two polls leaves the choice open.
Poll(m) ==
  /\ At("poll")
  /\ pids[m] /\ main[m] = "over"
  /\ found' = m
  /\ Goto("relaunch")
  /\ UNCHANGED <<vcpus, pids, waiters, busy, given, saved, main, waiter, bg, machine>>

\* Mutant: the pid of the main run stays in pids.
RelaunchKeepsPid ==
  /\ At("relaunch")
  /\ Assign(found) /\ Give(found)
  /\ waiter' = [waiter EXCEPT ![found] = "running"]
  /\ waiters' = Append(waiters, found)
  /\ Len(waiters) < 2 * N
  /\ Goto("scan")
  /\ UNCHANGED <<pids, found, busy, saved, main, bg, machine>>

Relaunch ==
  /\ At("relaunch")
  /\ Assign(found) /\ Give(found)
  /\ pids' = [pids EXCEPT ![found] = FALSE]
  /\ waiter' = [waiter EXCEPT ![found] = "running"]
  /\ waiters' = Append(waiters, found)
  /\ Goto("scan")
  /\ UNCHANGED <<found, busy, saved, main, bg, machine>>

KillWaiter ==
  /\ In("kill")
  /\ waiter' = [waiter EXCEPT ![waiters[index]] = "killed"]
  /\ Turn
  /\ UNCHANGED <<script, main, bg, machine>>

\* Mutant: the script does not wait for the process it kills.
KillHastily ==
  /\ In("stop")
  /\ bg[index] = "running"
  /\ bg' = [bg EXCEPT ![index] = "killed"]
  /\ Turn
  /\ UNCHANGED <<script, main, waiter, machine>>

\* A background process that still runs is killed...
KillBackground ==
  /\ In("stop")
  /\ bg[index] = "running"
  /\ bg' = [bg EXCEPT ![index] = "killed"]
  /\ UNCHANGED <<step, index, script, main, waiter, machine>>

\* ... and waited for; one that has ended is left alone.
BackgroundStopped ==
  /\ In("stop")
  /\ bg[index] = "over"
  /\ Turn
  /\ UNCHANGED <<script, main, waiter, bg, machine>>

---------------------------------------------------------------------------
\* terminate_machines, post_terminate

\* The machines are dealt with in parallel: logs first, then the power.
CopyLogs(m) ==
  /\ At("collect") /\ machine[m] \in {"up", "down"}
  /\ machine' = [machine EXCEPT ![m] = "copied"]
  /\ UNCHANGED <<step, index, script, main, waiter, bg>>

PowerOff(m) ==
  /\ At("collect") /\ machine[m] = "copied"
  /\ machine' = [machine EXCEPT ![m] = "off"]
  /\ UNCHANGED <<step, index, script, main, waiter, bg>>

\* The `wait` of terminate_machines.
Collected ==
  /\ At("collect")
  /\ \A m \in Machines : machine[m] = "off"
  /\ Goto("post")
  /\ UNCHANGED <<script, main, waiter, bg, machine>>

Post ==
  /\ In("post")
  /\ bg' = [bg EXCEPT ![index] = "posted"]
  /\ Turn
  /\ UNCHANGED <<script, main, waiter, machine>>

\* print_config and the archive.
Save ==
  /\ At("save")
  /\ saved' = vcpus
  /\ Goto("end")
  /\ UNCHANGED <<vcpus, pids, found, waiters, busy, given, main, waiter, bg, machine>>

---------------------------------------------------------------------------
\* The other processes

MainEnds(m) ==
  /\ main[m] = "running"
  /\ main' = [main EXCEPT ![m] = "over"]
  /\ UNCHANGED <<step, index, script, waiter, bg, machine>>

BackgroundEnds(b) ==
  /\ bg[b] = "killed" \/ (bg[b] = "running" /\ b \notin Steady)
  /\ bg' = [bg EXCEPT ![b] = "over"]
  /\ UNCHANGED <<step, index, script, main, waiter, machine>>

Script ==
  \/ Pre \/ StartCopy \/ Made \/ StartBoot \/ Booted \/ StartTempfs \/ Filled
  \/ StartBusyloops \/ StartBackground \/ Launch \/ Scan \/ Relaunch \/ KillWaiter
  \/ KillBackground \/ BackgroundStopped \/ LoopEnds \/ Collected \/ Post \/ Save
  \/ \E m \in Machines : Poll(m) \/ CopyLogs(m) \/ PowerOff(m)

Helper(m) == Copy(m) \/ Create(m) \/ Connect(m) \/ Tempfize(m)

Next ==
  \/ Script
  \/ \E m \in Machines : Helper(m)
  \/ \E m \in Machines : MainEnds(m)
  \/ \E b \in Bgprocs : BackgroundEnds(b)

\* The script goes on whenever it can, copies and boots end, main runs end, and a
\* background process that is killed ends.
FairSpec ==
  /\ Init /\ [][Next]_vars
  /\ WF_vars(Script)
  /\ \A m \in Machines : WF_vars(Helper(m)) /\ WF_vars(MainEnds(m))
  /\ \A b \in Bgprocs : WF_vars(bg[b] = "killed" /\ BackgroundEnds(b))

---------------------------------------------------------------------------
\* Properties

\* Every variable has its type.
TypeOK ==
  /\ index \in Nat \ {0}
  /\ vcpus \in [Machines -> Nat]
  /\ pids \in [Machines -> BOOLEAN]
  /\ found \in 0..N
  /\ waiters \in Seq(Machines) /\ Len(waiters) <= N
  /\ main \in [Machines -> {"none", "running", "over"}]
  /\ waiter \in [Machines -> {"none", "running", "killed"}]
  /\ bg \in [Bgprocs -> {"new", "ready", "running", "killed", "over", "posted"}]
  /\ machine \in [Machines -> {"none", "making", "made", "creating", "connecting",
                              "filling", "up", "down", "copied", "off"}]
  /\ \E k \in 0..N : busy = SubSeq(Busyloops, 1, k)

\* "They should run continuously until the last main process has done" (line
\* 352): a background process that does not end by itself is running, and not
\* even being killed, as long as one main run is; and a machine whose main run
\* the script knows to be over keeps its waiter run as long.  Nor is a machine
\* still being made, booted or filled.
MeasuredTogether ==
  (\E m \in Machines : main[m] = "running") =>
    /\ \A b \in Steady : bg[b] = "running"
    /\ \A m \in Machines : waiter[m] # "killed" /\ machine[m] \in {"up", "down"}

\* A machine has one run at a time: a waiter run only after its main run, and
\* only one, whatever runs end together between two polls.
OneRunEach ==
  \A m \in Machines :
    /\ main[m] = "running" => waiter[m] = "none"
    /\ Cardinality({i \in 1..Len(waiters) : waiters[i] = m}) <= 1
    /\ waiter[m] # "none" <=> \E i \in 1..Len(waiters) : waiters[i] = m

\* Logs are copied, and the post steps done, when no process of the host writes
\* them any more.
QuietWhenCollected ==
  (\E m \in Machines : machine[m] \in {"copied", "off"}) \/ (\E b \in Bgprocs : bg[b] = "posted") =>
    /\ \A m \in Machines : main[m] = "over" /\ waiter[m] = "killed"
    /\ \A b \in Bgprocs : bg[b] \in {"over", "posted"}

\* The saved configuration says what the machines ran with ("vcpus    :" in
\* print_config, next to the logs it describes).
ReportIsTrue == At("end") => \A m \in Machines : given[m] = {saved[m]}

=============================================================================
