----------------------------- MODULE BenchProofs -----------------------------
(***************************************************************************)
(* The safety of a bench, for any number of machines and of background     *)
(* processes: an invariant of the host, which says what every process is   *)
(* in from where the script is; one of the machine that is followed        *)
(* inside, which rests on it; and one of its busyloop.                     *)
(***************************************************************************)
EXTENDS Bench, FiniteSetTheorems, SequenceTheorems, TLAPS

\* The loops of the script, one by one.
LEMMA Loops ==
  /\ DOMAIN Turns = {"pre", "make", "boot", "fill", "background", "launch", "kill", "stop", "post"}
  /\ Turns["pre"] = B /\ Turns["make"] = N /\ Turns["boot"] = N /\ Turns["fill"] = N
  /\ Turns["background"] = B /\ Turns["launch"] = N /\ Turns["kill"] = Len(waiters)
  /\ Turns["stop"] = B /\ Turns["post"] = B
  /\ After["pre"] = "make" /\ After["make"] = "made" /\ After["boot"] = "booted"
  /\ After["fill"] = "filled" /\ After["background"] = "launch" /\ After["launch"] = "scan"
  /\ After["kill"] = "stop" /\ After["stop"] = "collect" /\ After["post"] = "save"
BY DEF Turns, After

---------------------------------------------------------------------------
\* The inductive invariant of the host.  What a process may be in follows from
\* where the script is: a loop has dealt with the indices below `index`.

Preparing == {"make", "made", "boot", "booted", "fill", "filled", "busyloop"}
Measuring == {"scan", "poll", "relaunch"}
Ending == {"kill", "stop", "collect", "post", "save", "end"}
MachineStates ==
  {"none", "making", "made", "creating", "connecting", "filling", "up", "down",
   "copied", "off"}
Steps == {"pre", "background", "launch"} \cup Preparing \cup Measuring \cup Ending

\* The states of a background process that nobody has killed.
Going(b) == IF b \in Steady THEN {"running"} ELSE {"running", "over"}

BackgroundIs(b) ==
  /\ step = "pre" => bg[b] = IF b < index THEN "ready" ELSE "new"
  /\ step \in Preparing => bg[b] = "ready"
  /\ step = "background" => bg[b] \in IF b < index THEN Going(b) ELSE {"ready"}
  /\ step \in Measuring \cup {"launch", "kill"} => bg[b] \in Going(b)
  /\ step = "stop" =>
       bg[b] \in CASE b < index -> {"over"}
                   [] b = index -> {"running", "killed", "over"}
                   [] OTHER -> Going(b)
  /\ step = "collect" => bg[b] = "over"
  /\ step = "post" => bg[b] = IF b < index THEN "posted" ELSE "over"
  /\ step \in {"save", "end"} => bg[b] = "posted"

MachineIs(m) ==
  /\ step = "pre" => machine[m] = "none"
  /\ step = "make" => machine[m] \in IF m < index THEN {"making", "made"} ELSE {"none"}
  /\ step = "made" => machine[m] \in {"making", "made"}
  /\ step = "boot" =>
       machine[m] \in IF m < index THEN {"creating", "connecting", "up", "down"}
                      ELSE {"made"}
  /\ step = "booted" => machine[m] \in {"creating", "connecting", "up", "down"}
  /\ step \in {"fill", "filled"} => machine[m] \in {"filling", "up", "down"}
  /\ step \in {"busyloop", "background", "launch", "kill", "stop"} \cup Measuring =>
       machine[m] \in {"up", "down"}
  /\ step = "collect" => machine[m] \in {"up", "down", "copied", "off"}
  /\ step \in {"post", "save", "end"} => machine[m] = "off"

\* A machine is in one of three states: without a run, with a main run to be
\* waited for, or with a waiter run and its main run over.
RunIs(m) ==
  /\ main[m] = "none" <=>
       step \in {"pre", "background"} \cup Preparing \/ (step = "launch" /\ index <= m)
  /\ pids[m] <=> main[m] # "none" /\ waiter[m] = "none"
  /\ waiter[m] # "none" => main[m] = "over"
  /\ waiter[m] = "killed" => step \in Ending
  /\ step \in Ending => main[m] = "over" /\ waiter[m] # "none"
  /\ step \in Ending \ {"kill"} => waiter[m] = "killed"
  /\ step = "relaunch" /\ found = m => pids[m] /\ main[m] = "over"

\* `waiters` names the machines that have a waiter run, each once.
WaitersOK ==
  /\ \A m \in Machines :
       waiter[m] # "none" <=> \E i \in 1..Len(waiters) : waiters[i] = m
  /\ \A i, k \in 1..Len(waiters) : waiters[i] = waiters[k] => i = k
  /\ step = "kill" =>
       \A i \in 1..Len(waiters) : i < index => waiter[waiters[i]] = "killed"
  /\ step = "relaunch" => found \in Machines

HostInv ==
  /\ TypeOK /\ step \in Steps /\ WaitersOK
  /\ \A b \in Bgprocs : BackgroundIs(b)
  /\ \A m \in Machines : MachineIs(m) /\ RunIs(m)

---------------------------------------------------------------------------
\* The sessions of the guest.  One is open in a machine that is up, or whose logs
\* are being copied; the monitors of a run that is over have ended unless the run
\* was killed.
SessionInv ==
  /\ G!GuestTypeOK
  /\ session # "none" => machine[Watched] \in {"up", "copied"}
  /\ session = "main" => main[Watched] = "running"
  /\ session = "waiter" => main[Watched] = "over"
  /\ session = "none" => runtime = "end" /\ run = "over" /\ G!Quiet
  /\ runtime = "end" => run = "over"
  /\ run = "over" /\ runtime # "end" => G!Quiet

\* The first run of the main session, whose monitors nothing cuts, is whole before
\* anything can be killed.
Uncut ==
  \A x \in G!Monitors :
    monitor[x] \in {"starting", "ready", "stopping", "reading", "reported", "early"}
Unknown == first = G!Both("none")
Whole == \A x \in G!Monitors : first[x] \in {"reported", "early"}

FirstInv ==
  /\ session = "main" /\ runtime = "first" /\ run # "over" => Unknown /\ Uncut
  /\ session = "main" /\ (runtime # "first" \/ run = "over") => Whole
  /\ session # "main" /\ main[Watched] # "over" => Unknown
  /\ main[Watched] = "over" /\ machine[Watched] = "up" => Whole

GuestInv == SessionInv /\ FirstInv

\* The inductive invariant of the busyloop.  Its main() is at thread i; `turn`
\* gives the turn in which the affinity of a thread was set last, 0 for none.
TurnsAre(turn) ==
  LET i == place[2] IN
  /\ \A k \in L!Spinners :
       /\ turn[k] # 0 => mask[k] = {Busyloops[1][turn[k]]} /\ turn[k] <= i
       /\ turn[k] = i => place[1] = "spin" \/ i = 0
       /\ mask[k] # {} /\ turn[k] = 0 =>
            place[1] = "priority" \/ (place[1] = "bind" /\ tid = k)
  /\ \A k, l \in L!Spinners : turn[k] = turn[l] /\ k # l => turn[k] = 0

BusyPlaces ==
  LET i == place[2] IN
  /\ L!BusyTypeOK
  /\ place[1] # "off" => i \in L!Spinners /\ mask[1] # {}
  /\ place[1] = "off" => mask = L!NoThreads
  /\ place[1] = "bind" => tid \in 0..i /\ (tid # 0 => mask[tid] # {})
  /\ place[1] = "priority" => i = 1 /\ tid = 1
  /\ place[1] = "create" =>
       /\ i > 1 /\ mask[i] = {}
       /\ tid \in 0..(i - 1) /\ (tid # 0 => mask[tid] # {})
  /\ \A k \in L!Spinners : mask[k] # {} /\ place[1] # "priority" => k \in idle
  /\ \A k \in L!Spinners : k > i => mask[k] = {}

BusyInv ==
  /\ BusyPlaces
  /\ \E turn \in [L!Spinners -> 0..Len(Busyloops[1])] : TurnsAre(turn)

IInv == HostInv /\ GuestInv /\ BusyInv

\* The background processes, under each action.
LEMMA BackgroundKept ==
  ASSUME HostInv, [Next]_vars, NEW b \in Bgprocs
  PROVE  BackgroundIs(b)'
<1>. USE DEF BackgroundIs, Going, Bgprocs, Preparing, Measuring
<1>0. /\ index \in Nat \ {0} /\ b \in 1..B /\ B \in Nat
      /\ BackgroundIs(b) /\ bg \in [Bgprocs -> {"new", "ready", "running", "killed", "over", "posted"}]
  BY SizeAssumption DEF HostInv, TypeOK
<1>1. CASE Pre
  BY <1>0, <1>1, Loops DEF Pre, In, Turn, script
<1>2. CASE StartBackground
  BY <1>0, <1>2, Loops DEF StartBackground, In, Turn, script
<1>3. CASE KillBackground
  BY <1>0, <1>3, Loops DEF KillBackground, In, script
<1>4. CASE BackgroundStopped
  BY <1>0, <1>4, Loops DEF BackgroundStopped, In, Turn, script
<1>5. CASE LoopEnds
  BY <1>0, <1>5, Loops DEF LoopEnds, Goto, script
<1>6. CASE Post
  BY <1>0, <1>6, Loops DEF Post, In, Turn, script
<1>7. CASE Launch
  BY <1>0, <1>7, Loops DEF Launch, In, Turn, Assign, Give, script
<1>8. ASSUME NEW k \in Bgprocs, BackgroundEnds(k)
      PROVE  BackgroundIs(b)'
  BY <1>0, <1>8 DEF BackgroundEnds, script
<1>9. CASE StartCopy \/ Made \/ StartBoot \/ Booted \/ StartTempfs \/ Filled \/ StartBusyloops \/ Scan \/ Relaunch \/ KillWaiter \/ Collected \/ Save
  BY <1>0, <1>9, Loops DEF StartCopy, Begin, In, Turn, Made, WaitAll, At, Goto, StartBoot, Booted, StartTempfs, Filled, StartBusyloops, Scan, Relaunch, Assign, Give, KillWaiter, Collected, Save, script
<1>10. ASSUME NEW k \in Machines, Poll(k) \/ CopyLogs(k) \/ PowerOff(k) \/ Copy(k) \/ Create(k) \/ Connect(k) \/ Tempfize(k) \/ MainEnds(k)
      PROVE  BackgroundIs(b)'
  BY <1>0, <1>10 DEF Poll, At, Goto, CopyLogs, PowerOff, Copy, Does, Create, Connect, Tempfize, MainEnds, script
<1>11. CASE UNCHANGED vars
  BY <1>0, <1>11 DEF vars
<1>. QED
  BY <1>1, <1>2, <1>3, <1>4, <1>5, <1>6, <1>7, <1>8, <1>9, <1>10, <1>11 DEF Next, Script, Helper

\* The life of a machine, under each action.
LEMMA MachinesKept ==
  ASSUME HostInv, [Next]_vars, NEW m \in Machines
  PROVE  MachineIs(m)'
<1>. USE DEF MachineIs, Machines, Preparing, Measuring
<1>0. /\ index \in Nat \ {0} /\ m \in 1..N /\ N \in Nat
      /\ MachineIs(m) /\ machine \in [Machines -> MachineStates]
  BY SizeAssumption DEF HostInv, TypeOK, MachineStates
<1>1. CASE StartCopy
  BY <1>0, <1>1, Loops DEF StartCopy, Begin, In, Turn, script
<1>2. CASE StartBoot
  BY <1>0, <1>2, Loops DEF StartBoot, Begin, In, Turn, script
<1>3. CASE StartTempfs
  BY <1>0, <1>3, Loops DEF StartTempfs, Begin, In, Turn, script
<1>4. CASE LoopEnds
  BY <1>0, <1>4, Loops DEF LoopEnds, Goto, script
<1>5. CASE Made \/ Booted \/ Filled \/ Collected
  BY <1>0, <1>5 DEF Made, WaitAll, At, Goto, Booted, Filled, Collected, script
<1>6. ASSUME NEW k \in Machines, CopyLogs(k) \/ PowerOff(k)
      PROVE  MachineIs(m)'
  BY <1>0, <1>6 DEF CopyLogs, At, PowerOff, script
<1>7. ASSUME NEW k \in Machines, Copy(k)
      PROVE  MachineIs(m)'
  BY <1>0, <1>7 DEF Copy, Does, script
<1>8. ASSUME NEW k \in Machines, Create(k)
      PROVE  MachineIs(m)'
  BY <1>0, <1>8 DEF Create, Does, script
<1>9. ASSUME NEW k \in Machines, Connect(k)
      PROVE  MachineIs(m)'
  BY <1>0, <1>9 DEF Connect, Does, script
<1>10. ASSUME NEW k \in Machines, Tempfize(k)
      PROVE  MachineIs(m)'
  BY <1>0, <1>10 DEF Tempfize, Does, script
<1>11. CASE Pre \/ StartBusyloops \/ StartBackground \/ Launch \/ Scan \/ Relaunch \/ KillWaiter \/ KillBackground \/ BackgroundStopped \/ Post \/ Save
  BY <1>0, <1>11, Loops DEF Pre, In, Turn, StartBusyloops, At, Goto, StartBackground, Launch, Assign, Give, Scan, Relaunch, KillWaiter, KillBackground, BackgroundStopped, Post, Save, script
<1>12. ASSUME NEW k \in Machines, Poll(k) \/ MainEnds(k)
      PROVE  MachineIs(m)'
  BY <1>0, <1>12 DEF Poll, At, Goto, MainEnds, script
<1>13. ASSUME NEW k \in Bgprocs, BackgroundEnds(k)
      PROVE  MachineIs(m)'
  BY <1>0, <1>13 DEF BackgroundEnds, script
<1>14. CASE UNCHANGED vars
  BY <1>0, <1>14 DEF vars
<1>. QED
  BY <1>1, <1>2, <1>3, <1>4, <1>5, <1>6, <1>7, <1>8, <1>9, <1>10, <1>11, <1>12, <1>13, <1>14 DEF Next, Script, Helper

\* The runs of a machine, under each action.  The loop of the kills ends with every
\* waiter run killed, since `waiters` names them all.
LEMMA RunsKept ==
  ASSUME HostInv, [Next]_vars, NEW m \in Machines
  PROVE  RunIs(m)'
<1>. USE DEF RunIs, Machines, Steps, Preparing, Measuring, Ending
<1>0. /\ index \in Nat \ {0} /\ m \in 1..N /\ N \in Nat /\ RunIs(m) /\ step \in Steps
      /\ pids \in [Machines -> BOOLEAN] /\ main \in [Machines -> {"none", "running", "over"}]
      /\ waiter \in [Machines -> {"none", "running", "killed"}] /\ found \in 0..N
      /\ WaitersOK /\ waiters \in Seq(Machines)
  BY SizeAssumption DEF HostInv, TypeOK, Machines
<1>1. CASE Launch
  BY <1>0, <1>1, Loops DEF Launch, In, Turn, Assign, Give, script
<1>2. CASE Scan
  BY <1>0, <1>2 DEF Scan, At, Goto, script
<1>3. CASE Relaunch
  BY <1>0, <1>3 DEF Relaunch, At, Goto, Assign, Give, script
<1>4. CASE KillWaiter
  BY <1>0, <1>4, Loops DEF KillWaiter, In, Turn, script
<1>5. CASE LoopEnds
  <2>1. step = "kill" => waiter[m] = "killed"
    <3>. SUFFICES ASSUME step = "kill"
                  PROVE  waiter[m] = "killed"
      OBVIOUS
    <3>1. PICK i \in 1..Len(waiters) : waiters[i] = m
      BY <1>0 DEF HostInv, WaitersOK
    <3>2. Len(waiters) \in Nat /\ i < index
      BY <1>0, <1>5, <3>1, Loops DEF LoopEnds, HostInv, TypeOK
    <3>. QED  BY <3>1, <3>2 DEF HostInv, WaitersOK
  <2>. QED  BY <1>0, <1>5, <2>1, Loops DEF LoopEnds, Goto, script
<1>6. ASSUME NEW k \in Machines, Poll(k)
      PROVE  RunIs(m)'
  BY <1>0, <1>6 DEF Poll, At, Goto, script
<1>7. ASSUME NEW k \in Machines, MainEnds(k)
      PROVE  RunIs(m)'
  BY <1>0, <1>7 DEF MainEnds, script
<1>8. CASE Pre \/ StartCopy \/ Made \/ StartBoot \/ Booted \/ StartTempfs \/ Filled \/ StartBusyloops \/ StartBackground \/ KillBackground \/ BackgroundStopped \/ Collected \/ Post \/ Save
  BY <1>0, <1>8, Loops DEF Pre, In, Turn, StartCopy, Begin, Made, WaitAll, At, Goto, StartBoot, Booted, StartTempfs, Filled, StartBusyloops, StartBackground, KillBackground, BackgroundStopped, Collected, Post, Save, script
<1>9. ASSUME NEW k \in Machines, CopyLogs(k) \/ PowerOff(k) \/ Copy(k) \/ Create(k) \/ Connect(k) \/ Tempfize(k)
      PROVE  RunIs(m)'
  BY <1>0, <1>9 DEF CopyLogs, At, PowerOff, Copy, Does, Create, Connect, Tempfize, script
<1>10. ASSUME NEW k \in Bgprocs, BackgroundEnds(k)
      PROVE  RunIs(m)'
  BY <1>0, <1>10 DEF BackgroundEnds, script
<1>11. CASE UNCHANGED vars
  BY <1>0, <1>11 DEF vars
<1>. QED
  BY <1>1, <1>2, <1>3, <1>4, <1>5, <1>6, <1>7, <1>8, <1>9, <1>10, <1>11 DEF Next, Script, Helper

\* Each machine has at most one waiter run, so they are no more than the machines.
LEMMA WaitersAreFew ==
  ASSUME NEW q \in Seq(Machines),
         \A i, k \in 1..Len(q) : q[i] = q[k] => i = k
  PROVE  Len(q) <= N
<1>1. q \in Injection(1..Len(q), Machines)
  BY DEF Injection, IsInjective
<1>2. Cardinality(Machines) = N /\ IsFiniteSet(Machines)
  BY SizeAssumption, FS_Interval DEF Machines
<1>3. Len(q) \in Nat /\ Cardinality(1..Len(q)) = Len(q)
  BY FS_Interval
<1>. QED  BY <1>1, <1>2, <1>3, FS_Injection

\* `waiters` grows by a machine that had no waiter run.
LEMMA WaitersKept ==
  ASSUME HostInv, [Next]_vars
  PROVE  WaitersOK'
<1>. USE DEF WaitersOK, Machines, Steps, Preparing, Measuring, Ending
<1>0. /\ index \in Nat \ {0} /\ N \in Nat /\ step \in Steps /\ WaitersOK
      /\ waiters \in Seq(Machines) /\ Len(waiters) \in Nat
      /\ waiter \in [Machines -> {"none", "running", "killed"}] /\ found \in 0..N
  BY SizeAssumption DEF HostInv, TypeOK, Machines
<1>1. CASE Relaunch
  <2>1. /\ found \in Machines /\ waiter[found] = "none" /\ step' = "scan" /\ index' = 1
        /\ waiters' = Append(waiters, found)
        /\ waiter' = [waiter EXCEPT ![found] = "running"]
    BY <1>0, <1>1 DEF Relaunch, At, Goto, HostInv, RunIs
  <2>2. /\ Len(waiters') = Len(waiters) + 1 /\ waiters'[Len(waiters) + 1] = found
        /\ \A i \in 1..Len(waiters) : waiters'[i] = waiters[i]
    BY <1>0, <2>1
  <2>3. \A i \in 1..Len(waiters) : waiters[i] # found
    BY <1>0, <2>1
  <2>4. \A i \in 1..Len(waiters') : i = Len(waiters) + 1 \/ i \in 1..Len(waiters)
    BY <1>0, <2>2
  <2>5. ASSUME NEW m \in Machines
        PROVE  waiter'[m] # "none" <=> \E i \in 1..Len(waiters') : waiters'[i] = m
    <3>1. CASE m = found
      BY <1>0, <2>1, <2>2, <3>1
    <3>2. CASE m # found
      BY <1>0, <2>1, <2>2, <2>4, <3>2
    <3>. QED  BY <3>1, <3>2
  <2>6. \A i, k \in 1..Len(waiters') : waiters'[i] = waiters'[k] => i = k
    BY <1>0, <2>2, <2>3, <2>4
  <2>. QED  BY <2>1, <2>5, <2>6
<1>2. CASE KillWaiter
  BY <1>0, <1>2, Loops DEF KillWaiter, In, Turn, script
<1>3. CASE LoopEnds
  BY <1>0, <1>3, Loops DEF LoopEnds, Goto, script
<1>4. CASE Scan
  BY <1>0, <1>4 DEF Scan, At, Goto, script
<1>5. ASSUME NEW k \in Machines, Poll(k)
      PROVE  WaitersOK'
  BY <1>0, <1>5 DEF Poll, At, Goto, script
<1>6. CASE Pre \/ StartCopy \/ Made \/ StartBoot \/ Booted \/ StartTempfs \/ Filled \/ StartBusyloops \/ StartBackground \/ Launch \/ KillBackground \/ BackgroundStopped \/ Collected \/ Post \/ Save
  BY <1>0, <1>6, Loops DEF Pre, In, Turn, StartCopy, Begin, Made, WaitAll, At, Goto, StartBoot, Booted, StartTempfs, Filled, StartBusyloops, StartBackground, Launch, Assign, Give, KillBackground, BackgroundStopped, Collected, Post, Save, script
<1>7. ASSUME NEW k \in Machines, CopyLogs(k) \/ PowerOff(k) \/ MainEnds(k)
      PROVE  WaitersOK'
  <2>1. UNCHANGED <<step, index, script, waiter>>
    BY <1>7 DEF CopyLogs, PowerOff, MainEnds
  <2>. QED  BY <1>0, <2>1 DEF script
<1>8. ASSUME NEW k \in Machines, Copy(k) \/ Create(k) \/ Connect(k) \/ Tempfize(k)
      PROVE  WaitersOK'
  <2>1. UNCHANGED <<step, index, script, waiter>>
    BY <1>8 DEF Copy, Does, Create, Connect, Tempfize
  <2>. QED  BY <1>0, <2>1 DEF script
<1>9. ASSUME NEW k \in Bgprocs, BackgroundEnds(k)
      PROVE  WaitersOK'
  BY <1>0, <1>9 DEF BackgroundEnds, script
<1>10. CASE UNCHANGED vars
  BY <1>0, <1>10 DEF vars
<1>. QED
  BY <1>1, <1>2, <1>3, <1>4, <1>5, <1>6, <1>7, <1>8, <1>9, <1>10 DEF Next, Script, Helper

\* The types of what the script does not touch, and of where it may be.
LEMMA TypesOfOthers ==
  ASSUME TypeOK, UNCHANGED script, index' \in Nat \ {0},
         main' \in [Machines -> {"none", "running", "over"}],
         waiter' \in [Machines -> {"none", "running", "killed"}],
         bg' \in [Bgprocs -> {"new", "ready", "running", "killed", "over", "posted"}],
         machine' \in [Machines -> MachineStates]
  PROVE  TypeOK'
BY DEF TypeOK, script, MachineStates

\* The script goes from a place to a place.
LEMMA StepsKept ==
  ASSUME HostInv, [Next]_vars
  PROVE  step' \in Steps
<1>. USE DEF Steps, Preparing, Measuring, Ending
<1>0. step \in Steps
  BY DEF HostInv
<1>1. CASE LoopEnds
  BY <1>1, Loops DEF LoopEnds, Goto
<1>2. CASE Pre \/ StartCopy \/ Made \/ StartBoot \/ Booted \/ StartTempfs \/ Filled \/ StartBusyloops \/ StartBackground \/ Launch \/ Scan \/ Relaunch \/ KillWaiter \/ KillBackground \/ BackgroundStopped \/ Collected \/ Post \/ Save
  BY <1>0, <1>2 DEF Pre, In, Turn, StartCopy, Begin, Made, WaitAll, At, Goto, StartBoot, Booted, StartTempfs, Filled, StartBusyloops, StartBackground, Launch, Assign, Give, Scan, Relaunch, KillWaiter, KillBackground, BackgroundStopped, Collected, Post, Save, script
<1>3. ASSUME NEW k \in Machines, Poll(k) \/ CopyLogs(k) \/ PowerOff(k) \/ Copy(k) \/ Create(k) \/ Connect(k) \/ Tempfize(k) \/ MainEnds(k)
      PROVE  step' \in Steps
  BY <1>0, <1>3 DEF Poll, At, Goto, CopyLogs, PowerOff, Copy, Does, Create, Connect, Tempfize, MainEnds, script
<1>4. CASE (\E k \in Bgprocs : BackgroundEnds(k)) \/ UNCHANGED vars
  BY <1>0, <1>4 DEF BackgroundEnds, vars
<1>. QED
  BY <1>1, <1>2, <1>3, <1>4 DEF Next, Script, Helper

\* The types of the host, under each action.
LEMMA TypesKept ==
  ASSUME HostInv, [Next]_vars
  PROVE  TypeOK'
<1>. USE DEF MachineStates
<1>0. /\ TypeOK /\ index \in Nat \ {0}
      /\ main \in [Machines -> {"none", "running", "over"}]
      /\ waiter \in [Machines -> {"none", "running", "killed"}]
      /\ bg \in [Bgprocs -> {"new", "ready", "running", "killed", "over", "posted"}]
      /\ machine \in [Machines -> MachineStates]
  BY SizeAssumption DEF HostInv, TypeOK, MachineStates
<1>1. CASE Launch
  <2>1. /\ index \in Machines /\ index' = index + 1
        /\ main' = [main EXCEPT ![index] = "running"]
        /\ pids' = [pids EXCEPT ![index] = TRUE]
        /\ UNCHANGED <<found, waiters, busy, waiter, bg, machine>>
    BY <1>0, <1>1, Loops, SizeAssumption DEF Launch, In, Turn, Machines
  <2>2. vcpus' \in [Machines -> Nat]
    BY <1>0, <1>1, <2>1, SizeAssumption DEF Launch, Assign, TypeOK, Machines
  <2>3. /\ main' \in [Machines -> {"none", "running", "over"}]
        /\ pids' \in [Machines -> BOOLEAN] /\ index' \in Nat \ {0}
    BY <1>0, <2>1 DEF TypeOK
  <2>. QED  BY <1>0, <2>1, <2>2, <2>3 DEF TypeOK
<1>2. CASE StartBusyloops
  <2>. DEFINE asked == {m \in Machines : \A k \in 1..m : Busyloops[k] # <<>>}
  <2>1. Cardinality(asked) \in 0..N
    <3>1. IsFiniteSet(Machines) /\ Cardinality(Machines) = N
      BY SizeAssumption, FS_Interval DEF Machines
    <3>2. asked \subseteq Machines
      OBVIOUS
    <3>. QED  BY <3>1, <3>2, FS_Subset, FS_CardinalityType, SizeAssumption
  <2>2. /\ busy' = SubSeq(Busyloops, 1, Cardinality(asked)) /\ index' = 1
        /\ UNCHANGED <<vcpus, pids, found, waiters, main, waiter, bg, machine>>
    BY <1>2 DEF StartBusyloops, Goto
  <2>. HIDE DEF asked
  <2>3. \E k \in 0..N : busy' = SubSeq(Busyloops, 1, k)
    BY <2>1, <2>2
  <2>4. index' \in Nat \ {0}
    BY <2>2
  <2>. QED  BY <1>0, <2>2, <2>3, <2>4, Zenon DEF TypeOK
<1>3. CASE Relaunch
  <2>1. /\ found \in Machines /\ index' = 1
        /\ waiter' = [waiter EXCEPT ![found] = "running"]
        /\ pids' = [pids EXCEPT ![found] = FALSE]
        /\ waiters' = Append(waiters, found)
        /\ UNCHANGED <<found, busy, main, bg, machine>>
    BY <1>0, <1>3 DEF Relaunch, At, Goto, HostInv, WaitersOK
  <2>2. vcpus' \in [Machines -> Nat]
    BY <1>0, <1>3, <2>1, SizeAssumption DEF Relaunch, Assign, TypeOK, Machines
  <2>3. waiters' \in Seq(Machines)
    BY <1>0, <2>1 DEF TypeOK
  <2>4. Len(waiters') <= N
    <3>1. WaitersOK'
      BY WaitersKept
    <3>2. \A i, k \in 1..Len(waiters') : waiters'[i] = waiters'[k] => i = k
      BY <3>1 DEF WaitersOK
    <3>. QED  BY <2>3, <3>2, WaitersAreFew
  <2>5. /\ pids' \in [Machines -> BOOLEAN] /\ index' \in Nat \ {0} /\ found' \in 0..N
        /\ waiter' \in [Machines -> {"none", "running", "killed"}]
    BY <1>0, <2>1 DEF TypeOK
  <2>. QED  BY <1>0, <2>1, <2>2, <2>3, <2>4, <2>5 DEF TypeOK
<1>4. ASSUME NEW k \in Machines, Poll(k)
      PROVE  TypeOK'
  <2>1. /\ found' = k /\ index' = 1 /\ k \in 0..N
        /\ UNCHANGED <<vcpus, pids, waiters, busy, main, waiter, bg, machine>>
    BY <1>4, SizeAssumption DEF Poll, Goto, Machines
  <2>. QED  BY <1>0, <2>1 DEF TypeOK
<1>5. CASE Save
  <2>1. /\ index' = 1
        /\ UNCHANGED <<vcpus, pids, found, waiters, busy, main, waiter, bg, machine>>
    BY <1>5 DEF Save, Goto
  <2>. QED  BY <1>0, <2>1 DEF TypeOK
<1>6. CASE Pre \/ StartBackground \/ KillBackground \/ BackgroundStopped \/ Post
  BY <1>0, TypesOfOthers, <1>6, Loops DEF Pre, In, Turn, StartBackground, KillBackground, BackgroundStopped, Post, script
<1>7. CASE StartCopy \/ StartBoot
  BY <1>0, TypesOfOthers, <1>7, Loops DEF StartCopy, Begin, In, Turn, StartBoot, script
<1>8. CASE StartTempfs
  <2>1. /\ index \in Machines /\ index' = index + 1 /\ UNCHANGED <<script, main, waiter, bg>>
        /\ machine' = [machine EXCEPT ![index] =
                         IF index \in Tempfs /\ machine[index] = "up" THEN "filling"
                         ELSE machine[index]]
    BY <1>0, <1>8, Loops, SizeAssumption DEF StartTempfs, Begin, In, Turn, Machines
  <2>2. machine[index] \in MachineStates
    BY <1>0, <2>1
  <2>3. machine' \in [Machines -> MachineStates]
    BY <1>0, <2>1, <2>2
  <2>. QED  BY <1>0, <2>1, <2>3, TypesOfOthers
<1>9. CASE KillWaiter
  <2>1. /\ index' = index + 1 /\ UNCHANGED <<script, main, bg, machine>>
        /\ waiter' = [waiter EXCEPT ![waiters[index]] = "killed"]
    BY <1>9 DEF KillWaiter, Turn
  <2>2. waiter' \in [Machines -> {"none", "running", "killed"}]
    BY <1>0, <2>1
  <2>. QED  BY <1>0, <2>1, <2>2, TypesOfOthers
<1>10. CASE Made \/ Booted \/ Filled \/ Collected \/ Scan
  BY <1>0, TypesOfOthers, <1>10 DEF Made, WaitAll, At, Goto, Booted, Filled, Collected, Scan, script
<1>11. CASE LoopEnds
  BY <1>0, TypesOfOthers, <1>11, Loops DEF LoopEnds, Goto, script
<1>12. ASSUME NEW k \in Machines, CopyLogs(k) \/ PowerOff(k) \/ Copy(k) \/ Create(k) \/ Connect(k) \/ Tempfize(k) \/ MainEnds(k)
      PROVE  TypeOK'
  BY <1>0, TypesOfOthers, <1>12 DEF CopyLogs, At, PowerOff, Copy, Does, Create, Connect, Tempfize, MainEnds, script
<1>13. ASSUME NEW k \in Bgprocs, BackgroundEnds(k)
      PROVE  TypeOK'
  BY <1>0, TypesOfOthers, <1>13 DEF BackgroundEnds, script
<1>14. CASE UNCHANGED vars
  BY <1>0, <1>14 DEF vars, TypeOK
<1>. QED
  BY <1>1, <1>2, <1>3, <1>4, <1>5, <1>6, <1>7, <1>8, <1>9, <1>10, <1>11, <1>12, <1>13, <1>14 DEF Next, Script, Helper

\* The bench starts in the invariant of the host...
LEMMA HostInit == Init => HostInv
<1>1. Init => TypeOK
  <2>1. SubSeq(Busyloops, 1, 0) = <<>>
    BY SubSeqEmpty
  <2>2. 0 \in 0..N /\ 1 \in Nat \ {0} /\ <<>> \in Seq(Machines) /\ Len(<<>>) = 0
    BY SizeAssumption
  <2>3. Init => \E k \in 0..N : busy = SubSeq(Busyloops, 1, k)
    BY <2>1, <2>2 DEF Init
  <2>4. Init => waiters \in Seq(Machines) /\ Len(waiters) <= N
    BY <2>2, SizeAssumption DEF Init
  <2>5. Init => index \in Nat \ {0} /\ vcpus \in [Machines -> Nat] /\ found \in 0..N
    BY <2>2, VcpusAssumption DEF Init
  <2>. QED  BY <2>3, <2>4, <2>5 DEF Init, TypeOK
<1>2. Init => step \in Steps /\ WaitersOK
  BY DEF Init, WaitersOK, Steps
<1>3. Init => \A b \in Bgprocs : BackgroundIs(b)
  BY SizeAssumption DEF Init, BackgroundIs, Bgprocs, Preparing, Measuring
<1>4. Init => \A m \in Machines : MachineIs(m) /\ RunIs(m)
  BY DEF Init, MachineIs, RunIs, Preparing, Measuring, Ending
<1>. QED  BY <1>1, <1>2, <1>3, <1>4 DEF HostInv

\* ... and keeps it, whatever step it makes.
LEMMA HostNext == HostInv /\ [Next]_vars => HostInv'
<1>1. UNCHANGED <<Machines, Bgprocs>>
  BY DEF Machines, Bgprocs
<1>. QED
  BY <1>1, BackgroundKept, MachinesKept, RunsKept, WaitersKept, StepsKept, TypesKept
     DEF HostInv

---------------------------------------------------------------------------
\* A step of the bench is a step of the host.
LEMMA BenchIsBenchRun == [BenchNext]_benchVars => [Next]_vars
<1>1. MainCloses \/ MainFails => Next
  <2>1. Watched \in Machines
    BY SizeAssumption DEF Watched, Machines
  <2>. QED  BY <2>1 DEF MainCloses, MainFails, Next
<1>2. HostStep => Next
  BY DEF HostStep, Next
<1>. QED
  BY <1>1, <1>2 DEF BenchNext, Sessions, GuestMoves, BusyMoves, WaiterCloses, benchVars

\* What the host may do to a machine and to its main run.
LEMMA HostSteps ==
  ASSUME HostInv, [Next]_vars, NEW m \in Machines
  PROVE  /\ \/ machine'[m] = machine[m]
            \/ main[m] = "none" /\ main'[m] = "none" /\ machine'[m] # "off"
            \/ /\ main'[m] = main[m]
               /\ \/ machine[m] \in {"up", "down"} /\ machine'[m] = "copied"
                  \/ machine[m] = "copied" /\ machine'[m] = "off" /\ main[m] = "over"
         /\ \/ main'[m] = main[m]
            \/ main[m] = "none" /\ main'[m] = "running" /\ UNCHANGED machine
            \/ MainEnds(m)
<1>. USE DEF Machines
<1>0. /\ MachineIs(m) /\ RunIs(m) /\ machine \in [Machines -> MachineStates]
      /\ main \in [Machines -> {"none", "running", "over"}] /\ m \in 1..N /\ N \in Nat
      /\ index \in Nat \ {0}
  BY SizeAssumption DEF HostInv, TypeOK, MachineStates
<1>1. CASE StartCopy \/ StartBoot \/ StartTempfs
  BY <1>0, <1>1, Loops DEF StartCopy, Begin, In, Turn, StartBoot, StartTempfs, script, RunIs, Preparing
<1>2. CASE Launch
  BY <1>0, <1>2, Loops DEF Launch, In, Turn, RunIs, Preparing
<1>3. ASSUME NEW k \in Machines, CopyLogs(k) \/ PowerOff(k)
      PROVE  /\ machine' = machine \/ main' = main
             /\ main'[m] = main[m]
             /\ \/ machine'[m] = machine[m]
                \/ machine[m] \in {"up", "down"} /\ machine'[m] = "copied"
                \/ machine[m] = "copied" /\ machine'[m] = "off" /\ main[m] = "over"
  BY <1>0, <1>3 DEF CopyLogs, At, PowerOff, RunIs, Ending
<1>4. ASSUME NEW k \in Machines, Helper(k)
      PROVE  /\ main' = main
             /\ machine'[m] = machine[m] \/ (main[m] = "none" /\ machine'[m] # "off")
  BY <1>0, <1>4 DEF Helper, Copy, Does, Create, Connect, Tempfize, RunIs, MachineIs, Preparing,
       Measuring, MachineStates, HostInv, Steps, Ending
<1>5. CASE Pre \/ Made \/ Booted \/ Filled \/ StartBusyloops \/ StartBackground \/ Scan \/ Relaunch \/ KillWaiter \/ KillBackground \/ BackgroundStopped \/ LoopEnds \/ Collected \/ Post \/ Save
  BY <1>5 DEF Pre, Made, WaitAll, Booted, Filled, StartBusyloops, StartBackground, Scan, Relaunch, KillWaiter, KillBackground, BackgroundStopped, LoopEnds, Collected, Post, Save
<1>6. ASSUME NEW k \in Machines, MainEnds(k)
      PROVE  machine' = machine /\ (main'[m] = main[m] \/ MainEnds(m))
  BY <1>0, <1>6 DEF MainEnds
<1>7. CASE \E k \in Machines : Poll(k)
  BY <1>7 DEF Poll
<1>8. CASE (\E k \in Bgprocs : BackgroundEnds(k)) \/ UNCHANGED vars
  BY <1>8 DEF BackgroundEnds, vars
<1>. QED
  BY <1>0, <1>1, <1>2, <1>3, <1>4, <1>5, <1>6, <1>7, <1>8 DEF Next, Script

\* The script starts the main runs and leaves them alone after that.
LEMMA RunsLaunched == Script /\ ~ Launch => UNCHANGED main
BY DEF Script, Pre, StartCopy, Begin, Made, WaitAll, StartBoot, Booted, StartTempfs, Filled,
     StartBusyloops, StartBackground, Scan, Relaunch, KillWaiter, KillBackground,
     BackgroundStopped, LoopEnds, Collected, Post, Save, Poll, CopyLogs, PowerOff

\* A step of the host launches the main run of the watched machine or leaves it
\* alone, and switches the machine off only once that run is over.
LEMMA HostTurn ==
  ASSUME HostInv, HostStep
  PROVE  /\ main'[Watched] = main[Watched] \/
              (main[Watched] = "none" /\ main'[Watched] = "running" /\ UNCHANGED machine)
         /\ machine[Watched] # "off" /\ machine'[Watched] = "off" =>
              main[Watched] = "over" /\ main'[Watched] = "over"
         /\ machine'[Watched] = "up" /\ main'[Watched] = "over" => machine[Watched] = "up"
<1>0. /\ Watched \in Machines /\ [Next]_vars
      /\ main \in [Machines -> {"none", "running", "over"}]
  BY SizeAssumption, BenchIsBenchRun DEF Watched, Machines, HostInv, TypeOK, BenchNext
<1>1. main'[Watched] = main[Watched] \/
      (main[Watched] = "none" /\ main'[Watched] = "running" /\ UNCHANGED machine)
  <2>1. CASE Launch
    BY <1>0, <2>1, HostSteps DEF Launch, MainEnds
  <2>2. CASE Script /\ ~ Launch
    BY <2>2, RunsLaunched
  <2>3. CASE \E m \in Machines : Helper(m)
    BY <2>3 DEF Helper, Copy, Does, Create, Connect, Tempfize
  <2>4. CASE \E m \in Machines : m # Watched /\ MainEnds(m)
    BY <1>0, <2>4 DEF MainEnds
  <2>5. CASE \E b \in Bgprocs : BackgroundEnds(b)
    BY <2>5 DEF BackgroundEnds
  <2>. QED  BY <2>1, <2>2, <2>3, <2>4, <2>5 DEF HostStep
<1>. QED  BY <1>0, <1>1, HostSteps

\* What the kill of the group leaves behind.
LEMMA GroupKilled ==
  ASSUME G!GuestTypeOK, G!KillGroup
  PROVE  /\ runtime = "sleep" /\ runtime' = "end" /\ run' = "over"
         /\ UNCHANGED <<session, late>>
         /\ monitor' \in [G!Monitors -> G!States]
         /\ first' \in [G!Monitors -> G!States]
         /\ session # "main" \/ ~ Unknown => first' = first
<1>1. PICK hit \in SUBSET {x \in G!Monitors : monitor[x] = "reading"} :
        monitor' = [x \in G!Monitors |->
          IF x \in hit THEN IF x = "disk" THEN "stuck" ELSE "cut"
          ELSE G!Signalled(x, "cut")]
  BY DEF G!KillGroup
<1>2. ASSUME NEW x \in G!Monitors
      PROVE  G!Signalled(x, "cut") \in G!States
  BY DEF G!GuestTypeOK, G!Signalled, G!States, G!Ends
<1>3. "stuck" \in G!States /\ "cut" \in G!States
  BY DEF G!States, G!Ends
<1>4. G!Both("cut") \in [G!Monitors -> G!States]
  BY <1>3 DEF G!Both
<1>5. first' = (IF session = "main" /\ Unknown THEN G!Both("cut") ELSE first)
  BY DEF G!KillGroup, G!Record, Unknown
<1>. QED  BY <1>1, <1>2, <1>3, <1>4, <1>5 DEF G!KillGroup, G!GuestTypeOK

\* Monitors go on from where they are, by themselves or for the signal of their run.
LEMMA MonitorsGoOn ==
  ASSUME G!GuestTypeOK, NEW x \in G!Monitors,
         \/ G!MonitorStep(x)
         \/ \E from, to \in {"kill disk", "kill network", "wait"} : G!KillMonitor(x, from, to)
  PROVE  /\ monitor' \in [G!Monitors -> G!States]
         /\ Uncut => Uncut'
         /\ UNCHANGED <<session, runtime, late, first>>
<1>1. CASE G!MonitorStep(x)
  BY <1>1 DEF G!MonitorStep, G!MonitorMoves, G!GuestTypeOK, G!States, G!Ends, Uncut
<1>2. CASE \E from, to \in {"kill disk", "kill network", "wait"} : G!KillMonitor(x, from, to)
  <2>1. /\ monitor' = [monitor EXCEPT ![x] = G!Signalled(x, "early")]
        /\ UNCHANGED <<session, runtime, late, first>>
    BY <1>2 DEF G!KillMonitor
  <2>2. G!Signalled(x, "early") \in {monitor[x], "early", "stopping", "reading"}
    BY DEF G!Signalled
  <2>. QED  BY <2>1, <2>2 DEF G!GuestTypeOK, G!States, G!Ends, Uncut
<1>. QED  BY <1>1, <1>2

\* Sessions stay sound, whoever moves: the host may only switch the guest off, and
\* only when its main run is over.
LEMMA SessionNext ==
  ASSUME HostInv, SessionInv, [BenchNext]_benchVars
  PROVE  SessionInv'
<1>. USE DEF SessionInv
<1>0. /\ Watched \in Machines /\ [Next]_vars /\ RunIs(Watched)
      /\ main \in [Machines -> {"none", "running", "over"}]
      /\ machine \in [Machines -> MachineStates]
  BY SizeAssumption, BenchIsBenchRun DEF Watched, Machines, HostInv, TypeOK, MachineStates
<1>1. CASE HostStep
  <2>1. CASE machine[Watched] # "off" /\ machine'[Watched] = "off"
    <3>1. main[Watched] = "over" /\ main'[Watched] = "over"
      BY <1>1, <2>1, HostTurn
    <3>2. G!SwitchOff
      BY <1>1, <2>1 DEF HostStep, Follow
    <3>. QED
      BY <2>1, <3>1, <3>2 DEF G!SwitchOff, G!Both, G!GuestTypeOK, G!Quiet, G!States, G!Ends, G!Monitors
  <2>2. CASE ~ (machine[Watched] # "off" /\ machine'[Watched] = "off")
    <3>1. UNCHANGED inGuest
      BY <1>1, <2>2 DEF HostStep, Follow
    <3>. QED
      BY <1>0, <1>1, <2>2, <3>1, HostTurn, HostSteps DEF inGuest, G!GuestTypeOK, G!Quiet
  <2>. QED  BY <2>1, <2>2
<1>2. CASE OpenMain /\ UNCHANGED vars
  BY <1>2 DEF OpenMain, Up, vars, G!Open, G!StartRun, G!Both, G!GuestTypeOK, G!States
<1>3. CASE OpenWaiter /\ UNCHANGED vars
  BY <1>0, <1>3 DEF RunIs, OpenWaiter, Up, vars, G!Open, G!StartRun, G!Both, G!GuestTypeOK, G!States
<1>4. CASE MainCloses
  BY <1>0, <1>4 DEF MainCloses, MainEnds, G!Close, G!GuestTypeOK, G!Quiet
<1>5. CASE MainFails
  BY <1>0, <1>5 DEF MainFails, MainEnds, inGuest, G!GuestTypeOK, G!Quiet
<1>6. CASE WaiterCloses
  BY <1>6 DEF WaiterCloses, vars, G!Close, G!GuestTypeOK, G!Quiet
<1>7. CASE GuestMoves
  <2>0. UNCHANGED <<machine, main>>
    BY <1>7 DEF GuestMoves, vars
  <2>1. CASE G!ApplicationEnds \/ G!DeadlinePasses \/ G!TestDeadline
    BY <2>0, <2>1 DEF G!ApplicationEnds, G!DeadlinePasses, G!TestDeadline, G!Quiet, G!GuestTypeOK
  <2>2. ASSUME NEW x \in G!Monitors,
               \E from, to \in {"kill disk", "kill network", "wait"} : G!KillMonitor(x, from, to)
        PROVE  SessionInv'
    <3>1. monitor' \in [G!Monitors -> G!States] /\ UNCHANGED <<session, runtime, late, first>>
      BY <2>2, MonitorsGoOn
    <3>2. run # "over" /\ run' \in {"kill disk", "kill network", "wait"}
      BY <2>2 DEF G!KillMonitor
    <3>. QED  BY <2>0, <3>1, <3>2 DEF G!GuestTypeOK
  <2>3. CASE G!RunEnds
    BY <2>0, <2>3 DEF G!RunEnds, G!Record, G!Quiet, G!GuestTypeOK
  <2>4. CASE G!NextRun
    BY <2>0, <2>4 DEF G!NextRun, G!StartRun, G!Both, G!States, G!Quiet, G!GuestTypeOK
  <2>5. CASE G!KillGroup
    BY <2>0, <2>5, GroupKilled DEF G!GuestTypeOK
  <2>6. ASSUME NEW x \in G!Monitors, G!MonitorStep(x)
        PROVE  SessionInv'
    <3>1. monitor' \in [G!Monitors -> G!States] /\ UNCHANGED <<session, runtime, late, first>>
      BY <2>6, MonitorsGoOn
    <3>2. ~ G!Quiet /\ UNCHANGED run
      BY <2>6 DEF G!MonitorStep, G!MonitorMoves, G!Quiet, G!Ends
    <3>. QED  BY <2>0, <3>1, <3>2 DEF G!GuestTypeOK
  <2>. QED
    BY <1>7, <2>1, <2>2, <2>3, <2>4, <2>5, <2>6 DEF GuestMoves, G!GuestStep, G!ShellStep, G!Monitors
<1>8. CASE BusyMoves \/ UNCHANGED benchVars
  BY <1>8 DEF BusyMoves, benchVars, vars, inGuest, G!GuestTypeOK, G!Quiet
<1>. QED
  BY <1>1, <1>2, <1>3, <1>4, <1>5, <1>6, <1>7, <1>8 DEF BenchNext, Sessions

\* The first run is recorded once, at its end, and nothing cuts it before.
LEMMA FirstNext ==
  ASSUME HostInv, GuestInv, [BenchNext]_benchVars
  PROVE  FirstInv'
<1>. USE DEF FirstInv
<1>0. /\ Watched \in Machines /\ SessionInv /\ FirstInv
      /\ main \in [Machines -> {"none", "running", "over"}]
      /\ Whole => ~ Unknown
  <2>1. "disk" \in G!Monitors /\ Whole /\ Unknown => FALSE
    BY DEF Whole, Unknown, G!Both
  <2>. QED
    BY <2>1, SizeAssumption DEF GuestInv, Watched, Machines, HostInv, TypeOK, G!Monitors
<1>1. first' = first => (Unknown' <=> Unknown) /\ (Whole' <=> Whole)
  BY DEF Unknown, G!Both, Whole
<1>2. monitor' = monitor => (Uncut' <=> Uncut)
  BY DEF Uncut
<1>3. CASE HostStep
  <2>1. CASE machine[Watched] # "off" /\ machine'[Watched] = "off"
    BY <1>3, <2>1, HostTurn DEF HostStep, Follow, G!SwitchOff
  <2>2. CASE ~ (machine[Watched] # "off" /\ machine'[Watched] = "off")
    <3>1. UNCHANGED inGuest
      BY <1>3, <2>2 DEF HostStep, Follow
    <3>. QED  BY <1>0, <1>1, <1>2, <1>3, <3>1, HostTurn DEF inGuest
  <2>. QED  BY <2>1, <2>2
<1>4. CASE OpenMain /\ UNCHANGED vars
  <2>1. /\ session = "none" /\ session' = "main" /\ runtime' = "first" /\ run' = "app"
        /\ main[Watched] = "running" /\ UNCHANGED <<first, main, machine>>
    BY <1>4 DEF OpenMain, vars, G!Open, G!StartRun
  <2>2. Uncut'
    BY <1>4 DEF OpenMain, G!Open, G!StartRun, G!Both, Uncut
  <2>. QED  BY <1>0, <1>1, <2>1, <2>2
<1>5. CASE OpenWaiter /\ UNCHANGED vars
  <2>1. /\ session = "none" /\ session' = "waiter" /\ UNCHANGED <<first, main, machine>>
    BY <1>5 DEF OpenWaiter, vars, G!Open
  <2>. QED  BY <1>0, <1>1, <2>1
<1>6. CASE MainCloses
  <2>1. /\ session = "main" /\ session' = "none" /\ runtime = "end" /\ UNCHANGED <<first, machine>>
        /\ main'[Watched] = "over"
    BY <1>0, <1>6 DEF MainCloses, G!Close, MainEnds
  <2>. QED  BY <1>0, <1>1, <2>1
<1>7. CASE MainFails
  <2>1. /\ machine[Watched] = "down" /\ UNCHANGED <<machine, session, runtime, run, monitor, first>>
        /\ main'[Watched] = "over"
    BY <1>0, <1>7 DEF MainFails, MainEnds, inGuest
  <2>2. session = "none" \/ session = "waiter"
    BY <1>0, <2>1 DEF SessionInv, G!GuestTypeOK
  <2>. QED  BY <1>0, <1>1, <2>1, <2>2
<1>8. CASE WaiterCloses
  <2>1. session' = "none" /\ session = "waiter" /\ UNCHANGED <<first, main, machine>>
    BY <1>8 DEF WaiterCloses, vars, G!Close
  <2>. QED  BY <1>0, <1>1, <2>1
<1>9. CASE GuestMoves
  <2>0. UNCHANGED <<machine, main>> /\ G!GuestTypeOK
    BY <1>0, <1>9 DEF GuestMoves, vars, SessionInv
  <2>1. CASE G!ApplicationEnds \/ G!DeadlinePasses \/ G!TestDeadline
    <3>1. /\ UNCHANGED <<session, monitor, first>>
          /\ run = "over" <=> run' = "over"
          /\ runtime' = runtime \/ run = "over"
      BY <2>1 DEF G!ApplicationEnds, G!DeadlinePasses, G!TestDeadline
    <3>. QED  BY <1>0, <1>1, <1>2, <2>0, <3>1
  <2>2. ASSUME NEW x \in G!Monitors,
               \E from, to \in {"kill disk", "kill network", "wait"} : G!KillMonitor(x, from, to)
        PROVE  FirstInv'
    <3>1. (Uncut => Uncut') /\ UNCHANGED <<session, runtime, first>>
      BY <2>0, <2>2, MonitorsGoOn
    <3>2. run # "over" /\ run' # "over"
      BY <2>2 DEF G!KillMonitor
    <3>. QED  BY <1>0, <1>1, <2>0, <3>1, <3>2
  <2>3. CASE G!RunEnds
    <3>1. /\ run = "wait" /\ run' = "over" /\ UNCHANGED <<session, runtime>>
          /\ first' = IF session = "main" /\ Unknown THEN monitor ELSE first
      BY <2>3 DEF G!RunEnds, G!Record, Unknown
    <3>2. ASSUME session = "main", Unknown
          PROVE  Whole'
      <4>1. Uncut /\ G!Quiet /\ first' = monitor
        BY <1>0, <2>3, <3>1, <3>2 DEF G!RunEnds
      <4>. QED  BY <4>1 DEF Uncut, Whole, G!Quiet, G!Ends
    <3>. QED  BY <1>0, <1>1, <2>0, <3>1, <3>2
  <2>4. CASE G!NextRun
    <3>1. runtime = "sleep" /\ run = "over" /\ UNCHANGED <<session, runtime, first>>
      BY <2>4 DEF G!NextRun
    <3>. QED  BY <1>0, <1>1, <2>0, <3>1
  <2>5. CASE G!KillGroup
    BY <1>0, <1>1, <2>0, <2>5, GroupKilled
  <2>6. ASSUME NEW x \in G!Monitors, G!MonitorStep(x)
        PROVE  FirstInv'
    <3>1. (Uncut => Uncut') /\ UNCHANGED <<session, runtime, first>>
      BY <2>0, <2>6, MonitorsGoOn
    <3>2. UNCHANGED run
      BY <2>6 DEF G!MonitorStep, G!MonitorMoves
    <3>. QED  BY <1>0, <1>1, <2>0, <3>1, <3>2
  <2>. QED
    BY <1>9, <2>1, <2>2, <2>3, <2>4, <2>5, <2>6 DEF GuestMoves, G!GuestStep, G!ShellStep, G!Monitors
<1>10. CASE BusyMoves \/ UNCHANGED benchVars
  BY <1>0, <1>1, <1>2, <1>10 DEF BusyMoves, benchVars, vars, inGuest
<1>. QED
  BY <1>3, <1>4, <1>5, <1>6, <1>7, <1>8, <1>9, <1>10 DEF BenchNext, Sessions

\* The guest keeps its invariant.
LEMMA GuestNext ==
  ASSUME HostInv, GuestInv, [BenchNext]_benchVars
  PROVE  GuestInv'
BY SessionNext, FirstNext DEF GuestInv

---------------------------------------------------------------------------
\* Before it starts, the busyloop has no thread.
LEMMA BusyOff ==
  ASSUME place = <<"off", 0>>, mask = L!NoThreads, idle = {}, tid = 0
  PROVE  BusyInv
<1>. DEFINE turn == [k \in L!Spinners |-> 0]
<1>1. Len(Busyloops[1]) \in Nat
  BY BusyloopAssumption
<1>2. turn \in [L!Spinners -> 0..Len(Busyloops[1])] /\ TurnsAre(turn)
  BY <1>1 DEF TurnsAre, L!Spinners, L!NoThreads
<1>. HIDE DEF turn
<1>. QED  BY <1>1, <1>2 DEF BusyInv, BusyPlaces, L!BusyTypeOK, L!Spinners, L!NoThreads

\* A busyloop whose machine is switched off is as at the start.
LEMMA BusyOffNext ==
  ASSUME L!SwitchOff
  PROVE  BusyInv'
<1>. DEFINE turn == [k \in L!Spinners |-> 0]
<1>1. Len(Busyloops[1]) \in Nat
  BY BusyloopAssumption
<1>2. turn \in [L!Spinners -> 0..Len(Busyloops[1])] /\ TurnsAre(turn)'
  BY <1>1 DEF TurnsAre, L!Spinners, L!NoThreads, L!SwitchOff
<1>. HIDE DEF turn
<1>. QED
  BY <1>1, <1>2 DEF BusyInv, BusyPlaces, L!BusyTypeOK, L!Spinners, L!NoThreads, L!SwitchOff

\* The busyloop keeps its invariant.  Only Bind gives a thread a core, in a turn in
\* which no thread was given one before.
LEMMA BusyNext ==
  ASSUME BusyInv, [BenchNext]_benchVars
  PROVE  BusyInv'
<1>. DEFINE C == Busyloops[1]
            i == place[2]
<1>0. /\ Len(C) \in Nat /\ L!Spinners = 1..Len(C) /\ \A k \in L!Spinners : C[k] \in AllCores
      /\ place = <<place[1], i>> /\ i \in Nat
      /\ mask \in [L!Spinners -> SUBSET AllCores] /\ idle \subseteq L!Spinners
      /\ tid \in {0} \cup L!Spinners
  BY BusyloopAssumption DEF BusyInv, BusyPlaces, L!BusyTypeOK, L!Spinners
<1>1. PICK turn \in [L!Spinners -> 0..Len(C)] : TurnsAre(turn)
  BY DEF BusyInv
<1>2. CASE L!Start
  <2>. DEFINE none == [k \in L!Spinners |-> 0]
  <2>1. /\ place' = <<"priority", 1>> /\ mask' = [L!NoThreads EXCEPT ![1] = AllCores]
        /\ tid' = 1 /\ idle' = idle /\ place[1] = "off" /\ Len(C) # 0 /\ 1 \in L!Spinners
    BY <1>0, <1>2, BusyloopAssumption DEF L!Start, L!Arrive
  <2>2. none \in [L!Spinners -> 0..Len(C)] /\ TurnsAre(none)'
    BY <1>0, <2>1 DEF TurnsAre
  <2>3. AllCores # {}
    BY <1>0, <2>1
  <2>4. mask' \in [L!Spinners -> SUBSET AllCores]
    BY <1>0, <2>1 DEF L!NoThreads
  <2>5. mask'[1] = AllCores /\ \A k \in L!Spinners : k > 1 => mask'[k] = {}
    BY <1>0, <2>1 DEF L!NoThreads
  <2>. HIDE DEF none
  <2>. QED  BY <1>0, <2>1, <2>2, <2>3, <2>4, <2>5 DEF BusyInv, BusyPlaces, L!BusyTypeOK
<1>3. CASE L!DecreasePriority
  <2>1. /\ place[1] = "priority" /\ place' = <<"bind", 1>> /\ idle' = {1}
        /\ mask' = mask /\ tid' = tid /\ i = 1 /\ tid = 1 /\ mask[1] # {} /\ 1 \in L!Spinners
    BY <1>0, <1>3 DEF L!DecreasePriority, L!Arrive, BusyInv, BusyPlaces
  <2>2. \A k \in L!Spinners : k # 1 => mask[k] = {}
    BY SMTT(30), <1>0, <2>1 DEF BusyInv, BusyPlaces
  <2>3. TurnsAre(turn)'
    BY <1>0, <1>1, <2>1, <2>2 DEF TurnsAre
  <2>. QED  BY <1>0, <1>1, <2>1, <2>2, <2>3 DEF BusyInv, BusyPlaces, L!BusyTypeOK
<1>4. CASE L!Bind
  <2>1. /\ place[1] = "bind" /\ i \in L!Spinners /\ mask[1] # {} /\ tid \in 0..i
        /\ (tid # 0 => mask[tid] # {}) /\ idle' = idle
        /\ mask' = IF tid = 0 THEN mask ELSE [mask EXCEPT ![tid] = {C[i]}]
        /\ \/ i = Len(C) /\ place' = <<"spin", i>> /\ tid' = 0
           \/ i < Len(C) /\ place' = <<"create", i + 1>> /\ tid' = tid
        /\ \A k \in L!Spinners : mask[k] # {} => k \in idle
        /\ \A k \in L!Spinners : k > i => mask[k] = {}
    BY <1>0, <1>4 DEF L!Bind, L!Bound, L!Arrive, BusyInv, BusyPlaces
  <2>2. L!BusyTypeOK'
    <3>1. mask' \in [L!Spinners -> SUBSET AllCores]
      BY <1>0, <2>1
    <3>2. place' \in {"off", "priority", "bind", "create", "spin"} \X Nat
      BY <1>0, <2>1
    <3>3. tid' \in {0} \cup L!Spinners /\ idle' \subseteq L!Spinners
      BY <1>0, <2>1
    <3>. QED  BY <3>1, <3>2, <3>3 DEF L!BusyTypeOK
  <2>3. \A k \in L!Spinners : mask'[k] = {} <=> mask[k] = {}
    <3>1. CASE tid = 0
      BY <2>1, <3>1
    <3>2. CASE tid # 0
      <4>1. mask' = [mask EXCEPT ![tid] = {C[i]}] /\ mask[tid] # {} /\ {C[i]} # {}
        BY <2>1, <3>2
      <4>. QED  BY <1>0, <4>1
    <3>. QED  BY <3>1, <3>2
  <2>4. BusyPlaces'
    <3>1. 1 \in L!Spinners /\ mask'[1] # {} /\ (tid # 0 => mask'[tid] # {})
      <4>1. 1 \in L!Spinners
        BY <1>0, <2>1
      <4>2. tid # 0 => tid \in L!Spinners
        BY <1>0
      <4>. QED  BY <2>1, <2>3, <4>1, <4>2
    <3>0. /\ \A k \in L!Spinners : mask'[k] # {} => k \in idle'
          /\ \A k \in L!Spinners : k > i => mask'[k] = {}
      BY <2>1, <2>3
    <3>2. CASE i = Len(C)
      <4>1. place'[1] = "spin" /\ place'[2] = i
        BY <1>0, <2>1, <3>2
      <4>. QED  BY <2>2, <2>1, <3>0, <3>1, <4>1 DEF BusyPlaces
    <3>3. CASE i < Len(C)
      <4>1. i + 1 \in L!Spinners /\ mask'[i + 1] = {} /\ i + 1 > 1 /\ tid \in 0..((i + 1) - 1)
        BY <1>0, <2>1, <2>3, <3>3
      <4>2. \A k \in L!Spinners : k > i + 1 => mask'[k] = {}
        BY <1>0, <2>1, <2>3
      <4>3. place'[1] = "create" /\ place'[2] = i + 1 /\ tid' = tid
        BY <1>0, <2>1, <3>3
      <4>. QED  BY <2>2, <3>0, <3>1, <4>1, <4>2, <4>3 DEF BusyPlaces
    <3>. QED  BY <2>1, <3>2, <3>3
  <2>5. CASE tid = 0
    <3>1. TurnsAre(turn)'
      BY <1>0, <1>1, <2>1, <2>5 DEF TurnsAre
    <3>. QED  BY <1>1, <2>4, <3>1 DEF BusyInv
  <2>6. CASE tid # 0
    <3>0. PICK new \in [L!Spinners -> 0..Len(C)] :
            new[tid] = i /\ \A k \in L!Spinners : k # tid => new[k] = turn[k]
      <4>1. /\ [turn EXCEPT ![tid] = i] \in [L!Spinners -> 0..Len(C)]
            /\ [turn EXCEPT ![tid] = i][tid] = i
            /\ \A k \in L!Spinners : k # tid => [turn EXCEPT ![tid] = i][k] = turn[k]
        BY <1>0, <1>1, <2>1, <2>6
      <4>. QED  BY <4>1
    <3>2. /\ mask' \in [L!Spinners -> SUBSET AllCores] /\ mask'[tid] # {}
          /\ \A k \in L!Spinners : k # tid => mask'[k] = mask[k]
      BY <1>0, <2>1, <2>6
    <3>3. mask'[tid] = {C[i]} /\ tid \in L!Spinners
      BY <1>0, <2>1, <2>6
    <3>4. /\ \A k \in L!Spinners : turn[k] < i
          /\ \A k \in L!Spinners : turn[k] # 0 => mask[k] = {C[turn[k]]}
          /\ \A k \in L!Spinners : mask[k] # {} /\ turn[k] = 0 => tid = k
          /\ \A k, l \in L!Spinners : turn[k] = turn[l] /\ k # l => turn[k] = 0
      BY <1>0, <1>1, <2>1 DEF TurnsAre
    <3>5. /\ place'[2] \in {i, i + 1} /\ place'[1] \in {"spin", "create"}
          /\ place'[1] = "create" => place'[2] = i + 1
      BY <2>1
    <3>6. TurnsAre(new)'
      <4>1. ASSUME NEW k \in L!Spinners
            PROVE  /\ new[k] # 0 => mask'[k] = {C[new[k]]} /\ new[k] <= place'[2]
                   /\ new[k] = place'[2] => place'[1] = "spin" \/ place'[2] = 0
                   /\ mask'[k] # {} => new[k] # 0
        <5>1. CASE k = tid
          BY <1>0, <2>1, <3>0, <3>3, <3>5, <5>1
        <5>2. CASE k # tid
          BY <1>0, <1>1, <2>1, <3>0, <3>2, <3>4, <3>5, <5>2
        <5>. QED  BY <5>1, <5>2
      <4>2. \A k, l \in L!Spinners : new[k] = new[l] /\ k # l => new[k] = 0
        BY <1>0, <1>1, <2>1, <3>0, <3>4
      <4>. QED  BY <4>1, <4>2 DEF TurnsAre
    <3>. QED  BY <2>4, <3>0, <3>6 DEF BusyInv
  <2>. QED  BY <2>5, <2>6
<1>5. CASE L!Create
  <2>1. /\ place[1] = "create" /\ i \in L!Spinners /\ i > 1 /\ mask[1] # {} /\ mask[i] = {}
        /\ mask' = [mask EXCEPT ![i] = mask[1]] /\ 1 \in idle
        /\ idle' = idle \cup {i} /\ tid' = i /\ place' = <<"bind", i>>
        /\ \A k \in L!Spinners : mask[k] # {} => k \in idle
        /\ \A k \in L!Spinners : k > i => mask[k] = {}
    <3>1. /\ place[1] = "create" /\ mask' = [mask EXCEPT ![i] = mask[1]] /\ tid' = i
          /\ place' = <<"bind", i>> /\ idle' = IF 1 \in idle THEN idle \cup {i} ELSE idle
      BY <1>5 DEF L!Create, L!Arrive
    <3>2. /\ i \in L!Spinners /\ i > 1 /\ mask[1] # {} /\ mask[i] = {}
          /\ \A k \in L!Spinners : mask[k] # {} => k \in idle
          /\ \A k \in L!Spinners : k > i => mask[k] = {}
      BY <3>1 DEF BusyInv, BusyPlaces
    <3>3. 1 \in L!Spinners
      BY <1>0, <3>2
    <3>. QED  BY <3>1, <3>2, <3>3
  <2>2. TurnsAre(turn)'
    <3>1. \A k \in L!Spinners : k # i => mask'[k] = mask[k]
      BY <1>0, <2>1
    <3>2. turn[i] = 0
      <4>1. turn[i] # 0 => mask[i] = {C[turn[i]]}
        BY <1>1, <2>1 DEF TurnsAre
      <4>. QED  BY <2>1, <4>1
    <3>3. ASSUME NEW k \in L!Spinners
           PROVE  turn[k] < i
      <4>1. turn[k] # i /\ (turn[k] # 0 => turn[k] <= i)
        BY <1>1, <2>1 DEF TurnsAre
      <4>2. turn[k] \in Nat
        BY <1>0, <1>1
      <4>. QED  BY <1>0, <2>1, <4>1, <4>2
    <3>. QED  BY <1>0, <1>1, <2>1, <3>1, <3>2, <3>3 DEF TurnsAre
  <2>3. mask' \in [L!Spinners -> SUBSET AllCores]
    BY <1>0, <2>1
  <2>4. mask'[i] = mask[1] /\ \A k \in L!Spinners : k # i => mask'[k] = mask[k]
    BY <1>0, <2>1
  <2>5. BusyPlaces'
    BY <1>0, <2>1, <2>3, <2>4 DEF BusyPlaces, L!BusyTypeOK
  <2>. QED  BY <1>1, <2>2, <2>5 DEF BusyInv
<1>6. CASE L!CreateFails
  <2>1. /\ place[1] = "create" /\ i \in L!Spinners /\ i > 1 /\ mask[1] # {}
        /\ tid \in 0..(i - 1) /\ (tid # 0 => mask[tid] # {}) /\ tid' \in {tid, 0, 1}
        /\ place' = <<"bind", i>> /\ mask' = mask /\ idle' = idle
    BY <1>0, <1>6 DEF L!CreateFails, L!Arrive, BusyInv, BusyPlaces
  <2>2. TurnsAre(turn)'
    BY <1>0, <1>1, <2>1 DEF TurnsAre
  <2>. QED  BY <1>0, <1>1, <2>1, <2>2 DEF BusyInv, BusyPlaces, L!BusyTypeOK
<1>7. CASE L!SwitchOff
  BY <1>7, BusyOffNext
<1>8. CASE UNCHANGED inBusyloop
  <2>1. TurnsAre(turn)'
    BY <1>1, <1>8 DEF TurnsAre, inBusyloop
  <2>. QED  BY <1>1, <1>8, <2>1 DEF inBusyloop, BusyInv, BusyPlaces, L!BusyTypeOK
<1>. QED
  BY <1>2, <1>3, <1>4, <1>5, <1>6, <1>7, <1>8
     DEF BenchNext, HostStep, Follow, Sessions, GuestMoves, BusyMoves, L!BusyStep, benchVars

---------------------------------------------------------------------------
\* The invariant holds of every behaviour of the bench.
THEOREM Inductive == BenchSpec => []IInv
<1>1. BenchInit => IInv
  <2>1. Init => HostInv
    BY HostInit
  <2>2. BenchInit => BusyInv
    BY BusyOff DEF BenchInit, L!BusyInit
  <2>3. BenchInit => GuestInv
    <3>1. Watched \in Machines
      BY SizeAssumption DEF Watched, Machines
    <3>2. Init => machine[Watched] = "none" /\ main[Watched] = "none"
      BY <3>1 DEF Init
    <3>. QED
      BY <3>2 DEF BenchInit, GuestInv, SessionInv, FirstInv, Unknown, G!GuestInit, G!GuestTypeOK,
           G!Both, G!Quiet, G!States, G!Ends
  <2>. QED  BY <2>1, <2>2, <2>3 DEF BenchInit, IInv
<1>2. IInv /\ [BenchNext]_benchVars => IInv'
  BY BenchIsBenchRun, HostNext, GuestNext, BusyNext DEF IInv
<1>. QED  BY <1>1, <1>2, PTL DEF BenchSpec

\* On the host, a bench followed inside one of its machines is a bench: every
\* step of it is a step of BenchRun or leaves the host alone.
THEOREM BenchImplementsBenchRun == BenchSpec => Init /\ [][Next]_vars
<1>1. BenchInit => Init
  BY DEF BenchInit
<1>. QED  BY <1>1, BenchIsBenchRun, PTL DEF BenchSpec

\* Every variable of the host, the guest and the busyloop keeps its type.
THEOREM BenchTypes == BenchSpec => []BenchTypeOK
<1>1. IInv => BenchTypeOK
  BY DEF IInv, HostInv, GuestInv, SessionInv, BusyInv, BusyPlaces, BenchTypeOK
<1>. QED  BY <1>1, Inductive, PTL

\* Whatever is measured is measured together: as long as one main run goes on, the
\* background processes that do not end by themselves run and the machines whose
\* main run is over keep their waiter run.
THEOREM Together == BenchSpec => []MeasuredTogether
<1>1. IInv => MeasuredTogether
  <2>. SUFFICES ASSUME IInv, NEW m \in Machines, main[m] = "running"
                PROVE  /\ \A b \in Steady : bg[b] = "running"
                       /\ \A k \in Machines : waiter[k] # "killed" /\ machine[k] \in {"up", "down"}
    BY DEF MeasuredTogether
  <2>1. step \in {"launch"} \cup Measuring
    BY DEF IInv, HostInv, RunIs, Steps
  <2>2. ASSUME NEW b \in Steady
        PROVE  bg[b] = "running"
    BY <2>1, SteadyAssumption DEF IInv, HostInv, BackgroundIs, Going
  <2>3. ASSUME NEW k \in Machines
        PROVE  waiter[k] # "killed" /\ machine[k] \in {"up", "down"}
    BY <2>1 DEF IInv, HostInv, RunIs, MachineIs, Measuring, Ending
  <2>. QED  BY <2>2, <2>3
<1>. QED  BY <1>1, Inductive, PTL

\* A set in which any two are one has at most one element.
LEMMA AtMostOne ==
  ASSUME NEW S, \A i, k \in S : i = k
  PROVE  Cardinality(S) <= 1
<1>1. CASE S = {}
  BY <1>1, FS_EmptySet
<1>2. CASE S # {}
  <2>1. PICK i : S = {i}
    BY <1>2
  <2>2. Cardinality({i}) = 1
    BY FS_Singleton
  <2>. QED  BY <2>1, <2>2
<1>. QED  BY <1>1, <1>2

\* A machine never has two runs at a time, on the host or inside.
THEOREM OneRun == BenchSpec => []OneRunAtATime
<1>1. IInv => OneRunAtATime
  <2>. SUFFICES ASSUME IInv
                PROVE  OneRunAtATime
    OBVIOUS
  <2>1. ASSUME NEW m \in Machines
        PROVE  /\ main[m] = "running" => waiter[m] = "none"
               /\ waiter[m] # "none" <=> \E i \in 1..Len(waiters) : waiters[i] = m
    BY DEF IInv, HostInv, RunIs, WaitersOK
  <2>2. ASSUME NEW m \in Machines
        PROVE  Cardinality({i \in 1..Len(waiters) : waiters[i] = m}) <= 1
    <3>. DEFINE here == {i \in 1..Len(waiters) : waiters[i] = m}
    <3>1. \A i, k \in here : i = k
      BY DEF IInv, HostInv, WaitersOK
    <3>. QED  BY <3>1, AtMostOne
  <2>3. /\ session = "none" \/ (run = "over" /\ runtime # "end") => G!Quiet
        /\ session = "main" => main[Watched] = "running"
    BY DEF IInv, GuestInv, SessionInv
  <2>. QED  BY <2>1, <2>2, <2>3 DEF OneRunAtATime, OneRunEach
<1>. QED  BY <1>1, Inductive, PTL

\* What terminate_machines copies and post_terminate deals with is written by
\* nobody any more.
THEOREM Collection == BenchSpec => []QuietWhenCollected
<1>1. IInv => QuietWhenCollected
  <2>. SUFFICES ASSUME IInv,
                       \/ \E m \in Machines : machine[m] \in {"copied", "off"}
                       \/ \E b \in Bgprocs : bg[b] = "posted"
                PROVE  /\ \A m \in Machines : main[m] = "over" /\ waiter[m] = "killed"
                       /\ \A b \in Bgprocs : bg[b] \in {"over", "posted"}
    BY DEF QuietWhenCollected
  <2>1. step \in {"collect", "post", "save", "end"}
    <3>1. CASE \E m \in Machines : machine[m] \in {"copied", "off"}
      BY <3>1 DEF IInv, HostInv, MachineIs, Steps, Preparing, Measuring, Ending
    <3>2. CASE \E b \in Bgprocs : bg[b] = "posted"
      <4>1. PICK b \in Bgprocs : bg[b] = "posted"
        BY <3>2
      <4>2. BackgroundIs(b) /\ step \in Steps
        BY DEF IInv, HostInv
      <4>. QED  BY <4>1, <4>2 DEF BackgroundIs, Going, Steps, Preparing, Measuring, Ending
    <3>. QED  BY <3>1, <3>2
  <2>2. ASSUME NEW m \in Machines
        PROVE  main[m] = "over" /\ waiter[m] = "killed"
    BY <2>1 DEF IInv, HostInv, RunIs, Ending
  <2>3. ASSUME NEW b \in Bgprocs
        PROVE  bg[b] \in {"over", "posted"}
    BY <2>1 DEF IInv, HostInv, BackgroundIs
  <2>. QED  BY <2>2, <2>3
<1>. QED  BY <1>1, Inductive, PTL

\* The first run of the main session cannot be broken: when the host holds the main
\* run of a machine that is up for over, the report of neither of its monitors was
\* missed by its `wait` or cut by a kill.
THEOREM FirstRun == BenchSpec => []FirstRunUnbroken
<1>1. IInv => FirstRunUnbroken
  BY DEF IInv, GuestInv, FirstInv, FirstRunUnbroken, Up, Whole
<1>. QED  BY <1>1, Inductive, PTL

\* Once it spins, the busyloop has every thread on a core of the command line, on
\* one of its own unless the command line names the core twice.
THEOREM Busy == BenchSpec => []KeptBusy
<1>1. IInv => KeptBusy
  <2>. DEFINE C == Busyloops[1]
  <2>. SUFFICES ASSUME IInv, place[1] = "spin", NEW i \in L!Spinners, mask[i] # {}
                PROVE  /\ i \in idle
                       /\ \E c \in L!Spinners : mask[i] = {C[c]}
                       /\ \A k \in L!Spinners \ {i} : mask[k] = mask[i] =>
                            \E c, d \in L!Spinners :
                              c # d /\ mask[i] = {C[c]} /\ mask[k] = {C[d]}
    BY DEF KeptBusy, L!SpreadOut
  <2>1. i \in idle
    BY DEF IInv, BusyInv, BusyPlaces
  <2>2. PICK turn \in [L!Spinners -> 0..Len(C)] : TurnsAre(turn)
    BY DEF IInv, BusyInv
  <2>3. ASSUME NEW k \in L!Spinners, mask[k] # {}
        PROVE  turn[k] \in L!Spinners /\ turn[k] # 0 /\ mask[k] = {C[turn[k]]}
    <3>1. turn[k] # 0 /\ mask[k] = {C[turn[k]]}
      BY <2>2, <2>3 DEF TurnsAre
    <3>2. turn[k] \in 0..Len(C) /\ Len(C) \in Nat
      BY <2>2, BusyloopAssumption
    <3>. QED  BY <3>1, <3>2 DEF L!Spinners
  <2>4. ASSUME NEW k \in L!Spinners \ {i}, mask[k] = mask[i]
        PROVE  \E c, d \in L!Spinners : c # d /\ mask[i] = {C[c]} /\ mask[k] = {C[d]}
    <3>1. turn[k] # turn[i]
      BY <2>2, <2>3, <2>4 DEF TurnsAre
    <3>. QED  BY <2>3, <2>4, <3>1
  <2>. QED  BY <2>1, <2>3, <2>4
<1>. QED  BY <1>1, Inductive, PTL

=============================================================================
