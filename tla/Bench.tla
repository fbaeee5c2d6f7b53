-------------------------------- MODULE Bench --------------------------------
(***************************************************************************)
(* A whole bench: BenchRun on the host, and one of the machines in detail, *)
(* its sessions and monitors (Guest) and a busyloop (Busyloop).  That      *)
(* machine is the last one, where all busyloops are started.               *)
(***************************************************************************)
EXTENDS BenchRun

CONSTANTS AllCores, Refused

ASSUME BusyloopAssumption ==
  /\ Busyloops[1] \in Seq(AllCores)
  /\ Refused \subseteq 2..Len(Busyloops[1])

Watched == N

VARIABLES
  session, runtime, run, monitor, late, first,   \* of the guest
  place, mask, idle, tid                         \* of its busyloop

G == INSTANCE Guest
L == INSTANCE Busyloop WITH Cores <- Busyloops[1]

inGuest == <<session, runtime, run, monitor, late, first>>
inBusyloop == <<place, mask, idle, tid>>
benchVars == <<vars, inGuest, inBusyloop>>
Up == machine[Watched] = "up"

BenchInit == Init /\ G!GuestInit /\ L!BusyInit

\* The machine is switched off with all that runs in it.
Follow ==
  IF machine[Watched] # "off" /\ machine'[Watched] = "off"
  THEN G!SwitchOff /\ L!SwitchOff
  ELSE UNCHANGED <<inGuest, inBusyloop>>

HostStep ==
  /\ \/ Script
     \/ \E m \in Machines : Helper(m) \/ (m # Watched /\ MainEnds(m))
     \/ \E b \in Bgprocs : BackgroundEnds(b)
  /\ Follow

\* ssh opens a session: for the main run, or for a turn of the waiter's loop.
OpenMain == main[Watched] = "running" /\ Up /\ G!Open("main")
OpenWaiter == waiter[Watched] = "running" /\ Up /\ G!Open("waiter")

\* The main run is over with its session, or at once if the machine is down; a
\* waiter's session ends for nobody when its ssh has been killed.
MainCloses == session = "main" /\ G!Close /\ MainEnds(Watched)
MainFails == machine[Watched] = "down" /\ MainEnds(Watched) /\ UNCHANGED inGuest
WaiterCloses == session = "waiter" /\ G!Close /\ UNCHANGED vars

Sessions ==
  /\ \/ (OpenMain \/ OpenWaiter) /\ UNCHANGED vars
     \/ MainCloses \/ MainFails \/ WaiterCloses
  /\ UNCHANGED inBusyloop

GuestMoves == G!GuestStep /\ UNCHANGED <<vars, inBusyloop>>

BusyMoves ==
  /\ (busy # <<>> /\ Up /\ L!Start) \/ L!BusyStep
  /\ UNCHANGED <<vars, inGuest>>

BenchNext == HostStep \/ Sessions \/ GuestMoves \/ BusyMoves

\* The fairness of the host, of the guest's processes, of ssh.
BenchSpec ==
  /\ BenchInit /\ [][BenchNext]_benchVars
  /\ WF_benchVars(Script /\ Follow)
  /\ \A m \in Machines : WF_vars(Helper(m))
  /\ \A m \in Machines \ {Watched} : WF_vars(MainEnds(m))
  /\ \A b \in Bgprocs : WF_vars(bg[b] = "killed" /\ BackgroundEnds(b))
  /\ WF_benchVars(Sessions)
  /\ G!GuestFairness

---------------------------------------------------------------------------
\* Properties

\* Every variable of the three has its type.
BenchTypeOK == TypeOK /\ G!GuestTypeOK /\ L!BusyTypeOK

\* A machine has one run at a time, on the host and in the guest: no run starts
\* while a monitor of the run before it has not written its report, within a
\* session and from one session to the next.
OneRunAtATime ==
  /\ OneRunEach
  /\ session = "none" \/ (run = "over" /\ runtime # "end") => G!Quiet
  /\ session = "main" => main[Watched] = "running"

\* "Do the first, unbreakable run" (runtime.sh, line 35): when the host holds the
\* main run for over, its first run went to its end, and left the reports of both
\* monitors.  One is missing only if the run was over before the handler of its
\* monitor was installed: never because the run did not wait for it, and never
\* because it was cut.
FirstRunUnbroken ==
  main[Watched] = "over" /\ Up => \A x \in G!Monitors : first[x] \in {"reported", "early"}

\* The bench ends, unless the main run of a machine is held for ever by a soft-disk
\* that looks for a line of an iostat that was killed; the other machines are then
\* launched again for nothing.  Nothing else keeps it from ending: no monitor left
\* without its signal, no boot that fails, no two runs that end together.
BenchEnds ==
  \/ <>At("end")
  \/ <>[](/\ session = "main" /\ monitor["disk"] = "stuck"
         /\ \A m \in Machines \ {Watched} : waiter[m] # "none")

\* The busyloop keeps as many cores busy as it has threads.
KeptBusy == L!SpreadOut

=============================================================================
