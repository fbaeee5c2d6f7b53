-------------------------------- MODULE Guest --------------------------------
(***************************************************************************)
(* A machine under a bench: the session that runs a <benchset>-work.sh     *)
(* with runtime.sh in it, the application under rusage, and the two        *)
(* monitors of each run, soft-disk and soft-network.  runtime.sh makes one *)
(* whole run, then goes on with runs in a group of processes that it kills *)
(* when the time is over.  The session is an ssh without a terminal: it    *)
(* lasts until no process has its standard error open.                     *)
(***************************************************************************)
EXTENDS Naturals

VARIABLES
  session,  \* "main", the main run, "waiter", a waiter run, or "none"
  runtime,  \* where runtime.sh is: its first run, its sleep, or the end
  run,      \* where _run_application is: in the application, in a kill, in
            \* the wait, or over
  monitor,  \* the state of the two monitors of the run
  late,     \* is the deadline of the session over?
  first     \* auxiliary: the monitors when the first run of the main session
            \* ended

guestVars == <<session, runtime, run, monitor, late, first>>

Monitors == {"disk", "network"}

\* A monitor starts until its handler is installed; stops while it handles the
\* signal, soft-disk with a sync; and reads the counters again.  It may end with
\* its report, or for a signal: that of its own run, which came too early, or
\* that of the group.
Ends == {"reported", "early", "cut"}
States == {"none", "starting", "ready", "stopping", "reading", "stuck"} \cup Ends

Both(state) == [x \in Monitors |-> state]

GuestInit ==
  /\ session = "none" /\ runtime = "end" /\ run = "over"
  /\ monitor = Both("none")
  /\ late = FALSE
  /\ first = Both("none")

Quiet == \A x \in Monitors : monitor[x] \in Ends \cup {"none"}

---------------------------------------------------------------------------
\* _run_application

StartRun == run' = "app" /\ monitor' = Both("starting")

\* The application ends, and rusage, which waited for it, reports.
ApplicationEnds ==
  /\ run = "app"
  /\ run' = "kill disk"
  /\ UNCHANGED <<session, runtime, monitor, late, first>>

\* What a TERM does to a monitor.
Signalled(x, end) ==
  CASE monitor[x] = "starting" -> end
    [] monitor[x] = "ready" -> IF x = "disk" THEN "stopping" ELSE "reading"
    [] OTHER -> monitor[x]

KillMonitor(x, from, to) ==
  /\ run = from
  /\ run' = to
  /\ monitor' = [monitor EXCEPT ![x] = Signalled(x, "early")]
  /\ UNCHANGED <<session, runtime, late, first>>

Record(result) ==
  first' = IF session = "main" /\ first = Both("none") THEN result ELSE first

\* Mutant: the run does not wait for its monitors.
RunEndsHastily ==
  /\ run = "wait"
  /\ run' = "over"
  /\ Record(monitor)
  /\ UNCHANGED <<session, runtime, monitor, late>>

\* The `wait`.
RunEnds ==
  /\ run = "wait" /\ Quiet
  /\ run' = "over"
  /\ Record(monitor)
  /\ UNCHANGED <<session, runtime, monitor, late>>

---------------------------------------------------------------------------
\* runtime.sh

\* Mutant: the first run is in the group as well.
OpenInGroup(kind) ==
  /\ session = "none"
  /\ session' = kind
  /\ runtime' = "sleep"
  /\ late' = FALSE
  /\ StartRun
  /\ UNCHANGED first

\* The session and its first run, which begins with the deadline.
Open(kind) ==
  /\ session = "none"
  /\ session' = kind
  /\ runtime' = "first"
  /\ late' = FALSE
  /\ StartRun
  /\ UNCHANGED first

DeadlinePasses ==
  /\ session # "none" /\ ~late
  /\ late' = TRUE
  /\ UNCHANGED <<session, runtime, run, monitor, first>>

\* Is there time for additional runs?
TestDeadline ==
  /\ runtime = "first" /\ run = "over"
  /\ runtime' = IF late THEN "end" ELSE "sleep"
  /\ UNCHANGED <<session, run, monitor, late, first>>

\* A turn of the loop of the group.
NextRun ==
  /\ runtime = "sleep" /\ run = "over"
  /\ StartRun
  /\ UNCHANGED <<session, runtime, late, first>>

\* Mutant: only the loop is killed, not its group.
KillLoop ==
  /\ runtime = "sleep" /\ late
  /\ runtime' = "end" /\ run' = "over"
  /\ UNCHANGED <<session, monitor, late, first>>

\* The clock is read again to compute the sleep, which ends at the deadline or,
\* if that has passed, at once: in both cases the group is killed after it, the
\* loop, the application, the monitors and the processes they started.  One that
\* already handles a signal ignores this one, but the kill may hit the process it
\* reads the counters from: soft-network then reports nothing, and soft-disk
\* looks for the first line of its iostat for ever.
KillGroup ==
  /\ runtime = "sleep" /\ late
  /\ runtime' = "end"
  /\ run' = "over"
  /\ \E hit \in SUBSET {x \in Monitors : monitor[x] = "reading"} :
       monitor' = [x \in Monitors |->
         IF x \in hit THEN IF x = "disk" THEN "stuck" ELSE "cut"
         ELSE Signalled(x, "cut")]
  /\ Record(Both("cut"))
  /\ UNCHANGED <<session, late>>

\* The end of the session.
Close ==
  /\ session # "none" /\ runtime = "end" /\ run = "over" /\ Quiet
  /\ session' = "none"
  /\ UNCHANGED <<runtime, run, monitor, late, first>>

---------------------------------------------------------------------------
\* soft-disk, soft-network

MonitorMoves(x, from, to) ==
  /\ monitor[x] = from
  /\ monitor' = [monitor EXCEPT ![x] = to]
  /\ UNCHANGED <<session, runtime, run, late, first>>

\* The sync, the first reading of the counters and the handlers; then, once the
\* signal is there, the other sync, the other reading and the report.
MonitorStep(x) ==
  \/ MonitorMoves(x, "starting", "ready")
  \/ MonitorMoves(x, "stopping", "reading")
  \/ MonitorMoves(x, "reading", "reported")

\* The machine is switched off under whatever still runs.
SwitchOff ==
  /\ session' = "none" /\ runtime' = "end" /\ run' = "over"
  /\ monitor' = Both("none")
  /\ UNCHANGED <<late, first>>

ShellStep ==
  \/ KillMonitor("disk", "kill disk", "kill network")
  \/ KillMonitor("network", "kill network", "wait")
  \/ RunEnds \/ NextRun

GuestStep ==
  ApplicationEnds \/ ShellStep \/ TestDeadline \/ KillGroup \/ DeadlinePasses
    \/ \E x \in Monitors : MonitorStep(x)

\* Every process of the machine is scheduled, applications end, time passes.
GuestFairness ==
  /\ WF_guestVars(ApplicationEnds) /\ WF_guestVars(ShellStep)
  /\ WF_guestVars(TestDeadline) /\ WF_guestVars(KillGroup)
  /\ WF_guestVars(DeadlinePasses)
  /\ \A x \in Monitors : WF_guestVars(MonitorStep(x))

---------------------------------------------------------------------------
GuestTypeOK ==
  /\ session \in {"none", "main", "waiter"}
  /\ runtime \in {"first", "sleep", "end"}
  /\ run \in {"app", "kill disk", "kill network", "wait", "over"}
  /\ monitor \in [Monitors -> States]
  /\ late \in BOOLEAN
  /\ first \in [Monitors -> States]

=============================================================================
