------------------------------ MODULE SpinLock ------------------------------
(***************************************************************************)
(* What the users of a struct queue expect of queue_acquire and            *)
(* queue_release: callers are served one at a time, in the order in which  *)
(* they came.  The other modules use a queue's lock in this form.          *)
(***************************************************************************)
EXTENDS Sequences

CONSTANT Threads

VARIABLES
  line,    \* the threads that came, in order
  inside   \* those that are in the critical section

lockVars == <<line, inside>>

LockInit == line = <<>> /\ inside = {}

Come(t) ==
  /\ \A i \in DOMAIN line : line[i] # t
  /\ line' = Append(line, t)
  /\ UNCHANGED inside

Enter(t) ==
  /\ line # <<>>
  /\ t = Head(line)
  /\ t \notin inside
  /\ inside' = inside \cup {t}
  /\ UNCHANGED line

Leave(t) ==
  /\ t \in inside
  /\ inside' = inside \ {t}
  /\ line' = Tail(line)

LockNext == \E t \in Threads : Come(t) \/ Enter(t) \/ Leave(t)

LockSpec == LockInit /\ [][LockNext]_lockVars

=============================================================================
