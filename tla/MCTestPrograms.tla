--------------------------- MODULE MCTestPrograms ---------------------------
(* Finite instances of TestPrograms. *)
EXTENDS TestPrograms, TLC

CONSTANTS main, t1, t2, t3, m1, ca, cb

\* A free application: two threads wait, one of them with an abstime that never
\* comes, and two rouse them; or two threads sleep and nobody signals.
Roles ==
  t1 :> {"wait"} @@ t2 :> {"timedwait", "signal"} @@ t3 :> {"signal", "broadcast"}
    @@ main :> {}
Sleep == {"timedwait", "timeout"}
Sleepers == t1 :> Sleep @@ t2 :> Sleep @@ t3 :> {} @@ main :> {}
Applications == {Roles, Sleepers, [t \in Threads |-> Everything]}

TestLoads ==
  {[program |-> p, iter |-> 1, room |-> 1] : p \in {"free", "main"}}
    \cup [program : {"signal"}, iter : {2}, room : {1}]
    \cup [program : {"broadcast"}, iter : {1, 2}, room : {0}]
    \cup [program : {"mutex"}, iter : {0, 2}, room : {0}]

=============================================================================
