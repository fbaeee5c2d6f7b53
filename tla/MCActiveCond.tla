---------------------------- MODULE MCActiveCond ----------------------------
(* Finite instances of ActiveCond. *)
EXTENDS ActiveCond, TLC

CONSTANTS t1, t2, t3, m1, m2, c1

Everybody(calls) == [t \in Threads |-> calls]

Signalled == {Everybody({"wait", "signal", "broadcast"})}
Broadcasted == {Everybody({"wait", "broadcast"})}
TimedSignalled == {Everybody({"timedwait", "timeout", "signal"})}

\* Or nobody signals, and timed waits are sleeps.
SignalledOrSleeps == Signalled \cup {Everybody({"timedwait", "timeout"})}

Symmetry == {f @@ g : f \in Permutations(Threads), g \in Permutations(Mutexes)}

=============================================================================
