-------------------------- MODULE MCActiveBarrier --------------------------
(* Finite instances of ActiveBarrier. *)
EXTENDS ActiveBarrier, TLC

CONSTANTS t1, t2, t3, t4, t5, m1, b1

=============================================================================
