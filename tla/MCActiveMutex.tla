--------------------------- MODULE MCActiveMutex ---------------------------
(* Finite instances of ActiveMutex. *)
EXTENDS ActiveMutex, TLC

CONSTANTS t1, t2, t3, m1, m2

TwoRanks == m1 :> 1 @@ m2 :> 2

=============================================================================
