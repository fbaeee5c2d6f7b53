------------------------------- MODULE MCBench -------------------------------
(* Finite instances of Bench. *)
EXTENDS Bench

TwoSizes == <<16, 32>>
TwoThreads == <<<<0, 1>>, <<>>>>

=============================================================================
