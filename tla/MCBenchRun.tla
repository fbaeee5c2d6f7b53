----------------------------- MODULE MCBenchRun -----------------------------
(* Finite instances of BenchRun. *)
EXTENDS BenchRun

ThreeSizes == <<16, 32, 8>>
NoBusyloop == <<<<>>, <<>>, <<>>>>

=============================================================================
