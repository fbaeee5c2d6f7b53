--------------------------- MODULE MCChronometer ---------------------------
(* Finite instances of Chronometer. *)
EXTENDS Chronometer, TLC

CONSTANTS main, t1, t2

FewCalls == main :> 0 @@ t1 :> 2 @@ t2 :> 1

=============================================================================
