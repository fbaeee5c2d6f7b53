----------------------------- MODULE MCQueueUse -----------------------------
(* Finite instances of QueueUse. *)
EXTENDS QueueUse, TLC

CONSTANTS c1, c2, c3, c4, q1, q2, q3, q4

Symmetry == Permutations(Cells) \cup Permutations(Queues \ Conds)

=============================================================================
