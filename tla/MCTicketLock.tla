---------------------------- MODULE MCTicketLock ----------------------------
(* Finite instances of TicketLock: as many words as threads, so that the    *)
(* counters wrap and every word can be in use at once.                      *)
EXTENDS TicketLock, TLC

CONSTANTS t1, t2, t3, t4

=============================================================================
