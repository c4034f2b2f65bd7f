------------------------------ MODULE MCSynch ------------------------------
(* Two locks, the first of them with two condition variables. *)
EXTENDS Synch, TLC

CONSTANTS l1, l2, c1, c2

MCSema == Lock \cup Thread
MClockOf == [c \in Cond |-> l1]
MCSymmetry == Permutations(Thread)
=============================================================================
