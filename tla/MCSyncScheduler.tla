---------------------------- MODULE MCSyncScheduler ----------------------------
(* Instance of SyncScheduler for TLC: one config of each of two kinds at most. *)
EXTENDS SyncScheduler, TLC

CONSTANTS p1, p2, c1, t1, t2

\* The proxy queue is the first one drained.
MCKindOf == [c \in Configs |-> 1]

Symmetry == Permutations(Callers)
================================================================================
