--------------------------- MODULE MCRemoteHandoff ---------------------------
(* Instance of RemoteHandoff for TLC: two sessions of one profile. *)
EXTENDS RemoteHandoff, TLC

CONSTANTS p1, i1, i2

MCProfileOf == [s \in Sessions |-> p1]

Symmetry == Permutations(Slots)
==============================================================================
