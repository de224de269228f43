------------------------- MODULE MCProcessOwnership -------------------------
(* Model values for the configurations of ProcessOwnership. *)
EXTENDS ProcessOwnership, TLC

CONSTANTS i1, i2, i3, i4, q1, q2, q3

MCThreeIds == {i1, i2, i3}
MCFourIds  == {i1, i2, i3, i4}
MCTwoPids  == {q1, q2}
MCThreePids == {q1, q2, q3}

(* Of lumilake, flowmesh and gateway, the last two: one with workers, and   *)
(* the one that must outlive it.                                            *)
MCWriters == <<"flowmesh", "gateway">>

Symmetry == Permutations(Id) \cup Permutations(Pid)
=============================================================================
