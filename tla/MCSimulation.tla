---------------------------- MODULE MCSimulation ----------------------------
(* A simulation small enough for TLC. *)
EXTENDS Simulation

\* Makers that take each other's identifiers, and agents of every kind.
SmallRosters == {<<"maker", "maker", "noise">>, <<"maker", "momentum", "noise">>}
\* As far below and above the price as noise goes.
Extremes == {-MaxDeviation, MaxDeviation}

\* No price computed from it is positive.
FarBelow == -50
=============================================================================
