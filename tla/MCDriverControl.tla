-------------------------- MODULE MCDriverControl --------------------------
EXTENDS DriverControl, TLC

CONSTANTS d1, d2, d3, n1, n2

\* d2 gets the bus address which d1 had.
MCName == d1 :> n1 @@ d2 :> n1 @@ d3 :> n2

ClientSymmetry == Permutations(Clients)
=============================================================================
