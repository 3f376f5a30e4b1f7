---------------------------- MODULE MCRouteArray ----------------------------
(* Small tables for RouteArray.                                            *)
EXTENDS RouteArray, TLC

CONSTANTS d1, d2, d3, d4

\* No destination differs from another.
Symmetry == Permutations(Dest)
=============================================================================
