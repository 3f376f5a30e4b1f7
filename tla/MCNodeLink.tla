----------------------------- MODULE MCNodeLink -----------------------------
(* NodeLink on two nodes that hear each other.                             *)
EXTENDS NodeLink

CONSTANTS a, b

Everybody == [n \in Node |-> Node \ {n}]
=============================================================================
