---------------------------- MODULE MCWorkbench ----------------------------
(* One session on a topology of two nodes and an edge, a third name to add. *)
EXTENDS Workbench

CONSTANTS alice, bob, carol, origin, here

TwoNodes == [x \in {alice, bob} |-> here]
OneEdge == {<<alice, bob>>}
Circle == [x \in {alice, bob, carol} |-> here]
=============================================================================
