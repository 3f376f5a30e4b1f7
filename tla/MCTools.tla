------------------------------- MODULE MCTools --------------------------------
(* The two tools that make a topology file of a real network, one of which *)
(* the user runs.                                                          *)
EXTENDS ImportTopology, FetchTopology

VARIABLE tool

vars == <<tool, ivars, fvars>>

Init == tool \in {"import", "fetch"} /\ ImportInit /\ FetchInit

Next ==
    \/ tool = "import" /\ ImportNext /\ UNCHANGED <<tool, fvars>>
    \/ tool = "fetch" /\ FetchNext /\ UNCHANGED <<tool, ivars>>

Spec == Init /\ [][Next]_vars

-----------------------------------------------------------------------------
(* Four repeaters on a line, the caps scaled to two links and one good     *)
(* link, and measurements that disagree: two of one direction by different *)
(* means, both directions of one pair, one direction only of another.      *)
PlaceOf == 1 :> 0 @@ 2 :> 1 @@ 3 :> 3 @@ 4 :> 3
RankOf == [neighbors |-> 3, trace |-> 2, inferred |-> 1]
Edge(x, y, s, n) == [from |-> x, to |-> y, source |-> s, snr |-> n]
SomeEdges == {Edge(1, 2, "inferred", 9), Edge(1, 2, "neighbors", -5), Edge(2, 1, "trace", 3),
              Edge(3, 2, "trace", 4), Edge(4, 2, "neighbors", -9)}
Levels == {-14, -8, 2}
Floor == -12
Quiet == -6
\* Two places of one cell, as far apart as a cell is wide, one of the cell
\* beside and one far off.
Spots == {-1, 1, 2, 7}
TwoNames == <<"alice", "bob">>
=============================================================================
