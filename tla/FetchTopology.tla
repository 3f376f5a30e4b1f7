---------------------------- MODULE FetchTopology -----------------------------
(***************************************************************************)
(* build_topology of tools/fetch_topology.py: the snapshot of a live map   *)
(* (devices with a position, history edges between positions) becomes a    *)
(* topology file.  A history edge names positions, not devices, so each    *)
(* end is resolved: the device last read in the same cell of rounded       *)
(* coordinates, else the nearest one within the tolerance.  A position is  *)
(* a point of a line, in units finer than the cells; in the plane the      *)
(* width of a cell is its diagonal.                                        *)
(***************************************************************************)
EXTENDS Integers, Sequences, FiniteSets, SequencesExt

CONSTANTS
    Devices,         \* device ids of the snapshot
    Places,          \* where devices stand and edges end
    Cell,            \* width of the cells of rounding (5 decimals, about 1 m)
    Tolerance,       \* a device is near below this distance (100 m)
    MaxDistance,     \* max_distance_km
    Counts, MinCount,   \* counts of history edges; min_edge_count
    OnlyRelays,      \* --only-relays
    MaxHistory       \* bound: history edges

ASSUME FetchAssumption ==
    /\ Places \subseteq Int /\ Counts \subseteq Int /\ MinCount \in Int
    /\ Cell \in Nat \ {0} /\ Tolerance \in Nat /\ Cell < Tolerance
    /\ MaxDistance \in Nat

VARIABLES
    fStep,           \* the part of build_topology that runs
    met,             \* device ids read
    fixes,           \* coord_index: the nodes kept, with their places
    exact,           \* coord_exact: key of the rounded place -> device
    history,         \* history_edges, as far as they were read
    pairs,           \* seen_pairs
    edges            \* edges_raw

fvars == <<fStep, met, fixes, exact, history, pairs, edges>>

Gap(x, y) == IF x < y THEN y - x ELSE x - y

FetchInit ==
    /\ fStep = "devices" /\ met = {} /\ fixes = <<>> /\ exact = <<>>
    /\ history = <<>> /\ pairs = {} /\ edges = <<>>

-----------------------------------------------------------------------------
(* round(): the number of the nearest multiple of Cell, of the two nearest *)
(* the even one.                                                           *)
CoordKey(x) ==
    LET k == (2 * x + Cell) \div (2 * Cell)
        tie == (2 * x + Cell) % (2 * Cell) = 0
    IN  IF tie /\ k % 2 = 1 THEN k - 1 ELSE k

(* A device without a position, or none of the wanted role, is skipped.    *)
(* Of two devices in one cell only the later one is found by the key, both *)
(* by the search.                                                          *)
ReadDevice(d) ==
    /\ fStep = "devices" /\ d \notin met
    /\ met' = met \cup {d}
    /\ \/ UNCHANGED <<fixes, exact>>      \* no GPS fix
       \/ \E x \in Places, relay \in BOOLEAN :
            IF OnlyRelays /\ ~ relay THEN UNCHANGED <<fixes, exact>>
            ELSE /\ fixes' = Append(fixes, [id |-> d, at |-> x])
                 /\ exact' = [k \in DOMAIN exact \cup {CoordKey(x)} |->
                                IF k = CoordKey(x) THEN d ELSE exact[k]]
    /\ UNCHANGED <<fStep, history, pairs, edges>>

DevicesRead ==
    /\ fStep = "devices" /\ met = Devices
    /\ fStep' = "edges"
    /\ UNCHANGED <<met, fixes, exact, history, pairs, edges>>

-----------------------------------------------------------------------------
NoDevice == "none"

\* Mutant: any first device within the tolerance.
Resolve_first(x) ==
    LET is == {i \in DOMAIN fixes : Gap(x, fixes[i].at) < Tolerance}
    IN  IF is = {} THEN NoDevice
        ELSE fixes[CHOOSE i \in is : \A j \in is : i <= j].id

(* The first of the nearest nodes, when it is near enough.                 *)
Nearest(x) ==
    LET is == {i \in DOMAIN fixes : \A j \in DOMAIN fixes :
                    \/ Gap(x, fixes[i].at) < Gap(x, fixes[j].at)
                    \/ Gap(x, fixes[i].at) = Gap(x, fixes[j].at) /\ i <= j}
    IN  IF \E i \in is : Gap(x, fixes[i].at) < Tolerance
        THEN fixes[CHOOSE i \in is : TRUE].id ELSE NoDevice

(* A device in the cell of x is taken before any nearer one next door.     *)
Resolve(x) == IF CoordKey(x) \in DOMAIN exact THEN exact[CoordKey(x)] ELSE Nearest(x)

(* One history edge.  A pair seen before is skipped, and a pair counts as  *)
(* seen before its distance is checked.                                    *)
ReadHistory(h) ==
    /\ fStep = "edges" /\ Len(history) < MaxHistory
    /\ history' = Append(history, h)
    /\ LET p == Resolve(h.a)
           q == Resolve(h.b)
       IN  IF h.count < MinCount \/ NoDevice \in {p, q} \/ p = q \/ {p, q} \in pairs
           THEN UNCHANGED <<pairs, edges>>
           ELSE /\ pairs' = pairs \cup {{p, q}}
                /\ edges' = IF Gap(h.a, h.b) > MaxDistance THEN edges
                            ELSE Append(edges, [a |-> p, b |-> q, count |-> h.count])
    /\ UNCHANGED <<fStep, met, fixes, exact>>

(* sort() is stable: the most counted first.                               *)
Sorted(s) ==
    LET place(i) == Cardinality({j \in DOMAIN s :
                        \/ s[j].count > s[i].count
                        \/ s[j].count = s[i].count /\ j <= i})
    IN  [k \in DOMAIN s |-> s[CHOOSE i \in DOMAIN s : place(i) = k]]

Assemble ==
    /\ fStep = "edges"
    /\ fStep' = "done"
    /\ edges' = Sorted(edges)
    /\ UNCHANGED <<met, fixes, exact, history, pairs>>

FetchNext ==
    \/ \E d \in Devices : ReadDevice(d)
    \/ DevicesRead
    \/ \E x, y \in Places, n \in Counts : ReadHistory([a |-> x, b |-> y, count |-> n])
    \/ Assemble

-----------------------------------------------------------------------------
(* Properties.                                                             *)

\* d stands near x, and no device nearer by more than a cell.
CloseTo(d, x) ==
    \E i \in DOMAIN fixes :
        /\ fixes[i].id = d /\ Gap(x, fixes[i].at) < Tolerance
        /\ \A j \in DOMAIN fixes : Gap(x, fixes[i].at) <= Gap(x, fixes[j].at) + Cell

(* Every link was witnessed: a counted history edge in reach has its ends  *)
(* where the two nodes stand, each within the tolerance of its end and the *)
(* closest to it up to the width of a cell, the link bears the count of    *)
(* such an edge, and no pair has two links.  Up to a cell and no better:   *)
(* of the devices in the cell of the end the last read is taken, and one   *)
(* nearer to the end, there or in the cell beside, passed over.            *)
(* (fetch_topology.py:231-327: the devices found by the rounded key and    *)
(* those found by search come from two indices, filled as the devices are  *)
(* read and filtered.)                                                     *)
LinksWitnessed ==
    /\ \A e \in Range(edges) : \E h \in Range(history) :
         /\ h.count = e.count /\ h.count >= MinCount
         /\ Gap(h.a, h.b) <= MaxDistance
         /\ CloseTo(e.a, h.a) /\ CloseTo(e.b, h.b)
    /\ \A i, j \in DOMAIN edges :
         i # j => {edges[i].a, edges[i].b} # {edges[j].a, edges[j].b}
=============================================================================
