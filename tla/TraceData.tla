----------------------------- MODULE TraceData -----------------------------
(***************************************************************************)
(* A trace as the tracer writes it (orchestrator/tracer.py, to_dict) and   *)
(* what is computed from it: the tracer's timing analysis and the          *)
(* viewer's events, broadcast steps and statistics                         *)
(* (workbench/trace_loader.py).                                            *)
(*                                                                         *)
(* A trace is [packets, tx]: the packets in the order of first_seen_at,    *)
(* and per transmission its sender and the instants it starts and ends. A  *)
(* packet is [type, first, seen, flood, hops, collisions, halfduplex], a   *)
(* record of the last three [t, sender, receiver, tx], with the            *)
(* interferer's or blocker's transmission in other.                        *)
(***************************************************************************)
EXTENDS Naturals, Sequences, FiniteSets, FiniteSetsExt, Functions

CONSTANTS
    NoTx        \* the tx_id of a record without one

\* The places of the records of a kind, and the record at a place.
Places(tr, field) == UNION {{i} \X DOMAIN tr.packets[i][field] : i \in DOMAIN tr.packets}
Record(tr, field, x) == tr.packets[x[1]][field][x[2]]

-----------------------------------------------------------------------------
(* tracer.py *)

\* compute_relay_delays: for every transmission of a packet that somebody
\* heard, and whose sender had heard the packet before, the time in between.
FirstRx(p, n) == Min({p.hops[h].t : h \in {k \in DOMAIN p.hops : p.hops[k].receiver = n}})

Receivers(p) == {h.receiver : h \in Range(p.hops)}
TxIds(p) == {h.tx : h \in Range(p.hops)} \ {NoTx}

RelayDelays(tr) ==
    {d \in (DOMAIN tr.packets) \X (DOMAIN tr.tx) :
        LET p == tr.packets[d[1]]
            n == tr.tx[d[2]].sender
        IN /\ d[2] \in TxIds(p)
           /\ n \in Receivers(p) /\ n # p.first
           /\ tr.tx[d[2]].start >= FirstRx(p, n)}

\* The airtime of the channel: each transmission once, however many heard it.
UniqueTx(tr) == UNION {TxIds(p) : p \in Range(tr.packets)}

\* is_flood packets with hops: the time from the first sight to the last hop.
FloodSpan(p) == Max({h.t : h \in Range(p.hops)}) - p.seen
FloodProps(tr) == {i \in DOMAIN tr.packets :
    LET p == tr.packets[i] IN p.flood /\ p.hops # <<>> /\ FloodSpan(p) > 0}

-----------------------------------------------------------------------------
(* trace_loader.py *)

\* flatten_events
Events(tr) ==
    LET Of(kind, field) ==
            UNION {{[kind |-> kind, t |-> r.t, idx |-> i, sender |-> r.sender,
                     receiver |-> r.receiver, tx |-> r.tx]
                        : r \in Range(tr.packets[i][field])} : i \in DOMAIN tr.packets}
    IN Of("hop", "hops") \cup Of("collision", "collisions") \cup Of("halfduplex", "halfduplex")

\* broadcast_steps: the hops of one transmission make a step, in the order in
\* which the transmissions appear; a hop without tx_id is a step of its own. A
\* step goes by its first hop.
SameStep_noKey(p, i, j) == p.hops[i].tx = p.hops[j].tx
SameStep(p, i, j) == i = j \/ (p.hops[i].tx = p.hops[j].tx /\ p.hops[i].tx # NoTx)

Leads(p) == {i \in DOMAIN p.hops : \A j \in 1 .. i - 1 : ~SameStep(p, j, i)}
Steps(p) == [i \in Leads(p) |-> {j \in DOMAIN p.hops : SameStep(p, i, j)}]

(* The statistics count packets and records in loops; a count is given as  *)
(* the set of the packets or records at which it is raised.                *)

\* compute_node_trace_stats
Sends(p, n) == \E h \in Range(p.hops) : h.sender = n
Transits(p, n) == Sends(p, n) /\ n # p.first

\* A packet counts once for a node at either end: at its first hop that has the
\* node there (senders_seen, receivers_seen).
Counted_every(tr, end, n) == {x \in Places(tr, "hops") : Record(tr, "hops", x)[end] = n}
Counted(tr, end, n) ==
    {x \in Places(tr, "hops") :
        /\ Record(tr, "hops", x)[end] = n
        /\ \A j \in 1 .. x[2] - 1 : Record(tr, "hops", <<x[1], j>>)[end] # n}

NodeStats(tr, N) ==
    LET Where(P(_)) == {i \in DOMAIN tr.packets : P(tr.packets[i])}
        Lost(field, n) == {x \in Places(tr, field) : Record(tr, field, x).receiver = n}
    IN [n \in N |->
         [tx |-> Counted(tr, "sender", n),
          rx |-> Counted(tr, "receiver", n),
          originated |-> Where(LAMBDA p : p.first = n),
          transited |-> Where(LAMBDA p : Transits(p, n)),
          collisions |-> Lost("collisions", n),
          halfduplex |-> Lost("halfduplex", n)]]

\* compute_edge_trace_stats: per unordered pair of nodes
Between(tr, field, e) ==
    {x \in Places(tr, field) : LET r == Record(tr, field, x) IN {r.sender, r.receiver} = e}

EdgeStats(tr, e) ==
    [hops |-> Between(tr, "hops", e), collisions |-> Between(tr, "collisions", e),
     halfduplex |-> Between(tr, "halfduplex", e),
     packets |-> {x[1] : x \in Between(tr, "hops", e)}]

\* compute_trace_stats
Types(tr) == {p.type : p \in Range(tr.packets)}

TraceStats(tr) ==
    LET OfType(y) == {i \in DOMAIN tr.packets : tr.packets[i].type = y}
        Typed(field, y) == {x \in Places(tr, field) : tr.packets[x[1]].type = y}
    IN [packets |-> DOMAIN tr.packets,
        flood |-> {i \in DOMAIN tr.packets : tr.packets[i].flood},
        hops |-> Places(tr, "hops"),
        collisions |-> Places(tr, "collisions"),
        halfduplex |-> Places(tr, "halfduplex"),
        byType |-> [y \in Types(tr) |->
                      [count |-> OfType(y),
                       hops |-> Typed("hops", y),
                       most |-> Max({Len(tr.packets[i].hops) : i \in OfType(y)}),
                       collisions |-> Typed("collisions", y)]]]
=============================================================================
