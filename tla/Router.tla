------------------------------- MODULE Router -------------------------------
(***************************************************************************)
(* The orchestrator's packet router (orchestrator/router.py, PacketRouter) *)
(* with the channel register, the path tracer, the traffic metrics and the *)
(* adversarial filters it drives.                                          *)
(*                                                                         *)
(* Everything runs on one asyncio loop, so a coroutine is atomic between   *)
(* two awaits, and an action here is one such segment:                     *)
(*                                                                         *)
(*   OnTx       _on_tx up to the gather of the listen-before-talk notices  *)
(*   Notify     one notify_rx_start coroutine completes                    *)
(*   Spawn      the gather returns; one delivery task per neighbour        *)
(*   Suppress   a delivery task starts and a gate ends it                  *)
(*   Sleep      a delivery task starts and sleeps until the packet arrives *)
(*   Arrive     the task resumes (or had nothing to wait for) and settles  *)
(*   Drain      one poll of the replay drainer that finds something        *)
(*   Advance    the clock moves                                            *)
(*                                                                         *)
(* The configuration modelled is the one orchestrator/__main__.py builds:  *)
(* radio, channel and tracer are always there.                             *)
(***************************************************************************)
EXTENDS Channel, Sequences

CONSTANTS
    Packet,        \* wire images of packets
    Fp,            \* packet fingerprints
    Undecodable,   \* what packet_fingerprint is for bytes that do not decode
    Fingerprint,   \* [Packet -> Fp \cup {Undecodable}]
    Airtime,       \* [Packet -> Nat], ticks on the air
    Garbled,       \* wire images the bit flips of a corrupt adversary can give
    SnrThreshold,  \* SNR below which the spreading factor cannot demodulate
    Lossy,         \* links with loss > 0
    Adversary,     \* [Node -> AdversaryMode]
    ReplayDelay,   \* ticks a replay adversary holds a packet
    Retention,     \* ticks a transmission is kept after its end (5 s)
    MaxLate,       \* bound: ticks the event loop may run a due task late
    Clock,         \* bound: the instants at which nodes act
    MaxTx,         \* bound: transmissions
    MaxCapture,    \* bound: packets replay adversaries capture
    NoNode

AdversaryMode == {"none", "drop", "corrupt", "replay"}

ASSUME RouterAssumption ==
    /\ IsFiniteSet(Node)
    /\ NoNode \notin Node
    /\ Undecodable \notin Fp
    /\ Fingerprint \in [Packet -> Fp \cup {Undecodable}]
    /\ Airtime \in [Packet -> Nat]
    /\ Garbled \subseteq Packet
    /\ SnrThreshold \in Int
    /\ Lossy \subseteq Link
    /\ Adversary \in [Node -> AdversaryMode]
    /\ ReplayDelay \in Nat
    /\ Retention \in Nat
    /\ MaxLate \in Nat
    /\ Clock \subseteq Nat
    /\ MaxTx \in Nat
    /\ MaxCapture \in Nat

VARIABLES
    now,       \* loop.time()
    tx,        \* tracer._tx_events: the transmissions, tx_id = index
    active,    \* channel._active: ids of the transmissions still registered
    lbt,       \* per node, the tx_id whose _on_tx awaits the gather, or 0
    heard,     \* <<tx_id, node>>: the node was told rx_start
    tasks,     \* the delivery tasks (_deliver_to) that have not ended
    captured,  \* packets replay adversaries captured, in order
    buffer,    \* indices of captured still in a _replay_buffer
    first,     \* per fingerprint, the trace's first_sender, or NoNode
    trace,     \* hop, collision and halfduplex records of all the traces
    metrics    \* MetricsCollector counters

vars == <<now, tx, active, lbt, heard, tasks, captured, buffer, first, trace,
          metrics>>

-----------------------------------------------------------------------------
(* Types                                                                   *)

Counter == {"tx", "rx", "snr_drop", "link_loss", "adv_drop", "adv_replay",
            "adv_corrupt", "halfduplex", "collision"}

Transmission == [sender : Node, pkt : Packet, start : Nat, end : Nat]

Capture == [node : Node, pkt : Packet, at : Nat]

\* A call of _deliver_to: of transmission n, or of captured packet n (whose
\* tx_id, tx_start and tx_end arguments are None).  due: end of its sleep.
Delivery == [kind : {"tx", "replay"}, n : Nat, to : Node, pkt : Packet,
             stage : {"new", "asleep"}, due : Nat]

\* by: the tx_id of the interferer or blocker, 0 in a hop record.
Record == [is : {"hop", "collision", "halfduplex"}, kind : {"tx", "replay"},
           n : Nat, to : Node, fp : Fp, t : Nat, by : Nat]

TypeOK ==
    /\ now \in Nat
    /\ tx \in Seq(Transmission)
    /\ active \subseteq DOMAIN tx
    /\ lbt \in [Node -> {0} \cup DOMAIN tx]
    /\ heard \subseteq (DOMAIN tx) \X Node
    /\ tasks \subseteq Delivery
    /\ captured \in Seq(Capture)
    /\ buffer \subseteq DOMAIN captured
    /\ first \in [Fp -> Node \cup {NoNode}]
    /\ trace \subseteq Record
    /\ metrics \in [Counter -> Nat]

Init ==
    /\ now = 0
    /\ tx = << >>
    /\ active = {}
    /\ lbt = [s \in Node |-> 0]
    /\ heard = {}
    /\ tasks = {}
    /\ captured = << >>
    /\ buffer = {}
    /\ first = [f \in Fp |-> NoNode]
    /\ trace = {}
    /\ metrics = [c \in Counter |-> 0]

-----------------------------------------------------------------------------
(* Helpers                                                                 *)

\* The counters in S go up by one.
Bump(S) == metrics' = [c \in Counter |->
                          IF c \in S THEN metrics[c] + 1 ELSE metrics[c]]

Decodes(s, r) == Snr[<<s, r>>] >= SnrThreshold

\* The neighbours _on_tx notifies of the preamble of a packet.
Listeners(s, p) ==
    IF Airtime[p] > 0 THEN {r \in Neighbours(s) : Decodes(s, r)} ELSE {}

\* The delivery tasks of a broadcast by s, as created.
Deliveries(kind, n, s, p) ==
    {[kind |-> kind, n |-> n, to |-> r, pkt |-> p, stage |-> "new", due |-> 0] :
        r \in Neighbours(s)}

Sender(d) == IF d.kind = "tx" THEN tx[d.n].sender ELSE captured[d.n].node

\* Mutant: the delivery waits for the link's latency only.
DueTime_latency(d) == now + Latency[<<Sender(d), d.to>>]

\* When a task that passes the gates now may settle.
DueTime(d) ==
    (IF d.kind = "tx" THEN tx[d.n].end ELSE now) + Latency[<<Sender(d), d.to>>]

\* A trace for fp exists after this; record_tx and the defensive branches of
\* record_collision, record_halfduplex and record_rx.
TraceExists(fp, s) ==
    first' = IF fp # Undecodable /\ first[fp] = NoNode
             THEN [first EXCEPT ![fp] = s]
             ELSE first

-----------------------------------------------------------------------------
(* _on_tx                                                                  *)

\* A node transmits p.  What a node sends decodes: the firmware serialises it
\* from a packet structure.  The node's reader loop runs one _on_tx at a time.
OnTx(s, p) ==
    LET id == Len(tx) + 1
        x  == [sender |-> s, pkt |-> p, start |-> now, end |-> now + Airtime[p]]
    IN
    /\ Len(tx) < MaxTx
    /\ lbt[s] = 0
    /\ Fingerprint[p] # Undecodable
    /\ Bump({"tx"})
    /\ tx' = Append(tx, x)
    /\ TraceExists(Fingerprint[p], s)
    /\ active' = expire_before(tx', active \cup {id}, now - Retention)
    /\ IF Listeners(s, p) = {}
       THEN /\ tasks' = tasks \cup Deliveries("tx", id, s, p)
            /\ UNCHANGED lbt
       ELSE /\ lbt' = [lbt EXCEPT ![s] = id]
            /\ UNCHANGED tasks
    /\ UNCHANGED <<now, heard, captured, buffer, trace>>

\* Mutant: the loop over the listeners ends after the first notice.
Notify_first(s, r) ==
    /\ lbt[s] # 0
    /\ r \in Listeners(s, tx[lbt[s]].pkt)
    /\ \A q \in Node : <<lbt[s], q>> \notin heard
    /\ heard' = heard \cup {<<lbt[s], r>>}
    /\ UNCHANGED <<now, tx, active, lbt, tasks, captured, buffer, first, trace,
                   metrics>>

Notify(s, r) ==
    /\ lbt[s] # 0
    /\ r \in Listeners(s, tx[lbt[s]].pkt)
    /\ <<lbt[s], r>> \notin heard
    /\ heard' = heard \cup {<<lbt[s], r>>}
    /\ UNCHANGED <<now, tx, active, lbt, tasks, captured, buffer, first, trace,
                   metrics>>

\* Mutant: the delivery tasks are created before the gather returns.
Spawn_early(s) ==
    /\ lbt[s] # 0
    /\ tasks' = tasks \cup Deliveries("tx", lbt[s], s, tx[lbt[s]].pkt)
    /\ lbt' = [lbt EXCEPT ![s] = 0]
    /\ UNCHANGED <<now, tx, active, heard, captured, buffer, first, trace,
                   metrics>>

Spawn(s) ==
    /\ lbt[s] # 0
    /\ \A r \in Listeners(s, tx[lbt[s]].pkt) : <<lbt[s], r>> \in heard
    /\ tasks' = tasks \cup Deliveries("tx", lbt[s], s, tx[lbt[s]].pkt)
    /\ lbt' = [lbt EXCEPT ![s] = 0]
    /\ UNCHANGED <<now, tx, active, heard, captured, buffer, first, trace,
                   metrics>>

-----------------------------------------------------------------------------
(* _deliver_to                                                             *)

\* The counters under which the gates can end a delivery from s to r.
Stops(s, r) ==
    IF ~ Decodes(s, r)
    THEN {"snr_drop"}
    ELSE (IF <<s, r>> \in Lossy THEN {"link_loss"} ELSE {})
         \cup (CASE Adversary[r] = "drop"   -> {"adv_drop"}
                 [] Adversary[r] = "replay" -> {"adv_replay"}
                 [] OTHER                   -> {})

\* The ways a delivery can pass the gates: unchanged, or corrupted into q.
Passes(s, r, p) ==
    IF ~ Decodes(s, r)
    THEN {}
    ELSE {[pkt |-> p, corrupted |-> FALSE]}
         \cup (IF Adversary[r] = "corrupt"
               THEN {[pkt |-> q, corrupted |-> TRUE] : q \in Garbled}
               ELSE {})

\* Mutant: the capture is appended after its index is taken.
Suppress_index(d) ==
    /\ d \in tasks
    /\ d.stage = "new"
    /\ \E why \in Stops(Sender(d), d.to) :
          /\ Bump({why})
          /\ IF why = "adv_replay"
             THEN /\ Len(captured) < MaxCapture
                  /\ captured' = Append(captured, [node |-> d.to, pkt |-> d.pkt,
                                                   at |-> now + ReplayDelay])
                  /\ buffer' = buffer \cup {Len(captured') + 1}
             ELSE UNCHANGED <<captured, buffer>>
    /\ tasks' = tasks \ {d}
    /\ UNCHANGED <<now, tx, active, lbt, heard, first, trace>>

Suppress(d) ==
    /\ d \in tasks
    /\ d.stage = "new"
    /\ \E why \in Stops(Sender(d), d.to) :
          /\ Bump({why})
          /\ IF why = "adv_replay"
             THEN /\ Len(captured) < MaxCapture
                  /\ captured' = Append(captured, [node |-> d.to, pkt |-> d.pkt,
                                                   at |-> now + ReplayDelay])
                  /\ buffer' = buffer \cup {Len(captured) + 1}
             ELSE UNCHANGED <<captured, buffer>>
    /\ tasks' = tasks \ {d}
    /\ UNCHANGED <<now, tx, active, lbt, heard, first, trace>>

\* Mutant: the sleeping delivery is a second task.
Sleep_twice(d) ==
    /\ d \in tasks
    /\ d.stage = "new"
    /\ DueTime(d) > now
    /\ \E w \in Passes(Sender(d), d.to, d.pkt) :
          /\ tasks' = tasks \cup {[d EXCEPT !.pkt = w.pkt, !.stage = "asleep",
                                           !.due = DueTime(d)]}
          /\ Bump(IF w.corrupted THEN {"adv_corrupt"} ELSE {})
    /\ UNCHANGED <<now, tx, active, lbt, heard, captured, buffer, first, trace>>

Sleep(d) ==
    /\ d \in tasks
    /\ d.stage = "new"
    /\ DueTime(d) > now
    /\ \E w \in Passes(Sender(d), d.to, d.pkt) :
          /\ tasks' = (tasks \ {d}) \cup
                         {[d EXCEPT !.pkt = w.pkt, !.stage = "asleep",
                                    !.due = DueTime(d)]}
          /\ Bump(IF w.corrupted THEN {"adv_corrupt"} ELSE {})
    /\ UNCHANGED <<now, tx, active, lbt, heard, captured, buffer, first, trace>>

\* A replayed packet has no tx_start: neither check applies to it.
Outcome(d) ==
    IF d.kind = "tx" THEN Verdict(tx, active, d.n, d.to) ELSE [is |-> "hop", by |-> 0]

\* Mutant: no return after the half-duplex and collision branches.
Settle_fallthrough(d, p, counters) ==
    LET o  == Outcome(d)
        fp == Fingerprint[p]
    IN
    /\ tasks' = tasks \ {d}
    /\ TraceExists(fp, Sender(d))
    /\ trace' = IF fp = Undecodable THEN trace
                ELSE trace \cup {[is |-> o.is, kind |-> d.kind, n |-> d.n,
                                  to |-> d.to, fp |-> fp, t |-> now, by |-> o.by]}
    /\ Bump(counters \cup {"rx"} \cup (IF o.is = "hop" THEN {} ELSE {o.is}))
    /\ UNCHANGED <<now, tx, active, lbt, heard, captured, buffer>>

\* Delivery d ends with packet p, from step 3b on.
Settle(d, p, counters) ==
    LET o  == Outcome(d)
        fp == Fingerprint[p]
    IN
    /\ tasks' = tasks \ {d}
    /\ TraceExists(fp, Sender(d))
    /\ trace' = IF fp = Undecodable THEN trace
                ELSE trace \cup {[is |-> o.is, kind |-> d.kind, n |-> d.n,
                                  to |-> d.to, fp |-> fp, t |-> now, by |-> o.by]}
    /\ Bump(counters \cup {IF o.is = "hop" THEN "rx" ELSE o.is})
    /\ UNCHANGED <<now, tx, active, lbt, heard, captured, buffer>>

Wake(d) ==
    /\ d \in tasks
    /\ d.stage = "asleep"
    /\ d.due <= now
    /\ Settle(d, d.pkt, {})

\* There was nothing to wait for: gates and verdict are one segment.
ArriveAtOnce(d) ==
    /\ d \in tasks
    /\ d.stage = "new"
    /\ DueTime(d) <= now
    /\ \E w \in Passes(Sender(d), d.to, d.pkt) :
          Settle(d, w.pkt, IF w.corrupted THEN {"adv_corrupt"} ELSE {})

Arrive(d) == Wake(d) \/ ArriveAtOnce(d)

-----------------------------------------------------------------------------
(* run_replay_drainer and AdversarialFilter.drain_replays                  *)

Ready == {k \in buffer : now >= captured[k].at}

\* Mutant: drain_replays returns the ready packets without removing them.
Drain_keep ==
    /\ Ready # {}
    /\ tasks' = tasks \cup
          UNION {Deliveries("replay", k, captured[k].node, captured[k].pkt) :
                    k \in Ready}
    /\ UNCHANGED <<now, tx, active, lbt, heard, captured, buffer, first, trace,
                   metrics>>

Drain ==
    /\ Ready # {}
    /\ buffer' = buffer \ Ready
    /\ tasks' = tasks \cup
          UNION {Deliveries("replay", k, captured[k].node, captured[k].pkt) :
                    k \in Ready}
    /\ UNCHANGED <<now, tx, active, lbt, heard, captured, first, trace, metrics>>

-----------------------------------------------------------------------------
(* Time.  The loop runs a delivery of a transmission at most MaxLate ticks *)
(* after the packet arrives, from the end of its gather on.                *)

InTime(i, r, t) == t <= tx[i].end + Latency[<<tx[i].sender, r>>] + MaxLate

Wakeups == {d.due : d \in {e \in tasks : e.stage = "asleep"}}
           \cup {captured[k].at : k \in buffer}

Advance ==
    /\ \E t \in Clock \cup Wakeups :
          /\ t > now
          /\ \A d \in tasks : d.kind = "tx" => InTime(d.n, d.to, t)
          /\ \A s \in Node : lbt[s] # 0 =>
                \A r \in Neighbours(s) : InTime(lbt[s], r, t)
          /\ now' = t
    /\ UNCHANGED <<tx, active, lbt, heard, tasks, captured, buffer, first, trace,
                   metrics>>

-----------------------------------------------------------------------------

Next ==
    \/ \E s \in Node, p \in Packet : OnTx(s, p)
    \/ \E s, r \in Node : Notify(s, r)
    \/ \E s \in Node : Spawn(s)
    \/ \E d \in tasks : Suppress(d)
    \/ \E d \in tasks : Sleep(d)
    \/ \E d \in tasks : Arrive(d)
    \/ Drain
    \/ Advance

Spec == Init /\ [][Next]_vars

\* asyncio runs every ready coroutine and the clock does not stop; a node need
\* not transmit.
Fairness ==
    /\ WF_vars(\E s, r \in Node : Notify(s, r))
    /\ WF_vars(\E s \in Node : Spawn(s))
    /\ WF_vars(\E d \in tasks : Suppress(d) \/ Sleep(d) \/ Arrive(d))
    /\ WF_vars(Drain)
    /\ WF_vars(Advance)

FairSpec == Spec /\ Fairness

-----------------------------------------------------------------------------
(* Safety                                                                  *)

\* The register keeps a transmission for as long as a verdict can need it: the
\* longest airtime, latency and lateness together do not exceed the retention.
\* The safety of the verdicts rests on it, and the code does not ensure it.
RetentionSuffices ==
    \A p \in Packet, l \in Link : Airtime[p] + Latency[l] + MaxLate <= Retention

\* Every outcome the trace records for a transmission -- its kind and the id
\* of the first blocker or interferer -- is the one the complete history of
\* transmissions gives, for ever: _deliver_to consults the register late, but
\* neither a record pruned by expire_before nor a packet transmitted after the
\* verdict would have changed it.
TraceAgreesWithAir ==
    \A e \in trace : e.kind = "tx" =>
        [is |-> e.is, by |-> e.by] = Verdict(tx, DOMAIN tx, e.n, e.to)

\* Two transmissions by different nodes that a receiver decoded both overlap
\* there for no longer than the preamble grace period or the FEC tolerance:
\* capture, grace and FEC (is_lost, evaluated for each packet on its own) never
\* let two really colliding packets survive each other.
AtMostOneDecoded ==
    \A e, f \in trace :
        LET x == tx[e.n]
            y == tx[f.n]
        IN  /\ e.kind = "tx" /\ f.kind = "tx"
            /\ e.is = "hop" /\ f.is = "hop"
            /\ e.to = f.to
            /\ x.sender # y.sender
            /\ Overlap(x, y, e.to)
            => OverlapTime(x, y, e.to) <= Max({GracePeriod, FecTolerance})

\* A node that is handed a packet (rx) was handed the notice of its preamble
\* (rx_start) before: the gather of _on_tx precedes the delivery tasks and both
\* apply the same SNR threshold.
NotifiedBeforeDelivered ==
    \A e \in trace :
        e.kind = "tx" /\ Airtime[tx[e.n].pkt] > 0 => <<e.n, e.to>> \in heard

\* A transmission is settled at most once at a receiver, and not while a task
\* for it runs or its sender still awaits the gather.
SettledOnce ==
    \A e \in trace : e.kind = "tx" =>
        /\ \A f \in trace : f.kind = "tx" /\ f.n = e.n /\ f.to = e.to => f = e
        /\ \A d \in tasks : ~ (d.kind = "tx" /\ d.n = e.n /\ d.to = e.to)
        /\ lbt[tx[e.n].sender] # e.n

\* The copies of a broadcast by s, one per neighbour.
Copies(kind, n, s) == {<<kind, n>>} \X Neighbours(s)

\* The copies there is, or was, a delivery task for: of the transmissions whose
\* gather has returned and of the captured packets that were re-emitted.
Started ==
    (UNION {Copies("tx", i, tx[i].sender) :
               i \in {j \in DOMAIN tx : lbt[tx[j].sender] # j}})
    \cup (UNION {Copies("replay", k, captured[k].node) :
                    k \in (DOMAIN captured) \ buffer})

\* The deliveries counted as over: by a gate, as a half-duplex drop, as a
\* collision or as an rx.
Ended(m) == m["snr_drop"] + m["link_loss"] + m["adv_drop"] + m["adv_replay"]
              + m["halfduplex"] + m["collision"] + m["rx"]

\* Every delivery to every neighbour is counted exactly once, under what ended
\* it, or it is still in flight.
Accounted == Cardinality(Started) = Ended(metrics) + Cardinality(tasks)

-----------------------------------------------------------------------------
(* Refinement                                                              *)

\* The verdicts on transmissions, without what the tracer adds.
Decided == {[n |-> e.n, to |-> e.to, is |-> e.is, by |-> e.by, t |-> e.t] :
               e \in {h \in trace : h.kind = "tx"}}

Air == INSTANCE Medium WITH log <- tx, decided <- Decided

\* The router implements the ideal medium, which keeps every transmission for
\* ever and judges a packet at a receiver at most once, from the complete
\* history, no earlier than the packet has arrived there.
ImplementsMedium == Air!Spec

-----------------------------------------------------------------------------
(* Liveness                                                                *)

InFlight(i, r) ==
    /\ i \in DOMAIN tx
    /\ r \in Neighbours(tx[i].sender)
    /\ \/ lbt[tx[i].sender] = i
       \/ \E d \in tasks : d.kind = "tx" /\ d.n = i /\ d.to = r

\* Every delivery of a transmission ends.
EveryDeliverySettles ==
    \A i \in 1..MaxTx, r \in Node : InFlight(i, r) ~> ~ InFlight(i, r)

\* Every packet a replay adversary holds is re-emitted, and all its copies end.
EveryReplayEnds ==
    \A k \in 1..MaxCapture :
        k \in buffer ~> /\ k \notin buffer
                       /\ \A d \in tasks : d.kind = "replay" => d.n # k

-----------------------------------------------------------------------------
(* What comments and docs say that the code does not do                    *)

\* SIMULATION.md: "packets that would arrive while a node is transmitting are
\* correctly discarded by the orchestrator".
HalfDuplexEnforced ==
    \A e \in trace : e.kind = "tx" /\ e.is = "hop" =>
        \A i \in DOMAIN tx : ~ Deafens(tx[e.n], tx[i], e.to)
=============================================================================
