---------------------------- MODULE RouterProofs ----------------------------
(***************************************************************************)
(* Proofs about Router, for every network, clock, packet set and bound.    *)
(*                                                                         *)
(* First type correctness and the verdict theorem: what the trace says of  *)
(* a transmission is what the complete history says.  Then the order in    *)
(* which a transmission is served: notices, one delivery per neighbour,    *)
(* one verdict each.  From both together: of two colliding packets one is  *)
(* decoded at most, no node decodes while it transmits, Router implements  *)
(* Medium, whose verdicts are final, and the counters account for every    *)
(* delivery.                                                               *)
(***************************************************************************)
EXTENDS Router, FiniteSetTheorems, WellFoundedInduction, TLAPS

USE DEF AdversaryMode

-----------------------------------------------------------------------------
(* Lemmas about the operators                                              *)

\* A non-empty set of naturals has its minimum as a member.
LEMMA MinIsMember ==
    ASSUME NEW S, S \subseteq Nat, S # {}
    PROVE  Min(S) \in S /\ \A y \in S : Min(S) <= y
<1>1. IsWellFoundedOn(OpToRel(<, Nat), Nat)
    BY NatLessThanWellFounded
<1>2. \E x \in S : \A y \in S : ~ (<<y, x>> \in OpToRel(<, Nat))
    BY <1>1, WFMin
<1>3. \A x, y \in Nat : y < x => <<y, x>> \in OpToRel(<, Nat)
    BY Zenon DEF OpToRel
<1>4. \E x \in S : \A y \in S : x <= y
  <2>1. PICK x \in S : \A y \in S : ~ (<<y, x>> \in OpToRel(<, Nat))
      BY <1>2
  <2>2. \A y \in S : ~ (y < x)
      BY <2>1, <1>3
  <2>3. QED
      BY <2>2
<1>5. QED
    BY <1>4, Zenon DEF Min

\* A verdict is a kind of record with the id of a transmission, or 0.
LEMMA VerdictType ==
    ASSUME NEW txs, NEW ids, ids \subseteq Nat, NEW i, NEW r
    PROVE  Verdict(txs, ids, i, r) \in
               [is : {"hop", "collision", "halfduplex"}, by : Nat]
<1> DEFINE B == is_receiver_busy(txs, ids, i, r)
           I == is_lost(txs, ids, i, r)
<1>1. B \subseteq Nat /\ I \subseteq Nat
    BY DEF is_receiver_busy, is_lost
<1>2. B # {} => Min(B) \in Nat
    BY <1>1, MinIsMember
<1>3. I # {} => Min(I) \in Nat
    BY <1>1, MinIsMember
<1> HIDE DEF B, I
<1>4. Verdict(txs, ids, i, r) =
        IF B # {} THEN [is |-> "halfduplex", by |-> Min(B)]
        ELSE IF I # {} THEN [is |-> "collision", by |-> Min(I)]
        ELSE [is |-> "hop", by |-> 0]
    BY DEF Verdict, B, I
<1>5. QED
    BY <1>2, <1>3, <1>4

\* Counting keeps the counters natural numbers.
LEMMA BumpType ==
    ASSUME NEW S, metrics \in [Counter -> Nat], Bump(S)
    PROVE  metrics' \in [Counter -> Nat]
BY DEF Bump

\* Creating a trace keeps the table of first senders typed.
LEMMA TraceExistsType ==
    ASSUME NEW fp \in Fp \cup {Undecodable}, NEW s \in Node,
           first \in [Fp -> Node \cup {NoNode}], TraceExists(fp, s)
    PROVE  first' \in [Fp -> Node \cup {NoNode}]
BY DEF TraceExists

\* The deliveries of a broadcast are deliveries.
LEMMA DeliveriesType ==
    ASSUME NEW kind \in {"tx", "replay"}, NEW n \in Nat, NEW s \in Node,
           NEW p \in Packet
    PROVE  Deliveries(kind, n, s, p) \subseteq Delivery
<1>1. ASSUME NEW r \in Neighbours(s)
      PROVE  [kind |-> kind, n |-> n, to |-> r, pkt |-> p, stage |-> "new",
              due |-> 0] \in Delivery
    BY DEF Delivery, Neighbours
<1>2. QED
    BY <1>1 DEF Deliveries

-----------------------------------------------------------------------------
(* Type correctness.  The tasks must refer to transmissions or captures    *)
(* and to links, or their senders and latencies mean nothing.              *)

RefersOK(d) ==
    IF d.kind = "tx"
    THEN d.n \in DOMAIN tx /\ d.to \in Neighbours(tx[d.n].sender)
    ELSE d.n \in DOMAIN captured /\ d.to \in Neighbours(captured[d.n].node)

ReferencesOK ==
    /\ \A d \in tasks : RefersOK(d)
    /\ \A s \in Node : lbt[s] # 0 => tx[lbt[s]].sender = s

TypeInv == TypeOK /\ ReferencesOK

\* What a task of a well-typed state stands for.
LEMMA TaskFacts ==
    ASSUME TypeInv, NEW d \in tasks
    PROVE  /\ d \in Delivery
           /\ Sender(d) \in Node
           /\ <<Sender(d), d.to>> \in Link
           /\ DueTime(d) \in Nat
<1>1. d \in Delivery
    BY DEF TypeInv, TypeOK
<1>2. CASE d.kind = "tx"
  <2>1. tx[d.n] \in Transmission /\ d.to \in Neighbours(tx[d.n].sender)
      BY <1>2 DEF TypeInv, TypeOK, ReferencesOK, RefersOK
  <2>2. Sender(d) = tx[d.n].sender
      BY <1>2 DEF Sender
  <2>3. Sender(d) \in Node /\ <<Sender(d), d.to>> \in Link
      BY <2>1, <2>2 DEF Transmission, Neighbours
  <2>4. DueTime(d) = tx[d.n].end + Latency[<<Sender(d), d.to>>]
      BY <1>2 DEF DueTime
  <2>5. tx[d.n].end \in Nat /\ Latency[<<Sender(d), d.to>>] \in Nat
      BY <2>1, <2>3, RadioAssumption DEF Transmission
  <2>6. QED
      BY <1>1, <2>3, <2>4, <2>5
<1>3. CASE d.kind = "replay"
  <2>1. captured[d.n] \in Capture /\ d.to \in Neighbours(captured[d.n].node)
      BY <1>3 DEF TypeInv, TypeOK, ReferencesOK, RefersOK
  <2>2. Sender(d) = captured[d.n].node
      BY <1>3 DEF Sender
  <2>3. Sender(d) \in Node /\ <<Sender(d), d.to>> \in Link
      BY <2>1, <2>2 DEF Capture, Neighbours
  <2>4. DueTime(d) = now + Latency[<<Sender(d), d.to>>]
      BY <1>3 DEF DueTime
  <2>5. now \in Nat /\ Latency[<<Sender(d), d.to>>] \in Nat
      BY <2>3, RadioAssumption DEF TypeInv, TypeOK
  <2>6. QED
      BY <1>1, <2>3, <2>4, <2>5
<1>4. QED
    BY <1>1, <1>2, <1>3 DEF Delivery

LEMMA TypeInit == Init => TypeInv
BY RouterAssumption
DEF Init, TypeInv, TypeOK, ReferencesOK, Counter

LEMMA TypeStep == TypeInv /\ [Next]_vars => TypeInv'
<1> SUFFICES ASSUME TypeInv, [Next]_vars
             PROVE  TypeInv'
    OBVIOUS
<1> USE RouterAssumption DEF TypeInv
<1>1. ASSUME NEW s \in Node, NEW p \in Packet, OnTx(s, p)
      PROVE  TypeInv'
  <2> DEFINE id == Len(tx) + 1
             x  == [sender |-> s, pkt |-> p, start |-> now,
                    end |-> now + Airtime[p]]
  <2>1. x \in Transmission /\ id \in Nat
      BY DEF Transmission, TypeOK
  <2>2. /\ tx' = Append(tx, x)
        /\ tx' \in Seq(Transmission)
        /\ DOMAIN tx' = (DOMAIN tx) \cup {id}
        /\ tx'[id] = x
        /\ \A i \in DOMAIN tx : tx'[i] = tx[i]
      BY <1>1, <2>1 DEF OnTx, TypeOK
  <2>3. active' \subseteq DOMAIN tx'
      BY <1>1, <2>2 DEF OnTx, TypeOK, expire_before
  <2>4. metrics' \in [Counter -> Nat]
      BY <1>1, BumpType DEF OnTx, TypeOK
  <2>5. first' \in [Fp -> Node \cup {NoNode}]
      BY <1>1, TraceExistsType DEF OnTx, TypeOK
  <2>6. Deliveries("tx", id, s, p) \subseteq Delivery
      BY <2>1, DeliveriesType
  <2>7. lbt' \in [Node -> {0} \cup DOMAIN tx'] /\ tasks' \subseteq Delivery
      BY <1>1, <2>2, <2>6 DEF OnTx, TypeOK
  <2>8. TypeOK'
      BY <1>1, <2>2, <2>3, <2>4, <2>5, <2>7 DEF OnTx, TypeOK
  <2>9. \A n \in Node : lbt'[n] # 0 => tx'[lbt'[n]].sender = n
    <3>1. lbt' = lbt \/ lbt' = [lbt EXCEPT ![s] = id]
        BY <1>1 DEF OnTx
    <3>2. QED
        BY <3>1, <2>2 DEF TypeOK, ReferencesOK
  <2>10. \A d \in tasks' : RefersOK(d)'
    <3>1. captured' = captured
        BY <1>1 DEF OnTx
    <3>2. ASSUME NEW d \in tasks PROVE RefersOK(d)'
        BY <2>2, <3>1 DEF ReferencesOK, RefersOK
    <3>3. ASSUME NEW d \in Deliveries("tx", id, s, p) PROVE RefersOK(d)'
        BY <2>2 DEF Deliveries, RefersOK
    <3>4. QED
        BY <1>1, <3>2, <3>3 DEF OnTx
  <2>11. QED
      BY <2>8, <2>9, <2>10 DEF ReferencesOK
<1>2. ASSUME NEW s \in Node, NEW r \in Node, Notify(s, r)
      PROVE  TypeInv'
  <2>1. lbt[s] \in DOMAIN tx
      BY <1>2 DEF Notify, TypeOK
  <2>2. QED
      BY <1>2, <2>1 DEF Notify, TypeOK, ReferencesOK, RefersOK
<1>3. ASSUME NEW s \in Node, Spawn(s)
      PROVE  TypeInv'
  <2> DEFINE n == lbt[s]
  <2>1. n \in DOMAIN tx /\ n \in Nat /\ tx[n] \in Transmission /\ tx[n].sender = s
      BY <1>3 DEF Spawn, TypeOK, ReferencesOK
  <2>2. tx[n].pkt \in Packet
      BY <2>1 DEF Transmission
  <2>3. Deliveries("tx", n, s, tx[n].pkt) \subseteq Delivery
      BY <2>1, <2>2, DeliveriesType
  <2>4. TypeOK'
      BY <1>3, <2>3 DEF Spawn, TypeOK
  <2>5. ASSUME NEW d \in Deliveries("tx", n, s, tx[n].pkt) PROVE RefersOK(d)
      BY <2>1 DEF Deliveries, RefersOK
  <2>6. \A d \in tasks' : RefersOK(d)'
      BY <1>3, <2>5 DEF Spawn, ReferencesOK, RefersOK
  <2>7. \A m \in Node : lbt'[m] # 0 => tx'[lbt'[m]].sender = m
      BY <1>3 DEF Spawn, TypeOK, ReferencesOK
  <2>8. QED
      BY <2>4, <2>6, <2>7 DEF ReferencesOK
<1>4. ASSUME NEW d \in tasks, Suppress(d)
      PROVE  TypeInv'
  <2>1. PICK why \in Stops(Sender(d), d.to) :
            /\ Bump({why})
            /\ IF why = "adv_replay"
               THEN /\ captured' = Append(captured,
                                     [node |-> d.to, pkt |-> d.pkt,
                                      at |-> now + ReplayDelay])
                    /\ buffer' = buffer \cup {Len(captured) + 1}
               ELSE UNCHANGED <<captured, buffer>>
      BY <1>4 DEF Suppress
  <2>2. metrics' \in [Counter -> Nat]
      BY <2>1, BumpType DEF TypeOK
  <2> DEFINE c == [node |-> d.to, pkt |-> d.pkt, at |-> now + ReplayDelay]
  <2>3. c \in Capture
      BY TaskFacts DEF Capture, Delivery, TypeOK
  <2>4. /\ captured' \in Seq(Capture)
        /\ buffer' \subseteq DOMAIN captured'
        /\ DOMAIN captured \subseteq DOMAIN captured'
        /\ \A k \in DOMAIN captured : captured'[k] = captured[k]
    <3>1. CASE why = "adv_replay"
      <4>1. captured' = Append(captured, c) /\ buffer' = buffer \cup {Len(captured) + 1}
          BY <2>1, <3>1
      <4> HIDE DEF c
      <4>2. captured \in Seq(Capture) /\ buffer \subseteq DOMAIN captured
          BY DEF TypeOK
      <4>3. QED
          BY <4>1, <4>2, <2>3
    <3>2. CASE why # "adv_replay"
        BY <2>1, <3>2 DEF TypeOK
    <3>3. QED
        BY <3>1, <3>2
  <2>5. TypeOK'
      BY <1>4, <2>2, <2>4 DEF Suppress, TypeOK
  <2>6. ReferencesOK'
      BY <1>4, <2>4 DEF Suppress, ReferencesOK, RefersOK
  <2>7. QED
      BY <2>5, <2>6
<1>5. ASSUME NEW d \in tasks, Sleep(d)
      PROVE  TypeInv'
  <2>1. PICK w \in Passes(Sender(d), d.to, d.pkt) :
            /\ tasks' = (tasks \ {d}) \cup
                           {[d EXCEPT !.pkt = w.pkt, !.stage = "asleep",
                                      !.due = DueTime(d)]}
            /\ Bump(IF w.corrupted THEN {"adv_corrupt"} ELSE {})
      BY <1>5 DEF Sleep
  <2>2. d \in Delivery /\ DueTime(d) \in Nat
      BY TaskFacts
  <2>3. w.pkt \in Packet
      BY <2>2 DEF Passes, Delivery
  <2> DEFINE e == [d EXCEPT !.pkt = w.pkt, !.stage = "asleep", !.due = DueTime(d)]
  <2>4. e \in Delivery /\ e.kind = d.kind /\ e.n = d.n /\ e.to = d.to
      BY <2>2, <2>3 DEF Delivery
  <2>5. metrics' \in [Counter -> Nat]
      BY <2>1, BumpType DEF TypeOK
  <2>6. tasks' = (tasks \ {d}) \cup {e}
      BY <2>1
  <2> HIDE DEF e
  <2>7. TypeOK'
      BY <1>5, <2>4, <2>5, <2>6 DEF Sleep, TypeOK
  <2>8. RefersOK(e)
      BY <2>4 DEF ReferencesOK, RefersOK
  <2>9. ReferencesOK'
      BY <1>5, <2>6, <2>8 DEF Sleep, ReferencesOK, RefersOK
  <2>10. QED
      BY <2>7, <2>9
<1>6. ASSUME NEW d \in tasks, Arrive(d)
      PROVE  TypeInv'
  <2>1. PICK p \in Packet, c \in SUBSET Counter : Settle(d, p, c)
    <3>1. d.pkt \in Packet
        BY TaskFacts DEF Delivery
    <3>2. CASE Wake(d)
        BY <3>1, <3>2 DEF Wake
    <3>3. CASE ArriveAtOnce(d)
      <4>1. PICK w \in Passes(Sender(d), d.to, d.pkt) :
                Settle(d, w.pkt, IF w.corrupted THEN {"adv_corrupt"} ELSE {})
          BY <3>3 DEF ArriveAtOnce
      <4>2. w.pkt \in Packet
          BY <3>1 DEF Passes
      <4>3. (IF w.corrupted THEN {"adv_corrupt"} ELSE {}) \in SUBSET Counter
          BY DEF Counter
      <4>4. QED
          BY <4>1, <4>2, <4>3
    <3>4. QED
        BY <1>6, <3>2, <3>3 DEF Arrive
  <2> DEFINE o  == Outcome(d)
             fp == Fingerprint[p]
             e  == [is |-> o.is, kind |-> d.kind, n |-> d.n, to |-> d.to,
                    fp |-> fp, t |-> now, by |-> o.by]
  <2>2. o \in [is : {"hop", "collision", "halfduplex"}, by : Nat]
    <3>1. active \subseteq Nat
        BY DEF TypeOK
    <3>2. QED
        BY <3>1, VerdictType DEF Outcome
  <2>3. fp \in Fp \cup {Undecodable}
      OBVIOUS
  <2>4. fp # Undecodable => e \in Record
      BY <2>2, <2>3, TaskFacts DEF Delivery, Record, TypeOK
  <2>5. trace' \subseteq Record
      BY <2>1, <2>4 DEF Settle, TypeOK
  <2>6. metrics' \in [Counter -> Nat]
      BY <2>1, BumpType DEF Settle, TypeOK
  <2>7. first' \in [Fp -> Node \cup {NoNode}]
      BY <2>1, <2>3, TaskFacts, TraceExistsType DEF Settle, TypeOK
  <2>8. TypeOK'
      BY <2>1, <2>5, <2>6, <2>7 DEF Settle, TypeOK
  <2>9. ReferencesOK'
      BY <2>1 DEF Settle, ReferencesOK, RefersOK
  <2>10. QED
      BY <2>8, <2>9
<1>7. ASSUME Drain
      PROVE  TypeInv'
  <2>1. ASSUME NEW k \in Ready
        PROVE  /\ k \in DOMAIN captured
               /\ Deliveries("replay", k, captured[k].node, captured[k].pkt)
                     \subseteq Delivery
    <3>1. k \in DOMAIN captured /\ k \in Nat /\ captured[k] \in Capture
        BY DEF Ready, TypeOK
    <3>2. captured[k].node \in Node /\ captured[k].pkt \in Packet
        BY <3>1 DEF Capture
    <3>3. QED
        BY <3>1, <3>2, DeliveriesType
  <2>2. TypeOK'
      BY <1>7, <2>1 DEF Drain, TypeOK
  <2>3. ASSUME NEW k \in Ready,
               NEW d \in Deliveries("replay", k, captured[k].node, captured[k].pkt)
        PROVE  RefersOK(d)
      BY <2>1 DEF Deliveries, RefersOK
  <2>4. ReferencesOK'
      BY <1>7, <2>3 DEF Drain, ReferencesOK, RefersOK
  <2>5. QED
      BY <2>2, <2>4
<1>8. ASSUME Advance
      PROVE  TypeInv'
  <2>1. Wakeups \subseteq Nat
    <3>1. \A d \in tasks : d.due \in Nat
        BY DEF TypeOK, Delivery
    <3>2. ASSUME NEW k \in buffer PROVE captured[k].at \in Nat
      <4>1. captured[k] \in Capture
          BY DEF TypeOK
      <4>2. QED
          BY <4>1 DEF Capture
    <3>3. QED
        BY <3>1, <3>2 DEF Wakeups
  <2>2. now' \in Nat
      BY <1>8, <2>1 DEF Advance
  <2>3. QED
      BY <1>8, <2>2 DEF Advance, TypeOK, ReferencesOK, RefersOK
<1>9. CASE UNCHANGED vars
    BY <1>9 DEF vars, TypeOK, ReferencesOK, RefersOK
<1>10. QED
    BY <1>1, <1>2, <1>3, <1>4, <1>5, <1>6, <1>7, <1>8, <1>9 DEF Next

\* Every variable keeps its type, and every task refers to a transmission or a
\* captured packet and to a link of its sender.
THEOREM TypeCorrect == Spec => []TypeOK
<1>1. Spec => []TypeInv
    BY TypeInit, TypeStep, PTL DEF Spec
<1>2. TypeInv => TypeOK
    BY DEF TypeInv
<1>3. QED
    BY <1>1, <1>2, PTL

-----------------------------------------------------------------------------
(* The verdict theorem.  A verdict is reached from the register, late and  *)
(* with old transmissions pruned.  It agrees with the complete history     *)
(* because a transmission that is pruned or has not begun when the task    *)
(* settles cannot touch the packet at the receiver.  That needs the clock  *)
(* to be in time for every delivery still to come (GatherOK, TasksOK), the *)
(* pruned transmissions to be old (PrunedOK), and every recorded verdict   *)
(* to have been reached after the packet had arrived (VerdictsOK).         *)

\* A transmission's window is what _on_tx computed, and did not start later
\* than now.
LogOK ==
    \A i \in DOMAIN tx :
        /\ tx[i].start <= now
        /\ tx[i].end = tx[i].start + Airtime[tx[i].pkt]

PrunedOK == \A i \in (DOMAIN tx) \ active : tx[i].end + Retention < now

GatherOK ==
    \A s \in Node : lbt[s] # 0 =>
        \A r \in Neighbours(s) : InTime(lbt[s], r, now)

TaskOK(d) ==
    d.kind = "tx" =>
        /\ InTime(d.n, d.to, now)
        /\ d.stage = "asleep" => d.due >= RxEnd(tx[d.n], d.to)

TasksOK == \A d \in tasks : TaskOK(d)

RecordOK(e) ==
    e.kind = "tx" =>
        /\ e.n \in DOMAIN tx
        /\ e.to \in Neighbours(tx[e.n].sender)
        /\ e.t <= now
        /\ RxEnd(tx[e.n], e.to) <= e.t
        /\ [is |-> e.is, by |-> e.by] = Verdict(tx, DOMAIN tx, e.n, e.to)

VerdictsOK == \A e \in trace : RecordOK(e)

IInv == TypeInv /\ LogOK /\ PrunedOK /\ GatherOK /\ TasksOK /\ VerdictsOK

\* The latency of the link to a neighbour is a natural number of ticks.
LEMMA LatencyType ==
    ASSUME NEW s \in Node, NEW r \in Neighbours(s)
    PROVE  <<s, r>> \in Link /\ Latency[<<s, r>>] \in Nat
BY RadioAssumption DEF Neighbours

\* A transmission that starts when the packet has arrived at r leaves it alone.
LEMMA LateIsHarmless ==
    ASSUME NEW x \in Transmission, NEW r \in Neighbours(x.sender),
           NEW y \in Transmission, y.start >= RxEnd(x, r)
    PROVE  ~ Deafens(x, y, r) /\ ~ Hits(x, y, r)
<1>1. x.sender \in Node /\ x.end \in Nat /\ y.start \in Nat
    BY DEF Transmission
<1>2. Latency[<<x.sender, r>>] \in Nat
    BY <1>1, LatencyType
<1>3. ~ Deafens(x, y, r)
    BY <1>1, <1>2 DEF Deafens, RxEnd
<1>4. <<y.sender, r>> \in Link => ~ Overlap(x, y, r)
    BY <1>1, <1>2, RadioAssumption DEF Overlap, RxStart, RxEnd
<1>5. QED
    BY <1>3, <1>4 DEF Hits

\* Neither does one that ended more than the retention before an instant at
\* which the packet's delivery is in time.
LEMMA PrunedIsHarmless ==
    ASSUME RetentionSuffices,
           NEW x \in Transmission, NEW r \in Neighbours(x.sender),
           NEW y \in Transmission, NEW t \in Nat,
           x.end = x.start + Airtime[x.pkt],
           t <= x.end + Latency[<<x.sender, r>>] + MaxLate,
           y.end + Retention < t
    PROVE  ~ Deafens(x, y, r) /\ ~ Hits(x, y, r)
<1>1. /\ x.sender \in Node /\ x.pkt \in Packet
      /\ x.start \in Nat /\ x.end \in Nat /\ y.end \in Nat
    BY DEF Transmission
<1>2. Latency[<<x.sender, r>>] \in Nat /\ <<x.sender, r>> \in Link
    BY <1>1, LatencyType
<1>3. Airtime[x.pkt] \in Nat /\ Retention \in Nat /\ MaxLate \in Nat
    BY <1>1, RouterAssumption
<1>4. y.end <= RxStart(x, r)
  <2>1. Airtime[x.pkt] + Latency[<<x.sender, r>>] + MaxLate <= Retention
      BY <1>1, <1>2 DEF RetentionSuffices
  <2>2. QED
      BY <1>1, <1>2, <1>3, <2>1 DEF RxStart
<1>5. ~ Deafens(x, y, r)
    BY <1>1, <1>2, <1>4 DEF Deafens, RxStart
<1>6. ASSUME <<y.sender, r>> \in Link
      PROVE  ~ Overlap(x, y, r)
  <2> DEFINE ly == Latency[<<y.sender, r>>]
             lx == Latency[<<x.sender, r>>]
  <2>1. ly \in Nat
      BY <1>6, RadioAssumption
  <2>2. Airtime[x.pkt] + ly + MaxLate <= Retention
      BY <1>1, <1>6 DEF RetentionSuffices
  <2>3. y.end + ly <= x.start + lx
    <3> HIDE DEF ly, lx
    <3>1. lx \in Nat /\ t <= x.end + lx + MaxLate
        BY <1>2 DEF lx
    <3>2. QED
        BY <1>1, <1>3, <2>1, <2>2, <3>1
  <2>4. QED
      BY <1>1, <1>2, <2>1, <2>3 DEF Overlap, RxStart, RxEnd
<1>7. QED
    BY <1>5, <1>6 DEF Hits

\* A verdict depends on the transmissions that can touch the packet only.
LEMMA VerdictCongruence ==
    ASSUME NEW txs, NEW us, NEW ids, NEW jds, NEW i, NEW r,
           is_receiver_busy(txs, ids, i, r) = is_receiver_busy(us, jds, i, r),
           is_lost(txs, ids, i, r) = is_lost(us, jds, i, r)
    PROVE  Verdict(txs, ids, i, r) = Verdict(us, jds, i, r)
BY DEF Verdict

\* A transmission that starts when packet i has arrived at r does not change
\* the verdict on i at r.
LEMMA VerdictStable ==
    ASSUME NEW txs \in Seq(Transmission), NEW i \in DOMAIN txs,
           NEW r \in Neighbours(txs[i].sender), NEW y \in Transmission,
           y.start >= RxEnd(txs[i], r)
    PROVE  Verdict(Append(txs, y), DOMAIN Append(txs, y), i, r)
             = Verdict(txs, DOMAIN txs, i, r)
<1> DEFINE us == Append(txs, y)
           id == Len(txs) + 1
<1>1. /\ DOMAIN us = (DOMAIN txs) \cup {id}
      /\ id \notin DOMAIN txs
      /\ us[id] = y
      /\ \A j \in DOMAIN txs : us[j] = txs[j]
    OBVIOUS
<1>2. txs[i] \in Transmission
    OBVIOUS
<1>3. ~ Deafens(txs[i], y, r) /\ ~ Hits(txs[i], y, r)
    BY <1>2, LateIsHarmless
<1> HIDE DEF us, id
<1>4. is_receiver_busy(us, DOMAIN us, i, r) = is_receiver_busy(txs, DOMAIN txs, i, r)
    BY <1>1, <1>3 DEF is_receiver_busy
<1>5. is_lost(us, DOMAIN us, i, r) = is_lost(txs, DOMAIN txs, i, r)
    BY <1>1, <1>3 DEF is_lost
<1>6. Verdict(us, DOMAIN us, i, r) = Verdict(txs, DOMAIN txs, i, r)
    BY <1>4, <1>5, VerdictCongruence
<1>7. QED
    BY <1>6 DEF us

\* For a delivery that is in time the register gives the verdict of the history.
LEMMA RegisterSuffices ==
    ASSUME RetentionSuffices, TypeInv, LogOK, PrunedOK,
           NEW i \in DOMAIN tx, NEW r \in Neighbours(tx[i].sender),
           InTime(i, r, now)
    PROVE  Verdict(tx, active, i, r) = Verdict(tx, DOMAIN tx, i, r)
<1>1. tx[i] \in Transmission /\ now \in Nat /\ active \subseteq DOMAIN tx
    BY DEF TypeInv, TypeOK
<1>2. ASSUME NEW j \in (DOMAIN tx) \ active
      PROVE  ~ Deafens(tx[i], tx[j], r) /\ ~ Hits(tx[i], tx[j], r)
  <2>1. tx[j] \in Transmission
      BY DEF TypeInv, TypeOK
  <2>2. tx[j].end + Retention < now /\ tx[i].end = tx[i].start + Airtime[tx[i].pkt]
      BY DEF PrunedOK, LogOK
  <2>3. now <= tx[i].end + Latency[<<tx[i].sender, r>>] + MaxLate
      BY DEF InTime
  <2>4. QED
      BY <1>1, <2>1, <2>2, <2>3, PrunedIsHarmless
<1>3. is_receiver_busy(tx, active, i, r) = is_receiver_busy(tx, DOMAIN tx, i, r)
    BY <1>1, <1>2 DEF is_receiver_busy
<1>4. is_lost(tx, active, i, r) = is_lost(tx, DOMAIN tx, i, r)
    BY <1>1, <1>2 DEF is_lost
<1>5. QED
    BY <1>3, <1>4, VerdictCongruence

LEMMA IInvInit == Init => IInv
<1>1. Init => TypeInv
    BY TypeInit
<1>2. Init => LogOK /\ PrunedOK /\ GatherOK /\ TasksOK /\ VerdictsOK
    BY DEF Init, LogOK, PrunedOK, GatherOK, TasksOK, VerdictsOK
<1>3. QED
    BY <1>1, <1>2 DEF IInv

LEMMA IInvStep == RetentionSuffices /\ IInv /\ [Next]_vars => IInv'
<1> SUFFICES ASSUME RetentionSuffices, IInv, [Next]_vars
             PROVE  IInv'
    OBVIOUS
<1> USE RouterAssumption DEF IInv
<1>t. TypeInv'
    BY TypeStep
<1>n. now \in Nat
    BY DEF TypeInv, TypeOK
<1>1. ASSUME NEW s \in Node, NEW p \in Packet, OnTx(s, p)
      PROVE  IInv'
  <2> DEFINE id == Len(tx) + 1
             x  == [sender |-> s, pkt |-> p, start |-> now,
                    end |-> now + Airtime[p]]
  <2>1. x \in Transmission
      BY <1>n DEF Transmission
  <2>2. /\ tx' = Append(tx, x)
        /\ tx \in Seq(Transmission)
        /\ DOMAIN tx' = (DOMAIN tx) \cup {id}
        /\ tx'[id] = x
        /\ \A i \in DOMAIN tx : tx'[i] = tx[i]
      BY <1>1, <2>1 DEF OnTx, TypeInv, TypeOK
  <2>3. now' = now /\ trace' = trace /\ UNCHANGED captured
      BY <1>1 DEF OnTx
  <2>4. LogOK'
    <3>1. x.start <= now /\ x.end = x.start + Airtime[x.pkt]
        BY <1>n
    <3>2. QED
        BY <2>2, <2>3, <3>1 DEF LogOK
  <2>5. PrunedOK'
    <3>1. ASSUME NEW i \in DOMAIN tx', i \notin active'
          PROVE  tx'[i].end + Retention < now
      <4>1. tx'[i] \in Transmission
          BY <2>1, <2>2
      <4>2. tx'[i].end \in Nat
          BY <4>1 DEF Transmission
      <4>3. CASE i \in active \cup {id}
        <5>1. ~ (tx'[i].end >= now - Retention)
            BY <1>1, <3>1, <4>3 DEF OnTx, expire_before
        <5>2. QED
            BY <1>n, <4>2, <5>1
      <4>4. CASE i \notin active \cup {id}
          BY <2>2, <4>4 DEF PrunedOK
      <4>5. QED
          BY <4>3, <4>4
    <3>2. QED
        BY <2>3, <3>1 DEF PrunedOK
  <2>6. ASSUME NEW r \in Neighbours(s)
        PROVE  now <= tx'[id].end + Latency[<<tx'[id].sender, r>>] + MaxLate
    <3>1. x.sender = s /\ x.end >= now
        BY <1>n
    <3>2. Latency[<<s, r>>] \in Nat
        BY LatencyType
    <3>3. x.end \in Nat
        BY <1>n
    <3>4. now <= x.end + Latency[<<x.sender, r>>] + MaxLate
      <4> HIDE DEF x
      <4>1. QED
          BY <1>n, <3>1, <3>2, <3>3
    <3>5. QED
        BY <2>2, <3>4
  <2>7. GatherOK'
    <3>1. ASSUME NEW n \in Node, lbt'[n] # 0, NEW r \in Neighbours(n)
          PROVE  now <= tx'[lbt'[n]].end + Latency[<<tx'[lbt'[n]].sender, r>>]
                          + MaxLate
      <4>1. CASE n = s /\ lbt'[n] = id
          BY <2>6, <4>1
      <4>2. CASE lbt'[n] = lbt[n]
        <5>1. lbt[n] \in DOMAIN tx /\ InTime(lbt[n], r, now)
            BY <3>1, <4>2 DEF GatherOK, TypeInv, TypeOK
        <5>2. QED
            BY <2>2, <4>2, <5>1 DEF InTime
      <4>3. QED
          BY <1>1, <4>1, <4>2 DEF OnTx, TypeInv, TypeOK
    <3>2. QED
        BY <2>3, <3>1 DEF GatherOK, InTime
  <2>8. TasksOK'
    <3>1. ASSUME NEW d \in tasks PROVE TaskOK(d)'
      <4>1. TaskOK(d) /\ (d.kind = "tx" => d.n \in DOMAIN tx)
          BY DEF TasksOK, TypeInv, ReferencesOK, RefersOK
      <4>2. QED
          BY <2>2, <2>3, <4>1 DEF TaskOK, InTime, RxEnd
    <3>2. ASSUME NEW d \in Deliveries("tx", id, s, p) PROVE TaskOK(d)'
        BY <2>3, <2>6 DEF Deliveries, TaskOK, InTime
    <3>3. QED
        BY <1>1, <3>1, <3>2 DEF OnTx, TasksOK
  <2>9. VerdictsOK'
    <3>1. ASSUME NEW e \in trace, e.kind = "tx"
          PROVE  RecordOK(e)'
      <4>1. /\ e.n \in DOMAIN tx
            /\ e.to \in Neighbours(tx[e.n].sender)
            /\ e.t <= now
            /\ RxEnd(tx[e.n], e.to) <= e.t
            /\ [is |-> e.is, by |-> e.by] = Verdict(tx, DOMAIN tx, e.n, e.to)
          BY <3>1 DEF VerdictsOK, RecordOK
      <4>2. e.t \in Nat
          BY DEF TypeInv, TypeOK, Record
      <4>3. RxEnd(tx[e.n], e.to) \in Nat
        <5>1. tx[e.n] \in Transmission
            BY <2>2, <4>1
        <5>2. tx[e.n].sender \in Node /\ tx[e.n].end \in Nat
            BY <5>1 DEF Transmission
        <5>3. QED
            BY <4>1, <5>2, LatencyType DEF RxEnd
      <4>4. x.start >= RxEnd(tx[e.n], e.to)
          BY <1>n, <4>1, <4>2, <4>3
      <4>5. Verdict(tx', DOMAIN tx', e.n, e.to) = Verdict(tx, DOMAIN tx, e.n, e.to)
        <5> HIDE DEF x
        <5>1. tx \in Seq(Transmission) /\ tx' = Append(tx, x)
            BY <2>2
        <5>2. Verdict(Append(tx, x), DOMAIN Append(tx, x), e.n, e.to)
                = Verdict(tx, DOMAIN tx, e.n, e.to)
            BY <2>1, <4>1, <4>4, <5>1, VerdictStable, Zenon
        <5>3. QED
            BY <5>1, <5>2, Zenon
      <4>6. tx'[e.n] = tx[e.n] /\ e.n \in DOMAIN tx'
          BY <2>2, <4>1
      <4>7. QED
          BY <2>3, <4>1, <4>5, <4>6 DEF RecordOK, RxEnd
    <3>2. QED
        BY <2>3, <3>1 DEF VerdictsOK, RecordOK
  <2>10. QED
      BY <1>t, <2>4, <2>5, <2>7, <2>8, <2>9
<1>2. ASSUME NEW s \in Node, NEW r \in Node, Notify(s, r)
      PROVE  IInv'
    BY <1>2, <1>t
    DEF Notify, LogOK, PrunedOK, GatherOK, TasksOK, TaskOK, VerdictsOK, RecordOK,
        InTime
<1>3. ASSUME NEW s \in Node, Spawn(s)
      PROVE  IInv'
  <2>1. /\ UNCHANGED <<now, tx, active, trace>>
        /\ lbt' = [lbt EXCEPT ![s] = 0]
        /\ tasks' = tasks \cup Deliveries("tx", lbt[s], s, tx[lbt[s]].pkt)
      BY <1>3 DEF Spawn
  <2>2. LogOK' /\ PrunedOK' /\ VerdictsOK'
      BY <2>1 DEF LogOK, PrunedOK, VerdictsOK, RecordOK
  <2>3. GatherOK'
      BY <2>1 DEF GatherOK, InTime, TypeInv, TypeOK
  <2>4. ASSUME NEW d \in Deliveries("tx", lbt[s], s, tx[lbt[s]].pkt)
        PROVE  TaskOK(d)
      BY <1>3 DEF Spawn, Deliveries, TaskOK, GatherOK
  <2>5. TasksOK'
      BY <2>1, <2>4 DEF TasksOK, TaskOK, InTime
  <2>6. QED
      BY <1>t, <2>2, <2>3, <2>5
<1>4. ASSUME NEW d \in tasks, Suppress(d)
      PROVE  IInv'
  <2>1. UNCHANGED <<now, tx, active, lbt, trace>> /\ tasks' \subseteq tasks
      BY <1>4 DEF Suppress
  <2>2. QED
      BY <1>t, <2>1
      DEF LogOK, PrunedOK, GatherOK, TasksOK, TaskOK, VerdictsOK, RecordOK, InTime
<1>5. ASSUME NEW d \in tasks, Sleep(d)
      PROVE  IInv'
  <2>1. PICK w \in Passes(Sender(d), d.to, d.pkt) :
            tasks' = (tasks \ {d}) \cup
                        {[d EXCEPT !.pkt = w.pkt, !.stage = "asleep",
                                   !.due = DueTime(d)]}
      BY <1>5 DEF Sleep
  <2> DEFINE e == [d EXCEPT !.pkt = w.pkt, !.stage = "asleep", !.due = DueTime(d)]
  <2>2. UNCHANGED <<now, tx, active, lbt, trace>>
      BY <1>5 DEF Sleep
  <2>3. TaskOK(e)
    <3>1. /\ e.kind = d.kind /\ e.n = d.n /\ e.to = d.to
          /\ e.due = DueTime(d)
        BY TaskFacts DEF Delivery
    <3>2. d.kind = "tx" => DueTime(d) = RxEnd(tx[d.n], d.to)
        BY DEF DueTime, RxEnd, Sender
    <3>3. DueTime(d) \in Nat /\ TaskOK(d)
        BY TaskFacts DEF TasksOK
    <3> HIDE DEF e
    <3>4. QED
        BY <3>1, <3>2, <3>3 DEF TaskOK
  <2> HIDE DEF e
  <2>4. TasksOK'
      BY <2>1, <2>2, <2>3 DEF TasksOK, TaskOK, InTime, e
  <2>5. QED
      BY <1>t, <2>2, <2>4
      DEF LogOK, PrunedOK, GatherOK, VerdictsOK, RecordOK, InTime
<1>6. ASSUME NEW d \in tasks, Arrive(d)
      PROVE  IInv'
  <2>1. PICK p, c : Settle(d, p, c)
      BY <1>6 DEF Arrive, Wake, ArriveAtOnce
  <2>2. UNCHANGED <<now, tx, active, lbt>> /\ tasks' \subseteq tasks
      BY <2>1 DEF Settle
  <2>3. d.kind = "tx" => RxEnd(tx[d.n], d.to) <= now
    <3>1. ASSUME d.kind = "tx", Wake(d)
          PROVE  RxEnd(tx[d.n], d.to) <= now
      <4>1. d.due \in Nat /\ d.due <= now /\ d.due >= RxEnd(tx[d.n], d.to)
          BY <3>1, TaskFacts DEF Wake, Delivery, TasksOK, TaskOK
      <4>2. RxEnd(tx[d.n], d.to) = DueTime(d) /\ DueTime(d) \in Nat
          BY <3>1, TaskFacts DEF DueTime, RxEnd, Sender
      <4>3. QED
          BY <1>n, <4>1, <4>2
    <3>2. ASSUME d.kind = "tx", ArriveAtOnce(d)
          PROVE  RxEnd(tx[d.n], d.to) <= now
        BY <3>2 DEF ArriveAtOnce, DueTime, RxEnd, Sender
    <3>3. QED
        BY <1>6, <3>1, <3>2 DEF Arrive
  <2>4. ASSUME d.kind = "tx"
        PROVE  /\ d.n \in DOMAIN tx
               /\ d.to \in Neighbours(tx[d.n].sender)
               /\ Outcome(d) = Verdict(tx, DOMAIN tx, d.n, d.to)
    <3>1. d.n \in DOMAIN tx /\ d.to \in Neighbours(tx[d.n].sender)
        BY <2>4 DEF TypeInv, ReferencesOK, RefersOK
    <3>2. InTime(d.n, d.to, now)
        BY <2>4 DEF TasksOK, TaskOK
    <3>3. Outcome(d) = Verdict(tx, active, d.n, d.to)
        BY <2>4 DEF Outcome
    <3>4. QED
        BY <3>1, <3>2, <3>3, RegisterSuffices
  <2> DEFINE o == Outcome(d)
             e == [is |-> o.is, kind |-> d.kind, n |-> d.n, to |-> d.to,
                   fp |-> Fingerprint[p], t |-> now, by |-> o.by]
  <2>5. RecordOK(e)
    <3>1. ASSUME d.kind = "tx"
          PROVE  [is |-> o.is, by |-> o.by] = o
      <4>1. active \subseteq Nat
          BY DEF TypeInv, TypeOK
      <4>2. o \in [is : {"hop", "collision", "halfduplex"}, by : Nat]
          BY <3>1, <4>1, VerdictType DEF Outcome
      <4> HIDE DEF o
      <4>3. QED
          BY <4>2
    <3> HIDE DEF o
    <3>2. /\ e.is = o.is /\ e.by = o.by /\ e.kind = d.kind /\ e.n = d.n
          /\ e.to = d.to /\ e.t = now
        OBVIOUS
    <3>3. d.kind = "tx" => o = Verdict(tx, DOMAIN tx, d.n, d.to)
        BY <2>4 DEF o
    <3> HIDE DEF e
    <3>4. QED
        BY <1>n, <2>3, <2>4, <3>1, <3>2, <3>3 DEF RecordOK
  <2>6. trace' \subseteq trace \cup {e}
      BY <2>1 DEF Settle
  <2> HIDE DEF e, o
  <2>7. VerdictsOK'
      BY <2>2, <2>5, <2>6 DEF VerdictsOK, RecordOK
  <2>8. QED
      BY <1>t, <2>2, <2>7
      DEF LogOK, PrunedOK, GatherOK, TasksOK, TaskOK, InTime
<1>7. ASSUME Drain
      PROVE  IInv'
  <2>1. /\ UNCHANGED <<now, tx, active, lbt, trace>>
        /\ \A d \in tasks' : d \in tasks \/ d.kind = "replay"
      BY <1>7 DEF Drain, Deliveries
  <2>2. QED
      BY <1>t, <2>1
      DEF LogOK, PrunedOK, GatherOK, TasksOK, TaskOK, VerdictsOK, RecordOK, InTime
<1>8. ASSUME Advance
      PROVE  IInv'
  <2>1. /\ UNCHANGED <<tx, active, lbt, tasks, trace>>
        /\ now' > now
        /\ \A d \in tasks : d.kind = "tx" => InTime(d.n, d.to, now')
        /\ \A s \in Node : lbt[s] # 0 =>
              \A r \in Neighbours(s) : InTime(lbt[s], r, now')
      BY <1>8 DEF Advance
  <2>2. now' \in Nat
      BY <1>t DEF TypeInv, TypeOK
  <2>3. LogOK'
    <3>1. ASSUME NEW i \in DOMAIN tx PROVE tx[i].start <= now'
      <4>1. tx[i] \in Transmission
          BY DEF TypeInv, TypeOK
      <4>2. QED
          BY <1>n, <2>1, <2>2, <4>1 DEF LogOK, Transmission
    <3>2. QED
        BY <2>1, <3>1 DEF LogOK
  <2>4. PrunedOK'
    <3>1. ASSUME NEW i \in (DOMAIN tx) \ active PROVE tx[i].end + Retention < now'
      <4>1. tx[i] \in Transmission
          BY DEF TypeInv, TypeOK
      <4>2. QED
          BY <1>n, <2>1, <2>2, <4>1 DEF PrunedOK, Transmission
    <3>2. QED
        BY <2>1, <3>1 DEF PrunedOK
  <2>5. GatherOK' /\ TasksOK'
      BY <2>1 DEF GatherOK, TasksOK, TaskOK, InTime
  <2>6. VerdictsOK'
    <3>1. ASSUME NEW e \in trace PROVE RecordOK(e)'
      <4>1. RecordOK(e) /\ e.t \in Nat
          BY DEF VerdictsOK, TypeInv, TypeOK, Record
      <4>2. QED
          BY <1>n, <2>1, <2>2, <4>1 DEF RecordOK
    <3>2. QED
        BY <2>1, <3>1 DEF VerdictsOK
  <2>7. QED
      BY <1>t, <2>3, <2>4, <2>5, <2>6
<1>9. CASE UNCHANGED vars
    BY <1>9, <1>t
    DEF vars, LogOK, PrunedOK, GatherOK, TasksOK, TaskOK, VerdictsOK, RecordOK,
        InTime
<1>10. QED
    BY <1>1, <1>2, <1>3, <1>4, <1>5, <1>6, <1>7, <1>8, <1>9 DEF Next

\* When the register keeps a transmission long enough for the longest packet,
\* link and lateness, every outcome the trace records is, for ever, the one the
\* complete history of transmissions gives.
THEOREM VerdictsAgree ==
    ASSUME RetentionSuffices
    PROVE  Spec => []TraceAgreesWithAir
<1>1. IInv => TraceAgreesWithAir
    BY DEF IInv, VerdictsOK, RecordOK, TraceAgreesWithAir
<1>2. IInv /\ [Next]_vars => IInv'
    BY IInvStep
<1>3. QED
    BY IInvInit, <1>1, <1>2, PTL DEF Spec

-----------------------------------------------------------------------------
(* How a transmission is served                                            *)

\* A transmission has no tasks before its gather returns, and then one per
\* receiver at most.
OneTaskEach ==
    /\ \A d \in tasks : d.kind = "tx" => lbt[tx[d.n].sender] # d.n
    /\ \A d, e \in tasks :
          d.kind = "tx" /\ e.kind = "tx" /\ d.n = e.n /\ d.to = e.to => d = e

\* Records are of transmissions there were.
RecordsRefer == \A e \in trace : e.kind = "tx" => e.n \in DOMAIN tx

SettleInv == OneTaskEach /\ RecordsRefer /\ SettledOnce

\* A task whose receiver can decode the packet had it notified; the receiver of
\* a task that has passed the gates can.
Noticed(i, r) ==
    Airtime[tx[i].pkt] > 0 /\ Decodes(tx[i].sender, r) => <<i, r>> \in heard

TasksNoticed ==
    \A d \in tasks : d.kind = "tx" =>
        /\ Noticed(d.n, d.to)
        /\ d.stage = "asleep" => Decodes(tx[d.n].sender, d.to)

NoticeInv == TasksNoticed /\ RecordsRefer /\ NotifiedBeforeDelivered

-----------------------------------------------------------------------------

\* The transmissions there were stay, and the new one is the next.
LEMMA OnTxLog ==
    ASSUME TypeInv, NEW s \in Node, NEW p \in Packet, OnTx(s, p)
    PROVE  /\ DOMAIN tx' = (DOMAIN tx) \cup {Len(tx) + 1}
           /\ Len(tx) + 1 \notin DOMAIN tx
           /\ Len(tx) + 1 # 0
           /\ tx'[Len(tx) + 1].sender = s /\ tx'[Len(tx) + 1].pkt = p
           /\ \A i \in DOMAIN tx : tx'[i] = tx[i]
<1> DEFINE x == [sender |-> s, pkt |-> p, start |-> now, end |-> now + Airtime[p]]
           T == Transmission
<1>1. tx \in Seq(T) BY DEF TypeInv, TypeOK
<1>2. tx' = Append(tx, x) BY DEF OnTx
<1>3. x.sender = s /\ x.pkt = p OBVIOUS
<1>4. x \in T BY RouterAssumption DEF Transmission, TypeInv, TypeOK
<1> HIDE DEF x, T
<1>5. Len(tx) \in Nat /\ DOMAIN tx = 1 .. Len(tx) BY <1>1
<1>6. DOMAIN tx' = 1 .. Len(tx) + 1 /\ tx'[Len(tx) + 1] = x
      /\ \A i \in DOMAIN tx : tx'[i] = tx[i]
      BY <1>1, <1>2, <1>4
<1> QED BY <1>3, <1>5, <1>6

\* The tasks of a broadcast: of one transmission, to its neighbours.
LEMMA DeliveriesFacts ==
    ASSUME NEW n, NEW s, NEW p
    PROVE  /\ \A d \in Deliveries("tx", n, s, p) :
                d.kind = "tx" /\ d.n = n /\ d.stage = "new" /\ d.to \in Neighbours(s)
           /\ \A d, e \in Deliveries("tx", n, s, p) : d.to = e.to => d = e
BY DEF Deliveries

LEMMA ReplaysFacts == \A k, s, p : \A d \in Deliveries("replay", k, s, p) : d.kind = "replay"
BY DEF Deliveries

\* What a task that settles writes, if anything.
LEMMA SettleFacts ==
    ASSUME NEW d \in tasks, Arrive(d)
    PROVE  /\ tasks' = tasks \ {d}
           /\ UNCHANGED <<now, tx, lbt, heard>>
           /\ \/ trace' = trace
              \/ \E e : /\ trace' = trace \cup {e}
                        /\ e.kind = d.kind /\ e.n = d.n /\ e.to = d.to /\ e.t = now
           /\ d.stage = "asleep" \/ Decodes(Sender(d), d.to)
<1>1. PICK p, c : Settle(d, p, c) BY DEF Arrive, Wake, ArriveAtOnce
<1>2. d.stage = "asleep" \/ Decodes(Sender(d), d.to)
      BY DEF Arrive, Wake, ArriveAtOnce, Passes
<1> DEFINE o == Outcome(d)
           e == [is |-> o.is, kind |-> d.kind, n |-> d.n, to |-> d.to,
                 fp |-> Fingerprint[p], t |-> now, by |-> o.by]
<1>3. trace' = trace \/ trace' = trace \cup {e} BY <1>1 DEF Settle
<1>4. e.kind = d.kind /\ e.n = d.n /\ e.to = d.to /\ e.t = now OBVIOUS
<1>5. tasks' = tasks \ {d} /\ UNCHANGED <<now, tx, lbt, heard>> BY <1>1 DEF Settle
<1> HIDE DEF e
<1> QED BY <1>2, <1>3, <1>4, <1>5

\* A task that goes to sleep is the same task.
LEMMA SleepFacts ==
    ASSUME TypeInv, NEW d \in tasks, Sleep(d)
    PROVE  /\ UNCHANGED <<tx, lbt, heard, trace>>
           /\ Decodes(Sender(d), d.to)
           /\ \E e : /\ tasks' = (tasks \ {d}) \cup {e}
                     /\ e.kind = d.kind /\ e.n = d.n /\ e.to = d.to
<1>1. PICK w \in Passes(Sender(d), d.to, d.pkt) :
          tasks' = (tasks \ {d}) \cup
                      {[d EXCEPT !.pkt = w.pkt, !.stage = "asleep", !.due = DueTime(d)]}
      BY DEF Sleep
<1>2. Decodes(Sender(d), d.to) BY <1>1 DEF Passes
<1>3. d \in Delivery BY TaskFacts
<1> DEFINE e == [d EXCEPT !.pkt = w.pkt, !.stage = "asleep", !.due = DueTime(d)]
<1>4. e.kind = d.kind /\ e.n = d.n /\ e.to = d.to BY <1>3 DEF Delivery
<1>5. tasks' = (tasks \ {d}) \cup {e} BY <1>1
<1> HIDE DEF e
<1>6. UNCHANGED <<tx, lbt, heard, trace>> BY DEF Sleep
<1> QED BY <1>2, <1>4, <1>5, <1>6

-----------------------------------------------------------------------------
(* Settled once                                                            *)

\* A step that takes tasks away, ends gathers or changes nothing of either.
LEMMA FewerTasks ==
    ASSUME SettleInv, UNCHANGED <<tx, lbt, trace>>,
           \A d \in tasks' : d.kind = "tx" => d \in tasks
    PROVE  SettleInv'
BY DEF SettleInv, OneTaskEach, RecordsRefer, SettledOnce

LEMMA SettleKept == TypeInv /\ SettleInv /\ [Next]_vars => SettleInv'
<1> SUFFICES ASSUME TypeInv, SettleInv, [Next]_vars PROVE SettleInv' OBVIOUS
<1>0. /\ lbt \in [Node -> {0} \cup DOMAIN tx]
      /\ \A d \in tasks : d.kind = "tx" => d.n \in DOMAIN tx /\ tx[d.n].sender \in Node
      /\ \A i \in DOMAIN tx : tx[i].sender \in Node
      /\ \A s \in Node : lbt[s] # 0 => tx[lbt[s]].sender = s
  <2>1. \A i \in DOMAIN tx : tx[i] \in Transmission BY DEF TypeInv, TypeOK
  <2>2. \A i \in DOMAIN tx : tx[i].sender \in Node BY <2>1 DEF Transmission
  <2> QED BY <2>2 DEF TypeInv, TypeOK, ReferencesOK, RefersOK
<1>1. ASSUME NEW s \in Node, NEW p \in Packet, OnTx(s, p) PROVE SettleInv'
  <2> DEFINE id == Len(tx) + 1
             D == Deliveries("tx", id, s, p)
  <2>1. /\ DOMAIN tx' = (DOMAIN tx) \cup {id} /\ id \notin DOMAIN tx /\ id # 0
        /\ tx'[id].sender = s
        /\ \A i \in DOMAIN tx : tx'[i] = tx[i]
        BY <1>1, OnTxLog
  <2>2. \/ tasks' = tasks \cup D /\ lbt' = lbt
        \/ tasks' = tasks /\ lbt' = [lbt EXCEPT ![s] = id]
        BY <1>1 DEF OnTx
  <2>3. trace' = trace BY <1>1 DEF OnTx
  <2>4. /\ \A d \in D : d.kind = "tx" /\ d.n = id
        /\ \A d, e \in D : d.to = e.to => d = e
        BY DeliveriesFacts
  <2>5. lbt[s] = 0 BY <1>1 DEF OnTx
  <2> HIDE DEF id, D
  <2>6. \A i \in DOMAIN tx, n \in Node : lbt'[n] = i <=> lbt[n] = i
    <3>1. 0 \notin DOMAIN tx BY DEF TypeInv, TypeOK
    <3>2. \A n \in Node : lbt'[n] = lbt[n] \/ (n = s /\ lbt'[n] = id) BY <1>0, <2>2
    <3> QED BY <2>1, <2>5, <3>1, <3>2
  <2>7. lbt'[s] = id => tasks' = tasks BY <1>0, <2>1, <2>2, <2>5
  <2>8. \A d \in tasks' : d.kind = "tx" => lbt'[tx'[d.n].sender] # d.n
    <3>1. ASSUME NEW d \in tasks, d.kind = "tx" PROVE lbt'[tx'[d.n].sender] # d.n
          BY <1>0, <2>1, <2>6, <3>1 DEF SettleInv, OneTaskEach
    <3>2. ASSUME NEW d \in D, lbt' = lbt PROVE lbt'[tx'[d.n].sender] # d.n
          BY <2>1, <2>4, <2>5, <3>2
    <3> QED BY <2>2, <3>1, <3>2
  <2>9. \A d, e \in tasks' :
           d.kind = "tx" /\ e.kind = "tx" /\ d.n = e.n /\ d.to = e.to => d = e
        BY <1>0, <2>1, <2>2, <2>4 DEF SettleInv, OneTaskEach
  <2>10. RecordsRefer' BY <2>1, <2>3 DEF SettleInv, RecordsRefer
  <2>11. SettledOnce'
    <3> SUFFICES ASSUME NEW e \in trace, e.kind = "tx"
        PROVE  /\ \A f \in trace : f.kind = "tx" /\ f.n = e.n /\ f.to = e.to => f = e
               /\ \A d \in tasks' : ~ (d.kind = "tx" /\ d.n = e.n /\ d.to = e.to)
               /\ lbt'[tx'[e.n].sender] # e.n
        BY <2>3 DEF SettledOnce
    <3>1. e.n \in DOMAIN tx BY DEF SettleInv, RecordsRefer
    <3>2. \A d \in tasks' : d.kind = "tx" /\ d.n = e.n => d \in tasks
          BY <2>1, <2>2, <2>4, <3>1
    <3>3. lbt'[tx'[e.n].sender] # e.n
          BY <1>0, <2>1, <2>6, <3>1 DEF SettleInv, SettledOnce
    <3> QED BY <3>2, <3>3 DEF SettleInv, SettledOnce
  <2> QED BY <2>8, <2>9, <2>10, <2>11 DEF SettleInv, OneTaskEach
<1>2. ASSUME NEW s \in Node, NEW r \in Node, Notify(s, r) PROVE SettleInv'
      BY <1>2, FewerTasks DEF Notify
<1>3. ASSUME NEW s \in Node, Spawn(s) PROVE SettleInv'
  <2> DEFINE i == lbt[s]
             D == Deliveries("tx", i, s, tx[i].pkt)
  <2>1. /\ i # 0 /\ tasks' = tasks \cup D /\ lbt' = [lbt EXCEPT ![s] = 0]
        /\ UNCHANGED <<tx, trace>>
        BY <1>3 DEF Spawn
  <2>2. /\ \A d \in D : d.kind = "tx" /\ d.n = i
        /\ \A d, e \in D : d.to = e.to => d = e
        BY DeliveriesFacts
  <2>3. i \in DOMAIN tx /\ tx[i].sender = s BY <1>0, <2>1
  <2>4. lbt[s] = i OBVIOUS
  <2> HIDE DEF i, D
  <2>5. \A d \in tasks : d.kind = "tx" => d.n # i
        BY <2>3, <2>4 DEF SettleInv, OneTaskEach
  <2>6. \A e \in trace : e.kind = "tx" => e.n # i
        BY <2>3, <2>4 DEF SettleInv, SettledOnce
  <2>7. \A j \in DOMAIN tx : lbt'[tx[j].sender] = j => lbt[tx[j].sender] = j /\ j # i
    <3>1. \A n \in Node : lbt'[n] = IF n = s THEN 0 ELSE lbt[n] BY <1>0, <2>1
    <3>2. 0 \notin DOMAIN tx BY DEF TypeInv, TypeOK
    <3> QED BY <1>0, <2>3, <3>1, <3>2
  <2>8. \A d \in tasks' : d.kind = "tx" => lbt'[tx[d.n].sender] # d.n
        BY <1>0, <2>1, <2>2, <2>3, <2>7 DEF SettleInv, OneTaskEach
  <2>9. \A d, e \in tasks' :
           d.kind = "tx" /\ e.kind = "tx" /\ d.n = e.n /\ d.to = e.to => d = e
        BY <2>1, <2>2, <2>5 DEF SettleInv, OneTaskEach
  <2>10. RecordsRefer' BY <2>1 DEF SettleInv, RecordsRefer
  <2>11. SettledOnce'
    <3> SUFFICES ASSUME NEW e \in trace, e.kind = "tx"
        PROVE  /\ \A f \in trace : f.kind = "tx" /\ f.n = e.n /\ f.to = e.to => f = e
               /\ \A d \in tasks' : ~ (d.kind = "tx" /\ d.n = e.n /\ d.to = e.to)
               /\ lbt'[tx[e.n].sender] # e.n
        BY <2>1 DEF SettledOnce
    <3>1. e.n \in DOMAIN tx BY DEF SettleInv, RecordsRefer
    <3>2. \A d \in tasks' : d.kind = "tx" /\ d.n = e.n => d \in tasks
          BY <2>1, <2>2, <2>6
    <3>3. lbt'[tx[e.n].sender] # e.n BY <2>7, <3>1 DEF SettleInv, SettledOnce
    <3> QED BY <3>2, <3>3 DEF SettleInv, SettledOnce
  <2> QED BY <2>1, <2>8, <2>9, <2>10, <2>11 DEF SettleInv, OneTaskEach
<1>4. ASSUME NEW d \in tasks, Suppress(d) PROVE SettleInv'
      BY <1>4, FewerTasks DEF Suppress
<1>5. ASSUME NEW d \in tasks, Sleep(d) PROVE SettleInv'
  <2>1. PICK e : /\ tasks' = (tasks \ {d}) \cup {e}
                 /\ e.kind = d.kind /\ e.n = d.n /\ e.to = d.to
        BY <1>5, SleepFacts
  <2>2. UNCHANGED <<tx, lbt, trace>> BY <1>5, SleepFacts
  <2>3. OneTaskEach' BY <2>1, <2>2 DEF SettleInv, OneTaskEach
  <2>4. SettledOnce' /\ RecordsRefer'
        BY <2>1, <2>2 DEF SettleInv, SettledOnce, RecordsRefer
  <2> QED BY <2>3, <2>4 DEF SettleInv
<1>6. ASSUME NEW d \in tasks, Arrive(d) PROVE SettleInv'
  <2>1. tasks' = tasks \ {d} /\ UNCHANGED <<tx, lbt>> BY <1>6, SettleFacts
  <2>2. OneTaskEach' BY <2>1 DEF SettleInv, OneTaskEach
  <2>3. CASE trace' = trace BY <2>1, <2>3, FewerTasks
  <2>4. ASSUME NEW e, trace' = trace \cup {e},
               e.kind = d.kind, e.n = d.n, e.to = d.to
        PROVE  SettleInv'
    <3>1. RecordsRefer' BY <1>0, <2>1, <2>4 DEF SettleInv, RecordsRefer
    <3>2. SettledOnce'
      <4>1. ASSUME d.kind = "tx"
            PROVE  /\ \A f \in trace : ~ (f.kind = "tx" /\ f.n = d.n /\ f.to = d.to)
                   /\ lbt[tx[d.n].sender] # d.n
                   /\ \A c \in tasks \ {d} :
                        ~ (c.kind = "tx" /\ c.n = d.n /\ c.to = d.to)
            BY <4>1 DEF SettleInv, SettledOnce, OneTaskEach
      <4> QED BY <2>1, <2>4, <4>1 DEF SettleInv, SettledOnce
    <3> QED BY <2>2, <3>1, <3>2 DEF SettleInv
  <2> QED BY <1>6, <2>3, <2>4, SettleFacts
<1>7. CASE Drain
  <2>1. UNCHANGED <<tx, lbt, trace>> BY <1>7 DEF Drain
  <2>2. \A d \in tasks' : d.kind = "tx" => d \in tasks
        BY <1>7, ReplaysFacts DEF Drain
  <2> QED BY <2>1, <2>2, FewerTasks
<1>8. CASE Advance BY <1>8, FewerTasks DEF Advance
<1>9. CASE UNCHANGED vars BY <1>9, FewerTasks DEF vars
<1> QED BY <1>1, <1>2, <1>3, <1>4, <1>5, <1>6, <1>7, <1>8, <1>9 DEF Next

\* A transmission is settled at most once at a receiver, and only when its
\* gather has returned and no task of it is left there, however the tasks, the
\* notices and the replays interleave (router.py, _on_tx and _deliver_to).
THEOREM SettlesOnce == Spec => []SettledOnce
<1>1. Init => SettleInv
      BY DEF Init, SettleInv, OneTaskEach, RecordsRefer, SettledOnce
<1>2. SettleInv => SettledOnce BY DEF SettleInv
<1> QED BY <1>1, <1>2, TypeInit, TypeStep, SettleKept, PTL DEF Spec

-----------------------------------------------------------------------------
(* Notified before delivered                                               *)

LEMMA StillNoticed ==
    ASSUME NoticeInv, UNCHANGED <<tx, trace>>, heard \subseteq heard',
           \A d \in tasks' : d.kind = "tx" => d \in tasks
    PROVE  NoticeInv'
BY DEF NoticeInv, TasksNoticed, Noticed, RecordsRefer, NotifiedBeforeDelivered

LEMMA NoticeKept == TypeInv /\ NoticeInv /\ [Next]_vars => NoticeInv'
<1> SUFFICES ASSUME TypeInv, NoticeInv, [Next]_vars PROVE NoticeInv' OBVIOUS
<1>0. /\ \A d \in tasks : d.kind = "tx" => d.n \in DOMAIN tx
      /\ \A s \in Node : lbt[s] # 0 => lbt[s] \in DOMAIN tx /\ tx[lbt[s]].sender = s
      BY DEF TypeInv, TypeOK, ReferencesOK, RefersOK
<1>1. ASSUME NEW s \in Node, NEW p \in Packet, OnTx(s, p) PROVE NoticeInv'
  <2> DEFINE id == Len(tx) + 1
             D == Deliveries("tx", id, s, p)
  <2>1. /\ DOMAIN tx' = (DOMAIN tx) \cup {id} /\ id \notin DOMAIN tx
        /\ tx'[id].sender = s /\ tx'[id].pkt = p
        /\ \A i \in DOMAIN tx : tx'[i] = tx[i]
        BY <1>1, OnTxLog
  <2>2. \/ tasks' = tasks \cup D /\ Listeners(s, p) = {}
        \/ tasks' = tasks
        BY <1>1 DEF OnTx
  <2>3. UNCHANGED <<trace, heard>> BY <1>1 DEF OnTx
  <2>4. \A d \in D : d.kind = "tx" /\ d.n = id /\ d.stage = "new" /\ d.to \in Neighbours(s)
        BY DeliveriesFacts
  <2> HIDE DEF id, D
  <2>5. ASSUME NEW d \in D, Listeners(s, p) = {} PROVE Noticed(d.n, d.to)'
        BY <2>1, <2>4, <2>5 DEF Noticed, Listeners
  <2>6. ASSUME NEW d \in tasks, d.kind = "tx"
        PROVE  /\ Noticed(d.n, d.to)'
               /\ d.stage = "asleep" => Decodes(tx'[d.n].sender, d.to)
        BY <1>0, <2>1, <2>3, <2>6 DEF NoticeInv, TasksNoticed, Noticed
  <2>7. TasksNoticed' BY <2>2, <2>4, <2>5, <2>6 DEF TasksNoticed
  <2>8. RecordsRefer' /\ NotifiedBeforeDelivered'
        BY <2>1, <2>3 DEF NoticeInv, RecordsRefer, NotifiedBeforeDelivered
  <2> QED BY <2>7, <2>8 DEF NoticeInv
<1>2. ASSUME NEW s \in Node, NEW r \in Node, Notify(s, r) PROVE NoticeInv'
      BY <1>2, StillNoticed DEF Notify
<1>3. ASSUME NEW s \in Node, Spawn(s) PROVE NoticeInv'
  <2> DEFINE i == lbt[s]
             p == tx[i].pkt
             D == Deliveries("tx", i, s, p)
  <2>1. /\ i # 0 /\ tasks' = tasks \cup D /\ UNCHANGED <<tx, trace, heard>>
        /\ \A r \in Listeners(s, p) : <<i, r>> \in heard
        BY <1>3 DEF Spawn
  <2>2. \A d \in D : d.kind = "tx" /\ d.n = i /\ d.stage = "new" /\ d.to \in Neighbours(s)
        BY DeliveriesFacts
  <2>3. tx[i].sender = s /\ tx[i].pkt = p BY <1>0, <2>1
  <2> HIDE DEF i, p, D
  <2>4. ASSUME NEW d \in D PROVE Noticed(d.n, d.to)'
        BY <2>1, <2>2, <2>3 DEF Noticed, Listeners
  <2>5. TasksNoticed' BY <2>1, <2>2, <2>4 DEF NoticeInv, TasksNoticed, Noticed
  <2>6. RecordsRefer' /\ NotifiedBeforeDelivered'
        BY <2>1 DEF NoticeInv, RecordsRefer, NotifiedBeforeDelivered
  <2> QED BY <2>5, <2>6 DEF NoticeInv
<1>4. ASSUME NEW d \in tasks, Suppress(d) PROVE NoticeInv'
      BY <1>4, StillNoticed DEF Suppress
<1>5. ASSUME NEW d \in tasks, Sleep(d) PROVE NoticeInv'
  <2>1. PICK e : /\ tasks' = (tasks \ {d}) \cup {e}
                 /\ e.kind = d.kind /\ e.n = d.n /\ e.to = d.to
        BY <1>5, SleepFacts
  <2>2. UNCHANGED <<tx, heard, trace>> /\ Decodes(Sender(d), d.to) BY <1>5, SleepFacts
  <2>3. d.kind = "tx" => Noticed(e.n, e.to)' /\ Decodes(tx[e.n].sender, e.to)
        BY <2>1, <2>2 DEF NoticeInv, TasksNoticed, Noticed, Sender
  <2>4. TasksNoticed' BY <2>1, <2>2, <2>3 DEF NoticeInv, TasksNoticed, Noticed
  <2>5. RecordsRefer' /\ NotifiedBeforeDelivered'
        BY <2>2 DEF NoticeInv, RecordsRefer, NotifiedBeforeDelivered
  <2> QED BY <2>4, <2>5 DEF NoticeInv
<1>6. ASSUME NEW d \in tasks, Arrive(d) PROVE NoticeInv'
  <2>1. /\ tasks' = tasks \ {d} /\ UNCHANGED <<tx, heard>>
        /\ d.stage = "asleep" \/ Decodes(Sender(d), d.to)
        BY <1>6, SettleFacts
  <2>2. TasksNoticed' BY <2>1 DEF NoticeInv, TasksNoticed, Noticed
  <2>3. CASE trace' = trace BY <2>1, <2>3, StillNoticed
  <2>4. ASSUME NEW e, trace' = trace \cup {e},
               e.kind = d.kind, e.n = d.n, e.to = d.to
        PROVE  NoticeInv'
    <3>1. d.kind = "tx" => Decodes(tx[d.n].sender, d.to)
          BY <2>1 DEF NoticeInv, TasksNoticed, Sender
    <3>2. d.kind = "tx" /\ Airtime[tx[d.n].pkt] > 0 => <<d.n, d.to>> \in heard
          BY <3>1 DEF NoticeInv, TasksNoticed, Noticed
    <3>3. NotifiedBeforeDelivered'
          BY <2>1, <2>4, <3>2 DEF NoticeInv, NotifiedBeforeDelivered
    <3>4. RecordsRefer' BY <1>0, <2>1, <2>4 DEF NoticeInv, RecordsRefer
    <3> QED BY <2>2, <3>3, <3>4 DEF NoticeInv
  <2> QED BY <1>6, <2>3, <2>4, SettleFacts
<1>7. CASE Drain
  <2>1. UNCHANGED <<tx, heard, trace>> BY <1>7 DEF Drain
  <2>2. \A d \in tasks' : d.kind = "tx" => d \in tasks
        BY <1>7, ReplaysFacts DEF Drain
  <2> QED BY <2>1, <2>2, StillNoticed
<1>8. CASE Advance BY <1>8, StillNoticed DEF Advance
<1>9. CASE UNCHANGED vars BY <1>9, StillNoticed DEF vars
<1> QED BY <1>1, <1>2, <1>3, <1>4, <1>5, <1>6, <1>7, <1>8, <1>9 DEF Next

\* A node is told that a packet begins before it is handed the packet, or the
\* trace records what became of it there (router.py, _on_tx: the gather of the
\* notices precedes the delivery tasks).
THEOREM NoticePrecedes == Spec => []NotifiedBeforeDelivered
<1>1. Init => NoticeInv
      BY DEF Init, NoticeInv, TasksNoticed, RecordsRefer, NotifiedBeforeDelivered
<1>2. NoticeInv => NotifiedBeforeDelivered BY DEF NoticeInv
<1> QED BY <1>1, <1>2, TypeInit, TypeStep, NoticeKept, PTL DEF Spec

-----------------------------------------------------------------------------
(* At most one decoded                                                     *)

\* The larger of two integers, and the durations that bound an overlap.
LEMMA MaxOfTwo ==
    ASSUME NEW a \in Int, NEW b \in Int
    PROVE  a <= Max({a, b}) /\ b <= Max({a, b}) /\ Max({a, b}) \in Int
<1>1. \E x \in {a, b} : \A y \in {a, b} : x >= y OBVIOUS
<1>2. /\ Max({a, b}) \in {a, b}
      /\ \A y \in {a, b} : Max({a, b}) >= y
      BY <1>1, Zenon DEF Max
<1> HIDE DEF Max
<1> QED BY <1>2

LEMMA TolerancesType == GracePeriod \in Int /\ FecTolerance \in Int
<1>1. TSym \in Int BY RadioAssumption DEF TSym
<1>2. FecSymbols \in Int BY DEF FecSymbols, FEC_SYMBOLS
<1>3. PreambleSymbols - 5 \in Int BY RadioAssumption
<1>4. \A a, b \in Int : a * b \in Int OBVIOUS
<1> QED BY <1>1, <1>2, <1>3, <1>4 DEF GracePeriod, FecTolerance

\* When neither of two transmissions that overlap at r destroys the other, one
\* of them was let through by the grace period or by the FEC: they cannot both
\* capture.
LEMMA SurvivorsOverlapLittle ==
    ASSUME CapDb > 0,
           NEW x \in Transmission, NEW y \in Transmission, NEW r \in Node,
           r \in Neighbours(x.sender), r \in Neighbours(y.sender),
           x.sender # y.sender, Overlap(x, y, r),
           ~ Hits(x, y, r), ~ Hits(y, x, r)
    PROVE  OverlapTime(x, y, r) <= Max({GracePeriod, FecTolerance})
<1> DEFINE a == RxStart(x, r)  b == RxEnd(x, r)
           c == RxStart(y, r)  d == RxEnd(y, r)
           G == GracePeriod    F == FecTolerance    M == Max({G, F})
<1>1. a \in Int /\ b \in Int /\ c \in Int /\ d \in Int
  <2>1. x.sender \in Node /\ y.sender \in Node /\ x.start \in Nat /\ x.end \in Nat
        /\ y.start \in Nat /\ y.end \in Nat
        BY DEF Transmission
  <2>2. Latency[<<x.sender, r>>] \in Nat /\ Latency[<<y.sender, r>>] \in Nat
        BY <2>1, LatencyType
  <2> QED BY <2>1, <2>2 DEF RxStart, RxEnd
<1>2. G \in Int /\ F \in Int /\ M \in Int /\ G <= M /\ F <= M
      BY TolerancesType, MaxOfTwo
<1>3. <<x.sender, r>> \in Link /\ <<y.sender, r>> \in Link BY DEF Neighbours
<1>4. ~ (Captures(x, y, r) /\ Captures(y, x, r))
  <2>1. Snr[<<x.sender, r>>] \in Int /\ Snr[<<y.sender, r>>] \in Int /\ CapDb \in Int
        BY <1>3, RadioAssumption
  <2> QED BY <2>1 DEF Captures
<1>5. c < b /\ d > a BY DEF Overlap
<1>6. \/ InGrace(x, y, r) \/ FecCorrects(x, y, r)
      \/ InGrace(y, x, r) \/ FecCorrects(y, x, r)
  <2>1. Overlap(y, x, r) BY <1>1, <1>5 DEF Overlap
  <2> QED BY <1>3, <1>4, <2>1 DEF Hits
<1>7. /\ OverlapTime(x, y, r) = (IF b <= d THEN b ELSE d) - (IF a >= c THEN a ELSE c)
      /\ OverlapTime(y, x, r) = (IF d <= b THEN d ELSE b) - (IF c >= a THEN c ELSE a)
      BY DEF OverlapTime, OverlapStart, OverlapEnd
<1>8. InGrace(x, y, r) => d <= a + G BY DEF InGrace, PreambleCritical
<1>9. InGrace(y, x, r) => b <= c + G BY DEF InGrace, PreambleCritical
<1>10. FecCorrects(x, y, r) => OverlapTime(x, y, r) <= F BY DEF FecCorrects
<1>11. FecCorrects(y, x, r) => OverlapTime(y, x, r) <= F BY DEF FecCorrects
<1> HIDE DEF a, b, c, d, G, F, M
<1>12. OverlapTime(x, y, r) <= M
       BY <1>1, <1>2, <1>6, <1>7, <1>8, <1>9, <1>10, <1>11
<1> QED BY <1>12 DEF M, G, F

\* A hop verdict of the history: nothing in it destroys the packet.
LEMMA HopMeansUnhit ==
    ASSUME NEW txs, NEW ids, NEW i, NEW j \in ids \ {i}, NEW r,
           Verdict(txs, ids, i, r).is = "hop"
    PROVE  ~ Hits(txs[i], txs[j], r)
<1>1. is_lost(txs, ids, i, r) = {} BY DEF Verdict
<1> QED BY <1>1 DEF is_lost

\* Two packets that really collide at a receiver are never both decoded there
\* (channel.py, is_lost, evaluated for each packet on its own and late), when
\* the capture threshold is positive and the register keeps transmissions long
\* enough.
THEOREM OneSurvivesACollision ==
    ASSUME RetentionSuffices, CapDb > 0
    PROVE  Spec => []AtMostOneDecoded
<1>1. ASSUME IInv PROVE AtMostOneDecoded
  <2> SUFFICES ASSUME NEW e \in trace, NEW f \in trace,
                      e.kind = "tx", f.kind = "tx", e.is = "hop", f.is = "hop",
                      e.to = f.to, tx[e.n].sender # tx[f.n].sender,
                      Overlap(tx[e.n], tx[f.n], e.to)
               PROVE  OverlapTime(tx[e.n], tx[f.n], e.to)
                        <= Max({GracePeriod, FecTolerance})
      BY DEF AtMostOneDecoded
  <2>1. /\ e.n \in DOMAIN tx /\ e.to \in Neighbours(tx[e.n].sender)
        /\ Verdict(tx, DOMAIN tx, e.n, e.to).is = "hop"
    <3>1. /\ e.n \in DOMAIN tx /\ e.to \in Neighbours(tx[e.n].sender)
          /\ Verdict(tx, DOMAIN tx, e.n, e.to) = [is |-> e.is, by |-> e.by]
          BY <1>1 DEF IInv, VerdictsOK, RecordOK
    <3> QED BY <3>1
  <2>2. /\ f.n \in DOMAIN tx /\ e.to \in Neighbours(tx[f.n].sender)
        /\ Verdict(tx, DOMAIN tx, f.n, e.to).is = "hop"
    <3>1. /\ f.n \in DOMAIN tx /\ f.to \in Neighbours(tx[f.n].sender)
          /\ Verdict(tx, DOMAIN tx, f.n, f.to) = [is |-> f.is, by |-> f.by]
          BY <1>1 DEF IInv, VerdictsOK, RecordOK
    <3> QED BY <3>1
  <2>3. tx[e.n] \in Transmission /\ tx[f.n] \in Transmission /\ e.to \in Node
        BY <1>1, <2>1, <2>2 DEF IInv, TypeInv, TypeOK, Neighbours
  <2>4. ~ Hits(tx[e.n], tx[f.n], e.to) /\ ~ Hits(tx[f.n], tx[e.n], e.to)
    <3>1. e.n # f.n OBVIOUS
    <3> QED BY <2>1, <2>2, <3>1, HopMeansUnhit
  <2> QED BY <2>1, <2>2, <2>3, <2>4, SurvivorsOverlapLittle
<1>2. IInv /\ [Next]_vars => IInv' BY IInvStep
<1> QED BY <1>1, <1>2, IInvInit, PTL DEF Spec

\* "Packets that would arrive while a node is transmitting are correctly
\* discarded by the orchestrator" (SIMULATION.md): they are when the register
\* keeps transmissions long enough; a replay, which the channel does not judge,
\* is another matter.
THEOREM HalfDuplexHolds ==
    ASSUME RetentionSuffices
    PROVE  Spec => []HalfDuplexEnforced
<1>1. ASSUME IInv PROVE HalfDuplexEnforced
  <2> SUFFICES ASSUME NEW e \in trace, e.kind = "tx", e.is = "hop", NEW i \in DOMAIN tx
               PROVE  ~ Deafens(tx[e.n], tx[i], e.to)
      BY DEF HalfDuplexEnforced
  <2>1. [is |-> e.is, by |-> e.by] = Verdict(tx, DOMAIN tx, e.n, e.to)
        BY <1>1 DEF IInv, VerdictsOK, RecordOK
  <2>2. Verdict(tx, DOMAIN tx, e.n, e.to).is = "hop" BY <2>1
  <2>3. is_receiver_busy(tx, DOMAIN tx, e.n, e.to) = {} BY <2>2 DEF Verdict
  <2> QED BY <2>3 DEF is_receiver_busy
<1>2. IInv /\ [Next]_vars => IInv' BY IInvStep
<1> QED BY <1>1, <1>2, IInvInit, PTL DEF Spec

-----------------------------------------------------------------------------
(* The ideal medium                                                        *)

\* Medium's channel is this channel.
LEMMA SameChannel ==
    /\ \A txs, ids, i, r : Air!Verdict(txs, ids, i, r) = Verdict(txs, ids, i, r)
    /\ \A s : Air!Neighbours(s) = Neighbours(s)
    /\ \A x, r : Air!RxEnd(x, r) = RxEnd(x, r)
<1>1. \A s : Air!Neighbours(s) = Neighbours(s) BY DEF Air!Neighbours, Neighbours
<1>2. \A x, r : Air!RxEnd(x, r) = RxEnd(x, r) BY DEF Air!RxEnd, RxEnd
<1>3. \A x, y, r : Air!Hits(x, y, r) <=> Hits(x, y, r)
      BY DEF Air!Hits, Air!Overlap, Air!RxStart, Air!RxEnd, Air!Captures, Air!InGrace,
             Air!PreambleCritical, Air!FecCorrects, Air!OverlapTime, Air!OverlapStart,
             Air!OverlapEnd, Air!GracePeriod, Air!FecTolerance, Air!FecSymbols,
             Air!FEC_SYMBOLS, Air!TSym, Air!TPreamble,
             Hits, Overlap, RxStart, RxEnd, Captures, InGrace,
             PreambleCritical, FecCorrects, OverlapTime, OverlapStart,
             OverlapEnd, GracePeriod, FecTolerance, FecSymbols, FEC_SYMBOLS, TSym, TPreamble
<1>4. \A x, y, r : Air!Deafens(x, y, r) <=> Deafens(x, y, r)
      BY DEF Air!Deafens, Air!RxEnd, Air!RxStart, Deafens, RxEnd, RxStart
<1>5. \A txs, ids, i, r : Air!is_receiver_busy(txs, ids, i, r) = is_receiver_busy(txs, ids, i, r)
      BY <1>4 DEF Air!is_receiver_busy, is_receiver_busy
<1>6. \A txs, ids, i, r : Air!is_lost(txs, ids, i, r) = is_lost(txs, ids, i, r)
      BY <1>3 DEF Air!is_lost, is_lost
<1>7. \A S : Air!Min(S) = Min(S) BY DEF Air!Min, Min
<1>8. \A txs, ids, i, r : Air!Verdict(txs, ids, i, r) = Verdict(txs, ids, i, r)
      BY <1>5, <1>6, <1>7 DEF Air!Verdict, Verdict
<1> QED BY <1>1, <1>2, <1>8

\* A verdict as the medium keeps it.
VerdictOf(e) == [n |-> e.n, to |-> e.to, is |-> e.is, by |-> e.by, t |-> e.t]

\* A record of a transmission is one more verdict, one of a replay none.
LEMMA DecidedGrows ==
    ASSUME NEW e, trace' = trace \cup {e}
    PROVE  Decided' = IF e.kind = "tx" THEN Decided \cup {VerdictOf(e)} ELSE Decided
<1>1. Decided = {VerdictOf(h) : h \in {g \in trace : g.kind = "tx"}}
      BY DEF Decided, VerdictOf
<1>2. Decided' = {VerdictOf(h) : h \in {g \in trace' : g.kind = "tx"}}
      BY DEF Decided, VerdictOf
<1> QED BY <1>1, <1>2

\* Every step of the router is a step of the medium or leaves it alone: _on_tx
\* transmits, a settling delivery that leaves a record judges, the clock ticks.
LEMMA MediumStep ==
    RetentionSuffices /\ IInv /\ SettleInv /\ [Next]_vars => [Air!Next]_(Air!mvars)
<1> SUFFICES ASSUME RetentionSuffices, IInv, SettleInv, [Next]_vars
             PROVE  Air!Next \/ UNCHANGED <<now, tx, Decided>>
    BY DEF Air!mvars
<1>0. ASSUME trace' = trace PROVE Decided' = Decided BY <1>0 DEF Decided
<1>1. ASSUME NEW s \in Node, NEW p \in Packet, OnTx(s, p) PROVE Air!Next
  <2>1. Air!Transmit(s, p) BY <1>0, <1>1 DEF OnTx, Air!Transmit
  <2> QED BY <2>1 DEF Air!Next
<1>2. ASSUME NEW s \in Node, NEW r \in Node, Notify(s, r)
      PROVE  UNCHANGED <<now, tx, Decided>>
      BY <1>0, <1>2 DEF Notify
<1>3. ASSUME NEW s \in Node, Spawn(s) PROVE UNCHANGED <<now, tx, Decided>>
      BY <1>0, <1>3 DEF Spawn
<1>4. ASSUME NEW d \in tasks, Suppress(d) PROVE UNCHANGED <<now, tx, Decided>>
      BY <1>0, <1>4 DEF Suppress
<1>5. ASSUME NEW d \in tasks, Sleep(d) PROVE UNCHANGED <<now, tx, Decided>>
      BY <1>0, <1>5 DEF Sleep
<1>6. ASSUME NEW d \in tasks, Arrive(d)
      PROVE  Air!Next \/ UNCHANGED <<now, tx, Decided>>
  <2>1. UNCHANGED <<now, tx>> BY <1>6, SettleFacts
  <2>2. CASE trace' = trace BY <1>0, <2>1, <2>2
  <2>3. ASSUME NEW e, trace' = trace \cup {e}, e.kind = d.kind, e.n = d.n,
               e.to = d.to, e.t = now
        PROVE  Air!Next \/ UNCHANGED <<now, tx, Decided>>
    <3>1. CASE e.kind # "tx" BY <2>1, <2>3, <3>1, DecidedGrows
    <3>2. CASE e.kind = "tx"
      <4>1. IInv' BY IInvStep
      <4>2. RecordOK(e)' BY <2>3, <4>1 DEF IInv, VerdictsOK
      <4>3. /\ d.n \in DOMAIN tx /\ d.to \in Neighbours(tx[d.n].sender)
            /\ RxEnd(tx[d.n], d.to) <= now
            /\ [is |-> e.is, by |-> e.by] = Verdict(tx, DOMAIN tx, d.n, d.to)
            BY <2>1, <2>3, <3>2, <4>2 DEF RecordOK
      <4>4. ~ \E v \in Decided : v.n = d.n /\ v.to = d.to
        <5>1. ~ \E h \in trace : h.kind = "tx" /\ h.n = d.n /\ h.to = d.to
              BY <2>3, <3>2 DEF SettleInv, SettledOnce
        <5> QED BY <5>1 DEF Decided
      <4>5. LET o == Verdict(tx, DOMAIN tx, d.n, d.to)
            IN  VerdictOf(e) = [n |-> d.n, to |-> d.to, is |-> o.is, by |-> o.by,
                                t |-> now]
            BY <2>3, <4>3 DEF VerdictOf
      <4>6. Decided' = Decided \cup {VerdictOf(e)} BY <2>3, <3>2, DecidedGrows
      <4>7. now >= RxEnd(tx[d.n], d.to)
        <5>1. now \in Nat /\ tx[d.n] \in Transmission
              BY <4>3 DEF IInv, TypeInv, TypeOK
        <5>2. RxEnd(tx[d.n], d.to) \in Nat
              BY <4>3, <5>1, LatencyType DEF Transmission, RxEnd
        <5> QED BY <4>3, <5>1, <5>2
      <4>8. Air!Judge(d.n, d.to)
            BY <2>1, <4>3, <4>4, <4>5, <4>6, <4>7, SameChannel DEF Air!Judge
      <4>9. d.to \in Node BY <4>3 DEF Neighbours
      <4> QED BY <4>3, <4>8, <4>9 DEF Air!Next
    <3> QED BY <3>1, <3>2
  <2> QED BY <1>6, <2>2, <2>3, SettleFacts
<1>7. CASE Drain BY <1>0, <1>7 DEF Drain
<1>8. ASSUME Advance PROVE Air!Next
  <2>1. now' \in Nat BY TypeStep DEF IInv, TypeInv, TypeOK
  <2>2. Air!Tick BY <1>0, <1>8, <2>1 DEF Advance, Air!Tick
  <2> QED BY <2>2 DEF Air!Next
<1>9. CASE UNCHANGED vars BY <1>0, <1>9 DEF vars
<1> QED BY <1>1, <1>2, <1>3, <1>4, <1>5, <1>6, <1>7, <1>8, <1>9 DEF Next

\* The router implements the ideal medium: with a retention that suffices, the
\* trace is a history of single, late enough verdicts on the complete log,
\* whatever the gates, the adversaries, the register and the interleaving of
\* the delivery tasks do.
THEOREM RouterImplementsMedium ==
    ASSUME RetentionSuffices
    PROVE  Spec => ImplementsMedium
<1>1. Init => SettleInv
      BY DEF Init, SettleInv, OneTaskEach, RecordsRefer, SettledOnce
<1>2. IInv /\ [Next]_vars => IInv' BY IInvStep
<1>3. IInv => TypeInv BY DEF IInv
<1>4. Init => Air!Init BY DEF Init, Air!Init, Decided
<1>5. IInv /\ SettleInv /\ [Next]_vars => [Air!Next]_(Air!mvars) BY MediumStep
<1> QED BY <1>1, <1>2, <1>3, <1>4, <1>5, IInvInit, SettleKept, PTL
        DEF Spec, ImplementsMedium, Air!Spec

\* What the medium has judged had arrived, and was judged right.
JudgedOK(v) ==
    /\ v.n \in DOMAIN tx /\ v.to \in Neighbours(tx[v.n].sender)
    /\ RxEnd(tx[v.n], v.to) <= now
    /\ [is |-> v.is, by |-> v.by] = Verdict(tx, DOMAIN tx, v.n, v.to)

MediumInv ==
    /\ now \in Nat /\ tx \in Seq(Transmission)
    /\ \A v \in Decided : JudgedOK(v)

LEMMA TransmitJudged ==
    ASSUME MediumInv, NEW s \in Node, NEW p \in Packet, Air!Transmit(s, p)
    PROVE  MediumInv'
<1> DEFINE y == [sender |-> s, pkt |-> p, start |-> now, end |-> now + Airtime[p]]
<1>1. tx' = Append(tx, y) /\ now' = now /\ Decided' = Decided BY DEF Air!Transmit
<1>2. now \in Nat /\ tx \in Seq(Transmission) BY DEF MediumInv
<1>3. y \in Transmission /\ y.start = now
      BY <1>2, RouterAssumption DEF Transmission
<1> HIDE DEF y
<1>4. tx' \in Seq(Transmission) BY <1>1, <1>2, <1>3
<1>5. \A i \in DOMAIN tx : i \in DOMAIN tx' /\ tx'[i] = tx[i] BY <1>1, <1>2, <1>3
<1>6. ASSUME NEW v \in Decided PROVE JudgedOK(v)'
  <2>1. JudgedOK(v) BY DEF MediumInv
  <2>2. v.n \in DOMAIN tx' /\ tx'[v.n] = tx[v.n] BY <1>5, <2>1 DEF JudgedOK
  <2>3. y.start >= RxEnd(tx[v.n], v.to)
    <3>1. tx[v.n] \in Transmission BY <1>2, <2>1 DEF JudgedOK
    <3>2. <<tx[v.n].sender, v.to>> \in Link /\ Latency[<<tx[v.n].sender, v.to>>] \in Nat
          BY <2>1, <3>1, LatencyType DEF JudgedOK, Transmission
    <3>3. RxEnd(tx[v.n], v.to) \in Nat BY <3>1, <3>2 DEF RxEnd, Transmission
    <3> QED BY <1>2, <1>3, <2>1, <3>3 DEF JudgedOK
  <2>4. Verdict(tx', DOMAIN tx', v.n, v.to) = Verdict(tx, DOMAIN tx, v.n, v.to)
        BY <1>1, <1>2, <1>3, <2>1, <2>3, VerdictStable DEF JudgedOK
  <2>5. RxEnd(tx'[v.n], v.to) <= now' BY <1>1, <2>1, <2>2 DEF JudgedOK
  <2> QED BY <2>1, <2>2, <2>4, <2>5 DEF JudgedOK
<1> QED BY <1>1, <1>2, <1>4, <1>6 DEF MediumInv

LEMMA JudgeJudged ==
    ASSUME MediumInv, NEW i \in DOMAIN tx, NEW r \in Node, Air!Judge(i, r)
    PROVE  MediumInv'
<1> DEFINE o == Verdict(tx, DOMAIN tx, i, r)
           v == [n |-> i, to |-> r, is |-> o.is, by |-> o.by, t |-> now]
<1>1. /\ r \in Neighbours(tx[i].sender) /\ now >= RxEnd(tx[i], r)
      /\ Decided' = Decided \cup {v}
      /\ now' = now /\ tx' = tx
      BY SameChannel DEF Air!Judge
<1>2. JudgedOK(v)
  <2>1. DOMAIN tx \subseteq Nat BY DEF MediumInv
  <2>2. o \in [is : {"hop", "collision", "halfduplex"}, by : Nat] BY <2>1, VerdictType
  <2>3. [is |-> v.is, by |-> v.by] = o
    <3> HIDE DEF o
    <3> QED BY <2>2
  <2>4. v.n = i /\ v.to = r OBVIOUS
  <2>5. RxEnd(tx[i], r) <= now
    <3>1. tx[i] \in Transmission BY DEF MediumInv
    <3>2. RxEnd(tx[i], r) \in Nat BY <1>1, <3>1, LatencyType DEF RxEnd, Transmission
    <3> QED BY <1>1, <3>2 DEF MediumInv
  <2> HIDE DEF v
  <2> QED BY <1>1, <2>3, <2>4, <2>5 DEF JudgedOK
<1> HIDE DEF v
<1>3. \A u \in Decided \cup {v} : JudgedOK(u) BY <1>2 DEF MediumInv
<1>4. \A u : JudgedOK(u)' <=> JudgedOK(u) BY <1>1 DEF JudgedOK
<1> QED BY <1>1, <1>3, <1>4 DEF MediumInv

\* The medium keeps its word on verdicts: whatever is transmitted after the last
\* symbol of a packet has arrived, the channel judges the packet the same.
THEOREM VerdictsAreFinal == Air!Spec => []Air!VerdictsFinal
<1>1. Air!Init => MediumInv
  <2>1. << >> \in Seq(Transmission) OBVIOUS
  <2> QED BY <2>1 DEF Air!Init, MediumInv
<1>2. MediumInv /\ [Air!Next]_(Air!mvars) => MediumInv'
  <2> SUFFICES ASSUME MediumInv, [Air!Next]_(Air!mvars) PROVE MediumInv' OBVIOUS
  <2>1. ASSUME NEW s \in Node, NEW p \in Packet, Air!Transmit(s, p) PROVE MediumInv'
        BY <2>1, TransmitJudged
  <2>2. ASSUME NEW i \in DOMAIN tx, NEW r \in Node, Air!Judge(i, r) PROVE MediumInv'
        BY <2>2, JudgeJudged
  <2>3. CASE Air!Tick
    <3>1. now' \in Nat /\ now <= now' /\ tx' = tx /\ Decided' = Decided
          BY <2>3 DEF Air!Tick, MediumInv
    <3>2. ASSUME NEW v \in Decided PROVE JudgedOK(v)'
      <4>1. JudgedOK(v) BY DEF MediumInv
      <4>2. tx[v.n] \in Transmission BY <4>1 DEF MediumInv, JudgedOK
      <4>3. RxEnd(tx[v.n], v.to) \in Nat
            BY <4>1, <4>2, LatencyType DEF RxEnd, Transmission, JudgedOK
      <4> QED BY <3>1, <4>1, <4>3 DEF JudgedOK, MediumInv
    <3> QED BY <3>1, <3>2 DEF MediumInv
  <2>4. CASE UNCHANGED Air!mvars
    <3>1. now' = now /\ tx' = tx /\ Decided' = Decided BY <2>4 DEF Air!mvars
    <3>2. \A u : JudgedOK(u)' <=> JudgedOK(u) BY <3>1 DEF JudgedOK
    <3> QED BY <3>1, <3>2 DEF MediumInv
  <2> QED BY <2>1, <2>2, <2>3, <2>4 DEF Air!Next
<1>3. MediumInv => Air!VerdictsFinal
      BY SameChannel DEF MediumInv, JudgedOK, Air!VerdictsFinal
<1> QED BY <1>1, <1>2, <1>3, PTL DEF Air!Spec

\* The router, which implements the medium, inherits it.
COROLLARY RouterVerdictsFinal ==
    ASSUME RetentionSuffices
    PROVE  Spec => []Air!VerdictsFinal
BY VerdictsAreFinal, RouterImplementsMedium, PTL DEF ImplementsMedium

-----------------------------------------------------------------------------
(* Every delivery is counted once                                          *)

\* The copy a task delivers.
Copy(d) == <<<<d.kind, d.n>>, d.to>>

\* The tasks deliver different copies, all of them started.
TasksCopies ==
    /\ \A d \in tasks : Copy(d) \in Started
    /\ \A d, e \in tasks : Copy(d) = Copy(e) => d = e

CountInv ==
    /\ TasksCopies
    /\ IsFiniteSet(Started)
    /\ IsFiniteSet(tasks)
    /\ Accounted

\* The counters of deliveries that are over.
Over == {"rx", "snr_drop", "link_loss", "adv_drop", "adv_replay", "halfduplex",
         "collision"}

\* D are the tasks of the copies in C, one each.
TasksOf(D, C) ==
    /\ \A d \in D : Copy(d) \in C
    /\ \A c \in C : \E d \in D : Copy(d) = c
    /\ \A d, e \in D : Copy(d) = Copy(e) => d = e

\* A copy of a transmission, or of a captured packet, that is started.
OfTx(c) == \E i \in DOMAIN tx : lbt[tx[i].sender] # i /\ c \in Copies("tx", i, tx[i].sender)

OfReplay(c) ==
    \E k \in DOMAIN captured : k \notin buffer /\ c \in Copies("replay", k, captured[k].node)

LEMMA StartedIs == \A c : c \in Started <=> OfTx(c) \/ OfReplay(c)
<1> DEFINE A == {j \in DOMAIN tx : lbt[tx[j].sender] # j}
           B == (DOMAIN captured) \ buffer
<1>1. Started = (UNION {Copies("tx", i, tx[i].sender) : i \in A})
                \cup (UNION {Copies("replay", k, captured[k].node) : k \in B})
      BY DEF Started
<1>2. \A c : OfTx(c) <=> \E i \in A : c \in Copies("tx", i, tx[i].sender) BY DEF OfTx
<1>3. \A c : OfReplay(c) <=> \E k \in B : c \in Copies("replay", k, captured[k].node)
      BY DEF OfReplay
<1> DEFINE tc(i) == Copies("tx", i, tx[i].sender)
           rc(k) == Copies("replay", k, captured[k].node)
           T == UNION {tc(i) : i \in A}
           R == UNION {rc(k) : k \in B}
<1>4. Started = T \cup R BY <1>1
<1>5. (\A c : OfTx(c) <=> \E i \in A : c \in tc(i))
      /\ (\A c : OfReplay(c) <=> \E k \in B : c \in rc(k))
      BY <1>2, <1>3
<1> HIDE DEF A, B, tc, rc
<1>6. (\A c : c \in T <=> \E i \in A : c \in tc(i))
      /\ (\A c : c \in R <=> \E k \in B : c \in rc(k))
      OBVIOUS
<1> HIDE DEF T, R
<1> QED BY <1>4, <1>5, <1>6

LEMMA StartedIsNext == \A c : c \in Started' <=> OfTx(c)' \/ OfReplay(c)'
<1> DEFINE A == {j \in DOMAIN tx' : lbt'[tx'[j].sender] # j}
           B == (DOMAIN captured') \ buffer'
<1>1. Started' = (UNION {Copies("tx", i, tx'[i].sender) : i \in A})
                 \cup (UNION {Copies("replay", k, captured'[k].node) : k \in B})
      BY DEF Started
<1>2. \A c : OfTx(c)' <=> \E i \in A : c \in Copies("tx", i, tx'[i].sender) BY DEF OfTx
<1>3. \A c : OfReplay(c)' <=> \E k \in B : c \in Copies("replay", k, captured'[k].node)
      BY DEF OfReplay
<1> DEFINE tc(i) == Copies("tx", i, tx'[i].sender)
           rc(k) == Copies("replay", k, captured'[k].node)
           T == UNION {tc(i) : i \in A}
           R == UNION {rc(k) : k \in B}
<1>4. Started' = T \cup R BY <1>1
<1>5. (\A c : OfTx(c)' <=> \E i \in A : c \in tc(i))
      /\ (\A c : OfReplay(c)' <=> \E k \in B : c \in rc(k))
      BY <1>2, <1>3
<1> HIDE DEF A, B, tc, rc
<1>6. (\A c : c \in T <=> \E i \in A : c \in tc(i))
      /\ (\A c : c \in R <=> \E k \in B : c \in rc(k))
      OBVIOUS
<1> HIDE DEF T, R
<1> QED BY <1>4, <1>5, <1>6

LEMMA CopiesFacts ==
    ASSUME NEW kind, NEW n, NEW s
    PROVE  /\ \A c \in Copies(kind, n, s) : c[1] = <<kind, n>>
           /\ IsFiniteSet(Copies(kind, n, s))
<1>1. Neighbours(s) \subseteq Node BY DEF Neighbours
<1>2. IsFiniteSet(Neighbours(s)) BY <1>1, RouterAssumption, FS_Subset
<1>3. IsFiniteSet({<<kind, n>>}) BY FS_Singleton
<1>4. IsFiniteSet(Copies(kind, n, s)) BY <1>2, <1>3, FS_Product DEF Copies
<1>5. \A c \in Copies(kind, n, s) : c[1] = <<kind, n>> BY DEF Copies
<1> QED BY <1>4, <1>5

LEMMA TasksOfDeliveries ==
    ASSUME NEW kind, NEW n, NEW s, NEW p
    PROVE  TasksOf(Deliveries(kind, n, s, p), Copies(kind, n, s))
<1> DEFINE task(r) == [kind |-> kind, n |-> n, to |-> r, pkt |-> p, stage |-> "new", due |-> 0]
           D == Deliveries(kind, n, s, p)
           C == Copies(kind, n, s)
<1>1. \A r : Copy(task(r)) = <<<<kind, n>>, r>> BY DEF Copy
<1>2. D = {task(r) : r \in Neighbours(s)} BY DEF Deliveries
<1>3. C = {<<<<kind, n>>, r>> : r \in Neighbours(s)} BY DEF Copies
<1>4. \A q, r : <<<<kind, n>>, q>> = <<<<kind, n>>, r>> => q = r OBVIOUS
<1> HIDE DEF task, D, C
<1>5. (\A d \in D : Copy(d) \in C) /\ (\A c \in C : \E d \in D : Copy(d) = c)
      BY <1>1, <1>2, <1>3
<1>6. \A d, e \in D : Copy(d) = Copy(e) => d = e BY <1>1, <1>2, <1>4
<1>7. TasksOf(D, C) BY <1>5, <1>6 DEF TasksOf
<1> QED BY <1>7 DEF D, C

\* One counter of Over goes up by one, or none.
LEMMA CountsOne ==
    ASSUME metrics \in [Counter -> Nat], NEW S, Bump(S), NEW c \in Over,
           S \cap Over = {c}
    PROVE  Ended(metrics') = Ended(metrics) + 1
<1>1. \A k \in Counter : metrics'[k] = IF k \in S THEN metrics[k] + 1 ELSE metrics[k]
      BY DEF Bump
<1>2. \A k \in Over : metrics'[k] = IF k = c THEN metrics[k] + 1 ELSE metrics[k]
      BY <1>1 DEF Over, Counter
<1>3. \A k \in Over : metrics[k] \in Nat BY DEF Over, Counter
<1> QED BY <1>2, <1>3 DEF Over, Ended

LEMMA CountsNone ==
    ASSUME metrics \in [Counter -> Nat], NEW S, Bump(S), S \cap Over = {}
    PROVE  Ended(metrics') = Ended(metrics)
<1>1. \A k \in Counter : metrics'[k] = IF k \in S THEN metrics[k] + 1 ELSE metrics[k]
      BY DEF Bump
<1>2. \A k \in Over : metrics'[k] = metrics[k] BY <1>1 DEF Over, Counter
<1> QED BY <1>2 DEF Over, Ended

LEMMA EndedType == metrics \in [Counter -> Nat] => Ended(metrics) \in Nat
BY DEF Counter, Ended

\* There are as many tasks as copies.
LEMMA AsMany ==
    ASSUME NEW D, NEW C, IsFiniteSet(C), TasksOf(D, C)
    PROVE  IsFiniteSet(D) /\ Cardinality(D) = Cardinality(C)
<1> DEFINE f == [d \in D |-> Copy(d)]
<1>1. f \in Injection(D, C)
      BY DEF TasksOf, Injection, IsInjective
<1>2. f \in Surjection(D, C)
      BY <1>1 DEF TasksOf, Injection, Surjection
<1> HIDE DEF f
<1> QED BY <1>1, <1>2, FS_Injection

\* New copies become started and their tasks are created.
LEMMA Starting ==
    ASSUME TypeInv, CountInv, Ended(metrics') = Ended(metrics),
           NEW D, NEW C, IsFiniteSet(C), TasksOf(D, C), C \cap Started = {},
           tasks' = tasks \cup D, Started' = Started \cup C
    PROVE  CountInv'
<1>1. IsFiniteSet(D) /\ Cardinality(D) = Cardinality(C) BY AsMany
<1>2. tasks \cap D = {} BY DEF CountInv, TasksCopies, TasksOf
<1>3. /\ IsFiniteSet(tasks') /\ IsFiniteSet(Started')
      /\ Cardinality(tasks') = Cardinality(tasks) + Cardinality(D)
      /\ Cardinality(Started') = Cardinality(Started) + Cardinality(C)
  <2>1. IsFiniteSet(tasks) /\ IsFiniteSet(Started) BY DEF CountInv
  <2>2. Cardinality({}) = 0 BY FS_EmptySet
  <2>3. Cardinality(tasks) \in Nat /\ Cardinality(D) \in Nat
        /\ Cardinality(Started) \in Nat /\ Cardinality(C) \in Nat
        BY <1>1, <2>1, FS_CardinalityType
  <2>4. /\ IsFiniteSet(tasks \cup D)
        /\ Cardinality(tasks \cup D) = Cardinality(tasks) + Cardinality(D) - Cardinality({})
        BY <1>1, <1>2, <2>1, FS_Union
  <2>5. /\ IsFiniteSet(Started \cup C)
        /\ Cardinality(Started \cup C)
             = Cardinality(Started) + Cardinality(C) - Cardinality({})
    <3>1. Started \cap C = {} OBVIOUS
    <3> QED BY <2>1, <3>1, FS_Union
  <2> QED BY <2>2, <2>3, <2>4, <2>5
<1>4. TasksCopies'
  <2>1. \A d \in tasks' : Copy(d) \in Started' BY DEF CountInv, TasksCopies, TasksOf
  <2>2. \A d, e \in tasks' : Copy(d) = Copy(e) => d = e
        BY DEF CountInv, TasksCopies, TasksOf
  <2> QED BY <2>1, <2>2 DEF TasksCopies, Copy
<1>5. Accounted'
  <2>1. Ended(metrics) \in Nat BY EndedType DEF TypeInv, TypeOK
  <2>2. Cardinality(tasks) \in Nat /\ Cardinality(D) \in Nat
        BY <1>1, FS_CardinalityType DEF CountInv
  <2> QED BY <1>1, <1>3, <2>1, <2>2 DEF CountInv, Accounted
<1> QED BY <1>3, <1>4, <1>5 DEF CountInv

\* A task ends and is counted.
LEMMA Ending ==
    ASSUME TypeInv, CountInv, NEW d \in tasks, tasks' = tasks \ {d},
           Started' = Started, Ended(metrics') = Ended(metrics) + 1
    PROVE  CountInv'
<1>1. TasksCopies' BY DEF CountInv, TasksCopies, Copy
<1>2. IsFiniteSet(tasks') /\ Cardinality(tasks') = Cardinality(tasks) - 1
      BY FS_RemoveElement DEF CountInv
<1>3. Cardinality(tasks) \in Nat BY FS_CardinalityType DEF CountInv
<1>4. Ended(metrics) \in Nat BY EndedType DEF TypeInv, TypeOK
<1> QED BY <1>1, <1>2, <1>3, <1>4 DEF CountInv, Accounted

\* A task goes on.
LEMMA GoesOn ==
    ASSUME TypeInv, CountInv, NEW d \in tasks, NEW e, Copy(e) = Copy(d),
           tasks' = (tasks \ {d}) \cup {e},
           Started' = Started, Ended(metrics') = Ended(metrics)
    PROVE  CountInv'
<1>1. TasksCopies' BY DEF CountInv, TasksCopies, Copy
<1>2. e \notin tasks \ {d} BY DEF CountInv, TasksCopies
<1>3. IsFiniteSet(tasks \ {d}) /\ Cardinality(tasks \ {d}) = Cardinality(tasks) - 1
      BY FS_RemoveElement DEF CountInv
<1>4. IsFiniteSet(tasks') /\ Cardinality(tasks') = Cardinality(tasks \ {d}) + 1
      BY <1>2, <1>3, FS_AddElement
<1>5. Cardinality(tasks) \in Nat BY FS_CardinalityType DEF CountInv
<1> QED BY <1>1, <1>3, <1>4, <1>5 DEF CountInv, Accounted

\* A step that starts, creates and ends nothing.
LEMMA QuietCount ==
    ASSUME CountInv, UNCHANGED <<tx, lbt, captured, buffer, tasks, metrics>>
    PROVE  CountInv'
BY DEF CountInv, TasksCopies, Copy, Started, Accounted

LEMMA CountKept == TypeInv /\ CountInv /\ [Next]_vars => CountInv'
<1> SUFFICES ASSUME TypeInv, CountInv, [Next]_vars PROVE CountInv' OBVIOUS
<1>0. /\ lbt \in [Node -> {0} \cup DOMAIN tx]
      /\ \A i \in DOMAIN tx : tx[i].sender \in Node
      /\ \A s \in Node : lbt[s] # 0 => tx[lbt[s]].sender = s
      /\ metrics \in [Counter -> Nat]
  <2>1. \A i \in DOMAIN tx : tx[i] \in Transmission BY DEF TypeInv, TypeOK
  <2>2. \A i \in DOMAIN tx : tx[i].sender \in Node BY <2>1 DEF Transmission
  <2> QED BY <2>2 DEF TypeInv, TypeOK, ReferencesOK
<1>1. ASSUME NEW s \in Node, NEW p \in Packet, OnTx(s, p) PROVE CountInv'
  <2> DEFINE id == Len(tx) + 1
             C == Copies("tx", id, s)
             D == Deliveries("tx", id, s, p)
  <2>1. /\ DOMAIN tx' = (DOMAIN tx) \cup {id} /\ id \notin DOMAIN tx /\ id # 0
        /\ tx'[id].sender = s
        /\ \A i \in DOMAIN tx : tx'[i] = tx[i]
        BY <1>1, OnTxLog
  <2>2. \/ tasks' = tasks \cup D /\ lbt' = lbt
        \/ tasks' = tasks /\ lbt' = [lbt EXCEPT ![s] = id]
        BY <1>1 DEF OnTx
  <2>3. UNCHANGED <<captured, buffer>> /\ Bump({"tx"}) /\ lbt[s] = 0 BY <1>1 DEF OnTx
  <2>4. IsFiniteSet(C) /\ TasksOf(D, C) /\ \A c \in C : c[1] = <<"tx", id>>
        BY CopiesFacts, TasksOfDeliveries
  <2> HIDE DEF id, D
  <2>5. C = Copies("tx", id, s) OBVIOUS
  <2> HIDE DEF C
  <2>6. \A c : OfReplay(c)' <=> OfReplay(c) BY <2>3 DEF OfReplay
  <2>7. ASSUME NEW i \in DOMAIN tx PROVE lbt'[tx[i].sender] # i <=> lbt[tx[i].sender] # i
    <3>1. 0 \notin DOMAIN tx BY DEF TypeInv, TypeOK
    <3> QED BY <1>0, <2>1, <2>2, <2>3, <3>1
  <2>8. Ended(metrics') = Ended(metrics) BY <1>0, <2>3, CountsNone DEF Over
  <2>9. CASE lbt' = lbt /\ tasks' = tasks \cup D
    <3>1. \A c : OfTx(c)' <=> OfTx(c) \/ c \in C
          BY <1>0, <2>1, <2>3, <2>5, <2>9 DEF OfTx
    <3>2. Started' = Started \cup C BY <2>6, <3>1, StartedIs, StartedIsNext
    <3>3. C \cap Started = {}
      <4>1. ASSUME NEW c \in C PROVE ~ OfTx(c) /\ ~ OfReplay(c)
            BY <2>1, <2>4, <4>1, CopiesFacts DEF OfTx, OfReplay
      <4> QED BY <4>1, StartedIs
    <3> QED BY <2>4, <2>8, <2>9, <3>2, <3>3, Starting
  <2>10. CASE tasks' = tasks /\ lbt' = [lbt EXCEPT ![s] = id]
    <3>1. lbt'[tx'[id].sender] = id BY <1>0, <2>1, <2>10
    <3>2. \A c : OfTx(c)' <=> OfTx(c) BY <2>1, <2>7, <3>1 DEF OfTx
    <3>3. Started' = Started BY <2>6, <3>2, StartedIs, StartedIsNext
    <3> QED BY <2>8, <2>10, <3>3 DEF CountInv, TasksCopies, Copy, Accounted
  <2> QED BY <2>2, <2>9, <2>10
<1>2. ASSUME NEW s \in Node, NEW r \in Node, Notify(s, r) PROVE CountInv'
      BY <1>2, QuietCount DEF Notify
<1>3. ASSUME NEW s \in Node, Spawn(s) PROVE CountInv'
  <2> DEFINE i == lbt[s]
             C == Copies("tx", i, s)
             D == Deliveries("tx", i, s, tx[i].pkt)
  <2>1. /\ i # 0 /\ tasks' = tasks \cup D /\ lbt' = [lbt EXCEPT ![s] = 0]
        /\ UNCHANGED <<tx, captured, buffer, metrics>>
        BY <1>3 DEF Spawn
  <2>2. IsFiniteSet(C) /\ TasksOf(D, C) /\ \A c \in C : c[1] = <<"tx", i>>
        BY CopiesFacts, TasksOfDeliveries
  <2>3. i \in DOMAIN tx /\ tx[i].sender = s BY <1>0, <2>1
  <2>4. lbt[s] = i /\ C = Copies("tx", i, s) OBVIOUS
  <2> HIDE DEF i, C, D
  <2>5. 0 \notin DOMAIN tx BY DEF TypeInv, TypeOK
  <2>6. \A j \in DOMAIN tx : lbt'[tx[j].sender] # j <=> lbt[tx[j].sender] # j \/ j = i
        BY <1>0, <2>1, <2>3, <2>4, <2>5
  <2>7. \A c : OfTx(c)' <=> OfTx(c) \/ c \in C BY <2>1, <2>3, <2>4, <2>6 DEF OfTx
  <2>8. \A c : OfReplay(c)' <=> OfReplay(c) BY <2>1 DEF OfReplay
  <2>9. Started' = Started \cup C BY <2>7, <2>8, StartedIs, StartedIsNext
  <2>10. C \cap Started = {}
    <3>1. ASSUME NEW c \in C PROVE ~ OfTx(c) /\ ~ OfReplay(c)
          BY <2>2, <2>3, <2>4, CopiesFacts DEF OfTx, OfReplay
    <3> QED BY <3>1, StartedIs
  <2> QED BY <2>1, <2>2, <2>9, <2>10, Starting
<1>4. ASSUME NEW d \in tasks, Suppress(d) PROVE CountInv'
  <2>1. PICK why \in Stops(Sender(d), d.to) :
          /\ Bump({why})
          /\ \/ UNCHANGED <<captured, buffer>>
             \/ \E x \in Capture : /\ captured' = Append(captured, x)
                                   /\ buffer' = buffer \cup {Len(captured) + 1}
    <3>1. [node |-> d.to, pkt |-> d.pkt, at |-> now + ReplayDelay] \in Capture
      <4>1. d \in Delivery BY TaskFacts
      <4> QED BY <4>1, RouterAssumption DEF Delivery, Capture, TypeInv, TypeOK
    <3> QED BY <1>4, <3>1 DEF Suppress
  <2>2. tasks' = tasks \ {d} /\ UNCHANGED <<tx, lbt>> BY <1>4 DEF Suppress
  <2>3. why \in Over BY DEF Stops, Over
  <2>4. Ended(metrics') = Ended(metrics) + 1 BY <1>0, <2>1, <2>3, CountsOne
  <2>5. \A c : OfReplay(c)' <=> OfReplay(c)
    <3>1. CASE UNCHANGED <<captured, buffer>> BY <3>1 DEF OfReplay
    <3>2. ASSUME NEW x \in Capture, captured' = Append(captured, x),
                 buffer' = buffer \cup {Len(captured) + 1}
          PROVE  \A c : OfReplay(c)' <=> OfReplay(c)
      <4>1. captured \in Seq(Capture) BY DEF TypeInv, TypeOK
      <4>2. /\ DOMAIN captured' = (DOMAIN captured) \cup {Len(captured) + 1}
            /\ Len(captured) + 1 \notin DOMAIN captured
            /\ \A k \in DOMAIN captured : captured'[k] = captured[k]
            BY <3>2, <4>1
      <4> QED BY <3>2, <4>2 DEF OfReplay
    <3> QED BY <2>1, <3>1, <3>2
  <2>6. \A c : OfTx(c)' <=> OfTx(c) BY <2>2 DEF OfTx
  <2>7. Started' = Started BY <2>5, <2>6, StartedIs, StartedIsNext
  <2> QED BY <2>2, <2>4, <2>7, Ending
<1>5. ASSUME NEW d \in tasks, Sleep(d) PROVE CountInv'
  <2>1. PICK e : /\ tasks' = (tasks \ {d}) \cup {e}
                 /\ e.kind = d.kind /\ e.n = d.n /\ e.to = d.to
        BY <1>5, SleepFacts
  <2>2. PICK S \in {{}, {"adv_corrupt"}} : Bump(S) BY <1>5 DEF Sleep
  <2>3. Ended(metrics') = Ended(metrics) BY <1>0, <2>2, CountsNone DEF Over
  <2>4. Started' = Started BY <1>5 DEF Sleep, Started
  <2> QED BY <2>1, <2>3, <2>4, GoesOn DEF Copy
<1>6. ASSUME NEW d \in tasks, Arrive(d) PROVE CountInv'
  <2>1. \E p, S : S \in {{}, {"adv_corrupt"}} /\ Settle(d, p, S)
    <3>1. CASE Wake(d) BY <3>1 DEF Wake
    <3>2. CASE ArriveAtOnce(d)
      <4>1. PICK w \in Passes(Sender(d), d.to, d.pkt) :
              Settle(d, w.pkt, IF w.corrupted THEN {"adv_corrupt"} ELSE {})
            BY <3>2 DEF ArriveAtOnce
      <4> QED BY <4>1
    <3> QED BY <1>6, <3>1, <3>2 DEF Arrive
  <2>2. PICK p, S : S \in {{}, {"adv_corrupt"}} /\ Settle(d, p, S) BY <2>1
  <2> DEFINE c == IF Outcome(d).is = "hop" THEN "rx" ELSE Outcome(d).is
  <2>3. Outcome(d).is \in {"hop", "collision", "halfduplex"} BY DEF Outcome, Verdict
  <2>4. c \in Over BY <2>3 DEF Over
  <2>5. Bump(S \cup {c}) BY <2>2 DEF Settle
  <2>6. (S \cup {c}) \cap Over = {c} BY <2>2, <2>4 DEF Over
  <2>7. Ended(metrics') = Ended(metrics) + 1 BY <1>0, <2>4, <2>5, <2>6, CountsOne
  <2>8. tasks' = tasks \ {d} BY <2>2 DEF Settle
  <2>9. Started' = Started BY <2>2 DEF Settle, Started
  <2> QED BY <2>7, <2>8, <2>9, Ending
<1>7. CASE Drain
  <2> DEFINE tasksOf(k) == Deliveries("replay", k, captured[k].node, captured[k].pkt)
             copiesOf(k) == Copies("replay", k, captured[k].node)
             D == UNION {tasksOf(k) : k \in Ready}
             C == UNION {copiesOf(k) : k \in Ready}
  <2>1. /\ buffer' = buffer \ Ready /\ tasks' = tasks \cup D
        /\ UNCHANGED <<tx, lbt, captured, metrics>>
        BY <1>7 DEF Drain
  <2>2. Ready \subseteq buffer /\ buffer \subseteq DOMAIN captured
        BY DEF Ready, TypeInv, TypeOK
  <2>3. /\ \A k \in Ready : TasksOf(tasksOf(k), copiesOf(k))
        /\ \A k \in Ready : \A c \in copiesOf(k) : c[1] = <<"replay", k>>
        BY CopiesFacts, TasksOfDeliveries
  <2>4. \A k \in Ready : copiesOf(k) \subseteq ({"replay"} \X Ready) \X Node
        BY DEF Copies, Neighbours
  <2>5. \A k : copiesOf(k) = Copies("replay", k, captured[k].node) OBVIOUS
  <2> HIDE DEF tasksOf, copiesOf
  <2>6. \A c : c \in C <=> \E k \in Ready : c \in copiesOf(k) OBVIOUS
  <2>7. \A d : d \in D <=> \E k \in Ready : d \in tasksOf(k) OBVIOUS
  <2> HIDE DEF C, D
  <2>8. IsFiniteSet(C)
    <3>1. IsFiniteSet(DOMAIN captured)
      <4>1. captured \in Seq(Capture) BY DEF TypeInv, TypeOK
      <4>2. DOMAIN captured = 1 .. Len(captured) /\ Len(captured) \in Int BY <4>1
      <4> QED BY <4>2, FS_Interval
    <3>2. IsFiniteSet(Ready) BY <2>2, <3>1, FS_Subset
    <3>3. IsFiniteSet({"replay"} \X Ready) BY <3>2, FS_Singleton, FS_Product
    <3>4. IsFiniteSet(({"replay"} \X Ready) \X Node) BY <3>3, RouterAssumption, FS_Product
    <3>5. C \subseteq ({"replay"} \X Ready) \X Node BY <2>4, <2>6
    <3> QED BY <3>4, <3>5, FS_Subset
  <2>9. TasksOf(D, C)
    <3>1. \A d \in D : Copy(d) \in C BY <2>3, <2>6, <2>7 DEF TasksOf
    <3>2. \A c \in C : \E d \in D : Copy(d) = c BY <2>3, <2>6, <2>7 DEF TasksOf
    <3>3. ASSUME NEW d \in D, NEW e \in D, Copy(d) = Copy(e) PROVE d = e
      <4>1. PICK k \in Ready : d \in tasksOf(k) BY <2>7
      <4>2. PICK m \in Ready : e \in tasksOf(m) BY <2>7
      <4>3. Copy(d) \in copiesOf(k) /\ Copy(e) \in copiesOf(m)
            BY <2>3, <4>1, <4>2 DEF TasksOf
      <4>4. Copy(d)[1] = <<"replay", k>> /\ Copy(e)[1] = <<"replay", m>> BY <2>3, <4>3
      <4>5. k = m BY <3>3, <4>4
      <4> QED BY <2>3, <3>3, <4>1, <4>2, <4>5 DEF TasksOf
    <3> QED BY <3>1, <3>2, <3>3 DEF TasksOf
  <2>10. C \cap Started = {}
    <3>1. ASSUME NEW c \in C PROVE ~ OfTx(c) /\ ~ OfReplay(c)
      <4>1. PICK k \in Ready : c[1] = <<"replay", k>> BY <2>3, <2>6
      <4>2. k \in buffer BY <2>2
      <4> QED BY <4>1, <4>2, CopiesFacts DEF OfTx, OfReplay
    <3> QED BY <3>1, StartedIs
  <2>11. \A c : OfTx(c)' <=> OfTx(c) BY <2>1 DEF OfTx
  <2>12. \A c : OfReplay(c)' <=> OfReplay(c) \/ c \in C
         BY <2>1, <2>2, <2>5, <2>6 DEF OfReplay
  <2>13. Started' = Started \cup C BY <2>11, <2>12, StartedIs, StartedIsNext
  <2> QED BY <2>1, <2>8, <2>9, <2>10, <2>13, Starting
<1>8. CASE Advance BY <1>8, QuietCount DEF Advance
<1>9. CASE UNCHANGED vars BY <1>9, QuietCount DEF vars
<1> QED BY <1>1, <1>2, <1>3, <1>4, <1>5, <1>6, <1>7, <1>8, <1>9 DEF Next

\* Every delivery to every neighbour, of a transmission or of a replay, is
\* counted exactly once -- under the gate that ended it, as a half-duplex drop,
\* a collision or an rx -- or is in flight (router.py, _deliver_to: seven places
\* count and return).
THEOREM EachCountedOnce == Spec => []Accounted
<1>1. Init => CountInv
  <2> SUFFICES ASSUME Init PROVE CountInv OBVIOUS
  <2>1. \A c : ~ OfTx(c) /\ ~ OfReplay(c) BY DEF Init, OfTx, OfReplay
  <2>2. Started = {} BY <2>1, StartedIs
  <2>3. tasks = {} /\ Ended(metrics) = 0 BY DEF Init, Ended, Counter
  <2> QED BY <2>2, <2>3, FS_EmptySet DEF CountInv, TasksCopies, Accounted
<1>2. CountInv => Accounted BY DEF CountInv
<1> QED BY <1>1, <1>2, TypeInit, TypeStep, CountKept, PTL DEF Spec
=============================================================================
