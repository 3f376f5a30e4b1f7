------------------------------ MODULE Channel ------------------------------
(***************************************************************************)
(* The RF channel of orchestrator/channel.py (class ChannelModel): which   *)
(* packets survive at which receiver when several nodes transmit at once.  *)
(*                                                                         *)
(* A transmission is a record [sender, pkt, start, end]; its window as a   *)
(* receiver sees it is shifted by the latency of the link.  Times are      *)
(* natural numbers of ticks.  The LoRa preamble lasts a quarter of a       *)
(* symbol more than a whole number of them, so the unit every duration of  *)
(* the channel is a multiple of is a quarter symbol.                       *)
(***************************************************************************)
EXTENDS Integers, FiniteSets, FiniteSetsExt

CONSTANTS
    Node,             \* the radio nodes
    Link,             \* pairs <<s, r>>: r is a neighbour of s (link_snr)
    Snr,              \* [Link -> Int], dB at the receiver
    Latency,          \* [Link -> Nat], ticks
    QuarterSym,       \* ticks in a quarter of a LoRa symbol
    PreambleSymbols,  \* symbols in the preamble (default 8)
    CodingRate,       \* coding-rate offset, 1 = CR4/5 .. 4 = CR4/8
    CapDb             \* capture threshold (default 6 dB)

ASSUME LinkAssumption == Link \subseteq Node \X Node

ASSUME RadioAssumption ==
    /\ Snr \in [Link -> Int]
    /\ Latency \in [Link -> Nat]
    /\ QuarterSym \in Nat
    /\ PreambleSymbols \in Nat
    /\ CodingRate \in Int
    /\ CapDb \in Int

-----------------------------------------------------------------------------
(* Symbol times                                                            *)

FEC_SYMBOLS == <<0, 0, 1, 2>>

FecSymbols ==
    IF CodingRate \in DOMAIN FEC_SYMBOLS THEN FEC_SYMBOLS[CodingRate] ELSE 0

TSym         == 4 * QuarterSym
TPreamble    == (4 * PreambleSymbols + 17) * QuarterSym
FecTolerance == FecSymbols * TSym
GracePeriod  == IF PreambleSymbols > 5 THEN (PreambleSymbols - 5) * TSym ELSE 0

-----------------------------------------------------------------------------
(* Windows at the receiver                                                 *)

Neighbours(s) == {r \in Node : <<s, r>> \in Link}

RxStart(x, r) == x.start + Latency[<<x.sender, r>>]
RxEnd(x, r)   == x.end + Latency[<<x.sender, r>>]

Overlap(x, y, r) ==
    /\ RxStart(y, r) < RxEnd(x, r)
    /\ RxEnd(y, r) > RxStart(x, r)

OverlapStart(x, y, r) ==
    IF RxStart(x, r) >= RxStart(y, r) THEN RxStart(x, r) ELSE RxStart(y, r)
OverlapEnd(x, y, r) ==
    IF RxEnd(x, r) <= RxEnd(y, r) THEN RxEnd(x, r) ELSE RxEnd(y, r)
OverlapTime(x, y, r) == OverlapEnd(x, y, r) - OverlapStart(x, y, r)

-----------------------------------------------------------------------------
(* The three ways packet x survives an interferer y that overlaps it at r  *)

\* Mutant: a difference of either sign captures.
Captures_abs(x, y, r) ==
    \/ Snr[<<x.sender, r>>] - Snr[<<y.sender, r>>] >= CapDb
    \/ Snr[<<y.sender, r>>] - Snr[<<x.sender, r>>] >= CapDb

Captures(x, y, r) == Snr[<<x.sender, r>>] - Snr[<<y.sender, r>>] >= CapDb

PreambleCritical(x, r) == RxStart(x, r) + GracePeriod

\* Mutant: where the interferer starts is compared, not where it ends.
InGrace_start(x, y, r) == RxStart(y, r) <= PreambleCritical(x, r)

InGrace(x, y, r) == RxEnd(y, r) <= PreambleCritical(x, r)

FecCorrects(x, y, r) ==
    /\ \/ OverlapStart(x, y, r) >= RxStart(x, r) + TPreamble
       \/ OverlapStart(x, y, r) > PreambleCritical(x, r)
    /\ OverlapTime(x, y, r) <= FecTolerance

\* y destroys x at r: one pass of the loop of is_lost that reaches its return.
Hits(x, y, r) ==
    /\ y.sender # x.sender
    /\ <<y.sender, r>> \in Link
    /\ Overlap(x, y, r)
    /\ ~ Captures(x, y, r)
    /\ ~ InGrace(x, y, r)
    /\ ~ FecCorrects(x, y, r)

\* Receiver r, transmitting y, is deaf to x (LoRa is half-duplex).  The
\* receiver's own window is not shifted.
Deafens(x, y, r) ==
    /\ y.sender = r
    /\ y.start < RxEnd(x, r)
    /\ y.end > RxStart(x, r)

-----------------------------------------------------------------------------
(* Queries of the transmission register.  txs maps ids to transmissions,   *)
(* ids is the set of those the register still holds.                       *)

is_receiver_busy(txs, ids, i, r) == {j \in ids : Deafens(txs[i], txs[j], r)}

is_lost(txs, ids, i, r) == {j \in ids \ {i} : Hits(txs[i], txs[j], r)}

\* Mutant: the wrong element of the record is compared.
expire_before_start(txs, ids, t) == {j \in ids : txs[j].start >= t}

expire_before(txs, ids, t) == {j \in ids : txs[j].end >= t}

\* What steps 3b and 4 of _deliver_to make of transmission i at r when the
\* register holds the ids given: the first blocker, else the first interferer,
\* else a hop.  The register is a dict in the order of the ids.
Verdict(txs, ids, i, r) ==
    LET blockers    == is_receiver_busy(txs, ids, i, r)
        interferers == is_lost(txs, ids, i, r)
    IN  IF blockers # {} THEN [is |-> "halfduplex", by |-> Min(blockers)]
        ELSE IF interferers # {} THEN [is |-> "collision", by |-> Min(interferers)]
        ELSE [is |-> "hop", by |-> 0]
=============================================================================
