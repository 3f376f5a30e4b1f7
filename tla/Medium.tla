------------------------------- MODULE Medium -------------------------------
(***************************************************************************)
(* What the orchestrator promises of the air between the nodes, without    *)
(* tasks, listen-before-talk, gates, adversaries or a bounded register.    *)
(* The log keeps every transmission.  A packet may be judged at a          *)
(* neighbour once, when its last symbol has arrived there, and the verdict *)
(* is the channel's on the complete log.  Most deliveries need not be      *)
(* judged: link loss or an adversary may take them.                        *)
(***************************************************************************)
EXTENDS Channel, Sequences

CONSTANTS Packet, Airtime

VARIABLES now, log, decided

mvars == <<now, log, decided>>

Init ==
    /\ now = 0
    /\ log = << >>
    /\ decided = {}

Transmit(s, p) ==
    /\ log' = Append(log, [sender |-> s, pkt |-> p, start |-> now,
                           end |-> now + Airtime[p]])
    /\ UNCHANGED <<now, decided>>

Judge(i, r) ==
    /\ r \in Neighbours(log[i].sender)
    /\ now >= RxEnd(log[i], r)
    /\ ~ \E v \in decided : v.n = i /\ v.to = r
    /\ LET o == Verdict(log, DOMAIN log, i, r)
       IN  decided' = decided \cup
              {[n |-> i, to |-> r, is |-> o.is, by |-> o.by, t |-> now]}
    /\ UNCHANGED <<now, log>>

Tick ==
    /\ now' \in Nat
    /\ now' > now
    /\ UNCHANGED <<log, decided>>

Next ==
    \/ \E s \in Node, p \in Packet : Transmit(s, p)
    \/ \E i \in DOMAIN log, r \in Node : Judge(i, r)
    \/ Tick

Spec == Init /\ [][Next]_mvars

\* A verdict stays the channel's verdict whatever is transmitted afterwards:
\* judging when the last symbol has arrived is late enough.
VerdictsFinal ==
    \A v \in decided :
        [is |-> v.is, by |-> v.by] = Verdict(log, DOMAIN log, v.n, v.to)
=============================================================================
