------------------------------ MODULE Courier ------------------------------
(***************************************************************************)
(* A text message from the traffic generator to the report: the node agent *)
(* (node_agent/SimNode.cpp) sends it, tracks its ACK, retries and gives    *)
(* up; a room server passes it on; the metrics count what the nodes say.   *)
(*                                                                         *)
(*   SendRandom  _send_random (traffic.py), the direct message             *)
(*   Command     the node reads send_text: sendTextTo                      *)
(*   Receive     a packet reaches its destination: onMessageRecv, and the  *)
(*               forwards of a RoomServerNode                              *)
(*   AckArrives  processAck                                                *)
(*   Timeout     onSendTimeout                                             *)
(*   Report      the node's reader loop takes one line: on_event           *)
(*                                                                         *)
(* The mesh is MeshCore, outside these sources.  A packet may never arrive *)
(* and arrives at most once; each that does is answered by one ACK, which  *)
(* carries the token sendMessage returned; sendMessage gives every packet  *)
(* a token of its own, since its timestamp is unique, and may fail when    *)
(* the packet pool is empty.  A timeout may come at any time.  Contacts    *)
(* are those of the end of the warm-up: adverts are over.                  *)
(***************************************************************************)
EXTENDS Integers, Sequences, FiniteSets, Functions

CONSTANTS
    Node,         \* the endpoints
    Room,         \* those that are room servers
    Contacts,     \* [Node -> Seq(Node)]: the contact table, in its order
    MaxRetries,   \* ACK_MAX_RETRIES
    Wrap,         \* the clock values a text distinguishes (1000000 ms)
    MaxSends,     \* bound: messages the traffic generator sends
    MaxNow,       \* bound: the clock
    MaxUnread,    \* bound: lines in a stdout pipe, where a node blocks
    MaxPackets,   \* bound: packets made before sendMessage always fails
    Gap,          \* bound: the least time between two messages
    None

ASSUME CourierAssumption ==
    /\ IsFiniteSet(Node)
    /\ Room \subseteq Node
    /\ Contacts \in [Node -> Seq(Node)]
    /\ MaxRetries \in Nat
    /\ Wrap \in Nat \ {0}
    /\ MaxSends \in Nat
    /\ MaxNow \in Nat
    /\ MaxUnread \in Nat
    /\ MaxPackets \in Nat
    /\ Gap \in Nat
    /\ None \notin Node

VARIABLES
    now,        \* time.monotonic() and time.time()
    sends,      \* messages the traffic generator has sent
    inbox,      \* per node, send_text lines in its stdin pipe
    outbox,     \* per node, event lines in its stdout pipe
    pending,    \* per node, _pending_msg, or None
    serial,     \* per node, timestamps taken from getCurrentTimeUnique
    texts,      \* text packets in the mesh
    acks,       \* tokens of the ACKs in the mesh
    waiting,    \* metrics._pending
    completed,  \* metrics._completed
    counts,     \* metrics._ack_confirmed, _ack_retries and _ack_failed
    sent,       \* history: every text packet
    received,   \* history: those that arrived
    ended       \* history: messages no longer tracked, and why

vars == <<now, sends, inbox, outbox, pending, serial, texts, acks, waiting,
          completed, counts, sent, received, ended>>

-----------------------------------------------------------------------------

\* "hello from <by> t=<stamp>", or that with "[<via>]: " before it.
Text == [by : Node, stamp : Nat, via : Node \cup {None}]

\* What an ACK names: the packet's sender and its timestamp.
Token == Node \X Nat

\* msg: the token of the first attempt, the identity of the message.
Packet == [from : Node, to : Node, text : Text, ack : Token, msg : Token]

PendingMsg == [ack : Token, dest : Node, text : Text, attempt : 0..MaxRetries,
               msg : Token]

Log == {"confirmed", "retries", "failed"}

Event == [is : Log, text : {None}] \cup [is : {"recv_text"}, text : Text]

SendRecord == [text : Text, dest : Node, at : Nat]

End == [msg : Token, how : {"confirmed", "failed", "dropped", "superseded"}]

TypeOK ==
    /\ now \in Nat
    /\ sends \in Nat
    /\ inbox \in [Node -> Seq([dest : Node, text : Text])]
    /\ outbox \in [Node -> Seq(Event)]
    /\ pending \in [Node -> PendingMsg \cup {None}]
    /\ serial \in [Node -> Nat]
    /\ texts \subseteq Packet
    /\ acks \subseteq Token
    /\ waiting \subseteq SendRecord
    /\ completed \subseteq [rec : SendRecord, by : Node]
    /\ counts \in [Log -> Nat]
    /\ sent \subseteq Packet
    /\ received \subseteq Packet
    /\ ended \subseteq End

Init ==
    /\ now = 0
    /\ sends = 0
    /\ inbox = [n \in Node |-> << >>]
    /\ outbox = [n \in Node |-> << >>]
    /\ pending = [n \in Node |-> None]
    /\ serial = [n \in Node |-> 0]
    /\ texts = {}
    /\ acks = {}
    /\ waiting = {}
    /\ completed = {}
    /\ counts = [l \in Log |-> 0]
    /\ sent = {}
    /\ received = {}
    /\ ended = {}

-----------------------------------------------------------------------------
(* The traffic generator                                                   *)

SendRandom(s, d) ==
    LET text == [by |-> s, stamp |-> now % Wrap, via |-> None]
    IN
    /\ sends < MaxSends
    /\ \A r \in waiting \cup {c.rec : c \in completed} : r.at + Gap <= now
    /\ d # s
    /\ d \in Range(Contacts[s])
    /\ sends' = sends + 1
    /\ waiting' = {w \in waiting : w.text # text} \cup
                     {[text |-> text, dest |-> d, at |-> now]}
    /\ inbox' = [inbox EXCEPT ![s] = Append(@, [dest |-> d, text |-> text])]
    /\ UNCHANGED <<now, outbox, pending, serial, texts, acks, completed, counts,
                   sent, received, ended>>

-----------------------------------------------------------------------------
(* The node agent                                                          *)

Emit(n, e) ==
    /\ Len(outbox[n]) < MaxUnread
    /\ outbox' = [outbox EXCEPT ![n] = Append(@, e)]

Logs(l) == [is |-> l, text |-> None]

\* The packet sendMessage makes of a text when n takes its k-th timestamp.
PacketAt(n, d, text, k) ==
    [from |-> n, to |-> d, text |-> text, ack |-> <<n, k>>, msg |-> <<n, k>>]

Tracked(p) ==
    [ack |-> p.ack, dest |-> p.to, text |-> p.text, attempt |-> 0, msg |-> p.msg]

Transmit(P) ==
    /\ Cardinality(sent \cup P) <= MaxPackets
    /\ texts' = texts \cup P
    /\ sent' = sent \cup P

\* The end of what n tracks, if it tracks anything.
EndOf(n, how) ==
    IF pending[n] = None THEN {} ELSE {[msg |-> pending[n].msg, how |-> how]}

\* sendTextTo, for a contact.  A failed sendMessage leaves what was pending.
Command(n) ==
    /\ inbox[n] # << >>
    /\ inbox' = [inbox EXCEPT ![n] = Tail(@)]
    /\ serial' = [serial EXCEPT ![n] = @ + 1]
    /\ LET cmd == Head(inbox[n])
           p == PacketAt(n, cmd.dest, cmd.text, serial[n])
       IN  \/ /\ Transmit({p})
              /\ pending' = [pending EXCEPT ![n] = Tracked(p)]
              /\ ended' = ended \cup EndOf(n, "superseded")
           \/ UNCHANGED <<texts, sent, pending, ended>>
    /\ UNCHANGED <<now, sends, outbox, acks, waiting, completed, counts, received>>

\* Mutant: the token is not compared.
AckArrives_any(k) ==
    /\ k \in acks
    /\ acks' = acks \ {k}
    /\ IF pending[k[1]] # None
       THEN /\ Emit(k[1], Logs("confirmed"))
            /\ pending' = [pending EXCEPT ![k[1]] = None]
            /\ ended' = ended \cup EndOf(k[1], "confirmed")
       ELSE UNCHANGED <<outbox, pending, ended>>
    /\ UNCHANGED <<now, sends, inbox, serial, texts, waiting, completed, counts,
                   sent, received>>

\* Mutant: what was confirmed stays pending.
AckArrives_keep(k) ==
    /\ k \in acks
    /\ acks' = acks \ {k}
    /\ IF pending[k[1]] # None /\ pending[k[1]].ack = k
       THEN /\ Emit(k[1], Logs("confirmed"))
            /\ ended' = ended \cup EndOf(k[1], "confirmed")
       ELSE UNCHANGED <<outbox, ended>>
    /\ UNCHANGED <<now, sends, inbox, pending, serial, texts, waiting, completed,
                   counts, sent, received>>

\* Mutant: a retry is expected to be answered as the first attempt.
AckArrives_first(k) ==
    /\ k \in acks
    /\ acks' = acks \ {k}
    /\ IF pending[k[1]] # None /\ pending[k[1]].msg = k
       THEN /\ Emit(k[1], Logs("confirmed"))
            /\ pending' = [pending EXCEPT ![k[1]] = None]
            /\ ended' = ended \cup EndOf(k[1], "confirmed")
       ELSE UNCHANGED <<outbox, pending, ended>>
    /\ UNCHANGED <<now, sends, inbox, serial, texts, waiting, completed, counts,
                   sent, received>>

\* Mutant: the last timeout does not give up.
GiveUp_late(n) ==
    /\ pending[n].attempt > MaxRetries
    /\ Emit(n, Logs("failed"))
    /\ pending' = [pending EXCEPT ![n] = None]
    /\ ended' = ended \cup EndOf(n, "failed")
    /\ UNCHANGED <<serial, texts, sent>>

\* Mutant: the last timeout is logged as one more retry.
GiveUp_logs(n) ==
    /\ pending[n].attempt = MaxRetries
    /\ Emit(n, Logs("retries"))
    /\ pending' = [pending EXCEPT ![n] = None]
    /\ ended' = ended \cup EndOf(n, "failed")
    /\ UNCHANGED <<serial, texts, sent>>

\* processAck, at the node the token is of.
AckArrives(k) ==
    /\ k \in acks
    /\ acks' = acks \ {k}
    /\ IF pending[k[1]] # None /\ pending[k[1]].ack = k
       THEN /\ Emit(k[1], Logs("confirmed"))
            /\ pending' = [pending EXCEPT ![k[1]] = None]
            /\ ended' = ended \cup EndOf(k[1], "confirmed")
       ELSE UNCHANGED <<outbox, pending, ended>>
    /\ UNCHANGED <<now, sends, inbox, serial, texts, waiting, completed, counts,
                   sent, received>>

GiveUp(n) ==
    /\ pending[n].attempt = MaxRetries
    /\ Emit(n, Logs("failed"))
    /\ pending' = [pending EXCEPT ![n] = None]
    /\ ended' = ended \cup EndOf(n, "failed")
    /\ UNCHANGED <<serial, texts, sent>>

\* Mutant: one retry more than the limit.
Retry_extra(n) ==
    LET m == pending[n]
        p == [PacketAt(n, m.dest, m.text, serial[n]) EXCEPT !.msg = m.msg]
    IN
    /\ m.attempt <= MaxRetries
    /\ Emit(n, Logs("retries"))
    /\ serial' = [serial EXCEPT ![n] = @ + 1]
    /\ \/ /\ Transmit({p})
          /\ pending' = [pending EXCEPT ![n].attempt = @ + 1, ![n].ack = p.ack]
          /\ UNCHANGED ended
       \/ /\ pending' = [pending EXCEPT ![n] = None]
          /\ ended' = ended \cup EndOf(n, "dropped")
          /\ UNCHANGED <<texts, sent>>

\* The retry goes out with a timestamp and a token of its own.
Retry(n) ==
    LET m == pending[n]
        p == [PacketAt(n, m.dest, m.text, serial[n]) EXCEPT !.msg = m.msg]
    IN
    /\ m.attempt < MaxRetries
    /\ Emit(n, Logs("retries"))
    /\ serial' = [serial EXCEPT ![n] = @ + 1]
    /\ \/ /\ Transmit({p})
          /\ pending' = [pending EXCEPT ![n].attempt = @ + 1, ![n].ack = p.ack]
          /\ UNCHANGED ended
       \/ /\ pending' = [pending EXCEPT ![n] = None]
          /\ ended' = ended \cup EndOf(n, "dropped")
          /\ UNCHANGED <<texts, sent>>

Timeout(n) ==
    /\ pending[n] # None
    /\ GiveUp(n) \/ Retry(n)
    /\ UNCHANGED <<now, sends, inbox, acks, waiting, completed, counts, received>>

-----------------------------------------------------------------------------
(* A packet arrives                                                        *)

\* The contacts a room server passes a message of c on to, by their index, which
\* also numbers the timestamps the forwards take.
Others(n, c) == {i \in DOMAIN Contacts[n] : Contacts[n][i] # c}

\* Mutant: the text goes out as it came.
Forwards_bare(p, Ok) ==
    {PacketAt(p.to, Contacts[p.to][i], p.text, serial[p.to] + i - 1) : i \in Ok}

\* What a room server makes of packet p, sendMessage failing for the contacts
\* whose index is not in Ok.
Forwards(p, Ok) ==
    {PacketAt(p.to, Contacts[p.to][i], [p.text EXCEPT !.via = p.from],
              serial[p.to] + i - 1) : i \in Ok}

\* Each forward takes the place of what was pending: the last stays.
Forward(p) ==
    \E Ok \in SUBSET Others(p.to, p.from) :
        LET P == Forwards(p, Ok)
        IN
        /\ serial' = [serial EXCEPT ![p.to] = @ + Len(Contacts[p.to])]
        /\ texts' = (texts \ {p}) \cup P
        /\ sent' = sent \cup P
        /\ \/ /\ P = {}
              /\ UNCHANGED <<pending, ended>>
           \/ /\ Cardinality(sent') <= MaxPackets
              /\ \E last \in P :
                    /\ \A q \in P : q.ack[2] <= last.ack[2]
                    /\ pending' = [pending EXCEPT ![p.to] = Tracked(last)]
                    /\ ended' = ended \cup EndOf(p.to, "superseded") \cup
                         {[msg |-> q.msg, how |-> "superseded"] : q \in P \ {last}}

\* onMessageRecv.  The room_post line a room server also writes changes nothing
\* in the metrics.
Receive(p) ==
    /\ p \in texts
    /\ received' = received \cup {p}
    /\ acks' = acks \cup {p.ack}
    /\ Emit(p.to, [is |-> "recv_text", text |-> p.text])
    /\ IF p.to \in Room
       THEN Forward(p)
       ELSE /\ texts' = texts \ {p}
            /\ UNCHANGED <<pending, serial, sent, ended>>
    /\ UNCHANGED <<now, sends, inbox, waiting, completed, counts>>

-----------------------------------------------------------------------------
(* The metrics                                                             *)

\* Mutant: the record of the attempt stays.
Complete_keep(n, text) ==
    LET W == {w \in waiting : w.text = text}
    IN  /\ completed' = completed \cup {[rec |-> w, by |-> n] : w \in W}
        /\ UNCHANGED <<waiting, counts>>

\* on_event, for a text n says it has received.
Complete(n, text) ==
    LET W == {w \in waiting : w.text = text}
    IN  /\ waiting' = waiting \ W
        /\ completed' = completed \cup {[rec |-> w, by |-> n] : w \in W}
        /\ UNCHANGED counts

Report(n) ==
    /\ outbox[n] # << >>
    /\ outbox' = [outbox EXCEPT ![n] = Tail(@)]
    /\ LET e == Head(outbox[n])
       IN  IF e.is = "recv_text"
           THEN Complete(n, e.text)
           ELSE /\ counts' = [counts EXCEPT ![e.is] = @ + 1]
                /\ UNCHANGED <<waiting, completed>>
    /\ UNCHANGED <<now, sends, inbox, pending, serial, texts, acks, sent,
                   received, ended>>

Tick ==
    /\ now < MaxNow
    /\ now' = now + 1
    /\ UNCHANGED <<sends, inbox, outbox, pending, serial, texts, acks, waiting,
                   completed, counts, sent, received, ended>>

-----------------------------------------------------------------------------

Next ==
    \/ \E s, d \in Node : SendRandom(s, d)
    \/ \E n \in Node : Command(n)
    \/ \E k \in acks : AckArrives(k)
    \/ \E n \in Node : Timeout(n)
    \/ \E p \in texts : Receive(p)
    \/ \E n \in Node : Report(n)
    \/ Tick

Spec == Init /\ [][Next]_vars

\* The node's loop reads its stdin and checks its timer, the reader loop reads
\* what the node writes.  Nothing is asked of the mesh.
Fairness ==
    \A n \in Node :
        WF_vars(Command(n)) /\ WF_vars(Timeout(n)) /\ WF_vars(Report(n))

FairSpec == Spec /\ Fairness

-----------------------------------------------------------------------------
(* Properties                                                              *)

\* A node never confirms a message that did not arrive: when processAck ends
\* the tracking, one of the packets of that message, the first or a retry, has
\* reached its destination, whatever was superseded or retried meanwhile. Nor
\* is a message that arrived left waiting by its ACK: if the packet a node
\* awaits the ACK of has arrived, that ACK is still under way. Only an ACK that
\* comes when its attempt is over, retried or given up, is passed over, so that
\* only by such a one a message that arrived is reported failed
\* (SimNode.cpp: processAck, onSendTimeout).
ConfirmedWasReceived ==
    /\ \A e \in ended : e.how = "confirmed" => \E p \in received : p.msg = e.msg
    /\ \A n \in Node : pending[n] # None =>
          \A p \in received : p.ack = pending[n].ack => p.ack \in acks

\* A message has one outcome at most: confirmed, failed, dropped by a retry
\* that could not be sent, or superseded by a later one; and the one the node
\* still tracks has none.
OneOutcome ==
    /\ \A e, f \in ended : e.msg = f.msg => e = f
    /\ \A n \in Node : pending[n] # None => \A e \in ended : e.msg # pending[n].msg

PacketsOf(m) == {p \in sent : p.msg = m}

\* A message goes out at most 1 + ACK_MAX_RETRIES times, and onSendTimeout says
\* it has failed only after exactly that many ("after %d attempts").
Attempts ==
    /\ \A p \in sent : Cardinality(PacketsOf(p.msg)) <= MaxRetries + 1
    /\ \A e \in ended :
          e.how = "failed" => Cardinality(PacketsOf(e.msg)) = MaxRetries + 1

\* The places of the lines l in the pipes.
Unread(l) ==
    UNION {{n} \X {i \in DOMAIN outbox[n] : outbox[n][i].is = l} : n \in Node}

Outcomes(how) == {e \in ended : e.how = how}

Retried == {p \in sent : p.ack # p.msg}

\* What the reader loops have counted, and what they will have.
Logged(l) == counts[l] + Cardinality(Unread(l))

\* The ACK counters of the report, read back from the wording of log lines,
\* agree with what the nodes did, up to the lines not read yet: a message
\* confirmed or failed is counted once, and so is every timeout before the last.
CountersAgree ==
    /\ Logged("confirmed") = Cardinality(Outcomes("confirmed"))
    /\ Logged("failed") = Cardinality(Outcomes("failed"))
    /\ Logged("retries") = Cardinality(Outcomes("dropped")) + Cardinality(Retried)

\* A delivery is credited to the node the message was for, although a room
\* server passes texts on and any node's recv_text completes a record (texts
\* are unique while Wrap > MaxNow and Gap > 0).
CreditedToDest == \A c \in completed : c.by = c.rec.dest

\* A message whose text its destination has received is counted as delivered
\* as soon as the recv_text lines are read: none is left waiting.
NoneForgotten ==
    \A w \in waiting, p \in received :
        p.text = w.text =>
            \E i \in DOMAIN outbox[p.to] : outbox[p.to][i].text = w.text

\* The report settles: in the end no node tracks a message any more and every
\* line is read, so that by CountersAgree each message is in one of the counters,
\* or was dropped or superseded.
Settles == <>[](\A n \in Node : pending[n] = None /\ outbox[n] = << >>)

\* "Embed a timestamp so every message text is unique for delivery tracking"
\* (orchestrator/traffic.py:169): every message has its record, so that
\* attempted_count is the number of messages sent.
TextsUnique == Cardinality(waiting) + Cardinality(completed) = sends
=============================================================================
