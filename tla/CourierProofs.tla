--------------------------- MODULE CourierProofs ---------------------------
(***************************************************************************)
(* Type correctness of Courier, and that a node confirms only messages     *)
(* that arrived and gives each message one outcome at most, for every set  *)
(* of nodes, contact table, retry limit and bound.                         *)
(*                                                                         *)
(* An ACK and an outcome name packets and messages by token.  The argument *)
(* is that a token below a node's serial names one message for good:       *)
(* whatever a node sends or tracks anew carries a token the serial had not *)
(* reached, so that it is neither of a packet in flight nor of a message   *)
(* that has ended.                                                         *)
(***************************************************************************)
EXTENDS Courier, TLAPS

USE CourierAssumption

\* What is in flight, or has arrived, was sent.
OnlySent == texts \cup received \subseteq sent

\* An ACK in flight answers a packet that arrived.
AcksAnswer == \A k \in acks : \E p \in received : p.ack = k

\* Tokens in use are below the serial of their node.
Taken(k) == k[2] < serial[k[1]]

TakenSent == \A p \in sent : Taken(p.ack) /\ Taken(p.msg)

TakenEnded == \A e \in ended : Taken(e.msg)

TakenPending ==
    \A n \in Node : pending[n] # None =>
        /\ pending[n].msg[1] = n
        /\ pending[n].msg[2] < serial[n]

\* The token of a packet tells its message.
OneMessage == \A p, q \in sent : p.ack = q.ack => p.msg = q.msg

\* What a node tracks is the last packet it sent of that message.
TracksSent ==
    \A n \in Node : pending[n] # None =>
        \E p \in sent : p.ack = pending[n].ack /\ p.msg = pending[n].msg

\* What is confirmed has arrived.
Confirmed == \A e \in ended : e.how = "confirmed" => \E p \in received : p.msg = e.msg

\* The ACK a node waits for is of its own, and under way if its packet arrived.
AckKept ==
    \A n \in Node : pending[n] # None =>
        /\ pending[n].ack[1] = n
        /\ \A p \in received : p.ack = pending[n].ack => p.ack \in acks

CourierInv ==
    /\ TypeOK
    /\ OnlySent
    /\ AcksAnswer
    /\ TakenSent
    /\ TakenEnded
    /\ TakenPending
    /\ OneMessage
    /\ TracksSent
    /\ Confirmed
    /\ OneOutcome

-----------------------------------------------------------------------------
(* Type correctness, action by action                                      *)

LEMMA InitType == Init => TypeOK
BY DEF Init, TypeOK, Log

\* A line that fits is appended to the pipe of its node.
LEMMA EmitType ==
    ASSUME TypeOK, NEW n \in Node, NEW e \in Event, Emit(n, e)
    PROVE  outbox' \in [Node -> Seq(Event)]
<1> DEFINE T == Event
<1>1. outbox \in [Node -> Seq(T)] BY DEF TypeOK
<1>2. e \in T OBVIOUS
<1> HIDE DEF T
<1>3. [outbox EXCEPT ![n] = Append(@, e)] \in [Node -> Seq(T)] BY <1>1, <1>2
<1> QED BY <1>3 DEF Emit, T

LEMMA LogsType == \A l \in Log : Logs(l) \in Event
BY DEF Logs, Event

LEMMA PacketAtType ==
    ASSUME NEW n \in Node, NEW d \in Node, NEW t \in Text, NEW k \in Nat
    PROVE  /\ PacketAt(n, d, t, k) \in Packet
           /\ Tracked(PacketAt(n, d, t, k)) \in PendingMsg
BY DEF PacketAt, Tracked, Packet, PendingMsg, Token

LEMMA EndOfType ==
    ASSUME TypeOK, NEW n \in Node,
           NEW how \in {"confirmed", "failed", "dropped", "superseded"}
    PROVE  EndOf(n, how) \subseteq End
BY DEF EndOf, End, TypeOK, PendingMsg

LEMMA SendRandomType ==
    ASSUME TypeOK, NEW s \in Node, NEW d \in Node, SendRandom(s, d)
    PROVE  TypeOK'
<1> DEFINE text == [by |-> s, stamp |-> now % Wrap, via |-> None]
<1>1. text \in Text BY DEF TypeOK, Text
<1> HIDE DEF text
<1>2. waiting' \subseteq SendRecord
  <2>1. [text |-> text, dest |-> d, at |-> now] \in SendRecord
        BY <1>1 DEF TypeOK, SendRecord
  <2>2. waiting' = {w \in waiting : w.text # text} \cup
                      {[text |-> text, dest |-> d, at |-> now]}
        BY DEF SendRandom, text
  <2> QED BY <2>1, <2>2 DEF TypeOK
<1>3. inbox' \in [Node -> Seq([dest : Node, text : Text])]
  <2> DEFINE T == [dest : Node, text : Text]
             c == [dest |-> d, text |-> text]
  <2>1. c \in T BY <1>1
  <2>2. inbox \in [Node -> Seq(T)] BY DEF TypeOK
  <2>3. inbox' = [inbox EXCEPT ![s] = Append(@, c)] BY DEF SendRandom, text
  <2> HIDE DEF T, c
  <2>4. inbox' \in [Node -> Seq(T)] BY <2>1, <2>2, <2>3
  <2> QED BY <2>4 DEF T
<1>4. sends' \in Nat
  <2>1. sends \in Nat BY DEF TypeOK
  <2>2. sends' = sends + 1 BY DEF SendRandom
  <2> QED BY <2>1, <2>2
<1>5. UNCHANGED <<now, outbox, pending, serial, texts, acks, completed, counts,
                  sent, received, ended>>
      BY DEF SendRandom
<1> QED BY <1>2, <1>3, <1>4, <1>5 DEF TypeOK

LEMMA CommandType ==
    ASSUME TypeOK, NEW n \in Node, Command(n)
    PROVE  TypeOK'
<1> DEFINE T == [dest : Node, text : Text]
           c == Head(inbox[n])
           p == PacketAt(n, c.dest, c.text, serial[n])
<1>1. c \in T /\ inbox' \in [Node -> Seq(T)]
  <2>1. inbox \in [Node -> Seq(T)] BY DEF TypeOK
  <2>2. inbox[n] # << >> /\ inbox' = [inbox EXCEPT ![n] = Tail(@)] BY DEF Command
  <2> HIDE DEF T
  <2> QED BY <2>1, <2>2
<1>2. serial[n] \in Nat /\ serial' \in [Node -> Nat] BY DEF Command, TypeOK
<1>3. c.dest \in Node /\ c.text \in Text BY <1>1
<1>4. p \in Packet /\ Tracked(p) \in PendingMsg BY <1>2, <1>3, PacketAtType
<1>5. EndOf(n, "superseded") \subseteq End BY EndOfType
<1>6. \/ /\ texts' = texts \cup {p}
         /\ sent' = sent \cup {p}
         /\ pending' = [pending EXCEPT ![n] = Tracked(p)]
         /\ ended' = ended \cup EndOf(n, "superseded")
      \/ UNCHANGED <<texts, sent, pending, ended>>
      BY DEF Command, Transmit
<1>7. UNCHANGED <<now, sends, outbox, acks, waiting, completed, counts, received>>
      BY DEF Command
<1> HIDE DEF c, p
<1>8. /\ texts' \subseteq Packet
      /\ sent' \subseteq Packet
      /\ pending' \in [Node -> PendingMsg \cup {None}]
      /\ ended' \subseteq End
  <2>1. /\ texts \subseteq Packet /\ sent \subseteq Packet
        /\ pending \in [Node -> PendingMsg \cup {None}] /\ ended \subseteq End
        BY DEF TypeOK
  <2> QED BY <1>4, <1>5, <1>6, <2>1
<1> QED BY <1>1, <1>2, <1>7, <1>8 DEF TypeOK

LEMMA AckArrivesType ==
    ASSUME TypeOK, NEW k \in acks, AckArrives(k)
    PROVE  TypeOK'
<1>1. k[1] \in Node BY DEF TypeOK, Token
<1>2. outbox' \in [Node -> Seq(Event)]
  <2>1. Logs("confirmed") \in Event BY LogsType DEF Log
  <2>2. Emit(k[1], Logs("confirmed")) \/ outbox' = outbox BY DEF AckArrives
  <2> QED BY <1>1, <2>1, <2>2, EmitType DEF TypeOK
<1>3. /\ acks' \subseteq Token
      /\ pending' \in [Node -> PendingMsg \cup {None}]
      /\ ended' \subseteq End
  <2>1. EndOf(k[1], "confirmed") \subseteq End BY <1>1, EndOfType
  <2> QED BY <1>1, <2>1 DEF AckArrives, TypeOK
<1>4. UNCHANGED <<now, sends, inbox, serial, texts, waiting, completed, counts,
                  sent, received>>
      BY DEF AckArrives
<1> QED BY <1>2, <1>3, <1>4 DEF TypeOK

\* What a retry sends and tracks: the message under a new token.
LEMMA RetryFacts ==
    ASSUME TypeOK, NEW n \in Node, pending[n] # None, Retry(n)
    PROVE  /\ outbox' \in [Node -> Seq(Event)]
           /\ serial' = [serial EXCEPT ![n] = @ + 1]
           /\ \/ \E p \in Packet :
                   /\ p.ack = <<n, serial[n]>> /\ p.msg = pending[n].msg
                   /\ texts' = texts \cup {p}
                   /\ sent' = sent \cup {p}
                   /\ pending' = [pending EXCEPT ![n] = [pending[n] EXCEPT
                           !.attempt = pending[n].attempt + 1, !.ack = p.ack]]
                   /\ pending'[n] \in PendingMsg
                   /\ UNCHANGED ended
              \/ /\ pending' = [pending EXCEPT ![n] = None]
                 /\ ended' = ended \cup EndOf(n, "dropped")
                 /\ UNCHANGED <<texts, sent>>
<1> DEFINE m == pending[n]
           q == PacketAt(n, m.dest, m.text, serial[n])
           p == [q EXCEPT !.msg = m.msg]
<1>1. m \in PendingMsg BY DEF TypeOK
<1>2. serial[n] \in Nat BY DEF TypeOK
<1>3. p \in Packet /\ p.ack = <<n, serial[n]>> /\ p.msg = m.msg
      BY <1>1, <1>2 DEF PacketAt, Packet, PendingMsg, Token
<1>4. m.attempt < MaxRetries BY DEF Retry
<1>5. [m EXCEPT !.attempt = m.attempt + 1, !.ack = p.ack] \in PendingMsg
  <2>1. p.ack \in Token BY <1>3 DEF Packet
  <2> HIDE DEF m, p
  <2>2. m.attempt \in 0..MaxRetries /\ m.attempt + 1 \in 0..MaxRetries
        BY <1>1, <1>4 DEF PendingMsg, m
  <2> QED BY <1>1, <2>1, <2>2 DEF PendingMsg
<1>6. ASSUME /\ Transmit({p})
             /\ pending' = [pending EXCEPT ![n].attempt = @ + 1, ![n].ack = p.ack]
             /\ UNCHANGED ended
      PROVE  /\ texts' = texts \cup {p}
             /\ sent' = sent \cup {p}
             /\ pending' = [pending EXCEPT ![n] = [pending[n] EXCEPT
                     !.attempt = pending[n].attempt + 1, !.ack = p.ack]]
             /\ pending'[n] \in PendingMsg
             /\ UNCHANGED ended
  <2> HIDE DEF p, q
  <2>1. pending' = [pending EXCEPT ![n] = [pending[n] EXCEPT
                     !.attempt = pending[n].attempt + 1, !.ack = p.ack]]
        BY <1>1, <1>6 DEF TypeOK, PendingMsg
  <2> QED BY <1>5, <1>6, <2>1 DEF Transmit, TypeOK
<1>7. outbox' \in [Node -> Seq(Event)]
  <2>1. Logs("retries") \in Event BY LogsType DEF Log
  <2> QED BY <2>1, EmitType DEF Retry
<1>8. serial' = [serial EXCEPT ![n] = @ + 1] BY DEF Retry
<1>9. \/ /\ Transmit({p})
         /\ pending' = [pending EXCEPT ![n].attempt = @ + 1, ![n].ack = p.ack]
         /\ UNCHANGED ended
      \/ /\ pending' = [pending EXCEPT ![n] = None]
         /\ ended' = ended \cup EndOf(n, "dropped")
         /\ UNCHANGED <<texts, sent>>
      BY DEF Retry
<1> HIDE DEF p, q
<1> QED BY <1>3, <1>6, <1>7, <1>8, <1>9

LEMMA TimeoutType ==
    ASSUME TypeOK, NEW n \in Node, Timeout(n)
    PROVE  TypeOK'
<1>1. pending[n] # None /\ UNCHANGED <<now, sends, inbox, acks, waiting,
                                       completed, counts, received>>
      BY DEF Timeout
<1>2. CASE GiveUp(n)
  <2>1. outbox' \in [Node -> Seq(Event)]
    <3>1. Logs("failed") \in Event BY LogsType DEF Log
    <3> QED BY <1>2, <3>1, EmitType DEF GiveUp
  <2>2. EndOf(n, "failed") \subseteq End BY EndOfType
  <2> QED BY <1>1, <1>2, <2>1, <2>2 DEF GiveUp, TypeOK
<1>3. CASE Retry(n)
  <2>1. outbox' \in [Node -> Seq(Event)] BY <1>1, <1>3, RetryFacts
  <2>2. EndOf(n, "dropped") \subseteq End BY EndOfType
  <2>3. serial' \in [Node -> Nat]
    <3>1. serial' = [serial EXCEPT ![n] = @ + 1] BY <1>1, <1>3, RetryFacts
    <3>2. serial \in [Node -> Nat] BY DEF TypeOK
    <3> QED BY <3>1, <3>2
  <2>4. /\ texts' \subseteq Packet
        /\ sent' \subseteq Packet
        /\ pending' \in [Node -> PendingMsg \cup {None}]
        /\ ended' \subseteq End
    <3>1. /\ texts \subseteq Packet /\ sent \subseteq Packet
          /\ pending \in [Node -> PendingMsg \cup {None}] /\ ended \subseteq End
          BY DEF TypeOK
    <3>2. CASE \E p \in Packet :
                 /\ texts' = texts \cup {p}
                 /\ sent' = sent \cup {p}
                 /\ pending' = [pending EXCEPT ![n] = [pending[n] EXCEPT
                         !.attempt = pending[n].attempt + 1, !.ack = p.ack]]
                 /\ pending'[n] \in PendingMsg
                 /\ UNCHANGED ended
          BY <3>1, <3>2
    <3>3. CASE /\ pending' = [pending EXCEPT ![n] = None]
               /\ ended' = ended \cup EndOf(n, "dropped")
               /\ UNCHANGED <<texts, sent>>
          BY <2>2, <3>1, <3>3
    <3> QED BY <1>1, <1>3, <3>2, <3>3, RetryFacts
  <2> QED BY <1>1, <2>1, <2>3, <2>4 DEF TypeOK
<1> QED BY <1>2, <1>3 DEF Timeout

\* What a room server sends: packets of its own, new messages all of them.
LEMMA ForwardsFacts ==
    ASSUME TypeOK, NEW p \in Packet, NEW Ok \in SUBSET Others(p.to, p.from)
    PROVE  \A q \in Forwards(p, Ok) :
             /\ q \in Packet
             /\ Tracked(q) \in PendingMsg
             /\ q.msg = q.ack
             /\ q.ack[1] = p.to
             /\ q.ack[2] \in Nat
             /\ serial[p.to] <= q.ack[2]
             /\ q.ack[2] < serial[p.to] + Len(Contacts[p.to])
<1> TAKE q \in Forwards(p, Ok)
<1>1. PICK i \in Ok :
        q = PacketAt(p.to, Contacts[p.to][i], [p.text EXCEPT !.via = p.from],
                     serial[p.to] + i - 1)
      BY DEF Forwards
<1>2. p.to \in Node /\ p.from \in Node /\ p.text \in Text BY DEF Packet
<1>3. i \in 1..Len(Contacts[p.to]) /\ Contacts[p.to][i] \in Node
      BY <1>2 DEF Others
<1>4. serial[p.to] \in Nat BY <1>2 DEF TypeOK
<1>5. [p.text EXCEPT !.via = p.from] \in Text BY <1>2 DEF Text
<1>6. /\ serial[p.to] + i - 1 \in Nat
      /\ serial[p.to] <= serial[p.to] + i - 1
      /\ serial[p.to] + i - 1 < serial[p.to] + Len(Contacts[p.to])
  <2> Len(Contacts[p.to]) \in Nat BY <1>2
  <2> QED BY <1>3, <1>4
<1>7. q \in Packet /\ Tracked(q) \in PendingMsg
      BY <1>1, <1>2, <1>3, <1>5, <1>6, PacketAtType
<1>8. q.msg = q.ack /\ q.ack = <<p.to, serial[p.to] + i - 1>>
      BY <1>1 DEF PacketAt
<1> QED BY <1>6, <1>7, <1>8

LEMMA ForwardType ==
    ASSUME TypeOK, NEW p \in Packet, Forward(p)
    PROVE  /\ serial' \in [Node -> Nat]
           /\ texts' \subseteq Packet
           /\ sent' \subseteq Packet
           /\ pending' \in [Node -> PendingMsg \cup {None}]
           /\ ended' \subseteq End
<1>1. PICK Ok \in SUBSET Others(p.to, p.from) : Forward(p)!(Ok) BY DEF Forward
<1> DEFINE P == Forwards(p, Ok)
<1>2. \A q \in P : /\ q \in Packet
                   /\ Tracked(q) \in PendingMsg
                   /\ q.msg = q.ack
      BY ForwardsFacts
<1>3. EndOf(p.to, "superseded") \subseteq End BY EndOfType DEF Packet
<1> HIDE DEF P
<1>4. texts' \subseteq Packet /\ sent' \subseteq Packet
      BY <1>1, <1>2 DEF P, TypeOK
<1>5. serial' \in [Node -> Nat]
  <2> p.to \in Node BY DEF Packet
  <2> Len(Contacts[p.to]) \in Nat OBVIOUS
  <2> QED BY <1>1 DEF TypeOK
<1>6. \A S \in SUBSET P : {[msg |-> q.msg, how |-> "superseded"] : q \in S} \subseteq End
      BY <1>2 DEF End, Packet
<1>7. pending' \in [Node -> PendingMsg \cup {None}] /\ ended' \subseteq End
  <2>1. pending \in [Node -> PendingMsg \cup {None}] /\ ended \subseteq End
        BY DEF TypeOK
  <2>2. CASE UNCHANGED <<pending, ended>> BY <2>1, <2>2
  <2>3. CASE \E last \in P :
               /\ pending' = [pending EXCEPT ![p.to] = Tracked(last)]
               /\ ended' = ended \cup EndOf(p.to, "superseded") \cup
                    {[msg |-> q.msg, how |-> "superseded"] : q \in P \ {last}}
    <3>1. PICK last \in P :
            /\ pending' = [pending EXCEPT ![p.to] = Tracked(last)]
            /\ ended' = ended \cup EndOf(p.to, "superseded") \cup
                 {[msg |-> q.msg, how |-> "superseded"] : q \in P \ {last}}
          BY <2>3
    <3>2. {[msg |-> q.msg, how |-> "superseded"] : q \in P \ {last}} \subseteq End
          BY <1>6
    <3>3. Tracked(last) \in PendingMsg BY <1>2
    <3>4. pending' \in [Node -> PendingMsg \cup {None}] BY <2>1, <3>1, <3>3
    <3>5. ended' \subseteq End BY <1>3, <2>1, <3>1, <3>2
    <3> QED BY <3>4, <3>5
  <2> QED BY <1>1, <2>2, <2>3 DEF P
<1> QED BY <1>4, <1>5, <1>7

LEMMA ReceiveType ==
    ASSUME TypeOK, NEW p \in texts, Receive(p)
    PROVE  TypeOK'
<1>1. p \in Packet BY DEF TypeOK
<1>2. p.to \in Node /\ p.text \in Text /\ p.ack \in Token BY <1>1 DEF Packet
<1>3. outbox' \in [Node -> Seq(Event)]
  <2>1. [is |-> "recv_text", text |-> p.text] \in Event BY <1>2 DEF Event
  <2> QED BY <1>2, <2>1, EmitType DEF Receive
<1>4. received' \subseteq Packet /\ acks' \subseteq Token
  <2>1. received \subseteq Packet /\ acks \subseteq Token BY DEF TypeOK
  <2> QED BY <1>1, <1>2, <2>1 DEF Receive
<1>5. /\ serial' \in [Node -> Nat]
      /\ texts' \subseteq Packet
      /\ sent' \subseteq Packet
      /\ pending' \in [Node -> PendingMsg \cup {None}]
      /\ ended' \subseteq End
  <2>1. CASE Forward(p) BY <1>1, <2>1, ForwardType
  <2>2. CASE /\ texts' = texts \ {p}
             /\ UNCHANGED <<pending, serial, sent, ended>>
        BY <2>2 DEF TypeOK
  <2> QED BY <2>1, <2>2 DEF Receive
<1>6. UNCHANGED <<now, sends, inbox, waiting, completed, counts>> BY DEF Receive
<1> QED BY <1>3, <1>4, <1>5, <1>6 DEF TypeOK

LEMMA ReportType ==
    ASSUME TypeOK, NEW n \in Node, Report(n)
    PROVE  TypeOK'
<1> DEFINE T == Event
           e == Head(outbox[n])
<1>1. e \in T /\ outbox' \in [Node -> Seq(T)]
  <2>1. outbox \in [Node -> Seq(T)] BY DEF TypeOK
  <2>2. outbox[n] # << >> /\ outbox' = [outbox EXCEPT ![n] = Tail(@)] BY DEF Report
  <2> HIDE DEF T
  <2> QED BY <2>1, <2>2
<1>2. /\ waiting' \subseteq SendRecord
      /\ completed' \subseteq [rec : SendRecord, by : Node]
      /\ counts' \in [Log -> Nat]
  <2>1. /\ waiting \subseteq SendRecord
        /\ completed \subseteq [rec : SendRecord, by : Node]
        /\ counts \in [Log -> Nat]
        BY DEF TypeOK
  <2>2. CASE e.is = "recv_text"
    <3>1. Complete(n, e.text) BY <2>2 DEF Report
    <3> HIDE DEF e
    <3> QED BY <2>1, <3>1 DEF Complete
  <2>3. CASE e.is # "recv_text"
    <3>1. counts' = [counts EXCEPT ![e.is] = @ + 1] /\ UNCHANGED <<waiting, completed>>
          BY <2>3 DEF Report
    <3>2. e.is \in Log BY <1>1, <2>3 DEF Event
    <3> HIDE DEF e
    <3> QED BY <2>1, <3>1, <3>2
  <2> QED BY <2>2, <2>3
<1>3. UNCHANGED <<now, sends, inbox, pending, serial, texts, acks, sent, received,
                  ended>>
      BY DEF Report
<1> QED BY <1>1, <1>2, <1>3 DEF TypeOK

LEMMA NextType == TypeOK /\ [Next]_vars => TypeOK'
<1> SUFFICES ASSUME TypeOK, [Next]_vars PROVE TypeOK' OBVIOUS
<1>1. CASE \E s, d \in Node : SendRandom(s, d) BY <1>1, SendRandomType
<1>2. CASE \E n \in Node : Command(n) BY <1>2, CommandType
<1>3. CASE \E k \in acks : AckArrives(k) BY <1>3, AckArrivesType
<1>4. CASE \E n \in Node : Timeout(n) BY <1>4, TimeoutType
<1>5. CASE \E p \in texts : Receive(p) BY <1>5, ReceiveType
<1>6. CASE \E n \in Node : Report(n) BY <1>6, ReportType
<1>7. CASE Tick
  <2>1. now' \in Nat
    <3>1. now \in Nat /\ now' = now + 1 BY <1>7 DEF Tick, TypeOK
    <3> QED BY <3>1
  <2> QED BY <1>7, <2>1 DEF Tick, TypeOK
<1>8. CASE UNCHANGED vars BY <1>8 DEF TypeOK, vars
<1> QED BY <1>1, <1>2, <1>3, <1>4, <1>5, <1>6, <1>7, <1>8 DEF Next

\* Every variable keeps its type: pipes, packets, tracked messages, records and
\* counters.
THEOREM CourierTypeOK == Spec => []TypeOK
BY InitType, NextType, PTL DEF Spec

-----------------------------------------------------------------------------
(* Confirmations and outcomes                                              *)

\* Serials only grow, and a token in use stays in use.
LEMMA TakenStays ==
    ASSUME TypeOK, NEW n \in Node, NEW d \in Nat,
           serial' = [serial EXCEPT ![n] = @ + d]
    PROVE  /\ serial'[n] = serial[n] + d
           /\ \A m \in Node : serial[m] <= serial'[m]
           /\ \A k \in Token : Taken(k) => Taken(k)'
<1>1. serial \in [Node -> Nat] BY DEF TypeOK
<1>2. \A m \in Node : serial[m] <= serial'[m] BY <1>1
<1>3. serial'[n] = serial[n] + d BY <1>1
<1>4. ASSUME NEW k \in Token, Taken(k) PROVE Taken(k)'
  <2>1. k[1] \in Node /\ k[2] \in Nat BY DEF Token
  <2>2. k[2] < serial[k[1]] BY <1>4 DEF Taken
  <2>3. serial[k[1]] \in Nat /\ serial'[k[1]] \in Nat BY <1>1, <2>1
  <2>4. k[2] < serial'[k[1]] BY <1>2, <2>1, <2>2, <2>3
  <2> QED BY <2>4 DEF Taken
<1> QED BY <1>2, <1>3, <1>4

\* Packets sent under new tokens leave a token to tell its message.
LEMMA NewPackets ==
    ASSUME CourierInv, NEW n \in Node, NEW d \in Nat, NEW P \in SUBSET Packet,
           serial' = [serial EXCEPT ![n] = @ + d],
           sent' = sent \cup P,
           \A p \in P : /\ p.ack[1] = n
                        /\ serial[n] <= p.ack[2]
                        /\ p.ack[2] < serial[n] + d
                        /\ Taken(p.msg)',
           \A p, q \in P : p.ack = q.ack => p.msg = q.msg
    PROVE  TakenSent' /\ OneMessage'
<1>1. /\ serial'[n] = serial[n] + d
      /\ \A k \in Token : Taken(k) => Taken(k)'
      BY TakenStays DEF CourierInv
<1>2. \A p \in sent : p.ack \in Token /\ p.msg \in Token
      BY DEF CourierInv, TypeOK, Packet
<1>3. TakenSent'
  <2>1. \A p \in sent : Taken(p.ack)' /\ Taken(p.msg)'
        BY <1>1, <1>2 DEF CourierInv, TakenSent
  <2>2. \A p \in P : Taken(p.ack)' BY <1>1 DEF Taken
  <2> QED BY <2>1, <2>2 DEF TakenSent
<1>4. \A p \in sent, q \in P : p.ack # q.ack
  <2> SUFFICES ASSUME NEW p \in sent, NEW q \in P, p.ack = q.ack PROVE FALSE
      OBVIOUS
  <2>1. p.ack[2] < serial[p.ack[1]] BY DEF CourierInv, TakenSent, Taken
  <2>2. q.ack[1] = n /\ serial[n] <= q.ack[2] OBVIOUS
  <2>3. p.ack[2] \in Nat BY <1>2 DEF Token
  <2>4. serial[n] \in Nat BY DEF CourierInv, TypeOK
  <2> QED BY <2>1, <2>2, <2>3, <2>4
<1>5. OneMessage' BY <1>4 DEF CourierInv, OneMessage
<1> QED BY <1>3, <1>5

\* A node stops tracking its message, for one reason.
LEMMA Untracked ==
    ASSUME CourierInv, NEW n \in Node, pending[n] # None,
           NEW how \in {"confirmed", "failed", "dropped", "superseded"},
           pending' = [pending EXCEPT ![n] = None],
           ended' = ended \cup EndOf(n, how),
           sent \subseteq sent',
           \A m \in Node : serial[m] <= serial'[m],
           serial' \in [Node -> Nat],
           \A k \in Token : Taken(k) => Taken(k)'
    PROVE  TakenEnded' /\ TakenPending' /\ TracksSent' /\ OneOutcome'
<1> DEFINE x == [msg |-> pending[n].msg, how |-> how]
<1>1. ended' = ended \cup {x} BY DEF EndOf
<1>2. /\ \A m \in Node : m # n => pending'[m] = pending[m]
      /\ pending'[n] = None
      BY DEF CourierInv, TypeOK
<1>3. /\ x.msg = pending[n].msg
      /\ x.msg \in Token /\ x.msg[1] = n /\ x.msg[2] < serial[n]
      BY DEF CourierInv, TakenPending, TypeOK, PendingMsg
<1>4. \A e \in ended : e.msg # x.msg BY <1>3 DEF CourierInv, OneOutcome
<1> HIDE DEF x
<1>5. TakenEnded'
  <2>1. \A e \in ended : e.msg \in Token BY DEF CourierInv, TypeOK, End
  <2>2. Taken(x.msg) BY <1>3 DEF Taken
  <2> QED BY <1>1, <1>3, <2>1, <2>2 DEF CourierInv, TakenEnded
<1>6. TakenPending'
  <2>1. SUFFICES ASSUME NEW m \in Node, pending'[m] # None
                 PROVE  pending'[m].msg[1] = m /\ pending'[m].msg[2] < serial'[m]
        BY DEF TakenPending
  <2>2. pending'[m] = pending[m] BY <1>2, <2>1
  <2>3. pending[m].msg[1] = m /\ pending[m].msg[2] < serial[m]
        BY <2>1, <2>2 DEF CourierInv, TakenPending
  <2>4. pending[m].msg[2] \in Nat
        BY <2>1, <2>2 DEF CourierInv, TypeOK, PendingMsg, Token
  <2>5. serial[m] \in Nat /\ serial'[m] \in Nat BY DEF CourierInv, TypeOK
  <2> QED BY <2>2, <2>3, <2>4, <2>5
<1>7. TracksSent' BY <1>2 DEF CourierInv, TracksSent
<1>8. OneOutcome'
  <2>1. \A e, f \in ended' : e.msg = f.msg => e = f
        BY <1>1, <1>4 DEF CourierInv, OneOutcome
  <2>2. ASSUME NEW m \in Node, pending'[m] # None, NEW e \in ended'
        PROVE  e.msg # pending'[m].msg
    <3>1. m # n /\ pending'[m] = pending[m] BY <1>2, <2>2
    <3>2. pending[m].msg[1] = m BY <2>2, <3>1 DEF CourierInv, TakenPending
    <3> QED BY <1>1, <1>3, <2>2, <3>1, <3>2 DEF CourierInv, OneOutcome
  <2> QED BY <2>1, <2>2 DEF OneOutcome
<1> QED BY <1>5, <1>6, <1>7, <1>8

\* A node sends new messages and tracks the last of them.
LEMMA Superseded ==
    ASSUME CourierInv, NEW n \in Node, NEW d \in Nat, NEW P \in SUBSET Packet,
           NEW last \in P,
           serial' = [serial EXCEPT ![n] = @ + d],
           sent' = sent \cup P,
           \A p \in P : /\ p.msg = p.ack
                        /\ p.ack[1] = n
                        /\ serial[n] <= p.ack[2]
                        /\ p.ack[2] < serial[n] + d,
           \A p, q \in P : p.ack = q.ack => p = q,
           pending' = [pending EXCEPT ![n] = Tracked(last)],
           ended' = (ended \cup EndOf(n, "superseded")) \cup
                      {[msg |-> q.msg, how |-> "superseded"] : q \in P \ {last}}
    PROVE  /\ TakenSent' /\ OneMessage'
           /\ TakenEnded' /\ TakenPending' /\ TracksSent' /\ OneOutcome'
           /\ \A e \in ended' : e.how = "confirmed" => e \in ended
<1> DEFINE X == EndOf(n, "superseded")
           Y == {[msg |-> q.msg, how |-> "superseded"] : q \in P \ {last}}
<1>1. /\ serial'[n] = serial[n] + d
      /\ \A m \in Node : serial[m] <= serial'[m]
      /\ \A k \in Token : Taken(k) => Taken(k)'
      BY TakenStays DEF CourierInv
<1>2. \A p \in P : p.msg \in Token /\ p.msg[2] \in Nat /\ Taken(p.msg)'
  <2> TAKE p \in P
  <2>1. p.msg \in Token /\ p.msg[2] \in Nat BY DEF Packet, Token
  <2>2. p.msg[1] = n /\ p.msg[2] < serial[n] + d OBVIOUS
  <2> QED BY <1>1, <2>1, <2>2 DEF Taken
<1>3. TakenSent' /\ OneMessage'
  <2>1. \A p \in P : /\ p.ack[1] = n
                     /\ serial[n] <= p.ack[2]
                     /\ p.ack[2] < serial[n] + d
                     /\ Taken(p.msg)'
        BY <1>2
  <2>2. \A p, q \in P : p.ack = q.ack => p.msg = q.msg OBVIOUS
  <2> HIDE DEF X, Y
  <2> QED BY <2>1, <2>2, NewPackets
<1>4. serial \in [Node -> Nat] /\ serial' \in [Node -> Nat]
      BY DEF CourierInv, TypeOK
<1>5. /\ \A m \in Node : m # n => pending'[m] = pending[m]
      /\ pending'[n] = Tracked(last)
      BY DEF CourierInv, TypeOK
<1>6. /\ Tracked(last).ack = last.ack
      /\ Tracked(last).msg = last.msg
      BY DEF Tracked
\* The outcome of what n tracked before, if anything.
<1>7. \A x \in X : /\ x.how = "superseded"
                   /\ x.msg \in Token /\ x.msg[1] = n /\ x.msg[2] < serial[n]
                   /\ \A e \in ended : e.msg # x.msg
                   /\ \A y \in X : x = y
  <2>1. CASE pending[n] = None BY <2>1 DEF EndOf
  <2>2. CASE pending[n] # None
    <3>1. X = {[msg |-> pending[n].msg, how |-> "superseded"]}
          BY <2>2 DEF EndOf
    <3>2. pending[n].msg \in Token BY <2>2 DEF CourierInv, TypeOK, PendingMsg
    <3>3. pending[n].msg[1] = n /\ pending[n].msg[2] < serial[n]
          BY <2>2 DEF CourierInv, TakenPending
    <3>4. \A e \in ended : e.msg # pending[n].msg
          BY <2>2 DEF CourierInv, OneOutcome
    <3> HIDE DEF X
    <3> QED BY <3>1, <3>2, <3>3, <3>4
  <2> QED BY <2>1, <2>2
\* The outcomes of the forwards that had their place taken.
<1>8. \A y \in Y : /\ y.how = "superseded"
                   /\ y.msg # last.msg
                   /\ y.msg[1] = n /\ serial[n] <= y.msg[2]
                   /\ y.msg \in Token /\ Taken(y.msg)'
                   /\ \A z \in Y : y.msg = z.msg => y = z
      BY <1>2
<1>9. \A e \in ended : e.msg \in Token /\ Taken(e.msg)
      BY DEF CourierInv, TypeOK, End, TakenEnded
<1>10. ended' = ended \cup X \cup Y OBVIOUS
<1> HIDE DEF X, Y
<1>11. \A e \in ended \cup X : e.msg \in Token /\ Taken(e.msg)
       BY <1>7, <1>9 DEF Taken
<1>12. TakenEnded' BY <1>1, <1>8, <1>10, <1>11 DEF TakenEnded
<1>13. TakenPending'
  <2>1. SUFFICES ASSUME NEW m \in Node, pending'[m] # None
                 PROVE  pending'[m].msg[1] = m /\ pending'[m].msg[2] < serial'[m]
        BY DEF TakenPending
  <2>2. CASE m = n BY <1>1, <1>5, <1>6, <2>2
  <2>3. CASE m # n
    <3>1. pending'[m] = pending[m] BY <1>5, <2>3
    <3>2. pending[m].msg[1] = m /\ pending[m].msg[2] < serial[m]
          BY <2>1, <3>1 DEF CourierInv, TakenPending
    <3>3. pending[m].msg[2] \in Nat
          BY <2>1, <3>1 DEF CourierInv, TypeOK, PendingMsg, Token
    <3>4. serial[m] \in Nat /\ serial'[m] \in Nat /\ serial[m] <= serial'[m]
          BY <1>1, <1>4
    <3> QED BY <3>1, <3>2, <3>3, <3>4
  <2> QED BY <2>2, <2>3
<1>14. TracksSent'
  <2>1. SUFFICES ASSUME NEW m \in Node, pending'[m] # None
                 PROVE  \E p \in sent' : /\ p.ack = pending'[m].ack
                                        /\ p.msg = pending'[m].msg
        BY DEF TracksSent
  <2>2. CASE m = n BY <1>5, <1>6, <2>2
  <2>3. CASE m # n BY <1>5, <2>1, <2>3 DEF CourierInv, TracksSent
  <2> QED BY <2>2, <2>3
\* What is below the old serial is not one of the new messages.
<1>15. \A e \in ended \cup X, q \in P : e.msg # q.msg
  <2> SUFFICES ASSUME NEW e \in ended \cup X, NEW q \in P, e.msg = q.msg
               PROVE  FALSE
      OBVIOUS
  <2>1. e.msg[2] < serial[e.msg[1]] BY <1>11 DEF Taken
  <2>2. q.msg[1] = n /\ serial[n] <= q.msg[2] /\ q.msg[2] \in Nat BY <1>2
  <2>3. serial[n] \in Nat BY <1>4
  <2> QED BY <2>1, <2>2, <2>3
<1>16. \A y \in Y : \E q \in P : y.msg = q.msg BY DEF Y
<1>17. OneOutcome'
  <2>1. \A e, f \in ended \cup X : e.msg = f.msg => e = f
        BY <1>7 DEF CourierInv, OneOutcome
  <2>2. \A e, f \in ended' : e.msg = f.msg => e = f
        BY <1>8, <1>10, <1>15, <1>16, <2>1
  <2>3. ASSUME NEW m \in Node, pending'[m] # None, NEW e \in ended'
        PROVE  e.msg # pending'[m].msg
    <3>1. CASE m = n BY <1>5, <1>6, <1>8, <1>10, <1>15, <2>3, <3>1
    <3>2. CASE m # n
      <4>1. pending'[m] = pending[m] BY <1>5, <3>2
      <4>2. pending[m].msg[1] = m BY <2>3, <4>1 DEF CourierInv, TakenPending
      <4>3. \A f \in ended : f.msg # pending[m].msg
            BY <2>3, <4>1 DEF CourierInv, OneOutcome
      <4> QED BY <1>7, <1>8, <1>10, <2>3, <3>2, <4>1, <4>2, <4>3
    <3> QED BY <3>1, <3>2
  <2> QED BY <2>2, <2>3 DEF OneOutcome
<1>18. \A e \in ended' : e.how = "confirmed" => e \in ended
       BY <1>7, <1>8, <1>10
<1> QED BY <1>3, <1>12, <1>13, <1>14, <1>17, <1>18

\* The packets of one round of forwards are told apart by their tokens.
LEMMA ForwardsDiffer ==
    ASSUME TypeOK, NEW p \in Packet, NEW Ok \in SUBSET Others(p.to, p.from),
           NEW q \in Forwards(p, Ok), NEW o \in Forwards(p, Ok), q.ack = o.ack
    PROVE  q = o
<1>1. PICK i \in Ok :
        q = PacketAt(p.to, Contacts[p.to][i], [p.text EXCEPT !.via = p.from],
                     serial[p.to] + i - 1)
      BY DEF Forwards
<1>2. PICK j \in Ok :
        o = PacketAt(p.to, Contacts[p.to][j], [p.text EXCEPT !.via = p.from],
                     serial[p.to] + j - 1)
      BY DEF Forwards
<1>3. p.to \in Node BY DEF Packet
<1>4. i \in Int /\ j \in Int BY <1>3 DEF Others
<1>5. serial[p.to] \in Nat BY <1>3 DEF TypeOK
<1>6. serial[p.to] + i - 1 = serial[p.to] + j - 1 BY <1>1, <1>2 DEF PacketAt
<1>7. i = j BY <1>4, <1>5, <1>6
<1> QED BY <1>1, <1>2, <1>7

-----------------------------------------------------------------------------
(* Every step keeps the invariant                                          *)

LEMMA InitInv == Init => CourierInv
<1> SUFFICES ASSUME Init PROVE CourierInv OBVIOUS
<1>1. TypeOK BY InitType
<1> QED BY <1>1 DEF Init, CourierInv, OnlySent, AcksAnswer, TakenSent, TakenEnded,
           TakenPending, OneMessage, TracksSent, Confirmed, OneOutcome

\* Steps of the traffic generator, the reader loops and the clock.
LEMMA AsideInv ==
    ASSUME CourierInv, TypeOK',
           UNCHANGED <<pending, serial, texts, acks, sent, received, ended>>
    PROVE  CourierInv'
BY DEF CourierInv, OnlySent, AcksAnswer, Taken, TakenSent, TakenEnded,
       TakenPending, OneMessage, TracksSent, Confirmed, OneOutcome

LEMMA CommandInv ==
    ASSUME CourierInv, TypeOK', NEW n \in Node, Command(n)
    PROVE  CourierInv'
<1> DEFINE c == Head(inbox[n])
           p == PacketAt(n, c.dest, c.text, serial[n])
<1>1. c \in [dest : Node, text : Text]
  <2> DEFINE T == [dest : Node, text : Text]
  <2>1. inbox \in [Node -> Seq(T)] BY DEF CourierInv, TypeOK
  <2>2. inbox[n] # << >> BY DEF Command
  <2> HIDE DEF T
  <2>3. c \in T BY <2>1, <2>2
  <2> QED BY <2>3 DEF T
<1>2. serial[n] \in Nat /\ serial' = [serial EXCEPT ![n] = @ + 1]
      BY DEF CourierInv, TypeOK, Command
<1>3. p \in Packet BY <1>1, <1>2, PacketAtType
<1>4. p.msg = p.ack /\ p.ack[1] = n /\ p.ack[2] = serial[n] BY DEF PacketAt
<1>5. UNCHANGED <<acks, received>> BY DEF Command
<1>6. \/ /\ texts' = texts \cup {p}
         /\ sent' = sent \cup {p}
         /\ pending' = [pending EXCEPT ![n] = Tracked(p)]
         /\ ended' = ended \cup EndOf(n, "superseded")
      \/ UNCHANGED <<texts, sent, pending, ended>>
      BY DEF Command, Transmit
<1> HIDE DEF c, p
<1>7. OnlySent' /\ AcksAnswer' BY <1>5, <1>6 DEF CourierInv, OnlySent, AcksAnswer
<1>8. /\ TakenSent' /\ OneMessage'
      /\ TakenEnded' /\ TakenPending' /\ TracksSent' /\ OneOutcome'
      /\ \A e \in ended' : e.how = "confirmed" => e \in ended
  <2>1. CASE /\ texts' = texts \cup {p}
             /\ sent' = sent \cup {p}
             /\ pending' = [pending EXCEPT ![n] = Tracked(p)]
             /\ ended' = ended \cup EndOf(n, "superseded")
    <3> DEFINE P == {p}
    <3>1. ended' = (ended \cup EndOf(n, "superseded")) \cup
                     {[msg |-> q.msg, how |-> "superseded"] : q \in P \ {p}}
          BY <2>1
    <3>2. P \in SUBSET Packet /\ p \in P BY <1>3
    <3>3. sent' = sent \cup P BY <2>1
    <3>4. /\ \A q \in P : /\ q.msg = q.ack
                          /\ q.ack[1] = n
                          /\ serial[n] <= q.ack[2]
                          /\ q.ack[2] < serial[n] + 1
          /\ \A q, o \in P : q.ack = o.ack => q = o
          BY <1>2, <1>4
    <3> HIDE DEF P
    <3> QED BY <1>2, <2>1, <3>1, <3>2, <3>3, <3>4, Superseded
  <2>2. CASE UNCHANGED <<texts, sent, pending, ended>>
    <3>1. /\ \A m \in Node : serial[m] <= serial'[m]
          /\ \A k \in Token : Taken(k) => Taken(k)'
          BY <1>2, TakenStays DEF CourierInv
    <3>2. TakenSent' /\ TakenEnded'
      <4>1. /\ \A q \in sent : q.ack \in Token /\ q.msg \in Token
            /\ \A e \in ended : e.msg \in Token
            BY DEF CourierInv, TypeOK, Packet, End
      <4> QED BY <2>2, <3>1, <4>1 DEF CourierInv, TakenSent, TakenEnded
    <3>3. TakenPending'
      <4>1. SUFFICES ASSUME NEW m \in Node, pending[m] # None
                     PROVE  pending[m].msg[1] = m /\ pending[m].msg[2] < serial'[m]
            BY <2>2 DEF TakenPending
      <4>2. pending[m].msg[1] = m /\ pending[m].msg[2] < serial[m]
            BY <4>1 DEF CourierInv, TakenPending
      <4>3. pending[m].msg[2] \in Nat
            BY <4>1 DEF CourierInv, TypeOK, PendingMsg, Token
      <4>4. serial[m] \in Nat /\ serial'[m] \in Nat BY DEF CourierInv, TypeOK
      <4> QED BY <3>1, <4>2, <4>3, <4>4
    <3>4. OneMessage' /\ TracksSent' /\ OneOutcome'
          BY <2>2 DEF CourierInv, OneMessage, TracksSent, OneOutcome
    <3> QED BY <2>2, <3>2, <3>3, <3>4
  <2> QED BY <1>6, <2>1, <2>2
<1>9. Confirmed' BY <1>5, <1>8 DEF CourierInv, Confirmed
<1> QED BY <1>7, <1>8, <1>9 DEF CourierInv

LEMMA AckArrivesInv ==
    ASSUME CourierInv, TypeOK', NEW k \in acks, AckArrives(k)
    PROVE  CourierInv'
<1>1. k \in Token /\ k[1] \in Node BY DEF CourierInv, TypeOK, Token
<1>2. UNCHANGED <<serial, texts, sent, received>> /\ acks' = acks \ {k}
      BY DEF AckArrives
<1>3. OnlySent' /\ AcksAnswer' BY <1>2 DEF CourierInv, OnlySent, AcksAnswer
<1>4. TakenSent' /\ OneMessage'
      BY <1>2 DEF CourierInv, TakenSent, OneMessage, Taken
<1>5. CASE pending[k[1]] # None /\ pending[k[1]].ack = k
  <2> DEFINE n == k[1]
  <2>1. /\ pending' = [pending EXCEPT ![n] = None]
        /\ ended' = ended \cup EndOf(n, "confirmed")
        BY <1>5 DEF AckArrives
  <2> HIDE DEF n
  <2>2. n \in Node /\ pending[n] # None /\ pending[n].ack = k BY <1>1, <1>5 DEF n
  <2>3. /\ \A m \in Node : serial[m] <= serial'[m]
        /\ serial' \in [Node -> Nat]
        /\ \A t \in Token : Taken(t) => Taken(t)'
        BY <1>2 DEF CourierInv, TypeOK, Taken
  <2>4. TakenEnded' /\ TakenPending' /\ TracksSent' /\ OneOutcome'
        BY <1>2, <2>1, <2>2, <2>3, Untracked
  <2>5. Confirmed'
    <3>1. PICK p \in received : p.ack = k BY DEF CourierInv, AcksAnswer
    <3>2. PICK q \in sent : q.ack = k /\ q.msg = pending[n].msg
          BY <2>2 DEF CourierInv, TracksSent
    <3>3. p \in sent BY DEF CourierInv, OnlySent
    <3>4. p.msg = pending[n].msg
          BY <3>1, <3>2, <3>3 DEF CourierInv, OneMessage
    <3>5. ended' = ended \cup {[msg |-> pending[n].msg, how |-> "confirmed"]}
          BY <2>1, <2>2 DEF EndOf
    <3> QED BY <1>2, <3>4, <3>5 DEF CourierInv, Confirmed
  <2> QED BY <1>3, <1>4, <2>4, <2>5 DEF CourierInv
<1>6. CASE ~(pending[k[1]] # None /\ pending[k[1]].ack = k)
  <2>1. UNCHANGED <<pending, ended>> BY <1>6 DEF AckArrives
  <2> QED BY <1>2, <1>3, <1>4, <2>1
          DEF CourierInv, TakenEnded, TakenPending, TracksSent, OneOutcome,
              Confirmed, Taken
<1> QED BY <1>5, <1>6

LEMMA GiveUpInv ==
    ASSUME CourierInv, TypeOK', NEW n \in Node, pending[n] # None, GiveUp(n),
           UNCHANGED <<acks, received>>
    PROVE  CourierInv'
<1>1. /\ pending' = [pending EXCEPT ![n] = None]
      /\ ended' = ended \cup EndOf(n, "failed")
      /\ UNCHANGED <<serial, texts, sent>>
      BY DEF GiveUp
<1>2. OnlySent' /\ AcksAnswer' /\ TakenSent' /\ OneMessage'
      BY <1>1 DEF CourierInv, OnlySent, AcksAnswer, TakenSent, OneMessage, Taken
<1>3. TakenEnded' /\ TakenPending' /\ TracksSent' /\ OneOutcome'
  <2>1. /\ \A m \in Node : serial[m] <= serial'[m]
        /\ serial' \in [Node -> Nat]
        /\ \A t \in Token : Taken(t) => Taken(t)'
        BY <1>1 DEF CourierInv, TypeOK, Taken
  <2> QED BY <1>1, <2>1, Untracked
<1>4. Confirmed'
      BY <1>1 DEF CourierInv, Confirmed, EndOf
<1> QED BY <1>2, <1>3, <1>4 DEF CourierInv

LEMMA RetryInv ==
    ASSUME CourierInv, TypeOK', NEW n \in Node, pending[n] # None, Retry(n),
           UNCHANGED <<acks, received>>
    PROVE  CourierInv'
<1>1. serial' = [serial EXCEPT ![n] = @ + 1] BY RetryFacts DEF CourierInv
<1>2. /\ serial'[n] = serial[n] + 1
      /\ \A m \in Node : serial[m] <= serial'[m]
      /\ \A k \in Token : Taken(k) => Taken(k)'
      BY <1>1, TakenStays DEF CourierInv
<1>3. serial \in [Node -> Nat] /\ serial' \in [Node -> Nat]
      BY DEF CourierInv, TypeOK
<1>4. ASSUME NEW p \in Packet,
             p.ack = <<n, serial[n]>>, p.msg = pending[n].msg,
             texts' = texts \cup {p}, sent' = sent \cup {p},
             pending' = [pending EXCEPT ![n] = [pending[n] EXCEPT
                          !.attempt = pending[n].attempt + 1, !.ack = p.ack]],
             UNCHANGED ended
      PROVE  CourierInv'
  <2>1. OnlySent' /\ AcksAnswer' /\ Confirmed'
        BY <1>4 DEF CourierInv, OnlySent, AcksAnswer, Confirmed
  <2>2. /\ pending'[n].ack = p.ack /\ pending'[n].msg = pending[n].msg
        /\ \A m \in Node : m # n => pending'[m] = pending[m]
    <3>1. pending[n] \in PendingMsg BY DEF CourierInv, TypeOK
    <3>2. pending \in [Node -> PendingMsg \cup {None}] BY DEF CourierInv, TypeOK
    <3> QED BY <1>4, <3>1, <3>2 DEF PendingMsg
  <2>3. pending[n].msg \in Token /\ pending[n].msg[1] = n /\ Taken(pending[n].msg)
        BY DEF CourierInv, TypeOK, PendingMsg, TakenPending, Taken
  <2>4. TakenSent' /\ OneMessage'
    <3> DEFINE P == {p}
    <3>1. /\ P \in SUBSET Packet
          /\ sent' = sent \cup P
          /\ \A q \in P : /\ q.ack[1] = n
                          /\ serial[n] <= q.ack[2]
                          /\ q.ack[2] < serial[n] + 1
                          /\ Taken(q.msg)'
          /\ \A q, o \in P : q.ack = o.ack => q.msg = o.msg
          BY <1>2, <1>3, <1>4, <2>3
    <3> HIDE DEF P
    <3> QED BY <1>1, <3>1, NewPackets
  <2>5. TakenEnded'
    <3>1. \A e \in ended : e.msg \in Token BY DEF CourierInv, TypeOK, End
    <3> QED BY <1>2, <1>4, <3>1 DEF CourierInv, TakenEnded
  <2>6. TakenPending'
    <3>1. SUFFICES ASSUME NEW m \in Node, pending'[m] # None
                   PROVE  pending'[m].msg[1] = m /\ pending'[m].msg[2] < serial'[m]
          BY DEF TakenPending
    <3>2. pending[m] # None /\ pending'[m].msg = pending[m].msg BY <2>2, <3>1
    <3>3. pending[m].msg[1] = m /\ pending[m].msg[2] < serial[m]
          BY <3>2 DEF CourierInv, TakenPending
    <3>4. pending[m].msg[2] \in Nat
          BY <3>2 DEF CourierInv, TypeOK, PendingMsg, Token
    <3>5. serial[m] \in Nat /\ serial'[m] \in Nat /\ serial[m] <= serial'[m]
          BY <1>2, <1>3
    <3> QED BY <3>2, <3>3, <3>4, <3>5
  <2>7. TracksSent'
    <3>1. SUFFICES ASSUME NEW m \in Node, pending'[m] # None
                   PROVE  \E q \in sent' : /\ q.ack = pending'[m].ack
                                          /\ q.msg = pending'[m].msg
          BY DEF TracksSent
    <3>2. CASE m = n BY <1>4, <2>2, <3>2
    <3>3. CASE m # n BY <1>4, <2>2, <3>1, <3>3 DEF CourierInv, TracksSent
    <3> QED BY <3>2, <3>3
  <2>8. OneOutcome'
    <3>1. \A m \in Node : pending'[m] # None =>
             pending[m] # None /\ pending'[m].msg = pending[m].msg
          BY <2>2
    <3> QED BY <1>4, <3>1 DEF CourierInv, OneOutcome
  <2> QED BY <2>1, <2>4, <2>5, <2>6, <2>7, <2>8 DEF CourierInv
<1>5. ASSUME pending' = [pending EXCEPT ![n] = None],
             ended' = ended \cup EndOf(n, "dropped"),
             UNCHANGED <<texts, sent>>
      PROVE  CourierInv'
  <2>1. OnlySent' /\ AcksAnswer' /\ OneMessage'
        BY <1>5 DEF CourierInv, OnlySent, AcksAnswer, OneMessage
  <2>2. TakenSent'
    <3>1. \A p \in sent : p.ack \in Token /\ p.msg \in Token
          BY DEF CourierInv, TypeOK, Packet
    <3> QED BY <1>2, <1>5, <3>1 DEF CourierInv, TakenSent
  <2>3. TakenEnded' /\ TakenPending' /\ TracksSent' /\ OneOutcome'
        BY <1>2, <1>3, <1>5, Untracked
  <2>4. Confirmed'
        BY <1>5 DEF CourierInv, Confirmed, EndOf
  <2> QED BY <2>1, <2>2, <2>3, <2>4 DEF CourierInv
<1> QED BY <1>4, <1>5, RetryFacts DEF CourierInv

LEMMA ReceiveInv ==
    ASSUME CourierInv, TypeOK', NEW p \in texts, Receive(p)
    PROVE  CourierInv'
<1>1. p \in Packet /\ p.to \in Node BY DEF CourierInv, TypeOK, Packet
<1>2. received' = received \cup {p} /\ acks' = acks \cup {p.ack} BY DEF Receive
<1>3. AcksAnswer' BY <1>2 DEF CourierInv, AcksAnswer
<1>4. CASE Forward(p)
  <2>1. PICK Ok \in SUBSET Others(p.to, p.from) : Forward(p)!(Ok)
        BY <1>4 DEF Forward
  <2> DEFINE P == Forwards(p, Ok)
             n == p.to
             d == Len(Contacts[n])
  <2>2. /\ P \in SUBSET Packet
        /\ \A q \in P : /\ q.msg = q.ack
                        /\ q.ack[1] = n
                        /\ serial[n] <= q.ack[2]
                        /\ q.ack[2] < serial[n] + d
        BY <1>1, ForwardsFacts DEF CourierInv
  <2>3. \A q, o \in P : q.ack = o.ack => q = o
        BY <1>1, ForwardsDiffer DEF CourierInv
  <2>4. n \in Node /\ d \in Nat /\ serial' = [serial EXCEPT ![n] = @ + d]
        BY <1>1, <2>1
  <2>5. texts' = (texts \ {p}) \cup P /\ sent' = sent \cup P BY <2>1
  <2>6. OnlySent' BY <1>2, <2>5 DEF CourierInv, OnlySent
  <2>7. /\ TakenSent' /\ OneMessage'
        /\ TakenEnded' /\ TakenPending' /\ TracksSent' /\ OneOutcome'
        /\ \A e \in ended' : e.how = "confirmed" => e \in ended
    <3>1. CASE P = {} /\ UNCHANGED <<pending, ended>>
      <4> HIDE DEF P, n, d
      <4>1. /\ \A m \in Node : serial[m] <= serial'[m]
            /\ \A k \in Token : Taken(k) => Taken(k)'
            BY <2>4, TakenStays DEF CourierInv
      <4>2. sent' = sent BY <2>5, <3>1
      <4>3. TakenSent' /\ TakenEnded'
        <5>1. /\ \A q \in sent : q.ack \in Token /\ q.msg \in Token
              /\ \A e \in ended : e.msg \in Token
              BY DEF CourierInv, TypeOK, Packet, End
        <5> QED BY <3>1, <4>1, <4>2, <5>1 DEF CourierInv, TakenSent, TakenEnded
      <4>4. TakenPending'
        <5>1. SUFFICES ASSUME NEW m \in Node, pending[m] # None
                       PROVE  pending[m].msg[1] = m /\ pending[m].msg[2] < serial'[m]
              BY <3>1 DEF TakenPending
        <5>2. pending[m].msg[1] = m /\ pending[m].msg[2] < serial[m]
              BY <5>1 DEF CourierInv, TakenPending
        <5>3. pending[m].msg[2] \in Nat
              BY <5>1 DEF CourierInv, TypeOK, PendingMsg, Token
        <5>4. serial[m] \in Nat /\ serial'[m] \in Nat BY DEF CourierInv, TypeOK
        <5> QED BY <4>1, <5>2, <5>3, <5>4
      <4>5. OneMessage' /\ TracksSent' /\ OneOutcome'
            BY <3>1, <4>2 DEF CourierInv, OneMessage, TracksSent, OneOutcome
      <4> QED BY <3>1, <4>3, <4>4, <4>5
    <3>2. ASSUME NEW last \in P,
                 pending' = [pending EXCEPT ![n] = Tracked(last)],
                 ended' = (ended \cup EndOf(n, "superseded")) \cup
                     {[msg |-> q.msg, how |-> "superseded"] : q \in P \ {last}}
          PROVE  /\ TakenSent' /\ OneMessage'
                 /\ TakenEnded' /\ TakenPending' /\ TracksSent' /\ OneOutcome'
                 /\ \A e \in ended' : e.how = "confirmed" => e \in ended
      <4> HIDE DEF P, n, d
      <4> QED BY <2>2, <2>3, <2>4, <2>5, <3>2, Superseded
    <3> QED BY <2>1, <3>1, <3>2
  <2>8. Confirmed'
        BY <1>2, <2>7 DEF CourierInv, Confirmed
  <2> QED BY <1>3, <2>6, <2>7, <2>8 DEF CourierInv
<1>5. CASE texts' = texts \ {p} /\ UNCHANGED <<pending, serial, sent, ended>>
  <2>1. OnlySent' BY <1>2, <1>5 DEF CourierInv, OnlySent
  <2>2. /\ TakenSent' /\ OneMessage' /\ TakenEnded' /\ TakenPending'
        /\ TracksSent' /\ OneOutcome'
        BY <1>5 DEF CourierInv, TakenSent, OneMessage, TakenEnded, TakenPending,
                    TracksSent, OneOutcome, Taken
  <2>3. Confirmed'
        BY <1>2, <1>5 DEF CourierInv, Confirmed
  <2> QED BY <1>3, <2>1, <2>2, <2>3 DEF CourierInv
<1> QED BY <1>4, <1>5 DEF Receive

LEMMA NextInv == CourierInv /\ [Next]_vars => CourierInv'
<1> SUFFICES ASSUME CourierInv, [Next]_vars PROVE CourierInv' OBVIOUS
<1>0. TypeOK' BY NextType DEF CourierInv
<1>1. CASE \E s, d \in Node : SendRandom(s, d)
      BY <1>0, <1>1, AsideInv DEF SendRandom
<1>2. CASE \E n \in Node : Command(n) BY <1>0, <1>2, CommandInv
<1>3. CASE \E k \in acks : AckArrives(k) BY <1>0, <1>3, AckArrivesInv
<1>4. CASE \E n \in Node : Timeout(n)
      BY <1>0, <1>4, GiveUpInv, RetryInv DEF Timeout
<1>5. CASE \E p \in texts : Receive(p) BY <1>0, <1>5, ReceiveInv
<1>6. CASE \E n \in Node : Report(n) BY <1>0, <1>6, AsideInv DEF Report
<1>7. CASE Tick BY <1>0, <1>7, AsideInv DEF Tick
<1>8. CASE UNCHANGED vars BY <1>0, <1>8, AsideInv DEF vars
<1> QED BY <1>1, <1>2, <1>3, <1>4, <1>5, <1>6, <1>7, <1>8 DEF Next

-----------------------------------------------------------------------------
(* ACKs under way                                                          *)

Fresh(k, n) == k[1] = n /\ ~ Taken(k)

\* What a node waits for after a step it has waited for, or is a new token.
LEMMA AwaitedIs ==
    ASSUME CourierInv, [Next]_vars, NEW n \in Node, pending'[n] # None
    PROVE  \/ pending[n] # None /\ pending'[n].ack = pending[n].ack
           \/ Fresh(pending'[n].ack, n)
<1> DEFINE Same == pending[n] # None /\ pending'[n].ack = pending[n].ack
           Goal == Same \/ Fresh(pending'[n].ack, n)
<1>1. TypeOK /\ pending \in [Node -> PendingMsg \cup {None}] /\ serial \in [Node -> Nat]
      BY DEF CourierInv, TypeOK
<1>2. CASE pending' = pending BY <1>2
<1>3. ASSUME NEW m \in Node, Command(m) PROVE Goal
  <2> DEFINE q == PacketAt(m, Head(inbox[m]).dest, Head(inbox[m]).text, serial[m])
  <2>1. pending' = pending \/ pending' = [pending EXCEPT ![m] = Tracked(q)]
        BY <1>3 DEF Command
  <2>2. Tracked(q).ack = <<m, serial[m]>> BY DEF Tracked, PacketAt
  <2>3. Fresh(<<m, serial[m]>>, m) BY <1>1 DEF Fresh, Taken
  <2> HIDE DEF q
  <2> QED BY <1>1, <1>2, <2>1, <2>2, <2>3
<1>4. ASSUME NEW k \in acks, AckArrives(k) PROVE Goal
  <2>1. k[1] \in Node BY <1>1 DEF TypeOK, Token
  <2>2. pending' = pending \/ pending' = [pending EXCEPT ![k[1]] = None]
        BY <1>4 DEF AckArrives
  <2> QED BY <1>1, <1>2, <2>1, <2>2
<1>5. ASSUME NEW m \in Node, Timeout(m) PROVE Goal
  <2>1. CASE pending' = [pending EXCEPT ![m] = None] BY <1>1, <2>1
  <2>2. ASSUME NEW q \in Packet, q.ack = <<m, serial[m]>>,
               pending' = [pending EXCEPT ![m] = [pending[m] EXCEPT
                             !.attempt = pending[m].attempt + 1, !.ack = q.ack]]
        PROVE  Goal
    <3>1. pending[m] \in PendingMsg BY <1>1, <1>5 DEF Timeout
    <3>2. [pending[m] EXCEPT !.attempt = pending[m].attempt + 1, !.ack = q.ack].ack = q.ack
          BY <3>1 DEF PendingMsg
    <3>3. n = m => pending'[n].ack = <<m, serial[m]>> BY <1>1, <2>2, <3>2
    <3>4. n # m => pending'[n] = pending[n] BY <1>1, <2>2
    <3>5. Fresh(<<m, serial[m]>>, m) BY <1>1 DEF Fresh, Taken
    <3> QED BY <3>3, <3>4, <3>5
  <2>3. pending[m] # None /\ (GiveUp(m) \/ Retry(m)) BY <1>5 DEF Timeout
  <2>4. CASE GiveUp(m) BY <2>1, <2>4 DEF GiveUp
  <2>5. CASE Retry(m) BY <1>1, <2>1, <2>2, <2>3, <2>5, RetryFacts
  <2> QED BY <2>3, <2>4, <2>5
<1>6. ASSUME NEW p \in texts, Receive(p) PROVE Goal
  <2>1. p \in Packet /\ p.to \in Node BY <1>1 DEF TypeOK, Packet
  <2>2. CASE Forward(p)
    <3>1. PICK Ok \in SUBSET Others(p.to, p.from) : Forward(p)!(Ok)
          BY <2>2 DEF Forward
    <3> DEFINE P == Forwards(p, Ok)
    <3>2. \A q \in P : q.ack[1] = p.to /\ q.ack[2] \in Nat /\ serial[p.to] <= q.ack[2]
          BY <1>1, <2>1, ForwardsFacts
    <3>3. \/ pending' = pending
          \/ \E last \in P : pending' = [pending EXCEPT ![p.to] = Tracked(last)]
          BY <3>1
    <3> HIDE DEF P
    <3>4. ASSUME NEW last \in P, pending' = [pending EXCEPT ![p.to] = Tracked(last)]
          PROVE  Goal
      <4>1. Tracked(last).ack = last.ack BY DEF Tracked
      <4>2. serial[p.to] \in Nat BY <1>1, <2>1
      <4>3. Fresh(last.ack, p.to) BY <3>2, <4>2 DEF Fresh, Taken
      <4>4. n = p.to => pending'[n] = Tracked(last) BY <1>1, <3>4
      <4>5. n # p.to => pending'[n] = pending[n] BY <1>1, <3>4
      <4> QED BY <4>1, <4>3, <4>4, <4>5
    <3> QED BY <1>2, <3>3, <3>4
  <2>3. CASE UNCHANGED pending BY <1>2, <2>3
  <2> QED BY <1>6, <2>2, <2>3 DEF Receive
<1>7. CASE \E s, d \in Node : SendRandom(s, d) BY <1>2, <1>7 DEF SendRandom
<1>8. CASE \E m \in Node : Report(m) BY <1>2, <1>8 DEF Report
<1>9. CASE Tick BY <1>2, <1>9 DEF Tick
<1>10. CASE UNCHANGED vars BY <1>2, <1>10 DEF vars
<1> QED BY <1>3, <1>4, <1>5, <1>6, <1>7, <1>8, <1>9, <1>10 DEF Next

\* What has arrived was sent before, and what arrives is answered.
LEMMA ArrivedIs ==
    ASSUME CourierInv, [Next]_vars
    PROVE  \A p \in received' : p \in sent /\ (p \in received \/ p.ack \in acks')
<1>1. texts \cup received \subseteq sent BY DEF CourierInv, OnlySent
<1>2. CASE received' = received BY <1>1, <1>2
<1>3. ASSUME NEW p \in texts, Receive(p)
      PROVE  \A q \in received' : q \in sent /\ (q \in received \/ q.ack \in acks')
      BY <1>1, <1>3 DEF Receive
<1> QED BY <1>2, <1>3
        DEF Next, vars, SendRandom, Command, AckArrives, Timeout, Report, Tick

\* An ACK goes when it arrives, and ends what waits for it.
LEMMA AckGoes ==
    ASSUME CourierInv, AckKept, [Next]_vars, NEW k \in acks, k \notin acks',
           NEW n \in Node, pending[n] # None, pending[n].ack = k
    PROVE  pending'[n] = None
<1>1. AckArrives(k)
      BY DEF Next, vars, SendRandom, Command, AckArrives, Timeout, Receive, Report, Tick
<1>2. k[1] = n BY DEF AckKept
<1>3. pending' = [pending EXCEPT ![n] = None] BY <1>1, <1>2 DEF AckArrives
<1> QED BY <1>3 DEF CourierInv, TypeOK

LEMMA AckKeptStep == CourierInv /\ AckKept /\ [Next]_vars => AckKept'
<1> SUFFICES ASSUME CourierInv, AckKept, [Next]_vars, NEW n \in Node, pending'[n] # None
             PROVE  /\ pending'[n].ack[1] = n
                    /\ \A p \in received' : p.ack = pending'[n].ack => p.ack \in acks'
    BY DEF AckKept
<1>1. CASE pending[n] # None /\ pending'[n].ack = pending[n].ack
  <2>1. pending'[n].ack[1] = n BY <1>1 DEF AckKept
  <2>2. ASSUME NEW p \in received', p.ack = pending'[n].ack PROVE p.ack \in acks'
    <3>1. CASE p \in received
      <4>1. p.ack \in acks BY <1>1, <2>2, <3>1 DEF AckKept
      <4> QED BY <1>1, <2>2, <4>1, AckGoes
    <3>2. CASE p \notin received BY <3>2, ArrivedIs
    <3> QED BY <3>1, <3>2
  <2> QED BY <2>1, <2>2
<1>2. CASE Fresh(pending'[n].ack, n)
  <2>1. \A p \in sent : Taken(p.ack) BY DEF CourierInv, TakenSent
  <2> QED BY <1>2, <2>1, ArrivedIs DEF Fresh
<1> QED BY <1>1, <1>2, AwaitedIs

LEMMA InitKept == Init => AckKept
BY DEF Init, AckKept

LEMMA InvPromises == CourierInv /\ AckKept => ConfirmedWasReceived /\ OneOutcome
BY DEF CourierInv, Confirmed, AckKept, ConfirmedWasReceived

\* A node confirms only a message of which a packet has arrived, and passes over
\* no ACK of its current attempt: for any number of nodes, contacts, room
\* servers, messages and retries, and any loss or delay in the mesh.
\* (SimNode.cpp: processAck, onSendTimeout, sendTextTo)
THEOREM CourierConfirmed == Spec => []ConfirmedWasReceived
BY InitInv, NextInv, InitKept, AckKeptStep, InvPromises, PTL DEF Spec

\* A message ends once at most, and is not tracked any more when it has.
THEOREM CourierOneOutcome == Spec => []OneOutcome
BY InitInv, NextInv, InitKept, AckKeptStep, InvPromises, PTL DEF Spec
=============================================================================
