---------------------------- MODULE ReportProofs ----------------------------
(***************************************************************************)
(* What the report on messages says, for every set of nodes, contact       *)
(* table, set of room servers, retry limit and bound: a message goes out   *)
(* once and once for each retry; the ACK counters agree with what the      *)
(* nodes did; and, as long as texts do not repeat, every message has its   *)
(* record, a delivery is credited to the node the message was for and none *)
(* is forgotten.                                                           *)
(***************************************************************************)
EXTENDS CourierProofs, FiniteSetTheorems

USE CourierAssumption

-----------------------------------------------------------------------------
(* How often a message goes out                                            *)

\* The packets of message m in S, and that there are k of them.
Of(S, m) == {p \in S : p.msg = m}

Sends(S, m, k) == IsFiniteSet(Of(S, m)) /\ Cardinality(Of(S, m)) = k

SentOnce == \A p \in sent : \E k \in 1 .. MaxRetries + 1 : Sends(sent, p.msg, k)

FailedLast == \A e \in ended : e.how = "failed" => Sends(sent, e.msg, MaxRetries + 1)

\* The attempt counter of the message tracked is the number of its retries.
AttemptCounts ==
    \A n \in Node : pending[n] # None => Sends(sent, pending[n].msg, pending[n].attempt + 1)

AttemptInv == SentOnce /\ FailedLast /\ AttemptCounts

\* What an action does to the messages that already have a token.
Same(m) == Of(sent', m) = Of(sent, m)

-----------------------------------------------------------------------------

LEMMA SameSends == \A m, k : Same(m) /\ Sends(sent, m, k) => Sends(sent', m, k)
BY DEF Same, Sends

\* Messages in use are tokens in use.
LEMMA InUse ==
    ASSUME CourierInv
    PROVE  /\ \A p \in sent : Taken(p.msg) /\ Taken(p.ack)
           /\ \A e \in ended : Taken(e.msg)
           /\ \A n \in Node : pending[n] # None => Taken(pending[n].msg)
BY DEF CourierInv, TakenSent, TakenEnded, TakenPending, Taken

\* A step that sends nothing and tracks nothing new.
LEMMA QuietAttempts ==
    ASSUME CourierInv, AttemptInv, sent' = sent,
           \A n \in Node : pending'[n] # None =>
               /\ pending[n] # None
               /\ pending'[n].msg = pending[n].msg
               /\ pending'[n].attempt = pending[n].attempt,
           \A e \in ended' : e.how = "failed" =>
               e \in ended \/ Sends(sent, e.msg, MaxRetries + 1)
    PROVE  AttemptInv'
<1>1. \A m : Same(m) BY DEF Same, Of
<1>2. SentOnce' BY <1>1, SameSends DEF AttemptInv, SentOnce
<1>3. FailedLast' BY <1>1, SameSends DEF AttemptInv, FailedLast
<1>4. AttemptCounts'
  <2>1. SUFFICES ASSUME NEW n \in Node, pending'[n] # None
                 PROVE  Sends(sent', pending'[n].msg, pending'[n].attempt + 1)
        BY DEF AttemptCounts
  <2>2. Sends(sent, pending[n].msg, pending[n].attempt + 1)
        BY <2>1 DEF AttemptInv, AttemptCounts
  <2>3. Sends(sent', pending[n].msg, pending[n].attempt + 1)
        BY <1>1, <2>2 DEF Same, Sends
  <2> QED BY <2>1, <2>3
<1> QED BY <1>2, <1>3, <1>4 DEF AttemptInv

\* New messages under tokens of their own go out once each; at most one of them
\* is tracked.
LEMMA FreshAttempts ==
    ASSUME CourierInv, AttemptInv, NEW n \in Node, NEW P,
           \A q \in P : q.msg = q.ack /\ ~Taken(q.msg),
           \A q, o \in P : q.ack = o.ack => q = o,
           sent' = sent \cup P,
           pending' = pending
               \/ \E q \in P : pending' = [pending EXCEPT ![n] = Tracked(q)],
           \A e \in ended' : e.how = "failed" => e \in ended
    PROVE  AttemptInv'
<1>1. \A m : Taken(m) => Same(m)
  <2>1. SUFFICES ASSUME NEW m, Taken(m) PROVE {p \in sent' : p.msg = m} = {p \in sent : p.msg = m}
        BY DEF Same, Of
  <2>2. \A q \in P : q.msg # m BY <2>1
  <2> QED BY <2>2
<1>2. \A q \in P : Sends(sent', q.msg, 1)
  <2>1. TAKE q \in P
  <2>2. \A p \in sent : p.msg # q.msg BY InUse
  <2>3. \A o \in P : o.msg = q.msg => o = q OBVIOUS
  <2>4. Of(sent', q.msg) = {q} BY <2>2, <2>3 DEF Of
  <2>5. IsFiniteSet({q}) /\ Cardinality({q}) = 1 BY FS_Singleton
  <2> QED BY <2>4, <2>5 DEF Sends
<1>3. MaxRetries \in Nat /\ 1 \in 1 .. MaxRetries + 1 OBVIOUS
<1>4. SentOnce'
  <2>1. ASSUME NEW p \in sent PROVE \E k \in 1 .. MaxRetries + 1 : Sends(sent', p.msg, k)
    <3>1. Same(p.msg) BY <1>1, InUse
    <3>2. PICK k \in 1 .. MaxRetries + 1 : Sends(sent, p.msg, k) BY DEF AttemptInv, SentOnce
    <3>3. Sends(sent', p.msg, k) BY <3>1, <3>2 DEF Same, Sends
    <3> QED BY <3>3
  <2> QED BY <1>2, <1>3, <2>1 DEF SentOnce
<1>5. FailedLast'
  <2>1. SUFFICES ASSUME NEW e \in ended', e.how = "failed"
                 PROVE  Sends(sent', e.msg, MaxRetries + 1)
        BY DEF FailedLast
  <2>2. e \in ended BY <2>1
  <2>3. Same(e.msg) BY <1>1, <2>2, InUse
  <2>4. Sends(sent, e.msg, MaxRetries + 1) BY <2>1, <2>2 DEF AttemptInv, FailedLast
  <2> QED BY <2>3, <2>4 DEF Same, Sends
<1>6. AttemptCounts'
  <2>1. SUFFICES ASSUME NEW m \in Node, pending'[m] # None
                 PROVE  Sends(sent', pending'[m].msg, pending'[m].attempt + 1)
        BY DEF AttemptCounts
  <2>2. CASE pending'[m] = pending[m]
    <3>1. Same(pending[m].msg) BY <1>1, <2>1, <2>2, InUse
    <3>2. Sends(sent, pending[m].msg, pending[m].attempt + 1)
          BY <2>1, <2>2 DEF AttemptInv, AttemptCounts
    <3>3. Sends(sent', pending[m].msg, pending[m].attempt + 1) BY <3>1, <3>2 DEF Same, Sends
    <3> QED BY <2>2, <3>3
  <2>3. CASE pending'[m] # pending[m]
    <3>1. pending \in [Node -> PendingMsg \cup {None}] BY DEF CourierInv, TypeOK
    <3>2. PICK q \in P : pending' = [pending EXCEPT ![n] = Tracked(q)] BY <2>3
    <3>3. pending'[m] = Tracked(q) BY <2>3, <3>1, <3>2
    <3>4. Tracked(q).msg = q.msg /\ Tracked(q).attempt + 1 = 1 BY DEF Tracked
    <3> QED BY <1>2, <3>3, <3>4
  <2> QED BY <2>2, <2>3
<1> QED BY <1>4, <1>5, <1>6 DEF AttemptInv

LEMMA CommandAttempts ==
    ASSUME CourierInv, AttemptInv, NEW n \in Node, Command(n)
    PROVE  AttemptInv'
<1> DEFINE c == Head(inbox[n])
           p == PacketAt(n, c.dest, c.text, serial[n])
<1>1. \/ /\ sent' = sent \cup {p}
         /\ pending' = [pending EXCEPT ![n] = Tracked(p)]
         /\ ended' = ended \cup EndOf(n, "superseded")
      \/ UNCHANGED <<texts, sent, pending, ended>>
      BY DEF Command, Transmit
<1>2. p.msg = p.ack /\ ~Taken(p.msg)
  <2>1. p.msg = <<n, serial[n]>> /\ p.ack = <<n, serial[n]>> BY DEF PacketAt
  <2>2. serial[n] \in Nat BY DEF CourierInv, TypeOK
  <2> HIDE DEF p
  <2> QED BY <2>1, <2>2 DEF Taken
<1> HIDE DEF c, p
<1>3. CASE /\ sent' = sent \cup {p}
           /\ pending' = [pending EXCEPT ![n] = Tracked(p)]
           /\ ended' = ended \cup EndOf(n, "superseded")
  <2> DEFINE P == {p}
  <2>1. /\ \A q \in P : q.msg = q.ack /\ ~Taken(q.msg)
        /\ \A q, o \in P : q.ack = o.ack => q = o
        /\ sent' = sent \cup P
        /\ \E q \in P : pending' = [pending EXCEPT ![n] = Tracked(q)]
        BY <1>2, <1>3
  <2>2. \A e \in ended' : e.how = "failed" => e \in ended BY <1>3 DEF EndOf
  <2> HIDE DEF P
  <2> QED BY <2>1, <2>2, FreshAttempts
<1>4. CASE UNCHANGED <<texts, sent, pending, ended>> BY <1>4, QuietAttempts
<1> QED BY <1>1, <1>3, <1>4

LEMMA AckArrivesAttempts ==
    ASSUME CourierInv, AttemptInv, NEW k \in acks, AckArrives(k)
    PROVE  AttemptInv'
<1>1. sent' = sent BY DEF AckArrives
<1>2. pending \in [Node -> PendingMsg \cup {None}] BY DEF CourierInv, TypeOK
<1>3. pending' = pending \/ pending' = [pending EXCEPT ![k[1]] = None]
      BY DEF AckArrives
<1>4. \A e \in ended' : e.how = "failed" => e \in ended BY DEF AckArrives, EndOf
<1> QED BY <1>1, <1>2, <1>3, <1>4, QuietAttempts

LEMMA GiveUpAttempts ==
    ASSUME CourierInv, AttemptInv, NEW n \in Node, pending[n] # None, GiveUp(n)
    PROVE  AttemptInv'
<1>1. sent' = sent /\ pending' = [pending EXCEPT ![n] = None] BY DEF GiveUp
<1>2. pending \in [Node -> PendingMsg \cup {None}] BY DEF CourierInv, TypeOK
<1>3. ended' = ended \cup {[msg |-> pending[n].msg, how |-> "failed"]}
      BY DEF GiveUp, EndOf
<1>4. Sends(sent, pending[n].msg, MaxRetries + 1)
  <2>1. pending[n].attempt = MaxRetries BY DEF GiveUp
  <2>2. Sends(sent, pending[n].msg, pending[n].attempt + 1) BY DEF AttemptInv, AttemptCounts
  <2> QED BY <2>1, <2>2
<1>5. \A e \in ended' : e.how = "failed" => e \in ended \/ Sends(sent, e.msg, MaxRetries + 1)
      BY <1>3, <1>4
<1> QED BY <1>1, <1>2, <1>5, QuietAttempts

LEMMA RetryAttempts ==
    ASSUME CourierInv, AttemptInv, NEW n \in Node, pending[n] # None, Retry(n)
    PROVE  AttemptInv'
<1>0. pending \in [Node -> PendingMsg \cup {None}] BY DEF CourierInv, TypeOK
<1>1. CASE /\ pending' = [pending EXCEPT ![n] = None]
           /\ ended' = ended \cup EndOf(n, "dropped")
           /\ UNCHANGED <<texts, sent>>
  <2>1. \A e \in ended' : e.how = "failed" => e \in ended BY <1>1 DEF EndOf
  <2> QED BY <1>0, <1>1, <2>1, QuietAttempts
<1>2. ASSUME NEW p \in Packet,
             p.ack = <<n, serial[n]>>, p.msg = pending[n].msg,
             sent' = sent \cup {p},
             pending' = [pending EXCEPT ![n] = [pending[n] EXCEPT
                          !.attempt = pending[n].attempt + 1, !.ack = p.ack]],
             pending'[n] \in PendingMsg,
             UNCHANGED ended
      PROVE  AttemptInv'
  <2> DEFINE m == pending[n].msg
             a == pending[n].attempt
  <2>1. /\ pending'[n].msg = m /\ pending'[n].attempt = a + 1
        /\ a \in Nat /\ a + 1 \in 0 .. MaxRetries
    <3>1. pending[n] \in PendingMsg BY <1>0
    <3>2. pending'[n] = [pending[n] EXCEPT !.attempt = pending[n].attempt + 1, !.ack = p.ack]
          BY <1>0, <1>2
    <3>3. pending'[n].msg = m /\ pending'[n].attempt = a + 1
          BY <3>1, <3>2 DEF PendingMsg
    <3>4. pending'[n].attempt \in 0 .. MaxRetries BY <1>2 DEF PendingMsg
    <3>5. a \in 0 .. MaxRetries BY <3>1 DEF PendingMsg
    <3> HIDE DEF a, m
    <3> QED BY <3>3, <3>4, <3>5
  <2>2. \A o \in Node : o # n => pending'[o] = pending[o] BY <1>0, <1>2
  <2>3. p \notin sent
    <3>1. serial[n] \in Nat BY DEF CourierInv, TypeOK
    <3>2. ~Taken(p.ack) BY <1>2, <3>1 DEF Taken
    <3> QED BY <3>2, InUse
  <2>4. Sends(sent, m, a + 1) BY DEF AttemptInv, AttemptCounts
  <2> HIDE DEF m, a
  <2>5. p.msg = m BY <1>2 DEF m
  <2>6. Sends(sent', m, a + 2)
    <3>1. Of(sent', m) = Of(sent, m) \cup {p} BY <1>2, <2>5 DEF Of
    <3>2. p \notin Of(sent, m) BY <2>3 DEF Of
    <3>3. /\ IsFiniteSet(Of(sent, m) \cup {p})
          /\ Cardinality(Of(sent, m) \cup {p}) = Cardinality(Of(sent, m)) + 1
          BY <2>4, <3>2, FS_AddElement DEF Sends
    <3> QED BY <2>1, <2>4, <3>1, <3>3 DEF Sends
  <2>7. \A x : x # m => Same(x) BY <1>2, <2>5 DEF Same, Of
  <2>8. SentOnce'
    <3>1. SUFFICES ASSUME NEW q \in sent'
                   PROVE  \E k \in 1 .. MaxRetries + 1 : Sends(sent', q.msg, k)
          BY DEF SentOnce
    <3>2. CASE q.msg = m
      <4>1. a + 2 \in 1 .. MaxRetries + 1 BY <2>1
      <4> QED BY <2>6, <3>2, <4>1
    <3>3. CASE q.msg # m
      <4>1. q \in sent BY <1>2, <2>5, <3>3
      <4>2. PICK k \in 1 .. MaxRetries + 1 : Sends(sent, q.msg, k)
            BY <4>1 DEF AttemptInv, SentOnce
      <4>3. Sends(sent', q.msg, k) BY <2>7, <3>3, <4>2 DEF Same, Sends
      <4> QED BY <4>3
    <3> QED BY <3>2, <3>3
  <2>9. FailedLast'
    <3>1. SUFFICES ASSUME NEW e \in ended, e.how = "failed"
                   PROVE  Sends(sent', e.msg, MaxRetries + 1)
          BY <1>2 DEF FailedLast
    <3>2. e.msg # m BY DEF CourierInv, OneOutcome, m
    <3>3. Sends(sent, e.msg, MaxRetries + 1) BY <3>1 DEF AttemptInv, FailedLast
    <3> QED BY <2>7, <3>2, <3>3 DEF Same, Sends
  <2>10. AttemptCounts'
    <3>1. SUFFICES ASSUME NEW o \in Node, pending'[o] # None
                   PROVE  Sends(sent', pending'[o].msg, pending'[o].attempt + 1)
          BY DEF AttemptCounts
    <3>2. CASE o = n
      <4>1. pending'[o].msg = m /\ pending'[o].attempt + 1 = a + 2 BY <2>1, <3>2
      <4> QED BY <2>6, <4>1
    <3>3. CASE o # n
      <4>1. pending'[o] = pending[o] /\ pending[o] # None BY <2>2, <3>1, <3>3
      <4>2. pending[o].msg[1] = o /\ m[1] = n
            BY <4>1 DEF CourierInv, TakenPending, m
      <4>3. Sends(sent, pending[o].msg, pending[o].attempt + 1)
            BY <4>1 DEF AttemptInv, AttemptCounts
      <4>4. Sends(sent', pending[o].msg, pending[o].attempt + 1)
            BY <2>7, <3>3, <4>2, <4>3 DEF Same, Sends
      <4> QED BY <4>1, <4>4
    <3> QED BY <3>2, <3>3
  <2> QED BY <2>8, <2>9, <2>10 DEF AttemptInv
<1> QED BY <1>1, <1>2, RetryFacts DEF CourierInv

LEMMA ReceiveAttempts ==
    ASSUME CourierInv, AttemptInv, NEW p \in texts, Receive(p)
    PROVE  AttemptInv'
<1>1. p \in Packet /\ p.to \in Node BY DEF CourierInv, TypeOK, Packet
<1>2. CASE Forward(p)
  <2>1. PICK Ok \in SUBSET Others(p.to, p.from) : Forward(p)!(Ok)
        BY <1>2 DEF Forward
  <2> DEFINE P == Forwards(p, Ok)
  <2>2. \A q \in P : q.msg = q.ack /\ ~Taken(q.msg)
    <3>1. \A q \in P : /\ q.msg = q.ack /\ q.ack[1] = p.to
                       /\ q.ack[2] \in Nat /\ serial[p.to] <= q.ack[2]
          BY <1>1, ForwardsFacts DEF CourierInv
    <3>2. serial[p.to] \in Nat BY <1>1 DEF CourierInv, TypeOK
    <3> HIDE DEF P
    <3> QED BY <3>1, <3>2 DEF Taken
  <2>3. \A q, o \in P : q.ack = o.ack => q = o
        BY <1>1, ForwardsDiffer DEF CourierInv
  <2>4. /\ sent' = sent \cup P
        /\ \/ UNCHANGED <<pending, ended>>
           \/ \E last \in P :
                /\ pending' = [pending EXCEPT ![p.to] = Tracked(last)]
                /\ ended' = (ended \cup EndOf(p.to, "superseded")) \cup
                     {[msg |-> q.msg, how |-> "superseded"] : q \in P \ {last}}
        BY <2>1
  <2> HIDE DEF P
  <2>5. \A e \in ended' : e.how = "failed" => e \in ended BY <2>4 DEF EndOf
  <2>6. \/ pending' = pending
        \/ \E q \in P : pending' = [pending EXCEPT ![p.to] = Tracked(q)]
        BY <2>4
  <2>7. sent' = sent \cup P BY <2>4
  <2> QED BY <1>1, <2>2, <2>3, <2>5, <2>6, <2>7, FreshAttempts
<1>3. CASE UNCHANGED <<pending, serial, sent, ended>> BY <1>3, QuietAttempts
<1> QED BY <1>2, <1>3 DEF Receive

LEMMA InitAttempts == Init => AttemptInv
BY DEF Init, AttemptInv, SentOnce, FailedLast, AttemptCounts

LEMMA NextAttempts == CourierInv /\ AttemptInv /\ [Next]_vars => AttemptInv'
<1> SUFFICES ASSUME CourierInv, AttemptInv, [Next]_vars PROVE AttemptInv' OBVIOUS
<1>1. CASE \E s, d \in Node : SendRandom(s, d)
      BY <1>1, QuietAttempts DEF SendRandom
<1>2. CASE \E n \in Node : Command(n) BY <1>2, CommandAttempts
<1>3. CASE \E k \in acks : AckArrives(k) BY <1>3, AckArrivesAttempts
<1>4. CASE \E n \in Node : Timeout(n)
      BY <1>4, GiveUpAttempts, RetryAttempts DEF Timeout
<1>5. CASE \E p \in texts : Receive(p) BY <1>5, ReceiveAttempts
<1>6. CASE \E n \in Node : Report(n) BY <1>6, QuietAttempts DEF Report
<1>7. CASE Tick BY <1>7, QuietAttempts DEF Tick
<1>8. CASE UNCHANGED vars BY <1>8, QuietAttempts DEF vars
<1> QED BY <1>1, <1>2, <1>3, <1>4, <1>5, <1>6, <1>7, <1>8 DEF Next

LEMMA AttemptInvPromises == AttemptInv => Attempts
<1> SUFFICES ASSUME AttemptInv PROVE Attempts OBVIOUS
<1>1. ASSUME NEW p \in sent PROVE Cardinality(PacketsOf(p.msg)) <= MaxRetries + 1
  <2>1. PICK k \in 1 .. MaxRetries + 1 : Sends(sent, p.msg, k) BY DEF AttemptInv, SentOnce
  <2> QED BY <2>1 DEF Sends, Of, PacketsOf
<1>2. ASSUME NEW e \in ended, e.how = "failed"
      PROVE  Cardinality(PacketsOf(e.msg)) = MaxRetries + 1
      BY <1>2 DEF AttemptInv, FailedLast, Sends, Of, PacketsOf
<1> QED BY <1>1, <1>2 DEF Attempts

\* A message goes out at most 1 + ACK_MAX_RETRIES times and is said to have
\* failed after exactly that many (onSendTimeout), also when ACKs of earlier
\* attempts, other messages and a room server's forwards come in between.
THEOREM AttemptsBounded == Spec => []Attempts
BY InitInv, NextInv, InitAttempts, NextAttempts, AttemptInvPromises, PTL DEF Spec

-----------------------------------------------------------------------------
(* The ACK counters                                                        *)

Counted == {"confirmed", "failed", "dropped"}

CounterInv ==
    /\ \A l \in Log : IsFiniteSet(Unread(l))
    /\ \A how \in Counted : IsFiniteSet(Outcomes(how))
    /\ IsFiniteSet(Retried)
    /\ CountersAgree

\* x is the place of an unread line l.
Waits(x, l) == \E n \in Node : \E i \in DOMAIN outbox[n] :
                  outbox[n][i].is = l /\ x = <<n, i>>

\* What a step does to the three quantities CountersAgree relates: the lines of
\* l, the outcomes of that kind and the retries grow by one, or by none.
LoggedMore(l) ==
    \A k \in Log : /\ IsFiniteSet(Unread(k)')
                   /\ Logged(k)' = IF k = l THEN Logged(k) + 1 ELSE Logged(k)

OutcomesMore(how) ==
    \A k \in Counted :
        /\ IsFiniteSet(Outcomes(k)')
        /\ Cardinality(Outcomes(k)') =
             IF k = how THEN Cardinality(Outcomes(k)) + 1 ELSE Cardinality(Outcomes(k))

RetriedMore(d) ==
    /\ IsFiniteSet(Retried')
    /\ Cardinality(Retried') = Cardinality(Retried) + d

\* Packets that are no retries.
Firsts(P) == \A q \in P : q.msg = q.ack

\* A line, an outcome and a number of retries that go together.
Matches(l, how, d) ==
    /\ d \in {0, 1}
    /\ l = "confirmed" <=> how = "confirmed"
    /\ l = "failed" <=> how = "failed"
    /\ l = "retries" <=> how = "dropped" \/ d = 1
    /\ ~ (how = "dropped" /\ d = 1)

LEMMA UnreadIs == \A l, x : x \in Unread(l) <=> Waits(x, l)
<1> TAKE l, x
<1> DEFINE I(n) == {i \in DOMAIN outbox[n] : outbox[n][i].is = l}
           U(n) == {n} \X I(n)
<1>1. Unread(l) = UNION {U(n) : n \in Node} BY DEF Unread
<1>2. \A n : x \in U(n) <=> \E i \in DOMAIN outbox[n] : outbox[n][i].is = l /\ x = <<n, i>>
      OBVIOUS
<1> HIDE DEF U
<1>3. x \in Unread(l) <=> \E n \in Node : x \in U(n) BY <1>1
<1> QED BY <1>2, <1>3 DEF Waits

LEMMA UnreadIsNext == \A l, x : x \in Unread(l)' <=> Waits(x, l)'
<1> TAKE l, x
<1> DEFINE I(n) == {i \in DOMAIN outbox'[n] : outbox'[n][i].is = l}
           U(n) == {n} \X I(n)
<1>1. Unread(l)' = UNION {U(n) : n \in Node} BY DEF Unread
<1>2. \A n : x \in U(n) <=> \E i \in DOMAIN outbox'[n] : outbox'[n][i].is = l /\ x = <<n, i>>
      OBVIOUS
<1> HIDE DEF U
<1>3. x \in Unread(l)' <=> \E n \in Node : x \in U(n) BY <1>1
<1> QED BY <1>2, <1>3 DEF Waits

\* A node writes a line: one more of its kind.
LEMMA EmitUnread ==
    ASSUME TypeOK, NEW n \in Node, NEW e \in Event, Emit(n, e), NEW k
    PROVE  /\ <<n, Len(outbox[n]) + 1>> \notin Unread(k)
           /\ Unread(k)' = IF e.is = k THEN Unread(k) \cup {<<n, Len(outbox[n]) + 1>>}
                           ELSE Unread(k)
<1> DEFINE T == Event
           z == Len(outbox[n]) + 1
<1>1. outbox \in [Node -> Seq(T)] /\ e \in T BY DEF TypeOK
<1>2. outbox' = [outbox EXCEPT ![n] = Append(@, e)] BY DEF Emit
<1> HIDE DEF T
<1>3. outbox[n] \in Seq(T) /\ outbox'[n] = Append(outbox[n], e) BY <1>1, <1>2
<1>4. /\ DOMAIN outbox[n] = 1 .. Len(outbox[n]) /\ Len(outbox[n]) \in Nat
      /\ DOMAIN outbox'[n] = 1 .. Len(outbox[n]) + 1
      /\ \A i \in DOMAIN outbox[n] : outbox'[n][i] = outbox[n][i]
      /\ outbox'[n][Len(outbox[n]) + 1] = e
      BY <1>1, <1>3
<1>5. /\ z \notin DOMAIN outbox[n]
      /\ DOMAIN outbox'[n] = (DOMAIN outbox[n]) \cup {z}
      /\ \A i \in DOMAIN outbox[n] : outbox'[n][i] = outbox[n][i]
      /\ outbox'[n][z] = e
      BY <1>4
<1>6. \A m \in Node : m # n => outbox'[m] = outbox[m] BY <1>1, <1>2
<1> HIDE DEF z
<1>7. \A x : Waits(x, k)' <=> Waits(x, k) \/ (e.is = k /\ x = <<n, z>>)
      BY <1>5, <1>6 DEF Waits
<1>8. ~ Waits(<<n, z>>, k) BY <1>5 DEF Waits
<1> QED BY <1>7, <1>8, UnreadIs, UnreadIsNext DEF z

LEMMA LoggedType ==
    TypeOK /\ CounterInv => \A l \in Log : /\ Logged(l) \in Nat
                                          /\ Cardinality(Unread(l)) \in Nat
                                          /\ counts[l] \in Nat
<1> SUFFICES ASSUME TypeOK, CounterInv, NEW l \in Log
             PROVE  /\ Logged(l) \in Nat /\ Cardinality(Unread(l)) \in Nat
                    /\ counts[l] \in Nat
    OBVIOUS
<1>1. counts[l] \in Nat BY DEF TypeOK
<1>2. Cardinality(Unread(l)) \in Nat BY FS_CardinalityType DEF CounterInv
<1> QED BY <1>1, <1>2 DEF Logged

LEMMA LoggedEmit ==
    ASSUME TypeOK, CounterInv, counts' = counts,
           NEW n \in Node, NEW e \in Event, Emit(n, e)
    PROVE  LoggedMore(e.is)
<1> SUFFICES ASSUME NEW k \in Log
             PROVE  /\ IsFiniteSet(Unread(k)')
                    /\ Logged(k)' = IF k = e.is THEN Logged(k) + 1 ELSE Logged(k)
    BY DEF LoggedMore
<1> DEFINE z == <<n, Len(outbox[n]) + 1>>
<1>1. z \notin Unread(k) /\ Unread(k)' = IF e.is = k THEN Unread(k) \cup {z} ELSE Unread(k)
      BY EmitUnread
<1>2. IsFiniteSet(Unread(k)) /\ counts[k] \in Nat /\ Cardinality(Unread(k)) \in Nat
      BY LoggedType DEF CounterInv
<1> HIDE DEF z
<1>3. /\ IsFiniteSet(Unread(k) \cup {z})
      /\ Cardinality(Unread(k) \cup {z}) = Cardinality(Unread(k)) + 1
      BY <1>1, <1>2, FS_AddElement
<1>4. Logged(k) = counts[k] + Cardinality(Unread(k)) BY DEF Logged
<1>5. Logged(k)' = counts[k] + Cardinality(Unread(k)') BY DEF Logged
<1> QED BY <1>1, <1>2, <1>3, <1>4, <1>5

LEMMA LoggedSame ==
    ASSUME CounterInv, UNCHANGED <<outbox, counts>>
    PROVE  LoggedMore("")
<1>1. \A k \in Log : Unread(k)' = Unread(k) BY DEF Unread
<1>2. \A k \in Log : Logged(k)' = Logged(k) BY <1>1 DEF Logged
<1>3. "" \notin Log BY DEF Log
<1> QED BY <1>1, <1>2, <1>3 DEF CounterInv, LoggedMore

LEMMA TailFacts ==
    ASSUME NEW T, NEW s \in Seq(T), s # << >>
    PROVE  /\ DOMAIN s = 1 .. Len(s) /\ Len(s) \in Nat \ {0}
           /\ DOMAIN Tail(s) = 1 .. Len(s) - 1
           /\ \A i \in 1 .. Len(s) - 1 : Tail(s)[i] = s[i + 1]
           /\ Head(s) = s[1]
OBVIOUS

\* A line is read: what was unread is counted.
LEMMA LoggedReport ==
    ASSUME TypeOK, CounterInv, NEW n \in Node, Report(n)
    PROVE  LoggedMore("")
<1> SUFFICES ASSUME NEW k \in Log
             PROVE  /\ IsFiniteSet(Unread(k)')
                    /\ Logged(k)' = Logged(k)
    BY DEF LoggedMore, Log
<1> DEFINE T == Event
           e == Head(outbox[n])
           one == <<n, 1>>
           next(x) == IF x[1] = n THEN <<n, x[2] + 1>> ELSE x
           f == [x \in Unread(k)' |-> next(x)]
<1>1. outbox \in [Node -> Seq(T)] BY DEF TypeOK
<1>2. outbox[n] # << >> /\ outbox' = [outbox EXCEPT ![n] = Tail(@)] BY DEF Report
<1>3. counts' = IF e.is = "recv_text" THEN counts ELSE [counts EXCEPT ![e.is] = @ + 1]
      BY DEF Report, Complete
<1>4. e \in Event BY <1>1, <1>2
<1> HIDE DEF T
<1>5. outbox[n] \in Seq(T) /\ outbox'[n] = Tail(outbox[n]) BY <1>1, <1>2
<1>6. /\ DOMAIN outbox[n] = 1 .. Len(outbox[n]) /\ Len(outbox[n]) \in Nat \ {0}
      /\ DOMAIN outbox'[n] = 1 .. Len(outbox[n]) - 1
      /\ \A i \in 1 .. Len(outbox[n]) - 1 : outbox'[n][i] = outbox[n][i + 1]
      /\ outbox[n][1] = e
      BY <1>2, <1>5, TailFacts
<1>7. /\ 1 \in DOMAIN outbox[n] /\ DOMAIN outbox[n] \subseteq Nat
      /\ \A i \in DOMAIN outbox'[n] : /\ i \in Nat /\ i + 1 # 1
                                      /\ i + 1 \in DOMAIN outbox[n]
                                      /\ outbox'[n][i] = outbox[n][i + 1]
      /\ \A i \in DOMAIN outbox[n] : i # 1 =>
            i - 1 \in DOMAIN outbox'[n] /\ i - 1 + 1 = i
      BY <1>6
<1>8. \A m \in Node : m # n => outbox'[m] = outbox[m] BY <1>1, <1>2
<1> HIDE DEF e
<1>9. \A x : Waits(x, k)' => next(x) # one /\ Waits(next(x), k)
      BY <1>7, <1>8 DEF Waits
<1>10. \A x : Waits(x, k) /\ x # one => \E y : Waits(y, k)' /\ next(y) = x
  <2>1. TAKE x
  <2>2. HAVE Waits(x, k) /\ x # one
  <2>3. PICK m \in Node : \E i \in DOMAIN outbox[m] : outbox[m][i].is = k /\ x = <<m, i>>
        BY <2>2 DEF Waits
  <2>4. PICK i \in DOMAIN outbox[m] : outbox[m][i].is = k /\ x = <<m, i>> BY <2>3
  <2>5. CASE m = n
    <3>1. i # 1 BY <2>2, <2>4, <2>5
    <3>2. /\ i - 1 \in DOMAIN outbox'[n] /\ i - 1 + 1 = i
          /\ outbox'[n][i - 1].is = k
          BY <1>7, <2>4, <2>5, <3>1
    <3>3. Waits(<<n, i - 1>>, k)' BY <3>2 DEF Waits
    <3>4. next(<<n, i - 1>>) = x BY <2>4, <2>5, <3>2
    <3> QED BY <3>3, <3>4
  <2>6. CASE m # n
    <3>1. Waits(x, k)' BY <1>8, <2>4, <2>6 DEF Waits
    <3>2. next(x) = x BY <2>4, <2>6
    <3> QED BY <3>1, <3>2
  <2> QED BY <2>5, <2>6
<1>11. \A x, y : Waits(x, k)' /\ Waits(y, k)' /\ next(x) = next(y) => x = y
       BY <1>7 DEF Waits
<1>12. Waits(one, k) <=> e.is = k BY <1>6, <1>7 DEF Waits
<1> HIDE DEF next, one
<1>13. /\ \A x \in Unread(k)' : next(x) \in Unread(k) \ {one}
       /\ \A x \in Unread(k) \ {one} : \E y \in Unread(k)' : next(y) = x
       /\ \A x, y \in Unread(k)' : next(x) = next(y) => x = y
       /\ one \in Unread(k) <=> e.is = k
       BY <1>9, <1>10, <1>11, <1>12, UnreadIs, UnreadIsNext
<1>14. f \in Injection(Unread(k)', Unread(k) \ {one})
       BY <1>13 DEF Injection, IsInjective
<1>15. f \in Surjection(Unread(k)', Unread(k) \ {one})
       BY <1>13, <1>14 DEF Injection, Surjection
<1> HIDE DEF f
<1>16. IsFiniteSet(Unread(k)) /\ counts[k] \in Nat /\ Cardinality(Unread(k)) \in Nat
       BY LoggedType DEF CounterInv
<1>17. /\ IsFiniteSet(Unread(k) \ {one})
       /\ Cardinality(Unread(k) \ {one})
            = IF e.is = k THEN Cardinality(Unread(k)) - 1 ELSE Cardinality(Unread(k))
       BY <1>13, <1>16, FS_RemoveElement
<1>18. /\ IsFiniteSet(Unread(k)')
       /\ Cardinality(Unread(k)') = Cardinality(Unread(k) \ {one})
       BY <1>14, <1>15, <1>17, FS_Injection
<1>19. counts'[k] = IF e.is = k THEN counts[k] + 1 ELSE counts[k]
       BY <1>3, <1>4 DEF TypeOK, Event, Log
<1>20. Logged(k)' = counts'[k] + Cardinality(Unread(k)') BY DEF Logged
<1> QED BY <1>16, <1>17, <1>18, <1>19, <1>20 DEF Logged

LEMMA OutcomesSame ==
    ASSUME CounterInv, ended \subseteq ended',
           \A e \in ended' : e \in ended \/ e.how = "superseded"
    PROVE  OutcomesMore("")
<1>1. \A k \in Counted : Outcomes(k)' = Outcomes(k) BY DEF Outcomes, Counted
<1> QED BY <1>1 DEF CounterInv, OutcomesMore, Counted

\* What a node tracks ends: no outcome of it was counted before.
LEMMA OutcomeNew ==
    ASSUME CourierInv, CounterInv, NEW n \in Node, pending[n] # None,
           NEW how, ended' = ended \cup EndOf(n, how)
    PROVE  OutcomesMore(how)
<1> DEFINE e == [msg |-> pending[n].msg, how |-> how]
<1>1. ended' = ended \cup {e} BY DEF EndOf
<1>2. e \notin ended
  <2>1. \A f \in ended : f.msg # pending[n].msg BY DEF CourierInv, OneOutcome
  <2> QED BY <2>1
<1>3. e.how = how OBVIOUS
<1> HIDE DEF e
<1> SUFFICES ASSUME NEW k \in Counted
             PROVE  /\ IsFiniteSet(Outcomes(k)')
                    /\ Cardinality(Outcomes(k)') =
                         IF k = how THEN Cardinality(Outcomes(k)) + 1
                         ELSE Cardinality(Outcomes(k))
    BY DEF OutcomesMore
<1>4. Outcomes(k)' = IF k = how THEN Outcomes(k) \cup {e} ELSE Outcomes(k)
      BY <1>1, <1>3 DEF Outcomes
<1>5. e \notin Outcomes(k) BY <1>2 DEF Outcomes
<1>6. IsFiniteSet(Outcomes(k)) BY DEF CounterInv
<1>7. /\ IsFiniteSet(Outcomes(k) \cup {e})
      /\ Cardinality(Outcomes(k) \cup {e}) = Cardinality(Outcomes(k)) + 1
      BY <1>5, <1>6, FS_AddElement
<1> QED BY <1>4, <1>6, <1>7

LEMMA RetriedType == CounterInv => Cardinality(Retried) \in Nat
BY FS_CardinalityType DEF CounterInv

LEMMA RetriedQuiet ==
    ASSUME CounterInv, sent' = sent
    PROVE  RetriedMore(0)
<1>1. Retried' = Retried BY DEF Retried
<1> QED BY <1>1, RetriedType DEF CounterInv, RetriedMore

LEMMA RetriedSame ==
    ASSUME CounterInv, NEW P, Firsts(P), sent' = sent \cup P
    PROVE  RetriedMore(0)
<1>1. Retried' = Retried BY DEF Retried, Firsts
<1> QED BY <1>1, RetriedType DEF CounterInv, RetriedMore

LEMMA RetriedNew ==
    ASSUME CounterInv, NEW p, p \notin sent, p.ack # p.msg, sent' = sent \cup {p}
    PROVE  RetriedMore(1)
<1>1. Retried' = Retried \cup {p} /\ p \notin Retried BY DEF Retried
<1>2. /\ IsFiniteSet(Retried \cup {p})
      /\ Cardinality(Retried \cup {p}) = Cardinality(Retried) + 1
      BY <1>1, FS_AddElement DEF CounterInv
<1> QED BY <1>1, <1>2 DEF RetriedMore

\* The balance is kept when each outcome has its line, and each line its outcome.
LEMMA Balance ==
    ASSUME TypeOK, CounterInv, NEW l, NEW how, NEW d,
           LoggedMore(l), OutcomesMore(how), RetriedMore(d), Matches(l, how, d)
    PROVE  CounterInv'
<1>0. /\ d \in {0, 1}
      /\ l = "confirmed" <=> how = "confirmed"
      /\ l = "failed" <=> how = "failed"
      /\ l = "retries" <=> how = "dropped" \/ d = 1
      /\ ~ (how = "dropped" /\ d = 1)
      BY DEF Matches
<1>1. /\ \A k \in Log : IsFiniteSet(Unread(k)')
      /\ \A k \in Counted : IsFiniteSet(Outcomes(k)')
      /\ IsFiniteSet(Retried')
      BY DEF LoggedMore, OutcomesMore, RetriedMore
<1>2. \A k \in Log : Logged(k)' = IF k = l THEN Logged(k) + 1 ELSE Logged(k)
      BY DEF LoggedMore
<1>3. \A k \in Counted : Cardinality(Outcomes(k)') =
             IF k = how THEN Cardinality(Outcomes(k)) + 1 ELSE Cardinality(Outcomes(k))
      BY DEF OutcomesMore
<1>4. Cardinality(Retried') = Cardinality(Retried) + d BY DEF RetriedMore
<1>5. Cardinality(Retried) \in Nat BY RetriedType
<1>6. \A k \in Counted : Cardinality(Outcomes(k)) \in Nat
      BY FS_CardinalityType DEF CounterInv
<1>7. CountersAgree BY DEF CounterInv
<1>8. CountersAgree'
  <2>1. Logged("confirmed")' = Cardinality(Outcomes("confirmed")')
        BY <1>0, <1>2, <1>3, <1>7 DEF CountersAgree, Log, Counted
  <2>2. Logged("failed")' = Cardinality(Outcomes("failed")')
        BY <1>0, <1>2, <1>3, <1>7 DEF CountersAgree, Log, Counted
  <2>3. Logged("retries")' = Cardinality(Outcomes("dropped")') + Cardinality(Retried')
        BY <1>0, <1>2, <1>3, <1>4, <1>5, <1>6, <1>7 DEF CountersAgree, Log, Counted
  <2> QED BY <2>1, <2>2, <2>3 DEF CountersAgree
<1> QED BY <1>1, <1>8 DEF CounterInv

LEMMA NoneMatches == Matches("", "", 0) /\ Matches("recv_text", "", 0)
BY DEF Matches

\* A step that writes and reads no line, ends nothing and retries nothing.
LEMMA QuietCounters ==
    ASSUME TypeOK, CounterInv, UNCHANGED <<outbox, counts, ended, sent>>
    PROVE  CounterInv'
<1>1. LoggedMore("") BY LoggedSame
<1>2. OutcomesMore("") BY OutcomesSame
<1>3. RetriedMore(0) BY RetriedQuiet
<1> QED BY <1>1, <1>2, <1>3, NoneMatches, Balance

LEMMA CommandCounters ==
    ASSUME CourierInv, CounterInv, NEW n \in Node, Command(n)
    PROVE  CounterInv'
<1> DEFINE p == PacketAt(n, Head(inbox[n]).dest, Head(inbox[n]).text, serial[n])
<1>1. UNCHANGED <<outbox, counts>> BY DEF Command
<1>2. \/ sent' = sent \cup {p} /\ ended' = ended \cup EndOf(n, "superseded")
      \/ UNCHANGED <<sent, ended>>
      BY DEF Command, Transmit
<1>3. TypeOK /\ p.msg = p.ack BY DEF CourierInv, PacketAt
<1> HIDE DEF p
<1>4. CASE UNCHANGED <<sent, ended>> BY <1>1, <1>3, <1>4, QuietCounters
<1>5. CASE sent' = sent \cup {p} /\ ended' = ended \cup EndOf(n, "superseded")
  <2>1. \A e \in ended' : e \in ended \/ e.how = "superseded" BY <1>5 DEF EndOf
  <2>2. LoggedMore("") BY <1>1, LoggedSame
  <2>3. OutcomesMore("") BY <1>5, <2>1, OutcomesSame
  <2>4. Firsts({p}) BY <1>3 DEF Firsts
  <2>5. RetriedMore(0) BY <1>5, <2>4, RetriedSame
  <2> QED BY <1>3, <2>2, <2>3, <2>5, NoneMatches, Balance
<1> QED BY <1>2, <1>4, <1>5

LEMMA AckArrivesCounters ==
    ASSUME CourierInv, CounterInv, NEW k \in acks, AckArrives(k)
    PROVE  CounterInv'
<1>1. UNCHANGED <<counts, sent>> BY DEF AckArrives
<1>2. k[1] \in Node /\ TypeOK BY DEF CourierInv, TypeOK, Token
<1>3. CASE UNCHANGED <<outbox, ended>> BY <1>1, <1>2, <1>3, QuietCounters
<1>4. CASE /\ pending[k[1]] # None
           /\ Emit(k[1], Logs("confirmed"))
           /\ ended' = ended \cup EndOf(k[1], "confirmed")
  <2>1. Logs("confirmed") \in Event /\ Logs("confirmed").is = "confirmed"
        BY LogsType DEF Log, Logs
  <2>2. LoggedMore(Logs("confirmed").is) BY <1>1, <1>2, <1>4, <2>1, LoggedEmit
  <2>3. LoggedMore("confirmed") BY <2>1, <2>2
  <2>4. OutcomesMore("confirmed") BY <1>2, <1>4, OutcomeNew
  <2>5. RetriedMore(0) BY <1>1, RetriedQuiet
  <2> QED BY <1>2, <2>3, <2>4, <2>5, Balance DEF Matches
<1> QED BY <1>3, <1>4 DEF AckArrives

LEMMA GiveUpCounters ==
    ASSUME CourierInv, CounterInv, NEW n \in Node, pending[n] # None, GiveUp(n),
           counts' = counts
    PROVE  CounterInv'
<1>1. /\ Emit(n, Logs("failed"))
      /\ ended' = ended \cup EndOf(n, "failed")
      /\ sent' = sent
      BY DEF GiveUp
<1>2. TypeOK BY DEF CourierInv
<1>3. Logs("failed") \in Event /\ Logs("failed").is = "failed"
      BY LogsType DEF Log, Logs
<1>4. LoggedMore(Logs("failed").is) BY <1>1, <1>2, <1>3, LoggedEmit
<1>5. LoggedMore("failed") BY <1>3, <1>4
<1>6. OutcomesMore("failed") BY <1>1, OutcomeNew
<1>7. RetriedMore(0) BY <1>1, RetriedQuiet
<1> QED BY <1>2, <1>5, <1>6, <1>7, Balance DEF Matches

\* Either the retry goes out, or it is the outcome "dropped".
LEMMA RetryCounters ==
    ASSUME CourierInv, CounterInv, NEW n \in Node, pending[n] # None, Retry(n),
           counts' = counts
    PROVE  CounterInv'
<1>1. TypeOK /\ Emit(n, Logs("retries")) BY DEF CourierInv, Retry
<1>2. Logs("retries") \in Event /\ Logs("retries").is = "retries"
      BY LogsType DEF Log, Logs
<1>3. LoggedMore(Logs("retries").is) BY <1>1, <1>2, LoggedEmit
<1>4. LoggedMore("retries") BY <1>2, <1>3
<1>5. ASSUME NEW p, p.ack = <<n, serial[n]>>, p.msg = pending[n].msg,
             sent' = sent \cup {p}, UNCHANGED ended
      PROVE  CounterInv'
  <2>1. serial[n] \in Nat BY <1>1 DEF TypeOK
  <2>2. ~ Taken(p.ack) BY <1>5, <2>1 DEF Taken
  <2>3. Taken(p.msg) BY <1>5, InUse
  <2>4. p \notin sent BY <2>2, InUse
  <2>5. p.ack # p.msg BY <2>2, <2>3
  <2>6. RetriedMore(1) BY <1>5, <2>4, <2>5, RetriedNew
  <2>7. OutcomesMore("") BY <1>5, OutcomesSame
  <2> QED BY <1>1, <1>4, <2>6, <2>7, Balance DEF Matches
<1>6. ASSUME ended' = ended \cup EndOf(n, "dropped"), sent' = sent
      PROVE  CounterInv'
  <2>1. OutcomesMore("dropped") BY <1>6, OutcomeNew
  <2>2. RetriedMore(0) BY <1>6, RetriedQuiet
  <2> QED BY <1>1, <1>4, <2>1, <2>2, Balance DEF Matches
<1>7. \/ \E p \in Packet :
           /\ p.ack = <<n, serial[n]>> /\ p.msg = pending[n].msg
           /\ sent' = sent \cup {p} /\ UNCHANGED ended
      \/ ended' = ended \cup EndOf(n, "dropped") /\ sent' = sent
      BY <1>1, RetryFacts
<1> QED BY <1>5, <1>6, <1>7

LEMMA ReceiveCounters ==
    ASSUME CourierInv, CounterInv, NEW p \in texts, Receive(p)
    PROVE  CounterInv'
<1>1. TypeOK /\ p \in Packet /\ p.to \in Node /\ p.text \in Text
      BY DEF CourierInv, TypeOK, Packet
<1>2. LoggedMore("recv_text")
  <2> DEFINE e == [is |-> "recv_text", text |-> p.text]
  <2>1. e \in Event /\ e.is = "recv_text" BY <1>1 DEF Event
  <2>2. Emit(p.to, e) /\ counts' = counts BY DEF Receive
  <2> HIDE DEF e
  <2>3. LoggedMore(e.is) BY <1>1, <2>1, <2>2, LoggedEmit
  <2> QED BY <2>1, <2>3
<1>3. CASE Forward(p)
  <2>1. PICK Ok \in SUBSET Others(p.to, p.from) : Forward(p)!(Ok)
        BY <1>3 DEF Forward
  <2> DEFINE P == Forwards(p, Ok)
  <2>2. Firsts(P) BY <1>1, ForwardsFacts DEF Firsts
  <2>3. /\ sent' = sent \cup P
        /\ \/ UNCHANGED ended
           \/ \E last \in P :
                ended' = (ended \cup EndOf(p.to, "superseded")) \cup
                     {[msg |-> q.msg, how |-> "superseded"] : q \in P \ {last}}
        BY <2>1
  <2> HIDE DEF P
  <2>4. ended \subseteq ended' /\ \A e \in ended' : e \in ended \/ e.how = "superseded"
        BY <2>3 DEF EndOf
  <2>5. RetriedMore(0) BY <2>2, <2>3, RetriedSame
  <2>6. OutcomesMore("") BY <2>4, OutcomesSame
  <2> QED BY <1>1, <1>2, <2>5, <2>6, NoneMatches, Balance
<1>4. CASE UNCHANGED <<sent, ended>>
  <2>1. RetriedMore(0) BY <1>4, RetriedQuiet
  <2>2. OutcomesMore("") BY <1>4, OutcomesSame
  <2> QED BY <1>1, <1>2, <2>1, <2>2, NoneMatches, Balance
<1> QED BY <1>3, <1>4 DEF Receive

LEMMA ReportCounters ==
    ASSUME CourierInv, CounterInv, NEW n \in Node, Report(n)
    PROVE  CounterInv'
<1>1. TypeOK BY DEF CourierInv
<1>2. sent' = sent /\ ended' = ended BY DEF Report
<1>3. LoggedMore("") BY <1>1, LoggedReport
<1>4. RetriedMore(0) BY <1>2, RetriedQuiet
<1>5. OutcomesMore("") BY <1>2, OutcomesSame
<1> QED BY <1>1, <1>3, <1>4, <1>5, NoneMatches, Balance

LEMMA InitCounters == Init => CounterInv
<1> SUFFICES ASSUME Init PROVE CounterInv OBVIOUS
<1>1. \A l, x : ~ Waits(x, l)
  <2>1. DOMAIN << >> = {} OBVIOUS
  <2> QED BY <2>1 DEF Init, Waits
<1>2. \A l : Unread(l) = {} BY <1>1, UnreadIs
<1>3. (\A how : Outcomes(how) = {}) /\ Retried = {} BY DEF Init, Outcomes, Retried
<1>4. \A l \in Log : counts[l] = 0 BY DEF Init
<1>5. IsFiniteSet({}) /\ Cardinality({}) = 0 BY FS_EmptySet
<1>6. ASSUME NEW l \in Log PROVE Logged(l) = 0
  <2>1. Unread(l) = {} /\ counts[l] = 0 BY <1>2, <1>4
  <2> QED BY <1>5, <2>1 DEF Logged
<1>7. CountersAgree
  <2>1. Logged("confirmed") = 0 /\ Logged("failed") = 0 /\ Logged("retries") = 0
        BY <1>6 DEF Log
  <2>2. /\ Outcomes("confirmed") = {} /\ Outcomes("failed") = {}
        /\ Outcomes("dropped") = {} /\ Retried = {}
        BY <1>3
  <2>3. /\ Cardinality(Outcomes("confirmed")) = 0 /\ Cardinality(Outcomes("failed")) = 0
        /\ Cardinality(Outcomes("dropped")) = 0 /\ Cardinality(Retried) = 0
        BY <1>5, <2>2, Zenon
  <2>4. 0 = 0 + 0 OBVIOUS
  <2> QED BY <2>1, <2>3, <2>4 DEF CountersAgree
<1> QED BY <1>2, <1>3, <1>5, <1>7 DEF CounterInv

LEMMA NextCounters == CourierInv /\ CounterInv /\ [Next]_vars => CounterInv'
<1> SUFFICES ASSUME CourierInv, CounterInv, [Next]_vars PROVE CounterInv' OBVIOUS
<1>0. TypeOK BY DEF CourierInv
<1>1. CASE \E s, d \in Node : SendRandom(s, d)
      BY <1>0, <1>1, QuietCounters DEF SendRandom
<1>2. CASE \E n \in Node : Command(n) BY <1>2, CommandCounters
<1>3. CASE \E k \in acks : AckArrives(k) BY <1>3, AckArrivesCounters
<1>4. CASE \E n \in Node : Timeout(n)
      BY <1>4, GiveUpCounters, RetryCounters DEF Timeout
<1>5. CASE \E p \in texts : Receive(p) BY <1>5, ReceiveCounters
<1>6. CASE \E n \in Node : Report(n) BY <1>6, ReportCounters
<1>7. CASE Tick BY <1>0, <1>7, QuietCounters DEF Tick
<1>8. CASE UNCHANGED vars BY <1>0, <1>8, QuietCounters DEF vars
<1> QED BY <1>1, <1>2, <1>3, <1>4, <1>5, <1>6, <1>7, <1>8 DEF Next

\* The counters read back from log lines agree with what the nodes did, up to
\* the lines not read yet (metrics.on_event, SimNode.cpp): every confirmation,
\* failure and retry is counted once, whatever else the nodes write in between.
THEOREM CountersRight == Spec => []CountersAgree
<1>1. CounterInv => CountersAgree BY DEF CounterInv
<1> QED BY <1>1, InitInv, NextInv, InitCounters, NextCounters, PTL DEF Spec

-----------------------------------------------------------------------------
(* Who is credited.  The metrics find the message of a recv_text line by   *)
(* its text alone.                                                         *)

\* The clock value of a text does not wrap while messages are sent, and no two
\* are sent at once.
TextsApart == MaxNow < Wrap /\ 0 < Gap

\* The records the metrics have made: one per message.
Records == waiting \cup {c.rec : c \in completed}

RecordsDated ==
    /\ now <= MaxNow
    /\ \A r \in Records : r.text.via = None /\ r.text.stamp = r.at

OneRecord == \A r, q \in Records : r.text = q.text => r.dest = q.dest

\* A text that no room server has passed on is for d.
Due(R, text, d) == text.via = None => \E r \in R : r.text = text /\ r.dest = d

\* So it is wherever the text is: before it is sent, in the mesh, and reported.
InboxDue == \A n \in Node : \A c \in Range(inbox[n]) : Due(Records, c.text, c.dest)

PendingDue ==
    \A n \in Node : pending[n] # None => Due(Records, pending[n].text, pending[n].dest)

SentDue == \A p \in sent : Due(Records, p.text, p.to)

OutboxDue ==
    \A n \in Node : \A e \in Range(outbox[n]) :
        e.is = "recv_text" => Due(Records, e.text, n)

\* A record still waiting for a text that arrived has the line before it.
LinesLeft ==
    \A w \in waiting, p \in received : p.text = w.text =>
        \E e \in Range(outbox[p.to]) : e.is = "recv_text" /\ e.text = w.text

CreditInv ==
    /\ RecordsDated
    /\ OneRecord
    /\ InboxDue
    /\ PendingDue
    /\ SentDue
    /\ OutboxDue
    /\ LinesLeft
    /\ CreditedToDest

-----------------------------------------------------------------------------
(* Pipes                                                                   *)

LEMMA RangeAppend ==
    ASSUME NEW T, NEW s \in Seq(T), NEW e \in T
    PROVE  Range(Append(s, e)) = Range(s) \cup {e}
<1> DEFINE u == Append(s, e)
<1>1. /\ DOMAIN s = 1 .. Len(s) /\ Len(s) \in Nat
      /\ DOMAIN u = 1 .. Len(s) + 1
      /\ \A i \in 1 .. Len(s) : u[i] = s[i]
      /\ u[Len(s) + 1] = e
      OBVIOUS
<1> HIDE DEF u
<1>2. \A i \in DOMAIN u : (i \in DOMAIN s /\ u[i] = s[i]) \/ u[i] = e BY <1>1
<1>3. \A i \in DOMAIN s : i \in DOMAIN u /\ u[i] = s[i] BY <1>1
<1>4. Len(s) + 1 \in DOMAIN u BY <1>1
<1>5. Range(u) = Range(s) \cup {e} BY <1>1, <1>2, <1>3, <1>4 DEF Range
<1> QED BY <1>5 DEF u

LEMMA RangeTail ==
    ASSUME NEW T, NEW s \in Seq(T), s # << >>
    PROVE  Range(s) = {Head(s)} \cup Range(Tail(s))
<1> DEFINE u == Tail(s)
<1>1. /\ DOMAIN s = 1 .. Len(s) /\ Len(s) \in Nat \ {0}
      /\ DOMAIN u = 1 .. Len(s) - 1
      /\ \A i \in 1 .. Len(s) - 1 : u[i] = s[i + 1]
      /\ Head(s) = s[1]
      OBVIOUS
<1> HIDE DEF u
<1>2. \A i \in DOMAIN s : i = 1 \/ (i - 1 \in DOMAIN u /\ s[i] = u[i - 1]) BY <1>1
<1>3. \A i \in DOMAIN u : i + 1 \in DOMAIN s /\ u[i] = s[i + 1] BY <1>1
<1>4. 1 \in DOMAIN s BY <1>1
<1>5. Range(s) \subseteq {Head(s)} \cup Range(u) BY <1>1, <1>2 DEF Range
<1>6. Range(u) \subseteq Range(s) /\ Head(s) \in Range(s) BY <1>1, <1>3, <1>4 DEF Range
<1>7. Range(s) = {Head(s)} \cup Range(u) BY <1>5, <1>6
<1> QED BY <1>7 DEF u

\* What a node writes is one more line of its own.
LEMMA EmitLines ==
    ASSUME TypeOK, NEW n \in Node, NEW e \in Event, Emit(n, e)
    PROVE  /\ Range(outbox'[n]) = Range(outbox[n]) \cup {e}
           /\ \A m \in Node : m # n => outbox'[m] = outbox[m]
<1> DEFINE T == Event
<1>1. outbox \in [Node -> Seq(T)] /\ e \in T BY DEF TypeOK
<1>2. outbox' = [outbox EXCEPT ![n] = Append(@, e)] BY DEF Emit
<1> HIDE DEF T
<1>3. outbox[n] \in Seq(T) BY <1>1
<1>4. outbox'[n] = Append(outbox[n], e) BY <1>1, <1>2
<1>5. Range(outbox'[n]) = Range(outbox[n]) \cup {e} BY <1>1, <1>3, <1>4, RangeAppend
<1> QED BY <1>1, <1>2, <1>5

-----------------------------------------------------------------------------
(* The actions                                                             *)

LEMMA DueStays ==
    \A R, S, t, d : R \subseteq S /\ Due(R, t, d) => Due(S, t, d)
BY DEF Due

\* A node's step leaves the records alone: it is enough to look at the texts it
\* moves.
LEMMA NodeStep ==
    ASSUME CreditInv,
           UNCHANGED <<now, waiting, completed>>,
           InboxDue', PendingDue', SentDue', OutboxDue', LinesLeft'
    PROVE  CreditInv'
<1>1. Records' = Records BY DEF Records
<1> QED BY <1>1 DEF CreditInv, RecordsDated, OneRecord, CreditedToDest

\* A log line tells of no text.
LEMMA LogLine ==
    ASSUME TypeOK, CreditInv, UNCHANGED <<waiting, completed, received>>,
           \/ outbox' = outbox
           \/ \E n \in Node, l \in Log : Emit(n, Logs(l))
    PROVE  OutboxDue' /\ LinesLeft'
<1>1. Records' = Records BY DEF Records
<1>2. received \subseteq Packet BY DEF TypeOK
<1>3. CASE outbox' = outbox
      BY <1>1, <1>3 DEF CreditInv, OutboxDue, LinesLeft
<1>4. ASSUME NEW n \in Node, NEW l \in Log, Emit(n, Logs(l))
      PROVE  OutboxDue' /\ LinesLeft'
  <2>1. Logs(l) \in Event BY LogsType
  <2>2. Logs(l).is # "recv_text" BY DEF Logs, Log
  <2>3. /\ Range(outbox'[n]) = Range(outbox[n]) \cup {Logs(l)}
        /\ \A m \in Node : m # n => outbox'[m] = outbox[m]
        BY <1>4, <2>1, EmitLines
  <2>4. \A m \in Node : /\ Range(outbox[m]) \subseteq Range(outbox'[m])
                        /\ Range(outbox'[m]) \subseteq Range(outbox[m]) \cup {Logs(l)}
        BY <2>3
  <2>5. OutboxDue'
        BY <1>1, <2>2, <2>4 DEF CreditInv, OutboxDue
  <2>6. LinesLeft'
    <3>1. \A p \in received : p.to \in Node BY <1>2 DEF Packet
    <3>2. SUFFICES ASSUME NEW w \in waiting, NEW p \in received, p.text = w.text
                   PROVE  \E e \in Range(outbox'[p.to]) :
                              e.is = "recv_text" /\ e.text = w.text
          BY DEF LinesLeft
    <3>3. PICK e \in Range(outbox[p.to]) : e.is = "recv_text" /\ e.text = w.text
          BY <3>2 DEF CreditInv, LinesLeft
    <3> QED BY <2>4, <3>1, <3>3
  <2> QED BY <2>5, <2>6
<1> QED BY <1>3, <1>4

LEMMA NoWrap == \A a \in Nat, b \in Nat \ {0} : a < b => a % b = a
<1> TAKE a \in Nat, b \in Nat \ {0}
<1> HAVE a < b
<1> QED OBVIOUS

\* The text of a new message is not that of an earlier one.
LEMMA NewText ==
    ASSUME TextsApart, CourierInv, CreditInv, NEW s \in Node, NEW d \in Node,
           SendRandom(s, d)
    PROVE  /\ now \in Nat /\ now <= MaxNow /\ now % Wrap = now
           /\ \A r \in Records :
                 r.at # now /\ r.text # [by |-> s, stamp |-> now % Wrap, via |-> None]
<1> DEFINE text == [by |-> s, stamp |-> now % Wrap, via |-> None]
<1>1. now \in Nat /\ now <= MaxNow BY DEF CreditInv, RecordsDated, CourierInv, TypeOK
<1>2. now % Wrap = now
  <2>1. now < Wrap BY <1>1 DEF TextsApart
  <2>2. Wrap \in Nat \ {0} OBVIOUS
  <2> QED BY <1>1, <2>1, <2>2, NoWrap, Zenon
<1>3. \A r \in Records : r.at \in Nat /\ r.at + Gap <= now
  <2>1. waiting \subseteq SendRecord /\ completed \subseteq [rec : SendRecord, by : Node]
        BY DEF CourierInv, TypeOK
  <2>2. \A r \in Records : r \in SendRecord BY <2>1 DEF Records
  <2>3. \A r \in Records : r.at + Gap <= now BY DEF SendRandom, Records
  <2> QED BY <2>2, <2>3 DEF SendRecord
<1>4. \A r \in Records : r.at # now BY <1>1, <1>3 DEF TextsApart
<1>5. \A r \in Records : r.text # text
  <2>1. \A r \in Records : r.text.stamp = r.at BY DEF CreditInv, RecordsDated
  <2>2. text.stamp = now BY <1>2
  <2> HIDE DEF text
  <2> QED BY <1>4, <2>1, <2>2
<1> QED BY <1>1, <1>2, <1>4, <1>5

LEMMA SendRandomCredit ==
    ASSUME TextsApart, CourierInv, CreditInv, NEW s \in Node, NEW d \in Node,
           SendRandom(s, d)
    PROVE  CreditInv'
<1> DEFINE text == [by |-> s, stamp |-> now % Wrap, via |-> None]
           rec == [text |-> text, dest |-> d, at |-> now]
           cmd == [dest |-> d, text |-> text]
<1>1. now \in Nat /\ now <= MaxNow BY NewText
<1>2. now % Wrap = now BY NewText
<1>3. \A r \in Records : r.at # now BY NewText
<1>4. \A r \in Records : r.text # text BY NewText
<1>5. text.via = None /\ text.stamp = now BY <1>2
<1>6. rec.text = text /\ rec.dest = d /\ rec.at = now OBVIOUS
<1>7. cmd.text = text /\ cmd.dest = d OBVIOUS
<1>8. /\ waiting' = {w \in waiting : w.text # text} \cup {rec}
      /\ inbox' = [inbox EXCEPT ![s] = Append(@, cmd)]
      /\ UNCHANGED <<now, outbox, pending, completed, sent, received>>
      BY DEF SendRandom
<1>9. cmd \in [dest : Node, text : Text]
  <2>1. text \in Text BY <1>1, <1>2 DEF Text
  <2> HIDE DEF text
  <2> QED BY <2>1
<1> HIDE DEF text, rec, cmd
<1>10. waiting' = waiting \cup {rec} /\ Records' = Records \cup {rec}
  <2>1. waiting' = waiting \cup {rec} BY <1>4, <1>8 DEF Records
  <2> QED BY <1>8, <2>1 DEF Records
<1>11. RecordsDated' /\ OneRecord'
       BY <1>1, <1>4, <1>5, <1>6, <1>8, <1>10 DEF CreditInv, RecordsDated, OneRecord
<1>12. InboxDue'
  <2> DEFINE T == [dest : Node, text : Text]
  <2>1. inbox \in [Node -> Seq(T)] /\ cmd \in T BY <1>9 DEF CourierInv, TypeOK
  <2> HIDE DEF T
  <2>2. inbox[s] \in Seq(T) BY <2>1
  <2>3. inbox'[s] = Append(inbox[s], cmd) BY <1>8, <2>1
  <2>4. Range(inbox'[s]) = Range(inbox[s]) \cup {cmd} BY <2>1, <2>2, <2>3, RangeAppend
  <2>5. \A m \in Node : m # s => inbox'[m] = inbox[m] BY <1>8, <2>1
  <2>6. Due(Records', cmd.text, cmd.dest) BY <1>6, <1>7, <1>10 DEF Due
  <2>7. \A m \in Node : \A c \in Range(inbox[m]) : Due(Records', c.text, c.dest)
        BY <1>10, DueStays DEF CreditInv, InboxDue
  <2> QED BY <2>4, <2>5, <2>6, <2>7 DEF InboxDue
<1>13. PendingDue' /\ SentDue' /\ OutboxDue'
  <2>1. Records \subseteq Records' BY <1>10
  <2>2. PendingDue' BY <1>8, <2>1, DueStays DEF CreditInv, PendingDue
  <2>3. SentDue' BY <1>8, <2>1, DueStays DEF CreditInv, SentDue
  <2>4. OutboxDue' BY <1>8, <2>1, DueStays DEF CreditInv, OutboxDue
  <2> QED BY <2>2, <2>3, <2>4
<1>14. LinesLeft'
  <2>1. \A p \in received : p.text # text
    <3>1. received \subseteq sent BY DEF CourierInv, OnlySent
    <3> QED BY <1>4, <1>5, <3>1 DEF CreditInv, SentDue, Due
  <2> QED BY <1>6, <1>8, <1>10, <2>1 DEF CreditInv, LinesLeft
<1>15. CreditedToDest' BY <1>8 DEF CreditInv, CreditedToDest
<1> QED BY <1>11, <1>12, <1>13, <1>14, <1>15 DEF CreditInv

LEMMA CommandCredit ==
    ASSUME CourierInv, CreditInv, NEW n \in Node, Command(n)
    PROVE  CreditInv'
<1> DEFINE T == [dest : Node, text : Text]
           c == Head(inbox[n])
           p == PacketAt(n, c.dest, c.text, serial[n])
<1>1. /\ inbox[n] # << >> /\ inbox' = [inbox EXCEPT ![n] = Tail(@)]
      /\ UNCHANGED <<now, outbox, waiting, completed, received>>
      BY DEF Command
<1>2. \/ /\ sent' = sent \cup {p}
         /\ pending' = [pending EXCEPT ![n] = Tracked(p)]
      \/ UNCHANGED <<sent, pending>>
      BY DEF Command, Transmit
<1>3. /\ p.text = c.text /\ p.to = c.dest
      /\ Tracked(p).text = c.text /\ Tracked(p).dest = c.dest
      BY DEF PacketAt, Tracked
<1>4. inbox \in [Node -> Seq(T)] BY DEF CourierInv, TypeOK
<1> HIDE DEF T, p
<1>5. inbox[n] \in Seq(T) /\ inbox'[n] = Tail(inbox[n]) BY <1>1, <1>4
<1>6. Range(inbox[n]) = {c} \cup Range(inbox'[n]) BY <1>1, <1>5, RangeTail
<1>7. \A m \in Node : m # n => inbox'[m] = inbox[m] BY <1>1, <1>4
<1> HIDE DEF c
<1>8. Records' = Records BY <1>1 DEF Records
<1>9. Due(Records, c.text, c.dest) BY <1>6 DEF CreditInv, InboxDue
<1>10. InboxDue' BY <1>6, <1>7, <1>8 DEF CreditInv, InboxDue
<1>11. PendingDue'
  <2>1. pending \in [Node -> PendingMsg \cup {None}] BY DEF CourierInv, TypeOK
  <2>2. \A m \in Node : pending'[m] = pending[m] \/ pending'[m] = Tracked(p)
        BY <1>2, <2>1
  <2> QED BY <1>3, <1>8, <1>9, <2>2 DEF CreditInv, PendingDue
<1>12. SentDue' BY <1>2, <1>3, <1>8, <1>9 DEF CreditInv, SentDue
<1>13. OutboxDue' /\ LinesLeft' BY <1>1, <1>8 DEF CreditInv, OutboxDue, LinesLeft
<1> QED BY <1>1, <1>10, <1>11, <1>12, <1>13, NodeStep

LEMMA AckArrivesCredit ==
    ASSUME CourierInv, CreditInv, NEW k \in acks, AckArrives(k)
    PROVE  CreditInv'
<1>1. UNCHANGED <<now, inbox, waiting, completed, sent, received>> BY DEF AckArrives
<1>2. pending' = pending \/ pending' = [pending EXCEPT ![k[1]] = None]
      BY DEF AckArrives
<1>3. outbox' = outbox \/ Emit(k[1], Logs("confirmed")) BY DEF AckArrives
<1>4. k[1] \in Node /\ TypeOK BY DEF CourierInv, TypeOK, Token
<1>5. Records' = Records BY <1>1 DEF Records
<1>6. InboxDue' /\ SentDue' BY <1>1, <1>5 DEF CreditInv, InboxDue, SentDue
<1>7. PendingDue'
  <2>1. pending \in [Node -> PendingMsg \cup {None}] BY <1>4 DEF TypeOK
  <2>2. \A m \in Node : pending'[m] = pending[m] \/ pending'[m] = None BY <1>2, <2>1
  <2> QED BY <1>5, <2>2 DEF CreditInv, PendingDue
<1>8. OutboxDue' /\ LinesLeft'
  <2>1. "confirmed" \in Log BY DEF Log
  <2> QED BY <1>1, <1>3, <1>4, <2>1, LogLine
<1> QED BY <1>1, <1>6, <1>7, <1>8, NodeStep

LEMMA TimeoutCredit ==
    ASSUME CourierInv, CreditInv, NEW n \in Node, Timeout(n)
    PROVE  CreditInv'
<1>1. pending[n] # None /\ UNCHANGED <<now, inbox, waiting, completed, received>>
      BY DEF Timeout
<1>2. TypeOK BY DEF CourierInv
<1>3. pending \in [Node -> PendingMsg \cup {None}] BY <1>2 DEF TypeOK
<1>4. Records' = Records BY <1>1 DEF Records
<1>5. InboxDue' BY <1>1, <1>4 DEF CreditInv, InboxDue
<1>6. OutboxDue' /\ LinesLeft'
  <2>1. Emit(n, Logs("failed")) \/ Emit(n, Logs("retries"))
        BY DEF Timeout, GiveUp, Retry
  <2>2. "failed" \in Log /\ "retries" \in Log BY DEF Log
  <2> QED BY <1>1, <1>2, <2>1, <2>2, LogLine
<1>7. CASE sent' = sent /\ pending' = [pending EXCEPT ![n] = None]
  <2>1. SentDue' BY <1>4, <1>7 DEF CreditInv, SentDue
  <2>2. \A m \in Node : pending'[m] = pending[m] \/ pending'[m] = None BY <1>3, <1>7
  <2>3. PendingDue' BY <1>4, <2>2 DEF CreditInv, PendingDue
  <2> QED BY <1>1, <1>5, <1>6, <2>1, <2>3, NodeStep
<1>8. CASE Retry(n) /\ ~(sent' = sent /\ pending' = [pending EXCEPT ![n] = None])
  <2> DEFINE m == pending[n]
             q == PacketAt(n, m.dest, m.text, serial[n])
             p == [q EXCEPT !.msg = m.msg]
  <2>1. /\ sent' = sent \cup {p}
        /\ pending' = [pending EXCEPT ![n].attempt = @ + 1, ![n].ack = p.ack]
        BY <1>8 DEF Retry, Transmit
  <2>2. p.text = m.text /\ p.to = m.dest BY DEF PacketAt
  <2>3. m \in PendingMsg BY <1>1, <1>3
  <2> HIDE DEF p, q
  <2>4. pending'[n].text = m.text /\ pending'[n].dest = m.dest
        BY <1>3, <2>1, <2>3 DEF PendingMsg
  <2>5. \A o \in Node : o # n => pending'[o] = pending[o] BY <1>3, <2>1
  <2>6. Due(Records, m.text, m.dest) BY <1>1 DEF CreditInv, PendingDue
  <2> HIDE DEF m
  <2>7. SentDue' BY <1>4, <2>1, <2>2, <2>6 DEF CreditInv, SentDue
  <2>8. PendingDue' BY <1>4, <2>4, <2>5, <2>6 DEF CreditInv, PendingDue
  <2> QED BY <1>1, <1>5, <1>6, <2>7, <2>8, NodeStep
<1>9. GiveUp(n) => sent' = sent /\ pending' = [pending EXCEPT ![n] = None] BY DEF GiveUp
<1> QED BY <1>7, <1>8, <1>9 DEF Timeout

LEMMA ReceiveCredit ==
    ASSUME CourierInv, CreditInv, NEW p \in texts, Receive(p)
    PROVE  CreditInv'
<1>1. TypeOK /\ p \in Packet /\ p.to \in Node /\ p.text \in Text /\ p \in sent
      BY DEF CourierInv, TypeOK, Packet, OnlySent
<1>2. /\ received' = received \cup {p}
      /\ UNCHANGED <<now, inbox, waiting, completed>>
      BY DEF Receive
<1>3. Records' = Records BY <1>2 DEF Records
<1>4. InboxDue' BY <1>2, <1>3 DEF CreditInv, InboxDue
<1>5. OutboxDue' /\ LinesLeft'
  <2> DEFINE e == [is |-> "recv_text", text |-> p.text]
  <2>1. e \in Event BY <1>1 DEF Event
  <2>2. Emit(p.to, e) BY DEF Receive
  <2>3. e.is = "recv_text" /\ e.text = p.text OBVIOUS
  <2> HIDE DEF e
  <2>4. /\ Range(outbox'[p.to]) = Range(outbox[p.to]) \cup {e}
        /\ \A m \in Node : m # p.to => outbox'[m] = outbox[m]
        BY <1>1, <2>1, <2>2, EmitLines
  <2>5. OutboxDue'
        BY <1>1, <1>3, <2>3, <2>4 DEF CreditInv, OutboxDue, SentDue
  <2>6. LinesLeft'
    <3>1. \A q \in received : q.to \in Node BY <1>1 DEF TypeOK, Packet
    <3>2. \A m \in Node : Range(outbox[m]) \subseteq Range(outbox'[m]) BY <2>4
    <3>3. e \in Range(outbox'[p.to]) BY <2>4
    <3>4. SUFFICES ASSUME NEW w \in waiting, NEW q \in received \cup {p},
                          q.text = w.text
                   PROVE  \E l \in Range(outbox'[q.to]) :
                              l.is = "recv_text" /\ l.text = w.text
          BY <1>2 DEF LinesLeft
    <3>5. CASE q = p BY <2>3, <3>3, <3>4, <3>5
    <3>6. CASE q \in received
      <4>1. PICK l \in Range(outbox[q.to]) : l.is = "recv_text" /\ l.text = w.text
            BY <3>4, <3>6 DEF CreditInv, LinesLeft
      <4> QED BY <3>1, <3>2, <3>6, <4>1
    <3> QED BY <3>5, <3>6
  <2> QED BY <2>5, <2>6
<1>6. CASE Forward(p)
  <2>1. PICK Ok \in SUBSET Others(p.to, p.from) : Forward(p)!(Ok)
        BY <1>6 DEF Forward
  <2> DEFINE P == Forwards(p, Ok)
  <2>2. \A q \in P : q.text.via # None /\ Tracked(q).text.via # None
    <3>1. TAKE q \in P
    <3>2. PICK i \in Ok :
            q = PacketAt(p.to, Contacts[p.to][i], [p.text EXCEPT !.via = p.from],
                         serial[p.to] + i - 1)
          BY DEF Forwards
    <3>3. q.text = [p.text EXCEPT !.via = p.from] /\ Tracked(q).text = q.text
          BY <3>2 DEF PacketAt, Tracked
    <3>4. p.from # None BY <1>1 DEF Packet
    <3> QED BY <1>1, <3>3, <3>4 DEF Text
  <2>3. /\ sent' = sent \cup P
        /\ \/ pending' = pending
           \/ \E last \in P : pending' = [pending EXCEPT ![p.to] = Tracked(last)]
        BY <2>1
  <2> HIDE DEF P
  <2>4. SentDue' BY <1>3, <2>2, <2>3 DEF CreditInv, SentDue, Due
  <2>5. pending \in [Node -> PendingMsg \cup {None}] BY <1>1 DEF TypeOK
  <2>6. \A m \in Node : \/ pending'[m] = pending[m]
                        \/ \E last \in P : pending'[m] = Tracked(last)
        BY <2>3, <2>5
  <2>7. PendingDue' BY <1>3, <2>2, <2>6 DEF CreditInv, PendingDue, Due
  <2> QED BY <1>2, <1>4, <1>5, <2>4, <2>7, NodeStep
<1>7. CASE UNCHANGED <<pending, sent>>
  <2>1. SentDue' /\ PendingDue' BY <1>3, <1>7 DEF CreditInv, SentDue, PendingDue
  <2> QED BY <1>2, <1>4, <1>5, <2>1, NodeStep
<1> QED BY <1>6, <1>7 DEF Receive

LEMMA ReportCredit ==
    ASSUME CourierInv, CreditInv, NEW n \in Node, Report(n)
    PROVE  CreditInv'
<1> DEFINE T == Event
           e == Head(outbox[n])
           W == {w \in waiting : w.text = e.text}
<1>1. /\ outbox[n] # << >> /\ outbox' = [outbox EXCEPT ![n] = Tail(@)]
      /\ UNCHANGED <<now, inbox, pending, sent, received>>
      BY DEF Report
<1>2. outbox \in [Node -> Seq(T)] BY DEF CourierInv, TypeOK
<1>3. \/ /\ e.is = "recv_text"
         /\ waiting' = waiting \ W
         /\ completed' = completed \cup {[rec |-> w, by |-> n] : w \in W}
      \/ e.is # "recv_text" /\ UNCHANGED <<waiting, completed>>
      BY DEF Report, Complete
<1> HIDE DEF T
<1>4. outbox[n] \in Seq(T) /\ outbox'[n] = Tail(outbox[n]) BY <1>1, <1>2
<1>5. Range(outbox[n]) = {e} \cup Range(outbox'[n]) BY <1>1, <1>4, RangeTail
<1>6. \A m \in Node : m # n => outbox'[m] = outbox[m] BY <1>1, <1>2
<1> HIDE DEF e
<1>7. Records' = Records
  <2> DEFINE by(w) == [rec |-> w, by |-> n]
  <2>1. \A w \in W : by(w).rec = w OBVIOUS
  <2>2. W \subseteq waiting OBVIOUS
  <2> HIDE DEF W
  <2>3. CASE UNCHANGED <<waiting, completed>> BY <2>3 DEF Records
  <2>4. CASE /\ waiting' = waiting \ W
             /\ completed' = completed \cup {[rec |-> w, by |-> n] : w \in W}
    <3>1. completed' = completed \cup {by(w) : w \in W} BY <2>4
    <3> HIDE DEF by
    <3>2. {c.rec : c \in completed'} = {c.rec : c \in completed} \cup W
          BY <2>1, <3>1
    <3> QED BY <2>2, <2>4, <3>2 DEF Records
  <2> QED BY <1>3, <2>3, <2>4
<1>8. /\ InboxDue' /\ PendingDue' /\ SentDue' /\ RecordsDated' /\ OneRecord'
      BY <1>1, <1>7
      DEF CreditInv, InboxDue, PendingDue, SentDue, RecordsDated, OneRecord
<1>9. OutboxDue' BY <1>5, <1>6, <1>7 DEF CreditInv, OutboxDue
<1>10. LinesLeft'
  <2>1. SUFFICES ASSUME NEW w \in waiting', NEW p \in received, p.text = w.text
                 PROVE  \E l \in Range(outbox'[p.to]) :
                            l.is = "recv_text" /\ l.text = w.text
        BY <1>1 DEF LinesLeft
  <2>2. w \in waiting /\ ~(e.is = "recv_text" /\ e.text = w.text) BY <1>3
  <2>3. PICK l \in Range(outbox[p.to]) : l.is = "recv_text" /\ l.text = w.text
        BY <2>1, <2>2 DEF CreditInv, LinesLeft
  <2>4. p.to \in Node BY DEF CourierInv, TypeOK, Packet
  <2>5. l \in Range(outbox'[p.to]) BY <1>5, <1>6, <2>2, <2>3, <2>4
  <2> QED BY <2>3, <2>5
<1>11. CreditedToDest'
  <2>1. CASE UNCHANGED completed BY <2>1 DEF CreditInv, CreditedToDest
  <2>2. CASE /\ e.is = "recv_text"
             /\ completed' = completed \cup {[rec |-> w, by |-> n] : w \in W}
    <3>1. \A w \in W : w.dest = n
      <4>1. TAKE w \in W
      <4>2. w \in Records /\ w.text = e.text /\ e.text.via = None
            BY DEF Records, CreditInv, RecordsDated
      <4>3. Due(Records, e.text, n) BY <1>5, <2>2 DEF CreditInv, OutboxDue
      <4>4. PICK r \in Records : r.text = e.text /\ r.dest = n BY <4>2, <4>3 DEF Due
      <4> QED BY <4>2, <4>4 DEF CreditInv, OneRecord
    <3> HIDE DEF W
    <3> QED BY <2>2, <3>1 DEF CreditInv, CreditedToDest
  <2> QED BY <1>3, <2>1, <2>2
<1> QED BY <1>8, <1>9, <1>10, <1>11 DEF CreditInv

-----------------------------------------------------------------------------

LEMMA InitCredit == Init => CreditInv
<1> SUFFICES ASSUME Init PROVE CreditInv OBVIOUS
<1>1. Records = {} BY DEF Init, Records
<1>2. \A n \in Node : Range(inbox[n]) = {} /\ Range(outbox[n]) = {}
  <2>1. DOMAIN << >> = {} OBVIOUS
  <2> QED BY <2>1 DEF Init, Range
<1> QED BY <1>1, <1>2
    DEF Init, CreditInv, RecordsDated, OneRecord, InboxDue, PendingDue, SentDue,
        OutboxDue, LinesLeft, CreditedToDest

LEMMA NextCredit ==
    TextsApart /\ CourierInv /\ CreditInv /\ [Next]_vars => CreditInv'
<1> SUFFICES ASSUME TextsApart, CourierInv, CreditInv, [Next]_vars PROVE CreditInv'
    OBVIOUS
<1>1. CASE \E s, d \in Node : SendRandom(s, d) BY <1>1, SendRandomCredit
<1>2. CASE \E n \in Node : Command(n) BY <1>2, CommandCredit
<1>3. CASE \E k \in acks : AckArrives(k) BY <1>3, AckArrivesCredit
<1>4. CASE \E n \in Node : Timeout(n) BY <1>4, TimeoutCredit
<1>5. CASE \E p \in texts : Receive(p) BY <1>5, ReceiveCredit
<1>6. CASE \E n \in Node : Report(n) BY <1>6, ReportCredit
<1>7. CASE Tick
  <2>1. now' <= MaxNow /\ UNCHANGED <<inbox, outbox, pending, waiting, completed, sent, received>>
        BY <1>7 DEF Tick, CourierInv, TypeOK
  <2>2. Records' = Records BY <2>1 DEF Records
  <2> QED BY <2>1, <2>2
      DEF CreditInv, RecordsDated, OneRecord, InboxDue, PendingDue, SentDue,
          OutboxDue, LinesLeft, CreditedToDest
<1>8. CASE UNCHANGED vars
  <2>1. Records' = Records BY <1>8 DEF Records, vars
  <2> QED BY <1>8, <2>1
      DEF vars, CreditInv, RecordsDated, OneRecord, InboxDue, PendingDue, SentDue,
          OutboxDue, LinesLeft, CreditedToDest
<1> QED BY <1>1, <1>2, <1>3, <1>4, <1>5, <1>6, <1>7, <1>8 DEF Next

LEMMA CreditPromises ==
    CourierInv /\ CreditInv => CreditedToDest /\ NoneForgotten
<1> SUFFICES ASSUME CourierInv, CreditInv PROVE CreditedToDest /\ NoneForgotten
    OBVIOUS
<1>1. ASSUME NEW w \in waiting, NEW p \in received, p.text = w.text
      PROVE  \E i \in DOMAIN outbox[p.to] : outbox[p.to][i].text = w.text
      BY <1>1 DEF CreditInv, LinesLeft, Range
<1> QED BY <1>1 DEF CreditInv, NoneForgotten

\* While texts do not repeat, metrics.on_event credits a delivery to the node
\* the message was for, although it looks at the text only and room servers
\* pass texts on.
THEOREM Credited == TextsApart => (Spec => []CreditedToDest)
<1> SUFFICES ASSUME TextsApart PROVE Spec => []CreditedToDest OBVIOUS
<1>1. CourierInv /\ CreditInv /\ [Next]_vars => CreditInv' BY NextCredit
<1> QED BY <1>1, InitInv, NextInv, InitCredit, CreditPromises, PTL DEF Spec

\* While texts do not repeat, a message that has arrived is counted as delivered
\* when its destination's lines have been read, whatever room servers, retries
\* and other messages report in between (metrics.on_event).
THEOREM Remembered == TextsApart => (Spec => []NoneForgotten)
<1> SUFFICES ASSUME TextsApart PROVE Spec => []NoneForgotten OBVIOUS
<1>1. CourierInv /\ CreditInv /\ [Next]_vars => CreditInv' BY NextCredit
<1> QED BY <1>1, InitInv, NextInv, InitCredit, CreditPromises, PTL DEF Spec
-----------------------------------------------------------------------------
(* Every message has a record                                              *)

\* A record waits or is completed, and together there are as many as messages.
RecordInv ==
    /\ IsFiniteSet(waiting) /\ IsFiniteSet(completed)
    /\ \A c \in completed : c.rec \notin waiting
    /\ TextsUnique

LEMMA SendRandomRecords ==
    ASSUME TextsApart, CourierInv, CreditInv, RecordInv,
           NEW s \in Node, NEW d \in Node, SendRandom(s, d)
    PROVE  RecordInv'
<1> DEFINE text == [by |-> s, stamp |-> now % Wrap, via |-> None]
           rec == [text |-> text, dest |-> d, at |-> now]
<1>1. /\ waiting' = {w \in waiting : w.text # text} \cup {rec}
      /\ completed' = completed /\ sends' = sends + 1
      BY DEF SendRandom
<1>2. \A r \in Records : r.text # text BY NewText
<1>3. rec.text = text OBVIOUS
<1> HIDE DEF text, rec
<1>4. waiting' = waiting \cup {rec} BY <1>1, <1>2 DEF Records
<1>5. rec \notin Records BY <1>2, <1>3
<1>6. rec \notin waiting /\ \A c \in completed : c.rec # rec BY <1>5 DEF Records
<1>7. /\ IsFiniteSet(waiting \cup {rec})
      /\ Cardinality(waiting \cup {rec}) = Cardinality(waiting) + 1
      BY <1>6, FS_AddElement DEF RecordInv
<1>8. /\ Cardinality(waiting) \in Nat /\ Cardinality(completed) \in Nat
      /\ sends \in Nat
      BY FS_CardinalityType DEF RecordInv, CourierInv, TypeOK
<1>9. TextsUnique'
  <2>1. Cardinality(waiting') = Cardinality(waiting) + 1 BY <1>4, <1>7
  <2>2. completed' = completed /\ sends' = sends + 1 BY <1>1
  <2>3. Cardinality(waiting) + Cardinality(completed) = sends
        BY DEF RecordInv, TextsUnique
  <2> QED BY <1>8, <2>1, <2>2, <2>3 DEF TextsUnique
<1> QED BY <1>1, <1>4, <1>6, <1>7, <1>9 DEF RecordInv

\* Two records of one text are the same record.
LEMMA TextNamesRecord ==
    ASSUME CourierInv, CreditInv, NEW v \in Records, NEW w \in Records, v.text = w.text
    PROVE  v = w
<1>1. waiting \subseteq SendRecord /\ completed \subseteq [rec : SendRecord, by : Node]
      BY DEF CourierInv, TypeOK
<1>2. v \in SendRecord /\ w \in SendRecord BY <1>1 DEF Records
<1>3. v.dest = w.dest BY DEF CreditInv, OneRecord
<1>4. v.at = w.at
  <2>1. v.text.stamp = v.at /\ w.text.stamp = w.at BY DEF CreditInv, RecordsDated
  <2> QED BY <2>1
<1> QED BY <1>2, <1>3, <1>4 DEF SendRecord

LEMMA ReportRecords ==
    ASSUME CourierInv, CreditInv, RecordInv, NEW n \in Node, Report(n)
    PROVE  RecordInv'
<1> DEFINE e == Head(outbox[n])
           W == {w \in waiting : w.text = e.text}
<1>1. sends' = sends BY DEF Report
<1>2. \/ /\ waiting' = waiting \ W
         /\ completed' = completed \cup {[rec |-> w, by |-> n] : w \in W}
      \/ UNCHANGED <<waiting, completed>>
      BY DEF Report, Complete
<1>3. CASE UNCHANGED <<waiting, completed>>
      BY <1>1, <1>3 DEF RecordInv, TextsUnique
<1>4. CASE W = {} /\ waiting' = waiting \ W
           /\ completed' = completed \cup {[rec |-> w, by |-> n] : w \in W}
  <2>1. UNCHANGED <<waiting, completed>> BY <1>4
  <2> QED BY <1>3, <2>1
<1>5. ASSUME NEW w \in W,
             waiting' = waiting \ W,
             completed' = completed \cup {[rec |-> x, by |-> n] : x \in W}
      PROVE  RecordInv'
  <2> DEFINE c == [rec |-> w, by |-> n]
  <2>1. w \in waiting /\ \A x \in W : x = w
    <3>1. \A x \in W : x \in Records /\ x.text = e.text BY DEF Records
    <3> QED BY <3>1, TextNamesRecord
  <2>2. W = {w} BY <2>1
  <2>3. waiting' = waiting \ {w} /\ completed' = completed \cup {c} BY <1>5, <2>2
  <2>4. c.rec = w OBVIOUS
  <2> HIDE DEF c, W
  <2>5. c \notin completed BY <2>1, <2>4 DEF RecordInv
  <2>6. /\ IsFiniteSet(waiting \ {w})
        /\ Cardinality(waiting \ {w}) = Cardinality(waiting) - 1
        BY <2>1, FS_RemoveElement DEF RecordInv
  <2>7. /\ IsFiniteSet(completed \cup {c})
        /\ Cardinality(completed \cup {c}) = Cardinality(completed) + 1
        BY <2>5, FS_AddElement DEF RecordInv
  <2>8. Cardinality(waiting) \in Nat /\ Cardinality(completed) \in Nat
        BY FS_CardinalityType DEF RecordInv
  <2>9. TextsUnique'
    <3>1. /\ Cardinality(waiting') = Cardinality(waiting) - 1
          /\ Cardinality(completed') = Cardinality(completed) + 1
          BY <2>3, <2>6, <2>7
    <3>2. Cardinality(waiting) + Cardinality(completed) = sends
          BY DEF RecordInv, TextsUnique
    <3> QED BY <1>1, <2>8, <3>1, <3>2 DEF TextsUnique
  <2>10. \A x \in completed' : x.rec \notin waiting'
         BY <2>3, <2>4 DEF RecordInv
  <2> QED BY <2>3, <2>6, <2>7, <2>9, <2>10 DEF RecordInv
<1> QED BY <1>2, <1>3, <1>4, <1>5

LEMMA InitRecords == Init => RecordInv
<1> SUFFICES ASSUME Init PROVE RecordInv OBVIOUS
<1>1. waiting = {} /\ completed = {} /\ sends = 0 BY DEF Init
<1>2. IsFiniteSet({}) /\ Cardinality({}) = 0 BY FS_EmptySet
<1> QED BY <1>1, <1>2 DEF RecordInv, TextsUnique

LEMMA NextRecords ==
    TextsApart /\ CourierInv /\ CreditInv /\ RecordInv /\ [Next]_vars => RecordInv'
<1> SUFFICES ASSUME TextsApart, CourierInv, CreditInv, RecordInv, [Next]_vars
             PROVE  RecordInv'
    OBVIOUS
<1>1. CASE \E s, d \in Node : SendRandom(s, d) BY <1>1, SendRandomRecords
<1>2. CASE \E n \in Node : Report(n) BY <1>2, ReportRecords
<1>3. CASE UNCHANGED <<waiting, completed, sends>>
      BY <1>3 DEF RecordInv, TextsUnique
<1>4. ASSUME NEW n \in Node, Command(n) PROVE UNCHANGED <<waiting, completed, sends>>
      BY <1>4 DEF Command
<1>5. ASSUME NEW k \in acks, AckArrives(k) PROVE UNCHANGED <<waiting, completed, sends>>
      BY <1>5 DEF AckArrives
<1>6. ASSUME NEW n \in Node, Timeout(n) PROVE UNCHANGED <<waiting, completed, sends>>
      BY <1>6 DEF Timeout
<1>7. ASSUME NEW p \in texts, Receive(p) PROVE UNCHANGED <<waiting, completed, sends>>
      BY <1>7 DEF Receive
<1>8. ASSUME Tick \/ UNCHANGED vars PROVE UNCHANGED <<waiting, completed, sends>>
      BY <1>8 DEF Tick, vars
<1> QED BY <1>1, <1>2, <1>3, <1>4, <1>5, <1>6, <1>7, <1>8 DEF Next

\* "Embed a timestamp so every message text is unique for delivery tracking"
\* (traffic.py): it does if the clock does not come round while messages are
\* sent and no two are sent at one instant. Then no record replaces or completes
\* another, and the metrics know every message.
THEOREM UniqueTexts == TextsApart => (Spec => []TextsUnique)
<1> SUFFICES ASSUME TextsApart PROVE Spec => []TextsUnique OBVIOUS
<1>1. CourierInv /\ CreditInv /\ [Next]_vars => CreditInv' BY NextCredit
<1>2. CourierInv /\ CreditInv /\ RecordInv /\ [Next]_vars => RecordInv' BY NextRecords
<1>3. RecordInv => TextsUnique BY DEF RecordInv
<1> QED BY <1>1, <1>2, <1>3, InitInv, NextInv, InitCredit, InitRecords, PTL DEF Spec
=============================================================================
