---------------------------- MODULE ViewerProofs ----------------------------
(***************************************************************************)
(* What the trace viewer shows, for any traces, however many, and any      *)
(* number of clicks, ticks and simulations: one trace everywhere, one time *)
(* on the map, statistics that count nothing twice, a packet chosen stops  *)
(* the playback, and the playback passes no event over.                    *)
(***************************************************************************)
EXTENDS TraceViewer, FiniteSetTheorems, WellFoundedInduction, TLAPS

USE ViewerAssumption

-----------------------------------------------------------------------------
(* Events and times                                                        *)

\* A non-empty set of naturals has a least member.
LEMMA LeastOf ==
    ASSUME NEW S \in SUBSET Nat, S # {}
    PROVE  Min(S) \in S /\ \A n \in S : Min(S) <= n
<1>1. PICK m \in S : \A n \in S : ~ (<<n, m>> \in OpToRel(<, Nat))
      BY NatLessThanWellFounded, WFMin, Zenon
<1>2. \A n \in S : ~ (n < m) BY <1>1, Zenon DEF OpToRel
<1>3. \A n \in S : m <= n BY <1>2
<1> QED BY <1>3 DEF Min

LEMMA Least ==
    ASSUME NEW S \in SUBSET Nat, S # {}
    PROVE  Min(S) \in S
BY LeastOf

\* The records of a packet, and the event a record becomes.
EventOf(kind, i, r) ==
    [kind |-> kind, t |-> r.t, idx |-> i, sender |-> r.sender,
     receiver |-> r.receiver, tx |-> r.tx]

LEMMA EventsAre ==
    ASSUME NEW tr, NEW e
    PROVE  e \in Events(tr) <=>
             \E i \in DOMAIN tr.packets :
                \/ \E r \in Range(tr.packets[i].hops) : e = EventOf("hop", i, r)
                \/ \E r \in Range(tr.packets[i].collisions) : e = EventOf("collision", i, r)
                \/ \E r \in Range(tr.packets[i].halfduplex) : e = EventOf("halfduplex", i, r)
BY DEF Events, EventOf

\* The hops among the events.
LEMMA HopsAre ==
    ASSUME NEW tr, NEW e, e.kind = "hop"
    PROVE  e \in Events(tr) <=>
             \E i \in DOMAIN tr.packets : \E r \in Range(tr.packets[i].hops) :
                e = EventOf("hop", i, r)
<1>1. \A i, r : /\ EventOf("collision", i, r).kind = "collision"
                /\ EventOf("halfduplex", i, r).kind = "halfduplex"
      BY DEF EventOf
<1> QED BY <1>1, EventsAre

\* Events lie at instants, of packets there are.
LEMMA EventsLie ==
    ASSUME NEW s \in Source \cup {None}, NEW e \in EventsOf[s]
    PROVE  e.idx \in DOMAIN Trace(s).packets /\ e.t \in Nat
<1> DEFINE tr == Trace(s)
<1>1. e \in Events(tr) BY DEF EventsOf
<1>2. PICK i \in DOMAIN tr.packets :
                \/ \E r \in Range(tr.packets[i].hops) : e = EventOf("hop", i, r)
                \/ \E r \in Range(tr.packets[i].collisions) : e = EventOf("collision", i, r)
                \/ \E r \in Range(tr.packets[i].halfduplex) : e = EventOf("halfduplex", i, r)
      BY <1>1, EventsAre
<1>3. s # None
  <2>1. DOMAIN <<>> = {} OBVIOUS
  <2> QED BY <1>2, <2>1 DEF Trace
<1>4. s \in Source /\ tr = Content[s] BY <1>3 DEF Trace
<1>5. tr.packets[i] \in Range(tr.packets) BY <1>2 DEF Range
<1> HIDE DEF tr
<1>6. PICK r \in Range(tr.packets[i].hops) \cup Range(tr.packets[i].collisions)
                    \cup Range(tr.packets[i].halfduplex) :
            e.idx = i /\ e.t = r.t
      BY <1>2 DEF EventOf
<1>7. r.t \in Nat
  <2>1. CASE r \in Range(tr.packets[i].hops)
    <3>1. tr.packets[i].hops \in Seq(Recorded(Content[s])) BY <1>4, <1>5 DEF OfTopology
    <3>2. r \in Recorded(Content[s]) BY <2>1, <3>1 DEF Range
    <3> QED BY <3>2 DEF Recorded
  <2>2. CASE r \notin Range(tr.packets[i].hops)
    <3>1. /\ tr.packets[i].collisions \in Seq(Lost(Content[s]))
          /\ tr.packets[i].halfduplex \in Seq(Lost(Content[s]))
          BY <1>4, <1>5 DEF OfTopology
    <3>2. r \in Lost(Content[s]) BY <1>6, <2>2, <3>1 DEF Range
    <3> QED BY <3>2 DEF Lost
  <2> QED BY <2>1, <2>2
<1> QED BY <1>6, <1>7 DEF tr

LEMMA FirstInstant ==
    ASSUME NEW s \in Source \cup {None}, EventsOf[s] # {}
    PROVE  TMin(s) \in Nat
<1>1. {e.t : e \in EventsOf[s]} \in SUBSET Nat BY EventsLie
<1> QED BY <1>1, Least DEF TMin

LEMMA SeenIsInstant ==
    ASSUME NEW s \in Source \cup {None}, NEW i \in DOMAIN Trace(s).packets
    PROVE  Trace(s).packets[i].seen \in Nat
<1>1. s # None
  <2>1. DOMAIN <<>> = {} OBVIOUS
  <2> QED BY <2>1 DEF Trace
<1>2. s \in Source /\ Trace(s) = Content[s] BY <1>1 DEF Trace
<1>3. Trace(s).packets[i] \in Range(Trace(s).packets) BY DEF Range
<1> QED BY <1>2, <1>3 DEF OfTopology

-----------------------------------------------------------------------------
(* One trace                                                               *)

\* What the panel shows is there in trace s, and is of the statistics of st.
PanelFits(q, s, st) ==
    /\ q[1] = "packet" => q[2] \in DOMAIN Trace(s).packets
    /\ q[1] = "node" => q[3] = st

\* A node panel without a map beside it is the node's that is selected.
PanelLeft(q, on, i, n) == q[1] = "node" /\ ~ on => q[2] = n /\ i = None

\* Time line, view and statistics are of one trace where it has events; the
\* timer runs only while something plays.
ViewInv ==
    /\ trace \in Source \cup {None} /\ timeline = trace
    /\ shown \in BOOLEAN /\ playing \in BOOLEAN /\ timer \in BOOLEAN
    /\ now \in Int /\ speed \in Speed
    /\ stats = view
    /\ shown => view = trace
    /\ shown <=> EventsOf[trace] # {}
    /\ PanelLeft(panel, shown, selPkt, selNode)
    /\ timer => shown /\ playing
    /\ PanelFits(panel, trace, stats)

LEMMA PanelIs ==
    ASSUME NEW s, NEW i, NEW n, NEW st
    PROVE  PanelFits(Panel(Trace(s).packets, i, n, st), s, st)
BY DEF PanelFits, Panel

LEMMA PanelIsOf ==
    ASSUME NEW ps, NEW i, NEW n, NEW st, NEW on
    PROVE  PanelLeft(Panel(ps, i, n, st), on, i, n)
BY DEF PanelLeft, Panel

LEMMA ViewShows == ViewInv => ViewMatches
BY DEF ViewMatches, ViewInv, PanelFits, PanelLeft, Packets

\* Loading a trace.
LEMMA ShowStep ==
    ASSUME ViewInv, NEW s \in Source, Show(s)
    PROVE  ViewInv' /\ drawn' = None
<1>1. /\ trace' = s /\ timeline' = s /\ drawn' = None /\ timer' = FALSE
      /\ UNCHANGED <<speed, playing>>
      /\ panel' = Panel(Trace(s).packets, selPkt', selNode', stats')
      BY DEF Show, Main, Sidebar
<1>2. \/ EventsOf[s] = {} /\ shown' = FALSE /\ now' = now
      \/ /\ EventsOf[s] # {} /\ shown' = TRUE /\ view' = s /\ stats' = s
         /\ now' = TMin(s)
      BY DEF Show, Main
<1>3. now' \in Int BY <1>2, FirstInstant DEF ViewInv
<1>4. /\ PanelFits(panel', s, stats')
      /\ PanelLeft(panel', shown', selPkt', selNode')
      BY <1>1, PanelIs, PanelIsOf
<1>5. stats' = view' BY DEF Show, Main, ViewInv
<1>6. shown' <=> EventsOf[s] # {} BY <1>2
<1> QED BY <1>1, <1>2, <1>3, <1>4, <1>5, <1>6 DEF ViewInv

\* What a step owes that leaves the trace and its view alone.
Same == UNCHANGED <<trace, timeline, stats, view, shown>>

LEMMA SameView ==
    ASSUME ViewInv, Same, now' \in Int, speed' \in Speed,
           playing' \in BOOLEAN, timer' \in BOOLEAN, timer' => shown /\ playing',
           PanelFits(panel', trace, stats),
           PanelLeft(panel', shown, selPkt', selNode')
    PROVE  ViewInv'
BY DEF ViewInv, Same

LEMMA SelectPacketStep ==
    ASSUME ViewInv, NEW i, Pick(i)
    PROVE  ViewInv'
<1>1. Same BY DEF Pick, Same, loaded, built
<1>2. CASE i \notin DOMAIN Packets
  <2>1. UNCHANGED <<now, speed, playing, timer, panel, selPkt, selNode>>
        BY <1>2 DEF Pick, SelectPacket, playback, selection
  <2> QED BY <1>1, <2>1, SameView DEF ViewInv
<1>3. CASE i \in DOMAIN Packets
  <2>1. /\ panel' = Panel(Trace(trace).packets, i, None, stats)
        /\ selPkt' = i /\ selNode' = None
        BY <1>3 DEF Pick, SelectPacket, Packets
  <2>2. /\ PanelFits(panel', trace, stats)
        /\ PanelLeft(panel', shown, selPkt', selNode')
        BY <2>1, PanelIs, PanelIsOf
  <2>3. \/ UNCHANGED <<now, speed, playing, timer>>
        \/ /\ playing' = FALSE /\ timer' = (timer /\ ~ playing)
           /\ now' = Packets[i].seen /\ speed' = speed
        BY <1>3 DEF Pick, SelectPacket, playback
  <2>4. Packets[i].seen \in Nat BY <1>3, SeenIsInstant DEF ViewInv, Packets
  <2>5. now' \in Int /\ speed' \in Speed BY <2>3, <2>4 DEF ViewInv
  <2>6. /\ playing' \in BOOLEAN /\ timer' \in BOOLEAN
        /\ timer' => shown /\ playing'
    <3>1. CASE UNCHANGED <<now, speed, playing, timer>> BY <3>1 DEF ViewInv
    <3>2. CASE playing' = FALSE /\ timer' = (timer /\ ~ playing)
      <4>1. timer' = FALSE BY <3>2, Zenon DEF ViewInv
      <4> QED BY <3>2, <4>1
    <3> QED BY <2>3, <3>1, <3>2
  <2> QED BY <1>1, <2>2, <2>5, <2>6, SameView
<1> QED BY <1>2, <1>3

\* A culprit is shown by choosing its packet, if it has one.
LEMMA CulpritPicks ==
    ASSUME NEW x, ClickCulprit(x)
    PROVE  \/ \E i : Pick(i)
           \/ UNCHANGED <<loaded, built, playback, selection, filter, panel, drawn>>
BY DEF ClickCulprit, Jump, Pick

\* Every other step that keeps the trace, and what it changes.
Moves(t) ==
    /\ Same /\ UNCHANGED <<playing, speed, timer, panel, filter>> /\ now' = t
    /\ shown
    /\ selPkt' \in {selPkt, None}
    /\ IF t = now THEN UNCHANGED drawn ELSE Draw

Redraws ==
    /\ Same /\ UNCHANGED <<playing, speed, timer, now>>
    /\ selPkt' \in {selPkt, None}
    /\ PanelFits(panel', trace, stats)
    /\ PanelLeft(panel', shown, selPkt', selNode')
    /\ Draw

Rests ==
    /\ Same /\ UNCHANGED <<now, filter, drawn, selPkt, selNode, panel>>
    /\ speed' \in Speed
    /\ \/ UNCHANGED <<playing, timer>>
       \/ shown /\ playing' = ~ playing /\ timer' = playing'

LEMMA StepsAre ==
    ASSUME ViewInv, [Next]_vars
    PROVE  \/ \E s \in Source : Show(s)
           \/ \E i : Pick(i)
           \/ \E t \in Int : Moves(t)
           \/ Redraws
           \/ Rests
           \/ MapInit
<1> USE DEF Same, loaded, built, playback, selection, sidebar
<1>1. /\ speed \in Speed /\ PanelFits(panel, trace, stats)
      /\ PanelLeft(panel, shown, selPkt, selNode)
      BY DEF ViewInv
<1>2. ASSUME NEW d \in Source, PickRun(d) \/ SimulationEnds(d)
      PROVE  Show(d) \/ Rests
      BY <1>1, <1>2 DEF PickRun, SimulationEnds, Rests
<1>3. CASE PickCli BY <1>1, <1>3 DEF PickCli, Rests
<1>4. CASE Close
  <2>1. /\ PanelFits(<<"empty">>, trace, stats)
        /\ PanelLeft(<<"empty">>, shown, None, None)
        BY DEF PanelFits, PanelLeft
  <2> QED BY <1>4, <2>1 DEF Close, Redraws
<1>5. CASE TogglePlay BY <1>1, <1>5 DEF TogglePlay, Rests
<1>6. CASE ToggleWaterfall BY <1>1, <1>6 DEF ToggleWaterfall, Redraws
<1>7. ASSUME NEW i, ClickRow(i) \/ ClickListed(i) PROVE Pick(i)
      BY <1>7 DEF ClickRow, ClickListed
<1>8. ASSUME NEW x, ClickCulprit(x) PROVE (\E i : Pick(i)) \/ Rests
      BY <1>1, <1>8, CulpritPicks DEF Rests
<1>9. ASSUME NEW n, ClickMarker(n) \/ ClickReceiver(n) PROVE Redraws
  <2>1. SelectNode(n) BY <1>9 DEF ClickMarker, ClickReceiver
  <2>2. /\ PanelFits(Panel(Packets, None, n, stats), trace, stats)
        /\ PanelLeft(Panel(Packets, None, n, stats), shown, None, n)
        BY PanelIs, PanelIsOf DEF Packets
  <2> QED BY <2>1, <2>2 DEF SelectNode, Redraws
<1>10. ASSUME NEW t \in Int, shown, MoveTo(t) PROVE Moves(t)
       BY <1>10 DEF MoveTo, Moves
<1>11. CASE Tick
  <2>1. /\ shown /\ view = trace /\ EventsOf[trace] # {}
        /\ now \in Int /\ speed \in 1 .. Window /\ Window \in Nat
        BY <1>11 DEF Tick, ViewInv
  <2>2. TMin(view) \in Int BY <2>1, FirstInstant DEF ViewInv
  <2>3. \E t \in Int : MoveTo(t) BY <1>11, <2>1, <2>2 DEF Tick
  <2> QED BY <1>10, <2>1, <2>3
<1>12. ASSUME NEW t \in TMin(view) .. TMax(view), Slide(t) PROVE \E u \in Int : Moves(u)
  <2>1. t \in Int OBVIOUS
  <2> QED BY <1>10, <1>12, <2>1 DEF Slide
<1>13. ASSUME NEW v \in Speed, SetSpeed(v) PROVE Rests
       BY <1>13 DEF SetSpeed, Rests
<1>14. ASSUME NEW f \in SUBSET offered, SetFilter(f) PROVE Redraws
       BY <1>1, <1>14 DEF SetFilter, Redraws
<1>15. CASE UNCHANGED vars BY <1>1, <1>15 DEF vars, Rests
<1> QED BY <1>2, <1>3, <1>4, <1>5, <1>6, <1>7, <1>8, <1>9, <1>11, <1>12, <1>13, <1>14, <1>15
        DEF Next

LEMMA ViewStep == ViewInv /\ [Next]_vars => ViewInv'
<1> SUFFICES ASSUME ViewInv, [Next]_vars PROVE ViewInv' OBVIOUS
<1>1. ASSUME NEW t \in Int, Moves(t) PROVE ViewInv'
  <2>1. PanelLeft(panel', shown, selPkt', selNode') BY <1>1 DEF Moves, PanelLeft
  <2> QED BY <1>1, <2>1, SameView DEF Moves, ViewInv
<1>2. CASE Redraws BY <1>2, SameView DEF Redraws, ViewInv
<1>3. CASE Rests
  <2>1. playing' \in BOOLEAN /\ timer' \in BOOLEAN /\ (timer' => shown /\ playing')
    <3>1. CASE UNCHANGED <<playing, timer>> BY <3>1 DEF ViewInv
    <3>2. CASE shown /\ playing' = ~ playing /\ timer' = playing' BY <3>2 DEF ViewInv
    <3> QED BY <1>3, <3>1, <3>2 DEF Rests
  <2> QED BY <1>3, <2>1, SameView DEF Rests, ViewInv
<1>4. CASE MapInit
      BY <1>4, SameView DEF MapInit, Same, loaded, built, playback, selection, ViewInv
<1> QED BY <1>1, <1>2, <1>3, <1>4, StepsAre, ShowStep, SelectPacketStep

LEMMA ViewStart == Init => ViewInv
<1> SUFFICES ASSUME Init PROVE ViewInv OBVIOUS
<1>1. trace \in Source \cup {None} /\ timeline = trace BY DEF Init
<1>2. Min(Speed) \in Speed
  <2>1. Speed \in SUBSET Nat /\ Speed # {} OBVIOUS
  <2> QED BY <2>1, Least
<1>3. /\ shown = (EventsOf[trace] # {}) /\ view = (IF shown THEN trace ELSE None)
      /\ stats = view /\ now = (IF shown THEN TMin(trace) ELSE 0)
      /\ speed = Min(Speed) /\ playing = FALSE /\ timer = FALSE /\ panel = <<"empty">>
      BY DEF Init
<1>4. shown \in BOOLEAN /\ (shown => view = trace /\ stats = trace /\ EventsOf[trace] # {})
      BY <1>3
<1>5. now \in Int
  <2>1. CASE shown BY <1>1, <1>3, <1>4, <2>1, FirstInstant
  <2>2. CASE ~ shown BY <1>3, <2>2
  <2> QED BY <2>1, <2>2
<1>6. PanelFits(panel, trace, stats) /\ PanelLeft(panel, shown, selPkt, selNode)
      BY <1>3 DEF PanelFits, PanelLeft
<1> QED BY <1>1, <1>2, <1>3, <1>4, <1>5, <1>6 DEF ViewInv

(* Whichever traces are loaded, from wherever, in whatever order and with  *)
(* whatever selected, what the page shows is of the trace loaded last, and *)
(* a panel can be of another one only as that of a node left selected when *)
(* a trace without events came.                                            *)
(* (trace_viewer.py: _main_content, _sidebar_content, _load_saved_run)     *)
THEOREM OneTraceShown == Spec => []ViewMatches
<1>1. Init => ViewInv BY ViewStart
<1>2. ViewInv /\ [Next]_vars => ViewInv' BY ViewStep
<1>3. ViewInv => ViewMatches BY ViewShows
<1> QED BY <1>1, <1>2, <1>3, PTL DEF Spec

(* However it is chosen and whatever plays, a packet chosen stops the      *)
(* playback and leaves the time at the packet.                             *)
(* (trace_viewer.py: _select_packet, _jump_to_tx_id)                       *)
THEOREM SelectingPauses == Spec => SelectPauses
<1>1. Init => ViewInv BY ViewStart
<1>2. ViewInv /\ [Next]_vars => ViewInv' BY ViewStep
<1>3. ViewInv /\ [Next]_vars =>
        [selPkt' # None /\ selPkt' # selPkt /\ view # None =>
            ~ playing' /\ ~ timer' /\ now' = Packets[selPkt'].seen]_vars
  <2> SUFFICES ASSUME ViewInv, [Next]_vars, selPkt' # None, selPkt' # selPkt, view # None
               PROVE  ~ playing' /\ ~ timer' /\ now' = Packets[selPkt'].seen
      OBVIOUS
  <2>1. ASSUME NEW s \in Source, Show(s) PROVE FALSE
        BY <2>1 DEF Show, Main, selection
  <2>2. ASSUME NEW i, Pick(i)
        PROVE  ~ playing' /\ ~ timer' /\ now' = Packets[selPkt'].seen
    <3>1. i \in DOMAIN Packets /\ selPkt' = i
          BY <2>2 DEF Pick, SelectPacket, selection
    <3>2. playing' = FALSE /\ timer' = (timer /\ ~ playing) /\ now' = Packets[i].seen
          BY <2>2, <3>1 DEF Pick, SelectPacket
    <3>3. ~ timer' BY <3>2, Zenon DEF ViewInv
    <3> QED BY <3>1, <3>2, <3>3
  <2>3. ~ (\E t \in Int : Moves(t)) /\ ~ Redraws /\ ~ Rests /\ ~ MapInit
        BY DEF Moves, Redraws, Rests, MapInit, selection
  <2> QED BY <2>1, <2>2, <2>3, StepsAre
<1> QED BY <1>1, <1>2, <1>3, PTL DEF Spec, SelectPauses

-----------------------------------------------------------------------------
(* The map                                                                 *)

\* What is drawn is of the time and the filter there are now.
DrawnInv ==
    drawn # None =>
        /\ shown
        /\ drawn.time = now
        /\ drawn.active = Active(now, filter)
        /\ drawn.witnessed = Witnessed(now, filter)

\* The events shown depend on the trace and its time line, nothing else.
LEMMA SameEvents ==
    ASSUME Same
    PROVE  /\ Active(now, filter)' = Active(now', filter')
           /\ Witnessed(now, filter)' = Witnessed(now', filter')
<1>1. timeline' = timeline /\ Packets' = Packets BY DEF Same, Packets
<1> QED BY <1>1 DEF Active, Witnessed, EventsOf

LEMMA Redrawn ==
    ASSUME DrawnInv, Same, Draw
    PROVE  DrawnInv'
<1>1. shown' = shown BY DEF Same
<1>2. CASE drawn = None \/ ~ shown
  <2>1. drawn' = None BY <1>2 DEF Draw, DrawnInv
  <2> QED BY <2>1 DEF DrawnInv
<1>3. CASE drawn # None /\ shown
  <2>1. /\ drawn'.time = now'
        /\ drawn'.active = Active(now', filter')
        /\ drawn'.witnessed = Witnessed(now', filter')
        BY <1>3 DEF Draw, Overlay
  <2> QED BY <1>1, <1>3, <2>1, SameEvents DEF DrawnInv
<1> QED BY <1>2, <1>3

LEMMA LeftDrawn ==
    ASSUME DrawnInv, Same, UNCHANGED <<now, filter, drawn>>
    PROVE  DrawnInv'
<1>1. /\ Active(now, filter)' = Active(now, filter)
      /\ Witnessed(now, filter)' = Witnessed(now, filter)
      BY SameEvents
<1> QED BY <1>1 DEF DrawnInv, Same

LEMMA DrawnStep == ViewInv /\ DrawnInv /\ [Next]_vars => DrawnInv'
<1> SUFFICES ASSUME ViewInv, DrawnInv, [Next]_vars PROVE DrawnInv' OBVIOUS
<1>1. ASSUME NEW s \in Source, Show(s) PROVE DrawnInv'
      BY <1>1, ShowStep DEF DrawnInv
<1>2. ASSUME NEW i, Pick(i) PROVE DrawnInv'
  <2>1. Same /\ filter' = filter BY <1>2 DEF Pick, Same, loaded, built
  <2>2. UNCHANGED <<now, drawn>> \/ Draw
        BY <1>2 DEF Pick, SelectPacket, playback
  <2> QED BY <2>1, <2>2, Redrawn, LeftDrawn
<1>3. ASSUME NEW t \in Int, Moves(t) PROVE DrawnInv'
      BY <1>3, Redrawn, LeftDrawn DEF Moves
<1>4. CASE Redraws BY <1>4, Redrawn DEF Redraws
<1>5. CASE Rests BY <1>5, LeftDrawn DEF Rests
<1>6. CASE MapInit
  <2>1. Same /\ shown /\ UNCHANGED <<now, filter>>
        BY <1>6 DEF MapInit, Same, loaded, built, playback
  <2>2. /\ drawn'.time = now
        /\ drawn'.active = Active(now, filter)
        /\ drawn'.witnessed = Witnessed(now, filter)
        BY <1>6 DEF MapInit, Overlay
  <2> QED BY <2>1, <2>2, SameEvents DEF DrawnInv, Same
<1> QED BY <1>1, <1>2, <1>3, <1>4, <1>5, <1>6, StepsAre

\* A hop of a packet the filter lets through, among the records.
HopShown(i, h) ==
    /\ i \in DOMAIN Packets /\ h \in Range(Packets[i].hops)
    /\ Allowed(Packets[i], filter)

\* The hops of the trace are the hops of its time line.
LEMMA HopsShown ==
    ASSUME ViewInv, NEW e, e.kind = "hop"
    PROVE  e \in EventsOf[timeline] /\ Allowed(Packets[e.idx], filter)
             <=> \E i, h : HopShown(i, h) /\ e = EventOf("hop", i, h)
<1>1. EventsOf[timeline] = Events(Trace(trace)) BY DEF EventsOf, ViewInv
<1>2. \A i, h : EventOf("hop", i, h).idx = i BY DEF EventOf
<1>3. e \in EventsOf[timeline] <=>
        \E i \in DOMAIN Packets : \E h \in Range(Packets[i].hops) : e = EventOf("hop", i, h)
      BY <1>1, HopsAre DEF Packets
<1> QED BY <1>2, <1>3 DEF HopShown

LEMMA HopIs ==
    ASSUME ViewInv, NEW i, NEW h, HopShown(i, h)
    PROVE  /\ EventOf("hop", i, h) \in EventsOf[timeline]
           /\ Allowed(Packets[EventOf("hop", i, h).idx], filter)
           /\ EventOf("hop", i, h).kind = "hop"
           /\ EventOf("hop", i, h).sender = h.sender
           /\ EventOf("hop", i, h).receiver = h.receiver
           /\ EventOf("hop", i, h).t = h.t
           /\ h.t \in Nat
<1>1. /\ EventOf("hop", i, h).kind = "hop"
      /\ EventOf("hop", i, h).sender = h.sender
      /\ EventOf("hop", i, h).receiver = h.receiver
      /\ EventOf("hop", i, h).t = h.t
      BY DEF EventOf
<1>2. /\ EventOf("hop", i, h) \in EventsOf[timeline]
      /\ Allowed(Packets[EventOf("hop", i, h).idx], filter)
      BY <1>1, HopsShown
<1>3. h.t \in Nat BY <1>1, <1>2, EventsLie DEF ViewInv
<1> QED BY <1>1, <1>2, <1>3

\* A node on the map sends exactly if such a hop from it is near the time.
LEMMA Senders ==
    ASSUME ViewInv, NEW n
    PROVE  (\E f \in Flows(Active(now, filter)) : f[1] = n)
             <=> \E i, h : HopShown(i, h) /\ h.sender = n /\ h.t \in now - Window .. now + Window
<1>1. ASSUME NEW f \in Flows(Active(now, filter)), f[1] = n
      PROVE  \E i, h : HopShown(i, h) /\ h.sender = n /\ h.t \in now - Window .. now + Window
  <2>1. PICK e \in Active(now, filter) : e.kind = "hop" /\ f = <<e.sender, e.receiver>>
        BY <1>1 DEF Flows
  <2>2. /\ e \in EventsOf[timeline] /\ Near(e, now)
        /\ Allowed(Packets[e.idx], filter)
        BY <2>1 DEF Active
  <2>3. PICK i, h : HopShown(i, h) /\ e = EventOf("hop", i, h)
        BY <2>1, <2>2, HopsShown
  <2>4. e.sender = h.sender /\ e.t = h.t /\ h.t \in Nat BY <2>3, HopIs
  <2>5. h.t \in now - Window .. now + Window
        BY <2>2, <2>4 DEF Near, ViewInv
  <2>6. h.sender = n BY <1>1, <2>1, <2>4
  <2> QED BY <2>3, <2>5, <2>6
<1>2. ASSUME NEW i, NEW h, HopShown(i, h), h.sender = n,
             h.t \in now - Window .. now + Window
      PROVE  \E f \in Flows(Active(now, filter)) : f[1] = n
  <2> DEFINE e == EventOf("hop", i, h)
  <2>1. /\ e \in EventsOf[timeline] /\ Allowed(Packets[e.idx], filter)
        /\ e.kind = "hop" /\ e.sender = n /\ e.t = h.t /\ h.t \in Nat
        BY <1>2, HopIs
  <2> HIDE DEF e
  <2>2. Near(e, now) BY <1>2, <2>1 DEF Near, ViewInv
  <2>3. e \in Active(now, filter) BY <2>1, <2>2 DEF Active
  <2>4. <<e.sender, e.receiver>> \in Flows(Active(now, filter))
        BY <2>1, <2>3 DEF Flows
  <2> QED BY <2>1, <2>4
<1> QED BY <1>1, <1>2

LEMMA Reached ==
    ASSUME ViewInv, NEW n \in Witnessed(now, filter)
    PROVE  \E i, h : HopShown(i, h) /\ h.receiver = n /\ h.t <= now
<1>1. PICK e \in EventsOf[timeline] :
        /\ e.kind = "hop" /\ e.t <= now /\ Allowed(Packets[e.idx], filter)
        /\ n = e.receiver
      BY DEF Witnessed
<1>2. PICK i, h : HopShown(i, h) /\ e = EventOf("hop", i, h) BY <1>1, HopsShown
<1>3. e.receiver = h.receiver /\ e.t = h.t BY <1>2, HopIs
<1> QED BY <1>1, <1>2, <1>3

LEMMA MapShows == ViewInv /\ DrawnInv => MapShowsNow
<1> SUFFICES ASSUME ViewInv, DrawnInv, drawn # None PROVE MapShowsNow
    BY DEF MapShowsNow
<1>1. /\ drawn.time = now
      /\ drawn.active = Active(now, filter)
      /\ drawn.witnessed = Witnessed(now, filter)
      BY DEF DrawnInv
<1>2. ASSUME NEW n
      PROVE  Colour(drawn, n) = "sender" <=>
               \E i \in DOMAIN Packets : \E h \in Range(Packets[i].hops) :
                  /\ Allowed(Packets[i], filter)
                  /\ h.sender = n /\ h.t \in now - Window .. now + Window
  <2>1. Colour(drawn, n) = "sender" <=> \E f \in Flows(drawn.active) : f[1] = n
        BY DEF Colour
  <2> QED BY <1>1, <2>1, Senders DEF HopShown
<1>3. ASSUME NEW n, Colour(drawn, n) = "received"
      PROVE  \E i \in DOMAIN Packets : \E h \in Range(Packets[i].hops) :
                Allowed(Packets[i], filter) /\ h.receiver = n /\ h.t <= now
  <2>1. n \in drawn.witnessed BY <1>3 DEF Colour
  <2> QED BY <1>1, <2>1, Reached DEF HopShown
<1> QED BY <1>1, <1>2, <1>3 DEF MapShowsNow

(* Once the map is there it shows the time of the slider under the filter  *)
(* chosen: a node sends on it exactly if a packet let through has a hop    *)
(* from it within the window, and has received only what has arrived.      *)
(* (trace_viewer.py: _update_map_overlay)                                  *)
THEOREM MapIsOfNow == Spec => []MapShowsNow
<1>1. Init => ViewInv BY ViewStart
<1>2. Init => DrawnInv BY DEF Init, DrawnInv
<1>3. ViewInv /\ [Next]_vars => ViewInv' BY ViewStep
<1>4. ViewInv /\ DrawnInv /\ [Next]_vars => DrawnInv' BY DrawnStep
<1>5. ViewInv /\ DrawnInv => MapShowsNow BY MapShows
<1> QED BY <1>1, <1>2, <1>3, <1>4, <1>5, PTL DEF Spec

-----------------------------------------------------------------------------
(* The statistics                                                          *)

\* What maps each x of S to a member of D splits S.
LEMMA ClassesSplit ==
    ASSUME NEW S, NEW D, NEW c, \A x \in S : c[x] \in D
    PROVE  Split(S, [y \in D |-> {x \in S : c[x] = y}])
<1> DEFINE f == [y \in D |-> {x \in S : c[x] = y}]
<1>1. DOMAIN f = D /\ \A y \in D : f[y] = {x \in S : c[x] = y} OBVIOUS
<1> HIDE DEF f
<1>2. UNION Range(f) = S
  <2>1. ASSUME NEW x \in S PROVE x \in UNION Range(f)
    <3>1. x \in f[c[x]] /\ f[c[x]] \in Range(f) BY <1>1 DEF Range
    <3> QED BY <3>1
  <2>2. ASSUME NEW x \in UNION Range(f) PROVE x \in S
    <3>1. PICK y \in D : x \in f[y] BY <1>1 DEF Range
    <3> QED BY <1>1, <3>1
  <2> QED BY <2>1, <2>2
<1>3. \A y, z \in D : y # z => f[y] \cap f[z] = {} BY <1>1
<1>4. Split(S, f) BY <1>1, <1>2, <1>3 DEF Split
<1> QED BY <1>4 DEF f

LEMMA TracesFit ==
    ASSUME NEW s \in Source \cup {None}
    PROVE  OfTopology(Trace(s))
<1>1. CASE s = None
  <2>1. Range(<<>>) = {} /\ <<>> \in Seq({}) BY DEF Range
  <2>2. Trace(s).packets = <<>> BY <1>1 DEF Trace
  <2> QED BY <2>1, <2>2 DEF OfTopology
<1>2. CASE s # None BY <1>2 DEF Trace
<1> QED BY <1>1, <1>2

\* A packet of a trace, and a record of one.
LEMMA PacketIs ==
    ASSUME NEW tr, OfTopology(tr), NEW i \in DOMAIN tr.packets
    PROVE  /\ tr.packets[i].first \in Node
           /\ tr.packets[i].hops \in Seq(Recorded(tr))
<1>1. tr.packets[i] \in Range(tr.packets) BY DEF Range
<1> QED BY <1>1 DEF OfTopology

HopOf(tr, r) ==
    /\ {r.sender, r.receiver} \in Edge
    /\ r.sender \in Node /\ r.receiver \in Node
    /\ r.tx # NoTx => tr.tx[r.tx].sender = r.sender

LEMMA HopFits ==
    ASSUME NEW tr, OfTopology(tr), NEW i \in DOMAIN tr.packets,
           NEW k \in DOMAIN tr.packets[i].hops
    PROVE  HopOf(tr, tr.packets[i].hops[k])
<1> DEFINE r == tr.packets[i].hops[k]
<1>1. tr.packets[i] \in Range(tr.packets) BY DEF Range
<1>2. r \in Range(tr.packets[i].hops) BY DEF Range
<1>3. {r.sender, r.receiver} \in Edge /\ (r.tx # NoTx => tr.tx[r.tx].sender = r.sender)
      BY <1>1, <1>2 DEF OfTopology
<1>4. r \in Recorded(tr) BY PacketIs
<1> QED BY <1>3, <1>4 DEF Recorded, HopOf

LEMMA LossFits ==
    ASSUME NEW tr, OfTopology(tr), NEW i \in DOMAIN tr.packets
    PROVE  /\ \A k \in DOMAIN tr.packets[i].collisions :
                 tr.packets[i].collisions[k].receiver \in Node
           /\ \A k \in DOMAIN tr.packets[i].halfduplex :
                 tr.packets[i].halfduplex[k].receiver \in Node
<1>1. tr.packets[i] \in Range(tr.packets) BY DEF Range
<1>2. /\ tr.packets[i].collisions \in Seq(Lost(tr))
      /\ tr.packets[i].halfduplex \in Seq(Lost(tr))
      BY <1>1 DEF OfTopology
<1>3. /\ \A k \in DOMAIN tr.packets[i].collisions :
            tr.packets[i].collisions[k] \in Lost(tr)
      /\ \A k \in DOMAIN tr.packets[i].halfduplex :
            tr.packets[i].halfduplex[k] \in Lost(tr)
      BY <1>2
<1> QED BY <1>3 DEF Lost

LEMMA PlaceIs ==
    ASSUME NEW tr, NEW field, NEW x \in Places(tr, field)
    PROVE  x[1] \in DOMAIN tr.packets /\ x[2] \in DOMAIN tr.packets[x[1]][field]
BY DEF Places

\* Hops by edge and by type, packets by originator, losses by receiver.
LEMMA HopsByEdge ==
    ASSUME NEW tr, OfTopology(tr)
    PROVE  Split(Places(tr, "hops"), [e \in Edge |-> EdgeStats(tr, e).hops])
<1> DEFINE S == Places(tr, "hops")
           c == [x \in S |-> {Record(tr, "hops", x).sender, Record(tr, "hops", x).receiver}]
<1>1. \A x \in S : c[x] \in Edge
  <2> TAKE x \in S
  <2>1. x[1] \in DOMAIN tr.packets /\ x[2] \in DOMAIN tr.packets[x[1]].hops BY PlaceIs
  <2> QED BY <2>1, HopFits DEF Record, HopOf
<1>2. \A e \in Edge : EdgeStats(tr, e).hops = {x \in S : c[x] = e}
      BY DEF EdgeStats, Between
<1>3. [e \in Edge |-> EdgeStats(tr, e).hops] = [e \in Edge |-> {x \in S : c[x] = e}]
      BY <1>2
<1> HIDE DEF S, c
<1>4. Split(S, [e \in Edge |-> {x \in S : c[x] = e}]) BY <1>1, ClassesSplit
<1> QED BY <1>3, <1>4 DEF S

LEMMA HopsByType ==
    ASSUME NEW tr
    PROVE  Split(Places(tr, "hops"),
                 [y \in DOMAIN TraceStats(tr).byType |-> TraceStats(tr).byType[y].hops])
<1> DEFINE S == Places(tr, "hops")
           c == [x \in S |-> tr.packets[x[1]].type]
<1>1. \A x \in S : c[x] \in Types(tr) BY PlaceIs DEF Types, Range
<1>2. DOMAIN TraceStats(tr).byType = Types(tr) BY DEF TraceStats
<1>3. \A y \in Types(tr) : TraceStats(tr).byType[y].hops = {x \in S : c[x] = y}
      BY DEF TraceStats
<1>4. [y \in DOMAIN TraceStats(tr).byType |-> TraceStats(tr).byType[y].hops]
        = [y \in Types(tr) |-> {x \in S : c[x] = y}]
      BY <1>2, <1>3
<1> HIDE DEF S, c
<1>5. Split(S, [y \in Types(tr) |-> {x \in S : c[x] = y}]) BY <1>1, ClassesSplit
<1> QED BY <1>4, <1>5 DEF S

LEMMA PacketsByOrigin ==
    ASSUME NEW tr, OfTopology(tr)
    PROVE  Split(DOMAIN tr.packets, [n \in Node |-> NodeStats(tr, Node)[n].originated])
<1> DEFINE S == DOMAIN tr.packets
           c == [i \in S |-> tr.packets[i].first]
<1>1. \A i \in S : c[i] \in Node BY PacketIs
<1>2. \A n \in Node : NodeStats(tr, Node)[n].originated = {i \in S : c[i] = n}
      BY DEF NodeStats
<1>3. [n \in Node |-> NodeStats(tr, Node)[n].originated]
        = [n \in Node |-> {i \in S : c[i] = n}]
      BY <1>2
<1> HIDE DEF S, c
<1>4. Split(S, [n \in Node |-> {i \in S : c[i] = n}]) BY <1>1, ClassesSplit
<1> QED BY <1>3, <1>4 DEF S

LEMMA LossesByReceiver ==
    ASSUME NEW tr, OfTopology(tr)
    PROVE  /\ Split(Places(tr, "collisions"),
                    [n \in Node |-> NodeStats(tr, Node)[n].collisions])
           /\ Split(Places(tr, "halfduplex"),
                    [n \in Node |-> NodeStats(tr, Node)[n].halfduplex])
<1> DEFINE S == Places(tr, "collisions")
           c == [x \in S |-> Record(tr, "collisions", x).receiver]
           R == Places(tr, "halfduplex")
           d == [x \in R |-> Record(tr, "halfduplex", x).receiver]
<1>1. \A x \in S : c[x] \in Node
  <2> TAKE x \in S
  <2>1. x[1] \in DOMAIN tr.packets /\ x[2] \in DOMAIN tr.packets[x[1]].collisions BY PlaceIs
  <2> QED BY <2>1, LossFits DEF Record
<1>2. \A x \in R : d[x] \in Node
  <2> TAKE x \in R
  <2>1. x[1] \in DOMAIN tr.packets /\ x[2] \in DOMAIN tr.packets[x[1]].halfduplex BY PlaceIs
  <2> QED BY <2>1, LossFits DEF Record
<1>3. \A n \in Node : /\ NodeStats(tr, Node)[n].collisions = {x \in S : c[x] = n}
                      /\ NodeStats(tr, Node)[n].halfduplex = {x \in R : d[x] = n}
      BY DEF NodeStats
<1>4. /\ [n \in Node |-> NodeStats(tr, Node)[n].collisions]
           = [n \in Node |-> {x \in S : c[x] = n}]
      /\ [n \in Node |-> NodeStats(tr, Node)[n].halfduplex]
           = [n \in Node |-> {x \in R : d[x] = n}]
      BY <1>3
<1> HIDE DEF S, c, R, d
<1>5. /\ Split(S, [n \in Node |-> {x \in S : c[x] = n}])
      /\ Split(R, [n \in Node |-> {x \in R : d[x] = n}])
      BY <1>1, <1>2, ClassesSplit
<1> QED BY <1>4, <1>5 DEF S, R

\* A packet counts for a node exactly if a hop has the node at that end, and
\* then at one hop.
LEMMA CountsAre ==
    ASSUME NEW tr, OfTopology(tr), NEW end, NEW n
    PROVE  /\ OncePerPacket(Counted(tr, end, n))
           /\ \A i \in DOMAIN tr.packets :
                i \in Packed(Counted(tr, end, n)) <=>
                  \E k \in DOMAIN tr.packets[i].hops : tr.packets[i].hops[k][end] = n
           /\ Packed(Counted(tr, end, n)) \subseteq DOMAIN tr.packets
<1> DEFINE has(i, k) == tr.packets[i].hops[k][end] = n
           C == Counted(tr, end, n)
<1>1. ASSUME NEW i \in DOMAIN tr.packets
      PROVE  DOMAIN tr.packets[i].hops = 1 .. Len(tr.packets[i].hops)
             /\ Len(tr.packets[i].hops) \in Nat
      BY PacketIs
<1>2. \A x \in C : /\ x \in Places(tr, "hops") /\ has(x[1], x[2])
                    /\ \A j \in 1 .. x[2] - 1 : ~ has(x[1], j)
      BY DEF Counted, Record
<1>3. \A x \in C : /\ x[1] \in DOMAIN tr.packets
                    /\ x[2] \in DOMAIN tr.packets[x[1]].hops
                    /\ x = <<x[1], x[2]>>
      BY <1>2 DEF Places
<1>4. OncePerPacket(C)
  <2> SUFFICES ASSUME NEW x \in C, NEW y \in C, x[1] = y[1] PROVE x = y
      BY DEF OncePerPacket
  <2>1. x[2] \in Nat /\ y[2] \in Nat /\ x[2] >= 1 /\ y[2] >= 1 BY <1>1, <1>3
  <2>2. ~ (x[2] < y[2])
    <3>1. x[2] < y[2] => x[2] \in 1 .. y[2] - 1 BY <2>1
    <3>2. has(y[1], x[2]) BY <1>2
    <3> QED BY <1>2, <3>1, <3>2
  <2>3. ~ (y[2] < x[2])
    <3>1. y[2] < x[2] => y[2] \in 1 .. x[2] - 1 BY <2>1
    <3>2. has(x[1], y[2]) BY <1>2
    <3> QED BY <1>2, <3>1, <3>2
  <2>4. x[2] = y[2] BY <2>1, <2>2, <2>3
  <2> QED BY <1>3, <2>4
<1>5. ASSUME NEW i \in DOMAIN tr.packets, NEW k \in DOMAIN tr.packets[i].hops, has(i, k)
      PROVE  i \in Packed(C)
  <2> DEFINE S == {j \in DOMAIN tr.packets[i].hops : has(i, j)}
             m == Min(S)
  <2>1. S \in SUBSET Nat /\ S # {} BY <1>1, <1>5
  <2>2. m \in S /\ \A j \in S : m <= j BY <2>1, LeastOf
  <2>3. m \in DOMAIN tr.packets[i].hops /\ has(i, m) BY <2>2
  <2>4. m \in 1 .. Len(tr.packets[i].hops) /\ Len(tr.packets[i].hops) \in Nat BY <1>1, <2>3
  <2>5. ASSUME NEW j \in 1 .. m - 1 PROVE ~ has(i, j)
    <3> HIDE DEF m
    <3>1. j \in DOMAIN tr.packets[i].hops /\ ~ (m <= j) BY <1>1, <2>4
    <3> QED BY <2>2, <3>1
  <2> HIDE DEF m, S
  <2> DEFINE x == <<i, m>>
  <2>6. x \in Places(tr, "hops")
    <3>1. x \in {i} \X DOMAIN tr.packets[i]["hops"] BY <2>3
    <3> QED BY <3>1 DEF Places
  <2>7. x[1] = i /\ x[2] = m OBVIOUS
  <2> HIDE DEF x
  <2>8. x \in C BY <2>3, <2>5, <2>6, <2>7 DEF Counted, Record
  <2> QED BY <2>7, <2>8 DEF Packed
<1>6. ASSUME NEW i \in Packed(C)
      PROVE  /\ i \in DOMAIN tr.packets
             /\ \E k \in DOMAIN tr.packets[i].hops : has(i, k)
  <2>1. PICK x \in C : i = x[1] BY DEF Packed
  <2> QED BY <1>2, <1>3, <2>1
<1> HIDE DEF C
<1>7. Packed(C) \subseteq DOMAIN tr.packets BY <1>6
<1> QED BY <1>4, <1>5, <1>6, <1>7 DEF C

\* Who sends a packet is its originator or passes it on, and each counts once.
LEMMA SendersAre ==
    ASSUME NEW tr, OfTopology(tr), NEW n \in Node
    PROVE  LET st == NodeStats(tr, Node)[n]
           IN /\ st.originated \cap st.transited = {}
              /\ st.transited \subseteq Packed(st.tx)
              /\ Packed(st.tx) \subseteq st.originated \cup st.transited
              /\ Packed(st.rx) = {i \in DOMAIN tr.packets : n \in Receivers(tr.packets[i])}
              /\ OncePerPacket(st.tx) /\ OncePerPacket(st.rx)
<1> DEFINE st == NodeStats(tr, Node)[n]
           T == Counted(tr, "sender", n)
           R == Counted(tr, "receiver", n)
<1>1. /\ st.tx = T /\ st.rx = R
      /\ st.originated = {i \in DOMAIN tr.packets : tr.packets[i].first = n}
      /\ st.transited = {i \in DOMAIN tr.packets : Transits(tr.packets[i], n)}
      BY DEF NodeStats
<1>2. /\ OncePerPacket(T) /\ Packed(T) \subseteq DOMAIN tr.packets
      /\ \A i \in DOMAIN tr.packets : i \in Packed(T) <=>
            \E k \in DOMAIN tr.packets[i].hops : tr.packets[i].hops[k]["sender"] = n
      BY CountsAre
<1>3. /\ OncePerPacket(R) /\ Packed(R) \subseteq DOMAIN tr.packets
      /\ \A i \in DOMAIN tr.packets : i \in Packed(R) <=>
            \E k \in DOMAIN tr.packets[i].hops : tr.packets[i].hops[k]["receiver"] = n
      BY CountsAre
<1> HIDE DEF T, R, st
<1>4. \A i \in DOMAIN tr.packets : i \in Packed(T) <=> Sends(tr.packets[i], n)
      BY <1>2 DEF Sends, Range
<1>5. \A i \in DOMAIN tr.packets : i \in Packed(R) <=> n \in Receivers(tr.packets[i])
      BY <1>3 DEF Receivers, Range
<1>6. /\ st.originated \cap st.transited = {}
      /\ st.transited \subseteq Packed(T)
      /\ Packed(T) \subseteq st.originated \cup st.transited
      BY <1>1, <1>2, <1>4 DEF Transits
<1>7. Packed(R) = {i \in DOMAIN tr.packets : n \in Receivers(tr.packets[i])}
      BY <1>3, <1>5
<1> QED BY <1>1, <1>2, <1>3, <1>6, <1>7 DEF st

\* The transmission behind a relay delay is one of its packet.
LEMMA RelayTransits ==
    ASSUME NEW tr, OfTopology(tr), NEW d \in RelayDelays(tr)
    PROVE  d[1] \in NodeStats(tr, Node)[tr.tx[d[2]].sender].transited
<1> DEFINE p == tr.packets[d[1]]
           n == tr.tx[d[2]].sender
<1>1. /\ d[1] \in DOMAIN tr.packets /\ d[2] \in TxIds(p) /\ n # p.first
      BY DEF RelayDelays
<1>2. PICK k \in DOMAIN p.hops : p.hops[k].tx = d[2] /\ d[2] # NoTx
      BY <1>1 DEF TxIds, Range
<1>3. p.hops[k].sender = n /\ n \in Node
  <2>1. HopOf(tr, p.hops[k]) BY <1>1, <1>2, HopFits
  <2> QED BY <1>2, <2>1 DEF HopOf
<1>4. Sends(p, n) BY <1>3 DEF Sends, Range
<1>5. Transits(p, n) BY <1>1, <1>4 DEF Transits
<1> HIDE DEF n
<1>6. NodeStats(tr, Node)[n].transited
        = {i \in DOMAIN tr.packets : Transits(tr.packets[i], n)}
      BY <1>3 DEF NodeStats
<1>7. d[1] \in NodeStats(tr, Node)[n].transited BY <1>1, <1>5, <1>6
<1> QED BY <1>7 DEF n

-----------------------------------------------------------------------------
(* Broadcast steps                                                         *)

LEMMA SameStepIs ==
    ASSUME NEW p, NEW i, NEW j, NEW k
    PROVE  /\ SameStep(p, i, i)
           /\ SameStep(p, i, j) => SameStep(p, j, i)
           /\ SameStep(p, i, j) /\ SameStep(p, j, k) => SameStep(p, i, k)
BY DEF SameStep

\* A hop's step has a first hop, which leads it.
LEMMA HopIsLed ==
    ASSUME NEW tr, NEW p, p.hops \in Seq(Recorded(tr)), NEW j \in DOMAIN p.hops
    PROVE  \E i \in Leads(p) : SameStep(p, i, j)
<1> DEFINE S == {i \in DOMAIN p.hops : SameStep(p, i, j)}
<1>1. DOMAIN p.hops = 1 .. Len(p.hops) /\ Len(p.hops) \in Nat OBVIOUS
<1>2. S \in SUBSET Nat /\ j \in S BY <1>1, SameStepIs
<1>3. Min(S) \in S /\ \A i \in S : Min(S) <= i BY <1>2, LeastOf
<1> DEFINE m == Min(S)
<1> HIDE DEF m
<1>4. m \in DOMAIN p.hops /\ SameStep(p, m, j) BY <1>3 DEF m
<1>5. ASSUME NEW i \in 1 .. m - 1 PROVE ~ SameStep(p, i, m)
  <2>1. i \in DOMAIN p.hops /\ i < m BY <1>1, <1>4
  <2>2. SameStep(p, i, m) => i \in S BY <1>4, <2>1, SameStepIs
  <2>3. i \notin S
    <3>1. i \in S => m <= i BY <1>3 DEF m
    <3> QED BY <1>1, <1>4, <2>1, <3>1
  <2> QED BY <2>2, <2>3
<1> QED BY <1>4, <1>5 DEF Leads

LEMMA LeadsDiffer ==
    ASSUME NEW tr, NEW p, p.hops \in Seq(Recorded(tr)),
           NEW i \in Leads(p), NEW k \in Leads(p), SameStep(p, i, k)
    PROVE  i = k
<1>1. i \in Nat \ {0} /\ k \in Nat \ {0} BY DEF Leads
<1>2. ~ (i < k)
  <2>1. i < k => i \in 1 .. k - 1 BY <1>1
  <2> QED BY <2>1 DEF Leads
<1>3. ~ (k < i)
  <2>1. k < i => k \in 1 .. i - 1 BY <1>1
  <2>2. SameStep(p, k, i) BY SameStepIs
  <2> QED BY <2>1, <2>2 DEF Leads
<1> QED BY <1>1, <1>2, <1>3

\* The steps split the hops, in the order of their first hops.
LEMMA StepsSplit ==
    ASSUME NEW tr, NEW p, p.hops \in Seq(Recorded(tr))
    PROVE  /\ Split(DOMAIN p.hops, Steps(p))
           /\ \A k \in DOMAIN Steps(p) : Min(Steps(p)[k]) = k /\ k \in Nat
<1> DEFINE D == DOMAIN p.hops
           c == [j \in D |-> CHOOSE i \in Leads(p) : SameStep(p, i, j)]
<1>1. ASSUME NEW j \in D
      PROVE  c[j] \in Leads(p) /\ SameStep(p, c[j], j)
      BY HopIsLed
<1>2. ASSUME NEW i \in Leads(p), NEW j \in D
      PROVE  SameStep(p, i, j) <=> c[j] = i
  <2>1. SameStep(p, i, j) => SameStep(p, i, c[j])
        BY <1>1, SameStepIs
  <2> QED BY <1>1, <2>1, LeadsDiffer
<1> HIDE DEF c
<1>3. Steps(p) = [i \in Leads(p) |-> {j \in D : c[j] = i}]
      BY <1>2 DEF Steps
<1>4. Split(D, Steps(p)) BY <1>1, <1>3, ClassesSplit
<1>5. ASSUME NEW k \in DOMAIN Steps(p)
      PROVE  Min(Steps(p)[k]) = k /\ k \in Nat
  <2>1. D = 1 .. Len(p.hops) /\ Len(p.hops) \in Nat OBVIOUS
  <2>2. k \in Leads(p) /\ Steps(p)[k] = {j \in D : SameStep(p, k, j)} BY DEF Steps
  <2>3. k \in D BY <2>2 DEF Leads
  <2> DEFINE S == {j \in D : SameStep(p, k, j)}
             m == Min(S)
  <2>4. S \in SUBSET Nat /\ k \in S BY <2>1, <2>3, SameStepIs
  <2>5. m \in S /\ m <= k BY <2>4, LeastOf
  <2> HIDE DEF m
  <2>6. m \in D /\ SameStep(p, m, k) BY <2>5, SameStepIs
  <2>7. ~ (m < k)
    <3>1. m < k => m \in 1 .. k - 1 BY <2>1, <2>3, <2>6
    <3> QED BY <2>2, <2>6, <3>1 DEF Leads
  <2>8. m = k BY <2>1, <2>3, <2>5, <2>6, <2>7
  <2> QED BY <2>1, <2>2, <2>3, <2>8 DEF m
<1> QED BY <1>4, <1>5

\* One sender to a step: a transmission has one.
LEMMA StepHasSender ==
    ASSUME NEW tr, OfTopology(tr), NEW i \in DOMAIN tr.packets,
           NEW k \in DOMAIN Steps(tr.packets[i])
    PROVE  Cardinality({tr.packets[i].hops[j].sender : j \in Steps(tr.packets[i])[k]}) = 1
<1> DEFINE p == tr.packets[i]
           s == p.hops[k].sender
           S == Steps(p)[k]
<1>1. k \in DOMAIN p.hops /\ S = {j \in DOMAIN p.hops : SameStep(p, k, j)}
      BY DEF Steps, Leads
<1>2. k \in S BY <1>1, SameStepIs
<1>3. ASSUME NEW j \in S PROVE p.hops[j].sender = s
  <2>1. j \in DOMAIN p.hops /\ SameStep(p, k, j) BY <1>1
  <2>2. CASE j = k BY <2>2
  <2>3. CASE p.hops[k].tx = p.hops[j].tx /\ p.hops[k].tx # NoTx
    <3>1. HopOf(tr, p.hops[k]) /\ HopOf(tr, p.hops[j]) BY <1>1, <2>1, HopFits
    <3> QED BY <2>3, <3>1 DEF HopOf
  <2> QED BY <2>1, <2>2, <2>3 DEF SameStep
<1>4. {p.hops[j].sender : j \in S} = {s} BY <1>2, <1>3
<1> QED BY <1>4, FS_Singleton

LEMMA StatsAre == ViewInv => StatsAgree
<1> SUFFICES ASSUME ViewInv PROVE StatsAgree OBVIOUS
<1> DEFINE tr == Trace(trace)
<1>1. OfTopology(tr) BY TracesFit DEF ViewInv
<1>2. /\ TraceStats(tr).hops = Places(tr, "hops")
      /\ TraceStats(tr).packets = DOMAIN tr.packets
      /\ TraceStats(tr).collisions = Places(tr, "collisions")
      /\ TraceStats(tr).halfduplex = Places(tr, "halfduplex")
      BY DEF TraceStats
<1> HIDE DEF tr
<1>3. ASSUME NEW i \in DOMAIN tr.packets
      PROVE  LET p == tr.packets[i]
                 steps == Steps(p)
             IN /\ Split(DOMAIN p.hops, steps)
                /\ \A k, m \in DOMAIN steps : k < m => Min(steps[k]) < Min(steps[m])
                /\ \A k \in DOMAIN steps :
                     Cardinality({p.hops[j].sender : j \in steps[k]}) = 1
  <2>1. tr.packets[i].hops \in Seq(Recorded(tr)) BY <1>1, PacketIs
  <2> DEFINE p == tr.packets[i]
             steps == Steps(p)
  <2>2. /\ Split(DOMAIN p.hops, steps)
        /\ \A k \in DOMAIN steps : Min(steps[k]) = k /\ k \in Nat
        BY <2>1, StepsSplit
  <2>3. \A k \in DOMAIN steps : Cardinality({p.hops[j].sender : j \in steps[k]}) = 1
        BY <1>1, StepHasSender
  <2> HIDE DEF steps
  <2>4. \A k, m \in DOMAIN steps : k < m => Min(steps[k]) < Min(steps[m]) BY <2>2
  <2> QED BY <2>2, <2>3, <2>4 DEF steps
<1>4. \A n \in Node :
         LET ns == NodeStats(tr, Node)
         IN /\ ns[n].originated \cap ns[n].transited = {}
            /\ ns[n].transited \subseteq Packed(ns[n].tx)
            /\ Packed(ns[n].tx) \subseteq ns[n].originated \cup ns[n].transited
            /\ Packed(ns[n].rx) = {i \in DOMAIN tr.packets : n \in Receivers(tr.packets[i])}
            /\ OncePerPacket(ns[n].tx) /\ OncePerPacket(ns[n].rx)
      BY <1>1, SendersAre
<1>5. \A d \in RelayDelays(tr) : d[1] \in NodeStats(tr, Node)[tr.tx[d[2]].sender].transited
      BY <1>1, RelayTransits
<1>6. /\ Split(TraceStats(tr).hops, [e \in Edge |-> EdgeStats(tr, e).hops])
      /\ Split(TraceStats(tr).hops,
               [y \in DOMAIN TraceStats(tr).byType |-> TraceStats(tr).byType[y].hops])
      /\ Split(TraceStats(tr).packets, [n \in Node |-> NodeStats(tr, Node)[n].originated])
      /\ Split(TraceStats(tr).collisions, [n \in Node |-> NodeStats(tr, Node)[n].collisions])
      /\ Split(TraceStats(tr).halfduplex, [n \in Node |-> NodeStats(tr, Node)[n].halfduplex])
      BY <1>1, <1>2, HopsByEdge, HopsByType, PacketsByOrigin, LossesByReceiver
<1> QED BY <1>3, <1>4, <1>5, <1>6, Zenon DEF StatsAgree, tr

(* Of every trace the tracer can write, nothing is counted twice or left   *)
(* out: hops by edge and by type, packets by originator, by sender and by  *)
(* receiver, losses by receiver, hops by broadcast step, each step of one  *)
(* sender; and a relay delay belongs to a node the packet passed through.  *)
(* (trace_loader.py: broadcast_steps, compute_node_trace_stats,            *)
(* compute_edge_trace_stats, compute_trace_stats; tracer.py:               *)
(* compute_relay_delays)                                                   *)
THEOREM NothingCountedTwice == Spec => []StatsAgree
<1>1. Init => ViewInv BY ViewStart
<1>2. ViewInv /\ [Next]_vars => ViewInv' BY ViewStep
<1>3. ViewInv => StatsAgree BY StatsAre
<1> QED BY <1>1, <1>2, <1>3, PTL DEF Spec
-----------------------------------------------------------------------------
(* The end of a trace                                                      *)

\* Finitely many naturals have an upper bound.
LEMMA Bounded ==
    ASSUME NEW f, NEW n \in Nat, \A i \in 1 .. n : f[i] \in Nat
    PROVE  \E b \in Nat : \A i \in 1 .. n : f[i] <= b
<1> DEFINE P(k) == \E b \in Nat : \A i \in 1 .. k : f[i] <= b
           S == {k \in 0 .. n : ~ P(k)}
<1>1. P(0) OBVIOUS
<1>2. ASSUME NEW k \in 1 .. n, P(k - 1) PROVE P(k)
  <2>1. PICK b \in Nat : \A i \in 1 .. k - 1 : f[i] <= b BY <1>2
  <2>2. f[k] \in Nat OBVIOUS
  <2>3. PICK c \in Nat : b <= c /\ f[k] <= c
    <3>1. b + f[k] \in Nat /\ b <= b + f[k] /\ f[k] <= b + f[k] BY <2>2
    <3> QED BY <3>1
  <2>4. ASSUME NEW i \in 1 .. k PROVE f[i] <= c
    <3>1. CASE i = k BY <2>3, <3>1
    <3>2. CASE i \in 1 .. k - 1
      <4>1. f[i] \in Nat /\ f[i] <= b BY <2>1, <3>2
      <4> QED BY <2>3, <4>1
    <3> QED BY <3>1, <3>2
  <2> QED BY <2>4
<1> HIDE DEF P
<1>3. ASSUME S # {} PROVE FALSE
  <2>1. S \in SUBSET Nat OBVIOUS
  <2> DEFINE m == Min(S)
  <2>2. m \in S /\ \A k \in S : m <= k BY <1>3, <2>1, LeastOf
  <2> HIDE DEF m
  <2>3. m \in 1 .. n /\ ~ P(m) BY <1>1, <2>2
  <2>4. m - 1 \notin S /\ m - 1 \in 0 .. n BY <2>2, <2>3
  <2>5. P(m - 1) BY <2>4
  <2> QED BY <1>2, <2>3, <2>5
<1>4. n \notin S /\ n \in 0 .. n BY <1>3
<1>5. P(n) BY <1>4
<1> QED BY <1>5 DEF P

\* A bounded non-empty set of naturals has a greatest member.
LEMMA GreatestOf ==
    ASSUME NEW S \in SUBSET Nat, S # {}, NEW b \in Nat, \A n \in S : n <= b
    PROVE  Max(S) \in S /\ \A n \in S : n <= Max(S)
<1> DEFINE U == {u \in Nat : \A n \in S : n <= u}
           m == Min(U)
<1>1. U \in SUBSET Nat /\ b \in U OBVIOUS
<1>2. m \in U /\ \A u \in U : m <= u BY <1>1, LeastOf
<1> HIDE DEF m
<1>3. m \in Nat /\ \A n \in S : n <= m BY <1>2
<1>4. m \in S
  <2> SUFFICES ASSUME m \notin S PROVE FALSE OBVIOUS
  <2>1. \A n \in S : n \in Nat /\ n < m BY <1>3
  <2>2. PICK n \in S : TRUE OBVIOUS
  <2>3. m - 1 \in Nat BY <1>3, <2>1, <2>2
  <2>4. m - 1 \in U BY <1>3, <2>1, <2>3
  <2> QED BY <1>2, <1>3, <2>4
<1>5. \E x \in S : \A y \in S : x >= y BY <1>3, <1>4
<1>6. Max(S) \in S /\ \A y \in S : Max(S) >= y BY <1>5, Zenon DEF Max
<1> QED BY <1>6

\* Of a list of records the last instant.
LEMMA ListEnds ==
    ASSUME NEW T, NEW rs \in Seq(T), \A r \in T : r.t \in Nat
    PROVE  \E b \in Nat : \A r \in Range(rs) : r.t <= b
<1> DEFINE f == [k \in 1 .. Len(rs) |-> rs[k].t]
<1>1. Len(rs) \in Nat /\ DOMAIN rs = 1 .. Len(rs) /\ \A k \in 1 .. Len(rs) : rs[k] \in T
      OBVIOUS
<1>2. \A k \in 1 .. Len(rs) : f[k] = rs[k].t /\ f[k] \in Nat BY <1>1
<1> HIDE DEF f
<1>3. PICK b \in Nat : \A k \in 1 .. Len(rs) : f[k] <= b BY <1>1, <1>2, Bounded
<1>4. ASSUME NEW r \in Range(rs) PROVE r.t <= b
  <2>1. PICK k \in 1 .. Len(rs) : r = rs[k] BY <1>1 DEF Range
  <2> QED BY <1>2, <1>3, <2>1
<1> QED BY <1>4

\* The records of packet i of a trace, and that none is after b.
RecordsOf(tr, i) ==
    Range(tr.packets[i].hops) \cup Range(tr.packets[i].collisions)
        \cup Range(tr.packets[i].halfduplex)
EndsBy(tr, i, b) == \A r \in RecordsOf(tr, i) : r.t <= b

LEMMA PacketEnds ==
    ASSUME NEW tr, OfTopology(tr), NEW i \in DOMAIN tr.packets
    PROVE  /\ \A r \in RecordsOf(tr, i) : r.t \in Nat
           /\ \E b \in Nat : EndsBy(tr, i, b)
<1> DEFINE p == tr.packets[i]
<1>1. p \in Range(tr.packets) BY DEF Range
<1>2. /\ p.hops \in Seq(Recorded(tr))
      /\ p.collisions \in Seq(Lost(tr)) /\ p.halfduplex \in Seq(Lost(tr))
      BY <1>1 DEF OfTopology
<1> HIDE DEF p
<1>3. (\A r \in Recorded(tr) : r.t \in Nat) /\ (\A r \in Lost(tr) : r.t \in Nat)
      BY DEF Recorded, Lost
<1>4. PICK b1 \in Nat : \A r \in Range(p.hops) : r.t <= b1 BY <1>2, <1>3, ListEnds
<1>5. PICK b2 \in Nat : \A r \in Range(p.collisions) : r.t <= b2 BY <1>2, <1>3, ListEnds
<1>6. PICK b3 \in Nat : \A r \in Range(p.halfduplex) : r.t <= b3 BY <1>2, <1>3, ListEnds
<1>7. /\ Range(p.hops) \subseteq Recorded(tr)
      /\ Range(p.collisions) \subseteq Lost(tr) /\ Range(p.halfduplex) \subseteq Lost(tr)
      BY <1>2 DEF Range
<1>8. \A r \in RecordsOf(tr, i) : r.t \in Nat BY <1>3, <1>7 DEF RecordsOf, p
<1>9. ASSUME NEW r \in RecordsOf(tr, i) PROVE r.t <= b1 + b2 + b3
  <2>1. r.t <= b1 \/ r.t <= b2 \/ r.t <= b3 BY <1>4, <1>5, <1>6 DEF RecordsOf, p
  <2>2. r.t \in Nat BY <1>8
  <2> QED BY <2>1, <2>2
<1>10. b1 + b2 + b3 \in Nat OBVIOUS
<1> QED BY <1>8, <1>9, <1>10 DEF EndsBy

\* A trace with events has a first and a last instant, and they lie between.
LEMMA Instants ==
    ASSUME NEW s \in Source \cup {None}, EventsOf[s] # {}
    PROVE  /\ TMin(s) \in Nat /\ TMax(s) \in Nat
           /\ \A e \in EventsOf[s] : TMin(s) <= e.t /\ e.t <= TMax(s)
<1> DEFINE tr == Trace(s)
           S == {e.t : e \in EventsOf[s]}
<1>1. OfTopology(tr) BY TracesFit
<1> HIDE DEF tr
<1>2. S \in SUBSET Nat /\ S # {} BY EventsLie
<1>3. ASSUME NEW e \in EventsOf[s]
      PROVE  e.idx \in DOMAIN tr.packets /\ \E r \in RecordsOf(tr, e.idx) : e.t = r.t
  <2>1. e \in Events(tr) BY DEF EventsOf, tr
  <2>2. PICK i \in DOMAIN tr.packets :
                \/ \E r \in Range(tr.packets[i].hops) : e = EventOf("hop", i, r)
                \/ \E r \in Range(tr.packets[i].collisions) : e = EventOf("collision", i, r)
                \/ \E r \in Range(tr.packets[i].halfduplex) : e = EventOf("halfduplex", i, r)
        BY <2>1, EventsAre
  <2> QED BY <2>2 DEF EventOf, RecordsOf
<1> DEFINE f == [i \in 1 .. Len(tr.packets) |-> CHOOSE b \in Nat : EndsBy(tr, i, b)]
<1>4. DOMAIN tr.packets = 1 .. Len(tr.packets) /\ Len(tr.packets) \in Nat
      BY <1>1 DEF OfTopology
<1>5. ASSUME NEW i \in 1 .. Len(tr.packets) PROVE f[i] \in Nat /\ EndsBy(tr, i, f[i])
  <2>1. \E b \in Nat : EndsBy(tr, i, b) BY <1>1, <1>4, PacketEnds
  <2> QED BY <2>1
<1> HIDE DEF f
<1>6. PICK b \in Nat : \A i \in 1 .. Len(tr.packets) : f[i] <= b BY <1>4, <1>5, Bounded
<1>7. ASSUME NEW e \in EventsOf[s] PROVE e.t <= b
  <2>1. e.t \in Nat BY EventsLie
  <2>2. e.idx \in 1 .. Len(tr.packets) /\ e.t <= f[e.idx]
        BY <1>3, <1>4, <1>5 DEF EndsBy
  <2> QED BY <1>5, <1>6, <2>1, <2>2
<1>8. \A t \in S : t <= b BY <1>7
<1>9. /\ Min(S) \in S /\ \A t \in S : Min(S) <= t
      /\ Max(S) \in S /\ \A t \in S : t <= Max(S)
      BY <1>2, <1>8, LeastOf, GreatestOf
<1>10. \A e \in EventsOf[s] : e.t \in S OBVIOUS
<1> HIDE DEF S
<1> QED BY <1>2, <1>9, <1>10 DEF TMin, TMax, S

-----------------------------------------------------------------------------
(* Playback                                                                *)

\* A tick passes nothing over: an event ahead of the time is near enough to be
\* shown, or the tick brings the time closer to it, and not past it. The fastest
\* playback moves half the window's width with a tick (trace_viewer.py,
\* _advance_time), and the time starts again only after the last event.
NonePassedOver ==
    [][Tick => \A e \in EventsOf[view] :
                 now <= e.t => Near(e, now) \/ (now < now' /\ now' <= e.t)]_vars

(* Playback passes no event over, at any speed and wherever it starts      *)
(* again: what is left of PlaybackShows is that the timer ticks.           *)
(* (trace_viewer.py: _advance_time, _update_map_overlay)                   *)
THEOREM PlaybackPassesNothingOver == Spec => NonePassedOver
<1>1. Init => ViewInv BY ViewStart
<1>2. ViewInv /\ [Next]_vars => ViewInv' BY ViewStep
<1>3. ViewInv /\ [Next]_vars =>
        [Tick => \A e \in EventsOf[view] :
            now <= e.t => Near(e, now) \/ (now < now' /\ now' <= e.t)]_vars
  <2> SUFFICES ASSUME ViewInv, Tick, NEW e \in EventsOf[view], now <= e.t, ~ Near(e, now)
               PROVE  now < now' /\ now' <= e.t
      OBVIOUS
  <2>1. timer /\ now' = (IF now + speed > TMax(view) THEN TMin(view) ELSE now + speed)
        BY DEF Tick, MoveTo
  <2>2. view = trace /\ EventsOf[view] # {} /\ view \in Source \cup {None}
        BY <2>1 DEF ViewInv
  <2>3. e.t \in Nat /\ e.t <= TMax(view) /\ TMax(view) \in Nat
        BY <2>2, EventsLie, Instants
  <2>4. now \in Int /\ speed \in 1 .. Window /\ Window \in Nat
        BY DEF ViewInv
  <2>5. e.t > now + Window BY <2>3, <2>4 DEF Near
  <2>6. now' = now + speed BY <2>1, <2>3, <2>4, <2>5
  <2> QED BY <2>3, <2>4, <2>5, <2>6
<1> QED BY <1>1, <1>2, <1>3, PTL DEF Spec, NonePassedOver
=============================================================================
