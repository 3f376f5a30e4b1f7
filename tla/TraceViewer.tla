---------------------------- MODULE TraceViewer ----------------------------
(***************************************************************************)
(* The trace viewer of one session (workbench/trace_viewer.py): the run    *)
(* selector, the packet table and detail panel of the sidebar, the map     *)
(* with its overlay, and playback.                                         *)
(*                                                                         *)
(* The page is rebuilt in parts: main (map, time line) and sidebar are     *)
(* refreshed when a trace is loaded, the detail panel when something is    *)
(* selected, the map's overlay when the time changes. Each part shows what *)
(* the session's fields were when it was last rebuilt, so fields and parts *)
(* are separate variables here. Time is in quarters of a second: at most   *)
(* 10x, a tick of 0.05 s moves the time by 0.5 s, half the window.         *)
(***************************************************************************)
EXTENDS TraceData

CONSTANTS
    Node,       \* the topology's nodes
    Edge,       \* and edges, sets of two nodes
    Source,     \* where traces come from: saved runs, simulations, command line
    Content,    \* [Source -> trace]
    Cli,        \* the source that is not a run
    Saved,      \* the runs in the output directory at the start
    None,
    Speed,      \* steps of a tick
    Window,     \* WINDOW_SECS
    MaxAct      \* bound: what the user and the simulation do

\* A trace of the topology: its hops lie on edges, and one that names a
\* transmission, known to the tracer, is of its sender.
Recorded(tr) ==
    [t : Nat, sender : Node, receiver : Node, tx : DOMAIN tr.tx \cup {NoTx}]
Lost(tr) ==
    [t : Nat, sender : Node, receiver : Node,
     tx : DOMAIN tr.tx \cup {NoTx}, other : DOMAIN tr.tx \cup {NoTx}]
OfTopology(tr) ==
    /\ tr.packets \in Seq(Range(tr.packets))
    /\ \A p \in Range(tr.packets) :
          /\ p.seen \in Nat /\ p.first \in Node
          /\ p.hops \in Seq(Recorded(tr))
          /\ p.collisions \in Seq(Lost(tr)) /\ p.halfduplex \in Seq(Lost(tr))
          /\ \A r \in Range(p.hops) :
                /\ {r.sender, r.receiver} \in Edge
                /\ r.tx # NoTx => tr.tx[r.tx].sender = r.sender

ASSUME ViewerAssumption ==
    /\ Saved \subseteq Source \ {Cli} /\ Cli \in Source /\ None \notin Source
    /\ \A e \in Edge : e \subseteq Node /\ Cardinality(e) = 2
    /\ {Window, MaxAct} \subseteq Nat
    /\ Speed \subseteq 1 .. Window /\ Speed # {}
    /\ \A s \in Source : OfTopology(Content[s])

VARIABLES
    trace,      \* whose trace state.trace is, None without one
    runDir,     \* state._current_run_dir
    runs,       \* state._available_runs
    timeline,   \* whose events state.event_timeline has
    stats,      \* whose _node_trace_stats and _edge_trace_stats are kept
    view,       \* whose trace state._trace_ui was built for
    shown,      \* its elements are on the page
    now,        \* state.current_time, and the slider's value
    speed, playing,
    timer,      \* the view's timer is active
    filter,     \* state.type_filter
    selPkt, selNode,
    waterfall,  \* state._waterfall_visible
    picked,     \* the run selector's value
    offered,    \* the types the filter's control offers
    panel,      \* what the detail panel shows
    drawn,      \* what the map's overlay shows, None before the map is there
    acts

loaded == <<trace, runDir, runs>>
built == <<timeline, stats, view, shown>>
playback == <<now, speed, playing, timer>>
selection == <<selPkt, selNode>>
sidebar == <<picked, offered>>
vars == <<loaded, built, playback, filter, selection, waterfall, sidebar, panel, drawn, acts>>

Trace(s) == IF s = None THEN [packets |-> <<>>, tx |-> <<>>] ELSE Content[s]
Packets == Trace(trace).packets
EventsOf == [s \in Source \cup {None} |-> Events(Trace(s))]
TMin(s) == Min({e.t : e \in EventsOf[s]})
TMax(s) == Max({e.t : e \in EventsOf[s]})
Act == acts < MaxAct /\ acts' = acts + 1

-----------------------------------------------------------------------------
(* _update_map_overlay *)

Allowed(p, f) == f = None \/ p.type \in f

\* The events of the session's time line near the time, by what the filter
\* lets through of their packets; nodes that have received until now.
Near_instant(e, t) == t = e.t
Near(e, t) == t <= e.t + Window /\ e.t <= t + Window

Active_unfiltered(t, f) == {e \in EventsOf[timeline] : Near(e, t)}
Active(t, f) == {e \in EventsOf[timeline] : Near(e, t) /\ Allowed(Packets[e.idx], f)}

Witnessed(t, f) == {e.receiver : e \in {x \in EventsOf[timeline] :
                        x.kind = "hop" /\ x.t <= t /\ Allowed(Packets[x.idx], f)}}

\* The journey of the selected packet: its steps and where it was lost.
Journey(i) ==
    IF i \notin DOMAIN Packets THEN None
    ELSE [pkt |-> i, steps |-> Steps(Packets[i]),
          lost |-> {<<r.sender, r.receiver>> :
                      r \in Range(Packets[i].collisions) \cup Range(Packets[i].halfduplex)}]

\* tx_id_to_step: the step of each transmission of the selected packet, 0 where
\* it only collided.
StepOf(i) ==
    IF i \notin DOMAIN Packets THEN <<>>
    ELSE LET p == Packets[i]
             steps == Steps(p)
         IN [x \in TxIds(p) \cup {r.tx : r \in Range(p.collisions)} |->
              IF x \in TxIds(p)
              THEN CHOOSE k \in DOMAIN steps : \E j \in steps[k] : p.hops[j].tx = x ELSE 0]

\* rx_outcomes: what became of a transmission at a node.
Outcome(tr, x, n) ==
    LET lost(field) == \E p \in Range(tr.packets) : \E r \in Range(p[field]) : r.tx = x /\ r.receiver = n
    IN IF lost("halfduplex") THEN "halfduplex" ELSE IF lost("collisions") THEN "collision" ELSE "none"

\* The waterfall's bars: the transmissions near the time, in the row of each
\* neighbour of the sender and in the sender's own.
Bars(tr, t) ==
    LET near == {x \in DOMAIN tr.tx : /\ tr.tx[x].end + 4 * Window >= t
                                      /\ tr.tx[x].start <= t + 4 * Window}
    IN {y \in near \X Node : \/ {tr.tx[y[1]].sender, y[2]} \in Edge
                             \/ tr.tx[y[1]].sender = y[2]}

\* A node that hears none of them gets no row.
Rows(tr, t) ==
    LET heard == {y \in Bars(tr, t) : tr.tx[y[1]].sender # y[2]}
    IN {y \in Bars(tr, t) : \E z \in heard : z[2] = y[2]}

\* A bar in another node's row is marked as a step of the selected packet
\* before its outcome there.
Waterfall(t, i) ==
    LET tr == Trace(trace)
        step == StepOf(i)
    IN [y \in Rows(tr, t) |->
          IF tr.tx[y[1]].sender = y[2] THEN "own"
          ELSE IF y[1] \in DOMAIN step THEN "step" ELSE Outcome(tr, y[1], y[2])]

\* The flow lines, from senders to receivers.
Flows(active) == {<<e.sender, e.receiver>> : e \in {x \in active : x.kind = "hop"}}

\* A node on the map is coloured by the first of these that holds.
Colour(d, n) ==
    LET flows == Flows(d.active)
    IN IF \E f \in flows : f[1] = n THEN "sender"
       ELSE IF \E f \in flows : f[2] = n THEN "receiver"
       ELSE IF n \in d.witnessed THEN "received" ELSE "role"

Overlay(t, f, i, n, w) ==
    [time |-> t, active |-> Active(t, f), witnessed |-> Witnessed(t, f),
     journey |-> Journey(i), ring |-> n, bars |-> IF w THEN Waterfall(t, i) ELSE <<>>]

\* The overlay is drawn in the browser, once its map is there.
Draw ==
    drawn' = IF drawn = None \/ ~shown THEN drawn
             ELSE Overlay(now', filter', selPkt', selNode', waterfall')

MapInit ==
    /\ shown /\ drawn = None
    /\ drawn' = Overlay(now, filter, selPkt, selNode, waterfall)
    /\ UNCHANGED <<loaded, built, playback, filter, selection, waterfall, sidebar, panel, acts>>

-----------------------------------------------------------------------------
(* Loading a trace *)

\* _render_detail_panel: a packet goes before a node. What it lists of a node
\* comes from the statistics kept.
Panel(ps, i, n, st) ==
    IF i \in DOMAIN ps THEN <<"packet", i>>
    ELSE IF i = None /\ n # None /\ ps # <<>> THEN <<"node", n, st>>
    ELSE <<"empty">>

\* _main_content. A trace without events gets no view, and leaves the last
\* one's fields behind; the elements of the last one go in either case, its
\* timer with them.
Main_keepsStats(s) ==
    /\ timeline' = s /\ drawn' = None /\ timer' = FALSE
    /\ IF EventsOf[s] = {}
       THEN shown' = FALSE /\ UNCHANGED <<stats, view, now, selection>>
       ELSE /\ shown' = TRUE /\ view' = s /\ UNCHANGED stats
            /\ now' = TMin(s)
            /\ selPkt' = None /\ selNode' = None
Main(s) ==
    /\ timeline' = s /\ drawn' = None /\ timer' = FALSE
    /\ IF EventsOf[s] = {}
       THEN shown' = FALSE /\ UNCHANGED <<stats, view, now, selection>>
       ELSE /\ shown' = TRUE /\ view' = s /\ stats' = s
            /\ now' = TMin(s)
            /\ selPkt' = None /\ selNode' = None

\* _sidebar_content. A trace with one type of packets gets no control of the
\* filter, and keeps the filter there was.
Sidebar(s) ==
    LET types == Types(Trace(s))
        control == Cardinality(types) > 1
    IN /\ picked' = IF runDir' # None THEN runDir' ELSE Cli
       /\ offered' = IF control THEN types ELSE {}
       /\ filter' = IF control THEN types ELSE filter
       /\ panel' = Panel(Trace(s).packets, selPkt', selNode', stats')

Show(s) ==
    /\ trace' = s
    /\ Main(s) /\ Sidebar(s)
    /\ UNCHANGED <<speed, playing, waterfall>>

\* The user picks a run, and _load_saved_run reads it, or finds no trace.
PickRun(d) ==
    /\ Act /\ d \in runs /\ d # picked
    /\ \/ d # runDir /\ runDir' = d /\ UNCHANGED runs /\ Show(d)
       \/ /\ picked' = d
          /\ UNCHANGED <<loaded, built, playback, filter, selection, waterfall, offered, panel, drawn>>

PickCli ==
    /\ Act /\ trace # None /\ runDir = None /\ picked # Cli
    /\ picked' = Cli
    /\ UNCHANGED <<loaded, built, playback, filter, selection, waterfall, offered, panel, drawn>>

\* sim_panel's run has succeeded: the trace is shown, kept as a run or not.
SimulationEnds(s) ==
    /\ Act /\ s \notin runs \cup {Cli, trace}
    /\ \/ runDir' = s /\ runs' = runs \cup {s}
       \/ UNCHANGED <<runDir, runs>>
    /\ Show(s)

-----------------------------------------------------------------------------
(* Selections *)

\* _select_packet. The time line jumps, which draws the map again only if the
\* time is another; playing stops.
SelectPacket_toggles(i) ==
    IF i \notin DOMAIN Packets THEN UNCHANGED <<playback, selection, panel, drawn>>
    ELSE /\ selPkt' = i /\ selNode' = None
         /\ IF view = None THEN UNCHANGED <<playback, drawn>>
            ELSE /\ playing' = ~playing /\ timer' = (playing' /\ shown)
                 /\ now' = Packets[i].seen
                 /\ UNCHANGED speed
                 /\ IF now' = now THEN UNCHANGED drawn ELSE Draw
         /\ panel' = Panel(Packets, i, None, stats)
SelectPacket(i) ==
    IF i \notin DOMAIN Packets THEN UNCHANGED <<playback, selection, panel, drawn>>
    ELSE /\ selPkt' = i /\ selNode' = None
         /\ IF view = None THEN UNCHANGED <<playback, drawn>>
            ELSE /\ playing' = FALSE
                 /\ timer' = (timer /\ ~playing)
                 /\ now' = Packets[i].seen
                 /\ UNCHANGED speed
                 /\ IF now' = now THEN UNCHANGED drawn ELSE Draw
         /\ panel' = Panel(Packets, i, None, stats)

\* _jump_to_tx_id: the first packet somebody heard in that transmission, or
\* lost to a collision.
Carries(p, x) == \E r \in Range(p.hops) \cup Range(p.collisions) : r.tx = x
Jump(x) ==
    LET found == {i \in DOMAIN Packets : Carries(Packets[i], x)}
    IN IF found = {} THEN UNCHANGED <<playback, selection, panel, drawn>>
       ELSE SelectPacket(Min(found))

Pick(i) == UNCHANGED <<loaded, built, filter, waterfall, sidebar>> /\ SelectPacket(i)

\* A row of the packet table.
ClickRow(i) == Act /\ i \in DOMAIN Packets /\ Pick(i)

\* A packet that the panel lists for its node.
ClickListed(i) ==
    /\ Act /\ panel[1] = "node"
    /\ LET st == NodeStats(Trace(panel[3]), Node)[panel[2]]
       IN i \in st.originated \cup st.transited
    /\ Pick(i)

\* The interferer or blocker of a loss that the panel lists for its packet.
ClickCulprit(x) ==
    /\ Act /\ panel[1] = "packet" /\ x # NoTx
    /\ LET p == Packets[panel[2]]
       IN \E r \in Range(p.collisions) \cup Range(p.halfduplex) : r.other = x
    /\ UNCHANGED <<loaded, built, filter, waterfall, sidebar>> /\ Jump(x)

SelectNode(n) ==
    /\ selPkt' = None /\ selNode' = n
    /\ panel' = Panel(Packets, None, n, stats)
    /\ UNCHANGED <<loaded, built, playback, filter, waterfall, sidebar>>
    /\ Draw

ClickMarker(n) == Act /\ shown /\ drawn # None /\ SelectNode(n)

\* A receiver that the panel lists for its packet.
ClickReceiver(n) ==
    /\ Act /\ panel[1] = "packet" /\ n \in Receivers(Packets[panel[2]])
    /\ SelectNode(n)

Close ==
    /\ Act /\ panel # <<"empty">>
    /\ selPkt' = None /\ selNode' = None /\ panel' = <<"empty">>
    /\ UNCHANGED <<loaded, built, playback, filter, waterfall, sidebar>>
    /\ Draw

-----------------------------------------------------------------------------
(* Playback *)

TogglePlay ==
    /\ Act /\ shown
    /\ playing' = ~playing /\ timer' = playing'
    /\ UNCHANGED <<loaded, built, now, speed, filter, selection, waterfall, sidebar, panel, drawn>>

\* _on_slider_change. While playing the selection goes, the panel stays.
MoveTo(t) ==
    /\ now' = t
    /\ IF playing /\ t # now THEN selPkt' = None /\ selNode' = None ELSE UNCHANGED selection
    /\ UNCHANGED <<loaded, built, speed, playing, timer, filter, waterfall, sidebar, panel>>
    /\ IF t = now THEN UNCHANGED drawn ELSE Draw

\* _advance_time
Tick ==
    /\ timer
    /\ MoveTo(IF now + speed > TMax(view) THEN TMin(view) ELSE now + speed)
    /\ UNCHANGED acts

Slide(t) == Act /\ shown /\ t # now /\ MoveTo(t)

SetSpeed(v) ==
    /\ Act /\ shown /\ speed' = v
    /\ UNCHANGED <<loaded, built, now, playing, timer, filter, selection, waterfall, sidebar, panel, drawn>>

\* Nothing chosen stands for every type.
SetFilter(f) ==
    /\ Act /\ offered # {} /\ f \subseteq offered
    /\ filter' = IF f = {} THEN offered ELSE f
    /\ UNCHANGED <<loaded, built, playback, selection, waterfall, sidebar, panel>>
    /\ Draw

ToggleWaterfall ==
    /\ Act /\ shown /\ waterfall' = ~waterfall
    /\ UNCHANGED <<loaded, built, playback, filter, selection, sidebar, panel>>
    /\ Draw

-----------------------------------------------------------------------------

Init ==
    LET types == Types(Trace(trace))
    IN /\ trace \in {None, Cli}
       /\ runDir = None /\ runs = Saved
       /\ timeline = trace /\ shown = (EventsOf[trace] # {})
       /\ view = (IF shown THEN trace ELSE None) /\ stats = view
       /\ now = (IF shown THEN TMin(trace) ELSE 0)
       /\ speed = Min(Speed) /\ playing = FALSE /\ timer = FALSE
       /\ offered = IF Cardinality(types) > 1 THEN types ELSE {}
       /\ filter = IF offered = {} THEN None ELSE offered
       /\ selPkt = None /\ selNode = None /\ panel = <<"empty">>
       /\ waterfall = FALSE /\ picked = trace /\ drawn = None
       /\ acts = 0

Next ==
    \/ MapInit \/ Tick
    \/ \E d \in Source : PickRun(d) \/ SimulationEnds(d)
    \/ PickCli \/ Close \/ TogglePlay \/ ToggleWaterfall
    \/ \E i \in DOMAIN Packets : ClickRow(i) \/ ClickListed(i)
    \/ \E x \in DOMAIN Trace(trace).tx : ClickCulprit(x)
    \/ \E n \in Node : ClickMarker(n) \/ ClickReceiver(n)
    \/ shown /\ \E t \in TMin(view) .. TMax(view) : Slide(t)
    \/ \E v \in Speed : SetSpeed(v)
    \/ \E f \in SUBSET offered : SetFilter(f)

Spec == Init /\ [][Next]_vars

\* The browser puts up the map of a page that is open, and NiceGUI's timer
\* ticks as long as it is active.
FairSpec == Spec /\ WF_vars(MapInit) /\ WF_vars(Tick)

-----------------------------------------------------------------------------
(* Properties *)

\* Whichever way traces are loaded and selections made, the time line is of
\* the trace loaded last; the map is on the page exactly if that trace has
\* events, and then the view and the statistics its panels quote are that
\* trace's too; and a packet panel shows a packet of it. A node panel quotes
\* the view built last, which is of another trace in one case only: the trace
\* loaded last has no events, and a node was selected when it came.
\* _main_content then returns before it drops the selection and counts anew
\* (trace_viewer.py:822-837), so that the panel lists packets of the trace
\* before, by numbers that pick packets of the new one.
ViewMatches ==
    /\ timeline = trace
    /\ shown <=> EventsOf[trace] # {}
    /\ shown => view = trace /\ stats = trace
    /\ panel[1] = "packet" => panel[2] \in DOMAIN Packets
    /\ panel[1] = "node" =>
          /\ panel[3] = view
          /\ \/ view = trace
             \/ EventsOf[trace] = {} /\ panel[2] = selNode /\ selPkt = None

\* The map shows the time of the slider: a node is coloured as a sender exactly
\* if a packet the filter lets through has a hop from it within the window, and
\* as one reached if it received such a packet by then.
MapShowsNow ==
    drawn # None =>
        /\ drawn.time = now
        /\ \A n \in Node :
            LET hops(P(_)) == \E i \in DOMAIN Packets : \E h \in Range(Packets[i].hops) :
                                Allowed(Packets[i], filter) /\ P(h)
            IN /\ Colour(drawn, n) = "sender" <=>
                     hops(LAMBDA h : h.sender = n /\ h.t \in now - Window .. now + Window)
               /\ Colour(drawn, n) = "received" =>
                     hops(LAMBDA h : h.receiver = n /\ h.t <= now)

\* Each x of S is counted in exactly one f[y], and nothing else is.
Split(S, f) ==
    /\ UNION Range(f) = S
    /\ \A y, z \in DOMAIN f : y # z => f[y] \cap f[z] = {}

\* The packets at whose hops in S something was counted, each at one of them.
Packed(S) == {x[1] : x \in S}
OncePerPacket(S) == \A x, y \in S : x[1] = y[1] => x = y

\* Nothing in a trace is counted twice or left out: the hops of all edges are
\* the hops of all types are the hops; each packet has one originator, who never
\* transits it, and a loss one receiver; what a node has sent are the packets it
\* transits and of its own those with a hop, what it has received those with a
\* hop to it, each counted once however many hops it has; the broadcast steps
\* split the hops, in their order, each with one sender; and a relay delay
\* belongs to a node that had received the packet from another's transmission.
StatsAgree ==
    LET tr == Trace(trace)
        ns == NodeStats(tr, Node)
        ts == TraceStats(tr)
    IN /\ Split(ts.hops, [e \in Edge |-> EdgeStats(tr, e).hops])
       /\ Split(ts.hops, [y \in DOMAIN ts.byType |-> ts.byType[y].hops])
       /\ Split(ts.packets, [n \in Node |-> ns[n].originated])
       /\ Split(ts.collisions, [n \in Node |-> ns[n].collisions])
       /\ Split(ts.halfduplex, [n \in Node |-> ns[n].halfduplex])
       /\ \A n \in Node :
            /\ ns[n].originated \cap ns[n].transited = {}
            /\ ns[n].transited \subseteq Packed(ns[n].tx)
            /\ Packed(ns[n].tx) \subseteq ns[n].originated \cup ns[n].transited
            /\ Packed(ns[n].rx) = {i \in DOMAIN tr.packets : n \in Receivers(tr.packets[i])}
            /\ OncePerPacket(ns[n].tx) /\ OncePerPacket(ns[n].rx)
       /\ \A i \in DOMAIN tr.packets :
            LET p == tr.packets[i]
                steps == Steps(p)
            IN /\ Split(DOMAIN p.hops, steps)
               /\ \A k, m \in DOMAIN steps : k < m => Min(steps[k]) < Min(steps[m])
               /\ \A k \in DOMAIN steps : Cardinality({p.hops[j].sender : j \in steps[k]}) = 1
       /\ \A d \in RelayDelays(tr) : d[1] \in ns[tr.tx[d[2]].sender].transited

\* Choosing a packet stops playback and leaves the time at the packet, however
\* it was chosen and whatever was playing: nothing moves the map away from it
\* until the user does.
SelectPauses ==
    [][selPkt' # None /\ selPkt' # selPkt /\ view # None =>
         ~playing' /\ ~timer' /\ now' = Packets[selPkt'].seen]_vars

\* Playback shows every event, at every speed: each event the filter lets
\* through is active on the map at some tick, unless playback is stopped, or
\* its trace or the filter changed.
PlaybackShows ==
    \A s \in Source : \A e \in EventsOf[s] :
        (timer /\ view = s /\ Allowed(Trace(s).packets[e.idx], filter))
          ~> \/ ~timer \/ view # s \/ ~Allowed(Trace(s).packets[e.idx], filter)
             \/ drawn # None /\ e \in drawn.active
=============================================================================
