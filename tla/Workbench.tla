----------------------------- MODULE Workbench -----------------------------
(***************************************************************************)
(* One browser session of the workbench: the topology editor               *)
(* (workbench/topology_editor.py), the map it draws (map_helpers.py) and   *)
(* the simulation panel (sim_panel.py, results.py), over the fields of     *)
(* AppState they share (state.py).                                         *)
(*                                                                         *)
(* Handlers of one session run on one event loop and are atomic between    *)
(* awaits. Two of them await: _handle_save asks the browser for the        *)
(* position of one marker after the other, and _start_simulation runs the  *)
(* whole simulation. Dialogs are modal, so the effect of one is the step   *)
(* in which its Save or Delete is pressed; only saves and a simulation go  *)
(* on behind it.                                                           *)
(***************************************************************************)
EXTENDS Naturals, Sequences, FiniteSets, Functions

CONSTANTS
    Name,       \* names of nodes
    Pos,        \* positions on the map
    NoPos,      \* lat and lon of a node without them
    Origin,     \* 0, 0
    InitNodes,  \* the topology loaded: names to positions,
    InitEdges,  \* and edges, pairs of names
    Layout,     \* [Name -> Pos], circular_positions
    Setting,    \* values of the form's radio and of its simulation fields
    Save,       \* clicks on Save that can be under way at once
    Run,        \* clicks on Run that can be under way at once
    NoFile,     \* no temporary file
    Gone,       \* a hole in a dict's entries
    MaxEdit     \* bound: dialogs that end in a change, and markers dragged

\* What is loaded has two nodes at least, no loops and no pair of nodes joined
\* twice: load_topology does not check it, the topologies of the repository do
\* it.
ASSUME WorkbenchAssumption ==
    /\ Origin \in Pos /\ NoPos \notin Pos /\ Gone \notin Name
    /\ DOMAIN InitNodes \subseteq Name /\ Range(InitNodes) \subseteq Pos \cup {NoPos}
    /\ IsFiniteSet(DOMAIN InitNodes)
    /\ InitEdges \subseteq (DOMAIN InitNodes) \X (DOMAIN InitNodes)
    /\ \A e \in InitEdges : e[1] # e[2] /\ <<e[2], e[1]>> \notin InitEdges
    /\ Layout \in [Name -> Pos]
    /\ MaxEdit \in Nat

VARIABLES
    nodes,      \* topology.nodes: names to their lat/lon
    edges,      \* topology.edges: pairs to a value of their properties
    settings,   \* topology.radio and topology.simulation
    dirty,
    markers,    \* state.markers: the dict's entries in order, with holes
    shown,      \* where the map shows a name's marker
    loose,      \* names whose marker can be dragged: add_marker's
    layers,     \* state.edge_layers
    positions,  \* state.positions
    placing,    \* place_mode['active']
    disk,       \* the topology file
    asking,     \* a save: the entry it asks for, 0 when it is not under way,
    asked,      \* its name, and the position its marker had then,
    counted,    \* and the size of the dict when the loop began, with how many of
                \* its entries the loop has still to visit
    running,    \* state.sim_running
    runs,       \* clicks on Run whose run() is under way
    input,      \* the temporary topology file of a run, which ends with it
    kept,       \* whether the topology.json kept last is the topology that was run
    edits

topology == <<nodes, edges, settings, dirty>>
map == <<markers, shown, loose, layers, positions>>
saving == <<disk, asking, asked, counted>>
simulating == <<running, runs, input, kept>>
vars == <<topology, map, placing, saving, simulating, edits>>

Content == [nodes |-> nodes, edges |-> edges, settings |-> settings]

Marked == {n \in Name : \E i \in 1 .. Len(markers) : markers[i] = n}

Plus(f, x, y) == [z \in DOMAIN f \cup {x} |-> IF z = x THEN y ELSE f[z]]
Minus(f, S) == [z \in DOMAIN f \ S |-> f[z]]

-----------------------------------------------------------------------------
(* Opening the page: app.py, map_helpers.py *)

HasGeo(N) == DOMAIN N # {} /\ \A n \in DOMAIN N : N[n] \notin {NoPos, Origin}

NodePositions(N) == [n \in DOMAIN N |-> IF HasGeo(N) THEN N[n] ELSE Layout[n]]

\* render_topology draws the markers in the order of the topology's nodes; they
\* cannot be dragged.
Rendered ==
    /\ positions = NodePositions(InitNodes)
    /\ markers \in {s \in [1 .. Cardinality(DOMAIN InitNodes) -> DOMAIN InitNodes] :
                        Range(s) = DOMAIN InitNodes}
    /\ shown = [n \in Name |-> IF n \in DOMAIN InitNodes
                               THEN NodePositions(InitNodes)[n] ELSE NoPos]
    /\ loose = {}
    /\ layers = InitEdges

Init ==
    /\ nodes = InitNodes
    /\ edges \in [InitEdges -> {0}]
    /\ settings \in [radio : Setting, sim : Setting]
    /\ dirty = FALSE
    /\ Rendered
    /\ placing = FALSE
    /\ disk = Content
    /\ asking = [s \in Save |-> 0] /\ asked = [s \in Save |-> <<Gone, NoPos>>]
    /\ counted = [s \in Save |-> <<0, 0>>]
    /\ running = FALSE /\ runs = {} /\ input = [r \in Run |-> NoFile]
    /\ kept = TRUE
    /\ edits = 0

-----------------------------------------------------------------------------
(* The editor's handlers *)

Edit == edits < MaxEdit /\ edits' = edits + 1

\* on_save of a new node's dialog: refused for a name that is taken. A marker
\* needs a position where a node does without.
Placed_asIs(p) == p
Placed(p) == IF p = NoPos THEN Origin ELSE p

AddedAt(n, p) ==
    IF n \in DOMAIN nodes
    THEN UNCHANGED <<topology, map, edits>>
    ELSE /\ Edit
         /\ nodes' = Plus(nodes, n, p)
         /\ positions' = Plus(positions, n, Placed(p))
         /\ markers' = Append(markers, n)
         /\ shown' = [shown EXCEPT ![n] = Placed(p)]
         /\ loose' = loose \cup {n}
         /\ dirty' = TRUE
         /\ UNCHANGED <<edges, settings, layers>>

AddNode(n, p) ==
    /\ AddedAt(n, p)
    /\ UNCHANGED <<placing, saving, simulating>>

\* Place on Map: the button switches the mode, a click on the map ends it and
\* opens the dialog, which may be cancelled. Every activation leaves a handler
\* on the map; the mode's flag lets only the first act.
TogglePlace ==
    /\ placing' = ~placing
    /\ UNCHANGED <<topology, map, saving, simulating, edits>>

MapClick(n, p) ==
    /\ placing
    /\ placing' = FALSE
    /\ AddedAt(n, p) \/ UNCHANGED <<topology, map, edits>>
    /\ UNCHANGED <<saving, simulating>>

\* The dialog of a node writes its lat/lon; its marker stays where it is.
EditNode(n, p) ==
    /\ n \in DOMAIN nodes /\ Edit
    /\ nodes' = [nodes EXCEPT ![n] = p]
    /\ dirty' = TRUE
    /\ UNCHANGED <<edges, settings, map, placing, saving, simulating>>

Incident_from(n) == {e \in DOMAIN edges : n = e[1]}
Incident(n) == {e \in DOMAIN edges : n \in {e[1], e[2]}}

DeleteNode(n) ==
    /\ n \in DOMAIN nodes /\ Edit
    /\ nodes' = Minus(nodes, {n})
    /\ edges' = Minus(edges, Incident(n))
    /\ markers' = [i \in DOMAIN markers |-> IF markers[i] = n THEN Gone ELSE markers[i]]
    /\ shown' = [shown EXCEPT ![n] = NoPos]
    /\ loose' = loose \ {n}
    /\ layers' = {e \in layers : n \notin {e[1], e[2]}}
    /\ positions' = Minus(positions, {n})
    /\ dirty' = TRUE
    /\ UNCHANGED <<settings, placing, saving, simulating>>

Joined(a, b) == {<<a, b>>, <<b, a>>} \cap DOMAIN edges # {}

AddEdge(a, b) ==
    /\ Cardinality(DOMAIN nodes) >= 2
    /\ {a, b} \subseteq DOMAIN nodes /\ a # b /\ ~Joined(a, b)
    /\ Edit
    /\ edges' = Plus(edges, <<a, b>>, 0)
    /\ layers' = layers \cup IF {a, b} \subseteq DOMAIN positions THEN {<<a, b>>} ELSE {}
    /\ dirty' = TRUE
    /\ UNCHANGED <<nodes, settings, markers, shown, loose, positions, placing,
                   saving, simulating>>

EditEdge(e) ==
    /\ e \in DOMAIN edges /\ Edit
    /\ edges' = [edges EXCEPT ![e] = 1 - @]
    /\ dirty' = TRUE
    /\ UNCHANGED <<nodes, settings, map, placing, saving, simulating>>

DeleteEdge(e) ==
    /\ e \in DOMAIN edges /\ Edit
    /\ edges' = Minus(edges, {e})
    /\ layers' = layers \ {e}
    /\ dirty' = TRUE
    /\ UNCHANGED <<nodes, settings, markers, shown, loose, positions, placing,
                   saving, simulating>>

\* The user drags a marker: nothing but the map knows.
Drag(n, p) ==
    /\ n \in loose /\ Edit
    /\ shown' = [shown EXCEPT ![n] = p]
    /\ UNCHANGED <<topology, markers, loose, layers, positions, placing, saving,
                   simulating>>

-----------------------------------------------------------------------------
(* _handle_save *)

\* The end of the handler, which has no await: the file is written as the
\* topology now is.
WriteFile(N) ==
    /\ disk' = [nodes |-> N, edges |-> edges, settings |-> settings]
    /\ dirty' = FALSE

\* The loop's next entry, 0 if there is none.
NextEntry(i) ==
    LET rest == {j \in i + 1 .. Len(markers) : markers[j] # Gone}
    IN IF rest = {} THEN 0 ELSE CHOOSE j \in rest : \A k \in rest : j <= k

Ask(s, i) ==
    /\ asking' = [asking EXCEPT ![s] = i]
    /\ asked' = [asked EXCEPT ![s] = IF i = 0 THEN <<Gone, NoPos>>
                                        ELSE <<markers[i], shown[markers[i]]>>]

SaveClick(s) ==
    /\ asking[s] = 0
    /\ counted' = [counted EXCEPT ![s] = IF Marked = {} THEN <<0, 0>>
                        ELSE <<Cardinality(Marked), Cardinality(Marked) - 1>>]
    /\ Ask(s, NextEntry(0))
    /\ IF Marked = {} THEN WriteFile(nodes) ELSE UNCHANGED <<disk, dirty>>
    /\ UNCHANGED <<nodes, edges, settings, map, placing, simulating, edits>>

Moved_revives(n, p) == IF p = NoPos THEN nodes ELSE Plus(nodes, n, p)
Moved(n, p) == IF p # NoPos /\ n \in DOMAIN nodes THEN [nodes EXCEPT ![n] = p] ELSE nodes

\* The loop over the dict raises, the handler ends.
SaveFails_clears(s) == Ask(s, 0) /\ dirty' = FALSE /\ UNCHANGED disk
SaveFails(s) == Ask(s, 0) /\ UNCHANGED <<disk, dirty>>

\* The answer for a marker, also of one removed since, or none in two seconds.
\* Then the loop goes on, or ends, or fails because the dict has changed its
\* size, or its keys: one more is there than the loop had to visit.
SaveAnswer(s) ==
    /\ asking[s] # 0
    /\ \E p \in {asked[s][2], NoPos} :
       LET n == asked[s][1]
           next == NextEntry(asking[s])
       IN /\ nodes' = Moved(n, p)
          /\ positions' = IF p = NoPos THEN positions ELSE Plus(positions, n, p)
          /\ IF Cardinality(Marked) # counted[s][1] \/ (next # 0 /\ counted[s][2] = 0)
             THEN SaveFails(s)
             ELSE /\ Ask(s, next)
                  /\ IF next = 0 THEN WriteFile(nodes') ELSE UNCHANGED <<disk, dirty>>
    /\ counted' = [counted EXCEPT ![s] = IF asking'[s] = 0 THEN <<0, 0>>
                                        ELSE <<@[1], @[2] - 1>>]
    /\ UNCHANGED <<edges, settings, markers, shown, loose, layers, placing,
                   simulating, edits>>

-----------------------------------------------------------------------------
(* _start_simulation *)

\* The form's values are written to the topology, radio first; an empty field
\* of the simulation card raises after that, before anything else is done.
FormFails(v) ==
    /\ ~running
    /\ settings' = [settings EXCEPT !.radio = v]
    /\ UNCHANGED <<nodes, edges, dirty, map, placing, saving, simulating, edits>>

RunClick(r, v, w) ==
    /\ r \notin runs /\ ~running
    /\ settings' = [radio |-> v, sim |-> w]
    /\ input' = [input EXCEPT ![r] = [nodes |-> nodes, edges |-> edges, settings |-> settings']]
    /\ running' = TRUE
    /\ runs' = runs \cup {r}
    /\ UNCHANGED <<nodes, edges, dirty, map, placing, saving, kept, edits>>

\* The finally clause.
RunEnds(r) ==
    /\ runs' = runs \ {r}
    /\ input' = [input EXCEPT ![r] = NoFile]
    /\ running' = FALSE
    /\ UNCHANGED <<topology, map, placing, saving, edits>>

\* run() returns 0, and the result is kept with the topology of the session.
RunSucceeds(r) ==
    /\ r \in runs
    /\ kept' = (Content = input[r])
    /\ RunEnds(r)

\* run() returns another code or raises.
RunFails(r) ==
    /\ r \in runs
    /\ RunEnds(r) /\ UNCHANGED kept

-----------------------------------------------------------------------------

Next ==
    \/ \E n \in Name, p \in Pos \cup {NoPos} :
          AddNode(n, p) \/ MapClick(n, p) \/ EditNode(n, p)
    \/ \E n \in Name, p \in Pos : Drag(n, p)
    \/ \E n \in Name : DeleteNode(n)
    \/ \E a, b \in Name : AddEdge(a, b)
    \/ \E e \in Name \X Name : EditEdge(e) \/ DeleteEdge(e)
    \/ TogglePlace
    \/ \E s \in Save : SaveClick(s) \/ SaveAnswer(s)
    \/ \E v \in Setting : FormFails(v)
    \/ \E r \in Run, v, w \in Setting : RunClick(r, v, w)
    \/ \E r \in Run : RunSucceeds(r) \/ RunFails(r)

Spec == Init /\ [][Next]_vars

-----------------------------------------------------------------------------
(* Properties *)

Contents == [nodes : UNION {[S -> Pos \cup {NoPos}] : S \in SUBSET Name},
             edges : UNION {[E -> {0, 1}] : E \in SUBSET (Name \X Name)},
             settings : [radio : Setting, sim : Setting]]

\* The session's state has the shape the handlers rely on: every position the
\* map and the next Add Node compute with is one, an entry asked for exists.
TypeOK ==
    /\ Content \in Contents /\ disk \in Contents
    /\ input \in [Run -> Contents \cup {NoFile}]
    /\ {dirty, placing, running, kept} \subseteq BOOLEAN
    /\ Range(markers) \subseteq Name \cup {Gone}
    /\ shown \in [Name -> Pos \cup {NoPos}]
    /\ loose \subseteq Name /\ layers \subseteq Name \X Name
    /\ DOMAIN positions \subseteq Name /\ Range(positions) \subseteq Pos
    /\ asking \in [Save -> 0 .. Len(markers)] /\ counted \in [Save -> (0 .. Cardinality(Name)) \X (0 .. Cardinality(Name))]
    /\ asked \in [Save -> (Name \cup {Gone}) \X (Pos \cup {NoPos})]
    /\ runs \subseteq Run
    /\ edits \in 0 .. MaxEdit

\* The map shows the topology: one marker per node, one line per edge, and a
\* position for every node, whatever is added and deleted behind a save that
\* walks over the markers.
MapShowsTopology ==
    /\ Marked = DOMAIN nodes
    /\ \A i, j \in DOMAIN markers : markers[i] = markers[j] /\ markers[i] # Gone => i = j
    /\ layers = DOMAIN edges
    /\ DOMAIN nodes \subseteq DOMAIN positions

Sound(T) == \A e \in DOMAIN T.edges :
    /\ {e[1], e[2]} \subseteq DOMAIN T.nodes
    /\ e[1] # e[2] /\ <<e[2], e[1]>> \notin DOMAIN T.edges

\* What leaves the session, the file saved, the input of a run and the result
\* kept of it, is a topology the driver can load and wire: its edges join
\* distinct nodes of it, and no pair twice.
SavedIsSound ==
    /\ Sound(disk) /\ Sound(Content)
    /\ \A r \in runs : Sound(input[r])

\* Without the unsaved mark, the file has the nodes and the edges of the
\* session, also when they were edited behind a save, or a save is given up.
\* (Positions and the form's values are not covered: dragging a marker and
\* running a simulation change them and set no mark.)
UnsavedIsDirty ==
    ~dirty => DOMAIN disk.nodes = DOMAIN nodes /\ disk.edges = edges
=============================================================================
