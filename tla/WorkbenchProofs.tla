-------------------------- MODULE WorkbenchProofs --------------------------
(***************************************************************************)
(* What a session of the workbench promises of its topology, the map and   *)
(* the file, for any topology loaded, any number of saves and runs behind  *)
(* each other and any number of edits.                                     *)
(***************************************************************************)
EXTENDS Workbench, FiniteSetTheorems, TLAPS

USE WorkbenchAssumption

\* What the handlers make of the topology is a graph over names, and the runs
\* that are under way have an input.
SoundInv ==
    /\ DOMAIN edges \subseteq Name \X Name
    /\ DOMAIN input = Run /\ runs \subseteq Run
    /\ SavedIsSound

\* The map's dicts follow the topology's; holes aside, no marker is there twice.
MapInv ==
    /\ DOMAIN nodes \subseteq Name
    /\ markers \in Seq(Name \cup {Gone})
    /\ MapShowsTopology

-----------------------------------------------------------------------------
(* The topology                                                            *)

LEMMA PlusDomain == \A f, x, y : DOMAIN Plus(f, x, y) = DOMAIN f \cup {x}
BY DEF Plus

LEMMA MinusDomain == \A f, S : DOMAIN Minus(f, S) = DOMAIN f \ S
BY DEF Minus

LEMMA MovedDomain == \A n, p : DOMAIN Moved(n, p) = DOMAIN nodes
BY DEF Moved

\* Only the names matter, of the nodes and of the edges.
LEMMA SoundSame ==
    ASSUME NEW T, NEW U, DOMAIN T.nodes \subseteq DOMAIN U.nodes,
           DOMAIN U.edges \subseteq DOMAIN T.edges, Sound(T)
    PROVE  Sound(U)
BY DEF Sound

\* A step that keeps the names of a sound topology, and a file that is the old
\* one or the topology as it now is.
LEMMA SoundStep ==
    ASSUME SoundInv, Sound(Content'), DOMAIN edges' \subseteq Name \X Name,
           UNCHANGED <<runs, input>>,
           disk' = disk \/ (disk'.nodes = nodes' /\ disk'.edges = edges')
    PROVE  SoundInv'
<1>1. Content'.nodes = nodes' /\ Content'.edges = edges' BY DEF Content
<1>2. Sound(disk')
  <2>1. CASE disk' = disk BY <2>1 DEF SoundInv, SavedIsSound
  <2>2. CASE disk'.nodes = nodes' /\ disk'.edges = edges' BY <1>1, <2>2, SoundSame
  <2> QED BY <2>1, <2>2
<1> QED BY <1>2 DEF SoundInv, SavedIsSound, Sound

LEMMA SameNames ==
    ASSUME SoundInv, DOMAIN nodes' = DOMAIN nodes, DOMAIN edges' = DOMAIN edges
    PROVE  Sound(Content') /\ DOMAIN edges' \subseteq Name \X Name
<1>1. /\ Content.nodes = nodes /\ Content.edges = edges
      /\ Content'.nodes = nodes' /\ Content'.edges = edges'
      BY DEF Content
<1> QED BY <1>1, SoundSame DEF SoundInv, SavedIsSound

\* A file written has the topology's nodes and edges as they now are.
LEMMA Written ==
    ASSUME NEW N, WriteFile(N)
    PROVE  disk'.nodes = N /\ disk'.edges = edges /\ dirty' = FALSE
BY DEF WriteFile

\* What a step of a save does to topology and file.
LEMMA SaveStep ==
    ASSUME NEW s \in Save, SaveClick(s) \/ SaveAnswer(s)
    PROVE  /\ DOMAIN nodes' = DOMAIN nodes /\ edges' = edges
           /\ \/ disk' = disk /\ dirty' = dirty
              \/ disk'.nodes = nodes' /\ disk'.edges = edges' /\ dirty' = FALSE
           /\ UNCHANGED <<markers, layers, runs, input>>
           /\ DOMAIN positions \subseteq DOMAIN positions'
<1>1. CASE SaveClick(s)
  <2>1. UNCHANGED <<nodes, edges, markers, layers, positions, runs, input>>
        BY <1>1 DEF SaveClick, map, simulating
  <2>2. WriteFile(nodes) \/ UNCHANGED <<disk, dirty>> BY <1>1 DEF SaveClick
  <2> QED BY <2>1, <2>2, Written
<1>2. CASE SaveAnswer(s)
  <2>1. UNCHANGED <<edges, markers, layers, runs, input>>
        BY <1>2 DEF SaveAnswer, simulating
  <2>2. PICK p \in {asked[s][2], NoPos} :
           /\ nodes' = Moved(asked[s][1], p)
           /\ positions' = IF p = NoPos THEN positions
                                        ELSE Plus(positions, asked[s][1], p)
           /\ WriteFile(nodes') \/ UNCHANGED <<disk, dirty>>
        BY <1>2 DEF SaveAnswer, SaveFails
  <2>3. DOMAIN nodes' = DOMAIN nodes BY <2>2, MovedDomain
  <2>4. DOMAIN positions \subseteq DOMAIN positions'
    <3>1. CASE p = NoPos BY <2>2, <3>1
    <3>2. CASE p # NoPos BY <2>2, <3>2 DEF Plus
    <3> QED BY <3>1, <3>2
  <2>5. CASE WriteFile(nodes')
    <3>1. disk' = [nodes |-> nodes', edges |-> edges, settings |-> settings] /\ dirty' = FALSE
          BY <2>5 DEF WriteFile
    <3>2. disk'.nodes = nodes' /\ disk'.edges = edges BY <3>1
    <3> QED BY <2>1, <2>3, <2>4, <3>1, <3>2
  <2> QED BY <2>1, <2>2, <2>3, <2>4, <2>5
<1> QED BY <1>1, <1>2

\* A dialog that ends in a node added, or does not.
LEMMA AddStep ==
    ASSUME NEW n \in Name, NEW p,
           AddNode(n, p) \/ MapClick(n, p)
    PROVE  /\ AddedAt(n, p) \/ UNCHANGED <<topology, map>>
           /\ UNCHANGED <<edges, disk, runs, input>>
BY DEF AddNode, MapClick, AddedAt, saving, simulating, topology

LEMMA SoundStarts == Init => SoundInv
<1> SUFFICES ASSUME Init PROVE SoundInv OBVIOUS
<1>1. nodes = InitNodes /\ DOMAIN edges = InitEdges /\ disk = Content
      /\ runs = {} /\ DOMAIN input = Run
      BY DEF Init
<1>2. Content.nodes = nodes /\ Content.edges = edges BY DEF Content
<1>3. Sound(Content) BY <1>1, <1>2 DEF Sound
<1> QED BY <1>1, <1>3 DEF SoundInv, SavedIsSound

LEMMA SoundKept == SoundInv /\ [Next]_vars => SoundInv'
<1> SUFFICES ASSUME SoundInv, [Next]_vars PROVE SoundInv' OBVIOUS
<1>0. /\ Content.nodes = nodes /\ Content.edges = edges
      /\ Content'.nodes = nodes' /\ Content'.edges = edges'
      BY DEF Content
<1>1. ASSUME NEW n \in Name, NEW p \in Pos \cup {NoPos},
             AddNode(n, p) \/ MapClick(n, p)
      PROVE  SoundInv'
  <2>1. UNCHANGED <<edges, disk, runs, input>> BY <1>1, AddStep
  <2>2. DOMAIN nodes \subseteq DOMAIN nodes'
    <3>1. CASE AddedAt(n, p)
      <4>1. nodes' = nodes \/ nodes' = Plus(nodes, n, p) BY <3>1 DEF AddedAt, topology
      <4>2. DOMAIN Plus(nodes, n, p) = DOMAIN nodes \cup {n} BY PlusDomain
      <4> QED BY <4>1, <4>2
    <3>2. CASE UNCHANGED topology BY <3>2 DEF topology
    <3> QED BY <1>1, <3>1, <3>2 DEF AddNode, MapClick, topology
  <2>3. Sound(Content') BY <1>0, <2>1, <2>2, SoundSame DEF SoundInv, SavedIsSound
  <2> QED BY <2>1, <2>3, SoundStep DEF SoundInv
<1>2. ASSUME NEW n \in Name, NEW p \in Pos \cup {NoPos}, EditNode(n, p) PROVE SoundInv'
  <2>1. DOMAIN nodes' = DOMAIN nodes /\ UNCHANGED <<edges, disk, runs, input>>
        BY <1>2 DEF EditNode, saving, simulating
  <2> QED BY <2>1, SameNames, SoundStep
<1>3. ASSUME NEW n \in Name, NEW p \in Pos, Drag(n, p) PROVE SoundInv'
  <2>1. UNCHANGED <<nodes, edges, disk, runs, input>>
        BY <1>3 DEF Drag, topology, saving, simulating
  <2> QED BY <2>1, SameNames, SoundStep
<1>4. ASSUME NEW n \in Name, DeleteNode(n) PROVE SoundInv'
  <2>1. /\ DOMAIN nodes' = DOMAIN nodes \ {n}
        /\ DOMAIN edges' = DOMAIN edges \ Incident(n)
        /\ UNCHANGED <<disk, runs, input>>
        BY <1>4, MinusDomain DEF DeleteNode, saving, simulating
  <2>2. Sound(Content') BY <1>0, <2>1 DEF SoundInv, SavedIsSound, Sound, Incident
  <2> QED BY <2>1, <2>2, SoundStep DEF SoundInv
<1>5. ASSUME NEW a \in Name, NEW b \in Name, AddEdge(a, b) PROVE SoundInv'
  <2>1. /\ DOMAIN edges' = DOMAIN edges \cup {<<a, b>>}
        /\ {a, b} \subseteq DOMAIN nodes /\ a # b
        /\ <<a, b>> \notin DOMAIN edges /\ <<b, a>> \notin DOMAIN edges
        /\ UNCHANGED <<nodes, disk, runs, input>>
        BY <1>5, PlusDomain DEF AddEdge, Joined, saving, simulating
  <2>2. DOMAIN edges' \subseteq Name \X Name BY <2>1 DEF SoundInv
  <2>3. ASSUME NEW e \in DOMAIN edges'
        PROVE  /\ {e[1], e[2]} \subseteq DOMAIN nodes
               /\ e[1] # e[2] /\ <<e[2], e[1]>> \notin DOMAIN edges'
    <3>1. CASE e = <<a, b>> BY <2>1, <3>1
    <3>2. CASE e \in DOMAIN edges
      <4>1. /\ {e[1], e[2]} \subseteq DOMAIN nodes
            /\ e[1] # e[2] /\ <<e[2], e[1]>> \notin DOMAIN edges
            BY <1>0, <3>2 DEF SoundInv, SavedIsSound, Sound
      <4>2. e = <<e[1], e[2]>> BY <3>2 DEF SoundInv
      <4>3. <<e[2], e[1]>> # <<a, b>> BY <2>1, <3>2, <4>2
      <4> QED BY <2>1, <4>1, <4>3
    <3> QED BY <2>1, <2>3, <3>1, <3>2
  <2>4. Sound(Content') BY <1>0, <2>1, <2>3 DEF Sound
  <2> QED BY <2>1, <2>2, <2>4, SoundStep
<1>6. ASSUME NEW e \in Name \X Name, EditEdge(e) \/ DeleteEdge(e) PROVE SoundInv'
  <2>1. /\ DOMAIN edges' \subseteq DOMAIN edges
        /\ UNCHANGED <<nodes, disk, runs, input>>
        BY <1>6, MinusDomain DEF EditEdge, DeleteEdge, saving, simulating
  <2>2. Sound(Content') BY <1>0, <2>1, SoundSame DEF SoundInv, SavedIsSound
  <2> QED BY <2>1, <2>2, SoundStep DEF SoundInv
<1>7. CASE TogglePlace
  <2>1. UNCHANGED <<nodes, edges, disk, runs, input>>
        BY <1>7 DEF TogglePlace, topology, saving, simulating
  <2> QED BY <2>1, SameNames, SoundStep
<1>8. ASSUME NEW s \in Save, SaveClick(s) \/ SaveAnswer(s) PROVE SoundInv'
      BY <1>8, SaveStep, SameNames, SoundStep
<1>9. ASSUME NEW v \in Setting, FormFails(v) PROVE SoundInv'
  <2>1. UNCHANGED <<nodes, edges, disk, runs, input>>
        BY <1>9 DEF FormFails, saving, simulating
  <2> QED BY <2>1, SameNames, SoundStep
<1>10. ASSUME NEW r \in Run, NEW v \in Setting, NEW w \in Setting, RunClick(r, v, w)
       PROVE  SoundInv'
  <2>1. /\ UNCHANGED <<nodes, edges, disk>>
        /\ runs' = runs \cup {r}
        /\ input' = [input EXCEPT ![r] =
                        [nodes |-> nodes, edges |-> edges, settings |-> settings']]
        BY <1>10 DEF RunClick, saving
  <2>2. DOMAIN input' = Run /\ runs' \subseteq Run BY <2>1 DEF SoundInv
  <2>3. Sound(Content') BY <2>1, SameNames
  <2>4. input'[r].nodes = nodes /\ input'[r].edges = edges BY <2>1 DEF SoundInv
  <2>5. Sound(input'[r]) BY <1>0, <2>1, <2>3, <2>4, SoundSame
  <2>6. \A q \in runs : q # r => input'[q] = input[q] BY <2>1 DEF SoundInv
  <2>7. \A q \in runs' : Sound(input'[q]) BY <2>1, <2>5, <2>6 DEF SoundInv, SavedIsSound
  <2> QED BY <2>1, <2>2, <2>3, <2>7 DEF SoundInv, SavedIsSound
<1>11. ASSUME NEW r \in Run, RunSucceeds(r) \/ RunFails(r) PROVE SoundInv'
  <2>1. /\ UNCHANGED <<nodes, edges, disk>>
        /\ runs' = runs \ {r} /\ input' = [input EXCEPT ![r] = NoFile]
        BY <1>11 DEF RunSucceeds, RunFails, RunEnds, topology, saving
  <2>2. DOMAIN input' = Run /\ runs' \subseteq Run BY <2>1 DEF SoundInv
  <2>3. \A q \in runs' : input'[q] = input[q] BY <2>1 DEF SoundInv
  <2>4. Sound(Content') BY <2>1, SameNames
  <2> QED BY <2>1, <2>2, <2>3, <2>4 DEF SoundInv, SavedIsSound
<1>12. CASE UNCHANGED vars
  <2>1. UNCHANGED <<nodes, edges, disk, runs, input>>
        BY <1>12 DEF vars, topology, saving, simulating
  <2> QED BY <2>1, SameNames, SoundStep
<1> QED BY <1>1, <1>2, <1>3, <1>4, <1>5, <1>6, <1>7, <1>8, <1>9, <1>10, <1>11, <1>12 DEF Next

\* The session, the file and the input of every run are topologies the driver
\* can load and wire, if the file that was opened was one (topology_editor.py,
\* the dialogs and _handle_save; sim_panel.py, _start_simulation).
THEOREM SessionSound == Spec => []SavedIsSound
<1>1. SoundInv => SavedIsSound BY DEF SoundInv
<1> QED BY <1>1, SoundStarts, SoundKept, PTL DEF Spec

-----------------------------------------------------------------------------
(* The unsaved mark                                                        *)

LEMMA UnsavedKept == UnsavedIsDirty /\ [Next]_vars => UnsavedIsDirty'
<1> SUFFICES ASSUME UnsavedIsDirty, [Next]_vars PROVE UnsavedIsDirty' OBVIOUS
<1>1. ASSUME dirty' = TRUE PROVE UnsavedIsDirty' BY <1>1 DEF UnsavedIsDirty
<1>2. ASSUME UNCHANGED <<disk, dirty, edges>>, DOMAIN nodes' = DOMAIN nodes
      PROVE  UnsavedIsDirty'
      BY <1>2 DEF UnsavedIsDirty
<1>3. ASSUME NEW n \in Name, NEW p \in Pos \cup {NoPos},
             AddNode(n, p) \/ MapClick(n, p)
      PROVE  UnsavedIsDirty'
  <2>1. UNCHANGED <<edges, disk>> BY <1>3, AddStep
  <2>2. CASE AddedAt(n, p) BY <1>1, <1>2, <2>1, <2>2 DEF AddedAt, topology
  <2>3. CASE UNCHANGED topology BY <1>2, <2>1, <2>3 DEF topology
  <2> QED BY <1>3, <2>2, <2>3, AddStep
<1>4. ASSUME NEW n \in Name, NEW p \in Pos \cup {NoPos}, EditNode(n, p)
      PROVE  UnsavedIsDirty'
      BY <1>1, <1>4 DEF EditNode
<1>5. ASSUME NEW n \in Name, NEW p \in Pos, Drag(n, p) PROVE UnsavedIsDirty'
      BY <1>2, <1>5 DEF Drag, topology, saving
<1>6. ASSUME NEW n \in Name, DeleteNode(n) PROVE UnsavedIsDirty'
      BY <1>1, <1>6 DEF DeleteNode
<1>7. ASSUME NEW a \in Name, NEW b \in Name, AddEdge(a, b) PROVE UnsavedIsDirty'
      BY <1>1, <1>7 DEF AddEdge
<1>8. ASSUME NEW e \in Name \X Name, EditEdge(e) \/ DeleteEdge(e) PROVE UnsavedIsDirty'
      BY <1>1, <1>8 DEF EditEdge, DeleteEdge
<1>9. ASSUME NEW s \in Save, SaveClick(s) \/ SaveAnswer(s) PROVE UnsavedIsDirty'
      BY <1>9, SaveStep DEF UnsavedIsDirty
<1>10. ASSUME TogglePlace \/ (\E v \in Setting : FormFails(v))
              \/ (\E r \in Run, v, w \in Setting : RunClick(r, v, w))
              \/ (\E r \in Run : RunSucceeds(r) \/ RunFails(r))
       PROVE  UnsavedIsDirty'
       BY <1>2, <1>10
       DEF TogglePlace, FormFails, RunClick, RunSucceeds, RunFails, RunEnds, topology, saving
<1>11. CASE UNCHANGED vars BY <1>2, <1>11 DEF vars, topology, saving
<1> QED BY <1>3, <1>4, <1>5, <1>6, <1>7, <1>8, <1>9, <1>10, <1>11 DEF Next

\* Without the unsaved mark the file has the nodes and the edges of the session,
\* however the edits and the steps of the saves are interleaved
\* (topology_editor.py, _handle_save).
THEOREM UnsavedMarked == Spec => []UnsavedIsDirty
<1>1. Init => UnsavedIsDirty
  <2> SUFFICES ASSUME Init PROVE UnsavedIsDirty OBVIOUS
  <2>1. disk = [nodes |-> nodes, edges |-> edges, settings |-> settings] BY DEF Init, Content
  <2> QED BY <2>1 DEF UnsavedIsDirty
<1> QED BY <1>1, UnsavedKept, PTL DEF Spec

-----------------------------------------------------------------------------
(* The map                                                                 *)

\* The entries of the dict are distinct.
Distinct(s) == \A i, j \in DOMAIN s : s[i] = s[j] /\ s[i] # Gone => i = j

MarkedIn(s) == {n \in Name : \E i \in 1 .. Len(s) : s[i] = n}

LEMMA MapParts ==
    MapShowsTopology <=> /\ MarkedIn(markers) = DOMAIN nodes /\ Distinct(markers)
                         /\ layers = DOMAIN edges /\ DOMAIN nodes \subseteq DOMAIN positions
BY DEF MapShowsTopology, Marked, MarkedIn, Distinct

LEMMA MapPartsNext ==
    MapShowsTopology' <=>
        /\ MarkedIn(markers') = DOMAIN nodes' /\ Distinct(markers')
        /\ layers' = DOMAIN edges' /\ DOMAIN nodes' \subseteq DOMAIN positions'
BY DEF MapShowsTopology, Marked, MarkedIn, Distinct

LEMMA AppendMarker ==
    ASSUME NEW s \in Seq(Name \cup {Gone}), NEW n \in Name, n \notin MarkedIn(s), Distinct(s)
    PROVE  /\ Append(s, n) \in Seq(Name \cup {Gone})
           /\ MarkedIn(Append(s, n)) = MarkedIn(s) \cup {n}
           /\ Distinct(Append(s, n))
<1> DEFINE T == Name \cup {Gone}
           t == Append(s, n)
<1>1. s \in Seq(T) /\ n \in T OBVIOUS
<1>2. t \in Seq(T) /\ Len(t) = Len(s) + 1 /\ t[Len(t)] = n
      /\ (\A i \in 1 .. Len(s) : t[i] = s[i])
      /\ Len(s) \in Nat /\ DOMAIN s = 1 .. Len(s) /\ DOMAIN t = 1 .. Len(t)
  <2> HIDE DEF T
  <2> QED BY <1>1
<1> HIDE DEF t
<1>3. \A i \in 1 .. Len(s) : s[i] # n BY DEF MarkedIn
<1>4. MarkedIn(t) = MarkedIn(s) \cup {n}
  <2>1. ASSUME NEW m \in MarkedIn(t) PROVE m \in MarkedIn(s) \cup {n}
        BY <1>2, <2>1 DEF MarkedIn
  <2>2. ASSUME NEW m \in MarkedIn(s) PROVE m \in MarkedIn(t)
    <3>1. PICK i \in 1 .. Len(s) : s[i] = m BY <2>2 DEF MarkedIn
    <3>2. i \in 1 .. Len(t) /\ t[i] = m BY <1>2, <3>1
    <3> QED BY <2>2, <3>2 DEF MarkedIn
  <2>3. n \in MarkedIn(t)
    <3>1. Len(t) \in 1 .. Len(t) BY <1>2
    <3> QED BY <1>2, <3>1 DEF MarkedIn
  <2> QED BY <2>1, <2>2, <2>3
<1>5. Distinct(t)
  <2> SUFFICES ASSUME NEW i \in 1 .. Len(t), NEW j \in 1 .. Len(t), t[i] = t[j], t[i] # Gone
      PROVE  i = j
      BY <1>2 DEF Distinct
  <2>1. CASE i \in 1 .. Len(s) /\ j \in 1 .. Len(s) BY <1>2, <2>1 DEF Distinct
  <2>2. CASE i = Len(t) \/ j = Len(t)
    <3>1. t[i] = n /\ t[j] = n BY <1>2, <2>2
    <3> QED BY <1>2, <1>3, <2>2, <3>1
  <2> QED BY <1>2, <2>1, <2>2
<1> QED BY <1>2, <1>4, <1>5 DEF t

LEMMA RemoveMarker ==
    ASSUME NEW s \in Seq(Name \cup {Gone}), NEW n \in Name, Distinct(s), NEW t,
           t = [i \in DOMAIN s |-> IF s[i] = n THEN Gone ELSE s[i]]
    PROVE  /\ t \in Seq(Name \cup {Gone})
           /\ MarkedIn(t) = MarkedIn(s) \ {n}
           /\ Distinct(t)
<1> DEFINE T == Name \cup {Gone}
<1>1. Len(s) \in Nat /\ DOMAIN s = 1 .. Len(s) /\ \A i \in 1 .. Len(s) : s[i] \in T OBVIOUS
<1>2. t \in [1 .. Len(s) -> T] BY <1>1
<1>3. t \in Seq(T) /\ Len(t) = Len(s)
  <2> HIDE DEF T
  <2> QED BY <1>1, <1>2
<1>4. \A i \in 1 .. Len(s) : t[i] = IF s[i] = n THEN Gone ELSE s[i] BY <1>1
<1>5. MarkedIn(t) = MarkedIn(s) \ {n} BY <1>3, <1>4 DEF MarkedIn
<1>6. Distinct(t) BY <1>1, <1>2, <1>4 DEF Distinct
<1> QED BY <1>3, <1>5, <1>6

\* Every node has its marker and no two markers are of one node, since there are
\* no more markers than nodes.
LEMMA MapStarts == Init => MapInv
<1> SUFFICES ASSUME Init PROVE MapInv OBVIOUS
<1> DEFINE D == DOMAIN InitNodes
           c == Cardinality(D)
<1>1. /\ nodes = InitNodes /\ DOMAIN edges = InitEdges /\ layers = InitEdges
      /\ positions = NodePositions(InitNodes)
      /\ markers \in [1 .. c -> D] /\ Range(markers) = D
      BY DEF Init, Rendered
<1>2. IsFiniteSet(D) /\ D \subseteq Name OBVIOUS
<1>3. c \in Nat BY <1>2, FS_CardinalityType
<1>4. IsFiniteSet(1 .. c) /\ Cardinality(1 .. c) = c BY <1>3, FS_Interval
<1> HIDE DEF c
<1>5. markers \in Surjection(1 .. c, D) BY <1>1 DEF Surjection, Range
<1>6. markers \in Injection(1 .. c, D) BY <1>4, <1>5, FS_SurjSameCardinalityImpliesInj DEF c
<1>7. Distinct(markers) BY <1>1, <1>6 DEF Distinct, Injection, IsInjective
<1>8. DOMAIN positions = D BY <1>1 DEF NodePositions
<1>9. markers \in [1 .. c -> Name \cup {Gone}] BY <1>1, <1>2
<1>10. markers \in Seq(Name \cup {Gone}) /\ Len(markers) = c
  <2> DEFINE T == Name \cup {Gone}
  <2>1. markers \in [1 .. c -> T] BY <1>9
  <2> HIDE DEF T
  <2>2. markers \in Seq(T) /\ Len(markers) = c BY <1>3, <2>1
  <2> QED BY <2>2 DEF T
<1>11. MarkedIn(markers) = D
  <2>1. DOMAIN markers = 1 .. c BY <1>1
  <2> QED BY <1>1, <1>2, <1>10, <2>1 DEF MarkedIn, Range
<1> QED BY <1>1, <1>2, <1>7, <1>8, <1>10, <1>11, MapParts DEF MapInv

LEMMA MapStill ==
    ASSUME MapInv, UNCHANGED <<markers, layers>>, DOMAIN nodes' = DOMAIN nodes,
           DOMAIN edges' = DOMAIN edges, DOMAIN positions \subseteq DOMAIN positions'
    PROVE  MapInv'
BY MapParts, MapPartsNext DEF MapInv

LEMMA MapKept == MapInv /\ [Next]_vars => MapInv'
<1> SUFFICES ASSUME MapInv, [Next]_vars PROVE MapInv' OBVIOUS
<1>0. /\ MarkedIn(markers) = DOMAIN nodes /\ Distinct(markers)
      /\ layers = DOMAIN edges /\ DOMAIN nodes \subseteq DOMAIN positions
      BY MapParts DEF MapInv
<1>1. ASSUME NEW n \in Name, NEW p \in Pos \cup {NoPos},
             AddNode(n, p) \/ MapClick(n, p)
      PROVE  MapInv'
  <2>1. CASE UNCHANGED <<topology, map>> BY <2>1, MapStill DEF topology, map
  <2>2. CASE AddedAt(n, p) /\ n \notin DOMAIN nodes
    <3>1. /\ nodes' = Plus(nodes, n, p) /\ positions' = Plus(positions, n, Placed(p))
          /\ markers' = Append(markers, n) /\ UNCHANGED <<edges, layers>>
          BY <2>2 DEF AddedAt
    <3>2. /\ markers' \in Seq(Name \cup {Gone}) /\ Distinct(markers')
          /\ MarkedIn(markers') = DOMAIN nodes \cup {n}
          BY <1>0, <2>2, <3>1, AppendMarker DEF MapInv
    <3>3. /\ DOMAIN Plus(nodes, n, p) = DOMAIN nodes \cup {n}
          /\ DOMAIN Plus(positions, n, Placed(p)) = DOMAIN positions \cup {n}
          BY PlusDomain
    <3> QED BY <1>0, <3>1, <3>2, <3>3, MapPartsNext DEF MapInv
  <2>3. CASE AddedAt(n, p) /\ n \in DOMAIN nodes BY <2>1, <2>3 DEF AddedAt
  <2> QED BY <1>1, <2>1, <2>2, <2>3 DEF AddNode, MapClick, topology, map
<1>2. ASSUME NEW n \in Name, NEW p \in Pos \cup {NoPos}, EditNode(n, p) PROVE MapInv'
      BY <1>2, MapStill DEF EditNode, map
<1>3. ASSUME NEW n \in Name, NEW p \in Pos, Drag(n, p) PROVE MapInv'
      BY <1>3, MapStill DEF Drag, topology
<1>4. ASSUME NEW n \in Name, DeleteNode(n) PROVE MapInv'
  <2>1. /\ DOMAIN nodes' = DOMAIN nodes \ {n} /\ DOMAIN positions' = DOMAIN positions \ {n}
        /\ DOMAIN edges' = DOMAIN edges \ Incident(n)
        /\ layers' = {e \in layers : n \notin {e[1], e[2]}}
        /\ markers' = [i \in DOMAIN markers |->
                          IF markers[i] = n THEN Gone ELSE markers[i]]
        BY <1>4, MinusDomain DEF DeleteNode
  <2>2. /\ markers' \in Seq(Name \cup {Gone}) /\ Distinct(markers')
        /\ MarkedIn(markers') = DOMAIN nodes \ {n}
        BY <1>0, <2>1, RemoveMarker DEF MapInv
  <2>3. layers' = DOMAIN edges' BY <1>0, <2>1 DEF Incident
  <2> QED BY <1>0, <2>1, <2>2, <2>3, MapPartsNext DEF MapInv
<1>5. ASSUME NEW a \in Name, NEW b \in Name, AddEdge(a, b) PROVE MapInv'
  <2>1. /\ DOMAIN edges' = DOMAIN edges \cup {<<a, b>>}
        /\ {a, b} \subseteq DOMAIN nodes
        /\ layers' = layers \cup IF {a, b} \subseteq DOMAIN positions THEN {<<a, b>>} ELSE {}
        /\ UNCHANGED <<nodes, markers, positions>>
        BY <1>5, PlusDomain DEF AddEdge
  <2>2. layers' = DOMAIN edges' BY <1>0, <2>1
  <2> QED BY <1>0, <2>1, <2>2, MapPartsNext DEF MapInv
<1>6. ASSUME NEW e \in Name \X Name, EditEdge(e) PROVE MapInv'
      BY <1>6, MapStill DEF EditEdge, map
<1>7. ASSUME NEW e \in Name \X Name, DeleteEdge(e) PROVE MapInv'
  <2>1. /\ DOMAIN edges' = DOMAIN edges \ {e} /\ layers' = layers \ {e}
        /\ UNCHANGED <<nodes, markers, positions>>
        BY <1>7, MinusDomain DEF DeleteEdge
  <2> QED BY <1>0, <2>1, MapPartsNext DEF MapInv
<1>8. ASSUME NEW s \in Save, SaveClick(s) \/ SaveAnswer(s) PROVE MapInv'
      BY <1>8, SaveStep, MapStill
<1>9. ASSUME TogglePlace \/ (\E v \in Setting : FormFails(v))
             \/ (\E r \in Run, v, w \in Setting : RunClick(r, v, w))
             \/ (\E r \in Run : RunSucceeds(r) \/ RunFails(r))
      PROVE  MapInv'
  <2>1. UNCHANGED <<nodes, edges, map>>
        BY <1>9 DEF TogglePlace, FormFails, RunClick, RunSucceeds, RunFails, RunEnds, topology
  <2> QED BY <2>1, MapStill DEF map
<1>10. CASE UNCHANGED vars BY <1>10, MapStill DEF vars, topology, map
<1> QED BY <1>1, <1>2, <1>3, <1>4, <1>5, <1>6, <1>7, <1>8, <1>9, <1>10 DEF Next

\* The map shows the topology, one marker per node and one line per edge, and
\* every node has a position, whatever is edited behind a save
\* (topology_editor.py, the dicts of AppState).
THEOREM MapFollows == Spec => []MapShowsTopology
<1>1. MapInv => MapShowsTopology BY DEF MapInv
<1> QED BY <1>1, MapStarts, MapKept, PTL DEF Spec
=============================================================================
