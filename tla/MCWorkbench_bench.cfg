SPECIFICATION Spec
CONSTANTS
    alice = alice
    bob = bob
    carol = carol
    origin = origin
    here = here
    Name = {alice, bob, carol}
    Pos = {origin, here}
    NoPos = NoPos
    Origin = origin
    Gone = Gone
    InitNodes <- TwoNodes
    InitEdges <- OneEdge
    Layout <- Circle
    Setting = {0}
    Save = {1}
    Run = {1}
    MaxEdit = 3
    NoFile = NoFile
INVARIANTS
    MapShowsTopology
    SavedIsSound
    UnsavedIsDirty
CHECK_DEADLOCK FALSE
