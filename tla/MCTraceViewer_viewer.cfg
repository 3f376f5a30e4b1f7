SPECIFICATION FairSpec
CONSTANTS
    alice = alice
    bob = bob
    carol = carol
    cli = cli
    morning = morning
    silent = silent
    fresh = fresh
    NoTx = NoTx
    None = None
    Node = {alice, bob, carol}
    Edge <- Line
    Source = {cli, morning, silent, fresh}
    Content <- Traces
    Cli = cli
    Saved = {morning, silent}
    Speed = {1, 2}
    Window = 2
    MaxAct = 4
INVARIANTS
    ViewMatches
    MapShowsNow
    StatsAgree
PROPERTIES
    SelectPauses
    PlaybackShows
CHECK_DEADLOCK FALSE
