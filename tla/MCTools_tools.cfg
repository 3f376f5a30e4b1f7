SPECIFICATION Spec
CONSTANTS
    Keys = {1, 2, 3, 4}
    Place <- PlaceOf
    Texts = {"alice", "hill"}
    Measurements <- SomeEdges
    MaxRead = 2
    Estimates <- Levels
    Rank <- RankOf
    ReversePenalty = 5
    MaxGap = 30
    DefaultGap = 30
    MaxGood = 1
    MaxEdges = 2
    SnrFloor <- Floor
    Companions = 2
    CompanionNames <- TwoNames
    CompanionSnr = 12
    CompanionFloor <- Quiet
    HalfPenalty = 3
    MaxHeard = 1
    Devices = {d1, d2, d3}
    Places <- Spots
    Cell = 2
    Tolerance = 4
    MaxDistance = 5
    Counts = {1, 2}
    MinCount = 2
    OnlyRelays = FALSE
    MaxHistory = 2
INVARIANTS
    MeasuredWins
    CapsHold
    CompanionsMirror
    LinksWitnessed
CHECK_DEADLOCK FALSE
