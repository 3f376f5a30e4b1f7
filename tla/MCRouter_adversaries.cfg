SPECIFICATION Spec
CONSTANTS
    a = a  b = b  c = c
    long = long  junk = junk
    f = f
    Node = {a, b, c}
    Link <- Triangle
    Snr <- TriangleSnr
    Latency <- TriangleLatency
    QuarterSym = 1
    PreambleSymbols = 8
    CodingRate = 4
    CapDb = 6
    Packet = {long, junk}
    Fp = {f}
    Undecodable = Undecodable
    Fingerprint <- TwoPackets
    Airtime <- TwoAirtimes
    Garbled = {long, junk}
    SnrThreshold <- HighThreshold
    Lossy <- LossyLinks
    Adversary <- OneOfEach
    ReplayDelay = 5
    Retention = 63
    MaxLate = 1
    Clock <- ReplayClock
    MaxTx = 2
    MaxCapture = 1
    NoNode = NoNode
INVARIANTS
    TypeOK
    SettledOnce
    Accounted
    AtMostOneDecoded
CHECK_DEADLOCK FALSE
