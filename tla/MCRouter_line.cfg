SPECIFICATION Spec
CONSTANTS
    a = a  b = b  c = c
    long = long  junk = junk
    f = f
    Node = {a, b, c}
    Link <- Line
    Snr <- LineSnr
    Latency <- LineLatency
    QuarterSym = 1
    PreambleSymbols = 8
    CodingRate = 4
    CapDb = 6
    Packet = {long}
    Fp = {f}
    Undecodable = Undecodable
    Fingerprint <- OneFingerprint
    Airtime <- OneAirtime
    Garbled = {}
    SnrThreshold <- Threshold
    Lossy = {}
    Adversary <- AllHonest
    ReplayDelay = 0
    Retention = 63
    MaxLate = 1
    Clock <- AirClock
    MaxTx = 3
    MaxCapture = 0
    NoNode = NoNode
PROPERTY
    ImplementsMedium
INVARIANT
    TraceAgreesWithAir
    NotifiedBeforeDelivered
CHECK_DEADLOCK FALSE
