SPECIFICATION FairSpec
CONSTANTS
    a = a  b = b  c = c
    long = long  junk = junk
    f = f
    Node = {a, b, c}
    Link <- Line
    Snr <- LineSnr
    Latency <- LineLatency
    QuarterSym = 1
    PreambleSymbols = 8
    CodingRate = 4
    CapDb = 6
    Packet = {long}
    Fp = {f}
    Undecodable = Undecodable
    Fingerprint <- OneFingerprint
    Airtime <- OneAirtime
    Garbled = {}
    SnrThreshold <- Threshold
    Lossy <- LossyLinks
    Adversary <- TwoReplays
    ReplayDelay = 5
    Retention = 63
    MaxLate = 1
    Clock <- ReplayClock
    MaxTx = 1
    MaxCapture = 2
    NoNode = NoNode
PROPERTIES
    EveryDeliverySettles
    EveryReplayEnds
CHECK_DEADLOCK FALSE
