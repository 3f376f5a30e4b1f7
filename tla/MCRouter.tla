------------------------------ MODULE MCRouter ------------------------------
(* Small networks for Router.                                              *)
EXTENDS Router, TLC

CONSTANTS a, b, c,                \* nodes
          long, junk,             \* packets: a garbled one decodes to nothing
          f                       \* fingerprint

Both(S) == S \cup {<<e[2], e[1]>> : e \in S}

Line     == Both({<<a, b>>, <<b, c>>})
Triangle == Both({<<a, b>>, <<b, c>>, <<a, c>>})

On(S, fn) == [e \in S |-> fn[e]]

TwoPackets == long :> f @@ junk :> Undecodable
TwoAirtimes == [p \in {long, junk} |-> 60]

\* At b, a and c are within the capture threshold of each other; at a, b
\* captures c; b's link to c is just above the decoding threshold.
TriangleSnr ==
    <<a, b>> :> 8  @@ <<c, b>> :> 5 @@ <<b, a>> :> 8 @@
    <<c, a>> :> 2  @@ <<a, c>> :> 3 @@ <<b, c>> :> -7

TriangleLatency ==
    <<a, b>> :> 1 @@ <<c, b>> :> 2 @@ <<b, a>> :> 1 @@
    <<c, a>> :> 0 @@ <<a, c>> :> 0 @@ <<b, c>> :> 2

OneFingerprint == On({long}, TwoPackets)
OneAirtime == On({long}, TwoAirtimes)

LineSnr == On(Line, TriangleSnr)
LineLatency == On(Line, TriangleLatency)

\* Under Threshold every link decodes; under HighThreshold b's link to c is lost.
Threshold     == -8
HighThreshold == -6

AirClock == {45, 55, 100, 130}

ReplayClock == {70}
LongClock == {50, 95}

AllHonest  == [n \in Node |-> "none"]
OneOfEach  == a :> "drop" @@ b :> "corrupt" @@ c :> "replay"
TwoReplays == a :> "none" @@ b :> "replay" @@ c :> "replay"
LossyLinks == {<<a, b>>, <<b, a>>}
=============================================================================
