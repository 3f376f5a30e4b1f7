--------------------------- MODULE MCTraceViewer ---------------------------
(* TraceViewer on three nodes in a line, with four small traces.           *)
EXTENDS TraceViewer, TLC

CONSTANTS alice, bob, carol, cli, morning, silent, fresh

Line == {{alice, bob}, {bob, carol}}

Loss(t, s, r, x, y) == [t |-> t, sender |-> s, receiver |-> r, tx |-> x, other |-> y]
Hop(t, s, r, x) == [t |-> t, sender |-> s, receiver |-> r, tx |-> x]
Packet(y, n, t, f, hops, cols, hds) ==
    [type |-> y, first |-> n, seen |-> t, flood |-> f,
     hops |-> hops, collisions |-> cols, halfduplex |-> hds]
On(n, t, u) == [sender |-> n, start |-> t, end |-> u]

\* An advert of bob, and one of alice that bob relays: his own advert and the
\* text of carol hide it from him at first.
FromCli ==
    [packets |-> <<Packet("advert", bob, 0, TRUE, <<Hop(1, bob, alice, 1), Hop(1, bob, carol, 1)>>,
                          <<>>, <<>>),
                   Packet("text", carol, 2, FALSE, <<Hop(5, carol, bob, 3)>>,
                          <<Loss(3, carol, bob, 2, 4)>>, <<>>),
                   Packet("advert", alice, 2, TRUE,
                          <<Hop(4, alice, bob, 5), Hop(6, bob, alice, 6), Hop(6, bob, carol, 6)>>,
                          <<Loss(3, alice, bob, 4, 2)>>, <<Loss(1, alice, bob, 7, 1)>>)>>,
     tx |-> 1 :> On(bob, 0, 1) @@ 2 :> On(carol, 2, 3) @@ 3 :> On(carol, 4, 5)
            @@ 4 :> On(alice, 2, 3) @@ 5 :> On(alice, 3, 4) @@ 6 :> On(bob, 5, 6)
            @@ 7 :> On(alice, 0, 1)]

\* One type of packets, from before transmissions were numbered.
FromMorning ==
    [packets |-> <<Packet("text", alice, 1, FALSE,
                          <<Hop(2, alice, bob, NoTx), Hop(4, bob, carol, NoTx)>>, <<>>, <<>>)>>,
     tx |-> <<>>]

\* A packet nobody received.
FromSilent ==
    [packets |-> <<Packet("advert", carol, 0, TRUE, <<>>, <<>>, <<>>)>>,
     tx |-> 1 :> On(carol, 0, 1)]

FromFresh ==
    [packets |-> <<Packet("text", bob, 0, TRUE, <<Hop(1, bob, carol, 1)>>, <<>>, <<>>),
                   Packet("advert", carol, 1, TRUE, <<Hop(3, carol, bob, 2)>>, <<>>, <<>>)>>,
     tx |-> 1 :> On(bob, 0, 1) @@ 2 :> On(carol, 2, 3)]

Traces == cli :> FromCli @@ morning :> FromMorning @@ silent :> FromSilent @@ fresh :> FromFresh
=============================================================================
