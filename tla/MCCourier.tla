----------------------------- MODULE MCCourier -----------------------------
(* Courier on three endpoints and a room server.                           *)
EXTENDS Courier

CONSTANTS a, b, c, r

\* a has heard b and the room server, which has heard everybody; b and c have
\* heard nobody yet.
Heard == [n \in Node |-> CASE n = a -> <<b, r>>
                            [] n = r -> <<a, b, c>>
                            [] OTHER -> << >>]
=============================================================================
