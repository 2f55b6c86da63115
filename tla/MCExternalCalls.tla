--------------------------- MODULE MCExternalCalls --------------------------
(* Instance of ExternalCalls for TLC: two calls over a request account and *)
(* a dollar account; one call does not touch the dollars.                  *)
EXTENDS ExternalCalls, TLC
CONSTANTS c1, c2
MCCalls == {c1, c2}
MCResources == {"requests", "usd"}
MCWorst == (c1 :> [requests |-> 1, usd |-> 2]) @@ (c2 :> [requests |-> 1, usd |-> 0])
MCCap == [requests |-> 2, usd |-> 2]
MCActuals == {[requests |-> 1, usd |-> u] : u \in {0, 1, 3}}
=============================================================================
