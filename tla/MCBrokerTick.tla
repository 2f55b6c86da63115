---------------------------- MODULE MCBrokerTick ----------------------------
(* Instances of BrokerTick for TLC: a page batch whose P1 is cheaper, one  *)
(* whose P0 is cheaper, and one with no P1 that fills a round.             *)
EXTENDS BrokerTick
MCItems  == 1..3
MCWithP1 == {1, 2}
MCPages  == <<2, 1, 2>>
MCWeight == <<[P0 |-> 4, P1 |-> 2], [P0 |-> 2, P1 |-> 3], [P0 |-> 5, P1 |-> 0]>>
=============================================================================
