---------------------------- MODULE MCBatchPublish ----------------------------
(* Two rounds of one researcher, as configs/week1.yaml runs them, and one   *)
(* round of two; turns of one search, of two, of two with one id, and a     *)
(* thought that takes the id of a search.                                   *)
EXTENDS BatchPublish

Search(id) == [id |-> id, kind |-> "search"]
MCPlans   == {<<1, 1>>, <<2>>}
MCBatches == {<<Search(1)>>, <<Search(1), Search(2)>>, <<Search(1), Search(1)>>,
              <<[id |-> 1, kind |-> "think"], [id |-> 3, kind |-> "complete"]>>}
===============================================================================
