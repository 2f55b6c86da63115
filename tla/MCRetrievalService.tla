------------------------- MODULE MCRetrievalService -------------------------
(* A frozen world that is in force, one that is not yet, another index, a   *)
(* corpus with a gap, and a report whose flag its evidence does not bear;   *)
(* one client pinned to a freeze and one to none.                           *)
EXTENDS RetrievalService

Docs == {"d1", "d2"}
World(index, effective) ==
  [index |-> [id |-> index, docs |-> Docs], corpus |-> [id |-> "corpus", docs |-> Docs],
   report |-> [ok |-> TRUE, sound |-> TRUE, index |-> index, spec |-> "bf16"], encodes |-> TRUE,
   freeze |-> [index |-> index, corpus |-> "corpus", spec |-> "bf16", effective |-> effective]]
MCHosts == {World("i1", TRUE), World("i1", FALSE), World("i2", TRUE),
            [World("i1", TRUE) EXCEPT !.corpus.docs = {"d1"}],
            [World("i2", TRUE) EXCEPT !.report.sound = FALSE]}
MCMaxAsked == [c \in Clients |-> IF c = "pinned" THEN 2 ELSE 1]
MCPins == [c \in Clients |-> IF c = "pinned" THEN [freeze |-> World("i1", TRUE).freeze, effective |-> TRUE]
                             ELSE [freeze |-> None, effective |-> FALSE]]
=============================================================================
