--------------------------- MODULE MCProseBatch ---------------------------
(* Two siblings of two pages and one; siblings of one call each, tried      *)
(* again with the prompt of an earlier call; a close.                       *)
EXTENDS ProseBatch
CONSTANTS p1, p2, p3
MCBody == [r \in Requests |-> IF r = p3 THEN p2 ELSE r]
MCPagesOf == [s \in {"s1", "s2", "s3", "s12"} |->
  CASE s = "s12" -> {p1, p2} [] s = "s1" -> {p1} [] s = "s2" -> {p2} [] s = "s3" -> {p3}]
MCPlans == {[scope |-> "per_page", tries |-> <<{"s12"}>>],
            [scope |-> "per_page", tries |-> <<{"s1", "s2"}>>],
            [scope |-> "whole_batch", tries |-> <<{"s1"}, {"s3"}>>],
            [scope |-> "close", tries |-> <<{"s1"}, {"s3"}>>]}
=============================================================================
