----------------------------- MODULE MCCampaign -----------------------------
(***************************************************************************)
(* Instance of Campaign for TLC: two commits, two freezes, two commands.   *)
(* Beside it, what one canary does between its first cell and its verdict. *)
(* The two share no state: a behaviour does one of them.                   *)
(***************************************************************************)
EXTENDS Campaign, Canary, TLC

VARIABLE scenario   \* what this behaviour does

Variants(page, close) == [page |-> page, close |-> close]
MCKind ==
  [P0 |-> Variants("P0", "P0"),               H_MARKDOWN_ID |-> Variants("LLM", "P0"),
   H_HIERARCHICAL |-> Variants("HIER", "P0"), H_PLUS_C |-> Variants("LLM", "LLM"),
   H_CPU_CONTROL |-> Variants("CPU", "P0"),   H_PROSE_CONTROL |-> Variants("PROSE", "P0"),
   C_PROSE_CONTROL |-> Variants("P0", "PROSE")]
MCScreen == [a \in DOMAIN MCKind |-> 2]

(* One canary of two tasks, with an arm whose cells may differ; one of one  *)
(* task, with both halves of P1 and a hierarchical arm; and one of the      *)
(* control that has no direct record when all goes well.                    *)
CellOf(a, t) == [arm |-> a, task |-> t]
OneTask(arms) == [i \in DOMAIN arms |-> CellOf(arms[i], 1)]
MCBlocks ==
  {<<CellOf("H_MARKDOWN_ID", 1), CellOf("P0", 1), CellOf("P0", 2), CellOf("H_MARKDOWN_ID", 2),
     CellOf("H_CPU_CONTROL", 1), CellOf("C_PROSE_CONTROL", 1)>>,
   OneTask(<<"H_PLUS_C", "P0", "H_HIERARCHICAL", "H_CPU_CONTROL", "C_PROSE_CONTROL">>),
   OneTask(<<"P0", "H_PROSE_CONTROL", "H_MARKDOWN_ID", "H_CPU_CONTROL">>)}

\* an earlier campaign decoded for a selector, or left a call of it in flight
Earlier(state, tokens, seconds) == Call(CellOf("H_MARKDOWN_ID", 0), "LOCAL", state, tokens, seconds)
MCHistories == {<<>>, <<Earlier("COMMITTED", 1, 1)>>, <<Earlier("SENT", 0, 0)>>}

MCInit ==
  /\ Init /\ CanaryInit
  /\ \/ scenario = "campaign" /\ ledger = <<>> /\ Len(block) = 4
     \/ scenario = "canary"

MCNext ==
  /\ \/ scenario = "campaign" /\ Next /\ UNCHANGED canaryVars
     \/ scenario = "canary" /\ CanaryStep /\ UNCHANGED vars
  /\ UNCHANGED scenario

MCSpec == MCInit /\ [][MCNext]_<<vars, canaryVars, scenario>>

Symmetry == Permutations(Procs) \cup Permutations(Commits)
=============================================================================
