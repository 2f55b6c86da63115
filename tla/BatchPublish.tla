---------------------------- MODULE BatchPublish ----------------------------
(***************************************************************************)
(* The publication boundary of one cell: the patched vendor graph with     *)
(* odr/vendor_hooks.py and odr/adapter.py around it, the strategies of     *)
(* strategies/page_h.py, p0.py and close_visible.py behind it, and the     *)
(* recorder and result of campaign/graph_driver.py run_cell.  A supervisor *)
(* starts researchers in rounds; a researcher alternates model turns and   *)
(* tool batches, then closes.  Every await is a step boundary.             *)
(***************************************************************************)
EXTENDS Integers, FiniteSets, Sequences, SequencesExt, Functions

CONSTANTS Plans,        \* rounds of a supervisor: how many researchers in each
          Batches,      \* what a model turn may ask: sequences of [id, kind]
          Occurrences,  \* source occurrences one search returns
          MaxTurns      \* max_react_tool_calls

ASSUME BatchAssumption ==
  /\ \A plan \in Plans : plan \in Seq(Nat \ {0})
  /\ \A b \in Batches : b # <<>> /\ \A i \in DOMAIN b :
       b[i].kind \in {"search", "think", "complete"}
  /\ MaxTurns \in Nat \ {0}

Researchers == UNION {UNION {{<<i, j>> : j \in 1..plan[i]} : i \in DOMAIN plan} : plan \in Plans}

VARIABLES arm,       \* what the cell runs: plan, variants, trial or end to end (never changes)
          cell,      \* the supervisor and run_cell
          res,       \* the researchers
          outcomes,  \* page.last_outcomes: one strategy object for the whole cell
          said       \* the selection records that the last step emitted
vars == <<arm, cell, res, outcomes, said>>

Arms == [plan : Plans, page : {"P0", "P1"}, close : {"P0", "P1"}, trial : BOOLEAN,
         scope : {"per_tool_call", "hierarchical", "whole_batch"}]
Absent == [pc |-> "absent", asked |-> <<>>, told |-> <<>>, prov |-> <<>>]

Init ==
  /\ arm \in {a \in Arms : a.page = "P0" => a.scope = "per_tool_call"}
  /\ cell = [pc |-> "supervising", round |-> 0, marked |-> FALSE]
  /\ res = [r \in Researchers |-> Absent]
  /\ outcomes = {} /\ said = {}

-----------------------------------------------------------------------------
At(r, pc)   == res[r].pc = pc
Goto(r, pc) == res' = [res EXCEPT ![r].pc = pc]
\* the child's binding is reset and its conversation is gone
Ends(r, pc) == res' = [res EXCEPT ![r] = [Absent EXCEPT !.pc = pc]]
Quiet       == said' = {} /\ UNCHANGED arm

Turn(r)     == Len(res[r].asked)
Batch(r)    == res[r].asked[Turn(r)]
Searches(b) == {i \in DOMAIN b : b[i].kind = "search"}
Ids(b)      == {b[i].id : i \in DOMAIN b}
Said        == [form |-> "said", made |-> {}]
Vendor      == [form |-> "vendor", made |-> Occurrences]

TreatmentNode == IF arm.page # "P0" THEN "H" ELSE IF arm.close # "P0" THEN "C" ELSE "none"

\* the recorder labels the first event of the treatment's node
Mark(node) == cell' = [cell EXCEPT !.marked = @ \/ TreatmentNode = node]

(* one record for each outcome the strategy object holds; a failure without *)
(* outcomes gets a record of its own                                        *)
Emit(r, held, failed) ==
  /\ said' = IF held = {} /\ failed
             THEN {[batch |-> <<r, Turn(r)>>, by |-> <<r, Turn(r)>>, accepted |-> FALSE]}
             ELSE {[batch |-> <<r, Turn(r)>>, by |-> o.by, accepted |-> o.ok /\ ~failed] :
                    o \in held}
  /\ Mark("H")

-----------------------------------------------------------------------------
(* record_tool_batch_publication                                           *)
Messages(b, texts) ==
  [i \in DOMAIN b |-> [id |-> b[i].id, kind |-> b[i].kind,
                       text |-> IF i \in Searches(b) THEN texts[i] ELSE Said]]

Entries(r, b, texts, sources) ==
  [id \in Ids(b) |->
     LET i == CHOOSE i \in DOMAIN b : b[i].id = id
     IN [kind |-> b[i].kind, text |-> Messages(b, texts)[i].text, turn |-> Turn(r),
         sources |-> IF i \in Searches(b) THEN sources[i] ELSE {}]]

Conflict(prov, staged) ==
  \E id \in DOMAIN prov \cap DOMAIN staged : prov[id] # staged[id]

\* the sidecar's update: a staged entry takes the place of one of its id
Committed(prov, staged) ==
  [id \in DOMAIN prov \cup DOMAIN staged |->
     IF id \in DOMAIN staged THEN staged[id] ELSE prov[id]]

AfterTools(r) ==
  IF Turn(r) >= MaxTurns \/ \E i \in DOMAIN Batch(r) : Batch(r)[i].kind = "complete"
  THEN "close" ELSE "model"

(* The ToolMessages are built and certified without an await in between; a  *)
(* batch that is refused here has already been reported as reduced.         *)
Publish(r, texts, sources) ==
  LET b      == Batch(r)
      staged == Entries(r, b, texts, sources)
  IN IF ~IsInjective([i \in DOMAIN b |-> b[i].id]) \/ Conflict(res[r].prov, staged)
     THEN Ends(r, "refused")
     ELSE res' = [res EXCEPT ![r].told = Append(@, Messages(b, texts)),
                             ![r].prov = Committed(@, staged),
                             ![r].pc = AfterTools(r)]

-----------------------------------------------------------------------------
(* a researcher's turns                                                    *)
Take(r) ==
  /\ At(r, "model") /\ Turn(r) < MaxTurns
  /\ \/ \E b \in Batches :
          res' = [res EXCEPT ![r].asked = Append(@, b), ![r].pc = "tools"]
     \/ Goto(r, "close")
  /\ Quiet /\ UNCHANGED <<cell, outcomes>>

\* transform_tool_batch of a page strategy resets its outcomes before it awaits
AtStart == IF arm.page = "P1" THEN {} ELSE outcomes

(* The gather over the calls: searches come back deferred.  A batch without *)
(* one is published as it is and leaves the sidecar alone.  Otherwise       *)
(* transform_tool_batch begins, and resets last_outcomes.                   *)
RunTools(r) ==
  /\ At(r, "tools")
  /\ IF Searches(Batch(r)) = {}
     THEN /\ res' = [res EXCEPT ![r].told = Append(@, Messages(Batch(r), <<>>)),
                                ![r].pc = AfterTools(r)]
          /\ UNCHANGED outcomes
     ELSE /\ Goto(r, "reducing")
          /\ outcomes' = AtStart
  /\ Quiet /\ UNCHANGED cell

\* _resolve_failure: a trial records it and raises, end to end starts the vendor's closures
Fails(r, held) ==
  /\ outcomes' = held
  /\ IF arm.trial
     THEN Emit(r, held, TRUE) /\ Ends(r, "stopped")
     ELSE Goto(r, "fallback") /\ said' = {} /\ UNCHANGED cell

SelectorRefuses(r) == arm.scope = "whole_batch" /\ Cardinality(Searches(Batch(r))) # 1

\* what a sibling may publish, and the sources it says it used: in the
\* hierarchical scope the global selection, not the shortlist it was taken from
Selections ==
  {sel \in [ok : BOOLEAN, short : SUBSET Occurrences, final : SUBSET Occurrences] :
     /\ IF arm.scope = "hierarchical" THEN sel.final \subseteq sel.short
        ELSE sel.final = sel.short
     /\ ~sel.ok => sel.final = {}}
\* Mutant: the sources of the shortlist are claimed for the reduced text
ClaimsShortlist(sel) == sel.short

Claimed(sel) == sel.final

Held(r, picks) == outcomes \cup {[by |-> <<r, Turn(r)>>, ok |-> picks[i].ok] : i \in DOMAIN picks}

\* Mutant: the siblings that were reduced are kept, the others are the vendor's
StagesSome(picks, b) == IsInjective([i \in DOMAIN b |-> b[i].id])

\* what reduce_tool_batch stages: all siblings or none
Stages(picks, b) ==
  /\ \A i \in Searches(b) : picks[i].ok
  /\ IsInjective([i \in Searches(b) |-> b[i].id])

\* the texts of a staged batch
Texts(picks, b) ==
  [i \in Searches(b) |-> IF picks[i].ok THEN [form |-> "p1", made |-> picks[i].final] ELSE Vendor]

ReduceP1(r) ==
  LET b == Batch(r) IN
  /\ At(r, "reducing") /\ arm.page = "P1" /\ UNCHANGED arm
  /\ IF SelectorRefuses(r) THEN Fails(r, outcomes)
     ELSE \E picks \in [Searches(b) -> Selections] :
            IF Stages(picks, b)
            THEN /\ outcomes' = Held(r, picks)
                 /\ Emit(r, Held(r, picks), FALSE)
                 /\ Publish(r, Texts(picks, b), [i \in Searches(b) |->
                      IF picks[i].ok THEN Claimed(picks[i]) ELSE Occurrences])
            ELSE Fails(r, Held(r, picks))

\* HandleDomainError goes through every handler of the adapter
HandleDomain(r) ==
  /\ At(r, "reducing") /\ arm.page = "P1" /\ ~SelectorRefuses(r)
  /\ Ends(r, "stopped") /\ Quiet /\ UNCHANGED <<cell, outcomes>>

\* the explicit vendor strategy: its closures, gathered; one of them may raise
ReduceP0(r) ==
  LET b == Batch(r) IN
  /\ At(r, "reducing") /\ arm.page = "P0" /\ UNCHANGED arm
  /\ \/ /\ IsInjective([i \in Searches(b) |-> b[i].id])
        /\ Publish(r, [i \in Searches(b) |-> Vendor], [i \in Searches(b) |-> Occurrences])
        /\ Emit(r, {}, FALSE) /\ UNCHANGED outcomes
     \/ Fails(r, outcomes)

\* the fallback's closures: one that raises leaves the batch unpublished and unrecorded
Render(r) ==
  LET b == Batch(r) IN
  /\ At(r, "fallback") /\ UNCHANGED <<arm, outcomes>>
  /\ \/ /\ Publish(r, [i \in Searches(b) |-> Vendor], [i \in Searches(b) |-> Occurrences])
        /\ Emit(r, IF arm.page = "P1" THEN outcomes ELSE {}, TRUE)
     \/ Ends(r, "failed") /\ said' = {} /\ UNCHANGED cell

-----------------------------------------------------------------------------
(* RESEARCHER_CLOSE                                                        *)
\* freeze_messages: a message whose id is in the sidecar is what was certified
FreezeAccepts(r) ==
  \A n \in DOMAIN res[r].told : \A i \in DOMAIN res[r].told[n] :
    LET m == res[r].told[n][i] IN
    m.id \in DOMAIN res[r].prov =>
      m.kind = res[r].prov[m.id].kind /\ m.text = res[r].prov[m.id].text

\* Mutant: the close hangs off the page path
StartCloseAfterBatch(r) ==
  /\ At(r, "close") /\ res[r].told # <<>>
  /\ IF ~FreezeAccepts(r) THEN Ends(r, "refused")
     ELSE Goto(r, IF arm.close = "P0" THEN "compressing" ELSE "closing")
  /\ Quiet /\ UNCHANGED <<cell, outcomes>>

\* a researcher may close with no batch told at all
StartClose(r) ==
  /\ At(r, "close")
  /\ IF ~FreezeAccepts(r) THEN Ends(r, "refused")
     ELSE Goto(r, IF arm.close = "P0" THEN "compressing" ELSE "closing")
  /\ Quiet /\ UNCHANGED <<cell, outcomes>>

\* what close_researcher may come to: a handoff, or a registry, view or selection
\* that is refused, which raises
CloseOutcomes == {"handoff", "refused"}

Close(r) ==
  /\ At(r, "closing") /\ Quiet /\ UNCHANGED outcomes /\ Mark("C")
  /\ \E outcome \in CloseOutcomes :
       CASE outcome = "handoff" -> Ends(r, "noted_p1")
         [] arm.trial           -> Ends(r, "stopped")
         [] OTHER               -> Goto(r, "compressing")

\* the vendor's compress_research, which answers its own errors
Compress(r) ==
  /\ At(r, "compressing")
  /\ Ends(r, "noted") /\ Quiet /\ UNCHANGED <<cell, outcomes>>

-----------------------------------------------------------------------------
(* The supervisor (vendor code) and run_cell.                              *)
Noted   == {"noted", "noted_p1"}
Aborted == {"stopped", "refused", "failed"}
Live(r) == res[r].pc \notin Noted \cup Aborted \cup {"absent"}
Running == {r \in Researchers : r[1] = cell.round /\ res[r].pc # "absent"}

(* each child is bound under its own coordinate (round, ordinal)            *)
StartRound ==
  /\ cell.pc = "supervising" /\ cell.round < Len(arm.plan)
  /\ cell' = [cell EXCEPT !.pc = "gathering", !.round = @ + 1]
  /\ res' = [r \in Researchers |->
               IF r[1] = cell.round + 1 /\ r[2] <= arm.plan[cell.round + 1]
               THEN [Absent EXCEPT !.pc = "model"] ELSE res[r]]
  /\ Quiet /\ UNCHANGED outcomes

EndRound ==
  /\ cell.pc = "gathering" /\ \A r \in Running : res[r].pc \in Noted
  /\ cell' = [cell EXCEPT !.pc = "supervising"]
  /\ Quiet /\ UNCHANGED <<res, outcomes>>

(* the first exception out of the gather ends the research with the notes   *)
(* there are; siblings that still run are left to run                       *)
Swallow ==
  /\ cell.pc = "gathering" /\ \E r \in Running : res[r].pc \in Aborted
  /\ cell' = [cell EXCEPT !.pc = "reporting"]
  /\ Quiet /\ UNCHANGED <<res, outcomes>>

EndResearch ==
  /\ cell.pc = "supervising" /\ cell.round > 0
  /\ cell' = [cell EXCEPT !.pc = "reporting"]
  /\ Quiet /\ UNCHANGED <<res, outcomes>>

\* the report is written, or the graph raises: CellResult.error
Report ==
  /\ cell.pc = "reporting"
  /\ \E end \in {"ok", "error"} : cell' = [cell EXCEPT !.pc = end]
  /\ Quiet /\ UNCHANGED <<res, outcomes>>

GraphFails ==
  /\ cell.pc = "supervising"
  /\ cell' = [cell EXCEPT !.pc = "error"]
  /\ Quiet /\ UNCHANGED <<res, outcomes>>

Research(r) ==
  \/ Take(r) \/ RunTools(r) \/ ReduceP1(r) \/ HandleDomain(r) \/ ReduceP0(r)
  \/ Render(r) \/ StartClose(r) \/ Close(r) \/ Compress(r)
Supervise == StartRound \/ EndRound \/ Swallow \/ EndResearch \/ Report \/ GraphFails

Next == Supervise \/ \E r \in Researchers : Research(r)
\* every await of a cell is bounded by a timeout of its own
Fairness == WF_vars(Supervise) /\ \A r \in Researchers : WF_vars(Research(r))
Spec == Init /\ [][Next]_vars /\ Fairness

-----------------------------------------------------------------------------
Book == INSTANCE BatchBook WITH asked <- [r \in Researchers |-> res[r].asked],
                                told <- [r \in Researchers |-> res[r].told]

(* A turn's calls are answered whole, in order, and by one renderer: never  *)
(* one sibling of the strategy beside one of the vendor, whatever sibling   *)
(* failed, and in the vendor's case with every source (adapter.py,          *)
(* reduce_tool_batch and _resolve_failure).                                 *)
ImplementsBatchBook == Book!Spec

(* When a researcher has closed, the sidecar its view was cut from binds    *)
(* every certified message to the bytes in the conversation and to exactly  *)
(* the sources these bytes were made of, however ids were reused            *)
(* (vendor_hooks.py record_tool_batch_publication, adapter.py               *)
(* freeze_messages).                                                        *)
FrozenProvenanceIsPublished ==
  \A r \in Researchers : res[r].pc \in {"closing", "compressing"} =>
    /\ \A n \in DOMAIN res[r].told : \A i \in DOMAIN res[r].told[n] :
         LET m == res[r].told[n][i] IN
         m.id \in DOMAIN res[r].prov =>
           res[r].prov[m.id].text = m.text /\ res[r].prov[m.id].sources = m.text.made
    /\ \A n \in DOMAIN res[r].told : \A i \in DOMAIN res[r].told[n] :
         res[r].asked[n][i].kind = "search" => res[r].told[n][i].id \in DOMAIN res[r].prov

\* text of a page strategy, or of a close strategy, has been handed to a model
PageTextRead ==
  \E r \in Researchers : \E n \in DOMAIN res[r].told : \E i \in DOMAIN res[r].told[n] :
    res[r].told[n][i].text.form = "p1"
CloseTextRead == \E r \in Researchers : res[r].pc = "noted_p1"

(* What graph_driver.py 391 says of the recorder: it labels the first       *)
(* actual H/C intervention.                                                 *)
FirstInterventionIsLabelled == PageTextRead \/ CloseTextRead => cell.marked

(* Whatever fails, the cell comes to an answer or an error (run_cell).      *)
EveryCellEnds == <>(cell.pc \in {"ok", "error"})

(* What vendor_hooks.py 583 says of a component trial's failure: raising    *)
(* aborts the whole cell.                                                   *)
AbortStopsTheCell ==
  cell.pc = "ok" => \A r \in Researchers : res[r].pc # "stopped"
=============================================================================
