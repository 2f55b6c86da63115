----------------------------- MODULE Selection -----------------------------
(***************************************************************************)
(* One selector call of a P1 arm, strategies/pipeline.py run_selection:     *)
(* prompt admission, the candidate view, the selector's raw output, its     *)
(* parsing, an aggregator and the preflight that owns what is published.    *)
(* The output is whatever a model may emit under the closed schema.  A span *)
(* is a page, a place in it, a size and a score; a rendered text is what it *)
(* costs.                                                                  *)
(***************************************************************************)
EXTENDS Integers, FiniteSets, Sequences, SequencesExt, FiniteSetsExt, Functions, Sorting

CONSTANTS
  span,       \* span[s]: page, place in the canonical order, tokens, score, citable
  Setups,     \* the arms: contract, aggregation, offered spans, budgets, coordinate
  words,      \* tokens of a bridge, by its text
  Lines,      \* typed lines a selector may emit: label, facets, role
  MaxLines,   \* bound: lines of one output
  GapSets, BridgeSeqs,      \* gaps (facets) and bridges (text, labels) it may emit
  Header, Frame,  \* tokens of a source header; of a candidate's frame in the prompt
  Slack,      \* the margin an admission attempt gives up (256)
  MaxAttempts,  \* admission attempts (6)
  Overall,    \* OVERALL_FACET
  radix,      \* HandleRadices: iteration, child, turn, toolset, evidence
  Base        \* letters of a handle (26)

\* HandleRadices.__post_init__: every radix is a positive integer; a batch is a sequence of spans
ASSUME HandleAssumption ==
  /\ Base \in Nat \ {0}
  /\ radix \in [{"iteration", "child", "turn", "toolset", "evidence"} -> Nat \ {0}]
ASSUME BatchIsSpans == \A a \in Setups : a.offered \in Seq(DOMAIN span)
\* sizes are counts, scores are ordered, and what the closed schema lets a selector emit is finite
ASSUME SizesAreCounts ==
  /\ \A s \in DOMAIN span : span[s].tokens \in Nat /\ span[s].score \in Int /\ span[s].place \in Int
  /\ Header \in Nat /\ words \in [DOMAIN words -> Nat] /\ \A a \in Setups : a.budget \in Int
ASSUME OutputsAreFinite ==
  /\ \A G \in GapSets : IsFiniteSet(G)
  /\ \A q \in BridgeSeqs : q \in Seq([text : DOMAIN words, labels : Seq(Nat)])

VARIABLES setup, pc, room, view, raw, selection, evidence, failure
selectionVars == <<setup, pc, room, view, raw, selection, evidence, failure>>

Offered == setup.offered     \* the batch's spans, a sequence
Before(s, t) == span[s].place < span[t].place
SumOver(S, f(_)) == FoldSet(LAMBDA s, n : f(s) + n, 0, S)

-----------------------------------------------------------------------------
(* prompt_pack_v1: one span of every page first, then round by round        *)
Pages(spans) == {span[s].page : s \in ToSet(spans)}
\* the spans of a page, best score first, ties by the offered order
Ranked(spans, p) ==
  Sorted({i \in DOMAIN spans : span[spans[i]].page = p},
         LAMBDA i, j : \/ span[spans[i]].score > span[spans[j]].score
                       \/ span[spans[i]].score = span[spans[j]].score /\ i < j)
\* pages as the batch offered them
PageOrder(spans) ==
  Sorted(Pages(spans), LAMBDA p, q : Min({i \in DOMAIN spans : span[spans[i]].page = p})
                                     < Min({i \in DOMAIN spans : span[spans[i]].page = q}))
PackFloor(spans) == {Ranked(spans, p)[1] : p \in Pages(spans)}

\* the fill order: by depth, then by page
FillOrder(spans) ==
  Sorted({x \in (2..Len(spans)) \X DOMAIN PageOrder(spans) :
            x[1] <= Len(Ranked(spans, PageOrder(spans)[x[2]]))},
         LAMBDA x, y : x[1] < y[1] \/ (x[1] = y[1] /\ x[2] < y[2]))
TokensAt(spans, I) == SumOver(I, LAMBDA i : span[spans[i]].tokens)

\* Mutant: the room goes to the best spans of the batch, whatever their page
PackByScore(spans, budget) ==
  FoldLeft(LAMBDA I, i : IF TokensAt(spans, I \cup {i}) <= budget THEN I \cup {i} ELSE I,
           {}, Sorted(DOMAIN spans, LAMBDA i, j : \/ span[spans[i]].score > span[spans[j]].score
                                                  \/ span[spans[i]].score = span[spans[j]].score /\ i < j))

\* the admitted positions; the caller has seen that the floor fits
PromptPack(spans, budget) ==
  FoldLeft(LAMBDA I, x : LET i == Ranked(spans, PageOrder(spans)[x[2]])[x[1]]
                         IN IF TokensAt(spans, I \cup {i}) <= budget THEN I \cup {i} ELSE I,
           PackFloor(spans), FillOrder(spans))

\* the offered order is kept
Keep(spans, I) == [k \in 1..Cardinality(I) |-> spans[Sorted(I, <)[k]]]

PromptTokens(spans) == SumOver(DOMAIN spans, LAMBDA i : span[spans[i]].tokens + Frame)

-----------------------------------------------------------------------------
(* handle_codec.py: a span's ordinals packed by mixed radix, written in     *)
(* bijective base 26.                                                      *)
Structurals == 1 + radix.iteration * radix.child
Capacity == Structurals * radix.turn * radix.toolset * radix.evidence
\* zero is "not inside a researcher"
Structural(r) == IF r = <<>> THEN 0 ELSE 1 + r[1] * radix.child + r[2]
Positions == {<<>>} \cup ((0..(radix.iteration - 1)) \X (0..(radix.child - 1)))

\* both coordinates lie within their own radices
Placed(r) == r \in Positions
Coordinates == [structural : 0..(Structurals - 1), turn : 0..(radix.turn - 1),
                toolset : 0..(radix.toolset - 1), evidence : 1..radix.evidence]

PackHandle(c) ==
  ((c.structural * radix.turn + c.turn) * radix.toolset + c.toolset) * radix.evidence + (c.evidence - 1)

letters[n \in 0..(Capacity + 1)] ==
  IF n = 0 THEN <<>> ELSE Append(letters[(n - 1) \div Base], ((n - 1) % Base) + 1)
Encode(c) == letters[PackHandle(c) + 1]
Decode(h) ==
  LET n == FoldLeft(LAMBDA v, d : v * Base + d, 0, h) - 1
      e == n \div radix.evidence
      t == e \div radix.toolset
  IN [structural |-> t \div radix.turn, turn |-> t % radix.turn,
      toolset |-> e % radix.toolset, evidence |-> (n % radix.evidence) + 1]

\* ordinals are those of the whole batch, before admission
Coordinate(s) == [structural |-> Structural(setup.researcher), turn |-> setup.turn, toolset |-> setup.toolset,
                  evidence |-> SelectInSeq(Offered, LAMBDA x : x = s)]

-----------------------------------------------------------------------------
(* parse_selection                                                         *)
FacetsOf(l) == IF l.facets = {} THEN {Overall} ELSE l.facets

\* the (span, facet, role) triples of the lines; a line without facets is about everything
Relations(r) == UNION {{<<view[l.label], f, l.role>> : f \in FacetsOf(l)} : l \in ToSet(r.lines)}

\* every label is one of the view's, in the lines and in the bridges; a bridge binds one at least
InSet(r) == /\ \A l \in ToSet(r.lines) : l.label \in DOMAIN view
            /\ \A b \in ToSet(r.bridges) : b.labels # <<>> /\ ToSet(b.labels) \subseteq DOMAIN view
ConflictOnFacet(R) == \E x, y \in R : x[1] = y[1] /\ x[2] = y[2] /\ x[3] # y[3]
\* a facet is answered or a gap, never both
FacetsClosed(R, r) == \A x \in R : x[2] \notin r.gaps

Readable(r) ==
  /\ InSet(r)
  /\ setup.contract = "P1_ID" \/ (~ConflictOnFacet(Relations(r)) /\ FacetsClosed(Relations(r), r))

\* first seen first; a second naming of a span adds its relations, a bridge said again nothing
FirstSeen(q) == FoldLeft(LAMBDA p, x : IF x \in ToSet(p) THEN p ELSE Append(p, x), <<>>, q)
Items(r) == FirstSeen([k \in DOMAIN r.lines |-> view[r.lines[k].label]])
Cited(b) == FirstSeen([i \in DOMAIN b.labels |-> view[b.labels[i]]])
Binding(b) == [text |-> b.text, cited |-> Cited(b), on |-> ToSet(Cited(b))]
Bound(r) == FirstSeen([k \in DOMAIN r.bridges |-> Binding(r.bridges[k])])
Parse(r) ==
  [items |-> Items(r), rel |-> IF setup.contract = "P1_ID" THEN {} ELSE Relations(r), gaps |-> r.gaps,
   bridges |-> Bound(r)]

-----------------------------------------------------------------------------
(* aggregators.py.  Evidence is a set of spans: the order it is rendered in *)
(* is the canonical one.                                                   *)
RolesOf(sel, s) == {x[3] : x \in {y \in sel.rel : y[1] = s}}
RolesOn(sel, kept, f) == {x[3] : x \in {y \in sel.rel : y[2] = f /\ y[1] \in kept}}
Conflicts(sel) == {f \in {x[2] : x \in sel.rel} : {"support", "contradict"} \subseteq RolesOn(sel, ToSet(sel.items), f)}
OnConflict(sel, s) == \E x \in sel.rel : x[1] = s /\ x[2] \in Conflicts(sel)

RoleRank(r) == CASE r = "contradict" -> 0 [] r = "support" -> 1 [] OTHER -> 3
Rank(sel, s) == Min({RoleRank(r) : r \in RolesOf(sel, s)} \cup (IF RolesOf(sel, s) = {} THEN {2} ELSE {}))

\* bridges all of whose spans are there
Supported(sel, kept) ==
  FoldLeft(LAMBDA q, b : IF b.on \subseteq kept THEN Append(q, b) ELSE q, <<>>, sel.bridges)

Words(bridges) == FoldLeft(LAMBDA n, b : n + words[b.text], 0, bridges)

\* renderer.py: a run of adjacent spans of one page shares its header
RunHeads(kept) == {s \in kept : ~\E t \in kept : span[t].page = span[s].page /\ span[t].place + 1 = span[s].place}
Cost(sel, kept, bridges) ==
  SumOver(kept, LAMBDA s : span[s].tokens) + Header * Cardinality(RunHeads(kept))
    + Cardinality(sel.gaps) + Words(bridges)
CostOf(sel, kept) == Cost(sel, kept, Supported(sel, kept))

Evidence(sel, kept, bridges) ==
  [items |-> kept, gaps |-> sel.gaps, bridges |-> bridges,
   dropped |-> ToSet(sel.items) \ kept,
   droppedTexts |-> {b.text : b \in ToSet(sel.bridges) \ ToSet(bridges)}]

StableUnion(sel) == Evidence(sel, ToSet(sel.items), sel.bridges)

Index(seq, s) == SelectInSeq(seq, LAMBDA x : x = s)
\* by role, then by place; the selector's own order first when it counts
Ahead(sel, own, s, t) ==
  LET at(x) == IF own THEN Index(sel.items, x) ELSE 0
  IN \/ at(s) < at(t)
     \/ at(s) = at(t) /\ Rank(sel, s) < Rank(sel, t)
     \/ at(s) = at(t) /\ Rank(sel, s) = Rank(sel, t) /\ Before(s, t)

\* the first span and those of a live disagreement are kept whatever they cost
CoverageBudget(sel, own) ==
  LET add(kept, s) == IF CostOf(sel, kept \cup {s}) <= setup.budget \/ kept = {} \/ OnConflict(sel, s)
                      THEN kept \cup {s} ELSE kept
      kept == FoldLeft(add, {}, Sorted(ToSet(sel.items), LAMBDA s, t : Ahead(sel, own, s, t)))
  IN Evidence(sel, kept, Supported(sel, kept))

\* Mutant: every span is a unit of its own
SingleUnits(sel) == {{s} : s \in ToSet(sel.items)}

\* spans that a chain of live disagreements ties together stand or fall together
Tied(sel, U) == \A f \in Conflicts(sel) :
  LET on == {x[1] : x \in {y \in sel.rel : y[2] = f}} IN on \subseteq U \/ on \cap U = {}
Units(sel) == LET closed == {U \in SUBSET ToSet(sel.items) : U # {} /\ Tied(sel, U)}
              IN {U \in closed : \A V \in closed : V \subseteq U => V = U}
Lead(sel, U) == CHOOSE s \in U : \A t \in U : s = t \/ Ahead(sel, TRUE, s, t)

\* nothing above the budget is ever kept
BudgetPack(sel) ==
  LET add(kept, U) == IF CostOf(sel, kept \cup U) <= setup.budget THEN kept \cup U ELSE kept
      kept == FoldLeft(add, {}, Sorted(Units(sel), LAMBDA U, V : Ahead(sel, TRUE, Lead(sel, U), Lead(sel, V))))
  IN Evidence(sel, kept, IF sel.items = <<>> THEN sel.bridges ELSE Supported(sel, kept))

Aggregated(sel) ==
  CASE setup.aggregation = "stable_union_v1" -> StableUnion(sel)
    [] setup.aggregation = "coverage_budget_v1" -> CoverageBudget(sel, FALSE)
    [] setup.aggregation = "global_rerank_v1" -> CoverageBudget(sel, TRUE)
    [] setup.aggregation = "budget_pack_v1" -> BudgetPack(sel)

\* the packed object is costed again; an empty selection is returned before
Overshot(sel, ev) == /\ setup.aggregation = "budget_pack_v1" /\ sel.items # <<>>
                     /\ Cost(sel, ev.items, ev.bridges) > setup.budget

-----------------------------------------------------------------------------
(* preflight.py: what an aggregator may do, and what may be published       *)
\* only context may come from what is not a source
ContextStaysContext(sel) ==
  /\ \A x \in sel.rel : span[x[1]].citable \/ x[3] = "background"
  /\ \A b \in ToSet(sel.bridges) : \A s \in b.on : span[s].citable

\* the bridges that went are those that lost evidence, looked up by their text
Accounted(sel, ev) ==
  LET last(t) == SelectLastInSeq(sel.bridges, LAMBDA b : b.text = t)
  IN /\ ev.items \subseteq ToSet(sel.items)
     /\ ev.gaps = sel.gaps
     /\ ev.dropped = ToSet(sel.items) \ ev.items
     /\ ev.droppedTexts = {b.text : b \in {c \in ToSet(sel.bridges) : ~(c.on \subseteq ev.items)}}
     /\ \A t \in ev.droppedTexts : ~(sel.bridges[last(t)].on \subseteq ev.items)

\* Mutant: the two sides are looked for in what was selected
BothSidesSelected(sel, ev) ==
  \A f \in Conflicts(sel) : {"support", "contradict"} \subseteq RolesOn(sel, ToSet(sel.items), f)

BothSides(sel, ev) ==
  \A f \in Conflicts(sel) : {"support", "contradict"} \subseteq RolesOn(sel, ev.items, f)

BridgesBound(ev) ==
  /\ setup.contract = "P1_BRIDGE" => setup.capped
  /\ \A b \in ToSet(ev.bridges) : b.on \subseteq ev.items /\ (setup.capped => words[b.text] <= setup.each)
  /\ setup.capped => Words(ev.bridges) <= setup.total

PreflightOk(sel, ev) ==
  /\ ContextStaysContext(sel) /\ Accounted(sel, ev) /\ BothSides(sel, ev) /\ BridgesBound(ev)
  /\ Cost(sel, ev.items, ev.bridges) <= setup.budget

-----------------------------------------------------------------------------
NoRaw == [lines |-> <<>>, gaps |-> {}, bridges |-> <<>>]
NoSelection == [items |-> <<>>, rel |-> {}, gaps |-> {}, bridges |-> <<>>]
SelectionInit ==
  /\ setup \in Setups /\ pc = "start" /\ room = [budget |-> 0, attempt |-> 0] /\ view = <<>>
  /\ raw = NoRaw /\ selection = NoSelection /\ evidence = NoRaw /\ failure = ""

Fail(why) == /\ pc' = "failed" /\ failure' = why
             /\ UNCHANGED <<setup, room, view, raw, selection, evidence>>
\* the candidate view of these spans; an ordinal outside its alphabet stops the cell
Show(spans) ==
  /\ view' = spans
  /\ pc' = IF Placed(setup.researcher) /\ \A s \in ToSet(spans) : Coordinate(s) \in Coordinates
            THEN "select" ELSE "stopped"
  /\ UNCHANGED <<setup, room, raw, selection, evidence, failure>>

NothingOffered == /\ pc = "start" /\ Offered = <<>> /\ pc' = "published"
                  /\ UNCHANGED <<setup, room, view, raw, selection, evidence, failure>>

\* no admission: the prompt fits the window or is not sent
ShowAll ==
  /\ pc = "start" /\ Offered # <<>> /\ ~setup.admission
  /\ IF setup.ceiling > 0 /\ PromptTokens(Offered) > setup.ceiling THEN Fail("PROMPT_INFEASIBLE")
     ELSE Show(Offered)

StartAdmission ==
  /\ pc = "start" /\ Offered # <<>> /\ setup.admission
  /\ pc' = "admit" /\ room' = [budget |-> setup.promptBudget, attempt |-> 1]
  /\ UNCHANGED <<setup, view, raw, selection, evidence, failure>>

\* admit, render, and shrink the budget by the overshoot
Admit ==
  LET kept == Keep(Offered, PromptPack(Offered, room.budget))
      rendered == PromptTokens(kept)
      left == ((room.budget * setup.ceiling) \div rendered) - Slack
      fits == setup.ceiling = 0 \/ rendered <= setup.ceiling
  IN /\ pc = "admit"
     /\ \/ /\ TokensAt(Offered, PackFloor(Offered)) > room.budget
           /\ Fail("PROMPT_INFEASIBLE")
        \/ /\ TokensAt(Offered, PackFloor(Offered)) <= room.budget /\ fits
           /\ Show(kept)
        \/ /\ TokensAt(Offered, PackFloor(Offered)) <= room.budget /\ ~fits
           /\ left <= 0 \/ room.attempt = MaxAttempts
           /\ Fail("PROMPT_INFEASIBLE")
        \/ /\ TokensAt(Offered, PackFloor(Offered)) <= room.budget /\ ~fits
           /\ left > 0 /\ room.attempt < MaxAttempts
           /\ room' = [budget |-> left, attempt |-> room.attempt + 1]
           /\ UNCHANGED <<setup, pc, view, raw, selection, evidence, failure>>

\* the selector answers anything the closed schema allows
Outputs ==
  LET lines == UNION {[1..n -> IF setup.contract = "P1_ID" THEN {l \in Lines : l.role = "background" /\ l.facets = {}}
                               ELSE Lines] : n \in 0..MaxLines}
  IN [lines : lines, gaps : IF setup.contract = "P1_ID" THEN {{}} ELSE GapSets,
      bridges : IF setup.contract = "P1_BRIDGE" THEN BridgeSeqs ELSE {<<>>}]
Select ==
  /\ pc = "select" /\ raw' \in Outputs /\ pc' = "parse"
  /\ UNCHANGED <<setup, room, view, selection, evidence, failure>>
SelectorFails == pc = "select" /\ Fail("SELECTOR_ERROR")

DoParse ==
  /\ pc = "parse"
  /\ IF ~Readable(raw) THEN Fail("CONTRACT")
     ELSE /\ selection' = Parse(raw) /\ pc' = "aggregate"
          /\ UNCHANGED <<setup, room, view, raw, evidence, failure>>

Aggregate ==
  /\ pc = "aggregate"
  /\ IF Overshot(selection, Aggregated(selection)) THEN Fail("AGGREGATION")
     ELSE /\ evidence' = Aggregated(selection) /\ pc' = "preflight"
          /\ UNCHANGED <<setup, room, view, raw, selection, failure>>

Preflight ==
  /\ pc = "preflight"
  /\ IF PreflightOk(selection, evidence)
     THEN pc' = "published" /\ UNCHANGED <<setup, room, view, raw, selection, evidence, failure>>
     ELSE Fail("PREFLIGHT")

SelectionNext ==
  \/ NothingOffered \/ ShowAll \/ StartAdmission \/ Admit \/ Select \/ SelectorFails
  \/ DoParse \/ Aggregate \/ Preflight
SelectionSpec == SelectionInit /\ [][SelectionNext]_selectionVars

-----------------------------------------------------------------------------
Staged == pc \in {"preflight", "published"} \/ failure = "PREFLIGHT"

(* What a batch publishes is whole: every live disagreement with both its   *)
(* sides, every bridge with the evidence it cites, no context as evidence,  *)
(* and never more tokens than the budget (preflight over any aggregator).   *)
PublishedIsSound ==
  pc = "published" /\ Offered # <<>> =>
    /\ evidence.items \subseteq ToSet(view)
    /\ \A x \in selection.rel : x[1] \in evidence.items => span[x[1]].citable \/ x[3] = "background"
    /\ \A f \in {x[2] : x \in selection.rel} :
         {"support", "contradict"} \subseteq {x[3] : x \in {y \in selection.rel : y[2] = f}} =>
           \A r \in {"support", "contradict"} : \E s \in evidence.items : <<s, f, r>> \in selection.rel
    /\ \A b \in ToSet(evidence.bridges) : b.on \subseteq evidence.items
    /\ Cost(selection, evidence.items, evidence.bridges) <= setup.budget

(* A handle in a prompt leads back to its span and to no other: decoded, it *)
(* gives the one researcher that asked, the turn, the tool set and the very *)
(* place in the batch, admitted or not (handle_codec.py, view.py).          *)
HandlesLeadBack ==
  pc # "stopped" => \A s \in ToSet(view) :
    LET c == Decode(Encode(Coordinate(s))) IN
      /\ {r \in Positions : Structural(r) = c.structural} = {setup.researcher}
      /\ c.turn = setup.turn /\ c.toolset = setup.toolset
      /\ c.evidence \in DOMAIN Offered /\ Offered[c.evidence] = s

(* A pack never overshoots, drops a live disagreement as a whole or not at  *)
(* all, and is refused only for the gaps it must print (budget_pack_v1).    *)
PackHoldsItsWord ==
  setup.aggregation = "budget_pack_v1" =>
    /\ Staged /\ selection.items # <<>> =>
         /\ Cost(selection, evidence.items, evidence.bridges) <= setup.budget
         /\ \A x, y \in selection.rel :
              x[2] = y[2] /\ x[3] = "support" /\ y[3] = "contradict" => (x[1] \in evidence.items <=> y[1] \in evidence.items)
    /\ failure = "AGGREGATION" => Cardinality(selection.gaps) > setup.budget

(* An admitted prompt shows a span of every page of the batch, stays inside *)
(* the window and keeps the batch's order (prompt_pack_v1 and its loop).    *)
EveryPageIsShown ==
  view # <<>> /\ setup.admission =>
    /\ Pages(view) = Pages(Offered)
    /\ setup.ceiling > 0 => PromptTokens(view) <= setup.ceiling
    /\ \E at \in [DOMAIN view -> DOMAIN Offered] :
         /\ \A i \in DOMAIN view : view[i] = Offered[at[i]]
         /\ \A i, j \in DOMAIN view : i < j => at[i] < at[j]

(* budget_pack_v1 says that dropping both sides of a contradiction is legal *)
(* for preflight (aggregators.py:283): a pack is never refused there.       *)
DroppingBothIsLegal == setup.aggregation = "budget_pack_v1" => failure # "PREFLIGHT"
=============================================================================
