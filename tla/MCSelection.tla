---------------------------- MODULE MCSelection ----------------------------
(* Two scenarios: a selector call, and the view a close offers its selector. *)
EXTENDS Selection, CloseView

Span(p, n, t, sc, c) == [page |-> p, place |-> n, tokens |-> t, score |-> sc, citable |-> c]
\* a1 and a2 are adjacent on one page; u1 is the user's own message
MCspan == [a1 |-> Span("A", 1, 2, 2, TRUE), a2 |-> Span("A", 2, 2, 3, TRUE),
           b1 |-> Span("B", 4, 3, 1, TRUE), u1 |-> Span("U", 6, 1, 1, FALSE)]
MCwords == [t1 |-> 1, t2 |-> 2]

Arm(c, a, o, b) ==
  [contract |-> c, aggregation |-> a, offered |-> o, budget |-> b, researcher |-> <<1, 0>>, turn |-> 1,
   toolset |-> 0, admission |-> FALSE, promptBudget |-> 0, ceiling |-> 0, capped |-> FALSE, each |-> 0, total |-> 0]
Bridged(arm, e, t) == [arm EXCEPT !.capped = TRUE, !.each = e, !.total = t]
Packed(arm, b, c) == [arm EXCEPT !.admission = TRUE, !.promptBudget = b, !.ceiling = c]

Page == <<"a1", "a2", "b1">>
Seen == <<"a1", "u1", "b1">>
MCSetups ==
  {Arm("P1_ID", "stable_union_v1", Page, 20), Arm("P1_ID", "budget_pack_v1", Page, 6),
   Arm("P1_TYPED", "stable_union_v1", Seen, 9), Arm("P1_TYPED", "coverage_budget_v1", Page, 7),
   Arm("P1_TYPED", "global_rerank_v1", Page, 8), Arm("P1_TYPED", "budget_pack_v1", Page, 6),
   Bridged(Arm("P1_BRIDGE", "coverage_budget_v1", Seen, 7), 2, 2),
   Bridged(Arm("P1_BRIDGE", "budget_pack_v1", Page, 7), 2, 3),
   [Arm("P1_ID", "stable_union_v1", Page, 20) EXCEPT !.ceiling = 8],
   [Arm("P1_ID", "stable_union_v1", Page, 20) EXCEPT !.turn = 2],
   [Arm("P1_ID", "stable_union_v1", Page, 20) EXCEPT !.researcher = <<0, 2>>],
   [Arm("P1_ID", "stable_union_v1", Page, 20) EXCEPT !.researcher = <<2, 0>>],
   Arm("P1_ID", "stable_union_v1", <<>>, 20)}
  \cup {Packed([Arm("P1_ID", "stable_union_v1", Page, 20) EXCEPT !.researcher = <<>>], 40, 20)}
  \cup {Packed(Arm("P1_ID", "budget_pack_v1", Page, 6), b, c) : b \in {4, 5, 7, 40}, c \in {0, 8, 9, 10, 20}}
MCRadix == [iteration |-> 2, child |-> 2, turn |-> 2, toolset |-> 2, evidence |-> 3]
MCLines == {[label |-> 4, facets |-> {}, role |-> "background"]} \cup
  [label : 1..3, facets : {{}, {"f"}}, role : {"support", "contradict", "background"}]
MCGaps == {{}, {"f"}}
Bridge(t, l) == [text |-> t, labels |-> l]
MCBridges == {<<>>, <<Bridge("t1", <<1, 3>>), Bridge("t2", <<1>>)>>, <<Bridge("t1", <<2>>)>>,
              <<Bridge("t1", <<1>>), Bridge("t1", <<3, 1>>)>>,
              <<Bridge("t1", <<1, 1>>), Bridge("t2", <<2>>), Bridge("t1", <<1>>)>>}

\* a publication handle names one span of one batch: over the whole domain, decoding gives the ordinals back,
\* and no two researchers have the same
ASSUME HandlesNameOneSpan ==
  /\ \A c \in Coordinates : Decode(Encode(c)) = c
  /\ \A r, q \in Positions : Structural(r) = Structural(q) => r = q

-----------------------------------------------------------------------------
Line(shape, n) == [shape |-> shape, words |-> n, stop |-> FALSE, linked |-> FALSE, title |-> "plain", page |-> Nobody]
By(page, lines) == [i \in DOMAIN lines |-> [lines[i] EXCEPT !.page = page]]
Blank == Line("blank", 0)
Stop(n) == [Line("text", n) EXCEPT !.stop = TRUE]

\* prose, structure of every kind, an open fence, and a page that shows a source of its own
MCBodies == {
  <<Stop(2), Line("text", 5)>>,
  <<Line("heading", 5), Line("text", 1), Line("quote", 2), Line("quote", 2)>>,
  <<Line("text", 1), Line("heading", 1), Line("row", 1), Line("rule", 1), Line("row", 4), Line("row", 1), Blank, Line("text", 2)>>,
  <<Line("item", 1), Line("heading", 1), Line("item", 5), Blank, Line("row", 1)>>,
  <<Line("fence", 1), Line("item", 1), Blank, Stop(1), Line("text", 4), Line("fence", 1), Line("rule", 1)>>,
  <<Line("fence", 1), Blank, Line("heading", 4)>>,
  <<Line("text", 1), Line("url", 2), Line("text", 1)>>}

\* vendor's block of a search result, and a run of spans as an arm of H renders it
Result(page, title, linked, body) ==
  By(page, <<[Line("delimiter", 2) EXCEPT !.title = title], IF linked THEN Line("url", 2) ELSE Line("text", 2), Blank>> \o body)
    \o <<Line("text", 1)>>
Run(page, linked, body) == By(page, <<[Line("source", 2) EXCEPT !.linked = linked], Line("text", 1)>> \o body) \o <<Blank>>

Tool(lines, occurrences) == [role |-> "tool", lines |-> <<Line("text", 1), Blank>> \o lines, occurrences |-> occurrences]
MCTools ==
  UNION {{Tool(Result("A", title, linked, b) \o Result("B", "plain", TRUE, c), <<"A", "B">>) :
            title \in {"plain", "dashed", "url"}, linked \in BOOLEAN} : b, c \in MCBodies}
  \cup UNION {{Tool(Run("A", TRUE, b) \o Run("B", linked, c), <<"A", "B">>),
               Tool(Run("A", linked, b) \o Run("A", TRUE, c), <<"A">>),
               Tool(b, <<>>), Tool(Run("A", TRUE, b) \o Result("B", "plain", linked, c), <<"A", "B">>)} :
                b, c \in MCBodies, linked \in BOOLEAN}
MCConversations ==
  {<<[role |-> "human", lines |-> <<Line("text", 1)>>, occurrences |-> <<>>],
     [role |-> "ai", lines |-> <<Line("text", 4), Line("url", 1)>>, occurrences |-> <<>>], t>> : t \in MCTools}
MCCutters == {[chunker |-> "fixed_token_v1", budget |-> 4], [chunker |-> "paragraph_sentence_v1", budget |-> 3],
              [chunker |-> "markdown_structure_v1", budget |-> 3], [chunker |-> "markdown_structure_v1", budget |-> 6]}

\* the scenario that is not played
Unselected == /\ pc = "idle" /\ setup = Arm("P1_ID", "stable_union_v1", <<>>, 0) /\ room = [budget |-> 0, attempt |-> 0]
               /\ view = <<>> /\ raw = NoRaw /\ selection = NoSelection /\ evidence = NoRaw /\ failure = ""
NoClose == /\ messages = <<>> /\ cutter = [chunker |-> "fixed_token_v1", budget |-> 4] /\ closing = "registry"
           /\ entries = {} /\ segments = {} /\ spans = {} /\ bound = <<>>

MCInit == (SelectionInit /\ NoClose) \/ (CloseInit /\ Unselected)
MCNext == \/ SelectionNext /\ UNCHANGED closeVars
          \/ pc = "idle" /\ CloseStep /\ UNCHANGED selectionVars
MCSpec == MCInit /\ [][MCNext]_<<selectionVars, closeVars>>
=============================================================================
