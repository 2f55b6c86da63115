----------------------------- MODULE CloseView -----------------------------
(***************************************************************************)
(* What a C_VISIBLE close may offer its selector: the messages the          *)
(* compressor sees are laid out, their source blocks are paired with the    *)
(* occurrences recorded at capture time, the view is cut at the blocks and  *)
(* chunked, and every chunk is bound to the one source that contains it     *)
(* (strategies/visible_view.py, evidence/chunkers.py, close_visible.py).    *)
(*                                                                         *)
(* A message is a sequence of lines; a line has a shape, a number of words  *)
(* and a mark when a sentence ends with it.  A word is a token and an       *)
(* offset counts words.  `page` is who wrote the line, which no code reads. *)
(***************************************************************************)
EXTENDS Integers, FiniteSets, Sequences, SequencesExt, FiniteSetsExt, Functions, Sorting

CONSTANTS
  Conversations,  \* the frozen messages of a researcher
  Cutters,        \* [chunker, budget]: a close variant's chunker and chunk_max_tokens
  Nobody          \* who wrote a line that is no page's

\* a window moves on; only what is blank has no word; what is recorded is a sequence
ASSUME CutterAssumption ==
  \A c \in Cutters : /\ c.chunker \in {"fixed_token_v1", "paragraph_sentence_v1", "markdown_structure_v1"}
                     /\ c.budget \in Nat \ {0} /\ (c.chunker = "fixed_token_v1" => c.budget > 1)
ASSUME ConversationAssumption ==
  \A c \in Conversations :
    /\ c \in Seq(ToSet(c))
    /\ \A message \in ToSet(c) :
         /\ message.lines \in Seq(ToSet(message.lines)) /\ message.occurrences \in Seq(ToSet(message.occurrences))
         /\ \A l \in ToSet(message.lines) : l.words \in Nat /\ (l.words = 0 <=> l.shape = "blank")

VARIABLES
  messages, cutter,  \* the frozen checkpoint and the variant
  closing,           \* where close_researcher is
  entries,           \* VisibleSourceRegistry.partitions
  segments,          \* what is chunked
  spans,             \* the chunks
  bound              \* source_meta: a span to the entry that owns it
closeVars == <<messages, cutter, closing, entries, segments, spans, bound>>

Body(m) == messages[m].lines
-----------------------------------------------------------------------------
(* Words and lines                                                         *)
WordsIn(text, lines) == SumFunctionOnSet([i \in DOMAIN text |-> text[i].words], lines)
\* the words of lines i..j, half-open
Stretch(text, i, j) == <<WordsIn(text, 1 .. i - 1), WordsIn(text, 1 .. j)>>
Length(w) == w[2] - w[1]
IsBlank(line) == line.shape = "blank"

-----------------------------------------------------------------------------
(* chunkers.py                                                             *)
Windows(w, window, overlap) ==
  LET starts == {w[1] + k * (window - overlap) : k \in 0 .. Length(w)}
  IN {<<s, Min({s + window, w[2]})>> :
        s \in {s \in starts : s < w[2] /\ (s = w[1] \/ s + overlap < w[2])}}

\* the runs of i..j that end at the ends, and at j
Runs(i, j, ends) ==
  {r \in (i .. j) \X (i .. j) :
     /\ r[1] <= r[2] /\ (r[1] .. r[2] - 1) \cap ends = {}
     /\ r[1] = i \/ r[1] - 1 \in ends
     /\ r[2] = j \/ r[2] \in ends}

Paragraphs(text, i, j) ==
  {r \in Runs(i, j, {k \in i .. j - 1 : IsBlank(text[k]) # IsBlank(text[k + 1])}) : ~IsBlank(text[r[1]])}
Sentences(text, i, j) == Runs(i, j, {k \in i .. j : text[k].stop})

ParagraphSentence(text, i, j, budget) ==
  LET cut(r) == IF Length(Stretch(text, r[1], r[2])) <= budget
                THEN {Stretch(text, r[1], r[2])}
                ELSE UNION {Windows(Stretch(text, s[1], s[2]), budget, 0) : s \in Sentences(text, r[1], r[2])}
  IN UNION {cut(r) : r \in Paragraphs(text, i, j)}

\* the first line in i..j that is not like Same, or the one after j
Until(i, j, Same(_)) == Min({k \in i .. j : ~Same(k)} \cup {j + 1})
Continues(line) == line.shape \notin {"blank", "heading", "fence", "item", "quote"}

\* the last line of the block that starts at i
BlockEnd(text, i, j) ==
  LET shape == text[i].shape
      isTable == shape \in {"row", "rule"} /\ i < j /\ text[i + 1].shape = "rule"
  IN CASE shape \in {"blank", "heading"} -> i
       [] shape = "fence" -> Min({Until(i + 1, j, LAMBDA k : text[k].shape # "fence"), j})
       [] isTable -> Until(i + 2, j, LAMBDA k : text[k].shape \in {"row", "rule"}) - 1
       [] shape = "quote" -> Until(i, j, LAMBDA k : text[k].shape = "quote") - 1
       [] shape = "item" -> Until(i, j, LAMBDA k : ~IsBlank(text[k])) - 1
       [] OTHER -> Until(i, j, LAMBDA k : Continues(text[k])) - 1

\* a table gives its header and each row, a list each item with its continuation lines
Pieces(text, i, j) ==
  LET e == BlockEnd(text, i, j)
      header == text[i].shape \in {"row", "rule"} /\ e > i /\ text[i + 1].shape = "rule"
  IN CASE IsBlank(text[i]) -> {}
       [] header -> {<<i, i + 1>>} \cup {<<k, k>> : k \in i + 2 .. e}
       [] text[i].shape = "item" -> Runs(i, e, {k \in i .. e - 1 : text[k + 1].shape = "item"})
       [] OTHER -> {<<i, e>>}

\* Mutant: a heading and a table row are cut out whole, as they once were
EmitWhole(text, i, j, budget) ==
  IF text[i].shape \in {"heading", "row"} \/ Length(Stretch(text, i, j)) <= budget
  THEN {Stretch(text, i, j)} ELSE ParagraphSentence(text, i, j, budget)

EmitBlock(text, i, j, budget) ==
  LET parts == ParagraphSentence(text, i, j, budget)
  IN CASE Length(Stretch(text, i, j)) <= budget -> {Stretch(text, i, j)}
       [] OTHER -> IF parts # {} THEN parts ELSE Windows(Stretch(text, i, j), budget, 0)

MarkdownStructure(text, i, j, budget) ==
  LET opens == FoldLeft(LAMBDA S, k : IF \E b \in S : BlockEnd(text, b, j) = k - 1 THEN S \cup {k} ELSE S,
                        {i} \cap (i .. j), [n \in 1 .. j - i |-> i + n])
  IN UNION {EmitBlock(text, p[1], p[2], budget) : p \in UNION {Pieces(text, k, j) : k \in opens}}

\* a close variant's one budget is a window with an eighth of overlap
Chunks(text, i, j) ==
  CASE cutter.chunker = "fixed_token_v1" ->
         Windows(Stretch(text, i, j), cutter.budget, Max({1, cutter.budget \div 8}))
    [] cutter.chunker = "paragraph_sentence_v1" -> ParagraphSentence(text, i, j, cutter.budget)
    [] cutter.chunker = "markdown_structure_v1" -> MarkdownStructure(text, i, j, cutter.budget)

-----------------------------------------------------------------------------
(* visible_view.py                                                         *)
Kind(message) ==
  CASE message.role = "ai" -> "MODEL_DERIVED_CONTEXT"
    [] message.role = "tool" -> IF message.occurrences = <<>> THEN "TOOL_UNATTRIBUTED_CONTEXT" ELSE "TOOL_EVIDENCE"
    [] OTHER -> "USER_CONTEXT"
Attributed == {m \in DOMAIN messages : Kind(messages[m]) = "TOOL_EVIDENCE"}

\* a delimiter takes the URL line under it; any other URL line opens a block
Opens(text) ==
  {i \in DOMAIN text : \/ text[i].shape \in {"delimiter", "source"}
                       \/ text[i].shape = "url" /\ (i = 1 \/ text[i - 1].shape # "delimiter")}
HasUrl(text, i) ==
  \/ text[i].shape = "url"
  \/ text[i].shape = "source" /\ text[i].linked
  \/ text[i].shape = "delimiter" /\ i < Len(text) /\ text[i + 1].shape = "url"
Blocks(text) ==
  LET first == Sorted(Opens(text), <)
  IN [k \in DOMAIN first |->
        [from |-> first[k], to |-> IF k < Len(first) THEN first[k + 1] - 1 ELSE Len(text), url |-> HasUrl(text, first[k])]]

\* what a search or an arm of scope per_page writes into a tool message: for each occurrence recorded, in
\* that order, an opening line and the words of its page; with no opening line, words of recorded pages
Rendered(message) ==
  \/ /\ Opens(message.lines) = {}
     /\ \A l \in ToSet(message.lines) : l.page \in ToSet(message.occurrences) \cup {Nobody}
  \/ \E first \in [1 .. Len(message.occurrences) -> Opens(message.lines)] :
       /\ \A k, n \in DOMAIN first : k < n => first[k] < first[n]
       /\ \A i \in DOMAIN message.lines : message.lines[i].page # Nobody =>
            \E k \in DOMAIN first : /\ first[k] <= i /\ \A n \in DOMAIN first : k < n => i < first[n]
                                   /\ message.lines[i].page = message.occurrences[k]
\* (the scopes that render in the order of content hashes have no close of this kind)
ASSUME PagesAssumption == \A c \in Conversations : \A message \in ToSet(c) : Rendered(message)

\* a URL in a delimiter's title cannot be told from its URL field
TitlesAreSafe(text) == \A i \in DOMAIN text : text[i].shape = "delimiter" => text[i].title # "url"
Paired(m) ==
  LET blocks == Blocks(Body(m)) IN
  \/ blocks = <<>>
  \/ Len(blocks) = Len(messages[m].occurrences) /\ IsInjective(messages[m].occurrences)

Partitions(m) ==
  LET blocks == Blocks(Body(m))
      n == Min({Len(blocks), Len(messages[m].occurrences)})
  IN [k \in 1 .. n |-> [message |-> m, from |-> blocks[k].from, to |-> blocks[k].to,
                        url |-> blocks[k].url, occurrence |-> messages[m].occurrences[k]]]

Whole(m) == [message |-> m, kind |-> Kind(messages[m]), from |-> 1, to |-> Len(Body(m)),
             occurrences |-> ToSet(messages[m].occurrences)]

\* Mutant: messages are chunked whole
WholeMessages == {Whole(m) : m \in DOMAIN messages}

\* what precedes the first block stays visible and is no source
PartitionedSegments ==
  LET own(m) == {e \in entries : e.message = m}
      preamble(m) == Min({e.from : e \in own(m)}) - 1
  IN UNION {IF own(m) = {} THEN {Whole(m)}
            ELSE {[message |-> m, kind |-> "TOOL_EVIDENCE", from |-> e.from, to |-> e.to, occurrences |-> {e.occurrence}] : e \in own(m)}
                 \cup {[message |-> m, kind |-> "TOOL_UNATTRIBUTED_CONTEXT", from |-> 1, to |-> preamble(m), occurrences |-> {}] :
                         x \in {x \in {m} : preamble(m) > 0}}
            : m \in DOMAIN messages}

SpansOf(segment) ==
  {[message |-> segment.message, words |-> w, kind |-> segment.kind, occurrences |-> segment.occurrences] :
     w \in Chunks(Body(segment.message), segment.from, segment.to)}

\* source_meta_for: the linked entries a span touches, and whether it lies in exactly one
WordsOf(e) == Stretch(Body(e.message), e.from, e.to)
Touched(s) == {e \in entries : /\ e.url /\ e.message = s.message
                               /\ s.words[1] < WordsOf(e)[2] /\ WordsOf(e)[1] < s.words[2]}
Within(s, e) == WordsOf(e)[1] <= s.words[1] /\ s.words[2] <= WordsOf(e)[2]
Sources(s) == IF s.kind = "TOOL_EVIDENCE" THEN Touched(s) ELSE {}
OneSource(s) ==
  LET inside == {e \in Sources(s) : Within(s, e)} IN
  Sources(s) # {} => Cardinality(inside) = 1 /\ \A e \in inside : e.occurrence \in s.occurrences

\* view.py re-reads the title at its address: a stripped dash is missing from a delimiter's title
MetaReconstructs(s, e) ==
  /\ s.kind = "TOOL_EVIDENCE" /\ s.message = e.message /\ Within(s, e) /\ e.occurrence \in s.occurrences
  /\ LET head == Body(e.message)[e.from] IN head.shape = "delimiter" => head.title # "dashed"

-----------------------------------------------------------------------------
CloseInit == /\ messages \in Conversations /\ cutter \in Cutters /\ closing = "registry"
             /\ entries = {} /\ segments = {} /\ spans = {} /\ bound = <<>>

Refuse(why) == closing' = why /\ UNCHANGED <<messages, cutter, entries, segments, spans, bound>>

BuildRegistry ==
  /\ closing = "registry"
  /\ IF \A m \in Attributed : TitlesAreSafe(Body(m)) /\ Paired(m)
     THEN /\ entries' = UNION {ToSet(Partitions(m)) : m \in Attributed}
          /\ closing' = "partition"
          /\ UNCHANGED <<messages, cutter, segments, spans, bound>>
     ELSE Refuse("no registry")

Partition ==
  /\ closing = "partition"
  /\ segments' = PartitionedSegments /\ closing' = "chunk"
  /\ UNCHANGED <<messages, cutter, entries, spans, bound>>

Chunk ==
  /\ closing = "chunk"
  /\ spans' = UNION {SpansOf(g) : g \in segments} /\ closing' = "bind"
  /\ UNCHANGED <<messages, cutter, entries, segments, bound>>

Bind ==
  /\ closing = "bind"
  /\ IF \A s \in spans : OneSource(s)
     THEN /\ bound' = [s \in {s \in spans : Sources(s) # {}} |-> CHOOSE e \in Sources(s) : Within(s, e)]
          /\ closing' = "view"
          /\ UNCHANGED <<messages, cutter, entries, segments, spans>>
     ELSE Refuse("no owner")

ViewCandidates ==
  /\ closing = "view"
  /\ IF \A s \in DOMAIN bound : MetaReconstructs(s, bound[s])
     THEN Refuse("offered") ELSE Refuse("no view")

CloseStep == BuildRegistry \/ Partition \/ Chunk \/ Bind \/ ViewCandidates
CloseSpec == CloseInit /\ [][CloseStep]_closeVars

-----------------------------------------------------------------------------
\* who wrote the words of a span
Authors(s) ==
  {Body(s.message)[i].page :
     i \in {i \in DOMAIN Body(s.message) :
              LET w == Stretch(Body(s.message), i, i) IN s.words[1] < w[2] /\ w[1] < s.words[2]}} \ {Nobody}
Chunked == closing \notin {"registry", "partition", "chunk", "no registry"}

(* A citable chunk holds the words of the pages it is attributed to and of  *)
(* no other, a bound one of exactly one page; once the blocks are paired    *)
(* the partition leaves no chunk without an owner (visible_view.py).        *)
SpansHaveOneOwner ==
  /\ closing # "no owner"
  /\ Chunked => \A s \in spans : Authors(s) # {} /\ s.kind = "TOOL_EVIDENCE" => Authors(s) \subseteq s.occurrences
  /\ closing \in {"view", "offered"} => \A s \in DOMAIN bound : Authors(s) \subseteq {bound[s].occurrence}

(* The chunks of a message hold every word of it, none is larger than the   *)
(* variant's budget, and but for the overlap of windows none is offered     *)
(* twice (chunkers.py: "max_tokens is a real ceiling").                     *)
NothingLostNothingLong ==
  Chunked =>
    /\ \A s \in spans : Length(s.words) \in 1 .. cutter.budget
    /\ \A m \in DOMAIN messages : \A w \in 0 .. WordsIn(Body(m), DOMAIN Body(m)) - 1 :
         LET holders == {s \in spans : s.message = m /\ s.words[1] <= w /\ w < s.words[2]}
         IN /\ holders # {}
            /\ cutter.chunker # "fixed_token_v1" => Cardinality(holders) = 1
=============================================================================
