------------------------------- MODULE Canary -------------------------------
(***************************************************************************)
(* The GPU canary (campaign/canary.py): every arm of the screen on a few   *)
(* tasks, and one verdict on whether each of them really worked and        *)
(* whether the screen can be paid for.  The verdict is read off what the   *)
(* cells froze (odr/vendor_hooks.py, campaign/graph_driver.py) and an      *)
(* audit of the provider's ledger (runtime/provider_server.py), which      *)
(* keeps the calls of every earlier campaign too.                          *)
(*                                                                         *)
(* A variant is one of five kinds: what the registry says of its node,     *)
(* backend, scope and contract.  The checks of the host (the patched tree, *)
(* the truth tree, replay misses, citations) are left out.                 *)
(***************************************************************************)
EXTENDS Integers, Sequences, FiniteSets, FiniteSetsExt, SequencesExt

CONSTANTS Blocks,       \* canaries: a block is a sequence of cells [arm, task]
          kind,         \* kind[a]: the kinds of an arm's page and close variants
          screen,       \* screen[a]: the cells the screen has of an arm
          Histories,    \* what earlier campaigns left in the ledger
          GpuCap,       \* the cap on gpu_seconds
          Reserve,      \* what a call reserves, and is settled at when nobody knows
          MaxBatches,   \* bound: page batches of a cell
          MaxSurprises  \* bound: departures from a cell in which all goes well

ASSUME CanaryAssumption ==
  /\ GpuCap \in Nat /\ Reserve \in Nat \ {0} /\ MaxBatches \in Nat /\ MaxSurprises \in Nat
  /\ \A a \in DOMAIN kind : /\ kind[a].page \in {"P0", "CPU", "LLM", "HIER", "PROSE"}
                            /\ kind[a].close \in {"P0", "CPU", "LLM", "PROSE"}
                            /\ screen[a] \in Nat \ {0}
  /\ \A b \in Blocks : /\ b \in Seq(ToSet(b)) /\ \A i, j \in DOMAIN b : b[i] = b[j] => i = j
                      /\ \A c \in ToSet(b) : c.arm \in DOMAIN kind

VARIABLES block,      \* the canary's cells in the order they run
          at, stage,  \* the cell in hand, and where it is
          run,        \* what its graph has recorded
          outputs,    \* outputs[c]: what a committed cell froze
          ledger,     \* the attempts of the provider's ledger, oldest first
          strays,     \* coroutines a failed gather left behind, each about to make a call
          shown,      \* history: the cells whose model was shown P1's own text
          surprises, audit, verdict
canaryVars == <<block, at, stage, run, outputs, ledger, strays, shown, surprises, audit, verdict>>

NoRun == [reduced |-> <<>>, published |-> {}, direct |-> {}, rendered |-> 0, close |-> "none", text |-> FALSE]
NoAudit == [n |-> 0, decoded |-> {}, sent |-> {}, open |-> 0, settled |-> <<>>, remaining |-> 0]

CanaryInit ==
  /\ block \in Blocks /\ at = 1 /\ stage = "next" /\ run = NoRun /\ outputs = <<>>
  /\ ledger \in Histories /\ strays = {} /\ shown = {}
  /\ surprises = 0 /\ audit = NoAudit /\ verdict = "none"

-----------------------------------------------------------------------------
Cells == ToSet(block)
Arms == {c.arm : c \in Cells}
P1Arms == Arms \ {"P0"}
Cell == block[at]
CellsOf(a) == {c \in Cells : c.arm = a}

StructuredOps == {"LOCAL", "GLOBAL", "CLOSE"}
SelectorOps == StructuredOps \cup {"PAGE_PROSE", "CLOSE_PROSE"}

(* A call of a cell.  A SENT one holds its reservation until it is settled; *)
(* a COMMITTED one without tokens decoded nothing.                          *)
Call(work, op, state, tokens, seconds) ==
  [work |-> work, op |-> op, state |-> state, tokens |-> tokens, seconds |-> seconds]
CallRows(works) ==
  [work : works, op : {"GRAPH"} \cup SelectorOps,
   state : {"SENT", "COMMITTED", "FAILED_FINAL", "FAILED_UNKNOWN"}, tokens : Nat, seconds : Nat]

\* an earlier campaign's calls are under work keys of its own
WorksOf(calls) == {call.work : call \in ToSet(calls)}
ASSUME HistoriesAssumption ==
  \A h \in Histories : /\ h \in Seq(CallRows(WorksOf(h)))
                       /\ \A b \in Blocks : WorksOf(h) \cap ToSet(b) = {}

Good(op) == Call(Cell, op, "COMMITTED", 1, 1)
\* answers that break the contract, nothing decoded, an HTTP error, no answer at all
Bad(op) == {Good(op), Call(Cell, op, "COMMITTED", 0, 1), Call(Cell, op, "FAILED_FINAL", 0, 1),
            Call(Cell, op, "FAILED_UNKNOWN", 0, Reserve)}

(* What comes of a batch, or of a close: the calls made, the direct records *)
(* left of it (published spans, or a failure), the outputs rendered,        *)
(* whether P1's own text is in what is published, and the coroutines a      *)
(* sibling that raised leaves to themselves.                                *)
Outcome(calls, direct, rendered, text) ==
  [calls |-> calls, direct |-> direct, rendered |-> rendered, text |-> text, fell |-> FALSE, left |-> {}]
Selected(spans) == [spans |-> spans, failed |-> FALSE]
Refused == [spans |-> 0, failed |-> TRUE]
Falls(calls, direct, rendered) == [Outcome(calls, direct, rendered, FALSE) EXCEPT !.fell = TRUE]
Raises(op) == [Falls(<<>>, {Refused}, 0) EXCEPT !.left = {op}]

Smooth ==
  [P0 |-> Outcome(<<>>, {}, 0, FALSE),
   CPU |-> Outcome(<<>>, {Selected(1)}, 1, TRUE),
   LLM |-> Outcome(<<Good("LOCAL")>>, {Selected(1)}, 1, TRUE),
   HIER |-> Outcome(<<Good("LOCAL"), Good("GLOBAL")>>, {Selected(1), Selected(2)}, 2, TRUE),
   PROSE |-> Outcome(<<Good("PAGE_PROSE")>>, {}, 1, TRUE)]

(* What else a batch may come to.  A selector may choose nothing, and be    *)
(* offered nothing; the shortlist of a hierarchical arm is recorded as      *)
(* published, whether or not its global call keeps any of it.  The prose    *)
(* control leaves control records and no direct record, except where it     *)
(* failed before it had any.                                                *)
OddBatches ==
  [P0 |-> {},
   CPU |-> {Outcome(<<>>, {Selected(0)}, 1, FALSE), Falls(<<>>, {Refused}, 0)},
   LLM |-> {Outcome(<<Good("LOCAL")>>, {Selected(0)}, 1, FALSE), Outcome(<<>>, {Selected(0)}, 1, FALSE),
            Falls(<<>>, {Refused}, 0), Raises("LOCAL")} \cup {Falls(<<b>>, {Refused}, 0) : b \in Bad("LOCAL")},
   HIER |-> {Outcome(<<Good("LOCAL")>>, {Selected(0)}, 1, FALSE),
             Outcome(<<Good("LOCAL"), Good("GLOBAL")>>, {Selected(1), Selected(0)}, 2, FALSE), Raises("LOCAL")}
            \cup {Falls(<<b>>, {Refused}, 0) : b \in Bad("LOCAL")}
            \cup {Falls(<<Good("LOCAL"), b>>, {Refused}, 0) : b \in Bad("GLOBAL")},
   PROSE |-> {Falls(<<>>, {Refused}, 0), Raises("PAGE_PROSE")}
             \cup {Falls(<<b>>, {}, 0) : b \in Bad("PAGE_PROSE")}
             \cup {Falls(<<b>>, {}, 1) : b \in Bad("PAGE_PROSE")}]

SmoothClose ==
  [P0 |-> Outcome(<<>>, {}, 0, FALSE),
   CPU |-> Outcome(<<>>, {Selected(1)}, 1, TRUE),
   LLM |-> Outcome(<<Good("CLOSE")>>, {Selected(1)}, 1, TRUE),
   PROSE |-> Outcome(<<Good("CLOSE_PROSE")>>, {}, 1, TRUE)]
OddCloses ==
  [P0 |-> {},
   CPU |-> {Outcome(<<>>, {Selected(0)}, 1, FALSE), Falls(<<>>, {Refused}, 0)},
   LLM |-> {Outcome(<<Good("CLOSE")>>, {Selected(0)}, 1, FALSE), Falls(<<>>, {Refused}, 0)}
           \cup {Falls(<<b>>, {Refused}, 0) : b \in Bad("CLOSE")},
   PROSE |-> {Falls(<<>>, {Refused}, 0)} \cup {Falls(<<b>>, {}, 0) : b \in Bad("CLOSE_PROSE")}]

-----------------------------------------------------------------------------
(* one cell                                                                *)
Surprise(n) == surprises' = surprises + n /\ surprises' <= MaxSurprises

(* The cell is registered and its graph begins; the calls of the vendor's   *)
(* own nodes count as one, which may cost more in one cell than in another. *)
StartCell ==
  /\ stage = "next" /\ at <= Len(block)
  /\ \E s \in 1 .. Reserve :
       /\ ledger' = Append(ledger, Call(Cell, "GRAPH", "COMMITTED", 1, s))
       /\ Surprise(IF s = 1 THEN 0 ELSE 1)
  /\ stage' = "graph" /\ run' = NoRun
  /\ UNCHANGED <<block, at, outputs, strays, shown, audit, verdict>>

\* a record of direct_node_records; the batch stands for its checkpoint
Records(node, batch, o) == {[node |-> node, batch |-> batch, of |-> d] : d \in o.direct}
Leave(o) == strays' = strays \cup {[work |-> Cell, op |-> op] : op \in o.left}

(* reduce_published_batch: the strategy's batch or, if it fails, P0's;      *)
(* its direct records and the reduction are recorded before the graph has   *)
(* any of it.                                                               *)
ReduceBatch ==
  /\ stage = "graph" /\ Cell.arm # "P0" /\ Len(run.reduced) < MaxBatches
  /\ LET page == kind[Cell.arm].page
     IN \E o \in {Smooth[page]} \cup OddBatches[page] :
          /\ Surprise((IF o = Smooth[page] THEN 0 ELSE 1) + (IF run.reduced = <<>> THEN 0 ELSE 1))
          /\ run' = [run EXCEPT !.reduced = Append(@, o.fell),
                                !.direct = @ \cup Records("H", Len(run.reduced) + 1, o),
                                !.rendered = @ + o.rendered, !.text = o.text]
          /\ ledger' = ledger \o o.calls
          /\ Leave(o)
  /\ stage' = "reduced"
  /\ UNCHANGED <<block, at, outputs, shown, audit, verdict>>

\* record_tool_batch_publication, before the one Command that carries the batch
PublishBatch ==
  /\ stage = "reduced"
  /\ run' = [run EXCEPT !.published = @ \cup {Len(run.reduced)}, !.text = FALSE]
  /\ shown' = IF run.text THEN shown \cup {Cell} ELSE shown
  /\ stage' = "graph"
  /\ UNCHANGED <<block, at, outputs, ledger, strays, surprises, audit, verdict>>

\* the graph fails, the publication it refused included: no output is committed
GraphFails ==
  /\ stage \in {"graph", "reduced"}
  /\ Surprise(1)
  /\ stage' = "next" /\ at' = at + 1 /\ run' = NoRun
  /\ UNCHANGED <<block, outputs, ledger, strays, shown, audit, verdict>>

\* run_close_strategy; the P0 arm has no hooks, and a close that fails is the vendor's
CloseCell ==
  /\ stage = "graph"
  /\ IF Cell.arm = "P0" THEN UNCHANGED <<run, ledger, shown, surprises>>
     ELSE LET close == kind[Cell.arm].close
          IN \E o \in {SmoothClose[close]} \cup OddCloses[close] :
               /\ Surprise((IF o = SmoothClose[close] THEN 0 ELSE 1) + (IF run.reduced = <<>> THEN 1 ELSE 0))
               /\ run' = [run EXCEPT !.direct = @ \cup Records("C", 0, o), !.rendered = @ + o.rendered,
                                     !.close = IF o.fell THEN "failed" ELSE IF close = "P0" THEN "deferred" ELSE "reduced"]
               /\ ledger' = ledger \o o.calls
               /\ shown' = IF o.text THEN shown \cup {Cell} ELSE shown
  /\ stage' = "closed"
  /\ UNCHANGED <<block, at, outputs, strays, audit, verdict>>

\* the calls of a cell that got an answer
Answered(work) == {i \in DOMAIN ledger : ledger[i].work = work /\ ledger[i].state \in {"COMMITTED", "FAILED_FINAL"}}
\* summarize_work_extraction: every call of the cell is response-complete
TelemetryComplete(work) ==
  /\ Answered(work) # {}
  /\ \A i \in DOMAIN ledger : ledger[i].work = work => i \in Answered(work)
ServiceSeconds(work) == MapThenSumSet(LAMBDA i : ledger[i].seconds, Answered(work))

Output(same) ==
  [reduced |-> run.reduced, published |-> run.published, direct |-> run.direct,
   rendered |-> run.rendered, close |-> run.close, sameAsP0 |-> same,
   byOp |-> {ledger[i].op : i \in Answered(Cell)}, seconds |-> ServiceSeconds(Cell)]

(* The output is frozen and committed with the work its calls came to, or   *)
(* the cell fails because they do not add up.  The report of an arm that    *)
(* did something may still be P0's.                                         *)
CommitCell ==
  /\ stage = "closed"
  /\ \E same \in IF Cell.arm = "P0" THEN {TRUE} ELSE BOOLEAN :
       /\ Surprise(IF same /\ Cell.arm # "P0" THEN 1 ELSE 0)
       /\ outputs' = IF ~TelemetryComplete(Cell) THEN outputs
                     ELSE [c \in DOMAIN outputs \cup {Cell} |->
                            IF c = Cell THEN Output(same) ELSE outputs[c]]
  /\ stage' = "next" /\ at' = at + 1 /\ run' = NoRun
  /\ UNCHANGED <<block, ledger, strays, shown, audit, verdict>>

(* A coroutine nobody waits for makes its call, until the command ends.     *)
StrayCalls ==
  /\ verdict = "none"
  /\ \E s \in strays : /\ ledger' = Append(ledger, Call(s.work, s.op, "SENT", 0, 0))
                       /\ strays' = strays \ {s}
  /\ UNCHANGED <<block, at, stage, run, outputs, shown, surprises, audit, verdict>>

\* a call in flight ends: settled at what it cost, or at all it reserved
Settle ==
  /\ \E i \in DOMAIN ledger :
       /\ ledger[i].state = "SENT"
       /\ \/ ledger' = [ledger EXCEPT ![i].state = "COMMITTED", ![i].tokens = 1, ![i].seconds = 1]
          \/ ledger' = [ledger EXCEPT ![i].state = "FAILED_UNKNOWN", ![i].seconds = Reserve]
  /\ UNCHANGED <<block, at, stage, run, outputs, strays, shown, surprises, audit, verdict>>

-----------------------------------------------------------------------------
(* the audit                                                               *)
\* the work keys of the manifest are an exact allowlist
Wanted(work) == work \in Cells

Rows == {i \in DOMAIN ledger : Wanted(ledger[i].work)}
Open(rows) == {i \in rows : ledger[i].state = "SENT"}
SecondsOf(rows) == MapThenSumSet(LAMBDA i : ledger[i].seconds, rows)

\* Mutant: what is reserved is not taken off
HeadroomSettled == GpuCap - SecondsOf(DOMAIN ledger)

\* cap - reserved - settled, of all that is in the ledger
Headroom == GpuCap - SecondsOf(DOMAIN ledger) - (Reserve * Cardinality(Open(DOMAIN ledger)))

(* canary_audit: one consistent reading, for the work keys of the manifest  *)
Audit ==
  /\ stage = "next" /\ at > Len(block)
  /\ audit' = [n |-> Len(ledger),
               decoded |-> {[work |-> ledger[i].work, op |-> ledger[i].op] :
                              i \in {j \in Rows : ledger[j].state = "COMMITTED" /\ ledger[j].tokens > 0}},
               sent |-> {[work |-> ledger[i].work, op |-> ledger[i].op] : i \in Rows},
               open |-> Cardinality(Open(Rows)),
               settled |-> [c \in Cells |-> SecondsOf({i \in Rows : ledger[i].work = c})],
               remaining |-> Headroom]
  /\ stage' = "audited"
  /\ UNCHANGED <<block, at, run, outputs, ledger, strays, shown, surprises, verdict>>

-----------------------------------------------------------------------------
(* the checks                                                              *)
Committed == DOMAIN outputs
Outputs(a) == {outputs[c] : c \in Committed \cap CellsOf(a)}
P1Committed == {c \in Committed : c.arm # "P0"}

Structured(k) == k \in {"CPU", "LLM", "HIER"}
\* _arms_that_publish_spans: an arm is in as soon as one of its halves is structured
Publishing == {a \in Arms : Structured(kind[a].page) \/ Structured(kind[a].close)}

ExpectedOps(a) ==
  (CASE kind[a].page = "LLM" -> {"LOCAL"} [] kind[a].page = "HIER" -> {"LOCAL", "GLOBAL"}
     [] kind[a].page = "PROSE" -> {"PAGE_PROSE"} [] OTHER -> {})
  \cup (CASE kind[a].close = "LLM" -> {"CLOSE"} [] kind[a].close = "PROSE" -> {"CLOSE_PROSE"} [] OTHER -> {})

CellsCommitted == Committed = Cells

StrategiesInvoked ==
  /\ P1Committed # {}
  /\ \A a \in P1Arms : Outputs(a) # {} => \E o \in Outputs(a) : o.reduced # <<>> \/ o.close = "reduced"

\* Mutant: a batch that fell back still counts what it had staged
StagedSpans(o) == o.reduced # <<>>

PublishesSpans(o) == \E r \in o.direct : r.of.spans > 0
OutputPublished ==
  /\ Publishing \cap P1Arms # {}
  /\ \A a \in Publishing : Outputs(a) # {} => \E o \in Outputs(a) : PublishesSpans(o)

DecodedBy(c, op) == [work |-> c, op |-> op] \in audit.decoded
SelectorDecoded ==
  /\ \E d \in audit.decoded : d.op \in SelectorOps
  /\ \A c \in Committed : \A op \in ExpectedOps(c.arm) : DecodedBy(c, op)

CheckpointsPresent ==
  /\ \E c \in P1Committed : outputs[c].reduced # <<>>
  /\ \E c \in P1Committed : outputs[c].close # "none"

DirectProvenance ==
  \A c \in P1Committed : kind[c.arm].page # "P0" => \E r \in outputs[c].direct : r.node = "H"

AtomicPublication == \A c \in Committed : outputs[c].published = DOMAIN outputs[c].reduced

\* an arm none of whose reports differs from P0's on the same task
DiffersFromP0 ==
  LET compared(a) == {c \in Committed \cap CellsOf(a) : [arm |-> "P0", task |-> c.task] \in Committed}
  IN  /\ \E a \in P1Arms : compared(a) # {}
      /\ \A a \in P1Arms : compared(a) # {} => \E c \in compared(a) : ~outputs[c].sameAsP0

ReservationsClosed == audit.open = 0

CpuControls == {"CPU_LEXICAL", "H_CPU_CONTROL", "C_CPU_CONTROL"}
ProseControls == {"SHORT_PROSE", "H_PROSE_CONTROL", "C_PROSE_CONTROL"}

\* the arms of configs/week1.yaml: structured in a half, the prose control of the close, or a prose
\* control the rendering check has by name
ASSUME ArmsAssumption ==
  \A a \in DOMAIN kind \ {"P0"} :
    \/ Structured(kind[a].page) \/ Structured(kind[a].close)
    \/ kind[a].close = "PROSE"
    \/ a \in ProseControls

(* An incident has a direct record of its failure and, but for the two      *)
(* selector-free controls, a selector's call in both accounts.              *)
IncidentCalls(node) ==
  IF node = "H" THEN {"LOCAL", "GLOBAL", "PAGE_PROSE"} ELSE {"CLOSE", "CLOSE_PROSE"}
Incidents(o) == {[node |-> "H", batch |-> i] : i \in {j \in DOMAIN o.reduced : o.reduced[j]}}
                \cup {[node |-> "C", batch |-> 0] : x \in {y \in {o.close} : y = "failed"}}
FallbacksAccounted ==
  \A c \in Committed : \A f \in Incidents(outputs[c]) :
    /\ \E r \in outputs[c].direct : r.node = f.node /\ r.batch = f.batch /\ r.of.failed
    /\ c.arm \notin CpuControls =>
         \E op \in IncidentCalls(f.node) : op \in outputs[c].byOp /\ [work |-> c, op |-> op] \in audit.sent

CpuDecodesNothing ==
  /\ CpuControls \cap {c.arm : c \in Committed} # {}
  /\ \A d \in audit.decoded : d.op \in SelectorOps => d.work.arm \notin CpuControls

ProseRendered ==
  /\ \E c \in Committed : c.arm \in ProseControls
  /\ \A c \in Committed : c.arm \in ProseControls => outputs[c].rendered > 0

\* the cap is looked for in the requests of the structured selectors
RequestsCapped == \E s \in audit.sent : s.op \in StructuredOps

SettledAsMeasured == \A c \in Committed : audit.settled[c] = outputs[c].seconds

Forecast(a) == screen[a] * Max({outputs[c].seconds : c \in CellsOf(a)})
BudgetFeasible ==
  /\ CellsCommitted /\ SettledAsMeasured
  /\ MapThenSumSet(Forecast, Arms) <= audit.remaining

Passes ==
  /\ CellsCommitted /\ StrategiesInvoked /\ OutputPublished /\ SelectorDecoded /\ CheckpointsPresent
  /\ DirectProvenance /\ AtomicPublication /\ DiffersFromP0 /\ ReservationsClosed /\ FallbacksAccounted
  /\ CpuDecodesNothing /\ ProseRendered /\ RequestsCapped /\ BudgetFeasible

\* _verify, and GPU_SMOKE_PASSED if every check passed
Verify ==
  /\ stage = "audited"
  /\ verdict' = IF Passes THEN "pass" ELSE "fail"
  /\ stage' = "over"
  /\ UNCHANGED <<block, at, run, outputs, ledger, strays, shown, surprises, audit>>

CanaryStep ==
  \/ StartCell \/ ReduceBatch \/ PublishBatch \/ GraphFails \/ CloseCell \/ CommitCell
  \/ StrayCalls \/ Settle \/ Audit \/ Verify

CanarySpec == CanaryInit /\ [][CanaryStep]_canaryVars
-----------------------------------------------------------------------------
(* A canary that passes passed for something its own cells did: of every    *)
(* arm some cell showed its model text of P1's, and every cell of it made   *)
(* the model decode for each selector of the arm.  What an earlier campaign *)
(* decoded, what was staged and fell back, and another cell's work count    *)
(* for nothing ("a P1 arm that appears to work while doing nothing",        *)
(* canary.py 9-13).  A hierarchical arm is left out of the first half: its  *)
(* shortlist counts as published (page_h.py 235-268).                       *)
PassIsEarned ==
  verdict = "pass" =>
    \A a \in P1Arms :
      /\ kind[a].page # "HIER" => CellsOf(a) \cap shown # {}
      /\ \A c \in CellsOf(a) : \A op \in ExpectedOps(a) :
           \E i \in 1 .. audit.n : ledger[i].work = c /\ ledger[i].op = op /\ ledger[i].tokens > 0

(* A canary that passes leaves room for the screen: cells that cost what    *)
(* the dearest of their arm did, by all that the calls the audit saw were   *)
(* ever settled at, fit into what the ledger has left, whatever becomes of  *)
(* the calls still open then (_gpu_budget_projection_check).                *)
TrueCost(c) == SecondsOf({i \in 1 .. audit.n : ledger[i].work = c})
ScreenIsAffordable ==
  verdict = "pass" =>
    MapThenSumSet(LAMBDA a : screen[a] * Max({TrueCost(c) : c \in CellsOf(a)}), Arms)
      <= GpuCap - SecondsOf(1 .. audit.n)
=============================================================================
