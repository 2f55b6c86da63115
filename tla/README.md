# A formal model of shapeflow

shapeflow runs a pre-registered, paired experiment: every *cell* (one task, one
arm, one seed) drives a patched Open Deep Research graph against a frozen corpus
and one local inference engine. Everything the analysis reads afterwards has to
be attributable, paid for once and recoverable after a crash. The control that
makes this true is a family of small transactional state machines around one
SQLite file, one content-addressed store and one provider process. This
directory models them in TLA+, checks them with TLC on small instances and
proves the central ones with TLAPS.

Paths below are relative to `src/src/shapeflow/`.

## 1. The system

### 1.1 Parts, their state and what makes them correct

| Part | State | Operations | Correct when |
|---|---|---|---|
| work-item ledger, `experiment/ledger.py` | rows of items, attempts, artifacts, incidents, cell epochs | ensure, claim, heartbeat, advance, commit, fail, block, reclaim_stale | one accepted attempt per item, bounded executions, no item in progress without an attempt |
| coordinator, `experiment/coordinator.py` | none of its own | run, resume | every item settles; results never change; late workers cannot disturb a live one |
| budget, `experiment/budget.py` | accounts, reservations | ensure_account, authorize_cap_raise, reserve, settle, release | no charge lost or doubled; spending stays under the authorised ceiling but for reported overruns |
| external-call ledger, `providers/external_call_ledger.py` | logical calls, physical attempts | open, begin, reserve, mark_sent, store, validate, commit, three failures, close | a call is bought once; money and state move together |
| provider service, `runtime/provider_server.py` | breaker counts, nonce; the rest in the ledger | three paid routes, inference proxy, reconcile_on_start | same answer on replay, no priced or unheard answer under-counted, no money left standing, fenced providers stay fenced |
| inference proxy, `runtime/provider_server.py`, `work_accounting.py` | in-flight gate, call numbers, intervals, tags | inference, summaries, reconcile | work called complete was served alone and measured; a place at the gate always comes back |
| campaign runner, `campaign/runner.py`, `schedule.py` | freeze files, blobs, cell epochs | run_cells, freeze_blocks, resume | a cell runs once; a paired block saw one engine; the seal is the ledger's answer |
| campaign phases, `campaign/phases.py`, `experiment/state_machine.py` | phase rows and transitions | begin, complete, fail, current | gates open in order, and every gate is logged |
| broker, `broker/` | offers, engine tick, dispatched requests | run_tick, decide, materialize | an offer stays pending until it is started whole in one form it offered; a decision naming it twice starts it twice |
| ODR boundary, `odr/` | pending publication, published provenance, checkpoints | transform_tool_batch, record_tool_batch_publication, close | a tool batch is published whole, as P1 or as the vendor's |
| strategies, `strategies/` | last work and outcomes, publication scopes | transform, select, render | the arms differ only in the varied dimension; budgets are joint |
| P1 contract, `p1/` and evidence, `evidence/` | none (pure) | chunk, view, select, aggregate, render, handles | every selected span maps back to the bytes offered |
| retrieval, `retrieval/` and worlds, `world/` | index, cache, counters, frozen pools | search, fetch, health | same query, same pages; counts exact; identity frozen |
| graph driver, canary, replay, lanes, `campaign/` | per-run bindings, logs, lane files | run_cell, canary, replay, shard, merge | cells of one lane on one engine; merge only of complete lanes |
| protocol and commands, `protocol.py`, `cli.py`, `doctor.py` | approval record, launch gate | approve, gate, every command | nothing runs under another protocol than the approved one |
| design, `experiment/block_design.py`, `randomization.py`, `promotion.py`, `freeze.py` | frozen records | design, assign, promote | balance; outcome-blind |
| operations, `ops/` | GPU lock files | lease, pool, watchdog, preflight | one holder per GPU |
| analysis, `bench/` | none | grade, recall, compare | numeric |

### 1.2 How they interact

* A coordinator or a campaign runner claims items of the work-item ledger and
  stores what an execution produced in the object store *before* it commits the
  reference. Between two transactions the process can die, and another process
  can reclaim the attempt (coordinator only: `reclaim_stale` has no other
  caller).
* The provider is the only process that reaches a paid service. Each HTTP
  request is a thread; the external-call ledger and the budget share the
  ledger's connection and one lock, so a money movement and the state that
  explains it are one transaction, but the threads interleave between
  transactions. The breaker's counters are in memory under a lock of their own
  and its fence is an incident row, written outside it.
* The runner brackets each cell with the engine boot it saw, and freezes blocks
  and one root file by exclusive creation and comparison.
* Commands of the CLI move the campaign's phase in several single-statement
  transactions; nothing excludes two commands at once.
* A broker tick reads offers, takes a snapshot, asks a policy and materialises
  the decision; a stale snapshot sends it back.
* Inside a cell, researchers run concurrently; a gather's results are deferred,
  transformed as a batch and bound to the messages the graph really carries.
* A prose strategy gathers model calls over siblings and pages; each is an HTTP
  request to the provider, which queues it before the one engine and records how
  long it was served. A selector strategy makes one such call a batch and everything
  it may publish passes parse, aggregation and preflight. A close lays the same
  conversation out again and has to find in it the pages it recorded.
* Searches go to a retrieval service that outlives neither its host nor its index:
  each client checks, answer by answer, that it is still the world it pinned.
* A campaign runs on several lanes, each a process with a ledger and a store of its
  own; one evaluator reads all of them and merges, and a steward gates the report.

### 1.3 What is hard to test

The list with lines is `hazards` in `PROJECT.json`. In short: workers that
outlive their lease; crashes between two transactions, between dispatch and
record, between a file's creation and its contents; several requests past a
check when the breaker trips; incidents of two providers hiding one another;
an engine restarted inside or between cells that will be compared; a freeze
reading while another process commits; two commands racing through a phase;
snapshots going stale until the retries run out; one sibling of a batch failing or
being cancelled while the others still spend; an upstream still working for a
request the provider gave up on; a checkpoint and a graph that no longer hold the
same messages; an approval that moves under a running command; source blocks found
in text and paired by position with records kept beside it; a chunk that belongs to
two pages; an evaluator that reads a ledger while a lane still writes it; a canary that
reads a ledger older campaigns wrote to and calls nobody waits for still do.

## 2. The modules

| Module | Code | Depends on |
|---|---|---|
| `WorkLedger` | `experiment/ledger.py`: items and attempts | |
| `AcceptedWork` | abstract: what readers of results may rely on | |
| `Coordinator` | `experiment/coordinator.py`, object store | extends `WorkLedger`; implements `AcceptedWork` |
| `CellRunner` | `campaign/runner.py`, the parts of `schedule.py` it uses | extends `WorkLedger` |
| `ExternalCalls` | `external_call_ledger.py` and `budget.py` | |
| `ProviderService` | `provider_server.py`, the three paid routes | extends `ExternalCalls`: each of its ledger steps is one of the ledger's |
| `InferenceProxy` | `provider_server.py`, the inference route; `work_accounting.py` | |
| `ProseBatch` | `strategies/prose.py`, `selectors_async.py` (prose) | extends `InferenceProxy`: the callers and the route together |
| `OfferBook` | abstract: the offer contract | |
| `BrokerTick` | `broker/driver.py`, `reference.py`, `hosts/simulated.py` | implements `OfferBook` |
| `BatchBook` | abstract: what a researcher's conversation may be told | |
| `BatchPublish` | `odr/adapter.py`, `odr/vendor_hooks.py`, `strategies/page_h.py`, `p0.py`, `close_visible.py`, `graph_driver.py` | implements `BatchBook` |
| `Selection` | `strategies/pipeline.py`, `preflight.py`, `p1/` | |
| `Sorting` | `sorted()` over a finite set | extended by `Selection` and `CloseView` |
| `CloseView` | `strategies/visible_view.py`, `close_visible.py`, `evidence/chunkers.py`, `p1/view.py` | |
| `RetrievalService` | `retrieval/service.py`, `client.py` | |
| `ApprovalStore` | `protocol.py` | |
| `PhaseStore` | `campaign/phases.py`, `experiment/state_machine.py` | |
| `Canary` | `campaign/canary.py`, `provider_server.py` (`canary_audit`), `vendor_hooks.py` (records), `campaign/runner.py`, `work_accounting.py` (a cell's summary) | |
| `Campaign` | `cli.py` (doctor, preflight, test-p0-parity), `canary.py`, `bcplus.py` | extends `ApprovalStore`, instantiates `PhaseStore` over it |
| `Design` | `campaign/schedule.py`, `experiment/randomization.py` | |
| `Lanes` | `campaign/bcplus.py`, `bench/bcplus/analysis.py`, `grader.py`, `cli.py` (grade, competence) | extends `Design` |
| `Replay` | `campaign/replay.py`, `bench/bcplus/selection_quality.py` | |
| `WorkLedgerProofs` | theorems of `WorkLedger` | |
| `CoordinatorProofs` | theorems of `Coordinator` | extends `WorkLedgerProofs` |
| `CellRunnerProofs` | theorems of `CellRunner` | extends `WorkLedgerProofs` |
| `ProviderServiceProofs` | theorems of `ExternalCalls` and `ProviderService` | |
| `BatchProofs` | theorems of `BatchPublish`, `InferenceProxy`, `ProseBatch`, `Selection` and `CloseView` | |
| `CampaignProofs` | theorems of `Campaign` (with its two stores), `Lanes`, `Design` and `Replay` | |
| `HostProofs` | theorems of `BrokerTick`, `Canary` and `RetrievalService` | |
| `FoldLemmas` | lemmas about folds and sums over finite sets | extended by the three proof modules that sum or fold |
| `MC*` | instances for TLC | |

`MCSelection`, `MCCampaign`, `MCLanes` and `MCHosts` hold several scenarios of modules that share no state
(a selector call or a close's view; the commands of a campaign, or one canary from inside; a
campaign on lanes, its gate, a replay, or a larger design; the broker's host or the retrieval service). A behaviour does one of them, so nothing is multiplied.

Some modules end with definitions that no run lists: a type invariant, a weaker
or stronger form of a listed property, or what the code's own text claims and the
model refutes (section 6). Each runs by adding its name to the cfg.

**One action is one transaction.** Every method of the ledgers runs in one
`BEGIN IMMEDIATE` transaction under one lock; a method that raises rolls back
and is no step. Where the code makes several transactions, or looks and then
writes, or awaits, the module has a control state (`pc` or a stage) between
them, so another process can come in, and a crash can strike, exactly there.

**The component modules are open.** `LedgerNext` and `ExternalCalls!Next` let
any client call any method on any attempt at any time. What holds of them (and
what is proved of them) holds whatever a coordinator, a runner or a provider
does, buggy or late. The modules of the callers restrict this to the order the
code follows, and there the stronger properties are stated.

### WorkLedger
`item[k]` is the row of `work_items` (state and retry count), `attempts[k]` the
attempts by ordinal. `lease` abstracts `lease_expires_at`: held until the clock
passes it (`LeaseExpires`); `Heartbeat` renews it. `Reclaimed` is the loop of
`reclaim_stale` over all the stale attempts of an item. `CanCommit` has
the partial unique index `ux_one_commit` as a conjunct. `Fail` looks at no
state, because the code does not.

### Coordinator
`worker[w].pc` follows `run` and `_process`: poll, claim, execute, register the
artifact, advance twice, commit, or one of the two failure paths and the fatal
incident. `Refused` is an `IllegalTransition` that leaves `run`. Blobs are
stored before the row that names them.

### CellRunner
`runner[r]` walks the plan, brackets a cell with the engine boot (`start`,
then `epoch`), stores its bundle, judges it, commits or fails it, and then reads
the states of all cells and after them their outputs, a cell a step, so that another process commits
between any two reads, and writes the freeze files. A file is created empty (`Torn`), then
written; a crash in between leaves it torn. `LoseBlob` is a blob that no longer
verifies. `served` is history: the boots that really served the cell.

### ExternalCalls
`account`, `call`, `attempts` are the rows of the three tables; `money` on an
attempt stands for its reservation rows. `ceiling` and `overrun` are history:
the largest cap an account was ever given, and what settlements charged beyond reservations (the code reports those as `BudgetUnderReserved`). `EndUnresolved` is an
end that leaves the reservation standing, which two methods allow: a failure told of no group, and
a `reserve` that is refused, whose second transaction ends the attempt in whatever live state it is.

### ProviderService
`thread[t]` is a request between two steps: breaker in memory, the two kinds of
incident one after the other, open, replay, begin, reserve or be refused and close the attempt, send, the upstream's reply, settle,
note the failure, record the incident, store, validate, commit. `Replies`
gives the upstream every freedom the code meets, on each route: silence that was billed,
errors, an answer without a cost or usage, one too large to freeze, one that is
not an object. `heard` is history: what an attempt was really answered and billed. `Crash` clears threads and counters; `Reconcile` closes each live
attempt before the next process serves.

### InferenceProxy and ProseBatch
A request draws a number, opens its call and attempt, waits at the gate, is
dispatched, answered or given up on, and committed; the engine and the provider
fail separately, so a request the provider timed out on is still in `engine`.
The interval that `work_accounting` reads back is kept as what else the engine
was serving. `ProseBatch` puts the strategy's coroutines before it: the gather over
siblings, each sibling's gather over its pages, the records, the cancellation of one
call or of the batch, the first error that leaves the siblings running, and a retry
in which the cell is registered again and may ask the same prompt.

### BatchPublish
`researcher[r]` alternates model turns and tool batches and then closes. A batch
is deferred sibling by sibling, transformed once all are there, or falls back to
the vendor's rendering; the pending publication is matched with the messages the
graph carries when the next checkpoint is recorded, and becomes published
provenance only then. The record of outcomes (`last_outcomes`) is one per strategy
object and so shared by the researchers of a cell. The treatment label of the
recorder and the closing boundary are those of `run_cell`.

### Selection and CloseView
`Selection` is one selector call: prompt admission (attempts that each give up some
margin), handles of the declared radices, an output of any lines over the closed
schema, parsing with its rejections, the four aggregators, the render's cost and
the preflight that owns what is published. `CloseView` is what a close offers its
selector: the messages the compressor sees are laid out as lines, source blocks
are recognised and paired by position with the occurrences captured earlier, the
text is cut at the blocks, chunked by one of three chunkers, and each chunk
bound to the source that contains it. A line's `page` is who really wrote it; no
action of the code reads it, the properties do.

### RetrievalService
A start passes the gates (report, index, corpus, encoder, freeze) or refuses. Handler
threads are interleaved at the lock, the encode, the cache and the answer;
clients verify the identity when they are made and again on every answer.

### ApprovalStore, PhaseStore, Campaign
`ApprovalStore` is `freeze-approval` as the three files it writes (immutable link, `INDEX.json`,
current pointer), with a death between any two, and the verification that every
spending command makes. `PhaseStore` is the statements of begin and complete;
its rows belong to an execution binding. `Campaign` composes them: commands that
check the tree, then record under the binding that verifies when they record, the
canary and `run-bcplus`, which pin theirs, and HEAD or the tree moving meanwhile. The
reads of one phase check are taken in one step with the check of legality.

### Canary
`block` is the canary's cells in their order. A cell calls the graph's model, reduces and
publishes page batches, closes and freezes an output (`run`, then `outputs[c]`), and
each of its model calls is an attempt of `ledger`, which starts with what an earlier
campaign left. `OddBatches` and `OddCloses` are all that may become of a batch or a
close of a kind of arm beside going well: a selector that chooses nothing, a call
that fails or decodes nothing, a fallback, a sibling that raises and leaves another's
call to be made later by nobody in particular (`strays`). `Audit` is the provider's one
consistent reading, `Verify` the checks in the order of `_verify`. A layer in which
calls are served one at a time is assumed: then a cell's service seconds are what its
calls were settled at. `Campaign!CanaryCells` has the verdict as a free choice.
Three facts of the code are named assumptions: no cell is twice in a canary, since cell
keys are unique; an earlier campaign's calls are under work keys of its own
(`HistoriesAssumption`), since a work key has the run's id in it; and each P1 arm of
`configs/week1.yaml` publishes spans in one of its halves, or has the prose close, or
is one of the controls the rendering check has by name (`ArmsAssumption`). An arm outside
all three is covered by none of the positive checks.

### Design, Lanes, Replay
`Design` has the Williams orders and the second seeds, with every choice a seeded
permutation could make. `Lanes` has lanes that claim and end cells or leave them behind, an
evaluator that reads a ledger cell by cell, the artifact's reference before the row, while
the lane goes on, merges, judges with retries, forms the paired contrast and writes the report, and the gate that
reads the file and puts the freeze in force by rename and write. `Labelled` are the tasks whose query has
labelled evidence: the cells of another have no recall and are in no average of it. Replicates are left out:
a cell is a task and an arm. `Replay` is the
occurrence index, the verified reconstruction, trials written once, and scores.

### BrokerTick
`tick` is the control state of `run_tick`; `reference` selects the reference
policy or any policy at all (any decision, answerable or not). A decision has a form for
each item it admits and a number of times it names it, for `admitted` is a tuple and nothing rejects an item
that is in it twice; each naming dispatches the plan again. Over-running its
time budget and failing both lead to the fail-closed decision. Submissions do not end:
when an item has been taken, the next one of its shape may be offered under its name.

## 3. What the runs check

Every property is the run's because a mutant of the mapped code breaks it there
(`mutants` in `PROJECT.json`).

| Run | Instance | Shows |
|---|---|---|
| `coordinator` | 2 workers, 2 items, 2 references, 1 interruption | readers see `AcceptedWork`; executions stay in the retry budget; every item settles |
| `external_calls` | 2 calls, 2 accounts, 2 attempts each, caps lowered and raised, charges under and over the reservation | bought once, books balance, ceiling |
| `provider` | 2 threads, a search and a chat route of 2 providers with one call each, 2 attempts, 1 crash, any answer of the upstream | a finished attempt is charged less than it cost only for an answer that was read and carried no price; no end leaves its money standing; the fence holds when one provider is fenced |
| `provider_ends` | the same with 1 attempt and 2 crashes, under fairness | every attempt ends, unless its answer was not an object and the process has not restarted since |
| `inference` | 3 requests, 1 engine place, 1 provider crash; batches of the scopes per_page, whole_batch and close, two of them tried twice | work called complete was measured alone, a batch that ended tells what it bought, every batch ends |
| `cells` | 2 processes, a block of 2 cells, 2 boots, 1 crash | a paired block saw one engine; a cell runs once; what one process froze, reading while the other commits, stays the outcome |
| `cells_resume` | 1 process, 2 blocks of a cell each, 2 crashes at any steps, 1 lost blob | only a cell a process died in is left over; the seal is only delayed by other deaths |
| `hosts` | the broker: 3 items that are offered again when they are taken, every pattern of stale ticks, 2 retries, items named once or twice, 1 engine restart; or the retrieval service: 2 threads, a pinned and an unpinned client, 5 hosts' files, cache of 1, 2 starts | `OfferBook` is implemented by any policy; the reference policy keeps an offer waiting for ever only while others that go before it keep coming; every trace is from one licensed retriever; every accepted search is answered |
| `batch` | every arm; rounds of one researcher after another and of two at once; 2 turns each, batches with siblings, equal ids, a thought with a search's id | `BatchBook` is implemented; the frozen provenance is that of the bytes the model was shown; every cell ends |
| `selection` | every output of up to 3 lines in arms of every contract and aggregator, with and without admission; handles of small radices, researchers inside and outside them; and 7 page bodies in one or two sources under 4 chunker and budget pairs | what is published keeps both sides of a contradiction, its citations and its budget; the prompt shows every page; chunks have one owner, lose no word and pass no bound |
| `campaign` | 2 commits, 2 freezes, 1 move, 2 commands at once, 4 in all; or one of 3 canaries, of 6 cells in 4 arms, 5 in 5 and 4 in 4, over 3 histories of the ledger, 2 surprises | work is approved, gates open in order, a smoke is of its own binding; a canary that passes did what it certifies and leaves room for the screen |
| `lanes` | 2 tasks, 2 arms, 2 lanes, 1 death, 1 grade, 1 move; the same on 1 lane, one task without labels, 2 grades, 2 gates, 1 death of a steward; designs of up to 5 arms and 6 tasks; 3 replays, 1 death, 2 trees | the merge holds each cell once, pairs stay on one lane, designs balance, trials are of their batch; a freeze in force follows a report whose judged cells and labelled cells cleared their floors, whatever was graded and gated before and since |

### 3.1 The bounds, and why they are enough

* Two processes are the least that interleave, and each hazard above is between
  two (a late worker and the new holder, two requests on one call, a freeze and
  a commit). The ledgers serialise every transaction, so a third adds no new kind
  of step. The inference route has three requests, so that one is served, one
  waits and one comes back under the same cell.
* Two items or calls: they share accounts, blobs and incidents. One has retries and one
  has none, so both branches of every retry decision are taken.
* Two attempts of a call: enough for a retry after a failure. In `external_calls` and
  `provider` an attempt past `MaxAttempts` is the model's bound, not the code's.
* One crash may come at every step, so each recovery is exercised; the second process after it is the interesting one; `cells_resume` and `provider_ends` have two, so that
one strikes what recovers from the other. `MaxInterruptions`, `MaxCrashes`,
  `MaxLost`, `MaxBoots`, `MaxRestarts`, `MaxBreaks`, `MaxTorn` are these bounds;
  `MaxStarts`, `MaxAsked`, `MaxFreezes`, `MaxMoves`, `MaxDisturbed`, `MaxGrades`, `MaxGates`,
  `MaxReplays` end the operators' commands; `MaxDisturbed` counts the lane steps that fall
  into an evaluator's reading. Two freezes and one move are the
  least in which an approval goes out of date under a running command.
* Caps are chosen so that the last attempt is refused, actual charges lie on both
  sides of the reservation, and one broker item fills a round by itself. `MaxNamed` = 2 is the least
  in which a decision repeats an item.
* The gate has behaviours of its own in `lanes`: one lane and no moves leave room for two grades and two gates with a
  death between any two steps, which is what a freeze in force can come to disagree with. In the others the
  reading is what is disturbed. The gate reads the baseline's cells, so the treatment's all end empty there.
* `MaxTick` = 5: a tick with two retries and a degradation uses four snapshots, and a restart
  sets the counter back, so that staleness comes after it. Ticks from 5 on are never stale, which is the assumption that staleness does not go on for ever.
* `MaxTurns` = 2 lets a second batch come before the first is certified.
* In `Selection` four spans lie on two pages and in the user's own message, two of them
  adjacent, so that packing, merging of neighbours and uncitable spans all
  occur; a bridge is said twice, and cites a span twice or in another order; budgets lie just under and over a render. The handle alphabet and
  radices are small so that every coordinate's handle is decoded again
  (`HandlesNameOneSpan`, which TLC evaluates as an assumption of `MCSelection`). One researcher
  has a child past its radix: its ordinal would be another's, and still within range.
* In `Canary`, `MaxSurprises` = 2 departures from a cell in which all goes well (a dearer
  cell, a second batch, a fallback, a failure, a report equal to P0's) and
  `MaxBatches` = 2: one departure can make a check fail and one more can hide it
  again, as when a second batch succeeds after the first fell back.
  `GpuCap` = 30 is between the cheapest and the dearest forecast, so that the last
  second of headroom decides; all three canaries can pass. A call that is settled by
  nobody costs twice what an answered one does (`Reserve` = 2).
* In `CloseView` words stand for tokens and a sentence ends only at a line's end; the
  bodies have a heading, a fence, a table, a list, a block without an end and a
  line shaped like a source header. Budgets are smaller than some blocks.

### 3.2 Fairness

* `Coordinator`: weak fairness of each worker's steps and of being started
  again (the campaign is re-run until nothing is left; interruptions are
  bounded), of planning, and of the clock passing every lease: no caller
  of `heartbeat` exists in the coordinator.
* `ProviderService` (`provider_ends`): a thread goes on (upstream calls have a timeout), and a
  process that started reconciles and listens. No fairness on requests or crashes.
* `InferenceProxy`, `ProseBatch`: weak fairness of a handler's steps and of the
  coroutines; an upstream call ends since it has a timeout. Strong fairness of
  taking a place at the gate: a waiter that is woken may lose the place to a newcomer,
  but each caller sends its next request only after an answer, so not for ever. None on crashes, cancellation or the engine ending early.
* `CellRunner`: a process goes on and is started again when it is down, and the
  graph ends (each model call has a timeout). None on crashes or restarts of
  the engine.
* `BatchPublish`: the supervisor and each researcher go on; every await in them
  ends (tools and models have timeouts). Model turns are bounded by
  `max_react_tool_calls`, as in the code.
* `RetrievalService`: a handler thread goes on, with strong fairness on taking
  the encode lock, which others hold only for one encode. None on stops or starts.
* `BrokerTick`: ticks go on. Nothing is assumed of submissions or restarts.

`external_calls`, `provider`, `cells`, `campaign`, `selection` and `lanes` state safety only and use no fairness.

Deadlock checking is off where the system really stops: when calls and attempts
are used up (`provider`, `provider_ends`), a batch or cell has ended (`inference`, `batch`,
`selection`), the clients have asked all they ask (`hosts`), or the operators
have given their last command (`campaign`, `lanes`).

## 4. What is proved

The theorems are of a module's own specification and hold for every value of its
constants that its `ASSUME`s allow: any number of items, workers, calls, threads,
lanes, cells, any caps, retry budgets, crashes, restarts. The bounds TLC needs
(`MaxCrashes`, `MaxStarts`, ...) are constants of any size there. `LanesSpec` and
`ReplaySpec` are more general than the instances of `MCLanes`: any number of arms, and an
evaluator given any nonempty list of ledgers; `CanarySpec` is the canary that
`MCCampaign` runs as one of its scenarios. Each theorem that states a property of a run is
marked by that property's name.

| Module | Theorems | Property of a run |
|---|---|---|
| `WorkLedgerProofs` | `LedgerTypeCorrect`, `OneAcceptedAttemptHolds`, `ItemsAreBacked`, `RetryBudgetIsKept` | `RetryBudgetHolds` |
| `CoordinatorProofs` | `CoordinatorUsesTheLedger`, `CoordinatorKeepsTheBudget`, `ReadersSeeAcceptedWork`, `CoordinatorTypeCorrect` | `RetryBudgetHolds`, `ImplementsAcceptedWork` |
| `CellRunnerProofs` | `CellsAreExecutedOnce`, `FrozenStaysTheOutcome`, `PairedBlocksHadOneEngine`, `OutcomesNeverChange`, `CellsTypeCorrect` | `ExecutedOnce`, `FrozenIsTheOutcome`, `PairedMeansOneEngine` |
| `ProviderServiceProofs` | of the ledger: `CallsTypeCorrect`, `CallsAreBoughtOnce`, `OneAttemptInFlight`, `NothingInFlightUnsecured`, `SpendingIsCeiled`; of the service: `ServiceBuysAsTheLedgerSays`, `ServiceBuysOnce`, `ServiceLeavesNothingStanding`, `ServiceKeepsTheCosts`, `ServiceFenceHolds`, `ServiceAnswersWhatItFroze`, `ServiceTypeCorrect`; of both: `TheBooksBalance`, `ServiceBooksBalance`, `NothingIsReleasedTwice` | `BoughtOnce`, `WithinCeiling`, `BooksBalance`, `NothingLeftStanding`, `CostsAreKept`, `FenceHoldsForOne` |
| `BatchProofs` | `PublishedIsFrozen`, `CellsTellByTheBook`, `CompleteWorkIsMeasured`, `EndedBatchesTellOfTheirCalls`; `PublishedEvidenceIsSound`, `AdmittedPromptsShowEveryPage`, `PacksAreWhole`, `HandlesDecode`, `PrintedHandlesLeadBack`; `EveryChunkHasItsOwner`, `ChunksLoseNothing` | `FrozenProvenanceIsPublished`, `ImplementsBatchBook`, `WorkIsMeasured`, `EndedBatchesTell`, `PublishedIsSound`, `EveryPageIsShown`, `PackHoldsItsWord`, `SpansHaveOneOwner`, `NothingLostNothingLong` |
| `CampaignProofs` | `RecordedWorkIsApproved`, `NoGateIsSkipped`, `SmokeRanUnderItsBinding`; `PairsAreOfOneLane`, `FreezesNeedAPass`, `ReadingsAreWhole`; `FrozenDesignsAreBalanced`, `SchedulesAreBalanced`; `ReplayedTrialsAreOfTheirBatch` | `WorkIsApproved`, `GatesOpenInOrder`, `SmokeIsOfItsBinding`, `PairsStayOnOneLane`, `FreezeNeedsAPass`, `EveryCellReported`, `ScheduleIsBalanced`, `TrialsAreOfTheirBatch` |
| `HostProofs` | `TicksImplementTheBook`, `PendingWorkIsUntouched`, `NamedOnceIsStartedOnce`; `CanaryPassesAreEarned`, `CanaryLeavesRoomForTheScreen`; `TracesAreOfOneWorld`, `ServedWorldsPassedTheGates` | `ImplementsOfferBook`, `PassIsEarned`, `ScreenIsAffordable`, `OneWorld` |

Each module also has the theorem that its inductive invariant holds
(`CoordinatorInvariant`, `CellsInvariant`, `BatchInvariant`, ...).

### 4.1 The arguments

**The work ledger.** The number of attempts alone is not bounded
inductively: an attempt is made by `claim`, which sees only `PENDING`. The
inductive invariant `LedgerInv` adds `RetriesPaid`: the attempts of an item are
at most its counted retries, plus one unless the item is waiting, and the
counted retries are at most `max_retries`. Each way to `PENDING` (fail, reclaim)
counts one. That an item in progress is backed by an attempt is needed beside it: a step of one attempt
moves its item only by compare-and-set, so `Fits` names the pairs of new
attempt and item a step may produce, and `FitsPreserves` shows that any such
pair keeps the invariant. `reclaim_stale` changes many items at once and has
its own lemma.

**The coordinator.** Every step of a worker is a step of the ledger or leaves it alone, so the
ledger's theorems carry over. That a readable result never changes does not: `fail`
looks at no state and would fail an accepted attempt away. `WorkersInv` says that
no worker holds an accepted attempt, that no two hold the same one, and that
the blob of a result is stored before its row; with it each step is one of `AcceptedWork`
or a stutter.

**The runner.** `CInv` ties each row of the ledger to what was done for it (`CellOK`), each process to
the one attempt it holds (`HolderOK`, `OneHolder`), and what a freezing process has
read to what is still so (`SeenIsFinal`), for the cells it has come to: terminal outcomes never change here, since nothing reclaims a
lease, so a reading that is old, or taken while others commit, is incomplete but not wrong. A paired block had one
engine because the boot recorded for a cell brackets all the boots that served it.

**Sums and folds.** The library's induction theorems take an operator, which the provers cannot
instantiate, so `FoldLemmas` makes its own from what they can: a nonempty set of subsets of a
finite set has a minimal member (`MinimalSubset`, over `WFMin`). A claim about every part of a fold is proved
by looking at a minimal part where it fails. The lemmas say that the recursion behind a fold
has a solution (`FoldExists`), that all solutions give one sum, and how a sum moves when a summand is
added, changed or taken out (`SumAdd`, `SumChange`, `SumSplit`).

**The money and the calls.** The invariant splits. `BooksInv` is about accounts only: every cap is at most
its ceiling, and reserved plus settled at most ceiling plus overrun. A
reservation is admitted against the cap, and a settlement that passes its
reservation adds the same excess to both sides. `CallsInv` is about calls and attempts only: one in flight,
bought once, nothing in flight without its money (`LiveIsSecured`). That an end returns the money is
not so of the ledger (`EndUnresolved`) and is proved of the service. `begin_attempt` refuses a call that is closed or has a live
attempt, so the purchase of a call is the end of its only live attempt. `BooksBalance` is of both:
each step changes one attempt, and each account by what that attempt's share of it changes
(`SumChange`); a reservation is never released twice because what is left of it is a sum of naturals.

**The provider.** `ThreadInv` says which attempt each thread holds and in which state, so that each step
is one the ledger's client may take, and with it what the ledger keeps carries over (`ServiceBuysOnce`,
`ServiceBooksBalance`). That no end leaves its money (`ServiceLeavesNothingStanding`) needs in addition that a
refused request closes an attempt that is still INTENT, since no thread has the attempt of another. `HeardInv`
ties each attempt to what it was answered: an end is charged at least that, or the answer carried no
price. `ServiceKeepsTheCosts` has one hypothesis, `PricesAreCovered`: no bill is over the worst case reserved for its
route. The oversized search and the chat answer without usage are inside the theorem, as its exception; they are
under-counts of the code (section 6). For the fence, `FenceInv` counts, when the first incident of a provider is recorded, the requests
it comes too late for (`spare`): those past the read of its kind (`PastRead`), one that has read the first kind
and not yet the second among them. They are the only ones still sent.

**A batch's publication.** What a researcher may hold (`Sound`) is stated of its record alone: it answers the
batches it was asked, the last one excepted while the tools run, every search
among them is in its sidecar, and the sidecar names the sources its bytes were
made of. A step of one researcher leaves it of the others, and the shared
`last_outcomes` is in no part of it: the property needs nothing of that record.

**The inference route and its batches.** With a gate of one, a shared engine needs a request whose handler
gave up while the engine went on; `GateInv` says that such a request is behind every
sharing (`Lost`), and a lost request makes the extraction incomplete. `ProseInv` links
each coroutine to what its request was told (`Linked`), and each sibling to its coroutines.

**The campaign.** `ApprovalInv` is about the steward's three files (the index holds the
binding before the pointer names it, and each death in between leaves a chain that only
grew), `RowsInv` about the phases, and `Sound` about what each command holds between two of
its statements: the owner it will record under is approved, and the gate before has opened.

**Lanes.** `LanesInv` keeps every cell with the lane that owns its task, through lanes, records and
reports, and what a gate that is between its write and its rename was cleared by. `ReadInv`
adds for an evaluator that nobody disturbed: the positions behind it have one record each, with the
body of the artifact it names. `ReadingsAreWhole` is an action theorem: the step that ends such a
reading of all the ledgers ends it whole.

**The design.** A row of the Williams design is a translate of the first row, or for an odd number of arms the
reversal of one. `Start` is the one translate that has a given arm at a given place, so a place sees each arm in one
translate and in one reversal (`OneRowOfEach`). The first row steps by 1, n - 2, 3, n - 4, ..., all different, so whether a row has one
arm right before another depends on the gap between them only (`StepsApart`): one row has, when n is even
(`OneRowFollows`); when n is odd, two translates or two reversals, half a round apart (`TwoRowsFollow`), which a
window shorter than half a round never holds both of (`WindowIsSpread`). Reversals part the rows into pairs
(`PairsPartTheRows`), so the second seeds that are whole pairs count as single rows do (`SinglesAreCounted`). Full rounds add the same to every count
(`SumOfExtras`, `PairedSum`), and what is left is at most one (`SpreadIsBalanced`). Of an odd design whose remainder is
longer than a window or holds a forced pair only the counts of blocks and of single rows are claimed (`FillIsFree`).

**Replay, retrieval, broker.** A process that runs a trial has verified
the pages it runs it on; a trace is of the client's verified identity, which is of a
world that passed the gates; a tick takes nothing from an offer before it commits, only
a tick takes from the offers, and what it is about to materialise answers exactly what it read, however often it names an item. The book
counts the namings, since the code does; where a policy makes none twice (`MaxNamed` = 1), `NamedOnceIsStartedOnce`
is what the contract says.

**The canary.** No check of `_verify` looks at what the model was shown. `CanaryInv` says what the
records tell of it, for each cell and each output (`Tells`): a span published in an arm that is not
hierarchical, an output rendered in an arm with neither half structured, a call of the prose close, each means that the
cell's model saw P1's text, or that a batch or the close fell back and no record
of its node says so. The second is what the fallback check refuses, so a canary that
passes is left with the first. That each selector decoded is of the audit's
exact allowlist of work keys: what it counted is still in the ledger, whatever settles later.

`AffordInv` is about the money of a canary. What the audit counted, at what it was settled at, and one
reservation for each call still open fit under the cap with what the audit said remains (`Covered`). A call that settles
gives up its reservation and costs no more; a call a failed gather makes later is behind the rows that were counted. With
nothing of its own open, the cost of each cell is final (`SettledForGood`), so the
forecast that was compared with what remains is the screen's.

**A selector call.** `preflight` rechecks what the aggregators promise, so the property needs nothing of them.
It does need that a parsed selection holds exactly the spans its lines name: `preflight` looks for
the sides of a disagreement among the selected spans, the property among all that was said. `ItemsAreNamed` proves it
of the fold over the lines.

**Admission and packing.** Both are folds over a sorted set. TLC's own `SortSeq` is opaque to the prover, so
`Sorting` defines the k-th element as the one with k - 1 before it, and `SortedEnumerates` shows that a total
order of a finite set is listed by it: the number of elements below is one to one. `PassesKeep` is the invariant rule
of `FoldLeft`. The order of an aggregator is total because a parsed selection names each span once (`OwnOrder`), the order of
units because two units that share a span are equal (`UnitsAreApart`). Admission keeps its floor, which has a span of
every page (`PackKeepsTheFloor`), and stays in the room the floor was in. A pack stays a union of tied sets, empty or inside the budget
(`PackOfUnits`); when it is empty no bridge is left, because each binds a span (`BridgesBind`), so its cost is that of its
gaps. `ViewInv` and `PackInv` carry this through the steps of a call.

**A handle.** Quotient and remainder by an unknown radix are unique (`Unpacked`), so each layer of the
packing comes apart again, the researcher's ordinal among them (`StructuralIsInjective`). The letters are a recursive
function on an interval: `LettersExist` builds it one number at a time, and `LettersWorth` shows that the fold of
the decoder gives the number back, a letter at a time (`WorthAppend`). `HandlesDecode` is that for every
coordinate; `PrintedHandlesLeadBack` (that `HandlesLeadBack` is invariant, which no run lists) adds that what is in a prompt was placed within its radices when the
prompt was made (`HandlesInv`), and that a positive ordinal is a place in the batch.

**The view of a close.** A word has a place because the words before a line are a prefix sum that never falls (`PrefixSums`,
`PrefixesGrow`): each word is on one line, and a stretch of lines holds the words of its lines (`StretchHolds`). A set of
ranges `Lays` lines out when each line that is not blank is in exactly one; chunks `Cut` a stretch when they hold each of
its words once and none is over the budget. `CutsTogether` composes the two, so each chunker is proved by what it lays out:
runs between ends (`RunsLay`), paragraphs, sentences, the pieces of a markdown block (`PiecesLay`), and the blocks themselves,
which a fold over the lines opens one by one (`OpenBlocksHold`, by `PassesKeep`). Windows cover by the least multiple past a word (`WindowsCover`).

Segments hold each line of a message once (`SegmentsCover`, `SegmentsApart`), so no word is lost between blocks. That a block
is paired with its own page needs the equal counts: the lines that open a page are increasing places among the lines
that open a block, and as many, so they are the same (`OneEnumeration`, `EntryPages`). A chunk cut from an entry touches no other
(`Overlap`, `EntriesApart`), so it is bound to that one. The hypotheses are named in `CloseView`: only what is blank has no word, a window of
`fixed_token_v1` is larger than its overlap (with a budget of 1 the code raises, section 6), and `PagesAssumption`: a tool message is written
page after page in the order of its occurrences, each under a line that opens a block, as the vendor and the scope `per_page` do. It says nothing of
what pages and models write below: source-shaped lines of their own are allowed, and make the counts differ. In the
other scopes it fails (section 6), and no arm with a visible close has them; the words of an unpaired message need it too.

### 4.2 Only model-checked

* Liveness, since fairness and `ENABLED` are outside the proof system's reach: `EveryItemSettles`,
  `EveryAttemptEnds`, `OnlyOutbidWait`, `EveryCellEnds`, `EverySearchEnds`, `EveryBatchEnds`,
  `OnlyOrphansRemain`, `SealedUnlessHarmed`.
* The decisions of the reference broker, which are folds (the theorems hold of any decision).

Every safety invariant of a run is stated by a theorem of the table above.

No recursive operator is in a module with a proof or in one it uses.

## 5. The plan

The order is by how much of the experiment's validity rests on the part. The modules of section 2 are
written and checked, and the theorems of section 4 proved. What is left:

1. The fence under several providers, in the weaker form the code does keep.

To extend: the sharded canary of a lane with the partition of `sharding.py` it uses, the
checkpoint stores and `odr/continuation.py`, the device lease of `ops/gpu_lease.py`.

## 6. Where the code and its own text disagree

Met while modelling. A name in brackets is a definition of the module that TLC
refutes when it is put in the module's cfg; the rest was read, or executed where it says so.

Ledgers, provider, runner:

* **A COMMITTED item can be reopened** (`Coordinator!CommittedIsTerminal`). `fail` looks at
  no state (`ledger.py:657`): a worker whose lease was reclaimed can reopen an item another has
  committed since. The accepted result survives (`ImplementsAcceptedWork`);
  `state_counts` and `pending_keys` change. At `ledger.py:693` it reopens a
  side-effecting item frozen FAILED_UNKNOWN, which 736 says is never blindly repeated.
* **A fence hides behind another** (`ProviderService!FenceHolds`). Only the newest
  incident of a kind is consulted; a second provider's incident lifts the
  first's fence. With one fenced provider it holds (`FenceHoldsForOne`).
* **An answer can be under-counted** (`ProviderService!AnswersAreCharged`). A search that was billed and
  cannot be frozen is charged its request and not its dollars (`provider_server.py:1102`, 1194), and a chat answer
  with a 200 and no usage is charged nothing (1289, 1329), while `budget.py:18` calls under-counting "the
  one error this module refuses to make". `CostsAreKept` says that nothing else is.
* **A refused reserve, or a failure without a group, ends an attempt with its reservation standing**
  (`external_call_ledger.py:358`, 491). No route of the provider does it (`NothingLeftStanding`).
* **A decision that names an item twice dispatches it twice** (`BrokerTick!ItsSubRequests`).
  `Decision` and `_assert_decision_is_answerable` check names and forms, not repetition.
* **A killed cell is not re-run** (`CellRunner!EveryCellSettles`). The runner skips every
  item that is not PENDING and nothing on its path reclaims leases.
  `OnlyOrphansRemain` says exactly which cells stay behind.
* `budget.py:203`: a raised cap is committed before the incident that records it; a death in between
  leaves a cap that rose without a trace. Incidents of the budget are not modelled.
* `budget.py:118`: a tightened cap may lie below what is already spent; this and
  overruns are why `WithinCeiling` speaks of the ceiling and of overruns.
* `provider_server.py:1060`: a request between the replay check and
  `begin_attempt` when another commits the call is answered 500, not replayed.
* `runner.py:153`: a freeze file torn by a crash makes every later freeze raise,
  since it is compared and never replaced; `SealedUnlessHarmed` has it as harm.
* `runner.py:535`: `cell_states` reads a COMMITTED cell whose blob is gone as
  PENDING, but the item is not PENDING and is not run again.

Inference and prose:

* **Call numbers repeat after a restart** (`InferenceProxy!NoncesStayFresh`).
  `provider_server.py:497` keeps ids monotonic; the counter restarts at the number of
  calls in the ledger, and a number drawn by a request that never opened its call is not counted.
* `ProseBatch!CountedCallsWereMade`: a page whose call was refused before it was
  sent is counted among the calls made (`prose.py:63`).
* A cancellation makes the inner gather raise, so neither work nor records of the
  siblings are reported; a view that cannot be built leaves the siblings running; a
  failed `whole_batch` call has no control record; a call refused by the budget stays at INTENT.

Publication:

* `BatchPublish!AbortStopsTheCell`: an abort raised in a child is swallowed by the
  supervisor's gather, and the cell goes on (`vendor_hooks.py:583`).
* `BatchPublish!FirstInterventionIsLabelled`: in an H_PLUS_C arm the recorder's
  node is H, so a close before any page batch is never labelled (`graph_driver.py:391`).
* Records of concurrent researchers' batches mix in `last_outcomes` (`page_h.py:118`).

Retrieval and selection:

* `RetrievalService!EncodedOnce`: the comment at `service.py:695` fails between
  two requests: a vector is cached after the encode lock is released, so the waiter
  that takes the lock in between encodes the text again.
* `Selection!DroppingBothIsLegal`: an aggregator may drop both sides of a
  contradiction by its own text (`aggregators.py:283`), and preflight refuses it (`preflight.py:345`).
* `budget_pack` raises when the gaps alone pass the budget; two bridges of one
  text are told apart nowhere; `contracts.py` says one span in two roles is rejected, the
  parser rejects it per facet.
* The close of an H_PLUS_C arm: an H message has one source header per contiguous
  run of spans, the occurrences are distinct pages, so a page published in two separate runs
  makes the close refuse. In the scopes per_tool_call, whole_batch and hierarchical the runs are in the order of
  content hashes and the occurrences in the frozen order, so equal counts could pair
  a block with another's page; no H_PLUS_C arm of the configuration has those scopes (`PagesAssumption`).
* A page whose text has a line shaped like a source header makes the counts
  differ, and the close refuses.
* Executed: a delimiter title that begins or ends with a dash is stripped by
  `_safe_title` and its byte range is not, so the close is refused; a URL with `)` is
  not recognised under a delimiter and is cut in a rendered header;
  `fixed_token_v1` with a budget of 1 raises, since its overlap is the window.

Approval, phases, commands:

* A freeze that dies between the link and `INDEX.json` leaves a link no retry passes
  (`protocol.py:354`); two stewards race on `INDEX.json`; and the second look at HEAD that
  is to close the check/read/write race (`protocol.py:396`) misses a move that was undone in between.
* doctor and preflight check the tree first and record phases under whatever binding
  verifies when they record. `Campaign!ParityIsOfItsTree`: the parity receipt
  preflight carries forward may be of an earlier tree (`acceptance.py:233`, `cli.py:552`).
* `run-bcplus` asks for no phase. `phases.py:176`, `191`: two overlapping commands can complete a phase twice;
  `phases.py:158`: `current` follows the spine only, so a branch is not seen and BLOCKED does not stop the next gate.

Canary:

* A prose control that works fails the canary. `direct_denominator_provenance` (`canary.py:467`) wants an H direct
  record of every P1 cell with a page variant; a prose page strategy emits `PROSE_CONTROL_OUTPUT` instead
  (`vendor_hooks.py:317`). `H_PROSE_CONTROL` of `configs/week1.yaml` passes only by way of a batch that failed
  before it had a control record; the fixture of `tests/unit/test_canary_checks.py` gives the control a record it never makes.
* A prose fallback that has control records leaves no direct failure record, so `_fallbacks_are_on_the_ledger`
  refuses it; so it does a fallback before any selector call, though the fallback is "a legitimate part of the ITT design" (`canary.py:363`).
* "Per-arm evidence that P1 output actually reached the graph" (`canary.py:1241`): the local stage of a hierarchical arm
  is recorded as published, also where its global call kept nothing; `PassIsEarned` without its exception for
  that arm is refuted. And a cell whose pages shortlist nothing never makes the global call it is failed for.
* `canary.py:42` says the list of selector operations was derived to bring prose decodes into the decode-cap audit;
  `provider_server.py:839` restates the structured ones, so the caps of prose requests are not attested.
* `H_PLUS_C_CPU_CONTROL` and `H_PLUS_C_PROSE_CONTROL` are in none of the lists of controls (`canary.py:569`, `584`,
  `1487`): the one's zero decode and the other's budget go unchecked, and a fallback of the CPU one is asked for a selector call.
* A coroutine that a failed gather left behind may make its call between the audit and the verdict; what it
  costs is in no number the verdict read. `ScreenIsAffordable` counts the calls up to the audit.

Lanes and analysis:

* `ok` of a sharded lane is always false (`bcplus.py:413`), since its ledger never has the other lanes' cells.
* A cell committed between the evaluator's two reads is a committed cell with an empty answer, hence wrong.
* FAILED_FINAL cells leave the accuracy's denominator, where `grader.py` says they stay in it.
* `grade-bcplus` pairs cells of a block whatever its `valid_for_paired_estimate`; a
  replicate overwrites its twin in `paired_contrast`; the merge keeps the last non-empty
  record of a cell, where its comment (`cli.py:793`) says the first.
* **A gate passes on the cells the judge answered for** (`Lanes!FreezeOnTheRegisteredAccuracy`). The report is written before the exit for too many
  ungraded answers (`cli.py:845`), and the gate reads no more of it than their accuracy. It passes on none at all neither for
  accuracy nor for recall (`FreezeNeedsAPass`).
* A gate that dies between the freeze's rename and its write leaves no freeze (`cli.py:993`; no property covers it), and a later
  run overwrites the gate's file while the freeze stays in force.
* Replay: a torn trial file counts as done and stops the scoring; a trial's key omits the
  configuration, two replays at once overwrite one another, and scores pool the trials of all trees.
* The Williams fallback of `schedule.py:372` cannot be reached; the merge functions of
  `sharding.py` have no caller.

## 7. What is not modelled

Within the modelled parts: schema migration, backup and the corpus-attempt log
of the ledger; role tokens and request parsing of the provider;
the contents of bundles and of telemetry (its verdict is a free choice);
descriptors and the event registry of the broker; prompts and the wording of a
render; the byte checks of preflight (reconstruction, lineage, novelty of a
bridge's words); heading paths and table headers of chunks; the recorder's trace
normalisation and the graph session's set-up; the single checks of doctor,
preflight, which are one condition each; the canary's checks of the host (patched tree, isolation of the
truth tree, search misses), its citation lineage and its sharded form; the bootstrap and the
rendering of the analysis. Time is a flag on a lease, never a number. Object
references stand for hashes, without collisions.

The parts with no module are in `components` with their reasons: configuration
reading, stack probing and process start-up, checkpoint records and their comparison, the frozen pools' ranking, the
dense index, the encoder, the D-optimal search and the statistics of `bench/` are
I/O or numeric code with no protocol to check; the operators' shell scripts and
reports only start processes and print.
