------------------------------ MODULE HostProofs ----------------------------
(***************************************************************************)
(* Proofs about what runs beside the research: the broker's tick, the      *)
(* canary, and the retrieval service.                                      *)
(*                                                                         *)
(* BrokerTick implements OfferBook: for every set of items, every plan,    *)
(* every policy, decisions that name an item several times included, every *)
(* pattern of stale snapshots and any number of ticks, retries, later      *)
(* items and engine restarts, nothing of submitted work is started until   *)
(* one tick commits it whole in one form that was offered.                 *)
(*                                                                         *)
(* A canary that passes was earned: for every block of cells, every arm    *)
(* whose kinds ArmsAssumption admits, any number of batches, any history   *)
(* in the ledger and any number of failures on the way.  What is kept is   *)
(* that the records of a cell tell (Tells): a span, an output rendered, or *)
(* a call of the close made for it shows in what its model saw, or in a    *)
(* fallback no record of its node accounts for, which _verify refuses.     *)
(*                                                                         *)
(* A client of the retrieval service keeps answers of one frozen world:    *)
(* for every set of hosts, clients, pins and threads, every capacity of    *)
(* the cache and every number of restarts.                                 *)
(***************************************************************************)
EXTENDS BrokerTick, Canary, RetrievalService, FoldLemmas, SequenceTheorems, TLAPS

\* the state of the host and of run_tick; of a decision only what is asked of it below
HostOK ==
  /\ offers \subseteq Items
  /\ dispatched \in [Items -> [Form -> Nat]]
TickOK ==
  /\ tick = [pc |-> tick.pc, seen |-> tick.seen, snapshot |-> tick.snapshot,
             decision |-> tick.decision, attempts |-> tick.attempts, retries |-> tick.retries]
  /\ tick.pc \in PC

\* nothing of an item that is pending has been started
PendingIsUntouched == \A i \in offers : dispatched[i] = Book!Untouched

\* the offers a tick read are still pending when it commits: only it takes any
SeenIsPending == tick.pc \in PC \ {"idle", "pending"} => tick.seen \subseteq offers

\* what a tick is about to materialize is answerable, whoever decided it
Names(d) == d.named \in [DOMAIN d.form -> 1..MaxNamed]
DecisionIsAnswerable ==
  tick.pc \in {"materialize", "degrade", "commit"} =>
    Answerable(tick.decision, tick.seen) /\ Names(tick.decision)

BInv == HostOK /\ TickOK /\ PendingIsUntouched /\ SeenIsPending /\ DecisionIsAnswerable

(* The fail-closed decision answers every offer of its tick, once          *)
(* (run_tick's P0_ONLY).                                                   *)
LEMMA P0OnlyIsAnswerable ==
  ASSUME NEW seen
  PROVE  Answerable(P0Only(seen), seen) /\ Names(P0Only(seen))
BY BrokerAssumption DEF Answerable, Names, P0Only, Once, Forms, Form

(* What SimulatedHost.materialize does to an offered item's counters: its  *)
(* form's requests, as often as the decision names it, and none of the     *)
(* other form's.                                                           *)
LEMMA MaterializedStarts ==
  ASSUME BInv, tick.pc \in {"materialize", "commit"}, Materialized
  PROVE  /\ dispatched' \in [Items -> [Form -> Nat]]
         /\ DOMAIN tick.decision.form \subseteq offers
         /\ \A i \in Items : i \notin DOMAIN tick.decision.form => dispatched'[i] = dispatched[i]
         /\ \A i \in DOMAIN tick.decision.form :
              /\ tick.decision.form[i] \in Forms(i)
              /\ tick.decision.named[i] \in 1..MaxNamed
              /\ dispatched'[i] = Book!InForm(i, tick.decision.form[i], tick.decision.named[i])
<1> DEFINE form == tick.decision.form
           named == tick.decision.named
<1>1. /\ DOMAIN form \subseteq offers /\ DOMAIN form \subseteq Items
      /\ \A i \in DOMAIN form : form[i] \in Forms(i) /\ form[i] \in Form /\ named[i] \in 1..MaxNamed
  BY DEF BInv, HostOK, SeenIsPending, DecisionIsAnswerable, Answerable, Names, PC, Forms, Form
<1>2. dispatched' = [i \in Items |-> IF i \notin DOMAIN form THEN dispatched[i]
        ELSE [dispatched[i] EXCEPT ![form[i]] = @ + named[i] * Requests(i, form[i])]]
  BY DEF Materialized
<1>3. ASSUME NEW i \in DOMAIN form
      PROVE  dispatched'[i] = Book!InForm(i, form[i], named[i]) /\ dispatched'[i] \in [Form -> Nat]
  <2> DEFINE more == named[i] * Requests(i, form[i])
  <2>1. i \in Items /\ form[i] \in Form /\ dispatched[i] = [f \in Form |-> 0]
    BY <1>1 DEF BInv, PendingIsUntouched, Book!Untouched, Form
  <2>2. more \in Nat
    <3>1. named[i] \in Nat /\ Requests(i, form[i]) \in Nat
      BY <1>1, <2>1, BrokerAssumption DEF Requests
    <3>2. \A m, n \in Nat : m * n \in Nat
      OBVIOUS
    <3>3. QED
      BY <3>1, <3>2
  <2>3. dispatched'[i] = [dispatched[i] EXCEPT ![form[i]] = @ + more]
    BY <1>2, <2>1
  <2>4. dispatched'[i] = [[f \in Form |-> 0] EXCEPT ![form[i]] = more]
    <3> HIDE DEF more
    <3>1. 0 + more = more
      BY <2>2
    <3>2. QED
      BY <2>1, <2>3, <3>1
  <2>5. Book!InForm(i, form[i], named[i]) = [[f \in Form |-> 0] EXCEPT ![form[i]] = more]
    BY DEF Book!InForm, Book!Untouched, Requests, Form
  <2>6. [[f \in Form |-> 0] EXCEPT ![form[i]] = more] \in [Form -> Nat]
    <3> HIDE DEF more
    <3>1. QED
      BY <2>1, <2>2
  <2>7. QED
    BY <2>4, <2>5, <2>6
<1>4. ASSUME NEW i \in Items
      PROVE  /\ i \notin DOMAIN form => dispatched'[i] = dispatched[i]
             /\ dispatched'[i] \in [Form -> Nat]
  BY <1>2, <1>3 DEF BInv, HostOK
<1>5. dispatched' \in [Items -> [Form -> Nat]]
  BY <1>2, <1>4
<1>6. QED
  BY <1>1, <1>3, <1>4, <1>5

(* A tick starts with nothing read, nothing decided.                       *)
LEMMA InitHolds == Init => BInv
  BY DEF Init, BInv, HostOK, TickOK, PendingIsUntouched, SeenIsPending, DecisionIsAnswerable,
         Book!Untouched, Form, Idle, PC

(* The steps of a tick that only read the host, or advance its counter.    *)
LEMMA ReadingStep ==
  ASSUME BInv,
         \/ StartTick \/ ReadOffers \/ Decide
         \/ TakeSnapshot("snapshot", "decide") \/ TakeSnapshot("degrade", "commit")
  PROVE  BInv' /\ UNCHANGED <<offers, dispatched>>
<1> USE DEF BInv
<1>1. UNCHANGED <<offers, dispatched>>
  BY DEF StartTick, ReadOffers, Decide, TakeSnapshot, host
<1>2. HostOK' /\ PendingIsUntouched'
  BY <1>1 DEF HostOK, PendingIsUntouched
<1>3. TickOK' /\ SeenIsPending' /\ DecisionIsAnswerable'
  <2> USE DEF TickOK, SeenIsPending, DecisionIsAnswerable, PC, At, Goto, Idle
  <2>1. CASE StartTick
    BY <1>1, <2>1 DEF StartTick
  <2>2. CASE ReadOffers
    BY <1>1, <2>2 DEF ReadOffers
  <2>3. CASE Decide
    <3>1. \/ tick' = Idle
          \/ \E d : /\ Answerable(d, tick.seen) /\ Names(d)
                    /\ tick' = [tick EXCEPT !.pc = "materialize", !.attempts = tick.attempts + 1,
                                            !.decision = d]
      <4>1. \A d \in Decisions : Names(d)
        BY DEF Decisions, Names
      <4>2. Names(GreedyJoint(tick.seen))
        BY BrokerAssumption DEF Names, GreedyJoint, Once
      <4>3. QED
        BY <2>3, <4>1, <4>2, P0OnlyIsAnswerable DEF Decide
    <3>2. tick.pc = "decide"
      BY <2>3 DEF Decide
    <3>3. CASE tick' = Idle
      BY <3>3
    <3>4. ASSUME NEW d, Answerable(d, tick.seen), Names(d),
                 tick' = [tick EXCEPT !.pc = "materialize", !.attempts = tick.attempts + 1, !.decision = d]
          PROVE  TickOK' /\ SeenIsPending' /\ DecisionIsAnswerable'
      <4>1. tick' = [pc |-> "materialize", seen |-> tick.seen, snapshot |-> tick.snapshot,
                     decision |-> d, attempts |-> tick.attempts + 1, retries |-> tick.retries]
        BY <3>4
      <4>2. QED
        BY <1>1, <3>2, <3>4, <4>1
    <3>5. QED
      BY <3>1, <3>3, <3>4
  <2>4. CASE TakeSnapshot("snapshot", "decide") \/ TakeSnapshot("degrade", "commit")
    BY <1>1, <2>4 DEF TakeSnapshot
  <2>5. QED
    BY <2>1, <2>2, <2>3, <2>4
<1>4. QED
  BY <1>1, <1>2, <1>3

(* A materialize that raised StaleSnapshot took nothing: the tick is read  *)
(* again, degraded, or over (run_tick).                                    *)
LEMMA StaleStep ==
  ASSUME BInv, Materialize \/ Degrade, RaisesStale
  PROVE  BInv' /\ UNCHANGED <<offers, dispatched>>
<1> USE DEF BInv
<1>1. UNCHANGED <<offers, dispatched>> /\ tick.pc \in {"materialize", "commit"} /\ ~Materialized
  BY DEF RaisesStale, Materialize, Degrade, host, Materialized, At
<1>2. \/ tick' = Idle
      \/ tick' = [tick EXCEPT !.pc = "degrade", !.retries = tick.retries + 1,
                              !.decision = P0Only(tick.seen)]
      \/ tick' = [Idle EXCEPT !.pc = "pending", !.attempts = tick.attempts,
                              !.retries = tick.retries + 1]
  BY <1>1 DEF Materialize, Degrade
<1>3. HostOK' /\ PendingIsUntouched'
  BY <1>1 DEF HostOK, PendingIsUntouched
<1>4. TickOK' /\ SeenIsPending' /\ DecisionIsAnswerable'
  <2> USE DEF TickOK, SeenIsPending, DecisionIsAnswerable, PC, Idle
  <2>1. CASE tick' = Idle
    BY <2>1
  <2>2. CASE tick' = [tick EXCEPT !.pc = "degrade", !.retries = tick.retries + 1,
                                  !.decision = P0Only(tick.seen)]
    <3>1. tick' = [pc |-> "degrade", seen |-> tick.seen, snapshot |-> tick.snapshot,
                   decision |-> P0Only(tick.seen), attempts |-> tick.attempts,
                   retries |-> tick.retries + 1]
      BY <2>2
    <3>2. QED
      BY <1>1, <3>1, P0OnlyIsAnswerable
  <2>3. CASE tick' = [Idle EXCEPT !.pc = "pending", !.attempts = tick.attempts,
                                  !.retries = tick.retries + 1]
    <3>1. tick' = [pc |-> "pending", seen |-> {}, snapshot |-> 0, decision |-> Nothing,
                   attempts |-> tick.attempts, retries |-> tick.retries + 1]
      BY <2>3
    <3>2. QED
      BY <3>1
  <2>4. QED
    BY <1>2, <2>1, <2>2, <2>3
<1>5. QED
  BY <1>1, <1>3, <1>4

(* A materialize that went through: the admitted items leave the queue and *)
(* are started in the form the decision gave them, the others are as they  *)
(* were.                                                                   *)
LEMMA CommitStep ==
  ASSUME BInv, Materialize \/ Degrade, ~RaisesStale
  PROVE  BInv' /\ Book!Commit
<1> USE DEF BInv
<1> DEFINE form == tick.decision.form
           named == tick.decision.named
           adm == DOMAIN tick.decision.form
<1>1. Materialized /\ tick' = Idle /\ tick.pc \in {"materialize", "commit"}
  BY DEF Materialize, Degrade, At
<1>2. /\ dispatched' \in [Items -> [Form -> Nat]]
      /\ adm \subseteq offers /\ offers \subseteq Items
      /\ \A i \in Items : i \notin adm => dispatched'[i] = dispatched[i]
      /\ \A i \in adm : /\ form[i] \in Forms(i) /\ named[i] \in 1..MaxNamed
                        /\ dispatched'[i] = Book!InForm(i, form[i], named[i])
      /\ offers' = offers \ adm
  BY <1>1, MaterializedStarts DEF HostOK, Materialized
<1>3. HostOK' /\ PendingIsUntouched'
  BY <1>2 DEF HostOK, PendingIsUntouched
<1>4. TickOK' /\ SeenIsPending' /\ DecisionIsAnswerable'
  BY <1>1 DEF TickOK, SeenIsPending, DecisionIsAnswerable, PC, Idle
<1>5. Book!Commit
  <2> DEFINE f == [i \in adm |-> form[i]]
             n == [i \in adm |-> named[i]]
  <2>1. /\ adm \in SUBSET offers
        /\ f \in [adm -> {"P0", "P1"}] /\ n \in [adm -> 1..MaxNamed]
        /\ \A i \in adm : f[i] = "P1" => i \in WithP1
    BY <1>2 DEF Forms, Form
  <2>2. dispatched' = [i \in Items |-> IF i \in adm THEN Book!InForm(i, f[i], n[i])
                                       ELSE dispatched[i]]
    BY <1>2
  <2> HIDE DEF f, n
  <2>3. \E g \in [adm -> {"P0", "P1"}], m \in [adm -> 1..MaxNamed] :
          /\ \A i \in adm : g[i] = "P1" => i \in WithP1
          /\ offers' = offers \ adm
          /\ dispatched' = [i \in Items |-> IF i \in adm THEN Book!InForm(i, g[i], m[i])
                                            ELSE dispatched[i]]
    BY <1>2, <2>1, <2>2
  <2>4. QED
    BY <2>1, <2>3, Zenon DEF Book!Commit
<1>6. QED
  BY <1>3, <1>4, <1>5

(* Work is submitted at any point of a tick: nothing of it was started,    *)
(* and no tick has read it.                                                *)
LEMMA SubmitStep ==
  ASSUME BInv, Submit
  PROVE  BInv' /\ Book!Submit
<1> USE DEF BInv
<1>1. PICK i \in Items \ offers :
        /\ offers' = offers \cup {i}
        /\ dispatched' = [dispatched EXCEPT ![i] = Book!Untouched]
  BY DEF Submit, Book!Untouched, Form
<1>2. UNCHANGED tick
  BY DEF Submit
<1>3. HostOK' /\ PendingIsUntouched'
  BY <1>1 DEF HostOK, PendingIsUntouched, Book!Untouched, Form
<1>4. TickOK' /\ SeenIsPending' /\ DecisionIsAnswerable'
  BY <1>1, <1>2 DEF TickOK, SeenIsPending, DecisionIsAnswerable
<1>5. QED
  BY <1>1, <1>3, <1>4 DEF Book!Submit

(* Every step of the ticks and of their host is a step of the book or does *)
(* not touch it.                                                           *)
LEMMA StepIsABookStep ==
  ASSUME BInv, [Next]_vars
  PROVE  BInv' /\ [Book!BookNext]_(Book!bookVars)
<1>1. ASSUME UNCHANGED <<offers, dispatched>>
      PROVE  UNCHANGED Book!bookVars
  BY <1>1 DEF Book!bookVars
<1>2. CASE UNCHANGED vars
  BY <1>1, <1>2 DEF vars, BInv, HostOK, TickOK, PendingIsUntouched, SeenIsPending, DecisionIsAnswerable
<1>3. CASE EngineRestart
  BY <1>1, <1>3
     DEF EngineRestart, BInv, HostOK, TickOK, PendingIsUntouched, SeenIsPending, DecisionIsAnswerable
<1>4. CASE Submit
  BY <1>4, SubmitStep DEF Book!BookNext
<1>5. CASE TickStep
  BY <1>1, <1>5, ReadingStep, StaleStep, CommitStep DEF TickStep, Book!BookNext
<1>6. QED
  BY <1>2, <1>3, <1>4, <1>5 DEF Next

(* Whatever is pending was never started, a tick's offers stay pending     *)
(* until it commits, and what it commits is answerable, in every reachable *)
(* state.                                                                  *)
THEOREM PendingWorkIsUntouched == Spec => []BInv
<1>1. BInv /\ [Next]_vars => BInv'
  BY StepIsABookStep
<1>2. QED
  BY InitHolds, <1>1, PTL DEF Spec

(* The ticks implement the offer contract's book, whatever the policy:     *)
(* nothing of an item is started until one decision commits it, in whole   *)
(* sets of the requests of one offered form, as many as it names it        *)
(* (run_tick over SimulatedHost.materialize).                              *)
THEOREM TicksImplementTheBook == Spec => ImplementsOfferBook
<1>1. Init => Book!BookInit
  BY DEF Init, Book!BookInit, Book!Untouched, Form
<1>2. BInv /\ [Next]_vars => [Book!BookNext]_(Book!bookVars)
  BY StepIsABookStep
<1>3. QED
  BY <1>1, <1>2, PendingWorkIsUntouched, PTL DEF Spec, ImplementsOfferBook, Book!BookSpec

(* Of a policy that names no item twice, as the reference broker and the   *)
(* fail-closed decision do, an item is started with the requests of its    *)
(* plan and no more (contracts/docs/OFFER_INTERFACE_v1.md: "Either an item *)
(* is admitted with exactly one form and fully materialized, or nothing    *)
(* about it is observable").                                               *)
THEOREM NamedOnceIsStartedOnce ==
  ASSUME MaxNamed = 1
  PROVE  Spec => []ItsSubRequests
<1>1. Init => ItsSubRequests
  BY DEF Init, ItsSubRequests, Form
<1>2. BInv /\ ItsSubRequests /\ [Next]_vars => ItsSubRequests'
  <2> SUFFICES ASSUME BInv, ItsSubRequests, [Book!BookNext]_(Book!bookVars)
               PROVE  ItsSubRequests'
    BY StepIsABookStep
  <2> SUFFICES ASSUME NEW i \in Items
               PROVE  /\ dispatched'[i]["P0"] \in {0, pages[i]}
                      /\ dispatched'[i]["P1"] \in {0, 1}
    BY DEF ItsSubRequests
  <2> USE DEF ItsSubRequests, Book!Untouched
  <2>1. CASE Book!Submit
    BY <2>1 DEF Book!Submit, BInv, HostOK
  <2>2. CASE Book!Commit
    <3> PICK admitted \in SUBSET offers :
          \E form \in [admitted -> {"P0", "P1"}], named \in [admitted -> 1..MaxNamed] :
            dispatched' = [j \in Items |-> IF j \in admitted
                             THEN Book!InForm(j, form[j], named[j]) ELSE dispatched[j]]
      BY <2>2 DEF Book!Commit
    <3>1. PICK form \in [admitted -> {"P0", "P1"}], named \in [admitted -> 1..MaxNamed] :
            dispatched' = [j \in Items |-> IF j \in admitted
                             THEN Book!InForm(j, form[j], named[j]) ELSE dispatched[j]]
      OBVIOUS
    <3>2. CASE i \in admitted
      <4>1. named[i] = 1 /\ form[i] \in {"P0", "P1"} /\ pages[i] \in Nat
        BY <3>2, BrokerAssumption
      <4>2. dispatched'[i] = [Book!Untouched EXCEPT ![form[i]] = IF form[i] = "P0" THEN pages[i] ELSE 1]
        <5> DEFINE size == IF form[i] = "P0" THEN pages[i] ELSE 1
        <5>1. dispatched'[i] = Book!InForm(i, form[i], 1)
          BY <3>1, <3>2, <4>1
        <5>2. 1 * size = size
          BY <4>1
        <5>3. QED
          BY <5>1, <5>2 DEF Book!InForm
      <4>3. QED
        BY <4>1, <4>2
    <3>3. QED
      BY <3>1, <3>2
  <2>3. CASE UNCHANGED Book!bookVars
    BY <2>3 DEF Book!bookVars
  <2>4. QED
    BY <2>1, <2>2, <2>3 DEF Book!BookNext
<1>3. QED
  BY <1>1, <1>2, PendingWorkIsUntouched, PTL DEF Spec

-----------------------------------------------------------------------------
(*                               The canary                                *)

(* Every work key a call is made under.                                    *)
OwnWorks == UNION {ToSet(b) : b \in Blocks}
PastWorks == UNION {WorksOf(h) : h \in Histories}
Works == OwnWorks \cup PastWorks
CallRow == CallRows(Works)
Ops == {"GRAPH"} \cup SelectorOps

\* a batch, or a close, fell back and no record of its node says so
Hidden(x, node, batch) == \A r \in x.direct : ~(r.node = node /\ r.batch = batch /\ r.of.failed)

\* neither half publishes structured spans
Plain(a) == ~Structured(kind[a].page) /\ ~Structured(kind[a].close)

(* What the records of a cell and its calls tell: that its model was shown *)
(* P1's text, or that the fallback check finds it out.                     *)
SpansTell(c, x, seen) ==
  kind[c.arm].page # "HIER" /\ PublishesSpans(x) => seen
RenderedTells(c, x, seen) ==
  Plain(c.arm) /\ x.rendered > 0 =>
    seen \/ \E i \in DOMAIN x.reduced : x.reduced[i] /\ Hidden(x, "H", i)
ProseCloses(c) == \E i \in DOMAIN ledger : ledger[i].work = c /\ ledger[i].op = "CLOSE_PROSE"
CloseTells(c, x, seen) ==
  kind[c.arm].close = "PROSE" /\ ProseCloses(c) => seen \/ (x.close = "failed" /\ Hidden(x, "C", 0))

Tells(c, x, seen) == SpansTell(c, x, seen) /\ RenderedTells(c, x, seen) /\ CloseTells(c, x, seen)

Working == {"graph", "reduced", "closed"}
\* the first cell that has not closed yet
Ahead == IF stage = "closed" THEN at + 1 ELSE at

BlockOK ==
  /\ block \in Blocks
  /\ at \in Nat /\ at >= 1
  /\ stage \in Working \cup {"next", "audited", "over"}
  /\ stage \in Working => at <= Len(block)
  /\ verdict # "none" => stage = "over"

LedgerOK ==
  /\ ledger \in Seq(CallRow)
  /\ \A s \in strays : s.work \in Works /\ s.op \in Ops \ {"CLOSE_PROSE"}
  /\ \A j \in DOMAIN block : j >= Ahead => ~ProseCloses(block[j])

\* run.text is what the batch in hand would show
RunOK ==
  stage \in Working =>
    /\ run.reduced \in Seq(BOOLEAN) /\ run.rendered \in Nat /\ run.text \in BOOLEAN
    /\ run = [reduced |-> run.reduced, published |-> run.published, direct |-> run.direct,
              rendered |-> run.rendered, close |-> run.close, text |-> run.text]
    /\ \A r \in run.direct : r.node = "H" => r.batch \in DOMAIN run.reduced
    /\ stage # "closed" => \A r \in run.direct : r.node = "H"
    /\ Tells(Cell, run, Cell \in shown \/ (stage = "reduced" /\ run.text))

OutputsOK ==
  \A c \in DOMAIN outputs :
    /\ \E j \in DOMAIN block : j < at /\ block[j] = c
    /\ Tells(c, outputs[c], c \in shown)

AuditOK ==
  /\ audit.n \in 0..Len(ledger)
  /\ \A d \in audit.decoded :
       \E i \in 1..audit.n : ledger[i].work = d.work /\ ledger[i].op = d.op /\ ledger[i].tokens > 0

CanaryInv == BlockOK /\ LedgerOK /\ RunOK /\ OutputsOK /\ AuditOK /\ PassIsEarned

-----------------------------------------------------------------------------
(* A cell of the block.                                                    *)
LEMMA BlockFacts ==
  ASSUME BlockOK
  PROVE  /\ block \in Seq(Cells) /\ DOMAIN block = 1..Len(block) /\ Len(block) \in Nat
         /\ \A i, j \in DOMAIN block : block[i] = block[j] => i = j
         /\ \A i \in DOMAIN block : block[i] \in Cells /\ block[i] \in Works
         /\ \A c \in Cells : c.arm \in DOMAIN kind
         /\ \A c \in Cells : \E i \in DOMAIN block : block[i] = c
         /\ stage \in Working => at \in DOMAIN block /\ Cell = block[at] /\ Cell \in Cells /\ Cell \in Works
<1>1. /\ block \in Blocks /\ block \in Seq(ToSet(block))
      /\ \A i, j \in DOMAIN block : block[i] = block[j] => i = j
      /\ \A c \in ToSet(block) : c.arm \in DOMAIN kind
  BY CanaryAssumption DEF BlockOK
<1>2. block \in Seq(Cells) /\ DOMAIN block = 1..Len(block) /\ Len(block) \in Nat
  BY <1>1, LenProperties DEF Cells
<1>3. Cells = {block[i] : i \in DOMAIN block}
  BY DEF Cells, ToSet
<1>4. Cells \subseteq Works
  BY <1>1 DEF Works, OwnWorks, Cells
<1>5. stage \in Working => at \in DOMAIN block /\ Cell = block[at]
  BY <1>2 DEF BlockOK, Cell
<1>6. QED BY <1>1, <1>2, <1>3, <1>4, <1>5 DEF Cells

LEMMA FallenOutcome ==
  ASSUME NEW calls, NEW direct, NEW rendered
  PROVE  Falls(calls, direct, rendered) =
           [calls |-> calls, direct |-> direct, rendered |-> rendered, text |-> FALSE,
            fell |-> TRUE, left |-> {}]
<1> DEFINE o == Outcome(calls, direct, rendered, FALSE)
<1>1. o = [calls |-> calls, direct |-> direct, rendered |-> rendered, text |-> FALSE,
           fell |-> FALSE, left |-> {}]
  BY DEF Outcome
<1>2. Falls(calls, direct, rendered) = [o EXCEPT !.fell = TRUE]
  BY DEF Falls
<1> HIDE DEF o
<1>3. QED BY <1>1, <1>2

LEMMA RaisedOutcome ==
  ASSUME NEW op
  PROVE  Raises(op) = [calls |-> <<>>, direct |-> {Refused}, rendered |-> 0, text |-> FALSE,
                       fell |-> TRUE, left |-> {op}]
<1> DEFINE o == Falls(<<>>, {Refused}, 0)
<1>1. o = [calls |-> <<>>, direct |-> {Refused}, rendered |-> 0, text |-> FALSE,
           fell |-> TRUE, left |-> {}]
  BY FallenOutcome
<1>2. Raises(op) = [o EXCEPT !.left = {op}]
  BY DEF Raises
<1> HIDE DEF o
<1>3. QED BY <1>1, <1>2

(* What a batch may come to, whatever its strategy.                        *)
LEMMA BatchFacts ==
  ASSUME NEW page \in {"P0", "CPU", "LLM", "HIER", "PROSE"}, Cell \in Works,
         NEW o \in {Smooth[page]} \cup OddBatches[page]
  PROVE  /\ o.calls \in Seq(CallRow)
         /\ \A i \in DOMAIN o.calls : o.calls[i].op # "CLOSE_PROSE"
         /\ o.rendered \in Nat /\ o.text \in BOOLEAN /\ o.fell \in BOOLEAN
         /\ o.left \subseteq (Ops \ {"CLOSE_PROSE"})
         /\ page # "HIER" /\ (\E d \in o.direct : d.spans > 0) => o.text
         /\ page \in {"P0", "PROSE"} /\ o.rendered > 0 => o.text \/ (o.fell /\ o.direct = {})
<1> USE DEF Ops, SelectorOps, StructuredOps
<1>1. ASSUME NEW op \in Ops
      PROVE  /\ Good(op) \in CallRow /\ Good(op).op = op
             /\ \A b \in Bad(op) : b \in CallRow /\ b.op = op
  BY CanaryAssumption DEF Good, Bad, Call, CallRow, CallRows
<1> DEFINE Fine(s) == s \in Seq(CallRow) /\ \A i \in DOMAIN s : s[i].op # "CLOSE_PROSE"
<1>2. Fine(<<>>)
  OBVIOUS
<1>3. \A x \in CallRow : x.op # "CLOSE_PROSE" => Fine(<<x>>)
  OBVIOUS
<1>4. \A x, y \in CallRow : x.op # "CLOSE_PROSE" /\ y.op # "CLOSE_PROSE" => Fine(<<x, y>>)
  OBVIOUS
<1> HIDE DEF Fine
<1>5. ASSUME NEW calls, NEW direct, NEW rendered
      PROVE  Falls(calls, direct, rendered) =
               [calls |-> calls, direct |-> direct, rendered |-> rendered, text |-> FALSE,
                fell |-> TRUE, left |-> {}]
  BY FallenOutcome
<1>6. ASSUME NEW op
      PROVE  Raises(op) = [calls |-> <<>>, direct |-> {Refused}, rendered |-> 0, text |-> FALSE,
                           fell |-> TRUE, left |-> {op}]
  BY RaisedOutcome
<1>7. Refused.spans = 0 /\ \A n : Selected(n).spans = n
  BY DEF Selected, Refused
<1> DEFINE Facts == /\ Fine(o.calls)
                    /\ o.rendered \in Nat /\ o.text \in BOOLEAN /\ o.fell \in BOOLEAN
                    /\ o.left \subseteq (Ops \ {"CLOSE_PROSE"})
                    /\ page # "HIER" /\ (\E d \in o.direct : d.spans > 0) => o.text
                    /\ page \in {"P0", "PROSE"} /\ o.rendered > 0 => o.text \/ (o.fell /\ o.direct = {})
<1>8. ASSUME NEW calls, Fine(calls), NEW direct, NEW rendered \in Nat, NEW text \in BOOLEAN,
             o = Outcome(calls, direct, rendered, text),
             page \in {"P0", "PROSE"} => text \/ rendered = 0,
             page = "HIER" \/ text \/ \A d \in direct : d.spans = 0
      PROVE  Facts
  BY <1>8 DEF Outcome
<1>9. ASSUME NEW calls, Fine(calls), NEW direct, NEW rendered \in Nat,
             o = Falls(calls, direct, rendered), direct = {} \/ (direct = {Refused} /\ rendered = 0)
      PROVE  Facts
  <2>1. o = [calls |-> calls, direct |-> direct, rendered |-> rendered, text |-> FALSE,
             fell |-> TRUE, left |-> {}]
    BY <1>5, <1>9
  <2>2. QED BY <1>7, <1>9, <2>1
<1>10. ASSUME NEW op \in Ops \ {"CLOSE_PROSE"}, o = Raises(op)
       PROVE  Facts
  <2>1. o = [calls |-> <<>>, direct |-> {Refused}, rendered |-> 0, text |-> FALSE,
             fell |-> TRUE, left |-> {op}]
    BY <1>6, <1>10
  <2>2. QED BY <1>2, <1>7, <1>10, <2>1
<1> SUFFICES Facts
  BY DEF Fine
<1> HIDE DEF Facts
<1>11. CASE page = "P0"
  <2>1. Smooth[page] = Outcome(<<>>, {}, 0, FALSE) /\ OddBatches[page] = {}
    BY <1>11 DEF Smooth, OddBatches
  <2>2. QED BY <1>2, <1>8, <2>1
<1>12. CASE page = "CPU"
  <2>1. /\ Smooth[page] = Outcome(<<>>, {Selected(1)}, 1, TRUE)
        /\ OddBatches[page] = {Outcome(<<>>, {Selected(0)}, 1, FALSE), Falls(<<>>, {Refused}, 0)}
    BY <1>12 DEF Smooth, OddBatches
  <2>2. CASE o = Smooth[page]
    BY <1>2, <1>8, <1>12, <2>1, <2>2
  <2>3. CASE o = Outcome(<<>>, {Selected(0)}, 1, FALSE)
    <3>1. \A d \in {Selected(0)} : d.spans = 0
      BY <1>7
    <3>2. QED BY <1>2, <1>8, <1>12, <2>3, <3>1
  <2>4. CASE o = Falls(<<>>, {Refused}, 0)
    BY <1>2, <1>9, <2>4
  <2>5. QED BY <2>1, <2>2, <2>3, <2>4
<1>13. CASE page = "LLM"
  <2>1. Smooth[page] = Outcome(<<Good("LOCAL")>>, {Selected(1)}, 1, TRUE)
    BY <1>13 DEF Smooth
  <2>2. OddBatches[page] =
          {Outcome(<<Good("LOCAL")>>, {Selected(0)}, 1, FALSE), Outcome(<<>>, {Selected(0)}, 1, FALSE),
           Falls(<<>>, {Refused}, 0), Raises("LOCAL")} \cup {Falls(<<b>>, {Refused}, 0) : b \in Bad("LOCAL")}
    BY <1>13 DEF OddBatches
  <2>3. CASE o = Smooth[page]
    BY <1>1, <1>3, <1>8, <1>13, <2>1, <2>3
  <2>4. CASE o = Raises("LOCAL")
    BY <1>10, <2>4
  <2>5. CASE \E calls \in {<<>>} \cup {<<b>> : b \in Bad("LOCAL")} : o = Falls(calls, {Refused}, 0)
    BY <1>1, <1>2, <1>3, <1>9, <2>5
  <2>6. CASE \E calls \in {<<>>, <<Good("LOCAL")>>} : o = Outcome(calls, {Selected(0)}, 1, FALSE)
    <3>1. \A d \in {Selected(0)} : d.spans = 0
      BY <1>7
    <3>2. \A calls \in {<<>>, <<Good("LOCAL")>>} : Fine(calls)
      BY <1>1, <1>2, <1>3
    <3>3. QED BY <1>8, <1>13, <2>6, <3>1, <3>2
  <2>7. QED BY <2>2, <2>3, <2>4, <2>5, <2>6
<1>14. CASE page = "HIER"
  <2>1. Smooth[page] = Outcome(<<Good("LOCAL"), Good("GLOBAL")>>, {Selected(1), Selected(2)}, 2, TRUE)
    BY <1>14 DEF Smooth
  <2>2. OddBatches[page] =
          {Outcome(<<Good("LOCAL")>>, {Selected(0)}, 1, FALSE),
           Outcome(<<Good("LOCAL"), Good("GLOBAL")>>, {Selected(1), Selected(0)}, 2, FALSE), Raises("LOCAL")}
          \cup {Falls(<<b>>, {Refused}, 0) : b \in Bad("LOCAL")}
          \cup {Falls(<<Good("LOCAL"), b>>, {Refused}, 0) : b \in Bad("GLOBAL")}
    BY <1>14 DEF OddBatches
  <2>3. CASE o = Smooth[page] \/ o = Outcome(<<Good("LOCAL")>>, {Selected(0)}, 1, FALSE)
             \/ o = Outcome(<<Good("LOCAL"), Good("GLOBAL")>>, {Selected(1), Selected(0)}, 2, FALSE)
    BY <1>1, <1>3, <1>4, <1>8, <1>14, <2>1, <2>3
  <2>4. CASE o = Raises("LOCAL")
    BY <1>10, <2>4
  <2>5. CASE \E b \in Bad("LOCAL") : o = Falls(<<b>>, {Refused}, 0)
    BY <1>1, <1>3, <1>9, <2>5
  <2>6. CASE \E b \in Bad("GLOBAL") : o = Falls(<<Good("LOCAL"), b>>, {Refused}, 0)
    BY <1>1, <1>4, <1>9, <2>6
  <2>7. QED BY <2>2, <2>3, <2>4, <2>5, <2>6
<1>15. CASE page = "PROSE"
  <2>1. Smooth[page] = Outcome(<<Good("PAGE_PROSE")>>, {}, 1, TRUE)
    BY <1>15 DEF Smooth
  <2>2. OddBatches[page] = {Falls(<<>>, {Refused}, 0), Raises("PAGE_PROSE")}
                           \cup {Falls(<<b>>, {}, 0) : b \in Bad("PAGE_PROSE")}
                           \cup {Falls(<<b>>, {}, 1) : b \in Bad("PAGE_PROSE")}
    BY <1>15 DEF OddBatches
  <2>3. CASE o = Smooth[page]
    BY <1>1, <1>3, <1>8, <1>15, <2>1, <2>3
  <2>4. CASE o = Raises("PAGE_PROSE") \/ o = Falls(<<>>, {Refused}, 0)
    BY <1>2, <1>9, <1>10, <2>4
  <2>5. CASE \E b \in Bad("PAGE_PROSE"), r \in {0, 1} : o = Falls(<<b>>, {}, r)
    BY <1>1, <1>3, <1>9, <2>5
  <2>6. QED BY <2>2, <2>3, <2>4, <2>5
<1>16. QED BY <1>11, <1>12, <1>13, <1>14, <1>15

(* What a close may come to.                                               *)
LEMMA CloseFacts ==
  ASSUME NEW close \in {"P0", "CPU", "LLM", "PROSE"}, Cell \in Works,
         NEW o \in {SmoothClose[close]} \cup OddCloses[close]
  PROVE  /\ o.calls \in Seq(CallRow)
         /\ \A i \in DOMAIN o.calls : o.calls[i].work = Cell
         /\ o.rendered \in Nat /\ o.text \in BOOLEAN /\ o.fell \in BOOLEAN
         /\ (\E d \in o.direct : d.spans > 0) => o.text
         /\ close \in {"P0", "PROSE"} /\ o.rendered > 0 => o.text
         /\ close = "PROSE" => o.text \/ (o.fell /\ (o.direct = {} \/ o.calls = <<>>))
<1> USE DEF Ops, SelectorOps, StructuredOps
<1>1. ASSUME NEW op \in Ops
      PROVE  /\ Good(op) \in CallRow /\ Good(op).work = Cell
             /\ \A b \in Bad(op) : b \in CallRow /\ b.work = Cell
  BY CanaryAssumption DEF Good, Bad, Call, CallRow, CallRows
<1> DEFINE Fine(s) == s \in Seq(CallRow) /\ \A i \in DOMAIN s : s[i].work = Cell
<1>2. Fine(<<>>)
  OBVIOUS
<1>3. \A x \in CallRow : x.work = Cell => Fine(<<x>>)
  OBVIOUS
<1> HIDE DEF Fine
<1> DEFINE Facts == /\ Fine(o.calls)
                    /\ o.rendered \in Nat /\ o.text \in BOOLEAN /\ o.fell \in BOOLEAN
                    /\ (\E d \in o.direct : d.spans > 0) => o.text
                    /\ close \in {"P0", "PROSE"} /\ o.rendered > 0 => o.text
                    /\ close = "PROSE" => o.text \/ (o.fell /\ (o.direct = {} \/ o.calls = <<>>))
<1>4. Refused.spans = 0 /\ \A n : Selected(n).spans = n
  BY DEF Selected, Refused
<1>5. ASSUME NEW calls, Fine(calls), NEW direct, NEW rendered \in Nat, NEW text \in BOOLEAN,
             o = Outcome(calls, direct, rendered, text),
             text \/ (close = "P0" /\ rendered = 0) \/ close \in {"CPU", "LLM"},
             text \/ \A d \in direct : d.spans = 0
      PROVE  Facts
  BY <1>5 DEF Outcome
<1>6. ASSUME NEW calls, Fine(calls), NEW direct, o = Falls(calls, direct, 0),
             direct = {} \/ (direct = {Refused} /\ (calls = <<>> \/ close # "PROSE"))
      PROVE  Facts
  <2>1. o = [calls |-> calls, direct |-> direct, rendered |-> 0, text |-> FALSE,
             fell |-> TRUE, left |-> {}]
    BY <1>6, FallenOutcome
  <2>2. ~\E d \in direct : d.spans > 0
    BY <1>4, <1>6
  <2>3. /\ o.calls = calls /\ o.direct = direct /\ o.rendered = 0 /\ o.text = FALSE
        /\ o.fell = TRUE
    BY <2>1
  <2>4. close = "PROSE" => o.text \/ (o.fell /\ (o.direct = {} \/ o.calls = <<>>))
    BY <1>6, <2>3
  <2>5. (\E d \in o.direct : d.spans > 0) => o.text
    BY <2>2, <2>3
  <2>6. close \in {"P0", "PROSE"} /\ o.rendered > 0 => o.text
    BY <2>3
  <2>7. Fine(o.calls) /\ o.rendered \in Nat /\ o.text \in BOOLEAN /\ o.fell \in BOOLEAN
    <3>1. Fine(o.calls)
      BY <1>6, <2>3
    <3>2. o.text \in BOOLEAN /\ o.fell \in BOOLEAN
      BY <2>3, Zenon
    <3>3. o.rendered \in Nat
      BY <2>3
    <3>4. QED BY <3>1, <3>2, <3>3
  <2>8. QED BY <2>4, <2>5, <2>6, <2>7
<1>7. ASSUME NEW calls, Fine(calls), o = Outcome(calls, {Selected(0)}, 1, FALSE), close \in {"CPU", "LLM"}
      PROVE  Facts
  <2>1. ~\E d \in {Selected(0)} : d.spans > 0
    BY <1>4
  <2>2. QED BY <1>7, <2>1 DEF Outcome
<1> SUFFICES Facts
  BY DEF Fine
<1> HIDE DEF Facts
<1>8. CASE close = "P0"
  <2>1. SmoothClose[close] = Outcome(<<>>, {}, 0, FALSE) /\ OddCloses[close] = {}
    BY <1>8 DEF SmoothClose, OddCloses
  <2>2. QED BY <1>2, <1>5, <1>8, <2>1
<1>9. CASE close = "CPU"
  <2>1. /\ SmoothClose[close] = Outcome(<<>>, {Selected(1)}, 1, TRUE)
        /\ OddCloses[close] = {Outcome(<<>>, {Selected(0)}, 1, FALSE), Falls(<<>>, {Refused}, 0)}
    BY <1>9 DEF SmoothClose, OddCloses
  <2>2. CASE o = SmoothClose[close]
    BY <1>2, <1>5, <2>1, <2>2
  <2>3. CASE o = Outcome(<<>>, {Selected(0)}, 1, FALSE)
    BY <1>2, <1>7, <1>9, <2>3
  <2>4. CASE o = Falls(<<>>, {Refused}, 0)
    BY <1>2, <1>6, <2>4
  <2>5. QED BY <2>1, <2>2, <2>3, <2>4
<1>10. CASE close = "LLM"
  <2>1. SmoothClose[close] = Outcome(<<Good("CLOSE")>>, {Selected(1)}, 1, TRUE)
    BY <1>10 DEF SmoothClose
  <2>2. OddCloses[close] =
          {Outcome(<<Good("CLOSE")>>, {Selected(0)}, 1, FALSE), Falls(<<>>, {Refused}, 0)}
          \cup {Falls(<<b>>, {Refused}, 0) : b \in Bad("CLOSE")}
    BY <1>10 DEF OddCloses
  <2>3. CASE o = SmoothClose[close]
    BY <1>1, <1>3, <1>5, <2>1, <2>3
  <2>4. CASE o = Outcome(<<Good("CLOSE")>>, {Selected(0)}, 1, FALSE)
    BY <1>1, <1>3, <1>7, <1>10, <2>4
  <2>5. CASE \E calls \in {<<>>} \cup {<<b>> : b \in Bad("CLOSE")} : o = Falls(calls, {Refused}, 0)
    BY <1>1, <1>2, <1>3, <1>6, <1>10, <2>5
  <2>6. QED BY <2>2, <2>3, <2>4, <2>5
<1>11. CASE close = "PROSE"
  <2>1. SmoothClose[close] = Outcome(<<Good("CLOSE_PROSE")>>, {}, 1, TRUE)
    BY <1>11 DEF SmoothClose
  <2>2. OddCloses[close] = {Falls(<<>>, {Refused}, 0)} \cup {Falls(<<b>>, {}, 0) : b \in Bad("CLOSE_PROSE")}
    BY <1>11 DEF OddCloses
  <2>3. CASE o = SmoothClose[close]
    BY <1>1, <1>3, <1>5, <2>1, <2>3
  <2>4. CASE o = Falls(<<>>, {Refused}, 0)
    BY <1>2, <1>6, <2>4
  <2>5. CASE \E b \in Bad("CLOSE_PROSE") : o = Falls(<<b>>, {}, 0)
    BY <1>1, <1>3, <1>6, <2>5
  <2>6. QED BY <2>2, <2>3, <2>4, <2>5
<1>12. QED BY <1>8, <1>9, <1>10, <1>11

-----------------------------------------------------------------------------
(* Calls are only ever added.                                              *)
LEMMA LedgerGrows ==
  ASSUME LedgerOK, NEW calls \in Seq(CallRow), ledger' = ledger \o calls
  PROVE  /\ ledger' \in Seq(CallRow) /\ Len(ledger') >= Len(ledger)
         /\ \A i \in DOMAIN ledger : i \in DOMAIN ledger' /\ ledger'[i] = ledger[i]
         /\ \A i \in DOMAIN ledger' : i \in DOMAIN ledger \/ \E j \in DOMAIN calls : ledger'[i] = calls[j]
         /\ AuditOK /\ UNCHANGED audit => AuditOK'
         /\ \A c : ProseCloses(c)' => ProseCloses(c) \/ \E j \in DOMAIN calls :
                                         calls[j].work = c /\ calls[j].op = "CLOSE_PROSE"
<1>1. ledger \in Seq(CallRow) /\ DOMAIN ledger = 1..Len(ledger) /\ Len(ledger) \in Nat
      /\ DOMAIN calls = 1..Len(calls) /\ Len(calls) \in Nat
  BY LenProperties DEF LedgerOK
<1>2. /\ ledger' \in Seq(CallRow) /\ Len(ledger') = Len(ledger) + Len(calls)
      /\ \A i \in 1..Len(ledger') : ledger'[i] = IF i <= Len(ledger) THEN ledger[i] ELSE calls[i - Len(ledger)]
  BY <1>1, ConcatProperties
<1>3. DOMAIN ledger' = 1..Len(ledger')
  BY <1>2, LenProperties
<1>4. /\ \A i \in DOMAIN ledger : i \in DOMAIN ledger' /\ ledger'[i] = ledger[i]
      /\ \A i \in DOMAIN ledger' : i \in DOMAIN ledger \/ \E j \in DOMAIN calls : ledger'[i] = calls[j]
  BY <1>1, <1>2, <1>3
<1>5. ASSUME AuditOK, UNCHANGED audit
      PROVE  AuditOK'
  <2>1. audit.n \in 0..Len(ledger') /\ \A i \in 1..audit.n : ledger'[i] = ledger[i]
    BY <1>1, <1>2, <1>4, <1>5 DEF AuditOK
  <2>2. QED BY <1>5, <2>1 DEF AuditOK
<1>6. ASSUME NEW c, ProseCloses(c)'
      PROVE  ProseCloses(c) \/ \E j \in DOMAIN calls : calls[j].work = c /\ calls[j].op = "CLOSE_PROSE"
  BY <1>4, <1>6 DEF ProseCloses
<1>7. QED BY <1>1, <1>2, <1>4, <1>5, <1>6

\* one call more
LEMMA CallAdded ==
  ASSUME LedgerOK, NEW call \in CallRow
  PROVE  Append(ledger, call) = ledger \o <<call>> /\ <<call>> \in Seq(CallRow)
         /\ \A i \in DOMAIN <<call>> : <<call>>[i] = call
<1>1. ledger \in Seq(CallRow)
  BY DEF LedgerOK
<1>2. QED BY <1>1, AppendIsConcat

(* What is committed keeps telling, whoever moves.                         *)
LEMMA OutputsStay ==
  ASSUME OutputsOK, UNCHANGED <<outputs, block>>, at' = at \/ at' = at + 1, BlockOK, shown \subseteq shown',
         \A c \in DOMAIN outputs : ProseCloses(c)' => ProseCloses(c)
  PROVE  OutputsOK'
<1> SUFFICES ASSUME NEW c \in DOMAIN outputs
             PROVE  /\ \E j \in DOMAIN block : j < at' /\ block[j] = c
                    /\ Tells(c, outputs[c], c \in shown)'
  BY DEF OutputsOK
<1>1. PICK j \in DOMAIN block : j < at /\ block[j] = c
  BY DEF OutputsOK
<1>2. j < at'
  BY <1>1, BlockFacts DEF BlockOK
<1>3. Tells(c, outputs[c], c \in shown)
  BY DEF OutputsOK
<1>4. c \in shown => c \in shown'
  OBVIOUS
<1>5. Tells(c, outputs[c], c \in shown)'
  <2>1. outputs' = outputs
    OBVIOUS
  <2>2. QED
    BY <1>3, <1>4, <2>1 DEF Tells, SpansTell, RenderedTells, CloseTells, PublishesSpans, Hidden, Plain
<1>6. QED BY <1>1, <1>2, <1>5

(* A call that ends keeps its work key, its kind and what it decoded.      *)
LEMMA SettledCalls ==
  ASSUME LedgerOK, Settle
  PROVE  /\ ledger' \in Seq(CallRow) /\ Len(ledger') = Len(ledger) /\ DOMAIN ledger' = DOMAIN ledger
         /\ \A i \in DOMAIN ledger : /\ ledger'[i].work = ledger[i].work /\ ledger'[i].op = ledger[i].op
                                     /\ ledger[i].tokens > 0 => ledger'[i].tokens > 0
<1>1. PICK i \in DOMAIN ledger :
         \/ ledger' = [ledger EXCEPT ![i].state = "COMMITTED", ![i].tokens = 1, ![i].seconds = 1]
         \/ ledger' = [ledger EXCEPT ![i].state = "FAILED_UNKNOWN", ![i].seconds = Reserve]
  BY DEF Settle
<1>2. ledger \in Seq(CallRow) /\ DOMAIN ledger = 1..Len(ledger) /\ Len(ledger) \in Nat
  BY LenProperties DEF LedgerOK
<1>3. ledger[i] \in CallRow
  BY <1>2, ElementOfSeq
<1> DEFINE paid == [ledger[i] EXCEPT !.state = "COMMITTED", !.tokens = 1, !.seconds = 1]
           lost == [ledger[i] EXCEPT !.state = "FAILED_UNKNOWN", !.seconds = Reserve]
<1>4. /\ paid \in CallRow /\ paid.work = ledger[i].work /\ paid.op = ledger[i].op /\ paid.tokens = 1
      /\ lost \in CallRow /\ lost.work = ledger[i].work /\ lost.op = ledger[i].op
      /\ lost.tokens = ledger[i].tokens
  BY <1>3, CanaryAssumption DEF CallRow, CallRows
<1>5. PICK ended \in CallRow :
        /\ ledger' = [ledger EXCEPT ![i] = ended]
        /\ ended.work = ledger[i].work /\ ended.op = ledger[i].op
        /\ ended.tokens = 1 \/ ended.tokens = ledger[i].tokens
  <2>1. ledger' = [ledger EXCEPT ![i] = paid] \/ ledger' = [ledger EXCEPT ![i] = lost]
    BY <1>1
  <2> HIDE DEF paid, lost
  <2>2. QED BY <1>4, <2>1
<1>6. /\ ledger' \in Seq(CallRow) /\ Len(ledger') = Len(ledger) /\ DOMAIN ledger' = DOMAIN ledger
      /\ \A j \in DOMAIN ledger : ledger'[j] = IF j = i THEN ended ELSE ledger[j]
  BY <1>2, <1>5, ExceptSeq
<1>7. QED BY <1>5, <1>6

(* While the canary runs there is no verdict to be earned.                 *)
LEMMA NoVerdict ==
  ASSUME BlockOK, stage # "over", UNCHANGED verdict
  PROVE  PassIsEarned'
BY DEF BlockOK, PassIsEarned

(* A cell begins with nothing recorded, and has made no call of its own.   *)
LEMMA StartKeeps ==
  ASSUME CanaryInv, StartCell
  PROVE  CanaryInv'
<1> USE DEF CanaryInv
<1>1. /\ stage = "next" /\ at <= Len(block) /\ stage' = "graph" /\ run' = NoRun
      /\ UNCHANGED <<block, at, outputs, strays, shown, audit, verdict>>
      /\ verdict' = "none"
  BY DEF StartCell, BlockOK
<1>2. at \in DOMAIN block /\ Cell = block[at] /\ Cell \in Works
  BY <1>1, BlockFacts DEF BlockOK, Cell
<1>3. PICK s \in 1 .. Reserve : ledger' = Append(ledger, Call(Cell, "GRAPH", "COMMITTED", 1, s))
  BY DEF StartCell
<1> DEFINE call == Call(Cell, "GRAPH", "COMMITTED", 1, s)
<1>4. call \in CallRow /\ call.op = "GRAPH"
  BY <1>2, CanaryAssumption DEF Call, CallRow, CallRows
<1> HIDE DEF call
<1>5. ledger' = ledger \o <<call>> /\ <<call>> \in Seq(CallRow) /\ \A i \in DOMAIN <<call>> : <<call>>[i] = call
  BY <1>3, <1>4, CallAdded DEF call
<1>6. /\ ledger' \in Seq(CallRow) /\ AuditOK'
      /\ \A c : ProseCloses(c)' => ProseCloses(c)
  BY <1>1, <1>4, <1>5, LedgerGrows
<1>7. BlockOK'
  BY <1>1 DEF BlockOK, Working
<1>8. LedgerOK'
  BY <1>1, <1>6 DEF LedgerOK, Ahead
<1>9. ~ProseCloses(Cell)
  BY <1>1, <1>2, BlockFacts DEF LedgerOK, Ahead, BlockOK
<1>10. Cell' = Cell
  BY <1>1 DEF Cell
<1>11. RunOK'
  <2>1. /\ run' = [reduced |-> <<>>, published |-> {}, direct |-> {}, rendered |-> 0, close |-> "none",
                   text |-> FALSE]
        /\ run'.reduced = <<>> /\ run'.direct = {} /\ run'.rendered = 0 /\ run'.text = FALSE
    BY <1>1 DEF NoRun
  <2>2. run'.text \in BOOLEAN
    BY <2>1, Zenon
  <2>3. run'.reduced \in Seq(BOOLEAN) /\ run'.rendered \in Nat
    BY <2>1
  <2>4. \A seen : Tells(Cell, run, seen)'
    <3> TAKE seen
    <3>1. ~ProseCloses(Cell)'
      BY <1>6, <1>9, <1>10
    <3>2. ~PublishesSpans(run)'
      BY <2>1 DEF PublishesSpans
    <3>3. QED BY <2>1, <3>1, <3>2 DEF Tells, SpansTell, RenderedTells, CloseTells
  <2>5. run' = [reduced |-> run'.reduced, published |-> run'.published, direct |-> run'.direct,
                rendered |-> run'.rendered, close |-> run'.close, text |-> run'.text]
    BY <2>1
  <2>6. QED BY <2>1, <2>2, <2>3, <2>4, <2>5 DEF RunOK
<1>12. OutputsOK'
  BY <1>1, <1>6, OutputsStay
<1>13. PassIsEarned'
  BY <1>1, NoVerdict
<1>14. QED BY <1>6, <1>7, <1>8, <1>11, <1>12, <1>13

(* A batch is recorded as what its strategy made of it, or as P0's.        *)
LEMMA ReduceKeeps ==
  ASSUME CanaryInv, ReduceBatch
  PROVE  CanaryInv'
<1> USE DEF CanaryInv
<1>1. /\ stage = "graph" /\ stage' = "reduced" /\ Cell.arm # "P0"
      /\ UNCHANGED <<block, at, outputs, shown, audit, verdict>>
  BY DEF ReduceBatch
<1>2. Cell \in Cells /\ Cell \in Works /\ Cell.arm \in DOMAIN kind /\ Cell' = Cell
  BY <1>1, BlockFacts DEF Working, Cell
<1> DEFINE page == kind[Cell.arm].page
           n == Len(run.reduced) + 1
<1>3. PICK o \in {Smooth[page]} \cup OddBatches[page] :
        /\ run' = [run EXCEPT !.reduced = Append(@, o.fell), !.direct = @ \cup Records("H", n, o),
                              !.rendered = @ + o.rendered, !.text = o.text]
        /\ ledger' = ledger \o o.calls
        /\ strays' = strays \cup {[work |-> Cell, op |-> op] : op \in o.left}
  BY DEF ReduceBatch, Leave
<1>4. page \in {"P0", "CPU", "LLM", "HIER", "PROSE"}
  BY <1>2, CanaryAssumption
<1> HIDE DEF page
<1>5. /\ o.calls \in Seq(CallRow)
      /\ \A i \in DOMAIN o.calls : o.calls[i].op # "CLOSE_PROSE"
      /\ o.rendered \in Nat /\ o.text \in BOOLEAN /\ o.fell \in BOOLEAN
      /\ o.left \subseteq (Ops \ {"CLOSE_PROSE"})
      /\ page # "HIER" /\ (\E d \in o.direct : d.spans > 0) => o.text
      /\ page \in {"P0", "PROSE"} /\ o.rendered > 0 => o.text \/ (o.fell /\ o.direct = {})
  BY <1>2, <1>3, <1>4, BatchFacts
<1>6. /\ ledger' \in Seq(CallRow) /\ AuditOK'
      /\ \A c : ProseCloses(c)' => ProseCloses(c)
  BY <1>1, <1>3, <1>5, LedgerGrows
<1>7. BlockOK'
  BY <1>1 DEF BlockOK, Working
<1>8. LedgerOK'
  <2>1. \A s \in strays' : s.work \in Works /\ s.op \in Ops \ {"CLOSE_PROSE"}
    BY <1>2, <1>3, <1>5 DEF LedgerOK
  <2>2. QED BY <1>1, <1>6, <2>1 DEF LedgerOK, Ahead
<1>9. /\ run.reduced \in Seq(BOOLEAN) /\ run.rendered \in Nat
      /\ run = [reduced |-> run.reduced, published |-> run.published, direct |-> run.direct,
                rendered |-> run.rendered, close |-> run.close, text |-> run.text]
      /\ \A r \in run.direct : r.node = "H" /\ r.batch \in DOMAIN run.reduced
      /\ Tells(Cell, run, Cell \in shown)
  BY <1>1 DEF RunOK, Working
<1>10. /\ run'.reduced = Append(run.reduced, o.fell) /\ run'.published = run.published
       /\ run'.direct = run.direct \cup Records("H", n, o) /\ run'.rendered = run.rendered + o.rendered
       /\ run'.close = run.close /\ run'.text = o.text
       /\ run' = [reduced |-> run'.reduced, published |-> run'.published, direct |-> run'.direct,
                  rendered |-> run'.rendered, close |-> run'.close, text |-> run'.text]
  BY <1>3, <1>9
<1>11. /\ DOMAIN run.reduced = 1..(n - 1) /\ n \in Nat /\ n >= 1
       /\ run'.reduced \in Seq(BOOLEAN) /\ DOMAIN run'.reduced = 1..n /\ run'.reduced[n] = o.fell
       /\ \A i \in DOMAIN run.reduced : run'.reduced[i] = run.reduced[i]
  <2>1. Len(run.reduced) \in Nat /\ DOMAIN run.reduced = 1..Len(run.reduced)
    BY <1>9, LenProperties
  <2>2. QED BY <1>5, <1>9, <1>10, <2>1, AppendProperties
<1>12. /\ \A r \in Records("H", n, o) : r.node = "H" /\ r.batch = n /\ r.of \in o.direct
       /\ o.direct = {} => Records("H", n, o) = {}
  BY DEF Records
<1> HIDE DEF n
<1>13. \A r \in run'.direct : r.node = "H" /\ r.batch \in DOMAIN run'.reduced
  BY <1>9, <1>10, <1>11, <1>12
<1>14. SpansTell(Cell, run', Cell \in shown \/ o.text)
  <2>1. SUFFICES ASSUME page # "HIER", NEW r \in run'.direct, r.of.spans > 0
                 PROVE  Cell \in shown \/ o.text
    BY DEF SpansTell, PublishesSpans, page
  <2>2. CASE r \in run.direct
    BY <1>9, <2>1, <2>2 DEF Tells, SpansTell, PublishesSpans, page
  <2>3. CASE r \in Records("H", n, o)
    BY <1>5, <1>12, <2>1, <2>3
  <2>4. QED BY <1>10, <2>1, <2>2, <2>3
<1>15. RenderedTells(Cell, run', Cell \in shown \/ o.text)
  <2>1. SUFFICES ASSUME Plain(Cell.arm), run'.rendered > 0, Cell \notin shown, ~o.text
                 PROVE  \E i \in DOMAIN run'.reduced : run'.reduced[i] /\ Hidden(run', "H", i)
    BY DEF RenderedTells
  <2>2. CASE run.rendered > 0
    <3>1. PICK i \in DOMAIN run.reduced : run.reduced[i] /\ Hidden(run, "H", i)
      BY <1>9, <2>1, <2>2 DEF Tells, RenderedTells
    <3>2. i # n /\ i \in DOMAIN run'.reduced /\ run'.reduced[i]
      BY <1>11, <3>1
    <3>3. Hidden(run', "H", i)
      BY <1>10, <1>12, <3>1, <3>2 DEF Hidden
    <3>4. QED BY <3>2, <3>3
  <2>3. CASE o.rendered > 0
    <3>1. page \in {"P0", "PROSE"}
      BY <1>4, <2>1 DEF Plain, Structured, page
    <3>2. o.fell /\ o.direct = {}
      BY <1>5, <2>1, <2>3, <3>1
    <3>3. Hidden(run', "H", n)
      BY <1>9, <1>10, <1>11, <1>12, <3>2 DEF Hidden
    <3>4. n \in DOMAIN run'.reduced /\ run'.reduced[n]
      BY <1>11, <3>2
    <3>5. QED BY <3>3, <3>4
  <2>4. QED BY <1>5, <1>9, <1>10, <2>1, <2>2, <2>3
<1>16. CloseTells(Cell, run, Cell \in shown)'
  <2>1. SUFFICES ASSUME kind[Cell.arm].close = "PROSE", ProseCloses(Cell)', Cell \notin shown
                 PROVE  run'.close = "failed" /\ Hidden(run', "C", 0)
    BY <1>1, <1>2 DEF CloseTells, Hidden
  <2>2. run.close = "failed"
    <3>1. ProseCloses(Cell)
      BY <1>2, <1>6, <2>1
    <3>2. CloseTells(Cell, run, Cell \in shown)
      BY <1>9 DEF Tells
    <3>3. QED BY <2>1, <3>1, <3>2 DEF CloseTells
  <2>3. Hidden(run', "C", 0)
    BY <1>13 DEF Hidden
  <2>4. QED BY <1>10, <2>2, <2>3
<1>17. RunOK'
  <2>1. Tells(Cell, run, Cell \in shown \/ (stage = "reduced" /\ run.text))'
    <3>1. run'.text = o.text /\ o.text \in BOOLEAN
      BY <1>5, <1>10
    <3>2. SpansTell(Cell, run, Cell \in shown \/ (stage = "reduced" /\ run.text))'
      BY <1>1, <1>2, <1>14, <3>1 DEF SpansTell, PublishesSpans
    <3>3. RenderedTells(Cell, run, Cell \in shown \/ (stage = "reduced" /\ run.text))'
      BY <1>1, <1>2, <1>15, <3>1 DEF RenderedTells, Plain, Hidden
    <3>4. CloseTells(Cell, run, Cell \in shown \/ (stage = "reduced" /\ run.text))'
      BY <1>16 DEF CloseTells
    <3>5. QED BY <3>2, <3>3, <3>4 DEF Tells
  <2>2. run'.text \in BOOLEAN /\ run'.rendered \in Nat
    BY <1>5, <1>9, <1>10
  <2>3. QED BY <1>10, <1>11, <1>13, <2>1, <2>2 DEF RunOK
<1>18. OutputsOK'
  BY <1>1, <1>6, OutputsStay
<1>19. PassIsEarned'
  BY <1>1, NoVerdict
<1>20. QED BY <1>6, <1>7, <1>8, <1>17, <1>18, <1>19

(* What is told depends on four fields of the record.                      *)
LEMMA TellsAlike ==
  ASSUME NEW c, NEW x, NEW y, NEW seen \in BOOLEAN, NEW told \in BOOLEAN, seen => told, Tells(c, x, seen),
         y.reduced = x.reduced, y.direct = x.direct, y.rendered = x.rendered, y.close = x.close
  PROVE  Tells(c, y, told)
<1>1. \A node, batch : Hidden(x, node, batch) = Hidden(y, node, batch)
  BY DEF Hidden
<1>2. PublishesSpans(x) = PublishesSpans(y)
  BY DEF PublishesSpans
<1>3. SpansTell(c, y, told) /\ RenderedTells(c, y, told)
  BY <1>1, <1>2 DEF Tells, SpansTell, RenderedTells
<1>4. CloseTells(c, y, told)
  BY <1>1 DEF Tells, CloseTells
<1>5. QED BY <1>3, <1>4 DEF Tells

(* A cell in hand keeps telling while the others move.                     *)
LEMMA RunStays ==
  ASSUME RunOK, UNCHANGED <<block, at, stage, run, shown>>, ProseCloses(Cell)' => ProseCloses(Cell)
  PROVE  RunOK'
<1> SUFFICES ASSUME stage \in Working
             PROVE  RunOK'
  BY DEF RunOK
<1>1. Cell' = Cell
  BY DEF Cell
<1>2. Tells(Cell, run, Cell \in shown \/ (stage = "reduced" /\ run.text))
  BY DEF RunOK
<1>3. Tells(Cell, run, Cell \in shown \/ (stage = "reduced" /\ run.text))'
  <2>1. SpansTell(Cell, run, Cell \in shown \/ (stage = "reduced" /\ run.text))'
    BY <1>1, <1>2 DEF Tells, SpansTell, PublishesSpans
  <2>2. RenderedTells(Cell, run, Cell \in shown \/ (stage = "reduced" /\ run.text))'
    BY <1>1, <1>2 DEF Tells, RenderedTells, Plain, Hidden
  <2>3. CloseTells(Cell, run, Cell \in shown \/ (stage = "reduced" /\ run.text))'
    BY <1>1, <1>2 DEF Tells, CloseTells, Hidden
  <2>4. QED BY <2>1, <2>2, <2>3 DEF Tells
<1>4. QED BY <1>3 DEF RunOK

(* The batch's text is shown once the batch is.                            *)
LEMMA PublishKeeps ==
  ASSUME CanaryInv, PublishBatch
  PROVE  CanaryInv'
<1> USE DEF CanaryInv
<1>1. /\ stage = "reduced" /\ stage' = "graph"
      /\ run' = [run EXCEPT !.published = @ \cup {Len(run.reduced)}, !.text = FALSE]
      /\ shown' = IF run.text THEN shown \cup {Cell} ELSE shown
      /\ UNCHANGED <<block, at, outputs, ledger, strays, surprises, audit, verdict>>
  BY DEF PublishBatch
<1>2. /\ run.reduced \in Seq(BOOLEAN) /\ run.rendered \in Nat /\ run.text \in BOOLEAN
      /\ run = [reduced |-> run.reduced, published |-> run.published, direct |-> run.direct,
                rendered |-> run.rendered, close |-> run.close, text |-> run.text]
      /\ \A r \in run.direct : r.node = "H" /\ r.batch \in DOMAIN run.reduced
      /\ Tells(Cell, run, Cell \in shown \/ run.text)
  BY <1>1 DEF RunOK, Working
<1>3. /\ run'.reduced = run.reduced /\ run'.direct = run.direct /\ run'.rendered = run.rendered
      /\ run'.close = run.close /\ run'.text = FALSE
      /\ run' = [reduced |-> run'.reduced, published |-> run'.published, direct |-> run'.direct,
                 rendered |-> run'.rendered, close |-> run'.close, text |-> run'.text]
  BY <1>1, <1>2
<1>4. Cell' = Cell /\ \A c : ProseCloses(c)' <=> ProseCloses(c)
  BY <1>1 DEF Cell, ProseCloses
<1>5. (Cell \in shown \/ run.text) => Cell \in shown'
  BY <1>1
<1>6. RunOK'
  <2>1. Tells(Cell, run', Cell \in shown')
    <3>1. (Cell \in shown \/ run.text) \in BOOLEAN /\ (Cell \in shown') \in BOOLEAN
      OBVIOUS
    <3>2. Tells(Cell, run, Cell \in shown \/ run.text)
      BY <1>2
    <3>3. QED BY <1>3, <1>5, <3>1, <3>2, TellsAlike
  <2>2. Tells(Cell, run, Cell \in shown \/ (stage = "reduced" /\ run.text))'
    <3>1. SpansTell(Cell, run, Cell \in shown \/ (stage = "reduced" /\ run.text))'
      BY <1>1, <1>4, <2>1 DEF Tells, SpansTell, PublishesSpans
    <3>2. RenderedTells(Cell, run, Cell \in shown \/ (stage = "reduced" /\ run.text))'
      BY <1>1, <1>4, <2>1 DEF Tells, RenderedTells, Plain, Hidden
    <3>3. CloseTells(Cell, run, Cell \in shown \/ (stage = "reduced" /\ run.text))'
      BY <1>1, <1>4, <2>1 DEF Tells, CloseTells, Hidden
    <3>4. QED BY <3>1, <3>2, <3>3 DEF Tells
  <2>3. run'.text \in BOOLEAN
    BY <1>3, Zenon
  <2>4. QED BY <1>2, <1>3, <2>2, <2>3 DEF RunOK
<1>7. BlockOK'
  BY <1>1 DEF BlockOK, Working
<1>8. LedgerOK'
  BY <1>1, <1>4 DEF LedgerOK, Ahead
<1>9. AuditOK'
  BY <1>1 DEF AuditOK
<1>10. OutputsOK'
  BY <1>1, <1>4, OutputsStay
<1>11. PassIsEarned'
  BY <1>1, NoVerdict
<1>12. QED BY <1>6, <1>7, <1>8, <1>9, <1>10, <1>11

(* A cell whose graph failed leaves nothing but its calls.                 *)
LEMMA FailKeeps ==
  ASSUME CanaryInv, GraphFails
  PROVE  CanaryInv'
<1> USE DEF CanaryInv
<1>1. /\ stage \in {"graph", "reduced"} /\ stage' = "next" /\ at' = at + 1
      /\ UNCHANGED <<block, outputs, ledger, strays, shown, audit, verdict>>
  BY DEF GraphFails
<1>2. BlockOK'
  BY <1>1 DEF BlockOK, Working
<1>3. \A c : ProseCloses(c)' <=> ProseCloses(c)
  BY <1>1 DEF ProseCloses
<1>4. LedgerOK'
  BY <1>1, <1>3 DEF LedgerOK, Ahead, BlockOK
<1>5. RunOK' /\ AuditOK'
  BY <1>1 DEF RunOK, AuditOK, Working
<1>6. OutputsOK'
  BY <1>1, <1>3, OutputsStay
<1>7. PassIsEarned'
  BY <1>1, NoVerdict
<1>8. QED BY <1>2, <1>4, <1>5, <1>6, <1>7

(* A close records what it made of the cell, and its calls are the cell's. *)
LEMMA CloseKeeps ==
  ASSUME CanaryInv, CloseCell
  PROVE  CanaryInv'
<1> USE DEF CanaryInv
<1>1. /\ stage = "graph" /\ stage' = "closed"
      /\ UNCHANGED <<block, at, outputs, strays, audit, verdict>>
  BY DEF CloseCell
<1>2. Cell \in Cells /\ Cell \in Works /\ Cell.arm \in DOMAIN kind /\ Cell' = Cell
      /\ at \in DOMAIN block /\ Cell = block[at]
  BY <1>1, BlockFacts DEF Working, Cell
<1>3. ~ProseCloses(Cell)
  BY <1>1, <1>2 DEF LedgerOK, Ahead, BlockOK
<1>4. /\ run.reduced \in Seq(BOOLEAN) /\ run.rendered \in Nat /\ run.text \in BOOLEAN
      /\ run = [reduced |-> run.reduced, published |-> run.published, direct |-> run.direct,
                rendered |-> run.rendered, close |-> run.close, text |-> run.text]
      /\ \A r \in run.direct : r.node = "H" /\ r.batch \in DOMAIN run.reduced
      /\ Tells(Cell, run, Cell \in shown)
  BY <1>1 DEF RunOK, Working
<1> DEFINE Others == \A c : c # Cell /\ ProseCloses(c)' => ProseCloses(c)
<1>5. ASSUME Others, ledger' \in Seq(CallRow), AuditOK', shown \subseteq shown', RunOK'
      PROVE  CanaryInv'
  <2>1. BlockOK'
    BY <1>1 DEF BlockOK, Working
  <2>2. LedgerOK'
    <3>1. ASSUME NEW j \in DOMAIN block', j >= Ahead'
          PROVE  ~ProseCloses(block[j])'
      <4>1. j \in DOMAIN block /\ j >= at + 1 /\ j >= Ahead /\ j # at
        BY <1>1, <3>1, BlockFacts DEF Ahead, BlockOK
      <4>2. block[j] # Cell /\ ~ProseCloses(block[j])
        BY <1>2, <4>1, BlockFacts DEF LedgerOK
      <4>3. block'[j] = block[j]
        BY <1>1
      <4>4. QED BY <1>5, <4>2, <4>3
    <3>2. QED BY <1>1, <1>5, <3>1 DEF LedgerOK
  <2>3. OutputsOK'
    <3>1. ASSUME NEW c \in DOMAIN outputs
          PROVE  c # Cell
      BY <1>2, <3>1, BlockFacts DEF OutputsOK, BlockOK
    <3>2. QED BY <1>1, <1>5, <3>1, OutputsStay
  <2>4. PassIsEarned'
    BY <1>1, NoVerdict
  <2>5. QED BY <1>5, <2>1, <2>2, <2>3, <2>4
<1> HIDE DEF Others
<1>6. CASE Cell.arm = "P0"
  <2>1. UNCHANGED <<run, ledger, shown>>
    BY <1>6 DEF CloseCell
  <2>2. \A c : ProseCloses(c)' <=> ProseCloses(c)
    BY <2>1 DEF ProseCloses
  <2>3. AuditOK' /\ ledger' \in Seq(CallRow)
    BY <1>1, <2>1 DEF AuditOK, LedgerOK
  <2>4. Tells(Cell, run, Cell \in shown \/ (stage = "reduced" /\ run.text))'
    <3>1. SpansTell(Cell, run, Cell \in shown \/ (stage = "reduced" /\ run.text))'
      BY <1>1, <1>2, <1>4, <2>1 DEF Tells, SpansTell, PublishesSpans
    <3>2. RenderedTells(Cell, run, Cell \in shown \/ (stage = "reduced" /\ run.text))'
      BY <1>1, <1>2, <1>4, <2>1 DEF Tells, RenderedTells, Plain, Hidden
    <3>3. ~ProseCloses(Cell)'
      BY <1>2, <1>3, <2>2
    <3>4. CloseTells(Cell, run, Cell \in shown \/ (stage = "reduced" /\ run.text))'
      BY <3>3 DEF CloseTells
    <3>5. QED BY <3>1, <3>2, <3>4 DEF Tells
  <2>5. RunOK'
    BY <1>1, <1>4, <2>1, <2>4 DEF RunOK
  <2>6. QED BY <1>5, <2>1, <2>2, <2>3, <2>5 DEF Others
<1>7. CASE Cell.arm # "P0"
  <2> DEFINE close == kind[Cell.arm].close
             ended(o) == IF o.fell THEN "failed" ELSE IF close = "P0" THEN "deferred" ELSE "reduced"
  <2>1. PICK o \in {SmoothClose[close]} \cup OddCloses[close] :
          /\ run' = [run EXCEPT !.direct = @ \cup Records("C", 0, o), !.rendered = @ + o.rendered,
                                !.close = ended(o)]
          /\ ledger' = ledger \o o.calls
          /\ shown' = IF o.text THEN shown \cup {Cell} ELSE shown
    BY <1>7 DEF CloseCell
  <2>2. close \in {"P0", "CPU", "LLM", "PROSE"}
    BY <1>2, CanaryAssumption
  <2>3. o.fell => ended(o) = "failed"
    OBVIOUS
  <2> HIDE DEF close, ended
  <2>4. /\ o.calls \in Seq(CallRow)
        /\ \A i \in DOMAIN o.calls : o.calls[i].work = Cell
        /\ o.rendered \in Nat /\ o.text \in BOOLEAN /\ o.fell \in BOOLEAN
        /\ (\E d \in o.direct : d.spans > 0) => o.text
        /\ close \in {"P0", "PROSE"} /\ o.rendered > 0 => o.text
        /\ close = "PROSE" => o.text \/ (o.fell /\ (o.direct = {} \/ o.calls = <<>>))
    BY <1>2, <2>1, <2>2, CloseFacts
  <2>5. /\ ledger' \in Seq(CallRow) /\ AuditOK' /\ Others
        /\ o.calls = <<>> => ~ProseCloses(Cell)'
    <3>1. /\ ledger' \in Seq(CallRow) /\ AuditOK'
          /\ \A c : ProseCloses(c)' => ProseCloses(c) \/ \E j \in DOMAIN o.calls :
                                         o.calls[j].work = c /\ o.calls[j].op = "CLOSE_PROSE"
      BY <1>1, <2>1, <2>4, LedgerGrows
    <3>2. Others
      BY <2>4, <3>1 DEF Others
    <3>3. o.calls = <<>> => ~ProseCloses(Cell)'
      BY <1>2, <1>3, <3>1
    <3>4. QED BY <3>1, <3>2, <3>3
  <2>6. /\ run'.reduced = run.reduced /\ run'.published = run.published
        /\ run'.direct = run.direct \cup Records("C", 0, o) /\ run'.rendered = run.rendered + o.rendered
        /\ run'.close = ended(o) /\ run'.text = run.text
        /\ run' = [reduced |-> run'.reduced, published |-> run'.published, direct |-> run'.direct,
                   rendered |-> run'.rendered, close |-> run'.close, text |-> run'.text]
    BY <1>4, <2>1
  <2>7. /\ \A r \in Records("C", 0, o) : r.node = "C" /\ r.of \in o.direct
        /\ o.direct = {} => Records("C", 0, o) = {}
    BY DEF Records
  <2>8. shown \subseteq shown' /\ (o.text => Cell \in shown') /\ Cell' = Cell
    BY <1>2, <2>1
  <2>9. SpansTell(Cell, run, Cell \in shown \/ (stage = "reduced" /\ run.text))'
    <3>1. SUFFICES ASSUME kind[Cell.arm].page # "HIER", NEW r \in run'.direct, r.of.spans > 0
                   PROVE  Cell \in shown'
      BY <2>8 DEF SpansTell, PublishesSpans
    <3>2. CASE r \in run.direct
      BY <1>4, <2>8, <3>1, <3>2 DEF Tells, SpansTell, PublishesSpans
    <3>3. CASE r \in Records("C", 0, o)
      BY <2>4, <2>7, <2>8, <3>1, <3>3
    <3>4. QED BY <2>6, <3>1, <3>2, <3>3
  <2>10. RenderedTells(Cell, run, Cell \in shown \/ (stage = "reduced" /\ run.text))'
    <3>1. SUFFICES ASSUME Plain(Cell.arm), run'.rendered > 0, Cell \notin shown'
                   PROVE  \E i \in DOMAIN run'.reduced : run'.reduced[i] /\ Hidden(run', "H", i)
      BY <1>1, <2>8 DEF RenderedTells, Plain, Hidden
    <3>2. o.rendered = 0
      BY <2>2, <2>4, <2>8, <3>1 DEF Plain, Structured, close
    <3>3. run.rendered > 0 /\ Cell \notin shown
      BY <1>4, <2>6, <2>8, <3>1, <3>2
    <3>4. PICK i \in DOMAIN run.reduced : run.reduced[i] /\ Hidden(run, "H", i)
      BY <1>4, <3>1, <3>3 DEF Tells, RenderedTells
    <3>5. Hidden(run', "H", i)
      BY <2>6, <2>7, <3>4 DEF Hidden
    <3>6. QED BY <2>6, <3>4, <3>5
  <2>11. CloseTells(Cell, run, Cell \in shown \/ (stage = "reduced" /\ run.text))'
    <3>1. SUFFICES ASSUME close = "PROSE", ProseCloses(Cell)', Cell \notin shown'
                   PROVE  run'.close = "failed" /\ Hidden(run', "C", 0)
      BY <1>1, <2>8 DEF CloseTells, Hidden, close
    <3>2. o.fell /\ o.direct = {}
      BY <2>4, <2>5, <2>8, <3>1
    <3>3. run'.direct = run.direct
      BY <2>6, <2>7, <3>2
    <3>4. Hidden(run', "C", 0)
      BY <1>4, <3>3 DEF Hidden
    <3>5. QED BY <2>3, <2>6, <3>2, <3>4
  <2>12. RunOK'
    <3>1. run'.reduced \in Seq(BOOLEAN) /\ run'.rendered \in Nat /\ run'.text \in BOOLEAN
      BY <1>4, <2>4, <2>6
    <3>2. \A r \in run'.direct : r.node = "H" => r.batch \in DOMAIN run'.reduced
      BY <1>4, <2>6, <2>7
    <3>3. Tells(Cell, run, Cell \in shown \/ (stage = "reduced" /\ run.text))'
      BY <2>9, <2>10, <2>11 DEF Tells
    <3>4. QED BY <1>1, <2>6, <3>1, <3>2, <3>3 DEF RunOK
  <2>13. QED BY <1>5, <2>5, <2>8, <2>12
<1>8. QED BY <1>6, <1>7

(* What is committed of a cell is what its run told.                       *)
LEMMA CommitKeeps ==
  ASSUME CanaryInv, CommitCell
  PROVE  CanaryInv'
<1> USE DEF CanaryInv
<1>1. /\ stage = "closed" /\ stage' = "next" /\ at' = at + 1
      /\ UNCHANGED <<block, ledger, strays, shown, audit, verdict>>
  BY DEF CommitCell
<1>2. PICK same : outputs' = outputs
                  \/ outputs' = [c \in DOMAIN outputs \cup {Cell} |-> IF c = Cell THEN Output(same) ELSE outputs[c]]
  BY DEF CommitCell
<1> DEFINE output == Output(same)
<1>3. at \in DOMAIN block /\ Cell = block[at]
  BY <1>1, BlockFacts DEF Working
<1>4. \A c : ProseCloses(c)' <=> ProseCloses(c)
  BY <1>1 DEF ProseCloses
<1>5. BlockOK'
  BY <1>1 DEF BlockOK, Working
<1>6. LedgerOK'
  BY <1>1, <1>4 DEF LedgerOK, Ahead, BlockOK
<1>7. RunOK' /\ AuditOK'
  BY <1>1 DEF RunOK, AuditOK, Working
<1>8. Tells(Cell, run, Cell \in shown)
  BY <1>1 DEF RunOK, Working
<1>9. Tells(Cell, output, Cell \in shown)
  <2>1. /\ output.reduced = run.reduced /\ output.direct = run.direct
        /\ output.rendered = run.rendered /\ output.close = run.close
    BY DEF Output
  <2> HIDE DEF output
  <2> DEFINE seen == Cell \in shown
  <2>2. seen \in BOOLEAN /\ Tells(Cell, run, seen)
    BY <1>8
  <2> HIDE DEF seen
  <2>3. Tells(Cell, output, seen)
    BY <2>1, <2>2, TellsAlike
  <2>4. QED BY <2>3 DEF seen
<1> HIDE DEF output
<1>10. OutputsOK'
  <2>1. SUFFICES ASSUME NEW c \in DOMAIN outputs'
                 PROVE  /\ \E j \in DOMAIN block : j < at' /\ block[j] = c
                        /\ Tells(c, outputs[c], c \in shown)'
    BY <1>1, Zenon DEF OutputsOK
  <2>2. CASE c = Cell /\ outputs' # outputs
    <3>1. outputs'[c] = output
      BY <1>2, <2>1, <2>2 DEF output
    <3>2. at < at' /\ block[at] = c
      BY <1>1, <1>3, <2>2 DEF BlockOK
    <3>3. Tells(c, outputs'[c], c \in shown)
      BY <1>9, <2>2, <3>1
    <3>4. Tells(c, outputs[c], c \in shown)'
      BY <1>1, <1>4, <3>3 DEF Tells, SpansTell, RenderedTells, CloseTells, PublishesSpans, Hidden, Plain
    <3>5. QED BY <1>3, <3>2, <3>4
  <2>3. CASE c # Cell \/ outputs' = outputs
    <3>1. c \in DOMAIN outputs /\ outputs'[c] = outputs[c]
      BY <1>2, <2>1, <2>3
    <3>2. PICK j \in DOMAIN block : j < at /\ block[j] = c
      BY <3>1 DEF OutputsOK
    <3>3. j < at'
      BY <1>1, <3>2, BlockFacts DEF BlockOK
    <3>4. Tells(c, outputs'[c], c \in shown)
      BY <3>1 DEF OutputsOK
    <3>5. Tells(c, outputs[c], c \in shown)'
      BY <1>1, <1>4, <3>4 DEF Tells, SpansTell, RenderedTells, CloseTells, PublishesSpans, Hidden, Plain
    <3>6. QED BY <3>2, <3>3, <3>5
  <2>4. QED BY <2>2, <2>3
<1>11. PassIsEarned'
  BY <1>1, NoVerdict
<1>12. QED BY <1>5, <1>6, <1>7, <1>10, <1>11

(* A coroutine left behind makes no call of a close.                       *)
LEMMA StrayKeeps ==
  ASSUME CanaryInv, StrayCalls
  PROVE  CanaryInv'
<1> USE DEF CanaryInv
<1>1. PICK s \in strays : ledger' = Append(ledger, Call(s.work, s.op, "SENT", 0, 0)) /\ strays' = strays \ {s}
  BY DEF StrayCalls
<1>2. verdict' = "none" /\ UNCHANGED <<block, at, stage, run, outputs, shown, surprises, audit, verdict>>
  BY DEF StrayCalls
<1> DEFINE call == Call(s.work, s.op, "SENT", 0, 0)
<1>3. call \in CallRow /\ call.op # "CLOSE_PROSE"
  BY <1>1 DEF LedgerOK, Call, CallRow, CallRows, Ops
<1> HIDE DEF call
<1>4. ledger' = ledger \o <<call>> /\ <<call>> \in Seq(CallRow) /\ \A i \in DOMAIN <<call>> : <<call>>[i] = call
  BY <1>1, <1>3, CallAdded DEF call
<1>5. /\ ledger' \in Seq(CallRow) /\ AuditOK'
      /\ \A c : ProseCloses(c)' => ProseCloses(c)
  <2>1. UNCHANGED audit
    BY <1>2
  <2>2. /\ ledger' \in Seq(CallRow) /\ AuditOK'
        /\ \A c : ProseCloses(c)' => ProseCloses(c) \/ \E j \in DOMAIN <<call>> :
                                       <<call>>[j].work = c /\ <<call>>[j].op = "CLOSE_PROSE"
    BY <1>4, <2>1, LedgerGrows
  <2>3. \A j \in DOMAIN <<call>> : <<call>>[j].op # "CLOSE_PROSE"
    BY <1>3, <1>4
  <2>4. QED BY <2>2, <2>3
<1>6. BlockOK'
  BY <1>2 DEF BlockOK
<1>7. LedgerOK'
  BY <1>1, <1>2, <1>5 DEF LedgerOK, Ahead
<1>8. Cell' = Cell
  BY <1>2 DEF Cell
<1>9. RunOK'
  <2>1. ProseCloses(Cell)' => ProseCloses(Cell)
    BY <1>5, <1>8
  <2>2. QED BY <1>2, <2>1, RunStays
<1>10. OutputsOK'
  BY <1>2, <1>5, OutputsStay
<1>11. PassIsEarned'
  BY <1>2 DEF PassIsEarned
<1>12. QED BY <1>5, <1>6, <1>7, <1>9, <1>10, <1>11

(* A call in flight ends, after the verdict too.                           *)
LEMMA SettleKeeps ==
  ASSUME CanaryInv, Settle
  PROVE  CanaryInv'
<1> USE DEF CanaryInv
<1>1. UNCHANGED <<block, at, stage, run, outputs, strays, shown, surprises, audit, verdict>>
  BY DEF Settle
<1>2. /\ ledger' \in Seq(CallRow) /\ Len(ledger') = Len(ledger) /\ DOMAIN ledger' = DOMAIN ledger
      /\ \A i \in DOMAIN ledger : /\ ledger'[i].work = ledger[i].work /\ ledger'[i].op = ledger[i].op
                                  /\ ledger[i].tokens > 0 => ledger'[i].tokens > 0
  BY SettledCalls
<1>3. \A c : ProseCloses(c)' => ProseCloses(c)
  BY <1>2 DEF ProseCloses
<1>4. BlockOK'
  BY <1>1 DEF BlockOK
<1>5. LedgerOK'
  BY <1>1, <1>2, <1>3 DEF LedgerOK, Ahead
<1>6. Cell' = Cell
  BY <1>1 DEF Cell
<1>7. RunOK'
  <2>1. ProseCloses(Cell)' => ProseCloses(Cell)
    BY <1>3, <1>6
  <2>2. QED BY <1>1, <2>1, RunStays
<1>8. OutputsOK'
  BY <1>1, <1>3, OutputsStay
<1>9. 1..audit.n \subseteq DOMAIN ledger
  BY LenProperties DEF AuditOK, LedgerOK
<1>10. AuditOK'
  BY <1>1, <1>2, <1>9 DEF AuditOK
<1>11. PassIsEarned'
  <2>1. P1Arms' = P1Arms /\ \A a : CellsOf(a)' = CellsOf(a)
    BY <1>1 DEF P1Arms, Arms, CellsOf, Cells
  <2>2. SUFFICES ASSUME verdict = "pass", NEW a \in P1Arms
                 PROVE  /\ kind[a].page # "HIER" => CellsOf(a) \cap shown # {}
                        /\ \A c \in CellsOf(a) : \A op \in ExpectedOps(a) :
                             \E i \in 1..audit.n : ledger'[i].work = c /\ ledger'[i].op = op /\ ledger'[i].tokens > 0
    BY <1>1, <2>1 DEF PassIsEarned, ExpectedOps
  <2>3. QED BY <1>2, <1>9, <2>2 DEF PassIsEarned
<1>12. QED BY <1>4, <1>5, <1>7, <1>8, <1>10, <1>11

(* The audit reads what the ledger has.                                    *)
LEMMA AuditKeeps ==
  ASSUME CanaryInv, Audit
  PROVE  CanaryInv'
<1> USE DEF CanaryInv
<1>1. /\ stage = "next" /\ stage' = "audited"
      /\ UNCHANGED <<block, at, run, outputs, ledger, strays, shown, surprises, verdict>>
  BY DEF Audit
<1>2. /\ audit'.n = Len(ledger)
      /\ audit'.decoded = {[work |-> ledger[i].work, op |-> ledger[i].op] :
                             i \in {j \in Rows : ledger[j].state = "COMMITTED" /\ ledger[j].tokens > 0}}
  BY DEF Audit
<1>3. AuditOK'
  <2>1. Rows \subseteq 1..Len(ledger) /\ Len(ledger) \in Nat
    BY LenProperties DEF Rows, LedgerOK
  <2>2. QED BY <1>1, <1>2, <2>1 DEF AuditOK
<1>4. \A c : ProseCloses(c)' <=> ProseCloses(c)
  BY <1>1 DEF ProseCloses
<1>5. BlockOK'
  BY <1>1 DEF BlockOK, Working
<1>6. LedgerOK'
  BY <1>1, <1>4 DEF LedgerOK, Ahead
<1>7. RunOK'
  BY <1>1 DEF RunOK, Working
<1>8. OutputsOK'
  BY <1>1, <1>4, OutputsStay
<1>9. PassIsEarned'
  BY <1>1, NoVerdict
<1>10. QED BY <1>3, <1>5, <1>6, <1>7, <1>8, <1>9

(* Each arm that passes the checks showed its model text in some cell, and *)
(* its selectors decoded in all of them.                                   *)
LEMMA PassedIsEarned ==
  ASSUME CanaryInv, Passes, NEW a \in P1Arms
  PROVE  /\ kind[a].page # "HIER" => CellsOf(a) \cap shown # {}
         /\ \A c \in CellsOf(a) : \A op \in ExpectedOps(a) :
              \E i \in 1 .. audit.n : ledger[i].work = c /\ ledger[i].op = op /\ ledger[i].tokens > 0
<1> USE DEF CanaryInv
<1>1. /\ DOMAIN outputs = Cells /\ OutputPublished /\ SelectorDecoded /\ FallbacksAccounted /\ ProseRendered
  BY DEF Passes, CellsCommitted, Committed
<1>2. a \in Arms /\ a # "P0" /\ a \in DOMAIN kind
  BY BlockFacts DEF P1Arms, Arms
<1>3. PICK c0 \in Cells : c0.arm = a
  BY <1>2 DEF Arms
<1>4. \A c \in CellsOf(a) : c \in Cells /\ c.arm = a /\ Tells(c, outputs[c], c \in shown)
  BY <1>1 DEF CellsOf, OutputsOK
<1>5. c0 \in CellsOf(a) /\ Tells(c0, outputs[c0], c0 \in shown)
  BY <1>3, <1>4 DEF CellsOf
<1>6. \A c \in CellsOf(a) : \A op \in ExpectedOps(a) :
        \E i \in 1 .. audit.n : ledger[i].work = c /\ ledger[i].op = op /\ ledger[i].tokens > 0
  <2>1. SUFFICES ASSUME NEW c \in CellsOf(a), NEW op \in ExpectedOps(a)
                 PROVE  \E i \in 1 .. audit.n : /\ ledger[i].work = c /\ ledger[i].op = op
                                                /\ ledger[i].tokens > 0
    OBVIOUS
  <2> DEFINE d == [work |-> c, op |-> op]
  <2>2. d \in audit.decoded
    BY <1>1, <1>4, <2>1 DEF SelectorDecoded, DecodedBy, Committed
  <2>3. d.work = c /\ d.op = op
    OBVIOUS
  <2> HIDE DEF d
  <2>4. QED BY <2>2, <2>3 DEF AuditOK
<1>7. ASSUME kind[a].page # "HIER"
      PROVE  CellsOf(a) \cap shown # {}
  <2>1. CASE Structured(kind[a].page) \/ Structured(kind[a].close)
    <3>1. a \in Publishing
      BY <1>2, <2>1 DEF Publishing
    <3>2. outputs[c0] \in Outputs(a)
      BY <1>1, <1>3, <1>5 DEF Outputs, Committed
    <3>3. PICK o \in Outputs(a) : PublishesSpans(o)
      BY <1>1, <3>1, <3>2 DEF OutputPublished
    <3>4. PICK c \in CellsOf(a) : o = outputs[c]
      BY <3>3 DEF Outputs
    <3>5. c \in shown
      BY <1>4, <1>7, <3>3, <3>4 DEF Tells, SpansTell
    <3>6. QED BY <3>4, <3>5
  <2>2. CASE kind[a].close = "PROSE"
    <3>1. "CLOSE_PROSE" \in ExpectedOps(a)
      BY <2>2 DEF ExpectedOps
    <3>2. PICK i \in 1..audit.n : ledger[i].work = c0 /\ ledger[i].op = "CLOSE_PROSE"
      BY <1>5, <1>6, <3>1
    <3>3. 1..audit.n \subseteq DOMAIN ledger
      BY LenProperties DEF AuditOK, LedgerOK
    <3>4. ProseCloses(c0)
      BY <3>2, <3>3 DEF ProseCloses
    <3>5. c0 \in shown \/ (outputs[c0].close = "failed" /\ Hidden(outputs[c0], "C", 0))
      BY <1>3, <1>5, <2>2, <3>4 DEF Tells, CloseTells
    <3>6. ASSUME outputs[c0].close = "failed"
          PROVE  ~Hidden(outputs[c0], "C", 0)
      <4> DEFINE f == [node |-> "C", batch |-> 0]
      <4>1. f \in Incidents(outputs[c0])
        BY <3>6 DEF Incidents
      <4>2. f.node = "C" /\ f.batch = 0
        OBVIOUS
      <4> HIDE DEF f
      <4>3. \E r \in outputs[c0].direct : r.node = f.node /\ r.batch = f.batch /\ r.of.failed
        BY <1>1, <1>3, <4>1 DEF FallbacksAccounted, Committed
      <4>4. QED BY <4>2, <4>3 DEF Hidden
    <3>7. QED BY <1>5, <3>5, <3>6
  <2>3. CASE a \in ProseControls /\ Plain(a)
    <3>1. outputs[c0].rendered > 0
      BY <1>1, <1>3, <2>3 DEF ProseRendered, Committed
    <3>2. c0 \in shown \/ \E i \in DOMAIN outputs[c0].reduced :
                             outputs[c0].reduced[i] /\ Hidden(outputs[c0], "H", i)
      BY <1>3, <1>5, <2>3, <3>1 DEF Tells, RenderedTells
    <3>3. ASSUME NEW i \in DOMAIN outputs[c0].reduced, outputs[c0].reduced[i]
          PROVE  ~Hidden(outputs[c0], "H", i)
      <4> DEFINE f == [node |-> "H", batch |-> i]
      <4>1. f \in Incidents(outputs[c0])
        BY <3>3 DEF Incidents
      <4>2. f.node = "H" /\ f.batch = i
        OBVIOUS
      <4> HIDE DEF f
      <4>3. \E r \in outputs[c0].direct : r.node = f.node /\ r.batch = f.batch /\ r.of.failed
        BY <1>1, <1>3, <4>1 DEF FallbacksAccounted, Committed
      <4>4. QED BY <4>2, <4>3 DEF Hidden
    <3>4. QED BY <1>5, <3>2, <3>3
  <2>4. QED BY <1>2, <2>1, <2>2, <2>3, ArmsAssumption DEF Plain
<1>8. QED BY <1>6, <1>7

LEMMA VerifyKeeps ==
  ASSUME CanaryInv, Verify
  PROVE  CanaryInv'
<1> USE DEF CanaryInv
<1>1. /\ stage = "audited" /\ stage' = "over"
      /\ verdict' = IF Passes THEN "pass" ELSE "fail"
      /\ UNCHANGED <<block, at, run, outputs, ledger, strays, shown, surprises, audit>>
  BY DEF Verify
<1>2. \A c : ProseCloses(c)' <=> ProseCloses(c)
  BY <1>1 DEF ProseCloses
<1>3. BlockOK'
  BY <1>1 DEF BlockOK, Working
<1>4. LedgerOK' /\ RunOK' /\ AuditOK'
  BY <1>1, <1>2 DEF LedgerOK, Ahead, RunOK, Working, AuditOK
<1>5. OutputsOK'
  BY <1>1, <1>2, OutputsStay
<1>6. PassIsEarned'
  <2>1. P1Arms' = P1Arms /\ \A a : CellsOf(a)' = CellsOf(a)
    BY <1>1 DEF P1Arms, Arms, CellsOf, Cells
  <2>2. SUFFICES ASSUME Passes, NEW a \in P1Arms
                 PROVE  /\ kind[a].page # "HIER" => CellsOf(a) \cap shown # {}
                        /\ \A c \in CellsOf(a) : \A op \in ExpectedOps(a) :
                             \E i \in 1..audit.n : ledger[i].work = c /\ ledger[i].op = op /\ ledger[i].tokens > 0
    BY <1>1, <2>1 DEF PassIsEarned, ExpectedOps
  <2>3. QED BY <2>2, PassedIsEarned
<1>7. QED BY <1>3, <1>4, <1>5, <1>6

(* Nothing has run, and no call of an earlier campaign is a cell's.        *)
LEMMA CanaryBegins ==
  ASSUME CanaryInit
  PROVE  CanaryInv
<1>1. /\ block \in Blocks /\ at = 1 /\ stage = "next" /\ outputs = <<>> /\ ledger \in Histories
      /\ strays = {} /\ audit = NoAudit /\ verdict = "none"
  BY DEF CanaryInit
<1>2. /\ ledger \in Seq(CallRows(WorksOf(ledger))) /\ WorksOf(ledger) \cap ToSet(block) = {}
      /\ WorksOf(ledger) \subseteq Works
  <2>1. /\ ledger \in Seq(CallRows(WorksOf(ledger)))
        /\ \A b \in Blocks : WorksOf(ledger) \cap ToSet(b) = {}
    BY <1>1, HistoriesAssumption
  <2>2. WorksOf(ledger) \subseteq Works
    <3>1. WorksOf(ledger) \subseteq PastWorks
      BY <1>1 DEF PastWorks
    <3>2. QED BY <3>1 DEF Works
  <2>3. QED BY <1>1, <2>1, <2>2
<1>3. ledger \in Seq(CallRow)
  <2>1. CallRows(WorksOf(ledger)) \subseteq CallRow
    BY <1>2 DEF CallRow, CallRows
  <2>2. QED BY <1>2, <2>1
<1>4. ASSUME NEW j \in DOMAIN block, ProseCloses(block[j])
      PROVE  FALSE
  <2>1. PICK i \in DOMAIN ledger : ledger[i].work = block[j]
    BY <1>4 DEF ProseCloses
  <2>2. ledger[i].work \in WorksOf(ledger)
    BY DEF WorksOf, ToSet
  <2>3. block[j] \in ToSet(block)
    BY DEF ToSet
  <2>4. QED BY <1>2, <2>1, <2>2, <2>3
<1>5. BlockOK
  BY <1>1 DEF BlockOK, Working
<1>6. LedgerOK
  BY <1>1, <1>3, <1>4 DEF LedgerOK
<1>7. RunOK /\ PassIsEarned
  BY <1>1 DEF RunOK, Working, PassIsEarned
<1>8. OutputsOK
  BY <1>1 DEF OutputsOK
<1>9. AuditOK
  <2>1. audit.n = 0 /\ audit.decoded = {}
    BY <1>1 DEF NoAudit
  <2>2. Len(ledger) \in Nat
    BY <1>3, LenProperties
  <2>3. QED BY <2>1, <2>2 DEF AuditOK
<1>10. QED BY <1>5, <1>6, <1>7, <1>8, <1>9 DEF CanaryInv

(* The invariant, over every step.                                         *)
LEMMA CanaryRuns == CanarySpec => []CanaryInv
<1>1. CanaryInit => CanaryInv
  BY CanaryBegins
<1>2. CanaryInv /\ [CanaryStep]_canaryVars => CanaryInv'
  <2>1. SUFFICES ASSUME CanaryInv, [CanaryStep]_canaryVars
                 PROVE  CanaryInv'
    OBVIOUS
  <2>2. CASE StartCell
    BY <2>1, <2>2, StartKeeps
  <2>3. CASE ReduceBatch
    BY <2>1, <2>3, ReduceKeeps
  <2>4. CASE PublishBatch
    BY <2>1, <2>4, PublishKeeps
  <2>5. CASE GraphFails
    BY <2>1, <2>5, FailKeeps
  <2>6. CASE CloseCell
    BY <2>1, <2>6, CloseKeeps
  <2>7. CASE CommitCell
    BY <2>1, <2>7, CommitKeeps
  <2>8. CASE StrayCalls
    BY <2>1, <2>8, StrayKeeps
  <2>9. CASE Settle
    BY <2>1, <2>9, SettleKeeps
  <2>10. CASE Audit
    BY <2>1, <2>10, AuditKeeps
  <2>11. CASE Verify
    BY <2>1, <2>11, VerifyKeeps
  <2>12. CASE UNCHANGED canaryVars
    <3>1. UNCHANGED <<block, at, stage, run, outputs, ledger, strays, shown, audit, verdict>>
      BY <2>12 DEF canaryVars
    <3>2. \A c : ProseCloses(c)' <=> ProseCloses(c)
      BY <3>1 DEF ProseCloses
    <3>3. BlockOK' /\ LedgerOK' /\ AuditOK'
      BY <2>1, <3>1, <3>2 DEF CanaryInv, BlockOK, LedgerOK, Ahead, AuditOK
    <3>4. RunOK'
      <4>1. Cell' = Cell
        BY <3>1 DEF Cell
      <4>2. ProseCloses(Cell)' => ProseCloses(Cell)
        BY <3>2, <4>1
      <4>3. QED BY <2>1, <3>1, <4>2, RunStays DEF CanaryInv
    <3>5. OutputsOK'
      BY <2>1, <3>1, <3>2, OutputsStay DEF CanaryInv
    <3>6. PassIsEarned'
      <4>1. P1Arms' = P1Arms /\ \A a : CellsOf(a)' = CellsOf(a) /\ ExpectedOps(a)' = ExpectedOps(a)
        BY <3>1 DEF P1Arms, Arms, CellsOf, Cells, ExpectedOps
      <4>2. PassIsEarned
        BY <2>1 DEF CanaryInv
      <4>3. QED BY <3>1, <4>1, <4>2 DEF PassIsEarned
    <3>7. QED BY <3>3, <3>4, <3>5, <3>6 DEF CanaryInv
  <2>13. QED BY <2>1, <2>2, <2>3, <2>4, <2>5, <2>6, <2>7, <2>8, <2>9, <2>10, <2>11, <2>12 DEF CanaryStep
<1>3. QED BY <1>1, <1>2, PTL DEF CanarySpec

(* A canary that passes passed for something its own cells did: the checks *)
(* _verify makes of the frozen records and of the audit (canary.py) cannot *)
(* all be met by an arm that showed its model nothing, or whose selectors  *)
(* decoded nothing in one of its cells, whatever failed, fell back or was  *)
(* left running on the way, and whatever earlier campaigns had decoded.    *)
THEOREM CanaryPassesAreEarned == CanarySpec => []PassIsEarned
<1>1. CanaryInv => PassIsEarned
  BY DEF CanaryInv
<1>2. QED BY <1>1, CanaryRuns, PTL

-----------------------------------------------------------------------------
(*                     What the canary lets through                        *)

(* The seconds of some rows of a ledger, and the recursion that sums them. *)
Seconds(calls, rows) == SumFunctionOnSet([i \in rows |-> calls[i].seconds], rows)
Adds(g, calls, rows) ==
  g = [s \in SUBSET rows |-> IF s = {} THEN 0 ELSE calls[Chosen(s)].seconds + g[s \ {Chosen(s)}]]

Timed(calls, rows) == IsFiniteSet(rows) /\ \A i \in rows : calls[i].seconds \in Nat

LEMMA AddsUp ==
  ASSUME NEW calls, NEW rows, Timed(calls, rows)
  PROVE  /\ (CHOOSE g : Adds(g, calls, rows))[rows] = Seconds(calls, rows)
         /\ Seconds(calls, rows) \in Nat
<1> DEFINE w == [i \in rows |-> calls[i].seconds]
           P(g) == Adds(g, calls, rows)
<1>1. IsFiniteSet(rows) /\ IntegersOn(w, rows) /\ \A i \in rows : w[i] \in Int
  BY DEF IntegersOn, Timed
<1>2. \A g : P(g) <=> Partial(g, w, rows)
  <2>1. \A s \in SUBSET rows : s # {} => w[Chosen(s)] = calls[Chosen(s)].seconds
    BY ChosenIn
  <2> HIDE DEF w
  <2>2. QED BY <2>1 DEF Adds, Partial
<1>3. \E g : P(g)
  BY <1>1, <1>2, PartialExists
<1>4. Seconds(calls, rows) = SumFunctionOnSet(w, rows)
  BY DEF Seconds
<1>5. Seconds(calls, rows) \in Nat
  <2>1. \A i \in rows : w[i] \in Nat
    BY DEF Timed
  <2> HIDE DEF w
  <2>2. QED BY <1>1, <1>4, <2>1, SumNatural
<1> HIDE DEF P
<1>6. P(CHOOSE g : P(g))
  BY <1>3
<1>7. (CHOOSE g : P(g))[rows] = SumFunctionOnSet(w, rows)
  <2> HIDE DEF w
  <2>1. QED BY <1>1, <1>2, <1>6, PartialIsSum
<1>8. QED BY <1>4, <1>5, <1>7 DEF P

\* the sum the audit makes
LEMMA SecondsSummed ==
  ASSUME NEW rows, Timed(ledger, rows)
  PROVE  SecondsOf(rows) = Seconds(ledger, rows) /\ Seconds(ledger, rows) \in Nat
<1>1. SecondsOf(rows) = (CHOOSE g : Adds(g, ledger, rows))[rows]
  BY DEF SecondsOf, MapThenSumSet, MapThenFoldSet, Adds, Chosen
<1>2. QED BY <1>1, AddsUp

(* What the audit counted, the calls of it that are still open, and those  *)
(* of one cell.                                                            *)
AuditRows == 1..audit.n
StillOpen == {i \in AuditRows : ledger[i].state = "SENT"}
CountedOf(c) == {i \in AuditRows : ledger[i].work = c}

\* all that the calls the audit counted can ever come to fits under the cap
Covered ==
  /\ audit.remaining \in Int
  /\ Seconds(ledger, AuditRows) + (Reserve * Cardinality(StillOpen)) <= GpuCap - audit.remaining

\* with nothing of its own open, what the audit says of a cell is final
SettledForGood ==
  audit.open = 0 => \A c \in Cells : /\ audit.settled[c] = Seconds(ledger, CountedOf(c))
                                     /\ CountedOf(c) \cap StillOpen = {}

\* the screen, at what the dearest cell of each arm was settled at
Dearest == [a \in Arms |-> screen[a] * Max({audit.settled[c] : c \in CellsOf(a)})]
ScreenFits == audit.open = 0 /\ SumFunctionOnSet(Dearest, Arms) <= audit.remaining

Audited == stage \in {"audited", "over"}
AffordInv == (Audited => Covered /\ SettledForGood) /\ (verdict = "pass" => ScreenFits)
AInv == CanaryInv /\ AffordInv

\* the rows of an audit
LEMMA CountedRows ==
  ASSUME CanaryInv
  PROVE  /\ AuditRows \subseteq DOMAIN ledger /\ IsFiniteSet(AuditRows) /\ audit.n \in Nat
         /\ \A i \in AuditRows : ledger[i] \in CallRow /\ ledger[i].seconds \in Nat
         /\ Timed(ledger, AuditRows) /\ IsFiniteSet(StillOpen) /\ Cardinality(StillOpen) \in Nat
         /\ \A c : Timed(ledger, CountedOf(c))
         /\ Timed(ledger, DOMAIN ledger)
<1>1. ledger \in Seq(CallRow) /\ DOMAIN ledger = 1..Len(ledger) /\ Len(ledger) \in Nat
  BY LenProperties DEF CanaryInv, LedgerOK
<1>2. AuditRows \subseteq DOMAIN ledger /\ audit.n \in Nat
  BY <1>1 DEF CanaryInv, AuditOK, AuditRows
<1>3. \A i \in DOMAIN ledger : ledger[i] \in CallRow /\ ledger[i].seconds \in Nat
  <2>1. \A i \in DOMAIN ledger : ledger[i] \in CallRow
    BY <1>1, ElementOfSeq
  <2>2. QED BY <2>1 DEF CallRow, CallRows
<1>4. IsFiniteSet(DOMAIN ledger)
  BY <1>1, FS_Interval
<1>5. IsFiniteSet(AuditRows) /\ IsFiniteSet(StillOpen) /\ \A c : IsFiniteSet(CountedOf(c))
  <2>1. StillOpen \subseteq DOMAIN ledger /\ \A c : CountedOf(c) \subseteq DOMAIN ledger
    BY <1>2 DEF StillOpen, CountedOf
  <2>2. QED BY <1>2, <1>4, <2>1, FS_Subset
<1>6. Cardinality(StillOpen) \in Nat
  BY <1>5, FS_CardinalityType
<1>7. \A c : CountedOf(c) \subseteq DOMAIN ledger
  BY <1>2 DEF CountedOf
<1>8. QED BY <1>2, <1>3, <1>4, <1>5, <1>6, <1>7 DEF Timed

(* Rows that stay as they are sum to the same.                             *)
LEMMA SecondsAlike ==
  ASSUME NEW calls, NEW later, NEW rows, Timed(calls, rows), \A i \in rows : later[i].seconds = calls[i].seconds
  PROVE  Seconds(later, rows) = Seconds(calls, rows)
<1> DEFINE w == [i \in rows |-> calls[i].seconds]
           v == [i \in rows |-> later[i].seconds]
<1>1. IsFiniteSet(rows) /\ \A i \in rows : w[i] \in Int /\ w[i] = v[i]
  BY DEF Timed
<1> HIDE DEF w, v
<1>2. SumFunctionOnSet(v, rows) = SumFunctionOnSet(w, rows)
  BY <1>1, SumEqual
<1>3. QED BY <1>2 DEF Seconds, w, v

(* Calls that are added are none of those the audit counted.               *)
LEMMA CountedStay ==
  ASSUME AInv, UNCHANGED <<block, stage, audit, verdict>>,
         \A i \in DOMAIN ledger : ledger'[i] = ledger[i]
  PROVE  AffordInv'
<1>1. AuditRows' = AuditRows /\ Cells' = Cells /\ Arms' = Arms
  BY DEF AuditRows, Cells, Arms
<1>2. \A i \in AuditRows : ledger'[i] = ledger[i]
  BY CountedRows DEF AInv
<1>3. StillOpen' = StillOpen /\ \A c : CountedOf(c)' = CountedOf(c)
  BY <1>1, <1>2 DEF StillOpen, CountedOf
<1>4. Seconds(ledger', AuditRows) = Seconds(ledger, AuditRows)
  BY <1>2, CountedRows, SecondsAlike DEF AInv
<1>5. \A c : Seconds(ledger', CountedOf(c)) = Seconds(ledger, CountedOf(c))
  <2> TAKE c
  <2>1. Timed(ledger, CountedOf(c)) /\ \A i \in CountedOf(c) : ledger'[i].seconds = ledger[i].seconds
    BY <1>2, CountedRows DEF AInv, CountedOf
  <2>2. QED BY <2>1, SecondsAlike
<1>6. Covered => Covered'
  BY <1>1, <1>3, <1>4 DEF Covered
<1>7. SettledForGood => SettledForGood'
  BY <1>1, <1>3, <1>5 DEF SettledForGood
<1>8. ScreenFits => ScreenFits'
  BY <1>1 DEF ScreenFits, Dearest, CellsOf
<1>9. QED BY <1>6, <1>7, <1>8 DEF AInv, AffordInv, Audited

(* A call in flight comes to no more than it had reserved.                 *)
LEMMA SettleAffords ==
  ASSUME AInv, Settle
  PROVE  AffordInv'
<1>1. UNCHANGED <<block, stage, audit, verdict>>
  BY DEF Settle
<1>2. PICK k \in DOMAIN ledger :
        /\ ledger[k].state = "SENT"
        /\ \/ ledger' = [ledger EXCEPT ![k].state = "COMMITTED", ![k].tokens = 1, ![k].seconds = 1]
           \/ ledger' = [ledger EXCEPT ![k].state = "FAILED_UNKNOWN", ![k].seconds = Reserve]
  BY DEF Settle
<1>3. ledger[k] \in CallRow /\ Reserve \in Nat \ {0}
  <2>1. ledger \in Seq(CallRow)
    BY DEF AInv, CanaryInv, LedgerOK
  <2>2. QED BY <2>1, ElementOfSeq, LenProperties, CanaryAssumption
<1>4. /\ ledger'[k].state # "SENT" /\ ledger'[k].work = ledger[k].work
      /\ ledger'[k].seconds \in Nat /\ ledger'[k].seconds <= Reserve
      /\ \A i \in DOMAIN ledger : i # k => ledger'[i] = ledger[i]
  <2> DEFINE paid == [ledger[k] EXCEPT !.state = "COMMITTED", !.tokens = 1, !.seconds = 1]
             lost == [ledger[k] EXCEPT !.state = "FAILED_UNKNOWN", !.seconds = Reserve]
  <2>1. /\ paid.state = "COMMITTED" /\ paid.work = ledger[k].work /\ paid.seconds = 1
        /\ lost.state = "FAILED_UNKNOWN" /\ lost.work = ledger[k].work /\ lost.seconds = Reserve
    BY <1>3 DEF CallRow, CallRows
  <2>2. ledger' = [ledger EXCEPT ![k] = paid] \/ ledger' = [ledger EXCEPT ![k] = lost]
    BY <1>2
  <2> HIDE DEF paid, lost
  <2>3. ledger'[k] \in {paid, lost} /\ \A i \in DOMAIN ledger : i # k => ledger'[i] = ledger[i]
    BY <1>2, <2>2
  <2>4. QED BY <1>3, <2>1, <2>3
<1>5. AuditRows' = AuditRows /\ Cells' = Cells /\ Arms' = Arms
  BY <1>1 DEF AuditRows, Cells, Arms
<1>6. /\ AuditRows \subseteq DOMAIN ledger /\ IsFiniteSet(AuditRows) /\ IsFiniteSet(StillOpen)
      /\ Timed(ledger, AuditRows) /\ \A c : Timed(ledger, CountedOf(c))
      /\ Cardinality(StillOpen) \in Nat
  BY CountedRows DEF AInv
<1>7. \A i \in DOMAIN ledger : ledger'[i].work = ledger[i].work
  BY <1>4
<1>8. \A c : CountedOf(c)' = CountedOf(c)
  BY <1>5, <1>6, <1>7 DEF CountedOf
<1>9. StillOpen' = StillOpen \ {k}
  BY <1>2, <1>4, <1>5, <1>6 DEF StillOpen
<1>10. ASSUME Covered
       PROVE  Covered'
  <2>1. CASE k \in AuditRows
    <3>1. k \in StillOpen
      BY <1>2, <2>1 DEF StillOpen
    <3>2. Cardinality(StillOpen)' = Cardinality(StillOpen) - 1
      BY <1>6, <1>9, <3>1, FS_RemoveElement
    <3>3. Seconds(ledger', AuditRows) = Seconds(ledger, AuditRows) + ledger'[k].seconds - ledger[k].seconds
      <4> DEFINE w == [i \in AuditRows |-> ledger[i].seconds]
                 v == [i \in AuditRows |-> ledger'[i].seconds]
      <4>1. \A i \in AuditRows : w[i] \in Int /\ v[i] \in Int
        BY <1>4, <1>6 DEF Timed
      <4>2. \A i \in AuditRows \ {k} : w[i] = v[i]
        BY <1>4, <1>6
      <4>3. w[k] = ledger[k].seconds /\ v[k] = ledger'[k].seconds
        BY <2>1
      <4>4. Seconds(ledger, AuditRows) = SumFunctionOnSet(w, AuditRows)
            /\ Seconds(ledger', AuditRows) = SumFunctionOnSet(v, AuditRows)
        BY DEF Seconds
      <4> HIDE DEF w, v
      <4>5. SumFunctionOnSet(v, AuditRows) = SumFunctionOnSet(w, AuditRows) + v[k] - w[k]
        BY <1>6, <2>1, <4>1, <4>2, SumChange
      <4>6. QED BY <4>3, <4>4, <4>5
    <3>4. Seconds(ledger, AuditRows) \in Nat /\ ledger[k].seconds \in Nat
      BY <1>6, <2>1, AddsUp DEF Timed
    <3>5. Reserve * (Cardinality(StillOpen) - 1) = (Reserve * Cardinality(StillOpen)) - Reserve
      BY <1>3, <1>6
    <3>6. Reserve * Cardinality(StillOpen) \in Int
      BY <1>3, <1>6
    <3>7. Seconds(ledger, AuditRows)' = Seconds(ledger', AuditRows)
      BY <1>5
    <3>8. audit.remaining \in Int /\ GpuCap \in Int /\ audit' = audit
      BY <1>1, <1>10, CanaryAssumption DEF Covered
    <3>9. Seconds(ledger', AuditRows) + (Reserve * (Cardinality(StillOpen) - 1)) <= GpuCap - audit.remaining
      <4>1. Seconds(ledger, AuditRows) + (Reserve * Cardinality(StillOpen)) <= GpuCap - audit.remaining
        BY <1>10 DEF Covered
      <4>2. QED BY <1>3, <1>4, <3>3, <3>4, <3>5, <3>6, <3>8, <4>1
    <3>10. QED BY <3>2, <3>7, <3>8, <3>9 DEF Covered
  <2>2. CASE k \notin AuditRows
    <3>1. StillOpen' = StillOpen
      BY <1>9, <2>2 DEF StillOpen
    <3>2. \A i \in AuditRows : ledger'[i].seconds = ledger[i].seconds
      BY <1>4, <1>6, <2>2
    <3>3. Seconds(ledger', AuditRows) = Seconds(ledger, AuditRows)
      BY <1>6, <3>2, SecondsAlike
    <3>4. QED BY <1>1, <1>5, <1>10, <3>1, <3>3 DEF Covered
  <2>3. QED BY <2>1, <2>2
<1>11. ASSUME SettledForGood
       PROVE  SettledForGood'
  <2>1. SUFFICES ASSUME audit.open = 0, NEW c \in Cells
                 PROVE  /\ audit.settled[c] = Seconds(ledger', CountedOf(c))
                        /\ CountedOf(c) \cap StillOpen' = {}
    BY <1>1, <1>5, <1>8 DEF SettledForGood
  <2>2. audit.settled[c] = Seconds(ledger, CountedOf(c)) /\ CountedOf(c) \cap StillOpen = {}
    BY <1>11, <2>1 DEF SettledForGood
  <2>3. k \notin CountedOf(c)
    BY <1>2, <2>2 DEF CountedOf, StillOpen
  <2>4. CountedOf(c) \subseteq DOMAIN ledger
    BY <1>6 DEF CountedOf
  <2>5. \A i \in CountedOf(c) : ledger'[i].seconds = ledger[i].seconds
    BY <1>4, <2>3, <2>4
  <2>6. Seconds(ledger', CountedOf(c)) = Seconds(ledger, CountedOf(c))
    BY <1>6, <2>5, SecondsAlike
  <2>7. QED BY <1>9, <2>2, <2>6
<1>12. ScreenFits => ScreenFits'
  BY <1>1, <1>5 DEF ScreenFits, Dearest, CellsOf
<1>13. QED BY <1>1, <1>10, <1>11, <1>12 DEF AInv, AffordInv, Audited

(* The audit takes what is open off what is left, and what it says of the  *)
(* cells is what they were settled at.                                     *)
LEMMA AuditAffords ==
  ASSUME AInv, Audit
  PROVE  AffordInv'
<1>1. /\ stage = "next" /\ stage' = "audited"
      /\ UNCHANGED <<block, at, run, outputs, ledger, strays, shown, surprises, verdict>>
  BY DEF Audit
<1>2. /\ audit'.n = Len(ledger) /\ audit'.open = Cardinality(Open(Rows))
      /\ audit'.settled = [c \in Cells |-> SecondsOf({i \in Rows : ledger[i].work = c})]
      /\ audit'.remaining = Headroom
  BY DEF Audit
<1>3. ledger \in Seq(CallRow) /\ DOMAIN ledger = 1..Len(ledger)
  BY LenProperties DEF AInv, CanaryInv, LedgerOK
<1>4. AuditRows' = DOMAIN ledger /\ Cells' = Cells
  BY <1>1, <1>2, <1>3 DEF AuditRows, Cells
<1>5. StillOpen' = Open(DOMAIN ledger)
  BY <1>1, <1>4 DEF StillOpen, Open
<1>6. Timed(ledger, DOMAIN ledger)
  BY CountedRows DEF AInv
<1>7. Covered'
  <2>1. SecondsOf(DOMAIN ledger) = Seconds(ledger, DOMAIN ledger) /\ Seconds(ledger, DOMAIN ledger) \in Nat
    BY <1>6, SecondsSummed
  <2>2. Open(DOMAIN ledger) \subseteq DOMAIN ledger /\ IsFiniteSet(DOMAIN ledger)
    BY <1>6 DEF Open, Timed
  <2>3. Cardinality(Open(DOMAIN ledger)) \in Nat
    BY <2>2, FS_Subset, FS_CardinalityType
  <2>4. Reserve * Cardinality(Open(DOMAIN ledger)) \in Int /\ GpuCap \in Int
    BY <2>3, CanaryAssumption
  <2>5. audit'.remaining = GpuCap - Seconds(ledger, DOMAIN ledger) - (Reserve * Cardinality(Open(DOMAIN ledger)))
    BY <1>2, <2>1 DEF Headroom
  <2>6. Seconds(ledger, AuditRows)' = Seconds(ledger, DOMAIN ledger)
    BY <1>1, <1>4
  <2>7. QED BY <1>5, <2>1, <2>4, <2>5, <2>6 DEF Covered
<1>8. SettledForGood'
  <2>1. SUFFICES ASSUME audit'.open = 0, NEW c \in Cells
                 PROVE  /\ audit'.settled[c] = Seconds(ledger', CountedOf(c)')
                        /\ CountedOf(c)' \cap StillOpen' = {}
    BY <1>4 DEF SettledForGood
  <2>2. {i \in Rows : ledger[i].work = c} = {i \in DOMAIN ledger : ledger[i].work = c}
    BY <2>1 DEF Rows, Wanted
  <2>3. CountedOf(c)' = {i \in DOMAIN ledger : ledger[i].work = c}
    BY <1>1, <1>4 DEF CountedOf
  <2> DEFINE rows == {i \in DOMAIN ledger : ledger[i].work = c}
  <2>4. Timed(ledger, rows)
    BY <1>6, FS_Subset DEF Timed
  <2>5. audit'.settled[c] = SecondsOf(rows)
    BY <1>2, <2>1, <2>2
  <2>6. rows \cap StillOpen' \subseteq Open(Rows)
    BY <1>5, <2>1 DEF Open, Rows, Wanted
  <2>7. Open(Rows) = {}
    <3>1. Open(Rows) \subseteq DOMAIN ledger
      BY DEF Open, Rows
    <3>2. IsFiniteSet(Open(Rows))
      BY <1>6, <3>1, FS_Subset DEF Timed
    <3>3. QED BY <1>2, <2>1, <3>2, FS_EmptySet
  <2> HIDE DEF rows
  <2>8. SecondsOf(rows) = Seconds(ledger, rows)
    BY <2>4, SecondsSummed
  <2>9. QED BY <1>1, <2>3, <2>5, <2>6, <2>7, <2>8 DEF rows
<1>9. verdict' # "pass"
  BY <1>1 DEF AInv, CanaryInv, BlockOK
<1>10. QED BY <1>7, <1>8, <1>9 DEF AffordInv

(* The dearest cell of an arm, and the sum over the arms.                  *)
LEMMA CanaryCells ==
  ASSUME CanaryInv
  PROVE  /\ IsFiniteSet(Cells) /\ IsFiniteSet(Arms)
         /\ \A a : IsFiniteSet(CellsOf(a))
         /\ \A a \in Arms : CellsOf(a) # {} /\ screen[a] \in Nat
<1>1. /\ DOMAIN block = 1..Len(block) /\ Len(block) \in Nat /\ \A c \in Cells : c.arm \in DOMAIN kind
  BY BlockFacts DEF CanaryInv
<1>2. IsFiniteSet(Cells)
  <2>1. IsFiniteSet(1..Len(block))
    BY <1>1, FS_Interval
  <2>2. Cells = {block[i] : i \in 1..Len(block)}
    BY <1>1 DEF Cells, ToSet
  <2>3. QED BY <2>1, <2>2, ImageFinite
<1>3. IsFiniteSet(Arms)
  <2> DEFINE f == [c \in Cells |-> c.arm]
  <2>1. Arms = {f[c] : c \in Cells}
    BY DEF Arms
  <2>2. QED BY <1>2, <2>1, ImageFinite
<1>4. \A a : IsFiniteSet(CellsOf(a))
  <2> TAKE a
  <2>1. CellsOf(a) \subseteq Cells
    BY DEF CellsOf
  <2>2. QED BY <1>2, <2>1, FS_Subset
<1>5. \A a \in Arms : CellsOf(a) # {} /\ screen[a] \in Nat
  BY <1>1, CanaryAssumption DEF Arms, CellsOf
<1>6. QED BY <1>2, <1>3, <1>4, <1>5

LEMMA MaxInteger ==
  ASSUME NEW S, IsFiniteSet(S), S # {}, NEW f, IntegersOn(f, S)
  PROVE  Max({f[x] : x \in S}) \in Int
<1> DEFINE T == {f[x] : x \in S}
<1>1. \E m \in T : \A y \in T : m >= y
  BY GreatestValue
<1>2. T \subseteq Int
  BY DEF IntegersOn
<1>3. Max(T) \in T
  <2> HIDE DEF T
  <2>1. QED BY <1>1 DEF Max
<1>4. QED BY <1>2, <1>3

LEMMA DearestNumbers ==
  ASSUME AInv, Audited, audit.open = 0
  PROVE  /\ \A c \in Cells : audit.settled[c] \in Int
         /\ IntegersOn(Dearest, Arms)
<1>1. \A c \in Cells : audit.settled[c] \in Int
  <2> TAKE c \in Cells
  <2>1. audit.settled[c] = Seconds(ledger, CountedOf(c))
    BY DEF AInv, AffordInv, SettledForGood
  <2>2. Timed(ledger, CountedOf(c))
    BY CountedRows DEF AInv
  <2>3. QED BY <2>1, <2>2, AddsUp
<1>2. ASSUME NEW a \in Arms
      PROVE  Dearest[a] \in Int
  <2>1. IsFiniteSet(CellsOf(a)) /\ CellsOf(a) # {} /\ screen[a] \in Nat
    BY CanaryCells DEF AInv
  <2>2. IntegersOn(audit.settled, CellsOf(a))
    BY <1>1 DEF IntegersOn, CellsOf
  <2> DEFINE m == Max({audit.settled[c] : c \in CellsOf(a)})
  <2>3. m \in Int
    BY <2>1, <2>2, MaxInteger
  <2>4. Dearest[a] = screen[a] * m
    BY DEF Dearest
  <2> HIDE DEF m
  <2>5. QED BY <2>1, <2>3, <2>4
<1>3. QED BY <1>1, <1>2 DEF IntegersOn

(* A pass was given to a screen that fits into what the audit found left.  *)
ForecastAdds(g) ==
  g = [s \in SUBSET Arms |-> IF s = {} THEN 0 ELSE Forecast(Chosen(s)) + g[s \ {Chosen(s)}]]

LEMMA PassFits ==
  ASSUME AInv, Audited, Passes
  PROVE  ScreenFits
<1>1. audit.open = 0 /\ BudgetFeasible
  BY DEF Passes, ReservationsClosed
<1>2. /\ \A c \in Cells : audit.settled[c] = outputs[c].seconds
      /\ MapThenSumSet(Forecast, Arms) <= audit.remaining
  BY <1>1 DEF BudgetFeasible, CellsCommitted, SettledAsMeasured
<1>3. IsFiniteSet(Arms) /\ IntegersOn(Dearest, Arms)
  BY <1>1, CanaryCells, DearestNumbers DEF AInv
<1>4. \A a \in Arms : Dearest[a] = Forecast(a)
  <2> TAKE a \in Arms
  <2>1. {audit.settled[c] : c \in CellsOf(a)} = {outputs[c].seconds : c \in CellsOf(a)}
    BY <1>2 DEF CellsOf
  <2>2. Dearest[a] = screen[a] * Max({audit.settled[c] : c \in CellsOf(a)})
    BY DEF Dearest
  <2>3. Forecast(a) = screen[a] * Max({outputs[c].seconds : c \in CellsOf(a)})
    BY DEF Forecast
  <2>4. QED BY <2>1, <2>2, <2>3
<1> DEFINE P(g) == ForecastAdds(g)
<1>5. \A g : P(g) <=> Partial(g, Dearest, Arms)
  <2>1. \A s \in SUBSET Arms : s # {} => Dearest[Chosen(s)] = Forecast(Chosen(s))
    BY <1>4, ChosenIn
  <2>2. QED BY <2>1 DEF ForecastAdds, Partial
<1>6. MapThenSumSet(Forecast, Arms) = (CHOOSE g : P(g))[Arms]
  BY DEF MapThenSumSet, MapThenFoldSet, ForecastAdds, Chosen
<1>7. \E g : P(g)
  BY <1>3, <1>5, PartialExists
<1> HIDE DEF P
<1>8. P(CHOOSE g : P(g))
  BY <1>7
<1>9. (CHOOSE g : P(g))[Arms] = SumFunctionOnSet(Dearest, Arms)
  BY <1>3, <1>5, <1>8, PartialIsSum
<1>10. QED BY <1>1, <1>2, <1>6, <1>9 DEF ScreenFits

LEMMA VerifyAffords ==
  ASSUME AInv, Verify
  PROVE  AffordInv'
<1>1. /\ stage = "audited" /\ stage' = "over"
      /\ verdict' = IF Passes THEN "pass" ELSE "fail"
      /\ UNCHANGED <<block, ledger, audit>>
  BY DEF Verify
<1>2. Cells' = Cells /\ Arms' = Arms
  BY <1>1 DEF Cells, Arms
<1>3. Covered' /\ SettledForGood'
  <2>1. Covered /\ SettledForGood
    BY <1>1 DEF AInv, AffordInv, Audited
  <2>2. AuditRows' = AuditRows /\ StillOpen' = StillOpen /\ \A c : CountedOf(c)' = CountedOf(c)
    BY <1>1 DEF AuditRows, StillOpen, CountedOf
  <2>3. QED BY <1>1, <1>2, <2>1, <2>2 DEF Covered, SettledForGood
<1>4. Passes => ScreenFits
  BY <1>1, PassFits DEF Audited
<1>5. ScreenFits => ScreenFits'
  BY <1>1, <1>2 DEF ScreenFits, Dearest, CellsOf
<1>6. QED BY <1>1, <1>3, <1>4, <1>5 DEF AffordInv

(* What a pass promised holds of all that its calls were ever settled at.  *)
CostsAdd(g) ==
  g = [s \in SUBSET Arms |->
         IF s = {} THEN 0
         ELSE (screen[Chosen(s)] * Max({TrueCost(c) : c \in CellsOf(Chosen(s))})) + g[s \ {Chosen(s)}]]

LEMMA PassedIsAffordable ==
  ASSUME AInv
  PROVE  ScreenIsAffordable
<1> DEFINE P(g) == CostsAdd(g)
<1> SUFFICES ASSUME verdict = "pass"
             PROVE  (CHOOSE g : P(g))[Arms] <= GpuCap - SecondsOf(1 .. audit.n)
  BY DEF ScreenIsAffordable, MapThenSumSet, MapThenFoldSet, CostsAdd, Chosen
<1>1. Audited /\ ScreenFits /\ audit.open = 0 /\ Covered /\ SettledForGood
  BY DEF AInv, CanaryInv, BlockOK, AffordInv, Audited, ScreenFits
<1>2. IsFiniteSet(Arms) /\ IntegersOn(Dearest, Arms)
  BY <1>1, CanaryCells, DearestNumbers DEF AInv
<1>3. \A c \in Cells : TrueCost(c) = audit.settled[c]
  <2> TAKE c \in Cells
  <2>1. Timed(ledger, CountedOf(c))
    BY CountedRows DEF AInv
  <2>2. SecondsOf(CountedOf(c)) = Seconds(ledger, CountedOf(c))
    BY <2>1, SecondsSummed
  <2>3. TrueCost(c) = SecondsOf(CountedOf(c))
    BY DEF TrueCost, CountedOf, AuditRows
  <2>4. QED BY <1>1, <2>2, <2>3 DEF SettledForGood
<1>4. \A a \in Arms : Dearest[a] = screen[a] * Max({TrueCost(c) : c \in CellsOf(a)})
  <2> TAKE a \in Arms
  <2>1. {audit.settled[c] : c \in CellsOf(a)} = {TrueCost(c) : c \in CellsOf(a)}
    BY <1>3 DEF CellsOf
  <2>2. Dearest[a] = screen[a] * Max({audit.settled[c] : c \in CellsOf(a)})
    BY DEF Dearest
  <2>3. QED BY <2>1, <2>2
<1>5. \A g : P(g) <=> Partial(g, Dearest, Arms)
  <2>1. \A s \in SUBSET Arms : s # {} =>
          Dearest[Chosen(s)] = screen[Chosen(s)] * Max({TrueCost(c) : c \in CellsOf(Chosen(s))})
    BY <1>4, ChosenIn
  <2>2. QED BY <2>1 DEF CostsAdd, Partial
<1>6. \E g : P(g)
  BY <1>2, <1>5, PartialExists
<1> HIDE DEF P
<1>7. P(CHOOSE g : P(g))
  BY <1>6
<1>8. (CHOOSE g : P(g))[Arms] = SumFunctionOnSet(Dearest, Arms)
  BY <1>2, <1>5, <1>7, PartialIsSum
<1>9. SumFunctionOnSet(Dearest, Arms) <= audit.remaining /\ SumFunctionOnSet(Dearest, Arms) \in Int
  BY <1>1, <1>2, SumTyped DEF ScreenFits, IntegersOn
<1>10. audit.remaining <= GpuCap - SecondsOf(1 .. audit.n)
  <2>1. /\ audit.remaining \in Int
        /\ Seconds(ledger, AuditRows) + (Reserve * Cardinality(StillOpen)) <= GpuCap - audit.remaining
    BY <1>1 DEF Covered
  <2>2. Timed(ledger, AuditRows) /\ Cardinality(StillOpen) \in Nat
    BY CountedRows DEF AInv
  <2>3. SecondsOf(AuditRows) = Seconds(ledger, AuditRows) /\ Seconds(ledger, AuditRows) \in Nat
    BY <2>2, SecondsSummed
  <2>4. Reserve * Cardinality(StillOpen) \in Nat /\ GpuCap \in Nat
    BY <2>2, CanaryAssumption
  <2>5. SecondsOf(1 .. audit.n) = SecondsOf(AuditRows)
    BY DEF AuditRows
  <2>6. QED BY <2>1, <2>3, <2>4, <2>5
<1>11. SecondsOf(1 .. audit.n) \in Int /\ audit.remaining \in Int /\ GpuCap \in Int
  <2>1. Timed(ledger, AuditRows)
    BY CountedRows DEF AInv
  <2>2. QED BY <1>1, <2>1, SecondsSummed, CanaryAssumption DEF AuditRows, Covered
<1>12. QED BY <1>8, <1>9, <1>10, <1>11

(* A canary that passes leaves room for the screen: cells that cost what   *)
(* the dearest of their arm did, by all that its calls were ever settled   *)
(* at, fit into what the ledger has left, whatever becomes of the calls    *)
(* still open and of those a failed gather left behind                     *)
(* (_gpu_budget_projection_check, canary_audit).                           *)
THEOREM CanaryLeavesRoomForTheScreen == CanarySpec => []ScreenIsAffordable
<1>1. CanaryInit => AffordInv
  BY DEF CanaryInit, AffordInv, Audited
<1>2. CanaryInv /\ AffordInv /\ [CanaryStep]_canaryVars => AffordInv'
  <2>1. SUFFICES ASSUME AInv, [CanaryStep]_canaryVars
                 PROVE  AffordInv'
    BY DEF AInv
  <2>2. ASSUME stage' \notin {"audited", "over"}, UNCHANGED verdict, verdict = "none"
        PROVE  AffordInv'
    BY <2>2 DEF AffordInv, Audited
  <2>3. stage # "over" => verdict = "none"
    BY <2>1 DEF AInv, CanaryInv, BlockOK
  <2>4. CASE StartCell
    BY <2>2, <2>3, <2>4 DEF StartCell
  <2>5. CASE ReduceBatch
    BY <2>2, <2>3, <2>5 DEF ReduceBatch
  <2>6. CASE PublishBatch
    BY <2>2, <2>3, <2>6 DEF PublishBatch
  <2>7. CASE GraphFails
    BY <2>2, <2>3, <2>7 DEF GraphFails
  <2>8. CASE CloseCell
    BY <2>2, <2>3, <2>8 DEF CloseCell
  <2>9. CASE CommitCell
    BY <2>2, <2>3, <2>9 DEF CommitCell
  <2>10. CASE StrayCalls
    <3>1. PICK s \in strays : ledger' = Append(ledger, Call(s.work, s.op, "SENT", 0, 0))
      BY <2>10 DEF StrayCalls
    <3>2. ledger \in Seq(CallRow)
      BY <2>1 DEF AInv, CanaryInv, LedgerOK
    <3>3. \A i \in DOMAIN ledger : ledger'[i] = ledger[i]
      BY <3>1, <3>2, AppendProperties, LenProperties
    <3>4. QED BY <2>1, <2>10, <3>3, CountedStay DEF StrayCalls
  <2>11. CASE Settle
    BY <2>1, <2>11, SettleAffords
  <2>12. CASE Audit
    BY <2>1, <2>12, AuditAffords
  <2>13. CASE Verify
    BY <2>1, <2>13, VerifyAffords
  <2>14. CASE UNCHANGED canaryVars
    <3>1. UNCHANGED <<block, stage, audit, verdict>> /\ \A i \in DOMAIN ledger : ledger'[i] = ledger[i]
      BY <2>14 DEF canaryVars
    <3>2. QED BY <2>1, <3>1, CountedStay
  <2>15. QED BY <2>1, <2>4, <2>5, <2>6, <2>7, <2>8, <2>9, <2>10, <2>11, <2>12, <2>13, <2>14 DEF CanaryStep
<1>3. CanaryInv /\ AffordInv => ScreenIsAffordable
  BY PassedIsAffordable DEF AInv
<1>4. QED BY <1>1, <1>2, <1>3, CanaryRuns, PTL DEF CanarySpec

-----------------------------------------------------------------------------
(* The retrieval service.                                                  *)

Worlds     == {h \in Hosts : Gates(h)}
Identities == {Identity(h) : h \in Worlds}
CacheEntry == [query : Queries \cup {None}, vector : {None, "unit"}]
ThreadPC   == {"free", "accepted", "missed", "encoding", "storing", "storing_hit",
               "answer_200", "answer_500"}

Server == [host : Worlds \cup {None}, cache : Seq(CacheEntry), lock : Threads \cup {None},
           searches : Nat, encodes : Nat, errors : Nat]
Thread == [pc : ThreadPC, query : Queries \cup {None}, client : Clients \cup {None},
           vector : {None, "unit"}]
Client == [pc : {"idle", "waiting"}, verified : Identities \cup {None}, asked : Nat,
           trace : SUBSET Worlds]

(* The process serves a host that passed every gate, or is down; what a    *)
(* client verified is the identity of such a host.                         *)
RetrievalTypeOK ==
  /\ server \in Server
  /\ threads \in [Threads -> Thread]
  /\ clients \in [Clients -> Client]
  /\ starts \in Nat

\* a thread that is at work has a process, and works for a client that verified
BusyIsServed ==
  \A t \in Threads :
    /\ threads[t].pc # "free" => server.host # None
    /\ threads[t].client # None => clients[threads[t].client].verified # None

\* what a client verified met its pins
VerifiedIsPinned ==
  \A c \in Clients : clients[c].verified # None =>
    \E h \in Worlds : Acceptable(c, h) /\ clients[c].verified = Identity(h)

\* every traced row came from the retriever the client verified
TraceIsVerified ==
  \A c \in Clients : \A h \in clients[c].trace : 
    clients[c].verified # None /\ Identity(h) = clients[c].verified

RInv == RetrievalTypeOK /\ BusyIsServed /\ VerifiedIsPinned /\ TraceIsVerified

(* Storing a vector keeps the cache a sequence of entries, whether the     *)
(* query was there, was added, or drove the oldest entry out (service.py   *)
(* CachedEncoder).                                                         *)
LEMMA InsertedIsACache ==
  ASSUME NEW cache \in Seq(CacheEntry),
         NEW q \in Queries \cup {None}, NEW v \in {None, "unit"}
  PROVE  Inserted(cache, q, v) \in Seq(CacheEntry)
<1> DEFINE e == [query |-> q, vector |-> v]
           longer == Append(cache, e)
<1>1. e \in CacheEntry
  BY DEF CacheEntry
<1>2. longer \in Seq(CacheEntry) /\ Len(longer) = Len(cache) + 1
  BY <1>1, AppendProperties
<1>3. Len(longer) > CacheCapacity => Tail(longer) \in Seq(CacheEntry)
  <2>1. longer # <<>>
    BY <1>2, EmptySeq, LenProperties
  <2>2. QED
    BY <1>2, <2>1, HeadTailProperties
<1>4. [i \in DOMAIN cache |-> IF cache[i].query = q THEN e ELSE cache[i]] \in Seq(CacheEntry)
  <2>1. DOMAIN cache = 1..Len(cache) /\ Len(cache) \in Nat
    BY LenProperties
  <2>2. \A i \in 1..Len(cache) : cache[i] \in CacheEntry
    BY ElementOfSeq
  <2>3. QED
    BY <1>1, <2>1, <2>2, IsASeq
<1>5. QED
  BY <1>2, <1>3, <1>4 DEF Inserted

LEMMA RetrievalInitHolds == RetrievalInit => RInv
<1> SUFFICES ASSUME RetrievalInit PROVE RInv
  OBVIOUS
<1>1. Down \in Server
  BY EmptySeq DEF Down, Server
<1>2. Free \in Thread
  BY DEF Free, Thread, ThreadPC
<1>3. [pc |-> "idle", verified |-> None, asked |-> 0, trace |-> {}] \in Client
  BY DEF Client
<1>4. RetrievalTypeOK
  BY <1>1, <1>2, <1>3 DEF RetrievalInit, RetrievalTypeOK
<1>5. QED
  BY <1>4 DEF RetrievalInit, RInv, BusyIsServed, VerifiedIsPinned, TraceIsVerified, Down, Free

(* A start, which every gate of build_service guards.                      *)
LEMMA StartStep ==
  ASSUME RInv, NEW h \in Hosts, StartService(h)
  PROVE  RInv'
<1>1. h \in Worlds
  BY DEF StartService, Worlds
<1>2. server' \in Server /\ server'.host = h
  BY <1>1, EmptySeq DEF StartService, Down, Server
<1>3. UNCHANGED <<threads, clients>> /\ starts' = starts + 1
  BY DEF StartService
<1>4. RetrievalTypeOK'
  BY <1>2, <1>3 DEF RetrievalTypeOK, RInv
<1>5. \A t \in Threads : threads[t].pc = "free"
  BY DEF RInv, BusyIsServed, StartService
<1>6. QED
  BY <1>3, <1>4, <1>5 DEF RInv, BusyIsServed, VerifiedIsPinned, TraceIsVerified

(* A stop, which takes the threads with it and leaves every client idle.   *)
LEMMA StopStep ==
  ASSUME RInv, StopService
  PROVE  RInv'
<1>1. server' \in Server
  BY EmptySeq DEF StopService, Down, Server
<1>2. /\ threads' \in [Threads -> Thread]
      /\ \A t \in Threads : threads'[t].pc = "free" /\ threads'[t].client = None
  BY DEF StopService, Free, Thread, ThreadPC
<1>3. ASSUME NEW c \in Clients
      PROVE  /\ clients'[c] \in Client
             /\ clients'[c].verified = clients[c].verified
             /\ clients'[c].trace = clients[c].trace
  <2>1. clients[c] \in Client /\ clients'[c] = [clients[c] EXCEPT !.pc = "idle"]
    BY DEF StopService, RInv, RetrievalTypeOK
  <2>2. QED
    BY <2>1 DEF Client
<1>4. clients' \in [Clients -> Client]
  <2>1. clients' = [c \in Clients |-> clients'[c]]
    BY DEF StopService
  <2>2. QED
    BY <1>3, <2>1
<1>5. RetrievalTypeOK'
  BY <1>1, <1>2, <1>4 DEF RetrievalTypeOK, RInv, StopService
<1>6. QED
  BY <1>2, <1>3, <1>5 DEF RInv, BusyIsServed, VerifiedIsPinned, TraceIsVerified

(* The steps of a handler thread up to its answer leave the host and the   *)
(* clients alone, and a thread at work stays with its client.              *)
LEMMA ServeStep ==
  ASSUME RInv, NEW t \in Threads, Search(t) \/ LockEncode(t) \/ Encoded(t) \/ StoreAndRank(t)
  PROVE  RInv'
<1> DEFINE th == threads[t]
<1>1. th \in Thread /\ server \in Server
  BY DEF RInv, RetrievalTypeOK
<1>2. \A q : Cached(q) => Entry(q).vector \in {None, "unit"}
  <2>1. server.cache \in Seq(CacheEntry)
    BY <1>1 DEF Server
  <2>2. \A i \in DOMAIN server.cache : server.cache[i] \in CacheEntry
    BY <2>1, LenProperties, ElementOfSeq
  <2>3. QED
    BY <2>2 DEF Cached, Entry, CacheEntry
<1>3. \E p \in ThreadPC \ {"free"}, v \in {None, "unit"} :
        threads' = [threads EXCEPT ![t] = [th EXCEPT !.pc = p, !.vector = v]]
  <2>1. PICK p \in ThreadPC \ {"free"} :
          \/ threads' = [threads EXCEPT ![t].pc = p]
          \/ \E v \in {None, "unit"} : threads' = [threads EXCEPT ![t].pc = p, ![t].vector = v]
    BY <1>2 DEF Search, LockEncode, Encoded, StoreAndRank, GoOn, ThreadPC
  <2>2. CASE threads' = [threads EXCEPT ![t].pc = p]
    <3>1. th.vector \in {None, "unit"} /\ [th EXCEPT !.pc = p] = [th EXCEPT !.pc = p, !.vector = th.vector]
      BY <1>1 DEF Thread
    <3>2. threads' = [threads EXCEPT ![t] = [th EXCEPT !.pc = p, !.vector = th.vector]]
      BY <2>2, <3>1
    <3>3. QED
      BY <3>1, <3>2
  <2>3. CASE \E v \in {None, "unit"} : threads' = [threads EXCEPT ![t].pc = p, ![t].vector = v]
    <3>1. PICK v \in {None, "unit"} : threads' = [threads EXCEPT ![t].pc = p, ![t].vector = v]
      BY <2>3
    <3>2. threads' = [threads EXCEPT ![t] = [th EXCEPT !.pc = p, !.vector = v]]
      BY <3>1 DEF RInv, RetrievalTypeOK
    <3>3. QED
      BY <3>2
  <2>4. QED
    BY <2>1, <2>2, <2>3
<1>4. server' \in Server /\ server'.host = server.host
  <2>1. ASSUME NEW kept \in Seq(CacheEntry), NEW errs \in Nat,
               server' = [server EXCEPT !.cache = kept, !.errors = errs]
        PROVE  server' \in Server /\ server'.host = server.host
    BY <1>1, <2>1 DEF Server
  <2>2. CASE StoreAndRank(t)
    <3>1. Inserted(server.cache, th.query, th.vector) \in Seq(CacheEntry)
      BY <1>1, InsertedIsACache DEF Server, Thread
    <3>2. PICK kept \in Seq(CacheEntry), errs \in Nat :
            server' = [server EXCEPT !.cache = kept, !.errors = errs]
      <4> DEFINE kept0 == IF PcIs(t, "storing") THEN Inserted(server.cache, th.query, th.vector)
                                              ELSE server.cache
                 ranked == th.vector = "unit" /\ server.host.index.docs \subseteq server.host.corpus.docs
                 errs0  == IF ranked THEN server.errors ELSE server.errors + 1
      <4>1. server' = [server EXCEPT !.cache = kept0, !.errors = errs0]
        BY <1>1, <2>2 DEF StoreAndRank, Server
      <4>2. kept0 \in Seq(CacheEntry) /\ errs0 \in Nat
        BY <1>1, <3>1 DEF Server
      <4> HIDE DEF kept0, errs0
      <4>3. QED
        BY <4>1, <4>2
    <3>3. QED
      BY <2>1, <3>2
  <2>3. CASE Search(t)
    <3>1. server' = [server EXCEPT !.searches = @ + 1]
      BY <2>3 DEF Search
    <3>2. QED
      BY <1>1, <3>1 DEF Server
  <2>4. CASE LockEncode(t) \/ Encoded(t)
    <3>1. ASSUME NEW l \in Threads \cup {None}, NEW n \in Nat, NEW e \in Nat,
                 server' = [server EXCEPT !.lock = l, !.encodes = n, !.errors = e]
          PROVE  server' \in Server /\ server'.host = server.host
      BY <1>1, <3>1 DEF Server
    <3>2. server.encodes \in Nat /\ server.errors \in Nat /\ server.lock \in Threads \cup {None}
      BY <1>1 DEF Server
    <3>3. \E l \in Threads \cup {None}, n \in Nat, e \in Nat :
            server' = [server EXCEPT !.lock = l, !.encodes = n, !.errors = e]
      <4> DEFINE upd(l, n, e) == [server EXCEPT !.lock = l, !.encodes = n, !.errors = e]
      <4>1. \/ server' = server
            \/ server' = [server EXCEPT !.lock = t, !.encodes = server.encodes + 1]
            \/ server' = [server EXCEPT !.lock = None]
            \/ server' = [server EXCEPT !.lock = None, !.errors = server.errors + 1]
        BY <2>4 DEF LockEncode, Encoded, Counted
      <4>2. /\ server = upd(server.lock, server.encodes, server.errors)
            /\ [server EXCEPT !.lock = t, !.encodes = server.encodes + 1]
                 = upd(t, server.encodes + 1, server.errors)
            /\ [server EXCEPT !.lock = None] = upd(None, server.encodes, server.errors)
            /\ [server EXCEPT !.lock = None, !.errors = server.errors + 1]
                 = upd(None, server.encodes, server.errors + 1)
        BY <1>1 DEF Server
      <4> HIDE DEF upd
      <4>3. server.encodes + 1 \in Nat /\ server.errors + 1 \in Nat
        BY <3>2
      <4>4. \E l \in Threads \cup {None}, n \in Nat, e \in Nat : server' = upd(l, n, e)
        BY <3>2, <4>1, <4>2, <4>3
      <4>5. QED
        BY <4>4 DEF upd
    <3>4. QED
      BY <3>1, <3>3
  <2>5. QED
    BY <2>2, <2>3, <2>4
<1>5. UNCHANGED <<clients, starts>> /\ th.pc # "free"
  BY DEF Search, LockEncode, Encoded, StoreAndRank, PcIs
<1>6. /\ threads' \in [Threads -> Thread]
      /\ \A u \in Threads : /\ threads'[u].client = threads[u].client
                            /\ threads'[u].pc # "free" => threads[u].pc # "free"
  <2>1. PICK p \in ThreadPC \ {"free"}, v \in {None, "unit"} :
          threads' = [threads EXCEPT ![t] = [th EXCEPT !.pc = p, !.vector = v]]
    BY <1>3
  <2>2. [th EXCEPT !.pc = p, !.vector = v] \in Thread /\ [th EXCEPT !.pc = p, !.vector = v].client = th.client
    BY <1>1 DEF Thread
  <2>3. QED
    BY <1>5, <2>1, <2>2 DEF RInv, RetrievalTypeOK
<1>7. RetrievalTypeOK'
  BY <1>4, <1>5, <1>6 DEF RInv, RetrievalTypeOK
<1>8. QED
  BY <1>4, <1>5, <1>6, <1>7 DEF RInv, BusyIsServed, VerifiedIsPinned, TraceIsVerified

(* The answer is traced only if it names the retriever the client verified *)
(* (client.py search_rows).                                                *)
LEMMA AnswerStep ==
  ASSUME RInv, NEW t \in Threads, Answer(t)
  PROVE  RInv'
<1> DEFINE c  == threads[t].client
           ok == PcIs(t, "answer_200") /\ SameRetriever(c, Identity(server.host))
<1>1. server.host \in Worlds
  BY DEF RInv, RetrievalTypeOK, BusyIsServed, Answer, Server
<1>2. threads' = [threads EXCEPT ![t] = Free] /\ UNCHANGED <<server, starts>>
  BY DEF Answer
<1>3. threads' \in [Threads -> Thread]
  BY <1>2 DEF RInv, RetrievalTypeOK, Free, Thread, ThreadPC
<1>4. /\ clients' \in [Clients -> Client]
      /\ \A d \in Clients : /\ clients'[d].verified = clients[d].verified
                            /\ \A h \in clients'[d].trace :
                                 h \in clients[d].trace \/ (d = c /\ c # None /\ ok /\ h = server.host)
  <2>1. CASE c = None
    BY <2>1 DEF Answer, RInv, RetrievalTypeOK
  <2>2. CASE c # None
    <3>1. c \in Clients /\ clients[c] \in Client
      BY <2>2 DEF RInv, RetrievalTypeOK, Thread
    <3> DEFINE more == IF ok THEN clients[c].trace \cup {server.host} ELSE clients[c].trace
               d0   == [clients[c] EXCEPT !.pc = "idle", !.trace = more]
    <3>2. clients' = [clients EXCEPT ![c] = d0]
      BY <2>2, <3>1 DEF Answer, RInv, RetrievalTypeOK
    <3>3. d0 \in Client /\ d0.verified = clients[c].verified /\ d0.trace = more
      BY <1>1, <3>1 DEF Client
    <3> HIDE DEF d0
    <3>4. QED
      BY <2>2, <3>1, <3>2, <3>3 DEF RInv, RetrievalTypeOK
  <2>3. QED
    BY <2>1, <2>2
<1>5. RetrievalTypeOK'
  BY <1>2, <1>3, <1>4 DEF RInv, RetrievalTypeOK
<1>6. BusyIsServed'
  <2>1. \A u \in Threads : \/ threads'[u] = threads[u]
                           \/ threads'[u].pc = "free" /\ threads'[u].client = None
    BY <1>2 DEF RInv, RetrievalTypeOK, Free
  <2>2. QED
    BY <1>2, <1>4, <1>3, <2>1 DEF RInv, BusyIsServed, RetrievalTypeOK, Thread
<1>7. VerifiedIsPinned'
  BY <1>4 DEF RInv, VerifiedIsPinned
<1>8. TraceIsVerified'
  BY <1>4 DEF RInv, TraceIsVerified, BusyIsServed, SameRetriever
<1>9. QED
  BY <1>5, <1>6, <1>7, <1>8 DEF RInv

(* verify() pins a client once, to a host that meets its pins.             *)
LEMMA VerifyStep ==
  ASSUME RInv, NEW c \in Clients, VerifyService(c)
  PROVE  RInv'
<1> DEFINE fine == server.host # None /\ Acceptable(c, server.host)
           d0   == IF fine THEN [clients[c] EXCEPT !.verified = Identity(server.host)]
                           ELSE [clients[c] EXCEPT !.asked = @ + 1]
<1>1. clients[c] \in Client /\ clients[c].verified = None /\ UNCHANGED <<server, threads, starts>>
  BY DEF RInv, RetrievalTypeOK, VerifyService
<1>2. clients' = [clients EXCEPT ![c] = d0]
  BY DEF RInv, RetrievalTypeOK, VerifyService
<1>3. fine => server.host \in Worlds /\ Identity(server.host) \in Identities
  BY DEF RInv, RetrievalTypeOK, Server, Identities
<1>4. /\ d0 \in Client /\ d0.trace = clients[c].trace
      /\ d0.verified = IF fine THEN Identity(server.host) ELSE None
  BY <1>1, <1>3 DEF Client
<1> HIDE DEF d0
<1>5. /\ clients' \in [Clients -> Client]
      /\ \A d \in Clients : d # c => clients'[d] = clients[d]
      /\ clients'[c] = d0
  BY <1>2, <1>4 DEF RInv, RetrievalTypeOK
<1>6. RetrievalTypeOK'
  BY <1>1, <1>5 DEF RInv, RetrievalTypeOK
<1>7. BusyIsServed'
  BY <1>1, <1>5 DEF RInv, BusyIsServed, RetrievalTypeOK, Thread
<1>8. VerifiedIsPinned'
  BY <1>3, <1>4, <1>5 DEF RInv, VerifiedIsPinned
<1>9. TraceIsVerified'
  BY <1>1, <1>4, <1>5 DEF RInv, TraceIsVerified
<1>10. QED
  BY <1>6, <1>7, <1>8, <1>9 DEF RInv

(* A search that is sent, refused or given up changes nothing a client     *)
(* verified or traced, and only a client that verified sends one.          *)
LEMMA AskStep ==
  ASSUME RInv, NEW c \in Clients, SendSearch(c) \/ Timeout(c)
  PROVE  RInv'
<1>1. clients[c] \in Client /\ clients \in [Clients -> Client]
  BY DEF RInv, RetrievalTypeOK
<1>2. /\ clients' \in [Clients -> Client]
      /\ \A d \in Clients : /\ clients'[d].verified = clients[d].verified
                            /\ clients'[d].trace = clients[d].trace
  <2>1. PICK d0 \in { [clients[c] EXCEPT !.asked = clients[c].asked + 1], [clients[c] EXCEPT !.pc = "idle"],
                      [clients[c] EXCEPT !.pc = "waiting", !.asked = clients[c].asked + 1] } :
          clients' = [clients EXCEPT ![c] = d0]
    <3>1. CASE Timeout(c)
      BY <3>1 DEF Timeout
    <3>2. CASE SendSearch(c)
      <4>1. \/ clients' = [clients EXCEPT ![c].asked = @ + 1]
            \/ clients' = [clients EXCEPT ![c].pc = "waiting", ![c].asked = @ + 1]
        BY <3>2 DEF SendSearch
      <4>2. CASE clients' = [clients EXCEPT ![c].asked = @ + 1]
        BY <4>2
      <4>3. CASE clients' = [clients EXCEPT ![c].pc = "waiting", ![c].asked = @ + 1]
        <5>1. clients' = [clients EXCEPT ![c] = [clients[c] EXCEPT !.pc = "waiting",
                                                                   !.asked = clients[c].asked + 1]]
          BY <1>1, <4>3 DEF Client
        <5>2. QED
          BY <5>1
      <4>4. QED
        BY <4>1, <4>2, <4>3
    <3>3. QED
      BY <3>1, <3>2
  <2>2. d0 \in Client /\ d0.verified = clients[c].verified /\ d0.trace = clients[c].trace
    <3>1. CASE d0 = [clients[c] EXCEPT !.asked = clients[c].asked + 1]
      BY <1>1, <3>1 DEF Client
    <3>2. CASE d0 = [clients[c] EXCEPT !.pc = "idle"]
      BY <1>1, <3>2 DEF Client
    <3>3. CASE d0 = [clients[c] EXCEPT !.pc = "waiting", !.asked = clients[c].asked + 1]
      <4>1. PICK n \in Nat : n = clients[c].asked + 1
        BY <1>1 DEF Client
      <4>2. d0 = [clients[c] EXCEPT !.pc = "waiting", !.asked = n]
        BY <3>3, <4>1
      <4>3. QED
        BY <1>1, <4>2 DEF Client
    <3>4. QED
      BY <2>1, <3>1, <3>2, <3>3
  <2>3. QED
    BY <1>1, <2>1, <2>2
<1>3. ASSUME NEW t \in Threads
      PROVE  /\ threads'[t] \in Thread
             /\ threads'[t].pc # "free" => server.host # None
             /\ threads'[t].client # None => \/ threads'[t].client = threads[t].client
                                             \/ threads'[t].client = c /\ clients[c].verified # None
  <2>1. threads[t] \in Thread
    BY DEF RInv, RetrievalTypeOK
  <2>2. CASE Timeout(c)
    <3>1. threads'[t] = IF threads[t].client = c THEN [threads[t] EXCEPT !.client = None] ELSE threads[t]
      BY <2>2 DEF Timeout
    <3>2. QED
      BY <2>1, <3>1 DEF RInv, BusyIsServed, Thread
  <2>3. CASE SendSearch(c)
    <3>1. clients[c].verified # None
      BY <2>3 DEF SendSearch
    <3>2. \/ threads' = threads
          \/ /\ server.host # None
             /\ \E u \in Threads, q \in Queries :
                  threads' = [threads EXCEPT ![u] = [Free EXCEPT !.pc = "accepted", !.query = q, !.client = c]]
      BY <2>3 DEF SendSearch
    <3>3. ASSUME NEW q \in Queries
          PROVE  LET f == [Free EXCEPT !.pc = "accepted", !.query = q, !.client = c]
                 IN f \in Thread /\ f.client = c
      BY DEF Free, Thread, ThreadPC
    <3>4. QED
      BY <2>1, <3>1, <3>2, <3>3 DEF RInv, RetrievalTypeOK, BusyIsServed
  <2>4. QED
    BY <2>2, <2>3
<1>4. threads' \in [Threads -> Thread]
  <2>1. threads' = [t \in Threads |-> threads'[t]]
    BY DEF SendSearch, Timeout, RInv, RetrievalTypeOK
  <2>2. QED
    BY <1>3, <2>1
<1>5. UNCHANGED <<server, starts>>
  BY DEF SendSearch, Timeout
<1>6. RetrievalTypeOK'
  BY <1>2, <1>4, <1>5 DEF RInv, RetrievalTypeOK
<1>7. BusyIsServed'
  BY <1>2, <1>3, <1>5 DEF RInv, BusyIsServed, RetrievalTypeOK, Thread
<1>8. QED
  BY <1>2, <1>6, <1>7 DEF RInv, VerifiedIsPinned, TraceIsVerified

(* What the service serves passed the gates, what a client verified is     *)
(* such a host's identity, and its trace is of that identity, in every     *)
(* reachable state: the invariant OneWorld rests on.                       *)
THEOREM ServedWorldsPassedTheGates == RetrievalSpec => []RInv
<1>1. RInv /\ [RetrievalNext]_retrievalVars => RInv'
  <2> SUFFICES ASSUME RInv, [RetrievalNext]_retrievalVars PROVE RInv'
    OBVIOUS
  <2>1. CASE UNCHANGED retrievalVars
    BY <2>1 DEF retrievalVars, RInv, RetrievalTypeOK, BusyIsServed, VerifiedIsPinned, TraceIsVerified
  <2>2. CASE \E h \in Hosts : StartService(h)
    BY <2>2, StartStep
  <2>3. CASE StopService
    BY <2>3, StopStep
  <2>4. CASE \E t \in Threads : Serve(t)
    BY <2>4, ServeStep, AnswerStep DEF Serve
  <2>5. CASE \E c \in Clients : VerifyService(c) \/ SendSearch(c) \/ Timeout(c)
    BY <2>5, VerifyStep, AskStep
  <2>6. QED
    BY <2>1, <2>2, <2>3, <2>4, <2>5 DEF RetrievalNext
<1>2. QED
  BY RetrievalInitHolds, <1>1, PTL DEF RetrievalSpec

(* Everything a client's trace holds came from one retriever, one that     *)
(* passed the gates and that met the client's pins, through restarts of    *)
(* the service over other files.                                           *)
THEOREM TracesAreOfOneWorld == RetrievalSpec => []OneWorld
<1>1. RInv => OneWorld
  <2> SUFFICES ASSUME RInv PROVE OneWorld
    OBVIOUS
  <2>1. SUFFICES ASSUME NEW c \in Clients, NEW h \in clients[c].trace
                 PROVE  /\ Identity(h) = clients[c].verified
                        /\ Acceptable(c, h)
                        /\ h.report.sound /\ h.report.index = h.index.id
                        /\ h.index.docs \subseteq h.corpus.docs
    BY DEF OneWorld
  <2>2. clients[c].verified # None /\ Identity(h) = clients[c].verified
    BY DEF RInv, TraceIsVerified
  <2>3. PICK g \in Worlds : Acceptable(c, g) /\ Identity(h) = Identity(g)
    BY <2>2 DEF RInv, VerifiedIsPinned
  <2>4. h.freeze = g.freeze
    BY <2>3 DEF Identity
  <2>5. h \in Worlds
    BY DEF RInv, RetrievalTypeOK, Client
  <2>6. QED
    BY <2>2, <2>3, <2>4, <2>5 DEF Acceptable, Worlds, Gates, ReportLicenses, Crosscheck
<1>2. QED
  BY <1>1, ServedWorldsPassedTheGates, PTL
=============================================================================
