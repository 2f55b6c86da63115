----------------------------- MODULE BrokerTick -----------------------------
(***************************************************************************)
(* One broker tick after another: broker/driver.py run_tick over the host  *)
(* of broker/hosts/simulated.py, with the reference policy of              *)
(* broker/reference.py or any policy at all. The host calls of a tick are  *)
(* separate steps; work is submitted at any of them, without end, and the  *)
(* engine is restarted between ticks.                                      *)
(***************************************************************************)
EXTENDS Integers, FiniteSets, Sequences, SequencesExt

CONSTANTS Items,        \* items by shape and rank of their id: one of each at a time
          WithP1,       \* the items whose offer has a P1 plan
          pages,        \* pages[i]: the requests of i's P0 plan
          weight,       \* weight[i][form]: plan_weight of i's plans
          Capacity,     \* capacity_tokens
          MaxRetries,   \* run_tick's max_retries
          MaxNamed,     \* bound: how often one decision names an item
          MaxTick,      \* ticks from here on are not told apart
          MaxRestarts   \* bound: engine restarts

ASSUME BrokerAssumption ==
  /\ Items \subseteq Nat /\ WithP1 \subseteq Items
  /\ pages \in [Items -> Nat \ {0}]
  /\ weight \in [Items -> [{"P0", "P1"} -> Nat]]
  /\ Capacity \in Nat /\ MaxRetries \in Nat /\ MaxTick \in Nat \ {0}
  /\ MaxNamed \in Nat \ {0}
  /\ MaxRestarts \in Nat

Form == {"P0", "P1"}
Forms(i) == IF i \in WithP1 THEN Form ELSE {"P0"}

VARIABLES reference,   \* the policy is GreedyJointBroker, or any (never changes)
          offers,      \* host: pending work
          engineTick,  \* host: the tick counter of this engine
          staleAt,     \* host: the ticks that report stale
          dispatched,  \* host: requests started, by item and form
          tick,        \* the control state of run_tick
          restarts
vars == <<reference, offers, engineTick, staleAt, dispatched, tick, restarts>>
host == <<reference, offers, engineTick, staleAt, dispatched, restarts>>

\* a decision: the form of each admitted item, and how often the tuple
\* `admitted` names it, which nothing limits to one
Decisions ==
  UNION {[form : [admitted -> Form], named : [admitted -> 1..MaxNamed]] : admitted \in SUBSET Items}
Once(form) == [form |-> form, named |-> [i \in DOMAIN form |-> 1]]
Nothing == Once([i \in {} |-> "P0"])

PC == {"idle", "pending", "snapshot", "decide", "materialize", "degrade", "commit"}
Tick == [pc : PC, seen : SUBSET Items, snapshot : 0..MaxTick, decision : Decisions,
         attempts : 0..MaxRetries + 1, retries : 0..MaxRetries + 1]
Idle == [pc |-> "idle", seen |-> {}, snapshot |-> 0, decision |-> Nothing,
         attempts |-> 0, retries |-> 0]

TypeOK ==
  /\ offers \subseteq Items
  /\ engineTick \in 0..MaxTick
  /\ staleAt \subseteq 1..MaxTick - 1
  /\ dispatched \in [Items -> [Form -> Nat]]
  /\ tick \in Tick
  /\ restarts \in 0..MaxRestarts
  /\ reference \in BOOLEAN

Init ==
  /\ offers = {} /\ engineTick = 0 /\ staleAt \in SUBSET (1..MaxTick - 1)
  /\ dispatched = [i \in Items |-> [f \in Form |-> 0]]
  /\ tick = Idle
  /\ restarts = 0
  /\ reference \in BOOLEAN

-----------------------------------------------------------------------------
(* GreedyJointBroker: the cheapest (item, form) first, ties by item, form  *)
Candidates(seen) == {c \in seen \X Form : c[2] \in Forms(c[1])}
Weight(c) == weight[c[1]][c[2]]
Before(c, d) ==
  \/ Weight(c) < Weight(d)
  \/ Weight(c) = Weight(d) /\ (c[1] < d[1] \/ (c[1] = d[1] /\ c[2] = "P0" /\ d[2] = "P1"))

Fits(used, c) == used + Weight(c) <= Capacity

Admit(r, c) ==
  IF c[1] \in DOMAIN r.form \/ ~Fits(r.used, c) THEN r
  ELSE [used |-> r.used + Weight(c),
        form |-> [i \in DOMAIN r.form \cup {c[1]} |-> IF i = c[1] THEN c[2] ELSE r.form[i]]]

GreedyJoint(seen) ==
  Once(FoldLeft(Admit, [used |-> 0, form |-> Nothing.form],
                SetToSortSeq(Candidates(seen), Before)).form)

\* Mutant: the fail-closed decision defers what has an alternative
P0OnlyOfSome(seen) == Once([i \in seen \ WithP1 |-> "P0"])

\* everything offered, all of it as P0
P0Only(seen) == Once([i \in seen |-> "P0"])

Answerable(decision, seen) ==
  /\ DOMAIN decision.form \subseteq seen
  /\ \A i \in DOMAIN decision.form : decision.form[i] \in Forms(i)

-----------------------------------------------------------------------------
At(pc)   == tick.pc = pc
Goto(pc) == tick' = [tick EXCEPT !.pc = pc]

StartTick ==
  /\ At("idle")
  /\ Goto("pending") /\ UNCHANGED host

\* list(host.pending()); a tick over nothing ends
ReadOffers ==
  /\ At("pending")
  /\ tick' = IF offers = {} THEN Idle ELSE [tick EXCEPT !.pc = "snapshot", !.seen = offers]
  /\ UNCHANGED host

NextTick == IF engineTick < MaxTick THEN engineTick + 1 ELSE MaxTick
TakeSnapshot(from, to) ==
  /\ At(from)
  /\ engineTick' = NextTick
  /\ tick' = [tick EXCEPT !.pc = to, !.snapshot = NextTick]
  /\ UNCHANGED <<reference, offers, staleAt, dispatched, restarts>>

\* the decision, within its budget or discarded for P0; one that is not
\* answerable raises out of the tick
Decide ==
  /\ At("decide")
  /\ \/ tick' = [tick EXCEPT !.pc = "materialize", !.attempts = @ + 1,
                             !.decision = P0Only(tick.seen)]
     \/ \E d \in IF reference THEN {GreedyJoint(tick.seen)} ELSE Decisions :
          tick' = IF Answerable(d, tick.seen)
                  THEN [tick EXCEPT !.pc = "materialize", !.attempts = @ + 1, !.decision = d]
                  ELSE Idle
  /\ UNCHANGED host

Requests(i, f) == IF f = "P0" THEN pages[i] ELSE 1

\* SimulatedHost.materialize: the requests of an item once for each time it is named
Materialized ==
  LET admitted == DOMAIN tick.decision.form
      chosen(i) == tick.decision.form[i]
  IN
    /\ tick.snapshot \notin staleAt
    /\ dispatched' = [i \in Items |-> IF i \notin admitted THEN dispatched[i]
         ELSE [dispatched[i] EXCEPT
                 ![chosen(i)] = @ + tick.decision.named[i] * Requests(i, chosen(i))]]
    /\ offers' = offers \ admitted
    /\ UNCHANGED <<reference, engineTick, staleAt, restarts>>

\* Mutant: the items are off the queue before the snapshot is looked at
RaisesStaleTaken ==
  /\ tick.snapshot \in staleAt
  /\ offers' = offers \ DOMAIN tick.decision.form
  /\ UNCHANGED <<reference, engineTick, staleAt, dispatched, restarts>>

RaisesStale == tick.snapshot \in staleAt /\ UNCHANGED host

Exhausted(retries) == retries > MaxRetries

Materialize ==
  /\ At("materialize")
  /\ \/ Materialized /\ tick' = Idle
     \/ /\ RaisesStale
        /\ tick' = IF Exhausted(tick.retries + 1)
                   THEN [tick EXCEPT !.pc = "degrade", !.retries = @ + 1,
                                     !.decision = P0Only(tick.seen)]
                   ELSE [Idle EXCEPT !.pc = "pending", !.attempts = tick.attempts,
                                     !.retries = tick.retries + 1]

\* the degradation: once, over a snapshot of its own
Degrade ==
  /\ At("commit")
  /\ Materialized \/ RaisesStale
  /\ tick' = Idle

\* an item of a shape none of which is pending: the first, or another one, of
\* which nothing has been started
Submit ==
  /\ \E i \in Items \ offers :
       /\ offers' = offers \cup {i}
       /\ dispatched' = [dispatched EXCEPT ![i] = [f \in Form |-> 0]]
  /\ UNCHANGED <<reference, engineTick, staleAt, tick, restarts>>

\* restart_engine, called between ticks: the counter starts over
EngineRestart ==
  /\ At("idle") /\ restarts < MaxRestarts
  /\ engineTick' = 0 /\ restarts' = restarts + 1
  /\ UNCHANGED <<reference, offers, staleAt, dispatched, tick>>

TickStep ==
  \/ StartTick \/ ReadOffers
  \/ TakeSnapshot("snapshot", "decide") \/ TakeSnapshot("degrade", "commit")
  \/ Decide \/ Materialize \/ Degrade

Next     == TickStep \/ Submit \/ EngineRestart
Spec     == Init /\ [][Next]_vars
LiveSpec == Spec /\ WF_vars(TickStep)

-----------------------------------------------------------------------------
(* Whatever the policy decides and however often the snapshot is stale,    *)
(* nothing of an item is started while it is pending, and one commit takes *)
(* it off the queue with the requests of one offered form: as many whole   *)
(* sets of them as the decision names it, never a part of one, or of two   *)
(* forms (run_tick over SimulatedHost.materialize).                        *)
Book == INSTANCE OfferBook WITH pending <- offers, started <- dispatched
ImplementsOfferBook == Book!BookSpec

(* Each naming of an item starts its plan once more: that "its N           *)
(* sub-requests enter the native vLLM queue"                               *)
(* (contracts/docs/OFFER_INTERFACE_v1.md, step 5) holds only of a policy   *)
(* that names no item twice, which nothing checks of the others            *)
(* (Decision.__post_init__, _assert_decision_is_answerable,                *)
(* SimulatedHost.materialize).                                             *)
ItsSubRequests ==
  \A i \in Items : dispatched[i]["P0"] \in {0, pages[i]} /\ dispatched[i]["P1"] \in {0, 1}

\* another offer goes before every form of i that fits a round
Outbid(i) ==
  \A f \in Forms(i) : Fits(0, <<i, f>>) =>
    \E j \in offers \ {i} : \E g \in Forms(j) : Before(<<j, g>>, <<i, f>>)

(* Under the reference policy an offer is kept waiting by nothing but      *)
(* offers that go before it: no run of stale snapshots, overruns,          *)
(* degradations or restarts, and no arrival of dearer work, again and      *)
(* again, keeps it pending from some moment on unless a cheaper one is     *)
(* beside it again and again (run_tick, GreedyJointBroker: "a dropped item *)
(* would silently leave the ITT denominator").                             *)
OnlyOutbidWait == \A i \in Items : []<>(~reference \/ i \notin offers \/ Outbid(i))
=============================================================================
