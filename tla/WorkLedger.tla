----------------------------- MODULE WorkLedger -----------------------------
(***************************************************************************)
(* The work-item ledger of src/shapeflow/experiment/ledger.py: work items  *)
(* and their attempts.  Every method of Ledger runs in one BEGIN IMMEDIATE *)
(* transaction, so every method is one atomic action here.  A method that  *)
(* raises rolls its transaction back and changes nothing; it is no step.   *)
(*                                                                         *)
(* LedgerNext lets any client call any method on any attempt at any moment: what *)
(* holds of LedgerSpec holds whatever the callers do.  The modules of the  *)
(* callers (Coordinator, CellRunner) extend this one.                      *)
(***************************************************************************)
EXTENDS Integers, Sequences, FiniteSets

CONSTANTS Items,          \* the logical work items (work keys)
          SideEffecting,  \* those created with side_effecting=True
          MaxRetries,     \* max_retries of each item
          Refs,           \* object references a result can have
          NoRef           \* SQL NULL in result_object_ref

ASSUME LedgerAssumption ==
  /\ SideEffecting \subseteq Items
  /\ MaxRetries \in [Items -> Nat]
  /\ NoRef \notin Refs

VARIABLES item,      \* item[k]: the row of work_items
          attempts   \* attempts[k]: the rows of attempts, by attempt_ordinal

ledgerVars == <<item, attempts>>

InProgress == {"CLAIMED", "MATERIALIZED", "VALIDATED"}
Terminal   == {"COMMITTED", "FAILED_FINAL", "FAILED_UNKNOWN", "BLOCKED_BUDGET"}
\* "ABSENT": ensure_work_item has not created the row yet
ItemState  == {"ABSENT", "PENDING"} \cup InProgress \cup Terminal

Disposition  == {"FAILED_RETRYABLE", "FAILED_FINAL", "FAILED_UNKNOWN"}
AttemptState == InProgress \cup {"COMMITTED"} \cup Disposition

Item    == [state : ItemState, retries : Nat]
\* lease: whether lease_expires_at is still ahead of the clock
Attempt == [state : AttemptState, lease : {"held", "expired"}, ref : Refs \cup {NoRef}]

LedgerTypeOK ==
  /\ item \in [Items -> Item]
  /\ attempts \in [Items -> Seq(Attempt)]

-----------------------------------------------------------------------------
(* _LEGAL, and the compare-and-set of _set_state that enforces it.         *)

Legal == [ PENDING      |-> {"CLAIMED", "BLOCKED_BUDGET"},
           CLAIMED      |-> {"MATERIALIZED"} \cup Disposition,
           MATERIALIZED |-> {"VALIDATED"} \cup Disposition,
           VALIDATED    |-> {"COMMITTED"} \cup Disposition ]

CanSetState(k, from, to) ==
  /\ from \in DOMAIN Legal
  /\ to \in Legal[from]
  /\ item[k].state = from

SetState(k, from, to) ==
  /\ CanSetState(k, from, to)
  /\ item' = [item EXCEPT ![k].state = to]

SetAttempt(k, n, a) == attempts' = [attempts EXCEPT ![k] = [@ EXCEPT ![n] = a]]

Ordinals(k)  == 1..Len(attempts[k])
Accepted(k)  == {n \in Ordinals(k) : attempts[k][n].state = "COMMITTED"}

\* committed_ref: the result of the accepted attempt, whatever the item says
CommittedRef(k) ==
  IF Accepted(k) = {} THEN NoRef ELSE attempts[k][CHOOSE n \in Accepted(k) : TRUE].ref

-----------------------------------------------------------------------------
LedgerInit ==
  /\ item = [k \in Items |-> [state |-> "ABSENT", retries |-> 0]]
  /\ attempts = [k \in Items |-> << >>]

\* INSERT OR IGNORE: a second call changes nothing
EnsureWorkItem(k) ==
  /\ item[k].state = "ABSENT"
  /\ item' = [item EXCEPT ![k].state = "PENDING"]
  /\ UNCHANGED attempts

\* Mutant: claim reads the state but does not compare-and-set it
ClaimUnchecked(k) ==
  /\ item[k].state # "ABSENT"
  /\ item' = [item EXCEPT ![k].state = "CLAIMED"]
  /\ attempts' = [attempts EXCEPT ![k] =
                    Append(@, [state |-> "CLAIMED", lease |-> "held", ref |-> NoRef])]

Claim(k) ==
  /\ SetState(k, "PENDING", "CLAIMED")
  /\ attempts' = [attempts EXCEPT ![k] =
                    Append(@, [state |-> "CLAIMED", lease |-> "held", ref |-> NoRef])]

LeaseExpires(k, n) ==
  /\ attempts[k][n].state \in InProgress
  /\ attempts[k][n].lease = "held"
  /\ SetAttempt(k, n, [attempts[k][n] EXCEPT !.lease = "expired"])
  /\ UNCHANGED item

Heartbeat(k, n) ==
  /\ attempts[k][n].state \in InProgress
  /\ SetAttempt(k, n, [attempts[k][n] EXCEPT !.lease = "held"])
  /\ UNCHANGED item

\* from_state is the ATTEMPT's state; the compare-and-set is on the ITEM's
CanAdvance(k, n, to) == CanSetState(k, attempts[k][n].state, to)

Advance(k, n, to) ==
  /\ to \in {"MATERIALIZED", "VALIDATED"}
  /\ SetState(k, attempts[k][n].state, to)
  /\ SetAttempt(k, n, [attempts[k][n] EXCEPT !.state = to])

\* the last conjunct is the partial unique index ux_one_commit
CanCommit(k, n) ==
  /\ attempts[k][n].state = "VALIDATED"
  /\ CanSetState(k, "VALIDATED", "COMMITTED")
  /\ Accepted(k) \ {n} = {}

Commit(k, n, ref) ==
  /\ CanCommit(k, n)
  /\ SetState(k, "VALIDATED", "COMMITTED")
  /\ SetAttempt(k, n, [attempts[k][n] EXCEPT !.state = "COMMITTED", !.ref = ref])

\* Mutants: the retry is not counted; the disposition is written to the item
RetriedUncounted(i, max) ==
  [i EXCEPT !.state = IF @ = "FAILED_FINAL" \/ i.retries + 1 > max THEN "FAILED_FINAL" ELSE "PENDING"]
RetriedDisposition(i, max) == [i EXCEPT !.state = "FAILED_RETRYABLE"]

\* What becomes of an item whose attempt failed retryably: reopened while
\* retries remain, FAILED_FINAL after that.
Retried(i, max) ==
  IF i.retries + 1 <= max THEN [state |-> "PENDING", retries |-> i.retries + 1]
                          ELSE [i EXCEPT !.state = "FAILED_FINAL"]

\* fail looks at neither the attempt's state nor the item's
Fail(k, n, disposition, ref) ==
  /\ disposition \in Disposition
  /\ item' = [item EXCEPT ![k] =
                IF disposition = "FAILED_RETRYABLE" THEN Retried(@, MaxRetries[k])
                ELSE [@ EXCEPT !.state = disposition]]
  /\ SetAttempt(k, n, [attempts[k][n] EXCEPT
                         !.state = disposition,
                         !.ref = IF ref = NoRef THEN @ ELSE ref])

BlockBudget(k) ==
  /\ SetState(k, item[k].state, "BLOCKED_BUDGET")
  /\ UNCHANGED attempts

\* Mutant: any attempt with an old lease is stale, a committed one too
StaleInAnyState(k) == {n \in Ordinals(k) : attempts[k][n].lease = "expired"}

\* In-progress attempts whose lease has run out
Stale(k) == {n \in Ordinals(k) : /\ attempts[k][n].state \in InProgress
                                 /\ attempts[k][n].lease = "expired"}

\* Mutant: the attempt is ended and its item forgotten
ReclaimedAttemptOnly(k) == item[k]

\* The loop of reclaim_stale, run over all the stale attempts of one item:
\* each spends one retry, whatever state the item is in.
Reclaimed(k) ==
  LET spent == item[k].retries + Cardinality(Stale(k)) IN
  IF Stale(k) = {} THEN item[k]
  ELSE IF k \in SideEffecting THEN [item[k] EXCEPT !.state = "FAILED_UNKNOWN"]
  ELSE IF spent <= MaxRetries[k] THEN [state |-> "PENDING", retries |-> spent]
  ELSE [state |-> "FAILED_FINAL", retries |-> MaxRetries[k]]

ReclaimStale ==
  /\ item' = [k \in Items |-> Reclaimed(k)]
  /\ attempts' = [k \in Items |-> [n \in Ordinals(k) |->
                    IF n \in Stale(k) THEN [attempts[k][n] EXCEPT !.state = "FAILED_UNKNOWN"]
                                      ELSE attempts[k][n]]]

-----------------------------------------------------------------------------
AttemptStep(k, n) ==
  \/ LeaseExpires(k, n)
  \/ Heartbeat(k, n)
  \/ \E to \in {"MATERIALIZED", "VALIDATED"} : Advance(k, n, to)
  \/ \E ref \in Refs : Commit(k, n, ref)
  \/ \E d \in Disposition, ref \in Refs \cup {NoRef} : Fail(k, n, d, ref)

LedgerNext ==
  \/ ReclaimStale
  \/ \E k \in Items : \/ EnsureWorkItem(k)
                      \/ Claim(k)
                      \/ BlockBudget(k)
                      \/ \E n \in Ordinals(k) : AttemptStep(k, n)

LedgerSpec == LedgerInit /\ [][LedgerNext]_ledgerVars

-----------------------------------------------------------------------------
(* Whatever the callers do, an item has at most one accepted (COMMITTED)   *)
(* attempt: what ux_one_commit is there for (ledger.py:21-24).             *)
OneAcceptedAttempt == \A k \in Items : \A m, n \in Accepted(k) : m = n

(* An item that says CLAIMED, MATERIALIZED, VALIDATED or COMMITTED always  *)
(* has an attempt in that very state.  Without it an in-progress item      *)
(* could be left with no live attempt, and then no lease could ever expire *)
(* for reclaim_stale to find it; a COMMITTED item could be left without    *)
(* the attempt committed_ref reads.                                        *)
Backed(k) == item[k].state \in InProgress \cup {"COMMITTED"} =>
               \E n \in Ordinals(k) : attempts[k][n].state = item[k].state

ItemBackedByAttempt == \A k \in Items : Backed(k)

(* Whatever mixture of failures, reclaims and late callers, an item is     *)
(* executed at most max_retries + 1 times: every new attempt of claim is   *)
(* paid by a retry that fail or reclaim_stale has counted.                 *)
RetryBudgetHolds == \A k \in Items : Len(attempts[k]) <= MaxRetries[k] + 1
=============================================================================
