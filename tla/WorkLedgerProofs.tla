-------------------------- MODULE WorkLedgerProofs --------------------------
(***************************************************************************)
(* Proofs about WorkLedger, for every set of items, every retry budget and *)
(* every client of the ledger.                                             *)
(***************************************************************************)
EXTENDS WorkLedger, FiniteSetTheorems, SequenceTheorems, TLAPS

(* Replacing one attempt of one item leaves every other attempt alone.     *)
LEMMA SetAttemptFacts ==
  ASSUME LedgerTypeOK,
         NEW k \in Items, NEW n \in Ordinals(k), NEW a \in Attempt,
         SetAttempt(k, n, a)
  PROVE  /\ attempts' \in [Items -> Seq(Attempt)]
         /\ \A j \in Items : Len(attempts'[j]) = Len(attempts[j])
         /\ \A j \in Items : \A m \in Ordinals(j) :
              attempts'[j][m] = IF j = k /\ m = n THEN a ELSE attempts[j][m]
<1> DEFINE s == attempts[k]
           t == [s EXCEPT ![n] = a]
<1>1. s \in Seq(Attempt) /\ n \in 1..Len(s)
  BY DEF LedgerTypeOK, Ordinals
<1>2. /\ t \in Seq(Attempt)
      /\ Len(t) = Len(s)
      /\ \A m \in 1..Len(s) : t[m] = IF m = n THEN a ELSE s[m]
  BY <1>1, ExceptSeq
<1>3. attempts' = [attempts EXCEPT ![k] = t]
  BY DEF SetAttempt
<1>4. \A j \in Items : attempts'[j] = IF j = k THEN t ELSE attempts[j]
  BY <1>3 DEF LedgerTypeOK
<1> HIDE DEF t
<1>5. attempts' \in [Items -> Seq(Attempt)]
  BY <1>2, <1>3 DEF LedgerTypeOK
<1>6. QED
  BY <1>2, <1>4, <1>5 DEF Ordinals

(* An attempt of a typed ledger is a typed record.                         *)
LEMMA AttemptTyped ==
  ASSUME LedgerTypeOK, NEW k \in Items, NEW n \in Ordinals(k)
  PROVE  /\ attempts[k][n] \in Attempt
         /\ Len(attempts[k]) \in Nat
<1>1. attempts[k] \in Seq(Attempt)
  BY DEF LedgerTypeOK
<1>2. QED
  BY <1>1, ElementOfSeq, LenProperties DEF Ordinals

(* The ordinals of stale attempts are finitely many.                       *)
LEMMA StaleCounted ==
  ASSUME LedgerTypeOK, NEW k \in Items
  PROVE  /\ Cardinality(Stale(k)) \in Nat
         /\ Stale(k) # {} => Cardinality(Stale(k)) >= 1
<1>1. attempts[k] \in Seq(Attempt)
  BY DEF LedgerTypeOK
<1>2. IsFiniteSet(1..Len(attempts[k]))
  BY <1>1, LenProperties, FS_Interval
<1>3. IsFiniteSet(Stale(k))
  BY <1>2, FS_Subset DEF Stale, Ordinals
<1>4. QED
  BY <1>3, FS_CardinalityType, FS_EmptySet

(* What reclaim_stale does to every attempt and to every item.             *)
LEMMA ReclaimFacts ==
  ASSUME LedgerTypeOK, ReclaimStale
  PROVE  /\ attempts' \in [Items -> Seq(Attempt)]
         /\ \A j \in Items : Len(attempts'[j]) = Len(attempts[j])
         /\ \A j \in Items : \A m \in Ordinals(j) :
              attempts'[j][m] = IF m \in Stale(j)
                                THEN [attempts[j][m] EXCEPT !.state = "FAILED_UNKNOWN"]
                                ELSE attempts[j][m]
         /\ item' \in [Items -> Item]
<1> DEFINE Ended(j, m) == IF m \in Stale(j)
                          THEN [attempts[j][m] EXCEPT !.state = "FAILED_UNKNOWN"]
                          ELSE attempts[j][m]
<1>1. ASSUME NEW j \in Items, NEW m \in Ordinals(j)
      PROVE  Ended(j, m) \in Attempt
  <2>1. attempts[j][m] \in Attempt
    BY AttemptTyped
  <2>2. QED
    BY <2>1 DEF Attempt, AttemptState, Disposition
<1>2. ASSUME NEW j \in Items
      PROVE  /\ attempts'[j] \in Seq(Attempt)
             /\ Len(attempts'[j]) = Len(attempts[j])
             /\ \A m \in Ordinals(j) : attempts'[j][m] = Ended(j, m)
  <2>1. attempts'[j] = [m \in 1..Len(attempts[j]) |-> Ended(j, m)]
    BY DEF ReclaimStale, Ordinals
  <2>2. Len(attempts[j]) \in Nat
    BY LenProperties DEF LedgerTypeOK
  <2> HIDE DEF Ended
  <2>3. \A m \in 1..Len(attempts[j]) : Ended(j, m) \in Attempt
    BY <1>1 DEF Ordinals
  <2>4. QED
    BY <2>1, <2>2, <2>3 DEF Ordinals
<1>3. attempts' \in [Items -> Seq(Attempt)]
  <2>1. attempts' = [j \in Items |-> attempts'[j]]
    BY DEF ReclaimStale
  <2>2. QED
    BY <2>1, <1>2
<1>4. ASSUME NEW j \in Items
      PROVE  Reclaimed(j) \in Item
  <2>1. item[j] \in Item /\ MaxRetries[j] \in Nat
    BY LedgerAssumption DEF LedgerTypeOK
  <2>2. Cardinality(Stale(j)) \in Nat
    BY StaleCounted
  <2>3. QED
    BY <2>1, <2>2 DEF Reclaimed, Item, ItemState, Terminal
<1>5. item' \in [Items -> Item]
  BY <1>4 DEF ReclaimStale
<1>6. QED
  BY <1>2, <1>3, <1>5

(* The item after reclaim_stale, by whether it had a stale attempt.        *)
LEMMA ReclaimedItem ==
  ASSUME LedgerTypeOK, NEW k \in Items
  PROVE  /\ Stale(k) = {} => Reclaimed(k) = item[k]
         /\ Stale(k) # {} =>
              LET spent == item[k].retries + Cardinality(Stale(k)) IN
              \/ /\ Reclaimed(k).state \in {"FAILED_UNKNOWN", "FAILED_FINAL"}
                 /\ Reclaimed(k).retries \in {item[k].retries, MaxRetries[k]}
              \/ /\ Reclaimed(k).state = "PENDING"
                 /\ Reclaimed(k).retries = spent
                 /\ spent <= MaxRetries[k]
<1>1. item[k] \in Item
  BY DEF LedgerTypeOK
<1>2. CASE Stale(k) # {} /\ k \in SideEffecting
  <2>1. Reclaimed(k) = [item[k] EXCEPT !.state = "FAILED_UNKNOWN"]
    BY <1>2 DEF Reclaimed
  <2>2. Reclaimed(k).state = "FAILED_UNKNOWN" /\ Reclaimed(k).retries = item[k].retries
    BY <1>1, <2>1 DEF Item
  <2>3. QED
    BY <1>2, <2>2
<1>3. CASE Stale(k) # {} /\ k \notin SideEffecting
  BY <1>3 DEF Reclaimed
<1>4. CASE Stale(k) = {}
  BY <1>4 DEF Reclaimed
<1>5. QED
  BY <1>2, <1>3, <1>4

(* What claim does: one more attempt, and nothing else.                    *)
LEMMA ClaimFacts ==
  ASSUME LedgerTypeOK, NEW k \in Items, Claim(k)
  PROVE  /\ attempts' \in [Items -> Seq(Attempt)]
         /\ \A j \in Items \ {k} : attempts'[j] = attempts[j]
         /\ Len(attempts'[k]) = Len(attempts[k]) + 1
         /\ \A m \in Ordinals(k) : attempts'[k][m] = attempts[k][m]
         /\ attempts'[k][Len(attempts[k]) + 1].state = "CLAIMED"
         /\ item' = [item EXCEPT ![k].state = "CLAIMED"]
<1> DEFINE new == [state |-> "CLAIMED", lease |-> "held", ref |-> NoRef]
           t == Append(attempts[k], new)
<1>1. attempts[k] \in Seq(Attempt) /\ new \in Attempt
  BY DEF LedgerTypeOK, Attempt, AttemptState, InProgress
<1>2. attempts' = [attempts EXCEPT ![k] = t]
  BY DEF Claim
<1>3. /\ t \in Seq(Attempt)
      /\ Len(t) = Len(attempts[k]) + 1
      /\ \A m \in 1..Len(attempts[k]) : t[m] = attempts[k][m]
      /\ t[Len(attempts[k]) + 1] = new
  BY <1>1, AppendProperties
<1>4. new.state = "CLAIMED"
  OBVIOUS
<1> HIDE DEF t, new
<1>5. QED
  BY <1>2, <1>3, <1>4 DEF LedgerTypeOK, Ordinals, Claim, SetState

-----------------------------------------------------------------------------
(* The inductive form of RetryBudgetHolds: every attempt but the one of an *)
(* item that has left PENDING is paid by a counted retry.                  *)
RetriesPaid ==
  \A k \in Items :
     /\ item[k].retries <= MaxRetries[k]
     /\ Len(attempts[k]) <= item[k].retries + 1
     /\ item[k].state \in {"ABSENT", "PENDING"} => Len(attempts[k]) <= item[k].retries

(* The invariant, by parts.  Each part is inductive once the types are     *)
(* known; the second part needs the compare-and-set of _set_state, the     *)
(* first only the unique index, and the third the order in which claim     *)
(* and the failure paths count.                                            *)
LedgerInv ==
  /\ LedgerTypeOK
  /\ OneAcceptedAttempt
  /\ ItemBackedByAttempt
  /\ RetriesPaid

(* A step that changes one attempt of one item keeps the ledger typed.     *)
LEMMA AttemptStepTyped ==
  ASSUME LedgerTypeOK, NEW k \in Items, NEW n \in Ordinals(k), NEW a \in Attempt,
         NEW i \in Item, SetAttempt(k, n, a), item' = [item EXCEPT ![k] = i]
  PROVE  LedgerTypeOK'
<1>1. attempts' \in [Items -> Seq(Attempt)]
  BY SetAttemptFacts
<1>2. QED
  BY <1>1 DEF LedgerTypeOK

(* The attempt a and the item row i a step on attempt n may write:         *)
(*  - an accepted attempt is the only one of its item;                     *)
(*  - the item moves with its attempt, or both states stay, or the item    *)
(*    leaves the states that need an attempt;                              *)
(*  - a retry is counted, within the budget, when the item is reopened.    *)
Fits(k, n, a, i) ==
  /\ a.state = "COMMITTED" => Accepted(k) \ {n} = {}
  /\ \/ i.state = a.state
     \/ i.state = item[k].state /\ a.state = attempts[k][n].state
     \/ i.state \notin InProgress \cup {"COMMITTED"}
  /\ \/ i.retries = item[k].retries /\ i.state \notin {"ABSENT", "PENDING"}
     \/ i = item[k]
     \/ i.retries = item[k].retries + 1 /\ i.retries <= MaxRetries[k]

(* Every method that ends or moves one attempt writes a fitting pair.      *)
LEMMA AttemptStepFits ==
  ASSUME LedgerTypeOK, NEW k \in Items, NEW n \in Ordinals(k), AttemptStep(k, n)
  PROVE  \E a \in Attempt, i \in Item :
           SetAttempt(k, n, a) /\ item' = [item EXCEPT ![k] = i] /\ Fits(k, n, a, i)
<1> DEFINE old == attempts[k][n]
<1>1. old \in Attempt
  BY AttemptTyped
<1>2. item[k] \in Item /\ item = [item EXCEPT ![k] = item[k]] /\ MaxRetries[k] \in Nat
  BY LedgerAssumption DEF LedgerTypeOK
<1> HIDE DEF old
<1>3. ASSUME NEW l \in {"held", "expired"}, old.state \in InProgress, item' = item,
             SetAttempt(k, n, [old EXCEPT !.lease = l])
      PROVE  \E a \in Attempt, i \in Item :
               SetAttempt(k, n, a) /\ item' = [item EXCEPT ![k] = i] /\ Fits(k, n, a, i)
  <2> DEFINE a == [old EXCEPT !.lease = l]
  <2>1. a \in Attempt /\ a.state = old.state /\ a.state # "COMMITTED"
    BY <1>1, <1>3 DEF Attempt, InProgress
  <2>2. Fits(k, n, a, item[k])
    BY <2>1 DEF Fits, old
  <2> HIDE DEF a
  <2> QED
    BY <1>2, <1>3, <2>1, <2>2 DEF a
<1>4. CASE LeaseExpires(k, n)
  BY <1>3, <1>4 DEF LeaseExpires, old
<1>5. CASE Heartbeat(k, n)
  BY <1>3, <1>5 DEF Heartbeat, old
<1>6. ASSUME NEW to \in {"MATERIALIZED", "VALIDATED"}, Advance(k, n, to)
      PROVE  \E a \in Attempt, i \in Item :
               SetAttempt(k, n, a) /\ item' = [item EXCEPT ![k] = i] /\ Fits(k, n, a, i)
  <2> DEFINE a == [old EXCEPT !.state = to]
             i == [item[k] EXCEPT !.state = to]
  <2>1. a \in Attempt /\ i \in Item /\ a.state = to /\ i.state = to
        /\ i.retries = item[k].retries
    BY <1>1, <1>2 DEF Attempt, AttemptState, Item, ItemState, InProgress
  <2>2. SetAttempt(k, n, a) /\ item' = [item EXCEPT ![k] = i]
    BY <1>6 DEF Advance, SetState, old
  <2>3. Fits(k, n, a, i)
    BY <2>1 DEF Fits
  <2> QED
    BY <2>1, <2>2, <2>3
<1>7. ASSUME NEW ref \in Refs, Commit(k, n, ref)
      PROVE  \E a \in Attempt, i \in Item :
               SetAttempt(k, n, a) /\ item' = [item EXCEPT ![k] = i] /\ Fits(k, n, a, i)
  <2> DEFINE a == [old EXCEPT !.state = "COMMITTED", !.ref = ref]
             i == [item[k] EXCEPT !.state = "COMMITTED"]
  <2>1. a \in Attempt /\ i \in Item /\ a.state = "COMMITTED" /\ i.state = "COMMITTED"
        /\ i.retries = item[k].retries
    BY <1>1, <1>2 DEF Attempt, AttemptState, Item, ItemState, Terminal
  <2>2. SetAttempt(k, n, a) /\ item' = [item EXCEPT ![k] = i] /\ Accepted(k) \ {n} = {}
    BY <1>7 DEF Commit, CanCommit, SetState, old
  <2>3. Fits(k, n, a, i)
    BY <2>1, <2>2 DEF Fits
  <2> QED
    BY <2>1, <2>2, <2>3
<1>8. ASSUME NEW d \in Disposition, NEW ref \in Refs \cup {NoRef}, Fail(k, n, d, ref)
      PROVE  \E a \in Attempt, i \in Item :
               SetAttempt(k, n, a) /\ item' = [item EXCEPT ![k] = i] /\ Fits(k, n, a, i)
  <2> DEFINE a == [old EXCEPT !.state = d, !.ref = IF ref = NoRef THEN @ ELSE ref]
             i == IF d = "FAILED_RETRYABLE" THEN Retried(item[k], MaxRetries[k])
                  ELSE [item[k] EXCEPT !.state = d]
  <2>1. a \in Attempt /\ a.state = d /\ a.state # "COMMITTED"
    BY <1>1 DEF Attempt, AttemptState, Disposition
  <2>2. /\ i \in Item
        /\ i.state \notin InProgress \cup {"COMMITTED"}
        /\ \/ i.retries = item[k].retries /\ i.state \notin {"ABSENT", "PENDING"}
           \/ i.retries = item[k].retries + 1 /\ i.retries <= MaxRetries[k]
    BY <1>2 DEF Retried, Item, ItemState, Terminal, Disposition, InProgress
  <2>3. SetAttempt(k, n, a) /\ item' = [item EXCEPT ![k] = i]
    BY <1>8, <1>2 DEF Fail, old, LedgerTypeOK
  <2>4. Fits(k, n, a, i)
    BY <2>1, <2>2 DEF Fits
  <2> HIDE DEF a, i
  <2> QED
    BY <2>1, <2>2, <2>3, <2>4
<1>9. QED
  BY <1>4, <1>5, <1>6, <1>7, <1>8 DEF AttemptStep

(* A fitting pair preserves the invariant.                                 *)
LEMMA FitsPreserves ==
  ASSUME LedgerInv, NEW k \in Items, NEW n \in Ordinals(k),
         NEW a \in Attempt, NEW i \in Item,
         SetAttempt(k, n, a), item' = [item EXCEPT ![k] = i], Fits(k, n, a, i)
  PROVE  LedgerInv'
<1>1. LedgerTypeOK /\ LedgerTypeOK'
  BY AttemptStepTyped DEF LedgerInv
<1>2. /\ \A j \in Items : Len(attempts'[j]) = Len(attempts[j])
      /\ \A j \in Items : \A m \in Ordinals(j) :
           attempts'[j][m] = IF j = k /\ m = n THEN a ELSE attempts[j][m]
  BY <1>1, SetAttemptFacts
<1>3. \A j \in Items : item'[j] = IF j = k THEN i ELSE item[j]
  BY <1>1 DEF LedgerTypeOK
<1>4. \A j \in Items : Ordinals(j)' = Ordinals(j)
  BY <1>2 DEF Ordinals
<1>5. OneAcceptedAttempt'
  <2> SUFFICES ASSUME NEW j \in Items, NEW m1 \in Accepted(j)', NEW m2 \in Accepted(j)'
               PROVE  m1 = m2
    BY DEF OneAcceptedAttempt
  <2>1. m1 \in Ordinals(j) /\ m2 \in Ordinals(j)
    BY <1>4 DEF Accepted
  <2>2. \A m \in {m1, m2} : (j = k /\ m = n) \/ m \in Accepted(j)
    BY <1>2, <2>1 DEF Accepted
  <2>3. CASE j = k /\ a.state = "COMMITTED"
    BY <2>2, <2>3 DEF Fits
  <2>4. CASE ~(j = k /\ a.state = "COMMITTED")
    <3>1. m1 \in Accepted(j) /\ m2 \in Accepted(j)
      BY <1>2, <2>1, <2>4 DEF Accepted
    <3>2. QED
      BY <3>1 DEF LedgerInv, OneAcceptedAttempt
  <2>5. QED
    BY <2>3, <2>4
<1>6. ItemBackedByAttempt'
  <2> SUFFICES ASSUME NEW j \in Items, item'[j].state \in InProgress \cup {"COMMITTED"}
               PROVE  \E m \in Ordinals(j) : attempts'[j][m].state = item'[j].state
    BY <1>4 DEF ItemBackedByAttempt, Backed
  <2>1. CASE j = k /\ i.state = a.state
    BY <1>2, <1>3, <2>1
  <2>2. CASE j # k \/ (i.state = item[k].state /\ a.state = attempts[k][n].state)
    <3>1. item'[j].state = item[j].state
      BY <1>3, <2>2
    <3>2. PICK m \in Ordinals(j) : attempts[j][m].state = item[j].state
      BY <3>1 DEF LedgerInv, ItemBackedByAttempt, Backed
    <3>3. QED
      BY <1>2, <2>2, <3>1, <3>2
  <2>3. QED
    BY <1>3, <2>1, <2>2 DEF Fits
<1>7. RetriesPaid'
  <2> SUFFICES ASSUME NEW j \in Items
               PROVE  /\ item'[j].retries <= MaxRetries[j]
                      /\ Len(attempts'[j]) <= item'[j].retries + 1
                      /\ item'[j].state \in {"ABSENT", "PENDING"}
                           => Len(attempts'[j]) <= item'[j].retries
    BY DEF RetriesPaid
  <2>1. /\ item[j].retries <= MaxRetries[j]
        /\ Len(attempts[j]) <= item[j].retries + 1
        /\ item[j].state \in {"ABSENT", "PENDING"} => Len(attempts[j]) <= item[j].retries
    BY DEF LedgerInv, RetriesPaid
  <2>2. /\ item[j] \in Item /\ i \in Item /\ MaxRetries[j] \in Nat
        /\ Len(attempts[j]) \in Nat
    BY <1>1, LedgerAssumption, LenProperties DEF LedgerTypeOK
  <2>3. QED
    BY <1>2, <1>3, <2>1, <2>2 DEF Fits, Item
<1>8. QED
  BY <1>1, <1>5, <1>6, <1>7 DEF LedgerInv

(* claim adds an attempt that is not accepted, and pays for it.            *)
LEMMA ClaimPreserves ==
  ASSUME LedgerInv, NEW k \in Items, Claim(k)
  PROVE  LedgerInv'
<1>1. LedgerTypeOK
  BY DEF LedgerInv
<1>2. /\ attempts' \in [Items -> Seq(Attempt)]
      /\ \A j \in Items \ {k} : attempts'[j] = attempts[j]
      /\ Len(attempts'[k]) = Len(attempts[k]) + 1
      /\ \A m \in Ordinals(k) : attempts'[k][m] = attempts[k][m]
      /\ attempts'[k][Len(attempts[k]) + 1].state = "CLAIMED"
      /\ item' = [item EXCEPT ![k].state = "CLAIMED"]
  BY <1>1, ClaimFacts
<1>3. item[k].state = "PENDING" /\ \A j \in Items : item[j] \in Item
  BY <1>1 DEF Claim, SetState, CanSetState, LedgerTypeOK
<1>4. /\ \A j \in Items \ {k} : item'[j] = item[j]
      /\ item'[k].state = "CLAIMED" /\ item'[k].retries = item[k].retries
      /\ item' \in [Items -> Item]
  BY <1>1, <1>2, <1>3 DEF LedgerTypeOK, Item, ItemState, InProgress
<1>5. LedgerTypeOK'
  BY <1>2, <1>4 DEF LedgerTypeOK
<1>6. \A j \in Items : Len(attempts[j]) \in Nat
  BY <1>1, LenProperties DEF LedgerTypeOK
<1>7. \A j \in Items : Accepted(j)' = Accepted(j)
  <2> SUFFICES ASSUME NEW j \in Items
               PROVE  Accepted(j)' = Accepted(j)
    OBVIOUS
  <2>1. CASE j # k
    BY <1>2, <2>1 DEF Accepted, Ordinals
  <2>2. CASE j = k
    <3>1. Ordinals(k)' = Ordinals(k) \cup {Len(attempts[k]) + 1}
      BY <1>2, <1>6 DEF Ordinals
    <3>2. attempts'[k][Len(attempts[k]) + 1].state # "COMMITTED"
      BY <1>2
    <3>3. QED
      BY <1>2, <2>2, <3>1, <3>2 DEF Accepted
  <2>3. QED
    BY <2>1, <2>2
<1>8. OneAcceptedAttempt'
  BY <1>7 DEF LedgerInv, OneAcceptedAttempt
<1>9. ItemBackedByAttempt'
  <2> SUFFICES ASSUME NEW j \in Items, item'[j].state \in InProgress \cup {"COMMITTED"}
               PROVE  \E m \in Ordinals(j)' : attempts'[j][m].state = item'[j].state
    BY DEF ItemBackedByAttempt, Backed
  <2>1. CASE j = k
    <3>1. Len(attempts[k]) + 1 \in Ordinals(k)'
      BY <1>2, <1>6 DEF Ordinals
    <3>2. QED
      BY <1>2, <1>4, <2>1, <3>1
  <2>2. CASE j # k
    BY <1>2, <1>4, <2>2 DEF LedgerInv, ItemBackedByAttempt, Backed, Ordinals
  <2>3. QED
    BY <2>1, <2>2
<1>10. RetriesPaid'
  <2> SUFFICES ASSUME NEW j \in Items
               PROVE  /\ item'[j].retries <= MaxRetries[j]
                      /\ Len(attempts'[j]) <= item'[j].retries + 1
                      /\ item'[j].state \in {"ABSENT", "PENDING"}
                           => Len(attempts'[j]) <= item'[j].retries
    BY DEF RetriesPaid
  <2>1. /\ item[j].retries <= MaxRetries[j]
        /\ Len(attempts[j]) <= item[j].retries + 1
        /\ item[j].state \in {"ABSENT", "PENDING"} => Len(attempts[j]) <= item[j].retries
    BY DEF LedgerInv, RetriesPaid
  <2>2. item[j].retries \in Nat
    BY <1>3 DEF Item
  <2>3. QED
    BY <1>2, <1>3, <1>4, <1>6, <2>1, <2>2
<1>11. QED
  BY <1>5, <1>8, <1>9, <1>10 DEF LedgerInv

(* reclaim_stale touches no accepted attempt, moves every item whose       *)
(* attempt it ends out of the in-progress states, and counts each of them. *)
LEMMA ReclaimPreserves ==
  ASSUME LedgerInv, ReclaimStale
  PROVE  LedgerInv'
<1>1. LedgerTypeOK
  BY DEF LedgerInv
<1>2. /\ attempts' \in [Items -> Seq(Attempt)]
      /\ \A j \in Items : Len(attempts'[j]) = Len(attempts[j])
      /\ \A j \in Items : \A m \in Ordinals(j) :
           attempts'[j][m] = IF m \in Stale(j)
                             THEN [attempts[j][m] EXCEPT !.state = "FAILED_UNKNOWN"]
                             ELSE attempts[j][m]
      /\ item' \in [Items -> Item]
  BY <1>1, ReclaimFacts
<1>3. \A j \in Items : Ordinals(j)' = Ordinals(j) /\ item'[j] = Reclaimed(j)
  BY <1>2 DEF Ordinals, ReclaimStale
<1>4. \A j \in Items : \A m \in Ordinals(j) :
        /\ attempts[j][m] \in Attempt
        /\ m \in Stale(j) => /\ attempts[j][m].state # "COMMITTED"
                             /\ attempts'[j][m].state = "FAILED_UNKNOWN"
        /\ m \notin Stale(j) => attempts'[j][m].state = attempts[j][m].state
  BY <1>1, <1>2, AttemptTyped DEF Stale, Attempt, InProgress
<1>5. \A j \in Items : Accepted(j)' = Accepted(j)
  BY <1>3, <1>4 DEF Accepted
<1>6. OneAcceptedAttempt'
  BY <1>5 DEF LedgerInv, OneAcceptedAttempt
<1>7. ItemBackedByAttempt'
  <2> SUFFICES ASSUME NEW j \in Items, item'[j].state \in InProgress \cup {"COMMITTED"}
               PROVE  \E m \in Ordinals(j) : attempts'[j][m].state = item'[j].state
    BY <1>3 DEF ItemBackedByAttempt, Backed
  <2>1. item[j] \in Item
    BY <1>1 DEF LedgerTypeOK
  <2>2. Stale(j) = {} /\ item'[j] = item[j]
    BY <1>1, <1>3, ReclaimedItem DEF InProgress
  <2>3. QED
    BY <1>4, <2>2 DEF LedgerInv, ItemBackedByAttempt, Backed
<1>8. RetriesPaid'
  <2> SUFFICES ASSUME NEW j \in Items
               PROVE  /\ item'[j].retries <= MaxRetries[j]
                      /\ Len(attempts'[j]) <= item'[j].retries + 1
                      /\ item'[j].state \in {"ABSENT", "PENDING"}
                           => Len(attempts'[j]) <= item'[j].retries
    BY DEF RetriesPaid
  <2>1. /\ item[j].retries <= MaxRetries[j]
        /\ Len(attempts[j]) <= item[j].retries + 1
        /\ item[j].state \in {"ABSENT", "PENDING"} => Len(attempts[j]) <= item[j].retries
    BY DEF LedgerInv, RetriesPaid
  <2>2. /\ item[j] \in Item /\ MaxRetries[j] \in Nat /\ Len(attempts[j]) \in Nat
        /\ Cardinality(Stale(j)) \in Nat
        /\ Stale(j) # {} => Cardinality(Stale(j)) >= 1
    BY <1>1, LedgerAssumption, LenProperties, StaleCounted DEF LedgerTypeOK
  <2>3. item[j].retries \in Nat
    BY <2>2 DEF Item
  <2>4. CASE Stale(j) = {}
    BY <1>1, <1>2, <1>3, <2>1, <2>4, ReclaimedItem
  <2>5. CASE Stale(j) # {}
    <3>1. Len(attempts'[j]) = Len(attempts[j])
      BY <1>2
    <3>2. \/ /\ item'[j].state \in {"FAILED_UNKNOWN", "FAILED_FINAL"}
             /\ item'[j].retries \in {item[j].retries, MaxRetries[j]}
          \/ /\ item'[j].state = "PENDING"
             /\ item'[j].retries = item[j].retries + Cardinality(Stale(j))
             /\ item[j].retries + Cardinality(Stale(j)) <= MaxRetries[j]
      BY <1>1, <1>3, <2>5, ReclaimedItem
    <3>3. Cardinality(Stale(j)) >= 1
      BY <2>2, <2>5
    <3>4. CASE item'[j].state = "PENDING"
      BY <2>1, <2>2, <2>3, <3>1, <3>2, <3>3, <3>4
    <3>5. CASE item'[j].state # "PENDING"
      BY <2>1, <2>2, <2>3, <3>1, <3>2, <3>5
    <3>6. QED
      BY <3>4, <3>5
  <2>6. QED
    BY <2>4, <2>5
<1>9. QED
  BY <1>1, <1>2, <1>6, <1>7, <1>8 DEF LedgerInv, LedgerTypeOK

(* A step that only writes the state of an item that has no attempt to     *)
(* keep: ensure_work_item and block_budget.                                *)
LEMMA ItemStepPreserves ==
  ASSUME LedgerInv, NEW k \in Items, NEW to \in {"PENDING", "BLOCKED_BUDGET"},
         item[k].state \in {"ABSENT", "PENDING"},
         item' = [item EXCEPT ![k].state = to], UNCHANGED attempts
  PROVE  LedgerInv'
<1>1. LedgerTypeOK /\ item[k] \in Item
  BY DEF LedgerInv, LedgerTypeOK
<1>2. /\ \A j \in Items \ {k} : item'[j] = item[j]
      /\ item'[k].state = to /\ item'[k].retries = item[k].retries
      /\ item' \in [Items -> Item]
  BY <1>1 DEF LedgerTypeOK, Item, ItemState, Terminal
<1>3. LedgerTypeOK' /\ OneAcceptedAttempt'
  BY <1>2 DEF LedgerInv, LedgerTypeOK, OneAcceptedAttempt, Accepted, Ordinals
<1>4. ItemBackedByAttempt'
  BY <1>2 DEF LedgerInv, ItemBackedByAttempt, Backed, InProgress, Ordinals
<1>5. RetriesPaid'
  BY <1>2 DEF LedgerInv, RetriesPaid
<1>6. QED
  BY <1>3, <1>4, <1>5 DEF LedgerInv

(* Every step of the ledger, by any client, keeps the invariant.           *)
LEMMA LedgerStepPreserves ==
  ASSUME LedgerInv, [LedgerNext]_ledgerVars
  PROVE  LedgerInv'
<1>1. CASE ReclaimStale
  BY <1>1, ReclaimPreserves
<1>2. ASSUME NEW k \in Items, EnsureWorkItem(k)
      PROVE  LedgerInv'
  BY <1>2, ItemStepPreserves DEF EnsureWorkItem
<1>3. ASSUME NEW k \in Items, Claim(k)
      PROVE  LedgerInv'
  BY <1>3, ClaimPreserves
<1>4. ASSUME NEW k \in Items, BlockBudget(k)
      PROVE  LedgerInv'
  <2>1. item[k].state = "PENDING"
    BY <1>4 DEF BlockBudget, SetState, CanSetState, Legal, Disposition
  <2>2. item' = [item EXCEPT ![k].state = "BLOCKED_BUDGET"] /\ UNCHANGED attempts
    BY <1>4 DEF BlockBudget, SetState
  <2>3. QED
    BY <2>1, <2>2, ItemStepPreserves
<1>5. ASSUME NEW k \in Items, NEW n \in Ordinals(k), AttemptStep(k, n)
      PROVE  LedgerInv'
  <2>1. PICK a \in Attempt, i \in Item :
          SetAttempt(k, n, a) /\ item' = [item EXCEPT ![k] = i] /\ Fits(k, n, a, i)
    BY <1>5, AttemptStepFits DEF LedgerInv
  <2>2. QED
    BY <2>1, FitsPreserves
<1>6. CASE UNCHANGED ledgerVars
  BY <1>6 DEF ledgerVars, LedgerInv, LedgerTypeOK, OneAcceptedAttempt, ItemBackedByAttempt,
              Backed, RetriesPaid, Accepted, Ordinals
<1>7. QED
  BY <1>1, <1>2, <1>3, <1>4, <1>5, <1>6 DEF LedgerNext

(* No items, no attempts: the invariant holds of the empty ledger.         *)
LEMMA LedgerInitInv == LedgerInit => LedgerInv
<1> SUFFICES ASSUME LedgerInit
             PROVE  LedgerInv
  OBVIOUS
<1>1. LedgerTypeOK
  BY EmptySeq DEF LedgerInit, LedgerTypeOK, Item, ItemState
<1>2. \A k \in Items : attempts[k] = << >> /\ item[k].state = "ABSENT" /\ item[k].retries = 0
  BY DEF LedgerInit
<1>3. OneAcceptedAttempt /\ ItemBackedByAttempt
  BY <1>2 DEF OneAcceptedAttempt, ItemBackedByAttempt, Backed, Accepted, Ordinals, InProgress
<1>4. RetriesPaid
  BY <1>2, LedgerAssumption DEF RetriesPaid
<1>5. QED
  BY <1>1, <1>3, <1>4 DEF LedgerInv

(* The invariant holds always, whatever the clients do.                    *)
LEMMA LedgerInvariant == LedgerSpec => []LedgerInv
<1>1. LedgerInv /\ [LedgerNext]_ledgerVars => LedgerInv'
  BY LedgerStepPreserves
<1>2. QED
  BY <1>1, LedgerInitInv, PTL DEF LedgerSpec

-----------------------------------------------------------------------------
(* The rows of work_items and attempts keep their types.                   *)
THEOREM LedgerTypeCorrect == LedgerSpec => []LedgerTypeOK
<1>1. LedgerInv => LedgerTypeOK
  BY DEF LedgerInv
<1>2. QED
  BY <1>1, LedgerInvariant, PTL

(* No client of the ledger can get two attempts of one item accepted.      *)
THEOREM OneAcceptedAttemptHolds == LedgerSpec => []OneAcceptedAttempt
<1>1. LedgerInv => OneAcceptedAttempt
  BY DEF LedgerInv
<1>2. QED
  BY <1>1, LedgerInvariant, PTL

(* No client can leave an item in progress, or COMMITTED, without an       *)
(* attempt in the same state: every stuck item has a lease that can expire *)
(* and every COMMITTED item a result that committed_ref finds.             *)
THEOREM ItemsAreBacked == LedgerSpec => []ItemBackedByAttempt
<1>1. LedgerInv => ItemBackedByAttempt
  BY DEF LedgerInv
<1>2. QED
  BY <1>1, LedgerInvariant, PTL

(* No client can have an item executed more than max_retries + 1 times.    *)
THEOREM RetryBudgetIsKept == LedgerSpec => []RetryBudgetHolds
<1>1. LedgerInv => RetryBudgetHolds
  <2> SUFFICES ASSUME LedgerInv, NEW k \in Items
               PROVE  Len(attempts[k]) <= MaxRetries[k] + 1
    BY DEF RetryBudgetHolds
  <2>1. /\ item[k] \in Item /\ MaxRetries[k] \in Nat /\ Len(attempts[k]) \in Nat
    BY LedgerAssumption, LenProperties DEF LedgerInv, LedgerTypeOK
  <2>2. QED
    BY <2>1 DEF LedgerInv, RetriesPaid, Item
<1>2. QED
  BY <1>1, LedgerInvariant, PTL
=============================================================================
