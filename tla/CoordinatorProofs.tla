-------------------------- MODULE CoordinatorProofs --------------------------
(***************************************************************************)
(* Proofs about Coordinator, for every set of items and of workers, every  *)
(* retry budget and any number of crashes: a reader of the results sees    *)
(* AcceptedWork.                                                           *)
(*                                                                         *)
(* The ledger's own invariant holds whatever its callers do, but fail      *)
(* looks at neither the attempt's state nor the item's: an accepted result *)
(* could be failed away.  That it is not is the coordinator's doing: no    *)
(* two workers hold one attempt, and none holds one that is accepted.      *)
(***************************************************************************)
EXTENDS Coordinator, WorkLedgerProofs

Holding == {"execute", "register", "materialize", "validated", "commit", "retryable", "fatal",
            "incident"}
Stored == {"register", "materialize", "validated", "commit"}

\* what a worker may hold
Held(x) ==
  /\ x.pc = "claim" => x.key \in Items
  /\ x.pc \in Holding => /\ x.key \in Items /\ x.n \in Ordinals(x.key)
                         /\ attempts[x.key][x.n].state # "COMMITTED"
  /\ x.pc \in Stored => x.ref \in blobs

\* two workers hold two attempts
Apart(x, y) == x.pc \in Holding /\ y.pc \in Holding => x.key # y.key \/ x.n # y.n

WorkersInv ==
  /\ worker \in [Workers -> Worker]
  /\ blobs \subseteq Refs
  /\ \A w \in Workers : Held(worker[w])
  /\ \A v, w \in Workers : v # w => Apart(worker[v], worker[w])

CoordinatorInv == LedgerInv /\ WorkersInv

\* a step of the ledger that neither claims nor commits
LedgerKeeps ==
  \A k \in Items :
    /\ Len(attempts'[k]) = Len(attempts[k])
    /\ \A n \in Ordinals(k) :
         /\ attempts'[k][n].state = "COMMITTED" <=> attempts[k][n].state = "COMMITTED"
         /\ attempts[k][n].state = "COMMITTED" => attempts'[k][n].ref = attempts[k][n].ref

\* what the reader of the results sees
RunsOf == [k \in Items |-> Len(attempts[k])]
ResultOf == [k \in Items |-> CommittedRef(k)]

-----------------------------------------------------------------------------
\* the ledger's steps that keep every accepted attempt
LEMMA NothingMoves ==
  ASSUME UNCHANGED attempts
  PROVE  LedgerKeeps
BY DEF LedgerKeeps

LEMMA ReclaimKeeps ==
  ASSUME LedgerInv, ReclaimStale
  PROVE  LedgerKeeps
<1>1. LedgerTypeOK
  BY DEF LedgerInv
<1>2. ASSUME NEW k \in Items PROVE Len(attempts'[k]) = Len(attempts[k])
  BY <1>1, ReclaimFacts
<1>3. ASSUME NEW k \in Items, NEW n \in Ordinals(k)
      PROVE  /\ attempts'[k][n].state = "COMMITTED" <=> attempts[k][n].state = "COMMITTED"
             /\ attempts[k][n].state = "COMMITTED" => attempts'[k][n].ref = attempts[k][n].ref
  <2>1. attempts[k][n] \in Attempt
    BY <1>1, AttemptTyped
  <2>2. attempts'[k][n] = IF n \in Stale(k)
                          THEN [attempts[k][n] EXCEPT !.state = "FAILED_UNKNOWN"]
                          ELSE attempts[k][n]
    BY <1>1, ReclaimFacts
  <2>3. n \in Stale(k) => attempts[k][n].state # "COMMITTED"
    BY DEF Stale, InProgress
  <2>4. QED BY <2>1, <2>2, <2>3 DEF Attempt
<1>4. QED BY <1>2, <1>3 DEF LedgerKeeps

\* an attempt that is not accepted is written, and not accepted by it
LEMMA WriteKeeps ==
  ASSUME LedgerInv, NEW k \in Items, NEW n \in Ordinals(k), NEW a \in Attempt,
         SetAttempt(k, n, a), attempts[k][n].state # "COMMITTED", a.state # "COMMITTED"
  PROVE  LedgerKeeps
<1>1. LedgerTypeOK
  BY DEF LedgerInv
<1>2. /\ \A j \in Items : Len(attempts'[j]) = Len(attempts[j])
      /\ \A j \in Items : \A m \in Ordinals(j) :
           attempts'[j][m] = IF j = k /\ m = n THEN a ELSE attempts[j][m]
  BY <1>1, SetAttemptFacts
<1>3. QED BY <1>2 DEF LedgerKeeps

LEMMA ExpireKeeps ==
  ASSUME LedgerInv, NEW k \in Items, NEW n \in Ordinals(k), LeaseExpires(k, n)
  PROVE  LedgerKeeps
<1>1. attempts[k][n] \in Attempt
  BY AttemptTyped DEF LedgerInv
<1>2. PICK a : a = [attempts[k][n] EXCEPT !.lease = "expired"]
  OBVIOUS
<1>3. a \in Attempt /\ a.state = attempts[k][n].state
  BY <1>1, <1>2 DEF Attempt
<1>4. SetAttempt(k, n, a) /\ attempts[k][n].state # "COMMITTED"
  BY <1>2 DEF LeaseExpires, InProgress
<1>5. QED BY <1>3, <1>4, WriteKeeps

LEMMA AdvanceKeeps ==
  ASSUME LedgerInv, NEW k \in Items, NEW n \in Ordinals(k), NEW to \in {"MATERIALIZED", "VALIDATED"},
         Advance(k, n, to)
  PROVE  LedgerKeeps
<1>1. attempts[k][n] \in Attempt
  BY AttemptTyped DEF LedgerInv
<1>2. PICK a : a = [attempts[k][n] EXCEPT !.state = to]
  OBVIOUS
<1>3. a \in Attempt /\ a.state # "COMMITTED"
  BY <1>1, <1>2 DEF Attempt, AttemptState, InProgress
<1>4. SetAttempt(k, n, a)
  BY <1>2 DEF Advance
<1>5. attempts[k][n].state \in DOMAIN Legal
  BY DEF Advance, SetState, CanSetState
<1>6. attempts[k][n].state # "COMMITTED"
  BY <1>5 DEF Legal
<1>7. QED BY <1>3, <1>4, <1>6, WriteKeeps

LEMMA FailKeeps ==
  ASSUME LedgerInv, NEW k \in Items, NEW n \in Ordinals(k), NEW d \in Disposition,
         Fail(k, n, d, NoRef), attempts[k][n].state # "COMMITTED"
  PROVE  LedgerKeeps
<1>1. attempts[k][n] \in Attempt
  BY AttemptTyped DEF LedgerInv
<1>2. PICK a : a = [attempts[k][n] EXCEPT !.state = d, !.ref = attempts[k][n].ref]
  OBVIOUS
<1>3. a \in Attempt /\ a.state = d /\ d # "COMMITTED"
  BY <1>1, <1>2 DEF Attempt, AttemptState, Disposition
<1>4. SetAttempt(k, n, a)
  BY <1>2 DEF Fail
<1>5. QED BY <1>3, <1>4, WriteKeeps

\* the reader sees nothing of them
LEMMA ReaderSeesNothing ==
  ASSUME LedgerInv, LedgerKeeps
  PROVE  RunsOf' = RunsOf /\ ResultOf' = ResultOf
<1>1. \A k \in Items : Len(attempts'[k]) = Len(attempts[k]) /\ Ordinals(k)' = Ordinals(k)
  BY DEF LedgerKeeps, Ordinals
<1>2. \A k \in Items : Accepted(k)' = Accepted(k)
  BY <1>1 DEF LedgerKeeps, Accepted
<1>3. ASSUME NEW k \in Items PROVE CommittedRef(k)' = CommittedRef(k)
  <2>1. CASE Accepted(k) = {}
    BY <1>2, <2>1 DEF CommittedRef
  <2>2. CASE Accepted(k) # {}
    <3>1. PICK n : n = CHOOSE m \in Accepted(k) : TRUE
      OBVIOUS
    <3>2. n \in Accepted(k)
      BY <2>2, <3>1
    <3>3. CommittedRef(k) = attempts[k][n].ref /\ CommittedRef(k)' = attempts'[k][n].ref
      BY <1>2, <2>2, <3>1 DEF CommittedRef
    <3>4. attempts'[k][n].ref = attempts[k][n].ref
      BY <3>2 DEF Accepted, LedgerKeeps
    <3>5. QED BY <3>3, <3>4
  <2>3. QED BY <2>1, <2>2
<1>4. QED BY <1>1, <1>3 DEF RunsOf, ResultOf

-----------------------------------------------------------------------------
\* one worker takes a step that leaves the accepted attempts, and holds no
\* other attempt than before
LEMMA OthersKeep ==
  ASSUME WorkersInv, LedgerKeeps, NEW w \in Workers, NEW x \in Worker,
         worker' = [worker EXCEPT ![w] = x], Held(x)',
         x.pc \in Holding => /\ worker[w].pc \in Holding /\ x.key = worker[w].key
                             /\ x.n = worker[w].n,
         blobs \subseteq blobs', blobs' \subseteq Refs
  PROVE  WorkersInv'
<1>1. worker \in [Workers -> Worker] /\ worker' \in [Workers -> Worker]
  BY DEF WorkersInv
<1>2. worker'[w] = x /\ \A v \in Workers : v # w => worker'[v] = worker[v]
  BY <1>1
<1>3. ASSUME NEW v \in Workers, NEW y, y = worker'[v] PROVE Held(y)'
  <2>1. CASE v = w
    BY <1>2, <1>3, <2>1
  <2>2. CASE v # w
    <3>1. y = worker[v] /\ Held(worker[v])
      BY <1>2, <1>3, <2>2 DEF WorkersInv
    <3>2. Held(y)
      BY <3>1
    <3>3. QED BY <3>2 DEF Held, LedgerKeeps, Ordinals
  <2>3. QED BY <2>1, <2>2
<1>4. ASSUME NEW u \in Workers, NEW v \in Workers, u # v PROVE Apart(worker'[u], worker'[v])
  <2>1. Apart(worker[u], worker[v])
    BY <1>4 DEF WorkersInv
  <2>2. QED BY <1>2, <1>4, <2>1 DEF Apart
<1>5. QED
  <2>1. \A v \in Workers : Held(worker[v])'
    BY <1>3
  <2>2. \A u, v \in Workers : u # v => Apart(worker[u], worker[v])'
    BY <1>4
  <2>3. QED BY <1>1, <2>1, <2>2 DEF WorkersInv

LEMMA LeaveKeeps ==
  ASSUME WorkersInv, LedgerKeeps, NEW w \in Workers, NEW pc \in {"down", "poll"}, Leave(w, pc),
         UNCHANGED blobs
  PROVE  WorkersInv'
<1>1. PICK x : x = Idle(pc)
  OBVIOUS
<1>2. x \in Worker /\ x.pc = pc
  BY <1>1 DEF Idle, Worker, PC
<1>3. Held(x)' /\ x.pc \notin Holding
  BY <1>2 DEF Held, Holding, Stored
<1>4. worker' = [worker EXCEPT ![w] = x]
  BY <1>1 DEF Leave
<1>5. blobs' \subseteq Refs
  BY DEF WorkersInv
<1>6. QED BY <1>2, <1>3, <1>4, <1>5, OthersKeep

LEMMA GotoKeeps ==
  ASSUME WorkersInv, LedgerKeeps, NEW w \in Workers, NEW pc \in PC, Goto(w, pc), UNCHANGED blobs,
         pc \in Holding => worker[w].pc \in Holding,
         pc \in Stored => worker[w].pc \in Stored, pc # "claim"
  PROVE  WorkersInv'
<1>1. worker[w] \in Worker /\ Held(worker[w])
  BY DEF WorkersInv
<1>2. PICK x : x = [worker[w] EXCEPT !.pc = pc]
  OBVIOUS
<1>3. /\ x \in Worker /\ x.pc = pc /\ x.key = worker[w].key /\ x.n = worker[w].n
      /\ x.ref = worker[w].ref
  BY <1>1, <1>2 DEF Worker
<1>4. Held(x)'
  BY <1>1, <1>3 DEF Held, LedgerKeeps, Ordinals
<1>5. worker' = [worker EXCEPT ![w] = x]
  BY <1>2 DEF Goto
<1>6. blobs' \subseteq Refs
  BY DEF WorkersInv
<1>7. QED BY <1>3, <1>4, <1>5, <1>6, OthersKeep

\* what a worker that holds an attempt holds
LEMMA WorkerHolds ==
  ASSUME WorkersInv, NEW w \in Workers, worker[w].pc \in Holding
  PROVE  /\ worker[w].key \in Items /\ worker[w].n \in Ordinals(worker[w].key)
         /\ attempts[worker[w].key][worker[w].n].state # "COMMITTED"
         /\ worker[w].pc \in Stored => worker[w].ref \in blobs /\ worker[w].ref \in Refs
BY DEF WorkersInv, Held

\* the steps that leave the ledger's accepted attempts and the store
Unseen(w) ==
  \/ StartRun(w) \/ Poll(w) \/ LimitReached(w) \/ LoseRace(w) \/ RegisterArtifact(w)
  \/ Materialize(w) \/ Validated(w) \/ Refused(w) \/ FailRetryable(w) \/ FailFatal(w)
  \/ RecordIncident(w) \/ Crash(w)

LEMMA PollKeeps ==
  ASSUME CoordinatorInv, NEW w \in Workers, Poll(w)
  PROVE  WorkersInv' /\ LedgerKeeps /\ UNCHANGED blobs
<1>1. WorkersInv /\ LedgerKeeps /\ UNCHANGED <<blobs, item, attempts>>
  BY NothingMoves DEF CoordinatorInv, Poll, ledgerVars
<1>2. CASE Leave(w, "down")
  BY <1>1, <1>2, LeaveKeeps
<1>3. CASE \E k \in Pending : worker' = [worker EXCEPT ![w] = [Idle("claim") EXCEPT !.key = k]]
  <2>1. PICK k \in Pending : worker' = [worker EXCEPT ![w] = [Idle("claim") EXCEPT !.key = k]]
    BY <1>3
  <2>2. k \in Items
    BY DEF Pending
  <2>3. PICK x : x = [pc |-> "claim", key |-> k, n |-> 0, ref |-> NoRef]
    OBVIOUS
  <2>4. x = [Idle("claim") EXCEPT !.key = k]
    BY <2>3 DEF Idle
  <2>5. x \in Worker /\ x.pc = "claim" /\ x.key = k
    BY <2>2, <2>3 DEF Worker, PC
  <2>6. Held(x)' /\ x.pc \notin Holding
    BY <2>2, <2>5 DEF Held, Holding, Stored
  <2>7. blobs \subseteq blobs' /\ blobs' \subseteq Refs
    BY <1>1 DEF WorkersInv
  <2>8. QED BY <1>1, <2>1, <2>4, <2>5, <2>6, <2>7, OthersKeep
<1>4. QED BY <1>1, <1>2, <1>3 DEF Poll

LEMMA UnseenKeeps ==
  ASSUME CoordinatorInv, NEW w \in Workers, Unseen(w)
  PROVE  WorkersInv' /\ LedgerKeeps /\ UNCHANGED blobs
<1>1. LedgerInv /\ WorkersInv
  BY DEF CoordinatorInv
<1>2. CASE StartRun(w)
  <2>1. LedgerKeeps /\ Goto(w, "poll") /\ UNCHANGED blobs
    BY <1>1, <1>2, ReclaimKeeps DEF StartRun
  <2>2. QED BY <1>1, <2>1, GotoKeeps DEF PC, Holding, Stored
<1>3. CASE Poll(w)
  BY <1>3, PollKeeps
<1>4. CASE LimitReached(w) \/ LoseRace(w) \/ Refused(w) \/ RecordIncident(w) \/ Crash(w)
  <2>1. Leave(w, "down") /\ UNCHANGED <<blobs, item, attempts>>
    BY <1>4 DEF LimitReached, LoseRace, Refused, RecordIncident, Crash, ledgerVars
  <2>2. QED BY <1>1, <2>1, LeaveKeeps, NothingMoves
<1>5. CASE RegisterArtifact(w)
  <2>1. Goto(w, "materialize") /\ UNCHANGED <<blobs, item, attempts>> /\ worker[w].pc = "register"
    BY <1>5 DEF RegisterArtifact, ledgerVars, At
  <2>2. QED BY <1>1, <2>1, GotoKeeps, NothingMoves DEF PC, Holding, Stored
<1>6. CASE Materialize(w)
  <2>1. PICK pc \in {"validated", "retryable", "fatal"} :
          /\ Goto(w, pc) /\ UNCHANGED blobs /\ worker[w].pc = "materialize"
          /\ Advance(worker[w].key, worker[w].n, "MATERIALIZED")
    BY <1>6 DEF Materialize, At
  <2>2. worker[w].pc \in Holding /\ worker[w].pc \in Stored /\ pc \in PC /\ pc # "claim"
    BY <2>1 DEF Holding, Stored, PC
  <2>3. LedgerKeeps
    BY <1>1, <2>1, <2>2, WorkerHolds, AdvanceKeeps
  <2>4. QED BY <1>1, <2>1, <2>2, <2>3, GotoKeeps
<1>7. CASE Validated(w)
  <2>1. /\ Goto(w, "commit") /\ UNCHANGED blobs /\ worker[w].pc = "validated"
        /\ Advance(worker[w].key, worker[w].n, "VALIDATED")
    BY <1>7 DEF Validated, At
  <2>2. worker[w].pc \in Holding /\ worker[w].pc \in Stored /\ "commit" \in PC
    BY <2>1 DEF Holding, Stored, PC
  <2>3. LedgerKeeps
    BY <1>1, <2>1, <2>2, WorkerHolds, AdvanceKeeps
  <2>4. QED BY <1>1, <2>1, <2>2, <2>3, GotoKeeps
<1>8. CASE FailRetryable(w)
  <2>1. /\ Leave(w, "poll") /\ UNCHANGED blobs /\ worker[w].pc \in Holding
        /\ Fail(worker[w].key, worker[w].n, "FAILED_RETRYABLE", NoRef)
    BY <1>8 DEF FailRetryable, At, Holding
  <2>2. LedgerKeeps
    BY <1>1, <2>1, WorkerHolds, FailKeeps DEF Disposition
  <2>3. QED BY <1>1, <2>1, <2>2, LeaveKeeps
<1>9. CASE FailFatal(w)
  <2>1. /\ Goto(w, "incident") /\ UNCHANGED blobs /\ worker[w].pc \in Holding
        /\ Fail(worker[w].key, worker[w].n, "FAILED_FINAL", NoRef)
    BY <1>9 DEF FailFatal, At, Holding
  <2>2. LedgerKeeps
    BY <1>1, <2>1, WorkerHolds, FailKeeps DEF Disposition
  <2>3. QED BY <1>1, <2>1, <2>2, GotoKeeps DEF PC, Stored
<1>10. QED BY <1>2, <1>3, <1>4, <1>5, <1>6, <1>7, <1>8, <1>9 DEF Unseen

-----------------------------------------------------------------------------
\* the result's bytes are stored, or the executor raises
LEMMA ExecuteKeeps ==
  ASSUME CoordinatorInv, NEW w \in Workers, Execute(w)
  PROVE  /\ WorkersInv' /\ LedgerKeeps
         /\ UNCHANGED blobs \/ \E r \in Refs : blobs' = blobs \cup {r}
<1>1. /\ WorkersInv /\ LedgerKeeps /\ worker[w].pc = "execute" /\ worker[w].pc \in Holding
      /\ UNCHANGED attempts
  BY NothingMoves DEF CoordinatorInv, Execute, ledgerVars, At, Holding
<1>2. CASE \E r \in Refs :
             /\ blobs' = blobs \cup {r}
             /\ worker' = [worker EXCEPT ![w].pc = "register", ![w].ref = r]
  <2>1. PICK r \in Refs :
             /\ blobs' = blobs \cup {r}
             /\ worker' = [worker EXCEPT ![w].pc = "register", ![w].ref = r]
    BY <1>2
  <2>2. PICK x : x = [worker[w] EXCEPT !.pc = "register", !.ref = r]
    OBVIOUS
  <2>3. worker[w] \in Worker /\ Held(worker[w])
    BY <1>1 DEF WorkersInv
  <2>4. /\ x \in Worker /\ x.pc = "register" /\ x.key = worker[w].key /\ x.n = worker[w].n
        /\ x.ref = r
    BY <2>2, <2>3 DEF Worker, PC
  <2>5. worker' = [worker EXCEPT ![w] = x]
    BY <2>1, <2>2
  <2>6. Held(x)'
    BY <1>1, <2>1, <2>3, <2>4 DEF Held, Ordinals
  <2>7. blobs \subseteq blobs' /\ blobs' \subseteq Refs
    BY <1>1, <2>1 DEF WorkersInv
  <2>8. WorkersInv'
    BY <1>1, <2>4, <2>5, <2>6, <2>7, OthersKeep
  <2>9. QED BY <1>1, <2>1, <2>8
<1>3. CASE (\E pc \in {"retryable", "fatal"} : Goto(w, pc)) /\ UNCHANGED blobs
  <2>1. PICK pc \in {"retryable", "fatal"} : Goto(w, pc) /\ UNCHANGED blobs
    BY <1>3
  <2>2. pc \in PC /\ pc \notin Stored /\ pc # "claim"
    BY DEF PC, Stored
  <2>3. WorkersInv'
    BY <1>1, <2>1, <2>2, GotoKeeps
  <2>4. QED BY <1>1, <1>3, <2>3
<1>4. QED BY <1>2, <1>3 DEF Execute

\* an attempt is claimed: one more run, and no other worker holds it
LEMMA ClaimRuns ==
  ASSUME CoordinatorInv, NEW w \in Workers, ClaimItem(w)
  PROVE  WorkersInv' /\ UNCHANGED blobs /\ \E k \in Items : AW!Run(k)
<1>1. /\ LedgerInv /\ WorkersInv /\ LedgerTypeOK /\ UNCHANGED blobs /\ worker[w].pc = "claim"
      /\ worker[w] \in Worker
  BY DEF CoordinatorInv, ClaimItem, At, LedgerInv, WorkersInv
<1>2. PICK k \in Items : k = worker[w].key
  BY <1>1 DEF WorkersInv, Held
<1>3. Claim(k)
  BY <1>2 DEF ClaimItem
<1>4. /\ attempts' \in [Items -> Seq(Attempt)]
      /\ \A j \in Items \ {k} : attempts'[j] = attempts[j]
      /\ Len(attempts'[k]) = Len(attempts[k]) + 1
      /\ \A m \in Ordinals(k) : attempts'[k][m] = attempts[k][m]
      /\ attempts'[k][Len(attempts[k]) + 1].state = "CLAIMED"
  BY <1>1, <1>3, ClaimFacts
<1>5. \A j \in Items : Len(attempts[j]) \in Nat /\ DOMAIN attempts[j] = 1..Len(attempts[j])
  BY <1>1, LenProperties DEF LedgerTypeOK
<1>6. PICK n \in Nat : n = Len(attempts[k]) + 1
  BY <1>5
<1>7. Ordinals(k)' = Ordinals(k) \cup {n} /\ n \notin Ordinals(k)
      /\ \A j \in Items : j # k => Ordinals(j)' = Ordinals(j)
  BY <1>4, <1>5, <1>6 DEF Ordinals
<1>8. WorkersInv'
  <2>1. PICK x : x = [worker[w] EXCEPT !.pc = "execute", !.n = n]
    OBVIOUS
  <2>2. /\ x \in Worker /\ x.pc = "execute" /\ x.key = k /\ x.n = n
    BY <1>1, <1>2, <2>1 DEF Worker, PC
  <2>3. worker' = [worker EXCEPT ![w] = x]
    BY <1>2, <1>6, <2>1 DEF ClaimItem
  <2>4. worker \in [Workers -> Worker] /\ worker' \in [Workers -> Worker]
    BY <1>1, <2>2, <2>3 DEF WorkersInv
  <2>5. worker'[w] = x /\ \A v \in Workers : v # w => worker'[v] = worker[v]
    BY <2>3, <2>4
  <2>6. Held(x)'
    BY <1>4, <1>6, <1>7, <2>2 DEF Held, Stored
  <2>7. ASSUME NEW v \in Workers, NEW y, y = worker'[v] PROVE Held(y)'
    <3>1. CASE v = w
      BY <2>5, <2>6, <2>7, <3>1
    <3>2. CASE v # w
      <4>1. y = worker[v] /\ Held(worker[v])
        BY <1>1, <2>5, <2>7, <3>2 DEF WorkersInv
      <4>2. Held(y)
        BY <4>1
      <4>3. \A j \in Items : \A m \in Ordinals(j) :
              m \in Ordinals(j)' /\ attempts'[j][m] = attempts[j][m]
        BY <1>4, <1>7
      <4>4. QED BY <1>1, <4>2, <4>3 DEF Held
    <3>3. QED BY <3>1, <3>2
  <2>8. ASSUME NEW v \in Workers, v # w PROVE Apart(worker'[v], x) /\ Apart(x, worker'[v])
    <3>1. Held(worker[v]) /\ worker'[v] = worker[v]
      BY <1>1, <2>5, <2>8 DEF WorkersInv
    <3>2. QED BY <1>7, <2>2, <3>1 DEF Held, Apart
  <2>9. ASSUME NEW u \in Workers, NEW v \in Workers, u # v PROVE Apart(worker'[u], worker'[v])
    <3>1. Apart(worker[u], worker[v])
      BY <1>1, <2>9 DEF WorkersInv
    <3>2. QED BY <2>5, <2>8, <2>9, <3>1
  <2>10. \A v \in Workers : Held(worker[v])'
    BY <2>7
  <2>11. \A u, v \in Workers : u # v => Apart(worker[u], worker[v])'
    BY <2>9
  <2>12. blobs' \subseteq Refs
    BY <1>1 DEF WorkersInv
  <2>13. QED BY <2>4, <2>10, <2>11, <2>12 DEF WorkersInv
<1>9. RunsOf[k] <= MaxRetries[k]
  <2>1. item[k].state = "PENDING"
    BY <1>3 DEF Claim, SetState, CanSetState
  <2>2. Len(attempts[k]) <= item[k].retries /\ item[k].retries <= MaxRetries[k]
    BY <1>1, <2>1 DEF LedgerInv, RetriesPaid
  <2>3. item[k].retries \in Nat /\ MaxRetries[k] \in Nat
    BY <1>1, LedgerAssumption DEF LedgerTypeOK, Item
  <2>4. QED BY <1>5, <2>2, <2>3 DEF RunsOf
<1>10. RunsOf' = [RunsOf EXCEPT ![k] = RunsOf[k] + 1]
  BY <1>4 DEF RunsOf
<1>11. \A j \in Items : Accepted(j)' = Accepted(j)
  <2>1. n \notin Accepted(k)'
    BY <1>4, <1>6 DEF Accepted
  <2>2. \A m \in Ordinals(k) : m \in Accepted(k)' <=> m \in Accepted(k)
    BY <1>4, <1>7 DEF Accepted
  <2>3. Accepted(k)' = Accepted(k)
    <3>1. \A m \in Accepted(k)' : m \in Ordinals(k)'
      BY DEF Accepted
    <3>2. \A m \in Accepted(k) : m \in Ordinals(k)
      BY DEF Accepted
    <3>3. QED BY <1>7, <2>1, <2>2, <3>1, <3>2
  <2>4. \A j \in Items : j # k => Accepted(j)' = Accepted(j)
    BY <1>4, <1>7 DEF Accepted
  <2>5. QED BY <2>3, <2>4
<1>12. ASSUME NEW j \in Items PROVE CommittedRef(j)' = CommittedRef(j)
  <2>1. CASE Accepted(j) = {}
    BY <1>11, <2>1 DEF CommittedRef
  <2>2. CASE Accepted(j) # {}
    <3>1. PICK m : m = CHOOSE q \in Accepted(j) : TRUE
      OBVIOUS
    <3>2. m \in Ordinals(j)
      BY <2>2, <3>1 DEF Accepted
    <3>3. CommittedRef(j) = attempts[j][m].ref /\ CommittedRef(j)' = attempts'[j][m].ref
      BY <1>11, <2>2, <3>1 DEF CommittedRef
    <3>4. QED BY <1>4, <3>2, <3>3
  <2>3. QED BY <2>1, <2>2
<1>13. ResultOf' = ResultOf
  BY <1>12 DEF ResultOf
<1>14. AW!Run(k)
  BY <1>1, <1>9, <1>10, <1>13 DEF AW!Run, RunsOf, ResultOf
<1>15. QED BY <1>1, <1>8, <1>14

\* the held attempt is accepted, if the item has no accepted one, with a
\* result that is in the store
LEMMA CommitAccepts ==
  ASSUME CoordinatorInv, NEW w \in Workers, CommitResult(w)
  PROVE  WorkersInv' /\ UNCHANGED blobs /\ \E k \in Items, r \in Refs : AW!Accept(k, r)
<1>1. /\ LedgerInv /\ WorkersInv /\ LedgerTypeOK /\ UNCHANGED blobs /\ worker[w].pc = "commit"
      /\ worker[w].pc \in Holding /\ worker[w].pc \in Stored
  BY DEF CoordinatorInv, CommitResult, At, LedgerInv, Holding, Stored
<1>2. PICK k \in Items, n \in Ordinals(worker[w].key), r \in Refs :
        k = worker[w].key /\ n = worker[w].n /\ r = worker[w].ref /\ r \in blobs
  BY <1>1, WorkerHolds
<1>3. n \in Ordinals(k)
  BY <1>2
<1>4. Commit(k, n, r)
  BY <1>2 DEF CommitResult
<1>5. PICK a : a = [attempts[k][n] EXCEPT !.state = "COMMITTED", !.ref = r]
  OBVIOUS
<1>6. a \in Attempt /\ a.state = "COMMITTED" /\ a.ref = r
  <2>1. attempts[k][n] \in Attempt
    BY <1>1, <1>3, AttemptTyped
  <2>2. QED BY <1>5, <2>1 DEF Attempt, AttemptState
<1>7. SetAttempt(k, n, a) /\ attempts[k][n].state = "VALIDATED" /\ Accepted(k) \ {n} = {}
  BY <1>4, <1>5 DEF Commit, CanCommit
<1>8. /\ \A j \in Items : Len(attempts'[j]) = Len(attempts[j])
      /\ \A j \in Items : \A m \in Ordinals(j) :
           attempts'[j][m] = IF j = k /\ m = n THEN a ELSE attempts[j][m]
  BY <1>1, <1>3, <1>6, <1>7, SetAttemptFacts
<1>9. \A j \in Items : Ordinals(j)' = Ordinals(j)
  BY <1>8 DEF Ordinals
<1>10. WorkersInv'
  <2>1. PICK x : x = Idle("poll")
    OBVIOUS
  <2>2. x \in Worker /\ x.pc = "poll"
    BY <2>1 DEF Idle, Worker, PC
  <2>3. worker' = [worker EXCEPT ![w] = x]
    BY <2>1 DEF CommitResult, Leave
  <2>4. worker \in [Workers -> Worker] /\ worker' \in [Workers -> Worker]
    BY <1>1, <2>2, <2>3 DEF WorkersInv
  <2>5. worker'[w] = x /\ \A v \in Workers : v # w => worker'[v] = worker[v]
    BY <2>3, <2>4
  <2>6. ASSUME NEW v \in Workers, NEW y, y = worker'[v] PROVE Held(y)'
    <3>1. CASE v = w
      <4>1. y = x
        BY <2>5, <2>6, <3>1
      <4>2. QED BY <2>2, <4>1 DEF Held, Holding, Stored
    <3>2. CASE v # w
      <4>1. y = worker[v] /\ Held(worker[v]) /\ Apart(worker[v], worker[w])
        BY <1>1, <2>5, <2>6, <3>2 DEF WorkersInv
      <4>2. Held(y) /\ (y.pc \in Holding => y.key # k \/ y.n # n)
        BY <1>1, <1>2, <4>1 DEF Apart
      <4>3. QED BY <1>1, <1>8, <1>9, <4>2 DEF Held
    <3>3. QED BY <3>1, <3>2
  <2>7. ASSUME NEW u \in Workers, NEW v \in Workers, u # v PROVE Apart(worker'[u], worker'[v])
    <3>1. Apart(worker[u], worker[v])
      BY <1>1, <2>7 DEF WorkersInv
    <3>2. x.pc \notin Holding
      BY <2>2 DEF Holding
    <3>3. QED BY <2>5, <3>1, <3>2 DEF Apart
  <2>8. \A v \in Workers : Held(worker[v])'
    BY <2>6
  <2>9. \A u, v \in Workers : u # v => Apart(worker[u], worker[v])'
    BY <2>7
  <2>10. blobs' \subseteq Refs
    BY <1>1 DEF WorkersInv
  <2>11. QED BY <2>4, <2>8, <2>9, <2>10 DEF WorkersInv
<1>11. RunsOf' = RunsOf
  BY <1>8 DEF RunsOf
<1>12. RunsOf[k] > 0
  <2>1. Len(attempts[k]) \in Nat
    BY <1>1, AttemptTyped, <1>3
  <2>2. QED BY <1>3, <2>1 DEF Ordinals, RunsOf
<1>13. Accepted(k) = {}
  <2>1. n \notin Accepted(k)
    BY <1>7 DEF Accepted
  <2>2. QED BY <1>7, <2>1
<1>14. ResultOf[k] = NoRef
  BY <1>13 DEF ResultOf, CommittedRef
<1>15. Accepted(k)' = {n}
  <2>1. n \in Accepted(k)'
    BY <1>3, <1>6, <1>8, <1>9 DEF Accepted
  <2>2. ASSUME NEW m \in Accepted(k)' PROVE m = n
    <3>1. m \in Ordinals(k) /\ attempts'[k][m].state = "COMMITTED"
      BY <1>9 DEF Accepted
    <3>2. CASE m # n
      BY <1>8, <1>13, <3>1, <3>2 DEF Accepted
    <3>3. QED BY <3>2
  <2>3. QED BY <2>1, <2>2
<1>16. CommittedRef(k)' = r
  <2>1. n = CHOOSE m \in {n} : TRUE
    OBVIOUS
  <2>2. CommittedRef(k)' = attempts'[k][n].ref
    BY <1>15, <2>1 DEF CommittedRef
  <2>3. QED BY <1>3, <1>6, <1>8, <2>2
<1>17. ASSUME NEW j \in Items, j # k PROVE CommittedRef(j)' = CommittedRef(j)
  <2>1. Accepted(j)' = Accepted(j)
    BY <1>8, <1>9, <1>17 DEF Accepted
  <2>2. CASE Accepted(j) = {}
    BY <2>1, <2>2 DEF CommittedRef
  <2>3. CASE Accepted(j) # {}
    <3>1. PICK m : m = CHOOSE q \in Accepted(j) : TRUE
      OBVIOUS
    <3>2. m \in Ordinals(j)
      BY <2>3, <3>1 DEF Accepted
    <3>3. CommittedRef(j) = attempts[j][m].ref /\ CommittedRef(j)' = attempts'[j][m].ref
      BY <2>1, <2>3, <3>1 DEF CommittedRef
    <3>4. QED BY <1>8, <1>17, <3>2, <3>3
  <2>4. QED BY <2>2, <2>3
<1>18. ResultOf' = [ResultOf EXCEPT ![k] = r]
  BY <1>16, <1>17 DEF ResultOf
<1>19. AW!Accept(k, r)
  BY <1>1, <1>2, <1>11, <1>12, <1>14, <1>18 DEF AW!Accept, RunsOf, ResultOf
<1>20. QED BY <1>1, <1>10, <1>19

-----------------------------------------------------------------------------
\* the planner and the clock
LEMMA OutsideKeeps ==
  ASSUME CoordinatorInv, NEW k \in Items, Plan(k) \/ \E n \in Ordinals(k) : Expire(k, n)
  PROVE  WorkersInv' /\ LedgerKeeps /\ UNCHANGED blobs
<1>1. LedgerKeeps
  BY ExpireKeeps, NothingMoves DEF CoordinatorInv, Plan, Expire, EnsureWorkItem
<1>2. UNCHANGED <<worker, blobs>>
  BY DEF Plan, Expire, workerVars
<1>3. ASSUME NEW v \in Workers, NEW y, y = worker'[v] PROVE Held(y)'
  <2>1. y = worker[v] /\ Held(worker[v])
    BY <1>2, <1>3 DEF CoordinatorInv, WorkersInv
  <2>2. Held(y)
    BY <2>1
  <2>3. QED BY <1>1, <1>2, <2>2 DEF Held, LedgerKeeps, Ordinals
<1>4. \A v \in Workers : Held(worker[v])'
  BY <1>3
<1>5. \A u, v \in Workers : u # v => Apart(worker[u], worker[v])'
  BY <1>2 DEF CoordinatorInv, WorkersInv, Apart
<1>6. worker' \in [Workers -> Worker] /\ blobs' \subseteq Refs
  BY <1>2 DEF CoordinatorInv, WorkersInv
<1>7. QED BY <1>1, <1>2, <1>4, <1>5, <1>6 DEF WorkersInv

LEMMA NobodyMoves ==
  ASSUME CoordinatorInv, UNCHANGED vars
  PROVE  WorkersInv' /\ LedgerKeeps /\ UNCHANGED blobs
<1>1. UNCHANGED <<attempts, worker, blobs>>
  BY DEF vars, ledgerVars, workerVars
<1>2. WorkersInv'
  BY <1>1 DEF CoordinatorInv, WorkersInv, Held, Apart, Ordinals
<1>3. QED BY <1>1, <1>2, NothingMoves

\* a step of the coordinator calls the ledger as any client may
LEMMA LedgerIsCalled ==
  ASSUME CoordinatorInv, [Next]_vars
  PROVE  [LedgerNext]_ledgerVars
<1>1. CASE UNCHANGED vars
  BY <1>1 DEF vars
<1>2. CASE \E k \in Items : Plan(k) \/ \E n \in Ordinals(k) : Expire(k, n)
  BY <1>2 DEF Plan, Expire, LedgerNext, AttemptStep
<1>3. ASSUME NEW w \in Workers, StartRun(w) \/ RunStep(w) \/ LimitReached(w) \/ Crash(w)
      PROVE  [LedgerNext]_ledgerVars
  <2>1. WorkersInv
    BY DEF CoordinatorInv
  <2>2. CASE StartRun(w)
    BY <2>2 DEF StartRun, LedgerNext
  <2>3. CASE \/ Poll(w) \/ LoseRace(w) \/ Execute(w) \/ RegisterArtifact(w) \/ Refused(w)
             \/ RecordIncident(w) \/ LimitReached(w) \/ Crash(w)
    BY <2>3 DEF Poll, LoseRace, Execute, RegisterArtifact, Refused, RecordIncident, LimitReached,
                Crash
  <2>4. CASE ClaimItem(w)
    <3>1. worker[w].key \in Items
      BY <2>1, <2>4 DEF WorkersInv, Held, ClaimItem, At
    <3>2. QED BY <2>4, <3>1 DEF ClaimItem, LedgerNext
  <2>5. CASE Materialize(w) \/ Validated(w) \/ CommitResult(w) \/ FailRetryable(w) \/ FailFatal(w)
    <3>1. worker[w].pc \in Holding /\ (CommitResult(w) => worker[w].pc \in Stored)
      BY <2>5 DEF Materialize, Validated, CommitResult, FailRetryable, FailFatal, At, Holding, Stored
    <3>2. PICK k, n : /\ k \in Items /\ k = worker[w].key /\ n = worker[w].n /\ n \in Ordinals(k)
                      /\ CommitResult(w) => worker[w].ref \in Refs
      BY <2>1, <3>1, WorkerHolds
    <3>3. AttemptStep(k, n)
      <4>1. CASE Materialize(w)
        BY <3>2, <4>1 DEF Materialize, AttemptStep
      <4>2. CASE Validated(w)
        BY <3>2, <4>2 DEF Validated, AttemptStep
      <4>3. CASE CommitResult(w)
        BY <3>2, <4>3 DEF CommitResult, AttemptStep
      <4>4. CASE FailRetryable(w)
        BY <3>2, <4>4 DEF FailRetryable, AttemptStep, Disposition
      <4>5. CASE FailFatal(w)
        BY <3>2, <4>5 DEF FailFatal, AttemptStep, Disposition
      <4>6. QED BY <2>5, <4>1, <4>2, <4>3, <4>4, <4>5
    <3>4. QED BY <3>2, <3>3 DEF LedgerNext
  <2>6. QED BY <1>3, <2>2, <2>3, <2>4, <2>5 DEF RunStep
<1>4. QED BY <1>1, <1>2, <1>3 DEF Next

-----------------------------------------------------------------------------
\* the invariant at the start, and over every step
LEMMA CoordinatorInitInv == Init => CoordinatorInv
<1> SUFFICES ASSUME Init PROVE CoordinatorInv
  OBVIOUS
<1>1. LedgerInv
  BY LedgerInitInv DEF Init
<1>2. PICK x : x = Idle("down")
  OBVIOUS
<1>3. x \in Worker /\ x.pc = "down"
  BY <1>2 DEF Idle, Worker, PC
<1>4. worker \in [Workers -> Worker] /\ \A w \in Workers : worker[w] = x
  BY <1>2, <1>3 DEF Init
<1>5. Held(x) /\ Apart(x, x)
  BY <1>3 DEF Held, Apart, Holding, Stored
<1>6. blobs \subseteq Refs
  BY DEF Init
<1>7. QED BY <1>1, <1>4, <1>5, <1>6 DEF CoordinatorInv, WorkersInv

LEMMA CoordinatorStepPreserves == CoordinatorInv /\ [Next]_vars => CoordinatorInv'
<1> SUFFICES ASSUME CoordinatorInv, [Next]_vars PROVE CoordinatorInv'
  OBVIOUS
<1>1. LedgerInv'
  BY LedgerIsCalled, LedgerStepPreserves DEF CoordinatorInv
<1>2. CASE UNCHANGED vars
  BY <1>1, <1>2, NobodyMoves DEF CoordinatorInv
<1>3. CASE \E k \in Items : Plan(k) \/ \E n \in Ordinals(k) : Expire(k, n)
  BY <1>1, <1>3, OutsideKeeps DEF CoordinatorInv
<1>4. ASSUME NEW w \in Workers, StartRun(w) \/ RunStep(w) \/ LimitReached(w) \/ Crash(w)
      PROVE  WorkersInv'
  <2>1. Unseen(w) \/ Execute(w) \/ ClaimItem(w) \/ CommitResult(w)
    BY <1>4 DEF RunStep, Unseen
  <2>2. QED BY <2>1, UnseenKeeps, ExecuteKeeps, ClaimRuns, CommitAccepts
<1>5. QED BY <1>1, <1>2, <1>3, <1>4 DEF Next, CoordinatorInv

(* However workers crash, arrive late or find their attempt reclaimed: a   *)
(* worker holds an attempt that is in the ledger and not accepted, no two  *)
(* hold the same one, what a worker is about to commit is in the object    *)
(* store, and the ledger's own invariant holds (coordinator.py 127-240).   *)
THEOREM CoordinatorInvariant == Spec => []CoordinatorInv
BY CoordinatorInitInv, CoordinatorStepPreserves, PTL DEF Spec

(* The workers, however they interleave, are clients of the ledger and no  *)
(* more: every behaviour of theirs is one of LedgerSpec, so whatever was   *)
(* proved of the ledger for any clients holds of them (coordinator.py      *)
(* 127-240, which writes to the ledger by its methods only).               *)
THEOREM CoordinatorUsesTheLedger == Spec => LedgerSpec
<1>1. Init => LedgerInit
  BY DEF Init
<1>2. CoordinatorInv /\ [Next]_vars => [LedgerNext]_ledgerVars
  BY LedgerIsCalled
<1>3. QED BY <1>1, <1>2, CoordinatorInvariant, PTL DEF Spec, LedgerSpec

(* However workers die and come back, no item is executed more than        *)
(* max_retries + 1 times.                                                  *)
THEOREM CoordinatorKeepsTheBudget == Spec => []RetryBudgetHolds
BY CoordinatorUsesTheLedger, RetryBudgetIsKept

-----------------------------------------------------------------------------
\* what the reader sees of a step
LEMMA ReaderInit == Init => AW!Init
<1> SUFFICES ASSUME Init PROVE AW!Init
  OBVIOUS
<1>1. \A k \in Items : attempts[k] = << >>
  BY DEF Init, LedgerInit
<1>2. \A k \in Items : Len(attempts[k]) = 0
  BY <1>1
<1>3. \A k \in Items : Ordinals(k) = {}
  BY <1>2 DEF Ordinals
<1>4. \A k \in Items : CommittedRef(k) = NoRef
  BY <1>3 DEF CommittedRef, Accepted
<1>5. blobs = {}
  BY DEF Init
<1>6. QED BY <1>2, <1>4, <1>5 DEF AW!Init

LEMMA ReaderStep ==
  ASSUME CoordinatorInv, [Next]_vars
  PROVE  [AW!Next]_<<RunsOf, blobs, ResultOf>>
<1>1. ASSUME LedgerKeeps, UNCHANGED blobs PROVE [AW!Next]_<<RunsOf, blobs, ResultOf>>
  BY <1>1, ReaderSeesNothing DEF CoordinatorInv
<1>2. CASE UNCHANGED vars
  BY <1>1, <1>2, NobodyMoves
<1>3. CASE \E k \in Items : Plan(k) \/ \E n \in Ordinals(k) : Expire(k, n)
  BY <1>1, <1>3, OutsideKeeps
<1>4. ASSUME NEW w \in Workers, StartRun(w) \/ RunStep(w) \/ LimitReached(w) \/ Crash(w)
      PROVE  [AW!Next]_<<RunsOf, blobs, ResultOf>>
  <2>1. CASE Unseen(w)
    BY <1>1, <2>1, UnseenKeeps
  <2>2. CASE Execute(w)
    <3>1. LedgerKeeps
      BY <2>2, ExecuteKeeps
    <3>2. RunsOf' = RunsOf /\ ResultOf' = ResultOf
      BY <3>1, ReaderSeesNothing DEF CoordinatorInv
    <3>3. ASSUME NEW r \in Refs, blobs' = blobs \cup {r} PROVE AW!Store(r)
      BY <3>2, <3>3 DEF AW!Store, RunsOf, ResultOf
    <3>4. UNCHANGED blobs \/ \E r \in Refs : AW!Store(r)
      BY <2>2, <3>3, ExecuteKeeps
    <3>5. (\E r \in Refs : AW!Store(r)) => AW!Next
      BY Zenon DEF AW!Next
    <3>6. QED BY <3>2, <3>4, <3>5
  <2>3. CASE ClaimItem(w)
    <3>1. \E k \in Items : AW!Run(k)
      BY <2>3, ClaimRuns
    <3>2. QED BY <3>1, Zenon DEF AW!Next
  <2>4. CASE CommitResult(w)
    <3>1. \E k \in Items, r \in Refs : AW!Accept(k, r)
      BY <2>4, CommitAccepts
    <3>2. QED BY <3>1, Zenon DEF AW!Next
  <2>5. QED BY <1>4, <2>1, <2>2, <2>3, <2>4 DEF RunStep, Unseen
<1>5. QED BY <1>2, <1>3, <1>4 DEF Next

(* Readers of the results see AcceptedWork: each item is handed to the     *)
(* executor at most max_retries + 1 times, one of its runs at most is      *)
(* accepted, and committed_ref, once set, never changes and names bytes    *)
(* that were stored first (ledger.py 21-29, coordinator.py:3-7).           *)
THEOREM ReadersSeeAcceptedWork == Spec => ImplementsAcceptedWork
<1>1. Init => AW!Init
  BY ReaderInit
<1>2. CoordinatorInv /\ [Next]_vars => [AW!Next]_<<RunsOf, blobs, ResultOf>>
  BY ReaderStep
<1>3. QED
  BY <1>1, <1>2, CoordinatorInvariant, PTL DEF Spec, ImplementsAcceptedWork, AW!Spec, RunsOf, ResultOf

-----------------------------------------------------------------------------
\* the columns no other part of the invariant speaks of
RowsTyped ==
  /\ artifact \in [Refs -> Items \cup {NoItem}]
  /\ incidents \in SUBSET Items
  /\ interruptions \in 0..MaxInterruptions

LEMMA RowsKept ==
  ASSUME CoordinatorInv, RowsTyped, [Next]_vars
  PROVE  RowsTyped'
<1>1. CASE UNCHANGED vars
  BY <1>1 DEF vars, workerVars, RowsTyped
<1>2. CASE \E k \in Items : Plan(k) \/ \E n \in Ordinals(k) : Expire(k, n)
  BY <1>2 DEF Plan, Expire, workerVars, RowsTyped
<1>3. ASSUME NEW w \in Workers, StartRun(w) \/ RunStep(w) \/ LimitReached(w) \/ Crash(w)
      PROVE  RowsTyped'
  <2>1. CASE \/ StartRun(w) \/ Poll(w) \/ ClaimItem(w) \/ LoseRace(w) \/ Execute(w)
             \/ Materialize(w) \/ Validated(w)
    BY <2>1 DEF StartRun, Poll, ClaimItem, LoseRace, Execute, Materialize, Validated, RowsTyped
  <2>2. CASE CommitResult(w) \/ Refused(w) \/ FailRetryable(w) \/ FailFatal(w)
    BY <2>2 DEF CommitResult, Refused, FailRetryable, FailFatal, RowsTyped
  <2>3. CASE LimitReached(w) \/ Crash(w)
    <3>1. interruptions' = interruptions + 1 /\ interruptions < MaxInterruptions
          /\ UNCHANGED <<artifact, incidents>>
      BY <2>3 DEF LimitReached, Crash
    <3>2. QED BY <3>1, CoordinatorAssumption DEF RowsTyped
  <2>4. CASE RegisterArtifact(w)
    <3>1. worker[w].pc \in Holding /\ worker[w].pc \in Stored
      BY <2>4 DEF RegisterArtifact, At, Holding, Stored
    <3>2. worker[w].key \in Items /\ worker[w].ref \in Refs
      BY <3>1, WorkerHolds DEF CoordinatorInv
    <3>3. QED BY <2>4, <3>2 DEF RegisterArtifact, RowsTyped
  <2>5. CASE RecordIncident(w)
    <3>1. worker[w].pc \in Holding
      BY <2>5 DEF RecordIncident, At, Holding
    <3>2. worker[w].key \in Items
      BY <3>1, WorkerHolds DEF CoordinatorInv
    <3>3. QED BY <2>5, <3>2 DEF RecordIncident, RowsTyped
  <2>6. QED BY <1>3, <2>1, <2>2, <2>3, <2>4, <2>5 DEF RunStep
<1>4. QED BY <1>1, <1>2, <1>3 DEF Next

(* The rows, the workers' holdings and the store keep their types.         *)
THEOREM CoordinatorTypeCorrect == Spec => []TypeOK
<1>1. Init => RowsTyped
  BY CoordinatorAssumption DEF Init, RowsTyped
<1>2. CoordinatorInv /\ RowsTyped /\ [Next]_vars => RowsTyped'
  BY RowsKept
<1>3. CoordinatorInv /\ RowsTyped => TypeOK
  BY DEF CoordinatorInv, LedgerInv, WorkersInv, RowsTyped, TypeOK
<1>4. QED BY <1>1, <1>2, <1>3, CoordinatorInvariant, PTL DEF Spec
=============================================================================
