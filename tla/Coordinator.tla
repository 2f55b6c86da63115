----------------------------- MODULE Coordinator ----------------------------
(***************************************************************************)
(* The coordinator loop of src/shapeflow/experiment/coordinator.py, run by *)
(* several worker processes over one ledger and one object store.  A       *)
(* worker is between two steps wherever the code is between two ledger     *)
(* transactions, so that workers interleave, die and find their attempt    *)
(* reclaimed at every point where the code lets them.                      *)
(***************************************************************************)
EXTENDS WorkLedger

CONSTANTS Workers,
          NoItem,
          MaxInterruptions  \* bound: crashes, and runs cut short by a limit

ASSUME CoordinatorAssumption ==
  /\ NoItem \notin Items
  /\ MaxInterruptions \in Nat

VARIABLES worker,        \* worker[w]: the control state of process w
          blobs,         \* the keys of the object store
          artifact,      \* artifact[r]: work_key of the artifacts row of r
          incidents,     \* the items with a fatal protocol_error incident
          interruptions

workerVars == <<worker, blobs, artifact, incidents, interruptions>>
vars == <<ledgerVars, workerVars>>

\* the point a worker has reached; "down": no process, or run() has returned
PC == {"down", "poll", "claim", "execute", "register", "materialize",
       "validated", "commit", "retryable", "fatal", "incident"}

\* n: the ordinal of the attempt it holds; ref: the blob it has stored
Worker == [pc : PC, key : Items \cup {NoItem}, n : Nat, ref : Refs \cup {NoRef}]

Idle(pc) == [pc |-> pc, key |-> NoItem, n |-> 0, ref |-> NoRef]

TypeOK ==
  /\ LedgerTypeOK
  /\ worker \in [Workers -> Worker]
  /\ blobs \in SUBSET Refs
  /\ artifact \in [Refs -> Items \cup {NoItem}]
  /\ incidents \in SUBSET Items
  /\ interruptions \in 0..MaxInterruptions

At(w, pc)   == worker[w].pc = pc
Goto(w, pc) == worker' = [worker EXCEPT ![w].pc = pc]
Leave(w, pc) == worker' = [worker EXCEPT ![w] = Idle(pc)]

Init ==
  /\ LedgerInit
  /\ worker = [w \in Workers |-> Idle("down")]
  /\ blobs = {}
  /\ artifact = [r \in Refs |-> NoItem]
  /\ incidents = {}
  /\ interruptions = 0

-----------------------------------------------------------------------------
\* run() is called: resume() before anything else
StartRun(w) ==
  /\ At(w, "down")
  /\ ReclaimStale
  /\ Goto(w, "poll")
  /\ UNCHANGED <<blobs, artifact, incidents, interruptions>>

Pending == {k \in Items : item[k].state = "PENDING"}

\* pending_keys(limit=1); which pending item comes first is left open
Poll(w) ==
  /\ At(w, "poll")
  /\ \/ /\ Pending = {}
        /\ Leave(w, "down")
     \/ \E k \in Pending :
          worker' = [worker EXCEPT ![w] = [Idle("claim") EXCEPT !.key = k]]
  /\ UNCHANGED <<ledgerVars, blobs, artifact, incidents, interruptions>>

\* max_items reached, or the budget spent: run() returns
LimitReached(w) ==
  /\ At(w, "poll")
  /\ interruptions < MaxInterruptions
  /\ interruptions' = interruptions + 1
  /\ Leave(w, "down")
  /\ UNCHANGED <<ledgerVars, blobs, artifact, incidents>>

ClaimItem(w) ==
  /\ At(w, "claim")
  /\ Claim(worker[w].key)
  /\ worker' = [worker EXCEPT ![w].pc = "execute",
                              ![w].n = Len(attempts[worker[w].key]) + 1]
  /\ UNCHANGED <<blobs, artifact, incidents, interruptions>>

\* raced away: nothing happened in this round, and run() stops
LoseRace(w) ==
  /\ At(w, "claim")
  /\ item[worker[w].key].state # "PENDING"
  /\ Leave(w, "down")
  /\ UNCHANGED <<ledgerVars, blobs, artifact, incidents, interruptions>>

\* The injected executor returns bytes, which put_bytes stores under their
\* hash, or raises; any other exception than these two is Crash.
Execute(w) ==
  /\ At(w, "execute")
  /\ \/ \E r \in Refs :
          /\ blobs' = blobs \cup {r}
          /\ worker' = [worker EXCEPT ![w].pc = "register", ![w].ref = r]
     \/ /\ \E pc \in {"retryable", "fatal"} : Goto(w, pc)
        /\ UNCHANGED blobs
  /\ UNCHANGED <<ledgerVars, artifact, incidents, interruptions>>

\* INSERT OR IGNORE by object_ref: the first item to store these bytes keeps them
RegisterArtifact(w) ==
  /\ At(w, "register")
  /\ artifact' = [artifact EXCEPT ![worker[w].ref] = IF @ = NoItem THEN worker[w].key ELSE @]
  /\ Goto(w, "materialize")
  /\ UNCHANGED <<ledgerVars, blobs, incidents, interruptions>>

\* after MATERIALIZED the injected validator accepts the bytes or raises
Materialize(w) ==
  /\ At(w, "materialize")
  /\ Advance(worker[w].key, worker[w].n, "MATERIALIZED")
  /\ \E pc \in {"validated", "retryable", "fatal"} : Goto(w, pc)
  /\ UNCHANGED <<blobs, artifact, incidents, interruptions>>

Validated(w) ==
  /\ At(w, "validated")
  /\ Advance(worker[w].key, worker[w].n, "VALIDATED")
  /\ Goto(w, "commit")
  /\ UNCHANGED <<blobs, artifact, incidents, interruptions>>

CommitResult(w) ==
  /\ At(w, "commit")
  /\ Commit(worker[w].key, worker[w].n, worker[w].ref)
  /\ Leave(w, "poll")
  /\ UNCHANGED <<blobs, artifact, incidents, interruptions>>

\* IllegalTransition or LedgerError leaves _process and run(): nothing
\* catches it, and the attempt stays as it is until its lease runs out.
Refused(w) ==
  /\ \/ At(w, "materialize") /\ ~CanAdvance(worker[w].key, worker[w].n, "MATERIALIZED")
     \/ At(w, "validated") /\ ~CanAdvance(worker[w].key, worker[w].n, "VALIDATED")
     \/ At(w, "commit") /\ ~CanCommit(worker[w].key, worker[w].n)
  /\ Leave(w, "down")
  /\ UNCHANGED <<ledgerVars, blobs, artifact, incidents, interruptions>>

FailRetryable(w) ==
  /\ At(w, "retryable")
  /\ Fail(worker[w].key, worker[w].n, "FAILED_RETRYABLE", NoRef)
  /\ Leave(w, "poll")
  /\ UNCHANGED <<blobs, artifact, incidents, interruptions>>

FailFatal(w) ==
  /\ At(w, "fatal")
  /\ Fail(worker[w].key, worker[w].n, "FAILED_FINAL", NoRef)
  /\ Goto(w, "incident")
  /\ UNCHANGED <<blobs, artifact, incidents, interruptions>>

\* record_incident is a transaction of its own; a fatal error then ends run()
RecordIncident(w) ==
  /\ At(w, "incident")
  /\ incidents' = incidents \cup {worker[w].key}
  /\ Leave(w, "down")
  /\ UNCHANGED <<ledgerVars, blobs, artifact, interruptions>>

\* The process dies, or an exception nothing catches ends run().
Crash(w) ==
  /\ ~At(w, "down")
  /\ interruptions < MaxInterruptions
  /\ interruptions' = interruptions + 1
  /\ Leave(w, "down")
  /\ UNCHANGED <<ledgerVars, blobs, artifact, incidents>>

\* the planner adds an item; time passes
Plan(k) == EnsureWorkItem(k) /\ UNCHANGED workerVars
Expire(k, n) == LeaseExpires(k, n) /\ UNCHANGED workerVars

RunStep(w) ==
  \/ Poll(w) \/ ClaimItem(w) \/ LoseRace(w) \/ Execute(w) \/ RegisterArtifact(w)
  \/ Materialize(w) \/ Validated(w) \/ CommitResult(w) \/ Refused(w)
  \/ FailRetryable(w) \/ FailFatal(w) \/ RecordIncident(w)

Next ==
  \/ \E w \in Workers : StartRun(w) \/ RunStep(w) \/ LimitReached(w) \/ Crash(w)
  \/ \E k \in Items : Plan(k) \/ \E n \in Ordinals(k) : Expire(k, n)

Spec == Init /\ [][Next]_vars

(* Fairness: a live process keeps going, the campaign is re-run when its   *)
(* run has returned or died (the interruptions are bounded), the planner   *)
(* finishes, and the clock passes every lease: nothing calls heartbeat.    *)
Fairness ==
  /\ \A w \in Workers : WF_vars(StartRun(w)) /\ WF_vars(RunStep(w))
  /\ \A k \in Items : /\ WF_vars(Plan(k))
                      /\ \A n \in 1..(MaxRetries[k] + 1) :
                           WF_vars(n \in Ordinals(k) /\ Expire(k, n))

FairSpec == Spec /\ Fairness

-----------------------------------------------------------------------------
(* Readers of the results see AcceptedWork: however workers crash, arrive  *)
(* late or reopen an item, committed_ref never changes once it is set, its *)
(* bytes are in the store first, and executions are bounded (ledger.py     *)
(* 21-29, coordinator.py:3-7).                                             *)
AW == INSTANCE AcceptedWork WITH
        runs   <- [k \in Items |-> Len(attempts[k])],
        stored <- blobs,
        result <- [k \in Items |-> CommittedRef(k)]

ImplementsAcceptedWork == AW!Spec

(* Every planned item comes to rest in a terminal state, whatever workers  *)
(* die holding it: its lease runs out, the next run() reclaims it, and the *)
(* retries are finite.                                                     *)
EveryItemSettles == \A k \in Items : <>[](item[k].state \in Terminal)

(* The diagram of ledger.py:36-47 marks COMMITTED* as terminal.            *)
CommittedIsTerminal ==
  [][\A k \in Items : item[k].state = "COMMITTED" => item'[k].state = "COMMITTED"]_vars
=============================================================================
