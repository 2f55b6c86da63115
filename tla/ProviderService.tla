--------------------------- MODULE ProviderService --------------------------
(***************************************************************************)
(* The provider, the one process that buys calls:                          *)
(* src/shapeflow/runtime/provider_server.py.  Each request is served by a  *)
(* thread of its own; a step here is one transaction, one lock region or   *)
(* the upstream's answer, so threads interleave between them.  The paid    *)
(* routes (exa_search, tavily_search, deepseek_chat) follow one protocol   *)
(* and differ in what they charge when the upstream does not say.          *)
(*                                                                         *)
(* A crash kills every thread and the failure counts; rows survive, and    *)
(* the next process reconciles them before it listens.                     *)
(***************************************************************************)
EXTENDS ExternalCalls, FiniteSets

CONSTANTS Threads,     \* bound: requests served at once
          Providers,
          prov,        \* prov[c]: the provider that sells c
          Searches,    \* the calls of exa and tavily; the others are deepseek's
          Costs,       \* what an answered call may really cost, in usd
          Limit,       \* max_consecutive_failures
          MaxCrashes,  \* bound: restarts
          None

ASSUME ServiceAssumption ==
  /\ Resources = {"requests", "usd"}
  /\ prov \in [Calls -> Providers]
  /\ Searches \subseteq Calls
  /\ Costs \subseteq Nat
  /\ \A u \in Costs \cup {0} \cup {Worst[c]["usd"] : c \in Calls} :
       [requests |-> 1, usd |-> u] \in Actuals
  /\ IsFiniteSet(Threads)
  /\ Limit \in Nat \ {0} /\ MaxCrashes \in Nat
  /\ None \notin Providers \cup Calls

VARIABLES thread,    \* thread[t]: the next step of t's request, its call, the
                     \* ordinal of its attempt and the upstream's reply
          serving,   \* FALSE from a crash to the end of reconcile_on_start
          failures,  \* _consecutive_failures
          latest,    \* latest[k]: whom the newest FATAL incident of kind k names
          crashes,
          fenced,    \* history: the providers a FATAL incident was raised for
          spare,     \* spare[p]: history: the requests past the read of the
                     \* incident that first fenced p, less those sent since
          heard,     \* heard[c][n]: history: what became of attempt n of c
                     \* upstream, its true cost with it
          answers    \* history: the calls answered 200, with the body

serviceVars == <<thread, serving, failures, latest, crashes,
                 fenced, spare, heard, answers>>
vars == <<callVars, serviceVars>>

\* _BREAKER_INCIDENTS, in the order they are looked up
Kinds == {"provider_unauthorized", "provider_consecutive_failures"}

Reply == [status : {"none", "silence", "error", "unauthorized", "ok", "malformed"},
          usd : Nat, reported : BOOLEAN, body : Responses \cup {NoResponse}]
NoReply == [status |-> "none", usd |-> 0, reported |-> FALSE, body |-> NoResponse]

\* What the upstream may make of a call: silence or an error may be billed like an answer; an
\* answer may omit what it cost (a search's error is not asked for it); a body of NoResponse is one
\* over max_frozen_response_bytes; a malformed payload is not an object.
Replies(c) ==
  [status : {"silence", "malformed"}, usd : Costs, reported : {FALSE}, body : {NoResponse}]
  \cup [status : {"error", "unauthorized"}, usd : Costs,
        reported : {FALSE, c \notin Searches}, body : {NoResponse}]
  \cup [status : {"ok"}, usd : Costs, reported : BOOLEAN, body : Responses \cup {NoResponse}]

Steps == {"idle", "fence", "fence2", "open", "replay", "begin", "reserve", "refused", "send", "upstream",
          "settle", "note", "record", "store", "validate", "commit"}
Thread == [pc : Steps, call : Calls \cup {None}, n : Nat, reply : Reply]
Idle == [pc |-> "idle", call |-> None, n |-> 0, reply |-> NoReply]

TypeOK ==
  /\ CallsTypeOK
  /\ thread \in [Threads -> Thread]
  /\ serving \in BOOLEAN
  /\ failures \in [Providers -> Nat]
  /\ latest \in [Kinds -> Providers \cup {None}]
  /\ crashes \in 0..MaxCrashes
  /\ fenced \subseteq Providers
  /\ spare \in [Providers -> Int]
  /\ heard \in [Calls -> [1..MaxAttempts -> Reply]]
  /\ answers \subseteq Calls \X (Responses \cup {NoResponse})

ServiceInit ==
  /\ Init
  /\ thread = [t \in Threads |-> Idle]
  /\ serving = TRUE
  /\ failures = [p \in Providers |-> 0]
  /\ latest = [k \in Kinds |-> None]
  /\ crashes = 0
  /\ fenced = {}
  /\ spare = [p \in Providers |-> 0]
  /\ heard = [c \in Calls |-> [n \in 1..MaxAttempts |-> NoReply]]
  /\ answers = {}

-----------------------------------------------------------------------------
\* thread t serves call c and its next step is pc
Serves(t, c, pc) == thread[t].pc = pc /\ thread[t].call = c
Goto(t, pc) == thread' = [thread EXCEPT ![t].pc = pc]
Reply200(t, c, p) == thread' = [thread EXCEPT ![t] = Idle] /\ answers' = answers \cup {<<c, p>>}
Refuse(t) == thread' = [thread EXCEPT ![t] = Idle]

ledgerOnly == <<serving, failures, latest, crashes, fenced, spare>>
histories  == <<fenced, spare, heard, answers>>

(* require_breaker_closed: the count in memory, then the newest durable    *)
(* incident of one kind and of the other: three reads, and an incident may *)
(* be recorded between any two.                                            *)
Arrive(t, c) ==
  /\ serving /\ thread[t] = Idle
  /\ failures[prov[c]] < Limit
  /\ thread' = [thread EXCEPT ![t] = [Idle EXCEPT !.pc = "fence", !.call = c]]
  /\ UNCHANGED <<callVars, serving, failures, latest, crashes, histories>>

\* Mutant: only the incidents of the counter are consulted
NamesCounted(kind, p) == kind = "provider_consecutive_failures" /\ latest[kind] = p

Names(kind, p) == latest[kind] = p

CheckFence(t, c, kind, after) ==
  /\ \/ Names(kind, prov[c]) /\ Refuse(t)
     \/ ~Names(kind, prov[c]) /\ Goto(t, after)
  /\ UNCHANGED <<callVars, serving, failures, latest, crashes, histories>>

CheckUnauthorized(t, c) ==
  Serves(t, c, "fence") /\ CheckFence(t, c, "provider_unauthorized", "fence2")
CheckFailures(t, c) ==
  Serves(t, c, "fence2") /\ CheckFence(t, c, "provider_consecutive_failures", "open")

Open(t, c) ==
  /\ Serves(t, c, "open")
  /\ OpenCall(c)
  /\ Goto(t, "replay")
  /\ UNCHANGED <<ledgerOnly, heard, answers>>

\* _replayed
Replay(t, c) ==
  /\ Serves(t, c, "replay")
  /\ \/ call[c].state = "COMMITTED" /\ Reply200(t, c, CommittedResponse(c))
     \/ call[c].state # "COMMITTED" /\ Goto(t, "begin") /\ UNCHANGED answers
  /\ UNCHANGED <<callVars, ledgerOnly, heard>>

\* begin_attempt, or 409 when it raises CallNotReplayable
Begin(t, c) ==
  /\ Serves(t, c, "begin")
  /\ \/ /\ BeginAttempt(c)
        /\ thread' = [thread EXCEPT ![t].pc = "reserve", ![t].n = Len(attempts[c]) + 1]
     \/ /\ ~CanBegin(c) /\ call[c].state # "COMMITTED"
        /\ Refuse(t) /\ UNCHANGED callVars
     \/ /\ CanBegin(c) /\ Len(attempts[c]) = MaxAttempts  \* the bound: no code
        /\ Refuse(t) /\ UNCHANGED callVars
  /\ UNCHANGED <<ledgerOnly, heard, answers>>

\* CallAlreadyCommitted is not caught: the dispatcher answers 500
BeginOnCommitted(t, c) ==
  /\ Serves(t, c, "begin")
  /\ call[c].state = "COMMITTED"
  /\ Refuse(t)
  /\ UNCHANGED <<callVars, ledgerOnly, heard, answers>>

ReserveCall(t, c) ==
  /\ Serves(t, c, "reserve")
  /\ \/ Reserve(c, thread[t].n) /\ Goto(t, "send")
     \/ ~Affordable(c) /\ Goto(t, "refused") /\ UNCHANGED callVars    \* BudgetExceeded
  /\ UNCHANGED <<ledgerOnly, heard, answers>>

\* the attempt is closed in a transaction of its own, then 429
CloseRefused(t, c) ==
  /\ Serves(t, c, "refused")
  /\ EndUnresolved(c, thread[t].n, "FAILED_FINAL")
  /\ Refuse(t)
  /\ UNCHANGED <<ledgerOnly, heard, answers>>

Send(t, c) ==
  /\ Serves(t, c, "send")
  /\ MarkSent(c, thread[t].n)
  /\ Goto(t, "upstream")
  /\ spare' = [spare EXCEPT ![prov[c]] = @ - IF prov[c] \in fenced THEN 1 ELSE 0]
  /\ UNCHANGED <<serving, failures, latest, crashes, fenced, heard, answers>>

Upstream(t, c) ==
  /\ Serves(t, c, "upstream")
  /\ \E r \in Replies(c) :
       /\ thread' = [thread EXCEPT ![t].pc = "settle", ![t].reply = r]
       /\ heard' = [heard EXCEPT ![c][thread[t].n] = r]
  /\ UNCHANGED <<callVars, ledgerOnly, answers>>

-----------------------------------------------------------------------------
(* What the routes charge.  A search that failed is charged its request    *)
(* only; a search that did not say its cost is charged the worst case; the *)
(* chat route charges the usage the payload carries, whatever the status.  *)
Charged(usd) == [requests |-> 1, usd |-> usd]
Reported(r) == IF r.reported THEN r.usd ELSE 0

SuccessCharge(c, r) ==
  Charged(IF c \in Searches /\ ~r.reported THEN Worst[c]["usd"] ELSE Reported(r))
FailureCharge(c, r) == Charged(IF c \in Searches THEN 0 ELSE Reported(r))

Sent(t, c, status) == Serves(t, c, "settle") /\ thread[t].reply.status = status

\* sent, then silence
Silent(t, c) ==
  /\ Sent(t, c, "silence")
  /\ FailUnknown(c, thread[t].n)
  /\ Refuse(t)
  /\ UNCHANGED <<ledgerOnly, heard, answers>>

HttpError(t, c) ==
  /\ Sent(t, c, "error") \/ Sent(t, c, "unauthorized")
  /\ FailAfterResponse(c, thread[t].n, FailureCharge(c, thread[t].reply))
  /\ Goto(t, "note")
  /\ UNCHANGED <<ledgerOnly, heard, answers>>

\* p's threads that an incident of this kind comes too late for: past its read, and not sent yet
PastRead(p, kind) ==
  {t \in Threads :
     /\ thread[t].pc \in {"open", "replay", "begin", "reserve", "send"}
                         \cup {pc \in {"fence2"} : kind = "provider_unauthorized"}
     /\ prov[thread[t].call] = p}

\* _note_upstream_failure: the count under the lock, then the incident
Fatal(t, count) == thread[t].reply.status = "unauthorized" \/ count >= Limit

NoteFailure(t, c) ==
  /\ Serves(t, c, "note")
  /\ failures' = [failures EXCEPT ![prov[c]] = @ + 1]
  /\ IF Fatal(t, failures'[prov[c]]) THEN Goto(t, "record") ELSE Refuse(t)
  /\ UNCHANGED <<callVars, serving, latest, crashes, histories>>

KindOf(r) == IF r.status = "unauthorized" THEN "provider_unauthorized"
             ELSE "provider_consecutive_failures"

RecordFatal(t, c) ==
  /\ Serves(t, c, "record")
  /\ latest' = [latest EXCEPT ![KindOf(thread[t].reply)] = prov[c]]
  /\ fenced' = fenced \cup {prov[c]}
  /\ spare' = [spare EXCEPT ![prov[c]] =
                 IF prov[c] \in fenced THEN @
                 ELSE Cardinality(PastRead(prov[c], KindOf(thread[t].reply)))]
  /\ Refuse(t)
  /\ UNCHANGED <<callVars, serving, failures, crashes, heard, answers>>

\* _note_upstream_success, then the body is frozen or refused
TooLarge(t, c) ==
  /\ Sent(t, c, "ok") /\ thread[t].reply.body = NoResponse
  /\ failures' = [failures EXCEPT ![prov[c]] = 0]
  /\ FailAfterResponse(c, thread[t].n, FailureCharge(c, thread[t].reply))
  /\ Refuse(t)
  /\ UNCHANGED <<serving, latest, crashes, histories>>

\* the count is reset first; nothing of this thread's is read between
Freeze(t, c) ==
  /\ Sent(t, c, "ok") /\ thread[t].reply.body # NoResponse
  /\ failures' = [failures EXCEPT ![prov[c]] = 0]
  /\ StoreResponse(c, thread[t].n, thread[t].reply.body)
  /\ Goto(t, "validate")
  /\ UNCHANGED <<serving, latest, crashes, histories>>

ValidateCall(t, c) ==
  /\ Serves(t, c, "validate")
  /\ Validate(c, thread[t].n)
  /\ Goto(t, "commit")
  /\ UNCHANGED <<ledgerOnly, heard, answers>>

CommitCall(t, c) ==
  /\ Serves(t, c, "commit")
  /\ Commit(c, thread[t].n, SuccessCharge(c, thread[t].reply))
  /\ Reply200(t, c, thread[t].reply.body)
  /\ UNCHANGED <<ledgerOnly, heard>>

\* a payload that is not an object: AttributeError, 500, the attempt stays SENT
Raise(t, c) ==
  /\ Sent(t, c, "malformed")
  /\ failures' = IF c \in Searches THEN [failures EXCEPT ![prov[c]] = 0] ELSE failures
  /\ Refuse(t)
  /\ UNCHANGED <<callVars, serving, latest, crashes, histories>>

-----------------------------------------------------------------------------
Crash ==
  /\ serving /\ crashes < MaxCrashes
  /\ crashes' = crashes + 1
  /\ serving' = FALSE
  /\ thread' = [t \in Threads |-> Idle]
  /\ failures' = [p \in Providers |-> 0]
  /\ spare' = [p \in Providers |-> 0]
  /\ UNCHANGED <<callVars, latest, fenced, heard, answers>>

\* Mutants: an attempt that was sent is released; an unsent one is skipped;
\* the state is corrected and the reservation forgotten
ReconciledUnheard(c, n) == FailBeforeSend(c, n)
ReconciledSent(c, n) == attempts[c][n].state \in SentStates /\ FailUnknown(c, n)
ReconciledStateOnly(c, n) ==
  EndUnresolved(c, n, IF attempts[c][n].state \in SentStates THEN "FAILED_UNKNOWN" ELSE "FAILED_FINAL")

\* reconcile_on_start, one live attempt at a time
Reconciled(c, n) ==
  \/ attempts[c][n].state \in SentStates /\ FailUnknown(c, n)
  \/ attempts[c][n].state \notin SentStates /\ FailBeforeSend(c, n)

Reconcile ==
  /\ ~serving
  /\ \E c \in Calls : \E n \in LiveOf(c) : Reconciled(c, n)
  /\ UNCHANGED serviceVars

Serve ==
  /\ ~serving
  /\ \A c \in Calls : LiveOf(c) = {}
  /\ serving' = TRUE
  /\ UNCHANGED <<callVars, thread, failures, latest, crashes, histories>>

-----------------------------------------------------------------------------
ThreadStep(t, c) ==
  \/ CheckUnauthorized(t, c) \/ CheckFailures(t, c)
  \/ Open(t, c) \/ Replay(t, c) \/ Begin(t, c) \/ BeginOnCommitted(t, c)
  \/ ReserveCall(t, c) \/ CloseRefused(t, c) \/ Send(t, c) \/ Upstream(t, c)
  \/ Silent(t, c) \/ HttpError(t, c) \/ NoteFailure(t, c) \/ RecordFatal(t, c)
  \/ TooLarge(t, c) \/ Freeze(t, c) \/ ValidateCall(t, c) \/ CommitCall(t, c) \/ Raise(t, c)

ServiceNext ==
  \/ \E t \in Threads, c \in Calls : Arrive(t, c) \/ ThreadStep(t, c)
  \/ Crash \/ Reconcile \/ Serve

ServiceSpec == ServiceInit /\ [][ServiceNext]_vars

\* a thread runs on (the upstream client has a timeout), and a process that
\* starts reconciles and listens; nobody has to send a request or to crash
Fairness ==
  /\ \A t \in Threads : WF_vars(\E c \in Calls : ThreadStep(t, c))
  /\ WF_vars(Reconcile \/ Serve)

LiveSpec == ServiceSpec /\ Fairness

-----------------------------------------------------------------------------
(* The attempts that are over and were charged less than they cost.        *)
Undercounted ==
  {a \in Calls \X (1..MaxAttempts) :
     /\ a[2] \in Ordinals(a[1])
     /\ attempts[a[1]][a[2]].state \notin Live
     /\ attempts[a[1]][a[2]].charged["usd"] < heard[a[1]][a[2]].usd}

(* "Under-counting a possible charge is the one error this module refuses  *)
(* to make" (budget.py:18).  The routes do not keep it even for a call     *)
(* answered with a 200 (1102-1105, 1289-1320); see CostsAreKept.           *)
AnswersAreCharged == \A a \in Undercounted : heard[a[1]][a[2]].status # "ok"

\* the answers a route settles without a price: a search that failed, or whose body is too large
\* to freeze; a chat whose payload carries no usage
Unpriced(c, r) ==
  IF c \in Searches THEN r.status \in {"error", "unauthorized"} \/ (r.status = "ok" /\ r.body = NoResponse)
  ELSE r.status \in {"error", "unauthorized", "ok"} /\ ~r.reported

(* What the budget refuses to do happens only on an answer the route read  *)
(* and put no price on; never because the upstream was silent, the process *)
(* died or was restarted, an answer was malformed, or a purchase came too  *)
(* late for its reply (keep_worst_case, reconcile_on_start, the routes).   *)
CostsAreKept == \A a \in Undercounted : Unpriced(a[1], heard[a[1]][a[2]])

(* The provider leaves no money behind: a reservation stands while its     *)
(* attempt is in flight and not a step longer, over refusals, deaths and   *)
(* restarts, although the ledger would let it (EndUnresolved).             *)
Settled(a) ==
  /\ a.money = "RESERVED" => a.state \in Live \ {"INTENT"}
  /\ a.state \in {"COMMITTED", "FAILED_UNKNOWN"} => a.money = "SETTLED"

NothingLeftStanding == \A c \in Calls : \A n \in Ordinals(c) : Settled(attempts[c][n])

(* Once a FATAL incident names a provider, only the requests that were     *)
(* past the read that could have shown it are still sent, and none after a *)
(* restart: require_breaker_closed (564-590).                              *)
FenceHolds == \A p \in fenced : spare[p] >= 0

(* The same as long as every FATAL incident names one provider: those of   *)
(* another may come to be the newest of their kind, and hide its fence.    *)
FenceHoldsForOne == \A p \in fenced : fenced = {p} => spare[p] >= 0

\* what Raise leaves: no thread will come back to the attempt
Wedged(c, n) ==
  /\ serving /\ heard[c][n].status = "malformed" /\ attempts[c][n].state = "SENT"
  /\ \A t \in Threads : thread[t].call # c \/ thread[t].n # n

(* Every attempt comes to its end, its money resolved, over any restart;   *)
(* only an answer the dispatcher could not read leaves one in flight, and  *)
(* then no longer than to the next start (reconcile_on_start, 478-507).    *)
(* Attempts and restarts are bounded here, so it comes to hold for good.   *)
EveryAttemptEnds == <>[](\A c \in Calls : \A n \in LiveOf(c) : Wedged(c, n))
=============================================================================
