--------------------------- MODULE InferenceProxy ---------------------------
(***************************************************************************)
(* The inference route of runtime/provider_server.py in front of one       *)
(* engine: a call's number, its attempt in the ledger, the admission gate, *)
(* what is recorded of the service, and the work object that               *)
(* runtime/work_accounting.py reads back.  Engine and provider fail        *)
(* separately: a request the provider gave up on is still being served.    *)
(* The books of the reserved GPU seconds are in ExternalCalls.             *)
(***************************************************************************)
EXTENDS Integers, FiniteSets

CONSTANTS Requests, body,   \* body[r]: cell, op class and prompt of a request
          MaxInflight,      \* max_upstream_inflight
          MaxCrashes,       \* bound: ends of the provider process
          None

\* an attempt that ended
Terminal == {"COMMITTED", "FAILED_FINAL", "FAILED_UNKNOWN"}

ASSUME ProxyAssumption ==
  /\ DOMAIN body = Requests
  /\ MaxInflight \in Nat \ {0} /\ MaxCrashes \in Nat
  /\ None \notin {"INTENT", "BUDGET_RESERVED", "SENT", "RESPONSE_STORED"} \cup Terminal

VARIABLES client,    \* client[r]: what the caller has seen of its request
          calls,     \* calls[r]: handler thread, call id, attempt in the ledger
          provider,  \* the process: up, nonce counter, free places, registered cell
          engine,    \* the requests vLLM is working on
          crashes,
          worked,    \* history: the requests vLLM ever worked on
          shared     \* history: pairs it worked on at the same time
proxyVars == <<client, calls, provider, engine, crashes, worked, shared>>

NoCall == [pc |-> "none", id |-> None, state |-> None, dispatched |-> FALSE, ended |-> FALSE]

ProxyInit ==
  /\ client = [r \in Requests |-> "idle"]
  /\ calls = [r \in Requests |-> NoCall]
  /\ provider = [up |-> TRUE, nonce |-> 0, free |-> MaxInflight, registered |-> TRUE]
  /\ engine = {} /\ crashes = 0 /\ worked = {} /\ shared = {}

HandlerAt(r, pc) == calls[r].pc = pc
Opened == {r \in Requests : calls[r].state # None}

\* the answer reaches the caller if it still waits
Tell(r, a) == client' = [client EXCEPT ![r] = IF @ = "waiting" THEN a ELSE @]

(* ProviderClient.chat_completions: one request, never sent again           *)
Post(r) ==
  /\ client[r] = "idle"
  /\ IF provider.up
     THEN /\ client' = [client EXCEPT ![r] = "waiting"]
          /\ calls' = [calls EXCEPT ![r].pc = "arrived"]
     ELSE client' = [client EXCEPT ![r] = "failed"] /\ UNCHANGED calls
  /\ UNCHANGED <<provider, engine, crashes, worked, shared>>

\* register_cell: the same coordinates again are the same cell
Register == provider.up /\ provider' = [provider EXCEPT !.registered = TRUE]

\* reconcile_on_start counts the calls there are
NonceOnStart == Cardinality(Opened)

(* An unregistered cell is refused; else the request gets a number of its    *)
(* own, before and outside the transaction that opens its call.             *)
Number(r) ==
  /\ HandlerAt(r, "arrived")
  /\ IF provider.registered
     THEN /\ provider' = [provider EXCEPT !.nonce = @ + 1]
          /\ calls' = [calls EXCEPT ![r].pc = "numbered", ![r].id = <<body[r], provider.nonce + 1>>]
          /\ UNCHANGED client
     ELSE calls' = [calls EXCEPT ![r].pc = "over"] /\ Tell(r, "failed") /\ UNCHANGED provider
  /\ UNCHANGED <<engine, crashes, worked, shared>>

(* open_call and begin_attempt: a call that is already in the ledger is     *)
(* another request's, and its attempt is refused; a refused reservation     *)
(* leaves the attempt at INTENT.                                            *)
Open(r) ==
  /\ HandlerAt(r, "numbered")
  /\ IF \E x \in Opened : calls[x].id = calls[r].id
     THEN calls' = [calls EXCEPT ![r].pc = "over"] /\ Tell(r, "failed")
     ELSE \/ calls' = [calls EXCEPT ![r].pc = "queued", ![r].state = "BUDGET_RESERVED"] /\ UNCHANGED client
          \/ calls' = [calls EXCEPT ![r].pc = "over", ![r].state = "INTENT"] /\ Tell(r, "failed")
  /\ UNCHANGED <<provider, engine, crashes, worked, shared>>

(* A place at the gate; SENT is written inside it and the request goes out, *)
(* whether or not the engine ever gets it.                                  *)
Dispatch(r) ==
  /\ HandlerAt(r, "queued") /\ provider.free > 0
  /\ provider' = [provider EXCEPT !.free = @ - 1]
  /\ calls' = [calls EXCEPT ![r].pc = "serving", ![r].state = "SENT", ![r].dispatched = TRUE]
  /\ \/ /\ engine' = engine \cup {r} /\ worked' = worked \cup {r}
        /\ shared' = shared \cup {{r, x} : x \in engine}
     \/ UNCHANGED <<engine, worked, shared>>
  /\ UNCHANGED <<client, crashes>>

\* the engine answers: the response is stored, or its HTTP error is final
Respond(r) ==
  /\ HandlerAt(r, "serving") /\ r \in engine
  /\ engine' = engine \ {r}
  /\ provider' = [provider EXCEPT !.free = @ + 1]
  /\ \/ calls' = [calls EXCEPT ![r].pc = "stored", ![r].state = "RESPONSE_STORED", ![r].ended = TRUE]
        /\ UNCHANGED client
     \/ calls' = [calls EXCEPT ![r].pc = "over", ![r].state = "FAILED_FINAL", ![r].ended = TRUE]
        /\ Tell(r, "failed")
  /\ UNCHANGED <<crashes, worked, shared>>

\* Mutant: a timed-out request is closed like one with an answer
UpstreamEnded(r) ==
  /\ HandlerAt(r, "serving")
  /\ provider' = [provider EXCEPT !.free = @ + 1]
  /\ calls' = [calls EXCEPT ![r].pc = "over", ![r].state = "FAILED_UNKNOWN", ![r].ended = TRUE]
  /\ Tell(r, "failed")
  /\ UNCHANGED <<engine, crashes, worked, shared>>

\* the inference timeout or a broken connection: nobody knows what the engine did
UpstreamFails(r) ==
  /\ HandlerAt(r, "serving")
  /\ provider' = [provider EXCEPT !.free = @ + 1]
  /\ calls' = [calls EXCEPT ![r].pc = "over", ![r].state = "FAILED_UNKNOWN"]
  /\ Tell(r, "failed")
  /\ UNCHANGED <<engine, crashes, worked, shared>>

\* validate, commit and answer
Commit(r) ==
  /\ HandlerAt(r, "stored")
  /\ calls' = [calls EXCEPT ![r].pc = "over", ![r].state = "COMMITTED"]
  /\ Tell(r, "ok")
  /\ UNCHANGED <<provider, engine, crashes, worked, shared>>

\* the engine ends a request that nobody waits for any more
Abandoned(r) ==
  /\ r \in engine /\ ~HandlerAt(r, "serving")
  /\ engine' = engine \ {r}
  /\ UNCHANGED <<client, calls, provider, crashes, worked, shared>>

\* the process dies with its threads, its counter and its registered cells
Crash ==
  /\ provider.up /\ crashes < MaxCrashes
  /\ crashes' = crashes + 1
  /\ provider' = [provider EXCEPT !.up = FALSE, !.free = MaxInflight, !.registered = FALSE]
  /\ calls' = [r \in Requests |-> [calls[r] EXCEPT !.pc = IF @ = "none" THEN @ ELSE "over"]]
  /\ client' = [r \in Requests |-> IF client[r] = "waiting" THEN "failed" ELSE client[r]]
  /\ UNCHANGED <<engine, worked, shared>>

\* reconcile_on_start: what was sent keeps its charge, what was not is released
Restart ==
  /\ ~provider.up
  /\ calls' = [r \in Requests |->
       [calls[r] EXCEPT !.state = IF @ = None \/ @ \in Terminal THEN @
                                  ELSE IF calls[r].dispatched THEN "FAILED_UNKNOWN" ELSE "FAILED_FINAL"]]
  /\ provider' = [provider EXCEPT !.up = TRUE, !.nonce = NonceOnStart]
  /\ UNCHANGED <<client, engine, crashes, worked, shared>>

Serve(r) == Number(r) \/ Open(r) \/ Dispatch(r) \/ Respond(r) \/ UpstreamFails(r) \/ Commit(r)
ProxyFairness ==
  /\ \A r \in Requests : /\ WF_proxyVars(Number(r) \/ Open(r) \/ Respond(r) \/ UpstreamFails(r) \/ Commit(r))
                         /\ SF_proxyVars(Dispatch(r))

-----------------------------------------------------------------------------
(* extract_request_events and summarize_work_extraction, for the one cell   *)
\* response-complete attempts, whatever became of them
Events == {r \in Opened : calls[r].dispatched /\ calls[r].ended}

Unknown == {r \in Opened \ Events : calls[r].state = "FAILED_UNKNOWN" /\ calls[r].dispatched}
Unavailable == Opened \ (Events \cup Unknown)

Complete == Unknown = {} /\ Unavailable = {}

(* A work object that says it is complete has an interval for all the       *)
(* engine ever did for the cell, and behind a gate of one no two of them    *)
(* shared the engine (work_accounting.py WorkExtraction.complete,           *)
(* isolated_service_work).                                                  *)
WorkIsMeasured ==
  Complete => /\ worked \subseteq Events
              /\ MaxInflight = 1 => shared = {}

(* What provider_server.py 497 says of the numbers: a request after a       *)
(* restart gets no call id that a call before it has.                       *)
NoncesStayFresh ==
  \A r \in Requests, x \in Opened :
    r # x /\ calls[r].id # None => calls[r].id # calls[x].id

=============================================================================
