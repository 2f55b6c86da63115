-------------------------- MODULE RetrievalService --------------------------
(***************************************************************************)
(* The frozen world behind a socket: the gates, threads, cache and         *)
(* counters of retrieval/service.py, and the clients of                    *)
(* retrieval/client.py with their pins and traces.  The service is stopped *)
(* and started again, from whatever files the host then holds; its threads *)
(* are interleaved at every lock, encode and cache access.                 *)
(***************************************************************************)
EXTENDS Integers, FiniteSets, Sequences

CONSTANTS Hosts,        \* what a host may hold: index, corpus, report, encoder, freeze
          Clients,      \* client objects
          pins,         \* pins[c]: the freeze a client expects, and whether it must be effective
          Threads,      \* handler threads
          Queries,
          CacheCapacity,     \* cache_capacity
          MaxStarts,    \* bound: starts of the service
          MaxAsked,     \* bound: searches of each client
          None

ASSUME RetrievalAssumption ==
  /\ CacheCapacity \in Nat \ {0} /\ MaxStarts \in Nat /\ MaxAsked \in [Clients -> Nat]
  /\ \A h \in Hosts : /\ DOMAIN h = {"index", "corpus", "report", "encodes", "freeze"}
                      /\ h.report.ok \in BOOLEAN /\ h.encodes \in BOOLEAN
  /\ DOMAIN pins = Clients

VARIABLES server,   \* the process: what it loaded, cache, encode lock, counters
          threads,  \* the handler threads of the process
          clients,
          starts
retrievalVars == <<server, threads, clients, starts>>

Down == [host |-> None, cache |-> <<>>, lock |-> None, searches |-> 0, encodes |-> 0, errors |-> 0]
Free == [pc |-> "free", query |-> None, client |-> None, vector |-> None]

RetrievalInit ==
  /\ server = Down /\ starts = 0
  /\ threads = [t \in Threads |-> Free]
  /\ clients = [c \in Clients |-> [pc |-> "idle", verified |-> None, asked |-> 0, trace |-> {}]]

-----------------------------------------------------------------------------
(* build_service: every gate, or no service                                *)
\* the report's flag, the evidence beside it and the recipe the code implements
ReportLicenses(h) == h.report.ok /\ h.report.sound

Crosscheck(h) == h.index.docs # {} /\ h.index.docs \subseteq h.corpus.docs

FreezeAgrees(h) ==
  h.freeze # None =>
    /\ h.freeze.index = h.index.id
    /\ h.freeze.corpus \in {None, h.corpus.id}
    /\ h.freeze.spec = h.report.spec

Gates(h) ==
  /\ ReportLicenses(h) /\ h.report.index = h.index.id
  /\ Crosscheck(h) /\ FreezeAgrees(h)
  /\ h.encodes   \* warm(): the live model gives unit vectors of the index's dimension

\* the block whose digest is the retriever_id
Identity(h) == [index |-> h.index.id, corpus |-> h.corpus.id, report |-> h.report, freeze |-> h.freeze]

StartService(h) ==
  /\ server.host = None /\ starts < MaxStarts /\ Gates(h)
  /\ server' = [Down EXCEPT !.host = h]
  /\ starts' = starts + 1
  /\ UNCHANGED <<threads, clients>>

\* the process ends: its threads, cache and counters with it
StopService ==
  /\ server.host # None
  /\ server' = Down /\ threads' = [t \in Threads |-> Free]
  /\ clients' = [c \in Clients |->
       [clients[c] EXCEPT !.pc = "idle"]]
  /\ UNCHANGED starts

-----------------------------------------------------------------------------
(* a search in a handler thread                                            *)
PcIs(t, pc) == threads[t].pc = pc
GoOn(t, pc) == threads' = [threads EXCEPT ![t].pc = pc]
Cached(q) == \E i \in DOMAIN server.cache : server.cache[i].query = q
Entry(q)  == server.cache[CHOOSE i \in DOMAIN server.cache : server.cache[i].query = q]

\* admitted, counted; the backend looks in the cache without the encode lock
Search(t) ==
  /\ PcIs(t, "accepted")
  /\ server' = [server EXCEPT !.searches = @ + 1]
  /\ threads' = IF Cached(threads[t].query)
                THEN [threads EXCEPT ![t].pc = "storing_hit", ![t].vector = Entry(threads[t].query).vector]
                ELSE [threads EXCEPT ![t].pc = "missed"]
  /\ UNCHANGED <<clients, starts>>

(* Under the lock the cache is asked again; a miss is counted before the    *)
(* encode, so that one that raises is still a miss.                         *)
Counted == server.encodes + 1

LockEncode(t) ==
  /\ PcIs(t, "missed") /\ server.lock = None
  /\ IF Cached(threads[t].query)
     THEN /\ threads' = [threads EXCEPT ![t].pc = "storing", ![t].vector = Entry(threads[t].query).vector]
          /\ UNCHANGED server
     ELSE /\ server' = [server EXCEPT !.lock = t, !.encodes = Counted]
          /\ GoOn(t, "encoding")
  /\ UNCHANGED <<clients, starts>>

\* Mutant: a failing encode leaves the lock taken
EncodedLockKept(t) ==
  /\ PcIs(t, "encoding")
  /\ \/ /\ threads' = [threads EXCEPT ![t].pc = "storing", ![t].vector = "unit"]
        /\ server' = [server EXCEPT !.lock = None]
     \/ /\ GoOn(t, "answer_500")
        /\ server' = [server EXCEPT !.errors = @ + 1]
  /\ UNCHANGED <<clients, starts>>

(* the encode ends and the lock is given back, whether it gave a vector, a  *)
(* vector that is refused, or an exception                                  *)
Encoded(t) ==
  /\ PcIs(t, "encoding")
  /\ \/ /\ threads' = [threads EXCEPT ![t].pc = "storing", ![t].vector = "unit"]
        /\ server' = [server EXCEPT !.lock = None]
     \/ /\ GoOn(t, "answer_500")
        /\ server' = [server EXCEPT !.lock = None, !.errors = @ + 1]
  /\ UNCHANGED <<clients, starts>>

\* cache[query] = vector: a key that is there keeps its place; the oldest goes out
Inserted(cache, q, v) ==
  IF \E i \in DOMAIN cache : cache[i].query = q
  THEN [i \in DOMAIN cache |-> IF cache[i].query = q THEN [query |-> q, vector |-> v] ELSE cache[i]]
  ELSE LET longer == Append(cache, [query |-> q, vector |-> v])
       IN IF Len(longer) > CacheCapacity THEN Tail(longer) ELSE longer

(* A vector that came from the encode path is stored again by the backend,  *)
(* out of the lock.  Then the index is searched; a document that is not in  *)
(* the corpus, or a vector the index refuses, is an error.                  *)
StoreAndRank(t) ==
  /\ threads[t].pc \in {"storing", "storing_hit"}
  /\ LET th     == threads[t]
         ranked == th.vector = "unit" /\ server.host.index.docs \subseteq server.host.corpus.docs
     IN /\ server' = [server EXCEPT !.cache = IF PcIs(t, "storing") THEN Inserted(@, th.query, th.vector) ELSE @,
                                    !.errors = IF ranked THEN @ ELSE @ + 1]
        /\ GoOn(t, IF ranked THEN "answer_200" ELSE "answer_500")
  /\ UNCHANGED <<clients, starts>>

-----------------------------------------------------------------------------
(* RetrievalClient                                                         *)
\* verify(): once, against the pins
Acceptable(c, h) ==
  /\ pins[c].freeze # None => h.freeze = pins[c].freeze
  /\ pins[c].effective => h.freeze # None /\ h.freeze.effective

VerifyService(c) ==
  /\ clients[c].pc = "idle" /\ clients[c].verified = None /\ clients[c].asked < MaxAsked[c]
  /\ clients' = IF server.host # None /\ Acceptable(c, server.host)
                THEN [clients EXCEPT ![c].verified = Identity(server.host)]
                ELSE [clients EXCEPT ![c].asked = @ + 1]
  /\ UNCHANGED <<server, threads, starts>>

SendSearch(c) ==
  /\ clients[c].pc = "idle" /\ clients[c].verified # None /\ clients[c].asked < MaxAsked[c]
  /\ IF server.host = None
     THEN /\ clients' = [clients EXCEPT ![c].asked = @ + 1]
          /\ UNCHANGED threads
     ELSE \E t \in Threads, q \in Queries :
            /\ PcIs(t, "free")
            /\ threads' = [threads EXCEPT ![t] = [Free EXCEPT !.pc = "accepted", !.query = q, !.client = c]]
            /\ clients' = [clients EXCEPT ![c].pc = "waiting", ![c].asked = @ + 1]
  /\ UNCHANGED <<server, starts>>

\* the socket's timeout: the thread goes on for nobody
Timeout(c) ==
  /\ clients[c].pc = "waiting"
  /\ threads' = [t \in Threads |-> IF threads[t].client = c THEN [threads[t] EXCEPT !.client = None] ELSE threads[t]]
  /\ clients' = [clients EXCEPT ![c].pc = "idle"]
  /\ UNCHANGED <<server, starts>>

\* Mutant: the identity was checked when the client connected
SameRetrieverTrusted(c, id) == TRUE

\* the response echoes the retriever it came from
SameRetriever(c, id) == id = clients[c].verified

\* the answer arrives, or nobody waits for it; the trace takes validated rows only
Answer(t) ==
  /\ threads[t].pc \in {"answer_200", "answer_500"}
  /\ LET c  == threads[t].client
         ok == PcIs(t, "answer_200") /\ SameRetriever(c, Identity(server.host))
     IN clients' = IF c = None THEN clients
                   ELSE [clients EXCEPT ![c].pc = "idle", ![c].trace = IF ok THEN @ \cup {server.host} ELSE @]
  /\ threads' = [threads EXCEPT ![t] = Free]
  /\ UNCHANGED <<server, starts>>

Serve(t) == Search(t) \/ LockEncode(t) \/ Encoded(t) \/ StoreAndRank(t) \/ Answer(t)
RetrievalNext ==
  \/ \E h \in Hosts : StartService(h)
  \/ StopService
  \/ \E t \in Threads : Serve(t)
  \/ \E c \in Clients : VerifyService(c) \/ SendSearch(c) \/ Timeout(c)

\* a thread runs on while its process does, an encode returns, and a free lock
\* is taken in the end by each of those who keep asking for it
Fairness == \A t \in Threads : WF_retrievalVars(Search(t) \/ Encoded(t) \/ StoreAndRank(t) \/ Answer(t))
                               /\ SF_retrievalVars(LockEncode(t))
RetrievalSpec == RetrievalInit /\ [][RetrievalNext]_retrievalVars /\ Fairness

-----------------------------------------------------------------------------
(* All that a client's trace holds came from one retriever, one that passed *)
(* the gates and is the client's frozen one, through restarts of the        *)
(* service and over other files (client.py search_rows).                    *)
OneWorld ==
  \A c \in Clients : \A h \in clients[c].trace :
    /\ Identity(h) = clients[c].verified
    /\ Acceptable(c, h)
    /\ h.report.sound /\ h.report.index = h.index.id
    /\ h.index.docs \subseteq h.corpus.docs

(* A search that a thread has accepted is answered, or the service is       *)
(* stopped: no exception leaves the encode lock taken (service.py           *)
(* _encode_for_backend).                                                    *)
EverySearchEnds == \A t \in Threads : [](~PcIs(t, "free") => <>PcIs(t, "free"))

(* What service.py 695 says of a miss: a text another request has encoded   *)
(* while this one waited for the lock is not encoded again.                 *)
EncodedOnce ==
  \A t, u \in Threads : PcIs(t, "encoding") /\ PcIs(u, "storing") => threads[t].query # threads[u].query
=============================================================================
