------------------------------ MODULE MCHosts -------------------------------
(* The broker's host and the retrieval service, two processes beside a cell *)
(* that share no state with one another: a behaviour runs one of them.      *)
EXTENDS MCBrokerTick, MCRetrievalService

VARIABLE runs    \* "broker" or "retrieval"

BrokerStep == runs = "broker" /\ Next

HostsInit ==
  /\ Init /\ RetrievalInit
  /\ \/ runs = "broker"
     \/ runs = "retrieval" /\ reference /\ staleAt = {}
HostsNext ==
  /\ \/ BrokerStep /\ UNCHANGED retrievalVars
     \/ runs = "retrieval" /\ RetrievalNext /\ UNCHANGED vars
  /\ UNCHANGED runs

\* no thread serves in a behaviour of the broker, so Fairness asks nothing there
HostsSpec ==
  /\ HostsInit /\ [][HostsNext]_<<vars, retrievalVars, runs>>
  /\ WF_vars(runs = "broker" /\ TickStep)
  /\ Fairness
=============================================================================
