---------------------------- MODULE AcceptedWork ----------------------------
(***************************************************************************)
(* What the ledger and its coordinator promise whoever reads the results,  *)
(* with no states, leases or workers: each item is run a bounded number of *)
(* times, and one of its runs may be accepted, once, for good, with a      *)
(* result whose bytes have been stored.                                    *)
(***************************************************************************)
EXTENDS Integers

CONSTANTS Items, MaxRetries, Refs, NoRef

VARIABLES runs,    \* runs[k]: how often item k has been handed to an executor
          stored,  \* the results whose bytes are in the object store
          result   \* result[k]: the accepted result, NoRef before

Init ==
  /\ runs = [k \in Items |-> 0]
  /\ stored = {}
  /\ result = [k \in Items |-> NoRef]

Run(k) ==
  /\ runs[k] <= MaxRetries[k]
  /\ runs' = [runs EXCEPT ![k] = @ + 1]
  /\ UNCHANGED <<stored, result>>

Store(r) ==
  /\ stored' = stored \cup {r}
  /\ UNCHANGED <<runs, result>>

Accept(k, r) ==
  /\ runs[k] > 0
  /\ result[k] = NoRef
  /\ r \in stored
  /\ result' = [result EXCEPT ![k] = r]
  /\ UNCHANGED <<runs, stored>>

Next ==
  \/ \E k \in Items : Run(k)
  \/ \E r \in Refs : Store(r)
  \/ \E k \in Items, r \in Refs : Accept(k, r)

Spec == Init /\ [][Next]_<<runs, stored, result>>
=============================================================================
