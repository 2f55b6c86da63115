----------------------------- MODULE OfferBook ------------------------------
(***************************************************************************)
(* What the offer contract (contracts/docs/OFFER_INTERFACE_v1.md, as       *)
(* contracts/offer.py types it) promises of submitted work: it is pending, *)
(* with no request of it started, until one decision takes it, and then    *)
(* the requests of one offered form are started, whole, once for each time *)
(* the decision names it.                                                  *)
(***************************************************************************)
EXTENDS Naturals

CONSTANTS Items,
          WithP1,     \* the items whose offer has a P1 plan
          pages,      \* pages[i]: the requests of i's P0 plan; a P1 plan has one
          MaxNamed    \* bound: how often a decision names one item

VARIABLES pending,    \* offered and not decided
          started     \* started[i][f]: the requests of i's plan f that were started
bookVars == <<pending, started>>

Untouched == [f \in {"P0", "P1"} |-> 0]
InForm(i, f, copies) ==
  [Untouched EXCEPT ![f] = copies * (IF f = "P0" THEN pages[i] ELSE 1)]

BookInit == pending = {} /\ started = [i \in Items |-> Untouched]

\* an item, or the next one of its kind
Submit ==
  \E i \in Items \ pending :
    /\ pending' = pending \cup {i}
    /\ started' = [started EXCEPT ![i] = Untouched]

\* whole or not at all: what is admitted leaves the queue in its one form
Commit ==
  \E admitted \in SUBSET pending :
    \E form \in [admitted -> {"P0", "P1"}], named \in [admitted -> 1..MaxNamed] :
      /\ \A i \in admitted : form[i] = "P1" => i \in WithP1
      /\ pending' = pending \ admitted
      /\ started' = [i \in Items |-> IF i \in admitted THEN InForm(i, form[i], named[i])
                                     ELSE started[i]]

BookNext == Submit \/ Commit
BookSpec == BookInit /\ [][BookNext]_bookVars
=============================================================================
