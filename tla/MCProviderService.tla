-------------------------- MODULE MCProviderService -------------------------
(* Instances of ProviderService for TLC: a call on a search route and one  *)
(* on the chat route, of one provider or of two, over a request and a      *)
(* dollar account that affords all but the last attempts.                  *)
EXTENDS ProviderService, TLC
CONSTANTS c1, c2, exa, deepseek
MCCalls == {c1, c2}
MCResources == {"requests", "usd"}
MCWorst == [c \in Calls |-> [requests |-> 1, usd |-> 2]]
MCCap == [requests |-> 3, usd |-> 5]
MCActuals == [requests : {1}, usd : {0, 1, 2}]
TwoProviders == {exa, deepseek}
OneEach == (c1 :> exa) @@ (c2 :> deepseek)
Alike == Permutations(Threads)
=============================================================================
