------------------------------ MODULE BatchBook ------------------------------
(***************************************************************************)
(* What a researcher's conversation may be told: the tool calls of one     *)
(* assistant turn are answered all together, in their order, and the       *)
(* searches among them all by the vendor or all by the page strategy.      *)
(***************************************************************************)
EXTENDS Naturals, Sequences

CONSTANTS Researchers,  \* the researchers of a cell
          Batches,      \* assistant turns: sequences of [id, kind]
          Occurrences   \* the sources one search returns

VARIABLES asked,  \* asked[r]: the batches of r's assistant turns
          told    \* told[r]: the tool messages that answered each

\* a batch answered whole by one of the two renderers
Answers(messages, batch, form) ==
  /\ DOMAIN messages = DOMAIN batch
  /\ \A i \in DOMAIN batch :
       /\ messages[i].id = batch[i].id /\ messages[i].kind = batch[i].kind
       /\ messages[i].text.form = IF batch[i].kind = "search" THEN form ELSE "said"
       /\ messages[i].text.made \subseteq Occurrences
       /\ messages[i].text.form = "vendor" => messages[i].text.made = Occurrences

Init == asked = [r \in Researchers |-> <<>>] /\ told = asked

Ask(r) ==
  /\ Len(asked[r]) = Len(told[r])
  /\ \E batch \in Batches : asked' = [asked EXCEPT ![r] = Append(@, batch)]
  /\ UNCHANGED told

Tell(r) ==
  /\ Len(asked[r]) = Len(told[r]) + 1
  /\ Len(told'[r]) = Len(asked[r])
  /\ \E form \in {"vendor", "p1"} :
       Answers(told'[r][Len(asked[r])], asked[r][Len(asked[r])], form)
  /\ told' = [told EXCEPT ![r] = Append(@, told'[r][Len(asked[r])])]
  /\ UNCHANGED asked

\* the conversation ends with its researcher
Forget(r) ==
  /\ asked' = [asked EXCEPT ![r] = <<>>] /\ told' = [told EXCEPT ![r] = <<>>]

Next == \E r \in Researchers : Ask(r) \/ Tell(r) \/ Forget(r)
Spec == Init /\ [][Next]_<<asked, told>>
==============================================================================
