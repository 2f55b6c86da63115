----------------------------- MODULE BatchProofs -----------------------------
(***************************************************************************)
(* Proofs about one batch: the two places where its calls run together,    *)
(* and what a selector call of it publishes.                               *)
(*                                                                         *)
(* BatchPublish, for every plan, set of batches, set of occurrences and    *)
(* number of turns: the conversations are told as the batch book says, and *)
(* what a researcher froze is what was published.  What a researcher may   *)
(* hold is stated of its record alone: it depends on no other part of the  *)
(* state, so a step of one researcher leaves it of the others.             *)
(*                                                                         *)
(* InferenceProxy and ProseBatch, for every set of siblings, pages, tries  *)
(* and inputs: work called complete was measured, and a batch that has     *)
(* ended tells of the calls it made.  The route's invariant is a           *)
(* conjunction by handler, client and provider; the batch's links its      *)
(* coroutines to the requests they wait for.                               *)
(*                                                                         *)
(* Selection, for every setup, output and span: what is published is       *)
(* sound, an admitted prompt shows every page, and a pack keeps its word.  *)
(* They rest on the model's folds and sortings: what a fold from the left  *)
(* keeps at every place it keeps at the end, and a sorted set is listed.   *)
(* A handle in its prompt leads back to one span, whatever the radices and *)
(* the alphabet: quotient and remainder are unique, and the letters of a   *)
(* number are worth that number.                                           *)
(*                                                                         *)
(* CloseView, for every conversation and chunker: no word of a message is  *)
(* lost, and a chunk has one owner.  Words are counted by prefix sums; each*)
(* chunker lays out its lines and cuts what it lays out; the blocks of a   *)
(* message part it, and as many blocks as occurrences pair them rightly.   *)
(***************************************************************************)
EXTENDS BatchPublish, ProseBatch, Selection, CloseView, FoldLemmas, SequenceTheorems, FiniteSetTheorems, TLAPS

(*************************** Publication of a batch ************************)
AllIds == UNION {Ids(b) : b \in Batches}
Kinds == {"search", "think", "complete"}
TextOf == [form : {"said", "vendor", "p1"}, made : SUBSET Occurrences]
Message == [id : AllIds, kind : Kinds, text : TextOf]
Entry == [kind : Kinds, text : TextOf, turn : Nat, sources : SUBSET Occurrences]
Answer == UNION {[DOMAIN b -> Message] : b \in Batches}
Sidecar == UNION {[S -> Entry] : S \in SUBSET AllIds}

Level  == {"model", "close", "closing", "compressing"}      \* every turn is answered
Behind == {"tools", "reducing", "fallback"}                 \* the last turn is not
Empty  == {"absent", "noted", "noted_p1", "stopped", "refused", "failed"}

Holder == [pc : Level \cup Behind \cup Empty, asked : Seq(Batches), told : Seq(Answer),
           prov : Sidecar]

\* the messages of a conversation agree with its sidecar
Agrees(x) ==
  \A n \in DOMAIN x.told : \A i \in DOMAIN x.told[n] :
    x.told[n][i].id \in DOMAIN x.prov => x.told[n][i].text = x.prov[x.told[n][i].id].text

\* an entry names the sources its bytes were made of
Truthful(x) == \A id \in DOMAIN x.prov : x.prov[id].sources = x.prov[id].text.made

\* the messages that answered a search are in the sidecar
Certified(x) ==
  \A n \in DOMAIN x.told : \A i \in DOMAIN x.told[n] :
    x.asked[n][i].kind = "search" => x.told[n][i].id \in DOMAIN x.prov

\* what a researcher may hold
Sound(x) ==
  /\ x.pc \in Level => Len(x.asked) = Len(x.told)
  /\ x.pc \in Behind => Len(x.asked) = Len(x.told) + 1
  /\ x.pc \in Empty => x.asked = <<>> /\ x.told = <<>>
  /\ Truthful(x) /\ Certified(x)
  /\ x.pc \in {"closing", "compressing"} => Agrees(x)

\* a round's researchers are absent before it
CellInv ==
  /\ arm \in Arms
  /\ cell \in [pc : {"supervising", "gathering", "reporting", "ok", "error"}, round : Nat,
               marked : BOOLEAN]
  /\ \A r \in Researchers : r[1] > cell.round => res[r].pc = "absent"

ResInv ==
  /\ res \in [Researchers -> Holder]
  /\ \A r \in Researchers : Sound(res[r])

BatchInv == CellInv /\ ResInv

\* what a step of a researcher does to its conversation
Shape(r, x) ==
  \/ x.asked = res[r].asked /\ x.told = res[r].told
  \/ x.asked = <<>> /\ x.told = <<>>
  \/ /\ Len(res[r].asked) = Len(res[r].told) /\ x.told = res[r].told
     /\ \E b \in Batches : x.asked = Append(res[r].asked, b)
  \/ /\ Len(res[r].asked) = Len(res[r].told) + 1 /\ x.asked = res[r].asked
     /\ \E m \in Answer, form \in {"vendor", "p1"} :
          /\ x.told = Append(res[r].told, m)
          /\ Book!Answers(m, res[r].asked[Len(res[r].asked)], form)

\* one researcher takes a sound step
Moves(r) == \E x \in Holder : res' = [res EXCEPT ![r] = x] /\ Sound(x) /\ Shape(r, x)

-----------------------------------------------------------------------------
LEMMA BatchesAre ==
  ASSUME NEW b \in Batches, NEW i \in DOMAIN b
  PROVE  b[i].id \in AllIds /\ b[i].id \in Ids(b) /\ b[i].kind \in Kinds
BY BatchAssumption DEF AllIds, Ids, Kinds

LEMMA ResearchersAre ==
  ASSUME NEW r \in Researchers
  PROVE  r[1] \in Nat
<1>1. PICK p \in Plans : \E i \in DOMAIN p : r \in {<<i, j>> : j \in 1..p[i]}
  BY DEF Researchers
<1>2. p \in Seq(Nat \ {0})
  BY BatchAssumption
<1>3. \A i \in DOMAIN p : i \in Nat
  BY <1>2, LenProperties
<1>4. QED BY <1>1, <1>3

\* the batch a researcher is in
LEMMA BatchOf ==
  ASSUME ResInv, NEW r \in Researchers, res[r].pc \in Behind
  PROVE  /\ res[r] \in Holder /\ Sound(res[r])
         /\ Batch(r) \in Batches /\ Turn(r) \in Nat
         /\ Len(res[r].asked) = Len(res[r].told) + 1
         /\ Batch(r) = res[r].asked[Len(res[r].asked)]
<1>1. res[r] \in Holder /\ Sound(res[r])
  BY DEF ResInv
<1>2. res[r].asked \in Seq(Batches) /\ res[r].told \in Seq(Answer)
  BY <1>1 DEF Holder
<1>3. Len(res[r].asked) = Len(res[r].told) + 1
  BY <1>1 DEF Sound
<1>4. Len(res[r].asked) \in Nat /\ Len(res[r].told) \in Nat
  BY <1>2, LenProperties
<1>5. Len(res[r].asked) \in 1..Len(res[r].asked)
  BY <1>3, <1>4
<1>6. res[r].asked[Len(res[r].asked)] \in Batches
  BY <1>2, <1>5, ElementOfSeq
<1>7. QED BY <1>1, <1>3, <1>4, <1>6 DEF Batch, Turn

LEMMA MessagesAre ==
  ASSUME NEW b \in Batches, NEW texts, \A i \in Searches(b) : texts[i] \in TextOf
  PROVE  /\ Messages(b, texts) \in [DOMAIN b -> Message]
         /\ Messages(b, texts) \in Answer
         /\ \A i \in DOMAIN b :
              /\ Messages(b, texts)[i].id = b[i].id /\ Messages(b, texts)[i].kind = b[i].kind
              /\ i \in Searches(b) => Messages(b, texts)[i].text = texts[i]
              /\ i \notin Searches(b) => Messages(b, texts)[i].text = Said
<1>1. Said \in TextOf
  BY DEF Said, TextOf
<1>2. \A i \in DOMAIN b :
        [id |-> b[i].id, kind |-> b[i].kind,
         text |-> IF i \in Searches(b) THEN texts[i] ELSE Said] \in Message
  BY <1>1, BatchesAre DEF Message
<1>3. Messages(b, texts) \in [DOMAIN b -> Message]
  BY <1>2 DEF Messages
<1>4. Messages(b, texts) \in Answer
  BY <1>3 DEF Answer
<1>5. QED BY <1>3, <1>4 DEF Messages

\* the messages of a batch answer it, by one renderer
LEMMA MessagesAnswer ==
  ASSUME NEW b \in Batches, NEW texts, NEW form \in {"vendor", "p1"},
         \A i \in Searches(b) : /\ texts[i] \in TextOf /\ texts[i].form = form
                                /\ form = "vendor" => texts[i].made = Occurrences
  PROVE  Book!Answers(Messages(b, texts), b, form)
<1>1. /\ DOMAIN Messages(b, texts) = DOMAIN b
      /\ \A i \in DOMAIN b :
           /\ Messages(b, texts)[i].id = b[i].id /\ Messages(b, texts)[i].kind = b[i].kind
           /\ i \in Searches(b) => Messages(b, texts)[i].text = texts[i]
           /\ i \notin Searches(b) => Messages(b, texts)[i].text = Said
  BY MessagesAre
<1>2. ASSUME NEW i \in DOMAIN b
      PROVE  /\ Messages(b, texts)[i].text.form = IF b[i].kind = "search" THEN form ELSE "said"
             /\ Messages(b, texts)[i].text.made \subseteq Occurrences
             /\ Messages(b, texts)[i].text.form = "vendor" =>
                  Messages(b, texts)[i].text.made = Occurrences
  <2>1. CASE i \in Searches(b)
    BY <1>1, <2>1 DEF Searches, TextOf
  <2>2. CASE i \notin Searches(b)
    BY <1>1, <2>2 DEF Searches, Said
  <2>3. QED BY <2>1, <2>2
<1>3. QED BY <1>1, <1>2 DEF Book!Answers

LEMMA EntriesAre ==
  ASSUME NEW r, NEW b \in Batches, NEW texts, NEW sources, Turn(r) \in Nat,
         \A i \in Searches(b) : texts[i] \in TextOf /\ sources[i] = texts[i].made
  PROVE  /\ Entries(r, b, texts, sources) \in [Ids(b) -> Entry]
         /\ \A id \in Ids(b) : Entries(r, b, texts, sources)[id].sources =
                                 Entries(r, b, texts, sources)[id].text.made
<1> DEFINE at(id) == CHOOSE i \in DOMAIN b : b[i].id = id
           entry(i) == [kind |-> b[i].kind, text |-> Messages(b, texts)[i].text, turn |-> Turn(r),
                        sources |-> IF i \in Searches(b) THEN sources[i] ELSE {}]
<1>1. \A id \in Ids(b) : at(id) \in DOMAIN b
  BY DEF Ids
<1>2. ASSUME NEW i \in DOMAIN b
      PROVE  entry(i) \in Entry /\ entry(i).sources = entry(i).text.made
  <2>1. Messages(b, texts)[i] \in Message /\ b[i].kind \in Kinds
    BY MessagesAre, BatchesAre
  <2>2. Messages(b, texts)[i].text \in TextOf
    BY <2>1 DEF Message
  <2>3. CASE i \in Searches(b)
    <3>1. Messages(b, texts)[i].text = texts[i] /\ sources[i] = texts[i].made
          /\ texts[i].made \in SUBSET Occurrences
      BY <2>3, MessagesAre DEF TextOf
    <3>2. QED BY <2>1, <2>2, <2>3, <3>1 DEF Entry
  <2>4. CASE i \notin Searches(b)
    <3>1. Messages(b, texts)[i].text = Said
      BY <2>4, MessagesAre
    <3>2. QED BY <2>1, <2>2, <2>4, <3>1 DEF Entry, Said
  <2>5. QED BY <2>3, <2>4
<1>3. Entries(r, b, texts, sources) = [id \in Ids(b) |-> entry(at(id))]
  BY DEF Entries
<1> HIDE DEF at, entry
<1>4. QED BY <1>1, <1>2, <1>3

-----------------------------------------------------------------------------
\* a researcher that ends keeps nothing
LEMMA Ending ==
  ASSUME ResInv, NEW r \in Researchers, NEW to \in Empty, Ends(r, to)
  PROVE  Moves(r)
<1>1. PICK x : x = [pc |-> to, asked |-> <<>>, told |-> <<>>, prov |-> <<>>]
  OBVIOUS
<1>2. <<>> \in Sidecar
  <2>1. <<>> \in [{} -> Entry]
    OBVIOUS
  <2>2. QED BY <2>1 DEF Sidecar
<1>3. x \in Holder
  BY <1>1, <1>2 DEF Holder
<1>4. Sound(x)
  BY <1>1 DEF Sound, Truthful, Certified, Agrees, Empty, Level, Behind
<1>5. res' = [res EXCEPT ![r] = x]
  <2>1. x = [Absent EXCEPT !.pc = to]
    BY <1>1 DEF Absent
  <2>2. QED BY <2>1 DEF Ends
<1>6. Shape(r, x)
  BY <1>1 DEF Shape
<1>7. QED BY <1>3, <1>4, <1>5, <1>6 DEF Moves

\* one that goes on with the same conversation
LEMMA Going ==
  ASSUME ResInv, NEW r \in Researchers, NEW to, Goto(r, to),
         \/ to \in Level /\ res[r].pc \in Level
         \/ to \in Behind /\ res[r].pc \in Behind,
         to \in {"closing", "compressing"} => Agrees(res[r])
  PROVE  Moves(r)
<1>1. res[r] \in Holder /\ Sound(res[r])
  BY DEF ResInv
<1>2. PICK x : x = [res[r] EXCEPT !.pc = to]
  OBVIOUS
<1>3. /\ x \in Holder /\ x.pc = to /\ x.asked = res[r].asked /\ x.told = res[r].told
      /\ x.prov = res[r].prov
  BY <1>1, <1>2 DEF Holder
<1>4. Truthful(x) /\ Certified(x) /\ (to \in {"closing", "compressing"} => Agrees(x))
  <2>1. Truthful(res[r]) /\ Certified(res[r])
    BY <1>1 DEF Sound
  <2>2. Truthful(x)
    BY <1>3, <2>1 DEF Truthful
  <2>3. Certified(x)
    BY <1>3, <2>1 DEF Certified
  <2>4. Agrees(x) <=> Agrees(res[r])
    BY <1>3 DEF Agrees
  <2>5. QED BY <2>2, <2>3, <2>4
<1>5. to \notin Empty
  BY DEF Level, Behind, Empty
<1>6. Sound(x)
  BY <1>1, <1>3, <1>4, <1>5 DEF Sound, Level, Behind
<1>7. res' = [res EXCEPT ![r] = x]
  BY <1>2 DEF Goto
<1>8. QED BY <1>3, <1>6, <1>7 DEF Moves, Shape

\* a model turn that asks for a batch
LEMMA Asking ==
  ASSUME ResInv, NEW r \in Researchers, res[r].pc = "model", NEW b \in Batches,
         res' = [res EXCEPT ![r].asked = Append(@, b), ![r].pc = "tools"]
  PROVE  Moves(r)
<1>1. res[r] \in Holder /\ Sound(res[r])
  BY DEF ResInv
<1>2. PICK q : q = Append(res[r].asked, b)
  OBVIOUS
<1>3. PICK x : x = [res[r] EXCEPT !.asked = q, !.pc = "tools"]
  OBVIOUS
<1>4. /\ res[r].asked \in Seq(Batches) /\ res[r].told \in Seq(Answer)
      /\ Len(res[r].asked) = Len(res[r].told)
  BY <1>1 DEF Holder, Sound, Level
<1>5. /\ q \in Seq(Batches) /\ Len(q) = Len(res[r].asked) + 1
      /\ \A n \in 1..Len(res[r].asked) : q[n] = res[r].asked[n]
  BY <1>2, <1>4, AppendProperties
<1>6. /\ x \in Holder /\ x.pc = "tools" /\ x.asked = q /\ x.told = res[r].told
      /\ x.prov = res[r].prov
  BY <1>1, <1>3, <1>5 DEF Holder, Behind
<1>7. \A n \in DOMAIN x.told : x.asked[n] = res[r].asked[n]
  BY <1>4, <1>5, <1>6, LenProperties
<1>8. Truthful(x) /\ Certified(x)
  BY <1>1, <1>6, <1>7 DEF Sound, Truthful, Certified
<1>9. Sound(x)
  BY <1>4, <1>5, <1>6, <1>8 DEF Sound, Level, Behind, Empty
<1>10. res' = [res EXCEPT ![r] = x]
  BY <1>2, <1>3
<1>11. QED BY <1>2, <1>4, <1>6, <1>9, <1>10 DEF Moves, Shape

\* a batch that is answered, with the sidecar p that certifies its searches
LEMMA Telling ==
  ASSUME ResInv, NEW r \in Researchers, res[r].pc \in Behind, NEW m \in Answer,
         NEW form \in {"vendor", "p1"}, Book!Answers(m, Batch(r), form), NEW p \in Sidecar,
         DOMAIN res[r].prov \subseteq DOMAIN p, \A id \in DOMAIN p : p[id].sources = p[id].text.made,
         \A i \in DOMAIN m : Batch(r)[i].kind = "search" => m[i].id \in DOMAIN p,
         NEW q, q = Append(res[r].told, m),
         NEW x \in Holder, x.pc = AfterTools(r), x.asked = res[r].asked, x.told = q, x.prov = p,
         res' = [res EXCEPT ![r] = x]
  PROVE  Moves(r)
<1>1. /\ res[r] \in Holder /\ Sound(res[r]) /\ Len(res[r].asked) = Len(res[r].told) + 1
      /\ Batch(r) = res[r].asked[Len(res[r].asked)]
  BY BatchOf
<1>2. res[r].asked \in Seq(Batches) /\ res[r].told \in Seq(Answer)
  BY <1>1 DEF Holder
<1>4. /\ q \in Seq(Answer) /\ Len(q) = Len(res[r].told) + 1 /\ q[Len(q)] = m
      /\ \A n \in 1..Len(res[r].told) : q[n] = res[r].told[n]
  BY <1>2, AppendProperties
<1>5. AfterTools(r) \in {"close", "model"}
  BY DEF AfterTools
<1>7. /\ x.pc \in {"close", "model"} /\ x.asked = res[r].asked /\ x.told = q /\ x.prov = p
  BY <1>5
<1>8. Len(x.asked) = Len(x.told)
  BY <1>1, <1>4, <1>7
<1>9. Certified(x)
  <2>1. SUFFICES ASSUME NEW n \in DOMAIN q, NEW i \in DOMAIN q[n],
                        res[r].asked[n][i].kind = "search"
                 PROVE  q[n][i].id \in DOMAIN p
    BY <1>7 DEF Certified
  <2>2. n \in 1..Len(q) /\ Len(res[r].told) \in Nat /\ DOMAIN res[r].told = 1..Len(res[r].told)
    BY <1>2, <1>4, LenProperties
  <2>3. CASE n = Len(q)
    BY <1>1, <1>4, <2>1, <2>3
  <2>4. CASE n # Len(q)
    <3>1. n \in DOMAIN res[r].told /\ q[n] = res[r].told[n]
      BY <1>4, <2>2, <2>4
    <3>2. QED BY <1>1, <2>1, <3>1 DEF Sound, Certified
  <2>5. QED BY <2>3, <2>4
<1>10. Truthful(x)
  BY <1>7 DEF Truthful
<1>11. Sound(x)
  BY <1>7, <1>8, <1>9, <1>10 DEF Sound, Behind, Empty
<1>12. Shape(r, x)
  BY <1>1, <1>7 DEF Shape
<1>13. QED BY <1>11, <1>12 DEF Moves

\* a batch that is certified: its sidecar is laid over the one there was
LEMMA Publishing ==
  ASSUME ResInv, NEW r \in Researchers, res[r].pc \in Behind, NEW texts, NEW sources,
         NEW form \in {"vendor", "p1"},
         \A i \in Searches(Batch(r)) :
           /\ texts[i] \in TextOf /\ sources[i] = texts[i].made /\ texts[i].form = form
           /\ form = "vendor" => texts[i].made = Occurrences,
         Publish(r, texts, sources)
  PROVE  Moves(r)
<1>1. /\ res[r] \in Holder /\ Sound(res[r]) /\ Batch(r) \in Batches /\ Turn(r) \in Nat
  BY BatchOf
<1>2. PICK m : m = Messages(Batch(r), texts)
  OBVIOUS
<1>3. /\ m \in Answer /\ DOMAIN m = DOMAIN Batch(r) /\ \A i \in DOMAIN m : m[i].id = Batch(r)[i].id
  BY <1>1, <1>2, MessagesAre
<1>4. Book!Answers(m, Batch(r), form)
  BY <1>1, <1>2, MessagesAnswer
<1>5. PICK staged : staged = Entries(r, Batch(r), texts, sources)
  OBVIOUS
<1>6. /\ staged \in [Ids(Batch(r)) -> Entry]
      /\ \A id \in Ids(Batch(r)) : staged[id].sources = staged[id].text.made
  BY <1>1, <1>5, EntriesAre
<1>7. PICK p : p = Committed(res[r].prov, staged)
  OBVIOUS
<1>8. PICK S \in SUBSET AllIds : res[r].prov \in [S -> Entry]
  BY <1>1 DEF Holder, Sidecar
<1>9a. DOMAIN staged = Ids(Batch(r)) /\ DOMAIN res[r].prov = S
  BY <1>6, <1>8
<1>9. p = [id \in Ids(Batch(r)) \cup S |->
             IF id \in Ids(Batch(r)) THEN staged[id] ELSE res[r].prov[id]]
  BY <1>7, <1>9a DEF Committed
<1>10. Ids(Batch(r)) \cup S \in SUBSET AllIds
  BY <1>1 DEF AllIds
<1>11. p \in [Ids(Batch(r)) \cup S -> Entry]
  BY <1>6, <1>8, <1>9
<1>12. p \in Sidecar
  BY <1>10, <1>11 DEF Sidecar
<1>13. \A id \in DOMAIN p : p[id].sources = p[id].text.made
  BY <1>1, <1>6, <1>8, <1>9 DEF Sound, Truthful
<1>14. DOMAIN res[r].prov \subseteq DOMAIN p /\ \A i \in DOMAIN m : m[i].id \in DOMAIN p
  BY <1>1, <1>3, <1>8, <1>9, BatchesAre
<1>15. CASE Ends(r, "refused")
  BY <1>15, Ending DEF Empty
<1>16. CASE res' = [res EXCEPT ![r].told = Append(@, Messages(Batch(r), texts)),
                               ![r].prov = Committed(@, Entries(r, Batch(r), texts, sources)),
                               ![r].pc = AfterTools(r)]
  <2>1. PICK q : q = Append(res[r].told, m)
    OBVIOUS
  <2>2. PICK x : x = [res[r] EXCEPT !.told = q, !.prov = p, !.pc = AfterTools(r)]
    OBVIOUS
  <2>3. res' = [res EXCEPT ![r].told = q, ![r].prov = p, ![r].pc = AfterTools(r)]
    BY <1>2, <1>5, <1>7, <1>16, <2>1
  <2>4. res' = [res EXCEPT ![r] = x]
    BY <2>2, <2>3
  <2>5. q \in Seq(Answer) /\ AfterTools(r) \in {"close", "model"}
    BY <1>1, <1>3, <2>1, AppendProperties DEF Holder, AfterTools
  <2>6. /\ x \in Holder /\ x.pc = AfterTools(r) /\ x.asked = res[r].asked /\ x.told = q
        /\ x.prov = p
    BY <1>1, <1>12, <2>2, <2>5 DEF Holder, Level
  <2>7. QED BY <1>3, <1>4, <1>12, <1>13, <1>14, <2>1, <2>4, <2>6, Telling
<1>17. QED BY <1>15, <1>16 DEF Publish

-----------------------------------------------------------------------------
\* each step of a researcher, and what it leaves of the cell
CellKept == UNCHANGED arm /\ cell'.round = cell.round /\ cell'.pc = cell.pc /\
            cell' \in [pc : {"supervising", "gathering", "reporting", "ok", "error"}, round : Nat,
                       marked : BOOLEAN]

LEMMA Unmarked ==
  ASSUME CellInv, UNCHANGED <<arm, cell>>
  PROVE  CellKept
BY DEF CellInv, CellKept

LEMMA Marking ==
  ASSUME CellInv, UNCHANGED arm, NEW node, Mark(node)
  PROVE  CellKept
<1>1. PICK v : v = (cell.marked \/ TreatmentNode = node)
  OBVIOUS
<1>2. cell' = [cell EXCEPT !.marked = v]
  BY <1>1 DEF Mark
<1>3. v \in BOOLEAN
  BY <1>1
<1>4. QED BY <1>2, <1>3 DEF CellInv, CellKept

LEMMA Emitting ==
  ASSUME CellInv, UNCHANGED arm, NEW r, NEW held, NEW failed, Emit(r, held, failed)
  PROVE  CellKept
BY Marking DEF Emit

LEMMA TakeStep ==
  ASSUME CellInv, ResInv, NEW r \in Researchers, Take(r)
  PROVE  Moves(r) /\ CellKept
<1>1. res[r].pc = "model" /\ CellKept
  BY Unmarked DEF Take, At, Quiet
<1>2. CASE Goto(r, "close")
  BY <1>1, <1>2, Going DEF Level, Behind
<1>3. CASE \E b \in Batches :
             res' = [res EXCEPT ![r].asked = Append(@, b), ![r].pc = "tools"]
  BY <1>1, <1>3, Asking
<1>4. QED BY <1>1, <1>2, <1>3 DEF Take

LEMMA RunToolsStep ==
  ASSUME CellInv, ResInv, NEW r \in Researchers, RunTools(r)
  PROVE  Moves(r) /\ CellKept
<1>1. res[r].pc = "tools" /\ res[r].pc \in Behind /\ CellKept
  BY Unmarked DEF RunTools, At, Quiet, Behind
<1>2. /\ res[r] \in Holder /\ Sound(res[r]) /\ Batch(r) \in Batches
  BY <1>1, BatchOf
<1>3. CASE Searches(Batch(r)) # {}
  BY <1>1, <1>3, Going DEF RunTools, Level, Behind
<1>4. CASE Searches(Batch(r)) = {}
  <2>1. PICK m : m = Messages(Batch(r), <<>>)
    OBVIOUS
  <2>2. m \in Answer /\ DOMAIN m = DOMAIN Batch(r)
    BY <1>2, <1>4, <2>1, MessagesAre
  <2>3. Book!Answers(m, Batch(r), "vendor")
    BY <1>2, <1>4, <2>1, MessagesAnswer
  <2>4. \A i \in DOMAIN m : Batch(r)[i].kind # "search"
    BY <1>4, <2>2 DEF Searches
  <2>5. PICK q : q = Append(res[r].told, m)
    OBVIOUS
  <2>6. q \in Seq(Answer) /\ AfterTools(r) \in {"close", "model"}
    BY <1>2, <2>2, <2>5, AppendProperties DEF Holder, AfterTools
  <2>7. PICK x : x = [res[r] EXCEPT !.told = q, !.pc = AfterTools(r)]
    OBVIOUS
  <2>8. /\ x \in Holder /\ x.pc = AfterTools(r) /\ x.asked = res[r].asked /\ x.told = q
        /\ x.prov = res[r].prov
    BY <1>2, <2>6, <2>7 DEF Holder, Level
  <2>9. res' = [res EXCEPT ![r].told = q, ![r].pc = AfterTools(r)]
    BY <1>4, <2>1, <2>5 DEF RunTools
  <2>10. res' = [res EXCEPT ![r] = x]
    BY <2>7, <2>9
  <2>11. res[r].prov \in Sidecar /\ Truthful(res[r])
    BY <1>2 DEF Holder, Sound
  <2>12. \A id \in DOMAIN res[r].prov : res[r].prov[id].sources = res[r].prov[id].text.made
    BY <2>11 DEF Truthful
  <2>13. QED BY <1>1, <2>2, <2>3, <2>4, <2>5, <2>8, <2>10, <2>11, <2>12, Telling
<1>5. QED BY <1>1, <1>3, <1>4

LEMMA FailStep ==
  ASSUME CellInv, ResInv, UNCHANGED arm, NEW r \in Researchers, NEW held, res[r].pc = "reducing",
         Fails(r, held)
  PROVE  Moves(r) /\ CellKept
<1>1. CASE arm.trial
  <2>1. Emit(r, held, TRUE) /\ Ends(r, "stopped")
    BY <1>1 DEF Fails
  <2>2. QED BY <2>1, Emitting, Ending DEF Empty
<1>2. CASE ~arm.trial
  <2>1. Goto(r, "fallback") /\ UNCHANGED cell
    BY <1>2 DEF Fails
  <2>2. QED BY <2>1, Unmarked, Going DEF Behind
<1>3. QED BY <1>1, <1>2

LEMMA VendorIsText ==
  Vendor \in TextOf /\ Vendor.form = "vendor" /\ Vendor.made = Occurrences
BY DEF Vendor, TextOf

LEMMA VendorPublishes ==
  ASSUME ResInv, NEW r \in Researchers, res[r].pc \in Behind,
         Publish(r, [i \in Searches(Batch(r)) |-> Vendor],
                 [i \in Searches(Batch(r)) |-> Occurrences])
  PROVE  Moves(r)
<1>1. PICK texts : texts = [i \in Searches(Batch(r)) |-> Vendor]
  OBVIOUS
<1>2. PICK sources : sources = [i \in Searches(Batch(r)) |-> Occurrences]
  OBVIOUS
<1>3. \A i \in Searches(Batch(r)) :
           /\ texts[i] \in TextOf /\ sources[i] = texts[i].made /\ texts[i].form = "vendor"
           /\ texts[i].made = Occurrences
  BY <1>1, <1>2, VendorIsText
<1>4. Publish(r, texts, sources)
  BY <1>1, <1>2
<1>5. QED BY <1>3, <1>4, Publishing

LEMMA ReduceP1Step ==
  ASSUME CellInv, ResInv, NEW r \in Researchers, ReduceP1(r)
  PROVE  Moves(r) /\ CellKept
<1>1. res[r].pc = "reducing" /\ UNCHANGED arm /\ res[r].pc \in Behind
  BY DEF ReduceP1, At, Behind
<1>2. CASE \E held : Fails(r, held)
  BY <1>1, <1>2, FailStep
<1>3. CASE ~(\E held : Fails(r, held))
  <2>1. PICK picks \in [Searches(Batch(r)) -> Selections] :
          /\ Stages(picks, Batch(r))
          /\ Emit(r, Held(r, picks), FALSE)
          /\ Publish(r, Texts(picks, Batch(r)), [i \in Searches(Batch(r)) |->
                      IF picks[i].ok THEN Claimed(picks[i]) ELSE Occurrences])
    BY <1>3 DEF ReduceP1
  <2>2. CellKept
    BY <1>1, <2>1, Emitting
  <2>3. PICK texts : texts = Texts(picks, Batch(r))
    OBVIOUS
  <2>4. PICK sources : sources = [i \in Searches(Batch(r)) |->
                      IF picks[i].ok THEN Claimed(picks[i]) ELSE Occurrences]
    OBVIOUS
  <2>5. ASSUME NEW i \in Searches(Batch(r))
        PROVE  texts[i] \in TextOf /\ sources[i] = texts[i].made /\ texts[i].form = "p1"
    <3>1. picks[i].ok /\ picks[i].final \in SUBSET Occurrences
      BY <2>1 DEF Stages, Selections
    <3>2. texts[i] = [form |-> "p1", made |-> picks[i].final]
      BY <2>3, <3>1 DEF Texts
    <3>3. sources[i] = picks[i].final
      BY <2>4, <3>1 DEF Claimed
    <3>4. QED BY <3>1, <3>2, <3>3 DEF TextOf
  <2>6. Publish(r, texts, sources)
    BY <2>1, <2>3, <2>4
  <2>7. Moves(r)
    BY <1>1, <2>5, <2>6, Publishing
  <2>8. QED BY <2>2, <2>7
<1>4. QED BY <1>2, <1>3

LEMMA ReduceP0Step ==
  ASSUME CellInv, ResInv, NEW r \in Researchers, ReduceP0(r)
  PROVE  Moves(r) /\ CellKept
<1>1. res[r].pc = "reducing" /\ UNCHANGED arm /\ res[r].pc \in Behind
  BY DEF ReduceP0, At, Behind
<1>2. CASE Fails(r, outcomes)
  BY <1>1, <1>2, FailStep
<1>3. CASE /\ Publish(r, [i \in Searches(Batch(r)) |-> Vendor],
                      [i \in Searches(Batch(r)) |-> Occurrences])
           /\ Emit(r, {}, FALSE)
  BY <1>1, <1>3, Emitting, VendorPublishes
<1>4. QED BY <1>2, <1>3 DEF ReduceP0

LEMMA RenderStep ==
  ASSUME CellInv, ResInv, NEW r \in Researchers, Render(r)
  PROVE  Moves(r) /\ CellKept
<1>1. res[r].pc = "fallback" /\ UNCHANGED arm /\ res[r].pc \in Behind
  BY DEF Render, At, Behind
<1>2. CASE Ends(r, "failed") /\ UNCHANGED cell
  BY <1>1, <1>2, Unmarked, Ending DEF Empty
<1>3. CASE /\ Publish(r, [i \in Searches(Batch(r)) |-> Vendor],
                      [i \in Searches(Batch(r)) |-> Occurrences])
           /\ Emit(r, IF arm.page = "P1" THEN outcomes ELSE {}, TRUE)
  BY <1>1, <1>3, Emitting, VendorPublishes
<1>4. QED BY <1>2, <1>3 DEF Render

\* the close goes on only with a sidecar that agrees with the conversation
LEMMA StartCloseStep ==
  ASSUME CellInv, ResInv, NEW r \in Researchers, StartClose(r)
  PROVE  Moves(r) /\ CellKept
<1>1. res[r].pc = "close" /\ CellKept
  BY Unmarked DEF StartClose, At, Quiet
<1>2. CASE ~FreezeAccepts(r)
  BY <1>1, <1>2, Ending DEF StartClose, Empty
<1>3. CASE FreezeAccepts(r)
  <2>1. Agrees(res[r])
    BY <1>3 DEF FreezeAccepts, Agrees
  <2>2. PICK to \in {"compressing", "closing"} : Goto(r, to)
    BY <1>3 DEF StartClose
  <2>3. QED BY <1>1, <2>1, <2>2, Going DEF Level
<1>4. QED BY <1>2, <1>3

LEMMA CloseMoves ==
  ASSUME CellInv, ResInv, NEW r \in Researchers, Close(r)
  PROVE  Moves(r) /\ CellKept
<1>1. res[r].pc = "closing" /\ UNCHANGED arm /\ Mark("C")
  BY DEF Close, At, Quiet
<1>2. CellKept
  BY <1>1, Marking
<1>3. Ends(r, "noted_p1") \/ Ends(r, "stopped") \/ Goto(r, "compressing")
  BY DEF Close, CloseOutcomes
<1>4. Agrees(res[r])
  BY <1>1 DEF ResInv, Sound
<1>5. QED BY <1>1, <1>2, <1>3, <1>4, Ending, Going DEF Empty, Level

LEMMA EndingSteps ==
  ASSUME CellInv, ResInv, NEW r \in Researchers, HandleDomain(r) \/ Compress(r)
  PROVE  Moves(r) /\ CellKept
BY Unmarked, Ending DEF HandleDomain, Compress, Quiet, Empty

LEMMA ResearchStep ==
  ASSUME CellInv, ResInv, NEW r \in Researchers, Research(r)
  PROVE  Moves(r) /\ CellKept /\ res[r].pc # "absent"
<1>1. Moves(r) /\ CellKept
  BY TakeStep, RunToolsStep, ReduceP1Step, ReduceP0Step, RenderStep, StartCloseStep, CloseMoves,
     EndingSteps DEF Research
<1>2. res[r].pc # "absent"
  BY DEF Research, Take, RunTools, ReduceP1, HandleDomain, ReduceP0, Render, StartClose, Close,
         Compress, At
<1>3. QED BY <1>1, <1>2

-----------------------------------------------------------------------------
\* the invariant after a researcher's step, a supervisor's, and at first
LEMMA ResearchKeeps ==
  ASSUME CellInv, ResInv, NEW r \in Researchers, Research(r)
  PROVE  CellInv' /\ ResInv'
<1>1. CellKept /\ res[r].pc # "absent" /\ Moves(r)
  BY ResearchStep
<1>2. PICK x \in Holder : res' = [res EXCEPT ![r] = x] /\ Sound(x)
  BY <1>1 DEF Moves
<1>3. res \in [Researchers -> Holder]
  BY DEF ResInv
<1>4. res' \in [Researchers -> Holder]
  BY <1>2, <1>3
<1>5. ASSUME NEW o \in Researchers PROVE Sound(res'[o])
  BY <1>2, <1>3 DEF ResInv
<1>6. ASSUME NEW o \in Researchers, o[1] > cell'.round PROVE res'[o].pc = "absent"
  <2>1. o[1] > cell.round /\ res[o].pc = "absent"
    BY <1>1, <1>6 DEF CellKept, CellInv
  <2>2. o # r
    BY <1>1, <2>1
  <2>3. QED BY <1>2, <1>3, <2>1, <2>2
<1>7. ResInv'
  <2>1. ASSUME NEW o \in Researchers, NEW y, y = res'[o] PROVE Sound(y)
    BY <1>5, <2>1
  <2>2. QED BY <1>4, <2>1 DEF ResInv
<1>8. arm' \in Arms /\ cell' \in [pc : {"supervising", "gathering", "reporting", "ok", "error"},
                                  round : Nat, marked : BOOLEAN]
  BY <1>1 DEF CellKept, CellInv
<1>9. QED BY <1>6, <1>7, <1>8 DEF CellInv

\* a round that starts gives researchers that were absent an empty conversation
LEMMA RoundStarts ==
  ASSUME CellInv, ResInv, StartRound
  PROVE  /\ CellInv' /\ ResInv'
         /\ \A r \in Researchers : res'[r].asked = res[r].asked /\ res'[r].told = res[r].told
<1>1. cell.round \in Nat
  BY DEF CellInv
<1>2. PICK k \in Nat : k = cell.round + 1
  BY <1>1
<1>3. cell' = [cell EXCEPT !.pc = "gathering", !.round = k]
  BY <1>2 DEF StartRound
<1>4. /\ cell' \in [pc : {"supervising", "gathering", "reporting", "ok", "error"}, round : Nat,
                    marked : BOOLEAN]
      /\ cell'.round = k /\ arm' \in Arms
  BY <1>3 DEF CellInv, StartRound, Quiet
<1>5. PICK fresh : fresh = [Absent EXCEPT !.pc = "model"]
  OBVIOUS
<1>6. fresh = [pc |-> "model", asked |-> <<>>, told |-> <<>>, prov |-> <<>>]
  BY <1>5 DEF Absent
<1>7. <<>> \in Sidecar
  <2>1. <<>> \in [{} -> Entry]
    OBVIOUS
  <2>2. QED BY <2>1 DEF Sidecar
<1>8. fresh \in Holder
  BY <1>6, <1>7 DEF Holder, Level
<1>9. Sound(fresh)
  BY <1>6 DEF Sound, Truthful, Certified, Agrees, Level, Behind, Empty
<1>10. res' = [r \in Researchers |->
                 IF r[1] = k /\ r[2] <= arm.plan[k] THEN fresh ELSE res[r]]
  BY <1>2, <1>5 DEF StartRound
<1>11. res \in [Researchers -> Holder] /\ \A r \in Researchers : Sound(res[r])
  BY DEF ResInv
<1>12. res' \in [Researchers -> Holder] /\ \A r \in Researchers : Sound(res'[r])
  BY <1>8, <1>9, <1>10, <1>11
<1>13. ResInv'
  <2>1. ASSUME NEW o \in Researchers, NEW y, y = res'[o] PROVE Sound(y)
    BY <1>12, <2>1
  <2>2. QED BY <1>12, <2>1 DEF ResInv
<1>14. ASSUME NEW r \in Researchers
       PROVE  /\ r[1] > k => res'[r].pc = "absent"
              /\ res'[r].asked = res[r].asked /\ res'[r].told = res[r].told
  <2>1. r[1] \in Nat /\ (r[1] > cell.round => res[r].pc = "absent")
    BY ResearchersAre DEF CellInv
  <2>2. CASE r[1] = k
    <3>1. res[r].pc = "absent"
      BY <1>1, <1>2, <2>1, <2>2
    <3>2. res[r].asked = <<>> /\ res[r].told = <<>>
      BY <1>11, <3>1 DEF Sound, Empty
    <3>3. QED BY <1>6, <1>10, <2>2, <3>2
  <2>3. CASE r[1] # k
    BY <1>1, <1>2, <1>10, <2>1, <2>3
  <2>4. QED BY <2>2, <2>3
<1>15. QED BY <1>4, <1>13, <1>14 DEF CellInv

LEMMA SuperviseKeeps ==
  ASSUME CellInv, ResInv, Supervise
  PROVE  /\ CellInv' /\ ResInv'
         /\ \A r \in Researchers : res'[r].asked = res[r].asked /\ res'[r].told = res[r].told
<1>1. CASE StartRound
  BY <1>1, RoundStarts
<1>2. CASE ~StartRound
  <2>1. PICK to \in {"supervising", "reporting", "ok", "error"} : cell' = [cell EXCEPT !.pc = to]
    BY <1>2 DEF Supervise, EndRound, Swallow, EndResearch, Report, GraphFails
  <2>2. UNCHANGED <<arm, res>>
    BY <1>2 DEF Supervise, EndRound, Swallow, EndResearch, Report, GraphFails, Quiet
  <2>3. /\ cell' \in [pc : {"supervising", "gathering", "reporting", "ok", "error"}, round : Nat,
                      marked : BOOLEAN]
        /\ cell'.round = cell.round
    BY <2>1 DEF CellInv
  <2>4. CellInv'
    BY <2>2, <2>3 DEF CellInv
  <2>5. ResInv'
    BY <2>2 DEF ResInv
  <2>6. QED BY <2>2, <2>4, <2>5
<1>3. QED BY <1>1, <1>2

LEMMA BatchStarts ==
  ASSUME Init
  PROVE  BatchInv
<1>1. PICK x : x = Absent
  OBVIOUS
<1>2. x = [pc |-> "absent", asked |-> <<>>, told |-> <<>>, prov |-> <<>>]
  BY <1>1 DEF Absent
<1>3. <<>> \in Sidecar
  <2>1. <<>> \in [{} -> Entry]
    OBVIOUS
  <2>2. QED BY <2>1 DEF Sidecar
<1>4. x \in Holder
  BY <1>2, <1>3 DEF Holder, Empty
<1>5. Sound(x)
  BY <1>2 DEF Sound, Truthful, Certified, Agrees, Level, Behind, Empty
<1>6. res = [r \in Researchers |-> x]
  BY <1>1 DEF Init
<1>7. ResInv
  BY <1>4, <1>5, <1>6 DEF ResInv
<1>8. CellInv
  BY <1>2, <1>6 DEF Init, CellInv
<1>9. QED BY <1>7, <1>8 DEF BatchInv

LEMMA BatchStep ==
  ASSUME BatchInv, [Next]_vars
  PROVE  BatchInv'
<1>1. CASE Supervise
  BY <1>1, SuperviseKeeps DEF BatchInv
<1>2. CASE \E r \in Researchers : Research(r)
  BY <1>2, ResearchKeeps DEF BatchInv
<1>3. CASE UNCHANGED vars
  BY <1>3 DEF vars, BatchInv, CellInv, ResInv
<1>4. QED BY <1>1, <1>2, <1>3 DEF Next

\* What a cell and its researchers hold: every conversation is answered up
\* to its last turn, its sidecar names for each entry the sources the bytes
\* were made of and has every search, and a close found the two agreeing.
THEOREM BatchInvariant == Spec => []BatchInv
BY BatchStarts, BatchStep, PTL DEF Spec

\* When a researcher has closed, its sidecar binds every certified message
\* to the bytes in the conversation and to exactly the sources they were
\* made of (vendor_hooks.py record_tool_batch_publication, adapter.py
\* freeze_messages), however ids were reused.
THEOREM PublishedIsFrozen == Spec => []FrozenProvenanceIsPublished
<1>1. ASSUME BatchInv PROVE FrozenProvenanceIsPublished
  <2>1. SUFFICES ASSUME NEW r \in Researchers, res[r].pc \in {"closing", "compressing"},
                        NEW n \in DOMAIN res[r].told, NEW i \in DOMAIN res[r].told[n]
                 PROVE  /\ res[r].told[n][i].id \in DOMAIN res[r].prov =>
                             /\ res[r].prov[res[r].told[n][i].id].text = res[r].told[n][i].text
                             /\ res[r].prov[res[r].told[n][i].id].sources =
                                  res[r].told[n][i].text.made
                        /\ res[r].asked[n][i].kind = "search" =>
                             res[r].told[n][i].id \in DOMAIN res[r].prov
    BY DEF FrozenProvenanceIsPublished
  <2>2. Agrees(res[r]) /\ Truthful(res[r]) /\ Certified(res[r])
    BY <1>1, <2>1 DEF BatchInv, ResInv, Sound
  <2>3. QED BY <2>1, <2>2 DEF Agrees, Truthful, Certified
<1>2. QED BY <1>1, BatchInvariant, PTL

-----------------------------------------------------------------------------
\* the refinement: what each step does to the book
BookAsked == [r \in Researchers |-> res[r].asked]
BookTold == [r \in Researchers |-> res[r].told]

LEMMA BookStarts ==
  ASSUME Init
  PROVE  Book!Init
BY DEF Init, Absent, Book!Init

LEMMA BookStutters ==
  ASSUME \A r \in Researchers : res'[r].asked = res[r].asked /\ res'[r].told = res[r].told
  PROVE  BookAsked' = BookAsked /\ BookTold' = BookTold
BY DEF BookAsked, BookTold

LEMMA BookFollows ==
  ASSUME ResInv, NEW r \in Researchers, Moves(r)
  PROVE  \/ Book!Ask(r) \/ Book!Tell(r) \/ Book!Forget(r)
         \/ BookAsked' = BookAsked /\ BookTold' = BookTold
<1>1. PICK x \in Holder : res' = [res EXCEPT ![r] = x] /\ Shape(r, x)
  BY DEF Moves
<1>2. res \in [Researchers -> Holder]
  BY DEF ResInv
<1>3. BookAsked' = [BookAsked EXCEPT ![r] = x.asked] /\ BookTold' = [BookTold EXCEPT ![r] = x.told]
  BY <1>1, <1>2 DEF BookAsked, BookTold
<1>4. BookAsked[r] = res[r].asked /\ BookTold[r] = res[r].told /\ BookTold'[r] = x.told
  BY <1>1, <1>2 DEF BookAsked, BookTold
<1>5. CASE x.asked = res[r].asked /\ x.told = res[r].told
  BY <1>1, <1>2, <1>5, BookStutters
<1>6. CASE x.asked = <<>> /\ x.told = <<>>
  <2>1. Book!Forget(r)
    BY <1>3, <1>6 DEF Book!Forget, BookAsked, BookTold
  <2>2. QED BY <2>1
<1>7. CASE /\ Len(res[r].asked) = Len(res[r].told) /\ x.told = res[r].told
           /\ \E b \in Batches : x.asked = Append(res[r].asked, b)
  <2>1. PICK b \in Batches : x.asked = Append(res[r].asked, b)
    BY <1>7
  <2>2. BookAsked' = [BookAsked EXCEPT ![r] = Append(BookAsked[r], b)]
    BY <1>3, <1>4, <2>1
  <2>3. BookTold' = BookTold
    BY <1>3, <1>4, <1>7 DEF BookTold
  <2>4. Len(BookAsked[r]) = Len(BookTold[r])
    BY <1>4, <1>7
  <2>5. Book!Ask(r)
    BY <2>2, <2>3, <2>4 DEF Book!Ask, BookAsked, BookTold
  <2>6. QED BY <2>5
<1>8. CASE /\ Len(res[r].asked) = Len(res[r].told) + 1 /\ x.asked = res[r].asked
           /\ \E m \in Answer, form \in {"vendor", "p1"} :
                /\ x.told = Append(res[r].told, m)
                /\ Book!Answers(m, res[r].asked[Len(res[r].asked)], form)
  <2>1. PICK m \in Answer, form \in {"vendor", "p1"} :
          /\ x.told = Append(res[r].told, m)
          /\ Book!Answers(m, res[r].asked[Len(res[r].asked)], form)
    BY <1>8
  <2>2. res[r].told \in Seq(Answer)
    BY <1>2 DEF Holder
  <2>3. Len(x.told) = Len(res[r].asked) /\ x.told[Len(res[r].asked)] = m
    BY <1>8, <2>1, <2>2, AppendProperties
  <2>4. BookAsked' = BookAsked
    BY <1>3, <1>8 DEF BookAsked
  <2>5. BookTold' = [BookTold EXCEPT ![r] = Append(BookTold[r], m)]
    BY <1>3, <1>4, <2>1
  <2>6. Len(BookAsked[r]) = Len(BookTold[r]) + 1 /\ Len(BookTold'[r]) = Len(BookAsked[r])
        /\ BookTold'[r][Len(BookAsked[r])] = m /\ Book!Answers(m, BookAsked[r][Len(BookAsked[r])], form)
    BY <1>4, <1>8, <2>1, <2>3
  <2>7. BookTold' = [BookTold EXCEPT ![r] = Append(BookTold[r], BookTold'[r][Len(BookAsked[r])])]
    BY <2>5, <2>6
  <2>8. \E f \in {"vendor", "p1"} :
          Book!Answers(BookTold'[r][Len(BookAsked[r])], BookAsked[r][Len(BookAsked[r])], f)
    BY <2>6
  <2>9. Book!Tell(r)
    BY <2>4, <2>6, <2>7, <2>8 DEF Book!Tell, BookAsked, BookTold
  <2>10. QED BY <2>9
<1>9. QED BY <1>1, <1>5, <1>6, <1>7, <1>8 DEF Shape

LEMMA BookSteps ==
  ASSUME BatchInv, [Next]_vars
  PROVE  Book!Next \/ (BookAsked' = BookAsked /\ BookTold' = BookTold)
<1>1. CellInv /\ ResInv
  BY DEF BatchInv
<1>2. CASE Supervise
  BY <1>1, <1>2, SuperviseKeeps, BookStutters
<1>3. CASE \E r \in Researchers : Research(r)
  <2>1. PICK r \in Researchers : Moves(r)
    BY <1>1, <1>3, ResearchStep
  <2>2. QED BY <1>1, <2>1, BookFollows DEF Book!Next
<1>4. CASE UNCHANGED vars
  BY <1>4, BookStutters DEF vars
<1>5. QED BY <1>2, <1>3, <1>4 DEF Next

\* A turn's calls are answered whole, in their order and by one renderer,
\* whatever sibling failed (adapter.py reduce_tool_batch and
\* _resolve_failure): the cell implements the batch book.
THEOREM CellsTellByTheBook == Spec => ImplementsBatchBook
<1>1. BatchInv /\ [Next]_vars => [Book!Next]_<<BookAsked, BookTold>>
  BY BookSteps
<1>2. Spec => Book!Init /\ [][Book!Next]_<<BookAsked, BookTold>>
  BY <1>1, BookStarts, BatchInvariant, PTL DEF Spec
<1>3. QED BY <1>2, PTL DEF ImplementsBatchBook, Book!Spec, BookAsked, BookTold

(*************** The inference route and the prose gathers ****************)

(* What the route keeps of a request, from its arrival to its end.         *)
CallState == {"INTENT", "BUDGET_RESERVED", "SENT", "RESPONSE_STORED"} \cup Terminal
CallPC == {"none", "arrived", "numbered", "queued", "serving", "stored", "over"}
CallIds == {None} \cup ({body[x] : x \in Requests} \X Nat)
CallRow == [pc : CallPC, id : CallIds, state : CallState \cup {None}, dispatched : BOOLEAN,
            ended : BOOLEAN]

\* the attempt is where its handler is
Fresh(c) == c.state = None /\ ~c.dispatched /\ ~c.ended
Routed(c) ==
  /\ c.pc \in {"none", "arrived", "numbered"} => Fresh(c)
  /\ c.pc = "queued" => ~c.dispatched /\ ~c.ended /\ c.state # None
  /\ c.pc = "serving" => c.dispatched /\ ~c.ended /\ c.state # None
  /\ c.ended => c.dispatched
  /\ c.dispatched => c.state # None

\* the engine may work on it, or have shared itself for it, and nobody ever learns
Lost(c) == c.pc = "over" /\ c.dispatched /\ ~c.ended

Serving(r) == calls[r].pc = "serving"

\* the gate of one place
GateOfOne ==
  /\ provider.free \in {0, 1}
  /\ provider.free = 1 => \A r \in Requests : ~Serving(r)
  /\ \A r, x \in Requests : Serving(r) /\ Serving(x) => r = x

ClientState == {"idle", "waiting", "ok", "failed", "abandoned"}
ProviderRow == [up : BOOLEAN, nonce : Nat, free : Int, registered : BOOLEAN]

RowsInv ==
  /\ calls \in [Requests -> CallRow]
  /\ \A r \in Requests : Routed(calls[r])
  /\ IsFiniteSet(Opened)

ClientInv ==
  /\ client \in [Requests -> ClientState]
  /\ \A r \in Requests : client[r] = "idle" => calls[r].pc = "none"

EngineInv ==
  /\ provider \in ProviderRow
  /\ engine \subseteq worked /\ worked \subseteq Requests
  /\ \A r \in worked : calls[r].dispatched
  /\ \A r \in engine : Serving(r) \/ Lost(calls[r])

GateInv ==
  MaxInflight = 1 => /\ GateOfOne
                     /\ \A p \in shared : \E x \in p : x \in Requests /\ Lost(calls[x])

RouteInv == RowsInv /\ ClientInv /\ EngineInv /\ GateInv

-----------------------------------------------------------------------------
\* one request's row changes, and with it at most its place at the gate
LEMMA RowMoves ==
  ASSUME RouteInv, NEW r \in Requests, NEW c \in CallRow, calls' = [calls EXCEPT ![r] = c], Routed(c),
         Lost(calls[r]) => Lost(c)
  PROVE  /\ RowsInv'
         /\ calls'[r] = c /\ \A x \in Requests \ {r} : calls'[x] = calls[x]
         /\ \A x \in Requests : Lost(calls[x]) => Lost(calls'[x])
<1>1. calls \in [Requests -> CallRow] /\ IsFiniteSet(Opened)
  BY DEF RouteInv, RowsInv
<1>2. /\ calls' \in [Requests -> CallRow]
      /\ calls'[r] = c /\ \A x \in Requests \ {r} : calls'[x] = calls[x]
  BY <1>1
<1>3. ASSUME NEW x \in Requests, NEW y, y = calls'[x] PROVE Routed(y)
  <2>1. CASE x = r
    BY <1>2, <1>3, <2>1
  <2>2. CASE x # r
    BY <1>2, <1>3, <2>2 DEF RouteInv, RowsInv
  <2>3. QED BY <2>1, <2>2
<1>4. \A x \in Requests : Routed(calls[x])'
  BY <1>3 DEF Routed, Fresh
<1>5. Opened' \subseteq Opened \cup {r}
  BY <1>2 DEF Opened
<1>6. IsFiniteSet(Opened \cup {r})
  BY <1>1, FS_AddElement
<1>7. IsFiniteSet(Opened')
  BY <1>5, <1>6, FS_Subset
<1>8. \A x \in Requests : Lost(calls[x]) => Lost(calls'[x])
  BY <1>2
<1>9. QED BY <1>2, <1>4, <1>7, <1>8 DEF RowsInv

\* what the caller sees of it
LEMMA ClientMoves ==
  ASSUME RouteInv, NEW r \in Requests, client' \in [Requests -> ClientState],
         \A x \in Requests \ {r} : calls'[x] = calls[x],
         \A x \in Requests \ {r} : client'[x] = "idle" => client[x] = "idle",
         client'[r] = "idle" => calls'[r].pc = "none"
  PROVE  ClientInv'
<1>1. \A x \in Requests : client[x] = "idle" => calls[x].pc = "none"
  BY DEF RouteInv, ClientInv
<1>2. ASSUME NEW x \in Requests, client'[x] = "idle" PROVE calls'[x].pc = "none"
  <2>1. CASE x = r
    BY <1>2, <2>1
  <2>2. CASE x # r
    BY <1>1, <1>2, <2>2
  <2>3. QED BY <2>1, <2>2
<1>3. QED BY <1>2 DEF ClientInv

LEMMA TellFacts ==
  ASSUME RouteInv, NEW r \in Requests, NEW a \in {"ok", "failed"}, Tell(r, a) \/ UNCHANGED client
  PROVE  /\ client' \in [Requests -> ClientState]
         /\ \A x \in Requests \ {r} : client'[x] = client[x]
         /\ client'[r] = "idle" => client[r] = "idle"
<1>1. client \in [Requests -> ClientState]
  BY DEF RouteInv, ClientInv
<1>2. PICK b : b = IF client[r] = "waiting" THEN a ELSE client[r]
  OBVIOUS
<1>3. b \in ClientState
  BY <1>1, <1>2 DEF ClientState
<1>4. client' = [client EXCEPT ![r] = b] \/ client' = client
  BY <1>2 DEF Tell
<1>5. QED BY <1>1, <1>2, <1>3, <1>4 DEF ClientState

\* a step before the gate, or after it
LEMMA EngineRests ==
  ASSUME RouteInv, NEW r \in Requests, NEW c, calls'[r] = c,
         \A x \in Requests \ {r} : calls'[x] = calls[x],
         \A x \in Requests : Lost(calls[x]) => Lost(calls'[x]),
         c.pc = "serving" <=> calls[r].pc = "serving",
         calls[r].dispatched => c.dispatched,
         provider' \in ProviderRow, provider'.free = provider.free,
         UNCHANGED <<engine, worked, shared>>
  PROVE  EngineInv' /\ GateInv'
<1>1. \A x \in Requests : Serving(x)' <=> Serving(x)
  <2>1. ASSUME NEW x \in Requests PROVE Serving(x)' <=> Serving(x)
    <3>1. CASE x = r
      BY <3>1 DEF Serving
    <3>2. CASE x # r
      BY <3>2 DEF Serving
    <3>3. QED BY <3>1, <3>2
  <2>2. QED BY <2>1
<1>2. \A x \in Requests : calls[x].dispatched => calls'[x].dispatched
  OBVIOUS
<1>3. EngineInv'
  <2>1. \A x \in worked : calls'[x].dispatched
    BY <1>2 DEF RouteInv, EngineInv
  <2>2. ASSUME NEW x \in engine PROVE Serving(x)' \/ Lost(calls[x])'
    BY <1>1 DEF RouteInv, EngineInv
  <2>3. QED BY <2>1, <2>2 DEF RouteInv, EngineInv
<1>4. GateInv'
  <2>1. ASSUME MaxInflight = 1 PROVE GateOfOne'
    BY <1>1, <2>1 DEF RouteInv, GateInv, GateOfOne
  <2>2. ASSUME MaxInflight = 1, NEW p \in shared PROVE \E x \in p : x \in Requests /\ Lost(calls[x])'
    <3>1. PICK x \in p : x \in Requests /\ Lost(calls[x])
      BY <2>2 DEF RouteInv, GateInv
    <3>2. Lost(calls'[x])
      BY <3>1
    <3>3. QED BY <3>1, <3>2
  <2>3. QED BY <2>1, <2>2 DEF GateInv
<1>5. QED BY <1>3, <1>4

-----------------------------------------------------------------------------
LEMMA PostKeeps ==
  ASSUME RouteInv, NEW r \in Requests, Post(r)
  PROVE  RouteInv'
<1>1. /\ calls[r] \in CallRow /\ calls[r].pc = "none" /\ Routed(calls[r])
      /\ client \in [Requests -> ClientState] /\ calls \in [Requests -> CallRow]
  BY DEF RouteInv, RowsInv, ClientInv, Post
<1>2. PICK c : c = IF provider.up THEN [calls[r] EXCEPT !.pc = "arrived"] ELSE calls[r]
  OBVIOUS
<1>3. /\ c \in CallRow /\ c.pc \in {"none", "arrived"} /\ Routed(c) /\ (Lost(calls[r]) => Lost(c))
      /\ c.dispatched = calls[r].dispatched
  BY <1>1, <1>2 DEF CallRow, CallPC, Routed, Fresh, Lost
<1>4. calls' = [calls EXCEPT ![r] = c]
  BY <1>1, <1>2 DEF Post
<1>5. /\ RowsInv'
      /\ calls'[r] = c /\ \A x \in Requests \ {r} : calls'[x] = calls[x]
      /\ \A x \in Requests : Lost(calls[x]) => Lost(calls'[x])
  BY <1>3, <1>4, RowMoves
<1>6. ClientInv'
  <2>1. PICK a \in {"waiting", "failed"} : client' = [client EXCEPT ![r] = a]
    BY DEF Post
  <2>2. client' \in [Requests -> ClientState] /\ client'[r] = a
        /\ \A x \in Requests \ {r} : client'[x] = client[x]
    BY <1>1, <2>1 DEF ClientState
  <2>3. QED BY <1>5, <2>2, ClientMoves
<1>7. UNCHANGED <<provider, engine, worked, shared>> /\ provider' \in ProviderRow
  BY DEF Post, RouteInv, EngineInv
<1>8. EngineInv' /\ GateInv'
  BY <1>1, <1>3, <1>5, <1>7, EngineRests
<1>9. QED BY <1>5, <1>6, <1>8 DEF RouteInv

\* a handler before the gate or after its answer
LEMMA HandlerKeeps ==
  ASSUME RouteInv, NEW r \in Requests, calls[r].pc \in {"arrived", "numbered", "stored"},
         NEW c \in CallRow, calls' = [calls EXCEPT ![r] = c], Routed(c),
         c.pc \in {"numbered", "queued", "over"}, c.dispatched = calls[r].dispatched,
         NEW a \in {"ok", "failed"}, Tell(r, a) \/ UNCHANGED client,
         provider' \in ProviderRow, provider'.free = provider.free,
         UNCHANGED <<engine, worked, shared>>
  PROVE  RouteInv'
<1>1. Lost(calls[r]) => Lost(c)
  BY DEF Lost
<1>2. /\ RowsInv'
      /\ calls'[r] = c /\ \A x \in Requests \ {r} : calls'[x] = calls[x]
      /\ \A x \in Requests : Lost(calls[x]) => Lost(calls'[x])
  BY <1>1, RowMoves
<1>3. ClientInv'
  <2>1. /\ client' \in [Requests -> ClientState]
        /\ \A x \in Requests \ {r} : client'[x] = client[x]
        /\ client'[r] = "idle" => client[r] = "idle"
    BY TellFacts
  <2>2. client[r] # "idle"
    BY DEF RouteInv, ClientInv
  <2>3. QED BY <1>2, <2>1, <2>2, ClientMoves
<1>4. EngineInv' /\ GateInv'
  BY <1>2, EngineRests
<1>5. QED BY <1>2, <1>3, <1>4 DEF RouteInv

LEMMA NumberKeeps ==
  ASSUME RouteInv, NEW r \in Requests, Number(r)
  PROVE  RouteInv'
<1>1. /\ calls[r] \in CallRow /\ calls[r].pc = "arrived" /\ Routed(calls[r])
      /\ provider \in ProviderRow /\ UNCHANGED <<engine, worked, shared>>
  BY DEF RouteInv, RowsInv, EngineInv, Number, HandlerAt
<1>2. CASE provider.registered
  <2>1. PICK n : n = provider.nonce + 1
    OBVIOUS
  <2>2. n \in Nat
    BY <1>1, <2>1 DEF ProviderRow
  <2>3. PICK c : c = [calls[r] EXCEPT !.pc = "numbered", !.id = <<body[r], n>>]
    OBVIOUS
  <2>4. <<body[r], n>> \in CallIds
    BY <2>2 DEF CallIds
  <2>5. c \in CallRow /\ c.pc = "numbered" /\ Routed(c) /\ c.dispatched = calls[r].dispatched
    BY <1>1, <2>3, <2>4 DEF CallRow, CallPC, Routed, Fresh
  <2>6. calls' = [calls EXCEPT ![r] = c]
    BY <1>2, <2>1, <2>3 DEF Number
  <2>7. PICK p : p = [provider EXCEPT !.nonce = n]
    OBVIOUS
  <2>8. p \in ProviderRow /\ p.free = provider.free
    BY <1>1, <2>2, <2>7 DEF ProviderRow
  <2>9. provider' = p /\ UNCHANGED client
    BY <1>2, <2>1, <2>7 DEF Number
  <2>10. QED BY <1>1, <2>5, <2>6, <2>8, <2>9, HandlerKeeps
<1>3. CASE ~provider.registered
  <2>1. PICK c : c = [calls[r] EXCEPT !.pc = "over"]
    OBVIOUS
  <2>2. c \in CallRow /\ c.pc = "over" /\ Routed(c) /\ c.dispatched = calls[r].dispatched
    BY <1>1, <2>1 DEF CallRow, CallPC, Routed, Fresh
  <2>3. calls' = [calls EXCEPT ![r] = c] /\ Tell(r, "failed") /\ UNCHANGED provider
    BY <1>3, <2>1 DEF Number
  <2>4. QED BY <1>1, <2>2, <2>3, HandlerKeeps
<1>4. QED BY <1>2, <1>3

LEMMA OpenKeeps ==
  ASSUME RouteInv, NEW r \in Requests, Open(r)
  PROVE  RouteInv'
<1>1. /\ calls[r] \in CallRow /\ calls[r].pc = "numbered" /\ Routed(calls[r])
      /\ provider' \in ProviderRow /\ UNCHANGED <<provider, engine, worked, shared>>
  BY DEF RouteInv, RowsInv, EngineInv, Open, HandlerAt
<1>2. CASE calls' = [calls EXCEPT ![r].pc = "over"] /\ Tell(r, "failed")
  <2>1. PICK c : c = [calls[r] EXCEPT !.pc = "over"]
    OBVIOUS
  <2>2. c \in CallRow /\ c.pc = "over" /\ Routed(c) /\ c.dispatched = calls[r].dispatched
    BY <1>1, <2>1 DEF CallRow, CallPC, Routed, Fresh
  <2>3. calls' = [calls EXCEPT ![r] = c]
    BY <1>2, <2>1
  <2>4. QED BY <1>1, <1>2, <2>2, <2>3, HandlerKeeps
<1>3. CASE calls' = [calls EXCEPT ![r].pc = "queued", ![r].state = "BUDGET_RESERVED"] /\ UNCHANGED client
  <2>1. PICK c : c = [calls[r] EXCEPT !.pc = "queued", !.state = "BUDGET_RESERVED"]
    OBVIOUS
  <2>2. c \in CallRow /\ c.pc = "queued" /\ Routed(c) /\ c.dispatched = calls[r].dispatched
    BY <1>1, <2>1, ProxyAssumption DEF CallRow, CallPC, CallState, Routed, Fresh
  <2>3. calls' = [calls EXCEPT ![r] = c]
    BY <1>3, <2>1
  <2>4. QED BY <1>1, <1>3, <2>2, <2>3, HandlerKeeps
<1>4. CASE calls' = [calls EXCEPT ![r].pc = "over", ![r].state = "INTENT"] /\ Tell(r, "failed")
  <2>1. PICK c : c = [calls[r] EXCEPT !.pc = "over", !.state = "INTENT"]
    OBVIOUS
  <2>2. c \in CallRow /\ c.pc = "over" /\ Routed(c) /\ c.dispatched = calls[r].dispatched
    BY <1>1, <2>1, ProxyAssumption DEF CallRow, CallPC, CallState, Routed, Fresh
  <2>3. calls' = [calls EXCEPT ![r] = c]
    BY <1>4, <2>1
  <2>4. QED BY <1>1, <1>4, <2>2, <2>3, HandlerKeeps
<1>5. QED BY <1>2, <1>3, <1>4 DEF Open

LEMMA CommitKeeps ==
  ASSUME RouteInv, NEW r \in Requests, Commit(r)
  PROVE  RouteInv'
<1>1. /\ calls[r] \in CallRow /\ calls[r].pc = "stored" /\ Routed(calls[r]) /\ Tell(r, "ok")
      /\ provider' \in ProviderRow /\ UNCHANGED <<provider, engine, worked, shared>>
  BY DEF RouteInv, RowsInv, EngineInv, Commit, HandlerAt
<1>2. PICK c : c = [calls[r] EXCEPT !.pc = "over", !.state = "COMMITTED"]
  OBVIOUS
<1>3. c \in CallRow /\ c.pc = "over" /\ Routed(c) /\ c.dispatched = calls[r].dispatched
  BY <1>1, <1>2, ProxyAssumption DEF CallRow, CallPC, CallState, Terminal, Routed, Fresh
<1>4. calls' = [calls EXCEPT ![r] = c]
  BY <1>2 DEF Commit
<1>5. QED BY <1>1, <1>3, <1>4, HandlerKeeps

-----------------------------------------------------------------------------
\* a place at the gate: with one place nobody is served, so whoever the engine
\* still works for is lost
LEMMA DispatchKeeps ==
  ASSUME RouteInv, NEW r \in Requests, Dispatch(r)
  PROVE  RouteInv'
<1>1. /\ calls[r] \in CallRow /\ calls[r].pc = "queued" /\ Routed(calls[r]) /\ UNCHANGED client
      /\ provider \in ProviderRow /\ provider.free > 0
  BY DEF RouteInv, RowsInv, EngineInv, Dispatch, HandlerAt
<1>2. PICK c : c = [calls[r] EXCEPT !.pc = "serving", !.state = "SENT", !.dispatched = TRUE]
  OBVIOUS
<1>3. c \in CallRow /\ c.pc = "serving" /\ Routed(c) /\ c.dispatched
  BY <1>1, <1>2, ProxyAssumption DEF CallRow, CallPC, CallState, Terminal, Routed, Fresh
<1>4. calls' = [calls EXCEPT ![r] = c] /\ ~Lost(calls[r])
  BY <1>1, <1>2 DEF Dispatch, Lost
<1>5. /\ RowsInv'
      /\ calls'[r] = c /\ \A x \in Requests \ {r} : calls'[x] = calls[x]
      /\ \A x \in Requests : Lost(calls[x]) => Lost(calls'[x])
  BY <1>3, <1>4, RowMoves
<1>6. ClientInv'
  BY <1>1, <1>5, ClientMoves DEF RouteInv, ClientInv
<1>7. PICK n : n = provider.free - 1
  OBVIOUS
<1>8. PICK p : p = [provider EXCEPT !.free = n]
  OBVIOUS
<1>9. provider' = p /\ p \in ProviderRow /\ p.free = n
  BY <1>1, <1>7, <1>8 DEF Dispatch, ProviderRow
<1>10. r \notin engine
  BY <1>1 DEF RouteInv, EngineInv, Serving, Lost
<1>11. \A x \in Requests : calls[x].dispatched => calls'[x].dispatched
  BY <1>3, <1>5
<1>12. engine' \subseteq engine \cup {r} /\ worked \subseteq worked' /\ worked' \subseteq worked \cup {r}
       /\ (r \in engine' => r \in worked')
       /\ \A q \in shared' : q \in shared \/ \E x \in q : x \in engine
  BY <1>10 DEF Dispatch
<1>13. EngineInv'
  <2>1. \A x \in worked' : calls'[x].dispatched
    BY <1>3, <1>5, <1>11, <1>12 DEF RouteInv, EngineInv
  <2>2. ASSUME NEW x \in engine' PROVE Serving(x)' \/ Lost(calls[x])'
    <3>1. CASE x = r
      BY <1>3, <1>5, <3>1 DEF Serving
    <3>2. CASE x # r
      BY <1>5, <1>12, <2>2, <3>2 DEF RouteInv, EngineInv, Serving
    <3>3. QED BY <3>1, <3>2
  <2>3. QED BY <1>9, <1>12, <2>1, <2>2 DEF RouteInv, EngineInv
<1>14. GateInv'
  <2> SUFFICES ASSUME MaxInflight = 1
               PROVE  GateOfOne' /\ \A q \in shared' : \E x \in q : x \in Requests /\ Lost(calls[x])'
    BY DEF GateInv
  <2>1. provider.free = 1 /\ p.free = 0 /\ \A x \in Requests : ~Serving(x)
    BY <1>1, <1>7, <1>9 DEF RouteInv, GateInv, GateOfOne, ProviderRow
  <2>2. \A x \in Requests : Serving(x)' => x = r
    BY <1>5, <2>1 DEF Serving
  <2>3. GateOfOne'
    BY <1>9, <2>1, <2>2 DEF GateOfOne
  <2>4. ASSUME NEW q \in shared' PROVE \E x \in q : x \in Requests /\ Lost(calls[x])'
    <3>1. CASE q \in shared
      <4>1. PICK x \in q : x \in Requests /\ Lost(calls[x])
        BY <3>1 DEF RouteInv, GateInv
      <4>2. QED BY <1>5, <4>1
    <3>2. CASE \E x \in q : x \in engine
      <4>1. PICK x \in q : x \in engine
        BY <3>2
      <4>2. x \in Requests /\ Lost(calls[x])
        BY <2>1, <4>1 DEF RouteInv, EngineInv
      <4>3. QED BY <1>5, <4>1, <4>2
    <3>3. QED BY <1>12, <3>1, <3>2
  <2>5. QED BY <2>3, <2>4
<1>15. QED BY <1>5, <1>6, <1>13, <1>14 DEF RouteInv

\* the handler leaves the gate; the engine is done with it, or nobody learns
LEMMA LeaveGateKeeps ==
  ASSUME RouteInv, NEW r \in Requests, calls[r].pc = "serving", NEW c \in CallRow,
         calls' = [calls EXCEPT ![r] = c], Routed(c), c.pc \in {"stored", "over"}, c.dispatched,
         provider' = [provider EXCEPT !.free = @ + 1],
         NEW a \in {"ok", "failed"}, Tell(r, a) \/ UNCHANGED client,
         engine' \subseteq engine, r \in engine' => Lost(c), UNCHANGED <<worked, shared>>
  PROVE  RouteInv'
<1>1. provider \in ProviderRow /\ ~Lost(calls[r])
  BY DEF RouteInv, EngineInv, Lost
<1>2. /\ RowsInv'
      /\ calls'[r] = c /\ \A x \in Requests \ {r} : calls'[x] = calls[x]
      /\ \A x \in Requests : Lost(calls[x]) => Lost(calls'[x])
  BY <1>1, RowMoves
<1>3. ClientInv'
  <2>1. /\ client' \in [Requests -> ClientState]
        /\ \A x \in Requests \ {r} : client'[x] = client[x]
        /\ client'[r] = "idle" => client[r] = "idle"
    BY TellFacts
  <2>2. client[r] # "idle"
    BY DEF RouteInv, ClientInv
  <2>3. QED BY <1>2, <2>1, <2>2, ClientMoves
<1>4. PICK n : n = provider.free + 1
  OBVIOUS
<1>5. provider' = [provider EXCEPT !.free = n]
  BY <1>4
<1>6. provider' \in ProviderRow /\ provider'.free = n
  BY <1>1, <1>4, <1>5 DEF ProviderRow
<1>7. EngineInv'
  <2>1. \A x \in worked : calls'[x].dispatched
    BY <1>2 DEF RouteInv, EngineInv
  <2>2. ASSUME NEW x \in engine' PROVE Serving(x)' \/ Lost(calls[x])'
    <3>1. CASE x = r
      BY <1>2, <2>2, <3>1
    <3>2. CASE x # r
      BY <1>2, <2>2, <3>2 DEF RouteInv, EngineInv, Serving
    <3>3. QED BY <3>1, <3>2
  <2>3. QED BY <1>6, <2>1, <2>2 DEF RouteInv, EngineInv
<1>8. GateInv'
  <2> SUFFICES ASSUME MaxInflight = 1
               PROVE  GateOfOne' /\ \A q \in shared' : \E x \in q : x \in Requests /\ Lost(calls[x])'
    BY DEF GateInv
  <2>1. GateOfOne /\ Serving(r)
    BY DEF RouteInv, GateInv, Serving
  <2>2. provider.free = 0 /\ n = 1
    BY <1>4, <2>1 DEF GateOfOne
  <2>3. \A x \in Requests : ~Serving(x)'
    BY <1>2, <2>1 DEF GateOfOne, Serving
  <2>4. GateOfOne'
    BY <1>6, <2>2, <2>3 DEF GateOfOne
  <2>5. ASSUME NEW q \in shared' PROVE \E x \in q : x \in Requests /\ Lost(calls[x])'
    <3>1. PICK x \in q : x \in Requests /\ Lost(calls[x])
      BY DEF RouteInv, GateInv
    <3>2. QED BY <1>2, <3>1
  <2>6. QED BY <2>4, <2>5
<1>9. QED BY <1>2, <1>3, <1>7, <1>8 DEF RouteInv

LEMMA RespondKeeps ==
  ASSUME RouteInv, NEW r \in Requests, Respond(r)
  PROVE  RouteInv'
<1>1. /\ calls[r] \in CallRow /\ calls[r].pc = "serving" /\ Routed(calls[r])
      /\ engine' = engine \ {r} /\ UNCHANGED <<worked, shared>>
      /\ provider' = [provider EXCEPT !.free = @ + 1]
  BY DEF RouteInv, RowsInv, Respond, HandlerAt
<1>2. CASE calls' = [calls EXCEPT ![r].pc = "stored", ![r].state = "RESPONSE_STORED", ![r].ended = TRUE]
           /\ UNCHANGED client
  <2>1. PICK c : c = [calls[r] EXCEPT !.pc = "stored", !.state = "RESPONSE_STORED", !.ended = TRUE]
    OBVIOUS
  <2>2. c \in CallRow /\ c.pc = "stored" /\ Routed(c) /\ c.dispatched
    BY <1>1, <2>1, ProxyAssumption DEF CallRow, CallPC, CallState, Terminal, Routed, Fresh
  <2>3. calls' = [calls EXCEPT ![r] = c]
    BY <1>2, <2>1
  <2>4. QED BY <1>1, <1>2, <2>2, <2>3, LeaveGateKeeps
<1>3. CASE calls' = [calls EXCEPT ![r].pc = "over", ![r].state = "FAILED_FINAL", ![r].ended = TRUE]
           /\ Tell(r, "failed")
  <2>1. PICK c : c = [calls[r] EXCEPT !.pc = "over", !.state = "FAILED_FINAL", !.ended = TRUE]
    OBVIOUS
  <2>2. c \in CallRow /\ c.pc = "over" /\ Routed(c) /\ c.dispatched
    BY <1>1, <2>1, ProxyAssumption DEF CallRow, CallPC, CallState, Terminal, Routed, Fresh
  <2>3. calls' = [calls EXCEPT ![r] = c]
    BY <1>3, <2>1
  <2>4. QED BY <1>1, <1>3, <2>2, <2>3, LeaveGateKeeps
<1>4. QED BY <1>2, <1>3 DEF Respond

LEMMA UpstreamFailsKeeps ==
  ASSUME RouteInv, NEW r \in Requests, UpstreamFails(r)
  PROVE  RouteInv'
<1>1. /\ calls[r] \in CallRow /\ calls[r].pc = "serving" /\ Routed(calls[r])
      /\ UNCHANGED <<engine, worked, shared>> /\ Tell(r, "failed")
      /\ provider' = [provider EXCEPT !.free = @ + 1]
  BY DEF RouteInv, RowsInv, UpstreamFails, HandlerAt
<1>2. PICK c : c = [calls[r] EXCEPT !.pc = "over", !.state = "FAILED_UNKNOWN"]
  OBVIOUS
<1>3. c \in CallRow /\ c.pc = "over" /\ Routed(c) /\ c.dispatched /\ Lost(c)
  BY <1>1, <1>2, ProxyAssumption DEF CallRow, CallPC, CallState, Terminal, Routed, Fresh, Lost
<1>4. calls' = [calls EXCEPT ![r] = c]
  BY <1>2 DEF UpstreamFails
<1>5. QED BY <1>1, <1>3, <1>4, LeaveGateKeeps

-----------------------------------------------------------------------------
\* what leaves the handlers alone: the caller, the planner of a replay, the engine
LEMMA OutsideKeepsRoute ==
  ASSUME RouteInv, UNCHANGED <<calls, worked, shared>>, engine' \subseteq engine,
         provider' \in ProviderRow, provider'.free = provider.free,
         client' \in [Requests -> ClientState],
         \A r \in Requests : client'[r] = "idle" => client[r] = "idle"
  PROVE  RouteInv'
<1>1. RowsInv'
  BY DEF RouteInv, RowsInv, Opened
<1>2. ClientInv'
  BY DEF RouteInv, ClientInv
<1>3. EngineInv'
  BY DEF RouteInv, EngineInv, Serving
<1>4. GateInv'
  BY DEF RouteInv, GateInv, GateOfOne, Serving
<1>5. QED BY <1>1, <1>2, <1>3, <1>4 DEF RouteInv

LEMMA AbandonedKeeps ==
  ASSUME RouteInv, NEW r \in Requests, Abandoned(r)
  PROVE  RouteInv'
BY OutsideKeepsRoute DEF Abandoned, RouteInv, EngineInv, ClientInv

LEMMA RegisterKeeps ==
  ASSUME RouteInv, Register, UNCHANGED <<client, calls, engine, worked, shared>>
  PROVE  RouteInv'
<1>1. PICK p : p = [provider EXCEPT !.registered = TRUE]
  OBVIOUS
<1>2. provider \in ProviderRow
  BY DEF RouteInv, EngineInv
<1>3. provider' = p /\ p \in ProviderRow /\ p.free = provider.free
  BY <1>1, <1>2 DEF Register, ProviderRow
<1>4. QED BY <1>3, OutsideKeepsRoute DEF RouteInv, ClientInv

\* the process ends: nobody is served any more, and whom the engine works for is lost
LEMMA CrashKeeps ==
  ASSUME RouteInv, Crash
  PROVE  RouteInv'
<1>1. calls \in [Requests -> CallRow] /\ IsFiniteSet(Opened) /\ \A r \in Requests : Routed(calls[r])
  BY DEF RouteInv, RowsInv
<1>2. DOMAIN calls' = Requests
  BY DEF Crash
<1>3. ASSUME NEW r \in Requests, NEW c, c = calls'[r]
      PROVE  /\ c \in CallRow /\ Routed(c) /\ c.pc # "serving"
             /\ calls[r].pc # "none" => c.pc = "over"
             /\ calls[r].pc = "none" => c.pc = "none"
             /\ c.dispatched = calls[r].dispatched /\ c.ended = calls[r].ended
             /\ c.state = calls[r].state
  <2>1. PICK to : to = IF calls[r].pc = "none" THEN "none" ELSE "over"
    OBVIOUS
  <2>2. c = [calls[r] EXCEPT !.pc = to]
    BY <1>3, <2>1 DEF Crash
  <2>3. calls[r] \in CallRow /\ Routed(calls[r]) /\ to \in {"none", "over"}
    BY <1>1, <2>1
  <2>4. /\ c.pc = to /\ c.dispatched = calls[r].dispatched /\ c.ended = calls[r].ended
        /\ c.state = calls[r].state
    BY <2>2, <2>3 DEF CallRow
  <2>5. c \in CallRow
    BY <2>2, <2>3 DEF CallRow, CallPC
  <2>6. Routed(c)
    BY <2>1, <2>3, <2>4 DEF Routed, Fresh
  <2>7. QED BY <2>1, <2>4, <2>5, <2>6
<1>4. \A r \in Requests :
        /\ calls'[r] \in CallRow /\ Routed(calls'[r]) /\ calls'[r].pc # "serving"
        /\ calls[r].pc # "none" => calls'[r].pc = "over"
        /\ calls[r].pc = "none" => calls'[r].pc = "none"
        /\ calls'[r].dispatched = calls[r].dispatched /\ calls'[r].ended = calls[r].ended
        /\ calls'[r].state = calls[r].state
  BY <1>3
<1>5. RowsInv'
  <2>1. calls' \in [Requests -> CallRow]
    BY <1>2, <1>4 DEF Crash
  <2>2. Opened' = Opened
    BY <1>4 DEF Opened
  <2>3. \A r \in Requests : Routed(calls[r])'
    BY <1>4 DEF Routed, Fresh
  <2>4. QED BY <1>1, <2>1, <2>2, <2>3 DEF RowsInv
<1>6. ClientInv'
  <2>1. client' = [r \in Requests |-> IF client[r] = "waiting" THEN "failed" ELSE client[r]]
    BY DEF Crash
  <2>2. client \in [Requests -> ClientState]
    BY DEF RouteInv, ClientInv
  <2>3. client' \in [Requests -> ClientState]
    BY <2>1, <2>2 DEF ClientState
  <2>4. \A r \in Requests : client'[r] = "idle" => client[r] = "idle"
    BY <2>1
  <2>5. QED BY <1>4, <2>3, <2>4 DEF RouteInv, ClientInv
<1>7. /\ UNCHANGED <<engine, worked, shared>>
      /\ provider' \in ProviderRow /\ provider'.free = MaxInflight
  <2>1. PICK p : p = [provider EXCEPT !.up = FALSE, !.free = MaxInflight, !.registered = FALSE]
    OBVIOUS
  <2>2. provider \in ProviderRow /\ MaxInflight \in Int
    BY ProxyAssumption DEF RouteInv, EngineInv
  <2>3. p \in ProviderRow /\ p.free = MaxInflight
    BY <2>1, <2>2 DEF ProviderRow
  <2>4. QED BY <2>1, <2>3 DEF Crash
<1>8. \A r \in Requests : Serving(r) \/ Lost(calls[r]) => Lost(calls'[r])
  BY <1>1, <1>4 DEF Serving, Lost, Routed
<1>9. EngineInv'
  <2>1. \A r \in worked : calls'[r].dispatched
    BY <1>4 DEF RouteInv, EngineInv
  <2>2. \A r \in engine : Lost(calls[r])'
    BY <1>8 DEF RouteInv, EngineInv
  <2>3. QED BY <1>7, <2>1, <2>2 DEF RouteInv, EngineInv
<1>10. GateInv'
  <2> SUFFICES ASSUME MaxInflight = 1
               PROVE  GateOfOne' /\ \A q \in shared' : \E x \in q : x \in Requests /\ Lost(calls[x])'
    BY DEF GateInv
  <2>1. \A r \in Requests : ~Serving(r)'
    BY <1>4 DEF Serving
  <2>2. GateOfOne'
    BY <1>7, <2>1 DEF GateOfOne
  <2>3. ASSUME NEW q \in shared' PROVE \E x \in q : x \in Requests /\ Lost(calls[x])'
    <3>1. PICK x \in q : x \in Requests /\ Lost(calls[x])
      BY <1>7 DEF RouteInv, GateInv
    <3>2. QED BY <1>8, <3>1
  <2>4. QED BY <2>2, <2>3
<1>11. QED BY <1>5, <1>6, <1>9, <1>10 DEF RouteInv

\* reconcile_on_start closes the attempts: nothing that was lost is found
LEMMA RestartKeeps ==
  ASSUME RouteInv, Restart
  PROVE  RouteInv'
<1>1. calls \in [Requests -> CallRow] /\ IsFiniteSet(Opened) /\ \A r \in Requests : Routed(calls[r])
  BY DEF RouteInv, RowsInv
<1>2. DOMAIN calls' = Requests
  BY DEF Restart
<1>3. ASSUME NEW r \in Requests, NEW c, c = calls'[r]
      PROVE  /\ c \in CallRow /\ Routed(c) /\ c.pc = calls[r].pc
             /\ c.dispatched = calls[r].dispatched /\ c.ended = calls[r].ended
             /\ (c.state = None <=> calls[r].state = None)
  <2>1. PICK s : s = IF calls[r].state = None \/ calls[r].state \in Terminal THEN calls[r].state
                     ELSE IF calls[r].dispatched THEN "FAILED_UNKNOWN" ELSE "FAILED_FINAL"
    OBVIOUS
  <2>2. c = [calls[r] EXCEPT !.state = s]
    BY <1>3, <2>1 DEF Restart
  <2>3. calls[r] \in CallRow /\ Routed(calls[r])
    BY <1>1
  <2>4. /\ c.pc = calls[r].pc /\ c.dispatched = calls[r].dispatched /\ c.ended = calls[r].ended
        /\ c.state = s
    BY <2>2, <2>3 DEF CallRow
  <2>5. s \in CallState \cup {None} /\ (s = None <=> calls[r].state = None)
    BY <2>1, <2>3, ProxyAssumption DEF CallRow, CallState, Terminal
  <2>6. c \in CallRow
    BY <2>2, <2>3, <2>5 DEF CallRow
  <2>7. Routed(c)
    BY <2>3, <2>4, <2>5 DEF Routed, Fresh
  <2>8. QED BY <2>4, <2>5, <2>6, <2>7
<1>4. \A r \in Requests :
        /\ calls'[r] \in CallRow /\ Routed(calls'[r]) /\ calls'[r].pc = calls[r].pc
        /\ calls'[r].dispatched = calls[r].dispatched /\ calls'[r].ended = calls[r].ended
        /\ (calls'[r].state = None <=> calls[r].state = None)
  BY <1>3
<1>5. RowsInv'
  <2>1. calls' \in [Requests -> CallRow]
    BY <1>2, <1>4 DEF Restart
  <2>2. Opened' = Opened
    BY <1>4 DEF Opened
  <2>3. \A r \in Requests : Routed(calls[r])'
    BY <1>4 DEF Routed, Fresh
  <2>4. QED BY <1>1, <2>1, <2>2, <2>3 DEF RowsInv
<1>6. ClientInv'
  BY <1>4 DEF Restart, RouteInv, ClientInv
<1>7. /\ UNCHANGED <<engine, worked, shared>>
      /\ provider' \in ProviderRow /\ provider'.free = provider.free
  <2>1. NonceOnStart \in Nat
    BY <1>1, FS_CardinalityType DEF NonceOnStart
  <2>2. provider \in ProviderRow
    BY DEF RouteInv, EngineInv
  <2>3. QED BY <2>1, <2>2 DEF Restart, ProviderRow
<1>8. \A r \in Requests : (Serving(r)' <=> Serving(r)) /\ (Lost(calls'[r]) <=> Lost(calls[r]))
  BY <1>4 DEF Serving, Lost
<1>9. EngineInv'
  <2>1. \A r \in worked : calls'[r].dispatched
    BY <1>4 DEF RouteInv, EngineInv
  <2>2. \A r \in engine : Serving(r)' \/ Lost(calls[r])'
    BY <1>8 DEF RouteInv, EngineInv
  <2>3. QED BY <1>7, <2>1, <2>2 DEF RouteInv, EngineInv
<1>10. GateInv'
  <2> SUFFICES ASSUME MaxInflight = 1
               PROVE  GateOfOne' /\ \A q \in shared' : \E x \in q : x \in Requests /\ Lost(calls[x])'
    BY DEF GateInv
  <2>1. GateOfOne'
    BY <1>7, <1>8 DEF RouteInv, GateInv, GateOfOne
  <2>2. ASSUME NEW q \in shared' PROVE \E x \in q : x \in Requests /\ Lost(calls[x])'
    <3>1. PICK x \in q : x \in Requests /\ Lost(calls[x])
      BY <1>7 DEF RouteInv, GateInv
    <3>2. QED BY <1>8, <3>1
  <2>3. QED BY <2>1, <2>2
<1>11. QED BY <1>5, <1>6, <1>9, <1>10 DEF RouteInv

-----------------------------------------------------------------------------
\* every step, and the start
LEMMA ProxyStarts == ProxyInit => RouteInv
<1> SUFFICES ASSUME ProxyInit PROVE RouteInv
  OBVIOUS
<1>1. PICK c : c = NoCall
  OBVIOUS
<1>2. /\ c \in CallRow /\ Routed(c) /\ c.pc = "none" /\ c.state = None /\ ~c.dispatched
  BY <1>1, ProxyAssumption DEF NoCall, CallRow, CallPC, CallIds, Routed, Fresh
<1>3. \A r \in Requests : calls[r] = c
  BY <1>1 DEF ProxyInit
<1>4. calls \in [Requests -> CallRow] /\ Opened = {}
  BY <1>1, <1>2 DEF ProxyInit, Opened
<1>5. RowsInv
  BY <1>2, <1>3, <1>4, FS_EmptySet DEF RowsInv
<1>6. ClientInv
  BY <1>2, <1>3 DEF ProxyInit, ClientInv, ClientState
<1>7. provider \in ProviderRow /\ provider.free = MaxInflight
  BY ProxyAssumption DEF ProxyInit, ProviderRow
<1>8. EngineInv
  BY <1>7 DEF ProxyInit, EngineInv
<1>9. GateInv
  BY <1>2, <1>3, <1>7 DEF ProxyInit, GateInv, GateOfOne, Serving
<1>10. QED BY <1>5, <1>6, <1>8, <1>9 DEF RouteInv

\* a coroutine of the batch only posts requests, or stops waiting for them
LEMMA CoroutinesKeep ==
  ASSUME RouteInv,
         \/ \E r \in Requests : Unsent(r) \/ Ask(r) \/ Reply(r) \/ CancelOne(r)
         \/ \E s \in Siblings : Launch(s) \/ Raise(s) \/ EndSibling(s)
         \/ EndBatch \/ CancelBatch \/ Retry
  PROVE  RouteInv'
<1>1. ASSUME UNCHANGED proxyVars PROVE RouteInv'
  BY <1>1, OutsideKeepsRoute DEF proxyVars, RouteInv, EngineInv, ClientInv
<1>2. ASSUME NEW r \in Requests, Unsent(r) \/ Ask(r) \/ Reply(r) PROVE RouteInv'
  BY <1>1, <1>2, PostKeeps DEF Unsent, Ask, Reply
<1>3. ASSUME NEW r \in Requests, CancelOne(r) PROVE RouteInv'
  <2>1. client \in [Requests -> ClientState] /\ provider \in ProviderRow
    BY DEF RouteInv, ClientInv, EngineInv
  <2>2. PICK a : a = IF client[r] = "waiting" THEN "abandoned" ELSE client[r]
    OBVIOUS
  <2>3. client' = [client EXCEPT ![r] = a] /\ UNCHANGED <<calls, provider, engine, worked, shared>>
    BY <1>3, <2>2 DEF CancelOne
  <2>4. a \in ClientState /\ (a = "idle" => client[r] = "idle")
    BY <2>1, <2>2 DEF ClientState
  <2>5. client' \in [Requests -> ClientState]
        /\ \A x \in Requests : client'[x] = "idle" => client[x] = "idle"
    BY <2>1, <2>3, <2>4
  <2>6. QED BY <2>1, <2>3, <2>5, OutsideKeepsRoute
<1>4. CASE \E s \in Siblings : Launch(s) \/ Raise(s) \/ EndSibling(s)
  BY <1>1, <1>4 DEF Launch, Raise, EndSibling
<1>5. CASE EndBatch
  BY <1>1, <1>5 DEF EndBatch
<1>6. CASE CancelBatch
  <2>1. client \in [Requests -> ClientState] /\ provider \in ProviderRow
    BY DEF RouteInv, ClientInv, EngineInv
  <2>2. /\ client' = [r \in Requests |-> IF r \in CallsOfTry /\ client[r] = "waiting" THEN "abandoned"
                                         ELSE client[r]]
        /\ UNCHANGED <<calls, provider, engine, worked, shared>>
    BY <1>6 DEF CancelBatch
  <2>3. client' \in [Requests -> ClientState]
        /\ \A x \in Requests : client'[x] = "idle" => client[x] = "idle"
    BY <2>1, <2>2 DEF ClientState
  <2>4. QED BY <2>1, <2>2, <2>3, OutsideKeepsRoute
<1>7. CASE Retry
  BY <1>7, RegisterKeeps DEF Retry
<1>8. QED BY <1>2, <1>3, <1>4, <1>5, <1>6, <1>7

LEMMA RouteStep == RouteInv /\ [ProseNext]_proseVars => RouteInv'
<1> SUFFICES ASSUME RouteInv, [ProseNext]_proseVars PROVE RouteInv'
  OBVIOUS
<1>1. CASE UNCHANGED proseVars
  BY <1>1, OutsideKeepsRoute DEF proseVars, proxyVars, RouteInv, EngineInv, ClientInv
<1>2. CASE \/ \E r \in Requests : Unsent(r) \/ Ask(r) \/ Reply(r) \/ CancelOne(r)
           \/ \E s \in Siblings : Launch(s) \/ Raise(s) \/ EndSibling(s)
           \/ EndBatch \/ CancelBatch \/ Retry
  BY <1>2, CoroutinesKeep
<1>3. ASSUME NEW r \in Requests, Serve(r) \/ Abandoned(r) PROVE RouteInv'
  BY <1>3, NumberKeeps, OpenKeeps, DispatchKeeps, RespondKeeps, UpstreamFailsKeeps, CommitKeeps,
     AbandonedKeeps DEF Serve
<1>4. CASE Crash \/ Restart
  BY <1>4, CrashKeeps, RestartKeeps
<1>5. QED BY <1>1, <1>2, <1>3, <1>4 DEF ProseNext

(* The route: a handler is where its attempt is, the engine works for a    *)
(* request that is being served or that nobody will ever have an answer    *)
(* of, and behind a gate of one place no two are served at once, whatever  *)
(* its callers do and however often the process dies                       *)
(* (provider_server.py 1369-1509).                                         *)
THEOREM RouteInvariant == ProseSpec => []RouteInv
<1>1. ProseInit => RouteInv
  BY ProxyStarts DEF ProseInit
<1>2. QED BY <1>1, RouteStep, PTL DEF ProseSpec

(* A work object that says it is complete has an interval for all the      *)
(* engine ever did for the cell, and behind a gate of one no two of them   *)
(* shared the engine: for every set of requests, any number of crashes and *)
(* every pattern of cancelled callers (work_accounting.py 80-97).          *)
THEOREM CompleteWorkIsMeasured == ProseSpec => []WorkIsMeasured
<1>1. RouteInv => WorkIsMeasured
  <2> SUFFICES ASSUME RouteInv, Complete
               PROVE  worked \subseteq Events /\ (MaxInflight = 1 => shared = {})
    BY DEF WorkIsMeasured
  <2>1. Opened \subseteq Events
    BY DEF Complete, Unavailable
  <2>2. \A r \in Requests : calls[r].dispatched => r \in Opened
    BY DEF RouteInv, RowsInv, Routed, Opened
  <2>3. worked \subseteq Events
    BY <2>1, <2>2 DEF RouteInv, EngineInv
  <2>4. ASSUME MaxInflight = 1, NEW p \in shared PROVE FALSE
    <3>1. PICK x \in p : x \in Requests /\ Lost(calls[x])
      BY <2>4 DEF RouteInv, GateInv
    <3>2. x \in Events
      BY <2>1, <2>2, <3>1 DEF Lost
    <3>3. QED BY <3>1, <3>2 DEF Events, Lost
  <2>5. QED BY <2>3, <2>4
<1>2. QED BY <1>1, RouteInvariant, PTL

-----------------------------------------------------------------------------
(* The batch.  A model call's coroutine and what its caller has seen of it. *)
TaskState == {"none", "new", "calling"} \cup Finished
SiblingState == {"new", "calling", "published", "failed", "raised", "gone"}

Linked(t, c) ==
  /\ t \in {"none", "new", "unsent"} => c = "idle"
  /\ t = "calling" => c \in {"waiting", "ok", "failed"}
  /\ t \in {"ok", "rejected"} => c = "ok"
  /\ t = "failed" => c = "failed"

\* the siblings of this batch, of any try
Mine == UNION {plan.tries[i] : i \in DOMAIN plan.tries}

\* what the coroutine of a sibling says of its calls
Gather(s, st) ==
  /\ st # "new" => s \in Mine
  /\ st = "new" /\ s \in Mine => \A r \in pagesOf[s] : tasks[r] = "none"
  /\ st = "published" => \A r \in pagesOf[s] : tasks[r] = "ok"
  /\ st = "failed" => \A r \in pagesOf[s] : tasks[r] \in Finished

BatchRow == [try : Nat, end : {"running", "accepted", "failed", "raised", "cancelled"},
             counted : SUBSET Requests,
             records : SUBSET [call : Requests, status : {"PUBLISHED", "REJECTED", "FALLBACK_DISCARDED"}]]

TasksInv ==
  /\ tasks \in [Requests -> TaskState]
  /\ \A r \in Requests : Linked(tasks[r], client[r])

GathersInv ==
  /\ siblings \in [Siblings -> SiblingState]
  /\ plan \in BatchPlans /\ batch \in BatchRow /\ batch.try \in DOMAIN plan.tries
  /\ \A s \in Siblings : Gather(s, siblings[s])

\* a batch that ended as such has its calls behind it, and told of
Told ==
  batch.end \in {"accepted", "failed"} =>
    /\ \A s \in ThisTry : siblings[s] \in {"published", "failed"}
    /\ \A r \in CallsOfTry :
         /\ tasks[r] \in Finished \ {"cancelled"}
         /\ tasks[r] # "unsent" =>
              /\ r \in batch.counted
              /\ scope # "whole_batch" => \E e \in batch.records : e.call = r

ProseInv == RouteInv /\ TasksInv /\ GathersInv /\ Told

\* siblings of a batch share no model call
LEMMA MineFacts ==
  ASSUME GathersInv
  PROVE  /\ Mine \subseteq Siblings /\ ThisTry \subseteq Mine /\ CallsOfTry \subseteq Requests
         /\ \A s \in Siblings : pagesOf[s] \subseteq Requests
         /\ \A s, t \in Mine : pagesOf[s] \cap pagesOf[t] # {} => s = t
<1>1. /\ pagesOf \in [Siblings -> SUBSET Requests]
      /\ plan.tries \in Seq(SUBSET Siblings)
      /\ \A i, j \in DOMAIN plan.tries : \A s \in plan.tries[i], t \in plan.tries[j] :
           pagesOf[s] \cap pagesOf[t] # {} => i = j /\ s = t
  BY ProseAssumption DEF GathersInv, Siblings
<1>2. \A i \in DOMAIN plan.tries : plan.tries[i] \subseteq Siblings
  BY <1>1, ElementOfSeq, LenProperties
<1>3. Mine \subseteq Siblings
  BY <1>2 DEF Mine
<1>4. ThisTry \subseteq Mine
  BY DEF GathersInv, ThisTry, Mine
<1>5. CallsOfTry \subseteq Requests
  BY <1>1, <1>3, <1>4 DEF CallsOfTry
<1>6. \A s, t \in Mine : pagesOf[s] \cap pagesOf[t] # {} => s = t
  BY <1>1 DEF Mine
<1>7. QED BY <1>1, <1>3, <1>4, <1>5, <1>6

\* the calls that a caller waits for may be answered
LEMMA AnswersKeep ==
  ASSUME ProseInv, UNCHANGED coroutines, DOMAIN client' = Requests,
         \A r \in Requests : client'[r] = client[r] \/ (client[r] = "waiting" /\ client'[r] \in {"ok", "failed"})
  PROVE  TasksInv' /\ GathersInv' /\ Told'
<1>1. UNCHANGED <<plan, tasks, siblings, batch>>
  BY DEF coroutines
<1>2. ASSUME NEW r \in Requests PROVE Linked(tasks[r], client'[r])
  <2>1. Linked(tasks[r], client[r]) /\ tasks[r] \in TaskState
    BY DEF ProseInv, TasksInv
  <2>2. QED BY <2>1 DEF Linked, TaskState, Finished
<1>3. TasksInv'
  BY <1>1, <1>2 DEF ProseInv, TasksInv
<1>4. GathersInv'
  BY <1>1 DEF ProseInv, GathersInv, Gather, Mine
<1>5. Told'
  BY <1>1 DEF ProseInv, Told, ThisTry, CallsOfTry, scope
<1>6. QED BY <1>3, <1>4, <1>5

LEMMA RouteTells ==
  ASSUME ProseInv, UNCHANGED coroutines,
         Crash \/ Restart \/ \E r \in Requests : Serve(r) \/ Abandoned(r)
  PROVE  TasksInv' /\ GathersInv' /\ Told'
<1>1. client \in [Requests -> ClientState]
  BY DEF ProseInv, RouteInv, ClientInv
<1>2. CASE Crash
  <2>1. client' = [r \in Requests |-> IF client[r] = "waiting" THEN "failed" ELSE client[r]]
    BY <1>2 DEF Crash
  <2>2. QED BY <2>1, AnswersKeep
<1>3. ASSUME UNCHANGED client PROVE TasksInv' /\ GathersInv' /\ Told'
  BY <1>1, <1>3, AnswersKeep
<1>4. ASSUME NEW r \in Requests, NEW a \in {"ok", "failed"}, Tell(r, a)
      PROVE  TasksInv' /\ GathersInv' /\ Told'
  <2>1. PICK b : b = IF client[r] = "waiting" THEN a ELSE client[r]
    OBVIOUS
  <2>2. client' = [client EXCEPT ![r] = b]
    BY <1>4, <2>1 DEF Tell
  <2>3. DOMAIN client' = Requests /\ client'[r] = b
        /\ \A x \in Requests : x # r => client'[x] = client[x]
    BY <1>1, <2>2
  <2>4. QED BY <2>1, <2>3, AnswersKeep
<1>5. CASE Restart
  BY <1>3, <1>5 DEF Restart
<1>6. ASSUME NEW r \in Requests, Serve(r) \/ Abandoned(r)
      PROVE  UNCHANGED client \/ Tell(r, "ok") \/ Tell(r, "failed")
  <2>1. CASE Number(r)
    BY <2>1 DEF Number
  <2>2. CASE Open(r)
    BY <2>2 DEF Open
  <2>3. CASE Dispatch(r) \/ Abandoned(r)
    BY <2>3 DEF Dispatch, Abandoned
  <2>4. CASE Respond(r)
    BY <2>4 DEF Respond
  <2>5. CASE UpstreamFails(r) \/ Commit(r)
    BY <2>5 DEF UpstreamFails, Commit
  <2>6. QED BY <1>6, <2>1, <2>2, <2>3, <2>4, <2>5 DEF Serve
<1>7. QED BY <1>2, <1>3, <1>4, <1>5, <1>6

-----------------------------------------------------------------------------
\* one model call moves: none of a gather that is over
LEMMA TaskMoves ==
  ASSUME ProseInv, NEW r \in Requests, tasks[r] \in {"new", "calling"},
         NEW t \in {"calling"} \cup Finished, tasks' = [tasks EXCEPT ![r] = t],
         DOMAIN client' = Requests, \A x \in Requests \ {r} : client'[x] = client[x],
         Linked(t, client'[r]), UNCHANGED <<plan, siblings, batch>>
  PROVE  TasksInv' /\ GathersInv' /\ Told'
<1>1. tasks \in [Requests -> TaskState] /\ \A x \in Requests : Linked(tasks[x], client[x])
  BY DEF ProseInv, TasksInv
<1>2. /\ tasks' \in [Requests -> TaskState] /\ tasks'[r] = t
      /\ \A x \in Requests : x # r => tasks'[x] = tasks[x]
  BY <1>1 DEF TaskState
<1>3. TasksInv'
  <2>1. ASSUME NEW x \in Requests PROVE Linked(tasks'[x], client'[x])
    <3>1. CASE x = r
      BY <1>2, <3>1
    <3>2. CASE x # r
      BY <1>1, <1>2, <3>2
    <3>3. QED BY <3>1, <3>2
  <2>2. QED BY <1>2, <2>1 DEF TasksInv
<1>4. tasks[r] \notin Finished /\ tasks[r] # "none" /\ tasks[r] # "ok"
  BY DEF Finished
<1>5. GathersInv /\ Told
  BY DEF ProseInv
<1>6. GathersInv'
  <2>1. ASSUME NEW s \in Siblings PROVE Gather(s, siblings[s])'
    <3>1. Gather(s, siblings[s]) /\ pagesOf[s] \subseteq Requests
      BY <1>5, MineFacts DEF GathersInv
    <3>2. Mine' = Mine
      BY DEF Mine
    <3>3. QED BY <1>2, <1>4, <3>1, <3>2 DEF Gather
  <2>2. QED BY <1>5, <2>1 DEF GathersInv
<1>7. Told'
  <2> SUFFICES ASSUME batch.end \in {"accepted", "failed"}
               PROVE  Told'
    BY DEF Told
  <2>1. r \notin CallsOfTry /\ CallsOfTry \subseteq Requests
    BY <1>4, <1>5, MineFacts DEF Told
  <2>2. \A x \in CallsOfTry : tasks'[x] = tasks[x]
    BY <1>2, <2>1
  <2>3. ThisTry' = ThisTry /\ CallsOfTry' = CallsOfTry /\ scope' = scope
    BY DEF ThisTry, CallsOfTry, scope
  <2>4. QED BY <1>5, <2>2, <2>3 DEF Told
<1>8. QED BY <1>3, <1>6, <1>7

LEMMA CallMoves ==
  ASSUME ProseInv, NEW r \in Requests, Unsent(r) \/ Ask(r) \/ Reply(r) \/ CancelOne(r)
  PROVE  TasksInv' /\ GathersInv' /\ Told'
<1>1. client \in [Requests -> ClientState] /\ Linked(tasks[r], client[r])
  BY DEF ProseInv, RouteInv, ClientInv, TasksInv
<1>2. CASE Unsent(r)
  <2>1. tasks[r] = "new" /\ tasks' = [tasks EXCEPT ![r] = "unsent"]
        /\ UNCHANGED <<client, plan, siblings, batch>>
    BY <1>2 DEF Unsent, proxyVars
  <2>2. Linked("unsent", client'[r]) /\ "unsent" \in Finished
    BY <1>1, <2>1 DEF Linked, Finished
  <2>3. QED BY <1>1, <2>1, <2>2, TaskMoves
<1>3. CASE Ask(r)
  <2>1. tasks[r] = "new" /\ tasks' = [tasks EXCEPT ![r] = "calling"]
        /\ UNCHANGED <<plan, siblings, batch>> /\ Post(r)
    BY <1>3 DEF Ask
  <2>2. PICK a \in {"waiting", "failed"} : client' = [client EXCEPT ![r] = a]
    BY <2>1 DEF Post
  <2>3. DOMAIN client' = Requests /\ client'[r] = a /\ \A x \in Requests \ {r} : client'[x] = client[x]
    BY <1>1, <2>2
  <2>4. Linked("calling", client'[r])
    BY <2>3 DEF Linked
  <2>5. QED BY <2>1, <2>3, <2>4, TaskMoves
<1>4. CASE Reply(r)
  <2>1. PICK o \in Outcomes(r) : tasks' = [tasks EXCEPT ![r] = o]
    BY <1>4 DEF Reply
  <2>2. tasks[r] = "calling" /\ client[r] \in {"ok", "failed"} /\ UNCHANGED <<client, plan, siblings, batch>>
    BY <1>4 DEF Reply, proxyVars
  <2>3. o \in Finished /\ Linked(o, client'[r])
    BY <2>1, <2>2 DEF Outcomes, Finished, Linked
  <2>4. QED BY <1>1, <2>1, <2>2, <2>3, TaskMoves
<1>5. CASE CancelOne(r)
  <2>1. tasks[r] = "calling" /\ tasks' = [tasks EXCEPT ![r] = "cancelled"]
        /\ UNCHANGED <<plan, siblings, batch>>
    BY <1>5 DEF CancelOne
  <2>2. PICK a : client' = [client EXCEPT ![r] = a]
    BY <1>5 DEF CancelOne
  <2>3. DOMAIN client' = Requests /\ \A x \in Requests \ {r} : client'[x] = client[x]
    BY <1>1, <2>2
  <2>4. Linked("cancelled", client'[r]) /\ "cancelled" \in Finished
    BY DEF Linked, Finished
  <2>5. QED BY <2>1, <2>3, <2>4, TaskMoves
<1>6. QED BY <1>2, <1>3, <1>4, <1>5

-----------------------------------------------------------------------------
LEMMA LaunchKeeps ==
  ASSUME ProseInv, NEW s \in Siblings, Launch(s)
  PROVE  TasksInv' /\ GathersInv' /\ Told'
<1>1. /\ s \in ThisTry /\ siblings[s] = "new" /\ UNCHANGED <<client, plan, batch>>
      /\ siblings' = [siblings EXCEPT ![s] = "calling"]
      /\ tasks' = [r \in Requests |-> IF r \in pagesOf[s] THEN "new" ELSE tasks[r]]
  BY DEF Launch, proxyVars
<1>2. GathersInv /\ TasksInv /\ s \in Mine /\ Mine' = Mine
  BY <1>1, MineFacts DEF ProseInv, Mine
<1>3. \A r \in pagesOf[s] : r \in Requests /\ tasks[r] = "none"
  BY <1>1, <1>2, MineFacts DEF GathersInv, Gather
<1>4. TasksInv'
  <2>1. ASSUME NEW r \in Requests PROVE Linked(tasks'[r], client[r]) /\ tasks'[r] \in TaskState
    <3>1. Linked(tasks[r], client[r]) /\ tasks[r] \in TaskState
      BY <1>2 DEF TasksInv
    <3>2. tasks'[r] = IF r \in pagesOf[s] THEN "new" ELSE tasks[r]
      BY <1>1
    <3>3. QED BY <1>3, <3>1, <3>2 DEF Linked, TaskState
  <2>2. QED BY <1>1, <2>1 DEF TasksInv
<1>5. siblings' \in [Siblings -> SiblingState] /\ siblings'[s] = "calling"
      /\ \A u \in Siblings : u # s => siblings'[u] = siblings[u]
  BY <1>1, <1>2 DEF GathersInv, SiblingState
<1>6. GathersInv'
  <2>1. ASSUME NEW u \in Siblings PROVE Gather(u, siblings[u])'
    <3>1. CASE u = s
      BY <1>2, <1>5, <3>1 DEF Gather
    <3>2. CASE u # s /\ u \in Mine
      <4>1. \A r \in pagesOf[u] : r \in Requests /\ tasks'[r] = tasks[r]
        BY <1>1, <1>2, <3>2, MineFacts
      <4>2. Gather(u, siblings[u])
        BY <1>2 DEF GathersInv
      <4>3. QED BY <1>2, <1>5, <3>2, <4>1, <4>2 DEF Gather
    <3>3. CASE u # s /\ u \notin Mine
      BY <1>2, <1>5, <3>3 DEF GathersInv, Gather
    <3>4. QED BY <3>1, <3>2, <3>3
  <2>2. QED BY <1>1, <1>2, <1>5, <2>1 DEF GathersInv
<1>7. Told'
  BY <1>1 DEF ProseInv, Told
<1>8. QED BY <1>4, <1>6, <1>7

\* the coroutine of a sibling ends, or is never begun
LEMMA SiblingMoves ==
  ASSUME ProseInv, NEW s \in Siblings, s \in Mine, siblings[s] \in {"new", "calling"},
         NEW st \in {"published", "failed", "raised"}, siblings' = [siblings EXCEPT ![s] = st],
         st = "published" => \A r \in pagesOf[s] : tasks[r] = "ok",
         st = "failed" => \A r \in pagesOf[s] : tasks[r] \in Finished,
         batch'.end \notin {"accepted", "failed"} \/ UNCHANGED batch,
         batch' \in BatchRow, batch'.try = batch.try, UNCHANGED <<client, plan, tasks>>
  PROVE  TasksInv' /\ GathersInv' /\ Told'
<1>1. GathersInv /\ TasksInv /\ Told /\ Mine' = Mine /\ ThisTry' = ThisTry /\ CallsOfTry' = CallsOfTry
      /\ scope' = scope
  BY DEF ProseInv, Mine, ThisTry, CallsOfTry, scope
<1>2. /\ siblings' \in [Siblings -> SiblingState] /\ siblings'[s] = st
      /\ \A u \in Siblings : u # s => siblings'[u] = siblings[u]
  BY <1>1 DEF GathersInv, SiblingState
<1>3. TasksInv'
  BY <1>1 DEF TasksInv
<1>4. GathersInv'
  <2>1. ASSUME NEW u \in Siblings PROVE Gather(u, siblings[u])'
    <3>1. CASE u = s
      BY <1>1, <1>2, <3>1 DEF Gather
    <3>2. CASE u # s
      BY <1>1, <1>2, <3>2 DEF GathersInv, Gather
    <3>3. QED BY <3>1, <3>2
  <2>2. QED BY <1>1, <1>2, <2>1 DEF GathersInv
<1>5. Told'
  <2>1. CASE batch'.end \notin {"accepted", "failed"}
    BY <2>1 DEF Told
  <2>2. CASE UNCHANGED batch /\ batch.end \in {"accepted", "failed"}
    <3>1. s \notin ThisTry /\ ThisTry \subseteq Siblings
      BY <1>1, <2>2, MineFacts DEF Told
    <3>2. \A u \in ThisTry : siblings'[u] = siblings[u]
      BY <1>2, <3>1
    <3>3. QED BY <1>1, <2>2, <3>2 DEF Told
  <2>3. QED BY <2>1, <2>2
<1>6. QED BY <1>3, <1>4, <1>5

LEMMA RaiseKeeps ==
  ASSUME ProseInv, NEW s \in Siblings, Raise(s)
  PROVE  TasksInv' /\ GathersInv' /\ Told'
<1>1. /\ s \in ThisTry /\ siblings[s] = "new" /\ UNCHANGED <<client, plan, tasks>>
      /\ siblings' = [siblings EXCEPT ![s] = "raised"]
  BY DEF Raise, proxyVars
<1>2. s \in Mine
  BY <1>1, MineFacts DEF ProseInv
<1>3. batch \in BatchRow
  BY DEF ProseInv, GathersInv
<1>4. CASE UNCHANGED batch
  BY <1>1, <1>2, <1>3, <1>4, SiblingMoves
<1>5. CASE batch' = [batch EXCEPT !.end = "raised"] /\ batch.end = "running"
  <2>1. batch' \in BatchRow /\ batch'.try = batch.try /\ batch'.end = "raised"
    BY <1>3, <1>5 DEF BatchRow
  <2>2. QED BY <1>1, <1>2, <2>1, SiblingMoves
<1>6. QED BY <1>4, <1>5 DEF Raise

LEMMA EndSiblingKeeps ==
  ASSUME ProseInv, NEW s \in Siblings, EndSibling(s)
  PROVE  TasksInv' /\ GathersInv' /\ Told'
<1>1. PICK st \in {"published", "failed"} : st = IF Good(s) THEN "published" ELSE "failed"
  OBVIOUS
<1>2. /\ siblings[s] = "calling" /\ UNCHANGED <<client, plan, tasks, batch>>
      /\ siblings' = [siblings EXCEPT ![s] = st]
  BY <1>1 DEF EndSibling, proxyVars
<1>3. s \in Mine
  BY <1>2 DEF ProseInv, GathersInv, Gather
<1>4. st = "published" => \A r \in pagesOf[s] : tasks[r] = "ok"
  BY <1>1 DEF Good
<1>5. \A r \in pagesOf[s] : tasks[r] \in Finished
  BY DEF EndSibling, Gathered
<1>6. batch' \in BatchRow
  BY <1>2 DEF ProseInv, GathersInv
<1>7. QED BY <1>2, <1>3, <1>4, <1>5, <1>6, SiblingMoves

\* the batch's own gather is over: every sibling said what came of it
LEMMA EndBatchKeeps ==
  ASSUME ProseInv, EndBatch
  PROVE  TasksInv' /\ GathersInv' /\ Told'
<1>1. /\ TasksInv /\ GathersInv /\ batch \in BatchRow
      /\ UNCHANGED <<client, plan, tasks, siblings>>
      /\ \A s \in ThisTry : siblings[s] \in {"published", "failed"}
  BY DEF ProseInv, GathersInv, EndBatch, proxyVars
<1>2. PICK accepted \in BOOLEAN : accepted <=> \A s \in ThisTry : siblings[s] = "published"
  OBVIOUS
<1>3. PICK end : end = IF accepted THEN "accepted"
                       ELSE IF \E r \in CallsOfTry : tasks[r] = "cancelled" THEN "cancelled" ELSE "failed"
  OBVIOUS
<1>4. PICK records : records = {[call |-> r, status |-> Status(r, accepted)] : r \in Recorded}
  OBVIOUS
<1>5. batch' = [batch EXCEPT !.end = end, !.counted = Counted, !.records = records]
  <2>1. accepted = (\A s \in ThisTry : siblings[s] = "published")
    BY <1>2
  <2>2. QED BY <1>3, <1>4, <2>1 DEF EndBatch
<1>6. Counted \in SUBSET Requests /\ Recorded \subseteq Requests
  BY <1>1, MineFacts DEF Counted, Recorded
<1>7. records \in SUBSET [call : Requests, status : {"PUBLISHED", "REJECTED", "FALLBACK_DISCARDED"}]
  <2>1. \A r \in Requests : Status(r, accepted) \in {"PUBLISHED", "REJECTED", "FALLBACK_DISCARDED"}
    BY DEF Status
  <2>2. QED BY <1>4, <1>6, <2>1
<1>8. /\ batch' \in BatchRow /\ batch'.try = batch.try /\ batch'.end = end /\ batch'.counted = Counted
      /\ batch'.records = records
  <2>1. end \in {"accepted", "cancelled", "failed"}
    BY <1>3
  <2>2. QED BY <1>1, <1>5, <1>6, <1>7, <2>1 DEF BatchRow
<1>9. Mine' = Mine /\ ThisTry' = ThisTry /\ CallsOfTry' = CallsOfTry /\ scope' = scope
  BY <1>1, <1>8 DEF Mine, ThisTry, CallsOfTry, scope
<1>10. TasksInv'
  BY <1>1 DEF TasksInv
<1>11. GathersInv'
  BY <1>1, <1>8, <1>9 DEF GathersInv, Gather
<1>12. Told'
  <2> SUFFICES ASSUME end \in {"accepted", "failed"}, NEW r \in CallsOfTry
               PROVE  /\ tasks[r] \in Finished \ {"cancelled"}
                      /\ tasks[r] # "unsent" =>
                           /\ r \in Counted
                           /\ scope # "whole_batch" => \E e \in records : e.call = r
    BY <1>1, <1>8, <1>9 DEF Told
  <2>1. PICK s \in ThisTry : r \in pagesOf[s]
    BY DEF CallsOfTry
  <2>2. s \in Siblings /\ siblings[s] \in {"published", "failed"} /\ Gather(s, siblings[s])
    BY <1>1, <2>1, MineFacts DEF GathersInv
  <2>3. tasks[r] \in Finished /\ (siblings[s] = "published" => tasks[r] = "ok")
    BY <2>1, <2>2 DEF Gather, Finished
  <2>4. tasks[r] # "cancelled"
    <3>1. CASE accepted
      BY <1>2, <2>1, <2>3, <3>1
    <3>2. CASE ~accepted
      BY <1>3, <3>2
    <3>3. QED BY <3>1, <3>2
  <2>5. tasks[r] # "unsent" => r \in Counted
    BY <2>3 DEF Counted
  <2>6. ASSUME tasks[r] # "unsent", scope # "whole_batch" PROVE \E e \in records : e.call = r
    <3>1. r \in Recorded
      BY <2>6 DEF Recorded
    <3>2. [call |-> r, status |-> Status(r, accepted)] \in records
      BY <1>4, <3>1
    <3>3. QED BY <3>2
  <2>7. QED BY <2>3, <2>4, <2>5, <2>6
<1>13. QED BY <1>10, <1>11, <1>12

\* every gather passes the cancellation down
LEMMA CancelBatchKeeps ==
  ASSUME ProseInv, CancelBatch
  PROVE  TasksInv' /\ GathersInv' /\ Told'
<1>1. /\ TasksInv /\ GathersInv /\ batch \in BatchRow /\ CallsOfTry \subseteq Requests
      /\ client \in [Requests -> ClientState] /\ UNCHANGED plan
  BY MineFacts DEF ProseInv, GathersInv, RouteInv, ClientInv, CancelBatch
<1>2. PICK cut : cut = {r \in CallsOfTry : tasks[r] = "calling"}
  OBVIOUS
<1>3. PICK counted : counted = IF scope = "close" THEN cut ELSE {}
  OBVIOUS
<1>4. PICK records : records = IF scope = "close" THEN {[call |-> r, status |-> "FALLBACK_DISCARDED"] : r \in cut}
                                                  ELSE {}
  OBVIOUS
<1>5. batch' = [batch EXCEPT !.end = "cancelled", !.counted = counted, !.records = records]
  BY <1>2, <1>3, <1>4 DEF CancelBatch
<1>6. counted \in SUBSET Requests
      /\ records \in SUBSET [call : Requests, status : {"PUBLISHED", "REJECTED", "FALLBACK_DISCARDED"}]
  BY <1>1, <1>2, <1>3, <1>4
<1>7. batch' \in BatchRow /\ batch'.try = batch.try /\ batch'.end = "cancelled"
  BY <1>1, <1>5, <1>6 DEF BatchRow
<1>8. /\ tasks' = [r \in Requests |-> IF r \in CallsOfTry /\ tasks[r] \in {"new", "calling"} THEN "cancelled"
                                      ELSE tasks[r]]
      /\ client' = [r \in Requests |-> IF r \in CallsOfTry /\ client[r] = "waiting" THEN "abandoned"
                                       ELSE client[r]]
      /\ siblings' = [s \in Siblings |-> IF s \in ThisTry /\ siblings[s] \in {"new", "calling"} THEN "gone"
                                         ELSE siblings[s]]
  BY DEF CancelBatch
<1>9. TasksInv'
  <2>1. ASSUME NEW r \in Requests PROVE Linked(tasks'[r], client'[r]) /\ tasks'[r] \in TaskState
    <3>1. Linked(tasks[r], client[r]) /\ tasks[r] \in TaskState
      BY <1>1 DEF TasksInv
    <3>2. tasks'[r] = IF r \in CallsOfTry /\ tasks[r] \in {"new", "calling"} THEN "cancelled" ELSE tasks[r]
      BY <1>8
    <3>3. client'[r] = IF r \in CallsOfTry /\ client[r] = "waiting" THEN "abandoned" ELSE client[r]
      BY <1>8
    <3>4. QED BY <3>1, <3>2, <3>3 DEF Linked, TaskState, Finished
  <2>2. QED BY <1>8, <2>1 DEF TasksInv
<1>10. GathersInv'
  <2>1. Mine' = Mine /\ ThisTry \subseteq Mine /\ \A s \in Siblings : pagesOf[s] \subseteq Requests
    BY <1>1, MineFacts DEF Mine
  <2>2. ASSUME NEW s \in Siblings PROVE Gather(s, siblings[s])' /\ siblings'[s] \in SiblingState
    <3>1. Gather(s, siblings[s]) /\ siblings[s] \in SiblingState
      BY <1>1 DEF GathersInv
    <3>2. siblings'[s] = siblings[s] \/ (siblings'[s] = "gone" /\ s \in ThisTry)
      BY <1>8
    <3>3. \A r \in pagesOf[s] : tasks[r] \in Finished \cup {"none"} => tasks'[r] = tasks[r]
      BY <1>8, <2>1 DEF Finished
    <3>4. "ok" \in Finished
      BY DEF Finished
    <3>5. QED BY <2>1, <3>1, <3>2, <3>3, <3>4 DEF Gather, SiblingState
  <2>3. QED BY <1>1, <1>7, <1>8, <2>2 DEF GathersInv
<1>11. Told'
  BY <1>7 DEF Told
<1>12. QED BY <1>9, <1>10, <1>11

LEMMA RetryKeeps ==
  ASSUME ProseInv, Retry
  PROVE  TasksInv' /\ GathersInv' /\ Told'
<1>1. /\ TasksInv /\ GathersInv /\ batch \in BatchRow /\ batch.try < Len(plan.tries)
      /\ UNCHANGED <<client, plan, tasks, siblings>>
  BY DEF ProseInv, GathersInv, Retry
<1>2. PICK n : n = batch.try + 1
  OBVIOUS
<1>3. batch' = [try |-> n, end |-> "running", counted |-> {}, records |-> {}]
  BY <1>2 DEF Retry, NoBatch
<1>4. n \in Nat /\ n \in DOMAIN plan.tries
  <2>1. plan.tries \in Seq(SUBSET Siblings)
    BY <1>1, ProseAssumption DEF GathersInv, Siblings
  <2>2. Len(plan.tries) \in Nat /\ DOMAIN plan.tries = 1..Len(plan.tries)
    BY <2>1, LenProperties
  <2>3. QED BY <1>1, <1>2, <2>2 DEF BatchRow
<1>5. batch' \in BatchRow /\ batch'.try = n /\ batch'.end = "running"
  BY <1>3, <1>4 DEF BatchRow
<1>6. TasksInv' /\ Told'
  BY <1>1, <1>5 DEF TasksInv, Told
<1>7. GathersInv'
  BY <1>1, <1>4, <1>5 DEF GathersInv, Gather, Mine
<1>8. QED BY <1>6, <1>7

LEMMA ProseStarts == ProseInit => ProseInv
<1> SUFFICES ASSUME ProseInit PROVE ProseInv
  OBVIOUS
<1>1. RouteInv
  BY ProxyStarts DEF ProseInit
<1>2. TasksInv
  BY DEF ProseInit, ProxyInit, TasksInv, TaskState, Linked
<1>3. batch = [try |-> 1, end |-> "running", counted |-> {}, records |-> {}]
  BY DEF ProseInit, NoBatch
<1>4. batch \in BatchRow /\ batch.end = "running" /\ batch.try = 1
  BY <1>3 DEF BatchRow
<1>5. 1 \in DOMAIN plan.tries
  <2>1. plan.tries \in Seq(SUBSET Siblings) /\ plan.tries # <<>>
    BY ProseAssumption DEF ProseInit, Siblings
  <2>2. QED BY <2>1, LenProperties, EmptySeq
<1>6. GathersInv
  <2>1. \A s \in Siblings : siblings[s] = "new"
    BY DEF ProseInit
  <2>2. pagesOf \in [Siblings -> SUBSET Requests]
    BY ProseAssumption DEF Siblings
  <2>3. \A s \in Siblings : Gather(s, siblings[s])
    BY <2>1, <2>2 DEF ProseInit, Gather
  <2>4. QED BY <1>4, <1>5, <2>1, <2>3 DEF ProseInit, GathersInv, SiblingState
<1>7. Told
  BY <1>4 DEF Told
<1>8. QED BY <1>1, <1>2, <1>6, <1>7 DEF ProseInv

LEMMA ProseStep == ProseInv /\ [ProseNext]_proseVars => ProseInv'
<1>1. SUFFICES ASSUME ProseInv, [ProseNext]_proseVars PROVE TasksInv' /\ GathersInv' /\ Told'
  BY RouteStep DEF ProseInv
<1>2. CASE UNCHANGED proseVars
  BY <1>1, <1>2, AnswersKeep DEF proseVars, proxyVars, coroutines, ProseInv, RouteInv, ClientInv
<1>3. ASSUME NEW r \in Requests, Unsent(r) \/ Ask(r) \/ Reply(r) \/ CancelOne(r)
      PROVE  TasksInv' /\ GathersInv' /\ Told'
  BY <1>1, <1>3, CallMoves
<1>4. ASSUME NEW s \in Siblings, Launch(s) \/ Raise(s) \/ EndSibling(s)
      PROVE  TasksInv' /\ GathersInv' /\ Told'
  BY <1>1, <1>4, LaunchKeeps, RaiseKeeps, EndSiblingKeeps
<1>5. CASE EndBatch \/ CancelBatch \/ Retry
  BY <1>1, <1>5, EndBatchKeeps, CancelBatchKeeps, RetryKeeps
<1>6. CASE (\E r \in Requests : Serve(r) \/ Abandoned(r)) /\ UNCHANGED coroutines
  BY <1>1, <1>6, RouteTells
<1>7. CASE (Crash \/ Restart) /\ UNCHANGED coroutines
  BY <1>1, <1>7, RouteTells
<1>8. QED BY <1>1, <1>2, <1>3, <1>4, <1>5, <1>6, <1>7 DEF ProseNext

(* The coroutines of a batch and what their caller has seen agree, and a   *)
(* gather that ended has its calls behind it, through cancellations of one *)
(* call or of all, a sibling that raises, crashes and retries (prose.py    *)
(* 422-656).                                                               *)
THEOREM ProseInvariant == ProseSpec => []ProseInv
BY ProseStarts, ProseStep, PTL DEF ProseSpec

(* A batch that was not cancelled or broken off has no call of its own     *)
(* outstanding and tells of every request it sent: it is counted, and,     *)
(* unless a whole batch's call failed, it has a record (prose.py 55-71,    *)
(* 460-503).                                                               *)
THEOREM EndedBatchesTellOfTheirCalls == ProseSpec => []EndedBatchesTell
<1>1. ProseInv => EndedBatchesTell
  <2> SUFFICES ASSUME ProseInv, batch.end \in {"accepted", "failed"}, NEW r \in CallsOfTry,
                      client[r] # "idle"
               PROVE  /\ client[r] \notin {"waiting", "abandoned"}
                      /\ r \in batch.counted
                      /\ scope # "whole_batch" => \E e \in batch.records : e.call = r
    BY DEF EndedBatchesTell
  <2>1. r \in Requests
    BY MineFacts DEF ProseInv
  <2>2. Linked(tasks[r], client[r]) /\ tasks[r] \in Finished \ {"cancelled"}
    BY <2>1 DEF ProseInv, TasksInv, Told
  <2>3. tasks[r] # "unsent" /\ client[r] \in {"ok", "failed"}
    BY <2>2 DEF Linked, Finished
  <2>4. QED BY <2>3 DEF ProseInv, Told
<1>2. QED BY <1>1, ProseInvariant, PTL

-----------------------------------------------------------------------------
(************************** Sorted enumerations ****************************)

\* R puts any two elements of S in one order
Orders(R, S) ==
  /\ \A x \in S : <<x, x>> \notin R
  /\ \A x, y \in S : x = y \/ <<x, y>> \in R \/ <<y, x>> \in R
  /\ \A x, y, z \in S : <<x, y>> \in R /\ <<y, z>> \in R => <<x, z>> \in R

(* Sorting lists every element once, each after those before it.           *)
LEMMA SortedEnumerates ==
  ASSUME NEW S, IsFiniteSet(S), NEW R, Orders(R, S)
  PROVE  /\ Cardinality(S) \in Nat
         /\ SortedBy(S, R) \in [1..Cardinality(S) -> S]
         /\ \A x \in S : \E k \in 1..Cardinality(S) : SortedBy(S, R)[k] = x
         /\ \A i, j \in 1..Cardinality(S) : i < j => <<SortedBy(S, R)[i], SortedBy(S, R)[j]>> \in R
<1> DEFINE below(x) == {y \in S : <<y, x>> \in R}
           n == Cardinality(S)
           f == [x \in S |-> Cardinality(below(x)) + 1]
           q == SortedBy(S, R)
<1>1. n \in Nat
  BY FS_CardinalityType
<1>2. ASSUME NEW x \in S
      PROVE  /\ IsFiniteSet(below(x)) /\ Cardinality(below(x)) \in Nat
             /\ Cardinality(below(x)) < n
  <2>1. below(x) \subseteq S /\ below(x) # S
    BY DEF Orders
  <2> HIDE DEF below
  <2>2. IsFiniteSet(below(x)) /\ Cardinality(below(x)) <= n /\ Cardinality(below(x)) # n
    BY <2>1, FS_Subset
  <2>3. Cardinality(below(x)) \in Nat
    BY <2>2, FS_CardinalityType
  <2> HIDE DEF n
  <2>4. QED BY <1>1, <2>2, <2>3
<1>3. ASSUME NEW x \in S, NEW y \in S, <<x, y>> \in R
      PROVE  Cardinality(below(x)) < Cardinality(below(y))
  <2>1. below(x) \subseteq below(y) /\ x \in below(y) /\ x \notin below(x)
    BY <1>3 DEF Orders
  <2>2. IsFiniteSet(below(y)) /\ IsFiniteSet(below(x))
    BY <1>2
  <2> HIDE DEF below
  <2>3. below(x) # below(y)
    BY <2>1
  <2>4. QED BY <2>1, <2>2, <2>3, FS_Subset, FS_CardinalityType
<1> HIDE DEF below, n
<1>4. f \in [S -> 1..n] /\ \A x \in S : f[x] = Cardinality(below(x)) + 1
  BY <1>1, <1>2
<1>5. \A x, y \in S : f[x] = f[y] => x = y
  <2> TAKE x, y \in S
  <2> HAVE f[x] = f[y]
  <2>1. Cardinality(below(x)) = Cardinality(below(y)) /\ Cardinality(below(x)) \in Nat
    BY <1>2, <1>4
  <2>2. <<x, y>> \notin R /\ <<y, x>> \notin R
    BY <1>3, <2>1
  <2>3. QED BY <2>2 DEF Orders
<1> HIDE DEF f
<1>6. f \in Injection(S, 1..n)
  BY <1>4, <1>5 DEF Injection, IsInjective
<1>7. IsFiniteSet(1..n) /\ Cardinality(1..n) = n
  BY <1>1, FS_Interval
<1>8. f \in Surjection(S, 1..n)
  BY <1>6, <1>7, FS_Injection DEF n
<1>9. \A k \in 1..n : \E x \in S : f[x] = k
  BY <1>8 DEF Surjection
<1>10. ASSUME NEW k \in 1..n
       PROVE  q[k] \in S /\ f[q[k]] = k
  <2>1. q[k] = CHOOSE x \in S : Cardinality(below(x)) = k - 1
    BY <1>10 DEF SortedBy, n, below
  <2>2. \E x \in S : Cardinality(below(x)) = k - 1
    <3>1. PICK x \in S : f[x] = k
      BY <1>9
    <3>2. Cardinality(below(x)) \in Nat /\ Cardinality(below(x)) + 1 = k
      BY <1>2, <1>4, <3>1
    <3>3. Cardinality(below(x)) = k - 1
      BY <3>2
    <3>4. QED BY <3>3
  <2>3. q[k] \in S /\ Cardinality(below(q[k])) = k - 1
    BY <2>1, <2>2
  <2>4. QED BY <1>1, <1>4, <2>3
<1>11. q \in [1..n -> S]
  <2>1. q = [k \in 1..n |-> q[k]]
    <3> DEFINE v(k) == CHOOSE x \in S : Cardinality(below(x)) = k - 1
    <3>1. q = [k \in 1..n |-> v(k)]
      BY DEF SortedBy, n, below
    <3> HIDE DEF v, q
    <3>2. QED BY <3>1
  <2> HIDE DEF q
  <2>2. QED BY <1>10, <2>1
<1>12. \A x \in S : \E k \in 1..n : q[k] = x
  <2> TAKE x \in S
  <2>1. f[x] \in 1..n
    BY <1>4
  <2>2. q[f[x]] = x
    BY <1>5, <1>10, <2>1
  <2>3. QED BY <2>1, <2>2
<1>13. \A i, j \in 1..n : i < j => <<q[i], q[j]>> \in R
  <2> TAKE i, j \in 1..n
  <2> HAVE i < j
  <2>1. q[i] \in S /\ q[j] \in S /\ f[q[i]] = i /\ f[q[j]] = j
    BY <1>10
  <2>2. q[i] # q[j]
    BY <1>1, <2>1
  <2>3. <<q[j], q[i]>> \notin R
    <3> SUFFICES ASSUME <<q[j], q[i]>> \in R PROVE FALSE
      OBVIOUS
    <3> HIDE DEF q
    <3>1. Cardinality(below(q[j])) < Cardinality(below(q[i]))
      BY <1>3, <2>1
    <3>2. Cardinality(below(q[j])) \in Nat /\ Cardinality(below(q[i])) \in Nat
      BY <1>2, <2>1
    <3>3. j = Cardinality(below(q[j])) + 1 /\ i = Cardinality(below(q[i])) + 1
      BY <1>4, <2>1
    <3>4. QED BY <3>1, <3>2, <3>3
  <2>4. QED BY <2>1, <2>2, <2>3 DEF Orders
<1>14. QED BY <1>1, <1>11, <1>12, <1>13 DEF n

-----------------------------------------------------------------------------
(******************************* Left folds ********************************)

LEMMA MaxIn ==
  ASSUME NEW S, IsFiniteSet(S), S # {}, S \subseteq Int
  PROVE  Max(S) \in S
<1> DEFINE f == [x \in S |-> x]
<1>1. IntegersOn(f, S)
  BY DEF IntegersOn
<1>2. PICK m \in S : \A y \in S : f[m] >= f[y]
  BY <1>1, GreatestValue
<1>3. \A y \in S : m >= y
  BY <1>2
<1>4. QED BY <1>3 DEF Max

LEMMA AppendedElements ==
  ASSUME NEW R, NEW q \in Seq(R), NEW e \in R
  PROVE  Append(q, e) \in Seq(R) /\ ToSet(Append(q, e)) = ToSet(q) \cup {e}
<1>1. /\ Append(q, e) \in Seq(R) /\ Len(Append(q, e)) = Len(q) + 1 /\ Append(q, e)[Len(q) + 1] = e
      /\ \A i \in 1..Len(q) : Append(q, e)[i] = q[i]
      /\ Len(q) \in Nat /\ DOMAIN q = 1..Len(q) /\ DOMAIN Append(q, e) = 1..Len(q) + 1
  BY AppendProperties, LenProperties
<1>2. \A x \in ToSet(Append(q, e)) : x \in ToSet(q) \cup {e}
  <2> TAKE x \in ToSet(Append(q, e))
  <2>1. PICK i \in 1..Len(q) + 1 : Append(q, e)[i] = x
    BY <1>1 DEF ToSet
  <2>2. i \in 1..Len(q) \/ i = Len(q) + 1
    BY <1>1
  <2>3. QED BY <1>1, <2>1, <2>2 DEF ToSet
<1>3. \A x \in ToSet(q) \cup {e} : x \in ToSet(Append(q, e))
  <2>1. \A i \in 1..Len(q) : i \in DOMAIN Append(q, e) /\ q[i] = Append(q, e)[i]
    BY <1>1
  <2>2. \A x \in ToSet(q) : \E i \in 1..Len(q) : x = q[i]
    BY <1>1 DEF ToSet
  <2>3. Len(q) + 1 \in DOMAIN Append(q, e)
    BY <1>1
  <2>4. QED BY <1>1, <2>1, <2>2, <2>3 DEF ToSet
<1>4. QED BY <1>1, <1>2, <1>3

LEMMA Places ==
  ASSUME NEW X, NEW h \in Seq(X)
  PROVE  /\ DOMAIN h = 1..Len(h) /\ Len(h) \in Nat /\ IsFiniteSet(DOMAIN h) /\ DOMAIN h \subseteq Int
         /\ \A s \in SUBSET DOMAIN h : IsFiniteSet(s) /\ (s # {} => Max(s) \in s)
<1>1. DOMAIN h = 1..Len(h) /\ Len(h) \in Nat
  BY LenProperties
<1>2. IsFiniteSet(DOMAIN h) /\ DOMAIN h \subseteq Int
  BY <1>1, FS_Interval
<1>3. \A s \in SUBSET DOMAIN h : IsFiniteSet(s)
  BY <1>2, FS_Subset
<1>4. \A s \in SUBSET DOMAIN h : s # {} => Max(s) \in s
  BY <1>2, <1>3, MaxIn
<1>5. QED BY <1>1, <1>2, <1>3, <1>4

(* A fold from the left, as a recursion over the places it has passed.     *)
Passes(g, q, base, step) ==
  g = [s \in SUBSET DOMAIN q |-> IF s = {} THEN base ELSE step[<<g[s \ {Max(s)}], q[Max(s)]>>]]

LEMMA PassesExists ==
  ASSUME NEW E, NEW X, NEW q \in Seq(E), NEW base \in X, NEW step \in [X \X E -> X]
  PROVE  \E g \in [SUBSET DOMAIN q -> X] : Passes(g, q, base, step)
<1> DEFINE D == DOMAIN q
           pick == [s \in SUBSET D |-> Max(s)]
           turn == [p \in D \X X |-> step[<<p[2], q[p[1]]>>]]
<1>1. /\ IsFiniteSet(D) /\ \A s \in SUBSET D : s # {} => Max(s) \in s
      /\ \A i \in D : q[i] \in E
  BY Places, ElementOfSeq, LenProperties
<1>2. turn \in [D \X X -> X] /\ \A i \in D, v \in X : turn[<<i, v>>] = step[<<v, q[i]>>]
  BY <1>1
<1>3. \A s \in SUBSET D : s # {} => pick[s] \in s
  BY <1>1
<1>4. \A s \in SUBSET D : pick[s] = Max(s)
  OBVIOUS
<1> HIDE DEF pick, turn
<1>5. PICK g \in [SUBSET D -> X] : IsFold(g, D, base, turn, pick)
  BY <1>1, <1>2, <1>3, FoldExists
<1>6. ASSUME NEW s \in SUBSET D, s # {}
      PROVE  turn[<<pick[s], g[s \ {pick[s]}]>>] = step[<<g[s \ {Max(s)}], q[Max(s)]>>]
  <2>1. pick[s] = Max(s) /\ Max(s) \in D /\ s \ {Max(s)} \in SUBSET D
    BY <1>1, <1>4, <1>6
  <2>2. g[s \ {Max(s)}] \in X
    BY <2>1
  <2>3. QED BY <1>2, <2>1, <2>2
<1>7. g = [s \in SUBSET D |-> IF s = {} THEN base ELSE turn[<<pick[s], g[s \ {pick[s]}]>>]]
  BY <1>5 DEF IsFold
<1>8. g = [s \in SUBSET D |-> IF s = {} THEN base ELSE step[<<g[s \ {Max(s)}], q[Max(s)]>>]]
  BY <1>6, <1>7
<1>9. QED BY <1>8 DEF Passes

(* What holds at the start and survives every place holds at the end.      *)
LEMMA PassesKeep ==
  ASSUME NEW E, NEW q \in Seq(E), NEW g, NEW I, g[{}] \in I,
         \A s \in SUBSET DOMAIN q : s # {} /\ Max(s) \in s /\ g[s \ {Max(s)}] \in I => g[s] \in I
  PROVE  g[DOMAIN q] \in I
<1> DEFINE D == DOMAIN q
           B == {s \in SUBSET D : g[s] \notin I}
<1>1. SUFFICES ASSUME B # {} PROVE FALSE
  OBVIOUS
<1>2. IsFiniteSet(D) /\ \A s \in SUBSET D : s # {} => Max(s) \in s
  BY Places
<1>3. PICK s \in B : \A x \in s : s \ {x} \notin B
  <2> HIDE DEF B
  <2>1. B \subseteq SUBSET D
    BY DEF B
  <2>2. QED BY <1>1, <1>2, <2>1, MinimalSubset
<1>4. s # {}
  BY <1>3
<1>5. Max(s) \in s /\ g[s \ {Max(s)}] \in I
  BY <1>2, <1>3, <1>4
<1>6. QED BY <1>3, <1>4, <1>5

(* Every element once, in the order of its first place.                    *)
Joins(g, q) ==
  g = [s \in SUBSET DOMAIN q |->
         IF s = {} THEN <<>>
         ELSE IF q[Max(s)] \in ToSet(g[s \ {Max(s)}]) THEN g[s \ {Max(s)}]
              ELSE Append(g[s \ {Max(s)}], q[Max(s)])]

LEMMA FirstSeenKeeps ==
  ASSUME NEW X, NEW q \in Seq(X)
  PROVE  FirstSeen(q) \in Seq(X) /\ ToSet(FirstSeen(q)) = ToSet(q)
<1> DEFINE D == DOMAIN q
           Y == ToSet(q)
           P(g) == Joins(g, q)
           join(p, x) == IF x \in ToSet(p) THEN p ELSE Append(p, x)
           step == [z \in Seq(X) \X X |-> join(z[1], z[2])]
<1>1. /\ IsFiniteSet(D) /\ \A s \in SUBSET D : s # {} => Max(s) \in s
      /\ \A i \in D : q[i] \in X
  BY Places, ElementOfSeq, LenProperties
<1>2. \A p \in Seq(X), x \in X : join(p, x) \in Seq(X) /\ ToSet(join(p, x)) = ToSet(p) \cup {x}
  BY AppendedElements
<1>3. step \in [Seq(X) \X X -> Seq(X)] /\ \A p \in Seq(X), x \in X : step[<<p, x>>] = join(p, x)
  <2> HIDE DEF join
  <2>1. QED BY <1>2
<1>4. <<>> \in Seq(X) /\ ToSet(<<>>) = {}
  BY DEF ToSet
<1> HIDE DEF step
<1>5. \E g : P(g)
  <2>1. PICK g \in [SUBSET D -> Seq(X)] : Passes(g, q, <<>>, step)
    BY <1>3, <1>4, PassesExists
  <2>2. ASSUME NEW s \in SUBSET D, s # {}
        PROVE  step[<<g[s \ {Max(s)}], q[Max(s)]>>] = join(g[s \ {Max(s)}], q[Max(s)])
    <3>1. s \ {Max(s)} \in SUBSET D /\ Max(s) \in D
      BY <1>1, <2>2
    <3>2. g[s \ {Max(s)}] \in Seq(X) /\ q[Max(s)] \in X
      BY <1>1, <3>1
    <3> HIDE DEF join
    <3>3. QED BY <1>3, <3>2
  <2>3. g = [s \in SUBSET D |-> IF s = {} THEN <<>> ELSE join(g[s \ {Max(s)}], q[Max(s)])]
    <3> HIDE DEF join
    <3>1. QED BY <2>1, <2>2 DEF Passes
  <2>4. QED BY <2>3 DEF Joins
<1>6. FirstSeen(q) = (CHOOSE g : P(g))[D]
  BY DEF FirstSeen, FoldLeft, MapThenFoldSet, Joins
<1> DEFINE G == CHOOSE g : P(g)
           I(s) == G[s] \in Seq(X) /\ ToSet(G[s]) = {q[i] : i \in s}
           B == {s \in SUBSET D : ~I(s)}
<1>7. P(G)
  <2> HIDE DEF P
  <2>1. QED BY <1>5
<1>8. G[{}] = <<>> /\ \A s \in SUBSET D : s # {} => G[s] = join(G[s \ {Max(s)}], q[Max(s)])
  <2> HIDE DEF G
  <2>1. G = [s \in SUBSET D |-> IF s = {} THEN <<>> ELSE join(G[s \ {Max(s)}], q[Max(s)])]
    BY <1>7 DEF Joins
  <2> HIDE DEF join
  <2>2. QED BY <2>1
<1> HIDE DEF G, P, join
<1>9. ASSUME B # {} PROVE FALSE
  <2>1. PICK s \in B : \A x \in s : s \ {x} \notin B
    <3> HIDE DEF B
    <3>1. B \subseteq SUBSET D
      BY DEF B
    <3>2. QED BY <1>1, <1>9, <3>1, MinimalSubset
  <2>2. s # {}
    BY <1>4, <1>8, <2>1
  <2> DEFINE m == Max(s)
  <2>3. m \in s /\ m \in D /\ s \ {m} \in SUBSET D /\ I(s \ {m})
    BY <1>1, <2>1, <2>2
  <2>4. G[s] = join(G[s \ {m}], q[m])
    BY <1>8, <2>1, <2>2
  <2>5. {q[i] : i \in s} = {q[i] : i \in s \ {m}} \cup {q[m]}
    BY <2>3
  <2> HIDE DEF m
  <2>6. G[s] \in Seq(X) /\ ToSet(G[s]) = ToSet(G[s \ {m}]) \cup {q[m]}
    <3>1. G[s \ {m}] \in Seq(X) /\ q[m] \in X
      BY <1>1, <2>3
    <3>2. /\ join(G[s \ {m}], q[m]) \in Seq(X)
          /\ ToSet(join(G[s \ {m}], q[m])) = ToSet(G[s \ {m}]) \cup {q[m]}
      BY <1>2, <3>1
    <3>3. QED BY <2>4, <3>2
  <2>7. I(s)
    BY <2>3, <2>5, <2>6
  <2>8. QED BY <2>1, <2>7
<1>10. I(D)
  BY <1>9
<1>11. {q[i] : i \in D} = ToSet(q)
  BY DEF ToSet
<1>12. QED BY <1>6, <1>10, <1>11 DEF G

-----------------------------------------------------------------------------
(**************************** Sorted sequences *****************************)

\* numbering the elements orders them
LEMMA NumbersOrder ==
  ASSUME NEW S, NEW m, \A x \in S : m[x] \in Int, \A x, y \in S : m[x] = m[y] => x = y,
         NEW R, R = {p \in S \X S : m[p[1]] < m[p[2]]}
  PROVE  Orders(R, S)
<1>1. \A x, y \in S : <<x, y>> \in R <=> m[x] < m[y]
  OBVIOUS
<1>2. \A x \in S : <<x, x>> \notin R
  BY <1>1
<1>3. \A x, y \in S : x = y \/ <<x, y>> \in R \/ <<y, x>> \in R
  <2> TAKE x, y \in S
  <2>1. m[x] = m[y] \/ m[x] < m[y] \/ m[y] < m[x]
    OBVIOUS
  <2>2. QED BY <1>1, <2>1
<1>4. \A x, y, z \in S : <<x, y>> \in R /\ <<y, z>> \in R => <<x, z>> \in R
  <2> TAKE x, y, z \in S
  <2> HAVE <<x, y>> \in R /\ <<y, z>> \in R
  <2>1. m[x] < m[y] /\ m[y] < m[z] /\ m[x] \in Int /\ m[y] \in Int /\ m[z] \in Int
    BY <1>1
  <2>2. m[x] < m[z]
    BY <2>1
  <2>3. QED BY <1>1, <2>2
<1>5. QED BY <1>2, <1>3, <1>4 DEF Orders

(* A sorted set is a sequence of its elements, as long as the set.         *)
LEMMA SortedLists ==
  ASSUME NEW S, IsFiniteSet(S), NEW R, Orders(R, S)
  PROVE  /\ SortedBy(S, R) \in Seq(S) /\ ToSet(SortedBy(S, R)) = S
         /\ DOMAIN SortedBy(S, R) = 1..Cardinality(S) /\ Len(SortedBy(S, R)) = Cardinality(S)
         /\ Cardinality(S) \in Nat
<1> DEFINE q == SortedBy(S, R)
           n == Cardinality(S)
<1>1. n \in Nat /\ q \in [1..n -> S] /\ \A x \in S : \E k \in 1..n : q[k] = x
  BY SortedEnumerates
<1> HIDE DEF q, n
<1>2. q \in Seq(S)
  BY <1>1, SeqDef
<1>3. DOMAIN q = 1..n
  BY <1>1
<1>4. Len(q) = n
  BY <1>1, <1>2, <1>3, LenProperties
<1>5. ToSet(q) = S
  BY <1>1, <1>3 DEF ToSet
<1>6. QED BY <1>1, <1>2, <1>3, <1>4, <1>5 DEF q, n

LEMMA LeastOfNumbers ==
  ASSUME NEW T, T \subseteq Nat, T # {}
  PROVE  Min(T) \in T
<1>1. PICK n \in T : \A m \in T : n <= m
  BY LeastNatural
<1>2. QED BY <1>1 DEF Min

-----------------------------------------------------------------------------
(***************************** Prompt admission *****************************)

\* where the batch shows a page
On(q, p) == {i \in DOMAIN q : span[q[i]].page = p}

LEMMA PagesHavePlaces ==
  ASSUME NEW q \in Seq(DOMAIN span)
  PROVE  /\ DOMAIN q = 1..Len(q) /\ Len(q) \in Nat /\ \A i \in DOMAIN q : q[i] \in DOMAIN span
         /\ \A p : On(q, p) \subseteq DOMAIN q /\ IsFiniteSet(On(q, p))
         /\ \A p \in Pages(q) : On(q, p) # {}
         /\ \A i \in DOMAIN q : span[q[i]].page \in Pages(q)
         /\ IsFiniteSet(Pages(q))
<1>1. /\ DOMAIN q = 1..Len(q) /\ Len(q) \in Nat /\ IsFiniteSet(DOMAIN q)
      /\ \A i \in DOMAIN q : q[i] \in DOMAIN span
  BY Places, ElementOfSeq, LenProperties
<1>2. \A p : On(q, p) \subseteq DOMAIN q /\ IsFiniteSet(On(q, p))
  BY <1>1, FS_Subset DEF On
<1>3. \A p \in Pages(q) : On(q, p) # {}
  BY DEF Pages, On, ToSet
<1>4. \A i \in DOMAIN q : span[q[i]].page \in Pages(q)
  BY DEF Pages, ToSet
<1>5. IsFiniteSet(Pages(q))
  <2> DEFINE f == [i \in DOMAIN q |-> span[q[i]].page]
  <2>1. Pages(q) = {f[i] : i \in DOMAIN q}
    BY DEF Pages, ToSet
  <2> HIDE DEF f
  <2>2. QED BY <1>1, <2>1, ImageFinite
<1>6. QED BY <1>1, <1>2, <1>3, <1>4, <1>5

(* The spans of a page by score: every one of its places, once.            *)
LEMMA RankedLists ==
  ASSUME NEW q \in Seq(DOMAIN span), NEW p
  PROVE  Ranked(q, p) \in Seq(On(q, p)) /\ Len(Ranked(q, p)) = Cardinality(On(q, p))
<1> DEFINE S == On(q, p)
           above(i, j) == \/ span[q[i]].score > span[q[j]].score
                          \/ span[q[i]].score = span[q[j]].score /\ i < j
           R == {x \in S \X S : above(x[1], x[2])}
<1>1. Ranked(q, p) = SortedBy(S, R)
  BY DEF Ranked, Sorted, On
<1>2. IsFiniteSet(S) /\ \A i \in S : i \in Nat /\ span[q[i]].score \in Int
  BY PagesHavePlaces, SizesAreCounts
<1>3. \A i, j \in S : <<i, j>> \in R <=> above(i, j)
  OBVIOUS
<1> HIDE DEF S, R
<1>4. \A i \in S : ~above(i, i)
  BY <1>2
<1>5. \A i, j \in S : i = j \/ above(i, j) \/ above(j, i)
  BY <1>2
<1>6. \A i, j, k \in S : above(i, j) /\ above(j, k) => above(i, k)
  BY <1>2
<1> HIDE DEF above
<1>7. Orders(R, S)
  BY <1>3, <1>4, <1>5, <1>6 DEF Orders
<1>8. QED BY <1>1, <1>2, <1>7, SortedLists DEF S

LEMMA FloorHasEveryPage ==
  ASSUME NEW q \in Seq(DOMAIN span)
  PROVE  PackFloor(q) \subseteq DOMAIN q /\ \A p \in Pages(q) : \E i \in PackFloor(q) : span[q[i]].page = p
<1>1. ASSUME NEW p \in Pages(q)
      PROVE  Ranked(q, p)[1] \in On(q, p)
  <2>1. On(q, p) # {} /\ IsFiniteSet(On(q, p))
    BY PagesHavePlaces
  <2>2. Cardinality(On(q, p)) \in Nat /\ Cardinality(On(q, p)) # 0
    BY <2>1, FS_EmptySet, FS_CardinalityType
  <2>3. Ranked(q, p) \in Seq(On(q, p)) /\ Len(Ranked(q, p)) >= 1
    BY <2>2, RankedLists
  <2>4. QED BY <2>3, ElementOfSeq, LenProperties
<1>2. QED BY <1>1 DEF PackFloor, On

LEMMA PageOrderLists ==
  ASSUME NEW q \in Seq(DOMAIN span)
  PROVE  /\ PageOrder(q) \in Seq(Pages(q)) /\ DOMAIN PageOrder(q) = 1..Len(PageOrder(q))
         /\ Len(PageOrder(q)) \in Nat
<1> DEFINE S == Pages(q)
           m == [p \in S |-> Min(On(q, p))]
           R == {x \in S \X S : m[x[1]] < m[x[2]]}
<1>1. PageOrder(q) = SortedBy(S, R)
  <2> DEFINE first(p) == Min(On(q, p))
             T == {x \in S \X S : first(x[1]) < first(x[2])}
  <2>1. PageOrder(q) = SortedBy(S, T)
    BY DEF PageOrder, Sorted, On
  <2>2. \A p \in S : m[p] = first(p)
    OBVIOUS
  <2> HIDE DEF m, first
  <2>3. T = R
    BY <2>2
  <2>4. QED BY <2>1, <2>3
<1>2. \A p \in S : m[p] \in On(q, p)
  <2> TAKE p \in S
  <2>1. On(q, p) # {} /\ On(q, p) \subseteq Nat
    BY PagesHavePlaces
  <2>2. QED BY <2>1, LeastOfNumbers
<1>3. \A p \in S : m[p] \in Int
  BY <1>2, PagesHavePlaces
<1>4. \A p, r \in S : m[p] = m[r] => p = r
  BY <1>2 DEF On
<1>5. IsFiniteSet(S)
  BY PagesHavePlaces
<1> HIDE DEF S, m, R
<1>6. Orders(R, S)
  <2>1. R = {x \in S \X S : m[x[1]] < m[x[2]]}
    BY DEF R
  <2>2. QED BY <1>3, <1>4, <2>1, NumbersOrder
<1>7. SortedBy(S, R) \in Seq(S)
  BY <1>5, <1>6, SortedLists
<1>8. QED BY <1>1, <1>7, LenProperties DEF S

\* a place of the fill order: a depth and a page that goes as deep
Fillers(q) == {x \in (2..Len(q)) \X DOMAIN PageOrder(q) : x[1] <= Len(Ranked(q, PageOrder(q)[x[2]]))}

LEMMA FillOrderLists ==
  ASSUME NEW q \in Seq(DOMAIN span)
  PROVE  FillOrder(q) \in Seq(Fillers(q))
<1> DEFINE S == Fillers(q)
           before(x, y) == x[1] < y[1] \/ (x[1] = y[1] /\ x[2] < y[2])
           R == {z \in S \X S : before(z[1], z[2])}
<1>1. FillOrder(q) = SortedBy(S, R)
  BY DEF FillOrder, Sorted, Fillers
<1>2. Len(q) \in Nat /\ DOMAIN PageOrder(q) = 1..Len(PageOrder(q)) /\ Len(PageOrder(q)) \in Nat
  BY PagesHavePlaces, PageOrderLists
<1>3. IsFiniteSet(S)
  <2>1. IsFiniteSet(2..Len(q)) /\ IsFiniteSet(1..Len(PageOrder(q)))
    BY <1>2, FS_Interval
  <2>2. IsFiniteSet((2..Len(q)) \X DOMAIN PageOrder(q))
    BY <1>2, <2>1, FS_Product
  <2>3. S \subseteq (2..Len(q)) \X DOMAIN PageOrder(q)
    BY DEF Fillers
  <2>4. QED BY <2>2, <2>3, FS_Subset
<1>4. \A x \in S : x[1] \in Int /\ x[2] \in Int /\ x = <<x[1], x[2]>>
  BY <1>2 DEF Fillers
<1>5. \A x, y \in S : <<x, y>> \in R <=> before(x, y)
  OBVIOUS
<1> HIDE DEF S, R
<1>6. \A x \in S : ~before(x, x)
  BY <1>4
<1>7. \A x, y \in S : x = y \/ before(x, y) \/ before(y, x)
  <2> TAKE x, y \in S
  <2>1. before(x, y) \/ before(y, x) \/ (x[1] = y[1] /\ x[2] = y[2])
    BY <1>4
  <2>2. QED BY <1>4, <2>1
<1>8. \A x, y, z \in S : before(x, y) /\ before(y, z) => before(x, z)
  BY <1>4
<1> HIDE DEF before
<1>9. Orders(R, S)
  BY <1>5, <1>6, <1>7, <1>8 DEF Orders
<1>10. QED BY <1>1, <1>3, <1>9, SortedLists DEF S

\* one more place, if it fits
PlaceAt(q, x) == Ranked(q, PageOrder(q)[x[2]])[x[1]]
Fitted(q, b, I, i) == IF TokensAt(q, I \cup {i}) <= b THEN I \cup {i} ELSE I
Fills(g, q, b) ==
  g = [s \in SUBSET DOMAIN FillOrder(q) |->
         IF s = {} THEN PackFloor(q)
         ELSE Fitted(q, b, g[s \ {Max(s)}], PlaceAt(q, FillOrder(q)[Max(s)]))]

(* Filling only adds places of the batch to the floor, and stays in the    *)
(* room the floor was in.                                                  *)
LEMMA PackKeepsTheFloor ==
  ASSUME NEW q \in Seq(DOMAIN span), NEW b
  PROVE  /\ PackFloor(q) \subseteq PromptPack(q, b) /\ PromptPack(q, b) \subseteq DOMAIN q
         /\ TokensAt(q, PackFloor(q)) <= b => TokensAt(q, PromptPack(q, b)) <= b
<1> DEFINE fill == FillOrder(q)
           D == DOMAIN fill
           X == SUBSET DOMAIN q
           P(g) == Fills(g, q, b)
           step == [z \in X \X Fillers(q) |-> Fitted(q, b, z[1], PlaceAt(q, z[2]))]
<1>1. fill \in Seq(Fillers(q)) /\ \A i \in D : fill[i] \in Fillers(q)
  BY FillOrderLists, ElementOfSeq, LenProperties
<1>2. \A s \in SUBSET D : s # {} => Max(s) \in s
  <2> HIDE DEF fill
  <2>1. QED BY <1>1, Places
<1>3. PackFloor(q) \in X
  BY FloorHasEveryPage
<1>4. ASSUME NEW x \in Fillers(q)
      PROVE  PlaceAt(q, x) \in DOMAIN q
  <2> DEFINE p == PageOrder(q)[x[2]]
  <2>1. x[1] \in 2..Len(q) /\ x[1] <= Len(Ranked(q, p))
    BY DEF Fillers
  <2>2. Ranked(q, p) \in Seq(On(q, p)) /\ On(q, p) \subseteq DOMAIN q
    BY RankedLists, PagesHavePlaces
  <2> HIDE DEF p
  <2>3. Len(q) \in Nat /\ Len(Ranked(q, p)) \in Nat
    BY <2>2, PagesHavePlaces, LenProperties
  <2>4. x[1] \in 1..Len(Ranked(q, p))
    BY <2>1, <2>3
  <2>5. Ranked(q, p)[x[1]] \in On(q, p)
    BY <2>2, <2>4, ElementOfSeq
  <2>6. QED BY <2>2, <2>5 DEF PlaceAt, p
<1>5. \A I \in X, x \in Fillers(q) : Fitted(q, b, I, PlaceAt(q, x)) \in X
  BY <1>4 DEF Fitted
<1>6. step \in [X \X Fillers(q) -> X] /\ \A I \in X, x \in Fillers(q) : step[<<I, x>>] = Fitted(q, b, I, PlaceAt(q, x))
  BY <1>5
<1> HIDE DEF step
<1>7. \E g : P(g)
  <2> HIDE DEF X, fill
  <2>1. PICK g \in [SUBSET D -> X] : Passes(g, fill, PackFloor(q), step)
    BY <1>1, <1>3, <1>6, PassesExists
  <2>2. ASSUME NEW s \in SUBSET D, s # {}
        PROVE  step[<<g[s \ {Max(s)}], fill[Max(s)]>>] = Fitted(q, b, g[s \ {Max(s)}], PlaceAt(q, fill[Max(s)]))
    <3>1. s \ {Max(s)} \in SUBSET D /\ Max(s) \in D
      BY <1>2, <2>2
    <3>2. g[s \ {Max(s)}] \in X /\ fill[Max(s)] \in Fillers(q)
      BY <1>1, <3>1
    <3>3. QED BY <1>6, <3>2
  <2>3. g = [s \in SUBSET D |-> IF s = {} THEN PackFloor(q)
                                ELSE Fitted(q, b, g[s \ {Max(s)}], PlaceAt(q, fill[Max(s)]))]
    BY <2>1, <2>2 DEF Passes
  <2>4. QED BY <2>3 DEF Fills, fill
<1>8. PromptPack(q, b) = (CHOOSE g : P(g))[D]
  BY DEF PromptPack, FoldLeft, MapThenFoldSet, Fills, Fitted, PlaceAt
<1> DEFINE G == CHOOSE g : P(g)
           Kept == {I \in X : PackFloor(q) \subseteq I /\ (TokensAt(q, PackFloor(q)) <= b => TokensAt(q, I) <= b)}
<1>9. P(G)
  <2> HIDE DEF P
  <2>1. QED BY <1>7
<1>10. /\ G[{}] = PackFloor(q)
       /\ \A s \in SUBSET D : s # {} => G[s] = Fitted(q, b, G[s \ {Max(s)}], PlaceAt(q, fill[Max(s)]))
  <2> HIDE DEF G
  <2>1. QED BY <1>9 DEF Fills
<1> HIDE DEF G, P
<1>11. G[{}] \in Kept
  BY <1>3, <1>10
<1>12. ASSUME NEW s \in SUBSET D, s # {}, Max(s) \in s, G[s \ {Max(s)}] \in Kept
       PROVE  G[s] \in Kept
  <2> DEFINE I == G[s \ {Max(s)}]
             i == PlaceAt(q, fill[Max(s)])
  <2>1. fill[Max(s)] \in Fillers(q) /\ G[s] = Fitted(q, b, I, i)
    BY <1>1, <1>10, <1>12
  <2>2. I \in X /\ i \in DOMAIN q /\ PackFloor(q) \subseteq I
        /\ (TokensAt(q, PackFloor(q)) <= b => TokensAt(q, I) <= b)
    BY <1>4, <1>12, <2>1
  <2> HIDE DEF I, i
  <2>3. G[s] = I \/ (G[s] = I \cup {i} /\ TokensAt(q, I \cup {i}) <= b)
    BY <2>1 DEF Fitted
  <2>4. QED BY <2>2, <2>3
<1>13. G[D] \in Kept
  <2> HIDE DEF Kept, fill
  <2>1. QED BY <1>1, <1>11, <1>12, PassesKeep
<1>14. QED BY <1>8, <1>13 DEF G

(* What is kept of a batch is in its order.                                *)
LEMMA KeepSelects ==
  ASSUME NEW q \in Seq(DOMAIN span), NEW I \in SUBSET DOMAIN q
  PROVE  /\ Keep(q, I) \in Seq(DOMAIN span)
         /\ ToSet(Keep(q, I)) = {q[i] : i \in I}
         /\ \E at \in [DOMAIN Keep(q, I) -> DOMAIN q] :
              /\ \A k \in DOMAIN Keep(q, I) : Keep(q, I)[k] = q[at[k]]
              /\ \A k, l \in DOMAIN Keep(q, I) : k < l => at[k] < at[l]
<1> DEFINE R == {x \in I \X I : x[1] < x[2]}
           at == Sorted(I, <)
           n == Cardinality(I)
           kept == Keep(q, I)
<1>1. DOMAIN q \subseteq Int /\ IsFiniteSet(I) /\ \A i \in DOMAIN q : q[i] \in DOMAIN span
  BY Places, PagesHavePlaces, FS_Subset
<1>2. Orders(R, I)
  <2> DEFINE m == [i \in I |-> i]
  <2>1. R = {x \in I \X I : m[x[1]] < m[x[2]]}
    OBVIOUS
  <2>2. \A i \in I : m[i] \in Int
    BY <1>1
  <2>3. \A i, j \in I : m[i] = m[j] => i = j
    OBVIOUS
  <2> HIDE DEF m, R
  <2>4. QED BY <2>1, <2>2, <2>3, NumbersOrder
<1>3. at = SortedBy(I, R)
  BY DEF Sorted
<1> HIDE DEF R
<1>4. /\ n \in Nat /\ at \in [1..n -> I] /\ \A x \in I : \E k \in 1..n : at[k] = x
      /\ \A k, l \in 1..n : k < l => <<at[k], at[l]>> \in R
  <2> HIDE DEF at
  <2>1. QED BY <1>1, <1>2, <1>3, SortedEnumerates
<1>5. \A k, l \in 1..n : k < l => at[k] < at[l]
  <2> HIDE DEF at
  <2>1. QED BY <1>4 DEF R
<1>6. kept = [k \in 1..n |-> q[at[k]]]
  BY DEF Keep
<1> HIDE DEF at, kept, n
<1>7. kept \in [1..n -> DOMAIN span] /\ DOMAIN kept = 1..n /\ \A k \in 1..n : kept[k] = q[at[k]]
  BY <1>1, <1>4, <1>6
<1>8. kept \in Seq(DOMAIN span)
  BY <1>4, <1>7, SeqDef
<1>9. ToSet(kept) = {q[i] : i \in I}
  <2>1. ToSet(kept) = {kept[k] : k \in 1..n}
    BY <1>7 DEF ToSet
  <2>2. \A k \in 1..n : kept[k] \in {q[i] : i \in I}
    BY <1>4, <1>7
  <2>3. \A i \in I : \E k \in 1..n : kept[k] = q[i]
    BY <1>4, <1>7
  <2>4. QED BY <2>1, <2>2, <2>3
<1>10. at \in [1..n -> DOMAIN q]
  BY <1>4
<1>11. QED BY <1>5, <1>7, <1>8, <1>9, <1>10 DEF kept

(* The admitted prompt, whatever the batch and the budget.                 *)
LEMMA AdmittedShowsEveryPage ==
  ASSUME NEW q \in Seq(DOMAIN span), NEW b
  PROVE  LET kept == Keep(q, PromptPack(q, b)) IN
           /\ kept \in Seq(DOMAIN span) /\ Pages(kept) = Pages(q)
           /\ \E at \in [DOMAIN kept -> DOMAIN q] :
                /\ \A i \in DOMAIN kept : kept[i] = q[at[i]]
                /\ \A i, j \in DOMAIN kept : i < j => at[i] < at[j]
<1> DEFINE I == PromptPack(q, b)
           kept == Keep(q, I)
<1>1. I \in SUBSET DOMAIN q /\ PackFloor(q) \subseteq I
  BY PackKeepsTheFloor
<1> HIDE DEF I
<1>2. /\ kept \in Seq(DOMAIN span) /\ ToSet(kept) = {q[i] : i \in I}
      /\ \E at \in [DOMAIN kept -> DOMAIN q] :
           /\ \A i \in DOMAIN kept : kept[i] = q[at[i]]
           /\ \A i, j \in DOMAIN kept : i < j => at[i] < at[j]
  BY <1>1, KeepSelects
<1>3. Pages(kept) \subseteq Pages(q)
  BY <1>1, <1>2 DEF Pages, ToSet
<1>4. Pages(q) \subseteq Pages(kept)
  <2> SUFFICES ASSUME NEW p \in Pages(q) PROVE p \in Pages(kept)
    OBVIOUS
  <2>1. PICK i \in PackFloor(q) : span[q[i]].page = p
    BY FloorHasEveryPage
  <2>2. q[i] \in ToSet(kept)
    BY <1>1, <1>2
  <2>3. QED BY <2>1, <2>2 DEF Pages
<1>5. QED BY <1>2, <1>3, <1>4 DEF I

\* what is in view was offered, and an admitted view shows every page
ViewInv ==
  /\ setup \in Setups /\ view \in Seq(DOMAIN span)
  /\ view # <<>> /\ setup.admission =>
       /\ Pages(view) = Pages(Offered)
       /\ setup.ceiling > 0 => PromptTokens(view) <= setup.ceiling
       /\ \E at \in [DOMAIN view -> DOMAIN Offered] :
            /\ \A i \in DOMAIN view : view[i] = Offered[at[i]]
            /\ \A i, j \in DOMAIN view : i < j => at[i] < at[j]

LEMMA ViewKeeps ==
  ASSUME ViewInv, [SelectionNext]_selectionVars
  PROVE  ViewInv'
<1> DEFINE Unmoved == setup' = setup /\ view' = view
<1>1. ASSUME Unmoved PROVE ViewInv'
  <2>1. Offered' = Offered
    BY <1>1 DEF Offered
  <2>2. (PromptTokens(view))' = PromptTokens(view)
    BY <1>1 DEF PromptTokens, SumOver, FoldSet, MapThenFoldSet
  <2>3. (Pages(view))' = Pages(view) /\ (Pages(Offered))' = Pages(Offered)
    BY <1>1, <2>1 DEF Pages
  <2>4. QED BY <1>1, <2>1, <2>2, <2>3 DEF ViewInv
<1>2. ASSUME NEW why, Fail(why) PROVE ViewInv'
  BY <1>1, <1>2 DEF Fail
<1>3. Offered \in Seq(DOMAIN span)
  BY BatchIsSpans DEF ViewInv, Offered
<1>4. CASE ShowAll
  <2>1. CASE \E why : Fail(why)
    BY <1>2, <2>1
  <2>2. CASE Show(Offered)
    BY <1>3, <1>4, <2>2 DEF ShowAll, Show, ViewInv
  <2>3. QED BY <1>4, <2>1, <2>2 DEF ShowAll
<1>5. CASE Admit
  <2> DEFINE kept == Keep(Offered, PromptPack(Offered, room.budget))
  <2>1. CASE \E why : Fail(why)
    BY <1>2, <2>1
  <2>2. CASE Unmoved
    BY <1>1, <2>2
  <2>3. CASE Show(kept) /\ (setup.ceiling = 0 \/ PromptTokens(kept) <= setup.ceiling)
    <3>1. view' = kept /\ setup' = setup
      BY <2>3 DEF Show
    <3>2. /\ kept \in Seq(DOMAIN span) /\ Pages(kept) = Pages(Offered)
          /\ \E at \in [DOMAIN kept -> DOMAIN Offered] :
               /\ \A i \in DOMAIN kept : kept[i] = Offered[at[i]]
               /\ \A i, j \in DOMAIN kept : i < j => at[i] < at[j]
      BY <1>3, AdmittedShowsEveryPage
    <3>3. setup.ceiling > 0 => PromptTokens(kept) <= setup.ceiling
      BY <2>3
    <3> HIDE DEF kept
    <3>4. Offered' = Offered
      BY <3>1 DEF Offered
    <3>5. (PromptTokens(view))' = PromptTokens(kept)
      BY <3>1 DEF PromptTokens, SumOver, FoldSet, MapThenFoldSet
    <3>6. (Pages(view))' = Pages(kept) /\ (Pages(Offered))' = Pages(Offered)
      BY <3>1, <3>4 DEF Pages
    <3>7. QED BY <3>1, <3>2, <3>3, <3>4, <3>5, <3>6 DEF ViewInv
  <2>4. QED BY <1>5, <2>1, <2>2, <2>3 DEF Admit
<1>6. CASE NothingOffered \/ StartAdmission \/ Select
  BY <1>1, <1>6 DEF NothingOffered, StartAdmission, Select
<1>7. CASE SelectorFails \/ DoParse \/ Aggregate \/ Preflight
  BY <1>1, <1>2, <1>7 DEF SelectorFails, DoParse, Aggregate, Preflight
<1>8. CASE UNCHANGED selectionVars
  BY <1>1, <1>8 DEF selectionVars
<1>9. QED BY <1>4, <1>5, <1>6, <1>7, <1>8 DEF SelectionNext

LEMMA ViewStarts == SelectionInit => ViewInv
<1> SUFFICES ASSUME SelectionInit PROVE ViewInv
  OBVIOUS
<1>1. <<>> \in Seq(DOMAIN span)
  OBVIOUS
<1>2. QED BY <1>1 DEF SelectionInit, ViewInv

(* Whatever the batch, the scores, the sizes and the attempts, a prompt    *)
(* that is admitted shows a span of every page of the batch, in the order  *)
(* of the batch, and fits the window of the selector (prompt_pack_v1 and   *)
(* the loop that shrinks its budget).                                      *)
THEOREM AdmittedPromptsShowEveryPage == SelectionSpec => []EveryPageIsShown
<1>1. ViewInv /\ [SelectionNext]_selectionVars => ViewInv'
  BY ViewKeeps
<1>2. ViewInv => EveryPageIsShown
  BY DEF ViewInv, EveryPageIsShown
<1>3. QED BY <1>1, <1>2, ViewStarts, PTL DEF SelectionSpec

-----------------------------------------------------------------------------
(************************** What a selection says **************************)

\* the spans an output names
Named(r) == {view[r.lines[i].label] : i \in DOMAIN r.lines}
\* an output of the closed schema, all of whose labels are in the view
Legible(r) == r.lines \in Seq(Lines) /\ \A i \in DOMAIN r.lines : r.lines[i].label \in DOMAIN view

(* Parsing keeps the spans that were named, each once.                     *)
LEMMA ItemsAreNamed ==
  ASSUME NEW r, Legible(r)
  PROVE  Items(r) \in Seq(Named(r)) /\ ToSet(Items(r)) = Named(r)
<1> DEFINE q == [k \in DOMAIN r.lines |-> view[r.lines[k].label]]
<1>1. DOMAIN r.lines = 1..Len(r.lines) /\ Len(r.lines) \in Nat
  BY LenProperties DEF Legible
<1>2. q \in [1..Len(r.lines) -> Named(r)] /\ ToSet(q) = Named(r)
  BY <1>1 DEF Named, ToSet
<1>3. Items(r) = FirstSeen(q)
  BY DEF Items
<1> HIDE DEF q
<1>4. q \in Seq(Named(r))
  BY <1>1, <1>2, SeqDef
<1>5. QED BY <1>2, <1>3, <1>4, FirstSeenKeeps

\* a bridge that binds something
Bridging == [text : DOMAIN words, cited : Seq(DOMAIN span), on : (SUBSET DOMAIN span) \ {{}}]

LEMMA BridgesBind ==
  ASSUME view \in Seq(DOMAIN span), NEW r \in Outputs, InSet(r)
  PROVE  Bound(r) \in Seq(Bridging)
<1> DEFINE q == [k \in DOMAIN r.bridges |-> Binding(r.bridges[k])]
           Typed == Seq([text : DOMAIN words, labels : Seq(Nat)])
<1>1. r.bridges \in Typed
  <2>1. r.bridges \in BridgeSeqs \/ r.bridges = <<>>
    BY DEF Outputs
  <2>2. <<>> \in Typed
    OBVIOUS
  <2>3. QED BY <2>1, <2>2, OutputsAreFinite
<1>2. DOMAIN r.bridges = 1..Len(r.bridges) /\ Len(r.bridges) \in Nat
  BY <1>1, LenProperties
<1>3. ASSUME NEW k \in DOMAIN r.bridges PROVE Binding(r.bridges[k]) \in Bridging
  <2> DEFINE b == r.bridges[k]
             seen == [i \in DOMAIN b.labels |-> view[b.labels[i]]]
  <2>1. b \in [text : DOMAIN words, labels : Seq(Nat)]
    BY <1>1, <1>2, ElementOfSeq
  <2>2. b \in ToSet(r.bridges)
    BY DEF ToSet
  <2> HIDE DEF b
  <2>3. /\ b.labels # <<>> /\ b.labels \in Seq(Nat) /\ b.text \in DOMAIN words
        /\ \A i \in DOMAIN b.labels : b.labels[i] \in DOMAIN view
    BY <2>1, <2>2 DEF InSet, ToSet
  <2>4. \A i \in DOMAIN view : view[i] \in DOMAIN span
    BY ElementOfSeq, LenProperties
  <2>5. DOMAIN b.labels = 1..Len(b.labels) /\ Len(b.labels) \in Nat
    BY <2>3, LenProperties
  <2>6. seen \in Seq(DOMAIN span)
    BY <2>3, <2>4, <2>5, SeqDef
  <2>7. ToSet(seen) # {}
    <3>1. Len(b.labels) # 0
      BY <2>3, EmptySeq
    <3>2. 1 \in DOMAIN seen
      BY <2>5, <3>1
    <3>3. seen[1] \in ToSet(seen)
      BY <3>2 DEF ToSet
    <3>4. QED BY <3>3
  <2>8. ToSet(seen) \subseteq DOMAIN span
    BY <2>3, <2>4 DEF ToSet
  <2>9. Cited(b) = FirstSeen(seen)
    BY DEF Cited
  <2> HIDE DEF seen
  <2>10. Cited(b) \in Seq(DOMAIN span) /\ ToSet(Cited(b)) = ToSet(seen)
    BY <2>6, <2>9, FirstSeenKeeps
  <2>11. QED BY <2>3, <2>7, <2>8, <2>10 DEF Binding, Bridging, b
<1>4. Bound(r) = FirstSeen(q)
  BY DEF Bound
<1>5. q \in Seq(Bridging)
  BY <1>2, <1>3, SeqDef
<1> HIDE DEF q
<1>6. QED BY <1>4, <1>5, FirstSeenKeeps

\* what an answer of the selector is
LEMMA AnswersAreLines ==
  ASSUME NEW r \in Outputs, InSet(r)
  PROVE  Legible(r)
<1>1. PICK n \in Nat : r.lines \in [1..n -> Lines]
  <2> DEFINE allowed == IF setup.contract = "P1_ID" THEN {l \in Lines : l.role = "background" /\ l.facets = {}}
                        ELSE Lines
             lines == UNION {[1..n -> allowed] : n \in 0..MaxLines}
  <2>1. r.lines \in lines
    BY DEF Outputs
  <2>2. PICK n \in 0..MaxLines : r.lines \in [1..n -> allowed]
    BY <2>1
  <2>3. allowed \subseteq Lines
    OBVIOUS
  <2> HIDE DEF allowed
  <2>4. n \in Nat /\ r.lines \in [1..n -> Lines]
    BY <2>2, <2>3
  <2>5. QED BY <2>4
<1>2. r.lines \in Seq(Lines)
  BY <1>1, SeqDef
<1>3. \A i \in DOMAIN r.lines : r.lines[i] \in ToSet(r.lines)
  BY DEF ToSet
<1>4. QED BY <1>2, <1>3 DEF Legible, InSet

(* Every relation of an output is about a span it names.                   *)
LEMMA RelationsAreOfNamed ==
  ASSUME NEW r, NEW x \in Relations(r)
  PROVE  x[1] \in Named(r)
<1>1. PICK l \in ToSet(r.lines) : x \in {<<view[l.label], f, l.role>> : f \in FacetsOf(l)}
  BY DEF Relations
<1>2. x[1] = view[l.label]
  BY <1>1
<1>3. PICK i \in DOMAIN r.lines : r.lines[i] = l
  BY DEF ToSet
<1>4. QED BY <1>2, <1>3 DEF Named

LEMMA ParsedIsShown ==
  ASSUME NEW r \in Outputs, Readable(r)
  PROVE  /\ ToSet(Parse(r).items) \subseteq ToSet(view)
         /\ \A x \in Parse(r).rel : x[1] \in ToSet(Parse(r).items)
<1>1. Legible(r)
  BY AnswersAreLines DEF Readable
<1>2. ToSet(Items(r)) = Named(r)
  BY <1>1, ItemsAreNamed
<1>3. Named(r) \subseteq ToSet(view)
  BY <1>1 DEF Named, Legible, ToSet
<1>4. Parse(r).items = Items(r) /\ (Parse(r).rel = {} \/ Parse(r).rel = Relations(r))
  BY DEF Parse
<1>5. QED BY <1>2, <1>3, <1>4, RelationsAreOfNamed

\* a selection whose parts are there to be counted
Countable(sel) ==
  /\ sel.items \in Seq(DOMAIN span) /\ \A x \in sel.rel : x[1] \in ToSet(sel.items)
  /\ IsFiniteSet(sel.gaps) /\ sel.bridges \in Seq(Bridging)

LEMMA ParsedIsSound ==
  ASSUME view \in Seq(DOMAIN span), NEW r \in Outputs, Readable(r)
  PROVE  Countable(Parse(r))
<1>1. InSet(r) /\ Legible(r)
  BY AnswersAreLines DEF Readable
<1>2. Items(r) \in Seq(DOMAIN span)
  <2>1. \A i \in DOMAIN view : view[i] \in DOMAIN span
    BY ElementOfSeq, LenProperties
  <2>2. Named(r) \subseteq DOMAIN span
    BY <1>1, <2>1 DEF Named, Legible
  <2>3. Items(r) \in Seq(Named(r))
    BY <1>1, ItemsAreNamed
  <2>4. QED BY <2>2, <2>3
<1>3. \A x \in Parse(r).rel : x[1] \in ToSet(Parse(r).items)
  BY ParsedIsShown
<1>4. IsFiniteSet(r.gaps)
  <2>1. r.gaps \in GapSets \/ r.gaps = {}
    BY DEF Outputs
  <2>2. QED BY <2>1, FS_EmptySet, OutputsAreFinite
<1>5. Bound(r) \in Seq(Bridging)
  BY <1>1, BridgesBind
<1>6. Parse(r).items = Items(r) /\ Parse(r).gaps = r.gaps /\ Parse(r).bridges = Bound(r)
  BY DEF Parse
<1>7. QED BY <1>2, <1>3, <1>4, <1>5, <1>6 DEF Countable

-----------------------------------------------------------------------------
(****************************** What it costs ******************************)

\* bridges one by one
Supports(g, q, kept) ==
  g = [s \in SUBSET DOMAIN q |->
         IF s = {} THEN <<>>
         ELSE IF q[Max(s)].on \subseteq kept THEN Append(g[s \ {Max(s)}], q[Max(s)]) ELSE g[s \ {Max(s)}]]

(* The bridges of an evidence are bound by it.                             *)
LEMMA SupportedBind ==
  ASSUME NEW sel, sel.bridges \in Seq(Bridging), NEW kept
  PROVE  /\ Supported(sel, kept) \in Seq(Bridging)
         /\ \A b \in ToSet(Supported(sel, kept)) : b.on \subseteq kept
<1> DEFINE q == sel.bridges
           D == DOMAIN q
           X == Seq(Bridging)
           P(g) == Supports(g, q, kept)
           joined(v, b) == IF b.on \subseteq kept THEN Append(v, b) ELSE v
           step == [z \in X \X Bridging |-> joined(z[1], z[2])]
<1>1. q \in Seq(Bridging) /\ (\A i \in D : q[i] \in Bridging) /\ \A s \in SUBSET D : s # {} => Max(s) \in s
  BY ElementOfSeq, LenProperties, Places
<1>2. \A v \in X, b \in Bridging : joined(v, b) \in X
  BY AppendedElements
<1>3. step \in [X \X Bridging -> X] /\ \A v \in X, b \in Bridging : step[<<v, b>>] = joined(v, b)
  <2> HIDE DEF joined
  <2>1. QED BY <1>2
<1>4. <<>> \in X /\ ToSet(<<>>) = {}
  BY DEF ToSet
<1> HIDE DEF step, X
<1>5. \E g : P(g)
  <2> HIDE DEF q
  <2>1. PICK g \in [SUBSET D -> X] : Passes(g, q, <<>>, step)
    BY <1>1, <1>3, <1>4, PassesExists
  <2>2. ASSUME NEW s \in SUBSET D, s # {}
        PROVE  step[<<g[s \ {Max(s)}], q[Max(s)]>>] = joined(g[s \ {Max(s)}], q[Max(s)])
    <3>1. s \ {Max(s)} \in SUBSET D /\ Max(s) \in D
      BY <1>1, <2>2
    <3>2. g[s \ {Max(s)}] \in X /\ q[Max(s)] \in Bridging
      BY <1>1, <3>1
    <3> HIDE DEF joined
    <3>3. QED BY <1>3, <3>2
  <2>3. g = [s \in SUBSET D |-> IF s = {} THEN <<>> ELSE joined(g[s \ {Max(s)}], q[Max(s)])]
    <3> HIDE DEF joined
    <3>1. QED BY <2>1, <2>2 DEF Passes
  <2>4. QED BY <2>3 DEF Supports
<1>6. Supported(sel, kept) = (CHOOSE g : P(g))[D]
  BY DEF Supported, FoldLeft, MapThenFoldSet, Supports
<1> DEFINE G == CHOOSE g : P(g)
           I == {v \in X : \A b \in ToSet(v) : b.on \subseteq kept}
<1>7. P(G)
  <2> HIDE DEF P
  <2>1. QED BY <1>5
<1>8. G[{}] = <<>> /\ \A s \in SUBSET D : s # {} => G[s] = joined(G[s \ {Max(s)}], q[Max(s)])
  <2> HIDE DEF G
  <2>1. G = [s \in SUBSET D |-> IF s = {} THEN <<>> ELSE joined(G[s \ {Max(s)}], q[Max(s)])]
    BY <1>7 DEF Supports
  <2> HIDE DEF joined
  <2>2. QED BY <2>1
<1> HIDE DEF G, P
<1>9. G[{}] \in I
  BY <1>4, <1>8
<1>10. ASSUME NEW s \in SUBSET D, s # {}, Max(s) \in s, G[s \ {Max(s)}] \in I
       PROVE  G[s] \in I
  <2> DEFINE v == G[s \ {Max(s)}]
             b == q[Max(s)]
  <2>1. v \in X /\ b \in Bridging /\ G[s] = joined(v, b) /\ \A c \in ToSet(v) : c.on \subseteq kept
    BY <1>1, <1>8, <1>10
  <2> HIDE DEF v, b
  <2>2. CASE b.on \subseteq kept
    <3>1. G[s] = Append(v, b) /\ Append(v, b) \in X /\ ToSet(Append(v, b)) = ToSet(v) \cup {b}
      BY <2>1, <2>2, AppendedElements DEF X
    <3>2. QED BY <2>1, <2>2, <3>1
  <2>3. CASE ~(b.on \subseteq kept)
    BY <2>1, <2>3
  <2>4. QED BY <2>2, <2>3
<1>11. G[D] \in I
  <2> HIDE DEF I, q
  <2>1. QED BY <1>1, <1>9, <1>10, PassesKeep
<1>12. QED BY <1>6, <1>11 DEF G, X

LEMMA NothingSupportsNothing ==
  ASSUME NEW sel, sel.bridges \in Seq(Bridging)
  PROVE  Supported(sel, {}) = <<>>
<1> DEFINE q == Supported(sel, {})
<1>1. q \in Seq(Bridging) /\ \A b \in ToSet(q) : b.on \subseteq {}
  BY SupportedBind
<1> HIDE DEF q
<1>2. \A i \in DOMAIN q : q[i] \in Bridging /\ q[i] \in ToSet(q)
  BY <1>1, ElementOfSeq, LenProperties DEF ToSet
<1>3. DOMAIN q = {}
  BY <1>1, <1>2 DEF Bridging
<1>4. q = <<>>
  BY <1>1, <1>3, LenProperties, EmptySeq
<1>5. QED BY <1>4 DEF q

\* the sizes of a set of spans, span by span
Weighs(g, S) ==
  g = [s \in SUBSET S |-> IF s = {} THEN 0
                          ELSE span[CHOOSE x \in s : TRUE].tokens + g[s \ {CHOOSE x \in s : TRUE}]]

LEMMA SizesAddUp ==
  ASSUME NEW S \in SUBSET DOMAIN span, IsFiniteSet(S)
  PROVE  /\ SumOver(S, LAMBDA s : span[s].tokens) \in Nat
         /\ S = {} => SumOver(S, LAMBDA s : span[s].tokens) = 0
<1> DEFINE P(g) == Weighs(g, S)
           pick == [s \in SUBSET S |-> CHOOSE x \in s : TRUE]
           step == [z \in S \X Nat |-> span[z[1]].tokens + z[2]]
<1>1. \A s \in SUBSET S : s # {} => pick[s] \in s
  OBVIOUS
<1>2. \A s \in SUBSET S : pick[s] = CHOOSE x \in s : TRUE
  OBVIOUS
<1>3. \A x \in S, n \in Nat : span[x].tokens + n \in Nat
  BY SizesAreCounts
<1>4. step \in [S \X Nat -> Nat] /\ \A x \in S, n \in Nat : step[<<x, n>>] = span[x].tokens + n
  BY <1>3
<1>5. PICK h \in [SUBSET S -> Nat] : IsFold(h, S, 0, step, pick)
  <2> HIDE DEF step, pick
  <2>1. 0 \in Nat
    OBVIOUS
  <2>2. QED BY <1>1, <1>4, <2>1, FoldExists
<1> HIDE DEF step
<1>6. ASSUME NEW s \in SUBSET S, s # {}
      PROVE  /\ pick[s] \in S /\ h[s \ {pick[s]}] \in Nat
             /\ step[<<pick[s], h[s \ {pick[s]}]>>]
                  = span[CHOOSE x \in s : TRUE].tokens + h[s \ {CHOOSE x \in s : TRUE}]
  <2>1. pick[s] \in S /\ s \ {pick[s]} \in SUBSET S
    BY <1>1, <1>6
  <2> HIDE DEF pick
  <2>2. h[s \ {pick[s]}] \in Nat
    BY <2>1
  <2>3. QED BY <1>2, <1>4, <2>1, <2>2
<1> HIDE DEF pick
<1>7. P(h)
  <2>1. h = [s \in SUBSET S |-> IF s = {} THEN 0 ELSE step[<<pick[s], h[s \ {pick[s]}]>>]]
    BY <1>5 DEF IsFold
  <2>2. QED BY <1>6, <2>1 DEF Weighs
<1>8. SumOver(S, LAMBDA s : span[s].tokens) = (CHOOSE g : P(g))[S]
  BY DEF SumOver, FoldSet, MapThenFoldSet, Weighs
<1> DEFINE G == CHOOSE g : P(g)
           B == {s \in SUBSET S : G[s] \notin Nat}
<1>9. P(G)
  <2> HIDE DEF P
  <2>1. QED BY <1>7
<1>10. /\ G[{}] = 0
       /\ \A s \in SUBSET S : s # {} => G[s] = span[pick[s]].tokens + G[s \ {pick[s]}]
  <2> HIDE DEF G
  <2>1. QED BY <1>2, <1>9 DEF Weighs
<1> HIDE DEF G, P
<1>11. B = {}
  <2>1. SUFFICES ASSUME B # {} PROVE FALSE
    OBVIOUS
  <2>2. PICK s \in B : \A x \in s : s \ {x} \notin B
    <3> HIDE DEF B
    <3>1. B \subseteq SUBSET S
      BY DEF B
    <3>2. QED BY <2>1, <3>1, MinimalSubset
  <2>3. s # {}
    <3>1. G[s] \notin Nat
      BY <2>2
    <3>2. G[{}] \in Nat
      BY <1>10
    <3> HIDE DEF B
    <3>3. QED BY <3>1, <3>2
  <2>4. pick[s] \in S /\ pick[s] \in s /\ G[s \ {pick[s]}] \in Nat
    BY <1>1, <1>2, <2>2, <2>3
  <2>5. G[s] = span[pick[s]].tokens + G[s \ {pick[s]}]
    BY <1>10, <2>2, <2>3
  <2>6. G[s] \in Nat
    BY <1>3, <2>4, <2>5
  <2>7. QED BY <2>2, <2>6
<1>12. G[S] \in Nat
  BY <1>11
<1>13. QED BY <1>8, <1>10, <1>12 DEF G

\* the words of the bridges, one by one
Tells(g, q) ==
  g = [s \in SUBSET DOMAIN q |-> IF s = {} THEN 0 ELSE g[s \ {Max(s)}] + words[q[Max(s)].text]]

LEMMA WordsAddUp ==
  ASSUME NEW q \in Seq(Bridging)
  PROVE  Words(q) \in Nat /\ (q = <<>> => Words(q) = 0)
<1> DEFINE D == DOMAIN q
           P(g) == Tells(g, q)
           step == [z \in Nat \X Bridging |-> z[1] + words[z[2].text]]
<1>1. (\A i \in D : q[i] \in Bridging) /\ \A s \in SUBSET D : s # {} => Max(s) \in s
  BY ElementOfSeq, LenProperties, Places
<1>2. \A n \in Nat, b \in Bridging : n + words[b.text] \in Nat
  BY SizesAreCounts DEF Bridging
<1>3. step \in [Nat \X Bridging -> Nat] /\ \A n \in Nat, b \in Bridging : step[<<n, b>>] = n + words[b.text]
  BY <1>2
<1> HIDE DEF step
<1>4. \E g : P(g)
  <2>1. PICK g \in [SUBSET D -> Nat] : Passes(g, q, 0, step)
    <3>1. 0 \in Nat
      OBVIOUS
    <3>2. QED BY <1>3, <3>1, PassesExists
  <2>2. ASSUME NEW s \in SUBSET D, s # {}
        PROVE  step[<<g[s \ {Max(s)}], q[Max(s)]>>] = g[s \ {Max(s)}] + words[q[Max(s)].text]
    <3>1. s \ {Max(s)} \in SUBSET D /\ Max(s) \in D
      BY <1>1, <2>2
    <3>2. g[s \ {Max(s)}] \in Nat /\ q[Max(s)] \in Bridging
      BY <1>1, <3>1
    <3>3. QED BY <1>3, <3>2
  <2>3. g = [s \in SUBSET D |-> IF s = {} THEN 0 ELSE g[s \ {Max(s)}] + words[q[Max(s)].text]]
    BY <2>1, <2>2 DEF Passes
  <2>4. QED BY <2>3 DEF Tells
<1>5. Words(q) = (CHOOSE g : P(g))[D]
  BY DEF Words, FoldLeft, MapThenFoldSet, Tells
<1> DEFINE G == CHOOSE g : P(g)
<1>6. P(G)
  <2> HIDE DEF P
  <2>1. QED BY <1>4
<1>7. /\ G[{}] = 0
      /\ \A s \in SUBSET D : s # {} => G[s] = G[s \ {Max(s)}] + words[q[Max(s)].text]
  <2> HIDE DEF G
  <2>1. QED BY <1>6 DEF Tells
<1> HIDE DEF G, P
<1>8. G[{}] \in Nat
  BY <1>7
<1>9. ASSUME NEW s \in SUBSET D, s # {}, Max(s) \in s, G[s \ {Max(s)}] \in Nat
      PROVE  G[s] \in Nat
  <2>1. Max(s) \in D /\ q[Max(s)] \in Bridging
    BY <1>1, <1>9
  <2>2. G[s] = G[s \ {Max(s)}] + words[q[Max(s)].text]
    BY <1>7, <1>9
  <2>3. QED BY <1>2, <1>9, <2>1, <2>2
<1>10. G[D] \in Nat
  BY <1>8, <1>9, PassesKeep
<1>11. q = <<>> => D = {}
  OBVIOUS
<1>12. QED BY <1>5, <1>7, <1>10, <1>11 DEF G

(* What is published has a size, and nothing costs its gaps.               *)
LEMMA CostIsACount ==
  ASSUME NEW sel, IsFiniteSet(sel.gaps), NEW kept \in SUBSET DOMAIN span, IsFiniteSet(kept),
         NEW q \in Seq(Bridging)
  PROVE  /\ Cost(sel, kept, q) \in Nat
         /\ kept = {} /\ q = <<>> => Cost(sel, kept, q) = Cardinality(sel.gaps)
<1> DEFINE t == SumOver(kept, LAMBDA s : span[s].tokens)
           h == Cardinality(RunHeads(kept))
           c == Cardinality(sel.gaps)
           w == Words(q)
<1>1. t \in Nat /\ (kept = {} => t = 0)
  BY SizesAddUp
<1>2. h \in Nat /\ (kept = {} => h = 0)
  <2>1. RunHeads(kept) \subseteq kept
    BY DEF RunHeads
  <2>2. IsFiniteSet(RunHeads(kept))
    BY <2>1, FS_Subset
  <2>3. QED BY <2>1, <2>2, FS_EmptySet, FS_CardinalityType
<1>3. c \in Nat
  BY FS_CardinalityType
<1>4. w \in Nat /\ (q = <<>> => w = 0)
  BY WordsAddUp
<1>5. Cost(sel, kept, q) = t + Header * h + c + w
  BY DEF Cost
<1>6. Header \in Nat
  BY SizesAreCounts
<1> HIDE DEF t, h, c, w
<1>7. Header * h \in Nat /\ (kept = {} => Header * h = 0)
  BY <1>2, <1>6
<1>8. t + Header * h + c + w \in Nat /\ (kept = {} /\ q = <<>> => t + Header * h + c + w = c)
  BY <1>1, <1>3, <1>4, <1>7
<1>9. QED BY <1>5, <1>8 DEF c

-----------------------------------------------------------------------------
(******************************** The pack *********************************)

LEMMA IndexFinds ==
  ASSUME NEW q \in Seq(DOMAIN span), NEW s \in ToSet(q)
  PROVE  Index(q, s) \in Nat /\ q[Index(q, s)] = s
<1> DEFINE I == {i \in 1..Len(q) : q[i] = s}
<1>1. DOMAIN q = 1..Len(q) /\ Len(q) \in Nat
  BY LenProperties
<1>2. I # {} /\ I \subseteq Nat
  BY <1>1 DEF ToSet
<1>3. Index(q, s) = Min(I)
  BY <1>2 DEF Index, SelectInSeq
<1>4. Min(I) \in I
  <2> HIDE DEF I
  <2>1. QED BY <1>2, LeastOfNumbers
<1>5. QED BY <1>1, <1>3, <1>4

LEMMA RanksAreNumbers ==
  ASSUME NEW sel, NEW s
  PROVE  Rank(sel, s) \in Nat
<1> DEFINE S == {RoleRank(r) : r \in RolesOf(sel, s)} \cup (IF RolesOf(sel, s) = {} THEN {2} ELSE {})
<1>1. \A r : RoleRank(r) \in Nat
  BY DEF RoleRank
<1>2. S \subseteq Nat /\ S # {}
  BY <1>1
<1>3. Rank(sel, s) = Min(S)
  BY DEF Rank
<1> HIDE DEF S
<1>4. QED BY <1>2, <1>3, LeastOfNumbers

(* Where the selector's own order counts, it is the whole order.           *)
LEMMA OwnOrder ==
  ASSUME NEW sel, sel.items \in Seq(DOMAIN span), NEW s \in ToSet(sel.items), NEW t \in ToSet(sel.items)
  PROVE  Ahead(sel, TRUE, s, t) <=> Index(sel.items, s) < Index(sel.items, t)
<1> DEFINE a == Index(sel.items, s)
           b == Index(sel.items, t)
<1>1. a \in Nat /\ b \in Nat /\ (a = b => s = t)
  BY IndexFinds
<1>2. s \in DOMAIN span /\ t \in DOMAIN span
  BY ElementOfSeq, LenProperties DEF ToSet
<1>3. /\ Rank(sel, s) \in Nat /\ Rank(sel, t) \in Nat
      /\ span[s].place \in Int /\ span[t].place \in Int
  BY <1>2, RanksAreNumbers, SizesAreCounts
<1>4. Ahead(sel, TRUE, s, t) <=>
        \/ a < b
        \/ a = b /\ Rank(sel, s) < Rank(sel, t)
        \/ a = b /\ Rank(sel, s) = Rank(sel, t) /\ span[s].place < span[t].place
  BY DEF Ahead, Before
<1> HIDE DEF a, b
<1>5. a = b => ~(Rank(sel, s) < Rank(sel, t)) /\ ~(span[s].place < span[t].place)
  BY <1>1, <1>3
<1>6. QED BY <1>4, <1>5 DEF a, b

(* Two units that share a span are one.                                    *)
LEMMA UnitsAreApart ==
  ASSUME NEW sel, NEW U \in Units(sel), NEW V \in Units(sel), U \cap V # {}
  PROVE  U = V
<1> DEFINE closed == {W \in SUBSET ToSet(sel.items) : W # {} /\ Tied(sel, W)}
           W == U \cap V
<1>1. U \in closed /\ V \in closed /\ \A T \in closed : (T \subseteq U => T = U) /\ (T \subseteq V => T = V)
  BY DEF Units
<1>2. Tied(sel, W)
  BY <1>1 DEF Tied
<1>3. W \in closed
  BY <1>1, <1>2
<1>4. QED BY <1>1, <1>3

LEMMA LeadIsOfTheUnit ==
  ASSUME NEW sel, sel.items \in Seq(DOMAIN span), NEW U \in Units(sel)
  PROVE  Lead(sel, U) \in U /\ U \subseteq ToSet(sel.items)
<1> DEFINE at(s) == Index(sel.items, s)
           T == {at(s) : s \in U}
<1>1. U # {} /\ U \subseteq ToSet(sel.items)
  BY DEF Units
<1>2. \A s \in U : at(s) \in Nat /\ sel.items[at(s)] = s
  BY <1>1, IndexFinds
<1>3. PICK n \in T : \A m \in T : n <= m
  <2>1. T \subseteq Nat /\ T # {}
    BY <1>1, <1>2
  <2> HIDE DEF T
  <2>2. QED BY <2>1, LeastNatural
<1>4. PICK s \in U : at(s) = n
  OBVIOUS
<1>5. \A t \in U : s = t \/ at(s) < at(t)
  <2> TAKE t \in U
  <2>1. at(s) <= at(t) /\ at(s) \in Nat /\ at(t) \in Nat
    BY <1>2, <1>3, <1>4
  <2>2. at(s) = at(t) => s = t
    BY <1>2
  <2> HIDE DEF at
  <2>3. QED BY <2>1, <2>2
<1>6. \A t \in U : s = t \/ Ahead(sel, TRUE, s, t)
  BY <1>1, <1>5, OwnOrder
<1>7. QED BY <1>1, <1>4, <1>6 DEF Lead

(* The units of a selection, in the order of their leads.                  *)
LEMMA UnitsListed ==
  ASSUME NEW sel, sel.items \in Seq(DOMAIN span)
  PROVE  Sorted(Units(sel), LAMBDA U, V : Ahead(sel, TRUE, Lead(sel, U), Lead(sel, V))) \in Seq(Units(sel))
<1> DEFINE S == Units(sel)
           m == [U \in S |-> Index(sel.items, Lead(sel, U))]
           R == {x \in S \X S : m[x[1]] < m[x[2]]}
           T == {x \in S \X S : Ahead(sel, TRUE, Lead(sel, x[1]), Lead(sel, x[2]))}
<1>1. \A U \in S : Lead(sel, U) \in U /\ Lead(sel, U) \in ToSet(sel.items)
  BY LeadIsOfTheUnit
<1>2. \A U \in S : m[U] \in Nat /\ sel.items[m[U]] = Lead(sel, U)
  BY <1>1, IndexFinds
<1>3. \A U, V \in S : m[U] = m[V] => U = V
  <2> TAKE U, V \in S
  <2> HAVE m[U] = m[V]
  <2>1. Lead(sel, U) = Lead(sel, V)
    BY <1>2
  <2>2. U \cap V # {}
    BY <1>1, <2>1
  <2>3. QED BY <2>2, UnitsAreApart
<1>4. T = R
  <2>1. \A U, V \in S : Ahead(sel, TRUE, Lead(sel, U), Lead(sel, V)) <=> m[U] < m[V]
    BY <1>1, OwnOrder
  <2> HIDE DEF S, m
  <2>2. QED BY <2>1
<1>5. IsFiniteSet(S)
  <2>1. IsFiniteSet(ToSet(sel.items))
    <3>1. IsFiniteSet(DOMAIN sel.items)
      BY Places
    <3>2. ToSet(sel.items) = {sel.items[i] : i \in DOMAIN sel.items}
      BY DEF ToSet
    <3>3. QED BY <3>1, <3>2, ImageFinite
  <2>2. IsFiniteSet(SUBSET ToSet(sel.items))
    BY <2>1, FS_SUBSET
  <2>3. S \subseteq SUBSET ToSet(sel.items)
    BY DEF Units
  <2>4. QED BY <2>2, <2>3, FS_Subset
<1> HIDE DEF S, m
<1>6. Orders(R, S)
  <2>1. R = {p \in S \X S : m[p[1]] < m[p[2]]}
    OBVIOUS
  <2>2. \A x \in S : m[x] \in Int
    BY <1>2
  <2>3. \A x, y \in S : m[x] = m[y] => x = y
    BY <1>3
  <2> HIDE DEF R
  <2>4. QED BY <2>1, <2>2, <2>3, NumbersOrder
<1>7. SortedBy(S, R) \in Seq(S)
  BY <1>5, <1>6, SortedLists
<1>8. Sorted(Units(sel), LAMBDA U, V : Ahead(sel, TRUE, Lead(sel, U), Lead(sel, V))) = SortedBy(S, T)
  BY DEF Sorted, S
<1>9. QED BY <1>4, <1>7, <1>8 DEF S

\* a unit more, if all of it fits
Loaded(sel, b, kept, U) == IF CostOf(sel, kept \cup U) <= b THEN kept \cup U ELSE kept
Loads(g, sel, b, q) ==
  g = [s \in SUBSET DOMAIN q |-> IF s = {} THEN {} ELSE Loaded(sel, b, g[s \ {Max(s)}], q[Max(s)])]

(* What a pack keeps is a union of units, and empty or inside the budget.  *)
LEMMA PackOfUnits ==
  ASSUME NEW sel, sel.items \in Seq(DOMAIN span)
  PROVE  LET kept == BudgetPack(sel).items IN
           /\ kept \subseteq ToSet(sel.items) /\ Tied(sel, kept)
           /\ kept = {} \/ CostOf(sel, kept) <= setup.budget
<1> DEFINE q == Sorted(Units(sel), LAMBDA U, V : Ahead(sel, TRUE, Lead(sel, U), Lead(sel, V)))
           D == DOMAIN q
           X == SUBSET ToSet(sel.items)
           b == setup.budget
           P(g) == Loads(g, sel, b, q)
           step == [z \in X \X Units(sel) |-> Loaded(sel, b, z[1], z[2])]
<1>1. q \in Seq(Units(sel))
  BY UnitsListed
<1>2. BudgetPack(sel).items = (CHOOSE g : P(g))[D]
  BY DEF BudgetPack, Evidence, FoldLeft, MapThenFoldSet, Loads, Loaded
<1> HIDE DEF q
<1>3. (\A i \in D : q[i] \in Units(sel)) /\ \A s \in SUBSET D : s # {} => Max(s) \in s
  BY <1>1, ElementOfSeq, LenProperties, Places
<1>4. \A U \in Units(sel) : U \in X /\ Tied(sel, U)
  BY DEF Units
<1>5. \A kept \in X, U \in Units(sel) : Loaded(sel, b, kept, U) \in X
  BY <1>4 DEF Loaded
<1>6. step \in [X \X Units(sel) -> X] /\ \A kept \in X, U \in Units(sel) : step[<<kept, U>>] = Loaded(sel, b, kept, U)
  BY <1>5
<1> HIDE DEF step
<1>7. \E g : P(g)
  <2>1. PICK g \in [SUBSET D -> X] : Passes(g, q, {}, step)
    <3>1. {} \in X
      OBVIOUS
    <3> HIDE DEF X
    <3>2. QED BY <1>1, <1>6, <3>1, PassesExists
  <2>2. ASSUME NEW s \in SUBSET D, s # {}
        PROVE  step[<<g[s \ {Max(s)}], q[Max(s)]>>] = Loaded(sel, b, g[s \ {Max(s)}], q[Max(s)])
    <3>1. s \ {Max(s)} \in SUBSET D /\ Max(s) \in D
      BY <1>3, <2>2
    <3>2. g[s \ {Max(s)}] \in X /\ q[Max(s)] \in Units(sel)
      BY <1>3, <3>1
    <3>3. QED BY <1>6, <3>2
  <2>3. g = [s \in SUBSET D |-> IF s = {} THEN {} ELSE Loaded(sel, b, g[s \ {Max(s)}], q[Max(s)])]
    BY <2>1, <2>2 DEF Passes
  <2>4. QED BY <2>3 DEF Loads
<1> DEFINE G == CHOOSE g : P(g)
           Affordable == {kept \in X : Tied(sel, kept) /\ (kept = {} \/ CostOf(sel, kept) <= b)}
<1>8. P(G)
  <2> HIDE DEF P
  <2>1. QED BY <1>7
<1>9. /\ G[{}] = {}
      /\ \A s \in SUBSET D : s # {} => G[s] = Loaded(sel, b, G[s \ {Max(s)}], q[Max(s)])
  <2> HIDE DEF G
  <2>1. QED BY <1>8 DEF Loads
<1> HIDE DEF G, P
<1>10. G[{}] \in Affordable
  <2>1. Tied(sel, {})
    BY DEF Tied
  <2>2. QED BY <1>9, <2>1
<1>11. ASSUME NEW s \in SUBSET D, s # {}, Max(s) \in s, G[s \ {Max(s)}] \in Affordable
       PROVE  G[s] \in Affordable
  <2> DEFINE kept == G[s \ {Max(s)}]
             U == q[Max(s)]
  <2>1. kept \in X /\ Tied(sel, kept) /\ (kept = {} \/ CostOf(sel, kept) <= b)
    BY <1>11
  <2>2. U \in X /\ Tied(sel, U) /\ G[s] = Loaded(sel, b, kept, U)
    BY <1>3, <1>4, <1>9, <1>11
  <2> HIDE DEF kept, U, X
  <2>3. Tied(sel, kept \cup U)
    <3> DEFINE on(f) == {x[1] : x \in {y \in sel.rel : y[2] = f}}
    <3>1. \A f \in Conflicts(sel) : on(f) \subseteq kept \/ on(f) \cap kept = {}
      BY <2>1 DEF Tied
    <3>2. \A f \in Conflicts(sel) : on(f) \subseteq U \/ on(f) \cap U = {}
      BY <2>2 DEF Tied
    <3>3. \A f \in Conflicts(sel) : on(f) \subseteq kept \cup U \/ on(f) \cap (kept \cup U) = {}
      <4> HIDE DEF on
      <4>1. QED BY <3>1, <3>2
    <3>4. QED BY <3>3 DEF Tied
  <2>4. kept \cup U \in X
    BY <2>1, <2>2 DEF X
  <2>5. G[s] = kept \/ (G[s] = kept \cup U /\ CostOf(sel, kept \cup U) <= b)
    BY <2>2 DEF Loaded
  <2>6. QED BY <2>1, <2>3, <2>4, <2>5
<1>12. G[D] \in Affordable
  <2> HIDE DEF Affordable
  <2>1. QED BY <1>1, <1>10, <1>11, PassesKeep
<1>13. QED BY <1>2, <1>12 DEF G

(* The whole of a pack: the budget, the sides, and when it is refused.     *)
LEMMA PackIsWhole ==
  ASSUME NEW sel, Countable(sel), sel.items # <<>>, setup \in Setups
  PROVE  LET ev == BudgetPack(sel) IN
           /\ Cost(sel, ev.items, ev.bridges) > setup.budget => Cardinality(sel.gaps) > setup.budget
           /\ ~(Cost(sel, ev.items, ev.bridges) > setup.budget) => Cost(sel, ev.items, ev.bridges) <= setup.budget
           /\ \A x, y \in sel.rel : x[2] = y[2] /\ x[3] = "support" /\ y[3] = "contradict"
                                    => (x[1] \in ev.items <=> y[1] \in ev.items)
<1> DEFINE kept == BudgetPack(sel).items
           cost == Cost(sel, kept, BudgetPack(sel).bridges)
<1>1. kept \subseteq ToSet(sel.items) /\ Tied(sel, kept) /\ (kept = {} \/ CostOf(sel, kept) <= setup.budget)
  BY PackOfUnits DEF Countable
<1>2. BudgetPack(sel).bridges = Supported(sel, kept)
  BY DEF BudgetPack, Evidence
<1> HIDE DEF kept
<1>3. cost = CostOf(sel, kept)
  BY <1>2 DEF CostOf
<1>4. Supported(sel, kept) \in Seq(Bridging) /\ (kept = {} => Supported(sel, kept) = <<>>)
  BY SupportedBind, NothingSupportsNothing DEF Countable
<1>5. kept \in SUBSET DOMAIN span /\ IsFiniteSet(kept)
  <2>1. IsFiniteSet(DOMAIN sel.items) /\ \A i \in DOMAIN sel.items : sel.items[i] \in DOMAIN span
    BY Places, ElementOfSeq, LenProperties DEF Countable
  <2>2. ToSet(sel.items) = {sel.items[i] : i \in DOMAIN sel.items}
    BY DEF ToSet
  <2>3. IsFiniteSet(ToSet(sel.items))
    BY <2>1, <2>2, ImageFinite
  <2>4. QED BY <1>1, <2>1, <2>2, <2>3, FS_Subset
<1>6. cost \in Nat /\ (kept = {} => cost = Cardinality(sel.gaps))
  <2>1. IsFiniteSet(sel.gaps)
    BY DEF Countable
  <2>2. QED BY <1>2, <1>4, <1>5, <2>1, CostIsACount
<1>7. setup.budget \in Int
  BY SizesAreCounts
<1> HIDE DEF cost
<1>8. cost > setup.budget => Cardinality(sel.gaps) > setup.budget
  <2>1. CASE kept = {}
    BY <1>6, <2>1
  <2>2. CASE kept # {}
    BY <1>1, <1>3, <1>6, <1>7, <2>2
  <2>3. QED BY <2>1, <2>2
<1>9. ~(cost > setup.budget) => cost <= setup.budget
  BY <1>6, <1>7
<1>10. ASSUME NEW x \in sel.rel, NEW y \in sel.rel, x[2] = y[2], x[3] = "support", y[3] = "contradict"
       PROVE  x[1] \in kept <=> y[1] \in kept
  <2> DEFINE f == x[2]
             on == {z[1] : z \in {w \in sel.rel : w[2] = f}}
  <2>1. x[1] \in ToSet(sel.items) /\ y[1] \in ToSet(sel.items)
    BY DEF Countable
  <2>2. {"support", "contradict"} \subseteq RolesOn(sel, ToSet(sel.items), f)
    BY <1>10, <2>1 DEF RolesOn
  <2>3. f \in Conflicts(sel)
    BY <2>2 DEF Conflicts
  <2>4. on \subseteq kept \/ on \cap kept = {}
    BY <1>1, <2>3 DEF Tied
  <2>5. x[1] \in on /\ y[1] \in on
    BY <1>10
  <2> HIDE DEF on
  <2>6. QED BY <2>4, <2>5
<1>11. QED BY <1>8, <1>9, <1>10 DEF kept, cost

\* what a packed arm holds and has been refused for
PackOk(sel, ev) ==
  /\ Cost(sel, ev.items, ev.bridges) <= setup.budget
  /\ \A x, y \in sel.rel :
       x[2] = y[2] /\ x[3] = "support" /\ y[3] = "contradict" => (x[1] \in ev.items <=> y[1] \in ev.items)
PackInv ==
  /\ ViewInv
  /\ pc = "parse" => raw \in Outputs
  /\ pc = "aggregate" => Countable(selection)
  /\ pc \in {"start", "admit"} => selection.items = <<>>
  /\ pc # "failed" => failure = ""
  /\ setup.aggregation = "budget_pack_v1" =>
       /\ Staged /\ selection.items # <<>> => PackOk(selection, evidence)
       /\ failure = "AGGREGATION" => Cardinality(selection.gaps) > setup.budget

LEMMA PackKeeps ==
  ASSUME PackInv, [SelectionNext]_selectionVars
  PROVE  PackInv'
<1>1. ViewInv'
  BY ViewKeeps DEF PackInv
<1> DEFINE Still == UNCHANGED <<setup, selection, evidence>>
<1>2. ASSUME Still PROVE (PackOk(selection, evidence))' <=> PackOk(selection, evidence)
  BY <1>2 DEF PackOk
<1>3. ASSUME NEW why \in {"PROMPT_INFEASIBLE", "SELECTOR_ERROR", "CONTRACT"}, Fail(why), pc # "preflight"
      PROVE  PackInv'
  BY <1>1, <1>3 DEF Fail, PackInv, Staged
<1>4. ASSUME NEW q, Show(q), pc \in {"start", "admit"} PROVE PackInv'
  BY <1>1, <1>4 DEF Show, PackInv, Staged
<1>5. CASE NothingOffered
  BY <1>1, <1>5 DEF NothingOffered, PackInv, Staged
<1>6. CASE ShowAll
  BY <1>3, <1>4, <1>6 DEF ShowAll
<1>7. CASE StartAdmission
  BY <1>1, <1>7 DEF StartAdmission, PackInv, Staged
<1>8. CASE Admit
  <2>1. CASE UNCHANGED <<setup, pc, view, raw, selection, evidence, failure>>
    <3>1. pc = "admit" /\ pc' = "admit"
      BY <1>8, <2>1 DEF Admit
    <3>2. QED BY <1>1, <2>1, <3>1 DEF PackInv, Staged
  <2>2. CASE Fail("PROMPT_INFEASIBLE")
    BY <1>3, <1>8, <2>2 DEF Admit
  <2>3. CASE \E q : Show(q)
    BY <1>4, <1>8, <2>3 DEF Admit
  <2>4. QED BY <1>8, <2>1, <2>2, <2>3 DEF Admit
<1>9. CASE Select
  <2>1. pc = "select" /\ pc' = "parse" /\ raw' \in Outputs /\ UNCHANGED <<setup, view, selection, evidence, failure>>
    BY <1>9 DEF Select
  <2>2. (raw \in Outputs)'
    BY <2>1 DEF Outputs
  <2>3. QED BY <1>1, <2>1, <2>2 DEF PackInv, Staged
<1>10. CASE SelectorFails
  BY <1>3, <1>10 DEF SelectorFails
<1>11. CASE DoParse
  <2>1. CASE ~Readable(raw)
    BY <1>3, <1>11, <2>1 DEF DoParse
  <2>2. CASE Readable(raw)
    <3>1. /\ pc = "parse" /\ pc' = "aggregate" /\ selection' = Parse(raw)
          /\ UNCHANGED <<setup, view, evidence, failure>>
      BY <1>11, <2>2 DEF DoParse
    <3>2. Countable(Parse(raw))
      BY <2>2, <3>1, ParsedIsSound DEF PackInv, ViewInv
    <3>3. (Countable(selection))'
      BY <3>1, <3>2 DEF Countable
    <3>4. QED BY <1>1, <3>1, <3>3 DEF PackInv, Staged
  <2>3. QED BY <2>1, <2>2
<1>12. CASE Aggregate
  <2> DEFINE ev == Aggregated(selection)
             over == Cost(selection, ev.items, ev.bridges) > setup.budget
  <2>1. pc = "aggregate" /\ Countable(selection) /\ setup \in Setups /\ failure = ""
    BY <1>12 DEF Aggregate, PackInv, ViewInv
  <2>2. ASSUME setup.aggregation = "budget_pack_v1", selection.items # <<>>
        PROVE  /\ over => Cardinality(selection.gaps) > setup.budget
               /\ ~over => PackOk(selection, ev)
    <3>1. ev = BudgetPack(selection)
      BY <2>2 DEF Aggregated
    <3> HIDE DEF ev
    <3>2. QED BY <2>1, <2>2, <3>1, PackIsWhole DEF PackOk
  <2> HIDE DEF ev
  <2>3. CASE Overshot(selection, ev)
    <3>1. pc' = "failed" /\ failure' = "AGGREGATION" /\ Still
      BY <1>12, <2>3 DEF Aggregate, Fail, ev
    <3>2. setup.aggregation = "budget_pack_v1" /\ selection.items # <<>> /\ over
      BY <2>3 DEF Overshot
    <3>3. QED BY <1>1, <2>2, <3>1, <3>2 DEF PackInv, Staged
  <2>4. CASE ~Overshot(selection, ev)
    <3>1. pc' = "preflight" /\ evidence' = ev /\ UNCHANGED <<setup, selection, failure>>
      BY <1>12, <2>4 DEF Aggregate, ev
    <3>2. ASSUME setup.aggregation = "budget_pack_v1", selection.items # <<>>
          PROVE  (PackOk(selection, evidence))'
      <4>1. PackOk(selection, ev)
        BY <2>2, <2>4, <3>2 DEF Overshot
      <4>2. QED BY <3>1, <4>1 DEF PackOk
    <3>3. QED BY <1>1, <2>1, <3>1, <3>2 DEF PackInv, Staged
  <2>5. QED BY <2>3, <2>4
<1>13. CASE Preflight
  <2>1. /\ pc = "preflight" /\ Still
        /\ \/ pc' = "published" /\ failure' = failure
           \/ pc' = "failed" /\ failure' = "PREFLIGHT"
    BY <1>13 DEF Preflight, Fail
  <2>2. (PackOk(selection, evidence))' <=> PackOk(selection, evidence)
    BY <1>2, <2>1
  <2>3. QED BY <1>1, <2>1, <2>2 DEF PackInv, Staged
<1>14. CASE UNCHANGED selectionVars
  <2>1. UNCHANGED <<setup, pc, view, raw, selection, evidence, failure>>
    BY <1>14 DEF selectionVars
  <2>2. (raw \in Outputs)' <=> raw \in Outputs
    BY <2>1 DEF Outputs
  <2>3. (PackOk(selection, evidence))' <=> PackOk(selection, evidence)
    BY <1>2, <2>1
  <2>4. (Countable(selection))' <=> Countable(selection)
    BY <2>1 DEF Countable
  <2>5. QED BY <1>1, <2>1, <2>2, <2>3, <2>4 DEF PackInv, Staged
<1>15. QED
  BY <1>5, <1>6, <1>7, <1>8, <1>9, <1>10, <1>11, <1>12, <1>13, <1>14 DEF SelectionNext

(* Whatever the selector says, the sizes and the budget, what the packing  *)
(* aggregator hands to preflight is inside the budget, keeps the two sides *)
(* of a live disagreement together, and is refused only when the gaps it   *)
(* must print are over the budget by themselves (aggregators.py).          *)
THEOREM PacksAreWhole == SelectionSpec => []PackHoldsItsWord
<1>1. SelectionInit => PackInv
  <2> SUFFICES ASSUME SelectionInit PROVE PackInv
    OBVIOUS
  <2>1. pc = "start" /\ failure = "" /\ selection.items = <<>>
    BY DEF SelectionInit, NoSelection
  <2>2. ~Staged
    BY <2>1 DEF Staged
  <2>3. QED BY <2>1, <2>2, ViewStarts DEF PackInv
<1>2. PackInv /\ [SelectionNext]_selectionVars => PackInv'
  BY PackKeeps
<1>3. PackInv => PackHoldsItsWord
  BY DEF PackInv, PackOk, PackHoldsItsWord
<1>4. QED BY <1>1, <1>2, <1>3, PTL DEF SelectionSpec

-----------------------------------------------------------------------------
(************************* What preflight lets out *************************)

\* what preflight lets through
EvidenceIsSound ==
  /\ evidence.items \subseteq ToSet(view)
  /\ \A x \in selection.rel : x[1] \in evidence.items => span[x[1]].citable \/ x[3] = "background"
  /\ \A f \in {x[2] : x \in selection.rel} :
       {"support", "contradict"} \subseteq {x[3] : x \in {y \in selection.rel : y[2] = f}} =>
         \A r \in {"support", "contradict"} : \E s \in evidence.items : <<s, f, r>> \in selection.rel
  /\ \A b \in ToSet(evidence.bridges) : b.on \subseteq evidence.items
  /\ Cost(selection, evidence.items, evidence.bridges) <= setup.budget

\* what is selected was shown, and what is said of a span is said of a selected one
SelectionIsShown ==
  /\ ToSet(selection.items) \subseteq ToSet(view)
  /\ \A x \in selection.rel : x[1] \in ToSet(selection.items)
  /\ \A x \in selection.rel : x = <<x[1], x[2], x[3]>>

Parsed == pc \in {"aggregate", "preflight"}
SelectionInv ==
  /\ pc = "parse" => raw \in Outputs
  /\ Parsed => SelectionIsShown
  /\ pc = "published" /\ Offered # <<>> => EvidenceIsSound

(* Preflight's checks, whatever aggregator made the evidence.              *)
LEMMA PreflightIsSound ==
  ASSUME SelectionIsShown, PreflightOk(selection, evidence)
  PROVE  EvidenceIsSound
<1>1. /\ ContextStaysContext(selection) /\ Accounted(selection, evidence)
      /\ BothSides(selection, evidence) /\ BridgesBound(evidence)
      /\ Cost(selection, evidence.items, evidence.bridges) <= setup.budget
  BY DEF PreflightOk
<1>2. evidence.items \subseteq ToSet(view)
  BY <1>1 DEF SelectionIsShown, Accounted
<1>3. \A x \in selection.rel : span[x[1]].citable \/ x[3] = "background"
  BY <1>1 DEF ContextStaysContext
<1>4. \A b \in ToSet(evidence.bridges) : b.on \subseteq evidence.items
  BY <1>1 DEF BridgesBound
<1>5. ASSUME NEW f \in {x[2] : x \in selection.rel},
             {"support", "contradict"} \subseteq {x[3] : x \in {y \in selection.rel : y[2] = f}},
             NEW r \in {"support", "contradict"}
      PROVE  \E s \in evidence.items : <<s, f, r>> \in selection.rel
  <2>1. {x[3] : x \in {y \in selection.rel : y[2] = f}} = RolesOn(selection, ToSet(selection.items), f)
    BY DEF SelectionIsShown, RolesOn
  <2>2. f \in Conflicts(selection)
    BY <1>5, <2>1 DEF Conflicts
  <2>3. r \in RolesOn(selection, evidence.items, f)
    BY <1>1, <2>2 DEF BothSides
  <2>4. PICK x \in selection.rel : x[2] = f /\ x[1] \in evidence.items /\ x[3] = r
    BY <2>3 DEF RolesOn
  <2>5. x = <<x[1], f, r>>
    BY <2>4 DEF SelectionIsShown
  <2>6. QED BY <2>4, <2>5
<1>6. QED BY <1>1, <1>2, <1>3, <1>4, <1>5 DEF EvidenceIsSound

LEMMA SelectionKeeps ==
  ASSUME SelectionInv, [SelectionNext]_selectionVars
  PROVE  SelectionInv'
<1>1. CASE NothingOffered
  BY <1>1 DEF NothingOffered, SelectionInv, Parsed, Offered
<1>2. ASSUME NEW why, Fail(why)
      PROVE  SelectionInv'
  BY <1>2 DEF Fail, SelectionInv, Parsed
<1>3. ASSUME NEW q, Show(q)
      PROVE  SelectionInv'
  BY <1>3 DEF Show, SelectionInv, Parsed
<1>4. CASE ShowAll
  BY <1>2, <1>3, <1>4 DEF ShowAll
<1>5. CASE StartAdmission
  BY <1>5 DEF StartAdmission, SelectionInv, Parsed
<1>6. CASE Admit
  <2>1. (\E why : Fail(why)) \/ (\E q : Show(q)) \/ (pc = "admit" /\ pc' = pc)
    BY <1>6 DEF Admit
  <2>2. CASE pc = "admit" /\ pc' = pc
    BY <2>2 DEF SelectionInv, Parsed
  <2>3. QED BY <1>2, <1>3, <2>1, <2>2
<1>7. CASE Select
  <2>1. raw' \in Outputs /\ pc' = "parse" /\ setup' = setup
    BY <1>7 DEF Select
  <2>2. (raw \in Outputs)'
    BY <2>1 DEF Outputs
  <2>3. QED BY <2>1, <2>2 DEF SelectionInv, Parsed
<1>8. CASE SelectorFails
  BY <1>2, <1>8 DEF SelectorFails
<1>9. CASE DoParse
  <2>1. CASE ~Readable(raw)
    BY <1>2, <1>9, <2>1 DEF DoParse
  <2>2. CASE Readable(raw)
    <3>1. selection' = Parse(raw) /\ pc = "parse" /\ pc' = "aggregate" /\ view' = view
      BY <1>9, <2>2 DEF DoParse
    <3>2. /\ ToSet(selection'.items) \subseteq ToSet(view')
          /\ \A x \in selection'.rel : x[1] \in ToSet(selection'.items)
      BY <2>2, <3>1, ParsedIsShown DEF SelectionInv
    <3>3. \A x \in selection'.rel : x = <<x[1], x[2], x[3]>>
      <4>1. selection'.rel = {} \/ selection'.rel = Relations(raw)
        BY <3>1 DEF Parse
      <4>2. \A x \in Relations(raw) : x = <<x[1], x[2], x[3]>>
        BY DEF Relations
      <4>3. QED BY <4>1, <4>2
    <3>4. SelectionIsShown'
      BY <3>2, <3>3 DEF SelectionIsShown
    <3>5. QED BY <3>1, <3>4 DEF SelectionInv, Parsed
  <2>3. QED BY <2>1, <2>2
<1>10. CASE Aggregate
  <2>1. CASE Overshot(selection, Aggregated(selection))
    BY <1>2, <1>10, <2>1 DEF Aggregate
  <2>2. CASE ~Overshot(selection, Aggregated(selection))
    <3>1. pc = "aggregate" /\ pc' = "preflight" /\ UNCHANGED <<view, selection>>
      BY <1>10, <2>2 DEF Aggregate
    <3>2. QED BY <3>1 DEF SelectionInv, Parsed, SelectionIsShown
  <2>3. QED BY <2>1, <2>2
<1>11. CASE Preflight
  <2>1. CASE PreflightOk(selection, evidence)
    <3>1. /\ pc = "preflight" /\ pc' = "published"
          /\ UNCHANGED <<setup, view, selection, evidence>>
      BY <1>11, <2>1 DEF Preflight
    <3>2. EvidenceIsSound
      BY <2>1, <3>1, PreflightIsSound DEF SelectionInv, Parsed
    <3>3. EvidenceIsSound'
      BY <3>1, <3>2 DEF EvidenceIsSound
    <3>4. QED BY <3>1, <3>3 DEF SelectionInv, Parsed
  <2>2. CASE ~PreflightOk(selection, evidence)
    BY <1>2, <1>11, <2>2 DEF Preflight
  <2>3. QED BY <2>1, <2>2
<1>12. CASE UNCHANGED selectionVars
  <2>1. UNCHANGED <<setup, pc, view, raw, selection, evidence>>
    BY <1>12 DEF selectionVars
  <2>2. (raw \in Outputs)' <=> raw \in Outputs
    BY <2>1 DEF Outputs
  <2>3. EvidenceIsSound' <=> EvidenceIsSound
    BY <2>1 DEF EvidenceIsSound
  <2>4. SelectionIsShown' <=> SelectionIsShown
    BY <2>1 DEF SelectionIsShown
  <2>5. QED BY <2>1, <2>2, <2>3, <2>4 DEF SelectionInv, Parsed, Offered
<1>13. QED BY <1>1, <1>4, <1>5, <1>6, <1>7, <1>8, <1>9, <1>10, <1>11, <1>12 DEF SelectionNext

(* Whatever the selector answers under the closed schema and whichever     *)
(* aggregator the arm has, what a batch publishes was offered and shown,   *)
(* keeps both sides of a live disagreement, binds every bridge to the      *)
(* evidence it cites, publishes no context as evidence and stays inside    *)
(* the budget (parse_selection, preflight.py).                             *)
THEOREM PublishedEvidenceIsSound == SelectionSpec => []PublishedIsSound
<1>1. SelectionInit => SelectionInv
  BY DEF SelectionInit, SelectionInv, Parsed
<1>2. SelectionInv /\ [SelectionNext]_selectionVars => SelectionInv'
  BY SelectionKeeps
<1>3. SelectionInv => PublishedIsSound
  BY DEF SelectionInv, EvidenceIsSound, PublishedIsSound
<1>4. QED BY <1>1, <1>2, <1>3, PTL DEF SelectionSpec

-----------------------------------------------------------------------------
(*************************** Publication handles ***************************)

(* Division by an unknown radix.                                           *)
LEMMA Division ==
  ASSUME NEW a \in Nat, NEW b \in Nat \ {0}
  PROVE  /\ a \div b \in Nat /\ a % b \in 0..(b - 1) /\ a = b * (a \div b) + (a % b)
         /\ a \div b <= a
<1>1. a \div b \in Nat /\ a % b \in 0..(b - 1) /\ a = b * (a \div b) + (a % b)
  OBVIOUS
<1>2. b * (a \div b) >= a \div b
  BY <1>1
<1>3. QED BY <1>1, <1>2

LEMMA AtLeastOnce ==
  ASSUME NEW b \in Nat \ {0}, NEW k \in Int, k >= 1
  PROVE  b * k >= b
OBVIOUS

\* quotient and remainder are unique
LEMMA Unpacked ==
  ASSUME NEW q \in Nat, NEW b \in Nat \ {0}, NEW r \in 0..(b - 1)
  PROVE  (q * b + r) \div b = q /\ (q * b + r) % b = r
<1> DEFINE a == q * b + r
           k == a \div b
           m == a % b
<1>1. a \in Nat
  OBVIOUS
<1>2. k \in Nat /\ m \in 0..(b - 1) /\ a = b * k + m
  <2> HIDE DEF a
  <2>1. QED BY <1>1, Division
<1>3. q * b + r = b * k + m
  BY <1>2
<1> HIDE DEF k, m, a
<1>4. b * (k - q) = r - m /\ b * (q - k) = m - r
  BY <1>2, <1>3
<1>5. ASSUME k - q >= 1 PROVE FALSE
  <2>1. b * (k - q) >= b
    BY <1>2, <1>5, AtLeastOnce
  <2>2. QED BY <1>2, <1>4, <2>1
<1>6. ASSUME q - k >= 1 PROVE FALSE
  <2>1. b * (q - k) >= b
    BY <1>2, <1>6, AtLeastOnce
  <2>2. QED BY <1>2, <1>4, <2>1
<1>7. k = q
  BY <1>2, <1>5, <1>6
<1>8. m = r
  BY <1>2, <1>3, <1>7
<1>9. QED BY <1>7, <1>8 DEF k, m, a

(* What a body is worth in bijective base: the fold Decode makes of it.    *)
Worth(h) == FoldLeft(LAMBDA v, d : v * Base + d, 0, h)
Rolls(g, h) ==
  g = [s \in SUBSET (DOMAIN h) |-> IF s = {} THEN 0 ELSE g[s \ {Max(s)}] * Base + h[Max(s)]]

LEMMA WorthUnfold ==
  ASSUME NEW h \in Seq(Nat)
  PROVE  \E g : Rolls(g, h) /\ Worth(h) = g[DOMAIN h]
<1> DEFINE P(g) == Rolls(g, h)
           D == DOMAIN h
<1>1. /\ IsFiniteSet(D) /\ \A s \in SUBSET D : s # {} => Max(s) \in s
      /\ \A i \in D : h[i] \in Nat
  BY Places, ElementOfSeq, LenProperties
<1>2. \E g : P(g)
  <2> DEFINE pick == [s \in SUBSET D |-> Max(s)]
             step == [p \in D \X Nat |-> p[2] * Base + h[p[1]]]
  <2>1. \A i \in D, v \in Nat : v * Base + h[i] \in Nat
    BY <1>1, HandleAssumption
  <2>2. step \in [D \X Nat -> Nat] /\ \A i \in D, v \in Nat : step[<<i, v>>] = v * Base + h[i]
    BY <2>1
  <2>3. \A s \in SUBSET D : s # {} => pick[s] \in s
    BY <1>1
  <2> HIDE DEF step, pick
  <2>4. PICK g \in [SUBSET D -> Nat] : IsFold(g, D, 0, step, pick)
    <3>1. 0 \in Nat
      OBVIOUS
    <3>2. QED BY <1>1, <2>2, <2>3, <3>1, FoldExists
  <2>5. \A s \in SUBSET D : s # {} => step[<<pick[s], g[s \ {pick[s]}]>>] = g[s \ {Max(s)}] * Base + h[Max(s)]
    <3> TAKE s \in SUBSET D
    <3> HAVE s # {}
    <3>1. pick[s] = Max(s) /\ Max(s) \in D
      BY <1>1 DEF pick
    <3>2. g[s \ {Max(s)}] \in Nat
      BY <2>4
    <3>3. QED BY <2>2, <3>1, <3>2
  <2>6. \A s \in SUBSET D : pick[s] = Max(s)
    BY DEF pick
  <2>7. g = [s \in SUBSET D |-> IF s = {} THEN 0 ELSE step[<<pick[s], g[s \ {pick[s]}]>>]]
    BY <2>4 DEF IsFold
  <2>8. g = [s \in SUBSET D |-> IF s = {} THEN 0 ELSE g[s \ {Max(s)}] * Base + h[Max(s)]]
    BY <2>5, <2>6, <2>7
  <2>9. QED BY <2>8 DEF Rolls
<1>3. Worth(h) = (CHOOSE g : P(g))[D]
  BY DEF Worth, FoldLeft, MapThenFoldSet, Rolls
<1> HIDE DEF P
<1>4. P(CHOOSE g : P(g))
  BY <1>2
<1>5. QED BY <1>3, <1>4 DEF P

LEMMA WorthNothing == Worth(<<>>) = 0
<1>1. <<>> \in Seq(Nat) /\ DOMAIN <<>> = {}
  OBVIOUS
<1>2. PICK g : Rolls(g, <<>>) /\ Worth(<<>>) = g[{}]
  BY <1>1, WorthUnfold
<1>3. QED BY <1>1, <1>2 DEF Rolls

LEMMA RollsTyped ==
  ASSUME NEW h \in Seq(Nat), NEW g, Rolls(g, h)
  PROVE  g[DOMAIN h] \in Nat
<1> DEFINE D == DOMAIN h
           B == {s \in SUBSET D : g[s] \notin Nat}
<1>1. SUFFICES ASSUME B # {} PROVE FALSE
  OBVIOUS
<1>2. /\ IsFiniteSet(D) /\ \A s \in SUBSET D : s # {} => Max(s) \in s
      /\ \A i \in D : h[i] \in Nat
  BY Places, ElementOfSeq, LenProperties
<1>3. PICK s \in B : \A x \in s : s \ {x} \notin B
  <2> HIDE DEF B
  <2>1. B \subseteq SUBSET D
    BY DEF B
  <2>2. QED BY <1>1, <1>2, <2>1, MinimalSubset
<1>4. s # {}
  BY <1>3 DEF Rolls
<1>5. Max(s) \in s /\ Max(s) \in D /\ h[Max(s)] \in Nat
  BY <1>2, <1>3, <1>4
<1>6. g[s \ {Max(s)}] \in Nat
  BY <1>3, <1>5
<1>7. g[s] = g[s \ {Max(s)}] * Base + h[Max(s)]
  BY <1>3, <1>4 DEF Rolls
<1>8. \A v, d \in Nat : v * Base + d \in Nat
  <2> TAKE v, d \in Nat
  <2>1. Base \in Nat
    BY HandleAssumption
  <2>2. v * Base \in Nat
    BY <2>1
  <2>3. QED BY <2>2
<1>9. g[s] \in Nat
  BY <1>5, <1>6, <1>7, <1>8
<1>10. QED BY <1>3, <1>9

(* One more letter.                                                        *)
LEMMA WorthAppend ==
  ASSUME NEW h \in Seq(Nat), NEW d \in Nat
  PROVE  Append(h, d) \in Seq(Nat) /\ Worth(Append(h, d)) = Worth(h) * Base + d /\ Worth(h) \in Nat
<1> DEFINE k == Append(h, d)
           D == DOMAIN h
           E == DOMAIN k
           n == Len(h)
<1>1. /\ k \in Seq(Nat) /\ D = 1..n /\ E = 1..(n + 1) /\ n \in Nat
      /\ k[n + 1] = d /\ \A i \in D : k[i] = h[i]
  BY AppendProperties, LenProperties
<1>2. /\ IsFiniteSet(D) /\ IsFiniteSet(E) /\ E \subseteq Int
      /\ \A s \in SUBSET E : IsFiniteSet(s) /\ (s # {} => Max(s) \in s)
  BY <1>1, Places
<1> HIDE DEF k, D, E, n
<1>3. PICK g : Rolls(g, h) /\ Worth(h) = g[D]
  BY WorthUnfold DEF D
<1>4. PICK f : Rolls(f, k) /\ Worth(k) = f[E]
  BY <1>1, WorthUnfold DEF E
<1>5. \A s \in SUBSET D : f[s] = g[s]
  <2> DEFINE B == {s \in SUBSET D : f[s] # g[s]}
  <2>1. SUFFICES ASSUME B # {} PROVE FALSE
    OBVIOUS
  <2>2. PICK s \in B : \A x \in s : s \ {x} \notin B
    <3> HIDE DEF B
    <3>1. B \subseteq SUBSET D
      BY DEF B
    <3>2. QED BY <1>2, <2>1, <3>1, MinimalSubset
  <2>3. s \in SUBSET D /\ s \in SUBSET E /\ f[s] # g[s]
    BY <1>1, <2>2
  <2>4. s # {}
    BY <1>3, <1>4, <2>3 DEF Rolls, D, E
  <2>5. Max(s) \in s /\ Max(s) \in D
    BY <1>2, <2>3, <2>4
  <2>6. f[s \ {Max(s)}] = g[s \ {Max(s)}]
    BY <2>2, <2>5
  <2>7. f[s] = f[s \ {Max(s)}] * Base + k[Max(s)]
    BY <1>4, <2>3, <2>4 DEF Rolls, E
  <2>8. g[s] = g[s \ {Max(s)}] * Base + h[Max(s)]
    BY <1>3, <2>3, <2>4 DEF Rolls, D
  <2>9. QED BY <1>1, <2>3, <2>5, <2>6, <2>7, <2>8
<1>6. Max(E) = n + 1
  <2>1. n + 1 \in E /\ \A y \in E : n + 1 >= y
    BY <1>1
  <2>2. Max(E) \in E /\ \A y \in E : Max(E) >= y
    BY <2>1 DEF Max
  <2>3. Max(E) \in Int /\ n \in Int
    BY <1>1, <1>2, <2>2
  <2>4. Max(E) >= n + 1 /\ n + 1 >= Max(E)
    BY <2>1, <2>2
  <2>5. QED BY <2>3, <2>4
<1>7. E # {} /\ E \ {n + 1} = D
  <2>1. n \in Nat /\ D = 1..n /\ E = 1..(n + 1)
    BY <1>1
  <2>2. QED BY <2>1
<1>8. f[E] = f[D] * Base + d
  <2>1. f[E] = f[E \ {Max(E)}] * Base + k[Max(E)]
    BY <1>4, <1>7 DEF Rolls, E
  <2>2. QED BY <1>1, <1>6, <1>7, <2>1
<1>9. Worth(h) \in Nat
  BY <1>3, RollsTyped DEF D
<1>10. f[D] = g[D]
  BY <1>5
<1>11. QED BY <1>1, <1>3, <1>4, <1>8, <1>9, <1>10 DEF k

(* The letters of a number, written from the letters of its quotient.       *)
LettersOf(f, S) ==
  f = [n \in S |-> IF n = 0 THEN <<>> ELSE Append(f[(n - 1) \div Base], ((n - 1) % Base) + 1)]

LEMMA LastLetter ==
  ASSUME NEW n \in Nat \ {0}
  PROVE  /\ (n - 1) \div Base \in 0..(n - 1) /\ ((n - 1) % Base) + 1 \in Nat
         /\ ((n - 1) \div Base) * Base + (((n - 1) % Base) + 1) = n
<1> DEFINE q == (n - 1) \div Base
           m == (n - 1) % Base
<1>1. Base \in Nat \ {0}
  BY HandleAssumption
<1>2. n - 1 \in Nat
  OBVIOUS
<1>3. /\ q \in Nat /\ m \in 0..(Base - 1) /\ n - 1 = Base * q + m /\ q <= n - 1
  BY <1>1, <1>2, Division
<1> HIDE DEF q, m
<1>4. q \in 0..(n - 1) /\ m + 1 \in Nat
  BY <1>1, <1>2, <1>3
<1>5. q * Base + (m + 1) = n
  BY <1>1, <1>3
<1>6. QED BY <1>4, <1>5 DEF q, m

LEMMA LettersExist ==
  ASSUME NEW k \in Nat
  PROVE  \E f : LettersOf(f, 0..k)
<1> DEFINE B == {n \in Nat : ~ \E f : LettersOf(f, 0..n)}
<1>1. SUFFICES ASSUME B # {} PROVE FALSE
  OBVIOUS
<1>2. PICK n \in B : \A m \in B : n <= m
  <2> HIDE DEF B
  <2>1. B \subseteq Nat
    BY DEF B
  <2>2. QED BY <1>1, <2>1, LeastNatural
<1>3. n # 0
  <2>1. SUFFICES ASSUME n = 0 PROVE FALSE
    OBVIOUS
  <2> DEFINE f == [i \in 0..0 |-> <<>>]
  <2>2. LettersOf(f, 0..0)
    BY DEF LettersOf
  <2>3. QED BY <1>2, <2>1, <2>2
<1>4. n - 1 \in Nat /\ n - 1 \notin B
  BY <1>2, <1>3
<1>5. PICK g : LettersOf(g, 0..(n - 1))
  BY <1>4
<1> DEFINE f == [i \in 0..n |-> IF i \in 0..(n - 1) THEN g[i]
                                ELSE Append(g[(n - 1) \div Base], ((n - 1) % Base) + 1)]
           next(h, i) == IF i = 0 THEN <<>> ELSE Append(h[(i - 1) \div Base], ((i - 1) % Base) + 1)
<1>6. \A i \in 0..n : f[i] = next(f, i)
  <2> TAKE i \in 0..n
  <2>1. i # 0 => (i - 1) \div Base \in 0..(n - 1) /\ f[(i - 1) \div Base] = g[(i - 1) \div Base]
    <3> HAVE i # 0
    <3>1. i \in Nat \ {0} /\ i - 1 <= n - 1
      OBVIOUS
    <3>2. (i - 1) \div Base \in 0..(i - 1)
      BY <3>1, LastLetter
    <3> DEFINE q == (i - 1) \div Base
    <3> HIDE DEF q
    <3>3. q \in 0..(n - 1)
      BY <3>1, <3>2, <1>4 DEF q
    <3>4. q \in 0..n
      BY <3>3, <1>4
    <3>5. f[q] = g[q]
      BY <3>3, <3>4
    <3>6. QED BY <3>3, <3>5 DEF q
  <2>2. CASE i \in 0..(n - 1)
    <3>1. f[i] = g[i]
      BY <2>2
    <3>2. g[i] = next(g, i)
      BY <1>5, <2>2 DEF LettersOf
    <3> HIDE DEF f
    <3>3. QED BY <2>1, <3>1, <3>2
  <2>3. CASE i \notin 0..(n - 1)
    <3>1. i = n
      BY <1>4, <2>3
    <3>2. f[n] = Append(g[(n - 1) \div Base], ((n - 1) % Base) + 1)
      BY <2>3, <3>1
    <3> HIDE DEF f
    <3>3. QED BY <1>3, <2>1, <3>1, <3>2
  <2>4. QED BY <2>2, <2>3
<1>7. f = [i \in 0..n |-> next(f, i)]
  <2> DEFINE R == [i \in 0..n |-> next(f, i)]
  <2>1. f = [i \in 0..n |-> f[i]]
    OBVIOUS
  <2> HIDE DEF f, next
  <2>2. [i \in 0..n |-> f[i]] = [i \in 0..n |-> next(f, i)]
    BY <1>6
  <2>3. QED BY <2>1, <2>2
<1> HIDE DEF f
<1>8. LettersOf(f, 0..n)
  BY <1>7 DEF LettersOf
<1>9. QED BY <1>2, <1>8

LEMMA RangesAreNumbers ==
  /\ Structurals \in Nat \ {0} /\ Capacity \in Nat
  /\ \A f \in {"iteration", "child", "turn", "toolset", "evidence"} : radix[f] \in Nat \ {0}
<1>1. /\ radix.iteration \in Nat \ {0} /\ radix.child \in Nat \ {0} /\ radix.turn \in Nat \ {0}
      /\ radix.toolset \in Nat \ {0} /\ radix.evidence \in Nat \ {0}
  BY HandleAssumption
<1>2. radix.iteration * radix.child \in Nat
  BY <1>1
<1>3. Structurals \in Nat \ {0}
  BY <1>2 DEF Structurals
<1> HIDE DEF Structurals
<1>4. Structurals * radix.turn \in Nat
  BY <1>1, <1>3
<1>5. Structurals * radix.turn * radix.toolset \in Nat
  BY <1>1, <1>4
<1>6. Capacity \in Nat
  BY <1>1, <1>5 DEF Capacity
<1>7. QED BY <1>1, <1>3, <1>6

LEMMA LettersWorth ==
  ASSUME NEW n \in 0..(Capacity + 1)
  PROVE  letters[n] \in Seq(Nat) /\ Worth(letters[n]) = n
<1> DEFINE P(f) == LettersOf(f, 0..(Capacity + 1))
<1>1. Capacity \in Nat
  BY RangesAreNumbers
<1>2. \E f : P(f)
  <2>1. Capacity + 1 \in Nat
    BY <1>1
  <2>2. QED BY <2>1, LettersExist
<1>3. letters = CHOOSE f : P(f)
  BY DEF letters, LettersOf
<1> HIDE DEF P
<1>4. P(letters)
  BY <1>2, <1>3
<1>5. \A i \in 0..(Capacity + 1) :
        letters[i] = IF i = 0 THEN <<>> ELSE Append(letters[(i - 1) \div Base], ((i - 1) % Base) + 1)
  <2>1. LettersOf(letters, 0..(Capacity + 1))
    BY <1>4 DEF P
  <2>2. QED BY <2>1 DEF LettersOf
<1> DEFINE WorthItself(i) == letters[i] \in Seq(Nat) /\ Worth(letters[i]) = i
           B == {i \in 0..(Capacity + 1) : ~WorthItself(i)}
<1>6. SUFFICES ASSUME B # {} PROVE FALSE
  OBVIOUS
<1>7. PICK i \in B : \A m \in B : i <= m
  <2>1. B \subseteq Nat
    BY <1>1
  <2> HIDE DEF B
  <2>2. QED BY <1>6, <2>1, LeastNatural
<1>8. i # 0
  <2>1. SUFFICES ASSUME i = 0 PROVE FALSE
    OBVIOUS
  <2>2. letters[0] = <<>>
    BY <1>1, <1>5
  <2>3. <<>> \in Seq(Nat)
    OBVIOUS
  <2>4. WorthItself(0)
    BY <2>2, <2>3, WorthNothing
  <2>5. i \in B
    BY <1>7
  <2> HIDE DEF WorthItself
  <2>6. QED BY <2>1, <2>4, <2>5
<1> DEFINE q == (i - 1) \div Base
           d == ((i - 1) % Base) + 1
<1>9. q \in 0..(i - 1) /\ d \in Nat /\ q * Base + d = i
  <2>1. i \in Nat \ {0}
    BY <1>1, <1>7, <1>8
  <2>2. QED BY <2>1, LastLetter
<1>10. letters[i] = Append(letters[q], d)
  <2>1. i \in 0..(Capacity + 1)
    BY <1>7
  <2>2. QED BY <1>5, <1>8, <2>1
<1> HIDE DEF q, d
<1>11. q \in 0..(Capacity + 1) /\ q \notin B
  <2>1. i \in Nat /\ i <= Capacity + 1 /\ q \in Nat /\ q < i
    BY <1>1, <1>7, <1>9
  <2>2. q \in 0..(Capacity + 1)
    BY <1>1, <2>1
  <2>3. q \notin B
    <3> SUFFICES ASSUME q \in B PROVE FALSE
      OBVIOUS
    <3>1. i <= q
      BY <1>7
    <3>2. QED BY <2>1, <3>1
  <2>4. QED BY <2>2, <2>3
<1>12. WorthItself(q)
  BY <1>11
<1>13. Append(letters[q], d) \in Seq(Nat) /\ Worth(Append(letters[q], d)) = Worth(letters[q]) * Base + d
  BY <1>9, <1>12, WorthAppend
<1>14. WorthItself(i)
  BY <1>9, <1>10, <1>12, <1>13
<1>15. QED BY <1>7, <1>14

(* A handle is a span's address: what the codec writes, the decoder reads   *)
(* back, for every radix and every ordinal within it, so that no two spans  *)
(* of a trajectory share a handle.                                          *)
LEMMA PackFits ==
  ASSUME NEW a \in Nat, NEW m \in Nat \ {0}, NEW b \in Nat \ {0}, a < m, NEW r \in 0..(b - 1)
  PROVE  a * b + r \in Nat /\ a * b + r < m * b
<1>1. (m - a) * b >= b
  <2>1. m - a \in Int /\ m - a >= 1
    OBVIOUS
  <2>2. b * (m - a) >= b
    BY <2>1, AtLeastOnce
  <2>3. QED BY <2>2
<1>2. a * b \in Nat
  OBVIOUS
<1>3. m * b >= a * b + b
  BY <1>1
<1>4. QED BY <1>2, <1>3

THEOREM HandlesDecode == \A c \in Coordinates : Decode(Encode(c)) = c
<1> TAKE c \in Coordinates
<1>1. /\ radix.turn \in Nat \ {0} /\ radix.toolset \in Nat \ {0} /\ radix.evidence \in Nat \ {0}
      /\ Structurals \in Nat \ {0} /\ Capacity \in Nat
  BY RangesAreNumbers
<1> DEFINE s == c.structural
           p == s * radix.turn + c.turn
           x == p * radix.toolset + c.toolset
           h == x * radix.evidence + (c.evidence - 1)
<1>2. /\ s \in 0..(Structurals - 1) /\ c.turn \in 0..(radix.turn - 1)
      /\ c.toolset \in 0..(radix.toolset - 1) /\ c.evidence \in 1..radix.evidence
      /\ c = [structural |-> s, turn |-> c.turn, toolset |-> c.toolset, evidence |-> c.evidence]
  BY DEF Coordinates
<1>3. PackHandle(c) = h
  BY DEF PackHandle
<1> HIDE DEF s, Structurals
<1>4. p \in Nat /\ p < Structurals * radix.turn /\ p \div radix.turn = s /\ p % radix.turn = c.turn
  <2>1. s \in Nat /\ s < Structurals
    BY <1>1, <1>2
  <2>2. QED BY <1>1, <1>2, <2>1, PackFits, Unpacked
<1> HIDE DEF p
<1> DEFINE M == Structurals * radix.turn
<1>5. M \in Nat \ {0}
  BY <1>1, <1>4
<1>6. x \in Nat /\ x < M * radix.toolset /\ x \div radix.toolset = p /\ x % radix.toolset = c.toolset
  <2>1. p < M
    BY <1>4
  <2> HIDE DEF M
  <2>2. QED BY <1>1, <1>2, <1>4, <1>5, <2>1, PackFits, Unpacked
<1> DEFINE L == M * radix.toolset
<1> HIDE DEF x, M
<1>7. L \in Nat \ {0}
  BY <1>1, <1>5, <1>6
<1>8. h \in Nat /\ h < L * radix.evidence /\ h \div radix.evidence = x /\ h % radix.evidence = c.evidence - 1
  <2>1. c.evidence - 1 \in 0..(radix.evidence - 1)
    BY <1>1, <1>2
  <2>2. x < L
    BY <1>6
  <2> HIDE DEF L
  <2>3. QED BY <1>1, <1>6, <1>7, <2>1, <2>2, PackFits, Unpacked
<1>9. h < Capacity
  BY <1>8 DEF L, M, Capacity
<1> HIDE DEF h
<1>10. h + 1 \in 0..(Capacity + 1)
  BY <1>1, <1>8, <1>9
<1>11. Worth(letters[h + 1]) = h + 1
  BY <1>10, LettersWorth
<1>12. Worth(Encode(c)) - 1 = h
  BY <1>3, <1>8, <1>11 DEF Encode
<1>13. Decode(Encode(c)) = [structural |-> s, turn |-> c.turn, toolset |-> c.toolset, evidence |-> (c.evidence - 1) + 1]
  <2> DEFINE n == Worth(Encode(c)) - 1
             e == n \div radix.evidence
             t == e \div radix.toolset
  <2>1. Decode(Encode(c)) = [structural |-> t \div radix.turn, turn |-> t % radix.turn,
                             toolset |-> e % radix.toolset, evidence |-> (n % radix.evidence) + 1]
    BY DEF Decode, Worth
  <2>2. n = h /\ e = x /\ t = p
    BY <1>6, <1>8, <1>12
  <2> HIDE DEF n, e, t
  <2>3. QED BY <1>4, <1>6, <1>8, <2>1, <2>2
<1>14. (c.evidence - 1) + 1 = c.evidence
  BY <1>1, <1>2
<1>15. QED BY <1>2, <1>13, <1>14

(* No two researchers have one structural ordinal.                         *)
LEMMA StructuralIsInjective ==
  ASSUME NEW r \in Positions, NEW q \in Positions, Structural(r) = Structural(q)
  PROVE  r = q
<1>1. /\ radix.iteration \in Nat \ {0} /\ radix.child \in Nat \ {0}
  BY RangesAreNumbers
<1>2. ASSUME NEW x \in Positions, x # <<>>
      PROVE  /\ x[1] \in Nat /\ x[2] \in 0..(radix.child - 1) /\ x = <<x[1], x[2]>>
             /\ Structural(x) = 1 + (x[1] * radix.child + x[2]) /\ x[1] * radix.child + x[2] \in Nat
  <2>1. x \in (0..(radix.iteration - 1)) \X (0..(radix.child - 1))
    BY <1>2 DEF Positions
  <2>2. x[1] \in 0..(radix.iteration - 1) /\ x[2] \in 0..(radix.child - 1) /\ x = <<x[1], x[2]>>
    BY <2>1
  <2>3. x[1] \in Nat /\ x[2] \in Nat /\ x[1] * radix.child \in Nat
    BY <1>1, <2>2
  <2>4. Structural(x) = 1 + x[1] * radix.child + x[2]
    BY <1>2 DEF Structural
  <2>5. QED BY <2>2, <2>3, <2>4
<1>3. CASE r = <<>> \/ q = <<>>
  <2>1. Structural(<<>>) = 0
    BY DEF Structural
  <2>2. ASSUME NEW x \in Positions, x # <<>> PROVE Structural(x) # 0
    BY <1>2, <2>2
  <2>3. QED BY <1>3, <2>1, <2>2
<1>4. CASE r # <<>> /\ q # <<>>
  <2> DEFINE a == r[1] * radix.child + r[2]
             b == q[1] * radix.child + q[2]
  <2>1. r[1] \in Nat /\ r[2] \in 0..(radix.child - 1) /\ q[1] \in Nat /\ q[2] \in 0..(radix.child - 1)
    BY <1>2, <1>4
  <2>2. a \div radix.child = r[1] /\ a % radix.child = r[2]
    BY <1>1, <2>1, Unpacked
  <2>3. b \div radix.child = q[1] /\ b % radix.child = q[2]
    BY <1>1, <2>1, Unpacked
  <2>4. a \in Nat /\ b \in Nat /\ Structural(r) = 1 + a /\ Structural(q) = 1 + b
    BY <1>2, <1>4
  <2> HIDE DEF a, b
  <2>5. a = b
    <3>1. 1 + a = 1 + b
      BY <2>4
    <3>2. QED BY <2>4, <3>1
  <2>6. r[1] = q[1] /\ r[2] = q[2]
    BY <2>2, <2>3, <2>5
  <2>7. r = <<r[1], r[2]>> /\ q = <<q[1], q[2]>>
    BY <1>2, <1>4
  <2>8. QED BY <2>6, <2>7
<1>5. QED BY <1>3, <1>4

(* A positive evidence ordinal is a place where the span was offered.      *)
LEMMA OrdinalIsAPlace ==
  ASSUME setup \in Setups, NEW s, Coordinate(s) \in Coordinates
  PROVE  Coordinate(s).evidence \in DOMAIN Offered /\ Offered[Coordinate(s).evidence] = s
<1> DEFINE I == {i \in 1..Len(Offered) : Offered[i] = s}
           e == Coordinate(s).evidence
<1>1. DOMAIN Offered = 1..Len(Offered) /\ Len(Offered) \in Nat
  BY BatchIsSpans, LenProperties DEF Offered
<1>2. e = IF I # {} THEN Min(I) ELSE 0
  BY DEF Coordinate, SelectInSeq
<1>3. e >= 1
  BY RangesAreNumbers DEF Coordinates
<1> HIDE DEF e
<1>4. I # {}
  BY <1>2, <1>3
<1>5. Min(I) \in I
  <2>1. I \subseteq Nat
    BY <1>1
  <2> HIDE DEF I
  <2>2. PICK n \in I : \A m \in I : n <= m
    BY <1>4, <2>1, LeastNatural
  <2>3. QED BY <2>2 DEF Min
<1>6. QED BY <1>1, <1>2, <1>4, <1>5 DEF e

(* What is in a prompt was placed when the prompt was made.                *)
HandlesInv ==
  /\ setup \in Setups
  /\ pc # "stopped" => \A s \in ToSet(view) : Placed(setup.researcher) /\ Coordinate(s) \in Coordinates

LEMMA HandlesKeep ==
  ASSUME HandlesInv, [SelectionNext]_selectionVars
  PROVE  HandlesInv'
<1> DEFINE Unmoved == setup' = setup /\ view' = view /\ pc # "stopped"
<1>1. ASSUME Unmoved PROVE HandlesInv'
  BY <1>1 DEF HandlesInv, Coordinate, Offered, SelectInSeq
<1>2. ASSUME NEW q, Show(q) PROVE HandlesInv'
  <2>1. /\ setup' = setup /\ view' = q
        /\ pc' = IF Placed(setup.researcher) /\ \A s \in ToSet(q) : Coordinate(s) \in Coordinates
                 THEN "select" ELSE "stopped"
    BY <1>2 DEF Show
  <2>2. QED BY <2>1 DEF HandlesInv, Coordinate, Offered, SelectInSeq
<1>3. ASSUME NEW why, Fail(why), pc # "stopped" PROVE HandlesInv'
  BY <1>1, <1>3 DEF Fail
<1>4. CASE NothingOffered
  BY <1>1, <1>4 DEF NothingOffered
<1>5. CASE ShowAll
  BY <1>2, <1>3, <1>5 DEF ShowAll
<1>6. CASE StartAdmission
  BY <1>1, <1>6 DEF StartAdmission
<1>7. CASE Admit
  BY <1>1, <1>2, <1>3, <1>7 DEF Admit
<1>8. CASE Select
  BY <1>1, <1>8 DEF Select
<1>9. CASE SelectorFails
  BY <1>3, <1>9 DEF SelectorFails
<1>10. CASE DoParse
  BY <1>1, <1>3, <1>10 DEF DoParse
<1>11. CASE Aggregate
  BY <1>1, <1>3, <1>11 DEF Aggregate
<1>12. CASE Preflight
  BY <1>1, <1>3, <1>12 DEF Preflight
<1>13. CASE UNCHANGED selectionVars
  BY <1>13 DEF selectionVars, HandlesInv, Coordinate, Offered, SelectInSeq
<1>14. QED
  BY <1>4, <1>5, <1>6, <1>7, <1>8, <1>9, <1>10, <1>11, <1>12, <1>13 DEF SelectionNext

(* Whatever the radices, the batch and the admission, a handle in a prompt *)
(* leads back to the one researcher, turn, tool set and place in the batch *)
(* it was made for: the ordinals are held to their radices before they are *)
(* packed (structural_ordinal, _pack), and packing loses nothing           *)
(* (HandlesDecode).                                                        *)
THEOREM PrintedHandlesLeadBack == SelectionSpec => []HandlesLeadBack
<1>1. SelectionInit => HandlesInv
  <2>1. ToSet(<<>>) = {}
    BY DEF ToSet
  <2>2. QED BY <2>1 DEF SelectionInit, HandlesInv
<1>2. HandlesInv /\ [SelectionNext]_selectionVars => HandlesInv'
  BY HandlesKeep
<1>3. HandlesInv => HandlesLeadBack
  <2> SUFFICES ASSUME HandlesInv, pc # "stopped", NEW s \in ToSet(view)
               PROVE  LET c == Decode(Encode(Coordinate(s))) IN
                        /\ {r \in Positions : Structural(r) = c.structural} = {setup.researcher}
                        /\ c.turn = setup.turn /\ c.toolset = setup.toolset
                        /\ c.evidence \in DOMAIN Offered /\ Offered[c.evidence] = s
    BY DEF HandlesLeadBack
  <2>1. setup \in Setups /\ setup.researcher \in Positions /\ Coordinate(s) \in Coordinates
    BY DEF HandlesInv, Placed
  <2>2. Decode(Encode(Coordinate(s))) = Coordinate(s)
    BY <2>1, HandlesDecode
  <2>3. /\ Coordinate(s).structural = Structural(setup.researcher)
        /\ Coordinate(s).turn = setup.turn /\ Coordinate(s).toolset = setup.toolset
    BY DEF Coordinate
  <2>4. {r \in Positions : Structural(r) = Structural(setup.researcher)} = {setup.researcher}
    BY <2>1, StructuralIsInjective
  <2>5. Coordinate(s).evidence \in DOMAIN Offered /\ Offered[Coordinate(s).evidence] = s
    BY <2>1, OrdinalIsAPlace
  <2>6. QED BY <2>2, <2>3, <2>4, <2>5
<1>4. QED BY <1>1, <1>2, <1>3, PTL DEF SelectionSpec

-----------------------------------------------------------------------------
(****************************** Words and lines *****************************)

\* what ConversationAssumption says of a message's lines
Text(t) ==
  /\ t \in Seq(ToSet(t))
  /\ \A l \in ToSet(t) : l.words \in Nat /\ (l.words = 0 <=> l.shape = "blank")

\* the words of the first n lines
First(t, n) == WordsIn(t, 1 .. n)

(* Where the lines of a text are, and that only what is blank has no word. *)
LEMMA TextLines ==
  ASSUME NEW t, Text(t)
  PROVE  /\ Len(t) \in Nat /\ DOMAIN t = 1 .. Len(t)
         /\ \A k \in 1 .. Len(t) : t[k].words \in Nat /\ (t[k].words = 0 <=> IsBlank(t[k]))
<1>1. Len(t) \in Nat /\ DOMAIN t = 1 .. Len(t)
  BY LenProperties DEF Text
<1>2. \A k \in 1 .. Len(t) : t[k] \in ToSet(t)
  BY <1>1 DEF ToSet
<1>3. QED BY <1>1, <1>2 DEF Text, IsBlank

(* The words before a line are a number, the next number adds its words.   *)
LEMMA PrefixSums ==
  ASSUME NEW t, Text(t)
  PROVE  /\ First(t, 0) = 0
         /\ \A n \in 0 .. Len(t) : First(t, n) \in Nat
         /\ \A n \in 1 .. Len(t) : First(t, n) = First(t, n - 1) + t[n].words
<1> DEFINE w == [i \in DOMAIN t |-> t[i].words]
<1>1. /\ Len(t) \in Nat /\ DOMAIN t = 1 .. Len(t)
      /\ \A k \in 1 .. Len(t) : t[k].words \in Nat
  BY TextLines
<1>2. \A k \in 1 .. Len(t) : w[k] = t[k].words /\ w[k] \in Nat
  BY <1>1
<1>3. \A n : First(t, n) = SumFunctionOnSet(w, 1 .. n)
  BY DEF First, WordsIn
<1> HIDE DEF w
<1>4. First(t, 0) = 0
  <2>1. 1 .. 0 = {}
    OBVIOUS
  <2>2. QED BY <1>3, <2>1, SumEmpty
<1>5. ASSUME NEW n \in 0 .. Len(t) PROVE First(t, n) \in Nat
  <2>1. IsFiniteSet(1 .. n)
    <3>1. n \in Int /\ 1 \in Int
      BY <1>1
    <3>2. QED BY <3>1, FS_Interval
  <2>2. \A k \in 1 .. n : w[k] \in Nat
    BY <1>1, <1>2
  <2>3. QED BY <1>3, <2>1, <2>2, SumNatural
<1>6. ASSUME NEW n \in 1 .. Len(t) PROVE First(t, n) = First(t, n - 1) + t[n].words
  <2>0. \A k \in 1 .. n : w[k] \in Int
    BY <1>1, <1>2
  <2>1. IsFiniteSet(1 .. n)
    <3>1. n \in Int /\ 1 \in Int
      BY <1>1
    <3>2. QED BY <3>1, FS_Interval
  <2>2. n \in 1 .. n /\ (1 .. n) \ {n} = 1 .. n - 1
    BY <1>1
  <2>3. SumFunctionOnSet(w, 1 .. n) = w[n] + SumFunctionOnSet(w, (1 .. n) \ {n})
    BY <2>0, <2>1, <2>2, SumSplit
  <2>4. First(t, n) = w[n] + First(t, n - 1)
    BY <1>3, <2>2, <2>3
  <2>5. First(t, n - 1) \in Nat /\ w[n] = t[n].words /\ w[n] \in Nat
    BY <1>1, <1>2, <1>5
  <2>6. QED BY <2>4, <2>5
<1>7. QED BY <1>4, <1>5, <1>6

(* A longer prefix holds no fewer words.                                   *)
LEMMA PrefixesGrow ==
  ASSUME NEW t, Text(t), NEW a \in 0 .. Len(t), NEW b \in a .. Len(t)
  PROVE  First(t, a) <= First(t, b)
<1> DEFINE B == {n \in a .. Len(t) : ~(First(t, a) <= First(t, n))}
<1>1. SUFFICES ASSUME B # {} PROVE FALSE
  OBVIOUS
<1>2. Len(t) \in Nat
  BY TextLines
<1>3. PICK n \in B : \A m \in B : n <= m
  <2>1. B \subseteq Nat
    BY <1>2
  <2> HIDE DEF B
  <2>2. QED BY <1>1, <2>1, LeastNatural
<1>4. n \in a .. Len(t) /\ ~(First(t, a) <= First(t, n))
  BY <1>3
<1>5. First(t, a) \in Nat /\ First(t, n) \in Nat
  BY <1>2, <1>4, PrefixSums
<1>6. n > a
  <2>1. n # a
    BY <1>4, <1>5
  <2>2. QED BY <1>2, <1>4, <2>1
<1>7. n - 1 \in a .. Len(t) /\ n \in 1 .. Len(t) /\ n - 1 \in 0 .. Len(t)
  BY <1>2, <1>4, <1>6
<1>8. First(t, a) <= First(t, n - 1)
  <2>1. n - 1 \notin B
    BY <1>2, <1>3, <1>4
  <2>2. QED BY <1>7, <2>1
<1>9. First(t, n) = First(t, n - 1) + t[n].words /\ First(t, n - 1) \in Nat /\ t[n].words \in Nat
  BY <1>7, PrefixSums, TextLines
<1>10. QED BY <1>4, <1>5, <1>8, <1>9

\* word w is on line k; and a stretch holds it
OnLine(t, k, w) == First(t, k - 1) <= w /\ w < First(t, k)
Holds(v, w) == v[1] <= w /\ w < v[2]

(* A word is on one of the lines between two prefixes, which is not blank. *)
LEMMA WordHasLine ==
  ASSUME NEW t, Text(t), NEW a \in 1 .. Len(t) + 1, NEW b \in 0 .. Len(t), NEW w \in Nat, Holds(Stretch(t, a, b), w)
  PROVE  \E k \in 1 .. Len(t) : a <= k /\ k <= b /\ OnLine(t, k, w) /\ ~IsBlank(t[k])
<1> DEFINE B == {n \in 0 .. Len(t) : w < First(t, n)}
<1>1. Len(t) \in Nat /\ First(t, a - 1) <= w /\ w < First(t, b)
  BY TextLines DEF Stretch, Holds, First
<1>2. PICK k \in B : \A m \in B : k <= m
  <2>1. B \subseteq Nat /\ b \in B
    BY <1>1
  <2> HIDE DEF B
  <2>2. QED BY <2>1, LeastNatural
<1>3. k \in 0 .. Len(t) /\ w < First(t, k) /\ k <= b
  BY <1>1, <1>2
<1>4. \A n \in 0 .. Len(t) : First(t, n) \in Nat
  BY PrefixSums
<1>5. k >= a
  <2> SUFFICES ASSUME k <= a - 1 PROVE FALSE
    BY <1>1, <1>3
  <2>1. a - 1 \in k .. Len(t) /\ a - 1 \in 0 .. Len(t)
    BY <1>1, <1>3
  <2>2. First(t, k) <= First(t, a - 1)
    BY <1>3, <2>1, PrefixesGrow
  <2>3. QED BY <1>1, <1>3, <1>4, <2>1, <2>2
<1>6. k \in 1 .. Len(t) /\ k - 1 \in 0 .. Len(t)
  BY <1>1, <1>3, <1>5
<1>7. First(t, k - 1) <= w
  <2>1. k - 1 \notin B
    BY <1>1, <1>2, <1>6
  <2>2. First(t, k - 1) \in Nat
    BY <1>4, <1>6
  <2>3. QED BY <1>6, <2>1, <2>2
<1>8. ~IsBlank(t[k])
  <2>1. First(t, k) = First(t, k - 1) + t[k].words /\ First(t, k - 1) \in Nat /\ t[k].words \in Nat
    BY <1>4, <1>6, PrefixSums, TextLines
  <2>2. t[k].words # 0
    BY <1>3, <1>7, <2>1
  <2>3. QED BY <1>6, <2>2, TextLines
<1>9. QED BY <1>3, <1>5, <1>6, <1>7, <1>8 DEF OnLine

(* A stretch of lines holds the words that are on them.                    *)
LEMMA StretchHolds ==
  ASSUME NEW t, Text(t), NEW a \in 1 .. Len(t) + 1, NEW b \in 0 .. Len(t), NEW k \in 1 .. Len(t),
         NEW w \in Nat, OnLine(t, k, w)
  PROVE  Holds(Stretch(t, a, b), w) <=> a <= k /\ k <= b
<1>1. Len(t) \in Nat /\ Stretch(t, a, b) = <<First(t, a - 1), First(t, b)>>
  BY TextLines DEF Stretch, First
<1>2. /\ First(t, a - 1) \in Nat /\ First(t, b) \in Nat /\ First(t, k - 1) \in Nat /\ First(t, k) \in Nat
      /\ First(t, k - 1) <= w /\ w < First(t, k)
  <2>1. a - 1 \in 0 .. Len(t) /\ k - 1 \in 0 .. Len(t) /\ k \in 0 .. Len(t)
    BY <1>1
  <2>2. QED BY <2>1, PrefixSums DEF OnLine
<1>3. a <= k => First(t, a - 1) <= First(t, k - 1)
  <2>1. SUFFICES ASSUME a <= k PROVE First(t, a - 1) <= First(t, k - 1)
    OBVIOUS
  <2>2. a - 1 \in 0 .. Len(t) /\ k - 1 \in a - 1 .. Len(t)
    BY <1>1, <2>1
  <2>3. QED BY <2>2, PrefixesGrow
<1>4. ~(a <= k) => First(t, k) <= First(t, a - 1)
  <2>1. SUFFICES ASSUME ~(a <= k) PROVE First(t, k) <= First(t, a - 1)
    OBVIOUS
  <2>2. k \in 0 .. Len(t) /\ a - 1 \in k .. Len(t)
    BY <1>1, <2>1
  <2>3. QED BY <2>2, PrefixesGrow
<1>5. k <= b => First(t, k) <= First(t, b)
  <2>1. SUFFICES ASSUME k <= b PROVE First(t, k) <= First(t, b)
    OBVIOUS
  <2>2. k \in 0 .. Len(t) /\ b \in k .. Len(t)
    BY <1>1, <2>1
  <2>3. QED BY <2>2, PrefixesGrow
<1>6. ~(k <= b) => First(t, b) <= First(t, k - 1)
  <2>1. SUFFICES ASSUME ~(k <= b) PROVE First(t, b) <= First(t, k - 1)
    OBVIOUS
  <2>2. b \in 0 .. Len(t) /\ k - 1 \in b .. Len(t)
    BY <1>1, <2>1
  <2>3. QED BY <2>2, PrefixesGrow
<1>7. QED BY <1>1, <1>2, <1>3, <1>4, <1>5, <1>6 DEF Holds

(* Where a stretch lies, and that one with a line that is not blank has    *)
(* words.                                                                  *)
LEMMA StretchLies ==
  ASSUME NEW t, Text(t), NEW a \in 1 .. Len(t) + 1, NEW b \in 0 .. Len(t),
         NEW c \in a .. Len(t) + 1, NEW d \in 0 .. b, c <= d + 1
  PROVE  LET v == Stretch(t, a, b)
             u == Stretch(t, c, d)
         IN /\ u \in Nat \X Nat /\ v[1] <= u[1] /\ u[1] <= u[2] /\ u[2] <= v[2]
            /\ \A k \in c .. d : ~IsBlank(t[k]) => u[1] < u[2]
<1>1. /\ Len(t) \in Nat
      /\ Stretch(t, a, b) = <<First(t, a - 1), First(t, b)>> /\ Stretch(t, c, d) = <<First(t, c - 1), First(t, d)>>
  BY TextLines DEF Stretch, First
<1>2. /\ a - 1 \in 0 .. Len(t) /\ c - 1 \in a - 1 .. Len(t) /\ c - 1 \in 0 .. Len(t)
      /\ d \in c - 1 .. Len(t) /\ d \in 0 .. Len(t) /\ b \in d .. Len(t)
  BY <1>1
<1>3. First(t, c - 1) \in Nat /\ First(t, d) \in Nat
  BY <1>2, PrefixSums
<1>4. First(t, a - 1) <= First(t, c - 1) /\ First(t, c - 1) <= First(t, d) /\ First(t, d) <= First(t, b)
  BY <1>2, PrefixesGrow
<1>5. ASSUME NEW k \in c .. d, ~IsBlank(t[k]) PROVE First(t, c - 1) < First(t, d)
  <2>1. k \in 1 .. Len(t) /\ k - 1 \in c - 1 .. Len(t) /\ d \in k .. Len(t) /\ k \in 0 .. Len(t) /\ k - 1 \in 0 .. Len(t)
    BY <1>1, <1>2
  <2>2. First(t, k) = First(t, k - 1) + t[k].words /\ t[k].words \in Nat /\ t[k].words # 0 /\ First(t, k - 1) \in Nat
    BY <1>5, <2>1, PrefixSums, TextLines
  <2>3. First(t, c - 1) <= First(t, k - 1) /\ First(t, k) <= First(t, d)
    BY <1>2, <2>1, PrefixesGrow
  <2>4. QED BY <1>3, <2>2, <2>3
<1>6. QED BY <1>1, <1>3, <1>4, <1>5

-----------------------------------------------------------------------------
(********************************* Chunks **********************************)

\* the chunks of C lie within v, are not larger than n, and hold every word of v; and no word twice
Covers(C, v, n) ==
  /\ \A u \in C : /\ u \in Nat \X Nat /\ v[1] <= u[1] /\ u[1] < u[2] /\ u[2] <= v[2]
                  /\ Length(u) <= n
  /\ \A w \in Nat : Holds(v, w) => \E u \in C : Holds(u, w)
Cuts(C, v, n) ==
  /\ Covers(C, v, n)
  /\ \A u, x \in C, w \in Nat : Holds(u, w) /\ Holds(x, w) => u = x

\* the ranges of R lie within lines a..b, and every line that is not blank is in one of them
Lays(R, t, a, b) ==
  /\ \A r \in R : r \in (a .. b) \X (a .. b) /\ r[1] <= r[2]
  /\ \A k \in a .. b : ~IsBlank(t[k]) => \E r \in R : r[1] <= k /\ k <= r[2]
  /\ \A r, u \in R, k \in a .. b :
       ~IsBlank(t[k]) /\ r[1] <= k /\ k <= r[2] /\ u[1] <= k /\ k <= u[2] => r = u

(* What cuts each of the ranges that lay out some lines cuts those lines.  *)
LEMMA CutsTogether ==
  ASSUME NEW t, Text(t), NEW a \in 1 .. Len(t) + 1, NEW b \in 0 .. Len(t), a <= b + 1,
         NEW R, Lays(R, t, a, b), NEW n, NEW f,
         \A r \in R : Cuts(f[r], Stretch(t, r[1], r[2]), n)
  PROVE  Cuts(UNION {f[r] : r \in R}, Stretch(t, a, b), n)
<1> DEFINE C == UNION {f[r] : r \in R}
           v == Stretch(t, a, b)
           s(r) == Stretch(t, r[1], r[2])
<1>1. Len(t) \in Nat
  BY TextLines
<1>2. ASSUME NEW r \in R
      PROVE  /\ r[1] \in 1 .. Len(t) + 1 /\ r[2] \in 0 .. Len(t) /\ r[1] \in a .. Len(t) + 1 /\ r[2] \in 0 .. b
             /\ r[1] <= r[2] + 1 /\ r[1] \in a .. b /\ r[2] \in a .. b /\ r[1] <= r[2]
  <2>1. r[1] \in a .. b /\ r[2] \in a .. b /\ r[1] <= r[2]
    BY <1>2 DEF Lays
  <2>2. QED BY <1>1, <2>1
<1>3. ASSUME NEW r \in R
      PROVE  s(r) \in Nat \X Nat /\ v[1] <= s(r)[1] /\ s(r)[2] <= v[2]
  BY <1>2, StretchLies
<1>4. v \in Nat \X Nat
  <2>1. a \in a .. Len(t) + 1 /\ b \in 0 .. b
    BY <1>1
  <2>2. QED BY <2>1, StretchLies
<1>5. \A u \in C : \E r \in R : u \in f[r]
  OBVIOUS
<1>6. ASSUME NEW r \in R, NEW u \in f[r]
      PROVE  /\ u \in Nat \X Nat /\ s(r)[1] <= u[1] /\ u[1] < u[2] /\ u[2] <= s(r)[2] /\ Length(u) <= n
  BY <1>6 DEF Cuts, Covers
<1> HIDE DEF v, s, C
<1>7. ASSUME NEW u \in C
      PROVE  /\ u \in Nat \X Nat /\ v[1] <= u[1] /\ u[1] < u[2] /\ u[2] <= v[2] /\ Length(u) <= n
  <2>1. PICK r \in R : u \in f[r]
    BY <1>5
  <2>2. s(r) \in Nat \X Nat /\ v[1] <= s(r)[1] /\ s(r)[2] <= v[2]
    BY <1>3
  <2>3. u \in Nat \X Nat /\ s(r)[1] <= u[1] /\ u[1] < u[2] /\ u[2] <= s(r)[2] /\ Length(u) <= n
    BY <1>6, <2>1
  <2>4. u[1] \in Nat /\ u[2] \in Nat /\ s(r)[1] \in Nat /\ s(r)[2] \in Nat /\ v[1] \in Nat /\ v[2] \in Nat
    BY <1>4, <2>2, <2>3
  <2>5. QED BY <2>2, <2>3, <2>4
<1>8. ASSUME NEW w \in Nat, Holds(v, w) PROVE \E u \in C : Holds(u, w)
  <2>1. PICK k \in 1 .. Len(t) : a <= k /\ k <= b /\ OnLine(t, k, w) /\ ~IsBlank(t[k])
    BY <1>8, WordHasLine DEF v
  <2>2. PICK r \in R : r[1] <= k /\ k <= r[2]
    <3>1. k \in a .. b
      BY <1>1, <2>1
    <3>2. QED BY <2>1, <3>1 DEF Lays
  <2>3. Holds(s(r), w)
    BY <1>2, <2>1, <2>2, StretchHolds DEF s
  <2>4. PICK u \in f[r] : Holds(u, w)
    BY <2>3 DEF Cuts, Covers, s
  <2>5. QED BY <2>4 DEF C
<1>9. ASSUME NEW u \in C, NEW x \in C, NEW w \in Nat, Holds(u, w), Holds(x, w) PROVE u = x
  <2>1. PICK r \in R : u \in f[r]
    BY <1>5
  <2>2. PICK q \in R : x \in f[q]
    BY <1>5
  <2>3. Holds(s(r), w) /\ Holds(s(q), w)
    <3>1. ASSUME NEW z \in R, NEW y \in f[z], Holds(y, w) PROVE Holds(s(z), w)
      <4>1. y \in Nat \X Nat /\ s(z)[1] <= y[1] /\ y[2] <= s(z)[2]
        BY <1>6
      <4>2. y[1] \in Nat /\ y[2] \in Nat /\ s(z)[1] \in Nat /\ s(z)[2] \in Nat
        BY <1>3, <4>1
      <4>3. QED BY <3>1, <4>1, <4>2 DEF Holds
    <3>2. QED BY <1>9, <2>1, <2>2, <3>1
  <2>4. Holds(v, w)
    <3>1. s(r) \in Nat \X Nat /\ v[1] <= s(r)[1] /\ s(r)[2] <= v[2]
      BY <1>3
    <3>2. s(r)[1] \in Nat /\ s(r)[2] \in Nat /\ v[1] \in Nat /\ v[2] \in Nat
      BY <1>4, <3>1
    <3>3. QED BY <2>3, <3>1, <3>2 DEF Holds
  <2>5. PICK k \in 1 .. Len(t) : a <= k /\ k <= b /\ OnLine(t, k, w) /\ ~IsBlank(t[k])
    BY <2>4, WordHasLine DEF v
  <2>6. r[1] <= k /\ k <= r[2] /\ q[1] <= k /\ k <= q[2]
    <3>1. ASSUME NEW z \in R, Holds(s(z), w) PROVE z[1] <= k /\ k <= z[2]
      <4>1. z[1] \in 1 .. Len(t) + 1 /\ z[2] \in 0 .. Len(t)
        BY <1>2
      <4>2. QED BY <2>5, <3>1, <4>1, StretchHolds DEF s
    <3>2. QED BY <2>3, <3>1
  <2>7. r = q
    <3>1. k \in a .. b
      BY <1>1, <2>5
    <3>2. QED BY <2>5, <2>6, <3>1 DEF Lays
  <2>8. Cuts(f[r], s(r), n) /\ u \in f[r] /\ x \in f[r]
    BY <2>1, <2>2, <2>7 DEF s
  <2>9. QED BY <1>9, <2>8 DEF Cuts
<1>10. QED BY <1>7, <1>8, <1>9 DEF Cuts, Covers, C, v

(* A stretch with words in it that is small enough is its own chunk.       *)
LEMMA WholeCuts ==
  ASSUME NEW v \in Nat \X Nat, v[1] < v[2], NEW n, Length(v) <= n
  PROVE  Cuts({v}, v, n)
<1>1. v[1] \in Nat /\ v[2] \in Nat
  OBVIOUS
<1>2. \A u \in {v} : u \in Nat \X Nat /\ v[1] <= u[1] /\ u[1] < u[2] /\ u[2] <= v[2] /\ Length(u) <= n
  BY <1>1
<1>3. QED BY <1>2 DEF Cuts, Covers

-----------------------------------------------------------------------------
(******************************** Windows **********************************)

(* What windows step over: multiples of a positive number.                 *)
LEMMA Multiples ==
  ASSUME NEW d \in Nat \ {0}, NEW k \in Nat
  PROVE  k * d \in Nat /\ k <= k * d /\ (k + 1) * d = k * d + d
<1>1. k * d \in Nat /\ (k + 1) * d = k * d + d
  OBVIOUS
<1>2. k <= k * d
  <2>1. d >= 1
    OBVIOUS
  <2>2. k * (d - 1) >= 0
    BY <2>1
  <2>3. QED BY <2>2
<1>3. QED BY <1>1, <1>2

(* Multiples of one number are equal or a step apart.                      *)
LEMMA MultiplesApart ==
  ASSUME NEW d \in Nat \ {0}, NEW k \in Nat, NEW n \in Nat, k < n
  PROVE  k * d + d <= n * d
<1>1. (n - (k + 1)) * d >= 0
  OBVIOUS
<1>2. (n - (k + 1)) * d = n * d - (k + 1) * d
  OBVIOUS
<1>3. (k + 1) * d = k * d + d /\ k * d \in Nat /\ n * d \in Nat
  BY Multiples
<1>4. QED BY <1>1, <1>2, <1>3

(* The least of some numbers.                                              *)
LEMMA MinIn ==
  ASSUME NEW S, S # {}, S \subseteq Nat
  PROVE  Min(S) \in S /\ \A x \in S : Min(S) <= x
<1>1. \E x \in S : \A y \in S : x <= y
  BY LeastNatural
<1>2. QED BY <1>1 DEF Min

(* Windows hold every word of what they are cut from, whatever they        *)
(* overlap; and when they do not, no word twice.                           *)
LEMMA WindowsCover ==
  ASSUME NEW v \in Nat \X Nat, v[1] <= v[2], NEW window \in Nat \ {0}, NEW overlap \in 0 .. window - 1
  PROVE  /\ Covers(Windows(v, window, overlap), v, window)
         /\ overlap = 0 => Cuts(Windows(v, window, overlap), v, window)
<1> DEFINE d == window - overlap
           p == v[1]
           q == v[2]
           starts == {p + k * d : k \in 0 .. q - p}
           open == {s \in starts : s < q /\ (s = p \/ s + overlap < q)}
           end(s) == Min({s + window, q})
           W == Windows(v, window, overlap)
<1>1. p \in Nat /\ q \in Nat /\ p <= q /\ d \in Nat \ {0} /\ window = d + overlap /\ overlap \in Nat
  OBVIOUS
<1>2. W = {<<s, end(s)>> : s \in open}
  BY DEF Windows, Length
<1>3. ASSUME NEW s \in open
      PROVE  /\ s \in Nat /\ p <= s /\ s < q /\ (s = p \/ s + overlap < q)
             /\ \E k \in 0 .. q - p : s = p + k * d
  <2>1. PICK k \in 0 .. q - p : s = p + k * d
    BY <1>3
  <2>2. k * d \in Nat
    BY <1>1, <2>1, Multiples
  <2>3. QED BY <1>1, <1>3, <2>1, <2>2
<1>4. ASSUME NEW k \in 0 .. q - p, p + k * d < q, p + k * d = p \/ p + k * d + overlap < q
      PROVE  p + k * d \in open
  BY <1>4
<1>5. ASSUME NEW s \in Nat
      PROVE  end(s) = (IF s + window <= q THEN s + window ELSE q)
  <2>1. {s + window, q} # {} /\ {s + window, q} \subseteq Nat
    BY <1>1, <1>5
  <2>2. end(s) \in {s + window, q} /\ end(s) <= s + window /\ end(s) <= q
    BY <2>1, MinIn
  <2>3. QED BY <1>1, <1>5, <2>2
<1>6. p < q => p \in open
  <2>1. SUFFICES ASSUME p < q PROVE p \in open
    OBVIOUS
  <2>2. p = p + 0 * d /\ 0 \in 0 .. q - p
    BY <1>1, <2>1
  <2>3. QED BY <1>4, <2>1, <2>2
<1> HIDE DEF open, starts, d, p, q, W, end
<1>7. ASSUME NEW u \in W
      PROVE  \E s \in open : /\ u = <<s, end(s)>> /\ u \in Nat \X Nat /\ s < u[2] /\ u[2] <= q
                             /\ u[2] <= s + window /\ u[1] = s
  <2>1. PICK s \in open : u = <<s, end(s)>>
    BY <1>2
  <2>2. s \in Nat /\ s < q
    BY <1>3
  <2>3. end(s) \in Nat /\ s < end(s) /\ end(s) <= q /\ end(s) <= s + window
    BY <1>1, <1>5, <2>2
  <2>4. QED BY <2>1, <2>2, <2>3
<1>8. ASSUME NEW u \in W
      PROVE  u \in Nat \X Nat /\ p <= u[1] /\ u[1] < u[2] /\ u[2] <= q /\ Length(u) <= window
  <2>1. PICK s \in open : /\ u = <<s, end(s)>> /\ u \in Nat \X Nat /\ s < u[2] /\ u[2] <= q
                          /\ u[2] <= s + window /\ u[1] = s
    BY <1>7
  <2>2. p <= s /\ s \in Nat
    BY <1>3
  <2>3. u[2] \in Nat
    BY <2>1
  <2>4. QED BY <1>1, <2>1, <2>2, <2>3 DEF Length
<1>9. ASSUME NEW w \in Nat, p <= w, w < q PROVE \E u \in W : Holds(u, w)
  <2> DEFINE before == {k \in 0 .. q - p : p + k * d \in open /\ p + k * d <= w}
             last == Max(before)
  <2>1. last \in before /\ \A k \in before : k <= last
    <3>1. p = p + 0 * d /\ 0 \in 0 .. q - p
      BY <1>1
    <3>2. 0 \in before
      BY <1>1, <1>6, <1>9, <3>1
    <3>3. IsFiniteSet(before) /\ before \subseteq Int
      <4>1. IsFiniteSet(0 .. q - p) /\ 0 .. q - p \subseteq Int
        BY <1>1, FS_Interval
      <4>2. QED BY <4>1, FS_Subset
    <3> HIDE DEF before
    <3>4. \E m \in before : \A k \in before : m >= k
      <4> DEFINE f == [k \in before |-> k]
      <4>1. IntegersOn(f, before)
        BY <3>3 DEF IntegersOn
      <4>2. \E m \in before : \A k \in before : f[m] >= f[k]
        BY <3>2, <3>3, <4>1, GreatestValue
      <4>3. QED BY <4>2
    <3>5. \E m \in before : \A k \in before : k <= m
      BY <3>3, <3>4
    <3>6. last \in before /\ \A k \in before : last >= k
      BY <3>4 DEF Max
    <3>7. QED BY <3>3, <3>6
  <2>2. /\ last \in Nat /\ last \in 0 .. q - p /\ p + last * d \in open /\ p + last * d <= w
    BY <1>1, <2>1
  <2>3. last * d \in Nat /\ last <= last * d /\ (last + 1) * d = last * d + d
    BY <1>1, <2>2, Multiples
  <2>4. \A k \in 0 .. q - p : p + k * d \in open /\ p + k * d <= w => k <= last
    BY <2>1
  <2> HIDE DEF before, last
  <2> DEFINE s == p + last * d
  <2>5. s \in Nat
    BY <1>1, <2>3
  <2>6. w < s + window
    <3> SUFFICES ASSUME s + window <= w PROVE FALSE
      BY <1>1, <2>5
    <3>1. p + (last + 1) * d = s + d /\ s + d <= w /\ s + d < q /\ s + d + overlap < q
      BY <1>1, <1>9, <2>3, <2>5
    <3>2. last + 1 \in 0 .. q - p
      BY <1>1, <2>2, <2>3, <3>1
    <3>3. p + (last + 1) * d \in open
      BY <1>4, <3>1, <3>2
    <3>4. last + 1 <= last
      BY <2>4, <3>1, <3>2, <3>3
    <3>5. QED BY <2>2, <3>4
  <2>7. w < end(s) /\ s \in open /\ s <= w
    BY <1>1, <1>5, <1>9, <2>2, <2>5, <2>6
  <2>8. <<s, end(s)>> \in W
    BY <1>2, <2>7
  <2>9. QED BY <2>7, <2>8 DEF Holds
<1>10. Covers(W, v, window)
  BY <1>8, <1>9 DEF Covers, Holds, p, q
<1>11. ASSUME overlap = 0, NEW u \in W, NEW x \in W, NEW w \in Nat, Holds(u, w), Holds(x, w)
       PROVE  u = x
  <2>1. PICK s \in open : u = <<s, end(s)>> /\ u[2] <= s + window /\ u[1] = s /\ u \in Nat \X Nat
    BY <1>7
  <2>2. PICK z \in open : x = <<z, end(z)>> /\ x[2] <= z + window /\ x[1] = z /\ x \in Nat \X Nat
    BY <1>7
  <2>3. PICK k \in 0 .. q - p : s = p + k * d
    BY <1>3
  <2>4. PICK m \in 0 .. q - p : z = p + m * d
    BY <1>3
  <2>5. k \in Nat /\ m \in Nat /\ k * d \in Nat /\ m * d \in Nat
    BY <1>1, <2>3, <2>4, Multiples
  <2>6. /\ s <= w /\ w < s + d /\ z <= w /\ w < z + d
    <3>1. u[2] \in Nat /\ x[2] \in Nat /\ s \in Nat /\ z \in Nat /\ window = d
      BY <1>1, <1>3, <1>11, <2>1, <2>2
    <3>2. QED BY <1>1, <1>11, <2>1, <2>2, <3>1 DEF Holds
  <2>7. k < m => k * d + d <= m * d
    BY <1>1, <2>5, MultiplesApart
  <2>8. m < k => m * d + d <= k * d
    BY <1>1, <2>5, MultiplesApart
  <2>9. k = m
    BY <1>1, <2>3, <2>4, <2>5, <2>6, <2>7, <2>8
  <2>10. QED BY <2>1, <2>2, <2>3, <2>4, <2>9
<1>12. QED BY <1>10, <1>11 DEF Cuts, W

-----------------------------------------------------------------------------
(************************ Paragraphs and sentences *************************)

(* The runs between ends hold every place once.                            *)
LEMMA RunsPart ==
  ASSUME NEW i \in Nat, NEW j \in Nat, NEW ends
  PROVE  /\ \A r \in Runs(i, j, ends) :
              /\ r \in (i .. j) \X (i .. j) /\ r[1] <= r[2] /\ (r[1] = i \/ r[1] - 1 \in ends)
              /\ \A k \in r[1] .. r[2] - 1 : k \notin ends
         /\ \A k \in i .. j : \E r \in Runs(i, j, ends) : r[1] <= k /\ k <= r[2]
         /\ \A r, u \in Runs(i, j, ends), k \in i .. j :
              r[1] <= k /\ k <= r[2] /\ u[1] <= k /\ k <= u[2] => r = u
<1> DEFINE R == Runs(i, j, ends)
<1>1. ASSUME NEW r \in R
      PROVE  /\ r \in (i .. j) \X (i .. j) /\ r[1] \in i .. j /\ r[2] \in i .. j /\ r[1] <= r[2]
             /\ r[1] = i \/ r[1] - 1 \in ends
             /\ r[2] = j \/ r[2] \in ends
             /\ r = <<r[1], r[2]>>
             /\ \A k \in r[1] .. r[2] - 1 : k \notin ends
  BY <1>1 DEF Runs
<1>2. ASSUME NEW k \in i .. j PROVE \E r \in R : r[1] <= k /\ k <= r[2]
  <2> DEFINE A == {a \in i .. k : a = i \/ a - 1 \in ends}
             B == {b \in k .. j : b = j \/ b \in ends}
             id == [x \in A |-> x]
  <2>1. k \in Nat /\ i <= k /\ k <= j
    OBVIOUS
  <2>2. i \in A /\ j \in B /\ A \subseteq Int /\ B \subseteq Nat
    BY <2>1
  <2>3. IsFiniteSet(A)
    <3>1. IsFiniteSet(i .. k)
      BY <2>1, FS_Interval
    <3>2. QED BY <3>1, FS_Subset
  <2>4. \A a \in A : a \in i .. k /\ (a = i \/ a - 1 \in ends)
    OBVIOUS
  <2>5. \A a \in i .. k : a = i \/ a - 1 \in ends => a \in A
    OBVIOUS
  <2>6. \A b \in B : b \in k .. j /\ (b = j \/ b \in ends)
    OBVIOUS
  <2>7. \A b \in k .. j : b = j \/ b \in ends => b \in B
    OBVIOUS
  <2> HIDE DEF A, B
  <2>8. IntegersOn(id, A)
    BY <2>2 DEF IntegersOn
  <2>9. PICK a \in A : \A x \in A : id[a] >= id[x]
    BY <2>2, <2>3, <2>8, GreatestValue
  <2>10. PICK b \in B : \A x \in B : b <= x
    BY <2>2, LeastNatural
  <2>11. \A x \in A : x <= a
    BY <2>2, <2>9
  <2>12. a \in i .. k /\ b \in k .. j /\ (a = i \/ a - 1 \in ends) /\ (b = j \/ b \in ends)
    BY <2>4, <2>6
  <2>13. ASSUME NEW x \in a .. b - 1 PROVE x \notin ends
    <3> SUFFICES ASSUME x \in ends PROVE FALSE
      OBVIOUS
    <3>1. CASE x < k
      <4>1. x + 1 \in i .. k /\ (x + 1) - 1 = x
        BY <2>1, <2>12, <2>13, <3>1
      <4>2. x + 1 \in A
        BY <2>5, <4>1
      <4>3. QED BY <2>11, <2>12, <2>13, <4>1, <4>2
    <3>2. CASE x >= k
      <4>1. x \in k .. j
        BY <2>1, <2>12, <2>13, <3>2
      <4>2. x \in B
        BY <2>7, <4>1
      <4>3. QED BY <2>1, <2>10, <2>12, <2>13, <4>1, <4>2
    <3>3. QED BY <2>1, <2>12, <2>13, <3>1, <3>2
  <2>14. <<a, b>> \in (i .. j) \X (i .. j) /\ a <= b /\ a <= k /\ k <= b
    BY <2>1, <2>12
  <2>15. <<a, b>> \in R
    BY <2>12, <2>13, <2>14 DEF Runs
  <2>16. QED BY <2>14, <2>15
<1> HIDE DEF R
<1>3. ASSUME NEW r \in R, NEW u \in R, NEW k \in i .. j, r[1] <= k, k <= r[2], u[1] <= k, k <= u[2]
      PROVE  r = u
  <2>1. /\ r[1] \in i .. j /\ r[2] \in i .. j /\ u[1] \in i .. j /\ u[2] \in i .. j
        /\ r[1] = i \/ r[1] - 1 \in ends
        /\ u[1] = i \/ u[1] - 1 \in ends
        /\ r[2] = j \/ r[2] \in ends
        /\ u[2] = j \/ u[2] \in ends
    BY <1>1
  <2>2. (\A x \in r[1] .. r[2] - 1 : x \notin ends) /\ (\A x \in u[1] .. u[2] - 1 : x \notin ends)
    BY <1>1
  <2>3. r[1] = u[1]
    <3>1. ~(r[1] < u[1])
      <4> SUFFICES ASSUME r[1] < u[1] PROVE FALSE
        OBVIOUS
      <4>1. u[1] - 1 \in r[1] .. r[2] - 1 /\ u[1] # i
        BY <1>3, <2>1
      <4>2. QED BY <2>1, <2>2, <4>1
    <3>2. ~(u[1] < r[1])
      <4> SUFFICES ASSUME u[1] < r[1] PROVE FALSE
        OBVIOUS
      <4>1. r[1] - 1 \in u[1] .. u[2] - 1 /\ r[1] # i
        BY <1>3, <2>1
      <4>2. QED BY <2>1, <2>2, <4>1
    <3>3. QED BY <2>1, <3>1, <3>2
  <2>4. r[2] = u[2]
    <3>1. ~(r[2] < u[2])
      <4> SUFFICES ASSUME r[2] < u[2] PROVE FALSE
        OBVIOUS
      <4>1. r[2] \in u[1] .. u[2] - 1 /\ r[2] # j
        BY <1>3, <2>1
      <4>2. QED BY <2>1, <2>2, <4>1
    <3>2. ~(u[2] < r[2])
      <4> SUFFICES ASSUME u[2] < r[2] PROVE FALSE
        OBVIOUS
      <4>1. u[2] \in r[1] .. r[2] - 1 /\ u[2] # j
        BY <1>3, <2>1
      <4>2. QED BY <2>1, <2>2, <4>1
    <3>3. QED BY <2>1, <3>1, <3>2
  <2>5. r = <<r[1], r[2]>> /\ u = <<u[1], u[2]>>
    BY <1>1
  <2>6. QED BY <2>3, <2>4, <2>5
<1>4. \A r \in R : /\ r \in (i .. j) \X (i .. j) /\ r[1] <= r[2] /\ (r[1] = i \/ r[1] - 1 \in ends)
                   /\ \A k \in r[1] .. r[2] - 1 : k \notin ends
  BY <1>1
<1>5. QED BY <1>2, <1>3, <1>4 DEF R

(* The runs between ends lay out the lines they are runs of.               *)
LEMMA RunsLay ==
  ASSUME NEW t, NEW i \in Nat, NEW j \in Nat, NEW ends
  PROVE  Lays(Runs(i, j, ends), t, i, j)
BY RunsPart DEF Lays

(* A paragraph has no blank line, and every other line is in one.          *)
LEMMA ParagraphLines ==
  ASSUME NEW t, NEW i \in Nat, NEW j \in Nat
  PROVE  /\ Lays(Paragraphs(t, i, j), t, i, j)
         /\ \A r \in Paragraphs(t, i, j), k \in i .. j : r[1] <= k /\ k <= r[2] => ~IsBlank(t[k])
<1> DEFINE ends == {k \in i .. j - 1 : IsBlank(t[k]) # IsBlank(t[k + 1])}
           R == Runs(i, j, ends)
<1>1. Paragraphs(t, i, j) = {r \in R : ~IsBlank(t[r[1]])}
  BY DEF Paragraphs
<1>2. \A k \in i .. j - 1 : k \notin ends => IsBlank(t[k]) = IsBlank(t[k + 1])
  OBVIOUS
<1> HIDE DEF ends
<1>3. /\ \A r \in R : /\ r \in (i .. j) \X (i .. j) /\ r[1] <= r[2]
                      /\ \A k \in r[1] .. r[2] - 1 : k \notin ends
      /\ \A k \in i .. j : \E r \in R : r[1] <= k /\ k <= r[2]
      /\ \A r, u \in R, k \in i .. j : r[1] <= k /\ k <= r[2] /\ u[1] <= k /\ k <= u[2] => r = u
  BY RunsPart
<1> HIDE DEF R
<1>4. ASSUME NEW r \in R, NEW k \in i .. j, r[1] <= k, k <= r[2]
      PROVE  IsBlank(t[k]) = IsBlank(t[r[1]])
  <2> DEFINE B == {n \in r[1] .. r[2] : IsBlank(t[n]) # IsBlank(t[r[1]])}
  <2>1. SUFFICES ASSUME B # {} PROVE FALSE
    BY <1>4
  <2>2. r[1] \in i .. j /\ r[2] \in i .. j
    BY <1>3
  <2>3. PICK n \in B : \A m \in B : n <= m
    <3>1. B \subseteq Nat
      BY <2>2
    <3> HIDE DEF B
    <3>2. QED BY <2>1, <3>1, LeastNatural
  <2>4. n \in r[1] .. r[2] /\ IsBlank(t[n]) # IsBlank(t[r[1]])
    BY <2>3
  <2>5. n # r[1]
    BY <2>4
  <2>6. n - 1 \in r[1] .. r[2] - 1 /\ n - 1 \in r[1] .. r[2] /\ n - 1 \in i .. j - 1 /\ (n - 1) + 1 = n
    BY <2>2, <2>4, <2>5
  <2>7. IsBlank(t[n - 1]) = IsBlank(t[r[1]])
    <3>1. n - 1 \notin B
      BY <2>2, <2>3, <2>4
    <3>2. QED BY <2>6, <3>1
  <2>8. n - 1 \notin ends
    BY <1>3, <2>6
  <2>9. IsBlank(t[n - 1]) = IsBlank(t[(n - 1) + 1])
    BY <1>2, <2>6, <2>8
  <2>10. QED BY <2>4, <2>6, <2>7, <2>9
<1>5. \A r \in Paragraphs(t, i, j), k \in i .. j : r[1] <= k /\ k <= r[2] => ~IsBlank(t[k])
  BY <1>1, <1>4
<1>6. ASSUME NEW k \in i .. j, ~IsBlank(t[k]) PROVE \E r \in Paragraphs(t, i, j) : r[1] <= k /\ k <= r[2]
  <2>1. PICK r \in R : r[1] <= k /\ k <= r[2]
    BY <1>3
  <2>2. IsBlank(t[k]) = IsBlank(t[r[1]])
    BY <1>4, <2>1
  <2>3. QED BY <1>1, <1>6, <2>1, <2>2
<1>7. QED BY <1>1, <1>3, <1>5, <1>6 DEF Lays

(* Paragraphs, cut into sentences and those into windows where they are    *)
(* too large, hold every word once.                                        *)
LEMMA ParagraphSentenceCuts ==
  ASSUME NEW t, Text(t), NEW i \in 1 .. Len(t) + 1, NEW j \in 0 .. Len(t), i <= j + 1, NEW n \in Nat \ {0}
  PROVE  Cuts(ParagraphSentence(t, i, j, n), Stretch(t, i, j), n)
<1> DEFINE v(r) == Stretch(t, r[1], r[2])
           Q(r) == Sentences(t, r[1], r[2])
           pieces(r) == [s \in Q(r) |-> Windows(v(s), n, 0)]
           cut(r) == IF Length(v(r)) <= n THEN {v(r)} ELSE UNION {Windows(v(s), n, 0) : s \in Q(r)}
           P == Paragraphs(t, i, j)
           f == [r \in P |-> cut(r)]
<1>1. Len(t) \in Nat /\ i \in Nat /\ j \in Nat
  BY TextLines
<1>2. ParagraphSentence(t, i, j, n) = UNION {f[r] : r \in P}
  BY DEF ParagraphSentence
<1>3. Lays(P, t, i, j) /\ \A r \in P, k \in i .. j : r[1] <= k /\ k <= r[2] => ~IsBlank(t[k])
  BY <1>1, ParagraphLines
<1>4. ASSUME NEW r \in P
      PROVE  /\ r[1] \in 1 .. Len(t) + 1 /\ r[2] \in 0 .. Len(t) /\ r[1] <= r[2] /\ r[1] \in i .. j /\ r[2] \in i .. j
             /\ r[1] <= r[2] + 1 /\ r[1] \in 1 .. Len(t)
  <2>1. r \in (i .. j) \X (i .. j) /\ r[1] <= r[2]
    BY <1>3, <1>4 DEF Lays
  <2>2. QED BY <1>1, <2>1
<1>5. ASSUME NEW a \in 1 .. Len(t), NEW b \in a .. Len(t), ~IsBlank(t[a])
      PROVE  /\ Stretch(t, a, b) \in Nat \X Nat /\ Stretch(t, a, b)[1] < Stretch(t, a, b)[2]
  <2>1. a \in 1 .. Len(t) + 1 /\ b \in 0 .. Len(t) /\ a \in a .. Len(t) + 1 /\ b \in 0 .. b /\ a \in a .. b /\ a <= b + 1
    BY <1>1
  <2>2. QED BY <1>5, <2>1, StretchLies
<1>6. ASSUME NEW r \in P PROVE Cuts(cut(r), v(r), n)
  <2>1. CASE Length(v(r)) <= n
    <3>1. ~IsBlank(t[r[1]])
      BY <1>3, <1>4
    <3>2. r[2] \in r[1] .. Len(t)
      BY <1>1, <1>4
    <3>3. v(r) \in Nat \X Nat /\ v(r)[1] < v(r)[2]
      BY <1>4, <1>5, <3>1, <3>2
    <3>4. Cuts({v(r)}, v(r), n)
      BY <2>1, <3>3, WholeCuts
    <3>5. QED BY <2>1, <3>4
  <2>2. CASE ~(Length(v(r)) <= n)
    <3>1. Lays(Q(r), t, r[1], r[2])
      <4>1. r[1] \in Nat /\ r[2] \in Nat
        BY <1>1, <1>4
      <4>2. QED BY <4>1, RunsLay DEF Sentences
    <3>2. ASSUME NEW s \in Q(r) PROVE Cuts(pieces(r)[s], v(s), n)
      <4>1. s \in (r[1] .. r[2]) \X (r[1] .. r[2]) /\ s[1] <= s[2]
        BY <3>1, <3>2 DEF Lays
      <4>2. s[1] \in 1 .. Len(t) /\ s[2] \in s[1] .. Len(t) /\ s[1] \in i .. j /\ r[1] <= s[1] /\ s[1] <= r[2]
        BY <1>1, <1>4, <4>1
      <4>3. ~IsBlank(t[s[1]])
        BY <1>3, <4>2
      <4>4. v(s) \in Nat \X Nat /\ v(s)[1] < v(s)[2]
        BY <1>5, <4>2, <4>3
      <4>5. v(s)[1] <= v(s)[2] /\ 0 \in 0 .. n - 1
        BY <4>4
      <4>6. Cuts(Windows(v(s), n, 0), v(s), n)
        BY <4>4, <4>5, WindowsCover
      <4>7. QED BY <4>6
    <3>3. Cuts(UNION {pieces(r)[s] : s \in Q(r)}, v(r), n)
      <4> HIDE DEF Q, pieces
      <4>1. QED BY <1>4, <3>1, <3>2, CutsTogether
    <3>4. UNION {pieces(r)[s] : s \in Q(r)} = UNION {Windows(v(s), n, 0) : s \in Q(r)}
      OBVIOUS
    <3>5. QED BY <2>2, <3>3, <3>4
  <2>3. QED BY <2>1, <2>2
<1>7. \A r \in P : Cuts(f[r], Stretch(t, r[1], r[2]), n)
  BY <1>6
<1> HIDE DEF P, f
<1>8. Cuts(UNION {f[r] : r \in P}, Stretch(t, i, j), n)
  BY <1>3, <1>7, CutsTogether
<1>9. QED BY <1>2, <1>8

-----------------------------------------------------------------------------
(**************************** Markdown blocks ******************************)

\* where a search that ends with line j finds the first line of B, or the place after it
FirstOf(B, j) == Min(B \cup {j + 1})

(* A search stops where it first finds, or after the last line.            *)
LEMMA FirstFound ==
  ASSUME NEW i \in Nat, NEW j \in Nat, i <= j + 1, NEW B, B \subseteq i .. j
  PROVE  /\ FirstOf(B, j) \in i .. j + 1
         /\ FirstOf(B, j) \in B \/ FirstOf(B, j) = j + 1
         /\ \A k \in i .. j : k < FirstOf(B, j) => k \notin B
<1> DEFINE S == B \cup {j + 1}
<1>1. S # {} /\ S \subseteq Nat /\ S \subseteq i .. j + 1
  OBVIOUS
<1>2. \A k \in B : k \in S
  OBVIOUS
<1>3. \A k \in S : k \in B \/ k = j + 1
  OBVIOUS
<1> HIDE DEF S
<1>4. Min(S) \in S /\ \A x \in S : Min(S) <= x
  BY <1>1, MinIn
<1>5. Min(S) \in Nat /\ Min(S) \in i .. j + 1
  BY <1>1, <1>4
<1>6. QED BY <1>1, <1>2, <1>3, <1>4, <1>5 DEF FirstOf, S

IsTable(t, i, j) == t[i].shape \in {"row", "rule"} /\ i < j /\ t[i + 1].shape = "rule"

(* A block ends within its text, and a table holds nothing but rows.       *)
LEMMA BlockEnds ==
  ASSUME NEW t, NEW i \in Nat \ {0}, NEW j \in Nat, i <= j
  PROVE  /\ BlockEnd(t, i, j) \in i .. j
         /\ IsTable(t, i, j) => /\ i + 1 <= BlockEnd(t, i, j)
                                /\ \A k \in i + 2 .. BlockEnd(t, i, j) : t[k].shape \in {"row", "rule"}
<1> DEFINE shape == t[i].shape
           fence == {k \in i + 1 .. j : ~(t[k].shape # "fence")}
           table == {k \in i + 2 .. j : ~(t[k].shape \in {"row", "rule"})}
           quote == {k \in i .. j : ~(t[k].shape = "quote")}
           list == {k \in i .. j : ~(~IsBlank(t[k]))}
           text == {k \in i .. j : ~Continues(t[k])}
<1>1. IsTable(t, i, j) => shape \in {"row", "rule"} /\ i < j
  BY DEF IsTable
<1>2. CASE shape \in {"blank", "heading"}
  <2>1. BlockEnd(t, i, j) = i
    BY <1>2 DEF BlockEnd
  <2>2. QED BY <1>1, <1>2, <2>1
<1>3. CASE shape = "fence"
  <2>1. BlockEnd(t, i, j) = Min({FirstOf(fence, j), j})
    BY <1>3 DEF BlockEnd, Until, FirstOf
  <2>2. i + 1 \in Nat /\ i + 1 <= j + 1 /\ fence \subseteq i + 1 .. j
    OBVIOUS
  <2> HIDE DEF fence
  <2>3. FirstOf(fence, j) \in i + 1 .. j + 1
    BY <2>2, FirstFound
  <2>4. {FirstOf(fence, j), j} # {} /\ {FirstOf(fence, j), j} \subseteq Nat
    BY <2>3
  <2>5. Min({FirstOf(fence, j), j}) \in {FirstOf(fence, j), j} /\ Min({FirstOf(fence, j), j}) <= j
    BY <2>4, MinIn
  <2>6. Min({FirstOf(fence, j), j}) \in i .. j
    BY <2>3, <2>5
  <2>7. QED BY <1>1, <1>3, <2>1, <2>6
<1>4. CASE IsTable(t, i, j)
  <2>1. BlockEnd(t, i, j) = FirstOf(table, j) - 1
    BY <1>1, <1>4 DEF BlockEnd, Until, FirstOf, IsTable
  <2>2. i + 2 \in Nat /\ i + 2 <= j + 1 /\ table \subseteq i + 2 .. j
    BY <1>1, <1>4
  <2>3. \A k \in i + 2 .. j : k \notin table => t[k].shape \in {"row", "rule"}
    OBVIOUS
  <2> HIDE DEF table
  <2>4. FirstOf(table, j) \in i + 2 .. j + 1 /\ \A k \in i + 2 .. j : k < FirstOf(table, j) => k \notin table
    BY <2>2, FirstFound
  <2>5. \A k \in i + 2 .. FirstOf(table, j) - 1 : k \in i + 2 .. j /\ k < FirstOf(table, j)
    BY <2>4
  <2>6. \A k \in i + 2 .. FirstOf(table, j) - 1 : t[k].shape \in {"row", "rule"}
    BY <2>3, <2>4, <2>5
  <2>7. FirstOf(table, j) - 1 \in i .. j /\ i + 1 <= FirstOf(table, j) - 1
    BY <2>4
  <2>8. QED BY <2>1, <2>6, <2>7
<1>5. ASSUME NEW B, B \subseteq i .. j, i \notin B PROVE FirstOf(B, j) - 1 \in i .. j
  <2>1. FirstOf(B, j) \in i .. j + 1 /\ (FirstOf(B, j) \in B \/ FirstOf(B, j) = j + 1)
    <3>1. i <= j + 1
      OBVIOUS
    <3>2. QED BY <1>5, <3>1, FirstFound
  <2>2. FirstOf(B, j) # i
    BY <1>5, <2>1
  <2>3. QED BY <2>1, <2>2
<1>6. CASE shape = "quote"
  <2>1. BlockEnd(t, i, j) = FirstOf(quote, j) - 1
    BY <1>6 DEF BlockEnd, Until, FirstOf
  <2>2. quote \subseteq i .. j /\ i \notin quote
    BY <1>6
  <2>3. FirstOf(quote, j) - 1 \in i .. j
    BY <1>5, <2>2
  <2>4. QED BY <1>1, <1>6, <2>1, <2>3
<1>7. CASE shape = "item"
  <2>1. BlockEnd(t, i, j) = FirstOf(list, j) - 1
    BY <1>7 DEF BlockEnd, Until, FirstOf
  <2>2. list \subseteq i .. j /\ i \notin list
    BY <1>7 DEF IsBlank
  <2>3. FirstOf(list, j) - 1 \in i .. j
    BY <1>5, <2>2
  <2>4. QED BY <1>1, <1>7, <2>1, <2>3
<1>8. CASE shape \notin {"blank", "heading", "fence", "quote", "item"} /\ ~IsTable(t, i, j)
  <2>1. BlockEnd(t, i, j) = FirstOf(text, j) - 1
    BY <1>8 DEF BlockEnd, Until, FirstOf, IsTable
  <2>2. text \subseteq i .. j /\ i \notin text
    BY <1>8 DEF Continues
  <2>3. FirstOf(text, j) - 1 \in i .. j
    BY <1>5, <2>2
  <2>4. QED BY <1>8, <2>1, <2>3
<1>9. QED BY <1>2, <1>3, <1>4, <1>6, <1>7, <1>8

(* The pieces of a block hold each of its lines but blank ones once, and   *)
(* start with such a line.                                                 *)
LEMMA PiecesLay ==
  ASSUME NEW t, NEW i \in Nat \ {0}, NEW j \in Nat, i <= j
  PROVE  /\ Lays(Pieces(t, i, j), t, i, BlockEnd(t, i, j))
         /\ \A p \in Pieces(t, i, j) : ~IsBlank(t[p[1]])
<1> DEFINE e == BlockEnd(t, i, j)
           header == t[i].shape \in {"row", "rule"} /\ e > i /\ t[i + 1].shape = "rule"
           ends == {k \in i .. e - 1 : t[k + 1].shape = "item"}
           P == Pieces(t, i, j)
<1>1. e \in i .. j /\ (IsTable(t, i, j) => i + 1 <= e /\ \A k \in i + 2 .. e : t[k].shape \in {"row", "rule"})
  BY BlockEnds
<1>2. P = CASE IsBlank(t[i]) -> {}
            [] header -> {<<i, i + 1>>} \cup {<<k, k>> : k \in i + 2 .. e}
            [] t[i].shape = "item" -> Runs(i, e, ends)
            [] OTHER -> {<<i, e>>}
  BY DEF Pieces
<1>3. IsBlank(t[i]) => e = i
  BY DEF IsBlank, BlockEnd
<1>4. \A k \in ends : k \in i .. e - 1 /\ t[k + 1].shape = "item"
  OBVIOUS
<1> HIDE DEF e, ends, P
<1>5. CASE IsBlank(t[i])
  <2>1. P = {}
    BY <1>2, <1>5 DEF IsBlank
  <2>2. \A k \in i .. e : k = i
    BY <1>3, <1>5
  <2>3. Lays(P, t, i, e)
    BY <1>5, <2>1, <2>2 DEF Lays
  <2>4. QED BY <2>1, <2>3 DEF P, e
<1>6. CASE header
  <2>1. P = {<<i, i + 1>>} \cup {<<k, k>> : k \in i + 2 .. e}
    BY <1>2, <1>6 DEF IsBlank
  <2>2. i + 1 <= e /\ \A k \in i + 2 .. e : t[k].shape \in {"row", "rule"}
    <3>1. IsTable(t, i, j)
      BY <1>1, <1>6 DEF IsTable
    <3>2. QED BY <1>1, <3>1
  <2>3. \A p \in P : p = <<i, i + 1>> \/ \E k \in i + 2 .. e : p = <<k, k>>
    BY <2>1
  <2>4. \A p \in P : p \in (i .. e) \X (i .. e) /\ p[1] <= p[2] /\ ~IsBlank(t[p[1]])
    <3>1. \A k \in i + 2 .. e : <<k, k>> \in (i .. e) \X (i .. e) /\ ~IsBlank(t[k])
      BY <1>1, <2>2 DEF IsBlank
    <3>2. <<i, i + 1>> \in (i .. e) \X (i .. e) /\ ~IsBlank(t[i])
      BY <1>1, <1>6, <2>2 DEF IsBlank
    <3>3. QED BY <1>1, <2>3, <3>1, <3>2
  <2>5. \A k \in i .. e : \E p \in P : p[1] <= k /\ k <= p[2]
    <3> TAKE k \in i .. e
    <3>1. CASE k <= i + 1
      <4>1. <<i, i + 1>> \in P /\ <<i, i + 1>>[1] <= k /\ k <= <<i, i + 1>>[2]
        BY <1>1, <2>1, <3>1
      <4>2. QED BY <4>1
    <3>2. CASE k > i + 1
      <4>1. <<k, k>> \in P /\ <<k, k>>[1] <= k /\ k <= <<k, k>>[2]
        BY <1>1, <2>1, <3>2
      <4>2. QED BY <4>1
    <3>3. QED BY <1>1, <3>1, <3>2
  <2>6. \A p, q \in P, k \in i .. e : p[1] <= k /\ k <= p[2] /\ q[1] <= k /\ k <= q[2] => p = q
    <3> TAKE p, q \in P, k \in i .. e
    <3>1. HAVE p[1] <= k /\ k <= p[2] /\ q[1] <= k /\ k <= q[2]
    <3>2. /\ p = <<i, i + 1>> \/ \E n \in i + 2 .. e : p = <<n, n>>
          /\ q = <<i, i + 1>> \/ \E n \in i + 2 .. e : q = <<n, n>>
      BY <2>3
    <3>3. QED BY <1>1, <3>1, <3>2
  <2>7. Lays(P, t, i, e)
    BY <2>4, <2>5, <2>6 DEF Lays
  <2>8. QED BY <2>4, <2>7 DEF P, e
<1>7. CASE t[i].shape = "item"
  <2>1. P = Runs(i, e, ends)
    BY <1>2, <1>7 DEF IsBlank
  <2>2. e \in Nat
    BY <1>1
  <2>3. Lays(P, t, i, e)
    BY <2>1, <2>2, RunsLay
  <2>4. ASSUME NEW p \in P PROVE ~IsBlank(t[p[1]])
    <3>1. p \in (i .. e) \X (i .. e) /\ (p[1] = i \/ p[1] - 1 \in ends)
      BY <2>1, <2>2, RunsPart
    <3>2. CASE p[1] = i
      BY <1>7, <3>2 DEF IsBlank
    <3>3. CASE p[1] - 1 \in ends
      <4>1. (p[1] - 1) + 1 = p[1]
        BY <1>1, <3>1
      <4>2. t[(p[1] - 1) + 1].shape = "item"
        BY <1>4, <3>3
      <4>3. QED BY <4>1, <4>2 DEF IsBlank
    <3>4. QED BY <3>1, <3>2, <3>3
  <2>5. QED BY <2>3, <2>4 DEF P, e
<1>8. CASE ~IsBlank(t[i]) /\ ~header /\ t[i].shape # "item"
  <2>1. P = {<<i, e>>}
    BY <1>2, <1>8
  <2>2. <<i, e>> \in (i .. e) \X (i .. e) /\ i <= e
    BY <1>1
  <2>3. Lays(P, t, i, e)
    BY <2>1, <2>2 DEF Lays
  <2>4. QED BY <1>8, <2>1, <2>3 DEF P, e
<1>9. QED BY <1>5, <1>6, <1>7, <1>8

(* A block's piece, cut at paragraphs and sentences when it is too large.   *)
LEMMA EmitBlockCuts ==
  ASSUME NEW t, Text(t), NEW i \in 1 .. Len(t), NEW j \in i .. Len(t), ~IsBlank(t[i]), NEW n \in Nat \ {0}
  PROVE  Cuts(EmitBlock(t, i, j, n), Stretch(t, i, j), n)
<1> DEFINE v == Stretch(t, i, j)
           parts == ParagraphSentence(t, i, j, n)
<1>1. Len(t) \in Nat
  BY TextLines
<1>2. /\ i \in 1 .. Len(t) + 1 /\ j \in 0 .. Len(t) /\ i \in i .. Len(t) + 1 /\ j \in 0 .. j /\ i <= j + 1
      /\ i \in i .. j
  BY <1>1
<1>3. v \in Nat \X Nat /\ v[1] < v[2]
  BY <1>2, StretchLies
<1>4. v[1] <= v[2] /\ 0 \in 0 .. n - 1
  BY <1>3
<1>5. Cuts(parts, v, n)
  BY <1>2, ParagraphSentenceCuts
<1>6. Cuts(Windows(v, n, 0), v, n)
  BY <1>3, <1>4, WindowsCover
<1>7. Length(v) <= n => Cuts({v}, v, n)
  BY <1>3, WholeCuts
<1>8. EmitBlock(t, i, j, n) = IF Length(v) <= n THEN {v} ELSE IF parts # {} THEN parts ELSE Windows(v, n, 0)
  BY DEF EmitBlock
<1> HIDE DEF v, parts
<1>9. QED BY <1>5, <1>6, <1>7, <1>8 DEF v

\* what is cut from the block that starts at line k
BlockChunks(t, k, j, n) == UNION {EmitBlock(t, p[1], p[2], n) : p \in Pieces(t, k, j)}

(* The chunks of a markdown block cut its lines.                           *)
LEMMA BlockCuts ==
  ASSUME NEW t, Text(t), NEW j \in 1 .. Len(t), NEW k \in 1 .. j, NEW n \in Nat \ {0}
  PROVE  Cuts(BlockChunks(t, k, j, n), Stretch(t, k, BlockEnd(t, k, j)), n)
<1> DEFINE e == BlockEnd(t, k, j)
           P == Pieces(t, k, j)
           f == [p \in P |-> EmitBlock(t, p[1], p[2], n)]
<1>1. Len(t) \in Nat /\ k \in Nat \ {0} /\ j \in Nat /\ k <= j
  BY TextLines
<1>2. e \in k .. j
  BY <1>1, BlockEnds
<1>3. Lays(P, t, k, e) /\ \A p \in P : ~IsBlank(t[p[1]])
  BY <1>1, PiecesLay
<1>4. ASSUME NEW p \in P PROVE Cuts(f[p], Stretch(t, p[1], p[2]), n)
  <2>1. p \in (k .. e) \X (k .. e) /\ p[1] <= p[2]
    BY <1>3 DEF Lays
  <2>2. p[1] \in 1 .. Len(t) /\ p[2] \in p[1] .. Len(t)
    BY <1>1, <1>2, <2>1
  <2>3. Cuts(EmitBlock(t, p[1], p[2], n), Stretch(t, p[1], p[2]), n)
    BY <1>3, <2>2, EmitBlockCuts
  <2>4. QED BY <2>3
<1>5. BlockChunks(t, k, j, n) = UNION {f[p] : p \in P}
  BY DEF BlockChunks
<1>6. k \in 1 .. Len(t) + 1 /\ e \in 0 .. Len(t) /\ k <= e + 1
  BY <1>1, <1>2
<1> HIDE DEF P, f, e
<1>7. Cuts(UNION {f[p] : p \in P}, Stretch(t, k, e), n)
  BY <1>3, <1>4, <1>6, CutsTogether
<1>8. QED BY <1>5, <1>7 DEF e

-----------------------------------------------------------------------------
(* Blocks are opened one after the other: line k opens one when a block    *)
(* ends above it.                                                          *)
OpenedAt(t, j, S, k) == IF \E b \in S : BlockEnd(t, b, j) = k - 1 THEN S \cup {k} ELSE S
OpenBlocks(t, i, j) ==
  FoldLeft(LAMBDA S, k : IF \E b \in S : BlockEnd(t, b, j) = k - 1 THEN S \cup {k} ELSE S,
           {i} \cap (i .. j), [n \in 1 .. j - i |-> i + n])
Openings(g, t, j, base, q) ==
  g = [s \in SUBSET DOMAIN q |-> IF s = {} THEN base ELSE OpenedAt(t, j, g[s \ {Max(s)}], q[Max(s)])]

\* the blocks of S hold every line up to m once
HoldUpTo(S, t, i, j, m) ==
  /\ S \subseteq i .. m
  /\ \A k \in i .. m : \E b \in S : b <= k /\ k <= BlockEnd(t, b, j)
  /\ \A b, c \in S, k \in i .. m :
       b <= k /\ k <= BlockEnd(t, b, j) /\ c <= k /\ k <= BlockEnd(t, c, j) => b = c

(* The blocks opened before a line hold what is before it, and the step of *)
(* the fold adds that line.                                                *)
LEMMA OneMoreLine ==
  ASSUME NEW t, NEW i \in Nat \ {0}, NEW j \in Nat, NEW m \in i .. j - 1, NEW S, HoldUpTo(S, t, i, j, m)
  PROVE  HoldUpTo(OpenedAt(t, j, S, m + 1), t, i, j, m + 1)
<1> DEFINE end(b) == BlockEnd(t, b, j)
<1>1. ASSUME NEW b \in i .. j PROVE end(b) \in b .. j
  <2>1. b \in Nat \ {0} /\ b <= j
    OBVIOUS
  <2>2. QED BY <2>1, BlockEnds
<1>2. /\ S \subseteq i .. m
      /\ \A k \in i .. m : \E b \in S : b <= k /\ k <= end(b)
      /\ \A b, c \in S, k \in i .. m : b <= k /\ k <= end(b) /\ c <= k /\ k <= end(c) => b = c
  BY DEF HoldUpTo
<1>3. OpenedAt(t, j, S, m + 1) = IF \E b \in S : end(b) = m THEN S \cup {m + 1} ELSE S
  BY DEF OpenedAt
<1> HIDE DEF end
<1>4. \A b \in S : b \in i .. j /\ b \in i .. m /\ end(b) \in b .. j /\ end(b) \in Nat
  BY <1>1, <1>2
<1>5. m \in i .. m /\ m + 1 \in i .. m + 1 /\ m + 1 \in i .. j
  OBVIOUS
<1>6. \A k \in i .. m + 1 : k \in i .. m \/ k = m + 1
  OBVIOUS
<1>7. ASSUME NEW b \in S, NEW c \in S, m + 1 <= end(b), m <= end(c) PROVE b = c
  <2>1. b <= m /\ m <= end(b) /\ c <= m
    BY <1>4, <1>7
  <2>2. QED BY <1>2, <1>5, <1>7, <2>1
<1>8. CASE \E b \in S : end(b) = m
  <2> DEFINE O == S \cup {m + 1}
  <2>1. OpenedAt(t, j, S, m + 1) = O
    BY <1>3, <1>8
  <2>2. PICK b \in S : end(b) = m
    BY <1>8
  <2>3. O \subseteq i .. m + 1
    BY <1>2, <1>5
  <2>4. end(m + 1) \in m + 1 .. j
    BY <1>1, <1>5
  <2>5. \A x \in S : ~(m + 1 <= end(x))
    <3> SUFFICES ASSUME NEW x \in S, m + 1 <= end(x) PROVE FALSE
      OBVIOUS
    <3>1. m <= end(b)
      BY <2>2
    <3>2. x = b
      BY <1>7, <3>1
    <3>3. QED BY <2>2, <3>2
  <2>6. ASSUME NEW k \in i .. m + 1 PROVE \E x \in O : x <= k /\ k <= end(x)
    <3>1. CASE k \in i .. m
      BY <1>2, <3>1
    <3>2. CASE k = m + 1
      BY <2>4, <3>2
    <3>3. QED BY <1>6, <3>1, <3>2
  <2>7. ASSUME NEW x \in O, NEW y \in O, NEW k \in i .. m + 1,
               x <= k /\ k <= end(x) /\ y <= k /\ k <= end(y)
        PROVE  x = y
    <3>1. CASE k \in i .. m
      <4>1. x \in S /\ y \in S
        BY <2>7, <3>1
      <4>2. QED BY <1>2, <2>7, <3>1, <4>1
    <3>2. CASE k = m + 1
      <4>1. x = m + 1 /\ y = m + 1
        BY <2>5, <2>7, <3>2
      <4>2. QED BY <4>1
    <3>3. QED BY <1>6, <3>1, <3>2
  <2> HIDE DEF O
  <2>8. QED BY <2>1, <2>3, <2>6, <2>7 DEF HoldUpTo, end
<1>9. CASE ~\E b \in S : end(b) = m
  <2>1. OpenedAt(t, j, S, m + 1) = S
    BY <1>3, <1>9
  <2>2. S \subseteq i .. m + 1
    BY <1>2
  <2>3. ASSUME NEW k \in i .. m + 1 PROVE \E x \in S : x <= k /\ k <= end(x)
    <3>1. CASE k \in i .. m
      BY <1>2, <3>1
    <3>2. CASE k = m + 1
      <4>1. PICK x \in S : x <= m /\ m <= end(x)
        BY <1>2, <1>5
      <4>2. end(x) # m
        BY <1>9
      <4>3. x <= m + 1 /\ m + 1 <= end(x)
        BY <1>4, <4>1, <4>2
      <4>4. QED BY <3>2, <4>3
    <3>3. QED BY <1>6, <3>1, <3>2
  <2>4. ASSUME NEW x \in S, NEW y \in S, NEW k \in i .. m + 1,
               x <= k /\ k <= end(x) /\ y <= k /\ k <= end(y)
        PROVE  x = y
    <3>1. CASE k \in i .. m
      BY <1>2, <2>4, <3>1
    <3>2. CASE k = m + 1
      <4>1. m + 1 <= end(x) /\ m <= end(y)
        BY <1>4, <2>4, <3>2
      <4>2. QED BY <1>7, <4>1
    <3>3. QED BY <1>6, <3>1, <3>2
  <2>5. QED BY <2>1, <2>2, <2>3, <2>4 DEF HoldUpTo, end
<1>10. QED BY <1>8, <1>9

(* So at the end they hold every line.                                     *)
LEMMA OpenBlocksHold ==
  ASSUME NEW t, NEW i \in Nat \ {0}, NEW j \in Nat, i <= j + 1
  PROVE  HoldUpTo(OpenBlocks(t, i, j), t, i, j, j)
<1> DEFINE q == [n \in 1 .. j - i |-> i + n]
           D == DOMAIN q
           base == {i} \cap (i .. j)
           P(g) == Openings(g, t, j, base, q)
           step == [z \in (SUBSET Nat) \X Nat |-> OpenedAt(t, j, z[1], z[2])]
           l == IF i <= j THEN j - i ELSE 0
<1>1. /\ D = 1 .. l /\ l \in Nat /\ base \in SUBSET {i} /\ \A n \in D : q[n] = i + n /\ q[n] \in Nat
      /\ IF i <= j THEN base = {i} /\ l = j - i ELSE base = {} /\ D = {}
  OBVIOUS
<1> HIDE DEF l
<1>0. q \in Seq(Nat)
  <2>1. q \in [1 .. l -> Nat]
    BY <1>1
  <2> HIDE DEF q
  <2>2. QED BY <1>1, <2>1, SeqDef
<1>2. \A s \in SUBSET D : s # {} => Max(s) \in s
  <2> HIDE DEF q
  <2>1. QED BY <1>0, <1>1, Places
<1>3. \A S \in SUBSET Nat, k \in Nat : OpenedAt(t, j, S, k) \in SUBSET Nat
  BY DEF OpenedAt
<1>4. step \in [(SUBSET Nat) \X Nat -> SUBSET Nat] /\ \A S \in SUBSET Nat, k \in Nat : step[<<S, k>>] = OpenedAt(t, j, S, k)
  BY <1>3
<1>5. OpenBlocks(t, i, j) = (CHOOSE g : P(g))[D]
  BY DEF OpenBlocks, FoldLeft, MapThenFoldSet, Openings, OpenedAt
<1> HIDE DEF q, step, base
<1>6. \E g : P(g)
  <2>1. base \in SUBSET Nat
    BY <1>1
  <2>2. PICK g \in [SUBSET D -> SUBSET Nat] : Passes(g, q, base, step)
    BY <1>0, <1>4, <2>1, PassesExists
  <2>3. ASSUME NEW s \in SUBSET D, s # {}
        PROVE  step[<<g[s \ {Max(s)}], q[Max(s)]>>] = OpenedAt(t, j, g[s \ {Max(s)}], q[Max(s)])
    <3>1. s \ {Max(s)} \in SUBSET D /\ Max(s) \in D
      BY <1>2, <2>3
    <3>2. g[s \ {Max(s)}] \in SUBSET Nat /\ q[Max(s)] \in Nat
      BY <1>1, <2>2, <3>1
    <3>3. QED BY <1>4, <3>2
  <2>4. g = [s \in SUBSET D |-> IF s = {} THEN base ELSE OpenedAt(t, j, g[s \ {Max(s)}], q[Max(s)])]
    BY <2>2, <2>3 DEF Passes
  <2>5. QED BY <2>4 DEF Openings
<1> DEFINE G == CHOOSE g : P(g)
<1>7. P(G)
  <2> HIDE DEF P
  <2>1. QED BY <1>6
<1>8. G[{}] = base /\ \A s \in SUBSET D : s # {} => G[s] = OpenedAt(t, j, G[s \ {Max(s)}], q[Max(s)])
  <2> HIDE DEF G
  <2>1. QED BY <1>1, <1>7 DEF Openings
<1> HIDE DEF G, P
<1>12. CASE ~(i <= j)
  <2>1. D = {} /\ base = {}
    BY <1>1, <1>12
  <2>2. OpenBlocks(t, i, j) = {}
    <3>1. OpenBlocks(t, i, j) = G[D]
      BY <1>5 DEF G
    <3>2. QED BY <1>8, <2>1, <3>1
  <2>3. i .. j = {}
    BY <1>12
  <2>4. QED BY <2>2, <2>3 DEF HoldUpTo
<1>13. SUFFICES ASSUME i <= j PROVE HoldUpTo(OpenBlocks(t, i, j), t, i, j, j)
  BY <1>12
<1>14. base = {i} /\ j - i \in Nat /\ D = 1 .. j - i
  BY <1>1, <1>13
<1>9. ASSUME NEW n \in 0 .. j - i PROVE HoldUpTo(G[1 .. n], t, i, j, i + n)
  <2> DEFINE B == {m \in 0 .. j - i : ~HoldUpTo(G[1 .. m], t, i, j, i + m)}
  <2>1. SUFFICES ASSUME B # {} PROVE FALSE
    OBVIOUS
  <2>2. PICK m \in B : \A x \in B : m <= x
    <3>1. B \subseteq Nat
      BY <1>1, <1>14
    <3> HIDE DEF B
    <3>2. QED BY <2>1, <3>1, LeastNatural
  <2>3. m \in 0 .. j - i /\ ~HoldUpTo(G[1 .. m], t, i, j, i + m)
    BY <2>2
  <2>4. CASE m = 0
    <3>1. 1 .. m = {} /\ i + m = i
      BY <2>4
    <3>2. BlockEnd(t, i, j) \in i .. j
      BY <1>13, BlockEnds
    <3>3. HoldUpTo({i}, t, i, j, i)
      BY <3>2 DEF HoldUpTo
    <3>4. QED BY <1>8, <1>14, <2>3, <3>1, <3>3
  <2>5. CASE m # 0
    <3>1. m - 1 \in 0 .. j - i /\ m \in D /\ m - 1 < m
      BY <1>1, <1>14, <2>3, <2>5
    <3>2. HoldUpTo(G[1 .. m - 1], t, i, j, i + (m - 1))
      <4>1. m - 1 \notin B
        <5> HIDE DEF B
        <5>1. m - 1 \in B => m <= m - 1
          BY <2>2
        <5>2. ~(m <= m - 1)
          BY <1>1, <1>14, <2>3
        <5>3. QED BY <5>1, <5>2
      <4>2. QED BY <3>1, <4>1
    <3>3. (1 .. m) \in SUBSET D /\ 1 .. m # {} /\ (1 .. m) \ {m} = 1 .. m - 1 /\ Max(1 .. m) = m
      <4>1. (1 .. m) \in SUBSET D /\ m \in 1 .. m /\ (1 .. m) \ {m} = 1 .. m - 1
        BY <1>1, <1>14, <3>1
      <4>2. Max(1 .. m) = m
        <5>1. m \in Int /\ m \in 1 .. m /\ \A x \in 1 .. m : m >= x /\ (x >= m => x = m)
          BY <1>1, <1>14, <2>3, <2>5
        <5>2. QED BY <5>1 DEF Max
      <4>3. QED BY <4>1, <4>2
    <3>4. G[1 .. m] = OpenedAt(t, j, G[1 .. m - 1], i + m)
      BY <1>1, <1>14, <1>8, <3>1, <3>3
    <3>5. i + (m - 1) \in i .. j - 1 /\ (i + (m - 1)) + 1 = i + m
      BY <1>1, <1>14, <2>3, <3>1
    <3>6. HoldUpTo(OpenedAt(t, j, G[1 .. m - 1], (i + (m - 1)) + 1), t, i, j, (i + (m - 1)) + 1)
      BY <3>2, <3>5, OneMoreLine
    <3>7. QED BY <2>3, <3>4, <3>5, <3>6
  <2>6. QED BY <2>4, <2>5
<1>10. HoldUpTo(G[1 .. j - i], t, i, j, i + (j - i))
  BY <1>1, <1>14, <1>9
<1>11. QED BY <1>1, <1>14, <1>5, <1>10 DEF G

(* The markdown chunker cuts the lines it is given.                        *)
LEMMA MarkdownCuts ==
  ASSUME NEW t, Text(t), NEW i \in 1 .. Len(t) + 1, NEW j \in 0 .. Len(t), i <= j + 1, NEW n \in Nat \ {0}
  PROVE  Cuts(MarkdownStructure(t, i, j, n), Stretch(t, i, j), n)
<1> DEFINE O == OpenBlocks(t, i, j)
           R == {<<b, BlockEnd(t, b, j)>> : b \in O}
           f == [r \in R |-> BlockChunks(t, r[1], j, n)]
<1>1. Len(t) \in Nat /\ i \in Nat \ {0} /\ j \in Nat
  BY TextLines
<1>2. HoldUpTo(O, t, i, j, j)
  BY <1>1, OpenBlocksHold
<1>3. MarkdownStructure(t, i, j, n) = UNION {BlockChunks(t, b, j, n) : b \in O}
  <2>1. MarkdownStructure(t, i, j, n) = UNION {EmitBlock(t, p[1], p[2], n) : p \in UNION {Pieces(t, k, j) : k \in O}}
    BY DEF MarkdownStructure, OpenBlocks
  <2> HIDE DEF O
  <2>2. UNION {EmitBlock(t, p[1], p[2], n) : p \in UNION {Pieces(t, k, j) : k \in O}}
          = UNION {BlockChunks(t, b, j, n) : b \in O}
    BY DEF BlockChunks
  <2>3. QED BY <2>1, <2>2
<1> HIDE DEF O
<1>4. \A r \in R : \E b \in O : r = <<b, BlockEnd(t, b, j)>> /\ r[1] = b /\ r[2] = BlockEnd(t, b, j)
  OBVIOUS
<1>5. \A b \in O : <<b, BlockEnd(t, b, j)>> \in R /\ <<b, BlockEnd(t, b, j)>>[1] = b /\ <<b, BlockEnd(t, b, j)>>[2] = BlockEnd(t, b, j)
  OBVIOUS
<1>6. MarkdownStructure(t, i, j, n) = UNION {f[r] : r \in R}
  <2>1. \A b \in O : f[<<b, BlockEnd(t, b, j)>>] = BlockChunks(t, b, j, n)
    BY <1>5
  <2> HIDE DEF R, f
  <2>2. {BlockChunks(t, b, j, n) : b \in O} = {f[r] : r \in R}
    <3>1. \A b \in O : \E r \in R : f[r] = BlockChunks(t, b, j, n)
      BY <1>5, <2>1
    <3>2. \A r \in R : \E b \in O : f[r] = BlockChunks(t, b, j, n)
      BY <1>4, <2>1
    <3>3. QED BY <3>1, <3>2
  <2>3. QED BY <1>3, <2>2
<1>7. ASSUME NEW b \in O
      PROVE  b \in i .. j /\ b \in 1 .. j /\ j \in 1 .. Len(t) /\ BlockEnd(t, b, j) \in b .. j
  <2>1. b \in i .. j
    BY <1>2 DEF HoldUpTo
  <2>2. b \in Nat \ {0} /\ b <= j
    BY <1>1, <2>1
  <2>3. BlockEnd(t, b, j) \in b .. j
    BY <1>1, <2>2, BlockEnds
  <2>4. QED BY <1>1, <2>1, <2>2, <2>3
<1>8. ASSUME NEW r \in R PROVE Cuts(f[r], Stretch(t, r[1], r[2]), n)
  <2>1. PICK b \in O : r[1] = b /\ r[2] = BlockEnd(t, b, j)
    BY <1>4
  <2>2. Cuts(BlockChunks(t, b, j, n), Stretch(t, b, BlockEnd(t, b, j)), n)
    BY <1>7, BlockCuts
  <2>3. f[r] = BlockChunks(t, b, j, n)
    BY <2>1
  <2>4. QED BY <2>1, <2>2, <2>3
<1> HIDE DEF R, f
<1>9. Lays(R, t, i, j)
  <2>1. ASSUME NEW r \in R PROVE r \in (i .. j) \X (i .. j) /\ r[1] <= r[2]
    <3>1. PICK b \in O : r = <<b, BlockEnd(t, b, j)>>
      BY <1>4
    <3>2. b \in i .. j /\ BlockEnd(t, b, j) \in i .. j /\ b <= BlockEnd(t, b, j)
      BY <1>1, <1>7
    <3>3. QED BY <3>1, <3>2
  <2>2. ASSUME NEW k \in i .. j PROVE \E r \in R : r[1] <= k /\ k <= r[2]
    <3>1. PICK b \in O : b <= k /\ k <= BlockEnd(t, b, j)
      BY <1>2 DEF HoldUpTo
    <3>2. QED BY <1>5, <3>1
  <2>3. ASSUME NEW r \in R, NEW u \in R, NEW k \in i .. j, r[1] <= k, k <= r[2], u[1] <= k, k <= u[2]
        PROVE  r = u
    <3>1. PICK b \in O : r = <<b, BlockEnd(t, b, j)>> /\ r[1] = b /\ r[2] = BlockEnd(t, b, j)
      BY <1>4
    <3>2. PICK c \in O : u = <<c, BlockEnd(t, c, j)>> /\ u[1] = c /\ u[2] = BlockEnd(t, c, j)
      BY <1>4
    <3>3. b <= k /\ k <= BlockEnd(t, b, j) /\ c <= k /\ k <= BlockEnd(t, c, j)
      BY <2>3, <3>1, <3>2
    <3>4. b = c
      BY <1>2, <3>3 DEF HoldUpTo
    <3>5. QED BY <3>1, <3>2, <3>4
  <2>4. QED BY <2>1, <2>2, <2>3 DEF Lays
<1>10. Cuts(UNION {f[r] : r \in R}, Stretch(t, i, j), n)
  BY <1>8, <1>9, CutsTogether
<1>11. QED BY <1>6, <1>10

(* Whatever the variant's chunker, the chunks of some lines hold every     *)
(* word of them within its budget; only windows hold one twice.            *)
LEMMA ChunksCover ==
  ASSUME cutter \in Cutters, NEW t, Text(t), NEW i \in 1 .. Len(t) + 1, NEW j \in 0 .. Len(t), i <= j + 1
  PROVE  /\ Covers(Chunks(t, i, j), Stretch(t, i, j), cutter.budget)
         /\ cutter.chunker # "fixed_token_v1" => Cuts(Chunks(t, i, j), Stretch(t, i, j), cutter.budget)
<1> DEFINE n == cutter.budget
           v == Stretch(t, i, j)
           overlap == Max({1, n \div 8})
<1>1. /\ n \in Nat \ {0} /\ (cutter.chunker = "fixed_token_v1" => n > 1)
      /\ cutter.chunker \in {"fixed_token_v1", "paragraph_sentence_v1", "markdown_structure_v1"}
  BY CutterAssumption
<1>2. CASE cutter.chunker = "fixed_token_v1"
  <2>1. Chunks(t, i, j) = Windows(v, n, overlap)
    BY <1>2 DEF Chunks
  <2>2. v \in Nat \X Nat /\ v[1] <= v[2]
    <3>1. Len(t) \in Nat
      BY TextLines
    <3>2. i \in i .. Len(t) + 1 /\ j \in 0 .. j
      BY <3>1
    <3>3. QED BY <3>2, StretchLies
  <2>3. overlap \in 0 .. n - 1
    <3>1. n \div 8 \in 0 .. n - 1 /\ 1 \in 0 .. n - 1
      BY <1>1, <1>2
    <3> HIDE DEF n
    <3>2. \E m \in {1, n \div 8} : \A x \in {1, n \div 8} : m >= x
      BY <3>1
    <3>3. overlap \in {1, n \div 8}
      BY <3>2 DEF Max
    <3>4. QED BY <3>1, <3>3
  <2> HIDE DEF v, overlap, n
  <2>4. Covers(Windows(v, n, overlap), v, n)
    BY <1>1, <2>2, <2>3, WindowsCover
  <2>5. QED BY <1>2, <2>1, <2>4 DEF v, n
<1>3. CASE cutter.chunker = "paragraph_sentence_v1"
  <2>1. Chunks(t, i, j) = ParagraphSentence(t, i, j, n)
    BY <1>3 DEF Chunks
  <2>2. QED BY <1>1, <2>1, ParagraphSentenceCuts DEF Cuts
<1>4. CASE cutter.chunker = "markdown_structure_v1"
  <2>1. Chunks(t, i, j) = MarkdownStructure(t, i, j, n)
    BY <1>4 DEF Chunks
  <2>2. QED BY <1>1, <2>1, MarkdownCuts DEF Cuts
<1>5. QED BY <1>1, <1>2, <1>3, <1>4

-----------------------------------------------------------------------------
(***************************** Source blocks *******************************)

(* The blocks of a text follow one another from the first line that opens  *)
(* one to its end.                                                         *)
LEMMA BlocksPart ==
  ASSUME NEW t, Text(t)
  PROVE  /\ Len(Blocks(t)) \in Nat /\ DOMAIN Blocks(t) = 1 .. Len(Blocks(t))
         /\ Blocks(t) = <<>> <=> Len(Blocks(t)) = 0
         /\ Opens(t) = {} <=> Len(Blocks(t)) = 0
         /\ \A k \in 1 .. Len(Blocks(t)) :
              /\ Blocks(t)[k].from \in Opens(t) /\ Blocks(t)[k].from \in 1 .. Len(t)
              /\ Blocks(t)[k].to \in Blocks(t)[k].from .. Len(t)
         /\ \A x \in Opens(t) : \E k \in 1 .. Len(Blocks(t)) : Blocks(t)[k].from = x
         /\ \A k, l \in 1 .. Len(Blocks(t)) :
              k < l => Blocks(t)[k].to < Blocks(t)[l].from /\ Blocks(t)[k].from < Blocks(t)[l].from
         /\ \A x \in 1 .. Len(t) : Len(Blocks(t)) > 0 /\ Blocks(t)[1].from <= x =>
              \E k \in 1 .. Len(Blocks(t)) : Blocks(t)[k].from <= x /\ x <= Blocks(t)[k].to
<1> DEFINE S == Opens(t)
           R == {p \in S \X S : p[1] < p[2]}
           n == Cardinality(S)
           q == Sorted(S, <)
           B == Blocks(t)
<1>1. Len(t) \in Nat /\ DOMAIN t = 1 .. Len(t) /\ S \subseteq 1 .. Len(t)
  BY TextLines DEF Opens
<1>2. IsFiniteSet(S)
  <2>1. IsFiniteSet(1 .. Len(t))
    BY <1>1, FS_Interval
  <2>2. QED BY <1>1, <2>1, FS_Subset
<1>3. Orders(R, S)
  <2> HIDE DEF S
  <2>1. \A x \in S : x \in Int
    BY <1>1
  <2>2. QED BY <2>1 DEF Orders
<1>4. q = SortedBy(S, R)
  BY DEF Sorted
<1>5. B = [k \in DOMAIN q |-> [from |-> q[k], to |-> IF k < Len(q) THEN q[k + 1] - 1 ELSE Len(t), url |-> HasUrl(t, q[k])]]
  BY DEF Blocks
<1> HIDE DEF S, R, n, q, B
<1>6. /\ n \in Nat /\ q \in [1 .. n -> S]
      /\ \A x \in S : \E k \in 1 .. n : q[k] = x
      /\ \A i, j \in 1 .. n : i < j => <<q[i], q[j]>> \in R
  BY <1>2, <1>3, <1>4, SortedEnumerates DEF n
<1>7. \A i, j \in 1 .. n : i < j => q[i] < q[j]
  BY <1>6 DEF R
<1>8. q \in Seq(S) /\ Len(q) = n /\ DOMAIN q = 1 .. n
  <2>1. q \in Seq(S)
    BY <1>6, SeqDef
  <2>2. DOMAIN q = 1 .. n /\ DOMAIN q = 1 .. Len(q) /\ Len(q) \in Nat
    BY <1>6, <2>1, LenProperties
  <2>3. QED BY <1>6, <2>1, <2>2
<1>9. \A k \in 1 .. n : /\ B[k].from = q[k] /\ B[k].to = IF k < n THEN q[k + 1] - 1 ELSE Len(t)
                        /\ q[k] \in S /\ q[k] \in 1 .. Len(t) /\ q[k] \in Int
  <2>1. \A k \in 1 .. n : B[k].from = q[k] /\ B[k].to = IF k < n THEN q[k + 1] - 1 ELSE Len(t)
    BY <1>5, <1>8
  <2>2. \A k \in 1 .. n : q[k] \in S
    BY <1>6
  <2>3. ASSUME NEW k \in 1 .. n PROVE q[k] \in 1 .. Len(t) /\ q[k] \in Int
    <3>1. q[k] \in 1 .. Len(t)
      BY <1>1, <2>2
    <3>2. QED BY <1>1, <3>1
  <2>4. QED BY <2>1, <2>2, <2>3
<1>10. DOMAIN B = 1 .. n /\ Len(B) = n /\ B \in Seq({B[k] : k \in 1 .. n})
  <2>1. DOMAIN B = 1 .. n
    BY <1>5, <1>8
  <2>2. B \in [1 .. n -> {B[k] : k \in 1 .. n}]
    BY <1>5, <1>8, <2>1
  <2>3. B \in Seq({B[k] : k \in 1 .. n})
    BY <1>6, <2>2, SeqDef
  <2>4. DOMAIN B = 1 .. Len(B) /\ Len(B) \in Nat
    BY <2>3, LenProperties
  <2>5. QED BY <1>6, <2>1, <2>3, <2>4
<1>11. B = <<>> <=> n = 0
  <2>1. B = <<>> => n = 0
    BY <1>6, <1>10
  <2>2. n = 0 => B = <<>>
    <3>1. SUFFICES ASSUME n = 0 PROVE B = <<>>
      OBVIOUS
    <3>2. B \in Seq({B[k] : k \in 1 .. n})
      BY <1>10
    <3>3. QED BY <1>10, <3>1, <3>2, EmptySeq
  <2>3. QED BY <2>1, <2>2
<1>12. S = {} <=> n = 0
  <2>1. S = {} => n = 0
    BY <1>6, <1>9
  <2>2. n = 0 => S = {}
    BY <1>6
  <2>3. QED BY <2>1, <2>2
<1>13. ASSUME NEW k \in 1 .. n PROVE B[k].to \in B[k].from .. Len(t)
  <2>1. CASE k < n
    <3>1. k + 1 \in 1 .. n /\ q[k] < q[k + 1]
      BY <1>6, <1>7, <2>1
    <3>2. QED BY <1>1, <1>9, <2>1, <3>1
  <2>2. CASE ~(k < n)
    BY <1>1, <1>9, <2>2
  <2>3. QED BY <2>1, <2>2
<1>14. ASSUME NEW k \in 1 .. n, NEW l \in 1 .. n, k < l PROVE B[k].to < B[l].from /\ B[k].from < B[l].from
  <2>1. k + 1 \in 1 .. n /\ k < n /\ (k + 1 = l \/ k + 1 < l)
    BY <1>6, <1>14
  <2>2. q[k + 1] <= q[l] /\ q[k] < q[l]
    BY <1>7, <1>9, <1>14, <2>1
  <2>3. B[k].to = q[k + 1] - 1
    BY <1>9, <2>1
  <2>4. QED BY <1>9, <2>1, <2>2, <2>3
<1>15. ASSUME NEW x \in 1 .. Len(t), n > 0, B[1].from <= x PROVE \E k \in 1 .. n : B[k].from <= x /\ x <= B[k].to
  <2> DEFINE A == {k \in 1 .. n : q[k] <= x}
             id == [k \in A |-> k]
  <2>1. 1 \in A /\ A \subseteq 1 .. n
    BY <1>6, <1>9, <1>15
  <2>2. IsFiniteSet(A)
    <3>1. IsFiniteSet(1 .. n)
      BY <1>6, FS_Interval
    <3> HIDE DEF A
    <3>2. QED BY <2>1, <3>1, FS_Subset
  <2>3. \A k \in 1 .. n : q[k] <= x => k \in A
    OBVIOUS
  <2>4. \A k \in A : q[k] <= x
    OBVIOUS
  <2> HIDE DEF A
  <2>5. IntegersOn(id, A)
    BY <1>6, <2>1 DEF IntegersOn
  <2>6. PICK k \in A : \A y \in A : id[k] >= id[y]
    BY <2>1, <2>2, <2>5, GreatestValue
  <2>7. k \in 1 .. n /\ q[k] <= x /\ \A y \in A : k >= y
    BY <2>1, <2>4, <2>6
  <2>8. x <= B[k].to
    <3>1. CASE k < n
      <4>1. k + 1 \in 1 .. n /\ ~(k >= k + 1)
        BY <1>6, <2>7, <3>1
      <4>2. ~(q[k + 1] <= x)
        BY <2>3, <2>7, <4>1
      <4>3. QED BY <1>1, <1>9, <2>7, <3>1, <4>1, <4>2
    <3>2. CASE ~(k < n)
      BY <1>1, <1>9, <2>7, <3>2
    <3>3. QED BY <3>1, <3>2
  <2>9. QED BY <1>9, <2>7, <2>8
<1>16. \A k \in 1 .. n : B[k].from \in S /\ B[k].from \in 1 .. Len(t)
  BY <1>9
<1>17. \A x \in S : \E k \in 1 .. n : B[k].from = x
  BY <1>6, <1>9
<1>18. n \in Nat /\ Len(B) = n
  BY <1>6, <1>10
<1>19. QED
  BY <1>10, <1>11, <1>12, <1>13, <1>14, <1>15, <1>16, <1>17, <1>18 DEF B, S

\* f takes values of a set of integers, always greater ones; and takes every one
Increases(f, n, S) == S \subseteq Int /\ f \in [1 .. n -> S] /\ \A k, l \in 1 .. n : k < l => f[k] < f[l]
Reaches(f, n, S) == \A x \in S : \E k \in 1 .. n : f[k] = x

(* Two increasing enumerations of one set by as many numbers are one.      *)
LEMMA OneEnumeration ==
  ASSUME NEW n \in Nat, NEW S, NEW f, NEW g,
         Reaches(g, n, S), Increases(f, n, S), Increases(g, n, S)
  PROVE  \A k \in 1 .. n : f[k] = g[k]
<1> USE DEF Reaches, Increases
<1> DEFINE h == [k \in 1 .. n |-> CHOOSE l \in 1 .. n : g[l] = f[k]]
<1>1. ASSUME NEW k \in 1 .. n PROVE h[k] \in 1 .. n /\ g[h[k]] = f[k]
  <2>1. \E l \in 1 .. n : g[l] = f[k]
    OBVIOUS
  <2>2. QED BY <2>1
<1> HIDE DEF h
<1>2. ASSUME NEW k \in 1 .. n, NEW l \in 1 .. n, k < l PROVE h[k] < h[l]
  <2>1. f[k] < f[l] /\ f[k] \in Int /\ f[l] \in Int
    BY <1>2
  <2>2. h[k] \in 1 .. n /\ h[l] \in 1 .. n /\ g[h[k]] = f[k] /\ g[h[l]] = f[l]
    BY <1>1
  <2>3. h[k] # h[l] /\ ~(h[l] < h[k])
    <3>1. h[l] < h[k] => g[h[l]] < g[h[k]]
      BY <2>2
    <3>2. QED BY <2>1, <2>2, <3>1
  <2>4. QED BY <2>2, <2>3
<1>3. \A k \in 1 .. n : h[k] >= k
  <2> DEFINE B == {k \in 1 .. n : ~(h[k] >= k)}
  <2>1. SUFFICES ASSUME B # {} PROVE FALSE
    OBVIOUS
  <2>2. PICK k \in B : \A m \in B : k <= m
    <3>1. B \subseteq Nat
      OBVIOUS
    <3> HIDE DEF B
    <3>2. QED BY <2>1, <3>1, LeastNatural
  <2>3. k \in 1 .. n /\ ~(h[k] >= k) /\ h[k] \in 1 .. n
    BY <1>1, <2>2
  <2>4. h[h[k]] < h[k] /\ h[h[k]] \in 1 .. n
    BY <1>1, <1>2, <2>3
  <2>5. h[k] \in B
    BY <2>3, <2>4
  <2>6. k <= h[k]
    <3> HIDE DEF B
    <3>1. QED BY <2>2, <2>5
  <2>7. QED BY <2>3, <2>6
<1>4. \A k \in 1 .. n : h[k] <= k
  <2> DEFINE B == {n - k : k \in {k \in 1 .. n : ~(h[k] <= k)}}
  <2>1. SUFFICES ASSUME B # {} PROVE FALSE
    OBVIOUS
  <2>2. PICK m \in B : \A x \in B : m <= x
    <3>1. B \subseteq Nat
      OBVIOUS
    <3> HIDE DEF B
    <3>2. QED BY <2>1, <3>1, LeastNatural
  <2>3. PICK k \in 1 .. n : m = n - k /\ ~(h[k] <= k)
    BY <2>2
  <2>4. h[k] \in 1 .. n /\ k < h[k]
    BY <1>1, <2>3
  <2>5. h[k] < h[h[k]] /\ h[h[k]] \in 1 .. n
    BY <1>1, <1>2, <2>4
  <2>6. n - h[k] \in B
    BY <2>4, <2>5
  <2>7. m <= n - h[k]
    <3> HIDE DEF B
    <3>1. QED BY <2>2, <2>6
  <2>8. QED BY <2>3, <2>4, <2>7
<1>5. ASSUME NEW k \in 1 .. n PROVE f[k] = g[k]
  <2>1. h[k] = k
    BY <1>1, <1>3, <1>4
  <2>2. QED BY <1>1, <2>1
<1>6. QED BY <1>5

-----------------------------------------------------------------------------
(************************ The registry and segments ************************)

(* The lines of a frozen message are a text, and it is rendered.           *)
LEMMA MessageText ==
  ASSUME messages \in Conversations, NEW m \in DOMAIN messages
  PROVE  /\ Text(Body(m)) /\ Rendered(messages[m])
         /\ messages[m].occurrences \in Seq(ToSet(messages[m].occurrences))
<1>1. messages[m] \in ToSet(messages)
  BY DEF ToSet
<1>2. QED BY <1>1, ConversationAssumption, PagesAssumption DEF Text, Body

\* the registry of the messages
Registered ==
  /\ messages \in Conversations
  /\ entries = UNION {ToSet(Partitions(m)) : m \in Attributed}
  /\ \A m \in Attributed : Paired(m)

Own(m) == {e \in entries : e.message = m}
BlocksOf(m) == Blocks(Body(m))
EntryOf(m, k) == [message |-> m, from |-> BlocksOf(m)[k].from, to |-> BlocksOf(m)[k].to,
                  url |-> BlocksOf(m)[k].url, occurrence |-> messages[m].occurrences[k]]

(* A message's entries are its blocks, each with the occurrence of its     *)
(* number, and only an attributed message has any.                         *)
LEMMA EntriesOf ==
  ASSUME Registered, NEW m \in DOMAIN messages
  PROVE  /\ m \in Attributed =>
              /\ Own(m) = {EntryOf(m, k) : k \in 1 .. Len(BlocksOf(m))}
              /\ Len(BlocksOf(m)) > 0 => Len(BlocksOf(m)) = Len(messages[m].occurrences)
         /\ m \notin Attributed => Own(m) = {}
<1>1. messages \in Conversations /\ Text(Body(m))
  BY MessageText DEF Registered
<1> DEFINE n == Len(BlocksOf(m))
           o == Len(messages[m].occurrences)
<1>2. n \in Nat /\ DOMAIN BlocksOf(m) = 1 .. n /\ (BlocksOf(m) = <<>> <=> n = 0)
  BY <1>1, BlocksPart DEF BlocksOf
<1>3. o \in Nat
  <2>1. messages[m].occurrences \in Seq(ToSet(messages[m].occurrences))
    BY <1>1, MessageText
  <2>2. QED BY <2>1, LenProperties
<1>4. \A x \in Attributed : \A e \in ToSet(Partitions(x)) : e.message = x
  BY DEF ToSet, Partitions
<1>5. ASSUME m \in Attributed PROVE n > 0 => n = o
  BY <1>2, <1>5 DEF Registered, Paired, BlocksOf
<1>6. ASSUME m \in Attributed PROVE Partitions(m) = [k \in 1 .. n |-> EntryOf(m, k)]
  <2>1. Min({n, o}) = n
    <3>1. {n, o} # {} /\ {n, o} \subseteq Nat
      BY <1>2, <1>3
    <3> HIDE DEF n, o
    <3>2. Min({n, o}) \in {n, o} /\ Min({n, o}) <= n /\ Min({n, o}) <= o
      BY <3>1, MinIn
    <3>3. QED BY <1>2, <1>3, <1>5, <1>6, <3>2
  <2>2. Partitions(m) = [k \in 1 .. Min({n, o}) |-> EntryOf(m, k)]
    BY DEF Partitions, BlocksOf, EntryOf
  <2>3. QED BY <2>1, <2>2
<1>7. ASSUME m \in Attributed PROVE Own(m) = {EntryOf(m, k) : k \in 1 .. n}
  <2>1. ToSet(Partitions(m)) = {EntryOf(m, k) : k \in 1 .. n}
    <3> HIDE DEF n
    <3>1. QED BY <1>6, <1>7 DEF ToSet
  <2>2. \A e \in ToSet(Partitions(m)) : e \in Own(m)
    BY <1>4, <1>7 DEF Own, Registered
  <2>3. \A e \in Own(m) : e \in ToSet(Partitions(m))
    BY <1>4 DEF Own, Registered
  <2>4. QED BY <2>1, <2>2, <2>3
<1>8. ASSUME m \notin Attributed PROVE Own(m) = {}
  BY <1>4, <1>8 DEF Own, Registered
<1>9. QED BY <1>5, <1>7, <1>8

(* An entry is one block of its message.                                   *)
LEMMA EntryIs ==
  ASSUME Registered, NEW e \in entries
  PROVE  /\ e.message \in Attributed /\ e.message \in DOMAIN messages /\ e \in Own(e.message)
         /\ Len(BlocksOf(e.message)) = Len(messages[e.message].occurrences)
         /\ \E k \in 1 .. Len(BlocksOf(e.message)) : e = EntryOf(e.message, k)
         /\ e.from \in 1 .. Len(Body(e.message)) /\ e.to \in e.from .. Len(Body(e.message))
<1>1. PICK m \in Attributed : e \in ToSet(Partitions(m))
  BY DEF Registered
<1>2. e.message = m
  BY <1>1 DEF ToSet, Partitions
<1>3. m \in DOMAIN messages
  BY DEF Attributed
<1>4. e \in Own(m)
  BY <1>2 DEF Own
<1>5. Text(Body(m))
  BY <1>3, MessageText DEF Registered
<1>6. PICK k \in 1 .. Len(BlocksOf(m)) : e = EntryOf(m, k)
  BY <1>3, <1>4, EntriesOf
<1>7. /\ Len(BlocksOf(m)) \in Nat
      /\ BlocksOf(m)[k].from \in 1 .. Len(Body(m)) /\ BlocksOf(m)[k].to \in BlocksOf(m)[k].from .. Len(Body(m))
  BY <1>5, BlocksPart DEF BlocksOf
<1>8. e.from \in 1 .. Len(Body(m)) /\ e.to \in e.from .. Len(Body(m))
  BY <1>6, <1>7 DEF EntryOf
<1>9. Len(BlocksOf(m)) = Len(messages[m].occurrences)
  BY <1>3, <1>7, EntriesOf
<1>10. QED BY <1>2, <1>3, <1>4, <1>6, <1>8, <1>9

(* Two entries of one message share no line.                               *)
LEMMA EntriesApart ==
  ASSUME Registered, NEW e \in entries, NEW d \in entries, e.message = d.message, e # d
  PROVE  e.to < d.from \/ d.to < e.from
<1> DEFINE m == e.message
<1>1. PICK k \in 1 .. Len(BlocksOf(m)) : e = EntryOf(m, k)
  BY EntryIs
<1>2. PICK l \in 1 .. Len(BlocksOf(m)) : d = EntryOf(m, l)
  BY EntryIs
<1>3. Text(Body(m))
  BY EntryIs, MessageText DEF Registered
<1>4. Len(BlocksOf(m)) \in Nat /\ \A x, y \in 1 .. Len(BlocksOf(m)) : x < y => BlocksOf(m)[x].to < BlocksOf(m)[y].from
  BY <1>3, BlocksPart DEF BlocksOf
<1>5. k # l
  BY <1>1, <1>2
<1>6. k < l \/ l < k
  BY <1>4, <1>5
<1>7. e.from = BlocksOf(m)[k].from /\ e.to = BlocksOf(m)[k].to /\ d.from = BlocksOf(m)[l].from /\ d.to = BlocksOf(m)[l].to
  BY <1>1, <1>2 DEF EntryOf
<1>8. QED BY <1>4, <1>6, <1>7

(* What a page wrote is in the entry of its occurrence: as many blocks as  *)
(* occurrences leave a page no block of its own making.                    *)
LEMMA EntryPages ==
  ASSUME Registered, NEW e \in entries, NEW i \in e.from .. e.to
  PROVE  Body(e.message)[i].page \in {e.occurrence, Nobody}
<1> DEFINE m == e.message
           t == Body(m)
           q == messages[m].occurrences
           n == Len(q)
           B == BlocksOf(m)
<1>1. /\ m \in DOMAIN messages /\ Len(B) = n /\ e.from \in 1 .. Len(t) /\ e.to \in e.from .. Len(t)
      /\ Text(t) /\ Rendered(messages[m])
  BY EntryIs, MessageText DEF Registered
<1>2. PICK k \in 1 .. Len(B) : e = EntryOf(m, k)
  BY EntryIs
<1>3. /\ n \in Nat /\ (Opens(t) = {} <=> n = 0)
      /\ \A x \in 1 .. n : /\ B[x].from \in Opens(t) /\ B[x].from \in 1 .. Len(t)
                           /\ B[x].to \in B[x].from .. Len(t)
      /\ \A x \in Opens(t) : \E y \in 1 .. n : B[y].from = x
      /\ \A x, y \in 1 .. n : x < y => B[x].to < B[y].from /\ B[x].from < B[y].from
  BY <1>1, BlocksPart DEF BlocksOf
<1>4. Len(t) \in Nat /\ DOMAIN t = 1 .. Len(t) /\ Opens(t) \subseteq Int
  BY <1>1, TextLines DEF Opens
<1>5. Opens(t) # {}
  BY <1>1, <1>2, <1>3
<1>6. PICK first \in [1 .. n -> Opens(t)] :
        /\ \A x, y \in 1 .. n : x < y => first[x] < first[y]
        /\ \A x \in DOMAIN t : t[x].page # Nobody =>
             \E y \in 1 .. n : first[y] <= x /\ (\A z \in 1 .. n : y < z => x < first[z]) /\ t[x].page = q[y]
  <2>1. messages[m].lines = t
    BY DEF Body
  <2>2. \E first \in [1 .. Len(q) -> Opens(t)] :
          /\ \A x, y \in DOMAIN first : x < y => first[x] < first[y]
          /\ \A x \in DOMAIN t : t[x].page # Nobody =>
               \E y \in DOMAIN first : /\ first[y] <= x /\ \A z \in DOMAIN first : y < z => x < first[z]
                                       /\ t[x].page = q[y]
    BY <1>1, <1>5, <2>1 DEF Rendered
  <2> HIDE DEF t, q
  <2>3. QED BY <2>2
<1> HIDE DEF t, q, n, B
<1>7. \A x \in 1 .. n : first[x] = B[x].from
  <2> DEFINE g == [x \in 1 .. n |-> B[x].from]
  <2>1. Reaches(g, n, Opens(t)) /\ Increases(g, n, Opens(t))
    BY <1>3, <1>4 DEF Reaches, Increases
  <2> HIDE DEF g
  <2>2. n \in Nat
    BY <1>3
  <2>3. Increases(first, n, Opens(t))
    BY <1>4, <1>6 DEF Increases
  <2>4. \A x \in 1 .. n : first[x] = g[x]
    BY <2>1, <2>2, <2>3, OneEnumeration
  <2>5. QED BY <2>4 DEF g
<1>8. SUFFICES ASSUME t[i].page # Nobody PROVE t[i].page = e.occurrence
  BY DEF t
<1>9. i \in 1 .. Len(t) /\ i \in DOMAIN t
  BY <1>1, <1>4
<1>10. PICK y \in 1 .. n : first[y] <= i /\ (\A z \in 1 .. n : y < z => i < first[z]) /\ t[i].page = q[y]
  BY <1>6, <1>8, <1>9
<1>11. k \in 1 .. n /\ e.from = B[k].from /\ e.to = B[k].to /\ e.occurrence = q[k]
  BY <1>1, <1>2 DEF EntryOf, B, q
<1>12. y = k
  <2>1. B[k].from <= i /\ i <= B[k].to /\ B[k].from \in Int /\ B[k].to \in Int /\ i \in Int
    <3>1. B[k].from \in 1 .. Len(t) /\ B[k].to \in B[k].from .. Len(t)
      BY <1>3, <1>11
    <3>2. i \in B[k].from .. B[k].to
      BY <1>11
    <3>3. QED BY <1>4, <3>1, <3>2
  <2>2. ~(y < k)
    <3> SUFFICES ASSUME y < k PROVE FALSE
      OBVIOUS
    <3>1. i < B[k].from
      BY <1>7, <1>10, <1>11
    <3>2. QED BY <2>1, <3>1
  <2>3. ~(k < y)
    <3> SUFFICES ASSUME k < y PROVE FALSE
      OBVIOUS
    <3>1. B[k].to < B[y].from /\ B[y].from <= i /\ B[y].from \in Int
      BY <1>3, <1>4, <1>7, <1>10, <1>11
    <3>2. QED BY <2>1, <3>1
  <2>4. QED BY <1>3, <1>10, <1>11, <2>2, <2>3
<1>13. QED BY <1>10, <1>11, <1>12

-----------------------------------------------------------------------------
\* the segments: a message's entries, what precedes them, and a message that has none
PartOf(e) == [message |-> e.message, kind |-> "TOOL_EVIDENCE", from |-> e.from, to |-> e.to, occurrences |-> {e.occurrence}]
Preamble(m) == Min({e.from : e \in Own(m)}) - 1
Prelude(m) == [message |-> m, kind |-> "TOOL_UNATTRIBUTED_CONTEXT", from |-> 1, to |-> Preamble(m), occurrences |-> {}]

(* The segments of a partition, one kind at a time.                        *)
LEMMA SegmentsAre ==
  ASSUME NEW g
  PROVE  g \in PartitionedSegments <=>
           \E m \in DOMAIN messages :
             \/ Own(m) = {} /\ g = Whole(m)
             \/ Own(m) # {} /\ \E e \in Own(m) : g = PartOf(e)
             \/ Own(m) # {} /\ Preamble(m) > 0 /\ g = Prelude(m)
<1> DEFINE parts(m) == {[message |-> m, kind |-> "TOOL_EVIDENCE", from |-> e.from, to |-> e.to, occurrences |-> {e.occurrence}] : e \in Own(m)}
           head(m) == {Prelude(m) : x \in {x \in {m} : Preamble(m) > 0}}
           of(m) == IF Own(m) = {} THEN {Whole(m)} ELSE parts(m) \cup head(m)
<1>1. PartitionedSegments = UNION {of(m) : m \in DOMAIN messages}
  BY DEF PartitionedSegments, Own, Preamble, Prelude
<1>2. \A m \in DOMAIN messages : g \in parts(m) <=> \E e \in Own(m) : g = PartOf(e)
  BY DEF Own, PartOf
<1>3. \A m \in DOMAIN messages : g \in head(m) <=> Preamble(m) > 0 /\ g = Prelude(m)
  OBVIOUS
<1> HIDE DEF parts, head
<1>4. QED BY <1>1, <1>2, <1>3

(* Where a message's first block starts is where its preamble ends.        *)
LEMMA PreambleEnds ==
  ASSUME Registered, NEW m \in DOMAIN messages, Own(m) # {}
  PROVE  /\ Preamble(m) \in Nat /\ Preamble(m) < Len(Body(m))
         /\ \A e \in Own(m) : Preamble(m) < e.from
         /\ \A x \in 1 .. Len(Body(m)) : x <= Preamble(m) \/ \E e \in Own(m) : e.from <= x /\ x <= e.to
<1> DEFINE t == Body(m)
           S == {e.from : e \in Own(m)}
           B == BlocksOf(m)
<1>1. Text(t) /\ Len(t) \in Nat
  BY MessageText, TextLines DEF Registered
<1>2. m \in Attributed /\ Own(m) = {EntryOf(m, k) : k \in 1 .. Len(B)}
  BY EntriesOf
<1>3. \A e \in Own(m) : e \in entries /\ e.message = m
  BY DEF Own
<1>4. \A e \in Own(m) : e.from \in 1 .. Len(t)
  BY <1>3, EntryIs
<1>5. S # {} /\ S \subseteq Nat /\ S \subseteq 1 .. Len(t) /\ \A e \in Own(m) : e.from \in S
  BY <1>1, <1>4
<1> HIDE DEF S
<1>6. Min(S) \in S /\ \A x \in S : Min(S) <= x
  BY <1>5, MinIn
<1>7. Preamble(m) = Min(S) - 1
  BY DEF Preamble, S
<1>8. Preamble(m) \in Nat /\ Preamble(m) < Len(t) /\ Min(S) = Preamble(m) + 1
  <2>1. Min(S) \in 1 .. Len(t)
    BY <1>5, <1>6
  <2>2. QED BY <1>1, <1>7, <2>1
<1>9. ASSUME NEW e \in Own(m) PROVE Preamble(m) < e.from
  BY <1>1, <1>4, <1>5, <1>6, <1>7, <1>8
<1>10. ASSUME NEW x \in 1 .. Len(t), ~(x <= Preamble(m)) PROVE \E e \in Own(m) : e.from <= x /\ x <= e.to
  <2>1. /\ Len(B) \in Nat
        /\ \A k \in 1 .. Len(B) : B[k].from \in 1 .. Len(t)
        /\ \A k, l \in 1 .. Len(B) : k < l => B[k].from < B[l].from
        /\ \A y \in 1 .. Len(t) : Len(B) > 0 /\ B[1].from <= y =>
             \E k \in 1 .. Len(B) : B[k].from <= y /\ y <= B[k].to
    BY <1>1, BlocksPart DEF BlocksOf
  <2>2. PICK k \in 1 .. Len(B) : Min(S) = EntryOf(m, k).from
    BY <1>2, <1>6 DEF S
  <2>3. 1 \in 1 .. Len(B) /\ Len(B) > 0
    BY <2>1
  <2>4. EntryOf(m, k).from = B[k].from
    BY DEF EntryOf
  <2>5. B[1].from <= B[k].from
    <3>1. k = 1 \/ 1 < k
      BY <2>1
    <3>2. QED BY <2>1, <2>3, <3>1
  <2>6. B[1].from <= x
    <3>1. B[1].from \in Int /\ B[k].from = Preamble(m) + 1 /\ B[1].from <= B[k].from /\ x \in Int
      BY <1>1, <1>8, <2>1, <2>2, <2>3, <2>4, <2>5
    <3>2. QED BY <1>8, <1>10, <3>1
  <2>7. PICK l \in 1 .. Len(B) : B[l].from <= x /\ x <= B[l].to
    BY <2>1, <2>3, <2>6
  <2>8. EntryOf(m, l) \in Own(m) /\ EntryOf(m, l).from = B[l].from /\ EntryOf(m, l).to = B[l].to
    BY <1>2 DEF EntryOf
  <2>9. QED BY <2>7, <2>8
<1>11. QED BY <1>8, <1>9, <1>10

(* The segments of a message hold each of its lines once.                  *)
LEMMA SegmentLies ==
  ASSUME Registered, NEW g \in PartitionedSegments
  PROVE  /\ g.message \in DOMAIN messages /\ Text(Body(g.message))
         /\ g.from \in 1 .. Len(Body(g.message)) + 1 /\ g.to \in 0 .. Len(Body(g.message)) /\ g.from <= g.to + 1
<1>1. PICK m \in DOMAIN messages :
        \/ Own(m) = {} /\ g = Whole(m)
        \/ Own(m) # {} /\ \E e \in Own(m) : g = PartOf(e)
        \/ Own(m) # {} /\ Preamble(m) > 0 /\ g = Prelude(m)
  BY SegmentsAre
<1>2. Text(Body(m)) /\ Len(Body(m)) \in Nat
  BY MessageText, TextLines DEF Registered
<1>3. CASE g = Whole(m)
  <2>1. g.message = m /\ g.from = 1 /\ g.to = Len(Body(m))
    BY <1>3 DEF Whole
  <2>2. QED BY <1>2, <2>1
<1>4. CASE \E e \in Own(m) : g = PartOf(e)
  <2>1. PICK e \in Own(m) : g = PartOf(e)
    BY <1>4
  <2>2. e \in entries /\ e.message = m
    BY DEF Own
  <2>3. e.from \in 1 .. Len(Body(m)) /\ e.to \in e.from .. Len(Body(m))
    BY <2>2, EntryIs
  <2>4. g.message = m /\ g.from = e.from /\ g.to = e.to
    BY <2>1, <2>2 DEF PartOf
  <2>5. QED BY <1>2, <2>3, <2>4
<1>5. CASE Own(m) # {} /\ g = Prelude(m)
  <2>1. Preamble(m) \in Nat /\ Preamble(m) < Len(Body(m))
    BY <1>5, PreambleEnds
  <2>2. g.message = m /\ g.from = 1 /\ g.to = Preamble(m)
    BY <1>5 DEF Prelude
  <2>3. QED BY <1>2, <2>1, <2>2
<1>6. QED BY <1>1, <1>3, <1>4, <1>5

(* Every line of a message is in a segment.                                *)
LEMMA SegmentsCover ==
  ASSUME Registered, NEW m \in DOMAIN messages, NEW k \in 1 .. Len(Body(m))
  PROVE  \E g \in PartitionedSegments : g.message = m /\ g.from <= k /\ k <= g.to
<1>1. Len(Body(m)) \in Nat
  BY MessageText, TextLines DEF Registered
<1>2. CASE Own(m) = {}
  <2>1. Whole(m) \in PartitionedSegments
    BY <1>2, SegmentsAre
  <2>2. Whole(m).message = m /\ Whole(m).from = 1 /\ Whole(m).to = Len(Body(m))
    BY DEF Whole
  <2>3. QED BY <1>1, <2>1, <2>2
<1>3. CASE Own(m) # {} /\ k <= Preamble(m)
  <2>1. Preamble(m) > 0
    <3>1. Preamble(m) \in Nat
      BY <1>3, PreambleEnds
    <3>2. k \in 1 .. Len(Body(m)) /\ k >= 1
      BY <1>1
    <3>3. QED BY <1>1, <1>3, <3>1, <3>2
  <2>2. Prelude(m) \in PartitionedSegments
    BY <1>3, <2>1, SegmentsAre
  <2>3. Prelude(m).message = m /\ Prelude(m).from = 1 /\ Prelude(m).to = Preamble(m)
    BY DEF Prelude
  <2>4. QED BY <1>1, <1>3, <2>2, <2>3
<1>4. CASE Own(m) # {} /\ ~(k <= Preamble(m))
  <2>1. PICK e \in Own(m) : e.from <= k /\ k <= e.to
    BY <1>4, PreambleEnds
  <2>2. PartOf(e) \in PartitionedSegments
    BY <1>4, SegmentsAre
  <2>3. PartOf(e).message = m /\ PartOf(e).from = e.from /\ PartOf(e).to = e.to
    BY DEF PartOf, Own
  <2>4. QED BY <2>1, <2>2, <2>3
<1>5. QED BY <1>2, <1>3, <1>4

(* And in one only.                                                        *)
LEMMA SegmentsApart ==
  ASSUME Registered, NEW g \in PartitionedSegments, NEW h \in PartitionedSegments, g.message = h.message,
         NEW k \in 1 .. Len(Body(g.message)), g.from <= k, k <= g.to, h.from <= k, k <= h.to
  PROVE  g = h
<1> DEFINE m == g.message
           Is(s) == \/ Own(m) = {} /\ s = Whole(m)
                    \/ Own(m) # {} /\ \E e \in Own(m) : s = PartOf(e)
                    \/ Own(m) # {} /\ Preamble(m) > 0 /\ s = Prelude(m)
<1>1. m \in DOMAIN messages /\ Text(Body(m)) /\ Len(Body(m)) \in Nat
  BY SegmentLies, TextLines
<1>2. ASSUME NEW s \in PartitionedSegments, s.message = m PROVE Is(s)
  <2>1. PICK x \in DOMAIN messages :
          \/ Own(x) = {} /\ s = Whole(x)
          \/ Own(x) # {} /\ \E e \in Own(x) : s = PartOf(e)
          \/ Own(x) # {} /\ Preamble(x) > 0 /\ s = Prelude(x)
    BY SegmentsAre
  <2>2. s.message = x
    BY <2>1 DEF Whole, PartOf, Prelude, Own
  <2>3. QED BY <1>2, <2>1, <2>2
<1>3. Is(g) /\ Is(h)
  BY <1>2
<1>4. ASSUME NEW e \in Own(m), Own(m) # {}
      PROVE  /\ e \in entries /\ e.message = m /\ e.from \in 1 .. Len(Body(m)) /\ e.to \in e.from .. Len(Body(m))
             /\ Preamble(m) < e.from
             /\ PartOf(e).from = e.from /\ PartOf(e).to = e.to
  <2>1. e \in entries /\ e.message = m
    BY DEF Own
  <2>2. e.from \in 1 .. Len(Body(m)) /\ e.to \in e.from .. Len(Body(m))
    BY <2>1, EntryIs
  <2>3. Preamble(m) < e.from
    BY <1>1, <1>4, PreambleEnds
  <2>4. QED BY <2>1, <2>2, <2>3 DEF PartOf
<1>5. Prelude(m).from = 1 /\ Prelude(m).to = Preamble(m)
  BY DEF Prelude
<1>6. Own(m) # {} => Preamble(m) \in Nat
  BY <1>1, PreambleEnds
<1>7. CASE Own(m) = {}
  BY <1>3, <1>7
<1>8. ASSUME Own(m) # {}, NEW e \in Own(m), NEW d \in Own(m), e.from <= k, k <= e.to, d.from <= k, k <= d.to
      PROVE  e = d
  <2> SUFFICES ASSUME e # d PROVE FALSE
    OBVIOUS
  <2>1. e.to < d.from \/ d.to < e.from
    BY <1>4, <1>8, EntriesApart
  <2>2. e.from \in Int /\ e.to \in Int /\ d.from \in Int /\ d.to \in Int /\ k \in Int
    BY <1>1, <1>4, <1>8
  <2>3. QED BY <1>8, <2>1, <2>2
<1>9. ASSUME Own(m) # {}, NEW e \in Own(m), e.from <= k, k <= Preamble(m) PROVE FALSE
  <2>1. Preamble(m) < e.from /\ e.from \in Int /\ k \in Int /\ Preamble(m) \in Int
    BY <1>1, <1>4, <1>6, <1>9
  <2>2. QED BY <1>9, <2>1
<1>10. CASE Own(m) # {}
  <2>1. (\E e \in Own(m) : g = PartOf(e)) \/ g = Prelude(m)
    BY <1>3, <1>10
  <2>2. (\E e \in Own(m) : h = PartOf(e)) \/ h = Prelude(m)
    BY <1>3, <1>10
  <2>3. CASE (\E e \in Own(m) : g = PartOf(e)) /\ \E e \in Own(m) : h = PartOf(e)
    <3>1. PICK e \in Own(m) : g = PartOf(e)
      BY <2>3
    <3>2. PICK d \in Own(m) : h = PartOf(d)
      BY <2>3
    <3>3. e.from <= k /\ k <= e.to /\ d.from <= k /\ k <= d.to
      BY <1>4, <1>10, <3>1, <3>2
    <3>4. e = d
      BY <1>8, <1>10, <3>3
    <3>5. QED BY <3>1, <3>2, <3>4
  <2>4. CASE (\E e \in Own(m) : g = PartOf(e)) /\ h = Prelude(m)
    <3>1. PICK e \in Own(m) : g = PartOf(e)
      BY <2>4
    <3>2. e.from <= k /\ k <= Preamble(m)
      BY <1>4, <1>5, <1>10, <2>4, <3>1
    <3>3. QED BY <1>9, <1>10, <3>2
  <2>5. CASE g = Prelude(m) /\ \E e \in Own(m) : h = PartOf(e)
    <3>1. PICK e \in Own(m) : h = PartOf(e)
      BY <2>5
    <3>2. e.from <= k /\ k <= Preamble(m)
      BY <1>4, <1>5, <1>10, <2>5, <3>1
    <3>3. QED BY <1>9, <1>10, <3>2
  <2>6. CASE g = Prelude(m) /\ h = Prelude(m)
    BY <2>6
  <2>7. QED BY <2>1, <2>2, <2>3, <2>4, <2>5, <2>6
<1>11. QED BY <1>7, <1>10

-----------------------------------------------------------------------------
(********************************* Spans ***********************************)

\* the spans are what is cut from the segments
SpansCut ==
  /\ Registered /\ cutter \in Cutters
  /\ spans = UNION {SpansOf(g) : g \in PartitionedSegments}

\* s is cut from the segment g
CutFrom(s, g) ==
  /\ s = [message |-> g.message, words |-> s.words, kind |-> g.kind, occurrences |-> g.occurrences]
  /\ s.words \in Chunks(Body(g.message), g.from, g.to)

(* A span is a chunk of one segment, and lies in it.                       *)
LEMMA SpanIs ==
  ASSUME SpansCut, NEW s \in spans
  PROVE  \E g \in PartitionedSegments :
           /\ CutFrom(s, g) /\ s.words \in Nat \X Nat /\ s.words[1] < s.words[2] /\ Length(s.words) <= cutter.budget
           /\ s.message = g.message /\ s.kind = g.kind /\ s.occurrences = g.occurrences
           /\ Stretch(Body(g.message), g.from, g.to)[1] <= s.words[1]
           /\ s.words[2] <= Stretch(Body(g.message), g.from, g.to)[2]
<1>1. PICK g \in PartitionedSegments : s \in SpansOf(g)
  BY DEF SpansCut
<1>2. CutFrom(s, g) /\ s.message = g.message /\ s.kind = g.kind /\ s.occurrences = g.occurrences
  BY <1>1 DEF SpansOf, CutFrom
<1>3. /\ Text(Body(g.message)) /\ g.from \in 1 .. Len(Body(g.message)) + 1 /\ g.to \in 0 .. Len(Body(g.message))
      /\ g.from <= g.to + 1
  BY SegmentLies DEF SpansCut
<1>4. Covers(Chunks(Body(g.message), g.from, g.to), Stretch(Body(g.message), g.from, g.to), cutter.budget)
  BY <1>3, ChunksCover DEF SpansCut
<1>5. QED BY <1>2, <1>4 DEF Covers, CutFrom

(* Every word is in a chunk, and no chunk exceeds the budget.              *)
LEMMA NothingLost ==
  ASSUME SpansCut
  PROVE  /\ \A s \in spans : Length(s.words) \in 1 .. cutter.budget
         /\ \A m \in DOMAIN messages : \A w \in 0 .. WordsIn(Body(m), DOMAIN Body(m)) - 1 :
              LET holders == {s \in spans : s.message = m /\ s.words[1] <= w /\ w < s.words[2]}
              IN /\ holders # {}
                 /\ cutter.chunker # "fixed_token_v1" => Cardinality(holders) = 1
<1>1. cutter.budget \in Nat \ {0} /\ cutter \in Cutters /\ Registered
  BY CutterAssumption DEF SpansCut
<1>2. ASSUME NEW s \in spans PROVE Length(s.words) \in 1 .. cutter.budget
  <2>1. s.words \in Nat \X Nat /\ s.words[1] < s.words[2] /\ Length(s.words) <= cutter.budget
    BY SpanIs
  <2>2. QED BY <1>1, <2>1 DEF Length
<1>3. ASSUME NEW m \in DOMAIN messages, NEW w \in 0 .. WordsIn(Body(m), DOMAIN Body(m)) - 1
      PROVE  LET holders == {s \in spans : s.message = m /\ s.words[1] <= w /\ w < s.words[2]}
             IN /\ holders # {}
                /\ cutter.chunker # "fixed_token_v1" => Cardinality(holders) = 1
  <2> DEFINE t == Body(m)
             v(g) == Stretch(t, g.from, g.to)
             C(g) == Chunks(t, g.from, g.to)
             holders == {s \in spans : s.message = m /\ s.words[1] <= w /\ w < s.words[2]}
  <2>1. Text(t) /\ Len(t) \in Nat /\ DOMAIN t = 1 .. Len(t)
    BY <1>1, MessageText, TextLines DEF Registered
  <2>2. w \in Nat /\ Holds(Stretch(t, 1, Len(t)), w)
    <3>1. First(t, 0) = 0 /\ First(t, Len(t)) \in Nat
      BY <2>1, PrefixSums
    <3>2. Stretch(t, 1, Len(t)) = <<First(t, 0), First(t, Len(t))>>
      BY DEF Stretch, First
    <3>3. w \in 0 .. First(t, Len(t)) - 1
      BY <1>3, <2>1 DEF First
    <3>4. QED BY <3>1, <3>2, <3>3 DEF Holds
  <2> HIDE DEF t
  <2>3. PICK k \in 1 .. Len(t) : OnLine(t, k, w) /\ ~IsBlank(t[k])
    <3>1. 1 \in 1 .. Len(t) + 1 /\ Len(t) \in 0 .. Len(t)
      BY <2>1
    <3>2. QED BY <2>1, <2>2, <3>1, WordHasLine
  <2>4. PICK g \in PartitionedSegments : g.message = m /\ g.from <= k /\ k <= g.to
    BY <1>1, SegmentsCover DEF t
  <2>5. ASSUME NEW h \in PartitionedSegments, h.message = m
        PROVE  /\ h.from \in 1 .. Len(t) + 1 /\ h.to \in 0 .. Len(t) /\ h.from <= h.to + 1
               /\ Covers(C(h), v(h), cutter.budget)
               /\ cutter.chunker # "fixed_token_v1" => Cuts(C(h), v(h), cutter.budget)
    <3>1. h.from \in 1 .. Len(t) + 1 /\ h.to \in 0 .. Len(t) /\ h.from <= h.to + 1
      BY <1>1, <2>5, SegmentLies DEF t
    <3>2. QED BY <1>1, <2>1, <3>1, ChunksCover
  <2>6. holders # {}
    <3>1. Holds(v(g), w)
      BY <2>1, <2>2, <2>3, <2>4, <2>5, StretchHolds
    <3>2. PICK u \in C(g) : Holds(u, w)
      BY <2>2, <2>4, <2>5, <3>1 DEF Covers
    <3> DEFINE s == [message |-> g.message, words |-> u, kind |-> g.kind, occurrences |-> g.occurrences]
    <3>3. s \in SpansOf(g)
      BY <2>4, <3>2 DEF SpansOf, t
    <3>4. s \in spans
      BY <2>4, <3>3 DEF SpansCut
    <3>5. s \in holders
      BY <2>4, <3>2, <3>4 DEF Holds
    <3>6. QED BY <3>5
  <2>7. ASSUME cutter.chunker # "fixed_token_v1", NEW s \in holders, NEW x \in holders PROVE s = x
    <3>1. /\ s \in spans /\ s.message = m /\ s.words[1] <= w /\ w < s.words[2]
          /\ x \in spans /\ x.message = m /\ x.words[1] <= w /\ w < x.words[2]
      BY <2>7
    <3>2. ASSUME NEW y \in spans, y.message = m, y.words[1] <= w, w < y.words[2]
          PROVE  \E h \in PartitionedSegments :
                   /\ h.message = m /\ h.from <= k /\ k <= h.to /\ y.words \in C(h)
                   /\ y = [message |-> m, words |-> y.words, kind |-> h.kind, occurrences |-> h.occurrences]
      <4>1. PICK h \in PartitionedSegments :
              /\ CutFrom(y, h) /\ y.words \in Nat \X Nat /\ y.message = h.message
              /\ Stretch(Body(h.message), h.from, h.to)[1] <= y.words[1]
              /\ y.words[2] <= Stretch(Body(h.message), h.from, h.to)[2]
        BY <3>2, SpanIs
      <4>2. h.message = m /\ v(h)[1] <= y.words[1] /\ y.words[2] <= v(h)[2]
        BY <3>2, <4>1 DEF t
      <4>3. h.from \in 1 .. Len(t) + 1 /\ h.to \in 0 .. Len(t) /\ h.from <= h.to + 1
        BY <2>5, <4>2
      <4>4. v(h) \in Nat \X Nat
        <5>1. h.from \in h.from .. Len(t) + 1 /\ h.to \in 0 .. h.to
          BY <2>1, <4>3
        <5>2. QED BY <2>1, <4>3, <5>1, StretchLies
      <4>5. Holds(v(h), w)
        <5>1. v(h)[1] \in Nat /\ v(h)[2] \in Nat /\ y.words[1] \in Nat /\ y.words[2] \in Nat
          BY <4>1, <4>4
        <5> HIDE DEF v
        <5>2. QED BY <2>2, <3>2, <4>2, <5>1 DEF Holds
      <4>6. h.from <= k /\ k <= h.to
        BY <2>1, <2>2, <2>3, <4>3, <4>5, StretchHolds
      <4>7. QED BY <3>2, <4>1, <4>2, <4>6 DEF CutFrom, t
    <3>3. PICK h \in PartitionedSegments :
            /\ h.message = m /\ h.from <= k /\ k <= h.to /\ s.words \in C(h)
            /\ s = [message |-> m, words |-> s.words, kind |-> h.kind, occurrences |-> h.occurrences]
      BY <3>1, <3>2
    <3>4. PICK f \in PartitionedSegments :
            /\ f.message = m /\ f.from <= k /\ k <= f.to /\ x.words \in C(f)
            /\ x = [message |-> m, words |-> x.words, kind |-> f.kind, occurrences |-> f.occurrences]
      BY <3>1, <3>2
    <3>5. h = f
      BY <1>1, <2>3, <3>3, <3>4, SegmentsApart DEF t
    <3>6. Holds(s.words, w) /\ Holds(x.words, w)
      BY <3>1 DEF Holds
    <3>7. s.words = x.words
      BY <2>2, <2>5, <2>7, <3>3, <3>4, <3>5, <3>6 DEF Cuts
    <3>8. QED BY <3>3, <3>4, <3>5, <3>7
  <2>8. cutter.chunker # "fixed_token_v1" => Cardinality(holders) = 1
    <3> SUFFICES ASSUME cutter.chunker # "fixed_token_v1" PROVE Cardinality(holders) = 1
      OBVIOUS
    <3> HIDE DEF holders
    <3>1. PICK s \in holders : TRUE
      BY <2>6
    <3>2. holders = {s}
      BY <2>7, <3>1
    <3>3. QED BY <3>2, FS_Singleton
  <2>9. QED BY <2>6, <2>8
<1>4. QED BY <1>2, <1>3

-----------------------------------------------------------------------------
(**************************** Owners of a span *****************************)

(* Lines a..b and c..d that meet in a word meet in a line.                 *)
LEMMA Overlap ==
  ASSUME NEW t, Text(t), NEW a \in 1 .. Len(t) + 1, NEW b \in 0 .. Len(t),
         NEW c \in 1 .. Len(t) + 1, NEW d \in 0 .. Len(t), NEW u \in Nat \X Nat,
         Stretch(t, a, b)[1] <= u[1], u[2] <= Stretch(t, a, b)[2],
         u[1] < Stretch(t, c, d)[2], Stretch(t, c, d)[1] < u[2]
  PROVE  a <= d /\ c <= b
<1>1. /\ Len(t) \in Nat
      /\ Stretch(t, a, b) = <<First(t, a - 1), First(t, b)>> /\ Stretch(t, c, d) = <<First(t, c - 1), First(t, d)>>
  BY TextLines DEF Stretch, First
<1>2. /\ First(t, a - 1) \in Nat /\ First(t, b) \in Nat /\ First(t, c - 1) \in Nat /\ First(t, d) \in Nat
      /\ u[1] \in Nat /\ u[2] \in Nat
  <2>1. a - 1 \in 0 .. Len(t) /\ c - 1 \in 0 .. Len(t)
    BY <1>1
  <2>2. QED BY <2>1, PrefixSums
<1>3. First(t, a - 1) < First(t, d) /\ First(t, c - 1) < First(t, b)
  <2>1. /\ First(t, a - 1) <= u[1] /\ u[2] <= First(t, b)
        /\ u[1] < First(t, d) /\ First(t, c - 1) < u[2]
    BY <1>1
  <2>2. QED BY <1>2, <2>1
<1>4. ASSUME ~(a <= d) PROVE FALSE
  <2>1. a - 1 \in d .. Len(t)
    BY <1>1, <1>4
  <2>2. First(t, d) <= First(t, a - 1)
    BY <2>1, PrefixesGrow
  <2>3. QED BY <1>2, <1>3, <2>2
<1>5. ASSUME ~(c <= b) PROVE FALSE
  <2>1. c - 1 \in b .. Len(t)
    BY <1>1, <1>5
  <2>2. First(t, b) <= First(t, c - 1)
    BY <2>1, PrefixesGrow
  <2>3. QED BY <1>2, <1>3, <2>2
<1>6. QED BY <1>4, <1>5

\* a span of evidence names who wrote it, and lies in the entry it touches
Owned(s) ==
  /\ Authors(s) \subseteq s.occurrences
  /\ Sources(s) # {} => \E e \in entries : Sources(s) = {e} /\ Within(s, e) /\ s.occurrences = {e.occurrence}

(* A span cut from an entry has that entry for its only source, and no     *)
(* words but those of the entry's page.                                    *)
LEMMA EntryOwns ==
  ASSUME SpansCut, NEW s \in spans, NEW e \in entries, CutFrom(s, PartOf(e))
  PROVE  Owned(s)
<1> DEFINE m == e.message
           t == Body(m)
           v == Stretch(t, e.from, e.to)
<1>1. /\ Registered /\ m \in DOMAIN messages /\ Text(t) /\ Len(t) \in Nat
      /\ e.from \in 1 .. Len(t) /\ e.to \in e.from .. Len(t)
      /\ e.from \in 1 .. Len(t) + 1 /\ e.to \in 0 .. Len(t) /\ e.from <= e.to + 1
  <2>1. Registered /\ m \in DOMAIN messages /\ e.from \in 1 .. Len(t) /\ e.to \in e.from .. Len(t)
    BY EntryIs DEF SpansCut
  <2>2. Text(t) /\ Len(t) \in Nat
    BY <2>1, MessageText, TextLines DEF Registered
  <2>3. QED BY <2>1, <2>2
<1>2. /\ s.message = m /\ s.kind = "TOOL_EVIDENCE" /\ s.occurrences = {e.occurrence}
      /\ s.words \in Chunks(t, e.from, e.to)
  BY DEF CutFrom, PartOf
<1>3. s.words \in Nat \X Nat /\ v[1] <= s.words[1] /\ s.words[2] <= v[2]
  <2>1. Covers(Chunks(t, e.from, e.to), v, cutter.budget)
    BY <1>1, ChunksCover DEF SpansCut
  <2>2. QED BY <1>2, <2>1 DEF Covers
<1>4. Within(s, e)
  BY <1>3 DEF Within, WordsOf
<1>5. Sources(s) \subseteq {e}
  <2> SUFFICES ASSUME NEW d \in Touched(s), d # e PROVE FALSE
    BY <1>2 DEF Sources
  <2>1. /\ d \in entries /\ d.message = m
        /\ s.words[1] < Stretch(t, d.from, d.to)[2] /\ Stretch(t, d.from, d.to)[1] < s.words[2]
    BY <1>2 DEF Touched, WordsOf
  <2>2. d.from \in 1 .. Len(t) /\ d.to \in d.from .. Len(t)
    BY <1>1, <2>1, EntryIs
  <2>3. d.from \in 1 .. Len(t) + 1 /\ d.to \in 0 .. Len(t)
    BY <1>1, <2>2
  <2>4. e.from <= d.to /\ d.from <= e.to
    <3> HIDE DEF t
    <3>1. QED BY <1>1, <1>3, <2>1, <2>3, Overlap
  <2>5. e.to < d.from \/ d.to < e.from
    BY <1>1, <2>1, EntriesApart
  <2>6. QED BY <1>1, <2>2, <2>4, <2>5
<1>6. Authors(s) \subseteq {e.occurrence}
  <2> SUFFICES ASSUME NEW i \in DOMAIN t, t[i].page # Nobody,
                      s.words[1] < Stretch(t, i, i)[2], Stretch(t, i, i)[1] < s.words[2]
               PROVE  t[i].page = e.occurrence
    BY <1>2 DEF Authors
  <2>1. i \in 1 .. Len(t)
    BY <1>1, TextLines
  <2>2. i \in 1 .. Len(t) + 1 /\ i \in 0 .. Len(t)
    BY <1>1, <2>1
  <2>3. e.from <= i /\ i <= e.to
    <3> HIDE DEF t
    <3>1. QED BY <1>1, <1>3, <2>2, Overlap
  <2>4. i \in e.from .. e.to
    BY <1>1, <2>1, <2>3
  <2>5. QED BY <1>1, <2>4, EntryPages
<1>7. QED BY <1>2, <1>4, <1>5, <1>6 DEF Owned

(* Every span of evidence is owned.                                        *)
LEMMA EvidenceIsOwned ==
  ASSUME SpansCut, NEW s \in spans, s.kind = "TOOL_EVIDENCE"
  PROVE  Owned(s)
<1>1. PICK g \in PartitionedSegments : CutFrom(s, g) /\ s.message = g.message /\ s.kind = g.kind /\ s.occurrences = g.occurrences
  BY SpanIs
<1>2. Registered
  BY DEF SpansCut
<1>3. PICK m \in DOMAIN messages :
        \/ Own(m) = {} /\ g = Whole(m)
        \/ Own(m) # {} /\ \E e \in Own(m) : g = PartOf(e)
        \/ Own(m) # {} /\ Preamble(m) > 0 /\ g = Prelude(m)
  BY <1>1, SegmentsAre
<1>4. CASE Own(m) = {} /\ g = Whole(m)
  <2> DEFINE message == messages[m]
  <2>1. s.message = m /\ s.occurrences = ToSet(message.occurrences) /\ Kind(message) = "TOOL_EVIDENCE"
    BY <1>1, <1>4 DEF Whole
  <2>2. m \in Attributed
    BY <2>1 DEF Attributed
  <2>3. Text(Body(m)) /\ Rendered(message) /\ message.occurrences \in Seq(ToSet(message.occurrences))
    BY <1>2, MessageText DEF Registered
  <2>4. Len(BlocksOf(m)) \in Nat /\ (Opens(Body(m)) = {} <=> Len(BlocksOf(m)) = 0)
    BY <2>3, BlocksPart DEF BlocksOf
  <2>5. Len(BlocksOf(m)) = 0
    <3>1. Own(m) = {EntryOf(m, k) : k \in 1 .. Len(BlocksOf(m))}
      BY <1>2, <2>2, EntriesOf
    <3>2. 1 \notin 1 .. Len(BlocksOf(m))
      BY <1>4, <3>1
    <3>3. QED BY <2>4, <3>2
  <2>6. Len(message.occurrences) \in Nat /\ Len(message.occurrences) > 0
    <3>1. message.occurrences # <<>>
      BY <2>1 DEF Kind
    <3>2. Len(message.occurrences) \in Nat
      BY <2>3, LenProperties
    <3>3. Len(message.occurrences) # 0
      BY <2>3, <3>1, EmptySeq
    <3>4. QED BY <3>2, <3>3
  <2>7. \A l \in ToSet(Body(m)) : l.page \in ToSet(message.occurrences) \cup {Nobody}
    <3>1. Opens(message.lines) = {} /\ message.lines = Body(m)
      BY <2>4, <2>5 DEF Body
    <3>2. ~\E first \in [1 .. Len(message.occurrences) -> Opens(message.lines)] : TRUE
      <4>1. 1 \in 1 .. Len(message.occurrences)
        BY <2>6
      <4> HIDE DEF message
      <4>2. QED BY <3>1, <4>1
    <3>3. QED BY <2>3, <3>1, <3>2 DEF Rendered
  <2>8. Authors(s) \subseteq s.occurrences
    <3>1. \A i \in DOMAIN Body(m) : Body(m)[i] \in ToSet(Body(m))
      BY DEF ToSet
    <3>2. QED BY <2>1, <2>7, <3>1 DEF Authors
  <2>9. Sources(s) = {}
    <3>1. \A e \in Touched(s) : e \in Own(m)
      BY <2>1 DEF Touched, Own
    <3>2. QED BY <1>4, <3>1 DEF Sources
  <2>10. QED BY <2>8, <2>9 DEF Owned
<1>5. CASE \E e \in Own(m) : g = PartOf(e)
  <2>1. PICK e \in Own(m) : g = PartOf(e)
    BY <1>5
  <2>2. e \in entries
    BY DEF Own
  <2>3. QED BY <1>1, <2>1, <2>2, EntryOwns
<1>6. CASE g = Prelude(m)
  BY <1>1, <1>6 DEF Prelude
<1>7. QED BY <1>3, <1>4, <1>5, <1>6

(* No span stops the close for want of one owner.                          *)
LEMMA EverySpanBinds ==
  ASSUME SpansCut, NEW s \in spans
  PROVE  /\ OneSource(s)
         /\ Sources(s) # {} => Authors(s) \subseteq {(CHOOSE e \in Sources(s) : Within(s, e)).occurrence}
<1>1. CASE Sources(s) = {}
  BY <1>1 DEF OneSource
<1>2. CASE Sources(s) # {}
  <2>1. s.kind = "TOOL_EVIDENCE"
    BY <1>2 DEF Sources
  <2>2. Owned(s)
    BY <2>1, EvidenceIsOwned
  <2>3. PICK e \in entries : Sources(s) = {e} /\ Within(s, e) /\ s.occurrences = {e.occurrence}
    BY <1>2, <2>2 DEF Owned
  <2>4. {d \in Sources(s) : Within(s, d)} = {e}
    BY <2>3
  <2>5. OneSource(s)
    <3>1. Cardinality({e}) = 1
      BY FS_Singleton
    <3>2. QED BY <2>3, <2>4, <3>1 DEF OneSource
  <2>6. (CHOOSE d \in Sources(s) : Within(s, d)) = e
    BY <2>3
  <2>7. QED BY <2>2, <2>3, <2>5, <2>6 DEF Owned
<1>3. QED BY <1>1, <1>2

-----------------------------------------------------------------------------
(***************************** The close view ******************************)

\* what a bound span is bound to
Bindings == [s \in {s \in spans : Sources(s) # {}} |-> CHOOSE e \in Sources(s) : Within(s, e)]

(* The invariant of the close view: the registry is that of the frozen     *)
(* messages, the segments are its partition, the spans are cut from them,  *)
(* and a bound span is bound to what contains it.                          *)
CloseInv ==
  /\ messages \in Conversations /\ cutter \in Cutters
  /\ closing \in {"registry", "partition", "chunk", "bind", "view", "offered", "no registry", "no view"}
  /\ closing \notin {"registry", "no registry"} => Registered
  /\ closing = "chunk" => segments = PartitionedSegments
  /\ Chunked => SpansCut
  /\ closing \in {"view", "offered"} => bound = Bindings

(* The registry, its partition and what is cut from it stay with the       *)
(* messages, the variant and the entries.                                  *)
LEMMA CloseKeeps ==
  ASSUME UNCHANGED <<messages, cutter, entries>>
  PROVE  /\ Registered' <=> Registered
         /\ PartitionedSegments' = PartitionedSegments
         /\ spans' = spans => (SpansCut' <=> SpansCut) /\ Bindings' = Bindings
<1>1. /\ messages' = messages /\ cutter' = cutter /\ entries' = entries
  OBVIOUS
<1>2. Attributed' = Attributed /\ \A m : Partitions(m)' = Partitions(m) /\ (Paired(m)' <=> Paired(m)) /\ Body(m)' = Body(m)
  BY <1>1 DEF Attributed, Partitions, Paired, Body
<1>3. Registered' <=> Registered
  BY <1>1, <1>2 DEF Registered
<1>4. PartitionedSegments' = PartitionedSegments
  BY <1>1 DEF PartitionedSegments, Whole, Body
<1>5. \A g : SpansOf(g)' = SpansOf(g)
  BY <1>1 DEF SpansOf, Chunks, Body
<1>6. ASSUME spans' = spans PROVE SpansCut' <=> SpansCut
  BY <1>1, <1>3, <1>4, <1>5, <1>6 DEF SpansCut
<1>7. ASSUME spans' = spans PROVE Bindings' = Bindings
  <2>1. \A s : Sources(s)' = Sources(s)
    BY <1>1 DEF Sources, Touched, WordsOf, Body
  <2>2. \A s, e : Within(s, e)' <=> Within(s, e)
    BY <1>1 DEF Within, WordsOf, Body
  <2>3. QED BY <1>7, <2>1, <2>2 DEF Bindings, Sources, Touched, WordsOf, Within, Body
<1>8. QED BY <1>3, <1>4, <1>6, <1>7

(* The invariant holds: each step of a close makes the next part of it.    *)
LEMMA CloseHolds == CloseSpec => []CloseInv
<1>1. CloseInit => CloseInv
  BY DEF CloseInit, CloseInv, Chunked
<1>2. ASSUME CloseInv, [CloseStep]_closeVars PROVE CloseInv'
  <2>1. CASE BuildRegistry
    <3>1. UNCHANGED <<messages, cutter, segments, spans, bound>> /\ closing' \in {"partition", "no registry"}
      BY <2>1 DEF BuildRegistry, Refuse
    <3>2. ASSUME closing' = "partition" PROVE Registered'
      <4>1. /\ \A m \in Attributed : Paired(m)
            /\ entries' = UNION {ToSet(Partitions(m)) : m \in Attributed}
        BY <2>1, <3>2 DEF BuildRegistry, Refuse
      <4>2. Attributed' = Attributed /\ \A m : Partitions(m)' = Partitions(m) /\ (Paired(m)' <=> Paired(m))
        BY <3>1 DEF Attributed, Partitions, Paired, Body
      <4>3. messages' \in Conversations
        BY <1>2, <3>1 DEF CloseInv
      <4>4. QED BY <4>1, <4>2, <4>3 DEF Registered
    <3>3. QED BY <1>2, <3>1, <3>2 DEF CloseInv, Chunked
  <2>2. CASE Partition
    <3>1. /\ closing = "partition" /\ closing' = "chunk" /\ UNCHANGED <<messages, cutter, entries, spans, bound>>
          /\ segments' = PartitionedSegments
      BY <2>2 DEF Partition
    <3>2. Registered' /\ segments' = PartitionedSegments'
      BY <1>2, <3>1, CloseKeeps DEF CloseInv
    <3>3. QED BY <1>2, <3>1, <3>2 DEF CloseInv, Chunked
  <2>3. CASE Chunk
    <3>1. /\ closing = "chunk" /\ closing' = "bind" /\ UNCHANGED <<messages, cutter, entries, segments, bound>>
          /\ spans' = UNION {SpansOf(g) : g \in segments}
      BY <2>3 DEF Chunk
    <3>2. Registered' /\ PartitionedSegments' = PartitionedSegments /\ segments = PartitionedSegments
      BY <1>2, <3>1, CloseKeeps DEF CloseInv
    <3>3. \A g : SpansOf(g)' = SpansOf(g)
      BY <3>1 DEF SpansOf, Chunks, Body
    <3>4. SpansCut'
      BY <1>2, <3>1, <3>2, <3>3 DEF SpansCut, CloseInv
    <3>5. QED BY <1>2, <3>1, <3>2, <3>4 DEF CloseInv, Chunked
  <2>4. CASE Bind
    <3>1. closing = "bind" /\ UNCHANGED <<messages, cutter, entries, segments, spans>>
      BY <2>4 DEF Bind, Refuse
    <3>2. SpansCut /\ Registered
      BY <1>2, <3>1 DEF CloseInv, Chunked
    <3>3. \A s \in spans : OneSource(s)
      BY <3>2, EverySpanBinds
    <3>4. closing' = "view" /\ bound' = Bindings
      BY <2>4, <3>3 DEF Bind, Bindings
    <3>5. SpansCut' /\ Registered' /\ bound' = Bindings'
      BY <3>1, <3>2, <3>4, CloseKeeps
    <3>6. QED BY <1>2, <3>1, <3>4, <3>5 DEF CloseInv, Chunked
  <2>5. CASE ViewCandidates
    <3>1. /\ closing = "view" /\ closing' \in {"offered", "no view"}
          /\ UNCHANGED <<messages, cutter, entries, segments, spans, bound>>
      BY <2>5 DEF ViewCandidates, Refuse
    <3>2. SpansCut /\ Registered /\ bound = Bindings
      BY <1>2, <3>1 DEF CloseInv, Chunked
    <3>3. SpansCut' /\ Registered' /\ bound' = Bindings'
      BY <3>1, <3>2, CloseKeeps
    <3>4. QED BY <1>2, <3>1, <3>3 DEF CloseInv, Chunked
  <2>6. CASE UNCHANGED closeVars
    <3>1. UNCHANGED <<messages, cutter, closing, entries, segments, spans, bound>>
      BY <2>6 DEF closeVars
    <3>2. /\ Registered' <=> Registered
          /\ PartitionedSegments' = PartitionedSegments /\ (SpansCut' <=> SpansCut) /\ Bindings' = Bindings
      BY <3>1, CloseKeeps
    <3>3. Chunked' <=> Chunked
      BY <3>1 DEF Chunked
    <3>4. QED BY <1>2, <3>1, <3>2, <3>3 DEF CloseInv
  <2>7. QED BY <1>2, <2>1, <2>2, <2>3, <2>4, <2>5, <2>6 DEF CloseStep
<1>3. QED BY <1>1, <1>2, PTL DEF CloseSpec

(* Each citable chunk of a C_VISIBLE close is attributed to the pages      *)
(* whose words it holds, and a bound one to the one page it is from; after *)
(* the registry is built no chunk is left without an owner                 *)
(* (visible_view.py source_meta_for, close_visible.py).                    *)
THEOREM EveryChunkHasItsOwner == CloseSpec => []SpansHaveOneOwner
<1>1. ASSUME CloseInv PROVE SpansHaveOneOwner
  <2>1. closing # "no owner"
    BY <1>1 DEF CloseInv
  <2>2. ASSUME Chunked, NEW s \in spans, s.kind = "TOOL_EVIDENCE" PROVE Authors(s) \subseteq s.occurrences
    BY <1>1, <2>2, EvidenceIsOwned DEF CloseInv, Owned
  <2>3. ASSUME closing \in {"view", "offered"}, NEW s \in DOMAIN bound
        PROVE  Authors(s) \subseteq {bound[s].occurrence}
    <3>1. SpansCut /\ bound = Bindings
      BY <1>1, <2>3 DEF CloseInv, Chunked
    <3>2. s \in spans /\ Sources(s) # {} /\ bound[s] = CHOOSE e \in Sources(s) : Within(s, e)
      BY <2>3, <3>1 DEF Bindings
    <3>3. QED BY <3>1, <3>2, EverySpanBinds
  <2>4. QED BY <2>1, <2>2, <2>3 DEF SpansHaveOneOwner
<1>2. QED BY <1>1, CloseHolds, PTL

(* The chunks of a frozen message hold each of its words, none exceeds the *)
(* variant's budget, and only windows overlap (chunkers.py).               *)
THEOREM ChunksLoseNothing == CloseSpec => []NothingLostNothingLong
<1>1. ASSUME CloseInv PROVE NothingLostNothingLong
  BY <1>1, NothingLost DEF CloseInv, NothingLostNothingLong
<1>2. QED BY <1>1, CloseHolds, PTL
=============================================================================
