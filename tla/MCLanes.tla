------------------------------- MODULE MCLanes -------------------------------
(***************************************************************************)
(* Two tasks under two arms on two lanes and one reading of them by the    *)
(* evaluator; the same on one lane that no signal stops, with a second     *)
(* reading and the steward's gate; the replay of a finished campaign's     *)
(* checkpoints; and the designs of larger campaigns, which are frozen and  *)
(* not run.  A behaviour does one of the four.                             *)
(***************************************************************************)
EXTENDS Lanes, Replay

CONSTANTS MaxArms, MaxTasks   \* bounds on the designs

VARIABLE scenario   \* what this behaviour does

MCTasks == <<"t1", "t2">>
MCEmpty == [answer |-> "empty", searched |-> FALSE, published |-> FALSE, found |-> FALSE]
MCBodies == {[answer |-> "text", searched |-> TRUE, published |-> TRUE, found |-> TRUE], MCEmpty}
MCFloor == [accuracy |-> [n |-> 1, d |-> 2], recall |-> [n |-> 1, d |-> 2]]

Page(occ, bytes) == [occ |-> occ, bytes |-> bytes]
Checkpoint(digest, kind, task, pages) ==
  [digest |-> digest, kind |-> kind, task |-> task, pages |-> pages]

\* A batch of two pages, one of them without a body; a close; a batch whose two occurrences are one
\* document; a copy of the first batch in another lane; a batch with an occurrence no trace names.
MCStored == <<Checkpoint("h1", "H", "t1", <<Page("o1", "x"), Page("o2", NoBytes)>>),
              Checkpoint("c1", "C", "t1", <<>>),
              Checkpoint("h2", "H", "t2", <<Page("o3", "y"), Page("o4", "y")>>),
              Checkpoint("h1", "H", "t1", <<Page("o1", "x"), Page("o2", NoBytes)>>),
              Checkpoint("h3", "H", "t2", <<Page("o5", "x")>>)>>
MCTraces == <<[docids |-> <<"d1", "d2">>, occurrences |-> <<"o1", "o2">>],
              [docids |-> <<"d3", "d3">>, occurrences |-> <<"o3", "o4">>]>>

\* The campaign's corpus, one where a document changed, one that lost a document.
MCCorpora == {[d \in {"d1", "d2", "d3"} |-> IF d = "d3" THEN "y" ELSE "x"],
              [d \in {"d1", "d2", "d3"} |-> IF d = "d1" THEN "z" ELSE "y"],
              [d \in {"d1", "d2"} |-> "x"]}
MCRelevant == {"d1"}
MCPublished == {{}, {"o1"}, {"o3"}, {"o3", "o4"}}

\* Each lane has a task, or the first has both.
MCOwners == {[t \in {"t1", "t2"} |-> IF t = "t1" THEN 0 ELSE lane] : lane \in {0, Shards - 1}}
MCOrders == {seq \in [1 .. Shards -> LaneIds] : \A l \in LaneIds : \E i \in 1 .. Shards : seq[i] = l}

\* Lanes may rest once no evaluator will read them again, and while one judges what it has read.
\* While it reads, what may move them is bounded by MaxDisturbed.
StillRead(readings) == \/ grading.at \in {"ref", "item"} /\ scenario = "reading"
                       \/ grading.at = "off" /\ spent["grade"] < readings

CampaignDesigns == Designs(2, Len(MCTasks), 0)

Init ==
  /\ scenario \in {"reading", "gate", "replay", "design"}
  /\ LanesInit(CampaignDesigns)
  /\ owner \in MCOwners
  /\ order["t1"][1] = Baseline     \* the other assignment of the two rows is its mirror image
  /\ scenario = "gate" => owner["t2"] = 0
  /\ scenario \in {"replay", "design"} => owner["t2"] = Shards - 1
  /\ ReplayInit

\* One evaluator, over every ledger, while the lanes run, crash and stop.
ReadingStep ==
  /\ scenario = "reading"
  /\ \/ StillRead(1) /\ LaneStep
     \/ GradingStep(MCOrders)
  /\ spent'["grade"] <= 1
  /\ UNCHANGED <<replayVars, scenario>>

\* The evaluator of the one lane that has cells, as often as it may be run, and the steward.  The
\* gate reads the baseline's cells: those of the treatment all end empty.
GatedStep ==
  /\ scenario = "gate"
  /\ \/ StillRead(MaxGrades) /\ LaneStep
     \/ GradingStep({<<0>>})
     \/ GateStep
  /\ spent'["break"] = 0
  /\ \A l \in LaneIds \ {0} : running'[l] = running[l]
  /\ \A t \in TaskSet, a \in Treatments :
       lanes'[0].cells[Cell(t, a)].body \in {NoBody, MCEmpty}
  /\ UNCHANGED <<replayVars, scenario>>

ReplayCommand ==
  /\ scenario = "replay"
  /\ ReplayStep(MCRelevant, MCPublished)
  /\ UNCHANGED <<lanesVars, scenario>>

FreezeDesign ==
  /\ scenario = "design"
  /\ \E n \in 2 .. MaxArms, tasks \in 1 .. MaxTasks :
       \E seconds \in 0 .. tasks : design' \in Designs(n, tasks, seconds)
  /\ scenario' = "frozen"
  /\ UNCHANGED <<order, owner, laneVars, evaluatorVars, gateVars, spent, replayVars>>

Next == ReadingStep \/ GatedStep \/ ReplayCommand \/ FreezeDesign

Spec == Init /\ [][Next]_<<lanesVars, replayVars, scenario>>
=============================================================================
