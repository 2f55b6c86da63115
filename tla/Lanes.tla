-------------------------------- MODULE Lanes --------------------------------
(***************************************************************************)
(* A benchmark campaign on several lanes and the evaluator that reads them *)
(* (campaign/bcplus.py, bench/bcplus/analysis.py and grader.py, the        *)
(* commands grade-bcplus and bcplus-competence).  Every lane is a process  *)
(* with a ledger and an object store of its own, and runs the tasks the    *)
(* digest of the binding gives it.  The evaluator reads the ledgers lane   *)
(* by lane, merges what it saw, has the reports judged and writes the      *)
(* analysis.  The steward's gate reads that file and puts the retrieval    *)
(* freeze in force.                                                        *)
(*                                                                         *)
(* How a cell is claimed, leased and committed is CellRunner; here a cell  *)
(* is claimed, then ends or is left behind by a crash.                     *)
(***************************************************************************)
EXTENDS Design

CONSTANTS Tasks,        \* the layer's tasks, in the order of the schedule: a sequence
          Labelled,     \* the tasks the evaluator's record names an evidence document of
          Shards,       \* lanes 0 .. Shards - 1
          Bodies,       \* what a cell's output can be, as far as the analysis tells it apart
          NoBody,       \* no artifact
          JudgeRetries, \* retries of one judgment
          Floor,        \* [accuracy |-> [n, d], recall |-> [n, d]] of the registered gate
          Nothing,      \* no file, no report
          MaxBreaks,    \* bound: lanes that die in a cell or are told to stop
          MaxCrashes,   \* bound: stewards that die while they put the freeze in force
          MaxGrades,    \* bound: runs of the evaluator
          MaxDisturbed, \* bound: changes of a ledger while the evaluator reads
          MaxGates      \* bound: runs of the gate

ASSUME LanesAssumption ==
  /\ Tasks \in Seq(Range(Tasks)) /\ Tasks # << >>
  /\ \A i, j \in DOMAIN Tasks : Tasks[i] = Tasks[j] => i = j
  /\ Shards \in Nat \ {0}
  /\ NoBody \notin Bodies

VARIABLES
  design,     \* the frozen design of the arm orders
  order,      \* [task |-> its row of the design]
  owner,      \* [task |-> the lane the digest gives it]
  lanes,      \* [lane |-> [frozen, cells]]: its schedule file and its work items
  running,    \* [lane |-> what its process is at]
  status,     \* [lane |-> its STATUS file]
  grading,    \* the evaluator process
  report,     \* the analysis file
  gate,       \* the competence gate file
  freeze,     \* the retrieval freeze file
  decider,    \* the steward's process that decides on the report
  spent       \* [bound |-> how much of it is used]

campaign == <<design, order, owner>>
laneVars == <<lanes, running, status>>
evaluatorVars == <<grading, report>>
gateVars == <<gate, freeze, decider>>
lanesVars == <<campaign, laneVars, evaluatorVars, gateVars, spent>>

LaneIds == 0 .. (Shards - 1)
TaskSet == Range(Tasks)
Baseline == 0
Arms == 0 .. (design.arms - 1)
Treatments == Arms \ {Baseline}
Cell(t, a) == [task |-> t, arm |-> a]
Cells == {Cell(t, a) : t \in TaskSet, a \in Arms}

\* The frozen order of a lane's cells: block after block, each in its row's order.
CellAt(i) == Cell(Tasks[((i - 1) \div design.arms) + 1],
                  order[Tasks[((i - 1) \div design.arms) + 1]][((i - 1) % design.arms) + 1])
Positions == 1 .. (Len(Tasks) * design.arms)

Item(st, body) == [st |-> st, body |-> body]
Terminal == {"COMMITTED", "FAILED_FINAL"}
Idle == [at |-> "off", cell |-> Nothing]

Spend(bound, most) == spent[bound] < most /\ spent' = [spent EXCEPT ![bound] = @ + 1]

LanesInit(designs) ==
  /\ design \in designs
  /\ order \in {o \in [TaskSet -> Range(WilliamsSquare(design.arms))] :
                  \A i \in DOMAIN design.pool :
                    Cardinality({t \in TaskSet : o[t] = WilliamsSquare(design.arms)[i]}) =
                      design.pool[i]}
  /\ owner \in [TaskSet -> LaneIds]
  /\ lanes = [l \in LaneIds |-> [frozen |-> FALSE, cells |-> [c \in Cells |-> Item("MISSING", NoBody)]]]
  /\ running = [l \in LaneIds |-> Idle]
  /\ status = [l \in LaneIds |-> Nothing]
  /\ grading = [at |-> "off"]
  /\ report = Nothing
  /\ gate = Nothing
  /\ freeze = [at |-> "provisional"]
  /\ decider = [at |-> "off"]
  /\ spent = [bound \in {"break", "crash", "grade", "gate"} |-> 0]
-----------------------------------------------------------------------------
(* A lane: run-bcplus.                                                     *)

\* Mutant: the cells of a task are dealt out one by one.
OwnsByCell(l, c) == (owner[c.task] + c.arm) % Shards = l

Owns(l, c) == owner[c.task] = l

\* The evaluator is between its first and its last read of a ledger: what a lane does now it may
\* see in part.
Disturb ==
  IF grading.at \in {"ref", "item"}
    THEN grading.moves < MaxDisturbed /\ grading' = [grading EXCEPT !.moves = @ + 1]
    ELSE grading' = grading

\* The schedule is frozen, every cell of it gets its work item and the lane begins.
StartLane(l) ==
  /\ running[l].at = "off"
  /\ \E c \in Cells : Owns(l, c) /\ lanes[l].cells[c].st \in {"MISSING", "PENDING"}
  /\ lanes' = [lanes EXCEPT ![l] = [frozen |-> TRUE,
       cells |-> [c \in Cells |-> IF @.cells[c].st = "MISSING" THEN Item("PENDING", NoBody)
                                  ELSE @.cells[c]]]]
  /\ running' = [running EXCEPT ![l] = [at |-> "between", cell |-> Nothing]]
  /\ Disturb
  /\ UNCHANGED <<campaign, status, report, gateVars, spent>>

\* Cells the lane owns that nobody claimed, in the frozen order.
Unclaimed(l) == {i \in Positions : Owns(l, CellAt(i)) /\ lanes[l].cells[CellAt(i)].st = "PENDING"}

ClaimCell(l) ==
  /\ running[l].at = "between"
  /\ \E i \in Unclaimed(l) :
       /\ \A j \in Unclaimed(l) : i <= j
       /\ lanes' = [lanes EXCEPT ![l].cells[CellAt(i)] = Item("CLAIMED", NoBody)]
       /\ running' = [running EXCEPT ![l] = [at |-> "cell", cell |-> CellAt(i)]]
  /\ Disturb
  /\ UNCHANGED <<campaign, status, report, gateVars, spent>>

\* The artifact is stored and the attempt ends with a reference to it, for a failure too.
EndCell(l, st, body) ==
  /\ running[l].at = "cell"
  /\ lanes' = [lanes EXCEPT ![l].cells[running[l].cell] = Item(st, body)]
  /\ running' = [running EXCEPT ![l] = [at |-> "between", cell |-> Nothing]]
  /\ Disturb
  /\ UNCHANGED <<campaign, status, report, gateVars, spent>>

CrashLane(l) ==
  /\ running[l].at = "cell"
  /\ Spend("break", MaxBreaks)
  /\ running' = [running EXCEPT ![l] = Idle]
  /\ UNCHANGED <<campaign, lanes, status, evaluatorVars, gateVars>>

CommittedIn(l) == {c \in Cells : lanes[l].cells[c].st = "COMMITTED"}

\* At most a fifth of the committed cells may have searched nothing.
WorldSearched(l) ==
  /\ CommittedIn(l) # {}
  /\ 5 * Cardinality({c \in CommittedIn(l) : ~lanes[l].cells[c].body.searched})
       <= Cardinality(CommittedIn(l))

\* An arm that committed cells and published nothing is not the arm it is called.
TreatmentLive(l) ==
  \A a \in Treatments :
    LET of == {c \in CommittedIn(l) : c.arm = a}
    IN  of = {} \/ \E c \in of : lanes[l].cells[c].body.published

\* The status of the whole manifest: a cell another lane owns is PENDING in this ledger.
StatusOf(l) ==
  [committed |-> Cardinality(CommittedIn(l)),
   searched |-> WorldSearched(l), live |-> TreatmentLive(l),
   ok |-> CommittedIn(l) = Cells /\ WorldSearched(l) /\ TreatmentLive(l)]

\* The lane ran out of cells, or was told to stop between two of them.
LeaveLane(l) ==
  /\ running[l].at = "between"
  /\ IF Unclaimed(l) = {} THEN UNCHANGED spent ELSE Spend("break", MaxBreaks)
  /\ status' = [status EXCEPT ![l] = StatusOf(l)]
  /\ running' = [running EXCEPT ![l] = Idle]
  /\ UNCHANGED <<campaign, lanes, evaluatorVars, gateVars>>
-----------------------------------------------------------------------------
(* The evaluator: grade-bcplus.  The reference of a cell and its state are *)
(* two reads of the ledger, and a lane may move between them.              *)

Read(at, seq, i, k) ==
  [at |-> at, lanes |-> seq, i |-> i, k |-> k, ref |-> NoBody, records |-> {}, moves |-> 0,
   skip |-> FALSE]

StartGrading(seq, skip) ==
  /\ grading.at = "off"
  /\ Spend("grade", MaxGrades)
  /\ grading' = [Read("ref", seq, 1, 1) EXCEPT !.skip = skip]
  /\ UNCHANGED <<campaign, laneVars, report, gateVars>>

Reading == lanes[grading.lanes[grading.i]]
ReadCell == CellAt(grading.k)

\* A lane without a frozen schedule ends the command.
NoSchedule ==
  /\ grading.at = "ref"
  /\ grading.k = 1
  /\ ~Reading.frozen
  /\ grading' = [at |-> "off"]
  /\ UNCHANGED <<campaign, laneVars, report, gateVars, spent>>

ArtifactOf(item) == IF item.st \in Terminal THEN item.body ELSE NoBody

ReadRef ==
  /\ grading.at = "ref"
  /\ Reading.frozen
  /\ grading' = [grading EXCEPT !.at = "item", !.ref = ArtifactOf(Reading.cells[ReadCell])]
  /\ UNCHANGED <<campaign, laneVars, report, gateVars, spent>>

\* A cell is one record, also when the lane never ran it.
RecordOf(c, l, st, body) ==
  [cell |-> c, lane |-> l, st |-> st, body |-> body, correct |-> "unknown", said |-> "nothing"]

Seen(records) == {r.cell : r \in records}

\* Mutant: the empty view of a lane that did not run the cell takes the place of the other's.
MergeLastView(records, r) == {s \in records : s.cell # r.cell} \cup {r}

\* Another lane's empty view of a cell is dropped; a view with an artifact takes the earlier place.
Merge(records, r) ==
  IF r.cell \in Seen(records) /\ r.body = NoBody THEN records
  ELSE {s \in records : s.cell # r.cell} \cup {r}

ReadItem ==
  /\ grading.at = "item"
  /\ LET record == RecordOf(ReadCell, grading.lanes[grading.i],
                            Reading.cells[ReadCell].st, grading.ref)
         merged == [grading EXCEPT !.records = Merge(@, record), !.ref = NoBody]
     IN  grading' =
           IF grading.k < Len(Tasks) * design.arms
             THEN [merged EXCEPT !.at = "ref", !.k = @ + 1]
           ELSE IF grading.i < Len(grading.lanes)
             THEN [merged EXCEPT !.at = "ref", !.k = 1, !.i = @ + 1]
           ELSE [at |-> "judge", records |-> merged.records, moves |-> merged.moves,
                 skip |-> merged.skip, todo |-> {r.cell : r \in {s \in merged.records :
                                                   ~merged.skip /\ s.st = "COMMITTED"}},
                 attempt |-> 0]
  /\ UNCHANGED <<campaign, laneVars, report, gateVars, spent>>

Answer(r) == IF r.body = NoBody THEN "empty" ELSE r.body.answer

\* An empty answer is a miss without a judge call; what no judge said is unavailable.
GradeOf(r, said) ==
  CASE Answer(r) = "empty" -> "INCORRECT"
    [] Answer(r) # "empty" /\ said = "yes" -> "CORRECT"
    [] Answer(r) # "empty" /\ said = "no" -> "INCORRECT"
    [] OTHER -> "UNAVAILABLE"

\* Asking an unavailable grade whether it is correct raises, and the record stays without a verdict.
IsCorrect(outcome) ==
  CASE outcome = "CORRECT" -> "right" [] outcome = "INCORRECT" -> "wrong" [] OTHER -> "unknown"

\* The first record in the frozen order that still is to be judged.
IsNext(r) ==
  /\ r.cell \in grading.todo
  /\ \E i \in Positions : /\ CellAt(i) = r.cell
                          /\ \A j \in 1 .. (i - 1) : CellAt(j) \notin grading.todo

Attach(r, said) ==
  grading' = [grading EXCEPT
    !.records = (@ \ {r}) \cup {[r EXCEPT !.correct = IsCorrect(GradeOf(r, said)), !.said = said]},
    !.todo = @ \ {r.cell}, !.attempt = 0]

\* One attempt of a judgment: an answer in the contract, a refusal that is final, or something to
\* try again until the retries are used up.
Judgment(answer) ==
  /\ grading.at = "judge"
  /\ \E r \in grading.records :
       /\ IsNext(r)
       /\ IF Answer(r) = "empty" THEN answer = "fatal" /\ Attach(r, "nothing")
          ELSE IF answer \in {"yes", "no"} THEN Attach(r, answer)
          ELSE IF answer = "fatal" \/ grading.attempt = JudgeRetries THEN Attach(r, "nothing")
          ELSE grading' = [grading EXCEPT !.attempt = @ + 1]
  /\ UNCHANGED <<campaign, laneVars, report, gateVars, spent>>

\* The analysis is written before the share of missing judgments ends the command with an error.
WriteReport ==
  /\ grading.at = "judge"
  /\ grading.todo = {}
  /\ report' = [records |-> grading.records, skipped |-> grading.skip]
  /\ grading' = [at |-> "off"]
  /\ UNCHANGED <<campaign, laneVars, gateVars, spent>>

OfArm(rep, a) == {r \in rep.records : r.cell.arm = a}
Committed(records) == {r \in records : r.st = "COMMITTED"}
Graded(rep, a) == {r \in Committed(OfArm(rep, a)) : r.correct # "unknown"}
Right(rep, a) == {r \in Graded(rep, a) : r.correct = "right"}

\* A task without a labelled document has no recall, and is not in its mean.
Recalled(rep, a) == {r \in Committed(OfArm(rep, a)) : r.cell.task \in Labelled}
Found(rep, a) == {r \in Recalled(rep, a) : r.body # NoBody /\ r.body.found}

\* The pairs of a contrast: the tasks both arms committed.
Pairs(rep, a) ==
  {p \in Committed(OfArm(rep, Baseline)) \X Committed(OfArm(rep, a)) :
     p[1].cell.task = p[2].cell.task}
-----------------------------------------------------------------------------
(* The steward: bcplus-competence.                                         *)

\* Mutant: a share of nothing clears a floor.
CriterionOfNothing(part, whole, floor) ==
  IF part * floor.d >= floor.n * whole THEN "PASS" ELSE "FAIL"

Criterion(part, whole, floor) ==
  IF whole = 0 THEN "INPUTS_UNAVAILABLE"
  ELSE IF part * floor.d >= floor.n * whole THEN "PASS" ELSE "FAIL"

Verdict(rep) ==
  LET criteria == {Criterion(Cardinality(Right(rep, Baseline)), Cardinality(Graded(rep, Baseline)),
                             Floor.accuracy),
                   Criterion(Cardinality(Found(rep, Baseline)), Cardinality(Recalled(rep, Baseline)),
                             Floor.recall)}
  IN  IF "FAIL" \in criteria THEN "FAIL"
      ELSE IF criteria = {"PASS"} THEN "PASS" ELSE "INPUTS_UNAVAILABLE"

\* The gate file is written over whatever an earlier run decided.
DecideGate ==
  /\ decider.at = "off"
  /\ report # Nothing
  /\ Spend("gate", MaxGates)
  /\ gate' = [verdict |-> Verdict(report), source |-> report]
  /\ decider' = IF Verdict(report) = "PASS" /\ freeze.at = "provisional"
                  THEN [at |-> "rename", source |-> report] ELSE decider
  /\ UNCHANGED <<campaign, laneVars, evaluatorVars, freeze>>

\* The provisional freeze is moved aside, then the effective one is created.
RenameFreeze ==
  /\ decider.at = "rename"
  /\ freeze' = [at |-> "absent"]
  /\ decider' = [decider EXCEPT !.at = "write"]
  /\ UNCHANGED <<campaign, laneVars, evaluatorVars, gate, spent>>

WriteFreeze ==
  /\ decider.at = "write"
  /\ freeze' = [at |-> "effective", after |-> decider.source]
  /\ decider' = [at |-> "off"]
  /\ UNCHANGED <<campaign, laneVars, evaluatorVars, gate, spent>>

CrashSteward ==
  /\ decider.at # "off"
  /\ Spend("crash", MaxCrashes)
  /\ decider' = [at |-> "off"]
  /\ UNCHANGED <<campaign, laneVars, evaluatorVars, gate, freeze>>
-----------------------------------------------------------------------------
LaneStep ==
  \E l \in LaneIds :
    \/ StartLane(l)
    \/ ClaimCell(l)
    \/ \E body \in Bodies : EndCell(l, "COMMITTED", body)
    \/ \E body \in Bodies : body.answer = "empty" /\ EndCell(l, "FAILED_FINAL", body)
    \/ CrashLane(l)
    \/ LeaveLane(l)

GradingStep(orders) ==
  \/ \E seq \in orders, skip \in BOOLEAN : StartGrading(seq, skip)
  \/ NoSchedule
  \/ ReadRef
  \/ ReadItem
  \/ \E answer \in {"yes", "no", "again", "fatal"} : Judgment(answer)
  \/ WriteReport

GateStep == DecideGate \/ RenameFreeze \/ WriteFreeze \/ CrashSteward

\* Any number of arms, and an evaluator that is given ledgers in any order, some of them or twice.
LaneOrders == {seq \in Seq(LaneIds) : seq # << >>}

LanesSpec ==
  /\ \E n \in Nat \ {0} : LanesInit(Designs(n, Len(Tasks), 0))
  /\ [][LaneStep \/ GradingStep(LaneOrders) \/ GateStep]_lanesVars
-----------------------------------------------------------------------------
LanesTypeOK ==
  /\ owner \in [TaskSet -> LaneIds]
  /\ \A l \in LaneIds :
       /\ lanes[l].frozen \in BOOLEAN
       /\ \A c \in Cells : /\ lanes[l].cells[c].st \in {"MISSING", "PENDING", "CLAIMED"} \cup Terminal
                          /\ lanes[l].cells[c].body \in Bodies \cup {NoBody}
       /\ running[l].at \in {"off", "between", "cell"}
  /\ grading.at \in {"off", "ref", "item", "judge"}
  /\ freeze.at \in {"provisional", "absent", "effective"}

\* The evaluator that read every ledger while no lane moved holds each scheduled cell exactly once:
\* committed if and only if some lane committed it, with that lane's artifact.  Cells nobody ran are
\* records too, and the empty view a second lane has of a cell never hides the first's.
EveryCellReported ==
  grading.at = "judge" /\ grading.moves = 0 =>
    \A c \in Cells :
      /\ Cardinality({r \in grading.records : r.cell = c}) = 1
      /\ \A r \in grading.records : r.cell = c =>
           LET by == {l \in LaneIds : lanes[l].cells[c].st \in Terminal}
           IN  IF by = {} THEN r.body = NoBody /\ r.st # "COMMITTED"
               ELSE \E l \in by : r.lane = l /\ Item(r.st, r.body) = lanes[l].cells[c]

\* A contrast compares two arms of a task only as one lane ran both: neither the sharding nor the
\* merge of the ledgers, at whatever moment they are read, pairs one card's cell with another's.
PairsStayOnOneLane ==
  report # Nothing => \A a \in Treatments : \A p \in Pairs(report, a) : p[1].lane = p[2].lane

\* A retrieval freeze is in force only after a report in which the cells of the baseline that were
\* judged, and those that have a recall, are some and clear each its floor: not after a report of
\* nothing, and not after an earlier or later one that passed, however often the ledgers are graded
\* and the report is gated again while the freeze is moved and written (bcplus-competence).
FreezeNeedsAPass ==
  freeze.at = "effective" =>
    LET p0 == {r \in freeze.after.records : r.cell.arm = Baseline /\ r.st = "COMMITTED"}
        judged == {r \in p0 : r.said \in {"yes", "no"} \/ r.correct = "wrong"}
        labelled == {r \in p0 : r.cell.task \in Labelled}
    IN  /\ judged # {} /\ labelled # {}
        /\ Cardinality({r \in judged : r.said = "yes"}) * Floor.accuracy.d
             >= Floor.accuracy.n * Cardinality(judged)
        /\ Cardinality({r \in labelled : r.body \in Bodies /\ r.body.found}) * Floor.recall.d
             >= Floor.recall.n * Cardinality(labelled)

\* grade-bcplus ends with an error when more than a twentieth of the committed cells have no
\* judgment: "Accuracy computed over the subset a judge happened to answer is not the accuracy that
\* was pre-registered" (cli.py).  The report is on disk by then, and the gate reads no more of it
\* than the accuracy of the judged: a freeze can be in force on such an accuracy.
FreezeOnTheRegisteredAccuracy ==
  freeze.at = "effective" =>
    LET committed == Committed(freeze.after.records)
    IN  20 * Cardinality({r \in committed : r.correct = "unknown"}) <= Cardinality(committed)

\* Where the constructor claims it -- whole designs, an even number of arms, or the window of an odd
\* remainder -- every position sees every arm, and every arm follows every other, equally often up
\* to one; and the pool has a row for every block and, without its pairs, one for every other task.
ScheduleIsBalanced ==
  LET square == WilliamsSquare(design.arms)
      blocks == design.tasks + design.seconds
  IN  /\ SumFunction(design.pool) = blocks
      /\ SumFunction(SingleRows(square, design.pool, design.given)) = design.tasks - design.seconds
      /\ design.safe \/ design.arms % 2 = 0 \/ Remainder(square, blocks) = 0 => Balanced(design)
=============================================================================
