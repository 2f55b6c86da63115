----------------------------- MODULE CellRunner -----------------------------
(***************************************************************************)
(* The campaign runner of src/shapeflow/campaign/runner.py: one lane's     *)
(* cells executed in schedule order over the work-item ledger, each frozen *)
(* with the engine boot that served it, and the blocks sealed under a root.*)
(* A step is one ledger transaction, one file operation or one call to the *)
(* engine; several processes may run at once (a resumption beside the run  *)
(* it replaces), die, and be started again; the engine may be restarted    *)
(* under a running cell.                                                   *)
(*                                                                         *)
(* Nothing here reclaims or heartbeats a lease: runner.py does neither, so *)
(* the leases of WorkLedger stay as claim wrote them.                      *)
(***************************************************************************)
EXTENDS WorkLedger

CONSTANTS Runners,      \* bound: processes of the lane
          Plan,         \* the lane's cells in schedule order
          BlockSeq,     \* the lane's blocks in schedule order
          cellsOf,      \* cellsOf[b]: the cells of block b
          Root,         \* FREEZE_ROOT.json
          NoFile, Torn, \* a file that is not there; one cut short
          CrashPoints,  \* the steps a process may die before
          MaxCrashes,   \* bound: deaths and early stops
          MaxBoots,     \* bound: engine boots
          MaxLost       \* bound: blobs lost to the disk

ASSUME RunnerAssumption ==
  /\ Plan \in Seq(Items)
  /\ Refs = Items \X {"output", "failure", "tombstone"}
  /\ cellsOf \in [DOMAIN cellsOf -> SUBSET Items] /\ BlockSeq \in Seq(DOMAIN cellsOf)
  /\ Root \notin {BlockSeq[i] : i \in 1..Len(BlockSeq)}
  /\ MaxCrashes \in Nat /\ MaxBoots \in Nat \ {0} /\ MaxLost \in Nat

VARIABLES runner,   \* runner[r]: the control state of a process
          boot,     \* the engine boot now serving
          epoch,    \* epoch[k]: the row of cell_epochs
          served,   \* served[k]: history: the boots that served k's calls
          blobs,    \* the blobs that verify
          file,     \* file[f]: the freeze directory
          crashes, lost

runnerVars == <<runner, boot, epoch, served, blobs, file, crashes, lost>>
vars == <<ledgerVars, runnerVars>>

Blocks == {BlockSeq[i] : i \in 1..Len(BlockSeq)}
Files  == Blocks \cup {Root}
NoEpoch == 0
Spans   == -1    \* "SPANS:a:b", and an end epoch that cannot be read

Outcome == [state : ItemState, ref : Refs \cup {NoRef}]
NoStates == [k \in Items |-> [state |-> "ABSENT", ref |-> NoRef]]

PC == {"down", "next", "claim", "run", "epoch", "store", "materialize", "judge",
       "commit", "fail", "states", "outputs", "freeze", "write"}
\* i: position in Plan, in the readings, then in the files; start: the boot read before
\* the claim; result: what run_cell came to; seen: cell_states and outputs
Runner == [pc : PC, i : Nat, n : Nat, start : 0..MaxBoots,
           result : {"none", "ok", "error", "raised"}, seen : [Items -> Outcome]]
Idle(pc) == [pc |-> pc, i |-> 1, n |-> 0, start |-> 0, result |-> "none", seen |-> NoStates]

TypeOK ==
  /\ LedgerTypeOK
  /\ runner \in [Runners -> Runner]
  /\ boot \in 1..MaxBoots
  /\ epoch \in [Items -> {Spans} \cup 0..MaxBoots]
  /\ served \in [Items -> SUBSET (1..MaxBoots)]
  /\ blobs \subseteq Refs
  /\ DOMAIN file = Files
  /\ crashes \in 0..MaxCrashes /\ lost \in 0..MaxLost

Init ==
  /\ LedgerInit
  /\ runner = [r \in Runners |-> Idle("down")]
  /\ boot = 1
  /\ epoch = [k \in Items |-> NoEpoch]
  /\ served = [k \in Items |-> {}]
  /\ blobs = {}
  /\ file = [f \in Files |-> NoFile]
  /\ crashes = 0 /\ lost = 0

-----------------------------------------------------------------------------
At(r, pc)   == runner[r].pc = pc
Goto(r, pc) == runner' = [runner EXCEPT ![r].pc = pc]
Cell(r)     == Plan[runner[r].i]
NextCell(r) == runner' = [runner EXCEPT ![r] = [Idle("next") EXCEPT !.i = runner[r].i + 1]]
GiveUp(r)   == runner' = [runner EXCEPT ![r] = Idle("down")]

env == <<boot, crashes, lost>>

(* run_cells: cell_states ensures every work item (idempotent inserts)     *)
StartRun(r) ==
  /\ At(r, "down")
  /\ item' = [k \in Items |-> IF item[k].state = "ABSENT"
                              THEN [item[k] EXCEPT !.state = "PENDING"] ELSE item[k]]
  /\ runner' = [runner EXCEPT ![r] = Idle("next")]
  /\ UNCHANGED <<attempts, epoch, served, blobs, file, env>>

\* A cell that is not PENDING is passed over, whatever the states read at
\* the start said of it; the engine's boot is read before the claim.
NextOrSkip(r) ==
  /\ At(r, "next") /\ runner[r].i <= Len(Plan)
  /\ \/ /\ item[Cell(r)].state = "PENDING"
        /\ runner' = [runner EXCEPT ![r].pc = "claim", ![r].start = boot]
     \/ /\ item[Cell(r)].state # "PENDING"
        /\ NextCell(r)
  /\ UNCHANGED <<ledgerVars, epoch, served, blobs, file, env>>

PlanDone(r) ==
  /\ At(r, "next") /\ runner[r].i > Len(Plan)
  /\ runner' = [runner EXCEPT ![r] = Idle("states")]
  /\ UNCHANGED <<ledgerVars, epoch, served, blobs, file, env>>

\* the stop sentinel, or max_cells: the freeze follows all the same
StopRun(r) ==
  /\ At(r, "next") /\ runner[r].i <= Len(Plan) /\ crashes < MaxCrashes
  /\ crashes' = crashes + 1
  /\ runner' = [runner EXCEPT ![r] = Idle("states")]
  /\ UNCHANGED <<ledgerVars, epoch, served, blobs, file, boot, lost>>

ClaimCell(r) ==
  /\ At(r, "claim")
  /\ \/ /\ Claim(Cell(r))
        /\ runner' = [runner EXCEPT ![r].pc = "run", ![r].n = Len(attempts[Cell(r)]) + 1]
     \/ /\ item[Cell(r)].state # "PENDING"    \* CLAIMED_ELSEWHERE
        /\ NextCell(r) /\ UNCHANGED ledgerVars
  /\ UNCHANGED <<epoch, served, blobs, file, env>>

\* one model call of the cell's graph
ServeCall(r) ==
  /\ At(r, "run")
  /\ served' = [served EXCEPT ![Cell(r)] = @ \cup {boot}]
  /\ UNCHANGED <<ledgerVars, runner, epoch, blobs, file, env>>

\* run_cell returns, with or without an error, or raises (register_cell too)
GraphEnds(r) ==
  /\ At(r, "run")
  /\ \E result \in {"ok", "error", "raised"} :
       runner' = [runner EXCEPT ![r].pc = "epoch", ![r].result = result]
  /\ UNCHANGED <<ledgerVars, epoch, served, blobs, file, env>>

\* Mutant: the boot is read at the end only
IntervalEndOnly(start, end) == IF end = Spans THEN Spans ELSE end

\* _execution_epoch: the boot before and after, as one value
Interval(start, end) == IF end = start THEN start ELSE Spans

RecordEpoch(r) ==
  /\ At(r, "epoch")
  /\ \E end \in {boot, Spans} :
       LET e == Interval(runner[r].start, end) IN
       \/ /\ epoch[Cell(r)] \in {NoEpoch, e}
          /\ epoch' = [epoch EXCEPT ![Cell(r)] = e]
          \* epoch_stable is judged with the telemetry below
          /\ runner' = [runner EXCEPT ![r].pc = "store",
               ![r].result = IF e = Spans /\ @ = "ok" THEN "error" ELSE @]
       \/ /\ epoch[Cell(r)] \notin {NoEpoch, e}   \* LedgerError
          /\ GiveUp(r) /\ UNCHANGED epoch
  /\ UNCHANGED <<ledgerVars, served, blobs, file, env>>

Ref(r) == <<Cell(r), IF runner[r].result = "raised" THEN "failure" ELSE "output">>

\* put_bytes and register_artifact; a cell whose telemetry does not add up
\* becomes a failure here, as one whose engine was restarted has above
StoreOutput(r) ==
  /\ At(r, "store")
  /\ blobs' = blobs \cup {Ref(r)}
  /\ \/ runner[r].result = "raised" /\ Goto(r, "fail")
     \/ runner[r].result # "raised" /\ Goto(r, "materialize")
     \/ /\ runner[r].result = "ok"
        /\ runner' = [runner EXCEPT ![r].pc = "materialize", ![r].result = "error"]
  /\ UNCHANGED <<ledgerVars, epoch, served, file, env>>

\* Mutant: the outcome is looked at before the fail, and the error forgotten
MaterializeAndLeave(r) ==
  /\ At(r, "materialize")
  /\ Advance(Cell(r), runner[r].n, "MATERIALIZED")
  /\ IF runner[r].result = "ok" THEN Goto(r, "judge") ELSE NextCell(r)
  /\ UNCHANGED <<epoch, served, blobs, file, env>>

Materialize(r) ==
  /\ At(r, "materialize")
  /\ Advance(Cell(r), runner[r].n, "MATERIALIZED")
  /\ Goto(r, IF runner[r].result = "ok" THEN "judge" ELSE "fail")
  /\ UNCHANGED <<epoch, served, blobs, file, env>>

ValidateCell(r) ==
  /\ At(r, "judge")
  /\ Advance(Cell(r), runner[r].n, "VALIDATED")
  /\ Goto(r, "commit")
  /\ UNCHANGED <<epoch, served, blobs, file, env>>

CommitCell(r) ==
  /\ At(r, "commit")
  /\ Commit(Cell(r), runner[r].n, Ref(r))
  /\ NextCell(r)
  /\ UNCHANGED <<epoch, served, blobs, file, env>>

FailCell(r) ==
  /\ At(r, "fail")
  /\ Fail(Cell(r), runner[r].n,
          IF runner[r].result = "raised" THEN "FAILED_UNKNOWN" ELSE "FAILED_FINAL", Ref(r))
  /\ NextCell(r)
  /\ UNCHANGED <<epoch, served, blobs, file, env>>

-----------------------------------------------------------------------------
(* freeze_blocks                                                           *)

\* terminal_ref: the result of the newest attempt of a terminal item
TerminalRef(k) == IF attempts[k] = << >> THEN NoRef ELSE attempts[k][Len(attempts[k])].ref

\* cell_states: a COMMITTED item whose blob does not verify reads PENDING
StateOf(k) ==
  IF item[k].state = "COMMITTED" /\ CommittedRef(k) \notin blobs THEN "PENDING" ELSE item[k].state

\* _terminal_output_ref: a tombstone stands in for a result that is gone
OutputOf(k) == IF TerminalRef(k) \in blobs THEN TerminalRef(k) ELSE <<k, "tombstone">>

ReadNext(r, seen) == runner' = [runner EXCEPT ![r].seen = seen, ![r].i = @ + 1]
ReadDone(r, pc)   == runner' = [runner EXCEPT ![r].pc = pc, ![r].i = 1]

\* each cell's state is read in a transaction of its own, then the output of each that was terminal
ReadState(r) ==
  /\ At(r, "states")
  /\ \/ /\ runner[r].i <= Len(Plan)
        /\ ReadNext(r, [runner[r].seen EXCEPT ![Cell(r)].state = StateOf(Cell(r))])
     \/ runner[r].i > Len(Plan) /\ ReadDone(r, "outputs")
  /\ UNCHANGED <<ledgerVars, epoch, served, blobs, file, env>>

ReadOutput(r) ==
  /\ At(r, "outputs")
  /\ \/ /\ runner[r].i <= Len(Plan) /\ runner[r].seen[Cell(r)].state \in Terminal
        /\ ReadNext(r, [runner[r].seen EXCEPT ![Cell(r)].ref = OutputOf(Cell(r))])
        /\ blobs' = blobs \cup {OutputOf(Cell(r))}
     \/ /\ runner[r].i <= Len(Plan) /\ runner[r].seen[Cell(r)].state \notin Terminal
        /\ ReadNext(r, runner[r].seen) /\ UNCHANGED blobs
     \/ runner[r].i > Len(Plan) /\ ReadDone(r, "freeze") /\ UNCHANGED blobs
  /\ UNCHANGED <<ledgerVars, epoch, served, file, env>>

\* Mutant: a block is terminal when its cells are no longer pending
BlockTerminalLoose(seen, b) == \A k \in cellsOf[b] : seen[k].state # "PENDING"

\* Mutant: a failed cell is not counted as done
BlockTerminalCommitted(seen, b) == \A k \in cellsOf[b] : seen[k].state = "COMMITTED"

BlockTerminal(seen, b) == \A k \in cellsOf[b] : seen[k].state \in Terminal

Record(seen, b) ==
  [k \in cellsOf[b] |-> [state |-> seen[k].state, ref |-> seen[k].ref, epoch |-> epoch[k]]]
Body(seen, f) ==
  IF f = Root THEN [b \in Blocks |-> Record(seen, b)] ELSE Record(seen, f)

\* the files in the order they are written
FileSeq == Append(BlockSeq, Root)
FileOf(r) == FileSeq[runner[r].i]

\* the root only when every owned block is terminal
Due(seen, f) ==
  IF f = Root THEN \A b \in Blocks : BlockTerminal(seen, b) ELSE BlockTerminal(seen, f)

NextFile(r) == runner' = [runner EXCEPT ![r].pc = "freeze", ![r].i = @ + 1]

(* _write_once_content_addressed_json: created without replacement, or     *)
(* compared with the one that is there; a difference raises.               *)
Freeze(r) ==
  /\ At(r, "freeze") /\ runner[r].i <= Len(FileSeq)
  /\ LET f == FileOf(r)  due == Due(runner[r].seen, f) IN
     \/ /\ due /\ file[f] = NoFile
        /\ file' = [file EXCEPT ![f] = Torn]
        /\ Goto(r, "write")
     \/ /\ due /\ file[f] = Body(runner[r].seen, f)
        /\ NextFile(r) /\ UNCHANGED file
     \/ /\ due /\ file[f] \notin {NoFile, Body(runner[r].seen, f)}
        /\ GiveUp(r) /\ UNCHANGED file
     \/ /\ ~due /\ (f = Root => file[f] = NoFile)
        /\ NextFile(r) /\ UNCHANGED file
     \/ /\ ~due /\ f = Root /\ file[f] # NoFile   \* the root claims too much
        /\ GiveUp(r) /\ UNCHANGED file
  /\ UNCHANGED <<ledgerVars, epoch, served, blobs, env>>

Write(r) ==
  /\ At(r, "write")
  /\ file' = [file EXCEPT ![FileOf(r)] = Body(runner[r].seen, FileOf(r))]
  /\ NextFile(r)
  /\ UNCHANGED <<ledgerVars, epoch, served, blobs, env>>

RunEnds(r) ==
  /\ At(r, "freeze") /\ runner[r].i > Len(FileSeq)
  /\ GiveUp(r)
  /\ UNCHANGED <<ledgerVars, epoch, served, blobs, file, env>>

-----------------------------------------------------------------------------
Crash(r) ==
  /\ runner[r].pc \in CrashPoints /\ crashes < MaxCrashes
  /\ crashes' = crashes + 1
  /\ GiveUp(r)
  /\ UNCHANGED <<ledgerVars, epoch, served, blobs, file, boot, lost>>

EngineRestart ==
  /\ boot < MaxBoots
  /\ boot' = boot + 1
  /\ UNCHANGED <<ledgerVars, runner, epoch, served, blobs, file, crashes, lost>>

LoseBlob ==
  /\ lost < MaxLost
  /\ \E ref \in blobs : blobs' = blobs \ {ref}
  /\ lost' = lost + 1
  /\ UNCHANGED <<ledgerVars, runner, epoch, served, file, boot, crashes>>

\* what a process does of itself: it is restarted when it is down, and the
\* graph ends (every model call has a timeout)
Step(r) ==
  \/ StartRun(r) \/ NextOrSkip(r) \/ PlanDone(r) \/ ClaimCell(r) \/ GraphEnds(r)
  \/ RecordEpoch(r) \/ StoreOutput(r) \/ Materialize(r) \/ ValidateCell(r)
  \/ CommitCell(r) \/ FailCell(r)
  \/ ReadState(r) \/ ReadOutput(r) \/ Freeze(r) \/ Write(r) \/ RunEnds(r)

Next ==
  \/ \E r \in Runners : Step(r) \/ ServeCall(r) \/ StopRun(r) \/ Crash(r)
  \/ EngineRestart \/ LoseBlob

Spec     == Init /\ [][Next]_vars
LiveSpec == Spec /\ \A r \in Runners : WF_vars(Step(r))

-----------------------------------------------------------------------------
Written(f) == file[f] \notin {NoFile, Torn}

\* valid_for_paired_estimate, as freeze_blocks computes it from the record
Paired(record) == \E e \in 1..MaxBoots : \A k \in DOMAIN record : record[k].epoch = e

(* The cells of a block frozen as valid for a paired estimate were served  *)
(* by one engine boot, every call of every one: a restart between or       *)
(* inside them never goes unnoticed (freeze_blocks, 834-860).              *)
PairedMeansOneEngine ==
  \A b \in Blocks :
    Written(b) /\ Paired(file[b]) =>
      Cardinality(UNION {served[k] : k \in cellsOf[b]}) <= 1

(* What is frozen of a cell is its terminal outcome and stays the ledger's *)
(* answer: nothing that runs beside the freeze or after it makes the       *)
(* record a lie (freeze_blocks, 798-867).                                  *)
FrozenIsTheOutcome ==
  \A b \in Blocks : Written(b) =>
    \A k \in cellsOf[b] :
      /\ file[b][k].state = item[k].state /\ item[k].state \in Terminal
      /\ file[b][k].epoch = epoch[k]
      /\ file[b][k].ref \in {TerminalRef(k), <<k, "tombstone">>}

(* A cell is executed at most once, over any restart and beside any other  *)
(* process: "resume must never re-run them until one happens to succeed"   *)
(* (515).                                                                  *)
ExecutedOnce == \A k \in Items : Len(attempts[k]) <= 1

\* a process died with k in hand, and no other has it
Orphaned(k) ==
  /\ crashes > 0 /\ item[k].state \in InProgress
  /\ \A r \in Runners : runner[r].pc \in {"down", "states", "outputs", "freeze", "write"}
                          \/ runner[r].i > Len(Plan) \/ Cell(r) # k

\* what no resumption of the runner repairs
Harmed ==
  \/ lost > 0 \/ \E k \in Items : Orphaned(k)
  \/ \E f \in Files : file[f] = Torn /\ \A r \in Runners : ~At(r, "write")

(* Every cell comes to a terminal outcome (the runner's first sentence:    *)
(* "cells to terminal states, resumably").                                 *)
EveryCellSettles == \A k \in Items : <>(item[k].state \in Terminal)

(* A run that is resumed until it gets through brings every cell to a      *)
(* terminal outcome, but for the one a process died in the middle of; its  *)
(* other cells are not held up by that one.                                *)
OnlyOrphansRemain == \A k \in Items : <>(item[k].state \in Terminal \/ Orphaned(k))

(* Deaths between cells, before a claim or between the files of a freeze   *)
(* only delay the seal: the resumption writes what is missing and agrees   *)
(* with what is there (freeze_blocks).                                     *)
SealedUnlessHarmed == <>(Written(Root) \/ Harmed)
=============================================================================
