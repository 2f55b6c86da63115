------------------------------ MODULE Campaign ------------------------------
(***************************************************************************)
(* The commands of the campaign under an approval that may move:           *)
(* src/shapeflow/cli.py. doctor and preflight check the tree first and     *)
(* record phases under the binding that verifies when they record;         *)
(* test-p0-parity leaves a receipt that preflight carries forward; the     *)
(* canary (campaign/canary.py) and run-bcplus (campaign/bcplus.py) pin the *)
(* binding they verified and work under it to the end. The steward freezes *)
(* approvals (ApprovalStore), the rows are PhaseStore's.                   *)
(***************************************************************************)
EXTENDS ApprovalStore

CONSTANTS Procs,            \* bound: commands at once
          MaxStarts         \* bound: commands in all

VARIABLES row, proc, opened,
          parity,           \* the tree P0_PARITY_PASSED.json was written in
          work,             \* the bindings runs were recorded under
          starts

\* a verified binding is that of a clean commit: the commit stands for it
P == INSTANCE PhaseStore WITH Owners <- Commits, Details <- Commits, NoDetail <- None

vars == <<tree, links, index, current, steward, freezes, moves,
          row, proc, opened, parity, work, starts>>

TypeOK ==
  /\ ApprovalTypeOK /\ P!PhaseTypeOK
  /\ parity \in Commits \cup {None} /\ work \subseteq Commits

Init == ApprovalInit /\ P!PhaseInit /\ parity = None /\ work = {} /\ starts = 0

-----------------------------------------------------------------------------
VerifiedCommit(b) == Verified([commit |-> b, edited |-> FALSE])

StartCommand(c, pc, todo, owner) ==
  /\ P!At(c, "idle") /\ starts < MaxStarts
  /\ starts' = starts + 1
  /\ proc' = [proc EXCEPT ![c] =
       [pc |-> pc, todo |-> todo, owner |-> owner, detail |-> tree.head, receipt |-> parity]]
  /\ UNCHANGED <<row, opened, parity, work>>

\* doctor's checks want a clean tree, not an approval
Doctor(c) ==
  /\ CleanTree
  /\ StartCommand(c, "verify", <<"DOCTOR_PASSED">>, None)

\* the probe runs in whatever tree there is and its receipt names the
\* protocol document, which every commit here has in common; run once here
TestP0Parity ==
  /\ parity = None
  /\ parity' = tree.head
  /\ UNCHANGED <<row, proc, opened, work, starts>>

\* run_preflight: a receipt that is whole and names this protocol, and the
\* live binding approved
PreflightPasses == parity # None /\ ApprovalBinds(LiveBinding)

\* preflight: the three gates are recorded one by one
Preflight(c) ==
  /\ PreflightPasses
  /\ StartCommand(c, "verify",
       <<"ACQUISITION_COMPLETE", "SNAPSHOTS_FROZEN", "P0_PARITY_PASSED">>, None)

\* _record_phase: the binding is verified anew, for each phase
VerifyForPhase(c) ==
  /\ P!At(c, "verify")
  /\ \/ \E b \in Commits : VerifiedCommit(b) /\
          proc' = [proc EXCEPT ![c].pc = "begin", ![c].owner = b]
     \/ ~(\E b \in Commits : VerifiedCommit(b)) /\ P!Finish(c)
  /\ UNCHANGED <<row, opened, parity, work, starts>>

\* smoke: the canary pins the binding its approval was verified for
Canary(c) ==
  \E b \in Commits :
    /\ VerifiedCommit(b)
    /\ StartCommand(c, "run", <<"GPU_SMOKE_PASSED">>, b)

\* run-bcplus: the same, and no phase of its own
RunBench(c) ==
  \E b \in Commits : VerifiedCommit(b) /\ StartCommand(c, "run", <<>>, b)

\* Mutant: the canary records its phase as doctor and preflight do
RecordedByCli == "verify"

AfterCells == "begin"

\* the run is created under the pinned binding before a cell is executed
CreateRun(c) == work' = work \cup {P!Owner(c)}

\* GPU_SMOKE_PASSED is recorded if all checks of the canary pass
CanaryCells(c) ==
  /\ P!At(c, "run") /\ proc[c].todo # <<>>
  /\ CreateRun(c)
  /\ P!Finish(c) \/ P!Goto(c, AfterCells)
  /\ UNCHANGED <<row, opened, parity, starts>>

BenchCells(c) ==
  /\ P!At(c, "run") /\ proc[c].todo = <<>>
  /\ CreateRun(c)
  /\ P!Finish(c)
  /\ UNCHANGED <<row, opened, parity, starts>>

Command(c) ==
  \/ Doctor(c) \/ Preflight(c) \/ VerifyForPhase(c) \/ Canary(c) \/ RunBench(c)
  \/ CanaryCells(c) \/ BenchCells(c)
  \/ P!PhaseStep(c) /\ UNCHANGED <<parity, work, starts>>

Next ==
  \/ \E c \in Procs : Command(c) /\ UNCHANGED approvalVars
  \/ TestP0Parity /\ UNCHANGED approvalVars
  \/ ApprovalNext /\ UNCHANGED <<row, proc, opened, parity, work, starts>>

Spec == Init /\ [][Next]_vars

-----------------------------------------------------------------------------
(* Whatever a phase or a run was recorded under is in the approval chain,  *)
(* wherever a steward died while the pointer and the chain were being      *)
(* written: it can be graded for good (approval_chain_digests, 305-319,    *)
(* and grade-bcplus, which refuses a namespace that is not of the chain).  *)
WorkIsApproved ==
  \A b \in work \cup {o \in Commits : \E p \in P!Gates : row[o][p] # P!NoRow} :
    [commit |-> b, edited |-> FALSE] \in ChainDigests

GatesOpenInOrder == P!GatesOpenInOrder

(* The GPU smoke a binding has passed is one whose cells ran under it,     *)
(* however HEAD and the approval moved while the canary ran (canary.py     *)
(* 92-103 and 290-296).                                                    *)
SmokeIsOfItsBinding ==
  \A b \in Commits :
    P!IsComplete(b, "GPU_SMOKE_PASSED") =>
      row[b]["GPU_SMOKE_PASSED"].detail = b /\ b \in work

(* "It has just re-derived every frozen world and the P0 parity receipt"   *)
(* (preflight, cli.py 552-553): the parity a binding has passed is that of *)
(* its own tree.                                                           *)
ParityIsOfItsTree ==
  \A b \in Commits :
    P!IsComplete(b, "P0_PARITY_PASSED") => row[b]["P0_PARITY_PASSED"].detail = b
=============================================================================
