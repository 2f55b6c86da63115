----------------------------- MODULE PhaseStore -----------------------------
(***************************************************************************)
(* The campaign's durable phases: src/shapeflow/campaign/phases.py over    *)
(* the pure machine of experiment/state_machine.py. Rows belong to an      *)
(* execution binding. A command begins a phase and then completes or fails *)
(* it; each SQL statement of the store is a step, so two commands may      *)
(* interleave between a check and the write it decides, and a command may  *)
(* die between any two. Campaign composes it with the approval.            *)
(***************************************************************************)
EXTENDS Integers, Sequences, FiniteSets

CONSTANTS Procs,       \* bound: commands at once
          Owners,      \* the execution bindings rows belong to
          Details,     \* the evidence a phase may complete with
          NoDetail   \* not one of them

\* _ORDER: "how far has the campaign got", the linear spine
Spine == <<"NEW", "DOCTOR_PASSED", "ACQUISITION_COMPLETE", "SNAPSHOTS_FROZEN",
           "P0_PARITY_PASSED", "GPU_SMOKE_PASSED", "SCREEN_RUNNING", "SCREEN_COMPLETE",
           "MINI_ITT_RUNNING", "MINI_ITT_COMPLETE", "POLICY_FROZEN", "HOLDOUT_RUNNING",
           "HOLDOUT_COMPLETE", "REPORT_COMPLETE">>
SpineSet == {Spine[i] : i \in 1..Len(Spine)}
DeadEnds == {"BLOCKED", "COMPLETE_NO_GO", "BUDGET_EXHAUSTED", "ABORTED_SAFELY"}
Branches == {"LIVE_VALIDITY_OPTIONAL", "CHARACTERIZE_NO_GO_RUNNING",
             "CHARACTERIZE_NO_GO_COMPLETE"}
Phases == SpineSet \cup Branches \cup DeadEnds

\* _LEGAL: along the spine, and the branches
Legal ==
  {<<Spine[i], Spine[i + 1]>> : i \in 1..Len(Spine) - 1} \cup
  {<<"SCREEN_COMPLETE", "CHARACTERIZE_NO_GO_RUNNING">>,
   <<"MINI_ITT_COMPLETE", "CHARACTERIZE_NO_GO_RUNNING">>,
   <<"CHARACTERIZE_NO_GO_RUNNING", "CHARACTERIZE_NO_GO_COMPLETE">>,
   <<"CHARACTERIZE_NO_GO_COMPLETE", "REPORT_COMPLETE">>,
   <<"HOLDOUT_COMPLETE", "LIVE_VALIDITY_OPTIONAL">>,
   <<"LIVE_VALIDITY_OPTIONAL", "REPORT_COMPLETE">>,
   <<"REPORT_COMPLETE", "COMPLETE_NO_GO">>}
AnytimeFailures == {"BLOCKED", "BUDGET_EXHAUSTED", "ABORTED_SAFELY"}

NextPhases(p) ==
  {q \in Phases : <<p, q>> \in Legal}
    \cup (IF p \in DeadEnds \cup {"REPORT_COMPLETE"} THEN {} ELSE AnytimeFailures)

\* the phases that a command of this program records
Gates == {Spine[i] : i \in 2..6}

VARIABLES row,      \* row[b][p]: the row of campaign_phases_v2
          proc,     \* proc[c]: the control state of a command
          opened    \* history: <<b, p>>, the phases that were ever COMPLETE
phaseVars == <<row, proc, opened>>

Row == [state : {"ABSENT", "RUNNING", "COMPLETE", "FAILED"}, detail : Details \cup {NoDetail}]
NoRow == [state |-> "ABSENT", detail |-> NoDetail]

\* a command: the phases it has to record, the binding it records them
\* under, and what its checks looked at
Proc == [pc : {"idle", "verify", "begin", "legal", "upsert", "end", "write", "run"},
         todo : {<<>>} \cup {SubSeq(Spine, i, j) : i, j \in 2..6},
         owner : Owners \cup {NoDetail}, detail : Details \cup {NoDetail},
         receipt : Details \cup {NoDetail}]
Idle == [pc |-> "idle", todo |-> <<>>, owner |-> NoDetail, detail |-> NoDetail,
         receipt |-> NoDetail]

PhaseTypeOK ==
  /\ row \in [Owners -> [Gates -> Row]]
  /\ \A b \in Owners, p \in Gates : row[b][p].state = "COMPLETE" => row[b][p].detail # NoDetail
  /\ proc \in [Procs -> Proc]
  /\ opened \subseteq Owners \X Gates

PhaseInit ==
  /\ row = [b \in Owners |-> [p \in Gates |-> NoRow]]
  /\ proc = [c \in Procs |-> Idle]
  /\ opened = {}

-----------------------------------------------------------------------------
At(c, pc)  == proc[c].pc = pc
Phase(c)   == Head(proc[c].todo)
Owner(c)   == proc[c].owner
Goto(c, pc) == proc' = [proc EXCEPT ![c].pc = pc]
Finish(c)  == proc' = [proc EXCEPT ![c] = Idle]

IsComplete(b, p) == p \in Gates /\ row[b][p].state = "COMPLETE"

\* Mutant: the table of schema v1, one row per phase whatever the binding
DoneInAny(b) == {i \in 1..Len(Spine) : i = 1 \/ \E o \in Owners : IsComplete(o, Spine[i])}

\* current: the furthest phase of the spine that is complete
Done(b) == {i \in 1..Len(Spine) : i = 1 \/ IsComplete(b, Spine[i])}
Current(b) == Spine[CHOOSE i \in Done(b) : \A j \in Done(b) : j <= i]

CanBegin(b, p) == p = Current(b) \/ p \in NextPhases(Current(b))

\* begin: nothing to do for a phase that is complete already
Begin(c) ==
  /\ At(c, "begin")
  /\ Goto(c, IF IsComplete(Owner(c), Phase(c)) THEN "end" ELSE "legal")
  /\ UNCHANGED <<row, opened>>

CheckEdge(c) ==
  /\ At(c, "legal")
  /\ IF CanBegin(Owner(c), Phase(c)) THEN Goto(c, "upsert")
     ELSE Finish(c)                               \* IllegalPhaseTransition
  /\ UNCHANGED <<row, opened>>

\* the row is set RUNNING whatever it is by now, and keeps its evidence;
\* the transition is logged in a transaction of its own, which nothing reads
MarkRunning(c) ==
  /\ At(c, "upsert")
  /\ row' = [row EXCEPT ![Owner(c)][Phase(c)].state = "RUNNING"]
  /\ Goto(c, "end")
  /\ UNCHANGED opened

\* what a command does when a phase of its is recorded
Proceed(c, pc) ==
  IF Len(proc[c].todo) = 1 THEN Finish(c)
  ELSE proc' = [proc EXCEPT ![c].pc = pc, ![c].todo = Tail(proc[c].todo)]

\* the evidence of P0 parity is the receipt of the probe
Evidence(c) == IF Phase(c) = "P0_PARITY_PASSED" THEN proc[c].receipt ELSE proc[c].detail

\* complete: of a complete phase, its digest for the same evidence and
\* PhaseError for other; nothing is written either way
CheckComplete(c) ==
  /\ At(c, "end")
  /\ IF ~IsComplete(Owner(c), Phase(c)) THEN Goto(c, "write")
     ELSE IF row[Owner(c)][Phase(c)].detail = Evidence(c) THEN Proceed(c, "verify")
     ELSE Finish(c)
  /\ UNCHANGED <<row, opened>>

WriteComplete(c) ==
  /\ At(c, "write")
  /\ row' = [row EXCEPT ![Owner(c)][Phase(c)] =
               [state |-> "COMPLETE", detail |-> Evidence(c)]]
  /\ opened' = opened \cup {<<Owner(c), Phase(c)>>}
  /\ Proceed(c, "verify")

\* a command dies between any two statements
Crash(c) ==
  /\ ~At(c, "idle")
  /\ Finish(c)
  /\ UNCHANGED <<row, opened>>

PhaseStep(c) ==
  \/ Begin(c) \/ CheckEdge(c) \/ MarkRunning(c) \/ CheckComplete(c) \/ WriteComplete(c)
  \/ Crash(c)

-----------------------------------------------------------------------------
(* No gate of the spine opens under a binding before the one before it has *)
(* opened under the same binding, with any commands at once and deaths     *)
(* between any two statements: "a campaign cannot skip a gate by starting  *)
(* the phase after it" (begin, 164-187), and a new approval inherits none  *)
(* ("a newly approved experiment silently inherited the old campaign's     *)
(* completed gates", 52-55).                                               *)
GatesOpenInOrder ==
  \A b \in Owners : \A i \in 3..Len(Spine) :
    <<b, Spine[i]>> \in opened => <<b, Spine[i - 1]>> \in opened
=============================================================================
