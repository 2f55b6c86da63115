-------------------------- MODULE CellRunnerProofs --------------------------
(***************************************************************************)
(* Proofs about CellRunner, for every plan, every set of blocks and        *)
(* processes, and any number of crashes, engine boots and lost blobs.      *)
(***************************************************************************)
EXTENDS CellRunner, WorkLedgerProofs

\* the steps of a process between its claim of a cell and the cell's outcome
Executing == {"run", "epoch", "store", "materialize", "judge", "commit", "fail"}
Holds(r)  == runner[r].pc \in Executing

(* A cell nobody claimed has no attempt, no call and no epoch; one that    *)
(* was claimed has one attempt, which moves with it; an epoch that is a    *)
(* boot is the one boot that served it.                                    *)
CellOK(k) ==
  /\ item[k].state \in {"ABSENT", "PENDING"} =>
       attempts[k] = << >> /\ served[k] = {} /\ epoch[k] = NoEpoch
  /\ item[k].state \notin {"ABSENT", "PENDING"} =>
       Len(attempts[k]) = 1 /\ attempts[k][1].state = item[k].state
  /\ epoch[k] \in 1..MaxBoots => served[k] \subseteq {epoch[k]}

(* A process that executes a cell has its one attempt in progress; until   *)
(* the epoch is recorded, the boots since it read its own served the cell. *)
HolderOK(r) ==
  /\ runner[r].i # 0
  /\ runner[r].pc \in Executing \cup {"claim"} =>
       runner[r].i <= Len(Plan) /\ runner[r].start \in 1..boot
  /\ Holds(r) => runner[r].n = 1 /\ item[Cell(r)].state \in InProgress
  /\ runner[r].pc \in {"run", "epoch"} =>
       epoch[Cell(r)] = NoEpoch /\ served[Cell(r)] \subseteq runner[r].start..boot

OneHolder == \A r, s \in Runners : Holds(r) /\ Holds(s) /\ r # s => Cell(r) # Cell(s)

\* the terminal outcomes among those a process read are still the ledger's
SeenIsFinal(seen) ==
  \A k \in Items : seen[k].state \in Terminal =>
    seen[k].state = item[k].state /\ seen[k].ref \in {TerminalRef(k), <<k, "tombstone">>}

\* what a process knows of a cell it has read whole
Known(seen, k) == seen[k].ref \in {TerminalRef(k), <<k, "tombstone">>}

\* as far as a process x has read: the terminal states are the ledger's, and the output of each is
\* read or is still to be read
Reading(x) ==
  \A k \in Items : x.seen[k].state \in Terminal =>
    /\ x.seen[k].state = item[k].state
    /\ \/ Known(x.seen, k)
       \/ \E j \in 1..Len(Plan) : Plan[j] = k /\ (x.pc = "outputs" => x.i <= j)

FreezerOK(r) ==
  /\ runner[r].pc \in {"states", "outputs"} => Reading(runner[r])
  /\ runner[r].pc \in {"freeze", "write"} => SeenIsFinal(runner[r].seen)
  /\ runner[r].pc = "write" => Due(runner[r].seen, FileOf(r))

FilesOK ==
  /\ FrozenIsTheOutcome
  /\ \A b \in Blocks : Written(b) => DOMAIN file[b] = cellsOf[b]

CInv ==
  /\ TypeOK
  /\ \A k \in Items : CellOK(k)
  /\ \A r \in Runners : HolderOK(r) /\ FreezerOK(r)
  /\ OneHolder
  /\ FilesOK

-----------------------------------------------------------------------------
(* Nothing has run: no attempt, no call, no file.                          *)
LEMMA CellsInitInv == Init => CInv
<1> SUFFICES ASSUME Init PROVE CInv
  OBVIOUS
<1>1. LedgerTypeOK
  BY LedgerInitInv DEF Init, LedgerInv
<1>2. Idle("down") \in Runner
  BY RunnerAssumption DEF Idle, Runner, PC, NoStates, Outcome, ItemState
<1>3. TypeOK
  BY <1>1, <1>2, RunnerAssumption DEF Init, TypeOK, NoEpoch
<1>4. \A k \in Items : CellOK(k)
  BY RunnerAssumption DEF Init, LedgerInit, CellOK, NoEpoch
<1>5. \A r \in Runners : HolderOK(r) /\ FreezerOK(r) /\ ~Holds(r)
  BY DEF Init, Idle, HolderOK, FreezerOK, Holds, Executing
<1>6. FilesOK
  BY DEF Init, FilesOK, FrozenIsTheOutcome, Written, Files
<1>7. QED
  BY <1>3, <1>4, <1>5, <1>6 DEF CInv, OneHolder

(* A process moves on without touching a cell: it may keep the cell it     *)
(* executes or let it go, and a process that begins to freeze read what    *)
(* the ledger says.                                                        *)
LEMMA ControlStep ==
  ASSUME CInv, NEW r \in Runners, NEW x \in Runner,
         runner' = [runner EXCEPT ![r] = x], x.i # 0,
         UNCHANGED <<ledgerVars, epoch, served, boot, lost>>,
         blobs' \subseteq Refs, crashes' \in 0..MaxCrashes, DOMAIN file' = Files, FilesOK',
         x.pc = "claim" => x.i <= Len(Plan) /\ x.start \in 1..boot,
         x.pc \in Executing =>
           Holds(r) /\ x.i = runner[r].i /\ x.n = runner[r].n /\ x.start = runner[r].start,
         x.pc \in {"run", "epoch"} => runner[r].pc \in {"run", "epoch"},
         x.pc \in {"states", "outputs"} => Reading(x),
         x.pc \in {"freeze", "write"} => SeenIsFinal(x.seen),
         x.pc = "write" => Due(x.seen, FileSeq[x.i])
  PROVE  CInv'
<1>1. /\ runner' \in [Runners -> Runner] /\ runner'[r] = x
      /\ \A s \in Runners \ {r} : runner'[s] = runner[s]
      /\ UNCHANGED <<item, attempts, epoch, served, boot, lost>>
  BY DEF CInv, TypeOK, ledgerVars
<1>2. TypeOK' /\ \A k \in Items : CellOK(k)'
  BY <1>1 DEF CInv, TypeOK, LedgerTypeOK, CellOK
<1>3. /\ \A s \in Runners \ {r} : /\ HolderOK(s)' = HolderOK(s)
                                  /\ Holds(s)' = Holds(s) /\ Cell(s)' = Cell(s)
      /\ Holds(r)' => Holds(r) /\ Cell(r)' = Cell(r)
  BY <1>1 DEF HolderOK, Holds, Cell
<1>4. OneHolder'
  BY <1>3 DEF CInv, OneHolder
<1>5. HolderOK(r)'
  BY <1>1, <1>3 DEF CInv, HolderOK, Holds, Cell, Executing
<1>6. /\ \A seen : SeenIsFinal(seen)' = SeenIsFinal(seen)
      /\ \A z : Reading(z)' = Reading(z)
  BY <1>1 DEF SeenIsFinal, Reading, Known, TerminalRef
<1>7. \A s \in Runners : FreezerOK(s)'
  <2>1. FreezerOK(r)'
    BY <1>1, <1>6 DEF FreezerOK, FileOf
  <2>2. ASSUME NEW s \in Runners \ {r} PROVE FreezerOK(s)'
    BY <1>1, <1>6 DEF CInv, FreezerOK, FileOf
  <2>3. QED
    BY <2>1, <2>2
<1>8. QED
  BY <1>2, <1>3, <1>4, <1>5, <1>7 DEF CInv

(* A process writes the one cell that is its own, which was not terminal   *)
(* and which no other process executes; every other cell, and every file,  *)
(* is as it was.                                                           *)
LEMMA CellStep ==
  ASSUME CInv, NEW r \in Runners, NEW x \in Runner, NEW k \in Items,
         runner' = [runner EXCEPT ![r] = x], x.i # 0,
         UNCHANGED <<boot, blobs, file, crashes, lost>>,
         LedgerTypeOK', epoch' \in [Items -> {Spans} \cup 0..MaxBoots],
         served' \in [Items -> SUBSET (1..MaxBoots)],
         \A j \in Items \ {k} : /\ item'[j] = item[j] /\ attempts'[j] = attempts[j]
                                /\ epoch'[j] = epoch[j] /\ served'[j] = served[j],
         CellOK(k)', item[k].state \notin Terminal,
         \A s \in Runners \ {r} : Holds(s) => Cell(s) # k,
         HolderOK(r)', Holds(r)' => Cell(r)' = k,
         x.pc \notin {"states", "outputs", "freeze", "write"}
  PROVE  CInv'
<1>1. /\ runner' \in [Runners -> Runner] /\ runner'[r] = x
      /\ \A s \in Runners \ {r} : runner'[s] = runner[s]
  BY DEF CInv, TypeOK
<1>2. TypeOK' /\ \A j \in Items : CellOK(j)'
  <2>1. TypeOK'
    BY <1>1 DEF CInv, TypeOK
  <2>2. ASSUME NEW j \in Items \ {k} PROVE CellOK(j)'
    BY <2>2 DEF CInv, CellOK
  <2>3. QED
    BY <2>1, <2>2
<1>3. ASSUME NEW s \in Runners \ {r}
      PROVE  HolderOK(s)' /\ Holds(s)' = Holds(s) /\ Cell(s)' = Cell(s)
  <2>1. HolderOK(s) /\ runner'[s] = runner[s] /\ runner[s] \in Runner
    BY <1>1 DEF CInv, TypeOK
  <2>2. Holds(s)' = Holds(s) /\ Cell(s)' = Cell(s)
    BY <2>1 DEF Holds, Cell
  <2>3. Holds(s) => Cell(s) \in Items \ {k}
    <3>1. Holds(s) => runner[s].i \in 1..Len(Plan)
      BY <2>1 DEF HolderOK, Holds, Runner
    <3>2. QED
      BY <3>1, RunnerAssumption, ElementOfSeq DEF Cell
  <2>4. HolderOK(s)'
    BY <2>1, <2>2, <2>3 DEF HolderOK, Holds, Executing
  <2>5. QED
    BY <2>2, <2>4
<1>4. OneHolder'
  BY <1>3 DEF CInv, OneHolder
<1>5. \A seen : SeenIsFinal(seen) => SeenIsFinal(seen)'
  <2> SUFFICES ASSUME NEW seen, SeenIsFinal(seen), NEW j \in Items, seen[j].state \in Terminal
               PROVE  seen[j].state = item'[j].state /\ seen[j].ref \in {TerminalRef(j)', <<j, "tombstone">>}
    BY DEF SeenIsFinal
  <2>1. j # k
    BY DEF SeenIsFinal
  <2>2. QED
    BY <2>1 DEF SeenIsFinal, TerminalRef
<1>6. \A s \in Runners : FreezerOK(s)'
  <2>1. FreezerOK(r)'
    BY <1>1 DEF FreezerOK
  <2>2. \A z : Reading(z) => Reading(z)'
    <3> SUFFICES ASSUME NEW z, Reading(z), NEW j \in Items, z.seen[j].state \in Terminal
                 PROVE  /\ z.seen[j].state = item'[j].state
                        /\ \/ Known(z.seen, j)'
                           \/ \E m \in 1..Len(Plan) : Plan[m] = j /\ (z.pc = "outputs" => z.i <= m)
      BY DEF Reading
    <3>1. j # k
      BY DEF Reading
    <3>2. QED
      BY <3>1 DEF Reading, Known, TerminalRef
  <2>3. ASSUME NEW s \in Runners \ {r} PROVE FreezerOK(s)'
    BY <1>1, <1>5, <2>2 DEF CInv, FreezerOK, FileOf
  <2>4. QED
    BY <2>1, <2>3
<1>7. FilesOK'
  <2>1. \A b \in Blocks : /\ Written(b)' = Written(b) /\ file'[b] = file[b]
                          /\ \A j \in cellsOf[b] : j \in Items
    BY RunnerAssumption, ElementOfSeq DEF Written, Blocks
  <2>2. ASSUME NEW b \in Blocks, Written(b), NEW j \in cellsOf[b]
        PROVE  /\ file'[b][j].state = item'[j].state /\ item'[j].state \in Terminal
               /\ file'[b][j].epoch = epoch'[j]
               /\ file'[b][j].ref \in {TerminalRef(j)', <<j, "tombstone">>}
    <3>1. /\ file[b][j].state = item[j].state /\ item[j].state \in Terminal
          /\ file[b][j].epoch = epoch[j]
          /\ file[b][j].ref \in {TerminalRef(j), <<j, "tombstone">>}
      BY <2>2 DEF CInv, FilesOK, FrozenIsTheOutcome
    <3>2. j \in Items \ {k}
      BY <2>1, <3>1
    <3>3. QED
      BY <3>1, <3>2 DEF TerminalRef
  <2>3. FrozenIsTheOutcome'
    BY <2>1, <2>2 DEF FrozenIsTheOutcome
  <2>4. QED
    BY <2>1, <2>3 DEF CInv, FilesOK
<1>8. QED
  BY <1>2, <1>3, <1>4, <1>6, <1>7 DEF CInv

-----------------------------------------------------------------------------
(* The control records the steps write.                                    *)
LEMMA RunnerRecords ==
  ASSUME CInv, NEW r \in Runners
  PROVE  /\ runner[r] \in Runner /\ runner[r].i \in Nat \ {0}
         /\ \A p \in PC : /\ Idle(p) \in Runner /\ Idle(p).pc = p /\ Idle(p).i = 1
                          /\ [runner[r] EXCEPT !.pc = p] \in Runner
         /\ LET y == [Idle("next") EXCEPT !.i = runner[r].i + 1]
            IN  y \in Runner /\ y.pc = "next" /\ y.i = runner[r].i + 1
<1>1. runner[r] \in Runner /\ runner[r].i \in Nat \ {0}
  BY DEF CInv, TypeOK, HolderOK, Runner
<1>2. ASSUME NEW p \in PC
      PROVE  /\ Idle(p) \in Runner /\ Idle(p).pc = p /\ Idle(p).i = 1
             /\ [runner[r] EXCEPT !.pc = p] \in Runner
  <2>1. Idle(p) \in Runner /\ Idle(p).pc = p /\ Idle(p).i = 1
    BY RunnerAssumption DEF Idle, Runner, NoStates, Outcome, ItemState
  <2>2. QED
    BY <1>1, <2>1 DEF Runner
<1>3. LET y == [Idle("next") EXCEPT !.i = runner[r].i + 1]
      IN  y \in Runner /\ y.pc = "next" /\ y.i = runner[r].i + 1
  <2>1. Idle("next") \in Runner /\ Idle("next").pc = "next"
    BY <1>2 DEF PC
  <2>2. runner[r].i + 1 \in Nat
    BY <1>1
  <2>3. QED
    BY <2>1, <2>2 DEF Runner
<1>4. QED
  BY <1>1, <1>2, <1>3

(* As long as no cell changes, a file that does not change stays true.     *)
LEMMA FilesStay ==
  ASSUME CInv, UNCHANGED <<ledgerVars, epoch, file>>
  PROVE  FilesOK' /\ DOMAIN file' = Files
BY DEF CInv, TypeOK, FilesOK, FrozenIsTheOutcome, Written, TerminalRef, ledgerVars

(* A process lets go of its cell, is told to stop, dies, or comes to the   *)
(* end of its plan or of its files.                                        *)
LEMMA LettingGo ==
  ASSUME CInv, NEW r \in Runners, NEW p \in {"down", "next", "states"}, NEW x \in Runner,
         x.pc = p, x.i # 0, p = "states" => x.seen = NoStates, runner' = [runner EXCEPT ![r] = x],
         UNCHANGED <<ledgerVars, epoch, served, blobs, file, boot, lost>>,
         crashes' \in 0..MaxCrashes
  PROVE  CInv'
<1>1. FilesOK' /\ DOMAIN file' = Files /\ blobs' \subseteq Refs
  BY FilesStay DEF CInv, TypeOK
<1>2. x.pc \in {"states", "outputs"} => Reading(x)
  BY DEF Reading, NoStates, Terminal
<1>3. QED
  BY <1>1, <1>2, ControlStep DEF Executing

(* The steps of that kind.                                                 *)
LEMMA StopSteps ==
  ASSUME CInv, NEW r \in Runners,
         \/ PlanDone(r) \/ StopRun(r) \/ RunEnds(r) \/ Crash(r)
         \/ NextOrSkip(r) /\ item[Cell(r)].state # "PENDING"
         \/ ClaimCell(r) /\ UNCHANGED ledgerVars
         \/ RecordEpoch(r) /\ GiveUp(r) /\ UNCHANGED epoch
  PROVE  CInv'
<1>1. \E x \in { Idle("down"), Idle("states"), [Idle("next") EXCEPT !.i = runner[r].i + 1] } :
        runner' = [runner EXCEPT ![r] = x]
  <2>1. CASE ClaimCell(r) /\ UNCHANGED ledgerVars
    <3>1. ~Claim(Cell(r))
      <4>1. runner[r].i \in 1..Len(Plan)
        <5>1. runner[r].i \in Nat \ {0}
          BY RunnerRecords
        <5>2. runner[r].i <= Len(Plan)
          BY <2>1 DEF CInv, HolderOK, ClaimCell, At
        <5>3. QED
          BY <5>1, <5>2, RunnerAssumption, LenProperties
      <4>2. Cell(r) \in Items
        BY <4>1, RunnerAssumption, ElementOfSeq DEF Cell
      <4>3. item[Cell(r)] \in Item
        BY <4>2 DEF CInv, TypeOK, LedgerTypeOK
      <4>4. SUFFICES ASSUME Claim(Cell(r)), item' = item PROVE FALSE
        BY <2>1 DEF ledgerVars
      <4>5. item'[Cell(r)].state = "CLAIMED" /\ item[Cell(r)].state = "PENDING"
        BY <4>2, <4>3, <4>4 DEF Claim, SetState, CanSetState, CInv, TypeOK, LedgerTypeOK, Item
      <4>6. QED
        BY <4>4, <4>5
    <3>2. QED
      BY <2>1, <3>1 DEF ClaimCell, NextCell
  <2>2. QED
    BY <2>1 DEF PlanDone, StopRun, RunEnds, Crash, NextOrSkip, NextCell, GiveUp
<1>2. /\ UNCHANGED <<ledgerVars, epoch, served, blobs, file, boot, lost>>
      /\ crashes' \in 0..MaxCrashes
  BY RunnerAssumption
     DEF PlanDone, StopRun, RunEnds, Crash, NextOrSkip, ClaimCell, RecordEpoch, env, CInv, TypeOK
<1>3. PICK x \in { Idle("down"), Idle("states"), [Idle("next") EXCEPT !.i = runner[r].i + 1] } :
        runner' = [runner EXCEPT ![r] = x]
  BY <1>1
<1>4. /\ x \in Runner /\ x.pc \in {"down", "next", "states"} /\ x.i # 0
      /\ x.pc = "states" => x.seen = NoStates
  <2>1. CASE x \in {Idle("down"), Idle("states")}
    <3>1. /\ Idle("down") \in Runner /\ Idle("down").pc = "down" /\ Idle("down").i = 1
          /\ Idle("states") \in Runner /\ Idle("states").pc = "states" /\ Idle("states").i = 1
          /\ Idle("states").seen = NoStates
      BY RunnerRecords DEF PC, Idle
    <3>2. QED
      BY <2>1, <3>1
  <2>2. CASE x = [Idle("next") EXCEPT !.i = runner[r].i + 1]
    <3>1. x \in Runner /\ x.pc = "next" /\ x.i = runner[r].i + 1 /\ runner[r].i \in Nat
      BY <2>2, RunnerRecords
    <3>2. QED
      BY <3>1
  <2>3. QED
    BY <1>3, <2>1, <2>2
<1>5. QED
  BY <1>2, <1>3, <1>4, LettingGo

(* A process goes on with what it has: to the claim, out of the graph, to  *)
(* the outcome it stored.                                                  *)
LEMMA GoingOn ==
  ASSUME CInv, NEW r \in Runners,
         \/ NextOrSkip(r) /\ item[Cell(r)].state = "PENDING"
         \/ GraphEnds(r) \/ StoreOutput(r)
  PROVE  CInv'
<1> DEFINE old == runner[r]
<1>1. old \in Runner /\ old.i \in Nat \ {0} /\ HolderOK(r) /\ boot \in 1..MaxBoots
  BY RunnerRecords DEF CInv, TypeOK
<1>2. /\ UNCHANGED <<ledgerVars, epoch, served, file, boot, crashes, lost>>
      /\ crashes' \in 0..MaxCrashes /\ FilesOK' /\ DOMAIN file' = Files
  BY FilesStay DEF NextOrSkip, GraphEnds, StoreOutput, env, CInv, TypeOK
<1>3. CASE NextOrSkip(r) /\ item[Cell(r)].state = "PENDING"
  <2> DEFINE x == [old EXCEPT !.pc = "claim", !.start = boot]
  <2>1. runner' = [runner EXCEPT ![r] = x] /\ old.i <= Len(Plan) /\ blobs' \subseteq Refs
    BY <1>3 DEF NextOrSkip, CInv, TypeOK
  <2>2. x \in Runner /\ x.pc = "claim" /\ x.i = old.i /\ x.start = boot /\ boot \in 1..boot
    <3>1. boot \in 0..MaxBoots /\ boot \in 1..boot
      BY <1>1, RunnerAssumption
    <3>2. QED
      BY <1>1, <3>1 DEF Runner, PC
  <2> HIDE DEF x
  <2>3. QED
    BY <1>1, <1>2, <2>1, <2>2, ControlStep DEF Executing
<1>4. CASE GraphEnds(r) \/ StoreOutput(r)
  <2>1. PICK p \in {"epoch", "fail", "materialize"}, res \in {"none", "ok", "error", "raised"} :
          /\ runner' = [runner EXCEPT ![r] = [old EXCEPT !.pc = p, !.result = res]]
          /\ p = "epoch" => old.pc = "run"
          /\ old.pc \in Executing
    <3>1. CASE GraphEnds(r)
      BY <3>1 DEF GraphEnds, At, Executing
    <3>2. CASE StoreOutput(r)
      <4>1. old.result \in {"none", "ok", "error", "raised"}
        BY <1>1 DEF Runner
      <4>2. old.pc \in Executing
        BY <3>2 DEF StoreOutput, At, Executing
      <4>3. CASE runner' = [runner EXCEPT ![r].pc = "materialize", ![r].result = "error"]
        <5>1. runner' = [runner EXCEPT ![r] = [old EXCEPT !.pc = "materialize", !.result = "error"]]
          BY <1>1, <4>3 DEF Runner, CInv, TypeOK
        <5>2. QED
          BY <4>2, <5>1
      <4>4. CASE \E p \in {"fail", "materialize"} : Goto(r, p)
        <5>1. PICK p \in {"fail", "materialize"} : Goto(r, p)
          BY <4>4
        <5>2. [old EXCEPT !.pc = p] = [old EXCEPT !.pc = p, !.result = old.result]
          BY <1>1 DEF Runner
        <5>3. QED
          BY <4>1, <4>2, <5>1, <5>2 DEF Goto
      <4>5. QED
        BY <3>2, <4>3, <4>4 DEF StoreOutput
    <3>3. QED
      BY <1>4, <3>1, <3>2
  <2> DEFINE x == [old EXCEPT !.pc = p, !.result = res]
  <2>2. x \in Runner /\ x.pc = p /\ x.i = old.i /\ x.n = old.n /\ x.start = old.start
    BY <1>1 DEF Runner, PC
  <2>3. blobs' \subseteq Refs
    <3>1. CASE StoreOutput(r)
      <4>1. Holds(r) /\ old.i \in 1..Len(Plan)
        BY <1>1, <3>1 DEF HolderOK, Holds, StoreOutput, At, Executing
      <4>2. Cell(r) \in Items
        BY <4>1, RunnerAssumption, ElementOfSeq DEF Cell
      <4>3. Ref(r) \in Refs
        BY <4>2, RunnerAssumption DEF Ref
      <4>4. QED
        BY <3>1, <4>3 DEF StoreOutput, CInv, TypeOK
    <3>2. CASE GraphEnds(r)
      BY <3>2 DEF GraphEnds, CInv, TypeOK
    <3>3. QED
      BY <1>4, <3>1, <3>2
  <2> HIDE DEF x
  <2>4. QED
    BY <1>1, <1>2, <2>1, <2>2, <2>3, ControlStep DEF Executing, Holds, x
<1>5. QED
  BY <1>3, <1>4

-----------------------------------------------------------------------------
(* What a reading finds: a terminal state is the ledger's, and its         *)
(* reference is the result or a tombstone.                                 *)
LEMMA WhatIsRead ==
  ASSUME CInv, NEW k \in Items
  PROVE  /\ StateOf(k) \in ItemState
         /\ StateOf(k) \in Terminal => StateOf(k) = item[k].state
         /\ OutputOf(k) \in Refs /\ OutputOf(k) \in {TerminalRef(k), <<k, "tombstone">>}
<1>1. item[k] \in Item
  BY DEF CInv, TypeOK, LedgerTypeOK
<1>2. StateOf(k) \in ItemState /\ (StateOf(k) \in Terminal => StateOf(k) = item[k].state)
  BY <1>1 DEF StateOf, Item, ItemState, Terminal
<1>3. blobs \subseteq Refs /\ <<k, "tombstone">> \in Refs
  BY RunnerAssumption DEF CInv, TypeOK
<1>4. QED
  BY <1>2, <1>3 DEF OutputOf

\* the cell a reading has come to
Reads(r) == runner[r].i <= Len(Plan) /\ Cell(r) \in Items /\ Cell(r) = Plan[runner[r].i]

(* The readings: one cell after the other, and the turn to the next.       *)
LEMMA ReadingFacts ==
  ASSUME CInv, NEW r \in Runners, ReadState(r) \/ ReadOutput(r)
  PROVE  /\ runner[r] \in Runner /\ runner[r].i \in Nat \ {0} /\ runner[r].i + 1 \in Nat \ {0}
         /\ Reading(runner[r]) /\ Len(Plan) \in Nat
         /\ runner[r].i <= Len(Plan) => Reads(r) /\ runner[r].i \in 1..Len(Plan)
         /\ UNCHANGED <<ledgerVars, epoch, served, file, boot, crashes, lost>>
         /\ crashes' \in 0..MaxCrashes /\ FilesOK' /\ DOMAIN file' = Files
<1>1. runner[r] \in Runner /\ runner[r].i \in Nat \ {0} /\ runner[r].i + 1 \in Nat \ {0}
  <2>1. runner[r] \in Runner /\ runner[r].i \in Nat \ {0}
    BY RunnerRecords
  <2>2. QED
    BY <2>1
<1>2. Reading(runner[r])
  BY DEF CInv, FreezerOK, ReadState, ReadOutput, At
<1>3. UNCHANGED <<ledgerVars, epoch, served, file, boot, crashes, lost>> /\ crashes' \in 0..MaxCrashes
  BY DEF ReadState, ReadOutput, env, CInv, TypeOK
<1>4. FilesOK' /\ DOMAIN file' = Files
  BY <1>3, FilesStay
<1>5. Len(Plan) \in Nat
  BY RunnerAssumption, LenProperties
<1>6. runner[r].i <= Len(Plan) => Reads(r) /\ runner[r].i \in 1..Len(Plan)
  <2>1. runner[r].i <= Len(Plan) => runner[r].i \in 1..Len(Plan)
    BY <1>1, <1>5
  <2>2. QED
    BY <2>1, RunnerAssumption, ElementOfSeq DEF Reads, Cell
<1>7. QED
  BY <1>1, <1>2, <1>3, <1>4, <1>5, <1>6

(* The state of one cell is read.                                          *)
LEMMA StateReadStep ==
  ASSUME CInv, NEW r \in Runners, ReadState(r)
  PROVE  CInv'
<1> DEFINE old == runner[r]
<1>1. /\ old \in Runner /\ old.i \in Nat \ {0} /\ old.i + 1 \in Nat \ {0} /\ old.pc = "states"
      /\ Reading(old) /\ Len(Plan) \in Nat
      /\ old.i <= Len(Plan) => Reads(r) /\ old.i \in 1..Len(Plan)
      /\ UNCHANGED <<ledgerVars, epoch, served, file, boot, crashes, lost>>
      /\ crashes' \in 0..MaxCrashes /\ FilesOK' /\ DOMAIN file' = Files
  BY ReadingFacts DEF ReadState, At
<1>2. blobs' \subseteq Refs
  BY DEF ReadState, CInv, TypeOK
<1>3. CASE old.i <= Len(Plan) /\ ReadNext(r, [old.seen EXCEPT ![Cell(r)].state = StateOf(Cell(r))])
  <2> DEFINE k == Cell(r)
             o == [old.seen[k] EXCEPT !.state = StateOf(k)]
             seen == [old.seen EXCEPT ![k] = o]
             x == [old EXCEPT !.seen = seen, !.i = old.i + 1]
  <2>1. /\ k \in Items /\ StateOf(k) \in ItemState
        /\ StateOf(k) \in Terminal => StateOf(k) = item[k].state
    BY <1>1, <1>3, WhatIsRead DEF Reads
  <2>2. old.seen \in [Items -> Outcome]
    BY <1>1 DEF Runner
  <2>3. o \in Outcome /\ o.state = StateOf(k)
    BY <2>1, <2>2 DEF Outcome
  <2>4. runner' = [runner EXCEPT ![r] = x]
    BY <1>1, <1>3, <2>2 DEF ReadNext, CInv, TypeOK, Runner
  <2> HIDE DEF o
  <2>5. /\ seen \in [Items -> Outcome] /\ seen[k] = o
        /\ \A j \in Items \ {k} : seen[j] = old.seen[j]
    BY <2>1, <2>2, <2>3
  <2> HIDE DEF seen
  <2>6. x \in Runner /\ x.pc = "states" /\ x.i # 0 /\ x.seen = seen
    BY <1>1, <2>5 DEF Runner
  <2>7. k = Plan[old.i] /\ old.i \in 1..Len(Plan)
    BY <1>1, <1>3 DEF Reads
  <2> HIDE DEF x, k
  <2>8. Reading(x)
    <3> SUFFICES ASSUME NEW j \in Items, seen[j].state \in Terminal
                 PROVE  /\ seen[j].state = item[j].state
                        /\ \E m \in 1..Len(Plan) : Plan[m] = j \/ Known(seen, j)
      BY <2>6 DEF Reading
    <3>1. CASE j = k
      BY <2>1, <2>3, <2>5, <2>7, <3>1
    <3>2. CASE j # k
      BY <1>1, <2>5, <2>7, <3>2 DEF Reading, Known
    <3>3. QED
      BY <3>1, <3>2
  <2>9. QED
    BY <1>1, <1>2, <2>4, <2>6, <2>8, ControlStep DEF Executing
<1>4. CASE old.i > Len(Plan) /\ ReadDone(r, "outputs")
  <2> DEFINE x == [old EXCEPT !.pc = "outputs", !.i = 1]
  <2>1. x \in Runner /\ x.pc = "outputs" /\ x.i = 1 /\ x.seen = old.seen
    BY <1>1 DEF Runner, PC
  <2>2. runner' = [runner EXCEPT ![r] = x]
    BY <1>1, <1>4 DEF ReadDone, CInv, TypeOK, Runner
  <2> HIDE DEF x
  <2>3. Reading(x)
    BY <1>1, <2>1 DEF Reading
  <2>4. x \in Runner /\ x.pc = "outputs" /\ x.i # 0
    BY <2>1
  <2>5. QED
    BY <1>1, <1>2, <2>2, <2>3, <2>4, ControlStep DEF Executing
<1>5. QED
  BY <1>3, <1>4 DEF ReadState

(* The output of one cell is looked up, or passed over.                    *)
LEMMA OutputReadStep ==
  ASSUME CInv, NEW r \in Runners, ReadOutput(r)
  PROVE  CInv'
<1> DEFINE old == runner[r]
<1>1. /\ old \in Runner /\ old.i \in Nat \ {0} /\ old.i + 1 \in Nat \ {0} /\ old.pc = "outputs"
      /\ Reading(old) /\ Len(Plan) \in Nat
      /\ old.i <= Len(Plan) => Reads(r) /\ old.i \in 1..Len(Plan)
      /\ UNCHANGED <<ledgerVars, epoch, served, file, boot, crashes, lost>>
      /\ crashes' \in 0..MaxCrashes /\ FilesOK' /\ DOMAIN file' = Files
  BY ReadingFacts DEF ReadOutput, At
<1>2. old.i <= Len(Plan) => OutputOf(Cell(r)) \in Refs
  BY <1>1, WhatIsRead DEF Reads
<1>3. blobs' \subseteq Refs
  BY <1>2 DEF ReadOutput, CInv, TypeOK
<1>4. old.seen \in [Items -> Outcome]
  BY <1>1 DEF Runner
<1>5. CASE old.i <= Len(Plan) /\ ReadNext(r, [old.seen EXCEPT ![Cell(r)].ref = OutputOf(Cell(r))])
  <2> DEFINE k == Cell(r)
             o == [old.seen[k] EXCEPT !.ref = OutputOf(k)]
             seen == [old.seen EXCEPT ![k] = o]
             x == [old EXCEPT !.seen = seen, !.i = old.i + 1]
  <2>1. k \in Items /\ OutputOf(k) \in Refs /\ OutputOf(k) \in {TerminalRef(k), <<k, "tombstone">>}
    BY <1>1, <1>5, WhatIsRead DEF Reads
  <2>2. o \in Outcome /\ o.state = old.seen[k].state /\ o.ref = OutputOf(k)
    BY <1>4, <2>1 DEF Outcome
  <2>3. runner' = [runner EXCEPT ![r] = x]
    BY <1>1, <1>4, <1>5 DEF ReadNext, CInv, TypeOK, Runner
  <2> HIDE DEF o
  <2>4. /\ seen \in [Items -> Outcome] /\ seen[k] = o
        /\ \A j \in Items \ {k} : seen[j] = old.seen[j]
    BY <1>4, <2>1, <2>2
  <2> HIDE DEF seen
  <2>5. x \in Runner /\ x.pc = "outputs" /\ x.i = old.i + 1 /\ x.i # 0 /\ x.seen = seen
    BY <1>1, <2>4 DEF Runner
  <2>6. k = Plan[old.i]
    BY <1>1, <1>5 DEF Reads
  <2> HIDE DEF x, k
  <2>7. Reading(x)
    <3> SUFFICES ASSUME NEW j \in Items, seen[j].state \in Terminal
                 PROVE  /\ seen[j].state = item[j].state
                        /\ Known(seen, j) \/ \E m \in 1..Len(Plan) : Plan[m] = j /\ old.i + 1 <= m
      BY <2>5 DEF Reading
    <3>1. CASE j = k
      BY <1>1, <2>1, <2>2, <2>4, <3>1 DEF Reading, Known
    <3>2. CASE j # k
      <4>1. /\ old.seen[j].state = item[j].state
            /\ Known(old.seen, j) \/ \E m \in 1..Len(Plan) : Plan[m] = j /\ old.i <= m
        BY <1>1, <2>4, <3>2 DEF Reading
      <4>2. \A m \in 1..Len(Plan) : Plan[m] = j /\ old.i <= m => old.i + 1 <= m
        BY <1>1, <2>6, <3>2
      <4>3. QED
        BY <2>4, <3>2, <4>1, <4>2 DEF Known
    <3>3. QED
      BY <3>1, <3>2
  <2>8. QED
    BY <1>1, <1>3, <2>3, <2>5, <2>7, ControlStep DEF Executing
<1>6. CASE old.i <= Len(Plan) /\ old.seen[Cell(r)].state \notin Terminal /\ ReadNext(r, old.seen)
  <2> DEFINE x == [old EXCEPT !.i = old.i + 1]
  <2>1. x \in Runner /\ x.pc = "outputs" /\ x.i = old.i + 1 /\ x.i # 0 /\ x.seen = old.seen
    BY <1>1 DEF Runner
  <2>2. runner' = [runner EXCEPT ![r] = x]
    BY <1>1, <1>6 DEF ReadNext, CInv, TypeOK, Runner
  <2>3. old.seen[Plan[old.i]].state \notin Terminal
    BY <1>1, <1>6 DEF Reads
  <2> HIDE DEF x
  <2>4. \A m \in 1..Len(Plan) : old.seen[Plan[m]].state \in Terminal /\ old.i <= m => old.i + 1 <= m
    BY <1>1, <2>3
  <2>5. Reading(x)
    BY <1>1, <2>1, <2>4 DEF Reading
  <2>6. QED
    BY <1>1, <1>3, <2>1, <2>2, <2>5, ControlStep DEF Executing
<1>7. CASE old.i > Len(Plan) /\ ReadDone(r, "freeze")
  <2> DEFINE x == [old EXCEPT !.pc = "freeze", !.i = 1]
  <2>1. x \in Runner /\ x.pc = "freeze" /\ x.i = 1 /\ x.seen = old.seen
    BY <1>1 DEF Runner, PC
  <2>2. runner' = [runner EXCEPT ![r] = x]
    BY <1>1, <1>7 DEF ReadDone, CInv, TypeOK, Runner
  <2>3. \A m \in 1..Len(Plan) : ~(old.i <= m)
    BY <1>1, <1>7
  <2>4. SeenIsFinal(old.seen)
    BY <1>1, <2>3 DEF Reading, Known, SeenIsFinal
  <2> HIDE DEF x
  <2>5. x \in Runner /\ x.pc = "freeze" /\ x.i # 0 /\ SeenIsFinal(x.seen)
    BY <2>1, <2>4
  <2>6. QED
    BY <1>1, <1>3, <2>2, <2>5, ControlStep DEF Executing
<1>8. QED
  BY <1>5, <1>6, <1>7 DEF ReadOutput

(* The next file: created when it is due, compared when it is there, and a *)
(* difference raises.                                                      *)
LEMMA FreezeStep ==
  ASSUME CInv, NEW r \in Runners, Freeze(r)
  PROVE  CInv'
<1> DEFINE old == runner[r]
<1>1. old \in Runner /\ old.i \in Nat \ {0} /\ old.pc = "freeze" /\ SeenIsFinal(old.seen)
  BY RunnerRecords DEF CInv, FreezerOK, Freeze, At
<1>2. /\ UNCHANGED <<ledgerVars, epoch, served, blobs, boot, crashes, lost>>
      /\ crashes' \in 0..MaxCrashes /\ blobs' \subseteq Refs
  BY DEF Freeze, env, CInv, TypeOK
<1>3. CASE file' = [file EXCEPT ![FileOf(r)] = Torn] /\ Goto(r, "write") /\ Due(old.seen, FileOf(r))
  <2> DEFINE x == [old EXCEPT !.pc = "write"]
  <2>1. DOMAIN file' = Files /\ \A b \in Blocks : file'[b] \in {file[b], Torn}
    BY <1>3 DEF CInv, TypeOK, Files
  <2>2. FilesOK'
    BY <1>2, <2>1 DEF CInv, FilesOK, FrozenIsTheOutcome, Written, TerminalRef, ledgerVars
  <2>3. x \in Runner /\ x.pc = "write" /\ x.i = old.i /\ x.seen = old.seen
    BY <1>1 DEF Runner, PC
  <2>4. runner' = [runner EXCEPT ![r] = x]
    BY <1>3 DEF Goto
  <2> HIDE DEF x
  <2>5. QED
    BY <1>1, <1>2, <1>3, <2>1, <2>2, <2>3, <2>4, ControlStep DEF Executing, FileOf
<1>4. CASE NextFile(r) /\ UNCHANGED file
  <2> DEFINE x == [old EXCEPT !.pc = "freeze", !.i = old.i + 1]
  <2>1. FilesOK' /\ DOMAIN file' = Files
    BY <1>2, <1>4, FilesStay
  <2>2. old.i + 1 \in Nat \ {0}
    BY <1>1
  <2>3. x \in Runner /\ x.pc = "freeze" /\ x.i # 0 /\ x.seen = old.seen
    BY <1>1, <2>2 DEF Runner
  <2>4. runner' = [runner EXCEPT ![r] = x]
    BY <1>1, <1>4 DEF NextFile, CInv, TypeOK, Runner
  <2> HIDE DEF x
  <2>5. QED
    BY <1>1, <1>2, <2>1, <2>3, <2>4, ControlStep DEF Executing
<1>5. CASE GiveUp(r) /\ UNCHANGED file
  <2>1. Idle("down") \in Runner /\ Idle("down").pc = "down" /\ Idle("down").i = 1
    BY RunnerRecords DEF PC
  <2> DEFINE y == Idle("down")
  <2>2. y \in Runner /\ y.pc = "down" /\ y.i # 0 /\ runner' = [runner EXCEPT ![r] = y]
    BY <1>5, <2>1 DEF GiveUp
  <2> HIDE DEF y
  <2>3. QED
    BY <1>2, <1>5, <2>2, LettingGo
<1>6. QED
  BY <1>3, <1>4, <1>5 DEF Freeze

(* The body that is written is of the terminal outcomes the process read,  *)
(* which are the ledger's still.                                           *)
LEMMA WriteStep ==
  ASSUME CInv, NEW r \in Runners, Write(r)
  PROVE  CInv'
<1> DEFINE old == runner[r]
           x   == [old EXCEPT !.pc = "freeze", !.i = old.i + 1]
<1>1. /\ old \in Runner /\ old.i \in Nat \ {0} /\ SeenIsFinal(old.seen)
      /\ Due(old.seen, FileOf(r))
  BY RunnerRecords DEF CInv, FreezerOK, Write, At
<1>2. /\ UNCHANGED <<ledgerVars, epoch, served, blobs, boot, crashes, lost>>
      /\ crashes' \in 0..MaxCrashes /\ blobs' \subseteq Refs
      /\ DOMAIN file' = Files
      /\ \A b \in Blocks : file'[b] = IF b = FileOf(r) THEN Body(old.seen, b) ELSE file[b]
  BY DEF Write, env, CInv, TypeOK, Files
<1>3. ASSUME NEW b \in Blocks, b = FileOf(r)
      PROVE  /\ file'[b] = Record(old.seen, b)
             /\ \A k \in cellsOf[b] : k \in Items /\ old.seen[k].state \in Terminal
  <2>1. b # Root
    BY RunnerAssumption DEF Blocks
  <2>2. cellsOf[b] \subseteq Items
    BY RunnerAssumption, ElementOfSeq DEF Blocks
  <2>3. QED
    BY <1>1, <1>2, <1>3, <2>1, <2>2 DEF Body, Due, BlockTerminal
<1>4. ASSUME NEW b \in Blocks, Written(b)', NEW k \in cellsOf[b]
      PROVE  /\ file'[b][k].state = item'[k].state /\ item'[k].state \in Terminal
             /\ file'[b][k].epoch = epoch'[k]
             /\ file'[b][k].ref \in {TerminalRef(k)', <<k, "tombstone">>}
  <2>1. item' = item /\ epoch' = epoch /\ TerminalRef(k)' = TerminalRef(k)
    BY <1>2 DEF ledgerVars, TerminalRef
  <2>2. CASE b = FileOf(r)
    <3>1. file'[b][k] = [state |-> old.seen[k].state, ref |-> old.seen[k].ref, epoch |-> epoch[k]]
      BY <1>3, <2>2 DEF Record
    <3>2. QED
      BY <1>1, <1>3, <2>1, <2>2, <3>1 DEF SeenIsFinal
  <2>3. CASE b # FileOf(r)
    BY <1>2, <1>4, <2>1, <2>3 DEF CInv, FilesOK, FrozenIsTheOutcome, Written
  <2>4. QED
    BY <2>2, <2>3
<1>5. ASSUME NEW b \in Blocks, Written(b)'
      PROVE  DOMAIN file'[b] = cellsOf[b]
  <2>1. CASE b = FileOf(r)
    BY <1>3, <2>1 DEF Record
  <2>2. CASE b # FileOf(r)
    BY <1>2, <1>5, <2>2 DEF CInv, FilesOK, Written
  <2>3. QED
    BY <2>1, <2>2
<1>6. FilesOK'
  BY <1>4, <1>5 DEF FilesOK, FrozenIsTheOutcome
<1>7. x \in Runner /\ x.pc = "freeze" /\ x.i # 0 /\ x.seen = old.seen
  <2>1. old.i + 1 \in Nat \ {0}
    BY <1>1
  <2>2. QED
    BY <1>1, <2>1 DEF Runner, PC
<1>8. runner' = [runner EXCEPT ![r] = x]
  BY <1>1 DEF Write, NextFile, CInv, TypeOK, Runner
<1> HIDE DEF x
<1>9. QED
  BY <1>1, <1>2, <1>6, <1>7, <1>8, ControlStep DEF Executing

-----------------------------------------------------------------------------
(* What the invariant says of the cell a process executes.                 *)
LEMMA HeldCell ==
  ASSUME CInv, NEW r \in Runners, Holds(r)
  PROVE  /\ runner[r] \in Runner /\ runner[r].i \in 1..Len(Plan) /\ runner[r].n = 1
         /\ runner[r].start \in 1..boot
         /\ Cell(r) \in Items /\ item[Cell(r)] \in Item
         /\ item[Cell(r)].state \in InProgress
         /\ 1 \in Ordinals(Cell(r)) /\ attempts[Cell(r)][1] \in Attempt
         /\ attempts[Cell(r)][1].state = item[Cell(r)].state
         /\ \A s \in Runners \ {r} : Holds(s) => Cell(s) # Cell(r)
<1>1. /\ runner[r] \in Runner /\ runner[r].i \in Nat \ {0} /\ runner[r].i <= Len(Plan)
      /\ runner[r].n = 1 /\ runner[r].start \in 1..boot /\ item[Cell(r)].state \in InProgress
  BY RunnerRecords DEF CInv, HolderOK, Holds
<1>2. runner[r].i \in 1..Len(Plan)
  BY <1>1, RunnerAssumption, LenProperties
<1>3. Cell(r) \in Items
  BY <1>2, RunnerAssumption, ElementOfSeq DEF Cell
<1>4. item[Cell(r)] \in Item /\ Len(attempts[Cell(r)]) = 1
      /\ attempts[Cell(r)][1].state = item[Cell(r)].state
  BY <1>1, <1>3 DEF CInv, TypeOK, LedgerTypeOK, CellOK, InProgress
<1>5. 1 \in Ordinals(Cell(r))
  BY <1>4 DEF Ordinals
<1>6. attempts[Cell(r)][1] \in Attempt
  BY <1>3, <1>5, AttemptTyped DEF CInv, TypeOK
<1>7. QED
  BY <1>1, <1>2, <1>3, <1>4, <1>5, <1>6 DEF CInv, OneHolder

(* The cell and its attempt move together, and the process either goes on  *)
(* with the cell in progress or leaves it.                                 *)
LEMMA CellMoves ==
  ASSUME CInv, NEW r \in Runners, Holds(r), NEW k \in Items, k = Cell(r),
         NEW st \in AttemptState, NEW a \in Attempt, a.state = st,
         SetAttempt(k, 1, a), item' = [item EXCEPT ![k].state = st],
         st # "FAILED_RETRYABLE",
         UNCHANGED <<epoch, served, blobs, file, env>>,
         NEW x \in Runner, runner' = [runner EXCEPT ![r] = x],
         \/ x.pc = "next" /\ x.i # 0
         \/ /\ x.pc \in {"judge", "commit", "fail"} /\ st \in InProgress
            /\ x.i = runner[r].i /\ x.n = 1 /\ x.start = runner[r].start
  PROVE  CInv'
<1>1. /\ k \in Items /\ item[k] \in Item /\ item[k].state \in InProgress
      /\ 1 \in Ordinals(k) /\ attempts[k][1] \in Attempt
      /\ \A s \in Runners \ {r} : Holds(s) => Cell(s) # k
      /\ runner[r].i \in 1..Len(Plan) /\ runner[r].start \in 1..boot
  BY HeldCell
<1>2. st \in ItemState /\ [item[k] EXCEPT !.state = st] \in Item
  BY <1>1 DEF AttemptState, Disposition, ItemState, Terminal, Item
<1>3. /\ LedgerTypeOK'
      /\ item'[k].state = st
      /\ \A j \in Items \ {k} : item'[j] = item[j]
  <2>1. item' = [item EXCEPT ![k] = [item[k] EXCEPT !.state = st]]
    OBVIOUS
  <2>2. LedgerTypeOK'
    BY <1>1, <1>2, <2>1, AttemptStepTyped DEF CInv, TypeOK
  <2>3. QED
    BY <1>1, <2>1, <2>2 DEF CInv, TypeOK, LedgerTypeOK, Item
<1>4. /\ Len(attempts'[k]) = 1 /\ attempts'[k][1] = a
      /\ \A j \in Items \ {k} : attempts'[j] = attempts[j]
  <2>1. Len(attempts[k]) = 1
    BY <1>1 DEF CInv, CellOK, InProgress
  <2>2. Len(attempts'[k]) = 1 /\ attempts'[k][1] = a
    BY <1>1, <2>1, SetAttemptFacts DEF CInv, TypeOK
  <2>3. QED
    BY <2>2 DEF SetAttempt, CInv, TypeOK, LedgerTypeOK
<1>5. UNCHANGED <<epoch, served, blobs, file, boot, crashes, lost>>
  BY DEF env
<1>6. CellOK(k)'
  <2>1. item'[k].state \notin {"ABSENT", "PENDING"}
    BY <1>3 DEF AttemptState, Disposition, InProgress
  <2>2. CellOK(k)
    BY <1>1 DEF CInv
  <2>3. QED
    BY <1>3, <1>4, <1>5, <2>1, <2>2 DEF CellOK
<1>7. runner'[r] = x
  BY DEF CInv, TypeOK
<1>8. HolderOK(r)' /\ (Holds(r)' => Cell(r)' = k) /\ x.i # 0
  BY <1>1, <1>3, <1>5, <1>7 DEF HolderOK, Holds, Cell, Executing
<1>9. item[k].state \notin Terminal
  BY <1>1 DEF InProgress, Terminal
<1>10. /\ epoch' \in [Items -> {Spans} \cup 0..MaxBoots]
       /\ served' \in [Items -> SUBSET (1..MaxBoots)]
       /\ \A j \in Items : epoch'[j] = epoch[j] /\ served'[j] = served[j]
  BY <1>5 DEF CInv, TypeOK
<1>11. QED
  BY <1>1, <1>3, <1>4, <1>5, <1>6, <1>8, <1>9, <1>10, CellStep

(* The transactions that move a claimed cell: materialize, validate,       *)
(* commit, fail.                                                           *)
LEMMA LedgerSteps ==
  ASSUME CInv, NEW r \in Runners,
         Materialize(r) \/ ValidateCell(r) \/ CommitCell(r) \/ FailCell(r)
  PROVE  CInv'
<1> DEFINE k == Cell(r)  old == runner[r]  a0 == attempts[k][1]
           x(p) == [old EXCEPT !.pc = p]
           y == [Idle("next") EXCEPT !.i = runner[r].i + 1]
<1>1. Holds(r)
  BY DEF Materialize, ValidateCell, CommitCell, FailCell, At, Holds, Executing
<1>2. /\ old \in Runner /\ old.n = 1 /\ old.i # 0 /\ k \in Items
      /\ item[k] \in Item /\ a0 \in Attempt /\ a0.state = item[k].state
  BY <1>1, HeldCell
<1>3. \A p \in {"judge", "commit", "fail"} :
        /\ x(p) \in Runner /\ x(p).pc = p /\ x(p).i = old.i /\ x(p).n = 1 /\ x(p).start = old.start
  BY <1>2 DEF Runner, PC
<1>4. y \in Runner /\ y.pc = "next" /\ y.i # 0
  BY RunnerRecords
<1>5. Ref(r) \in Refs /\ Ref(r) # NoRef
  BY <1>2, RunnerAssumption, LedgerAssumption DEF Ref
<1> HIDE DEF x, y
<1>6. CASE Materialize(r) \/ ValidateCell(r)
  <2>1. PICK to \in {"MATERIALIZED", "VALIDATED"}, p \in {"judge", "commit", "fail"} :
          /\ item' = [item EXCEPT ![k].state = to]
          /\ SetAttempt(k, 1, [a0 EXCEPT !.state = to])
          /\ runner' = [runner EXCEPT ![r] = x(p)]
          /\ UNCHANGED <<epoch, served, blobs, file, env>>
    BY <1>2, <1>6 DEF Materialize, ValidateCell, Advance, SetState, Goto, x
  <2> DEFINE a == [a0 EXCEPT !.state = to]
  <2>2. a \in Attempt /\ a.state = to /\ to \in InProgress /\ to \in AttemptState
    BY <1>2 DEF Attempt, AttemptState, InProgress
  <2> HIDE DEF a
  <2>3. QED
    BY <1>1, <1>2, <1>3, <2>1, <2>2, CellMoves DEF a
<1>7. CASE CommitCell(r)
  <2> DEFINE a == [a0 EXCEPT !.state = "COMMITTED", !.ref = Ref(r)]
  <2>1. /\ item' = [item EXCEPT ![k].state = "COMMITTED"]
        /\ SetAttempt(k, 1, a)
        /\ runner' = [runner EXCEPT ![r] = y]
        /\ UNCHANGED <<epoch, served, blobs, file, env>>
    BY <1>2, <1>7 DEF CommitCell, Commit, SetState, NextCell, y
  <2>2. a \in Attempt /\ a.state = "COMMITTED" /\ "COMMITTED" \in AttemptState
    BY <1>2, <1>5 DEF Attempt, AttemptState
  <2> HIDE DEF a
  <2>3. QED
    BY <1>1, <1>2, <1>4, <2>1, <2>2, CellMoves
<1>8. CASE FailCell(r)
  <2>1. PICK d \in {"FAILED_UNKNOWN", "FAILED_FINAL"} : Fail(k, 1, d, Ref(r))
    BY <1>2, <1>8 DEF FailCell
  <2> DEFINE a == [a0 EXCEPT !.state = d, !.ref = Ref(r)]
  <2>2. /\ item' = [item EXCEPT ![k].state = d]
        /\ SetAttempt(k, 1, a)
    BY <1>2, <1>5, <2>1 DEF Fail
  <2>3. /\ runner' = [runner EXCEPT ![r] = y]
        /\ UNCHANGED <<epoch, served, blobs, file, env>>
    BY <1>8 DEF FailCell, NextCell, y
  <2>4. a \in Attempt /\ a.state = d /\ d \in AttemptState
    BY <1>2, <1>5 DEF Attempt, AttemptState, Disposition
  <2> HIDE DEF a
  <2>5. QED
    BY <1>1, <1>2, <1>4, <2>2, <2>3, <2>4, CellMoves
<1>9. QED
  BY <1>6, <1>7, <1>8

-----------------------------------------------------------------------------
(* A claim takes a PENDING cell, which nobody executes, and adds its only  *)
(* attempt.                                                                *)
LEMMA ClaimStep ==
  ASSUME CInv, NEW r \in Runners, ClaimCell(r), ~UNCHANGED ledgerVars
  PROVE  CInv'
<1> SUFFICES ASSUME NEW k \in Items, k = Cell(r)
             PROVE  CInv'
  <2>1. runner[r].i \in Nat \ {0} /\ runner[r].i <= Len(Plan)
    BY RunnerRecords DEF CInv, HolderOK, ClaimCell, At
  <2>2. runner[r].i \in 1..Len(Plan)
    BY <2>1, RunnerAssumption, LenProperties
  <2>3. QED
    BY <2>2, RunnerAssumption, ElementOfSeq DEF Cell
<1> DEFINE old == runner[r]
           x == [old EXCEPT !.pc = "run", !.n = 1]
<1>1. /\ old \in Runner /\ old.i \in Nat \ {0} /\ old.i <= Len(Plan) /\ old.start \in 1..boot
      /\ Claim(k) /\ item[k].state = "PENDING" /\ LedgerTypeOK
  BY RunnerRecords DEF CInv, TypeOK, HolderOK, ClaimCell, At, Claim, SetState, CanSetState
<1>2. attempts[k] = << >> /\ served[k] = {} /\ epoch[k] = NoEpoch /\ CellOK(k)
  BY <1>1 DEF CInv, CellOK
<1>3. /\ attempts' \in [Items -> Seq(Attempt)] /\ Len(attempts'[k]) = 1
      /\ attempts'[k][1].state = "CLAIMED"
      /\ \A j \in Items \ {k} : attempts'[j] = attempts[j]
      /\ item' = [item EXCEPT ![k].state = "CLAIMED"]
  <2>1. Len(attempts[k]) = 0 /\ Len(attempts[k]) + 1 = 1
    BY <1>2
  <2>2. QED
    BY <1>1, <2>1, ClaimFacts
<1>4. /\ item' \in [Items -> Item] /\ item'[k].state = "CLAIMED"
      /\ \A j \in Items \ {k} : item'[j] = item[j]
  BY <1>1, <1>3 DEF LedgerTypeOK, Item, ItemState, InProgress
<1>5. UNCHANGED <<epoch, served, blobs, file, boot, crashes, lost>>
  BY DEF ClaimCell, env
<1>6. /\ x \in Runner /\ x.pc = "run" /\ x.i = old.i /\ x.n = 1 /\ x.start = old.start
      /\ runner' = [runner EXCEPT ![r] = x] /\ runner'[r] = x
  <2>1. runner' = [runner EXCEPT ![r].pc = "run", ![r].n = Len(attempts[k]) + 1]
    BY <1>1 DEF ClaimCell
  <2>2. Len(attempts[k]) + 1 = 1
    BY <1>2
  <2>3. x \in Runner /\ x.pc = "run" /\ x.i = old.i /\ x.n = 1 /\ x.start = old.start
    BY <1>1 DEF Runner, PC
  <2>4. runner' = [runner EXCEPT ![r] = x]
    BY <1>1, <2>1, <2>2 DEF CInv, TypeOK, Runner
  <2> HIDE DEF x
  <2>5. QED
    BY <2>3, <2>4 DEF CInv, TypeOK
<1> HIDE DEF x
<1>7. CellOK(k)'
  BY <1>2, <1>3, <1>4, <1>5 DEF CellOK
<1>8. Cell(r)' = k
  BY <1>6 DEF Cell
<1>9. HolderOK(r)'
  BY <1>1, <1>2, <1>4, <1>5, <1>6, <1>8 DEF HolderOK, Holds, InProgress
<1>10. \A s \in Runners \ {r} : Holds(s) => Cell(s) # k
  BY <1>1 DEF CInv, HolderOK, InProgress
<1>11. /\ LedgerTypeOK'
       /\ epoch' \in [Items -> {Spans} \cup 0..MaxBoots]
       /\ served' \in [Items -> SUBSET (1..MaxBoots)]
       /\ \A j \in Items : epoch'[j] = epoch[j] /\ served'[j] = served[j]
  BY <1>3, <1>4, <1>5 DEF CInv, TypeOK, LedgerTypeOK
<1>12. item[k].state \notin Terminal
  BY <1>1 DEF Terminal
<1>13. QED
  BY <1>1, <1>3, <1>4, <1>5, <1>6, <1>7, <1>8, <1>9, <1>10, <1>11, <1>12, CellStep

(* A call is served by the boot of now, before the epoch is recorded; the  *)
(* epoch is a boot only if it was the one before the claim and at the end, *)
(* and so at every call between.                                           *)
LEMMA EngineSteps ==
  ASSUME CInv, NEW r \in Runners,
         ServeCall(r) \/ (RecordEpoch(r) /\ ~(GiveUp(r) /\ UNCHANGED epoch))
  PROVE  CInv'
<1>1. Holds(r) /\ runner[r].pc \in {"run", "epoch"}
  BY DEF ServeCall, RecordEpoch, At, Holds, Executing
<1> SUFFICES ASSUME NEW k \in Items, k = Cell(r)
             PROVE  CInv'
  BY <1>1, HeldCell
<1> DEFINE old == runner[r]
<1>2. /\ old \in Runner /\ old.i \in Nat \ {0} /\ old.i <= Len(Plan) /\ old.n = 1
      /\ old.start \in 1..boot /\ boot \in 1..MaxBoots /\ MaxBoots \in Nat
      /\ item[k].state \in InProgress /\ item[k].state \notin Terminal
      /\ \A s \in Runners \ {r} : Holds(s) => Cell(s) # k
      /\ epoch[k] = NoEpoch /\ served[k] \subseteq old.start..boot
      /\ CellOK(k)
  BY <1>1, HeldCell, RunnerRecords, RunnerAssumption DEF CInv, TypeOK, HolderOK, InProgress, Terminal
<1>3. UNCHANGED <<item, attempts, blobs, file, boot, crashes, lost>> /\ LedgerTypeOK'
  BY DEF ServeCall, RecordEpoch, ledgerVars, env, CInv, TypeOK, LedgerTypeOK
<1>4. CASE ServeCall(r)
  <2>1. served' = [served EXCEPT ![k] = @ \cup {boot}] /\ UNCHANGED <<runner, epoch>>
    BY <1>4 DEF ServeCall
  <2>2. /\ served' \in [Items -> SUBSET (1..MaxBoots)]
        /\ epoch' \in [Items -> {Spans} \cup 0..MaxBoots]
        /\ served'[k] = served[k] \cup {boot} /\ epoch'[k] = NoEpoch
        /\ \A j \in Items \ {k} : served'[j] = served[j] /\ epoch'[j] = epoch[j]
    BY <1>2, <2>1 DEF CInv, TypeOK
  <2>3. served'[k] \subseteq old.start..boot
    BY <1>2, <2>2
  <2>4. CellOK(k)'
    BY <1>2, <1>3, <2>2 DEF CellOK, NoEpoch, InProgress
  <2>5. HolderOK(r)' /\ Cell(r)' = k
    BY <1>2, <1>3, <2>1, <2>2, <2>3 DEF HolderOK, Holds, Cell
  <2>6. runner' = [runner EXCEPT ![r] = old]
    BY <2>1 DEF CInv, TypeOK
  <2>7. QED
    BY <1>1, <1>2, <1>3, <2>2, <2>4, <2>5, <2>6, CellStep
<1>5. CASE RecordEpoch(r) /\ ~(GiveUp(r) /\ UNCHANGED epoch)
  <2>1. PICK end \in {boot, Spans} :
          LET e == Interval(old.start, end) IN
          /\ epoch' = [epoch EXCEPT ![k] = e]
          /\ runner' = [runner EXCEPT ![r].pc = "store",
               ![r].result = IF e = Spans /\ @ = "ok" THEN "error" ELSE @]
    BY <1>5 DEF RecordEpoch
  <2> DEFINE e == Interval(old.start, end)
             res == IF e = Spans /\ old.result = "ok" THEN "error" ELSE old.result
             x == [old EXCEPT !.pc = "store", !.result = res]
  <2>2. e \in {Spans} \cup 0..MaxBoots /\ (e \in 1..MaxBoots => e = old.start /\ e = boot)
    BY <1>2 DEF Interval, Spans
  <2>3. /\ x \in Runner /\ x.pc = "store" /\ x.i = old.i /\ x.n = old.n /\ x.start = old.start
        /\ runner' = [runner EXCEPT ![r] = x]
    <3>1. res \in {"none", "ok", "error", "raised"}
      BY <1>2 DEF Runner
    <3>2. runner' = [runner EXCEPT ![r] = x]
      BY <1>2, <2>1 DEF CInv, TypeOK, Runner
    <3> HIDE DEF res
    <3>3. QED
      BY <1>2, <3>1, <3>2 DEF Runner, PC
  <2>4. UNCHANGED served
    BY <1>5 DEF RecordEpoch
  <2> HIDE DEF e, x
  <2>5. /\ epoch' \in [Items -> {Spans} \cup 0..MaxBoots]
        /\ served' \in [Items -> SUBSET (1..MaxBoots)]
        /\ epoch'[k] = e
        /\ \A j \in Items \ {k} : served'[j] = served[j] /\ epoch'[j] = epoch[j]
    BY <2>1, <2>2, <2>4 DEF CInv, TypeOK, e
  <2>6. CellOK(k)'
    <3>1. e \in 1..MaxBoots => served[k] \subseteq {e}
      BY <1>2, <2>2
    <3>2. QED
      BY <1>2, <1>3, <2>4, <2>5, <3>1 DEF CellOK, InProgress
  <2>7. runner'[r] = x
    BY <2>3 DEF CInv, TypeOK
  <2>8. Cell(r)' = k
    BY <2>3, <2>7 DEF Cell
  <2>9. HolderOK(r)'
    BY <1>2, <1>3, <2>3, <2>7, <2>8 DEF HolderOK, Holds
  <2>10. QED
    BY <1>2, <1>3, <2>3, <2>5, <2>6, <2>8, <2>9, CellStep
<1>6. QED
  BY <1>4, <1>5

(* cell_states makes the rows that are not there; no process has one of    *)
(* those, and none of them is in a file.                                   *)
LEMMA StartRunStep ==
  ASSUME CInv, NEW r \in Runners, StartRun(r)
  PROVE  CInv'
<1> DEFINE x == Idle("next")
<1>1. x \in Runner /\ x.pc = "next" /\ x.i = 1
  BY RunnerRecords DEF PC
<1> HIDE DEF x
<1>2. /\ runner' \in [Runners -> Runner] /\ runner'[r] = x
      /\ \A s \in Runners \ {r} : runner'[s] = runner[s]
  BY <1>1 DEF StartRun, CInv, TypeOK, x
<1>3. UNCHANGED <<attempts, epoch, served, blobs, file, boot, crashes, lost>>
  BY DEF StartRun, env
<1>4. ASSUME NEW k \in Items
      PROVE  /\ item'[k] \in Item
             /\ \/ item'[k] = item[k]
                \/ item[k].state = "ABSENT" /\ item'[k].state = "PENDING"
  <2>1. item[k] \in Item
    BY DEF CInv, TypeOK, LedgerTypeOK
  <2>2. item'[k] = IF item[k].state = "ABSENT" THEN [item[k] EXCEPT !.state = "PENDING"] ELSE item[k]
    BY DEF StartRun
  <2>3. QED
    BY <2>1, <2>2 DEF Item, ItemState
<1>5. item' \in [Items -> Item]
  <2>1. item' = [k \in Items |-> item'[k]]
    BY DEF StartRun
  <2>2. QED
    BY <1>4, <2>1
<1>6. TypeOK' /\ \A k \in Items : CellOK(k)'
  <2>1. TypeOK'
    BY <1>2, <1>3, <1>5 DEF CInv, TypeOK, LedgerTypeOK
  <2>2. ASSUME NEW k \in Items PROVE CellOK(k)'
    BY <1>3, <1>4 DEF CInv, CellOK
  <2>3. QED
    BY <2>1, <2>2
<1>7. ~Holds(r)' /\ HolderOK(r)' /\ FreezerOK(r)'
  BY <1>1, <1>2 DEF Holds, HolderOK, FreezerOK, Executing
<1>8. ASSUME NEW s \in Runners \ {r}
      PROVE  HolderOK(s)' /\ Holds(s)' = Holds(s) /\ Cell(s)' = Cell(s)
  <2>1. Holds(s)' = Holds(s) /\ Cell(s)' = Cell(s)
    BY <1>2 DEF Holds, Cell
  <2>2. Holds(s) => Cell(s) \in Items /\ item[Cell(s)].state \in InProgress
    BY HeldCell
  <2>3. Holds(s) => item'[Cell(s)] = item[Cell(s)]
    BY <1>4, <2>2 DEF InProgress
  <2>4. QED
    BY <1>2, <1>3, <2>1, <2>3 DEF CInv, HolderOK, Holds
<1>9. OneHolder'
  BY <1>7, <1>8 DEF CInv, OneHolder
<1>10. /\ \A seen : SeenIsFinal(seen) => SeenIsFinal(seen)'
       /\ \A z : Reading(z) => Reading(z)'
  BY <1>3, <1>4 DEF SeenIsFinal, Reading, Known, TerminalRef, Terminal
<1>11. \A s \in Runners : FreezerOK(s)'
  BY <1>2, <1>7, <1>10 DEF CInv, FreezerOK, FileOf
<1>12. FilesOK'
  <2>1. \A b \in Blocks : cellsOf[b] \subseteq Items
    BY RunnerAssumption, ElementOfSeq DEF Blocks
  <2>2. \A k \in Items : item[k].state \in Terminal => item'[k] = item[k]
    BY <1>4 DEF Terminal
  <2>3. QED
    BY <1>3, <2>1, <2>2 DEF CInv, FilesOK, FrozenIsTheOutcome, Written, TerminalRef
<1>13. QED
  BY <1>6, <1>7, <1>8, <1>9, <1>11, <1>12 DEF CInv

(* A later boot of the engine, and a blob that is lost, take nothing back. *)
LEMMA WorldSteps ==
  ASSUME CInv, EngineRestart \/ LoseBlob
  PROVE  CInv'
<1>1. UNCHANGED <<item, attempts, runner, epoch, served, file, crashes>>
  BY DEF EngineRestart, LoseBlob, ledgerVars
<1>2. boot' \in 1..MaxBoots /\ boot \in 1..MaxBoots /\ boot <= boot'
  BY RunnerAssumption DEF EngineRestart, LoseBlob, CInv, TypeOK
<1>3. TypeOK'
  <2>1. blobs' \subseteq Refs /\ lost' \in 0..MaxLost
    BY RunnerAssumption DEF EngineRestart, LoseBlob, CInv, TypeOK
  <2>2. QED
    BY <1>1, <1>2, <2>1 DEF CInv, TypeOK, LedgerTypeOK
<1>4. \A k \in Items : CellOK(k)'
  BY <1>1 DEF CInv, CellOK
<1>5. ASSUME NEW r \in Runners
      PROVE  HolderOK(r)' /\ FreezerOK(r)'
  <2>1. /\ \A seen : SeenIsFinal(seen)' = SeenIsFinal(seen)
        /\ \A z : Reading(z)' = Reading(z)
    BY <1>1 DEF SeenIsFinal, Reading, Known, TerminalRef
  <2>2. FreezerOK(r)'
    BY <1>1, <2>1 DEF CInv, FreezerOK, FileOf
  <2>3. runner[r].start..boot \subseteq runner[r].start..boot' /\ 1..boot \subseteq 1..boot'
    BY <1>2
  <2>4. HolderOK(r) /\ Cell(r)' = Cell(r) /\ Holds(r)' = Holds(r)
    BY <1>1 DEF CInv, Cell, Holds
  <2>5. HolderOK(r)'
    BY <1>1, <2>3, <2>4 DEF HolderOK
  <2>6. QED
    BY <2>2, <2>5
<1>6. OneHolder' /\ FilesOK'
  BY <1>1 DEF CInv, OneHolder, Holds, Cell, FilesOK, FrozenIsTheOutcome, Written, TerminalRef
<1>7. QED
  BY <1>3, <1>4, <1>5, <1>6 DEF CInv

-----------------------------------------------------------------------------
(* One attempt a cell, held by one process at most, with the boots that    *)
(* served it between its bounds, and files that hold the ledger's          *)
(* outcomes: true at the start and kept by every step of every process.    *)
THEOREM CellsInvariant == Spec => []CInv
<1>1. CInv /\ [Next]_vars => CInv'
  <2> SUFFICES ASSUME CInv, [Next]_vars PROVE CInv'
    OBVIOUS
  <2>1. CASE UNCHANGED vars
    BY <2>1
       DEF vars, ledgerVars, runnerVars, CInv, TypeOK, LedgerTypeOK, CellOK, HolderOK, Holds, Cell,
           OneHolder, FreezerOK, SeenIsFinal, Reading, Known, TerminalRef, FileOf, FilesOK, FrozenIsTheOutcome, Written
  <2>2. CASE EngineRestart \/ LoseBlob
    BY <2>2, WorldSteps
  <2>3. ASSUME NEW r \in Runners, Step(r) \/ ServeCall(r) \/ StopRun(r) \/ Crash(r)
        PROVE  CInv'
    <3>1. CASE NextOrSkip(r)
      BY <3>1, StopSteps, GoingOn
    <3>2. CASE ClaimCell(r)
      BY <3>2, StopSteps, ClaimStep
    <3>3. CASE RecordEpoch(r)
      BY <3>3, StopSteps, EngineSteps
    <3>4. CASE \/ PlanDone(r) \/ StopRun(r) \/ RunEnds(r) \/ Crash(r)
      BY <3>4, StopSteps
    <3>5. CASE GraphEnds(r) \/ StoreOutput(r)
      BY <3>5, GoingOn
    <3>6. CASE Materialize(r) \/ ValidateCell(r) \/ CommitCell(r) \/ FailCell(r)
      BY <3>6, LedgerSteps
    <3>7. CASE ReadState(r) \/ ReadOutput(r) \/ Freeze(r) \/ Write(r)
      BY <3>7, StateReadStep, OutputReadStep, FreezeStep, WriteStep
    <3>8. CASE StartRun(r) \/ ServeCall(r)
      BY <3>8, StartRunStep, EngineSteps
    <3>9. QED
      BY <2>3, <3>1, <3>2, <3>3, <3>4, <3>5, <3>6, <3>7, <3>8 DEF Step
  <2>4. QED
    BY <2>1, <2>2, <2>3 DEF Next
<1>2. QED
  BY <1>1, CellsInitInv, PTL DEF Spec

(* The runner's state and its ledger keep their types.                     *)
THEOREM CellsTypeCorrect == Spec => []TypeOK
<1>1. CInv => TypeOK
  BY DEF CInv
<1>2. QED
  BY <1>1, CellsInvariant, PTL

(* No cell is executed twice, over any number of processes, restarts and   *)
(* crashes: "resume must never re-run them until one happens to succeed".  *)
THEOREM CellsAreExecutedOnce == Spec => []ExecutedOnce
<1>1. CInv => ExecutedOnce
  <2> SUFFICES ASSUME CInv, NEW k \in Items PROVE Len(attempts[k]) <= 1
    BY DEF ExecutedOnce
  <2>1. attempts[k] = << >> \/ Len(attempts[k]) = 1
    BY DEF CInv, CellOK
  <2>2. Len(attempts[k]) \in {0, 1}
    BY <2>1
  <2>3. \A n \in {0, 1} : n <= 1
    OBVIOUS
  <2>4. QED
    BY <2>2, <2>3
<1>2. QED
  BY <1>1, CellsInvariant, PTL

(* What a file says of a cell is the cell's terminal outcome in the        *)
(* ledger, for as long as both are there.                                  *)
THEOREM FrozenStaysTheOutcome == Spec => []FrozenIsTheOutcome
<1>1. CInv => FrozenIsTheOutcome
  BY DEF CInv, FilesOK
<1>2. QED
  BY <1>1, CellsInvariant, PTL

(* The cells of a block that is frozen as paired were all served by the    *)
(* one boot its record names, at every call.                               *)
THEOREM PairedBlocksHadOneEngine == Spec => []PairedMeansOneEngine
<1>1. CInv => PairedMeansOneEngine
  <2> SUFFICES ASSUME CInv, NEW b \in Blocks, Written(b), Paired(file[b])
               PROVE  Cardinality(UNION {served[k] : k \in cellsOf[b]}) <= 1
    BY DEF PairedMeansOneEngine
  <2> DEFINE boots == UNION {served[k] : k \in cellsOf[b]}
  <2>1. PICK e \in 1..MaxBoots : \A k \in cellsOf[b] : file[b][k].epoch = e
    BY DEF Paired, CInv, FilesOK
  <2>2. ASSUME NEW k \in cellsOf[b]
        PROVE  served[k] \subseteq {e}
    <3>1. k \in Items
      BY RunnerAssumption, ElementOfSeq DEF Blocks
    <3>2. epoch[k] = e
      BY <2>1 DEF CInv, FilesOK, FrozenIsTheOutcome
    <3>3. QED
      BY <3>1, <3>2 DEF CInv, CellOK
  <2>3. boots \subseteq {e}
    BY <2>2
  <2>4. IsFiniteSet({e}) /\ Cardinality({e}) = 1
    BY FS_Singleton
  <2>5. Cardinality(boots) <= Cardinality({e}) /\ Cardinality(boots) \in Nat
    BY <2>3, <2>4, FS_Subset, FS_CardinalityType
  <2>6. QED
    BY <2>4, <2>5
<1>2. QED
  BY <1>1, CellsInvariant, PTL

-----------------------------------------------------------------------------
(* What a cell came to is never written again: no resumption, no other     *)
(* process, no late fail moves a terminal cell, its attempt or its epoch.  *)
OutcomesAreFinal ==
  [][\A k \in Items : item[k].state \in Terminal =>
       item'[k] = item[k] /\ attempts'[k] = attempts[k] /\ epoch'[k] = epoch[k]]_vars

(* Only the process that executes a cell writes it, and it executes no     *)
(* terminal one (run_cells' skip, claim's compare-and-set).                *)
THEOREM OutcomesNeverChange == Spec => OutcomesAreFinal
<1> DEFINE Same(k) == item'[k] = item[k] /\ attempts'[k] = attempts[k] /\ epoch'[k] = epoch[k]
<1>1. CInv /\ [Next]_vars => [\A k \in Items : item[k].state \in Terminal => Same(k)]_vars
  <2> SUFFICES ASSUME CInv, Next, NEW k \in Items, item[k].state \in Terminal
               PROVE  Same(k)
    OBVIOUS
  <2>0. LedgerTypeOK /\ epoch \in [Items -> {Spans} \cup 0..MaxBoots]
    BY DEF CInv, TypeOK
  <2>1. CASE UNCHANGED <<item, attempts, epoch>>
    BY <2>1
  <2>2. ASSUME NEW r \in Runners, StartRun(r)
        PROVE  Same(k)
    BY <2>2 DEF StartRun, Terminal
  <2>3. ASSUME NEW r \in Runners, ClaimCell(r)
        PROVE  Same(k)
    <3>1. CASE UNCHANGED ledgerVars
      BY <2>3, <3>1 DEF ClaimCell, ledgerVars
    <3>2. CASE Claim(Cell(r))
      <4>1. Cell(r) # k
        BY <3>2 DEF Claim, SetState, CanSetState, Terminal
      <4>2. QED
        BY <2>0, <2>3, <3>2, <4>1 DEF ClaimCell, Claim, SetState, LedgerTypeOK
    <3>3. QED
      BY <2>3, <3>1, <3>2 DEF ClaimCell
  <2>4. ASSUME NEW r \in Runners,
               RecordEpoch(r) \/ Materialize(r) \/ ValidateCell(r) \/ CommitCell(r) \/ FailCell(r)
        PROVE  Same(k)
    <3>1. Holds(r)
      BY <2>4
         DEF RecordEpoch, Materialize, ValidateCell, CommitCell, FailCell, At, Holds, Executing
    <3>2. Cell(r) # k
      BY <3>1, HeldCell DEF InProgress, Terminal
    <3>3. CASE RecordEpoch(r)
      BY <2>0, <3>2, <3>3 DEF RecordEpoch, ledgerVars, LedgerTypeOK
    <3>4. CASE Materialize(r) \/ ValidateCell(r)
      BY <2>0, <3>2, <3>4
         DEF Materialize, ValidateCell, Advance, SetState, SetAttempt, LedgerTypeOK
    <3>5. CASE CommitCell(r)
      BY <2>0, <3>2, <3>5 DEF CommitCell, Commit, SetState, SetAttempt, LedgerTypeOK
    <3>6. CASE FailCell(r)
      BY <2>0, <3>2, <3>6 DEF FailCell, Fail, SetAttempt, LedgerTypeOK
    <3>7. QED
      BY <2>4, <3>3, <3>4, <3>5, <3>6
  <2>5. ASSUME NEW r \in Runners,
               \/ NextOrSkip(r) \/ PlanDone(r) \/ GraphEnds(r) \/ StoreOutput(r) \/ ReadState(r)
               \/ ReadOutput(r) \/ Freeze(r) \/ Write(r) \/ RunEnds(r) \/ ServeCall(r) \/ StopRun(r) \/ Crash(r)
        PROVE  UNCHANGED <<item, attempts, epoch>>
    BY <2>5
       DEF NextOrSkip, PlanDone, GraphEnds, StoreOutput, ReadState, ReadOutput, Freeze, Write, RunEnds,
           ServeCall, StopRun, Crash, ledgerVars
  <2>6. EngineRestart \/ LoseBlob => UNCHANGED <<item, attempts, epoch>>
    BY DEF EngineRestart, LoseBlob, ledgerVars
  <2>7. QED
    BY <2>1, <2>2, <2>3, <2>4, <2>5, <2>6 DEF Next, Step
<1>2. QED
  BY <1>1, CellsInvariant, PTL DEF Spec, OutcomesAreFinal
=============================================================================
