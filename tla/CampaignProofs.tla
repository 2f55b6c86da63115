--------------------------- MODULE CampaignProofs ---------------------------
(***************************************************************************)
(* Proofs about the campaign: its commands, the lanes that run it with the *)
(* evaluator and the gate behind them, and the replay of its checkpoints.  *)
(*                                                                         *)
(* Campaign, for every set of commits and of commands and any number of    *)
(* freezes, edits and deaths: whatever was recorded is under an approval   *)
(* of the chain, the gates of a binding open in their order, and its GPU   *)
(* smoke is its own.  The invariant has three parts: the steward's three   *)
(* files, the rows of the phases, and what each command holds.             *)
(*                                                                         *)
(* Lanes, for every schedule of any number of arms on any number of lanes: *)
(* pairs are of one lane, a freeze in force cleared the gate, and a whole  *)
(* undisturbed reading has one true record of every cell.  Replay, for     *)
(* every store of checkpoints and every corpus: a trial is of its batch.   *)
(*                                                                         *)
(* Design, for every number of arms, tasks and second seeds: the rows of a *)
(* frozen schedule add up, and are balanced where the constructor says so. *)
(***************************************************************************)
EXTENDS Campaign, Lanes, Replay, FoldLemmas, SequenceTheorems, FiniteSetTheorems, TLAPS

\* a clean commit is of the approval chain
Approved(b) == [commit |-> b, edited |-> FALSE] \in ChainDigests

Steward == [pc : {"idle", "compute", "recheck", "link", "fill", "index", "current"},
            head : Commits \cup {None}, binding : Bindings \cup {None},
            chain : Seq(Files), body : Body \cup {None}]

\* the steward's steps before its entry is in the index
Appending == {"compute", "recheck", "link", "fill", "index"}

ApprovalInv ==
  /\ tree \in [head : Commits, edited : BOOLEAN]
  /\ links \in [Files -> Body \cup {Torn, None}]
  /\ index \in Seq(Files)
  /\ current \in Body \cup {None}
  /\ steward \in Steward
  /\ freezes \in 0..MaxFreezes
  /\ \A f \in Files : links[f] \notin {Torn, None} => links[f].binding = f[2]
  /\ current # None => current.binding \in ChainDigests
  /\ Len(index) <= freezes
  /\ steward.pc \in Appending => Len(index) < freezes
  /\ steward.pc = "compute" => steward.head \in Commits
  /\ steward.pc \in Appending \ {"compute"} => steward.binding \in Bindings
  /\ steward.pc \in {"link", "fill", "index"} =>
       /\ steward.chain = index
       /\ steward.body \in Body /\ steward.body.binding = steward.binding
  /\ steward.pc = "current" => steward.body \in Body /\ steward.body.binding \in ChainDigests

-----------------------------------------------------------------------------
\* what the commands may have left to record
Smoke == <<"GPU_SMOKE_PASSED">>
Todos == {<<>>, <<"DOCTOR_PASSED">>,
          <<"ACQUISITION_COMPLETE", "SNAPSHOTS_FROZEN", "P0_PARITY_PASSED">>,
          <<"SNAPSHOTS_FROZEN", "P0_PARITY_PASSED">>, <<"P0_PARITY_PASSED">>, Smoke}

Holder == [pc : {"idle", "verify", "begin", "legal", "upsert", "end", "write", "run"},
           todo : Todos, owner : Commits \cup {None}, detail : Commits \cup {None},
           receipt : Commits \cup {None}]

Recording == {"begin", "legal", "upsert", "end", "write"}

\* the gate before p has opened under b
Preceded(b, p) == \A i \in 3..Len(P!Spine) : P!Spine[i] = p => <<b, P!Spine[i - 1]>> \in opened

\* what a command may hold at its next step
Sound(x) ==
  /\ x.pc \in Recording \cup {"verify"} => x.todo # <<>>
  /\ x.pc \in Recording \cup {"run"} => x.owner \in Commits /\ Approved(x.owner)
  /\ x.todo = Smoke =>
       /\ x.detail = x.owner /\ x.pc # "verify"
       /\ x.pc \in Recording => x.owner \in work
  /\ x.pc \in {"upsert", "end", "write"} => Preceded(x.owner, Head(x.todo))

RowsInv ==
  /\ row \in [Commits -> [P!Gates -> P!Row]]
  /\ opened \subseteq Commits \X P!Gates
  /\ work \subseteq Commits
  /\ parity \in Commits \cup {None}
  /\ \A b \in work : Approved(b)
  /\ \A b \in Commits : \A p \in P!Gates :
       /\ row[b][p] # P!NoRow => Approved(b)
       /\ row[b][p].state = "COMPLETE" => <<b, p>> \in opened
  /\ SmokeIsOfItsBinding
  /\ GatesOpenInOrder

ProcsInv ==
  /\ proc \in [Procs -> Holder]
  /\ \A c \in Procs : Sound(proc[c])

CampaignInv == ApprovalInv /\ RowsInv /\ ProcsInv

-----------------------------------------------------------------------------
\* appending an entry to the index: the chain only grows
LEMMA ChainGrows ==
  ASSUME index \in Seq(Files), NEW f \in Files, index' = Append(index, f)
  PROVE  /\ index' \in Seq(Files) /\ Len(index') = Len(index) + 1
         /\ f[2] \in ChainDigests'
         /\ \A d \in ChainDigests : d \in ChainDigests'
<1>1. index' \in Seq(Files) /\ Len(index') = Len(index) + 1 /\ Len(index) \in Nat
  BY AppendProperties, LenProperties
<1>2. index'[Len(index')] = f /\ \A i \in 1..Len(index) : index'[i] = index[i]
  BY <1>1, AppendProperties
<1>3. f[2] \in ChainDigests'
  BY <1>1, <1>2 DEF ChainDigests
<1>4. ASSUME NEW d \in ChainDigests PROVE d \in ChainDigests'
  <2>1. PICK i \in 1..Len(index) : d = index[i][2]
    BY DEF ChainDigests
  <2>2. i \in 1..Len(index') /\ index'[i] = index[i]
    BY <1>1, <1>2
  <2>3. QED BY <2>1, <2>2 DEF ChainDigests
<1>5. QED BY <1>1, <1>3, <1>4

\* the steward goes on to another step with all that it holds, or stops
LEMMA StewardGoes ==
  ASSUME steward \in Steward, NEW pc \in {"fill", "index", "current", "idle"}, GoTo(pc)
  PROVE  /\ steward' \in Steward /\ steward'.pc = pc
         /\ pc # "idle" => /\ steward'.head = steward.head /\ steward'.binding = steward.binding
                           /\ steward'.chain = steward.chain /\ steward'.body = steward.body
<1>1. CASE pc = "idle"
  BY <1>1 DEF GoTo, NoFreeze, Steward
<1>2. CASE pc # "idle"
  BY <1>2 DEF GoTo, Steward
<1>3. QED BY <1>1, <1>2

LEMMA StewardStopping ==
  ASSUME StewardStops
  PROVE  steward' \in Steward /\ steward'.pc = "idle"
BY DEF StewardStops, NoFreeze, Steward

\* a steward that is idle keeps the invariant if the files are kept
LEMMA IdleSteward ==
  ASSUME ApprovalInv, steward' \in Steward, steward'.pc = "idle",
         UNCHANGED <<tree, links, index, current, freezes>>
  PROVE  ApprovalInv'
BY DEF ApprovalInv, Appending, ChainDigests

\* the file a steward that is appending writes
LEMMA LinkIsAFile ==
  ASSUME ApprovalInv, steward.pc \in {"link", "fill", "index"}
  PROVE  /\ LinkOf(steward.chain, steward.binding) \in Files
         /\ LinkOf(steward.chain, steward.binding)[2] = steward.binding
<1>1. /\ Len(index) \in Nat /\ freezes \in 0..MaxFreezes /\ Len(index) < freezes
      /\ steward.chain = index /\ steward.binding \in Bindings
  BY LenProperties DEF ApprovalInv, Appending
<1>2. Len(steward.chain) + 1 \in 1..MaxFreezes
  BY <1>1, ApprovalAssumption
<1>3. QED BY <1>1, <1>2 DEF LinkOf, Files

ChainKept == \A d \in ChainDigests : d \in ChainDigests'

\* each step of the steward and of the operator
LEMMA FreezeStarts ==
  ASSUME ApprovalInv, StartFreeze
  PROVE  ApprovalInv' /\ ChainKept
<1>1. /\ freezes' = freezes + 1 /\ freezes' \in 0..MaxFreezes
      /\ UNCHANGED <<tree, links, index, current>>
      /\ Len(index) \in Nat /\ freezes \in Nat
  BY ApprovalAssumption, LenProperties DEF StartFreeze, ApprovalInv
<1>2. /\ steward' \in Steward /\ steward'.pc \in {"idle", "compute"}
      /\ steward'.pc = "compute" => steward'.head \in Commits
  <2>1. CASE CleanTree
    <3>1. tree.head \in Commits
      BY DEF ApprovalInv
    <3>2. steward' = [pc |-> "compute", head |-> tree.head, binding |-> None, chain |-> <<>>,
                      body |-> None]
      BY <2>1 DEF StartFreeze, NoFreeze
    <3>3. QED BY <3>1, <3>2 DEF Steward
  <2>2. CASE ~CleanTree
    BY <2>2 DEF StartFreeze, StewardAt, ApprovalInv
  <2>3. QED BY <2>1, <2>2
<1>3. ChainKept
  BY <1>1 DEF ChainKept, ChainDigests
<1>4. Len(index') <= freezes' /\ Len(index') < freezes'
  BY <1>1 DEF ApprovalInv
<1>5. QED BY <1>1, <1>2, <1>3, <1>4 DEF ApprovalInv, Appending, ChainDigests

LEMMA BindingComputed ==
  ASSUME ApprovalInv, ComputeBinding
  PROVE  ApprovalInv' /\ ChainKept
<1>1. UNCHANGED <<tree, links, index, current, freezes>>
  BY DEF ComputeBinding
<1> DEFINE b == [commit |-> steward.head, edited |-> tree.edited]
<1>2. b \in Bindings
  BY DEF ApprovalInv, ComputeBinding, StewardAt, Bindings
<1>3. steward' = [steward EXCEPT !.pc = "recheck", !.binding = b]
  BY DEF ComputeBinding
<1>4. steward \in Steward /\ steward.pc = "compute"
  BY DEF ApprovalInv, ComputeBinding, StewardAt
<1> HIDE DEF b
<1>5. steward' \in Steward /\ steward'.pc = "recheck" /\ steward'.binding = b
  BY <1>2, <1>3, <1>4 DEF Steward
<1>6. ChainKept
  BY <1>1 DEF ChainKept, ChainDigests
<1>7. QED BY <1>1, <1>2, <1>4, <1>5, <1>6 DEF ApprovalInv, Appending, ChainDigests

LEMMA BindingRechecked ==
  ASSUME ApprovalInv, Recheck
  PROVE  ApprovalInv' /\ ChainKept
<1>1. UNCHANGED <<tree, links, index, current, freezes>>
  BY DEF Recheck
<1>2. /\ steward \in Steward /\ steward.pc = "recheck" /\ steward.binding \in Bindings
      /\ Len(index) \in Nat /\ Len(index) < freezes /\ freezes \in 1..MaxFreezes
      /\ index \in Seq(Files)
  BY LenProperties DEF ApprovalInv, Recheck, StewardAt, Appending
<1>3. ChainKept
  BY <1>1 DEF ChainKept, ChainDigests
<1> DEFINE latest == IF index = <<>> THEN None ELSE links[index[Len(index)]]
           mine == [binding |-> steward.binding, at |-> freezes]
<1>4. \/ StewardStops
      \/ ~LastApproved(index) /\
         steward' = [steward EXCEPT !.pc = "link", !.chain = index, !.body = mine]
      \/ LastApproved(index) /\ latest \notin {Torn, None} /\
         steward' = [steward EXCEPT !.pc = "current", !.chain = index, !.body = latest]
  BY DEF Recheck
<1>5. CASE StewardStops
  BY <1>1, <1>3, <1>5, StewardStopping, IdleSteward
<1>6. CASE ~LastApproved(index) /\
           steward' = [steward EXCEPT !.pc = "link", !.chain = index, !.body = mine]
  <2>1. mine \in Body /\ mine.binding = steward.binding
    BY <1>2 DEF Body
  <2> HIDE DEF mine
  <2>2. /\ steward' \in Steward /\ steward'.pc = "link" /\ steward'.binding = steward.binding
        /\ steward'.chain = index /\ steward'.body = mine
    BY <1>2, <1>6, <2>1 DEF Steward
  <2>3. QED BY <1>1, <1>2, <1>3, <2>1, <2>2 DEF ApprovalInv, Appending, ChainDigests
<1>7. CASE LastApproved(index) /\ latest \notin {Torn, None} /\
           steward' = [steward EXCEPT !.pc = "current", !.chain = index, !.body = latest]
  <2>1. index # <<>> /\ index[Len(index)][2] = steward.binding
    BY <1>7 DEF LastApproved
  <2>2. Len(index) \in 1..Len(index)
    BY <1>2, <2>1, EmptySeq
  <2>3. index[Len(index)] \in Files
    BY <1>2, <2>2, ElementOfSeq
  <2>4. latest = links[index[Len(index)]] /\ latest \in Body /\ latest.binding = steward.binding
    BY <1>7, <2>1, <2>3 DEF ApprovalInv
  <2>5. steward.binding \in ChainDigests
    BY <2>1, <2>2 DEF ChainDigests
  <2> HIDE DEF latest
  <2>6. steward' \in Steward /\ steward'.pc = "current" /\ steward'.body = latest
    BY <1>2, <1>7, <2>4 DEF Steward
  <2>7. QED BY <1>1, <1>2, <1>3, <2>4, <2>5, <2>6 DEF ApprovalInv, Appending, ChainDigests
<1>8. QED BY <1>4, <1>5, <1>6, <1>7

LEMMA LinkPut ==
  ASSUME ApprovalInv, PutLink
  PROVE  ApprovalInv' /\ ChainKept
<1>1. UNCHANGED <<tree, index, current, freezes>>
  BY DEF PutLink
<1>2. steward \in Steward /\ steward.pc = "link"
  BY DEF ApprovalInv, PutLink, StewardAt
<1>3. ChainKept
  BY <1>1 DEF ChainKept, ChainDigests
<1> DEFINE f == LinkOf(steward.chain, steward.binding)
<1>4. f \in Files
  BY <1>2, LinkIsAFile
<1>5. \/ links' = [links EXCEPT ![f] = Torn] /\ GoTo("fill")
      \/ GoTo("index") /\ UNCHANGED links
      \/ StewardStops /\ UNCHANGED links
  BY DEF PutLink, WriteOrder
<1> HIDE DEF f
<1>6. CASE links' = [links EXCEPT ![f] = Torn] /\ GoTo("fill")
  <2>1. /\ links' \in [Files -> Body \cup {Torn, None}]
        /\ \A g \in Files : links'[g] \notin {Torn, None} => links'[g].binding = g[2]
    BY <1>4, <1>6 DEF ApprovalInv
  <2>2. /\ steward' \in Steward /\ steward'.pc = "fill" /\ steward'.binding = steward.binding
        /\ steward'.chain = steward.chain /\ steward'.body = steward.body
    BY <1>2, <1>6, StewardGoes
  <2>3. QED BY <1>1, <1>2, <1>3, <2>1, <2>2 DEF ApprovalInv, Appending, ChainDigests
<1>7. CASE GoTo("index") /\ UNCHANGED links
  <2>1. /\ steward' \in Steward /\ steward'.pc = "index" /\ steward'.binding = steward.binding
        /\ steward'.chain = steward.chain /\ steward'.body = steward.body
    BY <1>2, <1>7, StewardGoes
  <2>2. QED BY <1>1, <1>2, <1>3, <1>7, <2>1 DEF ApprovalInv, Appending, ChainDigests
<1>8. CASE StewardStops /\ UNCHANGED links
  BY <1>1, <1>3, <1>8, StewardStopping, IdleSteward
<1>9. QED BY <1>5, <1>6, <1>7, <1>8

LEMMA LinkFilled ==
  ASSUME ApprovalInv, FillLink
  PROVE  ApprovalInv' /\ ChainKept
<1>1. UNCHANGED <<tree, index, current, freezes>>
  BY DEF FillLink
<1>2. steward \in Steward /\ steward.pc = "fill"
  BY DEF ApprovalInv, FillLink, StewardAt
<1>3. ChainKept
  BY <1>1 DEF ChainKept, ChainDigests
<1> DEFINE f == LinkOf(steward.chain, steward.binding)
<1>4. f \in Files /\ f[2] = steward.binding
  BY <1>2, LinkIsAFile
<1>5. links' = [links EXCEPT ![f] = steward.body] /\ GoTo("index")
  BY DEF FillLink, WriteOrder
<1>6. steward.body \in Body /\ steward.body.binding = steward.binding
  BY <1>2 DEF ApprovalInv
<1> HIDE DEF f
<1>7. /\ links' \in [Files -> Body \cup {Torn, None}]
      /\ \A g \in Files : links'[g] \notin {Torn, None} => links'[g].binding = g[2]
  BY <1>4, <1>5, <1>6 DEF ApprovalInv
<1>8. /\ steward' \in Steward /\ steward'.pc = "index" /\ steward'.binding = steward.binding
      /\ steward'.chain = steward.chain /\ steward'.body = steward.body
  BY <1>2, <1>5, StewardGoes
<1>9. QED BY <1>1, <1>2, <1>3, <1>7, <1>8 DEF ApprovalInv, Appending, ChainDigests

LEMMA IndexPut ==
  ASSUME ApprovalInv, PutIndex
  PROVE  ApprovalInv' /\ ChainKept
<1>1. UNCHANGED <<tree, links, current, freezes>>
  BY DEF PutIndex
<1>2. /\ steward \in Steward /\ steward.pc = "index" /\ steward.chain = index
      /\ steward.body \in Body /\ steward.body.binding = steward.binding
      /\ Len(index) \in Nat /\ Len(index) < freezes /\ freezes \in Nat /\ index \in Seq(Files)
  BY ApprovalAssumption, LenProperties DEF ApprovalInv, PutIndex, StewardAt, Appending
<1> DEFINE f == LinkOf(steward.chain, steward.binding)
<1>3. f \in Files /\ f[2] = steward.binding
  BY <1>2, LinkIsAFile
<1>4. index' = Append(index, f) /\ GoTo("current")
  BY <1>2 DEF PutIndex, WriteOrder
<1> HIDE DEF f
<1>5. /\ index' \in Seq(Files) /\ Len(index') = Len(index) + 1
      /\ steward.binding \in ChainDigests' /\ ChainKept
  BY <1>2, <1>3, <1>4, ChainGrows DEF ChainKept
<1>6. Len(index') <= freezes'
  BY <1>1, <1>2, <1>5
<1>7. steward' \in Steward /\ steward'.pc = "current" /\ steward'.body = steward.body
  BY <1>2, <1>4, StewardGoes
<1>8. current' # None => current'.binding \in ChainDigests'
  BY <1>1, <1>5 DEF ApprovalInv, ChainKept
<1> QED BY <1>1, <1>2, <1>5, <1>6, <1>7, <1>8 DEF ApprovalInv, Appending

LEMMA CurrentPut ==
  ASSUME ApprovalInv, PutCurrent
  PROVE  ApprovalInv' /\ ChainKept
<1>1. UNCHANGED <<tree, links, index, freezes>> /\ current' = steward.body
  BY DEF PutCurrent
<1>2. /\ steward \in Steward /\ steward.pc = "current"
      /\ steward.body \in Body /\ steward.body.binding \in ChainDigests
  BY DEF ApprovalInv, PutCurrent, StewardAt
<1>3. GoTo("idle")
  BY DEF PutCurrent, WriteOrder
<1>4. steward' \in Steward /\ steward'.pc = "idle"
  BY <1>2, <1>3, StewardGoes
<1>5. ChainKept
  BY <1>1 DEF ChainKept, ChainDigests
<1>6. QED BY <1>1, <1>2, <1>4, <1>5 DEF ApprovalInv, Appending, ChainDigests

LEMMA StewardDead ==
  ASSUME ApprovalInv, StewardDies
  PROVE  ApprovalInv' /\ ChainKept
<1>1. UNCHANGED <<tree, links, index, current, freezes>> /\ StewardStops
  BY DEF StewardDies
<1>2. ChainKept
  BY <1>1 DEF ChainKept, ChainDigests
<1>3. QED BY <1>1, <1>2, StewardStopping, IdleSteward

LEMMA TreeMoves ==
  ASSUME ApprovalInv, EditTree \/ MoveHead
  PROVE  ApprovalInv' /\ ChainKept
<1>1. UNCHANGED <<links, index, current, steward, freezes>>
  BY DEF EditTree, MoveHead
<1>2. tree' \in [head : Commits, edited : BOOLEAN]
  <2>1. tree \in [head : Commits, edited : BOOLEAN]
    BY DEF ApprovalInv
  <2>2. CASE EditTree
    BY <2>1, <2>2 DEF EditTree
  <2>3. CASE MoveHead
    BY <2>3 DEF MoveHead
  <2>4. QED BY <2>2, <2>3
<1>3. ChainKept
  BY <1>1 DEF ChainKept, ChainDigests
<1>4. QED BY <1>1, <1>2, <1>3 DEF ApprovalInv, Appending, ChainDigests

LEMMA ApprovalStep ==
  ASSUME ApprovalInv, ApprovalNext
  PROVE  ApprovalInv' /\ ChainKept
BY FreezeStarts, BindingComputed, BindingRechecked, LinkPut, LinkFilled, IndexPut, CurrentPut,
   StewardDead, TreeMoves DEF ApprovalNext

-----------------------------------------------------------------------------
\* what a verification says of a commit
LEMMA VerifiedIsApproved ==
  ASSUME ApprovalInv, NEW b \in Commits, VerifiedCommit(b)
  PROVE  Approved(b) /\ b = tree.head
BY DEF ApprovalInv, VerifiedCommit, Verified, LiveBinding, ApprovalBinds, Binding, Approved

LEMMA SpineValues ==
  /\ Len(P!Spine) = 14
  /\ P!Spine[1] = "NEW" /\ P!Spine[2] = "DOCTOR_PASSED" /\ P!Spine[3] = "ACQUISITION_COMPLETE"
  /\ P!Spine[4] = "SNAPSHOTS_FROZEN" /\ P!Spine[5] = "P0_PARITY_PASSED"
  /\ P!Spine[6] = "GPU_SMOKE_PASSED" /\ P!Spine[7] = "SCREEN_RUNNING"
  /\ P!Spine[8] = "SCREEN_COMPLETE" /\ P!Spine[9] = "MINI_ITT_RUNNING"
  /\ P!Spine[10] = "MINI_ITT_COMPLETE" /\ P!Spine[11] = "POLICY_FROZEN"
  /\ P!Spine[12] = "HOLDOUT_RUNNING" /\ P!Spine[13] = "HOLDOUT_COMPLETE"
  /\ P!Spine[14] = "REPORT_COMPLETE"
BY DEF P!Spine

LEMMA GatesAre ==
  P!Gates = {"DOCTOR_PASSED", "ACQUISITION_COMPLETE", "SNAPSHOTS_FROZEN", "P0_PARITY_PASSED",
             "GPU_SMOKE_PASSED"}
<1>1. \A i : i \in 2..6 <=> i \in {2, 3, 4, 5, 6}
  OBVIOUS
<1>2. QED BY <1>1, SpineValues DEF P!Gates

\* the gates are where they stand on the spine, and once
LEMMA GateIndex ==
  ASSUME NEW i \in 1..14, P!Spine[i] \in P!Gates
  PROVE  i \in 2..6 /\ \A j \in 1..14 : P!Spine[j] = P!Spine[i] => j = i
<1>1. \A k : k \in 1..14 <=> k \in {1, 2, 3, 4, 5, 6, 7, 8, 9, 10, 11, 12, 13, 14}
  OBVIOUS
<1>2. i \in 2..6
  BY <1>1, SpineValues, GatesAre
<1>3. ASSUME NEW j \in 1..14, P!Spine[j] = P!Spine[i] PROVE j = i
  <2>1. j \in 2..6
    BY <1>1, <1>3, SpineValues, GatesAre
  <2>2. QED BY <1>2, <1>3, <2>1, SpineValues
<1>4. QED BY <1>2, <1>3

\* a gate that is next after the one at k has that one before it
LEMMA PrecededAt ==
  ASSUME NEW b, NEW k \in 2..6, k >= 3 => <<b, P!Spine[k - 1]>> \in opened
  PROVE  Preceded(b, P!Spine[k])
<1>1. P!Spine[k] \in P!Gates
  BY DEF P!Gates
<1>2. SUFFICES ASSUME NEW i \in 3..Len(P!Spine), P!Spine[i] = P!Spine[k]
               PROVE  <<b, P!Spine[i - 1]>> \in opened
  BY DEF Preceded
<1>3. i = k
  BY <1>1, <1>2, SpineValues, GateIndex
<1>4. QED BY <1>3

\* a gate that has opened has the one before it open
LEMMA OpenedIsPreceded ==
  ASSUME RowsInv, NEW b \in Commits, NEW p \in P!Gates, <<b, p>> \in opened
  PROVE  Preceded(b, p)
<1>1. PICK k \in 2..6 : p = P!Spine[k]
  BY DEF P!Gates
<1>2. k >= 3 => <<b, P!Spine[k - 1]>> \in opened
  <2>1. \A i \in 3..14 : <<b, P!Spine[i]>> \in opened => <<b, P!Spine[i - 1]>> \in opened
    BY SpineValues DEF RowsInv, GatesOpenInOrder, P!GatesOpenInOrder
  <2>2. k >= 3 => k \in 3..14
    OBVIOUS
  <2>3. QED BY <1>1, <2>1, <2>2
<1>3. QED BY <1>1, <1>2, PrecededAt

\* the furthest complete phase is at an index of its own
LEMMA CurrentIs ==
  ASSUME RowsInv, NEW b \in Commits
  PROVE  \E k \in 1..6 : /\ P!Current(b) = P!Spine[k]
                         /\ k > 1 => <<b, P!Spine[k]>> \in opened
<1> DEFINE D == P!Done(b)
           Top(i) == i \in D /\ \A j \in D : j <= i
<1>1. D \subseteq 1..6 /\ 1 \in D
  BY SpineValues, GateIndex DEF P!Done, P!IsComplete
<1>2. \E i : Top(i)
  <2>1. \A j \in D : j \in {1, 2, 3, 4, 5, 6}
    BY <1>1
  <2>2. CASE 6 \in D
    BY <2>1, <2>2
  <2>3. CASE 6 \notin D /\ 5 \in D
    BY <2>1, <2>3
  <2>4. CASE 6 \notin D /\ 5 \notin D /\ 4 \in D
    BY <2>1, <2>4
  <2>5. CASE 6 \notin D /\ 5 \notin D /\ 4 \notin D /\ 3 \in D
    BY <2>1, <2>5
  <2>6. CASE 6 \notin D /\ 5 \notin D /\ 4 \notin D /\ 3 \notin D /\ 2 \in D
    BY <2>1, <2>6
  <2>7. CASE 6 \notin D /\ 5 \notin D /\ 4 \notin D /\ 3 \notin D /\ 2 \notin D
    BY <1>1, <2>1, <2>7
  <2>8. QED BY <2>2, <2>3, <2>4, <2>5, <2>6, <2>7
<1>3. PICK k : k = CHOOSE i \in D : \A j \in D : j <= i
  OBVIOUS
<1>4. k \in D
  BY <1>2, <1>3
<1>5. P!Current(b) = P!Spine[k]
  BY <1>3 DEF P!Current
<1>6. k > 1 => <<b, P!Spine[k]>> \in opened
  BY <1>4 DEF P!Done, P!IsComplete, RowsInv
<1>7. QED BY <1>1, <1>4, <1>5, <1>6

\* the gate a command may begin has the one before it open
LEMMA EdgeIsPreceded ==
  ASSUME RowsInv, NEW b \in Commits, NEW p \in P!Gates, P!CanBegin(b, p)
  PROVE  Preceded(b, p)
<1>1. PICK k \in 1..6 : P!Current(b) = P!Spine[k] /\ (k > 1 => <<b, P!Spine[k]>> \in opened)
  BY CurrentIs
<1>2. CASE p = P!Current(b)
  <2>1. k # 1
    BY <1>1, <1>2, SpineValues, GatesAre
  <2>2. QED BY <1>1, <1>2, <2>1, OpenedIsPreceded
<1>3. CASE p # P!Current(b)
  <2>1. <<P!Spine[k], p>> \in P!Legal \/ p \in P!AnytimeFailures
    BY <1>1, <1>3 DEF P!CanBegin, P!NextPhases
  <2>2. p \notin P!AnytimeFailures
    BY GatesAre DEF P!AnytimeFailures
  <2>3. PICK i \in 1..Len(P!Spine) - 1 : <<P!Spine[k], p>> = <<P!Spine[i], P!Spine[i + 1]>>
    BY <2>1, <2>2, GatesAre DEF P!Legal
  <2>4. i + 1 \in 1..14 /\ i \in 1..13 /\ p = P!Spine[i + 1] /\ P!Spine[k] = P!Spine[i]
    BY <2>3, SpineValues
  <2>5. i + 1 \in 2..6
    BY <2>4, GateIndex
  <2>6. i >= 2 => <<b, P!Spine[i]>> \in opened
    <3>1. CASE i = 1
      BY <3>1
    <3>2. CASE i >= 2
      <4>1. P!Spine[i] \in P!Gates
        BY <2>4, <2>5, <3>2 DEF P!Gates
      <4>2. k = i
        <5>1. i \in 1..14 /\ k \in 1..14
          BY <2>4
        <5>2. QED BY <2>4, <4>1, <5>1, GateIndex
      <4>3. QED BY <1>1, <4>2, <3>2
    <3>3. QED BY <2>4, <3>1, <3>2
  <2>7. PICK m \in 2..6 : m = i + 1
    BY <2>5
  <2>8. m - 1 = i /\ (m >= 3 => i >= 2)
    BY <2>4, <2>7
  <2>9. QED BY <2>4, <2>6, <2>7, <2>8, PrecededAt
<1>4. QED BY <1>2, <1>3

-----------------------------------------------------------------------------
\* what is left to record, and what is left when its first is recorded
LEMMA TodoFacts ==
  ASSUME NEW td \in Todos, td # <<>>
  PROVE  /\ Head(td) \in P!Gates /\ Tail(td) \in Todos
         /\ Len(td) # 1 => Tail(td) # <<>> /\ td # Smoke
         /\ Tail(td) # Smoke
         /\ Head(td) = "GPU_SMOKE_PASSED" => td = Smoke
<1>1. CASE td \in {<<"DOCTOR_PASSED">>, <<"P0_PARITY_PASSED">>, Smoke}
  <2>1. Head(td) \in P!Gates
    BY <1>1, GatesAre DEF Smoke
  <2>2. Tail(td) = <<>> /\ Len(td) = 1
    <3>1. PICK e : td = <<e>>
      BY <1>1 DEF Smoke
    <3>2. QED BY <3>1
  <2>3. Head(td) = "GPU_SMOKE_PASSED" => td = Smoke
    BY <1>1 DEF Smoke
  <2>4. QED BY <2>1, <2>2, <2>3 DEF Todos, Smoke
<1>2. CASE td = <<"ACQUISITION_COMPLETE", "SNAPSHOTS_FROZEN", "P0_PARITY_PASSED">>
  <2>1. Head(td) \in P!Gates /\ Head(td) # "GPU_SMOKE_PASSED"
    BY <1>2, GatesAre
  <2>2. Tail(td) = <<"SNAPSHOTS_FROZEN", "P0_PARITY_PASSED">>
    BY <1>2
  <2>3. Tail(td) # Smoke /\ Tail(td) # <<>> /\ td # Smoke
    BY <1>2, <2>2 DEF Smoke
  <2>4. QED BY <2>1, <2>2, <2>3 DEF Todos
<1>3. CASE td = <<"SNAPSHOTS_FROZEN", "P0_PARITY_PASSED">>
  <2>1. Head(td) \in P!Gates /\ Head(td) # "GPU_SMOKE_PASSED"
    BY <1>3, GatesAre
  <2>2. Tail(td) = <<"P0_PARITY_PASSED">>
    BY <1>3
  <2>3. Tail(td) # Smoke /\ Tail(td) # <<>> /\ td # Smoke
    BY <1>3, <2>2 DEF Smoke
  <2>4. QED BY <2>1, <2>2, <2>3 DEF Todos
<1>4. QED BY <1>1, <1>2, <1>3 DEF Todos

\* a command that goes to another step with what it holds, one that
\* stops, and one that goes on to its next phase
LEMMA CommandGoes ==
  ASSUME ProcsInv, NEW c \in Procs, NEW pc \in {"legal", "upsert", "end", "write", "begin"},
         P!Goto(c, pc)
  PROVE  \E x \in Holder :
           /\ proc' = [proc EXCEPT ![c] = x] /\ x.pc = pc /\ x.todo = proc[c].todo
           /\ x.owner = proc[c].owner /\ x.detail = proc[c].detail
<1> DEFINE x == [proc[c] EXCEPT !.pc = pc]
<1>1. proc[c] \in Holder
  BY DEF ProcsInv
<1>2. /\ x \in Holder /\ x.pc = pc /\ x.todo = proc[c].todo
      /\ x.owner = proc[c].owner /\ x.detail = proc[c].detail
  BY <1>1 DEF Holder
<1>3. proc' = [proc EXCEPT ![c] = x]
  BY DEF P!Goto
<1>4. QED BY <1>2, <1>3

LEMMA IdleIsSound ==
  ASSUME NEW x, x = P!Idle
  PROVE  x \in Holder /\ x.pc = "idle" /\ x.todo = <<>>
BY DEF P!Idle, Holder, Todos

\* one command takes a sound step and what was recorded stays
LEMMA OthersStaySound ==
  ASSUME ProcsInv, NEW c \in Procs, NEW x \in Holder, proc' = [proc EXCEPT ![c] = x],
         Sound(x)', ChainKept, opened \subseteq opened', work \subseteq work'
  PROVE  ProcsInv'
<1>1. proc' \in [Procs -> Holder]
  BY DEF ProcsInv
<1>2. ASSUME NEW d \in Procs, NEW y, y = proc'[d] PROVE Sound(y)'
  <2>1. CASE d = c
    BY <1>2, <2>1 DEF ProcsInv
  <2>2. CASE d # c
    <3>1. y = proc[d] /\ Sound(proc[d])
      BY <1>2, <2>2 DEF ProcsInv
    <3>2. Sound(y)
      BY <3>1
    <3>3. QED BY <3>2 DEF Sound, Preceded, Approved, ChainKept
  <2>3. QED BY <2>1, <2>2
<1>3. QED BY <1>1, <1>2 DEF ProcsInv

-----------------------------------------------------------------------------
\* the rows, when no phase is written
LEMMA RowsKept ==
  ASSUME RowsInv, ChainKept, UNCHANGED <<row, opened>>, parity' \in Commits \cup {None},
         work \subseteq work', \A b \in work' : b \in work \/ (b \in Commits /\ Approved(b))
  PROVE  RowsInv'
<1>1. row' \in [Commits -> [P!Gates -> P!Row]] /\ opened' \subseteq Commits \X P!Gates
  BY DEF RowsInv
<1>2. work' \subseteq Commits /\ \A b \in work' : Approved(b)'
  BY DEF RowsInv, Approved, ChainKept
<1>3. \A b \in Commits : \A p \in P!Gates :
        /\ row'[b][p] # P!NoRow => Approved(b)'
        /\ row'[b][p].state = "COMPLETE" => <<b, p>> \in opened'
  BY DEF RowsInv, Approved, ChainKept
<1>4. SmokeIsOfItsBinding'
  BY DEF RowsInv, SmokeIsOfItsBinding, P!IsComplete
<1>5. GatesOpenInOrder'
  BY DEF RowsInv, GatesOpenInOrder, P!GatesOpenInOrder
<1>6. QED BY <1>1, <1>2, <1>3, <1>4, <1>5 DEF RowsInv

\* one command takes a sound step that records nothing
LEMMA QuietMove ==
  ASSUME RowsInv, ProcsInv, ChainKept, UNCHANGED <<row, opened, parity, work>>,
         NEW c \in Procs, NEW x \in Holder, proc' = [proc EXCEPT ![c] = x], Sound(x)'
  PROVE  RowsInv' /\ ProcsInv'
<1>1. parity' \in Commits \cup {None}
  BY DEF RowsInv
<1>2. RowsInv'
  BY <1>1, RowsKept
<1>3. ProcsInv'
  BY OthersStaySound
<1>4. QED BY <1>2, <1>3

\* a command that stops
LEMMA QuietStop ==
  ASSUME RowsInv, ProcsInv, ChainKept, UNCHANGED <<row, opened, parity, work>>,
         NEW c \in Procs, P!Finish(c)
  PROVE  RowsInv' /\ ProcsInv'
<1>1. PICK x : x = P!Idle
  OBVIOUS
<1>2. x \in Holder /\ x.pc = "idle" /\ x.todo = <<>>
  BY <1>1, IdleIsSound
<1>3. Sound(x)'
  BY <1>2 DEF Sound, Recording, Smoke
<1>4. proc' = [proc EXCEPT ![c] = x]
  BY <1>1 DEF P!Finish
<1>5. QED BY <1>2, <1>3, <1>4, QuietMove

LEMMA ApprovalKept ==
  ASSUME ApprovalInv, UNCHANGED approvalVars
  PROVE  ApprovalInv' /\ ChainKept /\ UNCHANGED ChainDigests
<1>1. UNCHANGED <<tree, links, index, current, steward, freezes>>
  BY DEF approvalVars
<1>2. ChainKept /\ UNCHANGED ChainDigests
  BY <1>1 DEF ChainKept, ChainDigests
<1>3. ApprovalInv'
  BY <1>1 DEF ApprovalInv, ChainDigests
<1>4. QED BY <1>2, <1>3

\* a command that is started
LEMMA CommandStarts ==
  ASSUME ApprovalInv, RowsInv, NEW c \in Procs, NEW pc \in {"verify", "run"}, NEW td \in Todos,
         NEW o \in Commits \cup {None}, StartCommand(c, pc, td, o)
  PROVE  \E x \in Holder : /\ proc' = [proc EXCEPT ![c] = x] /\ x.pc = pc /\ x.todo = td
                           /\ x.owner = o /\ x.detail = tree.head
<1> DEFINE x == [pc |-> pc, todo |-> td, owner |-> o, detail |-> tree.head, receipt |-> parity]
<1>1. tree.head \in Commits /\ parity \in Commits \cup {None}
  BY DEF ApprovalInv, RowsInv
<1>2. x \in Holder
  BY <1>1 DEF Holder
<1>3. proc' = [proc EXCEPT ![c] = x]
  BY DEF StartCommand
<1>4. QED BY <1>2, <1>3

LEMMA RecorderStarts ==
  ASSUME ApprovalInv, RowsInv, ProcsInv, ChainKept, NEW c \in Procs, Doctor(c) \/ Preflight(c)
  PROVE  RowsInv' /\ ProcsInv'
<1> DEFINE Three == <<"ACQUISITION_COMPLETE", "SNAPSHOTS_FROZEN", "P0_PARITY_PASSED">>
<1>1. PICK td \in {<<"DOCTOR_PASSED">>, Three} : StartCommand(c, "verify", td, None)
  BY DEF Doctor, Preflight
<1>2. td \in Todos /\ td # <<>> /\ td # Smoke
  BY DEF Todos, Smoke
<1>3. PICK x \in Holder : proc' = [proc EXCEPT ![c] = x] /\ x.pc = "verify" /\ x.todo = td
  BY <1>1, <1>2, CommandStarts
<1>4. Sound(x)'
  BY <1>2, <1>3 DEF Sound, Recording
<1>5. QED BY <1>1, <1>3, <1>4, QuietMove DEF StartCommand

LEMMA WorkerStarts ==
  ASSUME ApprovalInv, RowsInv, ProcsInv, ChainKept, NEW c \in Procs, Canary(c) \/ RunBench(c)
  PROVE  RowsInv' /\ ProcsInv'
<1>1. PICK b \in Commits, td \in {<<>>, Smoke} : VerifiedCommit(b) /\ StartCommand(c, "run", td, b)
  BY DEF Canary, RunBench, Smoke
<1>2. Approved(b) /\ b = tree.head
  BY <1>1, VerifiedIsApproved
<1>3. td \in Todos
  BY DEF Todos
<1>4. PICK x \in Holder : /\ proc' = [proc EXCEPT ![c] = x] /\ x.pc = "run" /\ x.todo = td
                          /\ x.owner = b /\ x.detail = tree.head
  BY <1>1, <1>3, CommandStarts
<1>5. Approved(b)'
  BY <1>2 DEF Approved, ChainKept
<1>6. Sound(x)'
  BY <1>2, <1>4, <1>5 DEF Sound, Recording
<1>7. QED BY <1>1, <1>4, <1>6, QuietMove DEF StartCommand

LEMMA PhaseVerified ==
  ASSUME ApprovalInv, RowsInv, ProcsInv, ChainKept, NEW c \in Procs, VerifyForPhase(c)
  PROVE  RowsInv' /\ ProcsInv'
<1>1. UNCHANGED <<row, opened, parity, work>> /\ proc[c].pc = "verify" /\ proc[c] \in Holder
      /\ Sound(proc[c])
  BY DEF VerifyForPhase, P!At, ProcsInv
<1>2. CASE P!Finish(c)
  BY <1>1, <1>2, QuietStop
<1>3. CASE \E b \in Commits : VerifiedCommit(b) /\
             proc' = [proc EXCEPT ![c].pc = "begin", ![c].owner = b]
  <2>1. PICK b \in Commits : VerifiedCommit(b) /\
               proc' = [proc EXCEPT ![c].pc = "begin", ![c].owner = b]
    BY <1>3
  <2>2. Approved(b)'
    BY <2>1, VerifiedIsApproved DEF Approved, ChainKept
  <2>3. PICK x : x = [proc[c] EXCEPT !.pc = "begin", !.owner = b]
    OBVIOUS
  <2>4. x \in Holder /\ x.pc = "begin" /\ x.owner = b /\ x.todo = proc[c].todo
    BY <1>1, <2>3 DEF Holder
  <2>5. proc' = [proc EXCEPT ![c] = x]
    BY <2>1, <2>3 DEF ProcsInv
  <2>6. x.todo # <<>> /\ x.todo # Smoke
    BY <1>1, <2>4 DEF Sound
  <2>7. Sound(x)'
    BY <2>2, <2>4, <2>6 DEF Sound, Recording
  <2>8. QED BY <1>1, <2>4, <2>5, <2>7, QuietMove
<1>4. QED BY <1>2, <1>3 DEF VerifyForPhase

LEMMA CellsRan ==
  ASSUME ApprovalInv, RowsInv, ProcsInv, ChainKept, NEW c \in Procs,
         CanaryCells(c) \/ BenchCells(c)
  PROVE  RowsInv' /\ ProcsInv'
<1>1. /\ UNCHANGED <<row, opened, parity>> /\ proc[c].pc = "run" /\ proc[c] \in Holder
      /\ Sound(proc[c]) /\ work' = work \cup {proc[c].owner}
  BY DEF CanaryCells, BenchCells, CreateRun, P!Owner, P!At, ProcsInv
<1>2. proc[c].owner \in Commits /\ Approved(proc[c].owner)
  BY <1>1 DEF Sound
<1>3. work \subseteq work' /\ \A b \in work' : b \in work \/ (b \in Commits /\ Approved(b))
  BY <1>1, <1>2
<1>4. parity' \in Commits \cup {None}
  BY <1>1 DEF RowsInv
<1>5. RowsInv'
  BY <1>1, <1>3, <1>4, RowsKept
<1>6. CASE P!Finish(c)
  <2>1. PICK x : x = P!Idle
    OBVIOUS
  <2>2. x \in Holder /\ x.pc = "idle" /\ x.todo = <<>>
    BY <2>1, IdleIsSound
  <2>3. Sound(x)'
    BY <2>2 DEF Sound, Recording, Smoke
  <2>4. proc' = [proc EXCEPT ![c] = x]
    BY <1>6, <2>1 DEF P!Finish
  <2>5. opened \subseteq opened'
    BY <1>1
  <2>6. QED BY <1>3, <1>5, <2>2, <2>3, <2>4, <2>5, OthersStaySound
<1>7. CASE proc[c].todo # <<>> /\ P!Goto(c, "begin")
  <2>1. PICK x \in Holder :
          /\ proc' = [proc EXCEPT ![c] = x] /\ x.pc = "begin" /\ x.todo = proc[c].todo
          /\ x.owner = proc[c].owner /\ x.detail = proc[c].detail
    BY <1>7, CommandGoes
  <2>2. Approved(x.owner)'
    BY <1>2, <2>1 DEF Approved, ChainKept
  <2>3. x.todo # <<>> /\ x.owner \in Commits /\ x.owner \in work'
        /\ (x.todo = Smoke => x.detail = x.owner)
    BY <1>1, <1>2, <1>7, <2>1 DEF Sound
  <2>4. Sound(x)'
    BY <2>1, <2>2, <2>3 DEF Sound, Recording
  <2>5. opened \subseteq opened'
    BY <1>1
  <2>6. QED BY <1>3, <1>5, <2>1, <2>4, <2>5, OthersStaySound
<1>8. QED BY <1>6, <1>7 DEF CanaryCells, BenchCells, AfterCells

-----------------------------------------------------------------------------
\* what a command that is recording holds
LEMMA RecordingHolds ==
  ASSUME ProcsInv, NEW c \in Procs, proc[c].pc \in Recording
  PROVE  /\ proc[c] \in Holder /\ proc[c].todo \in Todos /\ proc[c].todo # <<>>
         /\ P!Owner(c) = proc[c].owner /\ P!Phase(c) = Head(proc[c].todo)
         /\ proc[c].owner \in Commits /\ Approved(proc[c].owner)
         /\ Head(proc[c].todo) \in P!Gates
         /\ proc[c].todo = Smoke => proc[c].detail = proc[c].owner /\ proc[c].owner \in work
         /\ proc[c].pc \in {"upsert", "end", "write"} =>
              Preceded(proc[c].owner, Head(proc[c].todo))
<1>1. proc[c] \in Holder /\ Sound(proc[c])
  BY DEF ProcsInv
<1>2. proc[c].todo \in Todos
  BY <1>1 DEF Holder
<1>3. proc[c].todo # <<>>
  BY <1>1 DEF Sound
<1>4. QED BY <1>1, <1>2, <1>3, TodoFacts DEF Sound, P!Owner, P!Phase, Recording

\* going on to another statement for the same phase
LEMMA RecorderGoes ==
  ASSUME ProcsInv, NEW c \in Procs, proc[c].pc \in Recording,
         NEW pc \in {"legal", "upsert", "end", "write"}, P!Goto(c, pc), ChainKept,
         opened \subseteq opened', work \subseteq work',
         pc # "legal" => Preceded(proc[c].owner, Head(proc[c].todo))
  PROVE  ProcsInv'
<1>1. PICK x \in Holder :
        /\ proc' = [proc EXCEPT ![c] = x] /\ x.pc = pc /\ x.todo = proc[c].todo
        /\ x.owner = proc[c].owner /\ x.detail = proc[c].detail
  BY CommandGoes
<1>2. Approved(x.owner)' /\ x.owner \in Commits /\ x.todo # <<>>
  BY <1>1, RecordingHolds DEF Approved, ChainKept
<1>3. x.todo = Smoke => x.detail = x.owner /\ x.owner \in work'
  BY <1>1, RecordingHolds
<1>4. pc # "legal" => Preceded(x.owner, Head(x.todo))
  BY <1>1
<1>5. pc # "legal" => Preceded(x.owner, Head(x.todo))'
  BY <1>4 DEF Preceded
<1>6. Sound(x)'
  BY <1>1, <1>2, <1>3, <1>5 DEF Sound, Recording
<1>7. QED BY <1>1, <1>6, OthersStaySound

\* going on to the next phase, if there is one
LEMMA RecorderProceeds ==
  ASSUME ProcsInv, NEW c \in Procs, proc[c].pc \in Recording, P!Proceed(c, "verify"), ChainKept,
         opened \subseteq opened', work \subseteq work'
  PROVE  ProcsInv'
<1>1. /\ proc[c] \in Holder /\ proc[c].todo \in Todos /\ proc[c].todo # <<>>
  BY RecordingHolds
<1>2. CASE Len(proc[c].todo) = 1
  <2>1. PICK x : x = P!Idle
    OBVIOUS
  <2>2. x \in Holder /\ x.pc = "idle" /\ x.todo = <<>>
    BY <2>1, IdleIsSound
  <2>3. Sound(x)'
    BY <2>2 DEF Sound, Recording, Smoke
  <2>4. proc' = [proc EXCEPT ![c] = x]
    BY <1>2, <2>1 DEF P!Proceed, P!Finish
  <2>5. QED BY <2>2, <2>3, <2>4, OthersStaySound
<1>3. CASE Len(proc[c].todo) # 1
  <2>1. PICK td : td = Tail(proc[c].todo)
    OBVIOUS
  <2>2. td \in Todos /\ td # <<>> /\ td # Smoke
    BY <1>1, <1>3, <2>1, TodoFacts
  <2>3. PICK x : x = [proc[c] EXCEPT !.pc = "verify", !.todo = td]
    OBVIOUS
  <2>4. x \in Holder /\ x.pc = "verify" /\ x.todo = td
    BY <1>1, <2>2, <2>3 DEF Holder
  <2>5. proc' = [proc EXCEPT ![c] = x]
    <3>1. proc' = [proc EXCEPT ![c].pc = "verify", ![c].todo = Tail(proc[c].todo)]
      BY <1>3 DEF P!Proceed
    <3>2. QED BY <2>1, <2>3, <3>1 DEF ProcsInv
  <2>6. Sound(x)'
    BY <2>2, <2>4 DEF Sound, Recording
  <2>7. QED BY <2>4, <2>5, <2>6, OthersStaySound
<1>4. QED BY <1>2, <1>3

-----------------------------------------------------------------------------
\* each statement of a phase
LEMMA PhaseBegun ==
  ASSUME ApprovalInv, RowsInv, ProcsInv, ChainKept, UNCHANGED <<parity, work>>,
         NEW c \in Procs, P!Begin(c)
  PROVE  RowsInv' /\ ProcsInv'
<1>1. UNCHANGED <<row, opened>> /\ proc[c].pc \in Recording
  BY DEF P!Begin, P!At, Recording
<1>2. parity' \in Commits \cup {None}
  BY DEF RowsInv
<1>3. RowsInv'
  BY <1>1, <1>2, RowsKept
<1>4. CASE P!IsComplete(P!Owner(c), P!Phase(c))
  <2>1. <<proc[c].owner, Head(proc[c].todo)>> \in opened
    BY <1>1, <1>4, RecordingHolds DEF P!IsComplete, RowsInv
  <2>2. Preceded(proc[c].owner, Head(proc[c].todo))
    BY <1>1, <2>1, RecordingHolds, OpenedIsPreceded
  <2>3. P!Goto(c, "end")
    BY <1>4 DEF P!Begin
  <2>4. QED BY <1>1, <2>2, <2>3, RecorderGoes, <1>3
<1>5. CASE ~P!IsComplete(P!Owner(c), P!Phase(c))
  <2>1. P!Goto(c, "legal")
    BY <1>5 DEF P!Begin
  <2>2. QED BY <1>1, <2>1, RecorderGoes, <1>3
<1>6. QED BY <1>4, <1>5

LEMMA EdgeChecked ==
  ASSUME ApprovalInv, RowsInv, ProcsInv, ChainKept, UNCHANGED <<parity, work>>,
         NEW c \in Procs, P!CheckEdge(c)
  PROVE  RowsInv' /\ ProcsInv'
<1>1. UNCHANGED <<row, opened>> /\ proc[c].pc \in Recording
  BY DEF P!CheckEdge, P!At, Recording
<1>2. parity' \in Commits \cup {None}
  BY DEF RowsInv
<1>3. RowsInv'
  BY <1>1, <1>2, RowsKept
<1>4. CASE P!CanBegin(P!Owner(c), P!Phase(c))
  <2>1. Preceded(proc[c].owner, Head(proc[c].todo))
    BY <1>1, <1>4, RecordingHolds, EdgeIsPreceded
  <2>2. P!Goto(c, "upsert")
    BY <1>4 DEF P!CheckEdge
  <2>3. QED BY <1>1, <2>1, <2>2, RecorderGoes, <1>3
<1>5. CASE P!Finish(c)
  BY <1>1, <1>5, QuietStop
<1>6. QED BY <1>4, <1>5 DEF P!CheckEdge

\* a row that is written: by a command that holds an approved binding, and
\* complete only if the gate before is open and it is in the history
LEMMA RowWritten ==
  ASSUME RowsInv, ChainKept, UNCHANGED <<parity, work>>,
         NEW b \in Commits, NEW p \in P!Gates, NEW r \in P!Row, NEW f, Approved(b),
         f = [row[b] EXCEPT ![p] = r], row' = [row EXCEPT ![b] = f],
         opened \subseteq opened', opened' \subseteq opened \cup {<<b, p>>}, Preceded(b, p),
         r.state = "COMPLETE" =>
           /\ <<b, p>> \in opened'
           /\ p = "GPU_SMOKE_PASSED" => r.detail = b /\ b \in work
  PROVE  RowsInv'
<1>1. row \in [Commits -> [P!Gates -> P!Row]] /\ row[b] \in [P!Gates -> P!Row]
  BY DEF RowsInv
<1>2. f \in [P!Gates -> P!Row] /\ f[p] = r /\ \A q \in P!Gates : q # p => f[q] = row[b][q]
  BY <1>1
<1>3. row' \in [Commits -> [P!Gates -> P!Row]]
  BY <1>1, <1>2
<1>4. /\ row'[b] = f /\ \A o \in Commits : o # b => row'[o] = row[o]
  BY <1>1
<1>5. opened' \subseteq Commits \X P!Gates /\ work' \subseteq Commits
      /\ parity' \in Commits \cup {None} /\ \A o \in work' : Approved(o)'
  BY DEF RowsInv, Approved, ChainKept
<1>6. ASSUME NEW o \in Commits, NEW q \in P!Gates
      PROVE  /\ row'[o][q] # P!NoRow => Approved(o)'
             /\ row'[o][q].state = "COMPLETE" => <<o, q>> \in opened'
  <2>1. CASE o = b /\ q = p
    BY <1>2, <1>4, <2>1 DEF Approved, ChainKept
  <2>2. CASE ~(o = b /\ q = p)
    <3>1. row'[o][q] = row[o][q]
      BY <1>2, <1>4, <2>2
    <3>2. QED BY <3>1 DEF RowsInv, Approved, ChainKept
  <2>3. QED BY <2>1, <2>2
<1>7. SmokeIsOfItsBinding'
  <2>1. SUFFICES ASSUME NEW o \in Commits, "GPU_SMOKE_PASSED" \in P!Gates,
                        row'[o]["GPU_SMOKE_PASSED"].state = "COMPLETE"
                 PROVE  row'[o]["GPU_SMOKE_PASSED"].detail = o /\ o \in work'
    BY DEF SmokeIsOfItsBinding, P!IsComplete
  <2>2. CASE o = b /\ p = "GPU_SMOKE_PASSED"
    BY <1>2, <1>4, <2>1, <2>2
  <2>3. CASE ~(o = b /\ p = "GPU_SMOKE_PASSED")
    <3>1. row'[o]["GPU_SMOKE_PASSED"] = row[o]["GPU_SMOKE_PASSED"]
      BY <1>2, <1>4, <2>1, <2>3
    <3>2. QED BY <2>1, <3>1 DEF RowsInv, SmokeIsOfItsBinding, P!IsComplete
  <2>4. QED BY <2>2, <2>3
<1>8. GatesOpenInOrder'
  <2>1. SUFFICES ASSUME NEW o \in Commits, NEW i \in 3..Len(P!Spine),
                        <<o, P!Spine[i]>> \in opened'
                 PROVE  <<o, P!Spine[i - 1]>> \in opened'
    BY DEF GatesOpenInOrder, P!GatesOpenInOrder
  <2>2. CASE <<o, P!Spine[i]>> \in opened
    BY <2>2 DEF RowsInv, GatesOpenInOrder, P!GatesOpenInOrder
  <2>3. CASE o = b /\ P!Spine[i] = p
    BY <2>3 DEF Preceded
  <2>4. QED BY <2>1, <2>2, <2>3
<1>9. QED BY <1>3, <1>5, <1>6, <1>7, <1>8 DEF RowsInv

LEMMA RunningMarked ==
  ASSUME ApprovalInv, RowsInv, ProcsInv, ChainKept, UNCHANGED <<parity, work>>,
         NEW c \in Procs, P!MarkRunning(c)
  PROVE  RowsInv' /\ ProcsInv'
<1>1. UNCHANGED opened /\ proc[c].pc \in Recording /\ proc[c].pc = "upsert" /\ P!Goto(c, "end")
  BY DEF P!MarkRunning, P!At, Recording
<1>2. PICK b \in Commits, p \in P!Gates : b = proc[c].owner /\ p = Head(proc[c].todo)
  BY <1>1, RecordingHolds
<1>3. Approved(b) /\ Preceded(b, p) /\ b = P!Owner(c) /\ p = P!Phase(c)
  BY <1>1, <1>2, RecordingHolds
<1>4. row' = [row EXCEPT ![b][p].state = "RUNNING"]
  BY <1>3 DEF P!MarkRunning
<1>5. row[b] \in [P!Gates -> P!Row] /\ row[b][p] \in P!Row
  BY DEF RowsInv
<1>6. PICK r : r = [row[b][p] EXCEPT !.state = "RUNNING"]
  OBVIOUS
<1>7. r \in P!Row /\ r.state = "RUNNING"
  BY <1>5, <1>6 DEF P!Row
<1>8. PICK f : f = [row[b] EXCEPT ![p] = r]
  OBVIOUS
<1>9. row' = [row EXCEPT ![b] = f]
  BY <1>4, <1>6, <1>8
<1>10. RowsInv'
  BY <1>1, <1>3, <1>7, <1>8, <1>9, RowWritten
<1>11. ProcsInv'
  BY <1>1, <1>2, <1>3, RecorderGoes
<1>12. QED BY <1>10, <1>11

LEMMA CompleteChecked ==
  ASSUME ApprovalInv, RowsInv, ProcsInv, ChainKept, UNCHANGED <<parity, work>>,
         NEW c \in Procs, P!CheckComplete(c)
  PROVE  RowsInv' /\ ProcsInv'
<1>1. UNCHANGED <<row, opened>> /\ proc[c].pc \in Recording /\ proc[c].pc = "end"
  BY DEF P!CheckComplete, P!At, Recording
<1>2. parity' \in Commits \cup {None}
  BY DEF RowsInv
<1>3. RowsInv'
  BY <1>1, <1>2, RowsKept
<1>4. CASE P!Goto(c, "write")
  BY <1>1, <1>3, <1>4, RecordingHolds, RecorderGoes
<1>5. CASE P!Proceed(c, "verify")
  BY <1>1, <1>3, <1>5, RecorderProceeds
<1>6. CASE P!Finish(c)
  BY <1>1, <1>6, QuietStop
<1>7. QED BY <1>4, <1>5, <1>6 DEF P!CheckComplete

LEMMA CompleteWritten ==
  ASSUME ApprovalInv, RowsInv, ProcsInv, ChainKept, UNCHANGED <<parity, work>>,
         NEW c \in Procs, P!WriteComplete(c)
  PROVE  RowsInv' /\ ProcsInv'
<1>1. proc[c].pc \in Recording /\ proc[c].pc = "write" /\ P!Proceed(c, "verify")
  BY DEF P!WriteComplete, P!At, Recording
<1>2. PICK b \in Commits, p \in P!Gates : b = proc[c].owner /\ p = Head(proc[c].todo)
  BY <1>1, RecordingHolds
<1>3. Approved(b) /\ Preceded(b, p) /\ b = P!Owner(c) /\ p = P!Phase(c)
  BY <1>1, <1>2, RecordingHolds
<1>4. PICK r : r = [state |-> "COMPLETE", detail |-> P!Evidence(c)]
  OBVIOUS
<1>5. row' = [row EXCEPT ![b][p] = r] /\ opened' = opened \cup {<<b, p>>}
  BY <1>3, <1>4 DEF P!WriteComplete
<1>6. proc[c] \in Holder
  BY <1>1, RecordingHolds
<1>7. P!Evidence(c) \in Commits \cup {None}
  BY <1>6 DEF P!Evidence, Holder
<1>8. r \in P!Row /\ r.state = "COMPLETE" /\ r.detail = P!Evidence(c)
  BY <1>4, <1>7 DEF P!Row
<1>9. ASSUME p = "GPU_SMOKE_PASSED" PROVE r.detail = b /\ b \in work
  <2>1. proc[c].todo = Smoke
    BY <1>1, <1>2, <1>9, RecordingHolds, TodoFacts
  <2>2. P!Evidence(c) = proc[c].detail
    BY <1>3, <1>9 DEF P!Evidence
  <2>3. QED BY <1>1, <1>2, <1>8, <2>1, <2>2, RecordingHolds
<1>10. PICK f : f = [row[b] EXCEPT ![p] = r]
  OBVIOUS
<1>11. row' = [row EXCEPT ![b] = f]
  BY <1>5, <1>10
<1>12. opened \subseteq opened' /\ opened' \subseteq opened \cup {<<b, p>>} /\ <<b, p>> \in opened'
  BY <1>5
<1>13. RowsInv'
  BY <1>3, <1>8, <1>9, <1>10, <1>11, <1>12, RowWritten
<1>14. ProcsInv'
  BY <1>1, <1>12, RecorderProceeds
<1>15. QED BY <1>13, <1>14

LEMMA CommandDies ==
  ASSUME ApprovalInv, RowsInv, ProcsInv, ChainKept, UNCHANGED <<parity, work>>,
         NEW c \in Procs, P!Crash(c)
  PROVE  RowsInv' /\ ProcsInv'
BY QuietStop DEF P!Crash

LEMMA PhaseSteps ==
  ASSUME ApprovalInv, RowsInv, ProcsInv, ChainKept, UNCHANGED <<parity, work>>,
         NEW c \in Procs, P!PhaseStep(c)
  PROVE  RowsInv' /\ ProcsInv'
BY PhaseBegun, EdgeChecked, RunningMarked, CompleteChecked, CompleteWritten, CommandDies
   DEF P!PhaseStep

-----------------------------------------------------------------------------
\* the invariant: at first, and after every step
LEMMA CampaignStarts ==
  ASSUME Init
  PROVE  CampaignInv
<1>1. ApprovalInv
  <2>1. tree \in [head : Commits, edited : BOOLEAN]
    BY DEF Init, ApprovalInit
  <2>2. /\ links \in [Files -> Body \cup {Torn, None}]
        /\ \A f \in Files : links[f] \notin {Torn, None} => links[f].binding = f[2]
    BY DEF Init, ApprovalInit
  <2>3. index \in Seq(Files) /\ Len(index) = 0 /\ current = None
    BY DEF Init, ApprovalInit
  <2>4. steward \in Steward /\ steward.pc = "idle"
    BY DEF Init, ApprovalInit, NoFreeze, Steward
  <2>5. freezes \in 0..MaxFreezes /\ Len(index) <= freezes
    BY <2>3, ApprovalAssumption DEF Init, ApprovalInit
  <2>6. QED BY <2>1, <2>2, <2>3, <2>4, <2>5 DEF ApprovalInv, Appending
<1>2. RowsInv
  <2>1. /\ row = [b \in Commits |-> [p \in P!Gates |-> P!NoRow]]
        /\ opened = {} /\ work = {} /\ parity = None
    BY DEF Init, P!PhaseInit
  <2>2. P!NoRow \in P!Row /\ P!NoRow.state = "ABSENT"
    BY DEF P!NoRow, P!Row
  <2>3. row \in [Commits -> [P!Gates -> P!Row]]
    BY <2>1, <2>2
  <2>4. \A b \in Commits : \A p \in P!Gates : row[b][p] = P!NoRow
    BY <2>1
  <2>5. SmokeIsOfItsBinding
    BY <2>2, <2>4 DEF SmokeIsOfItsBinding, P!IsComplete
  <2>6. GatesOpenInOrder
    BY <2>1 DEF GatesOpenInOrder, P!GatesOpenInOrder
  <2>7. QED BY <2>1, <2>2, <2>3, <2>4, <2>5, <2>6 DEF RowsInv
<1>3. ProcsInv
  <2>1. proc = [c \in Procs |-> P!Idle]
    BY DEF Init, P!PhaseInit
  <2>2. PICK x : x = P!Idle
    OBVIOUS
  <2>3. x \in Holder /\ Sound(x)
    <3>1. x \in Holder /\ x.pc = "idle" /\ x.todo = <<>>
      BY <2>2, IdleIsSound
    <3>2. QED BY <3>1 DEF Sound, Recording, Smoke
  <2>4. \A c \in Procs : proc[c] = x
    BY <2>1, <2>2
  <2>5. proc \in [Procs -> Holder]
    BY <2>1, <2>2, <2>3
  <2>6. QED BY <2>3, <2>4, <2>5 DEF ProcsInv
<1>4. QED BY <1>1, <1>2, <1>3 DEF CampaignInv

\* the rows and the commands, when the steward moves and nothing else does
LEMMA StewardMoves ==
  ASSUME RowsInv, ProcsInv, ChainKept, UNCHANGED <<row, proc, opened, work>>,
         parity' \in Commits \cup {None}
  PROVE  RowsInv' /\ ProcsInv'
<1>1. RowsInv'
  BY RowsKept
<1>2. proc' \in [Procs -> Holder]
  BY DEF ProcsInv
<1>3. ASSUME NEW d \in Procs, NEW y, y = proc'[d] PROVE Sound(y)'
  <2>1. y = proc[d]
    BY <1>3
  <2>2. Sound(y)
    BY <2>1 DEF ProcsInv
  <2>3. QED BY <2>2 DEF Sound, Preceded, Approved, ChainKept
<1>4. QED BY <1>1, <1>2, <1>3 DEF ProcsInv

LEMMA CampaignStep ==
  ASSUME CampaignInv, [Next]_vars
  PROVE  CampaignInv'
<1>1. ApprovalInv /\ RowsInv /\ ProcsInv
  BY DEF CampaignInv
<1>2. CASE \E c \in Procs : Command(c) /\ UNCHANGED approvalVars
  <2>1. PICK c \in Procs : Command(c) /\ UNCHANGED approvalVars
    BY <1>2
  <2>2. ApprovalInv' /\ ChainKept
    BY <1>1, <2>1, ApprovalKept
  <2>3. RowsInv' /\ ProcsInv'
    BY <1>1, <2>1, <2>2, RecorderStarts, WorkerStarts, PhaseVerified, CellsRan, PhaseSteps
       DEF Command
  <2>4. QED BY <2>2, <2>3 DEF CampaignInv
<1>3. CASE TestP0Parity /\ UNCHANGED approvalVars
  <2>1. ApprovalInv' /\ ChainKept
    BY <1>1, <1>3, ApprovalKept
  <2>2. parity' \in Commits \cup {None}
    BY <1>1, <1>3 DEF TestP0Parity, ApprovalInv
  <2>3. QED BY <1>1, <1>3, <2>1, <2>2, StewardMoves DEF TestP0Parity, CampaignInv
<1>4. CASE ApprovalNext /\ UNCHANGED <<row, proc, opened, parity, work, starts>>
  <2>1. ApprovalInv' /\ ChainKept
    BY <1>1, <1>4, ApprovalStep
  <2>2. parity' \in Commits \cup {None}
    BY <1>1, <1>4 DEF RowsInv
  <2>3. QED BY <1>1, <1>4, <2>1, <2>2, StewardMoves DEF CampaignInv
<1>5. CASE UNCHANGED vars
  <2>1. UNCHANGED approvalVars /\ UNCHANGED <<row, proc, opened, parity, work>>
    BY <1>5 DEF vars, approvalVars
  <2>2. ApprovalInv' /\ ChainKept
    BY <1>1, <2>1, ApprovalKept
  <2>3. parity' \in Commits \cup {None}
    BY <1>1, <2>1 DEF RowsInv
  <2>4. QED BY <1>1, <2>1, <2>2, <2>3, StewardMoves DEF CampaignInv
<1>6. QED BY <1>2, <1>3, <1>4, <1>5 DEF Next

\* The campaign's invariant: the steward's link, entry and pointer name one
\* binding, which is in the chain before it is in the pointer; a command that
\* records holds a binding that was approved when it verified.
THEOREM CampaignInvariant == Spec => []CampaignInv
BY CampaignStarts, CampaignStep, PTL DEF Spec

\* Whatever a phase or a run was recorded under is in the approval chain,
\* wherever a steward died between the link, the index and the pointer
\* (protocol.py, approval_chain_digests): it can be graded for good.
THEOREM RecordedWorkIsApproved == Spec => []WorkIsApproved
<1>1. CampaignInv => WorkIsApproved
  BY DEF CampaignInv, RowsInv, WorkIsApproved, Approved
<1>2. QED BY <1>1, CampaignInvariant, PTL

\* No gate of the spine opens under a binding before the one before it has
\* (PhaseStore.begin), whatever the commands and the deaths between the
\* statements of the store.
THEOREM NoGateIsSkipped == Spec => []GatesOpenInOrder
<1>1. CampaignInv => GatesOpenInOrder
  BY DEF CampaignInv, RowsInv
<1>2. QED BY <1>1, CampaignInvariant, PTL

\* The GPU smoke a binding has passed ran under that binding, however HEAD
\* and the approval moved while the canary ran (canary.py, 92-103).
THEOREM SmokeRanUnderItsBinding == Spec => []SmokeIsOfItsBinding
<1>1. CampaignInv => SmokeIsOfItsBinding
  BY DEF CampaignInv, RowsInv
<1>2. QED BY <1>1, CampaignInvariant, PTL

(*************************** Replay of a campaign **************************)

\* where a replaying process is: at a checkpoint of the walk, and past the skips when it runs a trial
ReplayAt ==
  replay.at # "off" =>
    /\ replay.at \in {"walk", "trial"}
    /\ replay.k \in DOMAIN Stored
    /\ replay = [at |-> replay.at, k |-> replay.k, corpus |-> replay.corpus, tree |-> replay.tree,
                 variant |-> replay.variant]
    /\ replay.tree \in Trees /\ replay.variant \in Variants
    /\ replay.at = "trial" => Here.kind = "H" /\ Complete(Here.pages, replay.corpus)

ReplayInv == DOMAIN trials = Keys /\ ReplayAt /\ TrialsAreOfTheirBatch

(* The next checkpoint of the walk, or its end.                            *)
LEMMA WalkGoesOn ==
  ASSUME ReplayAt, replay.at # "off", replay' = Step(replay)
  PROVE  ReplayAt'
<1>1. Len(Stored) \in Nat /\ DOMAIN Stored = 1..Len(Stored)
  BY ReplayAssumption, LenProperties
<1>2. CASE replay.k = Len(Stored)
  BY <1>2 DEF ReplayAt, Step, Off
<1>3. CASE replay.k # Len(Stored)
  <2>1. replay' = [replay EXCEPT !.at = "walk", !.k = @ + 1]
    BY <1>3 DEF Step
  <2>2. replay.k \in 1..Len(Stored) /\ replay.k + 1 \in 1..Len(Stored)
    BY <1>1, <1>3 DEF ReplayAt
  <2>3. replay' = [at |-> "walk", k |-> replay.k + 1, corpus |-> replay.corpus,
                   tree |-> replay.tree, variant |-> replay.variant]
    BY <2>1 DEF ReplayAt
  <2>4. QED BY <1>1, <2>2, <2>3 DEF ReplayAt
<1>4. QED BY <1>2, <1>3

(* A batch that can be rebuilt is rebuilt from the bytes it was formed of: *)
(* what a trial reads are the bytes its checkpoint names.                  *)
LEMMA RebuiltIsTheBatch ==
  ASSUME NEW pages, NEW corpus, Complete(pages, corpus)
  PROVE  {<<page.occ, corpus[DocOf(page.occ)]>> : page \in ContentPages(pages)}
           = {<<p.occ, p.bytes>> : p \in {q \in ToSet(pages) : q.bytes # NoBytes}}
<1>1. ASSUME NEW p \in ContentPages(pages)
      PROVE  corpus[DocOf(p.occ)] = p.bytes
  <2>1. PICK i \in DOMAIN pages : pages[i] = p
    BY DEF ContentPages, ToSet
  <2>2. Usable(Resolve(p, corpus))
    BY <2>1 DEF Complete
  <2>3. p.bytes # NoBytes
    BY DEF ContentPages
  <2>4. QED BY <2>2, <2>3 DEF Usable, Resolve
<1>2. ContentPages(pages) = {q \in ToSet(pages) : q.bytes # NoBytes}
  BY DEF ContentPages
<1>3. QED BY <1>1, <1>2

\* a trial that is on disk, of the batch its key names
OfItsBatch(key, trial) ==
  \E k \in DOMAIN Stored :
    /\ Stored[k].digest = key.digest /\ Stored[k].kind = "H"
    /\ trial.digest = key.digest /\ trial.tree = key.tree
    /\ trial.read = {<<p.occ, p.bytes>> :
                       p \in {q \in ToSet(Stored[k].pages) : q.bytes # NoBytes}}
    /\ trial.published \subseteq {p[1] : p \in trial.docs}

LEMMA TrialIsOfItsBatch ==
  ASSUME ReplayAt, replay.at = "trial", NEW published,
         published \subseteq {p.occ : p \in ContentPages(Here.pages)}
  PROVE  OfItsBatch(HereKey, TrialRecord(published))
<1> DEFINE trial == TrialRecord(published)
           offered == ContentPages(Here.pages)
<1>1. replay.k \in DOMAIN Stored /\ Here = Stored[replay.k] /\ Here.kind = "H"
      /\ Complete(Here.pages, replay.corpus)
  BY DEF ReplayAt, Here
<1>2. /\ HereKey.digest = Here.digest /\ HereKey.tree = replay.tree
      /\ trial.digest = Here.digest /\ trial.tree = replay.tree
      /\ trial.read = {<<page.occ, replay.corpus[DocOf(page.occ)]>> : page \in offered}
      /\ trial.docs = PageDocs(Here.pages) /\ trial.published = published
  BY DEF HereKey, Key, TrialRecord
<1>3. trial.read = {<<p.occ, p.bytes>> : p \in {q \in ToSet(Here.pages) : q.bytes # NoBytes}}
  BY <1>1, <1>2, RebuiltIsTheBatch
<1>4. published \subseteq {p[1] : p \in PageDocs(Here.pages)}
  <2>1. ASSUME NEW page \in offered
        PROVE  page.occ \in {p[1] : p \in PageDocs(Here.pages)}
    <3>1. <<page.occ, DocOf(page.occ)>> \in PageDocs(Here.pages)
      BY DEF PageDocs
    <3>2. <<page.occ, DocOf(page.occ)>>[1] = page.occ
      OBVIOUS
    <3>3. QED BY <3>1, <3>2
  <2>2. QED BY <2>1
<1>5. QED BY <1>1, <1>2, <1>3, <1>4 DEF OfItsBatch

(* Replays, their deaths and scorings, one after another in any order.     *)
LEMMA ReplayStepKeeps ==
  ASSUME ReplayInv, NEW relevant, NEW published, ReplayStep(relevant, published)
  PROVE  ReplayInv'
<1> USE DEF ReplayInv
<1>1. SUFFICES /\ DOMAIN trials' = Keys
               /\ ReplayAt'
               /\ \A key \in Keys : trials'[key] \notin {NoTrial, TornFile} => OfItsBatch(key, trials'[key])
  BY DEF TrialsAreOfTheirBatch, OfItsBatch, Keys, Key
<1>2. \A key \in Keys : trials[key] \notin {NoTrial, TornFile} => OfItsBatch(key, trials[key])
  BY DEF TrialsAreOfTheirBatch, OfItsBatch
<1>3. ASSUME NEW corpus \in Corpora, NEW checkout \in Trees, NEW variant \in Variants,
             StartReplay(corpus, checkout, variant)
      PROVE  ReplayAt' /\ trials' = trials
  <2>1. replay' = [at |-> "walk", k |-> 1, corpus |-> corpus, tree |-> checkout, variant |-> variant]
    BY <1>3 DEF StartReplay
  <2>2. 1 \in DOMAIN Stored
    BY <1>3, ReplayAssumption, LenProperties, EmptySeq DEF StartReplay
  <2>3. QED BY <1>3, <2>1, <2>2 DEF StartReplay, ReplayAt
<1>4. ASSUME SkipCheckpoint
      PROVE  ReplayAt' /\ trials' = trials
  BY <1>4, WalkGoesOn DEF SkipCheckpoint
<1>5. ASSUME BeginTrial
      PROVE  ReplayAt' /\ trials' = trials
  <2>1. replay' = [replay EXCEPT !.at = "trial"] /\ ~Skips /\ replay.at = "walk"
    BY <1>5 DEF BeginTrial
  <2>2. Here.kind = "H" /\ Complete(Here.pages, replay.corpus)
    BY <2>1 DEF Skips
  <2>3. replay' = [at |-> "trial", k |-> replay.k, corpus |-> replay.corpus,
                   tree |-> replay.tree, variant |-> replay.variant]
    BY <2>1 DEF ReplayAt
  <2>4. Here' = Here
    BY <2>3 DEF Here
  <2>5. QED BY <1>5, <2>1, <2>2, <2>3, <2>4 DEF ReplayAt, BeginTrial
<1>6. ASSUME NEW occs, WriteTrial(occs)
      PROVE  /\ ReplayAt'
             /\ trials' = [trials EXCEPT ![HereKey] = TrialRecord(occs)]
             /\ OfItsBatch(HereKey, TrialRecord(occs))
  BY <1>6, WalkGoesOn, TrialIsOfItsBatch DEF WriteTrial
<1>7. ASSUME NEW file \in {NoTrial, TornFile}, DieInTrial(file)
      PROVE  ReplayAt' /\ trials' = [trials EXCEPT ![HereKey] = file]
  BY <1>7 DEF DieInTrial, ReplayAt, Off
<1>8. ASSUME Score(relevant)
      PROVE  ReplayAt' /\ trials' = trials
  BY <1>8 DEF Score, ReplayAt, Here
<1>9. QED
  BY <1>2, <1>3, <1>4, <1>5, <1>6, <1>7, <1>8 DEF ReplayStep

\* Every trial on disk was run on the batch its key names, with the bytes
\* that batch held when the campaign formed it, whatever corpora replays
\* are given and wherever they die (replay.py rebuild, run_trial).
THEOREM ReplayedTrialsAreOfTheirBatch == ReplaySpec => []TrialsAreOfTheirBatch
<1>1. ReplayInit => ReplayInv
  BY DEF ReplayInit, ReplayInv, ReplayAt, TrialsAreOfTheirBatch, Off
<1>2. ReplayInv /\ [\E relevant, published : ReplayStep(relevant, published)]_replayVars => ReplayInv'
  <2> SUFFICES ASSUME ReplayInv, [\E relevant, published : ReplayStep(relevant, published)]_replayVars
               PROVE  ReplayInv'
    OBVIOUS
  <2>1. CASE \E relevant, published : ReplayStep(relevant, published)
    BY <2>1, ReplayStepKeeps
  <2>2. CASE UNCHANGED replayVars
    BY <2>2 DEF replayVars, ReplayInv, ReplayAt, TrialsAreOfTheirBatch, Here
  <2>3. QED BY <2>1, <2>2
<1>3. ReplayInv => TrialsAreOfTheirBatch
  BY DEF ReplayInv
<1>4. QED BY <1>1, <1>2, <1>3, PTL DEF ReplaySpec

(************************* A campaign on its lanes *************************)

Orders(n) == [1..n -> 0..(n - 1)]
States == {"MISSING", "PENDING", "CLAIMED"} \cup Terminal
WorkItem == [st : States, body : Bodies \cup {NoBody}]
Ledger == [frozen : BOOLEAN, cells : [Cells -> WorkItem]]
Process == [at : {"off", "between", "cell"}, cell : Cells \cup {Nothing}]
Record == [cell : Cells, lane : LaneIds, st : States, body : Bodies \cup {NoBody},
           correct : {"right", "wrong", "unknown"}, said : {"yes", "no", "nothing"}]

ScheduleOK ==
  /\ design.arms \in Nat \ {0}
  /\ order \in [TaskSet -> Orders(design.arms)]
  /\ owner \in [TaskSet -> LaneIds]

\* a lane works on its own cells only
LanesOK ==
  /\ lanes \in [LaneIds -> Ledger]
  /\ running \in [LaneIds -> Process]
  /\ \A l \in LaneIds, c \in Cells :
       lanes[l].cells[c].st \in {"CLAIMED"} \cup Terminal => Owns(l, c)
  /\ \A l \in LaneIds : running[l].at = "cell" => running[l].cell \in Cells /\ Owns(l, running[l].cell)

\* a verdict is what the judge said, and an empty answer is wrong without one
Weighed(r) ==
  /\ r.correct = "right" <=> r.said = "yes"
  /\ r.correct # "unknown" <=> (r.said \in {"yes", "no"} \/ r.correct = "wrong")

GoodRecord(r) == r \in Record /\ Weighed(r) /\ (r.st = "COMMITTED" => Owns(r.lane, r.cell))

GradingOK ==
  /\ grading.at \in {"off", "ref", "item", "judge"}
  /\ grading.at \in {"ref", "item"} =>
       /\ grading.lanes \in LaneOrders /\ grading.i \in DOMAIN grading.lanes
       /\ grading.k \in Positions
       /\ grading.ref \in Bodies \cup {NoBody}
       /\ grading = [at |-> grading.at, lanes |-> grading.lanes, i |-> grading.i, k |-> grading.k,
                     ref |-> grading.ref, records |-> grading.records, moves |-> grading.moves,
                     skip |-> grading.skip]
       /\ \A r \in grading.records : GoodRecord(r)
  /\ grading.at = "judge" =>
       /\ grading = [at |-> "judge", records |-> grading.records, moves |-> grading.moves,
                     skip |-> grading.skip, todo |-> grading.todo, attempt |-> grading.attempt]
       /\ \A r \in grading.records : GoodRecord(r)

ReportOK == report # Nothing => \A r \in report.records : GoodRecord(r)

\* what FreezeNeedsAPass says of the report a freeze was put in force after
Cleared(rep) ==
  LET p0 == {r \in rep.records : r.cell.arm = Baseline /\ r.st = "COMMITTED"}
      judged == {r \in p0 : r.said \in {"yes", "no"} \/ r.correct = "wrong"}
      labelled == {r \in p0 : r.cell.task \in Labelled}
  IN  /\ judged # {} /\ labelled # {}
      /\ Cardinality({r \in judged : r.said = "yes"}) * Floor.accuracy.d
           >= Floor.accuracy.n * Cardinality(judged)
      /\ Cardinality({r \in labelled : r.body \in Bodies /\ r.body.found}) * Floor.recall.d
           >= Floor.recall.n * Cardinality(labelled)

GateOK ==
  /\ freeze.at = "effective" => Cleared(freeze.after)
  /\ decider.at \in {"rename", "write"} =>
       Cleared(decider.source) /\ decider = [at |-> decider.at, source |-> decider.source]

LanesInv == ScheduleOK /\ LanesOK /\ GradingOK /\ ReportOK /\ GateOK

(* A row of a Williams design has an arm at each of its places.            *)
LEMMA RowsAreOfArms ==
  ASSUME NEW n \in Nat \ {0}, NEW seat \in Range(WilliamsSquare(n))
  PROVE  seat \in Orders(n)
<1> DEFINE translate(i) == [j \in 1 .. n |-> (WilliamsFirstRow(n)[j] + i) % n]
           last == IF n % 2 = 1 THEN (2 * n) - 1 ELSE n - 1
<1>1. \A j \in 1..n : WilliamsFirstRow(n)[j] \in Int
  BY DEF WilliamsFirstRow
<1>2. \A i \in Int : translate(i) \in Orders(n)
  BY <1>1 DEF Orders
<1>3. PICK i \in 0..last : seat = WilliamsSquare(n)[i]
  BY DEF Range, WilliamsSquare
<1>4. seat = IF i < n THEN translate(i) ELSE FlipOf(translate(i - n))
  BY <1>3 DEF WilliamsSquare
<1>5. CASE i < n
  <2>1. i \in Int /\ seat = translate(i)
    BY <1>4, <1>5
  <2> HIDE DEF translate
  <2>2. QED BY <1>2, <2>1
<1>6. CASE ~(i < n)
  <2> DEFINE back == translate(i - n)
  <2>1. back \in Orders(n) /\ seat = FlipOf(back)
    <3>1. i - n \in Int
      OBVIOUS
    <3>2. back \in Orders(n)
      BY <3>1, <1>2
    <3>3. QED BY <1>4, <1>6, <3>2
  <2>2. Len(back) = n /\ DOMAIN back = 1..n
    BY <2>1 DEF Orders
  <2>3. seat = [j \in 1..n |-> back[n + 1 - j]]
    BY <2>1, <2>2 DEF FlipOf
  <2>4. \A j \in 1..n : n + 1 - j \in 1..n
    OBVIOUS
  <2>5. QED BY <2>1, <2>3, <2>4 DEF Orders
<1>7. QED BY <1>5, <1>6

(* The place of a position: its block, and its rank in the block.          *)
LEMMA BlockAndRank ==
  ASSUME NEW n \in Nat \ {0}, NEW m \in Nat, NEW k \in 1..(m * n)
  PROVE  /\ ((k - 1) \div n) + 1 \in 1..m
         /\ ((k - 1) % n) + 1 \in 1..n
<1> DEFINE q == (k - 1) \div n
           r == (k - 1) % n
<1>1. m * n \in Nat /\ k \in Nat /\ 1 <= k /\ k <= m * n
  OBVIOUS
<1>2. q \in Int /\ r \in 0..(n - 1) /\ k - 1 = n * q + r
  BY <1>1
<1>3. q >= 0
  BY <1>1, <1>2
<1>4. q < m
  <2>1. SUFFICES ASSUME q >= m PROVE FALSE
    BY <1>2
  <2>2. q = m + (q - m) /\ q - m \in Nat
    BY <1>2, <2>1
  <2>3. n * q = n * m + n * (q - m) /\ n * (q - m) >= 0
    BY <1>2, <2>2
  <2>4. QED BY <1>1, <1>2, <2>3
<1>5. QED BY <1>2, <1>3, <1>4

LEMMA PositionsAreCells ==
  ASSUME ScheduleOK, NEW k \in Positions
  PROVE  CellAt(k) \in Cells
<1> DEFINE n == design.arms
           q == ((k - 1) \div n) + 1
           r == ((k - 1) % n) + 1
<1>1. n \in Nat \ {0} /\ Len(Tasks) \in Nat /\ DOMAIN Tasks = 1..Len(Tasks)
  BY LanesAssumption, LenProperties DEF ScheduleOK
<1>2. q \in 1..Len(Tasks) /\ r \in 1..n
  BY <1>1, BlockAndRank DEF Positions
<1>3. Tasks[q] \in TaskSet
  BY <1>1, <1>2 DEF TaskSet, Range
<1>4. order[Tasks[q]][r] \in 0..(n - 1)
  BY <1>2, <1>3 DEF ScheduleOK, Orders
<1>5. CellAt(k) = Cell(Tasks[q], order[Tasks[q]][r])
  BY DEF CellAt
<1> HIDE DEF q, r
<1>6. QED BY <1>3, <1>4, <1>5 DEF Cells, Arms

(* The frozen schedule is never written again.                             *)
LEMMA ScheduleStays ==
  ASSUME UNCHANGED campaign
  PROVE  /\ Cells' = Cells /\ Positions' = Positions
         /\ ScheduleOK' <=> ScheduleOK
         /\ \A k : CellAt(k)' = CellAt(k)
         /\ \A l, c : Owns(l, c)' <=> Owns(l, c)
         /\ Ledger' = Ledger /\ Process' = Process /\ Record' = Record
         /\ \A r : GoodRecord(r)' <=> GoodRecord(r)
<1> USE DEF campaign
<1>1. Cells' = Cells
  BY DEF Cells, Arms
<1>2. /\ Positions' = Positions
      /\ ScheduleOK' <=> ScheduleOK
      /\ \A k : CellAt(k)' = CellAt(k)
      /\ \A l, c : Owns(l, c)' <=> Owns(l, c)
  BY DEF Positions, ScheduleOK, CellAt, Owns
<1>3. Ledger' = Ledger /\ Process' = Process /\ Record' = Record
  BY <1>1 DEF Ledger, Process, Record
<1>4. \A r : GoodRecord(r)' <=> GoodRecord(r)
  BY <1>2, <1>3 DEF GoodRecord, Weighed
<1>5. QED BY <1>1, <1>2, <1>3, <1>4

LEMMA LanesStay ==
  ASSUME LanesOK, UNCHANGED campaign, UNCHANGED <<lanes, running>>
  PROVE  LanesOK'
BY ScheduleStays DEF LanesOK

LEMMA ReportStays ==
  ASSUME ReportOK, UNCHANGED campaign, UNCHANGED report
  PROVE  ReportOK'
BY ScheduleStays DEF ReportOK

LEMMA GateStays ==
  ASSUME GateOK, UNCHANGED <<freeze, decider>>
  PROVE  GateOK'
BY DEF GateOK, Cleared, Baseline

\* a lane that moves while the evaluator reads changes the count of moves only
LEMMA GradingStays ==
  ASSUME GradingOK, UNCHANGED campaign, Disturb \/ UNCHANGED grading
  PROVE  GradingOK'
<1>1. CASE UNCHANGED grading
  BY <1>1, ScheduleStays DEF GradingOK, LaneOrders, LaneIds
<1>2. CASE grading.at \in {"ref", "item"} /\ grading' = [grading EXCEPT !.moves = @ + 1]
  <2>1. grading' = [at |-> grading.at, lanes |-> grading.lanes, i |-> grading.i, k |-> grading.k,
                    ref |-> grading.ref, records |-> grading.records, moves |-> grading.moves + 1,
                    skip |-> grading.skip]
    BY <1>2 DEF GradingOK
  <2>2. QED BY <1>2, <2>1, ScheduleStays DEF GradingOK, LaneOrders, LaneIds
<1>3. QED BY <1>1, <1>2 DEF Disturb

LEMMA LanesStart ==
  ASSUME \E n \in Nat \ {0} : LanesInit(Designs(n, Len(Tasks), 0))
  PROVE  LanesInv
<1>1. PICK n \in Nat \ {0} : LanesInit(Designs(n, Len(Tasks), 0))
  OBVIOUS
<1>2. design.arms = n
  BY <1>1 DEF LanesInit, Designs, DesignOf
<1>3. ScheduleOK
  <2>1. order \in [TaskSet -> Range(WilliamsSquare(n))] /\ owner \in [TaskSet -> LaneIds]
    BY <1>1, <1>2 DEF LanesInit
  <2>2. Range(WilliamsSquare(n)) \subseteq Orders(n)
    BY RowsAreOfArms
  <2>3. QED BY <1>2, <2>1, <2>2 DEF ScheduleOK
<1>4. LanesOK
  <2>1. lanes = [l \in LaneIds |-> [frozen |-> FALSE, cells |-> [c \in Cells |-> Item("MISSING", NoBody)]]]
        /\ running = [l \in LaneIds |-> Idle]
    BY <1>1 DEF LanesInit
  <2>2. Item("MISSING", NoBody) \in WorkItem /\ Item("MISSING", NoBody).st = "MISSING"
    BY DEF Item, WorkItem, States
  <2>3. lanes \in [LaneIds -> Ledger]
    BY <2>1, <2>2 DEF Ledger
  <2>4. Idle \in Process /\ Idle.at = "off"
    BY DEF Idle, Process
  <2>5. QED BY <2>1, <2>2, <2>3, <2>4 DEF LanesOK, Terminal
<1>5. GradingOK /\ ReportOK /\ GateOK
  BY <1>1 DEF LanesInit, GradingOK, ReportOK, GateOK
<1>6. QED BY <1>3, <1>4, <1>5 DEF LanesInv

(* One cell of a ledger is rewritten.                                      *)
LEMMA LedgerStaysOwned ==
  ASSUME LanesOK, UNCHANGED campaign, NEW l \in LaneIds, NEW c \in Cells, NEW item \in WorkItem,
         NEW process \in Process, Owns(l, c),
         process.at = "cell" => process.cell \in Cells /\ Owns(l, process.cell),
         lanes' = [lanes EXCEPT ![l].cells[c] = item],
         running' = [running EXCEPT ![l] = process]
  PROVE  LanesOK'
<1>1. lanes \in [LaneIds -> Ledger] /\ running \in [LaneIds -> Process]
  BY DEF LanesOK
<1> DEFINE cells == [lanes[l].cells EXCEPT ![c] = item]
           book == [lanes[l] EXCEPT !.cells = cells]
<1>2. cells \in [Cells -> WorkItem] /\ \A d \in Cells : cells[d] = IF d = c THEN item ELSE lanes[l].cells[d]
  BY <1>1 DEF Ledger
<1>3. book \in Ledger /\ book.cells = cells
  BY <1>1, <1>2 DEF Ledger
<1>4. lanes' = [lanes EXCEPT ![l] = book]
  BY <1>1
<1>5. lanes' \in [LaneIds -> Ledger] /\ running' \in [LaneIds -> Process]
  BY <1>1, <1>3, <1>4
<1>6. \A m \in LaneIds, d \in Cells :
        lanes'[m].cells[d].st \in {"CLAIMED"} \cup Terminal => Owns(m, d)
  <2> SUFFICES ASSUME NEW m \in LaneIds, NEW d \in Cells,
                      lanes'[m].cells[d].st \in {"CLAIMED"} \cup Terminal
               PROVE  Owns(m, d)
    OBVIOUS
  <2>1. CASE m = l /\ d = c
    BY <2>1
  <2>2. CASE ~(m = l /\ d = c)
    <3>1. lanes'[m].cells[d] = lanes[m].cells[d]
      BY <1>1, <1>2, <1>3, <1>4, <2>2
    <3>2. QED BY <3>1 DEF LanesOK
  <2>3. QED BY <2>1, <2>2
<1>7. \A m \in LaneIds : running'[m].at = "cell" => running'[m].cell \in Cells /\ Owns(m, running'[m].cell)
  BY <1>1 DEF LanesOK
<1>8. QED BY <1>5, <1>6, <1>7, ScheduleStays DEF LanesOK

LEMMA LaneSteps ==
  ASSUME LanesInv, LaneStep
  PROVE  UNCHANGED <<campaign, report, gateVars>> /\ (Disturb \/ UNCHANGED grading) /\ LanesOK'
<1> USE DEF LanesInv
<1>0. PICK l \in LaneIds :
        \/ StartLane(l)
        \/ ClaimCell(l)
        \/ \E body \in Bodies : EndCell(l, "COMMITTED", body)
        \/ \E body \in Bodies : body.answer = "empty" /\ EndCell(l, "FAILED_FINAL", body)
        \/ CrashLane(l)
        \/ LeaveLane(l)
  BY DEF LaneStep
<1>1. ASSUME NEW process \in Process, process.at # "cell", UNCHANGED campaign, UNCHANGED lanes,
             running' = [running EXCEPT ![l] = process]
      PROVE  LanesOK'
  BY <1>1, ScheduleStays DEF LanesOK
<1>2. Idle \in Process /\ [at |-> "between", cell |-> Nothing] \in Process /\ Idle.at = "off"
  BY DEF Idle, Process
<1>3. CASE StartLane(l)
  <2> DEFINE cells == [c \in Cells |-> IF lanes[l].cells[c].st = "MISSING" THEN Item("PENDING", NoBody)
                                       ELSE lanes[l].cells[c]]
             book == [frozen |-> TRUE, cells |-> cells]
  <2>1. lanes' = [lanes EXCEPT ![l] = book]
    BY <1>3 DEF StartLane
  <2>2. Item("PENDING", NoBody) \in WorkItem /\ Item("PENDING", NoBody).st = "PENDING"
    BY DEF Item, WorkItem, States
  <2>3. lanes \in [LaneIds -> Ledger] /\ lanes[l].cells \in [Cells -> WorkItem]
    BY DEF LanesOK, Ledger
  <2>4. cells \in [Cells -> WorkItem]
    BY <2>2, <2>3
  <2>5. book \in Ledger /\ book.cells = cells
    BY <2>4 DEF Ledger
  <2>6. \A c \in Cells : cells[c].st \in {"CLAIMED"} \cup Terminal => cells[c] = lanes[l].cells[c]
    BY <2>2 DEF Terminal
  <2>7. \A m \in LaneIds, c \in Cells :
          lanes'[m].cells[c].st \in {"CLAIMED"} \cup Terminal => Owns(m, c)
    BY <2>1, <2>3, <2>5, <2>6 DEF LanesOK
  <2>8. UNCHANGED campaign /\ UNCHANGED report /\ UNCHANGED gateVars /\ Disturb
        /\ running' = [running EXCEPT ![l] = [at |-> "between", cell |-> Nothing]]
    BY <1>3 DEF StartLane
  <2>9. LanesOK'
    <3> HIDE DEF book, cells
    <3> QED BY <1>2, <2>1, <2>3, <2>5, <2>7, <2>8, ScheduleStays DEF LanesOK
  <2>10. QED BY <2>8, <2>9
<1>4. CASE ClaimCell(l)
  <2>1. PICK i \in Unclaimed(l) :
          /\ lanes' = [lanes EXCEPT ![l].cells[CellAt(i)] = Item("CLAIMED", NoBody)]
          /\ running' = [running EXCEPT ![l] = [at |-> "cell", cell |-> CellAt(i)]]
    BY <1>4 DEF ClaimCell
  <2>2. CellAt(i) \in Cells /\ Owns(l, CellAt(i))
    BY PositionsAreCells DEF Unclaimed
  <2>3. Item("CLAIMED", NoBody) \in WorkItem
    BY DEF Item, WorkItem, States
  <2>4. [at |-> "cell", cell |-> CellAt(i)] \in Process
    BY <2>2 DEF Process
  <2>5. UNCHANGED campaign /\ UNCHANGED report /\ UNCHANGED gateVars /\ Disturb
    BY <1>4 DEF ClaimCell
  <2>6. LanesOK'
    BY <2>1, <2>2, <2>3, <2>4, <2>5, LedgerStaysOwned
  <2>7. QED BY <2>5, <2>6
<1>5. ASSUME NEW st \in Terminal, NEW body \in Bodies, EndCell(l, st, body)
      PROVE  UNCHANGED campaign /\ UNCHANGED report /\ UNCHANGED gateVars /\ Disturb /\ LanesOK'
  <2>1. running[l].cell \in Cells /\ Owns(l, running[l].cell)
    BY <1>5 DEF EndCell, LanesOK
  <2>2. Item(st, body) \in WorkItem
    BY DEF Item, WorkItem, States
  <2>3. /\ lanes' = [lanes EXCEPT ![l].cells[running[l].cell] = Item(st, body)]
        /\ running' = [running EXCEPT ![l] = [at |-> "between", cell |-> Nothing]]
        /\ UNCHANGED campaign /\ UNCHANGED report /\ UNCHANGED gateVars /\ Disturb
    BY <1>5 DEF EndCell
  <2>4. LanesOK'
    BY <1>2, <2>1, <2>2, <2>3, LedgerStaysOwned
  <2>5. QED BY <2>3, <2>4
<1>6. CASE CrashLane(l)
  BY <1>1, <1>2, <1>6 DEF CrashLane, evaluatorVars
<1>7. CASE LeaveLane(l)
  BY <1>1, <1>2, <1>7 DEF LeaveLane, evaluatorVars
<1>8. "COMMITTED" \in Terminal /\ "FAILED_FINAL" \in Terminal
  BY DEF Terminal
<1>9. QED BY <1>0, <1>3, <1>4, <1>5, <1>6, <1>7, <1>8

(* Merging a record in keeps the records good.                             *)
LEMMA MergeKeeps ==
  ASSUME NEW records, \A r \in records : GoodRecord(r), NEW new, GoodRecord(new)
  PROVE  \A r \in Merge(records, new) : GoodRecord(r)
BY DEF Merge

\* judging a record gives it the verdict the judge's word stands for
LEMMA VerdictIsWeighed ==
  ASSUME NEW r, GoodRecord(r), NEW said \in {"yes", "no", "nothing"},
         said = "nothing" \/ Answer(r) # "empty"
  PROVE  GoodRecord([r EXCEPT !.correct = IsCorrect(GradeOf(r, said)), !.said = said])
<1> DEFINE verdict == IsCorrect(GradeOf(r, said))
           new == [r EXCEPT !.correct = verdict, !.said = said]
<1>1. r \in Record
  BY DEF GoodRecord
<1>2. /\ said = "yes" => verdict = "right"
      /\ said = "no" => verdict = "wrong"
      /\ said = "nothing" => verdict \in {"wrong", "unknown"}
  BY DEF GradeOf, IsCorrect
<1>3. verdict \in {"right", "wrong", "unknown"}
  BY <1>2
<1>4. /\ new \in Record /\ new.correct = verdict /\ new.said = said
      /\ new.st = r.st /\ new.lane = r.lane /\ new.cell = r.cell
  BY <1>1, <1>3 DEF Record
<1>5. Weighed(new)
  BY <1>2, <1>4 DEF Weighed
<1>6. QED BY <1>4, <1>5 DEF GoodRecord

\* the evaluator holds the reference of the cell it reads
LEMMA ReferencesAreGood ==
  ASSUME LanesInv, ReadRef
  PROVE  GradingOK'
<1> DEFINE ref == ArtifactOf(Reading.cells[ReadCell])
<1>1. grading' = [grading EXCEPT !.at = "item", !.ref = ref] /\ grading.at = "ref" /\ UNCHANGED campaign
  BY DEF ReadRef
<1>2. /\ grading.lanes \in Seq(LaneIds) /\ grading.lanes # << >>
      /\ grading.i \in DOMAIN grading.lanes /\ grading.k \in Positions
      /\ grading = [at |-> grading.at, lanes |-> grading.lanes, i |-> grading.i, k |-> grading.k,
                    ref |-> grading.ref, records |-> grading.records, moves |-> grading.moves,
                    skip |-> grading.skip]
      /\ \A r \in grading.records : GoodRecord(r)
  BY <1>1 DEF LanesInv, GradingOK, LaneOrders
<1>3. grading.lanes[grading.i] \in LaneIds /\ ReadCell \in Cells
  BY <1>2, ElementOfSeq, LenProperties, PositionsAreCells DEF ReadCell, LanesInv
<1>4. Reading.cells[ReadCell] \in WorkItem
  BY <1>3 DEF LanesInv, LanesOK, Ledger, Reading
<1>5. ref \in Bodies \cup {NoBody}
  BY <1>4 DEF ArtifactOf, WorkItem
<1> HIDE DEF ref
<1>6. grading' = [at |-> "item", lanes |-> grading.lanes, i |-> grading.i, k |-> grading.k,
                  ref |-> ref, records |-> grading.records, moves |-> grading.moves,
                  skip |-> grading.skip]
  BY <1>1, <1>2
<1>7. QED BY <1>1, <1>2, <1>5, <1>6, ScheduleStays DEF GradingOK, LaneOrders, LaneIds

\* the records once the cell the evaluator is at is read
AfterItem == Merge(grading.records, RecordOf(ReadCell, grading.lanes[grading.i],
                                             Reading.cells[ReadCell].st, grading.ref))

(* After a cell the evaluator reads the next one of the ledger, the first  *)
(* of the next ledger, or has read them all.                               *)
LEMMA ReadAdvances ==
  ASSUME LanesInv, ReadItem
  PROVE  \/ /\ grading.k < Len(Tasks) * design.arms
            /\ grading' = [at |-> "ref", lanes |-> grading.lanes, i |-> grading.i,
                           k |-> grading.k + 1, ref |-> NoBody, records |-> AfterItem,
                           moves |-> grading.moves, skip |-> grading.skip]
         \/ /\ ~(grading.k < Len(Tasks) * design.arms) /\ grading.i < Len(grading.lanes)
            /\ grading' = [at |-> "ref", lanes |-> grading.lanes, i |-> grading.i + 1,
                           k |-> 1, ref |-> NoBody, records |-> AfterItem,
                           moves |-> grading.moves, skip |-> grading.skip]
         \/ /\ ~(grading.k < Len(Tasks) * design.arms) /\ ~(grading.i < Len(grading.lanes))
            /\ \E todo : grading' = [at |-> "judge", records |-> AfterItem, moves |-> grading.moves,
                                     skip |-> grading.skip, todo |-> todo, attempt |-> 0]
<1> DEFINE record == RecordOf(ReadCell, grading.lanes[grading.i], Reading.cells[ReadCell].st, grading.ref)
           merged == [grading EXCEPT !.records = Merge(@, record), !.ref = NoBody]
<1>1. grading.at = "item"
  BY DEF ReadItem
<1>2. grading = [at |-> grading.at, lanes |-> grading.lanes, i |-> grading.i, k |-> grading.k,
                 ref |-> grading.ref, records |-> grading.records, moves |-> grading.moves,
                 skip |-> grading.skip]
  BY <1>1 DEF LanesInv, GradingOK
<1>3. merged = [at |-> grading.at, lanes |-> grading.lanes, i |-> grading.i, k |-> grading.k,
                ref |-> NoBody, records |-> AfterItem, moves |-> grading.moves, skip |-> grading.skip]
  <2>1. merged = [grading EXCEPT !.records = AfterItem, !.ref = NoBody]
    BY DEF merged, AfterItem
  <2> HIDE DEF merged, record
  <2>2. QED BY <1>2, <2>1
<1> HIDE DEF record, merged
<1>4. CASE grading.k < Len(Tasks) * design.arms
  <2>1. grading' = [merged EXCEPT !.at = "ref", !.k = @ + 1]
    BY <1>4 DEF ReadItem, merged, record
  <2>2. QED BY <1>3, <1>4, <2>1
<1>5. CASE ~(grading.k < Len(Tasks) * design.arms) /\ grading.i < Len(grading.lanes)
  <2>1. grading' = [merged EXCEPT !.at = "ref", !.k = 1, !.i = @ + 1]
    BY <1>5 DEF ReadItem, merged, record
  <2>2. QED BY <1>3, <1>5, <2>1
<1>6. CASE ~(grading.k < Len(Tasks) * design.arms) /\ ~(grading.i < Len(grading.lanes))
  <2>1. PICK todo : grading' = [at |-> "judge", records |-> merged.records, moves |-> merged.moves,
                                skip |-> merged.skip, todo |-> todo, attempt |-> 0]
    BY <1>6 DEF ReadItem, merged, record
  <2>2. QED BY <1>3, <1>6, <2>1
<1>7. QED BY <1>4, <1>5, <1>6

(* Where the evaluator reads is a cell of a ledger of a lane.              *)
LEMMA ReadsACell ==
  ASSUME LanesInv, grading.at \in {"ref", "item"}
  PROVE  /\ grading.lanes \in Seq(LaneIds) /\ grading.lanes # << >>
         /\ DOMAIN grading.lanes = 1..Len(grading.lanes) /\ Len(grading.lanes) \in Nat
         /\ grading.i \in DOMAIN grading.lanes /\ grading.lanes[grading.i] \in LaneIds
         /\ \A i \in DOMAIN grading.lanes : grading.lanes[i] \in LaneIds
         /\ Len(Tasks) * design.arms \in Nat /\ 1 \in Positions
         /\ Positions = 1..(Len(Tasks) * design.arms) /\ grading.k \in Positions
         /\ ReadCell = CellAt(grading.k) /\ ReadCell \in Cells
         /\ Reading = lanes[grading.lanes[grading.i]]
         /\ Reading.cells[ReadCell] \in WorkItem
<1>1. /\ grading.lanes \in Seq(LaneIds) /\ grading.lanes # << >>
      /\ grading.i \in DOMAIN grading.lanes /\ grading.k \in Positions
  BY DEF LanesInv, GradingOK, LaneOrders
<1>2. /\ Len(grading.lanes) \in Nat /\ DOMAIN grading.lanes = 1..Len(grading.lanes)
      /\ design.arms \in Nat \ {0} /\ Len(Tasks) \in Nat \ {0}
  BY <1>1, LenProperties, LanesAssumption, EmptySeq DEF LanesInv, ScheduleOK
<1>3. \A i \in DOMAIN grading.lanes : grading.lanes[i] \in LaneIds
  BY <1>1, <1>2, ElementOfSeq
<1>4. Len(Tasks) * design.arms \in Nat /\ 1 \in Positions /\ Positions = 1..(Len(Tasks) * design.arms)
  <2>1. Len(Tasks) * design.arms >= 1
    BY <1>2
  <2>2. QED BY <1>2, <2>1 DEF Positions
<1>5. ReadCell = CellAt(grading.k) /\ ReadCell \in Cells
  BY <1>1, PositionsAreCells DEF ReadCell, LanesInv
<1>6. Reading = lanes[grading.lanes[grading.i]]
  BY DEF Reading
<1>7. Reading.cells[ReadCell] \in WorkItem
  BY <1>1, <1>3, <1>5, <1>6 DEF LanesInv, LanesOK, Ledger
<1>8. QED BY <1>1, <1>2, <1>3, <1>4, <1>5, <1>6, <1>7

LEMMA ReadsAreGood ==
  ASSUME LanesInv, ReadItem
  PROVE  GradingOK'
<1> DEFINE l == grading.lanes[grading.i]
           record == RecordOf(ReadCell, l, Reading.cells[ReadCell].st, grading.ref)
<1>1. UNCHANGED campaign /\ grading.at = "item"
  BY DEF ReadItem
<1>2. /\ grading.ref \in Bodies \cup {NoBody} /\ grading.lanes \in LaneOrders
      /\ \A r \in grading.records : GoodRecord(r)
  BY <1>1 DEF LanesInv, GradingOK
<1>3. Reading.cells[ReadCell].st \in States
      /\ (Reading.cells[ReadCell].st = "COMMITTED" => Owns(l, ReadCell))
  BY <1>1, ReadsACell DEF WorkItem, LanesInv, LanesOK, Terminal
<1>4. GoodRecord(record)
  BY <1>1, <1>2, <1>3, ReadsACell DEF RecordOf, GoodRecord, Record, Weighed
<1>5. \A r \in AfterItem : GoodRecord(r)
  BY <1>2, <1>4, MergeKeeps DEF AfterItem
<1> HIDE DEF record, l
<1>6. ASSUME NEW i \in DOMAIN grading.lanes, NEW k \in Positions,
             grading' = [at |-> "ref", lanes |-> grading.lanes, i |-> i, k |-> k, ref |-> NoBody,
                         records |-> AfterItem, moves |-> grading.moves, skip |-> grading.skip]
      PROVE  GradingOK'
  BY <1>1, <1>2, <1>5, <1>6, ScheduleStays DEF GradingOK, LaneOrders, LaneIds
<1>7. grading.k < Len(Tasks) * design.arms => grading.k + 1 \in Positions
  BY <1>1, ReadsACell
<1>8. grading.i < Len(grading.lanes) => grading.i + 1 \in DOMAIN grading.lanes
  BY <1>1, ReadsACell
<1>9. ASSUME NEW todo,
             grading' = [at |-> "judge", records |-> AfterItem, moves |-> grading.moves,
                         skip |-> grading.skip, todo |-> todo, attempt |-> 0]
      PROVE  GradingOK'
  BY <1>1, <1>5, <1>9, ScheduleStays DEF GradingOK
<1>10. QED BY <1>1, <1>6, <1>7, <1>8, <1>9, ReadAdvances, ReadsACell

LEMMA JudgmentsAreGood ==
  ASSUME LanesInv, NEW answer \in {"yes", "no", "again", "fatal"}, Judgment(answer)
  PROVE  GradingOK'
<1>1. PICK r \in grading.records :
        IF Answer(r) = "empty" THEN answer = "fatal" /\ Attach(r, "nothing")
        ELSE IF answer \in {"yes", "no"} THEN Attach(r, answer)
        ELSE IF answer = "fatal" \/ grading.attempt = JudgeRetries THEN Attach(r, "nothing")
        ELSE grading' = [grading EXCEPT !.attempt = @ + 1]
  BY DEF Judgment
<1>2. /\ UNCHANGED campaign
      /\ grading = [at |-> "judge", records |-> grading.records, moves |-> grading.moves,
                    skip |-> grading.skip, todo |-> grading.todo, attempt |-> grading.attempt]
      /\ \A s \in grading.records : GoodRecord(s)
  BY DEF Judgment, LanesInv, GradingOK
<1>3. ASSUME NEW said \in {"yes", "no", "nothing"}, said = "nothing" \/ Answer(r) # "empty",
             Attach(r, said)
      PROVE  GradingOK'
  <2> DEFINE new == [r EXCEPT !.correct = IsCorrect(GradeOf(r, said)), !.said = said]
             all == (grading.records \ {r}) \cup {new}
             rest == grading.todo \ {r.cell}
  <2>1. GoodRecord(new)
    BY <1>2, <1>3, VerdictIsWeighed
  <2>2. \A s \in all : GoodRecord(s)
    BY <1>2, <2>1
  <2>3. grading' = [grading EXCEPT !.records = all, !.todo = rest, !.attempt = 0]
    BY <1>3 DEF Attach
  <2> HIDE DEF all, rest
  <2>4. grading' = [at |-> "judge", records |-> all, moves |-> grading.moves,
                    skip |-> grading.skip, todo |-> rest, attempt |-> 0]
    <3>1. PICK rs, seen, skip, todo, attempt :
            grading = [at |-> "judge", records |-> rs, moves |-> seen, skip |-> skip,
                       todo |-> todo, attempt |-> attempt]
      BY <1>2
    <3>2. grading.moves = seen /\ grading.skip = skip
      BY <3>1
    <3>3. grading' = [at |-> "judge", records |-> all, moves |-> seen, skip |-> skip,
                      todo |-> rest, attempt |-> 0]
      BY <2>3, <3>1
    <3>4. QED BY <3>2, <3>3
  <2>5. QED BY <1>2, <2>2, <2>4, ScheduleStays DEF GradingOK
<1>4. ASSUME grading' = [grading EXCEPT !.attempt = @ + 1]
      PROVE  GradingOK'
  <2>1. grading' = [at |-> "judge", records |-> grading.records, moves |-> grading.moves,
                    skip |-> grading.skip, todo |-> grading.todo, attempt |-> grading.attempt + 1]
    BY <1>2, <1>4
  <2>2. QED BY <1>2, <2>1, ScheduleStays DEF GradingOK
<1>5. QED BY <1>1, <1>3, <1>4

(* A report that passes the gate cleared both floors on measured cells.    *)
LEMMA PassedIsCleared ==
  ASSUME NEW rep, \A r \in rep.records : GoodRecord(r), Verdict(rep) = "PASS"
  PROVE  Cleared(rep)
<1> DEFINE p0 == {r \in rep.records : r.cell.arm = Baseline /\ r.st = "COMMITTED"}
           judged == {r \in p0 : r.said \in {"yes", "no"} \/ r.correct = "wrong"}
           yes == {r \in judged : r.said = "yes"}
           labelled == {r \in p0 : r.cell.task \in Labelled}
           found == {r \in labelled : r.body \in Bodies /\ r.body.found}
           accuracy == Criterion(Cardinality(Right(rep, Baseline)), Cardinality(Graded(rep, Baseline)),
                                 Floor.accuracy)
           recall == Criterion(Cardinality(Found(rep, Baseline)),
                               Cardinality(Recalled(rep, Baseline)), Floor.recall)
<1>1. Committed(OfArm(rep, Baseline)) = p0 /\ Recalled(rep, Baseline) = labelled
  BY DEF Committed, OfArm, Recalled
<1>2. Graded(rep, Baseline) = judged
  BY <1>1 DEF Graded, GoodRecord, Weighed
<1>3. Right(rep, Baseline) = yes
  BY <1>2 DEF Right, GoodRecord, Weighed
<1>4. Found(rep, Baseline) = found
  BY <1>1, LanesAssumption DEF Found, GoodRecord, Record
<1>5. accuracy = "PASS" /\ recall = "PASS"
  <2> HIDE DEF accuracy, recall
  <2>1. "FAIL" \notin {accuracy, recall} /\ {accuracy, recall} = {"PASS"}
    BY DEF Verdict, accuracy, recall
  <2>2. QED BY <2>1
<1> HIDE DEF p0, judged, yes, labelled, found
<1>6. /\ Cardinality(judged) # 0
      /\ Cardinality(yes) * Floor.accuracy.d >= Floor.accuracy.n * Cardinality(judged)
  BY <1>2, <1>3, <1>5 DEF Criterion
<1>7. /\ Cardinality(labelled) # 0
      /\ Cardinality(found) * Floor.recall.d >= Floor.recall.n * Cardinality(labelled)
  BY <1>1, <1>4, <1>5 DEF Criterion
<1>8. judged # {} /\ labelled # {}
  BY <1>6, <1>7, FS_EmptySet
<1>9. QED BY <1>6, <1>7, <1>8 DEF Cleared, p0, judged, yes, labelled, found

LEMMA LanesStepKeeps ==
  ASSUME LanesInv, LaneStep \/ GradingStep(LaneOrders) \/ GateStep
  PROVE  LanesInv'
<1> USE DEF LanesInv
<1>1. CASE LaneStep
  BY <1>1, LaneSteps, ScheduleStays, GradingStays, ReportStays, GateStays DEF gateVars
<1>2. ASSUME NEW seq \in LaneOrders, NEW skip \in BOOLEAN, StartGrading(seq, skip)
      PROVE  LanesInv'
  <2>1. UNCHANGED campaign /\ UNCHANGED <<lanes, running>> /\ UNCHANGED report /\ UNCHANGED <<freeze, decider>>
    BY <1>2 DEF StartGrading, laneVars, gateVars
  <2>2. grading' = [at |-> "ref", lanes |-> seq, i |-> 1, k |-> 1, ref |-> NoBody, records |-> {},
                    moves |-> 0, skip |-> skip]
    BY <1>2 DEF StartGrading, Read
  <2>3. seq \in Seq(LaneIds) /\ seq # << >> /\ 1 \in DOMAIN seq
    BY LenProperties, EmptySeq DEF LaneOrders
  <2>4. 1 \in Positions
    <3>1. design.arms \in Nat \ {0} /\ Len(Tasks) \in Nat \ {0}
      BY LenProperties, LanesAssumption, EmptySeq DEF ScheduleOK
    <3>2. Len(Tasks) * design.arms >= 1 /\ Len(Tasks) * design.arms \in Nat
      BY <3>1
    <3>3. QED BY <3>2 DEF Positions
  <2>5. GradingOK'
    BY <2>1, <2>2, <2>3, <2>4, ScheduleStays DEF GradingOK, LaneOrders, LaneIds
  <2>6. QED BY <2>1, <2>5, ScheduleStays, LanesStay, ReportStays, GateStays
<1>3. ASSUME UNCHANGED campaign, UNCHANGED <<lanes, running>>, UNCHANGED report,
             UNCHANGED <<freeze, decider>>, GradingOK'
      PROVE  LanesInv'
  BY <1>3, ScheduleStays, LanesStay, ReportStays, GateStays
<1>4. CASE NoSchedule
  <2>1. GradingOK'
    BY <1>4 DEF NoSchedule, GradingOK
  <2>2. QED BY <1>3, <1>4, <2>1 DEF NoSchedule, laneVars, gateVars
<1>5. CASE ReadRef
  BY <1>3, <1>5, ReferencesAreGood DEF ReadRef, laneVars, gateVars
<1>6. CASE ReadItem
  BY <1>3, <1>6, ReadsAreGood DEF ReadItem, laneVars, gateVars
<1>7. ASSUME NEW answer \in {"yes", "no", "again", "fatal"}, Judgment(answer)
      PROVE  LanesInv'
  BY <1>3, <1>7, JudgmentsAreGood DEF Judgment, laneVars, gateVars
<1>8. CASE WriteReport
  <2>1. /\ UNCHANGED campaign /\ UNCHANGED <<lanes, running>> /\ UNCHANGED <<freeze, decider>>
        /\ grading' = [at |-> "off"] /\ report' = [records |-> grading.records, skipped |-> grading.skip]
        /\ grading.at = "judge"
    BY <1>8 DEF WriteReport, laneVars, gateVars
  <2>2. ReportOK' /\ GradingOK'
    BY <2>1, ScheduleStays DEF ReportOK, GradingOK
  <2>3. QED BY <2>1, <2>2, ScheduleStays, LanesStay, GateStays
<1>9. ASSUME UNCHANGED campaign, UNCHANGED <<lanes, running>>, UNCHANGED grading, UNCHANGED report, GateOK'
      PROVE  LanesInv'
  BY <1>9, ScheduleStays, LanesStay, ReportStays, GradingStays
<1>10. CASE DecideGate
  <2>1. /\ report # Nothing /\ UNCHANGED freeze
        /\ decider' = IF Verdict(report) = "PASS" /\ freeze.at = "provisional"
                        THEN [at |-> "rename", source |-> report] ELSE decider
        /\ UNCHANGED campaign /\ UNCHANGED <<lanes, running>> /\ UNCHANGED grading /\ UNCHANGED report
    BY <1>10 DEF DecideGate, laneVars, evaluatorVars
  <2>2. Verdict(report) = "PASS" => Cleared(report)
    BY <2>1, PassedIsCleared DEF ReportOK
  <2>3. GateOK'
    BY <2>1, <2>2 DEF GateOK, Cleared, Baseline
  <2>4. QED BY <1>9, <2>1, <2>3
<1>11. CASE RenameFreeze \/ WriteFreeze \/ CrashSteward
  <2>1. UNCHANGED campaign /\ UNCHANGED <<lanes, running>> /\ UNCHANGED grading /\ UNCHANGED report
    BY <1>11 DEF RenameFreeze, WriteFreeze, CrashSteward, laneVars, evaluatorVars
  <2>2. GateOK'
    <3> USE DEF GateOK, Cleared, Baseline
    <3>1. CASE RenameFreeze
      <4>1. decider' = [at |-> "write", source |-> decider.source] /\ freeze' = [at |-> "absent"]
        BY <3>1 DEF RenameFreeze
      <4>2. Cleared(decider.source)
        BY <3>1 DEF RenameFreeze
      <4>3. QED BY <4>1, <4>2
    <3>2. CASE WriteFreeze
      BY <3>2 DEF WriteFreeze
    <3>3. CASE CrashSteward
      BY <3>3 DEF CrashSteward
    <3>4. QED BY <1>11, <3>1, <3>2, <3>3
  <2>3. QED BY <1>9, <2>1, <2>2
<1>12. QED
  BY <1>1, <1>2, <1>4, <1>5, <1>6, <1>7, <1>8, <1>10, <1>11 DEF GradingStep, GateStep

(* The lanes work on their own cells, the evaluator's records carry the    *)
(* lane that committed them and the verdict their judge gave, and what is  *)
(* put in force passed the gate.                                           *)
THEOREM LanesInvariant == LanesSpec => []LanesInv
<1>1. LanesInv /\ [LaneStep \/ GradingStep(LaneOrders) \/ GateStep]_lanesVars => LanesInv'
  <2> SUFFICES ASSUME LanesInv, [LaneStep \/ GradingStep(LaneOrders) \/ GateStep]_lanesVars
               PROVE  LanesInv'
    OBVIOUS
  <2>1. CASE UNCHANGED lanesVars
    BY <2>1, ScheduleStays, LanesStay, ReportStays, GateStays, GradingStays
    DEF LanesInv, lanesVars, laneVars, evaluatorVars, gateVars
  <2>2. QED BY <2>1, LanesStepKeeps
<1>2. QED BY <1>1, LanesStart, PTL DEF LanesSpec

\* A contrast compares two arms of a task only as one lane ran both: the
\* sharding gives a task to one lane, and no merge, at whatever moment the
\* ledgers are read, pairs a cell with another lane's (bcplus.py
\* _run_leased, cli.py grade_bcplus).
THEOREM PairsAreOfOneLane == LanesSpec => []PairsStayOnOneLane
<1>1. LanesInv => PairsStayOnOneLane
  <2> SUFFICES ASSUME LanesInv, report # Nothing, NEW a \in Treatments, NEW p \in Pairs(report, a)
               PROVE  p[1].lane = p[2].lane
    BY DEF PairsStayOnOneLane
  <2>1. /\ p[1] \in report.records /\ p[1].st = "COMMITTED"
        /\ p[2] \in report.records /\ p[2].st = "COMMITTED"
        /\ p[1].cell.task = p[2].cell.task
    BY DEF Pairs, Committed, OfArm
  <2>2. owner[p[1].cell.task] = p[1].lane /\ owner[p[2].cell.task] = p[2].lane
    BY <2>1 DEF LanesInv, ReportOK, GoodRecord, Owns
  <2>3. QED BY <2>1, <2>2
<1>2. QED BY <1>1, LanesInvariant, PTL

\* A retrieval freeze is in force only after a report in which the judged cells of the
\* baseline, and those with a recall, are some and clear each its floor, however often
\* the report is written and gated (cli.py bcplus_competence).
THEOREM FreezesNeedAPass == LanesSpec => []FreezeNeedsAPass
<1>1. LanesInv => FreezeNeedsAPass
  BY DEF LanesInv, GateOK, Cleared, FreezeNeedsAPass
<1>2. QED BY <1>1, LanesInvariant, PTL

-----------------------------------------------------------------------------
\* a quotient and a remainder are the only ones
LEMMA DivisionIsUnique ==
  ASSUME NEW n \in Nat \ {0}, NEW q \in Int, NEW r \in 0..(n - 1), NEW x \in Int, x = n * q + r
  PROVE  x \div n = q /\ x % n = r
<1> DEFINE d == x \div n
           m == x % n
<1>1. d \in Int /\ m \in 0..(n - 1) /\ x = n * d + m
  OBVIOUS
<1> HIDE DEF d, m
<1>2. n * (d - q) = r - m
  <2>1. n * d = n * (d - q) + n * q
    BY <1>1
  <2>2. n * d \in Int /\ n * q \in Int /\ n * (d - q) \in Int
    BY <1>1
  <2>3. QED BY <1>1, <2>1, <2>2
<1>3. ~(d - q >= 1)
  <2>1. SUFFICES ASSUME d - q >= 1 PROVE FALSE
    OBVIOUS
  <2>2. n * (d - q) >= n
    BY <1>1, <2>1
  <2>3. QED BY <1>1, <1>2, <2>2
<1>4. ~(d - q <= -1)
  <2>1. SUFFICES ASSUME d - q <= -1 PROVE FALSE
    OBVIOUS
  <2>2. n * (q - d) >= n /\ n * (d - q) = -(n * (q - d))
    BY <1>1, <2>1
  <2>3. QED BY <1>1, <1>2, <2>2
<1>5. d = q
  BY <1>1, <1>3, <1>4
<1>6. QED BY <1>1, <1>5 DEF d, m

(* Every arm is in the first row of a Williams design: 0, the even places  *)
(* count up, the odd ones down from n - 1.                                 *)
LEMMA FirstRowIsWhole ==
  ASSUME NEW n \in Nat \ {0}, NEW a \in 0..(n - 1)
  PROVE  \E j \in 1..n : WilliamsFirstRow(n)[j] = a
<1>1. CASE a = 0
  BY <1>1 DEF WilliamsFirstRow
<1>2. CASE a # 0 /\ 2 * a <= n
  <2>1. 2 * a \in 1..n /\ 2 * a # 1
    BY <1>2
  <2>2. (2 * a) % 2 = 0 /\ (2 * a) \div 2 = a
    OBVIOUS
  <2>3. QED BY <2>1, <2>2 DEF WilliamsFirstRow
<1>3. CASE a # 0 /\ 2 * a > n
  <2> DEFINE j == 2 * (n - a) + 1
  <2>1. j \in 1..n /\ j # 1
    BY <1>3
  <2>2. j % 2 = 1 /\ j \div 2 = n - a
    OBVIOUS
  <2>3. n - (n - a) = a
    OBVIOUS
  <2> HIDE DEF j
  <2>4. QED BY <2>1, <2>2, <2>3 DEF WilliamsFirstRow
<1>4. QED BY <1>1, <1>2, <1>3

(* Every arm is in every row: a block runs each arm.                       *)
LEMMA RowsAreWhole ==
  ASSUME NEW n \in Nat \ {0}, NEW seat \in Range(WilliamsSquare(n)), NEW a \in 0..(n - 1)
  PROVE  \E j \in 1..n : seat[j] = a
<1> DEFINE translate(i) == [j \in 1 .. n |-> (WilliamsFirstRow(n)[j] + i) % n]
           last == IF n % 2 = 1 THEN (2 * n) - 1 ELSE n - 1
<1>1. ASSUME NEW i \in Int
      PROVE  \E j \in 1..n : translate(i)[j] = a
  <2> DEFINE b == (a - i) % n
             q == (a - i) \div n
  <2>1. b \in 0..(n - 1) /\ q \in Int /\ a - i = n * q + b
    OBVIOUS
  <2> HIDE DEF b, q
  <2>2. PICK j \in 1..n : WilliamsFirstRow(n)[j] = b
    BY <2>1, FirstRowIsWhole
  <2>3. b + i = n * (-q) + a /\ -q \in Int /\ b + i \in Int
    <3>1. n * (-q) = -(n * q)
      BY <2>1
    <3>2. QED BY <2>1, <3>1
  <2>4. (b + i) % n = a
    BY <2>3, DivisionIsUnique
  <2>5. QED BY <2>2, <2>4
<1>2. PICK i \in 0..last : seat = WilliamsSquare(n)[i]
  BY DEF Range, WilliamsSquare
<1>3. seat = IF i < n THEN translate(i) ELSE FlipOf(translate(i - n))
  BY <1>2 DEF WilliamsSquare
<1>4. CASE i < n
  <2>1. seat = translate(i) /\ i \in Int
    BY <1>2, <1>3, <1>4
  <2> HIDE DEF translate
  <2>2. QED BY <1>1, <2>1
<1>5. CASE ~(i < n)
  <2> DEFINE back == translate(i - n)
  <2>1. seat = FlipOf(back)
    BY <1>3, <1>5
  <2>2. i - n \in Int
    BY <1>2
  <2>3. PICK j \in 1..n : back[j] = a
    BY <1>1, <2>2
  <2>4. DOMAIN back = 1..n /\ Len(back) = n
    OBVIOUS
  <2> HIDE DEF back
  <2>5. n + 1 - j \in 1..n /\ n + 1 - (n + 1 - j) = j
    OBVIOUS
  <2>6. seat[n + 1 - j] = a
    BY <2>1, <2>3, <2>4, <2>5 DEF FlipOf
  <2>7. QED BY <2>5, <2>6
<1>6. QED BY <1>4, <1>5

\* a block runs every arm
BlocksAreWhole == \A t \in TaskSet, a \in Arms : \E j \in 1..design.arms : order[t][j] = a

(* Every cell has its position in the schedule: nothing is frozen that is  *)
(* never run or never read.                                                *)
LEMMA CellsAreScheduled ==
  ASSUME ScheduleOK, BlocksAreWhole, NEW c \in Cells
  PROVE  \E k \in Positions : CellAt(k) = c
<1> DEFINE n == design.arms
<1>1. n \in Nat \ {0} /\ Len(Tasks) \in Nat /\ DOMAIN Tasks = 1..Len(Tasks)
  BY LanesAssumption, LenProperties DEF ScheduleOK
<1>2. PICK t \in TaskSet, a \in Arms : c = Cell(t, a)
  BY DEF Cells
<1>3. PICK q \in 1..Len(Tasks) : Tasks[q] = t
  BY <1>1, <1>2 DEF TaskSet, Range
<1>4. PICK p \in 1..n : order[t][p] = a
  BY <1>2 DEF BlocksAreWhole
<1> DEFINE k == n * (q - 1) + p
<1>5. k - 1 = n * (q - 1) + (p - 1) /\ p - 1 \in 0..(n - 1) /\ q - 1 \in Int /\ k - 1 \in Int
  BY <1>1
<1>6. (k - 1) \div n = q - 1 /\ (k - 1) % n = p - 1
  <2> DEFINE x == k - 1
             u == q - 1
             v == p - 1
  <2>1. x = n * u + v /\ v \in 0..(n - 1) /\ u \in Int /\ x \in Int /\ n \in Nat \ {0}
    BY <1>1, <1>5
  <2> HIDE DEF x, u, v, k, n
  <2>2. x \div n = u /\ x % n = v
    BY <2>1, DivisionIsUnique
  <2>3. QED BY <2>2 DEF x, u, v
<1>7. k \in Positions
  <2>1. n * (q - 1) >= 0 /\ n * (Len(Tasks) - q) >= 0
    BY <1>1
  <2>2. n * (q - 1) + n + n * (Len(Tasks) - q) = Len(Tasks) * n
    BY <1>1
  <2>3. k >= 1 /\ k <= Len(Tasks) * n /\ k \in Int /\ Len(Tasks) * n \in Int
    BY <1>1, <2>1, <2>2
  <2>4. QED BY <2>3 DEF Positions
<1>8. CellAt(k) = Cell(Tasks[(q - 1) + 1], order[Tasks[(q - 1) + 1]][(p - 1) + 1])
  BY <1>6 DEF CellAt
<1>9. (q - 1) + 1 = q /\ (p - 1) + 1 = p
  OBVIOUS
<1>10. CellAt(k) = c
  BY <1>2, <1>3, <1>4, <1>8, <1>9
<1>11. QED BY <1>7, <1>10

\* an item has an artifact when it has ended, and not before
ArtifactsOK ==
  \A l \in LaneIds, c \in Cells :
    lanes[l].cells[c].st \in Terminal <=> lanes[l].cells[c].body # NoBody

\* a read that is behind the evaluator: the position j of the i-th ledger
Behind(i, j) == i < grading.i \/ (i = grading.i /\ j < grading.k)

\* while no lane moves, the records are what the ledgers say of the cells read so far
ReadingOK ==
  /\ grading.moves \in Nat
  /\ grading.moves = 0 =>
       /\ grading.at = "item" => grading.ref = ArtifactOf(Reading.cells[ReadCell])
       /\ \A r \in grading.records : Item(r.st, r.body) = lanes[r.lane].cells[r.cell]
       /\ \A r, s \in grading.records : r.cell = s.cell => r = s
       /\ \A i \in DOMAIN grading.lanes, j \in Positions : Behind(i, j) =>
            /\ CellAt(j) \in Seen(grading.records)
            /\ lanes[grading.lanes[i]].cells[CellAt(j)].st \in Terminal =>
                 \E r \in grading.records : r.cell = CellAt(j) /\ r.lane = grading.lanes[i]

ReadInv ==
  /\ LanesInv /\ BlocksAreWhole /\ ArtifactsOK
  /\ grading.at \in {"ref", "item"} => ReadingOK

LEMMA ReadStarts ==
  ASSUME \E n \in Nat \ {0} : LanesInit(Designs(n, Len(Tasks), 0))
  PROVE  ReadInv
<1>1. PICK n \in Nat \ {0} : LanesInit(Designs(n, Len(Tasks), 0))
  OBVIOUS
<1>2. design.arms = n
  BY <1>1 DEF LanesInit, Designs, DesignOf
<1>3. BlocksAreWhole
  <2>1. order \in [TaskSet -> Range(WilliamsSquare(n))]
    BY <1>1, <1>2 DEF LanesInit
  <2>2. QED BY <1>2, <2>1, RowsAreWhole DEF BlocksAreWhole, Arms
<1>4. ArtifactsOK
  BY <1>1 DEF LanesInit, ArtifactsOK, Item, Terminal
<1>5. grading.at = "off"
  BY <1>1 DEF LanesInit
<1>6. QED BY <1>3, <1>4, <1>5, LanesStart DEF ReadInv

(* What a reading adds to its records keeps them true of the ledgers.      *)
LEMMA MergedAreTrue ==
  ASSUME ReadInv, ReadItem, grading.moves = 0
  PROVE  /\ \A r \in AfterItem : Item(r.st, r.body) = lanes[r.lane].cells[r.cell]
         /\ \A r, s \in AfterItem : r.cell = s.cell => r = s
         /\ \A i \in DOMAIN grading.lanes, j \in Positions :
              Behind(i, j) \/ (i = grading.i /\ j = grading.k) =>
                /\ CellAt(j) \in Seen(AfterItem)
                /\ lanes[grading.lanes[i]].cells[CellAt(j)].st \in Terminal =>
                     \E r \in AfterItem : r.cell = CellAt(j) /\ r.lane = grading.lanes[i]
<1> DEFINE l == grading.lanes[grading.i]
           c == ReadCell
           st == Reading.cells[ReadCell].st
           body == grading.ref
           new == RecordOf(c, l, st, body)
<1>1. grading.at = "item" /\ ReadingOK /\ LanesInv /\ ArtifactsOK
  BY DEF ReadItem, ReadInv
<1>2. \A i \in DOMAIN grading.lanes : grading.lanes[i] \in LaneIds
  BY <1>1, ReadsACell
<1>3. \A j \in Positions : CellAt(j) \in Cells
  BY <1>1, PositionsAreCells DEF LanesInv
<1>4. AfterItem = Merge(grading.records, new)
  BY DEF AfterItem
<1>5. c = CellAt(grading.k) /\ c \in Cells /\ l \in LaneIds /\ Reading = lanes[l]
  BY <1>1, ReadsACell
<1>6. body = ArtifactOf(lanes[l].cells[c])
  BY <1>1, <1>5 DEF ReadingOK
<1>7. lanes[l].cells[c] \in WorkItem /\ lanes[l].cells[c].st = st
  BY <1>1, <1>5, ReadsACell
<1>8. /\ Item(st, body) = lanes[l].cells[c]
      /\ st \in Terminal <=> body # NoBody
  BY <1>1, <1>5, <1>6, <1>7 DEF ArtifactsOK, ArtifactOf, WorkItem, Item
<1>9. new.cell = c /\ new.lane = l /\ new.st = st /\ new.body = body
  BY DEF RecordOf
<1> HIDE DEF new, l, c, st, body
<1>10. CASE c \in Seen(grading.records) /\ body = NoBody
  <2>1. AfterItem = grading.records
    BY <1>4, <1>9, <1>10 DEF Merge
  <2>3. st \notin Terminal
    BY <1>8, <1>10
  <2>4. ASSUME NEW i \in DOMAIN grading.lanes, NEW j \in Positions,
               Behind(i, j) \/ (i = grading.i /\ j = grading.k)
        PROVE  /\ CellAt(j) \in Seen(grading.records)
               /\ lanes[grading.lanes[i]].cells[CellAt(j)].st \in Terminal =>
                    \E r \in grading.records : r.cell = CellAt(j) /\ r.lane = grading.lanes[i]
    <3>1. CASE Behind(i, j)
      BY <1>1, <3>1 DEF ReadingOK
    <3>2. CASE i = grading.i /\ j = grading.k
      <4>1. CellAt(j) = c /\ grading.lanes[i] = l
        BY <1>5, <3>2 DEF l
      <4>2. QED BY <1>7, <1>10, <2>3, <4>1
    <3>3. QED BY <2>4, <3>1, <3>2
  <2>5. /\ \A r \in grading.records : Item(r.st, r.body) = lanes[r.lane].cells[r.cell]
        /\ \A r, s \in grading.records : r.cell = s.cell => r = s
    BY <1>1 DEF ReadingOK
  <2>6. QED BY <2>1, <2>4, <2>5
<1>11. CASE ~(c \in Seen(grading.records) /\ body = NoBody)
  <2>1. AfterItem = {s \in grading.records : s.cell # c} \cup {new}
    BY <1>4, <1>9, <1>11 DEF Merge
  <2>2. \A r \in AfterItem : Item(r.st, r.body) = lanes[r.lane].cells[r.cell]
    BY <1>1, <1>8, <1>9, <2>1 DEF ReadingOK
  <2>3. \A r, s \in AfterItem : r.cell = s.cell => r = s
    BY <1>1, <1>9, <2>1 DEF ReadingOK
  <2>4. ASSUME NEW i \in DOMAIN grading.lanes, NEW j \in Positions,
               Behind(i, j) \/ (i = grading.i /\ j = grading.k)
        PROVE  CellAt(j) \in Seen(AfterItem)
    <3>1. CASE CellAt(j) = c
      BY <1>9, <2>1, <3>1 DEF Seen
    <3>2. CASE CellAt(j) # c
      <4>1. Behind(i, j)
        BY <1>5, <2>4, <3>2
      <4>2. CellAt(j) \in Seen(grading.records)
        BY <1>1, <4>1 DEF ReadingOK
      <4>3. QED BY <2>1, <3>2, <4>2 DEF Seen
    <3>3. QED BY <3>1, <3>2
  <2>5. ASSUME NEW i \in DOMAIN grading.lanes, NEW j \in Positions,
               Behind(i, j) \/ (i = grading.i /\ j = grading.k),
               lanes[grading.lanes[i]].cells[CellAt(j)].st \in Terminal
        PROVE  \E r \in AfterItem : r.cell = CellAt(j) /\ r.lane = grading.lanes[i]
    <3>1. CASE i = grading.i /\ j = grading.k
      BY <1>5, <1>9, <2>1, <3>1 DEF l
    <3>2. CASE Behind(i, j) /\ CellAt(j) # c
      <4>1. PICK r \in grading.records : r.cell = CellAt(j) /\ r.lane = grading.lanes[i]
        BY <1>1, <2>5, <3>2 DEF ReadingOK
      <4>2. QED BY <2>1, <3>2, <4>1
    <3>3. CASE Behind(i, j) /\ CellAt(j) = c
      <4>1. c \in Seen(grading.records)
        BY <1>1, <3>3 DEF ReadingOK
      <4>2. st \in Terminal
        BY <1>8, <1>11, <4>1
      <4>4. owner[c.task] = l
        BY <1>1, <1>5, <1>7, <4>2 DEF LanesInv, LanesOK, Owns
      <4>5. owner[c.task] = grading.lanes[i]
        BY <1>1, <1>2, <1>5, <2>5, <3>3 DEF LanesInv, LanesOK, Owns
      <4>6. QED BY <1>9, <2>1, <3>3, <4>4, <4>5
    <3>4. QED BY <2>5, <3>1, <3>2, <3>3
  <2>6. QED BY <2>2, <2>3, <2>4, <2>5
<1>12. QED BY <1>10, <1>11

(* An item ends with its artifact, and before that it has none.            *)
LEMMA ArtifactsStay ==
  ASSUME ReadInv, LaneStep
  PROVE  ArtifactsOK'
<1>1. PICK l \in LaneIds :
        \/ StartLane(l)
        \/ ClaimCell(l)
        \/ \E body \in Bodies : EndCell(l, "COMMITTED", body)
        \/ \E body \in Bodies : body.answer = "empty" /\ EndCell(l, "FAILED_FINAL", body)
        \/ CrashLane(l)
        \/ LeaveLane(l)
  BY DEF LaneStep
<1>2. UNCHANGED campaign /\ ArtifactsOK /\ LanesOK /\ ScheduleOK
  BY LaneSteps DEF ReadInv, LanesInv
<1>3. lanes \in [LaneIds -> Ledger] /\ \A m \in LaneIds : lanes[m].cells \in [Cells -> WorkItem]
  BY <1>2 DEF LanesOK, Ledger
<1>4. ASSUME NEW c \in Cells, NEW st, NEW body, st \in Terminal <=> body # NoBody,
             lanes' = [lanes EXCEPT ![l].cells[c] = Item(st, body)]
      PROVE  ArtifactsOK'
  <2>1. Item(st, body).st = st /\ Item(st, body).body = body
    BY DEF Item
  <2> DEFINE item == Item(st, body)
             cells == [lanes[l].cells EXCEPT ![c] = item]
             book == [lanes[l] EXCEPT !.cells = cells]
  <2>2. \A d \in Cells : cells[d] = IF d = c THEN item ELSE lanes[l].cells[d]
    BY <1>3
  <2>3. book.cells = cells
    BY <1>3 DEF Ledger
  <2>4. lanes' = [lanes EXCEPT ![l] = book]
    BY <1>4
  <2> HIDE DEF item, cells, book
  <2>5. \A m \in LaneIds, d \in Cells :
          lanes'[m].cells[d] = IF m = l /\ d = c THEN item ELSE lanes[m].cells[d]
    BY <1>3, <2>2, <2>3, <2>4
  <2>6. item.st \in Terminal <=> item.body # NoBody
    BY <1>4, <2>1 DEF item
  <2>7. QED BY <1>2, <2>5, <2>6, ScheduleStays DEF ArtifactsOK
<1>5. CASE StartLane(l)
  <2> DEFINE cells == [c \in Cells |-> IF lanes[l].cells[c].st = "MISSING" THEN Item("PENDING", NoBody)
                                       ELSE lanes[l].cells[c]]
             book == [frozen |-> TRUE, cells |-> cells]
  <2>1. lanes' = [lanes EXCEPT ![l] = book]
    BY <1>5 DEF StartLane
  <2>2. \A c \in Cells : cells[c].st \in Terminal <=> cells[c].body # NoBody
    BY <1>2 DEF ArtifactsOK, Item, Terminal
  <2>3. book.cells = cells
    OBVIOUS
  <2> HIDE DEF cells, book
  <2>4. QED BY <1>2, <1>3, <2>1, <2>2, <2>3, ScheduleStays DEF ArtifactsOK
<1>6. CASE ClaimCell(l)
  <2>1. PICK i \in Unclaimed(l) : lanes' = [lanes EXCEPT ![l].cells[CellAt(i)] = Item("CLAIMED", NoBody)]
    BY <1>6 DEF ClaimCell
  <2>2. CellAt(i) \in Cells
    BY <1>2, PositionsAreCells DEF Unclaimed
  <2>3. "CLAIMED" \notin Terminal
    BY DEF Terminal
  <2>4. QED BY <1>4, <2>1, <2>2, <2>3
<1>7. ASSUME NEW st \in Terminal, NEW body \in Bodies, EndCell(l, st, body)
      PROVE  ArtifactsOK'
  <2>1. running[l].cell \in Cells
    BY <1>2, <1>7 DEF EndCell, LanesOK
  <2>2. lanes' = [lanes EXCEPT ![l].cells[running[l].cell] = Item(st, body)]
    BY <1>7 DEF EndCell
  <2>3. body # NoBody
    BY LanesAssumption
  <2>4. QED BY <1>4, <2>1, <2>2, <2>3
<1>8. CASE CrashLane(l) \/ LeaveLane(l)
  BY <1>2, <1>8, ScheduleStays DEF CrashLane, LeaveLane, ArtifactsOK
<1>9. "COMMITTED" \in Terminal /\ "FAILED_FINAL" \in Terminal
  BY DEF Terminal
<1>10. QED BY <1>1, <1>5, <1>6, <1>7, <1>8, <1>9

(* A lane that moves under the evaluator's eyes is counted.                *)
LEMMA MovesAreCounted ==
  ASSUME ReadInv, LaneStep, grading'.at \in {"ref", "item"}
  PROVE  ReadingOK'
<1>1. /\ UNCHANGED campaign
      /\ (UNCHANGED lanes /\ UNCHANGED grading) \/ Disturb
  BY LaneSteps DEF LaneStep, StartLane, ClaimCell, EndCell, CrashLane, LeaveLane, evaluatorVars, ReadInv
<1>2. CASE UNCHANGED lanes /\ UNCHANGED grading
  <2>1. ReadingOK
    BY <1>2 DEF ReadInv
  <2>2. ReadCell' = ReadCell /\ Reading' = Reading /\ Positions' = Positions
        /\ \A k : CellAt(k)' = CellAt(k)
    BY <1>1, <1>2, ScheduleStays DEF ReadCell, Reading
  <2>3. QED BY <1>2, <2>1, <2>2 DEF ReadingOK, Behind
<1>3. CASE Disturb
  <2>1. grading.at \in {"ref", "item"} /\ grading' = [grading EXCEPT !.moves = @ + 1]
    BY <1>3 DEF Disturb
  <2>2. grading.moves \in Nat
    BY <2>1 DEF ReadInv, ReadingOK
  <2>3. grading = [at |-> grading.at, lanes |-> grading.lanes, i |-> grading.i, k |-> grading.k,
                   ref |-> grading.ref, records |-> grading.records, moves |-> grading.moves,
                   skip |-> grading.skip]
    BY <2>1 DEF ReadInv, LanesInv, GradingOK
  <2>4. grading'.moves = grading.moves + 1
    BY <2>1, <2>3
  <2>5. QED BY <2>2, <2>4 DEF ReadingOK
<1>4. QED BY <1>1, <1>2, <1>3

(* What the evaluator reads while no lane moves is what the ledgers say.   *)
LEMMA ReadsAreTrue ==
  ASSUME ReadInv, ReadRef \/ ReadItem, grading'.at \in {"ref", "item"}
  PROVE  ReadingOK'
<1>1. /\ UNCHANGED campaign /\ UNCHANGED lanes /\ grading.at \in {"ref", "item"}
      /\ ReadingOK /\ LanesInv
  BY DEF ReadRef, ReadItem, laneVars, ReadInv
<1>2. Positions' = Positions /\ \A k : CellAt(k)' = CellAt(k)
  BY <1>1, ScheduleStays
<1>3. grading = [at |-> grading.at, lanes |-> grading.lanes, i |-> grading.i, k |-> grading.k,
                 ref |-> grading.ref, records |-> grading.records, moves |-> grading.moves,
                 skip |-> grading.skip]
  BY <1>1 DEF LanesInv, GradingOK
<1>4. CASE ReadRef
  <2> DEFINE ref == ArtifactOf(Reading.cells[ReadCell])
  <2>1. grading' = [at |-> "item", lanes |-> grading.lanes, i |-> grading.i, k |-> grading.k,
                    ref |-> ref, records |-> grading.records, moves |-> grading.moves,
                    skip |-> grading.skip]
    <3>1. grading' = [grading EXCEPT !.at = "item", !.ref = ref]
      BY <1>4 DEF ReadRef
    <3> HIDE DEF ref
    <3>2. QED BY <1>3, <3>1
  <2>2. ArtifactOf(Reading.cells[ReadCell])' = ref
    BY <1>1, <1>2, <2>1 DEF ReadCell, Reading, ArtifactOf
  <2> HIDE DEF ref
  <2>3. QED BY <1>1, <1>2, <2>1, <2>2 DEF ReadingOK, Behind
<1>5. CASE ReadItem
  <2>1. ASSUME NEW i, NEW k,
               grading' = [at |-> "ref", lanes |-> grading.lanes, i |-> i, k |-> k, ref |-> NoBody,
                           records |-> AfterItem, moves |-> grading.moves, skip |-> grading.skip],
               \A n \in DOMAIN grading.lanes, j \in Positions :
                 n < i \/ (n = i /\ j < k) => Behind(n, j) \/ (n = grading.i /\ j = grading.k)
        PROVE  ReadingOK'
    <3>1. grading'.moves \in Nat
      BY <1>1, <2>1 DEF ReadingOK
    <3>2. CASE grading.moves = 0
      <4>1. /\ \A r \in AfterItem : Item(r.st, r.body) = lanes'[r.lane].cells[r.cell]
            /\ \A r, s \in AfterItem : r.cell = s.cell => r = s
        BY <1>1, <1>5, <3>2, MergedAreTrue
      <4>2. ASSUME NEW n \in DOMAIN grading.lanes, NEW j \in Positions, n < i \/ (n = i /\ j < k)
            PROVE  /\ CellAt(j) \in Seen(AfterItem)
                   /\ lanes'[grading.lanes[n]].cells[CellAt(j)].st \in Terminal =>
                        \E r \in AfterItem : r.cell = CellAt(j) /\ r.lane = grading.lanes[n]
        <5>1. Behind(n, j) \/ (n = grading.i /\ j = grading.k)
          BY <2>1, <4>2
        <5>2. QED BY <1>1, <1>5, <3>2, <5>1, MergedAreTrue
      <4>3. grading'.lanes = grading.lanes /\ grading'.records = AfterItem /\ grading'.at = "ref"
            /\ \A n, j : Behind(n, j)' <=> (n < i \/ (n = i /\ j < k))
        BY <2>1 DEF Behind
      <4>4. Seen(grading.records)' = Seen(AfterItem)
        BY <4>3 DEF Seen
      <4>5. QED BY <1>2, <3>1, <4>1, <4>2, <4>3, <4>4 DEF ReadingOK
    <3>3. CASE grading.moves # 0
      BY <2>1, <3>1, <3>3 DEF ReadingOK
    <3>4. QED BY <3>2, <3>3
  <2>2. /\ DOMAIN grading.lanes = 1..Len(grading.lanes) /\ Len(grading.lanes) \in Nat
        /\ grading.i \in DOMAIN grading.lanes
        /\ Len(Tasks) * design.arms \in Nat
        /\ Positions = 1..(Len(Tasks) * design.arms) /\ grading.k \in Positions
    BY <1>1, ReadsACell
  <2>3. \A n \in DOMAIN grading.lanes, j \in Positions :
          n < grading.i \/ (n = grading.i /\ j < grading.k + 1) =>
            Behind(n, j) \/ (n = grading.i /\ j = grading.k)
    BY <2>2 DEF Behind
  <2>4. ~(grading.k < Len(Tasks) * design.arms) =>
          \A n \in DOMAIN grading.lanes, j \in Positions :
            n < grading.i + 1 \/ (n = grading.i + 1 /\ j < 1) =>
              Behind(n, j) \/ (n = grading.i /\ j = grading.k)
    BY <2>2 DEF Behind
  <2>5. QED BY <1>1, <1>5, <2>1, <2>3, <2>4, ReadAdvances
<1>6. QED BY <1>4, <1>5

LEMMA ReadStepKeeps ==
  ASSUME ReadInv, LaneStep \/ GradingStep(LaneOrders) \/ GateStep
  PROVE  ReadInv'
<1>1. LanesInv' /\ UNCHANGED campaign
  <2>1. LanesInv'
    BY LanesStepKeeps DEF ReadInv
  <2>2. UNCHANGED campaign
    BY LaneSteps
    DEF ReadInv, GradingStep, StartGrading, NoSchedule, ReadRef, ReadItem, Judgment, WriteReport,
        GateStep, DecideGate, RenameFreeze, WriteFreeze, CrashSteward
  <2>3. QED BY <2>1, <2>2
<1>2. BlocksAreWhole'
  BY <1>1 DEF ReadInv, BlocksAreWhole, campaign, TaskSet, Arms
<1>3. CASE LaneStep
  BY <1>1, <1>2, <1>3, ArtifactsStay, MovesAreCounted DEF ReadInv
<1>4. ASSUME UNCHANGED lanes
      PROVE  ArtifactsOK'
  BY <1>1, <1>4, ScheduleStays DEF ReadInv, ArtifactsOK
<1>5. ASSUME NEW seq \in LaneOrders, NEW skip \in BOOLEAN, StartGrading(seq, skip)
      PROVE  ReadInv'
  <2>1. grading' = [at |-> "ref", lanes |-> seq, i |-> 1, k |-> 1, ref |-> NoBody, records |-> {},
                    moves |-> 0, skip |-> skip]
        /\ UNCHANGED lanes
    BY <1>5 DEF StartGrading, Read, laneVars
  <2>2. DOMAIN seq = 1..Len(seq) /\ Len(seq) \in Nat
    BY LenProperties DEF LaneOrders
  <2>3. Positions' \subseteq Int /\ \A j \in Positions' : ~(j < 1)
    <3>1. Positions' = Positions /\ Len(Tasks) \in Nat /\ design.arms \in Nat
      BY <1>1, ScheduleStays, LanesAssumption, LenProperties DEF ReadInv, LanesInv, ScheduleOK
    <3>2. Len(Tasks) * design.arms \in Nat
      BY <3>1
    <3>3. QED BY <3>1, <3>2 DEF Positions
  <2>4. \A i \in DOMAIN grading'.lanes, j \in Positions' : ~Behind(i, j)'
    BY <2>1, <2>2, <2>3 DEF Behind
  <2>5. ReadingOK'
    BY <2>1, <2>4 DEF ReadingOK
  <2>6. QED BY <1>1, <1>2, <1>4, <2>1, <2>5 DEF ReadInv
<1>6. CASE ReadRef \/ ReadItem
  <2>1. UNCHANGED lanes
    BY <1>6 DEF ReadRef, ReadItem, laneVars
  <2>2. QED BY <1>1, <1>2, <1>4, <1>6, <2>1, ReadsAreTrue DEF ReadInv
<1>7. ASSUME NoSchedule \/ WriteReport \/ \E answer \in {"yes", "no", "again", "fatal"} : Judgment(answer)
      PROVE  ReadInv'
  <2>1. UNCHANGED lanes
    BY <1>7 DEF NoSchedule, WriteReport, Judgment, laneVars
  <2>2. grading'.at \in {"off", "judge"}
    <3>1. CASE NoSchedule \/ WriteReport
      BY <3>1 DEF NoSchedule, WriteReport
    <3>2. CASE \E answer \in {"yes", "no", "again", "fatal"} : Judgment(answer)
      <4>1. PICK rs, seen, skip, todo, attempt :
              grading = [at |-> "judge", records |-> rs, moves |-> seen, skip |-> skip,
                         todo |-> todo, attempt |-> attempt]
        BY <3>2 DEF Judgment, ReadInv, LanesInv, GradingOK
      <4>2. QED BY <3>2, <4>1 DEF Judgment, Attach
    <3>3. QED BY <1>7, <3>1, <3>2
  <2>3. QED BY <1>1, <1>2, <1>4, <2>1, <2>2 DEF ReadInv
<1>8. CASE GateStep
  <2>1. UNCHANGED lanes /\ UNCHANGED grading
    BY <1>8 DEF GateStep, DecideGate, RenameFreeze, WriteFreeze, CrashSteward, laneVars, evaluatorVars
  <2>2. grading.at \in {"ref", "item"} => ReadingOK'
    <3>1. ReadCell' = ReadCell /\ Reading' = Reading /\ Positions' = Positions
          /\ \A k : CellAt(k)' = CellAt(k)
      BY <1>1, <2>1, ScheduleStays DEF ReadCell, Reading
    <3>2. QED BY <2>1, <3>1 DEF ReadInv, ReadingOK, Behind
  <2>3. QED BY <1>1, <1>2, <1>4, <2>1, <2>2 DEF ReadInv
<1>9. QED BY <1>3, <1>5, <1>6, <1>7, <1>8 DEF GradingStep

\* An evaluator that was given every lane's ledger and read them while no
\* lane moved ends with one record of each scheduled cell: the artifact of
\* the lane that ended it, or none at all (analysis.py collect_outcomes,
\* cli.py grade_bcplus).
THEOREM ReadingsAreWhole ==
  LanesSpec => [][ReadItem /\ Range(grading.lanes) = LaneIds /\ grading'.at = "judge"
                    => EveryCellReported']_lanesVars
<1>1. ASSUME ReadInv, ReadItem, Range(grading.lanes) = LaneIds, grading'.at = "judge"
      PROVE  EveryCellReported'
  <2>1. /\ UNCHANGED campaign /\ UNCHANGED lanes /\ grading.at = "item"
        /\ LanesInv /\ ReadingOK /\ ScheduleOK
    BY <1>1 DEF ReadItem, laneVars, ReadInv, LanesInv
  <2>2. /\ ~(grading.k < Len(Tasks) * design.arms) /\ ~(grading.i < Len(grading.lanes))
        /\ grading'.records = AfterItem /\ grading'.moves = grading.moves
    BY <1>1, <2>1, ReadAdvances
  <2>3. SUFFICES ASSUME grading.moves = 0, NEW c \in Cells
                 PROVE  /\ Cardinality({r \in AfterItem : r.cell = c}) = 1
                        /\ \A r \in AfterItem : r.cell = c =>
                             LET by == {l \in LaneIds : lanes[l].cells[c].st \in Terminal}
                             IN  IF by = {} THEN r.body = NoBody /\ r.st # "COMMITTED"
                                 ELSE \E l \in by : r.lane = l /\ Item(r.st, r.body) = lanes[l].cells[c]
    <3>1. Cells' = Cells /\ lanes' = lanes
      BY <2>1, ScheduleStays
    <3>2. grading'.records = AfterItem /\ grading'.moves = grading.moves
      BY <2>2
    <3>3. QED BY <3>1, <3>2 DEF EveryCellReported
  <2>4. PICK k \in Positions : CellAt(k) = c
    BY <1>1, <2>1, CellsAreScheduled DEF ReadInv
  <2>5. \A i \in DOMAIN grading.lanes, j \in Positions :
          Behind(i, j) \/ (i = grading.i /\ j = grading.k)
    BY <2>1, <2>2, ReadsACell DEF Behind
  <2>6. /\ \A r \in AfterItem : Item(r.st, r.body) = lanes[r.lane].cells[r.cell]
        /\ \A r, s \in AfterItem : r.cell = s.cell => r = s
        /\ \A i \in DOMAIN grading.lanes :
             /\ c \in Seen(AfterItem)
             /\ lanes[grading.lanes[i]].cells[c].st \in Terminal =>
                  \E r \in AfterItem : r.cell = c /\ r.lane = grading.lanes[i]
    BY <1>1, <2>3, <2>4, <2>5, MergedAreTrue
  <2>7. grading.i \in DOMAIN grading.lanes
    BY <2>1, ReadsACell
  <2>8. PICK mine \in AfterItem : mine.cell = c
    BY <2>6, <2>7 DEF Seen
  <2>9. \A r \in AfterItem : r.cell = c => r = mine
    BY <2>6, <2>8
  <2>10. Cardinality({r \in AfterItem : r.cell = c}) = 1
    <3>1. {r \in AfterItem : r.cell = c} = {mine}
      BY <2>8, <2>9
    <3>2. QED BY <3>1, FS_Singleton
  <2> DEFINE by == {l \in LaneIds : lanes[l].cells[c].st \in Terminal}
  <2>11. Item(mine.st, mine.body) = lanes[mine.lane].cells[c] /\ mine.lane \in LaneIds
    <3>1. \A r \in grading'.records : GoodRecord(r)'
      BY <1>1, <2>1, ReadsAreGood DEF GradingOK
    <3>2. mine.lane \in LaneIds
      BY <2>2, <2>8, <3>1 DEF GoodRecord, Record, LaneIds
    <3>3. QED BY <2>6, <2>8, <3>2
  <2>12. lanes[mine.lane].cells[c].st = mine.st /\ lanes[mine.lane].cells[c].body = mine.body
    BY <2>11 DEF Item
  <2>13. CASE by = {}
    <3>1. mine.st \notin Terminal
      BY <2>11, <2>12, <2>13
    <3>2. mine.body = NoBody
      BY <1>1, <2>11, <2>12, <3>1 DEF ReadInv, ArtifactsOK
    <3>3. QED BY <2>9, <2>10, <2>13, <3>1, <3>2 DEF Terminal
  <2>14. CASE by # {}
    <3>1. PICK l \in by : TRUE
      BY <2>14
    <3>2. PICK i \in DOMAIN grading.lanes : grading.lanes[i] = l
      BY <1>1, <3>1 DEF Range
    <3>3. mine.lane = l
      BY <2>6, <2>9, <3>1, <3>2
    <3>4. QED BY <2>9, <2>10, <2>11, <2>14, <3>1, <3>3
  <2>15. QED BY <2>13, <2>14
<1>2. ReadInv /\ [LaneStep \/ GradingStep(LaneOrders) \/ GateStep]_lanesVars => ReadInv'
  <2> SUFFICES ASSUME ReadInv, [LaneStep \/ GradingStep(LaneOrders) \/ GateStep]_lanesVars
               PROVE  ReadInv'
    OBVIOUS
  <2>1. CASE UNCHANGED lanesVars
    <3>1. LanesInv'
      BY <2>1, ScheduleStays, LanesStay, ReportStays, GateStays, GradingStays
      DEF ReadInv, LanesInv, lanesVars, laneVars, evaluatorVars, gateVars
    <3>2. UNCHANGED campaign /\ UNCHANGED lanes /\ UNCHANGED grading
      BY <2>1 DEF lanesVars, laneVars, evaluatorVars
    <3>3. ReadCell' = ReadCell /\ Reading' = Reading /\ Positions' = Positions
          /\ Cells' = Cells /\ \A k : CellAt(k)' = CellAt(k)
      BY <3>2, ScheduleStays DEF ReadCell, Reading
    <3>4. BlocksAreWhole' /\ ArtifactsOK'
      BY <3>2, <3>3 DEF ReadInv, BlocksAreWhole, ArtifactsOK, campaign, TaskSet, Arms
    <3>5. ReadingOK' <=> ReadingOK
      BY <3>2, <3>3 DEF ReadingOK, Behind
    <3>6. QED BY <3>1, <3>2, <3>4, <3>5 DEF ReadInv
  <2>2. QED BY <2>1, ReadStepKeeps
<1>3. QED BY <1>1, <1>2, ReadStarts, PTL DEF LanesSpec
-----------------------------------------------------------------------------
(* The frozen designs.  A row is a translate of the first one, or the      *)
(* reversal of a translate; Start is the one translate that has an arm at  *)
(* a place, and Gap how far, going round, one arm is from another.  Which  *)
(* translates have one arm right before another depends on the gap alone,  *)
(* since the steps of the first row are 1, n-2, 3, n-4, ...                *)
First(n, j) == WilliamsFirstRow(n)[j]
Start(n, a, j) == IF a >= First(n, j) THEN a - First(n, j) ELSE a - First(n, j) + n
Gap(n, a, b) == IF b >= a THEN b - a ELSE b - a + n
Rows(n) == 0 .. (IF n % 2 = 1 THEN (2 * n) - 1 ELSE n - 1)
Translate(n, i) == [j \in 1..n |-> (First(n, j) + i) % n]

LEMMA FirstIs ==
  ASSUME NEW n \in Nat \ {0}, NEW j \in 1..n
  PROVE  /\ First(n, j) \in 0..(n - 1)
         /\ First(n, j) = IF j = 1 THEN 0 ELSE IF j % 2 = 0 THEN j \div 2 ELSE n - (j \div 2)
BY DEF First, WilliamsFirstRow

LEMMA TurnsOnce ==
  ASSUME NEW n \in Nat \ {0}, NEW x \in 0..(2 * n - 1)
  PROVE  x % n = IF x < n THEN x ELSE x - n
<1>1. CASE x < n
  <2>1. x = n * 0 + x /\ x \in 0..(n - 1)
    BY <1>1
  <2>2. QED BY <1>1, <2>1, DivisionIsUnique
<1>2. CASE ~(x < n)
  <2>1. x = n * 1 + (x - n) /\ x - n \in 0..(n - 1)
    BY <1>2
  <2>2. QED BY <1>2, <2>1, DivisionIsUnique
<1>3. QED BY <1>1, <1>2

LEMMA TranslateIs ==
  ASSUME NEW n \in Nat \ {0}, NEW i \in 0..(n - 1)
  PROVE  /\ DOMAIN Translate(n, i) = 1..n /\ Len(Translate(n, i)) = n
         /\ \A j \in 1..n : Translate(n, i)[j] =
              IF First(n, j) + i < n THEN First(n, j) + i ELSE First(n, j) + i - n
<1>1. ASSUME NEW j \in 1..n
      PROVE  (First(n, j) + i) % n = IF First(n, j) + i < n THEN First(n, j) + i
                                                            ELSE First(n, j) + i - n
  <2> DEFINE x == First(n, j) + i
  <2>1. x \in 0..(2 * n - 1)
    BY FirstIs
  <2> HIDE DEF x
  <2>2. x % n = IF x < n THEN x ELSE x - n
    BY <2>1, TurnsOnce
  <2>3. QED BY <2>1, <2>2, FirstIs DEF x
<1>2. DOMAIN Translate(n, i) = 1..n /\ Len(Translate(n, i)) = n
  BY DEF Translate
<1>3. QED BY <1>1, <1>2 DEF Translate

(* The rows of the square.                                                 *)
LEMMA RowIs ==
  ASSUME NEW n \in Nat \ {0}
  PROVE  /\ DOMAIN WilliamsSquare(n) = Rows(n)
         /\ 0..(n - 1) \subseteq Rows(n)
         /\ \A i \in 0..(n - 1) : WilliamsSquare(n)[i] = Translate(n, i)
         /\ n % 2 = 1 => \A i \in 0..(n - 1) :
              n + i \in Rows(n) /\ WilliamsSquare(n)[n + i] = FlipOf(Translate(n, i))
         /\ \A r \in Rows(n) : r \notin 0..(n - 1) =>
              n % 2 = 1 /\ r - n \in 0..(n - 1) /\ n + (r - n) = r
<1>1. DOMAIN WilliamsSquare(n) = Rows(n)
  BY DEF WilliamsSquare, Rows
<1>2. 0..(n - 1) \subseteq Rows(n)
  BY DEF Rows
<1>3. \A r \in Rows(n) : WilliamsSquare(n)[r] = IF r < n THEN Translate(n, r) ELSE FlipOf(Translate(n, r - n))
  BY DEF WilliamsSquare, Rows, Translate, First
<1>4. n % 2 = 1 => \A i \in 0..(n - 1) : n + i \in Rows(n) /\ ~(n + i < n) /\ (n + i) - n = i
  BY DEF Rows
<1>5. \A i \in 0..(n - 1) : i < n
  OBVIOUS
<1>6. \A r \in Rows(n) : r \notin 0..(n - 1) => n % 2 = 1 /\ r - n \in 0..(n - 1) /\ n + (r - n) = r
  BY DEF Rows
<1>7. QED BY <1>1, <1>2, <1>3, <1>4, <1>5, <1>6

LEMMA FlippedIs ==
  ASSUME NEW n \in Nat \ {0}, NEW i \in 0..(n - 1)
  PROVE  /\ DOMAIN FlipOf(Translate(n, i)) = 1..n /\ Len(FlipOf(Translate(n, i))) = n
         /\ \A j \in 1..n : n + 1 - j \in 1..n
                            /\ FlipOf(Translate(n, i))[j] = Translate(n, i)[n + 1 - j]
<1>1. DOMAIN Translate(n, i) = 1..n /\ Len(Translate(n, i)) = n
  BY TranslateIs
<1>2. FlipOf(Translate(n, i)) = [j \in 1..n |-> Translate(n, i)[n + 1 - j]]
  BY <1>1 DEF FlipOf
<1>3. Len([j \in 1..n |-> Translate(n, i)[n + 1 - j]]) = n
  OBVIOUS
<1>4. QED BY <1>2, <1>3

LEMMA FlipTwice ==
  ASSUME NEW n \in Nat \ {0}, NEW i \in 0..(n - 1)
  PROVE  FlipOf(FlipOf(Translate(n, i))) = Translate(n, i)
<1> DEFINE back == FlipOf(Translate(n, i))
<1>1. DOMAIN back = 1..n /\ Len(back) = n
  <2> DEFINE seat == Translate(n, i)
  <2>1. DOMAIN seat = 1..n /\ Len(seat) = n
    BY TranslateIs
  <2> HIDE DEF seat
  <2>2. FlipOf(seat) = [j \in 1..n |-> seat[n + 1 - j]]
    BY <2>1 DEF FlipOf
  <2>3. DOMAIN FlipOf(seat) = 1..n /\ Len(FlipOf(seat)) = n
    BY <2>2
  <2>4. QED BY <2>3 DEF seat
<1>2. FlipOf(back) = [j \in 1..n |-> back[n + 1 - j]]
  BY <1>1 DEF FlipOf
<1>3. ASSUME NEW j \in 1..n
      PROVE  back[n + 1 - j] = Translate(n, i)[j]
  <2>1. n + 1 - j \in 1..n /\ n + 1 - (n + 1 - j) = j
    OBVIOUS
  <2>2. back[n + 1 - j] = Translate(n, i)[n + 1 - (n + 1 - j)]
    BY <2>1, FlippedIs
  <2>3. QED BY <2>1, <2>2
<1>4. Translate(n, i) = [j \in 1..n |-> Translate(n, i)[j]]
  BY DEF Translate
<1>5. QED BY <1>2, <1>3, <1>4

(* The one translate with an arm at a place.                               *)
LEMMA StartIs ==
  ASSUME NEW n \in Nat \ {0}, NEW a \in 0..(n - 1), NEW j \in 1..n
  PROVE  /\ Start(n, a, j) \in 0..(n - 1)
         /\ \A i \in 0..(n - 1) : Translate(n, i)[j] = a <=> i = Start(n, a, j)
<1>1. First(n, j) \in 0..(n - 1)
  BY FirstIs
<1>2. Start(n, a, j) \in 0..(n - 1)
  BY <1>1 DEF Start
<1>3. ASSUME NEW i \in 0..(n - 1)
      PROVE  Translate(n, i)[j] = a <=> i = Start(n, a, j)
  <2>1. Translate(n, i)[j] = IF First(n, j) + i < n THEN First(n, j) + i ELSE First(n, j) + i - n
    BY TranslateIs
  <2>2. QED BY <1>1, <2>1 DEF Start
<1>4. QED BY <1>2, <1>3

(* Going on by a place goes on by an odd number of arms: j forward, or,    *)
(* from an even place, j back.                                             *)
LEMMA StepsApart ==
  ASSUME NEW n \in Nat \ {0}, NEW j \in 1..(n - 1), NEW a \in 0..(n - 1), NEW b \in 0..(n - 1), a # b
  PROVE  Start(n, a, j) = Start(n, b, j + 1) <=> Gap(n, a, b) = IF j % 2 = 1 THEN j ELSE n - j
<1>1. j \in 1..n /\ j + 1 \in 1..n
  OBVIOUS
<1>2. First(n, j) \in 0..(n - 1) /\ First(n, j + 1) \in 0..(n - 1)
  BY <1>1, FirstIs
<1>3. CASE j % 2 = 1
  <2>1. PICK p \in Nat : j = 2 * p + 1
    BY <1>3
  <2>2. First(n, j) = IF p = 0 THEN 0 ELSE n - p
    <3>1. j \div 2 = p /\ (j = 1 <=> p = 0) /\ j % 2 # 0
      BY <2>1
    <3>2. QED BY <1>1, <3>1, FirstIs
  <2>3. First(n, j + 1) = p + 1
    <3>1. (j + 1) \div 2 = p + 1 /\ j + 1 # 1 /\ (j + 1) % 2 = 0
      BY <2>1
    <3>2. QED BY <1>1, <3>1, FirstIs
  <2>4. QED BY <1>2, <1>3, <2>1, <2>2, <2>3 DEF Start, Gap
<1>4. CASE j % 2 = 0
  <2>1. PICK p \in Nat : j = 2 * p
    BY <1>4
  <2>2. First(n, j) = p
    <3>1. j \div 2 = p /\ j # 1
      BY <2>1
    <3>2. QED BY <1>1, <1>4, <3>1, FirstIs
  <2>3. First(n, j + 1) = n - p
    <3>1. (j + 1) \div 2 = p /\ j + 1 # 1 /\ (j + 1) % 2 # 0
      BY <2>1
    <3>2. QED BY <1>1, <3>1, FirstIs
  <2>4. QED BY <1>2, <1>4, <2>1, <2>2, <2>3 DEF Start, Gap
<1>5. QED BY <1>3, <1>4

(* Where an arm is at a place: one translate, and one reversal of an odd   *)
(* design.                                                                 *)
RowsAt(n, a, j) == {r \in Rows(n) : WilliamsSquare(n)[r][j] = a}

LEMMA OneRowOfEach ==
  ASSUME NEW n \in Nat \ {0}, NEW a \in 0..(n - 1), NEW j \in 1..n
  PROVE  RowsAt(n, a, j) = {Start(n, a, j)} \cup
           (IF n % 2 = 1 THEN {n + Start(n, a, n + 1 - j)} ELSE {})
<1> DEFINE s == Start(n, a, j)
           f == Start(n, a, n + 1 - j)
           sq == WilliamsSquare(n)
<1>1. n + 1 - j \in 1..n
  OBVIOUS
<1>2. s \in 0..(n - 1) /\ f \in 0..(n - 1)
  BY <1>1, StartIs
<1>3. ASSUME NEW i \in 0..(n - 1)
      PROVE  sq[i][j] = a <=> i = s
  <2>1. Translate(n, i)[j] = a <=> i = Start(n, a, j)
    BY StartIs
  <2>2. sq[i] = Translate(n, i)
    BY RowIs
  <2>3. QED BY <2>1, <2>2
<1>4. ASSUME n % 2 = 1, NEW i \in 0..(n - 1)
      PROVE  sq[n + i][j] = a <=> i = f
  <2>1. sq[n + i] = FlipOf(Translate(n, i))
    BY <1>4, RowIs
  <2>2. sq[n + i][j] = Translate(n, i)[n + 1 - j]
    BY <2>1, FlippedIs
  <2>3. QED BY <1>1, <2>2, StartIs
<1> HIDE DEF s, f, sq
<1>5. 0..(n - 1) \subseteq Rows(n) /\ (n % 2 = 1 => n + f \in Rows(n))
  BY <1>2, RowIs
<1>6. ASSUME NEW r \in Rows(n), sq[r][j] = a
      PROVE  r = s \/ (n % 2 = 1 /\ r = n + f)
  <2>1. CASE r \in 0..(n - 1)
    BY <1>3, <1>6, <2>1
  <2>2. CASE r \notin 0..(n - 1)
    <3>1. n % 2 = 1 /\ r - n \in 0..(n - 1) /\ n + (r - n) = r
      BY <2>2, RowIs
    <3>2. r - n = f
      BY <1>4, <1>6, <3>1
    <3>3. QED BY <3>1, <3>2
  <2>3. QED BY <2>1, <2>2
<1>7. sq[s][j] = a /\ (n % 2 = 1 => sq[n + f][j] = a)
  BY <1>2, <1>3, <1>4
<1>8. RowsAt(n, a, j) = {r \in Rows(n) : sq[r][j] = a}
  BY DEF RowsAt, sq
<1>9. RowsAt(n, a, j) = {s} \cup (IF n % 2 = 1 THEN {n + f} ELSE {})
  BY <1>2, <1>5, <1>6, <1>7, <1>8
<1>10. QED BY <1>9 DEF s, f

(* Where one arm comes right before another: in one row of an even design, *)
(* and in two translates or two reversals of an odd one, half a round      *)
(* apart.                                                                  *)
RowsFollow(n, a, b) ==
  {r \in Rows(n) : \E j \in 1..(n - 1) : WilliamsSquare(n)[r][j] = a /\ WilliamsSquare(n)[r][j + 1] = b}

HalfApart(n, i, k) == i - k \in {(n - 1) \div 2, (n + 1) \div 2, -((n - 1) \div 2), -((n + 1) \div 2)}

\* the translates with an arm right before another
Leads(n, a, b) ==
  {i \in 0..(n - 1) : \E j \in 1..(n - 1) : Translate(n, i)[j] = a /\ Translate(n, i)[j + 1] = b}

LEMMA LeadsAre ==
  ASSUME NEW n \in Nat \ {0}, NEW a \in 0..(n - 1), NEW b \in 0..(n - 1), a # b
  PROVE  /\ Gap(n, a, b) \in 1..(n - 1)
         /\ n % 2 = 0 => Leads(n, a, b) =
              {Start(n, a, IF Gap(n, a, b) % 2 = 1 THEN Gap(n, a, b) ELSE n - Gap(n, a, b))}
         /\ n % 2 = 1 => Leads(n, a, b) =
              IF Gap(n, a, b) % 2 = 1 THEN {Start(n, a, Gap(n, a, b)), Start(n, a, n - Gap(n, a, b))}
              ELSE {}
<1> DEFINE g == Gap(n, a, b)
           s(j) == Start(n, a, j)
           Stride(j) == IF j % 2 = 1 THEN j ELSE n - j
           J == {j \in 1..(n - 1) : g = Stride(j)}
<1>1. g \in 1..(n - 1)
  BY DEF Gap
<1>2. ASSUME NEW i \in 0..(n - 1), NEW j \in 1..(n - 1)
      PROVE  (Translate(n, i)[j] = a /\ Translate(n, i)[j + 1] = b) <=> (i = s(j) /\ g = Stride(j))
  <2>1. j \in 1..n /\ j + 1 \in 1..n
    OBVIOUS
  <2>2. Translate(n, i)[j] = a <=> i = Start(n, a, j)
    BY <2>1, StartIs
  <2>3. Translate(n, i)[j + 1] = b <=> i = Start(n, b, j + 1)
    BY <2>1, StartIs
  <2>4. Start(n, a, j) = Start(n, b, j + 1) <=> g = Stride(j)
    BY StepsApart
  <2>5. QED BY <2>2, <2>3, <2>4
<1>3. \A j \in 1..(n - 1) : s(j) \in 0..(n - 1)
  BY StartIs
<1>4. Leads(n, a, b) = {s(j) : j \in J}
  <2> HIDE DEF g, s, Stride
  <2>1. \A i \in Leads(n, a, b) : i \in {s(j) : j \in J}
    BY <1>2 DEF Leads
  <2>2. \A j \in J : s(j) \in Leads(n, a, b)
    BY <1>2, <1>3 DEF Leads
  <2>3. QED BY <2>1, <2>2
<1> HIDE DEF g, s
<1>5. n % 2 = 0 => J = {IF g % 2 = 1 THEN g ELSE n - g}
  <2> SUFFICES ASSUME n % 2 = 0 PROVE J = {IF g % 2 = 1 THEN g ELSE n - g}
    OBVIOUS
  <2>1. PICK h \in Nat : n = 2 * h
    OBVIOUS
  <2>2. CASE g % 2 = 1
    <3>1. PICK p \in Nat : g = 2 * p + 1
      BY <1>1, <2>2
    <3>2. QED BY <1>1, <2>1, <2>2, <3>1
  <2>3. CASE g % 2 = 0
    <3>1. PICK p \in Nat : g = 2 * p
      BY <1>1, <2>3
    <3>2. QED BY <1>1, <2>1, <2>3, <3>1
  <2>4. QED BY <1>1, <2>2, <2>3
<1>6. n % 2 = 1 => J = IF g % 2 = 1 THEN {g, n - g} ELSE {}
  <2> SUFFICES ASSUME n % 2 = 1 PROVE J = IF g % 2 = 1 THEN {g, n - g} ELSE {}
    OBVIOUS
  <2>1. PICK h \in Nat : n = 2 * h + 1
    OBVIOUS
  <2>2. CASE g % 2 = 1
    <3>1. PICK p \in Nat : g = 2 * p + 1
      BY <1>1, <2>2
    <3>2. QED BY <1>1, <2>1, <2>2, <3>1
  <2>3. CASE g % 2 = 0
    <3>1. PICK p \in Nat : g = 2 * p
      BY <1>1, <2>3
    <3>2. QED BY <1>1, <2>1, <2>3, <3>1
  <2>4. QED BY <1>1, <2>2, <2>3
<1> HIDE DEF J
<1>7. n % 2 = 0 => Leads(n, a, b) = {s(IF g % 2 = 1 THEN g ELSE n - g)}
  BY <1>4, <1>5
<1>8. n % 2 = 1 => Leads(n, a, b) = IF g % 2 = 1 THEN {s(g), s(n - g)} ELSE {}
  BY <1>4, <1>6
<1>9. QED BY <1>1, <1>7, <1>8 DEF g, s

LEMMA FollowersAre ==
  ASSUME NEW n \in Nat \ {0}, NEW a \in 0..(n - 1), NEW b \in 0..(n - 1)
  PROVE  RowsFollow(n, a, b) = Leads(n, a, b) \cup
           (IF n % 2 = 1 THEN {n + i : i \in Leads(n, b, a)} ELSE {})
<1> DEFINE sq == WilliamsSquare(n)
<1>1. ASSUME NEW i \in 0..(n - 1), NEW x, NEW y
      PROVE  i \in Leads(n, x, y) <=> \E j \in 1..(n - 1) : sq[i][j] = x /\ sq[i][j + 1] = y
  <2>1. sq[i] = Translate(n, i)
    BY RowIs
  <2>2. QED BY <2>1 DEF Leads
<1>2. ASSUME n % 2 = 1, NEW i \in 0..(n - 1)
      PROVE  i \in Leads(n, b, a) <=> \E j \in 1..(n - 1) : sq[n + i][j] = a /\ sq[n + i][j + 1] = b
  <2> DEFINE t == Translate(n, i)
  <2>1. sq[n + i] = FlipOf(t)
    BY <1>2, RowIs
  <2>2. ASSUME NEW j \in 1..(n - 1)
        PROVE  /\ n - j \in 1..(n - 1) /\ n - (n - j) = j
               /\ sq[n + i][j] = t[(n - j) + 1] /\ sq[n + i][j + 1] = t[n - j]
    <3>1. j \in 1..n /\ j + 1 \in 1..n /\ n + 1 - j = (n - j) + 1 /\ n + 1 - (j + 1) = n - j
      OBVIOUS
    <3>2. FlipOf(t)[j] = t[n + 1 - j] /\ FlipOf(t)[j + 1] = t[n + 1 - (j + 1)]
      BY <3>1, FlippedIs
    <3>3. QED BY <2>1, <3>1, <3>2
  <2> HIDE DEF t
  <2>3. i \in Leads(n, b, a) <=> \E j \in 1..(n - 1) : t[j] = b /\ t[j + 1] = a
    BY DEF Leads, t
  <2>4. ASSUME NEW j \in 1..(n - 1), t[j] = b, t[j + 1] = a
        PROVE  \E k \in 1..(n - 1) : sq[n + i][k] = a /\ sq[n + i][k + 1] = b
    <3>1. n - j \in 1..(n - 1) /\ n - (n - j) = j
      BY <2>2
    <3>2. sq[n + i][n - j] = t[(n - (n - j)) + 1] /\ sq[n + i][(n - j) + 1] = t[n - (n - j)]
      BY <2>2, <3>1
    <3>3. sq[n + i][n - j] = a /\ sq[n + i][(n - j) + 1] = b
      BY <2>4, <3>1, <3>2
    <3>4. QED BY <3>1, <3>3
  <2>5. ASSUME NEW j \in 1..(n - 1), sq[n + i][j] = a, sq[n + i][j + 1] = b
        PROVE  \E k \in 1..(n - 1) : t[k] = b /\ t[k + 1] = a
    BY <2>2, <2>5
  <2>6. QED BY <2>3, <2>4, <2>5
<1> HIDE DEF sq
<1>3. /\ 0..(n - 1) \subseteq Rows(n)
      /\ n % 2 = 1 => \A i \in 0..(n - 1) : n + i \in Rows(n)
      /\ \A r \in Rows(n) : r \notin 0..(n - 1) => n % 2 = 1 /\ r - n \in 0..(n - 1) /\ n + (r - n) = r
  BY RowIs
<1>4. RowsFollow(n, a, b) = {r \in Rows(n) : \E j \in 1..(n - 1) : sq[r][j] = a /\ sq[r][j + 1] = b}
  BY DEF RowsFollow, sq
<1>5. Leads(n, a, b) \subseteq 0..(n - 1) /\ Leads(n, b, a) \subseteq 0..(n - 1)
  BY DEF Leads
<1>6. ASSUME NEW r \in RowsFollow(n, a, b)
      PROVE  r \in Leads(n, a, b) \/ (n % 2 = 1 /\ \E i \in Leads(n, b, a) : r = n + i)
  <2>1. r \in Rows(n) /\ \E j \in 1..(n - 1) : sq[r][j] = a /\ sq[r][j + 1] = b
    BY <1>4
  <2>2. CASE r \in 0..(n - 1)
    BY <1>1, <2>1, <2>2
  <2>3. CASE r \notin 0..(n - 1)
    <3>1. n % 2 = 1 /\ r - n \in 0..(n - 1) /\ n + (r - n) = r
      BY <1>3, <2>1, <2>3
    <3>2. r - n \in Leads(n, b, a)
      BY <1>2, <2>1, <3>1
    <3>3. QED BY <3>1, <3>2
  <2>4. QED BY <2>2, <2>3
<1>7. \A r \in Leads(n, a, b) : r \in RowsFollow(n, a, b)
  BY <1>1, <1>3, <1>4, <1>5
<1>8. n % 2 = 1 => \A i \in Leads(n, b, a) : n + i \in RowsFollow(n, a, b)
  BY <1>2, <1>3, <1>4, <1>5
<1>9. QED BY <1>6, <1>7, <1>8

LEMMA HalfARoundApart ==
  ASSUME NEW n \in Nat \ {0}, n % 2 = 1, NEW a \in 0..(n - 1), NEW g \in 1..(n - 1), g % 2 = 1
  PROVE  HalfApart(n, Start(n, a, g), Start(n, a, n - g))
<1>1. PICK h \in Nat : n = 2 * h + 1
  OBVIOUS
<1>2. PICK p \in Nat : g = 2 * p + 1
  OBVIOUS
<1>3. g \in 1..n /\ n - g \in 1..n
  OBVIOUS
<1>4. First(n, g) = IF p = 0 THEN 0 ELSE n - p
  <2>1. g \div 2 = p /\ (g = 1 <=> p = 0) /\ g % 2 # 0
    BY <1>2
  <2>2. QED BY <1>3, <2>1, FirstIs
<1>5. First(n, n - g) = h - p
  <2>1. n - g = 2 * (h - p)
    BY <1>1, <1>2
  <2>2. (n - g) \div 2 = h - p /\ n - g # 1 /\ (n - g) % 2 = 0
    BY <2>1
  <2>3. QED BY <1>3, <2>2, FirstIs
<1>6. (n - 1) \div 2 = h /\ (n + 1) \div 2 = h + 1
  BY <1>1
<1>7. p <= h - 1
  BY <1>1, <1>2
<1>8. QED BY <1>1, <1>4, <1>5, <1>6, <1>7 DEF HalfApart, Start

LEMMA OneRowFollows ==
  ASSUME NEW n \in Nat \ {0}, n % 2 = 0, NEW a \in 0..(n - 1), NEW b \in 0..(n - 1), a # b
  PROVE  \E i \in 0..(n - 1) : RowsFollow(n, a, b) = {i}
<1> DEFINE g == Gap(n, a, b)
           j == IF g % 2 = 1 THEN g ELSE n - g
<1>1. g \in 1..(n - 1)
  BY LeadsAre
<1>2. j \in 1..(n - 1) /\ j \in 1..n
  BY <1>1
<1>3. Leads(n, a, b) = {Start(n, a, j)}
  BY LeadsAre
<1>4. RowsFollow(n, a, b) = Leads(n, a, b)
  <2>1. n % 2 # 1
    OBVIOUS
  <2>2. QED BY <2>1, FollowersAre
<1> HIDE DEF j
<1>5. Start(n, a, j) \in 0..(n - 1)
  BY <1>2, StartIs
<1>6. QED BY <1>3, <1>4, <1>5

LEMMA TwoRowsFollow ==
  ASSUME NEW n \in Nat \ {0}, n % 2 = 1, NEW a \in 0..(n - 1), NEW b \in 0..(n - 1), a # b
  PROVE  \E i, k \in 0..(n - 1) :
           HalfApart(n, i, k) /\ RowsFollow(n, a, b) \in {{i, k}, {n + i, n + k}}
<1> DEFINE g == Gap(n, a, b)
           back == Gap(n, b, a)
<1>1. g \in 1..(n - 1) /\ back \in 1..(n - 1) /\ back = n - g
  BY DEF Gap
<1>2. ASSUME NEW j \in 1..(n - 1)
      PROVE  Start(n, a, j) \in 0..(n - 1) /\ Start(n, b, j) \in 0..(n - 1)
  <2>1. j \in 1..n
    OBVIOUS
  <2>2. QED BY <2>1, StartIs
<1> HIDE DEF g, back
<1>3. RowsFollow(n, a, b) = Leads(n, a, b) \cup {n + i : i \in Leads(n, b, a)}
  BY FollowersAre
<1>4. Leads(n, a, b) = IF g % 2 = 1 THEN {Start(n, a, g), Start(n, a, n - g)} ELSE {}
  BY LeadsAre DEF g
<1>5. Leads(n, b, a) = IF back % 2 = 1 THEN {Start(n, b, back), Start(n, b, n - back)} ELSE {}
  BY LeadsAre DEF back
<1>6. (g % 2 = 1 <=> back % 2 = 0) /\ (back % 2 = 1 \/ back % 2 = 0)
  BY <1>1
<1>7. n - g \in 1..(n - 1) /\ n - back \in 1..(n - 1)
  BY <1>1
<1>8. CASE g % 2 = 1
  <2> DEFINE i == Start(n, a, g)
             k == Start(n, a, n - g)
  <2>1. HalfApart(n, i, k)
    BY <1>1, <1>8, HalfARoundApart
  <2>2. i \in 0..(n - 1) /\ k \in 0..(n - 1)
    BY <1>1, <1>2, <1>7
  <2>3. Leads(n, b, a) = {} /\ Leads(n, a, b) = {i, k}
    BY <1>4, <1>5, <1>6, <1>8
  <2> HIDE DEF i, k
  <2>4. RowsFollow(n, a, b) = {i, k}
    BY <1>3, <2>3
  <2>5. QED BY <2>1, <2>2, <2>4
<1>9. CASE back % 2 = 1
  <2> DEFINE i == Start(n, b, back)
             k == Start(n, b, n - back)
  <2>1. HalfApart(n, i, k)
    BY <1>1, <1>9, HalfARoundApart
  <2>2. i \in 0..(n - 1) /\ k \in 0..(n - 1)
    BY <1>1, <1>2, <1>7
  <2>3. Leads(n, b, a) = {i, k} /\ Leads(n, a, b) = {}
    BY <1>4, <1>5, <1>6, <1>9
  <2> HIDE DEF i, k
  <2>4. RowsFollow(n, a, b) = {n + i, n + k}
    BY <1>3, <2>3
  <2>5. QED BY <2>1, <2>2, <2>4
<1>10. QED BY <1>6, <1>8, <1>9

-----------------------------------------------------------------------------
(* Sums over rows: of one or two, of a constant and the rows that get one  *)
(* more, of sums, and of a value that the two members of a pair share.     *)
LEMMA SumOverOneOrTwo ==
  ASSUME NEW R, NEW f, NEW r \in R, NEW s \in R, R = {r, s}, \A x \in R : f[x] \in Int
  PROVE  SumFunctionOnSet(f, R) = IF r = s THEN f[r] ELSE f[r] + f[s]
<1>1. IsFiniteSet(R) /\ IsFiniteSet(R \ {r}) /\ IsFiniteSet({}) /\ IsFiniteSet({s})
  <2>1. IsFiniteSet({r}) /\ IsFiniteSet({s}) /\ IsFiniteSet({})
    BY FS_Singleton, FS_EmptySet
  <2>2. {r, s} = {r} \cup {s}
    OBVIOUS
  <2>3. IsFiniteSet({r} \cup {s})
    BY <2>1, FS_AddElement
  <2>4. IsFiniteSet(R)
    BY <2>2, <2>3
  <2>5. QED BY <2>1, <2>4, FS_RemoveElement
<1>2. SumFunctionOnSet(f, R) = f[r] + SumFunctionOnSet(f, R \ {r})
  BY <1>1, SumSplit
<1>3. SumFunctionOnSet(f, {}) = 0
  BY SumEmpty
<1>4. CASE r = s
  <2>1. R \ {r} = {}
    BY <1>4
  <2>2. QED BY <1>2, <1>3, <1>4, <2>1
<1>5. CASE r # s
  <2>1. R \ {r} = {s} /\ {s} \ {s} = {} /\ s \in {s}
    BY <1>5
  <2>2. \A x \in {s} : f[x] \in Int
    OBVIOUS
  <2>3. SumFunctionOnSet(f, {s}) = f[s] + SumFunctionOnSet(f, {s} \ {s})
    BY <1>1, <2>1, <2>2, SumSplit
  <2>4. SumFunctionOnSet(f, R) = f[r] + (f[s] + 0)
    BY <1>2, <1>3, <2>1, <2>3
  <2>5. f[r] \in Int /\ f[s] \in Int
    OBVIOUS
  <2>6. f[r] + (f[s] + 0) = f[r] + f[s]
    BY <2>5
  <2>7. QED BY <1>5, <2>4, <2>6
<1>6. QED BY <1>4, <1>5

LEMMA SumOfExtras ==
  ASSUME NEW S, IsFiniteSet(S), NEW E, NEW c \in Int, NEW f,
         \A x \in S : f[x] = c + (IF x \in E THEN 1 ELSE 0)
  PROVE  SumFunctionOnSet(f, S) = c * Cardinality(S) + Cardinality(S \cap E)
<1> DEFINE Holds(s) == SumFunctionOnSet(f, s) = c * Cardinality(s) + Cardinality(s \cap E)
           B == {s \in SUBSET S : ~Holds(s)}
<1>1. SUFFICES ASSUME B # {} PROVE FALSE
  <2>1. S \notin B
    BY <1>1
  <2>2. QED BY <2>1
<1>2. PICK s \in B : \A x \in s : s \ {x} \notin B
  <2> HIDE DEF B
  <2>1. B \subseteq SUBSET S
    BY DEF B
  <2>2. QED BY <1>1, <2>1, MinimalSubset
<1>3. IsFiniteSet(s) /\ s \subseteq S /\ ~Holds(s)
  BY <1>2, FS_Subset
<1>4. s # {}
  <2>1. SUFFICES ASSUME s = {} PROVE FALSE
    OBVIOUS
  <2>2. Cardinality({}) = 0 /\ {} \cap E = {} /\ SumFunctionOnSet(f, {}) = 0
    BY FS_EmptySet, SumEmpty
  <2>3. c * 0 + 0 = 0
    OBVIOUS
  <2>4. Holds({})
    BY <2>2, <2>3
  <2>5. QED BY <1>3, <2>1, <2>4
<1>5. PICK x \in s : TRUE
  BY <1>4
<1> DEFINE t == s \ {x}
<1>6. Holds(t)
  BY <1>2, <1>3
<1>7. IsFiniteSet(t) /\ Cardinality(t) \in Nat /\ Cardinality(s) = Cardinality(t) + 1
  <2>1. IsFiniteSet(t) /\ Cardinality(t) = Cardinality(s) - 1
    BY <1>3, FS_RemoveElement
  <2>2. Cardinality(s) \in Nat /\ Cardinality(t) \in Nat
    BY <1>3, <2>1, FS_CardinalityType
  <2>3. QED BY <2>1, <2>2
<1>8. SumFunctionOnSet(f, s) = f[x] + SumFunctionOnSet(f, t)
  <2>1. \A y \in s : f[y] \in Int
    BY <1>3
  <2>2. QED BY <1>3, <2>1, SumSplit
<1>9. /\ Cardinality(s \cap E) = Cardinality(t \cap E) + (IF x \in E THEN 1 ELSE 0)
      /\ Cardinality(t \cap E) \in Nat
  <2>1. IsFiniteSet(t \cap E)
    BY <1>7, FS_Intersection
  <2>2. Cardinality(t \cap E) \in Nat
    BY <2>1, FS_CardinalityType
  <2>3. CASE x \in E
    <3>1. s \cap E = (t \cap E) \cup {x} /\ x \notin t \cap E
      BY <2>3
    <3>2. QED BY <2>1, <2>2, <2>3, <3>1, FS_AddElement
  <2>4. CASE x \notin E
    <3>1. s \cap E = t \cap E
      BY <2>4
    <3>2. Cardinality(s \cap E) = Cardinality(t \cap E)
      BY <3>1
    <3>3. QED BY <2>2, <2>4, <3>2
  <2>5. QED BY <2>3, <2>4
<1>10. f[x] = c + (IF x \in E THEN 1 ELSE 0)
  BY <1>3
<1> DEFINE m == Cardinality(t)
<1>11. c * (m + 1) = c * m + c /\ c * m \in Int
  BY <1>7
<1>12. SumFunctionOnSet(f, t) = c * m + Cardinality(t \cap E)
  BY <1>6
<1> HIDE DEF m
<1>13. SumFunctionOnSet(f, s) = c * (m + 1) + Cardinality(s \cap E)
  BY <1>8, <1>9, <1>10, <1>11, <1>12
<1>14. Holds(s)
  BY <1>7, <1>13 DEF m
<1>15. QED BY <1>3, <1>14

LEMMA SumOfSums ==
  ASSUME NEW S, IsFiniteSet(S), NEW f, NEW g, NEW h,
         \A x \in S : f[x] \in Int /\ g[x] \in Int /\ h[x] = f[x] + g[x]
  PROVE  SumFunctionOnSet(h, S) = SumFunctionOnSet(f, S) + SumFunctionOnSet(g, S)
<1> DEFINE Holds(s) == SumFunctionOnSet(h, s) = SumFunctionOnSet(f, s) + SumFunctionOnSet(g, s)
           B == {s \in SUBSET S : ~Holds(s)}
<1>1. SUFFICES ASSUME B # {} PROVE FALSE
  <2>1. S \notin B
    BY <1>1
  <2>2. QED BY <2>1
<1>2. PICK s \in B : \A x \in s : s \ {x} \notin B
  <2> HIDE DEF B
  <2>1. B \subseteq SUBSET S
    BY DEF B
  <2>2. QED BY <1>1, <2>1, MinimalSubset
<1>3. IsFiniteSet(s) /\ s \subseteq S /\ ~Holds(s)
  BY <1>2, FS_Subset
<1>4. s # {}
  <2>1. SumFunctionOnSet(f, {}) = 0 /\ SumFunctionOnSet(g, {}) = 0 /\ SumFunctionOnSet(h, {}) = 0
    BY SumEmpty
  <2>2. Holds({})
    BY <2>1
  <2>3. QED BY <1>3, <2>2
<1>5. PICK x \in s : TRUE
  BY <1>4
<1> DEFINE t == s \ {x}
<1>6. Holds(t) /\ IsFiniteSet(t)
  BY <1>2, <1>3, FS_RemoveElement
<1>7. \A y \in s : f[y] \in Int /\ g[y] \in Int /\ h[y] \in Int
  BY <1>3
<1>8. /\ SumFunctionOnSet(f, s) = f[x] + SumFunctionOnSet(f, t)
      /\ SumFunctionOnSet(g, s) = g[x] + SumFunctionOnSet(g, t)
      /\ SumFunctionOnSet(h, s) = h[x] + SumFunctionOnSet(h, t)
  BY <1>3, <1>7, SumSplit
<1>9. SumFunctionOnSet(f, t) \in Int /\ SumFunctionOnSet(g, t) \in Int
  <2>1. \A y \in t : f[y] \in Int /\ g[y] \in Int
    BY <1>7
  <2>2. QED BY <1>6, <2>1, SumTyped
<1>10. h[x] = f[x] + g[x] /\ f[x] \in Int /\ g[x] \in Int
  BY <1>3
<1>11. Holds(s)
  BY <1>6, <1>8, <1>9, <1>10
<1>12. QED BY <1>3, <1>11

LEMMA NothingSummed ==
  ASSUME NEW S, IsFiniteSet(S), NEW f, \A x \in S : f[x] \in Nat, SumFunctionOnSet(f, S) = 0,
         NEW x \in S
  PROVE  f[x] = 0
<1>1. SumFunctionOnSet(f, S) = f[x] + SumFunctionOnSet(f, S \ {x})
  <2>1. \A y \in S : f[y] \in Int
    OBVIOUS
  <2>2. QED BY <2>1, SumSplit
<1>2. SumFunctionOnSet(f, S \ {x}) \in Nat
  <2>1. IsFiniteSet(S \ {x}) /\ \A y \in S \ {x} : f[y] \in Nat
    BY FS_RemoveElement
  <2>2. QED BY <2>1, SumNatural
<1>3. QED BY <1>1, <1>2

LEMMA SumOfZeros ==
  ASSUME NEW S, IsFiniteSet(S), NEW f, \A x \in S : f[x] = 0
  PROVE  SumFunctionOnSet(f, S) = 0
<1>1. \A x \in S : f[x] \in Nat /\ f[x] = f[x] + f[x] /\ f[x] \in Int
  OBVIOUS
<1>2. SumFunctionOnSet(f, S) = SumFunctionOnSet(f, S) + SumFunctionOnSet(f, S)
  BY <1>1, SumOfSums
<1>3. SumFunctionOnSet(f, S) \in Int
  BY <1>1, SumTyped
<1>4. \A x \in Int : x = x + x => x = 0
  OBVIOUS
<1>5. QED BY <1>2, <1>3, <1>4

Paired(T) ==
  /\ \A p \in T : \E i, k \in p : i # k /\ p = {i, k}
  /\ \A p, q \in T : p # q => p \cap q = {}

LEMMA PairedSum ==
  ASSUME NEW T, IsFiniteSet(T), Paired(T), NEW g, \A p \in T : g[p] \in Int,
         NEW w, \A p \in T : \A i \in p : w[i] = g[p]
  PROVE  IsFiniteSet(UNION T) /\ SumFunctionOnSet(w, UNION T) = 2 * SumFunctionOnSet(g, T)
<1> DEFINE Holds(s) == SumFunctionOnSet(w, UNION s) = 2 * SumFunctionOnSet(g, s)
           B == {s \in SUBSET T : ~Holds(s)}
<1>1. ASSUME NEW s \in SUBSET T
      PROVE  IsFiniteSet(s) /\ IsFiniteSet(UNION s)
  <2>1. IsFiniteSet(s)
    BY FS_Subset
  <2>2. ASSUME NEW p \in s PROVE IsFiniteSet(p)
    <3>1. PICK i \in p, k \in p : p = {i, k}
      BY <2>2 DEF Paired
    <3>2. IsFiniteSet({i} \cup {k}) /\ p = {i} \cup {k}
      BY <3>1, FS_Singleton, FS_AddElement
    <3>3. QED BY <3>2
  <2>3. QED BY <2>1, <2>2, FS_UNION
<1>2. ASSUME NEW s \in SUBSET T, NEW i \in UNION s
      PROVE  w[i] \in Int
  OBVIOUS
<1>3. SUFFICES ASSUME B # {} PROVE FALSE
  <2>1. T \notin B
    BY <1>3
  <2>2. QED BY <1>1, <2>1
<1>4. PICK s \in B : \A x \in s : s \ {x} \notin B
  <2> HIDE DEF B
  <2>1. B \subseteq SUBSET T
    BY DEF B
  <2>2. QED BY <1>3, <2>1, MinimalSubset
<1>5. s \subseteq T /\ ~Holds(s) /\ IsFiniteSet(s) /\ IsFiniteSet(UNION s)
  BY <1>1, <1>4
<1>6. s # {}
  <2>1. SUFFICES ASSUME s = {} PROVE FALSE
    OBVIOUS
  <2>2. UNION s = {} /\ SumFunctionOnSet(g, {}) = 0 /\ SumFunctionOnSet(w, {}) = 0
    BY <2>1, SumEmpty
  <2>3. SumFunctionOnSet(w, UNION s) = 0 /\ SumFunctionOnSet(g, s) = 0
    BY <2>1, <2>2
  <2>4. QED BY <1>5, <2>3
<1>7. PICK p \in s : TRUE
  BY <1>6
<1> DEFINE t == s \ {p}
<1>8. t \subseteq T /\ Holds(t) /\ IsFiniteSet(UNION t)
  BY <1>1, <1>4, <1>5
<1>9. PICK i \in p, k \in p : i # k /\ p = {i, k}
  BY <1>5 DEF Paired
<1>10. \A q \in t : i \notin q /\ k \notin q
  BY <1>5, <1>9 DEF Paired
<1>11. /\ i \in UNION s /\ k \in (UNION s) \ {i}
       /\ ((UNION s) \ {i}) \ {k} = UNION t
  <2>1. UNION s = (UNION t) \cup {i, k}
    BY <1>9
  <2>2. i \notin UNION t /\ k \notin UNION t
    BY <1>10
  <2>3. QED BY <1>9, <2>1, <2>2
<1>12. \A x \in UNION s : w[x] \in Int
  BY <1>2, <1>5
<1>13. SumFunctionOnSet(w, UNION s) = w[i] + SumFunctionOnSet(w, (UNION s) \ {i})
  BY <1>5, <1>11, <1>12, SumSplit
<1>14. SumFunctionOnSet(w, (UNION s) \ {i}) = w[k] + SumFunctionOnSet(w, UNION t)
  <2> DEFINE R == (UNION s) \ {i}
  <2>1. IsFiniteSet(R) /\ k \in R /\ R \ {k} = UNION t /\ \A x \in R : w[x] \in Int
    BY <1>5, <1>11, <1>12, FS_RemoveElement
  <2> HIDE DEF R
  <2>2. SumFunctionOnSet(w, R) = w[k] + SumFunctionOnSet(w, R \ {k})
    BY <2>1, SumSplit
  <2>3. QED BY <2>1, <2>2 DEF R
<1>15. w[i] = g[p] /\ w[k] = g[p] /\ g[p] \in Int
  BY <1>5, <1>9
<1>16. SumFunctionOnSet(g, s) = g[p] + SumFunctionOnSet(g, t)
  <2>1. \A q \in s : g[q] \in Int
    BY <1>5
  <2>2. QED BY <1>5, <1>7, <2>1, SumSplit
<1>17. SumFunctionOnSet(g, t) \in Int /\ SumFunctionOnSet(w, UNION t) = 2 * SumFunctionOnSet(g, t)
  <2>1. IsFiniteSet(t) /\ \A q \in t : g[q] \in Int
    BY <1>1, <1>8
  <2>2. QED BY <1>8, <2>1, SumTyped
<1> HIDE DEF t
<1>18. SumFunctionOnSet(w, UNION s) = 2 * SumFunctionOnSet(g, s)
  BY <1>13, <1>14, <1>15, <1>16, <1>17
<1>19. QED BY <1>5, <1>18

LEMMA PairedCount ==
  ASSUME NEW T, IsFiniteSet(T), Paired(T)
  PROVE  IsFiniteSet(UNION T) /\ Cardinality(UNION T) = 2 * Cardinality(T)
<1> DEFINE g == [p \in T |-> 1]
           w == [i \in UNION T |-> 1]
           U == UNION T
<1>1. IsFiniteSet(U) /\ SumFunctionOnSet(w, U) = 2 * SumFunctionOnSet(g, T)
  <2>1. \A p \in T : g[p] \in Int /\ \A i \in p : w[i] = g[p]
    OBVIOUS
  <2> HIDE DEF g, w
  <2>2. QED BY <2>1, PairedSum
<1>2. /\ \A p \in T : g[p] = 1 + (IF p \in {} THEN 1 ELSE 0)
      /\ \A i \in U : w[i] = 1 + (IF i \in {} THEN 1 ELSE 0)
  OBVIOUS
<1> HIDE DEF g, w, U
<1>3. /\ SumFunctionOnSet(g, T) = 1 * Cardinality(T) + Cardinality(T \cap {})
      /\ SumFunctionOnSet(w, U) = 1 * Cardinality(U) + Cardinality(U \cap {})
  <2>1. SumFunctionOnSet(g, T) = 1 * Cardinality(T) + Cardinality(T \cap {})
    BY ONLY IsFiniteSet(T), <1>2, 1 \in Int, SumOfExtras
  <2>2. SumFunctionOnSet(w, U) = 1 * Cardinality(U) + Cardinality(U \cap {})
    BY <1>1, <1>2, 1 \in Int, SumOfExtras
  <2>3. QED BY <2>1, <2>2
<1>4. T \cap {} = {} /\ U \cap {} = {} /\ Cardinality({}) = 0
  BY FS_EmptySet
<1>5. Cardinality(T) \in Nat /\ Cardinality(U) \in Nat
  BY <1>1, FS_CardinalityType
<1>6. QED BY <1>1, <1>3, <1>4, <1>5 DEF U

-----------------------------------------------------------------------------
(* What a reader of the schedule counts: a row of the square appears       *)
(* cycles times, and once more when it is of the remainder.                *)
More(extra, r) == IF r \in extra THEN 1 ELSE 0

Counted(square, c, extra, R) == SumFunction([i \in R |-> RowPool(square, c, extra)[i]])

LEMMA RowsCounted ==
  ASSUME NEW square, NEW c \in Nat, NEW extra, NEW R, R \subseteq DOMAIN square,
         NEW r, NEW s, R = {r, s}
  PROVE  Counted(square, c, extra, R) =
           IF r = s THEN c + More(extra, r) ELSE (c + More(extra, r)) + (c + More(extra, s))
<1> DEFINE f == [i \in R |-> RowPool(square, c, extra)[i]]
<1>1. \A i \in R : f[i] = c + More(extra, i)
  BY DEF RowPool, More
<1>2. DOMAIN f = R /\ r \in R /\ s \in R
  OBVIOUS
<1>3. \A i \in R : f[i] \in Int
  BY <1>1 DEF More
<1>4. Counted(square, c, extra, R) = SumFunction(f)
  BY DEF Counted
<1> HIDE DEF f
<1>5. SumFunctionOnSet(f, R) = IF r = s THEN f[r] ELSE f[r] + f[s]
  BY <1>2, <1>3, SumOverOneOrTwo
<1>6. SumFunction(f) = SumFunctionOnSet(f, R)
  BY <1>2 DEF SumFunction
<1>7. QED BY <1>1, <1>2, <1>4, <1>5, <1>6

LEMMA RowCounted ==
  ASSUME NEW square, NEW c \in Nat, NEW extra, NEW r \in DOMAIN square
  PROVE  Counted(square, c, extra, {r}) = c + More(extra, r)
<1>1. {r} \subseteq DOMAIN square /\ {r} = {r, r}
  OBVIOUS
<1>2. QED BY <1>1, RowsCounted

LEMMA LevelBetween ==
  ASSUME NEW c \in Int, NEW counts, counts \subseteq {c, c + 1}
  PROVE  Level(counts)
<1>1. SUFFICES ASSUME counts # {} PROVE Max(counts) - Min(counts) <= 1
  BY DEF Level
<1>2. \E x \in counts : \A y \in counts : x >= y
  <2>1. CASE c + 1 \in counts
    <3>1. \A y \in counts : c + 1 >= y
      OBVIOUS
    <3>2. QED BY <2>1, <3>1
  <2>2. CASE c + 1 \notin counts
    <3>1. counts = {c}
      BY <1>1, <2>2
    <3>2. QED BY <3>1
  <2>3. QED BY <2>1, <2>2
<1>3. \E x \in counts : \A y \in counts : x =< y
  <2>1. CASE c \in counts
    <3>1. \A y \in counts : c =< y
      OBVIOUS
    <3>2. QED BY <2>1, <3>1
  <2>2. CASE c \notin counts
    <3>1. counts = {c + 1}
      BY <1>1, <2>2
    <3>2. QED BY <3>1
  <2>3. QED BY <2>1, <2>2
<1>4. Max(counts) \in counts
  BY <1>2 DEF Max
<1>5. Min(counts) \in counts
  BY <1>3 DEF Min
<1>6. Max(counts) \in {c, c + 1} /\ Min(counts) \in {c, c + 1}
  BY <1>4, <1>5
<1>7. QED BY <1>6

\* no place and no succession gets two of the remainder's rows
Spread(n, extra) ==
  /\ \A i, k \in 0..(n - 1) : ~(i \in extra /\ n + k \in extra)
  /\ \A i, k \in 0..(n - 1) : HalfApart(n, i, k) =>
       ~(i \in extra /\ k \in extra) /\ ~(n + i \in extra /\ n + k \in extra)

LEMMA PositionsCounted ==
  ASSUME NEW n \in Nat \ {0}, NEW c \in Nat, NEW extra, n % 2 = 1 => Spread(n, extra),
         NEW a \in 0..(n - 1), NEW j \in 1..n
  PROVE  PositionCount(WilliamsSquare(n), RowPool(WilliamsSquare(n), c, extra), a, j) \in
           IF n % 2 = 1 THEN {2 * c, 2 * c + 1} ELSE {c, c + 1}
<1> DEFINE sq == WilliamsSquare(n)
           pool == RowPool(sq, c, extra)
           R == RowsAt(n, a, j)
           s == Start(n, a, j)
           f == Start(n, a, n + 1 - j)
<1>1. DOMAIN sq = Rows(n) /\ R \subseteq DOMAIN sq
  BY RowIs DEF RowsAt
<1>2. PositionCount(sq, pool, a, j) = Counted(sq, c, extra, R)
  BY <1>1 DEF PositionCount, RowsAt, Counted
<1>3. s \in 0..(n - 1) /\ f \in 0..(n - 1)
  <2>1. n + 1 - j \in 1..n
    OBVIOUS
  <2>2. QED BY <2>1, StartIs
<1>4. R = {s} \cup (IF n % 2 = 1 THEN {n + f} ELSE {})
  BY OneRowOfEach
<1> HIDE DEF R, s, f, sq
<1>5. CASE n % 2 = 1
  <2>1. R = {s, n + f} /\ s # n + f
    BY <1>3, <1>4, <1>5
  <2>2. Counted(sq, c, extra, R) = (c + More(extra, s)) + (c + More(extra, n + f))
    BY <1>1, <2>1, RowsCounted
  <2>3. ~(s \in extra /\ n + f \in extra)
    BY <1>3, <1>5 DEF Spread
  <2>4. (c + More(extra, s)) + (c + More(extra, n + f)) \in {2 * c, 2 * c + 1}
    BY <2>3 DEF More
  <2>5. QED BY <1>2, <1>5, <2>2, <2>4 DEF sq
<1>6. CASE n % 2 # 1
  <2>1. R = {s} /\ s \in DOMAIN sq
    BY <1>1, <1>4, <1>6
  <2>2. Counted(sq, c, extra, R) = c + More(extra, s)
    BY <2>1, RowCounted
  <2>3. c + More(extra, s) \in {c, c + 1}
    BY DEF More
  <2>4. QED BY <1>2, <1>6, <2>2, <2>3 DEF sq
<1>7. QED BY <1>5, <1>6

LEMMA FollowersCounted ==
  ASSUME NEW n \in Nat \ {0}, NEW c \in Nat, NEW extra, n % 2 = 1 => Spread(n, extra),
         NEW a \in 0..(n - 1), NEW b \in 0..(n - 1), a # b
  PROVE  FollowCount(WilliamsSquare(n), RowPool(WilliamsSquare(n), c, extra), a, b) \in
           IF n % 2 = 1 THEN {2 * c, 2 * c + 1} ELSE {c, c + 1}
<1> DEFINE sq == WilliamsSquare(n)
           pool == RowPool(sq, c, extra)
           R == RowsFollow(n, a, b)
<1>1. DOMAIN sq = Rows(n) /\ R \subseteq DOMAIN sq
  BY RowIs DEF RowsFollow
<1>2. \A r \in DOMAIN sq : Len(sq[r]) = n
  <2>1. ASSUME NEW r \in Rows(n) PROVE Len(sq[r]) = n
    <3>1. CASE r \in 0..(n - 1)
      BY <3>1, RowIs, TranslateIs
    <3>2. CASE r \notin 0..(n - 1)
      <4>1. n % 2 = 1 /\ r - n \in 0..(n - 1) /\ n + (r - n) = r
        BY <3>2, RowIs
      <4>2. sq[n + (r - n)] = FlipOf(Translate(n, r - n))
        BY <4>1, RowIs
      <4>3. QED BY <4>1, <4>2, FlippedIs
    <3>3. QED BY <3>1, <3>2
  <2>2. QED BY <1>1, <2>1
<1>3. FollowCount(sq, pool, a, b) = Counted(sq, c, extra, R)
  <2>1. R = {r \in DOMAIN sq : \E j \in 1 .. (Len(sq[r]) - 1) : sq[r][j] = a /\ sq[r][j + 1] = b}
    BY <1>1, <1>2 DEF RowsFollow
  <2> HIDE DEF R, sq
  <2>2. QED BY <2>1 DEF FollowCount, Counted
<1> HIDE DEF R, sq
<1>4. CASE n % 2 = 1
  <2>1. PICK i \in 0..(n - 1), k \in 0..(n - 1) :
               HalfApart(n, i, k) /\ R \in {{i, k}, {n + i, n + k}}
    BY <1>4, TwoRowsFollow DEF R
  <2>2. i # k /\ n + i # n + k
    <3>1. n >= 3
      BY <1>4
    <3>2. (n - 1) \div 2 >= 1 /\ (n + 1) \div 2 >= 1
      BY <3>1
    <3>3. i - k # 0
      BY <2>1, <3>2 DEF HalfApart
    <3>4. QED BY <3>3
  <2>3. /\ ~(i \in extra /\ k \in extra)
        /\ ~(n + i \in extra /\ n + k \in extra)
    BY <1>4, <2>1 DEF Spread
  <2>4. ASSUME NEW r, NEW s, R = {r, s}, r # s, ~(r \in extra /\ s \in extra)
        PROVE  FollowCount(sq, pool, a, b) \in {2 * c, 2 * c + 1}
    <3>1. Counted(sq, c, extra, R) = (c + More(extra, r)) + (c + More(extra, s))
      <4>1. R \subseteq DOMAIN sq /\ R = {r, s}
        BY <1>1, <2>4
      <4>2. Counted(sq, c, extra, R) =
              IF r = s THEN c + More(extra, r) ELSE (c + More(extra, r)) + (c + More(extra, s))
        BY <4>1, RowsCounted
      <4>3. QED BY <2>4, <4>2
    <3>2. (c + More(extra, r)) + (c + More(extra, s)) \in {2 * c, 2 * c + 1}
      BY <2>4 DEF More
    <3>3. QED BY <1>3, <3>1, <3>2
  <2>5. FollowCount(sq, pool, a, b) \in {2 * c, 2 * c + 1}
    BY <2>1, <2>2, <2>3, <2>4
  <2>6. QED BY <1>4, <2>5 DEF sq
<1>5. CASE n % 2 # 1
  <2>1. n % 2 = 0
    BY <1>5
  <2>2. PICK i \in 0..(n - 1) : R = {i} /\ i \in DOMAIN sq
    <3>1. \E i \in 0..(n - 1) : RowsFollow(n, a, b) = {i}
      BY <2>1, OneRowFollows
    <3>2. QED BY <1>1, <3>1 DEF R
  <2>3. Counted(sq, c, extra, R) = c + More(extra, i)
    BY <2>2, RowCounted
  <2>4. c + More(extra, i) \in {c, c + 1}
    BY DEF More
  <2>5. QED BY <1>3, <1>5, <2>3, <2>4 DEF sq
<1>6. QED BY <1>4, <1>5

(* An even design is balanced with any remainder, an odd one with a spread *)
(* remainder.                                                              *)
LEMMA SpreadIsBalanced ==
  ASSUME NEW d, NEW n \in Nat \ {0}, NEW c \in Nat, NEW extra, n % 2 = 1 => Spread(n, extra),
         d.arms = n, d.pool = RowPool(WilliamsSquare(n), c, extra)
  PROVE  Balanced(d)
<1> DEFINE sq == WilliamsSquare(n)
           arms == 0..(n - 1)
           positions(j) == {PositionCount(sq, d.pool, a, j) : a \in arms}
           successions == {FollowCount(sq, d.pool, p[1], p[2]) : p \in {q \in arms \X arms : q[1] # q[2]}}
           low == IF n % 2 = 1 THEN 2 * c ELSE c
<1>1. low \in Int
  OBVIOUS
<1>2. ASSUME NEW j \in 1..n PROVE Level(positions(j))
  <2>1. \A a \in arms : PositionCount(sq, d.pool, a, j) \in {low, low + 1}
    BY PositionsCounted
  <2>2. positions(j) \subseteq {low, low + 1}
    BY <2>1
  <2> HIDE DEF positions, low
  <2>3. QED BY <1>1, <2>2, LevelBetween
<1>3. Level(successions)
  <2>1. ASSUME NEW p \in {q \in arms \X arms : q[1] # q[2]}
        PROVE  FollowCount(sq, d.pool, p[1], p[2]) \in {low, low + 1}
    <3>1. p[1] \in arms /\ p[2] \in arms /\ p[1] # p[2]
      OBVIOUS
    <3>2. QED BY <3>1, FollowersCounted
  <2>2. successions \subseteq {low, low + 1}
    BY <2>1
  <2> HIDE DEF successions, low
  <2>3. QED BY <1>1, <2>2, LevelBetween
<1>4. QED BY <1>2, <1>3 DEF Balanced

-----------------------------------------------------------------------------
(* The reversal of a row: half a round on in an even design, the other     *)
(* half of the rows in an odd one.  The reversal pairs share no row.       *)
Back(n, i) ==
  IF n % 2 = 1 THEN (IF i < n THEN n + i ELSE i - n)
  ELSE IF i < n \div 2 THEN i + (n \div 2) ELSE i - (n \div 2)

LEMMA BackGoesBack ==
  ASSUME NEW n \in Nat \ {0}, NEW i \in Rows(n)
  PROVE  Back(n, i) \in Rows(n) /\ Back(n, Back(n, i)) = i /\ Back(n, i) # i
<1>1. CASE n % 2 = 1
  BY <1>1 DEF Back, Rows
<1>2. CASE n % 2 # 1
  <2>1. PICK h \in Nat \ {0} : n = 2 * h
    BY <1>2
  <2>2. n \div 2 = h /\ i \in 0..(n - 1) /\ Rows(n) = 0..(n - 1)
    BY <1>2, <2>1 DEF Rows
  <2>3. QED BY <1>2, <2>1, <2>2 DEF Back
<1>3. QED BY <1>1, <1>2

LEMMA EvenReversal ==
  ASSUME NEW n \in Nat \ {0}, n % 2 # 1, NEW i \in 0..(n - 1), NEW j \in 1..n
  PROVE  Back(n, i) \in 0..(n - 1) /\ Translate(n, Back(n, i))[j] = Translate(n, i)[n + 1 - j]
<1> DEFINE k == Back(n, i)
           m == n + 1 - j
<1>1. PICK h \in Nat \ {0} : n = 2 * h
  OBVIOUS
<1>2. n \div 2 = h
  BY <1>1
<1>3. k \in 0..(n - 1) /\ k = IF i < h THEN i + h ELSE i - h
  BY <1>1, <1>2 DEF Back
<1>4. m \in 1..n
  OBVIOUS
<1> HIDE DEF k
<1>5. Translate(n, k)[j] = IF First(n, j) + k < n THEN First(n, j) + k ELSE First(n, j) + k - n
  BY <1>3, TranslateIs
<1>6. Translate(n, i)[m] = IF First(n, m) + i < n THEN First(n, m) + i ELSE First(n, m) + i - n
  BY <1>4, TranslateIs
<1>7. CASE j % 2 = 1
  <2>1. PICK p \in Nat : j = 2 * p + 1
    BY <1>7
  <2>2. First(n, j) = IF p = 0 THEN 0 ELSE n - p
    <3>1. j \div 2 = p /\ (j = 1 <=> p = 0) /\ j % 2 # 0
      BY <2>1
    <3>2. QED BY <3>1, FirstIs
  <2>3. First(n, m) = h - p
    <3>1. m = 2 * (h - p)
      BY <1>1, <2>1
    <3>2. m \div 2 = h - p /\ m # 1 /\ m % 2 = 0
      BY <3>1
    <3>3. QED BY <1>4, <3>2, FirstIs
  <2>4. p < h
    BY <1>1, <2>1
  <2> HIDE DEF m
  <2>5. Translate(n, k)[j] = Translate(n, i)[m]
    BY <1>1, <1>3, <1>5, <1>6, <2>2, <2>3, <2>4
  <2>6. QED BY <1>3, <2>5 DEF k, m
<1>8. CASE j % 2 # 1
  <2>1. PICK p \in Nat : j = 2 * p
    BY <1>8
  <2>2. First(n, j) = p
    <3>1. j \div 2 = p /\ j # 1 /\ j % 2 = 0
      BY <2>1
    <3>2. QED BY <3>1, FirstIs
  <2>3. First(n, m) = IF p = h THEN 0 ELSE n - (h - p)
    <3>1. m = 2 * (h - p) + 1
      BY <1>1, <2>1
    <3>2. m \div 2 = h - p /\ (m = 1 <=> p = h) /\ m % 2 # 0
      BY <3>1
    <3>3. QED BY <1>4, <3>2, FirstIs
  <2>4. p <= h /\ p >= 1
    BY <1>1, <2>1
  <2> HIDE DEF m
  <2>5. Translate(n, k)[j] = Translate(n, i)[m]
    BY <1>1, <1>3, <1>5, <1>6, <2>2, <2>3, <2>4
  <2>6. QED BY <1>3, <2>5 DEF k, m
<1>9. QED BY <1>7, <1>8

LEMMA BackIsTheReversal ==
  ASSUME NEW n \in Nat \ {0}, NEW r \in Rows(n)
  PROVE  WilliamsSquare(n)[Back(n, r)] = FlipOf(WilliamsSquare(n)[r])
<1> DEFINE sq == WilliamsSquare(n)
<1>1. CASE n % 2 = 1 /\ r \in 0..(n - 1)
  <2>1. Back(n, r) = n + r
    BY <1>1 DEF Back
  <2>2. QED BY <1>1, <2>1, RowIs
<1>2. CASE n % 2 = 1 /\ r \notin 0..(n - 1)
  <2>1. r - n \in 0..(n - 1) /\ n + (r - n) = r
    BY <1>2, RowIs
  <2>2. Back(n, r) = r - n
    BY <1>2, <2>1 DEF Back
  <2>3. sq[r - n] = Translate(n, r - n)
    BY <2>1, RowIs
  <2>4. sq[n + (r - n)] = FlipOf(Translate(n, r - n))
    BY <1>2, <2>1, RowIs
  <2>5. FlipOf(FlipOf(Translate(n, r - n))) = Translate(n, r - n)
    BY <2>1, FlipTwice
  <2>6. QED BY <2>1, <2>2, <2>3, <2>4, <2>5
<1>3. CASE n % 2 # 1
  <2>1. r \in 0..(n - 1)
    BY <1>3, RowIs
  <2> DEFINE k == Back(n, r)
             t == Translate(n, k)
             f == FlipOf(Translate(n, r))
  <2>2. k \in 0..(n - 1)
    <3>1. 1 \in 1..n
      OBVIOUS
    <3>2. QED BY <1>3, <2>1, <3>1, EvenReversal
  <2>3. \A j \in 1..n : t[j] = Translate(n, r)[n + 1 - j]
    BY <1>3, <2>1, EvenReversal
  <2>4. \A j \in 1..n : f[j] = Translate(n, r)[n + 1 - j]
    BY <2>1, FlippedIs
  <2>5. t = [j \in 1..n |-> t[j]]
    BY DEF Translate
  <2>6. f = [j \in 1..n |-> f[j]]
    <3>1. DOMAIN Translate(n, r) = 1..n /\ Len(Translate(n, r)) = n
      BY <2>1, TranslateIs
    <3>2. QED BY <3>1 DEF FlipOf
  <2>7. sq[k] = t /\ sq[r] = Translate(n, r)
    BY <2>1, <2>2, RowIs
  <2> HIDE DEF t, f, k
  <2>8. t = f
    BY <2>3, <2>4, <2>5, <2>6
  <2>9. QED BY <2>7, <2>8 DEF f, k
<1>4. QED BY <1>1, <1>2, <1>3

LEMMA RowsDiffer ==
  ASSUME NEW n \in Nat \ {0, 1}, NEW r \in Rows(n), NEW s \in Rows(n),
         WilliamsSquare(n)[r] = WilliamsSquare(n)[s]
  PROVE  r = s
<1> DEFINE sq == WilliamsSquare(n)
           t(i) == Translate(n, i)
           f(i) == FlipOf(Translate(n, i))
<1>1. 1 \in 1..n /\ n \in 1..n /\ First(n, 1) = 0
  BY FirstIs
<1>2. ASSUME NEW i \in 0..(n - 1)
      PROVE  t(i)[1] = i /\ f(i)[n] = i
  <2>1. t(i)[1] = i
    BY <1>1, TranslateIs
  <2>2. f(i)[n] = t(i)[n + 1 - n] /\ n + 1 - n = 1
    BY <1>1, FlippedIs
  <2>3. QED BY <2>1, <2>2
<1>3. ASSUME n % 2 = 1, NEW i \in 0..(n - 1), NEW k \in 0..(n - 1), t(i) = f(k)
      PROVE  FALSE
  <2>1. PICK h \in Nat \ {0} : n = 2 * h + 1
    BY <1>3
  <2>2. n - 1 \in 1..n /\ n + 1 - (n - 1) = 2 /\ 2 \in 1..n
    BY <2>1
  <2>3. First(n, n) = h + 1
    <3>1. n \div 2 = h /\ n # 1 /\ n % 2 # 0
      BY <2>1
    <3>2. n - h = h + 1
      BY <2>1
    <3>3. QED BY <1>1, <3>1, <3>2, FirstIs
  <2>4. First(n, n - 1) = h
    <3>1. n - 1 = 2 * h
      BY <2>1
    <3>2. (n - 1) \div 2 = h /\ n - 1 # 1 /\ (n - 1) % 2 = 0
      BY <3>1
    <3>3. QED BY <2>2, <3>2, FirstIs
  <2>5. First(n, 2) = 1
    <3>1. 2 \div 2 = 1 /\ 2 # 1 /\ 2 % 2 = 0
      OBVIOUS
    <3>2. QED BY <2>2, <3>1, FirstIs
  <2>6. f(k)[n] = k
    BY <1>2
  <2>7. f(k)[n - 1] = IF 1 + k < n THEN 1 + k ELSE 1 + k - n
    <3>1. f(k)[n - 1] = t(k)[n + 1 - (n - 1)]
      BY <2>2, FlippedIs
    <3>2. t(k)[2] = IF First(n, 2) + k < n THEN First(n, 2) + k ELSE First(n, 2) + k - n
      BY <2>2, TranslateIs
    <3>3. QED BY <2>2, <2>5, <3>1, <3>2
  <2>8. t(i)[n] = IF (h + 1) + i < n THEN (h + 1) + i ELSE (h + 1) + i - n
    <3>1. t(i)[n] = IF First(n, n) + i < n THEN First(n, n) + i ELSE First(n, n) + i - n
      BY <1>1, TranslateIs
    <3>2. QED BY <2>3, <3>1
  <2>9. t(i)[n - 1] = IF h + i < n THEN h + i ELSE h + i - n
    <3>1. t(i)[n - 1] = IF First(n, n - 1) + i < n THEN First(n, n - 1) + i ELSE First(n, n - 1) + i - n
      BY <2>2, TranslateIs
    <3>2. QED BY <2>4, <3>1
  <2> HIDE DEF t, f
  <2>10. t(i)[n] = k /\ t(i)[n - 1] = IF 1 + k < n THEN 1 + k ELSE 1 + k - n
    BY <1>3, <2>6, <2>7
  <2>11. QED BY <2>1, <2>8, <2>9, <2>10
<1>4. ASSUME NEW x \in Rows(n)
      PROVE  \/ x \in 0..(n - 1) /\ sq[x] = t(x)
             \/ n % 2 = 1 /\ x - n \in 0..(n - 1) /\ sq[x] = f(x - n)
  <2>1. CASE x \in 0..(n - 1)
    BY <2>1, RowIs
  <2>2. CASE x \notin 0..(n - 1)
    <3>1. n % 2 = 1 /\ x - n \in 0..(n - 1) /\ n + (x - n) = x
      BY <2>2, RowIs
    <3>2. sq[n + (x - n)] = f(x - n)
      BY <3>1, RowIs
    <3>3. QED BY <3>1, <3>2
  <2>3. QED BY <2>1, <2>2
<1> HIDE DEF t, f, sq
<1>5. sq[r] = sq[s]
  BY DEF sq
<1>6. CASE r \in 0..(n - 1) /\ sq[r] = t(r) /\ s \in 0..(n - 1) /\ sq[s] = t(s)
  <2>1. t(r)[1] = r /\ t(s)[1] = s
    BY <1>2, <1>6
  <2>2. t(r) = t(s)
    BY <1>5, <1>6
  <2>3. QED BY <2>1, <2>2
<1>7. CASE r \in 0..(n - 1) /\ sq[r] = t(r) /\ n % 2 = 1 /\ s - n \in 0..(n - 1) /\ sq[s] = f(s - n)
  <2>1. t(r) = f(s - n)
    BY <1>5, <1>7
  <2>2. QED BY <1>3, <1>7, <2>1
<1>8. CASE s \in 0..(n - 1) /\ sq[s] = t(s) /\ n % 2 = 1 /\ r - n \in 0..(n - 1) /\ sq[r] = f(r - n)
  <2>1. t(s) = f(r - n)
    BY <1>5, <1>8
  <2>2. QED BY <1>3, <1>8, <2>1
<1>9. CASE /\ n % 2 = 1 /\ r - n \in 0..(n - 1) /\ sq[r] = f(r - n)
           /\ s - n \in 0..(n - 1) /\ sq[s] = f(s - n)
  <2>1. f(r - n)[n] = r - n /\ f(s - n)[n] = s - n
    BY <1>2, <1>9
  <2>2. r - n = s - n
    BY <1>5, <1>9, <2>1
  <2>3. r \in Int /\ s \in Int
    BY DEF Rows
  <2>4. QED BY <2>2, <2>3
<1>10. QED BY <1>4, <1>6, <1>7, <1>8, <1>9

LEMMA ReversalsAreRows ==
  ASSUME NEW n \in Nat \ {0}, NEW i \in Rows(n)
  PROVE  /\ ReversalOf(WilliamsSquare(n))[i] \in Rows(n)
         /\ n # 1 => ReversalOf(WilliamsSquare(n))[i] = Back(n, i)
<1> DEFINE sq == WilliamsSquare(n)
           back == ReversalOf(sq)[i]
<1>1. DOMAIN sq = Rows(n)
  BY RowIs
<1>2. Back(n, i) \in Rows(n) /\ sq[Back(n, i)] = FlipOf(sq[i])
  BY BackGoesBack, BackIsTheReversal
<1>3. back = CHOOSE k \in Rows(n) : sq[k] = FlipOf(sq[i])
  BY <1>1 DEF ReversalOf
<1>4. back \in Rows(n) /\ sq[back] = FlipOf(sq[i])
  <2> HIDE DEF back, sq
  <2>1. QED BY <1>2, <1>3
<1>5. n # 1 => back = Back(n, i)
  <2>1. sq[back] = sq[Back(n, i)]
    BY <1>2, <1>4
  <2>2. QED BY <1>2, <1>4, <2>1, RowsDiffer
<1>6. QED BY <1>4, <1>5

LEMMA PairsPartTheRows ==
  ASSUME NEW n \in Nat \ {0, 1}
  PROVE  /\ PairTypes(WilliamsSquare(n)) = {{i, Back(n, i)} : i \in Rows(n)}
         /\ Paired(PairTypes(WilliamsSquare(n)))
         /\ UNION PairTypes(WilliamsSquare(n)) = Rows(n)
<1> DEFINE Types == PairTypes(WilliamsSquare(n))
<1>1. Types = {{i, Back(n, i)} : i \in Rows(n)}
  <2>1. DOMAIN WilliamsSquare(n) = Rows(n)
    BY RowIs
  <2>2. \A i \in Rows(n) : ReversalOf(WilliamsSquare(n))[i] = Back(n, i)
    BY ReversalsAreRows
  <2>3. Types = {{i, ReversalOf(WilliamsSquare(n))[i]} : i \in Rows(n)}
    BY <2>1 DEF PairTypes
  <2>4. QED BY <2>2, <2>3
<1> HIDE DEF Types
<1>2. \A i \in Rows(n) : Back(n, i) \in Rows(n) /\ Back(n, Back(n, i)) = i /\ Back(n, i) # i
  BY BackGoesBack
<1>3. \A p \in Types : \E i, k \in p : i # k /\ p = {i, k}
  BY <1>1, <1>2
<1>4. ASSUME NEW p \in Types, NEW q \in Types, NEW x, x \in p, x \in q
      PROVE  p = q
  <2>1. PICK i \in Rows(n) : p = {i, Back(n, i)}
    BY <1>1
  <2>2. PICK k \in Rows(n) : q = {k, Back(n, k)}
    BY <1>1
  <2>3. p = {x, Back(n, x)}
    BY <1>2, <1>4, <2>1
  <2>4. q = {x, Back(n, x)}
    BY <1>2, <1>4, <2>2
  <2>5. QED BY <2>3, <2>4
<1>5. Paired(Types)
  BY <1>3, <1>4 DEF Paired
<1>6. UNION Types = Rows(n)
  <2>1. \A i \in Rows(n) : i \in UNION Types
    BY <1>1
  <2>2. \A p \in Types : p \subseteq Rows(n)
    BY <1>1, <1>2
  <2>3. QED BY <2>1, <2>2
<1>7. QED BY <1>1, <1>5, <1>6 DEF Types

LEMMA RowsAreFinite ==
  ASSUME NEW n \in Nat \ {0}
  PROVE  /\ IsFiniteSet(Rows(n)) /\ Cardinality(Rows(n)) \in Nat \ {0}
         /\ IsFiniteSet(PairTypes(WilliamsSquare(n)))
<1> DEFINE last == IF n % 2 = 1 THEN (2 * n) - 1 ELSE n - 1
           sq == WilliamsSquare(n)
           f == [i \in Rows(n) |-> {i, ReversalOf(sq)[i]}]
<1>1. last \in Nat /\ Rows(n) = 0..last
  BY DEF Rows
<1> HIDE DEF last
<1>2. IsFiniteSet(Rows(n)) /\ Cardinality(Rows(n)) = last + 1
  <2>1. IsFiniteSet(0..last) /\ Cardinality(0..last) = IF 0 > last THEN 0 ELSE last - 0 + 1
    BY <1>1, FS_Interval
  <2>2. QED BY <1>1, <2>1
<1>3. PairTypes(sq) = {f[i] : i \in Rows(n)}
  <2>1. DOMAIN sq = Rows(n)
    BY RowIs
  <2> HIDE DEF sq
  <2>2. QED BY <2>1 DEF PairTypes
<1> HIDE DEF f
<1>4. IsFiniteSet({f[i] : i \in Rows(n)})
  BY <1>2, ImageFinite
<1>5. QED BY <1>1, <1>2, <1>3, <1>4

-----------------------------------------------------------------------------
(* The remainder.  A window goes round the translates by less than half,   *)
(* so no two of its rows are half a round apart; any other fill takes rows *)
(* that are not reserved.                                                  *)
LEMMA WindowGoesRound ==
  ASSUME NEW n \in Nat \ {0}, NEW start \in 0..(n - 1), NEW k \in 0..(n - 1)
  PROVE  /\ (start + (1 * k)) % n = IF start + k < n THEN start + k ELSE start + k - n
         /\ (start + ((n - 1) * k)) % n = IF start >= k THEN start - k ELSE start - k + n
<1>1. start + k \in 0..(2 * n - 1)
  OBVIOUS
<1> DEFINE x == start + (1 * k)
           y == start + ((n - 1) * k)
<1>2. x = start + k
  OBVIOUS
<1>3. n * k \in Int /\ n * (k - 1) \in Int /\ n * (k - 1) = n * k - n /\ (n - 1) * k = n * k - k
  OBVIOUS
<1>4. y \in Int /\ y = n * k + (start - k) /\ y = n * (k - 1) + (start - k + n)
  BY <1>3
<1> HIDE DEF x, y
<1>5. x % n = IF x < n THEN x ELSE x - n
  BY <1>1, <1>2, TurnsOnce
<1>6. CASE start >= k
  <2>1. start - k \in 0..(n - 1)
    BY <1>6
  <2>2. y % n = start - k
    BY <1>4, <2>1, DivisionIsUnique
  <2>3. QED BY <1>2, <1>5, <1>6, <2>2 DEF x, y
<1>7. CASE ~(start >= k)
  <2>1. start - k + n \in 0..(n - 1) /\ k - 1 \in Int
    BY <1>7
  <2>2. y % n = start - k + n
    BY <1>4, <2>1, DivisionIsUnique
  <2>3. QED BY <1>2, <1>5, <1>7, <2>2 DEF x, y
<1>8. QED BY <1>6, <1>7

WindowOf(n, square, left, start, dir, flipped) ==
  {IF flipped THEN ReversalOf(square)[(start + (dir * k)) % n] ELSE (start + (dir * k)) % n
     : k \in 0..(left - 1)}

LEMMA WindowIsSpread ==
  ASSUME NEW n \in Nat \ {0}, n % 2 = 1, NEW left \in Nat, left <= n \div 2,
         NEW w \in Windows(n, WilliamsSquare(n), left)
  PROVE  IsFiniteSet(w) /\ Cardinality(w) = left /\ w \subseteq Rows(n) /\ Spread(n, w)
<1> DEFINE sq == WilliamsSquare(n)
           K == 0..(left - 1)
<1>1. PICK h \in Nat : n = 2 * h + 1
  OBVIOUS
<1>2. /\ n \div 2 = h /\ left <= h /\ K \subseteq 0..(n - 1)
      /\ (n - 1) \div 2 = h /\ (n + 1) \div 2 = h + 1
  BY <1>1
<1>3. PICK start \in 0..(n - 1), dir \in {1, n - 1}, flipped \in BOOLEAN :
        w = {IF flipped THEN ReversalOf(sq)[(start + (dir * k)) % n] ELSE (start + (dir * k)) % n : k \in K}
  <2>1. Windows(n, sq, left) = {WindowOf(n, sq, left, start, dir, flipped) :
                                  start \in 0..(n - 1), dir \in {1, n - 1}, flipped \in BOOLEAN}
    BY DEF Windows, WindowOf
  <2>2. \E start \in 0..(n - 1), dir \in {1, n - 1}, flipped \in BOOLEAN :
          w = WindowOf(n, sq, left, start, dir, flipped)
    BY <2>1
  <2>3. QED BY <2>2 DEF WindowOf
<1> DEFINE W(k) == (start + (dir * k)) % n
<1>4. ASSUME NEW k \in K
      PROVE  \/ dir = 1 /\ W(k) = IF start + k < n THEN start + k ELSE start + k - n
             \/ dir = n - 1 /\ W(k) = IF start >= k THEN start - k ELSE start - k + n
  <2>1. k \in 0..(n - 1)
    BY <1>2
  <2>2. CASE dir = 1
    BY <2>1, <2>2, WindowGoesRound
  <2>3. CASE dir = n - 1
    BY <2>1, <2>3, WindowGoesRound
  <2>4. QED BY <2>2, <2>3
<1>5. ASSUME NEW k \in K PROVE W(k) \in 0..(n - 1)
  <2> HIDE DEF W
  <2>1. QED BY <1>2, <1>4
<1>6. ASSUME NEW k \in K, NEW l \in K
      PROVE  (W(k) = W(l) => k = l) /\ ~HalfApart(n, W(k), W(l))
  <2> DEFINE v == W(k)
             u == W(l)
  <2>1. \/ dir = 1 /\ v = IF start + k < n THEN start + k ELSE start + k - n
        \/ dir = n - 1 /\ v = IF start >= k THEN start - k ELSE start - k + n
    BY <1>4
  <2>2. \/ dir = 1 /\ u = IF start + l < n THEN start + l ELSE start + l - n
        \/ dir = n - 1 /\ u = IF start >= l THEN start - l ELSE start - l + n
    BY <1>4
  <2>3. k \in 0..(h - 1) /\ l \in 0..(h - 1) /\ h >= 1 /\ n - 1 # 1 /\ start \in 0..(2 * h)
    BY <1>1, <1>2
  <2> HIDE DEF v, u
  <2>4. (v = u => k = l) /\ v - u \notin {h, h + 1, -h, -(h + 1)}
    BY <1>1, <2>1, <2>2, <2>3
  <2>5. QED BY <1>2, <2>4 DEF HalfApart, v, u
<1>7. ASSUME NEW k \in K PROVE ReversalOf(sq)[W(k)] = n + W(k)
  <2> DEFINE v == W(k)
  <2>1. v \in 0..(n - 1) /\ n # 1
    BY <1>1, <1>2, <1>5
  <2> HIDE DEF v
  <2>2. v \in Rows(n)
    BY <2>1, RowIs
  <2>3. ReversalOf(sq)[v] = Back(n, v)
    BY <2>1, <2>2, ReversalsAreRows
  <2>4. Back(n, v) = n + v
    BY <2>1 DEF Back
  <2>5. QED BY <2>3, <2>4 DEF v
<1> DEFINE f == [k \in K |-> IF flipped THEN n + W(k) ELSE W(k)]
<1>8. w = {f[k] : k \in K}
  <2>1. \A k \in K : f[k] = IF flipped THEN ReversalOf(sq)[W(k)] ELSE W(k)
    BY <1>7
  <2> HIDE DEF f
  <2>2. QED BY <1>3, <2>1
<1>9. IsFiniteSet(w) /\ Cardinality(w) = left
  <2>1. f \in Surjection(K, w)
    <3>1. f \in [K -> w]
      <4>1. \A k \in K : f[k] \in w
        BY <1>8
      <4>2. f = [k \in K |-> f[k]]
        OBVIOUS
      <4> HIDE DEF f
      <4>3. QED BY <4>1, <4>2
    <3> HIDE DEF f
    <3>2. QED BY <1>8, <3>1 DEF Surjection
  <2>2. \A k, l \in K : f[k] = f[l] => k = l
    <3> SUFFICES ASSUME NEW k \in K, NEW l \in K, f[k] = f[l] PROVE k = l
      OBVIOUS
    <3> HIDE DEF W
    <3>1. W(k) = W(l)
      BY <1>5
    <3>2. QED BY <1>6, <3>1
  <2> HIDE DEF f
  <2>3. f \in Injection(K, w)
    BY <2>1, <2>2 DEF Surjection, Injection, IsInjective
  <2>4. IsFiniteSet(K) /\ Cardinality(K) = left
    <3>1. IsFiniteSet(0..(left - 1))
          /\ Cardinality(0..(left - 1)) = IF 0 > left - 1 THEN 0 ELSE (left - 1) - 0 + 1
      BY FS_Interval
    <3>2. QED BY <3>1
  <2> HIDE DEF K
  <2>5. QED BY <2>1, <2>3, <2>4, FS_Surjection
<1> HIDE DEF W
<1>10. CASE ~flipped
  <2>1. \A x \in w : \E k \in K : x = W(k)
    BY <1>8, <1>10
  <2>2. w \subseteq 0..(n - 1)
    BY <1>5, <2>1
  <2>3. w \subseteq Rows(n)
    BY <2>2, RowIs
  <2>4. \A i, k \in 0..(n - 1) : n + k \notin w
    BY <2>2
  <2>5. ASSUME NEW i \in w, NEW k \in w PROVE ~HalfApart(n, i, k)
    BY <1>6, <2>1
  <2>6. QED BY <1>9, <2>3, <2>4, <2>5 DEF Spread
<1>11. CASE flipped
  <2>1. \A x \in w : \E k \in K : x = n + W(k)
    BY <1>8, <1>11
  <2>2. w \subseteq Rows(n)
    <3>1. \A i \in 0..(n - 1) : n + i \in Rows(n)
      BY RowIs
    <3>2. QED BY <1>5, <2>1, <3>1
  <2>3. \A i \in 0..(n - 1) : i \notin w
    BY <1>5, <2>1
  <2>4. ASSUME NEW i \in 0..(n - 1), NEW k \in 0..(n - 1), n + i \in w, n + k \in w
        PROVE  ~HalfApart(n, i, k)
    <3>1. PICK x \in K : n + i = n + W(x)
      BY <2>1, <2>4
    <3>2. PICK y \in K : n + k = n + W(y)
      BY <2>1, <2>4
    <3>3. i = W(x) /\ k = W(y)
      BY <1>5, <3>1, <3>2
    <3>4. QED BY <1>6, <3>3
  <2>5. QED BY <1>9, <2>2, <2>3, <2>4 DEF Spread
<1>12. QED BY <1>10, <1>11

LEMMA FillIsFree ==
  ASSUME NEW n \in Nat \ {0}, NEW reserved, NEW left \in Int,
         NEW fill \in GeneralFills(n, WilliamsSquare(n), reserved, left)
  PROVE  /\ IsFiniteSet(fill) /\ Cardinality(fill) = left
         /\ fill \subseteq Rows(n) /\ fill \cap reserved = {}
<1> DEFINE sq == WilliamsSquare(n)
           free == (0..(n - 1)) \ reserved
           back == {ReversalOf(sq)[i] : i \in 0..(n - 1)} \ (reserved \cup (0..(n - 1)))
<1>1. 0..(n - 1) \subseteq Rows(n) /\ IsFiniteSet(Rows(n))
  BY RowIs, RowsAreFinite
<1>2. free \subseteq Rows(n) /\ free \cap reserved = {}
  BY <1>1
<1>3. back \subseteq Rows(n) /\ back \cap reserved = {} /\ back \cap free = {}
  <2>1. \A i \in 0..(n - 1) : ReversalOf(sq)[i] \in Rows(n)
    BY <1>1, ReversalsAreRows
  <2>2. QED BY <2>1
<1>4. GeneralFills(n, sq, reserved, left) =
        IF left <= Cardinality(free) THEN kSubset(left, free)
        ELSE {free \cup more : more \in kSubset(left - Cardinality(free), back)}
  BY DEF GeneralFills
<1>5. IsFiniteSet(free) /\ Cardinality(free) \in Nat
  BY <1>1, <1>2, FS_Subset, FS_CardinalityType
<1> HIDE DEF free, back
<1>6. CASE left <= Cardinality(free)
  <2>1. fill \subseteq free /\ Cardinality(fill) = left
    BY <1>4, <1>6 DEF kSubset
  <2>2. IsFiniteSet(fill)
    BY <1>5, <2>1, FS_Subset
  <2>3. QED BY <1>2, <2>1, <2>2
<1>7. CASE ~(left <= Cardinality(free))
  <2>1. PICK more : more \subseteq back /\ Cardinality(more) = left - Cardinality(free)
                    /\ fill = free \cup more
    BY <1>4, <1>7 DEF kSubset
  <2>2. IsFiniteSet(more) /\ free \cap more = {}
    <3>1. more \subseteq Rows(n)
      BY <1>3, <2>1
    <3>2. QED BY <1>1, <1>3, <2>1, <3>1, FS_Subset
  <2>3. IsFiniteSet(fill) /\ Cardinality(fill) = Cardinality(free) + Cardinality(more) - Cardinality({})
    BY <1>5, <2>1, <2>2, FS_Union
  <2>4. Cardinality({}) = 0
    BY FS_EmptySet
  <2>5. QED BY <1>2, <1>3, <1>5, <2>1, <2>3, <2>4
<1>8. QED BY <1>6, <1>7

\* the rows of a remainder that takes these pairs and fills the rest
LeftOf(n, tasks, seconds) ==
  Remainder(WilliamsSquare(n), tasks + seconds) - (2 * NeededPairs(WilliamsSquare(n), tasks, seconds))
FillsOf(n, tasks, seconds, reserved) ==
  IF SafeWindow(n, NeededPairs(WilliamsSquare(n), tasks, seconds), LeftOf(n, tasks, seconds))
    THEN Windows(n, WilliamsSquare(n), LeftOf(n, tasks, seconds))
    ELSE GeneralFills(n, WilliamsSquare(n), reserved, LeftOf(n, tasks, seconds))

PairsAndFill(n, tasks, seconds, extra) ==
  \E chosen \in kSubset(NeededPairs(WilliamsSquare(n), tasks, seconds), PairTypes(WilliamsSquare(n))) :
    \E fill \in FillsOf(n, tasks, seconds, UNION chosen) : extra = (UNION chosen) \cup fill

LEMMA ExtrasArePairsAndFill ==
  ASSUME NEW n, NEW tasks, NEW seconds, NEW extra \in ExtraRows(n, WilliamsSquare(n), tasks, seconds)
  PROVE  PairsAndFill(n, tasks, seconds, extra)
<1> DEFINE All(chosen) == {(UNION chosen) \cup fill : fill \in FillsOf(n, tasks, seconds, UNION chosen)}
           C == kSubset(NeededPairs(WilliamsSquare(n), tasks, seconds), PairTypes(WilliamsSquare(n)))
<1>1. ExtraRows(n, WilliamsSquare(n), tasks, seconds) = UNION {All(chosen) : chosen \in C}
  BY DEF ExtraRows, FillsOf, LeftOf
<1> HIDE DEF C
<1>2. PICK chosen \in C : extra \in All(chosen)
  <2> HIDE DEF All
  <2>1. QED BY <1>1
<1>3. QED BY <1>2 DEF C, PairsAndFill

LEMMA CountsOfDesign ==
  ASSUME NEW n \in Nat \ {0}, NEW tasks \in Nat, NEW seconds \in Nat
  PROVE  /\ Cycles(WilliamsSquare(n), tasks + seconds) \in Nat
         /\ Remainder(WilliamsSquare(n), tasks + seconds) \in Nat
         /\ tasks + seconds = Cardinality(Rows(n)) * Cycles(WilliamsSquare(n), tasks + seconds)
                              + Remainder(WilliamsSquare(n), tasks + seconds)
         /\ NeededPairs(WilliamsSquare(n), tasks, seconds) \in Nat
         /\ seconds = 0 => NeededPairs(WilliamsSquare(n), tasks, seconds) = 0
<1> DEFINE sq == WilliamsSquare(n)
           total == tasks + seconds
           N == Cardinality(Rows(n))
           cycles == Cycles(sq, total)
           Kinds == Cardinality(PairTypes(sq))
<1>1. DOMAIN sq = Rows(n) /\ N \in Nat \ {0} /\ Kinds \in Nat
  BY RowIs, RowsAreFinite, FS_CardinalityType
<1>2. cycles = total \div N /\ Remainder(sq, total) = total % N
  BY <1>1 DEF Cycles, Remainder
<1> HIDE DEF N, Kinds, sq, cycles
<1>3. total \div N \in Nat /\ total % N \in Nat /\ total = N * (total \div N) + (total % N)
  <2>1. total \in Nat
    OBVIOUS
  <2> HIDE DEF total
  <2>2. total \div N \in Int /\ total % N \in 0..(N - 1) /\ total = N * (total \div N) + (total % N)
    BY <1>1, <2>1
  <2> DEFINE q == total \div N
  <2>3. q >= 0
    <3>1. SUFFICES ASSUME q <= -1 PROVE FALSE
      BY <2>2
    <3>2. N * q <= -N
      <4>1. q \in Int /\ -1 - q \in Nat
        BY <2>2, <3>1
      <4>2. N * (-1 - q) \in Nat /\ N * (-1 - q) = -N - N * q /\ N * q \in Int
        BY <1>1, <4>1
      <4>3. QED BY <1>1, <4>2
    <3>3. QED BY <1>1, <2>1, <2>2, <3>2
  <2>4. QED BY <2>2, <2>3
<1>4. NeededPairs(sq, tasks, seconds) = Bigger(0, seconds - (cycles * Kinds))
  BY DEF NeededPairs, Kinds, cycles
<1>5. cycles \in Nat /\ cycles * Kinds \in Nat
  BY <1>1, <1>2, <1>3
<1>6. NeededPairs(sq, tasks, seconds) \in Nat /\ (seconds = 0 => NeededPairs(sq, tasks, seconds) = 0)
  BY <1>4, <1>5 DEF Bigger
<1>7. QED BY <1>2, <1>3, <1>5, <1>6 DEF N, sq, cycles

LEMMA ExtrasAreCounted ==
  ASSUME NEW n \in Nat \ {0}, NEW tasks \in Nat, NEW seconds \in Nat, n # 1 \/ seconds = 0,
         NEW extra \in ExtraRows(n, WilliamsSquare(n), tasks, seconds)
  PROVE  /\ extra \subseteq Rows(n) /\ IsFiniteSet(extra)
         /\ Cardinality(extra) = Remainder(WilliamsSquare(n), tasks + seconds)
         /\ SafeWindow(n, NeededPairs(WilliamsSquare(n), tasks, seconds), LeftOf(n, tasks, seconds)) =>
              Spread(n, extra)
<1> DEFINE sq == WilliamsSquare(n)
           Types == PairTypes(sq)
           pairs == NeededPairs(sq, tasks, seconds)
           left == LeftOf(n, tasks, seconds)
           rest == Remainder(sq, tasks + seconds)
           safe == SafeWindow(n, pairs, left)
<1>1. pairs \in Nat /\ rest \in Nat /\ left = rest - (2 * pairs) /\ (seconds = 0 => pairs = 0)
  BY CountsOfDesign DEF LeftOf
<1>2. PICK chosen \in kSubset(pairs, Types) :
               \E fill \in FillsOf(n, tasks, seconds, UNION chosen) : extra = (UNION chosen) \cup fill
  <2>1. PairsAndFill(n, tasks, seconds, extra)
    BY ExtrasArePairsAndFill
  <2>2. QED BY <2>1 DEF PairsAndFill
<1> DEFINE reserved == UNION chosen
<1>3. PICK fill \in FillsOf(n, tasks, seconds, reserved) : extra = reserved \cup fill
  BY <1>2
<1>4. chosen \subseteq Types /\ Cardinality(chosen) = pairs /\ IsFiniteSet(chosen)
  <2>1. chosen \subseteq Types /\ Cardinality(chosen) = pairs
    BY DEF kSubset
  <2>2. IsFiniteSet(Types)
    BY RowsAreFinite
  <2> HIDE DEF Types
  <2>3. QED BY <2>1, <2>2, FS_Subset
<1>5. pairs = 0 => chosen = {}
  <2> HIDE DEF pairs
  <2>1. QED BY <1>4, FS_EmptySet
<1>6. reserved \subseteq Rows(n) /\ IsFiniteSet(reserved) /\ Cardinality(reserved) = 2 * pairs
  <2>1. CASE n # 1
    <3>1. Paired(Types) /\ UNION Types = Rows(n)
      BY <2>1, PairsPartTheRows
    <3> HIDE DEF Types, pairs
    <3>2. Paired(chosen)
      BY <1>4, <3>1 DEF Paired
    <3>3. IsFiniteSet(UNION chosen) /\ Cardinality(UNION chosen) = 2 * Cardinality(chosen)
      BY <1>4, <3>2, PairedCount
    <3>4. UNION chosen \subseteq UNION Types
      BY <1>4
    <3>5. QED BY <1>4, <3>1, <3>3, <3>4
  <2>2. CASE seconds = 0
    <3>1. chosen = {} /\ pairs = 0
      BY <1>1, <1>5, <2>2
    <3>2. reserved = {}
      BY <3>1
    <3>3. IsFiniteSet({}) /\ Cardinality({}) = 0
      BY FS_EmptySet
    <3> HIDE DEF reserved, pairs
    <3>4. QED BY <3>1, <3>2, <3>3
  <2>3. QED BY <2>1, <2>2
<1>7. CASE safe
  <2>1. n % 2 = 1 /\ pairs = 0 /\ left <= n \div 2 /\ left \in Nat
    BY <1>1, <1>7 DEF SafeWindow
  <2>2. fill \in Windows(n, sq, left)
    BY <1>3, <1>7 DEF FillsOf
  <2>3. IsFiniteSet(fill) /\ Cardinality(fill) = left /\ fill \subseteq Rows(n) /\ Spread(n, fill)
    <3> HIDE DEF left, pairs
    <3>1. QED BY <2>1, <2>2, WindowIsSpread
  <2>4. reserved = {} /\ extra = fill
    BY <1>3, <1>5, <2>1
  <2> HIDE DEF left, pairs, rest, reserved
  <2>5. left = rest
    BY <1>1, <2>1
  <2>6. QED BY <2>3, <2>4, <2>5 DEF rest
<1>8. CASE ~safe
  <2>1. fill \in GeneralFills(n, sq, reserved, left)
    BY <1>3, <1>8 DEF FillsOf
  <2>2. left \in Int
    BY <1>1
  <2> HIDE DEF left, pairs, rest, reserved
  <2>3. IsFiniteSet(fill) /\ Cardinality(fill) = left /\ fill \subseteq Rows(n) /\ fill \cap reserved = {}
    BY <2>1, <2>2, FillIsFree
  <2>4. reserved \cap fill = {}
    BY <2>3
  <2>5. /\ IsFiniteSet(reserved \cup fill)
        /\ Cardinality(reserved \cup fill) =
             Cardinality(reserved) + Cardinality(fill) - Cardinality(reserved \cap fill)
    BY <1>6, <2>3, FS_Union
  <2>6. Cardinality(reserved \cap fill) = 0
    BY <2>4, FS_EmptySet
  <2>7. Cardinality(extra) = rest /\ IsFiniteSet(extra) /\ extra \subseteq Rows(n)
    BY <1>1, <1>3, <1>6, <2>3, <2>5, <2>6
  <2>8. ~SafeWindow(n, NeededPairs(sq, tasks, seconds), LeftOf(n, tasks, seconds))
    BY <1>8 DEF left, pairs
  <2>9. QED BY <2>7, <2>8 DEF rest
<1>9. QED BY <1>7, <1>8

-----------------------------------------------------------------------------
(* The design the constructor freezes.                                     *)
\* the pool has a row for every block
LEMMA PoolIsCounted ==
  ASSUME NEW n \in Nat \ {0}, NEW c \in Nat, NEW extra, extra \subseteq Rows(n), IsFiniteSet(extra)
  PROVE  SumFunction(RowPool(WilliamsSquare(n), c, extra)) = c * Cardinality(Rows(n)) + Cardinality(extra)
<1> DEFINE f == RowPool(WilliamsSquare(n), c, extra)
<1>1. DOMAIN f = Rows(n) /\ \A i \in Rows(n) : f[i] = c + (IF i \in extra THEN 1 ELSE 0)
  BY RowIs DEF RowPool
<1>2. IsFiniteSet(Rows(n)) /\ Rows(n) \cap extra = extra
  BY RowsAreFinite
<1> HIDE DEF f
<1>3. SumFunctionOnSet(f, Rows(n)) = c * Cardinality(Rows(n)) + Cardinality(Rows(n) \cap extra)
  BY <1>1, <1>2, c \in Int, SumOfExtras
<1>4. SumFunction(f) = SumFunctionOnSet(f, Rows(n))
  BY <1>1 DEF SumFunction
<1>5. QED BY <1>2, <1>3, <1>4 DEF f

\* what the pairs take from the row of an arm order
TakenFrom(n, given, i) ==
  SumFunction([pair \in {p \in PairTypes(WilliamsSquare(n)) : i \in p} |-> given[pair]])

LEMMA PairsTakeTheirRows ==
  ASSUME NEW n \in Nat \ {0, 1}, NEW given, \A p \in PairTypes(WilliamsSquare(n)) : given[p] \in Nat,
         NEW p \in PairTypes(WilliamsSquare(n)), NEW i \in p
  PROVE  TakenFrom(n, given, i) = given[p]
<1> DEFINE Types == PairTypes(WilliamsSquare(n))
           R == {q \in Types : i \in q}
           f == [q \in R |-> given[q]]
<1>1. Paired(Types)
  BY PairsPartTheRows
<1>2. R = {p}
  <2> HIDE DEF Types
  <2>1. \A q \in Types : i \in q => q = p
    BY <1>1 DEF Paired, Types
  <2>2. p \in Types
    BY DEF Types
  <2>3. QED BY <2>1, <2>2
<1>3. DOMAIN f = {p} /\ f[p] = given[p] /\ given[p] \in Nat
  BY <1>2
<1> HIDE DEF f
<1>4. SumFunctionOnSet(f, {p}) = f[p]
  <2>1. p \in {p} /\ {p} = {p, p} /\ \A x \in {p} : f[x] \in Int
    BY <1>3
  <2>2. QED BY <2>1, SumOverOneOrTwo
<1>5. TakenFrom(n, given, i) = SumFunction(f)
  BY DEF TakenFrom, f
<1>6. QED BY <1>3, <1>4, <1>5 DEF SumFunction

LEMMA NoPairsTakeNothing ==
  ASSUME NEW n \in Nat \ {0}, NEW given, \A p \in PairTypes(WilliamsSquare(n)) : given[p] = 0,
         NEW i \in Rows(n)
  PROVE  TakenFrom(n, given, i) = 0
<1> DEFINE Types == PairTypes(WilliamsSquare(n))
           R == {q \in Types : i \in q}
           f == [q \in R |-> given[q]]
<1>1. IsFiniteSet(R)
  <2>1. IsFiniteSet(Types)
    BY RowsAreFinite
  <2> HIDE DEF Types
  <2>2. QED BY <2>1, FS_Subset
<1>2. DOMAIN f = R /\ \A q \in R : f[q] = 0
  OBVIOUS
<1> HIDE DEF f
<1>3. TakenFrom(n, given, i) = SumFunction(f)
  BY DEF TakenFrom, f
<1> HIDE DEF R
<1>4. SumFunctionOnSet(f, R) = 0
  BY <1>1, <1>2, SumOfZeros
<1>5. QED BY <1>2, <1>3, <1>4 DEF SumFunction

\* every second seed takes two rows
LEMMA SinglesAreCounted ==
  ASSUME NEW n \in Nat \ {0}, NEW pool, DOMAIN pool = Rows(n), \A i \in Rows(n) : pool[i] \in Int,
         NEW seconds \in Nat, n # 1 \/ seconds = 0,
         NEW given, DOMAIN given = PairTypes(WilliamsSquare(n)),
         \A p \in PairTypes(WilliamsSquare(n)) : given[p] \in Nat, SumFunction(given) = seconds
  PROVE  SumFunction(SingleRows(WilliamsSquare(n), pool, given)) = SumFunction(pool) - 2 * seconds
<1> DEFINE Types == PairTypes(WilliamsSquare(n))
           singles == SingleRows(WilliamsSquare(n), pool, given)
           taken == [i \in Rows(n) |-> TakenFrom(n, given, i)]
<1>1. IsFiniteSet(Rows(n)) /\ IsFiniteSet(Types)
  BY RowsAreFinite
<1>2. DOMAIN singles = Rows(n) /\ \A i \in Rows(n) : singles[i] = pool[i] - taken[i]
  BY RowIs DEF SingleRows, TakenFrom
<1>3. SumFunctionOnSet(given, Types) = seconds
  BY DEF SumFunction
<1>4. /\ \A i \in Rows(n) : taken[i] \in Int
      /\ SumFunctionOnSet(taken, Rows(n)) = 2 * seconds
  <2>1. CASE n # 1
    <3>1. Paired(Types) /\ UNION Types = Rows(n)
      BY <2>1, PairsPartTheRows
    <3>2. \A p \in Types : \A i \in p : taken[i] = given[p]
      <4>1. ASSUME NEW p \in Types, NEW i \in p PROVE taken[i] = given[p]
        <5>1. i \in Rows(n)
          BY <3>1
        <5>2. TakenFrom(n, given, i) = given[p]
          BY <2>1, PairsTakeTheirRows
        <5>3. QED BY <5>1, <5>2
      <4>2. QED BY <4>1
    <3>3. \A p \in Types : given[p] \in Int
      OBVIOUS
    <3> HIDE DEF Types, taken
    <3>4. SumFunctionOnSet(taken, UNION Types) = 2 * SumFunctionOnSet(given, Types)
      BY <1>1, <3>1, <3>2, <3>3, PairedSum
    <3>5. \A i \in Rows(n) : taken[i] \in Int
      <4>1. ASSUME NEW i \in Rows(n) PROVE taken[i] \in Int
        <5>1. PICK p \in Types : i \in p
          BY <3>1
        <5>2. QED BY <3>2, <3>3, <5>1
      <4>2. QED BY <4>1
    <3>6. QED BY <1>3, <3>1, <3>4, <3>5
  <2>2. CASE seconds = 0
    <3>1. \A p \in Types : given[p] = 0
      <4> SUFFICES ASSUME NEW p \in Types PROVE given[p] = 0
        OBVIOUS
      <4>1. \A q \in Types : given[q] \in Nat
        OBVIOUS
      <4> HIDE DEF Types
      <4>2. QED BY <1>1, <1>3, <2>2, <4>1, NothingSummed
    <3>2. \A i \in Rows(n) : taken[i] = 0
      BY <3>1, NoPairsTakeNothing
    <3> HIDE DEF taken
    <3>3. SumFunctionOnSet(taken, Rows(n)) = 0
      BY <1>1, <3>2, SumOfZeros
    <3>4. QED BY <2>2, <3>2, <3>3
  <2>3. QED BY <2>1, <2>2
<1> HIDE DEF taken, singles
<1>5. SumFunctionOnSet(pool, Rows(n)) = SumFunctionOnSet(singles, Rows(n)) + SumFunctionOnSet(taken, Rows(n))
  <2>1. \A i \in Rows(n) : singles[i] \in Int /\ taken[i] \in Int /\ pool[i] = singles[i] + taken[i]
    BY <1>2, <1>4
  <2>2. QED BY <1>1, <2>1, SumOfSums
<1>6. SumFunctionOnSet(singles, Rows(n)) \in Int
  <2>1. \A i \in Rows(n) : singles[i] \in Int
    BY <1>2, <1>4
  <2>2. QED BY <1>1, <2>1, SumTyped
<1>7. SumFunction(singles) = SumFunctionOnSet(singles, Rows(n))
      /\ SumFunction(pool) = SumFunctionOnSet(pool, Rows(n))
  BY <1>2 DEF SumFunction
<1>8. SumFunction(singles) = SumFunction(pool) - 2 * seconds
  BY <1>4, <1>5, <1>6, <1>7
<1>9. QED BY <1>8 DEF singles

\* what ScheduleIsBalanced says of a design
SoundDesign(d) ==
  LET square == WilliamsSquare(d.arms)
      blocks == d.tasks + d.seconds
  IN  /\ SumFunction(d.pool) = blocks
      /\ SumFunction(SingleRows(square, d.pool, d.given)) = d.tasks - d.seconds
      /\ d.safe \/ d.arms % 2 = 0 \/ Remainder(square, blocks) = 0 => Balanced(d)

\* how a design comes to be
LEMMA DesignIs ==
  ASSUME NEW n, NEW tasks, NEW seconds, NEW d \in Designs(n, tasks, seconds)
  PROVE  \E extra \in ExtraRows(n, WilliamsSquare(n), tasks, seconds) :
           \E given \in PairChoices(WilliamsSquare(n),
                          RowPool(WilliamsSquare(n), Cycles(WilliamsSquare(n), tasks + seconds), extra), seconds) :
             d = DesignOf(n, tasks, seconds,
                   RowPool(WilliamsSquare(n), Cycles(WilliamsSquare(n), tasks + seconds), extra), given,
                   SafeWindow(n, NeededPairs(WilliamsSquare(n), tasks, seconds), LeftOf(n, tasks, seconds)))
<1> DEFINE sq == WilliamsSquare(n)
           pool(extra) == RowPool(sq, Cycles(sq, tasks + seconds), extra)
           choices(extra) == PairChoices(sq, pool(extra), seconds)
           safe == SafeWindow(n, NeededPairs(sq, tasks, seconds), LeftOf(n, tasks, seconds))
           of(extra) == {DesignOf(n, tasks, seconds, pool(extra), given, safe) : given \in choices(extra)}
           E == ExtraRows(n, sq, tasks, seconds)
<1>1. Designs(n, tasks, seconds) = UNION {of(extra) : extra \in E}
  BY DEF Designs, LeftOf
<1>2. PICK extra \in E : d \in of(extra)
  <2> HIDE DEF of, E
  <2>1. QED BY <1>1
<1>3. PICK given \in choices(extra) : d = DesignOf(n, tasks, seconds, pool(extra), given, safe)
  <2> HIDE DEF choices, pool, safe
  <2>1. QED BY <1>2
<1>4. QED BY <1>2, <1>3

LEMMA FrozenDesignsAreSound ==
  ASSUME NEW n \in Nat \ {0}, NEW tasks \in Nat, NEW seconds \in Nat, n # 1 \/ seconds = 0,
         NEW d \in Designs(n, tasks, seconds)
  PROVE  SoundDesign(d)
<1> DEFINE sq == WilliamsSquare(n)
           c == Cycles(sq, tasks + seconds)
           rest == Remainder(sq, tasks + seconds)
           safe == SafeWindow(n, NeededPairs(sq, tasks, seconds), LeftOf(n, tasks, seconds))
<1>1. PICK extra \in ExtraRows(n, sq, tasks, seconds) :
             \E given \in PairChoices(sq, RowPool(sq, c, extra), seconds) :
               d = DesignOf(n, tasks, seconds, RowPool(sq, c, extra), given, safe)
  BY DesignIs
<1> DEFINE pool == RowPool(sq, c, extra)
<1>2. PICK given \in PairChoices(sq, pool, seconds) : d = DesignOf(n, tasks, seconds, pool, given, safe)
  BY <1>1
<1>3. d.arms = n /\ d.tasks = tasks /\ d.seconds = seconds /\ d.pool = pool /\ d.given = given /\ d.safe = safe
  BY <1>2 DEF DesignOf
<1>4. c \in Nat /\ rest \in Nat /\ tasks + seconds = Cardinality(Rows(n)) * c + rest
  BY CountsOfDesign
<1>5. extra \subseteq Rows(n) /\ IsFiniteSet(extra) /\ Cardinality(extra) = rest /\ (safe => Spread(n, extra))
  BY ExtrasAreCounted
<1>6. SumFunction(pool) = tasks + seconds
  <2>1. Cardinality(Rows(n)) \in Nat
    BY RowsAreFinite
  <2> HIDE DEF c, rest
  <2>2. SumFunction(RowPool(WilliamsSquare(n), c, extra)) = c * Cardinality(Rows(n)) + Cardinality(extra)
    BY <1>4, <1>5, PoolIsCounted
  <2>3. c * Cardinality(Rows(n)) = Cardinality(Rows(n)) * c
    BY <1>4, <2>1
  <2>4. QED BY <1>4, <1>5, <2>2, <2>3
<1>7. SumFunction(SingleRows(sq, pool, given)) = tasks - seconds
  <2>1. DOMAIN pool = Rows(n) /\ \A i \in Rows(n) : pool[i] \in Int
    <3>1. DOMAIN sq = Rows(n)
      BY RowIs
    <3> HIDE DEF c, sq
    <3>2. QED BY <1>4, <3>1 DEF RowPool
  <2>2. /\ DOMAIN given = PairTypes(sq) /\ SumFunction(given) = seconds
        /\ \A p \in PairTypes(sq) : given[p] \in Nat
    <3> DEFINE most == Max({0} \cup Range(PairSlots(sq, pool)))
    <3>1. given \in [PairTypes(sq) -> 0..most] /\ SumFunction(given) = seconds
      BY <1>2 DEF PairChoices
    <3> HIDE DEF most, sq
    <3>2. \A x \in 0..most : x \in Nat
      OBVIOUS
    <3>3. QED BY <3>1, <3>2
  <2> HIDE DEF pool
  <2>3. SumFunction(SingleRows(sq, pool, given)) = SumFunction(pool) - 2 * seconds
    BY <2>1, <2>2, SinglesAreCounted
  <2>4. QED BY <1>6, <2>3
<1>8. safe \/ n % 2 = 0 \/ rest = 0 => Balanced(d)
  <2> SUFFICES ASSUME safe \/ n % 2 = 0 \/ rest = 0 PROVE Balanced(d)
    OBVIOUS
  <2> HIDE DEF c, rest, safe
  <2>1. rest = 0 => Spread(n, extra)
    <3>1. rest = 0 => extra = {}
      BY <1>5, FS_EmptySet
    <3>2. QED BY <3>1 DEF Spread
  <2>2. n % 2 = 1 => Spread(n, extra)
    BY <1>5, <2>1
  <2>3. d.arms = n /\ d.pool = RowPool(WilliamsSquare(n), c, extra)
    BY <1>3
  <2>4. QED BY <1>4, <2>2, <2>3, SpreadIsBalanced
<1> HIDE DEF c, rest, safe, pool
<1>9. QED BY <1>3, <1>6, <1>7, <1>8 DEF SoundDesign, rest

(* Whatever was frozen for whatever counts of arms, tasks and second seeds *)
(* keeps what the constructor says of it: a row for every block, a pair of *)
(* reversals for every second seed, and, where it claims balance, every    *)
(* arm at every place and after every other equally often up to one        *)
(* (schedule.py _balanced_williams_assignments).                           *)
THEOREM FrozenDesignsAreBalanced ==
  ASSUME NEW n \in Nat \ {0, 1}, NEW tasks \in Nat, NEW seconds \in 0..tasks,
         design \in Designs(n, tasks, seconds)
  PROVE  ScheduleIsBalanced
<1>1. SoundDesign(design)
  <2>1. n \in Nat \ {0} /\ n # 1 /\ seconds \in Nat
    OBVIOUS
  <2>2. QED BY <2>1, FrozenDesignsAreSound
<1>2. QED BY <1>1 DEF SoundDesign, ScheduleIsBalanced

\* The schedule of a campaign is balanced as long as the campaign runs, with
\* a single arm as with several: nothing freezes another (schedule.py
\* _balanced_williams_assignments, build_schedule).
THEOREM SchedulesAreBalanced == LanesSpec => []ScheduleIsBalanced
<1>1. (\E n \in Nat \ {0} : LanesInit(Designs(n, Len(Tasks), 0))) => LanesInv /\ SoundDesign(design)
  <2> SUFFICES ASSUME NEW n \in Nat \ {0}, LanesInit(Designs(n, Len(Tasks), 0))
               PROVE  LanesInv /\ SoundDesign(design)
    OBVIOUS
  <2>1. LanesInv
    BY LanesStart
  <2>2. design \in Designs(n, Len(Tasks), 0)
    BY DEF LanesInit
  <2>3. Len(Tasks) \in Nat /\ 0 \in Nat
    BY LanesAssumption, LenProperties
  <2>4. SoundDesign(design)
    BY <2>2, <2>3, FrozenDesignsAreSound
  <2>5. QED BY <2>1, <2>4
<1>2. LanesInv /\ [LaneStep \/ GradingStep(LaneOrders) \/ GateStep]_lanesVars => UNCHANGED design
  <2> SUFFICES ASSUME LanesInv, [LaneStep \/ GradingStep(LaneOrders) \/ GateStep]_lanesVars
               PROVE  UNCHANGED campaign
    BY DEF campaign
  <2>1. CASE UNCHANGED lanesVars
    BY <2>1 DEF lanesVars
  <2>2. CASE LaneStep \/ GradingStep(LaneOrders) \/ GateStep
    BY <2>2, LaneSteps
    DEF GradingStep, StartGrading, NoSchedule, ReadRef, ReadItem, Judgment, WriteReport,
        GateStep, DecideGate, RenameFreeze, WriteFreeze, CrashSteward
  <2>3. QED BY <2>1, <2>2
<1>3. SoundDesign(design) /\ UNCHANGED design => SoundDesign(design)'
  OBVIOUS
<1>4. SoundDesign(design) => ScheduleIsBalanced
  BY DEF SoundDesign, ScheduleIsBalanced
<1>5. QED BY <1>1, <1>2, <1>3, <1>4, LanesInvariant, PTL DEF LanesSpec
=============================================================================
