--------------------------- MODULE ApprovalStore ----------------------------
(***************************************************************************)
(* The approval of an execution binding: src/shapeflow/protocol.py. The    *)
(* steward's freeze-approval appends an immutable link to the history      *)
(* directory, then its entry to INDEX.json, then copies it over the        *)
(* current pointer: three files, between any two of which it may die while *)
(* the operator edits the tree or moves HEAD. A command that may spend     *)
(* runs only under a binding that verifies.                                *)
(***************************************************************************)
EXTENDS Integers, Sequences, FiniteSets

CONSTANTS Commits,      \* bound: the commits HEAD may be moved between
          MaxFreezes,   \* bound: freeze-approval commands
          MaxMoves,     \* bound: edits of the tree and moves of HEAD
          Torn,         \* the bytes of a file whose writer has not finished
          None

ASSUME ApprovalAssumption ==
  /\ MaxFreezes \in Nat /\ MaxMoves \in Nat
  /\ None \notin Commits

VARIABLES tree,      \* the execution tree: HEAD, and whether it has changes
          links,     \* links[f]: the immutable link history/<seq>-<digest>.json
          index,     \* INDEX.json, the approvals ever recorded
          current,   \* the pointer every verification reads
          steward,   \* the control state of freeze-approval
          freezes, moves
approvalVars == <<tree, links, index, current, steward, freezes, moves>>

\* The digest of all that a result depends on: the commit, and whether
\* the configuration read is the one of that commit.
Binding(t) == [commit |-> t.head, edited |-> t.edited]
Bindings == [commit : Commits, edited : BOOLEAN]
Files == (1..MaxFreezes) \X Bindings
\* approved_at_utc makes the bodies of two commands differ
Body == [binding : Bindings, at : 1..MaxFreezes]

ApprovalTypeOK ==
  /\ tree \in [head : Commits, edited : BOOLEAN]
  /\ links \in [Files -> Body \cup {Torn, None}]
  /\ index \in Seq(Files)
  /\ current \in Body \cup {None}
  /\ steward.pc \in {"idle", "compute", "recheck", "link", "fill", "index", "current"}

NoFreeze == [pc |-> "idle", head |-> None, binding |-> None, chain |-> <<>>, body |-> None]

ApprovalInit ==
  /\ \E c \in Commits : tree = [head |-> c, edited |-> FALSE]
  /\ links = [f \in Files |-> None]
  /\ index = <<>> /\ current = None
  /\ steward = NoFreeze
  /\ freezes = 0 /\ moves = 0

-----------------------------------------------------------------------------
CleanTree == ~tree.edited
LiveBinding == Binding(tree)

\* verify_approval_file: the pointer pins the live binding, field by field
ApprovalBinds(b) == current # None /\ current.binding = b

(* verified_execution_binding: a clean tree, and a current approval that   *)
(* pins, field by field, the binding recomputed from the tree.             *)
Verified(b) ==
  CleanTree /\ b = LiveBinding /\ ApprovalBinds(b)

\* approval_chain_digests: what a finished run may be graded under
ChainDigests == {index[i][2] : i \in 1..Len(index)}

-----------------------------------------------------------------------------
StewardAt(pc) == steward.pc = pc

\* Mutant: the pointer is moved before the index has the entry
PointerFirst == [fill |-> "current", current |-> "index", index |-> "idle"]

\* the order in which the three files are written
WriteOrder == [fill |-> "index", index |-> "current", current |-> "idle"]

GoTo(pc) == steward' = IF pc = "idle" THEN NoFreeze ELSE [steward EXCEPT !.pc = pc]
StewardStops == steward' = NoFreeze

StartFreeze ==
  /\ StewardAt("idle") /\ freezes < MaxFreezes
  /\ freezes' = freezes + 1
  /\ IF ~CleanTree THEN UNCHANGED steward       \* ApprovalError
     ELSE steward' = [NoFreeze EXCEPT !.pc = "compute", !.head = tree.head]
  /\ UNCHANGED <<tree, links, index, current, moves>>

\* compute_binding reads the configuration as it is by then
ComputeBinding ==
  /\ StewardAt("compute")
  /\ steward' = [steward EXCEPT !.pc = "recheck",
                   !.binding = [commit |-> steward.head, edited |-> tree.edited]]
  /\ UNCHANGED <<tree, links, index, current, freezes, moves>>

LastApproved(chain) == chain # <<>> /\ chain[Len(chain)][2] = steward.binding
LinkOf(chain, b) == <<Len(chain) + 1, b>>

\* the second look at the tree closes the race with the computation
Unmoved == CleanTree /\ tree.head = steward.binding.commit

(* The chain is read after the second look. A binding that is the newest   *)
(* of the chain is not appended again: its link becomes the pointer.       *)
Recheck ==
  /\ StewardAt("recheck")
  /\ IF ~Unmoved THEN StewardStops
     ELSE LET latest == IF index = <<>> THEN None ELSE links[index[Len(index)]] IN
          IF ~LastApproved(index)
          THEN steward' = [steward EXCEPT !.pc = "link", !.chain = index,
                             !.body = [binding |-> steward.binding, at |-> freezes]]
          ELSE IF latest \in {Torn, None} THEN StewardStops
          ELSE steward' = [steward EXCEPT !.pc = "current", !.chain = index, !.body = latest]
  /\ UNCHANGED <<tree, links, index, current, freezes, moves>>

TakesLink(old) == old = None

(* _write_new: exclusive creation. An existing link is accepted if it is   *)
(* identical; this command's body has its own approved_at_utc, so one that *)
(* an earlier command left is not, and neither are half-written bytes.     *)
PutLink ==
  /\ StewardAt("link")
  /\ LET f == LinkOf(steward.chain, steward.binding) IN
     \/ TakesLink(links[f]) /\ links' = [links EXCEPT ![f] = Torn] /\ GoTo("fill")
     \/ ~TakesLink(links[f]) /\ links[f] = steward.body /\ GoTo(WriteOrder.fill) /\ UNCHANGED links
     \/ /\ ~TakesLink(links[f]) /\ links[f] # steward.body
        /\ StewardStops /\ UNCHANGED links                 \* ApprovalError
  /\ UNCHANGED <<tree, index, current, freezes, moves>>

FillLink ==
  /\ StewardAt("fill")
  /\ links' = [links EXCEPT ![LinkOf(steward.chain, steward.binding)] = steward.body]
  /\ GoTo(WriteOrder.fill)
  /\ UNCHANGED <<tree, index, current, freezes, moves>>

PutIndex ==
  /\ StewardAt("index")
  /\ index' = Append(steward.chain, LinkOf(steward.chain, steward.binding))
  /\ GoTo(WriteOrder.index)
  /\ UNCHANGED <<tree, links, current, freezes, moves>>

PutCurrent ==
  /\ StewardAt("current")
  /\ current' = steward.body
  /\ GoTo(WriteOrder.current)
  /\ UNCHANGED <<tree, links, index, freezes, moves>>

StewardDies ==
  /\ ~StewardAt("idle")
  /\ StewardStops
  /\ UNCHANGED <<tree, links, index, current, freezes, moves>>

\* the operator: a change to the tree, and a commit of it or a checkout
EditTree ==
  /\ ~tree.edited /\ moves < MaxMoves
  /\ moves' = moves + 1
  /\ tree' = [tree EXCEPT !.edited = TRUE]
  /\ UNCHANGED <<links, index, current, steward, freezes>>

MoveHead ==
  /\ moves < MaxMoves
  /\ moves' = moves + 1
  /\ \E c \in Commits : tree' = [head |-> c, edited |-> FALSE]
  /\ UNCHANGED <<links, index, current, steward, freezes>>

ApprovalNext ==
  \/ StartFreeze \/ ComputeBinding \/ Recheck
  \/ PutLink \/ FillLink \/ PutIndex \/ PutCurrent \/ StewardDies
  \/ EditTree \/ MoveHead
=============================================================================
