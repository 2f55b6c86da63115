------------------------------- MODULE Replay -------------------------------
(***************************************************************************)
(* Replaying the gather batches of a finished campaign through another     *)
(* selector, and scoring what it kept (campaign/replay.py,                 *)
(* bench/bcplus/selection_quality.py, the commands replay-selectors and    *)
(* score-selectors).  A checkpoint names its pages by the hash of their    *)
(* bytes; the bytes are looked up again in a corpus, through the document  *)
(* ids the cells' retrieval traces recorded, and verified.  A trial is one *)
(* file, written once: what is on disk is not run again.                   *)
(*                                                                         *)
(* Bytes stand for their own hash.  The corpus a replay is given need not  *)
(* be the one the campaign searched.                                       *)
(***************************************************************************)
EXTENDS Integers, Sequences, FiniteSets, SequencesExt

CONSTANTS Stored,      \* checkpoint files of all lanes, in the order of the walk
          Traces,      \* rows [docids, occurrences] of the stored cell outputs
          Corpora,     \* corpora a replay may be given: sets of functions from documents to bytes
          Trees,       \* source trees: a tree names a namespace of trials
          Variants,    \* the selector variants
          NoBytes,     \* a page that came without a body
          NoTrial,     \* no file
          TornFile,    \* a file whose write was cut
          MaxTorn,     \* bound: replays that die
          MaxReplays   \* bound: replays started

ASSUME ReplayAssumption == Stored \in Seq(ToSet(Stored))

VARIABLES trials,   \* [key |-> the trial file]
          replay,   \* the replaying process
          scores,   \* rows of the last score report, by variant
          died, started  \* how much of the bounds is used

replayVars == <<trials, replay, scores, died, started>>

Key(tree, digest, variant) == [tree |-> tree, digest |-> digest, variant |-> variant]
Keys == {Key(t, Stored[k].digest, v) : t \in Trees, k \in DOMAIN Stored, v \in Variants}
Off == [at |-> "off"]

ReplayInit ==
  /\ trials = [key \in Keys |-> NoTrial]
  /\ replay = Off
  /\ scores = [v \in Variants |-> {}]
  /\ died = 0
  /\ started = 0
-----------------------------------------------------------------------------
(* The index of documents by occurrence: the two arrays of a row pair up,  *)
(* and an occurrence names one document.                                   *)

PairsOf(row) == {<<row.occurrences[i], row.docids[i]>> : i \in DOMAIN row.docids}
AllPairs == UNION {PairsOf(Traces[i]) : i \in DOMAIN Traces}
IndexAgrees ==
  /\ \A i \in DOMAIN Traces : Len(Traces[i].docids) = Len(Traces[i].occurrences)
  /\ \A p, q \in AllPairs : p[1] = q[1] => p[2] = q[2]
Indexed == {p[1] : p \in AllPairs}
DocOf(occ) == (CHOOSE p \in AllPairs : p[1] = occ)[2]

\* Mutant: the document is trusted for the bytes.
ResolveByDoc(page, corpus) ==
  IF page.bytes = NoBytes THEN "SNIPPET_ONLY"
  ELSE IF page.occ \notin Indexed THEN "NO_DOCID"
  ELSE IF DocOf(page.occ) \notin DOMAIN corpus THEN "NO_DOCUMENT" ELSE "VERIFIED"

\* A page is usable if it came without a body or its bytes are those the checkpoint names.
Resolve(page, corpus) ==
  IF page.bytes = NoBytes THEN "SNIPPET_ONLY"
  ELSE IF page.occ \notin Indexed THEN "NO_DOCID"
  ELSE IF DocOf(page.occ) \notin DOMAIN corpus THEN "NO_DOCUMENT"
  ELSE IF corpus[DocOf(page.occ)] # page.bytes THEN "HASH_MISMATCH" ELSE "VERIFIED"

Usable(status) == status \in {"VERIFIED", "SNIPPET_ONLY"}

\* All or nothing: a batch without one of its pages is another batch.
Complete(pages, corpus) == \A i \in DOMAIN pages : Usable(Resolve(pages[i], corpus))

ContentPages(pages) == {page \in ToSet(pages) : page.bytes # NoBytes}
PageDocs(pages) == {<<page.occ, DocOf(page.occ)>> : page \in ContentPages(pages)}
-----------------------------------------------------------------------------
StartReplay(corpus, tree, variant) ==
  /\ replay.at = "off"
  /\ started < MaxReplays
  /\ IndexAgrees /\ Stored # << >>
  /\ replay' = [at |-> "walk", k |-> 1, corpus |-> corpus, tree |-> tree, variant |-> variant]
  /\ started' = started + 1
  /\ UNCHANGED <<trials, scores, died>>

Here == Stored[replay.k]
HereKey == Key(replay.tree, Here.digest, replay.variant)
Step(r) == IF r.k = Len(Stored) THEN Off ELSE [r EXCEPT !.at = "walk", !.k = @ + 1]

\* A digest seen before, another kind of checkpoint, a batch that cannot be rebuilt, or a trial whose
\* file is there.
Skips ==
  \/ \E j \in 1 .. (replay.k - 1) : Stored[j].digest = Here.digest
  \/ Here.kind # "H"
  \/ ~Complete(Here.pages, replay.corpus)
  \/ trials[HereKey] # NoTrial

SkipCheckpoint ==
  /\ replay.at = "walk"
  /\ Skips
  /\ replay' = Step(replay)
  /\ UNCHANGED <<trials, scores, died, started>>

BeginTrial ==
  /\ replay.at = "walk"
  /\ ~Skips
  /\ replay' = [replay EXCEPT !.at = "trial"]
  /\ UNCHANGED <<trials, scores, died, started>>

\* The production strategy runs on the rebuilt bytes: the batch fails, or publishes spans of some of
\* its content pages.  The bytes it read are those of the corpus at hand.
TrialRecord(published) ==
  [tree |-> replay.tree, variant |-> replay.variant, digest |-> Here.digest, task |-> Here.task,
   read |-> {<<page.occ, replay.corpus[DocOf(page.occ)]>> : page \in ContentPages(Here.pages)},
   docs |-> PageDocs(Here.pages), published |-> published]

WriteTrial(published) ==
  /\ replay.at = "trial"
  /\ published \subseteq {p.occ : p \in ContentPages(Here.pages)}
  /\ trials' = [trials EXCEPT ![HereKey] = TrialRecord(published)]
  /\ replay' = Step(replay)
  /\ UNCHANGED <<scores, died, started>>

\* The process dies before the file exists, or while it is written.
DieInTrial(file) ==
  /\ replay.at = "trial"
  /\ died < MaxTorn
  /\ died' = died + 1
  /\ trials' = [trials EXCEPT ![HereKey] = file]
  /\ replay' = Off
  /\ UNCHANGED <<scores, started>>
-----------------------------------------------------------------------------
(* Scoring: every trial file of the arm, whatever tree wrote it.  A file   *)
(* that does not parse ends the command.                                   *)

ScoreRow(trial, relevant) ==
  LET docs(occs) == {p[2] : p \in {q \in trial.docs : q[1] \in occs}}
      offered == docs({p[1] : p \in trial.docs})
  IN  [digest |-> trial.digest, tree |-> trial.tree,
       sources |-> <<Cardinality(trial.published), Cardinality(trial.docs)>>,
       evidence |-> <<Cardinality(docs(trial.published) \cap relevant),
                      Cardinality(offered \cap relevant)>>,
       status |-> IF offered \cap relevant = {} THEN "NONE_OFFERED" ELSE "SCORED",
       displaced |-> /\ docs(trial.published) \ relevant # {}
                     /\ (offered \cap relevant) \ docs(trial.published) # {}]

TrialFiles == {trials[key] : key \in {k \in Keys : trials[k] # NoTrial}}

Score(relevant) ==
  /\ TrialFiles # {}
  /\ TornFile \notin TrialFiles
  /\ scores' = [v \in Variants |->
       {ScoreRow(file, relevant) : file \in {f \in TrialFiles : f.variant = v}}]
  /\ UNCHANGED <<trials, replay, died, started>>

ReplayStep(relevant, published) ==
  \/ \E corpus \in Corpora, tree \in Trees, variant \in Variants : StartReplay(corpus, tree, variant)
  \/ SkipCheckpoint
  \/ BeginTrial
  \/ \E occs \in published : WriteTrial(occs)
  \/ \E file \in {NoTrial, TornFile} : DieInTrial(file)
  \/ Score(relevant)

\* Replays and scorings in any order, over any labels and whatever the strategies publish.
ReplaySpec ==
  ReplayInit /\ [][\E relevant, published : ReplayStep(relevant, published)]_replayVars
-----------------------------------------------------------------------------
\* Every trial on disk was run on the batch its key names, with the bytes that batch held when the
\* campaign formed it: a corpus of another vintage, a lost trace, a resumed or killed replay leave a
\* batch out, never in with other pages.  What it published can be joined to the labels.
TrialsAreOfTheirBatch ==
  \A key \in Keys : trials[key] \notin {NoTrial, TornFile} =>
    \E k \in DOMAIN Stored :
      /\ Stored[k].digest = key.digest /\ Stored[k].kind = "H"
      /\ trials[key].digest = key.digest /\ trials[key].tree = key.tree
      /\ trials[key].read = {<<p.occ, p.bytes>> :
                              p \in {q \in ToSet(Stored[k].pages) : q.bytes # NoBytes}}
      /\ trials[key].published \subseteq {p[1] : p \in trials[key].docs}

=============================================================================
