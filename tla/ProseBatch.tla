----------------------------- MODULE ProseBatch -----------------------------
(***************************************************************************)
(* The SHORT_PROSE strategies of strategies/prose.py as callers of the     *)
(* inference route: a gather over the sibling tool calls of a batch, in    *)
(* each a gather over its pages, one model call a page, or one a sibling   *)
(* (whole_batch), or one a researcher (close).  A batch that failed may be *)
(* tried again with its cell registered again, as a replay does.           *)
(***************************************************************************)
EXTENDS InferenceProxy, Sequences

CONSTANTS BatchPlans,  \* batches: a scope and the tries, each a set of siblings
          pagesOf      \* the model calls of a sibling

(* A model call is of one sibling, and of one try: a replay asks anew.      *)
ASSUME ProseAssumption ==
  /\ pagesOf \in [DOMAIN pagesOf -> SUBSET Requests]
  /\ \A p \in BatchPlans :
       /\ p.tries \in Seq(SUBSET DOMAIN pagesOf) \ {<<>>}
       /\ \A i, j \in DOMAIN p.tries : \A s \in p.tries[i], t \in p.tries[j] :
            pagesOf[s] \cap pagesOf[t] # {} => i = j /\ s = t

VARIABLES plan,
          tasks,     \* tasks[r]: the coroutine around one model call
          siblings,  \* siblings[s]: the coroutine of one tool call
          batch      \* the try, its end, the work and the records it reports
proseVars == <<proxyVars, plan, tasks, siblings, batch>>
coroutines == <<plan, tasks, siblings, batch>>

Siblings == DOMAIN pagesOf
scope == plan.scope   \* "per_page", "whole_batch" or "close"
ThisTry == plan.tries[batch.try]
CallsOfTry == UNION {pagesOf[s] : s \in ThisTry}

NoBatch(n) == [try |-> n, end |-> "running", counted |-> {}, records |-> {}]
ProseInit ==
  /\ ProxyInit
  /\ plan \in BatchPlans
  /\ tasks = [r \in Requests |-> "none"]
  /\ siblings = [s \in Siblings |-> "new"]
  /\ batch = NoBatch(1)

-----------------------------------------------------------------------------
(* one model call                                                          *)
Finished == {"unsent", "ok", "rejected", "failed", "cancelled"}

\* the wrapper leaves no token for a completion: raised before the call
Unsent(r) ==
  /\ tasks[r] = "new"
  /\ tasks' = [tasks EXCEPT ![r] = "unsent"]
  /\ UNCHANGED <<proxyVars, plan, siblings, batch>>

Ask(r) ==
  /\ tasks[r] = "new"
  /\ Post(r)
  /\ tasks' = [tasks EXCEPT ![r] = "calling"]
  /\ UNCHANGED <<plan, siblings, batch>>

(* The bounded prefix of the text is valid or not; the prose of a whole     *)
(* batch is not looked at.                                                  *)
Outcomes(r) ==
  IF client[r] = "failed" THEN {"failed"} ELSE IF scope = "whole_batch" THEN {"ok"} ELSE {"ok", "rejected"}

Reply(r) ==
  /\ tasks[r] = "calling" /\ client[r] \in {"ok", "failed"}
  /\ \E o \in Outcomes(r) : tasks' = [tasks EXCEPT ![r] = o]
  /\ UNCHANGED <<proxyVars, plan, siblings, batch>>

\* the task of one call is cancelled by itself; the provider goes on for nobody
CancelOne(r) ==
  /\ tasks[r] = "calling"
  /\ tasks' = [tasks EXCEPT ![r] = "cancelled"]
  /\ client' = [client EXCEPT ![r] = IF @ = "waiting" THEN "abandoned" ELSE @]
  /\ UNCHANGED <<calls, provider, engine, crashes, worked, shared, plan, siblings, batch>>

-----------------------------------------------------------------------------
(* one sibling tool call                                                   *)
\* views are built for every page before a call is made
Launch(s) ==
  /\ s \in ThisTry /\ siblings[s] = "new"
  /\ siblings' = [siblings EXCEPT ![s] = "calling"]
  /\ tasks' = [r \in Requests |-> IF r \in pagesOf[s] THEN "new" ELSE tasks[r]]
  /\ UNCHANGED <<proxyVars, plan, batch>>

(* A view that cannot be built raises out of the sibling's coroutine, and   *)
(* out of the batch's gather at once: the others run on unattended.         *)
Raise(s) ==
  /\ s \in ThisTry /\ siblings[s] = "new"
  /\ siblings' = [siblings EXCEPT ![s] = "raised"]
  /\ batch' = IF batch.end = "running" THEN [batch EXCEPT !.end = "raised"] ELSE batch
  /\ UNCHANGED <<proxyVars, plan, tasks>>

\* Mutant: the first failure ends the gather
GatheredFirst(s) == \E r \in pagesOf[s] : tasks[r] \in Finished

\* Mutant: the gather counts the calls that were answered
GatheredAnswered(s) == \A r \in pagesOf[s] : tasks[r] \in {"ok", "rejected", "failed"}

\* the gather of a sibling waits for all of its calls
Gathered(s) == \A r \in pagesOf[s] : tasks[r] \in Finished

Good(s) == \A r \in pagesOf[s] : tasks[r] = "ok"

EndSibling(s) ==
  /\ siblings[s] = "calling" /\ Gathered(s)
  /\ siblings' = [siblings EXCEPT ![s] = IF Good(s) THEN "published" ELSE "failed"]
  /\ UNCHANGED <<proxyVars, plan, tasks, batch>>

-----------------------------------------------------------------------------
(* the batch                                                               *)
(* A control record is made of a call once its cap is known; the prose of a *)
(* whole batch has one only if it was published, and with the close scope   *)
(* there is no call without a cap.                                          *)
Recorded == {r \in CallsOfTry : /\ tasks[r] # "unsent"
                                /\ scope = "whole_batch" => tasks[r] = "ok"}

(* _work_from_exception: whatever came out of a call counts as one, a cap   *)
(* that was refused included; the close strategy works the cap out before.  *)
Counted == {r \in CallsOfTry : tasks[r] \in Finished /\ (scope = "close" => tasks[r] # "unsent")}

Status(r, accepted) ==
  CASE tasks[r] = "ok" -> IF accepted THEN "PUBLISHED" ELSE "FALLBACK_DISCARDED"
    [] tasks[r] = "rejected" -> "REJECTED"
    [] OTHER -> "FALLBACK_DISCARDED"

EndBatch ==
  /\ batch.end = "running"
  /\ \A s \in ThisTry : siblings[s] \in {"published", "failed"}
  /\ LET accepted == \A s \in ThisTry : siblings[s] = "published"
     IN batch' = [batch EXCEPT !.end = IF accepted THEN "accepted"
                                       ELSE IF \E r \in CallsOfTry : tasks[r] = "cancelled" THEN "cancelled"
                                       ELSE "failed",
                               !.counted = Counted,
                               !.records = {[call |-> r, status |-> Status(r, accepted)] : r \in Recorded}]
  /\ UNCHANGED <<proxyVars, plan, tasks, siblings>>

(* The researcher's task is cancelled: every gather passes it down, and the *)
(* CancelledError of a gather is raised through the code that collects the  *)
(* records; the close strategy has its one call in a try of its own.        *)
CancelBatch ==
  /\ batch.end = "running"
  /\ tasks' = [r \in Requests |-> IF r \in CallsOfTry /\ tasks[r] \in {"new", "calling"} THEN "cancelled" ELSE tasks[r]]
  /\ client' = [r \in Requests |-> IF r \in CallsOfTry /\ client[r] = "waiting" THEN "abandoned" ELSE client[r]]
  /\ siblings' = [s \in Siblings |-> IF s \in ThisTry /\ siblings[s] \in {"new", "calling"} THEN "gone" ELSE siblings[s]]
  /\ batch' = [batch EXCEPT !.end = "cancelled",
                            !.counted = IF scope = "close" THEN {r \in CallsOfTry : tasks[r] = "calling"} ELSE {},
                            !.records = IF scope = "close"
                                        THEN {[call |-> r, status |-> "FALLBACK_DISCARDED"] :
                                              r \in {x \in CallsOfTry : tasks[x] = "calling"}}
                                        ELSE {}]
  /\ UNCHANGED <<calls, provider, engine, crashes, worked, shared, plan>>

\* the batch is tried again, with its cell registered again
Retry ==
  /\ batch.end \in {"failed", "raised", "cancelled"} /\ batch.try < Len(plan.tries)
  /\ Register
  /\ batch' = NoBatch(batch.try + 1)
  /\ UNCHANGED <<client, calls, engine, crashes, worked, shared, plan, tasks, siblings>>

ProseNext ==
  \/ \E r \in Requests : Unsent(r) \/ Ask(r) \/ Reply(r) \/ CancelOne(r)
  \/ \E s \in Siblings : Launch(s) \/ Raise(s) \/ EndSibling(s)
  \/ EndBatch \/ CancelBatch \/ Retry
  \/ (\E r \in Requests : Serve(r) \/ Abandoned(r)) /\ UNCHANGED coroutines
  \/ (Crash \/ Restart) /\ UNCHANGED coroutines

\* coroutines of a running loop run; the provider's threads and the engine do too
ProseFairness ==
  /\ ProxyFairness
  /\ \A r \in Requests : WF_proseVars(Unsent(r) \/ Ask(r)) /\ WF_proseVars(Reply(r))
  /\ \A s \in Siblings : WF_proseVars(Launch(s) \/ Raise(s)) /\ WF_proseVars(EndSibling(s))
  /\ WF_proseVars(EndBatch)
ProseSpec == ProseInit /\ [][ProseNext]_proseVars /\ ProseFairness

-----------------------------------------------------------------------------
(* A batch that was not cancelled or broken off has an end, with no call of *)
(* its own outstanding, and tells of every request it sent: it is counted,  *)
(* unless a whole batch's call failed it has a record (prose.py             *)
(* transform_tool_batch, _work_from_exception).                             *)
EndedBatchesTell ==
  batch.end \in {"accepted", "failed"} =>
    \A r \in CallsOfTry : client[r] # "idle" =>
      /\ client[r] \notin {"waiting", "abandoned"}
      /\ r \in batch.counted
      /\ scope # "whole_batch" => \E e \in batch.records : e.call = r

(* Every batch ends, through failures, crashes of the provider and a        *)
(* sibling that raises (prose.py transform_tool_batch).                     *)
EveryBatchEnds == [](batch.end = "running" => <>(batch.end # "running"))

(* What prose.py 63 says of the work it counts for an exception: it is      *)
(* called only after the await of the model call was entered.               *)
CountedCallsWereMade ==
  batch.end # "running" => \A r \in batch.counted : client[r] # "idle"
=============================================================================
