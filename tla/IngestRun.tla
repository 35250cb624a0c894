------------------------------- MODULE IngestRun -------------------------------
(***************************************************************************)
(* One attempt of an ingestion from its command to its result, with the    *)
(* tail that follows publication: command_handler (src/agent/commands.py), *)
(* GraphAgent.ingest_url/text/file, _post_ingest, _embed_source_nodes and  *)
(* merge_entities (src/agent/core.py), _ingest_source                      *)
(* (src/ingestion/graph_writer.py), and the authorization a workspace puts *)
(* around its stages (_create.handle in src/security/workspaces.py).       *)
(*                                                                         *)
(* The principal of the command may lose the workspace at any moment of an *)
(* attempt of many minutes.  Excerpts are extracted, and nodes embedded,   *)
(* by tasks of their own under a gate; an attempt is cancelled from        *)
(* outside, by a check that fails, or by one of its tasks.                 *)
(*                                                                         *)
(* A check that finds no authority asks for the job's cancellation and     *)
(* raises WorkspaceAccessRevoked, which handlers of ordinary errors let    *)
(* through; when that request fails too it raises an ordinary error.  What *)
(* the publication does to the graph is SourcePublication's.               *)
(***************************************************************************)
EXTENDS Naturals, FiniteSets

CONSTANTS
  Attempts,        \* ingestions of one agent
  Parts,           \* excerpts of a document, and nodes of its graph
  IngestSlots,     \* _ingest_semaphore
  ExtractGate,     \* excerpts of an attempt extracted at once
  EmbedGate,       \* EMBED_CONCURRENCY
  MaxRoleChanges,  \* bound: changes of the principal's role
  MaxLosses        \* bound: losses of the process

ASSUME IngestAssumption ==
  /\ IngestSlots \in Nat \ {0} /\ ExtractGate \in Nat \ {0} /\ EmbedGate \in Nat \ {0}
  /\ MaxRoleChanges \in Nat /\ MaxLosses \in Nat /\ IsFiniteSet(Parts)

VARIABLES
  run,          \* what each attempt is doing
  isEditor,     \* the principal is an editor of the workspace
  roleChanges,  \* changes of the configuration so far
  losses        \* times the process was lost
ingestVars == <<run, isEditor, roleChanges, losses>>

Stages == {"queued", "started", "fetched", "waiting", "holding", "extracting", "extracted",
           "publishing", "published", "embedding", "vectors", "storing", "embedded",
           "grouped", "merging", "merged", "restoring", "tail", "verifying", "unwinding",
           "over"}
Run == [stage : Stages, parts : [Parts -> {"none", "waiting", "calling", "done", "error"}],
        holds : BOOLEAN, receipt : BOOLEAN, after : {"embedded", "cancelled", "failed"},
        result : {"open", "succeeded", "failed", "cancelled"},
        vouched : BOOLEAN, failedAt : Stages]

All(state) == [p \in Parts |-> state]

InitIngest ==
  /\ run = [a \in Attempts |->
              [stage |-> "queued", parts |-> All("none"), holds |-> FALSE, receipt |-> FALSE,
               after |-> "failed", result |-> "open", vouched |-> TRUE,
               failedAt |-> "queued"]]
  /\ isEditor = TRUE
  /\ roleChanges = 0 /\ losses = 0

-----------------------------------------------------------------------------
(***************************************************************************)
(* Steps of an attempt.                                                    *)
(***************************************************************************)
AtStage(a, stage) == run[a].stage = stage
InStage(a, stages) == run[a].stage \in stages
Calling(a) == {p \in Parts : run[a].parts[p] = "calling"}
Idle(a) == \A p \in Parts : run[a].parts[p] \in {"none", "done", "error"}

\* Every way out of `async with self._ingest_semaphore` gives the slot back.
Concluded(r, result) ==
  [r EXCEPT !.stage = "over", !.parts = All("none"), !.result = result, !.holds = FALSE,
            !.vouched = FALSE, !.failedAt = IF r.receipt THEN r.stage ELSE "queued"]

MutantAbandoned(r, after) ==
  IF after = "embedded" THEN [r EXCEPT !.stage = after]
  ELSE [Concluded(r, after) EXCEPT !.parts = r.parts]
\* The handlers around gather cancel its tasks and wait for them.
Abandoned(r, after) ==
  [r EXCEPT !.stage = "unwinding", !.after = after,
            !.parts = [p \in Parts |-> IF @[p] = "calling" THEN "calling" ELSE "none"]]

Goes(a, r) == run' = [run EXCEPT ![a] = r] /\ UNCHANGED <<isEditor, roleChanges, losses>>
To(a, stage) == [run[a] EXCEPT !.stage = stage]

\* A check passes only for an editor, and may fail for one.
CheckPasses(a, r) == isEditor /\ Goes(a, [r EXCEPT !.vouched = TRUE])

\* The two ways a check fails, and what the caller makes of an ordinary error.
CheckFails(a, r, onError) ==
  \/ Goes(a, Concluded(r, "cancelled"))
  \/ Goes(a, onError)

\* A check in a progress callback: _report swallows an ordinary error.
Reported(a, r) == CheckPasses(a, r) \/ CheckFails(a, run[a], r)
\* A checkpoint in the ingestion itself.
Checked(a, r) == CheckPasses(a, r) \/ CheckFails(a, run[a], Concluded(run[a], "failed"))

\* handle checks, and the receipt answers for an operation already published.
StartIngest(a) ==
  /\ AtStage(a, "queued")
  /\ IF run[a].receipt THEN Checked(a, Concluded(run[a], "succeeded"))
     ELSE Checked(a, To(a, "started"))

\* A page or file is fetched after a report; a text is at hand.
Fetch(a) ==
  /\ AtStage(a, "started")
  /\ \/ Reported(a, To(a, "fetched"))
     \/ Goes(a, To(a, "fetched"))
     \/ Goes(a, Concluded(run[a], "failed"))

ReportExtracting(a) == AtStage(a, "fetched") /\ Reported(a, To(a, "waiting"))

TakeIngestSlot(a) ==
  /\ AtStage(a, "waiting")
  /\ Cardinality({b \in Attempts : run[b].holds}) < IngestSlots
  /\ Goes(a, [To(a, "holding") EXCEPT !.holds = TRUE])

\* _ingest_source up to its tasks: one more check, the receipt and the version.
OpenSource(a) ==
  /\ AtStage(a, "holding")
  /\ Checked(a, [To(a, "extracting") EXCEPT !.parts = All("waiting")])

\* After the same check, the version stands already: its receipt is written and the
\* tail is skipped, unless the source changes in between.
AnswerUnchanged(a) ==
  /\ AtStage(a, "holding") /\ isEditor
  /\ \/ Goes(a, Concluded([run[a] EXCEPT !.receipt = TRUE], "succeeded"))
     \/ Goes(a, Concluded(run[a], "failed"))

\* Behind the gate a task checks and calls its provider.
Gate(a) == IF AtStage(a, "extracting") THEN ExtractGate ELSE EmbedGate
\* An ordinary error of a task fails the extraction, and only ends the embedding.
OnError(a) == IF AtStage(a, "extracting") THEN "failed" ELSE "embedded"

MutantMayCall(a, p) == Calling(a) # {} \/ isEditor
MayCall(a, p) == isEditor

BeginCall(a, p) ==
  /\ InStage(a, {"extracting", "embedding"}) /\ run[a].parts[p] = "waiting"
  /\ Cardinality(Calling(a)) < Gate(a)
  /\ \/ MayCall(a, p) /\ Goes(a, [run[a] EXCEPT !.parts[p] = "calling"])
     \/ Goes(a, Abandoned(run[a], "cancelled"))
     \/ Goes(a, Abandoned(run[a], OnError(a)))

\* A provider's failure is the task's result.
EndCall(a, p) ==
  /\ InStage(a, {"extracting", "embedding"}) /\ run[a].parts[p] = "calling"
  /\ \E end \in {"done", "error"} :
       Goes(a, [run[a] EXCEPT !.parts[p] = end, !.vouched = isEditor])

\* A cancelled task ends; the last one lets the attempt go on unwinding.
EndCancelled(a, p) ==
  /\ AtStage(a, "unwinding") /\ run[a].parts[p] = "calling"
  /\ Goes(a, [run[a] EXCEPT !.parts[p] = "none"])

Unwound(a) ==
  /\ AtStage(a, "unwinding") /\ Idle(a)
  /\ Goes(a, IF run[a].after = "embedded" THEN [To(a, "embedded") EXCEPT !.parts = All("none")]
             ELSE Concluded(run[a], run[a].after))

\* One failed excerpt and nothing is published.
Extracted(a) ==
  /\ AtStage(a, "extracting") /\ Idle(a)
  /\ Goes(a, IF \E p \in Parts : run[a].parts[p] = "error" THEN Concluded(run[a], "failed")
             ELSE [To(a, "extracted") EXCEPT !.parts = All("none")])

MutantCheckBeforePublish(a) == Goes(a, To(a, "publishing"))
CheckBeforePublish(a) == Checked(a, To(a, "publishing"))

ClearToPublish(a) == AtStage(a, "extracted") /\ CheckBeforePublish(a)

\* The transaction commits, or the source changed meanwhile, or the store fails.
PublishGraph(a) ==
  /\ AtStage(a, "publishing")
  /\ \/ Goes(a, [To(a, "published") EXCEPT !.receipt = TRUE, !.holds = FALSE,
                                           !.vouched = isEditor])
     \/ Goes(a, Concluded(run[a], "failed"))

(***************************************************************************)
(* The tail.                                                               *)
(***************************************************************************)
\* The nodes are read; a failure to read them only ends the embedding.
ReportEmbedding(a) ==
  /\ AtStage(a, "published")
  /\ \/ Reported(a, [To(a, "embedding") EXCEPT !.parts = All("waiting")])
     \/ Reported(a, To(a, "embedded"))

Embedded(a) ==
  /\ AtStage(a, "embedding") /\ Idle(a)
  /\ Goes(a, [To(a, "vectors") EXCEPT !.parts = All("none")])

MutantTailError(a) == Concluded(run[a], "failed")
\* The embedding's own handler: it logs and goes on.
TailError(a) == To(a, "embedded")

ClearToStore(a) ==
  /\ AtStage(a, "vectors")
  /\ \/ CheckPasses(a, To(a, "storing"))
     \/ CheckFails(a, run[a], TailError(a))

\* Stored, or refused, or failed.
StoreVectors(a) == AtStage(a, "storing") /\ Goes(a, [To(a, "embedded") EXCEPT !.vouched = isEditor])

\* AUTO_MERGE: the duplicates are read, and each group is merged after a check.
ReportMerging(a) ==
  /\ AtStage(a, "embedded")
  /\ Goes(a, To(a, "tail")) \/ Reported(a, To(a, "grouped"))

ClearToMerge(a) ==
  /\ AtStage(a, "grouped")
  /\ \/ CheckPasses(a, To(a, "merging"))
     \/ CheckFails(a, run[a], To(a, "tail"))
     \/ Goes(a, To(a, "tail"))

MergeGroup(a) ==
  /\ AtStage(a, "merging")
  /\ \/ Goes(a, [To(a, "merged") EXCEPT !.vouched = isEditor])
     \/ Goes(a, To(a, "tail"))

\* The merged entity is embedded again; an error only loses its vector.
Reembed(a) ==
  /\ AtStage(a, "merged")
  /\ CheckPasses(a, To(a, "restoring")) \/ CheckFails(a, run[a], To(a, "tail"))

StoreMerged(a) ==
  /\ AtStage(a, "restoring")
  /\ Goes(a, To(a, "grouped")) \/ Goes(a, To(a, "tail"))

\* The reports of the broadcast, whose failure is logged, and of the verification.
ReportVerifying(a) == AtStage(a, "tail") /\ Reported(a, To(a, "verifying"))

\* The graph is read again: nothing catches its failure.  The check itself answers.
Verify(a) ==
  /\ AtStage(a, "verifying")
  /\ Goes(a, Concluded(run[a], "succeeded")) \/ Goes(a, Concluded(run[a], "failed"))

(***************************************************************************)
(* From outside.                                                           *)
(***************************************************************************)
\* The job is cancelled or its time is up: the attempt's task is cancelled, once.
CancelRun(a) ==
  /\ ~InStage(a, {"queued", "unwinding", "over"})
  /\ Goes(a, IF InStage(a, {"extracting", "embedding"}) THEN Abandoned(run[a], "cancelled")
             ELSE Concluded(run[a], "cancelled"))

\* The process dies with all it was doing; each open operation is attempted again,
\* with what it has committed.
LoseProcess ==
  /\ losses < MaxLosses /\ losses' = losses + 1
  /\ run' = [a \in Attempts |->
               IF AtStage(a, "over") THEN run[a]
               ELSE [Concluded(run[a], "open") EXCEPT !.stage = "queued", !.failedAt = "queued"]]
  /\ UNCHANGED <<isEditor, roleChanges>>

ChangeRole ==
  /\ roleChanges < MaxRoleChanges /\ roleChanges' = roleChanges + 1
  /\ isEditor' = ~isEditor
  /\ run' = [a \in Attempts |-> [run[a] EXCEPT !.vouched = @ \/ (~InStage(a, {"over"}) /\ ~isEditor)]]
  /\ UNCHANGED losses

NextIngest ==
  \/ \E a \in Attempts :
       \/ StartIngest(a) \/ Fetch(a) \/ ReportExtracting(a) \/ TakeIngestSlot(a)
       \/ OpenSource(a) \/ AnswerUnchanged(a) \/ Extracted(a) \/ ClearToPublish(a)
       \/ PublishGraph(a) \/ Unwound(a)
       \/ ReportEmbedding(a) \/ Embedded(a) \/ ClearToStore(a) \/ StoreVectors(a)
       \/ ReportMerging(a) \/ ClearToMerge(a) \/ MergeGroup(a) \/ Reembed(a)
       \/ StoreMerged(a) \/ ReportVerifying(a) \/ Verify(a)
       \/ CancelRun(a)
       \/ \E p \in Parts : BeginCall(a, p) \/ EndCall(a, p) \/ EndCancelled(a, p)
  \/ LoseProcess
  \/ ChangeRole

IngestSpec == InitIngest /\ [][NextIngest]_ingestVars

-----------------------------------------------------------------------------
IngestTypeOK ==
  /\ run \in [Attempts -> Run]
  /\ isEditor \in BOOLEAN /\ roleChanges \in 0..MaxRoleChanges
  /\ losses \in 0..MaxLosses

\* However an attempt ends - by an error, a revocation found by one of its tasks, a
\* cancellation between any two steps - it leaves no provider call behind and gives
\* its slot back, and only one that is between opening and publishing holds a slot.
NothingOutlivesAttempt ==
  /\ \A a \in Attempts : InStage(a, {"over", "queued"}) => Calling(a) = {} /\ ~run[a].holds
  /\ \A a \in Attempts : Calling(a) # {} => InStage(a, {"extracting", "embedding", "unwinding"})
  /\ Cardinality({a \in Attempts : run[a].holds}) <= IngestSlots

\* A success stands for a committed operation, and what was published is reported
\* as failed only because it could not be read back for verification: embedding and
\* merging never fail it.
OutcomeMatchesGraph ==
  \A a \in Attempts :
    /\ run[a].result = "succeeded" => run[a].receipt
    /\ run[a].result = "failed" /\ run[a].receipt => run[a].failedAt \in {"verifying", "queued"}

\* A provider call begins only for an editor, and a publication, a write of vectors
\* or a merge only if the principal was one at some moment after the attempt's last
\* call or write: authority lost while a provider was at work stops the write.  The
\* vector of a merged entity is left out: it is stored without another check.
ActsWithAuthority ==
  \A a \in Attempts :
    /\ \A p \in Parts : run[a].parts[p] = "waiting" /\ run'[a].parts[p] = "calling" => isEditor
    /\ \/ InStage(a, {"publishing"}) /\ run'[a].stage = "published"
       \/ InStage(a, {"storing"}) /\ run'[a].stage = "embedded"
       \/ InStage(a, {"merging"}) /\ run'[a].stage = "merged"
       => run[a].vouched

IngestRunsHold ==
  /\ [](IngestTypeOK /\ NothingOutlivesAttempt /\ OutcomeMatchesGraph)
  /\ [][ActsWithAuthority]_ingestVars
=============================================================================
