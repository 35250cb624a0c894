------------------------------ MODULE MCServices -------------------------------
(***************************************************************************)
(* The services around the graph, each checked on its own: a behaviour     *)
(* picks a component and only that one moves, so the states of a run are   *)
(* the sum of the components' and not their product.  The others keep one  *)
(* state in which nothing of theirs is due, so that the fairness asked of  *)
(* every component binds only the one that moves.                          *)
(***************************************************************************)
EXTENDS JobManager, SandboxExecutor, QueryHistory, Investigations, RequestLimits,
        LiveConnections, Sessions, WorkspaceRuntime, GroundedAnswer, GraphMetrics, IngestRun,
        BulkImports

CONSTANT Services  \* the components the run looks at
VARIABLE part      \* the one this behaviour looks at

serviceVars ==
  <<part, jobsVars, sandboxVars, historyVars, viewVars, limitsVars, liveVars, sessionVars,
    runtimeVars, answerVars, metricVars, ingestVars, bulkVars>>

\* All graphs of four nodes and an isolated fifth, with an edge against another, a
\* second one of another kind and a loop.
SmallRelations ==
  {<<p, "knows">> : p \in {<<1, 2>>, <<1, 3>>, <<1, 4>>, <<2, 3>>, <<2, 4>>, <<3, 4>>,
                           <<3, 1>>, <<2, 2>>}} \cup {<<<<1, 2>>, "owns">>}

ServicesInit ==
  /\ part \in Services
  /\ IF part = "jobs" THEN InitJobs ELSE NoJobs /\ ready = <<>>
  /\ InitSandboxes /\ InitHistory /\ InitViews /\ InitLimits /\ InitLive
  /\ InitSessions /\ InitRuntime /\ InitAnswer /\ InitMetrics /\ InitIngest /\ InitBulk
  /\ part # "sandboxes" => client
  /\ part # "history" => limit = CHOOSE l \in RingLimits : TRUE
  /\ part # "live" => guarded /\ cap = CHOOSE c \in Caps : TRUE
  /\ part # "bulk" => persistent
  /\ part # "answers" => asked.filter = AnySource

\* Two commands, or one twice.
TwoCommands == {<<"first", "second">>, <<"first", "first">>}

\* The component `p` moves alone.
Only(p) ==
  /\ part = p /\ part' = part
  /\ p = "jobs" \/ UNCHANGED jobsVars
  /\ p = "sandboxes" \/ UNCHANGED sandboxVars
  /\ p = "history" \/ UNCHANGED historyVars
  /\ p = "views" \/ UNCHANGED viewVars
  /\ p = "limits" \/ UNCHANGED limitsVars
  /\ p = "live" \/ UNCHANGED liveVars
  /\ p = "sessions" \/ UNCHANGED sessionVars
  /\ p = "runtime" \/ UNCHANGED runtimeVars
  /\ p = "answers" \/ UNCHANGED answerVars
  /\ p = "metrics" \/ UNCHANGED metricVars
  /\ p = "ingest" \/ UNCHANGED ingestVars
  /\ p = "bulk" \/ UNCHANGED bulkVars

ServicesNext ==
  \/ Only("jobs") /\ NextJobs
  \/ Only("sandboxes") /\ NextSandboxes
  \/ Only("history") /\ NextHistory
  \/ Only("views") /\ NextViews
  \/ Only("limits") /\ NextLimits
  \/ Only("live") /\ NextLive
  \/ Only("sessions") /\ NextSessions
  \/ Only("runtime") /\ NextRuntime
  \/ Only("answers") /\ NextAnswer
  \/ Only("metrics") /\ NextMetrics
  \/ Only("ingest") /\ NextIngest
  \/ Only("bulk") /\ NextBulk

ServicesSpec == ServicesInit /\ [][ServicesNext]_serviceVars
FairServicesSpec == ServicesSpec /\ LoopRuns /\ TimersFire
=============================================================================
