# TLA+ models of GraphAgent Forge

GraphAgent Forge ingests documents (URLs, text, files) into a Neo4j knowledge graph
through an LLM, answers questions from the stored excerpts, and refreshes URLs on a
schedule. This directory holds TLA+ specifications of the parts of the program where
several actors meet, the TLC configurations that check them on small instances, and
proofs, checked by TLAPS, that the most important properties hold for every instance.

Every definition is translated from the Python source; `PROJECT.json` maps each one to
its file and lines, lists the runs, the properties with a mutant of the code's model that
each of them catches, the findings, the hazards and the theorems. Paths below are
relative to `src/src/`.

```
tlasany M.tla                                  parse
tlc -workers 2 -config Entities.cfg MCEntityGraph.tla      check one run
tlapm DurableJobsProofs.tla                    check the proofs of a module
```

Contents: [the system](#1-the-system), [modules](#2-modules-and-how-they-follow-the-code),
[runs](#3-runs), [findings](#4-findings), [proofs](#5-proofs),
[limits](#6-what-is-not-modelled), [plan](#7-plan).

## 1. The system

### Components, their state and operations

| component | source | state | operations | status |
|---|---|---|---|---|
| durable ingest queue | `agent/durable_jobs.py` | table `durable_jobs`: status, attempts, lease, token, private command | submit, cancel, claim, heartbeat, finish, relinquish, maintain, prune, shutdown, restart | `DurableJobs`, proved |
| state database | `agent/state.py` | one SQLite file, several processes | `run(fn, write)`: one `BEGIN IMMEDIATE` transaction in a shielded thread | as the atomicity of the modules above it |
| source publication | `ingestion/graph_writer.py`, `graph/neo4j_client.py`, `agent/commands.py`, `ingestion/sources.py` | `Source` rows, excerpts, receipts of operations | read source, publish with expected version, delete, clear, direct write, receipt expiry | `SourcePublication`, proved |
| entity graph | `graph/neo4j_client.py`, `agent/core.py` | entities and relations shared by sources, embeddings | publish over them, remove, merge, read and store embeddings | `EntityGraph`, proved; legacy writers left out |
| URL refresh schedules | `agent/research_jobs.py` | document of schedules: due, lease, owner, pending run, last job | create, claim, run, record, delete, list | `ResearchRefresh`, proved |
| bulk imports | `agent/research_jobs.py`, `api/bulk_routes.py` | batches of job ids, marks of cancelled runs | bulk, cancel | `BulkImports`, proved |
| in-memory job manager | `agent/jobs.py` | queue, jobs, workers, finished ring | start, submit, run, time out, shut down | `JobManager`, proved to implement `JobLifecycle` |
| ingestion pipeline, agent facade | `agent/core.py`, `agent/commands.py`, `ingestion/*` | an attempt's local state, slots and gates | ingest and its tail (embed, merge, verify), with authorization before each effect | `IngestRun`, proved; what is extracted is data |
| retrieval and citations | `graph/graphrag.py`, `graph/citations.py`, `ingestion/entity_parser.py` | none of its own | retrieve, generate, validate, revalidate | `GroundedAnswer`, proved; ranking is open |
| sandbox execution | `agent/daytona_exec.py` | sandboxes and interpreters in flight | acquire, run, delete, fan out | `SandboxExecutor`, proved; the scripts: `GraphMetrics`, proved |
| query history | `agent/history.py`, `agent/durable_history.py` | bounded ring or table, saved entries | record, save, delete, restart | `QueryHistory`, proved |
| investigations | `agent/investigations.py`, `api/investigation_routes.py` | revisioned documents | open, create, save with a revision, delete | `Investigations`, proved |
| usage accounting, rate limit | `agent/usage.py`, `api/routes.py` | counters of the current window; buckets of request times | allow, reserve, record | `RequestLimits`, proved |
| identity and sessions | `security/identity.py`, `auth_routes.py`, `middleware.py` | sessions, configuration file | log in, authenticate, authorize, log out, revoke | `Sessions`, proved |
| workspace runtime | `security/workspaces.py`, `agent/research_services.py`, `main.py` | bundles per workspace | get, create, unwind, shut down | `WorkspaceRuntime`, proved |
| live connections | `security/workspaces.py`, `main.py` | open sockets, handshakes | connect, broadcast, recheck, close | `LiveConnections`, its safety proved |
| application lifecycle | `main.py` | the order of all the above | lifespan start and stop | its private half, as a caller of `WorkspaceRuntime` |
| HTTP routes | `api/routes.py` | one batch lock | forward one call each | the limiter and the batch only |
| graph reads and schema | `graph/neo4j_client.py` | indexes | statistics, analytics, paths, browsing | not modelled |
| legacy migration | `graph/source_migration.py` | migration marks | apply, roll back | not modelled |
| workspace scoping | `graph/workspace_scope.py` | none | rewrites Cypher | not modelled |
| model provider client | `agent/nosana_client.py` | HTTP client | chat, embed with fallback | not modelled |
| scripts, deployment, frontend | `scripts/`, `frontend/`, `deploy/` | none | one-shot tools, CI checks, the page | not modelled |

### How they interact

A client's ingest request becomes a command row in the durable queue. A worker task of
some process claims the row under a leased permit and calls `command_handler`, which runs
the ingestion with the job's id as its *operation id*. The ingestion reads the source's
version from the graph store, spends minutes fetching and calling an LLM outside any
transaction, and publishes in one Neo4j transaction guarded by the version it read; a
receipt stored with the publication makes a replay of the same operation a no-op. The
ingest tail then embeds the source's entities (read in one transaction, vectors computed
elsewhere, stored in another), possibly merges duplicates, and broadcasts. Refresh
schedules are clients of the queue: each due run claims its document, submits a job under
the run's idempotency key and records it. Delete, clear, merge, cancel and the API's
forced runs come in at any time, in any process. A process without a state database runs
the same commands through the in-memory queue and keeps history, quota and investigations
in memory.

A private installation puts a workspace in front of all this. A request is authenticated
from a session and authorized against a configuration file that the operator edits; the
workspace's bundle (driver, agent, queue, scheduler) is built by whoever needs it first;
the principal of a running ingestion is checked again before each of its effects, and the
one of a websocket before each message. A costly request passes a rate limit and a quota,
and may own a sandbox for a while. A question reads excerpts, waits for a model, and reads
them again before it answers.

Between processes shared state is only ever in the two databases: SQLite transactions are serialised by
`BEGIN IMMEDIATE`, Neo4j writes by the persistent graph lock taken first in each
transaction. Everything between two transactions of one actor is open to every other.
Inside a process one event loop runs the tasks, and everything between two awaits is one
step.

### What is hard

* a process that dies, is cancelled or stalls between any two transactions, with work
  recorded, half recorded or not recorded; leases that lapse while their owner still works;
* decisions taken on a row read several awaits earlier;
* replays: by a client, by a reclaimed lease, by a restarted process;
* an operation that takes minutes against deletion, clear and republication;
* identities that recur: the same content gives the same version and entity ids again;
* bounds that several paths must keep together (attempts, permits, history, budget, caps
  on connections, bundles, sandboxes, sessions, buckets);
* a task that is cancelled at any await, more than once, while what it asked for comes
  into being all the same;
* authority that is withdrawn while a provider works for minutes.

### What makes each component correct

* *Queue*: a job is executed at most `max_attempts` times, only its last attempt stores a
  result, an accepted cancellation is never lost, caps hold, every job settles, and a
  poller sees the lifecycle of `JobLifecycle` and nothing else.
* *Publication*: an operation commits once; nothing removed comes back by an older
  extraction; excerpts and graph are of the current version.
* *Entity graph*: after any merges and removals no evidence dangles, no entity is orphaned,
  no current assertion is lost, no removed summary or stale vector stays.
* *Schedules*: one active job per schedule, a previous version that is really previous, a
  deleted schedule leaves no running job, a due run happens.
* *Bulk imports*: an accepted item is the job it is listed with, also on replay; a
  cancelled run does not start, and a cancellation reaches every job of the batch.
* *Job manager*: events in order, nothing outlives shutdown, shutdown returns, accepted jobs
  end, and the same lifecycle as the durable queue with one attempt.
* *Ingestion run*: no provider call or slot outlives an attempt, the outcome reported is
  the graph's, and no write follows lost authority.
* *Answers*: the excerpts an answer rests on were all current together after it was written.
* *Sandboxes*: what was created is deleted once, wherever the caller was cancelled; limits hold.
* *History, investigations, limits, sessions*: pinned answers stay and both stores agree; no
  update is lost and no note is unchecked; neither a window nor the quota is exceeded; an
  accepted request was entitled at one instant.
* *Runtime and sockets*: no piece of a bundle leaks and users stop before what they use;
  connections are bounded, revoked sockets leave and see nothing more.

## 2. Modules and how they follow the code

Common conventions. A transaction is one action; an `await` between transactions is a
phase of the actor's record. Time is relative: a lease, a delay or a window is the number
of ticks it still has, so that models stay finite and no clock value is compared. A uuid
is what distinguishes it from the others alive (the attempt, the process, an unused key).
Contents, commands, keys and names are model values. Variables marked *history* in a
module record the past for a property; no guard reads them. Each module
ends with its properties; a definition named `Mutant...` is not part of the model: it is
the plausible slip in the definition after it, which `PROJECT.json` pairs with the
property that catches it.

### JobLifecycle, DurableJobs

`JobLifecycle` is what a client of the queue may rely on, job by job: admitted, begun,
requeued, cancelled, settled, forgotten, and which move may follow which. `DurableJobs`
is `agent/durable_jobs.py`: `rows` is the table, `exec` the local variables and program
point of every worker task (`_worker`, `_execute`, `_heartbeat`, `_cleanup`), `mode` the
life of each manager, `used`/`left` the budget window. `Submit`/`SubmitAgain` are `submit`
with its idempotency key; `Maintain` is `_maintain` followed by `_prune`, which the code
runs inside submit, claim and initialize, and so do the actions. `ClaimNothing`,
`ClaimOverBudget` and `ClaimJob` are the outcomes of `_claim`. `Finish` and `Relinquish`
are fenced by the token as `_finish` and `_relinquish` are; `SettleFails` is a settling
transaction that raises. `Interrupted` says where `CancelledError` finds each task:
a claim whose event was still being sent (outside the `try`) leaves its row running until
the lease lapses. `Crash` and `Restart` are the process. `ImplementsLifecycle`
instantiates `JobLifecycle` with the mapping from rows to phases.

Abstracted: event log, stage labels, result contents (only which attempt stored it),
transactions that set `finished_at` give their rows equal stamps and `seq` breaks the tie,
as `_prune` orders them.

### SourcePublication

One row per source with its version, excerpts and graph content, one receipt per
operation, and `at`, the attempts under way. `Begin` checks the receipt, `ReadSource` is
`get_source` (which reserves an identity for a missing source), `ReturnPrior`,
`NoteUnchanged`, `Conflict` and `Publish` are the four outcomes of
`publish_source_graph`, `Abandon` is any failure, cancellation or crash before it.
`Delete`, `Clear` and `DirectWrite` draw versions of their own (`marks`). A receipt lives
`ReceiptTTL` (7 days), a command is retried for `CommandTTL` (24 hours): their order is
the assumption the replay argument rests on.

### EntityGraph

The graph inside those transactions. `node` is a partial function from entity ids to
their memberships, evidence, summary and vector; `edge` the relations by source.
`Kept(s)` is `_remove_source_graph`: references to the stored chunks are stripped from
every entity, the source's relations go, its members lose membership, summary and vector,
and members or ends of deleted relations that nothing holds are deleted. `Publish` is
removal followed by MERGE: note that the entity's evidence is *set*, its memberships
*united*, and a vector left alone. `Merge` is `merge_nodes`: `Repointed` moves relations
of duplicates to the canonical entity and drops those inside the group, `Absorbed`
unites memberships and evidence and drops the vector; the longest summary is any of the
non-empty ones. `EmbedRead`/`EmbedStore` are the two transactions of an embedding with
the guard on label and summary. An id names source, version and local name
(`prefix_and_validate`), so ids recur exactly when versions do. `said` and `home` are
history: what each current version asserted and where each id lives since the merges.

### ResearchRefresh

One schedule (`row`, its document) and `at`, the phase of each process's run:
`claimed` (before authorisation), `overlap`/`clear` (last job looked up), `read` (source
version), `ready` (submit), `full` (queue full), `submitted` (record), `cancelling`
(delete). The queue is external and promises what `DurableJobs` proves: a key names one
job, an active job ends. A run keeps its key in the document, so a claim after a crash
submits under the same key. `late` says that the version stored as the previous one was
read after the run's own job had ended.

### The services

The modules below are independent machines over one process. `MCServices` extends them all:
its variable `part` is chosen in the initial state and only that component moves, so a
run explores the sum of their states. An action covers the code from one await to the
next.

* **JobManager** (`agent/jobs.py`). `record` is `_jobs`, `backlog` the queue, `finished` the
  ring, `worker` each task's point (parked in `get()`, woken, in a broadcast, in `wait_for`,
  finalising), `ready` the loop's order of woken steps, `shutting` the stages of
  `shutdown`. `CancelTasks` is what `task.cancel()` meets at each point, with a cancellation
  that `wait_for` swallows when its inner job has just ended. `Lifecycle` instantiates
  `JobLifecycle` with one attempt.
* **SandboxExecutor** (`agent/daytona_exec.py`, the batch routes). `call` is a caller's
  program point, what the detached remote operation is doing (`op`), what it holds and
  how many sandboxes it has made and not begun to delete (`left`); `batch` is the
  route that holds the lock, the items of its current fan-out and the places in that
  fan-out's semaphore: the configured number for the audit route, its own size, up to the
  ceiling of the executor, for each size of a sweep (`Concurrency`). `Launch` begins the
  one fan-out of the audit route or the next, larger size of a sweep, when every item of
  the last has ended; the items of a size are named like those of the one before, so
  their records are used again. `Cancel` may strike at any await, again while a deletion is shielded; `LateAcquired` is
  the callback that deletes a sandbox whose caller has gone.
* **GraphMetrics** (the scripts in the same file). Each loop of the scripts is a function
  of the number of its turns: the flood from each start (`NextWave`, `StartFrom`), the
  descending sort, an iteration of page rank (`Ranked`), a turn of Brandes' search
  (`Visit`) and of its accumulation (`Popped`), the pairs of neighbours (`Coefficient`).
  Beside them stand definitions of what they are to compute: classes of nodes joined by walks,
  shares of shortest walks, triangles. Floats are replaced by whole numbers: ranks are
  multiplied by `Scale(0)`, shares of walks by `PathUnit` and clustering coefficients by
  `PairUnit`, which all their denominators divide, so no quotient has a remainder
  (`GivenExact`, `UnitDivides`, `CoefficientExact`).
* **QueryHistory** (`agent/history.py`, `agent/durable_history.py`). `ring` with its index
  `byId` and `rows`, the table, take the same calls side by side; a process has one of
  them, the page treats them as one. `Restart` empties the ring and may change the limit.
* **Investigations**. `view` is the store, `editor` a page and the progress of its request:
  loaded, sent, read again by the route (`ReadOld`), checking notes one `get_evidence` at a
  time, saved by `SaveView`, the compare and swap. `TurnEvidence` is a refresh or a deletion.
* **RequestLimits** (`_rate_limit_allow`, `agent/usage.py`). `bucket` and `tracked` are the
  limiter's table; `usage` the row of the quota. `ReadClock` computes the window before the
  transaction (`Reserve`, `RecordUsage`) that uses it, as `_change` does.
* **Sessions**. `config` is what the file says now, or that it cannot be read; `browser` a
  request's point: the file read (`authenticate`), the session looked up, the membership
  checked, and for a login the cap applied in the insert. `entitled` and `stale` are
  history.
* **WorkspaceRuntime** (`WorkspaceRuntime._create`, `get`, `shutdown`, `initialize_research`).
  `pieces[c]` is what the bundle built by caller c still owns, in the order it is
  acquired; `holder` the lock; `stopping` the stages of shutdown. A piece that fails, and a
  cancellation at any of them, starts the unwinding.
* **LiveConnections** (both managers, chosen by `guarded`). `socket` is the handshake and the
  receive loop, `message` the sends of a broadcast to each socket of the list it copied,
  `permitted` what the identity store would say.
* **GroundedAnswer** (`GraphRAGEngine.query` and what it calls). `published` is the version
  of each source, `asked` a question's point and what it has read: entities, excerpts,
  linked excerpts, reply, then `Revalidate`, with refreshes, deletions and clears between
  any two.
* **IngestRun** (`command_handler` to the result, with `_post_ingest`). `run[a]` is the
  attempt's stage, its slot, its tasks under the gate and its receipt; every check of
  authority is a step, and `vouched` (history) says that the principal was an editor since
  the attempt's last call or write.
* **BulkImports** (the bulk half of `research_jobs.py`). `bulkJob` is a job as the batch
  sees it, `importer` a request's point in its manifest or in a cancellation, `batches`
  and `marked` the bounded lists. `persistent` tells the mode: with a database each command
  is a transaction under its own key; without one a manifest is one step and a
  cancelled run is marked.

Worth knowing of the code, found while translating it: a login swallows a 503 of the
identity store while it authenticates the previous cookie; the unwinding of `_create`
is complete for one fault per creation; `merge_entities` stores the vector of the merged
entity without another check of authority, which `ActsWithAuthority` therefore leaves
out; a check whose request for cancellation fails raises an ordinary error, which the
progress report swallows, but the next checkpoint still stops the publication; a retry
answered from a receipt skips the tail; without a database a cancelled batch lists a
run that had already succeeded as cancelled.

## 3. Runs

Every passing run finishes exhaustively; each property is broken by the mutant named for
it in `PROJECT.json`. The property of a service is the conjunction of its named parts, its
type invariant among them (`SandboxesHold == SandboxTypeOK /\ NoOrphanSandbox /\
ExecutorWithinLimits`): `PROJECT.json` pairs it with one mutant, and further `Mutant...`
definitions beside the operators they change break its other parts.

| run | instance | shows |
|---|---|---|
| `DurableJobsFence` | 2 managers, 1 job, 2 attempts, budget 2, lapses, crashes, shutdown, storage failures | `CancelWins`, `AttemptsBounded`, `ResultOfLastAttempt`, the refinement `ImplementsLifecycle` |
| `DurableJobsTimely` | 2 managers, 3 jobs, 1 permit, 2 active, history 1, owners renew in time | `PermitHeldUntilCleanupEnds`, `PruneOldestFirst` |
| `DurableJobsLive` | 1 manager that may crash for ever, 2 jobs, one key | `TypeOK`, `PayloadWhileActive`, `KeyIdentifiesJob`; liveness `EveryJobSettles`, `CancelTakesEffect` |
| `DurableJobsStall` | as Timely, but an owner may stall | *violation* of `PermitHeldUntilCleanupEnds` |
| `Publication` | 2 sources of which one has both operations, 2 contents, anonymous operations, 2 attempts at once, 2 invalidations | `OperationCommitsOnce`, `CommitLeavesReceipt`, `ExcerptsOfCurrentVersion`, `GraphOfCurrentVersion`, `NoResurrection` |
| `PublicationReingest` | 1 source, 1 invalidation | *violation* of `DeletionInvalidatesExtraction` |
| `Refresh` | 2 processes, 2 job records, 3 keys, 3 faults | `OneActiveJob`, `PreviousVersionIsOlder`, `OutcomeOfLastJob`, `DeletedScheduleCancels`; liveness `DueRunHappens` |
| `RefreshStall` | 2 processes, one may stall past its lease | *violation* of `OneActiveJob` |
| `Entities` | source a with two versions, b with one; 3 publications, merges, 1 embedding in flight | `EvidenceIsCurrent`, `NothingOrphaned`, `AssertionsSurvive`, `SummaryIsCurrent`, `SoundWithoutRecurrence` |
| `EntitiesRecur` | the same | *violation* of `EvidenceOfEveryMember` |
| `Services` | all services but the two below, one at a time | `SandboxesHold`, `LimitsHold`, `SessionsHold`, `RuntimeHolds`, `AnswersGrounded`, `MetricsRight`, `BulkHolds`, `HistoryKeepsAnswers`, `InvestigationsKept`, `IngestRunsHold` |
| `ServicesLive` | 2 workers and 3 jobs, shutdown at any time; 2 sockets and a message | `EventsInOrder`, `MemoryQueueImplementsLifecycle`; safety with liveness: `JobsSettle` (`ShutdownReturns`, `AcceptedJobsEnd`), `LiveConnectionsHold` (`RevokedSocketLeaves`, `BroadcastsEnd`) |

### Why the bounds are enough

* Two managers with one task each: every transaction of the queue is about one row and
  one owner, and the hazards are an old owner against a new one. A third owner repeats
  them. One job with two attempts lets a lapse, a requeue, a reclaim and a late finish
  meet; three jobs against two active and a history of one make every cap bind. In
  `DurableJobsTimely` a job has a single attempt to keep the three-job instance small:
  requeues are explored by `DurableJobsFence`, and the caps and the permit are proved for
  every value.
* The ticks of a lease, a delay and a window are small but ordered as in the code
  (a lease is longer than a heartbeat interval, a command lives longer than a lease).
* Two contents are enough for a version to be replaced and to come back; two attempts for
  two replays of one operation at once; `MaxMarks` counts invalidations (deletes, clears,
  direct writes) of a behaviour.
* In `Entities` three publications let both sources be merged and one of them be
  refreshed, or return under its old version; at most one relation per version, which is
  enough for it to be moved from either side, collapse or survive. Evidence is one chunk
  per version: the code strips by chunk id, all of a version at once.
* The services have two or three actors each, against caps of one or two, so that every cap
  is met and passed by a competitor: three callers, three workspaces and room
  for two bundles, so that one waits for the lock while a building fails and another
  serves, and the third workspace is refused; two browsers and one session;
  two clients with one tracked bucket, two requests and a clock that crosses a window;
  two calls against one configured place, so that the items of the audit route queue and a
  sweep of sizes one and two holds more sandboxes than that (its ceiling of two, like the
  code's 32 against sizes of at most 16, does not bind; `SandboxesKept` has any); five answers for a limit of one or three with
  two pins; two versions of two documents and three changes of the graph during a
  question, enough for a version to return; two attempts of an ingestion with two parts
  each and one slot; two importers with two-command manifests (two commands, or one
  twice), a queue with room for one unfinished job, and a table of three marks. In
  `BulkImports` requests without a key are explored without a database only: with one,
  they differ from keyed requests in never finding an earlier job, and `BulkKept` covers
  any `ImportKeys`, `NoImportKey` among them or not.
* `GraphMetrics` runs over all graphs of at most five nodes with relations out of nine
  (an edge each way, a parallel one, a loop, ends outside the graph): enough for several
  shortest paths between two nodes and for graphs over a budget of the script. Page rank is
  iterated twice: conservation of mass is a fact about one iteration, and the theorem covers
  any number.
* `MaxFaults` bounds refusals and crashes of refresh runs; job records and keys are
  recycled once nothing refers to them, so the number of runs is not bounded.

Symmetry is used in safety runs only, over managers, attempts, processes or local names.
Deadlock is checked except in `Services` and `ServicesLive`: there a process may have shut
down, or a bounded behaviour (numbered answers, logins, marks of the clock) may be over.

### Fairness

`DurableJobsLive` and `Refresh` assume weak fairness only: the event loop keeps running
tasks that can run, a cancelled handler unwinds, the supervisor restarts a dead process,
time passes, and (for `Refresh`) the queue settles its jobs, which `EveryJobSettles`
shows of the queue. Nothing obliges a handler to return (the command's lifetime ends it),
a client to act, or a failure to happen or not to happen; in `DurableJobsLive` processes
may crash infinitely often, in `Refresh` failures end after `MaxFaults`.

`ServicesLive` assumes `LoopRuns` and `TimersFire`, weak fairness again: the loop runs what
is ready, sends end (each has a timeout in the code), a handler that was cancelled or
timed out unwinds, shutdown's own wait expires, the receive loop of a socket times out and
rechecks, and the identity store answers or fails. No handler need end by itself, no
client answer, and no socket be permitted again.

## 4. Findings

All four are disagreements between what a document or comment says and what the code does
in a corner; none of them is about normal operation.

* `DurableJobsStall`: "a running permit stays held until cleanup ends" holds only if the
  owner renews in time. A stalled owner's row is reclaimed while its handler executes, so
  two handlers may execute under one permit. The fence still keeps its result out
  (`ResultOfLastAttempt`, proved without any timing assumption).
* `PublicationReingest`: a deletion does not invalidate an extraction started before it if
  the same old content is ingested again in between, because the content version the
  extraction expects is back. It never lands on the deleted source itself
  (`NoResurrection`, proved).
* `RefreshStall`: a process that stalls past its 60 s lease between finding the last
  job active and dropping the run clears the key of another process's claim, since that
  update names no expected owner; the next claim draws a new key and two jobs are active.
* `EntitiesRecur`: merge b's entity into a's, delete a, ingest a's same content again: the
  id recurs and `publish_source_graph` replaces the merged entity's evidence, b's included,
  although b still holds it. Until the entity is embedded again a vector made in
  between stays beside the new summary. `SoundWithoutRecurrence` shows that nothing but a
  version's return does this.

## 5. Proofs

No theorem assumes more than the named `ASSUME`s of the modules and the specification, but
for two that say so: `PermitStaysHeld` and the theorems of `ResearchRefreshProofs` assume
`Timely`, the constant that forbids a lease to lapse under a working owner, because
without it the runs `DurableJobsStall` and `RefreshStall` show them violated. The number
of managers, tasks, jobs, sources, versions, names, operations and attempts is arbitrary,
and so is every bound.

* **DurableJobsProofs.** The invariants are not inductive as stated: that a queued job
  has an attempt left depends on every path back to the queue, and that the stored result
  is the last attempt's on tokens never exceeding attempts. `IInv` is `RowInv` for every
  row (types; status against token, lease, payload, result, cancel, attempts) with
  `ControlOK` for the tasks. Lemmas show that each row operation (`Terminal`, `Requeued`,
  `Recovered`, `Finished`, `Relinquished`, ...) keeps `RowInv`, then that each action does.
  Theorems: `TypeCorrect`, `CancellationWins`, `AttemptsStayBounded`,
  `StaleResultsFenced`, `PayloadKeptWhileActive`.
  - *The refinement.* `Moves(r, r')` is the lifecycle move between two rows; each
    operation is a move and pruning composes with it, so every transaction moves every job
    by one move. `Refinement` is `Spec => ImplementsLifecycle`. The caps
    (`ActiveStaysBounded`, `PermitsStayBounded`) follow since a transaction other than a
    guarded submit or claim never adds to a count; `KeysIdentifyJobs` from the guard of
    `Submit`.
  - *The permit.* With `Timely`, an executing task holds its lease (`LeasesOK`) and
    tokens of a job's executions are distinct and not above its attempts (`TokensOK`):
    `PermitStaysHeld`.
  - *The history.* A transaction gives all the rows it ends one stamp, later than every
    stamp before; so by (stamp, `seq`) the settled rows are in one order, and pruning keeps
    the newest of them by rank. `OldestPrunedFirst` is `Spec => PruneOldestFirst`.
* **SourcePublicationProofs.** `IInv` is `Types` with `RowGood` for every row, `OpGood` for
  every operation and `AttemptGood` for every attempt. It relates an attempt's expected version to the epoch it
  was read in (if the row is not published, an equal version means an equal epoch, since
  tombstone versions are never drawn twice), receipts to commits (`commits = 1` iff the
  operation's receipt was written, and it is live as long as the command is), and content to
  versions. Theorems: `CommitsOnce`, `ReceiptsLast`, `ExcerptsCurrent`, `GraphCurrent`,
  `RemovalsStand`, `PublicationTypeCorrect`.
* **EntityGraphProofs.** The properties are inductive only together: a removal looks for
  orphans among members and ends of deleted relations only, which misses nothing because
  every relation's source holds both its ends; and it strips summaries of members only,
  which is enough because a summary's source is a member. `IInv` states this entity by
  entity (`EntityInv`), relation by relation (`EdgesInv`), with what versions assert
  (`SaidInv`) and that an entity's id is of a version published before (`PastInv`, which
  makes an entity of a new version new). For a merge, relations and assertions are traced
  through the map from each id to where it went, in both directions. Theorems:
  `TypeCorrect`, `EvidenceCurrent`, `NoOrphans`, `AssertionsKept`, `SummariesCurrent`,
  `SoundUntilRecurrence`.
* **ResearchRefreshProofs.** Under `Timely` at most one process runs the schedule
  (`OneRunner`), and while the schedule exists that process holds the lease and the
  document's pending key is its own (`RunOK`). So the document accounts for every job:
  one that is queued or running is the last job or the one of the pending key
  (`Accounted`), which is what makes `OneActiveJob` survive forced runs, crashes between
  submitting and recording, and refusals. `PreviousVersionIsOlder`, `OutcomeOfLastJob` and
  `DeletedScheduleCancels` follow from the same invariant.
* **ExecutionProofs**, the in-memory queue. Nothing here is a transaction; what makes the events ordered is the
  order of the loop's ready queue. The invariant (`JobsInv`) says that the finished ring
  lists exactly the ended jobs that are kept, that an event waiting to be sent says
  what its record says (`EntryOK`), that a `queued` event stands in the ready queue before
  whatever could overtake it (`Follows`, `Scheduled`), that each worker's program point
  fits its job's record (`CrewOK`), and at each stage of shutdown what can still be
  there (`ClosingOK`). Theorems: `EventsOrdered`; `ShutdownLeavesNothing`, the
  safety half of `JobsSettle`; `MemoryQueueRefines`, by which the queue without a database
  implements the same `JobLifecycle` as the durable one, with one attempt.
* **ExecutionProofs**, the rest. `SandboxesKept`: for each program point of a call (`CallOK`), how many
  sandboxes it has made and not deleted, with the detached operation that may still
  deliver one; a caller cancelled while acquiring leaves that balance to the callback. The places taken
  are at most those of the fan-out's semaphore, whatever `Concurrency` chose, because
  none is taken when the next one is made: every item of the last has ended (`BatchOK`).
  `IngestRunsKept`: for each stage of an attempt, its slot, its calls and the vouching
  since the last of them. `AnswersRest`: what is read of the graph at `Revalidate` is read at one
  instant after the reply, so if all of it is still there the answer rests on one state
  of the graph; what is not there has been recorded as withdrawn, so nothing is withheld
  without cause.
* **ServiceProofs.** `ViewsKept` is `ViewsSpec => InvestigationsKept`. A revision
  identifies a record while it is stored: what a page loaded, and what the route read
  later, are copies of the stored record or of an earlier revision (`CopyOf`), so equal
  revisions mean equal records, and the notes checked against the copy were checked
  against the record. The cap needs that nobody else can have the id of an
  investigation that is being created (`Creators`).
  - *Limits.* `QuotaNeverExceeded`: the row's window only moves forward, and
    nothing was granted in windows after it. `LimitsKept` adds the rate: a bucket counts
    what the client's own hits count, since all it lacks of them is outside the window
    (`LastOf`), also after the sweep dropped it.
  - *Sessions.* An id is given out once and its row inserted once, by the login that drew it
    (`LoginOK`): a row that a check finds was there, with the same token, at every earlier
    instant of the request, so what `authorize` accepts was good when it read the file
    (`RequestOK`), and that is the instant of `SessionsKept`.
  - *Runtime.* `BundlesAccounted` is `RuntimeSpec => []RuntimeHolds`, for any workspaces,
    callers and cap. The invariant says, for each program point of a caller, exactly which
    pieces exist (a prefix of the order of acquisition while building, what the unwinding
    or closing has not reached yet afterwards), that the one who builds or unwinds holds
    the lock, that a cached bundle is complete and its builder is of that workspace, and
    that cached and unfinished bundles together stay within the cap.
  - *Connections.* `ConnectionsKept` is the safety half of `LiveConnectionsHold`, for both
    managers.
* **BoundedTablesProofs.** Two services that keep the newest of what they store.
  - *History.* `HistoriesKeep` compares two ways to evict: turn by turn in the ring, by
    `ORDER BY seq LIMIT overflow` in the table. Both are the oldest k of those that may go,
    by rank among them (`OverflowOldest`, `TurnedOnce`, `EvictedLeaves`); k is the
    overflow, and the turns end when it is spent or nobody is left.
  - *Bulk imports.* `BulkKept`. Without a database jobs are numbered as submitted,
    so the kept batches are neighbouring intervals of job numbers (`EdgesOK`), each of at
    most as many jobs as its manifest has commands and the queue has room. A mark
    is forgotten only when `MaxMarkers` others were made after it; but those made after the
    mark of a listed batch's job are of jobs of batches it can have been listed beside,
    before it or after (`Beside`, twice), and those made after the mark of a queued
    job are of a batch listed then or of active jobs (`AllListed` and the room). By
    `BulkAssumption`, which the code's constants satisfy, neither fills the table
    (`MarksOK`, `ToldOK`). With a database an item's job has the key of its place, which
    no two live jobs share, until it is pruned (`ImportingOK`).

* **MetricsProofs.** `MetricsCorrect` is `MetricsSpec => []MetricsRight`: what the scripts
  compute is what the definitions say, for graphs of any size. There is nothing to
  strengthen, since `MetricsRight` follows from the type invariant (`MetricsTyped`); the
  work is in the algorithms.
  - *Walks.* Numbers of walks do not depend on the direction (`WalksTurn`, by
    way of the first step instead of the last), a shortest walk has fewer steps than
    there are nodes (`Short`, by counting the rings it crosses), and distances are a metric
    (`ReachBack`, `ReachThrough`, `ReachSelf`).
  - *Components.* After k waves a flood has reached exactly the nodes within k steps
    (`WaveOn`, `FloodFills`), so each start not seen yet adds one class; the sort is a
    permutation (`Sorted`): `ComponentsFound`.
  - *Page rank.* Before each iteration all ranks are multiples of what is left of the
    scale, so what a node gives its neighbours adds up to 17/20 of its rank without a
    remainder; with the teleports and the dangling mass that is everything (`RankedKeeps`,
    `MassKept`). The double sum over edges is exchanged by `SumSwap`.
  - *Betweenness.* The search keeps its queue sorted by distance, with all nodes of one
    ring before the next, and counts for each node the shortest walks by way of the
    predecessors taken so far (`Searched`, `VisitOn`): `SearchFound`. Popping from the back, a
    node has received what all the nodes after it pass on before it is popped itself
    (`Paid`, `PoppedOn`): `DependencyIs`. Each pair of ends is counted twice and a walk
    has two directions (`ViaTurn`), so half the total is the centrality
    (`BetweennessFound`).
  - *Clustering.* The nested loop over the list of neighbours meets each joined pair once
    (`LinksCount`, `CoefficientExact`), and the nodes counted are those with a pair of
    neighbours: `ClusteringFound`.

Loops are functions on `0..n` defined by their previous value. That such a
function exists (`LoopExists`), and that what holds of its start and is kept by its steps
holds of all of it (`CountUp`), is proved from the least element of a set of numbers;
the provers cannot instantiate the library's induction theorems, whose parameter is an
operator. Sums and products are such loops too (`SumNext`, `SumAdd`, `SumSwap`).

Every invariant the runs check is proved. Only model-checked is liveness, since neither
fairness nor ENABLED is in reach of the prover: `EveryJobSettles`, `CancelTakesEffect`,
`DueRunHappens`, `ShutdownReturns`, `AcceptedJobsEnd`, `RevokedSocketLeaves`,
`BroadcastsEnd`. The sandbox scripts in floats and with the code's rounding to five places
are beyond both: the proof is about the exact numbers they approximate.

## 6. What is not modelled

* In `DurableJobs`: progress stages and events; directory and schema handling.
* In `SourcePublication`: legacy migration and its roll-back, validation of graph
  payloads, workspace prefixes.
* In `EntityGraph`: legacy writers (`write_graph`, `upsert_node`, `upsert_edge`), aliases
  and labels, relation types and their evidence, activation of embedding spaces other
  than as a store that does nothing, auto-merge's choice of groups (any merge is allowed).
  Publication is atomic here; how it races is `SourcePublication`'s subject.
* In `ResearchRefresh`: other exceptions than authorisation and a full
  queue are one action, `Abandon`. The history limit of the queue is assumed not to drop
  a job a schedule refers to.
* In the services: the wording of errors, clipping of texts, hashes, cookie and header
  syntax, the audit trail, progress events, scores and prompts, and timings other than the
  order of deadlines. `IngestRun` leaves open what is extracted, and takes publication as
  one step, since `SourcePublication` is about it: a publication that finds its version
  stored or its receipt ends as a committed one does. `RequestLimits` has one
  configuration; processes started with different window lengths reset each other's row.
  In it usage is recorded after a reservation only: recorded alone, or read by
  `snapshot`, the row rolls over in the same way. `WorkspaceRuntime` allows one fault
  per creation.
* *Graph read queries and schema*: each is a read-only transaction or an idempotent index
  creation; they keep no protocol state, and their meaning is Cypher's.
* *Legacy source migration*: an operator script, one transaction that adds or removes
  metadata rows.
* *Workspace scoping*: rewrites the text of a query; string processing.
* *Model provider client*: HTTP calls with a fallback method; the modules keep that a call
  may fail, be late, or return anything allowed.
* *Operator scripts, deployment, frontend*: one-shot tools, manifests and a page. The guarded
  store of `reembed_graph` is `EntityGraph`'s `EmbedStore`.

## 7. Plan

Everything of the first plan is modelled except the pure operators on documents: the plan
of excerpts and their coverage (`ingestion/chunks.py`), `sanitize_graph` and
`prefix_and_validate`, against reference definitions. They would need sequences of
characters to say anything, and their unit tests cover them.
