----------------------------- MODULE DurableJobs -----------------------------
(***************************************************************************)
(* The single-host durable ingest queue of src/agent/durable_jobs.py: one  *)
(* SQLite table of jobs shared by several DurableJobManager instances,     *)
(* whose worker tasks claim jobs under a leased permit, run the handler    *)
(* outside any transaction, renew the lease by heartbeats and record the   *)
(* outcome behind a fencing token.                                         *)
(*                                                                         *)
(* Every action that touches `rows` is one short SQLite transaction        *)
(* (StateDatabase.run with write=True): BEGIN IMMEDIATE serialises the     *)
(* writers, and an exception in the callback rolls everything back, so a   *)
(* refused submission changes nothing.                                     *)
(*                                                                         *)
(* Time is relative: a row holds the ticks its lease, its retry delay and  *)
(* its budget window still have and how old it is, instead of epochs       *)
(* compared with time.time().  Job numbers are the AUTOINCREMENT `seq`;    *)
(* the lease token uuid4().hex, fresh for every claim, is the number of    *)
(* the attempt it was drawn for.                                           *)
(***************************************************************************)
EXTENDS Naturals, FiniteSets

CONSTANTS
  Managers,       \* DurableJobManager instances (processes) sharing the database
  Slots,          \* worker tasks of all the managers
  Owner,          \* the manager each worker task belongs to
  MaxJobs,        \* bound: submissions in a behaviour
  Keys,           \* idempotency keys clients use
  NoKey,          \* a submission without a key
  Commands,       \* command hashes
  Workers,        \* policy: running permits shared by all the managers
  MaxActive,      \* policy: queued and running jobs together
  HistoryLimit,   \* policy: terminal rows kept
  MaxAttempts,    \* policy: claims of one job
  AttemptBudget,  \* policy: claims in one fixed window
  Window,         \* policy: ticks in a budget window
  Lease,          \* policy: ticks a lease lasts
  CommandTTL,     \* ticks after which an active command expires (24 h)
  Backoff,        \* ticks a retryable failure waits
  Timely          \* TRUE: every owner renews or settles before its lease lapses

Jobs == 1..MaxJobs

ASSUME PolicyAssumption ==
  /\ MaxJobs \in Nat
  /\ {Workers, MaxActive, HistoryLimit, MaxAttempts, AttemptBudget} \subseteq Nat \ {0}
  /\ {Window, Lease, CommandTTL} \subseteq Nat \ {0}
  /\ Backoff \in Nat
  /\ Timely \in BOOLEAN
ASSUME ActorAssumption ==
  /\ Owner \in [Slots -> Managers]
  /\ NoKey \notin Keys
  /\ Commands # {}

VARIABLES
  rows,    \* the durable_jobs table, one row per submission number
  exec,    \* what each worker task is doing: _worker and _execute
  mode,    \* whether each manager is up, closing (shutdown) or down
  used,    \* claims already charged to the current budget window
  left     \* ticks until the next budget window
vars == <<rows, exec, mode, used, left>>

TERMINAL == {"succeeded", "failed", "cancelled"}
ActiveStatus == {"queued", "running"}
Outcomes == {"succeeded", "failed", "revoked", "retry", "error"}
Verdicts == Outcomes \cup {"cancelled", "lost", "relinquish", "abandon"}
\* Verdicts reached in the body of _execute's try: shutdown there still relinquishes.
InTry == {"succeeded", "failed", "cancelled"}

Row == [status : ActiveStatus \cup TERMINAL \cup {"absent", "pruned"},
        attempts : 0..MaxAttempts, token : 0..MaxAttempts, lease : 0..Lease,
        cancel : BOOLEAN, age : 0..CommandTTL, backoff : 0..Backoff,
        waiting : BOOLEAN, key : Keys \cup {NoKey}, cmd : Commands,
        payload : BOOLEAN, result : 0..MaxAttempts, finished : Nat]

Exec == [phase : {"idle", "emit", "run", "cleanup", "settle"}, job : Jobs \cup {0},
         token : 0..MaxAttempts, task : {"none", "active"} \cup Outcomes,
         verdict : Verdicts \cup {"none"}]

Idle == [phase |-> "idle", job |-> 0, token |-> 0, task |-> "none", verdict |-> "none"]

\* Definitions named Mutant... are not part of the model: each is the plausible
\* slip in the definition after it that one of the properties is shown to catch.

\* Where no row is stored: not submitted yet, or deleted by _prune.
Empty(status) ==
  [status |-> status, attempts |-> 0, token |-> 0, lease |-> 0, cancel |-> FALSE,
   age |-> 0, backoff |-> 0, waiting |-> FALSE, key |-> NoKey,
   cmd |-> CHOOSE c \in Commands : TRUE, payload |-> FALSE, result |-> 0, finished |-> 0]

NewRow(key, cmd) ==
  [Empty("queued") EXCEPT !.key = key, !.cmd = cmd, !.payload = TRUE]

Retained(r) == r.status \notin {"absent", "pruned"}
With(rs, statuses) == {j \in Jobs : rs[j].status \in statuses}

(***************************************************************************)
(* What the transactions do to the table.                                  *)
(***************************************************************************)

\* finished_at of a row that becomes terminal in this transaction: later than
\* that of every row that became terminal before.
FinishStamp(rs) == 1 + Cardinality(With(rs, TERMINAL \cup {"pruned"}))

MutantTerminalKeepsCommand(r, status, result, stamp) ==
  [r EXCEPT !.status = status, !.result = result, !.finished = stamp,
            !.token = 0, !.lease = 0, !.age = 0]

\* _terminal: the outcome is stored and the private command and lease erased.
\* created_epoch is read only while a row is active, so its age is forgotten.
Terminal(r, status, result, stamp) ==
  [r EXCEPT !.status = status, !.result = result, !.finished = stamp,
            !.payload = FALSE, !.token = 0, !.lease = 0, !.age = 0]

Requeued(r) == [r EXCEPT !.status = "queued", !.token = 0, !.lease = 0]

MutantOlderThan(rs, j) ==
  {k \in With(rs, TERMINAL) : \/ rs[k].finished < rs[j].finished
                              \/ rs[k].finished = rs[j].finished /\ k < j}

\* _prune: ORDER BY finished_at DESC, seq DESC.
NewerThan(rs, j) ==
  {k \in With(rs, TERMINAL) : \/ rs[k].finished > rs[j].finished
                              \/ rs[k].finished = rs[j].finished /\ k > j}

Prune(rs) ==
  [j \in Jobs |->
     IF rs[j].status \in TERMINAL /\ Cardinality(NewerThan(rs, j)) >= HistoryLimit
     THEN Empty("pruned") ELSE rs[j]]

MutantLapsedLeaseOnly(r) == r.status = "running" /\ r.lease = 0
MutantLapsedCommandOnly(r) == r.status = "queued" /\ r.age = CommandTTL

Lapsed(r) == \/ r.status = "running" /\ r.lease = 0
             \/ r.status = "queued" /\ r.age = CommandTTL

MutantRecoveredOnceMore(r, stamp) ==
  IF ~Lapsed(r) THEN r
  ELSE IF r.cancel THEN Terminal(r, "cancelled", 0, stamp)
  ELSE IF r.attempts > MaxAttempts \/ r.age = CommandTTL
       THEN Terminal(r, "failed", 0, stamp)
  ELSE Requeued(r)

\* One row of _maintain's recovery of lapsed leases and expired commands.
Recovered(r, stamp) ==
  IF ~Lapsed(r) THEN r
  ELSE IF r.cancel THEN Terminal(r, "cancelled", 0, stamp)
  ELSE IF r.attempts >= MaxAttempts \/ r.age = CommandTTL
       THEN Terminal(r, "failed", 0, stamp)
  ELSE Requeued(r)

Maintain(rs) == Prune([j \in Jobs |-> Recovered(rs[j], FinishStamp(rs))])

\* The row a finish or a relinquish leaves, once the fence let it through.
Finished(r, verdict, attempt, stamp) ==
  IF r.cancel THEN Terminal(r, "cancelled", 0, stamp)
  ELSE IF verdict = "retry" /\ r.attempts < MaxAttempts
       THEN [Requeued(r) EXCEPT !.backoff = Backoff]
  ELSE IF verdict = "succeeded" THEN Terminal(r, "succeeded", attempt, stamp)
  ELSE IF verdict \in {"cancelled", "revoked"} THEN Terminal(r, "cancelled", 0, stamp)
  ELSE Terminal(r, "failed", 0, stamp)

MutantRelinquishedIgnoringCancel(r, stamp) ==
  IF r.attempts >= MaxAttempts THEN Terminal(r, "failed", 0, stamp) ELSE Requeued(r)

Relinquished(r, stamp) ==
  IF r.cancel THEN Terminal(r, "cancelled", 0, stamp)
  ELSE IF r.attempts >= MaxAttempts THEN Terminal(r, "failed", 0, stamp)
  ELSE Requeued(r)

MutantOwnsWithoutToken(w) ==
  exec[w].phase # "idle" /\ rows[exec[w].job].status = "running"

\* The fence: the row still carries this execution's token ...
Owns(w) == /\ exec[w].phase # "idle"
           /\ rows[exec[w].job].status = "running"
           /\ rows[exec[w].job].token = exec[w].token
\* ... under a lease that has not lapsed.
HoldsLease(w) == Owns(w) /\ rows[exec[w].job].lease > 0

-----------------------------------------------------------------------------
Init ==
  /\ rows = [j \in Jobs |-> Empty("absent")]
  /\ exec = [w \in Slots |-> Idle]
  /\ mode = [m \in Managers |-> "down"]
  /\ used = 0
  /\ left = Window

(***************************************************************************)
(* Clients.  A conflicting key or a full queue raises inside the           *)
(* transaction, which rolls back: no step.                                 *)
(***************************************************************************)
MutantKeyFreeOfActive(rs, key) ==
  \A j \in With(rs, ActiveStatus) : key # NoKey => rs[j].key # key

\* The UNIQUE idempotency_key column: no retained row has the key.
KeyFree(rs, key) ==
  \A j \in Jobs : key # NoKey /\ Retained(rs[j]) => rs[j].key # key

Submit(key, cmd) ==
  LET rs == Maintain(rows)
  IN  /\ \E m \in Managers : mode[m] = "up"
      /\ KeyFree(rs, key)
      /\ Cardinality(With(rs, ActiveStatus)) < MaxActive
      /\ \E j \in Jobs :
           /\ rs[j].status = "absent"
           /\ \A k \in 1..(j - 1) : rs[k].status # "absent"
           /\ rows' = [rs EXCEPT ![j] = NewRow(key, cmd)]
      /\ UNCHANGED <<exec, mode, used, left>>

\* The key is retained with the same command: its row is returned.
SubmitAgain(key, cmd) ==
  LET rs == Maintain(rows)
  IN  /\ \E m \in Managers : mode[m] = "up"
      /\ \E j \in Jobs : Retained(rs[j]) /\ rs[j].key = key /\ rs[j].cmd = cmd
      /\ rows' = rs
      /\ UNCHANGED <<exec, mode, used, left>>

Cancel(j) ==
  /\ \E m \in Managers : mode[m] # "down"
  /\ Retained(rows[j])
  /\ rows' = Prune(CASE rows[j].status = "queued" ->
                          [rows EXCEPT ![j] = Terminal(@, "cancelled", 0, FinishStamp(rows))]
                     [] rows[j].status = "running" -> [rows EXCEPT ![j].cancel = TRUE]
                     [] OTHER -> rows)
  /\ UNCHANGED <<exec, mode, used, left>>

(***************************************************************************)
(* _claim: one worker task looks for work.                                 *)
(***************************************************************************)
CanClaim(w) == mode[Owner[w]] = "up" /\ exec[w].phase = "idle"

PermitFree(rs) == Cardinality(With(rs, {"running"})) < Workers

MutantBudgetLeftOneMore == used <= AttemptBudget
BudgetLeft == used < AttemptBudget

\* No permit is free, or no queued job is due: maintenance is all it did.
ClaimNothing(w) ==
  LET rs == Maintain(rows)
  IN  /\ CanClaim(w)
      /\ \/ ~PermitFree(rs)
         \/ BudgetLeft /\ \A j \in With(rs, {"queued"}) : rs[j].backoff > 0
      /\ rows' = rs
      /\ UNCHANGED <<exec, mode, used, left>>

\* The window's budget is spent: queued jobs are marked and stay queued.
ClaimOverBudget(w) ==
  LET rs == Maintain(rows)
  IN  /\ CanClaim(w)
      /\ PermitFree(rs) /\ ~BudgetLeft
      /\ rows' = [j \in Jobs |-> [rs[j] EXCEPT !.waiting = @ \/ rs[j].status = "queued"]]
      /\ UNCHANGED <<exec, mode, used, left>>

MutantClaimedUncounted(r) ==
  [r EXCEPT !.status = "running", !.token = r.attempts + 1, !.lease = Lease,
            !.waiting = FALSE]

Claimed(r) ==
  [r EXCEPT !.status = "running", !.attempts = @ + 1, !.token = r.attempts + 1,
            !.lease = Lease, !.waiting = FALSE]

ClaimJob(w) ==
  LET rs == Maintain(rows)
  IN  /\ CanClaim(w)
      /\ PermitFree(rs) /\ BudgetLeft
      /\ \E j \in With(rs, {"queued"}) :
           /\ rs[j].backoff = 0
           /\ \A k \in With(rs, {"queued"}) : rs[k].backoff = 0 => j <= k
           /\ rows' = [rs EXCEPT ![j] = Claimed(@)]
           /\ exec' = [exec EXCEPT ![w] = [Idle EXCEPT !.phase = "emit", !.job = j,
                                                       !.token = rs[j].attempts + 1]]
      /\ used' = used + 1
      /\ UNCHANGED <<mode, left>>

(***************************************************************************)
(* _execute: the broadcast, the handler, the heartbeat loop, the cleanup   *)
(* that awaits the cancelled handler, and the transaction that settles.    *)
(***************************************************************************)
Start(w) ==
  /\ exec[w].phase = "emit"
  /\ exec' = [exec EXCEPT ![w].phase = "run", ![w].task = "active"]
  /\ UNCHANGED <<rows, mode, used, left>>

\* The handler returns a result, an unsuccessful result, or raises.
HandlerEnds(w) ==
  /\ exec[w].phase = "run" /\ exec[w].task = "active"
  /\ \E out \in Outcomes : exec' = [exec EXCEPT ![w].task = out]
  /\ UNCHANGED <<rows, mode, used, left>>

Renewed(w) ==
  IF HoldsLease(w) THEN [rows EXCEPT ![exec[w].job].lease = Lease] ELSE rows

MutantDecideWithoutCleanup(e, verdict) ==
  IF verdict \in {"lost", "abandon"} THEN Idle
  ELSE [e EXCEPT !.phase = "settle", !.verdict = verdict]

\* Where an execution goes once its verdict is known: a handler still running
\* is cancelled and awaited first; a lost lease and an abandoned one settle nothing.
Decide(e, verdict) ==
  IF e.task = "active" THEN [e EXCEPT !.phase = "cleanup", !.verdict = verdict]
  ELSE IF verdict \in {"lost", "abandon"} THEN Idle
  ELSE [e EXCEPT !.phase = "settle", !.verdict = verdict]

\* _heartbeat and the decision taken on its answer.  job_timeout may pass at any
\* moment of an execution, so timing out is a free choice.
Beat(w) ==
  LET r == rows[exec[w].job]
  IN  /\ exec[w].phase = "run"
      /\ rows' = Renewed(w)
      /\ \E timedOut \in BOOLEAN :
           exec' = [exec EXCEPT ![w] =
             CASE ~HoldsLease(w) -> Decide(@, "lost")
               [] HoldsLease(w) /\ r.age < CommandTTL /\ r.cancel -> Decide(@, "cancelled")
               [] HoldsLease(w) /\ (r.age = CommandTTL \/ (~r.cancel /\ timedOut))
                    -> Decide(@, "failed")
               [] OTHER -> IF @.task = "active" THEN @ ELSE Decide(@, @.task)]
      /\ UNCHANGED <<mode, used, left>>

\* The heartbeat's transaction raises (storage outage): except Exception.
BeatFails(w) ==
  /\ exec[w].phase = "run"
  /\ exec' = [exec EXCEPT ![w] = Decide(@, "error")]
  /\ UNCHANGED <<rows, mode, used, left>>

\* _cleanup renews the lease while the cancelled handler unwinds.
CleanupBeat(w) ==
  /\ exec[w].phase = "cleanup"
  /\ rows' = Renewed(w)
  /\ UNCHANGED <<exec, mode, used, left>>

Unwound(w) ==
  /\ exec[w].phase = "cleanup"
  /\ exec' = [exec EXCEPT ![w] = Decide([@ EXCEPT !.task = "none"], @.verdict)]
  /\ UNCHANGED <<rows, mode, used, left>>

\* After the settling transaction.  A task that shutdown cancelled while that
\* transaction ran continues in `except CancelledError` and relinquishes.
AfterSettle(w) ==
  IF exec[w].verdict \in InTry /\ mode[Owner[w]] = "closing"
  THEN [exec[w] EXCEPT !.verdict = "relinquish"] ELSE Idle

\* _finish: fenced by the token and an unexpired lease.
Finish(w) ==
  LET j == exec[w].job
  IN  /\ exec[w].phase = "settle" /\ exec[w].verdict # "relinquish"
      /\ rows' = IF HoldsLease(w)
                 THEN Prune([rows EXCEPT ![j] =
                        Finished(@, exec[w].verdict, exec[w].token, FinishStamp(rows))])
                 ELSE rows
      /\ exec' = [exec EXCEPT ![w] = AfterSettle(w)]
      /\ UNCHANGED <<mode, used, left>>

\* _relinquish: an expired token may still give its permit back.
Relinquish(w) ==
  LET j == exec[w].job
  IN  /\ exec[w].phase = "settle" /\ exec[w].verdict = "relinquish"
      /\ rows' = IF Owns(w)
                 THEN Prune([rows EXCEPT ![j] = Relinquished(@, FinishStamp(rows))])
                 ELSE rows
      /\ exec' = [exec EXCEPT ![w] = Idle]
      /\ UNCHANGED <<mode, used, left>>

\* The settling transaction raises, or the result is too large to store: a
\* verdict of the try body is retried as an internal error, any other is dropped
\* and leaves the row to its lease.
SettleFails(w) ==
  /\ exec[w].phase = "settle"
  /\ exec' = [exec EXCEPT ![w] =
       IF @.verdict \notin InTry THEN Idle
       ELSE IF mode[Owner[w]] = "closing" THEN AfterSettle(w)
       ELSE [@ EXCEPT !.verdict = "error"]]
  /\ UNCHANGED <<rows, mode, used, left>>

(***************************************************************************)
(* The life of a manager.                                                  *)
(***************************************************************************)

\* Where CancelledError finds each task.  A claim whose broadcast was pending is
\* outside the try: its row stays running until the lease lapses.
Interrupted(e) ==
  CASE e.phase \in {"idle", "emit"} -> Idle
    [] e.phase = "run" -> Decide(e, "relinquish")
    [] e.phase = "cleanup" ->
         [e EXCEPT !.verdict = IF @ = "error" THEN "abandon" ELSE "relinquish"]
    [] OTHER -> e

Shutdown(m) ==
  /\ mode[m] = "up"
  /\ mode' = [mode EXCEPT ![m] = "closing"]
  /\ exec' = [w \in Slots |-> IF Owner[w] = m THEN Interrupted(exec[w]) ELSE exec[w]]
  /\ UNCHANGED <<rows, used, left>>

Exit(m) ==
  /\ mode[m] = "closing"
  /\ \A w \in Slots : Owner[w] = m => exec[w].phase = "idle"
  /\ mode' = [mode EXCEPT ![m] = "down"]
  /\ UNCHANGED <<rows, exec, used, left>>

\* The process dies: its handlers with it, its rows stay.
Crash(m) ==
  /\ mode[m] # "down"
  /\ mode' = [mode EXCEPT ![m] = "down"]
  /\ exec' = [w \in Slots |-> IF Owner[w] = m THEN Idle ELSE exec[w]]
  /\ UNCHANGED <<rows, used, left>>

\* initialize (which maintains) and start of a new instance with the same policy.
Restart(m) ==
  /\ mode[m] = "down"
  /\ mode' = [mode EXCEPT ![m] = "up"]
  /\ rows' = Maintain(rows)
  /\ UNCHANGED <<exec, used, left>>

Down(n) == IF n = 0 THEN 0 ELSE n - 1

Aged(r) ==
  [r EXCEPT !.lease = Down(@), !.backoff = Down(@),
            !.age = IF r.status \in ActiveStatus /\ @ < CommandTTL THEN @ + 1 ELSE @]

Tick ==
  /\ Timely => \A w \in Slots : HoldsLease(w) => rows[exec[w].job].lease > 1
  /\ rows' = [j \in Jobs |-> Aged(rows[j])]
  /\ left' = IF left = 1 THEN Window ELSE left - 1
  /\ used' = IF left = 1 THEN 0 ELSE used
  /\ UNCHANGED <<exec, mode>>

Poll(w) == ClaimNothing(w) \/ ClaimOverBudget(w) \/ ClaimJob(w)

Worker(w) ==
  \/ Poll(w) \/ Start(w) \/ HandlerEnds(w) \/ Beat(w) \/ BeatFails(w)
  \/ CleanupBeat(w) \/ Unwound(w) \/ Finish(w) \/ Relinquish(w) \/ SettleFails(w)

Next ==
  \/ \E key \in Keys \cup {NoKey}, cmd \in Commands : Submit(key, cmd)
  \/ \E key \in Keys, cmd \in Commands : SubmitAgain(key, cmd)
  \/ \E j \in Jobs : Cancel(j)
  \/ \E w \in Slots : Worker(w)
  \/ \E m \in Managers : Shutdown(m) \/ Exit(m) \/ Crash(m) \/ Restart(m)
  \/ Tick

Spec == Init /\ [][Next]_vars

(***************************************************************************)
(* Fairness: the event loop keeps scheduling the worker tasks of a live    *)
(* manager, a cancelled handler unwinds, the supervisor restarts a dead    *)
(* process and time passes.  Nothing obliges a handler to end by itself, a *)
(* client to submit or cancel, or storage to fail.                         *)
(***************************************************************************)
Fairness ==
  /\ WF_vars(Tick)
  /\ \A w \in Slots : /\ WF_vars(Poll(w)) /\ WF_vars(Start(w)) /\ WF_vars(Beat(w))
                      /\ WF_vars(Unwound(w)) /\ WF_vars(Finish(w) \/ Relinquish(w))
  /\ \A m \in Managers : WF_vars(Restart(m)) /\ WF_vars(Exit(m))

FairSpec == Spec /\ Fairness

-----------------------------------------------------------------------------
(***************************************************************************)
(* Correctness.                                                            *)
(***************************************************************************)

\* Every variable stays in its type; claims charged never exceed the budget.
TypeOK ==
  /\ rows \in [Jobs -> Row]
  /\ exec \in [Slots -> Exec]
  /\ mode \in [Managers -> {"up", "closing", "down"}]
  /\ used \in 0..AttemptBudget
  /\ left \in 1..Window

\* A cancellation accepted for a running job is never lost: whichever of
\* the heartbeat, the finish, the relinquish or a lease recovery comes first,
\* the job ends cancelled and never runs again (cancel, _finish, _maintain).
CancelWins ==
  \A j \in Jobs : rows[j].cancel => rows[j].status \in {"running", "cancelled"}

\* No sequence of retries, crashes, lapsed leases and shutdowns starts a job
\* more than MaxAttempts times, although _claim never looks at the attempts:
\* every way back to the queue leaves an attempt unused.
AttemptsBounded ==
  \A j \in Jobs : /\ rows[j].attempts <= MaxAttempts
                  /\ rows[j].status = "queued" => rows[j].attempts < MaxAttempts

\* The caps the table enforces hold in every state, requeued jobs included:
\* the active jobs, and the running permits of all the managers.
ActiveBounded == Cardinality(With(rows, ActiveStatus)) <= MaxActive
PermitsBounded == Cardinality(With(rows, {"running"})) <= Workers

\* A stored result is that of the job's last attempt: an execution that lost
\* its lease and was replaced cannot store its own (the token in _finish).
ResultOfLastAttempt ==
  \A j \in Jobs : rows[j].result # 0 => /\ rows[j].status = "succeeded"
                                        /\ rows[j].result = rows[j].attempts

\* The private command is kept exactly while it may still have to be executed.
PayloadWhileActive ==
  \A j \in Jobs : rows[j].payload <=> rows[j].status \in ActiveStatus

\* One idempotency key identifies at most one retained job.
KeyIdentifiesJob ==
  \A i, j \in Jobs : (/\ i # j /\ Retained(rows[i]) /\ Retained(rows[j])
                      /\ rows[i].key # NoKey) => rows[i].key # rows[j].key

\* _prune keeps the history within its limit and forgets oldest first: a deleted
\* record is older than every terminal record kept, and one deleted in the
\* transaction that settles it leaves only records settled in that transaction too.
PruneOldestFirst ==
  [][/\ Cardinality(With(rows', TERMINAL)) <= HistoryLimit
     /\ \A i, j \in Jobs :
          (Retained(rows[i]) /\ rows'[i].status = "pruned" /\ rows'[j].status \in TERMINAL)
          => IF rows[i].status \in TERMINAL THEN rows[i].finished <= rows'[j].finished
             ELSE rows[j].status \notin TERMINAL]_rows

\* "a running permit stays held until cleanup ends": while a handler executes,
\* its job's row is running under that execution's token.
PermitHeldUntilCleanupEnds ==
  \A w \in Slots : exec[w].task = "active" => Owns(w)

\* Every admitted job reaches an outcome (or is already forgotten with it).
EveryJobSettles ==
  \A j \in Jobs : rows[j].status \in ActiveStatus
                    ~> rows[j].status \in TERMINAL \cup {"pruned"}

\* An accepted cancellation is carried out.
CancelTakesEffect ==
  \A j \in Jobs : rows[j].cancel ~> rows[j].status \in {"cancelled", "pruned"}

\* The queue implements the lifecycle its clients see.
L == INSTANCE JobLifecycle WITH
       phase <- [j \in Jobs |-> rows[j].status],
       starts <- [j \in Jobs |-> rows[j].attempts],
       stopping <- [j \in Jobs |-> rows[j].cancel]
ImplementsLifecycle == L!Lifecycle
=============================================================================
