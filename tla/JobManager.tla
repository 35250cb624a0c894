------------------------------ MODULE JobManager ------------------------------
(***************************************************************************)
(* The in-memory ingest queue (src/agent/jobs.py), which a process without *)
(* a state database uses instead of DurableJobs.  Everything runs on one   *)
(* asyncio loop, so what matters is the order of the loop's ready queue    *)
(* and what a cancellation meets: a worker task may be parked on the       *)
(* queue, about to run, inside a broadcast, or inside wait_for, where a    *)
(* cancellation that arrives after the handler ended is swallowed.         *)
(*                                                                         *)
(* `ready` holds the steps whose order the code relies on: the events sent *)
(* by tasks of their own, the workers that were woken, and shutdown's own  *)
(* wake-up.  A broadcast, a handler and a timer end when they like.        *)
(* Progress stages, timestamps and results are left out.                   *)
(***************************************************************************)
EXTENDS Naturals, Sequences, FiniteSets

CONSTANTS
  JobWorkers,    \* worker tasks
  MaxJobs,       \* bound: submissions accepted in a run
  MaxActiveJobs, \* max_active
  JobHistory     \* history_limit

ASSUME JobManagerAssumption ==
  /\ IsFiniteSet(JobWorkers)
  /\ MaxJobs \in Nat /\ MaxActiveJobs \in Nat \ {0} /\ JobHistory \in Nat \ {0}

VARIABLES
  record,    \* the records, and whether _jobs still holds them
  finished,  \* _finished: ids of ended jobs, oldest first
  backlog,   \* _queue
  ready,     \* the loop's ready queue
  worker,    \* the worker tasks
  shutting,  \* how far shutdown() has come
  told       \* history: the last status of each job handed to the broadcast sink
jobsVars == <<record, finished, backlog, ready, worker, shutting, told>>

JobIds == 1..MaxJobs
NoJobId == 0
Ended == {"succeeded", "failed"}
Errors == {"none", "internal error", "timed out", "server shutdown"}

JobRecord == [status : {"none", "queued", "running"} \cup Ended, began : BOOLEAN,
              error : Errors, kept : BOOLEAN]
JobWorker == [at : {"fresh", "idle", "woken", "slept", "starting", "handling", "closing", "gone"},
              job : JobIds \cup {NoJobId}, out : {"none", "result", "error"},
              cancelled : BOOLEAN]
Entry == [kind : {"send", "wake", "stop"}, job : JobIds \cup {NoJobId},
          status : {"none", "queued", "failed"}, who : JobWorkers \cup {NoJobId}]

Send(j, status) == [kind |-> "send", job |-> j, status |-> status, who |-> NoJobId]
Wake(w) == [kind |-> "wake", job |-> NoJobId, status |-> "none", who |-> w]
Stop == [kind |-> "stop", job |-> NoJobId, status |-> "none", who |-> NoJobId]

Tag(at) == [at |-> at, job |-> NoJobId, out |-> "none", cancelled |-> FALSE]
Busy(at, j) == [Tag(at) EXCEPT !.job = j]

Kept == {j \in JobIds : record[j].kept}
ActiveJobs == {j \in Kept : record[j].status \in {"queued", "running"}}
Alive == {w \in JobWorkers : worker[w].at # "gone"}
Closed == shutting # "no"
Oldest(S) == CHOOSE j \in S : \A i \in S : j <= i

NoJobs ==
  /\ record = [j \in JobIds |-> [status |-> "none", began |-> FALSE,
                                 error |-> "none", kept |-> FALSE]]
  /\ finished = <<>> /\ backlog = <<>>
  /\ worker = [w \in JobWorkers |-> Tag("fresh")]
  /\ shutting = "no"
  /\ told = [j \in JobIds |-> "none"]

\* The manager as lifespan makes it: created, and its workers started, in one step.
InitJobs ==
  /\ NoJobs
  /\ ready \in {s \in [1..Cardinality(JobWorkers) -> {Wake(w) : w \in JobWorkers}] :
                  \A a, b \in DOMAIN s : a # b => s[a] # s[b]}

-----------------------------------------------------------------------------
(***************************************************************************)
(* Records and history.                                                    *)
(***************************************************************************)
MutantAborted(r) == [r EXCEPT !.status = "queued"]
\* A job whose worker is cancelled fails as a casualty of the shutdown.
Aborted(r) == [r EXCEPT !.status = "failed", !.error = "server shutdown"]

\* _finalize: a record that is done is never finalised twice.
Finalize(r, s, j, new) ==
  IF r[j].status \in Ended THEN <<r, s>>
  ELSE <<[r EXCEPT ![j] = new], Append(s, j)>>

\* _evict after `new`, a pair of records and history: the oldest ended jobs go.
Evict(new) ==
  LET r == new[1]
      s == new[2]
      extra == IF Len(s) > JobHistory THEN Len(s) - JobHistory ELSE 0
      old == {s[i] : i \in 1..extra}
  IN /\ record' = [j \in JobIds |-> IF j \in old THEN [r[j] EXCEPT !.kept = FALSE] ELSE r[j]]
     /\ finished' = SubSeq(s, extra + 1, Len(s))

\* submit: the `queued` event's task is scheduled before a worker is woken.
SubmitJob(j) ==
  /\ ~Closed /\ Cardinality(ActiveJobs) < MaxActiveJobs
  /\ record[j].status = "none" /\ \A i \in 1..(j - 1) : record[i].status # "none"
  /\ record' = [record EXCEPT ![j].status = "queued", ![j].kept = TRUE]
  /\ backlog' = Append(backlog, j)
  /\ LET parked == {w \in JobWorkers : worker[w].at = "idle"}
     IN IF parked = {}
        THEN /\ ready' = Append(ready, Send(j, "queued"))
             /\ UNCHANGED worker
        ELSE \E w \in parked :
               /\ ready' = ready \o <<Send(j, "queued"), Wake(w)>>
               /\ worker' = [worker EXCEPT ![w].at = "woken"]
  /\ UNCHANGED <<finished, shutting, told>>

\* An event's own task reaches the sink.
RunSend ==
  /\ ready # <<>> /\ Head(ready).kind = "send"
  /\ told' = [told EXCEPT ![Head(ready).job] = Head(ready).status]
  /\ ready' = Tail(ready)
  /\ UNCHANGED <<record, finished, backlog, worker, shutting>>

-----------------------------------------------------------------------------
(***************************************************************************)
(* _worker and _run_job.  `rest` is the ready queue without the entry that *)
(* is running.                                                             *)
(***************************************************************************)

\* A worker task ends; the last one to end wakes shutdown.
End(w, rest) ==
  /\ worker' = [worker EXCEPT ![w] = Tag("gone")]
  /\ ready' = IF Alive = {w} /\ ~\E i \in DOMAIN rest : rest[i].kind = "stop"
              THEN Append(rest, Stop) ELSE rest

MutantAfterGet(w, rest) ==
  /\ worker' = [worker EXCEPT ![w] = Busy("slept", Head(backlog))]
  /\ ready' = <<Wake(w)>> \o rest
\* The worker has a job id and yields once, behind everything already scheduled.
AfterGet(w, rest) ==
  /\ worker' = [worker EXCEPT ![w] = Busy("slept", Head(backlog))]
  /\ ready' = Append(rest, Wake(w))

\* The top of the loop: a worker whose cancellation was swallowed ends here.
LoopTop(w, rest) ==
  IF Closed
  THEN End(w, rest) /\ UNCHANGED backlog
  ELSE IF backlog = <<>>
  THEN /\ worker' = [worker EXCEPT ![w] = Tag("idle")]
       /\ ready' = rest
       /\ UNCHANGED backlog
  ELSE AfterGet(w, rest) /\ backlog' = Tail(backlog)

\* A woken worker runs.  A cancellation that found it here ends it, outside the
\* try block: its job, if it has one, stays queued.
RunWake ==
  /\ ready # <<>> /\ Head(ready).kind = "wake"
  /\ LET w == Head(ready).who
         j == worker[w].job
         rest == Tail(ready)
     IN IF worker[w].cancelled
        THEN End(w, rest) /\ UNCHANGED <<record, backlog, told>>
        ELSE IF worker[w].at = "slept" /\ record[j].kept /\ record[j].status = "queued"
        THEN /\ record' = [record EXCEPT ![j].status = "running", ![j].began = TRUE]
             /\ told' = [told EXCEPT ![j] = "running"]
             /\ worker' = [worker EXCEPT ![w] = Busy("starting", j)]
             /\ ready' = rest
             /\ UNCHANGED backlog
        ELSE LoopTop(w, rest) /\ UNCHANGED <<record, told>>
  /\ UNCHANGED <<finished, shutting>>

\* A broadcast a worker was waiting for has ended.
StartHandler(w) ==
  /\ worker[w].at = "starting" /\ ~worker[w].cancelled
  /\ worker' = [worker EXCEPT ![w].at = "handling"]
  /\ UNCHANGED <<record, finished, backlog, ready, shutting, told>>

CloseJob(w) ==
  /\ worker[w].at = "closing" /\ ~worker[w].cancelled
  /\ Evict(<<record, finished>>)
  /\ LoopTop(w, ready)
  /\ UNCHANGED <<shutting, told>>

\* The handler's task ends; its worker notices in a later step.
HandlerDone(w, out) ==
  /\ worker[w].at = "handling" /\ worker[w].out = "none"
  /\ worker' = [worker EXCEPT ![w].out = out]
  /\ UNCHANGED <<record, finished, backlog, ready, shutting, told>>

Settled(w, status, error) ==
  LET j == worker[w].job
      new == Finalize(record, finished, j,
                      [record[j] EXCEPT !.status = status, !.error = error])
  IN /\ record' = new[1] /\ finished' = new[2]
     /\ told' = [told EXCEPT ![j] = status]
     /\ worker' = [worker EXCEPT ![w] = Busy("closing", j)]
     /\ UNCHANGED <<backlog, ready, shutting>>

\* wait_for returns what the handler returned or raised, even to a worker that
\* has been cancelled in between: that cancellation is lost.
Resume(w) ==
  /\ worker[w].at = "handling" /\ worker[w].out # "none"
  /\ IF worker[w].out = "result" THEN Settled(w, "succeeded", "none")
     ELSE Settled(w, "failed", "internal error")

TimedOut(w) ==
  /\ worker[w].at = "handling" /\ worker[w].out = "none" /\ ~worker[w].cancelled
  /\ Settled(w, "failed", "timed out")

\* A cancellation reaches a worker that awaits a broadcast (which neither starts
\* the handler nor evicts) or a handler that has not ended.
CancelLands(w) ==
  /\ worker[w].cancelled
  /\ \/ /\ worker[w].at \in {"starting", "closing"}
        /\ End(w, ready)
        /\ UNCHANGED <<record, finished>>
     \/ /\ worker[w].at = "handling" /\ worker[w].out = "none"
        /\ LET j == worker[w].job
           IN /\ Evict(Finalize(record, finished, j, Aborted(record[j])))
              /\ End(w, Append(ready, Send(j, "failed")))
  /\ UNCHANGED <<backlog, shutting, told>>

-----------------------------------------------------------------------------
(***************************************************************************)
(* shutdown.                                                               *)
(***************************************************************************)
MutantCancelTasks(ws) == [w \in JobWorkers |->
  IF w \in ws /\ worker[w].job # NoJobId THEN [worker[w] EXCEPT !.cancelled = TRUE] ELSE worker[w]]
\* task.cancel() on each: a parked worker is woken to learn of it.
CancelTasks(ws) == [w \in JobWorkers |->
  IF w \notin ws THEN worker[w]
  ELSE [worker[w] EXCEPT !.cancelled = TRUE,
                         !.at = IF worker[w].at = "idle" THEN "woken" ELSE worker[w].at]]

Cancel(ws) ==
  LET new == CancelTasks(ws)
      parked == {w \in JobWorkers : worker[w].at = "idle" /\ new[w].at = "woken"}
  IN /\ worker' = new
     /\ \E order \in [1..Cardinality(parked) -> parked] :
          /\ parked = {order[i] : i \in DOMAIN order}
          /\ ready' = (IF shutting = "no" THEN ready ELSE Tail(ready))
                        \o [i \in DOMAIN order |-> Wake(order[i])]

ShutDownJobs ==
  /\ ~Closed
  /\ Cancel(JobWorkers)
  /\ shutting' = "waiting"
  /\ UNCHANGED <<record, finished, backlog, told>>

\* asyncio.wait gives up after five seconds.
WaitExpires ==
  /\ shutting = "waiting" /\ Alive # {}
  /\ ~\E i \in DOMAIN ready : ready[i].kind = "stop"
  /\ ready' = Append(ready, Stop)
  /\ UNCHANGED <<record, finished, backlog, worker, shutting, told>>

\* Shutdown wakes: workers still pending are cancelled again and waited for;
\* without any, the backlog is drained.
RunStop ==
  /\ ready # <<>> /\ Head(ready).kind = "stop"
  /\ IF Alive = {}
     THEN /\ backlog' = <<>> /\ shutting' = "failing"
          /\ ready' = Tail(ready)
          /\ UNCHANGED worker
     ELSE /\ Cancel(Alive)
          /\ shutting' = "gathering"
          /\ UNCHANGED backlog
  /\ UNCHANGED <<record, finished, told>>

MutantCasualties == {j \in Kept : record[j].status = "queued"}
\* Whatever is not terminal, queued or left running by a worker that was
\* cancelled inside a broadcast.
Casualties == ActiveJobs

FailNext ==
  /\ shutting = "failing"
  /\ IF Casualties # {}
     THEN LET j == Oldest(Casualties)
              new == Finalize(record, finished, j, Aborted(record[j]))
          IN /\ record' = new[1] /\ finished' = new[2]
             /\ told' = [told EXCEPT ![j] = "failed"]
             /\ UNCHANGED shutting
     ELSE /\ Evict(<<record, finished>>)
          /\ shutting' = "flushing"
          /\ UNCHANGED told
  /\ UNCHANGED <<backlog, ready, worker>>

\* The events still scheduled are awaited.
Flushed ==
  /\ shutting = "flushing" /\ ready = <<>>
  /\ shutting' = "done"
  /\ UNCHANGED <<record, finished, backlog, ready, worker, told>>

NextJobs ==
  \/ \E j \in JobIds : SubmitJob(j)
  \/ RunSend \/ RunWake \/ RunStop
  \/ \E w \in JobWorkers : StartHandler(w)
  \/ \E w \in JobWorkers : CloseJob(w)
  \/ \E w \in JobWorkers, out \in {"result", "error"} : HandlerDone(w, out)
  \/ \E w \in JobWorkers : Resume(w)
  \/ \E w \in JobWorkers : TimedOut(w)
  \/ \E w \in JobWorkers : CancelLands(w)
  \/ ShutDownJobs \/ WaitExpires \/ FailNext \/ Flushed

JobsSpec == InitJobs /\ [][NextJobs]_jobsVars

\* The loop runs what is ready, broadcasts end (each send has a time limit), a
\* cancelled handler ends, and timers fire.  A handler need not end by itself.
LoopRuns ==
  /\ WF_jobsVars(RunSend) /\ WF_jobsVars(RunWake) /\ WF_jobsVars(RunStop)
  /\ WF_jobsVars(WaitExpires) /\ WF_jobsVars(FailNext) /\ WF_jobsVars(Flushed)
  /\ \A w \in JobWorkers :
       /\ WF_jobsVars(StartHandler(w)) /\ WF_jobsVars(CloseJob(w))
       /\ WF_jobsVars(Resume(w)) /\ WF_jobsVars(TimedOut(w))
       /\ WF_jobsVars(CancelLands(w))

-----------------------------------------------------------------------------
JobsTypeOK ==
  /\ record \in [JobIds -> JobRecord]
  /\ finished \in Seq(JobIds) /\ backlog \in Seq(JobIds) /\ ready \in Seq(Entry)
  /\ worker \in [JobWorkers -> JobWorker]
  /\ shutting \in {"no", "waiting", "gathering", "failing", "flushing", "done"}
  /\ told \in [JobIds -> {"none", "queued", "running"} \cup Ended]

Rank(status) ==
  CASE status = "none" -> 0 [] status = "queued" -> 1 [] status = "running" -> 2
    [] OTHER -> 3

\* Clients see a job's statuses in order, although `queued` is sent by a task of
\* its own, `running` by a worker and the failure of a cancelled worker by a task
\* again: submit schedules first, and a worker yields once after get().
EventsInOrder == [][\A j \in JobIds : Rank(told[j]) <= Rank(told'[j])]_told

\* When shutdown() has returned no worker task is left, however the cancellation
\* met them; nothing is queued or running; every outcome was announced; and the
\* history is within its limit, also when a worker died between _finalize and
\* _evict.
NothingOutlivesShutdown ==
  shutting = "done" =>
    /\ Alive = {} /\ ActiveJobs = {} /\ backlog = <<>>
    /\ Len(finished) <= JobHistory
    /\ Kept = {finished[i] : i \in DOMAIN finished}
    /\ \A j \in JobIds : told[j] = record[j].status

\* shutdown() returns, also when a cancellation was swallowed by wait_for and
\* when it found a worker between two awaits.
ShutdownReturns == (shutting = "waiting") ~> (shutting = "done")

\* A job that was accepted reaches a terminal status, so wait() returns: no
\* failure, timeout or cancellation of one job takes the workers from the next.
AcceptedJobsEnd ==
  \A j \in JobIds : (record[j].status = "queued") ~> (record[j].status \in Ended)

JobsSettle == []JobsTypeOK /\ []NothingOutlivesShutdown /\ ShutdownReturns /\ AcceptedJobsEnd

Lifecycle == INSTANCE JobLifecycle WITH
  Jobs <- JobIds, MaxAttempts <- 1,
  phase <- [j \in JobIds |-> CASE record[j].status = "none" -> "absent"
                               [] record[j].kept -> record[j].status
                               [] OTHER -> "pruned"],
  starts <- [j \in JobIds |-> IF record[j].kept /\ record[j].began THEN 1 ELSE 0],
  stopping <- [j \in JobIds |-> FALSE]

\* The lifecycle the durable queue promises, with a single attempt: the job runs
\* at most once, is never put back, and its outcome never changes.
MemoryQueueImplementsLifecycle == Lifecycle!Lifecycle
=============================================================================
