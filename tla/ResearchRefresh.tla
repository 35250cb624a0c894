--------------------------- MODULE ResearchRefresh ---------------------------
(***************************************************************************)
(* One URL refresh schedule of ResearchJobs (src/agent/research_jobs.py),  *)
(* shared by several processes through the research_jobs document in       *)
(* SQLite.  Each process has a scheduler loop and an API that runs or      *)
(* deletes the schedule on demand; an asyncio lock makes a process do one  *)
(* of these at a time, and nothing but the document's lease keeps two      *)
(* processes apart.  A run of the schedule is a dozen awaits long: claim,  *)
(* authorise, look at the last job, read the source's version, submit a    *)
(* job under the run's idempotency key, record it.                         *)
(*                                                                         *)
(* _state(write=True) is one SQLite transaction and one atomic step.  Time *)
(* is relative, as in DurableJobs.  The uuid of a run is a key no job and  *)
(* no process holds; the lease owner's uuid is the process, which has one  *)
(* run at a time.  The queue is what it promises its clients: a key names  *)
(* one job, a job that is queued or running ends some day.                 *)
(***************************************************************************)
EXTENDS Naturals, FiniteSets

CONSTANTS
  Procs,      \* processes sharing the schedule
  Jobs,       \* job records the queue may retain for this schedule
  Keys,       \* uuids of runs
  NoKey,      \* no run is pending
  NoJob,      \* no job
  NoOwner,    \* nobody has claimed yet
  Interval,   \* ticks between runs
  Lease,      \* ticks a claim is protected
  MaxFaults,  \* bound: runs that are refused or abandoned
  Timely      \* TRUE: a claim is finished or given up before its lease lapses

ASSUME ScheduleAssumption ==
  /\ NoKey \notin Keys /\ NoJob \notin Jobs /\ NoOwner \notin Procs
  /\ Lease \in Nat \ {0}
  /\ Interval \in Nat /\ Interval > Lease
  /\ MaxFaults \in Nat
  /\ Timely \in BOOLEAN

VARIABLES
  row,     \* the schedule's document
  at,      \* what each process is doing with it
  job,     \* the jobs submitted for it
  viewer,  \* a list_refreshes call between reading the document and updating it
  faults,  \* runs refused or abandoned so far
  lost     \* history: a process stopped between a submission or deletion and its sequel
vars == <<row, at, job, viewer, faults, lost>>

Row == [life : {"none", "on", "gone"}, due : 0..Interval, lease : 0..Lease,
        pending : Keys \cup {NoKey}, owner : Procs \cup {NoOwner},
        last : Jobs \cup {NoJob}, captured : BOOLEAN, late : BOOLEAN,
        shown : Jobs \cup {NoJob}]

Task == [phase : {"idle", "claimed", "overlap", "clear", "read", "ready", "full",
                  "submitted", "cancelling"},
         pending : Keys \cup {NoKey}, last : Jobs \cup {NoJob}, captured : BOOLEAN,
         late : BOOLEAN, ago : 0..Interval]

Job == [key : Keys \cup {NoKey}, status : {"none", "active", "ended"}, cancel : BOOLEAN]

Idle == [phase |-> "idle", pending |-> NoKey, last |-> NoJob, captured |-> FALSE,
         late |-> FALSE, ago |-> 0]
NoRow(life) ==
  [life |-> life, due |-> 0, lease |-> 0, pending |-> NoKey, owner |-> NoOwner,
   last |-> NoJob, captured |-> FALSE, late |-> FALSE, shown |-> NoJob]
Free == [key |-> NoKey, status |-> "none", cancel |-> FALSE]

Active(j) == j # NoJob /\ job[j].status = "active"

\* Definitions named Mutant... are not part of the model: each is the plausible
\* slip in the definition after it that one of the properties is shown to catch.

Init ==
  /\ row = NoRow("none")
  /\ at = [p \in Procs |-> Idle]
  /\ job = [j \in Jobs |-> Free]
  /\ viewer = NoJob
  /\ faults = 0
  /\ lost = FALSE

\* create_refresh.
Create ==
  /\ row.life = "none"
  /\ row' = [NoRow("on") EXCEPT !.due = Interval]
  /\ UNCHANGED <<at, job, viewer, faults, lost>>

-----------------------------------------------------------------------------
(***************************************************************************)
(* _run_refresh.                                                           *)
(***************************************************************************)

\* A uuid nobody has drawn before: on no job, in no document, in no process.
FreshKeys ==
  {k \in Keys : /\ k # row.pending
                /\ \A j \in Jobs : job[j].key # k
                /\ \A p \in Procs : at[p].pending # k}

MutantMayClaimUnlessPending(force) ==
  row.life = "on" /\ row.lease = 0 /\ row.pending = NoKey /\ (force \/ row.due = 0)
\* A claim needs a schedule, a lapsed lease and, unless it is forced, the due time.
MayClaim(force) == row.life = "on" /\ row.lease = 0 /\ (force \/ row.due = 0)

MutantRunKeyAlwaysNew == FreshKeys
\* The pending run keeps its key; a new run draws one.
RunKey == IF row.pending = NoKey THEN FreshKeys ELSE {row.pending}

Claim(p, force) ==
  /\ at[p].phase = "idle" /\ MayClaim(force)
  /\ \E k \in RunKey :
       /\ row' = [row EXCEPT !.pending = k, !.lease = Lease, !.owner = p]
       /\ at' = [at EXCEPT ![p] = [Idle EXCEPT !.phase = "claimed", !.pending = k,
                                               !.last = row.last,
                                               !.captured = row.captured,
                                               !.late = row.late]]
  /\ UNCHANGED <<job, viewer, faults, lost>>

\* The author lost the right to write: the schedule is removed, its job cancelled.
Unauthorized(p) ==
  /\ at[p].phase = "claimed"
  /\ IF row.life = "on"
     THEN /\ row' = NoRow("gone")
          /\ at' = [at EXCEPT ![p] = [Idle EXCEPT !.phase = "cancelling", !.last = at[p].last]]
     ELSE /\ UNCHANGED row
          /\ at' = [at EXCEPT ![p] = Idle]
  /\ UNCHANGED <<job, viewer, faults, lost>>

\* Whether the last job, as the claim saw it, is still queued or running.
LookAtLastJob(p) ==
  /\ at[p].phase = "claimed"
  /\ at' = [at EXCEPT ![p].phase = IF Active(at[p].last) THEN "overlap" ELSE "clear"]
  /\ UNCHANGED <<row, job, viewer, faults, lost>>

Dropped(r) == [r EXCEPT !.pending = NoKey, !.lease = 0]

\* The run is dropped.  This update names no expected owner.
DropRun(p) ==
  /\ at[p].phase = "overlap"
  /\ row' = IF row.life = "on" THEN Dropped(row) ELSE row
  /\ at' = [at EXCEPT ![p] = Idle]
  /\ UNCHANGED <<job, viewer, faults, lost>>

Owns(p) == row.life = "on" /\ row.owner = p

\* `late` stands for the version read: it is TRUE if a job of this very run had
\* ended by then, so that the run would be compared with its own publication.
ReadVersion(p) ==
  LET tooLate == \E j \in Jobs : job[j].key = at[p].pending /\ job[j].status = "ended"
  IN  /\ at[p].phase = "clear"
      /\ at' = [at EXCEPT ![p] = IF @.captured THEN [@ EXCEPT !.phase = "ready"]
                                 ELSE [@ EXCEPT !.phase = "read", !.late = tooLate]]
      /\ UNCHANGED <<row, job, viewer, faults, lost>>

MutantCaptureForgotten(r, p) == [r EXCEPT !.late = at[p].late]
Captured(r, p) == [r EXCEPT !.captured = TRUE, !.late = at[p].late]

\* The version is stored once per run; somebody else's claim is left alone.
CaptureVersion(p) ==
  /\ at[p].phase = "read"
  /\ row' = IF Owns(p) THEN Captured(row, p) ELSE row
  /\ at' = [at EXCEPT ![p].phase = "ready"]
  /\ UNCHANGED <<job, viewer, faults, lost>>

\* submit_command under "refresh_" + pending: a retained job with that key is
\* returned, otherwise one is queued.
Submit(p) ==
  /\ at[p].phase = "ready"
  /\ \E j \in Jobs :
       /\ IF \E i \in Jobs : job[i].key = at[p].pending
          THEN job[j].key = at[p].pending /\ UNCHANGED job
          ELSE /\ job[j] = Free
               /\ job' = [job EXCEPT ![j] = [key |-> at[p].pending, status |-> "active",
                                             cancel |-> FALSE]]
       /\ at' = [at EXCEPT ![p].phase = "submitted", ![p].last = j]
  /\ UNCHANGED <<row, viewer, faults, lost>>

\* JobQueueFull: other jobs fill the queue.
Refused(p) ==
  /\ at[p].phase = "ready"
  /\ \A j \in Jobs : job[j].key # at[p].pending
  /\ faults < MaxFaults /\ faults' = faults + 1
  /\ at' = [at EXCEPT ![p].phase = "full"]
  /\ UNCHANGED <<row, job, viewer, lost>>

\* The lease is given back and the run stays pending.
GiveBack(p) ==
  /\ at[p].phase = "full"
  /\ row' = IF Owns(p) THEN [row EXCEPT !.lease = 0] ELSE row
  /\ at' = [at EXCEPT ![p] = Idle]
  /\ UNCHANGED <<job, viewer, faults, lost>>

MutantAfterRecord(p) == Idle
\* A schedule deleted meanwhile has its new job cancelled.
AfterRecord(p) ==
  IF row.life = "on" THEN Idle ELSE [Idle EXCEPT !.phase = "cancelling", !.last = at[p].last]

\* The run is over: its key, lease and captured flag are cleared.
Recorded(r, p) ==
  [r EXCEPT !.pending = NoKey, !.lease = 0, !.due = Interval - at[p].ago,
            !.last = at[p].last, !.captured = FALSE, !.late = at[p].late, !.shown = NoJob]

\* The submission is recorded, unless another process has claimed since.
Record(p) ==
  /\ at[p].phase = "submitted"
  /\ row' = IF Owns(p) THEN Recorded(row, p) ELSE row
  /\ at' = [at EXCEPT ![p] = AfterRecord(p)]
  /\ UNCHANGED <<job, viewer, faults, lost>>

\* A process that has claimed goes on to its next await.
Run(p) ==
  \/ LookAtLastJob(p) \/ DropRun(p) \/ ReadVersion(p) \/ CaptureVersion(p)
  \/ Submit(p) \/ GiveBack(p) \/ Record(p)

-----------------------------------------------------------------------------
\* delete_refresh: the document first, the last job after it.
Delete(p) ==
  /\ at[p].phase = "idle" /\ row.life = "on"
  /\ row' = NoRow("gone")
  /\ at' = [at EXCEPT ![p] = [Idle EXCEPT !.phase = "cancelling", !.last = row.last]]
  /\ UNCHANGED <<job, viewer, faults, lost>>

CancelJob(p) ==
  /\ at[p].phase = "cancelling"
  /\ job' = IF Active(at[p].last) THEN [job EXCEPT ![at[p].last].cancel = TRUE] ELSE job
  /\ at' = [at EXCEPT ![p] = Idle]
  /\ UNCHANGED <<row, viewer, faults, lost>>

\* An exception other than the ones handled, a shutdown or the death of the
\* process: the claim stays until its lease lapses.
Abandon(p) ==
  /\ at[p].phase # "idle"
  /\ faults < MaxFaults /\ faults' = faults + 1
  /\ at' = [at EXCEPT ![p] = Idle]
  /\ lost' = (lost \/ at[p].phase \in {"submitted", "cancelling"})
  /\ UNCHANGED <<row, job, viewer>>

JobEnds(j) ==
  /\ job[j].status = "active"
  /\ job' = [job EXCEPT ![j].status = "ended"]
  /\ UNCHANGED <<row, at, viewer, faults, lost>>

\* The queue forgets an ended job nobody refers to any more.
JobPruned(j) ==
  /\ job[j].status = "ended" /\ j \notin {row.last, row.shown, viewer}
  /\ row.pending # job[j].key
  /\ \A p \in Procs : at[p].last # j /\ at[p].pending # job[j].key
  /\ job' = [job EXCEPT ![j] = Free]
  /\ UNCHANGED <<row, at, viewer, faults, lost>>

\* list_refreshes reads the document, finds the last job succeeded ...
View ==
  /\ viewer = NoJob /\ row.last # NoJob
  /\ job[row.last].status = "ended" /\ row.shown = NoJob
  /\ viewer' = row.last
  /\ UNCHANGED <<row, at, job, faults, lost>>

MutantSnapshotAnyJob(r, j) == [r EXCEPT !.shown = j]
Snapshot(r, j) == IF r.last = j THEN [r EXCEPT !.shown = j] ELSE r

\* ... and stores its outcome, if that is still the last job.
StoreSnapshot ==
  /\ viewer # NoJob
  /\ row' = IF row.life = "on" THEN Snapshot(row, viewer) ELSE row
  /\ viewer' = NoJob
  /\ UNCHANGED <<at, job, faults, lost>>

Down(n) == IF n = 0 THEN 0 ELSE n - 1

Tick ==
  /\ Timely => \A p \in Procs : at[p].phase \notin {"idle", "cancelling"} /\ Owns(p)
                                  => row.lease > 1
  /\ row' = [row EXCEPT !.due = Down(@), !.lease = Down(@)]
  /\ at' = [p \in Procs |->
              IF at[p].phase \in {"idle", "cancelling"} \/ at[p].ago = Interval
              THEN at[p] ELSE [at[p] EXCEPT !.ago = @ + 1]]
  /\ UNCHANGED <<job, viewer, faults, lost>>

Next ==
  \/ Create
  \/ \E p \in Procs :
       \/ \E force \in BOOLEAN : Claim(p, force)
       \/ Run(p) \/ Refused(p) \/ Unauthorized(p)
       \/ Delete(p) \/ CancelJob(p) \/ Abandon(p)
  \/ \E j \in Jobs : JobEnds(j) \/ JobPruned(j)
  \/ View \/ StoreSnapshot
  \/ Tick

Spec == Init /\ [][Next]_vars

(***************************************************************************)
(* Fairness: every second each scheduler claims what is due, a process     *)
(* that has claimed goes on, the queue settles its jobs, time passes.      *)
(* Failures (MaxFaults) end some day; nothing obliges a client to act.     *)
(***************************************************************************)
Fairness ==
  /\ \A p \in Procs : WF_vars(Claim(p, FALSE)) /\ WF_vars(Run(p))
  /\ \A j \in Jobs : WF_vars(JobEnds(j)) /\ WF_vars(JobPruned(j))
  /\ WF_vars(StoreSnapshot) /\ WF_vars(Tick)

FairSpec == Spec /\ Fairness

-----------------------------------------------------------------------------
(***************************************************************************)
(* Correctness.                                                            *)
(***************************************************************************)

\* Every variable stays in its type; a schedule that was removed stays empty, and
\* a captured version is that of the pending run, never left over for the next one.
TypeOK ==
  /\ row \in Row
  /\ row.captured => row.pending # NoKey
  /\ row.life # "on" => row = NoRow(row.life)
  /\ at \in [Procs -> Task]
  /\ job \in [Jobs -> Job]
  /\ viewer \in Jobs \cup {NoJob}
  /\ faults \in 0..MaxFaults
  /\ lost \in BOOLEAN

\* "persisted next_due+lease/CASclaim so duplicate workers don't duplicate job
\* submissions": the schedule never has two jobs queued or running, whoever
\* crashes after submitting and however often the API forces a run.
OneActiveJob == Cardinality({j \in Jobs : Active(j)}) <= 1

\* A run is never compared with its own publication: the version stored as the
\* previous one was read before the run's job ended, also when another process
\* completes a run that a crashed one had submitted (snapshot_captured).
PreviousVersionIsOlder == ~row.late

\* The outcome shown is that of the last job, not of one it replaced while
\* list_refreshes was between its read and its update.
OutcomeOfLastJob == row.shown \in {row.last, NoJob}

\* "DELETE disables+removes stored URL; cancels owned pending job if active":
\* once the deletion and the runs it raced with are over, no job of the schedule
\* goes on uncancelled, unless a process stopped before it could cancel.
DeletedScheduleCancels ==
  (row.life = "gone" /\ ~lost /\ \A p \in Procs : at[p].phase = "idle")
    => \A j \in Jobs : Active(j) => job[j].cancel

\* A due run happens, whichever process has claimed it, or the schedule is removed.
DueRunHappens == (row.life = "on" /\ row.due = 0) ~> (row.life = "gone" \/ row.due > 0)
=============================================================================
