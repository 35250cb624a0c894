----------------------------- MODULE JobLifecycle -----------------------------
(***************************************************************************)
(* What a client of the durable queue may rely on, job by job: the states  *)
(* a polled record can show and the moves between them.  The queue's       *)
(* transactions maintain many rows at once and may take a row through      *)
(* several of its moves (a lapsed lease is reclaimed, a settled row is     *)
(* deleted), so one step moves every job by `Move` or leaves it alone.     *)
(***************************************************************************)
EXTENDS Naturals

CONSTANTS Jobs, MaxAttempts

VARIABLES
  phase,    \* what the job's record shows
  starts,   \* how often its handler was started
  stopping  \* a cancellation was accepted while it was running
jobVars == <<phase, starts, stopping>>

Settled == {"succeeded", "failed", "cancelled"}

LifecycleInit ==
  /\ phase = [j \in Jobs |-> "absent"]
  /\ starts = [j \in Jobs |-> 0]
  /\ stopping = [j \in Jobs |-> FALSE]

Admit(j) ==
  /\ phase[j] = "absent"
  /\ phase'[j] = "queued" /\ starts'[j] = 0 /\ ~stopping'[j]

\* A queued or a reclaimed job starts again, within its attempts.
Begin(j) ==
  /\ phase[j] \in {"queued", "running"} /\ ~stopping[j]
  /\ starts[j] < MaxAttempts
  /\ phase'[j] = "running" /\ starts'[j] = starts[j] + 1 /\ ~stopping'[j]

\* A running job goes back to the queue only with an attempt left, and never
\* once its cancellation was accepted.
Requeue(j) ==
  /\ phase[j] = "running" /\ ~stopping[j]
  /\ starts[j] < MaxAttempts
  /\ phase'[j] = "queued" /\ starts'[j] = starts[j] /\ ~stopping'[j]

AcceptCancel(j) ==
  /\ phase[j] = "running"
  /\ phase'[j] = "running" /\ starts'[j] = starts[j] /\ stopping'[j]

\* The outcome is final; a job being cancelled has no other outcome, and only a
\* running job succeeds.
Settle(j) ==
  /\ phase[j] \in {"queued", "running"}
  /\ phase'[j] \in Settled
  /\ stopping[j] => phase'[j] = "cancelled"
  /\ phase'[j] = "succeeded" => phase[j] = "running"
  /\ starts'[j] = starts[j] /\ stopping'[j] = stopping[j]

\* History is bounded: a settled record may be forgotten, even as it settles.
Forget(j) ==
  /\ phase[j] \in {"queued", "running"} \cup Settled
  /\ phase'[j] = "pruned" /\ starts'[j] = 0 /\ ~stopping'[j]

Unmoved(j) ==
  phase'[j] = phase[j] /\ starts'[j] = starts[j] /\ stopping'[j] = stopping[j]

Move(j) == \/ Admit(j) \/ Begin(j) \/ Requeue(j) \/ AcceptCancel(j)
           \/ Settle(j) \/ Forget(j) \/ Unmoved(j)

LifecycleNext == \A j \in Jobs : Move(j)

Lifecycle == LifecycleInit /\ [][LifecycleNext]_jobVars
=============================================================================
