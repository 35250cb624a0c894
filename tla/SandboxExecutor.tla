---------------------------- MODULE SandboxExecutor ----------------------------
(***************************************************************************)
(* Who owns a sandbox, and who owns a local interpreter                    *)
(* (src/agent/daytona_exec.py and the two batch routes).  A caller may be  *)
(* cancelled at any await, more than once: the client left, or the server  *)
(* stops.  The remote operation it was waiting for goes on in a task of    *)
(* its own, so a sandbox can come into being after its caller was told to  *)
(* stop.  A call keeps its place until what it made is deleted or reaped.  *)
(*                                                                         *)
(* A fan-out of the audit route runs at the configured concurrency; each   *)
(* size of a sweep at its own, which takes the place of the configured     *)
(* one.  The scripts, their output and the timings are left out;           *)
(* GraphMetrics models what the scripts compute.                           *)
(***************************************************************************)
EXTENDS Integers, FiniteSets

CONSTANTS
  Calls,         \* calls to the executor, those of the batches included
  FanoutLimit,   \* fanout_max_concurrency, clamped to the ceiling at construction
  FanoutCeiling, \* _MAX_FANOUT_CONCURRENCY
  LocalMax       \* _LOCAL_MAX_PROCS

ASSUME SandboxExecutorAssumption ==
  /\ IsFiniteSet(Calls)
  /\ FanoutCeiling \in Nat /\ FanoutLimit \in 1..FanoutCeiling
  /\ LocalMax \in Nat \ {0}

VARIABLES
  client,  \* is there a Daytona client in this process
  call,    \* the calls
  batch    \* the fan-out or sweep that holds _sandbox_batch_lock
sandboxVars == <<client, call, batch>>

\* run: run_code.  script: _run_graph_script.  item: a script inside a fan-out.
\* join and peek: run_in_sandbox with and without delete.  persist: a named sandbox.
Kinds == {"run", "script", "item", "join", "peek", "persist"}
OwnTask == {"acquiring", "lateAcquire", "forking", "lateFork", "reaping", "deleting"}
Local == {"forking", "lateFork", "child", "reaping"}

CallRecord == [kind : Kinds \cup {"none"},
  at : OwnTask \cup {"none", "slot", "talking", "gate", "child", "done"},
  op : {"none", "pending", "ok", "failed"},   \* the operation being waited for
  try : 0..1, failed : BOOLEAN,               \* _run_graph_script's attempts
  holds : BOOLEAN,                            \* `sandbox is not None`
  doomed : BOOLEAN,                           \* it has been told of a cancellation
  left : -1..2,                               \* sandboxes made less deletions begun
  child : BOOLEAN]                            \* a local interpreter not reaped
NoCall == [kind |-> "none", at |-> "none", op |-> "none", try |-> 0, failed |-> FALSE,
           holds |-> FALSE, doomed |-> FALSE, left |-> 0, child |-> FALSE]
Routes == {"fanout", "sweep"}
BatchRecord == [at : {"none", "reading", "running"}, route : Routes \cup {"none"},
  items : SUBSET Calls,
  limit : 0..FanoutCeiling,                   \* places in the semaphore of this fan-out
  doomed : BOOLEAN]
NoBatch == [at |-> "none", route |-> "none", items |-> {}, limit |-> 0, doomed |-> FALSE]

Slots == {c \in Calls : call[c].kind = "item" /\ call[c].at \notin {"none", "slot", "done"}}
Interpreters == {c \in Calls : call[c].at \in Local}
Unused == {c \in Calls : call[c].at = "none"}
Ongoing == {c \in batch.items : call[c].at # "done"}

InitSandboxes ==
  /\ client \in BOOLEAN
  /\ call = [c \in Calls |-> NoCall]
  /\ batch = NoBatch

-----------------------------------------------------------------------------
(***************************************************************************)
(* The steps of one call, as functions of its record.                      *)
(***************************************************************************)
Await(r, at) == [r EXCEPT !.at = at, !.op = "pending"]
Return(r) == [r EXCEPT !.at = "done", !.op = "none", !.try = 0, !.failed = FALSE]

\* Without a client everything runs locally, and a named sandbox is only a name.
Enter(r) ==
  IF client THEN Await(r, "acquiring")
  ELSE IF r.kind = "persist" THEN Return(r)
  ELSE [r EXCEPT !.at = "gate"]

Delete(r) == [Await(r, "deleting") EXCEPT !.left = @ - 1, !.holds = FALSE]
Keeps(r) == r.kind \in {"peek", "persist"}

\* The `finally` of the callers: delete what is held, then leave or try again.
Leave(r) ==
  IF r.holds /\ ~Keeps(r) THEN Delete(r)
  ELSE IF r.kind \in {"script", "item"} /\ client /\ r.failed /\ r.try = 0 /\ ~r.doomed
  THEN [Await(r, "acquiring") EXCEPT !.try = 1, !.failed = FALSE]
  ELSE Return(r)

\* The awaited create() or get() returned to a caller that still wants it.
Acquired(r) ==
  IF r.op = "ok"
  THEN IF r.kind = "persist" THEN Return(r)
       ELSE [Await(r, "talking") EXCEPT !.holds = TRUE]
  ELSE IF r.kind = "run" THEN [r EXCEPT !.at = "gate", !.op = "none"]
  ELSE Leave([r EXCEPT !.op = "none", !.failed = TRUE])

MutantLateAcquired(r) == Return(r)
\* It returned to a caller that was cancelled meanwhile: delete_on_cancel.
LateAcquired(r) ==
  IF r.op = "ok" /\ r.kind # "peek" THEN Delete(r) ELSE Return(r)

\* code_run ended; run_code falls back to a local run while it holds the sandbox.
Talked(r) ==
  IF r.op = "failed" /\ r.kind = "run" THEN [r EXCEPT !.at = "gate", !.op = "none"]
  ELSE Leave([r EXCEPT !.op = "none", !.failed = r.op = "failed"])

\* The subprocess exists, or could not be made.
Forked(r) ==
  IF r.op = "failed" THEN Leave([r EXCEPT !.op = "none"])
  ELSE Await(r, IF r.at = "lateFork" THEN "reaping" ELSE "child")

Resumed(r) ==
  CASE r.at = "acquiring" -> Acquired(r)
    [] r.at = "lateAcquire" -> LateAcquired(r)
    [] r.at = "talking" -> Talked(r)
    [] r.at \in {"forking", "lateFork"} -> Forked(r)
    [] r.at = "child" -> Await(r, "reaping")
    [] r.at \in {"reaping", "deleting"} -> Leave([r EXCEPT !.op = "none"])

\* The operation itself: a failed create made nothing.
Operated(r, out) ==
  LET made == r.at \in {"acquiring", "lateAcquire"} /\ out = "ok"
      ended == r.at = "reaping" \/ (r.at = "child" /\ out = "ok")
  IN  [r EXCEPT !.op = out,
                !.left = IF made THEN r.left + 1 ELSE r.left,
                !.child = (r.at \in {"forking", "lateFork"} /\ out = "ok") \/ (r.child /\ ~ended)]

\* What a cancellation does to a call, by the await it meets.  Operations with a
\* task of their own are waited for (_finish_task); wait_for keeps the result of a
\* child that has ended and drops the cancellation.
Cancelled(r) ==
  LET d == [r EXCEPT !.doomed = TRUE]
  IN CASE r.at = "acquiring" -> [d EXCEPT !.at = "lateAcquire"]
       [] r.at = "forking" -> [d EXCEPT !.at = "lateFork"]
       [] r.at \in {"lateAcquire", "lateFork", "reaping", "deleting"} -> d
       [] r.at \in {"talking", "gate", "slot"} -> Leave([d EXCEPT !.op = "none"])
       [] r.at = "child" -> IF r.op = "pending" THEN Await(d, "reaping") ELSE r
       [] OTHER -> r

-----------------------------------------------------------------------------
Begin(c, kind) ==
  /\ call[c].at = "none" /\ kind # "item"
  /\ call' = [call EXCEPT ![c] = Enter([@ EXCEPT !.kind = kind])]
  /\ UNCHANGED <<client, batch>>

MutantTakeSlot(c) ==
  /\ call[c].at = "slot"
  /\ Cardinality({s \in Slots : call[s].at # "deleting"}) < batch.limit
  /\ call' = [call EXCEPT ![c] = Enter(@)]
  /\ UNCHANGED <<client, batch>>
\* An item enters its fan-out's semaphore and holds it until its sandbox is gone.
TakeSlot(c) ==
  /\ call[c].at = "slot" /\ Cardinality(Slots) < batch.limit
  /\ call' = [call EXCEPT ![c] = Enter(@)]
  /\ UNCHANGED <<client, batch>>

\* A call enters the process-wide gate and starts an interpreter.
TakeGate(c) ==
  /\ call[c].at = "gate" /\ Cardinality(Interpreters) < LocalMax
  /\ call' = [call EXCEPT ![c] = Await(@, "forking")]
  /\ UNCHANGED <<client, batch>>

\* The operation ends, whoever still waits for it.
Operate(c, out) ==
  /\ call[c].op = "pending"
  /\ call' = [call EXCEPT ![c] = Operated(@, out)]
  /\ UNCHANGED <<client, batch>>

Proceed(c) ==
  /\ call[c].op \in {"ok", "failed"}
  /\ call' = [call EXCEPT ![c] = Resumed(@)]
  /\ UNCHANGED <<client, batch>>

\* Thirty seconds are over and the child has not ended.
ChildTimesOut(c) ==
  /\ call[c].at = "child" /\ call[c].op = "pending"
  /\ call' = [call EXCEPT ![c] = Await(@, "reaping")]
  /\ UNCHANGED <<client, batch>>

CancelCall(c) ==
  /\ call[c].at \notin {"none", "done"} /\ call[c].kind # "item"
  /\ call' = [call EXCEPT ![c] = Cancelled(@)]
  /\ UNCHANGED <<client, batch>>

-----------------------------------------------------------------------------
(***************************************************************************)
(* Batches.                                                                *)
(***************************************************************************)

\* _claim_sandbox_batch refuses while the lock is held, and nothing is awaited
\* between that check and the lock.
ClaimBatch(route) ==
  /\ batch.at = "none"
  /\ batch' = [NoBatch EXCEPT !.at = "reading", !.route = route]
  /\ UNCHANGED <<client, call>>

MutantConcurrency(route, items) ==
  IF Cardinality(items) <= FanoutCeiling THEN Cardinality(items) ELSE FanoutCeiling
\* verify_graph_fanout's bound: the configured one, or the size a sweep asks for.
Concurrency(route, items) ==
  IF route = "fanout" THEN FanoutLimit
  ELSE IF Cardinality(items) <= FanoutCeiling THEN Cardinality(items) ELSE FanoutCeiling

\* One fan-out, with a semaphore of its own: its items are launched together.  The
\* route has one; a sweep launches the next size when the last one is complete, its
\* sizes being sorted and distinct, and names the items of every size alike.
Launch(items) ==
  /\ batch.at = "reading" \/ (batch.at = "running" /\ batch.route = "sweep")
  /\ ~batch.doomed /\ Ongoing = {} /\ items \subseteq Unused \cup batch.items
  /\ Cardinality(items) > Cardinality(batch.items)
  /\ batch' = [batch EXCEPT !.at = "running", !.items = items,
                            !.limit = Concurrency(batch.route, items)]
  /\ call' = [c \in Calls |-> IF c \in items
                              THEN [NoCall EXCEPT !.kind = "item", !.at = "slot"]
                              ELSE call[c]]
  /\ UNCHANGED client

\* gather passes a cancellation to every item that has not ended.
CancelBatch ==
  /\ batch.at # "none"
  /\ batch' = [batch EXCEPT !.doomed = TRUE]
  /\ call' = [c \in Calls |-> IF c \in Ongoing THEN Cancelled(call[c]) ELSE call[c]]
  /\ UNCHANGED client

MutantReleaseBatch ==
  /\ batch.at # "none" /\ (Ongoing = {} \/ batch.doomed)
  /\ batch' = NoBatch
  /\ UNCHANGED <<client, call>>
\* Every item has ended, or the reads before them failed: the lock is released.
ReleaseBatch ==
  /\ batch.at # "none" /\ Ongoing = {}
  /\ batch' = NoBatch
  /\ UNCHANGED <<client, call>>

NextSandboxes ==
  \/ \E c \in Calls, kind \in Kinds : Begin(c, kind)
  \/ \E c \in Calls : \/ TakeSlot(c) \/ TakeGate(c) \/ Proceed(c)
                      \/ ChildTimesOut(c) \/ CancelCall(c)
  \/ \E c \in Calls, out \in {"ok", "failed"} : Operate(c, out)
  \/ \E items \in SUBSET Calls : Launch(items)
  \/ \E route \in Routes : ClaimBatch(route)
  \/ CancelBatch \/ ReleaseBatch

SandboxSpec == InitSandboxes /\ [][NextSandboxes]_sandboxVars

-----------------------------------------------------------------------------
SandboxTypeOK ==
  /\ client \in BOOLEAN
  /\ call \in [Calls -> CallRecord]
  /\ batch \in BatchRecord

\* Every sandbox a call made or joined is deleted exactly once by the time the
\* call ends, and the deletion is not abandoned, wherever and however often the
\* caller is cancelled.  Only a named sandbox outlives its call, and one that was
\* joined without `delete`.
NoOrphanSandbox ==
  \A c \in Calls :
    LET r == call[c]
    IN /\ r.left \in {0, 1}
       /\ r.at = "done" =>
            /\ r.op = "none" /\ ~r.child
            /\ r.left = 1 => Keeps(r) /\ (r.kind = "persist" => ~r.doomed)

\* The sandboxes of a fan-out, those being deleted included, stay within the
\* configured limit, and those of a sweep within the ceiling whatever its sizes;
\* interpreters that have not been reaped stay within theirs; and no call of an
\* earlier batch or size still runs when another has begun, also when clients leave.
ExecutorWithinLimits ==
  /\ Cardinality({c \in Calls : call[c].kind = "item" /\
                    (call[c].holds \/ call[c].at \in {"acquiring", "lateAcquire", "deleting"})})
       <= IF batch.route = "fanout" THEN FanoutLimit ELSE FanoutCeiling
  /\ Cardinality({c \in Calls : call[c].child}) <= LocalMax
  /\ {c \in Calls : call[c].kind = "item" /\ call[c].at # "done"} \subseteq batch.items

SandboxesHold == SandboxTypeOK /\ NoOrphanSandbox /\ ExecutorWithinLimits
=============================================================================
