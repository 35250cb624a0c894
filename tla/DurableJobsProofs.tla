--------------------------- MODULE DurableJobsProofs ---------------------------
(***************************************************************************)
(* Proofs about DurableJobs for every number of managers, worker tasks,    *)
(* submissions and every policy.  The argument is per row: RowInv is kept  *)
(* by every operation the transactions compose (Terminal, Requeued,        *)
(* Recovered, Prune, ...), so it is kept by the transactions, so it is an  *)
(* invariant of the table.                                                 *)
(*                                                                         *)
(* Then every transaction moves each row by one of a few moves: from that  *)
(* follow the implementation of JobLifecycle, the two caps and the meaning *)
(* of an idempotency key; and a running permit is held until its handler   *)
(* is cleaned up.                                                          *)
(***************************************************************************)
EXTENDS DurableJobs, FiniteSetTheorems, TLAPS, WellFoundedInduction

\* The strengthening: what is true of every row on its own.
RowInv(r) ==
  /\ r \in Row
  /\ r.cancel => r.status \in {"running", "cancelled"}
  /\ r.status = "queued" => r.attempts < MaxAttempts
  /\ r.status = "running" => r.token = r.attempts /\ r.attempts > 0
  /\ r.result # 0 => r.status = "succeeded" /\ r.result = r.attempts
  /\ r.payload <=> r.status \in ActiveStatus
  /\ r.status \in {"absent", "pruned"} => r.attempts = 0

RowsOK(rs) == rs \in [Jobs -> Row] /\ \A j \in Jobs : RowInv(rs[j])

\* An execution has a job, and a started handler until it leaves the loop.
ExecInv(e) ==
  /\ e \in Exec
  /\ e.phase # "idle" => e.job \in Jobs
  /\ e.phase = "run" => e.task # "none"
  /\ e.task = "active" => e.phase \in {"run", "cleanup"}
  /\ e.phase \in {"cleanup", "settle"} => e.verdict \in Verdicts

ControlOK ==
  /\ exec \in [Slots -> Exec] /\ \A w \in Slots : ExecInv(exec[w])
  /\ mode \in [Managers -> {"up", "closing", "down"}]
  /\ used \in 0..AttemptBudget
  /\ left \in 1..Window

IInv == RowsOK(rows) /\ ControlOK

-----------------------------------------------------------------------------
(* Constants and cardinalities. *)

LEMMA PolicyNat ==
  /\ MaxJobs \in Nat /\ Backoff \in Nat
  /\ Workers \in Nat \ {0} /\ MaxActive \in Nat \ {0} /\ HistoryLimit \in Nat \ {0}
  /\ MaxAttempts \in Nat \ {0} /\ AttemptBudget \in Nat \ {0}
  /\ Window \in Nat \ {0} /\ Lease \in Nat \ {0} /\ CommandTTL \in Nat \ {0}
BY PolicyAssumption DEF PolicyAssumption

LEMMA Bounds ==
  /\ 0 \in 0..MaxAttempts /\ 0 \in 0..Lease /\ 0 \in 0..CommandTTL
  /\ 0 \in 0..Backoff /\ Lease \in 0..Lease /\ Backoff \in 0..Backoff
  /\ 0 \in Nat
BY PolicyNat

LEMMA JobsFinite ==
  ASSUME NEW S \in SUBSET Jobs
  PROVE  IsFiniteSet(S) /\ Cardinality(S) \in Nat
<1>1. 0 \in Int /\ 1 \in Int /\ MaxJobs \in Int
  BY PolicyNat
<1>2. IsFiniteSet(Jobs)
  BY <1>1, FS_Interval DEF Jobs
<1>. QED
  BY <1>2, FS_Subset, FS_CardinalityType

\* A stamp is a natural number.
LEMMA StampNat ==
  ASSUME NEW rs
  PROVE  FinishStamp(rs) \in Nat
<1>1. With(rs, TERMINAL \cup {"pruned"}) \in SUBSET Jobs
  BY DEF With
<1>2. Cardinality(With(rs, TERMINAL \cup {"pruned"})) \in Nat
  BY <1>1, JobsFinite
<1>3. FinishStamp(rs) = 1 + Cardinality(With(rs, TERMINAL \cup {"pruned"}))
  BY DEF FinishStamp
<1>. QED
  BY <1>2, <1>3

-----------------------------------------------------------------------------
(* One row under the operations the transactions are built from. *)

LEMMA EmptyInv ==
  ASSUME NEW s \in {"absent", "pruned"}
  PROVE  RowInv(Empty(s))
<1>1. (CHOOSE c \in Commands : TRUE) \in Commands
  BY ActorAssumption DEF ActorAssumption
<1>2. Empty(s) \in Row
  BY <1>1, Bounds, Zenon DEF Empty, Row
<1>. QED
  BY <1>2 DEF RowInv, Empty, TERMINAL, ActiveStatus

LEMMA NewRowInv ==
  ASSUME NEW key \in Keys \cup {NoKey}, NEW cmd \in Commands
  PROVE  RowInv(NewRow(key, cmd))
<1>1. (CHOOSE c \in Commands : TRUE) \in Commands
  BY ActorAssumption DEF ActorAssumption
<1>2. Empty("queued") \in Row
  BY <1>1, Bounds, Zenon DEF Empty, Row, ActiveStatus
<1>3. NewRow(key, cmd) \in Row
  BY <1>2, Zenon DEF NewRow, Row
<1>. QED
  BY <1>3, PolicyNat DEF RowInv, NewRow, Empty, ActiveStatus

\* A row that settles with an outcome the operation allows stays well formed.
LEMMA TerminalInv ==
  ASSUME NEW r, RowInv(r), NEW s \in TERMINAL, NEW result \in 0..MaxAttempts, NEW stamp \in Nat,
         r.cancel => s = "cancelled",
         result # 0 => s = "succeeded" /\ result = r.attempts
  PROVE  RowInv(Terminal(r, s, result, stamp))
<1>1. r \in Row
  BY DEF RowInv
<1>2. Terminal(r, s, result, stamp) \in Row
  BY <1>1, Bounds, Zenon DEF Terminal, Row
<1>. QED
  BY <1>1, <1>2 DEF RowInv, Terminal, Row, TERMINAL, ActiveStatus

LEMMA RequeuedInv ==
  ASSUME NEW r, RowInv(r), r.status \in ActiveStatus, ~r.cancel, r.attempts < MaxAttempts
  PROVE  RowInv(Requeued(r))
<1>1. r \in Row
  BY DEF RowInv
<1>2. Requeued(r) \in Row
  BY <1>1, Bounds, Zenon DEF Requeued, Row, ActiveStatus
<1>. QED
  BY <1>1, <1>2 DEF RowInv, Requeued, Row, TERMINAL, ActiveStatus

LEMMA RecoveredInv ==
  ASSUME NEW r, RowInv(r), NEW stamp \in Nat
  PROVE  RowInv(Recovered(r, stamp))
<1>1. CASE ~Lapsed(r)
  BY <1>1 DEF Recovered
<1>2. CASE Lapsed(r)
  <2>1. r.status \in ActiveStatus
    BY <1>2 DEF Lapsed, ActiveStatus
  <2>2. RowInv(Terminal(r, "cancelled", 0, stamp))
    BY TerminalInv, Bounds DEF TERMINAL
  <2>3. CASE r.cancel
    BY <1>2, <2>2, <2>3 DEF Recovered
  <2>4. CASE ~r.cancel /\ (r.attempts >= MaxAttempts \/ r.age = CommandTTL)
    <3>1. RowInv(Terminal(r, "failed", 0, stamp))
      BY <2>4, TerminalInv, Bounds DEF TERMINAL
    <3>. QED
      BY <1>2, <2>4, <3>1 DEF Recovered
  <2>5. CASE ~r.cancel /\ ~(r.attempts >= MaxAttempts \/ r.age = CommandTTL)
    <3>1. r.attempts < MaxAttempts
      BY <2>5, PolicyNat DEF RowInv, Row
    <3>. QED
      BY <1>2, <2>1, <2>5, <3>1, RequeuedInv DEF Recovered
  <2>. QED
    BY <2>3, <2>4, <2>5
<1>. QED
  BY <1>1, <1>2

\* What a settling execution makes of the row it owns: only the attempt the row
\* is on can be stored as its result.
LEMMA FinishedInv ==
  ASSUME NEW r, RowInv(r), r.status = "running", NEW verdict, NEW stamp \in Nat
  PROVE  RowInv(Finished(r, verdict, r.token, stamp))
<1>1. r \in Row /\ r.token = r.attempts /\ r.token \in 0..MaxAttempts
  BY DEF RowInv, Row
<1>2. CASE r.cancel
  BY <1>2, TerminalInv, Bounds DEF Finished, TERMINAL
<1>3. CASE ~r.cancel /\ verdict = "retry" /\ r.attempts < MaxAttempts
  <2>1. RowInv(Requeued(r)) /\ Requeued(r) \in Row
    BY <1>3, RequeuedInv DEF ActiveStatus, RowInv
  <2>2. [Requeued(r) EXCEPT !.backoff = Backoff] \in Row
    BY <2>1, Bounds, Zenon DEF Row
  <2>3. RowInv([Requeued(r) EXCEPT !.backoff = Backoff])
    BY <2>1, <2>2 DEF RowInv, Row
  <2>. QED
    BY <1>3, <2>3 DEF Finished
<1>4. CASE ~r.cancel /\ ~(verdict = "retry" /\ r.attempts < MaxAttempts)
  <2>1. RowInv(Terminal(r, "succeeded", r.token, stamp))
    BY <1>1, <1>4, TerminalInv DEF TERMINAL
  <2>2. /\ RowInv(Terminal(r, "cancelled", 0, stamp))
        /\ RowInv(Terminal(r, "failed", 0, stamp))
    BY <1>4, TerminalInv, Bounds DEF TERMINAL
  <2>. QED
    BY <1>4, <2>1, <2>2 DEF Finished
<1>. QED
  BY <1>2, <1>3, <1>4

LEMMA RelinquishedInv ==
  ASSUME NEW r, RowInv(r), r.status = "running", NEW stamp \in Nat
  PROVE  RowInv(Relinquished(r, stamp))
<1>1. RowInv(Terminal(r, "cancelled", 0, stamp))
  BY TerminalInv, Bounds DEF TERMINAL
<1>2. ~r.cancel => RowInv(Terminal(r, "failed", 0, stamp))
  BY TerminalInv, Bounds DEF TERMINAL
<1>3. ~r.cancel /\ ~(r.attempts >= MaxAttempts) => RowInv(Requeued(r))
  BY RequeuedInv, PolicyNat DEF RowInv, Row, ActiveStatus
<1>. QED
  BY <1>1, <1>2, <1>3 DEF Relinquished

LEMMA ClaimedInv ==
  ASSUME NEW r, RowInv(r), r.status = "queued"
  PROVE  RowInv(Claimed(r))
<1>1. r \in Row /\ r.attempts < MaxAttempts /\ r.attempts \in 0..MaxAttempts
  BY DEF RowInv, Row
<1>2. r.attempts + 1 \in 0..MaxAttempts
  BY <1>1, PolicyNat
<1>3. Claimed(r) \in Row
  BY <1>1, <1>2, Bounds, Zenon DEF Claimed, Row, ActiveStatus
<1>. QED
  BY <1>1, <1>3 DEF RowInv, Claimed, Row, ActiveStatus

LEMMA AgedInv ==
  ASSUME NEW r, RowInv(r)
  PROVE  RowInv(Aged(r))
<1>. DEFINE older == IF r.status \in ActiveStatus /\ r.age < CommandTTL THEN r.age + 1 ELSE r.age
<1>1. r \in Row /\ r.lease \in 0..Lease /\ r.age \in 0..CommandTTL /\ r.backoff \in 0..Backoff
  BY DEF RowInv, Row
<1>2. Down(r.lease) \in 0..Lease /\ Down(r.backoff) \in 0..Backoff /\ older \in 0..CommandTTL
  BY <1>1, PolicyNat DEF Down
<1>3. Aged(r) \in Row
  BY <1>1, <1>2, Zenon DEF Aged, Row
<1>. QED
  BY <1>1, <1>3 DEF RowInv, Aged, Row

\* The updates of a single field that no part of RowInv speaks about.
LEMMA FieldInv ==
  ASSUME NEW r, RowInv(r)
  PROVE  /\ RowInv([r EXCEPT !.lease = Lease])
         /\ \A b \in BOOLEAN : RowInv([r EXCEPT !.waiting = b])
         /\ r.status = "running" => RowInv([r EXCEPT !.cancel = TRUE])
<1>1. r \in Row
  BY DEF RowInv
<1>2. /\ [r EXCEPT !.lease = Lease] \in Row
      /\ \A b \in BOOLEAN : [r EXCEPT !.waiting = b] \in Row
      /\ [r EXCEPT !.cancel = TRUE] \in Row
  BY <1>1, Bounds, Zenon DEF Row
<1>. QED
  BY <1>1, <1>2 DEF RowInv, Row

-----------------------------------------------------------------------------
(* The table under the transactions. *)

LEMMA PruneOK ==
  ASSUME NEW rs, RowsOK(rs)
  PROVE  RowsOK(Prune(rs))
<1>1. ASSUME NEW j \in Jobs
      PROVE  RowInv(Prune(rs)[j])
  BY <1>1, EmptyInv DEF RowsOK, Prune
<1>2. \A j \in Jobs : Prune(rs)[j] \in Row
  BY <1>1 DEF RowInv
<1>. QED
  BY <1>1, <1>2 DEF RowsOK, Prune

LEMMA MaintainOK ==
  ASSUME NEW rs, RowsOK(rs)
  PROVE  RowsOK(Maintain(rs))
<1>. DEFINE rec == [j \in Jobs |-> Recovered(rs[j], FinishStamp(rs))]
<1>1. FinishStamp(rs) \in Nat
  BY StampNat
<1>2. \A j \in Jobs : RowInv(rec[j])
  BY <1>1, RecoveredInv DEF RowsOK
<1>3. RowsOK(rec)
  BY <1>2 DEF RowsOK, RowInv
<1>. QED
  BY <1>3, PruneOK DEF Maintain

LEMMA PutOK ==
  ASSUME NEW rs, RowsOK(rs), NEW j \in Jobs, NEW r, RowInv(r)
  PROVE  RowsOK([rs EXCEPT ![j] = r])
BY DEF RowsOK, RowInv

\* A settling operation replaces one row and prunes.
LEMMA SettledOK ==
  ASSUME NEW rs, RowsOK(rs), NEW j \in Jobs, NEW r, RowInv(r)
  PROVE  RowsOK(Prune([rs EXCEPT ![j] = r]))
BY PutOK, PruneOK

-----------------------------------------------------------------------------
(* One execution. *)

LEMMA ExecIntro ==
  ASSUME NEW e, e \in Exec
  PROVE  /\ e.phase \in {"idle", "emit", "run", "cleanup", "settle"} /\ e.job \in Jobs \cup {0}
         /\ e.token \in 0..MaxAttempts /\ e.task \in {"none", "active"} \cup Outcomes
         /\ e.verdict \in Verdicts \cup {"none"}
BY DEF Exec

LEMMA IdleInv == ExecInv(Idle)
BY Bounds DEF ExecInv, Idle, Exec

LEMMA DecideInv ==
  ASSUME NEW e, ExecInv(e), e.phase \in {"run", "cleanup"}, NEW verdict \in Verdicts
  PROVE  ExecInv(Decide(e, verdict))
<1>1. e \in Exec /\ e.job \in Jobs
  BY DEF ExecInv
<1>2. CASE e.task = "active"
  <2>1. [e EXCEPT !.phase = "cleanup", !.verdict = verdict] \in Exec
    BY <1>1, Zenon DEF Exec
  <2>. QED
    BY <1>1, <1>2, <2>1 DEF ExecInv, Decide, Exec
<1>3. CASE e.task # "active" /\ verdict \in {"lost", "abandon"}
  BY <1>3, IdleInv DEF Decide
<1>4. CASE e.task # "active" /\ verdict \notin {"lost", "abandon"}
  <2>1. [e EXCEPT !.phase = "settle", !.verdict = verdict] \in Exec
    BY <1>1, Zenon DEF Exec
  <2>. QED
    BY <1>1, <1>4, <2>1 DEF ExecInv, Decide, Exec
<1>. QED
  BY <1>2, <1>3, <1>4

LEMMA InterruptedInv ==
  ASSUME NEW e, ExecInv(e)
  PROVE  ExecInv(Interrupted(e))
<1>1. e \in Exec /\ e.phase \in {"idle", "emit", "run", "cleanup", "settle"}
  BY DEF ExecInv, Exec
<1>2. CASE e.phase \in {"idle", "emit"}
  BY <1>2, IdleInv DEF Interrupted
<1>3. CASE e.phase = "run"
  BY <1>3, DecideInv DEF Interrupted, Verdicts
<1>4. CASE e.phase = "cleanup"
  <2>. DEFINE v == IF e.verdict = "error" THEN "abandon" ELSE "relinquish"
  <2>1. v \in Verdicts
    BY DEF Verdicts
  <2>2. [e EXCEPT !.verdict = v] \in Exec
    BY <1>1, <2>1, Zenon DEF Exec
  <2>3. Interrupted(e) = [e EXCEPT !.verdict = v]
    BY <1>4 DEF Interrupted
  <2>. QED
    BY <1>1, <1>4, <2>2, <2>3 DEF ExecInv, Exec
<1>5. CASE e.phase = "settle"
  BY <1>5 DEF Interrupted
<1>. QED
  BY <1>1, <1>2, <1>3, <1>4, <1>5

LEMMA ExecPut ==
  ASSUME ControlOK, NEW w \in Slots, NEW e, ExecInv(e), exec' = [exec EXCEPT ![w] = e],
         UNCHANGED <<mode, left>>, used' \in 0..AttemptBudget
  PROVE  ControlOK'
<1>1. e \in Exec
  BY DEF ExecInv
<1>2. exec' \in [Slots -> Exec] /\ \A v \in Slots : ExecInv(exec'[v])
  BY <1>1 DEF ControlOK
<1>. QED
  BY <1>2 DEF ControlOK

-----------------------------------------------------------------------------
(* The actions keep the invariant. *)

THEOREM InitInv == Init => IInv
<1>. SUFFICES ASSUME Init PROVE IInv
  OBVIOUS
<1>1. RowsOK(rows)
  BY EmptyInv DEF Init, RowsOK, RowInv
<1>2. ControlOK
  BY IdleInv, PolicyNat DEF Init, ControlOK, ExecInv
<1>. QED
  BY <1>1, <1>2 DEF IInv

LEMMA ClientInv ==
  ASSUME IInv,
         \/ \E key \in Keys \cup {NoKey}, cmd \in Commands : Submit(key, cmd)
         \/ \E key \in Keys, cmd \in Commands : SubmitAgain(key, cmd)
         \/ \E j \in Jobs : Cancel(j)
  PROVE  IInv'
<1>1. RowsOK(rows) /\ RowsOK(Maintain(rows))
  BY MaintainOK DEF IInv
<1>2. UNCHANGED <<exec, mode, used, left>>
  BY DEF Submit, SubmitAgain, Cancel
<1>3. ASSUME NEW key \in Keys \cup {NoKey}, NEW cmd \in Commands, Submit(key, cmd)
      PROVE  RowsOK(rows')
  <2>1. PICK j \in Jobs : rows' = [Maintain(rows) EXCEPT ![j] = NewRow(key, cmd)]
    BY <1>3 DEF Submit
  <2>. QED
    BY <1>1, <2>1, NewRowInv, PutOK
<1>4. ASSUME NEW key \in Keys, NEW cmd \in Commands, SubmitAgain(key, cmd)
      PROVE  RowsOK(rows')
  BY <1>1, <1>4 DEF SubmitAgain
<1>5. ASSUME NEW j \in Jobs, Cancel(j)
      PROVE  RowsOK(rows')
  <2>1. RowInv(rows[j]) /\ FinishStamp(rows) \in Nat
    BY <1>1, StampNat DEF RowsOK
  <2>2. CASE rows[j].status = "queued"
    <3>1. RowInv(Terminal(rows[j], "cancelled", 0, FinishStamp(rows)))
      BY <2>1, TerminalInv, Bounds DEF TERMINAL
    <3>2. rows' = Prune([rows EXCEPT ![j] = Terminal(rows[j], "cancelled", 0, FinishStamp(rows))])
      BY <1>5, <2>2 DEF Cancel
    <3>. QED
      BY <1>1, <3>1, <3>2, SettledOK
  <2>3. CASE rows[j].status = "running"
    <3>1. RowInv([rows[j] EXCEPT !.cancel = TRUE])
      BY <2>1, <2>3, FieldInv
    <3>2. rows' = Prune([rows EXCEPT ![j] = [rows[j] EXCEPT !.cancel = TRUE]])
      BY <1>5, <2>3 DEF Cancel
    <3>. QED
      BY <1>1, <3>1, <3>2, SettledOK
  <2>4. CASE rows[j].status \notin {"queued", "running"}
    <3>1. rows' = Prune(rows)
      BY <1>5, <2>4 DEF Cancel
    <3>. QED
      BY <1>1, <3>1, PruneOK
  <2>. QED
    BY <2>2, <2>3, <2>4
<1>6. RowsOK(rows')
  BY <1>3, <1>4, <1>5
<1>. QED
  BY <1>2, <1>6 DEF IInv, RowsOK, ControlOK

LEMMA PollInv ==
  ASSUME IInv, NEW w \in Slots, Poll(w)
  PROVE  IInv'
<1>. DEFINE rs == Maintain(rows)
<1>1. RowsOK(rs) /\ ControlOK
  BY MaintainOK DEF IInv
<1>2. CASE ClaimNothing(w)
  BY <1>1, <1>2 DEF ClaimNothing, IInv, ControlOK
<1>3. CASE ClaimOverBudget(w)
  <2>1. rows' = [j \in Jobs |-> [rs[j] EXCEPT !.waiting = @ \/ rs[j].status = "queued"]]
    BY <1>3 DEF ClaimOverBudget
  <2>2. \A j \in Jobs : RowInv(rows'[j])
    BY <1>1, <2>1, FieldInv DEF RowsOK
  <2>3. RowsOK(rows')
    BY <2>1, <2>2 DEF RowsOK, RowInv
  <2>. QED
    BY <1>1, <1>3, <2>3 DEF ClaimOverBudget, IInv, ControlOK
<1>4. CASE ClaimJob(w)
  <2>1. PICK j \in With(rs, {"queued"}) :
          /\ rows' = [rs EXCEPT ![j] = Claimed(rs[j])]
          /\ exec' = [exec EXCEPT ![w] = [Idle EXCEPT !.phase = "emit", !.job = j,
                                                      !.token = rs[j].attempts + 1]]
    BY <1>4 DEF ClaimJob
  <2>2. j \in Jobs /\ rs[j].status = "queued" /\ RowInv(rs[j])
    BY <1>1 DEF With, RowsOK
  <2>3. RowsOK(rows')
    BY <1>1, <2>1, <2>2, ClaimedInv, PutOK
  <2>4. rs[j].attempts + 1 \in 0..MaxAttempts
    BY <2>2, PolicyNat DEF RowInv, Row
  <2>5. [Idle EXCEPT !.phase = "emit", !.job = j, !.token = rs[j].attempts + 1] \in Exec
    BY <2>2, <2>4, IdleInv, Zenon DEF Exec, ExecInv
  <2>6. ExecInv([Idle EXCEPT !.phase = "emit", !.job = j, !.token = rs[j].attempts + 1])
    BY <2>2, <2>5 DEF ExecInv, Idle
  <2>7. used' \in 0..AttemptBudget
    BY <1>1, <1>4, PolicyNat DEF ClaimJob, BudgetLeft, ControlOK
  <2>8. ControlOK'
    BY <1>1, <1>4, <2>1, <2>6, <2>7, ExecPut DEF ClaimJob
  <2>. QED
    BY <2>3, <2>8 DEF IInv
<1>. QED
  BY <1>2, <1>3, <1>4 DEF Poll

LEMMA RenewedOK ==
  ASSUME RowsOK(rows), NEW w \in Slots, ExecInv(exec[w])
  PROVE  RowsOK(Renewed(w))
<1>1. CASE HoldsLease(w)
  <2>1. PICK j \in Jobs : j = exec[w].job
    BY <1>1 DEF HoldsLease, Owns, ExecInv
  <2>2. RowInv([rows[j] EXCEPT !.lease = Lease])
    BY FieldInv DEF RowsOK
  <2>3. Renewed(w) = [rows EXCEPT ![j] = [rows[j] EXCEPT !.lease = Lease]]
    BY <1>1, <2>1 DEF Renewed
  <2>4. RowsOK([rows EXCEPT ![j] = [rows[j] EXCEPT !.lease = Lease]])
    BY <2>2, PutOK
  <2>. QED
    BY <2>3, <2>4
<1>2. CASE ~HoldsLease(w)
  BY <1>2 DEF Renewed
<1>. QED
  BY <1>1, <1>2

LEMMA ExecuteInv ==
  ASSUME IInv, NEW w \in Slots,
         Start(w) \/ HandlerEnds(w) \/ Beat(w) \/ BeatFails(w) \/ CleanupBeat(w) \/ Unwound(w)
  PROVE  IInv'
<1>. DEFINE e == exec[w]
<1>1. RowsOK(rows) /\ RowsOK(Renewed(w)) /\ ControlOK /\ ExecInv(e) /\ e \in Exec
  BY RenewedOK DEF IInv, ControlOK, ExecInv
<1>2. UNCHANGED <<mode, used, left>> /\ used \in 0..AttemptBudget
  BY <1>1 DEF Start, HandlerEnds, Beat, BeatFails, CleanupBeat, Unwound, ControlOK
<1>3. RowsOK(rows')
  BY <1>1 DEF Start, HandlerEnds, Beat, BeatFails, CleanupBeat, Unwound
<1>4. ASSUME NEW f, ExecInv(f), exec' = [exec EXCEPT ![w] = f]
      PROVE  IInv'
  BY <1>1, <1>2, <1>3, <1>4, ExecPut DEF IInv
<1>5. CASE Start(w)
  <2>1. [e EXCEPT !.phase = "run", !.task = "active"] \in Exec
    BY <1>1, Zenon DEF Exec
  <2>2. ExecInv([e EXCEPT !.phase = "run", !.task = "active"])
    BY <1>1, <1>5, <2>1 DEF ExecInv, Start, Exec
  <2>3. exec' = [exec EXCEPT ![w] = [e EXCEPT !.phase = "run", !.task = "active"]]
    BY <1>1, <1>5 DEF Start, ControlOK
  <2>. QED
    BY <1>4, <2>2, <2>3
<1>6. CASE HandlerEnds(w)
  <2>1. PICK out \in Outcomes : exec' = [exec EXCEPT ![w] = [e EXCEPT !.task = out]]
    BY <1>1, <1>6 DEF HandlerEnds, ControlOK
  <2>2. [e EXCEPT !.task = out] \in Exec
    BY <1>1, Zenon DEF Exec
  <2>3. ExecInv([e EXCEPT !.task = out])
    BY <1>1, <1>6, <2>2 DEF ExecInv, HandlerEnds, Exec, Outcomes
  <2>. QED
    BY <1>4, <2>1, <2>3
<1>7. CASE Beat(w)
  <2>1. e.phase = "run" /\ (e.task # "active" => e.task \in Outcomes)
    BY <1>1, <1>7 DEF Beat, ExecInv, Exec
  <2>2. /\ ExecInv(Decide(e, "lost")) /\ ExecInv(Decide(e, "cancelled"))
        /\ ExecInv(Decide(e, "failed"))
        /\ e.task # "active" => ExecInv(Decide(e, e.task))
    BY <1>1, <2>1, DecideInv DEF Verdicts, Outcomes
  <2>3. PICK f : exec' = [exec EXCEPT ![w] = f]
                 /\ \/ f = Decide(e, "lost") \/ f = Decide(e, "cancelled")
                    \/ f = Decide(e, "failed") \/ f = e
                    \/ e.task # "active" /\ f = Decide(e, e.task)
    BY <1>7 DEF Beat
  <2>. QED
    BY <1>1, <1>4, <2>2, <2>3
<1>8. CASE BeatFails(w)
  <2>1. ExecInv(Decide(e, "error"))
    BY <1>1, <1>8, DecideInv DEF BeatFails, Verdicts, Outcomes
  <2>. QED
    BY <1>4, <1>8, <2>1 DEF BeatFails
<1>9. CASE CleanupBeat(w)
  BY <1>1, <1>2, <1>3, <1>9 DEF CleanupBeat, IInv, ControlOK
<1>10. CASE Unwound(w)
  <2>. DEFINE f == [e EXCEPT !.task = "none"]
  <2>1. f \in Exec
    BY <1>1, Zenon DEF Exec
  <2>2. ExecInv(f) /\ f.phase = "cleanup" /\ f.task = "none" /\ f.verdict = e.verdict
    BY <1>1, <1>10, <2>1 DEF ExecInv, Unwound, Exec
  <2>3. exec' = [exec EXCEPT ![w] = Decide(f, e.verdict)]
    BY <1>1, <1>10 DEF Unwound, ControlOK
  <2>4. e.verdict \in Verdicts
    BY <1>1, <1>10 DEF ExecInv, Unwound
  <2>. QED
    BY <1>4, <2>2, <2>3, <2>4, DecideInv
<1>. QED
  BY <1>5, <1>6, <1>7, <1>8, <1>9, <1>10

LEMMA SettleInv ==
  ASSUME IInv, NEW w \in Slots, Finish(w) \/ Relinquish(w) \/ SettleFails(w)
  PROVE  IInv'
<1>. DEFINE e == exec[w]
<1>1. RowsOK(rows) /\ ControlOK /\ ExecInv(e) /\ e \in Exec /\ e.phase = "settle" /\ e.job \in Jobs
  BY DEF IInv, ControlOK, ExecInv, Finish, Relinquish, SettleFails
<1>2. UNCHANGED <<mode, used, left>> /\ used \in 0..AttemptBudget
  BY <1>1 DEF Finish, Relinquish, SettleFails, ControlOK
<1>3. RowsOK(rows')
  <2>1. PICK j \in Jobs : j = e.job
    BY <1>1
  <2>2. RowInv(rows[j]) /\ FinishStamp(rows) \in Nat
    BY <1>1, StampNat DEF RowsOK
  <2>3. CASE Finish(w) /\ HoldsLease(w)
    <3>1. rows[j].status = "running" /\ rows[j].token = e.token
      BY <2>1, <2>3 DEF HoldsLease, Owns
    <3>2. RowInv(Finished(rows[j], e.verdict, e.token, FinishStamp(rows)))
      BY <2>2, <3>1, FinishedInv
    <3>3. rows' = Prune([rows EXCEPT ![j] =
                           Finished(rows[j], e.verdict, e.token, FinishStamp(rows))])
      BY <2>1, <2>3 DEF Finish
    <3>. QED
      BY <1>1, <3>2, <3>3, SettledOK
  <2>4. CASE Relinquish(w) /\ Owns(w)
    <3>1. rows[j].status = "running"
      BY <2>1, <2>4 DEF Owns
    <3>2. RowInv(Relinquished(rows[j], FinishStamp(rows)))
      BY <2>2, <3>1, RelinquishedInv
    <3>3. rows' = Prune([rows EXCEPT ![j] = Relinquished(rows[j], FinishStamp(rows))])
      BY <2>1, <2>4 DEF Relinquish
    <3>. QED
      BY <1>1, <3>2, <3>3, SettledOK
  <2>5. CASE ~(Finish(w) /\ HoldsLease(w)) /\ ~(Relinquish(w) /\ Owns(w))
    BY <1>1, <2>5 DEF Finish, Relinquish, SettleFails
  <2>. QED
    BY <2>3, <2>4, <2>5
<1>4. PICK f : exec' = [exec EXCEPT ![w] = f]
               /\ \/ f = Idle \/ f = [e EXCEPT !.verdict = "relinquish"]
                  \/ f = [e EXCEPT !.verdict = "error"]
  BY DEF Finish, Relinquish, SettleFails, AfterSettle
<1>5. ExecInv(f)
  <2>1. /\ [e EXCEPT !.verdict = "relinquish"] \in Exec
        /\ [e EXCEPT !.verdict = "error"] \in Exec
    BY <1>1, Zenon DEF Exec, Verdicts, Outcomes
  <2>2. /\ ExecInv([e EXCEPT !.verdict = "relinquish"])
        /\ ExecInv([e EXCEPT !.verdict = "error"])
    BY <1>1, <2>1 DEF ExecInv, Exec, Verdicts, Outcomes
  <2>. QED
    BY <1>4, <2>2, IdleInv
<1>. QED
  BY <1>1, <1>2, <1>3, <1>4, <1>5, ExecPut DEF IInv

LEMMA ManagerInv ==
  ASSUME IInv, NEW m \in Managers, Shutdown(m) \/ Exit(m) \/ Crash(m) \/ Restart(m)
  PROVE  IInv'
<1>1. RowsOK(rows) /\ ControlOK /\ RowsOK(Maintain(rows))
  BY MaintainOK DEF IInv
<1>2. RowsOK(rows')
  BY <1>1 DEF Shutdown, Exit, Crash, Restart
<1>3. \A w \in Slots : ExecInv(exec[w]) /\ ExecInv(Interrupted(exec[w])) /\ ExecInv(Idle)
  BY <1>1, InterruptedInv, IdleInv DEF ControlOK
<1>4. exec' \in [Slots -> Exec] /\ \A w \in Slots : ExecInv(exec'[w])
  <2>1. CASE exec' = exec
    BY <1>1, <2>1 DEF ControlOK
  <2>2. CASE exec' = [w \in Slots |-> IF Owner[w] = m THEN Interrupted(exec[w]) ELSE exec[w]]
    <3>1. \A w \in Slots : ExecInv(exec'[w])
      BY <1>3, <2>2
    <3>. QED
      BY <2>2, <3>1 DEF ExecInv
  <2>3. CASE exec' = [w \in Slots |-> IF Owner[w] = m THEN Idle ELSE exec[w]]
    <3>1. \A w \in Slots : ExecInv(exec'[w])
      BY <1>3, <2>3
    <3>. QED
      BY <2>3, <3>1 DEF ExecInv
  <2>. QED
    BY <2>1, <2>2, <2>3 DEF Shutdown, Exit, Crash, Restart
<1>5. mode' \in [Managers -> {"up", "closing", "down"}] /\ UNCHANGED <<used, left>>
  BY <1>1 DEF Shutdown, Exit, Crash, Restart, ControlOK
<1>. QED
  BY <1>1, <1>2, <1>4, <1>5 DEF IInv, ControlOK

LEMMA TickInv ==
  ASSUME IInv, Tick
  PROVE  IInv'
<1>1. RowsOK(rows) /\ ControlOK
  BY DEF IInv
<1>2. \A j \in Jobs : RowInv(rows'[j])
  BY <1>1, AgedInv DEF Tick, RowsOK
<1>3. RowsOK(rows')
  BY <1>2 DEF Tick, RowsOK, RowInv
<1>4. used' \in 0..AttemptBudget /\ left' \in 1..Window
  BY <1>1, PolicyNat DEF Tick, ControlOK
<1>. QED
  BY <1>1, <1>3, <1>4 DEF IInv, ControlOK, Tick

THEOREM StepInv == IInv /\ [Next]_vars => IInv'
<1>. SUFFICES ASSUME IInv, [Next]_vars PROVE IInv'
  OBVIOUS
<1>1. CASE UNCHANGED vars
  BY <1>1 DEF vars, IInv, RowsOK, ControlOK
<1>2. CASE Next
  BY <1>2, ClientInv, PollInv, ExecuteInv, SettleInv, ManagerInv, TickInv DEF Next, Worker
<1>. QED
  BY <1>1, <1>2

-----------------------------------------------------------------------------
(* Theorems. *)

\* IInv is an invariant: initially true and kept by every step.
THEOREM Inductive == Spec => []IInv
BY InitInv, StepInv, PTL DEF Spec

\* Types hold, and the claims charged to a budget window never exceed it.
THEOREM TypeCorrect == Spec => []TypeOK
<1>1. IInv => TypeOK
  BY DEF IInv, RowsOK, ControlOK, TypeOK
<1>. QED
  BY <1>1, Inductive, PTL

\* A cancellation accepted by `cancel` for a running job is never lost.
THEOREM CancellationWins == Spec => []CancelWins
<1>1. IInv => CancelWins
  BY DEF IInv, RowsOK, RowInv, CancelWins
<1>. QED
  BY <1>1, Inductive, PTL

\* No job is claimed more often than the policy's max_attempts.
THEOREM AttemptsStayBounded == Spec => []AttemptsBounded
<1>1. IInv => AttemptsBounded
  BY PolicyNat DEF IInv, RowsOK, RowInv, Row, AttemptsBounded
<1>. QED
  BY <1>1, Inductive, PTL

\* The token fence of _finish lets only a job's last attempt store a result.
THEOREM StaleResultsFenced == Spec => []ResultOfLastAttempt
<1>1. IInv => ResultOfLastAttempt
  BY DEF IInv, RowsOK, RowInv, ResultOfLastAttempt
<1>. QED
  BY <1>1, Inductive, PTL

\* The private command is erased by the transaction that settles the job, and
\* by none before it.
THEOREM PayloadKeptWhileActive == Spec => []PayloadWhileActive
<1>1. IInv => PayloadWhileActive
  BY DEF IInv, RowsOK, RowInv, PayloadWhileActive
<1>. QED
  BY <1>1, Inductive, PTL

-----------------------------------------------------------------------------
(* The moves of a row. *)

SameLife(r, s) == s.status = r.status /\ s.attempts = r.attempts /\ s.cancel = r.cancel

\* What any transaction may do to a row it neither admits nor claims.
Moves(r, s) ==
  /\ Retained(s) => Retained(r) /\ s.key = r.key
  /\ s.status = "running" => s.token = r.token
  /\ \/ SameLife(r, s)
     \/ /\ r.status = "running" /\ ~r.cancel /\ r.attempts < MaxAttempts
        /\ s.status = "queued" /\ s.attempts = r.attempts /\ ~s.cancel
     \/ /\ r.status = "running" /\ s.status = "running"
        /\ s.attempts = r.attempts /\ s.cancel
     \/ /\ r.status \in ActiveStatus /\ s.status \in TERMINAL
        /\ r.cancel => s.status = "cancelled"
        /\ s.status = "succeeded" => r.status = "running"
        /\ s.attempts = r.attempts /\ s.cancel = r.cancel
     \/ /\ Retained(r) /\ s.status = "pruned" /\ s.attempts = 0 /\ ~s.cancel

Begins(r, s) ==
  /\ r.status \in ActiveStatus /\ ~r.cancel /\ r.attempts < MaxAttempts
  /\ s.status = "running" /\ s.attempts = r.attempts + 1 /\ ~s.cancel
  /\ s.key = r.key /\ s.token = s.attempts

Admits(r, s) ==
  r.status = "absent" /\ s.status = "queued" /\ s.attempts = 0 /\ ~s.cancel

AllMove == \A j \in Jobs : Moves(rows[j], rows'[j])

-----------------------------------------------------------------------------
(* The row operations are moves. *)

LEMMA MovesSelf ==
  ASSUME NEW r
  PROVE  Moves(r, r)
BY DEF Moves, SameLife

LEMMA TerminalMoves ==
  ASSUME NEW r, RowInv(r), r.status \in ActiveStatus, NEW s \in TERMINAL, NEW result, NEW stamp,
         r.cancel => s = "cancelled", s = "succeeded" => r.status = "running"
  PROVE  Moves(r, Terminal(r, s, result, stamp))
<1>1. r \in Row
  BY DEF RowInv
<1>. QED
  BY <1>1 DEF Moves, Terminal, Row, Retained, ActiveStatus, TERMINAL

LEMMA RequeuedMoves ==
  ASSUME NEW r, RowInv(r), r.status = "running", ~r.cancel, r.attempts < MaxAttempts
  PROVE  /\ Moves(r, Requeued(r))
         /\ Moves(r, [Requeued(r) EXCEPT !.backoff = Backoff])
<1>1. r \in Row
  BY DEF RowInv
<1>. QED
  BY <1>1 DEF Moves, Requeued, Row, Retained

LEMMA RecoveredMoves ==
  ASSUME NEW r, RowInv(r), NEW stamp
  PROVE  Moves(r, Recovered(r, stamp))
<1>1. CASE ~Lapsed(r)
  BY <1>1, MovesSelf DEF Recovered
<1>2. CASE Lapsed(r)
  <2>1. r.status \in ActiveStatus /\ (r.status = "queued" => r.age = CommandTTL)
    BY <1>2 DEF Lapsed, ActiveStatus
  <2>2. Moves(r, Terminal(r, "cancelled", 0, stamp))
    BY <2>1, TerminalMoves DEF TERMINAL
  <2>3. ~r.cancel => Moves(r, Terminal(r, "failed", 0, stamp))
    BY <2>1, TerminalMoves DEF TERMINAL
  <2>4. ~r.cancel /\ ~(r.attempts >= MaxAttempts \/ r.age = CommandTTL) => Moves(r, Requeued(r))
    <3>1. ~(r.attempts >= MaxAttempts) => r.attempts < MaxAttempts
      BY PolicyNat DEF RowInv, Row
    <3>2. r.age # CommandTTL => r.status = "running"
      BY <2>1 DEF ActiveStatus
    <3>. QED
      BY <3>1, <3>2, RequeuedMoves
  <2>. QED
    BY <1>2, <2>2, <2>3, <2>4 DEF Recovered
<1>. QED
  BY <1>1, <1>2

LEMMA FinishedMoves ==
  ASSUME NEW r, RowInv(r), r.status = "running", NEW verdict, NEW attempt, NEW stamp
  PROVE  Moves(r, Finished(r, verdict, attempt, stamp))
<1>1. Moves(r, Terminal(r, "cancelled", 0, stamp))
  BY TerminalMoves DEF TERMINAL, ActiveStatus
<1>2. ~r.cancel => /\ Moves(r, Terminal(r, "failed", 0, stamp))
                   /\ Moves(r, Terminal(r, "succeeded", attempt, stamp))
  BY TerminalMoves DEF TERMINAL, ActiveStatus
<1>3. ~r.cancel /\ r.attempts < MaxAttempts => Moves(r, [Requeued(r) EXCEPT !.backoff = Backoff])
  BY RequeuedMoves
<1>. QED
  BY <1>1, <1>2, <1>3 DEF Finished

LEMMA RelinquishedMoves ==
  ASSUME NEW r, RowInv(r), r.status = "running", NEW stamp
  PROVE  Moves(r, Relinquished(r, stamp))
<1>1. Moves(r, Terminal(r, "cancelled", 0, stamp))
  BY TerminalMoves DEF TERMINAL, ActiveStatus
<1>2. ~r.cancel => Moves(r, Terminal(r, "failed", 0, stamp))
  BY TerminalMoves DEF TERMINAL, ActiveStatus
<1>3. ~r.cancel /\ ~(r.attempts >= MaxAttempts) => Moves(r, Requeued(r))
  <2>1. ~(r.attempts >= MaxAttempts) => r.attempts < MaxAttempts
    BY PolicyNat DEF RowInv, Row
  <2>. QED
    BY <2>1, RequeuedMoves
<1>. QED
  BY <1>1, <1>2, <1>3 DEF Relinquished

LEMMA FieldMoves ==
  ASSUME NEW r, RowInv(r)
  PROVE  /\ Moves(r, Aged(r))
         /\ Moves(r, [r EXCEPT !.lease = Lease])
         /\ r.status = "running" => Moves(r, [r EXCEPT !.cancel = TRUE])
<1>1. r \in Row
  BY DEF RowInv
<1>. QED
  BY <1>1 DEF Moves, SameLife, Aged, Row, Retained

\* Marking a queued row as waiting for the budget is no move of its own.
LEMMA WaitingMoves ==
  ASSUME NEW r, NEW s, RowInv(s), Moves(r, s), NEW b
  PROVE  Moves(r, [s EXCEPT !.waiting = b])
<1>1. s \in Row
  BY DEF RowInv
<1>. QED
  BY <1>1 DEF Moves, SameLife, Row, Retained

\* Deleting the row a move made terminal is a move.
LEMMA PruneMoves ==
  ASSUME NEW rs, NEW j \in Jobs, NEW r, RowInv(r), Moves(r, rs[j])
  PROVE  Moves(r, Prune(rs)[j])
<1>1. CASE Prune(rs)[j] = rs[j]
  BY <1>1
<1>2. CASE rs[j].status \in TERMINAL /\ Prune(rs)[j] = Empty("pruned")
  <2>1. Retained(r)
    BY <1>2 DEF Moves, Retained, TERMINAL
  <2>2. Empty("pruned").status = "pruned" /\ Empty("pruned").attempts = 0
        /\ Empty("pruned").cancel = FALSE
    BY Zenon DEF Empty
  <2>3. Moves(r, Empty("pruned"))
    BY <2>1, <2>2 DEF Moves, Retained
  <2>. QED
    BY <1>2, <2>3
<1>. QED
  BY <1>1, <1>2 DEF Prune

LEMMA MaintainMoves ==
  ASSUME RowsOK(rows), NEW j \in Jobs
  PROVE  Moves(rows[j], Maintain(rows)[j])
<1>. DEFINE rec == [k \in Jobs |-> Recovered(rows[k], FinishStamp(rows))]
<1>1. Moves(rows[j], rec[j]) /\ RowInv(rows[j])
  BY RecoveredMoves DEF RowsOK
<1>2. Moves(rows[j], Prune(rec)[j])
  BY <1>1, PruneMoves
<1>. QED
  BY <1>2 DEF Maintain

LEMMA PutMoves ==
  ASSUME RowsOK(rows), NEW j \in Jobs, NEW r, Moves(rows[j], r),
         \/ rows' = [rows EXCEPT ![j] = r]
         \/ rows' = Prune([rows EXCEPT ![j] = r])
  PROVE  AllMove
<1>. DEFINE rs == [rows EXCEPT ![j] = r]
<1>1. \A k \in Jobs : RowInv(rows[k]) /\ Moves(rows[k], rs[k])
  BY MovesSelf DEF RowsOK
<1>2. \A k \in Jobs : Moves(rows[k], Prune(rs)[k])
  BY <1>1, PruneMoves
<1>. QED
  BY <1>1, <1>2 DEF AllMove

-----------------------------------------------------------------------------
(* The actions: all rows move, but the one admitted or claimed. *)

LEMMA RenewedMoves ==
  ASSUME IInv, NEW w \in Slots, rows' = Renewed(w)
  PROVE  AllMove
<1>1. RowsOK(rows) /\ ExecInv(exec[w])
  BY DEF IInv, ControlOK
<1>2. CASE HoldsLease(w)
  <2>1. PICK j \in Jobs : j = exec[w].job
    BY <1>1, <1>2 DEF HoldsLease, Owns, ExecInv
  <2>2. Moves(rows[j], [rows[j] EXCEPT !.lease = Lease])
    BY <1>1, FieldMoves DEF RowsOK
  <2>3. rows' = [rows EXCEPT ![j] = [rows[j] EXCEPT !.lease = Lease]]
    BY <1>2, <2>1 DEF Renewed
  <2>. QED
    BY <1>1, <2>2, <2>3, PutMoves
<1>3. CASE ~HoldsLease(w)
  BY <1>3, MovesSelf DEF Renewed, AllMove
<1>. QED
  BY <1>2, <1>3

LEMMA SettleMoves ==
  ASSUME IInv, NEW w \in Slots, Finish(w) \/ Relinquish(w) \/ SettleFails(w)
  PROVE  AllMove
<1>. DEFINE e == exec[w]
<1>1. RowsOK(rows) /\ ExecInv(e) /\ e.job \in Jobs
  BY DEF IInv, ControlOK, ExecInv, Finish, Relinquish, SettleFails
<1>2. PICK j \in Jobs : j = e.job
  BY <1>1
<1>3. RowInv(rows[j])
  BY <1>1 DEF RowsOK
<1>4. CASE Finish(w) /\ HoldsLease(w)
  <2>1. Moves(rows[j], Finished(rows[j], e.verdict, e.token, FinishStamp(rows)))
    BY <1>2, <1>3, <1>4, FinishedMoves DEF HoldsLease, Owns
  <2>2. rows' = Prune([rows EXCEPT ![j] =
                         Finished(rows[j], e.verdict, e.token, FinishStamp(rows))])
    BY <1>2, <1>4 DEF Finish
  <2>. QED
    BY <1>1, <2>1, <2>2, PutMoves
<1>5. CASE Relinquish(w) /\ Owns(w)
  <2>1. Moves(rows[j], Relinquished(rows[j], FinishStamp(rows)))
    BY <1>2, <1>3, <1>5, RelinquishedMoves DEF Owns
  <2>2. rows' = Prune([rows EXCEPT ![j] = Relinquished(rows[j], FinishStamp(rows))])
    BY <1>2, <1>5 DEF Relinquish
  <2>. QED
    BY <1>1, <2>1, <2>2, PutMoves
<1>6. CASE ~(Finish(w) /\ HoldsLease(w)) /\ ~(Relinquish(w) /\ Owns(w))
  BY <1>6, MovesSelf DEF Finish, Relinquish, SettleFails, AllMove
<1>. QED
  BY <1>4, <1>5, <1>6

LEMMA CancelMoves ==
  ASSUME IInv, NEW j \in Jobs, Cancel(j)
  PROVE  AllMove
<1>1. RowsOK(rows) /\ RowInv(rows[j])
  BY DEF IInv, RowsOK
<1>2. CASE rows[j].status = "queued"
  <2>1. Moves(rows[j], Terminal(rows[j], "cancelled", 0, FinishStamp(rows)))
    BY <1>1, <1>2, TerminalMoves DEF TERMINAL, ActiveStatus
  <2>2. rows' = Prune([rows EXCEPT ![j] = Terminal(rows[j], "cancelled", 0, FinishStamp(rows))])
    BY <1>2 DEF Cancel
  <2>. QED
    BY <1>1, <2>1, <2>2, PutMoves
<1>3. CASE rows[j].status = "running"
  <2>1. Moves(rows[j], [rows[j] EXCEPT !.cancel = TRUE])
    BY <1>1, <1>3, FieldMoves
  <2>2. rows' = Prune([rows EXCEPT ![j] = [rows[j] EXCEPT !.cancel = TRUE]])
    BY <1>3 DEF Cancel
  <2>. QED
    BY <1>1, <2>1, <2>2, PutMoves
<1>4. CASE rows[j].status \notin {"queued", "running"}
  <2>1. rows' = Prune(rows)
    BY <1>4 DEF Cancel
  <2>. QED
    BY <1>1, <2>1, MovesSelf, PruneMoves DEF AllMove, RowsOK
<1>. QED
  BY <1>2, <1>3, <1>4

\* Which rows a step admits or claims, if any.
LEMMA StepMoves ==
  ASSUME IInv, [Next]_vars
  PROVE  \/ AllMove
         \/ \E key \in Keys \cup {NoKey}, cmd \in Commands, j \in Jobs :
              /\ Submit(key, cmd)
              /\ rows'[j] = NewRow(key, cmd) /\ Admits(rows[j], rows'[j])
              /\ \A k \in Jobs \ {j} : rows'[k] = Maintain(rows)[k] /\ Moves(rows[k], rows'[k])
         \/ \E w \in Slots, j \in Jobs :
              /\ ClaimJob(w)
              /\ Maintain(rows)[j].status = "queued"
              /\ rows'[j] = Claimed(Maintain(rows)[j]) /\ Begins(rows[j], rows'[j])
              /\ \A k \in Jobs \ {j} : rows'[k] = Maintain(rows)[k] /\ Moves(rows[k], rows'[k])
<1>. DEFINE rs == Maintain(rows)
<1>1. /\ RowsOK(rows) /\ RowsOK(rs)
      /\ \A j \in Jobs : Moves(rows[j], rs[j]) /\ RowInv(rs[j]) /\ RowInv(rows[j])
  BY MaintainOK, MaintainMoves DEF IInv, RowsOK
<1>2. ASSUME rows' = rows PROVE AllMove
  BY <1>2, MovesSelf DEF AllMove
<1>3. ASSUME rows' = rs PROVE AllMove
  BY <1>1, <1>3 DEF AllMove
<1>4. ASSUME NEW key \in Keys \cup {NoKey}, NEW cmd \in Commands, Submit(key, cmd)
      PROVE  \E j \in Jobs :
               /\ rows'[j] = NewRow(key, cmd) /\ Admits(rows[j], rows'[j])
               /\ \A k \in Jobs \ {j} : rows'[k] = rs[k] /\ Moves(rows[k], rows'[k])
  <2>1. PICK j \in Jobs : rs[j].status = "absent" /\ rows' = [rs EXCEPT ![j] = NewRow(key, cmd)]
    BY <1>4 DEF Submit
  <2>2. rows[j].status = "absent"
    BY <1>1, <2>1 DEF Moves, SameLife, TERMINAL
  <2>3. rows'[j] = NewRow(key, cmd) /\ \A k \in Jobs \ {j} : rows'[k] = rs[k]
    BY <1>1, <2>1 DEF RowsOK
  <2>4. Admits(rows[j], NewRow(key, cmd))
    BY <2>2 DEF Admits, NewRow, Empty
  <2>. QED
    BY <1>1, <2>3, <2>4
<1>5. ASSUME NEW j \in Jobs, Cancel(j)
      PROVE  AllMove
  BY <1>5, CancelMoves
<1>6. ASSUME NEW w \in Slots, ClaimOverBudget(w)
      PROVE  AllMove
  BY <1>1, <1>6, WaitingMoves DEF ClaimOverBudget, AllMove
<1>7. ASSUME NEW w \in Slots, ClaimJob(w)
      PROVE  \E j \in Jobs :
               /\ rs[j].status = "queued"
               /\ rows'[j] = Claimed(rs[j]) /\ Begins(rows[j], rows'[j])
               /\ \A k \in Jobs \ {j} : rows'[k] = rs[k] /\ Moves(rows[k], rows'[k])
  <2>1. PICK j \in With(rs, {"queued"}) : rows' = [rs EXCEPT ![j] = Claimed(rs[j])]
    BY <1>7 DEF ClaimJob
  <2>2. j \in Jobs /\ rs[j].status = "queued" /\ rs[j] \in Row
    BY <1>1, <2>1 DEF With, RowInv
  <2>3. rows'[j] = Claimed(rs[j]) /\ \A k \in Jobs \ {j} : rows'[k] = rs[k]
    BY <1>1, <2>1, <2>2 DEF RowsOK
  <2>4. /\ Claimed(rs[j]).status = "running" /\ Claimed(rs[j]).attempts = rs[j].attempts + 1
        /\ Claimed(rs[j]).cancel = rs[j].cancel /\ Claimed(rs[j]).key = rs[j].key
        /\ Claimed(rs[j]).token = rs[j].attempts + 1
    BY <2>2, Zenon DEF Claimed, Row
  <2>5. /\ rows[j].status \in ActiveStatus /\ ~rows[j].cancel /\ rows[j].attempts < MaxAttempts
        /\ rs[j].attempts = rows[j].attempts /\ ~rs[j].cancel /\ rs[j].key = rows[j].key
    BY <1>1, <2>2 DEF Moves, SameLife, RowInv, ActiveStatus, TERMINAL, Retained
  <2>6. Begins(rows[j], Claimed(rs[j]))
    BY <2>4, <2>5 DEF Begins
  <2>. QED
    BY <1>1, <2>2, <2>3, <2>6
<1>8. ASSUME NEW w \in Slots, rows' = Renewed(w)
      PROVE  AllMove
  BY <1>8, RenewedMoves
<1>9. ASSUME NEW w \in Slots, Finish(w) \/ Relinquish(w) \/ SettleFails(w)
      PROVE  AllMove
  BY <1>9, SettleMoves
<1>10. CASE Tick
  BY <1>1, <1>10, FieldMoves DEF Tick, AllMove
<1>11. CASE UNCHANGED vars
  BY <1>2, <1>11 DEF vars
<1>12. ASSUME NEW w \in Slots, Worker(w)
       PROVE  AllMove \/ ClaimJob(w)
  <2>1. CASE ClaimNothing(w)
    BY <1>3, <2>1 DEF ClaimNothing
  <2>2. CASE Start(w) \/ HandlerEnds(w) \/ BeatFails(w) \/ Unwound(w)
    <3>1. rows' = rows
      BY <2>2 DEF Start, HandlerEnds, BeatFails, Unwound
    <3>. QED
      BY <1>2, <3>1
  <2>3. CASE Beat(w) \/ CleanupBeat(w)
    <3>1. rows' = Renewed(w)
      BY <2>3 DEF Beat, CleanupBeat
    <3>. QED
      BY <1>8, <3>1
  <2>. QED
    BY <1>6, <1>9, <1>12, <2>1, <2>2, <2>3 DEF Worker, Poll
<1>13. ASSUME NEW m \in Managers, Shutdown(m) \/ Exit(m) \/ Crash(m) \/ Restart(m)
       PROVE  AllMove
  <2>1. rows' = rows \/ rows' = rs
    BY <1>13 DEF Shutdown, Exit, Crash, Restart
  <2>. QED
    BY <1>2, <1>3, <2>1
<1>14. ASSUME NEW key \in Keys, NEW cmd \in Commands, SubmitAgain(key, cmd)
       PROVE  AllMove
  <2>1. rows' = rs
    BY <1>14 DEF SubmitAgain
  <2>. QED
    BY <1>3, <2>1
<1>. QED
  BY <1>4, <1>5, <1>7, <1>10, <1>11, <1>12, <1>13, <1>14 DEF Next

-----------------------------------------------------------------------------
(* The queue implements the lifecycle. *)

LEMMA InitRefines == Init => L!LifecycleInit
BY DEF Init, Empty, L!LifecycleInit

LEMMA MoveRefines ==
  ASSUME NEW j \in Jobs, RowInv(rows[j]),
         Moves(rows[j], rows'[j]) \/ Begins(rows[j], rows'[j]) \/ Admits(rows[j], rows'[j])
  PROVE  L!Move(j)
<1>1. rows[j] \in Row
  BY DEF RowInv
<1>2. CASE Admits(rows[j], rows'[j])
  BY <1>2 DEF Admits, L!Move, L!Admit
<1>3. CASE Begins(rows[j], rows'[j])
  BY <1>3 DEF Begins, ActiveStatus, L!Move, L!Begin
<1>4. CASE Moves(rows[j], rows'[j])
  <2>1. CASE SameLife(rows[j], rows'[j])
    BY <2>1 DEF SameLife, L!Move, L!Unmoved
  <2>2. CASE /\ rows[j].status = "running" /\ ~rows[j].cancel /\ rows[j].attempts < MaxAttempts
             /\ rows'[j].status = "queued" /\ rows'[j].attempts = rows[j].attempts
             /\ ~rows'[j].cancel
    BY <2>2 DEF L!Move, L!Requeue
  <2>3. CASE /\ rows[j].status = "running" /\ rows'[j].status = "running"
             /\ rows'[j].attempts = rows[j].attempts /\ rows'[j].cancel
    BY <2>3 DEF L!Move, L!AcceptCancel
  <2>4. CASE /\ rows[j].status \in ActiveStatus /\ rows'[j].status \in TERMINAL
             /\ rows[j].cancel => rows'[j].status = "cancelled"
             /\ rows'[j].status = "succeeded" => rows[j].status = "running"
             /\ rows'[j].attempts = rows[j].attempts /\ rows'[j].cancel = rows[j].cancel
    BY <2>4 DEF ActiveStatus, TERMINAL, L!Move, L!Settle, L!Settled
  <2>5. CASE /\ Retained(rows[j]) /\ rows'[j].status = "pruned"
             /\ rows'[j].attempts = 0 /\ ~rows'[j].cancel
    <3>1. rows[j].status \in ActiveStatus \cup TERMINAL
      BY <1>1, <2>5 DEF Row, Retained
    <3>. QED
      BY <2>5, <3>1 DEF ActiveStatus, TERMINAL, L!Move, L!Forget, L!Settled
  <2>. QED
    BY <1>4, <2>1, <2>2, <2>3, <2>4, <2>5 DEF Moves
<1>. QED
  BY <1>2, <1>3, <1>4

\* Whatever the number of managers, worker tasks and jobs, and whatever the
\* policy, each row follows the lifecycle a client of the queue relies on.
THEOREM Refinement == Spec => ImplementsLifecycle
<1>1. IInv /\ [Next]_vars => [L!LifecycleNext]_(L!jobVars)
  <2>. SUFFICES ASSUME IInv, [Next]_vars PROVE L!LifecycleNext
    OBVIOUS
  <2>1. \A j \in Jobs : RowInv(rows[j])
    BY DEF IInv, RowsOK
  <2>2. \A j \in Jobs : \/ Moves(rows[j], rows'[j]) \/ Begins(rows[j], rows'[j])
                        \/ Admits(rows[j], rows'[j])
    BY StepMoves DEF AllMove
  <2>3. \A j \in Jobs : L!Move(j)
    BY <2>1, <2>2, MoveRefines
  <2>. QED
    BY <2>3 DEF L!LifecycleNext
<1>. QED
  BY <1>1, Inductive, InitRefines, PTL DEF Spec, ImplementsLifecycle, L!Lifecycle

-----------------------------------------------------------------------------
(* The caps. *)

\* A cap survives a step that adds at most one member, and that only below it.
LEMMA CapKept ==
  ASSUME NEW S \in SUBSET Jobs, NEW T \in SUBSET Jobs, NEW B \in SUBSET Jobs,
         NEW cap \in Nat, Cardinality(S) <= cap,
         \/ T \subseteq S
         \/ \E j \in Jobs : T \subseteq B \cup {j} /\ Cardinality(B) < cap
  PROVE  Cardinality(T) <= cap
<1>1. /\ IsFiniteSet(S) /\ Cardinality(S) \in Nat
      /\ IsFiniteSet(B) /\ Cardinality(B) \in Nat
      /\ IsFiniteSet(T) /\ Cardinality(T) \in Nat
  BY JobsFinite
<1>2. CASE T \subseteq S
  <2>1. Cardinality(T) <= Cardinality(S)
    BY <1>1, <1>2, FS_Subset
  <2>. QED
    BY <1>1, <2>1
<1>3. ASSUME NEW j \in Jobs, T \subseteq B \cup {j}, Cardinality(B) < cap
      PROVE  Cardinality(T) <= cap
  <2>1. IsFiniteSet(B \cup {j}) /\ Cardinality(B \cup {j}) <= Cardinality(B) + 1
    <3>1. IsFiniteSet(B \cup {j})
          /\ Cardinality(B \cup {j}) = IF j \in B THEN Cardinality(B) ELSE Cardinality(B) + 1
      BY <1>1, FS_AddElement
    <3>. QED
      BY <1>1, <3>1
  <2>2. Cardinality(T) <= Cardinality(B \cup {j})
    BY <1>3, <2>1, FS_Subset
  <2>3. Cardinality(B \cup {j}) \in Nat
    BY <2>1, FS_CardinalityType
  <2>. QED
    BY <1>1, <1>3, <2>1, <2>2, <2>3
<1>. QED
  BY <1>2, <1>3

LEMMA MovesKeepCounts ==
  ASSUME NEW r, NEW s, Moves(r, s)
  PROVE  /\ s.status \in ActiveStatus => r.status \in ActiveStatus
         /\ s.status = "running" => r.status = "running"
BY DEF Moves, SameLife, ActiveStatus, TERMINAL

\* The active jobs of all the managers stay within max_active.
THEOREM ActiveStaysBounded == Spec => []ActiveBounded
<1>1. Init => ActiveBounded
  <2>. SUFFICES ASSUME Init PROVE ActiveBounded
    OBVIOUS
  <2>1. With(rows, ActiveStatus) = {}
    BY DEF Init, With, Empty, ActiveStatus
  <2>. QED
    BY <2>1, FS_EmptySet, PolicyNat DEF ActiveBounded
<1>2. IInv /\ ActiveBounded /\ [Next]_vars => ActiveBounded'
  <2>. SUFFICES ASSUME IInv, ActiveBounded, [Next]_vars PROVE ActiveBounded'
    OBVIOUS
  <2>. DEFINE A(rs) == With(rs, ActiveStatus)
  <2>1. A(rows) \in SUBSET Jobs /\ A(rows') \in SUBSET Jobs /\ A(Maintain(rows)) \in SUBSET Jobs
    BY DEF With
  <2>2. CASE \A j \in Jobs : \/ Moves(rows[j], rows'[j]) \/ Begins(rows[j], rows'[j])
    <3>1. A(rows') \subseteq A(rows)
      BY <2>2, MovesKeepCounts DEF With, Begins
    <3>. QED
      BY <2>1, <3>1, CapKept, PolicyNat DEF ActiveBounded
  <2>3. ASSUME NEW key \in Keys \cup {NoKey}, NEW cmd \in Commands, NEW j \in Jobs,
               Submit(key, cmd), \A k \in Jobs \ {j} : rows'[k] = Maintain(rows)[k]
        PROVE  ActiveBounded'
    <3>1. A(rows') \subseteq A(Maintain(rows)) \cup {j}
      BY <2>3 DEF With
    <3>2. Cardinality(A(Maintain(rows))) < MaxActive
      BY <2>3 DEF Submit
    <3>. QED
      BY <2>1, <3>1, <3>2, CapKept, PolicyNat DEF ActiveBounded
  <2>. QED
    BY <2>2, <2>3, StepMoves DEF AllMove
<1>. QED
  BY <1>1, <1>2, Inductive, PTL DEF Spec

\* The running permits of all the managers together stay within `workers`.
THEOREM PermitsStayBounded == Spec => []PermitsBounded
<1>1. Init => PermitsBounded
  <2>. SUFFICES ASSUME Init PROVE PermitsBounded
    OBVIOUS
  <2>1. With(rows, {"running"}) = {}
    BY DEF Init, With, Empty
  <2>. QED
    BY <2>1, FS_EmptySet, PolicyNat DEF PermitsBounded
<1>2. IInv /\ PermitsBounded /\ [Next]_vars => PermitsBounded'
  <2>. SUFFICES ASSUME IInv, PermitsBounded, [Next]_vars PROVE PermitsBounded'
    OBVIOUS
  <2>. DEFINE R(rs) == With(rs, {"running"})
  <2>1. R(rows) \in SUBSET Jobs /\ R(rows') \in SUBSET Jobs /\ R(Maintain(rows)) \in SUBSET Jobs
    BY DEF With
  <2>2. CASE \A j \in Jobs : \/ Moves(rows[j], rows'[j]) \/ Admits(rows[j], rows'[j])
    <3>1. R(rows') \subseteq R(rows)
      BY <2>2, MovesKeepCounts DEF With, Admits
    <3>. QED
      BY <2>1, <3>1, CapKept, PolicyNat DEF PermitsBounded
  <2>3. ASSUME NEW w \in Slots, NEW j \in Jobs,
               ClaimJob(w), \A k \in Jobs \ {j} : rows'[k] = Maintain(rows)[k]
        PROVE  PermitsBounded'
    <3>1. R(rows') \subseteq R(Maintain(rows)) \cup {j}
      BY <2>3 DEF With
    <3>2. Cardinality(R(Maintain(rows))) < Workers
      BY <2>3 DEF ClaimJob, PermitFree
    <3>. QED
      BY <2>1, <3>1, <3>2, CapKept, PolicyNat DEF PermitsBounded
  <2>. QED
    BY <2>2, <2>3, StepMoves DEF AllMove
<1>. QED
  BY <1>1, <1>2, Inductive, PTL DEF Spec

-----------------------------------------------------------------------------
\* One idempotency key never identifies two retained jobs.
THEOREM KeysIdentifyJobs == Spec => []KeyIdentifiesJob
<1>1. Init => KeyIdentifiesJob
  BY DEF Init, Empty, KeyIdentifiesJob, Retained
<1>2. IInv /\ KeyIdentifiesJob /\ [Next]_vars => KeyIdentifiesJob'
  <2>. SUFFICES ASSUME IInv, KeyIdentifiesJob, [Next]_vars PROVE KeyIdentifiesJob'
    OBVIOUS
  <2>1. CASE \A j \in Jobs : Retained(rows'[j]) => Retained(rows[j]) /\ rows'[j].key = rows[j].key
    BY <2>1 DEF KeyIdentifiesJob
  <2>2. ASSUME NEW key \in Keys \cup {NoKey}, NEW cmd \in Commands, NEW j \in Jobs,
               Submit(key, cmd), rows'[j] = NewRow(key, cmd),
               \A k \in Jobs \ {j} : rows'[k] = Maintain(rows)[k] /\ Moves(rows[k], rows'[k])
        PROVE  KeyIdentifiesJob'
    <3>1. rows'[j].key = key
      BY <2>2 DEF NewRow, Empty
    <3>2. \A k \in Jobs \ {j} :
            /\ Retained(rows'[k]) => Retained(rows[k]) /\ rows'[k].key = rows[k].key
            /\ key # NoKey /\ Retained(rows'[k]) => rows'[k].key # key
      BY <2>2 DEF Moves, Submit, KeyFree
    <3>. QED
      BY <3>1, <3>2 DEF KeyIdentifiesJob
  <2>3. ASSUME NEW j \in Jobs, Begins(rows[j], rows'[j]),
               \A k \in Jobs \ {j} : Moves(rows[k], rows'[k])
        PROVE  KeyIdentifiesJob'
    BY <2>1, <2>3 DEF Moves, Begins, Retained, ActiveStatus
  <2>4. AllMove => KeyIdentifiesJob'
    BY <2>1 DEF AllMove, Moves
  <2>. QED
    BY <2>2, <2>3, <2>4, StepMoves
<1>. QED
  BY <1>1, <1>2, Inductive, PTL DEF Spec

-----------------------------------------------------------------------------
(***************************************************************************)
(* A running permit is held until its handler is cleaned up, provided that *)
(* every owner renews or settles before its lease lapses (Timely).  Without*)
(* the proviso the run DurableJobsStall refutes it.                        *)
(***************************************************************************)
Executing == {"emit", "run", "cleanup"}

\* No two executions share a token of one job, no token is from the future, and
\* the ones that have not reached their settling transaction hold the lease.
TokensOK ==
  /\ \A w \in Slots : exec[w].phase # "idle" =>
       /\ rows[exec[w].job].status # "absent"
       /\ Retained(rows[exec[w].job]) => exec[w].token <= rows[exec[w].job].attempts
  /\ \A v, w \in Slots : (/\ v # w /\ exec[v].phase # "idle" /\ exec[w].phase # "idle"
                          /\ exec[v].job = exec[w].job) => exec[v].token # exec[w].token
LeasesOK == \A w \in Slots : exec[w].phase \in Executing => HoldsLease(w)
PermitInv == TokensOK /\ LeasesOK

\* A held lease, and what keeps it.
Held(r) == r.status = "running" /\ r.lease > 0
StaysHeld(r, s) == Held(r) => Held(s) /\ s.token = r.token

-----------------------------------------------------------------------------
LEMMA MaintainHeld ==
  ASSUME RowsOK(rows), NEW j \in Jobs, Held(rows[j])
  PROVE  Maintain(rows)[j] = rows[j]
<1>. DEFINE rec == [k \in Jobs |-> Recovered(rows[k], FinishStamp(rows))]
<1>1. rec[j] = rows[j]
  BY DEF Held, Lapsed, Recovered
<1>2. Prune(rec)[j] = rec[j]
  BY <1>1 DEF Prune, Held, TERMINAL
<1>. QED
  BY <1>1, <1>2 DEF Maintain

LEMMA PruneHeld ==
  ASSUME NEW rs, NEW j \in Jobs, Held(rs[j])
  PROVE  Prune(rs)[j] = rs[j]
BY DEF Prune, Held, TERMINAL

\* No step takes a claimed row back to before its attempts.
LEMMA AttemptsGrow ==
  ASSUME IInv, [Next]_vars, NEW j \in Jobs, rows[j].status # "absent"
  PROVE  /\ rows'[j].status # "absent"
         /\ Retained(rows'[j]) => Retained(rows[j]) /\ rows[j].attempts <= rows'[j].attempts
<1>1. rows[j].attempts \in Nat
  BY PolicyNat DEF IInv, RowsOK, Row
<1>2. Moves(rows[j], rows'[j]) \/ Begins(rows[j], rows'[j])
  BY StepMoves DEF AllMove, Admits
<1>3. CASE Begins(rows[j], rows'[j])
  BY <1>1, <1>3 DEF Begins, Retained, ActiveStatus
<1>4. CASE Moves(rows[j], rows'[j])
  BY <1>1, <1>4 DEF Moves, SameLife, Retained, ActiveStatus, TERMINAL
<1>. QED
  BY <1>2, <1>3, <1>4

\* A step that starts no execution keeps PermitInv if it keeps the held leases
\* of the executions it does not end.
LEMMA PermitKept ==
  ASSUME IInv, PermitInv, [Next]_vars,
         \A w \in Slots : exec'[w].phase # "idle" =>
           /\ exec[w].phase # "idle"
           /\ exec'[w].job = exec[w].job /\ exec'[w].token = exec[w].token
           /\ exec'[w].phase \in Executing =>
                /\ exec[w].phase \in Executing
                /\ StaysHeld(rows[exec[w].job], rows'[exec[w].job])
  PROVE  PermitInv'
<1>1. \A w \in Slots : exec[w].phase # "idle" => exec[w].job \in Jobs /\ exec[w].token \in Nat
  BY PolicyNat DEF IInv, ControlOK, ExecInv, Exec
<1>2. ASSUME NEW w \in Slots, exec'[w].phase # "idle"
      PROVE  /\ rows'[exec'[w].job].status # "absent"
             /\ Retained(rows'[exec'[w].job]) => exec'[w].token <= rows'[exec'[w].job].attempts
  <2>1. PICK j \in Jobs : j = exec[w].job /\ j = exec'[w].job
    BY <1>1, <1>2
  <2>2. rows[j].status # "absent" /\ (Retained(rows[j]) => exec[w].token <= rows[j].attempts)
    BY <1>2, <2>1 DEF PermitInv, TokensOK
  <2>3. rows[j].attempts \in Nat /\ rows'[j].attempts \in Nat
    BY StepInv, PolicyNat DEF IInv, RowsOK, Row
  <2>. QED
    BY <1>1, <1>2, <2>1, <2>2, <2>3, AttemptsGrow
<1>3. ASSUME NEW w \in Slots, exec'[w].phase \in Executing
      PROVE  HoldsLease(w)'
  <2>1. exec'[w].phase # "idle"
    BY <1>3 DEF Executing
  <2>2. HoldsLease(w)
    BY <1>3, <2>1 DEF PermitInv, LeasesOK
  <2>. QED
    BY <1>3, <2>1, <2>2 DEF HoldsLease, Owns, StaysHeld, Held
<1>4. TokensOK'
  BY <1>2 DEF PermitInv, TokensOK
<1>. QED
  BY <1>3, <1>4 DEF PermitInv, LeasesOK

\* The steps that touch no execution.
LEMMA PermitRows ==
  ASSUME IInv, PermitInv, [Next]_vars, UNCHANGED exec,
         \A j \in Jobs : StaysHeld(rows[j], rows'[j])
  PROVE  PermitInv'
<1>1. \A w \in Slots : exec[w].phase # "idle" => exec[w].job \in Jobs
  BY DEF IInv, ControlOK, ExecInv
<1>. QED
  BY <1>1, PermitKept

LEMMA PermitClaim ==
  ASSUME IInv, PermitInv, NEW w \in Slots, ClaimJob(w), [Next]_vars
  PROVE  PermitInv'
<1>. DEFINE rs == Maintain(rows)
<1>1. PICK j \in With(rs, {"queued"}) :
        /\ rows' = [rs EXCEPT ![j] = Claimed(rs[j])]
        /\ exec' = [exec EXCEPT ![w] = [Idle EXCEPT !.phase = "emit", !.job = j,
                                                    !.token = rs[j].attempts + 1]]
  BY DEF ClaimJob
<1>2. /\ RowsOK(rs) /\ j \in Jobs /\ rs[j].status = "queued" /\ rs[j] \in Row
      /\ rs[j].attempts \in Nat /\ Moves(rows[j], rs[j])
  BY <1>1, MaintainOK, MaintainMoves, PolicyNat DEF With, IInv, RowsOK, Row
<1>3. /\ exec[w].phase = "idle" /\ exec'[w].phase = "emit" /\ exec'[w].job = j
      /\ exec'[w].token = rs[j].attempts + 1
      /\ \A v \in Slots \ {w} : exec'[v] = exec[v]
  BY <1>1 DEF IInv, ControlOK, ClaimJob, CanClaim, Idle
<1>4. /\ rows'[j].status = "running" /\ rows'[j].attempts = rs[j].attempts + 1
      /\ rows'[j].token = rs[j].attempts + 1 /\ rows'[j].lease = Lease
      /\ \A k \in Jobs \ {j} : rows'[k] = rs[k]
  <2>1. /\ Claimed(rs[j]).status = "running" /\ Claimed(rs[j]).lease = Lease
        /\ Claimed(rs[j]).attempts = rs[j].attempts + 1
        /\ Claimed(rs[j]).token = rs[j].attempts + 1
    BY <1>2, Zenon DEF Claimed, Row
  <2>. QED
    BY <1>1, <1>2, <2>1 DEF RowsOK
<1>5. Retained(rows[j]) /\ rows[j].attempts = rs[j].attempts
  BY <1>2 DEF Moves, SameLife, Retained, TERMINAL
<1>6. ASSUME NEW v \in Slots \ {w}, exec[v].phase # "idle"
      PROVE  /\ exec[v].job \in Jobs /\ exec[v].token \in Nat
             /\ rows[exec[v].job].status # "absent"
             /\ Retained(rows[exec[v].job]) => exec[v].token <= rows[exec[v].job].attempts
             /\ exec[v].job = j => exec[v].token <= rs[j].attempts
  BY <1>5, <1>6, PolicyNat DEF IInv, ControlOK, ExecInv, Exec, PermitInv, TokensOK
<1>7. ASSUME NEW v \in Slots, exec'[v].phase # "idle"
      PROVE  /\ rows'[exec'[v].job].status # "absent"
             /\ Retained(rows'[exec'[v].job]) => exec'[v].token <= rows'[exec'[v].job].attempts
  <2>1. CASE v = w
    BY <1>2, <1>3, <1>4, <2>1
  <2>2. CASE v # w
    <3>1. PICK k \in Jobs : k = exec[v].job
      BY <1>3, <1>6, <1>7, <2>2
    <3>2. /\ exec'[v] = exec[v] /\ exec[v].token \in Nat /\ rows[k].status # "absent"
          /\ Retained(rows[k]) => exec[v].token <= rows[k].attempts
      BY <1>3, <1>6, <1>7, <2>2, <3>1
    <3>3. rows[k].attempts \in Nat /\ rows'[k].attempts \in Nat
      BY StepInv, PolicyNat DEF IInv, RowsOK, Row
    <3>. QED
      BY <3>1, <3>2, <3>3, AttemptsGrow
  <2>. QED
    BY <2>1, <2>2
<1>8. ASSUME NEW u \in Slots, NEW v \in Slots, u # v, exec'[u].phase # "idle",
             exec'[v].phase # "idle", exec'[u].job = exec'[v].job
      PROVE  exec'[u].token # exec'[v].token
  BY <1>2, <1>3, <1>6, <1>8 DEF PermitInv, TokensOK
<1>9. ASSUME NEW v \in Slots, exec'[v].phase \in Executing
      PROVE  HoldsLease(v)'
  <2>1. CASE v = w
    BY <1>3, <1>4, <2>1, PolicyNat DEF HoldsLease, Owns
  <2>2. CASE v # w
    <3>1. exec'[v] = exec[v] /\ exec[v].phase # "idle" /\ HoldsLease(v)
      BY <1>3, <1>9, <2>2 DEF PermitInv, LeasesOK, Executing
    <3>2. PICK k \in Jobs : k = exec[v].job
      BY <1>6, <2>2, <3>1
    <3>3. Held(rows[k])
      BY <3>1, <3>2 DEF HoldsLease, Owns, Held
    <3>4. rs[k] = rows[k]
      BY <3>3, MaintainHeld DEF IInv
    <3>5. k # j
      BY <1>2, <3>3, <3>4 DEF Held
    <3>6. rows'[k] = rows[k]
      BY <1>4, <3>4, <3>5
    <3>. QED
      BY <3>1, <3>2, <3>6 DEF HoldsLease, Owns
  <2>. QED
    BY <2>1, <2>2
<1>. QED
  BY <1>7, <1>8, <1>9 DEF PermitInv, TokensOK, LeasesOK

\* The row of another execution is not the one this token owns.
LEMMA OthersDoNotOwn ==
  ASSUME IInv, PermitInv, NEW v \in Slots, NEW w \in Slots, v # w,
         exec[v].phase \in Executing, exec[w].phase # "idle", exec[v].job = exec[w].job
  PROVE  ~Owns(w)
<1>1. exec[v].phase # "idle" /\ exec[v].token # exec[w].token
  BY DEF PermitInv, TokensOK, Executing
<1>2. rows[exec[w].job].token = exec[v].token
  BY DEF PermitInv, LeasesOK, HoldsLease, Owns
<1>. QED
  BY <1>1, <1>2 DEF Owns

LEMMA PermitSettle ==
  ASSUME IInv, PermitInv, NEW w \in Slots, Finish(w) \/ Relinquish(w) \/ SettleFails(w),
         [Next]_vars
  PROVE  PermitInv'
<1>. DEFINE e == exec[w]
<1>1. /\ RowsOK(rows) /\ e \in Exec /\ e.phase = "settle" /\ e.job \in Jobs
      /\ \A v \in Slots : exec[v].phase # "idle" => exec[v].job \in Jobs
  BY DEF IInv, ControlOK, ExecInv, Finish, Relinquish, SettleFails
<1>2. PICK f : exec' = [exec EXCEPT ![w] = f]
               /\ \/ f = Idle \/ f = [e EXCEPT !.verdict = "relinquish"]
                  \/ f = [e EXCEPT !.verdict = "error"]
  BY DEF Finish, Relinquish, SettleFails, AfterSettle
<1>3. /\ exec'[w] = f /\ \A v \in Slots \ {w} : exec'[v] = exec[v]
      /\ f.phase # "idle" => f.phase = "settle" /\ f.job = e.job /\ f.token = e.token
  BY <1>1, <1>2 DEF IInv, ControlOK, Idle, Exec
<1>4. ASSUME NEW v \in Slots \ {w}, exec[v].phase \in Executing
      PROVE  StaysHeld(rows[exec[v].job], rows'[exec[v].job])
  <2>1. PICK k \in Jobs : k = exec[v].job
    BY <1>1, <1>4 DEF Executing
  <2>2. Held(rows[k])
    BY <1>4, <2>1 DEF PermitInv, LeasesOK, HoldsLease, Owns, Held
  <2>3. k = e.job => ~Owns(w)
    BY <1>1, <1>4, <2>1, OthersDoNotOwn
  <2>4. CASE Finish(w) /\ HoldsLease(w)
    <3>. DEFINE r == Finished(rows[e.job], e.verdict, e.token, FinishStamp(rows))
    <3>1. rows' = Prune([rows EXCEPT ![e.job] = r]) /\ k # e.job
      BY <2>3, <2>4 DEF Finish, HoldsLease
    <3>2. [rows EXCEPT ![e.job] = r][k] = rows[k]
      BY <1>1, <3>1 DEF RowsOK
    <3>3. rows'[k] = rows[k]
      BY <2>2, <3>1, <3>2, PruneHeld
    <3>. QED
      BY <2>1, <2>2, <3>3 DEF StaysHeld
  <2>5. CASE Relinquish(w) /\ Owns(w)
    <3>. DEFINE r == Relinquished(rows[e.job], FinishStamp(rows))
    <3>1. rows' = Prune([rows EXCEPT ![e.job] = r]) /\ k # e.job
      BY <2>3, <2>5 DEF Relinquish
    <3>2. [rows EXCEPT ![e.job] = r][k] = rows[k]
      BY <1>1, <3>1 DEF RowsOK
    <3>3. rows'[k] = rows[k]
      BY <2>2, <3>1, <3>2, PruneHeld
    <3>. QED
      BY <2>1, <2>2, <3>3 DEF StaysHeld
  <2>6. CASE ~(Finish(w) /\ HoldsLease(w)) /\ ~(Relinquish(w) /\ Owns(w))
    BY <2>1, <2>2, <2>6 DEF Finish, Relinquish, SettleFails, StaysHeld
  <2>. QED
    BY <2>4, <2>5, <2>6
<1>5. ASSUME NEW v \in Slots, exec'[v].phase # "idle"
      PROVE  /\ exec[v].phase # "idle"
             /\ exec'[v].job = exec[v].job /\ exec'[v].token = exec[v].token
             /\ exec'[v].phase \in Executing =>
                  /\ exec[v].phase \in Executing
                  /\ StaysHeld(rows[exec[v].job], rows'[exec[v].job])
  <2>1. CASE v = w
    BY <1>1, <1>3, <1>5, <2>1 DEF Executing
  <2>2. CASE v # w
    BY <1>3, <1>4, <1>5, <2>2
  <2>. QED
    BY <2>1, <2>2
<1>. QED
  BY <1>5, PermitKept

LEMMA RenewedHeld ==
  ASSUME IInv, NEW w \in Slots, NEW j \in Jobs
  PROVE  StaysHeld(rows[j], Renewed(w)[j])
<1>1. rows[j] \in Row /\ rows \in [Jobs -> Row]
  BY DEF IInv, RowsOK
<1>2. Renewed(w)[j] = rows[j] \/ Renewed(w)[j] = [rows[j] EXCEPT !.lease = Lease]
  BY <1>1 DEF Renewed
<1>. QED
  BY <1>1, <1>2, PolicyNat DEF StaysHeld, Held, Row

\* Where the execution of a decided, interrupted or started task goes.
LEMMA DecideKeeps ==
  ASSUME NEW e \in Exec, NEW verdict
  PROVE  /\ Decide(e, verdict).phase # "idle" => /\ Decide(e, verdict).job = e.job
                                                  /\ Decide(e, verdict).token = e.token
         /\ Decide(e, verdict).phase \in {"idle", "cleanup", "settle"}
BY DEF Decide, Idle, Exec

LEMMA PermitExecute ==
  ASSUME IInv, PermitInv, NEW w \in Slots, [Next]_vars,
         Start(w) \/ HandlerEnds(w) \/ Beat(w) \/ BeatFails(w) \/ CleanupBeat(w) \/ Unwound(w)
  PROVE  PermitInv'
<1>. DEFINE e == exec[w]
<1>1. /\ e \in Exec /\ e.phase \in Executing
      /\ exec \in [Slots -> Exec]
      /\ \A v \in Slots : exec[v].phase # "idle" => exec[v].job \in Jobs
  BY DEF IInv, ControlOK, ExecInv, Executing, Start, HandlerEnds, Beat, BeatFails, CleanupBeat,
         Unwound
<1>2. \A j \in Jobs : StaysHeld(rows[j], rows'[j])
  <2>1. rows' = rows \/ rows' = Renewed(w)
    BY DEF Start, HandlerEnds, Beat, BeatFails, CleanupBeat, Unwound
  <2>. QED
    BY <2>1, RenewedHeld DEF StaysHeld
<1>3. \A v \in Slots \ {w} : exec'[v] = exec[v]
  BY <1>1 DEF Start, HandlerEnds, Beat, BeatFails, CleanupBeat, Unwound
<1>4. exec'[w].phase # "idle" => exec'[w].job = e.job /\ exec'[w].token = e.token
  <2>1. CASE Start(w) \/ HandlerEnds(w)
    BY <1>1, <2>1 DEF Start, HandlerEnds, Exec
  <2>2. CASE Beat(w) \/ BeatFails(w) \/ CleanupBeat(w)
    <3>1. PICK verdict : exec'[w] = e \/ exec'[w] = Decide(e, verdict)
      BY <1>1, <2>2 DEF Beat, BeatFails, CleanupBeat
    <3>. QED
      BY <1>1, <3>1, DecideKeeps
  <2>3. CASE Unwound(w)
    <3>1. PICK f : f = [e EXCEPT !.task = "none"]
      OBVIOUS
    <3>2. f \in Exec
      BY <1>1, <3>1, Zenon DEF Exec
    <3>3. f.job = e.job /\ f.token = e.token
      BY <1>1, <3>1 DEF Exec
    <3>4. exec'[w] = Decide(f, e.verdict)
      BY <1>1, <2>3, <3>1 DEF Unwound, Exec
    <3>. QED
      BY <3>2, <3>3, <3>4, DecideKeeps
  <2>. QED
    BY <2>1, <2>2, <2>3
<1>5. ASSUME NEW v \in Slots, exec'[v].phase # "idle"
      PROVE  /\ exec[v].phase # "idle"
             /\ exec'[v].job = exec[v].job /\ exec'[v].token = exec[v].token
             /\ exec'[v].phase \in Executing =>
                  /\ exec[v].phase \in Executing
                  /\ StaysHeld(rows[exec[v].job], rows'[exec[v].job])
  <2>1. CASE v = w
    BY <1>1, <1>2, <1>4, <1>5, <2>1 DEF Executing
  <2>2. CASE v # w
    BY <1>1, <1>2, <1>3, <1>5, <2>2
  <2>. QED
    BY <2>1, <2>2
<1>. QED
  BY <1>5, PermitKept

LEMMA PermitManager ==
  ASSUME IInv, PermitInv, NEW m \in Managers, [Next]_vars,
         Shutdown(m) \/ Exit(m) \/ Crash(m) \/ Restart(m)
  PROVE  PermitInv'
<1>1. \A w \in Slots : exec[w] \in Exec /\ (exec[w].phase # "idle" => exec[w].job \in Jobs)
  BY DEF IInv, ControlOK, ExecInv
<1>2. \A j \in Jobs : StaysHeld(rows[j], rows'[j])
  BY MaintainHeld DEF Shutdown, Exit, Crash, Restart, StaysHeld, IInv
<1>3. ASSUME NEW w \in Slots
      PROVE  LET f == Interrupted(exec[w]) IN
               f.phase # "idle" => /\ exec[w].phase # "idle"
                                   /\ f.job = exec[w].job /\ f.token = exec[w].token
                                   /\ f.phase \in Executing => exec[w].phase \in Executing
  <2>1. CASE exec[w].phase = "run"
    BY <1>1, <2>1, DecideKeeps DEF Interrupted, Executing
  <2>2. CASE exec[w].phase = "cleanup"
    <3>1. PICK v : Interrupted(exec[w]) = [exec[w] EXCEPT !.verdict = v]
      BY <2>2 DEF Interrupted
    <3>. QED
      BY <1>1, <2>2, <3>1 DEF Executing, Exec
  <2>3. CASE exec[w].phase \in {"idle", "emit", "settle"}
    BY <2>3 DEF Interrupted, Idle, Executing
  <2>. QED
    BY <1>1, <2>1, <2>2, <2>3 DEF Exec
<1>4. ASSUME NEW w \in Slots
      PROVE  exec'[w] \in {exec[w], Idle, Interrupted(exec[w])}
  BY DEF Shutdown, Exit, Crash, Restart
<1>5. ASSUME NEW v \in Slots, exec'[v].phase # "idle"
      PROVE  /\ exec[v].phase # "idle"
             /\ exec'[v].job = exec[v].job /\ exec'[v].token = exec[v].token
             /\ exec'[v].phase \in Executing =>
                  /\ exec[v].phase \in Executing
                  /\ StaysHeld(rows[exec[v].job], rows'[exec[v].job])
  <2>1. CASE exec'[v] = exec[v]
    BY <1>1, <1>2, <1>5, <2>1
  <2>2. CASE exec'[v] = Idle
    BY <1>5, <2>2 DEF Idle
  <2>3. CASE exec'[v] = Interrupted(exec[v])
    BY <1>1, <1>2, <1>3, <1>5, <2>3
  <2>. QED
    BY <1>4, <2>1, <2>2, <2>3
<1>. QED
  BY <1>5, PermitKept

LEMMA PermitTick ==
  ASSUME IInv, PermitInv, Tick, Timely, [Next]_vars
  PROVE  PermitInv'
<1>1. ASSUME NEW w \in Slots, exec[w].phase \in Executing
      PROVE  StaysHeld(rows[exec[w].job], rows'[exec[w].job])
  <2>1. PICK j \in Jobs : j = exec[w].job
    BY <1>1 DEF IInv, ControlOK, ExecInv, Executing
  <2>2. rows[j].lease > 1 /\ rows[j].lease \in Nat /\ rows[j] \in Row
    BY <1>1, <2>1, PolicyNat DEF Tick, PermitInv, LeasesOK, IInv, RowsOK, Row
  <2>3. rows'[j].status = rows[j].status /\ rows'[j].token = rows[j].token
        /\ rows'[j].lease = Down(rows[j].lease)
    BY <2>2 DEF Tick, Aged, Row
  <2>. QED
    BY <2>1, <2>2, <2>3 DEF StaysHeld, Held, Down
<1>2. \A w \in Slots : exec'[w] = exec[w]
  BY DEF Tick
<1>3. \A w \in Slots : exec'[w].phase # "idle" =>
           /\ exec[w].phase # "idle"
           /\ exec'[w].job = exec[w].job /\ exec'[w].token = exec[w].token
           /\ exec'[w].phase \in Executing =>
                /\ exec[w].phase \in Executing
                /\ StaysHeld(rows[exec[w].job], rows'[exec[w].job])
  BY <1>1, <1>2
<1>. QED
  BY <1>3, PermitKept

LEMMA PermitClient ==
  ASSUME IInv, PermitInv, [Next]_vars,
         \/ \E key \in Keys \cup {NoKey}, cmd \in Commands : Submit(key, cmd)
         \/ \E key \in Keys, cmd \in Commands : SubmitAgain(key, cmd)
         \/ \E j \in Jobs : Cancel(j)
         \/ \E w \in Slots : ClaimNothing(w) \/ ClaimOverBudget(w)
  PROVE  PermitInv'
<1>. DEFINE rs == Maintain(rows)
<1>1. UNCHANGED exec
  BY DEF Submit, SubmitAgain, Cancel, ClaimNothing, ClaimOverBudget
<1>2. /\ RowsOK(rows) /\ RowsOK(rs)
      /\ \A j \in Jobs : Held(rows[j]) => rs[j] = rows[j]
  BY MaintainOK, MaintainHeld DEF IInv
<1>3. ASSUME NEW j \in Jobs
      PROVE  StaysHeld(rows[j], rows'[j])
  <2>1. ASSUME NEW key \in Keys \cup {NoKey}, NEW cmd \in Commands, Submit(key, cmd)
        PROVE  StaysHeld(rows[j], rows'[j])
    <3>1. PICK k \in Jobs : /\ rs[k].status = "absent"
                            /\ rows' = [rs EXCEPT ![k] = NewRow(key, cmd)]
      BY <2>1 DEF Submit
    <3>. QED
      BY <1>2, <3>1 DEF StaysHeld, Held, RowsOK
  <2>2. CASE rows' = rs
    BY <1>2, <2>2 DEF StaysHeld
  <2>3. ASSUME NEW w \in Slots, ClaimOverBudget(w)
        PROVE  StaysHeld(rows[j], rows'[j])
    <3>1. rs[j] \in Row
      BY <1>2 DEF RowsOK
    <3>2. PICK b : rows'[j] = [rs[j] EXCEPT !.waiting = b]
      BY <2>3 DEF ClaimOverBudget
    <3>. QED
      BY <1>2, <3>1, <3>2 DEF StaysHeld, Held, Row
  <2>4. ASSUME NEW k \in Jobs, Cancel(k)
        PROVE  StaysHeld(rows[j], rows'[j])
    <3>1. PICK t : /\ rows' = Prune(t)
                   /\ \/ t = rows
                      \/ rows[k].status = "queued" /\ \E r : t = [rows EXCEPT ![k] = r]
                      \/ t = [rows EXCEPT ![k] = [rows[k] EXCEPT !.cancel = TRUE]]
      BY <2>4 DEF Cancel
    <3>2. rows[j] \in Row
      BY <1>2 DEF RowsOK
    <3>3. Held(rows[j]) => Held(t[j]) /\ t[j].token = rows[j].token
      BY <1>2, <3>1, <3>2 DEF Held, RowsOK, Row
    <3>. QED
      BY <3>1, <3>3, PruneHeld DEF StaysHeld
  <2>5. (\E w \in Slots : ClaimNothing(w)) => rows' = rs
    BY DEF ClaimNothing
  <2>6. (\E key \in Keys, cmd \in Commands : SubmitAgain(key, cmd)) => rows' = rs
    BY DEF SubmitAgain
  <2>. QED
    BY <2>1, <2>2, <2>3, <2>4, <2>5, <2>6
<1>. QED
  BY <1>1, <1>3, PermitRows

-----------------------------------------------------------------------------
\* "a running permit stays held until cleanup ends", in every deployment whose
\* owners renew or settle before their leases lapse.
THEOREM PermitStaysHeld ==
  ASSUME Timely
  PROVE  Spec => []PermitHeldUntilCleanupEnds
<1>1. Init => PermitInv
  BY DEF Init, Idle, PermitInv, TokensOK, LeasesOK, Executing
<1>2. IInv /\ PermitInv /\ [Next]_vars => PermitInv'
  <2>. SUFFICES ASSUME IInv, PermitInv, [Next]_vars PROVE PermitInv'
    OBVIOUS
  <2>1. CASE UNCHANGED vars
    BY <2>1, PermitRows DEF vars, StaysHeld
  <2>2. CASE Next
    <3>1. ASSUME NEW w \in Slots, Worker(w) PROVE PermitInv'
      BY <3>1, PermitClaim, PermitClient, PermitExecute, PermitSettle DEF Worker, Poll
    <3>. QED
      BY <2>2, <3>1, PermitClient, PermitManager, PermitTick DEF Next
  <2>. QED
    BY <2>1, <2>2
<1>3. IInv /\ PermitInv => PermitHeldUntilCleanupEnds
  BY DEF IInv, ControlOK, ExecInv, PermitInv, LeasesOK, HoldsLease, Executing,
         PermitHeldUntilCleanupEnds
<1>. QED
  BY <1>1, <1>2, <1>3, Inductive, PTL DEF Spec

-----------------------------------------------------------------------------
(***************************************************************************)
(* The history.  A transaction ends some active rows, all with the stamp   *)
(* of that transaction, later than any before (Transaction), and prunes;   *)
(* whatever else it does leaves the ended rows alone (Alike).  _prune      *)
(* orders the ended rows by their stamps and then by their numbers.        *)
(***************************************************************************)
Over == TERMINAL \cup {"pruned"}

HistoryOK(rs) ==
  /\ Cardinality(With(rs, TERMINAL)) <= HistoryLimit
  /\ \A j \in With(rs, TERMINAL) : rs[j].finished <= Cardinality(With(rs, Over))

Alike(r, s) ==
  r.status \in Over \/ s.status \in Over => s.status = r.status /\ s.finished = r.finished

Ends(r, s, stamp) ==
  r.status \in ActiveStatus /\ s.status \in TERMINAL /\ s.finished = stamp

Turns(r, s, stamp) == Alike(r, s) \/ Ends(r, s, stamp)

Quiet == \A j \in Jobs : Alike(rows[j], rows'[j])

Transaction(ts) ==
  /\ RowsOK(ts)
  /\ \A j \in Jobs : Turns(rows[j], ts[j], FinishStamp(rows))
  /\ \A j \in Jobs : Alike(Prune(ts)[j], rows'[j])

Older(rs, i, j) == \/ rs[i].finished < rs[j].finished
                   \/ rs[i].finished = rs[j].finished /\ i < j

LEMMA LeastOf ==
  ASSUME NEW S \in SUBSET Nat, S # {}
  PROVE  \E m \in S : \A n \in S : m <= n
<1>. DEFINE R == {ss \in Nat \X Nat : ss[1] < ss[2]}
<1>1. IsWellFoundedOn(R, Nat)
  BY NatLessThanWellFounded DEF OpToRel
<1>2. PICK m \in S : \A n \in S : <<n, m>> \notin R
  <2>. HIDE DEF R
  <2>. QED
    BY <1>1, WFMin
<1>3. ASSUME NEW n \in S PROVE m <= n
  <2>1. <<n, m>> \notin R
    BY <1>2
  <2>2. ~(n < m)
    BY <2>1
  <2>. QED
    BY <2>2
<1>. QED
  BY <1>3

LEMMA NewerSet ==
  ASSUME NEW rs, NEW j
  PROVE  /\ NewerThan(rs, j) = {k \in With(rs, TERMINAL) : Older(rs, j, k)}
         /\ NewerThan(rs, j) \in SUBSET Jobs
         /\ With(rs, TERMINAL) \in SUBSET Jobs /\ With(rs, Over) \in SUBSET Jobs
BY DEF NewerThan, With, Older

\* The order in which rows are forgotten is a strict total order.
LEMMA OlderOrder ==
  ASSUME NEW rs, RowsOK(rs), NEW i \in Jobs, NEW j \in Jobs
  PROVE  /\ i # j => Older(rs, i, j) \/ Older(rs, j, i)
         /\ ~(Older(rs, i, j) /\ Older(rs, j, i)) /\ ~Older(rs, i, i)
         /\ \A k \in Jobs : Older(rs, i, j) /\ Older(rs, j, k) => Older(rs, i, k)
<1>1. \A k \in Jobs : rs[k].finished \in Nat /\ k \in Nat
  BY PolicyNat DEF RowsOK, RowInv, Row, Jobs
<1>. QED
  BY <1>1 DEF Older

LEMMA OldestOne ==
  ASSUME NEW rs, RowsOK(rs), NEW S \in SUBSET Jobs, S # {}
  PROVE  \E m \in S : \A k \in S \ {m} : Older(rs, m, k)
<1>1. \A k \in Jobs : rs[k].finished \in Nat /\ k \in Nat
  BY PolicyNat DEF RowsOK, RowInv, Row, Jobs
<1>. DEFINE F == {rs[k].finished : k \in S}
<1>2. PICK f \in F : \A g \in F : f <= g
  <2>1. F \in SUBSET Nat /\ F # {}
    BY <1>1
  <2>. HIDE DEF F
  <2>. QED
    BY <2>1, LeastOf
<1>. DEFINE T == {k \in S : rs[k].finished = f}
<1>3. PICK m \in T : \A n \in T : m <= n
  <2>1. T \in SUBSET Nat /\ T # {}
    BY <1>1
  <2>. HIDE DEF T
  <2>. QED
    BY <2>1, LeastOf
<1>4. ASSUME NEW k \in S \ {m} PROVE Older(rs, m, k)
  <2>1. rs[m].finished = f /\ f <= rs[k].finished
    BY <1>2
  <2>2. rs[k].finished = f => m <= k
    BY <1>3
  <2>. QED
    BY <1>1, <2>1, <2>2 DEF Older
<1>. QED
  BY <1>3, <1>4

\* What is not among the newest HistoryLimit goes: at most HistoryLimit stay.
LEMMA FewStay ==
  ASSUME NEW rs, RowsOK(rs), NEW K \in SUBSET With(rs, TERMINAL),
         \A j \in K : Cardinality(NewerThan(rs, j)) < HistoryLimit
  PROVE  Cardinality(K) <= HistoryLimit
<1>1. K \in SUBSET Jobs
  BY DEF With
<1>2. IsFiniteSet(K) /\ Cardinality(K) \in Nat /\ HistoryLimit \in Nat
  BY <1>1, JobsFinite, PolicyNat
<1>3. CASE K = {}
  BY <1>2, <1>3, FS_EmptySet
<1>4. CASE K # {}
  <2>1. PICK m \in K : \A k \in K \ {m} : Older(rs, m, k)
    BY <1>1, <1>4, OldestOne
  <2>2. K \ {m} \subseteq NewerThan(rs, m)
    BY <2>1, NewerSet
  <2>3. IsFiniteSet(NewerThan(rs, m)) /\ Cardinality(NewerThan(rs, m)) \in Nat
    BY NewerSet, JobsFinite
  <2>4. Cardinality(K \ {m}) <= Cardinality(NewerThan(rs, m))
    BY <2>2, <2>3, FS_Subset
  <2>5. Cardinality(K \ {m}) = Cardinality(K) - 1
    BY <1>2, FS_RemoveElement
  <2>6. Cardinality(NewerThan(rs, m)) < HistoryLimit
    OBVIOUS
  <2>. QED
    BY <1>2, <2>3, <2>4, <2>5, <2>6
<1>. QED
  BY <1>3, <1>4

\* A row that stays is newer than a row that goes.
LEMMA OldestGo ==
  ASSUME NEW rs, RowsOK(rs), NEW i \in Jobs, NEW j \in Jobs,
         rs[i].status \in TERMINAL, rs[j].status \in TERMINAL,
         Cardinality(NewerThan(rs, i)) >= HistoryLimit,
         ~(Cardinality(NewerThan(rs, j)) >= HistoryLimit)
  PROVE  rs[i].finished <= rs[j].finished
<1>1. /\ IsFiniteSet(NewerThan(rs, i)) /\ Cardinality(NewerThan(rs, i)) \in Nat
      /\ IsFiniteSet(NewerThan(rs, j)) /\ Cardinality(NewerThan(rs, j)) \in Nat
      /\ HistoryLimit \in Nat
  BY NewerSet, JobsFinite, PolicyNat
<1>2. i # j
  OBVIOUS
<1>3. ASSUME Older(rs, j, i) PROVE FALSE
  <2>1. NewerThan(rs, i) \subseteq NewerThan(rs, j)
    <3>1. ASSUME NEW k \in NewerThan(rs, i) PROVE k \in NewerThan(rs, j)
      <4>1. k \in With(rs, TERMINAL) /\ k \in Jobs /\ Older(rs, i, k)
        BY NewerSet
      <4>2. Older(rs, j, k)
        BY <1>3, <4>1, OlderOrder
      <4>. QED
        BY <4>1, <4>2, NewerSet
    <3>. QED
      BY <3>1
  <2>2. Cardinality(NewerThan(rs, i)) <= Cardinality(NewerThan(rs, j))
    BY <1>1, <2>1, FS_Subset
  <2>. QED
    BY <1>1, <2>2
<1>4. Older(rs, i, j)
  BY <1>2, <1>3, OlderOrder
<1>5. rs[i].finished \in Nat /\ rs[j].finished \in Nat
  BY DEF RowsOK, RowInv, Row
<1>. QED
  BY <1>4, <1>5 DEF Older

\* What the property asks of a step.
ForgetsOldest ==
  /\ Cardinality(With(rows', TERMINAL)) <= HistoryLimit
  /\ \A i, j \in Jobs :
       (Retained(rows[i]) /\ rows'[i].status = "pruned" /\ rows'[j].status \in TERMINAL)
       => IF rows[i].status \in TERMINAL THEN rows[i].finished <= rows'[j].finished
          ELSE rows[j].status \notin TERMINAL

\* Which rows _prune takes, and that the rest of the transaction leaves them so.
LEMMA Survivors ==
  ASSUME NEW ts, Transaction(ts), NEW j \in Jobs
  PROVE  /\ rows'[j].status \in TERMINAL =>
              /\ ts[j].status \in TERMINAL /\ ts[j].finished = rows'[j].finished
              /\ ~(Cardinality(NewerThan(ts, j)) >= HistoryLimit)
         /\ rows'[j].status = "pruned" =>
              \/ ts[j].status = "pruned"
              \/ ts[j].status \in TERMINAL /\ Cardinality(NewerThan(ts, j)) >= HistoryLimit
         /\ rows'[j].status \in Over <=> ts[j].status \in Over
<1>1. Alike(Prune(ts)[j], rows'[j])
  BY DEF Transaction
<1>2. Prune(ts)[j] = IF ts[j].status \in TERMINAL /\ Cardinality(NewerThan(ts, j)) >= HistoryLimit
                     THEN Empty("pruned") ELSE ts[j]
  BY DEF Prune
<1>3. Empty("pruned").status = "pruned"
  BY Zenon DEF Empty
<1>4. CASE ts[j].status \in TERMINAL /\ Cardinality(NewerThan(ts, j)) >= HistoryLimit
  BY <1>1, <1>2, <1>3, <1>4 DEF Alike, Over, TERMINAL
<1>5. CASE ~(ts[j].status \in TERMINAL /\ Cardinality(NewerThan(ts, j)) >= HistoryLimit)
  <2>1. Alike(ts[j], rows'[j])
    BY <1>1, <1>2, <1>5
  <2>. QED
    BY <1>5, <2>1 DEF Alike, Over, TERMINAL
<1>. QED
  BY <1>4, <1>5

LEMMA TransactionKeeps ==
  ASSUME RowsOK(rows), HistoryOK(rows), NEW ts, Transaction(ts)
  PROVE  HistoryOK(rows') /\ ForgetsOldest
<1>1. RowsOK(ts) /\ \A j \in Jobs : Turns(rows[j], ts[j], FinishStamp(rows))
  BY DEF Transaction
<1>. DEFINE n == Cardinality(With(rows, Over))
            m == Cardinality(With(rows', Over))
<1>2. /\ IsFiniteSet(With(rows, Over)) /\ n \in Nat
      /\ IsFiniteSet(With(rows', Over)) /\ m \in Nat
      /\ FinishStamp(rows) = n + 1
  <2>1. With(rows, Over) \in SUBSET Jobs /\ With(rows', Over) \in SUBSET Jobs
    BY DEF With
  <2>2. n \in Nat
    BY <2>1, JobsFinite
  <2>3. FinishStamp(rows) = 1 + n
    BY DEF FinishStamp, Over
  <2>. QED
    BY <2>1, <2>2, <2>3, JobsFinite
<1>3. With(rows, Over) \subseteq With(rows', Over)
  <2>1. \A j \in Jobs : rows[j].status \in Over => ts[j].status \in Over
    BY <1>1 DEF Turns, Alike, Ends, Over
  <2>. QED
    BY <2>1, Survivors DEF With
<1>4. n <= m
  BY <1>2, <1>3, FS_Subset
<1>5. ASSUME NEW j \in Jobs, Ends(rows[j], ts[j], FinishStamp(rows)) PROVE n + 1 <= m
  <2>1. j \notin With(rows, Over)
    BY <1>5 DEF With, Ends, Over, ActiveStatus, TERMINAL
  <2>2. j \in With(rows', Over)
    BY <1>5, Survivors DEF With, Ends, Over
  <2>3. /\ IsFiniteSet(With(rows, Over) \cup {j})
        /\ Cardinality(With(rows, Over) \cup {j}) = n + 1
    BY <1>2, <2>1, FS_AddElement
  <2>4. Cardinality(With(rows, Over) \cup {j}) <= m
    <3>1. With(rows, Over) \cup {j} \subseteq With(rows', Over)
      BY <1>3, <2>2
    <3>. QED
      BY <1>2, <3>1, FS_Subset
  <2>. QED
    BY <2>3, <2>4
<1>. HIDE DEF m
<1>6. Cardinality(With(rows', TERMINAL)) <= HistoryLimit
  <2>1. With(rows', TERMINAL) \in SUBSET With(ts, TERMINAL)
    BY Survivors DEF With
  <2>2. \A j \in With(rows', TERMINAL) : Cardinality(NewerThan(ts, j)) < HistoryLimit
    <3>1. \A j \in With(rows', TERMINAL) :
            ~(Cardinality(NewerThan(ts, j)) >= HistoryLimit) /\ Cardinality(NewerThan(ts, j)) \in Nat
      BY Survivors, NewerSet, JobsFinite DEF With
    <3>. QED
      BY <3>1, PolicyNat
  <2>. QED
    BY <1>1, <2>1, <2>2, FewStay
<1>7. \A j \in Jobs : rows[j].status \in TERMINAL => rows[j].finished <= n
  BY DEF HistoryOK, With
<1>. HIDE DEF n
<1>8. ASSUME NEW j \in Jobs, rows'[j].status \in TERMINAL
      PROVE  /\ rows'[j].finished = ts[j].finished /\ ts[j].status \in TERMINAL
             /\ rows'[j].finished <= m
             /\ rows[j].status \in TERMINAL => ts[j].finished <= n
  <2>1. rows'[j].finished = ts[j].finished /\ ts[j].status \in TERMINAL
    BY <1>8, Survivors
  <2>2. CASE Alike(rows[j], ts[j])
    <3>1. rows[j].status \in TERMINAL /\ rows[j].finished = ts[j].finished
      BY <2>1, <2>2 DEF Alike, Over
    <3>2. rows[j].finished <= n /\ rows[j].finished \in Nat
      BY <1>7, <3>1 DEF RowsOK, RowInv, Row
    <3>. QED
      BY <1>2, <1>4, <2>1, <3>1, <3>2 DEF m, n
  <2>3. CASE Ends(rows[j], ts[j], FinishStamp(rows))
    <3>1. ts[j].finished = n + 1 /\ rows[j].status \notin TERMINAL
      BY <1>2, <2>3 DEF Ends, ActiveStatus, TERMINAL
    <3>. QED
      BY <1>5, <2>1, <2>3, <3>1
  <2>. QED
    BY <1>1, <2>2, <2>3 DEF Turns
<1>9. HistoryOK(rows')
  BY <1>6, <1>8 DEF HistoryOK, With, m
<1>10. ASSUME NEW i \in Jobs, NEW j \in Jobs,
              Retained(rows[i]), rows'[i].status = "pruned", rows'[j].status \in TERMINAL
       PROVE  IF rows[i].status \in TERMINAL THEN rows[i].finished <= rows'[j].finished
              ELSE rows[j].status \notin TERMINAL
  <2>1. Turns(rows[i], ts[i], FinishStamp(rows))
    BY <1>1
  <2>2. ts[i].status # "pruned"
    BY <1>10, <2>1 DEF Turns, Alike, Ends, Over, Retained, TERMINAL
  <2>3. ts[i].status \in TERMINAL /\ Cardinality(NewerThan(ts, i)) >= HistoryLimit
    BY <1>10, <2>2, Survivors
  <2>4. ts[j].status \in TERMINAL /\ ~(Cardinality(NewerThan(ts, j)) >= HistoryLimit)
    BY <1>10, Survivors
  <2>5. ts[i].finished <= ts[j].finished
    BY <1>1, <2>3, <2>4, OldestGo
  <2>6. CASE Alike(rows[i], ts[i])
    <3>1. rows[i].status \in TERMINAL /\ rows[i].finished = ts[i].finished
      BY <2>3, <2>6 DEF Alike, Over
    <3>. QED
      BY <1>8, <1>10, <2>5, <3>1
  <2>7. CASE Ends(rows[i], ts[i], FinishStamp(rows))
    <3>1. ts[i].finished = n + 1 /\ rows[i].status \notin TERMINAL
      BY <1>2, <2>7 DEF Ends, ActiveStatus, TERMINAL
    <3>2. ASSUME rows[j].status \in TERMINAL PROVE FALSE
      <4>1. ts[j].finished <= n
        BY <1>8, <1>10, <3>2
      <4>2. ts[j].finished \in Nat /\ n \in Nat
        BY <1>1, <1>2 DEF RowsOK, RowInv, Row, n
      <4>. QED
        BY <2>5, <3>1, <4>1, <4>2
    <3>. QED
      BY <3>1, <3>2
  <2>. QED
    BY <2>1, <2>6, <2>7 DEF Turns
<1>. QED
  BY <1>6, <1>9, <1>10 DEF ForgetsOldest

LEMMA QuietKeeps ==
  ASSUME RowsOK(rows), HistoryOK(rows), Quiet
  PROVE  HistoryOK(rows') /\ ForgetsOldest
<1>1. \A j \in Jobs : Alike(rows[j], rows'[j])
  BY DEF Quiet
<1>2. With(rows', TERMINAL) = With(rows, TERMINAL) /\ With(rows', Over) = With(rows, Over)
  BY <1>1 DEF With, Alike, Over
<1>3. \A j \in Jobs : rows'[j].status \in TERMINAL => rows'[j].finished = rows[j].finished
  BY <1>1 DEF Alike, Over
<1>4. HistoryOK(rows')
  BY <1>2, <1>3 DEF HistoryOK, With
<1>5. \A i \in Jobs : rows'[i].status = "pruned" => ~Retained(rows[i])
  BY <1>1 DEF Alike, Over, Retained
<1>. QED
  BY <1>4, <1>5 DEF HistoryOK, ForgetsOldest

\* The row operations, as turns.
LEMMA RowTurns ==
  ASSUME NEW r, RowInv(r), NEW stamp
  PROVE  /\ \A s \in TERMINAL, result \in 0..MaxAttempts :
              r.status \in ActiveStatus => Turns(r, Terminal(r, s, result, stamp), stamp)
         /\ r.status = "running" => /\ Turns(r, Requeued(r), stamp)
                                    /\ Turns(r, [Requeued(r) EXCEPT !.backoff = Backoff], stamp)
                                    /\ Turns(r, [r EXCEPT !.cancel = TRUE], stamp)
         /\ Alike(r, r) /\ Alike(r, Aged(r)) /\ Alike(r, [r EXCEPT !.lease = Lease])
         /\ \A b : Alike(r, [r EXCEPT !.waiting = b])
         /\ r.status = "queued" => Turns(r, Requeued(r), stamp) /\ Alike(r, Claimed(r))
<1>1. r \in Row
  BY DEF RowInv
<1>2. ASSUME NEW s \in TERMINAL, NEW result \in 0..MaxAttempts, r.status \in ActiveStatus
      PROVE  Turns(r, Terminal(r, s, result, stamp), stamp)
  <2>1. Terminal(r, s, result, stamp).status = s /\ Terminal(r, s, result, stamp).finished = stamp
    BY <1>1 DEF Terminal, Row
  <2>. QED
    BY <1>2, <2>1 DEF Turns, Ends
<1>3. /\ Requeued(r).status = "queued" /\ [Requeued(r) EXCEPT !.backoff = Backoff].status = "queued"
      /\ [r EXCEPT !.cancel = TRUE].status = r.status
  BY <1>1 DEF Requeued, Row
<1>4. ASSUME NEW x, NEW y, x.status \in ActiveStatus, y.status \in ActiveStatus
      PROVE  Alike(x, y) /\ Turns(x, y, stamp)
  BY <1>4 DEF Turns, Alike, Over, TERMINAL, ActiveStatus
<1>5. Alike(r, r) /\ Alike(r, Aged(r)) /\ Alike(r, [r EXCEPT !.lease = Lease])
      /\ \A b : Alike(r, [r EXCEPT !.waiting = b])
  BY <1>1 DEF Alike, Aged, Row
<1>6. Claimed(r).status = "running"
  BY <1>1 DEF Claimed, Row
<1>7. r.status \in ActiveStatus =>
        /\ \A s \in TERMINAL, result \in 0..MaxAttempts :
             Turns(r, Terminal(r, s, result, stamp), stamp)
        /\ Turns(r, Requeued(r), stamp)
        /\ Turns(r, [Requeued(r) EXCEPT !.backoff = Backoff], stamp)
        /\ Turns(r, [r EXCEPT !.cancel = TRUE], stamp)
  <2>1. "queued" \in ActiveStatus /\ "running" \in ActiveStatus
    BY DEF ActiveStatus
  <2>. QED
    BY <1>2, <1>3, <1>4, <2>1
<1>8. r.status = "queued" => Turns(r, Requeued(r), stamp) /\ Alike(r, Claimed(r))
  <2>1. "queued" \in ActiveStatus /\ "running" \in ActiveStatus
    BY DEF ActiveStatus
  <2>. QED
    BY <1>3, <1>4, <1>6, <2>1
<1>9. r.status = "running" => /\ Turns(r, Requeued(r), stamp)
                             /\ Turns(r, [Requeued(r) EXCEPT !.backoff = Backoff], stamp)
                             /\ Turns(r, [r EXCEPT !.cancel = TRUE], stamp)
  BY <1>7 DEF ActiveStatus
<1>10. \A s \in TERMINAL, result \in 0..MaxAttempts :
         r.status \in ActiveStatus => Turns(r, Terminal(r, s, result, stamp), stamp)
  BY <1>2
<1>. QED
  BY <1>5, <1>8, <1>9, <1>10

LEMMA SettlingTurns ==
  ASSUME NEW r, RowInv(r), NEW stamp
  PROVE  /\ Turns(r, Recovered(r, stamp), stamp)
         /\ r.status = "running" => Turns(r, Relinquished(r, stamp), stamp)
         /\ \A verdict : r.status = "running" => Turns(r, Finished(r, verdict, r.token, stamp), stamp)
<1>1. /\ \A s \in TERMINAL, result \in 0..MaxAttempts :
            r.status \in ActiveStatus => Turns(r, Terminal(r, s, result, stamp), stamp)
      /\ r.status = "running" => /\ Turns(r, Requeued(r), stamp)
                                 /\ Turns(r, [Requeued(r) EXCEPT !.backoff = Backoff], stamp)
      /\ r.status = "queued" => Turns(r, Requeued(r), stamp)
      /\ Alike(r, r)
  BY RowTurns
<1>2. 0 \in 0..MaxAttempts /\ r.token \in 0..MaxAttempts
  BY Bounds DEF RowInv, Row
<1>3. r.status \in ActiveStatus =>
        /\ Turns(r, Terminal(r, "cancelled", 0, stamp), stamp)
        /\ Turns(r, Terminal(r, "failed", 0, stamp), stamp)
        /\ Turns(r, Terminal(r, "succeeded", r.token, stamp), stamp)
        /\ Turns(r, Requeued(r), stamp)
  BY <1>1, <1>2 DEF TERMINAL, ActiveStatus
<1>4. Turns(r, Recovered(r, stamp), stamp)
  <2>1. CASE ~Lapsed(r)
    BY <1>1, <2>1 DEF Recovered, Turns
  <2>2. CASE Lapsed(r)
    <3>1. r.status \in ActiveStatus
      BY <2>2 DEF Lapsed, ActiveStatus
    <3>. QED
      BY <1>3, <2>2, <3>1 DEF Recovered
  <2>. QED
    BY <2>1, <2>2
<1>5. r.status = "running" => Turns(r, Relinquished(r, stamp), stamp)
  BY <1>3 DEF Relinquished, ActiveStatus
<1>6. ASSUME NEW verdict, r.status = "running"
      PROVE  Turns(r, Finished(r, verdict, r.token, stamp), stamp)
  <2>1. r.status \in ActiveStatus
    BY <1>6 DEF ActiveStatus
  <2>. QED
    BY <1>1, <1>3, <1>6, <2>1 DEF Finished
<1>. QED
  BY <1>4, <1>5, <1>6

\* A step that does no more to ended rows than _maintain.
LEMMA MaintainTransaction ==
  ASSUME RowsOK(rows), \A j \in Jobs : Alike(Maintain(rows)[j], rows'[j])
  PROVE  \E ts : Transaction(ts)
<1>. DEFINE rec == [j \in Jobs |-> Recovered(rows[j], FinishStamp(rows))]
<1>1. FinishStamp(rows) \in Nat
  BY StampNat
<1>2. \A j \in Jobs : RowInv(rows[j])
  BY DEF RowsOK
<1>3. \A j \in Jobs : RowInv(Recovered(rows[j], FinishStamp(rows)))
  BY <1>1, <1>2, RecoveredInv
<1>4. \A j \in Jobs : Turns(rows[j], Recovered(rows[j], FinishStamp(rows)), FinishStamp(rows))
  BY <1>2, SettlingTurns
<1>5. RowsOK(rec)
  BY <1>3 DEF RowsOK, RowInv
<1>6. \A j \in Jobs : Turns(rows[j], rec[j], FinishStamp(rows))
  BY <1>4
<1>7. Maintain(rows) = Prune(rec)
  BY DEF Maintain
<1>. HIDE DEF rec
<1>8. \A j \in Jobs : Alike(Prune(rec)[j], rows'[j])
  BY <1>7
<1>9. Transaction(rec)
  BY <1>5, <1>6, <1>8 DEF Transaction
<1>. QED
  BY <1>9

\* A step that settles one row, or none, and prunes.
LEMMA PutTransaction ==
  ASSUME RowsOK(rows), NEW j \in Jobs, NEW r, RowInv(r), Turns(rows[j], r, FinishStamp(rows)),
         rows' = Prune([rows EXCEPT ![j] = r])
  PROVE  \E ts : Transaction(ts)
<1>. DEFINE ts == [rows EXCEPT ![j] = r]
<1>1. RowsOK(ts)
  BY PutOK
<1>2. \A k \in Jobs : ts[k] = IF k = j THEN r ELSE rows[k]
  BY DEF RowsOK
<1>3. rows' = Prune(ts)
  OBVIOUS
<1>. HIDE DEF ts
<1>4. \A x : Alike(x, x)
  BY DEF Alike
<1>5. \A k \in Jobs : Turns(rows[k], ts[k], FinishStamp(rows))
  BY <1>2, <1>4 DEF Turns
<1>6. Transaction(ts)
  BY <1>1, <1>3, <1>4, <1>5 DEF Transaction
<1>. QED
  BY <1>6

LEMMA StepTransacts ==
  ASSUME IInv, [Next]_vars
  PROVE  Quiet \/ \E ts : Transaction(ts)
<1>. DEFINE rs == Maintain(rows)
            Goal == Quiet \/ \E ts : Transaction(ts)
            stamp == FinishStamp(rows)
<1>1. /\ RowsOK(rows) /\ RowsOK(rs) /\ stamp \in Nat
      /\ \A j \in Jobs : RowInv(rows[j]) /\ RowInv(rs[j]) /\ rs[j] \in Row
  BY MaintainOK, StampNat DEF IInv, RowsOK, RowInv
<1>2. \A x : Alike(x, x)
  BY DEF Alike
<1>3. ASSUME rows' = rows PROVE Goal
  BY <1>2, <1>3 DEF Quiet
<1>4. ASSUME rows' = rs PROVE Goal
  BY <1>1, <1>2, <1>4, MaintainTransaction
<1>. HIDE DEF rs, stamp
<1>5. ASSUME NEW j \in Jobs, NEW r, rows' = [rs EXCEPT ![j] = r], Alike(rs[j], r)
      PROVE  Goal
  <2>1. \A k \in Jobs : Alike(rs[k], rows'[k])
    BY <1>1, <1>2, <1>5 DEF RowsOK
  <2>. QED
    BY <1>1, <2>1, MaintainTransaction DEF rs
<1>6. ASSUME NEW key \in Keys \cup {NoKey}, NEW cmd \in Commands, Submit(key, cmd)
      PROVE  Goal
  <2>1. PICK j \in Jobs : rs[j].status = "absent" /\ rows' = [rs EXCEPT ![j] = NewRow(key, cmd)]
    BY <1>6 DEF Submit, rs
  <2>2. NewRow(key, cmd).status = "queued"
    BY DEF NewRow, Empty
  <2>3. Alike(rs[j], NewRow(key, cmd))
    BY <2>1, <2>2 DEF Alike, Over, TERMINAL
  <2>. QED
    BY <1>5, <2>1, <2>3
<1>7. ASSUME NEW w \in Slots, ClaimJob(w)
      PROVE  Goal
  <2>1. PICK j \in With(rs, {"queued"}) : rows' = [rs EXCEPT ![j] = Claimed(rs[j])]
    BY <1>7 DEF ClaimJob, rs
  <2>2. j \in Jobs /\ rs[j].status = "queued"
    BY <2>1 DEF With
  <2>3. Alike(rs[j], Claimed(rs[j]))
    BY <1>1, <2>2, RowTurns
  <2>. QED
    BY <1>5, <2>1, <2>2, <2>3
<1>8. ASSUME NEW w \in Slots, ClaimOverBudget(w)
      PROVE  Goal
  <2>1. \A j \in Jobs : rows'[j] = [rs[j] EXCEPT !.waiting = rs[j].waiting \/ rs[j].status = "queued"]
    BY <1>8 DEF ClaimOverBudget, rs
  <2>2. ASSUME NEW j \in Jobs PROVE Alike(rs[j], rows'[j])
    <3>. DEFINE b == rs[j].waiting \/ rs[j].status = "queued"
    <3>1. rows'[j] = [rs[j] EXCEPT !.waiting = b]
      BY <2>1
    <3>2. Alike(rs[j], [rs[j] EXCEPT !.waiting = b])
      BY <1>1, RowTurns
    <3>. QED
      BY <3>1, <3>2
  <2>. QED
    BY <1>1, <2>2, MaintainTransaction DEF rs
<1>9. ASSUME NEW w \in Slots, rows' = Renewed(w)
      PROVE  Goal
  <2>1. \A j \in Jobs : Alike(rows[j], rows'[j])
    <3>1. \A j \in Jobs : rows'[j] = rows[j] \/ rows'[j] = [rows[j] EXCEPT !.lease = Lease]
      BY <1>1, <1>9 DEF Renewed, RowsOK
    <3>. QED
      BY <1>1, <3>1, RowTurns
  <2>. QED
    BY <2>1 DEF Quiet
<1>10. ASSUME Tick PROVE Goal
  <2>1. \A j \in Jobs : rows'[j] = Aged(rows[j])
    BY <1>10 DEF Tick
  <2>. QED
    BY <1>1, <2>1, RowTurns DEF Quiet
<1>11. ASSUME NEW j \in Jobs, Cancel(j)
       PROVE  Goal
  <2>1. CASE rows[j].status = "queued"
    <3>. DEFINE r == Terminal(rows[j], "cancelled", 0, stamp)
    <3>1. RowInv(r)
      BY <1>1, <2>1, TerminalInv, Bounds DEF TERMINAL
    <3>2. Turns(rows[j], r, stamp)
      BY <1>1, <2>1, Bounds, RowTurns DEF TERMINAL, ActiveStatus
    <3>3. rows' = Prune([rows EXCEPT ![j] = r])
      BY <1>11, <2>1 DEF Cancel, stamp
    <3>. QED
      BY <1>1, <3>1, <3>2, <3>3, PutTransaction DEF stamp
  <2>2. CASE rows[j].status = "running"
    <3>. DEFINE r == [rows[j] EXCEPT !.cancel = TRUE]
    <3>1. RowInv(r)
      BY <1>1, <2>2, FieldInv
    <3>2. Turns(rows[j], r, stamp)
      BY <1>1, <2>2, RowTurns
    <3>3. rows' = Prune([rows EXCEPT ![j] = r])
      BY <1>11, <2>2 DEF Cancel
    <3>. QED
      BY <1>1, <3>1, <3>2, <3>3, PutTransaction DEF stamp
  <2>3. CASE rows[j].status \notin {"queued", "running"}
    <3>1. rows' = Prune(rows)
      BY <1>11, <2>3 DEF Cancel
    <3>2. Transaction(rows)
      BY <1>1, <1>2, <3>1 DEF Transaction, Turns
    <3>. QED
      BY <3>2
  <2>. QED
    BY <2>1, <2>2, <2>3
<1>12. ASSUME NEW w \in Slots, Finish(w) \/ Relinquish(w) \/ SettleFails(w)
       PROVE  Goal
  <2>1. PICK j \in Jobs : j = exec[w].job
    BY <1>12 DEF IInv, ControlOK, ExecInv, Finish, Relinquish, SettleFails
  <2>2. CASE Finish(w) /\ HoldsLease(w)
    <3>. DEFINE r == Finished(rows[j], exec[w].verdict, exec[w].token, stamp)
    <3>1. rows[j].status = "running" /\ rows[j].token = exec[w].token
      BY <2>1, <2>2 DEF HoldsLease, Owns
    <3>2. RowInv(r) /\ Turns(rows[j], r, stamp)
      BY <1>1, <3>1, FinishedInv, SettlingTurns
    <3>3. rows' = Prune([rows EXCEPT ![j] = r])
      BY <2>1, <2>2 DEF Finish, stamp
    <3>. QED
      BY <1>1, <3>2, <3>3, PutTransaction DEF stamp
  <2>3. CASE Relinquish(w) /\ Owns(w)
    <3>. DEFINE r == Relinquished(rows[j], stamp)
    <3>1. rows[j].status = "running"
      BY <2>1, <2>3 DEF Owns
    <3>2. RowInv(r) /\ Turns(rows[j], r, stamp)
      BY <1>1, <3>1, RelinquishedInv, SettlingTurns
    <3>3. rows' = Prune([rows EXCEPT ![j] = r])
      BY <2>1, <2>3 DEF Relinquish, stamp
    <3>. QED
      BY <1>1, <3>2, <3>3, PutTransaction DEF stamp
  <2>4. CASE ~(Finish(w) /\ HoldsLease(w)) /\ ~(Relinquish(w) /\ Owns(w))
    <3>1. rows' = rows
      BY <1>12, <2>4 DEF Finish, Relinquish, SettleFails
    <3>. QED
      BY <1>3, <3>1
  <2>. QED
    BY <2>2, <2>3, <2>4
<1>13. ASSUME NEW w \in Slots, Worker(w)
       PROVE  Goal
  <2>1. CASE ClaimNothing(w)
    BY <1>4, <2>1 DEF ClaimNothing, rs
  <2>2. CASE Start(w) \/ HandlerEnds(w) \/ BeatFails(w) \/ Unwound(w)
    <3>1. rows' = rows
      BY <2>2 DEF Start, HandlerEnds, BeatFails, Unwound
    <3>. QED
      BY <1>3, <3>1
  <2>3. CASE Beat(w) \/ CleanupBeat(w)
    <3>1. rows' = Renewed(w)
      BY <2>3 DEF Beat, CleanupBeat
    <3>. QED
      BY <1>9, <3>1
  <2>. HIDE DEF Goal
  <2>. QED
    BY <1>7, <1>8, <1>12, <1>13, <2>1, <2>2, <2>3 DEF Worker, Poll
<1>14. ASSUME NEW m \in Managers, Shutdown(m) \/ Exit(m) \/ Crash(m) \/ Restart(m)
       PROVE  Goal
  <2>1. rows' = rows \/ rows' = rs
    BY <1>14 DEF Shutdown, Exit, Crash, Restart, rs
  <2>. QED
    BY <1>3, <1>4, <2>1
<1>15. ASSUME NEW key \in Keys, NEW cmd \in Commands, SubmitAgain(key, cmd)
       PROVE  Goal
  <2>1. rows' = rs
    BY <1>15 DEF SubmitAgain, rs
  <2>. QED
    BY <1>4, <2>1
<1>16. ASSUME UNCHANGED vars PROVE Goal
  <2>1. rows' = rows
    BY <1>16 DEF vars
  <2>. QED
    BY <1>3, <2>1
<1>. HIDE DEF Goal
<1>17. ASSUME Next PROVE Goal
  <2>1. ASSUME \E key \in Keys \cup {NoKey}, cmd \in Commands : Submit(key, cmd)
      PROVE  Goal
    BY <1>6, <2>1
  <2>2. ASSUME \E key \in Keys, cmd \in Commands : SubmitAgain(key, cmd)
      PROVE  Goal
    BY <1>15, <2>2
  <2>3. ASSUME \E j \in Jobs : Cancel(j)
      PROVE  Goal
    BY <1>11, <2>3
  <2>4. ASSUME \E w \in Slots : Worker(w)
      PROVE  Goal
    BY <1>13, <2>4
  <2>5. ASSUME \E m \in Managers : Shutdown(m) \/ Exit(m) \/ Crash(m) \/ Restart(m)
      PROVE  Goal
    BY <1>14, <2>5
  <2>6. ASSUME Tick
      PROVE  Goal
    BY <1>10, <2>6
  <2>. QED
    BY <1>17, <2>1, <2>2, <2>3, <2>4, <2>5, <2>6 DEF Next
<1>18. Goal
  BY <1>16, <1>17
<1>. QED
  BY <1>18 DEF Goal

\* Whatever the limit and however the managers' transactions interleave, the
\* history stays within its limit and forgets the oldest ended jobs first.
THEOREM OldestPrunedFirst == Spec => PruneOldestFirst
<1>1. Init => HistoryOK(rows)
  <2>. SUFFICES ASSUME Init PROVE HistoryOK(rows)
    OBVIOUS
  <2>1. With(rows, TERMINAL) = {}
    BY DEF Init, With, Empty, TERMINAL
  <2>. QED
    BY <2>1, FS_EmptySet, PolicyNat DEF HistoryOK
<1>2. IInv /\ HistoryOK(rows) /\ [Next]_vars => HistoryOK(rows') /\ ForgetsOldest
  BY StepTransacts, TransactionKeeps, QuietKeeps DEF IInv
<1>3. IInv /\ HistoryOK(rows) /\ [Next]_vars => HistoryOK(rows)'
  BY <1>2
<1>4. IInv /\ HistoryOK(rows) /\ [Next]_vars =>
        [/\ Cardinality(With(rows', TERMINAL)) <= HistoryLimit
         /\ \A i, j \in Jobs :
              (Retained(rows[i]) /\ rows'[i].status = "pruned" /\ rows'[j].status \in TERMINAL)
              => IF rows[i].status \in TERMINAL THEN rows[i].finished <= rows'[j].finished
                 ELSE rows[j].status \notin TERMINAL]_rows
  BY <1>2 DEF ForgetsOldest
<1>. QED
  BY <1>1, <1>3, <1>4, Inductive, PTL DEF Spec, PruneOldestFirst
====
