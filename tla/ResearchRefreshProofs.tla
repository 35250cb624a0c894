------------------------- MODULE ResearchRefreshProofs -------------------------
(***************************************************************************)
(* What a refresh schedule promises when a claim is finished or given up   *)
(* before its lease lapses, for any number of processes, jobs and keys.    *)
(*                                                                         *)
(* At most one process runs the schedule at a time, and while the schedule *)
(* exists that process holds the lease.  So the last job and the pending   *)
(* key of the document account for every job: a job that is queued or      *)
(* running is the last one or the pending run's.                           *)
(***************************************************************************)
EXTENDS ResearchRefresh, FiniteSetTheorems, TLAPS

Busy(p) == at[p].phase \notin {"idle", "cancelling"}
On == row.life = "on"

\* Jobs: a record is free or has a key of its own.
JobsOK ==
  /\ \A j \in Jobs : job[j].status = "none" => job[j] = Free
  /\ \A j \in Jobs : job[j].status # "none" => job[j].key \in Keys
  /\ \A i, j \in Jobs : job[i].key = job[j].key /\ job[i].key # NoKey => i = j
  /\ \A i, j \in Jobs : Active(i) /\ Active(j) => i = j

\* The document: it knows every active job, and the version of a run is captured
\* before its job exists and after the last one ended.
RowOK ==
  /\ row.life = "none" => /\ \A p \in Procs : at[p] = Idle
                          /\ \A j \in Jobs : job[j] = Free
                          /\ viewer = NoJob
  /\ row.last # NoJob => job[row.last].status # "none"
  /\ On => \A j \in Jobs : Active(j) => j = row.last \/ job[j].key = row.pending
  /\ On => \A j \in Jobs : job[j].key = row.pending /\ row.pending # NoKey => row.captured
  /\ row.captured => ~Active(row.last)
  /\ ~row.late
  /\ row.shown \in {row.last, NoJob}

\* A process: while it runs the schedule, the document is as it has seen it.
RunOK(p) ==
  LET r == at[p] IN
  /\ r.phase = "idle" => r = Idle
  /\ r.last # NoJob => job[r.last].status # "none"
  /\ ~r.late
  /\ Busy(p) => r.pending \in Keys
  /\ Busy(p) => \A j \in Jobs : Active(j) => j = r.last \/ job[j].key = r.pending
  /\ Busy(p) /\ On =>
       /\ row.owner = p /\ row.lease > 0 /\ row.pending = r.pending
       /\ r.phase # "submitted" => r.last = row.last
       /\ r.phase \in {"claimed", "overlap", "clear", "read"} => r.captured = row.captured
       /\ r.phase = "overlap" => ~row.captured
       /\ r.phase \in {"ready", "full", "submitted"} => row.captured
  /\ r.phase = "read" => ~r.captured
  /\ r.phase \in {"claimed", "clear"} /\ ~r.captured => \A j \in Jobs : job[j].key # r.pending
  /\ r.phase \in {"clear", "read", "ready"} => ~Active(r.last)
  /\ r.phase = "submitted" => r.last # NoJob /\ job[r.last].key = r.pending

OneRunner == \A p, q \in Procs : Busy(p) /\ Busy(q) => p = q

\* A job nobody has asked to stop is still somebody's, unless a process was lost.
Accounted ==
  ~lost => \A j \in Jobs : Active(j) /\ ~job[j].cancel =>
             \/ On /\ j = row.last
             \/ \E p \in Procs : at[p].phase \in {"submitted", "cancelling"} /\ at[p].last = j

IInv == TypeOK /\ JobsOK /\ RowOK /\ (\A p \in Procs : RunOK(p)) /\ OneRunner /\ Accounted

-----------------------------------------------------------------------------
LEMMA Constants ==
  /\ NoKey \notin Keys /\ NoJob \notin Jobs /\ NoOwner \notin Procs
  /\ Lease \in Nat /\ Lease > 0 /\ Interval \in Nat /\ Interval > 0 /\ MaxFaults \in Nat
  /\ 0 \in 0..Interval /\ 0 \in 0..Lease /\ Lease \in 0..Lease /\ Interval \in 0..Interval
  /\ Idle \in Task /\ Idle.phase = "idle" /\ Idle.pending = NoKey /\ Idle.last = NoJob
  /\ Idle.captured = FALSE /\ Idle.late = FALSE
  /\ Free \in Job /\ Free.key = NoKey /\ Free.status = "none" /\ Free.cancel = FALSE
BY ScheduleAssumption DEF Idle, Free, Task, Job

LEMMA EmptyRow ==
  ASSUME NEW life \in {"none", "on", "gone"}
  PROVE  LET r == NoRow(life) IN
         /\ r \in Row /\ r.life = life /\ r.last = NoJob /\ r.pending = NoKey
         /\ r.captured = FALSE /\ r.late = FALSE /\ r.shown = NoJob /\ r.owner = NoOwner
         /\ r.lease = 0 /\ r.due = 0
BY Constants DEF NoRow, Row

\* The types of what the actions read.
LEMMA TaskTypes ==
  ASSUME TypeOK, NEW p \in Procs
  PROVE  /\ at[p] \in Task /\ at[p].pending \in Keys \cup {NoKey}
         /\ at[p].last \in Jobs \cup {NoJob} /\ at[p].captured \in BOOLEAN
         /\ at[p].late \in BOOLEAN /\ at[p].ago \in 0..Interval
         /\ at[p].phase \in {"idle", "claimed", "overlap", "clear", "read", "ready", "full",
                             "submitted", "cancelling"}
BY DEF TypeOK, Task

LEMMA RowTypes ==
  ASSUME TypeOK
  PROVE  /\ row \in Row /\ row.life \in {"none", "on", "gone"} /\ row.due \in 0..Interval
         /\ row.lease \in 0..Lease /\ row.pending \in Keys \cup {NoKey}
         /\ row.owner \in Procs \cup {NoOwner} /\ row.last \in Jobs \cup {NoJob}
         /\ row.captured \in BOOLEAN /\ row.late \in BOOLEAN /\ row.shown \in Jobs \cup {NoJob}
BY DEF TypeOK, Row

LEMMA JobTypes ==
  ASSUME TypeOK, NEW j \in Jobs
  PROVE  /\ job[j] \in Job /\ job[j].key \in Keys \cup {NoKey}
         /\ job[j].status \in {"none", "active", "ended"} /\ job[j].cancel \in BOOLEAN
BY DEF TypeOK, Job

LEMMA InitIInv == Init => IInv
<1>. SUFFICES ASSUME Init PROVE IInv
  OBVIOUS
<1>. USE DEF Init
<1>1. TypeOK
  <2>1. row \in Row /\ row.life = "none" /\ row.captured = FALSE /\ row = NoRow(row.life)
    BY EmptyRow
  <2>2. faults \in 0..MaxFaults
    BY Constants
  <2>. QED
    BY <2>1, <2>2, Constants DEF TypeOK
<1>2. JobsOK
  BY Constants DEF JobsOK, Active
<1>3. RowOK
  BY Constants, EmptyRow DEF RowOK, On, Active
<1>4. \A p \in Procs : RunOK(p)
  BY Constants DEF RunOK, Busy
<1>5. OneRunner
  BY Constants DEF OneRunner, Busy
<1>6. Accounted
  BY Constants DEF Accounted, Active
<1>. QED
  BY <1>1, <1>2, <1>3, <1>4, <1>5, <1>6 DEF IInv

\* One process goes on and nothing else changes.
LEMMA ProcessMoves ==
  ASSUME IInv, NEW p \in Procs, NEW new \in Task, at' = [at EXCEPT ![p] = new],
         row' = row, job' = job, viewer' = viewer, faults' \in 0..MaxFaults,
         lost' \in BOOLEAN, lost => lost', RunOK(p)', row.life # "none",
         Busy(p)' => Busy(p),
         \A j \in Jobs : at[p].phase \in {"submitted", "cancelling"} /\ at[p].last = j
                         /\ Active(j) /\ ~job[j].cancel /\ ~lost'
                         => new.phase \in {"submitted", "cancelling"} /\ new.last = j
  PROVE  IInv'
<1>. USE DEF IInv
<1>1. at'[p] = new /\ \A q \in Procs \ {p} : at'[q] = at[q]
  BY DEF TypeOK
<1>2. TypeOK'
  BY DEF TypeOK
<1>3. JobsOK'
  BY DEF JobsOK, Active
<1>4. RowOK'
  BY DEF RowOK, Active, On
<1>5. ASSUME NEW q \in Procs PROVE RunOK(q)'
  <2>1. CASE q = p
    BY <2>1
  <2>2. CASE q # p
    <3>1. at'[q] = at[q] /\ RunOK(q)
      BY <1>1, <2>2
    <3>. QED
      BY <3>1 DEF RunOK, Active, On, Busy
  <2>. QED
    BY <2>1, <2>2
<1>6. OneRunner'
  BY <1>1 DEF OneRunner, Busy
<1>7. Accounted'
  <2>. SUFFICES ASSUME ~lost', NEW j \in Jobs, Active(j), ~job[j].cancel, ~(On /\ j = row.last)
                PROVE  \E q \in Procs : at'[q].phase \in {"submitted", "cancelling"}
                                        /\ at'[q].last = j
    BY DEF Accounted, Active, On
  <2>1. PICK q \in Procs : at[q].phase \in {"submitted", "cancelling"} /\ at[q].last = j
    BY DEF Accounted
  <2>2. CASE q = p
    BY <1>1, <2>1, <2>2
  <2>3. CASE q # p
    BY <1>1, <2>1, <2>3
  <2>. QED
    BY <2>2, <2>3
<1>. QED
  BY <1>2, <1>3, <1>4, <1>5, <1>6, <1>7

\* A busy process belongs to a schedule that was created.
LEMMA Created ==
  ASSUME IInv, NEW p \in Procs, at[p].phase # "idle"
  PROVE  row.life # "none"
BY Constants DEF IInv, RowOK

LEMMA LookKeeps ==
  ASSUME IInv, NEW p \in Procs, LookAtLastJob(p)
  PROVE  IInv'
<1>. USE DEF IInv
<1>. DEFINE new == [at[p] EXCEPT !.phase = IF Active(at[p].last) THEN "overlap" ELSE "clear"]
<1>1. /\ at' = [at EXCEPT ![p] = new] /\ row' = row /\ job' = job /\ viewer' = viewer
      /\ faults' = faults /\ lost' = lost /\ at[p].phase = "claimed"
  BY DEF LookAtLastJob, TypeOK
<1>2. /\ new \in Task /\ new.phase = (IF Active(at[p].last) THEN "overlap" ELSE "clear")
      /\ new.pending = at[p].pending /\ new.last = at[p].last
      /\ new.captured = at[p].captured /\ new.late = at[p].late
  BY TaskTypes DEF Task
<1>. HIDE DEF new
<1>3. at'[p] = new
  BY <1>1 DEF TypeOK
<1>4. RunOK(p)'
  <2>1. Active(at[p].last) /\ On => ~row.captured
    BY <1>1 DEF RunOK, RowOK, Busy
  <2>. QED
    BY <1>1, <1>2, <1>3, <2>1 DEF RunOK, Busy, On, Active
<1>5. faults \in 0..MaxFaults /\ lost \in BOOLEAN
  BY DEF TypeOK
<1>6. Busy(p) /\ row.life # "none"
  BY <1>1, Created DEF Busy
<1>. QED
  BY <1>1, <1>2, <1>4, <1>5, <1>6, ProcessMoves

LEMMA ReadKeeps ==
  ASSUME IInv, NEW p \in Procs, ReadVersion(p)
  PROVE  IInv'
<1>. USE DEF IInv
<1>. DEFINE tooLate == \E j \in Jobs : job[j].key = at[p].pending /\ job[j].status = "ended"
            new == IF at[p].captured THEN [at[p] EXCEPT !.phase = "ready"]
                   ELSE [at[p] EXCEPT !.phase = "read", !.late = tooLate]
<1>1. /\ at' = [at EXCEPT ![p] = new] /\ row' = row /\ job' = job /\ viewer' = viewer
      /\ faults' = faults /\ lost' = lost /\ at[p].phase = "clear"
  BY DEF ReadVersion, TypeOK
<1>2. ~at[p].captured => ~tooLate
  BY <1>1 DEF RunOK
<1>3. /\ new \in Task /\ new.phase = (IF at[p].captured THEN "ready" ELSE "read")
      /\ new.pending = at[p].pending /\ new.last = at[p].last
      /\ new.captured = at[p].captured /\ new.late = FALSE
  BY <1>1, <1>2, TaskTypes DEF Task, RunOK
<1>. HIDE DEF new, tooLate
<1>4. at'[p] = new
  BY <1>1 DEF TypeOK
<1>5. RunOK(p)'
  BY <1>1, <1>3, <1>4 DEF RunOK, Busy, On, Active
<1>6. faults \in 0..MaxFaults /\ lost \in BOOLEAN
  BY DEF TypeOK
<1>7. Busy(p) /\ row.life # "none"
  BY <1>1, Created DEF Busy
<1>. QED
  BY <1>1, <1>3, <1>5, <1>6, <1>7, ProcessMoves

LEMMA RefusedKeeps ==
  ASSUME IInv, NEW p \in Procs, Refused(p)
  PROVE  IInv'
<1>. USE DEF IInv
<1>. DEFINE new == [at[p] EXCEPT !.phase = "full"]
<1>1. /\ at' = [at EXCEPT ![p] = new] /\ row' = row /\ job' = job /\ viewer' = viewer
      /\ faults' \in 0..MaxFaults /\ lost' = lost /\ at[p].phase = "ready"
  BY Constants DEF Refused, TypeOK
<1>2. /\ new \in Task /\ new.phase = "full"
      /\ new.pending = at[p].pending /\ new.last = at[p].last
      /\ new.captured = at[p].captured /\ new.late = at[p].late
  BY TaskTypes DEF Task
<1>. HIDE DEF new
<1>3. at'[p] = new
  BY <1>1 DEF TypeOK
<1>4. RunOK(p)'
  BY <1>1, <1>2, <1>3 DEF RunOK, Busy, On, Active
<1>5. lost \in BOOLEAN
  BY DEF TypeOK
<1>6. Busy(p) /\ row.life # "none"
  BY <1>1, Created DEF Busy
<1>. QED
  BY <1>1, <1>2, <1>4, <1>5, <1>6, ProcessMoves

LEMMA AbandonKeeps ==
  ASSUME IInv, NEW p \in Procs, Abandon(p)
  PROVE  IInv'
<1>. USE DEF IInv
<1>1. /\ at' = [at EXCEPT ![p] = Idle] /\ row' = row /\ job' = job /\ viewer' = viewer
      /\ faults' \in 0..MaxFaults /\ at[p].phase # "idle"
      /\ lost' = (lost \/ at[p].phase \in {"submitted", "cancelling"})
  BY Constants DEF Abandon, TypeOK
<1>2. at'[p] = Idle
  BY <1>1 DEF TypeOK
<1>3. RunOK(p)' /\ ~Busy(p)'
  BY <1>1, <1>2, Constants DEF RunOK, Busy, On, Active
<1>4. lost' \in BOOLEAN /\ (lost => lost') /\ row.life # "none"
  BY <1>1, Created DEF TypeOK
<1>. QED
  BY <1>1, <1>3, <1>4, Constants, ProcessMoves

\* A process that is not running the schedule depends on nothing but its last job.
LEMMA Resting ==
  ASSUME NEW q \in Procs, RunOK(q), ~Busy(q), at'[q] = at[q],
         at[q].last # NoJob => job'[at[q].last].status # "none"
  PROVE  RunOK(q)' /\ ~Busy(q)'
BY DEF RunOK, Busy

\* The jobs stay, and the process that runs the schedule, or claims it when its
\* lease has lapsed, changes the document.
LEMMA DocumentMoves ==
  ASSUME IInv, NEW p \in Procs, Busy(p) \/ (On /\ row.lease = 0), NEW new \in Task, at' = [at EXCEPT ![p] = new],
         job' = job, viewer' = viewer, faults' = faults, lost' = lost,
         row' \in Row, row'.life = "on", row'.captured => row'.pending # NoKey,
         RowOK', RunOK(p)', Accounted'
  PROVE  IInv'
<1>. USE DEF IInv
<1>1. at'[p] = new /\ \A q \in Procs \ {p} : at'[q] = at[q]
  BY DEF TypeOK
<1>2. TypeOK'
  BY DEF TypeOK
<1>3. JobsOK'
  BY DEF JobsOK, Active
<1>4. ASSUME NEW q \in Procs, q # p PROVE RunOK(q)' /\ ~Busy(q)'
  <2>1. ~Busy(q) /\ at'[q] = at[q] /\ RunOK(q)
    BY <1>1, <1>4, RowTypes DEF OneRunner, RunOK
  <2>2. at[q].last # NoJob => job'[at[q].last].status # "none"
    BY <2>1 DEF RunOK
  <2>. QED
    BY <2>1, <2>2, Resting
<1>5. \A q \in Procs : RunOK(q)'
  BY <1>4
<1>6. OneRunner'
  BY <1>4 DEF OneRunner
<1>. QED
  BY <1>2, <1>3, <1>5, <1>6

LEMMA DropKeeps ==
  ASSUME IInv, NEW p \in Procs, DropRun(p)
  PROVE  IInv'
<1>. USE DEF IInv
<1>1. /\ at[p].phase = "overlap" /\ Busy(p) /\ row.life # "none"
      /\ at' = [at EXCEPT ![p] = Idle]
      /\ job' = job /\ viewer' = viewer /\ faults' = faults /\ lost' = lost
      /\ faults \in 0..MaxFaults /\ lost \in BOOLEAN
  BY Created DEF DropRun, Busy, TypeOK
<1>2. at'[p] = Idle /\ RunOK(p)' /\ ~Busy(p)'
  BY <1>1, Constants DEF TypeOK, RunOK, Busy, On, Active
<1>3. CASE ~On
  <2>1. row' = row
    BY <1>3 DEF DropRun, On
  <2>. QED
    BY <1>1, <1>2, <2>1, Constants, ProcessMoves
<1>4. CASE On
  <2>1. row' = Dropped(row)
    BY <1>4 DEF DropRun, On
  <2>2. /\ row' \in Row /\ row'.life = "on" /\ row'.pending = NoKey /\ row'.captured = row.captured
        /\ row'.last = row.last /\ row'.late = row.late /\ row'.shown = row.shown
    BY <1>4, <2>1, RowTypes, Constants DEF Dropped, Row, On
  <2>3. ~row.captured
    BY <1>1, <1>4 DEF RunOK
  <2>4. \A j \in Jobs : Active(j) => j = row.last
    BY <1>4, <2>3, Constants DEF RowOK, JobsOK, Active
  <2>5. RowOK'
    BY <1>1, <2>2, <2>3, <2>4 DEF RowOK, Active, On
  <2>6. Accounted'
    BY <1>1, <1>4, <2>2, <2>4 DEF Accounted, Active, On
  <2>. QED
    BY <1>1, <1>2, <2>2, <2>3, <2>5, <2>6, Constants, DocumentMoves
<1>. QED
  BY <1>3, <1>4

LEMMA CaptureKeeps ==
  ASSUME IInv, NEW p \in Procs, CaptureVersion(p)
  PROVE  IInv'
<1>. USE DEF IInv
<1>. DEFINE new == [at[p] EXCEPT !.phase = "ready"]
<1>1. /\ at[p].phase = "read" /\ Busy(p) /\ row.life # "none"
      /\ at' = [at EXCEPT ![p] = new]
      /\ job' = job /\ viewer' = viewer /\ faults' = faults /\ lost' = lost
      /\ faults \in 0..MaxFaults /\ lost \in BOOLEAN
  BY Created DEF CaptureVersion, Busy, TypeOK
<1>2. /\ new \in Task /\ new.phase = "ready"
      /\ new.pending = at[p].pending /\ new.last = at[p].last
      /\ new.captured = at[p].captured /\ new.late = at[p].late
  BY TaskTypes DEF Task
<1>. HIDE DEF new
<1>3. at'[p] = new /\ \A q \in Procs \ {p} : at'[q] = at[q]
  BY <1>1 DEF TypeOK
<1>4. CASE ~On
  <2>1. row' = row
    BY <1>4 DEF CaptureVersion, On, Owns
  <2>2. RunOK(p)'
    BY <1>1, <1>2, <1>3, <1>4, <2>1 DEF RunOK, Busy, On, Active
  <2>. QED
    BY <1>1, <1>2, <2>1, <2>2, ProcessMoves
<1>5. CASE On
  <2>1. Owns(p) /\ ~Active(row.last) /\ row.pending = at[p].pending /\ at[p].pending \in Keys
        /\ at[p].last = row.last /\ row.owner = p /\ row.lease > 0 /\ at[p].late = FALSE
    BY <1>1, <1>5, TaskTypes DEF RunOK, Owns, On, Busy
  <2>2. row' = Captured(row, p)
    BY <1>5, <2>1 DEF CaptureVersion
  <2>3. /\ row' \in Row /\ row'.life = "on" /\ row'.pending = row.pending /\ row'.captured = TRUE
        /\ row'.last = row.last /\ row'.late = FALSE /\ row'.shown = row.shown
        /\ row'.owner = row.owner /\ row'.lease = row.lease
    BY <1>5, <2>1, <2>2, RowTypes DEF Captured, Row, On
  <2>4. RowOK'
    BY <1>1, <1>5, <2>1, <2>3 DEF RowOK, Active, On
  <2>5. RunOK(p)'
    BY <1>1, <1>2, <1>3, <1>5, <2>1, <2>3 DEF RunOK, Active, On, Busy
  <2>6. Accounted'
    BY <1>1, <1>3, <1>5, <2>3 DEF Accounted, Active, On
  <2>. QED
    BY <1>1, <1>2, <2>1, <2>3, <2>4, <2>5, <2>6, Constants, DocumentMoves
<1>. QED
  BY <1>4, <1>5

LEMMA GiveBackKeeps ==
  ASSUME IInv, NEW p \in Procs, GiveBack(p)
  PROVE  IInv'
<1>. USE DEF IInv
<1>1. /\ at[p].phase = "full" /\ Busy(p) /\ row.life # "none"
      /\ at' = [at EXCEPT ![p] = Idle]
      /\ job' = job /\ viewer' = viewer /\ faults' = faults /\ lost' = lost
      /\ faults \in 0..MaxFaults /\ lost \in BOOLEAN
  BY Created DEF GiveBack, Busy, TypeOK
<1>2. at'[p] = Idle /\ RunOK(p)' /\ ~Busy(p)' /\ \A q \in Procs \ {p} : at'[q] = at[q]
  BY <1>1, Constants DEF TypeOK, RunOK, Busy, On, Active
<1>3. CASE ~On
  <2>1. row' = row
    BY <1>3 DEF GiveBack, On, Owns
  <2>. QED
    BY <1>1, <1>2, <2>1, Constants, ProcessMoves
<1>4. CASE On
  <2>1. row' = [row EXCEPT !.lease = 0]
    BY <1>1, <1>4 DEF GiveBack, On, Owns, RunOK
  <2>2. /\ row' \in Row /\ row'.life = "on" /\ row'.pending = row.pending
        /\ row'.captured = row.captured
        /\ row'.last = row.last /\ row'.late = row.late /\ row'.shown = row.shown
    BY <1>4, <2>1, RowTypes, Constants DEF Row, On
  <2>3. RowOK'
    BY <1>1, <1>4, <2>2 DEF RowOK, Active, On
  <2>4. Accounted'
    BY <1>1, <1>2, <1>4, <2>2 DEF Accounted, Active, On
  <2>5. row.captured => row.pending # NoKey
    BY DEF TypeOK
  <2>. QED
    BY <1>1, <1>2, <2>2, <2>3, <2>4, <2>5, Constants, DocumentMoves
<1>. QED
  BY <1>3, <1>4

LEMMA RecordKeeps ==
  ASSUME IInv, NEW p \in Procs, Record(p)
  PROVE  IInv'
<1>. USE DEF IInv
<1>1. /\ at[p].phase = "submitted" /\ Busy(p) /\ row.life # "none"
      /\ at' = [at EXCEPT ![p] = AfterRecord(p)]
      /\ job' = job /\ viewer' = viewer /\ faults' = faults /\ lost' = lost
      /\ faults \in 0..MaxFaults /\ lost \in BOOLEAN
  BY Created DEF Record, Busy, TypeOK
<1>2. at[p].last \in Jobs /\ job[at[p].last].key = at[p].pending
      /\ at[p].pending \in Keys /\ job[at[p].last].status # "none" /\ ~at[p].late
  BY <1>1, TaskTypes DEF RunOK
<1>3. CASE ~On
  <2>. DEFINE new == [Idle EXCEPT !.phase = "cancelling", !.last = at[p].last]
  <2>1. row' = row /\ AfterRecord(p) = new
    BY <1>3 DEF Record, On, Owns, AfterRecord
  <2>2. /\ new \in Task /\ new.phase = "cancelling" /\ new.last = at[p].last
        /\ new.late = FALSE
    BY <1>2, Constants DEF Idle, Task
  <2>. HIDE DEF new
  <2>3. at'[p] = new
    BY <1>1, <2>1 DEF TypeOK
  <2>4. RunOK(p)'
    BY <1>1, <1>2, <2>2, <2>3 DEF RunOK, Busy
  <2>. QED
    BY <1>1, <2>1, <2>2, <2>4, ProcessMoves
<1>4. CASE On
  <2>1. row' = Recorded(row, p) /\ AfterRecord(p) = Idle
    BY <1>1, <1>4 DEF Record, On, Owns, RunOK, AfterRecord
  <2>2. at'[p] = Idle /\ \A q \in Procs \ {p} : at'[q] = at[q]
    BY <1>1, <2>1 DEF TypeOK
  <2>3. RunOK(p)'
    BY <2>2, Constants DEF RunOK, Busy
  <2>4. Interval - at[p].ago \in 0..Interval
    BY TaskTypes, Constants
  <2>5. /\ row' \in Row /\ row'.life = "on" /\ row'.pending = NoKey /\ row'.captured = FALSE
        /\ row'.last = at[p].last /\ row'.late = at[p].late /\ row'.shown = NoJob
    BY <1>2, <1>4, <2>1, <2>4, RowTypes, TaskTypes, Constants DEF Recorded, Row, On
  <2>6. \A j \in Jobs : Active(j) => j = at[p].last
    BY <1>1, <1>2, Constants DEF RunOK, JobsOK
  <2>7. RowOK'
    BY <1>1, <1>2, <2>5, <2>6 DEF RowOK, Active, On
  <2>8. Accounted'
    BY <1>1, <2>5, <2>6 DEF Accounted, Active, On
  <2>. QED
    BY <1>1, <2>1, <2>3, <2>5, <2>7, <2>8, Constants, DocumentMoves
<1>. QED
  BY <1>3, <1>4

LEMMA ClaimKeeps ==
  ASSUME IInv, NEW p \in Procs, NEW force \in BOOLEAN, Claim(p, force)
  PROVE  IInv'
<1>. USE DEF IInv
<1>1. /\ at[p].phase = "idle" /\ On /\ row.lease = 0 /\ row.life # "none"
      /\ job' = job /\ viewer' = viewer /\ faults' = faults /\ lost' = lost
  BY DEF Claim, MayClaim, On
<1>2. PICK k \in RunKey :
        /\ row' = [row EXCEPT !.pending = k, !.lease = Lease, !.owner = p]
        /\ at' = [at EXCEPT ![p] = [Idle EXCEPT !.phase = "claimed", !.pending = k,
                                                !.last = row.last,
                                                !.captured = row.captured,
                                                !.late = row.late]]
  BY DEF Claim
<1>. DEFINE new == [Idle EXCEPT !.phase = "claimed", !.pending = k, !.last = row.last,
                                !.captured = row.captured, !.late = row.late]
<1>3. /\ k \in Keys
      /\ row.pending = NoKey => \A j \in Jobs : job[j].key # k
      /\ row.pending # NoKey => k = row.pending
  BY <1>2, RowTypes DEF RunKey, FreshKeys
<1>4. /\ new \in Task /\ new.phase = "claimed" /\ new.pending = k /\ new.last = row.last
      /\ new.captured = row.captured /\ new.late = row.late
  BY <1>3, RowTypes, Constants DEF Idle, Task
<1>5. at' = [at EXCEPT ![p] = new]
  BY <1>2
<1>. HIDE DEF new
<1>6. at'[p] = new /\ \A q \in Procs \ {p} : at'[q] = at[q]
  BY <1>5 DEF TypeOK
<1>7. /\ row' \in Row /\ row'.life = "on" /\ row'.pending = k /\ row'.lease = Lease
      /\ row'.owner = p /\ row'.last = row.last /\ row'.captured = row.captured
      /\ row'.late = row.late /\ row'.shown = row.shown
  BY <1>1, <1>2, <1>3, RowTypes, Constants DEF Row, On
<1>8. \A j \in Jobs : Active(j) => j = row.last \/ job[j].key = k
  BY <1>1, <1>3, Constants DEF RowOK, JobsOK, Active
<1>9. ~row.captured => \A j \in Jobs : job[j].key # k
  BY <1>1, <1>3, Constants DEF RowOK
<1>10. RowOK'
  BY <1>1, <1>7, <1>8, <1>9 DEF RowOK, Active, On
<1>11. RunOK(p)'
  BY <1>1, <1>3, <1>4, <1>6, <1>7, <1>8, <1>9, Constants DEF RunOK, RowOK, Active, On, Busy
<1>12. Accounted'
  BY <1>1, <1>6, <1>7 DEF Accounted, Active, On
<1>13. row'.captured => row'.pending # NoKey
  BY <1>3, <1>7, Constants
<1>. QED
  BY <1>1, <1>4, <1>5, <1>7, <1>10, <1>11, <1>12, <1>13, DocumentMoves

\* A run that outlives its schedule depends on the jobs only.
LEMMA Outlives ==
  ASSUME NEW q \in Procs, RunOK(q), at'[q] = at[q], job' = job, ~On'
  PROVE  RunOK(q)' /\ (Busy(q)' => Busy(q))
BY DEF RunOK, Busy, Active

\* The schedule is removed by a process that goes on to cancel its last job.
LEMMA RemoveKeeps ==
  ASSUME IInv, NEW p \in Procs, On, at[p].phase \notin {"submitted", "cancelling"},
         row' = NoRow("gone"), job' = job, viewer' = viewer, faults' = faults, lost' = lost,
         at' = [at EXCEPT ![p] = [Idle EXCEPT !.phase = "cancelling", !.last = row.last]]
  PROVE  IInv'
<1>. USE DEF IInv
<1>. DEFINE new == [Idle EXCEPT !.phase = "cancelling", !.last = row.last]
<1>1. /\ new \in Task /\ new.phase = "cancelling" /\ new.last = row.last /\ new.late = FALSE
  BY RowTypes, Constants DEF Idle, Task
<1>. HIDE DEF new
<1>2. at'[p] = new /\ at' \in [Procs -> Task] /\ \A q \in Procs \ {p} : at'[q] = at[q]
  BY <1>1 DEF TypeOK, new
<1>3. /\ row' \in Row /\ row' = NoRow(row'.life) /\ row'.life = "gone" /\ row'.last = NoJob
      /\ ~row'.captured /\ ~row'.late /\ row'.shown = NoJob
  BY EmptyRow
<1>4. TypeOK' /\ JobsOK'
  BY <1>2, <1>3 DEF TypeOK, JobsOK, Active
<1>5. RowOK'
  BY <1>3 DEF RowOK, On, Active
<1>6. ~Busy(p)' /\ RunOK(p)'
  BY <1>1, <1>2 DEF RunOK, Busy, RowOK
<1>7. ASSUME NEW q \in Procs, q # p PROVE RunOK(q)' /\ (Busy(q)' => Busy(q))
  <2>1. at'[q] = at[q] /\ RunOK(q) /\ ~On'
    BY <1>2, <1>3, <1>7 DEF On
  <2>. QED
    BY <2>1, Outlives
<1>8. OneRunner'
  BY <1>6, <1>7 DEF OneRunner
<1>9. Accounted'
  BY <1>1, <1>2 DEF Accounted, Active
<1>. QED
  BY <1>4, <1>5, <1>6, <1>7, <1>8, <1>9

LEMMA UnauthorizedKeeps ==
  ASSUME IInv, NEW p \in Procs, Unauthorized(p)
  PROVE  IInv'
<1>. USE DEF IInv
<1>1. /\ at[p].phase = "claimed" /\ Busy(p) /\ row.life # "none"
      /\ job' = job /\ viewer' = viewer /\ faults' = faults /\ lost' = lost
      /\ faults \in 0..MaxFaults /\ lost \in BOOLEAN
  BY Created DEF Unauthorized, Busy, TypeOK
<1>2. CASE On
  <2>1. at[p].last = row.last
    BY <1>1, <1>2 DEF RunOK
  <2>. QED
    BY <1>1, <1>2, <2>1, RemoveKeeps DEF Unauthorized, On
<1>3. CASE ~On
  <2>1. row' = row /\ at' = [at EXCEPT ![p] = Idle]
    BY <1>3 DEF Unauthorized, On
  <2>2. at'[p] = Idle /\ RunOK(p)' /\ ~Busy(p)'
    BY <2>1, Constants DEF TypeOK, RunOK, Busy
  <2>. QED
    BY <1>1, <2>1, <2>2, Constants, ProcessMoves
<1>. QED
  BY <1>2, <1>3

LEMMA DeleteKeeps ==
  ASSUME IInv, NEW p \in Procs, Delete(p)
  PROVE  IInv'
BY RemoveKeeps DEF Delete, On

LEMMA SubmitKeeps ==
  ASSUME IInv, NEW p \in Procs, Submit(p)
  PROVE  IInv'
<1>. USE DEF IInv
<1>1. PICK j \in Jobs :
       /\ IF \E i \in Jobs : job[i].key = at[p].pending
          THEN job[j].key = at[p].pending /\ UNCHANGED job
          ELSE /\ job[j] = Free
               /\ job' = [job EXCEPT ![j] = [key |-> at[p].pending, status |-> "active",
                                             cancel |-> FALSE]]
       /\ at' = [at EXCEPT ![p].phase = "submitted", ![p].last = j]
  BY DEF Submit
<1>. DEFINE new == [at[p] EXCEPT !.phase = "submitted", !.last = j]
<1>2. /\ at[p].phase = "ready" /\ Busy(p) /\ row.life # "none" /\ at[p].pending \in Keys
      /\ row' = row /\ viewer' = viewer /\ faults' = faults /\ lost' = lost
      /\ faults \in 0..MaxFaults /\ lost \in BOOLEAN /\ ~Active(at[p].last)
  BY Created DEF Submit, Busy, TypeOK, RunOK
<1>3. at' = [at EXCEPT ![p] = new]
  BY <1>1 DEF TypeOK, Task
<1>4. /\ new \in Task /\ new.phase = "submitted" /\ new.last = j
      /\ new.pending = at[p].pending /\ new.captured = at[p].captured /\ new.late = at[p].late
  BY TaskTypes DEF Task
<1>. HIDE DEF new
<1>5. at'[p] = new /\ \A q \in Procs \ {p} : at'[q] = at[q]
  BY <1>3 DEF TypeOK
<1>6. \A i \in Jobs : Active(i) => job[i].key = at[p].pending
  BY <1>2 DEF RunOK
<1>7. CASE \E i \in Jobs : job[i].key = at[p].pending
  <2>1. job' = job /\ job[j].key = at[p].pending /\ job[j].status # "none"
    BY <1>1, <1>2, <1>7, Constants DEF JobsOK
  <2>2. RunOK(p)'
    BY <1>2, <1>4, <1>5, <1>6, <2>1, Constants DEF RunOK, Busy, On, Active
  <2>. QED
    BY <1>2, <1>3, <1>4, <2>1, <2>2, ProcessMoves
<1>8. CASE \A i \in Jobs : job[i].key # at[p].pending
  <2>. DEFINE queued == [key |-> at[p].pending, status |-> "active", cancel |-> FALSE]
  <2>1. job[j] = Free /\ job' = [job EXCEPT ![j] = queued]
    BY <1>1, <1>8
  <2>2. /\ queued \in Job /\ queued.key = at[p].pending /\ queued.status = "active"
    BY <1>2 DEF Job
  <2>. HIDE DEF queued
  <2>3. /\ job'[j] = queued /\ \A i \in Jobs \ {j} : job'[i] = job[i]
        /\ job' \in [Jobs -> Job] /\ j # NoJob
    BY <2>1, <2>2, Constants DEF TypeOK
  <2>4. \A i \in Jobs : ~Active(i)
    BY <1>6, <1>8
  <2>5. \A i \in Jobs : Active(i)' => i = j
    BY <2>3, <2>4 DEF Active
  <2>6. TypeOK'
    BY <1>2, <1>3, <1>4, <2>3 DEF TypeOK
  <2>7. JobsOK'
    BY <1>2, <1>8, <2>2, <2>3, <2>5, Constants DEF JobsOK
  <2>8. row.last # j /\ \A q \in Procs : at[q].last # j
    BY <2>1, <2>3, Constants DEF RowOK, RunOK
  <2>9. On => row.pending = at[p].pending /\ row.captured /\ row.owner = p /\ row.lease > 0
    BY <1>2 DEF RunOK
  <2>10. RowOK'
    BY <1>2, <2>2, <2>3, <2>5, <2>8, <2>9, RowTypes DEF RowOK, Active, On
  <2>11. RunOK(p)'
    BY <1>2, <1>4, <1>5, <2>2, <2>3, <2>5, <2>9 DEF RunOK, Busy, On, Active
  <2>12. ASSUME NEW q \in Procs, q # p PROVE RunOK(q)' /\ ~Busy(q)'
    <3>1. ~Busy(q) /\ at'[q] = at[q] /\ RunOK(q)
      BY <1>2, <1>5, <2>12 DEF OneRunner
    <3>2. at[q].last # NoJob => job'[at[q].last].status # "none"
      BY <2>3, <2>8, <3>1, TaskTypes DEF RunOK
    <3>. QED
      BY <3>1, <3>2, Resting
  <2>13. OneRunner'
    BY <2>12 DEF OneRunner
  <2>14. Accounted'
    BY <1>4, <1>5, <2>5 DEF Accounted
  <2>. QED
    BY <2>6, <2>7, <2>10, <2>11, <2>12, <2>13, <2>14
<1>. QED
  BY <1>7, <1>8

\* A job ends, is marked or is forgotten by the queue.
Settles(j) ==
  \/ job'[j] = job[j]
  \/ /\ job'[j].key = job[j].key /\ job[j].status # "none" /\ job'[j].status # "none"
     /\ job'[j].status = "active" => job[j].status = "active"
  \/ job'[j] = Free /\ j # row.last /\ \A q \in Procs : at[q].last # j

LEMMA JobMoves ==
  ASSUME IInv, job' \in [Jobs -> Job], row' = row, viewer' = viewer, faults' = faults,
         lost' = lost, at' \in [Procs -> Task], Accounted',
         \A q \in Procs : at'[q] = at[q] \/ at'[q] = Idle,
         \A j \in Jobs : Settles(j)
  PROVE  IInv'
<1>. USE DEF IInv
<1>1. TypeOK'
  BY DEF TypeOK
<1>2. ASSUME NEW j \in Jobs
      PROVE  /\ job'[j].key # job[j].key => job'[j].key = NoKey
             /\ job'[j].status = "active" => job[j].status = "active" /\ job'[j].key = job[j].key
             /\ job'[j].status # "none" => job[j].status # "none" /\ job'[j].key = job[j].key
             /\ job[j].status = "none" => job'[j] = Free
             /\ job'[j].status = "none" => job'[j] = Free
             /\ j = row.last \/ (\E q \in Procs : at[q].last = j)
                  => (job[j].status # "none" => job'[j].status # "none")
  BY Constants DEF JobsOK, Settles
<1>3. JobsOK'
  <2>1. \A i, j \in Jobs : (Active(i) /\ Active(j) => i = j)'
    BY <1>2 DEF JobsOK, Active
  <2>2. \A i, j \in Jobs : (job[i].key = job[j].key /\ job[i].key # NoKey => i = j)'
    <3>. SUFFICES ASSUME NEW i \in Jobs, NEW j \in Jobs, job'[i].key = job'[j].key,
                         job'[i].key # NoKey
                  PROVE  i = j
      OBVIOUS
    <3>1. job'[i].key = job[i].key /\ job'[j].key = job[j].key
      BY <1>2
    <3>. QED
      BY <3>1 DEF JobsOK
  <2>3. \A j \in Jobs : job'[j].status # "none" => job'[j].key \in Keys
    BY <1>2 DEF JobsOK
  <2>. QED
    BY <1>2, <2>1, <2>2, <2>3 DEF JobsOK
<1>4. row.last # NoJob => row.last \in Jobs /\ job'[row.last].status # "none"
  BY <1>2, RowTypes DEF RowOK
<1>5. RowOK'
  <2>1. CASE row.life = "none"
    <3>1. \A q \in Procs : at'[q] = Idle
      BY <2>1 DEF RowOK
    <3>2. \A j \in Jobs : job'[j] = Free
      BY <1>2, <2>1, Constants DEF RowOK
    <3>3. row.last = NoJob
      BY <2>1, EmptyRow DEF TypeOK
    <3>. QED
      BY <2>1, <3>1, <3>2, <3>3 DEF RowOK, On, Active
  <2>2. CASE row.life # "none"
    <3>1. (row.captured => ~Active(row.last))'
      BY <1>2, RowTypes DEF RowOK, Active
    <3>2. (On => \A j \in Jobs : Active(j) => j = row.last \/ job[j].key = row.pending)'
      <4>. SUFFICES ASSUME On, NEW j \in Jobs, job'[j].status = "active", j # NoJob
                    PROVE  j = row.last \/ job'[j].key = row.pending
        BY DEF On, Active
      <4>. QED
        BY <1>2 DEF RowOK, Active
    <3>3. (On => \A j \in Jobs : job[j].key = row.pending /\ row.pending # NoKey => row.captured)'
      <4>. SUFFICES ASSUME On, NEW j \in Jobs, job'[j].key = row.pending, row.pending # NoKey
                    PROVE  row.captured
        BY DEF On
      <4>1. job[j].key = row.pending
        BY <1>2
      <4>. QED
        BY <4>1 DEF RowOK
    <3>. QED
      BY <1>4, <2>2, <3>1, <3>2, <3>3 DEF RowOK
  <2>. QED
    BY <2>1, <2>2
<1>6. ASSUME NEW q \in Procs PROVE RunOK(q)' /\ (Busy(q)' => Busy(q))
  <2>1. CASE at'[q] = Idle
    BY <2>1, Constants DEF RunOK, Busy
  <2>2. CASE at'[q] = at[q]
    <3>. DEFINE r == at[q]
    <3>1. Busy(q) => \A j \in Jobs : j # NoJob /\ job'[j].status = "active"
                                     => j = r.last \/ job'[j].key = r.pending
      <4>. SUFFICES ASSUME Busy(q), NEW j \in Jobs, j # NoJob, job'[j].status = "active"
                    PROVE  j = r.last \/ job'[j].key = r.pending
        OBVIOUS
      <4>1. Active(j) /\ job'[j].key = job[j].key
        BY <1>2 DEF Active
      <4>. QED
        BY <4>1 DEF RunOK
    <3>2. r.last # NoJob => r.last \in Jobs /\ job'[r.last].status # "none"
                           /\ job'[r.last].key = job[r.last].key
      BY <1>2, TaskTypes DEF RunOK
    <3>3. r.phase \in {"clear", "read", "ready"} /\ r.last # NoJob => job'[r.last].status # "active"
      BY <1>2, TaskTypes DEF RunOK, Active
    <3>4. r.phase \in {"claimed", "clear"} /\ ~r.captured
            => \A j \in Jobs : job'[j].key # r.pending
      BY <1>2, Constants DEF RunOK, Busy
    <3>. QED
      BY <2>2, <3>1, <3>2, <3>3, <3>4 DEF RunOK, Busy, On, Active
  <2>. QED
    BY <2>1, <2>2
<1>7. OneRunner'
  BY <1>6 DEF OneRunner
<1>. QED
  BY <1>1, <1>3, <1>5, <1>6, <1>7

LEMMA CancelKeeps ==
  ASSUME IInv, NEW p \in Procs, CancelJob(p)
  PROVE  IInv'
<1>. USE DEF IInv
<1>1. /\ at[p].phase = "cancelling" /\ at' = [at EXCEPT ![p] = Idle]
      /\ row' = row /\ viewer' = viewer /\ faults' = faults /\ lost' = lost
      /\ job' = IF Active(at[p].last) THEN [job EXCEPT ![at[p].last].cancel = TRUE] ELSE job
  BY DEF CancelJob
<1>2. /\ at'[p] = Idle /\ at' \in [Procs -> Task] /\ \A q \in Procs \ {p} : at'[q] = at[q]
  BY <1>1, Constants DEF TypeOK
<1>3. CASE ~Active(at[p].last)
  <2>1. job' = job
    BY <1>1, <1>3
  <2>2. Accounted'
    BY <1>1, <1>2, <1>3, <2>1 DEF Accounted, Active, On
  <2>3. job' \in [Jobs -> Job]
    BY <2>1 DEF TypeOK
  <2>. QED
    BY <1>1, <1>2, <2>1, <2>2, <2>3, JobMoves DEF Settles
<1>4. CASE Active(at[p].last)
  <2>. DEFINE j == at[p].last
              marked == [job[j] EXCEPT !.cancel = TRUE]
  <2>1. j \in Jobs /\ job[j].status = "active"
    BY <1>4, TaskTypes DEF Active
  <2>2. marked \in Job /\ marked.key = job[j].key /\ marked.status = "active" /\ marked.cancel
    BY <2>1, JobTypes DEF Job
  <2>3. job' = [job EXCEPT ![j] = marked]
    BY <1>1, <1>4, <2>1 DEF TypeOK
  <2>. HIDE DEF marked, j
  <2>4. job'[j] = marked /\ job' \in [Jobs -> Job] /\ \A i \in Jobs \ {j} : job'[i] = job[i]
    BY <2>1, <2>2, <2>3 DEF TypeOK
  <2>5. Accounted'
    <3>. SUFFICES ASSUME ~lost', NEW i \in Jobs, Active(i)', ~job'[i].cancel, ~(On /\ i = row.last)
                  PROVE  \E q \in Procs : at'[q].phase \in {"submitted", "cancelling"}
                                          /\ at'[q].last = i
      BY <1>1 DEF Accounted, On
    <3>1. i # j /\ Active(i) /\ ~job[i].cancel
      BY <2>1, <2>2, <2>4 DEF Active
    <3>2. PICK q \in Procs : at[q].phase \in {"submitted", "cancelling"} /\ at[q].last = i
      BY <1>1, <3>1 DEF Accounted
    <3>. QED
      BY <1>2, <3>1, <3>2 DEF j
  <2>. QED
    BY <1>1, <1>2, <2>1, <2>2, <2>4, <2>5, JobMoves DEF Settles
<1>. QED
  BY <1>3, <1>4

LEMMA EndsKeeps ==
  ASSUME IInv, NEW j \in Jobs, JobEnds(j)
  PROVE  IInv'
<1>. USE DEF IInv
<1>. DEFINE ended == [job[j] EXCEPT !.status = "ended"]
<1>1. /\ job[j].status = "active" /\ job' = [job EXCEPT ![j] = ended]
      /\ row' = row /\ at' = at /\ viewer' = viewer /\ faults' = faults /\ lost' = lost
  BY DEF JobEnds, TypeOK
<1>2. ended \in Job /\ ended.key = job[j].key /\ ended.status = "ended" /\ ended.cancel = job[j].cancel
  BY JobTypes DEF Job
<1>. HIDE DEF ended
<1>3. job'[j] = ended /\ job' \in [Jobs -> Job] /\ \A i \in Jobs \ {j} : job'[i] = job[i]
  BY <1>1, <1>2 DEF TypeOK
<1>4. Accounted'
  BY <1>1, <1>2, <1>3 DEF Accounted, Active, On
<1>. QED
  BY <1>1, <1>2, <1>3, <1>4, JobMoves DEF TypeOK, Settles

LEMMA PrunedKeeps ==
  ASSUME IInv, NEW j \in Jobs, JobPruned(j)
  PROVE  IInv'
<1>. USE DEF IInv
<1>1. /\ job[j].status = "ended" /\ job' = [job EXCEPT ![j] = Free] /\ j # row.last
      /\ row' = row /\ at' = at /\ viewer' = viewer /\ faults' = faults /\ lost' = lost
      /\ \A q \in Procs : at[q].last # j
  BY DEF JobPruned
<1>2. job'[j] = Free /\ job' \in [Jobs -> Job] /\ \A i \in Jobs \ {j} : job'[i] = job[i]
  BY <1>1, Constants DEF TypeOK
<1>3. Accounted'
  BY <1>1, <1>2, Constants DEF Accounted, Active, On
<1>. QED
  BY <1>1, <1>2, <1>3, JobMoves DEF TypeOK, Settles

LEMMA CreateKeeps ==
  ASSUME IInv, Create
  PROVE  IInv'
<1>. USE DEF IInv
<1>1. /\ row.life = "none" /\ row' = [NoRow("on") EXCEPT !.due = Interval]
      /\ at' = at /\ job' = job /\ viewer' = viewer /\ faults' = faults /\ lost' = lost
      /\ \A p \in Procs : at[p] = Idle
      /\ \A j \in Jobs : job[j] = Free
  BY DEF Create, RowOK
<1>2. /\ row' \in Row /\ row'.life = "on" /\ row'.last = NoJob /\ row'.pending = NoKey
      /\ row'.captured = FALSE /\ row'.late = FALSE /\ row'.shown = NoJob
  BY <1>1, EmptyRow, Constants DEF NoRow, Row
<1>3. TypeOK'
  BY <1>1, <1>2 DEF TypeOK
<1>4. JobsOK' /\ OneRunner'
  BY <1>1 DEF JobsOK, Active, OneRunner, Busy
<1>5. RowOK'
  BY <1>1, <1>2, Constants DEF RowOK, Active, On
<1>6. \A p \in Procs : RunOK(p)'
  BY <1>1, Constants DEF RunOK, Busy
<1>7. Accounted'
  BY <1>1, Constants DEF Accounted, Active
<1>. QED
  BY <1>3, <1>4, <1>5, <1>6, <1>7

LEMMA ViewKeeps ==
  ASSUME IInv, View
  PROVE  IInv'
<1>. USE DEF IInv
<1>1. /\ viewer' = row.last /\ row.last # NoJob
      /\ row' = row /\ at' = at /\ job' = job /\ faults' = faults /\ lost' = lost
  BY DEF View
<1>2. row.life # "none"
  BY <1>1, EmptyRow DEF TypeOK
<1>3. TypeOK'
  BY <1>1, RowTypes DEF TypeOK
<1>4. RowOK'
  BY <1>1, <1>2 DEF RowOK, On, Active
<1>5. JobsOK' /\ OneRunner' /\ Accounted' /\ \A p \in Procs : RunOK(p)'
  BY <1>1 DEF JobsOK, OneRunner, Accounted, RunOK, Busy, On, Active
<1>. QED
  BY <1>3, <1>4, <1>5

LEMMA SnapshotKeeps ==
  ASSUME IInv, StoreSnapshot
  PROVE  IInv'
<1>. USE DEF IInv
<1>1. /\ viewer \in Jobs /\ viewer' = NoJob /\ row.life # "none"
      /\ row' = (IF row.life = "on" THEN Snapshot(row, viewer) ELSE row)
      /\ at' = at /\ job' = job /\ faults' = faults /\ lost' = lost
  BY DEF StoreSnapshot, RowOK, TypeOK
<1>2. /\ row' \in Row /\ row'.life = row.life /\ row'.last = row.last /\ row'.pending = row.pending
      /\ row'.captured = row.captured /\ row'.late = row.late /\ row'.owner = row.owner
      /\ row'.lease = row.lease /\ row'.shown \in {row.last, NoJob}
      /\ row.life # "on" => row' = row
  <2>1. CASE row.life = "on" /\ row.last = viewer
    BY <1>1, <2>1, RowTypes DEF Snapshot, Row
  <2>2. CASE ~(row.life = "on" /\ row.last = viewer)
    BY <1>1, <2>2, RowTypes DEF Snapshot, RowOK
  <2>. QED
    BY <2>1, <2>2
<1>3. TypeOK'
  BY <1>1, <1>2 DEF TypeOK
<1>4. RowOK'
  BY <1>1, <1>2 DEF RowOK, On, Active
<1>5. JobsOK' /\ OneRunner'
  BY <1>1 DEF JobsOK, OneRunner, Busy, Active
<1>6. Accounted' /\ \A p \in Procs : RunOK(p)'
  BY <1>1, <1>2 DEF Accounted, RunOK, Busy, On, Active
<1>. QED
  BY <1>3, <1>4, <1>5, <1>6

\* Time passes while the runner still has more than a tick of its lease.
LEMMA TickKeeps ==
  ASSUME IInv, Timely, Tick
  PROVE  IInv'
<1>. USE DEF IInv
<1>. DEFINE waited(q) == IF at[q].phase \in {"idle", "cancelling"} \/ at[q].ago = Interval
                         THEN at[q] ELSE [at[q] EXCEPT !.ago = @ + 1]
<1>1. /\ row' = [row EXCEPT !.due = Down(row.due), !.lease = Down(row.lease)]
      /\ at' = [q \in Procs |-> waited(q)]
      /\ job' = job /\ viewer' = viewer /\ faults' = faults /\ lost' = lost
      /\ \A q \in Procs : Busy(q) /\ Owns(q) => row.lease > 1
  BY DEF Tick, TypeOK, Row, Busy
<1>2. Down(row.due) \in 0..Interval /\ Down(row.lease) \in 0..Lease
      /\ (row.lease > 1 => Down(row.lease) > 0) /\ (row.lease = 0 => Down(row.lease) = 0)
      /\ (row.due = 0 => Down(row.due) = 0)
  BY RowTypes, Constants DEF Down
<1>3. /\ row' \in Row /\ row'.life = row.life /\ row'.last = row.last /\ row'.pending = row.pending
      /\ row'.captured = row.captured /\ row'.late = row.late /\ row'.owner = row.owner
      /\ row'.shown = row.shown /\ row'.lease = Down(row.lease)
  BY <1>1, <1>2, RowTypes DEF Row
<1>4. ASSUME NEW q \in Procs
      PROVE  /\ waited(q) \in Task /\ waited(q).phase = at[q].phase
             /\ waited(q).pending = at[q].pending /\ waited(q).last = at[q].last
             /\ waited(q).captured = at[q].captured /\ waited(q).late = at[q].late
             /\ at[q].phase = "idle" => waited(q) = at[q]
  BY TaskTypes, Constants DEF Task
<1>5. ASSUME NEW q \in Procs PROVE at'[q] = waited(q)
  BY <1>1
<1>. HIDE DEF waited
<1>6. row'.life # "on" => row' = NoRow(row'.life)
  <2>1. CASE row.life # "on"
    <3>1. row = NoRow(row.life) /\ row.due = 0 /\ row.lease = 0
      BY <2>1, RowTypes, EmptyRow DEF TypeOK
    <3>2. row' = row
      BY <1>1, <1>2, <3>1, RowTypes DEF Row
    <3>. QED
      BY <3>1, <3>2
  <2>. QED
    BY <1>3, <2>1
<1>7. TypeOK'
  <2>1. at' \in [Procs -> Task]
    BY <1>1, <1>4
  <2>. QED
    BY <1>1, <1>3, <1>6, <2>1 DEF TypeOK
<1>8. JobsOK'
  BY <1>1 DEF JobsOK, Active
<1>9. RowOK'
  <2>1. row.life = "none" => \A q \in Procs : at'[q] = Idle
    BY <1>4, <1>5, Constants DEF RowOK
  <2>. QED
    BY <1>1, <1>3, <2>1 DEF RowOK, On, Active
<1>10. ASSUME NEW q \in Procs PROVE RunOK(q)' /\ (Busy(q)' => Busy(q))
  <2>1. Busy(q) /\ On => row.lease > 1
    BY <1>1 DEF RunOK, Owns, On
  <2>2. Busy(q) /\ On => row'.lease > 0
    BY <1>2, <1>3, <2>1
  <2>3. at'[q].phase = "idle" => at'[q] = Idle
    BY <1>4, <1>5 DEF RunOK
  <2>. QED
    BY <1>1, <1>3, <1>4, <1>5, <2>2, <2>3 DEF RunOK, Busy, On, Active
<1>11. OneRunner'
  BY <1>10 DEF OneRunner
<1>12. Accounted'
  BY <1>1, <1>3, <1>4, <1>5 DEF Accounted, On, Active
<1>. QED
  BY <1>7, <1>8, <1>9, <1>10, <1>11, <1>12

LEMMA StepIInv == IInv /\ Timely /\ [Next]_vars => IInv'
<1>. SUFFICES ASSUME IInv, Timely, [Next]_vars PROVE IInv'
  OBVIOUS
<1>1. CASE Create
  BY <1>1, CreateKeeps
<1>2. ASSUME NEW p \in Procs, NEW force \in BOOLEAN, Claim(p, force) PROVE IInv'
  BY <1>2, ClaimKeeps
<1>3. ASSUME NEW p \in Procs, Run(p) PROVE IInv'
  BY <1>3, LookKeeps, DropKeeps, ReadKeeps, CaptureKeeps, SubmitKeeps, GiveBackKeeps,
     RecordKeeps DEF Run
<1>4. ASSUME NEW p \in Procs, Refused(p) \/ Unauthorized(p) \/ Delete(p) \/ CancelJob(p) \/ Abandon(p)
      PROVE  IInv'
  BY <1>4, RefusedKeeps, UnauthorizedKeeps, DeleteKeeps, CancelKeeps, AbandonKeeps
<1>5. ASSUME NEW j \in Jobs, JobEnds(j) \/ JobPruned(j) PROVE IInv'
  BY <1>5, EndsKeeps, PrunedKeeps
<1>6. CASE View \/ StoreSnapshot
  BY <1>6, ViewKeeps, SnapshotKeeps
<1>7. CASE Tick
  BY <1>7, TickKeeps
<1>8. CASE UNCHANGED vars
  BY <1>8 DEF vars, IInv, TypeOK, JobsOK, RowOK, RunOK, OneRunner, Accounted, Busy, On, Active
<1>. QED
  BY <1>1, <1>2, <1>3, <1>4, <1>5, <1>6, <1>7, <1>8 DEF Next

-----------------------------------------------------------------------------
(***************************************************************************)
(* The theorems.  Timely is what the code's design supposes: a claim is    *)
(* finished or given up before its lease lapses.                           *)
(***************************************************************************)
THEOREM Invariance ==
  ASSUME Timely
  PROVE  Spec => []IInv
<1>1. IInv /\ [Next]_vars => IInv'
  BY StepIInv
<1>. QED
  BY <1>1, InitIInv, PTL DEF Spec

\* Every variable stays in its type, a removed schedule stays empty and a captured
\* version is that of the pending run.
THEOREM RefreshTypes ==
  ASSUME Timely
  PROVE  Spec => []TypeOK
<1>1. IInv => TypeOK
  BY DEF IInv
<1>. QED
  BY <1>1, Invariance, PTL

\* However many processes share a schedule and whatever a forced run, a crash or a
\* refusal interrupts, it never has two jobs queued or running.
THEOREM RefreshOneActiveJob ==
  ASSUME Timely
  PROVE  Spec => []OneActiveJob
<1>1. IInv => OneActiveJob
  <2>. SUFFICES ASSUME IInv PROVE OneActiveJob
    OBVIOUS
  <2>. DEFINE A == {j \in Jobs : Active(j)}
  <2>1. CASE A = {}
    BY <2>1, FS_EmptySet DEF OneActiveJob
  <2>2. CASE A # {}
    <3>1. PICK j : j \in A
      BY <2>2
    <3>2. A = {j}
      BY <3>1 DEF IInv, JobsOK
    <3>3. Cardinality({j}) = 1
      BY FS_Singleton
    <3>. QED
      BY <3>2, <3>3 DEF OneActiveJob
  <2>. QED
    BY <2>1, <2>2
<1>. QED
  BY <1>1, Invariance, PTL

\* The version a run is compared with was read before the run's own job ended.
THEOREM RefreshComparesOlder ==
  ASSUME Timely
  PROVE  Spec => []PreviousVersionIsOlder
<1>1. IInv => PreviousVersionIsOlder
  BY DEF IInv, RowOK, PreviousVersionIsOlder
<1>. QED
  BY <1>1, Invariance, PTL

\* The outcome a listing stores is that of the last job.
THEOREM RefreshShowsLast ==
  ASSUME Timely
  PROVE  Spec => []OutcomeOfLastJob
<1>1. IInv => OutcomeOfLastJob
  BY DEF IInv, RowOK, OutcomeOfLastJob
<1>. QED
  BY <1>1, Invariance, PTL

\* Once a deletion and the runs it raced with are over, every job of the schedule
\* that is still queued or running has been asked to stop.
THEOREM RefreshDeletionCancels ==
  ASSUME Timely
  PROVE  Spec => []DeletedScheduleCancels
<1>1. IInv => DeletedScheduleCancels
  <2>. SUFFICES ASSUME IInv, row.life = "gone", ~lost, \A p \in Procs : at[p].phase = "idle",
                       NEW j \in Jobs, Active(j), ~job[j].cancel
                PROVE  FALSE
    BY DEF DeletedScheduleCancels
  <2>1. PICK p \in Procs : at[p].phase \in {"submitted", "cancelling"}
    BY DEF IInv, Accounted, On
  <2>. QED
    BY <2>1
<1>. QED
  BY <1>1, Invariance, PTL
=============================================================================
