---------------------------- MODULE ExecutionProofs ----------------------------
(***************************************************************************)
(* What the executor promises for any number of calls and cancellations,   *)
(* an attempt at an ingestion for any loss of authority or of the process, *)
(* an answer for any change of the graph while it is made, and the         *)
(* in-memory queue for any number of workers and jobs.                     *)
(***************************************************************************)
EXTENDS SandboxExecutor, IngestRun, GroundedAnswer, JobManager, FiniteSetTheorems,
        SequenceTheorems, WellFoundedInduction, TLAPS

(***************************************************************************)
(* The executor.  `holds` says what a call still has to delete wherever it *)
(* is not just being made or deleted, so the balance of sandboxes follows  *)
(* the program point.                                                      *)
(***************************************************************************)
Making == {"acquiring", "lateAcquire"}
Awaited == OwnTask \cup {"talking", "child"}

\* A call between its operations: a sandbox it holds is the one it has to delete.
AtRest(r) ==
  /\ r \in CallRecord /\ r.kind # "none" /\ ~r.child
  /\ r.left = IF r.holds THEN 1 ELSE 0
  /\ r.kind = "persist" => ~r.holds

CallOK(r) ==
  /\ r \in CallRecord
  /\ r.at = "none" => r = NoCall
  /\ r.at # "none" => r.kind # "none"
  /\ r.op # "none" => r.at \in Awaited
  /\ r.at \in Making => ~r.holds /\ r.left = IF r.op = "ok" THEN 1 ELSE 0
  /\ r.at = "acquiring" => ~r.doomed
  /\ r.at \in Local \cup {"talking", "gate"} =>
       r.left = (IF r.holds THEN 1 ELSE 0) /\ r.kind # "persist"
  /\ r.at = "slot" => r.kind = "item" /\ ~r.failed /\ ~r.doomed
  /\ r.at \in {"slot", "deleting"} => ~r.holds /\ r.left = 0
  /\ r.at = "done" => /\ r.left \in {0, 1} /\ (r.kind = "item" => ~r.holds)
                      /\ r.left = 1 => Keeps(r) /\ (r.kind = "persist" => ~r.doomed)
  /\ r.child => r.at \in Local /\ (r.at \in {"forking", "lateFork"} => r.op = "ok")
                              /\ (r.at = "reaping" => r.op = "pending")

BatchOK ==
  /\ batch.at = "none" => batch = NoBatch
  /\ batch.route = "fanout" => batch.limit <= FanoutLimit
  /\ {c \in Calls : call[c].kind = "item" /\ call[c].at # "done"} \subseteq batch.items

SandboxInv ==
  /\ SandboxTypeOK
  /\ \A c \in Calls : CallOK(call[c])
  /\ Cardinality(Slots) <= batch.limit
  /\ Cardinality(Interpreters) <= LocalMax
  /\ BatchOK

\* What a step of a call may make of its record: it takes no place it did not have.
Onward(r, s) ==
  /\ CallOK(s)
  /\ s.kind = r.kind /\ r.at # "none" /\ s.at \notin {"none", "slot"} /\ (r.at = "done" => s.at = "done")
  /\ s.at \in Local => r.at \in Local
  /\ r.at = "slot" => s.at = "done"

-----------------------------------------------------------------------------
\* The records of calls over any sets of tries and balances: a step of a call is
\* proved to keep them without arithmetic.
CallsOver(tries, balances) ==
  [kind : Kinds \cup {"none"},
   at : OwnTask \cup {"none", "slot", "talking", "gate", "child", "done"},
   op : {"none", "pending", "ok", "failed"}, try : tries, failed : BOOLEAN,
   holds : BOOLEAN, doomed : BOOLEAN, left : balances, child : BOOLEAN]

Tries == 0..1
Balances == -1..2

\* The updates of a record that the steps make, with what they compute as parameters.
Emptied(r, n) == [r EXCEPT !.left = n, !.holds = FALSE]
Again(r) == [r EXCEPT !.try = 1, !.failed = FALSE]
Counted(r, out, n, child) == [r EXCEPT !.op = out, !.left = n, !.child = child]

LEMMA CallRecords ==
  /\ CallRecord = CallsOver(Tries, Balances)
  /\ 0 \in Tries /\ 1 \in Tries /\ 0 \in Balances /\ 1 \in Balances
BY DEF CallRecord, CallsOver, Tries, Balances

LEMMA CallFields ==
  ASSUME NEW r \in CallRecord
  PROVE  /\ r.kind \in Kinds \cup {"none"} /\ r.try \in 0..1 /\ r.left \in -1..2
         /\ r.at \in OwnTask \cup {"none", "slot", "talking", "gate", "child", "done"}
         /\ r.op \in {"none", "pending", "ok", "failed"}
         /\ r.failed \in BOOLEAN /\ r.holds \in BOOLEAN /\ r.doomed \in BOOLEAN
         /\ r.child \in BOOLEAN
BY DEF CallRecord

LEMMA ReturnOver ==
  ASSUME NEW T, NEW L, 0 \in T, NEW r \in CallsOver(T, L)
  PROVE  LET s == Return(r) IN
         /\ s \in CallsOver(T, L) /\ s.at = "done" /\ s.op = "none" /\ s.kind = r.kind
         /\ s.left = r.left /\ s.holds = r.holds /\ s.child = r.child /\ s.doomed = r.doomed
BY DEF CallsOver, Return

LEMMA Returned ==
  ASSUME NEW r \in CallRecord
  PROVE  LET s == Return(r) IN
         /\ s \in CallRecord /\ s.at = "done" /\ s.op = "none" /\ s.kind = r.kind
         /\ s.left = r.left /\ s.holds = r.holds /\ s.child = r.child /\ s.doomed = r.doomed
BY CallRecords, ReturnOver

LEMMA Awaiting ==
  ASSUME NEW r \in CallRecord, NEW at \in Awaited
  PROVE  LET s == Await(r, at) IN
         /\ s \in CallRecord /\ s.at = at /\ s.op = "pending" /\ s.kind = r.kind
         /\ s.left = r.left /\ s.holds = r.holds /\ s.child = r.child /\ s.doomed = r.doomed
         /\ s.failed = r.failed /\ s.try = r.try
<1>1. at \in OwnTask \cup {"none", "slot", "talking", "gate", "child", "done"}
  BY DEF Awaited
<1>. QED
  BY <1>1 DEF CallRecord, Await

LEMMA DeleteOver ==
  ASSUME NEW T, NEW L, NEW r \in CallsOver(T, L), NEW n \in L
  PROVE  LET s == Emptied(r, n) IN
         /\ s \in CallsOver(T, L) /\ s.at = r.at /\ s.op = r.op /\ s.kind = r.kind
         /\ s.left = n /\ ~s.holds /\ s.child = r.child /\ s.doomed = r.doomed
BY DEF CallsOver, Emptied

LEMMA Emptying ==
  ASSUME NEW r \in CallRecord, NEW n \in Balances
  PROVE  LET s == Emptied(r, n) IN
         /\ s \in CallRecord /\ s.at = r.at /\ s.op = r.op /\ s.kind = r.kind
         /\ s.left = n /\ ~s.holds /\ s.child = r.child /\ s.doomed = r.doomed
<1>1. r \in CallsOver(Tries, Balances)
  BY CallRecords
<1>2. LET s == Emptied(r, n) IN
      /\ s \in CallsOver(Tries, Balances) /\ s.at = r.at /\ s.op = r.op /\ s.kind = r.kind
      /\ s.left = n /\ ~s.holds /\ s.child = r.child /\ s.doomed = r.doomed
  BY <1>1, DeleteOver
<1>. QED
  BY <1>2, CallRecords

LEMMA Deleting ==
  ASSUME NEW r \in CallRecord, r.left = 1
  PROVE  LET s == Delete(r) IN
         /\ s \in CallRecord /\ s.at = "deleting" /\ s.op = "pending" /\ s.kind = r.kind
         /\ s.left = 0 /\ ~s.holds /\ s.child = r.child /\ s.doomed = r.doomed
<1>. DEFINE a == Await(r, "deleting")
            n == a.left - 1
<1>1. /\ a \in CallRecord /\ a.at = "deleting" /\ a.op = "pending" /\ a.kind = r.kind
      /\ a.left = 1 /\ a.child = r.child /\ a.doomed = r.doomed
  BY Awaiting DEF Awaited, OwnTask
<1>2. Delete(r) = Emptied(a, n)
  BY DEF Delete, Emptied
<1>3. n = 0
  BY <1>1
<1>. HIDE DEF a, n
<1>5. a \in CallRecord /\ n \in Balances
  BY <1>1, <1>3, CallRecords
<1>4. LET s == Emptied(a, n) IN
      /\ s \in CallRecord /\ s.at = a.at /\ s.op = a.op /\ s.kind = a.kind
      /\ s.left = n /\ ~s.holds /\ s.child = a.child /\ s.doomed = a.doomed
  BY <1>5, Emptying
<1>. HIDE DEF a, n
<1>. DEFINE d == Emptied(a, n)
<1>6. /\ d \in CallRecord /\ d.at = "deleting" /\ d.op = "pending" /\ d.kind = r.kind
      /\ ~d.holds /\ d.child = r.child /\ d.doomed = r.doomed
  BY <1>1, <1>4
<1>7. d.left = 0
  BY <1>3, <1>4
<1>. QED
  BY <1>2, <1>6, <1>7

LEMMA AgainOver ==
  ASSUME NEW T, NEW L, 1 \in T, NEW r \in CallsOver(T, L)
  PROVE  LET s == Again(r) IN
         /\ s \in CallsOver(T, L) /\ s.at = r.at /\ s.op = r.op /\ s.kind = r.kind
         /\ s.left = r.left /\ s.holds = r.holds /\ s.child = r.child /\ s.doomed = r.doomed
BY DEF CallsOver, Again

\* The `finally` deletes what is held; what is held no more is asked for again.
LEMMA LeaveOK ==
  ASSUME NEW r, AtRest(r)
  PROVE  LET s == Leave(r) IN
         /\ CallOK(s) /\ s.kind = r.kind /\ s.at \in {"deleting", "acquiring", "done"}
         /\ ~r.failed /\ ~r.holds => s.at = "done"
<1>. DEFINE s == Leave(r)
            again == [Await(r, "acquiring") EXCEPT !.try = 1, !.failed = FALSE]
<1>0. r \in CallRecord /\ r.kind # "none" /\ r.left = (IF r.holds THEN 1 ELSE 0) /\ ~r.child
      /\ (r.kind = "persist" => ~r.holds)
  BY DEF AtRest
<1>1. CASE r.holds /\ ~Keeps(r)
  <2>1. s = Delete(r)
    BY <1>1 DEF Leave
  <2>. QED
    BY <1>0, <1>1, <2>1, Deleting DEF CallOK, Awaited, Making, OwnTask, Local
<1>2. CASE ~(r.holds /\ ~Keeps(r)) /\ r.kind \in {"script", "item"} /\ client /\ r.failed
           /\ r.try = 0 /\ ~r.doomed
  <2>1. s = again /\ ~r.holds
    BY <1>2 DEF Leave, Keeps
  <2>2. /\ again \in CallRecord /\ again.at = "acquiring" /\ again.op = "pending"
        /\ again.kind = r.kind /\ again.left = r.left /\ again.holds = r.holds
        /\ again.child = r.child /\ again.doomed = r.doomed
    <3>. DEFINE a == Await(r, "acquiring")
    <3>1. /\ a \in CallRecord /\ a.at = "acquiring" /\ a.op = "pending" /\ a.kind = r.kind
          /\ a.left = r.left /\ a.holds = r.holds /\ a.child = r.child /\ a.doomed = r.doomed
      BY <1>0, Awaiting DEF Awaited, OwnTask
    <3>. HIDE DEF a
    <3>2. again = Again(a)
      BY DEF a, Again
    <3>. HIDE DEF again
    <3>. QED
      BY <3>1, <3>2, CallRecords, AgainOver
  <2>. HIDE DEF again, s
  <2>. QED
    BY <1>0, <1>2, <2>1, <2>2 DEF CallOK, Awaited, Making, OwnTask, Local, s
<1>3. CASE ~(r.holds /\ ~Keeps(r)) /\ ~(r.kind \in {"script", "item"} /\ client /\ r.failed
                                      /\ r.try = 0 /\ ~r.doomed)
  <2>1. s = Return(r)
    BY <1>3 DEF Leave
  <2>2. CallOK(Return(r))
    BY <1>0, <1>3, Returned DEF CallOK, Awaited, Making, OwnTask, Local, Keeps
  <2>. QED
    BY <1>0, <2>1, <2>2, Returned
<1>. QED
  BY <1>1, <1>2, <1>3

LEMMA EnterOK ==
  ASSUME NEW r, AtRest(r), ~r.holds, ~r.doomed, r.op = "none"
  PROVE  LET s == Enter(r) IN
         CallOK(s) /\ s.kind = r.kind /\ s.at \in {"acquiring", "gate", "done"}
<1>. DEFINE s == Enter(r)
            gated == [r EXCEPT !.at = "gate"]
<1>0. r \in CallRecord /\ r.kind # "none" /\ r.left = 0 /\ ~r.child
  BY DEF AtRest
<1>1. CASE client
  <2>1. s = Await(r, "acquiring")
    BY <1>1 DEF Enter
  <2>. QED
    BY <1>0, <2>1, Awaiting DEF CallOK, Awaited, Making, OwnTask, Local
<1>2. CASE ~client /\ r.kind = "persist"
  <2>1. s = Return(r)
    BY <1>2 DEF Enter
  <2>. QED
    BY <1>0, <2>1, Returned DEF CallOK, Awaited, Making, OwnTask, Local
<1>3. CASE ~client /\ r.kind # "persist"
  <2>1. s = gated
    BY <1>3 DEF Enter
  <2>2. /\ gated \in CallRecord /\ gated.at = "gate" /\ gated.kind = r.kind /\ gated.op = "none"
        /\ gated.left = 0 /\ ~gated.holds /\ ~gated.child
    BY <1>0 DEF CallRecord
  <2>. HIDE DEF gated
  <2>. QED
    BY <1>0, <1>3, <2>1, <2>2 DEF CallOK, Awaited, Making, OwnTask, Local
<1>. QED
  BY <1>1, <1>2, <1>3

\* An operation ends.
LEMMA OperatedOver ==
  ASSUME NEW T, NEW L, NEW r \in CallsOver(T, L), NEW op \in {"ok", "failed"}, NEW n \in L,
         NEW child \in BOOLEAN
  PROVE  LET s == Counted(r, op, n, child) IN
         /\ s \in CallsOver(T, L) /\ s.at = r.at /\ s.op = op /\ s.kind = r.kind
         /\ s.left = n /\ s.holds = r.holds /\ s.child = child /\ s.doomed = r.doomed
         /\ s.failed = r.failed
BY DEF CallsOver, Counted

LEMMA OperatedOK ==
  ASSUME NEW r, CallOK(r), r.op = "pending", NEW out \in {"ok", "failed"}
  PROVE  LET s == Operated(r, out) IN CallOK(s) /\ s.kind = r.kind /\ s.at = r.at /\ s.op = out
<1>. DEFINE s == Operated(r, out)
            made == r.at \in Making /\ out = "ok"
            ended == r.at = "reaping" \/ (r.at = "child" /\ out = "ok")
            n == IF made THEN r.left + 1 ELSE r.left
            child == (r.at \in {"forking", "lateFork"} /\ out = "ok") \/ (r.child /\ ~ended)
<1>1. /\ r \in CallRecord /\ r.at \in Awaited /\ r.kind # "none" /\ r.left \in {0, 1}
      /\ r.at \in Making => r.left = 0
  BY CallFields DEF CallOK, Awaited, OwnTask, Local, Making
<1>2. /\ s \in CallRecord /\ s.op = out /\ s.kind = r.kind /\ s.at = r.at
      /\ s.left = n /\ s.holds = r.holds /\ s.doomed = r.doomed /\ s.failed = r.failed
      /\ s.child = child
  <2>1. s = Counted(r, out, n, child)
    BY DEF Operated, Making, Counted
  <2>2. n \in Balances /\ child \in BOOLEAN
    BY <1>1, CallFields DEF Balances
  <2>. HIDE DEF s, n, child
  <2>. QED
    BY <1>1, <2>1, <2>2, CallRecords, OperatedOver
<1>. HIDE DEF s
<1>3. s.child => s.at \in Local /\ (s.at \in {"forking", "lateFork"} => s.op = "ok")
                              /\ (s.at = "reaping" => s.op = "pending")
  BY <1>1, <1>2 DEF CallOK, Local
<1>. QED
  BY <1>1, <1>2, <1>3 DEF CallOK, Awaited, Making, OwnTask, Local, Keeps, s

-----------------------------------------------------------------------------
\* A caller that still waits, or no longer does, is told how its operation ended.
LEMMA ResumedOK ==
  ASSUME NEW r, CallOK(r), r.op \in {"ok", "failed"}
  PROVE  Onward(r, Resumed(r))
<1>. DEFINE s == Resumed(r)
            left == [r EXCEPT !.op = "none"]
<1>0. r \in CallRecord /\ r.at \in Awaited /\ r.kind # "none"
  BY DEF CallOK, Awaited, OwnTask
<1>1. /\ left \in CallRecord /\ left.kind = r.kind /\ left.at = r.at /\ left.op = "none"
      /\ left.left = r.left /\ left.holds = r.holds /\ left.doomed = r.doomed
      /\ left.child = r.child /\ left.failed = r.failed
  BY <1>0 DEF CallRecord
<1>2. ASSUME NEW f \in BOOLEAN
      PROVE  LET t == [r EXCEPT !.op = "none", !.failed = f] IN
             /\ t \in CallRecord /\ t.kind = r.kind /\ t.at = r.at /\ t.op = "none"
             /\ t.left = r.left /\ t.holds = r.holds /\ t.doomed = r.doomed
             /\ t.child = r.child /\ t.failed = f
  BY <1>0 DEF CallRecord
<1>3. ASSUME NEW f \in BOOLEAN, r.at \in {"acquiring", "talking"},
             ~r.holds \/ r.at = "talking", r.op = "failed" \/ r.at = "talking"
      PROVE  LET t == [r EXCEPT !.op = "none", !.failed = f] IN AtRest(t)
  BY <1>0, <1>2, <1>3 DEF CallOK, AtRest, Making, Local
<1>4. CASE r.at = "acquiring"
  <2>1. s = Acquired(r) /\ ~r.holds /\ r.left = (IF r.op = "ok" THEN 1 ELSE 0) /\ ~r.child
        /\ ~r.doomed
    BY <1>4 DEF Resumed, CallOK, Making, Local
  <2>2. CASE r.op = "ok" /\ r.kind = "persist"
    <3>1. s = Return(r)
      BY <2>1, <2>2 DEF Acquired
    <3>. QED
      BY <1>0, <1>4, <2>1, <2>2, <3>1, Returned
         DEF Onward, CallOK, Awaited, OwnTask, Making, Local, Keeps
  <2>3. CASE r.op = "ok" /\ r.kind # "persist"
    <3>. DEFINE a == Await(r, "talking")
                t == [a EXCEPT !.holds = TRUE]
    <3>1. s = t
      BY <2>1, <2>3 DEF Acquired
    <3>2. /\ a \in CallRecord /\ a.at = "talking" /\ a.op = "pending" /\ a.kind = r.kind
          /\ a.left = 1 /\ a.child = FALSE /\ a.doomed = r.doomed
      BY <1>0, <2>1, <2>3, Awaiting DEF Awaited
    <3>. HIDE DEF a
    <3>3. /\ t \in CallRecord /\ t.at = "talking" /\ t.op = "pending" /\ t.kind = r.kind
          /\ t.left = 1 /\ t.child = FALSE /\ t.doomed = r.doomed /\ t.holds = TRUE
      BY <3>2 DEF CallRecord
    <3>. HIDE DEF t, s
    <3>. QED
      BY <1>0, <1>4, <2>3, <3>1, <3>3 DEF Onward, CallOK, Awaited, OwnTask, Making, Local, s
  <2>4. CASE r.op = "failed" /\ r.kind = "run"
    <3>. DEFINE t == [r EXCEPT !.at = "gate", !.op = "none"]
    <3>1. s = t
      BY <2>1, <2>4 DEF Acquired
    <3>2. /\ t \in CallRecord /\ t.at = "gate" /\ t.op = "none" /\ t.kind = r.kind
          /\ t.left = r.left /\ t.child = r.child /\ t.doomed = r.doomed /\ t.holds = r.holds
      BY <1>0 DEF CallRecord
    <3>. HIDE DEF t, s
    <3>. QED
      BY <1>0, <1>4, <2>1, <2>4, <3>1, <3>2
         DEF Onward, CallOK, Awaited, OwnTask, Making, Local, s
  <2>5. CASE r.op = "failed" /\ r.kind # "run"
    <3>1. s = Leave([r EXCEPT !.op = "none", !.failed = TRUE])
      BY <2>1, <2>5 DEF Acquired
    <3>2. AtRest([r EXCEPT !.op = "none", !.failed = TRUE])
      BY <1>3, <1>4, <2>1, <2>5
    <3>. QED
      BY <1>0, <1>2, <1>4, <3>1, <3>2, LeaveOK DEF Onward, Local, OwnTask
  <2>. QED
    BY <2>2, <2>3, <2>4, <2>5
<1>5. CASE r.at = "lateAcquire"
  <2>1. s = LateAcquired(r) /\ ~r.holds /\ r.left = (IF r.op = "ok" THEN 1 ELSE 0) /\ ~r.child
    BY <1>5 DEF Resumed, CallOK, Making, Local
  <2>2. CASE r.op = "ok" /\ r.kind # "peek"
    <3>1. s = Delete(r) /\ r.left = 1
      BY <2>1, <2>2 DEF LateAcquired
    <3>2. /\ s \in CallRecord /\ s.at = "deleting" /\ s.op = "pending" /\ s.kind = r.kind
          /\ s.left = 0 /\ ~s.holds /\ s.child = r.child
      BY <1>0, <3>1, Deleting
    <3>. HIDE DEF s
    <3>3. CallOK(s)
      BY <1>0, <2>1, <3>2 DEF CallOK, Awaited, OwnTask, Making, Local
    <3>. QED
      BY <1>5, <3>2, <3>3 DEF Onward, Local, s
  <2>3. CASE ~(r.op = "ok" /\ r.kind # "peek")
    <3>1. s = Return(r)
      BY <2>1, <2>3 DEF LateAcquired
    <3>. QED
      BY <1>0, <1>5, <2>1, <2>3, <3>1, Returned
         DEF Onward, CallOK, Awaited, OwnTask, Making, Local, Keeps
  <2>. QED
    BY <2>2, <2>3
<1>6. CASE r.at = "talking"
  <2>1. s = Talked(r) /\ r.left = (IF r.holds THEN 1 ELSE 0) /\ r.kind # "persist" /\ ~r.child
    BY <1>6 DEF Resumed, CallOK, Local
  <2>2. CASE r.op = "failed" /\ r.kind = "run"
    <3>. DEFINE t == [r EXCEPT !.at = "gate", !.op = "none"]
    <3>1. s = t
      BY <2>1, <2>2 DEF Talked
    <3>2. /\ t \in CallRecord /\ t.at = "gate" /\ t.op = "none" /\ t.kind = r.kind
          /\ t.left = r.left /\ t.child = r.child /\ t.doomed = r.doomed /\ t.holds = r.holds
      BY <1>0 DEF CallRecord
    <3>. HIDE DEF t, s
    <3>. QED
      BY <1>0, <1>6, <2>1, <2>2, <3>1, <3>2
         DEF Onward, CallOK, Awaited, OwnTask, Making, Local, s
  <2>3. CASE ~(r.op = "failed" /\ r.kind = "run")
    <3>. DEFINE f == r.op = "failed"
    <3>1. s = Leave([r EXCEPT !.op = "none", !.failed = f]) /\ f \in BOOLEAN
      BY <2>1, <2>3 DEF Talked
    <3>. HIDE DEF f
    <3>2. AtRest([r EXCEPT !.op = "none", !.failed = f])
      BY <1>3, <1>6, <3>1
    <3>3. [r EXCEPT !.op = "none", !.failed = f].kind = r.kind
      BY <1>2, <3>1
    <3>. QED
      BY <1>0, <1>6, <3>1, <3>2, <3>3, LeaveOK DEF Onward, Local, OwnTask
  <2>. QED
    BY <2>2, <2>3
<1>7. ASSUME r.at \in {"forking", "lateFork", "reaping", "deleting"}, ~left.child
      PROVE  Onward(r, Leave(left))
  <2>1. AtRest(left)
    BY <1>0, <1>1, <1>7 DEF CallOK, AtRest, Local
  <2>. QED
    BY <1>0, <1>1, <1>7, <2>1, LeaveOK DEF Onward, Local, OwnTask
<1>8. ASSUME r.at \in {"forking", "lateFork", "child"}, NEW at \in {"child", "reaping"}
      PROVE  Onward(r, Await(r, at))
  <2>1. /\ r.left = (IF r.holds THEN 1 ELSE 0) /\ r.kind # "persist"
    BY <1>8 DEF CallOK, Local
  <2>2. at \in Awaited /\ at \in Local
    BY DEF Awaited, OwnTask, Local
  <2>3. LET t == Await(r, at) IN
        /\ t \in CallRecord /\ t.at = at /\ t.op = "pending" /\ t.kind = r.kind
        /\ t.left = r.left /\ t.holds = r.holds
    BY <1>0, <2>2, Awaiting
  <2>. QED
    BY <1>0, <1>8, <2>1, <2>2, <2>3 DEF Onward, CallOK, Local, Making
<1>9. CASE r.at \in {"forking", "lateFork"}
  <2>1. s = Forked(r)
    BY <1>9 DEF Resumed
  <2>2. CASE r.op = "failed"
    <3>1. s = Leave(left) /\ ~left.child
      BY <1>1, <1>9, <2>1, <2>2 DEF Forked, CallOK
    <3>. QED
      BY <1>7, <1>9, <3>1
  <2>3. CASE r.op = "ok"
    <3>1. s = Await(r, IF r.at = "lateFork" THEN "reaping" ELSE "child")
      BY <2>1, <2>3 DEF Forked
    <3>. QED
      BY <1>8, <1>9, <3>1
  <2>. QED
    BY <2>2, <2>3
<1>10. CASE r.at = "child"
  <2>1. s = Await(r, "reaping")
    BY <1>10 DEF Resumed
  <2>. QED
    BY <1>8, <1>10, <2>1
<1>11. CASE r.at \in {"reaping", "deleting"}
  <2>1. s = Leave(left) /\ ~left.child
    BY <1>1, <1>11 DEF Resumed, CallOK, Local
  <2>. QED
    BY <1>7, <1>11, <2>1
<1>. HIDE DEF s, left
<1>. QED
  BY <1>0, <1>4, <1>5, <1>6, <1>9, <1>10, <1>11 DEF Awaited, OwnTask, s

\* A cancellation, by the await it meets.
LEMMA CancelledOK ==
  ASSUME NEW r, CallOK(r), r.at \notin {"none", "done"}
  PROVE  Onward(r, Cancelled(r))
<1>. DEFINE s == Cancelled(r)
            d == [r EXCEPT !.doomed = TRUE]
<1>0. r \in CallRecord /\ r.kind # "none"
  BY DEF CallOK
<1>1. /\ d \in CallRecord /\ d.kind = r.kind /\ d.at = r.at /\ d.op = r.op
      /\ d.left = r.left /\ (d.holds <=> r.holds) /\ d.doomed
      /\ (d.child <=> r.child) /\ (d.failed <=> r.failed)
  BY <1>0 DEF CallRecord
<1>2. ASSUME r.at \in {"acquiring", "forking"}, NEW at \in {"lateAcquire", "lateFork"},
             r.at = "acquiring" => at = "lateAcquire", r.at = "forking" => at = "lateFork"
      PROVE  Onward(r, [d EXCEPT !.at = at])
  <2>. DEFINE t == [d EXCEPT !.at = at]
  <2>1. /\ t \in CallRecord /\ t.kind = r.kind /\ t.at = at /\ t.op = r.op
        /\ t.left = r.left /\ (t.holds <=> r.holds) /\ (t.child <=> r.child)
    BY <1>1 DEF CallRecord, OwnTask
  <2>. HIDE DEF t, d
  <2>2. CallOK(t)
    BY <1>2, <2>1 DEF CallOK, Making, Local, Awaited, OwnTask
  <2>3. Onward(r, t)
    BY <1>2, <2>1, <2>2 DEF Onward, Local
  <2>. QED
    BY <2>3 DEF t
<1>3. CASE r.at = "acquiring"
  <2>1. s = [d EXCEPT !.at = "lateAcquire"]
    BY <1>3 DEF Cancelled
  <2>. QED
    BY <1>2, <1>3, <2>1
<1>4. CASE r.at = "forking"
  <2>1. s = [d EXCEPT !.at = "lateFork"]
    BY <1>4 DEF Cancelled
  <2>. QED
    BY <1>2, <1>4, <2>1
<1>5. CASE r.at \in {"lateAcquire", "lateFork", "reaping", "deleting"}
  <2>1. s = d
    BY <1>5 DEF Cancelled
  <2>. HIDE DEF d
  <2>2. CallOK(d)
    BY <1>1, <1>5 DEF CallOK, Making, Local, Awaited, OwnTask
  <2>. HIDE DEF s
  <2>. QED
    BY <1>1, <1>5, <2>1, <2>2 DEF Onward, s
<1>6. CASE r.at \in {"talking", "gate", "slot"}
  <2>. DEFINE t == [d EXCEPT !.op = "none"]
  <2>1. s = Leave(t)
    BY <1>6 DEF Cancelled
  <2>2. /\ t \in CallRecord /\ t.kind = r.kind /\ t.left = r.left
        /\ (t.holds <=> r.holds) /\ (t.child <=> r.child) /\ (t.failed <=> r.failed)
    BY <1>1 DEF CallRecord
  <2>. HIDE DEF t, d, s
  <2>3. AtRest(t)
    BY <1>0, <1>6, <2>2 DEF CallOK, AtRest, Local
  <2>4. r.at = "slot" => ~t.failed /\ ~t.holds
    BY <2>2 DEF CallOK
  <2>5. CallOK(s) /\ s.kind = r.kind /\ s.at \in {"deleting", "acquiring", "done"}
        /\ (r.at = "slot" => s.at = "done")
    BY <2>1, <2>2, <2>3, <2>4, LeaveOK
  <2>. QED
    BY <1>6, <2>5 DEF Onward, Local, s
<1>7. CASE r.at = "child" /\ r.op = "pending"
  <2>1. s = Await(d, "reaping")
    BY <1>7 DEF Cancelled
  <2>. HIDE DEF d, s
  <2>2. /\ s \in CallRecord /\ s.kind = r.kind /\ s.at = "reaping" /\ s.op = "pending"
        /\ s.left = r.left /\ (s.holds <=> r.holds)
    BY <1>1, <2>1, Awaiting DEF Awaited, OwnTask
  <2>3. CallOK(s)
    BY <1>0, <1>7, <2>2 DEF CallOK, Making, Local, Awaited, OwnTask
  <2>. QED
    BY <1>7, <2>2, <2>3 DEF Onward, Local, s
<1>8. CASE r.at = "child" /\ r.op # "pending"
  <2>1. s = r
    BY <1>8 DEF Cancelled
  <2>. QED
    BY <1>8, <2>1 DEF Onward
<1>. HIDE DEF s, d
<1>. QED
  BY <1>0, <1>3, <1>4, <1>5, <1>6, <1>7, <1>8, CallFields DEF OwnTask, s

-----------------------------------------------------------------------------
LEMMA PlacesFinite ==
  ASSUME NEW S \in SUBSET Calls
  PROVE  IsFiniteSet(S) /\ Cardinality(S) \in Nat
BY SandboxExecutorAssumption, FS_Subset, FS_CardinalityType

LEMMA Fewer ==
  ASSUME NEW S \in SUBSET Calls, NEW T \in SUBSET S, NEW n \in Nat, Cardinality(S) <= n
  PROVE  Cardinality(T) <= n
<1>1. Cardinality(T) <= Cardinality(S) /\ Cardinality(T) \in Nat /\ Cardinality(S) \in Nat
  BY PlacesFinite, FS_Subset
<1>. QED
  BY <1>1

LEMMA OneMore ==
  ASSUME NEW S \in SUBSET Calls, NEW T, NEW c, T \subseteq S \cup {c}, NEW n \in Nat,
         Cardinality(S) < n
  PROVE  Cardinality(T) <= n
<1>1. IsFiniteSet(S) /\ Cardinality(S) \in Nat
  BY PlacesFinite
<1>2. IsFiniteSet(S \cup {c})
      /\ Cardinality(S \cup {c}) = IF c \in S THEN Cardinality(S) ELSE Cardinality(S) + 1
  BY <1>1, FS_AddElement
<1>3. Cardinality(T) <= Cardinality(S \cup {c}) /\ Cardinality(T) \in Nat
  BY <1>2, FS_Subset, FS_CardinalityType
<1>. QED
  BY <1>1, <1>2, <1>3

LEMMA NoCallFields ==
  /\ NoCall \in CallRecord /\ NoCall.at = "none" /\ NoCall.kind = "none" /\ NoCall.op = "none"
  /\ NoCall.left = 0 /\ ~NoCall.child /\ ~NoCall.holds /\ ~NoCall.doomed /\ ~NoCall.failed
BY DEF NoCall, CallRecord

\* The semaphore of a batch has a number of places.
LEMMA PlacesBounded ==
  ASSUME SandboxTypeOK
  PROVE  batch.limit \in Nat /\ batch.limit <= FanoutCeiling
BY SandboxExecutorAssumption DEF SandboxTypeOK, BatchRecord

LEMMA InitSandboxInv == InitSandboxes => SandboxInv
<1>. SUFFICES ASSUME InitSandboxes PROVE SandboxInv
  OBVIOUS
<1>. USE DEF InitSandboxes
<1>1. NoCall \in CallRecord /\ NoCall.at = "none" /\ NoCall.kind = "none" /\ NoCall.op = "none"
      /\ ~NoCall.child
  BY NoCallFields
<1>2. NoBatch \in BatchRecord
  BY SandboxExecutorAssumption DEF NoBatch, BatchRecord
<1>3. SandboxTypeOK
  BY <1>1, <1>2 DEF SandboxTypeOK
<1>4. \A c \in Calls : CallOK(call[c])
  BY <1>1 DEF CallOK, Making, Local
<1>5. Slots = {} /\ Interpreters = {} /\ BatchOK
  BY <1>1, SandboxExecutorAssumption DEF Slots, Interpreters, BatchOK, Local, NoBatch
<1>. QED
  BY <1>3, <1>4, <1>5, FS_EmptySet, SandboxExecutorAssumption DEF SandboxInv, NoBatch

\* Calls go on, and none takes a place it did not have.
LEMMA CallsMove ==
  ASSUME SandboxInv, call' \in [Calls -> CallRecord], client' = client, batch' \in BatchRecord,
         batch'.items = batch.items, batch'.route = batch.route, batch'.limit = batch.limit,
         batch'.at = "none" => batch' = batch,
         \A c \in Calls : call'[c] = call[c] \/ Onward(call[c], call'[c])
  PROVE  SandboxInv'
<1>. USE DEF SandboxInv
<1>1. SandboxTypeOK'
  BY DEF SandboxTypeOK
<1>2. \A c \in Calls : CallOK(call'[c])
  BY DEF Onward
<1>3. Slots' \subseteq Slots
  BY DEF Slots, Onward
<1>4. Interpreters' \subseteq Interpreters
  BY DEF Interpreters, Onward
<1>5. BatchOK'
  BY DEF BatchOK, Onward
<1>6. Slots \in SUBSET Calls /\ Interpreters \in SUBSET Calls
  BY DEF Slots, Interpreters
<1>. QED
  <2>1. Cardinality(Slots') <= batch'.limit /\ Cardinality(Interpreters') <= LocalMax
    BY <1>3, <1>4, <1>6, PlacesBounded, Fewer, SandboxExecutorAssumption
  <2>. QED
    BY <1>1, <1>2, <1>5, <2>1

LEMMA CallMoves ==
  ASSUME SandboxInv, NEW c \in Calls, NEW s, Onward(call[c], s),
         call' = [call EXCEPT ![c] = s], client' = client, batch' = batch
  PROVE  SandboxInv'
<1>1. s \in CallRecord
  BY DEF Onward, CallOK
<1>2. /\ call' \in [Calls -> CallRecord] /\ call'[c] = s /\ batch' \in BatchRecord
      /\ \A d \in Calls \ {c} : call'[d] = call[d]
  BY <1>1 DEF SandboxInv, SandboxTypeOK
<1>. QED
  BY <1>2, CallsMove

LEMMA BeginKeeps ==
  ASSUME SandboxInv, NEW c \in Calls, NEW kind \in Kinds, Begin(c, kind)
  PROVE  SandboxInv'
<1>. USE DEF SandboxInv
<1>. DEFINE r == [call[c] EXCEPT !.kind = kind]
            s == Enter(r)
<1>1. call[c] = NoCall /\ kind # "item" /\ client' = client /\ batch' = batch
      /\ call' = [call EXCEPT ![c] = s]
  BY DEF Begin, CallOK
<1>2. /\ r \in CallRecord /\ r.kind = kind /\ r.left = 0 /\ ~r.holds /\ ~r.child /\ ~r.doomed
      /\ r.op = "none"
  <2>1. call[c] \in CallRecord /\ call[c].left = 0 /\ ~call[c].child /\ ~call[c].holds
        /\ ~call[c].doomed /\ call[c].op = "none"
    BY <1>1, NoCallFields
  <2>2. /\ r \in CallRecord /\ r.kind = kind /\ r.left = call[c].left /\ (r.holds <=> call[c].holds)
        /\ (r.child <=> call[c].child) /\ (r.doomed <=> call[c].doomed) /\ r.op = call[c].op
    BY <2>1 DEF CallRecord
  <2>. HIDE DEF r
  <2>. QED
    BY <2>1, <2>2
<1>. HIDE DEF r
<1>3. CallOK(s) /\ s.kind = kind /\ s.at \in {"acquiring", "gate", "done"}
  BY <1>2, EnterOK DEF AtRest, Kinds
<1>. HIDE DEF s
<1>4. /\ call' \in [Calls -> CallRecord] /\ call'[c] = s
      /\ \A d \in Calls \ {c} : call'[d] = call[d]
  BY <1>1, <1>3 DEF SandboxTypeOK, CallOK
<1>5. SandboxTypeOK' /\ \A d \in Calls : CallOK(call'[d])
  BY <1>1, <1>3, <1>4 DEF SandboxTypeOK
<1>6. Slots' \subseteq Slots /\ Interpreters' \subseteq Interpreters /\ BatchOK'
  BY <1>1, <1>3, <1>4 DEF Slots, Interpreters, BatchOK, Local
<1>7. Slots \in SUBSET Calls /\ Interpreters \in SUBSET Calls
  BY DEF Slots, Interpreters
<1>8. Cardinality(Slots') <= batch'.limit /\ Cardinality(Interpreters') <= LocalMax
  BY <1>1, <1>6, <1>7, PlacesBounded, Fewer, SandboxExecutorAssumption
<1>. QED
  BY <1>5, <1>6, <1>8

LEMMA SlotKeeps ==
  ASSUME SandboxInv, NEW c \in Calls, TakeSlot(c)
  PROVE  SandboxInv'
<1>. USE DEF SandboxInv
<1>. DEFINE r == call[c]
            s == Enter(r)
<1>1. r.at = "slot" /\ Cardinality(Slots) < batch.limit /\ client' = client /\ batch' = batch
      /\ call' = [call EXCEPT ![c] = s]
  BY DEF TakeSlot
<1>2. AtRest(r) /\ ~r.holds /\ ~r.doomed /\ r.op = "none" /\ r.kind = "item"
  BY <1>1, CallFields DEF CallOK, AtRest, Awaited, OwnTask, Local
<1>. HIDE DEF r
<1>3. CallOK(s) /\ s.kind = "item" /\ s.at \in {"acquiring", "gate", "done"}
  BY <1>2, EnterOK
<1>. HIDE DEF s
<1>4. /\ call' \in [Calls -> CallRecord] /\ call'[c] = s
      /\ \A d \in Calls \ {c} : call'[d] = call[d]
  BY <1>1, <1>3 DEF SandboxTypeOK, CallOK
<1>5. SandboxTypeOK' /\ \A d \in Calls : CallOK(call'[d])
  BY <1>1, <1>3, <1>4 DEF SandboxTypeOK
<1>6. Slots' \subseteq Slots \cup {c} /\ Interpreters' \subseteq Interpreters
  BY <1>3, <1>4 DEF Slots, Interpreters, Local
<1>7. BatchOK'
  BY <1>1, <1>2, <1>4 DEF BatchOK, r
<1>8. Slots \in SUBSET Calls /\ Interpreters \in SUBSET Calls
  BY DEF Slots, Interpreters
<1>9. Cardinality(Slots') <= batch'.limit /\ Cardinality(Interpreters') <= LocalMax
  BY <1>1, <1>6, <1>8, PlacesBounded, Fewer, OneMore, SandboxExecutorAssumption
<1>. QED
  BY <1>5, <1>7, <1>9

LEMMA GateKeeps ==
  ASSUME SandboxInv, NEW c \in Calls, TakeGate(c)
  PROVE  SandboxInv'
<1>. USE DEF SandboxInv
<1>. DEFINE r == call[c]
            s == Await(r, "forking")
<1>1. r.at = "gate" /\ Cardinality(Interpreters) < LocalMax /\ client' = client /\ batch' = batch
      /\ call' = [call EXCEPT ![c] = s]
  BY DEF TakeGate
<1>2. CallOK(r) /\ r \in CallRecord
  BY DEF SandboxTypeOK
<1>. HIDE DEF r
<1>3. /\ s \in CallRecord /\ s.at = "forking" /\ s.op = "pending" /\ s.kind = r.kind
      /\ s.left = r.left /\ (s.holds <=> r.holds) /\ (s.child <=> r.child)
  BY <1>2, Awaiting DEF Awaited, OwnTask
<1>. HIDE DEF s
<1>4. CallOK(s)
  BY <1>1, <1>2, <1>3 DEF CallOK, Making, Local, Awaited, OwnTask
<1>5. /\ call' \in [Calls -> CallRecord] /\ call'[c] = s
      /\ \A d \in Calls \ {c} : call'[d] = call[d]
  BY <1>1, <1>3 DEF SandboxTypeOK
<1>6. SandboxTypeOK' /\ \A d \in Calls : CallOK(call'[d])
  BY <1>1, <1>4, <1>5 DEF SandboxTypeOK
<1>7. Slots' \subseteq Slots /\ Interpreters' \subseteq Interpreters \cup {c}
  BY <1>1, <1>3, <1>5 DEF Slots, Interpreters, r
<1>8. BatchOK'
  BY <1>1, <1>3, <1>5 DEF BatchOK, r
<1>9. Slots \in SUBSET Calls /\ Interpreters \in SUBSET Calls
  BY DEF Slots, Interpreters
<1>10. Cardinality(Slots') <= batch'.limit /\ Cardinality(Interpreters') <= LocalMax
  BY <1>1, <1>7, <1>9, PlacesBounded, Fewer, OneMore, SandboxExecutorAssumption
<1>. QED
  BY <1>6, <1>8, <1>10

LEMMA WaitKeeps ==
  ASSUME SandboxInv, NEW c \in Calls,
         Proceed(c) \/ ChildTimesOut(c) \/ CancelCall(c)
           \/ \E out \in {"ok", "failed"} : Operate(c, out)
  PROVE  SandboxInv'
<1>. DEFINE r == call[c]
<1>0. CallOK(r) /\ r \in CallRecord
  BY DEF SandboxInv, SandboxTypeOK
<1>1. CASE Proceed(c)
  <2>1. Onward(r, Resumed(r))
    BY <1>0, <1>1, ResumedOK DEF Proceed
  <2>. QED
    BY <1>1, <2>1, CallMoves DEF Proceed
<1>2. CASE ChildTimesOut(c)
  <2>. DEFINE s == Await(r, "reaping")
  <2>1. r.at = "child" /\ r.op = "pending" /\ call' = [call EXCEPT ![c] = s]
        /\ client' = client /\ batch' = batch
    BY <1>2 DEF ChildTimesOut
  <2>2. /\ s \in CallRecord /\ s.kind = r.kind /\ s.at = "reaping" /\ s.op = "pending"
        /\ s.left = r.left /\ (s.holds <=> r.holds)
    BY <1>0, Awaiting DEF Awaited, OwnTask
  <2>. HIDE DEF s, r
  <2>3. CallOK(s)
    BY <1>0, <2>1, <2>2 DEF CallOK, Making, Local, Awaited, OwnTask
  <2>4. Onward(r, s)
    BY <2>1, <2>2, <2>3 DEF Onward, Local
  <2>. QED
    BY <2>1, <2>4, CallMoves DEF r
<1>3. CASE CancelCall(c)
  <2>1. Onward(r, Cancelled(r))
    BY <1>0, <1>3, CancelledOK DEF CancelCall
  <2>. QED
    BY <1>3, <2>1, CallMoves DEF CancelCall
<1>4. ASSUME NEW out \in {"ok", "failed"}, Operate(c, out) PROVE SandboxInv'
  <2>. DEFINE s == Operated(r, out)
  <2>1. r.op = "pending" /\ call' = [call EXCEPT ![c] = s] /\ client' = client /\ batch' = batch
    BY <1>4 DEF Operate
  <2>2. CallOK(s) /\ s.kind = r.kind /\ s.at = r.at /\ r.at \in Awaited
    BY <1>0, <2>1, OperatedOK DEF CallOK
  <2>. HIDE DEF s, r
  <2>3. Onward(r, s)
    BY <2>2 DEF Onward, Awaited, OwnTask
  <2>. QED
    BY <2>1, <2>3, CallMoves DEF r
<1>. QED
  BY <1>1, <1>2, <1>3, <1>4

LEMMA ClaimReleaseKeeps ==
  ASSUME SandboxInv, ReleaseBatch \/ \E route \in Routes : ClaimBatch(route)
  PROVE  SandboxInv'
<1>. USE DEF SandboxInv
<1>1. NoBatch \in BatchRecord /\ NoBatch.items = {} /\ NoBatch.at = "none"
      /\ NoBatch.route = "none" /\ NoBatch.limit = 0
  BY SandboxExecutorAssumption DEF NoBatch, BatchRecord
<1>2. /\ client' = client /\ call' = call /\ batch' \in BatchRecord /\ batch'.items = {}
      /\ batch'.limit = 0 /\ (batch'.at = "none" => batch' = NoBatch)
      /\ {c \in Calls : call[c].kind = "item" /\ call[c].at # "done"} = {}
  <2>1. ASSUME NEW route \in Routes, ClaimBatch(route) PROVE <1>2
    <3>1. /\ [NoBatch EXCEPT !.at = "reading", !.route = route] \in BatchRecord
          /\ [NoBatch EXCEPT !.at = "reading", !.route = route].items = {}
          /\ [NoBatch EXCEPT !.at = "reading", !.route = route].limit = 0
          /\ [NoBatch EXCEPT !.at = "reading", !.route = route].at = "reading"
      BY <1>1 DEF BatchRecord
    <3>. QED
      BY <1>1, <2>1, <3>1 DEF ClaimBatch, BatchOK
  <2>2. CASE ReleaseBatch
    BY <1>1, <2>2 DEF ReleaseBatch, BatchOK, Ongoing
  <2>. QED
    BY <2>1, <2>2
<1>3. BatchOK'
  BY <1>2, SandboxExecutorAssumption DEF BatchOK
<1>4. /\ SandboxTypeOK' /\ Interpreters' = Interpreters
      /\ Slots' = {}
  BY <1>2 DEF SandboxTypeOK, Slots, Interpreters
<1>. QED
  BY <1>2, <1>3, <1>4, FS_EmptySet

LEMMA LaunchKeeps ==
  ASSUME SandboxInv, NEW items \in SUBSET Calls, Launch(items)
  PROVE  SandboxInv'
<1>. USE DEF SandboxInv
<1>. DEFINE slotted == [NoCall EXCEPT !.kind = "item", !.at = "slot"]
            limit == Concurrency(batch.route, items)
<1>1. /\ Ongoing = {} /\ client' = client
      /\ batch' = [batch EXCEPT !.at = "running", !.items = items, !.limit = limit]
      /\ call' = [c \in Calls |-> IF c \in items THEN slotted ELSE call[c]]
  BY DEF Launch
<1>2. limit \in 0..FanoutCeiling /\ (batch.route = "fanout" => limit <= FanoutLimit)
  <2>1. Cardinality(items) \in Nat
    BY FS_Subset, FS_CardinalityType, SandboxExecutorAssumption
  <2>. QED
    BY <2>1, SandboxExecutorAssumption DEF Concurrency
<1>. HIDE DEF limit
<1>3. /\ batch' \in BatchRecord /\ batch'.items = items /\ batch'.at = "running"
      /\ batch'.route = batch.route /\ batch'.limit = limit
  BY <1>1, <1>2 DEF SandboxTypeOK, BatchRecord
<1>4. /\ slotted \in CallRecord /\ slotted.kind = "item" /\ slotted.at = "slot"
      /\ slotted.op = "none" /\ slotted.left = 0 /\ ~slotted.holds
      /\ ~slotted.failed /\ ~slotted.doomed /\ ~slotted.child
  BY NoCallFields DEF CallRecord, Kinds, NoCall
<1>. HIDE DEF slotted
<1>5. \A c \in Calls : call'[c] = IF c \in items THEN slotted ELSE call[c]
  BY <1>1
<1>6. ASSUME NEW c \in Calls PROVE CallOK(call'[c])
  <2>1. CASE c \in items
    BY <1>4, <1>5, <2>1 DEF CallOK, Making, Local, Awaited, OwnTask
  <2>2. CASE c \notin items
    BY <1>5, <2>2
  <2>. QED
    BY <2>1, <2>2
<1>7. SandboxTypeOK'
  BY <1>1, <1>3, <1>4 DEF SandboxTypeOK
<1>8. Slots' = {} /\ Interpreters' \subseteq Interpreters
  BY <1>1, <1>4, <1>5 DEF Slots, Interpreters, Local, BatchOK, Ongoing
<1>9. BatchOK'
  BY <1>1, <1>2, <1>3, <1>5 DEF BatchOK, Ongoing
<1>10. Interpreters \in SUBSET Calls
  BY DEF Interpreters
<1>11. Cardinality(Slots') <= batch'.limit /\ Cardinality(Interpreters') <= LocalMax
  <2>1. Cardinality(Interpreters') <= LocalMax
    BY <1>8, <1>10, PlacesBounded, Fewer, SandboxExecutorAssumption
  <2>. QED
    BY <1>2, <1>3, <1>8, <2>1, FS_EmptySet, SandboxExecutorAssumption
<1>. QED
  BY <1>6, <1>7, <1>9, <1>11

LEMMA CancelBatchKeeps ==
  ASSUME SandboxInv, CancelBatch
  PROVE  SandboxInv'
<1>. USE DEF SandboxInv
<1>1. /\ client' = client /\ batch.at # "none" /\ batch' = [batch EXCEPT !.doomed = TRUE]
      /\ call' = [c \in Calls |-> IF c \in Ongoing THEN Cancelled(call[c]) ELSE call[c]]
  BY DEF CancelBatch
<1>2. /\ batch' \in BatchRecord /\ batch'.items = batch.items /\ batch'.at # "none"
      /\ batch'.route = batch.route /\ batch'.limit = batch.limit
  BY <1>1 DEF SandboxTypeOK, BatchRecord
<1>3. ASSUME NEW c \in Calls
      PROVE  call'[c] \in CallRecord /\ (call'[c] = call[c] \/ Onward(call[c], call'[c]))
  <2>1. CASE c \in Ongoing /\ call[c].at # "none"
    <3>1. Onward(call[c], Cancelled(call[c]))
      BY <2>1, CancelledOK DEF Ongoing
    <3>2. call'[c] = Cancelled(call[c])
      BY <1>1, <2>1
    <3>. QED
      BY <3>1, <3>2 DEF Onward, CallOK
  <2>2. CASE ~(c \in Ongoing /\ call[c].at # "none")
    <3>1. call[c].at = "none" => Cancelled(call[c]) = call[c]
      BY DEF Cancelled
    <3>2. call'[c] = call[c]
      BY <1>1, <2>2, <3>1
    <3>. QED
      BY <3>2 DEF SandboxTypeOK
  <2>. QED
    BY <2>1, <2>2
<1>4. call' \in [Calls -> CallRecord]
  BY <1>1, <1>3
<1>. QED
  BY <1>1, <1>2, <1>3, <1>4, CallsMove

LEMMA StepSandboxInv == SandboxInv /\ [NextSandboxes]_sandboxVars => SandboxInv'
<1>. SUFFICES ASSUME SandboxInv, [NextSandboxes]_sandboxVars PROVE SandboxInv'
  OBVIOUS
<1>1. CASE UNCHANGED sandboxVars
  BY <1>1 DEF sandboxVars, SandboxInv, SandboxTypeOK, Slots, Interpreters, BatchOK
<1>2. CASE NextSandboxes
  BY <1>2, BeginKeeps, SlotKeeps, GateKeeps, WaitKeeps, ClaimReleaseKeeps, LaunchKeeps,
     CancelBatchKeeps DEF NextSandboxes
<1>. QED
  BY <1>1, <1>2

\* Whatever calls and batches interleave and wherever they are cancelled, as often as
\* their callers like: a sandbox is deleted exactly once and no call ends before it is
\* gone, nor before its interpreter is reaped; a fan-out keeps to the configured limit,
\* a sweep's size to the ceiling, local runs to theirs; and only the batch that holds
\* the lock has items running, those of its latest size.
THEOREM SandboxesKept == SandboxSpec => []SandboxesHold
<1>1. SandboxInv => SandboxesHold
  <2>. SUFFICES ASSUME SandboxInv PROVE SandboxesHold
    OBVIOUS
  <2>. USE DEF SandboxInv
  <2>1. ASSUME NEW c \in Calls
        PROVE  LET r == call[c] IN
               /\ r.left \in {0, 1}
               /\ r.at = "done" =>
                    /\ r.op = "none" /\ ~r.child
                    /\ r.left = 1 => Keeps(r) /\ (r.kind = "persist" => ~r.doomed)
    <3>. DEFINE r == call[c]
    <3>1. CallOK(r) /\ r \in CallRecord
      BY DEF SandboxTypeOK
    <3>. HIDE DEF r
    <3>2. r.left \in {0, 1}
      BY <3>1, CallFields, NoCallFields DEF CallOK, Making, Local, OwnTask
    <3>3. r.at = "done" => r.op = "none" /\ ~r.child
      BY <3>1 DEF CallOK, Awaited, OwnTask, Local
    <3>4. r.at = "done" /\ r.left = 1 => Keeps(r) /\ (r.kind = "persist" => ~r.doomed)
      BY <3>1 DEF CallOK
    <3>. QED
      BY <3>2, <3>3, <3>4 DEF r
  <2>2. NoOrphanSandbox
    BY <2>1 DEF NoOrphanSandbox
  <2>. DEFINE Held == {c \in Calls : call[c].kind = "item" /\
                        (call[c].holds \/ call[c].at \in {"acquiring", "lateAcquire", "deleting"})}
              Children == {c \in Calls : call[c].child}
  <2>3. Held \subseteq Slots /\ Children \subseteq Interpreters
    BY NoCallFields DEF Slots, Interpreters, CallOK
  <2>4. Slots \in SUBSET Calls /\ Interpreters \in SUBSET Calls
    BY DEF Slots, Interpreters
  <2>. HIDE DEF Held, Children
  <2>5. Cardinality(Held) <= batch.limit /\ Cardinality(Children) <= LocalMax
    BY <2>3, <2>4, PlacesBounded, Fewer, SandboxExecutorAssumption
  <2>6. Cardinality(Held) <= IF batch.route = "fanout" THEN FanoutLimit ELSE FanoutCeiling
    <3>1. Cardinality(Held) \in Nat
      BY <2>3, <2>4, FS_Subset, FS_CardinalityType, SandboxExecutorAssumption
    <3>. QED
      BY <2>5, <3>1, PlacesBounded, SandboxExecutorAssumption DEF BatchOK
  <2>7. ExecutorWithinLimits
    BY <2>5, <2>6 DEF ExecutorWithinLimits, BatchOK, Held, Children
  <2>. QED
    BY <2>2, <2>7 DEF SandboxesHold
<1>. QED
  BY <1>1, InitSandboxInv, StepSandboxInv, PTL DEF SandboxSpec

-----------------------------------------------------------------------------
(***************************************************************************)
(* Ingest attempts.  What an attempt holds, what it has committed and what *)
(* it has checked go with its stage, whatever ended the stage before.      *)
(***************************************************************************)
CallStages == {"extracting", "embedding", "unwinding"}
Slotted == {"holding", "extracting", "extracted", "publishing", "unwinding"}
Writes == {"publishing", "storing", "merging"}
AfterPublication ==
  {"published", "embedding", "vectors", "storing", "embedded", "grouped", "merging",
   "merged", "restoring", "tail", "verifying"}

RunOK(r) ==
  /\ r \in Run
  /\ r.stage \notin CallStages => r.parts = All("none")
  /\ r.holds => r.stage \in Slotted /\ ~r.receipt
  /\ r.stage \in AfterPublication => r.receipt
  /\ r.stage = "unwinding" /\ r.after = "embedded" => r.receipt
  /\ r.receipt => \/ r.stage \in AfterPublication \cup {"queued", "over"}
                  \/ r.stage = "unwinding" /\ r.after # "failed"
  /\ r.stage \in Writes => r.vouched
  /\ r.stage # "over" => r.result = "open"
  /\ r.result = "succeeded" => r.receipt
  /\ r.result = "failed" /\ r.receipt => r.failedAt \in {"verifying", "queued"}

Holders == {a \in Attempts : run[a].holds}

IngestInv ==
  /\ IngestTypeOK /\ \A a \in Attempts : RunOK(run[a])
  /\ IsFiniteSet(Holders) /\ Cardinality(Holders) <= IngestSlots

\* A record an attempt may go on with: no slot appears, and no call without authority.
Fits(a, n) ==
  /\ RunOK(n)
  /\ n.holds => run[a].holds
  /\ \A p \in Parts : n.parts[p] = "calling" => run[a].parts[p] = "calling" \/ isEditor

LEMMA NoParts ==
  /\ All("none") \in [Parts -> {"none", "waiting", "calling", "done", "error"}]
  /\ All("waiting") \in [Parts -> {"none", "waiting", "calling", "done", "error"}]
  /\ \A p \in Parts : All("none")[p] = "none" /\ All("waiting")[p] = "waiting"
BY DEF All

\* No step but a call begins one, and no write is without a check.
LEMMA Authority ==
  ASSUME IngestInv,
         \A a \in Attempts, p \in Parts :
           run[a].parts[p] = "waiting" /\ run'[a].parts[p] = "calling" => isEditor
  PROVE  ActsWithAuthority
BY DEF ActsWithAuthority, IngestInv, RunOK, Writes, InStage

LEMMA GoesKeeps ==
  ASSUME IngestInv, NEW a \in Attempts, NEW n, Fits(a, n), Goes(a, n)
  PROVE  IngestInv' /\ ActsWithAuthority
<1>1. /\ run' = [run EXCEPT ![a] = n]
      /\ isEditor' = isEditor /\ roleChanges' = roleChanges /\ losses' = losses
  BY DEF Goes
<1>2. /\ run'[a] = n /\ \A b \in Attempts \ {a} : run'[b] = run[b]
  BY <1>1 DEF IngestInv, IngestTypeOK
<1>3. IngestTypeOK'
  BY <1>1 DEF IngestInv, IngestTypeOK, Fits, RunOK
<1>4. \A b \in Attempts : RunOK(run'[b])
  BY <1>2 DEF IngestInv, Fits
<1>5. Holders' \in SUBSET Holders
  BY <1>2 DEF Holders, Fits
<1>6. IsFiniteSet(Holders') /\ Cardinality(Holders') <= IngestSlots
  <2>1. IsFiniteSet(Holders') /\ Cardinality(Holders') <= Cardinality(Holders)
    BY <1>5, FS_Subset DEF IngestInv
  <2>. QED
    BY <2>1, FS_CardinalityType, IngestAssumption DEF IngestInv
<1>7. (\A b \in Attempts : RunOK(run[b]))'
  BY <1>4 DEF RunOK, All
<1>8. ActsWithAuthority
  BY <1>2, Authority DEF Fits
<1>. QED
  BY <1>3, <1>6, <1>7, <1>8 DEF IngestInv

\* The ends of an attempt.
LEMMA EndFits ==
  ASSUME IngestInv, NEW a \in Attempts, run[a].stage # "over",
         NEW result \in {"succeeded", "failed", "cancelled"},
         result = "succeeded" => run[a].receipt,
         result = "failed" /\ run[a].receipt => run[a].stage \in {"verifying", "queued"}
  PROVE  Fits(a, Concluded(run[a], result))
<1>. DEFINE r == run[a]
            n == Concluded(r, result)
<1>1. r \in Run /\ RunOK(r)
  BY DEF IngestInv, IngestTypeOK
<1>2. /\ n \in Run /\ n.stage = "over" /\ n.parts = All("none") /\ n.result = result
      /\ ~n.holds /\ (n.receipt <=> r.receipt)
      /\ n.failedAt = IF r.receipt THEN r.stage ELSE "queued"
  <2>. DEFINE at == IF r.receipt THEN r.stage ELSE "queued"
              none == All("none")
  <2>1. at \in Stages /\ none \in [Parts -> {"none", "waiting", "calling", "done", "error"}]
    BY <1>1, NoParts DEF Run, Stages
  <2>2. n = [r EXCEPT !.stage = "over", !.parts = none, !.result = result, !.holds = FALSE,
                      !.vouched = FALSE, !.failedAt = at]
    BY DEF Concluded
  <2>. HIDE DEF r, n, none, at
  <2>3. /\ n \in Run /\ n.stage = "over" /\ n.parts = none /\ n.result = result
        /\ ~n.holds /\ (n.receipt <=> r.receipt) /\ n.failedAt = at
    BY <1>1, <2>1, <2>2 DEF Run, Stages
  <2>. QED
    BY <2>3 DEF none, at
<1>3. RunOK(n)
  <2>. HIDE DEF n
  <2>. QED
    BY <1>2 DEF RunOK, Slotted, AfterPublication, Writes, CallStages
<1>4. \A p \in Parts : n.parts[p] # "calling"
  BY <1>2, NoParts
<1>. QED
  BY <1>2, <1>3, <1>4 DEF Fits

LEMMA AbandonFits ==
  ASSUME IngestInv, NEW a \in Attempts, run[a].stage \in {"extracting", "embedding"},
         NEW after \in {"embedded", "cancelled", "failed"},
         run[a].stage = "extracting" => after # "embedded",
         run[a].stage = "embedding" => after # "failed"
  PROVE  Fits(a, Abandoned(run[a], after))
<1>. DEFINE r == run[a]
            n == Abandoned(r, after)
            left == [p \in Parts |-> IF r.parts[p] = "calling" THEN "calling" ELSE "none"]
<1>1. r \in Run /\ RunOK(r)
  BY DEF IngestInv, IngestTypeOK
<1>2. left \in [Parts -> {"none", "waiting", "calling", "done", "error"}]
  OBVIOUS
<1>3. n = [r EXCEPT !.stage = "unwinding", !.after = after, !.parts = left]
  BY DEF Abandoned
<1>4. \A p \in Parts : left[p] = "calling" => r.parts[p] = "calling"
  OBVIOUS
<1>. HIDE DEF left
<1>5. /\ n \in Run /\ n.stage = "unwinding" /\ n.parts = left /\ n.result = r.result
      /\ (n.holds <=> r.holds) /\ (n.receipt <=> r.receipt) /\ n.after = after
      /\ n.failedAt = r.failedAt
  <2>. HIDE DEF n, r
  <2>. QED
    BY <1>1, <1>2, <1>3 DEF Run, Stages
<1>6. RunOK(n)
  <2>. HIDE DEF n
  <2>. QED
    BY <1>1, <1>5 DEF RunOK, Slotted, AfterPublication, Writes, CallStages
<1>. QED
  BY <1>4, <1>5, <1>6 DEF Fits

\* The next stage of an attempt, after a check or without one.
GoesOn(a, stage, parts, holds, vouched) ==
  [run[a] EXCEPT !.stage = stage, !.parts = parts, !.holds = holds, !.vouched = vouched]

LEMMA NextFits ==
  ASSUME IngestInv, NEW a \in Attempts, run[a].stage # "over",
         NEW stage \in Stages \ {"over", "queued", "unwinding"}, NEW vouched \in BOOLEAN,
         NEW parts \in {run[a].parts, All("none"), All("waiting")},
         NEW holds \in BOOLEAN, holds => run[a].holds,
         stage \in CallStages \/ parts = All("none"),
         holds => stage \in Slotted,
         stage \in AfterPublication <=> run[a].receipt,
         stage \in Writes => vouched
  PROVE  Fits(a, GoesOn(a, stage, parts, holds, vouched))
<1>. DEFINE r == run[a]
            n == GoesOn(a, stage, parts, holds, vouched)
<1>1. r \in Run /\ RunOK(r)
  BY DEF IngestInv, IngestTypeOK
<1>2. parts \in [Parts -> {"none", "waiting", "calling", "done", "error"}]
  BY <1>1, NoParts DEF Run
<1>3. /\ n \in Run /\ n.stage = stage /\ n.parts = parts /\ n.result = r.result
      /\ (n.holds <=> holds) /\ (n.receipt <=> r.receipt) /\ (n.vouched <=> vouched)
      /\ n.failedAt = r.failedAt
  <2>1. n = [r EXCEPT !.stage = stage, !.parts = parts, !.holds = holds,
                      !.vouched = vouched]
    BY DEF GoesOn
  <2>. HIDE DEF r, n
  <2>. QED
    BY <1>1, <1>2, <2>1 DEF Run
<1>4. RunOK(n)
  <2>. HIDE DEF n
  <2>. QED
    BY <1>1, <1>3 DEF RunOK
<1>5. \A p \in Parts : parts[p] = "calling" => r.parts[p] = "calling"
  BY NoParts
<1>. QED
  BY <1>3, <1>4, <1>5 DEF Fits
LEMMA Shapes ==
  ASSUME IngestInv, NEW a \in Attempts, NEW stage, NEW parts, NEW vouched
  PROVE  /\ To(a, stage) = GoesOn(a, stage, run[a].parts, run[a].holds, run[a].vouched)
         /\ [To(a, stage) EXCEPT !.vouched = vouched]
              = GoesOn(a, stage, run[a].parts, run[a].holds, vouched)
         /\ [To(a, stage) EXCEPT !.parts = parts]
              = GoesOn(a, stage, parts, run[a].holds, run[a].vouched)
         /\ [[To(a, stage) EXCEPT !.parts = parts] EXCEPT !.vouched = vouched]
              = GoesOn(a, stage, parts, run[a].holds, vouched)
<1>1. run[a] \in Run
  BY DEF IngestInv, IngestTypeOK
<1>. QED
  BY <1>1 DEF GoesOn, To, Run

LEMMA CheckedKeeps ==
  ASSUME IngestInv, NEW a \in Attempts, run[a].stage # "over",
         run[a].receipt => run[a].stage \in {"verifying", "queued"},
         NEW n, Fits(a, [n EXCEPT !.vouched = TRUE]), Checked(a, n)
  PROVE  IngestInv' /\ ActsWithAuthority
BY GoesKeeps, EndFits DEF Checked, CheckPasses, CheckFails

LEMMA ReportedKeeps ==
  ASSUME IngestInv, NEW a \in Attempts, run[a].stage # "over",
         NEW n, Fits(a, n), Fits(a, [n EXCEPT !.vouched = TRUE]), Reported(a, n)
  PROVE  IngestInv' /\ ActsWithAuthority
BY GoesKeeps, EndFits DEF Reported, CheckPasses, CheckFails

\* A stage the attempt may go on to with what it has, checked or not.
LEMMA ToFits ==
  ASSUME IngestInv, NEW a \in Attempts, run[a].stage \notin CallStages \cup {"over"},
         NEW stage \in Stages \ {"over", "queued", "unwinding"},
         run[a].holds => stage \in Slotted,
         stage \in AfterPublication <=> run[a].receipt
  PROVE  /\ stage \notin Writes => Fits(a, To(a, stage))
         /\ stage \notin Writes /\ stage \in CallStages
              => Fits(a, [To(a, stage) EXCEPT !.parts = All("waiting")])
         /\ Fits(a, [To(a, stage) EXCEPT !.vouched = TRUE])
         /\ run[a].stage \in Writes /\ stage \notin Writes
              => Fits(a, [To(a, stage) EXCEPT !.vouched = isEditor])
         /\ stage \in CallStages
              => Fits(a, [[To(a, stage) EXCEPT !.parts = All("waiting")] EXCEPT !.vouched = TRUE])
<1>1. /\ run[a] \in Run /\ run[a].parts = All("none") /\ run[a].holds \in BOOLEAN
      /\ run[a].vouched \in BOOLEAN /\ isEditor \in BOOLEAN
  BY DEF IngestInv, IngestTypeOK, RunOK, Run
<1>2. /\ Fits(a, GoesOn(a, stage, run[a].parts, run[a].holds, TRUE))
      /\ stage \in CallStages => Fits(a, GoesOn(a, stage, All("waiting"), run[a].holds, TRUE))
  BY <1>1, NextFits
<1>3. stage \notin Writes =>
        /\ Fits(a, GoesOn(a, stage, run[a].parts, run[a].holds, run[a].vouched))
        /\ Fits(a, GoesOn(a, stage, run[a].parts, run[a].holds, isEditor))
        /\ stage \in CallStages =>
             Fits(a, GoesOn(a, stage, All("waiting"), run[a].holds, run[a].vouched))
  BY <1>1, NextFits
<1>. QED
  BY <1>2, <1>3, Shapes

\* From a stage with calls, none left.
LEMMA LeaveFits ==
  ASSUME IngestInv, NEW a \in Attempts, run[a].stage \in CallStages,
         NEW stage \in Stages \ (CallStages \cup Writes \cup {"over", "queued"}),
         run[a].holds => stage \in Slotted,
         stage \in AfterPublication <=> run[a].receipt
  PROVE  Fits(a, [To(a, stage) EXCEPT !.parts = All("none")])
<1>1. run[a].holds \in BOOLEAN /\ run[a].vouched \in BOOLEAN
  BY DEF IngestInv, IngestTypeOK, Run
<1>2. Fits(a, GoesOn(a, stage, All("none"), run[a].holds, run[a].vouched))
  BY <1>1, NextFits DEF CallStages
<1>. QED
  BY <1>2, Shapes

\* One call begins or ends.
LEMMA CallFits ==
  ASSUME IngestInv, NEW a \in Attempts, NEW p \in Parts, run[a].stage \in CallStages,
         NEW end \in {"none", "calling", "done", "error"},
         end = "calling" => isEditor
  PROVE  /\ Fits(a, [run[a] EXCEPT !.parts[p] = end])
         /\ Fits(a, [run[a] EXCEPT !.parts[p] = end, !.vouched = isEditor])
<1>. DEFINE r == run[a]
            parts == [r.parts EXCEPT ![p] = end]
<1>1. r \in Run /\ RunOK(r) /\ isEditor \in BOOLEAN
  BY DEF IngestInv, IngestTypeOK
<1>2. /\ parts \in [Parts -> {"none", "waiting", "calling", "done", "error"}]
      /\ \A q \in Parts : parts[q] = "calling" => r.parts[q] = "calling" \/ isEditor
  BY <1>1 DEF Run
<1>3. ASSUME NEW vouched \in BOOLEAN
      PROVE  Fits(a, [r EXCEPT !.parts = parts, !.vouched = vouched])
  <2>. DEFINE n == [r EXCEPT !.parts = parts, !.vouched = vouched]
  <2>1. /\ n \in Run /\ n.stage = r.stage /\ n.parts = parts /\ n.result = r.result
        /\ (n.holds <=> r.holds) /\ (n.receipt <=> r.receipt) /\ n.after = r.after
        /\ n.failedAt = r.failedAt
    <3>. HIDE DEF r, parts
    <3>. QED
      BY <1>1, <1>2 DEF Run
  <2>2. RunOK(n)
    <3>. HIDE DEF n
    <3>. QED
      BY <1>1, <2>1 DEF RunOK, CallStages, Writes
  <2>. HIDE DEF parts
  <2>. QED
    BY <1>2, <2>1, <2>2 DEF Fits
<1>4. /\ [r EXCEPT !.parts[p] = end] = [r EXCEPT !.parts = parts, !.vouched = r.vouched]
      /\ [r EXCEPT !.parts[p] = end, !.vouched = isEditor]
           = [r EXCEPT !.parts = parts, !.vouched = isEditor]
  BY <1>1 DEF Run
<1>5. r.vouched \in BOOLEAN
  BY <1>1 DEF Run
<1>. HIDE DEF parts
<1>. QED
  BY <1>1, <1>3, <1>4, <1>5

\* Over is over, however often it was checked.
LEMMA StaysOver ==
  ASSUME IngestInv, NEW a \in Attempts, run[a].receipt, run[a].stage # "over"
  PROVE  Fits(a, [Concluded(run[a], "succeeded") EXCEPT !.vouched = TRUE])
<1>. DEFINE m == Concluded(run[a], "succeeded")
            n == [m EXCEPT !.vouched = TRUE]
<1>1. Fits(a, m)
  BY EndFits
<1>2. m.stage = "over" /\ ~m.holds
  BY DEF Concluded, IngestInv, IngestTypeOK, Run
<1>. HIDE DEF m
<1>3. /\ n \in Run /\ n.stage = "over" /\ n.parts = m.parts /\ n.result = m.result
      /\ ~n.holds /\ (n.receipt <=> m.receipt) /\ n.failedAt = m.failedAt
  BY <1>1, <1>2 DEF Fits, RunOK, Run
<1>4. RunOK(n)
  <2>. HIDE DEF n
  <2>. QED
    BY <1>1, <1>2, <1>3 DEF Fits, RunOK, CallStages, AfterPublication, Writes
<1>. QED
  BY <1>1, <1>3, <1>4 DEF Fits, m

\* The version stands already: its receipt is written with the attempt's end.
LEMMA ReceiptFits ==
  ASSUME IngestInv, NEW a \in Attempts
  PROVE  Fits(a, Concluded([run[a] EXCEPT !.receipt = TRUE], "succeeded"))
<1>. DEFINE r == run[a]
            none == All("none")
            n == Concluded([r EXCEPT !.receipt = TRUE], "succeeded")
<1>1. r \in Run /\ none \in [Parts -> {"none", "waiting", "calling", "done", "error"}]
  BY NoParts DEF IngestInv, IngestTypeOK
<1>2. n = [r EXCEPT !.stage = "over", !.parts = none, !.result = "succeeded", !.holds = FALSE,
                    !.vouched = FALSE, !.failedAt = r.stage, !.receipt = TRUE]
  BY <1>1 DEF Concluded, Run
<1>. HIDE DEF r, none, n
<1>3. /\ n \in Run /\ n.stage = "over" /\ n.parts = none /\ n.result = "succeeded"
      /\ ~n.holds /\ n.receipt
  BY <1>1, <1>2 DEF Run, Stages
<1>4. RunOK(n)
  BY <1>3 DEF RunOK, CallStages, AfterPublication, Writes, none
<1>5. \A p \in Parts : n.parts[p] = "none"
  BY <1>3, NoParts DEF none
<1>. QED
  BY <1>3, <1>4, <1>5 DEF Fits, n, r

LEMMA PublishedFits ==
  ASSUME IngestInv, NEW a \in Attempts, run[a].stage = "publishing"
  PROVE  Fits(a, [To(a, "published") EXCEPT !.receipt = TRUE, !.holds = FALSE,
                                            !.vouched = isEditor])
<1>. DEFINE r == run[a]
            n == [To(a, "published") EXCEPT !.receipt = TRUE, !.holds = FALSE,
                                            !.vouched = isEditor]
<1>1. r \in Run /\ RunOK(r) /\ isEditor \in BOOLEAN
  BY DEF IngestInv, IngestTypeOK
<1>2. n = [r EXCEPT !.stage = "published", !.receipt = TRUE, !.holds = FALSE,
                    !.vouched = isEditor]
  BY <1>1 DEF To, Run
<1>. HIDE DEF n
<1>3. /\ n \in Run /\ n.stage = "published" /\ n.parts = r.parts /\ n.result = r.result
      /\ ~n.holds /\ n.receipt /\ n.failedAt = r.failedAt
  <2>. HIDE DEF r
  <2>. QED
    BY <1>1, <1>2 DEF Run, Stages
<1>4. RunOK(n)
  BY <1>1, <1>3 DEF RunOK, CallStages, Slotted, AfterPublication, Writes
<1>. QED
  BY <1>3, <1>4 DEF Fits, n

-----------------------------------------------------------------------------
\* The stages of an attempt up to its publication.
LEMMA BeforeKeeps ==
  ASSUME IngestInv, NEW a \in Attempts,
         \/ StartIngest(a) \/ Fetch(a) \/ ReportExtracting(a) \/ OpenSource(a)
         \/ AnswerUnchanged(a) \/ Extracted(a) \/ ClearToPublish(a) \/ PublishGraph(a)
  PROVE  IngestInv' /\ ActsWithAuthority
<1>0. /\ RunOK(run[a]) /\ run[a] \in Run
      /\ {"started", "fetched", "waiting", "extracting", "extracted", "publishing", "published"}
           \subseteq Stages \ {"over", "queued", "unwinding"}
  BY DEF IngestInv, IngestTypeOK, Stages
<1>1. CASE StartIngest(a)
  <2>1. run[a].stage = "queued" /\ ~run[a].holds
    BY <1>0, <1>1 DEF StartIngest, AtStage, RunOK, Slotted
  <2>2. CASE run[a].receipt
    <3>1. Fits(a, [Concluded(run[a], "succeeded") EXCEPT !.vouched = TRUE])
      BY <2>1, <2>2, StaysOver
    <3>. QED
      BY <1>1, <2>1, <2>2, <3>1, CheckedKeeps DEF StartIngest
  <2>3. CASE ~run[a].receipt
    <3>1. Fits(a, [To(a, "started") EXCEPT !.vouched = TRUE])
      BY <1>0, <2>1, <2>3, ToFits DEF CallStages, AfterPublication
    <3>. QED
      BY <1>1, <2>1, <2>3, <3>1, CheckedKeeps DEF StartIngest
  <2>. QED
    BY <2>2, <2>3
<1>2. CASE Fetch(a)
  <2>1. run[a].stage = "started" /\ ~run[a].holds /\ ~run[a].receipt
    BY <1>0, <1>2 DEF Fetch, AtStage, RunOK, Slotted, AfterPublication
  <2>2. Fits(a, To(a, "fetched")) /\ Fits(a, [To(a, "fetched") EXCEPT !.vouched = TRUE])
    BY <1>0, <2>1, ToFits DEF CallStages, AfterPublication, Writes
  <2>3. Fits(a, Concluded(run[a], "failed"))
    BY <2>1, EndFits
  <2>. QED
    BY <1>2, <2>1, <2>2, <2>3, ReportedKeeps, GoesKeeps DEF Fetch
<1>3. CASE ReportExtracting(a)
  <2>1. run[a].stage = "fetched" /\ ~run[a].holds /\ ~run[a].receipt
    BY <1>0, <1>3 DEF ReportExtracting, AtStage, RunOK, Slotted, AfterPublication
  <2>2. Fits(a, To(a, "waiting")) /\ Fits(a, [To(a, "waiting") EXCEPT !.vouched = TRUE])
    BY <1>0, <2>1, ToFits DEF CallStages, AfterPublication, Writes
  <2>. QED
    BY <1>3, <2>1, <2>2, ReportedKeeps DEF ReportExtracting
<1>4. CASE OpenSource(a)
  <2>1. run[a].stage = "holding" /\ ~run[a].receipt
    BY <1>0, <1>4 DEF OpenSource, AtStage, RunOK, AfterPublication
  <2>2. Fits(a, [[To(a, "extracting") EXCEPT !.parts = All("waiting")] EXCEPT !.vouched = TRUE])
    BY <1>0, <2>1, ToFits DEF CallStages, AfterPublication, Slotted
  <2>. QED
    BY <1>4, <2>1, <2>2, CheckedKeeps DEF OpenSource
<1>5. CASE AnswerUnchanged(a)
  <2>1. run[a].stage = "holding" /\ ~run[a].receipt
    BY <1>0, <1>5 DEF AnswerUnchanged, AtStage, RunOK, AfterPublication
  <2>2. Fits(a, Concluded(run[a], "failed"))
    BY <2>1, EndFits
  <2>3. Fits(a, Concluded([run[a] EXCEPT !.receipt = TRUE], "succeeded"))
    BY <2>1, ReceiptFits
  <2>. QED
    BY <1>5, <2>2, <2>3, GoesKeeps DEF AnswerUnchanged
<1>6. CASE Extracted(a)
  <2>1. run[a].stage = "extracting" /\ ~run[a].receipt
    BY <1>0, <1>6 DEF Extracted, AtStage, RunOK, AfterPublication
  <2>2. Fits(a, Concluded(run[a], "failed"))
    BY <2>1, EndFits
  <2>3. Fits(a, [To(a, "extracted") EXCEPT !.parts = All("none")])
    BY <1>0, <2>1, LeaveFits DEF CallStages, Writes, AfterPublication, Slotted
  <2>. QED
    BY <1>6, <2>2, <2>3, GoesKeeps DEF Extracted
<1>7. CASE ClearToPublish(a)
  <2>1. run[a].stage = "extracted" /\ ~run[a].receipt
    BY <1>0, <1>7 DEF ClearToPublish, AtStage, RunOK, AfterPublication
  <2>2. Fits(a, [To(a, "publishing") EXCEPT !.vouched = TRUE])
    BY <1>0, <2>1, ToFits DEF CallStages, AfterPublication, Slotted
  <2>. QED
    BY <1>7, <2>1, <2>2, CheckedKeeps DEF ClearToPublish, CheckBeforePublish
<1>8. CASE PublishGraph(a)
  <2>1. run[a].stage = "publishing" /\ ~run[a].receipt
    BY <1>0, <1>8 DEF PublishGraph, AtStage, RunOK, AfterPublication
  <2>2. Fits(a, Concluded(run[a], "failed"))
    BY <2>1, EndFits
  <2>3. Fits(a, [To(a, "published") EXCEPT !.receipt = TRUE, !.holds = FALSE,
                                           !.vouched = isEditor])
    BY <2>1, PublishedFits
  <2>. QED
    BY <1>8, <2>2, <2>3, GoesKeeps DEF PublishGraph
<1>. QED
  BY <1>1, <1>2, <1>3, <1>4, <1>5, <1>6, <1>7, <1>8

\* The tail.
LEMMA TailKeeps ==
  ASSUME IngestInv, NEW a \in Attempts,
         \/ ReportEmbedding(a) \/ Embedded(a) \/ ClearToStore(a) \/ StoreVectors(a)
         \/ ReportMerging(a) \/ ClearToMerge(a) \/ MergeGroup(a) \/ Reembed(a)
         \/ StoreMerged(a) \/ ReportVerifying(a) \/ Verify(a)
  PROVE  IngestInv' /\ ActsWithAuthority
<1>0. /\ RunOK(run[a]) /\ run[a] \in Run
      /\ AfterPublication \subseteq Stages \ {"over", "queued", "unwinding"}
  BY DEF IngestInv, IngestTypeOK, Stages, AfterPublication
<1>1. CASE Embedded(a)
  <2>1. run[a].stage = "embedding" /\ run[a].receipt /\ ~run[a].holds
    BY <1>0, <1>1 DEF Embedded, AtStage, RunOK, AfterPublication
  <2>2. Fits(a, [To(a, "vectors") EXCEPT !.parts = All("none")])
    BY <1>0, <2>1, LeaveFits DEF CallStages, Writes, AfterPublication, Slotted
  <2>. QED
    BY <1>1, <2>2, GoesKeeps DEF Embedded
<1>2. ASSUME run[a].stage \in AfterPublication \ {"embedding"}
      PROVE  /\ run[a].receipt /\ ~run[a].holds
             /\ \A stage \in AfterPublication \ {"embedding", "storing", "merging"} :
                  /\ Fits(a, To(a, stage)) /\ Fits(a, [To(a, stage) EXCEPT !.vouched = TRUE])
                  /\ run[a].stage \in Writes => Fits(a, [To(a, stage) EXCEPT !.vouched = isEditor])
             /\ Fits(a, [To(a, "storing") EXCEPT !.vouched = TRUE])
             /\ Fits(a, [To(a, "merging") EXCEPT !.vouched = TRUE])
             /\ Fits(a, [To(a, "embedding") EXCEPT !.parts = All("waiting")])
             /\ Fits(a, [[To(a, "embedding") EXCEPT !.parts = All("waiting")]
                           EXCEPT !.vouched = TRUE])
  <2>1. run[a].receipt /\ ~run[a].holds /\ run[a].stage \notin CallStages \cup {"over"}
    BY <1>0, <1>2 DEF RunOK, CallStages, AfterPublication
  <2>2. ASSUME NEW stage \in AfterPublication \ {"embedding", "storing", "merging"}
        PROVE  /\ Fits(a, To(a, stage)) /\ Fits(a, [To(a, stage) EXCEPT !.vouched = TRUE])
               /\ run[a].stage \in Writes => Fits(a, [To(a, stage) EXCEPT !.vouched = isEditor])
    <3>1. stage \notin Writes
      BY DEF Writes, AfterPublication
    <3>. QED
      BY <1>0, <2>1, <3>1, ToFits
  <2>3. {"storing", "merging", "embedding"} \subseteq AfterPublication /\ "embedding" \in CallStages
        /\ "embedding" \notin Writes
    BY DEF AfterPublication, CallStages, Writes
  <2>. QED
    BY <1>0, <2>1, <2>2, <2>3, ToFits
<1>3. run[a].stage # "over" /\ run[a].receipt => Fits(a, Concluded(run[a], "succeeded"))
  BY EndFits
<1>4. run[a].stage = "verifying" => Fits(a, Concluded(run[a], "failed"))
  BY EndFits
<1>5. run[a].stage # "over" => Fits(a, Concluded(run[a], "cancelled"))
  BY EndFits
<1>6. {"published", "vectors", "embedded", "grouped", "merged", "restoring", "tail", "verifying"}
        \subseteq AfterPublication \ {"embedding", "storing", "merging"}
  BY DEF AfterPublication
<1>7. {"storing", "merging"} \subseteq AfterPublication \cap Writes
  BY DEF AfterPublication, Writes
<1>8. ASSUME NEW n, run[a].stage # "over", Fits(a, n), CheckFails(a, run[a], n)
      PROVE  IngestInv' /\ ActsWithAuthority
  BY <1>5, <1>8, GoesKeeps DEF CheckFails
<1>9. ASSUME NEW n, Fits(a, [n EXCEPT !.vouched = TRUE]), CheckPasses(a, n)
      PROVE  IngestInv' /\ ActsWithAuthority
  BY <1>9, GoesKeeps DEF CheckPasses
<1>10. CASE ReportEmbedding(a)
  BY <1>2, <1>6, <1>10, ReportedKeeps DEF ReportEmbedding, AtStage
<1>11. CASE ClearToStore(a)
  BY <1>2, <1>6, <1>8, <1>9, <1>11 DEF ClearToStore, AtStage, TailError
<1>12. CASE StoreVectors(a)
  BY <1>2, <1>6, <1>7, <1>12, GoesKeeps DEF StoreVectors, AtStage
<1>13. CASE ReportMerging(a)
  BY <1>2, <1>6, <1>13, ReportedKeeps, GoesKeeps DEF ReportMerging, AtStage
<1>14. CASE ClearToMerge(a)
  BY <1>2, <1>6, <1>8, <1>9, <1>14, GoesKeeps DEF ClearToMerge, AtStage
<1>15. CASE MergeGroup(a)
  BY <1>2, <1>6, <1>7, <1>15, GoesKeeps DEF MergeGroup, AtStage
<1>16. CASE Reembed(a)
  BY <1>2, <1>6, <1>8, <1>9, <1>16 DEF Reembed, AtStage
<1>17. CASE StoreMerged(a)
  BY <1>2, <1>6, <1>17, GoesKeeps DEF StoreMerged, AtStage
<1>18. CASE ReportVerifying(a)
  BY <1>2, <1>6, <1>18, ReportedKeeps DEF ReportVerifying, AtStage
<1>19. CASE Verify(a)
  BY <1>2, <1>3, <1>4, <1>6, <1>19, GoesKeeps DEF Verify, AtStage
<1>. QED
  BY <1>1, <1>10, <1>11, <1>12, <1>13, <1>14, <1>15, <1>16, <1>17, <1>18, <1>19

\* CallStages of providers, and what unwinds them.
LEMMA CallsKeep ==
  ASSUME IngestInv, NEW a \in Attempts,
         \/ Unwound(a) \/ CancelRun(a)
         \/ \E p \in Parts : BeginCall(a, p) \/ EndCall(a, p) \/ EndCancelled(a, p)
  PROVE  IngestInv' /\ ActsWithAuthority
<1>0. RunOK(run[a]) /\ run[a] \in Run /\ "embedded" \in Stages
  BY DEF IngestInv, IngestTypeOK, Stages
<1>1. run[a].stage # "over" => Fits(a, Concluded(run[a], "cancelled"))
  BY EndFits
<1>2. run[a].stage \in {"extracting", "embedding"} => Fits(a, Abandoned(run[a], "cancelled"))
  BY AbandonFits
<1>3. CASE Unwound(a)
  <2>1. run[a].stage = "unwinding"
    BY <1>3 DEF Unwound, AtStage
  <2>2. CASE run[a].after = "embedded"
    <3>1. run[a].receipt /\ ~run[a].holds
      BY <1>0, <2>1, <2>2 DEF RunOK
    <3>2. Fits(a, [To(a, "embedded") EXCEPT !.parts = All("none")])
      BY <1>0, <2>1, <3>1, LeaveFits DEF CallStages, Writes, AfterPublication, Slotted
    <3>. QED
      BY <1>3, <2>2, <3>2, GoesKeeps DEF Unwound
  <2>3. CASE run[a].after # "embedded"
    <3>1. /\ run[a].after \in {"cancelled", "failed"}
          /\ run[a].after = "failed" => ~run[a].receipt
      BY <1>0, <2>1, <2>3 DEF RunOK, Run, AfterPublication
    <3>2. Fits(a, Concluded(run[a], run[a].after))
      BY <2>1, <3>1, EndFits
    <3>. QED
      BY <1>3, <2>3, <3>2, GoesKeeps DEF Unwound
  <2>. QED
    BY <2>2, <2>3
<1>4. CASE CancelRun(a)
  BY <1>1, <1>2, <1>4, GoesKeeps DEF CancelRun, InStage
<1>5. ASSUME NEW p \in Parts, BeginCall(a, p) PROVE IngestInv' /\ ActsWithAuthority
  <2>1. run[a].stage \in {"extracting", "embedding"}
    BY <1>5 DEF BeginCall, InStage
  <2>2. Fits(a, Abandoned(run[a], OnError(a)))
    BY <2>1, AbandonFits DEF OnError, AtStage
  <2>3. isEditor => Fits(a, [run[a] EXCEPT !.parts[p] = "calling"])
    BY <2>1, CallFits DEF CallStages
  <2>. QED
    BY <1>2, <1>5, <2>1, <2>2, <2>3, GoesKeeps DEF BeginCall, MayCall
<1>6. ASSUME NEW p \in Parts, EndCall(a, p) PROVE IngestInv' /\ ActsWithAuthority
  <2>1. \A end \in {"done", "error"} :
          Fits(a, [run[a] EXCEPT !.parts[p] = end, !.vouched = isEditor])
    BY <1>6, CallFits DEF EndCall, InStage, CallStages
  <2>. QED
    BY <1>6, <2>1, GoesKeeps DEF EndCall
<1>7. ASSUME NEW p \in Parts, EndCancelled(a, p) PROVE IngestInv' /\ ActsWithAuthority
  <2>1. Fits(a, [run[a] EXCEPT !.parts[p] = "none"])
    BY <1>7, CallFits DEF EndCancelled, AtStage, CallStages
  <2>. QED
    BY <1>7, <2>1, GoesKeeps DEF EndCancelled
<1>. QED
  BY <1>3, <1>4, <1>5, <1>6, <1>7

\* The only step that takes a slot takes a free one.
LEMMA TakeKeeps ==
  ASSUME IngestInv, NEW a \in Attempts, TakeIngestSlot(a)
  PROVE  IngestInv' /\ ActsWithAuthority
<1>. DEFINE n == [To(a, "holding") EXCEPT !.holds = TRUE]
<1>0. RunOK(run[a]) /\ run[a] \in Run /\ run[a].stage = "waiting" /\ ~run[a].receipt
  BY DEF IngestInv, IngestTypeOK, TakeIngestSlot, AtStage, RunOK, AfterPublication
<1>1. /\ n \in Run /\ n.stage = "holding" /\ n.parts = run[a].parts /\ n.holds
      /\ (n.receipt <=> run[a].receipt) /\ n.result = run[a].result
      /\ n.failedAt = run[a].failedAt
  BY <1>0 DEF To, Run, Stages
<1>2. run' = [run EXCEPT ![a] = n] /\ UNCHANGED <<isEditor, roleChanges, losses>>
  BY DEF TakeIngestSlot, Goes
<1>. HIDE DEF n
<1>3. RunOK(n)
  BY <1>0, <1>1 DEF RunOK, CallStages, Slotted, AfterPublication, Writes
<1>4. /\ run'[a] = n /\ \A b \in Attempts \ {a} : run'[b] = run[b]
  BY <1>2 DEF IngestInv, IngestTypeOK
<1>5. IngestTypeOK'
  BY <1>1, <1>2 DEF IngestInv, IngestTypeOK
<1>6. \A b \in Attempts : RunOK(run'[b])
  BY <1>3, <1>4 DEF IngestInv
<1>7. (\A b \in Attempts : RunOK(run[b]))'
  BY <1>6 DEF RunOK, All
<1>8. IsFiniteSet(Holders') /\ Cardinality(Holders') <= IngestSlots
  <2>1. Cardinality(Holders) < IngestSlots /\ IsFiniteSet(Holders)
    BY DEF TakeIngestSlot, Holders, IngestInv
  <2>2. Holders' = Holders \cup {a}
    BY <1>1, <1>4 DEF Holders
  <2>3. Cardinality(Holders) \in Nat
    BY <2>1, FS_CardinalityType
  <2>4. IsFiniteSet(Holders') /\ Cardinality(Holders')
          = IF a \in Holders THEN Cardinality(Holders) ELSE Cardinality(Holders) + 1
    BY <2>1, <2>2, FS_AddElement
  <2>. QED
    BY <2>1, <2>3, <2>4, IngestAssumption
<1>9. ActsWithAuthority
  BY <1>1, <1>4, Authority
<1>. QED
  BY <1>5, <1>7, <1>8, <1>9 DEF IngestInv

LEMMA LossKeeps ==
  ASSUME IngestInv, LoseProcess
  PROVE  IngestInv' /\ ActsWithAuthority
<1>. DEFINE again(a) == [Concluded(run[a], "open") EXCEPT !.stage = "queued",
                                                          !.failedAt = "queued"]
<1>1. /\ run' = [a \in Attempts |-> IF run[a].stage = "over" THEN run[a] ELSE again(a)]
      /\ UNCHANGED isEditor /\ UNCHANGED roleChanges /\ losses' \in 0..MaxLosses
  <2>1. losses' \in 0..MaxLosses
    <3>1. losses < MaxLosses /\ losses' = losses + 1
      BY Zenon DEF LoseProcess
    <3>2. losses \in 0..MaxLosses
      BY DEF IngestInv, IngestTypeOK
    <3>. QED
      BY <3>1, <3>2, IngestAssumption
  <2>2. run' = [a \in Attempts |-> IF run[a].stage = "over" THEN run[a] ELSE again(a)]
    BY Zenon DEF LoseProcess, AtStage
  <2>. HIDE DEF again
  <2>. QED
    BY <2>1, <2>2 DEF LoseProcess
<1>2. ASSUME NEW a \in Attempts, run[a].stage # "over"
      PROVE  /\ again(a) \in Run /\ RunOK(again(a)) /\ ~again(a).holds
             /\ \A p \in Parts : again(a).parts[p] = "none"
  <2>1. run[a] \in Run
    BY DEF IngestInv, IngestTypeOK
  <2>. DEFINE r == run[a]
              n == again(a)
              none == All("none")
  <2>2. none \in [Parts -> {"none", "waiting", "calling", "done", "error"}]
    BY NoParts
  <2>3. n = [r EXCEPT !.stage = "queued", !.parts = none, !.result = "open", !.holds = FALSE,
                      !.vouched = FALSE, !.failedAt = "queued"]
    BY <2>1 DEF Concluded, Run
  <2>. HIDE DEF r, n, none
  <2>4. /\ n \in Run /\ n.stage = "queued" /\ n.parts = none /\ n.result = "open"
        /\ ~n.holds
    BY <2>1, <2>2, <2>3 DEF Run, Stages, r
  <2>5. RunOK(n)
    BY <2>4 DEF RunOK, CallStages, Slotted, AfterPublication, Writes, none
  <2>6. \A p \in Parts : n.parts[p] = "none"
    BY <2>4, NoParts DEF none
  <2>. QED
    BY <2>4, <2>5, <2>6 DEF n
<1>. HIDE DEF again
<1>3. ASSUME NEW a \in Attempts
      PROVE  /\ run'[a] \in Run /\ RunOK(run'[a]) /\ (run'[a].holds => run[a].holds)
             /\ \A p \in Parts : run'[a].parts[p] = "calling" => run[a].parts[p] = "calling"
  BY <1>1, <1>2 DEF IngestInv, IngestTypeOK
<1>4. IngestTypeOK'
  BY <1>1, <1>3 DEF IngestInv, IngestTypeOK
<1>5. (\A a \in Attempts : RunOK(run[a]))'
  BY <1>3 DEF RunOK, All
<1>6. IsFiniteSet(Holders') /\ Cardinality(Holders') <= IngestSlots
  <2>1. Holders' \in SUBSET Holders
    BY <1>3 DEF Holders
  <2>2. IsFiniteSet(Holders') /\ Cardinality(Holders') <= Cardinality(Holders)
    BY <2>1, FS_Subset DEF IngestInv
  <2>. QED
    BY <2>2, FS_CardinalityType, IngestAssumption DEF IngestInv
<1>7. ActsWithAuthority
  BY <1>3, Authority
<1>. QED
  BY <1>4, <1>5, <1>6, <1>7 DEF IngestInv

LEMMA RoleKeeps ==
  ASSUME IngestInv, ChangeRole
  PROVE  IngestInv' /\ ActsWithAuthority
<1>. DEFINE gains(a) == ~InStage(a, {"over"}) /\ ~isEditor
<1>1. /\ run' = [a \in Attempts |-> [run[a] EXCEPT !.vouched = run[a].vouched \/ gains(a)]]
      /\ UNCHANGED losses /\ isEditor' \in BOOLEAN /\ roleChanges' \in 0..MaxRoleChanges
  BY IngestAssumption DEF ChangeRole, IngestInv, IngestTypeOK
<1>2. ASSUME NEW a \in Attempts
      PROVE  /\ run'[a] \in Run /\ run'[a].stage = run[a].stage /\ run'[a].parts = run[a].parts
             /\ (run'[a].holds <=> run[a].holds) /\ (run'[a].receipt <=> run[a].receipt)
             /\ run'[a].after = run[a].after /\ run'[a].result = run[a].result
             /\ run'[a].failedAt = run[a].failedAt
             /\ run[a].vouched => run'[a].vouched
  <2>1. run[a] \in Run /\ gains(a) \in BOOLEAN
    BY DEF IngestInv, IngestTypeOK
  <2>. HIDE DEF gains
  <2>. QED
    BY <1>1, <2>1 DEF Run
<1>3. IngestTypeOK'
  <2>1. run' \in [Attempts -> Run]
    BY <1>1, <1>2
  <2>. QED
    BY <1>1, <2>1 DEF IngestInv, IngestTypeOK
<1>4. ASSUME NEW a \in Attempts PROVE RunOK(run[a])'
  <2>1. RunOK(run[a])
    BY DEF IngestInv
  <2>2. RunOK(run'[a])
    BY <1>2, <2>1 DEF RunOK
  <2>. QED
    BY <2>2 DEF RunOK, All
<1>5. Holders' = Holders
  BY <1>2 DEF Holders
<1>6. ActsWithAuthority
  BY <1>2, Authority
<1>. QED
  BY <1>3, <1>4, <1>5, <1>6 DEF IngestInv

LEMMA IngestStep ==
  ASSUME IngestInv, [NextIngest]_ingestVars
  PROVE  IngestInv' /\ [ActsWithAuthority]_ingestVars
<1>1. CASE UNCHANGED ingestVars
  <2>1. IngestTypeOK' /\ Holders' = Holders /\ \A a \in Attempts : RunOK(run[a])'
    BY <1>1 DEF ingestVars, IngestInv, IngestTypeOK, Holders, RunOK, All
  <2>. QED
    BY <1>1, <2>1 DEF IngestInv
<1>. QED
  BY <1>1, BeforeKeeps, TailKeeps, CallsKeep, TakeKeeps, LossKeeps, RoleKeeps DEF NextIngest

LEMMA InitIngestInv == InitIngest => IngestInv
<1>. SUFFICES ASSUME InitIngest PROVE IngestInv
  OBVIOUS
<1>. DEFINE first == [stage |-> "queued", parts |-> All("none"), holds |-> FALSE,
                      receipt |-> FALSE, after |-> "failed", result |-> "open",
                      vouched |-> TRUE, failedAt |-> "queued"]
<1>1. first \in Run
  BY NoParts DEF Run, Stages
<1>2. RunOK(first)
  BY <1>1 DEF RunOK, CallStages, Slotted, AfterPublication, Writes
<1>3. \A a \in Attempts : run[a] = first
  BY DEF InitIngest
<1>4. IngestTypeOK
  <2>1. run \in [Attempts -> Run]
    <3>. HIDE DEF first
    <3>1. run = [a \in Attempts |-> first]
      BY DEF InitIngest, first
    <3>. QED
      BY <1>1, <3>1
  <2>2. isEditor \in BOOLEAN /\ roleChanges \in 0..MaxRoleChanges /\ losses \in 0..MaxLosses
    BY IngestAssumption DEF InitIngest
  <2>. QED
    BY <2>1, <2>2 DEF IngestTypeOK
<1>5. Holders = {}
  BY <1>3 DEF Holders
<1>6. IsFiniteSet(Holders) /\ Cardinality(Holders) <= IngestSlots
  BY <1>5, FS_EmptySet, IngestAssumption
<1>. HIDE DEF first
<1>7. \A a \in Attempts : RunOK(run[a])
  BY <1>2, <1>3
<1>. QED
  BY <1>4, <1>6, <1>7 DEF IngestInv

\* However an attempt ends it leaves no call and no slot behind, it succeeds only with
\* a committed operation and its tail never fails it; and no call begins and nothing is
\* written without an authority checked since the last call: for any number of
\* attempts, excerpts, role changes and losses of the process (GraphAgent's
\* _ingest_source and _post_ingest, and the checks of a workspace's handler).
THEOREM IngestRunsKept == IngestSpec => IngestRunsHold
<1>1. IngestInv => IngestTypeOK /\ NothingOutlivesAttempt /\ OutcomeMatchesGraph
  <2>. SUFFICES ASSUME IngestInv
                PROVE  IngestTypeOK /\ NothingOutlivesAttempt /\ OutcomeMatchesGraph
    OBVIOUS
  <2>1. ASSUME NEW a \in Attempts
        PROVE  /\ InStage(a, {"over", "queued"}) => Calling(a) = {} /\ ~run[a].holds
               /\ Calling(a) # {} => InStage(a, {"extracting", "embedding", "unwinding"})
               /\ run[a].result = "succeeded" => run[a].receipt
               /\ run[a].result = "failed" /\ run[a].receipt
                    => run[a].failedAt \in {"verifying", "queued"}
    <3>1. RunOK(run[a])
      BY DEF IngestInv
    <3>2. run[a].stage \notin CallStages => Calling(a) = {}
      BY <3>1, NoParts DEF RunOK, Calling
    <3>. QED
      BY <3>1, <3>2 DEF RunOK, InStage, CallStages, Slotted
  <2>. QED
    BY <2>1 DEF IngestInv, NothingOutlivesAttempt, OutcomeMatchesGraph, Holders
<1>2. IngestInv /\ [NextIngest]_ingestVars => IngestInv' /\ [ActsWithAuthority]_ingestVars
  BY IngestStep
<1>. QED
  BY InitIngestInv, <1>1, <1>2, PTL DEF IngestSpec, IngestRunsHold

-----------------------------------------------------------------------------
(***************************************************************************)
(* Answers.  The graph at the moment the model replies, or a later one, is *)
(* the one the second read sees; what has left the graph since it was read *)
(* has been recorded as withdrawn.                                         *)
(***************************************************************************)
AnswerInv ==
  /\ AnswerTypeOK
  /\ \A e \in asked.lexical \cup asked.supplied : asked.filter \in {AnySource, e.source}
  /\ asked.step \notin {"generated", "over"} => asked.reply = NoReply
  /\ asked.step # "over" => asked.status = "open"
  /\ Valid(asked.reply, asked.supplied)
  /\ asked.supplied \ CurrentIn(published) \subseteq asked.withdrawn
  /\ asked.step = "generated" /\ asked.supplied \subseteq CurrentIn(published) => asked.vouched
  /\ asked.status = "answered" =>
       /\ asked.supplied \subseteq CurrentIn(published)
       /\ asked.vouched /\ ~asked.reply.insufficient
  /\ WithheldForCause

LEMMA NoReplyValid ==
  /\ NoReply \in Reply /\ NoReply.insufficient
  /\ \A sent : Valid(NoReply, sent)
<1>1. Cardinality({}) = 0
  BY FS_EmptySet
<1>. QED
  BY <1>1 DEF NoReply, Reply, Valid

LEMMA InitAnswerInv == InitAnswer => AnswerInv
<1>. SUFFICES ASSUME InitAnswer PROVE AnswerInv
  OBVIOUS
<1>1. PICK f \in DocSources \cup {AnySource} :
        asked = [step |-> "new", filter |-> f, entities |-> FALSE, context |-> FALSE,
                 lexical |-> {}, supplied |-> {}, reply |-> NoReply, status |-> "open",
                 vouched |-> FALSE, withdrawn |-> {}]
  BY DEF InitAnswer
<1>2. published \in [DocSources -> DocVersions \cup {NoDocument}] /\ changes \in 0..MaxChanges
  BY GroundedAssumption DEF InitAnswer
<1>3. asked \in Question
  BY <1>1, NoReplyValid DEF Question
<1>. QED
  BY <1>1, <1>2, <1>3, NoReplyValid DEF AnswerInv, AnswerTypeOK, WithheldForCause

\* What is supplied is some of what the two reads found.
LEMMA SuppliedFound == \A found : \A sent \in Supply(found) : sent \subseteq found
BY DEF Supply, kSubset

LEMMA CurrentExcerpts == \A graph : CurrentIn(graph) \subseteq Excerpt
BY DEF CurrentIn

\* The question ends.
LEMMA Ends ==
  ASSUME AnswerInv, asked.step # "over", NEW status,
         status \in {"no_context", "insufficient_evidence", "llm_unavailable", "answered",
                     "failed"},
         asked' = Over(asked, status), published' = published, changes' = changes,
         status = "answered" =>
           asked.step = "generated" /\ EvidenceUnchanged(asked) /\ ~asked.reply.insufficient,
         status = "insufficient_evidence" =>
           asked.reply.insufficient \/ ~EvidenceUnchanged(asked)
  PROVE  AnswerInv'
<1>1. asked \in Question
  BY DEF AnswerInv, AnswerTypeOK
<1>2. asked' = [asked EXCEPT !.step = "over", !.status = status]
  BY DEF Over
<1>3. /\ asked' \in Question /\ asked'.step = "over" /\ asked'.status = status
      /\ asked'.filter = asked.filter /\ asked'.lexical = asked.lexical
      /\ asked'.supplied = asked.supplied /\ asked'.reply = asked.reply
      /\ asked'.withdrawn = asked.withdrawn /\ (asked'.vouched <=> asked.vouched)
  BY <1>1, <1>2 DEF Question
<1>4. AnswerTypeOK'
  BY <1>3 DEF AnswerInv, AnswerTypeOK
<1>5. Valid(asked.reply, asked.supplied)'
  BY <1>3 DEF AnswerInv, Valid
<1>6. CurrentIn(published)' = CurrentIn(published)
  BY DEF CurrentIn
<1>7. status = "answered" => asked.supplied \subseteq CurrentIn(published) /\ asked.vouched
  BY DEF EvidenceUnchanged, AnswerInv
<1>8. WithheldForCause'
  BY <1>3 DEF AnswerInv, WithheldForCause, EvidenceUnchanged
<1>. QED
  BY <1>3, <1>4, <1>5, <1>6, <1>7, <1>8 DEF AnswerInv

LEMMA SelectKeeps ==
  ASSUME AnswerInv, SelectEntities PROVE AnswerInv'
<1>1. PICK some, context \in BOOLEAN :
        asked' = [asked EXCEPT !.step = "selected", !.entities = some, !.context = context]
  BY DEF SelectEntities
<1>2. asked \in Question /\ asked.step = "new" /\ UNCHANGED <<published, changes>>
  BY DEF AnswerInv, AnswerTypeOK, SelectEntities
<1>3. /\ asked' \in Question /\ asked'.step = "selected" /\ asked'.status = asked.status
      /\ asked'.filter = asked.filter /\ asked'.lexical = asked.lexical
      /\ asked'.supplied = asked.supplied /\ asked'.reply = asked.reply
      /\ asked'.withdrawn = asked.withdrawn
  BY <1>1, <1>2 DEF Question
<1>. QED
  BY <1>2, <1>3 DEF AnswerInv, AnswerTypeOK, CurrentIn, Valid, WithheldForCause

LEMMA LexicalKeeps ==
  ASSUME AnswerInv, ReadLexical PROVE AnswerInv'
<1>1. PICK found \in SUBSET Matching(asked) :
        asked' = [asked EXCEPT !.step = "read", !.lexical = found]
  BY DEF ReadLexical
<1>2. asked \in Question /\ asked.step = "selected" /\ UNCHANGED <<published, changes>>
  BY DEF AnswerInv, AnswerTypeOK, ReadLexical
<1>3. found \in SUBSET Excerpt /\ \A e \in found : asked.filter \in {AnySource, e.source}
  BY <1>1, CurrentExcerpts DEF Matching
<1>4. /\ asked' \in Question /\ asked'.step = "read" /\ asked'.status = asked.status
      /\ asked'.filter = asked.filter /\ asked'.lexical = found
      /\ asked'.supplied = asked.supplied /\ asked'.reply = asked.reply
      /\ asked'.withdrawn = asked.withdrawn
  BY <1>1, <1>2, <1>3 DEF Question
<1>. QED
  BY <1>2, <1>3, <1>4 DEF AnswerInv, AnswerTypeOK, CurrentIn, Valid, WithheldForCause

LEMMA LinkedKeeps ==
  ASSUME AnswerInv, ReadLinked PROVE AnswerInv'
<1>0. PICK found \in IF asked.entities THEN SUBSET Matching(asked) ELSE {{}} :
        \E sent \in Supply(asked.lexical \cup found) :
          asked' = IF sent # {}
                   THEN [asked EXCEPT !.step = "generating", !.lexical = {}, !.supplied = sent,
                                      !.withdrawn = sent \ CurrentIn(published)]
                   ELSE Over(asked, IF asked.context THEN "insufficient_evidence"
                                    ELSE "no_context")
  BY DEF ReadLinked
<1>1. PICK sent \in Supply(asked.lexical \cup found) :
        asked' = IF sent # {}
                 THEN [asked EXCEPT !.step = "generating", !.lexical = {}, !.supplied = sent,
                                    !.withdrawn = sent \ CurrentIn(published)]
                 ELSE Over(asked, IF asked.context THEN "insufficient_evidence"
                                  ELSE "no_context")
  BY <1>0
<1>2. asked \in Question /\ asked.step = "read" /\ UNCHANGED <<published, changes>>
  BY DEF AnswerInv, AnswerTypeOK, ReadLinked
<1>3. asked.reply = NoReply /\ asked.status = "open"
  BY <1>2 DEF AnswerInv
<1>4. found \in SUBSET Excerpt /\ \A e \in found : asked.filter \in {AnySource, e.source}
  <2>1. found \in SUBSET Matching(asked)
    BY <1>0
  <2>. QED
    BY <2>1, CurrentExcerpts DEF Matching
<1>5. sent \in SUBSET Excerpt /\ \A e \in sent : asked.filter \in {AnySource, e.source}
  BY <1>1, <1>2, <1>4, SuppliedFound DEF Question, AnswerInv
<1>6. CASE sent # {}
  <2>1. asked' = [asked EXCEPT !.step = "generating", !.lexical = {}, !.supplied = sent,
                               !.withdrawn = sent \ CurrentIn(published)]
    BY <1>1, <1>6
  <2>2. /\ asked' \in Question /\ asked'.step = "generating" /\ asked'.status = "open"
        /\ asked'.filter = asked.filter /\ asked'.lexical = {}
        /\ asked'.supplied = sent /\ asked'.reply = NoReply
        /\ asked'.withdrawn = sent \ CurrentIn(published)
    BY <1>2, <1>3, <1>5, <2>1 DEF Question
  <2>3. Valid(asked.reply, asked.supplied)'
    <3>1. Valid(NoReply, sent)
      BY NoReplyValid
    <3>. QED
      BY <2>2, <3>1 DEF Valid
  <2>4. AnswerTypeOK' /\ CurrentIn(published)' = CurrentIn(published)
    BY <1>2, <2>2 DEF AnswerInv, AnswerTypeOK, CurrentIn
  <2>. QED
    BY <1>5, <2>2, <2>3, <2>4 DEF AnswerInv, WithheldForCause
<1>7. CASE sent = {}
  <2>1. PICK status \in {"insufficient_evidence", "no_context"} : asked' = Over(asked, status)
    BY <1>1, <1>7
  <2>. QED
    BY <1>2, <1>3, <2>1, NoReplyValid, Ends
<1>. QED
  BY <1>6, <1>7

LEMMA GenerateKeeps ==
  ASSUME AnswerInv, Generate PROVE AnswerInv'
<1>1. asked \in Question /\ asked.step = "generating" /\ UNCHANGED <<published, changes>>
  BY DEF AnswerInv, AnswerTypeOK, Generate
<1>2. CASE asked' = Over(asked, "llm_unavailable")
  BY <1>1, <1>2, Ends
<1>3. ASSUME NEW cites \in SUBSET (asked.supplied \cup {Invented}),
             NEW conflict \in SUBSET (asked.supplied \cup {Invented}), NEW lacking \in BOOLEAN,
             asked' = [asked EXCEPT !.step = "generated",
                         !.reply = IF Valid([insufficient |-> lacking, cites |-> cites,
                                             conflict |-> conflict], asked.supplied)
                                   THEN [insufficient |-> lacking, cites |-> cites,
                                         conflict |-> conflict]
                                   ELSE NoReply,
                         !.vouched = asked.supplied \subseteq CurrentIn(published)]
      PROVE  AnswerInv'
  <2>. DEFINE r == [insufficient |-> lacking, cites |-> cites, conflict |-> conflict]
              made == IF Valid(r, asked.supplied) THEN r ELSE NoReply
  <2>1. r \in Reply
    BY <1>1 DEF Reply, Question
  <2>2. made \in Reply /\ Valid(made, asked.supplied)
    <3>. HIDE DEF r
    <3>. QED
      BY <2>1, NoReplyValid
  <2>3. asked' = [asked EXCEPT !.step = "generated", !.reply = made,
                               !.vouched = asked.supplied \subseteq CurrentIn(published)]
    BY <1>3
  <2>. HIDE DEF made
  <2>4. /\ asked' \in Question /\ asked'.step = "generated" /\ asked'.status = asked.status
        /\ asked'.filter = asked.filter /\ asked'.lexical = asked.lexical
        /\ asked'.supplied = asked.supplied /\ asked'.reply = made
        /\ asked'.withdrawn = asked.withdrawn
        /\ asked'.vouched <=> asked.supplied \subseteq CurrentIn(published)
    <3>. DEFINE there == asked.supplied \subseteq CurrentIn(published)
    <3>1. there \in BOOLEAN
      OBVIOUS
    <3>2. asked' = [asked EXCEPT !.step = "generated", !.reply = made, !.vouched = there]
      BY <2>3
    <3>. HIDE DEF there
    <3>3. /\ asked' \in Question /\ asked'.step = "generated" /\ asked'.status = asked.status
          /\ asked'.filter = asked.filter /\ asked'.lexical = asked.lexical
          /\ asked'.supplied = asked.supplied /\ asked'.reply = made
          /\ asked'.withdrawn = asked.withdrawn /\ (asked'.vouched <=> there)
      BY <1>1, <2>2, <3>1, <3>2 DEF Question
    <3>. QED
      BY <3>3 DEF there
  <2>5. AnswerTypeOK' /\ CurrentIn(published)' = CurrentIn(published)
    BY <1>1, <2>4 DEF AnswerInv, AnswerTypeOK, CurrentIn
  <2>6. Valid(asked.reply, asked.supplied)'
    BY <2>2, <2>4 DEF Valid
  <2>. QED
    BY <1>1, <2>4, <2>5, <2>6 DEF AnswerInv, WithheldForCause
<1>. QED
  BY <1>2, <1>3 DEF Generate

LEMMA GraphKeeps ==
  ASSUME AnswerInv, NEW graph \in [DocSources -> DocVersions \cup {NoDocument}],
         GraphBecomes(graph)
  PROVE  AnswerInv'
<1>. DEFINE there == asked.step = "generated" /\ asked.supplied \subseteq CurrentIn(graph)
            left == asked.supplied \ CurrentIn(graph)
<1>1. /\ asked \in Question /\ asked.step # "over" /\ published' = graph
      /\ asked' = [asked EXCEPT !.vouched = asked.vouched \/ there,
                                !.withdrawn = asked.withdrawn \cup left]
  BY DEF AnswerInv, AnswerTypeOK, GraphBecomes
<1>2. changes' \in 0..MaxChanges
  BY GroundedAssumption DEF AnswerInv, AnswerTypeOK, GraphBecomes
<1>3. there \in BOOLEAN /\ left \in SUBSET Excerpt
  BY <1>1 DEF Question
<1>4. CurrentIn(published)' = CurrentIn(graph)
  BY <1>1 DEF CurrentIn
<1>. HIDE DEF there, left
<1>5. /\ asked' \in Question /\ asked'.step = asked.step /\ asked'.status = asked.status
      /\ asked'.filter = asked.filter /\ asked'.lexical = asked.lexical
      /\ asked'.supplied = asked.supplied /\ asked'.reply = asked.reply
      /\ asked'.withdrawn = asked.withdrawn \cup left
      /\ there => asked'.vouched
  BY <1>1, <1>3 DEF Question
<1>6. AnswerTypeOK'
  BY <1>1, <1>2, <1>5 DEF AnswerTypeOK
<1>7. Valid(asked.reply, asked.supplied)'
  BY <1>5 DEF AnswerInv, Valid
<1>8. asked.status = "open"
  BY <1>1 DEF AnswerInv
<1>. QED
  BY <1>4, <1>5, <1>6, <1>7, <1>8 DEF AnswerInv, WithheldForCause, there, left

LEMMA AnswerStep ==
  ASSUME AnswerInv, [NextAnswer]_answerVars
  PROVE  AnswerInv'
<1>1. CASE UNCHANGED answerVars
  BY <1>1 DEF answerVars, AnswerInv, AnswerTypeOK, CurrentIn, Valid, WithheldForCause
<1>2. CASE AnswerQuestion
  <2>1. asked.step = "generated" /\ UNCHANGED <<published, changes>>
    BY <1>2 DEF AnswerQuestion
  <2>2. CASE EvidenceUnchanged(asked) /\ ~asked.reply.insufficient
    BY <1>2, <2>1, <2>2, Ends DEF AnswerQuestion
  <2>3. CASE ~(EvidenceUnchanged(asked) /\ ~asked.reply.insufficient)
    BY <1>2, <2>1, <2>3, Ends DEF AnswerQuestion
  <2>. QED
    BY <2>2, <2>3
<1>3. CASE Fail
  BY <1>3, Ends DEF Fail
<1>4. published \in [DocSources -> DocVersions \cup {NoDocument}]
  BY DEF AnswerInv, AnswerTypeOK
<1>5. ASSUME NEW s \in DocSources, NEW v \in DocVersions, PublishVersion(s, v)
      PROVE  AnswerInv'
  BY <1>4, <1>5, GraphKeeps DEF PublishVersion
<1>6. ASSUME NEW s \in DocSources, DeleteDocument(s) PROVE AnswerInv'
  BY <1>4, <1>6, GraphKeeps DEF DeleteDocument
<1>7. CASE ClearGraph
  BY <1>7, GraphKeeps DEF ClearGraph
<1>. QED
  BY <1>1, <1>2, <1>3, <1>5, <1>6, <1>7, SelectKeeps, LexicalKeeps, LinkedKeeps, GenerateKeeps
     DEF NextAnswer

\* An answer rests on excerpts that were all current together after the model had
\* written it, of one version of each source and of the source the question named, and
\* cites some of them and nothing else; and it is withheld for its evidence only when
\* an excerpt had left the graph: for any sources, versions and changes of the graph
\* between the reads (GraphRAGEngine.query).
THEOREM AnswersRest == AnswerSpec => []AnswersGrounded
<1>1. AnswerInv => AnswersGrounded
  <2>. SUFFICES ASSUME AnswerInv PROVE AnswersGrounded
    OBVIOUS
  <2>1. ASSUME asked.status = "answered", NEW d \in asked.supplied, NEW e \in asked.supplied,
               d.source = e.source
        PROVE  d.version = e.version
    BY <2>1 DEF AnswerInv, CurrentIn
  <2>2. asked.status = "answered" => asked.reply.cites # {}
    BY DEF AnswerInv, Valid
  <2>3. asked.reply.cites \cup asked.reply.conflict \subseteq asked.supplied
    BY DEF AnswerInv, Valid
  <2>. QED
    BY <2>1, <2>2, <2>3 DEF AnswerInv, AnswersGrounded, AnswerRestsOnOneGraph
<1>. QED
  BY InitAnswerInv, AnswerStep, <1>1, PTL DEF AnswerSpec

-----------------------------------------------------------------------------
(***************************************************************************)
(* The in-memory queue.  Three things hold of every state: the history     *)
(* lists exactly the ended jobs that are kept; an event waiting in the     *)
(* loop's queue says what its record says; and a `queued` event stands     *)
(* before whatever could overtake it, the wake-up of the worker that has   *)
(* fetched its job and shutdown's own.                                     *)
(***************************************************************************)
Once(s) == \A a, b \in DOMAIN s : s[a] = s[b] => a = b

RecordOK(r) ==
  /\ r \in JobRecord
  /\ r.status = "none" => ~r.kept /\ ~r.began
  /\ r.status = "queued" => r.kept /\ ~r.began
  /\ r.status = "running" => r.kept /\ r.began

\* Records and the history of the ended ones.
BooksOK(r, s) ==
  /\ r \in [JobIds -> JobRecord] /\ \A j \in JobIds : RecordOK(r[j])
  /\ s \in Seq(JobIds) /\ Once(s)
  /\ \A i \in DOMAIN s : r[s[i]].status \in Ended /\ r[s[i]].kept
  /\ \A j \in JobIds : r[j].status \in Ended /\ r[j].kept => \E i \in DOMAIN s : s[i] = j

\* A worker that has its wake-up in the ready queue.
Called == {"fresh", "woken", "slept"}
Holding == {"slept", "starting", "handling", "closing"}
Running == {"starting", "handling"}

EntryOK(e, r, wk, closed) ==
  /\ e \in Entry
  /\ e.kind = "send" => e.job \in JobIds /\ e.status = r[e.job].status
                               /\ e.status \in {"queued", "failed"}
  /\ e.kind = "wake" => e = Wake(e.who) /\ e.who \in JobWorkers /\ wk[e.who].at \in Called
  /\ e.kind = "stop" => e = Stop /\ closed

\* What an event must not come after.
Follows(e, f, wk) ==
  /\ e.kind = "send" /\ e.status = "queued"
  /\ \/ f.kind = "stop"
     \/ f.kind = "wake" /\ wk[f.who].at = "slept" /\ wk[f.who].job = e.job

Scheduled(s, r, wk, closed) ==
  /\ s \in Seq(Entry)
  /\ \A i \in DOMAIN s : EntryOK(s[i], r, wk, closed)
  /\ \A i, k \in DOMAIN s : s[i] = s[k] /\ s[i].kind # "send" => i = k
  /\ \A i, k \in DOMAIN s : Follows(s[i], s[k], wk) => i < k

CrewOK(r, wk, closed) ==
  /\ wk \in [JobWorkers -> JobWorker]
  /\ \A w \in JobWorkers :
       /\ wk[w].at \in Holding => wk[w].job \in JobIds
       /\ wk[w].at = "slept" => r[wk[w].job].status # "none"
       /\ wk[w].at \in Running => r[wk[w].job].status = "running"
       /\ wk[w].cancelled => closed
  /\ \A v, w \in JobWorkers :
       wk[v].at \in Running /\ wk[w].at \in Running /\ wk[v].job = wk[w].job => v = w

BacklogOK(s, r) == s \in Seq(JobIds) /\ \A i \in DOMAIN s : r[s[i]].status # "none"

Announcing(s, j) == \E i \in DOMAIN s : s[i].kind = "send" /\ s[i].job = j

\* A job whose status was not yet announced has an event scheduled.
AnnouncedOK(t, r, s) ==
  /\ t \in [JobIds -> {"none", "queued", "running"} \cup Ended]
  /\ \A j \in JobIds :
       /\ Rank(t[j]) <= Rank(r[j].status)
       /\ t[j] # r[j].status => Announcing(s, j)

\* From the moment no worker is left.
ClosingOK ==
  /\ shutting \in {"no", "waiting", "gathering", "failing", "flushing", "done"}
  /\ shutting \in {"failing", "flushing", "done"} =>
       /\ Alive = {} /\ backlog = <<>>
       /\ \A i \in DOMAIN ready : ready[i].kind = "send" /\ ready[i].status # "queued"
  /\ shutting \in {"flushing", "done"} => ActiveJobs = {} /\ Len(finished) <= JobHistory
  /\ shutting = "done" => ready = <<>>

JobsInv ==
  /\ BooksOK(record, finished)
  /\ Scheduled(ready, record, worker, Closed)
  /\ CrewOK(record, worker, Closed)
  /\ BacklogOK(backlog, record)
  /\ AnnouncedOK(told, record, ready)
  /\ ClosingOK

\* The moves of a record.
RecordMoves(r, n) ==
  \/ n.status = r.status /\ n.kept = r.kept /\ n.began = r.began
  \/ r.status = "none" /\ n.status = "queued" /\ n.kept /\ ~n.began
  \/ r.status = "queued" /\ n.status = "running" /\ n.kept /\ n.began
  \/ /\ r.status \in {"queued", "running"} /\ n.status \in Ended /\ n.began = r.began
     /\ n.status = "succeeded" => r.status = "running"
  \/ r.status \in Ended /\ n.status = r.status /\ ~n.kept

JobsMove ==
  /\ \A j \in JobIds : RecordMoves(record[j], record'[j])
  /\ \A j \in JobIds : Rank(told[j]) <= Rank(told'[j])

-----------------------------------------------------------------------------
LEMMA TailParts ==
  ASSUME NEW S, NEW s \in Seq(S), s # <<>>
  PROVE  /\ Tail(s) \in Seq(S) /\ Head(s) = s[1] /\ 1 \in DOMAIN s /\ Head(s) \in S
         /\ \A i \in DOMAIN Tail(s) : i \in Nat /\ i + 1 \in DOMAIN s /\ Tail(s)[i] = s[i + 1]
         /\ \A i \in DOMAIN s : i # 1 => i - 1 \in DOMAIN Tail(s) /\ Tail(s)[i - 1] = s[i]
<1>1. Len(s) \in Nat \ {0} /\ DOMAIN s = 1..Len(s)
  BY EmptySeq, LenProperties
<1>2. /\ Tail(s) \in Seq(S) /\ Len(Tail(s)) = Len(s) - 1
      /\ \A i \in 1..Len(Tail(s)) : Tail(s)[i] = s[i + 1]
      /\ Head(s) = s[1] /\ Head(s) \in S
  BY HeadTailProperties
<1>3. DOMAIN Tail(s) = 1..(Len(s) - 1)
  BY <1>2, LenProperties
<1>. QED
  BY <1>1, <1>2, <1>3

LEMMA AppendParts ==
  ASSUME NEW S, NEW s \in Seq(S), NEW e \in S
  PROVE  /\ Append(s, e) \in Seq(S) /\ Len(s) + 1 \in DOMAIN Append(s, e)
         /\ \A i \in DOMAIN s : /\ i \in Nat /\ i < Len(s) + 1
                                /\ i \in DOMAIN Append(s, e) /\ Append(s, e)[i] = s[i]
         /\ Append(s, e)[Len(s) + 1] = e
         /\ \A i \in DOMAIN Append(s, e) : i \in DOMAIN s \/ i = Len(s) + 1
<1>1. Len(s) \in Nat /\ DOMAIN s = 1..Len(s)
  BY LenProperties
<1>2. /\ Append(s, e) \in Seq(S) /\ Len(Append(s, e)) = Len(s) + 1
      /\ \A i \in 1..Len(s) : Append(s, e)[i] = s[i]
      /\ Append(s, e)[Len(s) + 1] = e
  BY AppendProperties
<1>3. DOMAIN Append(s, e) = 1..(Len(s) + 1)
  BY <1>2, LenProperties
<1>. QED
  BY <1>1, <1>2, <1>3

-----------------------------------------------------------------------------
(* The loop's ready queue. *)

NoWake(s, w) == \A i \in DOMAIN s : s[i].kind = "wake" => s[i].who # w

LEMMA EntryKinds ==
  /\ \A w : Wake(w).kind = "wake" /\ Wake(w).who = w
  /\ \A j, status : /\ Send(j, status).kind = "send" /\ Send(j, status).job = j
                    /\ Send(j, status).status = status
  /\ Stop.kind = "stop"
  /\ \A w \in JobWorkers : Wake(w) \in Entry
  /\ \A j \in JobIds : \A status \in {"queued", "failed"} : Send(j, status) \in Entry
  /\ Stop \in Entry
BY DEF Wake, Send, Stop, Entry

LEMMA TailScheduled ==
  ASSUME NEW s, NEW r, NEW wk, NEW closed, Scheduled(s, r, wk, closed), s # <<>>
  PROVE  /\ Scheduled(Tail(s), r, wk, closed)
         /\ Head(s).kind = "wake" => NoWake(Tail(s), Head(s).who)
         /\ Head(s).kind = "stop" =>
              \A i \in DOMAIN Tail(s) : /\ Tail(s)[i].kind # "stop"
                                        /\ Tail(s)[i].kind = "send" => Tail(s)[i].status # "queued"
         /\ Head(s) \in Entry /\ EntryOK(Head(s), r, wk, closed)
         /\ \A i \in DOMAIN Tail(s) : ~Follows(Tail(s)[i], Head(s), wk)
         /\ \A j : Announcing(s, j) => Announcing(Tail(s), j)
                                         \/ (Head(s).kind = "send" /\ Head(s).job = j)
<1>1. s \in Seq(Entry)
  BY DEF Scheduled
<1>2. /\ Tail(s) \in Seq(Entry) /\ Head(s) = s[1] /\ 1 \in DOMAIN s /\ Head(s) \in Entry
      /\ \A i \in DOMAIN Tail(s) : i \in Nat /\ i + 1 \in DOMAIN s /\ Tail(s)[i] = s[i + 1]
      /\ \A i \in DOMAIN s : i # 1 => i - 1 \in DOMAIN Tail(s) /\ Tail(s)[i - 1] = s[i]
  BY <1>1, TailParts
<1>3. \A i, k \in DOMAIN Tail(s) : Follows(Tail(s)[i], Tail(s)[k], wk) => i < k
  <2>. SUFFICES ASSUME NEW i \in DOMAIN Tail(s), NEW k \in DOMAIN Tail(s),
                       Follows(Tail(s)[i], Tail(s)[k], wk)
                PROVE  i < k
    OBVIOUS
  <2>1. i + 1 < k + 1
    BY <1>2 DEF Scheduled
  <2>. QED
    BY <1>2, <2>1
<1>4. \A i, k \in DOMAIN Tail(s) : Tail(s)[i] = Tail(s)[k] /\ Tail(s)[i].kind # "send" => i = k
  <2>. SUFFICES ASSUME NEW i \in DOMAIN Tail(s), NEW k \in DOMAIN Tail(s),
                       Tail(s)[i] = Tail(s)[k], Tail(s)[i].kind # "send"
                PROVE  i = k
    OBVIOUS
  <2>1. i + 1 = k + 1
    BY <1>2 DEF Scheduled
  <2>. QED
    BY <1>2, <2>1
<1>5. \A i \in DOMAIN Tail(s) : EntryOK(Tail(s)[i], r, wk, closed)
  BY <1>2 DEF Scheduled
<1>6. \A i \in DOMAIN Tail(s) : ~Follows(Tail(s)[i], Head(s), wk)
  <2>. SUFFICES ASSUME NEW i \in DOMAIN Tail(s), Follows(Tail(s)[i], Head(s), wk)
                PROVE  FALSE
    OBVIOUS
  <2>1. i + 1 < 1
    BY <1>2 DEF Scheduled
  <2>. QED
    BY <1>2, <2>1
<1>7. ASSUME NEW i \in DOMAIN Tail(s), Tail(s)[i].kind # "send"
      PROVE  Tail(s)[i] # Head(s)
  <2>. SUFFICES ASSUME Tail(s)[i] = Head(s) PROVE FALSE
    OBVIOUS
  <2>1. i + 1 = 1
    BY <1>2, <1>7 DEF Scheduled
  <2>. QED
    BY <1>2, <2>1
<1>8. EntryOK(Head(s), r, wk, closed)
  BY <1>2 DEF Scheduled
<1>9. Head(s).kind = "wake" => NoWake(Tail(s), Head(s).who)
  BY <1>5, <1>7, <1>8, Zenon DEF NoWake, EntryOK
<1>10. Head(s).kind = "stop" =>
         \A i \in DOMAIN Tail(s) : /\ Tail(s)[i].kind # "stop"
                                   /\ Tail(s)[i].kind = "send" => Tail(s)[i].status # "queued"
  BY <1>5, <1>6, <1>7, <1>8, EntryKinds DEF EntryOK, Follows
<1>11. \A j : Announcing(s, j) => Announcing(Tail(s), j)
                                    \/ (Head(s).kind = "send" /\ Head(s).job = j)
  BY <1>2 DEF Announcing
<1>. QED
  BY <1>2, <1>3, <1>4, <1>5, <1>6, <1>8, <1>9, <1>10, <1>11 DEF Scheduled

LEMMA AppendScheduled ==
  ASSUME NEW s, NEW r, NEW wk, NEW closed, Scheduled(s, r, wk, closed),
         NEW e \in Entry, EntryOK(e, r, wk, closed),
         e.kind # "send" => \A i \in DOMAIN s : s[i] # e,
         \A i \in DOMAIN s : ~Follows(e, s[i], wk)
  PROVE  /\ Scheduled(Append(s, e), r, wk, closed)
         /\ \A j : Announcing(s, j) => Announcing(Append(s, e), j)
         /\ e.kind = "send" => Announcing(Append(s, e), e.job)
         /\ \A w : NoWake(s, w) /\ (e.kind = "wake" => e.who # w) => NoWake(Append(s, e), w)
<1>. DEFINE t == Append(s, e)
            n == Len(s) + 1
<1>1. s \in Seq(Entry)
  BY DEF Scheduled
<1>2. /\ t \in Seq(Entry) /\ n \in DOMAIN t
      /\ \A i \in DOMAIN s : i \in Nat /\ i < n /\ i \in DOMAIN t /\ t[i] = s[i]
      /\ t[n] = e
      /\ \A i \in DOMAIN t : i \in DOMAIN s \/ i = n
  BY <1>1, AppendParts
<1>. HIDE DEF t, n
<1>3. ~Follows(e, e, wk)
  BY DEF Follows
<1>4. \A i \in DOMAIN t : EntryOK(t[i], r, wk, closed)
  BY <1>2 DEF Scheduled
<1>5. \A i, k \in DOMAIN t : t[i] = t[k] /\ t[i].kind # "send" => i = k
  BY <1>2 DEF Scheduled
<1>6. \A i, k \in DOMAIN t : Follows(t[i], t[k], wk) => i < k
  BY <1>2, <1>3 DEF Scheduled
<1>7. Scheduled(t, r, wk, closed)
  BY <1>2, <1>4, <1>5, <1>6 DEF Scheduled
<1>8. /\ \A j : Announcing(s, j) => Announcing(t, j)
      /\ e.kind = "send" => Announcing(t, e.job)
  BY <1>2 DEF Announcing
<1>9. \A w : NoWake(s, w) /\ (e.kind = "wake" => e.who # w) => NoWake(t, w)
  BY <1>2 DEF NoWake
<1>. QED
  BY <1>7, <1>8, <1>9 DEF t

SameAt(x, y) == y.at = x.at /\ y.job = x.job

\* The queue stays as it is while records, and workers not called by it, move.
LEMMA ScheduledMoves ==
  ASSUME NEW s, NEW r, NEW wk, NEW closed, Scheduled(s, r, wk, closed),
         NEW r2, NEW wk2,
         \A i \in DOMAIN s : s[i].kind = "send" => r2[s[i].job].status = r[s[i].job].status,
         \A v \in JobWorkers : NoWake(s, v) \/ SameAt(wk[v], wk2[v])
  PROVE  Scheduled(s, r2, wk2, closed)
<1>1. ASSUME NEW i \in DOMAIN s, s[i].kind = "wake"
      PROVE  s[i].who \in JobWorkers /\ SameAt(wk[s[i].who], wk2[s[i].who])
  BY <1>1 DEF Scheduled, EntryOK, NoWake
<1>2. \A i \in DOMAIN s : EntryOK(s[i], r2, wk2, closed)
  <2>. SUFFICES ASSUME NEW i \in DOMAIN s PROVE EntryOK(s[i], r2, wk2, closed)
    OBVIOUS
  <2>1. EntryOK(s[i], r, wk, closed)
    BY DEF Scheduled
  <2>. QED
    BY <1>1, <2>1 DEF EntryOK, SameAt
<1>3. \A i, k \in DOMAIN s : Follows(s[i], s[k], wk2) => Follows(s[i], s[k], wk)
  BY <1>1 DEF Follows, SameAt
<1>. QED
  BY <1>2, <1>3 DEF Scheduled

-----------------------------------------------------------------------------
(* The records and the history. *)

LEMMA FinalizeBooks ==
  ASSUME NEW r, NEW s, BooksOK(r, s), NEW j \in JobIds, r[j].status \in {"queued", "running"},
         NEW n \in JobRecord, n.status \in Ended, n.kept
  PROVE  BooksOK([r EXCEPT ![j] = n], Append(s, j))
<1>. DEFINE r2 == [r EXCEPT ![j] = n]
            t == Append(s, j)
            l == Len(s) + 1
<1>1. /\ s \in Seq(JobIds) /\ r \in [JobIds -> JobRecord] /\ Once(s)
      /\ \A i \in DOMAIN s : s[i] \in JobIds /\ s[i] # j /\ r[s[i]].status \in Ended /\ r[s[i]].kept
  <2>1. s \in Seq(JobIds) /\ r \in [JobIds -> JobRecord] /\ Once(s)
    BY DEF BooksOK
  <2>2. ASSUME NEW i \in DOMAIN s
        PROVE  s[i] \in JobIds /\ s[i] # j /\ r[s[i]].status \in Ended /\ r[s[i]].kept
    <3>1. s[i] \in JobIds
      BY <2>1, ElementOfSeq, LenProperties
    <3>. QED
      BY <3>1 DEF BooksOK, Ended
  <2>. QED
    BY <2>1, <2>2
<1>2. /\ t \in Seq(JobIds) /\ l \in DOMAIN t
      /\ \A i \in DOMAIN s : i \in Nat /\ i < l /\ i \in DOMAIN t /\ t[i] = s[i]
      /\ t[l] = j
      /\ \A i \in DOMAIN t : i \in DOMAIN s \/ i = l
  BY <1>1, AppendParts
<1>3. r2 \in [JobIds -> JobRecord] /\ \A i \in JobIds : r2[i] = IF i = j THEN n ELSE r[i]
  BY <1>1
<1>. HIDE DEF r2, t, l
<1>4. \A i \in JobIds : RecordOK(r2[i])
  BY <1>3 DEF BooksOK, RecordOK, Ended
<1>5. Once(t)
  BY <1>1, <1>2 DEF Once
<1>6. \A i \in DOMAIN t : r2[t[i]].status \in Ended /\ r2[t[i]].kept
  BY <1>1, <1>2, <1>3
<1>7. ASSUME NEW i \in JobIds, r2[i].status \in Ended, r2[i].kept
      PROVE  \E k \in DOMAIN t : t[k] = i
  <2>1. CASE i = j
    BY <1>2, <2>1
  <2>2. CASE i # j
    <3>1. \E k \in DOMAIN s : s[k] = i
      BY <1>3, <1>7, <2>2 DEF BooksOK
    <3>. QED
      BY <1>2, <3>1
  <2>. QED
    BY <2>1, <2>2
<1>. QED
  BY <1>2, <1>3, <1>4, <1>5, <1>6, <1>7 DEF BooksOK, r2, t

LEMMA EvictBooks ==
  ASSUME NEW r, NEW s, BooksOK(r, s), Evict(<<r, s>>)
  PROVE  /\ BooksOK(record', finished') /\ Len(finished') <= JobHistory
         /\ \A j \in JobIds : /\ record'[j].status = r[j].status
                              /\ record'[j].began = r[j].began
                              /\ record'[j].kept # r[j].kept => r[j].status \in Ended
                                                                /\ ~record'[j].kept
<1>. DEFINE l == Len(s)
            extra == IF l > JobHistory THEN l - JobHistory ELSE 0
            old == {s[i] : i \in 1..extra}
            t == SubSeq(s, extra + 1, l)
            n == l - extra
<1>1. /\ record' = [j \in JobIds |-> IF j \in old THEN [r[j] EXCEPT !.kept = FALSE] ELSE r[j]]
      /\ finished' = t
  BY Zenon DEF Evict
<1>0. s \in Seq(JobIds) /\ Once(s)
  BY DEF BooksOK
<1>2. l \in Nat /\ DOMAIN s = 1..l /\ \A i \in 1..l : s[i] \in JobIds
  BY <1>0, LenProperties, ElementOfSeq
<1>. HIDE DEF l
<1>3. JobHistory \in Nat \ {0}
  BY JobManagerAssumption
<1>4. extra \in 0..l /\ n \in Nat /\ n <= JobHistory
  BY <1>2, <1>3
<1>. HIDE DEF extra
<1>5. /\ t \in Seq(JobIds) /\ DOMAIN t = 1..n /\ Len(t) = n
      /\ \A i \in 1..n : i + extra \in 1..l /\ t[i] = s[i + extra]
  <2>1. l \in Int /\ extra + 1 \in Int
    BY <1>2, <1>4
  <2>2. \A i \in (extra + 1)..l : s[i] \in JobIds
    BY <1>2, <1>4
  <2>3. /\ t \in Seq(JobIds)
        /\ Len(t) = IF extra + 1 <= l THEN l - (extra + 1) + 1 ELSE 0
        /\ \A i \in 1..(l - (extra + 1) + 1) : t[i] = s[extra + 1 + i - 1]
    BY <2>1, <2>2, SubSeqProperties
  <2>. HIDE DEF t
  <2>4. (IF extra + 1 <= l THEN l - (extra + 1) + 1 ELSE 0) = n
    BY <1>2, <1>4
  <2>5. Len(t) = n
    BY <2>3, <2>4
  <2>6. DOMAIN t = 1..n
    BY <2>3, <2>5, LenProperties
  <2>7. ASSUME NEW i \in 1..n PROVE i + extra \in 1..l /\ t[i] = s[i + extra]
    <3>1. i \in 1..(l - (extra + 1) + 1) /\ extra + 1 + i - 1 = i + extra
      BY <1>2, <1>4
    <3>2. i + extra \in 1..l
      BY <1>2, <1>4
    <3>. QED
      BY <2>3, <3>1, <3>2
  <2>. QED
    BY <2>3, <2>5, <2>6, <2>7
<1>6. ASSUME NEW i \in 1..l
      PROVE  s[i] \in old <=> i <= extra
  <2>1. CASE i <= extra
    <3>1. i \in 1..extra
      BY <1>2, <1>4, <2>1
    <3>. QED
      BY <2>1, <3>1
  <2>2. CASE ~(i <= extra)
    <3>1. ASSUME NEW k \in 1..extra, s[k] = s[i] PROVE FALSE
      <4>1. k \in 1..l /\ k # i
        BY <1>2, <1>4, <2>2
      <4>. QED
        BY <1>0, <1>2, <3>1, <4>1 DEF Once
    <3>. QED
      BY <2>2, <3>1
  <2>. QED
    BY <2>1, <2>2
<1>7. \A j \in old : r[j].status \in Ended /\ r[j].kept
  <2>1. \A i \in 1..extra : i \in DOMAIN s
    BY <1>2, <1>4
  <2>. QED
    BY <2>1 DEF BooksOK
<1>. HIDE DEF old, t
<1>8. ASSUME NEW j \in JobIds
      PROVE  /\ record'[j] \in JobRecord /\ RecordOK(record'[j])
             /\ record'[j].status = r[j].status /\ record'[j].began = r[j].began
             /\ record'[j].kept <=> r[j].kept /\ j \notin old
  <2>1. r[j] \in JobRecord /\ RecordOK(r[j])
    BY DEF BooksOK
  <2>2. record'[j] = IF j \in old THEN [r[j] EXCEPT !.kept = FALSE] ELSE r[j]
    BY <1>1
  <2>3. CASE j \in old
    <3>. DEFINE cut == [r[j] EXCEPT !.kept = FALSE]
    <3>1. cut \in JobRecord /\ ~cut.kept /\ cut.status = r[j].status /\ cut.began = r[j].began
      BY <2>1 DEF JobRecord
    <3>2. r[j].status \in Ended /\ r[j].kept /\ record'[j] = cut
      BY <1>7, <2>2, <2>3
    <3>3. RecordOK(cut)
      BY <2>1, <3>2 DEF RecordOK, JobRecord, Ended
    <3>. HIDE DEF cut
    <3>. QED
      BY <2>3, <3>1, <3>2, <3>3
  <2>4. CASE j \notin old
    <3>1. record'[j] = r[j]
      BY <2>2, <2>4
    <3>. QED
      BY <2>1, <2>4, <3>1
  <2>. QED
    BY <2>3, <2>4
<1>9. record' \in [JobIds -> JobRecord]
  BY <1>1, <1>8
<1>10. Once(t)
  <2>1. ASSUME NEW a \in 1..n, NEW b \in 1..n, t[a] = t[b] PROVE a = b
    <3>1. a + extra \in 1..l /\ b + extra \in 1..l /\ s[a + extra] = s[b + extra]
      BY <1>5, <2>1
    <3>2. a + extra = b + extra
      BY <1>0, <1>2, <3>1 DEF Once
    <3>. QED
      BY <1>4, <3>2
  <2>. QED
    BY <1>5, <2>1 DEF Once
<1>11. ASSUME NEW i \in DOMAIN t
       PROVE  record'[t[i]].status \in Ended /\ record'[t[i]].kept
  <2>1. i + extra \in 1..l /\ t[i] = s[i + extra] /\ t[i] \in JobIds /\ ~(i + extra <= extra)
    BY <1>2, <1>4, <1>5
  <2>2. r[t[i]].status \in Ended /\ r[t[i]].kept
    BY <1>2, <2>1 DEF BooksOK
  <2>. QED
    BY <1>6, <1>8, <2>1, <2>2
<1>12. ASSUME NEW j \in JobIds, record'[j].status \in Ended, record'[j].kept
       PROVE  \E i \in DOMAIN t : t[i] = j
  <2>1. r[j].status \in Ended /\ r[j].kept /\ j \notin old
    BY <1>8, <1>12
  <2>2. PICK k \in 1..l : s[k] = j
    BY <1>2, <2>1 DEF BooksOK
  <2>3. ~(k <= extra)
    BY <1>6, <2>1, <2>2
  <2>4. k - extra \in 1..n /\ (k - extra) + extra = k
    BY <1>2, <1>4, <2>3
  <2>. QED
    BY <1>5, <2>2, <2>4
<1>13. BooksOK(record', finished')
  BY <1>1, <1>5, <1>8, <1>9, <1>10, <1>11, <1>12 DEF BooksOK
<1>14. Len(finished') <= JobHistory
  <2>. HIDE DEF n
  <2>. QED
    BY <1>1, <1>4, <1>5
<1>15. \A j \in JobIds : /\ record'[j].status = r[j].status
                         /\ record'[j].began = r[j].began
                         /\ record'[j].kept # r[j].kept => r[j].status \in Ended
                                                           /\ ~record'[j].kept
  <2>. SUFFICES ASSUME NEW j \in JobIds
                PROVE  /\ record'[j].status = r[j].status
                       /\ record'[j].began = r[j].began
                       /\ record'[j].kept # r[j].kept => r[j].status \in Ended
                                                         /\ ~record'[j].kept
    OBVIOUS
  <2>1. record'[j].kept \in BOOLEAN /\ r[j].kept \in BOOLEAN
    BY <1>8 DEF BooksOK, JobRecord
  <2>. QED
    BY <1>7, <1>8, <2>1
<1>. QED
  BY <1>13, <1>14, <1>15

\* A record that has not ended moves on and does not end.
LEMMA OpenBooks ==
  ASSUME NEW r, NEW s, BooksOK(r, s), NEW j \in JobIds, r[j].status \notin Ended,
         NEW r2 \in [JobIds -> JobRecord], \A i \in JobIds \ {j} : r2[i] = r[i],
         RecordOK(r2[j]), r2[j].status \notin Ended
  PROVE  BooksOK(r2, s)
<1>1. s \in Seq(JobIds)
  BY DEF BooksOK
<1>2. \A i \in DOMAIN s : s[i] \in JobIds /\ s[i] # j
  BY <1>1, LenProperties, ElementOfSeq DEF BooksOK
<1>3. \A i \in JobIds : RecordOK(r2[i])
  BY DEF BooksOK
<1>4. \A i \in DOMAIN s : r2[s[i]].status \in Ended /\ r2[s[i]].kept
  BY <1>2 DEF BooksOK
<1>5. \A i \in JobIds : r2[i].status \in Ended /\ r2[i].kept => \E k \in DOMAIN s : s[k] = i
  BY DEF BooksOK
<1>. QED
  BY <1>3, <1>4, <1>5 DEF BooksOK

-----------------------------------------------------------------------------
(* What clients have been told. *)

LEMMA Ranks ==
  /\ Rank("none") = 0 /\ Rank("queued") = 1 /\ Rank("running") = 2
  /\ Rank("succeeded") = 3 /\ Rank("failed") = 3
BY DEF Rank

LEMMA RanksRise ==
  ASSUME NEW r \in JobRecord, NEW n \in JobRecord, RecordMoves(r, n)
  PROVE  Rank(r.status) <= Rank(n.status)
BY Ranks DEF RecordMoves, JobRecord, Ended

LEMMA TellMoves ==
  ASSUME NEW t, NEW r \in [JobIds -> JobRecord], NEW s, AnnouncedOK(t, r, s),
         NEW r2 \in [JobIds -> JobRecord], \A i \in JobIds : RecordMoves(r[i], r2[i]),
         NEW t2 \in [JobIds -> {"none", "queued", "running"} \cup Ended], NEW s2,
         \A i \in JobIds : \/ t2[i] = r2[i].status
                           \/ /\ t2[i] = t[i]
                              /\ t[i] # r2[i].status => Announcing(s2, i)
  PROVE  AnnouncedOK(t2, r2, s2) /\ \A i \in JobIds : Rank(t[i]) <= Rank(t2[i])
<1>1. ASSUME NEW i \in JobIds
      PROVE  /\ Rank(t2[i]) <= Rank(r2[i].status) /\ Rank(t[i]) <= Rank(t2[i])
             /\ t2[i] # r2[i].status => Announcing(s2, i)
  <2>1. Rank(t[i]) <= Rank(r[i].status) /\ Rank(r[i].status) <= Rank(r2[i].status)
    BY RanksRise DEF AnnouncedOK
  <2>2. /\ Rank(t[i]) \in Nat /\ Rank(r[i].status) \in Nat /\ Rank(r2[i].status) \in Nat
    <3>1. /\ t[i] \in {"none", "queued", "running"} \cup Ended
          /\ r[i].status \in {"none", "queued", "running"} \cup Ended
          /\ r2[i].status \in {"none", "queued", "running"} \cup Ended
      BY DEF AnnouncedOK, JobRecord
    <3>. QED
      BY <3>1, Ranks DEF Ended
  <2>. QED
    BY <2>1, <2>2
<1>. QED
  BY <1>1 DEF AnnouncedOK

-----------------------------------------------------------------------------
(* The workers. *)

Ats == {"fresh", "idle", "woken", "slept", "starting", "handling", "closing", "gone"}

LEMMA Tags ==
  /\ \A at \in Ats : Tag(at) \in JobWorker /\ Tag(at).at = at /\ ~Tag(at).cancelled
  /\ \A at \in Ats : \A j \in JobIds :
       /\ Busy(at, j) \in JobWorker /\ Busy(at, j).at = at /\ Busy(at, j).job = j
       /\ ~Busy(at, j).cancelled
BY DEF Tag, Busy, Ats, JobWorker

\* Worker w may become n among the others, when the records are r.
Suits(r, wk, closed, w, n) ==
  /\ n \in JobWorker /\ (n.cancelled => closed)
  /\ n.at \in Holding => n.job \in JobIds
  /\ n.at = "slept" => r[n.job].status # "none"
  /\ n.at \in Running => /\ r[n.job].status = "running"
                         /\ \A v \in JobWorkers \ {w} :
                              wk[v].at \in Running => wk[v].job # n.job
  /\ \A v \in JobWorkers \ {w} : wk[v].at \in Running => r[wk[v].job].status = "running"

Lasting(r, r2) == \A j \in JobIds : r[j].status # "none" => r2[j].status # "none"

\* The records may become r while worker w leaves.
Spares(r0, r, w) ==
  /\ Lasting(r0, r)
  /\ \A v \in JobWorkers \ {w} : worker[v].at \in Running => r[worker[v].job].status = "running"

LEMMA CrewMoves ==
  ASSUME NEW r, NEW wk, NEW closed, CrewOK(r, wk, closed), NEW r2, Lasting(r, r2),
         NEW w \in JobWorkers, NEW n, Suits(r2, wk, closed, w, n),
         NEW wk2 \in [JobWorkers -> JobWorker], wk2[w] = n,
         \A v \in JobWorkers \ {w} : wk2[v] = wk[v]
  PROVE  CrewOK(r2, wk2, closed)
<1>2. wk2[w] = n /\ \A v \in JobWorkers \ {w} : wk2[v] = wk[v]
  OBVIOUS
<1>3. ASSUME NEW v \in JobWorkers
      PROVE  /\ wk2[v].at \in Holding => wk2[v].job \in JobIds
             /\ wk2[v].at = "slept" => r2[wk2[v].job].status # "none"
             /\ wk2[v].at \in Running => r2[wk2[v].job].status = "running"
             /\ wk2[v].cancelled => closed
  <2>1. CASE v = w
    BY <1>2, <2>1 DEF Suits
  <2>2. CASE v # w
    BY <1>2, <2>2 DEF CrewOK, Holding, Suits, Lasting
  <2>. QED
    BY <2>1, <2>2
<1>4. \A v, x \in JobWorkers :
        wk2[v].at \in Running /\ wk2[x].at \in Running /\ wk2[v].job = wk2[x].job => v = x
  BY <1>2 DEF CrewOK, Suits
<1>5. CrewOK(r2, wk2, closed)
  BY <1>2, <1>3, <1>4 DEF CrewOK
<1>. QED
  BY <1>2, <1>5

LEMMA CrewRecords ==
  ASSUME NEW r, NEW wk, NEW closed, CrewOK(r, wk, closed), NEW r2,
         Lasting(r, r2),
         \A v \in JobWorkers : wk[v].at \in Running => r2[wk[v].job].status = "running"
  PROVE  CrewOK(r2, wk, closed)
BY DEF CrewOK, Holding, Lasting

LEMMA BacklogRecords ==
  ASSUME NEW r, NEW r2, NEW b, BacklogOK(b, r), Lasting(r, r2)
  PROVE  BacklogOK(b, r2)
BY LenProperties, ElementOfSeq DEF BacklogOK, Lasting

\* A worker not called by the queue leaves it alone when it moves.
LEMMA NotCalled ==
  ASSUME NEW s, NEW r, NEW wk, NEW closed, Scheduled(s, r, wk, closed),
         NEW w, wk[w].at \notin Called
  PROVE  NoWake(s, w)
BY DEF Scheduled, EntryOK, NoWake

LEMMA EndKeeps ==
  ASSUME NEW r0, NEW r, NEW rest, NEW w \in JobWorkers,
         CrewOK(r0, worker, Closed), Spares(r0, r, w), Closed,
         Scheduled(rest, r, worker, Closed), NoWake(rest, w), End(w, rest)
  PROVE  /\ Scheduled(ready', r, worker', Closed) /\ CrewOK(r, worker', Closed)
         /\ \A j : Announcing(rest, j) => Announcing(ready', j)
<1>1. worker' = [worker EXCEPT ![w] = Tag("gone")]
  BY DEF End
<1>2. Tag("gone") \in JobWorker /\ Tag("gone").at = "gone" /\ ~Tag("gone").cancelled
  BY Tags DEF Ats
<1>3. /\ CrewOK(r, worker', Closed)
      /\ \A v \in JobWorkers \ {w} : worker'[v] = worker[v]
  <2>. HIDE DEF Closed
  <2>. DEFINE g == Tag("gone")
  <2>1. g \in JobWorker /\ g.at = "gone" /\ ~g.cancelled
    BY <1>2
  <2>. HIDE DEF g
  <2>2. Suits(r, worker, Closed, w, g)
    BY <2>1 DEF Holding, Running, Spares, Suits
  <2>3. Lasting(r0, r)
    BY DEF Spares
  <2>4. /\ worker' \in [JobWorkers -> JobWorker] /\ worker'[w] = g
        /\ \A v \in JobWorkers \ {w} : worker'[v] = worker[v]
    BY <1>1, <2>1 DEF g, CrewOK
  <2>. QED
    BY <2>1, <2>2, <2>3, <2>4, CrewMoves
<1>4. Scheduled(rest, r, worker', Closed)
  BY <1>3, ScheduledMoves DEF SameAt
<1>5. CASE ready' = rest
  BY <1>3, <1>4, <1>5
<1>6. CASE ready' = Append(rest, Stop) /\ ~\E i \in DOMAIN rest : rest[i].kind = "stop"
  <2>1. Stop \in Entry /\ EntryOK(Stop, r, worker', Closed) /\ \A i : ~Follows(Stop, i, worker')
    BY EntryKinds DEF EntryOK, Follows
  <2>2. \A i \in DOMAIN rest : rest[i] # Stop
    BY <1>6, EntryKinds
  <2>3. /\ Scheduled(Append(rest, Stop), r, worker', Closed)
        /\ \A j : Announcing(rest, j) => Announcing(Append(rest, Stop), j)
    BY <1>4, <2>1, <2>2, AppendScheduled
  <2>. QED
    BY <1>3, <1>6, <2>3
<1>. QED
  BY <1>5, <1>6 DEF End

LEMMA LoopTopKeeps ==
  ASSUME NEW r, NEW rest, NEW w \in JobWorkers, CrewOK(r, worker, Closed), BacklogOK(backlog, r),
         Scheduled(rest, r, worker, Closed), NoWake(rest, w), LoopTop(w, rest)
  PROVE  /\ Scheduled(ready', r, worker', Closed) /\ CrewOK(r, worker', Closed)
         /\ BacklogOK(backlog', r)
         /\ \A j : Announcing(rest, j) => Announcing(ready', j)
<1>1. CASE Closed
  <2>1. End(w, rest) /\ backlog' = backlog
    BY <1>1 DEF LoopTop
  <2>2. Spares(r, r, w)
    BY DEF Spares, Lasting, CrewOK
  <2>. QED
    BY <1>1, <2>1, <2>2, EndKeeps
<1>2. CASE ~Closed /\ backlog = <<>>
  <2>1. worker' = [worker EXCEPT ![w] = Tag("idle")] /\ ready' = rest /\ backlog' = backlog
    BY <1>2 DEF LoopTop
  <2>. DEFINE n == Tag("idle")
  <2>2. n \in JobWorker /\ n.at = "idle" /\ ~n.cancelled
    BY Tags DEF Ats
  <2>. HIDE DEF n
  <2>3. Suits(r, worker, Closed, w, n)
    BY <2>2 DEF Holding, Running, CrewOK, Suits
  <2>4. Lasting(r, r)
    BY DEF Lasting
  <2>5. /\ worker' \in [JobWorkers -> JobWorker] /\ worker'[w] = n
        /\ \A v \in JobWorkers \ {w} : worker'[v] = worker[v]
    BY <2>1, <2>2 DEF n, CrewOK
  <2>6. CrewOK(r, worker', Closed)
    BY <2>2, <2>3, <2>4, <2>5, CrewMoves
  <2>7. Scheduled(rest, r, worker', Closed)
    BY <2>5, ScheduledMoves DEF SameAt
  <2>. QED
    BY <1>2, <2>1, <2>6, <2>7
<1>3. CASE ~Closed /\ backlog # <<>>
  <2>1. /\ worker' = [worker EXCEPT ![w] = Busy("slept", Head(backlog))]
        /\ ready' = Append(rest, Wake(w)) /\ backlog' = Tail(backlog)
    BY <1>3 DEF LoopTop, AfterGet
  <2>2. /\ backlog \in Seq(JobIds) /\ Head(backlog) \in JobIds /\ BacklogOK(backlog', r)
        /\ r[Head(backlog)].status # "none"
    <3>1. backlog \in Seq(JobIds)
      BY DEF BacklogOK
    <3>2. /\ Tail(backlog) \in Seq(JobIds) /\ Head(backlog) = backlog[1] /\ 1 \in DOMAIN backlog
          /\ Head(backlog) \in JobIds
          /\ \A i \in DOMAIN Tail(backlog) :
               i + 1 \in DOMAIN backlog /\ Tail(backlog)[i] = backlog[i + 1]
      BY <1>3, <3>1, TailParts
    <3>. QED
      BY <2>1, <3>1, <3>2 DEF BacklogOK
  <2>. DEFINE n == Busy("slept", Head(backlog))
  <2>3. n \in JobWorker /\ n.at = "slept" /\ ~n.cancelled /\ n.job = Head(backlog)
    BY <2>2, Tags DEF Ats
  <2>. HIDE DEF n
  <2>4. Suits(r, worker, Closed, w, n)
    BY <2>2, <2>3 DEF Running, CrewOK, Suits
  <2>5. Lasting(r, r)
    BY DEF Lasting
  <2>6. /\ worker' \in [JobWorkers -> JobWorker] /\ worker'[w] = n
        /\ \A v \in JobWorkers \ {w} : worker'[v] = worker[v]
    BY <2>1, <2>3 DEF n, CrewOK
  <2>7. CrewOK(r, worker', Closed)
    BY <2>3, <2>4, <2>5, <2>6, CrewMoves
  <2>8. Scheduled(rest, r, worker', Closed)
    BY <2>6, ScheduledMoves DEF SameAt
  <2>9. Wake(w) \in Entry /\ EntryOK(Wake(w), r, worker', Closed)
        /\ \A f : ~Follows(Wake(w), f, worker')
    BY <2>3, <2>6, EntryKinds DEF EntryOK, Follows, Called
  <2>10. \A i \in DOMAIN rest : rest[i] # Wake(w)
    BY EntryKinds DEF NoWake
  <2>11. /\ Scheduled(Append(rest, Wake(w)), r, worker', Closed)
         /\ \A j : Announcing(rest, j) => Announcing(Append(rest, Wake(w)), j)
    BY <2>8, <2>9, <2>10, AppendScheduled
  <2>. QED
    BY <2>1, <2>2, <2>7, <2>11
<1>. QED
  BY <1>1, <1>2, <1>3

-----------------------------------------------------------------------------
(* The steps. *)

StillOK ==
  /\ BooksOK(record', finished') /\ Scheduled(ready', record', worker', Closed)
  /\ CrewOK(record', worker', Closed) /\ BacklogOK(backlog', record')

\* A step of a worker that is alive, and of nothing that ends the workers.
LEMMA WorkerStep ==
  ASSUME JobsInv, NEW w \in JobWorkers, worker[w].at # "gone", shutting' = shutting, StillOK,
         \A i \in JobIds : RecordMoves(record[i], record'[i]),
         told' \in [JobIds -> {"none", "queued", "running"} \cup Ended],
         \A i \in JobIds : \/ told'[i] = record'[i].status
                           \/ /\ told'[i] = told[i]
                              /\ told[i] # record'[i].status => Announcing(ready', i)
  PROVE  JobsInv' /\ JobsMove
<1>1. record \in [JobIds -> JobRecord] /\ record' \in [JobIds -> JobRecord]
  BY DEF JobsInv, StillOK, BooksOK
<1>2. AnnouncedOK(told', record', ready') /\ \A i \in JobIds : Rank(told[i]) <= Rank(told'[i])
  BY <1>1, TellMoves DEF JobsInv
<1>3. ClosingOK'
  BY DEF ClosingOK, JobsInv, Alive
<1>4. Closed' = Closed
  BY DEF Closed
<1>. QED
  BY <1>2, <1>3, <1>4 DEF JobsInv, JobsMove, StillOK

LEMMA ToldType == JobsInv => told \in [JobIds -> {"none", "queued", "running"} \cup Ended]
BY DEF JobsInv, AnnouncedOK

LEMMA ToldSame ==
  ASSUME JobsInv, told' = told,
         \A i \in JobIds : record'[i].status = record[i].status,
         \A i \in JobIds : Announcing(ready, i) => Announcing(ready', i)
  PROVE  /\ told' \in [JobIds -> {"none", "queued", "running"} \cup Ended]
         /\ \A i \in JobIds : /\ told'[i] = told[i]
                              /\ told[i] # record'[i].status => Announcing(ready', i)
BY DEF JobsInv, AnnouncedOK

\* Only a worker moves, that the loop's queue does not call.
LEMMA CrewStep ==
  ASSUME JobsInv, NEW w \in JobWorkers, worker[w].at \notin Called, worker[w].at # "gone",
         NEW n, worker' = [worker EXCEPT ![w] = n], Suits(record, worker, Closed, w, n),
         UNCHANGED <<record, finished, backlog, ready, shutting, told>>
  PROVE  JobsInv' /\ JobsMove
<1>1. /\ worker' \in [JobWorkers -> JobWorker] /\ worker'[w] = n
      /\ \A v \in JobWorkers \ {w} : worker'[v] = worker[v]
  BY DEF Suits, JobsInv, CrewOK
<1>2. Lasting(record, record)
  BY DEF Lasting
<1>3. CrewOK(record, worker', Closed)
  BY <1>1, <1>2, CrewMoves DEF JobsInv
<1>4. NoWake(ready, w) /\ Scheduled(ready, record, worker, Closed)
  BY NotCalled DEF JobsInv
<1>5. Scheduled(ready, record', worker', Closed)
  <2>1. \A v \in JobWorkers : NoWake(ready, v) \/ SameAt(worker[v], worker'[v])
    BY <1>1, <1>4 DEF SameAt
  <2>2. \A i \in DOMAIN ready : ready[i].kind = "send" =>
          record'[ready[i].job].status = record[ready[i].job].status
    OBVIOUS
  <2>. QED
    BY <1>4, <2>1, <2>2, ScheduledMoves
<1>6. StillOK
  <2>1. BooksOK(record', finished') /\ BacklogOK(backlog', record') /\ CrewOK(record', worker', Closed)
    BY <1>3 DEF JobsInv
  <2>2. ready' = ready
    OBVIOUS
  <2>. QED
    BY <1>5, <2>1, <2>2 DEF StillOK
<1>7. \A i \in JobIds : RecordMoves(record[i], record'[i])
  BY DEF RecordMoves
<1>8. /\ told' \in [JobIds -> {"none", "queued", "running"} \cup Ended]
      /\ \A i \in JobIds : /\ told'[i] = told[i]
                           /\ told[i] # record'[i].status => Announcing(ready', i)
  BY ToldSame
<1>9. shutting' = shutting
  OBVIOUS
<1>. QED
  BY <1>6, <1>7, <1>8, <1>9, WorkerStep

LEMMA HandlerKeeps ==
  ASSUME JobsInv, NEW w \in JobWorkers,
         StartHandler(w) \/ \E out \in {"result", "error"} : HandlerDone(w, out)
  PROVE  JobsInv' /\ JobsMove
<1>1. /\ worker[w] \in JobWorker /\ worker \in [JobWorkers -> JobWorker]
      /\ worker[w].cancelled => Closed
  BY DEF JobsInv, CrewOK
<1>2. ASSUME NEW n, n \in JobWorker, worker[w].at \in Running, n.at = "handling",
             n.job = worker[w].job, n.cancelled = worker[w].cancelled
      PROVE  Suits(record, worker, Closed, w, n)
  <2>1. n.cancelled => Closed
    BY <1>1, <1>2
  <2>. HIDE DEF Closed
  <2>. QED
    BY <1>2, <2>1 DEF Suits, JobsInv, CrewOK, Running, Holding
<1>3. PICK n : /\ n \in JobWorker /\ worker[w].at \in Running /\ n.at = "handling"
               /\ n.job = worker[w].job /\ n.cancelled = worker[w].cancelled
               /\ worker' = [worker EXCEPT ![w] = n]
               /\ UNCHANGED <<record, finished, backlog, ready, shutting, told>>
  <2>1. CASE StartHandler(w)
    <3>. DEFINE n == [worker[w] EXCEPT !.at = "handling"]
    <3>1. /\ n \in JobWorker /\ n.at = "handling"
          /\ n.job = worker[w].job /\ n.cancelled = worker[w].cancelled
      BY <1>1 DEF JobWorker
    <3>2. worker' = [worker EXCEPT ![w] = n] /\ worker[w].at \in Running
          /\ UNCHANGED <<record, finished, backlog, ready, shutting, told>>
      BY <2>1 DEF StartHandler, Running
    <3>. QED
      BY <3>1, <3>2
  <2>2. ASSUME NEW out \in {"result", "error"}, HandlerDone(w, out)
        PROVE  \E n : /\ n \in JobWorker /\ worker[w].at \in Running /\ n.at = "handling"
                      /\ n.job = worker[w].job /\ n.cancelled = worker[w].cancelled
                      /\ worker' = [worker EXCEPT ![w] = n]
                      /\ UNCHANGED <<record, finished, backlog, ready, shutting, told>>
    <3>. DEFINE n == [worker[w] EXCEPT !.out = out]
    <3>1. worker[w].at = "handling" /\ worker' = [worker EXCEPT ![w] = n]
          /\ worker[w].at \in Running
          /\ UNCHANGED <<record, finished, backlog, ready, shutting, told>>
      BY <2>2 DEF HandlerDone, Running
    <3>2. /\ n \in JobWorker /\ n.at = worker[w].at
          /\ n.job = worker[w].job /\ n.cancelled = worker[w].cancelled
      BY <1>1 DEF JobWorker
    <3>. QED
      BY <3>1, <3>2
  <2>. QED
    BY <2>1, <2>2
<1>4. worker[w].at \notin Called /\ worker[w].at # "gone"
  BY <1>3 DEF Called, Running
<1>. QED
  BY <1>2, <1>3, <1>4, CrewStep

LEMMA SettleKeeps ==
  ASSUME JobsInv, NEW w \in JobWorkers, worker[w].at = "handling",
         NEW status \in Ended, NEW error \in Errors, Settled(w, status, error)
  PROVE  JobsInv' /\ JobsMove
<1>. DEFINE j == worker[w].job
            n == [record[j] EXCEPT !.status = status, !.error = error]
<1>1. j \in JobIds /\ record[j].status = "running" /\ record[j] \in JobRecord
      /\ RecordOK(record[j])
  BY DEF JobsInv, CrewOK, BooksOK, Holding, Running
<1>2. n \in JobRecord /\ n.status = status /\ n.kept /\ n.began = record[j].began
  BY <1>1 DEF JobRecord, RecordOK, Ended
<1>3. /\ record' = [record EXCEPT ![j] = n] /\ finished' = Append(finished, j)
      /\ told' = [told EXCEPT ![j] = status]
      /\ worker' = [worker EXCEPT ![w] = Busy("closing", j)]
      /\ UNCHANGED <<backlog, ready, shutting>>
  BY <1>1 DEF Settled, Finalize, Ended
<1>. DEFINE b == Busy("closing", j)
<1>4. b \in JobWorker /\ b.at = "closing" /\ b.job = j /\ ~b.cancelled
  BY <1>1, Tags DEF Ats
<1>5. worker' = [worker EXCEPT ![w] = b]
  BY <1>3
<1>6. \A v \in JobWorkers \ {w} : worker[v].at \in Running => worker[v].job \in JobIds \ {j}
  BY DEF JobsInv, CrewOK, Running, Holding
<1>. HIDE DEF n, j, b
<1>7. BooksOK(record', finished')
  BY <1>1, <1>2, <1>3, FinalizeBooks DEF JobsInv
<1>8. \A i \in JobIds : record'[i] = IF i = j THEN n ELSE record[i]
  BY <1>3 DEF JobsInv, BooksOK
<1>9. Lasting(record, record')
  BY <1>2, <1>8 DEF Lasting, Ended
<1>10. Suits(record', worker, Closed, w, b)
  <2>1. \A v \in JobWorkers \ {w} :
          worker[v].at \in Running => record'[worker[v].job].status = "running"
    BY <1>6, <1>8 DEF JobsInv, CrewOK
  <2>. QED
    BY <1>1, <1>4, <2>1 DEF Suits, Running, Holding
<1>11. /\ worker' \in [JobWorkers -> JobWorker] /\ worker'[w] = b
       /\ \A v \in JobWorkers \ {w} : worker'[v] = worker[v]
  BY <1>4, <1>5 DEF JobsInv, CrewOK
<1>12. CrewOK(record', worker', Closed)
  BY <1>9, <1>10, <1>11, CrewMoves DEF JobsInv
<1>13. Scheduled(ready', record', worker', Closed)
  <2>1. NoWake(ready, w)
    BY NotCalled DEF JobsInv, Called
  <2>2. \A i \in DOMAIN ready : ready[i].kind = "send" =>
          record'[ready[i].job].status = record[ready[i].job].status
    BY <1>1, <1>8 DEF JobsInv, Scheduled, EntryOK
  <2>3. Scheduled(ready, record', worker', Closed)
    BY <1>11, <2>1, <2>2, ScheduledMoves DEF JobsInv, SameAt
  <2>. QED
    BY <1>3, <2>3
<1>14. BacklogOK(backlog', record')
  BY <1>3, <1>9, BacklogRecords DEF JobsInv
<1>15. \A i \in JobIds : RecordMoves(record[i], record'[i])
  BY <1>1, <1>2, <1>8 DEF RecordMoves, Ended
<1>16. /\ told' \in [JobIds -> {"none", "queued", "running"} \cup Ended]
       /\ \A i \in JobIds : \/ told'[i] = record'[i].status
                            \/ /\ told'[i] = told[i]
                               /\ told[i] # record'[i].status => Announcing(ready', i)
  BY <1>1, <1>2, <1>3, <1>8 DEF JobsInv, AnnouncedOK
<1>. QED
  <2>1. StillOK
    BY <1>7, <1>12, <1>13, <1>14 DEF StillOK
  <2>2. worker[w].at # "gone" /\ shutting' = shutting
    BY <1>3
  <2>. QED
    BY <1>15, <1>16, <2>1, <2>2, WorkerStep

LEMMA CloseKeeps ==
  ASSUME JobsInv, NEW w \in JobWorkers, CloseJob(w)
  PROVE  JobsInv' /\ JobsMove
<1>1. /\ worker[w].at = "closing" /\ Evict(<<record, finished>>) /\ LoopTop(w, ready)
      /\ told' = told /\ shutting' = shutting
  BY Zenon DEF CloseJob
<1>2. BooksOK(record, finished)
  BY DEF JobsInv
<1>3. /\ BooksOK(record', finished')
      /\ \A j \in JobIds : /\ record'[j].status = record[j].status
                           /\ record'[j].began = record[j].began
                           /\ record'[j].kept # record[j].kept => record[j].status \in Ended
                                                                  /\ ~record'[j].kept
  BY <1>1, <1>2, EvictBooks
<1>4. Lasting(record, record')
  BY <1>3 DEF Lasting
<1>5. Scheduled(ready, record', worker, Closed)
  <2>1. \A i \in DOMAIN ready : ready[i].kind = "send" =>
          record'[ready[i].job].status = record[ready[i].job].status
    BY <1>3 DEF JobsInv, Scheduled, EntryOK
  <2>. QED
    BY <2>1, ScheduledMoves DEF JobsInv, SameAt
<1>6. CrewOK(record', worker, Closed)
  <2>1. \A v \in JobWorkers : worker[v].at \in Running => record'[worker[v].job].status = "running"
    BY <1>3 DEF JobsInv, CrewOK, Running, Holding
  <2>. QED
    BY <1>4, <2>1, CrewRecords DEF JobsInv
<1>7. BacklogOK(backlog, record')
  BY <1>4, BacklogRecords DEF JobsInv
<1>8. NoWake(ready, w)
  BY <1>1, NotCalled DEF JobsInv, Called
<1>9. /\ Scheduled(ready', record', worker', Closed) /\ CrewOK(record', worker', Closed)
      /\ BacklogOK(backlog', record')
      /\ \A j : Announcing(ready, j) => Announcing(ready', j)
  BY <1>1, <1>5, <1>6, <1>7, <1>8, LoopTopKeeps
<1>10. \A i \in JobIds : RecordMoves(record[i], record'[i])
  BY <1>3 DEF RecordMoves
<1>11. /\ told' \in [JobIds -> {"none", "queued", "running"} \cup Ended]
       /\ \A i \in JobIds : /\ told'[i] = told[i]
                            /\ told[i] # record'[i].status => Announcing(ready', i)
  BY <1>1, <1>3, <1>9, ToldSame
<1>12. StillOK
  BY <1>3, <1>9 DEF StillOK
<1>. QED
  BY <1>1, <1>10, <1>11, <1>12, WorkerStep

LEMMA CancelLandsKeeps ==
  ASSUME JobsInv, NEW w \in JobWorkers, CancelLands(w)
  PROVE  JobsInv' /\ JobsMove
<1>1. Closed /\ worker[w].cancelled /\ UNCHANGED <<backlog, shutting, told>>
  BY DEF CancelLands, JobsInv, CrewOK
<1>2. CASE worker[w].at \in {"starting", "closing"} /\ End(w, ready)
           /\ UNCHANGED <<record, finished>>
  <2>1. NoWake(ready, w)
    BY <1>2, NotCalled DEF JobsInv, Called
  <2>2. Spares(record, record, w)
    BY DEF Spares, Lasting, JobsInv, CrewOK
  <2>3. /\ Scheduled(ready', record, worker', Closed) /\ CrewOK(record, worker', Closed)
        /\ \A j : Announcing(ready, j) => Announcing(ready', j)
    BY <1>1, <1>2, <2>1, <2>2, EndKeeps DEF JobsInv
  <2>4. StillOK
    BY <1>1, <1>2, <2>3 DEF StillOK, JobsInv
  <2>5. \A i \in JobIds : RecordMoves(record[i], record'[i])
    BY <1>2 DEF RecordMoves
  <2>6. /\ told' \in [JobIds -> {"none", "queued", "running"} \cup Ended]
        /\ \A i \in JobIds : /\ told'[i] = told[i]
                             /\ told[i] # record'[i].status => Announcing(ready', i)
    BY <1>1, <1>2, <2>3, ToldSame
  <2>7. worker[w].at # "gone" /\ shutting' = shutting
    BY <1>1, <1>2
  <2>. QED
    BY <2>4, <2>5, <2>6, <2>7, WorkerStep
<1>3. CASE /\ worker[w].at = "handling"
           /\ LET j == worker[w].job
              IN /\ Evict(Finalize(record, finished, j, Aborted(record[j])))
                 /\ End(w, Append(ready, Send(j, "failed")))
  <2>. DEFINE j == worker[w].job
              n == Aborted(record[j])
              r == [record EXCEPT ![j] = n]
              s == Append(finished, j)
              e == Send(j, "failed")
  <2>1. j \in JobIds /\ record[j].status = "running" /\ record[j] \in JobRecord
        /\ RecordOK(record[j])
    BY <1>3 DEF JobsInv, CrewOK, BooksOK, Holding, Running
  <2>2. n \in JobRecord /\ n.status = "failed" /\ n.kept /\ n.began = record[j].began
    BY <2>1 DEF JobRecord, RecordOK, Ended, Errors, Aborted
  <2>3. Evict(<<r, s>>) /\ End(w, Append(ready, e))
    <3>1. Finalize(record, finished, j, n) = <<r, s>>
      BY <2>1 DEF Finalize, Ended
    <3>2. Evict(Finalize(record, finished, j, n)) /\ End(w, Append(ready, e))
      BY <1>3
    <3>. HIDE DEF r, s, e, n, j
    <3>. QED
      BY <3>1, <3>2
  <2>4. e.kind = "send" /\ e.job = j /\ e.status = "failed" /\ e \in Entry
    BY <2>1, EntryKinds
  <2>5. \A v \in JobWorkers \ {w} : worker[v].at \in Running => worker[v].job \in JobIds \ {j}
    BY <1>3 DEF JobsInv, CrewOK, Running, Holding
  <2>6. \A i \in JobIds : r[i] = IF i = j THEN n ELSE record[i]
    BY DEF JobsInv, BooksOK
  <2>7. BooksOK(r, s)
    <3>1. n.status \in Ended /\ record[j].status \in {"queued", "running"}
      BY <2>1, <2>2 DEF Ended
    <3>. HIDE DEF n, j
    <3>. QED
      BY <2>1, <2>2, <3>1, FinalizeBooks DEF JobsInv
  <2>. HIDE DEF j, n, r, s, e
  <2>8. /\ BooksOK(record', finished')
        /\ \A i \in JobIds : /\ record'[i].status = r[i].status
                             /\ record'[i].began = r[i].began
                             /\ record'[i].kept # r[i].kept => r[i].status \in Ended
                                                               /\ ~record'[i].kept
    BY <2>3, <2>7, EvictBooks
  <2>9. Lasting(record, record') /\ Spares(record, record', w)
    BY <2>2, <2>5, <2>6, <2>8 DEF Lasting, Spares, JobsInv, CrewOK
  <2>10. Scheduled(ready, record', worker, Closed)
    <3>1. \A i \in DOMAIN ready : ready[i].kind = "send" =>
            record'[ready[i].job].status = record[ready[i].job].status
      BY <2>1, <2>6, <2>8 DEF JobsInv, Scheduled, EntryOK
    <3>. QED
      BY <3>1, ScheduledMoves DEF JobsInv, SameAt
  <2>11. NoWake(ready, w)
    BY <1>3, NotCalled DEF JobsInv, Called
  <2>12. /\ Scheduled(Append(ready, e), record', worker, Closed) /\ NoWake(Append(ready, e), w)
         /\ Announcing(Append(ready, e), j)
         /\ \A i : Announcing(ready, i) => Announcing(Append(ready, e), i)
    <3>1. EntryOK(e, record', worker, Closed)
      BY <2>1, <2>2, <2>4, <2>6, <2>8 DEF EntryOK
    <3>2. \A f : ~Follows(e, f, worker)
      BY <2>4 DEF Follows
    <3>. QED
      BY <2>4, <2>10, <2>11, <3>1, <3>2, AppendScheduled
  <2>13. /\ Scheduled(ready', record', worker', Closed) /\ CrewOK(record', worker', Closed)
         /\ \A i : Announcing(Append(ready, e), i) => Announcing(ready', i)
    BY <1>1, <2>3, <2>9, <2>12, EndKeeps DEF JobsInv
  <2>14. BacklogOK(backlog', record')
    BY <1>1, <2>9, BacklogRecords DEF JobsInv
  <2>15. \A i \in JobIds : RecordMoves(record[i], record'[i])
    <3>. SUFFICES ASSUME NEW i \in JobIds PROVE RecordMoves(record[i], record'[i])
      OBVIOUS
    <3>1. CASE i = j
      BY <2>1, <2>2, <2>6, <2>8, <3>1 DEF RecordMoves, Ended
    <3>2. CASE i # j
      BY <2>6, <2>8, <3>2 DEF RecordMoves
    <3>. QED
      BY <3>1, <3>2
  <2>16. \A i \in JobIds : told[i] # record'[i].status => Announcing(ready', i)
    BY <2>6, <2>8, <2>12, <2>13 DEF JobsInv, AnnouncedOK
  <2>17. StillOK
    BY <2>8, <2>13, <2>14 DEF StillOK
  <2>18. worker[w].at # "gone" /\ shutting' = shutting /\ told' = told
    BY <1>1, <1>3
  <2>. QED
    BY <2>15, <2>16, <2>17, <2>18, ToldType, WorkerStep
<1>. QED
  BY <1>2, <1>3 DEF CancelLands

LEMMA WakeKeeps ==
  ASSUME JobsInv, RunWake
  PROVE  JobsInv' /\ JobsMove
<1>. DEFINE w == Head(ready).who
            j == worker[w].job
            rest == Tail(ready)
<1>1. ready # <<>> /\ Head(ready).kind = "wake" /\ UNCHANGED <<finished, shutting>>
  BY DEF RunWake
<1>2. /\ Scheduled(rest, record, worker, Closed) /\ NoWake(rest, w)
      /\ EntryOK(Head(ready), record, worker, Closed)
      /\ \A i \in DOMAIN rest : ~Follows(rest[i], Head(ready), worker)
      /\ \A i : Announcing(ready, i) => Announcing(rest, i)
  BY <1>1, TailScheduled DEF JobsInv
<1>3. w \in JobWorkers /\ worker[w].at \in Called /\ worker[w].at # "gone"
  BY <1>1, <1>2 DEF EntryOK, Called
<1>4. CASE worker[w].cancelled
  <2>1. End(w, rest) /\ UNCHANGED <<record, backlog, told>> /\ Closed
    BY <1>3, <1>4 DEF RunWake, JobsInv, CrewOK
  <2>2. Spares(record, record, w)
    BY DEF Spares, Lasting, JobsInv, CrewOK
  <2>. HIDE DEF w, rest
  <2>3. /\ Scheduled(ready', record, worker', Closed) /\ CrewOK(record, worker', Closed)
        /\ \A i : Announcing(rest, i) => Announcing(ready', i)
    BY <1>2, <1>3, <2>1, <2>2, EndKeeps DEF JobsInv
  <2>4. StillOK
    BY <1>1, <2>1, <2>3 DEF StillOK, JobsInv
  <2>5. \A i \in JobIds : RecordMoves(record[i], record'[i])
    BY <2>1 DEF RecordMoves
  <2>6. /\ told' \in [JobIds -> {"none", "queued", "running"} \cup Ended]
        /\ \A i \in JobIds : /\ told'[i] = told[i]
                             /\ told[i] # record'[i].status => Announcing(ready', i)
    BY <1>2, <2>1, <2>3, ToldSame
  <2>. QED
    BY <1>1, <1>3, <2>4, <2>5, <2>6, WorkerStep
<1>5. CASE ~worker[w].cancelled /\ worker[w].at = "slept" /\ record[j].kept
           /\ record[j].status = "queued"
  <2>. DEFINE b == Busy("starting", j)
  <2>1. /\ record' = [record EXCEPT ![j].status = "running", ![j].began = TRUE]
        /\ told' = [told EXCEPT ![j] = "running"]
        /\ worker' = [worker EXCEPT ![w] = b]
        /\ ready' = rest /\ backlog' = backlog
    BY <1>5 DEF RunWake
  <2>2. j \in JobIds
    BY <1>3, <1>5 DEF JobsInv, CrewOK, Holding
  <2>3. b \in JobWorker /\ b.at = "starting" /\ b.job = j /\ ~b.cancelled
    BY <2>2, Tags DEF Ats
  <2>. HIDE DEF b
  <2>4. /\ record \in [JobIds -> JobRecord] /\ RecordOK(record[j])
        /\ worker \in [JobWorkers -> JobWorker]
    BY <2>2 DEF JobsInv, BooksOK, CrewOK
  <2>5. /\ worker' \in [JobWorkers -> JobWorker] /\ worker'[w] = b
        /\ \A v \in JobWorkers \ {w} : worker'[v] = worker[v]
    BY <1>3, <2>1, <2>3, <2>4
  <2>6. Head(ready).who = w /\ worker[w].job = j
    OBVIOUS
  <2>. HIDE DEF w, j, rest
  <2>7. /\ record' \in [JobIds -> JobRecord] /\ RecordOK(record'[j])
        /\ record'[j].status = "running" /\ record'[j].kept /\ record'[j].began
        /\ \A i \in JobIds \ {j} : record'[i] = record[i]
    BY <1>5, <2>1, <2>2, <2>4 DEF JobRecord, RecordOK
  <2>8. BooksOK(record', finished')
    <3>1. record[j].status \notin Ended /\ record'[j].status \notin Ended
      BY <1>5, <2>7 DEF Ended
    <3>2. BooksOK(record', finished)
      BY <2>2, <2>7, <3>1, OpenBooks DEF JobsInv
    <3>. QED
      BY <1>1, <3>2
  <2>9. Lasting(record, record')
    BY <2>7 DEF Lasting
  <2>10. Suits(record', worker, Closed, w, b)
    <3>1. \A v \in JobWorkers : worker[v].at \in Running => worker[v].job \in JobIds \ {j}
      BY <1>5 DEF JobsInv, CrewOK, Running, Holding
    <3>2. \A v \in JobWorkers :
            worker[v].at \in Running => record'[worker[v].job].status = "running"
      BY <2>7, <3>1 DEF JobsInv, CrewOK
    <3>. QED
      BY <2>2, <2>3, <2>7, <3>1, <3>2 DEF Suits, Running, Holding
  <2>11. CrewOK(record', worker', Closed)
    BY <1>3, <2>5, <2>9, <2>10, CrewMoves DEF JobsInv
  <2>12. Scheduled(ready', record', worker', Closed)
    <3>1. ASSUME NEW i \in DOMAIN rest, rest[i].kind = "send"
          PROVE  rest[i].job # j
      <4>1. EntryOK(rest[i], record, worker, Closed)
        BY <1>2 DEF Scheduled
      <4>. QED
        BY <1>1, <1>2, <1>5, <2>6, <3>1, <4>1 DEF EntryOK, Follows
    <3>2. \A i \in DOMAIN rest : rest[i].kind = "send" =>
            record'[rest[i].job].status = record[rest[i].job].status
      BY <1>2, <2>7, <3>1 DEF Scheduled, EntryOK
    <3>3. Scheduled(rest, record', worker', Closed)
      BY <1>2, <2>5, <3>2, ScheduledMoves DEF SameAt
    <3>. QED
      BY <2>1, <3>3
  <2>13. BacklogOK(backlog', record')
    BY <2>1, <2>9, BacklogRecords DEF JobsInv
  <2>14. \A i \in JobIds : RecordMoves(record[i], record'[i])
    BY <1>5, <2>7 DEF RecordMoves
  <2>15. /\ told' \in [JobIds -> {"none", "queued", "running"} \cup Ended]
         /\ \A i \in JobIds : \/ told'[i] = record'[i].status
                              \/ /\ told'[i] = told[i]
                                 /\ told[i] # record'[i].status => Announcing(ready', i)
    BY <1>2, <2>1, <2>2, <2>7 DEF JobsInv, AnnouncedOK
  <2>16. StillOK
    BY <2>8, <2>11, <2>12, <2>13 DEF StillOK
  <2>. QED
    BY <1>1, <1>3, <2>14, <2>15, <2>16, WorkerStep
<1>6. CASE LoopTop(w, rest) /\ UNCHANGED <<record, told>>
  <2>. HIDE DEF w, rest, j
  <2>1. /\ Scheduled(ready', record, worker', Closed) /\ CrewOK(record, worker', Closed)
        /\ BacklogOK(backlog', record)
        /\ \A i : Announcing(rest, i) => Announcing(ready', i)
    BY <1>2, <1>3, <1>6, LoopTopKeeps DEF JobsInv
  <2>2. StillOK
    BY <1>1, <1>6, <2>1 DEF StillOK, JobsInv
  <2>3. \A i \in JobIds : RecordMoves(record[i], record'[i])
    BY <1>6 DEF RecordMoves
  <2>4. /\ told' \in [JobIds -> {"none", "queued", "running"} \cup Ended]
        /\ \A i \in JobIds : /\ told'[i] = told[i]
                             /\ told[i] # record'[i].status => Announcing(ready', i)
    BY <1>2, <1>6, <2>1, ToldSame
  <2>. QED
    BY <1>1, <1>3, <2>2, <2>3, <2>4, WorkerStep
<1>. QED
  BY <1>4, <1>5, <1>6 DEF RunWake

LEMMA ConcatParts ==
  ASSUME NEW S, NEW s \in Seq(S), NEW t \in Seq(S)
  PROVE  /\ s \o t \in Seq(S)
         /\ \A i \in DOMAIN s : i \in DOMAIN (s \o t) /\ (s \o t)[i] = s[i] /\ i <= Len(s)
                                /\ i \in Nat
         /\ \A i \in DOMAIN (s \o t) : /\ i \in Nat
              /\ \/ i \in DOMAIN s /\ (s \o t)[i] = s[i]
                 \/ /\ i > Len(s) /\ i - Len(s) \in DOMAIN t
                    /\ (s \o t)[i] = t[i - Len(s)]
         /\ Len(s) \in Nat
<1>1. /\ Len(s) \in Nat /\ DOMAIN s = 1..Len(s) /\ Len(t) \in Nat /\ DOMAIN t = 1..Len(t)
  BY LenProperties
<1>2. /\ s \o t \in Seq(S) /\ Len(s \o t) = Len(s) + Len(t)
      /\ \A i \in 1..(Len(s) + Len(t)) :
           (s \o t)[i] = IF i <= Len(s) THEN s[i] ELSE t[i - Len(s)]
  BY ConcatProperties
<1>3. DOMAIN (s \o t) = 1..(Len(s) + Len(t))
  BY <1>2, LenProperties
<1>. DEFINE u == s \o t
            m == Len(s)
            n == Len(t)
<1>4. /\ m \in Nat /\ n \in Nat /\ DOMAIN s = 1..m /\ DOMAIN t = 1..n /\ DOMAIN u = 1..(m + n)
      /\ u \in Seq(S) /\ \A i \in 1..(m + n) : u[i] = IF i <= m THEN s[i] ELSE t[i - m]
  BY <1>1, <1>2, <1>3
<1>. HIDE DEF u, m, n
<1>5. /\ \A i \in DOMAIN s : i \in DOMAIN u /\ u[i] = s[i] /\ i <= m /\ i \in Nat
      /\ \A i \in DOMAIN u : /\ i \in Nat
           /\ \/ i \in DOMAIN s /\ u[i] = s[i]
              \/ i > m /\ i - m \in DOMAIN t /\ u[i] = t[i - m]
  BY <1>4
<1>. QED
  BY <1>4, <1>5 DEF u, m

LEMMA TwoMore ==
  ASSUME NEW S, NEW s \in Seq(S), NEW e \in S, NEW f \in S
  PROVE  s \o <<e, f>> = Append(Append(s, e), f)
<1>1. /\ Append(s, e) \in Seq(S) /\ Len(Append(s, e)) = Len(s) + 1 /\ Len(s) \in Nat
      /\ \A i \in 1..Len(s) : Append(s, e)[i] = s[i]
      /\ Append(s, e)[Len(s) + 1] = e
  BY AppendProperties, LenProperties
<1>2. /\ Append(Append(s, e), f) \in Seq(S) /\ Len(Append(Append(s, e), f)) = Len(s) + 2
      /\ \A i \in 1..(Len(s) + 1) : Append(Append(s, e), f)[i] = Append(s, e)[i]
      /\ Append(Append(s, e), f)[Len(s) + 2] = f
  <2>. DEFINE a == Append(s, e)
  <2>1. a \in Seq(S) /\ Len(a) = Len(s) + 1 /\ Len(a) + 1 = Len(s) + 2
    BY <1>1
  <2>. HIDE DEF a
  <2>2. /\ Append(a, f) \in Seq(S) /\ Len(Append(a, f)) = Len(a) + 1
        /\ \A i \in 1..Len(a) : Append(a, f)[i] = a[i]
        /\ Append(a, f)[Len(a) + 1] = f
    BY <2>1, AppendProperties
  <2>3. /\ Append(a, f) \in Seq(S) /\ Len(Append(a, f)) = Len(s) + 2
        /\ \A i \in 1..(Len(s) + 1) : Append(a, f)[i] = a[i]
        /\ Append(a, f)[Len(s) + 2] = f
    BY <2>1, <2>2
  <2>. QED
    BY <2>3 DEF a
<1>3. <<e, f>> \in Seq(S) /\ Len(<<e, f>>) = 2 /\ <<e, f>>[1] = e /\ <<e, f>>[2] = f
  OBVIOUS
<1>4. /\ s \o <<e, f>> \in Seq(S) /\ Len(s \o <<e, f>>) = Len(s) + 2
      /\ \A i \in 1..(Len(s) + 2) :
           (s \o <<e, f>>)[i] = IF i <= Len(s) THEN s[i] ELSE <<e, f>>[i - Len(s)]
  <2>. DEFINE p == <<e, f>>
  <2>1. p \in Seq(S) /\ Len(p) = 2
    BY <1>3
  <2>. HIDE DEF p
  <2>2. /\ s \o p \in Seq(S) /\ Len(s \o p) = Len(s) + Len(p)
        /\ \A i \in 1..(Len(s) + Len(p)) : (s \o p)[i] = IF i <= Len(s) THEN s[i] ELSE p[i - Len(s)]
    BY <2>1, ConcatProperties
  <2>. QED
    BY <2>1, <2>2 DEF p
<1>. DEFINE l == Len(s)
            u == s \o <<e, f>>
            v == Append(Append(s, e), f)
            a == Append(s, e)
            p == <<e, f>>
<1>5. /\ l \in Nat /\ u \in Seq(S) /\ v \in Seq(S) /\ Len(u) = l + 2 /\ Len(v) = l + 2
      /\ \A i \in 1..(l + 2) : u[i] = IF i <= l THEN s[i] ELSE p[i - l]
      /\ p[1] = e /\ p[2] = f
      /\ \A i \in 1..l : a[i] = s[i]
      /\ a[l + 1] = e /\ v[l + 2] = f
      /\ \A i \in 1..(l + 1) : v[i] = a[i]
  BY <1>1, <1>2, <1>3, <1>4
<1>. HIDE DEF l, u, v, a, p
<1>6. \A i \in 1..(l + 2) : u[i] = v[i]
  <2>. SUFFICES ASSUME NEW i \in 1..(l + 2) PROVE u[i] = v[i]
    OBVIOUS
  <2>1. CASE i <= l
    BY <1>5, <2>1
  <2>2. CASE i = l + 1
    <3>1. ~(i <= l) /\ i - l = 1 /\ i \in 1..(l + 1)
      BY <1>5, <2>2
    <3>. QED
      BY <1>5, <2>2, <3>1
  <2>3. CASE i = l + 2
    <3>1. ~(i <= l) /\ i - l = 2
      BY <1>5, <2>3
    <3>. QED
      BY <1>5, <2>3, <3>1
  <2>. QED
    BY <1>5, <2>1, <2>2, <2>3
<1>7. u = v
  BY <1>5, <1>6, SeqEqual
<1>. QED
  BY <1>7 DEF u, v

LEMMA SubmitKeeps ==
  ASSUME JobsInv, NEW j \in JobIds, SubmitJob(j)
  PROVE  JobsInv' /\ JobsMove
<1>. DEFINE e == Send(j, "queued")
            parked == {w \in JobWorkers : worker[w].at = "idle"}
<1>1. /\ ~Closed /\ record[j].status = "none" /\ UNCHANGED <<finished, shutting, told>>
      /\ record' = [record EXCEPT ![j].status = "queued", ![j].kept = TRUE]
      /\ backlog' = Append(backlog, j)
      /\ \/ ready' = Append(ready, e) /\ worker' = worker
         \/ \E w \in parked : /\ ready' = ready \o <<e, Wake(w)>>
                              /\ worker' = [worker EXCEPT ![w].at = "woken"]
  BY DEF SubmitJob
<1>2. /\ record \in [JobIds -> JobRecord] /\ RecordOK(record[j]) /\ ready \in Seq(Entry)
      /\ worker \in [JobWorkers -> JobWorker]
  BY DEF JobsInv, BooksOK, Scheduled, CrewOK
<1>3. e.kind = "send" /\ e.job = j /\ e.status = "queued" /\ e \in Entry
  BY EntryKinds
<1>. HIDE DEF e
<1>4. /\ record' \in [JobIds -> JobRecord] /\ RecordOK(record'[j])
      /\ record'[j].status = "queued" /\ record'[j].kept /\ ~record'[j].began
      /\ \A i \in JobIds \ {j} : record'[i] = record[i]
  BY <1>1, <1>2 DEF JobRecord, RecordOK, Ended
<1>5. BooksOK(record', finished')
  <2>1. record[j].status \notin Ended /\ record'[j].status \notin Ended
    BY <1>1, <1>4 DEF Ended
  <2>2. BooksOK(record', finished)
    BY <1>4, <2>1, OpenBooks DEF JobsInv
  <2>. QED
    BY <1>1, <2>2
<1>6. Lasting(record, record')
  BY <1>4 DEF Lasting
<1>7. CrewOK(record', worker, Closed)
  <2>1. \A v \in JobWorkers : worker[v].at \in Running => record'[worker[v].job].status = "running"
    BY <1>1, <1>4 DEF JobsInv, CrewOK, Running, Holding
  <2>. QED
    BY <1>6, <2>1, CrewRecords DEF JobsInv
<1>8. BacklogOK(backlog', record')
  <2>1. BacklogOK(backlog, record') /\ backlog \in Seq(JobIds)
    BY <1>6, BacklogRecords DEF JobsInv, BacklogOK
  <2>2. /\ Append(backlog, j) \in Seq(JobIds)
        /\ \A i \in DOMAIN backlog : Append(backlog, j)[i] = backlog[i]
        /\ Append(backlog, j)[Len(backlog) + 1] = j
        /\ \A i \in DOMAIN Append(backlog, j) : i \in DOMAIN backlog \/ i = Len(backlog) + 1
    BY <2>1, AppendParts
  <2>. QED
    BY <1>1, <1>4, <2>1, <2>2 DEF BacklogOK
<1>9. Scheduled(ready, record', worker, Closed)
  <2>1. ASSUME NEW i \in DOMAIN ready, ready[i].kind = "send"
        PROVE  record'[ready[i].job].status = record[ready[i].job].status
    <3>1. EntryOK(ready[i], record, worker, Closed)
      BY DEF JobsInv, Scheduled
    <3>2. ready[i].job \in JobIds \ {j}
      BY <1>1, <2>1, <3>1 DEF EntryOK
    <3>. QED
      BY <1>4, <3>2
  <2>2. \A v \in JobWorkers : NoWake(ready, v) \/ SameAt(worker[v], worker[v])
    BY DEF SameAt
  <2>. QED
    BY <2>1, <2>2, ScheduledMoves DEF JobsInv
<1>10. /\ Scheduled(Append(ready, e), record', worker, Closed)
       /\ Announcing(Append(ready, e), j)
       /\ \A i : Announcing(ready, i) => Announcing(Append(ready, e), i)
       /\ \A w : NoWake(ready, w) => NoWake(Append(ready, e), w)
  <2>1. EntryOK(e, record', worker, Closed)
    BY <1>3, <1>4 DEF EntryOK
  <2>2. ASSUME NEW i \in DOMAIN ready PROVE ~Follows(e, ready[i], worker)
    <3>1. EntryOK(ready[i], record, worker, Closed)
      BY DEF JobsInv, Scheduled
    <3>2. ready[i].kind # "stop"
      BY <1>1, <3>1 DEF EntryOK
    <3>3. ready[i].kind = "wake" /\ worker[ready[i].who].at = "slept"
            => worker[ready[i].who].job # j
      BY <1>1, <3>1 DEF EntryOK, JobsInv, CrewOK
    <3>. QED
      BY <1>3, <3>2, <3>3 DEF Follows
  <2>. QED
    BY <1>3, <1>9, <2>1, <2>2, AppendScheduled
<1>11. /\ Scheduled(ready', record', worker', Closed) /\ CrewOK(record', worker', Closed)
       /\ \A i : Announcing(Append(ready, e), i) => Announcing(ready', i)
       /\ \A v \in JobWorkers : worker[v].at # "gone" => worker'[v].at # "gone"
  <2>1. CASE ready' = Append(ready, e) /\ worker' = worker
    BY <1>7, <1>10, <2>1
  <2>2. ASSUME NEW w \in parked, ready' = ready \o <<e, Wake(w)>>,
               worker' = [worker EXCEPT ![w].at = "woken"]
        PROVE  /\ Scheduled(ready', record', worker', Closed) /\ CrewOK(record', worker', Closed)
               /\ \A i : Announcing(Append(ready, e), i) => Announcing(ready', i)
               /\ \A v \in JobWorkers : worker[v].at # "gone" => worker'[v].at # "gone"
    <3>. DEFINE a == Append(ready, e)
    <3>1. w \in JobWorkers /\ worker[w].at = "idle" /\ worker[w] \in JobWorker
      BY <1>2
    <3>2. Wake(w) \in Entry /\ Wake(w).kind = "wake" /\ Wake(w).who = w
      BY <3>1, EntryKinds
    <3>3. ready' = Append(a, Wake(w))
      BY <1>2, <1>3, <2>2, <3>2, TwoMore
    <3>. DEFINE n == [worker[w] EXCEPT !.at = "woken"]
    <3>4. n \in JobWorker /\ n.at = "woken" /\ n.cancelled = worker[w].cancelled
      BY <3>1 DEF JobWorker
    <3>5. worker' = [worker EXCEPT ![w] = n]
      BY <2>2
    <3>. HIDE DEF n, a
    <3>6. /\ worker' \in [JobWorkers -> JobWorker] /\ worker'[w] = n
          /\ \A v \in JobWorkers \ {w} : worker'[v] = worker[v]
      BY <1>2, <3>1, <3>4, <3>5
    <3>7. Suits(record', worker, Closed, w, n)
      <4>1. n.cancelled => Closed
        BY <3>1, <3>4 DEF JobsInv, CrewOK
      <4>2. \A v \in JobWorkers \ {w} :
              worker[v].at \in Running => record'[worker[v].job].status = "running"
        BY <1>7 DEF CrewOK
      <4>. HIDE DEF Closed
      <4>. QED
        BY <3>4, <4>1, <4>2 DEF Suits, Holding, Running
    <3>8. CrewOK(record', worker', Closed)
      <4>1. Lasting(record', record')
        BY DEF Lasting
      <4>. QED
        BY <1>7, <3>1, <3>6, <3>7, <4>1, CrewMoves
    <3>9. NoWake(a, w)
      BY <1>10, <3>1, NotCalled DEF JobsInv, Called, a
    <3>10. Scheduled(a, record', worker', Closed)
      <4>1. \A v \in JobWorkers : NoWake(a, v) \/ SameAt(worker[v], worker'[v])
        BY <3>6, <3>9 DEF SameAt
      <4>. QED
        BY <1>10, <4>1, ScheduledMoves DEF a
    <3>11. EntryOK(Wake(w), record', worker', Closed)
      BY <3>1, <3>2, <3>4, <3>6 DEF EntryOK, Called
    <3>12. \A f : ~Follows(Wake(w), f, worker')
      BY <3>2 DEF Follows
    <3>13. \A i \in DOMAIN a : a[i] # Wake(w)
      BY <3>2, <3>9 DEF NoWake
    <3>14. /\ Scheduled(Append(a, Wake(w)), record', worker', Closed)
           /\ \A i : Announcing(a, i) => Announcing(Append(a, Wake(w)), i)
      BY <3>2, <3>10, <3>11, <3>12, <3>13, AppendScheduled
    <3>15. \A v \in JobWorkers : worker[v].at # "gone" => worker'[v].at # "gone"
      BY <3>4, <3>6
    <3>. QED
      BY <3>3, <3>8, <3>14, <3>15 DEF a
  <2>. QED
    BY <1>1, <2>1, <2>2
<1>12. \A i \in JobIds : RecordMoves(record[i], record'[i])
  BY <1>1, <1>4 DEF RecordMoves
<1>13. \A i \in JobIds : /\ told'[i] = told[i]
                         /\ told[i] # record'[i].status => Announcing(ready', i)
  BY <1>1, <1>4, <1>10, <1>11 DEF JobsInv, AnnouncedOK
<1>14. AnnouncedOK(told', record', ready') /\ \A i \in JobIds : Rank(told[i]) <= Rank(told'[i])
  <2>1. told' \in [JobIds -> {"none", "queued", "running"} \cup Ended]
    BY <1>1, ToldType
  <2>2. AnnouncedOK(told, record, ready)
    BY DEF JobsInv
  <2>3. \A i \in JobIds : \/ told'[i] = record'[i].status
                          \/ /\ told'[i] = told[i]
                             /\ told[i] # record'[i].status => Announcing(ready', i)
    BY <1>13
  <2>4. record \in [JobIds -> JobRecord] /\ record' \in [JobIds -> JobRecord]
    BY <1>2, <1>4
  <2>. QED
    BY <1>12, <2>1, <2>2, <2>3, <2>4, TellMoves
<1>15. ClosingOK' /\ Closed' = Closed
  <2>1. shutting = "no" /\ shutting' = "no"
    BY <1>1 DEF Closed
  <2>2. ClosingOK'
    BY <2>1 DEF ClosingOK
  <2>3. Closed' = Closed
    BY <2>1, Zenon DEF Closed
  <2>. QED
    BY <2>2, <2>3
<1>. QED
  BY <1>5, <1>8, <1>11, <1>12, <1>14, <1>15 DEF JobsInv, JobsMove

\* Taking the head keeps what closing promises of the loop's queue.
LEMMA ClosingTail ==
  ASSUME JobsInv, ready # <<>>, NEW i \in DOMAIN Tail(ready)
  PROVE  \E k \in DOMAIN ready : Tail(ready)[i] = ready[k]
<1>1. ready \in Seq(Entry)
  BY DEF JobsInv, Scheduled
<1>. QED
  BY <1>1, TailParts

LEMMA SendKeeps ==
  ASSUME JobsInv, RunSend
  PROVE  JobsInv' /\ JobsMove
<1>. DEFINE h == Head(ready)
<1>1. /\ ready # <<>> /\ h.kind = "send" /\ ready' = Tail(ready)
      /\ told' = [told EXCEPT ![h.job] = h.status]
      /\ UNCHANGED <<record, finished, backlog, worker, shutting>>
  BY DEF RunSend
<1>2. Scheduled(ready, record, worker, Closed)
  BY DEF JobsInv
<1>3. /\ Scheduled(Tail(ready), record, worker, Closed)
      /\ EntryOK(h, record, worker, Closed)
      /\ \A j : Announcing(ready, j) => Announcing(Tail(ready), j) \/ h.job = j
  BY <1>1, <1>2, TailScheduled
<1>4. h.job \in JobIds /\ h.status = record[h.job].status /\ h.status \in {"queued", "failed"}
  BY <1>1, <1>3 DEF EntryOK
<1>. HIDE DEF h
<1>5. /\ told' \in [JobIds -> {"none", "queued", "running"} \cup Ended]
      /\ \A i \in JobIds : told'[i] = IF i = h.job THEN record[i].status ELSE told[i]
  BY <1>1, <1>4, ToldType DEF Ended
<1>6. \A i \in JobIds : \/ told'[i] = record'[i].status
                        \/ /\ told'[i] = told[i]
                           /\ told[i] # record'[i].status => Announcing(ready', i)
  BY <1>1, <1>3, <1>5 DEF JobsInv, AnnouncedOK
<1>7. \A i \in JobIds : RecordMoves(record[i], record'[i])
  BY <1>1 DEF RecordMoves
<1>8. AnnouncedOK(told', record', ready') /\ \A i \in JobIds : Rank(told[i]) <= Rank(told'[i])
  <2>1. record \in [JobIds -> JobRecord] /\ record' \in [JobIds -> JobRecord]
    BY <1>1 DEF JobsInv, BooksOK
  <2>2. AnnouncedOK(told, record, ready)
    BY DEF JobsInv
  <2>. QED
    BY <1>5, <1>6, <1>7, <2>1, <2>2, TellMoves
<1>9. ClosingOK'
  <2>1. ClosingOK
    BY DEF JobsInv
  <2>2. shutting # "done" /\ shutting' = shutting /\ finished' = finished /\ backlog' = backlog
    BY <1>1, <2>1 DEF ClosingOK
  <2>3. Alive' = Alive /\ ActiveJobs' = ActiveJobs
    BY <1>1 DEF Alive, ActiveJobs, Kept
  <2>4. shutting \in {"failing", "flushing", "done"} =>
          \A i \in DOMAIN ready' : ready'[i].kind = "send" /\ ready'[i].status # "queued"
    BY <1>1, <2>1, ClosingTail DEF ClosingOK
  <2>. QED
    BY <2>1, <2>2, <2>3, <2>4 DEF ClosingOK
<1>10. Closed' = Closed
  BY <1>1 DEF Closed
<1>. QED
  BY <1>1, <1>3, <1>7, <1>8, <1>9, <1>10 DEF JobsInv, JobsMove

-----------------------------------------------------------------------------
(* Shutdown. *)

LEMMA OnceClosed ==
  ASSUME NEW s, NEW r, NEW wk, NEW closed
  PROVE  /\ Scheduled(s, r, wk, closed) => Scheduled(s, r, wk, TRUE)
         /\ CrewOK(r, wk, closed) => CrewOK(r, wk, TRUE)
<1>1. ASSUME NEW e, EntryOK(e, r, wk, closed) PROVE EntryOK(e, r, wk, TRUE)
  BY <1>1 DEF EntryOK
<1>2. Scheduled(s, r, wk, closed) => Scheduled(s, r, wk, TRUE)
  BY <1>1 DEF Scheduled
<1>3. CrewOK(r, wk, closed) => CrewOK(r, wk, TRUE)
  BY DEF CrewOK
<1>. QED
  BY <1>2, <1>3

\* Wake-ups of workers the queue does not call yet go to its end.
Wakes(p, s, wk) ==
  /\ p \in Seq(Entry)
  /\ \A i \in DOMAIN p : /\ p[i] = Wake(p[i].who) /\ p[i].who \in JobWorkers
                         /\ wk[p[i].who].at \in Called /\ NoWake(s, p[i].who)
  /\ \A i, k \in DOMAIN p : p[i] = p[k] => i = k

LEMMA ConcatScheduled ==
  ASSUME NEW s, NEW r, NEW wk, NEW closed, Scheduled(s, r, wk, closed), NEW p, Wakes(p, s, wk)
  PROVE  /\ Scheduled(s \o p, r, wk, closed)
         /\ \A j : Announcing(s, j) => Announcing(s \o p, j)
<1>. DEFINE t == s \o p
            n == Len(s)
<1>1. s \in Seq(Entry) /\ p \in Seq(Entry)
  BY DEF Scheduled, Wakes
<1>2. /\ t \in Seq(Entry) /\ n \in Nat
      /\ \A i \in DOMAIN s : i \in DOMAIN t /\ t[i] = s[i] /\ i <= n /\ i \in Nat
      /\ \A i \in DOMAIN t : /\ i \in Nat
           /\ \/ i \in DOMAIN s /\ t[i] = s[i]
              \/ i > n /\ i - n \in DOMAIN p /\ t[i] = p[i - n]
  BY <1>1, ConcatParts
<1>. HIDE DEF t, n
<1>3. ASSUME NEW i \in DOMAIN p
      PROVE  /\ p[i].kind = "wake" /\ EntryOK(p[i], r, wk, closed)
             /\ \A k \in DOMAIN s : s[k] # p[i]
  <2>1. /\ p[i] = Wake(p[i].who) /\ p[i].who \in JobWorkers
        /\ wk[p[i].who].at \in Called /\ NoWake(s, p[i].who)
    BY DEF Wakes
  <2>2. p[i].kind = "wake" /\ p[i] \in Entry
    BY <2>1, EntryKinds
  <2>. QED
    BY <2>1, <2>2 DEF EntryOK, NoWake
<1>4. \A i \in DOMAIN t : EntryOK(t[i], r, wk, closed)
  BY <1>2, <1>3 DEF Scheduled
<1>5. ASSUME NEW i \in DOMAIN t, NEW k \in DOMAIN t, t[i] = t[k], t[i].kind # "send"
      PROVE  i = k
  <2>1. CASE i \in DOMAIN s /\ t[i] = s[i] /\ k \in DOMAIN s /\ t[k] = s[k]
    BY <1>5, <2>1 DEF Scheduled
  <2>2. CASE i > n /\ i - n \in DOMAIN p /\ t[i] = p[i - n] /\ k > n /\ k - n \in DOMAIN p /\ t[k] = p[k - n]
    <3>1. i - n = k - n
      BY <1>5, <2>2 DEF Wakes
    <3>. QED
      BY <1>2, <3>1
  <2>. QED
    BY <1>2, <1>3, <1>5, <2>1, <2>2
<1>6. ASSUME NEW i \in DOMAIN t, NEW k \in DOMAIN t, Follows(t[i], t[k], wk)
      PROVE  i < k
  <2>1. t[i].kind = "send"
    BY <1>6 DEF Follows
  <2>2. i \in DOMAIN s /\ t[i] = s[i]
    BY <1>2, <1>3, <2>1
  <2>3. CASE k \in DOMAIN s /\ t[k] = s[k]
    BY <1>6, <2>2, <2>3 DEF Scheduled
  <2>4. CASE k > n
    BY <1>2, <2>2, <2>4
  <2>. QED
    BY <1>2, <2>3, <2>4
<1>7. Scheduled(t, r, wk, closed)
  BY <1>2, <1>4, <1>5, <1>6 DEF Scheduled
<1>8. \A j : Announcing(s, j) => Announcing(t, j)
  BY <1>2 DEF Announcing
<1>. QED
  BY <1>7, <1>8 DEF t

\* An order of a finite set that meets each member meets it once.
LEMMA OrderOnce ==
  ASSUME NEW P, IsFiniteSet(P), NEW order \in [1..Cardinality(P) -> P],
         P = {order[i] : i \in DOMAIN order}
  PROVE  \A i, k \in 1..Cardinality(P) : order[i] = order[k] => i = k
<1>. DEFINE n == Cardinality(P)
<1>1. n \in Nat
  BY FS_CardinalityType
<1>. HIDE DEF n
<1>2. IsFiniteSet(1..n) /\ Cardinality(1..n) = n
  BY <1>1, FS_Interval
<1>3. order \in Surjection(1..n, P)
  BY DEF Surjection, n
<1>4. order \in Injection(1..n, P)
  <2>1. Cardinality(1..n) = Cardinality(P)
    BY <1>2 DEF n
  <2>. QED
    BY <1>2, <1>3, <2>1, FS_SurjSameCardinalityImpliesInj
<1>. QED
  BY <1>4 DEF Injection, IsInjective, n

LEMMA CancelTasksMoves ==
  ASSUME JobsInv, NEW ws \in SUBSET JobWorkers
  PROVE  LET new == CancelTasks(ws)
         IN /\ new \in [JobWorkers -> JobWorker]
            /\ \A w \in JobWorkers : /\ new[w].job = worker[w].job
                                     /\ new[w].at = worker[w].at
                                          \/ (worker[w].at = "idle" /\ new[w].at = "woken")
<1>1. worker \in [JobWorkers -> JobWorker]
  BY DEF JobsInv, CrewOK
<1>. DEFINE new == CancelTasks(ws)
            one(w) == [worker[w] EXCEPT !.cancelled = TRUE,
                         !.at = IF worker[w].at = "idle" THEN "woken" ELSE worker[w].at]
<1>2. new = [w \in JobWorkers |-> IF w \notin ws THEN worker[w] ELSE one(w)]
  BY DEF CancelTasks
<1>3. ASSUME NEW w \in JobWorkers
      PROVE  /\ one(w) \in JobWorker /\ one(w).job = worker[w].job
             /\ one(w).at = worker[w].at \/ (worker[w].at = "idle" /\ one(w).at = "woken")
  <2>1. worker[w] \in JobWorker
    BY <1>1
  <2>2. CASE worker[w].at = "idle"
    BY <2>1, <2>2 DEF JobWorker
  <2>3. CASE worker[w].at # "idle"
    BY <2>1, <2>3 DEF JobWorker
  <2>. QED
    BY <2>2, <2>3
<1>. HIDE DEF one
<1>4. new \in [JobWorkers -> JobWorker]
  BY <1>1, <1>2, <1>3
<1>5. \A w \in JobWorkers : new[w] = IF w \notin ws THEN worker[w] ELSE one(w)
  BY <1>2
<1>. HIDE DEF new
<1>6. ASSUME NEW w \in JobWorkers
      PROVE  /\ new[w].job = worker[w].job
             /\ new[w].at = worker[w].at \/ (worker[w].at = "idle" /\ new[w].at = "woken")
  BY <1>3, <1>5
<1>7. /\ new \in [JobWorkers -> JobWorker]
      /\ \A w \in JobWorkers : /\ new[w].job = worker[w].job
                               /\ new[w].at = worker[w].at
                                    \/ (worker[w].at = "idle" /\ new[w].at = "woken")
  BY <1>4, <1>6
<1>. QED
  BY <1>7 DEF new

LEMMA CancelKeeps ==
  ASSUME JobsInv, NEW ws \in SUBSET JobWorkers, Cancel(ws), NEW base,
         base = IF shutting = "no" THEN ready ELSE Tail(ready),
         Scheduled(base, record, worker, TRUE)
  PROVE  /\ Scheduled(ready', record, worker', TRUE) /\ CrewOK(record, worker', TRUE)
         /\ \A j : Announcing(base, j) => Announcing(ready', j)
<1>. DEFINE new == CancelTasks(ws)
            parked == {w \in JobWorkers : worker[w].at = "idle" /\ new[w].at = "woken"}
<1>1. PICK order \in [1..Cardinality(parked) -> parked] :
        /\ parked = {order[i] : i \in DOMAIN order}
        /\ ready' = base \o [i \in DOMAIN order |-> Wake(order[i])]
  BY DEF Cancel
<1>2. worker' = new
  BY DEF Cancel
<1>3. /\ new \in [JobWorkers -> JobWorker]
      /\ \A w \in JobWorkers : /\ new[w].job = worker[w].job
                               /\ new[w].at = worker[w].at
                                    \/ (worker[w].at = "idle" /\ new[w].at = "woken")
  BY CancelTasksMoves
<1>4. IsFiniteSet(parked) /\ parked \in SUBSET JobWorkers
  <2>1. parked \in SUBSET JobWorkers
    OBVIOUS
  <2>. QED
    BY <2>1, JobManagerAssumption, FS_Subset
<1>5. \A w \in parked : w \in JobWorkers /\ worker[w].at = "idle" /\ new[w].at = "woken"
  OBVIOUS
<1>. HIDE DEF new, parked
<1>. DEFINE n == Cardinality(parked)
            p == [i \in DOMAIN order |-> Wake(order[i])]
<1>6. \A i, k \in 1..n : order[i] = order[k] => i = k
  BY <1>1, <1>4, OrderOnce
<1>7. n \in Nat /\ DOMAIN order = 1..n /\ \A i \in 1..n : order[i] \in parked
  BY <1>1, <1>4, FS_CardinalityType
<1>. HIDE DEF n
<1>8. /\ p \in Seq(Entry) /\ DOMAIN p = 1..n
      /\ \A i \in 1..n : p[i] = Wake(order[i]) /\ p[i].who = order[i]
  <2>1. \A i \in 1..n : Wake(order[i]) \in Entry /\ Wake(order[i]).who = order[i]
    BY <1>5, <1>7, EntryKinds
  <2>2. p = [i \in 1..n |-> Wake(order[i])]
    BY <1>7
  <2>3. p \in Seq(Entry)
    BY <1>7, <2>1, <2>2
  <2>. QED
    BY <2>1, <2>2, <2>3
<1>. HIDE DEF p
<1>9. \A w \in parked : NoWake(base, w)
  BY <1>5, NotCalled DEF Called
<1>10. Scheduled(base, record, worker', TRUE)
  <2>1. ASSUME NEW w \in JobWorkers PROVE NoWake(base, w) \/ SameAt(worker[w], worker'[w])
    <3>1. CASE worker[w].at = "idle"
      BY <3>1, NotCalled DEF Called
    <3>2. CASE worker[w].at # "idle"
      BY <1>2, <1>3, <3>2 DEF SameAt
    <3>. QED
      BY <3>1, <3>2
  <2>. QED
    BY <2>1, ScheduledMoves
<1>11. Wakes(p, base, worker')
  <2>1. \A i \in 1..n : /\ p[i] = Wake(p[i].who) /\ p[i].who \in JobWorkers
                        /\ worker'[p[i].who].at \in Called /\ NoWake(base, p[i].who)
    BY <1>2, <1>5, <1>7, <1>8, <1>9 DEF Called
  <2>2. \A i, k \in 1..n : p[i] = p[k] => i = k
    BY <1>6, <1>8
  <2>. QED
    BY <1>8, <2>1, <2>2 DEF Wakes
<1>12. /\ Scheduled(ready', record, worker', TRUE)
       /\ \A j : Announcing(base, j) => Announcing(ready', j)
  BY <1>1, <1>10, <1>11, ConcatScheduled DEF p
<1>13. CrewOK(record, worker', TRUE)
  <2>1. CrewOK(record, worker, TRUE)
    BY OnceClosed DEF JobsInv
  <2>2. \A w \in JobWorkers : /\ worker'[w].job = worker[w].job
                              /\ worker'[w].at \in Holding => worker'[w].at = worker[w].at
                              /\ worker'[w].at \in Running => worker'[w].at = worker[w].at
    BY <1>2, <1>3 DEF Holding, Running
  <2>3. worker' \in [JobWorkers -> JobWorker]
    BY <1>2, <1>3
  <2>4. \A w \in JobWorkers : worker'[w].at = "slept" => worker[w].at = "slept"
    BY <1>2, <1>3
  <2>. QED
    BY <2>1, <2>2, <2>3, <2>4 DEF CrewOK
<1>. QED
  BY <1>12, <1>13

\* Nobody's record or announcement moves.
LEMMA QuietMove ==
  ASSUME JobsInv, UNCHANGED <<record, told>>,
         \A i \in JobIds : Announcing(ready, i) => Announcing(ready', i)
  PROVE  AnnouncedOK(told', record', ready') /\ JobsMove
<1>1. record \in [JobIds -> JobRecord] /\ record' = record /\ told' = told
      /\ AnnouncedOK(told, record, ready)
  BY DEF JobsInv, BooksOK
<1>2. \A i \in JobIds : RecordMoves(record[i], record'[i])
  BY <1>1 DEF RecordMoves
<1>3. AnnouncedOK(told', record', ready') /\ \A i \in JobIds : Rank(told[i]) <= Rank(told'[i])
  <2>1. told' \in [JobIds -> {"none", "queued", "running"} \cup Ended]
    BY <1>1 DEF AnnouncedOK
  <2>2. \A i \in JobIds : \/ told'[i] = record'[i].status
                          \/ /\ told'[i] = told[i]
                             /\ told[i] # record'[i].status => Announcing(ready', i)
    BY <1>1 DEF AnnouncedOK
  <2>3. record' \in [JobIds -> JobRecord]
    BY <1>1
  <2>. QED
    BY <1>1, <1>2, <2>1, <2>2, <2>3, TellMoves
<1>. QED
  BY <1>2, <1>3 DEF JobsMove

LEMMA CancelStep ==
  ASSUME JobsInv, NEW ws \in SUBSET JobWorkers, Cancel(ws), NEW base,
         base = IF shutting = "no" THEN ready ELSE Tail(ready),
         Scheduled(base, record, worker, Closed),
         \A j \in JobIds : Announcing(ready, j) => Announcing(base, j),
         shutting' \in {"waiting", "gathering"},
         UNCHANGED <<record, finished, backlog, told>>
  PROVE  JobsInv' /\ JobsMove
<1>1. Scheduled(base, record, worker, TRUE)
  BY OnceClosed
<1>2. /\ Scheduled(ready', record, worker', TRUE) /\ CrewOK(record, worker', TRUE)
      /\ \A j : Announcing(base, j) => Announcing(ready', j)
  BY <1>1, CancelKeeps
<1>3. Closed' = TRUE
  BY DEF Closed
<1>4. ClosingOK'
  <2>1. /\ shutting' \in {"no", "waiting", "gathering", "failing", "flushing", "done"}
        /\ shutting' \notin {"failing", "flushing", "done"}
    OBVIOUS
  <2>. QED
    BY <2>1 DEF ClosingOK
<1>5. AnnouncedOK(told', record', ready') /\ JobsMove
  BY <1>2, QuietMove
<1>6. BooksOK(record', finished') /\ BacklogOK(backlog', record')
  BY DEF JobsInv
<1>7. Scheduled(ready', record', worker', Closed') /\ CrewOK(record', worker', Closed')
  BY <1>2, <1>3
<1>. QED
  BY <1>4, <1>5, <1>6, <1>7 DEF JobsInv

LEMMA ShutDownKeeps ==
  ASSUME JobsInv, ShutDownJobs
  PROVE  JobsInv' /\ JobsMove
<1>1. /\ shutting = "no" /\ Cancel(JobWorkers) /\ shutting' = "waiting"
      /\ UNCHANGED <<record, finished, backlog, told>>
  BY DEF ShutDownJobs, Closed
<1>2. Scheduled(ready, record, worker, Closed) /\ JobWorkers \in SUBSET JobWorkers
  BY DEF JobsInv
<1>. QED
  BY <1>1, <1>2, CancelStep

LEMMA StopKeeps ==
  ASSUME JobsInv, RunStop
  PROVE  JobsInv' /\ JobsMove
<1>. DEFINE h == Head(ready)
            base == Tail(ready)
<1>1. /\ ready # <<>> /\ h.kind = "stop" /\ UNCHANGED <<record, finished, told>>
  BY DEF RunStop
<1>2. Scheduled(ready, record, worker, Closed)
  BY DEF JobsInv
<1>3. /\ Scheduled(base, record, worker, Closed) /\ EntryOK(h, record, worker, Closed)
      /\ \A i \in DOMAIN base : /\ base[i].kind # "stop"
                                /\ base[i].kind = "send" => base[i].status # "queued"
      /\ \A j : Announcing(ready, j) => Announcing(base, j)
  BY <1>1, <1>2, TailScheduled
<1>4. Closed /\ shutting # "no"
  BY <1>1, <1>3 DEF EntryOK, Closed
<1>. HIDE DEF h, base
<1>5. CASE Alive # {}
  <2>1. Cancel(Alive) /\ shutting' = "gathering" /\ backlog' = backlog
    BY <1>5 DEF RunStop
  <2>2. base = IF shutting = "no" THEN ready ELSE Tail(ready)
    BY <1>4 DEF base
  <2>3. Alive \in SUBSET JobWorkers
    BY DEF Alive
  <2>. QED
    BY <1>1, <1>3, <2>1, <2>2, <2>3, CancelStep
<1>6. CASE Alive = {}
  <2>1. backlog' = <<>> /\ shutting' = "failing" /\ ready' = base /\ worker' = worker
    BY <1>6 DEF RunStop, base
  <2>2. \A i \in DOMAIN base : base[i].kind = "send" /\ base[i].status # "queued"
    <3>1. ASSUME NEW i \in DOMAIN base PROVE base[i].kind # "wake"
      BY <1>3, <1>6 DEF Scheduled, EntryOK, Alive, Called
    <3>2. \A i \in DOMAIN base : base[i].kind \in {"send", "wake", "stop"}
      <4>1. \A i \in DOMAIN base : base[i] \in Entry
        BY <1>3 DEF Scheduled, EntryOK
      <4>. QED
        BY <4>1 DEF Entry
    <3>. QED
      BY <1>3, <3>1, <3>2
  <2>3. Closed' = TRUE
    BY <2>1 DEF Closed
  <2>4. Alive' = {}
    BY <1>6, <2>1 DEF Alive
  <2>5. ClosingOK'
    BY <2>1, <2>2, <2>4 DEF ClosingOK
  <2>6. Scheduled(ready', record', worker', Closed') /\ CrewOK(record', worker', Closed')
    BY <1>1, <1>3, <2>1, <2>3, OnceClosed DEF JobsInv
  <2>7. AnnouncedOK(told', record', ready') /\ JobsMove
    BY <1>1, <1>3, <2>1, QuietMove
  <2>8. BooksOK(record', finished')
    BY <1>1 DEF JobsInv
  <2>9. BacklogOK(backlog', record')
    <3>1. <<>> \in Seq(JobIds) /\ DOMAIN <<>> = {}
      BY EmptySeq
    <3>. QED
      BY <2>1, <3>1 DEF BacklogOK
  <2>. QED
    BY <2>5, <2>6, <2>7, <2>8, <2>9 DEF JobsInv
<1>. QED
  BY <1>5, <1>6

LEMMA ExpiresKeeps ==
  ASSUME JobsInv, WaitExpires
  PROVE  JobsInv' /\ JobsMove
<1>1. /\ shutting = "waiting" /\ \A i \in DOMAIN ready : ready[i].kind # "stop"
      /\ ready' = Append(ready, Stop)
      /\ UNCHANGED <<record, finished, backlog, worker, shutting, told>>
  BY DEF WaitExpires
<1>2. Closed /\ Closed' = Closed
  BY <1>1 DEF Closed
<1>3. Stop \in Entry /\ Stop.kind = "stop"
  BY EntryKinds
<1>4. EntryOK(Stop, record, worker, Closed)
  BY <1>2, <1>3 DEF EntryOK
<1>5. \A f : ~Follows(Stop, f, worker)
  BY <1>3 DEF Follows
<1>6. \A i \in DOMAIN ready : ready[i] # Stop
  BY <1>1, <1>3
<1>7. /\ Scheduled(Append(ready, Stop), record, worker, Closed)
      /\ \A j : Announcing(ready, j) => Announcing(Append(ready, Stop), j)
  BY <1>3, <1>4, <1>5, <1>6, AppendScheduled DEF JobsInv
<1>8. AnnouncedOK(told', record', ready') /\ JobsMove
  BY <1>1, <1>7, QuietMove
<1>9. ClosingOK'
  BY <1>1 DEF ClosingOK
<1>. QED
  BY <1>1, <1>2, <1>7, <1>8, <1>9 DEF JobsInv

LEMMA Least ==
  ASSUME NEW S \in SUBSET Nat, S # {}
  PROVE  \E m \in S : \A n \in S : m <= n
<1>. DEFINE R == {ss \in Nat \X Nat : ss[1] < ss[2]}
<1>1. IsWellFoundedOn(R, Nat)
  BY NatLessThanWellFounded DEF OpToRel
<1>2. PICK m \in S : \A n \in S : <<n, m>> \notin R
  <2>. HIDE DEF R
  <2>. QED
    BY <1>1, WFMin
<1>3. ASSUME NEW n \in S PROVE m <= n
  <2>1. <<n, m>> \notin R
    BY <1>2
  <2>2. ~(n < m)
    BY <2>1
  <2>. QED
    BY <2>2
<1>. QED
  BY <1>3

LEMMA OldestIsOne ==
  ASSUME NEW S \in SUBSET JobIds, S # {}
  PROVE  Oldest(S) \in S
<1>1. JobIds \in SUBSET Nat
  BY JobManagerAssumption DEF JobIds
<1>2. \E m \in S : \A n \in S : m <= n
  BY <1>1, Least
<1>. QED
  BY <1>2 DEF Oldest

\* The records of ended workers' jobs fail, and nothing else follows them.
LEMMA FailKeeps ==
  ASSUME JobsInv, FailNext
  PROVE  JobsInv' /\ JobsMove
<1>1. shutting = "failing" /\ UNCHANGED <<backlog, ready, worker>>
  BY DEF FailNext
<1>2. /\ Alive = {} /\ backlog = <<>> /\ BooksOK(record, finished)
      /\ \A i \in DOMAIN ready : ready[i].kind = "send" /\ ready[i].status # "queued"
      /\ record \in [JobIds -> JobRecord]
  BY <1>1 DEF JobsInv, ClosingOK, BooksOK
<1>3. \A i \in DOMAIN ready : /\ ready[i].job \in JobIds
                              /\ record[ready[i].job].status = "failed"
  BY <1>2 DEF JobsInv, Scheduled, EntryOK
<1>4. \A v \in JobWorkers : worker[v].at = "gone"
  BY <1>2 DEF Alive
<1>5. ASSUME Lasting(record, record'),
             \A i \in DOMAIN ready : record'[ready[i].job].status = record[ready[i].job].status,
             Closed' = Closed
      PROVE  /\ Scheduled(ready', record', worker', Closed') /\ CrewOK(record', worker', Closed')
             /\ BacklogOK(backlog', record')
  <2>1. \A v \in JobWorkers : NoWake(ready, v) \/ SameAt(worker[v], worker[v])
    BY DEF SameAt
  <2>2. Scheduled(ready, record', worker, Closed)
    BY <1>5, <2>1, ScheduledMoves DEF JobsInv
  <2>3. \A v \in JobWorkers : worker[v].at \in Running => record'[worker[v].job].status = "running"
    BY <1>4 DEF Running
  <2>4. CrewOK(record', worker, Closed)
    BY <1>5, <2>3, CrewRecords DEF JobsInv
  <2>5. BacklogOK(backlog, record')
    BY <1>5, BacklogRecords DEF JobsInv
  <2>. QED
    BY <1>1, <1>5, <2>2, <2>4, <2>5
<1>6. Alive' = {}
  BY <1>1, <1>2 DEF Alive
<1>7. CASE Casualties # {}
  <2>. DEFINE j == Oldest(Casualties)
              n == Aborted(record[j])
  <2>1. j \in JobIds /\ record[j].status \in {"queued", "running"} /\ record[j].kept
    <3>1. Casualties \in SUBSET JobIds
      BY DEF Casualties, ActiveJobs, Kept
    <3>2. j \in Casualties
      BY <1>7, <3>1, OldestIsOne
    <3>. QED
      BY <3>2 DEF Casualties, ActiveJobs, Kept
  <2>2. /\ record' = [record EXCEPT ![j] = n] /\ finished' = Append(finished, j)
        /\ told' = [told EXCEPT ![j] = "failed"] /\ shutting' = shutting
    <3>1. record[j].status \notin Ended
      BY <2>1 DEF Ended
    <3>. QED
      BY <1>7, <3>1 DEF FailNext, Finalize
  <2>3. n \in JobRecord /\ n.status = "failed" /\ n.kept /\ n.began = record[j].began
    <3>1. record[j] \in JobRecord
      BY <1>2, <2>1
    <3>. QED
      BY <2>1, <3>1 DEF Aborted, JobRecord, Ended, Errors
  <2>. HIDE DEF j, n
  <2>4. BooksOK(record', finished')
    BY <1>2, <2>1, <2>2, <2>3, FinalizeBooks DEF Ended
  <2>5. \A i \in JobIds : record'[i] = IF i = j THEN n ELSE record[i]
    BY <1>2, <2>2
  <2>6. Lasting(record, record')
    BY <2>3, <2>5 DEF Lasting
  <2>7. \A i \in DOMAIN ready : record'[ready[i].job].status = record[ready[i].job].status
    BY <1>3, <2>1, <2>5
  <2>8. Closed' = Closed
    BY <2>2 DEF Closed
  <2>9. \A i \in JobIds : RecordMoves(record[i], record'[i])
    BY <2>1, <2>3, <2>5 DEF RecordMoves, Ended
  <2>10. AnnouncedOK(told', record', ready') /\ \A i \in JobIds : Rank(told[i]) <= Rank(told'[i])
    <3>1. AnnouncedOK(told, record, ready) /\ record' \in [JobIds -> JobRecord]
      BY <2>4 DEF JobsInv, BooksOK
    <3>2. /\ told' \in [JobIds -> {"none", "queued", "running"} \cup Ended]
          /\ \A i \in JobIds : told'[i] = IF i = j THEN "failed" ELSE told[i]
      BY <2>1, <2>2, ToldType DEF Ended
    <3>3. \A i \in JobIds : \/ told'[i] = record'[i].status
                            \/ /\ told'[i] = told[i]
                               /\ told[i] # record'[i].status => Announcing(ready', i)
      BY <1>1, <2>3, <2>5, <3>1, <3>2 DEF AnnouncedOK
    <3>. QED
      BY <1>2, <2>9, <3>1, <3>2, <3>3, TellMoves
  <2>11. ClosingOK'
    BY <1>1, <1>2, <1>6, <2>2 DEF ClosingOK
  <2>. QED
    BY <1>5, <2>4, <2>6, <2>7, <2>8, <2>9, <2>10, <2>11 DEF JobsInv, JobsMove
<1>8. CASE Casualties = {}
  <2>1. Evict(<<record, finished>>) /\ shutting' = "flushing" /\ told' = told
    BY <1>8 DEF FailNext
  <2>2. /\ BooksOK(record', finished') /\ Len(finished') <= JobHistory
        /\ \A i \in JobIds : /\ record'[i].status = record[i].status
                             /\ record'[i].began = record[i].began
                             /\ record'[i].kept # record[i].kept => record[i].status \in Ended
                                                                    /\ ~record'[i].kept
    BY <1>2, <2>1, EvictBooks
  <2>3. Lasting(record, record')
    BY <2>2 DEF Lasting
  <2>4. \A i \in DOMAIN ready : record'[ready[i].job].status = record[ready[i].job].status
    BY <1>3, <2>2
  <2>5. Closed' = Closed
    BY <1>1, <2>1 DEF Closed
  <2>6. \A i \in JobIds : RecordMoves(record[i], record'[i])
    BY <2>2 DEF RecordMoves
  <2>7. AnnouncedOK(told', record', ready') /\ \A i \in JobIds : Rank(told[i]) <= Rank(told'[i])
    <3>1. AnnouncedOK(told, record, ready) /\ record' \in [JobIds -> JobRecord]
      BY <2>2 DEF JobsInv, BooksOK
    <3>2. /\ told' \in [JobIds -> {"none", "queued", "running"} \cup Ended]
          /\ \A i \in JobIds : /\ told'[i] = told[i]
                               /\ told[i] # record'[i].status => Announcing(ready', i)
      BY <1>1, <2>1, <2>2, ToldSame
    <3>3. \A i \in JobIds : \/ told'[i] = record'[i].status
                            \/ /\ told'[i] = told[i]
                               /\ told[i] # record'[i].status => Announcing(ready', i)
      BY <3>2
    <3>. QED
      BY <1>2, <2>6, <3>1, <3>2, <3>3, TellMoves
  <2>8. ActiveJobs' = {}
    <3>1. ASSUME NEW i \in JobIds, record'[i].kept, record'[i].status \in {"queued", "running"}
          PROVE  FALSE
      BY <1>8, <2>2, <3>1 DEF Casualties, ActiveJobs, Kept
    <3>. QED
      BY <3>1 DEF ActiveJobs, Kept
  <2>9. ClosingOK'
    BY <1>1, <1>2, <1>6, <2>1, <2>2, <2>8 DEF ClosingOK
  <2>. QED
    BY <1>5, <2>2, <2>3, <2>4, <2>5, <2>6, <2>7, <2>9 DEF JobsInv, JobsMove
<1>. QED
  BY <1>7, <1>8

LEMMA FlushedKeeps ==
  ASSUME JobsInv, Flushed
  PROVE  JobsInv' /\ JobsMove
<1>1. /\ shutting = "flushing" /\ ready = <<>> /\ shutting' = "done"
      /\ UNCHANGED <<record, finished, backlog, ready, worker, told>>
  BY DEF Flushed
<1>2. AnnouncedOK(told', record', ready') /\ JobsMove
  BY <1>1, QuietMove
<1>3. Closed' = Closed
  BY <1>1 DEF Closed
<1>4. ClosingOK'
  <2>1. Alive' = Alive /\ ActiveJobs' = ActiveJobs
    BY <1>1 DEF Alive, ActiveJobs, Kept
  <2>. QED
    BY <1>1, <2>1 DEF JobsInv, ClosingOK
<1>. QED
  BY <1>1, <1>2, <1>3, <1>4 DEF JobsInv

LEMMA StutterKeeps ==
  ASSUME JobsInv, UNCHANGED jobsVars
  PROVE  JobsInv' /\ JobsMove
<1>1. UNCHANGED <<record, finished, backlog, ready, worker, shutting, told>>
  BY DEF jobsVars
<1>2. AnnouncedOK(told', record', ready') /\ JobsMove
  BY <1>1, QuietMove
<1>3. Closed' = Closed
  BY <1>1 DEF Closed
<1>4. ClosingOK'
  <2>1. Alive' = Alive /\ ActiveJobs' = ActiveJobs
    BY <1>1 DEF Alive, ActiveJobs, Kept
  <2>. QED
    BY <1>1, <2>1 DEF JobsInv, ClosingOK
<1>. QED
  BY <1>1, <1>2, <1>3, <1>4 DEF JobsInv

LEMMA JobsStep == JobsInv /\ [NextJobs]_jobsVars => JobsInv' /\ JobsMove
<1>. SUFFICES ASSUME JobsInv, [NextJobs]_jobsVars PROVE JobsInv' /\ JobsMove
  OBVIOUS
<1>1. ASSUME NEW j \in JobIds, SubmitJob(j) PROVE JobsInv' /\ JobsMove
  BY <1>1, SubmitKeeps
<1>2. ASSUME NEW w \in JobWorkers,
             StartHandler(w) \/ \E out \in {"result", "error"} : HandlerDone(w, out)
      PROVE  JobsInv' /\ JobsMove
  BY <1>2, HandlerKeeps
<1>3. ASSUME NEW w \in JobWorkers, CloseJob(w) PROVE JobsInv' /\ JobsMove
  BY <1>3, CloseKeeps
<1>4. ASSUME NEW w \in JobWorkers, Resume(w) \/ TimedOut(w) PROVE JobsInv' /\ JobsMove
  <2>1. worker[w].at = "handling"
    BY <1>4 DEF Resume, TimedOut
  <2>2. PICK status \in Ended, error \in Errors : Settled(w, status, error)
    BY <1>4 DEF Resume, TimedOut, Ended, Errors
  <2>. QED
    BY <2>1, <2>2, SettleKeeps
<1>5. ASSUME NEW w \in JobWorkers, CancelLands(w) PROVE JobsInv' /\ JobsMove
  BY <1>5, CancelLandsKeeps
<1>6. CASE RunSend
  BY <1>6, SendKeeps
<1>7. CASE RunWake
  BY <1>7, WakeKeeps
<1>8. CASE RunStop
  BY <1>8, StopKeeps
<1>9. CASE ShutDownJobs
  BY <1>9, ShutDownKeeps
<1>10. CASE WaitExpires
  BY <1>10, ExpiresKeeps
<1>11. CASE FailNext
  BY <1>11, FailKeeps
<1>12. CASE Flushed
  BY <1>12, FlushedKeeps
<1>13. CASE UNCHANGED jobsVars
  BY <1>13, StutterKeeps
<1>. QED
  BY <1>1, <1>2, <1>3, <1>4, <1>5, <1>6, <1>7, <1>8, <1>9, <1>10, <1>11, <1>12, <1>13 DEF NextJobs

LEMMA JobsStart == InitJobs => JobsInv
<1>. SUFFICES ASSUME InitJobs PROVE JobsInv
  OBVIOUS
<1>1. /\ record = [j \in JobIds |-> [status |-> "none", began |-> FALSE,
                                     error |-> "none", kept |-> FALSE]]
      /\ finished = <<>> /\ backlog = <<>> /\ shutting = "no"
      /\ worker = [w \in JobWorkers |-> Tag("fresh")]
      /\ told = [j \in JobIds |-> "none"]
      /\ ready \in [1..Cardinality(JobWorkers) -> {Wake(w) : w \in JobWorkers}]
      /\ \A a, b \in DOMAIN ready : a # b => ready[a] # ready[b]
  BY DEF InitJobs, NoJobs
<1>2. <<>> \in Seq(JobIds) /\ DOMAIN <<>> = {}
  BY EmptySeq
<1>3. BooksOK(record, finished)
  BY <1>1, <1>2 DEF BooksOK, Once, RecordOK, JobRecord, Ended, Errors
<1>4. BacklogOK(backlog, record)
  BY <1>1, <1>2 DEF BacklogOK
<1>5. AnnouncedOK(told, record, ready)
  BY <1>1, Ranks DEF AnnouncedOK, Ended
<1>6. ~Closed
  BY <1>1 DEF Closed
<1>7. \A w \in JobWorkers : /\ worker[w] \in JobWorker /\ worker[w].at = "fresh"
                            /\ ~worker[w].cancelled
  BY <1>1, Tags DEF Ats
<1>8. CrewOK(record, worker, Closed)
  BY <1>1, <1>7 DEF CrewOK, Holding, Running
<1>9. Scheduled(ready, record, worker, Closed)
  <2>1. Cardinality(JobWorkers) \in Nat
    BY JobManagerAssumption, FS_CardinalityType
  <2>2. ASSUME NEW i \in DOMAIN ready
        PROVE  /\ ready[i] \in Entry /\ ready[i].kind = "wake" /\ ready[i].who \in JobWorkers
               /\ ready[i] = Wake(ready[i].who)
    <3>1. PICK w \in JobWorkers : ready[i] = Wake(w)
      BY <1>1
    <3>. QED
      BY <3>1, EntryKinds
  <2>3. ready \in Seq(Entry)
    BY <1>1, <2>1, <2>2
  <2>4. \A i \in DOMAIN ready : EntryOK(ready[i], record, worker, Closed)
    BY <1>7, <2>2 DEF EntryOK, Called
  <2>5. \A i, k \in DOMAIN ready : ~Follows(ready[i], ready[k], worker)
    BY <2>2 DEF Follows
  <2>. QED
    BY <1>1, <2>3, <2>4, <2>5 DEF Scheduled
<1>10. ClosingOK
  BY <1>1 DEF ClosingOK
<1>. QED
  BY <1>3, <1>4, <1>5, <1>8, <1>9, <1>10 DEF JobsInv

-----------------------------------------------------------------------------
(* What a client of the in-memory queue relies on. *)

\* The invariant the three results below follow from.
THEOREM JobsInductive == JobsSpec => []JobsInv
<1>1. JobsInv /\ [NextJobs]_jobsVars => JobsInv'
  BY JobsStep
<1>. QED
  BY <1>1, JobsStart, PTL DEF JobsSpec

\* Whatever the number of workers and jobs, however broadcasts, handlers, timers
\* and cancellations interleave: no client is told an earlier status after a
\* later one, although `queued` and the failure of a cancelled worker are sent
\* by tasks of their own and `running` by a worker.
THEOREM EventsOrdered == JobsSpec => EventsInOrder
<1>1. JobsInv /\ [NextJobs]_jobsVars => [\A j \in JobIds : Rank(told[j]) <= Rank(told'[j])]_told
  BY JobsStep DEF JobsMove
<1>. QED
  BY <1>1, JobsInductive, PTL DEF JobsSpec, EventsInOrder

\* When shutdown() has returned no worker is left, nothing is queued or running,
\* each outcome was announced, and the history holds what is kept and is within
\* its limit.
THEOREM ShutdownLeavesNothing == JobsSpec => []JobsTypeOK /\ []NothingOutlivesShutdown
<1>1. JobsInv => JobsTypeOK
  <2>. SUFFICES ASSUME JobsInv PROVE JobsTypeOK
    OBVIOUS
  <2>1. record \in [JobIds -> JobRecord] /\ finished \in Seq(JobIds)
    BY DEF JobsInv, BooksOK
  <2>2. ready \in Seq(Entry) /\ worker \in [JobWorkers -> JobWorker] /\ backlog \in Seq(JobIds)
    BY DEF JobsInv, Scheduled, CrewOK, BacklogOK
  <2>3. shutting \in {"no", "waiting", "gathering", "failing", "flushing", "done"}
    BY DEF JobsInv, ClosingOK
  <2>. QED
    BY <2>1, <2>2, <2>3, ToldType DEF JobsTypeOK
<1>2. JobsInv => NothingOutlivesShutdown
  <2>. SUFFICES ASSUME JobsInv, shutting = "done" PROVE NothingOutlivesShutdown
    BY DEF NothingOutlivesShutdown
  <2>1. /\ Alive = {} /\ ActiveJobs = {} /\ backlog = <<>> /\ Len(finished) <= JobHistory
        /\ ready = <<>>
    BY DEF JobsInv, ClosingOK
  <2>2. \A j \in JobIds : told[j] = record[j].status
    BY <2>1 DEF JobsInv, AnnouncedOK, Announcing
  <2>3. BooksOK(record, finished)
    BY DEF JobsInv
  <2>4. ASSUME NEW j \in Kept PROVE \E i \in DOMAIN finished : finished[i] = j
    <3>1. j \in JobIds /\ record[j].kept /\ record[j].status \notin {"queued", "running"}
      BY <2>1 DEF ActiveJobs, Kept
    <3>2. record[j].status \in Ended
      BY <2>3, <3>1 DEF BooksOK, RecordOK, JobRecord
    <3>. QED
      BY <2>3, <3>1, <3>2 DEF BooksOK
  <2>5. ASSUME NEW i \in DOMAIN finished PROVE finished[i] \in Kept
    <3>1. finished[i] \in JobIds
      BY <2>3, ElementOfSeq, LenProperties DEF BooksOK
    <3>. QED
      BY <2>3, <3>1 DEF BooksOK, Kept
  <2>6. Kept = {finished[i] : i \in DOMAIN finished}
    BY <2>4, <2>5
  <2>. QED
    BY <2>1, <2>2, <2>6 DEF NothingOutlivesShutdown
<1>. QED
  BY <1>1, <1>2, JobsInductive, PTL

Shown(r) == CASE r.status = "none" -> "absent" [] r.kept -> r.status [] OTHER -> "pruned"
Begun(r) == IF r.kept /\ r.began THEN 1 ELSE 0

LEMMA RecordRefines ==
  ASSUME NEW j \in JobIds, RecordOK(record[j]), RecordOK(record'[j]),
         RecordMoves(record[j], record'[j])
  PROVE  Lifecycle!Move(j)
<1>. DEFINE r == record[j]
            n == record'[j]
<1>1. RecordOK(r) /\ RecordOK(n) /\ RecordMoves(r, n) /\ r \in JobRecord /\ n \in JobRecord
  BY DEF RecordOK
<1>2. ASSUME Shown(r) = "absent", Shown(n) = "queued", Begun(n) = 0
      PROVE  Lifecycle!Admit(j)
  BY <1>2 DEF Lifecycle!Admit, Shown, Begun
<1>3. ASSUME Shown(r) = "queued", Begun(r) = 0, Shown(n) = "running", Begun(n) = 1
      PROVE  Lifecycle!Begin(j)
  BY <1>3 DEF Lifecycle!Begin, Shown, Begun
<1>4. ASSUME Shown(r) \in {"queued", "running"}, Shown(n) \in Ended, Begun(n) = Begun(r),
             Shown(n) = "succeeded" => Shown(r) = "running"
      PROVE  Lifecycle!Settle(j)
  BY <1>4 DEF Lifecycle!Settle, Lifecycle!Settled, Shown, Begun, Ended
<1>5. ASSUME Shown(r) \in {"queued", "running"} \cup Ended, Shown(n) = "pruned", Begun(n) = 0
      PROVE  Lifecycle!Forget(j)
  BY <1>5 DEF Lifecycle!Forget, Lifecycle!Settled, Shown, Begun, Ended
<1>6. ASSUME Shown(r) = Shown(n), Begun(r) = Begun(n)
      PROVE  Lifecycle!Unmoved(j)
  BY <1>6 DEF Lifecycle!Unmoved, Shown, Begun
<1>7. CASE n.status = r.status /\ n.kept = r.kept /\ n.began = r.began
  <2>1. Shown(r) = Shown(n) /\ Begun(r) = Begun(n)
    BY <1>7 DEF Shown, Begun
  <2>. QED
    BY <1>6, <2>1 DEF Lifecycle!Move
<1>8. CASE r.status = "none" /\ n.status = "queued" /\ n.kept /\ ~n.began
  <2>0. n.status # "none"
    BY <1>8
  <2>1. Shown(r) = "absent" /\ Shown(n) = "queued"
    BY <1>1, <1>8, <2>0 DEF Shown, RecordOK
  <2>2. Begun(n) = 0
    BY <1>8 DEF Begun
  <2>. QED
    BY <1>2, <2>1, <2>2 DEF Lifecycle!Move
<1>9. CASE r.status = "queued" /\ n.status = "running" /\ n.kept /\ n.began
  <2>1. Shown(r) = "queued" /\ Begun(r) = 0 /\ Shown(n) = "running" /\ Begun(n) = 1
    BY <1>1, <1>9 DEF Shown, Begun, RecordOK
  <2>. QED
    BY <1>3, <2>1 DEF Lifecycle!Move
<1>10. CASE /\ r.status \in {"queued", "running"} /\ n.status \in Ended /\ n.began = r.began
            /\ n.status = "succeeded" => r.status = "running"
  <2>1. Shown(r) = r.status /\ r.kept
    BY <1>1, <1>10 DEF Shown, RecordOK
  <2>2. CASE n.kept
    <3>1. Shown(n) = n.status /\ Begun(n) = Begun(r)
      BY <1>10, <2>1, <2>2 DEF Shown, Begun, Ended
    <3>. QED
      BY <1>4, <1>10, <2>1, <3>1 DEF Lifecycle!Move
  <2>3. CASE ~n.kept
    <3>1. Shown(n) = "pruned" /\ Begun(n) = 0
      BY <1>10, <2>3 DEF Shown, Begun, Ended
    <3>. QED
      BY <1>5, <1>10, <2>1, <3>1 DEF Lifecycle!Move
  <2>. QED
    BY <2>2, <2>3
<1>11. CASE r.status \in Ended /\ n.status = r.status /\ ~n.kept
  <2>1. Shown(n) = "pruned" /\ Begun(n) = 0
    BY <1>11 DEF Shown, Begun, Ended
  <2>2. CASE r.kept
    <3>1. Shown(r) = r.status
      BY <1>11, <2>2 DEF Shown, Ended
    <3>. QED
      BY <1>5, <1>11, <2>1, <3>1 DEF Lifecycle!Move
  <2>3. CASE ~r.kept
    <3>1. Shown(r) = "pruned" /\ Begun(r) = 0
      BY <1>11, <2>3 DEF Shown, Begun, Ended
    <3>. QED
      BY <1>6, <2>1, <3>1 DEF Lifecycle!Move
  <2>. QED
    BY <2>2, <2>3
<1>. QED
  BY <1>1, <1>7, <1>8, <1>9, <1>10, <1>11 DEF RecordMoves

\* Whatever the number of workers and jobs, the in-memory queue keeps the
\* lifecycle the durable queue promises, with one attempt: a job's handler starts
\* at most once, the job never goes back to the queue, its outcome never changes,
\* and only a job that ran succeeds.
THEOREM MemoryQueueRefines == JobsSpec => MemoryQueueImplementsLifecycle
<1>1. InitJobs => Lifecycle!LifecycleInit
  BY DEF InitJobs, NoJobs, Lifecycle!LifecycleInit
<1>2. JobsInv /\ [NextJobs]_jobsVars => [Lifecycle!LifecycleNext]_(Lifecycle!jobVars)
  <2>. SUFFICES ASSUME JobsInv, [NextJobs]_jobsVars PROVE Lifecycle!LifecycleNext
    OBVIOUS
  <2>1. JobsInv' /\ JobsMove
    BY JobsStep
  <2>2. ASSUME NEW j \in JobIds PROVE Lifecycle!Move(j)
    <3>1. RecordOK(record[j]) /\ RecordOK(record'[j])
      BY <2>1 DEF JobsInv, BooksOK
    <3>. QED
      BY <2>1, <3>1, RecordRefines DEF JobsMove
  <2>. QED
    BY <2>2 DEF Lifecycle!LifecycleNext
<1>. QED
  BY <1>1, <1>2, JobsInductive, PTL
     DEF JobsSpec, MemoryQueueImplementsLifecycle, Lifecycle!Lifecycle
=============================================================================
