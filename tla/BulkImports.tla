------------------------------ MODULE BulkImports ------------------------------
(***************************************************************************)
(* Bulk imports (the bulk half of ResearchJobs in                          *)
(* src/agent/research_jobs.py): a manifest of commands becomes jobs of the *)
(* queue, one by one, and a batch that remembers their ids; a batch can be *)
(* cancelled as a whole.                                                   *)
(*                                                                         *)
(* With a database every command is a transaction of its own, under a key  *)
(* made of the request's idempotency key and the command's place, so a     *)
(* request that dies half-way can be repeated.  Without one nothing is     *)
(* awaited: a manifest is submitted, and a batch cancelled, in one step;   *)
(* the queue cannot cancel, so the run of a cancelled job is marked in a   *)
(* table of bounded size and ends when it sees the mark.                   *)
(*                                                                         *)
(* The queue is JobManager's and DurableJobs': here it is what this code   *)
(* sees of it.                                                             *)
(***************************************************************************)
EXTENDS Naturals, Sequences, SequencesExt, FiniteSets

CONSTANTS
  Importers,     \* requests under way
  ImportKeys,    \* what requests bring for an idempotency key
  NoImportKey,   \* to bring none: a request may, and then it is in ImportKeys too
  Manifests,     \* lists of commands
  MaxBatches,    \* batches that are kept: 50
  MaxMarkers,    \* cancelled runs that are remembered: 1000
  QueueRoom,     \* active jobs the queue accepts
  MaxBulkJobs,   \* bound: jobs ever submitted without a database
  MaxKeyedJobs   \* bound: jobs ever submitted with one

\* With the code's 50 batches of ten commands, 20 active jobs and 1000 marks: the
\* marks of a batch, of all it can be kept beside and of an active job all fit.
\* A manifest submitted at once has no more jobs than the queue has room.
ASSUME BulkAssumption ==
  /\ MaxBatches \in Nat \ {0} /\ QueueRoom \in Nat \ {0} /\ MaxMarkers \in Nat
  /\ MaxBulkJobs \in Nat /\ MaxKeyedJobs \in 0..MaxBulkJobs
  /\ \A m \in Manifests : m \in Seq(ToSet(m))
  /\ \A m \in Manifests :
       LET accepted == IF Len(m) < QueueRoom THEN Len(m) ELSE QueueRoom
       IN /\ (2 * MaxBatches - 1) * accepted <= MaxMarkers
          /\ MaxBatches * accepted + QueueRoom <= MaxMarkers

VARIABLES
  persistent,  \* the process has a database
  bulkJob,     \* the jobs of the queue
  batches,     \* the newest first
  marked,      \* _cancelled, oldest mark first
  importer     \* requests that import or cancel
bulkVars == <<persistent, bulkJob, batches, marked, importer>>

BulkIds == 1..MaxBulkJobs
NoJob == 0
AllCommands == UNION {ToSet(m) : m \in Manifests}
BulkJob == [status : {"none", "queued", "running", "ended", "pruned"},
            key : {NoImportKey} \cup (ImportKeys \X Nat), command : AllCommands \cup {"none"},
            told : {"no", "queued", "late"},  \* whether it was cancelled before it began
            began : BOOLEAN]                              \* its handler was called
NewJob(c, k) == [status |-> "queued", key |-> k, command |-> c, told |-> "no", began |-> FALSE]
Item(j, c) == [job |-> j, command |-> c]
Waiting(q) == {j \in BulkIds : q[j].status = "queued"}
Unfinished(q) == {j \in BulkIds : q[j].status \in {"queued", "running"}}
Fresh(q) == {j \in BulkIds : q[j].status = "none" /\ (persistent => j <= MaxKeyedJobs)}
Earliest(S) == CHOOSE j \in S : \A i \in S : j <= i
Idler == [at |-> "idle", key |-> NoImportKey, manifest |-> <<>>, items |-> <<>>, next |-> 1]

InitBulk ==
  /\ persistent \in BOOLEAN
  /\ bulkJob = [j \in BulkIds |-> [status |-> "none", key |-> NoImportKey, command |-> "none",
                                   told |-> "no", began |-> FALSE]]
  /\ batches = <<>> /\ marked = <<>>
  /\ importer = [i \in Importers |-> Idler]

-----------------------------------------------------------------------------
(***************************************************************************)
(* Importing.                                                              *)
(***************************************************************************)
\* A finished manifest becomes the newest batch; the oldest beyond the cap go.
KeptBatches(b) ==
  LET all == <<b>> \o batches
  IN SubSeq(all, 1, IF Len(all) > MaxBatches THEN MaxBatches ELSE Len(all))

MutantPlaceKey(k, n) == IF k = NoImportKey THEN NoImportKey ELSE <<k, 1>>
\* The queue's key of the n-th command.
PlaceKey(k, n) == IF k = NoImportKey THEN NoImportKey ELSE <<k, n>>

\* submit_command for one command: the retained job of its key, a refusal because
\* that job is another command's or the queue is full, or a new job.
Submitted(q, c, k) ==
  LET same == {j \in BulkIds : k # NoImportKey /\ q[j].key = k}
  IN IF same # {}
     THEN LET j == CHOOSE j \in same : TRUE
          IN [jobs |-> q, item |-> Item(IF q[j].command = c THEN j ELSE NoJob, c)]
     ELSE IF Cardinality(Unfinished(q)) >= QueueRoom
     THEN [jobs |-> q, item |-> Item(NoJob, c)]
     ELSE LET j == Earliest(Fresh(q))
          IN [jobs |-> [q EXCEPT ![j] = NewJob(c, k)], item |-> Item(j, c)]

\* One turn of the loop over a manifest: the command is submitted and its item kept.
WithItem(acc, c) ==
  LET s == Submitted(acc.jobs, c, NoImportKey)
  IN [jobs |-> s.jobs, items |-> Append(acc.items, s.item)]

\* Without a database the whole manifest, with no await in between.
Imported(m) ==
  LET After[k \in 0..Len(m)] == IF k = 0 THEN [jobs |-> bulkJob, items |-> <<>>]
                                ELSE WithItem(After[k - 1], m[k])
  IN After[Len(m)]

ImportInMemory(m) ==
  /\ ~persistent /\ Cardinality(Fresh(bulkJob)) >= Len(m)
  /\ bulkJob' = Imported(m).jobs
  /\ batches' = KeptBatches(Imported(m).items)
  /\ UNCHANGED <<persistent, marked, importer>>

BeginImport(i, k, m) ==
  /\ persistent /\ importer[i].at = "idle"
  /\ importer' = [importer EXCEPT ![i] = [Idler EXCEPT !.at = "importing", !.key = k,
                                                       !.manifest = m]]
  /\ UNCHANGED <<persistent, bulkJob, batches, marked>>

ItemKept(r, item) == [r EXCEPT !.items = Append(@, item), !.next = @ + 1]
SubmitItem(i) ==
  /\ importer[i].at = "importing" /\ Fresh(bulkJob) # {}
  /\ LET n == importer[i].next
         s == Submitted(bulkJob, importer[i].manifest[n], PlaceKey(importer[i].key, n))
     IN /\ n <= Len(importer[i].manifest)
        /\ bulkJob' = s.jobs
        /\ importer' = [importer EXCEPT ![i] = ItemKept(@, s.item)]
  /\ UNCHANGED <<persistent, batches, marked>>

StoreBatch(i) ==
  /\ importer[i].at = "importing" /\ importer[i].next > Len(importer[i].manifest)
  /\ batches' = KeptBatches(importer[i].items)
  /\ importer' = [importer EXCEPT ![i] = Idler]
  /\ UNCHANGED <<persistent, bulkJob, marked>>

\* The request ends early: its author has lost the workspace, the storage fails, or
\* the process stops.  What it submitted, or cancelled, stays so.
Interrupt(i) ==
  /\ importer[i].at # "idle"
  /\ importer' = [importer EXCEPT ![i] = Idler]
  /\ UNCHANGED <<persistent, bulkJob, batches, marked>>

-----------------------------------------------------------------------------
(***************************************************************************)
(* Cancelling.                                                             *)
(***************************************************************************)
\* A mark is added once, and the oldest goes when there are too many.
MutantMarks(m, j) ==
  LET all == Append(SelectSeq(m, LAMBDA x : x # j), j)
  IN IF j = NoJob THEN m
     ELSE SubSeq(all, IF 2 * Len(all) > MaxMarkers THEN 2 ELSE 1, Len(all))
Marks(m, j) ==
  LET all == Append(m, j)
  IN IF j = NoJob \/ j \in ToSet(m) THEN m
     ELSE IF Len(all) > MaxMarkers THEN Tail(all) ELSE all

\* What a cancellation was told of the job it is for.
Told(r) ==
  IF r.told # "no" \/ r.status = "pruned" THEN r
  ELSE [r EXCEPT !.told = IF r.status = "queued" THEN "queued" ELSE "late"]

\* The marks when every job of a batch has been marked, one after another.
MarksWith(items) ==
  LET After[k \in 0..Len(items)] == IF k = 0 THEN marked
                                    ELSE Marks(After[k - 1], items[k].job)
  IN After[Len(items)]

\* Without a database: every run of the batch is marked, also one that has ended.
CancelInMemory(n) ==
  /\ ~persistent /\ n \in DOMAIN batches
  /\ marked' = MarksWith(batches[n])
  /\ bulkJob' = [j \in BulkIds |-> IF \E k \in DOMAIN batches[n] : batches[n][k].job = j
                                   THEN Told(bulkJob[j]) ELSE bulkJob[j]]
  /\ UNCHANGED <<persistent, batches, importer>>

\* With one, the batch is read first, and its jobs are cancelled one after another.
BeginCancel(i, n) ==
  /\ persistent /\ importer[i].at = "idle" /\ n \in DOMAIN batches
  /\ importer' = [importer EXCEPT ![i] = [Idler EXCEPT !.at = "cancelling",
                                                       !.items = batches[n]]]
  /\ UNCHANGED <<persistent, bulkJob, batches, marked>>

\* A queued job ends at once; a running one is asked to stop.
ToldToStop(r) == [Told(r) EXCEPT !.status = IF @ = "queued" THEN "ended" ELSE @]
CancelItem(i) ==
  /\ importer[i].at = "cancelling" /\ importer[i].next <= Len(importer[i].items)
  /\ LET j == importer[i].items[importer[i].next].job
     IN bulkJob' = IF j = NoJob THEN bulkJob ELSE [bulkJob EXCEPT ![j] = ToldToStop(@)]
  /\ importer' = [importer EXCEPT ![i].next = @ + 1]
  /\ UNCHANGED <<persistent, batches, marked>>

EndCancel(i) ==
  /\ importer[i].at = "cancelling" /\ importer[i].next > Len(importer[i].items)
  /\ importer' = [importer EXCEPT ![i] = Idler]
  /\ UNCHANGED <<persistent, bulkJob, batches, marked>>

-----------------------------------------------------------------------------
(***************************************************************************)
(* The queue.                                                              *)
(***************************************************************************)
\* The earliest queued job starts.  In memory its run looks for its own mark first.
BulkJobStarts ==
  /\ Waiting(bulkJob) # {}
  /\ LET j == Earliest(Waiting(bulkJob))
     IN bulkJob' = IF ~persistent /\ j \in ToSet(marked)
                   THEN [bulkJob EXCEPT ![j].status = "ended"]
                   ELSE [bulkJob EXCEPT ![j].status = "running", ![j].began = TRUE]
  /\ UNCHANGED <<persistent, batches, marked, importer>>

BulkJobEnds(j) ==
  /\ bulkJob[j].status = "running"
  /\ bulkJob' = [bulkJob EXCEPT ![j].status = "ended"]
  /\ UNCHANGED <<persistent, batches, marked, importer>>

\* The queue forgets the job, its key with it; its command stays for the properties.
\* Without keys nothing here can tell.
BulkJobPruned(j) ==
  /\ persistent /\ bulkJob[j].status = "ended"
  /\ bulkJob' = [bulkJob EXCEPT ![j] = [NewJob(@.command, NoImportKey) EXCEPT !.status = "pruned"]]
  /\ UNCHANGED <<persistent, batches, marked, importer>>

NextBulk ==
  \/ \E m \in Manifests : ImportInMemory(m)
  \/ \E i \in Importers, k \in ImportKeys, m \in Manifests : BeginImport(i, k, m)
  \/ \E i \in Importers : SubmitItem(i) \/ StoreBatch(i) \/ Interrupt(i)
  \/ \E n \in 1..MaxBatches : CancelInMemory(n)
  \/ \E i \in Importers, n \in 1..MaxBatches : BeginCancel(i, n)
  \/ \E i \in Importers : CancelItem(i) \/ EndCancel(i)
  \/ BulkJobStarts
  \/ \E j \in BulkIds : BulkJobEnds(j) \/ BulkJobPruned(j)

BulkSpec == InitBulk /\ [][NextBulk]_bulkVars

-----------------------------------------------------------------------------
BulkTypeOK ==
  /\ persistent \in BOOLEAN /\ bulkJob \in [BulkIds -> BulkJob]
  /\ marked \in Seq(BulkIds) /\ Len(marked) <= MaxMarkers
  /\ Len(batches) <= MaxBatches
  /\ \A n \in DOMAIN batches : \A k \in DOMAIN batches[n] :
       batches[n][k] \in [job : BulkIds \cup {NoJob}, command : AllCommands]

\* A run that was cancelled before it began never calls its handler, although its
\* mark may be the oldest of a full table by the time a worker reaches it; and a
\* batch that is still listed shows its cancelled runs as cancelled, although
\* batches before and after it were cancelled too.
CancelledNeverRuns ==
  /\ \A j \in BulkIds : bulkJob[j].told = "queued" => ~bulkJob[j].began
  /\ ~persistent => \A n \in DOMAIN batches : \A k \in DOMAIN batches[n] :
       LET j == batches[n][k].job
       IN j # NoJob => (bulkJob[j].told # "no" => j \in ToSet(marked))

\* An accepted command is the command of the job it is listed with, and no two of a
\* request share a job: also when a request is repeated, under the same key, half of
\* it submitted, with other commands, or beside the first.
ItemsAreTheirOwn ==
  \A items \in ToSet(batches) \cup {importer[i].items : i \in Importers} :
    \A k \in DOMAIN items : items[k].job # NoJob =>
      /\ bulkJob[items[k].job].command = items[k].command
      /\ \A o \in DOMAIN items : items[o].job = items[k].job => o = k

\* The jobs a cancellation has passed are over or have been told to stop, however
\* they moved meanwhile.
CancellationReaches ==
  \A i \in Importers : importer[i].at = "cancelling" =>
    \A k \in 1..(importer[i].next - 1) :
      LET j == importer[i].items[k].job
      IN j # NoJob => j \notin Unfinished(bulkJob) \/ bulkJob[j].told # "no"

BulkHolds == BulkTypeOK /\ CancelledNeverRuns /\ ItemsAreTheirOwn /\ CancellationReaches
=============================================================================
