-------------------------- MODULE SourcePublication --------------------------
(***************************************************************************)
(* How an ingestion publishes a version of a source in the graph store:    *)
(* ingest_to_graph/_ingest_source (src/ingestion/graph_writer.py) against  *)
(* the transactions of Neo4jClient (src/graph/neo4j_client.py) that read,  *)
(* publish, delete, clear and directly write sources.                      *)
(*                                                                         *)
(* An attempt checks its operation's receipt, reads the source's version,  *)
(* spends minutes extracting, and publishes if that version still stands.  *)
(* Between those steps anything may happen: other attempts of the same     *)
(* operation (a reclaimed job whose first owner still runs), other         *)
(* ingestions of the source, deletion, clear, direct writes, and the end   *)
(* of the attempt by a failure, a cancellation or a crash.                 *)
(*                                                                         *)
(* Each transaction takes the persistent graph lock first, so it is one    *)
(* atomic step.  A content version is a digest of the fetched content and  *)
(* the extraction policy: the same content gives the same version again.   *)
(* The versions of tombstones and direct writes are uuids: here the number *)
(* of the invalidation that drew them.                                     *)
(***************************************************************************)
EXTENDS Naturals

CONSTANTS
  Sources,     \* source identities
  Contents,    \* content versions
  NoVersion,   \* a source without a version
  Direct,      \* what a direct (legacy) write stores in a source's graph
  Ops,         \* operation ids: the durable jobs' public ids
  NoOp,        \* an ingestion that carries no operation id
  Target,      \* the source each operation's command names
  Procs,       \* attempts that may be under way at once
  MaxMarks,    \* bound: invalidations in a behaviour
  CommandTTL,  \* ticks an operation's command is retried for (24 h)
  ReceiptTTL   \* ticks a receipt is kept (7 days)

ASSUME VersionAssumption ==
  /\ Contents \cap Nat = {}
  /\ NoVersion \notin Nat \cup Contents
  /\ Direct \notin Contents
ASSUME OperationAssumption ==
  /\ NoOp \notin Ops
  /\ Target \in [Ops -> Sources]
ASSUME HorizonAssumption ==
  /\ MaxMarks \in Nat
  /\ CommandTTL \in Nat \ {0}
  /\ ReceiptTTL \in Nat
  /\ CommandTTL < ReceiptTTL

VARIABLES
  src,      \* per source: the Source row, its excerpts and its part of the graph
  receipt,  \* per operation: ticks its IngestOperation receipt still lives, 0 for none
  left,     \* per operation: ticks its command may still be attempted
  new,      \* operations not submitted yet
  at,       \* what each attempt is doing
  marks,    \* uuids drawn by deletions, clears and direct writes
  epoch,    \* history: invalidations of each source
  commits   \* history: receipts each operation has committed
vars == <<src, receipt, left, new, at, marks, epoch, commits>>

Row == [kind : {"missing", "placeholder", "published", "tombstone", "legacy"},
        version : Contents \cup Nat \cup {NoVersion},
        chunks : SUBSET Contents, graph : SUBSET (Contents \cup {Direct})]

Attempt == [phase : {"checked", "extracting"}, op : Ops \cup {NoOp}, source : Sources,
            content : Contents, expected : Contents \cup Nat \cup {NoVersion}, seen : Nat]

Idle == [phase |-> "idle"]

\* Definitions named Mutant... are not part of the model: each is the plausible
\* slip in the definition after it that one of the properties is shown to catch.

(***************************************************************************)
(* What the transactions do to a source.                                   *)
(***************************************************************************)
Missing == [kind |-> "missing", version |-> NoVersion, chunks |-> {}, graph |-> {}]

MutantRegisteredNever(r) == r
\* get_source reserves an identity that has no row.
Registered(r) == IF r.kind = "missing" THEN [r EXCEPT !.kind = "placeholder"] ELSE r

MutantStrippedOfExcerptsOnly(r) == [r EXCEPT !.chunks = {}]
\* _remove_source_graph: the source's excerpts, assertions and memberships go.
Stripped(r) == [r EXCEPT !.chunks = {}, !.graph = {}]

Published(r, v) ==
  [Stripped(r) EXCEPT !.kind = "published", !.version = v,
                      !.chunks = @ \cup {v}, !.graph = @ \cup {v}]

Tombstone(r, mark) == [Stripped(r) EXCEPT !.kind = "tombstone", !.version = mark]

MutantTouchedKeepsExcerpts(r, mark) ==
  IF r.kind = "missing" THEN [r EXCEPT !.graph = @ \cup {Direct}]
  ELSE [r EXCEPT !.kind = "legacy", !.version = mark, !.graph = @ \cup {Direct}]

\* A direct write: excerpts are invalidated, the graph gains nodes and edges, and
\* a source that has a row is given a version of its own (_touch_legacy_source).
Touched(r, mark) ==
  LET t == [r EXCEPT !.chunks = {}, !.graph = @ \cup {Direct}]
  IN  IF r.kind = "missing" THEN t ELSE [t EXCEPT !.kind = "legacy", !.version = mark]

-----------------------------------------------------------------------------
Init ==
  /\ src = [s \in Sources |-> Missing]
  /\ receipt = [o \in Ops |-> 0]
  /\ left = [o \in Ops |-> CommandTTL]
  /\ new = Ops
  /\ at = [p \in Procs |-> Idle]
  /\ marks = 0
  /\ epoch = [s \in Sources |-> 0]
  /\ commits = [o \in Ops |-> 0]

Busy(p) == at[p].phase # "idle"
InFlight(o) == \E p \in Procs : Busy(p) /\ at[p].op = o

HasReceipt(o) == o # NoOp /\ receipt[o] > 0

MutantReceiptLife == CommandTTL
ReceiptLife == ReceiptTTL

MutantReceiptedUnlessUnchanged(p) ==
  IF at[p].op = NoOp \/ src[at[p].source].version = at[p].content THEN receipt
  ELSE [receipt EXCEPT ![at[p].op] = ReceiptLife]

\* _write_ingest_operation, in the publishing transaction.
Receipted(p) ==
  IF at[p].op = NoOp THEN receipt ELSE [receipt EXCEPT ![at[p].op] = ReceiptLife]
Counted(p) ==
  IF at[p].op = NoOp THEN commits ELSE [commits EXCEPT ![at[p].op] = @ + 1]

(***************************************************************************)
(* An attempt.                                                             *)
(***************************************************************************)

\* The receipt checks before fetching and before reading the source: an attempt
\* that finds one returns it.  A page may have changed since another attempt.
Begin(p, o, s, c) ==
  /\ ~Busy(p)
  /\ o # NoOp => o \notin new /\ left[o] > 0 /\ s = Target[o]
  /\ ~HasReceipt(o)
  /\ at' = [at EXCEPT ![p] = [phase |-> "checked", op |-> o, source |-> s, content |-> c,
                              expected |-> NoVersion, seen |-> 0]]
  /\ UNCHANGED <<src, receipt, left, new, marks, epoch, commits>>

\* get_source.  Without an operation id, the version it already has ends the
\* attempt; with one, only a receipt is left to publish.
ReadSource(p) ==
  LET s == at[p].source
  IN  /\ at[p].phase = "checked"
      /\ src' = [src EXCEPT ![s] = Registered(@)]
      /\ at' = [at EXCEPT ![p] =
           IF src[s].version = @.content /\ @.op = NoOp THEN Idle
           ELSE [@ EXCEPT !.phase = "extracting", !.expected = src[s].version,
                          !.seen = epoch[s]]]
      /\ UNCHANGED <<receipt, left, new, marks, epoch, commits>>

(***************************************************************************)
(* publish_source_graph, one transaction, once every planned excerpt has   *)
(* been extracted: the prior receipt, the unchanged version, the conflict  *)
(* and the write, in the order of the code's early returns.                *)
(***************************************************************************)
Publishing(p) == at[p].phase = "extracting"
Unchanged(p) == src[at[p].source].version = at[p].content
StillExpected(p) == src[at[p].source].version = at[p].expected

ReturnPrior(p) ==
  /\ Publishing(p) /\ HasReceipt(at[p].op)
  /\ at' = [at EXCEPT ![p] = Idle]
  /\ UNCHANGED <<src, receipt, left, new, marks, epoch, commits>>

NoteUnchanged(p) ==
  /\ Publishing(p) /\ ~HasReceipt(at[p].op) /\ Unchanged(p)
  /\ receipt' = Receipted(p)
  /\ commits' = Counted(p)
  /\ at' = [at EXCEPT ![p] = Idle]
  /\ UNCHANGED <<src, left, new, marks, epoch>>

Conflict(p) ==
  /\ Publishing(p) /\ ~HasReceipt(at[p].op) /\ ~Unchanged(p) /\ ~StillExpected(p)
  /\ at' = [at EXCEPT ![p] = Idle]
  /\ UNCHANGED <<src, receipt, left, new, marks, epoch, commits>>

Publish(p) ==
  /\ Publishing(p) /\ ~HasReceipt(at[p].op) /\ ~Unchanged(p) /\ StillExpected(p)
  /\ src' = [src EXCEPT ![at[p].source] = Published(@, at[p].content)]
  /\ receipt' = Receipted(p)
  /\ commits' = Counted(p)
  /\ at' = [at EXCEPT ![p] = Idle]
  /\ UNCHANGED <<left, new, marks, epoch>>

\* An excerpt fails, authority is revoked, the task is cancelled, the process
\* dies, or the transaction raises and rolls back: nothing was written.
Abandon(p) ==
  /\ Busy(p)
  /\ at' = [at EXCEPT ![p] = Idle]
  /\ UNCHANGED <<src, receipt, left, new, marks, epoch, commits>>

(***************************************************************************)
(* Everybody else.                                                         *)
(***************************************************************************)
Delete(s) ==
  /\ marks < MaxMarks
  /\ marks' = marks + 1
  /\ src' = [src EXCEPT ![s] = Tombstone(@, marks')]
  /\ epoch' = [epoch EXCEPT ![s] = @ + 1]
  /\ UNCHANGED <<receipt, left, new, at, commits>>

\* clear_graph: every entity and excerpt, and one tombstone version for all the
\* rows there are, placeholders included.
Clear ==
  /\ marks < MaxMarks
  /\ marks' = marks + 1
  /\ src' = [s \in Sources |-> IF src[s].kind = "missing" THEN Stripped(src[s])
                               ELSE Tombstone(src[s], marks')]
  /\ epoch' = [s \in Sources |-> epoch[s] + 1]
  /\ UNCHANGED <<receipt, left, new, at, commits>>

DirectWrite(s) ==
  /\ marks < MaxMarks
  /\ marks' = marks + 1
  /\ src' = [src EXCEPT ![s] = Touched(@, marks')]
  /\ epoch' = [epoch EXCEPT ![s] = @ + 1]
  /\ UNCHANGED <<receipt, left, new, at, commits>>

Submit(o) ==
  /\ o \in new
  /\ new' = new \ {o}
  /\ UNCHANGED <<src, receipt, left, at, marks, epoch, commits>>

Down(n) == IF n = 0 THEN 0 ELSE n - 1

\* Time passes for commands and receipts.  The queue cancels the attempts of an
\* expired command long before a receipt's horizon (its heartbeat, every few
\* seconds), so none of them is there when time moves on.
Tick ==
  /\ \A o \in Ops : left[o] = 0 => ~InFlight(o)
  /\ left' = [o \in Ops |-> IF o \in new THEN left[o] ELSE Down(left[o])]
  /\ receipt' = [o \in Ops |-> Down(receipt[o])]
  /\ UNCHANGED <<src, new, at, marks, epoch, commits>>

Step(p) ==
  \/ \E o \in Ops \cup {NoOp}, s \in Sources, c \in Contents : Begin(p, o, s, c)
  \/ ReadSource(p) \/ ReturnPrior(p) \/ NoteUnchanged(p) \/ Conflict(p) \/ Publish(p)
  \/ Abandon(p)

Next ==
  \/ \E p \in Procs : Step(p)
  \/ \E s \in Sources : Delete(s) \/ DirectWrite(s)
  \/ Clear
  \/ \E o \in Ops : Submit(o)
  \/ Tick

Spec == Init /\ [][Next]_vars

-----------------------------------------------------------------------------
(***************************************************************************)
(* Correctness.                                                            *)
(***************************************************************************)

\* Types, and what a row's version says of its kind.
KindOfVersion(r) ==
  /\ r.kind = "published" <=> r.version \in Contents
  /\ r.kind \in {"tombstone", "legacy"} <=> r.version \in 1..marks
TypeOK ==
  /\ src \in [Sources -> Row]
  /\ \A s \in Sources : KindOfVersion(src[s])
  /\ receipt \in [Ops -> 0..ReceiptTTL]
  /\ left \in [Ops -> 0..CommandTTL]
  /\ new \subseteq Ops
  /\ at \in [Procs -> Attempt \cup {Idle}]
  /\ marks \in 0..MaxMarks
  /\ epoch \in [Sources -> Nat]
  /\ commits \in [Ops -> Nat]

\* However often an operation is replayed, and although two of its attempts may
\* extract at the same time, it commits once: publish_source_graph rechecks the
\* receipt under the lock and a receipt outlives every replay of its command.
OperationCommitsOnce == \A o \in Ops : commits[o] <= 1

\* As long as a command may be attempted, what it committed can be found again:
\* receipts are written with the publication, also of an unchanged version, and
\* survive deletion and clear.
CommitLeavesReceipt ==
  \A o \in Ops : commits[o] > 0 /\ left[o] > 0 => receipt[o] > 0

\* "Source deletion, clear and version replacement remove chunks" and direct writes
\* invalidate them: the excerpts stored are those of the current version only.
ExcerptsOfCurrentVersion == \A s \in Sources : src[s].chunks \subseteq {src[s].version}

\* A published source's graph is that of its version alone, whatever versions and
\* direct writes it replaced; a tombstone has none.
GraphOfCurrentVersion ==
  \A s \in Sources : /\ src[s].kind = "published" => src[s].graph = {src[s].version}
                     /\ src[s].kind = "tombstone" => src[s].graph = {}

Publishes(p, s) == /\ at[p].phase = "extracting" /\ at[p].source = s
                   /\ at'[p] # at[p] /\ src'[s].version # src[s].version

\* "in-flight refreshes cannot resurrect removed data": a source that is absent,
\* deleted, cleared or directly written is replaced only by an extraction that
\* read it after the last of these (placeholders and unique tombstone versions).
NoResurrection ==
  [][\A p \in Procs, s \in Sources :
        Publishes(p, s) /\ src[s].kind # "published" => at[p].seen = epoch[s]]_vars

\* "Register missing identities so clear/delete can invalidate extraction that
\* started before the deletion" (get_source), for every publication.
DeletionInvalidatesExtraction ==
  [][\A p \in Procs, s \in Sources : Publishes(p, s) => at[p].seen = epoch[s]]_vars
=============================================================================
