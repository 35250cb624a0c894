----------------------- MODULE SourcePublicationProofs -----------------------
(***************************************************************************)
(* Theorems of SourcePublication for every number of sources, operations,  *)
(* attempts and invalidations.  The inductive invariant has three parts:   *)
(* what a source's row may look like, what an operation's receipt says of  *)
(* its command, and what an extraction under way may still expect.         *)
(***************************************************************************)
EXTENDS SourcePublication, TLAPS

\* A row whose uuids are among the first m drawn.
RowGood(r, m) ==
  /\ r \in Row
  /\ r.kind = "published" <=> r.version \in Contents
  /\ r.kind \in {"tombstone", "legacy"} <=> r.version \in Nat
  /\ r.version \in Nat => r.version \in 1..m
  /\ r.chunks \subseteq {r.version}
  /\ r.kind = "published" => r.graph = {r.version}
  /\ r.kind = "tombstone" => r.graph = {}

\* A commit's receipt outlives its command, or nobody can attempt it any more.
OpGood(o) ==
  /\ commits[o] <= 1
  /\ commits[o] > 0 => receipt[o] > left[o] \/ (left[o] = 0 /\ ~InFlight(o))
  /\ o \in new => commits[o] = 0 /\ ~InFlight(o)

\* An extraction that may still replace a removed source read it since.
AttemptGood(p) ==
  at[p].phase = "extracting" =>
    /\ src[at[p].source].kind # "missing"
    /\ at[p].expected \in Nat => at[p].expected <= marks
    /\ (/\ src[at[p].source].version = at[p].expected
        /\ src[at[p].source].kind # "published") => at[p].seen = epoch[at[p].source]

Types ==
  /\ src \in [Sources -> Row]
  /\ receipt \in [Ops -> 0..ReceiptTTL]
  /\ left \in [Ops -> 0..CommandTTL]
  /\ new \subseteq Ops
  /\ at \in [Procs -> Attempt \cup {Idle}]
  /\ marks \in 0..MaxMarks
  /\ epoch \in [Sources -> Nat]
  /\ commits \in [Ops -> Nat]

IInv ==
  /\ Types
  /\ \A s \in Sources : RowGood(src[s], marks)
  /\ \A o \in Ops : OpGood(o)
  /\ \A p \in Procs : AttemptGood(p)

-----------------------------------------------------------------------------
(***************************************************************************)
(* The helpers that rewrite a row.                                         *)
(***************************************************************************)

\* A row is the record of its four fields.
LEMMA RowFields ==
  ASSUME NEW r \in Row
  PROVE  r = [kind |-> r.kind, version |-> r.version, chunks |-> r.chunks, graph |-> r.graph]
BY DEF Row

\* Replacing the excerpts and the graph of a row, and nothing else.
LEMMA ContentReplaced ==
  ASSUME NEW r \in Row, NEW c, NEW g
  PROVE  [r EXCEPT !.chunks = c, !.graph = g]
           = [kind |-> r.kind, version |-> r.version, chunks |-> c, graph |-> g]
<1> DEFINE k == r.kind
           v == r.version
           h == r.graph
           y == [r EXCEPT !.chunks = c]
<1>1. r = [kind |-> k, version |-> v, chunks |-> r.chunks, graph |-> h]
  BY RowFields
<1> HIDE DEF k, v, h
<1>2. y = [kind |-> k, version |-> v, chunks |-> c, graph |-> h]
  BY <1>1
<1>3. [r EXCEPT !.chunks = c, !.graph = g] = [y EXCEPT !.graph = g]
  OBVIOUS
<1> HIDE DEF y
<1>4. [y EXCEPT !.graph = g] = [kind |-> k, version |-> v, chunks |-> c, graph |-> g]
  BY <1>2
<1> QED
  BY <1>3, <1>4 DEF k, v

\* What removing a source's graph makes of its row.
LEMMA StrippedFields ==
  ASSUME NEW r \in Row
  PROVE  Stripped(r) = [kind |-> r.kind, version |-> r.version, chunks |-> {}, graph |-> {}]
BY ContentReplaced DEF Stripped

\* Registering an identity leaves a good row, its version, and a row.
LEMMA RegisteredRow ==
  ASSUME NEW r, NEW m \in Nat, RowGood(r, m)
  PROVE  /\ RowGood(Registered(r), m)
         /\ Registered(r).kind # "missing"
         /\ Registered(r).version = r.version
         /\ Registered(r).kind = "published" <=> r.kind = "published"
<1>1. CASE r.kind = "missing"
  <2> DEFINE q == [r EXCEPT !.kind = "placeholder"]
  <2>1. q = [kind |-> "placeholder", version |-> r.version, chunks |-> r.chunks,
             graph |-> r.graph]
    BY DEF RowGood, Row
  <2>2. q \in Row
    BY <2>1 DEF RowGood, Row
  <2>3. Registered(r) = q
    BY <1>1 DEF Registered
  <2> QED
    BY <1>1, <2>1, <2>2, <2>3 DEF RowGood
<1>2. CASE r.kind # "missing"
  BY <1>2 DEF Registered
<1> QED
  BY <1>1, <1>2

\* A publication leaves exactly the new version's excerpts and graph.
LEMMA PublishedRow ==
  ASSUME NEW r, NEW m \in Nat, RowGood(r, m), NEW c \in Contents
  PROVE  /\ RowGood(Published(r, c), m)
         /\ Published(r, c).kind = "published"
<1> DEFINE q == [kind |-> "published", version |-> c, chunks |-> {c}, graph |-> {c}]
<1> DEFINE z == Stripped(r)
<1>0. z = [kind |-> r.kind, version |-> r.version, chunks |-> {}, graph |-> {}]
  BY StrippedFields DEF RowGood
<1>a. z.chunks \cup {c} = {c} /\ z.graph \cup {c} = {c}
  BY <1>0
<1>1. Published(r, c) = q
  <2>1. Published(r, c) = [z EXCEPT !.kind = "published", !.version = c,
                                    !.chunks = {c}, !.graph = {c}]
    BY <1>a DEF Published
  <2> QED
    BY <1>0, <2>1
<1>2. q \in Row
  BY DEF Row
<1>3. c \notin Nat
  BY VersionAssumption
<1> QED
  BY <1>1, <1>2, <1>3 DEF RowGood

\* A tombstone with a fresh uuid.
LEMMA TombstoneRow ==
  ASSUME NEW r, NEW m \in Nat, RowGood(r, m)
  PROVE  /\ RowGood(Tombstone(r, m + 1), m + 1)
         /\ Tombstone(r, m + 1).version = m + 1
         /\ Tombstone(r, m + 1).kind = "tombstone"
<1> DEFINE q == [kind |-> "tombstone", version |-> m + 1, chunks |-> {}, graph |-> {}]
<1> DEFINE z == Stripped(r)
           k == r.kind
           v == r.version
<1>0. z = [kind |-> k, version |-> v, chunks |-> {}, graph |-> {}]
  BY StrippedFields DEF RowGood
<1> HIDE DEF z, k, v
<1>1. Tombstone(r, m + 1) = q
  <2>1. Tombstone(r, m + 1) = [z EXCEPT !.kind = "tombstone", !.version = m + 1]
    BY DEF Tombstone, z
  <2> QED
    BY <1>0, <2>1
<1>2. q \in Row
  BY DEF Row
<1>3. m + 1 \notin Contents
  BY VersionAssumption
<1>4. m + 1 \in 1..(m + 1)
  OBVIOUS
<1> QED
  BY <1>1, <1>2, <1>3, <1>4 DEF RowGood

\* Drawing another uuid disturbs no row.
LEMMA OlderRow ==
  ASSUME NEW r, NEW m \in Nat, RowGood(r, m)
  PROVE  RowGood(r, m + 1)
<1>1. r.version \in 1..m => r.version \in 1..(m + 1)
  OBVIOUS
<1> QED
  BY <1>1 DEF RowGood

\* A direct write gives an existing row a fresh uuid and no excerpts.
LEMMA TouchedRow ==
  ASSUME NEW r, NEW m \in Nat, RowGood(r, m)
  PROVE  /\ RowGood(Touched(r, m + 1), m + 1)
         /\ r.kind # "missing" => /\ Touched(r, m + 1).version = m + 1
                                  /\ Touched(r, m + 1).kind = "legacy"
         /\ r.kind = "missing" => /\ Touched(r, m + 1).version = r.version
                                  /\ Touched(r, m + 1).kind = "missing"
<1> DEFINE g == r.graph \cup {Direct}
           t == [kind |-> r.kind, version |-> r.version, chunks |-> {}, graph |-> g]
           q == [kind |-> "legacy", version |-> m + 1, chunks |-> {}, graph |-> g]
<1>1. g \in SUBSET (Contents \cup {Direct})
  BY DEF RowGood, Row
<1>2. [r EXCEPT !.chunks = {}, !.graph = @ \cup {Direct}] = t
  BY ContentReplaced DEF RowGood
<1>3. CASE r.kind = "missing"
  <2>1. Touched(r, m + 1) = t
    BY <1>2, <1>3 DEF Touched
  <2>2. t \in Row
    BY <1>1 DEF RowGood, Row
  <2>3. RowGood(t, m)
    BY <1>3, <2>2 DEF RowGood
  <2>4. RowGood(t, m + 1)
    BY <2>3, OlderRow
  <2> QED
    BY <1>3, <2>1, <2>4
<1>4. CASE r.kind # "missing"
  <2>1. Touched(r, m + 1) = q
    BY <1>2, <1>4 DEF Touched
  <2>2. q \in Row
    BY <1>1 DEF Row
  <2>3. m + 1 \notin Contents
    BY VersionAssumption
  <2>4. m + 1 \in 1..(m + 1)
    OBVIOUS
  <2>5. RowGood(q, m + 1)
    BY <2>2, <2>3, <2>4 DEF RowGood
  <2> QED
    BY <1>4, <2>1, <2>5
<1> QED
  BY <1>3, <1>4

\* Clearing an identity that has no row leaves it without one.
LEMMA StrippedRow ==
  ASSUME NEW r, NEW m \in Nat, RowGood(r, m), r.kind = "missing"
  PROVE  /\ RowGood(Stripped(r), m)
         /\ Stripped(r).kind = "missing"
<1> DEFINE q == [kind |-> "missing", version |-> r.version, chunks |-> {}, graph |-> {}]
<1>1. Stripped(r) = q
  BY StrippedFields DEF RowGood
<1>2. q \in Row
  BY DEF RowGood, Row
<1> QED
  BY <1>1, <1>2 DEF RowGood

-----------------------------------------------------------------------------
\* The invariant holds before anything was submitted or read.
LEMMA InitInv == Init => IInv
<1> SUFFICES ASSUME Init PROVE IInv
  OBVIOUS
<1> USE DEF Init
<1>1. Missing \in Row
  BY DEF Missing, Row
<1>2. Types
  BY <1>1, HorizonAssumption DEF Types
<1>3. ASSUME NEW s \in Sources PROVE RowGood(src[s], marks)
  BY <1>1, VersionAssumption DEF RowGood, Missing
<1>4. ASSUME NEW o \in Ops PROVE OpGood(o)
  BY DEF OpGood, InFlight, Busy, Idle
<1>5. ASSUME NEW p \in Procs PROVE AttemptGood(p)
  BY DEF AttemptGood, Idle
<1> QED
  BY <1>2, <1>3, <1>4, <1>5 DEF IInv

-----------------------------------------------------------------------------
(***************************************************************************)
(* What one attempt's step does to the parts of the invariant.             *)
(***************************************************************************)

\* An attempt that is not idle is a record of type Attempt.
LEMMA BusyAttempt ==
  ASSUME Types, NEW p \in Procs, Busy(p)
  PROVE  at[p] \in Attempt
BY DEF Types, Busy, Idle

\* An attempt's step makes no operation in flight but its own.
LEMMA FlightStep ==
  ASSUME Types, NEW p \in Procs, NEW x, at' = [at EXCEPT ![p] = x],
         NEW o \in Ops, InFlight(o)'
  PROVE  InFlight(o) \/ (x.phase # "idle" /\ x.op = o)
BY DEF Types, InFlight, Busy

\* An attempt that ends puts no operation in flight.
LEMMA EndFlight ==
  ASSUME Types, NEW p \in Procs, at' = [at EXCEPT ![p] = Idle],
         NEW o \in Ops, InFlight(o)'
  PROVE  InFlight(o)
<1>1. Idle.phase = "idle"
  BY DEF Idle
<1> QED
  BY <1>1, FlightStep

\* An attempt that ends leaves the operations and the other extractions as they were.
LEMMA EndKeepsOps ==
  ASSUME IInv, NEW p \in Procs, at' = [at EXCEPT ![p] = Idle],
         UNCHANGED <<receipt, left, new, commits>>
  PROVE  \A o \in Ops : OpGood(o)'
<1>1. ASSUME NEW o \in Ops PROVE InFlight(o)' => InFlight(o)
  BY EndFlight DEF IInv
<1> QED
  BY <1>1 DEF IInv, OpGood

\* A commit of an attempt without a live receipt is its operation's first.
LEMMA FirstCommit ==
  ASSUME IInv, NEW p \in Procs, Busy(p), ~HasReceipt(at[p].op),
         receipt' = Receipted(p), commits' = Counted(p),
         at' = [at EXCEPT ![p] = Idle], UNCHANGED <<left, new>>
  PROVE  /\ \A o \in Ops : OpGood(o)'
         /\ receipt' \in [Ops -> 0..ReceiptTTL]
         /\ commits' \in [Ops -> Nat]
<1> USE DEF IInv
<1>1. at[p] \in Attempt
  BY BusyAttempt
<1>2. CASE at[p].op = NoOp
  <2>1. UNCHANGED <<receipt, commits>>
    BY <1>2 DEF Receipted, Counted
  <2> QED
    BY <2>1, EndKeepsOps DEF Types
<1>3. CASE at[p].op # NoOp
  <2> DEFINE a == at[p].op
  <2>1. a \in Ops
    BY <1>1, <1>3 DEF Attempt
  <2>2. receipt[a] = 0 /\ InFlight(a)
    BY <1>3, <2>1 DEF HasReceipt, InFlight, Types
  <2>3. commits[a] = 0 /\ a \notin new
    BY <2>1, <2>2 DEF OpGood, Types
  <2>4. /\ receipt' = [receipt EXCEPT ![a] = ReceiptTTL]
        /\ commits' = [commits EXCEPT ![a] = commits[a] + 1]
    BY <1>3 DEF Receipted, Counted, ReceiptLife
  <2>5. /\ receipt' \in [Ops -> 0..ReceiptTTL]
        /\ commits' \in [Ops -> Nat]
    BY <2>1, <2>4, HorizonAssumption DEF Types
  <2>6. ASSUME NEW o \in Ops PROVE OpGood(o)'
    <3>1. InFlight(o)' => InFlight(o)
      BY EndFlight
    <3>2. CASE o = a
      <4>1. commits'[o] = 1 /\ receipt'[o] = ReceiptTTL /\ left'[o] \in 0..CommandTTL
        BY <2>1, <2>3, <2>4, <3>2 DEF Types
      <4> QED
        BY <2>3, <3>2, <4>1, HorizonAssumption DEF OpGood
    <3>3. CASE o # a
      <4>1. commits'[o] = commits[o] /\ receipt'[o] = receipt[o]
        BY <2>4, <3>3 DEF Types
      <4> QED
        BY <3>1, <4>1 DEF OpGood
    <3> QED
      BY <3>2, <3>3
  <2> QED
    BY <2>5, <2>6
<1> QED
  BY <1>2, <1>3

\* A step of p that ends it and changes no source keeps every other extraction.
LEMMA EndKeepsAttempts ==
  ASSUME IInv, NEW p \in Procs, at' = [at EXCEPT ![p] = Idle],
         UNCHANGED <<src, marks, epoch>>
  PROVE  /\ \A q \in Procs : AttemptGood(q)'
         /\ \A s \in Sources : RowGood(src[s], marks)'
         /\ at' \in [Procs -> Attempt \cup {Idle}]
<1>1. ASSUME NEW q \in Procs PROVE AttemptGood(q)'
  <2>1. CASE q = p
    BY <2>1 DEF IInv, Types, AttemptGood, Idle
  <2>2. CASE q # p
    <3>1. at'[q] = at[q]
      BY <2>2 DEF IInv, Types
    <3> QED
      BY <3>1 DEF IInv, AttemptGood
  <2> QED
    BY <2>1, <2>2
<1> QED
  BY <1>1 DEF IInv, Types

-----------------------------------------------------------------------------
(***************************************************************************)
(* Every action keeps the invariant.                                       *)
(***************************************************************************)
LEMMA BeginInv ==
  ASSUME IInv, NEW p \in Procs, NEW o \in Ops \cup {NoOp}, NEW s \in Sources,
         NEW c \in Contents, Begin(p, o, s, c)
  PROVE  IInv'
<1> DEFINE x == [phase |-> "checked", op |-> o, source |-> s, content |-> c,
                 expected |-> NoVersion, seen |-> 0]
<1> USE DEF IInv, Begin
<1>1. x \in Attempt
  BY DEF Attempt
<1>2. at' = [at EXCEPT ![p] = x]
  OBVIOUS
<1>3. x.op = o /\ x.phase = "checked"
  OBVIOUS
<1> HIDE DEF x
<1>4. Types'
  BY <1>1, <1>2 DEF Types
<1>5. ASSUME NEW z \in Ops PROVE OpGood(z)'
  <2>1. InFlight(z)' => InFlight(z) \/ z = o
    BY <1>2, <1>3, FlightStep
  <2>2. CASE z = o
    <3>1. o # NoOp
      BY <2>2, OperationAssumption
    <3> QED
      BY <2>1, <2>2, <3>1 DEF OpGood, Types
  <2>3. CASE z # o
    BY <2>1, <2>3 DEF OpGood
  <2> QED
    BY <2>2, <2>3
<1>6. ASSUME NEW q \in Procs PROVE AttemptGood(q)'
  <2>1. CASE q = p
    BY <1>2, <1>3, <2>1 DEF AttemptGood, Types
  <2>2. CASE q # p
    <3>1. at'[q] = at[q]
      BY <1>2, <2>2 DEF Types
    <3> QED
      BY <3>1 DEF AttemptGood
  <2> QED
    BY <2>1, <2>2
<1>7. \A z \in Sources : RowGood(src[z], marks)'
  OBVIOUS
<1> QED
  BY <1>4, <1>5, <1>6, <1>7

LEMMA ReadSourceInv ==
  ASSUME IInv, NEW p \in Procs, ReadSource(p)
  PROVE  IInv'
<1> USE DEF IInv
<1> DEFINE s == at[p].source
           y == [at[p] EXCEPT !.phase = "extracting", !.expected = src[s].version,
                              !.seen = epoch[s]]
<1>1. Busy(p) /\ at[p] \in Attempt /\ s \in Sources
  <2>1. Busy(p)
    BY DEF ReadSource, Busy
  <2> QED
    BY <2>1, BusyAttempt DEF Attempt
<1>2. /\ RowGood(src[s], marks) /\ marks \in Nat
      /\ src[s].version \in Contents \cup Nat \cup {NoVersion} /\ epoch[s] \in Nat
  BY <1>1 DEF Types, RowGood, Row
<1>3. y \in Attempt
  BY <1>1, <1>2, Zenon DEF Attempt
<1>4. y.phase = "extracting" /\ y.op = at[p].op /\ y.source = s
      /\ y.expected = src[s].version /\ y.seen = epoch[s]
  BY <1>1 DEF Attempt
<1>5. /\ src' = [src EXCEPT ![s] = Registered(src[s])]
      /\ at' = [at EXCEPT ![p] = Idle] \/ at' = [at EXCEPT ![p] = y]
      /\ UNCHANGED <<receipt, left, new, marks, epoch, commits>>
  BY DEF ReadSource
<1> HIDE DEF y
<1>6. Registered(src[s]) \in Row
  BY <1>2, RegisteredRow DEF RowGood
<1>7. Types'
  BY <1>1, <1>3, <1>5, <1>6 DEF Types
<1>8. ASSUME NEW o \in Ops PROVE OpGood(o)'
  <2>1. InFlight(o)' => InFlight(o)
    <3>1. CASE at' = [at EXCEPT ![p] = Idle]
      BY <3>1, EndFlight
    <3>2. CASE at' = [at EXCEPT ![p] = y]
      BY <1>1, <1>4, <3>2, FlightStep DEF InFlight
    <3> QED
      BY <1>5, <3>1, <3>2
  <2> QED
    BY <1>5, <2>1 DEF OpGood
<1>9. ASSUME NEW z \in Sources
      PROVE  /\ RowGood(src[z], marks)'
             /\ src'[z].version = src[z].version
             /\ src'[z].kind = "published" <=> src[z].kind = "published"
             /\ src[z].kind # "missing" => src'[z].kind # "missing"
             /\ z = s => src'[z].kind # "missing"
  <2>1. CASE z = s
    <3>1. src'[z] = Registered(src[z])
      BY <1>5, <2>1 DEF Types
    <3> QED
      BY <1>2, <1>5, <2>1, <3>1, RegisteredRow
  <2>2. CASE z # s
    <3>1. src'[z] = src[z]
      BY <1>5, <2>2 DEF Types
    <3> QED
      BY <1>5, <2>2, <3>1
  <2> QED
    BY <2>1, <2>2
<1>10. ASSUME NEW q \in Procs PROVE AttemptGood(q)'
  <2>1. CASE at'[q] = at[q] /\ at[q].phase = "extracting"
    <3>1. at[q].source \in Sources
      BY <2>1, BusyAttempt DEF Busy, Attempt
    <3> QED
      BY <1>5, <1>9, <2>1, <3>1 DEF AttemptGood
  <2>2. CASE at'[q] = Idle \/ (at'[q] = at[q] /\ at[q].phase # "extracting")
    BY <2>2 DEF AttemptGood, Idle
  <2>3. CASE at'[q] = y
    <3>1. y.expected \in Nat => y.expected <= marks
      BY <1>2, <1>4 DEF RowGood
    <3> QED
      BY <1>1, <1>4, <1>5, <1>9, <2>3, <3>1 DEF AttemptGood
  <2> QED
    BY <1>5, <2>1, <2>2, <2>3 DEF Types
<1> QED
  BY <1>7, <1>8, <1>9, <1>10

\* The three outcomes that write no source.
LEMMA EndInv ==
  ASSUME IInv, NEW p \in Procs, ReturnPrior(p) \/ Conflict(p) \/ Abandon(p)
  PROVE  IInv'
<1>1. /\ at' = [at EXCEPT ![p] = Idle]
      /\ UNCHANGED <<src, receipt, left, new, marks, epoch, commits>>
  BY DEF ReturnPrior, Conflict, Abandon
<1>2. /\ \A o \in Ops : OpGood(o)'
      /\ \A q \in Procs : AttemptGood(q)'
      /\ \A s \in Sources : RowGood(src[s], marks)'
      /\ at' \in [Procs -> Attempt \cup {Idle}]
  BY <1>1, EndKeepsOps, EndKeepsAttempts
<1>3. Types'
  BY <1>1, <1>2 DEF IInv, Types
<1> QED
  BY <1>2, <1>3 DEF IInv

LEMMA NoteUnchangedInv ==
  ASSUME IInv, NEW p \in Procs, NoteUnchanged(p)
  PROVE  IInv'
<1>1. /\ Busy(p) /\ ~HasReceipt(at[p].op)
      /\ receipt' = Receipted(p) /\ commits' = Counted(p)
      /\ at' = [at EXCEPT ![p] = Idle]
      /\ UNCHANGED <<src, left, new, marks, epoch>>
  BY DEF NoteUnchanged, Publishing, Busy
<1>2. /\ \A o \in Ops : OpGood(o)'
      /\ receipt' \in [Ops -> 0..ReceiptTTL]
      /\ commits' \in [Ops -> Nat]
  BY <1>1, FirstCommit
<1>3. /\ \A q \in Procs : AttemptGood(q)'
      /\ \A s \in Sources : RowGood(src[s], marks)'
      /\ at' \in [Procs -> Attempt \cup {Idle}]
  BY <1>1, EndKeepsAttempts
<1>4. Types'
  BY <1>1, <1>2, <1>3 DEF IInv, Types
<1> QED
  BY <1>2, <1>3, <1>4 DEF IInv

LEMMA PublishInv ==
  ASSUME IInv, NEW p \in Procs, Publish(p)
  PROVE  IInv'
<1> USE DEF IInv
<1> DEFINE s == at[p].source
           c == at[p].content
<1>1. /\ Busy(p) /\ ~HasReceipt(at[p].op)
      /\ src' = [src EXCEPT ![s] = Published(src[s], c)]
      /\ receipt' = Receipted(p) /\ commits' = Counted(p)
      /\ at' = [at EXCEPT ![p] = Idle]
      /\ UNCHANGED <<left, new, marks, epoch>>
  BY DEF Publish, Publishing, Busy
<1>2. s \in Sources /\ c \in Contents /\ marks \in Nat
  BY <1>1, BusyAttempt DEF Attempt, Types
<1>3. /\ \A o \in Ops : OpGood(o)'
      /\ receipt' \in [Ops -> 0..ReceiptTTL]
      /\ commits' \in [Ops -> Nat]
  BY <1>1, FirstCommit
<1>4. /\ RowGood(Published(src[s], c), marks)
      /\ Published(src[s], c).kind = "published"
  BY <1>2, PublishedRow
<1>5. Types'
  BY <1>1, <1>2, <1>3, <1>4 DEF Types, RowGood
<1>6. ASSUME NEW z \in Sources
      PROVE  /\ RowGood(src[z], marks)'
             /\ src'[z] = src[z] \/ src'[z].kind = "published"
  BY <1>1, <1>4 DEF Types
<1>7. ASSUME NEW q \in Procs PROVE AttemptGood(q)'
  <2>1. CASE q = p
    BY <1>1, <2>1 DEF Types, AttemptGood, Idle
  <2>2. CASE q # p /\ at[q].phase = "extracting"
    <3>1. at'[q] = at[q] /\ at[q].source \in Sources
      BY <1>1, <2>2, BusyAttempt DEF Types, Busy, Attempt
    <3> QED
      BY <1>1, <1>6, <2>2, <3>1 DEF AttemptGood
  <2>3. CASE q # p /\ at[q].phase # "extracting"
    BY <1>1, <2>3 DEF Types, AttemptGood
  <2> QED
    BY <2>1, <2>2, <2>3
<1> QED
  BY <1>3, <1>5, <1>6, <1>7

\* A fresh uuid is expected by no extraction, so whoever draws one for the sources
\* it touches leaves the invariant.
LEMMA InvalidationInv ==
  ASSUME IInv, marks < MaxMarks, marks' = marks + 1,
         src' \in [Sources -> Row], epoch' \in [Sources -> Nat],
         UNCHANGED <<receipt, left, new, at, commits>>,
         \A s \in Sources :
           /\ RowGood(src'[s], marks + 1)
           /\ \/ src'[s] = src[s] /\ epoch'[s] = epoch[s]
              \/ src[s].kind # "missing" =>
                   src'[s].version = marks + 1 /\ src'[s].kind # "missing"
  PROVE  IInv'
<1> USE DEF IInv
<1>1. Types'
  BY HorizonAssumption DEF Types
<1>2. ASSUME NEW o \in Ops PROVE OpGood(o)'
  BY DEF OpGood, InFlight, Busy
<1>3. ASSUME NEW q \in Procs PROVE AttemptGood(q)'
  <2>1. CASE at[q].phase = "extracting"
    <3> DEFINE s == at[q].source
    <3>1. s \in Sources /\ marks \in Nat
      BY <2>1, BusyAttempt DEF Busy, Attempt, Types
    <3>2. src[s].kind # "missing" /\ (at[q].expected \in Nat => at[q].expected <= marks)
      BY <2>1 DEF AttemptGood
    <3>3. CASE src'[s] = src[s] /\ epoch'[s] = epoch[s]
      BY <2>1, <3>1, <3>2, <3>3 DEF AttemptGood
    <3>4. CASE src'[s].version = marks + 1 /\ src'[s].kind # "missing"
      <4>1. src'[s].version # at[q].expected
        BY <3>1, <3>2, <3>4
      <4> QED
        BY <2>1, <3>1, <3>2, <3>4, <4>1 DEF AttemptGood
    <3> QED
      BY <3>1, <3>2, <3>3, <3>4
  <2>2. CASE at[q].phase # "extracting"
    BY <2>2 DEF AttemptGood
  <2> QED
    BY <2>1, <2>2
<1>4. \A s \in Sources : RowGood(src[s], marks)'
  OBVIOUS
<1> QED
  BY <1>1, <1>2, <1>3, <1>4

LEMMA DeleteInv ==
  ASSUME IInv, NEW s \in Sources, Delete(s)
  PROVE  IInv'
<1> DEFINE t == Tombstone(src[s], marks + 1)
<1>1. /\ marks < MaxMarks /\ marks' = marks + 1
      /\ src' = [src EXCEPT ![s] = t]
      /\ epoch' = [epoch EXCEPT ![s] = epoch[s] + 1]
      /\ UNCHANGED <<receipt, left, new, at, commits>>
  BY DEF Delete
<1>2. marks \in Nat /\ \A z \in Sources : RowGood(src[z], marks)
  BY DEF IInv, Types
<1>3. RowGood(t, marks + 1) /\ t.version = marks + 1 /\ t.kind = "tombstone"
  BY <1>2, TombstoneRow
<1> HIDE DEF t
<1>4. src' \in [Sources -> Row] /\ epoch' \in [Sources -> Nat]
  BY <1>1, <1>3 DEF IInv, Types, RowGood
<1>5. ASSUME NEW z \in Sources
      PROVE  /\ RowGood(src'[z], marks + 1)
             /\ \/ src'[z] = src[z] /\ epoch'[z] = epoch[z]
                \/ src[z].kind # "missing" =>
                     src'[z].version = marks + 1 /\ src'[z].kind # "missing"
  <2>1. CASE z = s
    <3>1. src'[z] = t
      BY <1>1, <2>1 DEF IInv, Types
    <3> QED
      BY <1>3, <3>1
  <2>2. CASE z # s
    <3>1. src'[z] = src[z] /\ epoch'[z] = epoch[z]
      BY <1>1, <2>2 DEF IInv, Types
    <3> QED
      BY <1>2, <3>1, OlderRow
  <2> QED
    BY <2>1, <2>2
<1> QED
  BY <1>1, <1>4, <1>5, InvalidationInv

LEMMA DirectWriteInv ==
  ASSUME IInv, NEW s \in Sources, DirectWrite(s)
  PROVE  IInv'
<1> DEFINE t == Touched(src[s], marks + 1)
<1>1. /\ marks < MaxMarks /\ marks' = marks + 1
      /\ src' = [src EXCEPT ![s] = t]
      /\ epoch' = [epoch EXCEPT ![s] = epoch[s] + 1]
      /\ UNCHANGED <<receipt, left, new, at, commits>>
  BY DEF DirectWrite
<1>2. marks \in Nat /\ \A z \in Sources : RowGood(src[z], marks)
  BY DEF IInv, Types
<1>3. /\ RowGood(t, marks + 1)
      /\ src[s].kind # "missing" => t.version = marks + 1 /\ t.kind = "legacy"
  BY <1>2, TouchedRow
<1> HIDE DEF t
<1>4. src' \in [Sources -> Row] /\ epoch' \in [Sources -> Nat]
  BY <1>1, <1>3 DEF IInv, Types, RowGood
<1>5. ASSUME NEW z \in Sources
      PROVE  /\ RowGood(src'[z], marks + 1)
             /\ \/ src'[z] = src[z] /\ epoch'[z] = epoch[z]
                \/ src[z].kind # "missing" =>
                     src'[z].version = marks + 1 /\ src'[z].kind # "missing"
  <2>1. CASE z = s
    <3>1. src'[z] = t
      BY <1>1, <2>1 DEF IInv, Types
    <3> QED
      BY <1>3, <2>1, <3>1
  <2>2. CASE z # s
    <3>1. src'[z] = src[z] /\ epoch'[z] = epoch[z]
      BY <1>1, <2>2 DEF IInv, Types
    <3> QED
      BY <1>2, <3>1, OlderRow
  <2> QED
    BY <2>1, <2>2
<1> QED
  BY <1>1, <1>4, <1>5, InvalidationInv

LEMMA ClearInv ==
  ASSUME IInv, Clear
  PROVE  IInv'
<1>1. /\ marks < MaxMarks /\ marks' = marks + 1
      /\ src' = [s \in Sources |-> IF src[s].kind = "missing" THEN Stripped(src[s])
                                    ELSE Tombstone(src[s], marks + 1)]
      /\ epoch' = [s \in Sources |-> epoch[s] + 1]
      /\ UNCHANGED <<receipt, left, new, at, commits>>
  BY DEF Clear
<1>2. marks \in Nat /\ \A z \in Sources : RowGood(src[z], marks)
  BY DEF IInv, Types
<1>3. ASSUME NEW z \in Sources
      PROVE  /\ RowGood(src'[z], marks + 1)
             /\ src[z].kind # "missing" =>
                  src'[z].version = marks + 1 /\ src'[z].kind # "missing"
  <2>1. CASE src[z].kind = "missing"
    <3>1. src'[z] = Stripped(src[z])
      BY <1>1, <2>1
    <3>2. RowGood(src'[z], marks)
      BY <1>2, <2>1, <3>1, StrippedRow
    <3> QED
      BY <1>2, <2>1, <3>2, OlderRow
  <2>2. CASE src[z].kind # "missing"
    <3>1. src'[z] = Tombstone(src[z], marks + 1)
      BY <1>1, <2>2
    <3> QED
      BY <1>2, <3>1, TombstoneRow
  <2> QED
    BY <2>1, <2>2
<1>4. src' \in [Sources -> Row] /\ epoch' \in [Sources -> Nat]
  <2>1. \A z \in Sources : src'[z] \in Row
    BY <1>3 DEF RowGood
  <2>2. \A z \in Sources : epoch[z] + 1 \in Nat
    BY DEF IInv, Types
  <2> QED
    BY <1>1, <2>1, <2>2
<1> QED
  BY <1>1, <1>3, <1>4, InvalidationInv

LEMMA SubmitInv ==
  ASSUME IInv, NEW o \in Ops, Submit(o)
  PROVE  IInv'
BY DEF IInv, Submit, Types, RowGood, OpGood, InFlight, Busy, AttemptGood

\* A receipt that outlives its command by a tick still does after the tick; one
\* whose command expired is no longer asked for.
LEMMA TickInv ==
  ASSUME IInv, Tick
  PROVE  IInv'
<1> USE DEF IInv
<1>1. ASSUME NEW n \in Nat, NEW k \in Nat, n <= k PROVE Down(n) \in 0..k
  BY <1>1 DEF Down
<1>2. Types'
  BY <1>1, HorizonAssumption DEF Types, Tick
<1>3. ASSUME NEW o \in Ops PROVE OpGood(o)'
  <2>1. InFlight(o)' <=> InFlight(o)
    BY DEF Tick, InFlight, Busy
  <2>2. /\ new' = new /\ commits' = commits
        /\ left[o] = 0 => ~InFlight(o)
        /\ receipt[o] \in Nat /\ left[o] \in Nat
        /\ receipt'[o] = Down(receipt[o])
    BY DEF Tick, Types
  <2>3. CASE o \in new
    BY <2>1, <2>2, <2>3 DEF OpGood, Types
  <2>4. CASE o \notin new
    <3>1. left'[o] = Down(left[o])
      BY <2>4 DEF Tick
    <3>2. CASE left[o] = 0
      BY <2>1, <2>2, <2>4, <3>1, <3>2 DEF OpGood, Down
    <3>3. CASE left[o] > 0
      BY <2>1, <2>2, <2>4, <3>1, <3>3 DEF OpGood, Down
    <3> QED
      BY <2>2, <3>2, <3>3
  <2> QED
    BY <2>3, <2>4
<1>4. ASSUME NEW q \in Procs PROVE AttemptGood(q)'
  BY DEF Tick, AttemptGood
<1>5. \A s \in Sources : RowGood(src[s], marks)'
  BY DEF Tick
<1> QED
  BY <1>2, <1>3, <1>4, <1>5

LEMMA StepInv == IInv /\ [Next]_vars => IInv'
<1> SUFFICES ASSUME IInv, [Next]_vars PROVE IInv'
  OBVIOUS
<1>1. ASSUME NEW p \in Procs, Step(p) PROVE IInv'
  BY <1>1, BeginInv, ReadSourceInv, EndInv, NoteUnchangedInv, PublishInv DEF Step
<1>2. ASSUME NEW s \in Sources, Delete(s) \/ DirectWrite(s) PROVE IInv'
  BY <1>2, DeleteInv, DirectWriteInv
<1>3. CASE UNCHANGED vars
  BY <1>3 DEF vars, IInv, Types, RowGood, OpGood, InFlight, Busy, AttemptGood
<1> QED
  BY <1>1, <1>2, <1>3, ClearInv, SubmitInv, TickInv DEF Next

-----------------------------------------------------------------------------
(***************************************************************************)
(* Theorems.                                                               *)
(***************************************************************************)

\* The inductive invariant.
THEOREM PublicationInductive == Spec => []IInv
<1>1. Init => IInv
  BY InitInv
<1>2. IInv /\ [Next]_vars => IInv'
  BY StepInv
<1> QED
  BY <1>1, <1>2, PTL DEF Spec

\* Types, and a row's kind tells its kind of version.
THEOREM PublicationTypeCorrect == Spec => []TypeOK
<1>1. IInv => TypeOK
  <2> SUFFICES ASSUME IInv, NEW s \in Sources PROVE KindOfVersion(src[s])
    BY DEF IInv, Types, TypeOK
  <2>1. marks \in Nat /\ RowGood(src[s], marks)
    BY DEF IInv, Types
  <2> QED
    BY <2>1 DEF RowGood, KindOfVersion
<1> QED
  BY <1>1, PublicationInductive, PTL

\* A replayed operation commits once (publish_source_graph's recheck).
THEOREM CommitsOnce == Spec => []OperationCommitsOnce
<1>1. IInv => OperationCommitsOnce
  BY DEF IInv, OpGood, OperationCommitsOnce
<1> QED
  BY <1>1, PublicationInductive, PTL

\* A commit can be found as long as its command may be attempted.
THEOREM ReceiptsLast == Spec => []CommitLeavesReceipt
<1>1. IInv => CommitLeavesReceipt
  BY DEF IInv, Types, OpGood, CommitLeavesReceipt
<1> QED
  BY <1>1, PublicationInductive, PTL

\* No excerpt of an earlier version is stored.
THEOREM ExcerptsCurrent == Spec => []ExcerptsOfCurrentVersion
<1>1. IInv => ExcerptsOfCurrentVersion
  BY DEF IInv, RowGood, ExcerptsOfCurrentVersion
<1> QED
  BY <1>1, PublicationInductive, PTL

\* No assertion of an earlier version or direct write is kept under a published one.
THEOREM GraphCurrent == Spec => []GraphOfCurrentVersion
<1>1. IInv => GraphOfCurrentVersion
  BY DEF IInv, RowGood, GraphOfCurrentVersion
<1> QED
  BY <1>1, PublicationInductive, PTL

\* Removed sources are not resurrected by extractions that read them before.
THEOREM RemovalsStand == Spec => NoResurrection
<1> DEFINE Fresh ==
      \A p \in Procs, s \in Sources :
        Publishes(p, s) /\ src[s].kind # "published" => at[p].seen = epoch[s]
<1>1. ASSUME IInv, Next PROVE Fresh
  <2> SUFFICES ASSUME NEW p \in Procs, NEW s \in Sources, Publishes(p, s),
                      src[s].kind # "published"
               PROVE  at[p].seen = epoch[s]
    OBVIOUS
  <2>1. /\ at[p].phase = "extracting" /\ at[p].source = s
        /\ at'[p] # at[p] /\ src'[s].version # src[s].version
    BY DEF Publishes
  <2>2. PICK q \in Procs : Step(q)
    BY <1>1, <2>1 DEF Next, Delete, DirectWrite, Clear, Submit, Tick
  <2>3. q = p
    <3>1. \E x : at' = [at EXCEPT ![q] = x]
      BY <2>2 DEF Step, Begin, ReadSource, ReturnPrior, NoteUnchanged, Conflict, Publish,
                  Abandon
    <3> QED
      BY <1>1, <2>1, <3>1 DEF IInv, Types
  <2>4. Publish(p)
    BY <2>1, <2>2, <2>3 DEF Step, Begin, Busy, ReadSource, ReturnPrior, NoteUnchanged,
                            Conflict, Abandon
  <2> QED
    BY <1>1, <2>1, <2>4 DEF Publish, StillExpected, IInv, AttemptGood
<1>2. ASSUME IInv, [Next]_vars PROVE [Fresh]_vars
  BY <1>1, <1>2
<1> QED
  BY <1>2, PublicationInductive, PTL DEF Spec, NoResurrection
=============================================================================
