---------------------------- MODULE EntityGraph ----------------------------
(***************************************************************************)
(* The entity graph that published sources share (src/graph/neo4j_client). *)
(* Every write takes the graph lock in one transaction, so an operation is *)
(* one step; only an embedding is read in one transaction and stored in a  *)
(* later one.                                                              *)
(*                                                                         *)
(* An entity id names the source, the version and the local name it was    *)
(* extracted under (prefix_and_validate), so an id comes back only when a  *)
(* version does.  A version has one evidence chunk, <<source, version>>,   *)
(* that each of its entities cites, and each of them has a summary, known  *)
(* by the id it was extracted for.  A label never changes under its id,    *)
(* and the evidence of an edge, which leaves with the edge, is not kept.   *)
(***************************************************************************)
EXTENDS Naturals, FiniteSets

CONSTANTS
  Sources, Versions, Names,
  Extractable,     \* bound: the entities that versions may contain
  NoVersion,       \* no current version: never published, deleted or cleared
  Blank,           \* the empty summary
  NoVec,           \* no stored embedding
  MaxPublications, \* bound: publications in a behaviour
  MaxItems         \* bound: embeddings in flight

Ids == Sources \X Versions \X Names
Chunks == Sources \X Versions
Texts == Ids \cup {Blank}

ASSUME ExtractableAssumption == Extractable \subseteq Ids
ASSUME BoundsAssumption == MaxPublications \in Nat /\ MaxItems \in Nat
ASSUME SentinelsAssumption ==
  /\ NoVersion \notin Versions
  /\ Blank \notin Ids
  /\ NoVec \notin Texts

VARIABLES
  pub,      \* the current version of each source
  node,     \* the entities, by id
  edge,     \* the relations, each asserted by one source
  said,     \* what each source's current version asserted when it was published
  home,     \* the entity that stands for each id since the merges
  past,     \* the versions published so far
  recurred, \* a version has been published again
  count,    \* publications so far
  items     \* embeddings computed but not yet stored
vars == <<pub, node, edge, said, home, past, recurred, count, items>>
history == <<past, recurred, count>>

Entity == [docs : SUBSET Sources, ev : SUBSET Chunks, text : Texts, vec : Texts \cup {NoVec}]
Edge == [from : Ids, to : Ids, doc : Sources]
Assertion == [nodes : SUBSET Ids, edges : SUBSET (Ids \X Ids)]
Nothing == [nodes |-> {}, edges |-> {}]

Present == DOMAIN node
Touches(e, i) == i \in {e.from, e.to}

Init ==
  /\ pub = [s \in Sources |-> NoVersion]
  /\ node = [i \in {} |-> Blank]
  /\ edge = {}
  /\ said = [s \in Sources |-> Nothing]
  /\ home = [i \in Ids |-> i]
  /\ past = {} /\ recurred = FALSE /\ count = 0
  /\ items = {}

\* Definitions named Mutant... are not part of the model: each is the plausible
\* slip in the definition after it that one of the properties is shown to catch.

-----------------------------------------------------------------------------
(* Removing a source's share of the graph (_remove_source_graph). *)

\* The chunks stored for s, and the references to them, go first.
StoredChunks(s) == {<<s, pub[s]>>} \cap Chunks
\* Mutant: the summary stays when a source leaves.
MutantSummaryStays(n, s) == [n EXCEPT !.docs = @ \ {s}, !.vec = NoVec]
\* A member losing a source loses whatever may have come from it.
Forget(n, s) == [n EXCEPT !.docs = @ \ {s}, !.text = Blank, !.vec = NoVec]
\* Mutant: an entity that another source retains keeps its references.
MutantReferencesStay(s) ==
  [i \in Present |-> IF s \in node[i].docs THEN Forget(node[i], s) ELSE node[i]]
Stripped(s) ==
  [i \in Present |->
    LET n == [node[i] EXCEPT !.ev = @ \ StoredChunks(s)]
    IN  IF s \in n.docs THEN Forget(n, s) ELSE n]
OthersEdges(s) == {e \in edge : e.doc # s}
Ends(s) == UNION {{e.from, e.to} : e \in edge \ OthersEdges(s)}
\* Mutant: only the ends of deleted relations are looked at.
MutantOnlyEnds(s) ==
  {i \in Present :
    i \in Ends(s) /\ node[i].docs \subseteq {s} /\ \A e \in OthersEdges(s) : ~Touches(e, i)}
\* Members and ends of deleted edges that nothing holds any more.
Orphans(s) ==
  {i \in Present :
    /\ s \in node[i].docs \/ i \in Ends(s)
    /\ node[i].docs \subseteq {s}
    /\ \A e \in OthersEdges(s) : ~Touches(e, i)}
Kept(s) == [i \in Present \ Orphans(s) |-> Stripped(s)[i]]

Delete(s) ==
  /\ node' = Kept(s)
  /\ edge' = OthersEdges(s)
  /\ pub' = [pub EXCEPT ![s] = NoVersion]
  /\ said' = [said EXCEPT ![s] = Nothing]
  /\ UNCHANGED <<home, history, items>>

Clear ==
  /\ node' = [i \in {} |-> Blank]
  /\ edge' = {}
  /\ pub' = [s \in Sources |-> NoVersion]
  /\ said' = [s \in Sources |-> Nothing]
  /\ UNCHANGED <<home, history, items>>

-----------------------------------------------------------------------------
(* Publishing a version (publish_source_graph). *)

\* MERGE of an extracted entity: the fields extraction supplies are set, the memberships
\* united; an embedding that is there stays.
Published(i, old) ==
  LET s == i[1] c == <<i[1], i[2]>> IN
  IF i \in DOMAIN old
  THEN [old[i] EXCEPT !.text = i, !.ev = {c}, !.docs = @ \cup {s}]
  ELSE [docs |-> {s}, ev |-> {c}, text |-> i, vec |-> NoVec]
\* Bound: at most one relation, between two entities.
Relations(N) == {{}} \cup {{e} : e \in {p \in N \X N : p[1] # p[2]}}
\* N are the version's entities, E the relations between them.
Publish(s, v, N, E) ==
  /\ pub[s] # v
  /\ count < MaxPublications
  /\ node' = [i \in DOMAIN Kept(s) \cup N |->
                IF i \in N THEN Published(i, Kept(s)) ELSE Kept(s)[i]]
  /\ edge' = OthersEdges(s) \cup {[from |-> e[1], to |-> e[2], doc |-> s] : e \in E}
  /\ pub' = [pub EXCEPT ![s] = v]
  /\ said' = [said EXCEPT ![s] = [nodes |-> N, edges |-> E]]
  /\ home' = [i \in Ids |-> IF i \in N THEN i ELSE home[i]]
  /\ past' = past \cup {<<s, v>>}
  /\ recurred' = (recurred \/ <<s, v>> \in past)
  /\ count' = count + 1
  /\ UNCHANGED items

-----------------------------------------------------------------------------
(* Merging the entities D into c, one of them (merge_nodes). *)

\* Mutants: relations into duplicates are lost; relations out of them are left behind.
MutantIncomingLost(c, D) ==
  {e \in edge : e.to \notin D \ {c} /\ e.from \notin D \ {c}}
  \cup {[e EXCEPT !.from = c] : e \in {r \in edge : r.from \in D \ {c} /\ r.to \notin D}}
Repointed(c, D) ==
  LET dup == D \ {c} IN
  {e \in edge : {e.from, e.to} \cap dup = {}}
  \cup {[e EXCEPT !.from = c] : e \in {r \in edge : r.from \in dup /\ r.to \notin D}}
  \cup {[e EXCEPT !.to = c] : e \in {r \in edge : r.to \in dup /\ r.from \notin D}}
\* The longest summary: any of the summaries there are.
Summaries(D) ==
  LET some == {node[i].text : i \in D} \ {Blank} IN IF some = {} THEN {Blank} ELSE some
Absorbed(D, text) ==
  [docs |-> UNION {node[i].docs : i \in D}, ev |-> UNION {node[i].ev : i \in D},
   text |-> text, vec |-> NoVec]

Merge(c, D) ==
  /\ D \subseteq Present /\ c \in D /\ D # {c}
  /\ \E text \in Summaries(D) :
       node' = [i \in (Present \ D) \cup {c} |-> IF i = c THEN Absorbed(D, text) ELSE node[i]]
  /\ edge' = Repointed(c, D)
  /\ home' = [i \in Ids |-> IF home[i] \in D THEN c ELSE home[i]]
  /\ UNCHANGED <<pub, said, history, items>>

-----------------------------------------------------------------------------
(* Embeddings (_embed_source_nodes, merge_entities, reembed_graph): an entity is read, its
   text is embedded elsewhere, and the vector is stored if the text still stands. *)

EmbedRead(i) ==
  /\ i \in Present /\ Cardinality(items) < MaxItems
  /\ items' = items \cup {[id |-> i, text |-> node[i].text]}
  /\ UNCHANGED <<pub, node, edge, said, home, history>>

\* Mutant: the vector is stored without comparing the summary.
MutantUnguarded(it) == it.id \in Present
StillStands(it) == it.id \in Present /\ node[it.id].text = it.text
EmbedStore(it) ==
  /\ it \in items
  /\ node' = IF StillStands(it) THEN [node EXCEPT ![it.id].vec = it.text] ELSE node
  /\ items' = items \ {it}
  /\ UNCHANGED <<pub, edge, said, home, history>>

\* The provider or the process fails, or the embedding space is not active.
EmbedLost(it) ==
  /\ it \in items
  /\ items' = items \ {it}
  /\ UNCHANGED <<pub, node, edge, said, home, history>>

-----------------------------------------------------------------------------
Next ==
  \/ \E s \in Sources, v \in Versions :
       \E N \in (SUBSET (({s} \X {v} \X Names) \cap Extractable)) \ {{}} :
         \E E \in Relations(N) : Publish(s, v, N, E)
  \/ \E s \in Sources : Delete(s)
  \/ Clear
  \/ \E D \in SUBSET Present : \E c \in D : Merge(c, D)
  \/ \E i \in Present : EmbedRead(i)
  \/ \E it \in items : EmbedStore(it) \/ EmbedLost(it)

Spec == Init /\ [][Next]_vars

-----------------------------------------------------------------------------
TypeOK ==
  /\ pub \in [Sources -> Versions \cup {NoVersion}]
  /\ Present \subseteq Ids /\ \A i \in Present : node[i] \in Entity
  /\ edge \subseteq Edge /\ \A e \in edge : {e.from, e.to} \subseteq Present
  /\ said \in [Sources -> Assertion]
  /\ home \in [Ids -> Ids]
  /\ past \subseteq Chunks /\ recurred \in BOOLEAN /\ count \in 0..MaxPublications
  /\ items \subseteq [id : Ids, text : Texts]

\* No entity cites a chunk that is gone: evidence outlives neither its version nor a
\* merge's union of it (_invalidate_source_evidence).
EvidenceIsCurrent ==
  \A i \in Present : \A c \in node[i].ev : pub[c[1]] = c[2]

\* Every entity is held by a source that is still published, and every relation joins two
\* entities of the source that asserts it: no orphan survives a removal after merges.
NothingOrphaned ==
  /\ \A i \in Present : node[i].docs # {} /\ \A s \in node[i].docs : pub[s] # NoVersion
  /\ \A e \in edge : e.doc \in node[e.from].docs \cap node[e.to].docs

\* Whatever was merged, deleted or refreshed since, each entity and each relation that a
\* current version asserted is still there under the entity that stands for it, unless a
\* merge folded both ends into one.
AssertionsSurvive ==
  \A s \in Sources :
    /\ \A i \in said[s].nodes : home[i] \in Present /\ s \in node[home[i]].docs
    /\ \A e \in said[s].edges : home[e[1]] # home[e[2]] =>
         [from |-> home[e[1]], to |-> home[e[2]], doc |-> s] \in edge

\* A summary was extracted from a current version of a source that holds the entity.
SummaryIsCurrent ==
  \A i \in Present : node[i].text # Blank =>
    LET t == node[i].text IN t[1] \in node[i].docs /\ pub[t[1]] = t[2]

\* An entity cites evidence of each source that holds it.
EvidenceOfEveryMember ==
  \A i \in Present : \A s \in node[i].docs : <<s, pub[s]>> \in node[i].ev

\* As long as no version comes back, evidence covers every holder, and a stored embedding
\* is of the summary beside it, however late it was stored.
SoundWithoutRecurrence ==
  ~recurred => /\ EvidenceOfEveryMember
               /\ \A i \in Present : node[i].vec \in {NoVec, node[i].text}
=============================================================================
