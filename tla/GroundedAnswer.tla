---------------------------- MODULE GroundedAnswer -----------------------------
(***************************************************************************)
(* Answering a question from original excerpts: GraphRAGEngine.query       *)
(* (src/graph/graphrag.py), the evidence reads of Neo4jClient, the         *)
(* validation in src/graph/citations.py and answer_with_citations          *)
(* (src/ingestion/entity_parser.py).                                       *)
(*                                                                         *)
(* A question reads excerpts in two transactions, waits minutes for the    *)
(* model, and reads them all again before it answers.  Each read takes the *)
(* graph lock, so it sees one state of the graph; between the reads the    *)
(* sources are refreshed, deleted, cleared and ingested again.             *)
(*                                                                         *)
(* An excerpt is its source, its version and its place: ids are digests of *)
(* these and of the text, so equal ids have equal texts.  Which excerpts   *)
(* match and how they rank is open.                                        *)
(***************************************************************************)
EXTENDS Naturals, FiniteSets, FiniteSetsExt

CONSTANTS
  DocSources,   \* sources
  DocVersions,  \* content versions of a source
  NoDocument,   \* a source with nothing published
  Excerpts,     \* the places of a version's excerpts
  AnySource,    \* a question that names no source
  Invented,     \* an excerpt id the model makes up
  MaxSupplied,  \* MAX_ANSWER_CHUNKS
  MaxChanges    \* bound: changes of the graph in a behaviour

ASSUME GroundedAssumption ==
  /\ NoDocument \notin DocVersions /\ AnySource \notin DocSources
  /\ MaxSupplied \in Nat \ {0} /\ MaxChanges \in Nat

VARIABLES
  published,  \* per source: its current version
  changes,    \* changes so far
  asked       \* the question
answerVars == <<published, changes, asked>>

Excerpt == [source : DocSources, version : DocVersions, place : Excerpts]
CurrentIn(graph) == {e \in Excerpt : graph[e.source] = e.version}

Reply == [insufficient : BOOLEAN, cites : SUBSET (Excerpt \cup {Invented}),
          conflict : SUBSET (Excerpt \cup {Invented})]
NoReply == [insufficient |-> TRUE, cites |-> {}, conflict |-> {}]

Question == [step : {"new", "selected", "read", "generating", "generated", "over"},
             filter : DocSources \cup {AnySource}, entities : BOOLEAN, context : BOOLEAN,
             lexical : SUBSET Excerpt, supplied : SUBSET Excerpt, reply : Reply,
             status : {"open", "no_context", "insufficient_evidence", "llm_unavailable",
                       "answered", "failed"},
             vouched : BOOLEAN, withdrawn : SUBSET Excerpt]

InitAnswer ==
  /\ published = [s \in DocSources |-> NoDocument]
  /\ changes = 0
  /\ asked \in {[step |-> "new", filter |-> f, entities |-> FALSE, context |-> FALSE,
                 lexical |-> {}, supplied |-> {}, reply |-> NoReply, status |-> "open",
                 vouched |-> FALSE, withdrawn |-> {}] : f \in DocSources \cup {AnySource}}

-----------------------------------------------------------------------------
MutantMatching(q) == CurrentIn(published)
\* What a read may return: current excerpts, of the named source if there is one.
Matching(q) == {e \in CurrentIn(published) : q.filter \in {AnySource, e.source}}

\* bounded_evidence: the best few of what the two reads found.
Supply(found) == kSubset(Min({MaxSupplied, Cardinality(found)}), found)

MutantValid(r, sent) == (r.cites = {} => r.insufficient)
\* validate_answer: citations are supplied excerpts, an answer has one, and a
\* disagreement is between two.
Valid(r, sent) ==
  /\ r.cites \cup r.conflict \subseteq sent
  /\ r.cites = {} => r.insufficient
  /\ Cardinality(r.conflict) # 1

MutantEvidenceUnchanged(q) == q.reply.cites \subseteq CurrentIn(published)
\* evidence_unchanged, on the rows of validate_evidence_ids: all that was supplied.
EvidenceUnchanged(q) == q.supplied \subseteq CurrentIn(published)

Over(q, status) == [q EXCEPT !.step = "over", !.status = status]

-----------------------------------------------------------------------------
(***************************************************************************)
(* The question.                                                           *)
(***************************************************************************)
\* Vector search (whose failure is only logged), keyword search and traversal pick
\* entities and their contexts; a question that names a source skips them.
SelectEntities ==
  /\ asked.step = "new"
  /\ \E some, context \in BOOLEAN :
       /\ context => some
       /\ some => asked.filter = AnySource
       /\ asked' = [asked EXCEPT !.step = "selected", !.entities = some, !.context = context]
  /\ UNCHANGED <<published, changes>>

\* The index, or the scan of recent excerpts when the index fails.
ReadLexical ==
  /\ asked.step = "selected"
  /\ \E found \in SUBSET Matching(asked) :
       asked' = [asked EXCEPT !.step = "read", !.lexical = found]
  /\ UNCHANGED <<published, changes>>

\* The excerpts of the selected entities; then the ranks are fused and cut.
ReadLinked ==
  /\ asked.step = "read"
  /\ \E found \in IF asked.entities THEN SUBSET Matching(asked) ELSE {{}} :
     \E sent \in Supply(asked.lexical \cup found) :
       asked' = IF sent # {}
                THEN [asked EXCEPT !.step = "generating", !.lexical = {}, !.supplied = sent,
                                   !.withdrawn = sent \ CurrentIn(published)]
                ELSE Over(asked, IF asked.context THEN "insufficient_evidence"
                                 ELSE "no_context")
  /\ UNCHANGED <<published, changes>>

\* answer_with_citations: what the model returns and does not pass the validation
\* is an insufficient answer without citations.
Generate ==
  /\ asked.step = "generating"
  /\ \/ asked' = Over(asked, "llm_unavailable")
     \/ \E cites, conflict \in SUBSET (asked.supplied \cup {Invented}), lacking \in BOOLEAN :
          LET r == [insufficient |-> lacking, cites |-> cites, conflict |-> conflict]
          IN asked' = [asked EXCEPT !.step = "generated",
                         !.reply = IF Valid(r, asked.supplied) THEN r ELSE NoReply,
                         !.vouched = asked.supplied \subseteq CurrentIn(published)]
  /\ UNCHANGED <<published, changes>>

AnswerQuestion ==
  /\ asked.step = "generated"
  /\ asked' = IF EvidenceUnchanged(asked) /\ ~asked.reply.insufficient
              THEN Over(asked, "answered") ELSE Over(asked, "insufficient_evidence")
  /\ UNCHANGED <<published, changes>>

\* A search, an excerpt read or the validation read raises: the route answers 500.
Fail ==
  /\ asked.step \in {"new", "selected", "read", "generated"}
  /\ asked' = Over(asked, "failed")
  /\ UNCHANGED <<published, changes>>

-----------------------------------------------------------------------------
(***************************************************************************)
(* The graph: publication, deletion and clear, each one transaction.  What *)
(* happens to it once the question is over is of no interest here.         *)
(***************************************************************************)
GraphBecomes(graph) ==
  /\ asked.step # "over"
  /\ changes < MaxChanges
  /\ changes' = changes + 1
  /\ graph # published
  /\ published' = graph
  /\ asked' = [asked EXCEPT !.vouched = @ \/ (asked.step = "generated"
                                              /\ asked.supplied \subseteq CurrentIn(graph)),
                            !.withdrawn = @ \cup (asked.supplied \ CurrentIn(graph))]

PublishVersion(s, v) == GraphBecomes([published EXCEPT ![s] = v])
DeleteDocument(s) == GraphBecomes([published EXCEPT ![s] = NoDocument])
ClearGraph == GraphBecomes([s \in DocSources |-> NoDocument])

NextAnswer ==
  \/ SelectEntities
  \/ ReadLexical
  \/ ReadLinked
  \/ Generate
  \/ AnswerQuestion
  \/ Fail
  \/ \E s \in DocSources, v \in DocVersions : PublishVersion(s, v)
  \/ \E s \in DocSources : DeleteDocument(s)
  \/ ClearGraph

AnswerSpec == InitAnswer /\ [][NextAnswer]_answerVars

-----------------------------------------------------------------------------
AnswerTypeOK ==
  /\ published \in [DocSources -> DocVersions \cup {NoDocument}]
  /\ changes \in 0..MaxChanges
  /\ asked \in Question

\* An answer rests only on excerpts that were all current together at one moment
\* after the model had written it: never on two versions of a source, which two
\* reads around a refresh may have found, nor beside an excerpt deleted meanwhile
\* that it was shown but does not cite.  It cites some of what was supplied and
\* nothing else, all of it of the source the question named.
AnswerRestsOnOneGraph ==
  asked.status = "answered" =>
    /\ asked.vouched
    /\ \A d, e \in asked.supplied : d.source = e.source => d.version = e.version
    /\ asked.reply.cites # {}
    /\ asked.reply.cites \cup asked.reply.conflict \subseteq asked.supplied
    /\ \A e \in asked.supplied : asked.filter \in {AnySource, e.source}

\* And an answer is withheld for its evidence only when an excerpt it was shown
\* really left the graph, be it for a moment, since it was supplied.
WithheldForCause ==
  asked.status = "insufficient_evidence" /\ ~asked.reply.insufficient
    => asked.withdrawn # {}

AnswersGrounded == AnswerTypeOK /\ AnswerRestsOnOneGraph /\ WithheldForCause
=============================================================================
