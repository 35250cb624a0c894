---------------------------- MODULE Investigations -----------------------------
(***************************************************************************)
(* Saved investigations: the store with its revisions and its cap          *)
(* (src/agent/investigations.py), and the route that reads an              *)
(* investigation, checks its notes against the graph one at a time and     *)
(* only then saves it (src/api/investigation_routes.py).  Several pages    *)
(* edit the same investigation while sources are refreshed and deleted.    *)
(*                                                                         *)
(* A note is the evidence it is about: an evidence id is a digest of its   *)
(* source, version, place and text, so the id fixes what a note records of *)
(* it.  Titles, queries, note texts and times are left out, and so are the *)
(* reads (list, compare, browse, the `stale` flag), which keep no state.   *)
(***************************************************************************)
EXTENDS Naturals, FiniteSets

CONSTANTS
  Editors,      \* pages and clients
  MaxCreated,   \* bound: investigations created in a run
  Evidence,     \* evidence ids
  MaxViews,     \* the store's cap (50)
  MaxRevision   \* bound: saves of one investigation

ASSUME InvestigationsAssumption ==
  /\ MaxCreated \in Nat /\ MaxViews \in Nat \ {0} /\ MaxRevision \in Nat \ {0}

VARIABLES
  view,     \* the investigations
  editor,   \* what each page has loaded and how far its save has come
  current,  \* the evidence get_evidence finds: the chunks of current versions
  vouched   \* history: <<view, evidence>> found current while saving that view
viewVars == <<view, editor, current, vouched>>

\* An id is a fresh uuid: never used twice.
Views == 1..MaxCreated
NoView == 0
ViewRecord == [revision : 0..MaxRevision, notes : SUBSET Evidence,
               at : {"new", "stored", "deleted"}]
Stored == {v \in Views : view[v].at = "stored"}

\* `seen` is what the page shows; `body` what it sends; `old` what the route read.
EditorRecord == [at : {"idle", "open", "reading", "checking"},
  view : Views \cup {NoView}, creates : BOOLEAN,
  seen : ViewRecord, body : SUBSET Evidence, old : ViewRecord,
  left : SUBSET Evidence]
Absent == [revision |-> 0, notes |-> {}, at |-> "new"]
NoEditor == [at |-> "idle", view |-> NoView, creates |-> FALSE, seen |-> Absent,
             body |-> {}, old |-> Absent, left |-> {}]

InitViews ==
  /\ view = [v \in Views |-> Absent]
  /\ editor = [e \in Editors |-> NoEditor]
  /\ current = Evidence
  /\ vouched = {}

-----------------------------------------------------------------------------
\* A page loads an investigation.
OpenView(e, v) ==
  /\ editor[e].at = "idle" /\ v \in Stored
  /\ editor' = [editor EXCEPT ![e] = [NoEditor EXCEPT !.at = "open", !.view = v,
                                                      !.seen = view[v]]]
  /\ UNCHANGED <<view, current, vouched>>

\* PUT of the loaded investigation, with the revision the page shows.
SubmitView(e, body) ==
  /\ editor[e].at = "open" /\ editor[e].seen.revision < MaxRevision
  /\ editor' = [editor EXCEPT ![e].at = "reading", ![e].body = body]
  /\ UNCHANGED <<view, current, vouched>>

\* POST of a new one: there is nothing to read.
CreateView(e, v, body) ==
  /\ editor[e].at = "idle" /\ view[v].at = "new"
  /\ \A o \in Editors : editor[o].view # v
  /\ editor' = [editor EXCEPT ![e] =
       [NoEditor EXCEPT !.at = "checking", !.view = v, !.creates = TRUE,
                        !.body = body, !.left = body]]
  /\ UNCHANGED <<view, current, vouched>>

\* _save reads the investigation; without one it answers 404.
ReadOld(e) ==
  /\ editor[e].at = "reading"
  /\ LET v == editor[e].view
     IN editor' = [editor EXCEPT ![e] =
          IF v \in Stored
          THEN [@ EXCEPT !.at = "checking", !.old = view[v], !.left = editor[e].body]
          ELSE NoEditor]
  /\ UNCHANGED <<view, current, vouched>>

MutantMayKeep(e, x) == TRUE
\* _validated_notes: a note the investigation already had stays, though its
\* evidence may be gone; a new one needs current evidence.
MayKeep(e, x) == x \in current \/ x \in editor[e].old.notes

\* One get_evidence.  A note that may not be kept refuses the whole save (409).
CheckNote(e, x) ==
  /\ editor[e].at = "checking" /\ x \in editor[e].left
  /\ editor' = [editor EXCEPT ![e] =
       IF MayKeep(e, x) THEN [@ EXCEPT !.left = editor[e].left \ {x}] ELSE NoEditor]
  /\ vouched' = IF x \in current THEN vouched \cup {<<editor[e].view, x>>} ELSE vouched
  /\ UNCHANGED <<view, current>>

MutantUpdated(e) ==
  LET r == editor[e] IN
  IF r.creates
  THEN IF Cardinality(Stored) >= MaxViews THEN view[r.view]
       ELSE [revision |-> 1, notes |-> r.body, at |-> "stored"]
  ELSE IF r.view \notin Stored THEN view[r.view]
  ELSE [revision |-> r.old.revision + 1, notes |-> r.body, at |-> "stored"]
\* updated(): the cap for a new investigation, the revision for an old one.  The
\* result is the stored record when the save is refused.
Updated(e) ==
  LET r == editor[e] IN
  IF r.creates
  THEN IF Cardinality(Stored) >= MaxViews THEN view[r.view]
       ELSE [revision |-> 1, notes |-> r.body, at |-> "stored"]
  ELSE IF r.view \notin Stored \/ view[r.view].revision # r.seen.revision THEN view[r.view]
  ELSE [revision |-> r.seen.revision + 1, notes |-> r.body, at |-> "stored"]

\* The store's transaction, or its step under the lock.
SaveView(e) ==
  /\ editor[e].at = "checking" /\ editor[e].left = {}
  /\ view' = [view EXCEPT ![editor[e].view] = Updated(e)]
  /\ editor' = [editor EXCEPT ![e] = NoEditor]
  /\ UNCHANGED <<current, vouched>>

DeleteView(v) ==
  /\ v \in Stored
  /\ view' = [view EXCEPT ![v] = [Absent EXCEPT !.at = "deleted"]]
  /\ UNCHANGED <<editor, current, vouched>>

\* A refresh, a deletion or a new ingestion changes which evidence is current.
TurnEvidence(x) ==
  /\ current' = IF x \in current THEN current \ {x} ELSE current \cup {x}
  /\ UNCHANGED <<view, editor, vouched>>

NextViews ==
  \/ \E e \in Editors, v \in Views : OpenView(e, v)
  \/ \E e \in Editors, body \in SUBSET Evidence : SubmitView(e, body)
  \/ \E e \in Editors, v \in Views, body \in SUBSET Evidence : CreateView(e, v, body)
  \/ \E e \in Editors : ReadOld(e) \/ SaveView(e)
  \/ \E e \in Editors, x \in Evidence : CheckNote(e, x)
  \/ \E v \in Views : DeleteView(v)
  \/ \E x \in Evidence : TurnEvidence(x)

ViewsSpec == InitViews /\ [][NextViews]_viewVars

-----------------------------------------------------------------------------
ViewsTypeOK ==
  /\ view \in [Views -> ViewRecord] /\ editor \in [Editors -> EditorRecord]
  /\ current \subseteq Evidence /\ vouched \subseteq Views \X Evidence

\* A save replaces exactly what its page had loaded, so nobody's change is lost,
\* and what the notes were checked against is that same revision, although it was
\* read in between; a deleted investigation is not brought back by a late save.
NoLostUpdate ==
  \A v \in Views : view'[v] # view[v] =>
    \/ view[v].at = "new" /\ view'[v].revision = 1
    \/ view'[v].at = "deleted"
    \/ \E e \in Editors : /\ editor[e].view = v /\ editor'[e] = NoEditor
                          /\ editor[e].seen = view[v] /\ editor[e].old = view[v]

\* Every note is about evidence that was current while that investigation was being
\* saved, the saves it has survived since included; and the cap holds for saves
\* that check their notes at the same time.
NotesVouchedFor ==
  /\ \A v \in Stored, x \in Evidence : x \in view[v].notes => <<v, x>> \in vouched
  /\ Cardinality(Stored) <= MaxViews

\* After every step of an investigation.
InvestigationsKept == [][ViewsTypeOK' /\ NotesVouchedFor' /\ NoLostUpdate]_viewVars
=============================================================================
