----------------------------- MODULE ServiceProofs -----------------------------
(***************************************************************************)
(* What five small services promise, for every value of their bounds: no   *)
(* saved investigation loses a change or keeps a note nobody vouched for,  *)
(* no window of the limits lets more requests through than it may, no      *)
(* request is accepted on a session that was good at no instant of it, no  *)
(* workspace is closed under a request that uses it, and a connection that *)
(* stays open was let in.                                                  *)
(***************************************************************************)
EXTENDS Investigations, RequestLimits, Sessions, WorkspaceRuntime, LiveConnections,
        FiniteSetTheorems, FunctionTheorems, SequenceTheorems, WellFoundedInduction, TLAPS

\* A set of numbers has a least one.
LEMMA Least ==
  ASSUME NEW S \in SUBSET Nat, S # {}
  PROVE  \E m \in S : \A n \in S : m <= n
<1>. DEFINE R == {ss \in Nat \X Nat : ss[1] < ss[2]}
<1>1. IsWellFoundedOn(R, Nat)
  BY NatLessThanWellFounded DEF OpToRel
<1>2. PICK m \in S : \A n \in S : <<n, m>> \notin R
  <2>. HIDE DEF R
  <2>. QED
    BY <1>1, WFMin
<1>3. ASSUME NEW n \in S PROVE m <= n
  <2>1. <<n, m>> \notin R
    BY <1>2
  <2>2. ~(n < m)
    BY <2>1
  <2>. QED
    BY <2>2
<1>. QED
  BY <1>3

-----------------------------------------------------------------------------
(***************************************************************************)
(* Investigations.  A revision identifies a record while the record is     *)
(* stored, so a page that saves with the stored revision has seen, and its *)
(* notes were checked against, what is stored.                             *)
(***************************************************************************)
\* A copy of a stored record, now or of an earlier revision of it.
CopyOf(s, r) ==
  /\ s.at = "stored"
  /\ r.at \in {"stored", "deleted"}
  /\ r.at = "stored" => s.revision < r.revision \/ s = r

EditorOK(e) ==
  LET r == editor[e] IN
  /\ r.at = "idle" => r = NoEditor
  /\ r.at # "idle" => r.view \in Views
  /\ r.at # "idle" /\ ~r.creates => CopyOf(r.seen, view[r.view])
  /\ r.at \in {"open", "reading"} => ~r.creates
  /\ r.at \in {"reading", "checking"} /\ ~r.creates => r.seen.revision < MaxRevision
  /\ r.at = "checking" /\ ~r.creates =>
       /\ CopyOf(r.old, view[r.view])
       /\ r.seen.revision < r.old.revision \/ r.seen = r.old
       /\ \A x \in r.old.notes : <<r.view, x>> \in vouched
  /\ r.at = "checking" /\ r.creates => r.old = Absent /\ view[r.view].at = "new"
  /\ r.at = "checking" => \A x \in r.body : x \in r.left \/ <<r.view, x>> \in vouched

\* The id of a new investigation is its creator's alone.
Creators ==
  \A e, o \in Editors : /\ e # o /\ editor[e].at # "idle" /\ editor[e].creates
                        => editor[o].view # editor[e].view

ViewInv == ViewsTypeOK /\ NotesVouchedFor /\ Creators /\ \A e \in Editors : EditorOK(e)

-----------------------------------------------------------------------------
LEMMA Records ==
  /\ Absent \in ViewRecord /\ NoEditor \in EditorRecord
  /\ Absent.at = "new" /\ Absent.notes = {} /\ Absent.revision = 0
  /\ NoEditor.at = "idle" /\ NoEditor.creates = FALSE /\ NoEditor.view = NoView
  /\ NoView \notin Views
BY InvestigationsAssumption
   DEF Absent, NoEditor, ViewRecord, EditorRecord, NoView, Views

LEMMA StoredFinite ==
  IsFiniteSet(Stored) /\ Cardinality(Stored) \in Nat
<1>1. IsFiniteSet(1..MaxCreated)
  BY InvestigationsAssumption, FS_Interval
<1>2. Stored \in SUBSET (1..MaxCreated)
  BY DEF Stored, Views
<1>. QED
  BY <1>1, <1>2, FS_Subset, FS_CardinalityType

LEMMA InitViewInv == InitViews => ViewInv
<1>. SUFFICES ASSUME InitViews PROVE ViewInv
  OBVIOUS
<1>. USE DEF InitViews
<1>1. ViewsTypeOK
  BY Records DEF ViewsTypeOK
<1>2. Stored = {}
  BY Records DEF Stored
<1>3. NotesVouchedFor
  BY <1>2, FS_EmptySet, InvestigationsAssumption DEF NotesVouchedFor
<1>4. Creators
  BY Records DEF Creators
<1>5. \A e \in Editors : EditorOK(e)
  BY Records DEF EditorOK
<1>. QED
  BY <1>1, <1>3, <1>4, <1>5 DEF ViewInv

\* What is known of an editor's record.
LEMMA EditorTypes ==
  ASSUME ViewsTypeOK, NEW e \in Editors
  PROVE  /\ editor[e] \in EditorRecord
         /\ editor[e].at \in {"idle", "open", "reading", "checking"}
         /\ editor[e].creates \in BOOLEAN
         /\ editor[e].seen \in ViewRecord /\ editor[e].old \in ViewRecord
         /\ editor[e].body \subseteq Evidence /\ editor[e].left \subseteq Evidence
BY DEF ViewsTypeOK, EditorRecord

\* One editor moves; nothing is saved.
LEMMA EditorMoves ==
  ASSUME ViewInv, ViewsTypeOK', NEW e \in Editors, view' = view, vouched \subseteq vouched',
         \A o \in Editors \ {e} : editor'[o] = editor[o], EditorOK(e)', Creators'
  PROVE  ViewInv'
<1>. USE DEF ViewInv
<1>1. Stored' = Stored
  BY DEF Stored
<1>2. NotesVouchedFor'
  BY <1>1 DEF NotesVouchedFor
<1>3. ASSUME NEW o \in Editors PROVE EditorOK(o)'
  <2>1. CASE o = e
    BY <2>1
  <2>2. CASE o # e
    <3>1. editor'[o] = editor[o] /\ EditorOK(o)
      BY <2>2
    <3>. QED
      BY <3>1 DEF EditorOK
  <2>. QED
    BY <2>1, <2>2
<1>. QED
  BY <1>2, <1>3

LEMMA OpenKeeps ==
  ASSUME ViewInv, NEW e \in Editors, NEW v \in Views, OpenView(e, v)
  PROVE  ViewInv'
<1>. USE DEF ViewInv
<1>. DEFINE new == [NoEditor EXCEPT !.at = "open", !.view = v, !.seen = view[v]]
<1>1. /\ view' = view /\ vouched' = vouched /\ current' = current
      /\ editor' = [editor EXCEPT ![e] = new] /\ view[v].at = "stored" /\ view[v] \in ViewRecord
  BY DEF OpenView, Stored, ViewsTypeOK
<1>2. /\ new \in EditorRecord /\ new.at = "open" /\ new.view = v /\ new.seen = view[v]
      /\ ~new.creates
  BY <1>1, Records DEF NoEditor, EditorRecord
<1>3. editor'[e] = new /\ \A o \in Editors \ {e} : editor'[o] = editor[o]
  BY <1>1 DEF ViewsTypeOK
<1>. HIDE DEF new
<1>4. ViewsTypeOK'
  BY <1>1, <1>2 DEF ViewsTypeOK
<1>5. EditorOK(e)'
  BY <1>1, <1>2, <1>3 DEF EditorOK, CopyOf
<1>6. Creators'
  <2>1. ASSUME NEW o \in Editors, o # e, editor[o].at # "idle", editor[o].creates
        PROVE  editor[o].view # v
    <3>1. editor[o].at = "checking"
      BY <2>1, EditorTypes DEF EditorOK
    <3>2. view[editor[o].view].at = "new"
      BY <2>1, <3>1 DEF EditorOK
    <3>. QED
      BY <1>1, <3>2
  <2>. QED
    BY <1>2, <1>3, <2>1 DEF Creators
<1>. QED
  BY <1>1, <1>3, <1>4, <1>5, <1>6, EditorMoves

LEMMA SubmitKeeps ==
  ASSUME ViewInv, NEW e \in Editors, NEW body \in SUBSET Evidence, SubmitView(e, body)
  PROVE  ViewInv'
<1>. USE DEF ViewInv
<1>. DEFINE new == [editor[e] EXCEPT !.at = "reading", !.body = body]
<1>1. /\ view' = view /\ vouched' = vouched /\ current' = current
      /\ editor' = [editor EXCEPT ![e] = new]
      /\ editor[e].at = "open" /\ editor[e].seen.revision < MaxRevision
  BY DEF SubmitView, ViewsTypeOK
<1>2. /\ new \in EditorRecord /\ new.at = "reading" /\ new.view = editor[e].view
      /\ new.creates = editor[e].creates /\ new.seen = editor[e].seen
  BY EditorTypes DEF EditorRecord
<1>3. editor'[e] = new /\ \A o \in Editors \ {e} : editor'[o] = editor[o]
  BY <1>1 DEF ViewsTypeOK
<1>. HIDE DEF new
<1>4. ViewsTypeOK'
  BY <1>1, <1>2 DEF ViewsTypeOK
<1>5. EditorOK(e)'
  BY <1>1, <1>2, <1>3 DEF EditorOK
<1>6. Creators'
  BY <1>1, <1>2, <1>3 DEF Creators, EditorOK
<1>. QED
  BY <1>1, <1>3, <1>4, <1>5, <1>6, EditorMoves

LEMMA CreateKeeps ==
  ASSUME ViewInv, NEW e \in Editors, NEW v \in Views, NEW body \in SUBSET Evidence,
         CreateView(e, v, body)
  PROVE  ViewInv'
<1>. USE DEF ViewInv
<1>. DEFINE new == [NoEditor EXCEPT !.at = "checking", !.view = v, !.creates = TRUE,
                                    !.body = body, !.left = body]
<1>1. /\ view' = view /\ vouched' = vouched /\ current' = current
      /\ editor' = [editor EXCEPT ![e] = new]
      /\ view[v].at = "new" /\ \A o \in Editors : editor[o].view # v
  BY DEF CreateView
<1>2. /\ new \in EditorRecord /\ new.at = "checking" /\ new.view = v /\ new.creates
      /\ new.body = body /\ new.left = body /\ new.old = Absent
  BY Records DEF NoEditor, EditorRecord
<1>3. editor'[e] = new /\ \A o \in Editors \ {e} : editor'[o] = editor[o]
  BY <1>1 DEF ViewsTypeOK
<1>. HIDE DEF new
<1>4. ViewsTypeOK'
  BY <1>1, <1>2 DEF ViewsTypeOK
<1>5. EditorOK(e)'
  BY <1>1, <1>2, <1>3 DEF EditorOK
<1>6. Creators'
  BY <1>1, <1>2, <1>3 DEF Creators
<1>. QED
  BY <1>1, <1>3, <1>4, <1>5, <1>6, EditorMoves

LEMMA ReadOldKeeps ==
  ASSUME ViewInv, NEW e \in Editors, ReadOld(e)
  PROVE  ViewInv'
<1>. USE DEF ViewInv
<1>. DEFINE v == editor[e].view
            read == [editor[e] EXCEPT !.at = "checking", !.old = view[v], !.left = editor[e].body]
            new == IF v \in Stored THEN read ELSE NoEditor
<1>1. /\ view' = view /\ vouched' = vouched /\ current' = current
      /\ editor' = [editor EXCEPT ![e] = new]
      /\ editor[e].at = "reading"
  BY DEF ReadOld, ViewsTypeOK
<1>2. v \in Views /\ view[v] \in ViewRecord
  BY <1>1 DEF EditorOK, ViewsTypeOK
<1>3. /\ read \in EditorRecord /\ read.at = "checking" /\ read.view = v
      /\ read.creates = FALSE /\ read.seen = editor[e].seen /\ read.old = view[v]
      /\ read.body = editor[e].body /\ read.left = editor[e].body
  BY <1>1, <1>2, EditorTypes DEF EditorRecord, EditorOK
<1>4. editor'[e] = new /\ \A o \in Editors \ {e} : editor'[o] = editor[o]
  BY <1>1 DEF ViewsTypeOK
<1>5. new \in EditorRecord /\ ~new.creates
  BY <1>3, Records
<1>6. ViewsTypeOK'
  <2>. HIDE DEF new
  <2>. QED
    BY <1>1, <1>5 DEF ViewsTypeOK
<1>7. EditorOK(e)'
  <2>1. CASE v \in Stored
    <3>1. editor'[e] = read /\ CopyOf(read.seen, view[v]) /\ view[v].at = "stored"
      BY <1>1, <1>3, <1>4, <2>1 DEF EditorOK, Stored
    <3>2. \A x \in view[v].notes : <<v, x>> \in vouched
      BY <1>2, <2>1 DEF NotesVouchedFor, ViewRecord
    <3>. HIDE DEF read
    <3>3. CopyOf(read.old, view[v])
      BY <1>3, <3>1 DEF CopyOf
    <3>4. read.seen.revision < read.old.revision \/ read.seen = read.old
      BY <1>3, <3>1 DEF CopyOf
    <3>5. read.seen.revision < MaxRevision
      BY <1>1, <1>3 DEF EditorOK
    <3>. QED
      BY <1>1, <1>2, <1>3, <3>1, <3>2, <3>3, <3>4, <3>5 DEF EditorOK
  <2>2. CASE v \notin Stored
    BY <1>4, <2>2, Records DEF EditorOK
  <2>. QED
    BY <2>1, <2>2
<1>8. Creators'
  <2>. HIDE DEF new
  <2>1. new.view \in {v, NoView} /\ new.at \in {"checking", "idle"}
    BY <1>3, Records DEF new
  <2>2. ASSUME NEW o \in Editors, o # e, editor[o].at # "idle", editor[o].creates
        PROVE  editor[o].view # new.view
    BY <1>1, <2>1, <2>2, Records DEF Creators, EditorOK
  <2>3. \A o \in Editors : /\ o # e => editor'[o] = editor[o]
                           /\ o = e => editor'[o] = new
    BY <1>4
  <2>4. ~new.creates
    BY <1>5
  <2>. QED
    BY <2>2, <2>3, <2>4 DEF Creators
<1>. QED
  BY <1>1, <1>4, <1>6, <1>7, <1>8, EditorMoves

LEMMA CheckNoteKeeps ==
  ASSUME ViewInv, NEW e \in Editors, NEW x \in Evidence, CheckNote(e, x)
  PROVE  ViewInv'
<1>. USE DEF ViewInv
<1>. DEFINE v == editor[e].view
            kept == [editor[e] EXCEPT !.left = editor[e].left \ {x}]
            new == IF MayKeep(e, x) THEN kept ELSE NoEditor
<1>1. /\ view' = view /\ current' = current
      /\ vouched' = (IF x \in current THEN vouched \cup {<<v, x>>} ELSE vouched)
      /\ editor' = [editor EXCEPT ![e] = new]
      /\ editor[e].at = "checking" /\ x \in editor[e].left
  BY DEF CheckNote, ViewsTypeOK
<1>2. v \in Views /\ vouched \subseteq vouched'
  BY <1>1 DEF EditorOK
<1>3. /\ kept \in EditorRecord /\ kept.at = "checking" /\ kept.view = v
      /\ kept.creates = editor[e].creates /\ kept.seen = editor[e].seen
      /\ kept.old = editor[e].old /\ kept.body = editor[e].body
      /\ kept.left = editor[e].left \ {x}
  BY <1>1, EditorTypes DEF EditorRecord
<1>4. editor'[e] = new /\ \A o \in Editors \ {e} : editor'[o] = editor[o]
  BY <1>1 DEF ViewsTypeOK
<1>5. new \in EditorRecord
  BY <1>3, Records
<1>6. ViewsTypeOK'
  <2>1. vouched' \subseteq Views \X Evidence
    BY <1>1, <1>2 DEF ViewsTypeOK
  <2>. HIDE DEF new
  <2>. QED
    BY <1>1, <1>5, <2>1 DEF ViewsTypeOK
<1>7. EditorOK(e)'
  <2>1. CASE MayKeep(e, x)
    <3>1. editor'[e] = kept
      BY <1>4, <2>1
    <3>. HIDE DEF kept
    <3>2. <<v, x>> \in vouched'
      <4>1. CASE x \in current
        BY <1>1, <4>1
      <4>2. CASE x \in editor[e].old.notes
        <5>1. CASE editor[e].creates
          BY <1>1, <4>2, <5>1, Records DEF EditorOK
        <5>2. CASE ~editor[e].creates
          BY <1>1, <1>2, <4>2, <5>2 DEF EditorOK
        <5>. QED
          BY <5>1, <5>2
      <4>. QED
        BY <2>1, <4>1, <4>2 DEF MayKeep
    <3>3. \A y \in kept.body : y \in kept.left \/ <<v, y>> \in vouched'
      BY <1>1, <1>2, <1>3, <3>2 DEF EditorOK
    <3>4. ~kept.creates =>
            /\ CopyOf(kept.seen, view[v]) /\ CopyOf(kept.old, view[v])
            /\ kept.seen.revision < MaxRevision
            /\ kept.seen.revision < kept.old.revision \/ kept.seen = kept.old
            /\ \A y \in kept.old.notes : <<v, y>> \in vouched'
      BY <1>1, <1>2, <1>3 DEF EditorOK
    <3>5. kept.creates => kept.old = Absent /\ view[v].at = "new"
      BY <1>1, <1>3 DEF EditorOK
    <3>. QED
      BY <1>1, <1>2, <1>3, <3>1, <3>3, <3>4, <3>5 DEF EditorOK
  <2>2. CASE ~MayKeep(e, x)
    BY <1>4, <2>2, Records DEF EditorOK
  <2>. QED
    BY <2>1, <2>2
<1>8. Creators'
  <2>. HIDE DEF new
  <2>1. /\ new.view \in {v, NoView}
        /\ new.creates => editor[e].creates /\ new.view = v
    BY <1>3, Records DEF new
  <2>2. ASSUME NEW o \in Editors, o # e, editor[o].at # "idle", editor[o].creates
        PROVE  editor[o].view # new.view
    BY <1>1, <2>1, <2>2, Records DEF Creators, EditorOK
  <2>3. ASSUME NEW o \in Editors, o # e, new.creates
        PROVE  editor[o].view # new.view
    BY <1>1, <2>1, <2>3 DEF Creators
  <2>. QED
    BY <1>4, <2>2, <2>3 DEF Creators
<1>. QED
  BY <1>1, <1>2, <1>4, <1>6, <1>7, <1>8, EditorMoves

\* An editor whose investigation does not change.
LEMMA Bystander ==
  ASSUME NEW o \in Editors, EditorOK(o), editor'[o] = editor[o], vouched' = vouched,
         editor[o].at # "idle" => view'[editor[o].view] = view[editor[o].view]
  PROVE  EditorOK(o)'
BY DEF EditorOK

\* What a save does: nothing, a new record, or the successor of the loaded one.
LEMMA SaveCases ==
  ASSUME ViewInv, NEW e \in Editors, SaveView(e)
  PROVE  LET v == editor[e].view
             r == editor[e]
         IN /\ v \in Views /\ view[v] \in ViewRecord /\ r.at = "checking"
            /\ \A x \in r.body : <<v, x>> \in vouched
            /\ view' = [view EXCEPT ![v] = Updated(e)]
            /\ editor' = [editor EXCEPT ![e] = NoEditor]
            /\ current' = current /\ vouched' = vouched
            /\ \/ Updated(e) = view[v]
               \/ /\ r.creates /\ ~(Cardinality(Stored) >= MaxViews) /\ view[v].at = "new"
                  /\ Updated(e) = [revision |-> 1, notes |-> r.body, at |-> "stored"]
               \/ /\ ~r.creates /\ v \in Stored /\ view[v].at = "stored"
                  /\ view[v].revision = r.seen.revision /\ r.seen.revision < MaxRevision
                  /\ r.seen = view[v] /\ r.old = view[v]
                  /\ Updated(e) = [revision |-> r.seen.revision + 1, notes |-> r.body,
                                   at |-> "stored"]
<1>. USE DEF ViewInv
<1>. DEFINE v == editor[e].view
            r == editor[e]
<1>1. /\ r.at = "checking" /\ r.left = {} /\ EditorOK(e)
      /\ view' = [view EXCEPT ![v] = Updated(e)] /\ editor' = [editor EXCEPT ![e] = NoEditor]
      /\ current' = current /\ vouched' = vouched
  BY DEF SaveView
<1>2. /\ v \in Views /\ view[v] \in ViewRecord /\ r.seen \in ViewRecord /\ r.old \in ViewRecord
      /\ \A x \in r.body : <<v, x>> \in vouched
  BY <1>1, EditorTypes DEF EditorOK, ViewsTypeOK
<1>3. CASE r.creates
  <2>1. view[v].at = "new"
    BY <1>1, <1>3 DEF EditorOK
  <2>. QED
    BY <1>1, <1>2, <1>3, <2>1 DEF Updated
<1>4. CASE ~r.creates
  <2>1. CASE v \notin Stored \/ view[v].revision # r.seen.revision
    BY <1>1, <1>2, <1>4, <2>1 DEF Updated
  <2>2. CASE v \in Stored /\ view[v].revision = r.seen.revision
    <3>1. view[v].at = "stored"
      BY <2>2 DEF Stored
    <3>2. /\ CopyOf(r.seen, view[v]) /\ CopyOf(r.old, view[v])
          /\ r.seen.revision < r.old.revision \/ r.seen = r.old
          /\ r.seen.revision < MaxRevision
      BY <1>1, <1>4 DEF EditorOK
    <3>3. /\ r.seen.revision \in Nat /\ r.old.revision \in Nat /\ view[v].revision \in Nat
      BY <1>2, InvestigationsAssumption DEF ViewRecord
    <3>4. r.seen = view[v] /\ r.old = view[v]
      BY <2>2, <3>1, <3>2, <3>3 DEF CopyOf
    <3>5. Updated(e) = [revision |-> r.seen.revision + 1, notes |-> r.body, at |-> "stored"]
      BY <1>4, <2>2 DEF Updated
    <3>. QED
      BY <1>1, <1>2, <1>4, <2>2, <3>1, <3>2, <3>4, <3>5
  <2>. QED
    BY <2>1, <2>2
<1>. QED
  BY <1>3, <1>4

LEMMA SaveKeeps ==
  ASSUME ViewInv, NEW e \in Editors, SaveView(e)
  PROVE  ViewInv'
<1>. USE DEF ViewInv
<1>. DEFINE v == editor[e].view
            r == editor[e]
            new == Updated(e)
<1>1. /\ v \in Views /\ view[v] \in ViewRecord /\ r.at = "checking"
      /\ \A x \in r.body : <<v, x>> \in vouched
      /\ view' = [view EXCEPT ![v] = new]
      /\ editor' = [editor EXCEPT ![e] = NoEditor]
      /\ current' = current /\ vouched' = vouched
  BY SaveCases
<1>2. /\ view'[v] = new /\ \A u \in Views \ {v} : view'[u] = view[u]
      /\ editor'[e] = NoEditor /\ \A o \in Editors \ {e} : editor'[o] = editor[o]
  BY <1>1 DEF ViewsTypeOK
<1>3. r.body \subseteq Evidence /\ r.seen \in ViewRecord
  BY EditorTypes
<1>4. new \in ViewRecord
  <2>1. CASE new = view[v]
    BY <1>1, <2>1
  <2>2. CASE new = [revision |-> 1, notes |-> r.body, at |-> "stored"]
    BY <1>3, <2>2, InvestigationsAssumption DEF ViewRecord
  <2>3. CASE /\ r.seen.revision < MaxRevision
             /\ new = [revision |-> r.seen.revision + 1, notes |-> r.body, at |-> "stored"]
    BY <1>3, <2>3, InvestigationsAssumption DEF ViewRecord
  <2>. QED
    BY <2>1, <2>2, <2>3, SaveCases
<1>. HIDE DEF new
<1>5. ViewsTypeOK'
  BY <1>1, <1>4, Records DEF ViewsTypeOK
<1>6. EditorOK(e)'
  BY <1>2, Records DEF EditorOK
<1>7. Creators'
  <2>1. \A o \in Editors : /\ o # e => editor'[o] = editor[o]
                           /\ o = e => editor'[o] = NoEditor
    BY <1>2
  <2>2. \A o \in Editors : o # e /\ editor[o].at # "idle" /\ editor[o].creates
                           => editor[o].view # NoView
    BY Records DEF EditorOK
  <2>. QED
    BY <2>1, <2>2, Records DEF Creators
<1>8. CASE new = view[v]
  <2>1. view' = view
    BY <1>1, <1>8 DEF ViewsTypeOK
  <2>. QED
    BY <1>1, <1>2, <1>5, <1>6, <1>7, <2>1, EditorMoves
<1>9. CASE /\ r.creates /\ ~(Cardinality(Stored) >= MaxViews) /\ view[v].at = "new"
           /\ new = [revision |-> 1, notes |-> r.body, at |-> "stored"]
  <2>1. new.at = "stored" /\ new.notes = r.body
    BY <1>9
  <2>2. Stored' = Stored \cup {v} /\ v \notin Stored
    BY <1>1, <1>2, <1>9, <2>1 DEF Stored
  <2>3. Cardinality(Stored') <= MaxViews
    <3>1. Cardinality(Stored \cup {v}) = Cardinality(Stored) + 1
      BY <2>2, StoredFinite, FS_AddElement
    <3>. QED
      BY <1>9, <2>2, <3>1, StoredFinite, InvestigationsAssumption
  <2>4. \A u \in Stored', x \in Evidence : x \in view'[u].notes => <<u, x>> \in vouched'
    <3>1. Stored \subseteq Views
      BY DEF Stored
    <3>. QED
      BY <1>1, <1>2, <2>1, <2>2, <3>1 DEF NotesVouchedFor
  <2>5. ASSUME NEW o \in Editors, o # e PROVE EditorOK(o)'
    <3>1. editor[o].at # "idle" => editor[o].view # v /\ editor[o].view \in Views
      BY <1>1, <1>9, <2>5 DEF Creators, EditorOK
    <3>. QED
      BY <1>1, <1>2, <2>5, <3>1, Bystander
  <2>6. \A o \in Editors : EditorOK(o)'
    BY <1>6, <2>5
  <2>7. NotesVouchedFor'
    BY <2>3, <2>4 DEF NotesVouchedFor
  <2>. QED
    BY <1>5, <1>7, <2>6, <2>7
<1>10. CASE /\ ~r.creates /\ v \in Stored /\ view[v].at = "stored"
            /\ view[v].revision = r.seen.revision
            /\ new = [revision |-> r.seen.revision + 1, notes |-> r.body, at |-> "stored"]
  <2>1. /\ new.at = "stored" /\ new.notes = r.body
        /\ new.revision = view[v].revision + 1 /\ view[v].revision \in Nat
    BY <1>1, <1>10 DEF ViewRecord
  <2>2. Stored' = Stored
    BY <1>1, <1>2, <1>10, <2>1 DEF Stored
  <2>3. NotesVouchedFor'
    <3>1. Stored \subseteq Views
      BY DEF Stored
    <3>. QED
      BY <1>1, <1>2, <2>1, <2>2, <3>1 DEF NotesVouchedFor
  <2>4. ASSUME NEW o \in Editors, o # e PROVE EditorOK(o)'
    <3>1. CASE editor[o].at = "idle" \/ editor[o].view # v
      <4>1. editor[o].at # "idle" => editor[o].view \in Views \ {v}
        BY <3>1 DEF EditorOK
      <4>. QED
        BY <1>1, <1>2, <2>4, <4>1, Bystander
    <3>2. CASE editor[o].at # "idle" /\ editor[o].view = v
      <4>1. ~editor[o].creates
        BY <1>10, <3>2, EditorTypes DEF EditorOK
      <4>2. /\ CopyOf(editor[o].seen, view[v])
            /\ editor[o].at = "checking" => CopyOf(editor[o].old, view[v])
        BY <3>2, <4>1 DEF EditorOK
      <4>3. editor[o].seen.revision \in Nat /\ editor[o].old.revision \in Nat
        BY EditorTypes, InvestigationsAssumption DEF ViewRecord
      <4>4. /\ CopyOf(editor[o].seen, new)
            /\ editor[o].at = "checking" => CopyOf(editor[o].old, new)
        BY <1>10, <2>1, <4>2, <4>3 DEF CopyOf
      <4>5. editor'[o] = editor[o]
        BY <1>2, <2>4
      <4>. QED
        BY <1>1, <1>2, <3>2, <4>1, <4>4, <4>5 DEF EditorOK
    <3>. QED
      BY <3>1, <3>2
  <2>5. \A o \in Editors : EditorOK(o)'
    BY <1>6, <2>4
  <2>. QED
    BY <1>5, <1>7, <2>3, <2>5
<1>. QED
  BY <1>8, <1>9, <1>10, SaveCases DEF new

LEMMA DeleteKeeps ==
  ASSUME ViewInv, NEW v \in Views, DeleteView(v)
  PROVE  ViewInv'
<1>. USE DEF ViewInv
<1>. DEFINE new == [Absent EXCEPT !.at = "deleted"]
<1>1. /\ v \in Stored /\ view[v].at = "stored" /\ view' = [view EXCEPT ![v] = new]
      /\ editor' = editor /\ current' = current /\ vouched' = vouched
  BY DEF DeleteView, Stored
<1>2. new \in ViewRecord /\ new.at = "deleted"
  BY InvestigationsAssumption DEF Absent, ViewRecord
<1>. HIDE DEF new
<1>3. view'[v] = new /\ \A u \in Views \ {v} : view'[u] = view[u]
  BY <1>1 DEF ViewsTypeOK
<1>4. ViewsTypeOK'
  BY <1>1, <1>2 DEF ViewsTypeOK
<1>5. Stored' = Stored \ {v}
  BY <1>2, <1>3 DEF Stored
<1>6. NotesVouchedFor'
  <2>1. Cardinality(Stored') <= Cardinality(Stored) /\ Cardinality(Stored') \in Nat
    BY <1>5, StoredFinite, FS_Subset, FS_CardinalityType
  <2>2. Cardinality(Stored') <= MaxViews
    BY <2>1, StoredFinite, InvestigationsAssumption DEF NotesVouchedFor
  <2>3. \A u \in Stored', x \in Evidence : x \in view'[u].notes => <<u, x>> \in vouched'
    BY <1>1, <1>3, <1>5 DEF NotesVouchedFor, Stored
  <2>. QED
    BY <2>2, <2>3 DEF NotesVouchedFor
<1>7. Creators'
  BY <1>1 DEF Creators
<1>8. ASSUME NEW o \in Editors PROVE EditorOK(o)'
  <2>1. CASE editor[o].at = "idle" \/ editor[o].view # v
    <3>1. editor[o].at # "idle" => editor[o].view \in Views \ {v}
      BY <2>1 DEF EditorOK
    <3>. QED
      BY <1>1, <1>3, <3>1, Bystander
  <2>2. CASE editor[o].at # "idle" /\ editor[o].view = v
    <3>1. ~editor[o].creates
      BY <1>1, <2>2, EditorTypes DEF EditorOK
    <3>2. /\ CopyOf(editor[o].seen, new)
          /\ editor[o].at = "checking" => CopyOf(editor[o].old, new)
      BY <1>2, <2>2, <3>1 DEF EditorOK, CopyOf
    <3>. QED
      BY <1>1, <1>3, <2>2, <3>1, <3>2 DEF EditorOK
  <2>. QED
    BY <2>1, <2>2
<1>. QED
  BY <1>4, <1>6, <1>7, <1>8

LEMMA TurnKeeps ==
  ASSUME ViewInv, NEW x \in Evidence, TurnEvidence(x)
  PROVE  ViewInv'
BY DEF TurnEvidence, ViewInv, ViewsTypeOK, NotesVouchedFor, Stored, Creators, EditorOK

LEMMA ViewStep ==
  ASSUME ViewInv, [NextViews]_viewVars
  PROVE  ViewInv'
<1>1. ASSUME NEW e \in Editors, NEW v \in Views, OpenView(e, v) PROVE ViewInv'
  BY <1>1, OpenKeeps
<1>2. ASSUME NEW e \in Editors, NEW body \in SUBSET Evidence, SubmitView(e, body) PROVE ViewInv'
  BY <1>2, SubmitKeeps
<1>3. ASSUME NEW e \in Editors, NEW v \in Views, NEW body \in SUBSET Evidence,
             CreateView(e, v, body)
      PROVE  ViewInv'
  BY <1>3, CreateKeeps
<1>4. ASSUME NEW e \in Editors, ReadOld(e) PROVE ViewInv'
  BY <1>4, ReadOldKeeps
<1>5. ASSUME NEW e \in Editors, SaveView(e) PROVE ViewInv'
  BY <1>5, SaveKeeps
<1>6. ASSUME NEW e \in Editors, NEW x \in Evidence, CheckNote(e, x) PROVE ViewInv'
  BY <1>6, CheckNoteKeeps
<1>7. ASSUME NEW v \in Views, DeleteView(v) PROVE ViewInv'
  BY <1>7, DeleteKeeps
<1>8. ASSUME NEW x \in Evidence, TurnEvidence(x) PROVE ViewInv'
  BY <1>8, TurnKeeps
<1>9. CASE UNCHANGED viewVars
  BY <1>9 DEF viewVars, ViewInv, ViewsTypeOK, NotesVouchedFor, Stored, Creators, EditorOK
<1>. QED
  BY <1>1, <1>2, <1>3, <1>4, <1>5, <1>6, <1>7, <1>8, <1>9 DEF NextViews

\* The steps that change an investigation: only a save, a creation and a deletion.
LEMMA LosesNothing ==
  ASSUME ViewInv, NextViews
  PROVE  NoLostUpdate
<1>. USE DEF ViewInv
<1>1. CASE view' = view
  BY <1>1 DEF NoLostUpdate
<1>2. ASSUME NEW e \in Editors, SaveView(e) PROVE NoLostUpdate
  <2>. DEFINE v == editor[e].view
              r == editor[e]
              new == Updated(e)
  <2>1. /\ v \in Views /\ view' = [view EXCEPT ![v] = new]
        /\ editor' = [editor EXCEPT ![e] = NoEditor]
        /\ \/ new = view[v]
           \/ view[v].at = "new" /\ new = [revision |-> 1, notes |-> r.body, at |-> "stored"]
           \/ r.seen = view[v] /\ r.old = view[v]
    BY <1>2, SaveCases
  <2>. HIDE DEF new
  <2>2. view'[v] = new /\ editor'[e] = NoEditor /\ \A u \in Views \ {v} : view'[u] = view[u]
    BY <2>1 DEF ViewsTypeOK
  <2>3. CASE new = view[v]
    BY <2>2, <2>3 DEF NoLostUpdate
  <2>4. CASE view[v].at = "new" /\ new = [revision |-> 1, notes |-> r.body, at |-> "stored"]
    BY <2>2, <2>4 DEF NoLostUpdate
  <2>5. CASE r.seen = view[v] /\ r.old = view[v]
    BY <2>2, <2>5 DEF NoLostUpdate
  <2>. QED
    BY <2>1, <2>3, <2>4, <2>5
<1>3. ASSUME NEW v \in Views, DeleteView(v) PROVE NoLostUpdate
  <2>1. view' = [view EXCEPT ![v] = [Absent EXCEPT !.at = "deleted"]]
    BY <1>3 DEF DeleteView
  <2>2. [Absent EXCEPT !.at = "deleted"].at = "deleted"
    BY DEF Absent
  <2>3. view'[v].at = "deleted" /\ \A u \in Views \ {v} : view'[u] = view[u]
    BY <2>1, <2>2 DEF ViewsTypeOK
  <2>. QED
    BY <2>3 DEF NoLostUpdate
<1>4. \/ view' = view
      \/ \E e \in Editors : SaveView(e)
      \/ \E v \in Views : DeleteView(v)
  BY DEF NextViews, OpenView, SubmitView, CreateView, ReadOld, CheckNote, TurnEvidence
<1>. QED
  BY <1>1, <1>2, <1>3, <1>4

\* However many pages edit an investigation while its evidence comes and goes, a save
\* replaces exactly what its page had loaded, no note is kept that was not vouched
\* for, and the cap holds.
THEOREM ViewsKept == ViewsSpec => InvestigationsKept
<1>1. ViewInv /\ [NextViews]_viewVars => ViewInv'
  BY ViewStep
<1>2. ViewInv /\ ViewInv' /\ [NextViews]_viewVars
      => [ViewsTypeOK' /\ NotesVouchedFor' /\ NoLostUpdate]_viewVars
  BY LosesNothing DEF ViewInv
<1>. QED
  BY InitViewInv, <1>1, <1>2, PTL DEF ViewsSpec, InvestigationsKept

-----------------------------------------------------------------------------
(***************************************************************************)
(* The quota.  The row's window only moves forward, and what it counts is  *)
(* what was granted in it.                                                 *)
(***************************************************************************)
QuotaInv ==
  /\ usage \in [window : Windows, used : Nat, exists : BOOLEAN]
  /\ granted \in [Windows -> Nat]
  /\ request \in [Requests -> RequestRecord] /\ clock \in Times
  /\ QuotaPerWindow
  /\ \A w \in Windows : ~usage.exists \/ w > usage.window => granted[w] = 0

LEMMA WindowsOf ==
  /\ 0 \in Windows /\ 0 \in Times /\ Windows \subseteq Nat
  /\ \A t \in Times : t \div WindowSeconds \in Windows
<1>1. WindowSeconds \in Nat /\ WindowSeconds > 0 /\ EndOfTime \in Nat
  BY RequestLimitsAssumption
<1>2. EndOfTime \div WindowSeconds \in Nat
  BY <1>1
<1>3. ASSUME NEW t \in Times
      PROVE  t \div WindowSeconds \in Nat /\ t \div WindowSeconds <= EndOfTime \div WindowSeconds
  <2>1. t \in Nat /\ t <= EndOfTime
    BY <1>1 DEF Times
  <2>. QED
    BY <1>1, <2>1, Z3
<1>. QED
  BY <1>1, <1>2, <1>3 DEF Windows, Times

LEMMA InitQuota == InitLimits => QuotaInv
<1>. SUFFICES ASSUME InitLimits PROVE QuotaInv
  OBVIOUS
<1>. USE DEF InitLimits
<1>1. /\ usage = NoRow /\ ~NoRow.exists
      /\ NoRow \in [window : Windows, used : Nat, exists : BOOLEAN]
  BY WindowsOf DEF NoRow
<1>2. granted \in [Windows -> Nat] /\ \A w \in Windows : granted[w] = 0
  OBVIOUS
<1>3. request \in [Requests -> RequestRecord] /\ clock \in Times
  BY WindowsOf DEF RequestRecord
<1>4. QuotaPerWindow
  BY <1>1, <1>2, RequestLimitsAssumption DEF QuotaPerWindow
<1>. QED
  BY <1>1, <1>2, <1>3, <1>4 DEF QuotaInv

\* The row a change starts from.
LEMMA RolledRow ==
  ASSUME QuotaInv, NEW w \in Windows
  PROVE  LET row == Rolled(w)
         IN /\ row \in [window : Windows, used : Nat, exists : BOOLEAN] /\ row.exists
            /\ row.used = granted[row.window]
            /\ \A u \in Windows : u > row.window => granted[u] = 0
<1>1. w \in Nat /\ usage.window \in Nat /\ Windows \subseteq Nat
  BY WindowsOf DEF QuotaInv
<1>2. CASE ~usage.exists \/ usage.window < w
  BY <1>1, <1>2 DEF Rolled, QuotaInv
<1>3. CASE ~(~usage.exists \/ usage.window < w)
  BY <1>1, <1>3 DEF Rolled, QuotaInv, QuotaPerWindow
<1>. QED
  BY <1>2, <1>3

\* A step that leaves the row and its history alone.
LEMMA RowUntouched ==
  ASSUME QuotaInv, usage' = usage, granted' = granted, clock' \in Times,
         request' \in [Requests -> RequestRecord]
  PROVE  QuotaInv'
BY DEF QuotaInv, QuotaPerWindow

LEMMA ReserveKeeps ==
  ASSUME QuotaInv, NEW q \in Requests, Reserve(q)
  PROVE  QuotaInv'
<1>. DEFINE row == Rolled(request[q].fresh)
            gone == [at |-> "idle", fresh |-> 0]
            runs == [at |-> "running", fresh |-> 0]
<1>1. gone \in RequestRecord /\ runs \in RequestRecord /\ request[q].fresh \in Windows
  BY WindowsOf DEF QuotaInv, RequestRecord
<1>2. /\ row \in [window : Windows, used : Nat, exists : BOOLEAN] /\ row.exists
      /\ row.used = granted[row.window]
      /\ \A u \in Windows : u > row.window => granted[u] = 0
  BY <1>1, RolledRow
<1>3. CASE QuotaLimit # 0 /\ row.used >= QuotaLimit
  BY <1>1, <1>3, RowUntouched DEF Reserve, QuotaInv
<1>4. CASE ~(QuotaLimit # 0 /\ row.used >= QuotaLimit)
  <2>1. /\ usage' = [row EXCEPT !.used = @ + 1]
        /\ granted' = [granted EXCEPT ![row.window] = @ + 1]
        /\ request' = [request EXCEPT ![q] = runs] /\ clock' = clock
    BY <1>4 DEF Reserve
  <2>. HIDE DEF row
  <2>2. /\ usage' \in [window : Windows, used : Nat, exists : BOOLEAN]
        /\ usage'.window = row.window /\ usage'.used = row.used + 1
    BY <1>2, <2>1
  <2>3. /\ granted' \in [Windows -> Nat] /\ granted'[row.window] = row.used + 1
        /\ \A u \in Windows : u # row.window => granted'[u] = granted[u]
    BY <1>2, <2>1 DEF QuotaInv
  <2>4. request' \in [Requests -> RequestRecord] /\ clock' \in Times
    BY <1>1, <2>1 DEF QuotaInv
  <2>5. QuotaLimit # 0 => row.used + 1 <= QuotaLimit
    BY <1>2, <1>4, RequestLimitsAssumption
  <2>6. QuotaPerWindow'
    BY <2>2, <2>3, <2>5 DEF QuotaPerWindow, QuotaInv
  <2>7. \A u \in Windows : ~usage'.exists \/ u > usage'.window => granted'[u] = 0
    <3>1. usage'.exists
      BY <1>2, <2>1
    <3>2. row.window \in Nat /\ Windows \subseteq Nat
      BY <1>2, WindowsOf
    <3>. QED
      BY <1>2, <2>2, <2>3, <3>1, <3>2
  <2>. QED
    BY <2>2, <2>3, <2>4, <2>6, <2>7 DEF QuotaInv
<1>. QED
  BY <1>3, <1>4

LEMMA RecordKeeps ==
  ASSUME QuotaInv, NEW q \in Requests, RecordUsage(q)
  PROVE  QuotaInv'
<1>. DEFINE row == Rolled(request[q].fresh)
<1>1. /\ [at |-> "idle", fresh |-> 0] \in RequestRecord /\ request[q].fresh \in Windows
  BY WindowsOf DEF QuotaInv, RequestRecord
<1>2. /\ row \in [window : Windows, used : Nat, exists : BOOLEAN] /\ row.exists
      /\ row.used = granted[row.window]
      /\ \A u \in Windows : u > row.window => granted[u] = 0
  BY <1>1, RolledRow
<1>3. /\ usage' = row /\ granted' = granted /\ clock' = clock
      /\ request' \in [Requests -> RequestRecord]
  BY <1>1 DEF RecordUsage, QuotaInv
<1>. QED
  BY <1>2, <1>3 DEF QuotaInv, QuotaPerWindow

LEMMA LimitsStep ==
  ASSUME QuotaInv, [NextLimits]_limitsVars
  PROVE  QuotaInv'
<1>1. ASSUME NEW c \in Clients, NEW q \in Requests, Admit(c, q) PROVE QuotaInv'
  <2>1. usage' = usage /\ granted' = granted /\ clock' = clock
    BY <1>1 DEF Admit
  <2>2. request' = request \/ request' = [request EXCEPT ![q].at = "limited"]
    BY <1>1 DEF Admit
  <2>3. request' \in [Requests -> RequestRecord]
    BY <2>2 DEF QuotaInv, RequestRecord
  <2>. QED
    BY <2>1, <2>3, RowUntouched DEF QuotaInv
<1>2. ASSUME NEW q \in Requests, ReadClock(q) PROVE QuotaInv'
  <2>1. clock \div WindowSeconds \in Windows
    BY WindowsOf DEF QuotaInv
  <2>2. /\ usage' = usage /\ granted' = granted /\ clock' = clock
        /\ request' \in [Requests -> RequestRecord]
    BY <1>2, <2>1 DEF ReadClock, QuotaInv, RequestRecord
  <2>. QED
    BY <2>2, RowUntouched DEF QuotaInv
<1>3. ASSUME NEW q \in Requests, Reserve(q) PROVE QuotaInv'
  BY <1>3, ReserveKeeps
<1>4. ASSUME NEW q \in Requests, RecordUsage(q) PROVE QuotaInv'
  BY <1>4, RecordKeeps
<1>5. ASSUME NEW q \in Requests, Abandon(q) PROVE QuotaInv'
  <2>1. /\ usage' = usage /\ granted' = granted /\ clock' = clock
        /\ request' \in [Requests -> RequestRecord]
    BY <1>5, WindowsOf DEF Abandon, QuotaInv, RequestRecord
  <2>. QED
    BY <2>1, RowUntouched DEF QuotaInv
<1>6. CASE TimePasses
  <2>1. clock' \in Times
    BY <1>6, RequestLimitsAssumption DEF TimePasses, QuotaInv, Times
  <2>. QED
    BY <1>6, <2>1, RowUntouched DEF TimePasses, QuotaInv
<1>7. CASE UNCHANGED limitsVars
  BY <1>7, RowUntouched DEF limitsVars, QuotaInv
<1>. QED
  BY <1>1, <1>2, <1>3, <1>4, <1>5, <1>6, <1>7 DEF NextLimits

\* In whatever order the reservations and records of two windows reach the row, no
\* window grants more than the limit and the row counts what it granted.
THEOREM QuotaNeverExceeded == LimitsSpec => []QuotaPerWindow
<1>1. QuotaInv => QuotaPerWindow
  BY DEF QuotaInv
<1>. QED
  BY InitQuota, LimitsStep, <1>1, PTL DEF LimitsSpec

-----------------------------------------------------------------------------
(***************************************************************************)
(* The sliding windows.  A bucket is what is left of its client's hits     *)
(* once some have been dropped from the front, and what was dropped does   *)
(* not count any more; the hits are in order, so a bucket whose newest hit *)
(* is outside the window holds nothing that counts.                        *)
(***************************************************************************)
LastOf(b, h) ==
  \E k \in 0..Len(h) :
    /\ Len(b) = Len(h) - k
    /\ \A i \in 1..Len(b) : b[i] = h[i + k]
    /\ \A i \in 1..k : Outside(h[i])

Ordered(h) ==
  /\ \A i, j \in 1..Len(h) : i <= j => h[i] <= h[j]
  /\ \A i \in 1..Len(h) : h[i] <= clock

ClientOK(c) ==
  /\ Len(hits[c]) <= RateMax /\ Ordered(hits[c]) /\ LastOf(bucket[c], hits[c])
  /\ c \notin tracked => bucket[c] = <<>>

RateInv ==
  /\ clock \in Times /\ tracked \subseteq Clients
  /\ bucket \in [Clients -> Seq(Times)] /\ hits \in [Clients -> Seq(Times)]
  /\ \A c \in Clients : ClientOK(c)

\* What the loop leaves: it stops at the first hit that counts.
LEMMA WhatIsLeft ==
  ASSUME NEW b \in Seq(Times)
  PROVE  \E n \in 1..(Len(b) + 1) :
           /\ \A i \in 1..(n - 1) : Outside(b[i])
           /\ n <= Len(b) => ~Outside(b[n])
           /\ Recent(b) \in Seq(Times) /\ Len(Recent(b)) = Len(b) - n + 1
           /\ \A i \in 1..Len(Recent(b)) : Recent(b)[i] = b[n + i - 1]
<1>. DEFINE S == Stops(b)
            n == CHOOSE m \in S : \A o \in S : m <= o
<1>1. Len(b) \in Nat
  BY LenProperties
<1>2. S \in SUBSET Nat /\ Len(b) + 1 \in S
  BY <1>1 DEF Stops
<1>3. n \in S /\ \A o \in S : n <= o
  <2>. HIDE DEF S
  <2>1. \E m \in S : \A o \in S : m <= o
    BY <1>2, Least
  <2>. QED
    BY <2>1
<1>4. Recent(b) = SubSeq(b, n, Len(b))
  BY DEF Recent
<1>. HIDE DEF n
<1>5. n \in 1..(Len(b) + 1) /\ (n <= Len(b) => ~Outside(b[n]))
  BY <1>3 DEF Stops
<1>6. ASSUME NEW i \in 1..(n - 1) PROVE Outside(b[i])
  <2>1. i \in 1..(Len(b) + 1) /\ i <= Len(b) /\ ~(n <= i)
    BY <1>1, <1>5
  <2>2. i \notin S
    <3>. HIDE DEF S
    <3>. QED
      BY <1>3, <2>1
  <2>. QED
    BY <2>1, <2>2 DEF Stops
<1>7. /\ SubSeq(b, n, Len(b)) \in Seq(Times)
      /\ Len(SubSeq(b, n, Len(b))) = Len(b) - n + 1
      /\ \A i \in 1..(Len(b) - n + 1) : SubSeq(b, n, Len(b))[i] = b[n + i - 1]
  <2>1. CASE n <= Len(b)
    <3>1. n \in 1..(Len(b) + 1) /\ Len(b) \in (n - 1)..Len(b)
      BY <1>1, <1>5
    <3>. QED
      BY <1>1, <2>1, <3>1, SubSeqProperties
  <2>2. CASE n = Len(b) + 1
    <3>1. n \in 1..(Len(b) + 1) /\ Len(b) \in (n - 1)..Len(b) /\ ~(n <= Len(b))
      BY <1>1, <1>5, <2>2
    <3>2. SubSeq(b, n, Len(b)) \in Seq(Times) /\ Len(SubSeq(b, n, Len(b))) = 0
      BY <3>1, SubSeqProperties
    <3>. QED
      BY <1>1, <2>2, <3>2
  <2>. QED
    BY <1>1, <1>5, <2>1, <2>2
<1>. QED
  BY <1>4, <1>5, <1>6, <1>7

\* The bucket of a client counts what the client's hits count.
LEMMA CountsTheSame ==
  ASSUME NEW b \in Seq(Times), NEW h \in Seq(Times), LastOf(b, h)
  PROVE  Recent(b) = Recent(h) /\ LastOf(Recent(b), h)
<1>1. PICK k \in 0..Len(h) :
        /\ Len(b) = Len(h) - k
        /\ \A i \in 1..Len(b) : b[i] = h[i + k]
        /\ \A i \in 1..k : Outside(h[i])
  BY DEF LastOf
<1>2. PICK n \in 1..(Len(b) + 1) :
        /\ \A i \in 1..(n - 1) : Outside(b[i])
        /\ n <= Len(b) => ~Outside(b[n])
        /\ Recent(b) \in Seq(Times) /\ Len(Recent(b)) = Len(b) - n + 1
        /\ \A i \in 1..Len(Recent(b)) : Recent(b)[i] = b[n + i - 1]
  BY WhatIsLeft
<1>3. PICK m \in 1..(Len(h) + 1) :
        /\ \A i \in 1..(m - 1) : Outside(h[i])
        /\ m <= Len(h) => ~Outside(h[m])
        /\ Recent(h) \in Seq(Times) /\ Len(Recent(h)) = Len(h) - m + 1
        /\ \A i \in 1..Len(Recent(h)) : Recent(h)[i] = h[m + i - 1]
  BY WhatIsLeft
<1>4. Len(b) \in Nat /\ Len(h) \in Nat
  BY LenProperties
<1>5. \A i \in 1..(n + k - 1) : Outside(h[i])
  <2>. SUFFICES ASSUME NEW i \in 1..(n + k - 1) PROVE Outside(h[i])
    OBVIOUS
  <2>1. CASE i <= k
    BY <1>1, <1>4, <2>1
  <2>2. CASE i > k
    <3>1. i - k \in 1..(n - 1) /\ i - k \in 1..Len(b) /\ (i - k) + k = i
      BY <1>4, <2>2
    <3>. QED
      BY <1>1, <1>2, <3>1
  <2>. QED
    BY <1>4, <2>1, <2>2
<1>6. m = n + k
  <2>1. ~(m < n + k)
    <3>1. m < n + k => m <= Len(h) /\ m \in 1..(n + k - 1)
      BY <1>1, <1>4
    <3>. QED
      BY <1>3, <1>5, <3>1
  <2>2. ~(m > n + k)
    <3>. SUFFICES ASSUME m > n + k PROVE FALSE
      BY <2>1
    <3>1. n + k \in 1..(m - 1) /\ n \in 1..Len(b) /\ n <= Len(b)
      BY <1>1, <1>4
    <3>2. b[n] = h[n + k] /\ ~Outside(b[n]) /\ Outside(h[n + k])
      BY <1>1, <1>2, <1>3, <3>1
    <3>. QED
      BY <3>2
  <2>. QED
    BY <1>4, <2>1, <2>2
<1>7. Len(Recent(b)) = Len(Recent(h)) /\ Len(Recent(b)) = Len(h) - (n + k - 1)
  <2>1. Len(b) = Len(h) - k /\ k \in Nat
    BY <1>1, <1>4
  <2>2. Len(Recent(b)) = Len(b) - n + 1 /\ n \in Nat
    BY <1>2, <1>4
  <2>3. Len(Recent(h)) = Len(h) - m + 1 /\ m \in Nat
    BY <1>3, <1>4
  <2>. QED
    BY <1>4, <1>6, <2>1, <2>2, <2>3
<1>8. ASSUME NEW i \in 1..Len(Recent(b))
      PROVE  Recent(b)[i] = Recent(h)[i] /\ Recent(b)[i] = h[i + (n + k - 1)]
  <2>0. i \in Nat /\ 1 <= i /\ i <= Len(b) - n + 1 /\ n \in Nat /\ 1 <= n /\ k \in Nat
    <3>1. Len(Recent(b)) = Len(b) - n + 1
      BY <1>2
    <3>. QED
      BY <1>4, <3>1
  <2>1. /\ n + i - 1 \in 1..Len(b)
        /\ (n + i - 1) + k = m + i - 1 /\ m + i - 1 = i + (n + k - 1)
    BY <1>4, <1>6, <2>0
  <2>2. Recent(b)[i] = b[n + i - 1] /\ b[n + i - 1] = h[(n + i - 1) + k]
    BY <1>1, <1>2, <2>1
  <2>3. Recent(h)[i] = h[m + i - 1]
    BY <1>3, <1>7
  <2>. QED
    BY <2>1, <2>2, <2>3
<1>9. n + k - 1 \in 0..Len(h)
  BY <1>1, <1>4
<1>10. LastOf(Recent(b), h)
  BY <1>5, <1>7, <1>8, <1>9 DEF LastOf
<1>11. Recent(b) = Recent(h)
  BY <1>2, <1>3, <1>7, <1>8, SeqEqual
<1>. QED
  BY <1>10, <1>11

\* A client let through: its hits stay in order and within the limit.
LEMMA HitRecorded ==
  ASSUME NEW h \in Seq(Times), clock \in Times, Ordered(h), Len(Recent(h)) < RateMax
  PROVE  LET new == Append(Recent(h), clock)
         IN /\ new \in Seq(Times) /\ Len(new) <= RateMax /\ Ordered(new)
            /\ new # <<>> /\ new[Len(new)] = clock /\ LastOf(new, new)
<1>. DEFINE new == Append(Recent(h), clock)
<1>1. PICK m \in 1..(Len(h) + 1) :
        /\ Recent(h) \in Seq(Times) /\ Len(Recent(h)) = Len(h) - m + 1
        /\ \A i \in 1..Len(Recent(h)) : Recent(h)[i] = h[m + i - 1]
  BY WhatIsLeft
<1>2. Len(h) \in Nat /\ Len(Recent(h)) \in Nat /\ RateMax \in Nat /\ Times \subseteq Nat
  BY <1>1, LenProperties, RequestLimitsAssumption DEF Times
<1>3. /\ new \in Seq(Times) /\ new # <<>> /\ Len(new) = Len(Recent(h)) + 1
      /\ \A i \in 1..Len(Recent(h)) : new[i] = Recent(h)[i]
      /\ new[Len(Recent(h)) + 1] = clock
  BY <1>1, AppendProperties
<1>. HIDE DEF new
<1>4. ASSUME NEW i \in 1..Len(Recent(h))
      PROVE  new[i] = h[m + i - 1] /\ m + i - 1 \in 1..Len(h) /\ new[i] <= clock
  <2>1. m + i - 1 \in 1..Len(h)
    BY <1>1, <1>2
  <2>2. new[i] = h[m + i - 1]
    BY <1>1, <1>3
  <2>. QED
    BY <2>1, <2>2 DEF Ordered
<1>5. ASSUME NEW i \in 1..Len(new) PROVE new[i] <= clock
  <2>1. i \in 1..Len(Recent(h)) \/ i = Len(Recent(h)) + 1
    BY <1>2, <1>3
  <2>. QED
    BY <1>2, <1>3, <1>4, <2>1
<1>6. ASSUME NEW i \in 1..Len(new), NEW j \in 1..Len(new), i <= j PROVE new[i] <= new[j]
  <2>1. j \in 1..Len(Recent(h)) \/ j = Len(Recent(h)) + 1
    BY <1>2, <1>3
  <2>2. CASE j = Len(Recent(h)) + 1
    BY <1>3, <1>5, <2>2
  <2>3. CASE j \in 1..Len(Recent(h))
    <3>1. i \in 1..Len(Recent(h)) /\ m + i - 1 <= m + j - 1
      BY <1>2, <1>6, <2>3
    <3>. QED
      BY <1>4, <2>3, <3>1 DEF Ordered
  <2>. QED
    BY <2>1, <2>2, <2>3
<1>7. Len(new) \in Nat
  BY <1>2, <1>3
<1>8. Ordered(new)
  BY <1>5, <1>6 DEF Ordered
<1>9. LastOf(new, new)
  <2>1. /\ 0 \in 0..Len(new) /\ Len(new) = Len(new) - 0
        /\ \A i \in 1..Len(new) : new[i] = new[i + 0]
        /\ \A i \in 1..0 : Outside(new[i])
    BY <1>7
  <2>. QED
    BY <2>1 DEF LastOf
<1>. QED
  BY <1>2, <1>3, <1>8, <1>9 DEF new

\* The sweep takes only buckets in which nothing counts.
LEMMA NothingLeft ==
  ASSUME NEW b \in Seq(Times), NEW h \in Seq(Times), clock \in Times,
         LastOf(b, h), Ordered(h), Stale(b)
  PROVE  LastOf(<<>>, h)
<1>1. PICK k \in 0..Len(h) :
        /\ Len(b) = Len(h) - k
        /\ \A i \in 1..Len(b) : b[i] = h[i + k]
        /\ \A i \in 1..k : Outside(h[i])
  BY DEF LastOf
<1>2. Len(b) \in Nat /\ Len(h) \in Nat /\ RateWindow \in Nat /\ Times \subseteq Nat
  BY LenProperties, RequestLimitsAssumption DEF Times
<1>3. \A i \in 1..Len(h) : Outside(h[i])
  <2>1. CASE b = <<>>
    <3>1. k = Len(h)
      BY <1>1, <1>2, <2>1
    <3>. QED
      BY <1>1, <3>1
  <2>2. CASE b # <<>>
    <3>1. Len(b) \in 1..Len(b) /\ Len(b) + k = Len(h) /\ Len(h) \in 1..Len(h)
      <4>1. Len(b) # 0
        BY <2>2, EmptySeq
      <4>. QED
        BY <1>1, <1>2, <4>1
    <3>2. Outside(h[Len(h)])
      BY <1>1, <2>2, <3>1 DEF Stale
    <3>3. ASSUME NEW i \in 1..Len(h) PROVE h[i] \in Nat /\ h[i] <= h[Len(h)]
      <4>1. h[i] \in Times /\ i <= Len(h)
        BY <1>2, ElementOfSeq
      <4>. QED
        BY <1>2, <3>1, <4>1 DEF Ordered
    <3>4. h[Len(h)] \in Nat
      BY <3>1, <3>3
    <3>. QED
      BY <1>2, <3>1, <3>2, <3>3, <3>4 DEF Outside
  <2>. QED
    BY <2>1, <2>2
<1>4. Len(<<>>) = 0 /\ Len(h) \in 0..Len(h) /\ 0 = Len(h) - Len(h)
  BY <1>2
<1>. QED
  BY <1>3, <1>4 DEF LastOf

LEMMA ClientStands ==
  ASSUME NEW c \in Clients, clock' = clock, Len(hits'[c]) <= RateMax, Ordered(hits'[c]),
         LastOf(bucket'[c], hits'[c]), c \notin tracked' => bucket'[c] = <<>>
  PROVE  ClientOK(c)'
BY DEF ClientOK, LastOf, Ordered, Outside

LEMMA AdmitKeeps ==
  ASSUME RateInv, NEW c \in Clients, NEW q \in Requests, Admit(c, q)
  PROVE  RateInv'
<1>. DEFINE kept == Recent(bucket[c])
            hit == Append(kept, clock)
            known == tracked \cup {c}
            after == [bucket EXCEPT ![c] = IF Len(kept) >= RateMax THEN kept ELSE hit]
            swept == IF Len(kept) < RateMax /\ Cardinality(known) > MaxTracked
                     THEN {o \in known : Stale(after[o])} ELSE {}
<1>1. /\ tracked' = known \ swept /\ clock' = clock
      /\ bucket' = [o \in Clients |-> IF o \in swept THEN <<>> ELSE after[o]]
      /\ Len(kept) >= RateMax => hits' = hits
      /\ ~(Len(kept) >= RateMax) =>
           hits' = [hits EXCEPT ![c] = Append(Recent(hits[c]), clock)]
  BY DEF Admit
<1>2. /\ bucket[c] \in Seq(Times) /\ hits[c] \in Seq(Times) /\ clock \in Times
      /\ ClientOK(c)
  BY DEF RateInv
<1>3. kept = Recent(hits[c]) /\ LastOf(kept, hits[c])
  BY <1>2, CountsTheSame DEF ClientOK
<1>4. kept \in Seq(Times) /\ Len(kept) \in Nat /\ RateMax \in Nat
  BY <1>2, WhatIsLeft, LenProperties, RequestLimitsAssumption
<1>5. /\ after[c] \in Seq(Times) /\ hits'[c] \in Seq(Times)
      /\ Len(hits'[c]) <= RateMax /\ Ordered(hits'[c]) /\ LastOf(after[c], hits'[c])
      /\ c \notin swept
  <2>1. CASE Len(kept) >= RateMax
    <3>1. after[c] = kept /\ hits'[c] = hits[c] /\ swept = {}
      BY <1>1, <1>4, <2>1 DEF RateInv
    <3>. QED
      BY <1>2, <1>3, <1>4, <3>1 DEF ClientOK
  <2>2. CASE ~(Len(kept) >= RateMax)
    <3>1. after[c] = hit /\ hits'[c] = hit
      BY <1>1, <1>3, <2>2 DEF RateInv
    <3>2. /\ hit \in Seq(Times) /\ Len(hit) <= RateMax /\ Ordered(hit)
          /\ hit # <<>> /\ hit[Len(hit)] = clock /\ LastOf(hit, hit)
      BY <1>2, <1>3, <1>4, <2>2, HitRecorded DEF ClientOK
    <3>. HIDE DEF hit, after
    <3>3. ~Stale(after[c])
      BY <1>2, <3>1, <3>2, RequestLimitsAssumption DEF Stale, Outside, Times
    <3>. QED
      BY <3>1, <3>2, <3>3
  <2>. QED
    BY <2>1, <2>2
<1>6. ASSUME NEW o \in Clients, o # c
      PROVE  after[o] = bucket[o] /\ hits'[o] = hits[o] /\ ClientOK(o)
  BY <1>1, <1>6 DEF RateInv
<1>7. hits' \in [Clients -> Seq(Times)]
  <2>1. hits' = [hits EXCEPT ![c] = hits'[c]]
    BY <1>1 DEF RateInv
  <2>. QED
    BY <1>5, <2>1 DEF RateInv
<1>8. ASSUME NEW o \in Clients PROVE after[o] \in Seq(Times)
  BY <1>5, <1>6 DEF RateInv
<1>9. \A o \in swept : Stale(after[o]) /\ o # c
  BY <1>5
<1>10. tracked' \subseteq Clients /\ \A o \in Clients : o \notin tracked' => o \in swept \/ (o \notin tracked /\ o # c)
  BY <1>1 DEF RateInv
<1>. HIDE DEF after, swept, known
<1>11. bucket' \in [Clients -> Seq(Times)]
  <2>1. <<>> \in Seq(Times)
    BY EmptySeq
  <2>. QED
    BY <1>1, <1>8, <2>1
<1>12. ASSUME NEW o \in Clients PROVE ClientOK(o)'
  <2>1. CASE o \in swept
    <3>1. bucket'[o] = <<>> /\ hits'[o] = hits[o] /\ o # c /\ Stale(bucket[o])
      BY <1>1, <1>6, <1>9, <2>1
    <3>2. /\ bucket[o] \in Seq(Times) /\ hits[o] \in Seq(Times)
          /\ Len(hits[o]) <= RateMax /\ Ordered(hits[o]) /\ LastOf(bucket[o], hits[o])
      BY <1>6, <3>1 DEF ClientOK, RateInv
    <3>3. LastOf(<<>>, hits[o])
      BY <1>2, <3>1, <3>2, NothingLeft
    <3>. QED
      BY <1>1, <3>1, <3>2, <3>3, ClientStands
  <2>2. CASE o \notin swept
    <3>1. bucket'[o] = after[o]
      BY <1>1, <2>2
    <3>2. CASE o = c
      BY <1>1, <1>5, <1>10, <2>2, <3>1, <3>2, ClientStands
    <3>3. CASE o # c
      <4>1. bucket'[o] = bucket[o] /\ hits'[o] = hits[o] /\ ClientOK(o)
        BY <1>6, <3>1, <3>3
      <4>2. /\ Len(hits[o]) <= RateMax /\ Ordered(hits[o]) /\ LastOf(bucket[o], hits[o])
            /\ o \notin tracked' => bucket[o] = <<>>
        BY <1>10, <2>2, <4>1 DEF ClientOK
      <4>. QED
        BY <1>1, <4>1, <4>2, ClientStands
    <3>. QED
      BY <3>2, <3>3
  <2>. QED
    BY <2>1, <2>2
<1>. QED
  BY <1>1, <1>2, <1>7, <1>10, <1>11, <1>12 DEF RateInv

\* The clock only goes on: what is outside stays outside.
LEMMA ClockKeeps ==
  ASSUME RateInv, clock' \in Times, clock <= clock', UNCHANGED <<bucket, tracked, hits>>
  PROVE  RateInv'
<1>1. Times \subseteq Nat /\ RateWindow \in Nat
  BY RequestLimitsAssumption DEF Times
<1>2. ASSUME NEW c \in Clients PROVE ClientOK(c)'
  <2>1. /\ bucket[c] \in Seq(Times) /\ hits[c] \in Seq(Times) /\ ClientOK(c)
        /\ clock \in Nat /\ clock' \in Nat
    BY <1>1 DEF RateInv
  <2>2. \A i \in 1..Len(hits[c]) : /\ hits[c][i] \in Nat
                                   /\ Outside(hits[c][i]) => Outside(hits[c][i])'
    <3>1. \A i \in 1..Len(hits[c]) : hits[c][i] \in Nat
      BY <1>1, <2>1, ElementOfSeq
    <3>. QED
      BY <1>1, <2>1, <3>1 DEF Outside
  <2>3. Ordered(hits[c])'
    BY <2>1, <2>2 DEF Ordered, ClientOK
  <2>4. LastOf(bucket[c], hits[c])'
    <3>1. PICK k \in 0..Len(hits[c]) :
            /\ Len(bucket[c]) = Len(hits[c]) - k
            /\ \A i \in 1..Len(bucket[c]) : bucket[c][i] = hits[c][i + k]
            /\ \A i \in 1..k : Outside(hits[c][i])
      BY <2>1 DEF ClientOK, LastOf
    <3>2. \A i \in 1..k : i \in 1..Len(hits[c])
      BY <2>1, LenProperties
    <3>3. \A i \in 1..k : Outside(hits[c][i])'
      BY <2>2, <3>1, <3>2
    <3>. QED
      BY <3>1, <3>3 DEF LastOf
  <2>. QED
    BY <2>1, <2>3, <2>4 DEF ClientOK
<1>. QED
  BY <1>2 DEF RateInv

LEMMA InitRate == InitLimits => RateInv
<1>. SUFFICES ASSUME InitLimits PROVE RateInv
  OBVIOUS
<1>1. <<>> \in Seq(Times) /\ Len(<<>>) = 0 /\ 0 \in Times /\ RateMax \in Nat
  BY EmptySeq, RequestLimitsAssumption DEF Times
<1>2. LastOf(<<>>, <<>>) /\ Ordered(<<>>)
  BY <1>1 DEF LastOf, Ordered
<1>. QED
  BY <1>1, <1>2 DEF InitLimits, RateInv, ClientOK

LEMMA RateStep ==
  ASSUME RateInv, [NextLimits]_limitsVars
  PROVE  RateInv'
<1>1. /\ clock \in Times /\ Times \subseteq Nat /\ EndOfTime \in Nat
  BY RequestLimitsAssumption DEF RateInv, Times
<1>2. CASE TimePasses
  <2>1. clock' \in Times /\ clock <= clock'
    BY <1>1, <1>2 DEF TimePasses, Times
  <2>. QED
    BY <1>2, <2>1, ClockKeeps DEF TimePasses
<1>3. ASSUME NEW c \in Clients, NEW q \in Requests, Admit(c, q) PROVE RateInv'
  BY <1>3, AdmitKeeps
<1>4. CASE UNCHANGED <<clock, bucket, tracked, hits>>
  <2>1. clock' \in Times /\ clock <= clock'
    BY <1>1, <1>4
  <2>. QED
    BY <1>4, <2>1, ClockKeeps
<1>. QED
  BY <1>2, <1>3, <1>4 DEF NextLimits, ReadClock, Reserve, RecordUsage, Abandon, limitsVars

\* Every window of every length lets each client through at most RateMax times, also
\* when its bucket was swept in between to make room; a bucket counts what its client's
\* hits count (_rate_limit_allow); and the quota of the whole resource holds.
THEOREM LimitsKept == LimitsSpec => []LimitsHold
<1>1. RateInv /\ QuotaInv => LimitsHold
  <2>. SUFFICES ASSUME RateInv, QuotaInv PROVE LimitsHold
    OBVIOUS
  <2>1. LimitsTypeOK /\ QuotaPerWindow
    BY DEF RateInv, QuotaInv, LimitsTypeOK
  <2>2. ASSUME NEW c \in Clients
        PROVE  /\ Cardinality({i \in DOMAIN hits[c] : ~Outside(hits[c][i])}) <= RateMax
               /\ Recent(bucket[c]) = Recent(hits[c])
               /\ c \notin tracked => bucket[c] = <<>>
    <3>1. bucket[c] \in Seq(Times) /\ hits[c] \in Seq(Times) /\ ClientOK(c)
      BY DEF RateInv
    <3>2. Len(hits[c]) \in Nat /\ DOMAIN hits[c] = 1..Len(hits[c])
      BY <3>1, LenProperties
    <3>. DEFINE counting == {i \in DOMAIN hits[c] : ~Outside(hits[c][i])}
    <3>3. IsFiniteSet(1..Len(hits[c])) /\ Cardinality(1..Len(hits[c])) = Len(hits[c])
      BY <3>2, FS_Interval
    <3>4. counting \in SUBSET (1..Len(hits[c]))
      BY <3>2
    <3>. HIDE DEF counting
    <3>5. IsFiniteSet(counting) /\ Cardinality(counting) <= Len(hits[c])
      BY <3>3, <3>4, FS_Subset
    <3>6. Cardinality(counting) <= RateMax
      BY <3>1, <3>2, <3>5, FS_CardinalityType, RequestLimitsAssumption DEF ClientOK
    <3>. QED
      BY <3>1, <3>6, CountsTheSame DEF ClientOK, counting
  <2>. QED
    BY <2>1, <2>2 DEF LimitsHold, RateBounded
<1>. QED
  BY InitQuota, LimitsStep, InitRate, RateStep, <1>1, PTL DEF LimitsSpec

-----------------------------------------------------------------------------
(***************************************************************************)
(* Sessions.  An id is given out once and its row is inserted once, by the *)
(* login that drew it: a row that a check finds was there, with the same   *)
(* token, at every earlier instant of the request.                         *)
(***************************************************************************)
\* The id of a login under way is nobody else's and in no row.
LoginOK(b) ==
  LET id == browser[b].new IN
  browser[b].at = "insert" =>
    /\ id # NoSession
    /\ \A row \in sessions : row.id # id
    /\ \A o \in Browsers : browser[o].cookie # id /\ (o # b => browser[o].new # id)

\* What authorize is about to accept was good when it read the file.
RequestOK(b) ==
  browser[b].phase = "authorize" /\ browser[b].at = "row" /\ Passed(b) => entitled[b]

SessionInv ==
  /\ SessionsTypeOK /\ ~stale /\ IsFiniteSet(sessions) /\ SessionsBounded
  /\ \A r, o \in sessions : r.id = o.id => r = o
  /\ \A row \in sessions : row.id <= created
  /\ \A b \in Browsers : /\ browser[b].new <= created /\ browser[b].cookie <= created
                         /\ browser[b].phase = "select" => browser[b].new # NoSession
                         /\ browser[b].phase \in {"authenticate", "authorize"}
                              => browser[b].cookie # NoSession
  /\ \A b \in Browsers : LoginOK(b) /\ RequestOK(b)
-----------------------------------------------------------------------------
\* A set of rows that no two of share an id has an oldest one.
LEMMA Oldest ==
  ASSUME NEW C \in SUBSET Row, C # {}, \A r, o \in C : r.id = o.id => r = o
  PROVE  \E m \in C : \A r \in C \ {m} : Newer(r, m)
<1>. DEFINE Mades == {r.made : r \in C}
<1>1. \A r \in C : r.made \in Nat /\ r.id \in Nat
  BY DEF Row, SessionIds
<1>2. PICK t \in Mades : \A n \in Mades : t <= n
  <2>1. Mades \in SUBSET Nat /\ Mades # {}
    BY <1>1
  <2>. HIDE DEF Mades
  <2>. QED
    BY <2>1, Least
<1>. DEFINE First == {r \in C : r.made = t}
            Ids == {r.id : r \in First}
<1>3. PICK i \in Ids : \A n \in Ids : i <= n
  <2>1. Ids \in SUBSET Nat /\ Ids # {}
    BY <1>1, <1>2
  <2>. HIDE DEF Ids
  <2>. QED
    BY <2>1, Least
<1>4. PICK m \in First : m.id = i
  BY <1>3
<1>5. ASSUME NEW r \in C \ {m} PROVE Newer(r, m)
  <2>1. t <= r.made /\ t = m.made /\ m \in C
    BY <1>2, <1>4
  <2>2. CASE r.made = t
    <3>1. i <= r.id
      BY <1>3, <2>2
    <3>2. r.id # m.id
      BY <2>1
    <3>. QED
      BY <1>1, <1>4, <2>1, <2>2, <3>1, <3>2 DEF Newer
  <2>. QED
    BY <1>1, <2>1, <2>2 DEF Newer
<1>. QED
  BY <1>4, <1>5

\* The cap: the rows it keeps are those newer than the oldest of them, and that one.
LEMMA CapHolds ==
  ASSUME NEW table \in SUBSET Row, IsFiniteSet(table),
         \A r, o \in table : r.id = o.id => r = o
  PROVE  Cardinality(Capped(table)) <= MaxSessions
<1>. DEFINE C == Capped(table)
<1>0. MaxSessions \in Nat \ {0}
  BY SessionsAssumption
<1>1. C \in SUBSET table
  BY DEF Capped
<1>2. CASE C = {}
  BY <1>0, <1>2, FS_EmptySet
<1>3. CASE C # {}
  <2>1. PICK m \in C : \A r \in C \ {m} : Newer(r, m)
    <3>. HIDE DEF C
    <3>. QED
      BY <1>1, <1>3, Oldest
  <2>. DEFINE Above == {o \in table : Newer(o, m)}
  <2>2. Cardinality(Above) < MaxSessions
    BY <2>1 DEF Capped
  <2>3. C \ {m} \in SUBSET Above /\ Above \in SUBSET table
    BY <1>1, <2>1
  <2>. HIDE DEF C, Above
  <2>4. IsFiniteSet(Above) /\ Cardinality(Above) \in Nat
    BY <2>3, FS_Subset, FS_CardinalityType
  <2>5. /\ Cardinality(C \ {m}) <= Cardinality(Above)
        /\ IsFiniteSet(C \ {m}) /\ Cardinality(C \ {m}) \in Nat
    BY <2>3, <2>4, FS_Subset, FS_CardinalityType
  <2>6. Cardinality((C \ {m}) \cup {m}) = Cardinality(C \ {m}) + 1
    BY <2>5, FS_AddElement
  <2>7. (C \ {m}) \cup {m} = C
    BY <2>1
  <2>8. Cardinality(C) = Cardinality(C \ {m}) + 1
    BY <2>6, <2>7
  <2>9. \A c, a, d, k \in Nat : c = d + 1 /\ d <= a /\ a < k => c <= k
    OBVIOUS
  <2>10. Cardinality(C) <= MaxSessions
    BY <1>0, <2>2, <2>4, <2>5, <2>8, <2>9
  <2>. QED
    BY <2>10 DEF C
<1>. QED
  BY <1>2, <1>3

LEMMA QuietRecord ==
  ASSUME NEW cookie \in SessionIds \cup {NoSession}
  PROVE  /\ Quiet(cookie) \in BrowserRecord
         /\ Quiet(cookie).cookie = cookie /\ Quiet(cookie).new = NoSession
         /\ Quiet(cookie).at = "idle" /\ Quiet(cookie).phase = "none"
BY SessionsAssumption DEF Quiet, BrowserRecord, Phases, Config, Start

LEMMA InitSessionInv == InitSessions => SessionInv
<1>. SUFFICES ASSUME InitSessions PROVE SessionInv
  OBVIOUS
<1>1. \A b \in Browsers : browser[b] = Quiet(NoSession)
  BY DEF InitSessions
<1>2. /\ Quiet(NoSession) \in BrowserRecord
      /\ Quiet(NoSession).cookie = NoSession /\ Quiet(NoSession).new = NoSession
      /\ Quiet(NoSession).at = "idle" /\ Quiet(NoSession).phase = "none"
  BY QuietRecord
<1>3. SessionsTypeOK
  <2>1. config \in Config /\ seconds \in 0..LastSecond /\ created \in 0..MaxLogins
    BY SessionsAssumption DEF InitSessions, Start, Config
  <2>2. browser \in [Browsers -> BrowserRecord]
    BY <1>2 DEF InitSessions
  <2>3. entitled \in [Browsers -> BOOLEAN] /\ stale \in BOOLEAN /\ sessions \subseteq Row
    BY DEF InitSessions
  <2>. QED
    BY <2>1, <2>2, <2>3 DEF SessionsTypeOK
<1>4. IsFiniteSet(sessions) /\ SessionsBounded
  BY FS_EmptySet, SessionsAssumption DEF InitSessions, SessionsBounded
<1>5. \A b \in Browsers : LoginOK(b) /\ RequestOK(b)
  BY <1>1, <1>2 DEF LoginOK, RequestOK
<1>6. \A b \in Browsers : /\ browser[b].new <= created /\ browser[b].cookie <= created
                         /\ browser[b].phase = "none"
  BY <1>1, <1>2 DEF InitSessions, NoSession
<1>. QED
  BY <1>3, <1>4, <1>5, <1>6 DEF SessionInv, InitSessions

\* A browser's record at one place of a request.
LEMMA AtRecord ==
  ASSUME SessionsTypeOK, NEW b \in Browsers, NEW at, NEW phase
  PROVE  /\ At(b, at, phase) = [browser EXCEPT ![b] = At(b, at, phase)[b]]
         /\ At(b, at, phase)[b].cookie = browser[b].cookie
         /\ At(b, at, phase)[b].new = browser[b].new
         /\ At(b, at, phase)[b].at = at
         /\ At(b, at, phase)[b].phase = phase
         /\ at \in {"config", "row", "dropNew", "dropOld"} /\ phase \in Phases
              => At(b, at, phase)[b] \in BrowserRecord
<1>1. browser[b] \in BrowserRecord
  BY DEF SessionsTypeOK
<1>2. Quiet(browser[b].cookie) \in BrowserRecord
  BY <1>1, QuietRecord DEF BrowserRecord
<1>3. At(b, at, phase)[b] =
        [Quiet(browser[b].cookie) EXCEPT !.new = browser[b].new, !.at = at, !.phase = phase]
  BY DEF At, SessionsTypeOK
<1>4. At(b, at, phase) = [browser EXCEPT ![b] = At(b, at, phase)[b]]
  BY <1>3 DEF At, SessionsTypeOK
<1>5. Quiet(browser[b].cookie).cookie = browser[b].cookie
  BY <1>1, QuietRecord DEF BrowserRecord
<1>. QED
  BY <1>1, <1>2, <1>3, <1>4, <1>5 DEF BrowserRecord

-----------------------------------------------------------------------------
\* One browser goes on and rows may go; no id is drawn and no row is made.
LEMMA GoesOn ==
  ASSUME SessionInv, NEW b \in Browsers, NEW r \in BrowserRecord,
         browser' = [browser EXCEPT ![b] = r],
         r.at # "insert", r.new \in {browser[b].new, NoSession},
         r.cookie \in {browser[b].cookie, browser[b].new, NoSession},
         r.phase = "select" => r.new # NoSession,
         r.phase \in {"authenticate", "authorize"} => r.cookie # NoSession,
         sessions' \subseteq sessions, created' = created, seconds' = seconds,
         config' = config, ~stale', stale' \in BOOLEAN, entitled' \in [Browsers -> BOOLEAN],
         \A q \in Browsers \ {b} : entitled'[q] = entitled[q],
         RequestOK(b)'
  PROVE  SessionInv'
<1>. USE DEF SessionInv
<1>1. /\ browser'[b] = r
      /\ \A q \in Browsers \ {b} : browser'[q] = browser[q]
  BY DEF SessionsTypeOK
<1>2. SessionsTypeOK' /\ ~stale'
  BY DEF SessionsTypeOK
<1>3. IsFiniteSet(sessions') /\ SessionsBounded'
  <2>1. IsFiniteSet(sessions') /\ Cardinality(sessions') <= Cardinality(sessions)
    BY FS_Subset
  <2>2. Cardinality(sessions') \in Nat /\ Cardinality(sessions) \in Nat
    BY <2>1, FS_CardinalityType
  <2>. QED
    BY <2>1, <2>2, SessionsAssumption DEF SessionsBounded
<1>4. created \in Nat /\ NoSession <= created
  BY SessionsAssumption DEF SessionsTypeOK, NoSession
<1>5. \A row, o \in sessions' : row.id = o.id => row = o
  OBVIOUS
<1>6. \A row \in sessions' : row.id <= created'
  OBVIOUS
<1>7. ASSUME NEW q \in Browsers
      PROVE  /\ browser'[q].new <= created' /\ browser'[q].cookie <= created'
             /\ browser'[q].phase = "select" => browser'[q].new # NoSession
             /\ browser'[q].phase \in {"authenticate", "authorize"}
                  => browser'[q].cookie # NoSession
  BY <1>1, <1>4, <1>7
<1>8. ASSUME NEW q \in Browsers PROVE LoginOK(q)'
  <2>1. CASE q = b
    BY <1>1, <2>1 DEF LoginOK
  <2>2. CASE q # b
    BY <1>1, <2>2 DEF LoginOK
  <2>. QED
    BY <2>1, <2>2
<1>9. ASSUME NEW q \in Browsers PROVE RequestOK(q)'
  BY <1>1, <1>9 DEF RequestOK, Passed, Matches, Subject, Live
<1>. QED
  BY <1>2, <1>3, <1>5, <1>6, <1>7, <1>8, <1>9

LEMMA BeginLoginInv ==
  ASSUME SessionInv, NEW b \in Browsers, NEW token \in 1..MaxToken, BeginLogin(b, token)
  PROVE  SessionInv'
<1>. DEFINE r == browser'[b]
<1>1. /\ r.cookie = browser[b].cookie /\ r.at = "insert" /\ r.phase = "select"
      /\ r.new = created + 1
      /\ r \in [cookie : SessionIds \cup {NoSession}, new : {created + 1},
                at : {"insert"}, phase : {"select"}, read : Config, typed : 1..MaxToken,
                now : Nat]
      /\ \A q \in Browsers \ {b} : browser'[q] = browser[q]
      /\ DOMAIN browser' = Browsers
      /\ browser' = [q \in Browsers |-> browser'[q]]
  <2>1. browser[b] \in BrowserRecord /\ seconds \in Nat
    BY SessionsAssumption DEF SessionInv, SessionsTypeOK
  <2>2. browser' = [browser EXCEPT ![b] =
          [browser[b] EXCEPT !.at = "insert", !.phase = "select", !.new = created + 1,
                             !.typed = token, !.now = seconds]]
    BY DEF BeginLogin
  <2>. QED
    BY <2>1, <2>2 DEF SessionInv, SessionsTypeOK, BrowserRecord
<1>. HIDE DEF r
<1>2. /\ created' = created + 1 /\ created \in Nat /\ created' \in SessionIds
      /\ created' \in 0..MaxLogins
  BY SessionsAssumption DEF SessionInv, SessionsTypeOK, BeginLogin, SessionIds
<1>3. UNCHANGED <<config, sessions, seconds, entitled, stale>>
  BY DEF BeginLogin
<1>4. SessionsTypeOK'
  <2>1. r \in BrowserRecord
    BY <1>1, <1>2 DEF BrowserRecord, Phases, r
  <2>2. browser' \in [Browsers -> BrowserRecord]
    BY <1>1, <2>1 DEF SessionInv, SessionsTypeOK, r
  <2>. QED
    BY <1>2, <1>3, <2>2 DEF SessionInv, SessionsTypeOK
<1>5. /\ IsFiniteSet(sessions') /\ SessionsBounded' /\ ~stale'
      /\ \A x, o \in sessions' : x.id = o.id => x = o
  BY <1>3 DEF SessionInv, SessionsBounded
<1>6. \A row \in sessions : row.id \in Nat /\ row.id <= created
  BY DEF SessionInv, SessionsTypeOK, Row, SessionIds
<1>7. \A q \in Browsers : /\ browser[q].new \in Nat /\ browser[q].cookie \in Nat
                          /\ browser[q].new <= created /\ browser[q].cookie <= created
  BY DEF SessionInv, SessionsTypeOK, BrowserRecord, SessionIds, NoSession
<1>8. ASSUME NEW q \in Browsers
      PROVE  /\ browser'[q].new <= created' /\ browser'[q].cookie <= created'
             /\ browser'[q].phase = "select" => browser'[q].new # NoSession
             /\ browser'[q].phase \in {"authenticate", "authorize"}
                  => browser'[q].cookie # NoSession
  <2>1. CASE q = b
    BY <1>1, <1>2, <1>7, <2>1 DEF r, NoSession
  <2>2. CASE q # b
    BY <1>1, <1>2, <1>7, <2>2 DEF SessionInv
  <2>. QED
    BY <2>1, <2>2
<1>9. ASSUME NEW q \in Browsers PROVE LoginOK(q)'
  <2>1. CASE q = b
    BY <1>1, <1>2, <1>3, <1>6, <1>7, <2>1 DEF LoginOK, r, NoSession
  <2>2. CASE q # b
    <3>1. LoginOK(q)
      BY DEF SessionInv
    <3>2. browser'[b].new # browser[q].new
      BY <1>1, <1>2, <1>7 DEF r
    <3>3. browser'[b].cookie = browser[b].cookie
      BY <1>1 DEF r
    <3>. QED
      BY <1>1, <1>3, <2>2, <3>1, <3>2, <3>3 DEF LoginOK
  <2>. QED
    BY <2>1, <2>2
<1>10. ASSUME NEW q \in Browsers PROVE RequestOK(q)'
  <2>1. CASE q = b
    BY <1>1, <2>1 DEF RequestOK, r
  <2>2. CASE q # b
    BY <1>1, <1>3, <2>2 DEF SessionInv, RequestOK, Passed, Matches, Subject, Live
  <2>. QED
    BY <2>1, <2>2
<1>11. \A row \in sessions' : row.id <= created'
  BY <1>2, <1>3, <1>6
<1>. QED
  BY <1>4, <1>5, <1>8, <1>9, <1>10, <1>11 DEF SessionInv

LEMMA InsertInv ==
  ASSUME SessionInv, NEW b \in Browsers, InsertSession(b)
  PROVE  SessionInv'
<1>. DEFINE r == browser[b]
            new == [id |-> r.new, token |-> r.typed, expires |-> r.now + Lifetime,
                    made |-> r.now]
            table == {o \in sessions : o.expires > r.now} \cup {new}
<1>1. sessions' = Capped(table) /\ browser' = At(b, "config", "select")
  BY DEF InsertSession
<1>2. UNCHANGED Rest /\ r.at = "insert"
  BY DEF InsertSession
<1>3. r \in BrowserRecord /\ SessionsTypeOK
  BY DEF SessionInv, SessionsTypeOK
<1>4. /\ r.new # NoSession /\ \A row \in sessions : row.id # r.new
      /\ \A q \in Browsers : /\ browser[q].cookie # r.new
                             /\ q # b => browser[q].new # r.new
  BY <1>2 DEF SessionInv, LoginOK
<1>5. new \in Row /\ new.id = r.new
  BY <1>3, <1>4, SessionsAssumption DEF Row, BrowserRecord
<1>6. table \in SUBSET Row /\ IsFiniteSet(table)
  <2>1. {o \in sessions : o.expires > r.now} \in SUBSET sessions
    OBVIOUS
  <2>2. IsFiniteSet({o \in sessions : o.expires > r.now})
    BY <2>1, FS_Subset DEF SessionInv
  <2>3. IsFiniteSet(table)
    <3>. HIDE DEF new
    <3>. QED
      BY <2>2, FS_AddElement
  <2>. QED
    BY <1>3, <1>5, <2>1, <2>3 DEF SessionsTypeOK
<1>. HIDE DEF new
<1>7. \A x, o \in table : x.id = o.id => x = o
  BY <1>4, <1>5 DEF SessionInv
<1>8. \A row \in table : row \in sessions \/ row = new
  OBVIOUS
<1>9. created \in Nat /\ r.new <= created
  BY SessionsAssumption DEF SessionInv, SessionsTypeOK
<1>. HIDE DEF table
<1>10. Capped(table) \in SUBSET table /\ Cardinality(Capped(table)) <= MaxSessions
  BY <1>6, <1>7, CapHolds DEF Capped
<1>11. IsFiniteSet(Capped(table))
  BY <1>6, <1>10, FS_Subset
<1>12. /\ browser' = [browser EXCEPT ![b] = browser'[b]]
       /\ browser'[b] \in BrowserRecord
       /\ browser'[b].cookie = r.cookie /\ browser'[b].new = r.new
       /\ browser'[b].at = "config" /\ browser'[b].phase = "select"
  BY <1>1, <1>3, AtRecord DEF Phases
<1>13. \A q \in Browsers \ {b} : browser'[q] = browser[q]
  BY <1>3, <1>12 DEF SessionsTypeOK
<1>14. SessionsTypeOK'
  BY <1>1, <1>2, <1>3, <1>6, <1>10, <1>12 DEF SessionsTypeOK, Rest
<1>15. /\ IsFiniteSet(sessions') /\ SessionsBounded' /\ ~stale'
       /\ \A x, o \in sessions' : x.id = o.id => x = o
  BY <1>1, <1>2, <1>7, <1>10, <1>11 DEF SessionInv, SessionsBounded, Rest
<1>16. \A row \in sessions' : row.id <= created'
  BY <1>1, <1>2, <1>5, <1>8, <1>9, <1>10 DEF SessionInv, Rest
<1>17. ASSUME NEW q \in Browsers
       PROVE  /\ browser'[q].new <= created' /\ browser'[q].cookie <= created'
              /\ browser'[q].phase = "select" => browser'[q].new # NoSession
              /\ browser'[q].phase \in {"authenticate", "authorize"}
                   => browser'[q].cookie # NoSession
  BY <1>2, <1>4, <1>12, <1>13 DEF SessionInv, Rest
<1>18. ASSUME NEW q \in Browsers PROVE LoginOK(q)'
  <2>1. CASE q = b
    BY <1>12, <2>1 DEF LoginOK
  <2>2. CASE q # b
    <3>0. browser'[q] = browser[q]
      BY <1>13, <2>2
    <3>. SUFFICES ASSUME browser[q].at = "insert" PROVE LoginOK(q)'
      BY <3>0 DEF LoginOK
    <3>1. /\ browser[q].new # NoSession
          /\ \A row \in sessions : row.id # browser[q].new
          /\ \A p \in Browsers : browser[p].cookie # browser[q].new
               /\ (p # q => browser[p].new # browser[q].new)
      BY DEF SessionInv, LoginOK
    <3>2. new.id # browser[q].new
      <4>1. browser[b].new # browser[q].new
        BY <2>2, <3>1
      <4>2. new.id = browser[b].new
        BY <1>5
      <4>. QED
        BY <4>1, <4>2
    <3>3. \A row \in sessions' : row.id # browser[q].new
      BY <1>1, <1>8, <1>10, <3>1, <3>2
    <3>4. \A p \in Browsers : browser'[p].cookie # browser[q].new
               /\ (p # q => browser'[p].new # browser[q].new)
      BY <1>12, <1>13, <3>1
    <3>. QED
      BY <3>0, <3>1, <3>3, <3>4 DEF LoginOK
  <2>. QED
    BY <2>1, <2>2
<1>19. ASSUME NEW q \in Browsers PROVE RequestOK(q)'
  <2>1. CASE q = b
    BY <1>12, <2>1 DEF RequestOK
  <2>2. CASE q # b
    <3>. SUFFICES ASSUME browser[q].phase = "authorize", browser[q].at = "row", Passed(q)'
                  PROVE  Passed(q)
      BY <1>2, <1>13, <2>2 DEF SessionInv, RequestOK, Rest
    <3>1. browser[q].cookie # new.id
      BY <1>4, <1>5
    <3>2. \A row \in sessions' : row.id = browser[q].cookie => row \in sessions
      BY <1>1, <1>8, <1>10, <3>1
    <3>. QED
      BY <1>2, <1>13, <2>2, <3>2 DEF Passed, Matches, Subject, Live, Rest
  <2>. QED
    BY <2>1, <2>2
<1>. QED
  BY <1>14, <1>15, <1>16, <1>17, <1>18, <1>19 DEF SessionInv

LEMMA DropInv ==
  ASSUME SessionInv, NEW b \in Browsers, DropSession(b)
  PROVE  SessionInv'
<1>. DEFINE cookie == IF browser[b].at = "dropNew" THEN browser[b].cookie
                      ELSE IF browser[b].phase = "logout" THEN NoSession ELSE browser[b].new
<1>1. browser[b] \in BrowserRecord
  BY DEF SessionInv, SessionsTypeOK
<1>2. /\ cookie \in SessionIds \cup {NoSession}
      /\ cookie \in {browser[b].cookie, browser[b].new, NoSession}
  BY <1>1 DEF BrowserRecord
<1>3. browser' = [browser EXCEPT ![b] = Quiet(cookie)]
  BY DEF DropSession
<1>4. sessions' \subseteq sessions /\ UNCHANGED Rest
  BY DEF DropSession
<1>. HIDE DEF cookie
<1>5. RequestOK(b)'
  <2>1. browser'[b] = Quiet(cookie)
    BY <1>3 DEF SessionInv, SessionsTypeOK
  <2>. QED
    BY <1>2, <2>1, QuietRecord DEF RequestOK
<1>6. ~stale /\ stale \in BOOLEAN /\ entitled \in [Browsers -> BOOLEAN]
  BY DEF SessionInv, SessionsTypeOK
<1>. QED
  BY <1>2, <1>3, <1>4, <1>5, <1>6, QuietRecord, GoesOn DEF Rest

LEMMA BeginRequestInv ==
  ASSUME SessionInv, NEW b \in Browsers, NEW phase \in Phases, BeginRequest(b, phase)
  PROVE  SessionInv'
<1>1. /\ browser[b].cookie # NoSession /\ phase \in {"authenticate", "logout"}
      /\ browser' = At(b, "config", phase) /\ UNCHANGED <<sessions, Rest>>
  BY DEF BeginRequest
<1>2. SessionsTypeOK /\ ~stale /\ stale \in BOOLEAN /\ entitled \in [Browsers -> BOOLEAN]
  BY DEF SessionInv, SessionsTypeOK
<1>3. /\ browser' = [browser EXCEPT ![b] = browser'[b]]
      /\ browser'[b] \in BrowserRecord
      /\ browser'[b].cookie = browser[b].cookie /\ browser'[b].new = browser[b].new
      /\ browser'[b].at = "config" /\ browser'[b].phase = phase
  BY <1>1, <1>2, AtRecord
<1>4. RequestOK(b)'
  BY <1>3 DEF RequestOK
<1>. QED
  BY <1>1, <1>2, <1>3, <1>4, GoesOn DEF Rest

LEMMA ReadConfigInv ==
  ASSUME SessionInv, NEW b \in Browsers, NEW readable \in BOOLEAN, ReadConfig(b, readable)
  PROVE  SessionInv'
<1>0. /\ SessionsTypeOK /\ ~stale /\ stale \in BOOLEAN /\ browser[b] \in BrowserRecord
      /\ browser[b].at = "config"
      /\ UNCHANGED <<config, sessions, seconds, created, stale>>
  BY DEF SessionInv, SessionsTypeOK, ReadConfig
<1>1. CASE readable
  <2>. DEFINE r == [browser[b] EXCEPT !.at = "row", !.read = config]
  <2>1. browser' = [browser EXCEPT ![b] = r]
    BY <1>1 DEF ReadConfig
  <2>2. /\ r \in BrowserRecord /\ r.cookie = browser[b].cookie /\ r.new = browser[b].new
        /\ r.at = "row" /\ r.phase = browser[b].phase /\ r.read = config
    BY <1>0 DEF BrowserRecord, SessionsTypeOK
  <2>. HIDE DEF r
  <2>3. /\ entitled' \in [Browsers -> BOOLEAN]
        /\ \A q \in Browsers \ {b} : entitled'[q] = entitled[q]
        /\ r.phase = "authorize" /\ Good(r.cookie) => entitled'[b]
    BY <1>0, <1>1, <2>2 DEF ReadConfig, SessionsTypeOK
  <2>4. browser'[b] = r
    BY <1>0, <2>1 DEF SessionsTypeOK
  <2>5. RequestOK(b)'
    <3>. SUFFICES ASSUME r.phase = "authorize", Passed(b)' PROVE Good(r.cookie)
      BY <2>2, <2>3, <2>4 DEF RequestOK
    <3>. QED
      BY <1>0, <2>2, <2>4 DEF Passed, Matches, Subject, Good, Live
  <2>6. /\ r.phase = "select" => r.new # NoSession
        /\ r.phase \in {"authenticate", "authorize"} => r.cookie # NoSession
    BY <2>2 DEF SessionInv
  <2>. QED
    BY <1>0, <2>1, <2>2, <2>3, <2>5, <2>6, GoesOn
<1>2. CASE ~readable
  <2>1. browser' = Unreadable(b) /\ entitled' = [entitled EXCEPT ![b] = FALSE]
    BY <1>2 DEF ReadConfig
  <2>2. /\ entitled' \in [Browsers -> BOOLEAN]
        /\ \A q \in Browsers \ {b} : entitled'[q] = entitled[q]
    BY <1>0, <2>1 DEF SessionsTypeOK
  <2>3. ASSUME NEW r \in BrowserRecord, browser' = [browser EXCEPT ![b] = r],
               r.at \in {"dropNew", "idle"}, r.phase \in {"select", "none"},
               r.phase = "select" => r.new # NoSession,
               r.new \in {browser[b].new, NoSession},
               r.cookie \in {browser[b].cookie, browser[b].new, NoSession}
        PROVE  SessionInv'
    <3>1. browser'[b] = r
      BY <1>0, <2>3 DEF SessionsTypeOK
    <3>2. RequestOK(b)'
      BY <2>3, <3>1 DEF RequestOK
    <3>. QED
      BY <1>0, <2>2, <2>3, <3>2, GoesOn
  <2>4. CASE browser[b].phase = "select"
    <3>1. browser' = At(b, "dropNew", "select") /\ browser[b].new # NoSession
      BY <2>1, <2>4 DEF Unreadable, SessionInv
    <3>2. /\ browser' = [browser EXCEPT ![b] = browser'[b]]
          /\ browser'[b] \in BrowserRecord
          /\ browser'[b].cookie = browser[b].cookie /\ browser'[b].new = browser[b].new
          /\ browser'[b].at = "dropNew" /\ browser'[b].phase = "select"
      BY <1>0, <3>1, AtRecord DEF Phases
    <3>. QED
      BY <2>3, <3>1, <3>2
  <2>5. CASE browser[b].phase # "select"
    <3>1. PICK cookie \in {browser[b].cookie, browser[b].new} :
            browser' = [browser EXCEPT ![b] = Quiet(cookie)]
      BY <2>1, <2>5 DEF Unreadable
    <3>2. cookie \in SessionIds \cup {NoSession}
      BY <1>0, <3>1 DEF BrowserRecord
    <3>. QED
      BY <2>3, <3>1, <3>2, QuietRecord
  <2>. QED
    BY <2>4, <2>5
<1>. QED
  BY <1>1, <1>2

LEMMA ReadRowInv ==
  ASSUME SessionInv, NEW b \in Browsers, ReadRow(b)
  PROVE  SessionInv'
<1>0. /\ SessionsTypeOK /\ ~stale /\ stale \in BOOLEAN /\ browser[b] \in BrowserRecord
      /\ browser[b].at = "row"
      /\ UNCHANGED <<config, sessions, seconds, created>>
  BY DEF SessionInv, SessionsTypeOK, ReadRow
<1>1. ~stale' /\ stale' \in BOOLEAN
  <2>1. browser[b].phase = "authorize" /\ Passed(b) => entitled[b]
    BY <1>0 DEF SessionInv, RequestOK
  <2>. QED
    BY <1>0, <2>1 DEF ReadRow, SessionsTypeOK
<1>2. /\ entitled' \in [Browsers -> BOOLEAN]
      /\ \A q \in Browsers \ {b} : entitled'[q] = entitled[q]
  BY <1>0 DEF ReadRow, SessionsTypeOK
<1>3. ASSUME NEW r \in BrowserRecord, browser' = [browser EXCEPT ![b] = r],
             r.at \in {"config", "dropNew", "dropOld", "idle"},
             r.phase = "select" => r.new # NoSession,
             r.phase \in {"authenticate", "authorize"} => r.cookie # NoSession,
             r.new \in {browser[b].new, NoSession},
             r.cookie \in {browser[b].cookie, browser[b].new, NoSession}
      PROVE  SessionInv'
  <2>1. browser'[b] = r
    BY <1>0, <1>3 DEF SessionsTypeOK
  <2>2. RequestOK(b)'
    BY <1>3, <2>1 DEF RequestOK
  <2>. QED
    BY <1>0, <1>1, <1>2, <1>3, <2>2, GoesOn
<1>4. ASSUME NEW at \in {"config", "dropNew", "dropOld"},
             NEW phase \in Phases \ {"authenticate"},
             browser' = At(b, at, phase),
             phase = "select" => browser[b].new # NoSession,
             phase = "authorize" => browser[b].cookie # NoSession
      PROVE  SessionInv'
  <2>1. /\ browser' = [browser EXCEPT ![b] = browser'[b]]
        /\ browser'[b] \in BrowserRecord
        /\ browser'[b].cookie = browser[b].cookie /\ browser'[b].new = browser[b].new
        /\ browser'[b].at = at /\ browser'[b].phase = phase
    BY <1>0, <1>4, AtRecord
  <2>. QED
    BY <1>3, <1>4, <2>1
<1>5. ASSUME NEW cookie \in {browser[b].cookie, browser[b].new, NoSession},
             browser' = [browser EXCEPT ![b] = Quiet(cookie)]
      PROVE  SessionInv'
  <2>1. cookie \in SessionIds \cup {NoSession}
    BY <1>0 DEF BrowserRecord
  <2>. QED
    BY <1>3, <1>5, <2>1, QuietRecord
<1>6. /\ browser[b].phase \in Phases
      /\ browser[b].phase = "select" => browser[b].new # NoSession
      /\ browser[b].phase = "authenticate" => browser[b].cookie # NoSession
  BY <1>0 DEF BrowserRecord, SessionInv
<1>7. \/ \E at \in {"config", "dropNew", "dropOld"}, phase \in Phases \ {"authenticate"} :
           /\ browser' = At(b, at, phase)
           /\ phase = "select" => browser[b].phase = "select"
           /\ phase = "authorize" => browser[b].phase = "authenticate"
      \/ \E cookie \in {browser[b].cookie, browser[b].new, NoSession} :
           browser' = [browser EXCEPT ![b] = Quiet(cookie)]
  BY <1>6 DEF ReadRow, Phases
<1>. QED
  BY <1>4, <1>5, <1>6, <1>7

\* The clock moves or the operator edits: a row can only become worth less to a
\* request that has read its file.
LEMMA OutsideInv ==
  ASSUME SessionInv,
         SecondPasses \/ \E new \in Config : EditConfig(new)
  PROVE  SessionInv'
<1>1. /\ UNCHANGED <<sessions, browser, created, entitled, stale>>
      /\ config' \in Config /\ seconds' \in 0..LastSecond
      /\ seconds \in Nat /\ seconds' \in Nat /\ seconds <= seconds'
  BY SessionsAssumption DEF SessionInv, SessionsTypeOK, SecondPasses, EditConfig
<1>2. SessionsTypeOK' /\ SessionsBounded'
  BY <1>1 DEF SessionInv, SessionsTypeOK, SessionsBounded
<1>3. ASSUME NEW b \in Browsers PROVE LoginOK(b)'
  BY <1>1 DEF SessionInv, LoginOK
<1>4. ASSUME NEW b \in Browsers PROVE RequestOK(b)'
  <2>1. \A row \in sessions : Live(row)' => Live(row)
    BY <1>1 DEF Live, SessionInv, SessionsTypeOK, Row
  <2>2. Passed(b)' => Passed(b)
    BY <1>1, <2>1 DEF Passed, Matches, Subject
  <2>. QED
    BY <1>1, <2>2 DEF SessionInv, RequestOK
<1>. QED
  BY <1>1, <1>2, <1>3, <1>4 DEF SessionInv

LEMMA NextSessionInv ==
  ASSUME SessionInv, [NextSessions]_sessionVars
  PROVE  SessionInv'
<1>1. CASE UNCHANGED sessionVars
  <2>1. UNCHANGED <<config, sessions, browser, seconds, created, entitled, stale>>
    BY <1>1 DEF sessionVars
  <2>2. SessionsTypeOK' /\ SessionsBounded'
    BY <2>1 DEF SessionInv, SessionsTypeOK, SessionsBounded
  <2>3. \A b \in Browsers : LoginOK(b)' /\ RequestOK(b)'
    BY <2>1 DEF SessionInv, LoginOK, RequestOK, Passed, Matches, Subject, Live
  <2>. QED
    BY <2>1, <2>2, <2>3 DEF SessionInv
<1>. QED
  BY <1>1, BeginLoginInv, InsertInv, DropInv, ReadRowInv, ReadConfigInv, BeginRequestInv,
     OutsideInv DEF NextSessions

\* No request is accepted on a session that was good at no instant after it began, and
\* the table never holds more rows than its cap, for any number of browsers, logins,
\* rotations and seconds, whatever falls between the two reads of a check or between a
\* login and its transaction (identity.py, create_session and authenticate).
THEOREM SessionsKept == SessionsSpec => []SessionsHold
<1>1. InitSessions => SessionInv
  BY InitSessionInv
<1>2. SessionInv /\ [NextSessions]_sessionVars => SessionInv'
  BY NextSessionInv
<1>3. SessionInv => SessionsHold
  BY DEF SessionInv, SessionsHold, AcceptedWhileEntitled
<1>. QED
  BY <1>1, <1>2, <1>3, PTL DEF SessionsSpec

-----------------------------------------------------------------------------
(***************************************************************************)
(* No bundle leaks a piece, doubles or is torn down in the wrong order,    *)
(* for any number of workspaces, callers and bundles.                      *)
(*                                                                         *)
(* What a call owns follows from how far it has come (Stocked), and who is *)
(* building from the lock.  A bundle is counted where it can be found: in  *)
(* the cache, or in the hands of the one call that holds the lock.         *)
(*                                                                         *)
(* Then the websockets of a bundle, for any number of them.                *)
(***************************************************************************)
HasDriver(p) == "driver" \in p \/ Unreachable \in p

\* What a bundle has been given by the step it is at.
BuiltTo(p, step) ==
  /\ "descriptor" \in p <=> step > 1
  /\ HasDriver(p) <=> step > 2
  /\ "agent" \in p <=> step > 3
  /\ "jobs" \in p <=> step > 4
  /\ "research" \in p <=> step > 5

\* What a failed bundle may still have.
UnwoundTo(p, step) ==
  /\ "research" \notin p
  /\ "jobs" \in p => step < 2 /\ "agent" \in p /\ HasDriver(p)
  /\ HasDriver(p) => step < 3
  /\ "agent" \in p => step < 4
  /\ "descriptor" \in p => step < 5
  /\ p # {} => "descriptor" \in p

\* What a bundle that is shut down still has.
ClosedTo(p, step) ==
  /\ "research" \in p <=> step < 2
  /\ "jobs" \in p <=> step < 3
  /\ HasDriver(p) <=> step < 4
  /\ "agent" \in p <=> step < 5
  /\ "descriptor" \in p <=> step < 6

Stocked(c) ==
  /\ caller[c].at \in {"idle", "waiting"} => pieces[c] = {}
  /\ caller[c].at = "building" => caller[c].step \in 1..6 /\ BuiltTo(pieces[c], caller[c].step)
  /\ caller[c].at = "unwinding" => caller[c].step \in 1..5 /\ UnwoundTo(pieces[c], caller[c].step)
  /\ caller[c].at = "closing" => caller[c].step \in 1..5 /\ ClosedTo(pieces[c], caller[c].step)
  /\ caller[c].at = "over" =>
       IF cache[caller[c].ws] = c /\ caller[c].ws # Nobody
       THEN BuiltTo(pieces[c], 6) ELSE pieces[c] = {}

Working(c) == caller[c].at \in {"building", "unwinding"}

\* The lock is held by the one call that works, for a workspace nobody serves, while
\* the runtime is open and the cache has room.
Locked(c) ==
  /\ Working(c) <=> holder = c
  /\ Working(c) => /\ stopping \in {"no", "waiting"}
                   /\ cache[caller[c].ws] = Nobody
                   /\ Cardinality(Cached) < MaxBundles
  /\ caller[c].at = "closing" => stopping = "closing"
  /\ caller[c].at # "idle" => caller[c].ws \in Workspaces

CacheOK ==
  /\ \A w \in Workspaces : cache[w] # Nobody =>
       /\ stopping \in {"no", "waiting"}
       /\ caller[cache[w]].at = "over" /\ caller[cache[w]].ws = w
  /\ \A c, o \in Callers : caller[c].at = "closing" /\ caller[o].at = "closing"
                             /\ caller[c].ws = caller[o].ws => c = o
  /\ Cardinality(Cached) <= MaxBundles

Stockists == {c \in Callers : pieces[c] # {}}

RuntimeInv ==
  /\ RuntimeTypeOK
  /\ \A c \in Callers : Stocked(c) /\ Locked(c)
  /\ CacheOK
  /\ Cardinality(Stockists) <= MaxBundles

-----------------------------------------------------------------------------
(***************************************************************************)
(* The orders of building and of releasing, index by index.                *)
(***************************************************************************)
LEMMA Orders ==
  /\ Len(Building) = 5 /\ Len(Unwinding) = 4 /\ Len(Closing) = 5
  /\ Building[1] = "descriptor" /\ Building[2] = "driver" /\ Building[3] = "agent"
  /\ Building[4] = "jobs" /\ Building[5] = "research"
  /\ Unwinding[1] = "jobs" /\ Unwinding[2] = "driver" /\ Unwinding[3] = "agent"
  /\ Unwinding[4] = "descriptor"
  /\ Closing[1] = "research" /\ Closing[2] = "jobs" /\ Closing[3] = "driver"
  /\ Closing[4] = "agent" /\ Closing[5] = "descriptor"
BY DEF Building, Unwinding, Closing

LEMMA PieceNames ==
  Pieces = {"descriptor", "driver", "agent", "jobs", "research", Unreachable}
<1>1. DOMAIN Building = 1..5
  BY DEF Building
<1>2. {Building[i] : i \in 1..5} = {"descriptor", "driver", "agent", "jobs", "research"}
  <2>1. ASSUME NEW i \in 1..5 PROVE Building[i] \in {"descriptor", "driver", "agent", "jobs", "research"}
    <3>1. i = 1 \/ i = 2 \/ i = 3 \/ i = 4 \/ i = 5
      OBVIOUS
    <3>. QED
      BY <3>1, Orders
  <2>2. \A x \in {"descriptor", "driver", "agent", "jobs", "research"} : \E i \in 1..5 : x = Building[i]
    BY Orders
  <2>. QED
    BY <2>1, <2>2
<1>. QED
  BY <1>1, <1>2 DEF Pieces

\* A piece is released, and only that one; a driver in either form.
LEMMA Released ==
  ASSUME NEW c \in Callers, NEW piece, pieces \in [Callers -> SUBSET Pieces]
  PROVE  /\ Release(c, piece) \in [Callers -> SUBSET Pieces]
         /\ \A o \in Callers : o # c => Release(c, piece)[o] = pieces[o]
         /\ piece # "driver" => Release(c, piece)[c] = pieces[c] \ {piece}
         /\ piece = "driver" => Release(c, piece)[c] = pieces[c] \ {"driver", Unreachable}
BY DEF Release

LEMMA MoveOf ==
  ASSUME NEW c \in Callers, NEW at \in {"building", "unwinding", "closing", "over"},
         NEW step \in 0..6, caller \in [Callers -> CallerRecord]
  PROVE  /\ Moves(c, at, step) \in [Callers -> CallerRecord]
         /\ \A o \in Callers : o # c => Moves(c, at, step)[o] = caller[o]
         /\ Moves(c, at, step)[c].at = at
         /\ Moves(c, at, step)[c].step = step
         /\ Moves(c, at, step)[c].ws = caller[c].ws
<1>1. Len(Building) + 1 = 6
  BY Orders
<1>. QED
  BY <1>1 DEF Moves, CallerRecord

LEMMA Finite ==
  ASSUME RuntimeTypeOK
  PROVE  /\ IsFiniteSet(Cached) /\ Cardinality(Cached) \in Nat
         /\ IsFiniteSet(Stockists) /\ Cardinality(Stockists) \in Nat
<1>1. Cached \in SUBSET Workspaces /\ Stockists \in SUBSET Callers
  BY DEF Cached, Stockists
<1>. QED
  BY <1>1, WorkspaceRuntimeAssumption, FS_Subset, FS_CardinalityType

-----------------------------------------------------------------------------
LEMMA InitRuntimeInv == InitRuntime => RuntimeInv
<1>. SUFFICES ASSUME InitRuntime PROVE RuntimeInv
  OBVIOUS
<1>. USE DEF InitRuntime
<1>1. RuntimeTypeOK
  BY Orders DEF RuntimeTypeOK, CallerRecord
<1>2. \A c \in Callers : Stocked(c) /\ Locked(c)
  BY WorkspaceRuntimeAssumption DEF Stocked, Locked, Working
<1>3. Cached = {} /\ Stockists = {}
  BY DEF Cached, Stockists
<1>4. CacheOK
  BY <1>3, FS_EmptySet, WorkspaceRuntimeAssumption DEF CacheOK
<1>. QED
  BY <1>1, <1>2, <1>3, <1>4, FS_EmptySet, WorkspaceRuntimeAssumption DEF RuntimeInv

-----------------------------------------------------------------------------
(***************************************************************************)
(* The steps.                                                              *)
(***************************************************************************)
\* Losing pieces, or gaining none for the first time, does not count.
LEMMA NoNewStockist ==
  ASSUME RuntimeInv, pieces' \in [Callers -> SUBSET Pieces],
         \A o \in Callers : pieces[o] = {} => pieces'[o] = {}
  PROVE  Cardinality(Stockists') <= MaxBundles
<1>1. IsFiniteSet(Stockists) /\ Cardinality(Stockists) \in Nat
  BY Finite DEF RuntimeInv
<1>2. Stockists' \in SUBSET Stockists
  BY DEF Stockists
<1>3. IsFiniteSet(Stockists') /\ Cardinality(Stockists') <= Cardinality(Stockists)
  BY <1>1, <1>2, FS_Subset
<1>4. Cardinality(Stockists') \in Nat
  BY <1>3, FS_CardinalityType
<1>. QED
  BY <1>1, <1>3, <1>4, WorkspaceRuntimeAssumption DEF RuntimeInv

\* A step of one call that leaves the cache and the shutdown alone.
LEMMA OneCallMoves ==
  ASSUME RuntimeInv, RuntimeTypeOK', NEW c \in Callers,
         cache' = cache, stopping' = stopping, caller[c].at # "over",
         \A o \in Callers \ {c} : /\ caller'[o] = caller[o] /\ pieces'[o] = pieces[o]
                                  /\ holder' = o <=> holder = o,
         caller'[c].ws = caller[c].ws \/ caller[c].at = "idle",
         caller'[c].at = "closing" => caller[c].at = "closing",
         Stocked(c)', Locked(c)', Cardinality(Stockists') <= MaxBundles
  PROVE  RuntimeInv'
<1>. USE DEF RuntimeInv
<1>1. Cached' = Cached
  BY DEF Cached
<1>2. ASSUME NEW o \in Callers PROVE Stocked(o)' /\ Locked(o)'
  <2>1. CASE o = c
    BY <2>1
  <2>2. CASE o # c
    <3>1. Stocked(o) /\ Locked(o) /\ caller'[o] = caller[o] /\ pieces'[o] = pieces[o]
      BY <2>2
    <3>2. Stocked(o)'
      BY <3>1 DEF Stocked
    <3>3. Locked(o)'
      BY <2>2, <3>1, <1>1 DEF Locked, Working
    <3>. QED
      BY <3>2, <3>3
  <2>. QED
    BY <2>1, <2>2
<1>3. CacheOK'
  <2>1. ASSUME NEW w \in Workspaces, cache'[w] # Nobody
        PROVE  /\ stopping' \in {"no", "waiting"}
               /\ caller'[cache'[w]].at = "over" /\ caller'[cache'[w]].ws = w
    <3>1. cache[w] \in Callers /\ caller[cache[w]].at = "over" /\ caller[cache[w]].ws = w
      BY <2>1 DEF CacheOK, RuntimeTypeOK
    <3>. QED
      BY <2>1, <3>1 DEF CacheOK
  <2>2. ASSUME NEW o \in Callers, NEW p \in Callers, caller'[o].at = "closing",
               caller'[p].at = "closing", caller'[o].ws = caller'[p].ws
        PROVE  o = p
    <3>1. caller[o].at = "closing" /\ caller[o].ws = caller'[o].ws
      BY <2>2
    <3>2. caller[p].at = "closing" /\ caller[p].ws = caller'[p].ws
      BY <2>2
    <3>. QED
      BY <2>2, <3>1, <3>2 DEF CacheOK
  <2>. QED
    BY <2>1, <2>2, <1>1 DEF CacheOK
<1>. QED
  BY <1>2, <1>3

LEMMA AskKeeps ==
  ASSUME RuntimeInv, NEW c \in Callers, NEW w \in Workspaces, AskBundle(c, w)
  PROVE  RuntimeInv'
<1>. USE DEF RuntimeInv
<1>1. RuntimeTypeOK'
  BY Orders DEF RuntimeTypeOK, CallerRecord, AskBundle
<1>2. caller'[c].at = "waiting" /\ caller'[c].ws = w /\ pieces' = pieces
  BY DEF AskBundle, RuntimeTypeOK
<1>3. Stocked(c)' /\ Locked(c)'
  BY <1>2 DEF AskBundle, Stocked, Locked, Working
<1>4. Cardinality(Stockists') <= MaxBundles
  BY <1>2, NoNewStockist DEF RuntimeTypeOK
<1>. QED
  BY <1>1, <1>2, <1>3, <1>4, OneCallMoves DEF AskBundle, RuntimeTypeOK

LEMMA EnterKeeps ==
  ASSUME RuntimeInv, NEW c \in Callers, EnterRuntime(c)
  PROVE  RuntimeInv'
<1>. USE DEF RuntimeInv
<1>1. pieces' = pieces /\ cache' = cache /\ stopping' = stopping /\ caller[c].at = "waiting"
  BY DEF EnterRuntime
<1>2. caller \in [Callers -> CallerRecord] /\ caller[c].ws \in Workspaces /\ pieces[c] = {}
  BY <1>1 DEF RuntimeTypeOK, Locked, Stocked
<1>3. Cardinality(Stockists') <= MaxBundles
  BY <1>1, NoNewStockist DEF RuntimeTypeOK
<1>4. \A o \in Callers : cache[caller[c].ws] = o => o # c
  BY <1>1, <1>2, WorkspaceRuntimeAssumption DEF CacheOK, RuntimeTypeOK
<1>5. CASE caller' = Moves(c, "over", 0) /\ holder' = holder
  <2>1. RuntimeTypeOK'
    BY <1>1, <1>2, <1>5, MoveOf DEF RuntimeTypeOK
  <2>2. caller'[c].at = "over" /\ caller'[c].ws = caller[c].ws
    BY <1>2, <1>5, MoveOf
  <2>3. \A o \in Callers \ {c} : caller'[o] = caller[o]
    BY <1>2, <1>5, MoveOf
  <2>4. Stocked(c)' /\ Locked(c)'
    BY <1>1, <1>2, <1>4, <1>5, <2>2 DEF Stocked, Locked, Working
  <2>. QED
    BY <1>1, <1>3, <1>5, <2>1, <2>2, <2>3, <2>4, OneCallMoves
<1>6. CASE /\ caller' = Moves(c, "building", 1) /\ holder' = c /\ holder = Nobody
           /\ stopping \in {"no", "waiting"} /\ ~Served(caller[c].ws)
           /\ ~(Cardinality(Cached) >= MaxBundles)
  <2>1. RuntimeTypeOK'
    BY <1>1, <1>2, <1>6, MoveOf DEF RuntimeTypeOK
  <2>2. caller'[c].at = "building" /\ caller'[c].ws = caller[c].ws /\ caller'[c].step = 1
    BY <1>2, <1>6, MoveOf
  <2>3. \A o \in Callers \ {c} : caller'[o] = caller[o] /\ (holder' = o <=> holder = o)
    BY <1>2, <1>6, MoveOf, WorkspaceRuntimeAssumption
  <2>4. cache[caller[c].ws] = Nobody
    BY <1>2, <1>6 DEF Served, Cached
  <2>5. Stocked(c)'
    BY <1>1, <1>2, <2>2 DEF Stocked, BuiltTo, HasDriver
  <2>6. Cached' = Cached /\ Cardinality(Cached) < MaxBundles
    BY <1>1, <1>6, Finite, WorkspaceRuntimeAssumption DEF Cached
  <2>7. Locked(c)'
    BY <1>1, <1>2, <1>6, <2>2, <2>4, <2>6 DEF Locked, Working
  <2>. QED
    BY <1>1, <1>3, <2>1, <2>2, <2>3, <2>5, <2>7, OneCallMoves
<1>7. stopping \in {"no", "waiting", "closing", "done"}
  BY DEF RuntimeTypeOK
<1>. QED
  BY <1>5, <1>6, <1>7 DEF EnterRuntime

LEMMA StopWaitingKeeps ==
  ASSUME RuntimeInv, NEW c \in Callers, StopWaiting(c)
  PROVE  RuntimeInv'
<1>. USE DEF RuntimeInv
<1>1. /\ pieces' = pieces /\ cache' = cache /\ stopping' = stopping /\ holder' = holder
      /\ caller[c].at = "waiting" /\ caller' = Moves(c, "over", 0)
  BY DEF StopWaiting
<1>2. caller \in [Callers -> CallerRecord] /\ caller[c].ws \in Workspaces /\ pieces[c] = {}
  BY <1>1 DEF RuntimeTypeOK, Locked, Stocked
<1>3. Cardinality(Stockists') <= MaxBundles
  BY <1>1, NoNewStockist DEF RuntimeTypeOK
<1>4. \A o \in Callers : cache[caller[c].ws] = o => o # c
  BY <1>1, <1>2, WorkspaceRuntimeAssumption DEF CacheOK, RuntimeTypeOK
<1>5. RuntimeTypeOK'
  BY <1>1, <1>2, MoveOf DEF RuntimeTypeOK
<1>6. caller'[c].at = "over" /\ caller'[c].ws = caller[c].ws
  BY <1>1, <1>2, MoveOf
<1>7. \A o \in Callers \ {c} : caller'[o] = caller[o]
  BY <1>1, <1>2, MoveOf
<1>8. Stocked(c)' /\ Locked(c)'
  BY <1>1, <1>2, <1>4, <1>6 DEF Stocked, Locked, Working
<1>. QED
  BY <1>1, <1>3, <1>5, <1>6, <1>7, <1>8, OneCallMoves

\* What is known of a call that works, and what its next move keeps.
LEMMA WorkingCall ==
  ASSUME RuntimeInv, NEW c \in Callers, Working(c)
  PROVE  /\ caller \in [Callers -> CallerRecord] /\ pieces \in [Callers -> SUBSET Pieces]
         /\ caller[c].ws \in Workspaces /\ caller[c].ws # Nobody
         /\ cache[caller[c].ws] = Nobody /\ holder = c
         /\ stopping \in {"no", "waiting"} /\ c # Nobody
BY WorkspaceRuntimeAssumption DEF RuntimeInv, RuntimeTypeOK, Locked, Working

LEMMA BuildFailsKeeps ==
  ASSUME RuntimeInv, NEW c \in Callers, BuildFails(c)
  PROVE  RuntimeInv'
<1>. USE DEF RuntimeInv
<1>1. /\ pieces' = pieces /\ cache' = cache /\ stopping' = stopping /\ holder' = holder
      /\ caller[c].at = "building" /\ caller[c].step \in 2..5
      /\ caller' = Moves(c, "unwinding", 1)
  BY Orders DEF BuildFails
<1>2. Working(c)
  BY <1>1 DEF Working
<1>3. Cardinality(Stockists') <= MaxBundles
  BY <1>1, NoNewStockist DEF RuntimeTypeOK
<1>4. RuntimeTypeOK'
  BY <1>1, <1>2, WorkingCall, MoveOf DEF RuntimeTypeOK
<1>5. caller'[c].at = "unwinding" /\ caller'[c].ws = caller[c].ws /\ caller'[c].step = 1
  BY <1>1, <1>2, WorkingCall, MoveOf
<1>6. \A o \in Callers \ {c} : caller'[o] = caller[o]
  BY <1>1, <1>2, WorkingCall, MoveOf
<1>7. BuiltTo(pieces[c], caller[c].step)
  BY <1>1 DEF Stocked
<1>8. UnwoundTo(pieces[c], 1)
  BY <1>1, <1>7 DEF BuiltTo, UnwoundTo
<1>9. Stocked(c)'
  BY <1>1, <1>5, <1>8 DEF Stocked
<1>10. Cached' = Cached
  BY <1>1 DEF Cached
<1>11. Locked(c)'
  BY <1>1, <1>2, <1>5, <1>10 DEF Locked, Working
<1>. QED
  BY <1>1, <1>3, <1>4, <1>5, <1>6, <1>9, <1>11, OneCallMoves

-----------------------------------------------------------------------------
(***************************************************************************)
(* Pieces made and released, name by name.                                 *)
(***************************************************************************)
Names == {"descriptor", "driver", "agent", "jobs", "research"}

\* `q` is `p` without the piece `gone`, a driver in either form.
Without(p, q, gone) ==
  /\ "descriptor" \in q <=> "descriptor" \in p /\ gone # "descriptor"
  /\ HasDriver(q) <=> HasDriver(p) /\ gone # "driver"
  /\ "agent" \in q <=> "agent" \in p /\ gone # "agent"
  /\ "jobs" \in q <=> "jobs" \in p /\ gone # "jobs"
  /\ "research" \in q <=> "research" \in p /\ gone # "research"
  /\ q # {} => p # {} /\ \/ "descriptor" \in q \/ HasDriver(q) \/ "agent" \in q
                         \/ "jobs" \in q \/ "research" \in q

\* `q` is `p` with the piece `made`, a driver in either form.
Together(p, q, made) ==
  /\ "descriptor" \in q <=> "descriptor" \in p \/ made = "descriptor"
  /\ HasDriver(q) <=> HasDriver(p) \/ made = "driver"
  /\ "agent" \in q <=> "agent" \in p \/ made = "agent"
  /\ "jobs" \in q <=> "jobs" \in p \/ made = "jobs"
  /\ "research" \in q <=> "research" \in p \/ made = "research"

LEMMA NonEmpty ==
  ASSUME NEW q \in SUBSET Pieces, q # {}
  PROVE  "descriptor" \in q \/ HasDriver(q) \/ "agent" \in q \/ "jobs" \in q \/ "research" \in q
BY PieceNames DEF HasDriver

LEMMA Less ==
  ASSUME NEW p \in SUBSET Pieces, NEW gone \in Names, NEW q \in SUBSET Pieces,
         gone = "driver" => q = p \ {"driver", Unreachable},
         gone # "driver" => q = p \ {gone}
  PROVE  Without(p, q, gone)
<1>1. CASE gone = "driver"
  <2>1. \A x : x \in q <=> x \in p /\ x # "driver" /\ x # Unreachable
    BY <1>1
  <2>2. ~HasDriver(q)
    BY <2>1 DEF HasDriver
  <2>3. "descriptor" \in q <=> "descriptor" \in p
    BY <2>1 DEF Unreachable
  <2>4. "agent" \in q <=> "agent" \in p
    BY <2>1 DEF Unreachable
  <2>5. "jobs" \in q <=> "jobs" \in p
    BY <2>1 DEF Unreachable
  <2>6. "research" \in q <=> "research" \in p
    BY <2>1 DEF Unreachable
  <2>7. q # {} => p # {}
    BY <2>1
  <2>. QED
    BY <1>1, <2>2, <2>3, <2>4, <2>5, <2>6, <2>7, NonEmpty DEF Without
<1>2. CASE gone # "driver"
  <2>1. \A x : x \in q <=> x \in p /\ x # gone
    BY <1>2
  <2>2. gone # Unreachable
    BY DEF Names, Unreachable
  <2>3. HasDriver(q) <=> HasDriver(p)
    BY <1>2, <2>1, <2>2 DEF HasDriver
  <2>4. "descriptor" \in q <=> "descriptor" \in p /\ gone # "descriptor"
    BY <2>1
  <2>5. "agent" \in q <=> "agent" \in p /\ gone # "agent"
    BY <2>1
  <2>6. "jobs" \in q <=> "jobs" \in p /\ gone # "jobs"
    BY <2>1
  <2>7. "research" \in q <=> "research" \in p /\ gone # "research"
    BY <2>1
  <2>8. q # {} => p # {}
    BY <2>1
  <2>. QED
    BY <1>2, <2>3, <2>4, <2>5, <2>6, <2>7, <2>8, NonEmpty DEF Without
<1>. QED
  BY <1>1, <1>2

LEMMA More ==
  ASSUME NEW p, NEW made \in Names, NEW q, NEW new,
         q = p \cup {new}, new = made \/ (made = "driver" /\ new = Unreachable)
  PROVE  Together(p, q, made)
<1>1. \A x : x \in q <=> x \in p \/ x = new
  OBVIOUS
<1>2. new = "descriptor" <=> made = "descriptor"
  BY DEF Unreachable, Names
<1>3. new = "driver" \/ new = Unreachable <=> made = "driver"
  BY DEF Unreachable, Names
<1>4. new = "agent" <=> made = "agent"
  BY DEF Unreachable, Names
<1>5. new = "jobs" <=> made = "jobs"
  BY DEF Unreachable, Names
<1>6. new = "research" <=> made = "research"
  BY DEF Unreachable, Names
<1>7. HasDriver(q) <=> HasDriver(p) \/ made = "driver"
  BY <1>1, <1>3 DEF HasDriver
<1>8. "descriptor" \in q <=> "descriptor" \in p \/ made = "descriptor"
  BY <1>1, <1>2
<1>9. "agent" \in q <=> "agent" \in p \/ made = "agent"
  BY <1>1, <1>4
<1>10. "jobs" \in q <=> "jobs" \in p \/ made = "jobs"
  BY <1>1, <1>5
<1>11. "research" \in q <=> "research" \in p \/ made = "research"
  BY <1>1, <1>6
<1>. QED
  BY <1>7, <1>8, <1>9, <1>10, <1>11 DEF Together

\* One piece less, in the order of the unwinding, or of the closing; one more.
LEMMA UnwindOne ==
  ASSUME NEW p, NEW q, NEW step \in 1..4, UnwoundTo(p, step), Without(p, q, Unwinding[step])
  PROVE  UnwoundTo(q, step + 1)
<1>1. CASE step = 1
  <2>1. Without(p, q, "jobs")
    BY <1>1, Orders
  <2>. QED
    BY <1>1, <2>1 DEF Without, UnwoundTo
<1>2. CASE step = 2
  <2>1. Without(p, q, "driver")
    BY <1>2, Orders
  <2>. QED
    BY <1>2, <2>1 DEF Without, UnwoundTo
<1>3. CASE step = 3
  <2>1. Without(p, q, "agent")
    BY <1>3, Orders
  <2>. QED
    BY <1>3, <2>1 DEF Without, UnwoundTo
<1>4. CASE step = 4
  <2>1. Without(p, q, "descriptor")
    BY <1>4, Orders
  <2>. QED
    BY <1>4, <2>1 DEF Without, UnwoundTo
<1>. QED
  BY <1>1, <1>2, <1>3, <1>4

LEMMA CloseOne ==
  ASSUME NEW p, NEW q, NEW step \in 1..5, ClosedTo(p, step), Without(p, q, Closing[step])
  PROVE  ClosedTo(q, step + 1) /\ (step = 5 => q = {})
<1>1. CASE step = 1
  <2>1. Without(p, q, "research")
    BY <1>1, Orders
  <2>. QED
    BY <1>1, <2>1 DEF Without, ClosedTo
<1>2. CASE step = 2
  <2>1. Without(p, q, "jobs")
    BY <1>2, Orders
  <2>. QED
    BY <1>2, <2>1 DEF Without, ClosedTo
<1>3. CASE step = 3
  <2>1. Without(p, q, "driver")
    BY <1>3, Orders
  <2>. QED
    BY <1>3, <2>1 DEF Without, ClosedTo
<1>4. CASE step = 4
  <2>1. Without(p, q, "agent")
    BY <1>4, Orders
  <2>. QED
    BY <1>4, <2>1 DEF Without, ClosedTo
<1>5. CASE step = 5
  <2>1. Without(p, q, "descriptor")
    BY <1>5, Orders
  <2>. QED
    BY <1>5, <2>1 DEF Without, ClosedTo
<1>. QED
  BY <1>1, <1>2, <1>3, <1>4, <1>5

LEMMA BuildOne ==
  ASSUME NEW p, NEW q, NEW step \in 1..5, BuiltTo(p, step), Together(p, q, Building[step])
  PROVE  BuiltTo(q, step + 1) /\ (step # 1 => p # {})
<1>1. CASE step = 1
  <2>1. Together(p, q, "descriptor")
    BY <1>1, Orders
  <2>. QED
    BY <1>1, <2>1 DEF Together, BuiltTo
<1>2. CASE step = 2
  <2>1. Together(p, q, "driver")
    BY <1>2, Orders
  <2>. QED
    BY <1>2, <2>1 DEF Together, BuiltTo
<1>3. CASE step = 3
  <2>1. Together(p, q, "agent")
    BY <1>3, Orders
  <2>. QED
    BY <1>3, <2>1 DEF Together, BuiltTo
<1>4. CASE step = 4
  <2>1. Together(p, q, "jobs")
    BY <1>4, Orders
  <2>. QED
    BY <1>4, <2>1 DEF Together, BuiltTo
<1>5. CASE step = 5
  <2>1. Together(p, q, "research")
    BY <1>5, Orders
  <2>. QED
    BY <1>5, <2>1 DEF Together, BuiltTo
<1>. QED
  BY <1>1, <1>2, <1>3, <1>4, <1>5

-----------------------------------------------------------------------------
\* Release() of one of the named pieces.
LEMMA ReleaseOne ==
  ASSUME NEW c \in Callers, NEW gone \in Names, pieces \in [Callers -> SUBSET Pieces]
  PROVE  /\ Release(c, gone) \in [Callers -> SUBSET Pieces]
         /\ \A o \in Callers : o # c => Release(c, gone)[o] = pieces[o]
         /\ Without(pieces[c], Release(c, gone)[c], gone)
<1>. DEFINE q == Release(c, gone)[c]
<1>1. Release(c, gone) \in [Callers -> SUBSET Pieces] /\ q \in SUBSET Pieces
  BY Released
<1>2. gone = "driver" => q = pieces[c] \ {"driver", Unreachable}
  BY Released
<1>3. gone # "driver" => q = pieces[c] \ {gone}
  BY Released
<1>4. Without(pieces[c], q, gone)
  <2>. HIDE DEF q
  <2>. QED
    BY <1>1, <1>2, <1>3, Less
<1>. QED
  BY <1>1, <1>4, Released

LEMMA UnwindKeeps ==
  ASSUME RuntimeInv, NEW c \in Callers, UnwindPiece(c)
  PROVE  RuntimeInv'
<1>. USE DEF RuntimeInv
<1>1. caller[c].at = "unwinding" /\ Working(c) /\ cache' = cache /\ stopping' = stopping
  BY DEF UnwindPiece, Working
<1>2. caller[c].step \in 1..5 /\ UnwoundTo(pieces[c], caller[c].step)
  BY <1>1 DEF Stocked
<1>3. Cached' = Cached
  BY <1>1 DEF Cached
<1>4. CASE caller[c].step <= 4
  <2>. DEFINE gone == Unwinding[caller[c].step]
  <2>1. /\ pieces' = Release(c, gone) /\ holder' = holder
        /\ caller' = Moves(c, "unwinding", caller[c].step + 1)
    BY <1>1, <1>4, Orders DEF UnwindPiece
  <2>2. caller[c].step \in 1..4 /\ caller[c].step + 1 \in 1..5
    BY <1>2, <1>4
  <2>3. gone \in Names
    <3>1. caller[c].step = 1 \/ caller[c].step = 2 \/ caller[c].step = 3 \/ caller[c].step = 4
      BY <2>2
    <3>. QED
      BY <3>1, Orders DEF Names
  <2>4. /\ pieces' \in [Callers -> SUBSET Pieces]
        /\ \A o \in Callers \ {c} : pieces'[o] = pieces[o]
        /\ Without(pieces[c], pieces'[c], gone)
    <3>. HIDE DEF gone
    <3>. QED
      BY <1>1, <2>1, <2>3, WorkingCall, ReleaseOne
  <2>5. RuntimeTypeOK'
    BY <1>1, <2>1, <2>2, <2>4, WorkingCall, MoveOf DEF RuntimeTypeOK
  <2>6. /\ caller'[c].at = "unwinding" /\ caller'[c].ws = caller[c].ws
        /\ caller'[c].step = caller[c].step + 1
    BY <1>1, <2>1, <2>2, WorkingCall, MoveOf
  <2>7. \A o \in Callers \ {c} : caller'[o] = caller[o]
    BY <1>1, <2>1, <2>2, WorkingCall, MoveOf
  <2>8. UnwoundTo(pieces'[c], caller[c].step + 1)
    BY <1>2, <2>2, <2>4, UnwindOne
  <2>9. Stocked(c)'
    BY <2>2, <2>6, <2>8 DEF Stocked
  <2>10. Locked(c)'
    BY <1>1, <1>3, <2>1, <2>6 DEF Locked, Working
  <2>11. Cardinality(Stockists') <= MaxBundles
    <3>1. \A o \in Callers : pieces[o] = {} => pieces'[o] = {}
      BY <2>4 DEF Without
    <3>. QED
      BY <2>4, <3>1, NoNewStockist
  <2>. QED
    BY <1>1, <2>1, <2>4, <2>5, <2>6, <2>7, <2>9, <2>10, <2>11, OneCallMoves
<1>5. CASE caller[c].step = 5
  <2>1. pieces' = pieces /\ holder' = Nobody /\ caller' = Moves(c, "over", 0)
    BY <1>1, <1>5, Orders DEF UnwindPiece
  <2>2. RuntimeTypeOK'
    BY <1>1, <2>1, WorkingCall, MoveOf DEF RuntimeTypeOK
  <2>3. caller'[c].at = "over" /\ caller'[c].ws = caller[c].ws
    BY <1>1, <2>1, WorkingCall, MoveOf
  <2>4. \A o \in Callers \ {c} : caller'[o] = caller[o] /\ (holder' = o <=> holder = o)
    BY <1>1, <2>1, WorkingCall, MoveOf, WorkspaceRuntimeAssumption
  <2>5. pieces[c] = {}
    <3>1. ~HasDriver(pieces[c]) /\ "descriptor" \notin pieces[c] /\ "agent" \notin pieces[c]
      BY <1>2, <1>5 DEF UnwoundTo
    <3>. QED
      BY <1>2, <3>1 DEF UnwoundTo
  <2>6. Stocked(c)' /\ Locked(c)'
    BY <1>1, <2>1, <2>3, <2>5, WorkingCall DEF Stocked, Locked, Working
  <2>7. Cardinality(Stockists') <= MaxBundles
    BY <2>1, NoNewStockist DEF RuntimeTypeOK
  <2>. QED
    BY <1>1, <2>1, <2>2, <2>3, <2>4, <2>6, <2>7, OneCallMoves
<1>6. caller[c].step <= 4 \/ caller[c].step = 5
  BY <1>2
<1>. QED
  BY <1>4, <1>5, <1>6

LEMMA CloseKeeps ==
  ASSUME RuntimeInv, NEW c \in Callers, ClosePiece(c)
  PROVE  RuntimeInv'
<1>. USE DEF RuntimeInv
<1>. DEFINE gone == Closing[caller[c].step]
<1>1. /\ caller[c].at = "closing" /\ cache' = cache /\ stopping' = stopping /\ holder' = holder
      /\ pieces' = Release(c, gone)
  BY DEF ClosePiece
<1>2. caller[c].step \in 1..5 /\ ClosedTo(pieces[c], caller[c].step)
  BY <1>1 DEF Stocked
<1>3. gone \in Names
  <2>1. \/ caller[c].step = 1 \/ caller[c].step = 2 \/ caller[c].step = 3
        \/ caller[c].step = 4 \/ caller[c].step = 5
    BY <1>2
  <2>. QED
    BY <2>1, Orders DEF Names
<1>4. /\ pieces' \in [Callers -> SUBSET Pieces]
      /\ \A o \in Callers \ {c} : pieces'[o] = pieces[o]
      /\ Without(pieces[c], pieces'[c], gone)
  <2>. HIDE DEF gone
  <2>. QED
    BY <1>1, <1>3, ReleaseOne DEF RuntimeTypeOK
<1>5. ClosedTo(pieces'[c], caller[c].step + 1) /\ (caller[c].step = 5 => pieces'[c] = {})
  BY <1>2, <1>4, CloseOne
<1>6. Cardinality(Stockists') <= MaxBundles
  <2>1. \A o \in Callers : pieces[o] = {} => pieces'[o] = {}
    BY <1>4 DEF Without
  <2>. QED
    BY <1>4, <2>1, NoNewStockist
<1>7. /\ caller \in [Callers -> CallerRecord] /\ caller[c].ws \in Workspaces /\ holder # c
      /\ stopping = "closing"
  BY <1>1 DEF RuntimeTypeOK, Locked, Working
<1>8. cache[caller[c].ws] = Nobody /\ c # Nobody
  BY <1>7, WorkspaceRuntimeAssumption DEF CacheOK
<1>9. CASE caller[c].step = 5
  <2>1. caller' = Moves(c, "over", 0)
    BY <1>9, Orders DEF ClosePiece
  <2>2. RuntimeTypeOK'
    BY <1>1, <1>4, <1>7, <2>1, MoveOf DEF RuntimeTypeOK
  <2>3. caller'[c].at = "over" /\ caller'[c].ws = caller[c].ws
    BY <1>7, <2>1, MoveOf
  <2>4. \A o \in Callers \ {c} : caller'[o] = caller[o]
    BY <1>7, <2>1, MoveOf
  <2>5. Stocked(c)' /\ Locked(c)'
    BY <1>1, <1>5, <1>7, <1>8, <1>9, <2>3 DEF Stocked, Locked, Working
  <2>. QED
    BY <1>1, <1>4, <1>6, <2>2, <2>3, <2>4, <2>5, OneCallMoves
<1>10. CASE caller[c].step # 5
  <2>1. caller' = Moves(c, "closing", caller[c].step + 1)
    BY <1>10, Orders DEF ClosePiece
  <2>2. caller[c].step + 1 \in 1..5
    BY <1>2, <1>10
  <2>3. RuntimeTypeOK'
    BY <1>1, <1>4, <1>7, <2>1, <2>2, MoveOf DEF RuntimeTypeOK
  <2>4. /\ caller'[c].at = "closing" /\ caller'[c].ws = caller[c].ws
        /\ caller'[c].step = caller[c].step + 1
    BY <1>7, <2>1, <2>2, MoveOf
  <2>5. \A o \in Callers \ {c} : caller'[o] = caller[o]
    BY <1>7, <2>1, <2>2, MoveOf
  <2>6. Stocked(c)' /\ Locked(c)'
    BY <1>1, <1>5, <1>7, <2>2, <2>4 DEF Stocked, Locked, Working
  <2>. QED
    BY <1>1, <1>4, <1>6, <2>3, <2>4, <2>5, <2>6, OneCallMoves
<1>. QED
  BY <1>9, <1>10

-----------------------------------------------------------------------------
\* Beside the call that works, every bundle is in the cache.
LEMMA OthersAreCached ==
  ASSUME RuntimeInv, NEW c \in Callers, Working(c)
  PROVE  /\ IsFiniteSet(Stockists \ {c}) /\ Cardinality(Stockists \ {c}) \in Nat
         /\ Cardinality(Stockists \ {c}) < MaxBundles
<1>. USE DEF RuntimeInv
<1>. DEFINE others == Stockists \ {c}
            ws == [o \in others |-> caller[o].ws]
<1>1. ASSUME NEW o \in others PROVE caller[o].ws \in Cached /\ cache[caller[o].ws] = o
  <2>1. o \in Callers /\ o # c /\ pieces[o] # {} /\ Stocked(o) /\ Locked(o)
    BY DEF Stockists
  <2>2. holder # o /\ stopping # "closing"
    BY <2>1, WorkingCall
  <2>3. caller[o].at = "over"
    BY <2>1, <2>2 DEF Stocked, Locked, Working, RuntimeTypeOK, CallerRecord
  <2>4. cache[caller[o].ws] = o /\ caller[o].ws \in Workspaces
    BY <2>1, <2>3 DEF Stocked, Locked
  <2>. QED
    BY <2>1, <2>4, WorkspaceRuntimeAssumption DEF Cached
<1>2. ws \in Injection(others, Cached)
  <2>1. ws \in [others -> Cached]
    BY <1>1
  <2>2. \A o, p \in others : ws[o] = ws[p] => o = p
    BY <1>1
  <2>. QED
    BY <2>1, <2>2 DEF Injection, IsInjective
<1>3. IsFiniteSet(others) /\ Cardinality(others) <= Cardinality(Cached)
  <2>. HIDE DEF ws, others
  <2>. QED
    BY <1>2, Finite, FS_Injection
<1>4. Cardinality(others) \in Nat
  BY <1>3, FS_CardinalityType
<1>5. Cardinality(Cached) < MaxBundles
  BY DEF Locked
<1>. QED
  BY <1>3, <1>4, <1>5, Finite, WorkspaceRuntimeAssumption

LEMMA BuildKeeps ==
  ASSUME RuntimeInv, NEW c \in Callers, NEW made \in BOOLEAN, BuildPiece(c, made)
  PROVE  RuntimeInv'
<1>. USE DEF RuntimeInv
<1>. DEFINE piece == Building[caller[c].step]
            new == IF made THEN piece ELSE Unreachable
<1>1. /\ caller[c].at = "building" /\ Working(c) /\ caller[c].step <= 5
      /\ cache' = cache /\ stopping' = stopping /\ holder' = holder
      /\ made \/ piece = "driver"
      /\ pieces' = [pieces EXCEPT ![c] = @ \cup {new}]
      /\ caller' = Moves(c, "building", caller[c].step + 1)
  BY Orders DEF BuildPiece, Working
<1>2. caller[c].step \in 1..5 /\ BuiltTo(pieces[c], caller[c].step)
  BY <1>1 DEF Stocked
<1>3. piece \in Names
  <2>1. \/ caller[c].step = 1 \/ caller[c].step = 2 \/ caller[c].step = 3
        \/ caller[c].step = 4 \/ caller[c].step = 5
    BY <1>2
  <2>. QED
    BY <2>1, Orders DEF Names
<1>4. new \in Pieces
  BY <1>3, PieceNames DEF Names
<1>5. /\ pieces' \in [Callers -> SUBSET Pieces]
      /\ \A o \in Callers \ {c} : pieces'[o] = pieces[o]
      /\ pieces'[c] = pieces[c] \cup {new}
  <2>. HIDE DEF new
  <2>. QED
    BY <1>1, <1>4, WorkingCall
<1>6. BuiltTo(pieces'[c], caller[c].step + 1)
  <2>1. new = piece \/ (piece = "driver" /\ new = Unreachable)
    BY <1>1
  <2>2. Together(pieces[c], pieces'[c], piece)
    <3>. HIDE DEF new, piece
    <3>. QED
      BY <1>3, <1>5, <2>1, More
  <2>. QED
    BY <1>2, <2>2, BuildOne
<1>7. /\ caller'[c].at = "building" /\ caller'[c].ws = caller[c].ws
      /\ caller'[c].step = caller[c].step + 1
  BY <1>1, <1>2, WorkingCall, MoveOf
<1>8. \A o \in Callers \ {c} : caller'[o] = caller[o]
  BY <1>1, <1>2, WorkingCall, MoveOf
<1>9. RuntimeTypeOK'
  BY <1>1, <1>2, <1>5, WorkingCall, MoveOf DEF RuntimeTypeOK
<1>10. Stocked(c)'
  BY <1>2, <1>6, <1>7 DEF Stocked
<1>11. Locked(c)'
  BY <1>1, <1>7 DEF Locked, Working, Cached
<1>12. Cardinality(Stockists') <= MaxBundles
  <2>1. Stockists' \in SUBSET ((Stockists \ {c}) \cup {c})
    BY <1>5 DEF Stockists
  <2>2. /\ IsFiniteSet((Stockists \ {c}) \cup {c})
        /\ Cardinality((Stockists \ {c}) \cup {c}) = Cardinality(Stockists \ {c}) + 1
    BY <1>1, OthersAreCached, FS_AddElement
  <2>3. IsFiniteSet(Stockists') /\ Cardinality(Stockists') <= Cardinality(Stockists \ {c}) + 1
    BY <2>1, <2>2, FS_Subset
  <2>4. Cardinality(Stockists') \in Nat
    BY <2>3, FS_CardinalityType
  <2>. QED
    BY <1>1, <2>3, <2>4, OthersAreCached, WorkspaceRuntimeAssumption
<1>. QED
  BY <1>1, <1>5, <1>7, <1>8, <1>9, <1>10, <1>11, <1>12, OneCallMoves

LEMMA CacheKeeps ==
  ASSUME RuntimeInv, NEW c \in Callers, CacheBundle(c)
  PROVE  RuntimeInv'
<1>. USE DEF RuntimeInv
<1>. DEFINE w == caller[c].ws
<1>1. /\ caller[c].at = "building" /\ Working(c) /\ caller[c].step > 5
      /\ cache' = [cache EXCEPT ![w] = c] /\ caller' = Moves(c, "over", 0)
      /\ holder' = Nobody /\ pieces' = pieces /\ stopping' = stopping
  BY Orders DEF CacheBundle, Working
<1>2. caller[c].step = 6 /\ BuiltTo(pieces[c], 6)
  BY <1>1 DEF Stocked
<1>3. caller'[c].at = "over" /\ caller'[c].ws = w
  BY <1>1, WorkingCall, MoveOf
<1>4. \A o \in Callers \ {c} : caller'[o] = caller[o]
  <2>1. caller \in [Callers -> CallerRecord] /\ caller' = Moves(c, "over", 0) /\ 0 \in 0..6
    BY <1>1, WorkingCall
  <2>2. \A o \in Callers : o # c => Moves(c, "over", 0)[o] = caller[o]
    BY <2>1, MoveOf
  <2>. QED
    BY <2>1, <2>2
<1>5. cache'[w] = c /\ \A v \in Workspaces \ {w} : cache'[v] = cache[v]
  BY <1>1, WorkingCall DEF RuntimeTypeOK
<1>6. RuntimeTypeOK'
  BY <1>1, WorkingCall, MoveOf DEF RuntimeTypeOK
<1>7. ASSUME NEW o \in Callers PROVE Stocked(o)' /\ Locked(o)'
  <2>1. CASE o = c
    BY <1>1, <1>2, <1>3, <1>5, <2>1, WorkingCall DEF Stocked, Locked, Working
  <2>2. CASE o # c
    <3>1. Stocked(o) /\ Locked(o) /\ caller'[o] = caller[o] /\ pieces'[o] = pieces[o]
      BY <1>1, <1>4, <2>2
    <3>2. ~Working(o) /\ holder' # o
      BY <1>1, <2>2, <3>1, WorkingCall, WorkspaceRuntimeAssumption DEF Locked
    <3>3. caller[o].at = "over" => /\ caller[o].ws \in Workspaces
                                   /\ cache'[caller[o].ws] = o <=> cache[caller[o].ws] = o
      BY <1>5, <2>2, <3>1, <1>1, WorkingCall, WorkspaceRuntimeAssumption DEF Locked
    <3>4. Stocked(o)'
      BY <3>1, <3>2, <3>3 DEF Stocked, Working
    <3>5. Locked(o)'
      BY <1>1, <3>1, <3>2 DEF Locked, Working
    <3>. QED
      BY <3>4, <3>5
  <2>. QED
    BY <2>1, <2>2
<1>8. CacheOK'
  <2>1. ASSUME NEW v \in Workspaces, cache'[v] # Nobody
        PROVE  /\ stopping' \in {"no", "waiting"}
               /\ caller'[cache'[v]].at = "over" /\ caller'[cache'[v]].ws = v
    <3>1. CASE v = w
      BY <1>1, <1>3, <1>5, <3>1, WorkingCall
    <3>2. CASE v # w
      <4>1. cache'[v] = cache[v] /\ cache[v] \in Callers
        BY <1>5, <2>1, <3>2 DEF RuntimeTypeOK
      <4>2. caller[cache[v]].at = "over" /\ caller[cache[v]].ws = v /\ cache[v] # c
        BY <1>1, <2>1, <4>1 DEF CacheOK
      <4>. QED
        BY <1>1, <1>4, <4>1, <4>2, WorkingCall
    <3>. QED
      BY <3>1, <3>2
  <2>2. ASSUME NEW o \in Callers, NEW p \in Callers, caller'[o].at = "closing",
               caller'[p].at = "closing", caller'[o].ws = caller'[p].ws
        PROVE  o = p
    <3>1. o # c /\ p # c
      BY <1>3, <2>2
    <3>. QED
      BY <1>4, <2>2, <3>1 DEF CacheOK
  <2>3. Cached' = Cached \cup {w}
    BY <1>1, <1>5, WorkingCall DEF Cached
  <2>4. w \notin Cached
    BY <1>1, WorkingCall DEF Cached
  <2>5. Cardinality(Cached \cup {w}) = Cardinality(Cached) + 1
    BY <2>4, Finite, FS_AddElement
  <2>6. Cardinality(Cached) < MaxBundles
    BY <1>1 DEF Locked
  <2>7. Cardinality(Cached') <= MaxBundles
    BY <2>3, <2>5, <2>6, Finite, WorkspaceRuntimeAssumption
  <2>. QED
    BY <2>1, <2>2, <2>7 DEF CacheOK
<1>9. Cardinality(Stockists') <= MaxBundles
  BY <1>1, NoNewStockist DEF RuntimeTypeOK
<1>. QED
  BY <1>6, <1>7, <1>8, <1>9

\* Shutdown moves on without touching a call or a bundle.
LEMMA StoppingKeeps ==
  ASSUME RuntimeInv, BeginShutdown \/ EndShutdown
  PROVE  RuntimeInv'
<1>. USE DEF RuntimeInv
<1>1. /\ caller' = caller /\ pieces' = pieces /\ cache' = cache /\ holder' = holder
      /\ stopping' \in {"waiting", "done"}
  BY DEF BeginShutdown, EndShutdown
<1>2. RuntimeTypeOK'
  BY <1>1 DEF RuntimeTypeOK
<1>3. Cached' = Cached /\ Stockists' = Stockists
  BY <1>1 DEF Cached, Stockists
<1>4. \A c \in Callers : caller[c].at = "closing" => stopping' = "closing"
  BY DEF BeginShutdown, EndShutdown, Locked
<1>5. stopping \in {"no", "waiting"} => stopping' \in {"no", "waiting"}
  BY DEF BeginShutdown, EndShutdown
<1>6. ASSUME NEW c \in Callers PROVE Stocked(c)' /\ Locked(c)'
  <2>1. Stocked(c)'
    BY <1>1 DEF Stocked
  <2>2. Locked(c)'
    BY <1>1, <1>3, <1>4, <1>5 DEF Locked, Working
  <2>. QED
    BY <2>1, <2>2
<1>7. CacheOK'
  BY <1>1, <1>3, <1>5 DEF CacheOK
<1>. QED
  BY <1>2, <1>3, <1>6, <1>7

LEMMA TakeBundlesKeeps ==
  ASSUME RuntimeInv, TakeBundles
  PROVE  RuntimeInv'
<1>. USE DEF RuntimeInv
<1>1. /\ stopping = "waiting" /\ holder = Nobody /\ stopping' = "closing"
      /\ cache' = [w \in Workspaces |-> Nobody] /\ pieces' = pieces /\ holder' = holder
  BY DEF TakeBundles
<1>2. ASSUME NEW c \in Callers
      PROVE  /\ ~Working(c) /\ caller[c].at # "closing" /\ Nobody # c
             /\ caller[c] \in CallerRecord
    BY <1>1, WorkspaceRuntimeAssumption DEF Locked, RuntimeTypeOK
<1>3. ASSUME NEW c \in Callers, NEW w \in Workspaces, cache[w] = c
      PROVE  /\ caller[c].at = "over" /\ caller[c].ws = w /\ BuiltTo(pieces[c], 6)
             /\ caller'[c].at = "closing" /\ caller'[c].step = 1 /\ caller'[c].ws = w
             /\ caller'[c] \in CallerRecord
  <2>1. caller[c].at = "over" /\ caller[c].ws = w
    BY <1>2, <1>3 DEF CacheOK
  <2>2. BuiltTo(pieces[c], 6)
    BY <1>3, <2>1, WorkspaceRuntimeAssumption DEF Stocked
  <2>3. caller'[c] = [caller[c] EXCEPT !.at = "closing", !.step = 1]
    BY <1>3 DEF TakeBundles
  <2>4. 1 \in 0..(Len(Building) + 1)
    BY Orders
  <2>5. caller[c] \in CallerRecord
    BY <1>2
  <2>6. /\ caller'[c].at = "closing" /\ caller'[c].step = 1 /\ caller'[c].ws = caller[c].ws
        /\ caller'[c] \in CallerRecord
    <3>. DEFINE steps == 0..(Len(Building) + 1)
    <3>1. caller[c] \in [ws : Workspaces \cup {Nobody},
            at : {"idle", "waiting", "building", "unwinding", "closing", "over"}, step : steps]
      BY <2>5 DEF CallerRecord
    <3>2. 1 \in steps
      BY <2>4
    <3>3. caller'[c] \in [ws : Workspaces \cup {Nobody},
            at : {"idle", "waiting", "building", "unwinding", "closing", "over"}, step : steps]
      <4>. HIDE DEF steps
      <4>. QED
        BY <2>3, <3>1, <3>2
    <3>. QED
      BY <2>3, <2>5, <3>3 DEF CallerRecord
  <2>. QED
    BY <2>1, <2>2, <2>6
<1>4. ASSUME NEW c \in Callers, ~\E w \in Workspaces : cache[w] = c
      PROVE  caller'[c] = caller[c]
  BY <1>4 DEF TakeBundles
<1>5. \A c \in Callers : caller'[c] \in CallerRecord
  BY <1>2, <1>3, <1>4
<1>6. RuntimeTypeOK'
  <2>1. DOMAIN caller' = Callers /\ caller' = [c \in Callers |-> caller'[c]]
    BY DEF TakeBundles
  <2>. QED
    BY <1>1, <1>5, <2>1 DEF RuntimeTypeOK
<1>7. ASSUME NEW c \in Callers PROVE Stocked(c)' /\ Locked(c)'
  <2>1. CASE \E w \in Workspaces : cache[w] = c
    <3>1. /\ caller[c].ws \in Workspaces /\ BuiltTo(pieces[c], 6)
      BY <1>3, <2>1
    <3>2. caller'[c].at = "closing" /\ caller'[c].step = 1 /\ caller'[c].ws = caller[c].ws
      BY <1>3, <2>1
    <3>3. ClosedTo(pieces[c], 1)
      BY <3>1 DEF BuiltTo, ClosedTo
    <3>. QED
      BY <1>1, <1>2, <3>1, <3>2, <3>3 DEF Stocked, Locked, Working
  <2>2. CASE ~\E w \in Workspaces : cache[w] = c
    <3>1. caller'[c] = caller[c] /\ Stocked(c) /\ Locked(c)
      BY <1>4, <2>2
    <3>2. caller[c].at = "over" => cache[caller[c].ws] # c /\ cache'[caller[c].ws] # c
      BY <1>1, <1>2, <2>2, <3>1 DEF Locked
    <3>3. Stocked(c)'
      BY <1>1, <1>2, <3>1, <3>2 DEF Stocked, Working
    <3>4. Locked(c)'
      BY <1>1, <1>2, <3>1 DEF Locked, Working
    <3>. QED
      BY <3>3, <3>4
  <2>. QED
    BY <2>1, <2>2
<1>8. Cached' = {}
  BY <1>1 DEF Cached
<1>9. CacheOK'
  <2>1. ASSUME NEW o \in Callers, NEW p \in Callers, caller'[o].at = "closing",
               caller'[p].at = "closing", caller'[o].ws = caller'[p].ws
        PROVE  o = p
    <3>1. \E w \in Workspaces : cache[w] = o
      BY <1>2, <1>4, <2>1
    <3>2. \E w \in Workspaces : cache[w] = p
      BY <1>2, <1>4, <2>1
    <3>3. cache[caller[o].ws] = o /\ caller'[o].ws = caller[o].ws
      BY <1>3, <3>1
    <3>4. cache[caller[p].ws] = p /\ caller'[p].ws = caller[p].ws
      BY <1>3, <3>2
    <3>. QED
      BY <2>1, <3>3, <3>4
  <2>2. \A w \in Workspaces : cache'[w] = Nobody
    BY <1>1
  <2>3. Cardinality(Cached') <= MaxBundles
    BY <1>8, FS_EmptySet, WorkspaceRuntimeAssumption
  <2>. QED
    BY <2>1, <2>2, <2>3 DEF CacheOK
<1>10. Cardinality(Stockists') <= MaxBundles
  BY <1>1, NoNewStockist DEF RuntimeTypeOK
<1>. QED
  BY <1>6, <1>7, <1>9, <1>10

LEMMA RuntimeStep == RuntimeInv /\ [NextRuntime]_runtimeVars => RuntimeInv'
<1>. SUFFICES ASSUME RuntimeInv, [NextRuntime]_runtimeVars PROVE RuntimeInv'
  OBVIOUS
<1>1. CASE UNCHANGED runtimeVars
  BY <1>1 DEF runtimeVars, RuntimeInv, RuntimeTypeOK, Stocked, Locked, Working, CacheOK,
     Cached, Stockists
<1>2. CASE \E c \in Callers, w \in Workspaces : AskBundle(c, w)
  BY <1>2, AskKeeps
<1>3. CASE \E c \in Callers : EnterRuntime(c) \/ CacheBundle(c) \/ BuildFails(c)
  BY <1>3, EnterKeeps, CacheKeeps, BuildFailsKeeps
<1>4. CASE \E c \in Callers, made \in BOOLEAN : BuildPiece(c, made)
  BY <1>4, BuildKeeps
<1>5. CASE \E c \in Callers : UnwindPiece(c) \/ StopWaiting(c) \/ ClosePiece(c)
  BY <1>5, UnwindKeeps, StopWaitingKeeps, CloseKeeps
<1>6. CASE BeginShutdown \/ TakeBundles \/ EndShutdown
  BY <1>6, StoppingKeeps, TakeBundlesKeeps
<1>. QED
  BY <1>1, <1>2, <1>3, <1>4, <1>5, <1>6 DEF NextRuntime

\* A bundle is held by its builder, in the cache, or being closed: each has one
\* place, and its pieces are those of its step.
LEMMA InvImpliesHolds == RuntimeInv => RuntimeHolds
<1>. SUFFICES ASSUME RuntimeInv PROVE RuntimeHolds
  OBVIOUS
<1>. USE DEF RuntimeInv
<1>1. ASSUME NEW c \in Callers, pieces[c] # {}
      PROVE  \/ Working(c) \/ caller[c].at = "closing"
             \/ caller[c].ws \in Workspaces /\ cache[caller[c].ws] = c /\ BuiltTo(pieces[c], 6)
  <2>1. Stocked(c) /\ Locked(c) /\ caller[c] \in CallerRecord
    BY DEF RuntimeTypeOK
  <2>2. caller[c].at \notin {"idle", "waiting"}
    BY <1>1, <2>1 DEF Stocked
  <2>. QED
    BY <1>1, <2>1, <2>2 DEF Stocked, Locked, Working, CallerRecord
<1>2. NoPieceLeaks
  BY <1>1 DEF NoPieceLeaks, Working
<1>3. ASSUME NEW c \in Callers, NEW o \in Callers, c # o, caller[c].ws = caller[o].ws,
             pieces[c] # {}, pieces[o] # {}
      PROVE  FALSE
  <2>1. CASE Working(c)
    <3>1. ~Working(o) /\ caller[o].at # "closing"
      BY <1>3, <2>1, WorkingCall DEF Locked
    <3>. QED
      BY <1>1, <1>3, <2>1, <3>1, WorkingCall, WorkspaceRuntimeAssumption
  <2>2. CASE Working(o)
    <3>1. ~Working(c) /\ caller[c].at # "closing"
      BY <1>3, <2>2, WorkingCall DEF Locked
    <3>. QED
      BY <1>1, <1>3, <2>2, <3>1, WorkingCall, WorkspaceRuntimeAssumption
  <2>3. CASE ~Working(c) /\ ~Working(o)
    <3>1. CASE caller[c].at = "closing" /\ caller[o].at = "closing"
      BY <1>3, <3>1 DEF CacheOK
    <3>2. CASE caller[c].at # "closing" /\ caller[o].at # "closing"
      BY <1>1, <1>3, <2>3, <3>2
    <3>3. CASE caller[c].at = "closing" /\ caller[o].at # "closing"
      BY <1>1, <1>3, <2>3, <3>3, WorkspaceRuntimeAssumption DEF Locked, CacheOK
    <3>4. CASE caller[c].at # "closing" /\ caller[o].at = "closing"
      BY <1>1, <1>3, <2>3, <3>4, WorkspaceRuntimeAssumption DEF Locked, CacheOK
    <3>. QED
      BY <3>1, <3>2, <3>3, <3>4
  <2>. QED
    BY <2>1, <2>2, <2>3
<1>4. OneBundlePerWorkspace
  BY <1>3 DEF OneBundlePerWorkspace, Stockists
<1>5. UsersStopFirst
  <2>. SUFFICES ASSUME NEW c \in Callers, pieces[c] # {}
                PROVE  /\ "research" \in pieces[c] => "jobs" \in pieces[c]
                       /\ "jobs" \in pieces[c] => "agent" \in pieces[c] /\ HasDriver(pieces[c])
                       /\ "descriptor" \in pieces[c]
    BY DEF UsersStopFirst, HasDriver
  <2>0. pieces[c] \in SUBSET Pieces
    BY DEF RuntimeTypeOK
  <2>1. CASE caller[c].at = "building"
    <3>1. BuiltTo(pieces[c], caller[c].step) /\ caller[c].step \in 1..6
      BY <2>1 DEF Stocked
    <3>2. caller[c].step # 1
      BY <2>0, <3>1, NonEmpty DEF BuiltTo
    <3>. QED
      BY <3>1, <3>2 DEF BuiltTo
  <2>2. CASE caller[c].at = "unwinding"
    BY <2>2 DEF Stocked, UnwoundTo
  <2>3. CASE caller[c].at = "closing"
    <3>1. ClosedTo(pieces[c], caller[c].step) /\ caller[c].step \in 1..5
      BY <2>3 DEF Stocked
    <3>. QED
      BY <3>1 DEF ClosedTo
  <2>4. CASE BuiltTo(pieces[c], 6)
    BY <2>4 DEF BuiltTo
  <2>. QED
    BY <1>1, <2>1, <2>2, <2>3, <2>4 DEF Working
<1>. QED
  BY <1>2, <1>4, <1>5 DEF RuntimeHolds

\* Every piece belongs to a bundle in one place, a workspace has at most one bundle,
\* the cap counts the one being built, and users stop before what they use.
THEOREM BundlesAccounted == RuntimeSpec => []RuntimeHolds
<1>1. RuntimeSpec => []RuntimeInv
  BY InitRuntimeInv, RuntimeStep, PTL DEF RuntimeSpec
<1>. QED
  BY <1>1, InvImpliesHolds, PTL

-----------------------------------------------------------------------------
(***************************************************************************)
(* Live connections.  A socket that waits in accept() is counted in        *)
(* `pending` until it is on the list.  While a broadcast is underway       *)
(* `since` holds whoever is permitted now, so a send that was let through  *)
(* has its socket there.                                                   *)
(***************************************************************************)
Accepting == {s \in Sockets : socket[s] = "accepting"}

LiveInv ==
  /\ LiveTypeOK
  /\ ConnectionsBounded
  /\ guarded => \A m \in Messages :
       /\ m \in Underway => permitted \subseteq since[m]
       /\ \A s \in Sockets : message[m][s] = "sending" => s \in since[m]
       /\ delivered[m] \subseteq since[m]
       /\ \A s \in delivered[m] : message[m][s] = "done"

messageVars == <<guarded, permitted, message, delivered, since>>

LEMMA SomeSockets ==
  ASSUME NEW S \in SUBSET Sockets
  PROVE  IsFiniteSet(S) /\ Cardinality(S) \in Nat
BY FS_Subset, FS_CardinalityType, LiveConnectionsAssumption

LEMMA CapType == LiveTypeOK => cap \in Nat \ {0}
BY LiveConnectionsAssumption DEF LiveTypeOK

\* The list only loses sockets, among them any whose loop ends.
LEMMA ListShrinks ==
  ASSUME LiveInv, cap' = cap, pending' = pending, active' \subseteq active,
         \A s \in Sockets : socket'[s] = "accepting" <=> socket[s] = "accepting",
         active' \subseteq Watching'
  PROVE  ConnectionsBounded'
<1>1. Accepting' = Accepting
  BY DEF Accepting
<1>2. /\ IsFiniteSet(active) /\ Cardinality(active') <= Cardinality(active)
      /\ Cardinality(active) \in Nat /\ Cardinality(active') \in Nat
  <2>1. active \in SUBSET Sockets /\ active' \in SUBSET Sockets /\ active' \in SUBSET active
    BY DEF LiveInv, LiveTypeOK
  <2>2. IsFiniteSet(active) /\ Cardinality(active) \in Nat /\ Cardinality(active') \in Nat
    BY <2>1, SomeSockets
  <2>. QED
    BY <2>1, <2>2, FS_Subset
<1>3. /\ Cardinality(active) + pending <= cap /\ pending = Cardinality(Accepting)
      /\ pending \in Nat /\ cap \in Nat
  BY CapType DEF LiveInv, ConnectionsBounded, LiveTypeOK, Accepting
<1>4. Cardinality(active') + pending' <= cap' /\ pending' = Cardinality(Accepting')
  <2>1. pending' = Cardinality(Accepting')
    BY <1>1, <1>3
  <2>. QED
    BY <1>2, <1>3, <2>1
<1>. QED
  BY <1>4 DEF ConnectionsBounded, Accepting

\* A step that touches nothing of a broadcast.
LEMMA MessagesStay ==
  ASSUME LiveInv, UNCHANGED messageVars, LiveTypeOK', ConnectionsBounded'
  PROVE  LiveInv'
BY DEF LiveInv, messageVars, Underway

LEMMA HandshakeKeeps ==
  ASSUME LiveInv, NEW s \in Sockets, AskSocket(s) \/ EnterSocket(s)
  PROVE  LiveInv'
<1>1. /\ UNCHANGED messageVars /\ cap' = cap /\ active' = active
      /\ socket \in [Sockets -> SocketStates] /\ pending \in Nat /\ active \subseteq Watching
      /\ active \subseteq Sockets
  BY DEF AskSocket, EnterSocket, messageVars, LiveInv, LiveTypeOK, ConnectionsBounded
<1>2. CASE AskSocket(s) \/ (socket[s] = "asking" /\ pending' = pending
                             /\ socket' = [socket EXCEPT ![s] = "gone"])
  <2>1. \E x \in {"asking", "gone"} : socket' = [socket EXCEPT ![s] = x]
    BY <1>2 DEF AskSocket
  <2>2. socket[s] \in {"idle", "asking"} /\ pending' = pending
    BY <1>2 DEF AskSocket
  <2>3. /\ \A t \in Sockets : socket'[t] = "accepting" <=> socket[t] = "accepting"
        /\ socket' \in [Sockets -> SocketStates]
    BY <1>1, <2>1, <2>2 DEF SocketStates
  <2>4. active' \subseteq Watching'
    BY <1>1, <2>1, <2>2 DEF Watching
  <2>5. ConnectionsBounded'
    BY <1>1, <2>2, <2>3, <2>4, ListShrinks
  <2>6. LiveTypeOK'
    BY <1>1, <2>2, <2>3 DEF LiveInv, LiveTypeOK, messageVars
  <2>. QED
    BY <1>1, <2>5, <2>6, MessagesStay
<1>3. CASE /\ socket[s] = "asking" /\ ~Full /\ pending' = pending + 1
           /\ socket' = [socket EXCEPT ![s] = "accepting"]
  <2>1. Accepting' = Accepting \cup {s} /\ s \notin Accepting
    BY <1>1, <1>3 DEF Accepting
  <2>2. /\ IsFiniteSet(Accepting) /\ Cardinality(Accepting) \in Nat
    BY SomeSockets DEF Accepting
  <2>3. Cardinality(Accepting') = Cardinality(Accepting) + 1
    BY <2>1, <2>2, FS_AddElement
  <2>4. active' \subseteq Watching'
    BY <1>1, <1>3 DEF Watching
  <2>5. Cardinality(active) \in Nat /\ cap \in Nat
    BY <1>1, SomeSockets, CapType DEF LiveInv
  <2>6. Cardinality(active) + pending < cap
    BY <1>1, <1>3, <2>5 DEF Full
  <2>7. pending = Cardinality(Accepting)
    BY DEF LiveInv, ConnectionsBounded, Accepting
  <2>8. Cardinality(active') + pending' <= cap' /\ pending' = Cardinality(Accepting')
    <3>1. Cardinality(active') = Cardinality(active)
      BY <1>1
    <3>. QED
      BY <1>1, <1>3, <2>3, <2>5, <2>6, <2>7, <3>1
  <2>9. ConnectionsBounded'
    BY <2>4, <2>8 DEF ConnectionsBounded, Accepting
  <2>10. LiveTypeOK'
    BY <1>1, <1>3 DEF LiveInv, LiveTypeOK, messageVars, SocketStates
  <2>. QED
    BY <1>1, <2>9, <2>10, MessagesStay
<1>. QED
  BY <1>2, <1>3 DEF EnterSocket

LEMMA AcceptKeeps ==
  ASSUME LiveInv, NEW s \in Sockets, NEW ok \in BOOLEAN, AcceptSocket(s, ok)
  PROVE  LiveInv'
<1>1. /\ UNCHANGED messageVars /\ cap' = cap /\ cap \in Nat
      /\ socket \in [Sockets -> SocketStates] /\ pending \in Nat /\ active \subseteq Watching
      /\ active \subseteq Sockets
      /\ Cardinality(active) + pending <= cap /\ pending = Cardinality(Accepting)
  BY CapType DEF AcceptSocket, messageVars, LiveInv, LiveTypeOK, ConnectionsBounded, Accepting
<1>2. /\ socket[s] = "accepting" /\ pending' = pending - 1
      /\ active' = IF ok THEN active \cup {s} ELSE active
      /\ \E x \in {"open", "gone"} : /\ socket' = [socket EXCEPT ![s] = x]
                                     /\ ok => x = "open"
  BY DEF AcceptSocket
<1>3. Accepting' = Accepting \ {s} /\ s \in Accepting
  BY <1>1, <1>2 DEF Accepting
<1>4. /\ IsFiniteSet(Accepting) /\ Cardinality(Accepting) \in Nat
      /\ IsFiniteSet(active) /\ Cardinality(active) \in Nat
  BY <1>1, SomeSockets DEF Accepting
<1>5. Cardinality(Accepting') = Cardinality(Accepting) - 1
  BY <1>3, <1>4, FS_RemoveElement
<1>6. s \notin active
  BY <1>1, <1>2 DEF Watching
<1>7. Cardinality(active') <= Cardinality(active) + 1 /\ Cardinality(active') \in Nat
  <2>1. Cardinality(active \cup {s}) = Cardinality(active) + 1
    BY <1>4, <1>6, FS_AddElement
  <2>. QED
    BY <1>2, <1>4, <2>1
<1>8. pending' \in Nat
  <2>1. Accepting' \in SUBSET Sockets
    BY <1>3 DEF Accepting
  <2>2. Cardinality(Accepting') \in Nat
    BY <2>1, SomeSockets
  <2>. QED
    BY <1>1, <1>2, <1>5, <2>2
<1>9. Cardinality(active') + pending' <= cap' /\ pending' = Cardinality(Accepting')
  <2>1. pending' = Cardinality(Accepting')
    BY <1>1, <1>2, <1>5
  <2>. QED
    BY <1>1, <1>2, <1>4, <1>7, <1>8, <2>1
<1>10. active' \subseteq Watching'
  BY <1>1, <1>2 DEF Watching
<1>11. LiveTypeOK'
  BY <1>1, <1>2, <1>8 DEF LiveInv, LiveTypeOK, messageVars, SocketStates
<1>. QED
  BY <1>1, <1>9, <1>10, <1>11, MessagesStay DEF ConnectionsBounded, Accepting

LEMMA LoopKeeps ==
  ASSUME LiveInv, NEW s \in Sockets, Receive(s) \/ Recheck(s) \/ LeaveSocket(s)
  PROVE  LiveInv'
<1>1. /\ UNCHANGED messageVars /\ cap' = cap /\ pending' = pending
      /\ socket \in [Sockets -> SocketStates] /\ pending \in Nat /\ active \subseteq Watching
      /\ active \subseteq Sockets
  BY DEF Receive, Recheck, LeaveSocket, messageVars, LiveInv, LiveTypeOK, ConnectionsBounded
<1>2. /\ socket[s] \in {"open", "checking"} /\ active' \subseteq active
      /\ \E x \in {"open", "checking", "gone"} : /\ socket' = [socket EXCEPT ![s] = x]
                                                 /\ x = "gone" => s \notin active'
  BY DEF Receive, Recheck, LeaveSocket
<1>3. /\ \A t \in Sockets : socket'[t] = "accepting" <=> socket[t] = "accepting"
      /\ socket' \in [Sockets -> SocketStates]
  BY <1>1, <1>2 DEF SocketStates
<1>4. active' \subseteq Watching'
  BY <1>1, <1>2 DEF Watching
<1>5. ConnectionsBounded'
  BY <1>1, <1>2, <1>3, <1>4, ListShrinks
<1>6. LiveTypeOK'
  BY <1>1, <1>2, <1>3 DEF LiveInv, LiveTypeOK, messageVars
<1>. QED
  BY <1>1, <1>5, <1>6, MessagesStay

LEMMA CloseAllKeeps ==
  ASSUME LiveInv, CloseAll
  PROVE  LiveInv'
<1>1. /\ UNCHANGED messageVars /\ cap' = cap /\ pending' = pending /\ active' = {}
      /\ socket \in [Sockets -> SocketStates] /\ pending \in Nat /\ active \subseteq Watching
      /\ socket' = [s \in Sockets |-> IF s \in active THEN "gone" ELSE socket[s]]
  BY DEF CloseAll, messageVars, LiveInv, LiveTypeOK, ConnectionsBounded
<1>2. /\ \A t \in Sockets : socket'[t] = "accepting" <=> socket[t] = "accepting"
      /\ socket' \in [Sockets -> SocketStates]
  BY <1>1 DEF SocketStates, Watching
<1>3. ConnectionsBounded'
  BY <1>1, <1>2, ListShrinks
<1>4. LiveTypeOK'
  BY <1>1, <1>2 DEF LiveInv, LiveTypeOK, messageVars
<1>. QED
  BY <1>1, <1>3, <1>4, MessagesStay

LEMMA BroadcastKeeps ==
  ASSUME LiveInv, NEW m \in Messages, Broadcast(m)
  PROVE  LiveInv'
<1>. DEFINE first == [s \in Sockets |-> IF s \notin active THEN "done"
                                        ELSE IF guarded THEN "asking" ELSE "sending"]
<1>1. /\ LiveTypeOK /\ UNCHANGED <<guarded, cap, permitted, socket, active, pending, delivered>>
      /\ message' = [message EXCEPT ![m] = first] /\ since' = [since EXCEPT ![m] = permitted]
      /\ \A s \in Sockets : message[m][s] = "none"
  BY DEF Broadcast, LiveInv
<1>2. first \in [Sockets -> SendStates]
  BY DEF SendStates
<1>3. guarded => \A s \in Sockets : first[s] # "sending"
  OBVIOUS
<1>. HIDE DEF first
<1>4. LiveTypeOK'
  BY <1>1, <1>2 DEF LiveTypeOK
<1>5. ConnectionsBounded'
  BY <1>1 DEF LiveInv, ConnectionsBounded, Watching
<1>6. ASSUME guarded, NEW n \in Messages
      PROVE  /\ n \in Underway' => permitted \subseteq since'[n]
             /\ \A s \in Sockets : message'[n][s] = "sending" => s \in since'[n]
             /\ delivered[n] \subseteq since'[n]
             /\ \A s \in delivered[n] : message'[n][s] = "done"
  <2>1. CASE n = m
    <3>1. message'[n] = first /\ since'[n] = permitted
      BY <1>1, <2>1 DEF LiveTypeOK
    <3>2. delivered[n] = {}
      BY <1>1, <1>6, <2>1 DEF LiveInv, LiveTypeOK
    <3>. QED
      BY <1>3, <1>6, <3>1, <3>2
  <2>2. CASE n # m
    <3>1. message'[n] = message[n] /\ since'[n] = since[n]
      BY <1>1, <2>2 DEF LiveTypeOK
    <3>. QED
      BY <1>6, <3>1 DEF LiveInv, Underway
  <2>. QED
    BY <2>1, <2>2
<1>. QED
  BY <1>1, <1>4, <1>5, <1>6 DEF LiveInv

\* A send goes a step further, only to a socket that is permitted or was let through.
LEMMA SendMoves ==
  ASSUME LiveInv, NEW m \in Messages, NEW s \in Sockets,
         NEW step \in {"sending", "closing", "done"}, message' = Sends(m, s, step),
         message[m][s] \notin {"none", "done"},
         guarded => (step = "sending" => s \in permitted),
         delivered' = delivered
           \/ /\ delivered' = [delivered EXCEPT ![m] = @ \cup {s}]
              /\ step = "done" /\ message[m][s] = "sending",
         active' \subseteq active, UNCHANGED <<guarded, cap, permitted, socket, pending, since>>
  PROVE  LiveInv'
<1>1. LiveTypeOK /\ m \in Underway
  BY DEF LiveInv, Underway
<1>2. LiveTypeOK'
  <2>1. message' \in [Messages -> [Sockets -> SendStates]]
    BY <1>1 DEF LiveTypeOK, Sends, SendStates
  <2>2. delivered' \in [Messages -> SUBSET Sockets]
    BY <1>1 DEF LiveTypeOK
  <2>. QED
    BY <1>1, <2>1, <2>2 DEF LiveTypeOK
<1>3. ConnectionsBounded'
  <2>1. active' \subseteq Watching'
    BY DEF LiveInv, ConnectionsBounded, Watching
  <2>. QED
    BY <2>1, ListShrinks
<1>4. ASSUME guarded, NEW n \in Messages
      PROVE  /\ n \in Underway' => permitted \subseteq since[n]
             /\ \A t \in Sockets : message'[n][t] = "sending" => t \in since[n]
             /\ delivered'[n] \subseteq since[n]
             /\ \A t \in delivered'[n] : message'[n][t] = "done"
  <2>1. CASE n = m
    <3>1. \A t \in Sockets : message'[n][t] = IF t = s THEN step ELSE message[n][t]
      BY <1>1, <2>1 DEF LiveTypeOK, Sends
    <3>2. permitted \subseteq since[n]
      BY <1>1, <1>4, <2>1 DEF LiveInv
    <3>3. delivered'[n] = delivered[n]
            \/ (delivered'[n] = delivered[n] \cup {s} /\ step = "done" /\ s \in since[n])
      BY <1>1, <1>4, <2>1 DEF LiveInv, LiveTypeOK
    <3>. QED
      <4>1. \A t \in Sockets : message'[n][t] = "sending" => t \in since[n]
        BY <1>4, <3>1, <3>2 DEF LiveInv
      <4>2. delivered'[n] \subseteq since[n]
        BY <1>4, <3>3 DEF LiveInv
      <4>3. delivered[n] \subseteq Sockets /\ s \notin delivered[n]
        BY <1>1, <1>4, <2>1 DEF LiveInv, LiveTypeOK
      <4>4. \A t \in delivered'[n] : message'[n][t] = "done"
        BY <1>4, <3>1, <3>3, <4>3 DEF LiveInv
      <4>. QED
        BY <3>2, <4>1, <4>2, <4>4
  <2>2. CASE n # m
    <3>1. message'[n] = message[n] /\ delivered'[n] = delivered[n]
      BY <1>1, <2>2 DEF LiveTypeOK, Sends
    <3>. QED
      BY <1>4, <3>1 DEF LiveInv, Underway
  <2>. QED
    BY <2>1, <2>2
<1>. QED
  BY <1>2, <1>3, <1>4 DEF LiveInv

LEMMA SendKeeps ==
  ASSUME LiveInv, NEW m \in Messages, NEW s \in Sockets, NEW ok \in BOOLEAN,
         AskSend(m, s) \/ Close2s(m, s) \/ Send2s(m, s, ok)
  PROVE  LiveInv'
<1>1. CASE AskSend(m, s)
  <2>1. /\ message[m][s] = "asking" /\ delivered' = delivered /\ active' \subseteq active
        /\ UNCHANGED <<guarded, cap, permitted, socket, pending, since>>
        /\ \E step \in {"sending", "closing"} :
             message' = Sends(m, s, step) /\ (guarded => (step = "sending" => s \in permitted))
    BY <1>1 DEF AskSend, Unhealthy, Passes
  <2>. QED
    BY <2>1, SendMoves
<1>2. CASE Close2s(m, s)
  <2>1. /\ message[m][s] = "closing" /\ delivered' = delivered /\ active' \subseteq active
        /\ UNCHANGED <<guarded, cap, permitted, socket, pending, since>>
        /\ message' = Sends(m, s, "done")
    BY <1>2 DEF Close2s
  <2>. QED
    BY <2>1, SendMoves
<1>3. CASE Send2s(m, s, ok)
  <2>1. /\ message[m][s] = "sending" /\ active' \subseteq active
        /\ UNCHANGED <<guarded, cap, permitted, socket, pending, since>>
        /\ \/ /\ message' = Sends(m, s, "done")
              /\ delivered' = [delivered EXCEPT ![m] = @ \cup {s}]
           \/ message' = Sends(m, s, "closing") /\ delivered' = delivered
    BY <1>3 DEF Send2s, Unhealthy
  <2>. QED
    BY <2>1, SendMoves
<1>. QED
  BY <1>1, <1>2, <1>3

LEMMA PermissionKeeps ==
  ASSUME LiveInv, NEW s \in Sockets, guarded, TurnPermission(s)
  PROVE  LiveInv'
<1>1. /\ LiveTypeOK /\ permitted' \subseteq Sockets /\ Underway' = Underway
      /\ UNCHANGED <<guarded, cap, socket, active, pending, message, delivered>>
      /\ since' = [m \in Messages |-> IF m \in Underway THEN since[m] \cup permitted'
                                                        ELSE since[m]]
  BY DEF TurnPermission, LiveInv, LiveTypeOK, Underway
<1>2. LiveTypeOK'
  BY <1>1 DEF LiveTypeOK
<1>3. ConnectionsBounded'
  BY <1>1 DEF LiveInv, ConnectionsBounded, Watching
<1>. QED
  BY <1>1, <1>2, <1>3 DEF LiveInv

LEMMA InitLiveInv == InitLive => LiveInv
<1>. SUFFICES ASSUME InitLive PROVE LiveInv
  OBVIOUS
<1>1. LiveTypeOK
  BY DEF InitLive, LiveTypeOK, SocketStates, SendStates
<1>2. ConnectionsBounded
  <2>1. Accepting = {} /\ active = {} /\ pending = 0
    BY DEF InitLive, Accepting
  <2>2. Cardinality({}) = 0 /\ cap \in Nat
    BY <1>1, FS_EmptySet, CapType
  <2>. QED
    BY <2>1, <2>2 DEF ConnectionsBounded, Accepting
<1>3. \A m \in Messages : /\ m \notin Underway /\ delivered[m] = {}
                          /\ \A s \in Sockets : message[m][s] = "none"
  BY DEF InitLive, Underway
<1>. QED
  BY <1>1, <1>2, <1>3 DEF LiveInv

LEMMA LiveStep == LiveInv /\ [NextLive]_liveVars => LiveInv'
<1>. SUFFICES ASSUME LiveInv, [NextLive]_liveVars PROVE LiveInv'
  OBVIOUS
<1>1. CASE UNCHANGED liveVars
  <2>1. UNCHANGED messageVars /\ LiveTypeOK' /\ ConnectionsBounded'
    BY <1>1 DEF liveVars, messageVars, LiveInv, LiveTypeOK, ConnectionsBounded, Watching
  <2>. QED
    BY <2>1, MessagesStay
<1>. QED
  BY <1>1, HandshakeKeeps, AcceptKeeps, LoopKeeps, CloseAllKeeps, BroadcastKeeps, SendKeeps,
     PermissionKeeps DEF NextLive

\* A manager never holds more sockets than its cap, handshakes in flight included, no
\* ended loop stays on its list, and no message reaches a socket that was not permitted
\* at some moment since the broadcast began: for any number of sockets and messages, in
\* whatever order the identity store answers (connect, broadcast and the receive loops
\* of ConnectionManager and WorkspaceConnectionManager).
THEOREM ConnectionsKept ==
  LiveSpec => []LiveTypeOK /\ []ConnectionsBounded /\ []NoDeliveryAfterRevocation
<1>1. LiveInv => LiveTypeOK /\ ConnectionsBounded /\ NoDeliveryAfterRevocation
  BY DEF LiveInv, NoDeliveryAfterRevocation
<1>2. LiveSpec => []LiveInv
  BY InitLiveInv, LiveStep, PTL DEF LiveSpec
<1>. QED
  BY <1>1, <1>2, PTL
=============================================================================
