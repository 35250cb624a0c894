----------------------------- MODULE QueryHistory ------------------------------
(***************************************************************************)
(* The log of answered questions, in both its stores: the ring in memory   *)
(* with its index (src/agent/history.py) and the SQLite table              *)
(* (src/agent/durable_history.py).  The model runs every request against   *)
(* both, although a process has only one, to compare them: the routes and  *)
(* the page rely on their being the same log.  The ring evicts entry by    *)
(* entry; the table deletes as many unsaved rows as it is over.  A restart *)
(* empties the ring and may bring another limit to the same table.         *)
(*                                                                         *)
(* An entry is its number and its flag; texts and their clipping are out.  *)
(***************************************************************************)
EXTENDS Naturals, Sequences, FiniteSets, SequencesExt

CONSTANTS
  MaxAnswers,   \* bound: answers recorded in a run
  RingLimits,   \* the values `limit` takes, one per start of the process
  SavedLimit    \* saved_limit

ASSUME QueryHistoryAssumption ==
  MaxAnswers \in Nat /\ RingLimits \subseteq Nat \ {0} /\ SavedLimit \in Nat \ {0}

VARIABLES
  ring,      \* _entries: oldest first
  byId,      \* _by_id: the ids it holds
  rows,      \* query_history
  answers,   \* _seq, and the AUTOINCREMENT of the table
  limit,     \* _limit of the running process
  restarted  \* history: the ring has been lost
historyVars == <<ring, byId, rows, answers, limit, restarted>>

AnswerIds == 1..MaxAnswers
Answer == [id : AnswerIds, saved : BOOLEAN]

InitHistory ==
  /\ ring = <<>> /\ byId = {} /\ rows = {} /\ answers = 0
  /\ limit \in RingLimits
  /\ restarted = FALSE

-----------------------------------------------------------------------------
(***************************************************************************)
(* Eviction.                                                               *)
(***************************************************************************)
\* Every entry but the newest, unless it is saved.
Victims(s) == {i \in 1..(Len(s) - 1) : ~s[i].saved}

\* One turn of _evict: the oldest victim goes, unless the ring fits or nothing may go.
Turned(s) ==
  IF Len(s) <= limit \/ Victims(s) = {} THEN s
  ELSE RemoveAt(s, CHOOSE i \in Victims(s) : \A k \in Victims(s) : i <= k)

\* _evict turns until that changes nothing, which cannot take more turns than entries.
Evicted(s) ==
  LET After[k \in 0..Len(s)] == IF k = 0 THEN s ELSE Turned(After[k - 1])
  IN After[Len(s)]

MutantOverflow(t) ==
  LET others == {r \in t : r.id # answers + 1}
      Older(r) == Cardinality({o \in others : o.id < r.id})
  IN {r \in others : Older(r) + limit < Cardinality(t)}
\* The DELETE of record(): ORDER BY seq LIMIT overflow among the unsaved others.
Overflow(t) ==
  LET others == {r \in t : ~r.saved /\ r.id # answers + 1}
      Older(r) == Cardinality({o \in others : o.id < r.id})
  IN {r \in others : Older(r) + limit < Cardinality(t)}

\* set_saved on a store whose entries are `s`: past the cap nothing changes.
Flagged(s, r, want) ==
  IF want /\ ~r.saved /\ Cardinality({o \in s : o.saved}) >= SavedLimit
  THEN r ELSE [r EXCEPT !.saved = want]

-----------------------------------------------------------------------------
RecordAnswer ==
  /\ answers < MaxAnswers
  /\ answers' = answers + 1
  /\ LET new == [id |-> answers + 1, saved |-> FALSE]
     IN /\ ring' = Evicted(Append(ring, new))
        /\ byId' = {r.id : r \in ToSet(Evicted(Append(ring, new)))}
        /\ rows' = (rows \cup {new}) \ Overflow(rows \cup {new})
  /\ UNCHANGED <<limit, restarted>>

SetSaved(id, want) ==
  /\ id \in 1..answers
  /\ ring' = IF id \in byId
             THEN [i \in DOMAIN ring |->
                     IF ring[i].id = id THEN Flagged(ToSet(ring), ring[i], want) ELSE ring[i]]
             ELSE ring
  /\ rows' = {IF r.id = id THEN Flagged(rows, r, want) ELSE r : r \in rows}
  /\ UNCHANGED <<byId, answers, limit, restarted>>

DeleteAnswer(id) ==
  /\ id \in 1..answers
  /\ byId' = byId \ {id}
  /\ ring' = IF id \in byId THEN RemoveAt(ring, CHOOSE i \in DOMAIN ring : ring[i].id = id)
             ELSE ring
  /\ rows' = {r \in rows : r.id # id}
  /\ UNCHANGED <<answers, limit, restarted>>

\* The process starts again; the table is the one it left.
RestartHistory(l) ==
  /\ limit' = l /\ restarted' = TRUE
  /\ ring' = <<>> /\ byId' = {}
  /\ UNCHANGED <<rows, answers>>

NextHistory ==
  \/ RecordAnswer
  \/ \E id \in AnswerIds, want \in BOOLEAN : SetSaved(id, want)
  \/ \E id \in AnswerIds : DeleteAnswer(id)
  \/ \E l \in RingLimits : RestartHistory(l)

HistorySpec == InitHistory /\ [][NextHistory]_historyVars

-----------------------------------------------------------------------------
HistoryTypeOK ==
  /\ ring \in Seq(Answer) /\ byId \subseteq AnswerIds /\ rows \subseteq Answer
  /\ answers \in 0..MaxAnswers /\ limit \in RingLimits /\ restarted \in BOOLEAN

\* The two stores hold the same answers with the same flags, whatever has been
\* recorded, pinned, unpinned and deleted: evicting one by one and deleting the
\* overflow in one statement leave the same log.
StoresAgree ==
  /\ byId = {ring[i].id : i \in DOMAIN ring}
  /\ \A i, k \in DOMAIN ring : i < k => ring[i].id < ring[k].id
  /\ ~restarted => ToSet(ring) = rows

\* A step of the table: a pinned answer goes only when it is deleted, the newest is
\* never the victim, an eviction takes the oldest unsaved, and once an answer has
\* been recorded the table is within its limit unless pinned answers fill it - also
\* when it was over by several rows after a restart with a lower limit.
AnswersKept ==
  LET gone == {r \in rows : \A n \in rows' : n.id # r.id}
  IN answers' # answers =>
       /\ \A r \in gone : ~r.saved
       /\ \E r \in rows' : r.id = answers'
       /\ \A r \in gone, n \in rows' : r.id < n.id \/ n.saved
       /\ Cardinality(rows') <= limit \/ \A n \in rows' : n.saved \/ n.id = answers'
       /\ gone # {} => Cardinality(rows') >= limit

\* After every step of the history.
HistoryKeepsAnswers == [][HistoryTypeOK' /\ StoresAgree' /\ AnswersKept]_historyVars
=============================================================================
