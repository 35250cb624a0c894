-------------------------- MODULE EntityGraphProofs --------------------------
(***************************************************************************)
(* Proofs about EntityGraph for any sources, versions and names, and any   *)
(* number of publications and embeddings in flight.  The properties are    *)
(* inductive only together: that no entity is orphaned rests on every      *)
(* relation's source holding both its ends, and that summaries and         *)
(* evidence are current rests on the memberships a removal looks at.       *)
(***************************************************************************)
EXTENDS EntityGraph, TLAPS

\* What is true of every entity on its own, given the current versions p.
EntityInv(n, p) ==
  /\ n \in Entity
  /\ n.docs # {} /\ \A s \in n.docs : p[s] # NoVersion
  /\ \A c \in n.ev : p[c[1]] = c[2]
  /\ n.text # Blank => n.text[1] \in n.docs /\ p[n.text[1]] = n.text[2]

\* ... and of the relations E between the entities of N.
EdgesInv(N, E) ==
  /\ E \subseteq Edge
  /\ \A e \in E : /\ {e.from, e.to} \subseteq DOMAIN N
                  /\ e.doc \in N[e.from].docs /\ e.doc \in N[e.to].docs

GraphInv ==
  /\ Present \subseteq Ids
  /\ \A i \in Present : EntityInv(node[i], pub)
  /\ EdgesInv(node, edge)

Control ==
  /\ pub \in [Sources -> Versions \cup {NoVersion}]
  /\ home \in [Ids -> Ids]
  /\ past \subseteq Chunks /\ recurred \in BOOLEAN /\ count \in 0..MaxPublications
  /\ items \subseteq [id : Ids, text : Texts]

\* A source asserts entities of its own and relations between these.
SaidInv ==
  /\ said \in [Sources -> Assertion]
  /\ \A s \in Sources : /\ \A i \in said[s].nodes : i[1] = s
                        /\ \A e \in said[s].edges : e[1] \in said[s].nodes /\ e[2] \in said[s].nodes

\* An entity's id is of a version that was published.
PastInv == \A i \in Present : <<i[1], i[2]>> \in past

IInv == Control /\ GraphInv /\ SaidInv /\ PastInv /\ AssertionsSurvive /\ SoundWithoutRecurrence

-----------------------------------------------------------------------------
(* Ids, chunks and what removing a source leaves. *)

LEMMA IdParts ==
  ASSUME NEW i \in Ids
  PROVE  i[1] \in Sources /\ i[2] \in Versions /\ <<i[1], i[2]>> \in Chunks
  BY DEF Ids, Chunks

LEMMA ChunkParts ==
  ASSUME NEW c \in Chunks
  PROVE  c[1] \in Sources /\ c[2] \in Versions /\ c = <<c[1], c[2]>>
  BY DEF Chunks

LEMMA StrippedFields ==
  ASSUME NEW s \in Sources, NEW i \in Present, node[i] \in Entity
  PROVE  /\ Stripped(s)[i] \in Entity
         /\ Stripped(s)[i].docs = node[i].docs \ {s}
         /\ Stripped(s)[i].ev = node[i].ev \ StoredChunks(s)
         /\ s \in node[i].docs => Stripped(s)[i].text = Blank /\ Stripped(s)[i].vec = NoVec
         /\ s \notin node[i].docs => Stripped(s)[i].text = node[i].text /\ Stripped(s)[i].vec = node[i].vec
  <1> DEFINE n == [node[i] EXCEPT !.ev = @ \ StoredChunks(s)]
  <1>1. /\ n \in Entity /\ n.docs = node[i].docs /\ n.ev = node[i].ev \ StoredChunks(s)
        /\ n.text = node[i].text /\ n.vec = node[i].vec
    BY DEF Entity
  <1>2. Stripped(s)[i] = IF s \in n.docs THEN Forget(n, s) ELSE n
    BY DEF Stripped
  <1> HIDE DEF n
  <1>3. /\ Forget(n, s) \in Entity /\ Forget(n, s).docs = n.docs \ {s} /\ Forget(n, s).ev = n.ev
        /\ Forget(n, s).text = Blank /\ Forget(n, s).vec = NoVec
    BY <1>1 DEF Entity, Forget, Texts
  <1> QED BY <1>1, <1>2, <1>3

\* What the removal of s keeps: everything another source holds.
LEMMA KeptFacts ==
  ASSUME GraphInv, NEW s \in Sources
  PROVE  /\ DOMAIN Kept(s) \subseteq Present
         /\ \A i \in DOMAIN Kept(s) : Kept(s)[i] = Stripped(s)[i]
         /\ \A i \in Present : node[i].docs \ {s} # {} <=> i \in DOMAIN Kept(s)
  <1>1. /\ DOMAIN Kept(s) = Present \ Orphans(s)
        /\ \A i \in DOMAIN Kept(s) : Kept(s)[i] = Stripped(s)[i]
    BY DEF Kept
  <1>2. ASSUME NEW i \in Present, node[i].docs \ {s} # {}
        PROVE  i \notin Orphans(s)
    BY <1>2 DEF Orphans
  <1>3. ASSUME NEW i \in Present, node[i].docs \ {s} = {}
        PROVE  i \in Orphans(s)
    <2>1. node[i].docs # {} BY DEF GraphInv, EntityInv
    <2>2. s \in node[i].docs /\ node[i].docs \subseteq {s} BY <1>3, <2>1
    <2>3. \A e \in OthersEdges(s) : ~Touches(e, i)
      BY <2>2 DEF OthersEdges, Touches, GraphInv, EdgesInv
    <2> QED BY <2>2, <2>3 DEF Orphans
  <1> QED BY <1>1, <1>2, <1>3

\* What is kept is sound whatever version s gets next, for s holds none of it.
LEMMA KeptEntity ==
  ASSUME Control, GraphInv, NEW s \in Sources, NEW i \in DOMAIN Kept(s),
         NEW p, \A r \in Sources \ {s} : p[r] = pub[r]
  PROVE  EntityInv(Kept(s)[i], p) /\ s \notin Kept(s)[i].docs
  <1> DEFINE n == Kept(s)[i]
  <1>1. i \in Present /\ n = Stripped(s)[i] /\ node[i].docs \ {s} # {}
    BY KeptFacts
  <1>2. EntityInv(node[i], pub) BY <1>1 DEF GraphInv
  <1>3. node[i] \in Entity BY <1>2 DEF EntityInv
  <1>4. /\ n \in Entity /\ n.docs = node[i].docs \ {s} /\ n.ev = node[i].ev \ StoredChunks(s)
        /\ s \in node[i].docs => n.text = Blank
        /\ s \notin node[i].docs => n.text = node[i].text
    BY <1>1, <1>3, StrippedFields
  <1> HIDE DEF n
  <1>5. n.docs # {} /\ s \notin n.docs BY <1>1, <1>4
  <1>6. ASSUME NEW r \in n.docs PROVE p[r] # NoVersion
    <2>1. r \in Sources \ {s} /\ r \in node[i].docs BY <1>3, <1>4 DEF Entity
    <2> QED BY <1>2, <2>1 DEF EntityInv
  <1>7. ASSUME NEW c \in n.ev PROVE p[c[1]] = c[2]
    <2>1. c \in node[i].ev /\ c \notin StoredChunks(s) /\ c \in Chunks
      BY <1>3, <1>4 DEF Entity
    <2>2. pub[c[1]] = c[2] BY <1>2, <2>1 DEF EntityInv
    <2>3. c[1] \in Sources /\ c = <<c[1], c[2]>> BY <2>1, ChunkParts
    <2>4. c[1] # s BY <2>1, <2>2, <2>3 DEF StoredChunks
    <2> QED BY <2>2, <2>3, <2>4
  <1>8. ASSUME n.text # Blank PROVE n.text[1] \in n.docs /\ p[n.text[1]] = n.text[2]
    <2>1. s \notin node[i].docs /\ n.text = node[i].text BY <1>4, <1>8
    <2>2. n.text[1] \in node[i].docs /\ pub[n.text[1]] = n.text[2]
      BY <1>2, <1>8, <2>1 DEF EntityInv
    <2>3. n.text[1] \in Sources \ {s} BY <1>3, <2>1, <2>2 DEF Entity
    <2> QED BY <1>4, <2>2, <2>3
  <1>9. EntityInv(n, p) BY <1>4, <1>5, <1>6, <1>7, <1>8 DEF EntityInv
  <1> QED BY <1>5, <1>9 DEF n

\* The other sources' relations keep their ends.
LEMMA KeptEdges ==
  ASSUME GraphInv, NEW s \in Sources
  PROVE  EdgesInv(Kept(s), OthersEdges(s))
  <1>1. OthersEdges(s) \subseteq edge /\ edge \subseteq Edge
    BY DEF OthersEdges, GraphInv, EdgesInv
  <1>2. ASSUME NEW e \in OthersEdges(s), NEW i \in {e.from, e.to}
        PROVE  i \in DOMAIN Kept(s) /\ e.doc \in Kept(s)[i].docs
    <2>1. e.doc # s /\ i \in Present /\ e.doc \in node[i].docs
      BY <1>2 DEF OthersEdges, GraphInv, EdgesInv, Present
    <2>2. node[i].docs \ {s} # {} BY <2>1
    <2>3. i \in DOMAIN Kept(s) /\ Kept(s)[i] = Stripped(s)[i] BY <2>1, <2>2, KeptFacts
    <2>4. node[i] \in Entity BY <2>1 DEF GraphInv, EntityInv
    <2>5. Stripped(s)[i].docs = node[i].docs \ {s} BY <2>1, <2>4, StrippedFields
    <2> QED BY <2>1, <2>3, <2>5
  <1> QED BY <1>1, <1>2 DEF EdgesInv

\* The other sources' assertions stay under the entities that stand for them.
LEMMA KeptAssertions ==
  ASSUME GraphInv, SaidInv, AssertionsSurvive, NEW s \in Sources, NEW r \in Sources \ {s}
  PROVE  /\ \A i \in said[r].nodes : home[i] \in DOMAIN Kept(s) /\ r \in Kept(s)[home[i]].docs
         /\ \A e \in said[r].edges : home[e[1]] # home[e[2]] =>
              [from |-> home[e[1]], to |-> home[e[2]], doc |-> r] \in OthersEdges(s)
  <1>1. ASSUME NEW i \in said[r].nodes
        PROVE  home[i] \in DOMAIN Kept(s) /\ r \in Kept(s)[home[i]].docs
    <2>1. home[i] \in Present /\ r \in node[home[i]].docs BY <1>1 DEF AssertionsSurvive
    <2>2. home[i] \in DOMAIN Kept(s) /\ Kept(s)[home[i]] = Stripped(s)[home[i]]
      BY <2>1, KeptFacts
    <2>3. node[home[i]] \in Entity BY <2>1 DEF GraphInv, EntityInv
    <2>4. Stripped(s)[home[i]].docs = node[home[i]].docs \ {s} BY <2>1, <2>3, StrippedFields
    <2> QED BY <2>1, <2>2, <2>4
  <1>2. ASSUME NEW e \in said[r].edges, home[e[1]] # home[e[2]]
        PROVE  [from |-> home[e[1]], to |-> home[e[2]], doc |-> r] \in OthersEdges(s)
    BY <1>2 DEF AssertionsSurvive, OthersEdges
  <1> QED BY <1>1, <1>2

\* Without a version's return, evidence and vectors stay sound.
Sound(n, p) == (\A s \in n.docs : <<s, p[s]>> \in n.ev) /\ n.vec \in {NoVec, n.text}

LEMMA KeptSound ==
  ASSUME Control, GraphInv, NEW s \in Sources, NEW i \in DOMAIN Kept(s), Sound(node[i], pub),
         NEW p, \A r \in Sources \ {s} : p[r] = pub[r]
  PROVE  Sound(Kept(s)[i], p)
  <1>1. i \in Present /\ Kept(s)[i] = Stripped(s)[i] BY KeptFacts
  <1>2. node[i] \in Entity BY <1>1 DEF GraphInv, EntityInv
  <1>3. /\ Kept(s)[i].docs = node[i].docs \ {s} /\ Kept(s)[i].ev = node[i].ev \ StoredChunks(s)
        /\ s \in node[i].docs => Kept(s)[i].text = Blank /\ Kept(s)[i].vec = NoVec
        /\ s \notin node[i].docs => Kept(s)[i].text = node[i].text /\ Kept(s)[i].vec = node[i].vec
    BY <1>1, <1>2, StrippedFields
  <1>4. ASSUME NEW r \in Kept(s)[i].docs PROVE <<r, p[r]>> \in Kept(s)[i].ev
    <2>1. r \in Sources \ {s} /\ r \in node[i].docs BY <1>2, <1>3 DEF Entity
    <2>2. <<r, pub[r]>> \in node[i].ev /\ p[r] = pub[r] BY <2>1 DEF Sound
    <2>3. <<r, pub[r]>> \notin StoredChunks(s) BY <2>1 DEF StoredChunks
    <2> QED BY <1>3, <2>2, <2>3
  <1>5. Kept(s)[i].vec \in {NoVec, Kept(s)[i].text} BY <1>3 DEF Sound
  <1> QED BY <1>4, <1>5 DEF Sound

LEMMA SoundMeans ==
  SoundWithoutRecurrence <=> (~recurred => \A i \in Present : Sound(node[i], pub))
  BY DEF SoundWithoutRecurrence, EvidenceOfEveryMember, Sound

-----------------------------------------------------------------------------
(* The initial state, removal and clear. *)

LEMMA InitInv == Init => IInv
  <1> SUFFICES ASSUME Init PROVE IInv OBVIOUS
  <1>1. Present = {} BY DEF Init, Present
  <1>2. Control
    <2>1. pub \in [Sources -> Versions \cup {NoVersion}] /\ home \in [Ids -> Ids] BY DEF Init
    <2>2. past \subseteq Chunks /\ items \subseteq [id : Ids, text : Texts] BY DEF Init
    <2>3. recurred \in BOOLEAN BY DEF Init
    <2>4. count \in 0..MaxPublications BY BoundsAssumption DEF Init
    <2> QED BY <2>1, <2>2, <2>3, <2>4 DEF Control
  <1>3. GraphInv BY <1>1 DEF Init, GraphInv, EdgesInv
  <1>4. SaidInv BY DEF Init, SaidInv, Assertion, Nothing
  <1>5. AssertionsSurvive
    <2>1. \A s \in Sources : said[s].nodes = {} /\ said[s].edges = {} BY DEF Init, Nothing
    <2> QED BY <2>1 DEF AssertionsSurvive
  <1>6. PastInv /\ SoundWithoutRecurrence BY <1>1, SoundMeans DEF PastInv
  <1> QED BY <1>2, <1>3, <1>4, <1>5, <1>6 DEF IInv

LEMMA DeleteInv ==
  ASSUME IInv, NEW s \in Sources, Delete(s)
  PROVE  IInv'
  <1> USE DEF IInv
  <1>1. /\ node' = Kept(s) /\ edge' = OthersEdges(s) /\ home' = home
        /\ past' = past /\ recurred' = recurred /\ count' = count /\ items' = items
        /\ pub' = [pub EXCEPT ![s] = NoVersion] /\ said' = [said EXCEPT ![s] = Nothing]
    BY DEF Delete, history
  <1>2. Control' BY <1>1 DEF Control
  <1>3. \A r \in Sources \ {s} : pub'[r] = pub[r] /\ said'[r] = said[r]
    BY <1>1 DEF Control, SaidInv
  <1>4. GraphInv'
    <2>1. \A i \in DOMAIN Kept(s) : EntityInv(Kept(s)[i], pub') BY <1>3, KeptEntity
    <2>2. DOMAIN Kept(s) \subseteq Ids BY KeptFacts DEF GraphInv
    <2>3. EdgesInv(Kept(s), OthersEdges(s)) BY KeptEdges
    <2> QED BY <1>1, <2>1, <2>2, <2>3 DEF GraphInv, Present, EdgesInv
  <1>5. SaidInv'
    <2>1. Nothing \in Assertion BY DEF Nothing, Assertion
    <2>2. said' \in [Sources -> Assertion] BY <1>1, <2>1 DEF SaidInv
    <2>3. said'[s] = Nothing BY <1>1 DEF SaidInv
    <2> QED BY <1>3, <2>2, <2>3 DEF SaidInv, Nothing
  <1>6. PastInv' BY <1>1, KeptFacts DEF PastInv, Present
  <1>7. AssertionsSurvive'
    <2>1. said'[s] = Nothing BY <1>1 DEF SaidInv
    <2> SUFFICES ASSUME NEW r \in Sources
                 PROVE  /\ \A i \in said'[r].nodes : home'[i] \in Present' /\ r \in node'[home'[i]].docs
                        /\ \A e \in said'[r].edges : home'[e[1]] # home'[e[2]] =>
                             [from |-> home'[e[1]], to |-> home'[e[2]], doc |-> r] \in edge'
      BY DEF AssertionsSurvive
    <2>2. CASE r = s BY <2>1, <2>2 DEF Nothing
    <2>3. CASE r # s BY <1>1, <1>3, <2>3, KeptAssertions DEF Present
    <2> QED BY <2>2, <2>3
  <1>8. SoundWithoutRecurrence'
    <2> SUFFICES ASSUME ~recurred', NEW i \in Present' PROVE Sound(node'[i], pub')
      BY DEF Sound, SoundWithoutRecurrence, EvidenceOfEveryMember
    <2>1. i \in DOMAIN Kept(s) /\ i \in Present BY <1>1, KeptFacts DEF Present
    <2>2. Sound(node[i], pub) BY <1>1, <2>1, SoundMeans
    <2>3. Sound(Kept(s)[i], pub') BY <1>3, <2>1, <2>2, KeptSound
    <2> QED BY <1>1, <2>3
  <1> QED BY <1>2, <1>4, <1>5, <1>6, <1>7, <1>8

LEMMA ClearInv ==
  ASSUME IInv, Clear
  PROVE  IInv'
  <1> USE DEF IInv
  <1>1. /\ Present' = {} /\ edge' = {} /\ said' = [s \in Sources |-> Nothing]
        /\ pub' = [s \in Sources |-> NoVersion]
        /\ home' = home /\ past' = past /\ recurred' = recurred /\ count' = count /\ items' = items
    BY DEF Clear, Present, history
  <1>2. Control' BY <1>1 DEF Control
  <1>3. GraphInv' BY <1>1 DEF GraphInv, EdgesInv
  <1>4. SaidInv' BY <1>1 DEF SaidInv, Assertion, Nothing
  <1>5. AssertionsSurvive' BY <1>1 DEF AssertionsSurvive, Nothing
  <1>6. PastInv' /\ SoundWithoutRecurrence'
    BY <1>1 DEF PastInv, SoundWithoutRecurrence, EvidenceOfEveryMember
  <1> QED BY <1>2, <1>3, <1>4, <1>5, <1>6

-----------------------------------------------------------------------------
(* Publication. *)

\* An entity of the version, created or found.
LEMMA PublishedFields ==
  ASSUME NEW i \in Ids, NEW old, i \in DOMAIN old => old[i] \in Entity
  PROVE  /\ Published(i, old) \in Entity
         /\ Published(i, old).ev = {<<i[1], i[2]>>} /\ Published(i, old).text = i
         /\ i \in DOMAIN old => Published(i, old).docs = old[i].docs \cup {i[1]}
         /\ i \notin DOMAIN old => Published(i, old).docs = {i[1]} /\ Published(i, old).vec = NoVec
  <1>1. i[1] \in Sources /\ <<i[1], i[2]>> \in Chunks /\ i \in Texts BY IdParts DEF Texts
  <1>2. CASE i \in DOMAIN old
    <2>1. Published(i, old) =
            [old[i] EXCEPT !.text = i, !.ev = {<<i[1], i[2]>>}, !.docs = @ \cup {i[1]}]
      BY <1>2 DEF Published
    <2>2. old[i] \in Entity BY <1>2
    <2> DEFINE a == [old[i] EXCEPT !.text = i]
               b == [a EXCEPT !.ev = {<<i[1], i[2]>>}]
    <2>3. a \in Entity /\ a.docs = old[i].docs /\ a.text = i BY <1>1, <2>2 DEF Entity
    <2>4. Published(i, old) = [b EXCEPT !.docs = @ \cup {i[1]}] BY <2>1
    <2> HIDE DEF a
    <2>5. b \in Entity /\ b.docs = old[i].docs /\ b.text = i /\ b.ev = {<<i[1], i[2]>>}
      BY <1>1, <2>3 DEF Entity
    <2> HIDE DEF b
    <2> QED BY <1>1, <1>2, <2>4, <2>5 DEF Entity
  <1>3. CASE i \notin DOMAIN old
    <2>1. Published(i, old) = [docs |-> {i[1]}, ev |-> {<<i[1], i[2]>>}, text |-> i, vec |-> NoVec]
      BY <1>3 DEF Published
    <2> QED BY <1>1, <1>3, <2>1 DEF Entity
  <1> QED BY <1>2, <1>3

LEMMA PublishInv ==
  ASSUME IInv, NEW s \in Sources, NEW v \in Versions,
         NEW N \in SUBSET ({s} \X {v} \X Names), NEW E \in SUBSET (N \X N), Publish(s, v, N, E)
  PROVE  IInv'
  <1> USE DEF IInv
  <1>1. /\ DOMAIN node' = DOMAIN Kept(s) \cup N
        /\ \A i \in N : node'[i] = Published(i, Kept(s))
        /\ \A i \in DOMAIN Kept(s) \ N : node'[i] = Kept(s)[i]
    BY DEF Publish
  <1>2. /\ edge' = OthersEdges(s) \cup {[from |-> e[1], to |-> e[2], doc |-> s] : e \in E}
        /\ pub' = [pub EXCEPT ![s] = v]
        /\ said' = [said EXCEPT ![s] = [nodes |-> N, edges |-> E]]
        /\ home' = [i \in Ids |-> IF i \in N THEN i ELSE home[i]]
        /\ past' = past \cup {<<s, v>>} /\ recurred' = (recurred \/ <<s, v>> \in past)
        /\ count < MaxPublications /\ count' = count + 1 /\ items' = items
    BY DEF Publish
  <1>3. \A i \in N : i \in Ids /\ i[1] = s /\ i[2] = v BY DEF Ids
  <1>4. \A r \in Sources \ {s} : pub'[r] = pub[r] /\ said'[r] = said[r]
    BY <1>2 DEF Control, SaidInv
  <1>5. pub'[s] = v /\ v # NoVersion /\ said'[s] = [nodes |-> N, edges |-> E]
    BY <1>2, SentinelsAssumption DEF Control, SaidInv
  <1>6. Control'
    <2>1. pub' \in [Sources -> Versions \cup {NoVersion}] BY <1>2 DEF Control
    <2>2. home' \in [Ids -> Ids] BY <1>2 DEF Control
    <2>3. past' \subseteq Chunks BY <1>2 DEF Control, Chunks
    <2>4. recurred' \in BOOLEAN
      <3>1. <<s, v>> \in past \/ <<s, v>> \notin past OBVIOUS
      <3> QED BY <1>2, <3>1 DEF Control
    <2>5. count' \in 0..MaxPublications BY <1>2, BoundsAssumption DEF Control
    <2>6. items' \subseteq [id : Ids, text : Texts] BY <1>2 DEF Control
    <2> QED BY <2>1, <2>2, <2>3, <2>4, <2>5, <2>6 DEF Control
  <1>7. \A i \in DOMAIN Kept(s) : EntityInv(Kept(s)[i], pub') /\ s \notin Kept(s)[i].docs
    BY <1>4, KeptEntity
  <1>8. ASSUME NEW i \in N
        PROVE  /\ node'[i] \in Entity /\ node'[i].ev = {<<s, v>>} /\ node'[i].text = i
               /\ s \in node'[i].docs
               /\ i \in DOMAIN Kept(s) => node'[i].docs = Kept(s)[i].docs \cup {s}
               /\ i \notin DOMAIN Kept(s) => node'[i].docs = {s} /\ node'[i].vec = NoVec
    <2>1. i \in DOMAIN Kept(s) => Kept(s)[i] \in Entity BY <1>7 DEF EntityInv
    <2> DEFINE n == Published(i, Kept(s))
    <2>2. /\ n \in Entity /\ n.ev = {<<i[1], i[2]>>} /\ n.text = i
          /\ i \in DOMAIN Kept(s) => n.docs = Kept(s)[i].docs \cup {i[1]}
          /\ i \notin DOMAIN Kept(s) => n.docs = {i[1]} /\ n.vec = NoVec
      BY <1>3, <2>1, PublishedFields
    <2>3. node'[i] = n BY <1>1
    <2> HIDE DEF n
    <2> QED BY <1>3, <2>2, <2>3
  <1>9. ASSUME NEW i \in DOMAIN Kept(s)
        PROVE  i \in Present' /\ Kept(s)[i].docs \subseteq node'[i].docs
    BY <1>1, <1>8 DEF Present
  <1>10. \A i \in Present' : EntityInv(node'[i], pub')
    <2>1. ASSUME NEW i \in N PROVE EntityInv(node'[i], pub')
      <3>1. \A r \in node'[i].docs : pub'[r] # NoVersion
        BY <1>5, <1>7, <1>8 DEF EntityInv
      <3>2. \A c \in node'[i].ev : pub'[c[1]] = c[2] BY <1>5, <1>8
      <3>3. node'[i].text[1] \in node'[i].docs /\ pub'[node'[i].text[1]] = node'[i].text[2]
        BY <1>3, <1>5, <1>8
      <3> QED BY <1>8, <3>1, <3>2, <3>3 DEF EntityInv
    <2> QED BY <1>1, <1>7, <2>1 DEF Present
  <1>11. EdgesInv(node', edge')
    <2>1. ASSUME NEW e \in OthersEdges(s)
          PROVE  /\ e \in Edge /\ {e.from, e.to} \subseteq DOMAIN node'
                 /\ e.doc \in node'[e.from].docs /\ e.doc \in node'[e.to].docs
      <3>1. /\ e \in Edge /\ e.from \in DOMAIN Kept(s) /\ e.to \in DOMAIN Kept(s)
            /\ e.doc \in Kept(s)[e.from].docs /\ e.doc \in Kept(s)[e.to].docs
        BY KeptEdges DEF EdgesInv
      <3> QED BY <1>9, <3>1 DEF Present
    <2>2. ASSUME NEW e \in E
          PROVE  /\ [from |-> e[1], to |-> e[2], doc |-> s] \in Edge
                 /\ {e[1], e[2]} \subseteq DOMAIN node'
                 /\ s \in node'[e[1]].docs /\ s \in node'[e[2]].docs
      <3>1. e[1] \in N /\ e[2] \in N OBVIOUS
      <3> QED BY <1>1, <1>3, <1>8, <3>1 DEF Edge
    <2> QED BY <1>2, <2>1, <2>2 DEF EdgesInv
  <1>12. Present' \subseteq Ids BY <1>1, <1>3, KeptFacts DEF Present, GraphInv
  <1>13. GraphInv' BY <1>10, <1>11, <1>12 DEF GraphInv, EdgesInv
  <1>14. SaidInv'
    <2>1. [nodes |-> N, edges |-> E] \in Assertion
      <3>1. N \subseteq Ids BY <1>3
      <3>2. E \subseteq Ids \X Ids BY <3>1
      <3> QED BY <3>1, <3>2 DEF Assertion
    <2>2. said' \in [Sources -> Assertion] BY <1>2, <2>1 DEF SaidInv
    <2>3. \A i \in said'[s].nodes : i[1] = s BY <1>3, <1>5
    <2>4. \A e \in said'[s].edges : e[1] \in said'[s].nodes /\ e[2] \in said'[s].nodes BY <1>5
    <2> QED BY <1>4, <2>2, <2>3, <2>4 DEF SaidInv
  <1>15. PastInv' BY <1>1, <1>2, <1>3, KeptFacts DEF PastInv, Present
  <1>16. AssertionsSurvive'
    <2>1. /\ \A i \in N : home'[i] = i
          /\ \A i \in Ids \ N : home'[i] = home[i]
      BY <1>2, <1>3
    <2> SUFFICES ASSUME NEW r \in Sources
                 PROVE  /\ \A i \in said'[r].nodes : home'[i] \in Present' /\ r \in node'[home'[i]].docs
                        /\ \A e \in said'[r].edges : home'[e[1]] # home'[e[2]] =>
                             [from |-> home'[e[1]], to |-> home'[e[2]], doc |-> r] \in edge'
      BY DEF AssertionsSurvive
    <2>2. CASE r = s
      <3>1. said'[r].nodes = N /\ said'[r].edges = E BY <1>5, <2>2
      <3>2. \A e \in E : e[1] \in N /\ e[2] \in N OBVIOUS
      <3>3. \A i \in N : home'[i] \in Present' /\ r \in node'[home'[i]].docs
        BY <1>1, <1>8, <2>1, <2>2 DEF Present
      <3>4. \A e \in E : [from |-> home'[e[1]], to |-> home'[e[2]], doc |-> r] \in edge'
        <4> SUFFICES ASSUME NEW e \in E
                     PROVE  [from |-> home'[e[1]], to |-> home'[e[2]], doc |-> s] \in edge'
          BY <2>2
        <4>1. home'[e[1]] = e[1] /\ home'[e[2]] = e[2] BY <2>1, <3>2
        <4>2. [from |-> e[1], to |-> e[2], doc |-> s] \in edge' BY <1>2
        <4> QED BY <4>1, <4>2
      <3> QED BY <3>1, <3>3, <3>4
    <2>3. CASE r # s
      <3>1. said'[r] = said[r] BY <1>4, <2>3
      <3>2. \A i \in said[r].nodes : i \in Ids \ N
        BY <1>3, <2>3 DEF SaidInv, Assertion
      <3>3. /\ \A i \in said[r].nodes : home'[i] = home[i]
            /\ \A e \in said[r].edges : home'[e[1]] = home[e[1]] /\ home'[e[2]] = home[e[2]]
        BY <2>1, <3>2 DEF SaidInv
      <3>4. /\ \A i \in said[r].nodes : home[i] \in DOMAIN Kept(s) /\ r \in Kept(s)[home[i]].docs
            /\ \A e \in said[r].edges : home[e[1]] # home[e[2]] =>
                 [from |-> home[e[1]], to |-> home[e[2]], doc |-> r] \in OthersEdges(s)
        BY <2>3, KeptAssertions
      <3>5. \A i \in said[r].nodes : home'[i] \in Present' /\ r \in node'[home'[i]].docs
        BY <1>9, <3>3, <3>4
      <3>6. \A e \in said[r].edges : home'[e[1]] # home'[e[2]] =>
              [from |-> home'[e[1]], to |-> home'[e[2]], doc |-> r] \in edge'
        <4> SUFFICES ASSUME NEW e \in said[r].edges, home'[e[1]] # home'[e[2]]
                     PROVE  [from |-> home'[e[1]], to |-> home'[e[2]], doc |-> r] \in edge'
          OBVIOUS
        <4>1. home'[e[1]] = home[e[1]] /\ home'[e[2]] = home[e[2]] BY <3>3
        <4>2. [from |-> home[e[1]], to |-> home[e[2]], doc |-> r] \in OthersEdges(s) BY <3>4, <4>1
        <4>3. OthersEdges(s) \subseteq edge' BY <1>2
        <4> QED BY <4>1, <4>2, <4>3
      <3> QED BY <3>1, <3>5, <3>6
    <2> QED BY <2>2, <2>3
  <1>17. SoundWithoutRecurrence'
    <2> SUFFICES ASSUME ~recurred', NEW i \in Present' PROVE Sound(node'[i], pub')
      BY DEF Sound, SoundWithoutRecurrence, EvidenceOfEveryMember
    <2>1. ~recurred /\ <<s, v>> \notin past BY <1>2
    <2>2. \A j \in N : j \notin DOMAIN Kept(s) BY <1>3, <2>1, KeptFacts DEF PastInv
    <2>3. CASE i \in N BY <1>5, <1>8, <2>2, <2>3 DEF Sound
    <2>4. CASE i \notin N
      <3>1. i \in DOMAIN Kept(s) /\ i \in Present BY <1>1, <2>4, KeptFacts DEF Present
      <3>2. Sound(node[i], pub) BY <2>1, <3>1, SoundMeans
      <3>3. Sound(Kept(s)[i], pub') BY <1>4, <3>1, <3>2, KeptSound
      <3> QED BY <1>1, <2>4, <3>1, <3>3
    <2> QED BY <2>3, <2>4
  <1> QED BY <1>6, <1>13, <1>14, <1>15, <1>16, <1>17

-----------------------------------------------------------------------------
(* Merging. *)

LEMMA MergeInv ==
  ASSUME IInv, NEW D \in SUBSET Present, NEW c \in D, Merge(c, D)
  PROVE  IInv'
  <1> USE DEF IInv
  <1> DEFINE keep == (Present \ D) \cup {c}
  <1>1. PICK text \in Summaries(D) :
          node' = [i \in keep |-> IF i = c THEN Absorbed(D, text) ELSE node[i]]
    BY DEF Merge
  <1>2. /\ edge' = Repointed(c, D) /\ home' = [i \in Ids |-> IF home[i] \in D THEN c ELSE home[i]]
        /\ pub' = pub /\ said' = said /\ items' = items
        /\ past' = past /\ recurred' = recurred /\ count' = count
    BY DEF Merge, history
  <1>3. /\ c \in Present /\ c \in Ids /\ keep \subseteq Present
        /\ \A i \in D : i \in Present /\ EntityInv(node[i], pub)
    BY DEF GraphInv
  <1>4. Present' = keep BY <1>1 DEF Present
  <1>5. node'[c] = Absorbed(D, text) BY <1>1
  <1>6. \A i \in keep \ {c} : node'[i] = node[i] /\ i \in Present \ D BY <1>1
  <1>7. /\ Absorbed(D, text).docs = UNION {node[i].docs : i \in D}
        /\ Absorbed(D, text).ev = UNION {node[i].ev : i \in D}
        /\ Absorbed(D, text).text = text /\ Absorbed(D, text).vec = NoVec
    BY DEF Absorbed
  <1>8. text = Blank \/ \E i \in D : text = node[i].text BY DEF Summaries
  <1>9. \A i \in D : node[i].docs \subseteq node'[c].docs /\ node[i].ev \subseteq node'[c].ev
    BY <1>5, <1>7
  \* What holds of a member's holder or evidence comes from a member.
  <1>10. /\ \A r \in node'[c].docs : \E i \in D : r \in node[i].docs
         /\ \A k \in node'[c].ev : \E i \in D : k \in node[i].ev
    BY <1>5, <1>7
  <1>11. EntityInv(node'[c], pub)
    <2>1. node'[c] \in Entity
      <3>1. \A i \in D : node[i].docs \subseteq Sources /\ node[i].ev \subseteq Chunks
                         /\ node[i].text \in Texts
        BY <1>3 DEF EntityInv, Entity
      <3>2. UNION {node[i].docs : i \in D} \in SUBSET Sources BY <3>1
      <3>3. UNION {node[i].ev : i \in D} \in SUBSET Chunks BY <3>1
      <3>4. text \in Texts BY <1>8, <3>1 DEF Texts
      <3> QED BY <1>5, <3>2, <3>3, <3>4 DEF Absorbed, Entity
    <2>2. node'[c].docs # {} BY <1>3, <1>9 DEF EntityInv
    <2>3. \A r \in node'[c].docs : pub[r] # NoVersion BY <1>3, <1>10 DEF EntityInv
    <2>4. \A k \in node'[c].ev : pub[k[1]] = k[2] BY <1>3, <1>10 DEF EntityInv
    <2>5. node'[c].text # Blank =>
            node'[c].text[1] \in node'[c].docs /\ pub[node'[c].text[1]] = node'[c].text[2]
      BY <1>3, <1>5, <1>7, <1>8, <1>9 DEF EntityInv
    <2> QED BY <2>1, <2>2, <2>3, <2>4, <2>5 DEF EntityInv
  <1>12. Control'
    <2>1. home' \in [Ids -> Ids] BY <1>2, <1>3 DEF Control
    <2> QED BY <1>2, <2>1 DEF Control
  \* Where an entity went: its holders came along.
  <1> DEFINE at(i) == IF i \in D THEN c ELSE i
  <1>13. \A i \in Present : at(i) \in Present' /\ node[i].docs \subseteq node'[at(i)].docs
    BY <1>4, <1>6, <1>9
  \* Where a relation went: its ends did, unless both are one.
  <1>14. \A e \in edge' : \E f \in edge :
           e = [from |-> at(f.from), to |-> at(f.to), doc |-> f.doc]
    <2> SUFFICES ASSUME NEW e \in Repointed(c, D)
                 PROVE  \E f \in edge : e = [from |-> at(f.from), to |-> at(f.to), doc |-> f.doc]
      BY <1>2
    <2>1. edge \subseteq Edge BY DEF GraphInv, EdgesInv
    <2>2. CASE e \in edge /\ {e.from, e.to} \cap (D \ {c}) = {}
      <3>1. at(e.from) = e.from /\ at(e.to) = e.to BY <2>2
      <3>2. e = [from |-> e.from, to |-> e.to, doc |-> e.doc] BY <2>1, <2>2 DEF Edge
      <3> QED BY <2>2, <3>1, <3>2
    <2>3. CASE \E f \in edge : f.from \in D \ {c} /\ f.to \notin D /\ e = [f EXCEPT !.from = c]
      <3>1. PICK f \in edge : f.from \in D \ {c} /\ f.to \notin D /\ e = [f EXCEPT !.from = c]
        BY <2>3
      <3>2. at(f.from) = c /\ at(f.to) = f.to BY <3>1
      <3>3. e = [from |-> c, to |-> f.to, doc |-> f.doc] BY <2>1, <3>1 DEF Edge
      <3> QED BY <3>2, <3>3
    <2>4. CASE \E f \in edge : f.to \in D \ {c} /\ f.from \notin D /\ e = [f EXCEPT !.to = c]
      <3>1. PICK f \in edge : f.to \in D \ {c} /\ f.from \notin D /\ e = [f EXCEPT !.to = c]
        BY <2>4
      <3>2. at(f.to) = c /\ at(f.from) = f.from BY <3>1
      <3>3. e = [from |-> f.from, to |-> c, doc |-> f.doc] BY <2>1, <3>1 DEF Edge
      <3> QED BY <3>2, <3>3
    <2> QED BY <2>2, <2>3, <2>4 DEF Repointed
  <1>15. \A f \in edge : at(f.from) # at(f.to) =>
           [from |-> at(f.from), to |-> at(f.to), doc |-> f.doc] \in edge'
    <2> SUFFICES ASSUME NEW f \in edge, at(f.from) # at(f.to)
                 PROVE  [from |-> at(f.from), to |-> at(f.to), doc |-> f.doc] \in Repointed(c, D)
      BY <1>2
    <2>1. f \in Edge BY DEF GraphInv, EdgesInv
    <2>2. CASE {f.from, f.to} \cap (D \ {c}) = {}
      <3>1. [from |-> at(f.from), to |-> at(f.to), doc |-> f.doc] = f BY <2>1, <2>2 DEF Edge
      <3> QED BY <2>2, <3>1 DEF Repointed
    <2>3. CASE f.from \in D \ {c}
      <3>1. f.to \notin D BY <2>3
      <3>2. [from |-> at(f.from), to |-> at(f.to), doc |-> f.doc] = [f EXCEPT !.from = c]
        BY <2>1, <2>3, <3>1 DEF Edge
      <3>3. [f EXCEPT !.from = c] \in
              {[e EXCEPT !.from = c] : e \in {r \in edge : r.from \in D \ {c} /\ r.to \notin D}}
        BY <2>3, <3>1
      <3> QED BY <3>2, <3>3 DEF Repointed
    <2>4. CASE f.to \in D \ {c}
      <3>1. f.from \notin D BY <2>4
      <3>2. [from |-> at(f.from), to |-> at(f.to), doc |-> f.doc] = [f EXCEPT !.to = c]
        BY <2>1, <2>4, <3>1 DEF Edge
      <3>3. [f EXCEPT !.to = c] \in
              {[e EXCEPT !.to = c] : e \in {r \in edge : r.to \in D \ {c} /\ r.from \notin D}}
        BY <2>4, <3>1
      <3> QED BY <3>2, <3>3 DEF Repointed
    <2> QED BY <2>2, <2>3, <2>4
  <1>16. \A i \in Ids : home'[i] = at(home[i]) BY <1>2
  <1> HIDE DEF at
  <1>17. EdgesInv(node', edge')
    <2> SUFFICES ASSUME NEW e \in edge'
                 PROVE  /\ e \in Edge /\ e.from \in Present' /\ e.to \in Present'
                        /\ e.doc \in node'[e.from].docs /\ e.doc \in node'[e.to].docs
      BY DEF EdgesInv, Present
    <2>1. PICK f \in edge : e = [from |-> at(f.from), to |-> at(f.to), doc |-> f.doc] BY <1>14
    <2>2. /\ f.from \in Present /\ f.to \in Present /\ f.doc \in Sources
          /\ f.doc \in node[f.from].docs /\ f.doc \in node[f.to].docs
      BY DEF GraphInv, EdgesInv, Present, Edge
    <2>3. /\ at(f.from) \in Present' /\ f.doc \in node'[at(f.from)].docs
          /\ at(f.to) \in Present' /\ f.doc \in node'[at(f.to)].docs
      BY <1>13, <2>2
    <2>4. Present' \subseteq Ids BY <1>3, <1>4 DEF GraphInv
    <2> QED BY <2>1, <2>2, <2>3, <2>4 DEF Edge
  <1>18. GraphInv'
    <2>1. \A i \in Present' : EntityInv(node'[i], pub')
      BY <1>2, <1>3, <1>4, <1>6, <1>11 DEF GraphInv
    <2>2. Present' \subseteq Ids BY <1>3, <1>4 DEF GraphInv
    <2> QED BY <1>17, <2>1, <2>2 DEF GraphInv, EdgesInv
  <1>19. SaidInv' BY <1>2 DEF SaidInv
  <1>20. PastInv' BY <1>2, <1>3, <1>4 DEF PastInv
  <1>21. AssertionsSurvive'
    <2> SUFFICES ASSUME NEW r \in Sources
                 PROVE  /\ \A i \in said[r].nodes : home'[i] \in Present' /\ r \in node'[home'[i]].docs
                        /\ \A e \in said[r].edges : home'[e[1]] # home'[e[2]] =>
                             [from |-> home'[e[1]], to |-> home'[e[2]], doc |-> r] \in edge'
      BY <1>2 DEF AssertionsSurvive
    <2>1. \A i \in said[r].nodes : home'[i] = at(home[i]) /\ home[i] \in Present
                                   /\ r \in node[home[i]].docs
      BY <1>16 DEF AssertionsSurvive, SaidInv, Assertion
    <2>2. \A i \in said[r].nodes : home'[i] \in Present' /\ r \in node'[home'[i]].docs
      BY <1>13, <2>1
    <2>3. ASSUME NEW e \in said[r].edges, home'[e[1]] # home'[e[2]]
          PROVE  [from |-> home'[e[1]], to |-> home'[e[2]], doc |-> r] \in edge'
      <3>1. home'[e[1]] = at(home[e[1]]) /\ home'[e[2]] = at(home[e[2]]) BY <2>1 DEF SaidInv
      <3> DEFINE f == [from |-> home[e[1]], to |-> home[e[2]], doc |-> r]
      <3>2. f \in edge BY <2>3, <3>1 DEF AssertionsSurvive
      <3>3. f.from = home[e[1]] /\ f.to = home[e[2]] /\ f.doc = r OBVIOUS
      <3> HIDE DEF f
      <3>4. at(f.from) # at(f.to) BY <2>3, <3>1, <3>3
      <3>5. [from |-> at(f.from), to |-> at(f.to), doc |-> f.doc] \in edge' BY <1>15, <3>2, <3>4
      <3> QED BY <3>1, <3>3, <3>5
    <2> QED BY <2>2, <2>3
  <1>22. SoundWithoutRecurrence'
    <2> SUFFICES ASSUME ~recurred', NEW i \in Present' PROVE Sound(node'[i], pub)
      BY <1>2 DEF Sound, SoundWithoutRecurrence, EvidenceOfEveryMember
    <2>1. \A j \in Present : Sound(node[j], pub) BY <1>2, SoundMeans
    <2>2. CASE i = c
      <3>1. \A r \in node'[c].docs : <<r, pub[r]>> \in node'[c].ev
        BY <1>3, <1>9, <1>10, <2>1 DEF Sound
      <3>2. node'[c].vec = NoVec BY <1>5, <1>7
      <3> QED BY <2>2, <3>1, <3>2 DEF Sound
    <2>3. CASE i # c BY <1>4, <1>6, <2>1, <2>3
    <2> QED BY <2>2, <2>3
  <1> QED BY <1>12, <1>18, <1>19, <1>20, <1>21, <1>22

-----------------------------------------------------------------------------
(* Embeddings. *)

LEMMA EmbedReadInv ==
  ASSUME IInv, NEW i \in Present, EmbedRead(i)
  PROVE  IInv'
  <1> USE DEF IInv
  <1>1. /\ pub' = pub /\ node' = node /\ edge' = edge /\ said' = said /\ home' = home
        /\ past' = past /\ recurred' = recurred /\ count' = count
    BY DEF EmbedRead, history
  <1>2. items' \subseteq [id : Ids, text : Texts]
    <2>1. i \in Ids /\ node[i].text \in Texts BY DEF GraphInv, EntityInv, Entity
    <2> QED BY <2>1 DEF EmbedRead, Control
  <1>3. Control' BY <1>1, <1>2 DEF Control
  <1>4. GraphInv' BY <1>1 DEF GraphInv, EdgesInv, Present
  <1>5. SaidInv' BY <1>1 DEF SaidInv
  <1>6. PastInv' BY <1>1 DEF PastInv, Present
  <1>7. AssertionsSurvive' BY <1>1 DEF AssertionsSurvive, Present
  <1>8. SoundWithoutRecurrence'
    BY <1>1 DEF SoundWithoutRecurrence, EvidenceOfEveryMember, Present
  <1> QED BY <1>3, <1>4, <1>5, <1>6, <1>7, <1>8

\* A store changes one vector, to that of the summary beside it.
LEMMA VectorInv ==
  ASSUME IInv, NEW i \in Present, node' = [node EXCEPT ![i].vec = node[i].text],
         edge' = edge, pub' = pub, said' = said, home' = home, past' = past,
         recurred' = recurred, count' = count, items' \subseteq items
  PROVE  IInv'
  <1> USE DEF IInv
  <1>1. Present' = Present BY DEF Present
  <1>2. \A j \in Present \ {i} : node'[j] = node[j] BY DEF Present
  <1>3. node[i] \in Entity BY DEF GraphInv, EntityInv
  <1>4. node'[i] = [node[i] EXCEPT !.vec = node[i].text] BY DEF Present
  <1>5. /\ node'[i] \in Entity /\ node'[i].docs = node[i].docs /\ node'[i].ev = node[i].ev
        /\ node'[i].text = node[i].text /\ node'[i].vec = node[i].text
    BY <1>3, <1>4 DEF Entity
  <1>6. \A j \in Present : node'[j].docs = node[j].docs /\ node'[j].ev = node[j].ev
    BY <1>2, <1>5
  <1>7. Control' BY DEF Control
  <1>8. GraphInv'
    <2>1. EntityInv(node'[i], pub) BY <1>5 DEF GraphInv, EntityInv
    <2>2. \A j \in Present' : EntityInv(node'[j], pub') BY <1>1, <1>2, <2>1 DEF GraphInv
    <2>3. EdgesInv(node', edge')
      <3> SUFFICES ASSUME NEW e \in edge
                   PROVE  /\ e \in Edge /\ {e.from, e.to} \subseteq Present'
                          /\ e.doc \in node'[e.from].docs /\ e.doc \in node'[e.to].docs
        BY DEF EdgesInv, Present
      <3>1. /\ e \in Edge /\ e.from \in Present /\ e.to \in Present
            /\ e.doc \in node[e.from].docs /\ e.doc \in node[e.to].docs
        BY DEF GraphInv, EdgesInv, Present
      <3> QED BY <1>1, <1>6, <3>1
    <2> QED BY <1>1, <2>2, <2>3 DEF GraphInv, EdgesInv
  <1>9. SaidInv' BY DEF SaidInv
  <1>10. PastInv' BY <1>1 DEF PastInv
  <1>11. AssertionsSurvive'
    <2> SUFFICES ASSUME NEW r \in Sources
                 PROVE  /\ \A j \in said[r].nodes : home[j] \in Present' /\ r \in node'[home[j]].docs
                        /\ \A e \in said[r].edges : home[e[1]] # home[e[2]] =>
                             [from |-> home[e[1]], to |-> home[e[2]], doc |-> r] \in edge
      BY DEF AssertionsSurvive
    <2> QED BY <1>1, <1>6 DEF AssertionsSurvive
  <1>12. SoundWithoutRecurrence'
    <2> SUFFICES ASSUME ~recurred, NEW j \in Present' PROVE Sound(node'[j], pub)
      BY DEF Sound, SoundWithoutRecurrence, EvidenceOfEveryMember
    <2>1. Sound(node[j], pub) BY <1>1, SoundMeans
    <2>2. CASE j = i BY <1>5, <2>1, <2>2 DEF Sound
    <2>3. CASE j # i BY <1>1, <1>2, <2>1, <2>3
    <2> QED BY <2>2, <2>3
  <1> QED BY <1>7, <1>8, <1>9, <1>10, <1>11, <1>12

\* A step that only takes items away keeps everything.
LEMMA QuietInv ==
  ASSUME IInv, UNCHANGED <<pub, node, edge, said, home, history>>, items' \subseteq items
  PROVE  IInv'
  <1> USE DEF IInv
  <1>1. /\ pub' = pub /\ node' = node /\ edge' = edge /\ said' = said /\ home' = home
        /\ past' = past /\ recurred' = recurred /\ count' = count
    BY DEF history
  <1>2. Control' BY <1>1 DEF Control
  <1>3. GraphInv' BY <1>1 DEF GraphInv, EdgesInv, Present
  <1>4. SaidInv' BY <1>1 DEF SaidInv
  <1>5. PastInv' BY <1>1 DEF PastInv, Present
  <1>6. AssertionsSurvive' BY <1>1 DEF AssertionsSurvive, Present
  <1>7. SoundWithoutRecurrence'
    BY <1>1 DEF SoundWithoutRecurrence, EvidenceOfEveryMember, Present
  <1> QED BY <1>2, <1>3, <1>4, <1>5, <1>6, <1>7

LEMMA EmbedEndInv ==
  ASSUME IInv, NEW it \in items, EmbedStore(it) \/ EmbedLost(it)
  PROVE  IInv'
  <1>1. CASE EmbedStore(it) /\ StillStands(it)
    <2>1. /\ edge' = edge /\ pub' = pub /\ said' = said /\ home' = home /\ past' = past
          /\ recurred' = recurred /\ count' = count /\ items' \subseteq items
      BY <1>1 DEF EmbedStore, history
    <2>2. it.id \in Present /\ node[it.id].text = it.text BY <1>1 DEF StillStands
    <2>3. node' = [node EXCEPT ![it.id].vec = node[it.id].text] BY <1>1, <2>2 DEF EmbedStore
    <2> QED BY <2>1, <2>2, <2>3, VectorInv
  <1>2. CASE EmbedStore(it) /\ ~StillStands(it)
    BY <1>2, QuietInv DEF EmbedStore
  <1>3. CASE EmbedLost(it)
    BY <1>3, QuietInv DEF EmbedLost
  <1> QED BY <1>1, <1>2, <1>3

-----------------------------------------------------------------------------
(* The invariant, and the properties it gives. *)

LEMMA StepInv == IInv /\ [Next]_vars => IInv'
  <1> SUFFICES ASSUME IInv, [Next]_vars PROVE IInv' OBVIOUS
  <1>1. ASSUME NEW s \in Sources, NEW v \in Versions,
               NEW N \in (SUBSET (({s} \X {v} \X Names) \cap Extractable)) \ {{}},
               NEW E \in Relations(N), Publish(s, v, N, E)
        PROVE  IInv'
    <2>1. N \in SUBSET ({s} \X {v} \X Names) OBVIOUS
    <2>2. E \in SUBSET (N \X N) BY DEF Relations
    <2> QED BY <1>1, <2>1, <2>2, PublishInv
  <1>2. ASSUME NEW s \in Sources, Delete(s) PROVE IInv' BY <1>2, DeleteInv
  <1>3. CASE Clear BY <1>3, ClearInv
  <1>4. ASSUME NEW D \in SUBSET Present, NEW c \in D, Merge(c, D) PROVE IInv'
    BY <1>4, MergeInv
  <1>5. ASSUME NEW i \in Present, EmbedRead(i) PROVE IInv' BY <1>5, EmbedReadInv
  <1>6. ASSUME NEW it \in items, EmbedStore(it) \/ EmbedLost(it) PROVE IInv'
    BY <1>6, EmbedEndInv
  <1>7. CASE UNCHANGED vars
    <2>1. UNCHANGED <<pub, node, edge, said, home, history>> BY <1>7 DEF vars, history
    <2>2. items' \subseteq items BY <1>7 DEF vars
    <2> QED BY <2>1, <2>2, QuietInv
  <1> QED BY <1>1, <1>2, <1>3, <1>4, <1>5, <1>6, <1>7 DEF Next

\* In every state of the graph each entity is of a published version, is held by published
\* sources, cites current evidence and a current summary, each relation's source holds both
\* ends, and every current assertion is found where merges left it.
THEOREM Inductive == Spec => []IInv
  <1>1. Init => IInv BY InitInv
  <1>2. IInv /\ [Next]_vars => IInv' BY StepInv
  <1> QED BY <1>1, <1>2, PTL DEF Spec

\* The graph's records, relations between present entities, and bounds stay well formed.
THEOREM TypeCorrect == Spec => []TypeOK
  <1>1. IInv => TypeOK BY DEF IInv, Control, GraphInv, EntityInv, EdgesInv, SaidInv, TypeOK, Present
  <1> QED BY <1>1, Inductive, PTL

\* No write leaves a citation of a chunk of a superseded, deleted or cleared version, through
\* any number of merges that unite evidence (_invalidate_source_evidence).
THEOREM EvidenceCurrent == Spec => []EvidenceIsCurrent
  <1>1. IInv => EvidenceIsCurrent BY DEF IInv, GraphInv, EntityInv, EvidenceIsCurrent
  <1> QED BY <1>1, Inductive, PTL

\* Removal's orphan rule, applied to members and ends only, misses nothing: every entity left
\* is held by a published source and every relation's source holds both its ends.
THEOREM NoOrphans == Spec => []NothingOrphaned
  <1>1. IInv => NothingOrphaned
    BY DEF IInv, GraphInv, EntityInv, EdgesInv, NothingOrphaned, Present
  <1> QED BY <1>1, Inductive, PTL

\* What a current version asserted survives other sources' removals and all merges
\* (merge_nodes repoints relations in both directions).
THEOREM AssertionsKept == Spec => []AssertionsSurvive
  <1>1. IInv => AssertionsSurvive BY DEF IInv
  <1> QED BY <1>1, Inductive, PTL

\* A summary that remains after a removal never comes from the version removed.
THEOREM SummariesCurrent == Spec => []SummaryIsCurrent
  <1>1. IInv => SummaryIsCurrent BY DEF IInv, GraphInv, EntityInv, SummaryIsCurrent
  <1> QED BY <1>1, Inductive, PTL

\* Until a version comes back, a late embedding never describes another summary, and each
\* holder of an entity has its evidence there (store_node_embeddings compares the summary).
THEOREM SoundUntilRecurrence == Spec => []SoundWithoutRecurrence
  <1>1. IInv => SoundWithoutRecurrence BY DEF IInv
  <1> QED BY <1>1, Inductive, PTL
==============================================================================
