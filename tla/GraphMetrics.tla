----------------------------- MODULE GraphMetrics ------------------------------
(***************************************************************************)
(* The two scripts DaytonaExecutor runs on a graph, in a sandbox or in a   *)
(* local process (src/agent/daytona_exec.py): the integrity check and the  *)
(* structural metrics, each algorithm against a definition of what it      *)
(* computes.  The graph grows by a node or a relation at a time; relations *)
(* may be loops, parallel or opposite to one another, and end in nodes the *)
(* graph data does not hold.                                               *)
(*                                                                         *)
(* Labels, rounding and the cut to the best 50 are out.  Quotients are     *)
(* multiplied by a number that all their denominators divide.              *)
(***************************************************************************)
EXTENDS Integers, Sequences, FiniteSets, SequencesExt

CONSTANTS
  MaxNodes,         \* bound: nodes of a graph; ids are 1..MaxNodes
  Relations,        \* the relations it may gain: pairs of ids
  NodeBudget,       \* MAX_NODES
  EdgeBudget,       \* MAX_EDGES
  BetweennessMax,   \* betweenness_max
  Iterations        \* PAGERANK_ITERATIONS

ASSUME MetricsAssumption ==
  /\ MaxNodes \in Nat /\ Iterations \in Nat
  /\ NodeBudget \in Nat /\ EdgeBudget \in Nat /\ BetweennessMax \in Nat
  /\ Relations \subseteq (Nat \X Nat) \X {"knows", "owns"}

VARIABLES nodes, relations
metricVars == <<nodes, relations>>

InitMetrics == nodes = 0 /\ relations = {}

AddNode ==
  /\ nodes < MaxNodes /\ nodes' = nodes + 1
  /\ UNCHANGED relations

AddRelation(r) ==
  /\ r \notin relations /\ relations' = relations \cup {r}
  /\ UNCHANGED nodes

NextMetrics == AddNode \/ \E r \in Relations : AddRelation(r)

MetricsSpec == InitMetrics /\ [][NextMetrics]_metricVars

Ids == 1..nodes
Edges == {r[1] : r \in relations}

\* f[1] + ... + f[n], and f[1] * ... * f[n].
SumTo(n, f) ==
  LET Upto[k \in 0..n] == IF k = 0 THEN 0 ELSE Upto[k - 1] + f[k] IN Upto[n]
ProductTo(n, f) ==
  LET Upto[k \in 0..n] == IF k = 0 THEN 1 ELSE Upto[k - 1] * f[k] IN Upto[n]
Total(f) == SumTo(nodes, f)

-----------------------------------------------------------------------------
(***************************************************************************)
(* The integrity check: the edges with a missing end, once per such end.   *)
(***************************************************************************)
OrphanEnds == {e \in relations \X {1, 2} : e[1][1][e[2]] \notin Ids}

-----------------------------------------------------------------------------
(***************************************************************************)
(* The adjacency sets, over edges sorted into pairs.                       *)
(***************************************************************************)
Linked(e) == e[1] \in Ids /\ e[2] \in Ids /\ e[1] # e[2]
Pairs == {IF e[1] <= e[2] THEN e ELSE <<e[2], e[1]>> : e \in {d \in Edges : Linked(d)}}
Adj(u) == {v \in Ids : <<u, v>> \in Pairs \/ <<v, u>> \in Pairs}

(***************************************************************************)
(* Components: a breadth-first search from each start not seen yet.        *)
(***************************************************************************)
NextWave(f) ==
  LET next == (UNION {Adj(u) : u \in f.front}) \ f.seen
  IN [seen |-> f.seen \cup next, front |-> next]
Flood(start, seen) ==
  LET Wave[k \in 0..nodes] ==
        IF k = 0 THEN [seen |-> seen \cup {start}, front |-> {start}]
        ELSE NextWave(Wave[k - 1])
  IN Wave[nodes].seen

StartFrom(f, u) ==
  LET seen == Flood(u, f.seen)
  IN IF u \in f.seen THEN f
     ELSE [seen |-> seen, sizes |-> Append(f.sizes, Cardinality(seen \ f.seen))]

\* sort(reverse=True): an entry goes behind the larger ones and the equal ones before it.
Place(s, i) ==
  Cardinality({j \in DOMAIN s : s[j] > s[i] \/ (s[j] = s[i] /\ j <= i)})
Descending(s) == [p \in DOMAIN s |-> s[CHOOSE i \in DOMAIN s : Place(s, i) = p]]

Sizes ==
  LET After[k \in 0..nodes] == IF k = 0 THEN [seen |-> {}, sizes |-> <<>>]
                               ELSE StartFrom(After[k - 1], k)
  IN Descending(After[nodes].sizes)

TooLarge == nodes > NodeBudget \/ Cardinality(Pairs) > EdgeBudget

(***************************************************************************)
(* PageRank, in units of Scale(0) / n.                                     *)
(***************************************************************************)
\* Divisible by the denominators of the damping (17/20), by n and by every degree.
RankUnit == 20 * nodes * ProductTo(nodes - 1, [d \in 1..(nodes - 1) |-> d])
\* What the ranks are multiples of after k iterations.
Scale(k) == ProductTo(Iterations - k, [i \in 1..(Iterations - k) |-> RankUnit])

MutantDangling == {}
Dangling == {u \in Ids : Adj(u) = {}}

Ranked(r) ==
  LET mass == Total([u \in Ids |-> IF u \in Dangling THEN r[u] ELSE 0])
      base == (3 * nodes * Scale(0) + 17 * mass) \div (20 * nodes)
      share == [u \in Ids |-> (17 * r[u]) \div (20 * Cardinality(Adj(u)))]
  IN [v \in Ids |-> base + Total([u \in Ids |-> IF u \in Adj(v) THEN share[u] ELSE 0])]

PageRank ==
  LET After[k \in 0..Iterations] == IF k = 0 THEN [u \in Ids |-> Scale(0)]
                                    ELSE Ranked(After[k - 1])
  IN After[Iterations]

(***************************************************************************)
(* Betweenness: Brandes' algorithm, multiplied by `unit'.                  *)
(***************************************************************************)
\* The search from s: the queue is the stack in reverse.
Begun(s) ==
  [queue |-> <<s>>, dist |-> [u \in Ids |-> IF u = s THEN 0 ELSE -1],
   sigma |-> [u \in Ids |-> IF u = s THEN 1 ELSE 0], preds |-> [u \in Ids |-> {}]]

Visit(b, k) ==
  LET v == b.queue[k]
      found == {w \in Adj(v) : b.dist[w] < 0}
      below == found \cup {w \in Adj(v) : b.dist[w] = b.dist[v] + 1}
  IN IF k > Len(b.queue) THEN b
     ELSE [queue |-> b.queue \o SetToSeq(found),
           dist |-> [u \in Ids |-> IF u \in found THEN b.dist[v] + 1 ELSE b.dist[u]],
           sigma |-> [u \in Ids |-> IF u \in below THEN b.sigma[u] + b.sigma[v]
                                    ELSE b.sigma[u]],
           preds |-> [u \in Ids |-> IF u \in below THEN b.preds[u] \cup {v} ELSE b.preds[u]]]

Search(s) ==
  LET After[k \in 0..nodes] == IF k = 0 THEN Begun(s) ELSE Visit(After[k - 1], k)
  IN After[nodes]

MutantShare(unit, b, v, w, d) == unit + d[w]
\* What w passes on to a predecessor v.
Share(unit, b, v, w, d) == (b.sigma[v] * (unit + d[w])) \div b.sigma[w]

Popped(unit, b, d, k) ==
  LET w == b.queue[Len(b.queue) - k + 1]
  IN [u \in Ids |-> d[u] + IF u \in b.preds[w] THEN Share(unit, b, u, w, d) ELSE 0]

Dependency(unit, s) ==
  LET b == Search(s)
      After[k \in 0..Len(b.queue)] == IF k = 0 THEN [u \in Ids |-> 0]
                                      ELSE Popped(unit, b, After[k - 1], k)
  IN After[Len(b.queue)]

\* Every shortest path is walked from both its ends.
Betweenness(unit, v) ==
  Total([s \in Ids |-> IF s = v THEN 0 ELSE Dependency(unit, s)[v]]) \div 2

(***************************************************************************)
(* Average clustering over the nodes of degree 2 and more: the sum of      *)
(* their coefficients, in units of 1 / PairUnit, and how many they are.    *)
(***************************************************************************)
\* Divisible by d * (d - 1) for every degree d.
PairUnit == ProductTo(nodes, [d \in Ids |-> d * (d + 1)])
Coefficient(u) ==
  LET list == SetToSeq(Adj(u))
      links == {p \in (DOMAIN list) \X (DOMAIN list) :
                  p[1] < p[2] /\ list[p[2]] \in Adj(list[p[1]])}
  IN (2 * PairUnit * Cardinality(links)) \div (Len(list) * (Len(list) - 1))
Clustered == {u \in Ids : Cardinality(Adj(u)) >= 2}
Clustering == Total([u \in Ids |-> IF u \in Clustered THEN Coefficient(u) ELSE 0])

Metrics(unit) ==
  [count |-> Len(Sizes), sizes |-> Sizes, skipped |-> TooLarge,
   pagerank |-> IF TooLarge \/ nodes = 0 THEN <<>> ELSE PageRank,
   betweenness |-> IF TooLarge \/ nodes > BetweennessMax THEN <<>>
                   ELSE [v \in Ids |-> Betweenness(unit, v)],
   clustering |-> IF TooLarge THEN <<0, 0>> ELSE <<Clustering, Cardinality(Clustered)>>]

-----------------------------------------------------------------------------
(***************************************************************************)
(* What they are: reachability, walks and triangles.                       *)
(***************************************************************************)
Joined(u, v) == \E r \in relations : r[1] \in {<<u, v>>, <<v, u>>}
\* How many walks of k steps lead from u to v: AllWalks[k][u][v].
Longer(walks) ==
  [u \in Ids |-> [v \in Ids |->
     Total([x \in Ids |-> IF Joined(x, v) /\ x # v THEN walks[u][x] ELSE 0])]]
AllWalks ==
  LET Walks[k \in 0..nodes] ==
        IF k = 0 THEN [u \in Ids |-> [v \in Ids |-> IF u = v THEN 1 ELSE 0]]
        ELSE Longer(Walks[k - 1])
  IN Walks

Class(walks, u) == {v \in Ids : \E k \in 0..nodes : walks[k][u][v] > 0}
Classes(walks) == {Class(walks, u) : u \in Ids}

\* The steps of a shortest walk, or `nodes' if there is none, and how many there are.
Distance(walks, u, v) ==
  IF v \in Class(walks, u)
  THEN CHOOSE k \in 0..nodes : walks[k][u][v] > 0 /\ \A l \in 0..(k - 1) : walks[l][u][v] = 0
  ELSE nodes
Shortest(walks, u, v) ==
  IF v \in Class(walks, u) THEN walks[Distance(walks, u, v)][u][v] ELSE 0

\* Divisible by the number of shortest walks between any two nodes.
PathUnit(walks) ==
  ProductTo(nodes, [u \in Ids |-> ProductTo(nodes, [v \in Ids |->
    IF v \in Class(walks, u) THEN Shortest(walks, u, v) ELSE 1])])

\* The share of the shortest walks from s to t that pass through v.
Through(walks, unit, s, t, v) ==
  IF /\ t \in Class(walks, s) /\ v \in Class(walks, s) /\ v \notin {s, t}
     /\ Distance(walks, s, v) + Distance(walks, v, t) = Distance(walks, s, t)
  THEN (unit * Shortest(walks, s, v) * Shortest(walks, v, t)) \div Shortest(walks, s, t)
  ELSE 0
Centrality(walks, unit, v) ==
  Total([s \in Ids |-> Total([t \in Ids |->
    IF s < t THEN Through(walks, unit, s, t, v) ELSE 0])])

Corners(u) == {p \in Ids \X Ids : /\ p[1] # p[2] /\ u \notin {p[1], p[2]}
                                  /\ Joined(u, p[1]) /\ Joined(u, p[2])}
Triangles(u) == {p \in Corners(u) : Joined(p[1], p[2])}

-----------------------------------------------------------------------------
MetricsTypeOK == nodes \in 0..MaxNodes /\ relations \subseteq Relations

\* The components are the classes of nodes reachable from one another over edges
\* taken in either direction, also in a graph too large for the other metrics.
ComponentsRight(m, walks) ==
  /\ m.count = Cardinality(Classes(walks))
  /\ \A k \in Ids : Cardinality({i \in DOMAIN m.sizes : m.sizes[i] = k})
                      = Cardinality({c \in Classes(walks) : Cardinality(c) = k})
  /\ \A i \in 2..Len(m.sizes) : m.sizes[i] <= m.sizes[i - 1]

\* Ranks are conserved: isolated nodes and teleports lose no mass and make none.
MassConserved(m) ==
  m.pagerank # <<>> =>
    Total(m.pagerank) = nodes * Scale(0)

\* Brandes' accumulation gives each node its share of the shortest paths.
BetweennessRight(m, walks, unit) ==
  m.betweenness # <<>> => \A v \in Ids : m.betweenness[v] = Centrality(walks, unit, v)

\* Every node's coefficient is the share of its pairs of neighbours that are joined.
ClusteringRight(m) ==
  ~m.skipped =>
    /\ m.clustering[2] = Cardinality({u \in Ids : Corners(u) # {}})
    /\ m.clustering[1] =
         Total([u \in Ids |->
           IF Corners(u) = {} THEN 0
           ELSE (PairUnit * Cardinality(Triangles(u))) \div Cardinality(Corners(u))])

\* The check calls a graph valid when the metrics ignore none of its edges but loops.
ChecksAgree ==
  OrphanEnds = {} <=> \A e \in Edges : Linked(e) \/ (e[1] = e[2] /\ e[1] \in Ids)

MetricsRight ==
  LET walks == AllWalks
      unit == PathUnit(walks)
      m == Metrics(unit)
  IN /\ MetricsTypeOK /\ ComponentsRight(m, walks) /\ BetweennessRight(m, walks, unit)
     /\ MassConserved(m) /\ ClusteringRight(m) /\ ChecksAgree
=============================================================================
