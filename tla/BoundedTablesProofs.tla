------------------------- MODULE BoundedTablesProofs -------------------------
(***************************************************************************)
(* What two services promise that keep the newest of what they store, for  *)
(* every bound: both stores of the query history keep the same answers,    *)
(* the right ones; and no cancellation of a bulk import is forgotten while *)
(* it matters, nor an item taken for another's job.                        *)
(***************************************************************************)
EXTENDS QueryHistory, BulkImports, FiniteSetTheorems, SequenceTheorems, WellFoundedInduction,
        TLAPS

\* A set of numbers has a least one.
LEMMA Least ==
  ASSUME NEW S \in SUBSET Nat, S # {}
  PROVE  \E m \in S : \A n \in S : m <= n
<1>. DEFINE R == {ss \in Nat \X Nat : ss[1] < ss[2]}
<1>1. IsWellFoundedOn(R, Nat)
  BY NatLessThanWellFounded DEF OpToRel
<1>2. PICK m \in S : \A n \in S : <<n, m>> \notin R
  <2>. HIDE DEF R
  <2>. QED
    BY <1>1, WFMin
<1>3. ASSUME NEW n \in S PROVE m <= n
  <2>1. <<n, m>> \notin R
    BY <1>2
  <2>2. ~(n < m)
    BY <2>1
  <2>. QED
    BY <2>2
<1>. QED
  BY <1>3

-----------------------------------------------------------------------------
(***************************************************************************)
(* The query history.  The ring evicts in turns, the table in one          *)
(* statement.  Both are compared with the oldest k of the entries that may *)
(* go: every turn takes the next oldest, and the turns of _evict, a        *)
(* function on 0..n, exist by LoopExists.                                  *)
(***************************************************************************)
\* Counting up to n.
LEMMA CountUp ==
  ASSUME NEW n \in Nat, NEW S, 0 \in S, \A k \in 0..(n - 1) : k \in S => k + 1 \in S
  PROVE  \A k \in 0..n : k \in S
<1>. DEFINE bad == {k \in 0..n : k \notin S}
<1>1. SUFFICES ASSUME bad # {} PROVE FALSE
  OBVIOUS
<1>2. bad \in SUBSET Nat
  OBVIOUS
<1>3. PICK m \in bad : \A k \in bad : m <= k
  <2>. HIDE DEF bad
  <2>. QED
    BY <1>1, <1>2, Least
<1>4. m \in 1..n /\ m - 1 \in 0..(n - 1) /\ m - 1 \notin bad
  BY <1>3
<1>. QED
  BY <1>3, <1>4

\* A loop of n turns has a run: the recursive function that describes it exists.
Loop(X, x, n, step) == x \in X /\ n \in Nat /\ \A k \in 1..n, y \in X : step[k][y] \in X
LoopRun(X, x, n, step, g) ==
  g \in [0..n -> X] /\ g[0] = x /\ \A k \in 1..n : g[k] = step[k][g[k - 1]]

LEMMA LoopExists ==
  ASSUME NEW X, NEW x, NEW n, NEW step, Loop(X, x, n, step)
  PROVE  \E g : LoopRun(X, x, n, step, g)
<1>. DEFINE Runs(m, g) == g[0] = x /\ \A k \in 1..m : g[k] = step[k][g[k - 1]]
            P(m) == \E g \in [0..m -> X] : Runs(m, g)
            S == {m \in 0..n : P(m)}
<1>0. x \in X /\ n \in Nat /\ \A k \in 1..n, y \in X : step[k][y] \in X
  BY DEF Loop
<1>1. 0 \in S
  <2>. DEFINE f == [k \in 0..0 |-> x]
  <2>1. f \in [0..0 -> X] /\ f[0] = x
    BY <1>0
  <2>. HIDE DEF f
  <2>2. Runs(0, f) /\ 0 \in 0..n
    BY <1>0, <2>1
  <2>. QED
    BY <1>0, <2>1, <2>2
<1>2. ASSUME NEW m \in 0..(n - 1), m \in S PROVE m + 1 \in S
  <2>1. PICK g \in [0..m -> X] : Runs(m, g)
    BY <1>0, <1>2
  <2>. DEFINE h == [k \in 0..(m + 1) |-> IF k = m + 1 THEN step[m + 1][g[m]] ELSE g[k]]
  <2>2. step[m + 1][g[m]] \in X
    BY <1>0, <2>1
  <2>3. h \in [0..(m + 1) -> X]
    BY <1>0, <2>2
  <2>4. h[0] = x
    BY <1>0, <2>1
  <2>5. ASSUME NEW k \in 1..(m + 1) PROVE h[k] = step[k][h[k - 1]]
    <3>1. CASE k = m + 1
      <4>1. h[k - 1] = g[m] /\ h[k] = step[m + 1][g[m]]
        BY <1>0, <3>1
      <4>. QED
        BY <1>0, <3>1, <4>1
    <3>2. CASE k # m + 1
      <4>1. k \in 1..m /\ k - 1 \in 0..m
        BY <1>0, <3>2
      <4>2. h[k] = g[k] /\ h[k - 1] = g[k - 1]
        BY <1>0, <4>1
      <4>. QED
        BY <1>0, <2>1, <4>1, <4>2
    <3>. QED
      BY <1>0, <3>1, <3>2
  <2>. HIDE DEF h
  <2>6. Runs(m + 1, h) /\ m + 1 \in 0..n
    BY <1>0, <2>4, <2>5
  <2>7. P(m + 1)
    <3>. HIDE DEF Runs
    <3>. QED
      BY <1>0, <2>3, <2>6
  <2>. HIDE DEF P
  <2>. QED
    BY <1>0, <2>6, <2>7
<1>3. n \in S
  <2>. HIDE DEF S
  <2>1. \A m \in 0..(n - 1) : m \in S => m + 1 \in S
    BY <1>0, <1>2
  <2>2. \A m \in 0..n : m \in S
    BY <1>0, <1>1, <2>1, CountUp
  <2>. QED
    BY <1>0, <2>2
<1>4. PICK g \in [0..n -> X] : Runs(n, g)
  BY <1>0, <1>3
<1>. QED
  BY <1>4 DEF LoopRun

-----------------------------------------------------------------------------
(***************************************************************************)
(* The k oldest of a set of entries.                                       *)
(***************************************************************************)
Elders(O, r) == {o \in O : o.id < r.id}
Rank(O, r) == Cardinality(Elders(O, r))
OldestOf(O, k) == {r \in O : Rank(O, r) < k}
Numbered(O) == /\ IsFiniteSet(O)
               /\ \A r \in O : r.id \in Nat
               /\ \A r, n \in O : r.id = n.id => r = n

LEMMA RankNat ==
  ASSUME NEW O, Numbered(O), NEW r
  PROVE  Rank(O, r) \in Nat /\ IsFiniteSet(Elders(O, r))
<1>1. Elders(O, r) \in SUBSET O
  BY DEF Elders
<1>2. IsFiniteSet(Elders(O, r))
  BY <1>1, FS_Subset DEF Numbered
<1>. QED
  BY <1>2, FS_CardinalityType DEF Rank

LEMMA RankGrows ==
  ASSUME NEW O, Numbered(O), NEW r \in O, NEW n, n.id \in Nat, r.id < n.id
  PROVE  Rank(O, r) < Rank(O, n)
<1>1. Elders(O, r) \in SUBSET Elders(O, n) /\ r \in Elders(O, n) /\ r \notin Elders(O, r)
  BY DEF Elders, Numbered
<1>2. IsFiniteSet(Elders(O, n)) /\ Rank(O, n) \in Nat /\ Rank(O, r) \in Nat
  BY RankNat
<1>3. Cardinality(Elders(O, r)) <= Cardinality(Elders(O, n))
      /\ (Cardinality(Elders(O, n)) = Cardinality(Elders(O, r)) => Elders(O, n) = Elders(O, r))
  BY <1>1, <1>2, FS_Subset
<1>. QED
  BY <1>1, <1>2, <1>3 DEF Rank

\* The next oldest.
LEMMA NextOldest ==
  ASSUME NEW O, Numbered(O), NEW k \in Nat, Cardinality(OldestOf(O, k)) = k,
         NEW v \in O \ OldestOf(O, k), \A r \in O \ OldestOf(O, k) : v.id <= r.id
  PROVE  /\ Rank(O, v) = k
         /\ OldestOf(O, k + 1) = OldestOf(O, k) \cup {v}
         /\ Cardinality(OldestOf(O, k + 1)) = k + 1
<1>0. \A r \in O : Rank(O, r) \in Nat /\ r.id \in Nat
  BY RankNat DEF Numbered
<1>1. Elders(O, v) = OldestOf(O, k)
  <2>1. ASSUME NEW r \in Elders(O, v) PROVE r \in OldestOf(O, k)
    BY <1>0, <2>1 DEF Elders
  <2>2. ASSUME NEW r \in OldestOf(O, k) PROVE r \in Elders(O, v)
    <3>1. r \in O /\ Rank(O, r) < k /\ ~(Rank(O, v) < k)
      BY DEF OldestOf
    <3>2. ~(v.id < r.id)
      BY <1>0, <3>1, RankGrows
    <3>3. v # r
      BY <3>1
    <3>. QED
      BY <1>0, <3>1, <3>2, <3>3 DEF Elders, Numbered
  <2>. QED
    BY <2>1, <2>2
<1>2. Rank(O, v) = k
  BY <1>1 DEF Rank
<1>3. ASSUME NEW r \in O, Rank(O, r) < k + 1, r \notin OldestOf(O, k) PROVE r = v
  <2>1. Rank(O, r) = k
    BY <1>0, <1>3 DEF OldestOf
  <2>2. ~(v.id < r.id)
    BY <1>0, <1>2, <2>1, RankGrows
  <2>. QED
    BY <1>0, <1>3, <2>2 DEF Numbered
<1>4. OldestOf(O, k + 1) = OldestOf(O, k) \cup {v}
  <2>1. \A r \in OldestOf(O, k) : r \in OldestOf(O, k + 1)
    BY <1>0 DEF OldestOf
  <2>2. v \in OldestOf(O, k + 1)
    BY <1>2 DEF OldestOf
  <2>3. \A r \in OldestOf(O, k + 1) : r \in OldestOf(O, k) \cup {v}
    BY <1>3 DEF OldestOf
  <2>. QED
    BY <2>1, <2>2, <2>3
<1>5. IsFiniteSet(OldestOf(O, k))
  <2>1. OldestOf(O, k) \in SUBSET O
    BY DEF OldestOf
  <2>. QED
    BY <2>1, FS_Subset DEF Numbered
<1>. QED
  BY <1>2, <1>4, <1>5, FS_AddElement

\* There are k of them, as long as there are k at all.
LEMMA OldestCount ==
  ASSUME NEW O, Numbered(O), NEW k \in 0..Cardinality(O)
  PROVE  Cardinality(OldestOf(O, k)) = k
<1>. DEFINE c == Cardinality(O)
            S == {m \in 0..c : Cardinality(OldestOf(O, m)) = m}
<1>0. c \in Nat
  BY FS_CardinalityType DEF Numbered
<1>1. 0 \in S
  <2>1. OldestOf(O, 0) = {}
    BY RankNat DEF OldestOf
  <2>. QED
    BY <1>0, <2>1, FS_EmptySet
<1>2. ASSUME NEW m \in 0..(c - 1), m \in S PROVE m + 1 \in S
  <2>1. OldestOf(O, m) # O /\ OldestOf(O, m) \in SUBSET O /\ m \in Nat /\ m + 1 \in 0..c
    BY <1>0, <1>2 DEF OldestOf
  <2>. DEFINE I == {r.id : r \in O \ OldestOf(O, m)}
  <2>2. I \in SUBSET Nat /\ I # {}
    BY <2>1 DEF Numbered
  <2>3. PICK i \in I : \A a \in I : i <= a
    <3>. HIDE DEF I
    <3>. QED
      BY <2>2, Least
  <2>4. PICK v \in O \ OldestOf(O, m) : v.id = i
    OBVIOUS
  <2>5. \A r \in O \ OldestOf(O, m) : v.id <= r.id
    BY <2>3, <2>4
  <2>6. Cardinality(OldestOf(O, m)) = m
    BY <1>2
  <2>7. Cardinality(OldestOf(O, m + 1)) = m + 1
    <3>. HIDE DEF I, S
    <3>. QED
      BY <2>1, <2>5, <2>6, NextOldest
  <2>. QED
    BY <2>1, <2>7
<1>3. k \in S
  <2>. HIDE DEF S, c
  <2>1. k \in 0..c
    BY DEF c
  <2>. QED
    BY <1>0, <1>1, <1>2, <2>1, CountUp
<1>. QED
  BY <1>3
-----------------------------------------------------------------------------
(***************************************************************************)
(* The ring.                                                               *)
(***************************************************************************)
Rising(s) == s \in Seq(Answer) /\ \A i, k \in DOMAIN s : i < k => s[i].id < s[k].id

LEMMA RemovedAt ==
  ASSUME NEW S, NEW s \in Seq(S), NEW i \in 1..Len(s)
  PROVE  /\ RemoveAt(s, i) \in Seq(S) /\ Len(RemoveAt(s, i)) = Len(s) - 1
         /\ DOMAIN RemoveAt(s, i) = 1..(Len(s) - 1)
         /\ \A k \in 1..(Len(s) - 1) : RemoveAt(s, i)[k] = IF k < i THEN s[k] ELSE s[k + 1]
<1>. DEFINE a == SubSeq(s, 1, i - 1)
            b == SubSeq(s, i + 1, Len(s))
            r == a \o b
<1>0. Len(s) \in Nat /\ \A k \in 1..Len(s) : s[k] \in S
  BY LenProperties, ElementOfSeq
<1>1. a \in Seq(S) /\ Len(a) = i - 1 /\ \A k \in 1..(i - 1) : a[k] = s[k]
  <2>1. \A k \in 1..(i - 1) : s[k] \in S
    BY <1>0
  <2>2. /\ a \in Seq(S) /\ Len(a) = IF 1 <= i - 1 THEN i - 1 - 1 + 1 ELSE 0
        /\ \A k \in 1..(i - 1 - 1 + 1) : a[k] = s[1 + k - 1]
    <3>1. 1 \in Int /\ i - 1 \in Int
      BY <1>0
    <3>. QED
      BY <2>1, <3>1, SubSeqProperties
  <2>. HIDE DEF a
  <2>. QED
    BY <1>0, <2>2
<1>2. b \in Seq(S) /\ Len(b) = Len(s) - i /\ \A k \in 1..(Len(s) - i) : b[k] = s[i + k]
  <2>1. \A k \in (i + 1)..Len(s) : s[k] \in S
    BY <1>0
  <2>2. /\ b \in Seq(S) /\ Len(b) = IF i + 1 <= Len(s) THEN Len(s) - (i + 1) + 1 ELSE 0
        /\ \A k \in 1..(Len(s) - (i + 1) + 1) : b[k] = s[i + 1 + k - 1]
    <3>1. i + 1 \in Int /\ Len(s) \in Int
      BY <1>0
    <3>. QED
      BY <2>1, <3>1, SubSeqProperties
  <2>. HIDE DEF b
  <2>3. Len(b) = Len(s) - i
    BY <1>0, <2>2
  <2>4. ASSUME NEW k \in 1..(Len(s) - i) PROVE b[k] = s[i + k]
    <3>1. k \in 1..(Len(s) - (i + 1) + 1) /\ i + 1 + k - 1 = i + k
      BY <1>0
    <3>. QED
      BY <2>2, <3>1
  <2>. QED
    BY <2>2, <2>3, <2>4
<1>. HIDE DEF a, b
<1>3. /\ r \in Seq(S) /\ Len(r) = Len(a) + Len(b)
      /\ \A k \in 1..(Len(a) + Len(b)) : r[k] = IF k <= Len(a) THEN a[k] ELSE b[k - Len(a)]
  BY <1>1, <1>2, ConcatProperties
<1>. HIDE DEF r
<1>4. Len(r) = Len(s) - 1
  BY <1>0, <1>1, <1>2, <1>3
<1>5. ASSUME NEW k \in 1..(Len(s) - 1) PROVE r[k] = IF k < i THEN s[k] ELSE s[k + 1]
  <2>1. CASE k < i
    <3>1. k \in 1..(i - 1) /\ k \in 1..(Len(a) + Len(b)) /\ k <= Len(a)
      BY <1>0, <1>1, <1>2, <2>1
    <3>. QED
      BY <1>1, <1>3, <2>1, <3>1
  <2>2. CASE ~(k < i)
    <3>1. k \in 1..(Len(a) + Len(b)) /\ ~(k <= Len(a)) /\ k - Len(a) \in 1..(Len(s) - i)
          /\ i + (k - Len(a)) = k + 1
      BY <1>0, <1>1, <1>2, <2>2
    <3>. QED
      BY <1>2, <1>3, <2>2, <3>1
  <2>. QED
    BY <2>1, <2>2
<1>6. r = RemoveAt(s, i)
  BY DEF r, a, b, RemoveAt
<1>7. DOMAIN r = 1..(Len(s) - 1)
  BY <1>3, <1>4, LenProperties
<1>. QED
  BY <1>3, <1>4, <1>5, <1>6, <1>7

LEMMA RemovedRing ==
  ASSUME NEW s, Rising(s), NEW i \in 1..Len(s)
  PROVE  LET t == RemoveAt(s, i)
         IN /\ Rising(t) /\ Len(t) = Len(s) - 1 /\ ToSet(t) = ToSet(s) \ {s[i]}
            /\ i < Len(s) => Len(t) > 0 /\ t[Len(t)] = s[Len(s)]
<1>. DEFINE t == RemoveAt(s, i)
<1>0. s \in Seq(Answer) /\ Len(s) \in Nat /\ DOMAIN s = 1..Len(s)
  BY LenProperties DEF Rising
<1>1. /\ t \in Seq(Answer) /\ Len(t) = Len(s) - 1 /\ DOMAIN t = 1..(Len(s) - 1)
      /\ \A k \in 1..(Len(s) - 1) : t[k] = IF k < i THEN s[k] ELSE s[k + 1]
  <2>1. i \in 1..Len(s) /\ s \in Seq(Answer)
    BY <1>0
  <2>. HIDE DEF t
  <2>2. t = RemoveAt(s, i)
    BY DEF t
  <2>. QED
    BY <2>1, <2>2, RemovedAt
<1>. HIDE DEF t
<1>2. ASSUME NEW k \in 1..Len(s), NEW l \in 1..Len(s), k < l PROVE s[k].id < s[l].id
  BY <1>0, <1>2 DEF Rising
<1>3. \A k \in 1..Len(s) : s[k] \in Answer /\ s[k].id \in Nat
  <2>1. \A k \in 1..Len(s) : s[k] \in Answer
    BY <1>0, ElementOfSeq
  <2>. QED
    BY <2>1 DEF Answer, AnswerIds
<1>4. ASSUME NEW k \in 1..(Len(s) - 1), NEW l \in 1..(Len(s) - 1), k < l PROVE t[k].id < t[l].id
  <2>. DEFINE kk == IF k < i THEN k ELSE k + 1
              ll == IF l < i THEN l ELSE l + 1
  <2>1. kk \in 1..Len(s) /\ ll \in 1..Len(s) /\ kk < ll
    BY <1>0, <1>4
  <2>2. t[k] = s[kk] /\ t[l] = s[ll]
    BY <1>1
  <2>. HIDE DEF kk, ll
  <2>. QED
    BY <1>2, <2>1, <2>2
<1>5. Rising(t)
  BY <1>1, <1>4 DEF Rising
<1>6. ASSUME NEW k \in 1..(Len(s) - 1)
      PROVE  t[k] \in ToSet(s) \ {s[i]}
  <2>. DEFINE kk == IF k < i THEN k ELSE k + 1
  <2>1. kk \in 1..Len(s) /\ (kk < i \/ i < kk) /\ t[k] = s[kk]
    <3>1. t[k] = IF k < i THEN s[k] ELSE s[k + 1]
      BY <1>1
    <3>2. CASE k < i
      BY <1>0, <3>1, <3>2
    <3>3. CASE ~(k < i)
      BY <1>0, <3>1, <3>3
    <3>. QED
      BY <3>2, <3>3
  <2>. HIDE DEF kk
  <2>2. s[kk].id # s[i].id
    BY <1>2, <1>3, <2>1
  <2>. QED
    BY <1>0, <2>1, <2>2 DEF ToSet
<1>7. ASSUME NEW k \in 1..Len(s), s[k] # s[i]
      PROVE  s[k] \in ToSet(t)
  <2>. DEFINE kk == IF k < i THEN k ELSE k - 1
  <2>1. kk \in 1..(Len(s) - 1) /\ t[kk] = s[k]
    <3>1. k # i
      BY <1>7
    <3>2. CASE k < i
      BY <1>0, <1>1, <3>2
    <3>3. CASE ~(k < i)
      <4>1. k - 1 \in 1..(Len(s) - 1) /\ ~(k - 1 < i) /\ k - 1 + 1 = k /\ kk = k - 1
        BY <1>0, <3>1, <3>3
      <4>. QED
        BY <1>1, <4>1
    <3>. QED
      BY <3>2, <3>3
  <2>. QED
    BY <1>1, <2>1 DEF ToSet
<1>8. ToSet(t) = ToSet(s) \ {s[i]}
  <2>1. \A x \in ToSet(t) : x \in ToSet(s) \ {s[i]}
    BY <1>1, <1>6 DEF ToSet
  <2>2. \A x \in ToSet(s) \ {s[i]} : x \in ToSet(t)
    BY <1>0, <1>7 DEF ToSet
  <2>. QED
    BY <2>1, <2>2
<1>9. ASSUME i < Len(s) PROVE Len(t) > 0 /\ t[Len(t)] = s[Len(s)]
  <2>1. Len(s) - 1 \in 1..(Len(s) - 1) /\ ~(Len(s) - 1 < i) /\ Len(s) - 1 + 1 = Len(s)
    BY <1>0, <1>9
  <2>. QED
    BY <1>1, <2>1
<1>. QED
  BY <1>1, <1>5, <1>8, <1>9 DEF t

LEMMA RingCount ==
  ASSUME NEW s, Rising(s)
  PROVE  Numbered(ToSet(s)) /\ Cardinality(ToSet(s)) = Len(s)
<1>0. s \in Seq(Answer) /\ Len(s) \in Nat /\ DOMAIN s = 1..Len(s)
      /\ \A k \in 1..Len(s) : s[k] \in Answer
  BY LenProperties, ElementOfSeq DEF Rising
<1>1. \A i, k \in 1..Len(s) : s[i].id = s[k].id => i = k
  BY <1>0 DEF Rising, Answer, AnswerIds
<1>2. s \in [1..Len(s) -> ToSet(s)]
  <2>1. s \in [1..Len(s) -> Answer]
    BY <1>0
  <2>. QED
    BY <1>0, <2>1 DEF ToSet
<1>3. s \in Bijection(1..Len(s), ToSet(s))
  BY <1>0, <1>1, <1>2 DEF Bijection, Injection, IsInjective, Surjection, ToSet
<1>4. IsFiniteSet(ToSet(s)) /\ Cardinality(ToSet(s)) = Len(s)
  <2>1. ExistsBijection(1..Len(s), ToSet(s))
    <3>1. Bijection(1..Len(s), ToSet(s)) # {}
      BY <1>3
    <3>. QED
      BY <3>1, Zenon DEF ExistsBijection
  <2>. DEFINE l == Len(s)
  <2>0. l \in Nat
    BY <1>0
  <2>2. IsFiniteSet(1..l) /\ Cardinality(1..l) = l
    <3>. HIDE DEF l
    <3>. QED
      BY <2>0, FS_Interval
  <2>. QED
    BY <2>1, <2>2, FS_Bijection
<1>5. \A r \in ToSet(s) : \E k \in 1..Len(s) : r = s[k]
  BY <1>0 DEF ToSet
<1>6. \A r \in ToSet(s) : r.id \in Nat
  BY <1>0, <1>5 DEF Answer, AnswerIds
<1>7. \A r, n \in ToSet(s) : r.id = n.id => r = n
  BY <1>1, <1>5
<1>. QED
  BY <1>4, <1>6, <1>7 DEF Numbered
-----------------------------------------------------------------------------
(***************************************************************************)
(* Eviction: one turn after another takes what the table deletes at once.  *)
(***************************************************************************)
Others(T) == {r \in T : ~r.saved /\ r.id # answers + 1}

\* A ring of answers of which the newest has just been recorded.
Full(s) == /\ Rising(s) /\ Len(s) > 0 /\ s[Len(s)].id = answers + 1
           /\ answers \in Nat /\ limit \in Nat \ {0}

LEMMA OthersNumbered ==
  ASSUME NEW T, Numbered(T)
  PROVE  Numbered(Others(T)) /\ Cardinality(Others(T)) \in Nat
<1>1. Others(T) \in SUBSET T
  BY DEF Others
<1>2. IsFiniteSet(Others(T))
  BY <1>1, FS_Subset DEF Numbered
<1>. QED
  BY <1>1, <1>2, FS_CardinalityType DEF Numbered

LEMMA OverflowOldest ==
  ASSUME NEW T, Numbered(T), limit \in Nat
  PROVE  /\ Overflow(T) = {r \in Others(T) : Rank(Others(T), r) + limit < Cardinality(T)}
         /\ Cardinality(T) <= limit => Overflow(T) = {}
         /\ limit < Cardinality(T) => Overflow(T) = OldestOf(Others(T), Cardinality(T) - limit)
<1>. DEFINE O == Others(T)
            c == Cardinality(T)
<1>1. Overflow(T) = {r \in O : Rank(O, r) + limit < c}
  BY Zenon DEF Overflow, Rank, Elders, Others
<1>2. c \in Nat
  BY FS_CardinalityType DEF Numbered
<1>3. \A r \in O : Rank(O, r) \in Nat
  BY OthersNumbered, RankNat
<1>. HIDE DEF O, c
<1>4. c <= limit => Overflow(T) = {}
  BY <1>1, <1>2, <1>3
<1>5. limit < c => Overflow(T) = OldestOf(O, c - limit)
  <2>1. \A r \in O : Rank(O, r) + limit < c <=> Rank(O, r) < c - limit
    BY <1>2, <1>3
  <2>. QED
    BY <1>1, <2>1 DEF OldestOf
<1>. QED
  BY <1>1, <1>4, <1>5 DEF O, c

\* What the turns have left of T after k of them.
Going(T, k, t) ==
  /\ k = 0 \/ k + limit <= Cardinality(T)
  /\ Full(t) /\ Len(t) = Cardinality(T) - k
  /\ ToSet(t) = T \ OldestOf(Others(T), k)
  /\ Cardinality(OldestOf(Others(T), k)) = k
Over1(T, t) ==
  /\ Full(t) /\ ToSet(t) = T \ Overflow(T)
  /\ Len(t) <= limit \/ Victims(t) = {}

\* The victims of a ring are the entries that are neither saved nor the newest.
LEMMA VictimsAre ==
  ASSUME NEW t, Full(t)
  PROVE  /\ \A i \in Victims(t) : i \in 1..Len(t) /\ i < Len(t) /\ t[i] \in Others(ToSet(t))
         /\ \A r \in Others(ToSet(t)) : \E i \in Victims(t) : t[i] = r
<1>0. t \in Seq(Answer) /\ Len(t) \in Nat /\ DOMAIN t = 1..Len(t)
      /\ \A k \in 1..Len(t) : t[k] \in Answer
  BY LenProperties, ElementOfSeq DEF Full, Rising
<1>1. \A k \in 1..Len(t) : t[k].id \in Nat /\ t[k] \in ToSet(t)
  BY <1>0 DEF Answer, AnswerIds, ToSet
<1>2. Len(t) \in 1..Len(t) /\ t[Len(t)].id = answers + 1
  BY <1>0 DEF Full
<1>3. ASSUME NEW i \in Victims(t)
      PROVE  i \in 1..Len(t) /\ i < Len(t) /\ t[i] \in Others(ToSet(t))
  <2>1. i \in 1..Len(t) /\ i < Len(t) /\ ~t[i].saved
    BY <1>0 DEF Victims
  <2>2. t[i].id # answers + 1
    <3>1. t[i].id < t[Len(t)].id
      BY <1>0, <1>2, <2>1 DEF Full, Rising
    <3>. QED
      BY <1>1, <1>2, <2>1, <3>1
  <2>. QED
    BY <1>1, <2>1, <2>2 DEF Others
<1>4. ASSUME NEW r \in Others(ToSet(t))
      PROVE  \E i \in Victims(t) : t[i] = r
  <2>1. PICK i \in 1..Len(t) : t[i] = r
    BY <1>0 DEF Others, ToSet
  <2>2. ~t[i].saved /\ i # Len(t)
    BY <1>2, <2>1 DEF Others
  <2>3. i \in 1..(Len(t) - 1)
    <3>1. Len(t) \in Nat /\ i \in 1..Len(t) /\ i # Len(t)
      BY <1>0, <2>2
    <3>. QED
      BY <3>1
  <2>4. i \in Victims(t)
    BY <2>2, <2>3 DEF Victims
  <2>. QED
    BY <2>1, <2>4
<1>. QED
  BY <1>3, <1>4

LEMMA TurnedOnce ==
  ASSUME NEW T, Numbered(T), NEW k \in Nat, NEW t, Going(T, k, t)
  PROVE  Going(T, k + 1, Turned(t)) \/ Over1(T, Turned(t))
<1>. DEFINE O == Others(T)
            c == Cardinality(T)
            D == OldestOf(O, k)
<1>0. c \in Nat /\ limit \in Nat \ {0} /\ Numbered(O) /\ Len(t) = c - k /\ Cardinality(D) = k
      /\ (k = 0 \/ k + limit <= c)
  BY FS_CardinalityType, OthersNumbered DEF Going, Full, Numbered
<1>1. D \in SUBSET O /\ Full(t) /\ ToSet(t) = T \ D
  BY DEF Going, OldestOf
<1>2. Others(ToSet(t)) = O \ D
  BY <1>1 DEF Others
<1>3. CASE Len(t) <= limit
  <2>1. Turned(t) = t
    BY <1>3 DEF Turned
  <2>2. Overflow(T) = D
    <3>1. CASE limit < c
      <4>1. k = c - limit
        BY <1>0, <1>3, <3>1
      <4>2. limit \in Nat
        BY <1>0
      <4>. QED
        BY <3>1, <4>1, <4>2, OverflowOldest
    <3>2. CASE ~(limit < c)
      <4>1. k = 0 /\ c <= limit /\ limit \in Nat
        BY <1>0, <3>2
      <4>2. D = {}
        BY <1>0, <4>1, RankNat DEF OldestOf
      <4>. QED
        BY <4>1, <4>2, OverflowOldest
    <3>. QED
      BY <3>1, <3>2
  <2>. QED
    BY <1>1, <1>3, <2>1, <2>2 DEF Over1
<1>4. CASE ~(Len(t) <= limit) /\ Victims(t) = {}
  <2>1. Turned(t) = t
    BY <1>4 DEF Turned
  <2>2. O = D
    BY <1>1, <1>2, <1>4, VictimsAre
  <2>3. k < c - limit /\ limit < c /\ limit \in Nat
    BY <1>0, <1>4
  <2>4. Overflow(T) = OldestOf(O, c - limit)
    BY <2>3, OverflowOldest
  <2>5. \A r \in O : Rank(O, r) \in Nat
    BY <1>0, RankNat
  <2>6. \A r \in O : Rank(O, r) < k
    BY <2>2 DEF OldestOf
  <2>7. Overflow(T) = D
    BY <1>0, <2>2, <2>3, <2>4, <2>5, <2>6 DEF OldestOf
  <2>. QED
    BY <1>1, <1>4, <2>1, <2>7 DEF Over1
<1>5. CASE ~(Len(t) <= limit) /\ Victims(t) # {}
  <2>. DEFINE V == Victims(t)
              i == CHOOSE x \in V : \A y \in V : x <= y
  <2>1. i \in V /\ \A y \in V : i <= y
    <3>1. V \in SUBSET Nat /\ V # {}
      BY <1>5 DEF Victims
    <3>2. \E x \in V : \A y \in V : x <= y
      <4>. HIDE DEF V
      <4>. QED
        BY <3>1, Least
    <3>. QED
      BY <3>2, Zenon
  <2>2. Turned(t) = RemoveAt(t, i)
    BY <1>5, Zenon DEF Turned
  <2>. HIDE DEF i
  <2>3. i \in 1..Len(t) /\ i < Len(t) /\ t[i] \in O \ D
    BY <1>1, <1>2, <2>1, VictimsAre
  <2>4. \A r \in O \ D : t[i].id <= r.id
    <3>1. ASSUME NEW r \in O \ D PROVE t[i].id <= r.id
      <4>1. PICK y \in V : t[y] = r
        BY <1>1, <1>2, VictimsAre
      <4>2. y \in 1..Len(t) /\ i <= y
        BY <1>1, <2>1, <4>1, VictimsAre
      <4>3. t[i].id \in Nat /\ t[y].id \in Nat
        BY <1>0, <2>3, <4>1 DEF Numbered
      <4>4. i = y \/ t[i].id < t[y].id
        <5>1. DOMAIN t = 1..Len(t) /\ Len(t) \in Nat
          BY <1>1, LenProperties DEF Full, Rising
        <5>. QED
          BY <1>1, <2>3, <4>2, <5>1 DEF Full, Rising
      <4>. QED
        BY <4>1, <4>3, <4>4
    <3>. QED
      BY <3>1
  <2>5. OldestOf(O, k + 1) = D \cup {t[i]} /\ Cardinality(OldestOf(O, k + 1)) = k + 1
    <3>. HIDE DEF O
    <3>. QED
      BY <1>0, <2>3, <2>4, NextOldest
  <2>6. LET u == RemoveAt(t, i)
        IN /\ Rising(u) /\ Len(u) = Len(t) - 1 /\ ToSet(u) = ToSet(t) \ {t[i]}
           /\ Len(u) > 0 /\ u[Len(u)] = t[Len(t)]
    BY <1>1, <2>3, RemovedRing DEF Full
  <2>7. Full(Turned(t)) /\ Len(Turned(t)) = c - (k + 1)
    BY <1>0, <1>1, <2>2, <2>6 DEF Full
  <2>8. ToSet(Turned(t)) = T \ OldestOf(O, k + 1)
    BY <1>1, <2>2, <2>5, <2>6
  <2>9. k + 1 + limit <= c
    BY <1>0, <1>5
  <2>. QED
    BY <2>5, <2>7, <2>8, <2>9 DEF Going
<1>. QED
  BY <1>3, <1>4, <1>5

\* The ring after an eviction holds what the table keeps.
LEMMA EvictedLeaves ==
  ASSUME NEW s, Full(s)
  PROVE  Full(Evicted(s)) /\ ToSet(Evicted(s)) = ToSet(s) \ Overflow(ToSet(s))
<1>. DEFINE n == Len(s)
            T == ToSet(s)
            eq(g) == g = [k \in 0..n |-> IF k = 0 THEN s ELSE Turned(g[k - 1])]
            e == CHOOSE g : eq(g)
<1>0. n \in Nat /\ n > 0 /\ s \in Seq(Answer) /\ limit \in Nat \ {0}
  BY LenProperties DEF Full, Rising
<1>1. Evicted(s) = e[n]
  BY Zenon DEF Evicted
<1>2. Numbered(T) /\ Cardinality(T) = n
  BY RingCount DEF Full
<1>. HIDE DEF n, T
<1>3. \A t \in Seq(Answer) : Turned(t) \in Seq(Answer)
  <2>1. ASSUME NEW t \in Seq(Answer), Victims(t) # {}
        PROVE  RemoveAt(t, CHOOSE i \in Victims(t) : \A k \in Victims(t) : i <= k) \in Seq(Answer)
    <3>. DEFINE i == CHOOSE x \in Victims(t) : \A y \in Victims(t) : x <= y
    <3>1. Victims(t) \in SUBSET Nat
      BY DEF Victims
    <3>2. \E x \in Victims(t) : \A y \in Victims(t) : x <= y
      BY <2>1, <3>1, Least
    <3>3. i \in Victims(t)
      BY <3>2, Zenon
    <3>. HIDE DEF i
    <3>4. Len(t) \in Nat
      BY LenProperties
    <3>5. i \in 1..Len(t)
      BY <3>3, <3>4 DEF Victims
    <3>6. RemoveAt(t, i) \in Seq(Answer)
      BY <3>5, RemovedAt
    <3>. QED
      BY <3>6 DEF i
  <2>. QED
    BY <2>1 DEF Turned
<1>4. \E g : eq(g)
  <2>. DEFINE step == [k \in 1..n |-> [t \in Seq(Answer) |-> Turned(t)]]
  <2>1. \A k \in 1..n, t \in Seq(Answer) : step[k][t] \in Seq(Answer) /\ step[k][t] = Turned(t)
    BY <1>3
  <2>. HIDE DEF step
  <2>0. \A k \in 1..n, t \in Seq(Answer) : step[k][t] \in Seq(Answer)
    BY <2>1
  <2>2. Loop(Seq(Answer), s, n, step)
    BY <1>0, <2>0 DEF Loop
  <2>3. PICK g : LoopRun(Seq(Answer), s, n, step, g)
    BY <2>2, LoopExists
  <2>5. g \in [0..n -> Seq(Answer)] /\ g[0] = s
    BY <2>3 DEF LoopRun
  <2>6. \A k \in 1..n : g[k] = Turned(g[k - 1])
    <3>1. ASSUME NEW k \in 1..n PROVE g[k] = Turned(g[k - 1])
      <4>1. k - 1 \in 0..n /\ g[k] = step[k][g[k - 1]]
        BY <1>0, <2>3 DEF LoopRun
      <4>. QED
        BY <2>1, <2>5, <4>1
    <3>. QED
      BY <3>1
  <2>4. eq(g)
    BY <1>0, <2>5, <2>6
  <2>. QED
    BY <2>4
<1>5. eq(e)
  BY <1>4, Zenon
<1>. HIDE DEF e
<1>6. e[0] = s /\ \A k \in 1..n : e[k] = Turned(e[k - 1])
  BY <1>0, <1>5
<1>. DEFINE S == {k \in 0..n : Going(T, k, e[k]) \/ Over1(T, e[k])}
<1>7. 0 \in S
  <2>1. OldestOf(Others(T), 0) = {}
    BY <1>2, OthersNumbered, RankNat DEF OldestOf
  <2>2. Cardinality({}) = 0
    BY FS_EmptySet
  <2>3. ToSet(s) = T \ OldestOf(Others(T), 0) /\ Cardinality(OldestOf(Others(T), 0)) = 0
    BY <2>1, <2>2 DEF T
  <2>4. Len(s) = Cardinality(T) - 0
    BY <1>0, <1>2 DEF n
  <2>5. Going(T, 0, s)
    BY <2>3, <2>4, Zenon DEF Going
  <2>. QED
    BY <1>0, <1>6, <2>5
<1>8. ASSUME NEW k \in 0..(n - 1), k \in S PROVE k + 1 \in S
  <2>1. e[k + 1] = Turned(e[k]) /\ k \in Nat /\ k + 1 \in 0..n
    <3>1. k + 1 \in 1..n /\ k + 1 - 1 = k
      BY <1>0
    <3>. QED
      BY <1>6, <3>1
  <2>2. CASE Going(T, k, e[k])
    BY <1>2, <2>1, <2>2, TurnedOnce
  <2>3. CASE Over1(T, e[k])
    <3>1. Turned(e[k]) = e[k]
      BY <2>3 DEF Over1, Turned
    <3>. QED
      BY <2>1, <2>3, <3>1
  <2>. QED
    BY <1>8, <2>2, <2>3
<1>9. n \in S
  <2>. HIDE DEF S
  <2>1. \A k \in 0..n : k \in S
    BY <1>0, <1>7, <1>8, CountUp
  <2>. QED
    BY <1>0, <2>1
<1>10. ~Going(T, n, e[n])
  BY <1>0, <1>2 DEF Going
<1>11. Over1(T, e[n])
  BY <1>9, <1>10
<1>. QED
  BY <1>1, <1>11 DEF Over1, T
-----------------------------------------------------------------------------
(***************************************************************************)
(* The two stores.                                                         *)
(***************************************************************************)
Distinct(t) == \A r, n \in t : r.id = n.id => r = n
HistoryInv ==
  /\ HistoryTypeOK /\ StoresAgree /\ Distinct(rows)
  /\ \A r \in ToSet(ring) \cup rows : r.id <= answers

LEMMA AnswersNumbered ==
  ASSUME NEW t \in SUBSET Answer, Distinct(t)
  PROVE  Numbered(t)
<1>. DEFINE f == [r \in t |-> r.id]
<1>1. \A r \in t : r.id \in AnswerIds
  BY DEF Answer
<1>2. f \in Injection(t, AnswerIds)
  BY <1>1 DEF Injection, IsInjective, Distinct
<1>3. IsFiniteSet(AnswerIds)
  <2>1. 1 \in Int /\ MaxAnswers \in Int
    BY QueryHistoryAssumption
  <2>. QED
    BY <2>1, FS_Interval DEF AnswerIds
<1>4. IsFiniteSet(t)
  <2>. HIDE DEF f
  <2>. QED
    BY <1>2, <1>3, FS_Injection
<1>. QED
  BY <1>1, <1>4 DEF Numbered, Distinct, AnswerIds

LEMMA TableKept ==
  ASSUME answers \in Nat, limit \in Nat \ {0}, Numbered(rows), \A r \in rows : r.id <= answers,
         NEW new, new.id = answers + 1, answers' = answers + 1,
         rows' = (rows \cup {new}) \ Overflow(rows \cup {new})
  PROVE  AnswersKept
<1>. DEFINE T == rows \cup {new}
            O == Others(T)
            c == Cardinality(T)
            gone == {r \in rows : \A n \in rows' : n.id # r.id}
<1>1. Numbered(T) /\ new \notin rows
  <2>1. IsFiniteSet(T)
    BY FS_AddElement DEF Numbered
  <2>2. \A r \in rows : r.id \in Nat /\ r.id < new.id
    BY DEF Numbered
  <2>. QED
    BY <2>1, <2>2 DEF Numbered
<1>2. c \in Nat /\ Numbered(O) /\ limit \in Nat
  BY <1>1, FS_CardinalityType, OthersNumbered DEF Numbered
<1>3. Overflow(T) = {r \in O : Rank(O, r) + limit < c}
  <2>. HIDE DEF T
  <2>. QED
    BY <1>1, <1>2, OverflowOldest
<1>4. \A r \in O : Rank(O, r) \in Nat /\ r.id \in Nat /\ r \in T /\ ~r.saved /\ r # new
  BY <1>2, RankNat DEF Others, Numbered
<1>5. \A r \in T : r.id \in Nat
  BY <1>1 DEF Numbered
<1>6. rows' = T \ Overflow(T) /\ new \in T
  OBVIOUS
<1>. HIDE DEF T, O, c
<1>7. new \in rows'
  BY <1>3, <1>4, <1>6
<1>8. ASSUME NEW r \in gone PROVE r \in Overflow(T)
  BY <1>6 DEF T
<1>9. \A r \in gone : ~r.saved
  BY <1>3, <1>4, <1>8
<1>10. ASSUME NEW r \in gone, NEW n \in rows', ~n.saved
       PROVE  r.id < n.id
  <2>1. r \in O /\ Rank(O, r) + limit < c
    BY <1>3, <1>8
  <2>2. CASE n.id = answers + 1
    BY <2>2 DEF Numbered
  <2>3. CASE n.id # answers + 1
    <3>1. n \in T /\ n \notin Overflow(T)
      BY <1>6
    <3>2. n \in O
      BY <1>10, <2>3, <3>1 DEF Others, O
    <3>3. ~(Rank(O, n) + limit < c)
      BY <1>3, <3>1, <3>2
    <3>4. Rank(O, r) < Rank(O, n)
      BY <1>2, <1>4, <2>1, <3>2, <3>3
    <3>5. ~(n.id < r.id)
      <4>1. n.id < r.id => Rank(O, n) < Rank(O, r)
        BY <1>2, <1>4, <2>1, <3>2, RankGrows
      <4>. QED
        BY <1>2, <1>4, <2>1, <3>2, <3>4, <4>1
    <3>6. n.id # r.id
      OBVIOUS
    <3>. QED
      BY <1>4, <2>1, <3>2, <3>5, <3>6
  <2>. QED
    BY <2>2, <2>3
<1>11. IsFiniteSet(Overflow(T)) /\ IsFiniteSet(T) /\ Overflow(T) \cap T = Overflow(T)
       /\ T \cap Overflow(T) = Overflow(T)
  <2>1. Overflow(T) \in SUBSET T
    BY <1>3, <1>4
  <2>. QED
    BY <1>1, <2>1, FS_Subset DEF Numbered
<1>12. Cardinality(rows') = c - Cardinality(Overflow(T))
  <2>1. Cardinality(T \ Overflow(T)) = Cardinality(T) - Cardinality(T \cap Overflow(T))
    BY <1>11, FS_Difference
  <2>. QED
    BY <1>6, <1>11, <2>1 DEF c
<1>13. CASE c <= limit
  <2>1. Overflow(T) = {}
    BY <1>1, <1>2, <1>13, OverflowOldest DEF c
  <2>2. Cardinality(rows') = c /\ gone = {}
    <3>1. Cardinality(Overflow(T)) = 0
      BY <2>1, FS_EmptySet
    <3>2. Cardinality(rows') = c
      BY <1>2, <1>12, <3>1
    <3>3. gone = {}
      BY <1>8, <2>1
    <3>. QED
      BY <3>2, <3>3
  <2>. QED
    BY <1>7, <1>13, <2>2 DEF AnswersKept
<1>14. CASE limit < c
  <2>. DEFINE over == c - limit
              o == Cardinality(O)
  <2>1. Overflow(T) = OldestOf(O, over) /\ over \in Nat
    BY <1>1, <1>2, <1>14, OverflowOldest DEF c, O
  <2>2. o \in Nat
    BY <1>2, FS_CardinalityType DEF Numbered
  <2>. HIDE DEF o
  <2>3. CASE over <= o
    <3>1. over \in 0..o
      BY <2>1, <2>2, <2>3
    <3>2. Cardinality(OldestOf(O, over)) = over
      <4>. HIDE DEF over
      <4>. QED
        BY <1>2, <3>1, OldestCount DEF o
    <3>3. Cardinality(rows') = limit
      BY <1>2, <1>12, <2>1, <3>2
    <3>4. Cardinality(rows') <= limit /\ Cardinality(rows') >= limit
      BY <1>2, <3>3
    <3>. QED
      BY <1>7, <1>9, <1>10, <3>4 DEF AnswersKept
  <2>4. CASE ~(over <= o)
    <3>1. Cardinality(OldestOf(O, o)) = o /\ OldestOf(O, o) \in SUBSET O
      <4>1. o \in 0..o
        BY <2>2
      <4>2. Cardinality(OldestOf(O, o)) = o
        BY <1>2, <4>1, OldestCount DEF o
      <4>. QED
        BY <4>2 DEF OldestOf
    <3>2. OldestOf(O, o) = O
      BY <1>2, <3>1, FS_Subset DEF o, Numbered
    <3>3. OldestOf(O, over) = O
      <4>1. \A r \in O : Rank(O, r) < o
        BY <3>2 DEF OldestOf
      <4>2. \A r \in O : Rank(O, r) < over
        BY <1>4, <2>1, <2>2, <2>4, <4>1
      <4>. QED
        BY <4>2 DEF OldestOf
    <3>4. \A n \in rows' : n.saved \/ n.id = answers'
      <4>1. ASSUME NEW n \in rows', n.id # answers + 1, ~n.saved PROVE FALSE
        <5>1. n \in O
          BY <1>6, <4>1 DEF O, Others
        <5>. QED
          BY <1>6, <2>1, <3>3, <5>1
      <4>. QED
        BY <4>1
    <3>5. Cardinality(rows') >= limit
      <4>1. Cardinality(rows') = c - o
        BY <1>12, <2>1, <3>3 DEF o
      <4>. QED
        BY <1>2, <2>1, <2>2, <2>4, <4>1
    <3>. QED
      BY <1>7, <1>9, <1>10, <3>4, <3>5 DEF AnswersKept
  <2>. QED
    BY <2>3, <2>4
<1>. QED
  BY <1>2, <1>13, <1>14
LEMMA AnswerRecorded ==
  ASSUME HistoryInv, RecordAnswer
  PROVE  HistoryInv' /\ AnswersKept
<1>. DEFINE new == [id |-> answers + 1, saved |-> FALSE]
            s == Append(ring, new)
            T == rows \cup {new}
<1>1. /\ answers \in Nat /\ answers' = answers + 1 /\ answers' \in 0..MaxAnswers
      /\ limit \in RingLimits /\ limit \in Nat \ {0} /\ limit' = limit
      /\ restarted \in BOOLEAN /\ restarted' = restarted
      /\ ring \in Seq(Answer) /\ rows \in SUBSET Answer /\ Distinct(rows)
  BY QueryHistoryAssumption DEF HistoryInv, HistoryTypeOK, RecordAnswer
<1>2. /\ ring' = Evicted(s) /\ byId' = {r.id : r \in ToSet(Evicted(s))}
      /\ rows' = T \ Overflow(T)
  BY Zenon DEF RecordAnswer
<1>3. new \in Answer /\ new.id = answers + 1
  BY <1>1 DEF Answer, AnswerIds
<1>4. \A r \in ToSet(ring) \cup rows : r.id \in Nat /\ r.id <= answers
  <2>1. ToSet(ring) \in SUBSET Answer
    BY <1>1, ElementOfSeq DEF ToSet
  <2>. QED
    BY <1>1, <2>1 DEF HistoryInv, Answer, AnswerIds
<1>. HIDE DEF new
<1>5. /\ s \in Seq(Answer) /\ Len(s) = Len(ring) + 1 /\ Len(ring) \in Nat
      /\ \A i \in 1..Len(ring) : s[i] = ring[i]
      /\ s[Len(ring) + 1] = new
      /\ DOMAIN ring = 1..Len(ring)
  BY <1>1, <1>3, AppendProperties, LenProperties
<1>. HIDE DEF s
<1>6. DOMAIN s = 1..(Len(ring) + 1)
  BY <1>5, LenProperties
<1>7. Rising(s)
  <2>1. ASSUME NEW i \in DOMAIN s, NEW k \in DOMAIN s, i < k PROVE s[i].id < s[k].id
    <3>1. i \in 1..Len(ring) /\ s[i] = ring[i] /\ ring[i] \in ToSet(ring)
      BY <1>5, <1>6, <2>1 DEF ToSet
    <3>2. CASE k = Len(ring) + 1
      BY <1>1, <1>3, <1>4, <1>5, <3>1, <3>2
    <3>3. CASE k # Len(ring) + 1
      <4>1. k \in 1..Len(ring)
        BY <1>5, <1>6, <3>3
      <4>. QED
        BY <1>5, <2>1, <3>1, <4>1 DEF HistoryInv, StoresAgree
    <3>. QED
      BY <3>2, <3>3
  <2>. QED
    BY <1>5, <2>1 DEF Rising
<1>8. Full(s)
  BY <1>1, <1>3, <1>5, <1>7 DEF Full
<1>9. ToSet(s) = ToSet(ring) \cup {new}
  <2>1. \A x \in ToSet(s) : x \in ToSet(ring) \cup {new}
    <3>1. ASSUME NEW i \in 1..(Len(ring) + 1) PROVE s[i] \in ToSet(ring) \cup {new}
      <4>1. CASE i = Len(ring) + 1
        BY <1>5, <4>1
      <4>2. CASE i # Len(ring) + 1
        BY <1>5, <4>2 DEF ToSet
      <4>. QED
        BY <4>1, <4>2
    <3>. QED
      BY <1>6, <3>1 DEF ToSet
  <2>2. \A x \in ToSet(ring) \cup {new} : x \in ToSet(s)
    <3>1. \A i \in 1..Len(ring) : i \in DOMAIN s /\ s[i] = ring[i]
      BY <1>5, <1>6
    <3>2. Len(ring) + 1 \in DOMAIN s
      BY <1>5, <1>6
    <3>. QED
      BY <1>5, <3>1, <3>2 DEF ToSet
  <2>. QED
    BY <2>1, <2>2
<1>10. Rising(ring') /\ ToSet(ring') = ToSet(s) \ Overflow(ToSet(s))
  BY <1>2, <1>8, EvictedLeaves DEF Full
<1>11. ring' \in Seq(Answer) /\ DOMAIN ring' = 1..Len(ring')
       /\ \A i, k \in DOMAIN ring' : i < k => ring'[i].id < ring'[k].id
  BY <1>10, LenProperties DEF Rising
<1>12. byId' = {ring'[i].id : i \in DOMAIN ring'}
  BY <1>2 DEF ToSet
<1>13. byId' \in SUBSET AnswerIds
  <2>1. \A i \in DOMAIN ring' : ring'[i] \in Answer
    BY <1>11, ElementOfSeq
  <2>2. \A i \in DOMAIN ring' : ring'[i].id \in AnswerIds
    BY <2>1 DEF Answer
  <2>. QED
    BY <1>12, <2>2
<1>14. rows' \in SUBSET Answer /\ Distinct(rows')
  BY <1>1, <1>2, <1>3, <1>4 DEF Distinct
<1>15. ASSUME ~restarted PROVE ToSet(ring') = rows'
  <2>1. ToSet(ring) = rows
    BY <1>15 DEF HistoryInv, StoresAgree
  <2>. QED
    BY <1>2, <1>9, <1>10, <2>1
<1>16. \A r \in ToSet(ring') \cup rows' : r.id <= answers'
  <2>1. ToSet(ring') \cup rows' \in SUBSET (ToSet(ring) \cup rows \cup {new})
    BY <1>2, <1>9, <1>10
  <2>. QED
    BY <1>1, <1>3, <1>4, <2>1
<1>17. HistoryTypeOK'
  BY <1>1, <1>11, <1>13, <1>14 DEF HistoryTypeOK
<1>18. StoresAgree'
  BY <1>1, <1>11, <1>12, <1>15 DEF StoresAgree
<1>19. AnswersKept
  <2>1. Numbered(rows) /\ \A r \in rows : r.id <= answers
    BY <1>1, <1>4, AnswersNumbered
  <2>. HIDE DEF T
  <2>2. rows' = (rows \cup {new}) \ Overflow(rows \cup {new})
    BY <1>2 DEF T
  <2>. QED
    BY <1>1, <1>3, <2>1, <2>2, TableKept
<1>. QED
  BY <1>14, <1>16, <1>17, <1>18, <1>19 DEF HistoryInv

LEMMA AnswerFlagged ==
  ASSUME HistoryInv, NEW id \in AnswerIds, NEW want \in BOOLEAN, SetSaved(id, want)
  PROVE  HistoryInv' /\ AnswersKept
<1>. DEFINE f(s, r) == IF r.id = id THEN Flagged(s, r, want) ELSE r
<1>1. /\ ring \in Seq(Answer) /\ rows \in SUBSET Answer /\ Distinct(rows)
      /\ byId' = byId /\ answers' = answers /\ limit' = limit /\ restarted' = restarted
      /\ rows' = {f(rows, r) : r \in rows}
      /\ id \in byId => ring' = [i \in DOMAIN ring |-> f(ToSet(ring), ring[i])]
      /\ id \notin byId => ring' = ring
  BY DEF HistoryInv, HistoryTypeOK, SetSaved
<1>2. \A s, r : r \in Answer => f(s, r) \in Answer /\ f(s, r).id = r.id
  <2>1. ASSUME NEW s, NEW r \in Answer PROVE f(s, r) \in Answer /\ f(s, r).id = r.id
    <3>1. [r EXCEPT !.saved = want] \in Answer /\ [r EXCEPT !.saved = want].id = r.id
      BY DEF Answer
    <3>. QED
      BY <3>1 DEF Flagged
  <2>. QED
    BY <2>1
<1>3. DOMAIN ring = 1..Len(ring) /\ Len(ring) \in Nat
      /\ \A i \in DOMAIN ring : ring[i] \in Answer
  BY <1>1, LenProperties, ElementOfSeq
<1>. HIDE DEF f
<1>4. \A i \in DOMAIN ring : ring[i].id \in byId
  BY DEF HistoryInv, StoresAgree
<1>5. DOMAIN ring' = DOMAIN ring /\ \A i \in DOMAIN ring : ring'[i] = f(ToSet(ring), ring[i])
  <2>1. CASE id \in byId
    BY <1>1, <2>1
  <2>2. CASE id \notin byId
    BY <1>1, <1>4, <2>2 DEF f
  <2>. QED
    BY <2>1, <2>2
<1>6. ring' \in Seq(Answer)
  <2>1. CASE id \in byId
    <3>1. ring' = [i \in 1..Len(ring) |-> f(ToSet(ring), ring[i])]
      BY <1>1, <1>3, <2>1
    <3>2. \A i \in 1..Len(ring) : f(ToSet(ring), ring[i]) \in Answer
      BY <1>2, <1>3
    <3>. QED
      BY <1>3, <3>1, <3>2, IsASeq
  <2>2. CASE id \notin byId
    BY <1>1, <2>2
  <2>. QED
    BY <2>1, <2>2
<1>7. \A i \in DOMAIN ring : ring'[i].id = ring[i].id
  BY <1>2, <1>3, <1>5
<1>8. \A r \in rows' : r \in Answer /\ \E o \in rows : r = f(rows, o) /\ r.id = o.id
  BY <1>1, <1>2
<1>9. rows' \in SUBSET Answer /\ Distinct(rows')
  <2>1. ASSUME NEW r \in rows', NEW n \in rows', r.id = n.id PROVE r = n
    <3>1. PICK a \in rows : r = f(rows, a) /\ r.id = a.id
      BY <1>8
    <3>2. PICK b \in rows : n = f(rows, b) /\ n.id = b.id
      BY <1>8
    <3>3. a = b
      BY <1>1, <2>1, <3>1, <3>2 DEF Distinct
    <3>. QED
      BY <3>1, <3>2, <3>3
  <2>. QED
    BY <1>8, <2>1 DEF Distinct
<1>10. byId' = {ring'[i].id : i \in DOMAIN ring'}
  <2>1. byId = {ring[i].id : i \in DOMAIN ring}
    BY DEF HistoryInv, StoresAgree
  <2>. QED
    BY <1>1, <1>5, <1>7, <2>1
<1>11. \A i, k \in DOMAIN ring' : i < k => ring'[i].id < ring'[k].id
  BY <1>5, <1>7 DEF HistoryInv, StoresAgree
<1>12. ToSet(ring') = {f(ToSet(ring), r) : r \in ToSet(ring)}
  BY <1>5 DEF ToSet
<1>13. ASSUME ~restarted PROVE ToSet(ring') = rows'
  <2>1. ToSet(ring) = rows
    BY <1>13 DEF HistoryInv, StoresAgree
  <2>. QED
    BY <1>1, <1>12, <2>1
<1>14. \A r \in ToSet(ring') \cup rows' : r.id <= answers'
  <2>1. \A r \in rows' : r.id <= answers'
    BY <1>1, <1>8 DEF HistoryInv
  <2>2. \A i \in DOMAIN ring' : ring'[i].id <= answers'
    BY <1>1, <1>5, <1>7 DEF HistoryInv, ToSet
  <2>. QED
    BY <2>1, <2>2 DEF ToSet
<1>15. HistoryTypeOK'
  BY <1>1, <1>6, <1>9 DEF HistoryInv, HistoryTypeOK
<1>16. StoresAgree'
  BY <1>1, <1>10, <1>11, <1>13 DEF StoresAgree
<1>17. AnswersKept
  BY <1>1 DEF AnswersKept
<1>. QED
  BY <1>9, <1>14, <1>15, <1>16, <1>17 DEF HistoryInv

LEMMA AnswerDeleted ==
  ASSUME HistoryInv, NEW id \in AnswerIds, DeleteAnswer(id)
  PROVE  HistoryInv' /\ AnswersKept
<1>. DEFINE at == CHOOSE i \in DOMAIN ring : ring[i].id = id
<1>1. /\ ring \in Seq(Answer) /\ rows \in SUBSET Answer /\ Distinct(rows)
      /\ byId' = byId \ {id} /\ answers' = answers /\ limit' = limit /\ restarted' = restarted
      /\ rows' = {r \in rows : r.id # id}
      /\ id \in byId => ring' = RemoveAt(ring, at)
      /\ id \notin byId => ring' = ring
      /\ byId = {ring[i].id : i \in DOMAIN ring}
  BY DEF HistoryInv, HistoryTypeOK, StoresAgree, DeleteAnswer
<1>2. DOMAIN ring = 1..Len(ring) /\ Len(ring) \in Nat /\ Rising(ring)
  BY <1>1, LenProperties DEF Rising, HistoryInv, StoresAgree
<1>3. \A r, n \in ToSet(ring) : r.id = n.id => r = n
  BY <1>2, RingCount DEF Numbered
<1>4. Rising(ring') /\ ToSet(ring') = {r \in ToSet(ring) : r.id # id}
  <2>1. CASE id \in byId
    <3>1. at \in DOMAIN ring /\ ring[at].id = id
      BY <1>1, <2>1, Zenon
    <3>. HIDE DEF at
    <3>2. Rising(ring') /\ ToSet(ring') = ToSet(ring) \ {ring[at]}
      BY <1>1, <1>2, <2>1, <3>1, RemovedRing
    <3>3. ring[at] \in ToSet(ring)
      BY <3>1 DEF ToSet
    <3>. QED
      BY <1>3, <3>1, <3>2, <3>3
  <2>2. CASE id \notin byId
    <3>1. \A r \in ToSet(ring) : r.id # id
      BY <1>1, <2>2 DEF ToSet
    <3>. QED
      BY <1>1, <1>2, <2>2, <3>1
  <2>. QED
    BY <2>1, <2>2
<1>. HIDE DEF at
<1>5. ring' \in Seq(Answer) /\ \A i, k \in DOMAIN ring' : i < k => ring'[i].id < ring'[k].id
  BY <1>4 DEF Rising
<1>6. byId' = {ring'[i].id : i \in DOMAIN ring'}
  <2>1. byId = {r.id : r \in ToSet(ring)}
    BY <1>1 DEF ToSet
  <2>2. byId' = {r.id : r \in ToSet(ring')}
    BY <1>1, <1>4, <2>1
  <2>. QED
    BY <2>2 DEF ToSet
<1>7. ASSUME ~restarted PROVE ToSet(ring') = rows'
  <2>1. ToSet(ring) = rows
    BY <1>7 DEF HistoryInv, StoresAgree
  <2>. QED
    BY <1>1, <1>4, <2>1
<1>8. HistoryTypeOK'
  BY <1>1, <1>5 DEF HistoryInv, HistoryTypeOK
<1>9. StoresAgree'
  BY <1>1, <1>5, <1>6, <1>7 DEF StoresAgree
<1>10. Distinct(rows') /\ \A r \in ToSet(ring') \cup rows' : r.id <= answers'
  BY <1>1, <1>4 DEF HistoryInv, Distinct
<1>. QED
  BY <1>1, <1>8, <1>9, <1>10 DEF HistoryInv, AnswersKept

LEMMA RestartedHistory ==
  ASSUME HistoryInv, NEW l \in RingLimits, RestartHistory(l)
  PROVE  HistoryInv' /\ AnswersKept
<1>1. /\ ring' = <<>> /\ byId' = {} /\ rows' = rows /\ answers' = answers /\ limit' = l
      /\ restarted' = TRUE
  BY DEF RestartHistory
<1>2. ring' \in Seq(Answer) /\ DOMAIN ring' = {} /\ ToSet(ring') = {}
  BY <1>1 DEF ToSet
<1>. QED
  BY <1>1, <1>2 DEF HistoryInv, HistoryTypeOK, StoresAgree, AnswersKept, Distinct

\* Whatever is recorded, pinned, unpinned and deleted, and whatever limit a restart
\* brings: the ring, evicting entry by entry, and the table, deleting its overflow in
\* one statement, keep the same answers; a pinned answer goes only when it is deleted,
\* the newest is never the victim, and what goes is the oldest that may.
THEOREM HistoriesKeep == HistorySpec => HistoryKeepsAnswers
<1>1. InitHistory => HistoryInv
  <2>. SUFFICES ASSUME InitHistory PROVE HistoryInv
    OBVIOUS
  <2>1. ring \in Seq(Answer) /\ DOMAIN ring = {} /\ ToSet(ring) = {}
    BY DEF InitHistory, ToSet
  <2>2. /\ rows = {} /\ byId = {} /\ answers = 0 /\ limit \in RingLimits
        /\ restarted = FALSE
    BY DEF InitHistory
  <2>3. 0 \in 0..MaxAnswers
    BY QueryHistoryAssumption
  <2>4. HistoryTypeOK
    BY <2>1, <2>2, <2>3 DEF HistoryTypeOK
  <2>5. StoresAgree
    BY <2>1, <2>2 DEF StoresAgree
  <2>6. Distinct(rows) /\ \A r \in ToSet(ring) \cup rows : r.id <= answers
    BY <2>1, <2>2 DEF Distinct
  <2>. QED
    BY <2>4, <2>5, <2>6 DEF HistoryInv
<1>2. HistoryInv /\ [NextHistory]_historyVars =>
        HistoryInv' /\ [HistoryTypeOK' /\ StoresAgree' /\ AnswersKept]_historyVars
  <2>. SUFFICES ASSUME HistoryInv, [NextHistory]_historyVars
                PROVE  HistoryInv' /\ (AnswersKept \/ UNCHANGED historyVars)
    BY DEF HistoryInv
  <2>1. CASE UNCHANGED historyVars
    BY <2>1 DEF historyVars, HistoryInv, HistoryTypeOK, StoresAgree, Distinct
  <2>2. CASE NextHistory
    BY <2>2, AnswerRecorded, AnswerFlagged, AnswerDeleted, RestartedHistory DEF NextHistory
  <2>. QED
    BY <2>1, <2>2
<1>. QED
  BY <1>1, <1>2, PTL DEF HistorySpec, HistoryKeepsAnswers

-----------------------------------------------------------------------------
(***************************************************************************)
(* Bulk imports.  With a database an item's job is the one of its key and  *)
(* place, until it is pruned.  Without one, jobs are numbered in the order *)
(* of the batches: batch n has the numbers after edge[n] up to edge[n-1].  *)
(* A mark is made while its batch is listed, so the marks made after one   *)
(* of a listed batch are of batches that were listed beside it, and those  *)
(* made after one of a queued job are of such batches or of jobs queued    *)
(* behind it: too few, by the bounds, for the table to have dropped it.    *)
(***************************************************************************)
ItemRecord == [job : BulkIds \cup {NoJob}, command : AllCommands]
Accepted(m) == IF Len(m) < QueueRoom THEN Len(m) ELSE QueueRoom
Suffices(a) ==
  /\ \A m \in Manifests : Accepted(m) <= a
  /\ (2 * MaxBatches - 1) * a <= MaxMarkers /\ MaxBatches * a + QueueRoom <= MaxMarkers
\* The most jobs a batch has without a database.
MostAccepted == IF Manifests = {} THEN 0 ELSE CHOOSE a \in 0..QueueRoom : Suffices(a)
InBatches(d) == d * MostAccepted
Beside == InBatches(MaxBatches - 1)  \* jobs of the batches before one, or after
AllListed == InBatches(MaxBatches)

Owned(items, q) ==
  /\ items \in Seq(ItemRecord)
  /\ \A k \in DOMAIN items : items[k].job # NoJob =>
       /\ q[items[k].job].status # "none"
       /\ q[items[k].job].command = items[k].command
       /\ \A o \in DOMAIN items : items[o].job = items[k].job => o = k

ImportingOK(r, q) ==
  /\ r.manifest \in Manifests
  /\ Len(r.items) = r.next - 1 /\ r.next <= Len(r.manifest) + 1
  /\ \A k \in DOMAIN r.items : r.items[k].job # NoJob =>
       LET j == q[r.items[k].job] IN j.status = "pruned" \/ j.key = PlaceKey(r.key, k)

CancellingOK(r, q) ==
  /\ r.next <= Len(r.items) + 1
  /\ \A k \in 1..(r.next - 1) :
       LET j == r.items[k].job
       IN j # NoJob => j \notin Unfinished(q) \/ q[j].told # "no"

ImporterRecord == [at : {"idle", "importing", "cancelling"}, key : ImportKeys \cup {NoImportKey},
                   manifest : Manifests \cup {<<>>}, items : Seq(ItemRecord), next : Nat \ {0}]
ImporterOK(r, q) ==
  /\ r \in ImporterRecord /\ (r.at # "idle" => persistent) /\ Owned(r.items, q)
  /\ r.at = "importing" => ImportingOK(r, q)
  /\ r.at = "cancelling" => CancellingOK(r, q)

BulkJobOK(r) ==
  /\ r \in BulkJob
  /\ r.status = "queued" => ~r.began
  /\ r.told = "queued" => ~r.began /\ (persistent => r.status # "queued")
  /\ r.status = "none" => r.told = "no" /\ r.key = NoImportKey
  /\ r.status = "pruned" => r.key = NoImportKey

Listed(j, edge) == \E n \in DOMAIN batches : edge[n] < j /\ j <= edge[n - 1]

\* The numbers of the batches, when the queue's jobs are q.
EdgesOK(edge, q) ==
  /\ edge \in [0..Len(batches) -> 0..MaxBulkJobs]
  /\ {j \in BulkIds : q[j].status # "none"} = 1..edge[0]
  /\ \A n \in DOMAIN batches : \A k \in DOMAIN batches[n] :
       LET j == batches[n][k].job IN j # NoJob => edge[n] < j /\ j <= edge[n - 1]
  /\ \A n, m \in 0..Len(batches) : n <= m =>
       edge[m] <= edge[n] /\ edge[n] <= edge[m] + InBatches(m - n)

\* A table of marks that has dropped none too early.
MarksOK(ms, edge, q) ==
  /\ ms \in Seq(BulkIds)
  /\ \A a, b \in DOMAIN ms : ms[a] = ms[b] => a = b
  /\ \A a \in DOMAIN ms : ms[a] <= edge[0]
  /\ \A a, b \in DOMAIN ms, n \in DOMAIN batches :
       a < b /\ edge[n] < ms[a] /\ ms[a] <= edge[n - 1] =>
         edge[n] < ms[b] + Beside /\ ms[b] <= edge[n - 1] + Beside
  /\ \A a, b \in DOMAIN ms : a < b /\ q[ms[a]].status = "queued" => ms[a] < ms[b] + AllListed

QueueOK(q) ==
  /\ \A j \in BulkIds : q[j].status # "pruned"
  /\ \A i, j \in BulkIds : i < j /\ q[i].status = "queued" /\ q[j].status # "none"
                             => q[j].status = "queued"

\* What was told of a cancellation is still marked, where it matters.
ToldOK(ms, q, edge) ==
  \A j \in BulkIds :
    q[j].told # "no" /\ (Listed(j, edge) \/ q[j].status = "queued") => j \in ToSet(ms)

MemoryOK ==
  /\ QueueOK(bulkJob)
  /\ \E edge \in [0..Len(batches) -> 0..MaxBulkJobs] :
       EdgesOK(edge, bulkJob) /\ MarksOK(marked, edge, bulkJob) /\ ToldOK(marked, bulkJob, edge)

BulkInv ==
  /\ persistent \in BOOLEAN
  /\ bulkJob \in [BulkIds -> BulkJob] /\ \A j \in BulkIds : BulkJobOK(bulkJob[j])
  /\ Cardinality(Unfinished(bulkJob)) <= QueueRoom
  /\ batches \in Seq(Seq(ItemRecord)) /\ Len(batches) <= MaxBatches
  /\ Manifests = {} => batches = <<>>
  /\ \A n \in DOMAIN batches : Owned(batches[n], bulkJob)
  /\ marked \in Seq(BulkIds) /\ Len(marked) <= MaxMarkers
  /\ importer = [i \in Importers |-> importer[i]]
  /\ \A i \in Importers : ImporterOK(importer[i], bulkJob)
  /\ ~persistent => MemoryOK

LEMMA Times ==
  ASSUME NEW a \in Nat, NEW b \in Nat, NEW c \in Nat, a <= b
  PROVE  a * c <= b * c /\ a * c \in Nat /\ (a + 1) * c = a * c + c
OBVIOUS

\* Some number is the most that any manifest has accepted, and it suffices.
LEMMA MostSuffices ==
  /\ MostAccepted \in 0..QueueRoom
  /\ Manifests # {} => Suffices(MostAccepted)
<1>0. QueueRoom \in Nat \ {0}
  BY BulkAssumption
<1>1. CASE Manifests = {}
  BY <1>0, <1>1 DEF MostAccepted
<1>2. CASE Manifests # {}
  <2>1. \A m \in Manifests : Len(m) \in Nat /\ Accepted(m) \in 0..QueueRoom
    BY <1>0, LenProperties, BulkAssumption DEF Accepted
  <2>. DEFINE Left == {QueueRoom - Accepted(m) : m \in Manifests}
  <2>2. Left \in SUBSET Nat /\ Left # {}
    BY <1>0, <1>2, <2>1
  <2>3. PICK l \in Left : \A n \in Left : l <= n
    <3>. HIDE DEF Left
    <3>. QED
      BY <2>2, Least
  <2>4. PICK o \in Manifests : l = QueueRoom - Accepted(o)
    BY <2>3
  <2>5. \A m \in Manifests : Accepted(m) <= Accepted(o)
    <3>. SUFFICES ASSUME NEW m \in Manifests PROVE Accepted(m) <= Accepted(o)
      OBVIOUS
    <3>1. QueueRoom - Accepted(o) <= QueueRoom - Accepted(m)
      BY <2>3, <2>4
    <3>. QED
      BY <1>0, <2>1, <3>1
  <2>6. /\ (2 * MaxBatches - 1) * Accepted(o) <= MaxMarkers
        /\ MaxBatches * Accepted(o) + QueueRoom <= MaxMarkers
    BY BulkAssumption DEF Accepted
  <2>7. Accepted(o) \in 0..QueueRoom /\ Suffices(Accepted(o))
    BY <2>1, <2>5, <2>6 DEF Suffices
  <2>8. \E a \in 0..QueueRoom : Suffices(a)
    BY <2>7
  <2>. QED
    BY <1>2, <2>8 DEF MostAccepted
<1>. QED
  BY <1>1, <1>2

LEMMA Spans ==
  /\ MostAccepted \in Nat /\ Beside \in Nat /\ AllListed \in Nat
  /\ Beside + MostAccepted = AllListed
  /\ \A d \in 0..(MaxBatches - 1) : InBatches(d) \in Nat /\ InBatches(d) <= Beside
  /\ \A d \in 0..MaxBatches : InBatches(d) \in Nat /\ InBatches(d) <= AllListed
  /\ InBatches(0) = 0 /\ InBatches(1) = MostAccepted
  /\ \A d \in Nat : InBatches(d + 1) = InBatches(d) + MostAccepted
  /\ Manifests # {} => /\ AllListed + Beside <= MaxMarkers
                       /\ AllListed + QueueRoom <= MaxMarkers
<1>. DEFINE A == MostAccepted
<1>1. A \in Nat /\ MaxBatches \in Nat \ {0}
  BY MostSuffices, BulkAssumption
<1>. HIDE DEF A
<1>2. MaxBatches - 1 \in Nat /\ (MaxBatches - 1) + 1 = MaxBatches
  BY <1>1
<1>3. Beside = (MaxBatches - 1) * A /\ AllListed = MaxBatches * A
  BY DEF A, Beside, AllListed, InBatches
<1>4. Beside \in Nat /\ AllListed \in Nat /\ Beside + A = AllListed
  BY <1>1, <1>2, <1>3, Times
<1>5. \A d \in 0..(MaxBatches - 1) : d * A \in Nat /\ d * A <= Beside
  BY <1>1, <1>2, <1>3, Times
<1>6. \A d \in 0..MaxBatches : d * A \in Nat /\ d * A <= AllListed
  BY <1>1, <1>2, <1>3, Times
<1>7. ASSUME Manifests # {} PROVE /\ AllListed + Beside <= MaxMarkers
                                  /\ AllListed + QueueRoom <= MaxMarkers
  <2>1. (2 * MaxBatches - 1) * A <= MaxMarkers /\ MaxBatches * A + QueueRoom <= MaxMarkers
    BY <1>7, MostSuffices DEF Suffices, A
  <2>2. (2 * MaxBatches - 1) * A = MaxBatches * A + (MaxBatches - 1) * A
    BY <1>1
  <2>. QED
    BY <1>3, <2>1, <2>2
<1>8. 0 * A = 0 /\ 1 * A = A /\ \A d \in Nat : (d + 1) * A = d * A + A
  BY <1>1
<1>. QED
  BY <1>1, <1>4, <1>5, <1>6, <1>7, <1>8 DEF A, InBatches

\* Different numbers out of a span are no more than it is long.
LEMMA SpanCount ==
  ASSUME NEW lo \in Int, NEW hi \in Int, NEW s \in Seq(Int),
         \A i \in DOMAIN s : lo < s[i] /\ s[i] <= hi,
         \A i, k \in DOMAIN s : s[i] = s[k] => i = k, Len(s) > 0
  PROVE  Len(s) <= hi - lo
<1>. DEFINE n == Len(s)
            T == (lo + 1)..hi
            f == [i \in 1..n |-> s[i]]
<1>1. n \in Nat /\ DOMAIN s = 1..n /\ \A i \in 1..n : s[i] \in Int
  BY LenProperties, ElementOfSeq
<1>2. lo + 1 <= hi
  BY <1>1
<1>3. IsFiniteSet(T) /\ Cardinality(T) = hi - lo
  <2>1. IsFiniteSet(T) /\ Cardinality(T) = hi - (lo + 1) + 1
    BY <1>2, FS_Interval
  <2>. QED
    BY <2>1
<1>4. IsFiniteSet(1..n) /\ Cardinality(1..n) = n
  <2>. HIDE DEF n
  <2>1. CASE n = 0
    BY <2>1, FS_EmptySet
  <2>2. CASE n # 0
    <3>1. 1 \in Int /\ n \in Int /\ ~(1 > n)
      BY <1>1, <2>2
    <3>2. IsFiniteSet(1..n) /\ Cardinality(1..n) = n - 1 + 1
      BY <3>1, FS_Interval
    <3>. QED
      BY <1>1, <3>2
  <2>. QED
    BY <2>1, <2>2
<1>5. f \in Injection(1..n, T)
  <2>1. \A i \in 1..n : s[i] \in T
    BY <1>1
  <2>. HIDE DEF T, n
  <2>2. f \in [1..n -> T]
    BY <2>1
  <2>3. \A i, k \in DOMAIN f : f[i] = f[k] => i = k
    BY <1>1
  <2>. QED
    BY <2>2, <2>3 DEF Injection, IsInjective
<1>. HIDE DEF T, f, n
<1>6. Cardinality(1..n) <= Cardinality(T)
  BY <1>3, <1>4, <1>5, FS_Injection
<1>. QED
  BY <1>3, <1>4, <1>6 DEF n

\* Without a database, and some manifest imported.
Marking(edge, q) ==
  /\ EdgesOK(edge, q) /\ QueueOK(q) /\ q \in [BulkIds -> BulkJob]
  /\ Cardinality(Unfinished(q)) <= QueueRoom
  /\ batches \in Seq(Seq(ItemRecord)) /\ Len(batches) <= MaxBatches /\ Manifests # {}

LEMMA EdgesSpan ==
  ASSUME NEW edge, NEW q, Marking(edge, q)
  PROVE  /\ \A n \in 0..Len(batches) : edge[n] \in 0..MaxBulkJobs
         /\ \A n \in DOMAIN batches : n \in 1..Len(batches) /\ n - 1 \in 0..Len(batches)
                                      /\ edge[n] <= edge[n - 1]
                                      /\ edge[n - 1] <= edge[n] + MostAccepted
         /\ \A n \in 0..Len(batches) : edge[n] <= edge[0]
<1>1. /\ edge \in [0..Len(batches) -> 0..MaxBulkJobs]
      /\ \A n, m \in 0..Len(batches) : n <= m =>
           edge[m] <= edge[n] /\ edge[n] <= edge[m] + InBatches(m - n)
  BY DEF Marking, EdgesOK
<1>2. Len(batches) \in Nat /\ DOMAIN batches = 1..Len(batches)
  BY LenProperties DEF Marking
<1>3. ASSUME NEW n \in 1..Len(batches)
      PROVE  /\ n - 1 \in 0..Len(batches)
             /\ edge[n] <= edge[n - 1] /\ edge[n - 1] <= edge[n] + MostAccepted
  <2>1. n - 1 \in 0..Len(batches) /\ n \in 0..Len(batches) /\ n - 1 <= n /\ n - (n - 1) = 1
    BY <1>2
  <2>2. edge[n] <= edge[n - 1] /\ edge[n - 1] <= edge[n] + InBatches(n - (n - 1))
    BY <1>1, <2>1
  <2>3. InBatches(1) = MostAccepted
    BY Spans
  <2>. QED
    BY <2>1, <2>2, <2>3
<1>4. \A n \in 0..Len(batches) : edge[n] <= edge[0]
  <2>. SUFFICES ASSUME NEW n \in 0..Len(batches) PROVE edge[n] <= edge[0]
    OBVIOUS
  <2>1. 0 \in 0..Len(batches) /\ 0 <= n
    BY <1>2
  <2>. QED
    BY <1>1, <2>1
<1>. QED
  BY <1>1, <1>2, <1>3, <1>4

\* A listed job is not far from any listed batch.
LEMMA ListedBeside ==
  ASSUME NEW edge, NEW q, Marking(edge, q), NEW j \in BulkIds, Listed(j, edge)
  PROVE  /\ \A n \in DOMAIN batches : edge[n] < j + Beside /\ j <= edge[n - 1] + Beside
         /\ edge[0] < j + AllListed
         /\ j <= edge[0] /\ MostAccepted > 0
<1>1. PICK m \in DOMAIN batches : edge[m] < j /\ j <= edge[m - 1]
  BY DEF Listed
<1>2. Len(batches) \in Nat /\ DOMAIN batches = 1..Len(batches) /\ Len(batches) <= MaxBatches
      /\ MaxBatches \in Nat \ {0}
  BY LenProperties, BulkAssumption DEF Marking
<1>3. /\ \A n \in 0..Len(batches) : edge[n] \in Nat
      /\ \A n, k \in 0..Len(batches) : n <= k =>
           edge[k] <= edge[n] /\ edge[n] <= edge[k] + InBatches(k - n)
  <2>1. \A n \in 0..Len(batches) : edge[n] \in Nat
    BY EdgesSpan
  <2>2. EdgesOK(edge, q)
    BY DEF Marking
  <2>. QED
    BY <2>1, <2>2 DEF EdgesOK
<1>4. m \in 0..Len(batches) /\ m - 1 \in 0..Len(batches) /\ m <= MaxBatches /\ j \in Nat
  BY <1>1, <1>2 DEF BulkIds
<1>5. ASSUME NEW n \in DOMAIN batches PROVE edge[n] < j + Beside /\ j <= edge[n - 1] + Beside
  <2>1. n \in 0..Len(batches) /\ n - 1 \in 0..Len(batches) /\ n <= MaxBatches
    BY <1>2
  <2>2. edge[n] \in Nat /\ edge[n - 1] \in Nat /\ edge[m] \in Nat /\ edge[m - 1] \in Nat
        /\ Beside \in Nat
    BY <1>3, <1>4, <2>1, Spans
  <2>3. CASE n <= m
    <3>1. edge[n] <= edge[m] + InBatches(m - n)
      BY <1>3, <1>4, <2>1, <2>3
    <3>2. m - n \in 0..(MaxBatches - 1)
      BY <1>1, <1>2, <2>3
    <3>3. InBatches(m - n) \in Nat /\ InBatches(m - n) <= Beside
      BY <3>2, Spans
    <3>4. edge[m - 1] <= edge[n - 1]
      <4>1. n - 1 <= m - 1
        BY <1>4, <2>1, <2>3
      <4>. QED
        BY <1>3, <1>4, <2>1, <4>1
    <3>5. edge[n] < j + Beside
      <4>. DEFINE g == InBatches(m - n)
      <4>1. edge[n] <= edge[m] + g /\ g \in Nat /\ g <= Beside /\ edge[m] < j
        BY <1>1, <3>1, <3>3
      <4>. HIDE DEF g
      <4>. QED
        BY <1>4, <2>2, <4>1
    <3>6. \A a, b, w \in Nat : j <= a /\ a <= b => j <= b + w
      BY <1>4
    <3>7. j <= edge[n - 1] + Beside
      BY <1>1, <2>2, <3>4, <3>6
    <3>. QED
      BY <3>5, <3>7
  <2>4. CASE m < n
    <3>1. edge[m - 1] <= edge[n - 1] + InBatches((n - 1) - (m - 1))
      <4>1. m - 1 <= n - 1
        BY <1>4, <2>1, <2>4
      <4>. QED
        BY <1>3, <1>4, <2>1, <4>1
    <3>2. (n - 1) - (m - 1) \in 0..(MaxBatches - 1)
      BY <1>1, <1>2, <2>4
    <3>3. /\ InBatches((n - 1) - (m - 1)) \in Nat
          /\ InBatches((n - 1) - (m - 1)) <= Beside
      BY <3>2, Spans
    <3>4. edge[n] <= edge[m]
      <4>1. m <= n
        BY <1>4, <2>1, <2>4
      <4>. QED
        BY <1>3, <1>4, <2>1, <4>1
    <3>5. j <= edge[n - 1] + Beside
      <4>1. j <= edge[m - 1]
        BY <1>1
      <4>2. \A a, b, w, g \in Nat : j <= a /\ a <= b + g /\ g <= w => j <= b + w
        BY <1>4
      <4>. QED
        BY <2>2, <3>1, <3>3, <4>1, <4>2
    <3>6. \A a, b, w \in Nat : b < j /\ a <= b => a < j + w
      BY <1>4
    <3>7. edge[n] < j + Beside
      BY <1>1, <2>2, <3>4, <3>6
    <3>. QED
      BY <3>5, <3>7
  <2>. QED
    BY <1>4, <2>1, <2>3, <2>4
<1>6. edge[0] < j + AllListed
  <2>1. 0 \in 0..Len(batches) /\ 0 <= m /\ m - 0 = m
    BY <1>2, <1>4
  <2>2. edge[0] <= edge[m] + InBatches(m - 0)
    BY <1>3, <1>4, <2>1
  <2>. DEFINE d == InBatches(m)
  <2>3. d \in Nat /\ d <= AllListed /\ AllListed \in Nat
    BY <1>4, Spans
  <2>4. edge[0] <= edge[m] + d /\ edge[0] \in Nat /\ edge[m] \in Nat
    BY <1>3, <1>4, <2>1, <2>2
  <2>. HIDE DEF d
  <2>. QED
    BY <1>1, <1>4, <2>3, <2>4
<1>7. j <= edge[0]
  <2>1. edge[m - 1] <= edge[0] /\ edge[m - 1] \in Nat /\ edge[0] \in Nat
    BY <1>2, <1>3, <1>4, EdgesSpan
  <2>. QED
    BY <1>1, <1>4, <2>1
<1>8. MostAccepted > 0
  <2>1. edge[m - 1] <= edge[m] + MostAccepted /\ edge[m - 1] \in Nat /\ edge[m] \in Nat
    BY <1>3, <1>4, EdgesSpan
  <2>2. edge[m] < j /\ j <= edge[m - 1] /\ MostAccepted \in Nat
    BY <1>1, Spans
  <2>3. \A a, b, g \in Nat : a <= b + g /\ b < j /\ j <= a => g > 0
    BY <1>4
  <2>. QED
    BY <2>1, <2>2, <2>3
<1>. QED
  BY <1>5, <1>6, <1>7, <1>8

\* What is behind a queued job is queued too, so there is not much of it.
LEMMA QueuedBehind ==
  ASSUME NEW edge, NEW q, Marking(edge, q), NEW j \in BulkIds, q[j].status = "queued"
  PROVE  j <= edge[0] /\ edge[0] < j + QueueRoom
<1>. DEFINE e == edge[0]
<1>1. e \in 0..MaxBulkJobs /\ {i \in BulkIds : q[i].status # "none"} = 1..e
  <2>1. 0 \in 0..Len(batches)
    BY LenProperties DEF Marking
  <2>. QED
    BY <2>1, EdgesSpan DEF Marking, EdgesOK
<1>2. j \in 1..e
  <2>1. j \in {i \in BulkIds : q[i].status # "none"}
    OBVIOUS
  <2>. QED
    BY <1>1, <2>1
<1>. HIDE DEF e
<1>3. \A i \in j..e : i \in Unfinished(q)
  <2>. SUFFICES ASSUME NEW i \in j..e PROVE i \in Unfinished(q)
    OBVIOUS
  <2>1. i \in 1..e /\ (i = j \/ j < i)
    BY <1>1, <1>2
  <2>2. i \in BulkIds /\ q[i].status # "none"
    BY <1>1, <2>1
  <2>3. q[i].status = "queued"
    BY <2>1, <2>2 DEF Marking, QueueOK
  <2>. QED
    BY <2>2, <2>3 DEF Unfinished
<1>4. IsFiniteSet(Unfinished(q)) /\ Cardinality(Unfinished(q)) \in Nat
  <2>1. IsFiniteSet(BulkIds)
    BY FS_Interval, BulkAssumption DEF BulkIds
  <2>. QED
    BY <2>1, FS_Subset, FS_CardinalityType DEF Unfinished
<1>5. Cardinality(j..e) = e - j + 1
  <2>1. j \in Int /\ e \in Int /\ ~(j > e)
    BY <1>1, <1>2
  <2>. QED
    BY <2>1, FS_Interval
<1>6. Cardinality(j..e) <= Cardinality(Unfinished(q))
  BY <1>3, <1>4, FS_Subset
<1>7. Cardinality(Unfinished(q)) <= QueueRoom /\ QueueRoom \in Nat
  BY BulkAssumption DEF Marking
<1>8. e < j + QueueRoom
  BY <1>1, <1>2, <1>4, <1>5, <1>6, <1>7
<1>. QED
  BY <1>1, <1>2, <1>8 DEF e

\* One more mark fits the table, but for the oldest.
LEMMA MarkAppended ==
  ASSUME NEW edge, NEW q, Marking(edge, q), NEW ms, MarksOK(ms, edge, q),
         NEW j \in BulkIds, Listed(j, edge), j \notin ToSet(ms)
  PROVE  MarksOK(Append(ms, j), edge, q)
<1>. DEFINE all == Append(ms, j)
            l == Len(ms) + 1
<1>1. ms \in Seq(BulkIds) /\ Len(ms) \in Nat /\ DOMAIN ms = 1..Len(ms)
  BY LenProperties DEF MarksOK
<1>2. /\ all \in Seq(BulkIds) /\ DOMAIN all = 1..l /\ l \in DOMAIN all /\ all[l] = j
      /\ \A i \in DOMAIN ms : i \in DOMAIN all /\ all[i] = ms[i]
      /\ \A i \in DOMAIN all : i = l \/ (i \in DOMAIN ms /\ i < l)
  BY <1>1, AppendProperties
<1>3. \A i \in DOMAIN ms : ms[i] # j /\ i < l /\ ms[i] \in BulkIds
  <2>1. \A i \in DOMAIN ms : ms[i] \in ToSet(ms)
    BY DEF ToSet
  <2>2. \A i \in DOMAIN ms : ms[i] \in BulkIds
    BY <1>1, ElementOfSeq
  <2>. QED
    BY <1>1, <2>1, <2>2
<1>. HIDE DEF all, l
<1>4. \A a, b \in DOMAIN all : all[a] = all[b] => a = b
  <2>1. \A a, b \in DOMAIN ms : ms[a] = ms[b] => a = b
    BY DEF MarksOK
  <2>. QED
    BY <1>2, <1>3, <2>1
<1>5. \A a \in DOMAIN all : all[a] <= edge[0]
  <2>1. j <= edge[0] /\ \A a \in DOMAIN ms : ms[a] <= edge[0]
    BY ListedBeside DEF MarksOK
  <2>. QED
    BY <1>2, <2>1
<1>6. l \in Nat /\ \A a, b \in DOMAIN all : a < b => a \in DOMAIN ms /\ (b = l \/ b \in DOMAIN ms)
  <2>1. l \in Nat
    BY <1>1 DEF l
  <2>2. \A b \in DOMAIN all : b \in 1..l
    BY <1>2
  <2>. QED
    BY <1>2, <2>1, <2>2
<1>7. ASSUME NEW a \in DOMAIN all, NEW b \in DOMAIN all, NEW n \in DOMAIN batches, a < b,
             edge[n] < all[a], all[a] <= edge[n - 1]
      PROVE  edge[n] < all[b] + Beside /\ all[b] <= edge[n - 1] + Beside
  <2>1. a \in DOMAIN ms /\ all[a] = ms[a]
    BY <1>2, <1>6, <1>7
  <2>2. CASE b = l
    BY <1>2, <2>2, ListedBeside
  <2>3. CASE b \in DOMAIN ms
    <3>1. all[b] = ms[b]
      BY <1>2, <2>3
    <3>2. edge[n] < ms[b] + Beside /\ ms[b] <= edge[n - 1] + Beside
      BY <1>7, <2>1, <2>3 DEF MarksOK
    <3>. QED
      BY <3>1, <3>2
  <2>. QED
    BY <1>6, <1>7, <2>2, <2>3
<1>8. ASSUME NEW a \in DOMAIN all, NEW b \in DOMAIN all, a < b, q[all[a]].status = "queued"
      PROVE  all[a] < all[b] + AllListed
  <2>1. a \in DOMAIN ms /\ all[a] = ms[a] /\ ms[a] \in BulkIds
    BY <1>2, <1>3, <1>6, <1>8
  <2>2. CASE b = l
    <3>1. ms[a] <= edge[0] /\ edge[0] < j + AllListed
      BY <1>8, <2>1, QueuedBehind, ListedBeside
    <3>2. ms[a] \in Nat /\ edge[0] \in Nat /\ j \in Nat /\ AllListed \in Nat
      <4>1. 0 \in 0..Len(batches)
        BY LenProperties DEF Marking
      <4>2. edge[0] \in 0..MaxBulkJobs
        BY <4>1, EdgesSpan
      <4>3. ms[a] \in Nat /\ j \in Nat
        BY <2>1 DEF BulkIds
      <4>. QED
        BY <4>2, <4>3, Spans
    <3>. QED
      BY <1>2, <2>1, <2>2, <3>1, <3>2
  <2>3. CASE b \in DOMAIN ms
    <3>1. ms[a] < ms[b] + AllListed
      BY <1>8, <2>1, <2>3 DEF MarksOK
    <3>. QED
      BY <1>2, <2>1, <2>3, <3>1
  <2>. QED
    BY <1>6, <1>8, <2>2, <2>3
<1>9. MarksOK(all, edge, q)
  BY <1>2, <1>4, <1>5, <1>7, <1>8 DEF MarksOK
<1>. QED
  BY <1>9 DEF all

\* The oldest mark of a full table is of no listed batch and of no queued job.
LEMMA OldestMayGo ==
  ASSUME NEW edge, NEW q, Marking(edge, q), NEW ms, MarksOK(ms, edge, q),
         Len(ms) > MaxMarkers, NEW j \in ToSet(ms), Listed(j, edge)
  PROVE  Len(ms) > 0 /\ ~Listed(ms[1], edge) /\ q[ms[1]].status # "queued"
<1>1. /\ ms \in Seq(BulkIds) /\ Len(ms) \in Nat /\ DOMAIN ms = 1..Len(ms)
      /\ \A i \in DOMAIN ms : ms[i] \in BulkIds /\ ms[i] \in Nat
  <2>1. ms \in Seq(BulkIds)
    BY DEF MarksOK
  <2>2. Len(ms) \in Nat /\ DOMAIN ms = 1..Len(ms)
    BY <2>1, LenProperties
  <2>3. \A i \in DOMAIN ms : ms[i] \in BulkIds
    BY <2>1, <2>2, ElementOfSeq
  <2>4. BulkIds \subseteq Nat
    BY DEF BulkIds
  <2>. QED
    BY <2>1, <2>2, <2>3, <2>4
<1>2. MaxMarkers \in Nat /\ QueueRoom \in Nat
  BY BulkAssumption
<1>3. 1 \in DOMAIN ms /\ Len(ms) > 0
  BY <1>1, <1>2
<1>. DEFINE x == ms[1]
<1>4. x \in BulkIds /\ x \in Nat
  BY <1>1, <1>3
<1>5. /\ MostAccepted \in Nat /\ Beside \in Nat /\ AllListed \in Nat
      /\ Beside + MostAccepted = AllListed
      /\ AllListed + Beside <= MaxMarkers /\ AllListed + QueueRoom <= MaxMarkers
  BY Spans DEF Marking
<1>6. MostAccepted > 0
  <2>1. j \in BulkIds
    BY <1>1 DEF ToSet
  <2>. QED
    BY <2>1, ListedBeside
<1>7. ms \in Seq(Int) /\ \A a, b \in DOMAIN ms : ms[a] = ms[b] => a = b
  <2>1. BulkIds \subseteq Int
    BY DEF BulkIds
  <2>. QED
    BY <1>1, <2>1 DEF MarksOK
<1>. HIDE DEF x
<1>8. ~Listed(x, edge)
  <2>. SUFFICES ASSUME NEW n \in DOMAIN batches, edge[n] < x, x <= edge[n - 1]
                PROVE  FALSE
    BY DEF Listed
  <2>. DEFINE e == edge[n]
              f == edge[n - 1]
  <2>1. e \in Nat /\ f \in Nat /\ f <= e + MostAccepted
    BY EdgesSpan
  <2>2. ASSUME NEW i \in DOMAIN ms PROVE e < ms[i] + Beside /\ ms[i] <= f + Beside
    <3>1. CASE i = 1
      <4>1. e < x /\ x <= f /\ ms[i] = x
        BY <3>1 DEF x
      <4>. HIDE DEF e, f
      <4>. QED
        BY <1>4, <1>5, <2>1, <4>1
    <3>2. CASE i # 1
      <4>1. 1 < i
        BY <1>1, <3>2
      <4>. QED
        BY <1>3, <4>1 DEF MarksOK, x
    <3>. QED
      BY <3>1, <3>2
  <2>. HIDE DEF e, f
  <2>3. e - Beside \in Int /\ f + Beside \in Int
        /\ \A i \in DOMAIN ms : e - Beside < ms[i] /\ ms[i] <= f + Beside
    BY <1>1, <1>5, <2>1, <2>2
  <2>4. Len(ms) <= (f + Beside) - (e - Beside)
    <3>. DEFINE lo == e - Beside
                hi == f + Beside
    <3>1. lo \in Int /\ hi \in Int /\ \A i \in DOMAIN ms : lo < ms[i] /\ ms[i] <= hi
      BY <2>3
    <3>. HIDE DEF lo, hi
    <3>2. Len(ms) <= hi - lo
      BY <1>3, <1>7, <3>1, SpanCount
    <3>. QED
      BY <3>2 DEF lo, hi
  <2>. QED
    BY <1>1, <1>2, <1>5, <2>1, <2>4
<1>9. q[x].status # "queued"
  <2>. SUFFICES ASSUME q[x].status = "queued" PROVE FALSE
    OBVIOUS
  <2>. DEFINE f == edge[0]
  <2>1. f \in Nat /\ f < x + QueueRoom
    <3>1. 0 \in 0..Len(batches)
      BY LenProperties DEF Marking
    <3>. QED
      BY <1>4, <3>1, EdgesSpan, QueuedBehind
  <2>2. ASSUME NEW i \in DOMAIN ms PROVE x < ms[i] + AllListed /\ ms[i] <= f
    <3>1. ms[i] <= f
      BY DEF MarksOK
    <3>2. CASE i = 1
      BY <1>4, <1>5, <1>6, <3>1, <3>2 DEF x
    <3>3. CASE i # 1
      <4>1. 1 < i
        BY <1>1, <3>3
      <4>. QED
        BY <1>3, <3>1, <4>1 DEF MarksOK, x
    <3>. QED
      BY <3>2, <3>3
  <2>. HIDE DEF f
  <2>3. x - AllListed \in Int /\ f \in Int
        /\ \A i \in DOMAIN ms : x - AllListed < ms[i] /\ ms[i] <= f
    BY <1>1, <1>4, <1>5, <2>1, <2>2
  <2>4. Len(ms) <= f - (x - AllListed)
    <3>. DEFINE lo == x - AllListed
    <3>1. lo \in Int /\ f \in Int /\ \A i \in DOMAIN ms : lo < ms[i] /\ ms[i] <= f
      BY <2>3
    <3>. HIDE DEF lo
    <3>2. Len(ms) <= f - lo
      BY <1>3, <1>7, <3>1, SpanCount
    <3>. QED
      BY <3>2 DEF lo
  <2>. QED
    BY <1>1, <1>2, <1>4, <1>5, <2>1, <2>4
<1>. QED
  BY <1>1, <1>2, <1>8, <1>9 DEF x

\* The marks that may not go.
Needed(j, edge, q) == Listed(j, edge) \/ q[j].status = "queued"

LEMMA MarkTurn ==
  ASSUME NEW edge, NEW q, Marking(edge, q), NEW ms, MarksOK(ms, edge, q), Len(ms) <= MaxMarkers,
         NEW j \in BulkIds, Listed(j, edge)
  PROVE  /\ MarksOK(Marks(ms, j), edge, q) /\ Len(Marks(ms, j)) <= MaxMarkers
         /\ j \in ToSet(Marks(ms, j))
         /\ \A x \in ToSet(ms) : Needed(x, edge, q) => x \in ToSet(Marks(ms, j))
<1>0. j # NoJob
  BY DEF BulkIds, NoJob
<1>1. CASE j \in ToSet(ms)
  <2>1. Marks(ms, j) = ms
    BY <1>1 DEF Marks
  <2>. QED
    BY <1>1, <2>1
<1>2. CASE j \notin ToSet(ms)
  <2>. DEFINE all == Append(ms, j)
  <2>1. MarksOK(all, edge, q)
    BY <1>2, MarkAppended
  <2>2. ms \in Seq(BulkIds) /\ Len(ms) \in Nat /\ MaxMarkers \in Nat
    BY LenProperties, BulkAssumption DEF MarksOK
  <2>3. /\ all \in Seq(BulkIds) /\ Len(all) = Len(ms) + 1 /\ DOMAIN all = 1..Len(all)
        /\ all[Len(all)] = j /\ \A i \in DOMAIN ms : i \in DOMAIN all /\ all[i] = ms[i]
    BY <2>2, AppendProperties, LenProperties
  <2>4. Marks(ms, j) = IF Len(all) > MaxMarkers THEN Tail(all) ELSE all
    BY <1>0, <1>2 DEF Marks
  <2>5. Len(all) \in DOMAIN all
    BY <2>2, <2>3
  <2>6. j \in ToSet(all) /\ ToSet(ms) \subseteq ToSet(all)
    BY <2>3, <2>5 DEF ToSet
  <2>. HIDE DEF all
  <2>7. CASE ~(Len(all) > MaxMarkers)
    <3>1. Marks(ms, j) = all /\ Len(all) <= MaxMarkers
      BY <2>2, <2>3, <2>4, <2>7
    <3>. QED
      BY <2>1, <2>6, <3>1
  <2>8. CASE Len(all) > MaxMarkers
    <3>. DEFINE t == Tail(all)
    <3>1. Len(all) > 0 /\ ~Listed(all[1], edge) /\ q[all[1]].status # "queued"
      BY <2>1, <2>6, <2>8, OldestMayGo
    <3>2. /\ t \in Seq(BulkIds) /\ Len(t) = Len(all) - 1 /\ DOMAIN t = 1..Len(t)
          /\ \A i \in 1..Len(t) : t[i] = all[i + 1]
      <4>1. all # <<>>
        BY <2>2, <2>3
      <4>. QED
        BY <2>3, <4>1, HeadTailProperties, LenProperties
    <3>3. \A i \in DOMAIN t : i + 1 \in DOMAIN all /\ t[i] = all[i + 1] /\ i \in Int
      BY <2>2, <2>3, <3>2
    <3>4. \A i \in DOMAIN all : i = 1 \/ (i - 1 \in DOMAIN t /\ t[i - 1] = all[i])
      <4>. SUFFICES ASSUME NEW i \in DOMAIN all, i # 1
                    PROVE  i - 1 \in DOMAIN t /\ t[i - 1] = all[i]
        OBVIOUS
      <4>1. i - 1 \in 1..Len(t) /\ (i - 1) + 1 = i
        BY <2>2, <2>3, <3>2
      <4>. HIDE DEF t
      <4>. QED
        BY <3>2, <4>1
    <3>. HIDE DEF t
    <3>5. MarksOK(t, edge, q)
      <4>1. \A a, b \in DOMAIN t : t[a] = t[b] => a = b
        <5>1. \A a, b \in DOMAIN all : all[a] = all[b] => a = b
          BY <2>1 DEF MarksOK
        <5>. SUFFICES ASSUME NEW a \in DOMAIN t, NEW b \in DOMAIN t, t[a] = t[b] PROVE a = b
          OBVIOUS
        <5>2. a + 1 = b + 1
          BY <3>3, <5>1
        <5>. QED
          BY <3>3, <5>2
      <4>2. \A a \in DOMAIN t : t[a] <= edge[0]
        BY <2>1, <3>3 DEF MarksOK
      <4>3. \A a, b \in DOMAIN t : a < b => a + 1 < b + 1
        BY <3>3
      <4>4. ASSUME NEW a \in DOMAIN t, NEW b \in DOMAIN t, NEW n \in DOMAIN batches, a < b,
                   edge[n] < t[a], t[a] <= edge[n - 1]
            PROVE  edge[n] < t[b] + Beside /\ t[b] <= edge[n - 1] + Beside
        BY <2>1, <3>3, <4>3, <4>4 DEF MarksOK
      <4>5. ASSUME NEW a \in DOMAIN t, NEW b \in DOMAIN t, a < b, q[t[a]].status = "queued"
            PROVE  t[a] < t[b] + AllListed
        BY <2>1, <3>3, <4>3, <4>5 DEF MarksOK
      <4>. QED
        BY <3>2, <4>1, <4>2, <4>4, <4>5 DEF MarksOK
    <3>6. \A x \in ToSet(all) : Needed(x, edge, q) => x \in ToSet(t)
      <4>. SUFFICES ASSUME NEW i \in DOMAIN all, Needed(all[i], edge, q)
                    PROVE  all[i] \in ToSet(t)
        BY DEF ToSet
      <4>1. i # 1
        BY <3>1 DEF Needed
      <4>. QED
        BY <3>4, <4>1 DEF ToSet
    <3>7. Marks(ms, j) = t /\ Len(t) <= MaxMarkers
      BY <2>2, <2>3, <2>4, <2>8, <3>2 DEF t
    <3>8. Needed(j, edge, q)
      BY DEF Needed
    <3>. QED
      BY <2>6, <3>5, <3>6, <3>7, <3>8
  <2>. QED
    BY <2>7, <2>8
<1>. QED
  BY <1>1, <1>2

\* Marking a batch, one job after another, marks all of it and forgets nothing needed.
BatchMarks(items, k, ms, edge, q) ==
  /\ MarksOK(ms, edge, q) /\ Len(ms) <= MaxMarkers
  /\ \A i \in DOMAIN items : i <= k /\ items[i].job # NoJob => items[i].job \in ToSet(ms)
  /\ \A x \in ToSet(marked) : Needed(x, edge, q) => x \in ToSet(ms)

LEMMA MarkedInTurn ==
  ASSUME NEW edge, NEW q, Marking(edge, q), MarksOK(marked, edge, q), Len(marked) <= MaxMarkers,
         NEW items \in Seq(ItemRecord),
         \A k \in DOMAIN items : items[k].job # NoJob => Listed(items[k].job, edge)
  PROVE  BatchMarks(items, Len(items), MarksWith(items), edge, q)
<1>. DEFINE n == Len(items)
            eq(g) == g = [k \in 0..n |-> IF k = 0 THEN marked ELSE Marks(g[k - 1], items[k].job)]
            e == CHOOSE g : eq(g)
            X == Seq(BulkIds)
<1>0. n \in Nat /\ DOMAIN items = 1..n /\ marked \in X
  BY LenProperties DEF MarksOK
<1>1. MarksWith(items) = e[n]
  BY Zenon DEF MarksWith
<1>. HIDE DEF n
<1>2. \A k \in DOMAIN items : items[k].job \in BulkIds \cup {NoJob}
  <2>1. \A k \in DOMAIN items : items[k] \in ItemRecord
    BY <1>0, ElementOfSeq DEF n
  <2>. QED
    BY <2>1 DEF ItemRecord
<1>3. \A k \in 1..n, ms \in X : Marks(ms, items[k].job) \in X
  <2>. SUFFICES ASSUME NEW k \in 1..n, NEW ms \in X, items[k].job # NoJob
                PROVE  Marks(ms, items[k].job) \in X
    BY DEF Marks
  <2>. DEFINE all == Append(ms, items[k].job)
  <2>1. all \in X /\ all # <<>>
    <3>1. items[k].job \in BulkIds /\ ms \in Seq(BulkIds)
      BY <1>0, <1>2
    <3>. QED
      BY <3>1, AppendProperties
  <2>2. Tail(all) \in X
    BY <2>1, HeadTailProperties
  <2>. QED
    BY <2>1, <2>2 DEF Marks
<1>4. \E g : eq(g)
  <2>. DEFINE step == [k \in 1..n |-> [ms \in X |-> Marks(ms, items[k].job)]]
  <2>. HIDE DEF X
  <2>1. \A k \in 1..n, ms \in X : step[k][ms] \in X /\ step[k][ms] = Marks(ms, items[k].job)
    BY <1>3
  <2>. HIDE DEF step
  <2>2. \A k \in 1..n, ms \in X : step[k][ms] \in X
    BY <2>1
  <2>3. Loop(X, marked, n, step)
    BY <1>0, <2>2 DEF Loop
  <2>4. PICK g : LoopRun(X, marked, n, step, g)
    BY <2>3, LoopExists
  <2>5. g \in [0..n -> X] /\ g[0] = marked
    BY <2>4 DEF LoopRun
  <2>6. ASSUME NEW k \in 1..n PROVE g[k] = Marks(g[k - 1], items[k].job)
    <3>1. k - 1 \in 0..n /\ g[k] = step[k][g[k - 1]]
      BY <1>0, <2>4 DEF LoopRun
    <3>. QED
      BY <2>1, <2>5, <3>1
  <2>7. eq(g)
    BY <1>0, <2>5, <2>6
  <2>. QED
    BY <2>7
<1>5. eq(e)
  BY <1>4, Zenon
<1>. HIDE DEF e
<1>6. e[0] = marked /\ \A k \in 1..n : e[k] = Marks(e[k - 1], items[k].job)
  BY <1>0, <1>5
<1>. DEFINE S == {k \in 0..n : BatchMarks(items, k, e[k], edge, q)}
<1>7. 0 \in S
  <2>1. \A i \in DOMAIN items : ~(i <= 0)
    BY <1>0
  <2>. QED
    BY <1>0, <1>6, <2>1 DEF BatchMarks
<1>8. ASSUME NEW k \in 0..(n - 1), k \in S PROVE k + 1 \in S
  <2>1. BatchMarks(items, k, e[k], edge, q)
    BY <1>8
  <2>2. /\ k + 1 \in 1..n /\ k + 1 \in DOMAIN items /\ k + 1 \in 0..n
        /\ e[k + 1] = Marks(e[k], items[k + 1].job)
    <3>1. k + 1 \in 1..n /\ k + 1 - 1 = k /\ k + 1 \in 0..n
      BY <1>0
    <3>. QED
      BY <1>0, <1>6, <3>1
  <2>3. \A i \in DOMAIN items : i <= k + 1 => i <= k \/ i = k + 1
    BY <1>0
  <2>. DEFINE j == items[k + 1].job
  <2>4. CASE j = NoJob
    <3>1. e[k + 1] = e[k]
      BY <2>2, <2>4 DEF Marks
    <3>2. BatchMarks(items, k + 1, e[k], edge, q)
      <4>1. \A i \in DOMAIN items : i <= k + 1 /\ items[i].job # NoJob => items[i].job \in ToSet(e[k])
        BY <2>1, <2>3, <2>4 DEF BatchMarks
      <4>. QED
        BY <2>1, <4>1 DEF BatchMarks
    <3>. QED
      BY <2>2, <3>1, <3>2
  <2>5. CASE j # NoJob
    <3>1. j \in BulkIds /\ Listed(j, edge)
      BY <1>2, <2>2, <2>5
    <3>. HIDE DEF j
    <3>. DEFINE m == e[k]
                t == e[k + 1]
    <3>2. MarksOK(m, edge, q) /\ Len(m) <= MaxMarkers
      BY <2>1 DEF BatchMarks
    <3>3. t = Marks(m, j)
      BY <2>2 DEF j
    <3>. HIDE DEF m, t
    <3>4. /\ MarksOK(t, edge, q) /\ Len(t) <= MaxMarkers /\ j \in ToSet(t)
          /\ \A x \in ToSet(m) : Needed(x, edge, q) => x \in ToSet(t)
      BY <3>1, <3>2, <3>3, MarkTurn
    <3>5. \A i \in DOMAIN items : i <= k + 1 /\ items[i].job # NoJob => items[i].job \in ToSet(t)
      <4>. SUFFICES ASSUME NEW i \in DOMAIN items, i <= k + 1, items[i].job # NoJob
                    PROVE  items[i].job \in ToSet(t)
        OBVIOUS
      <4>1. CASE i <= k
        <5>1. items[i].job \in ToSet(m)
          BY <2>1, <4>1 DEF BatchMarks, m
        <5>2. Needed(items[i].job, edge, q)
          BY DEF Needed
        <5>. QED
          BY <3>4, <5>1, <5>2
      <4>2. CASE i = k + 1
        BY <3>4, <4>2 DEF j
      <4>. QED
        BY <2>3, <4>1, <4>2
    <3>6. \A x \in ToSet(marked) : Needed(x, edge, q) => x \in ToSet(t)
      BY <2>1, <3>4 DEF BatchMarks, m
    <3>7. BatchMarks(items, k + 1, t, edge, q)
      BY <3>4, <3>5, <3>6 DEF BatchMarks
    <3>. QED
      BY <2>2, <3>7 DEF t
  <2>. QED
    BY <2>4, <2>5
<1>9. n \in S
  <2>. HIDE DEF S
  <2>1. \A k \in 0..n : k \in S
    BY <1>0, <1>7, <1>8, CountUp
  <2>. QED
    BY <1>0, <2>1
<1>. QED
  BY <1>1, <1>9 DEF n

\* What may become of the jobs: a job keeps its command, and its key until it is pruned;
\* it never starts over, nor forgets that it was cancelled.
Onward(q, r) ==
  \A j \in BulkIds : q[j].status # "none" =>
    /\ r[j].status # "none" /\ r[j].command = q[j].command
    /\ r[j].status = "pruned" \/ (r[j].key = q[j].key /\ q[j].status # "pruned")
    /\ j \in Unfinished(r) => j \in Unfinished(q) /\ (q[j].told # "no" => r[j].told # "no")

LEMMA ItemJobs ==
  ASSUME NEW items \in Seq(ItemRecord), NEW k \in DOMAIN items, items[k].job # NoJob
  PROVE  items[k].job \in BulkIds
<1>1. items[k] \in ItemRecord
  <2>1. k \in 1..Len(items)
    BY LenProperties
  <2>. QED
    BY <2>1, ElementOfSeq
<1>. QED
  BY <1>1 DEF ItemRecord

LEMMA OwnedStill ==
  ASSUME NEW q, NEW r, Onward(q, r), NEW items, Owned(items, q)
  PROVE  Owned(items, r)
<1>1. \A k \in DOMAIN items : items[k].job # NoJob => items[k].job \in BulkIds
  BY ItemJobs DEF Owned
<1>. QED
  BY <1>1 DEF Owned, Onward

LEMMA ImporterStill ==
  ASSUME NEW q, NEW r, Onward(q, r), NEW i, ImporterOK(i, q)
  PROVE  ImporterOK(i, r)
<1>1. \A k \in DOMAIN i.items : i.items[k].job # NoJob =>
        i.items[k].job \in BulkIds /\ q[i.items[k].job].status # "none"
  BY ItemJobs DEF Owned, ImporterOK
<1>2. Owned(i.items, r)
  BY OwnedStill DEF ImporterOK
<1>3. ASSUME i.at = "importing" PROVE ImportingOK(i, r)
  <2>1. ImportingOK(i, q)
    BY <1>3 DEF ImporterOK
  <2>2. ASSUME NEW k \in DOMAIN i.items, i.items[k].job # NoJob
        PROVE  r[i.items[k].job].status = "pruned" \/ r[i.items[k].job].key = PlaceKey(i.key, k)
    <3>. DEFINE j == i.items[k].job
    <3>1. j \in BulkIds /\ q[j].status # "none"
      BY <1>1, <2>2
    <3>2. q[j].status = "pruned" \/ q[j].key = PlaceKey(i.key, k)
      BY <2>1, <2>2 DEF ImportingOK
    <3>. HIDE DEF j
    <3>3. r[j].status = "pruned" \/ (r[j].key = q[j].key /\ q[j].status # "pruned")
      BY <3>1 DEF Onward
    <3>4. r[j].status = "pruned" \/ r[j].key = PlaceKey(i.key, k)
      BY <3>2, <3>3
    <3>. QED
      BY <3>4 DEF j
  <2>. QED
    BY <2>1, <2>2 DEF ImportingOK
<1>4. ASSUME i.at = "cancelling" PROVE CancellingOK(i, r)
  <2>1. CancellingOK(i, q)
    BY <1>4 DEF ImporterOK
  <2>2. ASSUME NEW k \in 1..(i.next - 1), i.items[k].job # NoJob
        PROVE  i.items[k].job \notin Unfinished(r) \/ r[i.items[k].job].told # "no"
    <3>1. k \in DOMAIN i.items
      <4>1. i.items \in Seq(ItemRecord) /\ i.next \in Nat /\ i.next <= Len(i.items) + 1
        BY <2>1 DEF ImporterOK, ImporterRecord, Owned, CancellingOK
      <4>2. DOMAIN i.items = 1..Len(i.items) /\ Len(i.items) \in Nat
        BY <4>1, LenProperties
      <4>. QED
        BY <4>1, <4>2
    <3>. DEFINE j == i.items[k].job
    <3>2. j \in BulkIds /\ q[j].status # "none"
      BY <1>1, <2>2, <3>1
    <3>3. j \notin Unfinished(q) \/ q[j].told # "no"
      BY <2>1, <2>2 DEF CancellingOK
    <3>. HIDE DEF j
    <3>4. j \notin Unfinished(r) \/ r[j].told # "no"
      BY <3>2, <3>3 DEF Onward
    <3>. QED
      BY <3>4 DEF j
  <2>. QED
    BY <2>1, <2>2 DEF CancellingOK
<1>. QED
  BY <1>2, <1>3, <1>4 DEF ImporterOK

LEMMA ToldRecord ==
  ASSUME NEW r \in BulkJob
  PROVE  /\ Told(r) \in BulkJob
         /\ Told(r).status = r.status /\ Told(r).key = r.key
         /\ Told(r).command = r.command /\ Told(r).began = r.began
         /\ r.told # "no" => Told(r).told = r.told
         /\ Told(r).told = "queued" => r.told = "queued" \/ r.status = "queued"
         /\ Told(r).told = "no" => r.status = "pruned"
         /\ r.status = "pruned" => Told(r) = r
BY DEF Told, BulkJob

\* The statuses and nothing else are what the table of marks is about.
LEMMA StatusesOnly ==
  ASSUME NEW edge, NEW q, NEW r, \A j \in BulkIds : q[j].status = r[j].status,
         NEW ms, MarksOK(ms, edge, q)
  PROVE  MarksOK(ms, edge, r)
<1>1. \A a \in DOMAIN ms : ms[a] \in BulkIds
  <2>1. ms \in Seq(BulkIds) /\ DOMAIN ms = 1..Len(ms)
    BY LenProperties DEF MarksOK
  <2>. QED
    BY <2>1, ElementOfSeq
<1>. QED
  BY <1>1 DEF MarksOK

LEMMA MemoryCancelKeeps ==
  ASSUME BulkInv, NEW n, CancelInMemory(n)
  PROVE  BulkInv'
<1>1. /\ ~persistent /\ n \in DOMAIN batches /\ marked' = MarksWith(batches[n])
      /\ bulkJob' = [j \in BulkIds |-> IF \E k \in DOMAIN batches[n] : batches[n][k].job = j
                                      THEN Told(bulkJob[j]) ELSE bulkJob[j]]
      /\ persistent' = persistent /\ batches' = batches /\ importer' = importer
  BY DEF CancelInMemory
<1>. DEFINE items == batches[n]
            Named(j) == \E k \in DOMAIN items : items[k].job = j
<1>2. items \in Seq(ItemRecord) /\ Owned(items, bulkJob)
  BY <1>1 DEF BulkInv, Owned
<1>3. /\ bulkJob' = [j \in BulkIds |-> IF Named(j) THEN Told(bulkJob[j]) ELSE bulkJob[j]]
      /\ marked' = MarksWith(items)
  BY <1>1
<1>4. \A j \in BulkIds : Named(j) => bulkJob[j].status # "none"
  <2>1. \A j \in BulkIds : j # NoJob
    BY DEF BulkIds, NoJob
  <2>. QED
    BY <1>2, <2>1 DEF Owned
<1>. HIDE DEF items, Named
<1>5. \A j \in BulkIds : bulkJob[j] \in BulkJob /\ BulkJobOK(bulkJob[j])
  BY DEF BulkInv
<1>6. /\ \A j \in BulkIds : bulkJob'[j] = IF Named(j) THEN Told(bulkJob[j]) ELSE bulkJob[j]
      /\ bulkJob' \in [BulkIds -> BulkJob]
  BY <1>3, <1>5, ToldRecord
<1>7. \A j \in BulkIds : /\ bulkJob'[j].status = bulkJob[j].status
                         /\ bulkJob'[j].key = bulkJob[j].key
                         /\ bulkJob'[j].command = bulkJob[j].command
                         /\ bulkJob'[j].began = bulkJob[j].began
                         /\ bulkJob[j].told # "no" => bulkJob'[j].told = bulkJob[j].told
  BY <1>5, <1>6, ToldRecord
<1>8. ASSUME NEW j \in BulkIds PROVE BulkJobOK(bulkJob'[j])
  <2>1. CASE ~Named(j)
    BY <1>1, <1>5, <1>6, <2>1 DEF BulkJobOK
  <2>2. CASE Named(j)
    <3>1. bulkJob'[j] = Told(bulkJob[j]) /\ bulkJob[j].status # "none"
      BY <1>4, <1>6, <2>2
    <3>2. /\ Told(bulkJob[j]).told = "queued" =>
               bulkJob[j].told = "queued" \/ bulkJob[j].status = "queued"
          /\ Told(bulkJob[j]) \in BulkJob
      BY <1>5, ToldRecord
    <3>. QED
      BY <1>1, <1>5, <1>7, <3>1, <3>2 DEF BulkJobOK
  <2>. QED
    BY <2>1, <2>2
<1>9. Unfinished(bulkJob') = Unfinished(bulkJob)
  BY <1>7 DEF Unfinished
<1>10. Onward(bulkJob, bulkJob')
  <2>1. \A j \in BulkIds : bulkJob[j].status = "pruned" => bulkJob'[j].status = "pruned"
    BY <1>7
  <2>. QED
    BY <1>7, <1>9, <2>1 DEF Onward
<1>11. \A i \in DOMAIN batches : Owned(batches[i], bulkJob')
  BY <1>10, OwnedStill DEF BulkInv
<1>12. \A i \in Importers : ImporterOK(importer[i], bulkJob')
  BY <1>10, ImporterStill DEF BulkInv
<1>13. PICK edge \in [0..Len(batches) -> 0..MaxBulkJobs] :
         EdgesOK(edge, bulkJob) /\ MarksOK(marked, edge, bulkJob) /\ ToldOK(marked, bulkJob, edge)
  BY <1>1 DEF BulkInv, MemoryOK
<1>14. Manifests # {} /\ Len(marked) <= MaxMarkers
  <2>1. batches # <<>>
    BY <1>1
  <2>. QED
    BY <2>1 DEF BulkInv
<1>15. Marking(edge, bulkJob)
  BY <1>1, <1>13, <1>14 DEF BulkInv, MemoryOK, Marking
<1>16. \A k \in DOMAIN items : items[k].job # NoJob => Listed(items[k].job, edge)
  BY <1>1, <1>13 DEF EdgesOK, Listed, items
<1>17. BatchMarks(items, Len(items), marked', edge, bulkJob)
  BY <1>2, <1>3, <1>13, <1>14, <1>15, <1>16, MarkedInTurn
<1>18. MarksOK(marked', edge, bulkJob') /\ Len(marked') <= MaxMarkers /\ marked' \in Seq(BulkIds)
  <2>1. MarksOK(marked', edge, bulkJob) /\ Len(marked') <= MaxMarkers
    BY <1>17 DEF BatchMarks
  <2>2. \A j \in BulkIds : bulkJob[j].status = bulkJob'[j].status
    BY <1>7
  <2>3. MarksOK(marked', edge, bulkJob')
    BY <2>1, <2>2, StatusesOnly
  <2>. QED
    BY <2>1, <2>3 DEF MarksOK
<1>19. ToldOK(marked', bulkJob', edge)
  <2>. SUFFICES ASSUME NEW j \in BulkIds, bulkJob'[j].told # "no",
                       Listed(j, edge) \/ bulkJob'[j].status = "queued"
                PROVE  j \in ToSet(marked')
    BY DEF ToldOK
  <2>1. Needed(j, edge, bulkJob)
    BY <1>7 DEF Needed
  <2>2. CASE ~Named(j)
    <3>1. j \in ToSet(marked)
      BY <1>6, <1>13, <2>1, <2>2 DEF ToldOK, Needed
    <3>. QED
      BY <1>17, <2>1, <3>1 DEF BatchMarks
  <2>3. CASE Named(j)
    <3>1. PICK k \in DOMAIN items : items[k].job = j
      BY <2>3 DEF Named
    <3>2. k <= Len(items) /\ j # NoJob
      <4>1. DOMAIN items = 1..Len(items) /\ Len(items) \in Nat
        BY <1>2, LenProperties
      <4>. QED
        BY <3>1, <4>1 DEF BulkIds, NoJob
    <3>. QED
      BY <1>17, <3>1, <3>2 DEF BatchMarks
  <2>. QED
    BY <2>2, <2>3
<1>20. QueueOK(bulkJob') /\ EdgesOK(edge, bulkJob')
  <2>1. QueueOK(bulkJob)
    BY <1>1 DEF BulkInv, MemoryOK
  <2>2. QueueOK(bulkJob')
    BY <1>7, <2>1 DEF QueueOK
  <2>3. {j \in BulkIds : bulkJob'[j].status # "none"} = {j \in BulkIds : bulkJob[j].status # "none"}
    BY <1>7
  <2>. QED
    BY <1>13, <2>2, <2>3 DEF EdgesOK
<1>21. MemoryOK'
  <2>1. EdgesOK(edge, bulkJob)' /\ MarksOK(marked, edge, bulkJob)' /\ ToldOK(marked, bulkJob, edge)'
    <3>1. EdgesOK(edge, bulkJob)'
      BY <1>1, <1>20 DEF EdgesOK
    <3>2. MarksOK(marked, edge, bulkJob)'
      BY <1>1, <1>18 DEF MarksOK
    <3>3. ToldOK(marked, bulkJob, edge)'
      BY <1>1, <1>19 DEF ToldOK, Listed
    <3>. QED
      BY <3>1, <3>2, <3>3
  <2>2. QueueOK(bulkJob)'
    BY <1>20 DEF QueueOK
  <2>. QED
    BY <1>1, <1>13, <2>1, <2>2 DEF MemoryOK
<1>22. \A i \in Importers : ImporterOK(importer[i], bulkJob)'
  BY <1>1, <1>12 DEF ImporterOK
<1>23. \A i \in DOMAIN batches' : Owned(batches[i], bulkJob)'
  BY <1>1, <1>11
<1>24. \A j \in BulkIds : BulkJobOK(bulkJob[j])'
  BY <1>8 DEF BulkJobOK
<1>25. Cardinality(Unfinished(bulkJob)') <= QueueRoom
  BY <1>9 DEF BulkInv, Unfinished
<1>. QED
  BY <1>1, <1>6, <1>18, <1>21, <1>22, <1>23, <1>24, <1>25 DEF BulkInv

LEMMA KeptShape ==
  ASSUME batches \in Seq(Seq(ItemRecord)), Len(batches) <= MaxBatches, NEW b \in Seq(ItemRecord)
  PROVE  /\ KeptBatches(b) \in Seq(Seq(ItemRecord))
         /\ Len(KeptBatches(b)) \in 1..MaxBatches /\ Len(KeptBatches(b)) <= Len(batches) + 1
         /\ DOMAIN KeptBatches(b) = 1..Len(KeptBatches(b))
         /\ KeptBatches(b)[1] = b
         /\ \A n \in DOMAIN KeptBatches(b) : n # 1 =>
              n - 1 \in DOMAIN batches /\ KeptBatches(b)[n] = batches[n - 1]
<1>. DEFINE all == <<b>> \o batches
            l == IF Len(all) > MaxBatches THEN MaxBatches ELSE Len(all)
            kept == SubSeq(all, 1, l)
<1>1. Len(batches) \in Nat /\ DOMAIN batches = 1..Len(batches) /\ MaxBatches \in Nat \ {0}
  BY LenProperties, BulkAssumption
<1>2. <<b>> \in Seq(Seq(ItemRecord)) /\ Len(<<b>>) = 1 /\ <<b>>[1] = b
  OBVIOUS
<1>3. /\ all \in Seq(Seq(ItemRecord)) /\ Len(all) = 1 + Len(batches)
      /\ \A i \in 1..Len(all) : all[i] = IF i <= 1 THEN <<b>>[i] ELSE batches[i - 1]
  <2>1. /\ all \in Seq(Seq(ItemRecord)) /\ Len(all) = Len(<<b>>) + Len(batches)
        /\ \A i \in 1..(Len(<<b>>) + Len(batches)) :
             all[i] = IF i <= Len(<<b>>) THEN <<b>>[i] ELSE batches[i - Len(<<b>>)]
    BY <1>2, ConcatProperties
  <2>. QED
    BY <1>2, <2>1
<1>. HIDE DEF all
<1>4. l \in 1..Len(all) /\ l <= MaxBatches
  BY <1>1, <1>3
<1>. HIDE DEF l
<1>5. /\ kept \in Seq(Seq(ItemRecord)) /\ Len(kept) = l
      /\ \A i \in 1..l : kept[i] = all[i]
  <2>1. 1 \in 1..(Len(all) + 1) /\ l \in 0..Len(all) /\ l - 1 + 1 = l /\ 1 <= l
    BY <1>1, <1>3, <1>4
  <2>2. SubSeq(all, 1, l) \in Seq(Seq(ItemRecord))
    BY <1>3, <1>4, <2>1, SubSeqProperties
  <2>3. Len(SubSeq(all, 1, l)) = l
    BY <1>3, <1>4, <2>1, SubSeqProperties
  <2>4. \A i \in 1..l : SubSeq(all, 1, l)[i] = all[i]
    <3>1. \A i \in 1..l : 1 + i - 1 = i
      BY <1>3, <1>4
    <3>. QED
      BY <1>3, <1>4, <2>1, <3>1, SubSeqProperties
  <2>. QED
    BY <2>2, <2>3, <2>4
<1>6. KeptBatches(b) = kept
  BY DEF KeptBatches, all, l
<1>. HIDE DEF kept
<1>7. DOMAIN kept = 1..l
  BY <1>5, LenProperties
<1>8. kept[1] = b
  <2>1. 1 \in 1..l /\ 1 \in 1..Len(all)
    BY <1>1, <1>3, <1>4
  <2>2. all[1] = b
    BY <1>2, <1>3, <2>1
  <2>. QED
    BY <1>5, <2>1, <2>2
<1>9. ASSUME NEW n \in 1..l, n # 1 PROVE n - 1 \in DOMAIN batches /\ kept[n] = batches[n - 1]
  <2>1. n \in 1..Len(all) /\ ~(n <= 1) /\ n - 1 \in 1..Len(batches)
    BY <1>1, <1>3, <1>4, <1>9
  <2>. QED
    BY <1>1, <1>3, <1>5, <2>1
<1>. QED
  BY <1>1, <1>3, <1>4, <1>5, <1>6, <1>7, <1>8, <1>9

\* The numbers up to e are given out, and there are enough left for m.
Importable(m, e) ==
  /\ ~persistent /\ bulkJob \in [BulkIds -> BulkJob] /\ m \in Manifests
  /\ e \in 0..MaxBulkJobs /\ e + Len(m) <= MaxBulkJobs
  /\ {j \in BulkIds : bulkJob[j].status # "none"} = 1..e
  /\ Cardinality(Unfinished(bulkJob)) <= QueueRoom

\* After k commands a jobs have been made, with the numbers after e.
Taken(acc, k, a, e) ==
  /\ acc.jobs \in [BulkIds -> BulkJob]
  /\ acc.items \in Seq(ItemRecord) /\ Len(acc.items) = k /\ a \in 0..k
  /\ Cardinality(Unfinished(acc.jobs)) = Cardinality(Unfinished(bulkJob)) + a
  /\ Cardinality(Unfinished(acc.jobs)) <= QueueRoom
  /\ \A j \in BulkIds :
       IF e < j /\ j <= e + a THEN \E c \in AllCommands : acc.jobs[j] = NewJob(c, NoImportKey)
                              ELSE acc.jobs[j] = bulkJob[j]
  /\ \A i \in DOMAIN acc.items : acc.items[i].job # NoJob =>
       /\ e < acc.items[i].job /\ acc.items[i].job <= e + a
       /\ acc.jobs[acc.items[i].job].command = acc.items[i].command
       /\ \A o \in DOMAIN acc.items : acc.items[o].job = acc.items[i].job => o = i

LEMMA EarliestIs ==
  ASSUME NEW S \in SUBSET Nat, S # {}
  PROVE  Earliest(S) \in S /\ \A i \in S : Earliest(S) <= i
<1>1. \E j \in S : \A i \in S : j <= i
  BY Least
<1>. QED
  BY <1>1, Zenon DEF Earliest

LEMMA BulkIdsFinite ==
  /\ IsFiniteSet(BulkIds) /\ BulkIds \subseteq Nat
  /\ \A q : /\ IsFiniteSet(Unfinished(q)) /\ Unfinished(q) \subseteq BulkIds
            /\ Cardinality(Unfinished(q)) \in Nat
<1>1. IsFiniteSet(BulkIds) /\ BulkIds \subseteq Nat
  BY FS_Interval, BulkAssumption DEF BulkIds
<1>. QED
  BY <1>1, FS_Subset, FS_CardinalityType DEF Unfinished

\* A job is added that was not there, and is one more to do.
Adds(q, r, j, c, k) ==
  /\ q \in [BulkIds -> BulkJob] /\ j \in BulkIds /\ q[j].status = "none"
  /\ c \in AllCommands /\ k \in {NoImportKey} \cup (ImportKeys \X Nat)
  /\ r = [q EXCEPT ![j] = NewJob(c, k)]
Added(q, r, j, c, k) ==
  /\ r \in [BulkIds -> BulkJob]
  /\ r[j] = NewJob(c, k) /\ \A i \in BulkIds : i # j => r[i] = q[i]
  /\ Cardinality(Unfinished(r)) = Cardinality(Unfinished(q)) + 1

LEMMA OneMoreJob ==
  ASSUME NEW q, NEW r, NEW j, NEW c, NEW k, Adds(q, r, j, c, k)
  PROVE  Added(q, r, j, c, k)
<1>1. NewJob(c, k) \in BulkJob /\ NewJob(c, k).status = "queued"
  BY DEF NewJob, BulkJob, Adds
<1>2. /\ r \in [BulkIds -> BulkJob]
      /\ r[j] = NewJob(c, k) /\ \A i \in BulkIds : i # j => r[i] = q[i]
  BY <1>1 DEF Adds
<1>3. Unfinished(r) = Unfinished(q) \cup {j} /\ j \notin Unfinished(q)
  BY <1>1, <1>2 DEF Unfinished, Adds
<1>4. Cardinality(Unfinished(r)) = Cardinality(Unfinished(q)) + 1
  BY <1>3, BulkIdsFinite, FS_AddElement
<1>. QED
  BY <1>2, <1>4 DEF Added

\* One command: refused, or the next number is its job's.
LEMMA TakesOne ==
  ASSUME NEW m, NEW e, Importable(m, e), NEW k \in 0..(Len(m) - 1), NEW acc, NEW a,
         Taken(acc, k, a, e)
  PROVE  /\ Fresh(acc.jobs) # {}
         /\ \E b : Taken(WithItem(acc, m[k + 1]), k + 1, b, e)
<1>. DEFINE c == m[k + 1]
            q == acc.jobs
            j == e + a + 1
            u == Cardinality(Unfinished(q))
<1>1. /\ m \in Seq(ToSet(m)) /\ m \in Manifests /\ Len(m) \in Nat /\ e \in Nat /\ k \in Nat /\ a \in Nat
      /\ a <= k /\ j \in Nat /\ MaxBulkJobs \in Nat /\ e + a + 1 <= MaxBulkJobs /\ QueueRoom \in Nat
      /\ Len(acc.items) = k
  <2>1. m \in Seq(ToSet(m)) /\ m \in Manifests
    BY BulkAssumption DEF Importable
  <2>2. Len(m) \in Nat
    BY <2>1, LenProperties
  <2>3. e \in Nat /\ e + Len(m) <= MaxBulkJobs /\ a \in 0..k /\ Len(acc.items) = k
    BY DEF Importable, Taken
  <2>. QED
    BY <2>1, <2>2, <2>3, BulkAssumption
<1>2. c \in AllCommands
  <2>1. k + 1 \in 1..Len(m)
    BY <1>1
  <2>2. c \in ToSet(m)
    BY <1>1, <2>1, ElementOfSeq
  <2>. QED
    BY <1>1, <2>2 DEF AllCommands
<1>. HIDE DEF c
<1>3. q \in [BulkIds -> BulkJob] /\ acc.items \in Seq(ItemRecord) /\ u <= QueueRoom
  BY DEF Taken
<1>4. j \in BulkIds /\ \A i \in BulkIds : i \in Nat
  BY <1>1 DEF BulkIds
<1>5. \A i \in BulkIds : q[i].status = "none" <=> i >= j
  <2>. SUFFICES ASSUME NEW i \in BulkIds PROVE q[i].status = "none" <=> i >= j
    OBVIOUS
  <2>1. bulkJob[i].status # "none" <=> i <= e
    <3>1. i \in {o \in BulkIds : bulkJob[o].status # "none"} <=> i \in 1..e
      BY DEF Importable
    <3>. QED
      BY <1>1, <1>4, <3>1 DEF BulkIds
  <2>2. CASE e < i /\ i <= e + a
    <3>1. PICK o \in AllCommands : q[i] = NewJob(o, NoImportKey)
      BY <2>2 DEF Taken
    <3>. QED
      BY <1>1, <1>4, <2>2, <3>1 DEF NewJob
  <2>3. CASE ~(e < i /\ i <= e + a)
    <3>1. q[i] = bulkJob[i]
      BY <2>3 DEF Taken
    <3>. QED
      BY <1>1, <1>4, <2>1, <2>3, <3>1
  <2>. QED
    BY <2>2, <2>3
<1>6. Fresh(q) = {i \in BulkIds : i >= j}
  BY <1>5 DEF Fresh, Importable
<1>7. j \in Fresh(q) /\ Earliest(Fresh(q)) = j
  <2>1. j \in Fresh(q) /\ Fresh(q) \in SUBSET Nat
    BY <1>1, <1>4, <1>6
  <2>2. Earliest(Fresh(q)) \in Fresh(q) /\ Earliest(Fresh(q)) <= j
    BY <2>1, EarliestIs
  <2>. QED
    BY <1>1, <1>4, <1>6, <2>1, <2>2
<1>. DEFINE s == Submitted(q, c, NoImportKey)
            t == WithItem(acc, c)
<1>8. t.jobs = s.jobs /\ t.items = Append(acc.items, s.item)
  BY DEF WithItem
<1>9. s = IF u >= QueueRoom THEN [jobs |-> q, item |-> Item(NoJob, c)]
          ELSE [jobs |-> [q EXCEPT ![j] = NewJob(c, NoImportKey)], item |-> Item(j, c)]
  BY <1>7 DEF Submitted
<1>. HIDE DEF s, t, u, q, j
<1>10. DOMAIN acc.items = 1..k
  BY <1>1, <1>3, LenProperties
<1>11. ASSUME NEW x \in ItemRecord, t.items = Append(acc.items, x)
       PROVE  /\ t.items \in Seq(ItemRecord) /\ Len(t.items) = k + 1 /\ DOMAIN t.items = 1..(k + 1)
              /\ t.items[k + 1] = x /\ \A i \in 1..k : t.items[i] = acc.items[i]
  BY <1>1, <1>3, <1>10, <1>11, AppendProperties, LenProperties
<1>12. CASE u >= QueueRoom
  <2>1. t.jobs = q /\ t.items = Append(acc.items, Item(NoJob, c))
    BY <1>8, <1>9, <1>12
  <2>2. Item(NoJob, c) \in ItemRecord /\ Item(NoJob, c).job = NoJob
    BY <1>2 DEF Item, ItemRecord
  <2>3. /\ t.items \in Seq(ItemRecord) /\ Len(t.items) = k + 1 /\ DOMAIN t.items = 1..(k + 1)
        /\ t.items[k + 1].job = NoJob /\ \A i \in 1..k : t.items[i] = acc.items[i]
    BY <1>11, <2>1, <2>2
  <2>4. \A i \in DOMAIN t.items : t.items[i].job # NoJob => i \in DOMAIN acc.items
    BY <1>1, <1>10, <2>3
  <2>5. \A i \in DOMAIN acc.items : i \in DOMAIN t.items /\ t.items[i] = acc.items[i]
    BY <1>1, <1>10, <2>3
  <2>6. \A i \in DOMAIN t.items : t.items[i].job # NoJob =>
          /\ e < t.items[i].job /\ t.items[i].job <= e + a
          /\ t.jobs[t.items[i].job].command = t.items[i].command
          /\ \A o \in DOMAIN t.items : t.items[o].job = t.items[i].job => o = i
    <3>. SUFFICES ASSUME NEW i \in DOMAIN t.items, t.items[i].job # NoJob
                  PROVE  /\ e < t.items[i].job /\ t.items[i].job <= e + a
                         /\ t.jobs[t.items[i].job].command = t.items[i].command
                         /\ \A o \in DOMAIN t.items : t.items[o].job = t.items[i].job => o = i
      OBVIOUS
    <3>1. i \in DOMAIN acc.items /\ t.items[i] = acc.items[i]
      BY <2>4, <2>5
    <3>2. /\ e < acc.items[i].job /\ acc.items[i].job <= e + a
          /\ q[acc.items[i].job].command = acc.items[i].command
          /\ \A o \in DOMAIN acc.items : acc.items[o].job = acc.items[i].job => o = i
      BY <3>1 DEF Taken, q
    <3>. QED
      BY <2>1, <2>4, <2>5, <3>1, <3>2
  <2>7. /\ a \in 0..(k + 1) /\ t.jobs \in [BulkIds -> BulkJob]
        /\ Cardinality(Unfinished(t.jobs)) = Cardinality(Unfinished(bulkJob)) + a
        /\ Cardinality(Unfinished(t.jobs)) <= QueueRoom
        /\ \A i \in BulkIds :
             IF e < i /\ i <= e + a THEN \E o \in AllCommands : t.jobs[i] = NewJob(o, NoImportKey)
                                    ELSE t.jobs[i] = bulkJob[i]
    BY <1>1, <1>3, <2>1 DEF Taken, q
  <2>8. Taken(t, k + 1, a, e)
    BY <2>3, <2>6, <2>7 DEF Taken
  <2>. QED
    BY <1>7, <2>8 DEF t, q, c
<1>13. CASE ~(u >= QueueRoom)
  <2>. DEFINE r == [q EXCEPT ![j] = NewJob(c, NoImportKey)]
  <2>1. t.jobs = r /\ t.items = Append(acc.items, Item(j, c))
    BY <1>8, <1>9, <1>13
  <2>0. r = [q EXCEPT ![j] = NewJob(c, NoImportKey)]
    OBVIOUS
  <2>. HIDE DEF r
  <2>2. /\ r \in [BulkIds -> BulkJob] /\ r[j] = NewJob(c, NoImportKey)
        /\ \A i \in BulkIds : i # j => r[i] = q[i]
        /\ Cardinality(Unfinished(r)) = u + 1
    <3>1. q[j].status = "none"
      <4>1. j >= j
        BY <1>4
      <4>. QED
        BY <1>4, <1>5, <4>1
    <3>2. Adds(q, r, j, c, NoImportKey)
      BY <1>2, <1>3, <1>4, <2>0, <3>1 DEF Adds
    <3>3. Added(q, r, j, c, NoImportKey)
      BY <3>2, OneMoreJob
    <3>. QED
      BY <3>3 DEF Added, u
  <2>3. Item(j, c) \in ItemRecord /\ Item(j, c).job = j /\ Item(j, c).command = c
    BY <1>2, <1>4 DEF Item, ItemRecord
  <2>4. /\ t.items \in Seq(ItemRecord) /\ Len(t.items) = k + 1 /\ DOMAIN t.items = 1..(k + 1)
        /\ t.items[k + 1].job = j /\ t.items[k + 1].command = c
        /\ \A i \in 1..k : t.items[i] = acc.items[i]
    BY <1>11, <2>1, <2>3
  <2>5. \A i \in DOMAIN t.items : i = k + 1 \/ (i \in DOMAIN acc.items /\ t.items[i] = acc.items[i])
    BY <1>1, <1>10, <2>4
  <2>6. \A i \in DOMAIN acc.items : acc.items[i].job # NoJob =>
          /\ e < acc.items[i].job /\ acc.items[i].job <= e + a /\ acc.items[i].job # j
          /\ acc.items[i].job \in BulkIds
          /\ q[acc.items[i].job].command = acc.items[i].command
          /\ \A o \in DOMAIN acc.items : acc.items[o].job = acc.items[i].job => o = i
    <3>. SUFFICES ASSUME NEW i \in DOMAIN acc.items, acc.items[i].job # NoJob
                  PROVE  /\ e < acc.items[i].job /\ acc.items[i].job <= e + a
                         /\ acc.items[i].job # j /\ acc.items[i].job \in BulkIds
                         /\ q[acc.items[i].job].command = acc.items[i].command
                         /\ \A o \in DOMAIN acc.items : acc.items[o].job = acc.items[i].job => o = i
      OBVIOUS
    <3>1. /\ e < acc.items[i].job /\ acc.items[i].job <= e + a
          /\ q[acc.items[i].job].command = acc.items[i].command
          /\ \A o \in DOMAIN acc.items : acc.items[o].job = acc.items[i].job => o = i
      BY DEF Taken, q
    <3>2. acc.items[i].job \in BulkIds /\ acc.items[i].job \in Nat
      BY <1>3, <1>4, ItemJobs
    <3>3. acc.items[i].job # j
      BY <1>1, <3>1, <3>2 DEF j
    <3>. QED
      BY <3>1, <3>2, <3>3
  <2>7. \A i \in DOMAIN t.items : t.items[i].job # NoJob =>
          /\ e < t.items[i].job /\ t.items[i].job <= e + (a + 1)
          /\ t.jobs[t.items[i].job].command = t.items[i].command
          /\ \A o \in DOMAIN t.items : t.items[o].job = t.items[i].job => o = i
    <3>. SUFFICES ASSUME NEW i \in DOMAIN t.items, t.items[i].job # NoJob
                  PROVE  /\ e < t.items[i].job /\ t.items[i].job <= e + (a + 1)
                         /\ t.jobs[t.items[i].job].command = t.items[i].command
                         /\ \A o \in DOMAIN t.items : t.items[o].job = t.items[i].job => o = i
      OBVIOUS
    <3>1. CASE i = k + 1
      <4>1. t.items[i].job = j /\ t.items[i].command = c
        BY <2>4, <3>1
      <4>2. e < j /\ j <= e + (a + 1)
        BY <1>1 DEF j
      <4>3. t.jobs[j].command = c
        BY <2>1, <2>2 DEF NewJob
      <4>4. \A o \in DOMAIN t.items : t.items[o].job = j => o = i
        <5>1. j # NoJob
          BY <1>4 DEF BulkIds, NoJob
        <5>. QED
          BY <2>5, <2>6, <3>1, <5>1
      <4>. QED
        BY <4>1, <4>2, <4>3, <4>4
    <3>2. CASE i # k + 1
      <4>1. i \in DOMAIN acc.items /\ t.items[i] = acc.items[i]
        BY <2>5, <3>2
      <4>. DEFINE x == acc.items[i].job
      <4>2. /\ e < x /\ x <= e + a /\ x # j /\ x \in BulkIds
            /\ q[x].command = acc.items[i].command
            /\ \A o \in DOMAIN acc.items : acc.items[o].job = x => o = i
        BY <2>6, <4>1
      <4>3. \A o \in DOMAIN t.items : t.items[o].job = x => o = i
        BY <2>4, <2>5, <4>2
      <4>4. t.jobs[x].command = acc.items[i].command
        <5>1. t.jobs[x] = q[x]
          BY <2>1, <2>2, <4>2
        <5>. QED
          BY <4>2, <5>1
      <4>5. x <= e + (a + 1)
        <5>1. \A y \in Nat : y <= e + a => y <= e + (a + 1)
          BY <1>1
        <5>. QED
          BY <1>4, <4>2, <5>1
      <4>6. t.items[i].job = x
        BY <4>1
      <4>. HIDE DEF x
      <4>. QED
        BY <4>1, <4>2, <4>3, <4>4, <4>5, <4>6
    <3>. QED
      BY <3>1, <3>2
  <2>8. \A i \in BulkIds :
          IF e < i /\ i <= e + (a + 1) THEN \E o \in AllCommands : t.jobs[i] = NewJob(o, NoImportKey)
                                       ELSE t.jobs[i] = bulkJob[i]
    <3>. SUFFICES ASSUME NEW i \in BulkIds
                  PROVE  IF e < i /\ i <= e + (a + 1)
                         THEN \E o \in AllCommands : t.jobs[i] = NewJob(o, NoImportKey)
                         ELSE t.jobs[i] = bulkJob[i]
      OBVIOUS
    <3>1. CASE i = j
      <4>1. e < i /\ i <= e + (a + 1)
        BY <1>1, <3>1 DEF j
      <4>2. t.jobs[i] = NewJob(c, NoImportKey)
        BY <2>1, <2>2, <3>1
      <4>. QED
        BY <1>2, <4>1, <4>2
    <3>2. CASE i # j
      <4>1. t.jobs[i] = q[i]
        BY <2>1, <2>2, <3>2
      <4>2. i <= e + (a + 1) <=> i <= e + a
        BY <1>1, <1>4, <3>2 DEF j
      <4>3. IF e < i /\ i <= e + a THEN \E o \in AllCommands : q[i] = NewJob(o, NoImportKey)
                                   ELSE q[i] = bulkJob[i]
        BY DEF Taken, q
      <4>. QED
        BY <4>1, <4>2, <4>3
    <3>. QED
      BY <3>1, <3>2
  <2>9. /\ a + 1 \in 0..(k + 1) /\ t.jobs \in [BulkIds -> BulkJob]
        /\ Cardinality(Unfinished(t.jobs)) = Cardinality(Unfinished(bulkJob)) + (a + 1)
        /\ Cardinality(Unfinished(t.jobs)) <= QueueRoom
    <3>1. u = Cardinality(Unfinished(bulkJob)) + a /\ u \in Nat
          /\ Cardinality(Unfinished(bulkJob)) \in Nat
      BY BulkIdsFinite DEF Taken, u, q
    <3>2. Cardinality(Unfinished(t.jobs)) = u + 1
      BY <2>1, <2>2
    <3>. QED
      BY <1>1, <1>13, <2>1, <2>2, <3>1, <3>2
  <2>10. Taken(t, k + 1, a + 1, e)
    BY <2>4, <2>7, <2>8, <2>9 DEF Taken
  <2>. QED
    BY <1>7, <2>10 DEF t, q, c
<1>. QED
  BY <1>12, <1>13

\* A loop that goes on while numbers are left takes the whole manifest.
ImportTurns(h, m) ==
  /\ h[0] = [jobs |-> bulkJob, items |-> <<>>]
  /\ \A k \in 1..Len(m) : Fresh(h[k - 1].jobs) # {} => h[k] = WithItem(h[k - 1], m[k])

LEMMA TakenInTurn ==
  ASSUME NEW m, NEW e, Importable(m, e), NEW h, ImportTurns(h, m)
  PROVE  \A k \in 0..Len(m) : \E a : Taken(h[k], k, a, e)
<1>. DEFINE n == Len(m)
            S == {k \in 0..n : \E a : Taken(h[k], k, a, e)}
<1>1. n \in Nat /\ e \in Nat
  BY LenProperties, BulkAssumption DEF Importable
<1>2. 0 \in S
  <2>1. h[0].jobs = bulkJob /\ h[0].items = <<>>
    BY DEF ImportTurns
  <2>2. /\ bulkJob \in [BulkIds -> BulkJob] /\ Cardinality(Unfinished(bulkJob)) <= QueueRoom
        /\ Cardinality(Unfinished(bulkJob)) \in Nat
    BY BulkIdsFinite DEF Importable
  <2>3. \A j \in BulkIds : ~(e < j /\ j <= e + 0)
    BY <1>1, BulkIdsFinite
  <2>4. <<>> \in Seq(ItemRecord) /\ Len(<<>>) = 0 /\ DOMAIN <<>> = {}
    OBVIOUS
  <2>5. Cardinality(Unfinished(bulkJob)) = Cardinality(Unfinished(bulkJob)) + 0
    BY <2>2
  <2>6. Taken(h[0], 0, 0, e)
    BY <2>1, <2>2, <2>3, <2>4, <2>5 DEF Taken
  <2>. QED
    BY <1>1, <2>6
<1>3. ASSUME NEW k \in 0..(n - 1), k \in S PROVE k + 1 \in S
  <2>1. PICK a : Taken(h[k], k, a, e)
    BY <1>3
  <2>2. Fresh(h[k].jobs) # {} /\ \E b : Taken(WithItem(h[k], m[k + 1]), k + 1, b, e)
    BY <2>1, TakesOne
  <2>3. k + 1 \in 1..n /\ k + 1 \in 0..n /\ k + 1 - 1 = k
    BY <1>1
  <2>4. h[k + 1] = WithItem(h[k], m[k + 1])
    BY <2>2, <2>3 DEF ImportTurns
  <2>. QED
    BY <2>2, <2>3, <2>4
<1>. HIDE DEF S
<1>4. \A k \in 0..(n - 1) : k \in S => k + 1 \in S
  BY <1>3
<1>5. \A k \in 0..n : k \in S
  BY <1>1, <1>2, <1>4, CountUp
<1>. QED
  BY <1>5 DEF S

LEMMA WithItemType ==
  ASSUME NEW acc \in [jobs : [BulkIds -> BulkJob], items : Seq(ItemRecord)],
         NEW c \in AllCommands, Fresh(acc.jobs) # {}
  PROVE  WithItem(acc, c) \in [jobs : [BulkIds -> BulkJob], items : Seq(ItemRecord)]
<1>. DEFINE q == acc.jobs
            j == Earliest(Fresh(q))
            s == Submitted(q, c, NoImportKey)
<1>1. j \in BulkIds
  <2>1. Fresh(q) \in SUBSET Nat /\ Fresh(q) \subseteq BulkIds
    BY BulkIdsFinite DEF Fresh
  <2>. QED
    BY <2>1, EarliestIs
<1>2. \/ s = [jobs |-> q, item |-> Item(NoJob, c)]
      \/ s = [jobs |-> [q EXCEPT ![j] = NewJob(c, NoImportKey)], item |-> Item(j, c)]
  BY DEF Submitted
<1>. HIDE DEF j, s
<1>3. NewJob(c, NoImportKey) \in BulkJob /\ Item(NoJob, c) \in ItemRecord /\ Item(j, c) \in ItemRecord
  BY <1>1 DEF NewJob, BulkJob, Item, ItemRecord
<1>4. s.jobs \in [BulkIds -> BulkJob] /\ s.item \in ItemRecord
  BY <1>1, <1>2, <1>3
<1>5. Append(acc.items, s.item) \in Seq(ItemRecord)
  BY <1>4, AppendProperties
<1>. QED
  BY <1>4, <1>5 DEF WithItem, s

LEMMA ImportedTaken ==
  ASSUME NEW m, NEW e, Importable(m, e)
  PROVE  \E a : Taken(Imported(m), Len(m), a, e)
<1>. DEFINE n == Len(m)
            start == [jobs |-> bulkJob, items |-> <<>>]
            X == [jobs : [BulkIds -> BulkJob], items : Seq(ItemRecord)]
            eq(g) == g = [k \in 0..n |-> IF k = 0 THEN start ELSE WithItem(g[k - 1], m[k])]
            h == CHOOSE g : eq(g)
<1>1. n \in Nat /\ \A k \in 1..n : m[k] \in AllCommands
  <2>1. m \in Seq(ToSet(m)) /\ m \in Manifests
    BY BulkAssumption DEF Importable
  <2>2. n \in Nat
    BY <2>1, LenProperties
  <2>3. \A k \in 1..n : m[k] \in ToSet(m)
    BY <2>1, ElementOfSeq
  <2>. QED
    BY <2>1, <2>2, <2>3 DEF AllCommands
<1>2. Imported(m) = h[n]
  BY Zenon DEF Imported
<1>. HIDE DEF n
<1>3. \E g : eq(g)
  <2>. DEFINE step == [k \in 1..n |-> [y \in X |-> IF Fresh(y.jobs) # {} THEN WithItem(y, m[k]) ELSE y]]
  <2>1. start \in X
    <3>1. bulkJob \in [BulkIds -> BulkJob] /\ <<>> \in Seq(ItemRecord)
      BY DEF Importable
    <3>. QED
      BY <3>1
  <2>2. \A k \in 1..n, y \in X : Fresh(y.jobs) # {} => WithItem(y, m[k]) \in X
    BY <1>1, WithItemType
  <2>. HIDE DEF X, start
  <2>3. \A k \in 1..n, y \in X :
          step[k][y] \in X /\ step[k][y] = IF Fresh(y.jobs) # {} THEN WithItem(y, m[k]) ELSE y
    BY <2>2
  <2>. HIDE DEF step
  <2>4. Loop(X, start, n, step)
    BY <1>1, <2>1, <2>3 DEF Loop
  <2>5. PICK g : LoopRun(X, start, n, step, g)
    BY <2>4, LoopExists
  <2>6. g \in [0..n -> X] /\ g[0] = start
    BY <2>5 DEF LoopRun
  <2>7. ASSUME NEW k \in 1..n, Fresh(g[k - 1].jobs) # {} PROVE g[k] = WithItem(g[k - 1], m[k])
    <3>1. k - 1 \in 0..n /\ g[k] = step[k][g[k - 1]]
      BY <1>1, <2>5 DEF LoopRun
    <3>2. g[k - 1] \in X
      BY <2>6, <3>1
    <3>. QED
      BY <2>3, <2>7, <3>1, <3>2
  <2>8. ImportTurns(g, m)
    BY <2>6, <2>7 DEF ImportTurns, n, start
  <2>9. \A k \in 0..n : \E a : Taken(g[k], k, a, e)
    BY <2>8, TakenInTurn DEF n
  <2>10. \A k \in 1..n : g[k] = WithItem(g[k - 1], m[k])
    <3>. SUFFICES ASSUME NEW k \in 1..n PROVE g[k] = WithItem(g[k - 1], m[k])
      OBVIOUS
    <3>1. k - 1 \in 0..n /\ k - 1 \in 0..(Len(m) - 1)
      BY <1>1 DEF n
    <3>2. PICK a : Taken(g[k - 1], k - 1, a, e)
      BY <2>9, <3>1
    <3>3. Fresh(g[k - 1].jobs) # {}
      BY <3>1, <3>2, TakesOne
    <3>. QED
      BY <2>7, <3>3
  <2>11. eq(g)
    BY <1>1, <2>6, <2>10
  <2>. QED
    BY <2>11
<1>4. eq(h)
  BY <1>3, Zenon
<1>. HIDE DEF h
<1>5. ImportTurns(h, m)
  <2>1. h[0] = start /\ \A k \in 1..n : h[k] = WithItem(h[k - 1], m[k])
    BY <1>1, <1>4
  <2>. QED
    BY <2>1 DEF ImportTurns, n
<1>6. n \in 0..Len(m)
  BY <1>1 DEF n
<1>7. \E a : Taken(h[n], n, a, e)
  BY <1>5, <1>6, TakenInTurn
<1>. QED
  BY <1>2, <1>7 DEF n

LEMMA NumbersLeft ==
  ASSUME NEW q \in [BulkIds -> BulkJob], NEW e \in 0..MaxBulkJobs, ~persistent,
         {j \in BulkIds : q[j].status # "none"} = 1..e
  PROVE  e + Cardinality(Fresh(q)) = MaxBulkJobs /\ Cardinality(Fresh(q)) \in Nat
<1>1. MaxBulkJobs \in Nat /\ e \in Nat /\ e <= MaxBulkJobs
  BY BulkAssumption
<1>2. Fresh(q) = (e + 1)..MaxBulkJobs
  <2>1. \A j \in BulkIds : q[j].status = "none" <=> j \notin 1..e
    OBVIOUS
  <2>2. \A j : j \in BulkIds /\ j \notin 1..e <=> j \in (e + 1)..MaxBulkJobs
    BY <1>1 DEF BulkIds
  <2>. QED
    BY <2>1, <2>2 DEF Fresh
<1>3. CASE e = MaxBulkJobs
  <2>1. Fresh(q) = {}
    BY <1>1, <1>2, <1>3
  <2>. QED
    BY <1>1, <1>3, <2>1, FS_EmptySet
<1>4. CASE e # MaxBulkJobs
  <2>1. e + 1 \in Int /\ MaxBulkJobs \in Int /\ ~(e + 1 > MaxBulkJobs)
    BY <1>1, <1>4
  <2>2. Cardinality(Fresh(q)) = MaxBulkJobs - (e + 1) + 1
    BY <1>2, <2>1, FS_Interval
  <2>. QED
    BY <1>1, <1>4, <2>2
<1>. QED
  BY <1>3, <1>4

\* The numbers of the batches once a jobs have been made of a manifest.
ShiftedBy(edge, new, a, kept) ==
  new = [n \in 0..Len(kept) |-> IF n = 0 THEN edge[0] + a ELSE edge[n - 1]]

LEMMA EdgesShift ==
  ASSUME NEW edge, EdgesOK(edge, bulkJob), batches \in Seq(Seq(ItemRecord)),
         NEW a \in Nat, a <= MostAccepted, edge[0] + a <= MaxBulkJobs,
         NEW kept, Len(kept) \in 1..(Len(batches) + 1), NEW new, ShiftedBy(edge, new, a, kept)
  PROVE  /\ new \in [0..Len(kept) -> 0..MaxBulkJobs]
         /\ new[0] = edge[0] + a /\ \A n \in 1..Len(kept) : new[n] = edge[n - 1]
         /\ \A n, m \in 0..Len(kept) : n <= m =>
              new[m] <= new[n] /\ new[n] <= new[m] + InBatches(m - n)
<1>. DEFINE l == Len(kept)
            b == Len(batches)
<1>1. b \in Nat /\ l \in 1..(b + 1) /\ MaxBulkJobs \in Nat
  BY LenProperties, BulkAssumption
<1>2. /\ edge \in [0..b -> 0..MaxBulkJobs]
      /\ \A n, m \in 0..b : n <= m =>
           edge[m] <= edge[n] /\ edge[n] <= edge[m] + InBatches(m - n)
  BY DEF EdgesOK
<1>. HIDE DEF l, b
<1>3. \A n \in 0..b : edge[n] \in 0..MaxBulkJobs
  BY <1>2
<1>4. 0 \in 0..b /\ \A n \in 1..l : n - 1 \in 0..b
  BY <1>1
<1>5. new = [n \in 0..l |-> IF n = 0 THEN edge[0] + a ELSE edge[n - 1]]
  BY DEF ShiftedBy, l
<1>6. new[0] = edge[0] + a /\ \A n \in 1..l : new[n] = edge[n - 1]
  BY <1>1, <1>5
<1>7. new \in [0..l -> 0..MaxBulkJobs]
  <2>1. \A n \in 0..l : (IF n = 0 THEN edge[0] + a ELSE edge[n - 1]) \in 0..MaxBulkJobs
    <3>. SUFFICES ASSUME NEW n \in 0..l
                  PROVE (IF n = 0 THEN edge[0] + a ELSE edge[n - 1]) \in 0..MaxBulkJobs
      OBVIOUS
    <3>1. CASE n = 0
      BY <1>1, <1>3, <1>4, <3>1
    <3>2. CASE n # 0
      <4>1. n - 1 \in 0..b
        BY <1>1, <3>2
      <4>. QED
        BY <1>3, <3>2, <4>1
    <3>. QED
      BY <3>1, <3>2
  <2>. QED
    BY <1>5, <2>1
<1>8. ASSUME NEW n \in 0..l, NEW m \in 0..l, n <= m
      PROVE  new[m] <= new[n] /\ new[n] <= new[m] + InBatches(m - n)
  <2>1. CASE n # 0
    <3>1. n \in 1..l /\ m \in 1..l /\ n - 1 \in 0..b /\ m - 1 \in 0..b /\ n - 1 <= m - 1
          /\ (m - 1) - (n - 1) = m - n
      BY <1>1, <1>8, <2>1
    <3>2. edge[m - 1] <= edge[n - 1]
          /\ edge[n - 1] <= edge[m - 1] + InBatches((m - 1) - (n - 1))
      BY <1>2, <3>1
    <3>. QED
      BY <1>6, <3>1, <3>2
  <2>2. CASE n = 0 /\ m = 0
    <3>1. m - n = 0 /\ InBatches(0) = 0 /\ new[0] \in Nat
      BY <1>1, <1>7, <2>2, Spans
    <3>. QED
      BY <2>2, <3>1
  <2>3. CASE n = 0 /\ m # 0
    <3>1. m \in 1..l /\ m - 1 \in 0..b /\ 0 <= m - 1 /\ (m - 1) - 0 = m - 1 /\ m - 1 \in Nat
          /\ (m - 1) + 1 = m - n
      BY <1>1, <2>3
    <3>2. edge[m - 1] <= edge[0] /\ edge[0] <= edge[m - 1] + InBatches((m - 1) - 0)
      BY <1>2, <1>4, <3>1
    <3>. DEFINE d == InBatches(m - 1)
    <3>3. InBatches(m - n) = d + MostAccepted /\ MostAccepted \in Nat
      BY <3>1, Spans
    <3>4. edge[0] <= edge[m - 1] + d
      BY <3>1, <3>2
    <3>5. edge[0] \in Nat /\ edge[m - 1] \in Nat
      BY <1>1, <1>3, <1>4, <3>1
    <3>6. d \in Int
      <4>1. \A x \in Nat : InBatches(x) \in Int
        BY Spans DEF InBatches
      <4>. QED
        BY <3>1, <4>1
    <3>7. new[n] = edge[0] + a /\ new[m] = edge[m - 1]
      BY <1>6, <2>3, <3>1
    <3>. HIDE DEF d
    <3>. QED
      BY <3>2, <3>3, <3>4, <3>5, <3>6, <3>7
  <2>. QED
    BY <2>1, <2>2, <2>3
<1>. QED
  BY <1>6, <1>7, <1>8 DEF l

LEMMA NewJobOK ==
  ASSUME NEW c \in AllCommands, NEW k \in {NoImportKey} \cup (ImportKeys \X Nat),
         persistent \in BOOLEAN
  PROVE  /\ BulkJobOK(NewJob(c, k))
         /\ NewJob(c, k).status = "queued" /\ NewJob(c, k).told = "no"
         /\ NewJob(c, k).command = c /\ NewJob(c, k).key = k
BY DEF NewJob, BulkJob, BulkJobOK

LEMMA MemoryImportKeeps ==
  ASSUME BulkInv, NEW m \in Manifests, ImportInMemory(m)
  PROVE  BulkInv'
<1>. DEFINE q == bulkJob'
            items == Imported(m).items
            kept == batches'
<1>1. /\ ~persistent /\ persistent' = persistent /\ marked' = marked /\ importer' = importer
      /\ Cardinality(Fresh(bulkJob)) >= Len(m)
      /\ q = Imported(m).jobs /\ kept = KeptBatches(items)
  BY DEF ImportInMemory
<1>2. /\ bulkJob \in [BulkIds -> BulkJob] /\ \A j \in BulkIds : BulkJobOK(bulkJob[j])
      /\ Cardinality(Unfinished(bulkJob)) <= QueueRoom
      /\ batches \in Seq(Seq(ItemRecord)) /\ Len(batches) <= MaxBatches
      /\ marked \in Seq(BulkIds) /\ Len(marked) <= MaxMarkers
      /\ QueueOK(bulkJob)
  BY <1>1 DEF BulkInv, MemoryOK
<1>3. PICK edge \in [0..Len(batches) -> 0..MaxBulkJobs] :
         EdgesOK(edge, bulkJob) /\ MarksOK(marked, edge, bulkJob) /\ ToldOK(marked, bulkJob, edge)
  BY <1>1 DEF BulkInv, MemoryOK
<1>4. PICK e : e = edge[0]
  OBVIOUS
<1>5. Len(batches) \in Nat /\ DOMAIN batches = 1..Len(batches) /\ Len(m) \in Nat
      /\ MaxBulkJobs \in Nat /\ QueueRoom \in Nat
  BY <1>2, LenProperties, BulkAssumption
<1>6. /\ e \in 0..MaxBulkJobs /\ e \in Nat
      /\ {j \in BulkIds : bulkJob[j].status # "none"} = 1..e
  BY <1>3, <1>4, <1>5 DEF EdgesOK
<1>7. Importable(m, e)
  <2>1. e + Cardinality(Fresh(bulkJob)) = MaxBulkJobs /\ Cardinality(Fresh(bulkJob)) \in Nat
    BY <1>1, <1>2, <1>6, NumbersLeft
  <2>2. e + Len(m) <= MaxBulkJobs
    BY <1>1, <1>5, <1>6, <2>1
  <2>. QED
    BY <1>1, <1>2, <1>6, <2>2 DEF Importable
<1>8. PICK a : Taken(Imported(m), Len(m), a, e)
  BY <1>7, ImportedTaken
<1>. HIDE DEF items
<1>9. /\ q \in [BulkIds -> BulkJob] /\ items \in Seq(ItemRecord) /\ a \in 0..Len(m)
      /\ Cardinality(Unfinished(q)) = Cardinality(Unfinished(bulkJob)) + a
      /\ Cardinality(Unfinished(q)) <= QueueRoom
      /\ \A j \in BulkIds :
           IF e < j /\ j <= e + a THEN \E c \in AllCommands : q[j] = NewJob(c, NoImportKey)
                                  ELSE q[j] = bulkJob[j]
      /\ \A i \in DOMAIN items : items[i].job # NoJob =>
           /\ e < items[i].job /\ items[i].job <= e + a
           /\ q[items[i].job].command = items[i].command
           /\ \A o \in DOMAIN items : items[o].job = items[i].job => o = i
  BY <1>1, <1>8 DEF Taken, items
<1>. HIDE DEF q
<1>10. a \in Nat /\ e + a \in Nat /\ e + a <= MaxBulkJobs /\ a <= MostAccepted
  <2>1. a \in Nat /\ e + a \in Nat /\ e + a <= MaxBulkJobs
    <3>1. e + Len(m) <= MaxBulkJobs
      BY <1>7 DEF Importable
    <3>. QED
      BY <1>5, <1>6, <1>9, <3>1
  <2>2. a <= QueueRoom
    <3>1. Cardinality(Unfinished(bulkJob)) \in Nat
      BY BulkIdsFinite
    <3>. QED
      BY <1>5, <1>9, <2>1, <3>1
  <2>3. a <= Accepted(m) /\ Accepted(m) \in Nat
    BY <1>5, <1>9, <2>1, <2>2 DEF Accepted
  <2>4. Accepted(m) <= MostAccepted /\ MostAccepted \in Nat
    BY MostSuffices, Spans DEF Suffices
  <2>. QED
    BY <2>1, <2>3, <2>4
<1>11. /\ \A j \in BulkIds : j \in Nat /\ j # NoJob
       /\ \A j \in BulkIds : j <= e => q[j] = bulkJob[j] /\ bulkJob[j].status # "none"
       /\ \A j \in BulkIds : e < j /\ j <= e + a => \E c \in AllCommands : q[j] = NewJob(c, NoImportKey)
       /\ \A j \in BulkIds : e + a < j => q[j] = bulkJob[j] /\ bulkJob[j].status = "none"
       /\ \A j \in BulkIds : e < j => bulkJob[j].status = "none"
  <2>1. \A j \in BulkIds : j \in Nat /\ j # NoJob /\ j >= 1
    BY DEF BulkIds, NoJob
  <2>2. \A j \in BulkIds : bulkJob[j].status # "none" <=> j <= e
    <3>1. \A j \in BulkIds : bulkJob[j].status # "none" <=> j \in 1..e
      BY <1>6
    <3>2. \A j \in BulkIds : j \in 1..e <=> j <= e
      BY <1>6, <2>1
    <3>. QED
      BY <3>1, <3>2
  <2>3. \A j \in BulkIds : /\ (j <= e => ~(e < j)) /\ (e + a < j => ~(j <= e + a) /\ ~(j <= e))
                           /\ (e < j => ~(j <= e))
    BY <1>6, <1>10, <2>1
  <2>. QED
    BY <1>9, <2>1, <2>2, <2>3
<1>12. \A j \in BulkIds : j <= e \/ (e < j /\ j <= e + a) \/ e + a < j
  BY <1>6, <1>10, <1>11
<1>13. ASSUME NEW j \in BulkIds, e < j, j <= e + a
       PROVE  /\ BulkJobOK(q[j]) /\ q[j].status = "queued" /\ q[j].told = "no"
  <2>1. PICK c \in AllCommands : q[j] = NewJob(c, NoImportKey)
    BY <1>11, <1>13
  <2>2. NoImportKey \in {NoImportKey} \cup (ImportKeys \X Nat) /\ persistent \in BOOLEAN
    BY DEF BulkInv
  <2>. QED
    BY <2>1, <2>2, NewJobOK
<1>14. /\ \A j \in BulkIds : BulkJobOK(q[j])
       /\ \A j \in BulkIds : q[j].status # "none" <=> j <= e + a
  <2>1. \A j \in BulkIds : (j <= e => j <= e + a) /\ (e + a < j <=> ~(j <= e + a))
    BY <1>6, <1>10, <1>11
  <2>. QED
    BY <1>2, <1>11, <1>12, <1>13, <2>1
<1>15. Onward(bulkJob, q)
  <2>1. \A j \in BulkIds : bulkJob[j].status # "none" => q[j] = bulkJob[j]
    BY <1>11, <1>12
  <2>2. \A j \in BulkIds : bulkJob[j].status # "pruned"
    BY <1>2 DEF QueueOK
  <2>. QED
    BY <2>1, <2>2 DEF Onward, Unfinished
<1>16. /\ kept \in Seq(Seq(ItemRecord))
       /\ Len(kept) \in 1..MaxBatches /\ Len(kept) \in 1..(Len(batches) + 1)
       /\ DOMAIN kept = 1..Len(kept) /\ kept[1] = items
       /\ \A n \in DOMAIN kept : n # 1 => n - 1 \in DOMAIN batches /\ kept[n] = batches[n - 1]
  <2>1. MaxBatches \in Nat
    BY BulkAssumption
  <2>2. /\ KeptBatches(items) \in Seq(Seq(ItemRecord))
        /\ Len(KeptBatches(items)) \in 1..MaxBatches
        /\ Len(KeptBatches(items)) <= Len(batches) + 1
        /\ DOMAIN KeptBatches(items) = 1..Len(KeptBatches(items))
        /\ KeptBatches(items)[1] = items
        /\ \A n \in DOMAIN KeptBatches(items) : n # 1 =>
             n - 1 \in DOMAIN batches /\ KeptBatches(items)[n] = batches[n - 1]
    BY <1>2, <1>9, KeptShape
  <2>3. kept = KeptBatches(items)
    BY <1>1
  <2>. HIDE DEF kept
  <2>. QED
    BY <1>5, <2>1, <2>2, <2>3
<1>17. \A n \in DOMAIN kept : Owned(kept[n], q)
  <2>1. Owned(items, q)
    <3>1. \A i \in DOMAIN items : items[i].job # NoJob => items[i].job \in BulkIds
      BY <1>9, ItemJobs
    <3>. QED
      BY <1>9, <1>14, <3>1 DEF Owned
  <2>2. \A n \in DOMAIN batches : Owned(batches[n], q)
    BY <1>15, OwnedStill DEF BulkInv
  <2>. QED
    BY <1>16, <2>1, <2>2
<1>18. PICK new : ShiftedBy(edge, new, a, kept)
  BY DEF ShiftedBy
<1>. HIDE DEF kept
<1>19. /\ new \in [0..Len(kept) -> 0..MaxBulkJobs]
       /\ new[0] = e + a /\ \A n \in 1..Len(kept) : new[n] = edge[n - 1]
       /\ \A n, k \in 0..Len(kept) : n <= k =>
            new[k] <= new[n] /\ new[n] <= new[k] + InBatches(k - n)
  <2>1. edge[0] + a <= MaxBulkJobs /\ a \in Nat /\ a <= MostAccepted
    BY <1>4, <1>10
  <2>2. /\ new \in [0..Len(kept) -> 0..MaxBulkJobs]
        /\ new[0] = edge[0] + a /\ \A n \in 1..Len(kept) : new[n] = edge[n - 1]
        /\ \A n, k \in 0..Len(kept) : n <= k =>
             new[k] <= new[n] /\ new[n] <= new[k] + InBatches(k - n)
    BY <1>2, <1>3, <1>16, <1>18, <2>1, EdgesShift
  <2>. QED
    BY <1>4, <2>2
<1>20. \A n \in DOMAIN kept :
         /\ n = 1 => new[n] = e /\ new[n - 1] = e + a
         /\ n # 1 => n - 1 \in DOMAIN batches /\ new[n] = edge[n - 1] /\ new[n - 1] = edge[(n - 1) - 1]
  <2>. SUFFICES ASSUME NEW n \in DOMAIN kept
                PROVE  /\ n = 1 => new[n] = e /\ new[n - 1] = e + a
                       /\ n # 1 => n - 1 \in DOMAIN batches /\ new[n] = edge[n - 1]
                                   /\ new[n - 1] = edge[(n - 1) - 1]
    OBVIOUS
  <2>1. CASE n = 1
    BY <1>4, <1>16, <1>19, <2>1
  <2>2. CASE n # 1
    <3>1. n \in 1..Len(kept) /\ n - 1 \in 1..Len(kept)
      BY <1>5, <1>16, <2>2
    <3>. QED
      BY <1>16, <1>19, <2>2, <3>1
  <2>. QED
    BY <2>1, <2>2
<1>21. ASSUME NEW n \in DOMAIN kept, NEW i \in DOMAIN kept[n], kept[n][i].job # NoJob
       PROVE  new[n] < kept[n][i].job /\ kept[n][i].job <= new[n - 1]
  <2>1. CASE n = 1
    BY <1>9, <1>16, <1>20, <1>21, <2>1
  <2>2. CASE n # 1
    <3>1. n - 1 \in DOMAIN batches /\ kept[n] = batches[n - 1]
      BY <1>16, <2>2
    <3>2. edge[n - 1] < kept[n][i].job /\ kept[n][i].job <= edge[(n - 1) - 1]
      BY <1>3, <1>21, <3>1 DEF EdgesOK
    <3>. QED
      BY <1>20, <2>2, <3>2
  <2>. QED
    BY <2>1, <2>2
<1>22. \A j \in BulkIds, n \in DOMAIN kept : j <= e /\ new[n] < j /\ j <= new[n - 1] =>
         n - 1 \in DOMAIN batches /\ edge[n - 1] < j /\ j <= edge[(n - 1) - 1]
         /\ new[n] = edge[n - 1] /\ new[n - 1] = edge[(n - 1) - 1]
  <2>1. \A j \in BulkIds : ~(e < j /\ j <= e)
    BY <1>6, <1>11
  <2>. QED
    BY <1>20, <2>1
<1>23. /\ \A i \in DOMAIN marked : marked[i] \in BulkIds /\ marked[i] <= e
       /\ \A i, k \in DOMAIN marked : marked[i] = marked[k] => i = k
       /\ \A i, k \in DOMAIN marked, n \in DOMAIN batches :
            i < k /\ edge[n] < marked[i] /\ marked[i] <= edge[n - 1] =>
              edge[n] < marked[k] + Beside /\ marked[k] <= edge[n - 1] + Beside
       /\ \A i, k \in DOMAIN marked : i < k /\ bulkJob[marked[i]].status = "queued" =>
            marked[i] < marked[k] + AllListed
  <2>1. DOMAIN marked = 1..Len(marked)
    BY <1>2, LenProperties
  <2>2. \A i \in DOMAIN marked : marked[i] \in BulkIds
    BY <1>2, <2>1, ElementOfSeq
  <2>. QED
    BY <1>3, <1>4, <2>2 DEF MarksOK
<1>24. EdgesOK(new, bulkJob)'
  <2>1. {j \in BulkIds : q[j].status # "none"} = 1..new[0]
    <3>1. \A j \in BulkIds : q[j].status # "none" <=> j \in 1..(e + a)
      BY <1>10, <1>11, <1>14 DEF BulkIds
    <3>2. 1..(e + a) \subseteq BulkIds
      BY <1>5, <1>10 DEF BulkIds
    <3>3. {j \in BulkIds : q[j].status # "none"} = 1..(e + a)
      BY <3>1, <3>2
    <3>. QED
      BY <1>19, <3>3
  <2>. QED
    BY <1>19, <1>21, <2>1 DEF EdgesOK, q, kept
<1>25. MarksOK(marked, new, bulkJob)'
  <2>1. \A i \in DOMAIN marked : marked[i] <= new[0]
    <3>1. \A x \in Nat : x <= e => x <= e + a
      BY <1>6, <1>10
    <3>. QED
      BY <1>11, <1>19, <1>23, <3>1
  <2>2. \A i, k \in DOMAIN marked, n \in DOMAIN kept :
          i < k /\ new[n] < marked[i] /\ marked[i] <= new[n - 1] =>
            new[n] < marked[k] + Beside /\ marked[k] <= new[n - 1] + Beside
    <3>. SUFFICES ASSUME NEW i \in DOMAIN marked, NEW k \in DOMAIN marked, NEW n \in DOMAIN kept,
                         i < k, new[n] < marked[i], marked[i] <= new[n - 1]
                  PROVE  new[n] < marked[k] + Beside /\ marked[k] <= new[n - 1] + Beside
      OBVIOUS
    <3>1. n - 1 \in DOMAIN batches /\ edge[n - 1] < marked[i] /\ marked[i] <= edge[(n - 1) - 1]
          /\ new[n] = edge[n - 1] /\ new[n - 1] = edge[(n - 1) - 1]
      BY <1>22, <1>23
    <3>2. edge[n - 1] < marked[k] + Beside /\ marked[k] <= edge[(n - 1) - 1] + Beside
      BY <1>23, <3>1
    <3>. QED
      BY <3>1, <3>2
  <2>3. \A i, k \in DOMAIN marked : i < k /\ q[marked[i]].status = "queued" =>
          marked[i] < marked[k] + AllListed
    BY <1>11, <1>23
  <2>4. MarksOK(marked, new, bulkJob)' <=>
          /\ marked \in Seq(BulkIds)
          /\ \A i, k \in DOMAIN marked : marked[i] = marked[k] => i = k
          /\ \A i \in DOMAIN marked : marked[i] <= new[0]
          /\ \A i, k \in DOMAIN marked, n \in DOMAIN kept :
               i < k /\ new[n] < marked[i] /\ marked[i] <= new[n - 1] =>
                 new[n] < marked[k] + Beside /\ marked[k] <= new[n - 1] + Beside
          /\ \A i, k \in DOMAIN marked : i < k /\ q[marked[i]].status = "queued" =>
               marked[i] < marked[k] + AllListed
    BY <1>1 DEF MarksOK, q, kept
  <2>. QED
    BY <1>2, <1>23, <2>1, <2>2, <2>3, <2>4
<1>26. ToldOK(marked, bulkJob, new)'
  <2>1. ASSUME NEW j \in BulkIds, q[j].told # "no",
               (\E n \in DOMAIN kept : new[n] < j /\ j <= new[n - 1]) \/ q[j].status = "queued"
        PROVE  j \in ToSet(marked)
    <3>1. j <= e
      <4>1. e + a < j => q[j].status = "none" /\ q[j].told = "no"
        BY <1>2, <1>11 DEF BulkJobOK
      <4>. QED
        BY <1>12, <1>13, <2>1, <4>1
    <3>2. q[j] = bulkJob[j]
      BY <1>11, <3>1
    <3>3. Listed(j, edge) \/ bulkJob[j].status = "queued"
      BY <1>22, <2>1, <3>1, <3>2 DEF Listed
    <3>. QED
      BY <1>3, <2>1, <3>2, <3>3 DEF ToldOK
  <2>. QED
    BY <1>1, <2>1 DEF ToldOK, Listed, q, kept
<1>27. QueueOK(q)
  <2>1. \A j \in BulkIds : q[j].status # "pruned"
    BY <1>2, <1>11, <1>12, <1>13 DEF QueueOK
  <2>2. ASSUME NEW i \in BulkIds, NEW j \in BulkIds, i < j, q[i].status = "queued", q[j].status # "none"
        PROVE  q[j].status = "queued"
    <3>1. CASE j <= e
      <4>1. i <= e
        BY <1>6, <1>11, <2>2, <3>1
      <4>. QED
        BY <1>2, <1>11, <2>2, <3>1, <4>1 DEF QueueOK
    <3>2. CASE ~(j <= e)
      BY <1>11, <1>12, <1>13, <2>2, <3>2
    <3>. QED
      BY <3>1, <3>2
  <2>. QED
    BY <2>1, <2>2 DEF QueueOK
<1>28. MemoryOK'
  <2>1. QueueOK(bulkJob)'
    BY <1>27 DEF QueueOK, q
  <2>2. new \in [0..Len(batches') -> 0..MaxBulkJobs]
    BY <1>19 DEF kept
  <2>. QED
    BY <1>24, <1>25, <1>26, <2>1, <2>2 DEF MemoryOK
<1>29. \A i \in Importers : ImporterOK(importer[i], q)
  BY <1>15, ImporterStill DEF BulkInv
<1>30. \A i \in Importers : ImporterOK(importer[i], bulkJob)'
  BY <1>1, <1>29 DEF ImporterOK, q
<1>31. \A j \in BulkIds : BulkJobOK(bulkJob[j])'
  BY <1>1, <1>14 DEF BulkJobOK, q
<1>32. \A n \in DOMAIN batches' : Owned(batches[n], bulkJob)'
  BY <1>17 DEF q, kept
<1>33. Cardinality(Unfinished(bulkJob)') <= QueueRoom
  BY <1>9 DEF q, Unfinished
<1>34. Len(batches') <= MaxBatches /\ batches' \in Seq(Seq(ItemRecord)) /\ Manifests # {}
       /\ bulkJob' \in [BulkIds -> BulkJob]
  <2>1. MaxBatches \in Nat
    BY BulkAssumption
  <2>. QED
    BY <1>9, <1>16, <2>1 DEF kept, q
<1>. QED
  BY <1>1, <1>2, <1>28, <1>30, <1>31, <1>32, <1>33, <1>34 DEF BulkInv

\* What is left to show of a step with a database.
KeyedStep ==
  /\ persistent /\ persistent' = persistent /\ marked' = marked
  /\ batches' \in Seq(Seq(ItemRecord)) /\ Len(batches') <= MaxBatches
  /\ Manifests = {} => batches' = <<>>
  /\ \A n \in DOMAIN batches' : Owned(batches'[n], bulkJob')
  /\ bulkJob' \in [BulkIds -> BulkJob] /\ \A j \in BulkIds : BulkJobOK(bulkJob'[j])
  /\ Cardinality(Unfinished(bulkJob')) <= QueueRoom
  /\ importer' = [i \in Importers |-> importer'[i]]
  /\ \A i \in Importers : ImporterOK(importer'[i], bulkJob')

LEMMA KeyedStepKeeps ==
  ASSUME BulkInv, KeyedStep
  PROVE  BulkInv'
<1>1. \A i \in Importers : ImporterOK(importer[i], bulkJob)'
  BY DEF KeyedStep, ImporterOK
<1>2. \A j \in BulkIds : BulkJobOK(bulkJob[j])'
  BY DEF KeyedStep, BulkJobOK
<1>3. \A n \in DOMAIN batches' : Owned(batches[n], bulkJob)'
  BY DEF KeyedStep
<1>4. Cardinality(Unfinished(bulkJob)') <= QueueRoom
  BY DEF KeyedStep, Unfinished
<1>. QED
  BY <1>1, <1>2, <1>3, <1>4 DEF BulkInv, KeyedStep

\* A step that leaves the queue alone.
LEMMA QueueAlone ==
  ASSUME BulkInv, persistent, persistent' = persistent, bulkJob' = bulkJob, marked' = marked,
         NEW i \in Importers, NEW r, ImporterOK(r, bulkJob), importer' = [importer EXCEPT ![i] = r],
         batches' \in Seq(Seq(ItemRecord)), Len(batches') <= MaxBatches,
         Manifests = {} => batches' = <<>>, \A n \in DOMAIN batches' : Owned(batches'[n], bulkJob)
  PROVE  BulkInv'
<1>1. importer' = [x \in Importers |-> IF x = i THEN r ELSE importer[x]]
  BY DEF BulkInv
<1>2. /\ importer' = [x \in Importers |-> importer'[x]]
      /\ \A x \in Importers : importer'[x] = IF x = i THEN r ELSE importer[x]
  BY <1>1
<1>3. \A x \in Importers : ImporterOK(importer'[x], bulkJob')
  BY <1>2 DEF BulkInv
<1>4. KeyedStep
  BY <1>2, <1>3 DEF KeyedStep, BulkInv
<1>. QED
  BY <1>4, KeyedStepKeeps

LEMMA IdlerOK ==
  /\ Idler \in ImporterRecord /\ Idler.items = <<>> /\ Idler.next = 1
  /\ ImporterOK(Idler, bulkJob)
<1>1. <<>> \in Seq(ItemRecord) /\ DOMAIN <<>> = {}
  OBVIOUS
<1>2. Idler \in ImporterRecord
  BY <1>1 DEF Idler, ImporterRecord
<1>3. Idler.at = "idle" /\ Idler.items = <<>> /\ Idler.next = 1
  BY DEF Idler
<1>. QED
  BY <1>1, <1>2, <1>3 DEF ImporterOK, Owned

LEMMA BeginImportKeeps ==
  ASSUME BulkInv, NEW i \in Importers, NEW k \in ImportKeys, NEW m \in Manifests, BeginImport(i, k, m)
  PROVE  BulkInv'
<1>. DEFINE r == [Idler EXCEPT !.at = "importing", !.key = k, !.manifest = m]
<1>1. /\ persistent /\ persistent' = persistent /\ bulkJob' = bulkJob /\ batches' = batches
      /\ marked' = marked /\ importer' = [importer EXCEPT ![i] = r]
  BY DEF BeginImport
<1>2. <<>> \in Seq(ItemRecord) /\ DOMAIN <<>> = {} /\ Len(<<>>) = 0 /\ Len(m) \in Nat
  BY LenProperties, BulkAssumption
<1>3. r \in ImporterRecord /\ r.at = "importing" /\ r.items = <<>> /\ r.next = 1 /\ r.manifest = m
  BY <1>2, IdlerOK DEF ImporterRecord
<1>. HIDE DEF r
<1>4. ImportingOK(r, bulkJob)
  BY <1>2, <1>3 DEF ImportingOK
<1>5. ImporterOK(r, bulkJob)
  BY <1>1, <1>2, <1>3, <1>4 DEF ImporterOK, Owned
<1>. QED
  BY <1>1, <1>5, QueueAlone DEF BulkInv

LEMMA StoreBatchKeeps ==
  ASSUME BulkInv, NEW i \in Importers, StoreBatch(i)
  PROVE  BulkInv'
<1>. DEFINE items == importer[i].items
            kept == KeptBatches(items)
<1>1. /\ importer[i].at = "importing" /\ persistent' = persistent /\ bulkJob' = bulkJob
      /\ batches' = kept /\ marked' = marked /\ importer' = [importer EXCEPT ![i] = Idler]
  BY DEF StoreBatch
<1>2. ImporterOK(importer[i], bulkJob) /\ ImportingOK(importer[i], bulkJob)
  BY <1>1 DEF BulkInv, ImporterOK
<1>3. persistent /\ Owned(items, bulkJob) /\ items \in Seq(ItemRecord) /\ Manifests # {}
  BY <1>1, <1>2 DEF ImporterOK, ImportingOK, Owned
<1>. HIDE DEF items
<1>4. /\ kept \in Seq(Seq(ItemRecord)) /\ Len(kept) \in 1..MaxBatches
      /\ kept[1] = items
      /\ \A n \in DOMAIN kept : n # 1 => n - 1 \in DOMAIN batches /\ kept[n] = batches[n - 1]
  BY <1>3, KeptShape DEF BulkInv
<1>. HIDE DEF kept
<1>5. \A n \in DOMAIN kept : Owned(kept[n], bulkJob)
  BY <1>3, <1>4 DEF BulkInv
<1>6. Len(kept) <= MaxBatches
  BY <1>4, BulkAssumption
<1>. QED
  BY <1>1, <1>3, <1>4, <1>5, <1>6, IdlerOK, QueueAlone

LEMMA RequestEnds ==
  ASSUME BulkInv, NEW i \in Importers, Interrupt(i) \/ EndCancel(i)
  PROVE  BulkInv'
<1>1. /\ importer[i].at # "idle" /\ persistent' = persistent /\ bulkJob' = bulkJob
      /\ batches' = batches /\ marked' = marked /\ importer' = [importer EXCEPT ![i] = Idler]
  BY DEF Interrupt, EndCancel
<1>2. persistent
  BY <1>1 DEF BulkInv, ImporterOK
<1>. QED
  BY <1>1, <1>2, IdlerOK, QueueAlone DEF BulkInv

LEMMA BeginCancelKeeps ==
  ASSUME BulkInv, NEW i \in Importers, NEW n, BeginCancel(i, n)
  PROVE  BulkInv'
<1>. DEFINE r == [Idler EXCEPT !.at = "cancelling", !.items = batches[n]]
<1>1. /\ persistent /\ persistent' = persistent /\ bulkJob' = bulkJob /\ batches' = batches
      /\ marked' = marked /\ n \in DOMAIN batches /\ importer' = [importer EXCEPT ![i] = r]
  BY DEF BeginCancel
<1>2. Owned(batches[n], bulkJob) /\ batches[n] \in Seq(ItemRecord) /\ Len(batches[n]) \in Nat
  <2>1. Owned(batches[n], bulkJob)
    BY <1>1 DEF BulkInv
  <2>. QED
    BY <2>1, LenProperties DEF Owned
<1>3. r \in ImporterRecord /\ r.at = "cancelling" /\ r.items = batches[n] /\ r.next = 1
  BY <1>2, IdlerOK DEF ImporterRecord
<1>. HIDE DEF r
<1>4. CancellingOK(r, bulkJob)
  BY <1>2, <1>3 DEF CancellingOK
<1>5. ImporterOK(r, bulkJob)
  BY <1>1, <1>2, <1>3, <1>4 DEF ImporterOK
<1>. QED
  BY <1>1, <1>5, QueueAlone DEF BulkInv

\* A job that is there moves on.
Moves(j, x) ==
  /\ j \in BulkIds /\ bulkJob' = [bulkJob EXCEPT ![j] = x] /\ BulkJobOK(x)
  /\ bulkJob[j].status # "none" /\ x.status # "none" /\ x.command = bulkJob[j].command
  /\ x.status = "pruned" \/ (x.key = bulkJob[j].key /\ bulkJob[j].status # "pruned")
  /\ x.status \in {"queued", "running"} =>
       /\ bulkJob[j].status \in {"queued", "running"}
       /\ bulkJob[j].told # "no" => x.told # "no"

LEMMA MovedOn ==
  ASSUME BulkInv, persistent' = persistent, NEW j, NEW x, Moves(j, x)
  PROVE  /\ bulkJob' \in [BulkIds -> BulkJob]
         /\ \A i \in BulkIds : bulkJob'[i] = IF i = j THEN x ELSE bulkJob[i]
         /\ \A i \in BulkIds : BulkJobOK(bulkJob'[i])
         /\ Cardinality(Unfinished(bulkJob')) <= QueueRoom
         /\ \A n \in DOMAIN batches : Owned(batches[n], bulkJob')
         /\ \A i \in Importers : ImporterOK(importer[i], bulkJob')
<1>. DEFINE q == bulkJob'
<1>1. /\ bulkJob \in [BulkIds -> BulkJob] /\ \A i \in BulkIds : BulkJobOK(bulkJob[i])
      /\ Cardinality(Unfinished(bulkJob)) <= QueueRoom /\ QueueRoom \in Nat
  BY BulkAssumption DEF BulkInv
<1>2. x \in BulkJob /\ j \in BulkIds
  BY DEF Moves, BulkJobOK
<1>3. q \in [BulkIds -> BulkJob] /\ \A i \in BulkIds : q[i] = IF i = j THEN x ELSE bulkJob[i]
  BY <1>1, <1>2 DEF Moves
<1>. HIDE DEF q
<1>4. \A i \in BulkIds : BulkJobOK(q[i])
  BY <1>1, <1>3 DEF Moves
<1>5. Unfinished(q) \subseteq Unfinished(bulkJob)
  BY <1>3 DEF Unfinished, Moves
<1>6. Cardinality(Unfinished(q)) <= QueueRoom
  <2>1. /\ IsFiniteSet(Unfinished(bulkJob)) /\ Cardinality(Unfinished(bulkJob)) \in Nat
        /\ Cardinality(Unfinished(q)) \in Nat
    BY BulkIdsFinite
  <2>2. Cardinality(Unfinished(q)) <= Cardinality(Unfinished(bulkJob))
    BY <1>5, <2>1, FS_Subset
  <2>. QED
    BY <1>1, <2>1, <2>2
<1>7. Onward(bulkJob, q)
  <2>. SUFFICES ASSUME NEW i \in BulkIds, bulkJob[i].status # "none"
                PROVE  /\ q[i].status # "none" /\ q[i].command = bulkJob[i].command
                       /\ q[i].status = "pruned" \/ (q[i].key = bulkJob[i].key /\ bulkJob[i].status # "pruned")
                       /\ i \in Unfinished(q) => i \in Unfinished(bulkJob)
                                                 /\ (bulkJob[i].told # "no" => q[i].told # "no")
    BY DEF Onward
  <2>1. CASE i = j
    BY <1>3, <1>5, <2>1 DEF Moves, Unfinished
  <2>2. CASE i # j
    BY <1>3, <1>5, <2>2 DEF Unfinished
  <2>. QED
    BY <2>1, <2>2
<1>8. /\ \A n \in DOMAIN batches : Owned(batches[n], q)
      /\ \A i \in Importers : ImporterOK(importer[i], q)
  BY <1>7, OwnedStill, ImporterStill DEF BulkInv
<1>. QED
  BY <1>3, <1>4, <1>6, <1>8 DEF q

\* In memory no job overtakes one that is queued before it.
LEMMA MemoryMoves ==
  ASSUME BulkInv, ~persistent, persistent' = persistent, batches' = batches, marked' = marked,
         importer' = importer, NEW j, NEW x, Moves(j, x), x.status \in {"running", "ended"},
         x.told = bulkJob[j].told, \A i \in BulkIds : i < j => bulkJob[i].status # "queued"
  PROVE  BulkInv'
<1>. DEFINE q == bulkJob'
<1>1. /\ q \in [BulkIds -> BulkJob] /\ \A i \in BulkIds : BulkJobOK(q[i])
      /\ \A i \in BulkIds : q[i] = IF i = j THEN x ELSE bulkJob[i]
      /\ Cardinality(Unfinished(q)) <= QueueRoom
      /\ \A n \in DOMAIN batches : Owned(batches[n], q)
      /\ \A i \in Importers : ImporterOK(importer[i], q)
  BY MovedOn
<1>. HIDE DEF q
<1>2. PICK edge \in [0..Len(batches) -> 0..MaxBulkJobs] :
         EdgesOK(edge, bulkJob) /\ MarksOK(marked, edge, bulkJob) /\ ToldOK(marked, bulkJob, edge)
  BY DEF BulkInv, MemoryOK
<1>3. /\ j \in BulkIds /\ bulkJob[j].status # "none" /\ QueueOK(bulkJob)
  BY DEF Moves, BulkInv, MemoryOK
<1>4. QueueOK(q)
  <2>1. \A i \in BulkIds : q[i].status # "pruned"
    BY <1>1, <1>3 DEF QueueOK
  <2>2. ASSUME NEW i \in BulkIds, NEW k \in BulkIds, i < k, q[i].status = "queued", q[k].status # "none"
        PROVE  q[k].status = "queued"
    <3>1. i # j /\ bulkJob[i].status = "queued"
      BY <1>1, <2>2
    <3>2. k # j
      BY <2>2, <3>1
    <3>3. q[k] = bulkJob[k]
      BY <1>1, <3>2
    <3>. QED
      BY <1>3, <2>2, <3>1, <3>3 DEF QueueOK
  <2>. QED
    BY <2>1, <2>2 DEF QueueOK
<1>5. EdgesOK(edge, q)
  <2>1. {i \in BulkIds : q[i].status # "none"} = {i \in BulkIds : bulkJob[i].status # "none"}
    BY <1>1, <1>3
  <2>. QED
    BY <1>2, <2>1 DEF EdgesOK
<1>6. MarksOK(marked, edge, q)
  <2>1. \A a \in DOMAIN marked : marked[a] \in BulkIds
    <3>1. marked \in Seq(BulkIds) /\ DOMAIN marked = 1..Len(marked)
      BY LenProperties DEF BulkInv
    <3>. QED
      BY <3>1, ElementOfSeq
  <2>2. \A i \in BulkIds : q[i].status = "queued" => bulkJob[i].status = "queued"
    BY <1>1
  <2>. QED
    BY <1>2, <2>1, <2>2 DEF MarksOK
<1>7. ToldOK(marked, q, edge)
  <2>1. \A i \in BulkIds : q[i].told = bulkJob[i].told
                           /\ (q[i].status = "queued" => bulkJob[i].status = "queued")
    BY <1>1
  <2>. QED
    BY <1>2, <2>1 DEF ToldOK
<1>8. MemoryOK'
  <2>1. EdgesOK(edge, bulkJob)' /\ MarksOK(marked, edge, bulkJob)' /\ ToldOK(marked, bulkJob, edge)'
    <3>1. EdgesOK(edge, bulkJob)'
      BY <1>5 DEF EdgesOK, q
    <3>2. MarksOK(marked, edge, bulkJob)'
      BY <1>6 DEF MarksOK, q
    <3>3. ToldOK(marked, bulkJob, edge)'
      BY <1>7 DEF ToldOK, Listed, q
    <3>. QED
      BY <3>1, <3>2, <3>3
  <2>2. QueueOK(bulkJob)'
    BY <1>4 DEF QueueOK, q
  <2>. QED
    BY <1>2, <2>1, <2>2 DEF MemoryOK
<1>9. \A i \in Importers : ImporterOK(importer[i], bulkJob)'
  BY <1>1 DEF ImporterOK, q
<1>10. \A i \in DOMAIN batches' : Owned(batches[i], bulkJob)'
  BY <1>1 DEF q
<1>11. \A i \in BulkIds : BulkJobOK(bulkJob[i])'
  BY <1>1 DEF BulkJobOK, q
<1>12. Cardinality(Unfinished(bulkJob)') <= QueueRoom
  BY <1>1 DEF Unfinished, q
<1>. QED
  BY <1>1, <1>8, <1>9, <1>10, <1>11, <1>12 DEF BulkInv, q

LEMMA KeyedMoves ==
  ASSUME BulkInv, persistent, persistent' = persistent, batches' = batches, marked' = marked,
         importer' = importer, NEW j, NEW x, Moves(j, x)
  PROVE  BulkInv'
<1>1. /\ bulkJob' \in [BulkIds -> BulkJob]
      /\ \A i \in BulkIds : BulkJobOK(bulkJob'[i])
      /\ Cardinality(Unfinished(bulkJob')) <= QueueRoom
      /\ \A n \in DOMAIN batches : Owned(batches[n], bulkJob')
      /\ \A i \in Importers : ImporterOK(importer[i], bulkJob')
  BY MovedOn
<1>2. KeyedStep
  BY <1>1 DEF KeyedStep, BulkInv
<1>. QED
  BY <1>2, KeyedStepKeeps

LEMMA BulkStartKeeps ==
  ASSUME BulkInv, BulkJobStarts
  PROVE  BulkInv'
<1>. DEFINE j == Earliest(Waiting(bulkJob))
            old == bulkJob[j]
            ended == [old EXCEPT !.status = "ended"]
            running == [old EXCEPT !.status = "running", !.began = TRUE]
<1>1. /\ Waiting(bulkJob) # {} /\ persistent' = persistent /\ batches' = batches
      /\ marked' = marked /\ importer' = importer
      /\ IF ~persistent /\ j \in ToSet(marked)
         THEN bulkJob' = [bulkJob EXCEPT ![j] = ended]
         ELSE bulkJob' = [bulkJob EXCEPT ![j] = running]
  BY DEF BulkJobStarts
<1>2. j \in Waiting(bulkJob) /\ \A i \in Waiting(bulkJob) : j <= i
  <2>1. Waiting(bulkJob) \in SUBSET Nat
    BY BulkIdsFinite DEF Waiting
  <2>. QED
    BY <1>1, <2>1, EarliestIs
<1>. HIDE DEF j
<1>3. /\ j \in BulkIds /\ old.status = "queued" /\ old \in BulkJob /\ BulkJobOK(old)
      /\ \A i \in BulkIds : i < j => bulkJob[i].status # "queued"
  <2>1. \A i \in Waiting(bulkJob) : ~(i < j)
    <3>1. Waiting(bulkJob) \subseteq Nat
      BY BulkIdsFinite DEF Waiting
    <3>2. \A i, k \in Nat : k <= i => ~(i < k)
      OBVIOUS
    <3>. QED
      BY <1>2, <3>1, <3>2
  <2>2. j \in BulkIds /\ bulkJob[j].status = "queued"
    BY <1>2 DEF Waiting
  <2>3. bulkJob[j] \in BulkJob /\ BulkJobOK(bulkJob[j])
    BY <2>2 DEF BulkInv
  <2>4. \A i \in BulkIds : i < j => bulkJob[i].status # "queued"
    BY <2>1 DEF Waiting
  <2>. QED
    BY <2>2, <2>3, <2>4
<1>. HIDE DEF old
<1>4. /\ ended \in BulkJob /\ ended.status = "ended" /\ ended.told = old.told
      /\ ended.key = old.key /\ ended.command = old.command /\ ended.began = old.began
      /\ running \in BulkJob /\ running.status = "running" /\ running.told = old.told
      /\ running.key = old.key /\ running.command = old.command
  BY <1>3 DEF BulkJob
<1>. HIDE DEF ended, running
<1>5. CASE ~persistent /\ j \in ToSet(marked)
  <2>1. BulkJobOK(ended)
    BY <1>3, <1>4, <1>5 DEF BulkJobOK
  <2>2. Moves(j, ended)
    BY <1>1, <1>3, <1>4, <1>5, <2>1 DEF Moves, old
  <2>. QED
    BY <1>1, <1>3, <1>4, <1>5, <2>2, MemoryMoves DEF old
<1>6. CASE ~(~persistent /\ j \in ToSet(marked))
  <2>1. old.told # "queued"
    <3>1. CASE persistent
      BY <1>3, <3>1 DEF BulkJobOK
    <3>2. CASE ~persistent
      <4>1. PICK edge \in [0..Len(batches) -> 0..MaxBulkJobs] : ToldOK(marked, bulkJob, edge)
        BY <3>2 DEF BulkInv, MemoryOK
      <4>. QED
        BY <1>3, <1>6, <3>2, <4>1 DEF ToldOK, old
    <3>. QED
      BY <3>1, <3>2
  <2>2. BulkJobOK(running)
    BY <1>4, <2>1 DEF BulkJobOK
  <2>3. Moves(j, running)
    BY <1>1, <1>3, <1>4, <1>6, <2>2 DEF Moves, old
  <2>. QED
    BY <1>1, <1>3, <1>4, <2>3, MemoryMoves, KeyedMoves DEF old
<1>. QED
  BY <1>5, <1>6

LEMMA BulkEndKeeps ==
  ASSUME BulkInv, NEW j \in BulkIds, BulkJobEnds(j)
  PROVE  BulkInv'
<1>. DEFINE old == bulkJob[j]
            x == [old EXCEPT !.status = "ended"]
<1>1. /\ old.status = "running" /\ persistent' = persistent /\ batches' = batches
      /\ marked' = marked /\ importer' = importer /\ bulkJob' = [bulkJob EXCEPT ![j] = x]
  BY DEF BulkJobEnds
<1>2. old \in BulkJob /\ BulkJobOK(old)
  BY DEF BulkInv
<1>. HIDE DEF old
<1>3. /\ x \in BulkJob /\ x.status = "ended" /\ x.told = old.told
      /\ x.key = old.key /\ x.command = old.command /\ x.began = old.began
  BY <1>2 DEF BulkJob
<1>. HIDE DEF x
<1>4. BulkJobOK(x)
  BY <1>2, <1>3 DEF BulkJobOK
<1>5. Moves(j, x)
  BY <1>1, <1>3, <1>4 DEF Moves, old
<1>6. CASE persistent
  BY <1>1, <1>5, <1>6, KeyedMoves
<1>7. CASE ~persistent
  <2>1. \A i \in BulkIds : i < j => bulkJob[i].status # "queued"
    BY <1>1, <1>7 DEF BulkInv, MemoryOK, QueueOK, old
  <2>. QED
    BY <1>1, <1>3, <1>5, <1>7, <2>1, MemoryMoves DEF old
<1>. QED
  BY <1>6, <1>7

LEMMA BulkPruneKeeps ==
  ASSUME BulkInv, NEW j \in BulkIds, BulkJobPruned(j)
  PROVE  BulkInv'
<1>. DEFINE old == bulkJob[j]
            x == [NewJob(old.command, NoImportKey) EXCEPT !.status = "pruned"]
<1>1. /\ persistent /\ old.status = "ended" /\ persistent' = persistent /\ batches' = batches
      /\ marked' = marked /\ importer' = importer /\ bulkJob' = [bulkJob EXCEPT ![j] = x]
  BY DEF BulkJobPruned
<1>2. old \in BulkJob
  BY DEF BulkInv
<1>. HIDE DEF old
<1>3. /\ x \in BulkJob /\ x.status = "pruned" /\ x.told = "no"
      /\ x.key = NoImportKey /\ x.command = old.command
  BY <1>2 DEF BulkJob, NewJob
<1>. HIDE DEF x
<1>4. BulkJobOK(x)
  BY <1>3 DEF BulkJobOK
<1>5. Moves(j, x)
  BY <1>1, <1>3, <1>4 DEF Moves, old
<1>. QED
  BY <1>1, <1>5, KeyedMoves

LEMMA CancelItemKeeps ==
  ASSUME BulkInv, NEW i \in Importers, CancelItem(i)
  PROVE  BulkInv'
<1>. DEFINE old == importer[i]
            r == [old EXCEPT !.next = old.next + 1]
            j == old.items[old.next].job
<1>1. /\ old.at = "cancelling" /\ old.next <= Len(old.items)
      /\ importer' = [importer EXCEPT ![i] = r]
      /\ persistent' = persistent /\ batches' = batches /\ marked' = marked
  BY DEF CancelItem
<1>2. ImporterOK(old, bulkJob) /\ persistent /\ CancellingOK(old, bulkJob) /\ old \in ImporterRecord
  BY <1>1 DEF BulkInv, ImporterOK
<1>3. bulkJob' = IF j = NoJob THEN bulkJob ELSE [bulkJob EXCEPT ![j] = ToldToStop(bulkJob[j])]
  BY DEF CancelItem
<1>. HIDE DEF old
<1>4. /\ old.next \in Nat \ {0} /\ old.items \in Seq(ItemRecord) /\ Owned(old.items, bulkJob)
      /\ DOMAIN old.items = 1..Len(old.items) /\ Len(old.items) \in Nat
  <2>1. old.next \in Nat \ {0} /\ old.items \in Seq(ItemRecord)
    BY <1>2 DEF ImporterRecord
  <2>. QED
    BY <1>2, <2>1, LenProperties DEF ImporterOK
<1>5. old.next \in DOMAIN old.items
  BY <1>1, <1>4
<1>6. /\ r \in ImporterRecord /\ r.at = "cancelling" /\ r.items = old.items /\ r.next = old.next + 1
  BY <1>1, <1>2, <1>4 DEF ImporterRecord
<1>. HIDE DEF r, j
\* The cancelling that goes on, once the jobs are q.
<1>7. ASSUME NEW q, Owned(old.items, q), CancellingOK(old, q),
             j # NoJob => j \notin Unfinished(q) \/ q[j].told # "no"
      PROVE  ImporterOK(r, q)
  <2>1. r.next <= Len(r.items) + 1
    BY <1>1, <1>4, <1>6
  <2>2. \A k \in 1..(r.next - 1) : k \in 1..(old.next - 1) \/ k = old.next
    BY <1>4, <1>6
  <2>3. \A k \in 1..(r.next - 1) : r.items[k].job # NoJob =>
          r.items[k].job \notin Unfinished(q) \/ q[r.items[k].job].told # "no"
    BY <1>6, <1>7, <2>2 DEF CancellingOK, j
  <2>4. CancellingOK(r, q)
    BY <2>1, <2>3 DEF CancellingOK
  <2>. QED
    BY <1>2, <1>6, <1>7, <2>4 DEF ImporterOK
<1>8. CASE j = NoJob
  <2>1. bulkJob' = bulkJob
    BY <1>3, <1>8
  <2>2. ImporterOK(r, bulkJob)
    BY <1>2, <1>4, <1>7, <1>8
  <2>. QED
    BY <1>1, <1>2, <2>1, <2>2, QueueAlone DEF BulkInv
<1>9. CASE j # NoJob
  <2>. DEFINE told == Told(bulkJob[j])
              x == ToldToStop(bulkJob[j])
  <2>1. j \in BulkIds /\ bulkJob[j].status # "none"
    <3>1. j \in BulkIds
      BY <1>4, <1>5, <1>9, ItemJobs DEF j
    <3>2. bulkJob[j].status # "none"
      BY <1>4, <1>5, <1>9 DEF Owned, j
    <3>. QED
      BY <3>1, <3>2
  <2>2. bulkJob[j] \in BulkJob /\ BulkJobOK(bulkJob[j])
    BY <2>1 DEF BulkInv
  <2>3. /\ told \in BulkJob
        /\ told.status = bulkJob[j].status /\ told.key = bulkJob[j].key
        /\ told.command = bulkJob[j].command /\ told.began = bulkJob[j].began
        /\ bulkJob[j].told # "no" => told.told = bulkJob[j].told
        /\ told.told = "queued" => bulkJob[j].told = "queued" \/ bulkJob[j].status = "queued"
        /\ told.told = "no" => bulkJob[j].status = "pruned"
    BY <2>2, ToldRecord
  <2>4. bulkJob' = [bulkJob EXCEPT ![j] = x]
    BY <1>3, <1>9
  <2>5. /\ x \in BulkJob /\ x.key = told.key /\ x.command = told.command /\ x.told = told.told
        /\ x.began = told.began
        /\ x.status = IF told.status = "queued" THEN "ended" ELSE told.status
    BY <2>3 DEF BulkJob, ToldToStop
  <2>. HIDE DEF x, told
  <2>6. BulkJobOK(x)
    BY <2>1, <2>2, <2>3, <2>5 DEF BulkJobOK
  <2>7. Moves(j, x)
    <3>1. x.status = "pruned" \/ (x.key = bulkJob[j].key /\ bulkJob[j].status # "pruned")
      BY <2>3, <2>5
    <3>2. x.status \in {"queued", "running"} =>
            /\ bulkJob[j].status \in {"queued", "running"}
            /\ bulkJob[j].told # "no" => x.told # "no"
      BY <2>3, <2>5
    <3>3. x.status # "none" /\ x.command = bulkJob[j].command
      BY <2>1, <2>3, <2>5
    <3>. QED
      BY <2>1, <2>4, <2>6, <3>1, <3>2, <3>3 DEF Moves
  <2>8. /\ bulkJob' \in [BulkIds -> BulkJob]
        /\ \A k \in BulkIds : bulkJob'[k] = IF k = j THEN x ELSE bulkJob[k]
        /\ \A k \in BulkIds : BulkJobOK(bulkJob'[k])
        /\ Cardinality(Unfinished(bulkJob')) <= QueueRoom
        /\ \A n \in DOMAIN batches : Owned(batches[n], bulkJob')
        /\ \A k \in Importers : ImporterOK(importer[k], bulkJob')
    BY <1>1, <2>7, MovedOn
  <2>9. ImporterOK(r, bulkJob')
    <3>1. ImporterOK(old, bulkJob')
      BY <2>8 DEF old
    <3>2. Owned(old.items, bulkJob') /\ CancellingOK(old, bulkJob')
      BY <1>1, <3>1 DEF ImporterOK
    <3>3. j \notin Unfinished(bulkJob') \/ bulkJob'[j].told # "no"
      <4>1. bulkJob'[j] = x
        BY <2>1, <2>8
      <4>2. x.told # "no" \/ x.status = "pruned"
        BY <2>3, <2>5
      <4>. QED
        BY <4>1, <4>2 DEF Unfinished
    <3>. QED
      BY <1>7, <3>2, <3>3
  <2>10. /\ importer' = [k \in Importers |-> IF k = i THEN r ELSE importer[k]]
         /\ importer' = [k \in Importers |-> importer'[k]]
    <3>1. importer' = [k \in Importers |-> IF k = i THEN r ELSE importer[k]]
      BY <1>1 DEF BulkInv
    <3>. QED
      BY <3>1
  <2>11. \A k \in Importers : ImporterOK(importer'[k], bulkJob')
    BY <2>8, <2>9, <2>10
  <2>12. KeyedStep
    BY <1>1, <1>2, <2>8, <2>10, <2>11 DEF KeyedStep, BulkInv
  <2>. QED
    BY <2>12, KeyedStepKeeps
<1>. QED
  BY <1>8, <1>9

\* One command under its key: its job is there and is this command's, or is new, and
\* no other item of the request has it.
LEMMA SubmittedOK ==
  ASSUME BulkInv, NEW i \in Importers, SubmitItem(i)
  PROVE  LET old == importer[i]
             c == old.manifest[old.next]
             k == PlaceKey(old.key, old.next)
             s == Submitted(bulkJob, c, k)
         IN /\ s.jobs \in [BulkIds -> BulkJob] /\ \A j \in BulkIds : BulkJobOK(s.jobs[j])
            /\ Cardinality(Unfinished(s.jobs)) <= QueueRoom
            /\ Onward(bulkJob, s.jobs)
            /\ s.item \in ItemRecord
            /\ s.item.job # NoJob =>
                 /\ s.jobs[s.item.job].status # "none" /\ s.jobs[s.item.job].command = s.item.command
                 /\ s.jobs[s.item.job].key = k
                 /\ \A o \in DOMAIN old.items : old.items[o].job # s.item.job
<1>. DEFINE old == importer[i]
            c == old.manifest[old.next]
            k == PlaceKey(old.key, old.next)
            s == Submitted(bulkJob, c, k)
            same == {j \in BulkIds : k # NoImportKey /\ bulkJob[j].key = k}
<1>1. old.at = "importing" /\ Fresh(bulkJob) # {} /\ old.next <= Len(old.manifest)
  BY DEF SubmitItem
<1>2. /\ ImporterOK(old, bulkJob) /\ persistent /\ ImportingOK(old, bulkJob) /\ old \in ImporterRecord
      /\ Owned(old.items, bulkJob)
  BY <1>1 DEF BulkInv, ImporterOK
<1>. HIDE DEF old
<1>3. /\ old.next \in Nat \ {0} /\ old.items \in Seq(ItemRecord) /\ old.key \in ImportKeys \cup {NoImportKey}
      /\ old.manifest \in Manifests /\ Len(old.items) = old.next - 1
      /\ DOMAIN old.items = 1..(old.next - 1)
  <2>1. /\ old.next \in Nat \ {0} /\ old.items \in Seq(ItemRecord)
        /\ old.key \in ImportKeys \cup {NoImportKey}
    BY <1>2 DEF ImporterRecord
  <2>2. old.manifest \in Manifests /\ Len(old.items) = old.next - 1
    BY <1>2 DEF ImportingOK
  <2>. QED
    BY <2>1, <2>2, LenProperties
<1>4. c \in AllCommands
  <2>1. old.manifest \in Seq(ToSet(old.manifest))
    BY <1>3, BulkAssumption
  <2>2. old.next \in 1..Len(old.manifest)
    BY <1>1, <1>3, <2>1, LenProperties
  <2>3. c \in ToSet(old.manifest)
    BY <2>1, <2>2, ElementOfSeq
  <2>. QED
    BY <1>3, <2>3 DEF AllCommands
<1>5. /\ k \in {NoImportKey} \cup (ImportKeys \X Nat)
      /\ k # NoImportKey => old.key # NoImportKey /\ k = <<old.key, old.next>>
  BY <1>3 DEF PlaceKey
<1>. HIDE DEF c
<1>6. /\ bulkJob \in [BulkIds -> BulkJob] /\ \A j \in BulkIds : BulkJobOK(bulkJob[j])
      /\ Cardinality(Unfinished(bulkJob)) <= QueueRoom /\ QueueRoom \in Nat
      /\ Cardinality(Unfinished(bulkJob)) \in Nat
  BY BulkIdsFinite, BulkAssumption DEF BulkInv
<1>7. Onward(bulkJob, bulkJob)
  <2>1. \A j \in BulkIds : bulkJob[j].status # "none" =>
          bulkJob[j].status = "pruned" \/ (bulkJob[j].key = bulkJob[j].key /\ bulkJob[j].status # "pruned")
    OBVIOUS
  <2>. QED
    BY <2>1 DEF Onward
<1>8. \A o \in DOMAIN old.items : old.items[o].job # NoJob =>
        /\ old.items[o].job \in BulkIds /\ bulkJob[old.items[o].job].status # "none"
        /\ bulkJob[old.items[o].job].status = "pruned"
           \/ bulkJob[old.items[o].job].key = PlaceKey(old.key, o)
  BY <1>2, <1>3, ItemJobs DEF Owned, ImportingOK
<1>9. CASE same # {}
  <2>. DEFINE j == CHOOSE j \in same : TRUE
  <2>1. j \in same
    BY <1>9
  <2>2. s = [jobs |-> bulkJob, item |-> Item(IF bulkJob[j].command = c THEN j ELSE NoJob, c)]
    BY <1>9 DEF Submitted
  <2>. HIDE DEF j
  <2>3. j \in BulkIds /\ k # NoImportKey /\ bulkJob[j].key = k
    BY <2>1
  <2>. HIDE DEF same, s
  <2>4. bulkJob[j].status # "none" /\ bulkJob[j].status # "pruned"
    BY <1>6, <2>3 DEF BulkJobOK
  <2>5. \A o \in DOMAIN old.items : old.items[o].job # j
    <3>. SUFFICES ASSUME NEW o \in DOMAIN old.items, old.items[o].job = j PROVE FALSE
      OBVIOUS
    <3>1. j # NoJob
      BY <2>3 DEF BulkIds, NoJob
    <3>2. k = PlaceKey(old.key, o)
      BY <1>8, <2>3, <2>4, <3>1
    <3>3. k = <<old.key, o>> /\ k = <<old.key, old.next>>
      BY <1>5, <2>3, <3>2 DEF PlaceKey
    <3>4. o = old.next
      BY <3>3
    <3>. QED
      BY <1>3, <3>4
  <2>6. s.jobs = bulkJob /\ s.item.command = c /\ s.item.job \in BulkIds \cup {NoJob}
        /\ s.item \in ItemRecord /\ (s.item.job # NoJob => s.item.job = j /\ bulkJob[j].command = c)
    BY <1>4, <2>2, <2>3 DEF Item, ItemRecord
  <2>7. s.item.job # NoJob =>
          /\ s.jobs[s.item.job].status # "none" /\ s.jobs[s.item.job].command = s.item.command
          /\ s.jobs[s.item.job].key = k /\ \A o \in DOMAIN old.items : old.items[o].job # s.item.job
    BY <2>3, <2>4, <2>5, <2>6
  <2>. QED
    BY <1>6, <1>7, <2>6, <2>7 DEF s, c, old
<1>10. CASE same = {} /\ Cardinality(Unfinished(bulkJob)) >= QueueRoom
  <2>1. s = [jobs |-> bulkJob, item |-> Item(NoJob, c)]
    BY <1>10 DEF Submitted
  <2>. HIDE DEF s
  <2>2. s.jobs = bulkJob /\ s.item \in ItemRecord /\ s.item.job = NoJob
    BY <1>4, <2>1 DEF Item, ItemRecord
  <2>. QED
    BY <1>6, <1>7, <2>2 DEF s, c, old
<1>11. CASE same = {} /\ ~(Cardinality(Unfinished(bulkJob)) >= QueueRoom)
  <2>. DEFINE j == Earliest(Fresh(bulkJob))
  <2>1. s = [jobs |-> [bulkJob EXCEPT ![j] = NewJob(c, k)], item |-> Item(j, c)]
    BY <1>11 DEF Submitted
  <2>2. j \in BulkIds /\ bulkJob[j].status = "none"
    <3>1. Fresh(bulkJob) \in SUBSET Nat
      BY BulkIdsFinite DEF Fresh
    <3>2. j \in Fresh(bulkJob)
      BY <1>1, <3>1, EarliestIs
    <3>. QED
      BY <3>2 DEF Fresh
  <2>. HIDE DEF j, s, k
  <2>3. s.jobs = [bulkJob EXCEPT ![j] = NewJob(c, k)] /\ s.item = Item(j, c)
    BY <2>1
  <2>4. s.item \in ItemRecord /\ s.item.job = j /\ s.item.command = c
    BY <1>4, <2>2, <2>3 DEF Item, ItemRecord
  <2>5. Adds(bulkJob, s.jobs, j, c, k)
    BY <1>4, <1>5, <1>6, <2>2, <2>3 DEF Adds
  <2>6. Added(bulkJob, s.jobs, j, c, k)
    BY <2>5, OneMoreJob
  <2>7. /\ s.jobs \in [BulkIds -> BulkJob]
        /\ s.jobs[j] = NewJob(c, k) /\ \A o \in BulkIds : o # j => s.jobs[o] = bulkJob[o]
        /\ Cardinality(Unfinished(s.jobs)) <= QueueRoom
    BY <1>6, <1>11, <2>6 DEF Added
  <2>8. /\ BulkJobOK(s.jobs[j]) /\ s.jobs[j].status # "none" /\ s.jobs[j].command = c
        /\ s.jobs[j].key = k
    BY <1>2, <1>4, <1>5, <2>7, NewJobOK
  <2>9. \A o \in BulkIds : BulkJobOK(s.jobs[o])
    BY <1>6, <2>7, <2>8
  <2>10. Onward(bulkJob, s.jobs)
    <3>1. \A o \in BulkIds : bulkJob[o].status # "none" => s.jobs[o] = bulkJob[o]
      BY <2>2, <2>7
    <3>. QED
      BY <3>1 DEF Onward, Unfinished
  <2>11. \A o \in DOMAIN old.items : old.items[o].job # j
    <3>1. j # NoJob
      BY <2>2 DEF BulkIds, NoJob
    <3>. QED
      BY <1>8, <2>2, <3>1
  <2>. QED
    BY <2>4, <2>7, <2>8, <2>9, <2>10, <2>11 DEF s, c, k, old
<1>. QED
  BY <1>9, <1>10, <1>11

LEMMA SubmitItemKeeps ==
  ASSUME BulkInv, NEW i \in Importers, SubmitItem(i)
  PROVE  BulkInv'
<1>. DEFINE old == importer[i]
            k == PlaceKey(old.key, old.next)
            s == Submitted(bulkJob, old.manifest[old.next], k)
            q == s.jobs
            items == Append(old.items, s.item)
            r == ItemKept(old, s.item)
            new == s.item.job
<1>1. /\ old.at = "importing" /\ old.next <= Len(old.manifest)
      /\ bulkJob' = q /\ importer' = [importer EXCEPT ![i] = r]
      /\ persistent' = persistent /\ batches' = batches /\ marked' = marked
  BY DEF SubmitItem
<1>2. /\ ImporterOK(old, bulkJob) /\ persistent /\ ImportingOK(old, bulkJob) /\ old \in ImporterRecord
  BY <1>1 DEF BulkInv, ImporterOK
<1>3. /\ q \in [BulkIds -> BulkJob] /\ \A j \in BulkIds : BulkJobOK(q[j])
      /\ Cardinality(Unfinished(q)) <= QueueRoom
      /\ Onward(bulkJob, q)
      /\ s.item \in ItemRecord
      /\ new # NoJob =>
           /\ q[new].status # "none" /\ q[new].command = s.item.command /\ q[new].key = k
           /\ \A o \in DOMAIN old.items : old.items[o].job # new
  BY SubmittedOK
<1>4. /\ \A j \in Importers : ImporterOK(importer[j], q)
      /\ \A n \in DOMAIN batches : Owned(batches[n], q)
  BY <1>3, OwnedStill, ImporterStill DEF BulkInv
<1>. HIDE DEF q, s
<1>5. ImporterOK(old, q) /\ Owned(old.items, q) /\ ImportingOK(old, q)
  BY <1>1, <1>4 DEF ImporterOK
<1>. HIDE DEF old, k
<1>6. /\ old.next \in Nat \ {0} /\ old.items \in Seq(ItemRecord) /\ old.manifest \in Manifests
      /\ Len(old.items) = old.next - 1 /\ DOMAIN old.items = 1..(old.next - 1)
      /\ Len(old.manifest) \in Nat
  <2>1. old.next \in Nat \ {0} /\ old.items \in Seq(ItemRecord)
    BY <1>2 DEF ImporterRecord
  <2>2. old.manifest \in Manifests /\ Len(old.items) = old.next - 1
    BY <1>2 DEF ImportingOK
  <2>3. Len(old.manifest) \in Nat
    BY <2>2, LenProperties, BulkAssumption
  <2>. QED
    BY <2>1, <2>2, <2>3, LenProperties
<1>7. /\ items \in Seq(ItemRecord) /\ Len(items) = old.next /\ DOMAIN items = 1..old.next
      /\ items[old.next] = s.item /\ \A o \in 1..(old.next - 1) : items[o] = old.items[o]
  BY <1>3, <1>6, AppendProperties, LenProperties
<1>8. /\ \A o \in DOMAIN items : o = old.next \/ (o \in DOMAIN old.items /\ items[o] = old.items[o])
      /\ \A o \in DOMAIN old.items : o \in DOMAIN items /\ o # old.next /\ items[o] = old.items[o]
  BY <1>6, <1>7
<1>. HIDE DEF items
<1>9. /\ r \in ImporterRecord /\ r.at = "importing" /\ r.items = items /\ r.next = old.next + 1
      /\ r.key = old.key /\ r.manifest = old.manifest
  <2>1. old \in ImporterRecord /\ items \in Seq(ItemRecord) /\ old.next + 1 \in Nat \ {0}
    BY <1>2, <1>6, <1>7
  <2>2. r = [old EXCEPT !.items = items, !.next = old.next + 1]
    BY Zenon DEF ItemKept, items
  <2>. HIDE DEF r
  <2>. QED
    BY <1>1, <2>1, <2>2 DEF ImporterRecord
<1>. HIDE DEF r
<1>10. Owned(items, q)
  <2>. SUFFICES ASSUME NEW o \in DOMAIN items, items[o].job # NoJob
                PROVE  /\ q[items[o].job].status # "none"
                       /\ q[items[o].job].command = items[o].command
                       /\ \A p \in DOMAIN items : items[p].job = items[o].job => p = o
    BY <1>7 DEF Owned
  <2>1. CASE o = old.next
    <3>1. items[o] = s.item /\ new # NoJob
      BY <1>7, <2>1
    <3>2. \A p \in DOMAIN items : items[p].job = new => p = o
      BY <1>3, <1>8, <2>1, <3>1
    <3>. QED
      BY <1>3, <3>1, <3>2
  <2>2. CASE o # old.next
    <3>1. o \in DOMAIN old.items /\ items[o] = old.items[o]
      BY <1>8, <2>2
    <3>2. /\ q[items[o].job].status # "none"
          /\ q[items[o].job].command = items[o].command
          /\ \A p \in DOMAIN old.items : old.items[p].job = items[o].job => p = o
      BY <1>5, <3>1 DEF Owned
    <3>3. s.item.job # items[o].job
      BY <1>3, <3>1
    <3>4. \A p \in DOMAIN items : items[p].job = items[o].job => p = o
      BY <1>7, <1>8, <3>2, <3>3
    <3>. QED
      BY <3>2, <3>4
  <2>. QED
    BY <2>1, <2>2
<1>11. ImportingOK(r, q)
  <2>1. ASSUME NEW o \in DOMAIN items, items[o].job # NoJob
        PROVE  q[items[o].job].status = "pruned" \/ q[items[o].job].key = PlaceKey(r.key, o)
    <3>1. CASE o = old.next
      <4>1. items[o] = s.item
        BY <1>7, <3>1
      <4>. QED
        BY <1>3, <1>9, <2>1, <3>1, <4>1 DEF k
    <3>2. CASE o # old.next
      <4>1. o \in DOMAIN old.items /\ items[o] = old.items[o]
        BY <1>8, <3>2
      <4>. QED
        BY <1>5, <1>9, <2>1, <4>1 DEF ImportingOK
    <3>. QED
      BY <3>1, <3>2
  <2>2. Len(r.items) = r.next - 1 /\ r.next <= Len(r.manifest) + 1 /\ r.manifest \in Manifests
    BY <1>1, <1>6, <1>7, <1>9 DEF old
  <2>. QED
    BY <1>9, <2>1, <2>2 DEF ImportingOK
<1>12. ImporterOK(r, q)
  BY <1>2, <1>9, <1>10, <1>11 DEF ImporterOK
<1>13. /\ importer' = [j \in Importers |-> IF j = i THEN r ELSE importer[j]]
       /\ importer' = [j \in Importers |-> importer'[j]]
  <2>1. importer' = [j \in Importers |-> IF j = i THEN r ELSE importer[j]]
    BY <1>1 DEF BulkInv
  <2>. QED
    BY <2>1
<1>14. \A j \in Importers : ImporterOK(importer'[j], q)
  BY <1>4, <1>12, <1>13
<1>15. KeyedStep
  BY <1>1, <1>2, <1>3, <1>4, <1>13, <1>14 DEF KeyedStep, BulkInv
<1>. QED
  BY <1>15, KeyedStepKeeps

LEMMA BulkInit ==
  ASSUME InitBulk
  PROVE  BulkInv
<1>. DEFINE none == [status |-> "none", key |-> NoImportKey, command |-> "none",
                     told |-> "no", began |-> FALSE]
<1>1. none \in BulkJob /\ BulkJobOK(none) /\ none.status = "none" /\ none.told = "no"
  BY DEF BulkJob, BulkJobOK
<1>2. /\ persistent \in BOOLEAN /\ bulkJob = [j \in BulkIds |-> none]
      /\ batches = <<>> /\ marked = <<>> /\ importer = [i \in Importers |-> Idler]
  BY DEF InitBulk
<1>. HIDE DEF none
<1>3. /\ bulkJob \in [BulkIds -> BulkJob] /\ \A j \in BulkIds : bulkJob[j] = none
  BY <1>1, <1>2
<1>4. /\ <<>> \in Seq(BulkIds) /\ <<>> \in Seq(Seq(ItemRecord)) /\ Len(<<>>) = 0 /\ DOMAIN <<>> = {}
      /\ MaxBatches \in Nat /\ MaxMarkers \in Nat /\ QueueRoom \in Nat /\ MaxBulkJobs \in Nat
  BY BulkAssumption
<1>5. Unfinished(bulkJob) = {} /\ Cardinality(Unfinished(bulkJob)) = 0
  <2>1. Unfinished(bulkJob) = {}
    BY <1>1, <1>3 DEF Unfinished
  <2>. QED
    BY <2>1, FS_EmptySet
<1>6. /\ importer = [i \in Importers |-> importer[i]]
      /\ \A i \in Importers : ImporterOK(importer[i], bulkJob)
  BY <1>2, IdlerOK
<1>7. MemoryOK
  <2>. DEFINE edge == [n \in 0..0 |-> 0]
  <2>1. edge \in [0..Len(batches) -> 0..MaxBulkJobs] /\ edge[0] = 0
    BY <1>2, <1>4
  <2>. HIDE DEF edge
  <2>2. EdgesOK(edge, bulkJob)
    <3>1. {j \in BulkIds : bulkJob[j].status # "none"} = 1..edge[0]
      BY <1>1, <1>3, <2>1
    <3>2. \A n, m \in 0..Len(batches) : n = 0 /\ m = 0 /\ m - n = 0
      BY <1>2, <1>4
    <3>3. \A n, m \in 0..Len(batches) : n <= m =>
            edge[m] <= edge[n] /\ edge[n] <= edge[m] + InBatches(m - n)
      <4>1. InBatches(0) = 0
        BY Spans
      <4>2. \A n, m \in 0..Len(batches) :
              edge[n] = 0 /\ edge[m] = 0 /\ InBatches(m - n) = 0
        BY <2>1, <3>2, <4>1
      <4>. QED
        BY <4>2
    <3>. QED
      BY <1>2, <1>4, <2>1, <3>1, <3>3 DEF EdgesOK
  <2>3. MarksOK(marked, edge, bulkJob)
    BY <1>2, <1>4 DEF MarksOK
  <2>4. ToldOK(marked, bulkJob, edge) /\ QueueOK(bulkJob)
    BY <1>1, <1>3 DEF ToldOK, QueueOK
  <2>. QED
    BY <2>1, <2>2, <2>3, <2>4 DEF MemoryOK
<1>. QED
  BY <1>1, <1>2, <1>3, <1>4, <1>5, <1>6, <1>7 DEF BulkInv

LEMMA BulkHoldsByInv ==
  ASSUME BulkInv
  PROVE  BulkHolds
<1>1. BulkTypeOK
  <2>1. \A n \in DOMAIN batches : \A k \in DOMAIN batches[n] :
          batches[n][k] \in [job : BulkIds \cup {NoJob}, command : AllCommands]
    <3>1. \A n \in DOMAIN batches : batches[n] \in Seq(ItemRecord)
      BY DEF BulkInv, Owned
    <3>2. \A n \in DOMAIN batches : \A k \in DOMAIN batches[n] : k \in 1..Len(batches[n])
      BY <3>1, LenProperties
    <3>. QED
      BY <3>1, <3>2, ElementOfSeq DEF ItemRecord
  <2>. QED
    BY <2>1 DEF BulkTypeOK, BulkInv
<1>2. CancelledNeverRuns
  <2>1. \A j \in BulkIds : bulkJob[j].told = "queued" => ~bulkJob[j].began
    BY DEF BulkInv, BulkJobOK
  <2>2. ASSUME ~persistent, NEW n \in DOMAIN batches, NEW k \in DOMAIN batches[n],
               batches[n][k].job # NoJob, bulkJob[batches[n][k].job].told # "no"
        PROVE  batches[n][k].job \in ToSet(marked)
    <3>1. PICK edge \in [0..Len(batches) -> 0..MaxBulkJobs] :
            EdgesOK(edge, bulkJob) /\ ToldOK(marked, bulkJob, edge)
      BY <2>2 DEF BulkInv, MemoryOK
    <3>. DEFINE j == batches[n][k].job
    <3>2. j \in BulkIds
      BY <2>2, ItemJobs DEF BulkInv, Owned
    <3>3. Listed(j, edge)
      BY <2>2, <3>1 DEF EdgesOK, Listed
    <3>. QED
      BY <2>2, <3>1, <3>2, <3>3 DEF ToldOK
  <2>. QED
    BY <2>1, <2>2 DEF CancelledNeverRuns
<1>3. ItemsAreTheirOwn
  <2>1. \A items \in ToSet(batches) \cup {importer[i].items : i \in Importers} : Owned(items, bulkJob)
    <3>1. \A items \in ToSet(batches) : Owned(items, bulkJob)
      BY DEF BulkInv, ToSet
    <3>2. \A i \in Importers : Owned(importer[i].items, bulkJob)
      BY DEF BulkInv, ImporterOK
    <3>. QED
      BY <3>1, <3>2
  <2>. QED
    BY <2>1 DEF ItemsAreTheirOwn, Owned
<1>4. CancellationReaches
  BY DEF BulkInv, ImporterOK, CancellingOK, CancellationReaches
<1>. QED
  BY <1>1, <1>2, <1>3, <1>4 DEF BulkHolds

LEMMA BulkStep ==
  ASSUME BulkInv, [NextBulk]_bulkVars
  PROVE  BulkInv'
<1>1. CASE UNCHANGED bulkVars
  <2>1. BulkInv' <=> BulkInv
    BY <1>1 DEF bulkVars, BulkInv, MemoryOK, EdgesOK, MarksOK, ToldOK, Listed, QueueOK,
                ImporterOK, BulkJobOK, Unfinished
  <2>. QED
    BY <2>1
<1>2. ASSUME NEW m \in Manifests, ImportInMemory(m) PROVE BulkInv'
  BY <1>2, MemoryImportKeeps
<1>3. ASSUME NEW i \in Importers, NEW k \in ImportKeys, NEW m \in Manifests, BeginImport(i, k, m)
      PROVE  BulkInv'
  BY <1>3, BeginImportKeeps
<1>4. ASSUME NEW i \in Importers, SubmitItem(i) PROVE BulkInv'
  BY <1>4, SubmitItemKeeps
<1>5. ASSUME NEW i \in Importers, StoreBatch(i) PROVE BulkInv'
  BY <1>5, StoreBatchKeeps
<1>6. ASSUME NEW i \in Importers, Interrupt(i) \/ EndCancel(i) PROVE BulkInv'
  BY <1>6, RequestEnds
<1>7. ASSUME NEW n, CancelInMemory(n) PROVE BulkInv'
  BY <1>7, MemoryCancelKeeps
<1>8. ASSUME NEW i \in Importers, NEW n, BeginCancel(i, n) PROVE BulkInv'
  BY <1>8, BeginCancelKeeps
<1>9. ASSUME NEW i \in Importers, CancelItem(i) PROVE BulkInv'
  BY <1>9, CancelItemKeeps
<1>10. CASE BulkJobStarts
  BY <1>10, BulkStartKeeps
<1>11. ASSUME NEW j \in BulkIds, BulkJobEnds(j) \/ BulkJobPruned(j) PROVE BulkInv'
  BY <1>11, BulkEndKeeps, BulkPruneKeeps
<1>. QED
  BY <1>1, <1>2, <1>3, <1>4, <1>5, <1>6, <1>7, <1>8, <1>9, <1>10, <1>11 DEF NextBulk

\* BulkHolds (bulk and cancel_batch in research_jobs.py): what was cancelled before it
\* began never runs, with any number of batches, marks and active jobs that fit together
\* as the code's do; an item is of the job it is listed with, however often the request
\* is repeated; and no job escapes a cancellation that has passed it.
THEOREM BulkKept == BulkSpec => []BulkHolds
<1>1. InitBulk => BulkInv
  BY BulkInit
<1>2. BulkInv /\ [NextBulk]_bulkVars => BulkInv'
  BY BulkStep
<1>3. BulkInv => BulkHolds
  BY BulkHoldsByInv
<1>. QED
  BY <1>1, <1>2, <1>3, PTL DEF BulkSpec
=============================================================================
