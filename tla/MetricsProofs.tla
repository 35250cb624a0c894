----------------------------- MODULE MetricsProofs -----------------------------
(***************************************************************************)
(* What the scripts compute, for every graph: the components, the ranks,   *)
(* the betweenness and the clustering of the definitions in GraphMetrics.  *)
(***************************************************************************)
EXTENDS GraphMetrics, FiniteSetTheorems, FunctionTheorems, SequenceTheorems, WellFoundedInduction, TLAPS

\* A set of numbers has a least one.
LEMMA Least ==
  ASSUME NEW S \in SUBSET Nat, S # {}
  PROVE  \E m \in S : \A n \in S : m <= n
<1>. DEFINE R == {ss \in Nat \X Nat : ss[1] < ss[2]}
<1>1. IsWellFoundedOn(R, Nat)
  BY NatLessThanWellFounded DEF OpToRel
<1>2. PICK m \in S : \A n \in S : <<n, m>> \notin R
  <2>. HIDE DEF R
  <2>. QED
    BY <1>1, WFMin
<1>3. ASSUME NEW n \in S PROVE m <= n
  <2>1. <<n, m>> \notin R
    BY <1>2
  <2>2. ~(n < m)
    BY <2>1
  <2>. QED
    BY <2>2
<1>. QED
  BY <1>3


\* Counting up to n.
LEMMA CountUp ==
  ASSUME NEW n \in Nat, NEW S, 0 \in S, \A k \in 0..(n - 1) : k \in S => k + 1 \in S
  PROVE  \A k \in 0..n : k \in S
<1>. DEFINE bad == {k \in 0..n : k \notin S}
<1>1. SUFFICES ASSUME bad # {} PROVE FALSE
  OBVIOUS
<1>2. bad \in SUBSET Nat
  OBVIOUS
<1>3. PICK m \in bad : \A k \in bad : m <= k
  <2>. HIDE DEF bad
  <2>. QED
    BY <1>1, <1>2, Least
<1>4. m \in 1..n /\ m - 1 \in 0..(n - 1) /\ m - 1 \notin bad
  BY <1>3
<1>. QED
  BY <1>3, <1>4

\* A loop of n turns has a run: the recursive function that describes it exists.
Loop(X, x, n, step) == x \in X /\ n \in Nat /\ \A k \in 1..n, y \in X : step[k][y] \in X
LoopRun(X, x, n, step, g) ==
  g \in [0..n -> X] /\ g[0] = x /\ \A k \in 1..n : g[k] = step[k][g[k - 1]]

\* What a loop with n turns in X leaves behind at each turn.
LEMMA LoopExists ==
  ASSUME NEW X, NEW x, NEW n, NEW step, Loop(X, x, n, step)
  PROVE  \E g : LoopRun(X, x, n, step, g)
<1>. DEFINE Runs(m, g) == g[0] = x /\ \A k \in 1..m : g[k] = step[k][g[k - 1]]
            P(m) == \E g \in [0..m -> X] : Runs(m, g)
            S == {m \in 0..n : P(m)}
<1>0. x \in X /\ n \in Nat /\ \A k \in 1..n, y \in X : step[k][y] \in X
  BY DEF Loop
<1>1. 0 \in S
  <2>. DEFINE f == [k \in 0..0 |-> x]
  <2>1. f \in [0..0 -> X] /\ f[0] = x
    BY <1>0
  <2>. HIDE DEF f
  <2>2. Runs(0, f) /\ 0 \in 0..n
    BY <1>0, <2>1
  <2>. QED
    BY <1>0, <2>1, <2>2
<1>2. ASSUME NEW m \in 0..(n - 1), m \in S PROVE m + 1 \in S
  <2>1. PICK g \in [0..m -> X] : Runs(m, g)
    BY <1>0, <1>2
  <2>. DEFINE h == [k \in 0..(m + 1) |-> IF k = m + 1 THEN step[m + 1][g[m]] ELSE g[k]]
  <2>2. step[m + 1][g[m]] \in X
    BY <1>0, <2>1
  <2>3. h \in [0..(m + 1) -> X]
    BY <1>0, <2>2
  <2>4. h[0] = x
    BY <1>0, <2>1
  <2>5. ASSUME NEW k \in 1..(m + 1) PROVE h[k] = step[k][h[k - 1]]
    <3>1. CASE k = m + 1
      <4>1. h[k - 1] = g[m] /\ h[k] = step[m + 1][g[m]]
        BY <1>0, <3>1
      <4>. QED
        BY <1>0, <3>1, <4>1
    <3>2. CASE k # m + 1
      <4>1. k \in 1..m /\ k - 1 \in 0..m
        BY <1>0, <3>2
      <4>2. h[k] = g[k] /\ h[k - 1] = g[k - 1]
        BY <1>0, <4>1
      <4>. QED
        BY <1>0, <2>1, <4>1, <4>2
    <3>. QED
      BY <1>0, <3>1, <3>2
  <2>. HIDE DEF h
  <2>6. Runs(m + 1, h) /\ m + 1 \in 0..n
    BY <1>0, <2>4, <2>5
  <2>7. P(m + 1)
    <3>. HIDE DEF Runs
    <3>. QED
      BY <1>0, <2>3, <2>6
  <2>. HIDE DEF P
  <2>. QED
    BY <1>0, <2>6, <2>7
<1>3. n \in S
  <2>. HIDE DEF S
  <2>1. \A m \in 0..(n - 1) : m \in S => m + 1 \in S
    BY <1>0, <1>2
  <2>2. \A m \in 0..n : m \in S
    BY <1>0, <1>1, <2>1, CountUp
  <2>. QED
    BY <1>0, <2>2
<1>4. PICK g \in [0..n -> X] : Runs(n, g)
  BY <1>0, <1>3
<1>. QED
  BY <1>4 DEF LoopRun

-----------------------------------------------------------------------------
(***************************************************************************)
(* Sums and products, as loops.                                            *)
(***************************************************************************)
Whole(f, n) == \A k \in 1..n : f[k] \in Int

\* The sums so far, from none to all.
LEMMA SumRuns ==
  ASSUME NEW n \in Nat, NEW f, Whole(f, n)
  PROVE  \E h : /\ SumTo(n, f) = h[n] /\ h[0] = 0
                /\ \A k \in 1..n : h[k] = h[k - 1] + f[k]
                /\ \A k \in 0..n : h[k] \in Int
<1>. DEFINE eq(g) == g = [k \in 0..n |-> IF k = 0 THEN 0 ELSE g[k - 1] + f[k]]
            h == CHOOSE g : eq(g)
            step == [k \in 1..n |-> [y \in Int |-> y + f[k]]]
<1>1. SumTo(n, f) = h[n]
  BY Zenon DEF SumTo
<1>2. \A k \in 1..n, y \in Int : step[k][y] \in Int /\ step[k][y] = y + f[k]
  BY DEF Whole
<1>. HIDE DEF step
<1>3. PICK g : LoopRun(Int, 0, n, step, g)
  <2>1. Loop(Int, 0, n, step)
    BY <1>2 DEF Loop
  <2>. QED
    BY <2>1, LoopExists
<1>4. /\ g \in [0..n -> Int] /\ g[0] = 0
      /\ \A k \in 1..n : k - 1 \in 0..n /\ g[k] = g[k - 1] + f[k]
  BY <1>2, <1>3 DEF LoopRun
<1>5. eq(g)
  BY <1>4
<1>6. eq(h)
  BY <1>5, Zenon
<1>. HIDE DEF h
<1>7. h[0] = 0 /\ \A k \in 1..n : h[k] = h[k - 1] + f[k]
  BY <1>6
<1>8. \A k \in 0..n : h[k] \in Int
  <2>. DEFINE S == {k \in 0..n : h[k] \in Int}
  <2>1. 0 \in S
    BY <1>7
  <2>2. ASSUME NEW k \in 0..(n - 1), k \in S PROVE k + 1 \in S
    <3>1. k + 1 \in 1..n /\ k + 1 \in 0..n /\ k + 1 - 1 = k
      OBVIOUS
    <3>2. h[k + 1] = h[k] + f[k + 1] /\ f[k + 1] \in Int
      BY <1>7, <3>1 DEF Whole
    <3>. QED
      BY <2>2, <3>1, <3>2
  <2>3. \A k \in 0..(n - 1) : k \in S => k + 1 \in S
    BY <2>2
  <2>. HIDE DEF S
  <2>4. \A k \in 0..n : k \in S
    BY <2>1, <2>3, CountUp
  <2>. QED
    BY <2>4 DEF S
<1>. QED
  BY <1>1, <1>7, <1>8

\* One more summand.
LEMMA SumNext ==
  ASSUME NEW n \in Nat, NEW f, Whole(f, n)
  PROVE  /\ SumTo(n, f) \in Int
         /\ SumTo(0, f) = 0
         /\ \A k \in 1..n : SumTo(k, f) = SumTo(k - 1, f) + f[k] /\ SumTo(k, f) \in Int
<1>1. PICK h : /\ SumTo(n, f) = h[n] /\ h[0] = 0
               /\ \A k \in 1..n : h[k] = h[k - 1] + f[k]
               /\ \A k \in 0..n : h[k] \in Int
  BY SumRuns
<1>2. ASSUME NEW m \in 0..n PROVE SumTo(m, f) = h[m]
  <2>1. m \in Nat /\ Whole(f, m)
    BY DEF Whole
  <2>2. PICK g : /\ SumTo(m, f) = g[m] /\ g[0] = 0
                 /\ \A k \in 1..m : g[k] = g[k - 1] + f[k]
                 /\ \A k \in 0..m : g[k] \in Int
    BY <2>1, SumRuns
  <2>. DEFINE S == {k \in 0..m : g[k] = h[k]}
  <2>3. 0 \in S
    BY <1>1, <2>1, <2>2
  <2>4. ASSUME NEW k \in 0..(m - 1), k \in S PROVE k + 1 \in S
    <3>1. k + 1 \in 1..m /\ k + 1 \in 1..n /\ k + 1 - 1 = k /\ k + 1 \in 0..m
      BY <2>1
    <3>2. g[k + 1] = g[k] + f[k + 1] /\ h[k + 1] = h[k] + f[k + 1] /\ g[k] = h[k]
      BY <1>1, <2>2, <2>4, <3>1
    <3>. QED
      BY <3>1, <3>2
  <2>5. \A k \in 0..(m - 1) : k \in S => k + 1 \in S
    BY <2>4
  <2>. HIDE DEF S
  <2>6. \A k \in 0..m : k \in S
    BY <2>1, <2>3, <2>5, CountUp
  <2>7. m \in S
    BY <2>1, <2>6
  <2>. QED
    BY <2>2, <2>7 DEF S
<1>3. ASSUME NEW k \in 1..n PROVE SumTo(k, f) = SumTo(k - 1, f) + f[k] /\ SumTo(k, f) \in Int
  <2>1. k \in 0..n /\ k - 1 \in 0..n
    OBVIOUS
  <2>. QED
    BY <1>1, <1>2, <2>1
<1>. QED
  BY <1>1, <1>2, <1>3

\* Whatever adds up the same way is the sum.
LEMMA SumBy ==
  ASSUME NEW n \in Nat, NEW f, Whole(f, n), NEW h, h[0] = 0,
         \A k \in 1..n : h[k] = h[k - 1] + f[k]
  PROVE  \A k \in 0..n : SumTo(k, f) = h[k]
<1>. DEFINE S == {k \in 0..n : SumTo(k, f) = h[k]}
<1>1. 0 \in S
  BY SumNext
<1>2. ASSUME NEW k \in 0..(n - 1), k \in S PROVE k + 1 \in S
  <2>1. k + 1 \in 1..n /\ k + 1 - 1 = k /\ k + 1 \in 0..n
    OBVIOUS
  <2>2. SumTo(k + 1, f) = SumTo(k, f) + f[k + 1]
    BY <2>1, SumNext
  <2>. QED
    BY <1>2, <2>1, <2>2
<1>3. \A k \in 0..(n - 1) : k \in S => k + 1 \in S
  BY <1>2
<1>. HIDE DEF S
<1>4. \A k \in 0..n : k \in S
  BY <1>1, <1>3, CountUp
<1>. QED
  BY <1>4 DEF S

\* Sums of equal terms.
LEMMA SumEqual ==
  ASSUME NEW n \in Nat, NEW f, NEW g, Whole(f, n), \A k \in 1..n : f[k] = g[k]
  PROVE  SumTo(n, f) = SumTo(n, g)
<1>. DEFINE h == [k \in 0..n |-> SumTo(k, g)]
<1>1. Whole(g, n)
  BY DEF Whole
<1>2. h[0] = 0 /\ \A k \in 1..n : h[k] = h[k - 1] + f[k]
  BY <1>1, SumNext
<1>3. h[n] = SumTo(n, g)
  OBVIOUS
<1>. HIDE DEF h
<1>. QED
  BY <1>2, <1>3, SumBy

\* The sum of sums.
LEMMA SumAdd ==
  ASSUME NEW n \in Nat, NEW f, NEW g, NEW e, Whole(f, n), Whole(g, n),
         \A k \in 1..n : e[k] = f[k] + g[k]
  PROVE  SumTo(n, e) = SumTo(n, f) + SumTo(n, g)
<1>. DEFINE h == [k \in 0..n |-> SumTo(k, f) + SumTo(k, g)]
<1>1. Whole(e, n)
  BY DEF Whole
<1>2. h[0] = 0 /\ \A k \in 1..n : h[k] = h[k - 1] + e[k]
  <2>1. h[0] = 0
    BY SumNext
  <2>2. ASSUME NEW k \in 1..n PROVE h[k] = h[k - 1] + e[k]
    <3>1. /\ SumTo(k, f) = SumTo(k - 1, f) + f[k] /\ SumTo(k, g) = SumTo(k - 1, g) + g[k]
          /\ f[k] \in Int /\ g[k] \in Int /\ k \in 0..n /\ k - 1 \in 0..n
      BY SumNext DEF Whole
    <3>2. SumTo(k - 1, f) \in Int /\ SumTo(k - 1, g) \in Int
      <4>1. k - 1 \in Nat /\ Whole(f, k - 1) /\ Whole(g, k - 1)
        BY DEF Whole
      <4>. QED
        BY <4>1, SumNext
    <3>. QED
      BY <3>1, <3>2
  <2>. QED
    BY <2>1, <2>2
<1>3. h[n] = SumTo(n, f) + SumTo(n, g)
  OBVIOUS
<1>. HIDE DEF h
<1>. QED
  BY <1>1, <1>2, <1>3, SumBy

\* The partial sums.
LEMMA SumPart ==
  ASSUME NEW n \in Nat, NEW f, Whole(f, n), NEW k \in 0..n
  PROVE  k \in Nat /\ Whole(f, k) /\ SumTo(k, f) \in Int
<1>1. k \in Nat /\ Whole(f, k)
  BY DEF Whole
<1>. QED
  BY <1>1, SumNext

\* A common factor.
LEMMA SumTimes ==
  ASSUME NEW n \in Nat, NEW f, NEW e, NEW c \in Int, Whole(f, n), \A k \in 1..n : e[k] = c * f[k]
  PROVE  SumTo(n, e) = c * SumTo(n, f) /\ Whole(e, n)
<1>. DEFINE h == [k \in 0..n |-> c * SumTo(k, f)]
<1>1. Whole(e, n)
  BY DEF Whole
<1>2. h[0] = 0 /\ \A k \in 1..n : h[k] = h[k - 1] + e[k]
  <2>1. h[0] = 0
    BY SumNext
  <2>2. ASSUME NEW k \in 1..n PROVE h[k] = h[k - 1] + e[k]
    <3>1. /\ SumTo(k, f) = SumTo(k - 1, f) + f[k]
          /\ f[k] \in Int /\ k \in 0..n /\ k - 1 \in 0..n
      BY SumNext DEF Whole
    <3>2. SumTo(k - 1, f) \in Int
      BY <3>1, SumPart
    <3>. QED
      BY <3>1, <3>2
  <2>. QED
    BY <2>1, <2>2
<1>3. h[n] = c * SumTo(n, f)
  OBVIOUS
<1>. HIDE DEF h
<1>. QED
  BY <1>1, <1>2, <1>3, SumBy

\* n equal terms.
LEMMA SumConstant ==
  ASSUME NEW n \in Nat, NEW f, NEW c \in Int, \A k \in 1..n : f[k] = c
  PROVE  SumTo(n, f) = n * c
<1>. DEFINE h == [k \in 0..n |-> k * c]
<1>1. Whole(f, n)
  BY DEF Whole
<1>2. h[0] = 0 /\ \A k \in 1..n : h[k] = h[k - 1] + f[k]
  OBVIOUS
<1>3. h[n] = n * c
  OBVIOUS
<1>. HIDE DEF h
<1>. QED
  BY <1>1, <1>2, <1>3, SumBy

\* Nothing but zeros.
LEMMA SumZero ==
  ASSUME NEW n \in Nat, NEW f, \A k \in 1..n : f[k] = 0
  PROVE  SumTo(n, f) = 0
BY SumConstant

\* One term that is not zero.
LEMMA SumSingle ==
  ASSUME NEW n \in Nat, NEW f, NEW j \in 1..n, NEW c \in Int,
         \A k \in 1..n : f[k] = IF k = j THEN c ELSE 0
  PROVE  SumTo(n, f) = c
<1>. DEFINE h == [k \in 0..n |-> IF k < j THEN 0 ELSE c]
<1>1. Whole(f, n)
  BY DEF Whole
<1>2. h[0] = 0 /\ \A k \in 1..n : h[k] = h[k - 1] + f[k]
  OBVIOUS
<1>3. h[n] = c
  OBVIOUS
<1>. HIDE DEF h
<1>. QED
  BY <1>1, <1>2, <1>3, SumBy

\* A sum of naturals is positive exactly if a summand is.
LEMMA SumPositive ==
  ASSUME NEW n \in Nat, NEW f, \A k \in 1..n : f[k] \in Nat
  PROVE  /\ SumTo(n, f) \in Nat
         /\ SumTo(n, f) > 0 <=> \E k \in 1..n : f[k] > 0
<1>1. Whole(f, n)
  BY DEF Whole
<1>. DEFINE S == {m \in 0..n : /\ SumTo(m, f) \in Nat
                               /\ SumTo(m, f) > 0 <=> \E k \in 1..m : f[k] > 0}
<1>2. 0 \in S
  BY <1>1, SumNext
<1>3. ASSUME NEW m \in 0..(n - 1), m \in S PROVE m + 1 \in S
  <2>1. m + 1 \in 1..n /\ m + 1 - 1 = m /\ m + 1 \in 0..n /\ f[m + 1] \in Nat
    OBVIOUS
  <2>2. SumTo(m + 1, f) = SumTo(m, f) + f[m + 1]
    BY <1>1, <2>1, SumNext
  <2>3. \A k \in 1..(m + 1) : k = m + 1 \/ k \in 1..m
    OBVIOUS
  <2>. QED
    BY <1>3, <2>1, <2>2, <2>3
<1>4. \A m \in 0..(n - 1) : m \in S => m + 1 \in S
  BY <1>3
<1>. HIDE DEF S
<1>5. \A m \in 0..n : m \in S
  BY <1>2, <1>4, CountUp
<1>6. n \in S
  BY <1>5
<1>. QED
  BY <1>6 DEF S

\* The order of two sums does not matter.
LEMMA SumSwap ==
  ASSUME NEW n \in Nat, NEW F, \A i, j \in 1..n : F[i][j] \in Int
  PROVE  SumTo(n, [i \in 1..n |-> SumTo(n, [j \in 1..n |-> F[i][j]])])
           = SumTo(n, [j \in 1..n |-> SumTo(n, [i \in 1..n |-> F[i][j]])])
<1>. DEFINE row(i) == [j \in 1..n |-> F[i][j]]
            col(j) == [i \in 1..n |-> F[i][j]]
            f == [i \in 1..n |-> SumTo(n, row(i))]
            part(m) == [j \in 1..n |-> SumTo(m, col(j))]
            h == [m \in 0..n |-> SumTo(n, part(m))]
<1>1. ASSUME NEW j \in 1..n
      PROVE  /\ Whole(row(j), n) /\ Whole(col(j), n)
             /\ SumTo(n, row(j)) \in Int
             /\ \A m \in 0..n : SumTo(m, col(j)) \in Int
             /\ SumTo(0, col(j)) = 0
             /\ \A m \in 1..n : SumTo(m, col(j)) = SumTo(m - 1, col(j)) + F[m][j]
  <2>1. Whole(row(j), n) /\ Whole(col(j), n)
    BY DEF Whole
  <2>2. \A m \in 1..n : col(j)[m] = F[m][j]
    OBVIOUS
  <2>. HIDE DEF row, col
  <2>. QED
    BY <2>1, <2>2, SumNext, SumPart
<1>2. Whole(f, n)
  BY <1>1 DEF Whole
<1>3. \A m \in 0..n : Whole(part(m), n)
  BY <1>1 DEF Whole
<1>4. h[0] = 0
  <2>1. \A k \in 1..n : part(0)[k] = 0
    BY <1>1
  <2>. HIDE DEF part
  <2>2. SumTo(n, part(0)) = 0
    BY <2>1, SumZero
  <2>. QED
    BY <2>2
<1>5. ASSUME NEW m \in 1..n PROVE h[m] = h[m - 1] + f[m]
  <2>1. m - 1 \in 0..n /\ m \in 0..n
    OBVIOUS
  <2>2. \A j \in 1..n : part(m)[j] = part(m - 1)[j] + row(m)[j]
    BY <1>1, <2>1
  <2>3. Whole(part(m - 1), n) /\ Whole(row(m), n)
    BY <1>1, <1>3, <2>1
  <2>4. f[m] = SumTo(n, row(m)) /\ h[m] = SumTo(n, part(m)) /\ h[m - 1] = SumTo(n, part(m - 1))
    BY <2>1
  <2>. HIDE DEF part, row, f, h
  <2>5. SumTo(n, part(m)) = SumTo(n, part(m - 1)) + SumTo(n, row(m))
    BY <2>2, <2>3, SumAdd
  <2>. QED
    BY <2>4, <2>5
<1>6. h[n] = SumTo(n, part(n))
  OBVIOUS
<1>7. SumTo(n, f) = h[n]
  <2>. HIDE DEF f, h
  <2>. QED
    BY <1>2, <1>4, <1>5, SumBy
<1>. QED
  BY <1>6, <1>7

Pos == Nat \ {0}
Positive(f, n) == \A k \in 1..n : f[k] \in Pos

\* Positive numbers multiplied.
LEMMA PosTimes == \A a, b \in Pos : a * b \in Pos
<1>. SUFFICES ASSUME NEW a \in Pos, NEW b \in Pos PROVE a * b \in Pos
  OBVIOUS
<1>1. a \in Nat /\ b \in Nat /\ a > 0 /\ b > 0
  BY DEF Pos
<1>2. a * b \in Nat /\ a * b > 0
  BY <1>1
<1>. QED
  BY <1>2 DEF Pos

\* The products so far.
LEMMA ProductRuns ==
  ASSUME NEW n \in Nat, NEW f, Positive(f, n)
  PROVE  \E h : /\ ProductTo(n, f) = h[n] /\ h[0] = 1
                /\ \A k \in 1..n : h[k] = h[k - 1] * f[k]
                /\ \A k \in 0..n : h[k] \in Pos
<1>. DEFINE eq(g) == g = [k \in 0..n |-> IF k = 0 THEN 1 ELSE g[k - 1] * f[k]]
            h == CHOOSE g : eq(g)
            step == [k \in 1..n |-> [y \in Pos |-> y * f[k]]]
<1>1. ProductTo(n, f) = h[n]
  BY Zenon DEF ProductTo
<1>2. \A k \in 1..n, y \in Pos : step[k][y] \in Pos /\ step[k][y] = y * f[k]
  BY PosTimes DEF Positive
<1>. HIDE DEF step
<1>3. PICK g : LoopRun(Pos, 1, n, step, g)
  <2>1. Loop(Pos, 1, n, step)
    BY <1>2 DEF Loop, Pos
  <2>. QED
    BY <2>1, LoopExists
<1>4. /\ g \in [0..n -> Pos] /\ g[0] = 1
      /\ \A k \in 1..n : k - 1 \in 0..n /\ g[k] = g[k - 1] * f[k]
  BY <1>2, <1>3 DEF LoopRun
<1>5. eq(g)
  BY <1>4
<1>6. eq(h)
  BY <1>5, Zenon
<1>. HIDE DEF h
<1>7. h[0] = 1 /\ \A k \in 1..n : h[k] = h[k - 1] * f[k]
  BY <1>6
<1>8. \A k \in 0..n : h[k] \in Pos
  <2>. DEFINE S == {k \in 0..n : h[k] \in Pos}
  <2>1. 0 \in S
    BY <1>7 DEF Pos
  <2>2. ASSUME NEW k \in 0..(n - 1), k \in S PROVE k + 1 \in S
    <3>1. k + 1 \in 1..n /\ k + 1 \in 0..n /\ k + 1 - 1 = k
      OBVIOUS
    <3>2. h[k + 1] = h[k] * f[k + 1] /\ f[k + 1] \in Pos
      BY <1>7, <3>1 DEF Positive
    <3>3. \A a, b \in Pos : a * b \in Pos
      BY PosTimes
    <3>. QED
      BY <2>2, <3>1, <3>2, <3>3
  <2>3. \A k \in 0..(n - 1) : k \in S => k + 1 \in S
    BY <2>2
  <2>. HIDE DEF S
  <2>4. \A k \in 0..n : k \in S
    BY <2>1, <2>3, CountUp
  <2>. QED
    BY <2>4 DEF S
<1>. QED
  BY <1>1, <1>7, <1>8

\* One more factor.
LEMMA ProductNext ==
  ASSUME NEW n \in Nat, NEW f, Positive(f, n)
  PROVE  /\ ProductTo(n, f) \in Pos
         /\ ProductTo(0, f) = 1
         /\ \A k \in 1..n : ProductTo(k, f) = ProductTo(k - 1, f) * f[k] /\ ProductTo(k, f) \in Pos
<1>1. PICK h : /\ ProductTo(n, f) = h[n] /\ h[0] = 1
               /\ \A k \in 1..n : h[k] = h[k - 1] * f[k]
               /\ \A k \in 0..n : h[k] \in Pos
  BY ProductRuns
<1>2. ASSUME NEW m \in 0..n PROVE ProductTo(m, f) = h[m]
  <2>1. m \in Nat /\ Positive(f, m)
    BY DEF Positive, Pos
  <2>2. PICK g : /\ ProductTo(m, f) = g[m] /\ g[0] = 1
                 /\ \A k \in 1..m : g[k] = g[k - 1] * f[k]
                 /\ \A k \in 0..m : g[k] \in Pos
    BY <2>1, ProductRuns
  <2>. DEFINE S == {k \in 0..m : g[k] = h[k]}
  <2>3. 0 \in S
    BY <1>1, <2>1, <2>2
  <2>4. ASSUME NEW k \in 0..(m - 1), k \in S PROVE k + 1 \in S
    <3>1. k + 1 \in 1..m /\ k + 1 \in 1..n /\ k + 1 - 1 = k /\ k + 1 \in 0..m
      BY <2>1
    <3>2. g[k + 1] = g[k] * f[k + 1] /\ h[k + 1] = h[k] * f[k + 1] /\ g[k] = h[k]
      BY <1>1, <2>2, <2>4, <3>1
    <3>. QED
      BY <3>1, <3>2
  <2>5. \A k \in 0..(m - 1) : k \in S => k + 1 \in S
    BY <2>4
  <2>. HIDE DEF S
  <2>6. \A k \in 0..m : k \in S
    BY <2>1, <2>3, <2>5, CountUp
  <2>7. m \in S
    BY <2>1, <2>6
  <2>. QED
    BY <2>2, <2>7 DEF S
<1>3. ASSUME NEW k \in 1..n PROVE ProductTo(k, f) = ProductTo(k - 1, f) * f[k] /\ ProductTo(k, f) \in Pos
  <2>1. k \in 0..n /\ k - 1 \in 0..n
    OBVIOUS
  <2>. QED
    BY <1>1, <1>2, <2>1
<1>. QED
  BY <1>1, <1>2, <1>3

\* Every factor divides the product.
LEMMA ProductDivides ==
  ASSUME NEW n \in Nat, NEW f, Positive(f, n), NEW j \in 1..n
  PROVE  \E q \in Pos : ProductTo(n, f) = q * f[j]
<1>. DEFINE S == {m \in 0..n : m < j \/ \E q \in Pos : ProductTo(m, f) = q * f[j]}
<1>1. 0 \in S
  OBVIOUS
<1>2. ASSUME NEW m \in 0..(n - 1), m \in S PROVE m + 1 \in S
  <2>1. m + 1 \in 1..n /\ m + 1 - 1 = m /\ m + 1 \in 0..n
    OBVIOUS
  <2>2. ProductTo(m + 1, f) = ProductTo(m, f) * f[m + 1] /\ f[m + 1] \in Pos /\ f[j] \in Pos
    BY <2>1, ProductNext DEF Positive
  <2>3. ProductTo(m, f) \in Pos
    <3>1. m \in Nat /\ Positive(f, m)
      BY DEF Positive
    <3>. QED
      BY <3>1, ProductNext
  <2>4. CASE m + 1 < j
    BY <2>1, <2>4
  <2>5. CASE m + 1 = j
    BY <2>1, <2>2, <2>3, <2>5
  <2>6. CASE j < m + 1
    <3>1. PICK q \in Pos : ProductTo(m, f) = q * f[j]
      BY <1>2, <2>6
    <3>2. q \in Nat /\ f[j] \in Nat /\ f[m + 1] \in Nat
      BY <2>2 DEF Pos
    <3>3. (q * f[j]) * f[m + 1] = (q * f[m + 1]) * f[j]
      BY <3>2
    <3>4. q * f[m + 1] \in Pos
      BY <2>2, PosTimes
    <3>. QED
      BY <2>1, <2>2, <3>1, <3>3, <3>4
  <2>. QED
    BY <2>1, <2>4, <2>5, <2>6
<1>3. \A m \in 0..(n - 1) : m \in S => m + 1 \in S
  BY <1>2
<1>. HIDE DEF S
<1>4. \A m \in 0..n : m \in S
  BY <1>1, <1>3, CountUp
<1>5. n \in S
  BY <1>4
<1>. QED
  BY <1>5 DEF S

-----------------------------------------------------------------------------
(***************************************************************************)
(* The graph.                                                              *)
(***************************************************************************)
LEMMA Ends ==
  ASSUME MetricsTypeOK
  PROVE  /\ nodes \in Nat /\ Ids = 1..nodes /\ Ids \subseteq Nat
         /\ IsFiniteSet(Ids) /\ Cardinality(Ids) = nodes
<1>1. nodes \in Nat
  BY MetricsAssumption DEF MetricsTypeOK
<1>. QED
  BY <1>1, FS_Interval DEF Ids

\* The adjacency sets hold what a relation joins in either direction, and no loops.
LEMMA Neighbours ==
  ASSUME MetricsTypeOK, NEW u \in Ids
  PROVE  /\ Adj(u) \subseteq Ids /\ u \notin Adj(u)
         /\ IsFiniteSet(Adj(u)) /\ Cardinality(Adj(u)) \in Nat
         /\ \A v \in Ids : v \in Adj(u) <=> Joined(u, v) /\ u # v
         /\ \A v \in Ids : v \in Adj(u) <=> u \in Adj(v)
<1>1. Ids \subseteq Nat /\ IsFiniteSet(Ids)
  BY Ends
<1>2. \A e \in Edges : e \in Nat \X Nat
  BY MetricsAssumption DEF Edges, MetricsTypeOK
<1>3. ASSUME NEW a \in Ids, NEW b \in Ids
      PROVE  (<<a, b>> \in Pairs \/ <<b, a>> \in Pairs) <=> Joined(a, b) /\ a # b
  <2>1. (<<a, b>> \in Edges \/ <<b, a>> \in Edges) <=> Joined(a, b)
    BY DEF Joined, Edges
  <2>2. ASSUME <<a, b>> \in Pairs \/ <<b, a>> \in Pairs PROVE Joined(a, b) /\ a # b
    <3>1. PICK e \in Edges : /\ Linked(e)
                             /\ \/ <<a, b>> = IF e[1] <= e[2] THEN e ELSE <<e[2], e[1]>>
                                \/ <<b, a>> = IF e[1] <= e[2] THEN e ELSE <<e[2], e[1]>>
      BY <2>2 DEF Pairs
    <3>2. e = <<e[1], e[2]>> /\ e[1] # e[2]
      BY <1>2, <3>1 DEF Linked
    <3>3. e = <<a, b>> \/ e = <<b, a>>
      BY <3>1, <3>2
    <3>. QED
      BY <2>1, <3>2, <3>3
  <2>3. ASSUME Joined(a, b), a # b PROVE <<a, b>> \in Pairs \/ <<b, a>> \in Pairs
    <3>1. PICK e \in Edges : e = <<a, b>> \/ e = <<b, a>>
      BY <2>1, <2>3
    <3>2. Linked(e)
      BY <2>3, <3>1 DEF Linked
    <3>3. (IF e[1] <= e[2] THEN e ELSE <<e[2], e[1]>>) \in {<<a, b>>, <<b, a>>}
      BY <3>1
    <3>4. (IF e[1] <= e[2] THEN e ELSE <<e[2], e[1]>>) \in Pairs
      BY <3>1, <3>2 DEF Pairs
    <3>. QED
      BY <3>3, <3>4
  <2>. QED
    BY <2>2, <2>3
<1>4. \A v \in Ids : v \in Adj(u) <=> Joined(u, v) /\ u # v
  BY <1>3 DEF Adj
<1>5. Adj(u) \subseteq Ids
  BY DEF Adj
<1>6. IsFiniteSet(Adj(u)) /\ Cardinality(Adj(u)) \in Nat
  BY <1>1, <1>5, FS_Subset, FS_CardinalityType
<1>7. \A v \in Ids : v \in Adj(u) <=> u \in Adj(v)
  BY DEF Adj
<1>. QED
  BY <1>4, <1>5, <1>6, <1>7

-----------------------------------------------------------------------------
(***************************************************************************)
(* Walks.                                                                  *)
(***************************************************************************)
W(k, u, v) == AllWalks[k][u][v]
WalksBefore(k, u, v) == [x \in 1..nodes |-> IF x \in Adj(v) THEN W(k, u, x) ELSE 0]

\* The tables of walks, each made from the one before.
LEMMA WalksRun ==
  ASSUME MetricsTypeOK
  PROVE  /\ \A k \in 0..nodes : AllWalks[k] \in [Ids -> [Ids -> Nat]]
         /\ AllWalks[0] = [u \in Ids |-> [v \in Ids |-> IF u = v THEN 1 ELSE 0]]
         /\ \A k \in 1..nodes : AllWalks[k] = Longer(AllWalks[k - 1])
<1>. DEFINE X == [Ids -> [Ids -> Nat]]
            x == [u \in Ids |-> [v \in Ids |-> IF u = v THEN 1 ELSE 0]]
            eq(g) == g = [k \in 0..nodes |-> IF k = 0 THEN x ELSE Longer(g[k - 1])]
            h == CHOOSE g : eq(g)
            step == [k \in 1..nodes |-> [y \in X |-> Longer(y)]]
<1>1. AllWalks = h
  BY Zenon DEF AllWalks
<1>2. nodes \in Nat /\ Ids = 1..nodes
  BY Ends
<1>3. x \in X
  OBVIOUS
<1>4. ASSUME NEW y \in X PROVE Longer(y) \in X
  <2>1. ASSUME NEW u \in Ids, NEW v \in Ids
        PROVE  Total([z \in Ids |-> IF Joined(z, v) /\ z # v THEN y[u][z] ELSE 0]) \in Nat
    <3>. DEFINE f == [z \in Ids |-> IF Joined(z, v) /\ z # v THEN y[u][z] ELSE 0]
    <3>1. \A z \in 1..nodes : f[z] \in Nat
      BY <1>2
    <3>. HIDE DEF f
    <3>2. SumTo(nodes, f) \in Nat
      BY <1>2, <3>1, SumPositive
    <3>. QED
      BY <3>2 DEF f, Total
  <2>. QED
    BY <2>1 DEF Longer
<1>5. \A k \in 1..nodes, y \in X : step[k][y] \in X /\ step[k][y] = Longer(y)
  BY <1>4
<1>. HIDE DEF X, x, step
<1>6. PICK g : LoopRun(X, x, nodes, step, g)
  <2>1. Loop(X, x, nodes, step)
    BY <1>2, <1>3, <1>5 DEF Loop
  <2>. QED
    BY <2>1, LoopExists
<1>7. /\ g \in [0..nodes -> X] /\ g[0] = x
      /\ \A k \in 1..nodes : k - 1 \in 0..nodes /\ g[k] = Longer(g[k - 1])
  <2>1. g \in [0..nodes -> X] /\ g[0] = x /\ \A k \in 1..nodes : g[k] = step[k][g[k - 1]]
    BY <1>6 DEF LoopRun
  <2>2. \A k \in 1..nodes : k - 1 \in 0..nodes
    BY <1>2
  <2>3. \A k \in 1..nodes : g[k - 1] \in X
    BY <2>1, <2>2
  <2>. QED
    BY <1>5, <2>1, <2>2, <2>3
<1>8. eq(g)
  BY <1>2, <1>7
<1>9. eq(h)
  BY <1>8, Zenon
<1>. HIDE DEF h
<1>10. h[0] = x /\ \A k \in 1..nodes : h[k] = Longer(h[k - 1])
  BY <1>2, <1>9
<1>11. \A k \in 0..nodes : h[k] \in X
  <2>. DEFINE S == {k \in 0..nodes : h[k] \in X}
  <2>1. 0 \in S
    BY <1>2, <1>3, <1>10
  <2>2. ASSUME NEW k \in 0..(nodes - 1), k \in S PROVE k + 1 \in S
    <3>1. k + 1 \in 1..nodes /\ k + 1 \in 0..nodes /\ k + 1 - 1 = k
      BY <1>2
    <3>2. h[k + 1] = Longer(h[k])
      BY <1>10, <3>1
    <3>. QED
      BY <1>4, <2>2, <3>1, <3>2 DEF X
  <2>3. \A k \in 0..(nodes - 1) : k \in S => k + 1 \in S
    BY <2>2
  <2>. HIDE DEF S
  <2>4. \A k \in 0..nodes : k \in S
    BY <1>2, <2>1, <2>3, CountUp
  <2>. QED
    BY <2>4 DEF S
<1>. QED
  BY <1>1, <1>10, <1>11 DEF X, x

\* A walk of k steps ends with a step from a neighbour.
LEMMA LastStep ==
  ASSUME MetricsTypeOK
  PROVE  /\ \A k \in 0..nodes, u, v \in Ids : W(k, u, v) \in Nat
         /\ \A u, v \in Ids : W(0, u, v) = IF u = v THEN 1 ELSE 0
         /\ \A k \in 1..nodes, u, v \in Ids : W(k, u, v) = SumTo(nodes, WalksBefore(k - 1, u, v))
<1>1. nodes \in Nat /\ Ids = 1..nodes
  BY Ends
<1>2. \A k \in 0..nodes, u, v \in Ids : W(k, u, v) \in Nat
  BY WalksRun DEF W
<1>3. \A u, v \in Ids : W(0, u, v) = IF u = v THEN 1 ELSE 0
  BY WalksRun DEF W
<1>4. ASSUME NEW k \in 1..nodes, NEW u \in Ids, NEW v \in Ids
      PROVE  W(k, u, v) = SumTo(nodes, WalksBefore(k - 1, u, v))
  <2>. DEFINE f == [x \in Ids |-> IF Joined(x, v) /\ x # v THEN AllWalks[k - 1][u][x] ELSE 0]
  <2>1. W(k, u, v) = SumTo(nodes, f)
    <3>1. AllWalks[k] = Longer(AllWalks[k - 1])
      BY WalksRun
    <3>2. Longer(AllWalks[k - 1])[u][v] = Total(f)
      BY DEF Longer
    <3>. QED
      BY <3>1, <3>2 DEF W, Total
  <2>2. f = WalksBefore(k - 1, u, v)
    <3>1. ASSUME NEW x \in Ids PROVE x \in Adj(v) <=> Joined(x, v) /\ x # v
      <4>1. v \in Adj(x) <=> Joined(x, v) /\ x # v
        BY Neighbours
      <4>2. v \in Adj(x) <=> x \in Adj(v)
        BY Neighbours
      <4>. QED
        BY <4>1, <4>2
    <3>. QED
      BY <1>1, <3>1 DEF WalksBefore, W
  <2>. QED
    BY <2>1, <2>2
<1>. QED
  BY <1>2, <1>3, <1>4

WalksAfter(k, u, v) == [x \in 1..nodes |-> IF x \in Adj(u) THEN W(k, x, v) ELSE 0]

\* Walks with a step to come are whole numbers.
LEMMA WalksWhole ==
  ASSUME MetricsTypeOK, NEW k \in 0..nodes, NEW u \in Ids, NEW v \in Ids
  PROVE  /\ \A x \in 1..nodes : WalksBefore(k, u, v)[x] \in Nat /\ WalksAfter(k, u, v)[x] \in Nat
         /\ Whole(WalksBefore(k, u, v), nodes) /\ Whole(WalksAfter(k, u, v), nodes)
<1>1. \A x \in 1..nodes : W(k, u, x) \in Nat /\ W(k, x, v) \in Nat
  BY LastStep, Ends
<1>2. \A x \in 1..nodes : WalksBefore(k, u, v)[x] \in Nat /\ WalksAfter(k, u, v)[x] \in Nat
  BY <1>1 DEF WalksBefore, WalksAfter
<1>. QED
  BY <1>2 DEF Whole

\* The walks from u to v by way of a neighbour x of u and a neighbour y of v.
Between(k, u, v) ==
  [y \in 1..nodes |-> [x \in 1..nodes |-> IF y \in Adj(v) /\ x \in Adj(u) THEN W(k, x, y) ELSE 0]]

\* And it begins with a step to a neighbour.
LEMMA FirstStep ==
  ASSUME MetricsTypeOK
  PROVE  \A k \in 1..nodes, u, v \in Ids : W(k, u, v) = SumTo(nodes, WalksAfter(k - 1, u, v))
<1>0. nodes \in Nat /\ Ids = 1..nodes
  BY Ends
<1>. DEFINE First(k) == \A u, v \in Ids : W(k, u, v) = SumTo(nodes, WalksAfter(k - 1, u, v))
            S == {k \in 0..nodes : k = 0 \/ First(k)}
<1>1. 0 \in S
  BY <1>0
<1>2. ASSUME NEW u \in Ids, NEW v \in Ids, 1 \in 1..nodes
      PROVE  W(1, u, v) = SumTo(nodes, WalksAfter(0, u, v))
  <2>. DEFINE c == IF u \in Adj(v) THEN 1 ELSE 0
  <2>1. 0 \in 0..nodes /\ 1 - 1 = 0
    BY <1>0
  <2>2. W(1, u, v) = SumTo(nodes, WalksBefore(0, u, v))
    BY <1>2, <2>1, LastStep
  <2>3. \A x \in 1..nodes : WalksBefore(0, u, v)[x] = IF x = u THEN c ELSE 0
    BY <1>0, <2>1, LastStep DEF WalksBefore
  <2>4. \A x \in 1..nodes : WalksAfter(0, u, v)[x] = IF x = v THEN c ELSE 0
    <3>1. v \in Adj(u) <=> u \in Adj(v)
      BY Neighbours
    <3>. QED
      BY <1>0, <2>1, <3>1, LastStep DEF WalksAfter
  <2>5. c \in Int
    OBVIOUS
  <2>. HIDE DEF c
  <2>6. SumTo(nodes, WalksBefore(0, u, v)) = c
    BY <1>0, <2>3, <2>5, SumSingle
  <2>7. SumTo(nodes, WalksAfter(0, u, v)) = c
    BY <1>0, <2>4, <2>5, SumSingle
  <2>. QED
    BY <2>2, <2>6, <2>7
<1>3. ASSUME NEW k \in 1..(nodes - 1), First(k), NEW u \in Ids, NEW v \in Ids
      PROVE  W(k + 1, u, v) = SumTo(nodes, WalksAfter(k, u, v))
  <2>. DEFINE F == Between(k - 1, u, v)
              byY == [y \in 1..nodes |-> SumTo(nodes, [x \in 1..nodes |-> F[y][x]])]
              byX == [x \in 1..nodes |-> SumTo(nodes, [y \in 1..nodes |-> F[y][x]])]
  <2>1. /\ k \in 0..nodes /\ k - 1 \in 0..nodes /\ k + 1 \in 1..nodes /\ k \in 1..nodes
        /\ k + 1 - 1 = k
    BY <1>0
  <2>2. \A x, y \in 1..nodes : F[y][x] = IF y \in Adj(v) /\ x \in Adj(u) THEN W(k - 1, x, y) ELSE 0
    BY DEF Between
  <2>3. \A x, y \in 1..nodes : F[y][x] \in Int
    <3>1. \A x, y \in 1..nodes : W(k - 1, x, y) \in Int
      BY <1>0, <2>1, LastStep
    <3>. QED
      BY <2>2, <3>1
  <2>. HIDE DEF F
  <2>4. ASSUME NEW y \in 1..nodes PROVE WalksBefore(k, u, v)[y] = byY[y]
    <3>. DEFINE f == [x \in 1..nodes |-> F[y][x]]
    <3>1. byY[y] = SumTo(nodes, f) /\ \A x \in 1..nodes : f[x] = F[y][x]
      OBVIOUS
    <3>. HIDE DEF f
    <3>2. CASE y \in Adj(v)
      <4>1. WalksBefore(k, u, v)[y] = SumTo(nodes, WalksAfter(k - 1, u, y))
        BY <1>0, <1>3, <3>2 DEF WalksBefore
      <4>2. \A x \in 1..nodes : WalksAfter(k - 1, u, y)[x] = f[x]
        BY <2>2, <3>1, <3>2 DEF WalksAfter
      <4>3. Whole(WalksAfter(k - 1, u, y), nodes)
        BY <1>0, <2>1, WalksWhole
      <4>4. SumTo(nodes, WalksAfter(k - 1, u, y)) = SumTo(nodes, f)
        BY <1>0, <4>2, <4>3, SumEqual
      <4>. QED
        BY <3>1, <4>1, <4>4
    <3>3. CASE y \notin Adj(v)
      <4>1. WalksBefore(k, u, v)[y] = 0
        BY <3>3 DEF WalksBefore
      <4>2. \A x \in 1..nodes : f[x] = 0
        BY <2>2, <3>1, <3>3
      <4>3. SumTo(nodes, f) = 0
        BY <1>0, <4>2, SumZero
      <4>. QED
        BY <3>1, <4>1, <4>3
    <3>. QED
      BY <3>2, <3>3
  <2>5. ASSUME NEW x \in 1..nodes PROVE byX[x] = WalksAfter(k, u, v)[x]
    <3>. DEFINE f == [y \in 1..nodes |-> F[y][x]]
    <3>1. byX[x] = SumTo(nodes, f) /\ \A y \in 1..nodes : f[y] = F[y][x]
      OBVIOUS
    <3>. HIDE DEF f
    <3>2. CASE x \in Adj(u)
      <4>1. WalksAfter(k, u, v)[x] = W(k, x, v)
        BY <3>2 DEF WalksAfter
      <4>2. W(k, x, v) = SumTo(nodes, WalksBefore(k - 1, x, v))
        BY <1>0, <2>1, LastStep
      <4>3. \A y \in 1..nodes : WalksBefore(k - 1, x, v)[y] = f[y]
        BY <2>2, <3>1, <3>2 DEF WalksBefore
      <4>4. Whole(WalksBefore(k - 1, x, v), nodes)
        BY <1>0, <2>1, WalksWhole
      <4>5. SumTo(nodes, WalksBefore(k - 1, x, v)) = SumTo(nodes, f)
        BY <1>0, <4>3, <4>4, SumEqual
      <4>. QED
        BY <3>1, <4>1, <4>2, <4>5
    <3>3. CASE x \notin Adj(u)
      <4>1. WalksAfter(k, u, v)[x] = 0
        BY <3>3 DEF WalksAfter
      <4>2. \A y \in 1..nodes : f[y] = 0
        BY <2>2, <3>1, <3>3
      <4>3. SumTo(nodes, f) = 0
        BY <1>0, <4>2, SumZero
      <4>. QED
        BY <3>1, <4>1, <4>3
    <3>. QED
      BY <3>2, <3>3
  <2>6. SumTo(nodes, byY) = SumTo(nodes, byX)
    BY <1>0, <2>3, SumSwap
  <2>. HIDE DEF byX, byY
  <2>7. /\ Whole(WalksBefore(k, u, v), nodes) /\ Whole(WalksAfter(k, u, v), nodes)
    BY <2>1, WalksWhole
  <2>8. SumTo(nodes, WalksBefore(k, u, v)) = SumTo(nodes, byY)
    BY <1>0, <2>4, <2>7, SumEqual
  <2>9. SumTo(nodes, WalksAfter(k, u, v)) = SumTo(nodes, byX)
    BY <1>0, <2>5, <2>7, SumEqual
  <2>10. W(k + 1, u, v) = SumTo(nodes, WalksBefore(k, u, v))
    BY <2>1, LastStep
  <2>. QED
    BY <2>6, <2>8, <2>9, <2>10
<1>4. ASSUME NEW k \in 0..(nodes - 1), k \in S PROVE k + 1 \in S
  <2>1. k + 1 \in 0..nodes /\ k + 1 - 1 = k
    BY <1>0
  <2>2. First(k + 1)
    <3>1. CASE k = 0
      <4>1. 1 \in 1..nodes /\ k + 1 = 1
        BY <1>0, <3>1
      <4>. QED
        BY <1>2, <2>1, <3>1, <4>1
    <3>2. CASE k # 0
      <4>1. k \in 1..(nodes - 1) /\ First(k)
        BY <1>0, <1>4, <3>2
      <4>. QED
        BY <1>3, <2>1, <4>1
    <3>. QED
      BY <3>1, <3>2
  <2>. QED
    BY <2>1, <2>2
<1>5. \A k \in 0..(nodes - 1) : k \in S => k + 1 \in S
  BY <1>4
<1>. HIDE DEF S
<1>6. \A k \in 0..nodes : k \in S
  BY <1>0, <1>1, <1>5, CountUp
<1>7. \A k \in 1..nodes : First(k)
  <2>1. \A k \in 1..nodes : k \in 0..nodes /\ k # 0
    BY <1>0
  <2>. HIDE DEF First
  <2>. QED
    BY <1>6, <2>1 DEF S
<1>. QED
  BY <1>7

\* A walk can be walked back.
LEMMA WalksTurn ==
  ASSUME MetricsTypeOK
  PROVE  \A k \in 0..nodes, u, v \in Ids : W(k, u, v) = W(k, v, u)
<1>0. nodes \in Nat /\ Ids = 1..nodes
  BY Ends
<1>. DEFINE S == {k \in 0..nodes : \A u, v \in Ids : W(k, u, v) = W(k, v, u)}
<1>1. 0 \in S
  <2>1. \A u, v \in Ids : W(0, u, v) = W(0, v, u)
    BY LastStep
  <2>. QED
    BY <1>0, <2>1
<1>2. ASSUME NEW k \in 0..(nodes - 1), k \in S, NEW u \in Ids, NEW v \in Ids
      PROVE  W(k + 1, u, v) = W(k + 1, v, u)
  <2>1. k \in 0..nodes /\ k + 1 \in 1..nodes /\ k + 1 - 1 = k
    BY <1>0
  <2>2. W(k + 1, u, v) = SumTo(nodes, WalksBefore(k, u, v))
    BY <2>1, LastStep
  <2>3. W(k + 1, v, u) = SumTo(nodes, WalksAfter(k, v, u))
    BY <2>1, FirstStep
  <2>4. \A x \in 1..nodes : WalksBefore(k, u, v)[x] = WalksAfter(k, v, u)[x]
    BY <1>0, <1>2 DEF WalksBefore, WalksAfter
  <2>5. Whole(WalksBefore(k, u, v), nodes)
    BY <2>1, WalksWhole
  <2>6. SumTo(nodes, WalksBefore(k, u, v)) = SumTo(nodes, WalksAfter(k, v, u))
    BY <1>0, <2>4, <2>5, SumEqual
  <2>. QED
    BY <2>2, <2>3, <2>6
<1>3. \A k \in 0..(nodes - 1) : k \in S => k + 1 \in S
  <2>1. \A k \in 0..(nodes - 1) : k + 1 \in 0..nodes
    BY <1>0
  <2>. QED
    BY <1>2, <2>1
<1>. HIDE DEF S
<1>4. \A k \in 0..nodes : k \in S
  BY <1>0, <1>1, <1>3, CountUp
<1>. QED
  BY <1>4 DEF S

-----------------------------------------------------------------------------
(***************************************************************************)
(* Distances.                                                              *)
(***************************************************************************)
Reach(u, v) == v \in Class(AllWalks, u)
D(u, v) == Distance(AllWalks, u, v)

\* A node is reached when some walk leads there.
LEMMA Reached ==
  ASSUME NEW u, NEW v \in Ids
  PROVE  Reach(u, v) <=> \E k \in 0..nodes : W(k, u, v) > 0
BY DEF Reach, Class, W

\* The distance is the number of steps of the shortest walk.
LEMMA LeastWalk ==
  ASSUME MetricsTypeOK, NEW u \in Ids, NEW v \in Ids, Reach(u, v)
  PROVE  /\ D(u, v) \in 0..nodes /\ W(D(u, v), u, v) > 0
         /\ \A l \in 0..(D(u, v) - 1) : W(l, u, v) = 0
         /\ \A k \in 0..nodes : W(k, u, v) > 0 => D(u, v) <= k
<1>0. nodes \in Nat /\ \A k \in 0..nodes : W(k, u, v) \in Nat
  BY Ends, LastStep
<1>. DEFINE S == {k \in 0..nodes : W(k, u, v) > 0}
            P(k) == W(k, u, v) > 0 /\ \A l \in 0..(k - 1) : W(l, u, v) = 0
<1>1. PICK m \in S : \A k \in S : m <= k
  <2>1. S \in SUBSET Nat /\ S # {}
    BY <1>0, Reached
  <2>. HIDE DEF S
  <2>. QED
    BY <2>1, Least
<1>2. m \in 0..nodes /\ P(m)
  <2>1. ASSUME NEW l \in 0..(m - 1) PROVE W(l, u, v) = 0
    <3>1. l \in 0..nodes /\ ~(m <= l)
      BY <1>0, <1>1
    <3>2. ~(W(l, u, v) > 0)
      BY <1>1, <3>1
    <3>. QED
      BY <1>0, <3>1, <3>2
  <2>. QED
    BY <1>1, <2>1
<1>3. D(u, v) = CHOOSE k \in 0..nodes : P(k)
  BY DEF D, Distance, Reach, W
<1>. HIDE DEF P, S
<1>4. D(u, v) \in 0..nodes /\ P(D(u, v))
  BY <1>2, <1>3
<1>5. ASSUME NEW k \in 0..nodes, W(k, u, v) > 0 PROVE D(u, v) <= k
  <2>1. CASE k < D(u, v)
    <3>1. k \in 0..(D(u, v) - 1)
      BY <1>0, <1>4, <2>1
    <3>2. W(k, u, v) = 0
      BY <1>4, <3>1 DEF P
    <3>. QED
      BY <1>5, <3>2
  <2>. QED
    BY <1>0, <1>4, <2>1
<1>. QED
  BY <1>4, <1>5 DEF P

\* A walk to a neighbour of v goes on to v.
LEMMA Extend ==
  ASSUME MetricsTypeOK, NEW u \in Ids, NEW v \in Ids, NEW x \in Adj(v),
         NEW k \in 0..(nodes - 1), W(k, u, x) > 0
  PROVE  W(k + 1, u, v) > 0
<1>1. nodes \in Nat /\ Ids = 1..nodes /\ x \in Ids
  BY Ends, Neighbours
<1>2. k + 1 \in 1..nodes /\ k \in 0..nodes /\ k + 1 - 1 = k
  BY <1>1
<1>3. W(k + 1, u, v) = SumTo(nodes, WalksBefore(k, u, v))
  BY <1>2, LastStep
<1>4. \A y \in 1..nodes : WalksBefore(k, u, v)[y] \in Nat
  BY <1>2, WalksWhole
<1>5. x \in 1..nodes /\ WalksBefore(k, u, v)[x] > 0
  BY <1>1 DEF WalksBefore
<1>. QED
  BY <1>1, <1>3, <1>4, <1>5, SumPositive

\* A shortest walk comes by a neighbour one step nearer.
LEMMA NodeBefore ==
  ASSUME MetricsTypeOK, NEW u \in Ids, NEW v \in Ids, Reach(u, v), D(u, v) # 0
  PROVE  \E x \in Adj(v) : Reach(u, x) /\ D(u, x) = D(u, v) - 1
<1>. DEFINE d == D(u, v)
<1>1. nodes \in Nat /\ Ids = 1..nodes
  BY Ends
<1>2. d \in 0..nodes /\ W(d, u, v) > 0 /\ \A k \in 0..nodes : W(k, u, v) > 0 => d <= k
  BY LeastWalk
<1>. HIDE DEF d
<1>3. d \in 1..nodes /\ d - 1 \in 0..nodes
  BY <1>1, <1>2 DEF d
<1>4. W(d, u, v) = SumTo(nodes, WalksBefore(d - 1, u, v))
  BY <1>3, LastStep
<1>5. \A y \in 1..nodes : WalksBefore(d - 1, u, v)[y] \in Nat
  BY <1>3, WalksWhole
<1>6. PICK x \in 1..nodes : WalksBefore(d - 1, u, v)[x] > 0
  BY <1>1, <1>2, <1>4, <1>5, SumPositive
<1>7. x \in Adj(v) /\ W(d - 1, u, x) > 0
  BY <1>6 DEF WalksBefore
<1>8. Reach(u, x) /\ x \in Ids
  BY <1>1, <1>3, <1>7, Reached
<1>9. D(u, x) \in 0..nodes /\ W(D(u, x), u, x) > 0 /\ D(u, x) <= d - 1
  BY <1>3, <1>7, <1>8, LeastWalk
<1>10. d <= D(u, x) + 1
  <2>1. D(u, x) \in 0..(nodes - 1) /\ D(u, x) + 1 \in 0..nodes
    BY <1>1, <1>3, <1>9
  <2>2. W(D(u, x) + 1, u, v) > 0
    BY <1>7, <1>9, <2>1, Extend
  <2>. QED
    BY <1>2, <2>1, <2>2
<1>11. D(u, x) = d - 1
  BY <1>1, <1>3, <1>9, <1>10
<1>. QED
  BY <1>7, <1>8, <1>11 DEF d

\* A shortest walk visits no node twice.
LEMMA Short ==
  ASSUME MetricsTypeOK, NEW u \in Ids, NEW v \in Ids, Reach(u, v)
  PROVE  D(u, v) \in 0..(nodes - 1)
<1>. DEFINE d == D(u, v)
            At(x, j) == x \in Ids /\ Reach(u, x) /\ D(u, x) = d - j
            S == {j \in 0..d : \E x : At(x, j)}
<1>1. nodes \in Nat /\ Ids = 1..nodes /\ IsFiniteSet(Ids) /\ Cardinality(Ids) = nodes
  BY Ends
<1>2. d \in 0..nodes
  BY LeastWalk
<1>. HIDE DEF d
<1>3. 0 \in S
  <2>1. At(v, 0)
    BY <1>1, <1>2 DEF d
  <2>. QED
    BY <1>2, <2>1
<1>4. ASSUME NEW j \in 0..(d - 1), j \in S PROVE j + 1 \in S
  <2>1. PICK x : At(x, j)
    BY <1>4
  <2>2. D(u, x) # 0
    BY <1>2, <2>1
  <2>3. PICK y \in Adj(x) : Reach(u, y) /\ D(u, y) = D(u, x) - 1
    BY <2>1, <2>2, NodeBefore
  <2>4. y \in Ids /\ D(u, y) = d - (j + 1)
    BY <1>2, <2>1, <2>3, Neighbours
  <2>5. At(y, j + 1) /\ j + 1 \in 0..d
    BY <1>2, <2>3, <2>4
  <2>. HIDE DEF At
  <2>. QED
    BY <2>5
<1>5. \A j \in 0..(d - 1) : j \in S => j + 1 \in S
  BY <1>4
<1>6. \A j \in 0..d : j \in S
  <2>. HIDE DEF S
  <2>. QED
    BY <1>2, <1>3, <1>5, CountUp
<1>. DEFINE f == [j \in 0..d |-> CHOOSE x : At(x, j)]
<1>7. \A j \in 0..d : At(f[j], j)
  <2>. HIDE DEF At
  <2>. QED
    BY <1>6
<1>8. f \in [0..d -> Ids]
  BY <1>7
<1>9. \A i, j \in 0..d : f[i] = f[j] => i = j
  <2>. SUFFICES ASSUME NEW i \in 0..d, NEW j \in 0..d, f[i] = f[j] PROVE i = j
    OBVIOUS
  <2>1. D(u, f[i]) = d - i /\ D(u, f[j]) = d - j
    BY <1>7
  <2>. HIDE DEF f
  <2>. QED
    BY <1>2, <2>1
<1>. HIDE DEF f
<1>10. f \in Injection(0..d, Ids)
  BY <1>8, <1>9 DEF Injection, IsInjective
<1>11. Cardinality(0..d) <= nodes
  BY <1>1, <1>10, FS_Injection
<1>12. Cardinality(0..d) = d + 1
  BY <1>1, <1>2, FS_Interval
<1>13. d \in 0..(nodes - 1)
  BY <1>1, <1>2, <1>11, <1>12
<1>. QED
  BY <1>13 DEF d

\* Only the node itself is at no distance.
LEMMA ReachSelf ==
  ASSUME MetricsTypeOK, NEW u \in Ids
  PROVE  Reach(u, u) /\ D(u, u) = 0 /\ \A v \in Ids : Reach(u, v) /\ D(u, v) = 0 => v = u
<1>1. W(0, u, u) = 1 /\ 0 \in 0..nodes /\ nodes \in Nat
  BY Ends, LastStep
<1>2. Reach(u, u)
  BY <1>1, Reached
<1>3. D(u, u) \in 0..nodes /\ D(u, u) <= 0
  BY <1>1, <1>2, LeastWalk
<1>4. ASSUME NEW v \in Ids, Reach(u, v), D(u, v) = 0 PROVE v = u
  <2>1. W(0, u, v) > 0
    BY <1>4, LeastWalk
  <2>. QED
    BY <2>1, LastStep
<1>. QED
  BY <1>1, <1>2, <1>3, <1>4

\* A neighbour of a reached node is at most one step further.
LEMMA ReachOn ==
  ASSUME MetricsTypeOK, NEW u \in Ids, NEW v \in Ids, Reach(u, v), NEW w \in Adj(v)
  PROVE  w \in Ids /\ Reach(u, w) /\ D(u, w) <= D(u, v) + 1
<1>1. nodes \in Nat /\ w \in Ids /\ v \in Adj(w)
  BY Ends, Neighbours
<1>2. D(u, v) \in 0..(nodes - 1) /\ W(D(u, v), u, v) > 0
  BY Short, LeastWalk
<1>3. D(u, v) + 1 \in 0..nodes /\ W(D(u, v) + 1, u, w) > 0
  BY <1>1, <1>2, Extend
<1>. QED
  BY <1>1, <1>3, Reached, LeastWalk

\* The triangle inequality.
LEMMA ReachThrough ==
  ASSUME MetricsTypeOK, NEW u \in Ids, NEW v \in Ids, NEW w \in Ids, Reach(u, v), Reach(v, w)
  PROVE  Reach(u, w) /\ D(u, w) <= D(u, v) + D(v, w)
<1>1. nodes \in Nat /\ Ids = 1..nodes
  BY Ends
<1>2. D(u, v) \in 0..nodes /\ D(v, w) \in 0..nodes /\ W(D(v, w), v, w) > 0
  BY LeastWalk
<1>. DEFINE d == D(u, v)
            Near(k) == \A x \in Ids : W(k, v, x) > 0 => Reach(u, x) /\ D(u, x) <= d + k
            S == {k \in 0..nodes : Near(k)}
<1>3. Near(0)
  <2>1. \A x \in Ids : W(0, v, x) > 0 => x = v
    BY LastStep
  <2>. QED
    BY <1>2, <2>1
<1>4. ASSUME NEW k \in 0..(nodes - 1), Near(k), NEW x \in Ids, W(k + 1, v, x) > 0
      PROVE  Reach(u, x) /\ D(u, x) <= d + (k + 1)
  <2>1. k + 1 \in 1..nodes /\ k \in 0..nodes /\ k + 1 - 1 = k
    BY <1>1
  <2>2. W(k + 1, v, x) = SumTo(nodes, WalksBefore(k, v, x))
    BY <2>1, LastStep
  <2>3. \A y \in 1..nodes : WalksBefore(k, v, x)[y] \in Nat
    BY <2>1, WalksWhole
  <2>4. PICK y \in 1..nodes : WalksBefore(k, v, x)[y] > 0
    BY <1>1, <1>4, <2>2, <2>3, SumPositive
  <2>5. y \in Adj(x) /\ W(k, v, y) > 0 /\ y \in Ids
    BY <1>1, <2>4 DEF WalksBefore
  <2>6. Reach(u, y) /\ D(u, y) <= d + k /\ x \in Adj(y)
    BY <1>4, <2>5, Neighbours
  <2>7. Reach(u, x) /\ D(u, x) <= D(u, y) + 1
    BY <2>5, <2>6, ReachOn
  <2>8. D(u, x) \in Int /\ D(u, y) \in Int
    BY <2>5, <2>6, <2>7, LeastWalk
  <2>. QED
    BY <1>2, <2>6, <2>7, <2>8
<1>5. 0 \in S
  BY <1>1, <1>3
<1>6. \A k \in 0..(nodes - 1) : k \in S => k + 1 \in S
  <2>1. \A k \in 0..(nodes - 1) : k + 1 \in 0..nodes
    BY <1>1
  <2>2. \A k \in 0..(nodes - 1) : Near(k) => Near(k + 1)
    BY <1>4
  <2>. HIDE DEF Near
  <2>. QED
    BY <2>1, <2>2
<1>. HIDE DEF S
<1>7. \A k \in 0..nodes : k \in S
  BY <1>1, <1>5, <1>6, CountUp
<1>8. Near(D(v, w))
  BY <1>2, <1>7 DEF S
<1>. QED
  BY <1>2, <1>8

\* Distances do not depend on the direction.
LEMMA ReachBack ==
  ASSUME MetricsTypeOK, NEW u \in Ids, NEW v \in Ids
  PROVE  (Reach(u, v) <=> Reach(v, u)) /\ D(u, v) = D(v, u)
<1>1. \A k \in 0..nodes : W(k, u, v) = W(k, v, u)
  BY WalksTurn
<1>2. Reach(u, v) <=> Reach(v, u)
  BY <1>1, Reached
<1>3. CASE Reach(u, v)
  <2>1. /\ D(u, v) \in 0..nodes /\ W(D(u, v), u, v) > 0
        /\ \A k \in 0..nodes : W(k, u, v) > 0 => D(u, v) <= k
    BY <1>3, LeastWalk
  <2>2. /\ D(v, u) \in 0..nodes /\ W(D(v, u), v, u) > 0
        /\ \A k \in 0..nodes : W(k, v, u) > 0 => D(v, u) <= k
    BY <1>2, <1>3, LeastWalk
  <2>3. D(u, v) <= D(v, u) /\ D(v, u) <= D(u, v)
    BY <1>1, <2>1, <2>2
  <2>. QED
    BY <1>2, <2>1, <2>2, <2>3, Ends
<1>4. CASE ~Reach(u, v)
  BY <1>2, <1>4 DEF D, Distance, Reach
<1>. QED
  BY <1>2, <1>3, <1>4

-----------------------------------------------------------------------------
(***************************************************************************)
(* Components.                                                             *)
(***************************************************************************)
Comp(u) == Class(AllWalks, u)
Within(u, k) == {v \in Ids : Reach(u, v) /\ D(u, v) <= k}
Ring(u, k) == {v \in Ids : Reach(u, v) /\ D(u, v) = k}
Filled(u, seen, k) == [seen |-> seen \cup Within(u, k), front |-> Ring(u, k)]
Closed(seen) == seen \in SUBSET Ids /\ \A v \in seen : Adj(v) \subseteq seen

\* A component is what a node reaches.
LEMMA CompReach == \A u : Comp(u) = {v \in Ids : Reach(u, v)}
BY DEF Comp, Class, Reach

\* Nothing reached from a node outside a closed set is in the set.
LEMMA Outside ==
  ASSUME MetricsTypeOK, NEW u \in Ids, NEW seen, Closed(seen), u \notin seen, NEW v \in Ids, Reach(u, v)
  PROVE  v \notin seen
<1>. DEFINE S == {k \in 0..nodes : \A x \in Ids : Reach(u, x) /\ D(u, x) = k => x \notin seen}
<1>1. nodes \in Nat /\ Ids = 1..nodes
  BY Ends
<1>2. 0 \in S
  <2>1. \A x \in Ids : Reach(u, x) /\ D(u, x) = 0 => x = u
    BY ReachSelf
  <2>. QED
    BY <1>1, <2>1
<1>3. ASSUME NEW k \in 0..(nodes - 1), k \in S PROVE k + 1 \in S
  <2>1. ASSUME NEW x \in Ids, Reach(u, x), D(u, x) = k + 1 PROVE x \notin seen
    <3>1. D(u, x) # 0 /\ D(u, x) - 1 = k
      BY <2>1, <1>1
    <3>2. PICK y \in Adj(x) : Reach(u, y) /\ D(u, y) = k
      BY <2>1, <3>1, NodeBefore
    <3>3. y \in Ids
      BY Neighbours
    <3>4. y \notin seen
      BY <1>3, <3>2, <3>3
    <3>. QED
      BY <3>2, <3>4 DEF Closed
  <2>2. k + 1 \in 0..nodes
    BY <1>1
  <2>. QED
    BY <2>1, <2>2
<1>4. \A k \in 0..(nodes - 1) : k \in S => k + 1 \in S
  BY <1>3
<1>. HIDE DEF S
<1>5. \A k \in 0..nodes : k \in S
  BY <1>1, <1>2, <1>4, CountUp
<1>6. D(u, v) \in 0..nodes
  BY LeastWalk
<1>7. D(u, v) \in S
  BY <1>5, <1>6
<1>. QED
  BY <1>7 DEF S

\* A turn of the flood goes one ring further.
LEMMA WaveOn ==
  ASSUME MetricsTypeOK, NEW u \in Ids, NEW seen, Closed(seen), u \notin seen, NEW k \in 0..(nodes - 1)
  PROVE  NextWave(Filled(u, seen, k)) = Filled(u, seen, k + 1)
<1>. DEFINE next == (UNION {Adj(x) : x \in Ring(u, k)}) \ (seen \cup Within(u, k))
<1>1. nodes \in Nat /\ Ids = 1..nodes /\ k \in Nat
  BY Ends
<1>2. \A x \in Ids : Reach(u, x) => D(u, x) \in 0..nodes
  BY LeastWalk
<1>3. ASSUME NEW v \in next PROVE v \in Ring(u, k + 1)
  <2>1. PICK x \in Ring(u, k) : v \in Adj(x)
    OBVIOUS
  <2>2. x \in Ids /\ Reach(u, x) /\ D(u, x) = k
    BY <2>1 DEF Ring
  <2>3. v \in Ids /\ Reach(u, v) /\ D(u, v) <= k + 1
    BY <2>1, <2>2, ReachOn
  <2>4. ~(D(u, v) <= k)
    BY <2>3 DEF Within
  <2>5. D(u, v) = k + 1
    BY <1>1, <1>2, <2>3, <2>4
  <2>. QED
    BY <2>3, <2>5 DEF Ring
<1>4. ASSUME NEW v \in Ring(u, k + 1) PROVE v \in next
  <2>1. v \in Ids /\ Reach(u, v) /\ D(u, v) = k + 1
    BY DEF Ring
  <2>2. D(u, v) # 0 /\ D(u, v) - 1 = k /\ ~(D(u, v) <= k)
    BY <1>1, <2>1
  <2>3. PICK x \in Adj(v) : Reach(u, x) /\ D(u, x) = k
    BY <2>1, <2>2, NodeBefore
  <2>4. x \in Ids /\ v \in Adj(x)
    BY <2>1, <2>3, Neighbours
  <2>5. x \in Ring(u, k)
    BY <2>3, <2>4 DEF Ring
  <2>6. v \notin seen
    BY <2>1, Outside
  <2>7. v \notin Within(u, k)
    BY <2>2 DEF Within
  <2>. QED
    BY <2>4, <2>5, <2>6, <2>7
<1>5. next = Ring(u, k + 1)
  BY <1>3, <1>4
<1>6. Within(u, k) \cup Ring(u, k + 1) = Within(u, k + 1)
  <2>1. \A v \in Ids : Reach(u, v) => (D(u, v) <= k + 1 <=> D(u, v) <= k \/ D(u, v) = k + 1)
    BY <1>1, <1>2
  <2>. QED
    BY <2>1 DEF Within, Ring
<1>7. NextWave(Filled(u, seen, k)) = [seen |-> (seen \cup Within(u, k)) \cup next, front |-> next]
  BY DEF NextWave, Filled
<1>8. (seen \cup Within(u, k)) \cup next = seen \cup Within(u, k + 1)
  BY <1>5, <1>6
<1>. HIDE DEF next
<1>. QED
  BY <1>5, <1>7, <1>8 DEF Filled

\* A search adds the class of its start to a closed set.
LEMMA FloodFills ==
  ASSUME MetricsTypeOK, NEW u \in Ids, NEW seen, Closed(seen), u \notin seen
  PROVE  Flood(u, seen) = seen \cup Comp(u) /\ seen \cap Comp(u) = {}
<1>. DEFINE x == [seen |-> seen \cup {u}, front |-> {u}]
            eq(g) == g = [k \in 0..nodes |-> IF k = 0 THEN x ELSE NextWave(g[k - 1])]
            h == CHOOSE g : eq(g)
            f == [k \in 0..nodes |-> Filled(u, seen, k)]
<1>1. Flood(u, seen) = h[nodes].seen
  BY Zenon DEF Flood
<1>2. nodes \in Nat /\ Ids = 1..nodes
  BY Ends
<1>3. \A y \in Ids : Reach(u, y) => D(u, y) \in 0..(nodes - 1)
  BY Short
<1>4. x = Filled(u, seen, 0)
  <2>1. Within(u, 0) = Ring(u, 0)
    BY <1>2, <1>3 DEF Within, Ring
  <2>2. Ring(u, 0) = {u}
    BY ReachSelf DEF Ring
  <2>. QED
    BY <2>1, <2>2 DEF Filled
<1>5. \A k \in 1..nodes : Filled(u, seen, k) = NextWave(Filled(u, seen, k - 1))
  <2>. SUFFICES ASSUME NEW k \in 1..nodes PROVE Filled(u, seen, k) = NextWave(Filled(u, seen, k - 1))
    OBVIOUS
  <2>1. k - 1 \in 0..(nodes - 1) /\ k - 1 + 1 = k
    BY <1>2
  <2>2. NextWave(Filled(u, seen, k - 1)) = Filled(u, seen, k - 1 + 1)
    BY <2>1, WaveOn
  <2>. QED
    BY <2>1, <2>2
<1>6. eq(f)
  <2>1. ASSUME NEW k \in 0..nodes PROVE f[k] = IF k = 0 THEN x ELSE NextWave(f[k - 1])
    <3>1. k = 0 \/ (k \in 1..nodes /\ k - 1 \in 0..nodes)
      BY <1>2
    <3>2. f[k] = Filled(u, seen, k) /\ (k # 0 => f[k - 1] = Filled(u, seen, k - 1))
      BY <1>2, <3>1
    <3>. HIDE DEF f, x
    <3>. QED
      BY <1>4, <1>5, <3>1, <3>2
  <2>. QED
    BY <2>1
<1>7. eq(h)
  BY <1>6, Zenon
<1>. HIDE DEF h, x
<1>8. h[0] = Filled(u, seen, 0) /\ \A k \in 1..nodes : h[k] = NextWave(h[k - 1])
  BY <1>2, <1>4, <1>7
<1>. DEFINE S == {k \in 0..nodes : h[k] = Filled(u, seen, k)}
<1>9. 0 \in S
  BY <1>2, <1>8
<1>10. ASSUME NEW k \in 0..(nodes - 1), k \in S PROVE k + 1 \in S
  <2>1. k + 1 \in 1..nodes /\ k + 1 \in 0..nodes /\ k + 1 - 1 = k
    BY <1>2
  <2>2. h[k + 1] = NextWave(h[k])
    BY <1>8, <2>1
  <2>3. h[k + 1] = Filled(u, seen, k + 1)
    BY <1>10, <2>2, WaveOn
  <2>. QED
    BY <2>1, <2>3
<1>11. \A k \in 0..(nodes - 1) : k \in S => k + 1 \in S
  BY <1>10
<1>. HIDE DEF S
<1>12. \A k \in 0..nodes : k \in S
  BY <1>2, <1>9, <1>11, CountUp
<1>13. h[nodes] = Filled(u, seen, nodes)
  <2>1. nodes \in S
    BY <1>2, <1>12
  <2>. QED
    BY <2>1 DEF S
<1>14. Within(u, nodes) = Comp(u)
  BY <1>2, <1>3, CompReach DEF Within
<1>15. seen \cap Comp(u) = {}
  BY CompReach, Outside
<1>. QED
  BY <1>1, <1>13, <1>14, <1>15 DEF Filled

\* Classes are closed, and one node's class is that of every node in it.
LEMMA CompClosed ==
  ASSUME MetricsTypeOK, NEW u \in Ids
  PROVE  /\ u \in Comp(u) /\ Closed(Comp(u))
         /\ \A v \in Comp(u) : Comp(v) = Comp(u)
<1>1. u \in Comp(u)
  BY CompReach, ReachSelf
<1>2. Closed(Comp(u))
  <2>1. \A v \in Ids : Reach(u, v) => \A w \in Adj(v) : w \in Ids /\ Reach(u, w)
    BY ReachOn
  <2>. QED
    BY <2>1, CompReach DEF Closed
<1>3. ASSUME NEW v \in Comp(u) PROVE Comp(v) = Comp(u)
  <2>1. v \in Ids /\ Reach(u, v) /\ Reach(v, u)
    BY CompReach, ReachBack
  <2>2. \A w \in Ids : Reach(u, w) <=> Reach(v, w)
    BY <2>1, ReachThrough
  <2>. QED
    BY <2>2, CompReach
<1>. QED
  BY <1>1, <1>2, <1>3

\* Every start adds its class, unless an earlier one has.
Parts(k) == {Comp(u) : u \in 1..k}
Done(k) == {v \in Ids : \E u \in 1..k : v \in Comp(u)}
Listed(sizes, P) ==
  /\ sizes \in Seq(Nat)
  /\ \E c \in Bijection(1..Len(sizes), P) : \A i \in 1..Len(sizes) : sizes[i] = Cardinality(c[i])
Started == {f \in [seen : SUBSET Ids, sizes : Seq(Nat)] : Closed(f.seen)}

\* A start that was not seen adds its component, and one that was adds nothing.
LEMMA StartFound ==
  ASSUME MetricsTypeOK, NEW f \in Started, NEW u \in Ids
  PROVE  /\ StartFrom(f, u) \in Started
         /\ u \in f.seen => StartFrom(f, u) = f
         /\ u \notin f.seen =>
              StartFrom(f, u) = [seen |-> f.seen \cup Comp(u),
                                 sizes |-> Append(f.sizes, Cardinality(Comp(u)))]
<1>1. f \in [seen : SUBSET Ids, sizes : Seq(Nat)] /\ Closed(f.seen)
  BY DEF Started
<1>2. CASE u \in f.seen
  BY <1>2 DEF StartFrom
<1>3. CASE u \notin f.seen
  <2>1. Flood(u, f.seen) = f.seen \cup Comp(u) /\ f.seen \cap Comp(u) = {}
    BY <1>1, <1>3, FloodFills
  <2>2. Flood(u, f.seen) \ f.seen = Comp(u)
    BY <2>1
  <2>3. StartFrom(f, u) = [seen |-> f.seen \cup Comp(u),
                           sizes |-> Append(f.sizes, Cardinality(Comp(u)))]
    BY <1>3, <2>1, <2>2 DEF StartFrom
  <2>4. Comp(u) \in SUBSET Ids /\ Cardinality(Comp(u)) \in Nat
    BY Ends, CompReach, FS_Subset, FS_CardinalityType
  <2>5. Append(f.sizes, Cardinality(Comp(u))) \in Seq(Nat)
    BY <1>1, <2>4
  <2>6. Closed(f.seen \cup Comp(u))
    BY <1>1, CompClosed DEF Closed
  <2>7. StartFrom(f, u) \in Started
    <3>. DEFINE r == [seen |-> f.seen \cup Comp(u),
                      sizes |-> Append(f.sizes, Cardinality(Comp(u)))]
    <3>1. f.seen \cup Comp(u) \in SUBSET Ids
      BY <1>1, <2>4
    <3>2. r \in [seen : SUBSET Ids, sizes : Seq(Nat)] /\ r.seen = f.seen \cup Comp(u)
      BY <2>5, <3>1
    <3>. HIDE DEF r
    <3>3. Closed(r.seen)
      BY <2>6, <3>2
    <3>4. r \in Started
      BY <3>2, <3>3 DEF Started
    <3>. QED
      BY <2>3, <3>4 DEF r
  <2>. QED
    BY <1>3, <2>3, <2>7
<1>. QED
  BY <1>2, <1>3

\* The sizes listed, with one component more.
LEMMA ListMore ==
  ASSUME NEW sizes, NEW P, Listed(sizes, P), NEW c, c \notin P, Cardinality(c) \in Nat
  PROVE  Listed(Append(sizes, Cardinality(c)), P \cup {c})
<1>. DEFINE more == Append(sizes, Cardinality(c))
            n == Len(sizes)
<1>1. sizes \in Seq(Nat) /\ n \in Nat
  BY DEF Listed
<1>2. PICK b \in Bijection(1..n, P) : \A i \in 1..n : sizes[i] = Cardinality(b[i])
  BY DEF Listed
<1>3. /\ b \in [1..n -> P] /\ \A i, j \in 1..n : b[i] = b[j] => i = j
      /\ \A d \in P : \E i \in 1..n : b[i] = d
  BY <1>2, Fun_BijectionProperties
<1>4. more \in Seq(Nat) /\ Len(more) = n + 1 /\ more[n + 1] = Cardinality(c) /\ \A i \in 1..n : more[i] = sizes[i]
  BY <1>1, AppendProperties
<1>. HIDE DEF more, n
<1>. DEFINE a == [i \in 1..(n + 1) |-> IF i = n + 1 THEN c ELSE b[i]]
<1>5. \A i \in 1..(n + 1) : i = n + 1 \/ (i \in 1..n /\ i # n + 1)
  BY <1>1
<1>6. a[n + 1] = c /\ \A i \in 1..n : a[i] = b[i] /\ i # n + 1
  BY <1>1
<1>7. a \in [1..(n + 1) -> P \cup {c}]
  BY <1>1, <1>3
<1>. HIDE DEF a
<1>8. \A i, j \in 1..(n + 1) : a[i] = a[j] => i = j
  <2>. SUFFICES ASSUME NEW i \in 1..(n + 1), NEW j \in 1..(n + 1), a[i] = a[j] PROVE i = j
    OBVIOUS
  <2>1. CASE i \in 1..n /\ j \in 1..n
    BY <1>3, <1>6, <2>1
  <2>2. \A k \in 1..n : a[k] # c
    BY <1>3, <1>6
  <2>. QED
    BY <1>5, <1>6, <2>1, <2>2
<1>9. \A d \in P \cup {c} : \E i \in 1..(n + 1) : a[i] = d
  <2>1. n + 1 \in 1..(n + 1) /\ \A i \in 1..n : i \in 1..(n + 1)
    BY <1>1
  <2>. QED
    BY <1>3, <1>6, <2>1
<1>10. a \in Bijection(1..(n + 1), P \cup {c})
  BY <1>7, <1>8, <1>9, Fun_IsBij
<1>11. \A i \in 1..(n + 1) : more[i] = Cardinality(a[i])
  BY <1>2, <1>4, <1>5, <1>6
<1>12. Listed(more, P \cup {c})
  BY <1>4, <1>10, <1>11 DEF Listed
<1>. QED
  BY <1>12 DEF more

\* The outer loop lists the size of every component once.
LEMMA StartsRun ==
  ASSUME MetricsTypeOK
  PROVE  \E s : Sizes = Descending(s) /\ Listed(s, Classes(AllWalks))
<1>. DEFINE x == [seen |-> {}, sizes |-> <<>>]
            eq(g) == g = [k \in 0..nodes |-> IF k = 0 THEN x ELSE StartFrom(g[k - 1], k)]
            h == CHOOSE g : eq(g)
            step == [k \in 1..nodes |-> [y \in Started |-> StartFrom(y, k)]]
<1>1. Sizes = Descending(h[nodes].sizes)
  BY Zenon DEF Sizes
<1>2. nodes \in Nat /\ Ids = 1..nodes
  BY Ends
<1>3. x \in Started
  BY DEF Started, Closed
<1>4. \A k \in 1..nodes, y \in Started : step[k][y] \in Started /\ step[k][y] = StartFrom(y, k)
  BY <1>2, StartFound
<1>5. x.seen = {} /\ x.sizes = <<>>
  OBVIOUS
<1>. HIDE DEF x, step
<1>6. PICK g : LoopRun(Started, x, nodes, step, g)
  <2>1. Loop(Started, x, nodes, step)
    BY <1>2, <1>3, <1>4 DEF Loop
  <2>. QED
    BY <2>1, LoopExists
<1>7. /\ g \in [0..nodes -> Started] /\ g[0] = x
      /\ \A k \in 1..nodes : k - 1 \in 0..nodes /\ g[k] = StartFrom(g[k - 1], k)
  <2>1. g \in [0..nodes -> Started] /\ g[0] = x /\ \A k \in 1..nodes : g[k] = step[k][g[k - 1]]
    BY <1>6 DEF LoopRun
  <2>2. \A k \in 1..nodes : k - 1 \in 0..nodes
    BY <1>2
  <2>3. \A k \in 1..nodes : g[k - 1] \in Started
    BY <2>1, <2>2
  <2>. QED
    BY <1>4, <2>1, <2>2, <2>3
<1>8. eq(g)
  BY <1>2, <1>7
<1>9. eq(h)
  BY <1>8, Zenon
<1>. HIDE DEF h
<1>10. h[0] = x /\ \A k \in 1..nodes : h[k] = StartFrom(h[k - 1], k)
  BY <1>2, <1>9
<1>. DEFINE Good(k) == h[k] \in Started /\ h[k].seen = Done(k) /\ Listed(h[k].sizes, Parts(k))
            S == {k \in 0..nodes : Good(k)}
<1>11. 0 \in S
  <2>1. Done(0) = {} /\ Parts(0) = {}
    BY DEF Done, Parts
  <2>2. Listed(<<>>, {})
    <3>1. <<>> \in Seq(Nat) /\ Len(<<>>) = 0
      OBVIOUS
    <3>2. 1..0 = {}
      OBVIOUS
    <3>. DEFINE a == [i \in {} |-> i]
    <3>3. a \in Bijection({}, {})
      BY Fun_IsBij
    <3>4. a \in Bijection(1..Len(<<>>), {})
      BY <3>1, <3>2, <3>3
    <3>5. \A i \in 1..Len(<<>>) : <<>>[i] = Cardinality(a[i])
      BY <3>1, <3>2
    <3>. QED
      BY <3>1, <3>4, <3>5 DEF Listed
  <2>3. h[0] \in Started /\ h[0].seen = Done(0) /\ h[0].sizes = <<>>
    BY <1>3, <1>5, <1>10, <2>1
  <2>4. Listed(h[0].sizes, Parts(0))
    BY <2>1, <2>2, <2>3
  <2>. QED
    BY <1>2, <2>3, <2>4
<1>12. ASSUME NEW k \in 0..(nodes - 1), Good(k) PROVE Good(k + 1)
  <2>1. k + 1 \in 1..nodes /\ k + 1 - 1 = k /\ k + 1 \in Ids /\ 1..(k + 1) = 1..k \cup {k + 1}
    BY <1>2
  <2>2. h[k + 1] = StartFrom(h[k], k + 1)
    BY <1>10, <2>1
  <2>3. StartFrom(h[k], k + 1) \in Started
    BY <1>12, <2>1, StartFound
  <2>4. Done(k + 1) = Done(k) \cup Comp(k + 1)
    <3>1. \A v : (\E u \in 1..(k + 1) : v \in Comp(u)) <=> (\E u \in 1..k : v \in Comp(u)) \/ v \in Comp(k + 1)
      BY <2>1
    <3>2. Comp(k + 1) \subseteq Ids
      BY CompReach
    <3>. QED
      BY <3>1, <3>2 DEF Done
  <2>5. Parts(k + 1) = Parts(k) \cup {Comp(k + 1)}
    BY <2>1 DEF Parts
  <2>6. CASE k + 1 \in h[k].seen
    <3>1. PICK u \in 1..k : k + 1 \in Comp(u)
      BY <1>12, <2>6 DEF Done
    <3>2. u \in Ids
      BY <1>2
    <3>3. Comp(k + 1) = Comp(u)
      BY <3>1, <3>2, CompClosed
    <3>4. Parts(k + 1) = Parts(k)
      BY <2>5, <3>3 DEF Parts
    <3>5. Done(k + 1) = Done(k)
      <4>1. \A v : v \in Comp(k + 1) => v \in Ids /\ v \in Comp(u)
        BY <3>3, CompReach
      <4>. QED
        BY <2>4, <4>1 DEF Done
    <3>6. h[k + 1] = h[k]
      BY <1>12, <2>1, <2>2, <2>6, StartFound
    <3>. QED
      BY <1>12, <3>4, <3>5, <3>6
  <2>7. CASE k + 1 \notin h[k].seen
    <3>1. h[k + 1] = [seen |-> h[k].seen \cup Comp(k + 1),
                      sizes |-> Append(h[k].sizes, Cardinality(Comp(k + 1)))]
      BY <1>12, <2>1, <2>2, <2>7, StartFound
    <3>2. Comp(k + 1) \notin Parts(k)
      <4>1. k + 1 \in Comp(k + 1)
        BY <2>1, CompClosed
      <4>2. k + 1 \notin Done(k)
        BY <1>12, <2>7
      <4>. QED
        BY <2>1, <4>1, <4>2 DEF Parts, Done
    <3>3. Cardinality(Comp(k + 1)) \in Nat
      BY Ends, CompReach, FS_Subset, FS_CardinalityType
    <3>4. Listed(Append(h[k].sizes, Cardinality(Comp(k + 1))), Parts(k) \cup {Comp(k + 1)})
      BY <1>12, <3>2, <3>3, ListMore
    <3>5. /\ h[k + 1].seen = h[k].seen \cup Comp(k + 1)
          /\ h[k + 1].sizes = Append(h[k].sizes, Cardinality(Comp(k + 1)))
      BY <3>1
    <3>6. h[k + 1].seen = Done(k + 1) /\ h[k + 1] \in Started
      BY <1>12, <2>2, <2>3, <2>4, <3>5
    <3>7. Listed(h[k + 1].sizes, Parts(k + 1))
      BY <2>5, <3>4, <3>5
    <3>. QED
      BY <3>6, <3>7
  <2>. QED
    BY <2>6, <2>7
<1>13. \A k \in 0..(nodes - 1) : k \in S => k + 1 \in S
  <2>1. \A k \in 0..(nodes - 1) : k + 1 \in 0..nodes
    BY <1>2
  <2>. HIDE DEF Good
  <2>. QED
    BY <1>12, <2>1
<1>. HIDE DEF S
<1>14. \A k \in 0..nodes : k \in S
  BY <1>2, <1>11, <1>13, CountUp
<1>15. Good(nodes)
  <2>1. nodes \in S
    BY <1>2, <1>14
  <2>. QED
    BY <2>1 DEF S
<1>16. Parts(nodes) = Classes(AllWalks)
  BY <1>2 DEF Parts, Classes, Comp
<1>. QED
  BY <1>1, <1>15, <1>16

\* Sorting puts every entry in a place of its own, behind the larger ones.
Ahead(s, i) == {j \in DOMAIN s : s[j] > s[i] \/ (s[j] = s[i] /\ j <= i)}

\* How many numbers there are from 1 to n.
LEMMA Counted == \A n \in Nat : IsFiniteSet(1..n) /\ Cardinality(1..n) = n
<1>. SUFFICES ASSUME NEW n \in Nat PROVE IsFiniteSet(1..n) /\ Cardinality(1..n) = n
  OBVIOUS
<1>. QED
  BY FS_Interval

\* Every entry gets a place.
LEMMA PlaceIn ==
  ASSUME NEW s \in Seq(Nat), NEW i \in DOMAIN s
  PROVE  IsFiniteSet(Ahead(s, i)) /\ Place(s, i) \in 1..Len(s)
<1>1. Len(s) \in Nat /\ DOMAIN s = 1..Len(s) /\ s[i] \in Nat
  BY LenProperties
<1>2. IsFiniteSet(1..Len(s)) /\ Cardinality(1..Len(s)) = Len(s)
  BY <1>1, Counted
<1>3. Ahead(s, i) \in SUBSET (1..Len(s)) /\ i \in Ahead(s, i)
  BY <1>1 DEF Ahead
<1>4. /\ IsFiniteSet(Ahead(s, i)) /\ Cardinality(Ahead(s, i)) \in Nat
      /\ Cardinality(Ahead(s, i)) <= Len(s) /\ Cardinality(Ahead(s, i)) # 0
  BY <1>2, <1>3, FS_Subset, FS_CardinalityType, FS_EmptySet
<1>5. Place(s, i) = Cardinality(Ahead(s, i))
  BY DEF Place, Ahead
<1>. QED
  BY <1>1, <1>4, <1>5

\* No two entries get the same place, and a larger one comes first.
LEMMA PlaceBehind ==
  ASSUME NEW s \in Seq(Nat), NEW i \in DOMAIN s, NEW j \in DOMAIN s,
         s[j] > s[i] \/ (s[j] = s[i] /\ j < i)
  PROVE  Place(s, j) < Place(s, i)
<1>1. Len(s) \in Nat /\ DOMAIN s = 1..Len(s) /\ \A k \in DOMAIN s : s[k] \in Nat
  BY LenProperties
<1>2. Ahead(s, j) \in SUBSET Ahead(s, i)
  <2>1. ASSUME NEW k \in Ahead(s, j) PROVE k \in Ahead(s, i)
    <3>1. k \in DOMAIN s /\ (s[k] > s[j] \/ (s[k] = s[j] /\ k <= j))
      BY DEF Ahead
    <3>2. s[k] \in Nat /\ s[i] \in Nat /\ s[j] \in Nat /\ k \in Nat /\ i \in Nat /\ j \in Nat
      BY <1>1, <3>1
    <3>3. s[k] > s[i] \/ (s[k] = s[i] /\ k <= i)
      BY <3>1, <3>2
    <3>. QED
      BY <3>1, <3>3 DEF Ahead
  <2>. QED
    BY <2>1
<1>3. i \in Ahead(s, i) /\ i \notin Ahead(s, j)
  BY <1>1 DEF Ahead
<1>4. IsFiniteSet(Ahead(s, i)) /\ IsFiniteSet(Ahead(s, j))
  BY PlaceIn
<1>5. /\ Cardinality(Ahead(s, j)) <= Cardinality(Ahead(s, i))
      /\ Cardinality(Ahead(s, j)) # Cardinality(Ahead(s, i))
      /\ Cardinality(Ahead(s, j)) \in Nat /\ Cardinality(Ahead(s, i)) \in Nat
  BY <1>2, <1>3, <1>4, FS_Subset, FS_CardinalityType
<1>6. Place(s, i) = Cardinality(Ahead(s, i)) /\ Place(s, j) = Cardinality(Ahead(s, j))
  BY DEF Place, Ahead
<1>. QED
  BY <1>5, <1>6

\* Sorting rearranges the entries, in descending order.
LEMMA Sorted ==
  ASSUME NEW s \in Seq(Nat)
  PROVE  \E o \in Bijection(1..Len(s), 1..Len(s)) :
           /\ Descending(s) = [p \in 1..Len(s) |-> s[o[p]]]
           /\ \A p, q \in 1..Len(s) : p < q => s[o[q]] <= s[o[p]]
<1>. DEFINE n == Len(s)
            place == [i \in 1..n |-> Place(s, i)]
            at(p) == CHOOSE i \in DOMAIN s : Place(s, i) = p
            o == [p \in 1..n |-> at(p)]
<1>1. n \in Nat /\ DOMAIN s = 1..n /\ \A k \in 1..n : s[k] \in Nat
  BY LenProperties
<1>2. IsFiniteSet(1..n) /\ Cardinality(1..n) = n
  BY <1>1, Counted
<1>3. place \in [1..n -> 1..n]
  BY <1>1, PlaceIn
<1>4. \A i, j \in 1..n : place[i] = place[j] => i = j
  <2>. SUFFICES ASSUME NEW i \in 1..n, NEW j \in 1..n, i # j PROVE Place(s, i) # Place(s, j)
    OBVIOUS
  <2>1. Place(s, i) \in 1..n /\ Place(s, j) \in 1..n
    BY <1>1, PlaceIn
  <2>2. \/ s[j] > s[i] \/ (s[j] = s[i] /\ j < i)
        \/ s[i] > s[j] \/ (s[i] = s[j] /\ i < j)
    <3>1. s[i] \in Nat /\ s[j] \in Nat /\ i \in Nat /\ j \in Nat
      BY <1>1
    <3>. QED
      BY <3>1
  <2>3. Place(s, j) < Place(s, i) \/ Place(s, i) < Place(s, j)
    BY <1>1, <2>2, PlaceBehind
  <2>. QED
    BY <2>1, <2>3
<1>5. place \in Injection(1..n, 1..n)
  <2>. HIDE DEF place, n
  <2>. QED
    BY <1>3, <1>4, Fun_IsInj
<1>6. place \in Surjection(1..n, 1..n)
  <2>. HIDE DEF place, n
  <2>. QED
    BY <1>2, <1>5, FS_Injection
<1>7. \A p \in 1..n : \E i \in 1..n : place[i] = p
  <2>. HIDE DEF place, n
  <2>. QED
    BY <1>6, Fun_SurjectionProperties
<1>8. \A p \in 1..n : o[p] \in 1..n /\ Place(s, o[p]) = p
  <2>. SUFFICES ASSUME NEW p \in 1..n PROVE at(p) \in 1..n /\ Place(s, at(p)) = p
    OBVIOUS
  <2>1. \E i \in DOMAIN s : Place(s, i) = p
    BY <1>1, <1>7
  <2>2. at(p) \in DOMAIN s /\ Place(s, at(p)) = p
    BY <2>1
  <2>. HIDE DEF at
  <2>. QED
    BY <1>1, <2>2
<1>9. Descending(s) = [p \in 1..n |-> s[o[p]]]
  BY <1>1 DEF Descending
<1>. HIDE DEF place, o
<1>10. o \in Bijection(1..n, 1..n)
  <2>1. o \in [1..n -> 1..n]
    <3>1. DOMAIN o = 1..n /\ o = [p \in 1..n |-> o[p]]
      BY DEF o
    <3>. HIDE DEF n
    <3>. QED
      BY <1>8, <3>1
  <2>2. \A p, q \in 1..n : o[p] = o[q] => p = q
    BY <1>8
  <2>. HIDE DEF n
  <2>3. o \in Injection(1..n, 1..n)
    BY <2>1, <2>2, Fun_IsInj
  <2>4. o \in Surjection(1..n, 1..n)
    BY <1>2, <2>3, FS_Injection
  <2>. QED
    BY <2>3, <2>4 DEF Bijection
<1>11. \A p, q \in 1..n : p < q => s[o[q]] <= s[o[p]]
  <2>. SUFFICES ASSUME NEW p \in 1..n, NEW q \in 1..n, p < q, ~(s[o[q]] <= s[o[p]]) PROVE FALSE
    OBVIOUS
  <2>1. o[p] \in 1..n /\ o[q] \in 1..n /\ Place(s, o[p]) = p /\ Place(s, o[q]) = q
    BY <1>8
  <2>2. s[o[q]] > s[o[p]]
    <3>1. s[o[q]] \in Nat /\ s[o[p]] \in Nat
      BY <1>1, <2>1
    <3>. QED
      BY <3>1
  <2>3. Place(s, o[q]) < Place(s, o[p])
    BY <1>1, <2>1, <2>2, PlaceBehind
  <2>. QED
    BY <2>1, <2>3
<1>. QED
  BY <1>9, <1>10, <1>11

\* The sizes are those of the classes of reachable nodes, the largest first.
LEMMA ComponentsFound ==
  ASSUME MetricsTypeOK, NEW unit
  PROVE  ComponentsRight(Metrics(unit), AllWalks)
<1>. DEFINE C == Classes(AllWalks)
<1>1. PICK s : Sizes = Descending(s) /\ Listed(s, C)
  BY StartsRun
<1>2. s \in Seq(Nat) /\ Len(s) \in Nat /\ DOMAIN s = 1..Len(s)
  BY <1>1, LenProperties DEF Listed
<1>3. PICK c \in Bijection(1..Len(s), C) : \A i \in 1..Len(s) : s[i] = Cardinality(c[i])
  BY <1>1 DEF Listed
<1>4. PICK o \in Bijection(1..Len(s), 1..Len(s)) :
           /\ Descending(s) = [p \in 1..Len(s) |-> s[o[p]]]
           /\ \A p, q \in 1..Len(s) : p < q => s[o[q]] <= s[o[p]]
  BY <1>2, Sorted
<1>. DEFINE n == Len(s)
<1>. HIDE DEF C, n
<1>5. o \in [1..n -> 1..n] /\ o \in Bijection(1..n, 1..n) /\ c \in Bijection(1..n, C)
  BY <1>3, <1>4 DEF n, Bijection, Injection
<1>. DEFINE b == [p \in 1..n |-> c[o[p]]]
<1>6. b \in Bijection(1..n, C)
  BY <1>5, Fun_BijTransitive
<1>rearranged. \A p \in 1..n : b[p] = c[o[p]]
  OBVIOUS
<1>. HIDE DEF b
<1>7. /\ b \in [1..n -> C] /\ \A i, j \in 1..n : b[i] = b[j] => i = j
      /\ \A t \in C : \E i \in 1..n : b[i] = t
  BY <1>6 DEF Bijection, Injection, Surjection, IsInjective
<1>8. Sizes = [p \in 1..n |-> s[o[p]]]
  BY <1>1, <1>4 DEF n
<1>9. n \in Nat /\ IsFiniteSet(1..n) /\ Cardinality(1..n) = n
  BY <1>2, Counted DEF n
<1>10. DOMAIN Sizes = 1..n /\ Len(Sizes) = n /\ Sizes \in Seq(Nat)
  <2>1. \A p \in 1..n : s[o[p]] \in Nat
    BY <1>2, <1>5 DEF n
  <2>. QED
    BY <1>8, <1>9, <2>1
<1>11. \A p \in 1..n : Sizes[p] = Cardinality(b[p])
  <2>. SUFFICES ASSUME NEW p \in 1..n PROVE Sizes[p] = Cardinality(b[p])
    OBVIOUS
  <2>1. Sizes[p] = s[o[p]] /\ b[p] = c[o[p]] /\ o[p] \in 1..n
    BY <1>5, <1>rearranged, <1>8
  <2>. QED
    BY <1>3, <2>1 DEF n
<1>12. n = Cardinality(C)
  <2>1. ExistsBijection(1..n, C)
    BY <1>6 DEF ExistsBijection
  <2>. QED
    BY <1>9, <2>1, FS_Bijection
<1>13. ASSUME NEW k \in Ids
       PROVE Cardinality({i \in 1..n : Sizes[i] = k}) = Cardinality({t \in C : Cardinality(t) = k})
  <2>. DEFINE A == {i \in 1..n : Sizes[i] = k}
              B == {t \in C : Cardinality(t) = k}
              a == [i \in A |-> b[i]]
  <2>1. a \in [A -> B]
    BY <1>7, <1>11
  <2>2. \A i, j \in A : a[i] = a[j] => i = j
    BY <1>7
  <2>3. \A t \in B : \E i \in A : a[i] = t
    <3>. SUFFICES ASSUME NEW t \in B PROVE \E i \in A : a[i] = t
      OBVIOUS
    <3>1. PICK i \in 1..n : b[i] = t
      BY <1>7
    <3>2. i \in A
      BY <1>11, <3>1
    <3>. QED
      BY <3>1, <3>2
  <2>4. IsFiniteSet(A)
    BY <1>9, FS_Subset
  <2>. HIDE DEF a, A, B
  <2>5. a \in Bijection(A, B)
    BY <2>1, <2>2, <2>3, Fun_IsBij
  <2>6. ExistsBijection(A, B)
    BY <2>5 DEF ExistsBijection
  <2>7. Cardinality(A) = Cardinality(B)
    BY <2>4, <2>6, FS_Bijection
  <2>. QED
    BY <2>7 DEF A, B
<1>14. \A i \in 2..n : Sizes[i] <= Sizes[i - 1]
  <2>. SUFFICES ASSUME NEW i \in 2..n PROVE Sizes[i] <= Sizes[i - 1]
    OBVIOUS
  <2>1. i - 1 \in 1..n /\ i \in 1..n /\ i - 1 < i
    BY <1>9
  <2>2. s[o[i]] <= s[o[i - 1]]
    BY <1>4, <2>1 DEF n
  <2>. QED
    BY <1>8, <2>1, <2>2
<1>15. Metrics(unit).count = Len(Sizes) /\ Metrics(unit).sizes = Sizes
  BY DEF Metrics
<1>. HIDE DEF Metrics
<1>. QED
  BY <1>10, <1>12, <1>13, <1>14, <1>15 DEF ComponentsRight, C

-----------------------------------------------------------------------------
(***************************************************************************)
(* Clustering.                                                             *)
(***************************************************************************)
LEMMA SameCount ==
  ASSUME NEW S, NEW T, IsFiniteSet(S), NEW f, f \in [S -> T],
         \A x, y \in S : f[x] = f[y] => x = y, \A t \in T : \E x \in S : f[x] = t
  PROVE  IsFiniteSet(T) /\ Cardinality(T) = Cardinality(S) /\ Cardinality(S) \in Nat
<1>1. f \in Bijection(S, T)
  BY Fun_IsBij
<1>2. ExistsBijection(S, T)
  BY <1>1 DEF ExistsBijection
<1>. QED
  BY <1>2, FS_Bijection, FS_CardinalityType

\* SetToSeq lists each member of a finite set once.
LEMMA ListOnce ==
  ASSUME NEW S, IsFiniteSet(S)
  PROVE  LET list == SetToSeq(S)  n == Cardinality(S)
         IN  /\ n \in Nat /\ list \in [1..n -> S] /\ list \in Seq(S)
             /\ DOMAIN list = 1..n /\ Len(list) = n
             /\ \A i, j \in 1..n : list[i] = list[j] => i = j
             /\ \A x \in S : \E i \in 1..n : list[i] = x
<1>. DEFINE list == SetToSeq(S)
            n == Cardinality(S)
<1>1. n \in Nat /\ ExistsBijection(1..n, S)
  BY FS_CardinalityType
<1>2. PICK f \in [1..n -> S] : IsInjective(f)
  BY <1>1 DEF ExistsBijection, Bijection, Injection
<1>3. list = CHOOSE g \in [1..n -> S] : IsInjective(g)
  BY DEF SetToSeq
<1>4. list \in [1..n -> S] /\ IsInjective(list)
  <2>. HIDE DEF list, n
  <2>. QED
    BY <1>2, <1>3
<1>. HIDE DEF list
<1>5. DOMAIN list = 1..n /\ list \in Seq(S) /\ Len(list) = n
  BY <1>1, <1>4
<1>6. \A i, j \in 1..n : list[i] = list[j] => i = j
  BY <1>4, <1>5 DEF IsInjective
<1>7. \A x \in S : \E i \in 1..n : list[i] = x
  <2>. HIDE DEF n
  <2>1. IsFiniteSet(1..n) /\ Cardinality(1..n) = Cardinality(S)
    BY <1>1, Counted DEF n
  <2>2. list \in Injection(1..n, S)
    BY <1>4 DEF Injection
  <2>3. list \in Surjection(1..n, S)
    BY <2>1, <2>2, FS_Injection
  <2>. QED
    BY <2>3 DEF Surjection
<1>. QED
  BY <1>1, <1>4, <1>5, <1>6, <1>7 DEF list

\* Pairs of neighbours, in terms of the adjacency sets.
LEMMA CornersAre ==
  ASSUME MetricsTypeOK, NEW u \in Ids
  PROVE  /\ Corners(u) = {p \in Adj(u) \X Adj(u) : p[1] # p[2]}
         /\ Triangles(u) = {p \in Adj(u) \X Adj(u) : p[2] \in Adj(p[1])}
<1>1. \A v \in Ids : v \in Adj(u) <=> Joined(u, v) /\ u # v
  BY Neighbours
<1>2. Adj(u) \subseteq Ids
  BY Neighbours
<1>3. \A v, w \in Ids : w \in Adj(v) <=> Joined(v, w) /\ v # w
  BY Neighbours
<1>4. \A p \in Ids \X Ids : p[1] \in Ids /\ p[2] \in Ids /\ p = <<p[1], p[2]>>
  OBVIOUS
<1>5. \A p \in Ids \X Ids : p \in Corners(u) <=> p[1] \in Adj(u) /\ p[2] \in Adj(u) /\ p[1] # p[2]
  BY <1>1, <1>4 DEF Corners
<1>6. Corners(u) = {p \in Adj(u) \X Adj(u) : p[1] # p[2]}
  <2>1. \A p \in Corners(u) : p \in Ids \X Ids
    BY DEF Corners
  <2>2. \A p \in Adj(u) \X Adj(u) : p \in Ids \X Ids /\ p[1] \in Adj(u) /\ p[2] \in Adj(u)
    BY <1>2
  <2>3. \A p \in Corners(u) : p \in Adj(u) \X Adj(u) /\ p[1] # p[2]
    <3>. SUFFICES ASSUME NEW p \in Corners(u) PROVE p \in Adj(u) \X Adj(u) /\ p[1] # p[2]
      OBVIOUS
    <3>1. p = <<p[1], p[2]>> /\ p[1] \in Adj(u) /\ p[2] \in Adj(u) /\ p[1] # p[2]
      BY <1>4, <1>5, <2>1
    <3>. QED
      BY <3>1
  <2>. QED
    BY <1>5, <2>2, <2>3
<1>7. Triangles(u) = {p \in Adj(u) \X Adj(u) : p[2] \in Adj(p[1])}
  <2>1. \A p \in Adj(u) \X Adj(u) : p[1] \in Ids /\ p[2] \in Ids
    BY <1>2
  <2>2. \A p \in Adj(u) \X Adj(u) : p[2] \in Adj(p[1]) <=> Joined(p[1], p[2]) /\ p[1] # p[2]
    BY <1>3, <2>1
  <2>3. Triangles(u) = {p \in Corners(u) : Joined(p[1], p[2])}
    BY DEF Triangles
  <2>. QED
    BY <1>6, <2>2, <2>3
<1>. QED
  BY <1>6, <1>7

\* How many pairs of neighbours there are, both ways round.
LEMMA CornersCount ==
  ASSUME MetricsTypeOK, NEW u \in Ids
  PROVE  LET n == Cardinality(Adj(u))
         IN n \in Nat /\ IsFiniteSet(Corners(u)) /\ Cardinality(Corners(u)) = n * (n - 1)
<1>. DEFINE A == Adj(u)
            n == Cardinality(A)
            d == {p \in A \X A : p[1] = p[2]}
            f == [v \in A |-> <<v, v>>]
<1>1. IsFiniteSet(A) /\ n \in Nat
  BY Neighbours
<1>2. IsFiniteSet(A \X A) /\ Cardinality(A \X A) = n * n
  BY <1>1, FS_Product
<1>3. Corners(u) = (A \X A) \ d
  BY CornersAre
<1>. HIDE DEF A
<1>4. Cardinality(d) = n
  <2>1. f \in [A -> d] /\ \A x, y \in A : f[x] = f[y] => x = y
    OBVIOUS
  <2>2. \A t \in d : \E x \in A : f[x] = t
    <3>. SUFFICES ASSUME NEW t \in d PROVE f[t[1]] = t /\ t[1] \in A
      OBVIOUS
    <3>1. t \in A \X A /\ t[1] = t[2]
      OBVIOUS
    <3>2. t = <<t[1], t[2]>> /\ t[1] \in A
      BY <3>1
    <3>. QED
      BY <3>1, <3>2
  <2>. HIDE DEF d, f
  <2>. QED
    BY <1>1, <2>1, <2>2, SameCount
<1>5. (A \X A) \cap d = d
  OBVIOUS
<1>. HIDE DEF d, n
<1>6. IsFiniteSet((A \X A) \ d) /\ Cardinality((A \X A) \ d) = n * n - n
  <2>. DEFINE q == A \X A
  <2>1. IsFiniteSet(q) /\ Cardinality(q) = n * n /\ q \cap d = d
    BY <1>2, <1>5
  <2>. HIDE DEF q
  <2>2. IsFiniteSet(q \ d) /\ Cardinality(q \ d) = Cardinality(q) - Cardinality(q \cap d)
    BY <2>1, FS_Difference
  <2>3. IsFiniteSet(q \ d) /\ Cardinality(q \ d) = n * n - n
    BY <1>4, <2>1, <2>2
  <2>. QED
    BY <2>3 DEF q
<1>7. n * n - n = n * (n - 1)
  BY <1>1
<1>. QED
  BY <1>1, <1>3, <1>6, <1>7 DEF n, A

\* The nested loop over the list of neighbours meets every triangle once of its two ways.
LEMMA LinksCount ==
  ASSUME MetricsTypeOK, NEW u \in Ids
  PROVE  LET list == SetToSeq(Adj(u))
             links == {p \in (DOMAIN list) \X (DOMAIN list) :
                         p[1] < p[2] /\ list[p[2]] \in Adj(list[p[1]])}
         IN Cardinality(links) \in Nat /\ Cardinality(Triangles(u)) = 2 * Cardinality(links)
<1>. DEFINE A == Adj(u)
            n == Cardinality(A)
            list == SetToSeq(A)
            links == {p \in (DOMAIN list) \X (DOMAIN list) :
                        p[1] < p[2] /\ list[p[2]] \in Adj(list[p[1]])}
            up == {p \in (1..n) \X (1..n) : p[1] < p[2] /\ list[p[2]] \in Adj(list[p[1]])}
            down == {p \in (1..n) \X (1..n) : p[2] < p[1] /\ list[p[2]] \in Adj(list[p[1]])}
            turn == [p \in up |-> <<p[2], p[1]>>]
            named == [p \in up \cup down |-> <<list[p[1]], list[p[2]]>>]
<1>1. /\ n \in Nat /\ list \in [1..n -> A] /\ DOMAIN list = 1..n
      /\ \A i, j \in 1..n : list[i] = list[j] => i = j
      /\ \A x \in A : \E i \in 1..n : list[i] = x
  BY Neighbours, ListOnce
<1>2. A \subseteq Ids /\ Triangles(u) = {p \in A \X A : p[2] \in Adj(p[1])}
  BY Neighbours, CornersAre
<1>3. \A v, w \in Ids : w \in Adj(v) <=> v \in Adj(w)
  BY Neighbours
<1>4. \A v \in Ids : v \notin Adj(v)
  BY Neighbours
<1>5. links = up
  BY <1>1
<1>. HIDE DEF A, n, list, links
<1>6. \A i, j \in 1..n : list[i] \in Adj(list[j]) <=> list[j] \in Adj(list[i])
  BY <1>1, <1>2, <1>3
<1>7. IsFiniteSet((1..n) \X (1..n))
  BY <1>1, Counted, FS_Product
<1>8. IsFiniteSet(up) /\ IsFiniteSet(down) /\ IsFiniteSet(up \cup down)
  <2>1. up \in SUBSET ((1..n) \X (1..n)) /\ down \in SUBSET ((1..n) \X (1..n))
    OBVIOUS
  <2>2. up \cup down \in SUBSET ((1..n) \X (1..n))
    BY <2>1
  <2>. HIDE DEF up, down
  <2>. QED
    BY <1>7, <2>1, <2>2, FS_Subset
<1>9. up \cap down = {}
  BY <1>1
<1>10. Cardinality(down) = Cardinality(up) /\ Cardinality(up) \in Nat
  <2>1. \A p \in (1..n) \X (1..n) : p = <<p[1], p[2]>> /\ p[1] \in 1..n /\ p[2] \in 1..n
    OBVIOUS
  <2>2. turn \in [up -> down]
    <3>. SUFFICES ASSUME NEW p \in up PROVE <<p[2], p[1]>> \in down
      OBVIOUS
    <3>1. p[1] \in 1..n /\ p[2] \in 1..n /\ p[1] < p[2] /\ list[p[2]] \in Adj(list[p[1]])
      BY <2>1
    <3>2. list[p[1]] \in Adj(list[p[2]])
      BY <1>6, <3>1
    <3>. QED
      BY <3>1, <3>2
  <2>3. \A p, q \in up : turn[p] = turn[q] => p = q
    <3>. SUFFICES ASSUME NEW p \in up, NEW q \in up, turn[p] = turn[q] PROVE p = q
      OBVIOUS
    <3>1. p = <<p[1], p[2]>> /\ q = <<q[1], q[2]>>
      BY <2>1
    <3>2. <<p[2], p[1]>> = <<q[2], q[1]>>
      OBVIOUS
    <3>. QED
      BY <3>1, <3>2
  <2>4. \A t \in down : \E p \in up : turn[p] = t
    <3>. SUFFICES ASSUME NEW t \in down PROVE \E p \in up : turn[p] = t
      OBVIOUS
    <3>1. /\ t = <<t[1], t[2]>> /\ t[1] \in 1..n /\ t[2] \in 1..n
          /\ t[2] < t[1] /\ list[t[2]] \in Adj(list[t[1]])
      BY <2>1
    <3>2. list[t[1]] \in Adj(list[t[2]])
      BY <1>6, <3>1
    <3>3. <<t[2], t[1]>> \in up
      BY <3>1, <3>2
    <3>4. turn[<<t[2], t[1]>>] = t
      BY <3>1, <3>3
    <3>. QED
      BY <3>3, <3>4
  <2>. HIDE DEF turn, up, down
  <2>. QED
    BY <1>8, <2>2, <2>3, <2>4, SameCount
<1>11. Cardinality(up \cup down) = 2 * Cardinality(up)
  <2>. HIDE DEF up, down
  <2>1. Cardinality(up \cup down) = Cardinality(up) + Cardinality(down) - 0
    BY <1>8, <1>9, FS_Union, FS_EmptySet
  <2>. QED
    BY <1>10, <2>1
<1>12. Cardinality(Triangles(u)) = Cardinality(up \cup down)
  <2>. DEFINE both == up \cup down
  <2>1. both = {p \in (1..n) \X (1..n) : list[p[2]] \in Adj(list[p[1]])}
    <3>1. \A p \in (1..n) \X (1..n) : list[p[2]] \in Adj(list[p[1]]) => p[1] < p[2] \/ p[2] < p[1]
      <4>. SUFFICES ASSUME NEW p \in (1..n) \X (1..n), list[p[2]] \in Adj(list[p[1]])
                    PROVE  p[1] # p[2]
        BY <1>1
      <4>1. list[p[1]] \in Ids
        BY <1>1, <1>2
      <4>. QED
        BY <1>4, <4>1
    <3>. QED
      BY <3>1
  <2>2. \A p \in (1..n) \X (1..n) : p = <<p[1], p[2]>> /\ p[1] \in 1..n /\ p[2] \in 1..n
    OBVIOUS
  <2>3. named = [p \in both |-> <<list[p[1]], list[p[2]]>>]
    OBVIOUS
  <2>. HIDE DEF both, named
  <2>4. named \in [both -> Triangles(u)]
    <3>. SUFFICES ASSUME NEW p \in both PROVE <<list[p[1]], list[p[2]]>> \in Triangles(u)
      BY <2>3
    <3>1. p[1] \in 1..n /\ p[2] \in 1..n /\ list[p[2]] \in Adj(list[p[1]])
      BY <2>1, <2>2
    <3>. QED
      BY <1>1, <1>2, <3>1
  <2>5. \A p, q \in both : named[p] = named[q] => p = q
    <3>. SUFFICES ASSUME NEW p \in both, NEW q \in both, named[p] = named[q] PROVE p = q
      OBVIOUS
    <3>1. /\ p = <<p[1], p[2]>> /\ q = <<q[1], q[2]>>
          /\ p[1] \in 1..n /\ p[2] \in 1..n /\ q[1] \in 1..n /\ q[2] \in 1..n
      BY <2>1, <2>2
    <3>2. <<list[p[1]], list[p[2]]>> = <<list[q[1]], list[q[2]]>>
      BY <2>3
    <3>3. list[p[1]] = list[q[1]] /\ list[p[2]] = list[q[2]]
      BY <3>2
    <3>4. p[1] = q[1] /\ p[2] = q[2]
      BY <1>1, <3>1, <3>3
    <3>. QED
      BY <3>1, <3>4
  <2>6. \A t \in Triangles(u) : \E p \in both : named[p] = t
    <3>. SUFFICES ASSUME NEW t \in Triangles(u) PROVE \E p \in both : named[p] = t
      OBVIOUS
    <3>1. t = <<t[1], t[2]>> /\ t[1] \in A /\ t[2] \in A /\ t[2] \in Adj(t[1])
      BY <1>2
    <3>2. PICK i \in 1..n : list[i] = t[1]
      BY <1>1, <3>1
    <3>3. PICK j \in 1..n : list[j] = t[2]
      BY <1>1, <3>1
    <3>4. <<i, j>> \in both
      BY <2>1, <3>1, <3>2, <3>3
    <3>5. named[<<i, j>>] = <<list[i], list[j]>>
      BY <2>3, <3>4
    <3>. QED
      BY <3>1, <3>2, <3>3, <3>4, <3>5
  <2>7. IsFiniteSet(both)
    BY <1>8 DEF both
  <2>8. Cardinality(Triangles(u)) = Cardinality(both)
    BY <2>4, <2>5, <2>6, <2>7, SameCount
  <2>. QED
    BY <2>8 DEF both
<1>13. Cardinality(links) \in Nat /\ Cardinality(Triangles(u)) = 2 * Cardinality(links)
  <2>. HIDE DEF up, down
  <2>. QED
    BY <1>5, <1>10, <1>11, <1>12
<1>. QED
  BY <1>13 DEF links, list, A

\* The average over coefficients is the average over shares of triangles.
LEMMA ClusteringFound ==
  ASSUME MetricsTypeOK, NEW unit
  PROVE  ClusteringRight(Metrics(unit))
<1>. DEFINE f == [u \in Ids |-> IF u \in Clustered THEN Coefficient(u) ELSE 0]
            g == [u \in Ids |-> IF Corners(u) = {} THEN 0
                           ELSE (PairUnit * Cardinality(Triangles(u))) \div Cardinality(Corners(u))]
<1>1. nodes \in Nat /\ Ids = 1..nodes
  BY Ends
<1>0. PairUnit \in Int
  <2>. DEFINE e == [d \in Ids |-> d * (d + 1)]
  <2>1. Positive(e, nodes)
    BY <1>1 DEF Positive, Pos
  <2>. HIDE DEF e
  <2>2. ProductTo(nodes, e) \in Pos
    BY <1>1, <2>1, ProductNext
  <2>. QED
    BY <2>2 DEF PairUnit, Pos, e
<1>2. ASSUME NEW u \in Ids
      PROVE  /\ u \in Clustered <=> Corners(u) # {}
             /\ u \in Clustered =>
                  /\ Coefficient(u) = (PairUnit * Cardinality(Triangles(u))) \div Cardinality(Corners(u))
                  /\ Coefficient(u) \in Int
  <2>. DEFINE n == Cardinality(Adj(u))
              list == SetToSeq(Adj(u))
              links == {p \in (DOMAIN list) \X (DOMAIN list) :
                          p[1] < p[2] /\ list[p[2]] \in Adj(list[p[1]])}
              L == Cardinality(links)
  <2>1. n \in Nat /\ IsFiniteSet(Corners(u)) /\ Cardinality(Corners(u)) = n * (n - 1)
    BY CornersCount
  <2>2. Len(list) = n
    BY Neighbours, ListOnce
  <2>3. L \in Nat /\ Cardinality(Triangles(u)) = 2 * L
    BY LinksCount
  <2>4. Coefficient(u) = (2 * PairUnit * L) \div (Len(list) * (Len(list) - 1))
    BY DEF Coefficient
  <2>5. u \in Clustered <=> n >= 2
    BY DEF Clustered
  <2>6. Corners(u) = {} <=> n * (n - 1) = 0
    <3>. HIDE DEF n
    <3>. QED
      BY <2>1, FS_EmptySet
  <2>. HIDE DEF n, L, list
  <2>7. CASE n >= 2
    <3>1. n * (n - 1) > 0 /\ n * (n - 1) \in Int
      BY <2>1, <2>7
    <3>. DEFINE m == n * (n - 1)
                z == 2 * PairUnit * L
    <3>2. PairUnit * (2 * L) = z
      BY <1>0, <2>3
    <3>3. m \in Int /\ m > 0 /\ z \in Int
      BY <1>0, <2>3, <3>1
    <3>. HIDE DEF m, z
    <3>4. z \div m \in Int
      BY <3>3
    <3>5. Coefficient(u) = z \div m
      BY <2>2, <2>4 DEF m, z
    <3>6. (PairUnit * Cardinality(Triangles(u))) \div Cardinality(Corners(u)) = z \div m
      BY <2>1, <2>3, <3>2 DEF m
    <3>. QED
      BY <2>5, <2>6, <2>7, <3>1, <3>4, <3>5, <3>6
  <2>8. CASE ~(n >= 2)
    <3>1. n = 0 \/ n = 1
      BY <2>1, <2>8
    <3>2. n * (n - 1) = 0
      BY <3>1
    <3>. QED
      BY <2>5, <2>6, <2>8, <3>2
  <2>. QED
    BY <2>7, <2>8
<1>3. \A u \in 1..nodes : f[u] = g[u]
  BY <1>1, <1>2
<1>4. Whole(f, nodes)
  BY <1>1, <1>2 DEF Whole
<1>5. Clustering = Total(f)
  BY DEF Clustering
<1>. HIDE DEF f, g
<1>6. SumTo(nodes, f) = SumTo(nodes, g)
  BY <1>1, <1>3, <1>4, SumEqual
<1>7. Clustering = Total(g)
  BY <1>5, <1>6 DEF Total
<1>8. ~TooLarge => Metrics(unit).clustering = <<Clustering, Cardinality(Clustered)>>
  BY DEF Metrics
<1>10. Clustered = {u \in Ids : Corners(u) # {}}
  BY <1>2 DEF Clustered
<1>9. Metrics(unit).skipped = TooLarge
  BY DEF Metrics
<1>11. ~TooLarge => /\ Metrics(unit).clustering[1] = Total(g)
                    /\ Metrics(unit).clustering[2] = Cardinality({u \in Ids : Corners(u) # {}})
  BY <1>7, <1>8, <1>10
<1>. HIDE DEF Metrics, TooLarge
<1>. QED
  BY <1>9, <1>11 DEF ClusteringRight, g

\* An edge of the metrics' graph has both its ends, and loops have theirs.
LEMMA ChecksFound ==
  ASSUME MetricsTypeOK
  PROVE  ChecksAgree
<1>1. \A e \in relations \X {1, 2} : e \in OrphanEnds <=> e[1][1][e[2]] \notin Ids
  BY DEF OrphanEnds
<1>2. OrphanEnds \subseteq relations \X {1, 2}
  BY DEF OrphanEnds
<1>3. OrphanEnds = {} <=> \A r \in relations : r[1][1] \in Ids /\ r[1][2] \in Ids
  <2>1. ASSUME OrphanEnds = {}, NEW r \in relations PROVE r[1][1] \in Ids /\ r[1][2] \in Ids
    <3>1. <<r, 1>> \in relations \X {1, 2} /\ <<r, 2>> \in relations \X {1, 2}
      OBVIOUS
    <3>2. <<r, 1>>[1][1][<<r, 1>>[2]] \in Ids /\ <<r, 2>>[1][1][<<r, 2>>[2]] \in Ids
      BY <1>1, <2>1, <3>1
    <3>. QED
      BY <3>2
  <2>2. ASSUME \A r \in relations : r[1][1] \in Ids /\ r[1][2] \in Ids, NEW e \in OrphanEnds
        PROVE FALSE
    <3>1. e \in relations \X {1, 2} /\ e[1][1][e[2]] \notin Ids
      BY <1>1, <1>2
    <3>2. e[1] \in relations /\ (e[2] = 1 \/ e[2] = 2)
      BY <3>1
    <3>. QED
      BY <2>2, <3>1, <3>2
  <2>. QED
    BY <2>1, <2>2
<1>4. (\A r \in relations : r[1][1] \in Ids /\ r[1][2] \in Ids) <=> \A e \in Edges : e[1] \in Ids /\ e[2] \in Ids
  BY DEF Edges
<1>5. \A e \in Edges : (e[1] \in Ids /\ e[2] \in Ids) <=> (Linked(e) \/ (e[1] = e[2] /\ e[1] \in Ids))
  BY DEF Linked
<1>. QED
  BY <1>3, <1>4, <1>5 DEF ChecksAgree

-----------------------------------------------------------------------------
(***************************************************************************)
(* Multiples, and the mass of the ranks.                                   *)
(***************************************************************************)
LEMMA Exact ==
  ASSUME NEW a \in Int, NEW b \in Int, b > 0, NEW c \in Int, a = b * c
  PROVE  a \div b = c
<1>. DEFINE q == a \div b
            r == a % b
<1>1. q \in Int /\ r \in 0..(b - 1) /\ a = b * q + r
  OBVIOUS
<1>. HIDE DEF q, r
<1>2. b * (c - q) = r
  BY <1>1
<1>3. CASE c - q >= 1
  <2>1. b * (c - q) >= b
    BY <1>1, <1>3
  <2>. QED
    BY <1>1, <1>2, <2>1
<1>4. CASE c - q <= -1
  <2>1. b * (c - q) <= -b
    BY <1>1, <1>4
  <2>. QED
    BY <1>1, <1>2, <2>1
<1>. QED
  BY <1>1, <1>3, <1>4 DEF q

Multiple(m, x) == \E q \in Int : x = m * q

\* Multiples are whole.
LEMMA MultipleInt ==
  ASSUME NEW m \in Int, NEW x, Multiple(m, x)
  PROVE  x \in Int
<1>1. PICK q \in Int : x = m * q
  BY DEF Multiple
<1>. QED
  BY <1>1

\* Multiples added.
LEMMA MultipleAdd ==
  ASSUME NEW m \in Int, NEW x, NEW y, Multiple(m, x), Multiple(m, y)
  PROVE  Multiple(m, x + y)
<1>1. PICK p \in Int : x = m * p
  BY DEF Multiple
<1>2. PICK q \in Int : y = m * q
  BY DEF Multiple
<1>3. x + y = m * (p + q) /\ p + q \in Int
  BY <1>1, <1>2
<1>. QED
  BY <1>3 DEF Multiple

\* Multiples of multiples.
LEMMA MultipleTimes ==
  ASSUME NEW m \in Int, NEW x, Multiple(m, x), NEW c \in Int
  PROVE  Multiple(m, c * x) /\ Multiple(c * m, c * x)
<1>1. PICK p \in Int : x = m * p
  BY DEF Multiple
<1>2. c * x = m * (c * p) /\ c * p \in Int /\ c * x = (c * m) * p
  BY <1>1
<1>. QED
  BY <1>2 DEF Multiple

\* A multiple of a product is one of each factor.
LEMMA MultipleOf ==
  ASSUME NEW m \in Int, NEW c \in Int, NEW x, Multiple(c * m, x)
  PROVE  Multiple(m, x)
<1>1. PICK p \in Int : x = (c * m) * p
  BY DEF Multiple
<1>2. x = m * (c * p) /\ c * p \in Int
  BY <1>1
<1>. QED
  BY <1>2 DEF Multiple

\* A sum of multiples.
LEMMA SumMultiple ==
  ASSUME NEW n \in Nat, NEW f, NEW m \in Int, \A k \in 1..n : Multiple(m, f[k])
  PROVE  Multiple(m, SumTo(n, f)) /\ Whole(f, n)
<1>. DEFINE g == [k \in 1..n |-> CHOOSE q \in Int : f[k] = m * q]
<1>1. \A k \in 1..n : g[k] \in Int /\ f[k] = m * g[k]
  BY DEF Multiple
<1>. HIDE DEF g
<1>2. Whole(g, n)
  BY <1>1 DEF Whole
<1>3. SumTo(n, f) = m * SumTo(n, g) /\ Whole(f, n)
  BY <1>1, <1>2, SumTimes
<1>4. SumTo(n, g) \in Int
  BY <1>2, SumNext
<1>. QED
  BY <1>3, <1>4 DEF Multiple

\* A sum over a set of indices.
LEMMA SumOver ==
  ASSUME NEW n \in Nat, NEW S \in SUBSET (1..n), NEW c \in Int, NEW f,
         \A k \in 1..n : f[k] = IF k \in S THEN c ELSE 0
  PROVE  SumTo(n, f) = c * Cardinality(S)
<1>. DEFINE part(k) == S \cap (1..k)
            h == [k \in 0..n |-> c * Cardinality(part(k))]
<1>1. Whole(f, n)
  BY DEF Whole
<1>2. \A k \in 0..n : IsFiniteSet(part(k)) /\ Cardinality(part(k)) \in Nat
  <2>. SUFFICES ASSUME NEW k \in 0..n PROVE IsFiniteSet(part(k)) /\ Cardinality(part(k)) \in Nat
    OBVIOUS
  <2>1. IsFiniteSet(1..k) /\ part(k) \in SUBSET (1..k)
    BY Counted
  <2>. HIDE DEF part
  <2>. QED
    BY <2>1, FS_Subset, FS_CardinalityType
<1>3. h[0] = 0
  <2>1. part(0) = {}
    OBVIOUS
  <2>2. Cardinality(part(0)) = 0
    BY <2>1, FS_EmptySet
  <2>. QED
    BY <2>2
<1>4. ASSUME NEW k \in 1..n PROVE h[k] = h[k - 1] + f[k]
  <2>1. k - 1 \in 0..n /\ k \in 0..n
    OBVIOUS
  <2>2. k \in S => part(k) = part(k - 1) \cup {k}
    OBVIOUS
  <2>3. k \notin S => part(k) = part(k - 1)
    OBVIOUS
  <2>4. k \notin part(k - 1)
    OBVIOUS
  <2>. HIDE DEF part
  <2>5. Cardinality(part(k)) = Cardinality(part(k - 1)) + (IF k \in S THEN 1 ELSE 0)
    <3>1. CASE k \in S
      BY <1>2, <2>1, <2>2, <2>4, <3>1, FS_AddElement
    <3>2. CASE k \notin S
      BY <1>2, <2>1, <2>3, <3>2
    <3>. QED
      BY <3>1, <3>2
  <2>. DEFINE a == Cardinality(part(k - 1))
              b == IF k \in S THEN 1 ELSE 0
  <2>6. a \in Nat /\ b \in Int /\ c * (a + b) = c * a + c * b /\ c * b = f[k]
    BY <1>2, <2>1
  <2>7. h[k] = c * (a + b) /\ h[k - 1] = c * a
    BY <2>1, <2>5
  <2>. HIDE DEF a, b, h
  <2>. QED
    BY <2>6, <2>7
<1>5. \A k \in 1..n : h[k] = h[k - 1] + f[k]
  BY <1>4
<1>6. h[n] = c * Cardinality(S)
  <2>1. part(n) = S
    OBVIOUS
  <2>2. n \in 0..n
    OBVIOUS
  <2>. HIDE DEF part
  <2>. QED
    BY <2>1, <2>2
<1>. HIDE DEF h
<1>7. \A k \in 0..n : SumTo(k, f) = h[k]
  BY <1>1, <1>3, <1>5, SumBy
<1>8. n \in 0..n
  OBVIOUS
<1>. QED
  BY <1>6, <1>7, <1>8

\* Products of equal factors.
LEMMA ProductEqual ==
  ASSUME NEW n \in Nat, NEW f, NEW g, Positive(f, n), \A k \in 1..n : f[k] = g[k]
  PROVE  ProductTo(n, f) = ProductTo(n, g)
<1>. DEFINE S == {k \in 0..n : ProductTo(k, f) = ProductTo(k, g)}
<1>1. Positive(g, n)
  BY DEF Positive
<1>2. 0 \in S
  BY <1>1, ProductNext
<1>3. ASSUME NEW k \in 0..(n - 1), k \in S PROVE k + 1 \in S
  <2>1. k + 1 \in 1..n /\ k + 1 - 1 = k /\ k + 1 \in 0..n
    OBVIOUS
  <2>2. ProductTo(k + 1, f) = ProductTo(k, f) * f[k + 1]
    BY <2>1, ProductNext
  <2>3. ProductTo(k + 1, g) = ProductTo(k, g) * g[k + 1]
    BY <1>1, <2>1, ProductNext
  <2>. QED
    BY <1>3, <2>1, <2>2, <2>3
<1>4. \A k \in 0..(n - 1) : k \in S => k + 1 \in S
  BY <1>3
<1>. HIDE DEF S
<1>5. \A k \in 0..n : k \in S
  BY <1>2, <1>4, CountUp
<1>6. n \in S
  BY <1>5
<1>. QED
  BY <1>6 DEF S

\* Positive numbers are whole.
LEMMA PosInt == \A a \in Pos : a \in Nat /\ a \in Int /\ a > 0
BY DEF Pos

\* The numbers the ranks are multiples of.
Degrees == [d \in 1..(nodes - 1) |-> d]

\* The unit of the ranks is divided by 20, by n and by every degree.
LEMMA Units ==
  ASSUME MetricsTypeOK, nodes # 0
  PROVE  /\ RankUnit \in Pos /\ ProductTo(nodes - 1, Degrees) \in Pos
         /\ RankUnit = 20 * nodes * ProductTo(nodes - 1, Degrees)
         /\ \A u \in Ids : Adj(u) # {} =>
              Cardinality(Adj(u)) \in 1..(nodes - 1)
<1>1. nodes \in Nat /\ nodes - 1 \in Nat /\ IsFiniteSet(Ids) /\ Cardinality(Ids) = nodes
  BY Ends
<1>2. Positive(Degrees, nodes - 1)
  BY <1>1 DEF Positive, Degrees, Pos
<1>3. ProductTo(nodes - 1, Degrees) \in Pos
  BY <1>1, <1>2, ProductNext
<1>4. RankUnit = 20 * nodes * ProductTo(nodes - 1, Degrees)
  BY DEF RankUnit, Degrees
<1>5. RankUnit \in Pos
  <2>. DEFINE p == ProductTo(nodes - 1, Degrees)
  <2>1. p \in Nat /\ p > 0 /\ nodes \in Nat /\ nodes > 0
    BY <1>1, <1>3 DEF Pos
  <2>. HIDE DEF p
  <2>2. 20 * nodes \in Nat /\ 20 * nodes > 0
    BY <2>1
  <2>3. (20 * nodes) * p \in Nat /\ (20 * nodes) * p > 0
    BY <2>1, <2>2
  <2>. QED
    BY <1>4, <2>3 DEF p, Pos
<1>6. ASSUME NEW u \in Ids, Adj(u) # {} PROVE Cardinality(Adj(u)) \in 1..(nodes - 1)
  <2>1. IsFiniteSet(Adj(u)) /\ Adj(u) \in SUBSET (Ids \ {u}) /\ Cardinality(Adj(u)) \in Nat
    BY Neighbours
  <2>2. IsFiniteSet(Ids \ {u}) /\ Cardinality(Ids \ {u}) = nodes - 1
    BY <1>1, FS_RemoveElement
  <2>3. Cardinality(Adj(u)) <= nodes - 1
    BY <2>1, <2>2, FS_Subset
  <2>4. Cardinality(Adj(u)) # 0
    BY <1>6, <2>1, FS_EmptySet
  <2>. QED
    BY <1>1, <2>1, <2>3, <2>4
<1>. QED
  BY <1>3, <1>4, <1>5, <1>6

\* A coefficient is exact: the joined pairs of neighbours over all of them.
LEMMA CoefficientExact ==
  ASSUME MetricsTypeOK, NEW u \in Clustered
  PROVE  /\ u \in Ids /\ Cardinality(Corners(u)) # 0
         /\ Coefficient(u) * Cardinality(Corners(u)) = PairUnit * Cardinality(Triangles(u))
<1>. DEFINE e == [d \in Ids |-> d * (d + 1)]
            n == Cardinality(Adj(u))
            list == SetToSeq(Adj(u))
            links == {p \in (DOMAIN list) \X (DOMAIN list) :
                        p[1] < p[2] /\ list[p[2]] \in Adj(list[p[1]])}
            L == Cardinality(links)
<1>1. nodes \in Nat /\ Ids = 1..nodes /\ u \in Ids /\ nodes # 0
  BY Ends DEF Clustered
<1>2. n \in 2..(nodes - 1) /\ n \in Nat
  <2>1. Cardinality(Adj(u)) >= 2 /\ Cardinality(Adj(u)) \in Nat /\ IsFiniteSet(Adj(u))
    BY <1>1, Neighbours DEF Clustered
  <2>2. Adj(u) # {}
    BY <2>1, FS_EmptySet
  <2>3. Cardinality(Adj(u)) \in 1..(nodes - 1)
    BY <1>1, <2>2, Units
  <2>. QED
    BY <1>1, <2>1, <2>3
<1>3. Cardinality(Corners(u)) = n * (n - 1) /\ L \in Nat /\ Cardinality(Triangles(u)) = 2 * L
  BY <1>1, CornersCount, LinksCount
<1>4. Coefficient(u) = (2 * PairUnit * L) \div (n * (n - 1))
  <2>1. Len(list) = n
    BY <1>1, Neighbours, ListOnce
  <2>2. Coefficient(u) = (2 * PairUnit * L) \div (Len(list) * (Len(list) - 1))
    BY DEF Coefficient
  <2>. QED
    BY <2>1, <2>2
<1>. DEFINE j == n - 1
<1>5. j \in 1..nodes /\ e[j] = j * n /\ PairUnit = ProductTo(nodes, e) /\ Positive(e, nodes)
  <2>1. j \in 1..nodes /\ j + 1 = n
    BY <1>1, <1>2
  <2>2. e[j] = j * (j + 1)
    BY <1>1, <2>1
  <2>3. PairUnit = ProductTo(nodes, e)
    BY DEF PairUnit
  <2>4. Positive(e, nodes)
    BY <1>1 DEF Positive, Pos
  <2>. QED
    BY <2>1, <2>2, <2>3, <2>4
<1>. HIDE DEF e, n, L, j
<1>6. PICK q \in Pos : PairUnit = q * e[j]
  BY <1>1, <1>5, ProductDivides
<1>. DEFINE m == n * (n - 1)
<1>7. q \in Int /\ n \in Int /\ L \in Int /\ m \in Int /\ m > 0 /\ e[j] = m
  <2>1. n \in Nat /\ n - 1 \in Nat /\ n > 0 /\ n - 1 > 0
    BY <1>1, <1>2
  <2>2. m \in Int /\ m > 0
    BY <2>1
  <2>3. e[j] = m
    BY <1>5, <2>1 DEF j
  <2>. QED
    BY <1>3, <1>6, <2>1, <2>2, <2>3, PosInt
<1>8. Coefficient(u) = (2 * PairUnit * L) \div m /\ Cardinality(Corners(u)) = m
  BY <1>3, <1>4
<1>. HIDE DEF m
<1>9. 2 * PairUnit * L = m * (2 * q * L) /\ 2 * q * L \in Int /\ m * (2 * q * L) \in Int
  BY <1>6, <1>7
<1>10. Coefficient(u) = 2 * q * L
  BY <1>7, <1>8, <1>9, Exact
<1>11. PairUnit * (2 * L) = (2 * q * L) * m
  BY <1>6, <1>7
<1>. QED
  BY <1>1, <1>3, <1>7, <1>8, <1>10, <1>11

\* One iteration uses up one factor of the scale.
LEMMA Scales ==
  ASSUME MetricsTypeOK, nodes # 0
  PROVE  /\ \A k \in 0..Iterations : Scale(k) \in Pos /\ Multiple(Scale(k), Scale(0))
         /\ \A k \in 0..(Iterations - 1) : Scale(k) = RankUnit * Scale(k + 1)
<1>1. Iterations \in Nat /\ RankUnit \in Pos
  BY MetricsAssumption, Units
<1>2. ASSUME NEW k \in 0..Iterations
      PROVE  /\ Iterations - k \in Nat
             /\ Positive([i \in 1..(Iterations - k) |-> RankUnit], Iterations - k)
             /\ Scale(k) \in Pos
  <2>1. Iterations - k \in Nat
    BY <1>1
  <2>. DEFINE f == [i \in 1..(Iterations - k) |-> RankUnit]
  <2>2. Positive(f, Iterations - k)
    BY <1>1 DEF Positive
  <2>3. Scale(k) = ProductTo(Iterations - k, f)
    BY DEF Scale
  <2>. HIDE DEF f
  <2>4. Scale(k) \in Pos
    BY <2>1, <2>2, <2>3, ProductNext
  <2>. QED
    BY <2>1, <2>2, <2>4 DEF f
<1>3. ASSUME NEW k \in 0..(Iterations - 1) PROVE Scale(k) = RankUnit * Scale(k + 1)
  <2>. DEFINE n == Iterations - k
              f == [i \in 1..n |-> RankUnit]
              g == [i \in 1..(n - 1) |-> RankUnit]
  <2>1. n \in Nat /\ n \in 1..n /\ n - 1 \in Nat /\ k \in 0..Iterations /\ k + 1 \in 0..Iterations
        /\ Iterations - (k + 1) = n - 1
    BY <1>1
  <2>2. Positive(f, n) /\ Positive(g, n - 1) /\ f[n] = RankUnit /\ \A i \in 1..(n - 1) : g[i] = f[i]
    BY <1>1, <2>1 DEF Positive
  <2>3. Scale(k) = ProductTo(n, f) /\ Scale(k + 1) = ProductTo(n - 1, g)
    BY <2>1 DEF Scale
  <2>4. Scale(k + 1) \in Pos
    BY <1>2, <2>1
  <2>. HIDE DEF n, f, g
  <2>5. ProductTo(n, f) = ProductTo(n - 1, f) * f[n]
    BY <2>1, <2>2, ProductNext
  <2>6. ProductTo(n - 1, g) = ProductTo(n - 1, f)
    BY <2>1, <2>2, ProductEqual
  <2>7. Scale(k) = Scale(k + 1) * RankUnit
    BY <2>2, <2>3, <2>5, <2>6
  <2>. QED
    BY <1>1, <2>4, <2>7 DEF Pos
<1>. DEFINE S == {k \in 0..Iterations : Multiple(Scale(k), Scale(0))}
<1>4. 0 \in S
  <2>0. 0 \in 0..Iterations
    BY <1>1
  <2>1. Scale(0) \in Int /\ 0 \in 0..Iterations
    BY <1>2, <2>0, PosInt
  <2>2. Scale(0) = Scale(0) * 1
    BY <2>1
  <2>. QED
    BY <2>1, <2>2 DEF Multiple
<1>5. ASSUME NEW k \in 0..(Iterations - 1), k \in S PROVE k + 1 \in S
  <2>0. k + 1 \in 0..Iterations
    BY <1>1
  <2>1. k + 1 \in 0..Iterations /\ Scale(k + 1) \in Int /\ RankUnit \in Int
    BY <1>1, <1>2, <2>0, PosInt
  <2>2. Multiple(RankUnit * Scale(k + 1), Scale(0))
    BY <1>3, <1>5
  <2>3. Multiple(Scale(k + 1), Scale(0))
    BY <2>1, <2>2, MultipleOf
  <2>. QED
    BY <2>1, <2>3
<1>6. \A k \in 0..(Iterations - 1) : k \in S => k + 1 \in S
  BY <1>5
<1>. HIDE DEF S
<1>7. \A k \in 0..Iterations : k \in S
  BY <1>1, <1>4, <1>6, CountUp
<1>8. \A k \in 0..Iterations : Multiple(Scale(k), Scale(0))
  BY <1>7 DEF S
<1>. QED
  BY <1>2, <1>3, <1>8

\* One iteration keeps the mass, and the ranks multiples of the next scale.
Mass(r) == Total([u \in Ids |-> IF u \in Dangling THEN r[u] ELSE 0])
Base(r) == (3 * nodes * Scale(0) + 17 * Mass(r)) \div (20 * nodes)
Given(r) == [u \in Ids |-> (17 * r[u]) \div (20 * Cardinality(Adj(u)))]
Gains(r, v) == [u \in Ids |-> IF u \in Adj(v) THEN Given(r)[u] ELSE 0]

\* A turn of the power iteration, in named parts.
LEMMA RankedIs ==
  \A r : Ranked(r) = [v \in Ids |-> Base(r) + Total(Gains(r, v))]
BY DEF Ranked, Base, Mass, Gains, Given

\* The teleported and dangling mass is divided without a remainder.
LEMMA BaseExact ==
  ASSUME MetricsTypeOK, nodes # 0, NEW s \in Pos, Multiple(RankUnit * s, Scale(0)), NEW r,
         \A u \in Ids : Multiple(RankUnit * s, r[u])
  PROVE  /\ Multiple(s, Base(r)) /\ Mass(r) \in Int
         /\ 20 * nodes * Base(r) = 3 * nodes * Scale(0) + 17 * Mass(r)
<1>. DEFINE p == ProductTo(nodes - 1, Degrees)
            f == [u \in Ids |-> IF u \in Dangling THEN r[u] ELSE 0]
            n == 20 * nodes
<1>1. nodes \in Nat /\ nodes > 0 /\ Ids = 1..nodes
  BY Ends
<1>2. p \in Nat /\ RankUnit = n * p
  BY Units, PosInt
<1>3. s \in Nat /\ RankUnit \in Nat /\ RankUnit * s \in Int
  BY Units, PosInt
<1>4. \A u \in 1..nodes : Multiple(RankUnit * s, f[u])
  <2>1. 0 = (RankUnit * s) * 0
    BY <1>3
  <2>2. Multiple(RankUnit * s, 0)
    BY <2>1 DEF Multiple
  <2>. QED
    BY <1>1, <2>2
<1>5. Mass(r) = SumTo(nodes, f)
  BY DEF Mass, Total
<1>. HIDE DEF f, p, n
<1>6. Multiple(RankUnit * s, Mass(r))
  BY <1>1, <1>3, <1>4, <1>5, SumMultiple
<1>7. Multiple(RankUnit * s, 3 * nodes * Scale(0)) /\ Multiple(RankUnit * s, 17 * Mass(r))
  <2>. DEFINE m == RankUnit * s
              c == 3 * nodes
              e == 17
  <2>1. m \in Int /\ c \in Int /\ e \in Int /\ Multiple(m, Scale(0)) /\ Multiple(m, Mass(r))
    BY <1>1, <1>3, <1>6
  <2>. HIDE DEF m, c, e
  <2>2. Multiple(m, c * Scale(0)) /\ Multiple(m, e * Mass(r))
    BY <2>1, MultipleTimes
  <2>. QED
    BY <2>2 DEF m, c, e
<1>. DEFINE a == 3 * nodes * Scale(0) + 17 * Mass(r)
<1>8. Multiple(RankUnit * s, a)
  BY <1>3, <1>7, MultipleAdd
<1>9. Mass(r) \in Int
  BY <1>3, <1>6, MultipleInt
<1>10. n \in Int /\ n > 0
  BY <1>1 DEF n
<1>11. Base(r) = a \div n
  BY DEF Base, n
<1>. HIDE DEF a
<1>12. PICK q \in Int : a = (RankUnit * s) * q
  BY <1>8 DEF Multiple
<1>13. a = n * (s * (p * q)) /\ s * (p * q) \in Int /\ p * q \in Int
  <2>1. a = ((n * p) * s) * q
    BY <1>2, <1>12
  <2>2. p * q \in Int /\ s * (p * q) \in Int
    BY <1>2, <1>3
  <2>3. ((n * p) * s) * q = n * (s * (p * q))
    BY <1>2, <1>3, <1>10
  <2>. QED
    BY <2>1, <2>2, <2>3
<1>14. a \in Int
  BY <1>10, <1>13
<1>15. Base(r) = s * (p * q)
  BY <1>10, <1>11, <1>13, <1>14, Exact
<1>16. Multiple(s, Base(r))
  BY <1>13, <1>15 DEF Multiple
<1>17. n * Base(r) = a
  BY <1>13, <1>15
<1>. QED
  BY <1>9, <1>16, <1>17 DEF a, n

\* And so is what a node gives each neighbour: together 17/20 of its rank.
LEMMA GivenExact ==
  ASSUME MetricsTypeOK, nodes # 0, NEW s \in Pos, NEW r, NEW u \in Ids, Adj(u) # {},
         Multiple(RankUnit * s, r[u])
  PROVE  /\ Multiple(s, Given(r)[u])
         /\ 20 * (Given(r)[u] * Cardinality(Adj(u))) = 17 * r[u]
<1>. DEFINE p == ProductTo(nodes - 1, Degrees)
            d == Cardinality(Adj(u))
<1>1. nodes \in Nat /\ nodes > 0 /\ nodes - 1 \in Nat
  BY Ends
<1>2. p \in Nat /\ RankUnit = 20 * nodes * p /\ d \in 1..(nodes - 1)
  BY Units, PosInt
<1>3. s \in Nat
  BY PosInt
<1>4. PICK q \in Pos : p = q * d
  <2>1. Positive(Degrees, nodes - 1) /\ Degrees[d] = d
    BY <1>1, <1>2 DEF Positive, Degrees, Pos
  <2>. HIDE DEF d
  <2>. QED
    BY <1>1, <1>2, <2>1, ProductDivides
<1>5. Given(r)[u] = (17 * r[u]) \div (20 * d)
  BY DEF Given
<1>. HIDE DEF p, d
<1>6. q \in Nat /\ d \in Nat /\ d > 0
  BY <1>1, <1>2, <1>4, PosInt
<1>7. PICK x \in Int : r[u] = (RankUnit * s) * x
  BY DEF Multiple
<1>. DEFINE c == nodes * (q * (s * x))
<1>8. c \in Int
  <2>1. s * x \in Int
    BY <1>3
  <2>2. q * (s * x) \in Int
    BY <1>6, <2>1
  <2>. QED
    BY <1>1, <2>2
<1>9. r[u] = (20 * d) * c
  <2>1. r[u] = ((20 * nodes * (q * d)) * s) * x
    BY <1>2, <1>4, <1>7
  <2>2. ((20 * nodes * (q * d)) * s) * x = (20 * d) * (nodes * (q * (s * x)))
    BY <1>1, <1>3, <1>6
  <2>. QED
    BY <2>1, <2>2
<1>10. c = s * (nodes * (q * x))
  BY <1>1, <1>3, <1>6
<1>. HIDE DEF c
<1>11. 17 * r[u] = (20 * d) * (17 * c) /\ 17 * c \in Int /\ 20 * d \in Int /\ 20 * d > 0 /\ 17 * r[u] \in Int
  BY <1>6, <1>8, <1>9
<1>12. Given(r)[u] = 17 * c
  <2>. DEFINE a == 17 * r[u]
              b == 20 * d
              e == 17 * c
  <2>1. a \in Int /\ b \in Int /\ b > 0 /\ e \in Int /\ a = b * e
    BY <1>11
  <2>. HIDE DEF a, b, e
  <2>2. a \div b = e
    BY <2>1, Exact
  <2>. QED
    BY <1>5, <2>2 DEF a, b, e
<1>13. Multiple(s, Given(r)[u])
  <2>1. Multiple(s, c)
    <3>1. q * x \in Int
      BY <1>6
    <3>2. nodes * (q * x) \in Int
      BY <1>1, <3>1
    <3>. QED
      BY <1>10, <3>2 DEF Multiple
  <2>. QED
    BY <1>3, <1>12, <2>1, MultipleTimes
<1>14. 20 * (Given(r)[u] * d) = 17 * r[u]
  BY <1>6, <1>8, <1>11, <1>12
<1>. QED
  BY <1>13, <1>14 DEF d

\* A turn keeps the mass and leaves multiples of the next scale.
LEMMA RankedKeeps ==
  ASSUME MetricsTypeOK, nodes # 0, NEW s \in Pos, Multiple(RankUnit * s, Scale(0)), NEW r,
         \A u \in Ids : Multiple(RankUnit * s, r[u]), Total(r) = nodes * Scale(0)
  PROVE  /\ Ranked(r) \in [Ids -> Int] /\ \A v \in Ids : Multiple(s, Ranked(r)[v])
         /\ Total(Ranked(r)) = nodes * Scale(0)
<1>1. nodes \in Nat /\ nodes > 0 /\ Ids = 1..nodes
  BY Ends
<1>2. s \in Int /\ RankUnit \in Int /\ RankUnit * s \in Int
  BY Units, PosInt
<1>3. /\ Multiple(s, Base(r)) /\ Base(r) \in Int /\ Mass(r) \in Int
      /\ 20 * nodes * Base(r) = 3 * nodes * Scale(0) + 17 * Mass(r)
  BY <1>2, BaseExact, MultipleInt
<1>4. \A u \in Ids : Adj(u) # {} =>
        /\ Multiple(s, Given(r)[u]) /\ Given(r)[u] \in Int
        /\ 20 * (Given(r)[u] * Cardinality(Adj(u))) = 17 * r[u]
  BY <1>2, GivenExact, MultipleInt
<1>5. \A u, v \in Ids : u \in Adj(v) => Adj(u) # {}
  BY Neighbours
<1>6. \A u \in Ids : r[u] \in Int
  BY <1>2, MultipleInt
<1>7. ASSUME NEW v \in Ids
      PROVE  /\ Multiple(s, Total(Gains(r, v))) /\ Whole(Gains(r, v), nodes)
             /\ Multiple(s, Ranked(r)[v]) /\ Ranked(r)[v] = Base(r) + Total(Gains(r, v))
             /\ Total(Gains(r, v)) \in Int
  <2>1. \A u \in 1..nodes : Multiple(s, Gains(r, v)[u])
    <3>1. 0 = s * 0
      BY <1>2
    <3>2. Multiple(s, 0)
      BY <3>1 DEF Multiple
    <3>. QED
      BY <1>1, <1>4, <1>5, <3>2 DEF Gains
  <2>2. Multiple(s, Total(Gains(r, v))) /\ Whole(Gains(r, v), nodes)
    BY <1>1, <1>2, <2>1, SumMultiple DEF Total
  <2>3. Ranked(r)[v] = Base(r) + Total(Gains(r, v))
    BY RankedIs
  <2>4. Multiple(s, Ranked(r)[v])
    BY <1>2, <1>3, <2>2, <2>3, MultipleAdd
  <2>. QED
    BY <1>2, <2>2, <2>3, <2>4, MultipleInt
<1>8. Ranked(r) \in [Ids -> Int]
  <2>1. \A v \in Ids : Ranked(r)[v] \in Int
    BY <1>2, <1>7, MultipleInt
  <2>. QED
    BY <2>1, RankedIs
<1>. DEFINE F == [v \in 1..nodes |-> Gains(r, v)]
            base == [v \in 1..nodes |-> Base(r)]
            gains == [v \in 1..nodes |-> SumTo(nodes, [u \in 1..nodes |-> F[v][u]])]
            gifts == [u \in 1..nodes |-> SumTo(nodes, [v \in 1..nodes |-> F[v][u]])]
            given == [u \in 1..nodes |-> IF Adj(u) = {} THEN 0 ELSE Given(r)[u] * Cardinality(Adj(u))]
            held == [u \in 1..nodes |-> IF u \in Dangling THEN 0 ELSE r[u]]
            lost == [u \in Ids |-> IF u \in Dangling THEN r[u] ELSE 0]
<1>9. \A v, u \in 1..nodes : F[v][u] \in Int
  BY <1>1, <1>7 DEF Whole
<1>10. \A v \in 1..nodes : gains[v] = Total(Gains(r, v)) /\ gains[v] \in Int
  <2>. SUFFICES ASSUME NEW v \in 1..nodes PROVE gains[v] = Total(Gains(r, v))
    BY <1>1, <1>7
  <2>1. [u \in 1..nodes |-> F[v][u]] = Gains(r, v)
    BY <1>1 DEF Gains
  <2>. QED
    BY <2>1 DEF Total
<1>11. Whole(base, nodes) /\ Whole(gains, nodes)
  BY <1>3, <1>10 DEF Whole
<1>12. \A v \in 1..nodes : Ranked(r)[v] = base[v] + gains[v]
  BY <1>1, <1>7, <1>10
<1>13. SumTo(nodes, base) = nodes * Base(r)
  BY <1>1, <1>3, SumConstant
<1>14. SumTo(nodes, gains) = SumTo(nodes, gifts)
  BY <1>1, <1>9, SumSwap
<1>15. ASSUME NEW u \in 1..nodes PROVE gifts[u] = given[u] /\ gifts[u] \in Int /\ 20 * gifts[u] = 17 * held[u]
  <2>. DEFINE f == [v \in 1..nodes |-> F[v][u]]
              c == Given(r)[u]
  <2>1. u \in Ids /\ Adj(u) \in SUBSET (1..nodes) /\ Cardinality(Adj(u)) \in Nat
    BY <1>1, Neighbours
  <2>2. \A v \in 1..nodes : f[v] = IF v \in Adj(u) THEN c ELSE 0
    <3>1. \A v \in Ids : u \in Adj(v) <=> v \in Adj(u)
      BY <2>1, Neighbours
    <3>. QED
      BY <1>1, <2>1, <3>1 DEF Gains
  <2>3. gifts[u] = SumTo(nodes, f)
    OBVIOUS
  <2>4. CASE Adj(u) = {}
    <3>1. \A v \in 1..nodes : f[v] = 0
      BY <2>2, <2>4
    <3>. HIDE DEF f
    <3>2. SumTo(nodes, f) = 0
      BY <1>1, <3>1, SumZero
    <3>3. u \in Dangling
      BY <2>1, <2>4 DEF Dangling
    <3>. QED
      BY <2>3, <2>4, <3>2, <3>3
  <2>5. CASE Adj(u) # {}
    <3>1. c \in Int /\ 20 * (c * Cardinality(Adj(u))) = 17 * r[u]
      BY <1>4, <2>1, <2>5
    <3>. HIDE DEF f, c
    <3>2. SumTo(nodes, f) = c * Cardinality(Adj(u))
      BY <1>1, <2>1, <2>2, <3>1, SumOver
    <3>3. u \notin Dangling
      BY <2>5 DEF Dangling
    <3>4. c * Cardinality(Adj(u)) \in Int
      BY <2>1, <3>1
    <3>5. gifts[u] = c * Cardinality(Adj(u)) /\ given[u] = c * Cardinality(Adj(u)) /\ held[u] = r[u]
      BY <2>3, <2>5, <3>2, <3>3 DEF c
    <3>. HIDE DEF gifts, given, held
    <3>. QED
      BY <3>1, <3>4, <3>5
  <2>. QED
    BY <2>4, <2>5
<1>16. Total(r) = SumTo(nodes, held) + SumTo(nodes, lost) /\ Whole(held, nodes) /\ SumTo(nodes, held) \in Int
  <2>1. Whole(held, nodes) /\ Whole(lost, nodes)
    BY <1>1, <1>6 DEF Whole
  <2>2. \A u \in 1..nodes : r[u] = held[u] + lost[u]
    BY <1>1, <1>6
  <2>. HIDE DEF held, lost
  <2>. QED
    BY <1>1, <2>1, <2>2, SumAdd, SumNext DEF Total
<1>17. SumTo(nodes, lost) = Mass(r)
  BY DEF Mass, Total
<1>18. 20 * SumTo(nodes, gifts) = 17 * SumTo(nodes, held) /\ SumTo(nodes, gifts) \in Int
  <2>. DEFINE e == [u \in 1..nodes |-> 20 * gifts[u]]
  <2>1. Whole(gifts, nodes)
    BY <1>15 DEF Whole
  <2>2. \A u \in 1..nodes : e[u] = 20 * gifts[u] /\ e[u] = 17 * held[u]
    BY <1>15
  <2>. HIDE DEF e, gifts, held
  <2>3. SumTo(nodes, e) = 20 * SumTo(nodes, gifts)
    BY <1>1, <2>1, <2>2, SumTimes
  <2>4. SumTo(nodes, e) = 17 * SumTo(nodes, held)
    BY <1>1, <1>16, <2>2, SumTimes
  <2>5. SumTo(nodes, gifts) \in Int
    BY <1>1, <2>1, SumNext
  <2>. QED
    BY <2>3, <2>4, <2>5
<1>. HIDE DEF base, gains, gifts, held, lost, F, given
<1>19. Total(Ranked(r)) = nodes * Base(r) + SumTo(nodes, gifts)
  <2>1. SumTo(nodes, Ranked(r)) = SumTo(nodes, base) + SumTo(nodes, gains)
    BY <1>1, <1>11, <1>12, SumAdd
  <2>. QED
    BY <1>13, <1>14, <2>1 DEF Total
<1>20. Total(Ranked(r)) = nodes * Scale(0)
  <2>. DEFINE nb == nodes * Base(r)
              ns == nodes * Scale(0)
              h == SumTo(nodes, held)
              g == SumTo(nodes, gifts)
              m == Mass(r)
  <2>0. 0 \in 0..Iterations
    BY MetricsAssumption
  <2>1. Scale(0) \in Int
    BY <2>0, Scales, PosInt
  <2>2. nb \in Int /\ ns \in Int /\ h \in Int /\ g \in Int /\ m \in Int
    BY <1>1, <1>3, <1>16, <1>18, <2>1
  <2>3. 20 * nb = 3 * ns + 17 * m
    <3>1. 20 * nodes * Base(r) = 20 * (nodes * Base(r)) /\ 3 * nodes * Scale(0) = 3 * (nodes * Scale(0))
      BY <1>1, <1>3, <2>1
    <3>. QED
      BY <1>3, <3>1
  <2>4. 20 * g = 17 * h /\ h + m = ns
    BY <1>16, <1>17, <1>18
  <2>5. Total(Ranked(r)) = nb + g
    BY <1>19
  <2>. HIDE DEF nb, ns, h, g, m
  <2>6. nb + g = ns
    BY <2>2, <2>3, <2>4
  <2>. QED
    BY <2>5, <2>6 DEF ns
<1>. QED
  BY <1>7, <1>8, <1>20

\* Ranks are whole numbers in their unit.
LEMMA RankedWhole ==
  ASSUME MetricsTypeOK, nodes # 0, NEW r \in [Ids -> Int]
  PROVE  Ranked(r) \in [Ids -> Int]
<1>1. nodes \in Nat /\ nodes > 0 /\ Ids = 1..nodes
  BY Ends
<1>2. Scale(0) \in Int
  <2>1. 0 \in 0..Iterations
    BY MetricsAssumption
  <2>. QED
    BY <2>1, Scales, PosInt
<1>3. Mass(r) \in Int
  <2>. DEFINE f == [u \in Ids |-> IF u \in Dangling THEN r[u] ELSE 0]
  <2>1. Whole(f, nodes)
    BY <1>1 DEF Whole
  <2>2. Mass(r) = SumTo(nodes, f)
    BY DEF Mass, Total
  <2>. HIDE DEF f
  <2>. QED
    BY <1>1, <2>1, <2>2, SumNext
<1>4. Base(r) \in Int
  <2>. DEFINE a == 3 * nodes * Scale(0) + 17 * Mass(r)
              b == 20 * nodes
  <2>1. a \in Int /\ b \in Int /\ b > 0
    <3>1. 3 * nodes \in Int
      BY <1>1
    <3>2. 3 * nodes * Scale(0) \in Int
      BY <1>2, <3>1
    <3>. QED
      BY <1>1, <1>3, <3>2
  <2>2. Base(r) = a \div b
    BY DEF Base
  <2>. HIDE DEF a, b
  <2>. QED
    BY <2>1, <2>2
<1>5. ASSUME NEW u \in Ids, Adj(u) # {} PROVE Given(r)[u] \in Int
  <2>. DEFINE a == 17 * r[u]
              b == 20 * Cardinality(Adj(u))
  <2>1. Cardinality(Adj(u)) \in 1..(nodes - 1)
    BY <1>5, Units
  <2>2. a \in Int /\ b \in Int /\ b > 0
    BY <1>1, <2>1
  <2>3. Given(r)[u] = a \div b
    BY DEF Given
  <2>. HIDE DEF a, b
  <2>. QED
    BY <2>2, <2>3
<1>6. ASSUME NEW v \in Ids PROVE Base(r) + Total(Gains(r, v)) \in Int
  <2>1. \A u \in Ids : u \in Adj(v) => Adj(u) # {}
    BY Neighbours
  <2>2. Whole(Gains(r, v), nodes)
    BY <1>1, <1>5, <2>1 DEF Whole, Gains
  <2>3. Total(Gains(r, v)) \in Int
    BY <1>1, <2>2, SumNext DEF Total
  <2>. QED
    BY <1>4, <2>3
<1>. QED
  BY <1>6, RankedIs

\* All iterations.
LEMMA MassKept ==
  ASSUME MetricsTypeOK, NEW unit
  PROVE  MassConserved(Metrics(unit))
<1>1. CASE TooLarge \/ nodes = 0
  <2>1. Metrics(unit).pagerank = <<>>
    BY <1>1 DEF Metrics
  <2>. HIDE DEF Metrics
  <2>. QED
    BY <2>1 DEF MassConserved
<1>2. CASE ~(TooLarge \/ nodes = 0)
  <2>. DEFINE X == [Ids -> Int]
              x == [u \in Ids |-> Scale(0)]
              eq(g) == g = [k \in 0..Iterations |-> IF k = 0 THEN x ELSE Ranked(g[k - 1])]
              h == CHOOSE g : eq(g)
              step == [k \in 1..Iterations |-> [y \in X |-> Ranked(y)]]
  <2>1. PageRank = h[Iterations]
    BY Zenon DEF PageRank
  <2>2. nodes \in Nat /\ Ids = 1..nodes /\ nodes # 0 /\ Iterations \in Nat
    BY <1>2, Ends, MetricsAssumption
  <2>3. Scale(0) \in Int
    <3>1. 0 \in 0..Iterations
      BY <2>2
    <3>. QED
      BY <2>2, <3>1, Scales, PosInt
  <2>4. x \in X
    BY <2>3
  <2>5. \A y \in X : Ranked(y) \in X
    BY <2>2, RankedWhole
  <2>6. \A k \in 1..Iterations, y \in X : step[k][y] \in X /\ step[k][y] = Ranked(y)
    BY <2>5
  <2>7. \A u \in Ids : x[u] = Scale(0)
    OBVIOUS
  <2>. HIDE DEF X, x, step
  <2>8. PICK g : LoopRun(X, x, Iterations, step, g)
    <3>1. Loop(X, x, Iterations, step)
      BY <2>2, <2>4, <2>6 DEF Loop
    <3>. QED
      BY <3>1, LoopExists
  <2>9. /\ g \in [0..Iterations -> X] /\ g[0] = x
        /\ \A k \in 1..Iterations : k - 1 \in 0..Iterations /\ g[k] = Ranked(g[k - 1])
    <3>1. g \in [0..Iterations -> X] /\ g[0] = x /\ \A k \in 1..Iterations : g[k] = step[k][g[k - 1]]
      BY <2>8 DEF LoopRun
    <3>2. \A k \in 1..Iterations : k - 1 \in 0..Iterations
      BY <2>2
    <3>3. \A k \in 1..Iterations : g[k - 1] \in X
      BY <3>1, <3>2
    <3>. QED
      BY <2>6, <3>1, <3>2, <3>3
  <2>10. eq(g)
    BY <2>2, <2>9
  <2>11. eq(h)
    BY <2>10, Zenon
  <2>. HIDE DEF h
  <2>12. h[0] = x /\ \A k \in 1..Iterations : h[k] = Ranked(h[k - 1])
    BY <2>2, <2>11
  <2>. DEFINE Good(k) == /\ \A u \in Ids : Multiple(Scale(k), h[k][u])
                         /\ Total(h[k]) = nodes * Scale(0)
              S == {k \in 0..Iterations : Good(k)}
  <2>13. Good(0)
    <3>1. Scale(0) = Scale(0) * 1
      BY <2>3
    <3>2. Multiple(Scale(0), Scale(0))
      BY <3>1 DEF Multiple
    <3>3. \A u \in Ids : h[0][u] = Scale(0)
      BY <2>7, <2>12
    <3>4. SumTo(nodes, h[0]) = nodes * Scale(0)
      BY <2>2, <2>3, <3>3, SumConstant
    <3>. QED
      BY <3>2, <3>3, <3>4 DEF Total
  <2>14. ASSUME NEW k \in 0..(Iterations - 1), Good(k) PROVE Good(k + 1)
    <3>1. k + 1 \in 1..Iterations /\ k + 1 - 1 = k /\ k \in 0..Iterations /\ k + 1 \in 0..Iterations
      BY <2>2
    <3>2. h[k + 1] = Ranked(h[k])
      BY <2>12, <3>1
    <3>3. Scale(k + 1) \in Pos /\ Scale(k) = RankUnit * Scale(k + 1) /\ Multiple(Scale(k), Scale(0))
      BY <2>2, <3>1, Scales
    <3>. DEFINE s == Scale(k + 1)
                r == h[k]
    <3>4. s \in Pos /\ Multiple(RankUnit * s, Scale(0))
      BY <3>3
    <3>5. (\A u \in Ids : Multiple(RankUnit * s, r[u])) /\ Total(r) = nodes * Scale(0)
      BY <2>14, <3>3
    <3>. HIDE DEF s, r
    <3>6. (\A v \in Ids : Multiple(s, Ranked(r)[v])) /\ Total(Ranked(r)) = nodes * Scale(0)
      BY <2>2, <3>4, <3>5, RankedKeeps
    <3>. QED
      BY <3>2, <3>6 DEF s, r
  <2>15. 0 \in S
    BY <2>2, <2>13
  <2>16. \A k \in 0..(Iterations - 1) : k \in S => k + 1 \in S
    <3>1. \A k \in 0..(Iterations - 1) : k + 1 \in 0..Iterations
      BY <2>2
    <3>. HIDE DEF Good
    <3>. QED
      BY <2>14, <3>1
  <2>. HIDE DEF S
  <2>17. \A k \in 0..Iterations : k \in S
    BY <2>2, <2>15, <2>16, CountUp
  <2>18. Good(Iterations)
    <3>1. Iterations \in S
      BY <2>2, <2>17
    <3>. QED
      BY <3>1 DEF S
  <2>19. Metrics(unit).pagerank = PageRank
    BY <1>2 DEF Metrics
  <2>. HIDE DEF Metrics
  <2>. QED
    BY <2>1, <2>18, <2>19 DEF MassConserved
<1>. QED
  BY <1>1, <1>2

-----------------------------------------------------------------------------
(***************************************************************************)
(* Shortest walks, and the nodes before and after one on them.             *)
(***************************************************************************)
Sg(u, v) == Shortest(AllWalks, u, v)
Before(s, v) == {x \in Adj(v) : Reach(s, x) /\ D(s, v) = D(s, x) + 1}

\* The shortest walks between two nodes are counted alike from both ends, and there is one from a node to itself.
LEMMA SgIs ==
  ASSUME MetricsTypeOK, NEW u \in Ids, NEW v \in Ids
  PROVE  /\ Sg(u, v) \in Nat /\ Sg(u, v) = Sg(v, u)
         /\ Reach(u, v) => Sg(u, v) = W(D(u, v), u, v) /\ Sg(u, v) \in Pos /\ D(u, v) \in 0..nodes
         /\ ~Reach(u, v) => Sg(u, v) = 0
         /\ Sg(u, u) = 1
<1>1. ASSUME NEW a \in Ids, NEW b \in Ids, Reach(a, b)
      PROVE  Sg(a, b) = W(D(a, b), a, b) /\ Sg(a, b) \in Pos /\ D(a, b) \in 0..nodes
  <2>1. Sg(a, b) = W(D(a, b), a, b)
    BY <1>1 DEF Sg, Shortest, Reach, D, W
  <2>2. D(a, b) \in 0..nodes /\ W(D(a, b), a, b) > 0
    BY <1>1, LeastWalk
  <2>3. W(D(a, b), a, b) \in Nat
    BY <2>2, LastStep
  <2>. QED
    BY <2>1, <2>2, <2>3 DEF Pos
<1>2. \A a, b \in Ids : ~Reach(a, b) => Sg(a, b) = 0
  BY DEF Sg, Shortest, Reach
<1>3. Sg(u, v) \in Nat
  BY <1>1, <1>2, PosInt
<1>4. (Reach(u, v) <=> Reach(v, u)) /\ D(u, v) = D(v, u)
  BY ReachBack
<1>5. Sg(u, v) = Sg(v, u)
  <2>1. CASE Reach(u, v)
    <3>1. Sg(u, v) = W(D(u, v), u, v) /\ Sg(v, u) = W(D(u, v), v, u) /\ D(u, v) \in 0..nodes
      BY <1>1, <1>4, <2>1
    <3>. QED
      BY <3>1, WalksTurn
  <2>2. CASE ~Reach(u, v)
    BY <1>2, <1>4, <2>2
  <2>. QED
    BY <2>1, <2>2
<1>6. Sg(u, u) = 1
  <2>1. Reach(u, u) /\ D(u, u) = 0
    BY ReachSelf
  <2>2. Sg(u, u) = W(0, u, u)
    BY <1>1, <2>1
  <2>. QED
    BY <2>2, LastStep
<1>. QED
  BY <1>1, <1>2, <1>3, <1>5, <1>6

\* What being before v on a shortest walk from s means.
LEMMA Preceding ==
  ASSUME MetricsTypeOK, NEW s \in Ids, NEW v \in Ids, NEW x \in Before(s, v)
  PROVE  /\ x \in Ids /\ v \in Adj(x) /\ x \in Adj(v) /\ Reach(s, x) /\ Reach(s, v)
         /\ D(s, v) = D(s, x) + 1 /\ D(s, x) \in 0..(nodes - 1) /\ D(s, v) \in 0..(nodes - 1)
<1>1. x \in Adj(v) /\ Reach(s, x) /\ D(s, v) = D(s, x) + 1
  BY DEF Before
<1>2. x \in Ids /\ v \in Adj(x)
  BY <1>1, Neighbours
<1>3. Reach(s, v)
  BY <1>1, <1>2, ReachOn
<1>. QED
  BY <1>1, <1>2, <1>3, Short

\* A shortest walk to v takes its last step from a node before v.
SgBefore(s, v) == [x \in 1..nodes |-> IF x \in Before(s, v) THEN Sg(s, x) ELSE 0]

\* The shortest walks to v are those to the nodes before it.
LEMMA SgSum ==
  ASSUME MetricsTypeOK, NEW s \in Ids, NEW v \in Ids, Reach(s, v), v # s
  PROVE  Sg(s, v) = SumTo(nodes, SgBefore(s, v))
<1>. DEFINE d == D(s, v)
            f == WalksBefore(d - 1, s, v)
<1>1. nodes \in Nat /\ Ids = 1..nodes
  BY Ends
<1>2. d \in 0..(nodes - 1) /\ d # 0 /\ Sg(s, v) = W(d, s, v)
  BY Short, ReachSelf, SgIs
<1>3. d \in 1..nodes /\ d - 1 \in 0..nodes
  BY <1>1, <1>2
<1>. HIDE DEF d, f
<1>4. W(d, s, v) = SumTo(nodes, f)
  BY <1>3, LastStep DEF f
<1>5. Whole(f, nodes)
  BY <1>3, WalksWhole DEF f
<1>6. ASSUME NEW x \in 1..nodes PROVE f[x] = SgBefore(s, v)[x]
  <2>1. f[x] = IF x \in Adj(v) THEN W(d - 1, s, x) ELSE 0
    BY DEF f, WalksBefore
  <2>2. SgBefore(s, v)[x] = IF x \in Before(s, v) THEN Sg(s, x) ELSE 0
    BY DEF SgBefore
  <2>3. CASE x \in Before(s, v)
    <3>1. D(s, x) = d - 1 /\ Reach(s, x) /\ x \in Adj(v) /\ x \in Ids
      <4>1. /\ x \in Ids /\ x \in Adj(v) /\ Reach(s, x)
            /\ D(s, v) = D(s, x) + 1 /\ D(s, x) \in 0..(nodes - 1)
        BY <2>3, Preceding
      <4>. QED
        BY <1>1, <1>2, <4>1 DEF d
    <3>2. Sg(s, x) = W(d - 1, s, x)
      BY <3>1, SgIs
    <3>. QED
      BY <2>1, <2>2, <2>3, <3>1, <3>2
  <2>4. CASE x \notin Before(s, v) /\ x \in Adj(v)
    <3>1. W(d - 1, s, x) \in Nat /\ x \in Ids
      BY <1>1, <1>3, LastStep
    <3>2. ASSUME W(d - 1, s, x) > 0 PROVE FALSE
      <4>1. Reach(s, x) /\ D(s, x) <= d - 1 /\ D(s, x) \in 0..nodes
        <5>1. Reach(s, x)
          BY <1>3, <3>1, <3>2, Reached
        <5>. QED
          BY <1>3, <3>1, <3>2, <5>1, LeastWalk
      <4>2. v \in Adj(x)
        BY <2>4, <3>1, Neighbours
      <4>3. d <= D(s, x) + 1
        BY <3>1, <4>1, <4>2, ReachOn DEF d
      <4>4. d = D(s, x) + 1
        BY <1>1, <1>2, <4>1, <4>3
      <4>. QED
        BY <2>4, <4>1, <4>4 DEF Before, d
    <3>3. W(d - 1, s, x) = 0
      BY <3>1, <3>2
    <3>. QED
      BY <2>1, <2>2, <2>4, <3>3
  <2>5. CASE x \notin Before(s, v) /\ x \notin Adj(v)
    BY <2>1, <2>2, <2>5
  <2>. QED
    BY <2>3, <2>4, <2>5
<1>7. SumTo(nodes, f) = SumTo(nodes, SgBefore(s, v))
  BY <1>1, <1>5, <1>6, SumEqual
<1>. QED
  BY <1>2, <1>4, <1>7

\* t is at the end of a shortest walk from s through v.
OnPath(s, v, t) == Reach(s, t) /\ Reach(s, v) /\ D(s, v) + D(v, t) = D(s, t)

\* Distances among three nodes that reach one another.
LEMMA Distances ==
  ASSUME MetricsTypeOK, NEW s \in Ids, NEW v \in Ids, NEW t \in Ids, Reach(s, v), Reach(s, t)
  PROVE  /\ Reach(v, t) /\ D(s, v) \in Nat /\ D(s, t) \in Nat /\ D(v, t) \in Nat
         /\ D(s, t) <= D(s, v) + D(v, t) /\ (D(v, t) = 0 <=> v = t)
<1>1. Reach(v, s)
  BY ReachBack
<1>2. Reach(v, t)
  BY <1>1, ReachThrough
<1>3. D(s, v) \in Nat /\ D(s, t) \in Nat /\ D(v, t) \in Nat
  BY <1>2, Ends, LeastWalk
<1>4. D(s, t) <= D(s, v) + D(v, t)
  BY <1>2, ReachThrough
<1>5. D(v, t) = 0 <=> v = t
  BY <1>2, ReachSelf
<1>. QED
  BY <1>2, <1>3, <1>4, <1>5

\* The first step of a shortest walk from v on to t leads to a node after v.
SgAfter(s, v, t) == [w \in 1..nodes |-> IF v \in Before(s, w) /\ OnPath(s, w, t) THEN Sg(w, t) ELSE 0]

\* A node before one on a path is on the path.
LEMMA AfterOn ==
  ASSUME MetricsTypeOK, NEW s \in Ids, NEW v \in Ids, NEW w \in Ids, NEW t \in Ids,
         v \in Before(s, w), OnPath(s, w, t)
  PROVE  OnPath(s, v, t) /\ v # t /\ D(w, t) = D(v, t) - 1
<1>1. w \in Adj(v) /\ Reach(s, v) /\ Reach(s, w) /\ D(s, w) = D(s, v) + 1
  BY Preceding
<1>2. Reach(s, t) /\ D(s, w) + D(w, t) = D(s, t)
  BY DEF OnPath
<1>3. /\ Reach(v, t) /\ D(s, v) \in Nat /\ D(s, t) \in Nat /\ D(v, t) \in Nat
      /\ D(s, t) <= D(s, v) + D(v, t) /\ (D(v, t) = 0 <=> v = t)
  BY <1>1, <1>2, Distances
<1>4. Reach(w, t) /\ D(w, t) \in Nat
  BY <1>1, <1>2, Distances
<1>5. D(v, t) <= D(w, t) + 1
  <2>1. Reach(v, v) /\ D(v, v) = 0
    BY ReachSelf
  <2>2. Reach(v, w) /\ D(v, w) <= 1
    BY <1>1, <2>1, ReachOn
  <2>3. D(v, t) <= D(v, w) + D(w, t) /\ D(v, w) \in 0..nodes
    BY <1>4, <2>2, ReachThrough, LeastWalk
  <2>. QED
    BY <1>3, <1>4, <2>2, <2>3
<1>6. D(s, v) + D(v, t) = D(s, t) /\ D(w, t) = D(v, t) - 1 /\ D(v, t) # 0
  BY <1>1, <1>2, <1>3, <1>4, <1>5
<1>. QED
  BY <1>1, <1>2, <1>3, <1>6 DEF OnPath

\* The shortest walks from v to t are those from the nodes after it.
LEMMA SgOn ==
  ASSUME MetricsTypeOK, NEW s \in Ids, NEW v \in Ids, NEW t \in Ids
  PROVE  SumTo(nodes, SgAfter(s, v, t)) = IF OnPath(s, v, t) /\ v # t THEN Sg(v, t) ELSE 0
<1>1. nodes \in Nat /\ Ids = 1..nodes
  BY Ends
<1>2. CASE ~(OnPath(s, v, t) /\ v # t)
  <2>1. \A w \in 1..nodes : SgAfter(s, v, t)[w] = 0
    BY <1>1, <1>2, AfterOn DEF SgAfter
  <2>. QED
    BY <1>1, <1>2, <2>1, SumZero
<1>3. CASE OnPath(s, v, t) /\ v # t
  <2>. DEFINE d == D(v, t)
              f == WalksAfter(d - 1, v, t)
  <2>1. Reach(s, v) /\ Reach(s, t) /\ D(s, v) + d = D(s, t)
    BY <1>3 DEF OnPath
  <2>2. Reach(v, t) /\ D(s, v) \in Nat /\ D(s, t) \in Nat /\ d \in Nat /\ d # 0
    BY <1>3, <2>1, Distances
  <2>3. d \in 0..(nodes - 1) /\ Sg(v, t) = W(d, v, t)
    BY <2>2, Short, SgIs
  <2>4. d \in 1..nodes /\ d - 1 \in 0..nodes
    BY <1>1, <2>2, <2>3
  <2>. HIDE DEF d, f
  <2>5. W(d, v, t) = SumTo(nodes, f) /\ Whole(f, nodes)
    BY <2>4, FirstStep, WalksWhole DEF f
  <2>6. ASSUME NEW w \in 1..nodes PROVE f[w] = SgAfter(s, v, t)[w]
    <3>1. f[w] = IF w \in Adj(v) THEN W(d - 1, w, t) ELSE 0
      BY DEF f, WalksAfter
    <3>2. SgAfter(s, v, t)[w] = IF v \in Before(s, w) /\ OnPath(s, w, t) THEN Sg(w, t) ELSE 0
      BY DEF SgAfter
    <3>3. w \in Ids
      BY <1>1
    <3>4. CASE v \in Before(s, w) /\ OnPath(s, w, t)
      <4>1. D(w, t) = d - 1 /\ w \in Adj(v) /\ Reach(s, w) /\ Reach(s, t)
        BY <3>3, <3>4, AfterOn, Preceding DEF d, OnPath
      <4>2. Reach(w, t)
        BY <3>3, <4>1, Distances
      <4>3. Sg(w, t) = W(d - 1, w, t)
        BY <3>3, <4>1, <4>2, SgIs
      <4>. QED
        BY <3>1, <3>2, <3>4, <4>1, <4>3
    <3>5. CASE ~(v \in Before(s, w) /\ OnPath(s, w, t)) /\ w \in Adj(v)
      <4>1. W(d - 1, w, t) \in Nat
        BY <2>4, <3>3, LastStep
      <4>2. ASSUME W(d - 1, w, t) > 0 PROVE FALSE
        <5>1. Reach(w, t)
          BY <2>4, <3>3, <4>2, Reached
        <5>2. D(w, t) <= d - 1 /\ D(w, t) \in 0..nodes
          BY <2>4, <3>3, <4>2, <5>1, LeastWalk
        <5>3. Reach(s, w) /\ D(s, w) <= D(s, v) + 1
          BY <2>1, <3>3, <3>5, ReachOn
        <5>4. D(s, w) \in Nat /\ D(w, t) \in Nat /\ D(s, t) <= D(s, w) + D(w, t)
          BY <2>1, <3>3, <5>3, Distances
        <5>5. D(s, w) = D(s, v) + 1 /\ D(s, w) + D(w, t) = D(s, t)
          BY <2>1, <2>2, <5>2, <5>3, <5>4
        <5>6. v \in Adj(w)
          BY <3>3, <3>5, Neighbours
        <5>. QED
          BY <2>1, <3>5, <5>3, <5>5, <5>6 DEF Before, OnPath
      <4>. QED
        BY <3>1, <3>2, <3>5, <4>1, <4>2
    <3>6. CASE ~(v \in Before(s, w) /\ OnPath(s, w, t)) /\ w \notin Adj(v)
      BY <3>1, <3>2, <3>6
    <3>. QED
      BY <3>4, <3>5, <3>6
  <2>7. SumTo(nodes, f) = SumTo(nodes, SgAfter(s, v, t))
    BY <1>1, <2>5, <2>6, SumEqual
  <2>. QED
    BY <1>3, <2>3, <2>5, <2>7
<1>. QED
  BY <1>2, <1>3

-----------------------------------------------------------------------------
(***************************************************************************)
(* The search of Brandes' algorithm.                                       *)
(***************************************************************************)
LEMMA QueueMore ==
  ASSUME NEW S, NEW q \in Seq(S), NEW F \in SUBSET S, IsFiniteSet(F)
  PROVE  LET r == q \o SetToSeq(F)
         IN  /\ r \in Seq(S) /\ Len(q) \in Nat /\ Len(r) \in Nat /\ Len(q) <= Len(r)
             /\ \A i \in 1..Len(q) : i \in 1..Len(r) /\ r[i] = q[i]
             /\ \A i \in 1..Len(r) : i \notin 1..Len(q) => r[i] \in F
             /\ \A x \in F : \E i \in 1..Len(r) : i \notin 1..Len(q) /\ r[i] = x
             /\ \A i, j \in 1..Len(r) : i \notin 1..Len(q) /\ j \notin 1..Len(q) /\ r[i] = r[j] => i = j
<1>. DEFINE list == SetToSeq(F)
            m == Cardinality(F)
            n == Len(q)
            r == q \o list
<1>1. /\ m \in Nat /\ list \in [1..m -> F] /\ list \in Seq(F) /\ Len(list) = m
      /\ \A i, j \in 1..m : list[i] = list[j] => i = j
      /\ \A x \in F : \E i \in 1..m : list[i] = x
  BY ListOnce
<1>2. list \in Seq(S) /\ n \in Nat
  BY <1>1, LenProperties
<1>. HIDE DEF list, m, n
<1>3. /\ r \in Seq(S) /\ Len(r) = n + m
      /\ \A i \in 1..(n + m) : r[i] = IF i <= n THEN q[i] ELSE list[i - n]
  <2>1. /\ q \o list \in Seq(S) /\ Len(q \o list) = Len(q) + Len(list)
        /\ \A i \in 1..(Len(q) + Len(list)) :
             (q \o list)[i] = IF i <= Len(q) THEN q[i] ELSE list[i - Len(q)]
    BY <1>2, ConcatProperties
  <2>2. Len(q) = n /\ Len(list) = m
    BY <1>1 DEF n
  <2>. QED
    BY <2>1, <2>2
<1>. HIDE DEF r
<1>4. \A i \in 1..n : i \in 1..(n + m) /\ r[i] = q[i]
  BY <1>1, <1>2, <1>3
<1>5. \A i \in 1..(n + m) : i \notin 1..n => i - n \in 1..m /\ r[i] = list[i - n]
  BY <1>1, <1>2, <1>3
<1>6. \A i \in 1..(n + m) : i \notin 1..n => r[i] \in F
  BY <1>1, <1>5
<1>7. \A x \in F : \E i \in 1..(n + m) : i \notin 1..n /\ r[i] = x
  <2>. SUFFICES ASSUME NEW x \in F PROVE \E i \in 1..(n + m) : i \notin 1..n /\ r[i] = x
    OBVIOUS
  <2>1. PICK j \in 1..m : list[j] = x
    BY <1>1
  <2>. DEFINE i == n + j
  <2>2. i \in 1..(n + m) /\ i \notin 1..n /\ i - n = j
    BY <1>1, <1>2
  <2>. HIDE DEF i
  <2>3. r[i] = x
    BY <1>5, <2>1, <2>2
  <2>. QED
    BY <2>2, <2>3
<1>8. \A i, j \in 1..(n + m) : i \notin 1..n /\ j \notin 1..n /\ r[i] = r[j] => i = j
  <2>. SUFFICES ASSUME NEW i \in 1..(n + m), NEW j \in 1..(n + m), i \notin 1..n, j \notin 1..n, r[i] = r[j]
                PROVE  i = j
    OBVIOUS
  <2>1. i - n \in 1..m /\ j - n \in 1..m /\ list[i - n] = list[j - n]
    BY <1>5
  <2>2. i - n = j - n
    BY <1>1, <2>1
  <2>. QED
    BY <1>1, <1>2, <2>2
<1>9. n + m \in Nat /\ n <= n + m
  BY <1>1, <1>2
<1>. QED
  BY <1>2, <1>3, <1>4, <1>6, <1>7, <1>8, <1>9 DEF r, n, list

Searches == [queue : Seq(Ids), dist : [Ids -> Int], sigma : [Ids -> Int], preds : [Ids -> SUBSET Ids]]

\* A turn of the search keeps its types.
LEMMA VisitTyped ==
  ASSUME MetricsTypeOK, NEW b \in Searches, NEW k \in 1..nodes
  PROVE  Visit(b, k) \in Searches
<1>. DEFINE v == b.queue[k]
            found == {w \in Adj(v) : b.dist[w] < 0}
            below == found \cup {w \in Adj(v) : b.dist[w] = b.dist[v] + 1}
<1>1. /\ b.queue \in Seq(Ids) /\ b.dist \in [Ids -> Int] /\ b.sigma \in [Ids -> Int]
      /\ b.preds \in [Ids -> SUBSET Ids]
  BY DEF Searches
<1>. HIDE DEF found, below, v
<1>2. CASE k > Len(b.queue)
  <2>1. Visit(b, k) = b
    BY <1>2 DEF Visit
  <2>. QED
    BY <2>1
<1>3. CASE ~(k > Len(b.queue))
  <2>1. k \in 1..Len(b.queue)
    BY <1>1, <1>3, LenProperties, Ends
  <2>2. v \in Ids
    BY <1>1, <2>1, LenProperties DEF v
  <2>3. found \in SUBSET Ids /\ IsFiniteSet(found)
    <3>1. Adj(v) \in SUBSET Ids /\ IsFiniteSet(Adj(v))
      BY <2>2, Neighbours
    <3>2. found \in SUBSET Adj(v)
      BY DEF found
    <3>. QED
      BY <3>1, <3>2, FS_Subset
  <2>. DEFINE queue == b.queue \o SetToSeq(found)
              dist == [u \in Ids |-> IF u \in found THEN b.dist[v] + 1 ELSE b.dist[u]]
              sigma == [u \in Ids |-> IF u \in below THEN b.sigma[u] + b.sigma[v] ELSE b.sigma[u]]
              preds == [u \in Ids |-> IF u \in below THEN b.preds[u] \cup {v} ELSE b.preds[u]]
  <2>4. Visit(b, k) = [queue |-> queue, dist |-> dist, sigma |-> sigma, preds |-> preds]
    BY <1>3 DEF Visit, found, below, v
  <2>5. queue \in Seq(Ids)
    BY <1>1, <2>3, QueueMore
  <2>6. dist \in [Ids -> Int] /\ sigma \in [Ids -> Int]
    BY <1>1, <2>2
  <2>7. preds \in [Ids -> SUBSET Ids]
    BY <1>1, <2>2
  <2>. HIDE DEF queue, dist, sigma, preds
  <2>. QED
    BY <2>4, <2>5, <2>6, <2>7 DEF Searches
<1>. QED
  BY <1>2, <1>3

\* The turns of the search from s.
LEMMA SearchRuns ==
  ASSUME MetricsTypeOK, NEW s \in Ids
  PROVE  \E h : /\ Search(s) = h[nodes] /\ h[0] = Begun(s)
                /\ \A k \in 1..nodes : h[k] = Visit(h[k - 1], k)
                /\ \A k \in 0..nodes : h[k] \in Searches
<1>. DEFINE x == Begun(s)
            eq(g) == g = [k \in 0..nodes |-> IF k = 0 THEN x ELSE Visit(g[k - 1], k)]
            h == CHOOSE g : eq(g)
            step == [k \in 1..nodes |-> [y \in Searches |-> Visit(y, k)]]
<1>1. Search(s) = h[nodes]
  BY Zenon DEF Search
<1>2. nodes \in Nat /\ Ids = 1..nodes
  BY Ends
<1>3. x \in Searches
  <2>. DEFINE queue == <<s>>
              dist == [u \in Ids |-> IF u = s THEN 0 ELSE -1]
              sigma == [u \in Ids |-> IF u = s THEN 1 ELSE 0]
              preds == [u \in Ids |-> {}]
  <2>1. x = [queue |-> queue, dist |-> dist, sigma |-> sigma, preds |-> preds]
    BY DEF Begun
  <2>2. queue \in Seq(Ids)
    OBVIOUS
  <2>3. dist \in [Ids -> Int] /\ sigma \in [Ids -> Int]
    OBVIOUS
  <2>4. preds \in [Ids -> SUBSET Ids]
    OBVIOUS
  <2>. HIDE DEF queue, dist, sigma, preds
  <2>. QED
    BY <2>1, <2>2, <2>3, <2>4 DEF Searches
<1>4. \A k \in 1..nodes, y \in Searches : step[k][y] \in Searches /\ step[k][y] = Visit(y, k)
  BY VisitTyped
<1>. HIDE DEF x, step
<1>5. PICK g : LoopRun(Searches, x, nodes, step, g)
  <2>1. Loop(Searches, x, nodes, step)
    BY <1>2, <1>3, <1>4 DEF Loop
  <2>. QED
    BY <2>1, LoopExists
<1>6. /\ g \in [0..nodes -> Searches] /\ g[0] = x
      /\ \A k \in 1..nodes : k - 1 \in 0..nodes /\ g[k] = Visit(g[k - 1], k)
  <2>1. g \in [0..nodes -> Searches] /\ g[0] = x /\ \A k \in 1..nodes : g[k] = step[k][g[k - 1]]
    BY <1>5 DEF LoopRun
  <2>2. \A k \in 1..nodes : k - 1 \in 0..nodes
    BY <1>2
  <2>3. \A k \in 1..nodes : g[k - 1] \in Searches
    BY <2>1, <2>2
  <2>. QED
    BY <1>4, <2>1, <2>2, <2>3
<1>7. eq(g)
  BY <1>2, <1>6
<1>8. eq(h)
  BY <1>7, Zenon
<1>. HIDE DEF h
<1>9. h[0] = x /\ \A k \in 1..nodes : h[k] = Visit(h[k - 1], k)
  BY <1>2, <1>8
<1>10. \A k \in 0..nodes : h[k] \in Searches
  <2>. DEFINE S == {k \in 0..nodes : h[k] \in Searches}
  <2>1. 0 \in S
    BY <1>2, <1>3, <1>9
  <2>2. ASSUME NEW k \in 0..(nodes - 1), k \in S PROVE k + 1 \in S
    <3>1. k + 1 \in 1..nodes /\ k + 1 \in 0..nodes /\ k + 1 - 1 = k
      BY <1>2
    <3>2. h[k + 1] = Visit(h[k], k + 1)
      BY <1>9, <3>1
    <3>. QED
      BY <2>2, <3>1, <3>2, VisitTyped
  <2>3. \A k \in 0..(nodes - 1) : k \in S => k + 1 \in S
    BY <2>2
  <2>. HIDE DEF S
  <2>4. \A k \in 0..nodes : k \in S
    BY <1>2, <2>1, <2>3, CountUp
  <2>. QED
    BY <2>4 DEF S
<1>. QED
  BY <1>1, <1>9, <1>10 DEF x

\* The nodes found, those visited after k turns, and what a search knows of them then.
In(b) == {b.queue[i] : i \in 1..Len(b.queue)}
Gone(b, k) == {b.queue[i] : i \in {j \in 1..Len(b.queue) : j <= k}}
SgPart(s, w, G) == [x \in 1..nodes |-> IF x \in Before(s, w) \cap G THEN Sg(s, x) ELSE 0]

Queued(s, b) ==
  /\ Len(b.queue) \in Nat \ {0} /\ b.queue \in [1..Len(b.queue) -> Ids] /\ b.queue[1] = s
  /\ \A i, j \in 1..Len(b.queue) : b.queue[i] = b.queue[j] => i = j
  /\ \A i \in 1..Len(b.queue) : Reach(s, b.queue[i])
  /\ \A i, j \in 1..Len(b.queue) : i <= j => D(s, b.queue[i]) <= D(s, b.queue[j])
Chained(s, b, k) ==
  /\ \A i \in 1..Len(b.queue) : i <= k => Adj(b.queue[i]) \subseteq In(b)
  /\ \A i \in 1..Len(b.queue) : i # 1 => \E j \in 1..Len(b.queue) : j <= k /\ b.queue[i] \in Adj(b.queue[j])
Measured(s, b, k) ==
  /\ \A u \in Ids : b.dist[u] = IF u \in In(b) THEN D(s, u) ELSE -1
  /\ \A w \in Ids : b.sigma[w] = (IF w = s THEN 1 ELSE 0) + SumTo(nodes, SgPart(s, w, Gone(b, k)))
  /\ \A w \in Ids : b.preds[w] = Before(s, w) \cap Gone(b, k)
Searched(s, b, k) == b \in Searches /\ Queued(s, b) /\ Chained(s, b, k) /\ Measured(s, b, k)

\* What is counted when every node before w is gone, and when none is.
LEMMA SgPartIs ==
  ASSUME MetricsTypeOK, NEW s \in Ids, NEW w \in Ids, NEW G
  PROVE  /\ Whole(SgPart(s, w, G), nodes) /\ SumTo(nodes, SgPart(s, w, G)) \in Int
         /\ Before(s, w) \subseteq G => SgPart(s, w, G) = SgBefore(s, w)
         /\ Before(s, w) \cap G = {} => SumTo(nodes, SgPart(s, w, G)) = 0
<1>1. nodes \in Nat /\ Ids = 1..nodes /\ \A x \in Ids : Sg(s, x) \in Int
  BY Ends, SgIs
<1>2. Whole(SgPart(s, w, G), nodes)
  BY <1>1 DEF Whole, SgPart
<1>3. SumTo(nodes, SgPart(s, w, G)) \in Int
  BY <1>1, <1>2, SumNext
<1>4. Before(s, w) \subseteq G => SgPart(s, w, G) = SgBefore(s, w)
  <2>. SUFFICES ASSUME Before(s, w) \subseteq G PROVE SgPart(s, w, G) = SgBefore(s, w)
    OBVIOUS
  <2>1. Before(s, w) \cap G = Before(s, w)
    OBVIOUS
  <2>. QED
    BY <2>1 DEF SgPart, SgBefore
<1>5. ASSUME Before(s, w) \cap G = {} PROVE SumTo(nodes, SgPart(s, w, G)) = 0
  <2>1. \A x \in 1..nodes : SgPart(s, w, G)[x] = 0
    BY <1>5 DEF SgPart
  <2>. QED
    BY <1>1, <2>1, SumZero
<1>. QED
  BY <1>2, <1>3, <1>4, <1>5

\* One more node gone.
LEMMA SgPartMore ==
  ASSUME MetricsTypeOK, NEW s \in Ids, NEW w \in Ids, NEW G, NEW v \in Ids, v \notin G
  PROVE  SumTo(nodes, SgPart(s, w, G \cup {v}))
           = SumTo(nodes, SgPart(s, w, G)) + (IF v \in Before(s, w) THEN Sg(s, v) ELSE 0)
<1>. DEFINE c == IF v \in Before(s, w) THEN Sg(s, v) ELSE 0
            one == [x \in 1..nodes |-> IF x = v THEN c ELSE 0]
            f == SgPart(s, w, G)
            e == SgPart(s, w, G \cup {v})
<1>1. nodes \in Nat /\ v \in 1..nodes /\ c \in Int
  BY Ends, SgIs
<1>2. Whole(f, nodes)
  BY SgPartIs
<1>3. \A x \in 1..nodes : e[x] = f[x] + one[x]
  <2>. SUFFICES ASSUME NEW x \in 1..nodes PROVE e[x] = f[x] + one[x]
    OBVIOUS
  <2>1. e[x] = IF x \in Before(s, w) \cap (G \cup {v}) THEN Sg(s, x) ELSE 0
    BY DEF SgPart
  <2>2. f[x] = IF x \in Before(s, w) \cap G THEN Sg(s, x) ELSE 0
    BY DEF SgPart
  <2>3. one[x] = IF x = v THEN c ELSE 0
    OBVIOUS
  <2>4. Sg(s, x) \in Int
    BY Ends, SgIs
  <2>. HIDE DEF e, f, one
  <2>5. CASE x = v
    BY <1>1, <2>1, <2>2, <2>3, <2>5
  <2>6. CASE x # v
    BY <2>1, <2>2, <2>3, <2>4, <2>6
  <2>. QED
    BY <2>5, <2>6
<1>4. Whole(one, nodes) /\ \A x \in 1..nodes : one[x] = IF x = v THEN c ELSE 0
  BY <1>1 DEF Whole
<1>. HIDE DEF c, one, e, f
<1>5. SumTo(nodes, one) = c
  BY <1>1, <1>4, SumSingle
<1>6. SumTo(nodes, e) = SumTo(nodes, f) + SumTo(nodes, one)
  BY <1>1, <1>2, <1>3, <1>4, SumAdd
<1>. QED
  BY <1>5, <1>6 DEF c, e, f

\* When a node is visited, the nearer ones have been, and those as near are found.
LEMMA Nearer ==
  ASSUME MetricsTypeOK, NEW s \in Ids, NEW b, NEW k \in Nat, Queued(s, b), Chained(s, b, k),
         k + 1 \in 1..Len(b.queue), NEW x \in Ids, Reach(s, x), D(s, x) <= D(s, b.queue[k + 1])
  PROVE  /\ x \in In(b)
         /\ D(s, x) < D(s, b.queue[k + 1]) => x \in Gone(b, k)
<1>. DEFINE q == b.queue
            n == Len(q)
            v == q[k + 1]
            Ok(y) == y \in In(b) /\ (D(s, y) < D(s, v) => y \in Gone(b, k))
            S == {d \in 0..nodes : \A y \in Ids : Reach(s, y) /\ D(s, y) = d /\ d <= D(s, v) => Ok(y)}
<1>1. /\ n \in Nat /\ 1 \in 1..n /\ q \in [1..n -> Ids] /\ q[1] = s
      /\ \A i \in 1..n : Reach(s, q[i])
      /\ \A i, j \in 1..n : i <= j => D(s, q[i]) <= D(s, q[j])
  BY DEF Queued
<1>2. /\ \A i \in 1..n : i <= k => Adj(q[i]) \subseteq In(b)
      /\ \A y \in In(b) : \E i \in 1..n : q[i] = y
      /\ \A i \in 1..n : q[i] \in In(b) /\ (i <= k => q[i] \in Gone(b, k))
      /\ \A y \in Gone(b, k) : \E i \in 1..n : i <= k /\ q[i] = y
  BY DEF Chained, In, Gone
<1>3. nodes \in Nat /\ \A y \in Ids : Reach(s, y) => D(s, y) \in 0..nodes
  BY Ends, LeastWalk
<1>4. k + 1 \in 1..n /\ D(s, v) \in 0..nodes
  BY <1>1, <1>3
<1>. HIDE DEF q, n, v
\* A found node nearer than the one visited is before it in the queue.
<1>5. \A y \in In(b) : D(s, y) < D(s, v) => y \in Gone(b, k)
  <2>. SUFFICES ASSUME NEW y \in In(b), D(s, y) < D(s, v) PROVE y \in Gone(b, k)
    OBVIOUS
  <2>1. PICK i \in 1..n : q[i] = y
    BY <1>2
  <2>2. D(s, y) \in 0..nodes
    BY <1>1, <1>3, <2>1
  <2>3. CASE k + 1 <= i
    <3>1. D(s, v) <= D(s, y)
      BY <1>1, <1>4, <2>1, <2>3 DEF v
    <3>. QED
      BY <1>4, <2>2, <3>1
  <2>4. CASE ~(k + 1 <= i)
    <3>1. i <= k
      BY <1>1, <2>4
    <3>. QED
      BY <1>2, <2>1, <3>1
  <2>. QED
    BY <2>3, <2>4
<1>6. 0 \in S
  <2>1. \A y \in Ids : Reach(s, y) /\ D(s, y) = 0 => y = s
    BY ReachSelf
  <2>2. s \in In(b)
    BY <1>1, <1>2
  <2>. QED
    BY <1>3, <1>5, <2>1, <2>2
<1>7. ASSUME NEW d \in 0..(nodes - 1), d \in S PROVE d + 1 \in S
  <2>1. ASSUME NEW y \in Ids, Reach(s, y), D(s, y) = d + 1, d + 1 <= D(s, v) PROVE Ok(y)
    <3>1. D(s, y) # 0 /\ D(s, y) - 1 = d /\ d < D(s, v) /\ d <= D(s, v)
      BY <1>3, <1>4, <2>1
    <3>2. PICK z \in Adj(y) : Reach(s, z) /\ D(s, z) = d
      BY <2>1, <3>1, NodeBefore
    <3>3. z \in Ids /\ y \in Adj(z)
      BY <2>1, <3>2, Neighbours
    <3>4. z \in Gone(b, k)
      BY <1>7, <3>1, <3>2, <3>3
    <3>5. PICK i \in 1..n : i <= k /\ q[i] = z
      BY <1>2, <3>4
    <3>6. y \in In(b)
      BY <1>2, <3>3, <3>5
    <3>. QED
      BY <1>5, <3>6
  <2>2. d + 1 \in 0..nodes
    BY <1>3
  <2>. HIDE DEF Ok
  <2>. QED
    BY <2>1, <2>2
<1>8. \A d \in 0..(nodes - 1) : d \in S => d + 1 \in S
  BY <1>7
<1>. HIDE DEF S
<1>9. \A d \in 0..nodes : d \in S
  BY <1>3, <1>6, <1>8, CountUp
<1>10. D(s, x) \in S
  BY <1>3, <1>9
<1>11. D(s, x) <= D(s, v)
  BY DEF q, v
<1>12. Ok(x)
  <2>. HIDE DEF Ok
  <2>. QED
    BY <1>10, <1>11 DEF S
<1>. QED
  BY <1>12 DEF q, v

Found(b, v) == {w \in Adj(v) : b.dist[w] < 0}
Below(b, v) == Found(b, v) \cup {w \in Adj(v) : b.dist[w] = b.dist[v] + 1}

\* What the loop has at hand when it takes the next node of the queue.
LEMMA VisitKnows ==
  ASSUME MetricsTypeOK, NEW s \in Ids, NEW b, NEW k \in Nat, Searched(s, b, k), k + 1 \in 1..Len(b.queue)
  PROVE  LET v == b.queue[k + 1]
         IN  /\ v \in Ids /\ Reach(s, v) /\ v \in In(b) /\ v \notin Gone(b, k)
             /\ Found(b, v) = Adj(v) \ In(b) /\ Found(b, v) \in SUBSET Ids /\ IsFiniteSet(Found(b, v))
             /\ \A w \in Found(b, v) : Reach(s, w) /\ D(s, w) = D(s, v) + 1
             /\ \A w \in Ids : w \in Below(b, v) <=> v \in Before(s, w)
             /\ b.dist[v] = D(s, v) /\ b.sigma[v] = Sg(s, v)
<1>. DEFINE q == b.queue
            n == Len(q)
            v == q[k + 1]
<1>1. /\ n \in Nat /\ 1 \in 1..n /\ q \in [1..n -> Ids] /\ q[1] = s
      /\ \A i \in 1..n : Reach(s, q[i])
      /\ \A i, j \in 1..n : q[i] = q[j] => i = j
      /\ Queued(s, b) /\ Chained(s, b, k)
  <2>1. Queued(s, b) /\ Chained(s, b, k)
    BY DEF Searched
  <2>. QED
    BY <2>1 DEF Queued
<1>2. /\ \A u \in Ids : b.dist[u] = IF u \in In(b) THEN D(s, u) ELSE -1
      /\ \A w \in Ids : b.sigma[w] = (IF w = s THEN 1 ELSE 0) + SumTo(nodes, SgPart(s, w, Gone(b, k)))
  BY DEF Searched, Measured
<1>3. /\ \A y \in In(b) : \E i \in 1..n : q[i] = y
      /\ \A i \in 1..n : q[i] \in In(b)
      /\ \A y \in Gone(b, k) : \E i \in 1..n : i <= k /\ q[i] = y
  BY DEF In, Gone
<1>4. k + 1 \in 1..n
  OBVIOUS
<1>. HIDE DEF q, n
<1>5. v \in Ids /\ Reach(s, v) /\ v \in In(b)
  BY <1>1, <1>3, <1>4
<1>6. v \notin Gone(b, k)
  <2>. SUFFICES ASSUME v \in Gone(b, k) PROVE FALSE
    OBVIOUS
  <2>1. PICK i \in 1..n : i <= k /\ q[i] = v
    BY <1>3
  <2>2. i = k + 1
    BY <1>1, <1>4, <2>1
  <2>. QED
    BY <2>1, <2>2
<1>7. nodes \in Nat /\ \A y \in Ids : Reach(s, y) => D(s, y) \in 0..nodes
  BY Ends, LeastWalk
<1>8. \A x \in In(b) : x \in Ids /\ Reach(s, x)
  BY <1>1, <1>3
<1>9. \A x \in Ids : Reach(s, x) /\ D(s, x) <= D(s, v) =>
        x \in In(b) /\ (D(s, x) < D(s, v) => x \in Gone(b, k))
  BY <1>1, <1>4, Nearer DEF q, n
<1>. HIDE DEF v
<1>10. Adj(v) \subseteq Ids /\ IsFiniteSet(Adj(v))
  BY <1>5, Neighbours
<1>11. Found(b, v) = Adj(v) \ In(b)
  <2>1. \A w \in Ids : b.dist[w] < 0 <=> w \notin In(b)
    <3>. SUFFICES ASSUME NEW w \in Ids PROVE b.dist[w] < 0 <=> w \notin In(b)
      OBVIOUS
    <3>1. b.dist[w] = IF w \in In(b) THEN D(s, w) ELSE -1
      BY <1>2
    <3>2. w \in In(b) => D(s, w) \in 0..nodes
      BY <1>7, <1>8
    <3>. QED
      BY <1>7, <3>1, <3>2
  <2>. QED
    BY <1>10, <2>1 DEF Found
<1>12. Found(b, v) \in SUBSET Ids /\ IsFiniteSet(Found(b, v))
  BY <1>10, <1>11, FS_Subset
<1>13. ASSUME NEW w \in Adj(v) PROVE w \in Ids /\ Reach(s, w) /\ D(s, w) <= D(s, v) + 1 /\ D(s, w) \in 0..nodes
  BY <1>5, <1>7, <1>13, ReachOn
<1>14. ASSUME NEW w \in Found(b, v) PROVE Reach(s, w) /\ D(s, w) = D(s, v) + 1
  <2>1. w \in Adj(v) /\ w \notin In(b)
    BY <1>11
  <2>2. w \in Ids /\ Reach(s, w) /\ D(s, w) <= D(s, v) + 1 /\ D(s, w) \in 0..nodes
    BY <1>13, <2>1
  <2>3. ~(D(s, w) <= D(s, v))
    BY <1>9, <2>1, <2>2
  <2>4. D(s, v) \in 0..nodes
    BY <1>5, <1>7
  <2>. QED
    BY <1>7, <2>2, <2>3, <2>4
<1>15. b.dist[v] = D(s, v)
  BY <1>2, <1>5
<1>16. \A w \in Ids : w \in Below(b, v) <=> v \in Before(s, w)
  <2>. SUFFICES ASSUME NEW w \in Ids PROVE w \in Below(b, v) <=> v \in Before(s, w)
    OBVIOUS
  <2>1. w \in Adj(v) <=> v \in Adj(w)
    BY <1>5, Neighbours
  <2>2. v \in Before(s, w) <=> w \in Adj(v) /\ D(s, w) = D(s, v) + 1
    BY <1>5, <2>1 DEF Before
  <2>3. w \in Below(b, v) <=> w \in Adj(v) /\ (w \in Found(b, v) \/ b.dist[w] = D(s, v) + 1)
    BY <1>15 DEF Below, Found
  <2>4. b.dist[w] = D(s, v) + 1 <=> w \in In(b) /\ D(s, w) = D(s, v) + 1
    <3>1. b.dist[w] = IF w \in In(b) THEN D(s, w) ELSE -1
      BY <1>2
    <3>2. D(s, v) \in 0..nodes
      BY <1>5, <1>7
    <3>. QED
      BY <1>7, <3>1, <3>2
  <2>. QED
    BY <1>11, <1>14, <2>2, <2>3, <2>4
<1>17. b.sigma[v] = Sg(s, v)
  <2>. DEFINE G == Gone(b, k)
  <2>1. b.sigma[v] = (IF v = s THEN 1 ELSE 0) + SumTo(nodes, SgPart(s, v, G))
    BY <1>2, <1>5
  <2>2. CASE v = s
    <3>1. Before(s, v) = {}
      <4>1. \A x \in Before(s, v) : D(s, v) = D(s, x) + 1 /\ D(s, x) \in 0..(nodes - 1)
        BY <1>5, Preceding
      <4>2. D(s, v) = 0
        BY <1>5, <2>2, ReachSelf
      <4>. QED
        BY <1>7, <4>1, <4>2
    <3>2. SumTo(nodes, SgPart(s, v, G)) = 0
      BY <1>5, <3>1, SgPartIs
    <3>3. Sg(s, v) = 1
      BY <2>2, SgIs
    <3>. QED
      BY <2>1, <2>2, <3>2, <3>3
  <2>3. CASE v # s
    <3>1. Before(s, v) \subseteq G
      <4>. SUFFICES ASSUME NEW x \in Before(s, v) PROVE x \in G
        OBVIOUS
      <4>1. x \in Ids /\ Reach(s, x) /\ D(s, v) = D(s, x) + 1 /\ D(s, x) \in 0..(nodes - 1)
        BY <1>5, Preceding
      <4>2. D(s, x) < D(s, v) /\ D(s, x) <= D(s, v)
        BY <1>7, <4>1
      <4>. QED
        BY <1>9, <4>1, <4>2
    <3>2. SgPart(s, v, G) = SgBefore(s, v)
      BY <1>5, <3>1, SgPartIs
    <3>3. Sg(s, v) = SumTo(nodes, SgBefore(s, v))
      BY <1>5, <2>3, SgSum
    <3>4. Sg(s, v) \in Int
      BY <1>5, SgIs
    <3>. QED
      BY <2>1, <2>3, <3>2, <3>3, <3>4
  <2>. QED
    BY <2>2, <2>3
<1>. QED
  BY <1>5, <1>6, <1>11, <1>12, <1>14, <1>15, <1>16, <1>17 DEF v, q

\* A turn of the search keeps what it has found.
LEMMA VisitOn ==
  ASSUME MetricsTypeOK, NEW s \in Ids, NEW b, NEW k \in 0..(nodes - 1), Searched(s, b, k)
  PROVE  Searched(s, Visit(b, k + 1), k + 1)
<1>. DEFINE q == b.queue
            n == Len(q)
            v == q[k + 1]
            c == Visit(b, k + 1)
<1>0. k \in Nat /\ k + 1 \in 1..nodes /\ nodes \in Nat
  BY Ends
<1>1. b \in Searches /\ Queued(s, b) /\ Chained(s, b, k) /\ Measured(s, b, k)
  BY DEF Searched
<1>2. c \in Searches
  BY <1>0, <1>1, VisitTyped
<1>3. /\ n \in Nat /\ n # 0 /\ q \in [1..n -> Ids] /\ q[1] = s
      /\ \A i, j \in 1..n : q[i] = q[j] => i = j
      /\ \A i \in 1..n : Reach(s, q[i])
      /\ \A i, j \in 1..n : i <= j => D(s, q[i]) <= D(s, q[j])
  BY <1>1 DEF Queued
<1>4. CASE k + 1 > n
  <2>1. c = b
    BY <1>4 DEF Visit
  <2>2. Gone(b, k + 1) = Gone(b, k)
    <3>1. {j \in 1..n : j <= k + 1} = {j \in 1..n : j <= k}
      BY <1>0, <1>3, <1>4
    <3>. QED
      BY <3>1 DEF Gone
  <2>3. Measured(s, b, k + 1)
    BY <1>1, <2>2 DEF Measured
  <2>4. Chained(s, b, k + 1)
    <3>1. \A i \in 1..n : i <= k
      BY <1>0, <1>3, <1>4
    <3>2. \A j \in 1..n : j <= k => j <= k + 1
      BY <1>0
    <3>. QED
      BY <1>1, <3>1, <3>2 DEF Chained
  <2>. QED
    BY <1>1, <2>1, <2>3, <2>4 DEF Searched
<1>5. CASE ~(k + 1 > n)
  <2>1. k + 1 \in 1..n
    BY <1>0, <1>3, <1>5
  <2>. DEFINE F == Found(b, v)
              r == q \o SetToSeq(F)
              m == Len(r)
  <2>2. /\ v \in Ids /\ Reach(s, v) /\ v \in In(b) /\ v \notin Gone(b, k)
        /\ F = Adj(v) \ In(b) /\ F \in SUBSET Ids /\ IsFiniteSet(F)
        /\ \A w \in F : Reach(s, w) /\ D(s, w) = D(s, v) + 1
        /\ \A w \in Ids : w \in Below(b, v) <=> v \in Before(s, w)
        /\ b.dist[v] = D(s, v) /\ b.sigma[v] = Sg(s, v)
    BY <1>0, <2>1, VisitKnows
  <2>3. /\ c.queue = r
        /\ c.dist = [u \in Ids |-> IF u \in F THEN b.dist[v] + 1 ELSE b.dist[u]]
        /\ c.sigma = [u \in Ids |-> IF u \in Below(b, v) THEN b.sigma[u] + b.sigma[v] ELSE b.sigma[u]]
        /\ c.preds = [u \in Ids |-> IF u \in Below(b, v) THEN b.preds[u] \cup {v} ELSE b.preds[u]]
    <3>1. c = [queue |-> r,
               dist |-> [u \in Ids |-> IF u \in F THEN b.dist[v] + 1 ELSE b.dist[u]],
               sigma |-> [u \in Ids |-> IF u \in Below(b, v) THEN b.sigma[u] + b.sigma[v] ELSE b.sigma[u]],
               preds |-> [u \in Ids |-> IF u \in Below(b, v) THEN b.preds[u] \cup {v} ELSE b.preds[u]]]
      BY <1>5 DEF Visit, Found, Below
    <3>. HIDE DEF c, F, r
    <3>. QED
      BY <3>1
  <2>4. q \in Seq(Ids)
    BY <1>1 DEF Searches
  <2>. HIDE DEF F
  <2>5. /\ r \in Seq(Ids) /\ m \in Nat /\ n <= m
        /\ \A i \in 1..n : i \in 1..m /\ r[i] = q[i]
        /\ \A i \in 1..m : i \notin 1..n => r[i] \in F
        /\ \A x \in F : \E i \in 1..m : i \notin 1..n /\ r[i] = x
        /\ \A i, j \in 1..m : i \notin 1..n /\ j \notin 1..n /\ r[i] = r[j] => i = j
    <3>1. F \in SUBSET Ids /\ IsFiniteSet(F)
      BY <2>2
    <3>. HIDE DEF q
    <3>. QED
      BY <2>4, <3>1, QueueMore
  <2>6. r \in [1..m -> Ids]
    BY <2>5, LenProperties
  <2>7. In(b) = {q[i] : i \in 1..n} /\ In(c) = {r[i] : i \in 1..m}
        /\ Gone(b, k) = {q[i] : i \in {j \in 1..n : j <= k}}
        /\ Gone(c, k + 1) = {r[i] : i \in {j \in 1..m : j <= k + 1}}
    BY <2>3 DEF In, Gone
  <2>. HIDE DEF v, r, m, q, n, c
  <2>8. In(c) = In(b) \cup F
    <3>1. \A x \in In(c) : x \in In(b) \cup F
      <4>. SUFFICES ASSUME NEW i \in 1..m PROVE r[i] \in In(b) \cup F
        BY <2>7
      <4>. QED
        BY <2>5, <2>7
    <3>2. \A x \in In(b) : x \in In(c)
      BY <2>5, <2>7
    <3>3. \A x \in F : x \in In(c)
      BY <2>5, <2>7
    <3>. QED
      BY <3>1, <3>2, <3>3
  <2>9. Gone(c, k + 1) = Gone(b, k) \cup {v}
    <3>1. \A j \in 1..m : j <= k + 1 <=> (j = k + 1 \/ (j \in 1..n /\ j <= k))
      BY <1>0, <1>3, <2>1, <2>5
    <3>2. r[k + 1] = v /\ k + 1 \in 1..m /\ \A j \in 1..n : j \in 1..m /\ r[j] = q[j]
      BY <2>1, <2>5 DEF v
    <3>. QED
      BY <2>7, <3>1, <3>2
  <2>10. Queued(s, c)
    <3>1. m \in Nat \ {0} /\ r[1] = s /\ 1 \in 1..n
      BY <1>3, <2>5
    <3>2. \A i, j \in 1..m : r[i] = r[j] => i = j
      <4>. SUFFICES ASSUME NEW i \in 1..m, NEW j \in 1..m, r[i] = r[j] PROVE i = j
        OBVIOUS
      <4>1. \A l \in 1..n : r[l] \notin F
        BY <2>2, <2>5, <2>7
      <4>2. CASE i \in 1..n /\ j \in 1..n
        BY <1>3, <2>5, <4>2
      <4>3. CASE i \notin 1..n /\ j \notin 1..n
        BY <2>5, <4>3
      <4>4. CASE ~(i \in 1..n <=> j \in 1..n)
        BY <2>5, <4>1, <4>4
      <4>. QED
        BY <4>2, <4>3, <4>4
    <3>3. \A i \in 1..m : Reach(s, r[i])
      BY <1>3, <2>2, <2>5
    <3>4. \A i, j \in 1..m : i <= j => D(s, r[i]) <= D(s, r[j])
      <4>. SUFFICES ASSUME NEW i \in 1..m, NEW j \in 1..m, i <= j PROVE D(s, r[i]) <= D(s, r[j])
        OBVIOUS
      <4>0. \A x \in Ids : Reach(s, x) => D(s, x) \in 0..nodes
        BY LeastWalk
      <4>1. CASE i \in 1..n /\ j \in 1..n
        BY <1>3, <2>5, <4>1
      <4>2. CASE i \notin 1..n /\ j \notin 1..n
        <5>1. D(s, r[i]) = D(s, v) + 1 /\ D(s, r[j]) = D(s, v) + 1
          BY <2>2, <2>5, <4>2
        <5>2. D(s, v) \in 0..nodes
          BY <2>2, <4>0
        <5>. QED
          BY <1>0, <5>1, <5>2
      <4>3. CASE i \in 1..n /\ j \notin 1..n
        <5>1. D(s, r[j]) = D(s, v) + 1
          BY <2>2, <2>5, <4>3
        <5>2. r[i] = q[i] /\ q[i] \in Ids /\ Reach(s, q[i])
          BY <1>3, <2>5, <4>3
        <5>3. D(s, v) \in 0..nodes /\ D(s, q[i]) \in 0..nodes
          BY <2>2, <4>0, <5>2
        <5>4. CASE i = 1
          <6>1. D(s, q[i]) = 0
            BY <1>3, <5>4, ReachSelf
          <6>. QED
            BY <1>0, <5>1, <5>2, <5>3, <6>1
        <5>5. CASE i # 1
          <6>1. PICK l \in 1..n : l <= k /\ q[i] \in Adj(q[l])
            BY <1>1, <4>3, <5>5 DEF Chained, q, n
          <6>2. q[l] \in Ids /\ Reach(s, q[l])
            BY <1>3
          <6>3. D(s, q[i]) <= D(s, q[l]) + 1
            BY <6>1, <6>2, ReachOn
          <6>4. D(s, q[l]) <= D(s, v)
            <7>1. l <= k + 1
              BY <1>0, <6>1
            <7>. QED
              BY <1>3, <2>1, <7>1 DEF v
          <6>5. D(s, q[l]) \in 0..nodes
            BY <4>0, <6>2
          <6>. QED
            BY <1>0, <5>1, <5>2, <5>3, <6>3, <6>4, <6>5
        <5>. QED
          BY <5>4, <5>5
      <4>4. CASE i \notin 1..n /\ j \in 1..n
        BY <1>3, <2>5, <4>4
      <4>. QED
        BY <4>1, <4>2, <4>3, <4>4
    <3>. QED
      BY <2>3, <2>6, <3>1, <3>2, <3>3, <3>4 DEF Queued, m
  <2>11. Chained(s, c, k + 1)
    <3>1. \A i \in 1..m : i <= k + 1 => Adj(r[i]) \subseteq In(c)
      <4>. SUFFICES ASSUME NEW i \in 1..m, i <= k + 1 PROVE Adj(r[i]) \subseteq In(c)
        OBVIOUS
      <4>1. i \in 1..n /\ r[i] = q[i]
        BY <1>3, <2>1, <2>5
      <4>2. CASE i = k + 1
        <5>1. r[i] = v
          BY <4>1, <4>2 DEF v
        <5>. QED
          BY <2>2, <2>8, <5>1
      <4>3. CASE i # k + 1
        <5>1. i <= k
          BY <1>0, <4>1, <4>3
        <5>2. Adj(q[i]) \subseteq In(b)
          BY <1>1, <4>1, <5>1 DEF Chained, q, n
        <5>. QED
          BY <2>8, <4>1, <5>2
      <4>. QED
        BY <4>2, <4>3
    <3>2. \A i \in 1..m : i # 1 => \E j \in 1..m : j <= k + 1 /\ r[i] \in Adj(r[j])
      <4>. SUFFICES ASSUME NEW i \in 1..m, i # 1 PROVE \E j \in 1..m : j <= k + 1 /\ r[i] \in Adj(r[j])
        OBVIOUS
      <4>1. CASE i \in 1..n
        <5>1. PICK j \in 1..n : j <= k /\ q[i] \in Adj(q[j])
          BY <1>1, <4>1 DEF Chained, q, n
        <5>2. j \in 1..m /\ j <= k + 1 /\ r[j] = q[j] /\ r[i] = q[i]
          BY <1>0, <2>5, <4>1, <5>1
        <5>. QED
          BY <5>1, <5>2
      <4>2. CASE i \notin 1..n
        <5>1. r[i] \in Adj(v)
          BY <2>2, <2>5, <4>2
        <5>2. r[k + 1] = v /\ k + 1 \in 1..m /\ k + 1 <= k + 1
          BY <1>0, <2>1, <2>5 DEF v
        <5>. QED
          BY <5>1, <5>2
      <4>. QED
        BY <4>1, <4>2
    <3>. QED
      BY <2>3, <3>1, <3>2 DEF Chained, m
  <2>12. Measured(s, c, k + 1)
    <3>0. /\ \A u \in Ids : b.dist[u] = IF u \in In(b) THEN D(s, u) ELSE -1
          /\ \A w \in Ids : b.sigma[w] = (IF w = s THEN 1 ELSE 0) + SumTo(nodes, SgPart(s, w, Gone(b, k)))
          /\ \A w \in Ids : b.preds[w] = Before(s, w) \cap Gone(b, k)
      BY <1>1 DEF Measured
    <3>1. \A u \in Ids : c.dist[u] = IF u \in In(c) THEN D(s, u) ELSE -1
      <4>. SUFFICES ASSUME NEW u \in Ids PROVE c.dist[u] = IF u \in In(c) THEN D(s, u) ELSE -1
        OBVIOUS
      <4>1. c.dist[u] = IF u \in F THEN D(s, v) + 1 ELSE b.dist[u]
        BY <2>2, <2>3
      <4>2. u \in F => D(s, u) = D(s, v) + 1
        BY <2>2
      <4>. QED
        BY <2>8, <3>0, <4>1, <4>2
    <3>2. \A w \in Ids : c.sigma[w] = (IF w = s THEN 1 ELSE 0) + SumTo(nodes, SgPart(s, w, Gone(c, k + 1)))
      <4>. SUFFICES ASSUME NEW w \in Ids
                    PROVE  c.sigma[w] = (IF w = s THEN 1 ELSE 0) + SumTo(nodes, SgPart(s, w, Gone(c, k + 1)))
        OBVIOUS
      <4>. DEFINE one == IF w = s THEN 1 ELSE 0
                  x == SumTo(nodes, SgPart(s, w, Gone(b, k)))
                  y == SumTo(nodes, SgPart(s, w, Gone(c, k + 1)))
                  z == IF v \in Before(s, w) THEN Sg(s, v) ELSE 0
      <4>1. y = x + z
        <5>1. SumTo(nodes, SgPart(s, w, Gone(b, k) \cup {v})) = x + z
          BY <2>2, SgPartMore
        <5>. QED
          BY <2>9, <5>1
      <4>2. c.sigma[w] = IF v \in Before(s, w) THEN b.sigma[w] + Sg(s, v) ELSE b.sigma[w]
        BY <2>2, <2>3
      <4>3. b.sigma[w] = one + x
        BY <3>0
      <4>4. x \in Int /\ one \in Int /\ Sg(s, v) \in Int
        BY <2>2, SgPartIs, SgIs
      <4>5. c.sigma[w] = one + (x + z)
        <5>. HIDE DEF one, x
        <5>. QED
          BY <4>2, <4>3, <4>4
      <4>. QED
        BY <4>1, <4>5
    <3>3. \A w \in Ids : c.preds[w] = Before(s, w) \cap Gone(c, k + 1)
      <4>. SUFFICES ASSUME NEW w \in Ids PROVE c.preds[w] = Before(s, w) \cap Gone(c, k + 1)
        OBVIOUS
      <4>1. c.preds[w] = IF v \in Before(s, w) THEN b.preds[w] \cup {v} ELSE b.preds[w]
        BY <2>2, <2>3
      <4>. QED
        BY <2>9, <3>0, <4>1
    <3>. QED
      BY <3>1, <3>2, <3>3 DEF Measured
  <2>. QED
    BY <1>2, <2>10, <2>11, <2>12 DEF Searched, c
<1>. QED
  BY <1>4, <1>5

\* And so has its beginning.
LEMMA BegunKnows ==
  ASSUME MetricsTypeOK, NEW s \in Ids, Begun(s) \in Searches
  PROVE  Searched(s, Begun(s), 0)
<1>. DEFINE b == Begun(s)
<1>1. /\ b.queue = <<s>> /\ b.dist = [u \in Ids |-> IF u = s THEN 0 ELSE -1]
      /\ b.sigma = [u \in Ids |-> IF u = s THEN 1 ELSE 0] /\ b.preds = [u \in Ids |-> {}]
  BY DEF Begun
<1>2. Len(b.queue) = 1 /\ b.queue[1] = s /\ \A i \in 1..1 : i = 1
  BY <1>1
<1>. HIDE DEF b
<1>3. Reach(s, s) /\ D(s, s) = 0
  BY ReachSelf
<1>4. In(b) = {s}
  BY <1>2 DEF In
<1>5. Gone(b, 0) = {}
  BY <1>2 DEF Gone
<1>6. Queued(s, b)
  <2>1. b.queue \in [1..1 -> Ids]
    BY <1>1
  <2>2. \A i, j \in 1..1 : D(s, b.queue[i]) <= D(s, b.queue[j])
    BY <1>2, <1>3
  <2>. QED
    BY <1>2, <1>3, <2>1, <2>2 DEF Queued
<1>7. Chained(s, b, 0)
  BY <1>2 DEF Chained
<1>8. Measured(s, b, 0)
  <2>1. \A u \in Ids : b.dist[u] = IF u \in In(b) THEN D(s, u) ELSE -1
    BY <1>1, <1>3, <1>4
  <2>2. \A w \in Ids : b.sigma[w] = (IF w = s THEN 1 ELSE 0) + SumTo(nodes, SgPart(s, w, Gone(b, 0)))
    <3>. SUFFICES ASSUME NEW w \in Ids
                  PROVE  b.sigma[w] = (IF w = s THEN 1 ELSE 0) + SumTo(nodes, SgPart(s, w, Gone(b, 0)))
      OBVIOUS
    <3>1. SumTo(nodes, SgPart(s, w, Gone(b, 0))) = 0
      BY <1>5, SgPartIs
    <3>2. b.sigma[w] = IF w = s THEN 1 ELSE 0
      BY <1>1
    <3>. QED
      BY <3>1, <3>2
  <2>3. \A w \in Ids : b.preds[w] = Before(s, w) \cap Gone(b, 0)
    BY <1>1, <1>5
  <2>. QED
    BY <2>1, <2>2, <2>3 DEF Measured
<1>. QED
  BY <1>6, <1>7, <1>8 DEF Searched, b

\* A search finds the nodes of the class of its start in the order of their distances,
\* and counts the shortest walks to each.
LEMMA SearchFound ==
  ASSUME MetricsTypeOK, NEW s \in Ids
  PROVE  LET b == Search(s)
         IN  /\ Queued(s, b) /\ \A v \in Ids : v \in In(b) <=> Reach(s, v)
             /\ \A w \in Ids : b.sigma[w] = Sg(s, w) /\ b.preds[w] = Before(s, w)
<1>. DEFINE b == Search(s)
            n == Len(b.queue)
<1>0. nodes \in Nat /\ Ids = 1..nodes /\ IsFiniteSet(Ids) /\ Cardinality(Ids) = nodes
  BY Ends
<1>1. Searched(s, b, nodes)
  <2>1. PICK h : /\ Search(s) = h[nodes] /\ h[0] = Begun(s)
                 /\ \A k \in 1..nodes : h[k] = Visit(h[k - 1], k)
                 /\ \A k \in 0..nodes : h[k] \in Searches
    BY SearchRuns
  <2>. DEFINE S == {k \in 0..nodes : Searched(s, h[k], k)}
  <2>2. 0 \in S
    <3>1. Begun(s) \in Searches
      BY <1>0, <2>1
    <3>. QED
      BY <1>0, <2>1, <3>1, BegunKnows
  <2>3. ASSUME NEW k \in 0..(nodes - 1), k \in S PROVE k + 1 \in S
    <3>1. k + 1 \in 1..nodes /\ k + 1 \in 0..nodes /\ k + 1 - 1 = k
      BY <1>0
    <3>2. h[k + 1] = Visit(h[k], k + 1)
      BY <2>1, <3>1
    <3>3. Searched(s, Visit(h[k], k + 1), k + 1)
      BY <2>3, VisitOn
    <3>. QED
      BY <3>1, <3>2, <3>3
  <2>4. \A k \in 0..(nodes - 1) : k \in S => k + 1 \in S
    BY <2>3
  <2>. HIDE DEF S
  <2>5. \A k \in 0..nodes : k \in S
    BY <1>0, <2>2, <2>4, CountUp
  <2>6. nodes \in S
    BY <1>0, <2>5
  <2>. QED
    BY <2>1, <2>6 DEF S
<1>2. Queued(s, b) /\ Chained(s, b, nodes) /\ Measured(s, b, nodes)
  BY <1>1 DEF Searched
<1>. HIDE DEF b
<1>3. /\ n \in Nat /\ 1 \in 1..n /\ b.queue \in [1..n -> Ids] /\ b.queue[1] = s
      /\ \A i, j \in 1..n : b.queue[i] = b.queue[j] => i = j
      /\ \A i \in 1..n : Reach(s, b.queue[i])
  BY <1>2 DEF Queued
<1>4. n <= nodes
  <2>. HIDE DEF n
  <2>1. b.queue \in Injection(1..n, Ids)
    BY <1>3, Fun_IsInj
  <2>2. Cardinality(1..n) <= Cardinality(Ids)
    BY <1>0, <2>1, FS_Injection
  <2>3. Cardinality(1..n) = n
    BY <1>3, Counted
  <2>. QED
    BY <1>0, <2>2, <2>3
<1>5. Gone(b, nodes) = In(b)
  <2>1. {j \in 1..n : j <= nodes} = 1..n
    BY <1>0, <1>3, <1>4
  <2>. QED
    BY <2>1 DEF Gone, In
<1>6. Closed(In(b))
  <2>1. \A i \in 1..n : Adj(b.queue[i]) \subseteq In(b)
    BY <1>0, <1>2, <1>3, <1>4 DEF Chained
  <2>2. \A v \in In(b) : \E i \in 1..n : b.queue[i] = v
    BY DEF In
  <2>. HIDE DEF n
  <2>3. \A v \in In(b) : v \in Ids /\ Adj(v) \subseteq In(b)
    BY <1>3, <2>1, <2>2
  <2>. QED
    BY <2>3 DEF Closed
<1>7. s \in In(b) /\ \A v \in In(b) : v \in Ids /\ Reach(s, v)
  BY <1>3 DEF In
<1>8. ASSUME NEW v \in Ids, Reach(s, v) PROVE v \in In(b)
  <2>1. Reach(v, s)
    BY <1>8, ReachBack
  <2>. QED
    BY <1>6, <1>7, <2>1, Outside
<1>9. ASSUME NEW w \in Ids PROVE b.sigma[w] = Sg(s, w) /\ b.preds[w] = Before(s, w)
  <2>1. Before(s, w) \subseteq In(b)
    <3>1. \A x \in Before(s, w) : x \in Ids /\ Reach(s, x)
      BY Preceding
    <3>. QED
      BY <1>8, <3>1
  <2>2. b.preds[w] = Before(s, w)
    BY <1>2, <1>5, <2>1 DEF Measured
  <2>3. b.sigma[w] = (IF w = s THEN 1 ELSE 0) + SumTo(nodes, SgBefore(s, w))
    <3>1. SgPart(s, w, In(b)) = SgBefore(s, w)
      BY <2>1, SgPartIs
    <3>. QED
      BY <1>2, <1>5, <3>1 DEF Measured
  <2>4. SumTo(nodes, SgBefore(s, w)) \in Int /\ (Before(s, w) = {} => SumTo(nodes, SgBefore(s, w)) = 0)
    <3>1. SgPart(s, w, In(b)) = SgBefore(s, w)
      BY <2>1, SgPartIs
    <3>2. SumTo(nodes, SgPart(s, w, In(b))) \in Int
      BY SgPartIs
    <3>3. Before(s, w) \cap In(b) = {} => SumTo(nodes, SgPart(s, w, In(b))) = 0
      BY SgPartIs
    <3>. QED
      BY <3>1, <3>2, <3>3
  <2>5. CASE w = s
    <3>1. Before(s, w) = {}
      <4>1. \A x \in Before(s, w) : D(s, w) = D(s, x) + 1 /\ D(s, x) \in 0..(nodes - 1)
        BY Preceding
      <4>2. D(s, w) = 0
        BY <2>5, ReachSelf
      <4>. QED
        BY <1>0, <4>1, <4>2
    <3>2. Sg(s, w) = 1
      BY <2>5, SgIs
    <3>. QED
      BY <2>2, <2>3, <2>4, <2>5, <3>1, <3>2
  <2>6. CASE w # s /\ Reach(s, w)
    <3>1. Sg(s, w) = SumTo(nodes, SgBefore(s, w))
      BY <2>6, SgSum
    <3>. QED
      BY <2>2, <2>3, <2>4, <2>6, <3>1
  <2>7. CASE w # s /\ ~Reach(s, w)
    <3>1. Before(s, w) = {}
      BY <2>7, Preceding
    <3>2. Sg(s, w) = 0
      BY <2>7, SgIs
    <3>. QED
      BY <2>2, <2>3, <2>4, <2>7, <3>1, <3>2
  <2>. QED
    BY <2>5, <2>6, <2>7
<1>. QED
  BY <1>2, <1>7, <1>8, <1>9 DEF b

-----------------------------------------------------------------------------
(***************************************************************************)
(* The dependencies: what the stack passes on.                             *)
(***************************************************************************)
\* Whole number of units a shortest walk to t is worth.
Worth(s, t) == PathUnit(AllWalks) \div Sg(s, t)

\* Every number of shortest walks divides the unit.
LEMMA UnitDivides ==
  ASSUME MetricsTypeOK
  PROVE  /\ PathUnit(AllWalks) \in Pos
         /\ \A s, t \in Ids : Reach(s, t) =>
              Worth(s, t) \in Pos /\ PathUnit(AllWalks) = Sg(s, t) * Worth(s, t)
<1>. DEFINE f(u) == [v \in Ids |-> IF v \in Class(AllWalks, u) THEN Shortest(AllWalks, u, v) ELSE 1]
            g == [u \in Ids |-> ProductTo(nodes, f(u))]
            P == PathUnit(AllWalks)
<1>1. nodes \in Nat /\ Ids = 1..nodes
  BY Ends
<1>2. P = ProductTo(nodes, g)
  BY DEF PathUnit
<1>3. ASSUME NEW u \in Ids PROVE Positive(f(u), nodes)
  <2>1. \A v \in Ids : f(u)[v] = IF Reach(u, v) THEN Sg(u, v) ELSE 1
    BY DEF Reach, Sg
  <2>2. \A v \in Ids : Reach(u, v) => Sg(u, v) \in Pos
    BY SgIs
  <2>3. 1 \in Pos
    BY DEF Pos
  <2>. HIDE DEF f
  <2>. QED
    BY <1>1, <2>1, <2>2, <2>3 DEF Positive
<1>4. Positive(g, nodes)
  <2>1. \A u \in Ids : ProductTo(nodes, f(u)) \in Pos
    <3>. HIDE DEF f
    <3>. QED
      BY <1>1, <1>3, ProductNext
  <2>. QED
    BY <1>1, <2>1 DEF Positive
<1>5. P \in Pos
  <2>. HIDE DEF g
  <2>. QED
    BY <1>1, <1>2, <1>4, ProductNext
<1>6. ASSUME NEW s \in Ids, NEW t \in Ids, Reach(s, t)
      PROVE  Worth(s, t) \in Pos /\ P = Sg(s, t) * Worth(s, t)
  <2>1. PICK p \in Pos : P = p * g[s]
    <3>. HIDE DEF g, P
    <3>. QED
      BY <1>1, <1>2, <1>4, ProductDivides
  <2>2. g[s] = ProductTo(nodes, f(s)) /\ f(s)[t] = Sg(s, t)
    BY <1>6 DEF Reach, Sg
  <2>3. PICK q \in Pos : ProductTo(nodes, f(s)) = q * f(s)[t]
    <3>. HIDE DEF f
    <3>. QED
      BY <1>1, <1>3, ProductDivides
  <2>. DEFINE a == Sg(s, t)
  <2>4. a \in Pos /\ a \in Int /\ a > 0 /\ p \in Int /\ q \in Int /\ p * q \in Pos /\ p * q \in Int
    <3>1. a \in Pos
      BY <1>6, SgIs
    <3>2. p * q \in Pos
      BY PosTimes
    <3>. HIDE DEF a
    <3>. QED
      BY <3>1, <3>2, PosInt
  <2>. HIDE DEF a, g, f, P
  <2>5. P = a * (p * q)
    <3>1. P = p * (q * a)
      BY <2>1, <2>2, <2>3 DEF a
    <3>. QED
      BY <2>4, <3>1
  <2>6. P \in Int
    BY <1>5, PosInt
  <2>7. P \div a = p * q
    BY <2>4, <2>5, <2>6, Exact
  <2>. QED
    BY <2>4, <2>5, <2>7 DEF Worth, P, a
<1>. QED
  BY <1>5, <1>6

\* What a walk that has come to v passes on: the worth of the shortest walks through v.
Onward(s, v) == [t \in 1..nodes |-> IF OnPath(s, v, t) THEN Worth(s, t) * Sg(v, t) ELSE 0]
Passed(s, v) == SumTo(nodes, Onward(s, v))
PassedAfter(s, v) == [w \in 1..nodes |-> IF v \in Before(s, w) THEN Passed(s, w) ELSE 0]
\* The same without the walks that end at v.
Beyond(s, v) == [t \in 1..nodes |-> IF OnPath(s, v, t) /\ v # t THEN Worth(s, t) * Sg(v, t) ELSE 0]

\* What is passed on is whole.
LEMMA OnwardWhole ==
  ASSUME MetricsTypeOK, NEW s \in Ids, NEW v \in Ids
  PROVE  /\ Whole(Onward(s, v), nodes) /\ Whole(Beyond(s, v), nodes) /\ Whole(PassedAfter(s, v), nodes)
         /\ Passed(s, v) \in Int
         /\ \A t \in 1..nodes : Onward(s, v)[t] \in Int /\ Beyond(s, v)[t] \in Int
<1>1. nodes \in Nat /\ Ids = 1..nodes
  BY Ends
<1>2. ASSUME NEW x \in Ids, NEW t \in Ids, OnPath(s, x, t) PROVE Worth(s, t) * Sg(x, t) \in Int
  <2>1. Reach(s, t)
    BY <1>2 DEF OnPath
  <2>2. Worth(s, t) \in Int /\ Sg(x, t) \in Int
    BY <2>1, UnitDivides, SgIs, PosInt
  <2>. QED
    BY <2>2
<1>3. \A x \in Ids : \A t \in 1..nodes : Onward(s, x)[t] \in Int
  BY <1>1, <1>2 DEF Onward
<1>4. \A t \in 1..nodes : Beyond(s, v)[t] \in Int
  BY <1>1, <1>2 DEF Beyond
<1>5. \A x \in Ids : Passed(s, x) \in Int
  BY <1>1, <1>3, SumNext DEF Whole, Passed
<1>6. Whole(PassedAfter(s, v), nodes)
  BY <1>1, <1>5 DEF Whole, PassedAfter
<1>. QED
  BY <1>3, <1>4, <1>5, <1>6 DEF Whole

\* A node passes on the worth of its own walks and what the nodes after it pass on.
LEMMA PassedSum ==
  ASSUME MetricsTypeOK, NEW s \in Ids, NEW v \in Ids
  PROVE  /\ SumTo(nodes, PassedAfter(s, v)) = SumTo(nodes, Beyond(s, v))
         /\ Reach(s, v) => Passed(s, v) = Worth(s, v) + SumTo(nodes, PassedAfter(s, v))
<1>1. nodes \in Nat /\ Ids = 1..nodes
  BY Ends
<1>. DEFINE F == [w \in 1..nodes |-> [t \in 1..nodes |->
                    IF v \in Before(s, w) THEN Onward(s, w)[t] ELSE 0]]
            rows == [w \in 1..nodes |-> SumTo(nodes, [t \in 1..nodes |-> F[w][t]])]
            cols == [t \in 1..nodes |-> SumTo(nodes, [w \in 1..nodes |-> F[w][t]])]
<1>2. \A w, t \in 1..nodes : F[w][t] \in Int
  BY <1>1, OnwardWhole
<1>3. ASSUME NEW w \in 1..nodes PROVE rows[w] = PassedAfter(s, v)[w]
  <2>. DEFINE f == [t \in 1..nodes |-> F[w][t]]
  <2>1. \A t \in 1..nodes : f[t] = IF v \in Before(s, w) THEN Onward(s, w)[t] ELSE 0
    OBVIOUS
  <2>2. rows[w] = SumTo(nodes, f)
    OBVIOUS
  <2>3. Whole(f, nodes)
    BY <1>2 DEF Whole
  <2>. HIDE DEF f, rows
  <2>4. CASE v \in Before(s, w)
    <3>1. SumTo(nodes, f) = SumTo(nodes, Onward(s, w))
      BY <1>1, <2>1, <2>3, <2>4, SumEqual
    <3>. QED
      BY <2>2, <2>4, <3>1 DEF PassedAfter, Passed
  <2>5. CASE v \notin Before(s, w)
    <3>1. SumTo(nodes, f) = 0
      BY <1>1, <2>1, <2>5, SumZero
    <3>. QED
      BY <2>2, <2>5, <3>1 DEF PassedAfter
  <2>. QED
    BY <2>4, <2>5
<1>4. ASSUME NEW t \in 1..nodes PROVE cols[t] = Beyond(s, v)[t]
  <2>. DEFINE f == [w \in 1..nodes |-> F[w][t]]
  <2>1. \A w \in 1..nodes : f[w] = IF v \in Before(s, w) /\ OnPath(s, w, t) THEN Worth(s, t) * Sg(w, t) ELSE 0
    BY DEF Onward
  <2>2. cols[t] = SumTo(nodes, f)
    OBVIOUS
  <2>3. \A w \in 1..nodes : Sg(w, t) \in Int /\ SgAfter(s, v, t)[w] \in Int
    <3>1. \A w \in 1..nodes : Sg(w, t) \in Int
      BY <1>1, SgIs
    <3>. QED
      BY <3>1 DEF SgAfter
  <2>. HIDE DEF f, cols
  <2>4. CASE Reach(s, t)
    <3>1. Worth(s, t) \in Int
      BY <1>1, <2>4, UnitDivides, PosInt
    <3>2. \A w \in 1..nodes : f[w] = Worth(s, t) * SgAfter(s, v, t)[w]
      <4>. SUFFICES ASSUME NEW w \in 1..nodes PROVE f[w] = Worth(s, t) * SgAfter(s, v, t)[w]
        OBVIOUS
      <4>1. SgAfter(s, v, t)[w] = IF v \in Before(s, w) /\ OnPath(s, w, t) THEN Sg(w, t) ELSE 0
        BY DEF SgAfter
      <4>2. Worth(s, t) * 0 = 0
        BY <3>1
      <4>. QED
        BY <2>1, <4>1, <4>2
    <3>3. SumTo(nodes, f) = Worth(s, t) * SumTo(nodes, SgAfter(s, v, t))
      BY <1>1, <2>3, <3>1, <3>2, SumTimes DEF Whole
    <3>4. SumTo(nodes, SgAfter(s, v, t)) = IF OnPath(s, v, t) /\ v # t THEN Sg(v, t) ELSE 0
      BY <1>1, SgOn
    <3>5. Beyond(s, v)[t] = IF OnPath(s, v, t) /\ v # t THEN Worth(s, t) * Sg(v, t) ELSE 0
      BY DEF Beyond
    <3>6. Worth(s, t) * 0 = 0
      BY <3>1
    <3>. QED
      BY <2>2, <3>3, <3>4, <3>5, <3>6
  <2>5. CASE ~Reach(s, t)
    <3>1. \A w \in 1..nodes : f[w] = 0
      BY <2>1, <2>5 DEF OnPath
    <3>2. SumTo(nodes, f) = 0
      BY <1>1, <3>1, SumZero
    <3>3. Beyond(s, v)[t] = 0
      BY <2>5 DEF Beyond, OnPath
    <3>. QED
      BY <2>2, <3>2, <3>3
  <2>. QED
    BY <2>4, <2>5
<1>5. SumTo(nodes, rows) = SumTo(nodes, cols)
  BY <1>1, <1>2, SumSwap
<1>. HIDE DEF rows, cols, F
<1>6. Whole(PassedAfter(s, v), nodes) /\ Whole(Beyond(s, v), nodes)
  BY OnwardWhole
<1>7. SumTo(nodes, PassedAfter(s, v)) = SumTo(nodes, rows)
  BY <1>1, <1>3, <1>6, SumEqual
<1>8. SumTo(nodes, Beyond(s, v)) = SumTo(nodes, cols)
  BY <1>1, <1>4, <1>6, SumEqual
<1>9. ASSUME Reach(s, v) PROVE Passed(s, v) = Worth(s, v) + SumTo(nodes, Beyond(s, v))
  <2>. DEFINE c == Worth(s, v)
              one == [t \in 1..nodes |-> IF t = v THEN c ELSE 0]
  <2>1. c \in Int
    BY <1>9, UnitDivides, PosInt
  <2>2. OnPath(s, v, v) /\ Sg(v, v) = 1
    <3>1. D(v, v) = 0 /\ D(s, v) \in Nat
      BY <1>1, <1>9, ReachSelf, LeastWalk
    <3>. QED
      BY <1>9, <3>1, SgIs DEF OnPath
  <2>3. Whole(one, nodes) /\ \A t \in 1..nodes : one[t] = IF t = v THEN c ELSE 0
    BY <2>1 DEF Whole
  <2>4. \A t \in 1..nodes : Onward(s, v)[t] = one[t] + Beyond(s, v)[t]
    <3>. SUFFICES ASSUME NEW t \in 1..nodes PROVE Onward(s, v)[t] = one[t] + Beyond(s, v)[t]
      OBVIOUS
    <3>1. Onward(s, v)[t] = IF OnPath(s, v, t) THEN Worth(s, t) * Sg(v, t) ELSE 0
      BY DEF Onward
    <3>2. Beyond(s, v)[t] = IF OnPath(s, v, t) /\ v # t THEN Worth(s, t) * Sg(v, t) ELSE 0
      BY DEF Beyond
    <3>3. Onward(s, v)[t] \in Int /\ Beyond(s, v)[t] \in Int
      BY OnwardWhole
    <3>4. CASE t = v
      <4>1. Worth(s, v) * Sg(v, v) = c
        BY <2>1, <2>2
      <4>2. Onward(s, v)[t] = c /\ Beyond(s, v)[t] = 0 /\ one[t] = c
        BY <2>2, <3>1, <3>2, <3>4, <4>1
      <4>. QED
        BY <2>1, <4>2
    <3>5. CASE t # v
      <4>1. Onward(s, v)[t] = Beyond(s, v)[t] /\ one[t] = 0
        BY <3>1, <3>2, <3>5
      <4>. HIDE DEF one
      <4>. QED
        BY <3>3, <4>1
    <3>. QED
      BY <3>4, <3>5
  <2>. HIDE DEF c, one
  <2>5. SumTo(nodes, one) = c
    BY <1>1, <2>1, <2>3, SumSingle
  <2>6. SumTo(nodes, Onward(s, v)) = SumTo(nodes, one) + SumTo(nodes, Beyond(s, v))
    BY <1>1, <1>6, <2>3, <2>4, SumAdd
  <2>. QED
    BY <2>5, <2>6 DEF Passed, c
<1>. QED
  BY <1>5, <1>7, <1>8, <1>9

\* What a node has been given when the nodes in G have been popped.
PassedPart(s, u, G) == [w \in 1..nodes |-> IF u \in Before(s, w) /\ w \in G THEN Passed(s, w) ELSE 0]
Tops(b, k) == {b.queue[i] : i \in {j \in 1..Len(b.queue) : j > Len(b.queue) - k}}
Paid(s, b, d, k) ==
  \A u \in Ids : d[u] = Sg(s, u) * SumTo(nodes, PassedPart(s, u, Tops(b, k)))

\* What is given when every node after u is popped, and when none is.
LEMMA PassedPartIs ==
  ASSUME MetricsTypeOK, NEW s \in Ids, NEW u \in Ids, NEW G
  PROVE  /\ Whole(PassedPart(s, u, G), nodes) /\ SumTo(nodes, PassedPart(s, u, G)) \in Int
         /\ G = {} => SumTo(nodes, PassedPart(s, u, G)) = 0
         /\ (\A w \in Ids : u \in Before(s, w) => w \in G) =>
              SumTo(nodes, PassedPart(s, u, G)) = SumTo(nodes, PassedAfter(s, u))
<1>. DEFINE f == PassedPart(s, u, G)
<1>1. nodes \in Nat /\ Ids = 1..nodes /\ \A w \in Ids : Passed(s, w) \in Int
  BY Ends, OnwardWhole
<1>2. \A w \in 1..nodes : f[w] = IF u \in Before(s, w) /\ w \in G THEN Passed(s, w) ELSE 0
  BY DEF PassedPart
<1>. HIDE DEF f
<1>3. Whole(f, nodes)
  BY <1>1, <1>2 DEF Whole
<1>4. SumTo(nodes, f) \in Int
  BY <1>1, <1>3, SumNext
<1>5. ASSUME G = {} PROVE SumTo(nodes, f) = 0
  <2>1. \A w \in 1..nodes : f[w] = 0
    BY <1>2, <1>5
  <2>. QED
    BY <1>1, <2>1, SumZero
<1>6. ASSUME \A w \in Ids : u \in Before(s, w) => w \in G
      PROVE  SumTo(nodes, f) = SumTo(nodes, PassedAfter(s, u))
  <2>1. \A w \in 1..nodes : f[w] = PassedAfter(s, u)[w]
    BY <1>1, <1>2, <1>6 DEF PassedAfter
  <2>. QED
    BY <1>1, <1>3, <2>1, SumEqual
<1>. QED
  BY <1>3, <1>4, <1>5, <1>6 DEF f

\* One more node popped.
LEMMA PassedPartMore ==
  ASSUME MetricsTypeOK, NEW s \in Ids, NEW u \in Ids, NEW G, NEW w \in Ids, w \notin G
  PROVE  SumTo(nodes, PassedPart(s, u, G \cup {w}))
           = SumTo(nodes, PassedPart(s, u, G)) + (IF u \in Before(s, w) THEN Passed(s, w) ELSE 0)
<1>. DEFINE c == IF u \in Before(s, w) THEN Passed(s, w) ELSE 0
            one == [x \in 1..nodes |-> IF x = w THEN c ELSE 0]
            f == PassedPart(s, u, G)
            e == PassedPart(s, u, G \cup {w})
<1>1. nodes \in Nat /\ w \in 1..nodes /\ c \in Int /\ Ids = 1..nodes
  BY Ends, OnwardWhole
<1>2. Whole(f, nodes)
  BY PassedPartIs
<1>3. \A x \in 1..nodes : e[x] = f[x] + one[x]
  <2>. SUFFICES ASSUME NEW x \in 1..nodes PROVE e[x] = f[x] + one[x]
    OBVIOUS
  <2>1. e[x] = IF u \in Before(s, x) /\ x \in G \cup {w} THEN Passed(s, x) ELSE 0
    BY DEF PassedPart
  <2>2. f[x] = IF u \in Before(s, x) /\ x \in G THEN Passed(s, x) ELSE 0
    BY DEF PassedPart
  <2>3. one[x] = IF x = w THEN c ELSE 0
    OBVIOUS
  <2>4. Passed(s, x) \in Int
    BY <1>1, OnwardWhole
  <2>. HIDE DEF e, f, one
  <2>5. CASE x = w
    BY <1>1, <2>1, <2>2, <2>3, <2>5
  <2>6. CASE x # w
    BY <2>1, <2>2, <2>3, <2>4, <2>6
  <2>. QED
    BY <2>5, <2>6
<1>4. Whole(one, nodes) /\ \A x \in 1..nodes : one[x] = IF x = w THEN c ELSE 0
  BY <1>1 DEF Whole
<1>. HIDE DEF c, one, e, f
<1>5. SumTo(nodes, one) = c
  BY <1>1, <1>4, SumSingle
<1>6. SumTo(nodes, e) = SumTo(nodes, f) + SumTo(nodes, one)
  BY <1>1, <1>2, <1>3, <1>4, SumAdd
<1>. QED
  BY <1>5, <1>6 DEF c, e, f

\* The dependencies once w is popped.
Taken(s, unit, d, w) ==
  [u \in Ids |-> d[u] + IF u \in Before(s, w) THEN (Sg(s, u) * (unit + d[w])) \div Sg(s, w) ELSE 0]

\* Popping, in terms of shortest walks.
LEMMA PoppedIs ==
  ASSUME MetricsTypeOK, NEW s \in Ids, NEW unit, NEW d, NEW k \in 1..Len(Search(s).queue),
         NEW w, w = Search(s).queue[Len(Search(s).queue) - k + 1]
  PROVE  /\ w \in Ids /\ Reach(s, w)
         /\ Popped(unit, Search(s), d, k) = Taken(s, unit, d, w)
<1>. DEFINE b == Search(s)
            n == Len(b.queue)
<1>1. /\ n \in Nat /\ b.queue \in [1..n -> Ids] /\ \A i \in 1..n : Reach(s, b.queue[i])
      /\ \A x \in Ids : b.sigma[x] = Sg(s, x) /\ b.preds[x] = Before(s, x)
  <2>1. Queued(s, b) /\ \A x \in Ids : b.sigma[x] = Sg(s, x) /\ b.preds[x] = Before(s, x)
    BY SearchFound
  <2>. HIDE DEF b
  <2>. QED
    BY <2>1 DEF Queued
<1>2. k \in 1..n /\ w = b.queue[n - k + 1]
  OBVIOUS
<1>3. Popped(unit, b, d, k) =
        [u \in Ids |-> d[u] + IF u \in b.preds[w] THEN (b.sigma[u] * (unit + d[w])) \div b.sigma[w] ELSE 0]
  BY <1>2 DEF Popped, Share
<1>. HIDE DEF b, n
<1>4. n - k + 1 \in 1..n
  BY <1>1, <1>2
<1>5. w \in Ids /\ Reach(s, w)
  BY <1>1, <1>2, <1>4
<1>6. b.preds[w] = Before(s, w) /\ b.sigma[w] = Sg(s, w)
  BY <1>1, <1>5
<1>7. \A u \in Ids : b.sigma[u] = Sg(s, u)
  BY <1>1
<1>8. Popped(unit, b, d, k) = Taken(s, unit, d, w)
  BY <1>3, <1>6, <1>7 DEF Taken
<1>. QED
  BY <1>5, <1>8 DEF b

\* Dependencies are whole numbers in their unit.
LEMMA PoppedWhole ==
  ASSUME MetricsTypeOK, NEW s \in Ids, NEW unit \in Int, NEW d \in [Ids -> Int],
         NEW k \in 1..Len(Search(s).queue)
  PROVE  Popped(unit, Search(s), d, k) \in [Ids -> Int]
<1>. DEFINE w == Search(s).queue[Len(Search(s).queue) - k + 1]
<1>0. w = Search(s).queue[Len(Search(s).queue) - k + 1]
  OBVIOUS
<1>. HIDE DEF w
<1>1. /\ w \in Ids /\ Reach(s, w)
      /\ Popped(unit, Search(s), d, k) = Taken(s, unit, d, w)
  BY <1>0, PoppedIs
<1>2. ASSUME NEW u \in Ids
      PROVE  d[u] + (IF u \in Before(s, w) THEN (Sg(s, u) * (unit + d[w])) \div Sg(s, w) ELSE 0) \in Int
  <2>. DEFINE x == Sg(s, u) * (unit + d[w])
              y == Sg(s, w)
  <2>1. x \in Int
    <3>1. unit + d[w] \in Int /\ Sg(s, u) \in Int
      BY <1>1, SgIs
    <3>. QED
      BY <3>1
  <2>2. y \in Int /\ y > 0
    BY <1>1, SgIs, PosInt
  <2>. HIDE DEF x, y
  <2>3. x \div y \in Int
    BY <2>1, <2>2
  <2>4. d[u] + (IF u \in Before(s, w) THEN x \div y ELSE 0) \in Int
    BY <2>3
  <2>. QED
    BY <2>4 DEF x, y
<1>3. Taken(s, unit, d, w) \in [Ids -> Int]
  BY <1>2 DEF Taken
<1>. QED
  BY <1>1, <1>3

\* A node popped has been given all it passes on, since those after it were popped before.
LEMMA PoppedOn ==
  ASSUME MetricsTypeOK, NEW s \in Ids, NEW d \in [Ids -> Int],
         NEW k \in 0..(Len(Search(s).queue) - 1), Paid(s, Search(s), d, k)
  PROVE  Paid(s, Search(s), Popped(PathUnit(AllWalks), Search(s), d, k + 1), k + 1)
<1>. DEFINE b == Search(s)
            q == b.queue
            n == Len(q)
            U == PathUnit(AllWalks)
            w == q[n - (k + 1) + 1]
            e == Popped(U, b, d, k + 1)
<1>1. /\ n \in Nat /\ q \in [1..n -> Ids]
      /\ \A i, j \in 1..n : q[i] = q[j] => i = j
      /\ \A i, j \in 1..n : i <= j => D(s, q[i]) <= D(s, q[j])
      /\ \A v \in Ids : Reach(s, v) => \E i \in 1..n : q[i] = v
  <2>1. Queued(s, b) /\ \A v \in Ids : v \in In(b) <=> Reach(s, v)
    BY SearchFound
  <2>. HIDE DEF b
  <2>. QED
    BY <2>1 DEF Queued, In
<1>2. k \in 0..(n - 1) /\ k + 1 \in 1..n /\ n - (k + 1) + 1 = n - k /\ n - k \in 1..n
  BY <1>1
<1>3. /\ w \in Ids /\ Reach(s, w)
      /\ e = [u \in Ids |-> d[u] + IF u \in Before(s, w) THEN (Sg(s, u) * (U + d[w])) \div Sg(s, w) ELSE 0]
  <2>1. w = Search(s).queue[Len(Search(s).queue) - (k + 1) + 1] /\ k + 1 \in 1..Len(Search(s).queue)
    BY <1>2
  <2>2. e = Popped(U, Search(s), d, k + 1)
    OBVIOUS
  <2>. HIDE DEF w, e, U
  <2>. DEFINE j == k + 1
  <2>3. w = Search(s).queue[Len(Search(s).queue) - j + 1] /\ j \in 1..Len(Search(s).queue)
    BY <2>1
  <2>4. e = Popped(U, Search(s), d, j)
    BY <2>2
  <2>. HIDE DEF j
  <2>5. w \in Ids /\ Reach(s, w) /\ Popped(U, Search(s), d, j) = Taken(s, U, d, w)
    BY <2>3, PoppedIs
  <2>. QED
    BY <2>4, <2>5 DEF Taken
<1>4. w = q[n - k]
  BY <1>2
<1>5. U \in Int /\ Worth(s, w) \in Int /\ U = Sg(s, w) * Worth(s, w)
  BY <1>3, UnitDivides, PosInt
<1>6. /\ Tops(b, k) = {q[i] : i \in {j \in 1..n : j > n - k}}
      /\ Tops(b, k + 1) = {q[i] : i \in {j \in 1..n : j > n - (k + 1)}}
  BY DEF Tops
<1>7. Paid(s, b, d, k)
  OBVIOUS
<1>. HIDE DEF b, q, n, U, w, e
<1>8. Tops(b, k + 1) = Tops(b, k) \cup {w}
  <2>1. \A j \in 1..n : j > n - (k + 1) <=> (j > n - k \/ j = n - k)
    BY <1>1, <1>2
  <2>. QED
    BY <1>2, <1>4, <1>6, <2>1
<1>9. w \notin Tops(b, k)
  <2>. SUFFICES ASSUME NEW i \in 1..n, i > n - k, q[i] = w PROVE FALSE
    BY <1>6
  <2>1. i = n - k
    BY <1>1, <1>2, <1>4
  <2>. QED
    BY <1>1, <1>2, <2>1
<1>10. ASSUME NEW x \in Ids, w \in Before(s, x) PROVE x \in Tops(b, k)
  <2>1. Reach(s, x) /\ D(s, x) = D(s, w) + 1 /\ D(s, w) \in 0..(nodes - 1)
    BY <1>3, <1>10, Preceding
  <2>2. PICK i \in 1..n : q[i] = x
    BY <1>1, <2>1
  <2>3. CASE i <= n - k
    <3>1. D(s, x) <= D(s, w)
      BY <1>1, <1>2, <1>4, <2>2, <2>3
    <3>. QED
      BY <2>1, <3>1, Ends
  <2>4. CASE ~(i <= n - k)
    <3>1. i > n - k
      BY <1>1, <1>2, <2>4
    <3>. QED
      BY <1>6, <2>2, <3>1
  <2>. QED
    BY <2>3, <2>4
<1>11. U + d[w] = Sg(s, w) * Passed(s, w)
  <2>. DEFINE x == SumTo(nodes, PassedAfter(s, w))
              y == Worth(s, w)
              z == Sg(s, w)
  <2>1. SumTo(nodes, PassedPart(s, w, Tops(b, k))) = x
    BY <1>3, <1>10, PassedPartIs
  <2>2. x \in Int /\ y \in Int /\ z \in Int
    <3>1. SumTo(nodes, PassedPart(s, w, Tops(b, k))) \in Int
      BY <1>3, PassedPartIs
    <3>. QED
      BY <1>3, <1>5, <2>1, <3>1, SgIs
  <2>3. d[w] = z * x
    BY <1>3, <1>7, <2>1 DEF Paid
  <2>4. Passed(s, w) = y + x
    BY <1>3, PassedSum
  <2>5. U = z * y
    BY <1>5
  <2>. HIDE DEF x, y, z
  <2>6. z * y + z * x = z * (y + x)
    BY <2>2
  <2>. QED
    BY <2>3, <2>4, <2>5, <2>6 DEF z
<1>12. ASSUME NEW u \in Ids
       PROVE  e[u] = Sg(s, u) * SumTo(nodes, PassedPart(s, u, Tops(b, k + 1)))
  <2>. DEFINE x == SumTo(nodes, PassedPart(s, u, Tops(b, k)))
              a == Sg(s, u)
              p == Passed(s, w)
              z == Sg(s, w)
  <2>1. SumTo(nodes, PassedPart(s, u, Tops(b, k + 1))) = x + IF u \in Before(s, w) THEN p ELSE 0
    <3>1. SumTo(nodes, PassedPart(s, u, Tops(b, k) \cup {w})) = x + IF u \in Before(s, w) THEN p ELSE 0
      BY <1>3, <1>9, PassedPartMore
    <3>. QED
      BY <1>8, <3>1
  <2>2. d[u] = a * x
    BY <1>7 DEF Paid
  <2>3. x \in Int /\ a \in Int /\ p \in Int /\ z \in Int /\ z > 0
    BY <1>3, PassedPartIs, SgIs, OnwardWhole, PosInt
  <2>4. e[u] = d[u] + IF u \in Before(s, w) THEN (a * (z * p)) \div z ELSE 0
    BY <1>3, <1>11
  <2>. HIDE DEF x, a, p, z
  <2>5. (a * (z * p)) \div z = a * p
    <3>1. a * (z * p) = z * (a * p) /\ a * p \in Int
      BY <2>3
    <3>2. a * (z * p) \in Int
      BY <2>3, <3>1
    <3>. QED
      BY <2>3, <3>1, <3>2, Exact
  <2>6. a * (x + p) = a * x + a * p /\ a * (x + 0) = a * x + 0
    BY <2>3
  <2>7. CASE u \in Before(s, w)
    BY <2>1, <2>2, <2>4, <2>5, <2>6, <2>7 DEF a
  <2>8. CASE u \notin Before(s, w)
    BY <2>1, <2>2, <2>4, <2>6, <2>8 DEF a
  <2>. QED
    BY <2>7, <2>8
<1>13. Paid(s, b, e, k + 1)
  BY <1>12 DEF Paid
<1>. QED
  BY <1>13 DEF b, e, U

DependencyRun(unit, s, n, h) ==
  /\ Dependency(unit, s) = h[n] /\ h[0] = [u \in Ids |-> 0]
  /\ \A k \in 1..n : h[k] = Popped(unit, Search(s), h[k - 1], k)
  /\ \A k \in 0..n : h[k] \in [Ids -> Int]

\* The turns of the accumulation.
LEMMA DependencyRuns ==
  ASSUME MetricsTypeOK, NEW s \in Ids, NEW unit \in Int, NEW n, n = Len(Search(s).queue)
  PROVE  \E h : DependencyRun(unit, s, n, h)
<1>. DEFINE X == [Ids -> Int]
            b == Search(s)
            x == [u \in Ids |-> 0]
            eq(g) == g = [k \in 0..n |-> IF k = 0 THEN x ELSE Popped(unit, b, g[k - 1], k)]
            h == CHOOSE g : eq(g)
            step == [k \in 1..n |-> [y \in X |-> Popped(unit, b, y, k)]]
<1>1. Dependency(unit, s) = h[n]
  <2>1. Dependency(unit, s) =
          (CHOOSE g : g = [k \in 0..Len(b.queue) |->
             IF k = 0 THEN x ELSE Popped(unit, b, g[k - 1], k)])[Len(b.queue)]
    BY Zenon DEF Dependency
  <2>2. n = Len(b.queue)
    OBVIOUS
  <2>. QED
    BY <2>1, <2>2, Zenon
<1>2. n \in Nat
  <2>1. Queued(s, b)
    BY SearchFound
  <2>2. n = Len(b.queue)
    OBVIOUS
  <2>. HIDE DEF b
  <2>. QED
    BY <2>1, <2>2 DEF Queued
<1>3. x \in X
  OBVIOUS
<1>4. \A k \in 1..n, y \in X : step[k][y] \in X /\ step[k][y] = Popped(unit, b, y, k)
  <2>1. \A k \in 1..n, y \in X : Popped(unit, b, y, k) \in X
    BY PoppedWhole
  <2>. HIDE DEF X, b
  <2>. QED
    BY <2>1
<1>. HIDE DEF x, X, step, b
<1>5. PICK g : LoopRun(X, x, n, step, g)
  <2>1. Loop(X, x, n, step)
    BY <1>2, <1>3, <1>4 DEF Loop
  <2>. QED
    BY <2>1, LoopExists
<1>6. /\ g \in [0..n -> X] /\ g[0] = x
      /\ \A k \in 1..n : k - 1 \in 0..n /\ g[k] = Popped(unit, b, g[k - 1], k)
  <2>1. g \in [0..n -> X] /\ g[0] = x /\ \A k \in 1..n : g[k] = step[k][g[k - 1]]
    BY <1>5 DEF LoopRun
  <2>2. \A k \in 1..n : k - 1 \in 0..n
    BY <1>2
  <2>3. \A k \in 1..n : g[k - 1] \in X
    BY <2>1, <2>2
  <2>. QED
    BY <1>4, <2>1, <2>2, <2>3
<1>7. eq(g)
  BY <1>2, <1>6
<1>8. eq(h)
  BY <1>7, Zenon
<1>. HIDE DEF h
<1>9. h[0] = x /\ \A k \in 1..n : h[k] = Popped(unit, b, h[k - 1], k)
  BY <1>2, <1>8
<1>10. \A k \in 0..n : h[k] \in X
  <2>. DEFINE S == {k \in 0..n : h[k] \in X}
  <2>1. 0 \in S
    BY <1>2, <1>3, <1>9
  <2>2. ASSUME NEW k \in 0..(n - 1), k \in S PROVE k + 1 \in S
    <3>. DEFINE j == k + 1
    <3>1. j \in 1..n /\ j \in 0..n /\ j - 1 = k
      BY <1>2
    <3>. HIDE DEF j
    <3>2. h[j] = Popped(unit, b, h[k], j) /\ h[k] \in X
      BY <1>9, <2>2, <3>1
    <3>3. h[j] \in X
      BY <1>4, <3>1, <3>2
    <3>. QED
      BY <3>1, <3>3 DEF j
  <2>3. \A k \in 0..(n - 1) : k \in S => k + 1 \in S
    BY <2>2
  <2>. HIDE DEF S
  <2>4. \A k \in 0..n : k \in S
    BY <1>2, <2>1, <2>3, CountUp
  <2>. QED
    BY <2>4 DEF S
<1>11. DependencyRun(unit, s, n, h)
  BY <1>1, <1>9, <1>10 DEF DependencyRun, x, X, b
<1>. QED
  BY <1>11

\* The dependency of s on v: what the shortest walks from s through v are worth.
LEMMA DependencyIs ==
  ASSUME MetricsTypeOK, NEW s \in Ids, NEW v \in Ids
  PROVE  Dependency(PathUnit(AllWalks), s)[v] = Sg(s, v) * SumTo(nodes, Beyond(s, v))
<1>. DEFINE b == Search(s)
            n == Len(b.queue)
            U == PathUnit(AllWalks)
<1>1. U \in Int
  BY UnitDivides, PosInt
<1>2. /\ n \in Nat
      /\ \A x \in Ids : Reach(s, x) => \E i \in 1..n : b.queue[i] = x
  <2>1. Queued(s, b) /\ \A x \in Ids : x \in In(b) <=> Reach(s, x)
    BY SearchFound
  <2>. HIDE DEF b
  <2>. QED
    BY <2>1 DEF Queued, In
<1>3. PICK h : DependencyRun(U, s, n, h)
  <2>1. n = Len(Search(s).queue)
    OBVIOUS
  <2>. HIDE DEF n, U
  <2>. QED
    BY <1>1, <2>1, DependencyRuns
<1>turns. /\ Dependency(U, s) = h[n] /\ h[0] = [u \in Ids |-> 0]
          /\ \A k \in 1..n : h[k] = Popped(U, b, h[k - 1], k)
          /\ \A k \in 0..n : h[k] \in [Ids -> Int]
  BY <1>3 DEF DependencyRun
<1>4. ASSUME NEW k \in 0..(n - 1), NEW d \in [Ids -> Int], Paid(s, b, d, k)
      PROVE  Paid(s, b, Popped(U, b, d, k + 1), k + 1)
  BY <1>4, PoppedOn
<1>5. Tops(b, 0) = {}
  <2>1. {j \in 1..n : j > n - 0} = {}
    BY <1>2
  <2>. QED
    BY <2>1 DEF Tops
<1>6. Tops(b, n) = {b.queue[i] : i \in 1..n}
  <2>1. {j \in 1..n : j > n - n} = 1..n
    BY <1>2
  <2>. QED
    BY <2>1 DEF Tops
<1>. HIDE DEF b, n, U
<1>7. Paid(s, b, h[0], 0)
  <2>. SUFFICES ASSUME NEW u \in Ids
                PROVE  h[0][u] = Sg(s, u) * SumTo(nodes, PassedPart(s, u, Tops(b, 0)))
    BY DEF Paid
  <2>. DEFINE x == SumTo(nodes, PassedPart(s, u, Tops(b, 0)))
  <2>1. x = 0
    BY <1>5, PassedPartIs
  <2>2. Sg(s, u) \in Nat
    BY SgIs
  <2>3. h[0][u] = 0
    BY <1>turns
  <2>. HIDE DEF x
  <2>4. Sg(s, u) * x = 0
    BY <2>1, <2>2
  <2>. QED
    BY <2>3, <2>4 DEF x
<1>8. Paid(s, b, h[n], n)
  <2>. DEFINE S == {k \in 0..n : Paid(s, b, h[k], k)}
  <2>1. 0 \in S
    BY <1>2, <1>7
  <2>2. ASSUME NEW k \in 0..(n - 1), k \in S PROVE k + 1 \in S
    <3>1. k + 1 \in 1..n /\ k + 1 \in 0..n /\ k + 1 - 1 = k /\ k \in 0..n
      BY <1>2
    <3>2. h[k + 1] = Popped(U, b, h[k], k + 1) /\ h[k] \in [Ids -> Int]
      BY <1>turns, <3>1
    <3>3. Paid(s, b, h[k], k)
      BY <2>2
    <3>4. Paid(s, b, Popped(U, b, h[k], k + 1), k + 1)
      BY <1>4, <3>2, <3>3
    <3>. QED
      BY <3>1, <3>2, <3>4
  <2>3. \A k \in 0..(n - 1) : k \in S => k + 1 \in S
    BY <2>2
  <2>. HIDE DEF S
  <2>4. \A k \in 0..n : k \in S
    BY <1>2, <2>1, <2>3, CountUp
  <2>5. n \in 0..n
    BY <1>2
  <2>6. n \in S
    BY <2>4, <2>5
  <2>. QED
    BY <2>6 DEF S
<1>9. \A w \in Ids : v \in Before(s, w) => w \in Tops(b, n)
  <2>1. \A w \in Ids : v \in Before(s, w) => Reach(s, w)
    BY Preceding
  <2>. QED
    BY <1>2, <1>6, <2>1
<1>10. SumTo(nodes, PassedPart(s, v, Tops(b, n))) = SumTo(nodes, Beyond(s, v))
  <2>1. SumTo(nodes, PassedPart(s, v, Tops(b, n))) = SumTo(nodes, PassedAfter(s, v))
    BY <1>9, PassedPartIs
  <2>. QED
    BY <2>1, PassedSum
<1>11. h[n][v] = Sg(s, v) * SumTo(nodes, PassedPart(s, v, Tops(b, n)))
  BY <1>8 DEF Paid
<1>. QED
  BY <1>turns, <1>10, <1>11 DEF U

-----------------------------------------------------------------------------
(***************************************************************************)
(* Betweenness.                                                            *)
(***************************************************************************)
Via(s, t, v) == Through(AllWalks, PathUnit(AllWalks), s, t, v)
\* The pairs counted once, as Centrality does.
Half(v) == [s \in 1..nodes |-> [t \in 1..nodes |-> IF s < t THEN Via(s, t, v) ELSE 0]]

\* The definition's quotient leaves no remainder.
LEMMA ViaIs ==
  ASSUME MetricsTypeOK, NEW s \in Ids, NEW t \in Ids, NEW v \in Ids
  PROVE  Via(s, t, v) = IF OnPath(s, v, t) /\ v # s /\ v # t
                        THEN Sg(s, v) * (Worth(s, t) * Sg(v, t)) ELSE 0
<1>. DEFINE U == PathUnit(AllWalks)
            a == Sg(s, v)
            b == Sg(v, t)
            c == Sg(s, t)
            y == Worth(s, t)
<1>1. Via(s, t, v) = IF OnPath(s, v, t) /\ v # s /\ v # t THEN (U * a * b) \div c ELSE 0
  BY DEF Via, Through, OnPath, Reach, D, Sg
<1>2. ASSUME OnPath(s, v, t) PROVE (U * a * b) \div c = a * (y * b)
  <2>1. Reach(s, t)
    BY <1>2 DEF OnPath
  <2>2. a \in Int /\ b \in Int
    BY SgIs
  <2>3. c \in Int /\ c > 0 /\ y \in Int /\ U = c * y
    BY <2>1, SgIs, UnitDivides, PosInt
  <2>. HIDE DEF U, a, b, c, y
  <2>4. U * a * b = c * (a * (y * b)) /\ a * (y * b) \in Int /\ U * a * b \in Int
    <3>1. y * b \in Int /\ a * (y * b) \in Int
      BY <2>2, <2>3
    <3>2. (c * y) * a * b = c * (a * (y * b))
      BY <2>2, <2>3
    <3>3. c * (a * (y * b)) \in Int
      BY <2>3, <3>1
    <3>. QED
      BY <2>3, <3>1, <3>2, <3>3
  <2>. QED
    BY <2>3, <2>4, Exact
<1>. HIDE DEF U, a, b, c, y
<1>3. CASE OnPath(s, v, t) /\ v # s /\ v # t
  BY <1>1, <1>2, <1>3 DEF a, b, y
<1>4. CASE ~(OnPath(s, v, t) /\ v # s /\ v # t)
  BY <1>1, <1>4
<1>. QED
  BY <1>3, <1>4

\* It is a whole number.
LEMMA ViaWhole ==
  ASSUME MetricsTypeOK, NEW s \in Ids, NEW t \in Ids, NEW v \in Ids
  PROVE  Via(s, t, v) \in Int
<1>. DEFINE a == Sg(s, v)
            b == Sg(v, t)
            y == Worth(s, t)
<1>1. CASE OnPath(s, v, t) /\ v # s /\ v # t
  <2>1. Reach(s, t)
    BY <1>1 DEF OnPath
  <2>2. a \in Int /\ b \in Int /\ y \in Int
    BY <2>1, SgIs, UnitDivides, PosInt
  <2>3. Via(s, t, v) = a * (y * b)
    BY <1>1, ViaIs
  <2>. HIDE DEF a, b, y
  <2>4. y * b \in Int /\ a * (y * b) \in Int
    BY <2>2
  <2>. QED
    BY <2>3, <2>4
<1>2. CASE ~(OnPath(s, v, t) /\ v # s /\ v # t)
  BY <1>2, ViaIs
<1>. QED
  BY <1>1, <1>2

\* A path through v can be walked from either end, and joins two different nodes.
LEMMA ViaTurn ==
  ASSUME MetricsTypeOK, NEW s \in Ids, NEW t \in Ids, NEW v \in Ids
  PROVE  Via(s, t, v) = Via(t, s, v) /\ Via(s, s, v) = 0
<1>1. ASSUME NEW x \in Ids, NEW z \in Ids, OnPath(x, v, z) PROVE OnPath(z, v, x)
  <2>1. Reach(x, z) /\ Reach(x, v) /\ D(x, v) + D(v, z) = D(x, z)
    BY <1>1 DEF OnPath
  <2>2. Reach(v, z) /\ D(x, v) \in Nat /\ D(v, z) \in Nat
    BY <2>1, Distances
  <2>3. Reach(z, x) /\ Reach(z, v) /\ D(z, v) = D(v, z) /\ D(v, x) = D(x, v) /\ D(z, x) = D(x, z)
    BY <2>1, <2>2, ReachBack
  <2>4. D(z, v) + D(v, x) = D(z, x)
    BY <2>1, <2>2, <2>3
  <2>. QED
    BY <2>3, <2>4 DEF OnPath
<1>2. OnPath(s, v, t) <=> OnPath(t, v, s)
  BY <1>1
<1>3. Via(s, t, v) = Via(t, s, v)
  <2>1. CASE OnPath(s, v, t) /\ v # s /\ v # t
    <3>. DEFINE a == Sg(s, v)
                b == Sg(v, t)
                c == Sg(s, t)
                y == Worth(s, t)
    <3>1. Reach(s, t)
      BY <2>1 DEF OnPath
    <3>2. a \in Int /\ b \in Int /\ y \in Int
      BY <3>1, SgIs, UnitDivides, PosInt
    <3>3. Sg(t, v) = b /\ Sg(v, s) = a /\ Worth(t, s) = y
      BY SgIs DEF Worth
    <3>4. Via(s, t, v) = a * (y * b)
      BY <2>1, ViaIs
    <3>5. Via(t, s, v) = b * (y * a)
      BY <1>2, <2>1, <3>3, ViaIs
    <3>. HIDE DEF a, b, y
    <3>6. a * (y * b) = b * (y * a)
      BY <3>2
    <3>. QED
      BY <3>4, <3>5, <3>6
  <2>2. CASE ~(OnPath(s, v, t) /\ v # s /\ v # t)
    <3>1. Via(s, t, v) = 0
      BY <2>2, ViaIs
    <3>2. Via(t, s, v) = 0
      BY <1>2, <2>2, ViaIs
    <3>. QED
      BY <3>1, <3>2
  <2>. QED
    BY <2>1, <2>2
<1>4. ~(OnPath(s, v, s) /\ v # s)
  <2>. SUFFICES ASSUME OnPath(s, v, s), v # s PROVE FALSE
    OBVIOUS
  <2>1. Reach(s, v) /\ Reach(s, s) /\ D(s, v) + D(v, s) = D(s, s)
    BY DEF OnPath
  <2>2. D(s, s) = 0 /\ D(s, v) \in Nat /\ D(v, s) \in Nat
    BY <2>1, Distances, ReachSelf
  <2>3. D(s, v) = 0
    BY <2>1, <2>2
  <2>. QED
    BY <2>1, <2>3, ReachSelf
<1>5. Via(s, s, v) = 0
  BY <1>4, ViaIs
<1>. QED
  BY <1>3, <1>5

\* A row of Brandes' total: the shortest walks from s through v.
LEMMA RowIs ==
  ASSUME MetricsTypeOK, NEW s \in Ids, NEW v \in Ids
  PROVE  (IF s = v THEN 0 ELSE Dependency(PathUnit(AllWalks), s)[v])
           = SumTo(nodes, [t \in 1..nodes |-> Via(s, t, v)])
<1>. DEFINE row == [t \in 1..nodes |-> Via(s, t, v)]
<1>1. nodes \in Nat /\ Ids = 1..nodes
  BY Ends
<1>2. CASE s = v
  <2>1. \A t \in 1..nodes : row[t] = 0
    BY <1>1, <1>2, ViaIs
  <2>. HIDE DEF row
  <2>2. SumTo(nodes, row) = 0
    BY <1>1, <2>1, SumZero
  <2>. QED
    BY <1>2, <2>2 DEF row
<1>3. CASE s # v
  <2>. DEFINE c == Sg(s, v)
              f == Beyond(s, v)
  <2>1. c \in Int /\ Whole(f, nodes)
    BY SgIs, OnwardWhole
  <2>2. ASSUME NEW t \in 1..nodes PROVE row[t] = c * f[t]
    <3>1. row[t] = IF OnPath(s, v, t) /\ v # s /\ v # t THEN c * (Worth(s, t) * Sg(v, t)) ELSE 0
      BY <1>1, ViaIs
    <3>2. f[t] = IF OnPath(s, v, t) /\ v # t THEN Worth(s, t) * Sg(v, t) ELSE 0
      BY DEF Beyond
    <3>. HIDE DEF c, f, row
    <3>3. c * 0 = 0
      BY <2>1
    <3>4. CASE OnPath(s, v, t) /\ v # t
      BY <1>3, <3>1, <3>2, <3>4
    <3>5. CASE ~(OnPath(s, v, t) /\ v # t)
      BY <3>1, <3>2, <3>3, <3>5
    <3>. QED
      BY <3>4, <3>5
  <2>3. Dependency(PathUnit(AllWalks), s)[v] = c * SumTo(nodes, f)
    BY DependencyIs
  <2>. HIDE DEF c, f, row
  <2>4. SumTo(nodes, row) = c * SumTo(nodes, f)
    BY <1>1, <2>1, <2>2, SumTimes
  <2>. QED
    BY <1>3, <2>3, <2>4 DEF row
<1>. QED
  BY <1>2, <1>3

\* The definition's double sum, over pairs counted once.
LEMMA CentralityIs ==
  ASSUME MetricsTypeOK, NEW v \in Ids
  PROVE  /\ Centrality(AllWalks, PathUnit(AllWalks), v)
              = SumTo(nodes, [s \in 1..nodes |-> SumTo(nodes, [t \in 1..nodes |-> Half(v)[s][t]])])
         /\ \A s, t \in 1..nodes : Half(v)[s][t] \in Int
<1>1. nodes \in Nat /\ Ids = 1..nodes
  BY Ends
<1>2. ASSUME NEW s \in 1..nodes
      PROVE  [t \in 1..nodes |-> Half(v)[s][t]]
               = [t \in 1..nodes |-> IF s < t THEN Via(s, t, v) ELSE 0]
  BY DEF Half
<1>3. Centrality(AllWalks, PathUnit(AllWalks), v)
        = SumTo(nodes, [s \in 1..nodes |->
            SumTo(nodes, [t \in 1..nodes |-> IF s < t THEN Via(s, t, v) ELSE 0])])
  BY <1>1 DEF Centrality, Total, Via
<1>4. \A s, t \in 1..nodes : Half(v)[s][t] \in Int
  BY <1>1, ViaWhole DEF Half
<1>. QED
  BY <1>2, <1>3, <1>4

\* Every pair is counted from both its ends.
LEMMA BetweennessIs ==
  ASSUME MetricsTypeOK, NEW v \in Ids
  PROVE  Betweenness(PathUnit(AllWalks), v) = Centrality(AllWalks, PathUnit(AllWalks), v)
<1>. DEFINE F == Half(v)
            C == Centrality(AllWalks, PathUnit(AllWalks), v)
            rows == [s \in 1..nodes |-> SumTo(nodes, [t \in 1..nodes |-> F[s][t]])]
            cols == [t \in 1..nodes |-> SumTo(nodes, [s \in 1..nodes |-> F[s][t]])]
            both == [s \in Ids |-> IF s = v THEN 0 ELSE Dependency(PathUnit(AllWalks), s)[v]]
<1>1. nodes \in Nat /\ Ids = 1..nodes
  BY Ends
<1>2. C = SumTo(nodes, rows) /\ \A s, t \in 1..nodes : F[s][t] \in Int
  BY CentralityIs
<1>3. Betweenness(PathUnit(AllWalks), v) = SumTo(nodes, both) \div 2
  BY DEF Betweenness, Total
<1>4. ASSUME NEW s \in 1..nodes, NEW t \in 1..nodes PROVE Via(s, t, v) = F[s][t] + F[t][s]
  <2>1. F[s][t] = IF s < t THEN Via(s, t, v) ELSE 0
    BY DEF Half
  <2>2. F[t][s] = IF t < s THEN Via(t, s, v) ELSE 0
    BY DEF Half
  <2>3. Via(s, t, v) = Via(t, s, v) /\ Via(s, s, v) = 0 /\ Via(s, t, v) \in Int
    BY <1>1, ViaTurn, ViaWhole
  <2>. HIDE DEF F
  <2>4. s < t \/ t < s \/ s = t
    BY <1>1
  <2>. QED
    BY <2>1, <2>2, <2>3, <2>4
<1>. HIDE DEF F, C
<1>5. ASSUME NEW s \in 1..nodes
      PROVE  both[s] = rows[s] + cols[s] /\ rows[s] \in Int /\ cols[s] \in Int
  <2>. DEFINE e == [t \in 1..nodes |-> Via(s, t, v)]
              f == [t \in 1..nodes |-> F[s][t]]
              g == [t \in 1..nodes |-> F[t][s]]
  <2>1. both[s] = SumTo(nodes, e)
    <3>1. both[s] = IF s = v THEN 0 ELSE Dependency(PathUnit(AllWalks), s)[v]
      BY <1>1
    <3>. QED
      BY <1>1, <3>1, RowIs
  <2>2. rows[s] = SumTo(nodes, f) /\ cols[s] = SumTo(nodes, g)
    OBVIOUS
  <2>3. Whole(f, nodes) /\ Whole(g, nodes) /\ \A t \in 1..nodes : e[t] = f[t] + g[t]
    BY <1>2, <1>4 DEF Whole
  <2>. HIDE DEF e, f, g, rows, cols, both
  <2>4. SumTo(nodes, e) = SumTo(nodes, f) + SumTo(nodes, g)
    BY <1>1, <2>3, SumAdd
  <2>5. SumTo(nodes, f) \in Int /\ SumTo(nodes, g) \in Int
    BY <1>1, <2>3, SumNext
  <2>. QED
    BY <2>1, <2>2, <2>4, <2>5
<1>6. SumTo(nodes, rows) = SumTo(nodes, cols)
  BY <1>1, <1>2, SumSwap
<1>. HIDE DEF rows, cols, both
<1>7. Whole(rows, nodes) /\ Whole(cols, nodes)
  BY <1>5 DEF Whole
<1>8. SumTo(nodes, both) = SumTo(nodes, rows) + SumTo(nodes, cols)
  BY <1>1, <1>5, <1>7, SumAdd
<1>9. SumTo(nodes, rows) \in Int
  BY <1>1, <1>7, SumNext
<1>10. C \in Int /\ SumTo(nodes, both) \in Int /\ SumTo(nodes, both) = 2 * C
  BY <1>2, <1>6, <1>8, <1>9
<1>11. SumTo(nodes, both) \div 2 = C
  BY <1>10, Exact
<1>. QED
  BY <1>3, <1>11 DEF C

\* Brandes' accumulation gives each node the share of the shortest walks between
\* the others that pass through it.
LEMMA BetweennessFound ==
  ASSUME MetricsTypeOK
  PROVE  BetweennessRight(Metrics(PathUnit(AllWalks)), AllWalks, PathUnit(AllWalks))
<1>. DEFINE U == PathUnit(AllWalks)
            m == Metrics(U)
<1>1. m.betweenness = IF TooLarge \/ nodes > BetweennessMax THEN <<>>
                      ELSE [v \in Ids |-> Betweenness(U, v)]
  BY DEF Metrics
<1>2. \A v \in Ids : Betweenness(U, v) = Centrality(AllWalks, U, v)
  BY BetweennessIs
<1>. HIDE DEF m, U
<1>3. ASSUME m.betweenness # <<>>, NEW v \in Ids
      PROVE  m.betweenness[v] = Centrality(AllWalks, U, v)
  <2>1. m.betweenness = [x \in Ids |-> Betweenness(U, x)]
    BY <1>1, <1>3
  <2>2. m.betweenness[v] = Betweenness(U, v)
    BY <2>1
  <2>. QED
    BY <1>2, <2>2
<1>4. BetweennessRight(m, AllWalks, U)
  BY <1>3 DEF BetweennessRight
<1>. QED
  BY <1>4 DEF m, U

-----------------------------------------------------------------------------
(***************************************************************************)
(* The theorems.                                                           *)
(***************************************************************************)
\* A graph grows within its bounds.
THEOREM MetricsTyped == MetricsSpec => []MetricsTypeOK
<1>1. InitMetrics => MetricsTypeOK
  BY MetricsAssumption DEF InitMetrics, MetricsTypeOK
<1>2. MetricsTypeOK /\ [NextMetrics]_metricVars => MetricsTypeOK'
  <2>. SUFFICES ASSUME MetricsTypeOK, [NextMetrics]_metricVars PROVE MetricsTypeOK'
    OBVIOUS
  <2>1. CASE AddNode
    BY <2>1, MetricsAssumption DEF AddNode, MetricsTypeOK
  <2>2. CASE \E r \in Relations : AddRelation(r)
    BY <2>2 DEF AddRelation, MetricsTypeOK
  <2>3. CASE UNCHANGED metricVars
    BY <2>3 DEF metricVars, MetricsTypeOK
  <2>. QED
    BY <2>1, <2>2, <2>3 DEF NextMetrics
<1>. QED
  BY <1>1, <1>2, PTL DEF MetricsSpec

\* Both scripts compute what they are for, on every graph: the components are the
\* classes of reachable nodes and sorted by size, PageRank keeps the mass, Brandes'
\* accumulation is the share of the shortest walks, the clustering coefficients are
\* shares of triangles, and the integrity check agrees with the metrics on the edges.
THEOREM MetricsCorrect == MetricsSpec => []MetricsRight
<1>1. MetricsTypeOK => MetricsRight
  <2>. SUFFICES ASSUME MetricsTypeOK PROVE MetricsRight
    OBVIOUS
  <2>. DEFINE U == PathUnit(AllWalks)
  <2>1. ComponentsRight(Metrics(U), AllWalks)
    BY ComponentsFound
  <2>2. BetweennessRight(Metrics(U), AllWalks, U)
    BY BetweennessFound
  <2>3. MassConserved(Metrics(U))
    BY MassKept
  <2>4. ClusteringRight(Metrics(U))
    BY ClusteringFound
  <2>5. ChecksAgree
    BY ChecksFound
  <2>. QED
    BY <2>1, <2>2, <2>3, <2>4, <2>5 DEF MetricsRight
<1>. QED
  BY <1>1, MetricsTyped, PTL
=============================================================================
