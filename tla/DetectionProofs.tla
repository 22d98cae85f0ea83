--------------------------- MODULE DetectionProofs --------------------------
(***************************************************************************)
(* What a chat is told of two exchanges' answers is true, whatever they    *)
(* answer: the invariants of TickPath for every value of its constants.    *)
(*                                                                         *)
(* The notional of a level is a sum down its side, and the deduplication a *)
(* fold over the list found, both recursive functions.  What is needed of  *)
(* them is by induction on the naturals, drawn here from the library's     *)
(* fact that their order is well founded.                                  *)
(***************************************************************************)
EXTENDS TickPath, SequenceTheorems, WellFoundedInduction, TLAPS

-----------------------------------------------------------------------------
\* Induction and recursion on the naturals.

LEMMA LeastNatural ==
  ASSUME NEW T \in SUBSET Nat, T # {}
  PROVE  \E x \in T : \A y \in T : x <= y
<1> DEFINE R == OpToRel(<, Nat)
<1>1. IsWellFoundedOn(R, Nat)
  BY NatLessThanWellFounded
<1>2. ASSUME NEW x \in Nat, NEW y \in Nat, y < x PROVE <<y, x>> \in R
  BY <1>2 DEF OpToRel
<1> HIDE DEF R
<1>3. \E x \in T : \A y \in T : <<y, x>> \notin R
  BY <1>1, WFMin
<1>4. \A x, y \in T : ~ (y < x) => x <= y
  OBVIOUS
<1>5. PICK x \in T : \A y \in T : <<y, x>> \notin R
  BY <1>3
<1>6. ASSUME NEW y \in T PROVE x <= y
  <2>1. ~ (y < x)
    BY ONLY <1>2, <1>5, x \in T, y \in T, T \in SUBSET Nat
  <2> QED
    BY <1>4, <2>1
<1> QED
  BY <1>6

LEMMA InductionOnNat ==
  ASSUME NEW S \in SUBSET Nat, 0 \in S, \A n \in S : n + 1 \in S
  PROVE  S = Nat
<1> DEFINE T == Nat \ S
<1> SUFFICES ASSUME T # {} PROVE FALSE
  OBVIOUS
<1>1. T \in SUBSET Nat
  OBVIOUS
<1>2. PICK x \in T : \A y \in T : x <= y
  <2> HIDE DEF T
  <2> QED
    BY <1>1, LeastNatural
<1>3. x # 0
  OBVIOUS
<1>4. x - 1 \in Nat /\ x - 1 \in S
  BY <1>2, <1>3
<1> QED
  BY <1>4

\* f accumulates from a: each step is a function of what was accumulated and of
\* the number of the step.
Accumulates(f, a, step) ==
  f[0] = a /\ \A k \in Nat : f[k + 1] = step[<<f[k], k + 1>>]

LEMMA RecursionOnNat ==
  ASSUME NEW A, NEW a \in A, NEW step \in [A \X Nat -> A]
  PROVE  \E f \in [Nat -> A] : Accumulates(f, a, step)
<1> DEFINE Upto(n, g) == /\ g \in [0 .. n -> A] /\ g[0] = a
                         /\ \A k \in 0 .. (n - 1) : g[k + 1] = step[<<g[k], k + 1>>]
           S == {n \in Nat : \E g \in [0 .. n -> A] : Upto(n, g)}
<1>1. S = Nat
  <2>1. 0 \in S
    <3>1. Upto(0, [k \in 0 .. 0 |-> a])
      OBVIOUS
    <3> QED
      BY <3>1
  <2>2. ASSUME NEW n \in S PROVE n + 1 \in S
    <3>1. PICK g \in [0 .. n -> A] : Upto(n, g)
      OBVIOUS
    <3> DEFINE h == [k \in 0 .. (n + 1) |-> IF k = n + 1 THEN step[<<g[n], n + 1>>] ELSE g[k]]
    <3>2. step[<<g[n], n + 1>>] \in A
      OBVIOUS
    <3>3. h \in [0 .. (n + 1) -> A] /\ h[0] = a
      BY <3>1, <3>2
    <3>4. ASSUME NEW k \in 0 .. n PROVE h[k + 1] = step[<<h[k], k + 1>>]
      <4>1. CASE k = n
        <5>1. h[k + 1] = step[<<g[n], n + 1>>] /\ h[k] = g[k]
          BY <4>1
        <5> QED
          BY <4>1, <5>1
      <4>2. CASE k # n
        <5>1. k \in 0 .. (n - 1) /\ k + 1 \in 0 .. (n + 1) /\ k + 1 # n + 1
          BY <4>2
        <5>2. h[k + 1] = g[k + 1] /\ h[k] = g[k]
          BY <5>1
        <5> QED
          BY <3>1, <5>1, <5>2
      <4> QED
        BY <4>1, <4>2
    <3> HIDE DEF h
    <3>5. Upto(n + 1, h)
      BY <3>3, <3>4
    <3> QED
      BY <3>3, <3>5
  <2> HIDE DEF S
  <2>3. S \in SUBSET Nat
    BY DEF S
  <2> QED
    BY <2>1, <2>2, <2>3, InductionOnNat
<1> DEFINE G == [n \in Nat |-> CHOOSE g \in [0 .. n -> A] : Upto(n, g)]
<1>2. ASSUME NEW n \in Nat PROVE G[n] \in [0 .. n -> A] /\ Upto(n, G[n])
  <2>1. \E g \in [0 .. n -> A] : Upto(n, g)
    BY <1>1
  <2> HIDE DEF Upto
  <2> QED
    BY <2>1
<1> HIDE DEF G
<1>3. ASSUME NEW n \in Nat, NEW m \in Nat, n <= m
      PROVE  \A k \in 0 .. n : G[n][k] = G[m][k]
  <2> DEFINE T == {k \in Nat : k <= n => G[n][k] = G[m][k]}
  <2>1. 0 \in T
    BY <1>2
  <2>2. ASSUME NEW k \in T PROVE k + 1 \in T
    <3> SUFFICES ASSUME k + 1 <= n PROVE G[n][k + 1] = G[m][k + 1]
      OBVIOUS
    <3>1. G[n][k] = G[m][k] /\ k \in 0 .. (n - 1) /\ k \in 0 .. (m - 1)
      BY <1>3
    <3> QED
      BY <1>2, <3>1
  <2> HIDE DEF T
  <2>3. T = Nat
    <3>1. T \in SUBSET Nat
      BY DEF T
    <3> QED
      BY <2>1, <2>2, <3>1, InductionOnNat
  <2> QED
    BY <2>3 DEF T
<1> DEFINE f == [n \in Nat |-> G[n][n]]
<1>4. f \in [Nat -> A] /\ f[0] = a
  BY <1>2
<1>5. ASSUME NEW k \in Nat PROVE f[k + 1] = step[<<f[k], k + 1>>]
  <2>1. G[k + 1][k + 1] = step[<<G[k + 1][k], k + 1>>]
    <3>1. k \in 0 .. ((k + 1) - 1) /\ k + 1 \in Nat
      OBVIOUS
    <3> QED
      BY <1>2, <3>1
  <2>2. G[k + 1][k] = G[k][k]
    BY <1>3
  <2> QED
    BY <2>1, <2>2
<1> HIDE DEF f
<1> QED
  BY <1>4, <1>5 DEF Accumulates

-----------------------------------------------------------------------------
\* Sums of volumes.

\* One function gives the totals of all the prefixes.
LEMMA TotalsOfPrefixes ==
  ASSUME NEW m \in Nat, NEW v \in [1 .. m -> Nat]
  PROVE  \E f \in [Nat -> Nat] :
           /\ f[0] = 0
           /\ \A k \in 1 .. m : f[k] = f[k - 1] + v[k]
           /\ \A n \in 0 .. m : Total(v, n) = f[n]
<1> DEFINE step == [x \in Nat \X Nat |-> IF x[2] \in 1 .. m THEN x[1] + v[x[2]] ELSE 0]
<1>1. step \in [Nat \X Nat -> Nat]
  OBVIOUS
<1>2. PICK f \in [Nat -> Nat] :
        f[0] = 0 /\ \A k \in Nat : f[k + 1] = step[<<f[k], k + 1>>]
  <2> HIDE DEF step
  <2> DEFINE A == Nat
             zero == 0
  <2>1. zero \in A /\ step \in [A \X Nat -> A]
    BY <1>1
  <2> HIDE DEF A, zero
  <2>2. \E f \in [Nat -> A] : Accumulates(f, zero, step)
    BY <2>1, RecursionOnNat
  <2> QED
    BY <2>2 DEF A, zero, Accumulates
<1>3. ASSUME NEW k \in 1 .. m PROVE f[k] = f[k - 1] + v[k]
  <2>1. k - 1 \in Nat /\ (k - 1) + 1 = k
    OBVIOUS
  <2>2. f[k] = step[<<f[k - 1], k>>]
    <3>1. f[(k - 1) + 1] = step[<<f[k - 1], (k - 1) + 1>>]
      BY <1>2, <2>1
    <3> QED
      BY <2>1, <3>1
  <2>3. f[k - 1] \in Nat /\ k \in Nat
    BY <2>1
  <2> QED
    BY <2>2, <2>3
<1>4. ASSUME NEW n \in 0 .. m PROVE Total(v, n) = f[n]
  <2> DEFINE Sums(g) == g = [k \in 0 .. n |-> IF k = 0 THEN 0 ELSE g[k - 1] + v[k]]
             sum == CHOOSE g : Sums(g)
  <2>1. Sums([k \in 0 .. n |-> f[k]])
    <3> DEFINE g == [k \in 0 .. n |-> f[k]]
               h == [k \in 0 .. n |-> IF k = 0 THEN 0 ELSE g[k - 1] + v[k]]
    <3>1. ASSUME NEW k \in 0 .. n PROVE g[k] = h[k]
      <4>1. CASE k = 0
        BY <1>2, <4>1
      <4>2. CASE k # 0
        BY <1>3, <4>2
      <4> QED
        BY <4>1, <4>2
    <3>2. g = h
      BY <3>1
    <3> QED
      BY <3>2
  <2>2. Sums(sum)
    <3> HIDE DEF Sums
    <3> QED
      BY <2>1
  <2>3. Total(v, n) = sum[n]
    BY DEF Total
  <2> HIDE DEF sum
  <2>4. sum[0] = 0 /\ \A k \in 1 .. n : sum[k] = sum[k - 1] + v[k]
    <3> DEFINE h == [k \in 0 .. n |-> IF k = 0 THEN 0 ELSE sum[k - 1] + v[k]]
    <3>1. h[0] = 0 /\ \A k \in 1 .. n : h[k] = sum[k - 1] + v[k]
      OBVIOUS
    <3>2. sum = h
      BY <2>2
    <3> HIDE DEF h
    <3> QED
      BY <3>1, <3>2
  <2> DEFINE S == {k \in Nat : k <= n => sum[k] = f[k]}
  <2>5. S = Nat
    <3>1. 0 \in S
      BY <1>2, <2>4
    <3>2. ASSUME NEW k \in S PROVE k + 1 \in S
      <4> SUFFICES ASSUME k + 1 <= n PROVE sum[k + 1] = f[k + 1]
        OBVIOUS
      <4>1. k + 1 \in 1 .. n /\ (k + 1) - 1 = k
        OBVIOUS
      <4>2. sum[k + 1] = sum[k] + v[k + 1]
        <5>1. sum[k + 1] = sum[(k + 1) - 1] + v[k + 1]
          BY <2>4, <4>1
        <5> QED
          BY <4>1, <5>1
      <4>4. sum[k] = f[k]
        OBVIOUS
      <4>3. f[k + 1] = f[k] + v[k + 1]
        <5>1. k + 1 \in 1 .. m
          BY <4>1
        <5>2. f[k + 1] = f[(k + 1) - 1] + v[k + 1]
          BY <1>3, <5>1
        <5> QED
          BY <4>1, <5>2
      <4> QED
        BY <4>2, <4>3, <4>4
    <3>3. S \in SUBSET Nat
      OBVIOUS
    <3> HIDE DEF S
    <3> QED
      BY <3>1, <3>2, <3>3, InductionOnNat
  <2>6. sum[n] = f[n]
    <3>1. n \in S
      <4> HIDE DEF S
      <4> QED
        BY <2>5
    <3> QED
      BY <3>1
  <2> QED
    BY <2>3, <2>6
<1> QED
  BY <1>2, <1>3, <1>4

LEMMA TotalUnfolds ==
  ASSUME NEW m \in Nat, NEW v \in [1 .. m -> Nat]
  PROVE  /\ \A n \in 0 .. m : Total(v, n) \in Nat
         /\ Total(v, 0) = 0
         /\ \A n \in 1 .. m : Total(v, n) = Total(v, n - 1) + v[n]
<1>1. PICK f \in [Nat -> Nat] :
        /\ f[0] = 0
        /\ \A k \in 1 .. m : f[k] = f[k - 1] + v[k]
        /\ \A n \in 0 .. m : Total(v, n) = f[n]
  BY TotalsOfPrefixes
<1>2. \A n \in 1 .. m : n \in 0 .. m /\ n - 1 \in 0 .. m
  OBVIOUS
<1> QED
  BY <1>1, <1>2

\* A total is at least its last term, and a longer one of greater terms greater.
LEMMA TotalHoldsItsTerms ==
  ASSUME NEW m \in Nat, NEW v \in [1 .. m -> Nat], NEW n \in 1 .. m
  PROVE  v[n] <= Total(v, n)
<1>1. \A k \in 0 .. m : Total(v, k) \in Nat
  BY TotalUnfolds
<1>2. \A k \in 1 .. m : Total(v, k) = Total(v, k - 1) + v[k]
  BY TotalUnfolds
<1>3. n - 1 \in 0 .. m
  OBVIOUS
<1> QED
  BY <1>1, <1>2, <1>3

LEMMA TotalGrows ==
  ASSUME NEW m \in Nat, NEW v \in [1 .. m -> Nat], NEW w \in [1 .. m -> Nat],
         NEW n \in 0 .. m, \A i \in 1 .. n : v[i] <= w[i]
  PROVE  Total(v, n) <= Total(w, m)
<1>1. /\ \A k \in 0 .. m : Total(v, k) \in Nat /\ Total(w, k) \in Nat
      /\ Total(v, 0) = 0 /\ Total(w, 0) = 0
      /\ \A k \in 1 .. m : /\ Total(v, k) = Total(v, k - 1) + v[k]
                          /\ Total(w, k) = Total(w, k - 1) + w[k]
  BY TotalUnfolds
<1>2. Total(v, n) <= Total(w, n)
  <2> DEFINE S == {k \in Nat : k <= n => Total(v, k) <= Total(w, k)}
  <2>1. 0 \in S
    BY <1>1
  <2>2. ASSUME NEW k \in S PROVE k + 1 \in S
    <3> SUFFICES ASSUME k + 1 <= n PROVE Total(v, k + 1) <= Total(w, k + 1)
      OBVIOUS
    <3>1. k + 1 \in 1 .. n /\ k + 1 \in 1 .. m /\ (k + 1) - 1 = k /\ k \in 0 .. m
      OBVIOUS
    <3>2. /\ Total(v, k + 1) = Total(v, k) + v[k + 1]
          /\ Total(w, k + 1) = Total(w, k) + w[k + 1]
          /\ v[k + 1] <= w[k + 1] /\ Total(v, k) <= Total(w, k)
      BY <1>1, <3>1
    <3> QED
      BY <1>1, <3>1, <3>2
  <2>3. S \in SUBSET Nat
    OBVIOUS
  <2>4. S = Nat
    <3> HIDE DEF S
    <3> QED
      BY <2>1, <2>2, <2>3, InductionOnNat
  <2> QED
    BY <2>4
<1>3. Total(w, n) <= Total(w, m)
  <2> DEFINE S == {k \in Nat : n + k <= m => Total(w, n) <= Total(w, n + k)}
  <2>1. 0 \in S
    BY <1>1
  <2>2. ASSUME NEW k \in S PROVE k + 1 \in S
    <3> SUFFICES ASSUME n + (k + 1) <= m PROVE Total(w, n) <= Total(w, n + (k + 1))
      OBVIOUS
    <3> DEFINE j == n + (k + 1)
    <3>1. j \in 1 .. m /\ j - 1 = n + k /\ j \in 0 .. m /\ n + k \in 0 .. m
      OBVIOUS
    <3>2. /\ Total(w, j) = Total(w, n + k) + w[j]
          /\ Total(w, n) <= Total(w, n + k) /\ w[j] \in Nat
      <4>1. Total(w, j) = Total(w, j - 1) + w[j] /\ w[j] \in Nat
        BY <1>1, <3>1
      <4>2. Total(w, n) <= Total(w, n + k)
        BY <3>1
      <4> QED
        BY <3>1, <4>1, <4>2
    <3> HIDE DEF j
    <3>3. Total(w, n) <= Total(w, j)
      BY <1>1, <3>1, <3>2
    <3> QED
      BY <3>3 DEF j
  <2>3. S \in SUBSET Nat
    OBVIOUS
  <2>4. S = Nat
    <3> HIDE DEF S
    <3> QED
      BY <2>1, <2>2, <2>3, InductionOnNat
  <2>5. m - n \in S /\ n + (m - n) = m
    <3> HIDE DEF S
    <3> QED
      BY <2>4
  <2> QED
    BY <2>5
<1> QED
  BY <1>1, <1>2, <1>3

-----------------------------------------------------------------------------
\* Rounding.

LEMMA Quotient ==
  ASSUME NEW n \in Int, NEW d \in Nat \ {0}
  PROVE  n \div d \in Int /\ d * (n \div d) <= n /\ n < d * (n \div d) + d
OBVIOUS

LEMMA RoundDivBounds ==
  ASSUME NEW n \in Int, NEW d \in Nat \ {0}
  PROVE  /\ RoundDiv(n, d) \in Int
         /\ 2 * (d * RoundDiv(n, d)) <= 2 * n + d
         /\ 2 * n - d <= 2 * (d * RoundDiv(n, d))
<1> DEFINE up == (2 * n + d) \div (2 * d)
           down == (2 * (-n) + d) \div (2 * d)
<1>1. 2 * d \in Nat \ {0} /\ 2 * n + d \in Int /\ 2 * (-n) + d \in Int
  OBVIOUS
<1>2. up \in Int /\ (2 * d) * up <= 2 * n + d /\ 2 * n + d < (2 * d) * up + 2 * d
  BY <1>1, Quotient
<1>3. /\ down \in Int /\ (2 * d) * down <= 2 * (-n) + d
      /\ 2 * (-n) + d < (2 * d) * down + 2 * d
  BY <1>1, Quotient
<1>4. RoundDiv(n, d) = IF n >= 0 THEN up ELSE -down
  BY DEF RoundDiv
<1> HIDE DEF up, down
<1>5. (2 * d) * up = 2 * (d * up) /\ (2 * d) * down = 2 * (d * down) /\ d * (-down) = -(d * down)
  BY <1>2, <1>3
<1>6. d * up \in Int /\ d * down \in Int
  BY <1>2, <1>3
<1>7. CASE n >= 0
  BY <1>2, <1>4, <1>5, <1>6, <1>7
<1>8. CASE ~ (n >= 0)
  BY <1>3, <1>4, <1>5, <1>6, <1>8
<1> QED
  BY <1>7, <1>8

LEMMA TimesKeepsOrder ==
  ASSUME NEW x \in Int, NEW y \in Int, x <= y, NEW c \in Nat
  PROVE  c * x <= c * y
<1>1. y - x \in Nat /\ c * (y - x) \in Nat
  OBVIOUS
<1>2. c * (y - x) = c * y - c * x
  OBVIOUS
<1> QED
  BY <1>1, <1>2

LEMMA TimesReflectsOrder ==
  ASSUME NEW x \in Int, NEW y \in Int, NEW c \in Nat \ {0}, c * x <= c * y
  PROVE  x <= y
<1> SUFFICES ASSUME y < x PROVE FALSE
  OBVIOUS
<1>1. y + 1 <= x /\ y + 1 \in Int
  OBVIOUS
<1>2. c * (y + 1) <= c * x
  BY <1>1, TimesKeepsOrder
<1>3. c * (y + 1) = c * y + c /\ c * y \in Int /\ c * x \in Int
  OBVIOUS
<1> QED
  BY <1>2, <1>3

\* A better price stays better, or equal, when rounded.
LEMMA RoundingKeepsOrder ==
  ASSUME NEW p \in Nat, NEW q \in Nat, p <= q
  PROVE  round2(p) <= round2(q)
<1> DEFINE d == 2 * Sub
           x == (2 * p + Sub) \div d
           y == (2 * q + Sub) \div d
<1>1. Sub \in Nat \ {0} /\ d \in Nat \ {0}
  BY PriceUnitsAssumption
<1>2. round2(p) = x /\ round2(q) = y
  BY DEF round2, RoundDiv
<1>3. /\ x \in Int /\ d * x <= 2 * p + Sub
      /\ y \in Int /\ 2 * q + Sub < d * y + d
  <2>1. 2 * p + Sub \in Int /\ 2 * q + Sub \in Int
    BY <1>1
  <2> HIDE DEF d
  <2> QED
    BY <1>1, <2>1, Quotient
<1> HIDE DEF d, x, y
<1>4. d * (y + 1) = d * y + d /\ d * y \in Int /\ d * x \in Int /\ d * (y + 1) \in Int
  BY <1>1, <1>3
<1>5. d * x < d * (y + 1)
  BY <1>1, <1>3, <1>4
<1>6. ~ (y + 1 <= x)
  <2> SUFFICES ASSUME y + 1 <= x PROVE FALSE
    OBVIOUS
  <2>1. d * (y + 1) <= d * x
    BY <1>1, <1>3, TimesKeepsOrder
  <2> QED
    BY <1>4, <1>5, <2>1
<1> QED
  BY <1>2, <1>3, <1>6

LEMMA RoundedPrice ==
  ASSUME NEW p \in Nat
  PROVE  /\ round2(p) \in Int
         /\ 2 * (Sub * round2(p)) <= 2 * p + Sub
         /\ 2 * p - Sub <= 2 * (Sub * round2(p))
BY PriceUnitsAssumption, RoundDivBounds DEF round2

\* Fees at least nought: what is left of the spread after them, in the units
\* the quotient is taken in, is at most the spread.
LEMMA FeesAreCosts ==
  ASSUME NEW a \in Nat, NEW b \in Nat, NEW d \in Nat,
         NEW e \in Nat, NEW g \in Nat, d <= e, d <= g
  PROVE  a * d * d - b * e * g <= (d * e) * (a - b)
<1>1. (a * d) * d <= (a * d) * e
  BY TimesKeepsOrder, a * d \in Nat
<1>2. (b * e) * d <= (b * e) * g
  BY TimesKeepsOrder, b * e \in Nat
<1>3. (d * e) * (a - b) = (a * d) * e - (b * e) * d
  OBVIOUS
<1> QED
  BY <1>1, <1>2, <1>3, a * d * d \in Int, b * e * g \in Int,
     (a * d) * e \in Int, (b * e) * d \in Int

LEMMA ProfitIsBounded ==
  ASSUME NEW a \in Nat, NEW b \in Nat, NEW fa \in Nat, NEW fb \in Nat
  PROVE  /\ Profit(a, b, fa, fb) \in Int
         /\ Profit(a, b, fa, fb) <= round2(a) - round2(b) + 1
<1> DEFINE e == FeeDen + fa
           g == FeeDen + fb
           n == a * FeeDen * FeeDen - b * e * g
           k == FeeDen * e
           profit == Profit(a, b, fa, fb)
<1>1. /\ Sub \in Nat \ {0} /\ FeeDen \in Nat \ {0}
      /\ e \in Nat \ {0} /\ g \in Nat /\ FeeDen <= e /\ FeeDen <= g
  BY PriceUnitsAssumption
<1>2. n \in Int /\ k \in Nat \ {0} /\ Sub * FeeDen * e \in Nat \ {0}
      /\ Sub * FeeDen * e = k * Sub
  <2> HIDE DEF e, g
  <2> QED
    BY <1>1
<1>3. n <= k * (a - b)
  <2> HIDE DEF e, g
  <2> QED
    BY <1>1, FeesAreCosts
<1>4. /\ profit \in Int
      /\ 2 * ((k * Sub) * profit) <= 2 * n + k * Sub
  <2>1. profit = RoundDiv(n, Sub * FeeDen * e)
    BY DEF Profit
  <2> HIDE DEF e, g, n, k, profit
  <2> QED
    BY <1>2, <2>1, RoundDivBounds
<1> HIDE DEF e, g, n, k, profit
<1>5. 2 * (Sub * profit) <= 2 * (a - b) + Sub
  <2> DEFINE left == 2 * (Sub * profit)
             right == 2 * (a - b) + Sub
  <2>1. left \in Int /\ right \in Int
    BY <1>1, <1>4
  <2>2. 2 * ((k * Sub) * profit) = k * left
    BY <1>1, <1>2, <1>4
  <2>3. 2 * (k * (a - b)) + k * Sub = k * right
    BY <1>1, <1>2
  <2>4. k * left <= k * right
    <3>1. k * (a - b) \in Int /\ k * Sub \in Int /\ 2 * ((k * Sub) * profit) \in Int
      BY <1>1, <1>2, <1>4
    <3> HIDE DEF left, right
    <3> QED
      BY <1>2, <1>3, <1>4, <2>2, <2>3, <3>1
  <2> HIDE DEF left, right
  <2>5. left <= right
    BY <1>2, <2>1, <2>4, TimesReflectsOrder
  <2> QED
    BY <2>5 DEF left, right
<1>6. /\ round2(a) \in Int /\ 2 * a - Sub <= 2 * (Sub * round2(a))
      /\ round2(b) \in Int /\ 2 * (Sub * round2(b)) <= 2 * b + Sub
  BY RoundedPrice
<1>7. profit <= round2(a) - round2(b) + 1
  <2> DEFINE spread == round2(a) - round2(b)
  <2>1. Sub * spread = Sub * round2(a) - Sub * round2(b) /\ spread \in Int
    BY <1>1, <1>6
  <2>2. 2 * (Sub * profit) <= 2 * (Sub * spread) + 3 * Sub
    <3>1. Sub * round2(a) \in Int /\ Sub * round2(b) \in Int /\ Sub * profit \in Int
      BY <1>1, <1>4, <1>6
    <3> QED
      BY <1>1, <1>5, <1>6, <2>1, <3>1
  <2> HIDE DEF spread
  <2>3. Sub * (2 * profit) <= Sub * (2 * spread + 3)
    BY <1>1, <1>4, <2>1, <2>2
  <2>4. 2 * profit <= 2 * spread + 3
    BY <1>1, <1>4, <2>1, <2>3, TimesReflectsOrder
  <2>5. profit <= spread + 1
    BY <1>4, <2>1, <2>4
  <2> QED
    BY <2>5 DEF spread
<1> QED
  BY <1>4, <1>7 DEF profit

-----------------------------------------------------------------------------
\* The books the gateways store.

\* A side of a book: no level is empty, and each one's notional is what the side
\* has down to it.
Amounts(os) == [i \in DOMAIN os |-> os[i].amount]

GoodSide(os) ==
  /\ os \in Seq(Level) /\ os # <<>>
  /\ \A i \in DOMAIN os : os[i].amount > 0 /\ os[i].notional = Total(Amounts(os), i)

GoodAsks(os) == GoodSide(os) /\ \A i, j \in DOMAIN os : i < j => os[i].price <= os[j].price
GoodBids(os) == GoodSide(os) /\ \A i, j \in DOMAIN os : i < j => os[i].price >= os[j].price

GoodBook(book) ==
  /\ book = [asks |-> book.asks, bids |-> book.bids]
  /\ GoodAsks(book.asks) /\ GoodBids(book.bids)

OptionalBook(book) == book = <<>> \/ (book = <<book[1]>> /\ GoodBook(book[1]))

LEMMA SideOfRaw ==
  ASSUME NEW raw \in Seq(Raw(Nat, Positive)), raw # <<>>
  PROVE  /\ GoodSide(Orders(raw)) /\ DOMAIN Orders(raw) = DOMAIN raw
         /\ \A i \in DOMAIN raw : Orders(raw)[i].price = raw[i].price
<1> DEFINE os == Orders(raw)
           volumes == [k \in DOMAIN raw |-> raw[k].volume]
<1>1. Len(raw) \in Nat \ {0} /\ DOMAIN raw = 1 .. Len(raw)
  BY EmptySeq, LenProperties
<1>2. ASSUME NEW i \in DOMAIN raw
      PROVE  raw[i].price \in Nat /\ raw[i].volume \in Nat /\ raw[i].volume > 0
  <2>1. raw[i] \in Raw(Nat, Positive)
    BY <1>1, ElementOfSeq
  <2> QED
    BY <2>1 DEF Raw, Positive
<1>3. volumes \in [1 .. Len(raw) -> Nat]
  BY <1>1, <1>2
<1>4. DOMAIN os = 1 .. Len(raw)
  BY <1>1 DEF Orders
<1>5. ASSUME NEW i \in 1 .. Len(raw)
      PROVE  os[i] = [price |-> raw[i].price, amount |-> raw[i].volume,
                      notional |-> Total(volumes, i)]
  BY <1>1 DEF Orders, CumulatedVolume
<1>11. ASSUME NEW i \in 1 .. Len(raw)
      PROVE  /\ os[i].price = raw[i].price /\ os[i].amount = raw[i].volume
             /\ os[i].notional = Total(volumes, i)
  <2> DEFINE p == raw[i].price
             a == raw[i].volume
             n == Total(volumes, i)
  <2>1. os[i] = [price |-> p, amount |-> a, notional |-> n]
    BY <1>5
  <2> HIDE DEF p, a, n
  <2>2. os[i].price = p /\ os[i].amount = a /\ os[i].notional = n
    BY <2>1
  <2> QED
    BY <2>2 DEF p, a, n
<1> HIDE DEF os
<1>6. ASSUME NEW i \in 1 .. Len(raw) PROVE Total(volumes, i) \in Nat
  <2> HIDE DEF volumes
  <2>1. i \in 0 .. Len(raw)
    BY <1>1
  <2> QED
    BY <1>1, <1>3, <2>1, TotalUnfolds
<1>7. Amounts(os) = volumes
  <2>1. \A i \in 1 .. Len(raw) : os[i].amount = volumes[i]
    BY <1>1, <1>11
  <2>2. Amounts(os) = [i \in 1 .. Len(raw) |-> os[i].amount]
    BY <1>4 DEF Amounts
  <2> HIDE DEF volumes
  <2> QED
    BY <1>3, <2>1, <2>2
<1> HIDE DEF volumes
<1>8. ASSUME NEW i \in 1 .. Len(raw) PROVE os[i] \in Level
  <2>1. raw[i].price \in Nat /\ raw[i].volume \in Nat /\ Total(volumes, i) \in Nat
    BY <1>1, <1>2, <1>6
  <2> DEFINE p == raw[i].price
             a == raw[i].volume
             n == Total(volumes, i)
  <2>2. os[i] = [price |-> p, amount |-> a, notional |-> n]
    BY <1>5
  <2>3. p \in Nat /\ a \in Nat /\ n \in Nat
    BY <2>1
  <2> HIDE DEF p, a, n
  <2> QED
    BY <2>2, <2>3 DEF Level
<1>9. os \in Seq(Level) /\ Len(os) = Len(raw)
  <2>1. os = [i \in 1 .. Len(raw) |-> os[i]]
    <3>1. os = [i \in DOMAIN raw |-> os[i]]
      BY DEF os, Orders
    <3> QED
      BY <1>1, <3>1
  <2>2. \E n \in Nat : os \in [1 .. n -> Level]
    BY <1>1, <1>8, <2>1
  <2> QED
    BY <1>1, <1>4, <2>2, SeqDef, LenProperties
<1>10. os # <<>>
  BY <1>1, <1>9, EmptySeq
<1> QED
  BY <1>1, <1>2, <1>4, <1>11, <1>7, <1>9, <1>10 DEF GoodSide, os

LEMMA AsksOfRaw ==
  ASSUME NEW raw \in Seq(Raw(Nat, Positive)), raw # <<>>, BestFirstAsks(raw)
  PROVE  GoodAsks(Orders(raw))
<1>1. ASSUME NEW i \in DOMAIN raw PROVE raw[i].price \in Nat /\ raw[i].price # Bad
  <2>1. raw[i] \in Raw(Nat, Positive)
    BY ElementOfSeq, LenProperties
  <2> QED
    BY <2>1, AnswersAssumption DEF Raw
<1> QED
  BY <1>1, SideOfRaw DEF GoodAsks, BestFirstAsks

LEMMA BidsOfRaw ==
  ASSUME NEW raw \in Seq(Raw(Nat, Positive)), raw # <<>>, BestFirstBids(raw)
  PROVE  GoodBids(Orders(raw))
<1>1. ASSUME NEW i \in DOMAIN raw PROVE raw[i].price \in Nat /\ raw[i].price # Bad
  <2>1. raw[i] \in Raw(Nat, Positive)
    BY ElementOfSeq, LenProperties
  <2> QED
    BY <2>1, AnswersAssumption DEF Raw
<1> QED
  BY <1>1, SideOfRaw DEF GoodBids, BestFirstBids

\* The levels kept of a Grinex side, if they all parse.
LEMMA TopOfRaw ==
  ASSUME NEW raw \in Seq(Raw(Nat \cup {Bad}, Positive \cup {Bad})), raw # <<>>,
         Parses(Top(raw))
  PROVE  /\ Top(raw) \in Seq(Raw(Nat, Positive)) /\ Top(raw) # <<>>
         /\ \A i \in DOMAIN Top(raw) : i \in DOMAIN raw /\ Top(raw)[i] = raw[i]
<1> DEFINE n == IF Len(raw) > GrinexDepth THEN GrinexDepth ELSE Len(raw)
           top == Top(raw)
<1>1. /\ Len(raw) \in Nat \ {0} /\ n \in 1 .. Len(raw) /\ DOMAIN raw = 1 .. Len(raw)
  BY MapperAssumption, EmptySeq, LenProperties
<1>2. top = [i \in 1 .. n |-> raw[i]]
  <2>1. top = SubSeq(raw, 1, n)
    BY DEF Top
  <2>2. SubSeq(raw, 1, n) = [i \in 1 .. (1 + n - 1) |-> raw[i + 1 - 1]]
    <3> HIDE DEF n
    <3> QED
      BY <1>1
  <2> HIDE DEF n, top
  <2>3. \A i \in 1 .. n : raw[i + 1 - 1] = raw[i]
    BY <1>1
  <2>4. 1 + n - 1 = n
    BY <1>1
  <2> QED
    BY <2>1, <2>2, <2>3, <2>4
<1> HIDE DEF n, top
<1>3. ASSUME NEW i \in 1 .. n PROVE i \in 1 .. Len(raw) /\ top[i] = raw[i] /\ top[i] \in Raw(Nat, Positive)
  <2>1. i \in 1 .. Len(raw) /\ top[i] = raw[i]
    BY <1>1, <1>2
  <2>2. raw[i] \in Raw(Nat \cup {Bad}, Positive \cup {Bad})
    BY <2>1, ElementOfSeq
  <2>3. raw[i].price # Bad /\ raw[i].volume # Bad
    <3>1. DOMAIN top = 1 .. n
      BY <1>2
    <3>2. Parses(top)
      BY DEF top
    <3> QED
      BY <2>1, <3>1, <3>2 DEF Parses
  <2> QED
    BY <2>1, <2>2, <2>3 DEF Raw
<1>4. top \in Seq(Raw(Nat, Positive)) /\ Len(top) = n
  <2>1. top \in [1 .. n -> Raw(Nat, Positive)]
    BY <1>2, <1>3
  <2> QED
    BY <1>1, <2>1, SeqDef, LenProperties
<1>5. top # <<>>
  BY <1>1, <1>4, EmptySeq
<1> QED
  BY <1>1, <1>2, <1>3, <1>4, <1>5 DEF top

LEMMA RapiraBookIsGood ==
  ASSUME NEW asks \in RapiraAsks, NEW bids \in RapiraBids
  PROVE  OptionalBook(RapiraMapper(asks, bids))
<1>1. /\ asks \in Seq(Raw(Nat, Positive)) /\ BestFirstAsks(asks)
      /\ bids \in Seq(Raw(Nat, Positive)) /\ BestFirstBids(bids)
  BY AnswersAssumption
<1>2. CASE asks = <<>> \/ bids = <<>>
  BY <1>2 DEF RapiraMapper, OptionalBook
<1>3. CASE asks # <<>> /\ bids # <<>>
  <2>1. GoodAsks(Orders(asks)) /\ GoodBids(Orders(bids))
    BY <1>1, <1>3, AsksOfRaw, BidsOfRaw
  <2>2. RapiraMapper(asks, bids) = <<[asks |-> Orders(asks), bids |-> Orders(bids)]>>
    BY <1>3 DEF RapiraMapper
  <2> QED
    BY <2>1, <2>2 DEF OptionalBook, GoodBook
<1> QED
  BY <1>2, <1>3

LEMMA GrinexBookIsGood ==
  ASSUME NEW asks \in GrinexAsks, NEW bids \in GrinexBids
  PROVE  OptionalBook(GrinexMapper(asks, bids))
<1> DEFINE Sides == Seq(Raw(Nat \cup {Bad}, Positive \cup {Bad}))
<1>1. /\ asks \in Sides /\ BestFirstAsks(asks)
      /\ bids \in Sides /\ BestFirstBids(bids)
  BY AnswersAssumption
<1>2. CASE GrinexMapper(asks, bids) = <<>>
  BY <1>2 DEF OptionalBook
<1>3. CASE GrinexMapper(asks, bids) # <<>>
  <2>1. /\ asks # <<>> /\ Parses(Top(asks)) /\ bids # <<>> /\ Parses(Top(bids))
        /\ GrinexMapper(asks, bids)
             = <<[asks |-> Orders(Top(asks)), bids |-> Orders(Top(bids))]>>
    BY <1>3 DEF GrinexMapper
  <2>2. /\ Top(asks) \in Seq(Raw(Nat, Positive)) /\ Top(asks) # <<>>
        /\ BestFirstAsks(Top(asks))
    BY <1>1, <2>1, TopOfRaw DEF BestFirstAsks
  <2>3. /\ Top(bids) \in Seq(Raw(Nat, Positive)) /\ Top(bids) # <<>>
        /\ BestFirstBids(Top(bids))
    BY <1>1, <2>1, TopOfRaw DEF BestFirstBids
  <2>4. GoodAsks(Orders(Top(asks))) /\ GoodBids(Orders(Top(bids)))
    BY <2>2, <2>3, AsksOfRaw, BidsOfRaw
  <2> QED
    BY <2>1, <2>4 DEF OptionalBook, GoodBook
<1> QED
  BY <1>2, <1>3

-----------------------------------------------------------------------------
\* What the detectors find in two good books.

LEMMA GoodLevel ==
  ASSUME NEW os, GoodSide(os)
  PROVE  /\ Len(os) \in Nat \ {0} /\ DOMAIN os = 1 .. Len(os)
         /\ Amounts(os) \in [1 .. Len(os) -> Nat]
         /\ \A i \in DOMAIN os :
              /\ os[i].price \in Nat
              /\ os[i].amount \in Positive /\ os[i].notional \in Positive
              /\ os[i].amount <= os[i].notional
<1>1. /\ os \in Seq(Level) /\ os # <<>>
      /\ \A i \in DOMAIN os : os[i].amount > 0 /\ os[i].notional = Total(Amounts(os), i)
  BY DEF GoodSide
<1>2. Len(os) \in Nat \ {0} /\ DOMAIN os = 1 .. Len(os)
  BY <1>1, EmptySeq, LenProperties
<1>3. ASSUME NEW i \in DOMAIN os
      PROVE  os[i].price \in Nat /\ os[i].amount \in Nat /\ os[i].notional \in Nat
  <2>1. os[i] \in Level
    BY <1>1, <1>2, ElementOfSeq
  <2> QED
    BY <2>1 DEF Level
<1>4. Amounts(os) \in [1 .. Len(os) -> Nat]
  BY <1>2, <1>3 DEF Amounts
<1>5. ASSUME NEW i \in DOMAIN os PROVE os[i].amount <= os[i].notional
  <2>1. Amounts(os)[i] <= Total(Amounts(os), i)
    BY <1>2, <1>4, TotalHoldsItsTerms
  <2> QED
    BY <1>1, <2>1 DEF Amounts
<1> QED
  BY <1>1, <1>2, <1>3, <1>4, <1>5 DEF Positive

PairBetween(s, b) == resolveOpportunityPair(PairOf[b], PairOf[s])

\* An opportunity made of one ask and one bid, of no more than they hold between
\* them and the top of their sides.
Sound(o, type, s, b, asks, bids) ==
  \E i \in DOMAIN asks, j \in DOMAIN bids, amount \in Positive :
    /\ o = Candidate(type, PairBetween(s, b), asks[i], bids[j], s, b, amount)
    /\ amount <= asks[i].notional /\ amount <= bids[j].notional

AtMostOne(found, type, s, b, asks, bids) ==
  found = <<>> \/ (found = <<found[1]>> /\ Sound(found[1], type, s, b, asks, bids))

LEMMA SmallerIsSmaller ==
  ASSUME NEW x \in Positive, NEW y \in Positive
  PROVE  Smaller(x, y) \in Positive /\ Smaller(x, y) <= x /\ Smaller(x, y) <= y
BY DEF Smaller, Positive

LEMMA FactIsSound ==
  ASSUME NEW asks, NEW bids, NEW s, NEW b, GoodSide(asks), GoodSide(bids)
  PROVE  AtMostOne(DetectFact(asks, bids, s, b, PairBetween(s, b)), Fact, s, b, asks, bids)
<1> DEFINE amount == Smaller(asks[1].amount, bids[1].amount)
           o == Candidate(Fact, PairBetween(s, b), asks[1], bids[1], s, b, amount)
           found == DetectFact(asks, bids, s, b, PairBetween(s, b))
<1>1. 1 \in DOMAIN asks /\ 1 \in DOMAIN bids
  BY GoodLevel
<1>2. /\ asks[1].amount \in Positive /\ asks[1].amount <= asks[1].notional
      /\ bids[1].amount \in Positive /\ bids[1].amount <= bids[1].notional
      /\ asks[1].notional \in Positive /\ bids[1].notional \in Positive
  BY <1>1, GoodLevel
<1>3. /\ amount \in Positive /\ amount <= asks[1].notional /\ amount <= bids[1].notional
  <2>1. amount \in Positive /\ amount <= asks[1].amount /\ amount <= bids[1].amount
    BY <1>2, SmallerIsSmaller
  <2> HIDE DEF amount
  <2> QED
    BY <1>2, <2>1 DEF Positive
<1>4. found = <<>> \/ found = <<o>>
  BY DEF DetectFact
<1> HIDE DEF amount, found
<1>5. Sound(o, Fact, s, b, asks, bids)
  BY <1>1, <1>3 DEF Sound
<1> HIDE DEF o
<1>6. AtMostOne(found, Fact, s, b, asks, bids)
  BY <1>4, <1>5 DEF AtMostOne
<1> QED
  BY <1>6 DEF found

\* The scan gives nothing or one of the candidates.
LEMMA BestIsCandidate ==
  ASSUME NEW m \in Nat, NEW cand, DOMAIN cand = 1 .. m, Len(cand) = m
  PROVE  \/ BestCandidate(cand, Depth) = <<>>
         \/ \E i \in 1 .. m : BestCandidate(cand, Depth) = <<cand[i]>>
<1> DEFINE n == ScanDepth(Depth, Len(cand))
           profit == [i \in DOMAIN cand |-> cand[i].profit]
           best == CHOOSE i \in BestLevel(profit, n) : TRUE
<1>1. n \in 0 .. m
  BY PriceUnitsAssumption DEF ScanDepth
<1>2. BestLevel(profit, n) \subseteq 2 .. n
  BY DEF BestLevel, Qualifying
<1>3. BestCandidate(cand, Depth) = IF BestLevel(profit, n) = {} THEN <<>> ELSE <<cand[best]>>
  BY DEF BestCandidate
<1> HIDE DEF profit, n
<1>4. BestLevel(profit, n) # {} => best \in 1 .. m
  BY <1>1, <1>2
<1> HIDE DEF best
<1> QED
  BY <1>3, <1>4

LEMMA PotentialByAsksIsSound ==
  ASSUME NEW asks, NEW bids, NEW s, NEW b, GoodSide(asks), GoodSide(bids)
  PROVE  AtMostOne(DetectPotentialByAsks(asks, bids, s, b, PairBetween(s, b), Depth),
                   Potential, s, b, asks, bids)
<1> DEFINE amount(i) == Smaller(asks[i].notional, bids[1].notional)
           cand == [i \in DOMAIN asks |->
                      Candidate(Potential, PairBetween(s, b), asks[i], bids[1], s, b, amount(i))]
           found == DetectPotentialByAsks(asks, bids, s, b, PairBetween(s, b), Depth)
<1>1. /\ Len(asks) \in Nat \ {0} /\ DOMAIN asks = 1 .. Len(asks) /\ 1 \in DOMAIN bids
      /\ asks # <<>> /\ bids # <<>>
  BY GoodLevel DEF GoodSide
<1>2. ASSUME NEW i \in DOMAIN asks PROVE Sound(cand[i], Potential, s, b, asks, bids)
  <2>1. amount(i) \in Positive /\ amount(i) <= asks[i].notional /\ amount(i) <= bids[1].notional
    BY <1>1, GoodLevel, SmallerIsSmaller
  <2>2. cand[i] = Candidate(Potential, PairBetween(s, b), asks[i], bids[1], s, b, amount(i))
    OBVIOUS
  <2> HIDE DEF amount, cand
  <2> QED
    BY <1>1, <2>1, <2>2 DEF Sound
<1>3. found = BestCandidate(cand, Depth)
  BY <1>1 DEF DetectPotentialByAsks
<1>4. DOMAIN cand = 1 .. Len(asks) /\ Len(cand) = Len(asks)
  <2>1. cand = [i \in 1 .. Len(asks) |-> cand[i]]
    BY <1>1
  <2> HIDE DEF cand
  <2>2. Len([i \in 1 .. Len(asks) |-> cand[i]]) = Len(asks)
    BY <1>1
  <2> QED
    BY <2>1, <2>2
<1> HIDE DEF cand, found
<1>5. found = <<>> \/ \E i \in DOMAIN asks : found = <<cand[i]>>
  BY <1>1, <1>3, <1>4, BestIsCandidate
<1>6. AtMostOne(found, Potential, s, b, asks, bids)
  BY <1>2, <1>5 DEF AtMostOne
<1> QED
  BY <1>6 DEF found

LEMMA PotentialByBidsIsSound ==
  ASSUME NEW asks, NEW bids, NEW s, NEW b, GoodSide(asks), GoodSide(bids)
  PROVE  AtMostOne(DetectPotentialByBids(asks, bids, s, b, PairBetween(s, b), Depth),
                   Potential, s, b, asks, bids)
<1> DEFINE amount(i) == Smaller(asks[1].notional, bids[i].notional)
           cand == [i \in DOMAIN bids |->
                      Candidate(Potential, PairBetween(s, b), asks[1], bids[i], s, b, amount(i))]
           found == DetectPotentialByBids(asks, bids, s, b, PairBetween(s, b), Depth)
<1>1. /\ Len(bids) \in Nat \ {0} /\ DOMAIN bids = 1 .. Len(bids) /\ 1 \in DOMAIN asks
      /\ asks # <<>> /\ bids # <<>>
  BY GoodLevel DEF GoodSide
<1>2. ASSUME NEW i \in DOMAIN bids PROVE Sound(cand[i], Potential, s, b, asks, bids)
  <2>1. amount(i) \in Positive /\ amount(i) <= asks[1].notional /\ amount(i) <= bids[i].notional
    BY <1>1, GoodLevel, SmallerIsSmaller
  <2>2. cand[i] = Candidate(Potential, PairBetween(s, b), asks[1], bids[i], s, b, amount(i))
    OBVIOUS
  <2> HIDE DEF amount, cand
  <2> QED
    BY <1>1, <2>1, <2>2 DEF Sound
<1>3. found = BestCandidate(cand, Depth)
  BY <1>1 DEF DetectPotentialByBids
<1>4. DOMAIN cand = 1 .. Len(bids) /\ Len(cand) = Len(bids)
  <2>1. cand = [i \in 1 .. Len(bids) |-> cand[i]]
    BY <1>1
  <2> HIDE DEF cand
  <2>2. Len([i \in 1 .. Len(bids) |-> cand[i]]) = Len(bids)
    BY <1>1
  <2> QED
    BY <2>1, <2>2
<1> HIDE DEF cand, found
<1>5. found = <<>> \/ \E i \in DOMAIN bids : found = <<cand[i]>>
  BY <1>1, <1>3, <1>4, BestIsCandidate
<1>6. AtMostOne(found, Potential, s, b, asks, bids)
  BY <1>2, <1>5 DEF AtMostOne
<1> QED
  BY <1>6 DEF found

\* The level's own volume and all the better ones' are offered at its rounded
\* price or better.
LEMMA AsksHoldTheNotional ==
  ASSUME NEW asks, GoodAsks(asks), NEW i \in DOMAIN asks
  PROVE  asks[i].notional <= AsksUpTo(asks, round2(asks[i].price))
<1> DEFINE p == round2(asks[i].price)
           near == [k \in DOMAIN asks |-> IF round2(asks[k].price) <= p THEN asks[k].amount ELSE 0]
<1>1. /\ Len(asks) \in Nat /\ DOMAIN asks = 1 .. Len(asks)
      /\ Amounts(asks) \in [1 .. Len(asks) -> Nat]
      /\ \A k \in DOMAIN asks : asks[k].price \in Nat /\ asks[k].amount \in Nat
  BY GoodLevel DEF GoodAsks, Positive
<1>2. near \in [1 .. Len(asks) -> Nat]
  <2> HIDE DEF p
  <2> QED
    BY <1>1
<1>3. ASSUME NEW k \in 1 .. i PROVE Amounts(asks)[k] <= near[k]
  <2>1. k \in DOMAIN asks /\ asks[k].price <= asks[i].price
    BY <1>1 DEF GoodAsks
  <2>2. round2(asks[k].price) <= p
    BY <1>1, <2>1, RoundingKeepsOrder
  <2>3. near[k] = asks[k].amount
    <3> HIDE DEF p
    <3> QED
      BY <2>1, <2>2
  <2>4. Amounts(asks)[k] = asks[k].amount
    BY <2>1 DEF Amounts
  <2> HIDE DEF p, near
  <2> QED
    BY <1>1, <2>1, <2>3, <2>4
<1>4. AsksUpTo(asks, p) = Total(near, Len(asks))
  BY DEF AsksUpTo
<1>5. asks[i].notional = Total(Amounts(asks), i)
  BY DEF GoodAsks, GoodSide
<1> HIDE DEF p, near
<1>6. Total(Amounts(asks), i) <= Total(near, Len(asks))
  <2>1. i \in 0 .. Len(asks)
    BY <1>1
  <2> QED
    BY <1>1, <1>2, <1>3, <2>1, TotalGrows
<1> QED
  BY <1>4, <1>5, <1>6 DEF p

LEMMA BidsHoldTheNotional ==
  ASSUME NEW bids, GoodBids(bids), NEW i \in DOMAIN bids
  PROVE  bids[i].notional <= BidsDownTo(bids, round2(bids[i].price))
<1> DEFINE p == round2(bids[i].price)
           near == [k \in DOMAIN bids |-> IF round2(bids[k].price) >= p THEN bids[k].amount ELSE 0]
<1>1. /\ Len(bids) \in Nat /\ DOMAIN bids = 1 .. Len(bids)
      /\ Amounts(bids) \in [1 .. Len(bids) -> Nat]
      /\ \A k \in DOMAIN bids : bids[k].price \in Nat /\ bids[k].amount \in Nat
  BY GoodLevel DEF GoodBids, Positive
<1>2. near \in [1 .. Len(bids) -> Nat]
  <2> HIDE DEF p
  <2> QED
    BY <1>1
<1>3. ASSUME NEW k \in 1 .. i PROVE Amounts(bids)[k] <= near[k]
  <2>1. k \in DOMAIN bids /\ bids[i].price <= bids[k].price
    BY <1>1 DEF GoodBids
  <2>2. p <= round2(bids[k].price)
    BY <1>1, <2>1, RoundingKeepsOrder
  <2>5. p \in Int /\ round2(bids[k].price) \in Int
    BY <1>1, <2>1, RoundedPrice
  <2>3. near[k] = bids[k].amount
    <3> HIDE DEF p
    <3> QED
      BY <2>1, <2>2, <2>5
  <2>4. Amounts(bids)[k] = bids[k].amount
    BY <2>1 DEF Amounts
  <2> HIDE DEF p, near
  <2> QED
    BY <1>1, <2>1, <2>3, <2>4
<1>4. BidsDownTo(bids, p) = Total(near, Len(bids))
  BY DEF BidsDownTo
<1>5. bids[i].notional = Total(Amounts(bids), i)
  BY DEF GoodBids, GoodSide
<1> HIDE DEF p, near
<1>6. Total(Amounts(bids), i) <= Total(near, Len(bids))
  <2>1. i \in 0 .. Len(bids)
    BY <1>1
  <2> QED
    BY <1>1, <1>2, <1>3, <2>1, TotalGrows
<1> QED
  BY <1>4, <1>5, <1>6 DEF p

-----------------------------------------------------------------------------
\* What a tick finds in two optional books.

\* Everything that is wanted of an opportunity found in these books.
Right(o, bks) ==
  /\ o \in Opportunity /\ o.pair = PairBetween(o.sellEx, o.buyEx)
  /\ o.profit <= o.sellPrice - o.buyPrice + 1
  /\ o.amount > 0
  /\ o.amount <= AsksUpTo(bks[o.sellEx][1].asks, o.sellPrice)
  /\ o.amount <= BidsDownTo(bks[o.buyEx][1].bids, o.buyPrice)

LEMMA PairIsTyped ==
  ASSUME NEW s \in Sources, NEW b \in Sources
  PROVE  PairBetween(s, b) \in Seq({PairOf[x] : x \in Sources})
<1> DEFINE T == {PairOf[x] : x \in Sources}
           sell == PairOf[s]
           buy == PairOf[b]
<1>1. sell \in T /\ buy \in T
  OBVIOUS
<1>2. PairBetween(s, b) = IF buy = sell THEN <<buy>> ELSE <<buy, sell>>
  BY DEF PairBetween, resolveOpportunityPair
<1> HIDE DEF T, sell, buy
<1>3. <<buy>> \in Seq(T) /\ <<buy, sell>> \in Seq(T)
  BY <1>1
<1> QED
  BY <1>2, <1>3 DEF T

LEMMA SidesHoldNumbers ==
  ASSUME NEW os, GoodSide(os), NEW p \in Int
  PROVE  AsksUpTo(os, p) \in Nat /\ BidsDownTo(os, p) \in Nat
<1> DEFINE n == Len(os)
           up == [i \in DOMAIN os |-> IF round2(os[i].price) <= p THEN os[i].amount ELSE 0]
           down == [i \in DOMAIN os |-> IF round2(os[i].price) >= p THEN os[i].amount ELSE 0]
<1>1. n \in Nat /\ DOMAIN os = 1 .. n /\ \A i \in DOMAIN os : os[i].amount \in Nat
  BY GoodLevel DEF Positive
<1>2. up \in [1 .. n -> Nat] /\ down \in [1 .. n -> Nat]
  BY <1>1
<1>3. AsksUpTo(os, p) = Total(up, n) /\ BidsDownTo(os, p) = Total(down, n)
  BY DEF AsksUpTo, BidsDownTo
<1> HIDE DEF up, down, n
<1>4. n \in 0 .. n
  BY <1>1
<1> QED
  BY <1>1, <1>2, <1>3, <1>4, TotalUnfolds

LEMMA SoundIsRight ==
  ASSUME NEW bks, NEW s \in Sources, NEW b \in Sources, NEW type \in {Fact, Potential},
         GoodBook(bks[s][1]), GoodBook(bks[b][1]),
         NEW o, Sound(o, type, s, b, bks[s][1].asks, bks[b][1].bids)
  PROVE  Right(o, bks) /\ o.type = type /\ o.sellEx = s /\ o.buyEx = b
<1> DEFINE asks == bks[s][1].asks
           bids == bks[b][1].bids
<1>1. GoodAsks(asks) /\ GoodBids(bids) /\ GoodSide(asks) /\ GoodSide(bids)
  BY DEF GoodBook, GoodAsks, GoodBids
<1>2. Sound(o, type, s, b, asks, bids)
  OBVIOUS
<1> HIDE DEF asks, bids
<1>3. PICK i \in DOMAIN asks, j \in DOMAIN bids, amount \in Positive :
        /\ o = Candidate(type, PairBetween(s, b), asks[i], bids[j], s, b, amount)
        /\ amount <= asks[i].notional /\ amount <= bids[j].notional
  BY <1>2 DEF Sound
<1> DEFINE sell == round2(asks[i].price)
           buy == round2(bids[j].price)
           profit == Profit(asks[i].price, bids[j].price, Fee[s], Fee[b])
           pair == PairBetween(s, b)
<1>4. asks[i].price \in Nat /\ asks[i].notional \in Positive
  BY <1>1, GoodLevel
<1>5. bids[j].price \in Nat /\ bids[j].notional \in Positive
  BY <1>1, GoodLevel
<1>6. Fee[s] \in Nat /\ Fee[b] \in Nat
  BY PriceUnitsAssumption DEF Fee
<1>7. sell \in Int /\ buy \in Int
  BY <1>4, <1>5, RoundedPrice
<1>8. profit \in Int /\ profit <= sell - buy + 1
  BY <1>4, <1>5, <1>6, ProfitIsBounded
<1>9. amount <= AsksUpTo(asks, sell) /\ amount <= BidsDownTo(bids, buy) /\ amount > 0
  <2>1. asks[i].notional <= AsksUpTo(asks, sell)
    BY <1>1, AsksHoldTheNotional
  <2>2. bids[j].notional <= BidsDownTo(bids, buy)
    BY <1>1, BidsHoldTheNotional
  <2>3. AsksUpTo(asks, sell) \in Nat /\ BidsDownTo(bids, buy) \in Nat
    BY <1>1, <1>7, SidesHoldNumbers
  <2> HIDE DEF sell, buy
  <2> QED
    BY <1>3, <1>4, <1>5, <2>1, <2>2, <2>3 DEF Positive
<1>10. o = [type |-> type, pair |-> pair, buyEx |-> b, sellEx |-> s,
            buyPrice |-> buy, sellPrice |-> sell, amount |-> amount, profit |-> profit]
  BY <1>3 DEF Candidate
<1>11. pair \in Seq({PairOf[x] : x \in Sources}) /\ amount \in Int
  BY PairIsTyped DEF Positive
<1> HIDE DEF sell, buy, profit, pair
<1>12. o \in Opportunity
  BY <1>7, <1>8, <1>10, <1>11 DEF Opportunity
<1>13. /\ o.type = type /\ o.sellEx = s /\ o.buyEx = b /\ o.pair = pair
       /\ o.buyPrice = buy /\ o.sellPrice = sell /\ o.amount = amount /\ o.profit = profit
  BY <1>10
<1> QED
  BY <1>8, <1>9, <1>12, <1>13 DEF Right, pair, asks, bids

\* One of the opportunities found by crossing the asks of s and the bids of b.
Of(o, s, b, bks) == Right(o, bks) /\ o.sellEx = s /\ o.buyEx = b

\* A fact never comes after the potential it shares its hash with.
FactsFirst(found) ==
  \A i, j \in DOMAIN found :
    (i < j /\ Hash(found[i]) = Hash(found[j]) /\ found[i].type = Potential) =>
      found[j].type = Potential

LEMMA JoinFactsFirst ==
  ASSUME NEW S, NEW x \in Seq(S), NEW y \in Seq(S), FactsFirst(x), FactsFirst(y),
         \A i \in DOMAIN x, j \in DOMAIN y :
           (Hash(x[i]) = Hash(y[j]) /\ x[i].type = Potential) => y[j].type = Potential
  PROVE  /\ FactsFirst(x \o y) /\ x \o y \in Seq(S)
         /\ \A k \in DOMAIN (x \o y) :
              (\E i \in DOMAIN x : (x \o y)[k] = x[i]) \/ (\E j \in DOMAIN y : (x \o y)[k] = y[j])
<1> DEFINE z == x \o y
<1>1. /\ z \in Seq(S) /\ Len(z) = Len(x) + Len(y)
      /\ \A k \in 1 .. Len(x) : z[k] = x[k]
      /\ \A k \in Len(x) + 1 .. Len(x) + Len(y) : z[k] = y[k - Len(x)]
  BY ConcatProperties
<1>2. /\ Len(x) \in Nat /\ DOMAIN x = 1 .. Len(x)
      /\ Len(y) \in Nat /\ DOMAIN y = 1 .. Len(y)
      /\ DOMAIN z = 1 .. Len(z)
  BY <1>1, LenProperties
<1> HIDE DEF z
<1>3. ASSUME NEW k \in DOMAIN z
      PROVE  \/ k \in DOMAIN x /\ z[k] = x[k]
             \/ k - Len(x) \in DOMAIN y /\ z[k] = y[k - Len(x)] /\ ~ (k <= Len(x))
  <2>1. CASE k <= Len(x)
    BY <1>1, <1>2, <2>1
  <2>2. CASE ~ (k <= Len(x))
    <3>1. k \in Len(x) + 1 .. Len(x) + Len(y) /\ k - Len(x) \in 1 .. Len(y)
      BY <1>1, <1>2, <2>2
    <3> QED
      BY <1>1, <1>2, <2>2, <3>1
  <2> QED
    BY <2>1, <2>2
<1>4. ASSUME NEW i \in DOMAIN z, NEW j \in DOMAIN z, i < j,
             Hash(z[i]) = Hash(z[j]), z[i].type = Potential
      PROVE  z[j].type = Potential
  <2>1. CASE i \in DOMAIN x /\ z[i] = x[i] /\ j \in DOMAIN x /\ z[j] = x[j]
    BY <1>4, <2>1 DEF FactsFirst
  <2>2. CASE /\ i \in DOMAIN x /\ z[i] = x[i]
             /\ j - Len(x) \in DOMAIN y /\ z[j] = y[j - Len(x)]
    BY <1>4, <2>2
  <2>3. CASE /\ i - Len(x) \in DOMAIN y /\ z[i] = y[i - Len(x)]
             /\ j - Len(x) \in DOMAIN y /\ z[j] = y[j - Len(x)]
    <3>1. i - Len(x) < j - Len(x)
      BY <1>2, <1>4
    <3> QED
      BY <1>4, <2>3, <3>1 DEF FactsFirst
  <2>4. ~ (~ (i <= Len(x)) /\ j \in DOMAIN x)
    BY <1>2, <1>4
  <2> QED
    BY <1>3, <2>1, <2>2, <2>3, <2>4
<1>5. FactsFirst(z)
  BY <1>4 DEF FactsFirst
<1> QED
  BY <1>1, <1>3, <1>5 DEF z

LEMMA OneOrNone ==
  ASSUME NEW bks, NEW s \in Sources, NEW b \in Sources, NEW type \in {Fact, Potential},
         GoodBook(bks[s][1]), GoodBook(bks[b][1]),
         NEW found, AtMostOne(found, type, s, b, bks[s][1].asks, bks[b][1].bids)
  PROVE  /\ found \in Seq(Opportunity) /\ FactsFirst(found)
         /\ \A i \in DOMAIN found : Of(found[i], s, b, bks) /\ found[i].type = type
<1>1. CASE found = <<>>
  <2>1. DOMAIN found = {}
    BY <1>1
  <2> QED
    BY <1>1, <2>1 DEF FactsFirst
<1>2. CASE found # <<>>
  <2> DEFINE o == found[1]
  <2>1. found = <<o>> /\ Sound(o, type, s, b, bks[s][1].asks, bks[b][1].bids)
    BY <1>2 DEF AtMostOne
  <2> HIDE DEF o
  <2>2. Of(o, s, b, bks) /\ o.type = type
    BY <2>1, SoundIsRight DEF Of
  <2>3. o \in Opportunity
    BY <2>2 DEF Of, Right
  <2>4. found \in Seq(Opportunity) /\ DOMAIN found = {1} /\ found[1] = o
    BY <2>1, <2>3
  <2>5. FactsFirst(found)
    BY <2>4 DEF FactsFirst
  <2> QED
    BY <2>2, <2>4, <2>5
<1> QED
  BY <1>1, <1>2

\* A list of opportunities of these pairs of books, facts first.
InOrder(found, P, bks) ==
  /\ found \in Seq(Opportunity) /\ FactsFirst(found)
  /\ \A k \in DOMAIN found : \E p \in P : Of(found[k], p[1], p[2], bks)

LEMMA FoundBetweenTwo ==
  ASSUME NEW bks, NEW s \in Sources, NEW b \in Sources,
         OptionalBook(bks[s]), OptionalBook(bks[b])
  PROVE  InOrder(Between(bks, s, b), {<<s, b>>}, bks)
<1> DEFINE asks == bks[s][1].asks
           bids == bks[b][1].bids
           fact == DetectFact(asks, bids, s, b, PairBetween(s, b))
           byAsks == DetectPotentialByAsks(asks, bids, s, b, PairBetween(s, b), Depth)
           byBids == DetectPotentialByBids(asks, bids, s, b, PairBetween(s, b), Depth)
<1>1. CASE Usable(bks[s]) /\ Usable(bks[b])
  <2>1. GoodBook(bks[s][1]) /\ GoodBook(bks[b][1])
    BY <1>1 DEF OptionalBook, Usable
  <2>2. GoodSide(asks) /\ GoodSide(bids)
    BY <2>1 DEF GoodBook, GoodAsks, GoodBids
  <2>3. Between(bks, s, b) = (fact \o byAsks) \o byBids
    BY <1>1 DEF Between, DetectBetween, PairBetween
  <2>4. /\ AtMostOne(fact, Fact, s, b, asks, bids)
        /\ AtMostOne(byAsks, Potential, s, b, asks, bids)
        /\ AtMostOne(byBids, Potential, s, b, asks, bids)
    BY <2>2, FactIsSound, PotentialByAsksIsSound, PotentialByBidsIsSound
  <2> HIDE DEF fact, byAsks, byBids
  <2>5. /\ fact \in Seq(Opportunity) /\ FactsFirst(fact)
        /\ \A i \in DOMAIN fact : Of(fact[i], s, b, bks) /\ fact[i].type = Fact
    BY <2>1, <2>4, OneOrNone
  <2>6. /\ byAsks \in Seq(Opportunity) /\ FactsFirst(byAsks)
        /\ \A i \in DOMAIN byAsks : Of(byAsks[i], s, b, bks) /\ byAsks[i].type = Potential
    BY <2>1, <2>4, OneOrNone
  <2>7. /\ byBids \in Seq(Opportunity) /\ FactsFirst(byBids)
        /\ \A i \in DOMAIN byBids : Of(byBids[i], s, b, bks) /\ byBids[i].type = Potential
    BY <2>1, <2>4, OneOrNone
  <2> HIDE DEF asks, bids
  <2> DEFINE some == fact \o byAsks
  <2>8. /\ FactsFirst(some) /\ some \in Seq(Opportunity)
        /\ \A k \in DOMAIN some :
             (\E i \in DOMAIN fact : some[k] = fact[i]) \/ (\E j \in DOMAIN byAsks : some[k] = byAsks[j])
    BY <2>5, <2>6, JoinFactsFirst
  <2> HIDE DEF some
  <2> DEFINE all == some \o byBids
  <2>9. /\ FactsFirst(all) /\ all \in Seq(Opportunity)
        /\ \A k \in DOMAIN all :
             (\E i \in DOMAIN some : all[k] = some[i]) \/ (\E j \in DOMAIN byBids : all[k] = byBids[j])
    BY <2>7, <2>8, JoinFactsFirst
  <2> HIDE DEF all
  <2>10. \A k \in DOMAIN all : Of(all[k], s, b, bks)
    BY <2>5, <2>6, <2>7, <2>8, <2>9
  <2>11. InOrder(all, {<<s, b>>}, bks)
    BY <2>9, <2>10 DEF InOrder
  <2> QED
    BY <2>3, <2>11 DEF all, some
<1>2. CASE ~ (Usable(bks[s]) /\ Usable(bks[b]))
  <2>1. Between(bks, s, b) = <<>>
    BY <1>2 DEF Between
  <2>2. DOMAIN <<>> = {} /\ <<>> \in Seq(Opportunity)
    OBVIOUS
  <2> QED
    BY <2>1, <2>2 DEF InOrder, FactsFirst
<1> QED
  BY <1>1, <1>2

LEMMA JoinInOrder ==
  ASSUME NEW bks, NEW P, NEW Q, NEW x, NEW y, InOrder(x, P, bks), InOrder(y, Q, bks),
         \A p \in P, q \in Q : ~ (p[1] = q[1] /\ p[2] = q[2])
  PROVE  InOrder(x \o y, P \cup Q, bks)
<1>1. /\ x \in Seq(Opportunity) /\ FactsFirst(x)
      /\ y \in Seq(Opportunity) /\ FactsFirst(y)
      /\ \A i \in DOMAIN x : \E p \in P : Of(x[i], p[1], p[2], bks)
      /\ \A j \in DOMAIN y : \E q \in Q : Of(y[j], q[1], q[2], bks)
  BY DEF InOrder
<1>2. ASSUME NEW i \in DOMAIN x, NEW j \in DOMAIN y PROVE Hash(x[i]) # Hash(y[j])
  <2>1. PICK p \in P : x[i].sellEx = p[1] /\ x[i].buyEx = p[2]
    BY <1>1 DEF Of
  <2>2. PICK q \in Q : y[j].sellEx = q[1] /\ y[j].buyEx = q[2]
    BY <1>1 DEF Of
  <2> QED
    BY <2>1, <2>2 DEF Hash
<1> DEFINE z == x \o y
<1>3. /\ FactsFirst(z) /\ z \in Seq(Opportunity)
      /\ \A k \in DOMAIN z :
           (\E i \in DOMAIN x : z[k] = x[i]) \/ (\E j \in DOMAIN y : z[k] = y[j])
  BY <1>1, <1>2, JoinFactsFirst
<1> HIDE DEF z
<1>4. ASSUME NEW k \in DOMAIN z PROVE \E p \in P \cup Q : Of(z[k], p[1], p[2], bks)
  BY <1>1, <1>3
<1>5. InOrder(z, P \cup Q, bks)
  BY <1>3, <1>4 DEF InOrder
<1> QED
  BY <1>5 DEF z

LEMMA FoundIsInOrder ==
  ASSUME NEW bks, OptionalBook(bks[Rapira]), OptionalBook(bks[Grinex])
  PROVE  InOrder(FoundInOrder(bks), Sources \X Sources, bks)
<1> DEFINE rr == Between(bks, Rapira, Rapira)
           rg == Between(bks, Rapira, Grinex)
           gr == Between(bks, Grinex, Rapira)
           gg == Between(bks, Grinex, Grinex)
<1>1. Rapira \in Sources /\ Grinex \in Sources /\ Rapira # Grinex
  BY DEF Sources, Rapira, Grinex
<1>2. /\ InOrder(rr, {<<Rapira, Rapira>>}, bks) /\ InOrder(rg, {<<Rapira, Grinex>>}, bks)
      /\ InOrder(gr, {<<Grinex, Rapira>>}, bks) /\ InOrder(gg, {<<Grinex, Grinex>>}, bks)
  BY <1>1, FoundBetweenTwo
<1> HIDE DEF rr, rg, gr, gg
<1> DEFINE P == {<<Rapira, Rapira>>} \cup {<<Rapira, Grinex>>}
           Q == P \cup {<<Grinex, Rapira>>}
<1>3. InOrder(rr \o rg, P, bks)
  BY <1>1, <1>2, JoinInOrder
<1>4. InOrder((rr \o rg) \o gr, Q, bks)
  BY <1>1, <1>2, <1>3, JoinInOrder
<1>5. InOrder(((rr \o rg) \o gr) \o gg, Q \cup {<<Grinex, Grinex>>}, bks)
  BY <1>1, <1>2, <1>4, JoinInOrder
<1>6. Q \cup {<<Grinex, Grinex>>} \subseteq Sources \X Sources
  BY <1>1
<1>7. FoundInOrder(bks) = ((rr \o rg) \o gr) \o gg
  BY DEF FoundInOrder, rr, rg, gr, gg
<1> HIDE DEF Q
<1> QED
  BY <1>5, <1>6, <1>7 DEF InOrder

-----------------------------------------------------------------------------
\* The deduplication of a tick's list.

\* One more opportunity, kept if none before it has its key.
Keep(out, o) ==
  IF \E i \in DOMAIN out : TickKey(out[i]) = TickKey(o) THEN out ELSE Append(out, o)

LEMMA DedupOfPrefixes ==
  ASSUME NEW S, NEW in \in Seq(S)
  PROVE  \E f \in [Nat -> Seq(S)] :
           /\ f[0] = <<>>
           /\ \A k \in 1 .. Len(in) : f[k] = Keep(f[k - 1], in[k])
           /\ dedupTickOpportunities(in) = f[Len(in)]
<1> DEFINE n == Len(in)
           A == Seq(S)
           none == <<>>
           step == [x \in A \X Nat |-> IF x[2] \in 1 .. n THEN Keep(x[1], in[x[2]]) ELSE none]
<1>1. n \in Nat /\ \A k \in 1 .. n : in[k] \in S
  BY LenProperties, ElementOfSeq
<1>2. ASSUME NEW out \in A, NEW k \in 1 .. n PROVE Keep(out, in[k]) \in A
  BY <1>1, AppendProperties DEF Keep
<1>3. none \in A
  OBVIOUS
<1>4. step \in [A \X Nat -> A]
  <2> HIDE DEF A, none, n
  <2> QED
    BY <1>2, <1>3
<1>5. PICK f \in [Nat -> A] : Accumulates(f, none, step)
  <2> HIDE DEF A, none, step
  <2> QED
    BY <1>3, <1>4, RecursionOnNat
<1>6. ASSUME NEW k \in 1 .. n PROVE f[k] = Keep(f[k - 1], in[k])
  <2>1. k - 1 \in Nat /\ (k - 1) + 1 = k
    BY <1>1
  <2>2. f[k] = step[<<f[k - 1], k>>]
    <3>1. f[(k - 1) + 1] = step[<<f[k - 1], (k - 1) + 1>>]
      <4> HIDE DEF step
      <4> QED
        BY <1>5, <2>1 DEF Accumulates
    <3> QED
      BY <2>1, <3>1
  <2>3. f[k - 1] \in A /\ k \in Nat
    BY <2>1
  <2> HIDE DEF A, none, n
  <2> QED
    BY <2>2, <2>3
<1>7. f[0] = <<>>
  BY <1>5 DEF Accumulates
<1> DEFINE Kept(g) == g = [k \in 0 .. n |-> IF k = 0 THEN <<>> ELSE Keep(g[k - 1], in[k])]
           unique == CHOOSE g : Kept(g)
<1>8. Kept([k \in 0 .. n |-> f[k]])
  <2> DEFINE g == [k \in 0 .. n |-> f[k]]
             h == [k \in 0 .. n |-> IF k = 0 THEN <<>> ELSE Keep(g[k - 1], in[k])]
  <2>1. ASSUME NEW k \in 0 .. n PROVE g[k] = h[k]
    <3>1. CASE k = 0
      BY <1>7, <3>1
    <3>2. CASE k # 0
      <4>1. k \in 1 .. n /\ k - 1 \in 0 .. n
        BY <1>1, <3>2
      <4>2. g[k - 1] = f[k - 1] /\ g[k] = f[k]
        BY <4>1
      <4>3. h[k] = Keep(g[k - 1], in[k])
        BY <3>2
      <4> QED
        BY <1>6, <4>1, <4>2, <4>3
    <3> QED
      BY <3>1, <3>2
  <2>2. g = h
    BY <2>1
  <2> QED
    BY <2>2
<1>9. Kept(unique)
  <2> HIDE DEF Kept
  <2> QED
    BY <1>8
<1>10. dedupTickOpportunities(in) = unique[n]
  BY DEF dedupTickOpportunities, Keep
<1> HIDE DEF unique
<1>11. unique[0] = <<>> /\ \A k \in 1 .. n : unique[k] = Keep(unique[k - 1], in[k])
  <2> DEFINE h == [k \in 0 .. n |-> IF k = 0 THEN <<>> ELSE Keep(unique[k - 1], in[k])]
  <2>1. h[0] = <<>> /\ \A k \in 1 .. n : h[k] = Keep(unique[k - 1], in[k])
    <3> HIDE DEF n
    <3> QED
      BY <1>1
  <2>2. unique = h
    BY <1>9
  <2> HIDE DEF h
  <2> QED
    BY <2>1, <2>2
<1> DEFINE T == {k \in Nat : k <= n => unique[k] = f[k]}
<1>12. T = Nat
  <2>1. 0 \in T
    BY <1>7, <1>11
  <2>2. ASSUME NEW k \in T PROVE k + 1 \in T
    <3> SUFFICES ASSUME k + 1 <= n PROVE unique[k + 1] = f[k + 1]
      OBVIOUS
    <3>1. k + 1 \in 1 .. n /\ (k + 1) - 1 = k /\ unique[k] = f[k]
      BY <1>1
    <3>2. unique[k + 1] = Keep(unique[(k + 1) - 1], in[k + 1])
      BY <1>11, <3>1
    <3>3. f[k + 1] = Keep(f[(k + 1) - 1], in[k + 1])
      BY <1>6, <3>1
    <3> QED
      BY <3>1, <3>2, <3>3
  <2>3. T \in SUBSET Nat
    OBVIOUS
  <2> HIDE DEF T
  <2> QED
    BY <2>1, <2>2, <2>3, InductionOnNat
<1>13. unique[n] = f[n]
  <2>1. n \in T
    <3> HIDE DEF T
    <3> QED
      BY <1>1, <1>12
  <2> QED
    BY <1>1, <2>1
<1> QED
  BY <1>6, <1>7, <1>10, <1>13

\* What the first k of a list leave: some of them, in their order, no key twice.
Unique(out, in, k) ==
  /\ \A i \in DOMAIN out : \E a \in 1 .. k : out[i] = in[a]
  /\ \A i, j \in DOMAIN out : i < j =>
       /\ TickKey(out[i]) # TickKey(out[j])
       /\ \E a, b \in 1 .. k : a < b /\ out[i] = in[a] /\ out[j] = in[b]

LEMMA KeepIsUnique ==
  ASSUME NEW S, NEW in \in Seq(S), NEW k \in 1 .. Len(in),
         NEW out \in Seq(S), Unique(out, in, k - 1)
  PROVE  Unique(Keep(out, in[k]), in, k)
<1> DEFINE o == in[k]
           new == Append(out, o)
<1>0. k \in Nat /\ k - 1 \in Nat /\ 1 .. (k - 1) \subseteq 1 .. k /\ k \in 1 .. k
      /\ \A a \in 1 .. (k - 1) : a < k
  BY LenProperties
<1>1. Unique(out, in, k)
  BY <1>0 DEF Unique
<1>2. CASE \E i \in DOMAIN out : TickKey(out[i]) = TickKey(o)
  BY <1>1, <1>2 DEF Keep
<1>3. CASE \A i \in DOMAIN out : TickKey(out[i]) # TickKey(o)
  <2>1. /\ Len(out) \in Nat /\ DOMAIN out = 1 .. Len(out)
        /\ DOMAIN new = 1 .. (Len(out) + 1)
        /\ new[Len(out) + 1] = o /\ \A i \in 1 .. Len(out) : new[i] = out[i]
    <3>1. o \in S
      BY ElementOfSeq
    <3> HIDE DEF o
    <3> QED
      BY <3>1, AppendProperties, LenProperties
  <2>2. Keep(out, in[k]) = new
    BY <1>3 DEF Keep
  <2> HIDE DEF new
  <2>3. ASSUME NEW i \in DOMAIN new PROVE \E a \in 1 .. k : new[i] = in[a]
    <3>1. CASE i \in DOMAIN out
      BY <1>1, <2>1, <3>1 DEF Unique
    <3>2. CASE i = Len(out) + 1
      BY <1>0, <2>1, <3>2
    <3> QED
      BY <2>1, <3>1, <3>2
  <2>4. ASSUME NEW i \in DOMAIN new, NEW j \in DOMAIN new, i < j
        PROVE  /\ TickKey(new[i]) # TickKey(new[j])
               /\ \E a, b \in 1 .. k : a < b /\ new[i] = in[a] /\ new[j] = in[b]
    <3>1. i \in DOMAIN out /\ new[i] = out[i]
      BY <2>1, <2>4
    <3>2. CASE j \in DOMAIN out
      <4>1. new[j] = out[j]
        BY <2>1, <3>2
      <4>2. /\ TickKey(out[i]) # TickKey(out[j])
            /\ \E a, b \in 1 .. k : a < b /\ out[i] = in[a] /\ out[j] = in[b]
        <5> HIDE DEF o
        <5> QED
          BY <1>1, <2>4, <3>1, <3>2, Zenon DEF Unique
      <4> QED
        BY <3>1, <4>1, <4>2, Zenon
    <3>3. CASE j = Len(out) + 1
      <4>1. new[j] = in[k] /\ TickKey(new[i]) # TickKey(new[j])
        BY <1>3, <2>1, <3>1, <3>3
      <4>2. PICK a \in 1 .. (k - 1) : out[i] = in[a]
        BY <3>1 DEF Unique
      <4>3. a \in 1 .. k /\ a < k /\ k \in 1 .. k /\ new[i] = in[a]
        BY <1>0, <3>1, <4>2
      <4> QED
        BY <4>1, <4>3
    <3> QED
      BY <2>1, <3>2, <3>3
  <2>5. Unique(new, in, k)
    BY <2>3, <2>4 DEF Unique
  <2> QED
    BY <2>2, <2>5
<1> QED
  BY <1>2, <1>3

LEMMA DedupIsUnique ==
  ASSUME NEW S, NEW in \in Seq(S)
  PROVE  /\ dedupTickOpportunities(in) \in Seq(S)
         /\ Unique(dedupTickOpportunities(in), in, Len(in))
<1> DEFINE n == Len(in)
<1>1. n \in Nat
  BY LenProperties
<1>2. PICK f \in [Nat -> Seq(S)] :
        /\ f[0] = <<>>
        /\ \A k \in 1 .. n : f[k] = Keep(f[k - 1], in[k])
        /\ dedupTickOpportunities(in) = f[n]
  BY DedupOfPrefixes
<1> DEFINE T == {k \in Nat : k <= n => Unique(f[k], in, k)}
<1>3. 0 \in T
  <2>1. DOMAIN f[0] = {}
    BY <1>2
  <2> QED
    BY <2>1 DEF Unique
<1>4. ASSUME NEW k \in T PROVE k + 1 \in T
  <2> SUFFICES ASSUME k + 1 <= n PROVE Unique(f[k + 1], in, k + 1)
    OBVIOUS
  <2>1. k + 1 \in 1 .. n /\ (k + 1) - 1 = k /\ Unique(f[k], in, k) /\ k \in Nat
    BY <1>1
  <2>2. f[k + 1] = Keep(f[(k + 1) - 1], in[k + 1])
    BY <1>2, <2>1
  <2>3. f[k] \in Seq(S)
    BY <1>2, <2>1
  <2>4. Unique(Keep(f[k], in[k + 1]), in, k + 1)
    BY <2>1, <2>3, KeepIsUnique
  <2> QED
    BY <2>1, <2>2, <2>4
<1>5. T \in SUBSET Nat
  OBVIOUS
<1>6. T = Nat
  <2> HIDE DEF T
  <2> QED
    BY <1>3, <1>4, <1>5, InductionOnNat
<1>7. n \in T
  <2> HIDE DEF T
  <2> QED
    BY <1>1, <1>6
<1> QED
  BY <1>1, <1>2, <1>7

Twins(found) ==
  \A i, j \in DOMAIN found :
    (i < j /\ Hash(found[i]) = Hash(found[j])) =>
      found[i].type = Fact /\ found[j].type = Potential

\* What HandleTick fans out.
LEMMA TickIsRight ==
  ASSUME NEW bks, bks = [s \in Sources |-> bks[s]], \A s \in Sources : OptionalBook(bks[s])
  PROVE  LET found == TickOpportunities(bks[Rapira], bks[Grinex])
         IN /\ found \in Seq(Opportunity)
            /\ \A i \in DOMAIN found : Right(found[i], bks)
            /\ Twins(found)
<1> DEFINE all == FoundInOrder(bks)
           found == TickOpportunities(bks[Rapira], bks[Grinex])
<1>1. Sources = {Rapira, Grinex} /\ Rapira # Grinex
  BY DEF Sources, Rapira, Grinex
<1>2. InOrder(all, Sources \X Sources, bks)
  BY <1>1, FoundIsInOrder
<1>3. found = dedupTickOpportunities(all)
  <2>1. [s \in Sources |-> IF s = Rapira THEN bks[Rapira] ELSE bks[Grinex]] = bks
    BY <1>1
  <2> QED
    BY <2>1 DEF TickOpportunities
<1> HIDE DEF all, found
<1>4. /\ all \in Seq(Opportunity) /\ FactsFirst(all)
      /\ \A k \in DOMAIN all : Right(all[k], bks)
  BY <1>2 DEF InOrder, Of
<1>5. found \in Seq(Opportunity) /\ Unique(found, all, Len(all))
  BY <1>3, <1>4, DedupIsUnique
<1>6. DOMAIN all = 1 .. Len(all)
  BY <1>4, LenProperties
<1>7. ASSUME NEW i \in DOMAIN found PROVE Right(found[i], bks) /\ found[i].type \in {Fact, Potential}
  <2>1. Right(found[i], bks)
    BY <1>4, <1>5, <1>6 DEF Unique
  <2> QED
    BY <2>1 DEF Right, Opportunity
<1>8. ASSUME NEW i \in DOMAIN found, NEW j \in DOMAIN found, i < j,
             Hash(found[i]) = Hash(found[j])
      PROVE  found[i].type = Fact /\ found[j].type = Potential
  <2>1. found[i].type # found[j].type
    BY <1>5, <1>8 DEF Unique, TickKey
  <2>2. found[i].type = Potential => found[j].type = Potential
    <3>1. PICK a, b \in 1 .. Len(all) : a < b /\ found[i] = all[a] /\ found[j] = all[b]
      BY <1>5, <1>8 DEF Unique
    <3> QED
      BY <1>4, <1>6, <1>8, <3>1 DEF FactsFirst
  <2> QED
    BY <1>7, <2>1, <2>2
<1>9. Twins(found)
  BY <1>8 DEF Twins
<1> QED
  BY <1>5, <1>7, <1>9 DEF found

-----------------------------------------------------------------------------
\* What the message says of an opportunity.

\* The text's last five tokens are these, after so many others.
EndsWith(q, before, a, b, c, d, e) ==
  /\ Len(q) \in Nat /\ Len(q) = before + 5
  /\ q[Len(q) - 4] = a /\ q[Len(q) - 3] = b
  /\ q[Len(q) - 2] = c /\ q[Len(q) - 1] = d /\ q[Len(q)] = e

LEMMA LastFive ==
  ASSUME NEW T, NEW p \in Seq(T),
         NEW a \in T, NEW b \in T, NEW c \in T, NEW d \in T, NEW e \in T
  PROVE  EndsWith(p \o <<a, b, c, d, e>>, Len(p), a, b, c, d, e)
<1> DEFINE t == <<a, b, c, d, e>>
           q == p \o t
<1>1. t \in Seq(T) /\ Len(t) = 5
      /\ t[1] = a /\ t[2] = b /\ t[3] = c /\ t[4] = d /\ t[5] = e
  OBVIOUS
<1> HIDE DEF t
<1>2. Len(p) \in Nat
  BY LenProperties
<1>3. /\ Len(q) = Len(p) + 5
      /\ \A i \in 1 .. Len(p) + 5 :
           q[i] = IF i <= Len(p) THEN p[i] ELSE t[i - Len(p)]
  <2>1. /\ Len(p \o t) = Len(p) + Len(t)
        /\ \A i \in 1 .. Len(p) + Len(t) :
             (p \o t)[i] = IF i <= Len(p) THEN p[i] ELSE t[i - Len(p)]
    BY <1>1, ConcatProperties
  <2> QED
    BY <1>1, <2>1
<1> HIDE DEF q
<1>4. ASSUME NEW k \in 1 .. 5 PROVE q[Len(p) + k] = t[k]
  <2>1. Len(p) + k \in 1 .. Len(p) + 5 /\ ~ (Len(p) + k <= Len(p))
        /\ (Len(p) + k) - Len(p) = k
    BY <1>2
  <2> QED
    BY <1>3, <2>1
<1>5. /\ q[Len(p) + 1] = a /\ q[Len(p) + 2] = b /\ q[Len(p) + 3] = c
      /\ q[Len(p) + 4] = d /\ q[Len(p) + 5] = e
  BY <1>1, <1>4
<1>6. /\ Len(q) - 4 = Len(p) + 1 /\ Len(q) - 3 = Len(p) + 2 /\ Len(q) - 2 = Len(p) + 3
      /\ Len(q) - 1 = Len(p) + 4 /\ Len(q) \in Nat
  BY <1>2, <1>3
<1> QED
  BY <1>3, <1>5, <1>6 DEF EndsWith, q, t

\* However many tokens the chat's id and the pair make, the exchanges and the
\* prices are found from the end of the hash.
LEMMA HashParses ==
  ASSUME NEW o, NEW c, Len(PairTokens(o.pair)) \in {1, 2}, NEW T,
         ChatTokens(c) \in Seq(T), ChatTokens(c) # <<>>, PairTokens(o.pair) \in Seq(T),
         {Word(o.buyEx), Word(o.sellEx), Number(o.buyPrice), Number(o.sellPrice),
          Number(o.amount)} \subseteq T
  PROVE  parseOpHash(HashTokens(o, c)) =
           <<[buyEx |-> Word(o.buyEx), sellEx |-> Word(o.sellEx),
              buyPrice |-> Number(o.buyPrice), sellPrice |-> Number(o.sellPrice)]>>
<1> DEFINE chat == ChatTokens(c)
           pair == PairTokens(o.pair)
           p == chat \o pair
           w1 == Word(o.buyEx)
           w2 == Word(o.sellEx)
           n1 == Number(o.buyPrice)
           n2 == Number(o.sellPrice)
           n3 == Number(o.amount)
           parts == HashTokens(o, c)
           last == Len(parts)
<1>1. n1.number = TRUE /\ n2.number = TRUE /\ n3.number = TRUE
  BY DEF Number
<1>2. w1 \in T /\ w2 \in T /\ n1 \in T /\ n2 \in T /\ n3 \in T
  OBVIOUS
<1>3. parts = p \o <<w1, w2, n1, n2, n3>>
  BY DEF HashTokens
<1>4. chat \in Seq(T) /\ chat # <<>> /\ pair \in Seq(T) /\ Len(pair) \in {1, 2}
  OBVIOUS
<1>5. parseOpHash(parts) =
        IF last < 7 \/ \E i \in last - 2 .. last : ~ parts[i].number THEN <<>>
        ELSE <<[buyEx |-> parts[last - 4], sellEx |-> parts[last - 3],
                buyPrice |-> parts[last - 2], sellPrice |-> parts[last - 1]]>>
  BY DEF parseOpHash
<1> HIDE DEF chat, pair, w1, w2, n1, n2, n3, parts
<1>6. p \in Seq(T) /\ Len(p) \in Nat /\ Len(p) >= 2
  <2>1. Len(chat) \in Nat /\ Len(chat) > 0
    BY <1>4, EmptySeq, LenProperties
  <2>2. p \in Seq(T) /\ Len(p) = Len(chat) + Len(pair)
    BY <1>4, ConcatProperties
  <2> QED
    BY <1>4, <2>1, <2>2
<1> HIDE DEF p
<1>7. /\ last \in Nat /\ last >= 7
      /\ parts[last - 4] = w1 /\ parts[last - 3] = w2
      /\ parts[last - 2] = n1 /\ parts[last - 1] = n2 /\ parts[last] = n3
  <2>1. /\ last \in Nat /\ last = Len(p) + 5
        /\ parts[last - 4] = w1 /\ parts[last - 3] = w2
        /\ parts[last - 2] = n1 /\ parts[last - 1] = n2 /\ parts[last] = n3
    <3>1. EndsWith(p \o <<w1, w2, n1, n2, n3>>, Len(p), w1, w2, n1, n2, n3)
      BY <1>2, <1>6, LastFive
    <3> QED
      BY <1>3, <3>1 DEF EndsWith
  <2> HIDE DEF last
  <2> QED
    BY <1>6, <2>1
<1> HIDE DEF last
<1>8. ASSUME NEW i \in last - 2 .. last PROVE parts[i].number
  <2>1. i = last - 2 \/ i = last - 1 \/ i = last
    BY <1>7
  <2> QED
    BY <1>1, <1>7, <2>1
<1>9. ~ (last < 7)
  BY <1>7
<1> QED
  BY <1>5, <1>7, <1>8, <1>9 DEF parts, w1, w2, n1, n2

\* The texts[i] that MessageTellsWhatWasFound asks for.
Tells(text, o) ==
  /\ text.orders =
       <<[buyOn |-> ExchangeName[o.buyEx], buyPair |-> PairOf[o.buyEx],
          buyAt |-> o.buyPrice,
          sellOn |-> ExchangeName[o.sellEx], sellPair |-> PairOf[o.sellEx],
          sellAt |-> o.sellPrice]>>
  /\ text.kind = o.type /\ text.difference = o.profit
  /\ text.total = o.amount

LEMMA ExchangeIsNamed ==
  ASSUME NEW s \in Sources
  PROVE  prettyExchange(Word(s)) = ExchangeName[s]
<1>1. Word(Rapira) # Word(Grinex)
  BY DEF Word, Rapira, Grinex
<1>2. CASE s = Rapira
  <2>1. ExchangeName[s] = "Rapira"
    BY <1>2 DEF ExchangeName
  <2>2. prettyExchange(Word(s)) = "Rapira"
    BY <1>1, <1>2 DEF prettyExchange
  <2> QED
    BY <2>1, <2>2
<1>3. CASE s = Grinex
  <2>1. ExchangeName[s] = "Grinex"
    BY <1>3 DEF ExchangeName, Rapira, Grinex
  <2>2. prettyExchange(Word(s)) = "Grinex"
    BY <1>1, <1>3 DEF prettyExchange
  <2> QED
    BY <2>1, <2>2
<1> QED
  BY <1>2, <1>3 DEF Sources

LEMMA PairIsTold ==
  ASSUME NEW s \in Sources, NEW b \in Sources
  PROVE  /\ BuyPair(PairBetween(s, b)) = PairOf[b]
         /\ SellPair(PairBetween(s, b)) = PairOf[s]
         /\ Len(PairTokens(PairBetween(s, b))) \in {1, 2}
<1> DEFINE sell == PairOf[s]
           buy == PairOf[b]
<1>1. PairBetween(s, b) = IF buy = sell THEN <<buy>> ELSE <<buy, sell>>
  BY DEF PairBetween, resolveOpportunityPair
<1> HIDE DEF sell, buy
<1>2. CASE buy = sell
  BY <1>1, <1>2 DEF BuyPair, SellPair, PairTokens, sell, buy
<1>3. CASE buy # sell
  BY <1>1, <1>3 DEF BuyPair, SellPair, PairTokens, sell, buy
<1> QED
  BY <1>2, <1>3

LEMMA MessageIsTrue ==
  ASSUME NEW o \in Opportunity, o.pair = PairBetween(o.sellEx, o.buyEx), NEW c
  PROVE  Tells(formatNotificationText(buildNotification(o, c)), o)
<1> DEFINE T == {Word(""), Number(c), Word(o.pair[1]), Arrow(o.pair[2]), Word(o.buyEx),
                 Word(o.sellEx), Number(o.buyPrice), Number(o.sellPrice), Number(o.amount)}
           details == <<[buyEx |-> Word(o.buyEx), sellEx |-> Word(o.sellEx),
                         buyPrice |-> Number(o.buyPrice),
                         sellPrice |-> Number(o.sellPrice)]>>
           n == buildNotification(o, c)
           text == formatNotificationText(n)
<1>1. o.buyEx \in Sources /\ o.sellEx \in Sources
  BY DEF Opportunity
<1>2. ChatTokens(c) \in Seq(T) /\ ChatTokens(c) # <<>>
  <2> DEFINE sign == Word("")
             id == Number(c)
  <2>1. sign \in T /\ id \in T
    OBVIOUS
  <2>2. ChatTokens(c) = IF c \in Group THEN <<sign, id>> ELSE <<id>>
    BY DEF ChatTokens
  <2> HIDE DEF T, sign, id
  <2>3. <<id>> \in Seq(T) /\ <<id>> # <<>>
    BY <2>1
  <2>4. <<sign, id>> \in Seq(T) /\ <<sign, id>> # <<>>
    BY <2>1
  <2> QED
    BY <2>2, <2>3, <2>4
<1>3. PairTokens(o.pair) \in Seq(T)
  <2>1. Word(o.pair[1]) \in T /\ Arrow(o.pair[2]) \in T
    OBVIOUS
  <2> HIDE DEF T
  <2> QED
    BY <2>1 DEF PairTokens
<1>4. {Word(o.buyEx), Word(o.sellEx), Number(o.buyPrice), Number(o.sellPrice),
       Number(o.amount)} \subseteq T
  OBVIOUS
<1>5. Len(PairTokens(o.pair)) \in {1, 2}
  BY <1>1, PairIsTold
<1> HIDE DEF T
<1>6. parseOpHash(HashTokens(o, c)) = details
  BY <1>2, <1>3, <1>4, <1>5, HashParses
<1>7. /\ n.type = o.type /\ n.pair = o.pair /\ n.profit = o.profit
      /\ n.notional = o.amount /\ n.opHash = HashTokens(o, c)
  BY DEF buildNotification
<1>8. /\ details # <<>> /\ details[1].buyEx = Word(o.buyEx)
      /\ details[1].sellEx = Word(o.sellEx)
      /\ details[1].buyPrice.is = o.buyPrice /\ details[1].sellPrice.is = o.sellPrice
  BY DEF Number
<1> HIDE DEF details, n
<1>9. text = [kind |-> o.type, pair |-> o.pair,
              orders |-> <<[buyOn |-> prettyExchange(Word(o.buyEx)),
                            buyPair |-> BuyPair(o.pair), buyAt |-> o.buyPrice,
                            sellOn |-> prettyExchange(Word(o.sellEx)),
                            sellPair |-> SellPair(o.pair), sellAt |-> o.sellPrice]>>,
              difference |-> o.profit, total |-> o.amount]
  BY <1>6, <1>7, <1>8 DEF formatNotificationText
<1>10. /\ prettyExchange(Word(o.buyEx)) = ExchangeName[o.buyEx]
       /\ prettyExchange(Word(o.sellEx)) = ExchangeName[o.sellEx]
       /\ BuyPair(o.pair) = PairOf[o.buyEx] /\ SellPair(o.pair) = PairOf[o.sellEx]
  BY <1>1, ExchangeIsNamed, PairIsTold
<1>11. Tells(text, o)
  BY <1>9, <1>10 DEF Tells
<1> QED
  BY <1>11 DEF n

-----------------------------------------------------------------------------
\* The inductive invariant: what each phase has made of what the last one left.
Texts(found, c) ==
  [i \in DOMAIN found |-> formatNotificationText(buildNotification(found[i], c))]

PhaseInv ==
  /\ phase \in {"poll", "pollGrinex", "detect", "tell", "done"}
  /\ books = [s \in Sources |-> books[s]]

BooksInv == \A s \in Sources : OptionalBook(books[s])

OppsInv ==
  \/ phase \in {"poll", "pollGrinex", "detect"} /\ opps = <<>>
  \/ phase \in {"tell", "done"} /\ opps = TickOpportunities(books[Rapira], books[Grinex])

TextsInv ==
  \/ phase # "done" /\ texts = <<>>
  \/ phase = "done" /\ \E c \in Person \cup Group : texts = Texts(opps, c)

PathInv == PhaseInv /\ BooksInv /\ OppsInv /\ TextsInv

LEMMA InitPath == Init => PathInv
BY DEF Init, PathInv, PhaseInv, BooksInv, OppsInv, TextsInv, OptionalBook

LEMMA NextPath == PathInv /\ [Next]_vars => PathInv'
<1> SUFFICES ASSUME PathInv, [Next]_vars
             PROVE  PathInv'
  OBVIOUS
<1> USE DEF PathInv
<1>1. CASE PollRapira
  <2>1. PICK asks \in RapiraAsks, bids \in RapiraBids :
          books' = [books EXCEPT ![Rapira] = RapiraMapper(asks, bids)]
    BY <1>1 DEF PollRapira
  <2>2. OptionalBook(RapiraMapper(asks, bids))
    BY RapiraBookIsGood
  <2>3. /\ phase = "poll" /\ phase' = "pollGrinex" /\ opps' = opps /\ texts' = texts
    BY <1>1 DEF PollRapira
  <2>4. PhaseInv'
    BY <2>1, <2>3 DEF PhaseInv
  <2>5. BooksInv'
    BY <2>1, <2>2 DEF BooksInv, PhaseInv
  <2> QED
    BY <2>3, <2>4, <2>5 DEF OppsInv, TextsInv
<1>2. CASE PollGrinex
  <2>1. PICK asks \in GrinexAsks, bids \in GrinexBids :
          books' = [books EXCEPT ![Grinex] = GrinexMapper(asks, bids)]
    BY <1>2 DEF PollGrinex
  <2>2. OptionalBook(GrinexMapper(asks, bids))
    BY GrinexBookIsGood
  <2>3. /\ phase = "pollGrinex" /\ phase' = "detect" /\ opps' = opps /\ texts' = texts
    BY <1>2 DEF PollGrinex
  <2>4. PhaseInv'
    BY <2>1, <2>3 DEF PhaseInv
  <2>5. BooksInv'
    BY <2>1, <2>2 DEF BooksInv, PhaseInv
  <2> QED
    BY <2>3, <2>4, <2>5 DEF OppsInv, TextsInv
<1>3. CASE Detect
  BY <1>3 DEF Detect, PhaseInv, BooksInv, OppsInv, TextsInv
<1>4. CASE Notify
  <2>1. PICK c \in Person \cup Group : texts' = Texts(opps, c)
    BY <1>4 DEF Notify, Texts
  <2>2. /\ phase = "tell" /\ phase' = "done" /\ books' = books /\ opps' = opps
    BY <1>4 DEF Notify
  <2>3. TextsInv'
    BY <2>1, <2>2 DEF TextsInv
  <2> QED
    BY <2>2, <2>3 DEF PhaseInv, BooksInv, OppsInv
<1>5. CASE UNCHANGED vars
  BY <1>5 DEF vars, PhaseInv, BooksInv, OppsInv, TextsInv
<1> QED
  BY <1>1, <1>2, <1>3, <1>4, <1>5 DEF Next

LEMMA PathInvariant == Spec => []PathInv
BY InitPath, NextPath, PTL DEF Spec

LEMMA OppsAreRight ==
  ASSUME PathInv
  PROVE  opps \in Seq(Opportunity) /\ Twins(opps) /\ \A i \in DOMAIN opps : Right(opps[i], books)
<1>1. CASE opps = <<>>
  <2>1. DOMAIN opps = {}
    BY <1>1
  <2> QED
    BY <1>1, <2>1 DEF Twins
<1>2. CASE opps = TickOpportunities(books[Rapira], books[Grinex])
  BY <1>2, TickIsRight DEF PathInv, PhaseInv, BooksInv
<1> QED
  BY <1>1, <1>2 DEF PathInv, OppsInv

\* Every state of the path is one the code's types admit: what a gateway stores
\* is a book, what a tick finds are opportunities, and there is one message for
\* each of them once there are any.
THEOREM TypeCorrect == Spec => []TypeOK
<1>1. PathInv => TypeOK
  <2> SUFFICES ASSUME PathInv PROVE TypeOK
    OBVIOUS
  <2>1. opps \in Seq(Opportunity)
    BY OppsAreRight
  <2>2. Len(texts) \in {0, Len(opps)}
    <3>1. CASE texts = <<>>
      BY <3>1
    <3>2. ASSUME NEW c, texts = Texts(opps, c) PROVE Len(texts) = Len(opps)
      <4> DEFINE n == Len(opps)
                 T == {texts[i] : i \in 1 .. n}
      <4>1. n \in Nat /\ DOMAIN opps = 1 .. n
        BY <2>1, LenProperties
      <4>2. texts \in [1 .. n -> T]
        BY <3>2, <4>1 DEF Texts
      <4> HIDE DEF n, T
      <4>3. texts \in Seq(T) /\ DOMAIN texts = 1 .. n
        BY <4>1, <4>2, SeqDef
      <4>4. Len(texts) \in Nat /\ DOMAIN texts = 1 .. Len(texts)
        BY <4>3, LenProperties
      <4>5. Len(texts) = n
        BY <4>1, <4>3, <4>4
      <4> QED
        BY <4>5 DEF n
    <3> QED
      BY <3>1, <3>2 DEF PathInv, TextsInv
  <2>3. ASSUME NEW s \in Sources, books[s] # <<>> PROVE books[s][1] \in Book
    <3> DEFINE book == books[s][1]
    <3>1. GoodBook(book)
      BY <2>3 DEF PathInv, BooksInv, OptionalBook
    <3> HIDE DEF book
    <3>2. book = [asks |-> book.asks, bids |-> book.bids]
          /\ book.asks \in Seq(Level) /\ book.bids \in Seq(Level)
      BY <3>1 DEF GoodBook, GoodAsks, GoodBids, GoodSide
    <3>3. book \in Book
      BY <3>2 DEF Book
    <3> QED
      BY <3>3 DEF book
  <2> QED
    BY <2>1, <2>2, <2>3 DEF TypeOK, PathInv, PhaseInv
<1> QED
  BY <1>1, PathInvariant, PTL

\* Whatever the two exchanges answer, no profit is announced beyond the spread of
\* the two prices announced with it and the cent that rounding may add: the fees
\* of detection.go are never earned.
THEOREM ProfitStaysWithinSpread == Spec => []ProfitWithinSpread
<1>1. PathInv => ProfitWithinSpread
  BY OppsAreRight DEF ProfitWithinSpread, Found, Right
<1> QED
  BY <1>1, PathInvariant, PTL

\* Whatever the two exchanges answer, the amount announced is positive, and each
\* of the two books of the opportunity holds it at the price announced or better:
\* the cumulated notionals of the mappers bound what the detectors take.
THEOREM AmountsAreAvailable == Spec => []AmountIsAvailable
<1>1. PathInv => AmountIsAvailable
  BY OppsAreRight DEF AmountIsAvailable, Found, Right
<1> QED
  BY <1>1, PathInvariant, PTL

\* Of what a tick fans out, at most two share a hash, a fact and a potential, and
\* the fact is first: the chat's key, which lets one of them through, is taken by
\* the fact.
THEOREM FactsComeFirst == Spec => []TwinsAreFactThenPotential
<1>1. PathInv => TwinsAreFactThenPotential
  BY OppsAreRight DEF TwinsAreFactThenPotential, Twins
<1> QED
  BY <1>1, PathInvariant, PTL

\* A message names the exchanges, markets and prices of the opportunity it is
\* about, for every chat, person or group, and for one market or two: tg-bot reads
\* the hash from its end, where no dash of an id or a pair can shift it.
THEOREM MessagesAreTrue == Spec => []MessageTellsWhatWasFound
<1>1. PathInv => MessageTellsWhatWasFound
  <2> SUFFICES ASSUME PathInv, NEW i \in DOMAIN texts
               PROVE  Tells(texts[i], opps[i])
    BY DEF MessageTellsWhatWasFound, Tells
  <2>1. texts # <<>>
    OBVIOUS
  <2>2. PICK c \in Person \cup Group : texts = Texts(opps, c)
    BY <2>1 DEF PathInv, TextsInv
  <2>3. /\ i \in DOMAIN opps
        /\ texts[i] = formatNotificationText(buildNotification(opps[i], c))
    BY <2>2 DEF Texts
  <2>4. opps[i] \in Opportunity /\ opps[i].pair = PairBetween(opps[i].sellEx, opps[i].buyEx)
    BY <2>3, OppsAreRight DEF Right
  <2> QED
    BY <2>3, <2>4, MessageIsTrue
<1> QED
  BY <1>1, PathInvariant, PTL
=============================================================================
