------------------------ MODULE PotentialScanProofs -------------------------
(***************************************************************************)
(* Theorems about the detectors' loop, for books of any length and any     *)
(* profits.                                                                *)
(***************************************************************************)
EXTENDS PotentialScan, TLAPS

LEMMA InitType == Init => TypeOK
<1> SUFFICES ASSUME Init PROVE TypeOK
  OBVIOUS
<1>1. PICK len \in 1 .. MaxLevels :
        /\ profit \in [1 .. len -> Profits]
        /\ amount \in [1 .. len -> Amounts]
        /\ n = ScanDepth(Depth, len)
  BY DEF Init
<1>2. len \in Nat \ {0} /\ n \in Nat \ {0} /\ n <= len
  BY <1>1, ScanAssumption DEF ScanDepth
<1>3. i = 2 /\ best = 0
  BY DEF Init
<1>4. /\ profit \in [1 .. len -> Int] /\ DOMAIN profit = 1 .. len
      /\ amount \in [1 .. len -> Int]
  BY <1>1, ScanAssumption
<1>5. 1 .. n \subseteq 1 .. len
  BY <1>2
<1>6. i \in 2 .. n + 1 /\ best \in 0 .. n
  BY <1>2, <1>3
<1> QED
  BY <1>2, <1>4, <1>5, <1>6 DEF TypeOK

LEMMA NextType == TypeOK /\ [Next]_vars => TypeOK'
<1> SUFFICES ASSUME TypeOK, [Next]_vars PROVE TypeOK'
  OBVIOUS
<1>1. CASE SkipLevel
  BY <1>1 DEF TypeOK, SkipLevel, book
<1>2. CASE TakeLevel
  BY <1>2 DEF TypeOK, TakeLevel, book
<1>3. CASE KeepBest
  BY <1>3 DEF TypeOK, KeepBest, book
<1>4. CASE UNCHANGED vars
  BY <1>4 DEF TypeOK, vars
<1> QED
  BY <1>1, <1>2, <1>3, <1>4 DEF Next

\* The loop stays within the levels its caller asked for, and the level it keeps
\* is one of them.
THEOREM TypeCorrect == Spec => []TypeOK
<1> QED
  BY InitType, NextType, PTL DEF Spec

\* Level k added to the scanned prefix qualifies exactly when it reaches the floor.
LEMMA QualifyingGrows ==
  ASSUME NEW p, NEW k \in Nat, k >= 2
  PROVE  Qualifying(p, k) =
           Qualifying(p, k - 1) \cup {j \in {k} : p[k] > PotentialFloor}
<1>1. 2 .. k = (2 .. (k - 1)) \cup {k}
  OBVIOUS
<1> QED
  BY <1>1 DEF Qualifying

LEMMA BestIsQualifying ==
  ASSUME NEW p, NEW k
  PROVE  BestLevel(p, k) \subseteq Qualifying(p, k)
BY DEF BestLevel

\* An empty accumulator means that no level passed qualifies: the invariant
\* needs it said, since that a non-empty set of profits has a greatest one is
\* itself an induction, the one this loop carries out.
Scanned ==
  /\ TypeOK
  /\ ScanKeepsBest
  /\ best = 0 => Qualifying(profit, i - 1) = {}

LEMMA InitScanned == Init => Scanned
<1> SUFFICES ASSUME Init PROVE Scanned
  OBVIOUS
<1>1. TypeOK
  BY InitType
<1>2. i = 2 /\ best = 0
  BY DEF Init
<1>3. Qualifying(profit, 1) = {}
  BY DEF Qualifying
<1>4. BestLevel(profit, i - 1) = {}
  BY <1>2, <1>3 DEF BestLevel
<1> QED
  BY <1>1, <1>2, <1>3, <1>4 DEF Scanned, ScanKeepsBest

LEMMA NextScanned == Scanned /\ [Next]_vars => Scanned'
<1> SUFFICES ASSUME Scanned, [Next]_vars PROVE Scanned'
  OBVIOUS
<1>1. TypeOK /\ TypeOK'
  BY NextType DEF Scanned
<1>2. (IF best = 0 THEN {} ELSE {best}) = BestLevel(profit, i - 1)
  BY DEF Scanned, ScanKeepsBest
<1>3. /\ i \in Nat /\ i >= 2 /\ i - 1 \in Nat
      /\ \A j \in Qualifying(profit, i - 1) : j \in Nat /\ j < i
  BY <1>1 DEF TypeOK, Qualifying
<1>4. /\ \A j \in Qualifying(profit, i - 1) : profit[j] \in Int
      /\ i <= n => profit[i] \in Int
  BY <1>1 DEF TypeOK, Qualifying
<1>5. Qualifying(profit, i) =
        Qualifying(profit, i - 1) \cup {j \in {i} : profit[i] > PotentialFloor}
  BY <1>3, QualifyingGrows
<1>6. best # 0 => /\ best \in Qualifying(profit, i - 1)
                 /\ \A j \in Qualifying(profit, i - 1) :
                      /\ profit[j] <= profit[best]
                      /\ profit[j] = profit[best] => best <= j
  BY <1>2 DEF BestLevel
<1>7. CASE SkipLevel
  <2>1. i' = i + 1 /\ best' = best /\ profit' = profit
    BY <1>7 DEF SkipLevel, book
  <2>2. Qualifying(profit, i) = Qualifying(profit, i - 1)
    BY <1>4, <1>5, <1>7 DEF SkipLevel, PotentialFloor
  <2>3. BestLevel(profit, i) = BestLevel(profit, i - 1)
    BY <2>2 DEF BestLevel
  <2>4. i' - 1 = i
    BY <1>3, <2>1
  <2> QED
    BY <1>1, <1>2, <2>1, <2>2, <2>3, <2>4 DEF Scanned, ScanKeepsBest
<1>8. CASE TakeLevel
  <2>1. /\ i' - 1 = i /\ best' = i /\ profit' = profit /\ i # 0
        /\ profit[i] \in Int
    BY <1>3, <1>4, <1>8 DEF TakeLevel, book
  <2>2. Qualifying(profit, i) = Qualifying(profit, i - 1) \cup {i}
    BY <1>5, <1>8 DEF TakeLevel
  <2>3. \A j \in Qualifying(profit, i - 1) : profit[j] < profit[i]
    <3>1. CASE best = 0
      BY <3>1 DEF Scanned
    <3>2. CASE best # 0
      BY <1>4, <1>6, <1>8, <2>1, <3>2 DEF TakeLevel, BestStays
    <3> QED
      BY <3>1, <3>2
  <2>4. BestLevel(profit, i) = {i}
    BY <1>3, <1>4, <2>1, <2>2, <2>3 DEF BestLevel
  <2> QED
    BY <1>1, <2>1, <2>4 DEF Scanned, ScanKeepsBest
<1>9. CASE KeepBest
  <2>1. /\ i' - 1 = i /\ best' = best /\ profit' = profit
        /\ best # 0 /\ profit[i] <= profit[best] /\ profit[i] \in Int
    BY <1>1, <1>3, <1>4, <1>6, <1>9 DEF KeepBest, BestStays, book
  <2>2. Qualifying(profit, i) = Qualifying(profit, i - 1) \cup {i}
    BY <1>5, <1>9 DEF KeepBest
  <2>3. BestLevel(profit, i) = {best}
    BY <1>3, <1>4, <1>6, <2>1, <2>2 DEF BestLevel
  <2> QED
    BY <1>1, <2>1, <2>3 DEF Scanned, ScanKeepsBest
<1>10. CASE UNCHANGED vars
  BY <1>1, <1>2, <1>10 DEF vars, Scanned, ScanKeepsBest
<1> QED
  BY <1>7, <1>8, <1>9, <1>10 DEF Next

\* At every moment the loop holds the first level of greatest profit among
\* those it has passed; at the end, of the whole depth (detection.go:84-119).
THEOREM ScanIsBest == Spec => []ScanKeepsBest
<1>1. Init => Scanned
  BY InitScanned
<1>2. Scanned /\ [Next]_vars => Scanned'
  BY NextScanned
<1>3. Scanned => ScanKeepsBest
  BY DEF Scanned
<1> QED
  BY <1>1, <1>2, <1>3, PTL DEF Spec

\* A user without a limit loses nothing by being offered only one level per
\* book: if any level would have passed MatchUserSettings, the one kept does.
THEOREM OneCandidateIsEnough == Spec => []UnlimitedUserMissesNothing
<1>1. Init => Scanned
  BY InitScanned
<1>2. Scanned /\ [Next]_vars => Scanned'
  BY NextScanned
<1>3. Scanned => UnlimitedUserMissesNothing
  <2> SUFFICES ASSUME Scanned, Done, NEW t \in Thresholds,
                      NEW j \in Qualifying(profit, n), ~ Below(profit[j], t)
               PROVE  best # 0 /\ ~ Below(profit[best], t)
    BY DEF UnlimitedUserMissesNothing
  <2>1. i - 1 = n
    BY DEF Scanned, TypeOK, Done
  <2>2. best # 0
    BY <2>1 DEF Scanned
  <2>3. best \in Qualifying(profit, n) /\ profit[j] <= profit[best]
    BY <2>1, <2>2 DEF Scanned, ScanKeepsBest, BestLevel
  <2>4. profit[j] \in Int /\ profit[best] \in Int
    BY <2>3 DEF Scanned, TypeOK, Qualifying
  <2> QED
    BY <2>2, <2>3, <2>4, ScanAssumption DEF Below, Threshold
<1> QED
  BY <1>1, <1>2, <1>3, PTL DEF Spec
=============================================================================
