---------------------------- MODULE PotentialScan ----------------------------
(***************************************************************************)
(* The loop of DetectPotentialByBids and DetectPotentialByAsks, one level  *)
(* per step, and what its result is worth to a user.  The two functions    *)
(* differ only in which side's levels they walk: here a level is its       *)
(* rounded profit against the top of the other side, in cents, and the     *)
(* amount of the candidate it would give.                                  *)
(***************************************************************************)
EXTENDS Domain, Levels

CONSTANTS
  Profits,      \* the profits a level may have
  Amounts,      \* the amounts a candidate may have
  Thresholds,   \* the minimal profits a user may have set
  MaxLevels,    \* bound: levels in a book
  Depth         \* the depth the caller asks for; 5 in HandleTick

ASSUME ScanAssumption ==
  /\ Profits \subseteq Int
  /\ Amounts \subseteq Int
  /\ Thresholds \subseteq Threshold
  /\ MaxLevels \in Nat
  /\ Depth \in Int

VARIABLES
  profit, amount,   \* the levels: fixed by Init
  n,                \* how many of them the loop looks at
  i,                \* the level it is at
  best              \* the level kept so far, 0 for nil

vars == <<profit, amount, n, i, best>>
book == <<profit, amount, n>>

\* The mappers cumulate the volume, so the amounts do not fall with the level.
\* The code's i := 1 is the second level.
Init ==
  /\ \E len \in 1 .. MaxLevels :
       /\ profit \in [1 .. len -> Profits]
       /\ amount \in [1 .. len -> Amounts]
       /\ \A j, k \in 1 .. len : j <= k => amount[j] <= amount[k]
       /\ n = ScanDepth(Depth, len)
  /\ i = 2
  /\ best = 0

\* if profit <= 0.03 { continue }
SkipLevel ==
  /\ i <= n
  /\ profit[i] <= PotentialFloor
  /\ i' = i + 1
  /\ UNCHANGED <<book, best>>

\* A variant that keeps whatever comes last.
BestStaysNever == FALSE

\* A variant that lets a later level of equal profit win.
BestStaysStrict == best # 0 /\ profit[i] < profit[best]

\* best == nil || candidate.ProfitDiff > best.ProfitDiff, negated.
BestStays == best # 0 /\ profit[i] <= profit[best]

TakeLevel ==
  /\ i <= n
  /\ profit[i] > PotentialFloor
  /\ ~ BestStays
  /\ best' = i
  /\ i' = i + 1
  /\ UNCHANGED book

KeepBest ==
  /\ i <= n
  /\ profit[i] > PotentialFloor
  /\ BestStays
  /\ i' = i + 1
  /\ UNCHANGED <<book, best>>

Next == SkipLevel \/ TakeLevel \/ KeepBest

Spec == Init /\ [][Next]_vars

Done == i > n

-----------------------------------------------------------------------------
TypeOK ==
  /\ n \in Nat \ {0}
  /\ profit \in [DOMAIN profit -> Int] /\ 1 .. n \subseteq DOMAIN profit
  /\ amount \in [DOMAIN profit -> Int]
  /\ i \in 2 .. n + 1
  /\ best \in 0 .. n

\* The loop's accumulator is the best of the levels passed, and the first one
\* among equals: what BestLevel says of a whole book, here of its prefix.
ScanKeepsBest ==
  (IF best = 0 THEN {} ELSE {best}) = BestLevel(profit, i - 1)

\* The one candidate returned is enough for a user without a limit: whatever
\* threshold he chose (NaN included), if some level within the depth is worth
\* signalling to him, so is the one the detector returns.
UnlimitedUserMissesNothing ==
  Done =>
    \A t \in Thresholds :
      (\E j \in Qualifying(profit, n) : ~ Below(profit[j], t)) =>
        best # 0 /\ ~ Below(profit[best], t)

\* docs/Architecture.md:190-207: a level is a potential situation of a user
\* when its cumulative volume fits his limit and its profit his threshold.
LimitedUserMissesNothing ==
  Done =>
    \A t \in Thresholds, limit \in Amounts :
      (\E j \in Qualifying(profit, n) :
          ~ Below(profit[j], t) /\ ~ Exceeds(amount[j], limit)) =>
        best # 0 /\ ~ Below(profit[best], t) /\ ~ Exceeds(amount[best], limit)
=============================================================================
