------------------------------- MODULE Levels -------------------------------
(***************************************************************************)
(* What the two DetectPotential functions look for in a book, as a set:    *)
(* the level they keep.  profit[i] is the rounded profit, in cents, of     *)
(* taking level i of one book against the top of the other.  Levels count  *)
(* from 1 here; the code's loop starts at its index 1, this level 2.       *)
(***************************************************************************)
EXTENDS Integers

PotentialFloor == 3       \* profit <= 0.03 is skipped

\* A variant that does not stop at the end of the book.
ScanDepthUnclamped(depth, len) == IF depth <= 0 THEN len ELSE depth

\* How many levels the loop looks at: depth, or the whole book if depth is
\* not positive or exceeds it.
ScanDepth(depth, len) == IF depth <= 0 \/ depth > len THEN len ELSE depth

\* The levels that reach the floor.
Qualifying(profit, n) == {i \in 2 .. n : profit[i] > PotentialFloor}

\* The first level of greatest profit: a later one replaces it only if it is
\* strictly better.  A singleton, or empty when no level qualifies.
BestLevel(profit, n) ==
  {i \in Qualifying(profit, n) :
     \A j \in Qualifying(profit, n) :
        /\ profit[j] <= profit[i]
        /\ profit[j] = profit[i] => i <= j}
=============================================================================
