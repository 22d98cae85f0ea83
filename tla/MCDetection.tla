---------------------------- MODULE MCDetection -----------------------------
(***************************************************************************)
(* Every pair of small answers of the two exchanges, for TLC.              *)
(***************************************************************************)
EXTENDS TickPath, SequencesExt

AskSides(raw, len) == {s \in BoundedSeq(raw, len) : BestFirstAsks(s)}
BidSides(raw, len) == {s \in BoundedSeq(raw, len) : BestFirstBids(s)}

\* Prices in half cents.  Rapira's plate crosses its own two sides; Grinex has
\* more levels than are kept, and a level that does not parse among those kept
\* or below them.
MCRapiraAsks == AskSides(Raw({205, 209}, {2}), 2)
MCRapiraBids == BidSides(Raw({202, 198}, {1}), 2)
BadLevel == [price |-> Bad, volume |-> 1]
MCGrinexAsks ==
  LET sides == AskSides(Raw({209, 232}, {1, 2}), 3)
  IN sides \cup {Append(s, BadLevel) : s \in {t \in sides : Len(t) \in 1 .. 2}}
MCGrinexBids == BidSides(Raw({214, 198}, {1}), 3)
=============================================================================
