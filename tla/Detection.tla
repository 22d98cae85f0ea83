----------------------------- MODULE Detection ------------------------------
(***************************************************************************)
(* The arbitrage detectors (internal/analyser/usecase/detection.go) and the*)
(* part of HandleTick that turns the books it read into the list of        *)
(* opportunities it fans out.                                              *)
(*                                                                         *)
(* A price in a book is an integer number of 1/Sub cents, so that round2   *)
(* has something to round; the floats of the code are exact rationals here.*)
(* A fee is fee / FeeDen.  An optional value is a sequence of length 0 or  *)
(* 1: <<>> is Go's nil.                                                    *)
(***************************************************************************)
EXTENDS Domain, Levels

CONSTANTS
  Sub,       \* price units in a cent
  FeeNum,    \* the Grinex fee is FeeNum / FeeDen (0.0005 in the code)
  FeeDen,
  Depth      \* the depth HandleTick passes to both potential detectors (5)

ASSUME PriceUnitsAssumption ==
  /\ Sub \in Nat \ {0}
  /\ FeeNum \in Nat
  /\ FeeDen \in Nat \ {0}
  /\ Depth \in Nat

FactFloor == 1            \* profit <= 0.01 is not an opportunity

Fee == [s \in Sources |-> IF s = Rapira THEN 0 ELSE FeeNum]

-----------------------------------------------------------------------------
\* A variant that takes the greater amount.
Larger(x, y) == IF x <= y THEN y ELSE x

Smaller(x, y) == IF x <= y THEN x ELSE y

\* math.Round(n / d): to nearest, half away from zero.
RoundDiv(n, d) ==
  IF n >= 0 THEN (2 * n + d) \div (2 * d)
            ELSE - ((2 * (-n) + d) \div (2 * d))

round2(p) == RoundDiv(p, Sub)

\* A variant with the fees on the wrong sides: earned, not paid.
ProfitFeesEarned(ask, bid, feeAsk, feeBid) ==
  RoundDiv(ask * (FeeDen + feeAsk) * (FeeDen + feeBid) - bid * FeeDen * FeeDen,
           Sub * FeeDen * (FeeDen + feeBid))

\* round2(ask / (1 + feeAsk) - bid * (1 + feeBid)), in cents.
Profit(ask, bid, feeAsk, feeBid) ==
  RoundDiv(ask * FeeDen * FeeDen - bid * (FeeDen + feeAsk) * (FeeDen + feeBid),
           Sub * FeeDen * (FeeDen + feeAsk))

\* The opportunity both kinds of detector build.
Candidate(type, pair, ask, bid, askSrc, bidSrc, amount) ==
  [type |-> type, pair |-> pair, buyEx |-> bidSrc, sellEx |-> askSrc,
   buyPrice |-> round2(bid.price), sellPrice |-> round2(ask.price),
   amount |-> amount,
   profit |-> Profit(ask.price, bid.price, Fee[askSrc], Fee[bidSrc])]

DetectFact(asks, bids, askSrc, bidSrc, pair) ==
  IF asks = <<>> \/ bids = <<>> THEN <<>>
  ELSE LET o == Candidate(Fact, pair, asks[1], bids[1], askSrc, bidSrc,
                          Smaller(asks[1].amount, bids[1].amount))
       IN IF o.profit > FactFloor /\ o.amount > 0 THEN <<o>> ELSE <<>>

\* The scan the two DetectPotential functions share, over the candidates of
\* the levels of one side against the top of the other.
BestCandidate(cand, depth) ==
  LET n == ScanDepth(depth, Len(cand))
      profit == [i \in DOMAIN cand |-> cand[i].profit]
  IN IF BestLevel(profit, n) = {} THEN <<>>
     ELSE <<cand[CHOOSE i \in BestLevel(profit, n) : TRUE]>>

DetectPotentialByBids(asks, bids, askSrc, bidSrc, pair, depth) ==
  IF asks = <<>> \/ bids = <<>> THEN <<>>
  ELSE BestCandidate(
         [i \in DOMAIN bids |->
            Candidate(Potential, pair, asks[1], bids[i], askSrc, bidSrc,
                      Smaller(asks[1].notional, bids[i].notional))], depth)

DetectPotentialByAsks(asks, bids, askSrc, bidSrc, pair, depth) ==
  IF asks = <<>> \/ bids = <<>> THEN <<>>
  ELSE BestCandidate(
         [i \in DOMAIN asks |->
            Candidate(Potential, pair, asks[i], bids[1], askSrc, bidSrc,
                      Smaller(asks[i].notional, bids[1].notional))], depth)

-----------------------------------------------------------------------------
\* The identity dedupTickOpportunities compares: with the Type, unlike Hash.
TickKey(o) == <<o.type, Hash(o)>>

\* The first opportunity of each key, in the order found.
dedupTickOpportunities(in) ==
  LET unique[k \in 0 .. Len(in)] ==
        IF k = 0 THEN <<>>
        ELSE LET out == unique[k - 1]
             IN IF \E i \in DOMAIN out : TickKey(out[i]) = TickKey(in[k])
                THEN out ELSE Append(out, in[k])
  IN unique[Len(in)]

\* A book HandleTick appends: one it got, with orders on both sides.
Usable(book) == book # <<>> /\ book[1].asks # <<>> /\ book[1].bids # <<>>

\* A variant that looks for the potentials first.
DetectBetweenPotentialFirst(s, b, asks, bids) ==
  LET pair == resolveOpportunityPair(PairOf[b], PairOf[s])
  IN DetectPotentialByAsks(asks, bids, s, b, pair, Depth)
     \o DetectFact(asks, bids, s, b, pair)

\* The body of the double loop: the asks of book s against the bids of book b.
DetectBetween(s, b, asks, bids) ==
  LET pair == resolveOpportunityPair(PairOf[b], PairOf[s])
  IN DetectFact(asks, bids, s, b, pair)
     \o DetectPotentialByAsks(asks, bids, s, b, pair, Depth)
     \o DetectPotentialByBids(asks, bids, s, b, pair, Depth)

Between(books, s, b) ==
  IF Usable(books[s]) /\ Usable(books[b])
  THEN DetectBetween(s, b, books[s][1].asks, books[b][1].bids)
  ELSE <<>>

\* The double loop over the usable ones of these two (optional) books.
FoundInOrder(books) ==
  Between(books, Rapira, Rapira) \o Between(books, Rapira, Grinex)
  \o Between(books, Grinex, Rapira) \o Between(books, Grinex, Grinex)

\* What a tick fans out when it read these two (optional) books.
TickOpportunities(rapira, grinex) ==
  dedupTickOpportunities(
    FoundInOrder([s \in Sources |-> IF s = Rapira THEN rapira ELSE grinex]))
=============================================================================
