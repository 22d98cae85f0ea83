----------------------------- MODULE MCAnalyser -----------------------------
(***************************************************************************)
(* A finite instance of Analyser for TLC.  The opportunities of a tick are *)
(* what module Detection finds in one real Rapira and one real Grinex book:*)
(* nothing in either alone, and across them a fact and, one level deeper,  *)
(* a potential, which have different hashes.                               *)
(***************************************************************************)
EXTENDS AnalyserFeed, Detection

CONSTANTS
  c1, c2,            \* chats
  rBook, gBook       \* the books, as the states of the model name them

Order(price, amount, notional) ==
  [price |-> price, amount |-> amount, notional |-> notional]

\* Grinex has the deeper book: its second ask is the potential.
RapiraBook == [asks |-> <<Order(101, 5, 5)>>, bids |-> <<Order(100, 5, 5)>>]
GrinexBook == [asks |-> <<Order(108, 1, 1), Order(110, 2, 3)>>,
               bids |-> <<Order(107, 4, 4)>>]

\* The same without the second level: one opportunity, a fact.
ShallowGrinexBook == [GrinexBook EXCEPT !.asks = <<Order(108, 1, 1)>>]

MCBooksOf == [s \in Sources |-> {IF s = Rapira THEN rBook ELSE gBook}]

DetectedIn(grinexBook) ==
  [k \in {rBook, NoBook} \X {gBook, NoBook} |->
     TickOpportunities(IF k[1] = rBook THEN <<RapiraBook>> ELSE <<>>,
                       IF k[2] = gBook THEN <<grinexBook>> ELSE <<>>)]

\* What it finds, spelled out so that TLC does not compute it again and again.
FactOpp ==
  [type |-> Fact, pair |-> <<"USDT_RUB", "USDT_A7A5">>, buyEx |-> Rapira,
   sellEx |-> Grinex, buyPrice |-> 100, sellPrice |-> 108, amount |-> 1,
   profit |-> 8]
PotentialOpp ==
  [FactOpp EXCEPT !.type = Potential, !.sellPrice = 110, !.amount = 3, !.profit = 10]

FoundInBoth(found) ==
  [k \in {rBook, NoBook} \X {gBook, NoBook} |->
     IF k = <<rBook, gBook>> THEN found ELSE <<>>]

MCDetected == FoundInBoth(<<FactOpp, PotentialOpp>>)
MCShallowDetected == FoundInBoth(<<FactOpp>>)

ASSUME DetectionFindsThese ==
  /\ MCDetected = DetectedIn(GrinexBook)
  /\ MCShallowDetected = DetectedIn(ShallowGrinexBook)

\* What a user may have saved: both kinds without a limit, or only potentials.
Both == [watchFact |-> TRUE, watchPotential |-> TRUE, minDiffFact |-> 2,
         minDiffPotential |-> 2, maxNotional |-> 0]
PotentialsOnly == [Both EXCEPT !.watchFact = FALSE]

MCOneSetting == {Both}
MCSettings == {Both, PotentialsOnly}

\* The fan-out has something to offer: without this nothing below is tested.
ASSUME InstanceFindsSignals == \E o \in Opps : MatchUserSettings(Both, o)
=============================================================================
