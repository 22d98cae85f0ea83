------------------------------- MODULE Domain -------------------------------
(***************************************************************************)
(* The value types the analyser passes around (internal/analyser/domain)   *)
(* and the pure predicates on them: the identity of an opportunity for the *)
(* deduplication, and whether a user's settings ask for an opportunity.    *)
(*                                                                         *)
(* Prices and profits are whole cents: every price and profit of an        *)
(* Opportunity has gone through round2.  Amounts are whole units of the    *)
(* base currency.  A threshold a user typed is an integer number of cents  *)
(* or NaN, which strconv.ParseFloat returns for the text "nan" and which   *)
(* makes every comparison false.                                           *)
(***************************************************************************)
EXTENDS Integers, Sequences

CONSTANT NaN      \* the not-a-number float

ASSUME NaNAssumption == NaN \notin Int

-----------------------------------------------------------------------------
Fact == "fact"
Potential == "potential"

Rapira == "rapira"
Grinex == "grinex_usdt_a7a5"
Sources == {Rapira, Grinex}

\* The market pair a source is read for.
PairOf == [s \in Sources |-> IF s = Rapira THEN "USDT_RUB" ELSE "USDT_A7A5"]

\* resolveOpportunityPair: the pair itself, or "buy->sell" across two pairs.
resolveOpportunityPair(buyPair, sellPair) ==
  IF buyPair = sellPair THEN <<buyPair>> ELSE <<buyPair, sellPair>>

\* domain.Order and a book of them; a price is an integer number of fractions
\* of a cent, notional is the volume cumulated down to this level.
Level == [price : Nat, amount : Nat, notional : Nat]
Book == [asks : Seq(Level), bids : Seq(Level)]

\* domain.Opportunity, without the fields only the message text uses.
Opportunity ==
  [type : {Fact, Potential}, pair : Seq({PairOf[s] : s \in Sources}),
   buyEx : Sources, sellEx : Sources,
   buyPrice : Int, sellPrice : Int, amount : Int, profit : Int]

\* Opportunity.Hash: the chat is left out, since a hash is only ever compared
\* inside the per-chat key; the Type is left out because the code leaves it out.
Hash(o) == <<o.pair, o.buyEx, o.sellEx, o.buyPrice, o.sellPrice, o.amount>>

-----------------------------------------------------------------------------
Threshold == Int \cup {NaN}

\* domain.UserSettings, without the timestamps and the chat.
UserSettings ==
  [watchFact : BOOLEAN, watchPotential : BOOLEAN,
   minDiffFact : Threshold, minDiffPotential : Threshold,
   maxNotional : Threshold]

\* Float comparisons with NaN on the right: false either way round.
AtLeast(x, t) == t # NaN /\ x >= t
Below(x, t)   == t # NaN /\ x < t
Exceeds(x, t) == t # NaN /\ t > 0 /\ x > t

MatchUserSettings(u, o) ==
  \/ /\ o.type = Fact
     /\ u.watchFact
     /\ AtLeast(o.profit, u.minDiffFact)
  \/ /\ o.type = Potential
     /\ u.watchPotential
     /\ ~ Below(o.profit, u.minDiffPotential)
     /\ ~ Exceeds(o.amount, u.maxNotional)
=============================================================================
