------------------------------ MODULE TickPath ------------------------------
(***************************************************************************)
(* The path from two exchanges' answers to the messages of a tick: the     *)
(* gateways map and store them, a tick reads both books and detects, and a *)
(* chat is told of what was found.                                         *)
(***************************************************************************)
EXTENDS Detection, Mapper, Message

CONSTANTS
  Person,       \* the chats with a positive id
  RapiraAsks, RapiraBids, GrinexAsks, GrinexBids   \* the sides of an answer

Raw(prices, volumes) == [price : prices, volume : volumes]

Positive == Nat \ {0}

BestFirstAsks(raw) ==
  \A i, j \in DOMAIN raw :
    (i < j /\ raw[i].price # Bad /\ raw[j].price # Bad) => raw[i].price <= raw[j].price

BestFirstBids(raw) ==
  \A i, j \in DOMAIN raw :
    (i < j /\ raw[i].price # Bad /\ raw[j].price # Bad) => raw[i].price >= raw[j].price

\* Rapira answers in JSON numbers, Grinex in texts, of which some may not parse.
\* An exchange lists no level without volume, and the best price first: the code
\* takes a side's first level for its best without looking at the others.
ASSUME AnswersAssumption ==
  /\ Bad \notin Nat
  /\ RapiraAsks \cup RapiraBids \subseteq Seq(Raw(Nat, Positive))
  /\ GrinexAsks \cup GrinexBids \subseteq Seq(Raw(Nat \cup {Bad}, Positive \cup {Bad}))
  /\ \A raw \in RapiraAsks \cup GrinexAsks : BestFirstAsks(raw)
  /\ \A raw \in RapiraBids \cup GrinexBids : BestFirstBids(raw)

VARIABLES
  books,    \* the optional book of each source
  opps,     \* what the tick found
  texts,    \* what a chat that watches everything is told, one for each
  phase

vars == <<books, opps, texts, phase>>

Init ==
  /\ books = [s \in Sources |-> <<>>]
  /\ opps = <<>>
  /\ texts = <<>>
  /\ phase = "poll"

PollRapira ==
  /\ phase = "poll"
  /\ \E asks \in RapiraAsks, bids \in RapiraBids :
       books' = [books EXCEPT ![Rapira] = RapiraMapper(asks, bids)]
  /\ phase' = "pollGrinex"
  /\ UNCHANGED <<opps, texts>>

PollGrinex ==
  /\ phase = "pollGrinex"
  /\ \E asks \in GrinexAsks, bids \in GrinexBids :
       books' = [books EXCEPT ![Grinex] = GrinexMapper(asks, bids)]
  /\ phase' = "detect"
  /\ UNCHANGED <<opps, texts>>

Detect ==
  /\ phase = "detect"
  /\ opps' = TickOpportunities(books[Rapira], books[Grinex])
  /\ phase' = "tell"
  /\ UNCHANGED <<books, texts>>

Notify ==
  /\ phase = "tell"
  /\ \E c \in Person \cup Group :
       texts' = [i \in DOMAIN opps |->
                   formatNotificationText(buildNotification(opps[i], c))]
  /\ phase' = "done"
  /\ UNCHANGED <<books, opps>>

Next == PollRapira \/ PollGrinex \/ Detect \/ Notify

Spec == Init /\ [][Next]_vars

-----------------------------------------------------------------------------
Found == {opps[i] : i \in DOMAIN opps}

TypeOK ==
  /\ phase \in {"poll", "pollGrinex", "detect", "tell", "done"}
  /\ opps \in Seq(Opportunity)
  /\ Len(texts) \in {0, Len(opps)}
  /\ \A s \in Sources : books[s] = <<>> \/ books[s][1] \in Book

\* Fees are only ever paid: the profit announced never exceeds the spread of
\* the two prices announced with it by more than the cent that rounding the
\* three numbers separately can add (detection.go: ask/(1+fee) - bid*(1+fee)).
ProfitWithinSpread ==
  \A o \in Found : o.profit <= o.sellPrice - o.buyPrice + 1

\* The volume a side has at a price announced or better.
AsksUpTo(asks, p) ==
  Total([i \in DOMAIN asks |-> IF round2(asks[i].price) <= p THEN asks[i].amount ELSE 0],
        Len(asks))
BidsDownTo(bids, p) ==
  Total([i \in DOMAIN bids |-> IF round2(bids[i].price) >= p THEN bids[i].amount ELSE 0],
        Len(bids))

\* The amount announced can be traded at both prices or better: each of the
\* two books has that volume between its top and the price announced.
AmountIsAvailable ==
  \A o \in Found :
    /\ o.amount > 0
    /\ o.amount <= AsksUpTo(books[o.sellEx][1].asks, o.sellPrice)
    /\ o.amount <= BidsDownTo(books[o.buyEx][1].bids, o.buyPrice)

\* An opportunity and its twin of the other type share a hash, and the chat's
\* key lets only one of them through.  No third opportunity shares it, and the
\* fact comes first: a user who watches both is sent the fact.
TwinsAreFactThenPotential ==
  \A i, j \in DOMAIN opps :
    (i < j /\ Hash(opps[i]) = Hash(opps[j])) =>
      opps[i].type = Fact /\ opps[j].type = Potential

\* A message names the exchanges, markets and prices of the opportunity it is
\* about, for any chat and for one market or two (tg-bot/grpc/server.go:80-196
\* against domain/order.go:49-60).
ExchangeName == [s \in Sources |-> IF s = Rapira THEN "Rapira" ELSE "Grinex"]

MessageTellsWhatWasFound ==
  \A i \in DOMAIN texts :
    LET o == opps[i]
    IN /\ texts[i].orders =
            <<[buyOn |-> ExchangeName[o.buyEx], buyPair |-> PairOf[o.buyEx],
               buyAt |-> o.buyPrice,
               sellOn |-> ExchangeName[o.sellEx], sellPair |-> PairOf[o.sellEx],
               sellAt |-> o.sellPrice]>>
       /\ texts[i].kind = o.type /\ texts[i].difference = o.profit
       /\ texts[i].total = o.amount

\* tg-bot/usecase/service.go:163: for a potential, differences of 0.01 and less
\* are ignored - so a deeper bid worth more than that, in Rapira's book alone
\* or across the books, gives a potential.
PotentialsAboveOneCent ==
  phase \in {"tell", "done"} =>
    \A s, b \in Sources :
      (books[s] # <<>> /\ books[b] # <<>>) =>
        \A i \in DOMAIN books[b][1].bids :
          (/\ i >= 2 /\ i <= Depth
           /\ Profit(books[s][1].asks[1].price, books[b][1].bids[i].price,
                     Fee[s], Fee[b]) > 1) =>
            \E o \in Found : o.type = Potential /\ o.sellEx = s /\ o.buyEx = b
=============================================================================
