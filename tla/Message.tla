------------------------------ MODULE Message -------------------------------
(***************************************************************************)
(* From an opportunity to the message a user reads.  The analyser sends a  *)
(* notification without the two prices and exchanges; tg-bot takes them out*)
(* of the operation's hash, a text of fields joined by dashes.             *)
(*                                                                         *)
(* A text split at its dashes is a sequence of tokens; a token is a number *)
(* or a word.  A dash inside a field makes two tokens of it: so does the   *)
(* minus of a group chat's id, and the arrow of a pair of two markets.     *)
(***************************************************************************)
EXTENDS Domain

CONSTANT Group      \* the chats whose id is negative: groups

Number(n) == [number |-> TRUE, is |-> n]
Word(w) == [number |-> FALSE, is |-> w]

\* A market after the arrow: ">USDT_A7A5".
Arrow(market) == [number |-> FALSE, is |-> <<">", market>>]

ChatTokens(c) == IF c \in Group THEN <<Word(""), Number(c)>> ELSE <<Number(c)>>

PairTokens(pair) ==
  IF Len(pair) = 1 THEN <<Word(pair[1])>> ELSE <<Word(pair[1]), Arrow(pair[2])>>

\* Opportunity.Hash(chatID), split at its dashes.
HashTokens(o, c) ==
  ChatTokens(c) \o PairTokens(o.pair) \o
  <<Word(o.buyEx), Word(o.sellEx), Number(o.buyPrice), Number(o.sellPrice),
    Number(o.amount)>>

\* buildNotification, and the request GRPCNotifier.Send makes of it.
buildNotification(o, c) ==
  [chat |-> c, type |-> o.type, pair |-> o.pair, profit |-> o.profit,
   notional |-> o.amount, opHash |-> HashTokens(o, c)]

\* A variant that takes the least number of parts for the only one.
parseSevenParts(parts) ==
  LET last == Len(parts)
  IN IF last # 7 \/ \E i \in last - 2 .. last : ~ parts[i].number THEN <<>>
     ELSE <<[buyEx |-> parts[last - 4], sellEx |-> parts[last - 3],
             buyPrice |-> parts[last - 2], sellPrice |-> parts[last - 1]]>>

\* The exchanges and prices of a hash, counted from its end; nothing if it has
\* too few parts or its last three are not numbers.
parseOpHash(parts) ==
  LET last == Len(parts)
  IN IF last < 7 \/ \E i \in last - 2 .. last : ~ parts[i].number THEN <<>>
     ELSE <<[buyEx |-> parts[last - 4], sellEx |-> parts[last - 3],
             buyPrice |-> parts[last - 2], sellPrice |-> parts[last - 1]]>>

prettyExchange(token) ==
  CASE token = Word(Rapira) -> "Rapira"
    [] token = Word(Grinex) -> "Grinex"
    [] OTHER -> token

\* The two sides of the pair: strings.Cut at the arrow.
BuyPair(pair) == pair[1]
SellPair(pair) == pair[Len(pair)]

\* What the message says; without the two orders if the hash does not parse.
formatNotificationText(n) ==
  LET details == parseOpHash(n.opHash)
      orders ==
        IF details = <<>> THEN <<>>
        ELSE <<[buyOn |-> prettyExchange(details[1].buyEx),
                buyPair |-> BuyPair(n.pair), buyAt |-> details[1].buyPrice.is,
                sellOn |-> prettyExchange(details[1].sellEx),
                sellPair |-> SellPair(n.pair), sellAt |-> details[1].sellPrice.is]>>
  IN [kind |-> n.type, pair |-> n.pair, orders |-> orders,
      difference |-> n.profit, total |-> n.notional]
=============================================================================
