------------------------------- MODULE Mapper -------------------------------
(***************************************************************************)
(* How each gateway turns an exchange's answer into the book it stores     *)
(* (rapira-gw/usecase/orderbook_converter.go, grinex-gw/usecase). A raw    *)
(* level is a price and a volume; Bad is a text strconv.ParseFloat refuses.*)
(* An optional book is a sequence of length 0 (nil) or 1.                  *)
(***************************************************************************)
EXTENDS Domain

CONSTANTS
  Bad,           \* a number that does not parse
  GrinexDepth    \* the levels a side grinex-gw keeps (5)

ASSUME MapperAssumption == GrinexDepth \in Nat \ {0}

\* v[1] + ... + v[n].
Total(v, n) ==
  LET sum[k \in 0 .. n] == IF k = 0 THEN 0 ELSE sum[k - 1] + v[k]
  IN sum[n]

\* The volume down to level i.
CumulatedVolume(raw, i) == Total([k \in DOMAIN raw |-> raw[k].volume], i)

Orders(raw) ==
  [i \in DOMAIN raw |->
     [price |-> raw[i].price, amount |-> raw[i].volume,
      notional |-> CumulatedVolume(raw, i)]]

\* Mapper of rapira-gw: every level the plate has; nil if a side is empty.
RapiraMapper(asks, bids) ==
  IF asks = <<>> \/ bids = <<>> THEN <<>>
  ELSE <<[asks |-> Orders(asks), bids |-> Orders(bids)]>>

\* A variant that ignores the error.
ParsesUnchecked(raw) == TRUE

Parses(raw) == \A i \in DOMAIN raw : raw[i].price # Bad /\ raw[i].volume # Bad

Top(raw) == SubSeq(raw, 1, IF Len(raw) > GrinexDepth THEN GrinexDepth ELSE Len(raw))

\* Mapper of grinex-gw: the top levels a side, nil if one of those does not parse
\* or a side is empty.
GrinexMapper(asks, bids) ==
  IF \/ asks = <<>> \/ bids = <<>>
     \/ ~ Parses(Top(asks)) \/ ~ Parses(Top(bids))
  THEN <<>>
  ELSE <<[asks |-> Orders(Top(asks)), bids |-> Orders(Top(bids))]>>
=============================================================================
