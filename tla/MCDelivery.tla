----------------------------- MODULE MCDelivery -----------------------------
(***************************************************************************)
(* Delivery with two workers, which nothing tells apart, and two           *)
(* operations, found alone or one after the other.                         *)
(***************************************************************************)
EXTENDS Delivery, TLC

CONSTANTS o1, o2

MCFound == {<<o1>>, <<o2>>, <<o1, o2>>}

MCSymmetry == Permutations(Workers)
=============================================================================
