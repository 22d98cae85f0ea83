---------------------------- MODULE AnalyserFeed ----------------------------
(***************************************************************************)
(* The analyser implements the promise of SignalFeed: a chat's key in      *)
(* Redis is what is remembered, its creations are the windows, and a worker*)
(* holds a claim from its SADD until Create and Send are behind it.        *)
(***************************************************************************)
EXTENDS Analyser

NoClaim == <<>>

Stage(w) == IF pc[w] = "send" THEN "stored" ELSE "claimed"

ClaimOf(w) ==
  IF pc[w] \in {"expire", "create", "send"}
  THEN [stage |-> Stage(w), chat |-> Chat(w), hash |-> Op(w)]
  ELSE NoClaim

Feed == INSTANCE SignalFeed WITH
  remembered <- seen,
  window <- epoch,
  claim <- [w \in Workers |-> ClaimOf(w)],
  stored <- created,
  sent <- sends

\* Whatever the two workers, Redis, Postgres and the tg-bot do between two of
\* a worker's calls, and whichever of them fails, the signals come about as in
\* SignalFeed (SeenOrMark, Create and Send of service.go:248-277).
FeedIsImplemented == Feed!Spec
=============================================================================
