----------------------------- MODULE SignalFeed -----------------------------
(***************************************************************************)
(* What the analyser promises about signals, without books, ticks, users'  *)
(* settings, calls or keys with an expiry.  A worker that means to signal  *)
(* an operation to a chat claims it, stores it, and sends it; it has one   *)
(* claim at a time and may lose it at any point, but never takes it up     *)
(* again.  What a chat is reminded of is remembered until it is forgotten, *)
(* all at once; the time from one forgetting to the next is a window.      *)
(***************************************************************************)
EXTENDS Naturals

CONSTANTS Workers, Chats, Hashes, NoClaim

VARIABLES
  remembered,   \* by chat: the operations not to be claimed again
  window,       \* by chat: how many windows have been opened
  claim,        \* by worker: the signal in its hands
  stored, sent  \* by <<worker, chat, hash>>

vars == <<remembered, window, claim, stored, sent>>

Init ==
  /\ remembered = [c \in Chats |-> {}]
  /\ window = [c \in Chats |-> 0]
  /\ claim = [w \in Workers |-> NoClaim]
  /\ stored = [k \in Workers \X Chats \X Hashes |-> 0]
  /\ sent = [k \in Workers \X Chats \X Hashes |-> 0]

Claim(stage, c, h) == [stage |-> stage, chat |-> c, hash |-> h]

\* The first operation remembered opens a window.
Remember(c, h) ==
  /\ remembered' = [remembered EXCEPT ![c] = @ \cup {h}]
  /\ window' = [window EXCEPT ![c] = IF remembered[c] = {} THEN @ + 1 ELSE @]

\* A worker claims an operation it has stored in no earlier claim of this
\* window; only another worker may have claimed what is remembered.
Take(w, c, h) ==
  /\ claim[w] = NoClaim
  /\ h \in remembered[c] => Workers # {w}
  /\ Remember(c, h)
  /\ stored[<<w, c, h>>] < window'[c]
  /\ claim' = [claim EXCEPT ![w] = Claim("claimed", c, h)]
  /\ UNCHANGED <<stored, sent>>

\* Remembered, and lost at once.
TakeLost(w, c, h) ==
  /\ claim[w] = NoClaim
  /\ Remember(c, h)
  /\ UNCHANGED <<claim, stored, sent>>

\* Store a claimed signal; the claim may get lost with the answer.
Store(w, c, h) ==
  /\ claim[w] = Claim("claimed", c, h)
  /\ stored' = [stored EXCEPT ![<<w, c, h>>] = @ + 1]
  /\ claim' \in {[claim EXCEPT ![w] = Claim("stored", c, h)],
                 [claim EXCEPT ![w] = NoClaim]}
  /\ UNCHANGED <<remembered, window, sent>>

\* Sending, whatever comes of it, ends the claim.
SendOnce(w, c, h) ==
  /\ claim[w] = Claim("stored", c, h)
  /\ sent' = [sent EXCEPT ![<<w, c, h>>] = @ + 1]
  /\ claim' = [claim EXCEPT ![w] = NoClaim]
  /\ UNCHANGED <<remembered, window, stored>>

Lose(w) ==
  /\ claim' = [claim EXCEPT ![w] = NoClaim]
  /\ UNCHANGED <<remembered, window, stored, sent>>

LoseAll ==
  /\ claim' = [w \in Workers |-> NoClaim]
  /\ UNCHANGED <<remembered, window, stored, sent>>

Forget(c) ==
  /\ remembered' = [remembered EXCEPT ![c] = {}]
  /\ UNCHANGED <<window, claim, stored, sent>>

Next ==
  \/ \E w \in Workers, c \in Chats, h \in Hashes :
       Take(w, c, h) \/ TakeLost(w, c, h) \/ Store(w, c, h) \/ SendOnce(w, c, h)
  \/ \E w \in Workers : Lose(w)
  \/ LoseAll
  \/ \E c \in Chats : Forget(c)

Spec == Init /\ [][Next]_vars
=============================================================================
