------------------------------ MODULE Gateway ------------------------------
(***************************************************************************)
(* One gateway process, the way its book ages, and the analyser's tick that*)
(* reads it.  rapira-gw and grinex-gw run the same loop: poll the exchange,*)
(* SET the book in Redis with a TTL, tell NATS.  Only rapira-gw's requests *)
(* carry a token; for grinex-gw the variable token means nothing.          *)
(*                                                                         *)
(* Time passes in Elapse alone, one unit for every clock at once, and waits*)
(* for what takes no time: a gateway that is idle takes its ticker's tick  *)
(* at once.  Calls over the network take any time up to their timeout.     *)
(* The publication on NATS, whose failure is only logged, is left out: the *)
(* analyser's ticks may start at any time.                                 *)
(***************************************************************************)
EXTENDS Integers, FiniteSets

CONSTANTS
  PollInterval, DefaultPoll,   \* of the configuration, and when that is <= 0
  RequestTimeout,              \* 3 s, of the context of a request
  SetTimeout,                  \* go-redis gives a SET up after this
  MaxDelay,                    \* Redis runs a command this late at most
  BookTTL,                     \* 2 s, of a book in Redis
  TickTimeout,                 \* 2 s, of the context of an analyser's tick
  TokenTTL, Skew,              \* 10 min; 10 s, when a token is not used any more
  Truncation, Drift,           \* exp has whole seconds; the exchange's clock
  MaxFaults,                   \* bound: failed calls and restarts
  NoBook, NoSet                \* no book; no SET on its way

Poll == IF PollInterval <= 0 THEN DefaultPoll ELSE PollInterval

ASSUME GatewayAssumption ==
  /\ PollInterval \in Int /\ DefaultPoll \in Nat \ {0}
  /\ RequestTimeout \in Nat \ {0} /\ SetTimeout \in Nat \ {0}
  /\ MaxDelay \in Nat \ {0} /\ BookTTL \in Nat \ {0}
  /\ TickTimeout \in Nat \ {0}
  /\ TokenTTL \in Nat /\ Skew \in Nat /\ Truncation \in Nat /\ Drift \in Nat
  /\ MaxFaults \in Nat
  /\ SetTimeout <= MaxDelay
  /\ NoBook \notin Nat /\ NoBook \notin [age : Nat, left : Nat]
  /\ NoSet \notin Nat

\* 10 s of skew cover a request of 3 s, the second that exp is cut down by,
\* and an exchange whose clock is up to 6 s ahead.
ASSUME SkewAssumption ==
  /\ Skew >= RequestTimeout + Truncation + Drift
  /\ TokenTTL > Skew

VARIABLES
  pc,        \* where the loop is: "idle", "request", "set", or "down"
  due,       \* is a tick waiting in the ticker's channel?
  next,      \* until the ticker fires
  spent,     \* the time the current call has taken
  token,     \* until the token expires, 0 when there is none
  set,       \* age of the book in the SET on its way, or NoSet
  orphans,   \* SETs nobody waits for that Redis may still run
  book,      \* Redis: the book's age and what is left of its TTL
  tick,      \* the analyser: "idle", "reading", or "holding" a book
  tickSpent, \* the time its tick has taken
  hand,      \* age of the book it holds
  missed,    \* history: has a poll stored nothing since the last SET?
  waited,    \* history: time spent waiting for answers since the last SET
  faults

gwVars == <<pc, due, next, spent, token, set>>
tickVars == <<tick, tickSpent, hand>>
vars == <<pc, due, next, spent, token, set, orphans, book, tick, tickSpent,
          hand, missed, waited, faults>>

\* Run: the ticker starts, and the first poll does not wait for it.
Start ==
  /\ pc' = "idle" /\ due' = TRUE /\ next' = Poll

Init ==
  /\ pc = "idle" /\ due = TRUE /\ next = Poll
  /\ spent = 0 /\ token = 0 /\ set = NoSet /\ orphans = {}
  /\ book = NoBook
  /\ tick = "idle" /\ tickSpent = 0 /\ hand = NoBook
  /\ missed = TRUE /\ waited = 0 /\ faults = 0

Fault == faults < MaxFaults /\ faults' = faults + 1

-----------------------------------------------------------------------------
(* The gateway.                                                            *)

\* Variants: a token used to its very end; one kept longer than it lives.
EnsureTokenToTheEnd(t) == IF t > 0 THEN t ELSE TokenTTL
EnsureTokenTooLong(t) == IF t > Skew THEN t ELSE TokenTTL + Skew

EnsureToken(t) == IF t > Skew THEN t ELSE TokenTTL

\* tick: RoundTrip takes a token and the request is on its way.
BeginPoll ==
  /\ pc = "idle" /\ due
  /\ due' = FALSE
  /\ pc' = "request"
  /\ spent' = 0
  /\ token' = EnsureToken(token)
  /\ UNCHANGED <<next, set, orphans, book, tickVars, missed, waited, faults>>

\* A variant that takes what a cache on the way remembers.
CachedAnswer ==
  /\ pc = "request"
  /\ set' \in 0 .. spent + BookTTL
  /\ pc' = "set" /\ spent' = 0
  /\ UNCHANGED <<due, next, token, orphans, book, tickVars, missed, waited, faults>>

\* A book of both sides that stood at some moment of the request; Publish.
Answer ==
  /\ pc = "request"
  /\ set' \in 0 .. spent
  /\ pc' = "set" /\ spent' = 0
  /\ UNCHANGED <<due, next, token, orphans, book, tickVars, missed, waited, faults>>

\* A variant in which an error ends the loop.
NoAnswerEndsRun ==
  /\ pc = "request"
  /\ Fault
  /\ pc' = "stopped" /\ missed' = TRUE
  /\ UNCHANGED <<due, next, spent, token, set, orphans, book, tickVars, waited>>

\* No token, no connection, another status, no JSON, an empty side (ErrEmptyBook
\* or a nil book of Mapper), or the request's deadline: the tick is over.
NoAnswer ==
  /\ pc = "request"
  /\ Fault
  /\ pc' = "idle" /\ missed' = TRUE
  /\ UNCHANGED <<due, next, spent, token, set, orphans, book, tickVars, waited>>

\* Variants: a book stored without a TTL, and one that lives too short.
StoreForGood(age) == book' = [age |-> age, left |-> 1000 * BookTTL]
StoreShort(age) == book' = [age |-> age, left |-> BookTTL - 1]

Store(age) == book' = [age |-> age, left |-> BookTTL]

\* Redis runs the SET the gateway waits for.
SetApplies ==
  /\ pc = "set" /\ set # NoSet
  /\ Store(set)
  /\ set' = NoSet
  /\ missed' = FALSE /\ waited' = 0
  /\ UNCHANGED <<pc, due, next, spent, token, orphans, tickVars, faults>>

\* Its reply arrives; NATS is told.
SetAnswered ==
  /\ pc = "set" /\ set = NoSet
  /\ pc' = "idle"
  /\ UNCHANGED <<due, next, spent, token, set, orphans, book, tickVars, missed,
                 waited, faults>>

\* The SET on its way is given up: it is lost, or Redis may still run it.
GiveUp ==
  /\ set' = NoSet
  /\ \/ UNCHANGED orphans
     \/ /\ set # NoSet
        /\ orphans' = orphans \cup {[age |-> set, delay |-> spent]}

\* An error of the SET ends the poll.
SetFails ==
  /\ pc = "set"
  /\ Fault
  /\ pc' = "idle"
  /\ missed' = (missed \/ set # NoSet)
  /\ GiveUp
  /\ UNCHANGED <<due, next, spent, token, book, tickVars, waited>>

\* Redis runs a SET nobody waits for.
OrphanApplies(o) ==
  /\ Store(o.age)
  /\ orphans' = orphans \ {o}
  /\ UNCHANGED <<gwVars, tickVars, missed, waited, faults>>

\* The process dies or is stopped, and with it the token it kept.
Die ==
  /\ pc # "down"
  /\ Fault
  /\ pc' = "down" /\ due' = FALSE /\ token' = 0 /\ missed' = TRUE
  /\ GiveUp
  /\ UNCHANGED <<next, spent, book, tickVars, waited>>

\* Docker starts it again.
Restart ==
  /\ pc = "down"
  /\ Start
  /\ UNCHANGED <<spent, token, set, orphans, book, tickVars, missed, waited, faults>>

-----------------------------------------------------------------------------
(* The analyser.                                                           *)

StartTick ==
  /\ tick = "idle"
  /\ tick' = "reading" /\ tickSpent' = 0
  /\ UNCHANGED <<gwVars, orphans, book, hand, missed, waited, faults>>

\* Get: a tick without the book goes on without it; nothing of it is compared.
Get ==
  /\ tick = "reading"
  /\ IF book = NoBook
     THEN tick' = "idle" /\ UNCHANGED hand
     ELSE tick' = "holding" /\ hand' = book.age
  /\ UNCHANGED <<gwVars, orphans, book, tickSpent, missed, waited, faults>>

EndTick ==
  /\ tick # "idle"
  /\ tick' = "idle" /\ hand' = NoBook
  /\ UNCHANGED <<gwVars, orphans, book, tickSpent, missed, waited, faults>>

-----------------------------------------------------------------------------
(* Time.                                                                   *)

Waiting == pc \in {"request", "set"}

\* Nobody lets a deadline pass, and a tick of the ticker is taken at once.
MayWait ==
  /\ ~ (pc = "idle" /\ due)
  /\ pc = "request" => spent < RequestTimeout
  /\ pc = "set" => spent < SetTimeout
  /\ tick # "idle" => tickSpent < TickTimeout

\* The ticker's channel holds one tick: the next ones are dropped.
TickerElapses ==
  IF pc = "down" THEN UNCHANGED <<due, next>>
  ELSE /\ due' = (due \/ next = 1)
       /\ next' = IF next = 1 THEN Poll ELSE next - 1

BookElapses ==
  book' = IF book = NoBook \/ book.left = 1 THEN NoBook
          ELSE [age |-> book.age + 1, left |-> book.left - 1]

OrphansElapse ==
  orphans' = {[age |-> o.age + 1, delay |-> o.delay + 1] :
                o \in {p \in orphans : p.delay < MaxDelay}}

Elapse ==
  /\ MayWait
  /\ TickerElapses /\ BookElapses /\ OrphansElapse
  /\ spent' = IF Waiting THEN spent + 1 ELSE spent
  /\ waited' = IF Waiting /\ waited < BookTTL THEN waited + 1 ELSE waited
  /\ token' = IF token = 0 THEN 0 ELSE token - 1
  /\ set' = IF set = NoSet THEN NoSet ELSE set + 1
  /\ tickSpent' = IF tick = "idle" THEN tickSpent ELSE tickSpent + 1
  /\ hand' = IF hand = NoBook THEN NoBook ELSE hand + 1
  /\ UNCHANGED <<pc, tick, missed, faults>>

-----------------------------------------------------------------------------
GatewayStep ==
  \/ BeginPoll \/ Answer \/ NoAnswer \/ SetApplies \/ SetAnswered \/ SetFails
  \/ Restart

AnalyserStep == StartTick \/ Get \/ EndTick

Next ==
  \/ GatewayStep \/ Die
  \/ \E o \in orphans : OrphanApplies(o)
  \/ AnalyserStep
  \/ Elapse

Spec == Init /\ [][Next]_vars

\* The process runs and is restarted, a call comes to an end, and so does a
\* tick; and time passes.
Fairness ==
  /\ WF_vars(BeginPoll) /\ WF_vars(Answer) /\ WF_vars(SetApplies)
  /\ WF_vars(SetAnswered) /\ WF_vars(Restart)
  /\ WF_vars(Get) /\ WF_vars(EndTick) /\ WF_vars(Elapse)

FairSpec == Spec /\ Fairness

-----------------------------------------------------------------------------
(* Properties.                                                             *)

TypeOK ==
  /\ pc \in {"idle", "request", "set", "down"}
  /\ due \in BOOLEAN
  /\ next \in 1 .. Poll
  /\ spent \in Nat
  /\ pc = "request" => spent <= RequestTimeout
  /\ pc = "set" => spent <= SetTimeout
  /\ token \in 0 .. TokenTTL
  /\ set \in Nat \cup {NoSet}
  /\ pc # "set" => set = NoSet
  /\ orphans \in SUBSET [age : Nat, delay : 0 .. MaxDelay]
  /\ book \in [age : Nat, left : 1 .. BookTTL] \cup {NoBook}
  /\ tick \in {"idle", "reading", "holding"}
  /\ tickSpent \in 0 .. TickTimeout
  /\ hand \in Nat \cup {NoBook}
  /\ missed \in BOOLEAN
  /\ waited \in 0 .. BookTTL
  /\ faults \in 0 .. MaxFaults

\* What the detection compares, and the user is told of, stood at the exchange
\* at most this long ago: nothing checks UpdatedAt (service.go:157-183), so it
\* takes the timeouts of the request, of Redis, of the book and of the tick
\* together (service.go:77, publisher.go:78, main.go:84 of the gateway,
\* main.go:138 of the analyser).
MaxAge == RequestTimeout + MaxDelay + BookTTL + TickTimeout

BooksComparedAreRecent == tick = "holding" => hand < MaxAge

\* A book in Redis is not replaced by an older one, unless a SET was given up:
\* a gateway polls again only when its last SET is behind it (service.go:49-74).
\* The other steps in which the book's age grows are those of the clock.
NoOlderBook ==
  [][(book # NoBook /\ book' # NoBook) =>
       \/ book'.age <= book.age
       \/ book'.age = book.age + 1 /\ book'.left = book.left - 1
       \/ orphans # {}]_vars

\* A book goes missing without any failure only when answers are slow: of the
\* BookTTL since its last SET the gateway waited for its ticker no longer than
\* one poll interval, and for the exchange and Redis all the rest, because the
\* ticker keeps one tick for a late poll (service.go:56-72).
MissingBookIsASlowPoll ==
  (book = NoBook /\ ~ missed) => waited >= BookTTL - Poll

\* The token of a request is valid, for the exchange's clock too, as long as
\* the request may last (token_manager.go:156-162).
TokenOutlivesRequest == pc = "request" => token > Truncation + Drift

\* However polls fail and the process restarts: when that stops, books come
\* again and again (an error of a tick is logged and the loop goes on).
BookComesBack == []<>(book # NoBook)
=============================================================================
