------------------------------ MODULE Analyser ------------------------------
(***************************************************************************)
(* The analyser process: its tick workers running HandleTick against Redis *)
(* (order-book cache and the per-chat deduplication sets), Postgres (the   *)
(* settings and the notifications) and the tg-bot's gRPC server.           *)
(*                                                                         *)
(* Two goroutines run HandleTick, with nothing between them: the callback  *)
(* of the NATS subscription, one message at a time, and the 2 s ticker.    *)
(* Every call over the network is a step of its own, so the calls of the   *)
(* two interleave, and between two of them a key may expire, a row may     *)
(* change, the tick's deadline may pass or the process may die.            *)
(*                                                                         *)
(* Abstractions: the detection is the constant function Detected (module   *)
(* Detection defines it; MCAnalyser passes it in); a gateway's publication *)
(* and a settings request are each one step of the environment; wall-clock *)
(* time is left out, so a TTL may run out and a deadline may pass at any   *)
(* moment.                                                                 *)
(***************************************************************************)
EXTENDS Domain, FiniteSets

CONSTANTS
  Chats,          \* the users, by chat id
  Workers,        \* the goroutines that run HandleTick
  BooksOf,        \* the order books each gateway may store, by source
  NoBook,         \* redis.Nil: no such key (or a book with an empty side)
  NoRow,          \* a chat with no row in user_pair_settings
  NoUser,         \* a worker that is at no user
  Settings,       \* the settings a user may save
  Detected,       \* what a tick finds, by the two books it read
  MaxWindows,     \* bound: creations of one chat's deduplication key
  MaxPending,     \* the NATS client's pending limit for the subscription
  MaxFaults,      \* bound: failed calls and passed deadlines
  MaxCrashes      \* bound: restarts of the process

Slot(s) == BooksOf[s] \cup {NoBook}
Opps == UNION {{Detected[k][i] : i \in DOMAIN Detected[k]} :
                  k \in Slot(Rapira) \X Slot(Grinex)}
Hashes == {Hash(o) : o \in Opps}
User == [chat : Chats, settings : Settings]

ASSUME AnalyserAssumption ==
  /\ NoBook \notin UNION {BooksOf[s] : s \in Sources}
  /\ NoRow \notin [active : BOOLEAN, settings : Settings]
  /\ NoUser \notin User
  /\ Detected \in [Slot(Rapira) \X Slot(Grinex) -> Seq(Opportunity)]
  /\ MaxWindows \in Nat \ {0}
  /\ MaxPending \in Nat /\ MaxFaults \in Nat /\ MaxCrashes \in Nat
  /\ IsFiniteSet(Workers)

Nats == "nats"      \* the subscription's worker; any other is a ticker

VARIABLES
  cache,      \* Redis: the two order books, by source
  pending,    \* NATS: messages the subscription has not handled yet
  rows,       \* Postgres: user_pair_settings, by chat
  seen,       \* Redis: the set user:<chat>:seen_ops, empty when absent
  ttl,        \* Redis: does that key have an expiry?
  created,    \* Postgres: notifications stored, by <<worker, chat, hash>>
  sends,      \* signals that reached the tg-bot, likewise
  pc,         \* where each worker is in HandleTick
  ctxDone,    \* has the deadline of its tick passed?
  got,        \* the Rapira book it read
  opps,       \* the opportunities of its tick
  left,       \* the users its fan-out has not come to
  user,       \* the user it is at
  rest,       \* the opportunities it has not offered to that user yet
  epoch,      \* history: creations of each chat's deduplication key
  delivered,  \* history: hashes that reached the bot since that creation
  faults, crashes

envVars == <<cache, pending, rows>>
dedupVars == <<seen, ttl, epoch>>
signalVars == <<created, sends, delivered>>
tickVars == <<got, opps, left>>
loopVars == <<user, rest>>
budget == <<faults, crashes>>
vars == <<cache, pending, rows, seen, ttl, epoch, created, sends, delivered,
          pc, ctxDone, got, opps, left, user, rest, faults, crashes>>

Signals == Workers \X Chats \X Hashes

Init ==
  /\ cache = [s \in Sources |-> NoBook]
  /\ pending = 0
  /\ rows = [c \in Chats |-> NoRow]
  /\ seen = [c \in Chats |-> {}]
  /\ ttl = [c \in Chats |-> FALSE]
  /\ created = [k \in Signals |-> 0]
  /\ sends = [k \in Signals |-> 0]
  /\ pc = [w \in Workers |-> "idle"]
  /\ ctxDone = [w \in Workers |-> FALSE]
  /\ got = [w \in Workers |-> NoBook]
  /\ opps = [w \in Workers |-> <<>>]
  /\ left = [w \in Workers |-> {}]
  /\ user = [w \in Workers |-> NoUser]
  /\ rest = [w \in Workers |-> <<>>]
  /\ epoch = [c \in Chats |-> 0]
  /\ delivered = [c \in Chats |-> {}]
  /\ faults = 0
  /\ crashes = 0

-----------------------------------------------------------------------------
(* The environment.                                                        *)

\* A gateway SETs a book, then publishes on NATS: the message may be lost, or
\* dropped by the client when the subscription is full.
Publish(s, b) ==
  /\ cache' = [cache EXCEPT ![s] = b]
  /\ pending' \in {pending} \cup {n \in {pending + 1} : n <= MaxPending}
  /\ UNCHANGED <<rows, dedupVars, signalVars, pc, ctxDone, tickVars, loopVars,
                 budget>>

\* The 2 s TTL of a book runs out.
BookExpires(s) ==
  /\ cache[s] # NoBook
  /\ cache' = [cache EXCEPT ![s] = NoBook]
  /\ UNCHANGED <<pending, rows, dedupVars, signalVars, pc, ctxDone, tickVars,
                 loopVars, budget>>

\* Save: the row is enabled as soon as it watches something.
UpsertUserSettings(c, s) ==
  /\ rows' = [rows EXCEPT ![c] =
       [active |-> s.watchFact \/ s.watchPotential, settings |-> s]]
  /\ UNCHANGED <<cache, pending, dedupVars, signalVars, pc, ctxDone, tickVars,
                 loopVars, budget>>

\* SetActive: updates a row that exists, and is ErrNotFound otherwise.
SetUserActive(c, active) ==
  /\ rows[c] # NoRow
  /\ rows' = [rows EXCEPT ![c].active = active]
  /\ UNCHANGED <<cache, pending, dedupVars, signalVars, pc, ctxDone, tickVars,
                 loopVars, budget>>

\* Redis drops a deduplication key whose expiry is due.
KeyExpires(c) ==
  /\ ttl[c]
  /\ epoch[c] < MaxWindows
  /\ seen' = [seen EXCEPT ![c] = {}]
  /\ ttl' = [ttl EXCEPT ![c] = FALSE]
  /\ delivered' = [delivered EXCEPT ![c] = {}]
  /\ UNCHANGED <<envVars, epoch, created, sends, pc, ctxDone, tickVars,
                 loopVars, budget>>

-----------------------------------------------------------------------------
(* HandleTick.  Refused(w): a call returns an error without any effect,    *)
(* always so once the tick's context is done.  LostReply(w): it took       *)
(* effect, but the caller gets an error.                                   *)

Refused(w) ==
  \/ ctxDone[w] /\ UNCHANGED budget
  \/ /\ ~ ctxDone[w] /\ faults < MaxFaults
     /\ faults' = faults + 1
     /\ UNCHANGED crashes

LostReply(w) ==
  /\ ~ ctxDone[w] /\ faults < MaxFaults
  /\ faults' = faults + 1
  /\ UNCHANGED crashes

Answered(w) == ~ ctxDone[w] /\ UNCHANGED budget

GoTo(w, l) == pc' = [pc EXCEPT ![w] = l]

\* HandleTick returns: its locals are gone.
Return(w) ==
  /\ GoTo(w, "idle")
  /\ ctxDone' = [ctxDone EXCEPT ![w] = FALSE]
  /\ got' = [got EXCEPT ![w] = NoBook]
  /\ opps' = [opps EXCEPT ![w] = <<>>]
  /\ left' = [left EXCEPT ![w] = {}]
  /\ user' = [user EXCEPT ![w] = NoUser]
  /\ rest' = [rest EXCEPT ![w] = <<>>]

\* `continue`: on to the next opportunity.
NextOpp(w) ==
  /\ GoTo(w, "loop")
  /\ rest' = [rest EXCEPT ![w] = Tail(rest[w])]

\* The chat and the hash the worker is at.
Chat(w) == user[w].chat
Op(w) == Hash(Head(rest[w]))
Here(w) == <<w, Chat(w), Op(w)>>

\* A NATS message, or the ticker, starts a tick.
StartTick(w) ==
  /\ pc[w] = "idle"
  /\ IF w = Nats THEN pending > 0 /\ pending' = pending - 1
                 ELSE UNCHANGED pending
  /\ GoTo(w, "getRapira")
  /\ UNCHANGED <<cache, rows, dedupVars, signalVars, ctxDone, tickVars,
                 loopVars, budget>>

GetRapira(w) ==
  /\ pc[w] = "getRapira"
  /\ Answered(w)
  /\ got' = [got EXCEPT ![w] = cache[Rapira]]
  /\ GoTo(w, "getGrinex")
  /\ UNCHANGED <<envVars, dedupVars, signalVars, ctxDone, opps, left, loopVars>>

\* The second book, and the detection over both: nothing found, no fan-out.
GetGrinex(w) ==
  /\ pc[w] = "getGrinex"
  /\ Answered(w)
  /\ LET found == Detected[<<got[w], cache[Grinex]>>]
     IN IF found = <<>>
        THEN Return(w)
        ELSE /\ opps' = [opps EXCEPT ![w] = found]
             /\ got' = [got EXCEPT ![w] = NoBook]
             /\ GoTo(w, "listActive")
             /\ UNCHANGED <<ctxDone, left, loopVars>>
  /\ UNCHANGED <<envVars, dedupVars, signalVars>>

\* The users with an enabled row.
Active == {u \in User : rows[u.chat] = [active |-> TRUE, settings |-> u.settings]}

\* ListActive: in whatever order Postgres returns them.
ListActive(w) ==
  /\ pc[w] = "listActive"
  /\ Answered(w)
  /\ left' = [left EXCEPT ![w] = Active]
  /\ GoTo(w, "loop")
  /\ UNCHANGED <<envVars, dedupVars, signalVars, ctxDone, got, opps, loopVars>>

\* A variant whose error ends the worker's loop, not just the tick.
ReadFailsForGood(w) ==
  /\ pc[w] \in {"getRapira", "getGrinex", "listActive"}
  /\ Refused(w)
  /\ GoTo(w, "stopped")
  /\ UNCHANGED <<envVars, dedupVars, signalVars, ctxDone, tickVars, loopVars>>

\* A book or the user list cannot be read: HandleTick returns the error.
ReadFails(w) ==
  /\ pc[w] \in {"getRapira", "getGrinex", "listActive"}
  /\ Refused(w)
  /\ Return(w)
  /\ UNCHANGED <<envVars, dedupVars, signalVars>>

NextUser(w) ==
  /\ pc[w] = "loop" /\ rest[w] = <<>>
  /\ \E u \in left[w] :
       /\ user' = [user EXCEPT ![w] = u]
       /\ left' = [left EXCEPT ![w] = @ \ {u}]
  /\ rest' = [rest EXCEPT ![w] = opps[w]]
  /\ UNCHANGED <<envVars, dedupVars, signalVars, pc, ctxDone, got, opps, budget>>

FinishTick(w) ==
  /\ pc[w] = "loop" /\ rest[w] = <<>> /\ left[w] = {}
  /\ Return(w)
  /\ UNCHANGED <<envVars, dedupVars, signalVars, budget>>

SkipUnmatched(w) ==
  /\ pc[w] = "loop" /\ rest[w] # <<>>
  /\ ~ MatchUserSettings(user[w].settings, Head(rest[w]))
  /\ NextOpp(w)
  /\ UNCHANGED <<envVars, dedupVars, signalVars, ctxDone, tickVars, user, budget>>

\* A variant for which nothing was ever seen.
IsMemberNever(c, h) == FALSE

\* SISMEMBER user:<c>:seen_ops h
IsMember(c, h) == h \in seen[c]

\* A variant that takes the opportunity off before it is handled.
CheckSeenTakesOff(w) ==
  /\ pc[w] = "loop" /\ rest[w] # <<>>
  /\ MatchUserSettings(user[w].settings, Head(rest[w]))
  /\ Answered(w)
  /\ GoTo(w, IF IsMember(Chat(w), Op(w)) THEN "loop" ELSE "sadd")
  /\ rest' = [rest EXCEPT ![w] = Tail(rest[w])]
  /\ UNCHANGED <<envVars, dedupVars, signalVars, ctxDone, tickVars, user>>

\* The first half of SeenOrMark.
CheckSeen(w) ==
  /\ pc[w] = "loop" /\ rest[w] # <<>>
  /\ MatchUserSettings(user[w].settings, Head(rest[w]))
  /\ Answered(w)
  /\ IF IsMember(Chat(w), Op(w))
     THEN NextOpp(w)
     ELSE GoTo(w, "sadd") /\ UNCHANGED rest
  /\ UNCHANGED <<envVars, dedupVars, signalVars, ctxDone, tickVars, user>>

CheckSeenFails(w) ==
  /\ pc[w] = "loop" /\ rest[w] # <<>>
  /\ MatchUserSettings(user[w].settings, Head(rest[w]))
  /\ Refused(w)
  /\ NextOpp(w)
  /\ UNCHANGED <<envVars, dedupVars, signalVars, ctxDone, tickVars, user>>

\* SADD: creates the key, without an expiry, if it is absent.  How many
\* members it added is not looked at.
Mark(c, h) ==
  /\ seen' = [seen EXCEPT ![c] = @ \cup {h}]
  /\ epoch' = [epoch EXCEPT ![c] = IF seen[c] = {} THEN @ + 1 ELSE @]
  /\ UNCHANGED ttl

\* A variant that leaves the key without an expiry.
SAddWithoutExpire(w) ==
  /\ pc[w] = "sadd"
  /\ Answered(w)
  /\ Mark(Chat(w), Op(w))
  /\ GoTo(w, "create")
  /\ UNCHANGED <<envVars, signalVars, ctxDone, tickVars, loopVars>>

SAdd(w) ==
  /\ pc[w] = "sadd"
  /\ Answered(w)
  /\ Mark(Chat(w), Op(w))
  /\ GoTo(w, "expire")
  /\ UNCHANGED <<envVars, signalVars, ctxDone, tickVars, loopVars>>

\* SADD returns an error: HandleTick gives the opportunity up, marked or not.
SAddFails(w) ==
  /\ pc[w] = "sadd"
  /\ \/ Refused(w) /\ UNCHANGED dedupVars
     \/ LostReply(w) /\ Mark(Chat(w), Op(w))
  /\ NextOpp(w)
  /\ UNCHANGED <<envVars, signalVars, ctxDone, tickVars, user>>

\* EXPIRE on the whole key: restarts its clock; no effect on an absent key.
Expire(w) ==
  /\ pc[w] = "expire"
  /\ Answered(w)
  /\ ttl' = [ttl EXCEPT ![Chat(w)] = seen[Chat(w)] # {}]
  /\ GoTo(w, "create")
  /\ UNCHANGED <<envVars, seen, epoch, signalVars, ctxDone, tickVars, loopVars>>

\* EXPIRE fails: a warning in the log, and SeenOrMark goes on.
ExpireFails(w) ==
  /\ pc[w] = "expire"
  /\ Refused(w)
  /\ GoTo(w, "create")
  /\ UNCHANGED <<envVars, dedupVars, signalVars, ctxDone, tickVars, loopVars>>

\* A variant that stores the notification and goes on without sending it.
CreateWithoutSend(w) ==
  /\ pc[w] = "create"
  /\ Answered(w)
  /\ created' = [created EXCEPT ![Here(w)] = @ + 1]
  /\ NextOpp(w)
  /\ UNCHANGED <<envVars, dedupVars, sends, delivered, ctxDone, tickVars, user>>

\* NotificationPostgres.Create.
Create(w) ==
  /\ pc[w] = "create"
  /\ Answered(w)
  /\ created' = [created EXCEPT ![Here(w)] = @ + 1]
  /\ GoTo(w, "send")
  /\ UNCHANGED <<envVars, dedupVars, sends, delivered, ctxDone, tickVars,
                 loopVars>>

CreateFails(w) ==
  /\ pc[w] = "create"
  /\ \/ Refused(w) /\ UNCHANGED created
     \/ LostReply(w) /\ created' = [created EXCEPT ![Here(w)] = @ + 1]
  /\ NextOpp(w)
  /\ UNCHANGED <<envVars, dedupVars, sends, delivered, ctxDone, tickVars, user>>

\* The notification reaches the tg-bot.
Deliver(w) ==
  /\ sends' = [sends EXCEPT ![Here(w)] = @ + 1]
  /\ delivered' = [delivered EXCEPT ![Chat(w)] = @ \cup {Op(w)}]

\* A variant that sends again when the answer is lost.
SendAgain(w) ==
  /\ pc[w] = "send"
  /\ \/ Answered(w) /\ Deliver(w) /\ NextOpp(w)
     \/ LostReply(w) /\ Deliver(w) /\ UNCHANGED <<pc, rest>>
     \/ Refused(w) /\ UNCHANGED <<sends, delivered>> /\ NextOpp(w)
  /\ UNCHANGED <<envVars, dedupVars, created, ctxDone, tickVars, user>>

\* GRPCNotifier.Send; an error, delivered or not, is only logged.
Send(w) ==
  /\ pc[w] = "send"
  /\ \/ Answered(w) /\ Deliver(w)
     \/ LostReply(w) /\ Deliver(w)
     \/ Refused(w) /\ UNCHANGED <<sends, delivered>>
  /\ NextOpp(w)
  /\ UNCHANGED <<envVars, dedupVars, created, ctxDone, tickVars, user>>

\* The tick outlives its deadline (2 s for NATS, 1 s for the ticker).
DeadlinePasses(w) ==
  /\ pc[w] # "idle" /\ ~ ctxDone[w]
  /\ faults < MaxFaults
  /\ faults' = faults + 1
  /\ ctxDone' = [ctxDone EXCEPT ![w] = TRUE]
  /\ UNCHANGED <<envVars, dedupVars, signalVars, pc, tickVars, loopVars, crashes>>

\* The process dies, or is stopped, and is started again: ticks in progress
\* are gone, and so are the messages NATS had for it.
Restart ==
  /\ crashes < MaxCrashes
  /\ crashes' = crashes + 1
  /\ pending' = 0
  /\ pc' = [w \in Workers |-> "idle"]
  /\ ctxDone' = [w \in Workers |-> FALSE]
  /\ got' = [w \in Workers |-> NoBook]
  /\ opps' = [w \in Workers |-> <<>>]
  /\ left' = [w \in Workers |-> {}]
  /\ user' = [w \in Workers |-> NoUser]
  /\ rest' = [w \in Workers |-> <<>>]
  /\ UNCHANGED <<cache, rows, dedupVars, signalVars, faults>>

-----------------------------------------------------------------------------
\* One step of worker w's goroutine.
Tick(w) ==
  \/ StartTick(w) \/ GetRapira(w) \/ GetGrinex(w) \/ ListActive(w) \/ ReadFails(w)
  \/ NextUser(w) \/ FinishTick(w) \/ SkipUnmatched(w)
  \/ CheckSeen(w) \/ CheckSeenFails(w) \/ SAdd(w) \/ SAddFails(w)
  \/ Expire(w) \/ ExpireFails(w) \/ Create(w) \/ CreateFails(w) \/ Send(w)

Environment ==
  \/ \E s \in Sources : \E b \in BooksOf[s] : Publish(s, b)
  \/ \E s \in Sources : BookExpires(s)
  \/ \E c \in Chats, s \in Settings : UpsertUserSettings(c, s)
  \/ \E c \in Chats, active \in BOOLEAN : SetUserActive(c, active)
  \/ \E c \in Chats : KeyExpires(c)

Next ==
  \/ \E w \in Workers : Tick(w) \/ DeadlinePasses(w)
  \/ Environment
  \/ Restart

Spec == Init /\ [][Next]_vars

\* Both goroutines keep running, and Redis drops what is due.
Fairness ==
  /\ \A w \in Workers : WF_vars(Tick(w))
  /\ \A c \in Chats : WF_vars(KeyExpires(c))

FairSpec == Spec /\ Fairness

-----------------------------------------------------------------------------
(* Properties.                                                             *)

\* Everything the worker is doing concerns a signal it can name: in SeenOrMark
\* and after it, there is a current user and a current opportunity.
Busy(w) == pc[w] \in {"sadd", "expire", "create", "send"}

TypeOK ==
  /\ cache \in [Sources -> UNION {Slot(s) : s \in Sources}]
  /\ \A s \in Sources : cache[s] \in Slot(s)
  /\ pending \in 0 .. MaxPending
  /\ rows \in [Chats -> [active : BOOLEAN, settings : Settings] \cup {NoRow}]
  /\ seen \in [Chats -> SUBSET Hashes]
  /\ ttl \in [Chats -> BOOLEAN]
  /\ created \in [Signals -> Nat]
  /\ sends \in [Signals -> Nat]
  /\ pc \in [Workers -> {"idle", "getRapira", "getGrinex", "listActive", "loop",
                        "sadd", "expire", "create", "send"}]
  /\ ctxDone \in [Workers -> BOOLEAN]
  /\ got \in [Workers -> Slot(Rapira)]
  /\ opps \in [Workers -> Seq(Opps)]
  /\ left \in [Workers -> SUBSET User]
  /\ user \in [Workers -> User \cup {NoUser}]
  /\ rest \in [Workers -> Seq(Opps)]
  /\ epoch \in [Chats -> Nat]
  /\ delivered \in [Chats -> SUBSET Hashes]
  /\ faults \in 0 .. MaxFaults
  /\ crashes \in 0 .. MaxCrashes
  /\ \A w \in Workers : rest[w] # <<>> => user[w] \in User
  /\ \A w \in Workers : Busy(w) => rest[w] # <<>>

\* The deduplication promise the code does keep: over any number of
\* creations of a chat's key, each worker stores, and sends, one notification
\* of an operation per creation at most (service.go: SeenOrMark before Create
\* before Send) - whatever fails, restarts, or the other worker does.
OncePerWorkerPerWindow ==
  \A w \in Workers, c \in Chats, h \in Hashes :
    /\ sends[<<w, c, h>>] <= created[<<w, c, h>>]
    /\ created[<<w, c, h>>] <= epoch[c]

\* Why it holds.  Creation number epoch[c] of the key is the current one.  A
\* worker that stores h has marked it in some creation, and had stored it fewer
\* times than that; if h is missing from a key that exists, that creation is
\* over, so the same is true with one to spare.
MissingFromKey(c, h) == seen[c] # {} /\ h \notin seen[c]

StoredBefore(w) ==
  /\ (pc[w] = "sadd" /\ seen[Chat(w)] # {}) =>
       created[Here(w)] < epoch[Chat(w)]
  /\ pc[w] \in {"expire", "create"} =>
       /\ created[Here(w)] < epoch[Chat(w)]
       /\ MissingFromKey(Chat(w), Op(w)) =>
            created[Here(w)] + 1 < epoch[Chat(w)]
  /\ pc[w] = "send" => sends[Here(w)] < created[Here(w)]

OnceStrengthening ==
  /\ \A w \in Workers, c \in Chats, h \in Hashes :
       MissingFromKey(c, h) => created[<<w, c, h>>] < epoch[c]
  /\ \A w \in Workers : StoredBefore(w)

\* The signals of chat c that are marked as seen, were not delivered since,
\* and are in no worker's hands: nobody will send them before the key goes.
Holds(w, c, h) ==
  /\ pc[w] \in {"expire", "create", "send"}
  /\ Chat(w) = c /\ Op(w) = h

Lost == {k \in Chats \X Hashes :
           /\ k[2] \in seen[k[1]] \ delivered[k[1]]
           /\ \A w \in Workers : ~ Holds(w, k[1], k[2])}

\* Marking before storing and sending loses signals, but no more than one for
\* each failed call or passed deadline, and one per worker for each restart
\* (HandleTick's `continue` after SeenOrMark and after Create).
LossBound == Cardinality(Lost) <= faults + Cardinality(Workers) * crashes

\* SADD creates the key without an expiry and EXPIRE gives it one: unless a
\* call failed or the process restarted, a key without an expiry is one that
\* some worker is about to EXPIRE (dedup.go:45-54).
KeyWithoutExpiryIsPending ==
  faults + crashes = 0 =>
    \A c \in Chats :
      (seen[c] # {} /\ ~ ttl[c]) =>
        \E w \in Workers : pc[w] = "expire" /\ Chat(w) = c

\* README.md:41: an operation is signalled to a chat once per TTL window.
AtMostOncePerWindow ==
  \A w1, w2 \in Workers : w1 # w2 =>
    \A c \in Chats, h \in Hashes :
      sends[<<w1, c, h>>] + sends[<<w2, c, h>>] <= epoch[c]

\* A tick that reads the books now in the cache finds operation h, and the
\* settings of c ask for it.
Wanted(c, h) ==
  /\ rows[c] # NoRow
  /\ rows[c].active
  /\ LET found == Detected[<<cache[Rapira], cache[Grinex]>>]
     IN \E i \in DOMAIN found :
          /\ Hash(found[i]) = h
          /\ MatchUserSettings(rows[c].settings, found[i])

\* While an opportunity stands in the books and a user asks for it, ticks
\* keep marking it for that user: failures, deadlines and restarts only
\* delay it (the ticker of cmd/analyser/main.go:158-171).
StandingOpportunityIsMarked ==
  \A c \in Chats, h \in Hashes :
    <>[]Wanted(c, h) => []<>(h \in seen[c])
=============================================================================
