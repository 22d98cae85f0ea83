# crypto-bot in TLA+

A verification development of the crypto-bot repository: two gateways poll the
order books of Rapira and Grinex, the analyser looks for arbitrage situations in
them, and a Telegram bot lets users say what they want to be told and tells
them. The modules here model what the Go code does, TLC checks them on small
instances, and TLAPS proves the most important invariants for every instance.

Paths are relative to the repository. `a.go:10-20` means lines of that file.

## 1. The system

```
 Rapira HTTP        Grinex HTTP                          Telegram
     |                   |                                 ^  |
 rapira-gw           grinex-gw                             |  | updates
     |  SET book (2 s)   |                                 |  v
     +------> Redis <----+                               tg-bot
     |  NATS orderbook.updated.*.*                        ^  |
     v                                    SendNotification|  |UpsertUserSettings
  analyser: HandleTick  ----------------------------------+  |SetUserActive
     ^   (NATS callback, 2 s ticker)                         |
     +-- settings gRPC server <------------------------------+
     |
  Postgres (users, user_pair_settings, notifications), Redis (books, seen_ops)
```

### 1.1 Components, their state, and what makes each correct

| Component | State | Operations | Correct when | Module |
|---|---|---|---|---|
| Detection (`internal/analyser/usecase/detection.go`, `service.go:155-241`) | none: pure | `DetectFact`, `DetectPotentialByBids/ByAsks`, `dedupTickOpportunities`, `MatchUserSettings`, `Opportunity.Hash` | what is announced can be traded at that profit; the level offered is enough for every user; a hash names one thing | `Domain`, `Levels`, `Detection`, `TickPath`, `PotentialScan` |
| Tick workers (`cmd/analyser/main.go:131-171`, `service.go:144-280`) | locals of two goroutines that share nothing but Redis and Postgres | `HandleTick` | no operation is sent twice by a worker within the life of a key; no signal is lost without a failure; a standing situation is found | `Analyser`, against the abstract `SignalFeed` |
| Deduplication (`internal/analyser/cache/dedup.go`) | Redis set `user:<chat>:seen_ops` with one expiry for all its members | `SeenOrMark` = SISMEMBER, SADD, EXPIRE | a repeat is at least the TTL away, but for two cases with a name; what is held back longer is held back for a reason | `Analyser` (a key that may expire at any time), `Delivery` (a key with a clock) |
| Order-book cache (`internal/analyser/cache/orderbook.go`, the gateways' `publisher.go`) | Redis key `orderbook:<source>:<pair>`, 2 s TTL | `Get`, `Publish` | a tick compares books of the recent past; no older book replaces a newer one | `Gateway` (age), `Analyser` (presence) |
| Notifications (`repository/postgres/notifications.go`, `adapters/tgbotgrpc/notifier.go`) | table `notifications` | `Create`, `Send` | a row for each signal; what was stored is shown once | `Analyser`, `Delivery`, `Message` |
| Settings (`internal/analyser/grpc`, `service.go:53-142`, `repository/postgres/user_settings.go`) | tables `users`, `user_pair_settings` | `UpsertUserSettings`, `SetUserActive`, `ListActive` | a row holds what the user last saved, and is enabled when he asked for it | `TgBot`, `Analyser` |
| Dialogs (`internal/tg-bot/usecase`, `cmd/tg-bot/main.go:83-110`) | a map of dialogs in memory; the keyboard each chat sees | `HandleUpdate` | the wizard asks for what it saves, ends only when it is saved, and the buttons tell the truth | `TgBot` |
| Notification server (`internal/tg-bot/grpc/server.go`) | none | `SendNotification`, `parseOpHash` | a notification becomes one message that says what was found | `Delivery`, `Message`, `TickPath` |
| Gateways (`internal/*-gw`) | a ticker; none kept between polls | `Run`, `tick`, `Mapper`, `Publish` | a book stored is the exchange's, cumulated, and is missing only when it must be | `Gateway`; `Mapper`, `TickPath` |
| Token manager (`rapira-gw/adapters/middleware`) | token and its end, under a mutex | `EnsureToken` | a request never carries a token that ends before it | `Gateway` |
| Start-up and shutdown (`cmd/*/main.go`, `docker-compose.yml`) | where each main is | dial, listen, connect, stop | the processes come up in any order and stop when asked | `Startup`, `MCStartup` |
| Configuration (`internal/shared/config`) | none | `Load`, `validateConfig` | what a process uses is checked before it is ready, but for four values with a name | `Config`, `Startup` |
| `WithTx`, logger, generated gRPC code | - | - | - | not modelled, see section 8 |

### 1.2 Where it is hard

* Two goroutines run `HandleTick` with nothing between them, so that every two
  network calls of the one may have calls of the other in between.
* A tick has a deadline (2 s or 1 s) that may pass between any two calls; a call
  may fail, or take effect and still be reported as failed; the process may die.
  There is no transaction over Redis, Postgres and gRPC: each step of *mark,
  store, send* can be the last.
* A deduplication key has one expiry for all its operations, restarted by each of
  them, is created without one, and may vanish while a worker is between SISMEMBER
  and EXPIRE: between SADD and EXPIRE it takes the operation just added with it, and
  EXPIRE on no key is no error.
* A handler outlives its caller: the analyser's call to tg-bot ends at a deadline
  that the handler never looks at, and tg-bot's broken call goes on in the analyser.
* A book lives 2 s and a request for the next one may take 3 s. Nobody looks at
  `UpdatedAt`; a SET that was given up may still be run after the next one.
* The analyser waits for tg-bot's port before it opens its own; what a process
  needs of its configuration is checked in three different places, and some of it in
  none.
* tg-bot handles one update at a time for all chats and keeps dialogs in memory.
* Prices, profits, thresholds and the three "smallest profits" of the code are
  floats, compared at their boundaries, and may be NaN.

`PROJECT.json` lists each of these hazards at its line, with the properties that
would catch it going wrong.

## 2. The modules

| Module | What it is | Extends |
|---|---|---|
| `Domain` | the value types of `internal/analyser/domain`, `Hash`, `MatchUserSettings` | |
| `Levels` | the level a potential detector keeps, as a set | |
| `Detection` | the detectors and the opportunities of a tick, as operators on books | `Domain`, `Levels` |
| `Mapper` | both gateways' `Mapper` | `Domain` |
| `Message` | notification, hash as text, and the message tg-bot makes of them | `Domain` |
| `TickPath` | exchange answers -> books -> opportunities -> messages | `Detection`, `Mapper`, `Message` |
| `PotentialScan` | the detectors' loop, one level per step, and what its result is worth to a user | `Domain`, `Levels` |
| `Analyser` | `HandleTick` in two goroutines against Redis, Postgres and tg-bot | `Domain` |
| `SignalFeed` | the abstract promise: claim, store, send, each at most once | |
| `AnalyserFeed` | the mapping under which `Analyser` implements `SignalFeed` | `Analyser`; instance of `SignalFeed` |
| `Delivery` | one chat with a clock: the key's TTL, calls and their handlers, the stop button | |
| `Gateway` | poll, token, SET, the ageing book, and the tick that reads it, with clocks | |
| `Config` | which variables a process parses and requires | |
| `Startup` | the four mains, step by step, with Docker and an operator around them | `Config` |
| `TgBot` | update loop, dialogs, keyboards, gRPC handlers, settings in Postgres | `Domain` |
| `MCDetection`, `MCPotentialScan`, `MCAnalyser`, `MCDelivery`, `MCStartup`, `MCTgBot` | finite instances for TLC | |
| `DetectionProofs`, `PotentialScanProofs`, `AnalyserProofs`, `AnalyserFeedProofs`, `DeliveryProofs`, `GatewayProofs`, `StartupProofs`, `TgBotProofs` | theorems | |

A definition with the comment "A variant ..." just before another one is a
plausible mistake in the definition after it: with it in that one's place, TLC
finds the property violated that is meant to exclude it.

### Detection and PotentialScan

A price is a whole number of 1/`Sub` cents, so that `round2` has something to
round; fees are fractions; floats are taken as exact rationals. A level is a
record with price, amount and the cumulated volume the mappers compute.
`TickOpportunities` is the double loop of `service.go:192-234` followed by
`dedupTickOpportunities`. `TickPath` is the pipeline: one step per gateway
(`tick`: map and store), one for the analyser, one for the messages: `Message`
splits a hash at its dashes into tokens, as `parseOpHash` does, so that the minus
of a group chat's id and the arrow of a pair make tokens too. The sides of an
answer are constants: `AnswersAssumption` says that an exchange lists the best
price first and no level without volume, which the code relies on without
looking; which side is empty, short, or does not parse is left open. `MCAnalyser`
composes detection and workers: it hands `Detection`'s result for two real books to
`Analyser` as the constant `Detected`, with an ASSUME that says so.

`PotentialScan` is the same loop at the grain of its steps. `SkipLevel`,
`TakeLevel` and `KeepBest` are the three ways through the loop's body; `best = 0`
is Go's nil. It exists because a definition that says "the best level" cannot
be wrong about which one the loop keeps; its proofs are about the loop.

### Analyser

One `pc` per worker, with a label before each network call: `getRapira`,
`getGrinex`, `listActive`, `loop` (SISMEMBER), `sadd`, `expire`, `create`,
`send`. What the code computes between two calls is part of the step of the
first. Each call has three outcomes: `Answered`; `Refused`, an error without an
effect, and the only outcome once the tick's context is done; `LostReply`, the
effect with an error. What the code does after an error is in the `...Fails`
actions: return from the tick (`ReadFails`), `continue` (`CheckSeenFails`,
`SAddFails`, `CreateFails`, `Send`), or a warning (`ExpireFails`).

| Action | Code |
|---|---|
| `Publish`, `BookExpires` | the gateways' `publisher.go` |
| `UpsertUserSettings`, `SetUserActive` | `Save`, `SetActive`, as one step each (their inside is in `TgBot`) |
| `KeyExpires` | Redis drops `user:<chat>:seen_ops` |
| `StartTick` | `cmd/analyser/main.go:131-171` |
| `GetRapira`, `GetGrinex` | `service.go:157-241` and `cache/orderbook.go` |
| `ListActive`, `NextUser`, `FinishTick`, `SkipUnmatched` | `service.go:243-280` |
| `CheckSeen`, `SAdd`, `Expire` | `cache/dedup.go:36-54` |
| `Create`, `Send` | `service.go:267-275`, `notifications.go`, `notifier.go`, `server.go` |
| `DeadlinePasses`, `Restart` | the contexts of `main.go`; the death of the process |

History variables: `epoch[c]` counts the creations of chat c's key, `delivered`
the operations that reached tg-bot since; `created` and `sends` count per worker.

### SignalFeed and AnalyserFeed

`SignalFeed` says what the analyser promises without books, ticks, users or keys:
a worker holds at most one claim at a time, takes it only on what it did not
store before in this window, stores it once, sends it once, and may lose it at any
point. Under the mapping of `AnalyserFeed` the key is what is remembered, its
creations are the windows, and a worker has a claim from SADD until Create and Send
are behind it. Every failure of `Analyser` becomes `Lose`, `TakeLost` or `LoseAll`;
ticks, reads and the environment's steps are stutters.

### Delivery

One chat over time. `Analyser` lets a key expire at any moment and takes a call to
tg-bot for one step; `Delivery` gives the key a clock (`left`, with `Forever` for a
key without an expiry), counts since when each worker last marked each operation
(`mark`), keeps what a key took with it between a worker's SADD and its EXPIRE
(`forgotten`), and cuts the call in two: the worker waits (`Call`), the handler shows the
message or not (`Show`, `NotShown`), and a deadline in between (`GiveUp`) leaves the
handler alone with it.

| Action | Code |
|---|---|
| `BeginTick` | `ListActive`, `service.go:243-250`: only an active user has a tick |
| `Check`, `SAdd`, `Expire`, `ExpireFails` | `cache/dedup.go:36-54` |
| `Create`, `StepFails`, `Continue` | `service.go:258-277` |
| `Call`, `CallFails`, `GiveUp` | `notifier.go:55-71` |
| `Show`, `NotShown` | `tg-bot/grpc/server.go:45-70` |
| `StopAnalysis`, `StartAnalysis` | the buttons, `tg-bot/usecase/service.go:303-335`, as one step |
| `AnalyserCrashes` | the death of the process |
| `Elapse`, `KeyExpires` | Redis' clock, and the expiry of the key, each on its own |

A key whose time is up is `Due`: it is still there, for its last instants. A worker
may find it, add to it or renew it with its EXPIRE in these, and `KeyExpires` may
fall between any two steps of the workers, SADD and EXPIRE among them. Only then does
the clock go on.

`debt[o]` is stored less shown; `underWay` and `after` are set when the user stops:
what was in somebody's hands then, and what he was shown since.

### Gateway

`rapira-gw` and `grinex-gw` run the same loop; one model serves for both. All clocks
advance together in `Elapse`, which waits for what takes no time (`MayWait`): an
idle gateway takes its ticker's tick, and no call exceeds its timeout. The ticker
keeps one tick and drops the others, as Go's does.

| Action | Code |
|---|---|
| `BeginPoll`, `EnsureToken` | `usecase/service.go:50-80`, `auth_transport.go:27-43`, `token_manager.go:152-174` |
| `Answer`, `NoAnswer` | `usecase/service.go:76-98`, `client.go` |
| `SetApplies`, `SetAnswered`, `SetFails`, `OrphanApplies` | `publisher.go:53-102`; a SET that was given up may still reach Redis within `MaxDelay` |
| `Die`, `Restart` | `cmd/*-gw/main.go`, `restart: unless-stopped` |
| `StartTick`, `Get`, `EndTick` | `cmd/analyser/main.go:131-171`, `cache/orderbook.go:47-80` |

`Answer` gives the book any age up to the time the request took: it stood at the
exchange at some moment of it. `hand` is the age of the book a tick has read.

### Config and Startup

Of an environment variable `Config` keeps what `config.go` tells apart: missing,
junk, zero or an empty list, good. `Load` is `validateConfig` after every number
was parsed. `Startup` has the steps of each main in their order (`Steps`); a step
passes when what it needs of the configuration (`Configured`) and of the others
(`Answers`) is there, and is otherwise the end of the process (`Exit`) or, for the
analyser's blocking dial of tg-bot, a wait. `Stop` is SIGTERM: the context is done,
and `MayHeed` says which steps look at it. Docker starts again what went down by
itself (`Start`); `ServeFails` is the server's error that cancels main's context;
`Handle`/`Handled` are a call that `GracefulStop` waits for. Each process has an
environment of its own (`env[p]`), since `docker-compose.yml` sets the two gRPC
addresses apart for the analyser and for tg-bot.

### TgBot

The update loop is ready for an update when `call = NoCall`. A step of the wizard
that makes no gRPC call is one action; `finishWizard`, `handleStartAnalysis` and
`handleStop` are cut at their call. The handler in the analyser is a request with
a place `at`: `get`, `user`, `write`, and then `ok` or `err`; each statement may
fail, or commit and be reported as failed. When a call breaks or tg-bot dies, the
request may go on as an orphan. `Fits` is the precision of the two NUMERIC
columns (`migrations/0002:10-12`).

## 3. What each run checks

| Run | Properties | States | Shows |
|---|---|---|---|
| `Detection` | `ProfitWithinSpread`, `AmountIsAvailable`, `TwinsAreFactThenPotential`, `MessageTellsWhatWasFound`, `TypeOK` | 6 345 | over all small answers: the profit is never more than the spread plus a cent of rounding; the amount is there at the announced prices; only a fact and its potential twin share a hash, fact first; the message names the exchanges, markets and prices of what was found, in a group too |
| `PotentialScan` | `ScanKeepsBest`, `UnlimitedUserMissesNothing`, `TypeOK` | 32 190 | all books of up to 4 levels: the best level, the first of equals; enough for every user without a limit |
| `AnalyserRace` | `OncePerWorkerPerWindow`, `OnceStrengthening`, `LossBound`, `KeyWithoutExpiryIsPending`, `FeedIsImplemented`, `TypeOK` | 843 312 | two workers, one chat, one operation, one failure and one restart; every step is one of `SignalFeed` |
| `AnalyserLive` | `StandingOpportunityIsMarked` | 312 048 | the ticker alone, two opportunities, one failure, one restart, and a user who may ask for them or not |
| `Delivery` | `RepeatsKeepTheirDistance`, `HeldBackByOthers`, `SignalsAfterStopWereUnderWay`, `StoredIsShownOnce`, `TypeOK` | 2 940 586 | two workers, two operations, a clock: repeats are a TTL apart, unless an EXPIRE was lost or the key expired before it; what is held back longer is so because of other operations; after stop only what was under way arrives; what was stored is shown once, less one for each failure |
| `Gateway` | `BooksComparedAreRecent`, `NoOlderBook`, `MissingBookIsASlowPoll`, `TokenOutlivesRequest`, `BookComesBack`, `TypeOK` | 228 392 | how old a compared book can be, when a book can be replaced by an older one or be missing, that the token covers the request, that books come again after any failures |
| `Startup` | `OnlyUncheckedValuesGetThrough`, `EveryProcessGetsReady`, `StopsWhenAsked`, `NoHandlerIsCut`, `TypeOK` | 95 553 | every order of starts, outages, crashes and stops, in every environment with one bad value: what the scattered checks let through, that nobody waits for ever, and that everybody stops |
| `TgBot` | `WatchedKindHasThreshold`, `StopButtonMeansActive`, `WizardEndsSaved`, `TypeOK` | 284 181 | one chat, one failure anywhere, and numbers the wizard or the column refuses |

Four runs show where the code and what the repository says of it part:

| Run | Property | What TLC shows |
|---|---|---|
| `AnalyserDuplicates` | `AtMostOncePerWindow` | both workers pass SISMEMBER, then both send (README.md:41 promises deduplication for 10 minutes) |
| `DetectionPotentialFloor` | `PotentialsAboveOneCent` | a potential of 0.03 is dropped (the bot's prompt: only up to 0.01) |
| `PotentialScanLimit` | `LimitedUserMissesNothing` | the one level kept exceeds the user's limit, a shallower one would have fitted (`docs/Architecture.md:190-207`) |
| `TgBotStart` | `StartButtonMeansInactive` | after the wizard the chat is active, under a "start" button |

The same comment that `detection.go:29` contradicts (facts of at least 0.03 are
looked for, the code lets 0.02 through) is the mirror image of
`DetectionPotentialFloor`: the two floors look exchanged.

What `LossBound` says is worth spelling out: *mark, store, send* in this order
means that a failure loses a signal rather than repeating it. The run shows that
it loses no more than one per failed call or passed deadline and one per worker
per restart, and none without a failure.

A failed EXPIRE leaves a key that never expires by itself: its operations are not
signalled again until another operation of the chat is marked, whose EXPIRE then
starts the clock for all. `KeyWithoutExpiryIsPending` and `HeldBackByOthers` name
that case as their only exception.

`RepeatsKeepTheirDistance` has that exception and another, which needs no failure. A
worker's SADD may come in the last instants of a key that others created: the key
expires, the EXPIRE that follows renews nothing and returns 0, which is no error, and
the operation is marked in no key. The worker stores and sends it, and the next tick,
two seconds later, does so again. `forgotten` is exactly that, and without it in the
property TLC finds this run. There is no third way. `HeldBackByOthers` leaves the
last instants of a key alone: what is in a key that is due was held back for the TTL
and is about to be let go.

`OnlyUncheckedValuesGetThrough` is about values that are wrong, not missing. Four of
them let a process count as ready that cannot do its work: `ANALYSER_GRPC_ADDR` of
tg-bot, which dials without waiting, so that every change of settings then fails;
`RAPIRA_API_BASE_URL` and `RAPIRA_API_KEY_KID` of rapira-gw, and `GRINEX_API_BASE_URL`
of grinex-gw, which make no request before they poll, so that their books never come.
Without any one of the four in `Unchecked`, TLC finds a process ready with it. Every
other value a process works with is found out before it is ready.

`MaxAge`, the bound of `BooksComparedAreRecent`, is the sum of four timeouts: with
those of the code (request 3 s, Redis, TTL 2 s, tick 2 s) a tick may compare, and a
user be told of, a price of more than seven seconds ago, since nobody looks at
`UpdatedAt`. `NoOlderBook` names a SET that was given up as the only way an older
book can replace a newer one. `MissingBookIsASlowPoll` says that with polls faster
than the TTL a book goes missing, short of a failure, only while answers take at
least the TTL less a poll interval.

## 4. Bounds, and why they are enough

* `Detection`: prices at four values around the thresholds, at most 2 levels a
  side for Rapira and 3 for Grinex with `Depth = GrinexDepth = 2`, so that books
  are shorter and longer than both depths; the fee is 5 % instead of 0.05 % so
  that it shows in whole cents. One person and one group are told.
  The proofs are for any answers, depths and fees.
* `PotentialScan`: 4 levels with a depth of 3; profits below, at and above the
  floor; thresholds between them, and NaN. The proofs lift all of this.
* `Analyser`: two workers are all there are. `MaxWindows = 2` lets a key expire
  and be created again while a worker is in between. One failure and one restart,
  since the properties count them: each one more adds the same again. `MaxPending`
  bounds the NATS queue; what it holds are messages without content.
  `AnalyserRace` has one chat and one operation; the proofs of all its properties
  are for any. `AnalyserLive` has one worker and two opportunities, so that one can
  be marked while the other keeps the key alive.
* `Delivery`: two workers, two operations that a tick finds alone or together, a TTL
  of 2 units, so that a key can be renewed halfway; two faults, since a crash takes
  one per worker. The workers are symmetric. A unit is long against a tick and its
  deadline of 2 s at most (`main.go:138`, `166`): no unit ends between SADD and
  EXPIRE, but the key may expire there. The safety proofs are for any of these.
* `Gateway`: the timeouts are scaled so that their order is that of the code: a
  request takes longer than a book lives, a book lives longer than a poll interval,
  SET and tick are short, and the skew just covers request, truncation and drift.
  Two failures or restarts, so that one SET that was given up can meet another. All
  safety properties are proved for every value.
* `Startup`: environments with at most one bad value, in what all four share or in the
  gRPC address of one of them, with the DSN whole or in parts;
  of numbers that every process parses and none uses, one per loader. The gateways
  wait for none of the others and none for them, so they are deployed alone. Two
  faults: one can hide behind another, such as a stop during an outage.
* `TgBot`: one chat, since a dialog, a keyboard and a row belong to one chat and
  the only thing chats share is the update loop, which a second call cannot enter
  anyway. Two numbers: 0, which the wizard refuses as a threshold and takes for
  no limit as a notional, and 2, a good threshold that is, with `NotionalLimit = 2`,
  a notional the column refuses. The proofs are for any chats and numbers, NaN
  included.

`MaxFaults`, `MaxCrashes`, `MaxWindows`, `MaxPending` and `MaxLevels` are the only
bounds that the code does not have. `waited` and `mark` stop counting at a TTL,
beyond which the properties do not look. Profits and amounts do not overflow: they
are floats in the code.

## 5. Fairness

* `FairSpec` of `Analyser` has weak fairness of `Tick(w)` for each worker, and of
  `KeyExpires(c)`. The first says that a goroutine with something to do goes on: the
  ticker's loop (`main.go:161-170`) never ends before the process does, every call it
  makes has the tick's deadline, and the Go scheduler runs it. The second says that
  Redis drops what is due. Nothing is assumed of the gateways, the users or NATS.
  `AnalyserLive` uses the ticker alone, because NATS messages may all be lost.
* `FairSpec` of `Gateway`: the loop goes on, a call comes to an end (an answer is
  what remains when the bounded failures are used up), a tick ends, Docker restarts
  the process, and time passes. Each of these has a timeout or a scheduler behind it.
* `FairSpec` of `Startup`: each process runs and is restarted, what went down
  recovers, a stopped process is started again, and a call to Telegram ends. Nothing
  is assumed of who comes up first. `Return` takes one more thing for granted: the
  analyser's deferred `db.Close` (`main.go:57`) waits for the connections its settings
  handlers still hold, and a statement of theirs ends. Were one to hang, the analyser
  would hang with it.

No strong fairness is needed anywhere. `Spec` of the other modules has no fairness:
a user need not answer, and a handler may hang.

`StandingOpportunityIsMarked` says marked, not sent: after a failure between the
two, the code does not send.

## 6. What is proved

All for every value of the constants that meets the module's assumptions.

* `AnalyserProofs`: `TypeCorrect`; `OncePerWorker` (`Spec => []OncePerWorkerPerWindow`),
  by `StoredOnlyAfterMarking`. The property is not inductive: that a worker stored h
  fewer times than the key was created says nothing about whether it may store it
  again. `OnceStrengthening` adds what the key knows: if the key exists and h is not
  in it, the current creation is still unused for h by every worker; and a worker past
  SADD holds a creation of its own. It speaks of `created` and `epoch` only, so the
  other worker's steps can only raise `epoch`. The proof has a lemma per kind of step:
  those that touch neither the key nor the counts (`OnceFrame`), giving an operation
  up, marking, expiry, EXPIRE, storing and sending.
  Assumption: `AnalyserAssumption`, that is, the model values are distinct and
  `Detected` returns sequences of opportunities; that `TickOpportunities` does, of any
  books the gateways store, is `TickIsRight` in `DetectionProofs`.
* `AnalyserProofs` also: `LossesAreBounded` (`Spec => []LossBound`). The
  property alone is not inductive, since a deadline is counted when it passes and the
  signal is lost later. `AtRisk` is the set of pairs of chat and operation that are
  marked, not delivered, and in no hands but those of a tick whose deadline has passed;
  a failed step adds at most one element, a restart one per worker, and every lost
  signal is at risk. `EveryKeyGetsAnExpiry`
  (`Spec => []KeyWithoutExpiryIsPending`): SADD and EXPIRE belong to one worker, so
  a key without an expiry has its creator before EXPIRE.
* `AnalyserFeedProofs`: `AnalyserImplementsFeed` (`Spec => FeedIsImplemented`), the
  refinement: initial states map to initial states, and each action to a step of
  `SignalFeed` or a stutter, with `OnceStrengthening` for the guard of `Take`.
* `DeliveryProofs`: `RepeatsAreApart` and `OnlyOthersHoldBack`, both from `KeyInv`:
  `JustMarked` (a worker between SADD and EXPIRE marked its operation in this
  unit), `Unmarked` (a worker about to mark an operation has no younger mark of its
  own for it, unless that was forgotten), `Kept` (the key outlives every mark younger
  than the TTL that was not forgotten, but for one whose EXPIRE comes next) and
  `Justified` (it lives no longer than some mark makes it). When the key expires, the
  marks of `Kept`'s last case are the ones it takes, and these become `forgotten`. `StoredAreShown`
  (`Spec => []StoredIsShownOnce`) from `DebtInv`: for every operation, what was stored
  and not shown, less the workers sending it and the handlers that run without
  their caller, is between 0 and the faults so far. A step moves one from a worker to
  the bot, or shows it, or charges it to a fault; a crash charges one per worker.
  `OnlyWhatWasUnderWay` (`Spec => []SignalsAfterStopWereUnderWay`) from `UserInv`: once
  the user has stopped the analysis, what he was shown since and what is under way
  together never exceed what was under way when he did. What is under way is counted as
  two sets of pairs, the operations left to each worker and the handlers each operation
  has without a caller; a step moves a pair from one to the other or removes it, and a
  crash, which turns every call into such a handler, does so by an injection.
  `TypeCorrect` adds that a worker is idle when it has nothing left to do.
  Assumption: the workers and operations are finite and the TTL is positive.
* `GatewayProofs`: `TypeCorrect`; `TokensAreValid`, from `TokenInv`, which relates the
  token's life to the time its request has taken (`SkewAssumption`: the skew covers
  request, truncation and drift, 10 s >= 3 s + 1 s + 6 s); `ComparedBooksAreRecent`
  from `AgeInv`: each stage adds at most its timeout to the age of the book that
  passes it; `BooksStayInOrder` from `OrderInv`: whatever is in Redis, or may get
  there, is older than the request that is running and than the book it brought;
  `OnlySlowPollsLoseTheBook` from `PaceInv`: of the time since the last SET, what was
  not spent waiting for answers was spent before the ticker fired.
* `StartupProofs`: `ChecksLetOnlyUncheckedThrough`
  (`Spec => []OnlyUncheckedValuesGetThrough`), from `StartInv`: a process at step i
  passed all before it, in its environment. What the steps ask for is then compared,
  variable by variable, with what the process uses (`Uses`), which is listed apart from
  them; the environments are any, with as many bad values as one likes.
  `HandlersFinish` (`Spec => NoHandlerIsCut`), from `TypeOK`, which has that a tg-bot
  that is handling a call is ready: of the steps that end a process, the exits of a
  start come too early for it, `Return` waits for the handler, and a crash counts as a
  fault.
* `DetectionProofs`: the invariants of `TickPath`, for answers of any length, any prices,
  volumes, fee, depths and unit of price: `TypeCorrect`, `ProfitStaysWithinSpread`,
  `AmountsAreAvailable`, `FactsComeFirst` and `MessagesAreTrue`. `PathInv` says of each
  phase what it has made of what the one before it left; the work is in the lemmas about
  the operators:
  - `Total` and `dedupTickOpportunities` are recursive functions on 0 .. n. `InductionOnNat`
    and `RecursionOnNat` are proved from the library's theorem that < on the naturals is
    well founded, with the set of numbers that have a property in place of the property;
    from them come what a sum holds (`TotalHoldsItsTerms`, `TotalGrows`) and what the
    deduplication leaves (`DedupIsUnique`: some of the list, in its order, no key twice).
  - `RoundedPrice` and `RoundingKeepsOrder`: rounding is off by half a cent at most and
    keeps the order of prices; `ProfitIsBounded` adds three roundings up to one cent,
    with `FeesAreCosts` for the sign of the fees.
  - `RapiraBookIsGood` and `GrinexBookIsGood`: what a mapper returns is nil or a book in
    the order of its prices whose notionals are the sums of the amounts above them, with
    the levels beyond the fifth cut off; so the notional at a level is no more than the
    side has at that price or better (`AsksHoldTheNotional`, `BidsHoldTheNotional`).
  - `FoundIsInOrder`: of two opportunities of the double loop with the same hash the
    potential is not the earlier; with `DedupIsUnique`, at most a fact and a potential
    are left.
  - `HashParses`: the last five tokens of a hash are the two exchanges and the three
    numbers, however many tokens the chat's id and the pair make before them.

  Assumptions: `AnswersAssumption` and the signs of the constants.
* `PotentialScanProofs`: `TypeCorrect`; `ScanIsBest`, by induction over the loop with the
  invariant "the accumulator is the best level of the prefix", and from it
  `OneCandidateIsEnough`: the one candidate returned is as good as any other for
  every threshold, NaN included. Assumption: profits and amounts are integers.
* `TgBotProofs`: `TypeCorrect`; `ThresholdsWereEntered`
  (`Spec => []WatchedKindHasThreshold`) from `ThresholdStrengthening`: dialogs are in
  the wizard's order, and requests, orphans included, carry thresholds;
  `StopButtonIsTrue` (`Spec => []StopButtonMeansActive`) from `StopButtonStrengthening`:
  without failures there are no orphans, and a request that is not yet carried out has
  changed nothing. `WizardsEndSaved` (`Spec => WizardEndsSaved`) from `SavedInv`: if no
  request was left to itself there are no orphans, the dialog a request was made of
  waits unchanged, and a request answered OK is what the row holds; and from
  `OnlyAnswersEndWizards`.

## 7. What is only model-checked

* Liveness: `StandingOpportunityIsMarked`, `BookComesBack`, `EveryProcessGetsReady` and
  `StopsWhenAsked`. They follow from fairness, which takes ENABLED, beyond the provers
  at hand. Every invariant and action property of a passing run, and the refinement, is
  a theorem.
* The four runs that find a violation are counterexamples, and need no proof.

## 8. What is left out, and why

* Not modelled: `WithTx` (no caller), the logger, the generated gRPC code.
* Partly: the exchange clients (a request that takes time and ends in a book or an
  error; HTTP, multipart and JSON are conversions of no state), the Redis and
  Postgres clients (opening them is a step of `Startup`), the migrations
  (uniqueness and precision of the columns; nobody waits for them, so statements
  fail until they are done, like any other; `arbitrage_signals` has no code).
* `ListByChatID` has no caller. The HTTP port is required of each process and used
  by none. `DedupTTL`, `OrderbookDepth`, the notifier's timeout, the token's TTL and
  Rapira's symbols are loaded, but hard-coded where they are used: the models take
  the hard-coded values.
* The order of `ListActive`, which has no ORDER BY: `Analyser` takes any order in
  each tick, and whether somebody is always last is Postgres' choice.
* tg-bot's update loop waiting for a gRPC call without a deadline: `TgBot` lets a
  call end or break, and has no property that says that it does, because the code
  does not make it so.
* Telegram's repetition of an update that was not acknowledged.
* Thresholds below 1e-8, which NUMERIC(18,8) rounds to 0, and the precision of floats.
* `SuggestedBid`, `CreatedAt`, the wording of messages, logging.

## 9. What could come next

1. `TgBot` and `Analyser` in one model. `Delivery` has the stop button as one step;
   with both, by which settings a user is signalled while he changes them.
2. A proof that `PotentialScan`'s loop computes what `BestCandidate` of `Detection` defines,
   for both detectors: `ScanIsBest` says so of the level kept, in terms of `BestLevel`.
3. Several chats in `Delivery`, to say what a tick's deadline leaves to the last ones.

## 10. Running it

```
tlc -workers 2 -config AnalyserRace.cfg MCAnalyser
tlapm AnalyserProofs.tla
```

`PROJECT.json` lists every run with its module and configuration.
