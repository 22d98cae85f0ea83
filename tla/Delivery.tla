------------------------------ MODULE Delivery ------------------------------
(***************************************************************************)
(* What one user gets to see: from a tick that found operations for his    *)
(* chat, through the deduplication key of the chat with its clock, the row *)
(* in Postgres and the gRPC call, to the tg-bot's handler and Telegram;    *)
(* while he stops the analysis and starts it again.                        *)
(*                                                                         *)
(* Module Analyser has the same workers with every failure of theirs but   *)
(* without time, and takes a call to the tg-bot for one step.  Here time   *)
(* has a coarse unit, a fraction of the 10 minutes of TTL, and a call ends *)
(* at its deadline for the caller alone: the handler, which looks at no    *)
(* context, goes on (server.go:32-70).                                     *)
(***************************************************************************)
EXTENDS Integers, Sequences, FiniteSets

CONSTANTS
  Workers,     \* the NATS callback and the ticker
  Ops,         \* the operations, by hash
  Found,       \* what a tick may find for this user: sequences of operations
  TTL,         \* of the deduplication key, 10 minutes
  Forever,     \* a key without an expiry
  MaxFaults    \* bound: failed and refused alone, passed deadlines, crashes

ASSUME DeliveryAssumption ==
  /\ IsFiniteSet(Workers) /\ IsFiniteSet(Ops)
  /\ Found \subseteq Seq(Ops) \ {<<>>}
  /\ TTL \in Nat \ {0} /\ Forever \notin Nat
  /\ MaxFaults \in Nat

VARIABLES
  active,     \* Postgres: is the row of the chat enabled?
  seen, left, \* Redis: user:<chat>:seen_ops, and what is left of its TTL
  pc, todo,   \* each worker: where it is, and the operations before it
  alone,      \* the tg-bot's handlers whose caller is gone, by operation
  mark,       \* history: time since a worker marked an operation, TTL at most
  forgotten,  \* history: what expired between a worker's SADD and its EXPIRE
  debt,       \* history: notifications stored less signals shown, by operation
  underWay,   \* history: signals under way when the user stopped
  after,      \* history: signals shown since then
  unexpired,  \* history: did an EXPIRE fail, or was one never sent?
  faults

userVars == <<active, underWay, after>>
keyVars == <<seen, left, mark, forgotten>>
vars == <<active, seen, left, pc, todo, alone, mark, forgotten, debt, underWay,
          after, unexpired, faults>>

Init ==
  /\ active = TRUE
  /\ seen = {} /\ left = 0
  /\ pc = [w \in Workers |-> "idle"]
  /\ todo = [w \in Workers |-> <<>>]
  /\ alone = [o \in Ops |-> 0]
  /\ mark = [w \in Workers |-> [o \in Ops |-> TTL]]
  /\ forgotten = [w \in Workers |-> {}]
  /\ debt = [o \in Ops |-> 0]
  /\ underWay = 0 /\ after = 0
  /\ unexpired = FALSE
  /\ faults = 0

Fault(n) == faults + n <= MaxFaults /\ faults' = faults + n

GoTo(w, l) == pc' = [pc EXCEPT ![w] = l]

\* The operation a worker is at.
Op(w) == Head(todo[w])

\* A variant that returns at the last operation instead of after it.
ReturnAtTheLast(w) ==
  /\ todo' = [todo EXCEPT ![w] = Tail(@)]
  /\ GoTo(w, IF Len(todo[w]) <= 2 THEN "idle" ELSE "check")

\* On to the next operation, or to the end of the tick.
Continue(w) ==
  /\ todo' = [todo EXCEPT ![w] = Tail(@)]
  /\ GoTo(w, IF Len(todo[w]) = 1 THEN "idle" ELSE "check")

-----------------------------------------------------------------------------
(* A worker's tick.                                                        *)

\* A variant that keeps the list of the users from an earlier tick.
BeginTickAnyway(w) ==
  /\ pc[w] = "idle"
  /\ \E found \in Found : todo' = [todo EXCEPT ![w] = found]
  /\ GoTo(w, "check")
  /\ UNCHANGED <<userVars, keyVars, alone, debt, unexpired, faults>>

\* ListActive has the user, who is used as he was then for the whole tick.
BeginTick(w) ==
  /\ pc[w] = "idle"
  /\ active
  /\ \E found \in Found : todo' = [todo EXCEPT ![w] = found]
  /\ GoTo(w, "check")
  /\ UNCHANGED <<userVars, keyVars, alone, debt, unexpired, faults>>

\* A variant in which each sighting of an operation renews the key.
CheckRenews(w) ==
  /\ pc[w] = "check"
  /\ IF Op(w) \in seen
     THEN Continue(w) /\ left' = TTL
     ELSE GoTo(w, "sadd") /\ UNCHANGED <<todo, left>>
  /\ UNCHANGED <<userVars, seen, mark, forgotten, alone, debt, unexpired, faults>>

\* SISMEMBER.
Check(w) ==
  /\ pc[w] = "check"
  /\ IF Op(w) \in seen THEN Continue(w) ELSE GoTo(w, "sadd") /\ UNCHANGED todo
  /\ UNCHANGED <<userVars, keyVars, alone, debt, unexpired, faults>>

\* SADD, which creates the key without an expiry, and leaves that of a key that
\* is there as it is.
Mark(w) ==
  /\ seen' = seen \cup {Op(w)}
  /\ left' = IF seen = {} THEN Forever ELSE left
  /\ mark' = [mark EXCEPT ![w][Op(w)] = 0]
  /\ forgotten' = [forgotten EXCEPT ![w] = @ \ {Op(w)}]

SAdd(w) ==
  /\ pc[w] = "sadd"
  /\ Mark(w)
  /\ GoTo(w, "expire")
  /\ UNCHANGED <<userVars, todo, alone, debt, unexpired, faults>>

\* A variant with a shorter TTL.
ExpireSooner(w) ==
  /\ pc[w] = "expire"
  /\ left' = IF seen = {} THEN 0 ELSE TTL - 1
  /\ GoTo(w, "create")
  /\ UNCHANGED <<userVars, seen, mark, forgotten, todo, alone, debt, unexpired, faults>>

\* EXPIRE: the clock of the whole key starts again.  Of a key that has expired
\* meanwhile it returns 0, which is no error.
Expire(w) ==
  /\ pc[w] = "expire"
  /\ left' = IF seen = {} THEN 0 ELSE TTL
  /\ GoTo(w, "create")
  /\ UNCHANGED <<userVars, seen, mark, forgotten, todo, alone, debt, unexpired, faults>>

ExpireFails(w) ==
  /\ pc[w] = "expire"
  /\ Fault(1)
  /\ unexpired' = TRUE
  /\ GoTo(w, "create")
  /\ UNCHANGED <<userVars, keyVars, todo, alone, debt>>

Owe(w) == debt' = [debt EXCEPT ![Op(w)] = @ + 1]

Create(w) ==
  /\ pc[w] = "create"
  /\ Owe(w)
  /\ GoTo(w, "send")
  /\ UNCHANGED <<userVars, keyVars, todo, alone, unexpired, faults>>

\* SISMEMBER, SADD or INSERT fails, the last two perhaps with their effect:
\* HandleTick goes on with the next operation.
StepFails(w) ==
  /\ Fault(1)
  /\ \/ pc[w] \in {"check", "sadd", "create"} /\ UNCHANGED <<keyVars, debt, unexpired>>
     \/ pc[w] = "sadd" /\ Mark(w) /\ unexpired' = TRUE /\ UNCHANGED debt
     \/ pc[w] = "create" /\ Owe(w) /\ UNCHANGED <<keyVars, unexpired>>
  /\ Continue(w)
  /\ UNCHANGED <<userVars, alone>>

\* GRPCNotifier.Send: while the worker waits, a handler of the tg-bot has its call.
Call(w) ==
  /\ pc[w] = "send"
  /\ GoTo(w, "wait")
  /\ UNCHANGED <<userVars, keyVars, todo, alone, debt, unexpired, faults>>

CallFails(w) ==
  /\ pc[w] = "send"
  /\ Fault(1)
  /\ Continue(w)
  /\ UNCHANGED <<userVars, keyVars, alone, debt, unexpired>>

\* The call of worker w is left to its handler.
Abandon(w) == alone' = [alone EXCEPT ![Op(w)] = @ + 1]

\* A variant that sends a call that took too long a second time.
GiveUpAndRetry(w) ==
  /\ pc[w] = "wait"
  /\ Fault(1)
  /\ Abandon(w)
  /\ GoTo(w, "send")
  /\ UNCHANGED <<userVars, keyVars, todo, debt, unexpired>>

\* The deadline of the call, or of the tick, passes: an error in the log.  The
\* handler goes on, alone.
GiveUp(w) ==
  /\ pc[w] = "wait"
  /\ Fault(1)
  /\ Abandon(w)
  /\ Continue(w)
  /\ UNCHANGED <<userVars, keyVars, debt, unexpired>>

-----------------------------------------------------------------------------
(* The tg-bot and its user.                                                *)

\* A handler of operation o ends, and the worker that waits for it goes on.
HandlerEnds(o) ==
  \/ \E w \in Workers : pc[w] = "wait" /\ Op(w) = o /\ Continue(w) /\ UNCHANGED alone
  \/ alone[o] > 0 /\ alone' = [alone EXCEPT ![o] = @ - 1] /\ UNCHANGED <<pc, todo>>

\* Telegram takes the message.
Show(o) ==
  /\ HandlerEnds(o)
  /\ debt' = [debt EXCEPT ![o] = @ - 1]
  /\ after' = IF active THEN after ELSE after + 1
  /\ UNCHANGED <<active, underWay, keyVars, unexpired, faults>>

\* Telegram refuses it, and the analyser is told that all is well; or the tg-bot
\* dies with the call, and the analyser logs an error.
NotShown(o) ==
  /\ HandlerEnds(o)
  /\ Fault(1)
  /\ UNCHANGED <<userVars, keyVars, debt, unexpired>>

\* Signals that somebody still has in hand: a tick's operation, or a handler alone.
InTicks == UNION {{w} \X DOMAIN todo[w] : w \in Workers}
WithHandlers == UNION {{o} \X (1 .. alone[o]) : o \in Ops}

UnderWay == Cardinality(InTicks) + Cardinality(WithHandlers)

\* The stop button: SetUserActive(false).
StopAnalysis ==
  /\ active
  /\ active' = FALSE
  /\ underWay' = UnderWay /\ after' = 0
  /\ UNCHANGED <<keyVars, pc, todo, alone, debt, unexpired, faults>>

\* The start button, or the end of the dialog that stores the settings.
StartAnalysis ==
  /\ ~ active
  /\ active' = TRUE
  /\ underWay' = 0 /\ after' = 0
  /\ UNCHANGED <<keyVars, pc, todo, alone, debt, unexpired, faults>>

-----------------------------------------------------------------------------
(* Crashes and time.                                                       *)

\* The analyser dies; its handlers at the tg-bot go on.
AnalyserCrashes ==
  /\ Fault(Cardinality(Workers))
  /\ unexpired' = (unexpired \/ \E w \in Workers : pc[w] = "expire")
  /\ pc' = [w \in Workers |-> "idle"]
  /\ todo' = [w \in Workers |-> <<>>]
  /\ alone' = [o \in Ops |->
       alone[o] + Cardinality({w \in Workers : pc[w] = "wait" /\ Op(w) = o})]
  /\ UNCHANGED <<userVars, keyVars, debt>>

Older(t) == IF t < TTL THEN t + 1 ELSE TTL

\* The key's time is up: it is in the last instants before it expires.
Due == seen # {} /\ left = 0

\* The clock.  A unit is long against a tick and its deadline of 2 s at most
\* (main.go:138, 166), so none ends between an SADD and its EXPIRE; and a key that
\* is due does not last a unit.
Elapse ==
  /\ \A w \in Workers : pc[w] # "expire"
  /\ ~ Due
  /\ mark' = [w \in Workers |-> [o \in Ops |-> Older(mark[w][o])]]
  /\ forgotten' = [w \in Workers |-> {o \in forgotten[w] : mark'[w][o] < TTL}]
  /\ left' = IF left \in {0, Forever} THEN left ELSE left - 1
  /\ UNCHANGED <<userVars, seen, pc, todo, alone, debt, unexpired, faults>>

\* The key expires, between any two steps of the workers: what one of them has
\* added and not yet followed by its EXPIRE goes with the rest.
KeyExpires ==
  /\ Due
  /\ seen' = {}
  /\ forgotten' = [w \in Workers |->
       forgotten[w] \cup (IF pc[w] = "expire" THEN {Op(w)} ELSE {})]
  /\ UNCHANGED <<userVars, left, mark, pc, todo, alone, debt, unexpired, faults>>

-----------------------------------------------------------------------------
Tick(w) ==
  \/ BeginTick(w) \/ Check(w) \/ SAdd(w) \/ Expire(w) \/ ExpireFails(w)
  \/ Create(w) \/ StepFails(w) \/ Call(w) \/ CallFails(w) \/ GiveUp(w)

Next ==
  \/ \E w \in Workers : Tick(w)
  \/ \E o \in Ops : Show(o) \/ NotShown(o)
  \/ StopAnalysis \/ StartAnalysis
  \/ AnalyserCrashes
  \/ Elapse \/ KeyExpires

Spec == Init /\ [][Next]_vars

-----------------------------------------------------------------------------
(* Properties.                                                             *)

TypeOK ==
  /\ active \in BOOLEAN
  /\ seen \in SUBSET Ops
  /\ left \in 0 .. TTL \cup {Forever}
  /\ seen = {} => left = 0
  /\ pc \in [Workers -> {"idle", "check", "sadd", "expire", "create", "send", "wait"}]
  /\ todo \in [Workers -> Seq(Ops)]
  /\ \A w \in Workers : pc[w] # "idle" <=> todo[w] # <<>>
  /\ alone \in [Ops -> Nat]
  /\ mark \in [Workers -> [Ops -> 0 .. TTL]]
  /\ forgotten \in [Workers -> SUBSET Ops]
  /\ debt \in [Ops -> Int]
  /\ underWay \in Nat /\ after \in Nat
  /\ unexpired \in BOOLEAN
  /\ faults \in 0 .. MaxFaults

\* A worker offers an operation to the chat again no sooner than TTL after it
\* did so before (dedup.go:29-57), whatever the other worker marks or renews in
\* between, but for two cases.  Some SADD was left without its EXPIRE; or the key
\* expired between this worker's SADD of the operation and the EXPIRE, which
\* then renews nothing and reports no error: the operation is found again, and
\* sent, by the next tick.
RepeatsKeepTheirDistance ==
  [][\A w \in Workers :
       (pc[w] = "sadd" /\ pc'[w] = "expire")
         => \/ mark[w][Op(w)] = TTL
            \/ Op(w) \in forgotten[w]
            \/ unexpired]_vars

Recent(o) == \E w \in Workers : mark[w][o] < TTL

\* An operation is held back for longer than TTL, by a key that is not about to
\* expire, only while the chat's other operations keep the key alive, each for
\* all (EXPIRE of dedup.go:51 is on the key), or for want of an EXPIRE.
HeldBackByOthers ==
  left # 0 =>
    \A o \in seen : ~ Recent(o) => (\E p \in Ops \ {o} : Recent(p)) \/ unexpired

\* Signals the user still gets after he stopped the analysis were under way
\* before: each tick read the active users once (service.go:243-250), and no
\* tick that starts later has him.
SignalsAfterStopWereUnderWay == ~ active => after <= underWay

\* The notifications of operation o that somebody has stored and not shown yet.
InHand(o) ==
  Cardinality({w \in Workers : pc[w] \in {"send", "wait"} /\ Op(w) = o})
    + alone[o]

\* Nothing is shown that was not stored, nor twice; and what was stored is shown
\* unless a call failed or a process died, the refusals that SendNotification
\* hides from the analyser among them (server.go:48-56, service.go:269-275).
StoredIsShownOnce ==
  \A o \in Ops : debt[o] - InHand(o) \in 0 .. faults
=============================================================================
