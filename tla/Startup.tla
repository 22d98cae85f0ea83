------------------------------ MODULE Startup ------------------------------
(***************************************************************************)
(* How the four processes start, stop and are started again: main.go of    *)
(* each, the steps before its loop, and what each step waits for or exits  *)
(* on.  Docker starts again whatever went down by itself; an operator may  *)
(* stop a process and start it again later.                                *)
(*                                                                         *)
(* Only the step of cmd/analyser that dials the tg-bot waits for another   *)
(* of the four; the rest of a start depends on Postgres, Redis, NATS and   *)
(* Telegram, which come and go.                                            *)
(***************************************************************************)
EXTENDS Config, Naturals, Sequences

CONSTANTS
  Envs,          \* what each process may find in its environment
  Deployments,   \* the sets of processes that are started together
  MaxFaults      \* bound: outages, crashes, stops, servers that fail

ASSUME StartupAssumption ==
  /\ \A e \in Envs, p \in Processes :
       /\ DOMAIN e[p] \subseteq Names
       /\ \A k \in DOMAIN e[p] : e[p][k] \in {Unset, Junk, Zero, Good}
  /\ Deployments \subseteq SUBSET Processes
  /\ MaxFaults \in Nat

Infrastructure == {"postgres", "redis", "nats", "telegram"}

VARIABLES
  env,        \* each process: its environment variables that are not good
  deployed,   \* the processes that are to run
  up,         \* what of Infrastructure answers
  at,         \* the step each process is at, 0 when it is down
  wanted,     \* does Docker keep it up?
  cancelled,  \* is the context of its main done?
  handling,   \* does the tg-bot's server handle a SendNotification?
  faults

vars == <<env, deployed, up, at, wanted, cancelled, handling, faults>>
world == <<env, deployed, up>>

Steps ==
  [p \in Processes |->
     IF p = "analyser"
       THEN <<"config", "postgres", "redis", "dialTgBot", "listen", "nats">>
     ELSE IF p = "tg-bot"
       THEN <<"config", "telegram", "dialAnalyser", "updates", "listen">>
     ELSE IF p = "rapira-gw"
       THEN <<"config", "redis", "nats", "key">>
       ELSE <<"config", "redis", "nats">>]

Starting(p) == at[p] \in DOMAIN Steps[p]
Step(p) == Steps[p][at[p]]
Ready(p) == at[p] > Len(Steps[p])

\* grpcSrv.Serve is reached, and the context not done.
ListensAt(p) == CHOOSE i \in DOMAIN Steps[p] : Steps[p][i] = "listen"
Serving(p) == at[p] > ListensAt(p) /\ ~ cancelled[p]

GRPCAddr(p) == IF p = "analyser" THEN "ANALYSER_GRPC_ADDR" ELSE "TGBOT_GRPC_ADDR"

-----------------------------------------------------------------------------
(* What a step needs: of the configuration, and of the others.             *)

\* A DSN made of parts is good when they are.
GoodDSN(e) ==
  IF Present(e, "POSTGRES_DSN") THEN Value(e, "POSTGRES_DSN") = Good
                                ELSE \A k \in DSNParts : Value(e, k) = Good

Configured(p, step, e) ==
  /\ step = "config" => Load(p, e)
  /\ step = "postgres" => GoodDSN(e)
  /\ step = "redis" => Value(e, "REDIS_ADDR") = Good
  /\ step = "nats" => Value(e, "NATS_URL") = Good
  /\ step = "telegram" => Value(e, "TG_BOT_TOKEN") = Good
  /\ step = "key" => Value(e, "RAPIRA_JWT_PRIVATE_KEY") = Good
  /\ step = "listen" => Value(e, GRPCAddr(p)) = Good
  /\ step = "dialTgBot" => Value(e, "TGBOT_GRPC_ADDR") = Good
  /\ step = "dialAnalyser" => Present(e, "ANALYSER_GRPC_ADDR")

\* A variant in which the tg-bot dials as the analyser does, WithBlock.
AnswersWhenBothBlock(step) ==
  /\ step \in Infrastructure => step \in up
  /\ step = "dialTgBot" => Serving("tg-bot")
  /\ step = "dialAnalyser" => Serving("analyser")

Answers(step) ==
  /\ step \in Infrastructure => step \in up
  /\ step = "dialTgBot" => Serving("tg-bot")

Passes(p) == Configured(p, Step(p), env[p]) /\ Answers(Step(p))

\* Steps that look at the context; one that is done makes them fail.
Heeding == {"postgres", "redis", "dialTgBot"}
MayHeed == Heeding \cup {"dialAnalyser"}

-----------------------------------------------------------------------------
Init ==
  /\ env \in Envs
  /\ deployed \in Deployments
  /\ up = Infrastructure
  /\ at = [p \in Processes |-> 0]
  /\ wanted = [p \in Processes |-> p \in deployed]
  /\ cancelled = [p \in Processes |-> FALSE]
  /\ handling = FALSE
  /\ faults = 0

\* Docker starts a process that is down.
Start(p) ==
  /\ at[p] = 0 /\ wanted[p]
  /\ at' = [at EXCEPT ![p] = 1]
  /\ cancelled' = [cancelled EXCEPT ![p] = FALSE]
  /\ UNCHANGED <<world, wanted, handling, faults>>

Proceed(p) ==
  /\ Starting(p)
  /\ Passes(p)
  /\ cancelled[p] => Step(p) \notin Heeding
  /\ at' = [at EXCEPT ![p] = @ + 1]
  /\ UNCHANGED <<world, wanted, cancelled, handling, faults>>

\* A variant whose handlers outlive it.
GoDownAlone(p) ==
  /\ at' = [at EXCEPT ![p] = 0]
  /\ UNCHANGED handling

\* The process is gone, and with it what its server was handling.
GoDown(p) ==
  /\ at' = [at EXCEPT ![p] = 0]
  /\ handling' = (handling /\ p # "tg-bot")

\* A variant that keeps trying to reach Postgres, asked to stop or not.
ExitNotAtPostgres(p) ==
  /\ Starting(p)
  /\ \/ ~ Passes(p) /\ Step(p) \notin {"dialTgBot", "postgres"}
     \/ cancelled[p] /\ Step(p) \in MayHeed \ {"postgres"}
  /\ GoDown(p)
  /\ UNCHANGED <<world, wanted, cancelled, faults>>

\* os.Exit(1), or MustLoad's panic.  Postgres is tried again for 30 s first,
\* even when the context is done; the dial of the tg-bot waits for ever, unless
\* the context is done.
Exit(p) ==
  /\ Starting(p)
  /\ \/ ~ Passes(p) /\ Step(p) # "dialTgBot"
     \/ cancelled[p] /\ Step(p) \in MayHeed
  /\ GoDown(p)
  /\ UNCHANGED <<world, wanted, cancelled, faults>>

\* A variant that stops its server at once.
ReturnAtOnce(p) ==
  /\ Ready(p) /\ cancelled[p]
  /\ GoDown(p)
  /\ UNCHANGED <<world, wanted, cancelled, faults>>

\* main returns when its context is done; the tg-bot's GracefulStop waits for
\* the handlers, and the analyser's db.Close for statements that still run,
\* which end by themselves here.
Return(p) ==
  /\ Ready(p) /\ cancelled[p]
  /\ p = "tg-bot" => ~ handling
  /\ GoDown(p)
  /\ UNCHANGED <<world, wanted, cancelled, faults>>

\* The analyser's notifier calls the tg-bot, and Telegram answers its handler.
Handle ==
  /\ ~ handling
  /\ Ready("analyser") /\ Serving("tg-bot")
  /\ handling' = TRUE
  /\ UNCHANGED <<world, at, wanted, cancelled, faults>>

Handled ==
  /\ handling
  /\ handling' = FALSE
  /\ UNCHANGED <<world, at, wanted, cancelled, faults>>

-----------------------------------------------------------------------------
Fault == faults < MaxFaults /\ faults' = faults + 1

\* SIGTERM from an operator; Docker does not start the process again.
Stop(p) ==
  /\ wanted[p] /\ Fault
  /\ wanted' = [wanted EXCEPT ![p] = FALSE]
  /\ cancelled' = [cancelled EXCEPT ![p] = at[p] # 0]
  /\ UNCHANGED <<world, at, handling>>

StartAgain(p) ==
  /\ p \in deployed /\ ~ wanted[p] /\ at[p] = 0
  /\ wanted' = [wanted EXCEPT ![p] = TRUE]
  /\ UNCHANGED <<world, at, cancelled, handling, faults>>

\* Serve returns an error: the process stops itself.
ServeFails(p) ==
  /\ p \in {"analyser", "tg-bot"}
  /\ Serving(p) /\ Fault
  /\ cancelled' = [cancelled EXCEPT ![p] = TRUE]
  /\ UNCHANGED <<world, at, wanted, handling>>

Crash(p) ==
  /\ at[p] # 0 /\ Fault
  /\ GoDown(p)
  /\ UNCHANGED <<world, wanted, cancelled>>

\* A part of the infrastructure stops answering; the processes that are ready
\* go on without it.
Outage(i) ==
  /\ i \in up /\ Fault
  /\ up' = up \ {i}
  /\ UNCHANGED <<env, deployed, at, wanted, cancelled, handling>>

Recovery(i) ==
  /\ i \notin up
  /\ up' = up \cup {i}
  /\ UNCHANGED <<env, deployed, at, wanted, cancelled, handling, faults>>

\* What goes on by itself: the process, Docker, the operator's second half.
Run(p) == Start(p) \/ Proceed(p) \/ Exit(p) \/ Return(p) \/ StartAgain(p)

Recover == \E i \in Infrastructure : Recovery(i)

Next ==
  \/ \E p \in Processes : Run(p) \/ Stop(p) \/ ServeFails(p) \/ Crash(p)
  \/ Handle \/ Handled
  \/ Recover \/ \E i \in Infrastructure : Outage(i)

Spec == Init /\ [][Next]_vars

\* Each process runs; a call to Telegram comes to an end; what went down comes
\* up again, and a process that was stopped is started again.
Fairness ==
  /\ \A p \in Processes : WF_vars(Run(p))
  /\ WF_vars(Handled) /\ WF_vars(Recover)

FairSpec == Spec /\ Fairness

-----------------------------------------------------------------------------
(* Properties.                                                             *)

TypeOK ==
  /\ \A p \in Processes : DOMAIN env[p] \subseteq Names
  /\ deployed \in Deployments
  /\ up \subseteq Infrastructure
  /\ at \in [Processes -> Nat]
  /\ \A p \in Processes : at[p] <= Len(Steps[p]) + 1
  /\ wanted \in [Processes -> BOOLEAN]
  /\ cancelled \in [Processes -> BOOLEAN]
  /\ handling \in BOOLEAN
  /\ handling => Ready("tg-bot")
  /\ faults \in 0 .. MaxFaults

\* What a process works with, of its environment, once it is ready.
Uses(p) ==
  CASE p = "analyser" -> {"REDIS_ADDR", "REDIS_DB", "NATS_URL",
                          "TGBOT_GRPC_ADDR", "ANALYSER_GRPC_ADDR"}
    [] p = "tg-bot" -> {"TG_BOT_TOKEN", "TGBOT_GRPC_ADDR", "ANALYSER_GRPC_ADDR"}
    [] p = "rapira-gw" -> {"REDIS_ADDR", "REDIS_DB", "NATS_URL",
                           "RAPIRA_API_BASE_URL", "RAPIRA_API_KEY_KID",
                           "RAPIRA_JWT_PRIVATE_KEY", "RAPIRA_POLL_INTERVAL_MS"}
    [] p = "grinex-gw" -> {"REDIS_ADDR", "REDIS_DB", "NATS_URL",
                           "GRINEX_API_BASE_URL", "GRINEX_SYMBOLS",
                           "GRINEX_POLL_INTERVAL_MS"}

\* Missing, or missing and zero, stands for a default of config.go or of the
\* gateways' service.go.
MayBeMissing == {"GRINEX_API_BASE_URL"}
MayBeZero == {"REDIS_DB", "RAPIRA_POLL_INTERVAL_MS", "GRINEX_POLL_INTERVAL_MS"}

\* The value is of use to the process.
Works(p, k) ==
  \/ Value(env[p], k) = Good
  \/ k \in MayBeMissing \cup MayBeZero /\ Value(env[p], k) = Unset
  \/ k \in MayBeZero /\ Value(env[p], k) = Zero

\* What no step of a start looks at closer than for not being blank: the tg-bot
\* does not wait for its dial (tg-bot main.go:49-64), and neither gateway makes a
\* request before it polls (config.go:354-359, 382-384).
Unchecked(p) ==
  CASE p = "tg-bot" -> {"ANALYSER_GRPC_ADDR"}
    [] p = "rapira-gw" -> {"RAPIRA_API_BASE_URL", "RAPIRA_API_KEY_KID"}
    [] p = "grinex-gw" -> {"GRINEX_API_BASE_URL"}
    [] OTHER -> {}

\* The checks are scattered over config.go:330-400, the four mains, redis.New and
\* db.Open.  Together they let a process get ready with a value that it uses and
\* that is of no use to it only if that is one of the four nobody looks at
\* closer, and it is not blank: then the tg-bot can reach no analyser, or a
\* gateway no exchange, and each counts as ready all the same.
OnlyUncheckedValuesGetThrough ==
  \A p \in Processes : Ready(p) =>
    /\ p = "analyser" => GoodDSN(env[p])
    /\ \A k \in Uses(p) :
         Works(p, k) \/ (k \in Unchecked(p) /\ Present(env[p], k))

Usable(p) ==
  \A i \in DOMAIN Steps[p] : Configured(p, Steps[p][i], env[p])

\* In whatever order the processes and what they depend on come up, go down and
\* come back, nobody waits for ever for somebody who waits for it: a process that
\* is down gets ready if its configuration is good, the analyser if the tg-bot it
\* dials can (analyser main.go:83-88, tg-bot main.go:55-60).
EveryProcessGetsReady ==
  \A p \in Processes :
    (/\ at[p] = 0 /\ p \in deployed
     /\ Usable(p)
     /\ p = "analyser" => "tg-bot" \in deployed /\ Usable("tg-bot"))
    ~> Ready(p)

\* A process that is told to stop does: wherever it is in its start, and
\* whatever its server is handling.
StopsWhenAsked ==
  \A p \in Processes : cancelled[p] ~> at[p] = 0

\* Short of a crash, no handler of the tg-bot is cut off between Telegram's
\* answer and its own (GracefulStop, tg-bot main.go:142): the analyser is not
\* told of an error when the user has the message.
NoHandlerIsCut ==
  [][(handling /\ at["tg-bot"] # 0 /\ at'["tg-bot"] = 0)
       => faults' = faults + 1]_vars
=============================================================================
