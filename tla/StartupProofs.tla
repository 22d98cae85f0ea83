--------------------------- MODULE StartupProofs ---------------------------
(***************************************************************************)
(* What the checks of a start keep out and what they let through, in every *)
(* environment, with any number of outages, crashes and stops.             *)
(***************************************************************************)
EXTENDS Startup, TLAPS

\* A process keeps the place it has in its start by the steps it passed.
StepsPassed ==
  \A p \in Processes : \A i \in DOMAIN Steps[p] :
    i < at[p] => Configured(p, Steps[p][i], env[p])

StartInv ==
  /\ env \in Envs
  /\ at \in [Processes -> Nat]
  /\ StepsPassed

LEMMA StepsAreSequences ==
  ASSUME NEW p \in Processes
  PROVE  /\ Len(Steps[p]) \in Nat
         /\ DOMAIN Steps[p] = 1 .. Len(Steps[p])
<1>1. CASE p = "analyser"
  BY <1>1 DEF Steps, Processes
<1>2. CASE p = "tg-bot"
  BY <1>2 DEF Steps, Processes
<1>3. CASE p = "rapira-gw"
  BY <1>3 DEF Steps, Processes
<1>4. CASE p = "grinex-gw"
  BY <1>4 DEF Steps, Processes
<1> QED
  BY <1>1, <1>2, <1>3, <1>4 DEF Processes

\* A process that goes down has passed nothing, one that goes on passes its step.
LEMMA StartInvHolds == Spec => []StartInv
<1>1. Init => StartInv
  <2> SUFFICES ASSUME Init PROVE StartInv
    OBVIOUS
  <2>1. env \in Envs /\ at \in [Processes -> Nat] /\ \A p \in Processes : at[p] = 0
    BY DEF Init
  <2> QED
    BY <2>1, StepsAreSequences DEF StartInv, StepsPassed
<1>2. StartInv /\ [Next]_vars => StartInv'
  <2> SUFFICES ASSUME StartInv, [Next]_vars PROVE StartInv'
    OBVIOUS
  <2> DEFINE Same == env' = env /\ at' = at
  <2> USE DEF StartInv
  <2>1. ASSUME Same PROVE StartInv'
    BY <2>1 DEF StepsPassed
  <2>2. ASSUME NEW p \in Processes, env' = env, at' = [at EXCEPT ![p] = 0]
        PROVE  StartInv'
    BY <2>2, StepsAreSequences DEF StepsPassed
  <2>3. ASSUME NEW p \in Processes, env' = env, at' = [at EXCEPT ![p] = 1]
        PROVE  StartInv'
    BY <2>3, StepsAreSequences DEF StepsPassed
  <2>4. ASSUME NEW p \in Processes, Proceed(p) PROVE StartInv'
    <3>1. /\ env' = env
          /\ at' = [at EXCEPT ![p] = at[p] + 1]
          /\ Configured(p, Steps[p][at[p]], env[p])
      BY <2>4 DEF Proceed, Passes, Step, world
    <3>2. at' \in [Processes -> Nat]
      BY <3>1
    <3>3. ASSUME NEW q \in Processes, NEW i \in DOMAIN Steps[q], i < at'[q]
          PROVE  Configured(q, Steps[q][i], env[q])
      <4>1. CASE q = p /\ i = at[p]
        BY <3>1, <4>1
      <4>2. CASE ~ (q = p /\ i = at[p])
        <5>1. i < at[q]
          BY <3>1, <3>3, <4>2, StepsAreSequences
        <5> QED
          BY <5>1 DEF StepsPassed
      <4> QED
        BY <4>1, <4>2
    <3> QED
      BY <3>1, <3>2, <3>3 DEF StepsPassed
  <2>5. ASSUME NEW p \in Processes, Run(p) PROVE StartInv'
    <3>1. CASE Start(p)
      BY <3>1, <2>3 DEF Start, world
    <3>2. CASE Proceed(p)
      BY <3>2, <2>4
    <3>3. CASE Exit(p) \/ Return(p)
      BY <3>3, <2>2 DEF Exit, Return, GoDown, world
    <3>4. CASE StartAgain(p)
      BY <3>4, <2>1 DEF StartAgain, world
    <3> QED
      BY <2>5, <3>1, <3>2, <3>3, <3>4 DEF Run
  <2>6. ASSUME NEW p \in Processes, Stop(p) \/ ServeFails(p) PROVE StartInv'
    BY <2>6, <2>1 DEF Stop, ServeFails, world
  <2>7. ASSUME NEW p \in Processes, Crash(p) PROVE StartInv'
    BY <2>7, <2>2 DEF Crash, GoDown, world
  <2>8. CASE Handle \/ Handled \/ Recover \/ \E i \in Infrastructure : Outage(i)
    BY <2>8, <2>1 DEF Handle, Handled, Recover, Recovery, Outage, world
  <2>9. CASE UNCHANGED vars
    BY <2>9, <2>1 DEF vars
  <2> QED
    BY <2>5, <2>6, <2>7, <2>8, <2>9 DEF Next
<1> QED
  BY <1>1, <1>2, PTL DEF Spec

-----------------------------------------------------------------------------
\* Of a value of an environment no more is told apart than this.
LEMMA ValuesAreKnown ==
  ASSUME StartInv, NEW p \in Processes
  PROVE  \A k : Value(env[p], k) \in {Unset, Junk, Zero, Good}
<1>1. env \in Envs
  BY DEF StartInv
<1>2. \A k \in DOMAIN env[p] : env[p][k] \in {Unset, Junk, Zero, Good}
  BY <1>1, StartupAssumption
<1> QED
  BY <1>2 DEF Value

\* A process that is ready has passed every step of its start.
LEMMA ReadyPassedAll ==
  ASSUME StartInv, NEW p \in Processes, Ready(p)
  PROVE  \A i \in DOMAIN Steps[p] : Configured(p, Steps[p][i], env[p])
BY StepsAreSequences DEF StartInv, StepsPassed, Ready

\* A number that Load accepts parses, if it is there at all.
LEMMA LoadedNumbersParse ==
  ASSUME NEW p, NEW e, Load(p, e)
  PROVE  \A k \in {"REDIS_DB", "RAPIRA_POLL_INTERVAL_MS", "GRINEX_POLL_INTERVAL_MS"} :
           Value(e, k) # Junk
<1>1. Value(e, "REDIS_ADDR") # Unset
  BY DEF Load, validateConfig, Present
<1>2. {"REDIS_DB", "RAPIRA_POLL_INTERVAL_MS", "GRINEX_POLL_INTERVAL_MS"} \subseteq Parsed(p, e)
  BY <1>1 DEF Parsed, rapiraNumbers, grinexNumbers
<1>3. \A k \in DOMAIN e : k \in Parsed(p, e) => e[k] # Junk
  BY DEF Load
<1>4. Good # Junk
  BY DEF Good, Junk
<1> QED
  BY <1>2, <1>3, <1>4 DEF Value

\* What a ready process works with is of use to it, but for the values nobody
\* looks at closer than for their being there: whatever the environments are,
\* and whatever goes up and down, the scattered checks of config.go and the four
\* mains keep everything else out (config.go:330-400).
THEOREM ChecksLetOnlyUncheckedThrough == Spec => []OnlyUncheckedValuesGetThrough
<1>1. StartInv => OnlyUncheckedValuesGetThrough
  <2> SUFFICES ASSUME StartInv, NEW p \in Processes, Ready(p)
               PROVE  /\ p = "analyser" => GoodDSN(env[p])
                      /\ \A k \in Uses(p) :
                           Works(p, k) \/ (k \in Unchecked(p) /\ Present(env[p], k))
    BY DEF OnlyUncheckedValuesGetThrough
  <2> DEFINE v(k) == Value(env[p], k)
             passed(s) == Configured(p, s, env[p])
  <2>1. \A i \in DOMAIN Steps[p] : passed(Steps[p][i])
    BY ReadyPassedAll
  <2>2. \A k : v(k) \in {Unset, Junk, Zero, Good}
    BY ValuesAreKnown
  <2>3. ASSUME passed("config")
        PROVE  /\ Load(p, env[p])
               /\ \A k \in MayBeZero : Works(p, k)
    <3>1. Load(p, env[p])
      BY <2>3 DEF Configured
    <3>2. \A k \in MayBeZero : v(k) # Junk
      BY <3>1, LoadedNumbersParse DEF MayBeZero
    <3> QED
      BY <2>2, <3>1, <3>2 DEF Works
  <2>4. ASSUME NEW k, v(k) = Good PROVE Works(p, k)
    BY <2>4 DEF Works
  <2>5. CASE p = "analyser"
    <3>1. DOMAIN Steps[p] = 1 .. 6
          /\ Steps[p] = <<"config", "postgres", "redis", "dialTgBot", "listen", "nats">>
      BY <2>5 DEF Steps
    <3>2. /\ passed("config") /\ passed("postgres") /\ passed("redis")
          /\ passed("dialTgBot") /\ passed("listen") /\ passed("nats")
      BY <2>1, <3>1
    <3>3. /\ GoodDSN(env[p]) /\ v("REDIS_ADDR") = Good /\ v("NATS_URL") = Good
          /\ v("TGBOT_GRPC_ADDR") = Good /\ v("ANALYSER_GRPC_ADDR") = Good
      BY <2>5, <3>2 DEF Configured, GRPCAddr
    <3>4. Uses(p) = {"REDIS_ADDR", "REDIS_DB", "NATS_URL", "TGBOT_GRPC_ADDR",
                     "ANALYSER_GRPC_ADDR"}
      BY <2>5 DEF Uses
    <3>5. Works(p, "REDIS_DB")
      BY <2>3, <3>2 DEF MayBeZero
    <3> QED
      BY <2>4, <3>3, <3>4, <3>5
  <2>6. CASE p = "tg-bot"
    <3>1. DOMAIN Steps[p] = 1 .. 5
          /\ Steps[p] = <<"config", "telegram", "dialAnalyser", "updates", "listen">>
      BY <2>6 DEF Steps
    <3>2. passed("telegram") /\ passed("dialAnalyser") /\ passed("listen")
      BY <2>1, <3>1
    <3>3. /\ v("TG_BOT_TOKEN") = Good /\ v("TGBOT_GRPC_ADDR") = Good
          /\ Present(env[p], "ANALYSER_GRPC_ADDR")
      BY <2>6, <3>2 DEF Configured, GRPCAddr
    <3>4. /\ Uses(p) = {"TG_BOT_TOKEN", "TGBOT_GRPC_ADDR", "ANALYSER_GRPC_ADDR"}
          /\ Unchecked(p) = {"ANALYSER_GRPC_ADDR"}
      BY <2>6 DEF Uses, Unchecked
    <3> QED
      BY <2>4, <2>6, <3>3, <3>4
  <2>7. CASE p = "rapira-gw"
    <3>1. DOMAIN Steps[p] = 1 .. 4
          /\ Steps[p] = <<"config", "redis", "nats", "key">>
      BY <2>7 DEF Steps
    <3>2. passed("config") /\ passed("redis") /\ passed("nats") /\ passed("key")
      BY <2>1, <3>1
    <3>3. /\ v("REDIS_ADDR") = Good /\ v("NATS_URL") = Good
          /\ v("RAPIRA_JWT_PRIVATE_KEY") = Good
      BY <3>2 DEF Configured
    <3>4. Present(env[p], "RAPIRA_API_BASE_URL") /\ Present(env[p], "RAPIRA_API_KEY_KID")
      BY <2>3, <2>7, <3>2 DEF Load, validateConfig
    <3>5. Works(p, "REDIS_DB") /\ Works(p, "RAPIRA_POLL_INTERVAL_MS")
      BY <2>3, <3>2 DEF MayBeZero
    <3>6. /\ Uses(p) = {"REDIS_ADDR", "REDIS_DB", "NATS_URL", "RAPIRA_API_BASE_URL",
                        "RAPIRA_API_KEY_KID", "RAPIRA_JWT_PRIVATE_KEY",
                        "RAPIRA_POLL_INTERVAL_MS"}
          /\ Unchecked(p) = {"RAPIRA_API_BASE_URL", "RAPIRA_API_KEY_KID"}
      BY <2>7 DEF Uses, Unchecked
    <3> QED
      BY <2>4, <2>7, <3>3, <3>4, <3>5, <3>6
  <2>8. CASE p = "grinex-gw"
    <3>1. DOMAIN Steps[p] = 1 .. 3 /\ Steps[p] = <<"config", "redis", "nats">>
      BY <2>8 DEF Steps
    <3>2. passed("config") /\ passed("redis") /\ passed("nats")
      BY <2>1, <3>1
    <3>3. v("REDIS_ADDR") = Good /\ v("NATS_URL") = Good
      BY <3>2 DEF Configured
    <3>4. v("GRINEX_SYMBOLS") \notin {Unset, Zero, Junk}
      BY <2>3, <2>8, <3>2 DEF Load, validateConfig, HasSymbols
    <3>5. Works(p, "GRINEX_SYMBOLS")
      BY <2>2, <2>4, <3>4
    <3>6. Works(p, "REDIS_DB") /\ Works(p, "GRINEX_POLL_INTERVAL_MS")
      BY <2>3, <3>2 DEF MayBeZero
    <3>7. Works(p, "GRINEX_API_BASE_URL") \/ Present(env[p], "GRINEX_API_BASE_URL")
      BY DEF Works, MayBeMissing, Present
    <3>8. /\ Uses(p) = {"REDIS_ADDR", "REDIS_DB", "NATS_URL", "GRINEX_API_BASE_URL",
                        "GRINEX_SYMBOLS", "GRINEX_POLL_INTERVAL_MS"}
          /\ Unchecked(p) = {"GRINEX_API_BASE_URL"}
      BY <2>8 DEF Uses, Unchecked
    <3> QED
      BY <2>4, <2>8, <3>3, <3>5, <3>6, <3>7, <3>8
  <2> QED
    BY <2>5, <2>6, <2>7, <2>8 DEF Processes
<1> QED
  BY <1>1, StartInvHolds, PTL

-----------------------------------------------------------------------------
\* The part of TypeOK that a step must keep; env and deployed never change.
LEMMA StepsHaveEnds ==
  /\ \A p \in Processes : Len(Steps[p]) \in Nat \ {0}
  /\ "tg-bot" \in Processes /\ Len(Steps["tg-bot"]) = 5 /\ ListensAt("tg-bot") = 5
<1>1. \A p \in Processes : Len(Steps[p]) \in Nat \ {0}
  <2> SUFFICES ASSUME NEW p \in Processes PROVE Len(Steps[p]) \in Nat \ {0}
    OBVIOUS
  <2>1. CASE p = "analyser"
    BY <2>1 DEF Steps, Processes
  <2>2. CASE p = "tg-bot"
    BY <2>2 DEF Steps, Processes
  <2>3. CASE p = "rapira-gw"
    BY <2>3 DEF Steps, Processes
  <2>4. CASE p = "grinex-gw"
    BY <2>4 DEF Steps, Processes
  <2> QED
    BY <2>1, <2>2, <2>3, <2>4 DEF Processes
<1> DEFINE s == <<"config", "telegram", "dialAnalyser", "updates", "listen">>
<1>2. "tg-bot" \in Processes /\ Steps["tg-bot"] = s /\ Len(s) = 5
  BY DEF Steps, Processes
<1>3. \A i \in DOMAIN s : s[i] = "listen" <=> i = 5
  OBVIOUS
<1>4. 5 \in DOMAIN s
  OBVIOUS
<1>5. ListensAt("tg-bot") = 5
  BY <1>2, <1>3, <1>4 DEF ListensAt
<1> QED
  BY <1>1, <1>2, <1>5

\* A process that goes down takes the call it was handling with it, and nobody
\* else's.
LEMMA GoDownKeepsTypes ==
  ASSUME TypeOK, NEW p \in Processes, GoDown(p)
  PROVE  /\ at' \in [Processes -> Nat]
         /\ \A q \in Processes : at'[q] <= Len(Steps[q]) + 1
         /\ handling' \in BOOLEAN
         /\ handling' => Ready("tg-bot")'
<1>1. /\ at' = [at EXCEPT ![p] = 0] /\ at \in [Processes -> Nat]
      /\ \A q \in Processes : at[q] <= Len(Steps[q]) + 1
      /\ handling' = (handling /\ p # "tg-bot") /\ handling \in BOOLEAN
      /\ handling => at["tg-bot"] > Len(Steps["tg-bot"])
  BY DEF TypeOK, GoDown, Ready
<1>2. at' \in [Processes -> Nat] /\ handling' \in BOOLEAN
  BY <1>1
<1>3. \A q \in Processes : at'[q] <= Len(Steps[q]) + 1
  BY <1>1, StepsHaveEnds
<1>4. ASSUME handling' PROVE Ready("tg-bot")'
  <2>1. handling /\ p # "tg-bot"
    BY <1>1, <1>4
  <2> QED
    BY <1>1, <2>1, StepsHaveEnds DEF Ready
<1> QED
  BY <1>2, <1>3, <1>4

\* TypeOK speaks of two things together: the tg-bot's handler and its being ready.
THEOREM TypeCorrect == Spec => []TypeOK
<1>1. Init => TypeOK
  <2> SUFFICES ASSUME Init PROVE TypeOK
    OBVIOUS
  <2>1. (\A p \in Processes : DOMAIN env[p] \subseteq Names) /\ deployed \in Deployments /\ faults \in 0 .. MaxFaults
    BY StartupAssumption DEF Init
  <2>2. \A p \in Processes : at[p] <= Len(Steps[p]) + 1
    BY StepsHaveEnds DEF Init
  <2>3. /\ at \in [Processes -> Nat] /\ up \subseteq Infrastructure
        /\ handling \in BOOLEAN /\ (handling => Ready("tg-bot"))
    BY DEF Init
  <2>4. wanted \in [Processes -> BOOLEAN] /\ cancelled \in [Processes -> BOOLEAN]
    BY DEF Init
  <2> QED
    BY <2>1, <2>2, <2>3, <2>4 DEF TypeOK
<1>2. TypeOK /\ [Next]_vars => TypeOK'
  <2> SUFFICES ASSUME TypeOK, [Next]_vars PROVE TypeOK'
    OBVIOUS
  <2>1. ASSUME UNCHANGED <<at, handling>>
        PROVE  handling' => Ready("tg-bot")'
    BY <2>1 DEF TypeOK, Ready
  <2>2. ASSUME NEW p \in Processes, Run(p) PROVE TypeOK'
    <3>1. CASE Start(p)
      <4>1. /\ at' = [at EXCEPT ![p] = 1] /\ at[p] = 0 /\ handling' = handling
        BY <3>1 DEF Start
      <4>2. handling' => Ready("tg-bot")'
        BY <4>1, StepsHaveEnds DEF TypeOK, Ready
      <4> QED
        BY <3>1, <4>1, <4>2, StepsHaveEnds DEF Start, TypeOK, world
    <3>2. CASE Proceed(p)
      <4>1. /\ at' = [at EXCEPT ![p] = at[p] + 1] /\ handling' = handling
            /\ at[p] <= Len(Steps[p])
        BY <3>2, StepsAreSequences DEF Proceed, Starting
      <4>2. handling' => Ready("tg-bot")'
        BY <4>1, StepsHaveEnds DEF TypeOK, Ready
      <4> QED
        BY <3>2, <4>1, <4>2, StepsHaveEnds DEF Proceed, TypeOK, world
    <3>3. CASE Exit(p) \/ Return(p)
      BY <3>3, GoDownKeepsTypes DEF Exit, Return, TypeOK, world
    <3>4. CASE StartAgain(p)
      BY <3>4, <2>1 DEF StartAgain, TypeOK, world
    <3> QED
      BY <2>2, <3>1, <3>2, <3>3, <3>4 DEF Run
  <2>3. ASSUME NEW p \in Processes, Stop(p) \/ ServeFails(p) PROVE TypeOK'
    <3>1. /\ UNCHANGED <<env, deployed, up, at, handling>>
          /\ faults' \in 0 .. MaxFaults
      BY <2>3, StartupAssumption DEF Stop, ServeFails, Fault, TypeOK, world
    <3>2. wanted' \in [Processes -> BOOLEAN] /\ cancelled' \in [Processes -> BOOLEAN]
      BY <2>3 DEF Stop, ServeFails, TypeOK
    <3> QED
      BY <3>1, <3>2, <2>1 DEF TypeOK
  <2>4. ASSUME NEW p \in Processes, Crash(p) PROVE TypeOK'
    BY <2>4, GoDownKeepsTypes, StartupAssumption DEF Crash, Fault, TypeOK, world
  <2>5. CASE Handle
    <3>1. Ready("tg-bot")'
      BY <2>5, StepsHaveEnds DEF Handle, Serving, Ready
    <3> QED
      BY <2>5, <3>1 DEF Handle, TypeOK, world
  <2>6. CASE Handled
    BY <2>6 DEF Handled, TypeOK, world
  <2>7. CASE Recover \/ \E i \in Infrastructure : Outage(i)
    BY <2>7, <2>1, StartupAssumption
    DEF Recover, Recovery, Outage, Fault, TypeOK
  <2>8. CASE UNCHANGED vars
    BY <2>8, <2>1 DEF vars, TypeOK
  <2> QED
    BY <2>2, <2>3, <2>4, <2>5, <2>6, <2>7, <2>8 DEF Next
<1> QED
  BY <1>1, <1>2, PTL DEF Spec

\* No handler of the tg-bot is cut off by anything but a crash: a process whose
\* server handles a call is past its start, so it does not exit there, and it
\* returns only after GracefulStop (tg-bot main.go:138-143).
THEOREM HandlersFinish == Spec => NoHandlerIsCut
<1> DEFINE Cut == handling /\ at["tg-bot"] # 0 /\ at'["tg-bot"] = 0
<1>1. TypeOK /\ [Next]_vars => (Cut => faults' = faults + 1)
  <2> SUFFICES ASSUME TypeOK, [Next]_vars, Cut PROVE faults' = faults + 1
    OBVIOUS
  <2>1. /\ at \in [Processes -> Nat] /\ "tg-bot" \in Processes
        /\ at["tg-bot"] > Len(Steps["tg-bot"])
    BY StepsHaveEnds DEF TypeOK, Ready
  <2>2. at' # at
    OBVIOUS
  <2>3. ASSUME NEW p \in Processes, Run(p) PROVE FALSE
    <3>1. CASE Start(p)
      BY <3>1, <2>1 DEF Start
    <3>2. CASE Proceed(p)
      BY <3>2, <2>1 DEF Proceed
    <3>3. CASE Exit(p)
      <4>1. p = "tg-bot"
        BY <3>3, <2>1 DEF Exit, GoDown
      <4> QED
        BY <3>3, <4>1, <2>1, StepsAreSequences DEF Exit, Starting
    <3>4. CASE Return(p)
      <4>1. p = "tg-bot"
        BY <3>4, <2>1 DEF Return, GoDown
      <4> QED
        BY <3>4, <4>1 DEF Return
    <3>5. CASE StartAgain(p)
      BY <3>5, <2>2 DEF StartAgain
    <3> QED
      BY <2>3, <3>1, <3>2, <3>3, <3>4, <3>5 DEF Run
  <2>4. ASSUME NEW p \in Processes, Stop(p) \/ ServeFails(p) PROVE FALSE
    BY <2>4, <2>2 DEF Stop, ServeFails
  <2>5. ASSUME NEW p \in Processes, Crash(p) PROVE faults' = faults + 1
    BY <2>5 DEF Crash, Fault
  <2>6. CASE Handle \/ Handled \/ Recover \/ \E i \in Infrastructure : Outage(i)
    BY <2>6, <2>2 DEF Handle, Handled, Recover, Recovery, Outage
  <2>7. CASE UNCHANGED vars
    BY <2>7, <2>2 DEF vars
  <2> QED
    BY <2>3, <2>4, <2>5, <2>6, <2>7 DEF Next
<1> QED
  BY <1>1, TypeCorrect, PTL DEF Spec, NoHandlerIsCut
=============================================================================
