--------------------------- MODULE GatewayProofs ---------------------------
(***************************************************************************)
(* What a gateway's timing promises, for every poll interval, timeout, TTL *)
(* and number of failures the assumptions of Gateway allow.                *)
(***************************************************************************)
EXTENDS Gateway, TLAPS

LEMMA PollIsPositive == Poll \in Nat \ {0}
  BY GatewayAssumption DEF Poll

\* The token of a request loses a unit for each unit the request takes.
TokenInv == pc = "request" => token + spent > Skew

\* Each stage adds at most its timeout to the age of the book that passes it.
AgeInv ==
  /\ set # NoSet => set <= RequestTimeout + spent
  /\ \A o \in orphans : o.age <= RequestTimeout + o.delay
  /\ book # NoBook => book.age + book.left <= RequestTimeout + MaxDelay + BookTTL
  /\ tick = "holding" =>
       /\ hand \in Nat
       /\ hand < RequestTimeout + MaxDelay + BookTTL + tickSpent

\* Whatever is in Redis, or may get there, is older than the request that is
\* running, and than the book it brought.
OlderThanPoll(age) ==
  /\ pc = "request" => spent <= age
  /\ set # NoSet => set <= age

OrderInv ==
  /\ book # NoBook => OlderThanPoll(book.age)
  /\ \A o \in orphans : OlderThanPoll(o.age)

\* The time since the last SET took effect, no more than BookTTL; of it, what
\* was not spent waiting for answers was spent before the ticker fired.
Since == IF book = NoBook THEN BookTTL ELSE BookTTL - book.left

PaceInv ==
  /\ pc = "down" => missed
  /\ ~ missed =>
       /\ Since <= waited + Poll
       /\ (pc = "set" /\ set = NoSet) => Since <= waited
       /\ (pc = "idle" /\ ~ due) => Since + next <= waited + Poll

-----------------------------------------------------------------------------
\* The variables have their types, and no clock passes its deadline.
THEOREM TypeCorrect == Spec => []TypeOK
<1>1. Init => TypeOK
  BY GatewayAssumption, PollIsPositive DEF Init, TypeOK
<1>2. TypeOK /\ [Next]_vars => TypeOK'
  <2> SUFFICES ASSUME TypeOK, [Next]_vars PROVE TypeOK'
    OBVIOUS
  <2> USE GatewayAssumption, SkewAssumption, PollIsPositive DEF TypeOK
  <2>1. CASE BeginPoll
    <3>1. due' \in BOOLEAN
      BY <2>1, Zenon DEF BeginPoll
    <3>2. token' \in 0 .. TokenTTL
      BY <2>1 DEF BeginPoll, EnsureToken
    <3> QED
      BY <2>1, <3>1, <3>2 DEF BeginPoll, tickVars
  <2>2. CASE Answer
    BY <2>2 DEF Answer, tickVars
  <2>3. CASE NoAnswer
    BY <2>3 DEF NoAnswer, Fault, tickVars
  <2>4. CASE SetApplies
    <3>1. missed' \in BOOLEAN
      BY <2>4, Zenon DEF SetApplies
    <3> QED
      BY <2>4, <3>1 DEF SetApplies, Store, tickVars
  <2>5. CASE SetAnswered
    BY <2>5 DEF SetAnswered, tickVars
  <2>6. CASE SetFails
    BY <2>6 DEF SetFails, Fault, GiveUp, tickVars
  <2>7. CASE Restart
    BY <2>7 DEF Restart, Start, tickVars
  <2>8. CASE Die
    <3>1. due' \in BOOLEAN
      BY <2>8, Zenon DEF Die
    <3> QED
      BY <2>8, <3>1 DEF Die, Fault, GiveUp, tickVars
  <2>9. CASE \E o \in orphans : OrphanApplies(o)
    BY <2>9 DEF OrphanApplies, Store, gwVars, tickVars
  <2>10. CASE AnalyserStep
    BY <2>10 DEF AnalyserStep, StartTick, Get, EndTick, gwVars
  <2>11. CASE Elapse
    <3> USE <2>11 DEF Elapse
    <3>1. /\ due' \in BOOLEAN
          /\ next' \in 1 .. Poll
      <4>1. due' \in BOOLEAN
        BY Zenon DEF TickerElapses
      <4>2. next' \in 1 .. Poll
        BY DEF TickerElapses
      <4> QED
        BY <4>1, <4>2
    <3>2. orphans' \in SUBSET [age : Nat, delay : 0 .. MaxDelay]
      BY DEF OrphansElapse
    <3>3. book' \in [age : Nat, left : 1 .. BookTTL] \cup {NoBook}
      BY DEF BookElapses
    <3>4. /\ spent' \in Nat
          /\ (pc = "request" => spent <= RequestTimeout)'
          /\ (pc = "set" => spent <= SetTimeout)'
      BY DEF MayWait, Waiting
    <3>5. token' \in 0 .. TokenTTL /\ waited' \in 0 .. BookTTL
      BY DEF Waiting
    <3>6. set' \in Nat \cup {NoSet} /\ (pc # "set" => set = NoSet)'
      OBVIOUS
    <3>7. tickSpent' \in 0 .. TickTimeout /\ hand' \in Nat \cup {NoBook}
      BY DEF MayWait
    <3> QED
      BY <3>1, <3>2, <3>3, <3>4, <3>5, <3>6, <3>7
  <2>12. CASE UNCHANGED vars
    BY <2>12 DEF vars
  <2> QED
    BY <2>1, <2>2, <2>3, <2>4, <2>5, <2>6, <2>7, <2>8, <2>9, <2>10, <2>11, <2>12
       DEF Next, GatewayStep
<1> QED
  BY <1>1, <1>2, PTL DEF Spec

-----------------------------------------------------------------------------
\* A request carries a token that outlives it on the exchange's clock, whatever
\* became of the requests before it (EnsureToken, token_manager.go:152-174).
THEOREM TokensAreValid == Spec => []TokenOutlivesRequest
<1>1. Init => TokenInv
  BY DEF Init, TokenInv
<1>2. TypeOK /\ TokenInv /\ [Next]_vars => TokenInv'
  <2> SUFFICES ASSUME TypeOK, TokenInv, [Next]_vars PROVE TokenInv'
    OBVIOUS
  <2> USE GatewayAssumption, SkewAssumption, PollIsPositive DEF TypeOK, TokenInv
  <2>1. CASE BeginPoll
    BY <2>1 DEF BeginPoll, EnsureToken
  <2>2. CASE Elapse
    BY <2>2 DEF Elapse, MayWait, Waiting
  <2>3. CASE \/ Answer \/ NoAnswer \/ SetApplies \/ SetAnswered \/ SetFails
             \/ Restart \/ Die
    BY <2>3 DEF Answer, NoAnswer, SetApplies, SetAnswered, SetFails, Restart,
                Start, Die
  <2>4. CASE \/ \E o \in orphans : OrphanApplies(o)
             \/ AnalyserStep \/ UNCHANGED vars
    BY <2>4 DEF OrphanApplies, AnalyserStep, StartTick, Get, EndTick, gwVars, vars
  <2> QED
    BY <2>1, <2>2, <2>3, <2>4 DEF Next, GatewayStep
<1>3. TypeOK /\ TokenInv => TokenOutlivesRequest
  BY GatewayAssumption, SkewAssumption DEF TypeOK, TokenInv, TokenOutlivesRequest
<1> QED
  BY <1>1, <1>2, <1>3, TypeCorrect, PTL DEF Spec

-----------------------------------------------------------------------------
\* No book is compared, and nobody is told of one, that is older than the
\* timeouts on its way together.
THEOREM ComparedBooksAreRecent == Spec => []BooksComparedAreRecent
<1>1. Init => AgeInv
  BY DEF Init, AgeInv
<1>2. TypeOK /\ AgeInv /\ [Next]_vars => AgeInv'
  <2> SUFFICES ASSUME TypeOK, AgeInv, [Next]_vars PROVE AgeInv'
    OBVIOUS
  <2> USE GatewayAssumption, PollIsPositive DEF TypeOK, AgeInv
  <2>1. CASE BeginPoll \/ Answer \/ NoAnswer
    BY <2>1 DEF BeginPoll, Answer, NoAnswer, tickVars
  <2>2. CASE SetApplies
    BY <2>2 DEF SetApplies, Store, tickVars
  <2>3. CASE SetAnswered \/ Restart
    BY <2>3 DEF SetAnswered, Restart, Start, tickVars
  <2>4. CASE SetFails \/ Die
    BY <2>4 DEF SetFails, Die, GiveUp, tickVars
  <2>5. CASE \E o \in orphans : OrphanApplies(o)
    BY <2>5 DEF OrphanApplies, Store, gwVars, tickVars
  <2>6. CASE AnalyserStep
    BY <2>6 DEF AnalyserStep, StartTick, Get, EndTick, gwVars
  <2>7. CASE Elapse
    <3> USE <2>7 DEF Elapse
    <3>1. (set # NoSet => set <= RequestTimeout + spent)'
      BY DEF Waiting
    <3>2. (\A o \in orphans : o.age <= RequestTimeout + o.delay)'
      BY DEF OrphansElapse
    <3>3. (book # NoBook =>
             book.age + book.left <= RequestTimeout + MaxDelay + BookTTL)'
      BY DEF BookElapses
    <3>4. (tick = "holding" =>
             /\ hand \in Nat
             /\ hand < RequestTimeout + MaxDelay + BookTTL + tickSpent)'
      OBVIOUS
    <3> QED
      BY <3>1, <3>2, <3>3, <3>4
  <2>8. CASE UNCHANGED vars
    BY <2>8 DEF vars
  <2> QED
    BY <2>1, <2>2, <2>3, <2>4, <2>5, <2>6, <2>7, <2>8 DEF Next, GatewayStep
<1>3. TypeOK /\ AgeInv => BooksComparedAreRecent
  BY GatewayAssumption DEF TypeOK, AgeInv, BooksComparedAreRecent, MaxAge
<1> QED
  BY <1>1, <1>2, <1>3, TypeCorrect, PTL DEF Spec

-----------------------------------------------------------------------------
\* Books replace each other in the order they were taken, as long as no SET was
\* given up that Redis may still run.
THEOREM BooksStayInOrder == Spec => NoOlderBook
<1> DEFINE InOrder ==
      (book # NoBook /\ book' # NoBook) =>
        \/ book'.age <= book.age
        \/ book'.age = book.age + 1 /\ book'.left = book.left - 1
        \/ orphans # {}
<1>1. Init => OrderInv
  BY DEF Init, OrderInv
<1>2. TypeOK /\ OrderInv /\ [Next]_vars => OrderInv' /\ [InOrder]_vars
  <2> SUFFICES ASSUME TypeOK, OrderInv, [Next]_vars PROVE OrderInv' /\ InOrder
    OBVIOUS
  <2> USE GatewayAssumption, PollIsPositive DEF TypeOK, OrderInv, OlderThanPoll
  <2>1. CASE BeginPoll \/ Answer \/ NoAnswer \/ SetAnswered \/ Restart
    BY <2>1 DEF BeginPoll, Answer, NoAnswer, SetAnswered, Restart, Start
  <2>2. CASE SetApplies
    BY <2>2 DEF SetApplies, Store
  <2>3. CASE SetFails \/ Die
    BY <2>3 DEF SetFails, Die, GiveUp
  <2>4. CASE \E o \in orphans : OrphanApplies(o)
    BY <2>4 DEF OrphanApplies, Store, gwVars
  <2>5. CASE AnalyserStep \/ UNCHANGED vars
    BY <2>5 DEF AnalyserStep, StartTick, Get, EndTick, gwVars, vars
  <2>6. CASE Elapse
    <3> USE <2>6 DEF Elapse, Waiting
    <3>1. (book # NoBook => OlderThanPoll(book.age))' /\ InOrder
      BY DEF BookElapses
    <3>2. (\A o \in orphans : OlderThanPoll(o.age))'
      BY DEF OrphansElapse
    <3> QED
      BY <3>1, <3>2
  <2> QED
    BY <2>1, <2>2, <2>3, <2>4, <2>5, <2>6 DEF Next, GatewayStep
<1> QED
  BY <1>1, <1>2, TypeCorrect, PTL DEF Spec, NoOlderBook

-----------------------------------------------------------------------------
\* A book that goes missing while no poll failed tells of a slow exchange or a
\* slow Redis, never of a gateway that idled.
THEOREM OnlySlowPollsLoseTheBook == Spec => []MissingBookIsASlowPoll
<1>1. Init => PaceInv
  BY GatewayAssumption, PollIsPositive DEF Init, PaceInv
<1>2. TypeOK /\ PaceInv /\ [Next]_vars => PaceInv'
  <2> SUFFICES ASSUME TypeOK, PaceInv, [Next]_vars PROVE PaceInv'
    OBVIOUS
  <2> USE GatewayAssumption, PollIsPositive DEF TypeOK, PaceInv, Since
  <2>1. CASE BeginPoll \/ Answer \/ NoAnswer
    BY <2>1 DEF BeginPoll, Answer, NoAnswer
  <2>2. CASE SetApplies
    BY <2>2 DEF SetApplies, Store
  <2>3. CASE SetAnswered \/ SetFails
    <3>1. missed' \in BOOLEAN /\ (~ missed' => ~ missed /\ set = NoSet)
      BY <2>3, Zenon DEF SetAnswered, SetFails
    <3> QED
      BY <2>3, <3>1 DEF SetAnswered, SetFails
  <2>4. CASE Restart \/ Die
    BY <2>4 DEF Restart, Start, Die
  <2>5. CASE \E o \in orphans : OrphanApplies(o)
    BY <2>5 DEF OrphanApplies, Store, gwVars
  <2>6. CASE AnalyserStep \/ UNCHANGED vars
    BY <2>6 DEF AnalyserStep, StartTick, Get, EndTick, gwVars, vars
  <2>7. CASE Elapse
    <3> USE <2>7 DEF Elapse
    <3>1. /\ Since' <= Since + 1 /\ Since' <= BookTTL
          /\ Since \in Int /\ Since' \in Int
      BY DEF BookElapses
    <3>2. CASE Waiting
      BY <3>1, <3>2 DEF Waiting, TickerElapses
    <3>3. CASE pc = "idle"
      <4>1. ~ due /\ (due' \/ next' = next - 1) /\ (due' => next = 1)
        BY <3>3, Zenon DEF MayWait, TickerElapses
      <4>2. waited' = waited /\ pc' = pc /\ missed' = missed
        BY <3>3 DEF Waiting
      <4>3. missed \/ Since + next <= waited + Poll
        BY <3>3, <4>1
      <4> HIDE <2>7 DEF Elapse, Since
      <4> QED
        BY <3>1, <3>3, <4>1, <4>2, <4>3
    <3>4. CASE pc = "down"
      BY <3>4
    <3> QED
      BY <3>2, <3>3, <3>4 DEF Waiting
  <2> QED
    BY <2>1, <2>2, <2>3, <2>4, <2>5, <2>6, <2>7 DEF Next, GatewayStep
<1>3. TypeOK /\ PaceInv => MissingBookIsASlowPoll
  BY GatewayAssumption, PollIsPositive DEF TypeOK, PaceInv, Since, MissingBookIsASlowPoll
<1> QED
  BY <1>1, <1>2, <1>3, TypeCorrect, PTL DEF Spec
=============================================================================
