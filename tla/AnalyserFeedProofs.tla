------------------------- MODULE AnalyserFeedProofs -------------------------
(***************************************************************************)
(* Analyser implements SignalFeed under the mapping of AnalyserFeed, for   *)
(* every value of the constants.                                           *)
(***************************************************************************)
EXTENDS AnalyserFeed, AnalyserProofs

Claims == [w \in Workers |-> ClaimOf(w)]

Claiming(w) == pc[w] \in {"expire", "create", "send"}

\* A worker that is alone marks nothing that is marked already.
LoneWorkerIsFresh ==
  \A w \in Workers :
    (pc[w] = "sadd" /\ Workers = {w}) => Op(w) \notin seen[Chat(w)]

FeedInv == Once /\ LoneWorkerIsFresh

-----------------------------------------------------------------------------
(* Steps that change one worker's claim, or none.                          *)

LEMMA SameClaims ==
  ASSUME UNCHANGED <<seen, epoch, created, sends>>,
         \A v \in Workers : ClaimOf(v)' = ClaimOf(v)
  PROVE  UNCHANGED Feed!vars
<1>1. Claims' = Claims
  BY DEF Claims
<1> QED
  BY <1>1 DEF Feed!vars, Claims

LEMMA OthersKeepClaims ==
  ASSUME TypeOK, NEW w \in Workers, Tick(w) \/ DeadlinePasses(w)
  PROVE  Claims' = [Claims EXCEPT ![w] = ClaimOf(w)']
<1>1. ASSUME NEW v \in Workers, v # w
      PROVE  ClaimOf(v)' = ClaimOf(v)
  BY <1>1, OthersKeepHands DEF ClaimOf, Stage, Chat, Op
<1> QED
  BY <1>1 DEF Claims

LEMMA NoClaimWhenNotClaiming ==
  ASSUME NEW w \in Workers
  PROVE  /\ ~ Claiming(w) => ClaimOf(w) = NoClaim
         /\ ~ Claiming(w)' => ClaimOf(w)' = NoClaim
BY DEF Claiming, ClaimOf

\* The worker had no claim and has none, and nothing it is about was touched.
LEMMA IdleStep ==
  ASSUME TypeOK, NEW w \in Workers, Tick(w) \/ DeadlinePasses(w),
         UNCHANGED <<seen, epoch, created, sends>>,
         ~ Claiming(w), ~ Claiming(w)'
  PROVE  UNCHANGED Feed!vars
<1>1. ClaimOf(w)' = ClaimOf(w)
  BY NoClaimWhenNotClaiming
<1>2. ASSUME NEW v \in Workers, v # w
      PROVE  ClaimOf(v)' = ClaimOf(v)
  BY <1>2, OthersKeepHands DEF ClaimOf, Stage, Chat, Op
<1> QED
  BY <1>1, <1>2, SameClaims

\* The worker gives its claim up without having touched anything.
LEMMA LoseStep ==
  ASSUME TypeOK, NEW w \in Workers, Tick(w),
         UNCHANGED <<seen, epoch, created, sends>>, ~ Claiming(w)'
  PROVE  Feed!Lose(w)
BY OthersKeepClaims, NoClaimWhenNotClaiming DEF Feed!Lose, Claims

-----------------------------------------------------------------------------
(* Marking, storing and sending.                                           *)

LEMMA MarkIsRemember ==
  ASSUME TypeOK, NEW c \in Chats, NEW h \in Hashes, Mark(c, h)
  PROVE  Feed!Remember(c, h)
BY DEF Mark, Feed!Remember

LEMMA TakeStep ==
  ASSUME FeedInv, NEW w \in Workers, Tick(w), SAdd(w)
  PROVE  Feed!Take(w, Chat(w), Op(w))
<1> DEFINE c == Chat(w)
           h == Op(w)
<1>1. TypeOK /\ pc[w] = "sadd" /\ StoredBefore(w)
  BY DEF FeedInv, Once, OnceStrengthening, SAdd
<1>2. c \in Chats /\ h \in Hashes /\ Here(w) = <<w, c, h>> /\ Here(w) \in Signals
  BY <1>1, CurrentSignal DEF TypeOK, Busy, Here
<1>3. /\ Mark(c, h) /\ pc' = [pc EXCEPT ![w] = "expire"]
      /\ UNCHANGED <<created, sends, user, rest>>
  BY DEF SAdd, GoTo, signalVars, loopVars
<1>4. Claims[w] = NoClaim
  BY <1>1 DEF Claims, ClaimOf, Stage
<1>5. h \in seen[c] => Workers # {w}
  BY <1>1 DEF FeedInv, LoneWorkerIsFresh
<1>6. created[<<w, c, h>>] < epoch'[c]
  <2>1. created[<<w, c, h>>] <= epoch[c]
    BY <1>2 DEF FeedInv, Once, OncePerWorkerPerWindow
  <2>2. created[<<w, c, h>>] \in Nat /\ epoch[c] \in Nat
    BY <1>1, <1>2 DEF TypeOK
  <2>3. CASE seen[c] = {}
    BY <1>1, <1>2, <1>3, <2>1, <2>2, <2>3 DEF Mark, TypeOK
  <2>4. CASE seen[c] # {}
    <3>1. created[<<w, c, h>>] < epoch[c]
      BY <1>1, <1>2, <2>4 DEF StoredBefore
    <3> QED
      BY <1>1, <1>2, <1>3, <2>4, <3>1 DEF Mark, TypeOK
  <2> QED
    BY <2>3, <2>4
<1>7. ClaimOf(w)' = [stage |-> "claimed", chat |-> c, hash |-> h]
  BY <1>1, <1>3 DEF ClaimOf, Stage, Chat, Op, TypeOK
<1>8. Claims' = [Claims EXCEPT ![w] = ClaimOf(w)']
  BY <1>1, OthersKeepClaims
<1> QED
  BY <1>1, <1>2, <1>3, <1>4, <1>5, <1>6, <1>7, <1>8, MarkIsRemember
     DEF Feed!Take, Feed!Claim, Claims

LEMMA TakeLostStep ==
  ASSUME TypeOK, NEW w \in Workers, Tick(w), SAddFails(w), Mark(Chat(w), Op(w))
  PROVE  Feed!TakeLost(w, Chat(w), Op(w))
<1>1. Chat(w) \in Chats /\ Op(w) \in Hashes
  BY CurrentSignal DEF SAddFails, TypeOK, Busy
<1>2. ~ Claiming(w) /\ ~ Claiming(w)' /\ UNCHANGED <<created, sends>>
  BY DEF SAddFails, NextOpp, GoTo, Claiming, TypeOK, signalVars
<1>3. Claims[w] = NoClaim /\ ClaimOf(w)' = NoClaim
  BY <1>2, NoClaimWhenNotClaiming DEF Claims
<1>4. Claims' = Claims
  BY <1>3, OthersKeepClaims DEF Claims
<1> QED
  BY <1>1, <1>2, <1>3, <1>4, MarkIsRemember DEF Feed!TakeLost, Claims

LEMMA StoreStep ==
  ASSUME TypeOK, NEW w \in Workers, Tick(w), Create(w) \/ CreateFails(w),
         created' = [created EXCEPT ![Here(w)] = @ + 1]
  PROVE  Feed!Store(w, Chat(w), Op(w))
<1>1. pc[w] = "create" /\ UNCHANGED <<seen, epoch, sends, user>>
  BY DEF Create, CreateFails, dedupVars, loopVars
<1>2. Claims[w] = [stage |-> "claimed", chat |-> Chat(w), hash |-> Op(w)]
  BY <1>1 DEF Claims, ClaimOf, Stage
<1>3. \/ ClaimOf(w)' = [stage |-> "stored", chat |-> Chat(w), hash |-> Op(w)]
      \/ ClaimOf(w)' = NoClaim
  <2>1. CASE Create(w)
    BY <2>1 DEF Create, GoTo, ClaimOf, Stage, Chat, Op, loopVars, TypeOK
  <2>2. CASE CreateFails(w)
    BY <2>2 DEF CreateFails, NextOpp, GoTo, ClaimOf, TypeOK
  <2> QED
    BY <2>1, <2>2
<1>4. Claims' = [Claims EXCEPT ![w] = ClaimOf(w)']
  BY OthersKeepClaims
<1> QED
  BY <1>1, <1>2, <1>3, <1>4 DEF Feed!Store, Feed!Claim, Claims, Here

LEMMA SendStep ==
  ASSUME TypeOK, NEW w \in Workers, Tick(w), Send(w), Deliver(w)
  PROVE  Feed!SendOnce(w, Chat(w), Op(w))
<1>1. pc[w] = "send" /\ UNCHANGED <<seen, epoch, created>>
  BY DEF Send, dedupVars
<1>2. Claims[w] = [stage |-> "stored", chat |-> Chat(w), hash |-> Op(w)]
  BY <1>1 DEF Claims, ClaimOf, Stage
<1>3. ClaimOf(w)' = NoClaim
  BY DEF Send, NextOpp, GoTo, ClaimOf, TypeOK
<1>4. Claims' = [Claims EXCEPT ![w] = ClaimOf(w)']
  BY OthersKeepClaims
<1> QED
  BY <1>1, <1>2, <1>3, <1>4 DEF Feed!SendOnce, Feed!Claim, Claims, Here, Deliver

-----------------------------------------------------------------------------
(* The simulation.                                                         *)

LEMMA TickSimulates ==
  ASSUME FeedInv, NEW w \in Workers, Tick(w)
  PROVE  [Feed!Next]_(Feed!vars)
<1> USE DEF dedupVars, signalVars
<1>1. TypeOK /\ pc = [v \in Workers |-> pc[v]]
  BY DEF FeedInv, Once, TypeOK
<1>2. rest[w] # <<>> => Chat(w) \in Chats /\ Op(w) \in Hashes
  BY <1>1, CurrentSignal
<1>3. CASE \/ StartTick(w) \/ GetRapira(w) \/ ListActive(w) \/ NextUser(w)
           \/ SkipUnmatched(w) \/ CheckSeen(w) \/ CheckSeenFails(w)
  <2>1. ~ Claiming(w) /\ ~ Claiming(w)'
    BY <1>1, <1>3 DEF StartTick, GetRapira, ListActive, NextUser, SkipUnmatched,
                      CheckSeen, CheckSeenFails, NextOpp, GoTo, Claiming
  <2>2. UNCHANGED <<seen, epoch, created, sends>>
    BY <1>3 DEF StartTick, GetRapira, ListActive, NextUser, SkipUnmatched,
                CheckSeen, CheckSeenFails
  <2> QED
    BY <1>1, <2>1, <2>2, IdleStep
<1>4. CASE GetGrinex(w) \/ ReadFails(w) \/ FinishTick(w)
  <2>1. ~ Claiming(w) /\ ~ Claiming(w)'
    BY <1>1, <1>4 DEF GetGrinex, ReadFails, FinishTick, Return, GoTo, Claiming
  <2>2. UNCHANGED <<seen, epoch, created, sends>>
    BY <1>4 DEF GetGrinex, ReadFails, FinishTick
  <2> QED
    BY <1>1, <2>1, <2>2, IdleStep
<1>5. CASE SAdd(w)
  <2>1. Chat(w) \in Chats /\ Op(w) \in Hashes
    BY <1>1, <1>2, <1>5 DEF SAdd, TypeOK, Busy
  <2> QED
    BY <1>5, <2>1, TakeStep DEF Feed!Next
<1>6. CASE SAddFails(w)
  <2>1. Chat(w) \in Chats /\ Op(w) \in Hashes
    BY <1>1, <1>2, <1>6 DEF SAddFails, TypeOK, Busy
  <2>2. CASE Mark(Chat(w), Op(w))
    BY <1>1, <1>6, <2>1, <2>2, TakeLostStep DEF Feed!Next
  <2>3. CASE UNCHANGED dedupVars
    <3>1. ~ Claiming(w) /\ ~ Claiming(w)' /\ UNCHANGED <<created, sends>>
      BY <1>1, <1>6 DEF SAddFails, NextOpp, GoTo, Claiming
    <3> QED
      BY <1>1, <2>3, <3>1, IdleStep
  <2> QED
    BY <1>6, <2>2, <2>3 DEF SAddFails
<1>7. CASE Expire(w) \/ ExpireFails(w)
  <2>1. /\ UNCHANGED <<seen, epoch, created, sends, user, rest>>
        /\ pc[w] = "expire" /\ pc'[w] = "create"
    BY <1>1, <1>7 DEF Expire, ExpireFails, GoTo, loopVars
  <2>2. ClaimOf(w)' = ClaimOf(w)
    BY <2>1 DEF ClaimOf, Stage, Chat, Op
  <2>3. ASSUME NEW v \in Workers, v # w PROVE ClaimOf(v)' = ClaimOf(v)
    BY <1>1, <2>3, OthersKeepHands DEF ClaimOf, Stage, Chat, Op
  <2> QED
    BY <2>1, <2>2, <2>3, SameClaims
<1>8. CASE Create(w) \/ CreateFails(w)
  <2>1. Chat(w) \in Chats /\ Op(w) \in Hashes
    BY <1>1, <1>2, <1>8 DEF Create, CreateFails, TypeOK, Busy
  <2>2. CASE created' = [created EXCEPT ![Here(w)] = @ + 1]
    BY <1>1, <1>8, <2>1, <2>2, StoreStep DEF Feed!Next
  <2>3. CASE CreateFails(w) /\ UNCHANGED created
    <3>1. ~ Claiming(w)' /\ UNCHANGED <<seen, epoch, sends>>
      BY <1>1, <2>3 DEF CreateFails, NextOpp, GoTo, Claiming
    <3> QED
      BY <1>1, <2>3, <3>1, LoseStep DEF Feed!Next
  <2> QED
    BY <1>8, <2>2, <2>3 DEF Create, CreateFails
<1>9. CASE Send(w)
  <2>1. Chat(w) \in Chats /\ Op(w) \in Hashes
    BY <1>1, <1>2, <1>9 DEF Send, TypeOK, Busy
  <2>2. CASE Deliver(w)
    BY <1>1, <1>9, <2>1, <2>2, SendStep DEF Feed!Next
  <2>3. CASE UNCHANGED <<sends, delivered>>
    <3>1. ~ Claiming(w)' /\ UNCHANGED <<seen, epoch, created>>
      BY <1>1, <1>9 DEF Send, NextOpp, GoTo, Claiming
    <3> QED
      BY <1>1, <2>3, <3>1, LoseStep DEF Feed!Next
  <2> QED
    BY <1>9, <2>2, <2>3 DEF Send
<1> QED
  BY <1>3, <1>4, <1>5, <1>6, <1>7, <1>8, <1>9 DEF Tick

LEMMA NextSimulates == FeedInv /\ [Next]_vars => [Feed!Next]_(Feed!vars)
<1> SUFFICES ASSUME FeedInv, [Next]_vars PROVE [Feed!Next]_(Feed!vars)
  OBVIOUS
<1> USE DEF dedupVars, signalVars, loopVars
<1>1. ASSUME NEW w \in Workers, Tick(w) PROVE [Feed!Next]_(Feed!vars)
  BY <1>1, TickSimulates
<1>2. CASE \/ \E w \in Workers : DeadlinePasses(w)
           \/ \E s \in Sources : \E b \in BooksOf[s] : Publish(s, b)
           \/ \E s \in Sources : BookExpires(s)
           \/ \E c \in Chats, s \in Settings : UpsertUserSettings(c, s)
           \/ \E c \in Chats, active \in BOOLEAN : SetUserActive(c, active)
           \/ UNCHANGED vars
  <2>1. UNCHANGED <<seen, epoch, created, sends, pc, user, rest>>
    BY <1>2 DEF DeadlinePasses, Publish, BookExpires, UpsertUserSettings,
                SetUserActive, vars
  <2>2. \A v \in Workers : ClaimOf(v)' = ClaimOf(v)
    BY <2>1 DEF ClaimOf, Stage, Chat, Op
  <2> QED
    BY <2>1, <2>2, SameClaims
<1>3. ASSUME NEW c \in Chats, KeyExpires(c) PROVE [Feed!Next]_(Feed!vars)
  <2>1. UNCHANGED <<epoch, created, sends, pc, user, rest>>
    BY <1>3 DEF KeyExpires
  <2>2. Claims' = Claims
    BY <2>1 DEF Claims, ClaimOf, Stage, Chat, Op
  <2>3. Feed!Forget(c)
    BY <1>3, <2>1, <2>2 DEF KeyExpires, Feed!Forget, Claims
  <2> QED
    BY <2>3 DEF Feed!Next
<1>4. CASE Restart
  <2>1. \A v \in Workers : pc'[v] = "idle"
    BY <1>4 DEF Restart
  <2>2. Claims' = [v \in Workers |-> NoClaim]
    BY <2>1 DEF Claims, ClaimOf
  <2>3. Feed!LoseAll
    BY <1>4, <2>2 DEF Restart, Feed!LoseAll, Claims
  <2> QED
    BY <2>3 DEF Feed!Next
<1> QED
  BY <1>1, <1>2, <1>3, <1>4 DEF Next, Environment

-----------------------------------------------------------------------------
(* The invariant the simulation needs.                                     *)

\* A step that adds nothing to a key, by a worker that does not come to SADD.
LEMMA FreshFrame ==
  ASSUME LoneWorkerIsFresh,
         \A c \in Chats : seen'[c] \subseteq seen[c],
         \A v \in Workers : pc'[v] = "sadd" =>
            /\ Chat(v) \in Chats
            /\ pc[v] = "sadd" /\ user'[v] = user[v] /\ rest'[v] = rest[v]
  PROVE  LoneWorkerIsFresh'
BY DEF LoneWorkerIsFresh, Chat, Op

LEMMA TickFresh ==
  ASSUME FeedInv, NEW w \in Workers, Tick(w)
  PROVE  LoneWorkerIsFresh'
<1> USE DEF dedupVars
<1>1. TypeOK /\ LoneWorkerIsFresh
  BY DEF FeedInv, Once
<1>2. ASSUME NEW v \in Workers, v # w
      PROVE  (pc[v] = "sadd" /\ Workers = {v} => Op(v) \notin seen[Chat(v)])'
  BY <1>2
<1>3. CASE CheckSeen(w)
  <2>1. seen' = seen /\ user' = user
    BY <1>3 DEF CheckSeen
  <2>2. pc'[w] = "sadd" => ~ IsMember(Chat(w), Op(w)) /\ rest' = rest
    BY <1>1, <1>3 DEF CheckSeen, NextOpp, GoTo, TypeOK
  <2> QED
    BY <1>2, <2>1, <2>2 DEF LoneWorkerIsFresh, IsMember, Chat, Op
<1>4. CASE ~ CheckSeen(w)
  <2>1. pc'[w] # "sadd"
    BY <1>1, <1>4 DEF Tick, TypeOK, StartTick, GetRapira, GetGrinex, ListActive,
       ReadFails, NextUser, FinishTick, SkipUnmatched, CheckSeenFails, SAdd,
       SAddFails, Expire, ExpireFails, Create, CreateFails, Send, NextOpp,
       Return, GoTo
  <2> QED
    BY <1>2, <2>1 DEF LoneWorkerIsFresh
<1> QED
  BY <1>3, <1>4

LEMMA NextFresh == FeedInv /\ [Next]_vars => LoneWorkerIsFresh'
<1> SUFFICES ASSUME FeedInv, [Next]_vars PROVE LoneWorkerIsFresh'
  OBVIOUS
<1> USE DEF dedupVars, loopVars
<1>1. TypeOK /\ LoneWorkerIsFresh
  BY DEF FeedInv, Once
<1>2. ASSUME NEW w \in Workers, Tick(w) PROVE LoneWorkerIsFresh'
  BY <1>2, TickFresh
<1>3. ASSUME UNCHANGED <<pc, user, rest>>,
             \A c \in Chats : seen'[c] \subseteq seen[c]
      PROVE  LoneWorkerIsFresh'
  <2>1. \A v \in Workers : pc[v] = "sadd" => Chat(v) \in Chats
    BY <1>1, CurrentSignal DEF TypeOK, Busy
  <2> QED
    BY <1>1, <1>3, <2>1, FreshFrame
<1>4. CASE \/ \E w \in Workers : DeadlinePasses(w)
           \/ \E s \in Sources : \E b \in BooksOf[s] : Publish(s, b)
           \/ \E s \in Sources : BookExpires(s)
           \/ \E c \in Chats, s \in Settings : UpsertUserSettings(c, s)
           \/ \E c \in Chats, active \in BOOLEAN : SetUserActive(c, active)
           \/ UNCHANGED vars
  <2>1. UNCHANGED <<seen, pc, user, rest>>
    BY <1>4 DEF DeadlinePasses, Publish, BookExpires, UpsertUserSettings,
                SetUserActive, vars
  <2> QED
    BY <1>3, <2>1
<1>5. ASSUME NEW c \in Chats, KeyExpires(c) PROVE LoneWorkerIsFresh'
  BY <1>1, <1>3, <1>5 DEF KeyExpires, TypeOK
<1>6. CASE Restart
  BY <1>6 DEF Restart, LoneWorkerIsFresh
<1> QED
  BY <1>2, <1>4, <1>5, <1>6 DEF Next, Environment

\* The analyser implements the abstract promise, whatever interleaves, fails,
\* expires or restarts: every step is a step of SignalFeed or changes nothing
\* that SignalFeed speaks of.
THEOREM AnalyserImplementsFeed == Spec => FeedIsImplemented
<1>1. Init => FeedInv /\ Feed!Init
  <2>1. Init => LoneWorkerIsFresh
    BY DEF Init, LoneWorkerIsFresh
  <2>2. Init => Feed!Init
    BY DEF Init, Feed!Init, ClaimOf, Signals
  <2> QED
    BY <2>1, <2>2, InitOnce DEF FeedInv
<1>2. FeedInv /\ [Next]_vars => FeedInv'
  BY OnceNext, NextFresh DEF FeedInv
<1>3. FeedInv /\ [Next]_vars => [Feed!Next]_(Feed!vars)
  BY NextSimulates
<1> QED
  BY <1>1, <1>2, <1>3, PTL DEF Spec, FeedIsImplemented, Feed!Spec
=============================================================================
