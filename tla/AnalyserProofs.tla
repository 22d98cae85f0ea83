--------------------------- MODULE AnalyserProofs ---------------------------
(***************************************************************************)
(* Theorems about Analyser, for every value of its constants: any number   *)
(* of chats, of workers and of books, any settings, any bounds.            *)
(***************************************************************************)
EXTENDS Analyser, SequenceTheorems, FiniteSetTheorems, FunctionTheorems, TLAPS

\* What a tick finds is a sequence of Opps (Opps collects the elements).
LEMMA DetectedIsSeqOfOpps ==
  ASSUME NEW k \in Slot(Rapira) \X Slot(Grinex)
  PROVE  Detected[k] \in Seq(Opps)
<1>1. Detected[k] \in Seq(Opportunity)
  BY AnalyserAssumption
<1>2. \A i \in 1 .. Len(Detected[k]) : Detected[k][i] \in Opps
  BY <1>1 DEF Opps
<1> QED
  BY <1>1, <1>2, IsASeq

\* What a worker with opportunities left is looking at.
LEMMA CurrentSignal ==
  ASSUME TypeOK, NEW w \in Workers, rest[w] # <<>>
  PROVE  /\ user[w] \in User
         /\ Chat(w) \in Chats
         /\ Op(w) \in Hashes
         /\ Here(w) \in Signals
         /\ Tail(rest[w]) \in Seq(Opps)
<1>1. rest[w] \in Seq(Opps) /\ user[w] \in User
  BY DEF TypeOK
<1>2. Head(rest[w]) \in Opps /\ Tail(rest[w]) \in Seq(Opps)
  BY <1>1, HeadTailProperties
<1>3. Chat(w) \in Chats /\ Op(w) \in Hashes
  BY <1>1, <1>2 DEF Chat, Op, Hashes, User
<1> QED
  BY <1>1, <1>2, <1>3 DEF Here, Signals

-----------------------------------------------------------------------------
(* Type correctness.                                                       *)

LEMMA InitTypeOK == Init => TypeOK
<1> USE AnalyserAssumption
<1> SUFFICES ASSUME Init PROVE TypeOK
  OBVIOUS
<1>1. \A s \in Sources : NoBook \in Slot(s)
  BY DEF Slot
<1>2. Rapira \in Sources
  BY DEF Sources
<1> QED
  BY <1>1, <1>2 DEF Init, TypeOK, Busy

\* Leaving HandleTick, by any path.
LEMMA ReturnTypeOK ==
  ASSUME TypeOK, NEW w \in Workers, Return(w),
         UNCHANGED <<envVars, dedupVars, signalVars>>,
         faults' \in 0 .. MaxFaults, crashes' \in 0 .. MaxCrashes
  PROVE  TypeOK'
BY DEF TypeOK, Return, GoTo, envVars, dedupVars, signalVars, Slot, Busy

\* Going on to the next opportunity, by any path that changed the stores in a
\* way that keeps them well typed.
LEMMA NextOppTypeOK ==
  ASSUME TypeOK, NEW w \in Workers, rest[w] # <<>>, NextOpp(w),
         UNCHANGED <<envVars, ctxDone, tickVars, user>>,
         faults' \in 0 .. MaxFaults, crashes' \in 0 .. MaxCrashes,
         seen' \in [Chats -> SUBSET Hashes], ttl' \in [Chats -> BOOLEAN],
         created' \in [Signals -> Nat], sends' \in [Signals -> Nat],
         epoch' \in [Chats -> Nat], delivered' \in [Chats -> SUBSET Hashes]
  PROVE  TypeOK'
<1>1. Tail(rest[w]) \in Seq(Opps) /\ user[w] \in User
  BY CurrentSignal
<1> QED
  BY <1>1 DEF TypeOK, NextOpp, GoTo, envVars, tickVars, Busy

\* What the outcomes of a call do to the budgets.
LEMMA OutcomeTypeOK ==
  ASSUME TypeOK, NEW w \in Workers, Refused(w) \/ LostReply(w) \/ Answered(w)
  PROVE  faults' \in 0 .. MaxFaults /\ crashes' \in 0 .. MaxCrashes
BY AnalyserAssumption DEF TypeOK, Refused, LostReply, Answered, budget

LEMMA MarkTypeOK ==
  ASSUME TypeOK, NEW c \in Chats, NEW h \in Hashes, Mark(c, h)
  PROVE  /\ seen' \in [Chats -> SUBSET Hashes]
         /\ ttl' \in [Chats -> BOOLEAN]
         /\ epoch' \in [Chats -> Nat]
BY DEF TypeOK, Mark

LEMMA EnvironmentTypeOK == TypeOK /\ Environment => TypeOK'
<1> SUFFICES ASSUME TypeOK, Environment PROVE TypeOK'
  OBVIOUS
<1> USE DEF dedupVars, signalVars, tickVars, loopVars, budget, envVars
<1>1. ASSUME NEW s \in Sources, NEW b \in BooksOf[s], Publish(s, b)
      PROVE  TypeOK'
  <2>1. b \in Slot(s)
    BY DEF Slot
  <2>2. cache' \in [Sources -> UNION {Slot(r) : r \in Sources}]
    BY <1>1, <2>1 DEF TypeOK, Publish
  <2>3. pending' \in 0 .. MaxPending
    BY <1>1, AnalyserAssumption DEF TypeOK, Publish
  <2> QED
    BY <1>1, <2>1, <2>2, <2>3 DEF TypeOK, Publish, Slot, Busy
<1>2. ASSUME NEW s \in Sources, BookExpires(s) PROVE TypeOK'
  <2>1. \A r \in Sources : NoBook \in Slot(r)
    BY DEF Slot
  <2> QED
    BY <1>2, <2>1 DEF TypeOK, BookExpires, Slot, Busy
<1>3. ASSUME NEW c \in Chats, NEW s \in Settings, UpsertUserSettings(c, s)
      PROVE  TypeOK'
  <2>1. (s.watchFact \/ s.watchPotential) \in BOOLEAN
    OBVIOUS
  <2>2. [active |-> s.watchFact \/ s.watchPotential, settings |-> s]
          \in [active : BOOLEAN, settings : Settings]
    BY <2>1
  <2>3. rows' \in [Chats -> [active : BOOLEAN, settings : Settings] \cup {NoRow}]
    BY <1>3, <2>2 DEF TypeOK, UpsertUserSettings
  <2> QED
    BY <1>3, <2>3 DEF TypeOK, UpsertUserSettings, Busy
<1>4. ASSUME NEW c \in Chats, NEW a \in BOOLEAN, SetUserActive(c, a)
      PROVE  TypeOK'
  <2>1. rows[c] \in [active : BOOLEAN, settings : Settings]
    BY <1>4 DEF TypeOK, SetUserActive
  <2>2. [rows[c] EXCEPT !.active = a] \in [active : BOOLEAN, settings : Settings]
    BY <2>1
  <2>3. rows' \in [Chats -> [active : BOOLEAN, settings : Settings] \cup {NoRow}]
    BY <1>4, <2>2 DEF TypeOK, SetUserActive
  <2> QED
    BY <1>4, <2>3 DEF TypeOK, SetUserActive, Busy
<1>5. ASSUME NEW c \in Chats, KeyExpires(c) PROVE TypeOK'
  BY <1>5 DEF TypeOK, KeyExpires, Busy
<1> QED
  BY <1>1, <1>2, <1>3, <1>4, <1>5 DEF Environment

LEMMA TickTypeOK ==
  ASSUME NEW w \in Workers
  PROVE  TypeOK /\ Tick(w) => TypeOK'
<1> SUFFICES ASSUME TypeOK, Tick(w) PROVE TypeOK'
  OBVIOUS
<1> USE DEF dedupVars, signalVars, tickVars, loopVars, envVars
<1>1. CASE StartTick(w)
  <2>1. pending' \in 0 .. MaxPending
    BY <1>1, AnalyserAssumption DEF TypeOK, StartTick
  <2> QED
    BY <1>1, <2>1 DEF TypeOK, StartTick, GoTo, budget, Busy
<1>2. CASE GetRapira(w)
  <2>1. cache[Rapira] \in Slot(Rapira)
    BY DEF TypeOK, Sources
  <2> QED
    BY <1>2, <2>1 DEF TypeOK, GetRapira, Answered, GoTo, budget, Busy
<1>3. CASE GetGrinex(w)
  <2> DEFINE found == Detected[<<got[w], cache[Grinex]>>]
  <2>1. <<got[w], cache[Grinex]>> \in Slot(Rapira) \X Slot(Grinex)
    BY DEF TypeOK, Sources
  <2>2. found \in Seq(Opps)
    BY <2>1, DetectedIsSeqOfOpps
  <2>3. faults' \in 0 .. MaxFaults /\ crashes' \in 0 .. MaxCrashes
    BY <1>3, OutcomeTypeOK DEF GetGrinex
  <2>4. CASE found = <<>>
    BY <1>3, <2>3, <2>4, ReturnTypeOK DEF GetGrinex
  <2>5. CASE found # <<>>
    <3>1. NoBook \in Slot(Rapira)
      BY DEF Slot
    <3> QED
      BY <1>3, <2>2, <2>3, <2>5, <3>1 DEF TypeOK, GetGrinex, GoTo, Busy
  <2> QED
    BY <2>4, <2>5
<1>4. CASE ListActive(w)
  <2>1. Active \in SUBSET User
    BY DEF Active
  <2> QED
    BY <1>4, <2>1 DEF TypeOK, ListActive, Answered, GoTo, budget, Busy
<1>5. CASE ReadFails(w)
  BY <1>5, OutcomeTypeOK, ReturnTypeOK DEF ReadFails
<1>6. CASE NextUser(w)
  BY <1>6 DEF TypeOK, NextUser, budget, Busy
<1>7. CASE FinishTick(w)
  <2>1. faults' \in 0 .. MaxFaults /\ crashes' \in 0 .. MaxCrashes
    BY <1>7 DEF TypeOK, FinishTick, budget
  <2> QED
    BY <1>7, <2>1, ReturnTypeOK DEF FinishTick
<1>8. CASE SkipUnmatched(w)
  <2>1. faults' \in 0 .. MaxFaults /\ crashes' \in 0 .. MaxCrashes
    BY <1>8 DEF TypeOK, SkipUnmatched, budget
  <2> QED
    BY <1>8, <2>1, NextOppTypeOK DEF SkipUnmatched, TypeOK
<1>9. CASE CheckSeen(w)
  <2>1. faults' \in 0 .. MaxFaults /\ crashes' \in 0 .. MaxCrashes
    BY <1>9, OutcomeTypeOK DEF CheckSeen
  <2>2. CASE IsMember(Chat(w), Op(w))
    BY <1>9, <2>1, <2>2, NextOppTypeOK DEF CheckSeen, TypeOK
  <2>3. CASE ~ IsMember(Chat(w), Op(w))
    BY <1>9, <2>1, <2>3 DEF CheckSeen, TypeOK, GoTo, Busy
  <2> QED
    BY <2>2, <2>3
<1>10. CASE CheckSeenFails(w)
  BY <1>10, OutcomeTypeOK, NextOppTypeOK DEF CheckSeenFails, TypeOK
<1>11. CASE SAdd(w)
  <2>1. rest[w] # <<>>
    BY <1>11 DEF SAdd, TypeOK, Busy
  <2>2. /\ seen' \in [Chats -> SUBSET Hashes]
        /\ ttl' \in [Chats -> BOOLEAN]
        /\ epoch' \in [Chats -> Nat]
    BY <1>11, <2>1, CurrentSignal, MarkTypeOK DEF SAdd
  <2> QED
    BY <1>11, <2>1, <2>2 DEF SAdd, TypeOK, Answered, GoTo, budget, Busy
<1>12. CASE SAddFails(w)
  <2>1. rest[w] # <<>>
    BY <1>12 DEF SAddFails, TypeOK, Busy
  <2>2. /\ seen' \in [Chats -> SUBSET Hashes]
        /\ ttl' \in [Chats -> BOOLEAN]
        /\ epoch' \in [Chats -> Nat]
    <3>1. CASE UNCHANGED dedupVars
      BY <3>1 DEF TypeOK
    <3>2. CASE Mark(Chat(w), Op(w))
      BY <2>1, <3>2, CurrentSignal, MarkTypeOK
    <3> QED
      BY <1>12, <3>1, <3>2 DEF SAddFails
  <2>3. faults' \in 0 .. MaxFaults /\ crashes' \in 0 .. MaxCrashes
    BY <1>12, OutcomeTypeOK DEF SAddFails
  <2> QED
    BY <1>12, <2>1, <2>2, <2>3, NextOppTypeOK DEF SAddFails, TypeOK
<1>13. CASE Expire(w)
  <2>1. (seen[Chat(w)] # {}) \in BOOLEAN
    OBVIOUS
  <2>2. ttl' \in [Chats -> BOOLEAN]
    BY <1>13, <2>1 DEF Expire, TypeOK
  <2> QED
    BY <1>13, <2>2 DEF Expire, TypeOK, Answered, GoTo, budget, Busy
<1>14. CASE ExpireFails(w)
  <2>1. faults' \in 0 .. MaxFaults /\ crashes' \in 0 .. MaxCrashes
    BY <1>14, OutcomeTypeOK DEF ExpireFails
  <2> QED
    BY <1>14, <2>1 DEF ExpireFails, TypeOK, GoTo, Busy
<1>15. CASE Create(w)
  <2>1. Here(w) \in Signals
    BY <1>15, CurrentSignal DEF Create, TypeOK, Busy
  <2>2. created' \in [Signals -> Nat]
    BY <1>15, <2>1 DEF Create, TypeOK
  <2> QED
    BY <1>15, <2>2 DEF Create, TypeOK, Answered, GoTo, budget, Busy
<1>16. CASE CreateFails(w)
  <2>1. rest[w] # <<>>
    BY <1>16 DEF CreateFails, TypeOK, Busy
  <2>2. created' \in [Signals -> Nat]
    BY <1>16, <2>1, CurrentSignal DEF CreateFails, TypeOK
  <2>3. faults' \in 0 .. MaxFaults /\ crashes' \in 0 .. MaxCrashes
    BY <1>16, OutcomeTypeOK DEF CreateFails
  <2> QED
    BY <1>16, <2>1, <2>2, <2>3, NextOppTypeOK DEF CreateFails, TypeOK
<1>17. CASE Send(w)
  <2>1. rest[w] # <<>>
    BY <1>17 DEF Send, TypeOK, Busy
  <2>2. Chat(w) \in Chats /\ Op(w) \in Hashes /\ Here(w) \in Signals
    BY <2>1, CurrentSignal
  <2>3. sends' \in [Signals -> Nat] /\ delivered' \in [Chats -> SUBSET Hashes]
    <3>1. CASE UNCHANGED <<sends, delivered>>
      BY <3>1 DEF TypeOK
    <3>2. CASE Deliver(w)
      BY <2>2, <3>2 DEF Deliver, TypeOK
    <3> QED
      BY <1>17, <3>1, <3>2 DEF Send
  <2>4. faults' \in 0 .. MaxFaults /\ crashes' \in 0 .. MaxCrashes
    BY <1>17, OutcomeTypeOK DEF Send
  <2> QED
    BY <1>17, <2>1, <2>3, <2>4, NextOppTypeOK DEF Send, TypeOK
<1> QED
  BY <1>1, <1>2, <1>3, <1>4, <1>5, <1>6, <1>7, <1>8, <1>9, <1>10, <1>11, <1>12,
     <1>13, <1>14, <1>15, <1>16, <1>17 DEF Tick

LEMMA NextTypeOK == TypeOK /\ [Next]_vars => TypeOK'
<1> SUFFICES ASSUME TypeOK, [Next]_vars PROVE TypeOK'
  OBVIOUS
<1>1. ASSUME NEW w \in Workers, Tick(w) PROVE TypeOK'
  BY <1>1, TickTypeOK
<1>2. ASSUME NEW w \in Workers, DeadlinePasses(w) PROVE TypeOK'
  BY <1>2, AnalyserAssumption
     DEF TypeOK, DeadlinePasses, envVars, dedupVars, signalVars, tickVars,
         loopVars, Busy
<1>3. CASE Environment
  BY <1>3, EnvironmentTypeOK
<1>4. CASE Restart
  <2>1. NoBook \in Slot(Rapira)
    BY DEF Slot
  <2> QED
    BY <1>4, <2>1, AnalyserAssumption
       DEF TypeOK, Restart, dedupVars, signalVars, Busy
<1>5. CASE UNCHANGED vars
  BY <1>5 DEF TypeOK, vars, Busy
<1> QED
  BY <1>1, <1>2, <1>3, <1>4, <1>5 DEF Next

\* Every variable keeps its type, and a worker inside SeenOrMark, Create or
\* Send always has a current user and a current opportunity.
THEOREM TypeCorrect == Spec => []TypeOK
<1>1. Init => TypeOK
  BY InitTypeOK
<1>2. TypeOK /\ [Next]_vars => TypeOK'
  BY NextTypeOK
<1> QED
  BY <1>1, <1>2, PTL DEF Spec
-----------------------------------------------------------------------------
(* At most one notification per worker, operation and creation of the key. *)

Once == TypeOK /\ OncePerWorkerPerWindow /\ OnceStrengthening

\* The signal worker v is busy with is the one it was busy with, at the same
\* place in HandleTick.
SameHands(v) ==
  Busy(v)' => /\ pc'[v] = pc[v]
              /\ Chat(v)' = Chat(v)
              /\ Op(v)' = Op(v)

\* A step that touches neither the stores nor a signal in anybody's hands.
LEMMA OnceFrame ==
  ASSUME Once, UNCHANGED <<seen, epoch, created, sends>>,
         \A v \in Workers : SameHands(v)
  PROVE  (OncePerWorkerPerWindow /\ OnceStrengthening)'
<1>1. OncePerWorkerPerWindow'
  BY DEF Once, OncePerWorkerPerWindow
<1>2. ASSUME NEW v \in Workers PROVE StoredBefore(v)'
  <2>1. StoredBefore(v) /\ SameHands(v)
    BY DEF Once, OnceStrengthening
  <2> QED
    BY <2>1 DEF StoredBefore, SameHands, Busy, Here, MissingFromKey
<1> QED
  BY <1>1, <1>2 DEF Once, OnceStrengthening, MissingFromKey

\* The other workers' hands are untouched by a step of worker w.
LEMMA OthersKeepHands ==
  ASSUME TypeOK, NEW w \in Workers, NEW v \in Workers, v # w,
         Tick(w) \/ DeadlinePasses(w)
  PROVE  pc'[v] = pc[v] /\ user'[v] = user[v] /\ rest'[v] = rest[v]
<1> USE DEF TypeOK, tickVars, loopVars
<1>1. CASE DeadlinePasses(w)
  BY <1>1 DEF DeadlinePasses
<1>2. CASE \/ StartTick(w) \/ GetRapira(w) \/ ListActive(w) \/ NextUser(w)
           \/ SAdd(w) \/ Expire(w) \/ ExpireFails(w) \/ Create(w)
  BY <1>2 DEF StartTick, GetRapira, ListActive, NextUser, SAdd, Expire,
              ExpireFails, Create, GoTo
<1>3. CASE GetGrinex(w) \/ ReadFails(w) \/ FinishTick(w)
  BY <1>3 DEF GetGrinex, ReadFails, FinishTick, Return, GoTo
<1>4. CASE \/ SkipUnmatched(w) \/ CheckSeen(w) \/ CheckSeenFails(w)
           \/ SAddFails(w) \/ CreateFails(w) \/ Send(w)
  BY <1>4 DEF SkipUnmatched, CheckSeen, CheckSeenFails, SAddFails, CreateFails,
              Send, NextOpp, GoTo
<1> QED
  BY <1>1, <1>2, <1>3, <1>4 DEF Tick

\* A step of w that leaves the stores alone and takes w out of SeenOrMark and
\* what follows it.
LEMMA OnceLetGo ==
  ASSUME Once, NEW w \in Workers, Tick(w), ~ Busy(w)',
         UNCHANGED <<seen, epoch, created, sends>>
  PROVE  (OncePerWorkerPerWindow /\ OnceStrengthening)'
<1>1. ASSUME NEW v \in Workers PROVE SameHands(v)
  <2>1. CASE v = w
    BY <2>1 DEF SameHands
  <2>2. CASE v # w
    BY <2>2, OthersKeepHands DEF SameHands, Once, Chat, Op
  <2> QED
    BY <2>1, <2>2
<1> QED
  BY <1>1, OnceFrame

\* Marking: if the key is created, every count was reached in an earlier
\* creation; if it exists, nothing is asked of the counts that was not before.
LEMMA OnceMark ==
  ASSUME Once, NEW w \in Workers, Tick(w), pc[w] = "sadd",
         Mark(Chat(w), Op(w)),
         pc'[w] \in {"expire", "loop"},
         pc'[w] = "expire" => UNCHANGED loopVars,
         UNCHANGED <<created, sends>>
  PROVE  (OncePerWorkerPerWindow /\ OnceStrengthening)'
<1> DEFINE c == Chat(w)
           h == Op(w)
<1>1. c \in Chats /\ h \in Hashes /\ Here(w) = <<w, c, h>>
  BY CurrentSignal DEF Once, TypeOK, Busy, Here
<1>2. /\ epoch \in [Chats -> Nat] /\ seen \in [Chats -> SUBSET Hashes]
      /\ created \in [Signals -> Nat]
      /\ \A v \in Workers, d \in Chats, g \in Hashes : <<v, d, g>> \in Signals
  BY DEF Once, TypeOK, Signals
<1>3. /\ \A d \in Chats \ {c} : seen'[d] = seen[d] /\ epoch'[d] = epoch[d]
      /\ seen'[c] = seen[c] \cup {h}
      /\ seen[c] = {} => epoch'[c] = epoch[c] + 1
      /\ seen[c] # {} => epoch'[c] = epoch[c]
  BY <1>1, <1>2 DEF Mark
<1> HIDE DEF c, h
<1>4. OncePerWorkerPerWindow'
  <2>1. \A d \in Chats : epoch[d] \in Nat /\ epoch'[d] \in Nat /\ epoch[d] <= epoch'[d]
    BY <1>1, <1>2, <1>3
  <2>2. ASSUME NEW v \in Workers, NEW d \in Chats, NEW g \in Hashes
        PROVE  /\ sends'[<<v, d, g>>] <= created'[<<v, d, g>>]
               /\ created'[<<v, d, g>>] <= epoch'[d]
    <3>1. /\ sends[<<v, d, g>>] <= created[<<v, d, g>>]
          /\ created[<<v, d, g>>] <= epoch[d]
          /\ created[<<v, d, g>>] \in Nat
      BY <1>2 DEF Once, OncePerWorkerPerWindow
    <3>2. created[<<v, d, g>>] <= epoch'[d]
      BY <2>1, <3>1
    <3> QED
      BY <3>1, <3>2
  <2> QED
    BY <2>2 DEF OncePerWorkerPerWindow
<1>5. ASSUME NEW v \in Workers, NEW d \in Chats, NEW g \in Hashes,
             MissingFromKey(d, g)'
      PROVE  created'[<<v, d, g>>] < epoch'[d]
  <2>1. created[<<v, d, g>>] <= epoch[d] /\ created[<<v, d, g>>] \in Nat
    BY <1>2 DEF Once, OncePerWorkerPerWindow
  <2>2. CASE d = c /\ seen[c] = {}
    BY <1>2, <1>3, <2>1, <2>2
  <2>3. CASE ~ (d = c /\ seen[c] = {})
    BY <1>2, <1>3, <1>5, <2>3 DEF MissingFromKey, Once, OnceStrengthening
  <2> QED
    BY <2>2, <2>3
<1>6. ASSUME NEW v \in Workers PROVE StoredBefore(v)'
  <2>1. CASE v = w
    <3>1. created[<<w, c, h>>] <= epoch[c] /\ created[<<w, c, h>>] \in Nat
      BY <1>1, <1>2 DEF Once, OncePerWorkerPerWindow
    <3>2. seen[c] # {} => created[<<w, c, h>>] < epoch[c]
      BY <1>1 DEF Once, OnceStrengthening, StoredBefore, c
    <3>3. created[<<w, c, h>>] < epoch'[c] /\ h \in seen'[c]
      BY <1>1, <1>2, <1>3, <3>1, <3>2
    <3>4. pc'[w] = "expire" => Chat(w)' = c /\ Op(w)' = h /\ Here(w)' = <<w, c, h>>
      BY DEF c, h, Chat, Op, Here, loopVars
    <3> QED
      BY <2>1, <3>3, <3>4 DEF StoredBefore, MissingFromKey
  <2>2. CASE v # w
    <3>1. /\ pc'[v] = pc[v]
          /\ Chat(v)' = Chat(v) /\ Op(v)' = Op(v) /\ Here(v)' = Here(v)
      BY <2>2, OthersKeepHands DEF Once, Chat, Op, Here
    <3>2. Busy(v) => Chat(v) \in Chats /\ Op(v) \in Hashes
      BY CurrentSignal DEF Once, TypeOK
    <3>3. Busy(v) => /\ created[Here(v)] <= epoch[Chat(v)]
                    /\ created[Here(v)] \in Nat
      BY <1>2, <3>2 DEF Once, OncePerWorkerPerWindow, Here
    <3>4. StoredBefore(v)
      BY DEF Once, OnceStrengthening
    <3>5. CASE Busy(v) /\ Chat(v) = c /\ seen[c] = {}
      <4>1. epoch'[c] = epoch[c] + 1 /\ epoch[c] \in Nat
        BY <1>1, <1>2, <1>3, <3>5
      <4>2. created[Here(v)] < epoch'[c]
        BY <3>3, <3>5, <4>1
      <4>3. pc[v] \in {"expire", "create"} => created[Here(v)] + 1 < epoch'[c]
        BY <3>3, <3>4, <3>5, <4>1 DEF StoredBefore
      <4> QED
        BY <3>1, <3>4, <3>5, <4>2, <4>3 DEF StoredBefore
    <3>6. CASE Busy(v) /\ ~ (Chat(v) = c /\ seen[c] = {})
      <4>1. epoch'[Chat(v)] = epoch[Chat(v)]
        BY <1>3, <3>2, <3>6
      <4>2. seen'[Chat(v)] # {} => (seen[Chat(v)] # {} \/ Chat(v) = c)
        BY <1>3, <3>2, <3>6
      <4>3. MissingFromKey(Chat(v), Op(v))' => MissingFromKey(Chat(v), Op(v))
        BY <1>3, <3>1, <3>2, <3>6 DEF MissingFromKey
      <4> QED
        BY <3>1, <3>4, <3>6, <4>1, <4>2, <4>3 DEF StoredBefore
    <3>7. CASE ~ Busy(v)
      BY <3>1, <3>7 DEF StoredBefore, Busy
    <3> QED
      BY <3>5, <3>6, <3>7
  <2> QED
    BY <2>1, <2>2
<1> QED
  BY <1>4, <1>5, <1>6 DEF OnceStrengthening

\* Redis drops a key: nothing is missing from it any more.
LEMMA OnceKeyExpires ==
  ASSUME Once, NEW c \in Chats, KeyExpires(c)
  PROVE  (OncePerWorkerPerWindow /\ OnceStrengthening)'
<1>1. /\ UNCHANGED <<epoch, created, sends, pc, user, rest>>
      /\ seen' = [seen EXCEPT ![c] = {}]
      /\ seen \in [Chats -> SUBSET Hashes]
  BY DEF Once, TypeOK, KeyExpires, loopVars
<1>2. OncePerWorkerPerWindow'
  BY <1>1 DEF Once, OncePerWorkerPerWindow
<1>3. ASSUME NEW d \in Chats, NEW h \in Hashes, MissingFromKey(d, h)'
      PROVE  MissingFromKey(d, h)
  BY <1>1, <1>3 DEF MissingFromKey
<1>4. ASSUME NEW v \in Workers PROVE StoredBefore(v)'
  <2>1. StoredBefore(v)
    BY DEF Once, OnceStrengthening
  <2>2. Chat(v)' = Chat(v) /\ Op(v)' = Op(v) /\ Here(v)' = Here(v)
    BY <1>1 DEF Chat, Op, Here
  <2>3. Busy(v) => Chat(v) \in Chats /\ Op(v) \in Hashes
    BY CurrentSignal DEF Once, TypeOK
  <2>4. Busy(v) /\ seen'[Chat(v)] # {} => seen[Chat(v)] # {}
    BY <1>1, <2>3
  <2>5. Busy(v) /\ MissingFromKey(Chat(v), Op(v))' => MissingFromKey(Chat(v), Op(v))
    BY <1>1, <1>3, <2>2, <2>3 DEF MissingFromKey
  <2> QED
    BY <1>1, <2>1, <2>2, <2>4, <2>5 DEF StoredBefore, Busy
<1> QED
  BY <1>1, <1>2, <1>3, <1>4 DEF Once, OnceStrengthening

\* SISMEMBER said no: if the key exists, the operation is missing from it.
LEMMA OnceCheckSeen ==
  ASSUME Once, NEW w \in Workers, Tick(w), CheckSeen(w)
  PROVE  (OncePerWorkerPerWindow /\ OnceStrengthening)'
<1>1. UNCHANGED <<seen, epoch, created, sends, user>>
  BY DEF CheckSeen, dedupVars, signalVars
<1>2. CASE IsMember(Chat(w), Op(w))
  <2>1. ~ Busy(w)'
    BY <1>2 DEF CheckSeen, NextOpp, GoTo, Busy, Once, TypeOK
  <2> QED
    BY <1>1, <2>1, OnceLetGo
<1>3. CASE ~ IsMember(Chat(w), Op(w))
  <2>1. pc'[w] = "sadd" /\ UNCHANGED rest
    BY <1>3 DEF CheckSeen, GoTo, Once, TypeOK
  <2>2. Chat(w) \in Chats /\ Op(w) \in Hashes
    BY CurrentSignal DEF CheckSeen, Once
  <2>3. StoredBefore(w)'
    <3>1. seen[Chat(w)] # {} => MissingFromKey(Chat(w), Op(w))
      BY <1>3 DEF IsMember, MissingFromKey
    <3>2. seen[Chat(w)] # {} => created[Here(w)] < epoch[Chat(w)]
      BY <2>2, <3>1 DEF Once, OnceStrengthening, Here
    <3> QED
      BY <1>1, <2>1, <3>2 DEF StoredBefore, Chat, Op, Here
  <2>4. ASSUME NEW v \in Workers, v # w PROVE StoredBefore(v)'
    BY <1>1, <2>4, OthersKeepHands
       DEF Once, OnceStrengthening, StoredBefore, Chat, Op, Here, MissingFromKey
  <2> QED
    BY <1>1, <2>3, <2>4
       DEF Once, OncePerWorkerPerWindow, OnceStrengthening, MissingFromKey
<1> QED
  BY <1>2, <1>3

\* EXPIRE, or its failure, leaves what is marked and stored alone.
LEMMA OnceExpire ==
  ASSUME Once, NEW w \in Workers, Tick(w), Expire(w) \/ ExpireFails(w)
  PROVE  (OncePerWorkerPerWindow /\ OnceStrengthening)'
<1>1. /\ UNCHANGED <<seen, epoch, created, sends, user, rest>>
      /\ pc[w] = "expire" /\ pc'[w] = "create"
  BY DEF Expire, ExpireFails, GoTo, Once, TypeOK, dedupVars, signalVars, loopVars
<1>2. StoredBefore(w)'
  BY <1>1 DEF Once, OnceStrengthening, StoredBefore, Chat, Op, Here, MissingFromKey
<1>3. ASSUME NEW v \in Workers, v # w PROVE StoredBefore(v)'
  BY <1>1, <1>3, OthersKeepHands
     DEF Once, OnceStrengthening, StoredBefore, Chat, Op, Here, MissingFromKey
<1> QED
  BY <1>1, <1>2, <1>3
     DEF Once, OncePerWorkerPerWindow, OnceStrengthening, MissingFromKey

\* Storing a notification uses up the one that was to spare.
LEMMA OnceCreated ==
  ASSUME Once, NEW w \in Workers, Tick(w), pc[w] = "create",
         created' = [created EXCEPT ![Here(w)] = @ + 1],
         UNCHANGED <<seen, epoch, sends>>,
         \/ ~ Busy(w)'
         \/ pc'[w] = "send" /\ UNCHANGED loopVars
  PROVE  (OncePerWorkerPerWindow /\ OnceStrengthening)'
<1>1. /\ Chat(w) \in Chats /\ Op(w) \in Hashes
      /\ Here(w) = <<w, Chat(w), Op(w)>> /\ Here(w) \in Signals
  BY CurrentSignal DEF Once, TypeOK, Busy, Here
<1>2. /\ created \in [Signals -> Nat] /\ sends \in [Signals -> Nat]
      /\ epoch \in [Chats -> Nat]
      /\ \A v \in Workers, d \in Chats, g \in Hashes : <<v, d, g>> \in Signals
  BY DEF Once, TypeOK, Signals
<1>3. /\ created'[Here(w)] = created[Here(w)] + 1
      /\ \A k \in Signals \ {Here(w)} : created'[k] = created[k]
  BY <1>1, <1>2
<1>4. /\ created[Here(w)] < epoch[Chat(w)]
      /\ MissingFromKey(Chat(w), Op(w)) => created[Here(w)] + 1 < epoch[Chat(w)]
      /\ sends[Here(w)] <= created[Here(w)]
  BY <1>1 DEF Once, OnceStrengthening, StoredBefore, OncePerWorkerPerWindow
<1>5. ASSUME NEW v \in Workers, NEW d \in Chats, NEW g \in Hashes
      PROVE  /\ sends'[<<v, d, g>>] <= created'[<<v, d, g>>]
             /\ created'[<<v, d, g>>] <= epoch'[d]
             /\ MissingFromKey(d, g)' => created'[<<v, d, g>>] < epoch'[d]
  <2>1. /\ sends[<<v, d, g>>] <= created[<<v, d, g>>]
        /\ created[<<v, d, g>>] <= epoch[d]
        /\ MissingFromKey(d, g) => created[<<v, d, g>>] < epoch[d]
        /\ MissingFromKey(d, g)' = MissingFromKey(d, g)
    BY DEF Once, OncePerWorkerPerWindow, OnceStrengthening, MissingFromKey
  <2>2. CASE <<v, d, g>> = Here(w)
    <3>1. d = Chat(w) /\ g = Op(w)
      BY <1>1, <2>2
    <3> QED
      BY <1>1, <1>2, <1>3, <1>4, <2>1, <2>2, <3>1
  <2>3. CASE <<v, d, g>> # Here(w)
    BY <1>2, <1>3, <2>1, <2>3
  <2> QED
    BY <2>2, <2>3
<1>6. ASSUME NEW v \in Workers PROVE StoredBefore(v)'
  <2>1. CASE v = w
    <3>1. pc'[w] = "send" => Here(w)' = Here(w)
      BY DEF Here, Chat, Op, loopVars, Busy
    <3>2. sends[Here(w)] < created'[Here(w)]
      BY <1>1, <1>2, <1>3, <1>4
    <3> QED
      BY <2>1, <3>1, <3>2 DEF StoredBefore, Busy
  <2>2. CASE v # w
    <3>1. /\ pc'[v] = pc[v]
          /\ Chat(v)' = Chat(v) /\ Op(v)' = Op(v) /\ Here(v)' = Here(v)
      BY <2>2, OthersKeepHands DEF Once, Chat, Op, Here
    <3>2. StoredBefore(v)
      BY DEF Once, OnceStrengthening
    <3>3. Busy(v) => Here(v) \in Signals /\ Here(v) # Here(w)
      BY <2>2, CurrentSignal DEF Once, TypeOK, Here
    <3>4. Busy(v) => created'[Here(v)] = created[Here(v)]
      BY <1>3, <3>3
    <3> QED
      BY <3>1, <3>2, <3>4 DEF StoredBefore, Busy, MissingFromKey
  <2> QED
    BY <2>1, <2>2
<1> QED
  BY <1>5, <1>6 DEF OncePerWorkerPerWindow, OnceStrengthening

\* A delivery follows the storing of the same notification.
LEMMA OnceSent ==
  ASSUME Once, NEW w \in Workers, Tick(w), pc[w] = "send",
         sends' = [sends EXCEPT ![Here(w)] = @ + 1],
         UNCHANGED <<seen, epoch, created>>,
         ~ Busy(w)'
  PROVE  (OncePerWorkerPerWindow /\ OnceStrengthening)'
<1>1. Here(w) \in Signals
  BY CurrentSignal DEF Once, TypeOK, Busy
<1>2. /\ created \in [Signals -> Nat] /\ sends \in [Signals -> Nat]
      /\ \A v \in Workers, d \in Chats, g \in Hashes : <<v, d, g>> \in Signals
  BY DEF Once, TypeOK, Signals
<1>3. /\ sends'[Here(w)] = sends[Here(w)] + 1
      /\ \A k \in Signals \ {Here(w)} : sends'[k] = sends[k]
  BY <1>1, <1>2
<1>4. sends[Here(w)] < created[Here(w)]
  BY DEF Once, OnceStrengthening, StoredBefore
<1>5. ASSUME NEW v \in Workers, NEW d \in Chats, NEW g \in Hashes
      PROVE  /\ sends'[<<v, d, g>>] <= created'[<<v, d, g>>]
             /\ created'[<<v, d, g>>] <= epoch'[d]
  <2>1. /\ sends[<<v, d, g>>] <= created[<<v, d, g>>]
        /\ created[<<v, d, g>>] <= epoch[d]
    BY DEF Once, OncePerWorkerPerWindow
  <2> QED
    BY <1>1, <1>2, <1>3, <1>4, <2>1
<1>6. ASSUME NEW v \in Workers PROVE StoredBefore(v)'
  <2>1. CASE v = w
    BY <2>1 DEF StoredBefore, Busy
  <2>2. CASE v # w
    <3>1. /\ pc'[v] = pc[v]
          /\ Chat(v)' = Chat(v) /\ Op(v)' = Op(v) /\ Here(v)' = Here(v)
      BY <2>2, OthersKeepHands DEF Once, Chat, Op, Here
    <3>2. Busy(v) => Here(v) \in Signals /\ Here(v) # Here(w)
      BY <2>2, CurrentSignal DEF Once, TypeOK, Here
    <3>3. Busy(v) => sends'[Here(v)] = sends[Here(v)]
      BY <1>3, <3>2
    <3> QED
      BY <3>1, <3>3 DEF Once, OnceStrengthening, StoredBefore, Busy, MissingFromKey
  <2> QED
    BY <2>1, <2>2
<1>7. \A v \in Workers, d \in Chats, g \in Hashes :
        MissingFromKey(d, g)' => created'[<<v, d, g>>] < epoch'[d]
  BY DEF Once, OnceStrengthening, MissingFromKey
<1> QED
  BY <1>5, <1>6, <1>7 DEF OncePerWorkerPerWindow, OnceStrengthening

LEMMA OnceTick ==
  ASSUME Once, NEW w \in Workers, Tick(w)
  PROVE  (OncePerWorkerPerWindow /\ OnceStrengthening)'
<1> USE DEF dedupVars, signalVars
<1>1. DOMAIN pc = Workers /\ pc = [v \in Workers |-> pc[v]]
  BY DEF Once, TypeOK
<1>2. CASE StartTick(w) \/ GetRapira(w) \/ ListActive(w) \/ NextUser(w)
  <2>1. ~ Busy(w)'
    BY <1>1, <1>2 DEF StartTick, GetRapira, ListActive, NextUser, GoTo, Busy
  <2> QED
    BY <1>2, <2>1, OnceLetGo DEF StartTick, GetRapira, ListActive, NextUser
<1>3. CASE GetGrinex(w) \/ ReadFails(w) \/ FinishTick(w)
  <2>1. ~ Busy(w)'
    BY <1>1, <1>3 DEF GetGrinex, ReadFails, FinishTick, Return, GoTo, Busy
  <2> QED
    BY <1>3, <2>1, OnceLetGo DEF GetGrinex, ReadFails, FinishTick
<1>4. CASE SkipUnmatched(w) \/ CheckSeenFails(w)
  <2>1. ~ Busy(w)'
    BY <1>1, <1>4 DEF SkipUnmatched, CheckSeenFails, NextOpp, GoTo, Busy
  <2> QED
    BY <1>4, <2>1, OnceLetGo DEF SkipUnmatched, CheckSeenFails
<1>5. CASE CheckSeen(w)
  BY <1>5, OnceCheckSeen
<1>6. CASE SAdd(w)
  <2>1. pc'[w] = "expire"
    BY <1>1, <1>6 DEF SAdd, GoTo
  <2> QED
    BY <1>6, <2>1, OnceMark DEF SAdd
<1>7. CASE SAddFails(w)
  <2>1. pc'[w] = "loop" /\ pc[w] = "sadd"
    BY <1>1, <1>7 DEF SAddFails, NextOpp, GoTo
  <2>2. CASE UNCHANGED dedupVars
    BY <1>7, <2>1, <2>2, OnceLetGo DEF SAddFails, Busy
  <2>3. CASE Mark(Chat(w), Op(w))
    BY <1>7, <2>1, <2>3, OnceMark DEF SAddFails
  <2> QED
    BY <1>7, <2>2, <2>3 DEF SAddFails
<1>8. CASE Expire(w) \/ ExpireFails(w)
  BY <1>8, OnceExpire
<1>9. CASE Create(w)
  <2>1. pc'[w] = "send"
    BY <1>1, <1>9 DEF Create, GoTo
  <2> QED
    BY <1>9, <2>1, OnceCreated DEF Create
<1>10. CASE CreateFails(w)
  <2>1. ~ Busy(w)' /\ pc[w] = "create"
    BY <1>1, <1>10 DEF CreateFails, NextOpp, GoTo, Busy
  <2>2. CASE UNCHANGED created
    BY <1>10, <2>1, <2>2, OnceLetGo DEF CreateFails
  <2>3. CASE created' = [created EXCEPT ![Here(w)] = @ + 1]
    BY <1>10, <2>1, <2>3, OnceCreated DEF CreateFails
  <2> QED
    BY <1>10, <2>2, <2>3 DEF CreateFails
<1>11. CASE Send(w)
  <2>1. ~ Busy(w)' /\ pc[w] = "send"
    BY <1>1, <1>11 DEF Send, NextOpp, GoTo, Busy
  <2>2. CASE UNCHANGED <<sends, delivered>>
    BY <1>11, <2>1, <2>2, OnceLetGo DEF Send
  <2>3. CASE Deliver(w)
    BY <1>11, <2>1, <2>3, OnceSent DEF Send, Deliver
  <2> QED
    BY <1>11, <2>2, <2>3 DEF Send
<1> QED
  BY <1>2, <1>3, <1>4, <1>5, <1>6, <1>7, <1>8, <1>9, <1>10, <1>11 DEF Tick

LEMMA OnceNext == Once /\ [Next]_vars => Once'
<1> SUFFICES ASSUME Once, [Next]_vars PROVE Once'
  OBVIOUS
<1>1. TypeOK'
  BY NextTypeOK DEF Once
<1> SUFFICES (OncePerWorkerPerWindow /\ OnceStrengthening)'
  BY <1>1 DEF Once
<1> USE DEF dedupVars, signalVars, loopVars
<1>2. ASSUME NEW w \in Workers, Tick(w)
      PROVE  (OncePerWorkerPerWindow /\ OnceStrengthening)'
  BY <1>2, OnceTick
<1>3. CASE \/ \E w \in Workers : DeadlinePasses(w)
           \/ \E s \in Sources : \E b \in BooksOf[s] : Publish(s, b)
           \/ \E s \in Sources : BookExpires(s)
           \/ \E c \in Chats, s \in Settings : UpsertUserSettings(c, s)
           \/ \E c \in Chats, active \in BOOLEAN : SetUserActive(c, active)
           \/ UNCHANGED vars
  <2>1. UNCHANGED <<seen, epoch, created, sends, pc, user, rest>>
    BY <1>3 DEF DeadlinePasses, Publish, BookExpires, UpsertUserSettings,
                SetUserActive, vars
  <2>2. \A v \in Workers : SameHands(v)
    BY <2>1 DEF SameHands, Chat, Op
  <2> QED
    BY <2>1, <2>2, OnceFrame
<1>4. ASSUME NEW c \in Chats, KeyExpires(c)
      PROVE  (OncePerWorkerPerWindow /\ OnceStrengthening)'
  BY <1>4, OnceKeyExpires
<1>5. CASE Restart
  <2>1. UNCHANGED <<seen, epoch, created, sends>>
    BY <1>5 DEF Restart
  <2>2. \A v \in Workers : SameHands(v)
    BY <1>5 DEF Restart, SameHands, Busy
  <2> QED
    BY <2>1, <2>2, OnceFrame
<1> QED
  BY <1>2, <1>3, <1>4, <1>5 DEF Next, Environment

LEMMA InitOnce == Init => Once
<1> SUFFICES ASSUME Init PROVE Once
  OBVIOUS
<1>1. TypeOK
  BY InitTypeOK
<1>2. OncePerWorkerPerWindow
  BY DEF Init, OncePerWorkerPerWindow, Signals
<1>3. OnceStrengthening
  BY DEF Init, OnceStrengthening, StoredBefore, MissingFromKey
<1> QED
  BY <1>1, <1>2, <1>3 DEF Once

\* However the workers interleave, whatever fails, expires or restarts: a
\* worker stores, and sends, an operation to a chat at most once for each time
\* the chat's deduplication key was created.
THEOREM OncePerWorker == Spec => []OncePerWorkerPerWindow
<1>1. Init => Once
  BY InitOnce
<1>2. Once /\ [Next]_vars => Once'
  BY OnceNext
<1>3. Once => OncePerWorkerPerWindow
  BY DEF Once
<1> QED
  BY <1>1, <1>2, <1>3, PTL DEF Spec

\* The strengthening is itself an invariant.
THEOREM StoredOnlyAfterMarking == Spec => []OnceStrengthening
<1>1. Init => Once
  BY InitOnce
<1>2. Once /\ [Next]_vars => Once'
  BY OnceNext
<1>3. Once => OnceStrengthening
  BY DEF Once
<1> QED
  BY <1>1, <1>2, <1>3, PTL DEF Spec

-----------------------------------------------------------------------------
(* How many signals can be lost, and when a deduplication key may be       *)
(* without an expiry.                                                      *)

\* A marked signal nobody has delivered is at risk once no worker whose tick
\* is within its deadline has it in hand: Lost counts it when the last worker
\* lets go, but the deadline that made it do so was counted when it passed.
AtRisk ==
  {k \in Chats \X Hashes :
     /\ k[2] \in seen[k[1]] \ delivered[k[1]]
     /\ \A w \in Workers : Holds(w, k[1], k[2]) => ctxDone[w]}

Hand(w) == <<Chat(w), Op(w)>>

LossInv ==
  /\ TypeOK
  /\ IsFiniteSet(AtRisk)
  /\ Cardinality(AtRisk) <= faults + Cardinality(Workers) * crashes

-----------------------------------------------------------------------------
(* Counting.                                                               *)

LEMMA WorkersAreCounted == IsFiniteSet(Workers) /\ Cardinality(Workers) \in Nat
BY AnalyserAssumption, FS_CardinalityType

\* A step that puts nothing new at risk.
LEMMA CountSame ==
  ASSUME LossInv, TypeOK', AtRisk' \subseteq AtRisk,
         crashes' = crashes, faults' >= faults
  PROVE  LossInv'
<1>1. IsFiniteSet(AtRisk') /\ Cardinality(AtRisk') <= Cardinality(AtRisk)
  BY FS_Subset DEF LossInv
<1>2. /\ Cardinality(AtRisk) \in Nat /\ Cardinality(AtRisk') \in Nat
      /\ faults \in Nat /\ faults' \in Nat /\ crashes \in Nat
  BY <1>1, FS_CardinalityType, AnalyserAssumption DEF LossInv, TypeOK
<1>3. Cardinality(Workers) * crashes \in Nat
  BY <1>2, WorkersAreCounted
<1> QED
  BY <1>1, <1>2, <1>3 DEF LossInv

\* A failed call or a passed deadline puts at most one signal at risk.
LEMMA CountFault ==
  ASSUME LossInv, TypeOK', NEW k, AtRisk' \subseteq AtRisk \cup {k},
         crashes' = crashes, faults' = faults + 1
  PROVE  LossInv'
<1>1. /\ IsFiniteSet(AtRisk \cup {k})
      /\ Cardinality(AtRisk \cup {k}) <= Cardinality(AtRisk) + 1
  <2>1. IsFiniteSet(AtRisk)
    BY DEF LossInv
  <2>2. Cardinality(AtRisk) \in Nat
    BY <2>1, FS_CardinalityType
  <2> QED
    BY <2>1, <2>2, FS_AddElement
<1>2. /\ IsFiniteSet(AtRisk')
      /\ Cardinality(AtRisk') <= Cardinality(AtRisk \cup {k})
  BY <1>1, FS_Subset
<1>3. /\ Cardinality(AtRisk) \in Nat /\ Cardinality(AtRisk') \in Nat
      /\ Cardinality(AtRisk \cup {k}) \in Nat
      /\ faults \in Nat /\ crashes \in Nat
  BY <1>1, <1>2, FS_CardinalityType, AnalyserAssumption DEF LossInv, TypeOK
<1>4. Cardinality(Workers) * crashes \in Nat
  BY <1>3, WorkersAreCounted
<1> QED
  BY <1>1, <1>2, <1>3, <1>4 DEF LossInv

LEMMA HandsAreFew ==
  /\ IsFiniteSet({Hand(w) : w \in Workers})
  /\ Cardinality({Hand(w) : w \in Workers}) <= Cardinality(Workers)
<1> DEFINE f == [w \in Workers |-> Hand(w)]
           T == {Hand(w) : w \in Workers}
<1>1. f \in Surjection(Workers, T)
  BY DEF Surjection
<1> HIDE DEF f, T
<1>2. IsFiniteSet(T) /\ Cardinality(T) <= Cardinality(Workers)
  BY <1>1, WorkersAreCounted, FS_Surjection
<1> QED
  BY <1>2 DEF T

\* A restart puts at risk what the workers had in hand.
LEMMA CountRestart ==
  ASSUME LossInv, TypeOK', AtRisk' \subseteq AtRisk \cup {Hand(w) : w \in Workers},
         crashes' = crashes + 1, faults' = faults
  PROVE  LossInv'
<1> DEFINE H == {Hand(w) : w \in Workers}
           n == Cardinality(Workers)
<1>1. IsFiniteSet(H) /\ Cardinality(H) <= n /\ IsFiniteSet(AtRisk)
  BY HandsAreFew DEF LossInv
<1> HIDE DEF H
<1>2. /\ IsFiniteSet(AtRisk \cup H)
      /\ Cardinality(AtRisk \cup H) =
           Cardinality(AtRisk) + Cardinality(H) - Cardinality(AtRisk \cap H)
  BY <1>1, FS_Union
<1>3. IsFiniteSet(AtRisk \cap H)
  BY <1>1, FS_Subset, AtRisk \cap H \in SUBSET AtRisk
<1>4. /\ IsFiniteSet(AtRisk')
      /\ Cardinality(AtRisk') <= Cardinality(AtRisk \cup H)
  BY <1>2, FS_Subset DEF H
<1>5. /\ Cardinality(AtRisk) \in Nat /\ Cardinality(AtRisk') \in Nat
      /\ Cardinality(H) \in Nat /\ Cardinality(AtRisk \cap H) \in Nat
      /\ n \in Nat /\ faults \in Nat /\ crashes \in Nat
  BY <1>1, <1>3, <1>4, FS_CardinalityType, WorkersAreCounted, AnalyserAssumption
     DEF LossInv, TypeOK
<1> HIDE DEF n
<1>6. n * crashes \in Nat /\ n * (crashes + 1) = n * crashes + n
  BY <1>5
<1>7. Cardinality(AtRisk) <= faults + n * crashes
  BY DEF LossInv, n
<1>8. Cardinality(AtRisk') <= faults + n * (crashes + 1)
  BY <1>1, <1>2, <1>4, <1>5, <1>6, <1>7
<1> QED
  BY <1>4, <1>8 DEF LossInv, n

-----------------------------------------------------------------------------
(* What a step does to AtRisk.                                             *)

\* Worker v, within its deadline, still has in hand what it had.
StillHolds(v) ==
  \A c \in Chats, h \in Hashes :
    (Holds(v, c, h) /\ ~ ctxDone[v]) => (Holds(v, c, h)' /\ ~ ctxDone'[v])

NothingNewMarked == \A c \in Chats : (seen[c] \ delivered[c])' \subseteq seen[c] \ delivered[c]

LEMMA RiskFrame ==
  ASSUME NothingNewMarked, \A v \in Workers : StillHolds(v)
  PROVE  AtRisk' \subseteq AtRisk
BY DEF NothingNewMarked, StillHolds, AtRisk

LEMMA RiskLetGo ==
  ASSUME NothingNewMarked, NEW w \in Workers,
         \A v \in Workers : v # w => StillHolds(v)
  PROVE  AtRisk' \subseteq AtRisk \cup {Hand(w)}
<1> SUFFICES ASSUME NEW k \in AtRisk', k # Hand(w) PROVE k \in AtRisk
  OBVIOUS
<1>1. PICK c \in Chats, h \in Hashes : k = <<c, h>>
  BY DEF AtRisk
<1>2. h \in seen[c] \ delivered[c]
  BY <1>1 DEF AtRisk, NothingNewMarked
<1>3. ~ Holds(w, c, h)
  BY <1>1 DEF Hand, Holds
<1>4. ASSUME NEW v \in Workers, Holds(v, c, h) PROVE ctxDone[v]
  BY <1>1, <1>3, <1>4 DEF StillHolds, AtRisk
<1> QED
  BY <1>1, <1>2, <1>4 DEF AtRisk

LEMMA OthersStillHold ==
  ASSUME TypeOK, NEW w \in Workers, Tick(w) \/ DeadlinePasses(w),
         NEW v \in Workers, v # w
  PROVE  StillHolds(v)
<1>1. pc'[v] = pc[v] /\ user'[v] = user[v] /\ rest'[v] = rest[v]
  BY OthersKeepHands
<1>2. ctxDone'[v] = ctxDone[v]
  BY DEF Tick, DeadlinePasses, TypeOK, StartTick, GetRapira, GetGrinex,
     ListActive, ReadFails, NextUser, FinishTick, SkipUnmatched, CheckSeen,
     CheckSeenFails, SAdd, SAddFails, Expire, ExpireFails, Create, CreateFails,
     Send, Return
<1> QED
  BY <1>1, <1>2 DEF StillHolds, Holds, Chat, Op

\* The worker has nothing in hand, and marks nothing.
LEMMA IdleLoss ==
  ASSUME LossInv, TypeOK', NEW w \in Workers, Tick(w),
         pc[w] \notin {"expire", "create", "send"},
         UNCHANGED <<seen, delivered, crashes>>, faults' >= faults
  PROVE  LossInv'
<1>1. StillHolds(w)
  BY DEF StillHolds, Holds
<1>2. NothingNewMarked
  BY DEF NothingNewMarked
<1> QED
  BY <1>1, <1>2, RiskFrame, OthersStillHold, CountSame DEF LossInv

\* The worker keeps what it has in hand.
LEMMA KeptLoss ==
  ASSUME LossInv, TypeOK', NEW w \in Workers, Tick(w),
         pc'[w] \in {"expire", "create", "send"},
         UNCHANGED <<seen, delivered, ctxDone, crashes, user, rest>>,
         faults' >= faults
  PROVE  LossInv'
<1>1. StillHolds(w)
  BY DEF StillHolds, Holds, Chat, Op
<1>2. NothingNewMarked
  BY DEF NothingNewMarked
<1> QED
  BY <1>1, <1>2, RiskFrame, OthersStillHold, CountSame DEF LossInv

\* The worker's call is refused, and it lets go.
LEMMA RefusedLoss ==
  ASSUME LossInv, TypeOK', NEW w \in Workers, Tick(w), Refused(w),
         UNCHANGED <<seen, delivered>>
  PROVE  LossInv'
<1>1. NothingNewMarked
  BY DEF NothingNewMarked
<1>2. CASE ctxDone[w]
  <2>1. StillHolds(w)
    BY <1>2 DEF StillHolds
  <2>2. AtRisk' \subseteq AtRisk
    BY <1>1, <2>1, RiskFrame, OthersStillHold DEF LossInv
  <2>3. crashes' = crashes /\ faults' = faults /\ faults \in Int
    BY <1>2 DEF Refused, budget, LossInv, TypeOK
  <2> QED
    BY <2>2, <2>3, CountSame
<1>3. CASE ~ ctxDone[w]
  <2>1. AtRisk' \subseteq AtRisk \cup {Hand(w)}
    BY <1>1, RiskLetGo, OthersStillHold DEF LossInv
  <2>2. crashes' = crashes /\ faults' = faults + 1
    BY <1>3 DEF Refused
  <2> QED
    BY <2>1, <2>2, CountFault
<1> QED
  BY <1>2, <1>3

\* What is marked is in the worker's hands, unless the answer is lost.
LEMMA MarkLoss ==
  ASSUME LossInv, TypeOK', NEW w \in Workers, Tick(w), SAdd(w)
  PROVE  LossInv'
<1>1. TypeOK /\ Chat(w) \in Chats /\ Op(w) \in Hashes
  BY CurrentSignal DEF LossInv, SAdd, TypeOK, Busy
<1>2. /\ pc[w] = "sadd" /\ pc'[w] = "expire" /\ ~ ctxDone'[w]
      /\ seen' = [seen EXCEPT ![Chat(w)] = @ \cup {Op(w)}]
      /\ UNCHANGED <<delivered, user, rest, faults, crashes>>
  BY <1>1 DEF SAdd, Mark, GoTo, Answered, budget, signalVars, loopVars, TypeOK
<1>3. ASSUME NEW c \in Chats, NEW h \in Hashes, c = Chat(w), h = Op(w)
      PROVE  Holds(w, c, h)'
  BY <1>2, <1>3 DEF Holds, Chat, Op
<1>4. ASSUME NEW c \in Chats, NEW h \in Hashes, <<c, h>> \in AtRisk'
      PROVE  <<c, h>> \in AtRisk
  <2>1. h \in seen'[c] \ delivered[c] /\ ~ (c = Chat(w) /\ h = Op(w))
    BY <1>2, <1>3, <1>4 DEF AtRisk
  <2>2. h \in seen[c] \ delivered[c]
    BY <1>1, <1>2, <2>1 DEF TypeOK
  <2>3. ASSUME NEW v \in Workers, Holds(v, c, h) PROVE ctxDone[v]
    <3>1. v # w
      BY <1>2, <2>3 DEF Holds
    <3> QED
      BY <1>1, <1>4, <2>3, <3>1, OthersStillHold DEF AtRisk, StillHolds
  <2> QED
    BY <2>2, <2>3 DEF AtRisk
<1>5. AtRisk' \subseteq AtRisk
  BY <1>4 DEF AtRisk
<1>6. faults \in Int
  BY <1>1 DEF TypeOK
<1> QED
  BY <1>2, <1>5, <1>6, CountSame

LEMMA MarkLostLoss ==
  ASSUME LossInv, TypeOK', NEW w \in Workers, Tick(w), SAddFails(w), LostReply(w),
         Mark(Chat(w), Op(w))
  PROVE  LossInv'
<1>1. TypeOK /\ Chat(w) \in Chats /\ Op(w) \in Hashes
  BY CurrentSignal DEF LossInv, SAddFails, TypeOK, Busy
<1>2. /\ pc[w] = "sadd"
      /\ seen' = [seen EXCEPT ![Chat(w)] = @ \cup {Op(w)}]
      /\ UNCHANGED <<delivered, crashes>> /\ faults' = faults + 1
  BY DEF SAddFails, Mark, LostReply, signalVars
<1>3. ASSUME NEW c \in Chats, NEW h \in Hashes, <<c, h>> \in AtRisk',
             <<c, h>> # Hand(w)
      PROVE  <<c, h>> \in AtRisk
  <2>1. h \in seen[c] \ delivered[c]
    BY <1>1, <1>2, <1>3 DEF AtRisk, Hand, TypeOK
  <2>2. ASSUME NEW v \in Workers, Holds(v, c, h) PROVE ctxDone[v]
    <3>1. v # w
      BY <1>2, <2>2 DEF Holds
    <3> QED
      BY <1>1, <1>3, <2>2, <3>1, OthersStillHold DEF AtRisk, StillHolds
  <2> QED
    BY <2>1, <2>2 DEF AtRisk
<1>4. AtRisk' \subseteq AtRisk \cup {Hand(w)}
  BY <1>3 DEF AtRisk
<1> QED
  BY <1>2, <1>4, CountFault

\* What is delivered is at risk no longer, whatever the caller is told.
LEMMA SentLoss ==
  ASSUME LossInv, TypeOK', NEW w \in Workers, Tick(w), Send(w), Deliver(w),
         crashes' = crashes, faults' >= faults
  PROVE  LossInv'
<1>1. TypeOK /\ Chat(w) \in Chats /\ Op(w) \in Hashes /\ seen' = seen
  BY CurrentSignal DEF LossInv, Send, TypeOK, Busy, dedupVars
<1>2. delivered' = [delivered EXCEPT ![Chat(w)] = @ \cup {Op(w)}]
  BY DEF Deliver
<1>3. NothingNewMarked
  BY <1>1, <1>2 DEF NothingNewMarked, TypeOK
<1>4. Op(w) \in delivered'[Chat(w)]
  BY <1>1, <1>2 DEF TypeOK
<1>5. Hand(w) \notin AtRisk'
  BY <1>4 DEF AtRisk, Hand
<1>6. AtRisk' \subseteq AtRisk
  BY <1>1, <1>3, <1>5, RiskLetGo, OthersStillHold
<1> QED
  BY <1>6, CountSame

-----------------------------------------------------------------------------
(* The invariant.                                                          *)

LEMMA TickLoss ==
  ASSUME LossInv, TypeOK', NEW w \in Workers, Tick(w)
  PROVE  LossInv'
<1> USE DEF dedupVars, signalVars, budget
<1>1. TypeOK /\ pc = [v \in Workers |-> pc[v]] /\ faults \in Int
  BY DEF LossInv, TypeOK
<1>2. ASSUME Refused(w) \/ LostReply(w) \/ Answered(w) \/ UNCHANGED budget
      PROVE  crashes' = crashes /\ faults' >= faults
  BY <1>1, <1>2 DEF Refused, LostReply, Answered
<1>3. CASE \/ StartTick(w) \/ GetRapira(w) \/ GetGrinex(w) \/ ListActive(w)
           \/ ReadFails(w) \/ NextUser(w) \/ FinishTick(w)
           \/ SkipUnmatched(w) \/ CheckSeen(w) \/ CheckSeenFails(w)
  <2>1. /\ pc[w] \notin {"expire", "create", "send"}
        /\ UNCHANGED <<seen, delivered>>
        /\ Refused(w) \/ LostReply(w) \/ Answered(w) \/ UNCHANGED budget
    BY <1>3 DEF StartTick, GetRapira, GetGrinex, ListActive, ReadFails,
       NextUser, FinishTick, SkipUnmatched, CheckSeen, CheckSeenFails
  <2> QED
    BY <1>2, <2>1, IdleLoss
<1>4. CASE SAdd(w)
  BY <1>4, MarkLoss
<1>5. CASE SAddFails(w)
  <2>1. CASE Refused(w) /\ UNCHANGED dedupVars
    BY <1>5, <2>1, RefusedLoss DEF SAddFails
  <2>2. CASE LostReply(w) /\ Mark(Chat(w), Op(w))
    BY <1>5, <2>2, MarkLostLoss
  <2> QED
    BY <1>5, <2>1, <2>2 DEF SAddFails
<1>6. CASE Expire(w) \/ ExpireFails(w) \/ Create(w)
  <2>1. /\ pc'[w] \in {"expire", "create", "send"}
        /\ UNCHANGED <<seen, delivered, ctxDone, user, rest>>
        /\ Refused(w) \/ LostReply(w) \/ Answered(w) \/ UNCHANGED budget
    BY <1>1, <1>6 DEF Expire, ExpireFails, Create, GoTo, loopVars
  <2> QED
    BY <1>2, <2>1, KeptLoss
<1>7. CASE CreateFails(w)
  <2>1. UNCHANGED <<seen, delivered>> /\ (Refused(w) \/ LostReply(w))
    BY <1>7 DEF CreateFails
  <2>2. CASE LostReply(w)
    <3>1. AtRisk' \subseteq AtRisk \cup {Hand(w)}
      BY <1>1, <2>1, RiskLetGo, OthersStillHold DEF NothingNewMarked
    <3> QED
      BY <2>2, <3>1, CountFault DEF LostReply
  <2> QED
    BY <2>1, <2>2, RefusedLoss
<1>8. CASE Send(w)
  <2>1. CASE Deliver(w) /\ (Answered(w) \/ LostReply(w))
    BY <1>2, <1>8, <2>1, SentLoss
  <2>2. CASE Refused(w) /\ UNCHANGED <<sends, delivered>>
    BY <1>8, <2>2, RefusedLoss DEF Send
  <2> QED
    BY <1>8, <2>1, <2>2 DEF Send
<1> QED
  BY <1>3, <1>4, <1>5, <1>6, <1>7, <1>8 DEF Tick

LEMMA NextLoss == LossInv /\ [Next]_vars => LossInv'
<1> SUFFICES ASSUME LossInv, [Next]_vars PROVE LossInv'
  OBVIOUS
<1>0. TypeOK /\ TypeOK'
  BY NextTypeOK DEF LossInv
<1>1. TypeOK /\ TypeOK' /\ faults \in Int
  BY <1>0 DEF TypeOK
<1> USE DEF dedupVars, signalVars, loopVars, budget
<1>2. ASSUME NEW w \in Workers, Tick(w) PROVE LossInv'
  BY <1>1, <1>2, TickLoss
<1>3. ASSUME NEW w \in Workers, DeadlinePasses(w) PROVE LossInv'
  <2>1. NothingNewMarked /\ crashes' = crashes /\ faults' = faults + 1
    BY <1>3 DEF DeadlinePasses, NothingNewMarked
  <2>2. AtRisk' \subseteq AtRisk \cup {Hand(w)}
    BY <1>1, <1>3, <2>1, RiskLetGo, OthersStillHold
  <2> QED
    BY <1>1, <2>1, <2>2, CountFault
<1>4. CASE \/ \E s \in Sources : \E b \in BooksOf[s] : Publish(s, b)
           \/ \E s \in Sources : BookExpires(s)
           \/ \E c \in Chats, s \in Settings : UpsertUserSettings(c, s)
           \/ \E c \in Chats, active \in BOOLEAN : SetUserActive(c, active)
           \/ UNCHANGED vars
  <2>1. UNCHANGED <<seen, delivered, pc, ctxDone, user, rest, faults, crashes>>
    BY <1>4 DEF Publish, BookExpires, UpsertUserSettings, SetUserActive, vars
  <2>2. NothingNewMarked /\ \A v \in Workers : StillHolds(v)
    BY <2>1 DEF NothingNewMarked, StillHolds, Holds, Chat, Op
  <2> QED
    BY <1>1, <2>1, <2>2, RiskFrame, CountSame
<1>5. ASSUME NEW c \in Chats, KeyExpires(c) PROVE LossInv'
  <2>1. UNCHANGED <<pc, ctxDone, user, rest, faults, crashes>>
    BY <1>5 DEF KeyExpires
  <2>2. NothingNewMarked
    BY <1>1, <1>5 DEF KeyExpires, NothingNewMarked, TypeOK
  <2>3. \A v \in Workers : StillHolds(v)
    BY <2>1 DEF StillHolds, Holds, Chat, Op
  <2> QED
    BY <1>1, <2>1, <2>2, <2>3, RiskFrame, CountSame
<1>6. CASE Restart
  <2>1. UNCHANGED <<seen, delivered, faults>> /\ crashes' = crashes + 1
    BY <1>6 DEF Restart
  <2>2. ASSUME NEW k \in AtRisk', k \notin {Hand(w) : w \in Workers}
        PROVE  k \in AtRisk
    <3>1. PICK c \in Chats, h \in Hashes : k = <<c, h>>
      BY DEF AtRisk
    <3>2. \A w \in Workers : ~ Holds(w, c, h)
      BY <2>2, <3>1 DEF Hand, Holds
    <3> QED
      BY <2>1, <3>1, <3>2 DEF AtRisk
  <2> QED
    BY <1>1, <2>1, <2>2, CountRestart
<1> QED
  BY <1>2, <1>3, <1>4, <1>5, <1>6 DEF Next, Environment

LEMMA InitLoss == Init => LossInv
<1> SUFFICES ASSUME Init PROVE LossInv
  OBVIOUS
<1>1. AtRisk = {}
  BY DEF Init, AtRisk
<1>2. Cardinality(Workers) * 0 = 0
  BY WorkersAreCounted
<1> QED
  BY <1>1, <1>2, InitTypeOK, FS_EmptySet DEF LossInv, Init

\* Marking before storing and sending loses no more than one signal for each
\* failed call or passed deadline, and one per worker for each restart - for
\* any number of workers, chats, operations and failures.
THEOREM LossesAreBounded == Spec => []LossBound
<1>1. LossInv => LossBound
  <2> SUFFICES ASSUME LossInv PROVE LossBound
    OBVIOUS
  <2>1. Lost \subseteq AtRisk
    BY DEF Lost, AtRisk
  <2>2. IsFiniteSet(Lost) /\ Cardinality(Lost) <= Cardinality(AtRisk)
    BY <2>1, FS_Subset DEF LossInv
  <2>3. /\ Cardinality(Lost) \in Nat /\ Cardinality(AtRisk) \in Nat
        /\ faults \in Nat /\ crashes \in Nat
    BY <2>2, FS_CardinalityType, AnalyserAssumption DEF LossInv, TypeOK
  <2>4. Cardinality(Workers) * crashes \in Nat
    BY <2>3, WorkersAreCounted
  <2> QED
    BY <2>2, <2>3, <2>4 DEF LossInv, LossBound
<1> QED
  BY <1>1, InitLoss, NextLoss, PTL DEF Spec

-----------------------------------------------------------------------------
(* Keys without an expiry.                                                 *)

ExpiryInv ==
  /\ TypeOK
  /\ KeyWithoutExpiryIsPending
  /\ faults = 0 => \A w \in Workers : ~ ctxDone[w]

LEMMA TickKeepsCrashes ==
  ASSUME NEW w \in Workers, Tick(w)
  PROVE  crashes' = crashes
<1>1. Refused(w) \/ LostReply(w) \/ Answered(w) \/ UNCHANGED budget
  BY DEF Tick, StartTick, GetRapira, GetGrinex, ListActive, ReadFails, NextUser,
     FinishTick, SkipUnmatched, CheckSeen, CheckSeenFails, SAdd, SAddFails,
     Expire, ExpireFails, Create, CreateFails, Send
<1> QED
  BY <1>1 DEF Refused, LostReply, Answered, budget

LEMMA TickExpiry ==
  ASSUME ExpiryInv, TypeOK', NEW w \in Workers, Tick(w), faults' + crashes' = 0
  PROVE  KeyWithoutExpiryIsPending' /\ \A v \in Workers : ~ ctxDone'[v]
<1>1. faults' = 0 /\ crashes' = 0
  BY AnalyserAssumption DEF TypeOK
<1>2. ~ Refused(w) /\ ~ LostReply(w) => faults = 0
  BY <1>1 DEF ExpiryInv, TypeOK, Tick, StartTick, GetRapira, GetGrinex,
     ListActive, ReadFails, NextUser, FinishTick, SkipUnmatched, CheckSeen,
     CheckSeenFails, SAdd, SAddFails, Expire, ExpireFails, Create, CreateFails,
     Send, Answered, budget
<1>3. faults \in Nat /\ crashes \in Nat
  BY AnalyserAssumption DEF ExpiryInv, TypeOK
<1>4. ~ LostReply(w) /\ (Refused(w) => ctxDone[w] /\ faults = 0)
  BY <1>1, <1>3 DEF LostReply, Refused, budget
<1>5. faults = 0 /\ ~ Refused(w) /\ \A v \in Workers : ~ ctxDone[v]
  BY <1>2, <1>4 DEF ExpiryInv
<1>6. crashes = 0
  BY <1>1, TickKeepsCrashes
<1>7. \A v \in Workers : ~ ctxDone'[v]
  BY <1>5 DEF ExpiryInv, TypeOK, Tick, StartTick, GetRapira, GetGrinex,
     ListActive, ReadFails, NextUser, FinishTick, SkipUnmatched, CheckSeen,
     CheckSeenFails, SAdd, SAddFails, Expire, ExpireFails, Create, CreateFails,
     Send, Return
<1>8. \A v \in Workers : v # w => pc'[v] = pc[v] /\ Chat(v)' = Chat(v)
  BY OthersKeepHands DEF ExpiryInv, Chat
<1>9. ASSUME NEW c \in Chats, seen'[c] # {}, ~ ttl'[c]
      PROVE  \E v \in Workers : pc'[v] = "expire" /\ Chat(v)' = c
  <2>1. CASE SAdd(w) /\ c = Chat(w)
    BY <2>1 DEF SAdd, GoTo, ExpiryInv, TypeOK, Chat, loopVars
  <2>2. CASE ~ (SAdd(w) /\ c = Chat(w))
    <3>1. seen[c] # {} /\ ~ ttl[c] /\ ~ (Expire(w) /\ Chat(w) = c)
      BY <1>4, <1>5, <1>9, <2>2 DEF ExpiryInv, TypeOK, Tick, StartTick, GetRapira,
         GetGrinex, ListActive, ReadFails, NextUser, FinishTick, SkipUnmatched,
         CheckSeen, CheckSeenFails, SAdd, SAddFails, Expire, ExpireFails,
         Create, CreateFails, Send, Mark, dedupVars
    <3>2. PICK v \in Workers : pc[v] = "expire" /\ Chat(v) = c
      BY <1>5, <1>6, <3>1 DEF ExpiryInv, KeyWithoutExpiryIsPending
    <3>3. v # w
      BY <1>4, <1>5, <3>1, <3>2 DEF Tick, StartTick, GetRapira, GetGrinex,
         ListActive, ReadFails, NextUser, FinishTick, SkipUnmatched, CheckSeen,
         CheckSeenFails, SAdd, SAddFails, ExpireFails, Create, CreateFails, Send
    <3> QED
      BY <1>8, <3>2, <3>3
  <2> QED
    BY <2>1, <2>2
<1> QED
  BY <1>7, <1>9 DEF KeyWithoutExpiryIsPending

\* No failure yet, so no deadline passed: also after the step.
LEMMA TickNoDeadline ==
  ASSUME ExpiryInv, TypeOK', NEW w \in Workers, Tick(w), faults' = 0
  PROVE  \A v \in Workers : ~ ctxDone'[v]
<1>1. Refused(w) \/ LostReply(w) \/ Answered(w) \/ UNCHANGED budget
  BY DEF Tick, StartTick, GetRapira, GetGrinex, ListActive, ReadFails, NextUser,
     FinishTick, SkipUnmatched, CheckSeen, CheckSeenFails, SAdd, SAddFails,
     Expire, ExpireFails, Create, CreateFails, Send
<1>2. faults \in Nat
  BY AnalyserAssumption DEF ExpiryInv, TypeOK
<1>3. faults = 0
  BY <1>1, <1>2 DEF Refused, LostReply, Answered, budget
<1> QED
  BY <1>3 DEF ExpiryInv, TypeOK, Tick, StartTick, GetRapira, GetGrinex,
     ListActive, ReadFails, NextUser, FinishTick, SkipUnmatched, CheckSeen,
     CheckSeenFails, SAdd, SAddFails, Expire, ExpireFails, Create, CreateFails,
     Send, Return

LEMMA NextExpiry == ExpiryInv /\ [Next]_vars => ExpiryInv'
<1> SUFFICES ASSUME ExpiryInv, [Next]_vars PROVE ExpiryInv'
  OBVIOUS
<1>1. TypeOK /\ TypeOK' /\ faults \in Nat /\ crashes \in Nat
  BY NextTypeOK, AnalyserAssumption DEF ExpiryInv, TypeOK
<1>2. ASSUME NEW w \in Workers, Tick(w)
      PROVE  /\ KeyWithoutExpiryIsPending'
             /\ faults' = 0 => \A v \in Workers : ~ ctxDone'[v]
  <2>1. CASE faults' + crashes' = 0
    BY <1>1, <1>2, <2>1, TickExpiry
  <2>2. CASE faults' + crashes' # 0
    BY <1>1, <1>2, <2>2, TickNoDeadline DEF KeyWithoutExpiryIsPending
  <2> QED
    BY <2>1, <2>2
<1>3. CASE \E w \in Workers : DeadlinePasses(w)
  <2>1. faults' # 0 /\ faults' + crashes' # 0
    BY <1>1, <1>3 DEF DeadlinePasses
  <2> QED
    BY <1>1, <2>1 DEF ExpiryInv, KeyWithoutExpiryIsPending
<1>4. CASE \/ \E s \in Sources : \E b \in BooksOf[s] : Publish(s, b)
           \/ \E s \in Sources : BookExpires(s)
           \/ \E c \in Chats, s \in Settings : UpsertUserSettings(c, s)
           \/ \E c \in Chats, active \in BOOLEAN : SetUserActive(c, active)
           \/ UNCHANGED vars
  <2>1. UNCHANGED <<seen, ttl, pc, ctxDone, user, faults, crashes>>
    BY <1>4 DEF Publish, BookExpires, UpsertUserSettings, SetUserActive, vars,
                dedupVars, loopVars, budget
  <2> QED
    BY <1>1, <2>1 DEF ExpiryInv, KeyWithoutExpiryIsPending, Chat
<1>5. ASSUME NEW c \in Chats, KeyExpires(c) PROVE ExpiryInv'
  <2>1. UNCHANGED <<pc, ctxDone, user, faults, crashes>> /\ seen'[c] = {}
    BY <1>1, <1>5 DEF KeyExpires, loopVars, budget, TypeOK
  <2>2. \A d \in Chats : d # c => seen'[d] = seen[d] /\ ttl'[d] = ttl[d]
    BY <1>1, <1>5 DEF KeyExpires, TypeOK
  <2> QED
    BY <1>1, <2>1, <2>2 DEF ExpiryInv, KeyWithoutExpiryIsPending, Chat
<1>6. CASE Restart
  <2>1. faults' + crashes' # 0 /\ \A v \in Workers : ~ ctxDone'[v]
    BY <1>1, <1>6 DEF Restart
  <2> QED
    BY <1>1, <2>1 DEF ExpiryInv, KeyWithoutExpiryIsPending
<1> QED
  BY <1>1, <1>2, <1>3, <1>4, <1>5, <1>6 DEF Next, Environment, ExpiryInv

\* As long as no call fails and the process is not restarted, a key without an
\* expiry is one that some worker is about to EXPIRE: none is left to stay.
THEOREM EveryKeyGetsAnExpiry == Spec => []KeyWithoutExpiryIsPending
<1>1. Init => ExpiryInv
  BY InitTypeOK DEF Init, ExpiryInv, KeyWithoutExpiryIsPending
<1>2. ExpiryInv => KeyWithoutExpiryIsPending
  BY DEF ExpiryInv
<1> QED
  BY <1>1, <1>2, NextExpiry, PTL DEF Spec
=============================================================================
