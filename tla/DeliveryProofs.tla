--------------------------- MODULE DeliveryProofs ---------------------------
(***************************************************************************)
(* The clock of a chat's deduplication key and the account of its          *)
(* operations, for any number of workers and operations:                   *)
(* RepeatsKeepTheirDistance, HeldBackByOthers, StoredIsShownOnce and       *)
(* SignalsAfterStopWereUnderWay.                                           *)
(*                                                                         *)
(* None is inductive.  The first two argue about the key's clock.  A mark  *)
(* younger than TTL is in the key, and the key outlives it, or the EXPIRE  *)
(* that would make it do so is the very next step of the worker that set   *)
(* the mark.  If the key expires before that step, the mark is forgotten,  *)
(* and a mark can be forgotten in no other way.  And whatever the clock    *)
(* shows, some mark is as old as the clock has run, or the EXPIRE of a key *)
(* just created is still to come.                                          *)
(* The third counts: what is stored and not shown is in the hands of a     *)
(* worker or of the bot, or one of the faults so far accounts for it.      *)
(* The fourth counts too: after the stop button, what was shown and what   *)
(* is still under way never grow together, a crash included.               *)
(***************************************************************************)
EXTENDS Delivery, SequenceTheorems, FiniteSetTheorems, TLAPS

Labels == {"idle", "check", "sadd", "expire", "create", "send", "wait"}

\* The part of TypeOK the argument needs.
KeyTyped ==
  /\ seen \in SUBSET Ops
  /\ left \in 0 .. TTL \cup {Forever}
  /\ seen = {} => left = 0
  /\ pc \in [Workers -> Labels]
  /\ todo \in [Workers -> Seq(Ops)]
  /\ \A w \in Workers : pc[w] # "idle" => todo[w] # <<>>
  /\ mark \in [Workers -> [Ops -> 0 .. TTL]]
  /\ forgotten \in [Workers -> SUBSET Ops]
  /\ unexpired \in BOOLEAN

\* Only SAdd and Elapse touch the marks, and no Elapse comes before the EXPIRE.
JustMarked == \A w \in Workers : pc[w] = "expire" => mark[w][Op(w)] = 0

\* A worker about to mark an operation found it out of the key, so it has no
\* younger mark of its own, unless that was forgotten.
Unmarked ==
  \A w \in Workers : pc[w] = "sadd" =>
    unexpired \/ Op(w) \in forgotten[w] \/ mark[w][Op(w)] = TTL

\* A mark of worker w that the key still has to hold.
Standing(w, o) == ~ unexpired /\ o \notin forgotten[w] /\ mark[w][o] < TTL

\* The key outlives such a mark, but for the one whose EXPIRE is next.
Kept ==
  \A w \in Workers, o \in Ops :
    Standing(w, o)
      => /\ o \in seen
         /\ \/ left = Forever
            \/ left # Forever /\ left + mark[w][o] >= TTL
            \/ pc[w] = "expire" /\ Op(w) = o

\* The key lives no longer than some mark makes it.
Justified ==
  ~ unexpired /\ seen # {}
    => \/ left = Forever /\ \E w \in Workers : pc[w] = "expire"
       \/ left # Forever /\ \E w \in Workers, o \in Ops : left + mark[w][o] <= TTL

KeyInv == KeyTyped /\ JustMarked /\ Unmarked /\ Kept /\ Justified

-----------------------------------------------------------------------------
\* The operation a worker is at, outside of its idle time, is one of Ops.
LEMMA OpIsAnOperation ==
  ASSUME KeyTyped, NEW w \in Workers, pc[w] # "idle"
  PROVE  Op(w) \in Ops /\ Tail(todo[w]) \in Seq(Ops)
BY DEF KeyTyped, Op

\* Continue keeps the types, changes one worker, and leads neither to an SADD
\* nor to an EXPIRE.
LEMMA ContinueIsTyped ==
  ASSUME KeyTyped, NEW w \in Workers, pc[w] # "idle", Continue(w)
  PROVE  /\ pc' \in [Workers -> Labels]
         /\ todo' \in [Workers -> Seq(Ops)]
         /\ \A v \in Workers : pc'[v] # "idle" => todo'[v] # <<>>
         /\ pc'[w] \in {"idle", "check"}
         /\ \A v \in Workers \ {w} : pc'[v] = pc[v] /\ todo'[v] = todo[v]
<1>1. todo[w] \in Seq(Ops) /\ todo[w] # <<>> /\ Tail(todo[w]) \in Seq(Ops)
  BY DEF KeyTyped
<1>2. Len(todo[w]) # 1 => Tail(todo[w]) # <<>>
  <2>1. Len(todo[w]) \in Nat \ {0} /\ Len(Tail(todo[w])) = Len(todo[w]) - 1
    BY <1>1, HeadTailProperties, EmptySeq
  <2>2. Tail(todo[w]) # <<>> \/ Len(Tail(todo[w])) = 0
    BY EmptySeq, Zenon
  <2> QED
    BY <2>1, <2>2
<1> QED
  BY <1>1, <1>2 DEF Continue, GoTo, KeyTyped, Labels

\* GoTo keeps the types and changes one worker's place.
LEMMA GoToIsTyped ==
  ASSUME KeyTyped, NEW w \in Workers, NEW l \in Labels, pc[w] # "idle",
         GoTo(w, l), UNCHANGED todo
  PROVE  /\ pc' \in [Workers -> Labels]
         /\ todo' \in [Workers -> Seq(Ops)]
         /\ \A v \in Workers : pc'[v] # "idle" => todo'[v] # <<>>
         /\ pc'[w] = l
         /\ \A v \in Workers \ {w} : pc'[v] = pc[v]
BY DEF GoTo, KeyTyped

\* A step that leaves the key and the marks alone, and in which no worker comes
\* to an SADD or to an EXPIRE and none leaves one, keeps the invariant; one that
\* leaves an EXPIRE out admits it in unexpired.
LEMMA KeyLeftAlone ==
  ASSUME KeyInv, UNCHANGED keyVars,
         pc' \in [Workers -> Labels], todo' \in [Workers -> Seq(Ops)],
         \A w \in Workers : pc'[w] # "idle" => todo'[w] # <<>>,
         unexpired' \in BOOLEAN, unexpired => unexpired',
         \A w \in Workers :
           pc'[w] \in {"sadd", "expire"} => pc'[w] = pc[w] /\ todo'[w] = todo[w],
         \A w \in Workers :
           pc[w] = "expire" => unexpired' \/ (pc'[w] = pc[w] /\ todo'[w] = todo[w])
  PROVE  KeyInv'
<1>1. KeyTyped'
  BY DEF KeyInv, KeyTyped, keyVars
<1>2. JustMarked' /\ Unmarked'
  BY DEF KeyInv, JustMarked, Unmarked, Op, keyVars
<1>3. Kept'
  BY DEF KeyInv, KeyTyped, Kept, Standing, Op, keyVars
<1>4. Justified'
  BY DEF KeyInv, KeyTyped, Justified, keyVars
<1> QED
  BY <1>1, <1>2, <1>3, <1>4 DEF KeyInv

-----------------------------------------------------------------------------
LEMMA KeyInvInitially == Init => KeyInv
<1> SUFFICES ASSUME Init PROVE KeyInv
  OBVIOUS
<1>1. KeyTyped
  <2>1. unexpired \in BOOLEAN
    BY Zenon DEF Init
  <2>2. pc \in [Workers -> Labels] /\ todo \in [Workers -> Seq(Ops)]
        /\ \A w \in Workers : pc[w] = "idle"
    BY DEF Init, Labels
  <2>3. mark \in [Workers -> [Ops -> 0 .. TTL]]
    BY DeliveryAssumption DEF Init
  <2>4. forgotten \in [Workers -> SUBSET Ops]
    BY DEF Init
  <2> QED
    BY <2>1, <2>2, <2>3, <2>4, DeliveryAssumption DEF Init, KeyTyped
<1>2. JustMarked /\ Unmarked /\ Justified
  BY DEF Init, JustMarked, Unmarked, Justified
<1>3. Kept
  BY DeliveryAssumption DEF Init, Kept, Standing
<1> QED
  BY <1>1, <1>2, <1>3 DEF KeyInv

LEMMA CheckKeepsKeyInv ==
  ASSUME KeyInv, NEW w \in Workers, Check(w)
  PROVE  KeyInv'
<1> USE DEF KeyInv
<1>1. pc[w] = "check" /\ pc[w] # "idle" /\ UNCHANGED <<seen, left, mark, forgotten, unexpired>>
  BY DEF Check, keyVars
<1>2. CASE Op(w) \in seen
  <2>1. Continue(w) /\ UNCHANGED keyVars /\ unexpired' \in BOOLEAN
    BY <1>1, <1>2 DEF Check, KeyTyped, keyVars
  <2> QED
    BY <1>1, <2>1, ContinueIsTyped, KeyLeftAlone
<1>3. CASE Op(w) \notin seen
  <2>1. GoTo(w, "sadd") /\ UNCHANGED todo
    BY <1>3 DEF Check
  <2>2. /\ pc' \in [Workers -> Labels]
        /\ todo' \in [Workers -> Seq(Ops)]
        /\ \A v \in Workers : pc'[v] # "idle" => todo'[v] # <<>>
        /\ pc'[w] = "sadd"
        /\ \A v \in Workers \ {w} : pc'[v] = pc[v]
    BY <1>1, <2>1, GoToIsTyped DEF Labels
  <2>3. unexpired \/ Op(w) \in forgotten[w] \/ mark[w][Op(w)] = TTL
    <3>1. Op(w) \in Ops /\ mark[w][Op(w)] \in 0 .. TTL
      BY <1>1, OpIsAnOperation DEF KeyTyped
    <3>2. ~ Standing(w, Op(w))
      BY <1>3, <3>1 DEF Kept
    <3> QED
      BY <3>1, <3>2, DeliveryAssumption DEF Standing
  <2>4. KeyTyped'
    BY <1>1, <2>2 DEF KeyTyped
  <2>5. JustMarked' /\ Unmarked'
    BY <1>1, <2>1, <2>2, <2>3 DEF JustMarked, Unmarked, Op
  <2>6. Kept'
    BY <1>1, <2>1, <2>2 DEF Kept, Standing, Op
  <2>7. Justified'
    BY <1>1, <2>2 DEF Justified
  <2> QED
    BY <2>4, <2>5, <2>6, <2>7
<1> QED
  BY <1>2, <1>3

\* What SADD does to the key and to the marks.
LEMMA MarkSetsTheKey ==
  ASSUME KeyTyped, NEW w \in Workers, pc[w] # "idle", Mark(w)
  PROVE  /\ seen' \in SUBSET Ops /\ Op(w) \in seen' /\ seen \subseteq seen'
         /\ left' = IF seen = {} THEN Forever ELSE left
         /\ left' \in 0 .. TTL \cup {Forever}
         /\ mark' \in [Workers -> [Ops -> 0 .. TTL]]
         /\ mark'[w][Op(w)] = 0
         /\ forgotten' \in [Workers -> SUBSET Ops]
         /\ \A v \in Workers, o \in Ops :
              (v # w \/ o # Op(w))
                => /\ mark'[v][o] = mark[v][o]
                   /\ o \in forgotten'[v] <=> o \in forgotten[v]
<1>1. Op(w) \in Ops
  BY OpIsAnOperation
<1> QED
  BY <1>1, DeliveryAssumption DEF Mark, KeyTyped

LEMMA SAddKeepsKeyInv ==
  ASSUME KeyInv, NEW w \in Workers, SAdd(w)
  PROVE  KeyInv'
<1> USE DEF KeyInv
<1>1. /\ pc[w] = "sadd" /\ pc[w] # "idle"
      /\ Mark(w) /\ GoTo(w, "expire") /\ UNCHANGED <<todo, unexpired>>
  BY DEF SAdd
<1>2. /\ pc' \in [Workers -> Labels]
      /\ todo' \in [Workers -> Seq(Ops)]
      /\ \A v \in Workers : pc'[v] # "idle" => todo'[v] # <<>>
      /\ pc'[w] = "expire"
      /\ \A v \in Workers \ {w} : pc'[v] = pc[v]
  BY <1>1, GoToIsTyped DEF Labels
<1>3. /\ seen' \in SUBSET Ops /\ Op(w) \in seen' /\ seen \subseteq seen'
      /\ left' = IF seen = {} THEN Forever ELSE left
      /\ left' \in 0 .. TTL \cup {Forever}
      /\ mark' \in [Workers -> [Ops -> 0 .. TTL]]
      /\ mark'[w][Op(w)] = 0
      /\ forgotten' \in [Workers -> SUBSET Ops]
      /\ \A v \in Workers, o \in Ops :
           (v # w \/ o # Op(w))
             => /\ mark'[v][o] = mark[v][o]
                /\ o \in forgotten'[v] <=> o \in forgotten[v]
  BY <1>1, MarkSetsTheKey
<1>4. Op(w) \in Ops /\ \A v \in Workers : Op(v)' = Op(v)
  BY <1>1, OpIsAnOperation DEF Op
<1>5. KeyTyped'
  BY <1>1, <1>2, <1>3 DEF KeyTyped
<1>6. JustMarked'
  <2> SUFFICES ASSUME NEW v \in Workers, pc'[v] = "expire"
               PROVE  mark'[v][Op(v)] = 0
    BY <1>4 DEF JustMarked
  <2>1. CASE v = w
    BY <2>1, <1>3
  <2>2. CASE v # w
    <3>1. pc[v] = "expire" /\ Op(v) \in Ops
      BY <2>2, <1>2, OpIsAnOperation
    <3> QED
      BY <3>1, <2>2, <1>3 DEF JustMarked
  <2> QED
    BY <2>1, <2>2
<1>7. Unmarked'
  <2> SUFFICES ASSUME NEW v \in Workers, pc'[v] = "sadd"
               PROVE  unexpired' \/ Op(v) \in forgotten'[v] \/ mark'[v][Op(v)] = TTL
    BY <1>4 DEF Unmarked
  <2>1. v # w /\ pc[v] = "sadd" /\ Op(v) \in Ops
    BY <1>2, OpIsAnOperation
  <2> QED
    BY <2>1, <1>1, <1>3 DEF Unmarked
<1>8. Kept'
  <2> SUFFICES ASSUME NEW v \in Workers, NEW o \in Ops,
                      Standing(v, o)'
               PROVE  /\ o \in seen'
                      /\ \/ left' = Forever
                         \/ left' # Forever /\ left' + mark'[v][o] >= TTL
                         \/ pc'[v] = "expire" /\ Op(v) = o
    BY <1>4 DEF Kept
  <2>1. CASE v = w /\ o = Op(w)
    BY <2>1, <1>2, <1>3
  <2>2. CASE v # w \/ o # Op(w)
    <3>1. mark'[v][o] = mark[v][o] /\ Standing(v, o)
      BY <2>2, <1>1, <1>3 DEF Standing
    <3>2. /\ o \in seen
          /\ \/ left = Forever
             \/ left # Forever /\ left + mark[v][o] >= TTL
             \/ pc[v] = "expire" /\ Op(v) = o
      BY <3>1 DEF Kept
    <3>3. pc[v] = "expire" => pc'[v] = "expire"
      BY <1>1, <1>2
    <3> QED
      BY <3>1, <3>2, <3>3, <1>3
  <2> QED
    BY <2>1, <2>2
<1>9. Justified'
  <2>1. CASE seen = {}
    BY <2>1, <1>2, <1>3 DEF Justified
  <2>2. CASE seen # {} /\ left = Forever
    BY <2>2, <1>1, <1>2, <1>3 DEF Justified
  <2>3. CASE seen # {} /\ left # Forever
    <3>1. left' \in 0 .. TTL /\ left' # Forever
      BY <2>3, <1>3
    <3>2. left' + mark'[w][Op(w)] <= TTL
      BY <3>1, <1>3, DeliveryAssumption
    <3> QED
      BY <3>1, <3>2, <1>4 DEF Justified
  <2> QED
    BY <2>1, <2>2, <2>3
<1> QED
  BY <1>5, <1>6, <1>7, <1>8, <1>9

LEMMA ExpireKeepsKeyInv ==
  ASSUME KeyInv, NEW w \in Workers, Expire(w)
  PROVE  KeyInv'
<1> USE DEF KeyInv
<1>1. /\ pc[w] = "expire" /\ pc[w] # "idle"
      /\ left' = IF seen = {} THEN 0 ELSE TTL
      /\ GoTo(w, "create") /\ UNCHANGED <<seen, mark, forgotten, todo, unexpired>>
  BY DEF Expire
<1>2. /\ pc' \in [Workers -> Labels]
      /\ todo' \in [Workers -> Seq(Ops)]
      /\ \A v \in Workers : pc'[v] # "idle" => todo'[v] # <<>>
      /\ pc'[w] = "create"
      /\ \A v \in Workers \ {w} : pc'[v] = pc[v]
  BY <1>1, GoToIsTyped DEF Labels
<1>3. Op(w) \in Ops /\ \A v \in Workers : Op(v)' = Op(v)
  BY <1>1, OpIsAnOperation DEF Op
<1>4. KeyTyped'
  BY <1>1, <1>2, DeliveryAssumption DEF KeyTyped
<1>5. JustMarked' /\ Unmarked'
  BY <1>1, <1>2, <1>3 DEF JustMarked, Unmarked
<1>6. Kept'
  <2> SUFFICES ASSUME NEW v \in Workers, NEW o \in Ops, Standing(v, o)
               PROVE  o \in seen /\ left' # Forever /\ left' + mark[v][o] >= TTL
    BY <1>1 DEF Kept, Standing
  <2>1. o \in seen /\ left' = TTL
    BY <1>1 DEF Kept
  <2>2. mark[v][o] \in 0 .. TTL
    BY DEF KeyTyped
  <2> QED
    BY <2>1, <2>2, DeliveryAssumption
<1>7. Justified'
  <2>1. mark[w][Op(w)] = 0
    BY <1>1 DEF JustMarked
  <2>2. seen # {} => left' # Forever /\ left' + mark[w][Op(w)] <= TTL
    BY <2>1, <1>1, DeliveryAssumption
  <2> QED
    BY <2>2, <1>1, <1>3 DEF Justified
<1> QED
  BY <1>4, <1>5, <1>6, <1>7

\* SADD with its effect but without its reply: the key has no EXPIRE to come.
LEMMA LostMarkKeepsKeyInv ==
  ASSUME KeyInv, NEW w \in Workers, pc[w] = "sadd", Mark(w), unexpired' = TRUE,
         Continue(w)
  PROVE  KeyInv'
<1> USE DEF KeyInv
<1>1. pc[w] # "idle"
  OBVIOUS
<1>2. /\ pc' \in [Workers -> Labels]
      /\ todo' \in [Workers -> Seq(Ops)]
      /\ \A v \in Workers : pc'[v] # "idle" => todo'[v] # <<>>
      /\ pc'[w] \in {"idle", "check"}
      /\ \A v \in Workers \ {w} : pc'[v] = pc[v] /\ todo'[v] = todo[v]
  BY <1>1, ContinueIsTyped
<1>3. /\ seen' \in SUBSET Ops /\ Op(w) \in seen'
      /\ left' \in 0 .. TTL \cup {Forever}
      /\ mark' \in [Workers -> [Ops -> 0 .. TTL]]
      /\ forgotten' \in [Workers -> SUBSET Ops]
      /\ \A v \in Workers, o \in Ops :
           (v # w \/ o # Op(w)) => mark'[v][o] = mark[v][o]
  BY <1>1, MarkSetsTheKey
<1>4. KeyTyped'
  BY <1>2, <1>3 DEF KeyTyped
<1>5. JustMarked'
  <2> SUFFICES ASSUME NEW v \in Workers, pc'[v] = "expire"
               PROVE  mark'[v][Head(todo'[v])] = 0
    BY DEF JustMarked, Op
  <2>1. v # w /\ pc[v] = "expire" /\ todo'[v] = todo[v] /\ Op(v) \in Ops
    BY <1>2, OpIsAnOperation
  <2> QED
    BY <2>1, <1>3 DEF JustMarked, Op
<1> QED
  BY <1>4, <1>5 DEF Unmarked, Kept, Standing, Justified

LEMMA ElapseKeepsKeyInv ==
  ASSUME KeyInv, Elapse
  PROVE  KeyInv'
<1> USE DEF KeyInv
<1>1. /\ \A w \in Workers : pc[w] # "expire"
      /\ mark' = [w \in Workers |-> [o \in Ops |-> Older(mark[w][o])]]
      /\ forgotten' = [w \in Workers |-> {o \in forgotten[w] : mark'[w][o] < TTL}]
      /\ left' = IF left \in {0, Forever} THEN left ELSE left - 1
      /\ UNCHANGED <<seen, pc, todo, unexpired>>
      /\ seen = {} \/ left # 0
  BY DEF Elapse, Due
<1>2. \A w \in Workers, o \in Ops :
        /\ mark[w][o] \in 0 .. TTL /\ mark'[w][o] \in 0 .. TTL
        /\ mark'[w][o] = IF mark[w][o] < TTL THEN mark[w][o] + 1 ELSE TTL
  BY <1>1, DeliveryAssumption DEF KeyTyped, Older
<1>3. \A w \in Workers, o \in Ops :
        o \in forgotten'[w] <=> o \in forgotten[w] /\ mark'[w][o] < TTL
  BY <1>1 DEF KeyTyped
<1>4. KeyTyped'
  <2>1. mark' \in [Workers -> [Ops -> 0 .. TTL]]
    BY <1>1, <1>2 DEF KeyTyped
  <2>2. forgotten' \in [Workers -> SUBSET Ops]
    BY <1>1 DEF KeyTyped
  <2>3. left' \in 0 .. TTL \cup {Forever} /\ (seen = {} => left' = 0)
    BY <1>1, DeliveryAssumption DEF KeyTyped
  <2> QED
    BY <1>1, <2>1, <2>2, <2>3 DEF KeyTyped
<1>5. JustMarked'
  BY <1>1 DEF JustMarked
<1>6. Unmarked'
  <2> SUFFICES ASSUME NEW w \in Workers, pc[w] = "sadd", ~ unexpired
               PROVE  Op(w) \in forgotten'[w] \/ mark'[w][Op(w)] = TTL
    BY <1>1 DEF Unmarked, Op
  <2>1. Op(w) \in Ops
    BY OpIsAnOperation
  <2>2. Op(w) \in forgotten[w] \/ mark[w][Op(w)] = TTL
    BY DEF Unmarked
  <2>3. mark'[w][Op(w)] \in 0 .. TTL /\ (mark[w][Op(w)] = TTL => mark'[w][Op(w)] = TTL)
    BY <1>2, <2>1, DeliveryAssumption
  <2> QED
    BY <1>3, <2>1, <2>2, <2>3, DeliveryAssumption
\* A mark that still stands after the step stood before it, and is one unit older.
<1>7. ASSUME NEW w \in Workers, NEW o \in Ops, Standing(w, o)'
      PROVE  /\ Standing(w, o)
             /\ mark[w][o] < TTL /\ mark'[w][o] = mark[w][o] + 1
             /\ o \in seen /\ (left = Forever \/ left + mark[w][o] >= TTL)
  <2>1. mark'[w][o] < TTL /\ mark[w][o] < TTL /\ mark'[w][o] = mark[w][o] + 1
    BY <1>2, <1>7, DeliveryAssumption DEF Standing
  <2>2. Standing(w, o)
    BY <1>1, <1>3, <1>7, <2>1 DEF Standing
  <2> QED
    BY <1>1, <2>1, <2>2 DEF Kept
<1>8. Kept'
  <2> SUFFICES ASSUME NEW w \in Workers, NEW o \in Ops, Standing(w, o)'
               PROVE  /\ o \in seen'
                      /\ left' = Forever
                         \/ (left' # Forever /\ left' + mark'[w][o] >= TTL)
    BY DEF Kept
  <2>1. o \in seen /\ left # 0 /\ mark'[w][o] = mark[w][o] + 1
    BY <1>1, <1>7
  <2>2. CASE left = Forever
    BY <1>1, <2>1, <2>2
  <2>3. CASE left # Forever
    <3>1. left' = left - 1 /\ left \in 1 .. TTL /\ left + mark[w][o] >= TTL
      BY <1>1, <1>7, <2>1, <2>3 DEF KeyTyped
    <3> QED
      BY <1>1, <1>2, <2>1, <3>1, DeliveryAssumption
  <2> QED
    BY <2>2, <2>3
<1>9. Justified'
  <2> SUFFICES ASSUME ~ unexpired, seen # {}
               PROVE  left' # Forever
                      /\ \E w \in Workers, o \in Ops : left' + mark'[w][o] <= TTL
    BY <1>1 DEF Justified
  <2>1. PICK w \in Workers, o \in Ops : left # Forever /\ left + mark[w][o] <= TTL
    BY <1>1 DEF Justified
  <2>2. left' = left - 1 /\ left \in 1 .. TTL
    BY <1>1, <2>1 DEF KeyTyped
  <2>3. left' + mark'[w][o] <= TTL
    BY <1>2, <2>1, <2>2, DeliveryAssumption
  <2> QED
    BY <2>2, <2>3, DeliveryAssumption
<1> QED
  BY <1>4, <1>5, <1>6, <1>8, <1>9

\* What the expiry takes of the marks that stand is the ones whose EXPIRE was
\* next, and these are forgotten now: any other has reached TTL with the key.
LEMMA ExpiryKeepsKeyInv ==
  ASSUME KeyInv, KeyExpires
  PROVE  KeyInv'
<1> USE DEF KeyInv
<1>1. /\ seen' = {} /\ left = 0 /\ left # Forever
      /\ forgotten' = [w \in Workers |->
           forgotten[w] \cup (IF pc[w] = "expire" THEN {Op(w)} ELSE {})]
      /\ UNCHANGED <<left, mark, pc, todo, unexpired>>
  BY DeliveryAssumption DEF KeyExpires, Due
<1>2. \A w \in Workers : pc[w] = "expire" => Op(w) \in Ops
  BY OpIsAnOperation
<1>3. \A w \in Workers : /\ forgotten[w] \subseteq forgotten'[w]
                         /\ pc[w] = "expire" => Op(w) \in forgotten'[w]
  BY <1>1
<1>4. KeyTyped'
  <2>1. forgotten' \in [Workers -> SUBSET Ops]
    BY <1>1, <1>2 DEF KeyTyped
  <2> QED
    BY <1>1, <2>1 DEF KeyTyped
<1>5. JustMarked' /\ Unmarked'
  BY <1>1, <1>3 DEF JustMarked, Unmarked, Op
<1>6. Kept'
  <2> SUFFICES ASSUME NEW w \in Workers, NEW o \in Ops, Standing(w, o)'
               PROVE  FALSE
    BY DEF Kept
  <2>1. Standing(w, o) /\ mark[w][o] < TTL
    BY <1>1, <1>3 DEF Standing
  <2>2. ~ (pc[w] = "expire" /\ Op(w) = o)
    BY <1>3 DEF Standing
  <2>3. 0 + mark[w][o] >= TTL
    BY <1>1, <2>1, <2>2 DEF Kept
  <2>4. mark[w][o] \in 0 .. TTL
    BY DEF KeyTyped
  <2> QED
    BY <2>1, <2>3, <2>4, DeliveryAssumption
<1>7. Justified'
  BY <1>1 DEF Justified
<1> QED
  BY <1>4, <1>5, <1>6, <1>7

-----------------------------------------------------------------------------
\* Steps that leave the key alone.
LEMMA WorkerKeepsKeyInv ==
  ASSUME KeyInv, NEW w \in Workers,
         BeginTick(w) \/ ExpireFails(w) \/ Create(w) \/ Call(w) \/ CallFails(w)
           \/ GiveUp(w)
  PROVE  KeyInv'
<1> USE DEF KeyInv
<1>1. CASE BeginTick(w)
  <2>1. PICK found \in Found : todo' = [todo EXCEPT ![w] = found]
    BY <1>1 DEF BeginTick
  <2>2. found \in Seq(Ops) /\ found # <<>>
    BY DeliveryAssumption
  <2>3. /\ pc' \in [Workers -> Labels] /\ todo' \in [Workers -> Seq(Ops)]
        /\ pc'[w] = "check" /\ todo'[w] = found /\ pc[w] = "idle"
        /\ \A v \in Workers \ {w} : pc'[v] = pc[v] /\ todo'[v] = todo[v]
    BY <1>1, <2>1, <2>2 DEF BeginTick, GoTo, KeyTyped, Labels
  <2> QED
    BY <1>1, <2>2, <2>3, KeyLeftAlone DEF BeginTick, KeyTyped, keyVars
<1>2. CASE ExpireFails(w)
  <2>1. pc[w] = "expire" /\ GoTo(w, "create") /\ UNCHANGED todo /\ unexpired' = TRUE
    BY <1>2 DEF ExpireFails
  <2> QED
    BY <1>2, <2>1, GoToIsTyped, KeyLeftAlone DEF ExpireFails, Labels
<1>3. CASE Create(w)
  <2>1. pc[w] = "create" /\ GoTo(w, "send") /\ UNCHANGED <<todo, unexpired>>
    BY <1>3 DEF Create
  <2>2. /\ pc' \in [Workers -> Labels] /\ todo' \in [Workers -> Seq(Ops)]
        /\ \A v \in Workers : pc'[v] # "idle" => todo'[v] # <<>>
        /\ pc'[w] = "send"
        /\ \A v \in Workers \ {w} : pc'[v] = pc[v]
    BY <2>1, GoToIsTyped DEF Labels
  <2> QED
    BY <1>3, <2>1, <2>2, KeyLeftAlone DEF Create, KeyTyped
<1>4. CASE Call(w)
  <2>1. pc[w] = "send" /\ GoTo(w, "wait") /\ UNCHANGED <<todo, unexpired>>
    BY <1>4 DEF Call
  <2>2. /\ pc' \in [Workers -> Labels] /\ todo' \in [Workers -> Seq(Ops)]
        /\ \A v \in Workers : pc'[v] # "idle" => todo'[v] # <<>>
        /\ pc'[w] = "wait"
        /\ \A v \in Workers \ {w} : pc'[v] = pc[v]
    BY <2>1, GoToIsTyped DEF Labels
  <2> QED
    BY <1>4, <2>1, <2>2, KeyLeftAlone DEF Call, KeyTyped
<1>5. CASE CallFails(w) \/ GiveUp(w)
  <2>1. pc[w] \in {"send", "wait"} /\ Continue(w) /\ UNCHANGED <<keyVars, unexpired>>
    BY <1>5 DEF CallFails, GiveUp
  <2> QED
    BY <2>1, ContinueIsTyped, KeyLeftAlone DEF KeyTyped
<1> QED
  BY <1>1, <1>2, <1>3, <1>4, <1>5

LEMMA StepFailsKeepsKeyInv ==
  ASSUME KeyInv, NEW w \in Workers, StepFails(w)
  PROVE  KeyInv'
<1> USE DEF KeyInv
<1>1. Continue(w) /\ pc[w] \in {"check", "sadd", "create"}
  BY DEF StepFails
<1>2. CASE UNCHANGED <<keyVars, unexpired>>
  BY <1>1, <1>2, ContinueIsTyped, KeyLeftAlone DEF KeyTyped
<1>3. CASE pc[w] = "sadd" /\ Mark(w) /\ unexpired' = TRUE
  BY <1>1, <1>3, LostMarkKeepsKeyInv
<1> QED
  BY <1>2, <1>3 DEF StepFails

LEMMA HandlerKeepsKeyInv ==
  ASSUME KeyInv, NEW o \in Ops, Show(o) \/ NotShown(o)
  PROVE  KeyInv'
<1> USE DEF KeyInv
<1>1. HandlerEnds(o) /\ UNCHANGED <<keyVars, unexpired>>
  BY DEF Show, NotShown
<1>2. CASE \E w \in Workers : pc[w] = "wait" /\ Continue(w)
  BY <1>1, <1>2, ContinueIsTyped, KeyLeftAlone DEF KeyTyped
<1>3. CASE UNCHANGED <<pc, todo>>
  BY <1>1, <1>3, KeyLeftAlone DEF KeyTyped
<1> QED
  BY <1>1, <1>2, <1>3 DEF HandlerEnds

LEMMA CrashKeepsKeyInv ==
  ASSUME KeyInv, AnalyserCrashes
  PROVE  KeyInv'
<1> USE DEF KeyInv
<1>1. /\ UNCHANGED keyVars
      /\ unexpired' = (unexpired \/ \E w \in Workers : pc[w] = "expire")
      /\ pc' = [w \in Workers |-> "idle"]
      /\ todo' = [w \in Workers |-> <<>>]
  BY DEF AnalyserCrashes
<1>2. unexpired' \in BOOLEAN /\ (unexpired => unexpired')
      /\ \A w \in Workers : pc[w] = "expire" => unexpired'
  BY <1>1, Zenon DEF KeyTyped
<1>3. pc' \in [Workers -> Labels] /\ todo' \in [Workers -> Seq(Ops)]
      /\ \A w \in Workers : pc'[w] = "idle"
  BY <1>1 DEF Labels
<1> QED
  BY <1>1, <1>2, <1>3, KeyLeftAlone

LEMMA KeyInvIsKept == KeyInv /\ [Next]_vars => KeyInv'
<1> SUFFICES ASSUME KeyInv, [Next]_vars PROVE KeyInv'
  OBVIOUS
<1>1. CASE \E w \in Workers : Tick(w)
  BY <1>1, CheckKeepsKeyInv, SAddKeepsKeyInv, ExpireKeepsKeyInv, WorkerKeepsKeyInv,
     StepFailsKeepsKeyInv DEF Tick
<1>2. CASE \E o \in Ops : Show(o) \/ NotShown(o)
  BY <1>2, HandlerKeepsKeyInv
<1>3. CASE StopAnalysis \/ StartAnalysis \/ UNCHANGED vars
  <2>1. UNCHANGED <<keyVars, pc, todo, unexpired>>
    BY <1>3 DEF StopAnalysis, StartAnalysis, vars, keyVars
  <2> QED
    BY <2>1, KeyLeftAlone DEF KeyInv, KeyTyped
<1>4. CASE AnalyserCrashes
  BY <1>4, CrashKeepsKeyInv
<1>5. CASE Elapse \/ KeyExpires
  BY <1>5, ElapseKeepsKeyInv, ExpiryKeepsKeyInv
<1> QED
  BY <1>1, <1>2, <1>3, <1>4, <1>5 DEF Next

LEMMA KeyInvHolds == Spec => []KeyInv
<1> QED
  BY KeyInvInitially, KeyInvIsKept, PTL DEF Spec

-----------------------------------------------------------------------------
\* Between two marks of an operation by one worker lies the whole TTL, whatever
\* the other workers mark, unless an EXPIRE was lost or the key expired between
\* the first mark and its own EXPIRE (dedup.go:36-54): these two ways, and no
\* other, lead to an early repeat.
THEOREM RepeatsAreApart == Spec => RepeatsKeepTheirDistance
<1>1. KeyInv /\ [Next]_vars =>
        [\A w \in Workers :
           (pc[w] = "sadd" /\ pc'[w] = "expire")
             => \/ mark[w][Op(w)] = TTL
                \/ Op(w) \in forgotten[w]
                \/ unexpired]_vars
  BY DEF KeyInv, Unmarked
<1> QED
  BY <1>1, KeyInvHolds, PTL DEF Spec, RepeatsKeepTheirDistance

\* An operation nobody marked within the last TTL is in a key that is not about
\* to expire only because the chat's other operations were marked since, or for
\* want of an EXPIRE (dedup.go:51).
THEOREM OnlyOthersHoldBack == Spec => []HeldBackByOthers
<1>1. KeyInv => HeldBackByOthers
  <2> SUFFICES ASSUME KeyInv, left # 0, NEW o \in seen, ~ Recent(o), ~ unexpired
               PROVE  \E p \in Ops \ {o} : Recent(p)
    BY DEF HeldBackByOthers
  <2> USE DEF KeyInv
  <2>1. \E w \in Workers, p \in Ops : mark[w][p] < TTL
    <3>1. CASE left = Forever
      <4>1. PICK w \in Workers : pc[w] = "expire"
        BY <3>1 DEF Justified
      <4>2. Op(w) \in Ops /\ mark[w][Op(w)] = 0
        BY <4>1, OpIsAnOperation DEF JustMarked
      <4> QED
        BY <4>2, DeliveryAssumption
    <3>2. CASE left # Forever
      <4>1. PICK w \in Workers, p \in Ops : left + mark[w][p] <= TTL
        BY <3>2 DEF Justified
      <4>2. left \in 1 .. TTL /\ mark[w][p] \in 0 .. TTL
        BY <3>2 DEF KeyTyped
      <4> QED
        BY <4>1, <4>2, DeliveryAssumption
    <3> QED
      BY <3>1, <3>2
  <2> QED
    BY <2>1 DEF Recent
<1> QED
  BY <1>1, KeyInvHolds, PTL

-----------------------------------------------------------------------------
(* What is stored is shown.  The count of what somebody has in hand is a   *)
(* cardinality, of the workers that call, and the handlers left alone.     *)

Calls == {"send", "wait"}

\* The workers that have stored o and wait to send it or for its handler.
Calling(o) == {w \in Workers : pc[w] \in Calls /\ Op(w) = o}

DebtTyped ==
  /\ alone \in [Ops -> Nat]
  /\ debt \in [Ops -> Int]
  /\ faults \in Nat

Balanced(o) == debt[o] - (Cardinality(Calling(o)) + alone[o]) \in 0 .. faults

DebtInv == KeyInv /\ DebtTyped /\ \A o \in Ops : Balanced(o)

LEMMA WorkersAreCounted ==
  ASSUME NEW S \in SUBSET Workers
  PROVE  /\ IsFiniteSet(S)
         /\ Cardinality(S) \in Nat
         /\ Cardinality(Workers) \in Nat
         /\ Cardinality(S) <= Cardinality(Workers)
BY DeliveryAssumption, FS_Subset, FS_CardinalityType

LEMMA CallersAreCounted ==
  ASSUME NEW o \in Ops
  PROVE  /\ IsFiniteSet(Calling(o)) /\ Cardinality(Calling(o)) \in Nat
         /\ IsFiniteSet(Calling(o)') /\ Cardinality(Calling(o)') \in Nat
<1>1. Calling(o) \in SUBSET Workers /\ Calling(o)' \in SUBSET Workers
  BY DEF Calling
<1> QED
  BY <1>1, WorkersAreCounted

\* A step stays balanced when it stores as much as it puts in hand, or more by
\* no more than it fails.
LEMMA BalanceIsKept ==
  ASSUME DebtTyped, DebtTyped', NEW o \in Ops, Balanced(o),
         NEW h \in Int, NEW d \in Int, NEW f \in Nat,
         Cardinality(Calling(o)') + alone'[o] = Cardinality(Calling(o)) + alone[o] + h,
         debt'[o] = debt[o] + d, faults' = faults + f,
         d - h \in 0 .. f
  PROVE  Balanced(o)'
<1>1. /\ Cardinality(Calling(o)) \in Nat /\ Cardinality(Calling(o)') \in Nat
      /\ alone[o] \in Nat /\ alone'[o] \in Nat
      /\ debt[o] \in Int /\ debt'[o] \in Int /\ faults \in Nat
  BY CallersAreCounted DEF DebtTyped
<1>2. /\ debt[o] - (Cardinality(Calling(o)) + alone[o]) >= 0
      /\ debt[o] - (Cardinality(Calling(o)) + alone[o]) <= faults
  BY DEF Balanced
<1>3. /\ debt'[o] - (Cardinality(Calling(o)') + alone'[o]) >= 0
      /\ debt'[o] - (Cardinality(Calling(o)') + alone'[o]) <= faults'
  BY <1>1, <1>2
<1> QED
  BY <1>1, <1>3 DEF Balanced

\* A step after which the same workers call, for the same operations.
LEMMA CallersStay ==
  ASSUME \A w \in Workers : pc[w] \in Calls <=> pc'[w] \in Calls,
         \A w \in Workers : pc[w] \in Calls => todo'[w] = todo[w]
  PROVE  \A o \in Ops : Calling(o)' = Calling(o)
BY DEF Calling, Op

\* A worker is done with its call.
LEMMA CallerLeaves ==
  ASSUME KeyTyped, NEW w \in Workers, pc[w] \in Calls, Continue(w), NEW o \in Ops
  PROVE  Cardinality(Calling(o)') =
           Cardinality(Calling(o)) - (IF o = Op(w) THEN 1 ELSE 0)
<1>1. /\ pc'[w] \in {"idle", "check"}
      /\ \A v \in Workers \ {w} : pc'[v] = pc[v] /\ todo'[v] = todo[v]
  BY ContinueIsTyped DEF Calls
<1>2. Calling(o)' = Calling(o) \ {w}
  BY <1>1 DEF Calling, Calls, Op
<1>3. w \in Calling(o) <=> o = Op(w)
  BY DEF Calling
<1>4. IsFiniteSet(Calling(o)) /\ Cardinality(Calling(o)) \in Nat
  BY CallersAreCounted
<1>5. CASE o = Op(w)
  BY <1>2, <1>3, <1>4, <1>5, FS_RemoveElement
<1>6. CASE o # Op(w)
  <2>1. Calling(o)' = Calling(o)
    BY <1>2, <1>3, <1>6
  <2> QED
    BY <1>4, <1>6, <2>1
<1> QED
  BY <1>5, <1>6

\* A worker has stored its operation, and means to send it.
LEMMA CallerComes ==
  ASSUME KeyTyped, NEW w \in Workers, Create(w), NEW o \in Ops
  PROVE  Cardinality(Calling(o)') =
           Cardinality(Calling(o)) + (IF o = Op(w) THEN 1 ELSE 0)
<1>1. /\ pc[w] = "create" /\ pc'[w] = "send" /\ UNCHANGED todo
      /\ \A v \in Workers \ {w} : pc'[v] = pc[v]
  BY GoToIsTyped DEF Create, Labels
<1>2. Calling(o)' = IF o = Op(w) THEN Calling(o) \cup {w} ELSE Calling(o)
  BY <1>1 DEF Calling, Calls, Op
<1>3. w \notin Calling(o)
  BY <1>1 DEF Calling, Calls
<1>4. IsFiniteSet(Calling(o)) /\ Cardinality(Calling(o)) \in Nat
  BY CallersAreCounted
<1>5. CASE o = Op(w)
  BY <1>2, <1>3, <1>4, <1>5, FS_AddElement
<1>6. CASE o # Op(w)
  BY <1>2, <1>4, <1>6
<1> QED
  BY <1>5, <1>6

\* A step that stores nothing, shows nothing and ends no call.
LEMMA NothingInHand ==
  ASSUME DebtInv, KeyInv', UNCHANGED <<alone, debt>>,
         NEW f \in Nat, faults' = faults + f,
         \A o \in Ops : Calling(o)' = Calling(o)
  PROVE  DebtInv'
<1>1. DebtTyped'
  BY DEF DebtInv, DebtTyped
<1>2. ASSUME NEW o \in Ops PROVE Balanced(o)'
  <2>1. Cardinality(Calling(o)) \in Nat /\ alone[o] \in Nat /\ debt[o] \in Int
    BY CallersAreCounted DEF DebtInv, DebtTyped
  <2>2. /\ Cardinality(Calling(o)') + alone'[o] = Cardinality(Calling(o)) + alone[o] + 0
        /\ debt'[o] = debt[o] + 0
    BY <2>1
  <2>3. 0 - 0 \in 0 .. f /\ 0 \in Int
    OBVIOUS
  <2>4. DebtTyped /\ Balanced(o)
    BY DEF DebtInv
  <2> QED
    BY <1>1, <2>2, <2>3, <2>4, BalanceIsKept
<1> QED
  BY <1>1, <1>2 DEF DebtInv

LEMMA FaultsAreCounted ==
  ASSUME DebtTyped, NEW n \in Nat, Fault(n) \/ UNCHANGED faults
  PROVE  \E f \in {0, n} : f \in Nat /\ faults' = faults + f
BY DEF DebtTyped, Fault

\* A worker's step that only moves it towards its call.
LEMMA QuietSteps ==
  ASSUME DebtInv, KeyInv', NEW w \in Workers,
         BeginTick(w) \/ Check(w) \/ SAdd(w) \/ Expire(w) \/ ExpireFails(w) \/ Call(w)
  PROVE  DebtInv'
<1> USE DEF DebtInv, KeyInv
<1>1. UNCHANGED <<alone, debt>> /\ (Fault(1) \/ UNCHANGED faults)
  BY DEF BeginTick, Check, SAdd, Expire, ExpireFails, Call
<1>2. \A o \in Ops : Calling(o)' = Calling(o)
  <2>1. CASE BeginTick(w)
    <3>1. /\ pc[w] = "idle" /\ pc'[w] = "check"
          /\ \A v \in Workers \ {w} : pc'[v] = pc[v] /\ todo'[v] = todo[v]
      BY <2>1 DEF BeginTick, GoTo, KeyTyped
    <3> QED
      BY <3>1, CallersStay DEF Calls
  <2>2. CASE Check(w)
    <3>1. /\ pc[w] = "check"
          /\ Continue(w) \/ (GoTo(w, "sadd") /\ UNCHANGED todo)
      BY <2>2 DEF Check
    <3>2. /\ pc'[w] \in {"idle", "check", "sadd"}
          /\ \A v \in Workers \ {w} : pc'[v] = pc[v] /\ todo'[v] = todo[v]
      BY <3>1, ContinueIsTyped, GoToIsTyped DEF Labels
    <3> QED
      BY <3>1, <3>2, CallersStay DEF Calls
  <2>3. CASE SAdd(w) \/ Expire(w) \/ ExpireFails(w)
    <3>1. /\ pc[w] \in {"sadd", "expire"} /\ pc'[w] \in {"expire", "create"}
          /\ UNCHANGED todo /\ \A v \in Workers \ {w} : pc'[v] = pc[v]
      BY <2>3, GoToIsTyped DEF SAdd, Expire, ExpireFails, Labels
    <3> QED
      BY <3>1, CallersStay DEF Calls
  <2>4. CASE Call(w)
    <3>1. /\ pc[w] = "send" /\ pc'[w] = "wait"
          /\ UNCHANGED todo /\ \A v \in Workers \ {w} : pc'[v] = pc[v]
      BY <2>4, GoToIsTyped DEF Call, Labels
    <3> QED
      BY <3>1, CallersStay DEF Calls
  <2> QED
    BY <2>1, <2>2, <2>3, <2>4
<1> QED
  BY <1>1, <1>2, FaultsAreCounted, NothingInHand

LEMMA CreateIsBalanced ==
  ASSUME DebtInv, KeyInv', NEW w \in Workers, Create(w)
  PROVE  DebtInv'
<1> USE DEF DebtInv, KeyInv
<1>1. /\ debt' = [debt EXCEPT ![Op(w)] = @ + 1]
      /\ UNCHANGED <<alone, faults>> /\ pc[w] = "create"
  BY DEF Create, Owe
<1>2. DebtTyped'
  BY <1>1, OpIsAnOperation DEF DebtTyped
<1>3. ASSUME NEW o \in Ops PROVE Balanced(o)'
  <2> DEFINE n == IF o = Op(w) THEN 1 ELSE 0
  <2>1. debt'[o] = debt[o] + n
    BY <1>1 DEF DebtTyped
  <2>2. Cardinality(Calling(o)') = Cardinality(Calling(o)) + n
    BY CallerComes
  <2>3. n \in Int /\ n - n \in 0 .. 0
    OBVIOUS
  <2> HIDE DEF n
  <2>4. /\ Cardinality(Calling(o)) \in Nat /\ alone[o] \in Nat /\ faults \in Nat
    BY CallersAreCounted DEF DebtTyped
  <2>5. /\ Cardinality(Calling(o)') + alone'[o] = Cardinality(Calling(o)) + alone[o] + n
        /\ faults' = faults + 0
    BY <1>1, <2>2, <2>3, <2>4
  <2> QED
    BY <1>2, <2>1, <2>3, <2>5, BalanceIsKept
<1> QED
  BY <1>2, <1>3

\* An INSERT without its reply is one more debt, and one more failure.
LEMMA StepFailsIsBalanced ==
  ASSUME DebtInv, KeyInv', NEW w \in Workers, StepFails(w)
  PROVE  DebtInv'
<1> USE DEF DebtInv, KeyInv
<1>1. /\ pc[w] \in {"check", "sadd", "create"} /\ Continue(w)
      /\ UNCHANGED alone /\ faults' = faults + 1
      /\ UNCHANGED debt \/ Owe(w)
  BY DEF StepFails, Fault
<1>2. \A o \in Ops : Calling(o)' = Calling(o)
  <2>1. /\ pc'[w] \in {"idle", "check"}
        /\ \A v \in Workers \ {w} : pc'[v] = pc[v] /\ todo'[v] = todo[v]
    BY <1>1, ContinueIsTyped
  <2> QED
    BY <1>1, <2>1, CallersStay DEF Calls
<1>3. CASE UNCHANGED debt
  BY <1>1, <1>2, <1>3, NothingInHand
<1>4. CASE Owe(w)
  <2>1. debt' = [debt EXCEPT ![Op(w)] = @ + 1]
    BY <1>4 DEF Owe
  <2>2. DebtTyped'
    BY <1>1, <2>1, OpIsAnOperation DEF DebtTyped
  <2>3. ASSUME NEW o \in Ops PROVE Balanced(o)'
    <3>1. PICK n \in {0, 1} : debt'[o] = debt[o] + n
      <4>1. debt[o] \in Int
        BY DEF DebtTyped
      <4> QED
        BY <2>1, <4>1 DEF DebtTyped
    <3>2. Cardinality(Calling(o)) \in Nat /\ alone[o] \in Nat
      BY CallersAreCounted DEF DebtTyped
    <3>3. Cardinality(Calling(o)') + alone'[o] = Cardinality(Calling(o)) + alone[o] + 0
      BY <1>1, <1>2, <3>2
    <3>4. n \in Int /\ n - 0 \in 0 .. 1
      OBVIOUS
    <3> QED
      BY <1>1, <2>2, <3>1, <3>3, <3>4, BalanceIsKept
  <2> QED
    BY <2>2, <2>3
<1> QED
  BY <1>1, <1>3, <1>4

\* The end of a call: refused, given up to its handler, or answered.
LEMMA EndOfCallIsBalanced ==
  ASSUME DebtInv, KeyInv', NEW w \in Workers, pc[w] \in Calls, Continue(w),
         NEW a \in {0, 1}, NEW d \in {0, 1}, NEW f \in {0, 1},
         alone' = [alone EXCEPT ![Op(w)] = @ + a],
         debt' = [debt EXCEPT ![Op(w)] = @ - d],
         faults' = faults + f, (1 - a) - d \in 0 .. f
  PROVE  DebtInv'
<1> USE DEF DebtInv, KeyInv
<1>1. Op(w) \in Ops
  BY OpIsAnOperation DEF Calls
<1>2. DebtTyped'
  BY <1>1 DEF DebtTyped
<1>3. ASSUME NEW o \in Ops PROVE Balanced(o)'
  <2>1. /\ Cardinality(Calling(o)) \in Nat /\ alone[o] \in Nat /\ debt[o] \in Int
    BY CallersAreCounted DEF DebtTyped
  <2>2. Cardinality(Calling(o)') =
          Cardinality(Calling(o)) - (IF o = Op(w) THEN 1 ELSE 0)
    BY CallerLeaves
  <2>3. CASE o = Op(w)
    <3>1. /\ alone'[o] = alone[o] + a /\ debt'[o] = debt[o] + (0 - d)
          /\ Cardinality(Calling(o)') = Cardinality(Calling(o)) - 1
      BY <2>1, <2>2, <2>3 DEF DebtTyped
    <3>2. Cardinality(Calling(o)') + alone'[o]
            = Cardinality(Calling(o)) + alone[o] + (a - 1)
      BY <2>1, <3>1
    <3>3. (0 - d) - (a - 1) \in 0 .. f
      OBVIOUS
    <3>4. 0 - d \in Int /\ a - 1 \in Int /\ f \in Nat
      OBVIOUS
    <3> QED
      BY <1>2, <3>1, <3>2, <3>3, <3>4, BalanceIsKept
  <2>4. CASE o # Op(w)
    <3>1. /\ alone'[o] = alone[o] /\ debt'[o] = debt[o] + 0
          /\ Cardinality(Calling(o)') = Cardinality(Calling(o))
      BY <2>1, <2>2, <2>4 DEF DebtTyped
    <3>2. Cardinality(Calling(o)') + alone'[o]
            = Cardinality(Calling(o)) + alone[o] + 0
      BY <2>1, <3>1
    <3>3. 0 - 0 \in 0 .. f /\ f \in Nat
      OBVIOUS
    <3> QED
      BY <1>2, <3>1, <3>2, <3>3, BalanceIsKept
  <2> QED
    BY <2>3, <2>4
<1> QED
  BY <1>2, <1>3

\* A handler left alone ends.
LEMMA EndOfOrphanIsBalanced ==
  ASSUME DebtInv, KeyInv', NEW o \in Ops, alone[o] > 0, UNCHANGED <<pc, todo>>,
         NEW d \in {0, 1}, NEW f \in {0, 1},
         alone' = [alone EXCEPT ![o] = @ - 1],
         debt' = [debt EXCEPT ![o] = @ - d],
         faults' = faults + f, 1 - d \in 0 .. f
  PROVE  DebtInv'
<1> USE DEF DebtInv, KeyInv
<1>1. alone[o] \in Nat /\ alone[o] - 1 \in Nat
  BY DEF DebtTyped
<1>2. DebtTyped'
  BY <1>1 DEF DebtTyped
<1>3. \A p \in Ops : Calling(p)' = Calling(p)
  BY CallersStay
<1>4. ASSUME NEW p \in Ops PROVE Balanced(p)'
  <2>1. Cardinality(Calling(p)) \in Nat /\ alone[p] \in Nat /\ debt[p] \in Int
    BY CallersAreCounted DEF DebtTyped
  <2>2. CASE p = o
    <3>1. alone'[p] = alone[p] - 1 /\ debt'[p] = debt[p] + (0 - d)
      BY <2>1, <2>2 DEF DebtTyped
    <3>2. Cardinality(Calling(p)') + alone'[p] = Cardinality(Calling(p)) + alone[p] + (-1)
      BY <1>3, <2>1, <3>1
    <3>3. (0 - d) - (-1) \in 0 .. f /\ 0 - d \in Int /\ -1 \in Int /\ f \in Nat
      OBVIOUS
    <3> QED
      BY <1>2, <3>1, <3>2, <3>3, BalanceIsKept
  <2>3. CASE p # o
    <3>1. alone'[p] = alone[p] /\ debt'[p] = debt[p] + 0
      BY <2>1, <2>3 DEF DebtTyped
    <3>2. Cardinality(Calling(p)') + alone'[p] = Cardinality(Calling(p)) + alone[p] + 0
      BY <1>3, <2>1, <3>1
    <3>3. 0 - 0 \in 0 .. f /\ f \in Nat
      OBVIOUS
    <3> QED
      BY <1>2, <3>1, <3>2, <3>3, BalanceIsKept
  <2> QED
    BY <2>2, <2>3
<1> QED
  BY <1>2, <1>4

LEMMA CallsAreBalanced ==
  ASSUME DebtInv, KeyInv', NEW w \in Workers, CallFails(w) \/ GiveUp(w)
  PROVE  DebtInv'
<1> USE DEF DebtInv
<1>1. /\ pc[w] \in Calls /\ Continue(w) /\ UNCHANGED debt /\ faults' = faults + 1
      /\ UNCHANGED alone \/ alone' = [alone EXCEPT ![Op(w)] = @ + 1]
  BY DEF CallFails, GiveUp, Abandon, Fault, Calls
<1>2. Op(w) \in Ops
  BY <1>1, OpIsAnOperation DEF Calls, KeyInv
<1>3. debt' = [debt EXCEPT ![Op(w)] = @ - 0]
  BY <1>1, <1>2 DEF DebtTyped
<1>4. CASE UNCHANGED alone
  <2>1. alone' = [alone EXCEPT ![Op(w)] = @ + 0]
    BY <1>2, <1>4 DEF DebtTyped
  <2>2. (1 - 0) - 0 \in 0 .. 1
    OBVIOUS
  <2> QED
    BY <1>1, <1>3, <2>1, <2>2, EndOfCallIsBalanced
<1>5. CASE alone' = [alone EXCEPT ![Op(w)] = @ + 1]
  <2>1. (1 - 1) - 0 \in 0 .. 1
    OBVIOUS
  <2> QED
    BY <1>1, <1>3, <1>5, <2>1, EndOfCallIsBalanced
<1> QED
  BY <1>1, <1>4, <1>5

LEMMA HandlersAreBalanced ==
  ASSUME DebtInv, KeyInv', NEW o \in Ops, Show(o) \/ NotShown(o)
  PROVE  DebtInv'
<1> USE DEF DebtInv
<1>1. PICK d \in {0, 1}, f \in {0, 1} :
        /\ debt' = [debt EXCEPT ![o] = @ - d]
        /\ faults' = faults + f
        /\ 1 - d \in 0 .. f
  <2>1. CASE Show(o)
    <3>1. debt' = [debt EXCEPT ![o] = @ - 1] /\ faults' = faults + 0 /\ 1 - 1 \in 0 .. 0
      BY <2>1 DEF Show, DebtTyped
    <3> QED
      BY <3>1
  <2>2. CASE NotShown(o)
    <3>1. debt' = [debt EXCEPT ![o] = @ - 0] /\ faults' = faults + 1 /\ 1 - 0 \in 0 .. 1
      BY <2>2 DEF NotShown, Fault, DebtTyped
    <3> QED
      BY <3>1
  <2> QED
    BY <2>1, <2>2
<1>2. HandlerEnds(o)
  BY DEF Show, NotShown
<1>3. CASE \E w \in Workers : pc[w] = "wait" /\ Op(w) = o /\ Continue(w) /\ UNCHANGED alone
  <2>1. PICK w \in Workers : pc[w] = "wait" /\ Op(w) = o /\ Continue(w) /\ UNCHANGED alone
    BY <1>3
  <2>2. alone' = [alone EXCEPT ![Op(w)] = @ + 0]
    BY <2>1 DEF DebtTyped
  <2>3. (1 - 0) - d \in 0 .. f
    BY <1>1
  <2> QED
    BY <1>1, <2>1, <2>2, <2>3, EndOfCallIsBalanced DEF Calls
<1>4. CASE alone[o] > 0 /\ alone' = [alone EXCEPT ![o] = @ - 1] /\ UNCHANGED <<pc, todo>>
  BY <1>1, <1>4, EndOfOrphanIsBalanced
<1> QED
  BY <1>2, <1>3, <1>4 DEF HandlerEnds

\* The calls of a crashed analyser are left to their handlers; what its workers
\* had stored and not sent is lost, one of each worker at most.
LEMMA CrashIsBalanced ==
  ASSUME DebtInv, KeyInv', AnalyserCrashes
  PROVE  DebtInv'
<1> USE DEF DebtInv
<1> DEFINE Waiting(o) == {w \in Workers : pc[w] = "wait" /\ Op(w) = o}
           Sending(o) == {w \in Workers : pc[w] = "send" /\ Op(w) = o}
           n == Cardinality(Workers)
<1>1. /\ alone' = [o \in Ops |-> alone[o] + Cardinality(Waiting(o))]
      /\ pc' = [w \in Workers |-> "idle"] /\ UNCHANGED debt /\ faults' = faults + n
  BY DEF AnalyserCrashes, Fault
<1>2. ASSUME NEW o \in Ops
      PROVE  /\ Cardinality(Waiting(o)) \in Nat /\ Cardinality(Sending(o)) \in 0 .. n
             /\ n \in Nat
             /\ Cardinality(Calling(o)) = Cardinality(Waiting(o)) + Cardinality(Sending(o))
             /\ Cardinality(Calling(o)') = 0
  <2>1. Waiting(o) \in SUBSET Workers /\ Sending(o) \in SUBSET Workers
    OBVIOUS
  <2>2. Calling(o) = Waiting(o) \cup Sending(o) /\ Waiting(o) \cap Sending(o) = {}
    BY DEF Calling, Calls
  <2>3. Calling(o)' = {}
    BY <1>1 DEF Calling, Calls
  <2> HIDE DEF Waiting, Sending, n
  <2>4. /\ IsFiniteSet(Waiting(o)) /\ Cardinality(Waiting(o)) \in Nat
        /\ IsFiniteSet(Sending(o)) /\ Cardinality(Sending(o)) \in Nat
        /\ n \in Nat /\ Cardinality(Sending(o)) <= n
    BY <2>1, WorkersAreCounted DEF n
  <2>5. Cardinality(Waiting(o) \cap Sending(o)) = 0
    BY <2>2, FS_EmptySet
  <2> QED
    BY <2>2, <2>3, <2>4, <2>5, FS_Union, FS_EmptySet
<1> HIDE DEF Waiting, Sending, n
<1>3. n \in Nat
  BY WorkersAreCounted DEF n
<1>4. DebtTyped'
  BY <1>1, <1>2, <1>3 DEF DebtTyped
<1>5. ASSUME NEW o \in Ops PROVE Balanced(o)'
  <2> DEFINE s == Cardinality(Sending(o))
  <2>1. /\ Cardinality(Calling(o)) \in Nat /\ alone[o] \in Nat /\ debt[o] \in Int
        /\ s \in 0 .. n /\ Cardinality(Waiting(o)) \in Nat
    BY <1>2, CallersAreCounted DEF DebtTyped
  <2>2. /\ Cardinality(Calling(o)') = 0
        /\ alone'[o] = alone[o] + Cardinality(Waiting(o))
        /\ Cardinality(Calling(o)) = Cardinality(Waiting(o)) + s
    BY <1>1, <1>2
  <2> HIDE DEF s
  <2>3. /\ Cardinality(Calling(o)') + alone'[o]
              = Cardinality(Calling(o)) + alone[o] + (0 - s)
        /\ debt'[o] = debt[o] + 0
    BY <1>1, <2>1, <2>2
  <2>4. 0 - (0 - s) \in 0 .. n /\ 0 - s \in Int /\ 0 \in Int
    BY <1>3, <2>1
  <2>5. DebtTyped /\ Balanced(o) /\ faults' = faults + n
    BY <1>1
  <2> QED
    BY <1>3, <1>4, <2>3, <2>4, <2>5, BalanceIsKept
<1> QED
  BY <1>4, <1>5

LEMMA DebtInvIsKept == DebtInv /\ KeyInv' /\ [Next]_vars => DebtInv'
<1> SUFFICES ASSUME DebtInv, KeyInv', [Next]_vars PROVE DebtInv'
  OBVIOUS
<1>1. CASE \E w \in Workers : Tick(w)
  BY <1>1, QuietSteps, CreateIsBalanced, StepFailsIsBalanced, CallsAreBalanced DEF Tick
<1>2. CASE \E o \in Ops : Show(o) \/ NotShown(o)
  BY <1>2, HandlersAreBalanced
<1>3. CASE StopAnalysis \/ StartAnalysis \/ Elapse \/ KeyExpires \/ UNCHANGED vars
  <2>1. UNCHANGED <<pc, todo, alone, debt, faults>>
    BY <1>3 DEF StopAnalysis, StartAnalysis, Elapse, KeyExpires, vars
  <2>2. \A o \in Ops : Calling(o)' = Calling(o)
    BY <2>1, CallersStay
  <2>3. faults' = faults + 0
    BY <2>1 DEF DebtInv, DebtTyped
  <2> QED
    BY <2>1, <2>2, <2>3, NothingInHand
<1>4. CASE AnalyserCrashes
  BY <1>4, CrashIsBalanced
<1> QED
  BY <1>1, <1>2, <1>3, <1>4 DEF Next

LEMMA DebtInvInitially == Init => DebtInv
<1> SUFFICES ASSUME Init PROVE DebtInv
  OBVIOUS
<1>1. DebtTyped
  BY DEF Init, DebtTyped
<1>2. ASSUME NEW o \in Ops PROVE Balanced(o)
  <2>1. Calling(o) = {}
    BY DEF Init, Calling, Calls
  <2>2. Cardinality(Calling(o)) = 0
    BY <2>1, FS_EmptySet
  <2> QED
    BY <2>2 DEF Init, Balanced
<1> QED
  BY <1>1, <1>2, KeyInvInitially DEF DebtInv

\* Nothing is shown that was not stored, and nothing twice, and no more of what
\* was stored is lost than calls, handlers and workers failed (server.go:48-56,
\* service.go:269-275).
THEOREM StoredAreShown == Spec => []StoredIsShownOnce
<1>1. DebtInv => StoredIsShownOnce
  BY DEF DebtInv, Balanced, Calling, Calls, StoredIsShownOnce, InHand
<1> QED
  BY <1>1, DebtInvInitially, KeyInvHolds, DebtInvIsKept, PTL DEF Spec

-----------------------------------------------------------------------------
(* After the stop button.  What may still arrive is a set of pairs: each   *)
(* worker with the places in its list, each operation with its handlers.   *)

Pairs(S, f) == UNION {{x} \X f[x] : x \in S}

LEMMA PairsAreFinite ==
  ASSUME NEW S, IsFiniteSet(S), NEW f, \A x \in S : IsFiniteSet(f[x])
  PROVE  IsFiniteSet(Pairs(S, f))
<1> DEFINE T == {{x} \X f[x] : x \in S}
           g == [x \in S |-> {x} \X f[x]]
<1>1. g \in Surjection(S, T)
  BY DEF Surjection
<1>2. IsFiniteSet(T)
  <2> HIDE DEF g, T
  <2> QED
    BY <1>1, FS_Surjection
<1>3. ASSUME NEW p \in T PROVE IsFiniteSet(p)
  <2>1. PICK x \in S : p = {x} \X f[x]
    OBVIOUS
  <2>2. IsFiniteSet({x}) /\ IsFiniteSet(f[x])
    BY FS_Singleton
  <2> QED
    BY <2>1, <2>2, FS_Product
<1> HIDE DEF T
<1>4. IsFiniteSet(UNION T)
  BY <1>2, <1>3, FS_UNION
<1> QED
  BY <1>4 DEF T, Pairs

\* So what the ticks have left, and the calls left alone, can be counted.
LEMMA TicksAreCounted ==
  ASSUME NEW f \in [Workers -> Seq(Ops)],
         NEW T, T = UNION {{w} \X DOMAIN f[w] : w \in Workers}
  PROVE  IsFiniteSet(T) /\ Cardinality(T) \in Nat
<1> DEFINE places == [w \in Workers |-> DOMAIN f[w]]
<1>1. ASSUME NEW w \in Workers PROVE IsFiniteSet(places[w])
  <2>1. Len(f[w]) \in Nat /\ places[w] = 1 .. Len(f[w])
    OBVIOUS
  <2> QED
    BY <2>1, FS_Interval
<1>2. T = Pairs(Workers, places)
  BY DEF Pairs
<1> HIDE DEF places
<1>3. IsFiniteSet(Workers)
  BY DeliveryAssumption
<1>4. IsFiniteSet(Pairs(Workers, places))
  BY <1>1, <1>3, PairsAreFinite
<1> QED
  BY <1>2, <1>4, FS_CardinalityType

LEMMA HandlersAreCounted ==
  ASSUME NEW g \in [Ops -> Nat],
         NEW T, T = UNION {{o} \X (1 .. g[o]) : o \in Ops}
  PROVE  IsFiniteSet(T) /\ Cardinality(T) \in Nat
<1> DEFINE handlers == [o \in Ops |-> 1 .. g[o]]
<1>1. ASSUME NEW o \in Ops PROVE IsFiniteSet(handlers[o])
  BY FS_Interval
<1>2. T = Pairs(Ops, handlers)
  BY DEF Pairs
<1> HIDE DEF handlers
<1>3. IsFiniteSet(Ops)
  BY DeliveryAssumption
<1>4. IsFiniteSet(Pairs(Ops, handlers))
  BY <1>1, <1>3, PairsAreFinite
<1> QED
  BY <1>2, <1>4, FS_CardinalityType

LEMMA UnderWayIsCounted ==
  ASSUME todo \in [Workers -> Seq(Ops)], alone \in [Ops -> Nat]
  PROVE  /\ IsFiniteSet(InTicks) /\ Cardinality(InTicks) \in Nat
         /\ IsFiniteSet(WithHandlers) /\ Cardinality(WithHandlers) \in Nat
         /\ UnderWay \in Nat
<1>1. IsFiniteSet(InTicks) /\ Cardinality(InTicks) \in Nat
  <2>1. InTicks = UNION {{w} \X DOMAIN todo[w] : w \in Workers}
    BY DEF InTicks
  <2> QED
    BY <2>1, TicksAreCounted
<1>2. IsFiniteSet(WithHandlers) /\ Cardinality(WithHandlers) \in Nat
  <2>1. WithHandlers = UNION {{o} \X (1 .. alone[o]) : o \in Ops}
    BY DEF WithHandlers
  <2> QED
    BY <2>1, HandlersAreCounted
<1> QED
  BY <1>1, <1>2 DEF UnderWay

\* The same after a step.
LEMMA UnderWayIsCountedNext ==
  ASSUME todo' \in [Workers -> Seq(Ops)], alone' \in [Ops -> Nat]
  PROVE  UnderWay' \in Nat
<1>1. IsFiniteSet(InTicks') /\ Cardinality(InTicks') \in Nat
  <2>1. InTicks' = UNION {{w} \X DOMAIN todo'[w] : w \in Workers}
    BY DEF InTicks
  <2> QED
    BY <2>1, TicksAreCounted
<1>2. IsFiniteSet(WithHandlers') /\ Cardinality(WithHandlers') \in Nat
  <2>1. WithHandlers' = UNION {{o} \X (1 .. alone'[o]) : o \in Ops}
    BY DEF WithHandlers
  <2> QED
    BY <2>1, HandlersAreCounted
<1> QED
  BY <1>1, <1>2 DEF UnderWay

\* The types, and how many more signals the user may get.
UserInv ==
  /\ DebtInv
  /\ active \in BOOLEAN /\ underWay \in Nat /\ after \in Nat
  /\ faults <= MaxFaults
  /\ \A w \in Workers : pc[w] = "idle" => todo[w] = <<>>
  /\ ~ active => after + UnderWay <= underWay

\* A worker is done with one of its operations.
LEMMA TickGoesOn ==
  ASSUME KeyTyped, NEW w \in Workers, pc[w] # "idle", Continue(w),
         IsFiniteSet(InTicks), Cardinality(InTicks) \in Nat
  PROVE  /\ Cardinality(InTicks') = Cardinality(InTicks) - 1
         /\ pc'[w] = "idle" => todo'[w] = <<>>
<1>1. /\ todo[w] \in Seq(Ops) /\ todo[w] # <<>>
      /\ todo' = [todo EXCEPT ![w] = Tail(todo[w])]
      /\ todo \in [Workers -> Seq(Ops)]
  BY DEF KeyTyped, Continue
<1>2. /\ Len(todo[w]) \in Nat \ {0} /\ DOMAIN todo[w] = 1 .. Len(todo[w])
      /\ DOMAIN Tail(todo[w]) = 1 .. (Len(todo[w]) - 1)
  <2>1. Len(todo[w]) \in Nat \ {0} /\ DOMAIN todo[w] = 1 .. Len(todo[w])
    BY <1>1, EmptySeq, LenProperties
  <2>2. Tail(todo[w]) \in Seq(Ops) /\ Len(Tail(todo[w])) = Len(todo[w]) - 1
    BY <1>1, HeadTailProperties
  <2> QED
    BY <2>1, <2>2, LenProperties
<1>3. /\ todo'[w] = Tail(todo[w])
      /\ \A v \in Workers \ {w} : todo'[v] = todo[v]
  BY <1>1
<1> DEFINE last == <<w, Len(todo[w])>>
<1>4. last \in InTicks
  BY <1>2 DEF InTicks
<1>5. InTicks' = InTicks \ {last}
  <2>1. ASSUME NEW x \in InTicks' PROVE x \in InTicks \ {last}
    <3>1. PICK v \in Workers : x \in {v} \X DOMAIN todo'[v]
      BY DEF InTicks
    <3>2. PICK i \in DOMAIN todo'[v] : x = <<v, i>>
      BY <3>1
    <3>3. i \in DOMAIN todo[v] /\ <<v, i>> # last
      <4>1. CASE v = w
        <5>1. i \in 1 .. (Len(todo[w]) - 1)
          BY <1>2, <1>3, <3>2, <4>1
        <5> QED
          BY <1>2, <4>1, <5>1
      <4>2. CASE v # w
        BY <1>3, <3>2, <4>2
      <4> QED
        BY <4>1, <4>2
    <3> QED
      BY <3>2, <3>3 DEF InTicks
  <2>2. ASSUME NEW x \in InTicks \ {last} PROVE x \in InTicks'
    <3>1. PICK v \in Workers : x \in {v} \X DOMAIN todo[v]
      BY DEF InTicks
    <3>2. PICK i \in DOMAIN todo[v] : x = <<v, i>>
      BY <3>1
    <3>3. i \in DOMAIN todo'[v]
      <4>1. CASE v = w
        <5>1. i \in 1 .. Len(todo[w]) /\ i # Len(todo[w])
          BY <1>2, <2>2, <3>2, <4>1
        <5>2. i \in 1 .. (Len(todo[w]) - 1)
          BY <1>2, <5>1
        <5> QED
          BY <1>2, <1>3, <4>1, <5>2
      <4>2. CASE v # w
        BY <1>3, <3>2, <4>2
      <4> QED
        BY <4>1, <4>2
    <3> QED
      BY <3>2, <3>3 DEF InTicks
  <2> QED
    BY <2>1, <2>2
<1> HIDE DEF last
<1>6. Cardinality(InTicks') = Cardinality(InTicks) - 1
  BY <1>4, <1>5, FS_RemoveElement
<1>7. pc'[w] = "idle" => todo'[w] = <<>>
  <2>1. pc'[w] = "idle" => Len(todo[w]) = 1
    BY DEF Continue, GoTo, KeyTyped
  <2>2. Len(todo[w]) = 1 => Len(Tail(todo[w])) = 0 /\ Tail(todo[w]) \in Seq(Ops)
    BY <1>1, HeadTailProperties
  <2> QED
    BY <1>3, <2>1, <2>2, EmptySeq
<1> QED
  BY <1>6, <1>7

\* A handler is left alone, or one that was ends.
LEMMA HandlersChange ==
  ASSUME alone \in [Ops -> Nat], NEW o \in Ops,
         IsFiniteSet(WithHandlers), Cardinality(WithHandlers) \in Nat
  PROVE  /\ alone' = [alone EXCEPT ![o] = @ + 1]
              => Cardinality(WithHandlers') = Cardinality(WithHandlers) + 1
         /\ alone[o] > 0 /\ alone' = [alone EXCEPT ![o] = @ - 1]
              => Cardinality(WithHandlers') = Cardinality(WithHandlers) - 1
<1>1. ASSUME alone' = [alone EXCEPT ![o] = @ + 1]
      PROVE  Cardinality(WithHandlers') = Cardinality(WithHandlers) + 1
  <2> DEFINE new == <<o, alone[o] + 1>>
  <2>1. new \notin WithHandlers
    BY DEF WithHandlers
  <2>2. WithHandlers' = WithHandlers \cup {new}
    BY <1>1 DEF WithHandlers
  <2> HIDE DEF new
  <2> QED
    BY <2>1, <2>2, FS_AddElement
<1>2. ASSUME alone[o] > 0, alone' = [alone EXCEPT ![o] = @ - 1]
      PROVE  Cardinality(WithHandlers') = Cardinality(WithHandlers) - 1
  <2> DEFINE last == <<o, alone[o]>>
  <2>1. last \in WithHandlers
    BY <1>2 DEF WithHandlers
  <2>2. WithHandlers' = WithHandlers \ {last}
    BY <1>2 DEF WithHandlers
  <2> HIDE DEF last
  <2> QED
    BY <2>1, <2>2, FS_RemoveElement
<1> QED
  BY <1>1, <1>2

\* What is under way once a step has left InTicks or WithHandlers alone.
LEMMA TicksStay ==
  ASSUME UNCHANGED todo
  PROVE  InTicks' = InTicks
BY DEF InTicks

LEMMA HandlersStay ==
  ASSUME UNCHANGED alone
  PROVE  WithHandlers' = WithHandlers
BY DEF WithHandlers

\* A crash leaves the calls to their handlers, and of each worker at most one.
LEMMA CrashAddsNothing ==
  ASSUME UserInv, AnalyserCrashes
  PROVE  UnderWay' <= UnderWay
<1> USE DEF UserInv, DebtInv, KeyInv
<1> DEFINE Waiting(o) == {w \in Workers : pc[w] = "wait" /\ Op(w) = o}
<1>1. /\ alone' = [o \in Ops |-> alone[o] + Cardinality(Waiting(o))]
      /\ todo' = [w \in Workers |-> <<>>]
  BY DEF AnalyserCrashes
<1>2. InTicks' = {}
  BY <1>1 DEF InTicks
<1>3. /\ IsFiniteSet(InTicks) /\ Cardinality(InTicks) \in Nat
      /\ IsFiniteSet(WithHandlers) /\ Cardinality(WithHandlers) \in Nat
  BY UnderWayIsCounted DEF KeyTyped, DebtTyped
<1>4. ASSUME NEW o \in Ops
      PROVE  /\ Cardinality(Waiting(o)) \in Nat
             /\ ExistsBijection(1 .. Cardinality(Waiting(o)), Waiting(o))
  <2>1. IsFiniteSet(Waiting(o))
    BY DeliveryAssumption, FS_Subset
  <2> HIDE DEF Waiting
  <2> QED
    BY <2>1, FS_CardinalityType
<1> DEFINE New == WithHandlers' \ WithHandlers
           who == [o \in Ops |->
                     CHOOSE b : b \in Bijection(1 .. Cardinality(Waiting(o)), Waiting(o))]
           place(x) == <<who[x[1]][x[2] - alone[x[1]]], 1>>
           move == [x \in New |-> place(x)]
<1>5. ASSUME NEW o \in Ops
      PROVE  who[o] \in Bijection(1 .. Cardinality(Waiting(o)), Waiting(o))
  <2> HIDE DEF Waiting
  <2> QED
    BY <1>4 DEF ExistsBijection
<1>6. ASSUME NEW x \in New
      PROVE  \E o \in Ops : \E k \in 1 .. Cardinality(Waiting(o)) :
               /\ x = <<o, alone[o] + k>>
               /\ place(x) = <<who[o][k], 1>> /\ who[o][k] \in Waiting(o)
  <2>1. PICK o \in Ops : x \in {o} \X (1 .. alone'[o])
    BY DEF WithHandlers
  <2>2. PICK i \in 1 .. alone'[o] : x = <<o, i>>
    BY <2>1
  <2> DEFINE k == i - alone[o]
  <2>3. alone[o] \in Nat /\ ~ (i <= alone[o])
    BY <1>6, <2>2 DEF WithHandlers, DebtTyped
  <2>4. alone'[o] = alone[o] + Cardinality(Waiting(o))
    BY <1>1
  <2>5. k \in 1 .. Cardinality(Waiting(o)) /\ i = alone[o] + k
    BY <1>4, <2>2, <2>3, <2>4
  <2>6. who[o][k] \in Waiting(o)
    <3> HIDE DEF who, Waiting, k
    <3> QED
      BY <1>5, <2>5 DEF Bijection, Injection
  <2>7. place(x) = <<who[o][k], 1>>
    <3> HIDE DEF who, Waiting
    <3> QED
      BY <2>2
  <2> HIDE DEF who, Waiting, place, k
  <2> QED
    BY <2>2, <2>5, <2>6, <2>7
<1>7. ASSUME NEW o \in Ops, NEW w \in Waiting(o)
      PROVE  <<w, 1>> \in InTicks /\ Op(w) = o
  <2>1. todo[w] \in Seq(Ops) /\ todo[w] # <<>>
    BY DEF KeyTyped
  <2>2. 1 \in DOMAIN todo[w]
    BY <2>1, EmptySeq, LenProperties
  <2> QED
    BY <2>2 DEF InTicks
<1>8. move \in Injection(New, InTicks)
  <2> HIDE DEF New, who, Waiting, place
  <2>1. ASSUME NEW x \in New PROVE place(x) \in InTicks
    BY <1>6, <1>7
  <2>2. ASSUME NEW x \in New, NEW y \in New, place(x) = place(y) PROVE x = y
    <3> DEFINE Held(z, o, k) == /\ z = <<o, alone[o] + k>>
                                /\ place(z) = <<who[o][k], 1>>
                                /\ who[o][k] \in Waiting(o)
    <3>1. PICK o \in Ops : \E k \in 1 .. Cardinality(Waiting(o)) : Held(x, o, k)
      BY <1>6
    <3>2. PICK k \in 1 .. Cardinality(Waiting(o)) : Held(x, o, k)
      BY <3>1
    <3>3. PICK p \in Ops : \E l \in 1 .. Cardinality(Waiting(p)) : Held(y, p, l)
      BY <1>6
    <3>4. PICK l \in 1 .. Cardinality(Waiting(p)) : Held(y, p, l)
      BY <3>3
    <3>5. who[o][k] = who[p][l]
      BY <2>2, <3>2, <3>4
    <3>6. o = p
      BY <1>7, <3>2, <3>4, <3>5
    <3>7. k = l
      <4>1. who[o] \in Injection(1 .. Cardinality(Waiting(o)), Waiting(o))
        BY <1>5 DEF Bijection
      <4>2. \A a, b \in 1 .. Cardinality(Waiting(o)) : who[o][a] = who[o][b] => a = b
        BY <4>1 DEF Injection, IsInjective
      <4> QED
        BY <3>5, <3>6, <4>2
    <3> QED
      BY <3>2, <3>4, <3>6, <3>7
  <2>3. move \in [New -> InTicks]
    BY <2>1
  <2>4. \A x, y \in New : move[x] = move[y] => x = y
    BY <2>2
  <2> HIDE DEF move
  <2> QED
    BY <2>3, <2>4 DEF Injection, IsInjective
<1> HIDE DEF who, Waiting, place, move
<1>9. IsFiniteSet(New) /\ Cardinality(New) \in Nat /\ Cardinality(New) <= Cardinality(InTicks)
  <2> HIDE DEF New
  <2> QED
    BY <1>3, <1>8, FS_Injection, FS_CardinalityType
<1>10. WithHandlers \subseteq WithHandlers'
  <2>1. \A o \in Ops : alone[o] \in Nat /\ alone'[o] \in Nat /\ alone[o] <= alone'[o]
    BY <1>1, <1>4 DEF DebtTyped
  <2> QED
    BY <2>1 DEF WithHandlers
<1>11. WithHandlers' = WithHandlers \cup New /\ WithHandlers \cap New = {}
  BY <1>10
<1> HIDE DEF New
<1>12. Cardinality(WithHandlers') = Cardinality(WithHandlers) + Cardinality(New)
  <2>1. Cardinality(WithHandlers \cap New) = 0
    BY <1>11, FS_EmptySet
  <2> QED
    <3>1. Cardinality(WithHandlers \cup New) =
            Cardinality(WithHandlers) + Cardinality(New) - Cardinality(WithHandlers \cap New)
      BY <1>3, <1>9, FS_Union
    <3> QED
      BY <1>3, <1>9, <1>11, <2>1, <3>1
<1>13. Cardinality(InTicks') = 0
  BY <1>2, FS_EmptySet
<1> QED
  BY <1>3, <1>9, <1>12, <1>13 DEF UnderWay

\* The sums below, on numbers.
LEMMA SumIsKept ==
  ASSUME NEW a \in Nat, NEW u \in Nat, NEW v \in Nat, v <= u
  PROVE  a + v <= a + u
OBVIOUS

LEMMA SumShrinks ==
  ASSUME NEW a \in Nat, NEW b \in {a, a + 1}, NEW u \in Nat, NEW v \in Nat, v = u - 1
  PROVE  b \in Nat /\ b + v <= a + u
OBVIOUS

LEMMA SumsCompare ==
  ASSUME NEW a \in Nat, NEW b \in Nat, NEW c \in Nat, NEW u \in Nat, NEW v \in Nat,
         b + v <= a + u, a + u <= c
  PROVE  b + v <= c
OBVIOUS

\* What is under way, and what was shown, after a step that is neither a button
\* nor the beginning of a tick.
LEMMA NothingNewUnderWay ==
  ASSUME UserInv, KeyInv', UNCHANGED <<active, underWay>>,
         after' \in Nat, UnderWay' \in Nat,
         after' + UnderWay' <= after + UnderWay \/ active'
  PROVE  ~ active' => after' + UnderWay' <= underWay'
<1>1. /\ active' = active /\ underWay' = underWay
      /\ after \in Nat /\ underWay \in Nat
      /\ ~ active => after + UnderWay <= underWay
  BY DEF UserInv
<1>2. UnderWay \in Nat
  BY UnderWayIsCounted DEF UserInv, DebtInv, KeyInv, KeyTyped, DebtTyped
<1>3. ASSUME ~ active' PROVE after' + UnderWay' <= underWay'
  <2>1. after + UnderWay <= underWay /\ after' + UnderWay' <= after + UnderWay
    BY <1>1, <1>3
  <2>2. after' + UnderWay' <= underWay
    BY ONLY <1>1, <1>2, <2>1, SumsCompare, after' \in Nat, UnderWay' \in Nat
  <2> QED
    BY ONLY <1>1, <2>2
<1> QED
  BY <1>3

\* The steps of a tick: some end an operation, none adds one.
LEMMA TicksAddNothing ==
  ASSUME UserInv, NEW w \in Workers, Tick(w)
  PROVE  /\ UNCHANGED userVars
         /\ UnderWay' <= UnderWay \/ active
         /\ \A v \in Workers : pc'[v] = "idle" => todo'[v] = <<>>
<1> USE DEF UserInv, DebtInv, KeyInv
<1>1. /\ IsFiniteSet(InTicks) /\ Cardinality(InTicks) \in Nat
      /\ IsFiniteSet(WithHandlers) /\ Cardinality(WithHandlers) \in Nat
      /\ KeyTyped /\ DebtTyped
  BY UnderWayIsCounted DEF KeyTyped, DebtTyped
<1>2. CASE BeginTick(w)
  <2>1. UNCHANGED userVars /\ active
    BY <1>2 DEF BeginTick
  <2>2. pc' = [pc EXCEPT ![w] = "check"] /\ \A v \in Workers \ {w} : todo'[v] = todo[v]
    BY <1>1, <1>2 DEF BeginTick, GoTo, KeyTyped
  <2>3. ASSUME NEW v \in Workers, pc'[v] = "idle" PROVE todo'[v] = <<>>
    BY <1>1, <2>2, <2>3 DEF KeyTyped
  <2> QED
    BY <2>1, <2>3
<1>3. ASSUME pc[w] # "idle", NEW l \in Labels \ {"idle"}, GoTo(w, l),
             UNCHANGED <<todo, alone>>
      PROVE  /\ UnderWay' = UnderWay
             /\ \A v \in Workers : pc'[v] = "idle" => todo'[v] = <<>>
  <2>1. UnderWay' = UnderWay
    BY <1>3, TicksStay, HandlersStay DEF UnderWay
  <2>2. pc' = [pc EXCEPT ![w] = l]
    BY <1>3 DEF GoTo
  <2>3. ASSUME NEW v \in Workers, pc'[v] = "idle" PROVE todo'[v] = <<>>
    BY <1>1, <1>3, <2>2, <2>3 DEF KeyTyped
  <2> QED
    BY <2>1, <2>3
<1>4. ASSUME pc[w] # "idle", Continue(w), UNCHANGED alone \/ Abandon(w)
      PROVE  /\ UnderWay' <= UnderWay
             /\ \A v \in Workers : pc'[v] = "idle" => todo'[v] = <<>>
  <2>1. Cardinality(InTicks') = Cardinality(InTicks) - 1
    BY <1>1, <1>4, TickGoesOn
  <2>2. Cardinality(WithHandlers') \in {Cardinality(WithHandlers), Cardinality(WithHandlers) + 1}
    <3>1. CASE UNCHANGED alone
      BY <3>1, HandlersStay
    <3>2. CASE Abandon(w)
      <4>1. Op(w) \in Ops
        BY <1>1, <1>4, OpIsAnOperation
      <4>2. alone' = [alone EXCEPT ![Op(w)] = @ + 1]
        BY <3>2 DEF Abandon
      <4> QED
        BY <1>1, <4>1, <4>2, HandlersChange DEF DebtTyped
    <3> QED
      BY <1>4, <3>1, <3>2
  <2>3. ASSUME NEW v \in Workers, pc'[v] = "idle" PROVE todo'[v] = <<>>
    <3>1. CASE v = w
      BY <1>1, <1>4, <2>3, <3>1, TickGoesOn
    <3>2. CASE v # w
      BY <1>1, <1>4, <2>3, <3>2, ContinueIsTyped
    <3> QED
      BY <3>1, <3>2
  <2> QED
    BY <1>1, <2>1, <2>2, <2>3 DEF UnderWay
<1>5. UnderWay \in Nat
  BY <1>1 DEF UnderWay
<1>6. CASE Check(w)
  <2>1. /\ pc[w] # "idle" /\ UNCHANGED <<userVars, alone>>
        /\ Continue(w) \/ (GoTo(w, "sadd") /\ UNCHANGED todo)
    BY <1>6 DEF Check
  <2>2. "sadd" \in Labels \ {"idle"}
    BY DEF Labels
  <2> QED
    BY <1>3, <1>4, <1>5, <2>1, <2>2
<1>7. CASE SAdd(w) \/ Expire(w) \/ ExpireFails(w) \/ Create(w) \/ Call(w)
  <2>1. /\ pc[w] # "idle" /\ UNCHANGED <<userVars, todo, alone>>
        /\ \E l \in {"expire", "create", "send", "wait"} : GoTo(w, l)
    BY <1>7 DEF SAdd, Expire, ExpireFails, Create, Call
  <2>2. {"expire", "create", "send", "wait"} \subseteq Labels \ {"idle"}
    BY DEF Labels
  <2> QED
    BY <1>3, <1>5, <2>1, <2>2
<1>8. CASE StepFails(w) \/ CallFails(w)
  <2>1. pc[w] # "idle" /\ UNCHANGED <<userVars, alone>> /\ Continue(w)
    BY <1>8 DEF StepFails, CallFails
  <2> QED
    BY <1>4, <2>1
<1>9. CASE GiveUp(w)
  <2>1. pc[w] # "idle" /\ UNCHANGED userVars /\ Continue(w) /\ Abandon(w)
    BY <1>9 DEF GiveUp
  <2> QED
    BY <1>4, <2>1
<1> QED
  BY <1>2, <1>6, <1>7, <1>8, <1>9 DEF Tick

\* A handler that ends is one signal less under way.
LEMMA HandlersAddNothing ==
  ASSUME UserInv, NEW o \in Ops, HandlerEnds(o)
  PROVE  /\ UnderWay' = UnderWay - 1
         /\ \A v \in Workers : pc'[v] = "idle" => todo'[v] = <<>>
<1> USE DEF UserInv, DebtInv, KeyInv
<1>1. /\ IsFiniteSet(InTicks) /\ Cardinality(InTicks) \in Nat
      /\ IsFiniteSet(WithHandlers) /\ Cardinality(WithHandlers) \in Nat
      /\ KeyTyped /\ DebtTyped
  BY UnderWayIsCounted DEF KeyTyped, DebtTyped
<1>2. CASE \E w \in Workers : pc[w] = "wait" /\ Op(w) = o /\ Continue(w) /\ UNCHANGED alone
  <2>1. PICK w \in Workers : pc[w] = "wait" /\ Continue(w) /\ UNCHANGED alone
    BY <1>2
  <2>2. /\ Cardinality(InTicks') = Cardinality(InTicks) - 1
        /\ pc'[w] = "idle" => todo'[w] = <<>>
    BY <1>1, <2>1, TickGoesOn
  <2>3. WithHandlers' = WithHandlers
    BY <2>1, HandlersStay
  <2>4. ASSUME NEW v \in Workers \ {w}, pc'[v] = "idle" PROVE todo'[v] = <<>>
    BY <1>1, <2>1, <2>4, ContinueIsTyped
  <2> QED
    BY <1>1, <2>2, <2>3, <2>4 DEF UnderWay
<1>3. CASE alone[o] > 0 /\ alone' = [alone EXCEPT ![o] = @ - 1] /\ UNCHANGED <<pc, todo>>
  <2>1. Cardinality(WithHandlers') = Cardinality(WithHandlers) - 1
    BY <1>1, <1>3, HandlersChange DEF DebtTyped
  <2>2. InTicks' = InTicks
    BY <1>3, TicksStay
  <2> QED
    BY <1>1, <1>3, <2>1, <2>2 DEF UnderWay
<1> QED
  BY <1>2, <1>3 DEF HandlerEnds

LEMMA UserInvIsKept == UserInv /\ DebtInv' /\ [Next]_vars => UserInv'
<1> SUFFICES ASSUME UserInv, DebtInv', [Next]_vars PROVE UserInv'
  OBVIOUS
<1> DEFINE Idle == \A v \in Workers : pc'[v] = "idle" => todo'[v] = <<>>
<1>1. UnderWay \in Nat /\ UnderWay' \in Nat
  <2>1. /\ todo \in [Workers -> Seq(Ops)] /\ todo' \in [Workers -> Seq(Ops)]
        /\ alone \in [Ops -> Nat] /\ alone' \in [Ops -> Nat]
    BY DEF UserInv, DebtInv, KeyInv, KeyTyped, DebtTyped
  <2>2. UnderWay \in Nat
    BY <2>1, UnderWayIsCounted
  <2>3. UnderWay' \in Nat
    BY <2>1, UnderWayIsCountedNext
  <2> QED
    BY <2>2, <2>3
<1>2. KeyInv' /\ after \in Nat
  BY DEF DebtInv, UserInv
<1>3. faults' <= MaxFaults
  <2>1. \A n \in Nat : Fault(n) => faults' <= MaxFaults
    BY DeliveryAssumption DEF Fault, UserInv, DebtInv, DebtTyped
  <2>2. (\E n \in Nat : Fault(n)) \/ UNCHANGED faults
    <3>1. Cardinality(Workers) \in Nat
      BY WorkersAreCounted
    <3> QED
      BY <3>1 DEF Next, Tick, BeginTick, Check, SAdd, Expire, ExpireFails, Create,
         StepFails, Call, CallFails, GiveUp, Show, NotShown, StopAnalysis,
         StartAnalysis, AnalyserCrashes, Elapse, KeyExpires, vars
  <2> QED
    BY <2>1, <2>2 DEF UserInv
<1>4. ASSUME UNCHANGED <<active, underWay>>, after' \in Nat, Idle,
             after' + UnderWay' <= after + UnderWay \/ active'
      PROVE  UserInv'
  <2>1. ~ active' => after' + UnderWay' <= underWay'
    BY <1>1, <1>2, <1>4, NothingNewUnderWay
  <2> QED
    BY <1>3, <1>4, <2>1 DEF UserInv
<1>5. CASE \E w \in Workers : Tick(w)
  <2>1. PICK w \in Workers : Tick(w)
    BY <1>5
  <2>2. UNCHANGED userVars /\ (UnderWay' <= UnderWay \/ active) /\ Idle
    BY <2>1, TicksAddNothing
  <2>3. after' \in Nat /\ (after' + UnderWay' <= after + UnderWay \/ active')
    <3>1. after' = after /\ active' = active
      BY <2>2 DEF userVars
    <3> QED
      BY ONLY <1>1, <1>2, <2>2, <3>1
  <2> QED
    BY <1>4, <2>2, <2>3 DEF userVars
<1>6. CASE \E o \in Ops : Show(o) \/ NotShown(o)
  <2>1. PICK o \in Ops : Show(o) \/ NotShown(o)
    BY <1>6
  <2>2. /\ HandlerEnds(o) /\ UNCHANGED <<active, underWay>>
        /\ after' \in {after, after + 1}
    BY <2>1 DEF Show, NotShown, userVars
  <2>3. UnderWay' = UnderWay - 1 /\ Idle
    BY <2>2, HandlersAddNothing
  <2>4. after' \in Nat /\ after' + UnderWay' <= after + UnderWay
    BY <1>1, <1>2, <2>2, <2>3, SumShrinks
  <2> QED
    BY <1>4, <2>2, <2>3, <2>4
<1>7. CASE AnalyserCrashes
  <2>1. UnderWay' <= UnderWay
    BY <1>7, CrashAddsNothing
  <2>2. UNCHANGED userVars /\ Idle
    BY <1>7 DEF AnalyserCrashes
  <2>3. after' \in Nat /\ after' + UnderWay' <= after + UnderWay
    <3>1. after' = after
      BY <2>2 DEF userVars
    <3> QED
      BY <1>1, <1>2, <2>1, <3>1, SumIsKept
  <2> QED
    BY <1>4, <2>2, <2>3 DEF userVars
<1>8. CASE Elapse \/ KeyExpires \/ UNCHANGED vars
  <2>1. UNCHANGED <<active, underWay, after, pc, todo, alone>>
    BY <1>8 DEF Elapse, KeyExpires, userVars, vars
  <2>2. UnderWay' = UnderWay
    BY <2>1, TicksStay, HandlersStay DEF UnderWay
  <2>3. after' \in Nat /\ after' + UnderWay' <= after + UnderWay
    BY <1>1, <2>1, <2>2 DEF UserInv
  <2> QED
    BY <1>4, <2>1, <2>3 DEF UserInv
<1>9. CASE StopAnalysis
  <2>1. /\ underWay' = UnderWay /\ after' = 0 /\ active' = FALSE
        /\ UNCHANGED <<pc, todo, alone>>
    BY <1>9 DEF StopAnalysis
  <2>2. UnderWay' = UnderWay
    BY <2>1, TicksStay, HandlersStay DEF UnderWay
  <2>3. Idle
    BY <2>1 DEF UserInv
  <2>4. after' + UnderWay' <= underWay' /\ underWay' \in Nat /\ after' \in Nat
    BY ONLY <1>1, <2>1, <2>2
  <2>5. active' \in BOOLEAN
    BY <2>1
  <2> QED
    BY <1>3, <2>3, <2>4, <2>5 DEF UserInv
<1>10. CASE StartAnalysis
  <2>1. /\ underWay' = 0 /\ after' = 0 /\ active' = TRUE /\ UNCHANGED <<pc, todo>>
    BY <1>10 DEF StartAnalysis
  <2>2. Idle
    BY <2>1 DEF UserInv
  <2> QED
    BY <1>3, <2>1, <2>2 DEF UserInv
<1> QED
  BY <1>5, <1>6, <1>7, <1>8, <1>9, <1>10 DEF Next

LEMMA UserInvHolds == Spec => []UserInv
<1>1. Init => UserInv /\ DebtInv
  <2> SUFFICES ASSUME Init PROVE UserInv
    BY DEF UserInv
  <2>1. DebtInv
    BY DebtInvInitially
  <2>2. /\ active = TRUE /\ underWay = 0 /\ after = 0 /\ faults = 0
        /\ \A w \in Workers : todo[w] = <<>>
    BY DEF Init
  <2> QED
    BY <2>1, <2>2, DeliveryAssumption DEF UserInv
<1> QED
  BY <1>1, KeyInvHolds, DebtInvIsKept, UserInvIsKept, PTL DEF Spec

\* What a user still gets after he stopped the analysis was found, or on its
\* way, before: later ticks do not read him (service.go:243-250), and neither a
\* handler, a deadline nor a crash multiplies what is there.
THEOREM OnlyWhatWasUnderWay == Spec => []SignalsAfterStopWereUnderWay
<1>1. UserInv => SignalsAfterStopWereUnderWay
  <2> SUFFICES ASSUME UserInv, ~ active PROVE after <= underWay
    BY DEF SignalsAfterStopWereUnderWay
  <2>1. UnderWay \in Nat
    BY UnderWayIsCounted DEF UserInv, DebtInv, KeyInv, KeyTyped, DebtTyped
  <2> QED
    BY <2>1 DEF UserInv
<1> QED
  BY <1>1, UserInvHolds, PTL

\* A worker is idle exactly when it has no operation left, and a key that is not
\* there has no time left either.
THEOREM TypeCorrect == Spec => []TypeOK
<1>1. UserInv => TypeOK
  <2> SUFFICES ASSUME UserInv PROVE TypeOK
    OBVIOUS
  <2> USE DEF UserInv, DebtInv, KeyInv
  <2>1. faults \in 0 .. MaxFaults
    BY DeliveryAssumption DEF DebtTyped
  <2>2. \A w \in Workers : pc[w] # "idle" <=> todo[w] # <<>>
    BY DEF KeyTyped
  <2> QED
    BY <2>1, <2>2 DEF KeyTyped, DebtTyped, Labels, TypeOK
<1> QED
  BY <1>1, UserInvHolds, PTL
=============================================================================
