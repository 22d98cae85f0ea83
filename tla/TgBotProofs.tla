----------------------------- MODULE TgBotProofs -----------------------------
(***************************************************************************)
(* Theorems about TgBot, for every value of its constants: any chats, any  *)
(* numbers typed, any limits of the columns, any number of failures.       *)
(***************************************************************************)
EXTENDS TgBot, TLAPS

LEMMA SettingsTyped ==
  ASSUME NEW d \in DialogState
  PROVE  SettingsOf(d) \in UserSettings
<1>1. /\ (d.watchType \in {"fact_only", "both"}) \in BOOLEAN
      /\ (d.watchType \in {"potential_only", "both"}) \in BOOLEAN
  OBVIOUS
<1>2. /\ d.minDiffFact \in Threshold
      /\ d.minDiffPotential \in Threshold
      /\ d.maxNotional \in Threshold
  BY DEF DialogState
<1> QED
  BY <1>1, <1>2, Zenon DEF SettingsOf, UserSettings

LEMMA NewDialogTyped == NewDialog \in DialogState
BY DEF NewDialog, DialogState, Steps, Threshold

LEMMA InitTypeOK == Init => TypeOK
<1> SUFFICES ASSUME Init PROVE TypeOK
  OBVIOUS
<1>1. dialogs \in [Chats -> DialogState]
  BY NewDialogTyped DEF Init
<1>2. \A c \in Chats : dialogs[c].step = "idle"
  BY DEF Init, NewDialog
<1>3. rows \in [Chats -> Row \cup {NoRow}]
  BY DEF Init
<1>4. faults \in 0 .. MaxFaults
  BY TgBotAssumption DEF Init
<1>5. keyboard \in [Chats -> {"none", "start", "stop"}]
  BY DEF Init
<1> QED
  BY <1>1, <1>2, <1>3, <1>4, <1>5 DEF Init, TypeOK

\* A row that Save or SetActive writes.
LEMMA SavedRowTyped ==
  ASSUME NEW s \in UserSettings
  PROVE  [active |-> s.watchFact \/ s.watchPotential, settings |-> s] \in Row
<1>1. (s.watchFact \/ s.watchPotential) \in BOOLEAN
  OBVIOUS
<1> QED
  BY <1>1, Zenon DEF Row

LEMMA FaultsNat == TypeOK => faults \in Nat
<1> SUFFICES ASSUME TypeOK PROVE faults \in Nat
  OBVIOUS
<1>1. faults \in 0 .. MaxFaults
  BY DEF TypeOK
<1> QED
  BY <1>1, TgBotAssumption

LEMMA FaultTyped ==
  ASSUME TypeOK, Fault
  PROVE  faults' \in 0 .. MaxFaults
<1>1. faults \in 0 .. MaxFaults
  BY DEF TypeOK
<1>2. faults < MaxFaults /\ faults' = faults + 1
  BY DEF Fault
<1>3. MaxFaults \in Nat
  BY TgBotAssumption
<1> QED
  BY <1>1, <1>2, <1>3

\* What a handler's step leaves of the request and the database.
LEMMA HandlerTyped ==
  ASSUME TypeOK, NEW r \in Requests, NEW at \in Places, HandlerStep(r, at)
  PROVE  /\ [r EXCEPT !.at = at] \in Requests
         /\ users' \in SUBSET Chats
         /\ rows' \in [Chats -> Row \cup {NoRow}]
         /\ faults' \in 0 .. MaxFaults
         /\ InProgress(r)
<1>1. [r EXCEPT !.at = at] \in Requests
  BY DEF Requests, Places
<1>2. r.chat \in Chats /\ (r.kind = "upsert" => r.settings \in UserSettings)
      /\ (r.kind = "setActive" => r.active \in BOOLEAN)
  BY DEF Requests
<1>3. InProgress(r)
  BY DEF HandlerStep, GetByChatID, resolveUserID, Save, SetActive, StatementFails,
         InProgress
<1>4. users' \in SUBSET Chats
  BY <1>2 DEF HandlerStep, GetByChatID, resolveUserID, Save, SetActive,
              StatementFails, TypeOK, dbVars
<1>5. faults' \in 0 .. MaxFaults
  <2>1. UNCHANGED faults \/ Fault
    BY DEF HandlerStep, GetByChatID, resolveUserID, Save, SetActive,
           StatementFails, StatementDone
  <2> QED
    BY <2>1, FaultTyped DEF TypeOK
<1>6. rows' \in [Chats -> Row \cup {NoRow}]
  <2>1. CASE UNCHANGED rows
    BY <2>1 DEF TypeOK
  <2>2. CASE Save(r, at)
    BY <1>2, <2>2, SavedRowTyped DEF Save, TypeOK
  <2>3. CASE SetActive(r, at)
    <3>1. rows[r.chat] # NoRow => [rows[r.chat] EXCEPT !.active = r.active] \in Row
      BY <1>2, <2>3 DEF SetActive, TypeOK, Row
    <3> QED
      BY <1>2, <2>3, <3>1 DEF SetActive, TypeOK
  <2> QED
    BY <2>1, <2>2, <2>3 DEF HandlerStep, GetByChatID, resolveUserID,
                            StatementFails, dbVars
<1> QED
  BY <1>1, <1>3, <1>4, <1>5, <1>6

\* One chat's dialog is replaced by another that is well typed.
LEMMA DialogTyped ==
  ASSUME TypeOK, NEW c \in Chats, NEW d \in DialogState,
         d.step \notin {"idle", "choose_type"} => d.watchType # "",
         dialogs' = [dialogs EXCEPT ![c] = d]
  PROVE  /\ dialogs' \in [Chats -> DialogState]
         /\ \A b \in Chats :
              dialogs'[b].step \notin {"idle", "choose_type"} =>
                dialogs'[b].watchType # ""
BY DEF TypeOK

\* The dialog of a chat and its fields.
LEMMA CurrentDialog ==
  ASSUME TypeOK, NEW c \in Chats
  PROVE  /\ dialogs[c] \in DialogState
         /\ dialogs[c].watchType \in WatchTypes \cup {""}
         /\ dialogs[c].step \notin {"idle", "choose_type"} =>
              dialogs[c].watchType # ""
BY DEF TypeOK, DialogState

LEMMA KeyboardTyped ==
  ASSUME TypeOK, NEW c \in Chats, NEW k \in {"start", "stop"},
         MessageSent(c, k) \/ MessageFails(c, k)
  PROVE  /\ keyboard' \in [Chats -> {"none", "start", "stop"}]
         /\ faults' \in 0 .. MaxFaults
<1>1. UNCHANGED faults \/ Fault
  BY DEF MessageSent, MessageFails
<1>2. keyboard' = keyboard \/ keyboard' = [keyboard EXCEPT ![c] = k]
  BY DEF MessageSent, MessageFails, Show
<1> QED
  BY <1>1, <1>2, FaultTyped DEF TypeOK

\* The steps of the wizard: what happens to the dialog, and that nothing but
\* the dialog and the call changes.
LEMMA WizardTyped ==
  ASSUME TypeOK, NEW c \in Chats, NEW v \in Threshold,
         \/ startWizard(c) \/ handleChooseType(c)
         \/ handleMinDiffFact(c, v) \/ handleMinDiffPot(c, v)
         \/ handleMaxNotional(c, v)
  PROVE  /\ dialogs' \in [Chats -> DialogState]
         /\ \A b \in Chats :
              dialogs'[b].step \notin {"idle", "choose_type"} =>
                dialogs'[b].watchType # ""
         /\ call' \in Requests \cup {NoCall}
         /\ UNCHANGED <<keyboard, orphans, users, rows, faults, orphaned>>
<1>1. CASE startWizard(c)
  <2> DEFINE d == [dialogs[c] EXCEPT !.step = "choose_type"]
  <2>1. d \in DialogState
    BY CurrentDialog DEF DialogState, Steps
  <2>2. dialogs' = [dialogs EXCEPT ![c] = d]
    BY <1>1 DEF startWizard
  <2>3. d.step = "choose_type"
    BY CurrentDialog DEF DialogState
  <2> HIDE DEF d
  <2> QED
    BY <1>1, <2>1, <2>2, <2>3, DialogTyped DEF startWizard, dbVars, TypeOK
<1>2. CASE handleChooseType(c)
  <2> PICK t \in WatchTypes :
        dialogs' = [dialogs EXCEPT
          ![c].watchType = t,
          ![c].step = IF t = "potential_only" THEN "input_min_diff_pot"
                                              ELSE "input_min_diff_fact"]
    BY <1>2 DEF handleChooseType
  <2> DEFINE d == [dialogs[c] EXCEPT
                     !.watchType = t,
                     !.step = IF t = "potential_only" THEN "input_min_diff_pot"
                                                      ELSE "input_min_diff_fact"]
  <2>1. d \in DialogState /\ d.watchType # ""
    BY CurrentDialog DEF DialogState, Steps, WatchTypes
  <2>2. dialogs' = [dialogs EXCEPT ![c] = d]
    BY DEF TypeOK
  <2> HIDE DEF d
  <2> QED
    BY <1>2, <2>1, <2>2, DialogTyped DEF handleChooseType, dbVars, TypeOK
<1>3. CASE handleMinDiffFact(c, v)
  <2> DEFINE d == [dialogs[c] EXCEPT !.minDiffFact = v,
                     !.step = AfterFact(dialogs[c].watchType)]
  <2>1. d \in DialogState
    BY CurrentDialog DEF DialogState, Steps, AfterFact
  <2>2. dialogs' = [dialogs EXCEPT ![c] = d]
    BY <1>3 DEF handleMinDiffFact, TypeOK
  <2>3. d.watchType # ""
    BY <1>3, CurrentDialog DEF handleMinDiffFact, AtStep, DialogState
  <2> HIDE DEF d
  <2> QED
    BY <1>3, <2>1, <2>2, <2>3, DialogTyped DEF handleMinDiffFact, dbVars, TypeOK
<1>4. CASE handleMinDiffPot(c, v)
  <2> DEFINE d == [dialogs[c] EXCEPT !.minDiffPotential = v,
                     !.step = "input_max_notional"]
  <2>1. d \in DialogState
    BY CurrentDialog DEF DialogState, Steps
  <2>2. dialogs' = [dialogs EXCEPT ![c] = d]
    BY <1>4 DEF handleMinDiffPot, TypeOK
  <2>3. d.watchType # ""
    BY <1>4, CurrentDialog DEF handleMinDiffPot, AtStep, DialogState
  <2> HIDE DEF d
  <2> QED
    BY <1>4, <2>1, <2>2, <2>3, DialogTyped DEF handleMinDiffPot, dbVars, TypeOK
<1>5. CASE handleMaxNotional(c, v)
  <2> DEFINE d == [dialogs[c] EXCEPT !.maxNotional = v]
  <2>1. d \in DialogState
    BY CurrentDialog DEF DialogState
  <2>2. dialogs' = [dialogs EXCEPT ![c] = d]
    BY <1>5 DEF handleMaxNotional
  <2>3. d.watchType # ""
    BY <1>5, CurrentDialog DEF handleMaxNotional, AtStep, DialogState
  <2>4. dialogs'[c] = d
    BY <2>2 DEF TypeOK
  <2> HIDE DEF d
  <2>5. call' \in Requests
    BY <1>5, <2>1, <2>4, SettingsTyped DEF handleMaxNotional, Requests
  <2> QED
    BY <1>5, <2>1, <2>2, <2>3, <2>5, DialogTyped DEF handleMaxNotional, dbVars
<1> QED
  BY <1>1, <1>2, <1>3, <1>4, <1>5

\* What an interrupted call leaves behind.
LEMMA AbandonTyped ==
  ASSUME TypeOK, call # NoCall, Abandon
  PROVE  /\ orphans' \in SUBSET {r \in Requests : InProgress(r)}
         /\ orphaned' \in BOOLEAN
BY DEF TypeOK, Abandon

\* An update, or its rest once the call is answered.
LEMMA UpdateTypeOK ==
  ASSUME TypeOK, HandleUpdate \/ UpsertAnswered \/ SetActiveAnswered
  PROVE  TypeOK'
<1>1. ASSUME NEW c \in Chats, handleStartCommand(c)
      PROVE  TypeOK'
  <2>1. MessageSent(c, "start") \/ MessageFails(c, "start")
    BY <1>1 DEF handleStartCommand
  <2>2. PICK d \in {NewDialog, [NewDialog EXCEPT !.step = "choose_type"]} :
          dialogs' = [dialogs EXCEPT ![c] = d]
    BY <1>1 DEF handleStartCommand
  <2>3. d \in DialogState /\ d.step \in {"idle", "choose_type"}
    BY NewDialogTyped DEF NewDialog, DialogState, Steps
  <2> QED
    BY <1>1, <2>1, <2>2, <2>3, DialogTyped, KeyboardTyped
       DEF handleStartCommand, dbVars, TypeOK
<1>2. ASSUME NEW c \in Chats, NEW v \in Threshold,
             \/ startWizard(c) \/ handleChooseType(c)
             \/ handleMinDiffFact(c, v) \/ handleMinDiffPot(c, v)
             \/ handleMaxNotional(c, v)
      PROVE  TypeOK'
  BY <1>2, WizardTyped DEF TypeOK
<1>3. NaN \in Threshold /\ Numbers \subseteq Threshold
  BY TgBotAssumption DEF Threshold
<1>4. ASSUME NEW c \in Chats, NEW active \in BOOLEAN, CallSetUserActive(c, active)
      PROVE  TypeOK'
  <2>1. call' \in Requests
    BY <1>4 DEF CallSetUserActive, Requests
  <2> QED
    BY <1>4, <2>1 DEF CallSetUserActive, botVars, dbVars, TypeOK
<1>5. ASSUME UpsertAnswered
      PROVE  TypeOK'
  <2>1. call.chat \in Chats
    BY <1>5 DEF UpsertAnswered, TypeOK, Requests
  <2>2. CASE Finished(call.at)
    <3> DEFINE d == [dialogs[call.chat] EXCEPT !.step = "idle"]
    <3>1. d \in DialogState /\ d.step = "idle"
      BY <2>1, CurrentDialog DEF DialogState, Steps
    <3>2. dialogs' = [dialogs EXCEPT ![call.chat] = d]
      BY <1>5, <2>2 DEF UpsertAnswered
    <3> HIDE DEF d
    <3>3. MessageSent(call.chat, "start") \/ MessageFails(call.chat, "start")
      BY <1>5, <2>2 DEF UpsertAnswered
    <3> QED
      BY <1>5, <2>1, <3>1, <3>2, <3>3, DialogTyped, KeyboardTyped
         DEF UpsertAnswered, dbVars, TypeOK
  <2>3. CASE ~ Finished(call.at)
    BY <1>5, <2>3 DEF UpsertAnswered, botVars, dbVars, TypeOK
  <2> QED
    BY <2>2, <2>3
<1>6. ASSUME SetActiveAnswered
      PROVE  TypeOK'
  <2>1. call.chat \in Chats
    BY <1>6 DEF SetActiveAnswered, TypeOK, Requests
  <2>2. \/ UNCHANGED <<keyboard, faults>>
        \/ MessageSent(call.chat, mainKeyboard(call.active))
        \/ MessageFails(call.chat, mainKeyboard(call.active))
    BY <1>6 DEF SetActiveAnswered
  <2>3. mainKeyboard(call.active) \in {"start", "stop"}
    BY DEF mainKeyboard
  <2> QED
    BY <1>6, <2>1, <2>2, <2>3, KeyboardTyped DEF SetActiveAnswered, dbVars, TypeOK
<1> QED
  BY <1>1, <1>2, <1>3, <1>4, <1>5, <1>6 DEF HandleUpdate

\* A handler's step, and the failures.
LEMMA HandlerTypeOK ==
  ASSUME TypeOK, ServeCall \/ ServeOrphan
  PROVE  TypeOK'
<1>1. CASE ServeCall
  <2>1. PICK at \in Places : HandlerStep(call, at) /\ call' = [call EXCEPT !.at = at]
    BY <1>1 DEF ServeCall
  <2>2. call \in Requests
    BY <1>1 DEF ServeCall, TypeOK
  <2> QED
    BY <1>1, <2>1, <2>2, HandlerTyped DEF ServeCall, botVars, TypeOK
<1>2. CASE ServeOrphan
  <2>1. PICK r \in orphans, at \in Places :
          /\ HandlerStep(r, at)
          /\ orphans' = (orphans \ {r})
                          \cup {q \in {[r EXCEPT !.at = at]} : InProgress(q)}
    BY <1>2 DEF ServeOrphan
  <2>2. r \in Requests
    BY DEF TypeOK
  <2>3. [r EXCEPT !.at = at] \in Requests
    BY <2>1, <2>2, HandlerTyped
  <2>4. orphans' \in SUBSET {q \in Requests : InProgress(q)}
    BY <2>1, <2>3 DEF TypeOK
  <2> QED
    BY <1>2, <2>1, <2>2, <2>4, HandlerTyped DEF ServeOrphan, botVars, TypeOK
<1> QED
  BY <1>1, <1>2

LEMMA FailureTypeOK ==
  ASSUME TypeOK, CallFails \/ RestartTgBot \/ RestartAnalyser
  PROVE  TypeOK'
<1>1. CASE CallFails
  <2>1. [call EXCEPT !.at = "err"] \in Requests
    BY <1>1 DEF CallFails, TypeOK, Requests
  <2> QED
    BY <1>1, <2>1, AbandonTyped, FaultTyped DEF CallFails, botVars, dbVars, TypeOK
<1>2. CASE RestartTgBot
  <2>1. /\ dialogs' \in [Chats -> DialogState]
        /\ \A c \in Chats : dialogs'[c].step = "idle"
    BY <1>2, NewDialogTyped DEF RestartTgBot, NewDialog
  <2>2. /\ orphans' \in SUBSET {r \in Requests : InProgress(r)}
        /\ orphaned' \in BOOLEAN
    BY <1>2, AbandonTyped DEF RestartTgBot, TypeOK
  <2> QED
    BY <1>2, <2>1, <2>2, FaultTyped DEF RestartTgBot, dbVars, TypeOK
<1>3. CASE RestartAnalyser
  <2>1. call' \in Requests \cup {NoCall}
    BY <1>3 DEF RestartAnalyser, TypeOK, Requests
  <2> QED
    BY <1>3, <2>1, FaultTyped DEF RestartAnalyser, botVars, dbVars, TypeOK
<1> QED
  BY <1>1, <1>2, <1>3

\* The bot, the handlers and the database keep to their types, whatever fails.
THEOREM TypeCorrect == Spec => []TypeOK
<1>1. TypeOK /\ [Next]_vars => TypeOK'
  <2> SUFFICES ASSUME TypeOK, [Next]_vars PROVE TypeOK'
    OBVIOUS
  <2>1. CASE UNCHANGED vars
    BY <2>1 DEF vars, TypeOK
  <2> QED
    BY <2>1, UpdateTypeOK, HandlerTypeOK, FailureTypeOK DEF Next
<1> QED
  BY <1>1, InitTypeOK, PTL DEF Spec

-----------------------------------------------------------------------------
(* Every threshold that is used was entered.                               *)

LEMMA NewDialogInOrder ==
  /\ WizardInOrder(NewDialog)
  /\ \A d \in DialogState : d.step \in {"idle", "choose_type"} => WizardInOrder(d)
BY DEF WizardInOrder, NewDialog

\* The steps of one dialog keep the wizard in order.
LEMMA DialogsInOrder ==
  ASSUME TypeOK, ThresholdStrengthening, NEW c \in Chats, NEW d \in DialogState,
         WizardInOrder(d), dialogs' = [dialogs EXCEPT ![c] = d]
  PROVE  \A b \in Chats : WizardInOrder(dialogs'[b])
BY DEF TypeOK, ThresholdStrengthening

\* The last step of the wizard makes a request with the thresholds of its type.
LEMMA ThresholdsOfSettings ==
  ASSUME NEW d \in DialogState,
         d.watchType \in {"fact_only", "both"} => ~ NotPositive(d.minDiffFact),
         d.watchType \in {"potential_only", "both"} => ~ NotPositive(d.minDiffPotential)
  PROVE  HasThresholds(SettingsOf(d))
BY DEF HasThresholds, SettingsOf

\* The other way round.
LEMMA SettingsOfThresholds ==
  ASSUME NEW d \in DialogState, HasThresholds(SettingsOf(d))
  PROVE  /\ d.watchType \in {"fact_only", "both"} => ~ NotPositive(d.minDiffFact)
         /\ d.watchType \in {"potential_only", "both"} => ~ NotPositive(d.minDiffPotential)
BY DEF HasThresholds, SettingsOf

LEMMA WizardInOrderStep ==
  ASSUME TypeOK, ThresholdStrengthening, NEW c \in Chats, NEW v \in Threshold,
         \/ startWizard(c) \/ handleChooseType(c)
         \/ handleMinDiffFact(c, v) \/ handleMinDiffPot(c, v)
         \/ handleMaxNotional(c, v)
  PROVE  ThresholdStrengthening'
<1> DEFINE d == dialogs'[c]
<1>1. d \in DialogState /\ UNCHANGED orphans
  BY WizardTyped
<1>2. dialogs[c] \in DialogState /\ WizardInOrder(dialogs[c])
  BY DEF TypeOK, ThresholdStrengthening
<1>3. \A b \in Chats : b # c => dialogs'[b] = dialogs[b]
  BY DEF TypeOK, startWizard, handleChooseType, handleMinDiffFact, handleMinDiffPot,
         handleMaxNotional
<1>4. CASE startWizard(c)
  <2>1. d.step = "choose_type" /\ UNCHANGED call
    BY <1>2, <1>4 DEF startWizard, TypeOK, DialogState
  <2> QED
    BY <1>1, <1>3, <2>1 DEF ThresholdStrengthening, WizardInOrder
<1>5. CASE handleChooseType(c)
  <2> PICK t \in WatchTypes :
        dialogs' = [dialogs EXCEPT
          ![c].watchType = t,
          ![c].step = IF t = "potential_only" THEN "input_min_diff_pot"
                                              ELSE "input_min_diff_fact"]
    BY <1>5 DEF handleChooseType
  <2>1. /\ UNCHANGED call
        /\ d.watchType = t
        /\ d.step = IF t = "potential_only" THEN "input_min_diff_pot"
                                            ELSE "input_min_diff_fact"
    BY <1>2, <1>5 DEF handleChooseType, TypeOK, DialogState
  <2>2. WizardInOrder(d)
    BY <2>1 DEF WizardInOrder, WatchTypes
  <2> QED
    BY <1>1, <1>3, <2>1, <2>2 DEF ThresholdStrengthening
<1>6. CASE handleMinDiffFact(c, v)
  <2>1. /\ UNCHANGED call /\ ~ NotPositive(v)
        /\ d.watchType = dialogs[c].watchType
        /\ d.watchType \in {"fact_only", "both"}
        /\ d.minDiffFact = v
        /\ d.step = AfterFact(d.watchType)
    BY <1>2, <1>6 DEF handleMinDiffFact, AtStep, TypeOK, DialogState, WizardInOrder
  <2>2. WizardInOrder(d)
    BY <1>1, <2>1, ThresholdsOfSettings DEF WizardInOrder, AfterFact
  <2> QED
    BY <1>1, <1>3, <2>1, <2>2 DEF ThresholdStrengthening
<1>7. CASE handleMinDiffPot(c, v)
  <2>1. /\ UNCHANGED call /\ ~ NotPositive(v)
        /\ d.watchType = dialogs[c].watchType
        /\ d.watchType \in {"potential_only", "both"}
        /\ d.minDiffPotential = v
        /\ d.minDiffFact = dialogs[c].minDiffFact
        /\ d.watchType = "both" => ~ NotPositive(d.minDiffFact)
        /\ d.step = "input_max_notional"
    BY <1>2, <1>7 DEF handleMinDiffPot, AtStep, TypeOK, DialogState, WizardInOrder
  <2>2. WizardInOrder(d)
    BY <1>1, <2>1, ThresholdsOfSettings DEF WizardInOrder
  <2> QED
    BY <1>1, <1>3, <2>1, <2>2 DEF ThresholdStrengthening
<1>8. CASE handleMaxNotional(c, v)
  <2>1. /\ dialogs[c].step = "input_max_notional"
        /\ d.step = "input_max_notional"
        /\ d.watchType = dialogs[c].watchType
        /\ d.minDiffFact = dialogs[c].minDiffFact
        /\ d.minDiffPotential = dialogs[c].minDiffPotential
        /\ call'.settings = SettingsOf(d)
    BY <1>2, <1>8 DEF handleMaxNotional, AtStep, TypeOK, DialogState
  <2>2. HasThresholds(SettingsOf(d))
    BY <1>1, <1>2, <2>1, ThresholdsOfSettings, SettingsOfThresholds DEF WizardInOrder
  <2>3. WizardInOrder(d)
    BY <2>1, <2>2 DEF WizardInOrder
  <2> QED
    BY <1>1, <1>3, <2>1, <2>2, <2>3 DEF ThresholdStrengthening
<1> QED
  BY <1>4, <1>5, <1>6, <1>7, <1>8

LEMMA ThresholdsStep ==
  ASSUME TypeOK, ThresholdStrengthening, Next
  PROVE  ThresholdStrengthening'
<1>1. ASSUME NEW c \in Chats, handleStartCommand(c)
      PROVE  ThresholdStrengthening'
  <2>1. PICK d \in {NewDialog, [NewDialog EXCEPT !.step = "choose_type"]} :
          dialogs' = [dialogs EXCEPT ![c] = d]
    BY <1>1 DEF handleStartCommand
  <2>2. d \in DialogState /\ d.step \in {"idle", "choose_type"}
    BY NewDialogTyped DEF NewDialog, DialogState, Steps
  <2> QED
    BY <1>1, <2>1, <2>2, NewDialogInOrder, DialogsInOrder
       DEF handleStartCommand, ThresholdStrengthening
<1>2. ASSUME NEW c \in Chats, NEW v \in Threshold,
             \/ startWizard(c) \/ handleChooseType(c)
             \/ handleMinDiffFact(c, v) \/ handleMinDiffPot(c, v)
             \/ handleMaxNotional(c, v)
      PROVE  ThresholdStrengthening'
  BY <1>2, WizardInOrderStep
<1>3. NaN \in Threshold /\ Numbers \subseteq Threshold
  BY TgBotAssumption DEF Threshold
<1>4. ASSUME NEW c \in Chats, NEW active \in BOOLEAN, CallSetUserActive(c, active)
      PROVE  ThresholdStrengthening'
  BY <1>4 DEF CallSetUserActive, botVars, ThresholdStrengthening
<1>5. CASE UpsertAnswered
  <2>1. call.chat \in Chats /\ call' = NoCall /\ UNCHANGED orphans
    BY <1>5 DEF UpsertAnswered, TypeOK, Requests
  <2>2. CASE Finished(call.at)
    <3> DEFINE d == [dialogs[call.chat] EXCEPT !.step = "idle"]
    <3>1. d \in DialogState /\ d.step = "idle"
      BY <2>1, CurrentDialog DEF DialogState, Steps
    <3>2. dialogs' = [dialogs EXCEPT ![call.chat] = d]
      BY <1>5, <2>2 DEF UpsertAnswered
    <3> HIDE DEF d
    <3> QED
      BY <2>1, <3>1, <3>2, NewDialogInOrder, DialogsInOrder DEF ThresholdStrengthening
  <2>3. CASE ~ Finished(call.at)
    BY <1>5, <2>1, <2>3 DEF UpsertAnswered, botVars, ThresholdStrengthening
  <2> QED
    BY <2>2, <2>3
<1>6. CASE SetActiveAnswered
  BY <1>6 DEF SetActiveAnswered, ThresholdStrengthening
<1>7. CASE ServeCall
  <2>1. PICK at \in Places : call' = [call EXCEPT !.at = at]
    BY <1>7 DEF ServeCall
  <2>2. call \in Requests
    BY <1>7 DEF ServeCall, TypeOK
  <2>3. call'.kind = call.kind
        /\ (call.kind = "upsert" => call'.settings = call.settings)
    BY <2>1, <2>2 DEF Requests
  <2>4. UNCHANGED <<dialogs, orphans>> /\ call # NoCall
    BY <1>7 DEF ServeCall, botVars
  <2> QED
    BY <2>3, <2>4 DEF ThresholdStrengthening
<1>8. CASE ServeOrphan
  <2>1. PICK r \in orphans, at \in Places :
          orphans' = (orphans \ {r}) \cup {q \in {[r EXCEPT !.at = at]} : InProgress(q)}
    BY <1>8 DEF ServeOrphan
  <2>2. r \in Requests
    BY DEF TypeOK
  <2> DEFINE p == [r EXCEPT !.at = at]
  <2>3. p.kind = r.kind /\ (r.kind = "upsert" => p.settings = r.settings)
    BY <2>2 DEF Requests
  <2>4. orphans' \subseteq orphans \cup {p}
    BY <2>1
  <2> HIDE DEF p
  <2>5. UNCHANGED <<dialogs, call>>
    BY <1>8 DEF ServeOrphan, botVars
  <2> QED
    BY <2>3, <2>4, <2>5 DEF ThresholdStrengthening
<1>9. CASE CallFails \/ RestartTgBot \/ RestartAnalyser
  <2>1. orphans' \subseteq orphans \cup ({call} \ {NoCall})
    BY <1>9 DEF CallFails, RestartTgBot, RestartAnalyser, Abandon
  <2>2. UNCHANGED dialogs \/ dialogs' = [c \in Chats |-> NewDialog]
    BY <1>9 DEF CallFails, RestartTgBot, RestartAnalyser, botVars
  <2>3. \/ call' = NoCall
        \/ call' = call
        \/ call \in Requests /\ call # NoCall /\ call' = [call EXCEPT !.at = "err"]
    BY <1>9 DEF CallFails, RestartTgBot, RestartAnalyser, TypeOK
  <2>4. call' # NoCall =>
          /\ call # NoCall
          /\ call'.kind = call.kind
          /\ call.kind = "upsert" => call'.settings = call.settings
    BY <2>3 DEF Requests
  <2>5. \A c \in Chats : WizardInOrder(dialogs'[c])
    BY <2>2, NewDialogInOrder DEF ThresholdStrengthening
  <2> QED
    BY <2>1, <2>4, <2>5 DEF ThresholdStrengthening
<1> QED
  BY <1>1, <1>2, <1>3, <1>4, <1>5, <1>6, <1>7, <1>8, <1>9 DEF Next, HandleUpdate

\* A row is written from a request's settings, or is a row whose settings stay.
LEMMA RowsStep ==
  ASSUME TypeOK, ThresholdStrengthening, WatchedKindHasThreshold, Next
  PROVE  WatchedKindHasThreshold'
<1>1. ASSUME NEW r \in Requests, NEW at \in Places, HandlerStep(r, at),
             r.kind = "upsert" => HasThresholds(r.settings)
      PROVE  WatchedKindHasThreshold'
  <2>1. CASE UNCHANGED rows
    BY <2>1 DEF WatchedKindHasThreshold
  <2>2. CASE Save(r, at)
    <3>1. rows \in [Chats -> Row \cup {NoRow}]
      BY DEF TypeOK
    <3>2. PICK row : /\ row.settings = r.settings
                     /\ rows' = rows \/ rows' = [rows EXCEPT ![r.chat] = row]
      BY <2>2, Zenon DEF Save
    <3>3. r.kind = "upsert"
      BY <2>2 DEF Save
    <3> QED
      BY <1>1, <3>1, <3>2, <3>3 DEF WatchedKindHasThreshold
  <2>3. CASE SetActive(r, at)
    <3>1. rows \in [Chats -> Row \cup {NoRow}]
      BY DEF TypeOK
    <3>2. CASE rows[r.chat] = NoRow
      BY <2>1, <2>3, <3>2 DEF SetActive
    <3>3. CASE rows[r.chat] # NoRow
      <4>1. PICK row : /\ row = [rows[r.chat] EXCEPT !.active = r.active]
                       /\ rows' = [rows EXCEPT ![r.chat] = row]
        BY <2>3, <3>3 DEF SetActive
      <4>2. r.chat \in Chats
        BY DEF Requests
      <4>3. rows[r.chat] \in Row
        BY <3>1, <3>3, <4>2
      <4>4. row.settings = rows[r.chat].settings
        BY <4>1, <4>3 DEF Row
      <4> QED
        BY <3>1, <3>3, <4>1, <4>2, <4>4 DEF WatchedKindHasThreshold
    <3> QED
      BY <3>2, <3>3
  <2> QED
    BY <1>1, <2>1, <2>2, <2>3 DEF HandlerStep, GetByChatID, resolveUserID,
                                  StatementFails, dbVars
<1>2. CASE ServeCall
  BY <1>1, <1>2 DEF ServeCall, ThresholdStrengthening, TypeOK
<1>3. CASE ServeOrphan
  BY <1>1, <1>3 DEF ServeOrphan, ThresholdStrengthening, TypeOK
<1>4. CASE UNCHANGED rows
  BY <1>4 DEF WatchedKindHasThreshold
<1>5. ServeCall \/ ServeOrphan \/ UNCHANGED rows
  BY DEF Next, HandleUpdate, handleStartCommand, startWizard, handleChooseType,
         handleMinDiffFact, handleMinDiffPot, handleMaxNotional, CallSetUserActive,
         UpsertAnswered, SetActiveAnswered, CallFails, RestartTgBot,
         RestartAnalyser, dbVars
<1> QED
  BY <1>2, <1>3, <1>4, <1>5

\* No row watches a kind of opportunity with a threshold nobody entered.
THEOREM ThresholdsWereEntered == Spec => []WatchedKindHasThreshold
<1> DEFINE IInv == ThresholdStrengthening /\ WatchedKindHasThreshold
<1>1. Init => IInv
  BY NewDialogInOrder, NewDialogTyped
     DEF Init, ThresholdStrengthening, WatchedKindHasThreshold
<1>2. TypeOK /\ IInv /\ [Next]_vars => IInv'
  <2> SUFFICES ASSUME TypeOK, IInv, [Next]_vars PROVE IInv'
    OBVIOUS
  <2>1. CASE Next
    BY <2>1, ThresholdsStep, RowsStep
  <2>2. CASE UNCHANGED vars
    BY <2>2 DEF vars, ThresholdStrengthening, WatchedKindHasThreshold
  <2> QED
    BY <2>1, <2>2
<1> QED
  BY <1>1, <1>2, TypeCorrect, PTL DEF Spec

-----------------------------------------------------------------------------
(* The "stop" button.                                                      *)

\* What a step of a handler does to the rows when nothing fails.
LEMMA HandlerEffect ==
  ASSUME TypeOK, NEW r \in Requests, NEW at \in Places, HandlerStep(r, at),
         UNCHANGED faults
  PROVE  /\ at # "ok" => UNCHANGED rows
         /\ \A c \in Chats : c # r.chat => rows'[c] = rows[c]
         /\ (at = "ok" /\ r.kind = "setActive") =>
              rows'[r.chat] # NoRow /\ rows'[r.chat].active = r.active
<1> USE TgBotAssumption
<1>1. ~ Fault
  BY FaultsNat DEF Fault
<1>2. rows \in [Chats -> Row \cup {NoRow}] /\ r.chat \in Chats
  BY DEF TypeOK, Requests
<1>3. CASE GetByChatID(r, at) \/ resolveUserID(r, at) \/ StatementFails(r, at)
  BY <1>1, <1>3 DEF GetByChatID, resolveUserID, StatementFails, dbVars
<1>4. CASE Save(r, at)
  <2>1. r.kind = "upsert"
    BY <1>4 DEF Save
  <2>2. (UNCHANGED rows /\ at = "err") \/ StatementDone(at)
    BY <1>4 DEF Save
  <2>3. \E row : rows' = rows \/ rows' = [rows EXCEPT ![r.chat] = row]
    BY <1>4 DEF Save
  <2> QED
    BY <1>1, <1>2, <2>1, <2>2, <2>3 DEF StatementDone
<1>5. CASE SetActive(r, at)
  <2>1. CASE rows[r.chat] = NoRow
    BY <1>5, <2>1 DEF SetActive
  <2>2. CASE rows[r.chat] # NoRow
    <3>1. PICK row : /\ row = [rows[r.chat] EXCEPT !.active = r.active]
                     /\ rows' = [rows EXCEPT ![r.chat] = row]
      BY <1>5, <2>2 DEF SetActive
    <3>2. at = "ok"
      BY <1>1, <1>5, <2>2 DEF SetActive, StatementDone
    <3>3. rows[r.chat] \in Row
      BY <1>2, <2>2
    <3>4. r.kind = "setActive" /\ r.active \in BOOLEAN
      BY <1>5 DEF SetActive, Requests
    <3>5. row \in Row /\ row.active = r.active
      BY <3>1, <3>3, <3>4 DEF Row
    <3> QED
      BY <1>2, <3>1, <3>2, <3>5
  <2> QED
    BY <2>1, <2>2
<1> QED
  BY <1>3, <1>4, <1>5 DEF HandlerStep

\* A step after which nothing has failed is one before which nothing had, that
\* fails nothing itself.
LEMMA NoFaultYet ==
  ASSUME TypeOK, Next, faults' = 0
  PROVE  /\ faults = 0 /\ UNCHANGED faults
         /\ ~ CallFails /\ ~ RestartTgBot /\ ~ RestartAnalyser
         /\ \A c \in Chats, k \in {"start", "stop"} : ~ MessageFails(c, k)
<1>1. faults \in Nat
  BY FaultsNat
<1>2. ~ Fault
  BY <1>1 DEF Fault
<1>3. UNCHANGED faults \/ Fault
  BY DEF Next, HandleUpdate, handleStartCommand, startWizard, handleChooseType,
         handleMinDiffFact, handleMinDiffPot, handleMaxNotional, CallSetUserActive,
         UpsertAnswered, SetActiveAnswered, ServeCall, ServeOrphan, CallFails,
         RestartTgBot, RestartAnalyser, HandlerStep, GetByChatID, resolveUserID,
         Save, SetActive, StatementFails, StatementDone, MessageSent, MessageFails
<1> QED
  BY <1>2, <1>3 DEF CallFails, RestartTgBot, RestartAnalyser, MessageFails

LEMMA StopButtonStep ==
  ASSUME TypeOK, StopButtonStrengthening, Next
  PROVE  StopButtonStrengthening'
<1> SUFFICES ASSUME faults' = 0
             PROVE  StopButtonStrengthening'
  BY DEF StopButtonStrengthening
<1>1. /\ faults = 0 /\ UNCHANGED faults
      /\ ~ CallFails /\ ~ RestartTgBot /\ ~ RestartAnalyser
      /\ \A c \in Chats, k \in {"start", "stop"} : ~ MessageFails(c, k)
  BY NoFaultYet
<1>2. /\ orphans = {}
      /\ \A c \in Chats :
           (/\ keyboard[c] = "stop"
            /\ call = NoCall \/ call.chat # c \/ call.at # "ok")
           => ActiveRow(c)
      /\ (call # NoCall /\ call.kind = "setActive" /\ call.at = "ok") =>
           rows[call.chat] # NoRow /\ rows[call.chat].active = call.active
  BY <1>1 DEF StopButtonStrengthening
<1>3. keyboard \in [Chats -> {"none", "start", "stop"}]
  BY DEF TypeOK
<1>4. ASSUME NEW c \in Chats, handleStartCommand(c)
      PROVE  StopButtonStrengthening'
  <2>1. keyboard' = [keyboard EXCEPT ![c] = "start"] /\ call = NoCall
        /\ UNCHANGED <<call, orphans, rows>>
    BY <1>1, <1>4 DEF handleStartCommand, MessageSent, Show, Ready, dbVars
  <2> QED
    BY <1>2, <1>3, <2>1 DEF StopButtonStrengthening, ActiveRow
<1>5. ASSUME UNCHANGED <<keyboard, call, orphans, rows>>
      PROVE  StopButtonStrengthening'
  BY <1>2, <1>5 DEF StopButtonStrengthening, ActiveRow
<1>6. ASSUME UNCHANGED <<keyboard, orphans, rows>>,
             call = NoCall, call' # NoCall, call'.at # "ok"
      PROVE  StopButtonStrengthening'
  BY <1>2, <1>6 DEF StopButtonStrengthening, ActiveRow
<1>7. CASE UpsertAnswered
  <2>1. call.chat \in Chats /\ call # NoCall /\ call' = NoCall
        /\ UNCHANGED <<orphans, rows>>
    BY <1>7 DEF UpsertAnswered, TypeOK, Requests, dbVars
  <2>2. CASE Finished(call.at)
    <3>1. keyboard' = [keyboard EXCEPT ![call.chat] = "start"]
      BY <1>1, <1>7, <2>1, <2>2 DEF UpsertAnswered, MessageSent, Show
    <3> QED
      BY <1>2, <1>3, <2>1, <3>1 DEF StopButtonStrengthening, ActiveRow
  <2>3. CASE ~ Finished(call.at)
    BY <1>2, <1>7, <2>1, <2>3
       DEF UpsertAnswered, botVars, Finished, StopButtonStrengthening, ActiveRow
  <2> QED
    BY <2>2, <2>3
<1>8. CASE SetActiveAnswered
  <2>1. call.chat \in Chats /\ call # NoCall /\ call' = NoCall
        /\ call.kind = "setActive" /\ UNCHANGED <<orphans, rows>>
    BY <1>8 DEF SetActiveAnswered, TypeOK, Requests, dbVars
  <2>2. CASE call.at = "ok"
    <3>1. mainKeyboard(call.active) \in {"start", "stop"}
      BY DEF mainKeyboard
    <3>2. keyboard' = [keyboard EXCEPT ![call.chat] = mainKeyboard(call.active)]
      BY <1>1, <1>8, <2>1, <2>2, <3>1 DEF SetActiveAnswered, MessageSent, Show
    <3>3. mainKeyboard(call.active) = "stop" => ActiveRow(call.chat)
      BY <1>2, <2>1, <2>2 DEF mainKeyboard, ActiveRow
    <3> QED
      BY <1>2, <1>3, <2>1, <3>2, <3>3 DEF StopButtonStrengthening, ActiveRow
  <2>3. CASE call.at # "ok"
    BY <1>2, <1>8, <2>1, <2>3 DEF SetActiveAnswered, StopButtonStrengthening, ActiveRow
  <2> QED
    BY <2>2, <2>3
<1>9. CASE ServeCall
  <2>1. PICK at \in Places : HandlerStep(call, at) /\ call' = [call EXCEPT !.at = at]
    BY <1>9 DEF ServeCall
  <2>2. call \in Requests /\ call # NoCall /\ InProgress(call)
    BY <1>9, <2>1, HandlerTyped DEF ServeCall, TypeOK
  <2>3. /\ call' \in Requests /\ call' # NoCall /\ call'.at = at
        /\ call'.chat = call.chat /\ call'.kind = call.kind
        /\ call.kind = "setActive" => call'.active = call.active
    BY <2>1, <2>2, HandlerTyped, TgBotAssumption DEF Requests
  <2>4. UNCHANGED <<keyboard, orphans>>
    BY <1>9 DEF ServeCall, botVars
  <2>5. /\ at # "ok" => UNCHANGED rows
        /\ \A c \in Chats : c # call.chat => rows'[c] = rows[c]
        /\ (at = "ok" /\ call.kind = "setActive") =>
             rows'[call.chat] # NoRow /\ rows'[call.chat].active = call.active
    BY <1>1, <2>1, <2>2, HandlerEffect
  <2>6. call.at # "ok"
    BY <2>2 DEF InProgress
  <2> QED
    BY <1>2, <2>2, <2>3, <2>4, <2>5, <2>6 DEF StopButtonStrengthening, ActiveRow
<1>10. ~ ServeOrphan
  BY <1>2 DEF ServeOrphan
<1>11. ASSUME NEW c \in Chats, NEW v \in Numbers,
              handleMinDiffFact(c, v) \/ handleMinDiffPot(c, v) \/ handleMaxNotional(c, v)
       PROVE  StopButtonStrengthening'
  <2>1. CASE handleMaxNotional(c, v)
    <3>1. UNCHANGED <<keyboard, orphans, rows>> /\ call = NoCall
      BY <2>1 DEF handleMaxNotional, AtStep, Ready, dbVars
    <3>2. call'.at = "get" /\ call' # NoCall
      <4>1. v \in Threshold
        BY TgBotAssumption
      <4>2. call' \in Requests \cup {NoCall} /\ UNCHANGED rows
        BY <2>1, <4>1, WizardTyped
      <4>3. SettingsOf(dialogs'[c]) \in UserSettings
        BY <2>1, <4>1, WizardTyped, SettingsTyped
      <4>4. call' \in Requests
        BY <2>1, <4>3 DEF handleMaxNotional, Requests
      <4> QED
        BY <2>1, <4>4, TgBotAssumption DEF handleMaxNotional
    <3> QED
      BY <1>6, <3>1, <3>2
  <2>2. CASE handleMinDiffFact(c, v) \/ handleMinDiffPot(c, v)
    BY <1>5, <2>2 DEF handleMinDiffFact, handleMinDiffPot, dbVars
  <2> QED
    BY <1>11, <2>1, <2>2
<1>12. ASSUME NEW c \in Chats, startWizard(c) \/ handleChooseType(c)
       PROVE  StopButtonStrengthening'
  BY <1>5, <1>12 DEF startWizard, handleChooseType, dbVars
<1>13. ASSUME NEW c \in Chats, NEW active \in BOOLEAN, CallSetUserActive(c, active)
       PROVE  StopButtonStrengthening'
  <2>1. call' \in Requests /\ call'.at = "user"
    BY <1>13 DEF CallSetUserActive, Requests
  <2> QED
    BY <1>6, <1>13, <2>1, TgBotAssumption DEF CallSetUserActive, botVars, dbVars, Ready
<1> QED
  BY <1>1, <1>4, <1>7, <1>8, <1>9, <1>10, <1>11, <1>12, <1>13 DEF Next, HandleUpdate

\* As long as nothing failed, a chat shown the "stop" button is analysed.
THEOREM StopButtonIsTrue == Spec => []StopButtonMeansActive
<1>1. Init => StopButtonStrengthening
  BY DEF Init, StopButtonStrengthening
<1>2. TypeOK /\ StopButtonStrengthening /\ [Next]_vars => StopButtonStrengthening'
  <2> SUFFICES ASSUME TypeOK, StopButtonStrengthening, [Next]_vars
               PROVE  StopButtonStrengthening'
    OBVIOUS
  <2>1. CASE UNCHANGED vars
    BY <2>1 DEF vars, StopButtonStrengthening, ActiveRow
  <2> QED
    BY <2>1, StopButtonStep
<1>3. StopButtonStrengthening => StopButtonMeansActive
  BY DEF StopButtonStrengthening, StopButtonMeansActive, ActiveRow
<1> QED
  BY <1>1, <1>2, <1>3, TypeCorrect, PTL DEF Spec

-----------------------------------------------------------------------------
(* The end of the wizard.                                                  *)

\* The row of request r holds what it asked to store.
Stored(r) == rows[r.chat] # NoRow /\ rows[r.chat].settings = r.settings

\* As long as no request was left to itself, there is none but the update
\* loop's, the dialog it was made of waits for it unchanged, and an answer that
\* all is well means a row that holds it.
SavedInv ==
  /\ ~ orphaned => orphans = {}
  /\ (call # NoCall /\ call.kind = "upsert") =>
       /\ dialogs[call.chat].step = "input_max_notional"
       /\ call.settings = SettingsOf(dialogs[call.chat])
       /\ (~ orphaned /\ call.at = "ok") => Stored(call)

\* A handler that ends well has stored its settings.
LEMMA SaveStores ==
  ASSUME TypeOK, NEW r \in Requests, r.kind = "upsert", HandlerStep(r, "ok")
  PROVE  rows'[r.chat] # NoRow /\ rows'[r.chat].settings = r.settings
<1>1. Save(r, "ok")
  BY DEF HandlerStep, GetByChatID, resolveUserID, SetActive, StatementFails
<1> DEFINE row == [active |-> r.settings.watchFact \/ r.settings.watchPotential,
                   settings |-> r.settings]
<1>2. rows' = [rows EXCEPT ![r.chat] = row]
  BY <1>1 DEF Save
<1>3. r.chat \in Chats /\ r.settings \in UserSettings
  BY DEF Requests
<1>4. row \in Row
  BY <1>3, SavedRowTyped
<1>5. row.settings = r.settings
  OBVIOUS
<1> HIDE DEF row
<1>6. rows'[r.chat] = row
  BY <1>2, <1>3 DEF TypeOK
<1> QED
  BY <1>4, <1>5, <1>6, TgBotAssumption

LEMMA SavedStep ==
  ASSUME TypeOK, SavedInv, Next
  PROVE  SavedInv'
<1>1. ASSUME NEW c \in Chats, NEW v \in Numbers,
             handleMinDiffFact(c, v) \/ handleMinDiffPot(c, v)
      PROVE  call' = NoCall /\ UNCHANGED <<orphans, orphaned>>
  BY <1>1 DEF handleMinDiffFact, handleMinDiffPot, AtStep, Ready
<1>2. ASSUME NEW c \in Chats,
             handleStartCommand(c) \/ startWizard(c) \/ handleChooseType(c)
      PROVE  call' = NoCall /\ UNCHANGED <<orphans, orphaned>>
  BY <1>2 DEF handleStartCommand, startWizard, handleChooseType, AtStep, Ready
<1>3. ASSUME NEW c \in Chats, NEW v \in Numbers, handleMaxNotional(c, v)
      PROVE  SavedInv'
  <2>1. dialogs[c] \in DialogState /\ dialogs[c].step = "input_max_notional"
    BY <1>3 DEF handleMaxNotional, AtStep, TypeOK
  <2>2. dialogs'[c].step = "input_max_notional"
    BY <1>3, <2>1 DEF handleMaxNotional, TypeOK, DialogState
  <2>3. /\ call' = [kind |-> "upsert", chat |-> c,
                    settings |-> SettingsOf(dialogs'[c]), at |-> "get"]
        /\ UNCHANGED <<orphans, orphaned>>
    BY <1>3 DEF handleMaxNotional
  <2>4. /\ call'.chat = c /\ call'.settings = SettingsOf(dialogs'[c])
        /\ call'.at = "get"
    BY <2>3
  <2> QED
    BY <2>2, <2>3, <2>4 DEF SavedInv
<1>4. ASSUME NEW c \in Chats, NEW active \in BOOLEAN, CallSetUserActive(c, active)
      PROVE  SavedInv'
  <2>1. call'.kind = "setActive" /\ UNCHANGED <<orphans, orphaned>>
    BY <1>4 DEF CallSetUserActive
  <2> QED
    BY <2>1 DEF SavedInv
<1>5. CASE call' = NoCall /\ UNCHANGED <<orphans, orphaned>>
  BY <1>5 DEF SavedInv
<1>6. CASE UpsertAnswered \/ SetActiveAnswered
  <2>1. call' = NoCall /\ UNCHANGED <<orphans, orphaned>>
    BY <1>6 DEF UpsertAnswered, SetActiveAnswered
  <2> QED
    BY <2>1, <1>5
<1>7. CASE ServeCall
  <2>1. PICK at \in Places : HandlerStep(call, at) /\ call' = [call EXCEPT !.at = at]
    BY <1>7 DEF ServeCall
  <2>2. call \in Requests /\ call # NoCall
    BY <1>7 DEF ServeCall, TypeOK
  <2>3. /\ call'.at = at /\ call'.chat = call.chat /\ call'.kind = call.kind
        /\ call.kind = "upsert" => call'.settings = call.settings
    BY <2>1, <2>2 DEF Requests
  <2>4. UNCHANGED <<dialogs, orphans, orphaned>>
    BY <1>7 DEF ServeCall, botVars
  <2>5. (call.kind = "upsert" /\ at = "ok") =>
          rows'[call.chat] # NoRow /\ rows'[call.chat].settings = call.settings
    BY <2>1, <2>2, SaveStores
  <2> QED
    BY <2>2, <2>3, <2>4, <2>5 DEF SavedInv, Stored
<1>8. CASE ServeOrphan
  <2>1. orphaned /\ UNCHANGED <<dialogs, call, orphaned>>
    BY <1>8 DEF ServeOrphan, SavedInv, botVars
  <2> QED
    BY <2>1 DEF SavedInv
<1>9. CASE CallFails \/ RestartAnalyser
  <2>1. /\ UNCHANGED <<dialogs, rows>>
        /\ ~ orphaned' => ~ orphaned /\ orphans' = {}
    BY <1>9 DEF CallFails, RestartAnalyser, Abandon, SavedInv, botVars, dbVars
  <2>2. \/ call' = call
        \/ call # NoCall /\ call' = [call EXCEPT !.at = "err"]
    BY <1>9 DEF CallFails, RestartAnalyser
  <2>3. CASE call' = call
    BY <2>1, <2>3 DEF SavedInv, Stored
  <2>4. CASE call # NoCall /\ call' = [call EXCEPT !.at = "err"]
    <3>1. call \in Requests
      BY <2>4 DEF TypeOK
    <3>2. /\ call'.at = "err" /\ call'.chat = call.chat /\ call'.kind = call.kind
          /\ call.kind = "upsert" => call'.settings = call.settings
      BY <2>4, <3>1 DEF Requests
    <3> QED
      BY <2>1, <2>4, <3>2 DEF SavedInv
  <2> QED
    BY <2>2, <2>3, <2>4
<1>10. CASE RestartTgBot
  <2>1. call' = NoCall /\ (~ orphaned' => orphans' = {})
    BY <1>10 DEF RestartTgBot, Abandon, SavedInv
  <2> QED
    BY <2>1 DEF SavedInv
<1>11. CASE HandleUpdate
  BY <1>1, <1>2, <1>3, <1>4, <1>5, <1>11 DEF HandleUpdate
<1> QED
  BY <1>6, <1>7, <1>8, <1>9, <1>10, <1>11 DEF Next

\* A step that takes a wizard from its last question to its end, with what was
\* entered kept, is the answer to its request.
LEMMA OnlyAnswersEndWizards ==
  ASSUME TypeOK, Next, NEW c \in Chats,
         dialogs[c].step = "input_max_notional",
         dialogs'[c] = [dialogs[c] EXCEPT !.step = "idle"]
  PROVE  UpsertAnswered /\ call.chat = c /\ call.at = "ok"
<1>1. dialogs[c] \in DialogState /\ dialogs[c].watchType # ""
  BY CurrentDialog
<1>2. dialogs'[c].step = "idle" /\ dialogs'[c].watchType # ""
  BY <1>1 DEF DialogState
<1>3. ~ UNCHANGED dialogs
  BY <1>2
<1>4. ASSUME NEW b \in Chats, handleStartCommand(b) PROVE FALSE
  <2>1. PICK d \in {NewDialog, [NewDialog EXCEPT !.step = "choose_type"]} :
          dialogs' = [dialogs EXCEPT ![b] = d]
    BY <1>4 DEF handleStartCommand
  <2>2. d.watchType = ""
    <3>1. NewDialog.watchType = ""
      BY NewDialogTyped DEF NewDialog, DialogState
    <3>2. [NewDialog EXCEPT !.step = "choose_type"].watchType = NewDialog.watchType
      BY NewDialogTyped DEF DialogState
    <3> QED
      BY <3>1, <3>2
  <2>3. dialogs'[c] = d \/ dialogs'[c] = dialogs[c]
    BY <2>1 DEF TypeOK
  <2> QED
    BY <1>2, <2>2, <2>3
<1>5. ASSUME NEW b \in Chats, startWizard(b) PROVE FALSE
  BY <1>1, <1>2, <1>5 DEF startWizard, TypeOK, DialogState
<1>6. ASSUME NEW b \in Chats, handleChooseType(b) PROVE FALSE
  <2>1. PICK step \in {"input_min_diff_fact", "input_min_diff_pot"}, t \in WatchTypes :
          dialogs' = [dialogs EXCEPT ![b].watchType = t, ![b].step = step]
    BY <1>6 DEF handleChooseType
  <2>2. dialogs[b] \in DialogState
    BY DEF TypeOK
  <2>3. dialogs'[b].step = step /\ (c # b => dialogs'[c] = dialogs[c])
    BY <2>1, <2>2 DEF TypeOK, DialogState
  <2> QED
    BY <1>1, <1>2, <2>3
<1>7. ASSUME NEW b \in Chats, NEW v \in Numbers,
             handleMinDiffFact(b, v) \/ handleMinDiffPot(b, v) \/ handleMaxNotional(b, v)
      PROVE  FALSE
  <2>1. dialogs[b] \in DialogState /\ dialogs \in [Chats -> DialogState]
    BY DEF TypeOK
  <2>2. AfterFact(dialogs[b].watchType) # "idle"
    BY DEF AfterFact
  <2>3. CASE handleMinDiffFact(b, v)
    <3>1. dialogs'[b].step # "idle" /\ (c # b => dialogs'[c] = dialogs[c])
      BY <2>1, <2>2, <2>3 DEF handleMinDiffFact, DialogState
    <3> QED
      BY <1>1, <1>2, <3>1
  <2>4. CASE handleMinDiffPot(b, v)
    <3>1. dialogs'[b].step # "idle" /\ (c # b => dialogs'[c] = dialogs[c])
      BY <2>1, <2>4 DEF handleMinDiffPot, DialogState
    <3> QED
      BY <1>1, <1>2, <3>1
  <2>5. CASE handleMaxNotional(b, v)
    <3>1. dialogs'[b].step # "idle" /\ (c # b => dialogs'[c] = dialogs[c])
      BY <2>1, <2>5 DEF handleMaxNotional, AtStep, DialogState
    <3> QED
      BY <1>1, <1>2, <3>1
  <2> QED
    BY <1>7, <2>3, <2>4, <2>5
<1>8. ~ RestartTgBot
  <2>1. NewDialog.watchType = ""
    BY NewDialogTyped DEF NewDialog, DialogState
  <2> QED
    BY <1>2, <2>1 DEF RestartTgBot
<1>9. UpsertAnswered
  BY <1>3, <1>4, <1>5, <1>6, <1>7, <1>8
     DEF Next, HandleUpdate, CallSetUserActive, SetActiveAnswered, ServeCall,
         ServeOrphan, CallFails, RestartAnalyser, botVars
<1>10. dialogs' = [dialogs EXCEPT ![call.chat].step = "idle"] /\ call.at = "ok"
  BY <1>3, <1>9 DEF UpsertAnswered, Finished, botVars
<1>11. call.chat = c
  BY <1>1, <1>2, <1>10 DEF TypeOK
<1> QED
  BY <1>9, <1>10, <1>11

\* The wizard ends only when the row holds what was entered, unless a request
\* was left to itself.
THEOREM WizardsEndSaved == Spec => WizardEndsSaved
<1>1. Init => SavedInv
  BY DEF Init, SavedInv
<1>2. TypeOK /\ SavedInv /\ [Next]_vars => SavedInv'
  <2> SUFFICES ASSUME TypeOK, SavedInv, [Next]_vars PROVE SavedInv'
    OBVIOUS
  <2>1. CASE UNCHANGED vars
    BY <2>1 DEF vars, SavedInv, Stored
  <2> QED
    BY <2>1, SavedStep
<1>3. TypeOK /\ SavedInv /\ [Next]_vars =>
        [\A c \in Chats :
           (/\ dialogs[c].step = "input_max_notional"
            /\ dialogs'[c] = [dialogs[c] EXCEPT !.step = "idle"]
            /\ ~ orphaned)
           => rows[c] # NoRow /\ rows[c].settings = SettingsOf(dialogs[c])]_vars
  <2> SUFFICES ASSUME TypeOK, SavedInv, Next, NEW c \in Chats,
                      dialogs[c].step = "input_max_notional",
                      dialogs'[c] = [dialogs[c] EXCEPT !.step = "idle"],
                      ~ orphaned
               PROVE  rows[c] # NoRow /\ rows[c].settings = SettingsOf(dialogs[c])
    OBVIOUS
  <2>1. UpsertAnswered /\ call.chat = c /\ call.at = "ok"
    BY OnlyAnswersEndWizards
  <2>2. call # NoCall /\ call.kind = "upsert"
    BY <2>1 DEF UpsertAnswered
  <2> QED
    BY <2>1, <2>2 DEF SavedInv, Stored
<1> QED
  BY <1>1, <1>2, <1>3, TypeCorrect, PTL DEF Spec, WizardEndsSaved
=============================================================================
