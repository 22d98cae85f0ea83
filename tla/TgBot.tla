-------------------------------- MODULE TgBot --------------------------------
(***************************************************************************)
(* The settings path: tg-bot's update loop with its dialogs and keyboards, *)
(* and the analyser's gRPC handlers UpsertUserSettings and SetUserActive   *)
(* with their calls to Postgres.                                           *)
(*                                                                         *)
(* tg-bot handles one update at a time, all chats together, and waits for  *)
(* each call without a deadline.  The handler of a call whose answer was   *)
(* lost, or whose caller died, may go on (orphans).                        *)
(*                                                                         *)
(* A message that changes nothing (an unknown command, a text outside the  *)
(* wizard, a number it refuses) is not a step.  A number is an Int or NaN; *)
(* one that does not parse is such a message.  resolvePairID reads a row   *)
(* the migration inserted: its failure is that of the write after it.      *)
(***************************************************************************)
EXTENDS Domain, FiniteSets

CONSTANTS
  Chats,
  Numbers,         \* what users type
  DiffLimit,       \* NUMERIC(18,8) refuses a threshold from here on
  NotionalLimit,   \* NUMERIC(30,10) refuses a notional from here on
  NoRow,           \* a chat with no row in user_pair_settings
  NoCall,          \* the update loop waits for an update
  MaxFaults        \* bound: failed calls and messages, and restarts

WatchTypes == {"fact_only", "potential_only", "both"}
Steps == {"idle", "choose_type", "input_min_diff_fact", "input_min_diff_pot",
          "input_max_notional"}
DialogState ==
  [step : Steps, watchType : WatchTypes \cup {""},
   minDiffFact : Threshold, minDiffPotential : Threshold, maxNotional : Threshold]
Row == [active : BOOLEAN, settings : UserSettings]

\* A gRPC request and how far its handler is.
Requests ==
  [kind : {"upsert"}, chat : Chats, settings : UserSettings,
   at : {"get", "user", "write", "ok", "err"}] \cup
  [kind : {"setActive"}, chat : Chats, active : BOOLEAN,
   at : {"user", "write", "ok", "err"}]

ASSUME TgBotAssumption ==
  /\ Numbers \subseteq Threshold
  /\ DiffLimit \in Nat \ {0} /\ NotionalLimit \in Nat \ {0}
  /\ NoRow \notin Row
  /\ NoCall \notin Requests
  /\ MaxFaults \in Nat

VARIABLES
  dialogs,     \* tg-bot: the wizard of each chat
  keyboard,    \* Telegram: the button each chat was shown last
  call,        \* the request the update loop waits for
  orphans,     \* requests whose caller is gone
  users,       \* Postgres: chats with a row in users
  rows,        \* Postgres: user_pair_settings, by chat
  faults,
  orphaned     \* history: was a request ever left to itself?

botVars == <<dialogs, keyboard>>
dbVars == <<users, rows>>
vars == <<dialogs, keyboard, call, orphans, users, rows, faults, orphaned>>

NewDialog == [step |-> "idle", watchType |-> "", minDiffFact |-> 0,
              minDiffPotential |-> 0, maxNotional |-> 0]

Init ==
  /\ dialogs = [c \in Chats |-> NewDialog]
  /\ keyboard = [c \in Chats |-> "none"]
  /\ call = NoCall
  /\ orphans = {}
  /\ users = {}
  /\ rows = [c \in Chats |-> NoRow]
  /\ faults = 0
  /\ orphaned = FALSE

Fault == faults < MaxFaults /\ faults' = faults + 1

\* A message with keyboard k is sent to c: shown, failed, or shown and still
\* reported as failed.
Show(c, k) == keyboard' = [keyboard EXCEPT ![c] = k]

MessageSent(c, k) == Show(c, k) /\ UNCHANGED faults
MessageFails(c, k) == Fault /\ (Show(c, k) \/ UNCHANGED keyboard)

-----------------------------------------------------------------------------
(* The update loop.                                                        *)

Ready == call = NoCall

AtStep(c, step) == Ready /\ dialogs[c].step = step

\* /start: a fresh dialog; the wizard only if the welcome went out.
handleStartCommand(c) ==
  /\ Ready
  /\ \/ /\ MessageSent(c, "start")
        /\ dialogs' = [dialogs EXCEPT ![c] = [NewDialog EXCEPT !.step = "choose_type"]]
     \/ /\ MessageFails(c, "start")
        /\ dialogs' = [dialogs EXCEPT ![c] = NewDialog]
  /\ UNCHANGED <<call, orphans, dbVars, orphaned>>

\* A variant that goes straight to the first number.
startWizardUnasked(c) ==
  /\ Ready
  /\ dialogs' = [dialogs EXCEPT ![c].step = "input_min_diff_fact"]
  /\ UNCHANGED <<keyboard, call, orphans, dbVars, faults, orphaned>>

\* "Change the parameters": what was entered before stays in the dialog.
startWizard(c) ==
  /\ Ready
  /\ dialogs' = [dialogs EXCEPT ![c].step = "choose_type"]
  /\ UNCHANGED <<keyboard, call, orphans, dbVars, faults, orphaned>>

handleChooseType(c) ==
  /\ AtStep(c, "choose_type")
  /\ \E t \in WatchTypes :
       dialogs' = [dialogs EXCEPT
         ![c].watchType = t,
         ![c].step = IF t = "potential_only" THEN "input_min_diff_pot"
                                             ELSE "input_min_diff_fact"]
  /\ UNCHANGED <<keyboard, call, orphans, dbVars, faults, orphaned>>

\* v <= 0 and v < 0 are false of NaN.
NotPositive(v) == v # NaN /\ v <= 0
Negative(v) == v # NaN /\ v < 0

\* A variant that never asks for the second threshold.
AfterFactAlways(watchType) == "input_max_notional"

AfterFact(watchType) ==
  IF watchType = "fact_only" THEN "input_max_notional" ELSE "input_min_diff_pot"

handleMinDiffFact(c, v) ==
  /\ AtStep(c, "input_min_diff_fact")
  /\ ~ NotPositive(v)
  /\ dialogs' = [dialogs EXCEPT
       ![c].minDiffFact = v, ![c].step = AfterFact(dialogs[c].watchType)]
  /\ UNCHANGED <<keyboard, call, orphans, dbVars, faults, orphaned>>

handleMinDiffPot(c, v) ==
  /\ AtStep(c, "input_min_diff_pot")
  /\ ~ NotPositive(v)
  /\ dialogs' = [dialogs EXCEPT
       ![c].minDiffPotential = v, ![c].step = "input_max_notional"]
  /\ UNCHANGED <<keyboard, call, orphans, dbVars, faults, orphaned>>

\* What finishWizard sends, and what the analyser's handler keeps of it: the
\* request's IsActive is not looked at.
SettingsOf(d) ==
  [watchFact |-> d.watchType \in {"fact_only", "both"},
   watchPotential |-> d.watchType \in {"potential_only", "both"},
   minDiffFact |-> d.minDiffFact, minDiffPotential |-> d.minDiffPotential,
   maxNotional |-> d.maxNotional]

\* The last number, and the call of finishWizard.
handleMaxNotional(c, v) ==
  /\ AtStep(c, "input_max_notional")
  /\ ~ Negative(v)
  /\ dialogs' = [dialogs EXCEPT ![c].maxNotional = v]
  /\ call' = [kind |-> "upsert", chat |-> c, settings |-> SettingsOf(dialogs'[c]),
              at |-> "get"]
  /\ UNCHANGED <<keyboard, orphans, dbVars, faults, orphaned>>

\* handleStartAnalysis (active) and handleStop, by button or by /stop.
CallSetUserActive(c, active) ==
  /\ Ready
  /\ call' = [kind |-> "setActive", chat |-> c, active |-> active, at |-> "user"]
  /\ UNCHANGED <<botVars, orphans, dbVars, faults, orphaned>>

\* A variant that leaves the wizard whatever the answer was.
FinishedAlways(answer) == TRUE

\* if err != nil { ...; return err }
Finished(answer) == answer = "ok"

\* The rest of finishWizard.
UpsertAnswered ==
  /\ call # NoCall /\ call.kind = "upsert" /\ call.at \in {"ok", "err"}
  /\ IF Finished(call.at)
     THEN /\ dialogs' = [dialogs EXCEPT ![call.chat].step = "idle"]
          /\ MessageSent(call.chat, "start") \/ MessageFails(call.chat, "start")
     ELSE UNCHANGED <<botVars, faults>>
  /\ call' = NoCall
  /\ UNCHANGED <<orphans, dbVars, orphaned>>

\* A variant with the argument of mainKeyboard lost.
mainKeyboardStop(active) == "stop"

mainKeyboard(active) == IF active THEN "stop" ELSE "start"

\* The rest of handleStartAnalysis and handleStop.
SetActiveAnswered ==
  /\ call # NoCall /\ call.kind = "setActive" /\ call.at \in {"ok", "err"}
  /\ IF call.at = "ok"
     THEN \/ MessageSent(call.chat, mainKeyboard(call.active))
          \/ MessageFails(call.chat, mainKeyboard(call.active))
     ELSE UNCHANGED <<keyboard, faults>>
  /\ call' = NoCall
  /\ UNCHANGED <<dialogs, orphans, dbVars, orphaned>>

-----------------------------------------------------------------------------
(* The analyser's handlers.  r is the request before a step, `at` the      *)
(* place after it.                                                         *)

InProgress(r) == r.at \notin {"ok", "err"}

\* UpsertUserSettings looks for a row first; every field it found is replaced.
GetByChatID(r, at) ==
  /\ r.at = "get" /\ at = "user"
  /\ UNCHANGED <<dbVars, faults>>

resolveUserID(r, at) ==
  /\ r.at = "user" /\ at = "write"
  /\ users' = users \cup {r.chat}
  /\ UNCHANGED <<rows, faults>>

\* The columns' precision; NUMERIC has a NaN.
Fits(s) ==
  /\ \A v \in {s.minDiffFact, s.minDiffPotential} : v = NaN \/ v < DiffLimit
  /\ s.maxNotional = NaN \/ s.maxNotional < NotionalLimit

\* A statement's answer: it arrives, or it is lost and the handler fails.
StatementDone(at) ==
  \/ at = "ok" /\ UNCHANGED faults
  \/ at = "err" /\ Fault

Save(r, at) ==
  /\ r.at = "write" /\ r.kind = "upsert"
  /\ IF Fits(r.settings)
     THEN /\ rows' = [rows EXCEPT ![r.chat] =
                        [active |-> r.settings.watchFact \/ r.settings.watchPotential,
                         settings |-> r.settings]]
          /\ StatementDone(at)
     ELSE at = "err" /\ UNCHANGED <<rows, faults>>
  /\ UNCHANGED users

\* No row updated is ErrNotFound.
SetActive(r, at) ==
  /\ r.at = "write" /\ r.kind = "setActive"
  /\ IF rows[r.chat] # NoRow
     THEN rows' = [rows EXCEPT ![r.chat].active = r.active] /\ StatementDone(at)
     ELSE at = "err" /\ UNCHANGED <<rows, faults>>
  /\ UNCHANGED users

\* A statement fails without effect.
StatementFails(r, at) ==
  /\ InProgress(r) /\ at = "err"
  /\ Fault
  /\ UNCHANGED dbVars

HandlerStep(r, at) ==
  \/ GetByChatID(r, at) \/ resolveUserID(r, at) \/ Save(r, at)
  \/ SetActive(r, at) \/ StatementFails(r, at)

Places == {"user", "write", "ok", "err"}

ServeCall ==
  /\ call # NoCall
  /\ \E at \in Places :
       /\ HandlerStep(call, at)
       /\ call' = [call EXCEPT !.at = at]
  /\ UNCHANGED <<botVars, orphans, orphaned>>

ServeOrphan ==
  /\ \E r \in orphans, at \in Places :
       /\ HandlerStep(r, at)
       /\ orphans' = (orphans \ {r}) \cup {q \in {[r EXCEPT !.at = at]} : InProgress(q)}
  /\ UNCHANGED <<botVars, call, orphaned>>

-----------------------------------------------------------------------------
(* Failures.                                                               *)

\* The call's handler goes on without its caller, or never ran further.
Abandon ==
  \/ /\ InProgress(call)
     /\ orphans' = orphans \cup {call}
     /\ orphaned' = TRUE
  \/ UNCHANGED <<orphans, orphaned>>

\* The connection breaks: the caller gets an error.
CallFails ==
  /\ call # NoCall /\ call.at # "err"
  /\ Fault
  /\ Abandon
  /\ call' = [call EXCEPT !.at = "err"]
  /\ UNCHANGED <<botVars, dbVars>>

\* tg-bot restarts: the dialogs are gone, and the update in progress.
RestartTgBot ==
  /\ Fault
  /\ dialogs' = [c \in Chats |-> NewDialog]
  /\ IF call = NoCall THEN UNCHANGED <<orphans, orphaned>> ELSE Abandon
  /\ call' = NoCall
  /\ UNCHANGED <<keyboard, dbVars>>

\* The analyser restarts: its handlers are gone.
RestartAnalyser ==
  /\ Fault
  /\ orphans' = {}
  /\ call' = IF call # NoCall /\ InProgress(call) THEN [call EXCEPT !.at = "err"]
                                                  ELSE call
  /\ UNCHANGED <<botVars, dbVars, orphaned>>

-----------------------------------------------------------------------------
HandleUpdate ==
  \E c \in Chats :
    \/ handleStartCommand(c) \/ startWizard(c) \/ handleChooseType(c)
    \/ \E v \in Numbers :
         handleMinDiffFact(c, v) \/ handleMinDiffPot(c, v) \/ handleMaxNotional(c, v)
    \/ \E active \in BOOLEAN : CallSetUserActive(c, active)

Next ==
  \/ HandleUpdate \/ UpsertAnswered \/ SetActiveAnswered
  \/ ServeCall \/ ServeOrphan
  \/ CallFails \/ RestartTgBot \/ RestartAnalyser

Spec == Init /\ [][Next]_vars

-----------------------------------------------------------------------------
(* Properties.                                                             *)

TypeOK ==
  /\ dialogs \in [Chats -> DialogState]
  /\ keyboard \in [Chats -> {"none", "start", "stop"}]
  /\ call \in Requests \cup {NoCall}
  /\ orphans \in SUBSET {r \in Requests : InProgress(r)}
  /\ users \in SUBSET Chats
  /\ rows \in [Chats -> Row \cup {NoRow}]
  /\ faults \in 0 .. MaxFaults
  /\ orphaned \in BOOLEAN
  /\ \A c \in Chats :
       dialogs[c].step \notin {"idle", "choose_type"} => dialogs[c].watchType # ""

\* A kind of opportunity is never watched with a threshold nobody entered (0):
\* whatever was typed, changed, failed or restarted before, the settings that
\* reach Postgres have a threshold for each kind they watch
\* (tg-bot/usecase/service.go: the order of the wizard's steps).
HasThresholds(s) ==
  /\ s.watchFact => ~ NotPositive(s.minDiffFact)
  /\ s.watchPotential => ~ NotPositive(s.minDiffPotential)

WatchedKindHasThreshold ==
  \A c \in Chats : rows[c] # NoRow => HasThresholds(rows[c].settings)

\* Why: each step of the wizard comes after those its answers are needed for,
\* and what was entered stays entered - in the dialog, which the user may
\* restart at any step, and in the requests made of it.
WizardInOrder(d) ==
  /\ d.step = "input_min_diff_fact" => d.watchType \in {"fact_only", "both"}
  /\ d.step = "input_min_diff_pot" =>
       /\ d.watchType \in {"potential_only", "both"}
       /\ d.watchType = "both" => ~ NotPositive(d.minDiffFact)
  /\ d.step = "input_max_notional" => HasThresholds(SettingsOf(d))

ThresholdStrengthening ==
  /\ \A c \in Chats : WizardInOrder(dialogs[c])
  /\ call # NoCall /\ call.kind = "upsert" => HasThresholds(call.settings)
  /\ \A r \in orphans : r.kind = "upsert" => HasThresholds(r.settings)

\* The wizard leaves its last step for idle only when the row holds what was
\* entered: a save that was refused, or failed, keeps the user in the wizard
\* (finishWizard returns before dlg.Step = StepIdle).  It may not be so
\* when an earlier request was left to itself: it can still overwrite the row.
WizardEndsSaved ==
  [][\A c \in Chats :
       (/\ dialogs[c].step = "input_max_notional"
        /\ dialogs'[c] = [dialogs[c] EXCEPT !.step = "idle"]
        /\ ~ orphaned)
       => rows[c] # NoRow /\ rows[c].settings = SettingsOf(dialogs[c])]_vars

ActiveRow(c) == rows[c] # NoRow /\ rows[c].active

\* The "stop" button is shown only to a chat that is being analysed, as long
\* as no message or call failed (handleStartAnalysis, handleStop).
StopButtonMeansActive ==
  \A c \in Chats :
    (/\ keyboard[c] = "stop"
     /\ faults = 0
     /\ call = NoCall \/ call.chat # c)
    => ActiveRow(c)

\* Why: without a failure nothing is left to itself, a request that is not
\* carried out changed nothing, and one that is decides the button.
StopButtonStrengthening ==
  faults = 0 =>
    /\ orphans = {}
    /\ \A c \in Chats :
         (/\ keyboard[c] = "stop"
          /\ call = NoCall \/ call.chat # c \/ call.at # "ok")
         => ActiveRow(c)
    /\ (call # NoCall /\ call.kind = "setActive" /\ call.at = "ok") =>
         rows[call.chat] # NoRow /\ rows[call.chat].active = call.active

\* tg-bot/usecase/service.go:290,294: with the settings saved the chat is "not
\* active yet", press "start" to start; Architecture.md:415: "start" is what
\* sets enabled - so the "start" button means a chat that is not analysed.
StartButtonMeansInactive ==
  \A c \in Chats :
    (/\ keyboard[c] = "start"
     /\ faults = 0
     /\ call = NoCall \/ call.chat # c)
    => ~ ActiveRow(c)
=============================================================================
