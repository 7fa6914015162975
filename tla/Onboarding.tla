----------------------------- MODULE Onboarding -----------------------------
(***************************************************************************)
(* The first-time setup.  Which step is shown follows from the copy of     *)
(* uiConfig; every button saves a whole uiConfig made from the copy that   *)
(* the button was rendered with, and two of them do so after waiting for   *)
(* other answers.  App leads to the setup as long as it is not done, and   *)
(* the setup leads home once it is.                                        *)
(***************************************************************************)
EXTENDS FormPages

\* Positions in `steps`.
Landing == 0
TwitchIntegration == 1
TwitchEvents == 2
Done == 3
Steps == {Landing, TwitchIntegration, TwitchEvents, Done}

Onboarded(config) == Field(config, "done", FALSE)
StepOf(config) == Field(config, "step", Landing)

ASSUME SetupAssumption == \A saved \in Saved : StepOf(saved["uiConfig"]) \in Steps

\* What the hooks of a step use; the page's own comes last.
StepHooks ==
  [step \in Steps |->
     CASE step = Landing -> <<>>
       [] step = TwitchIntegration -> <<Http, Twitch, Ui>>
       [] step = TwitchEvents -> <<Twitch, Bot, Ui>>
       [] step = Done -> <<Ui>>]
SetupHooks(step) == StepHooks[step] \o <<Ui>>
SetupLocal(step) == [kind |-> "closed", step |-> step, testing |-> FALSE,
                     user |-> null, keys |-> null, n |-> 0]

AuthKeys(step) == IF step = TwitchEvents THEN {"authKeys"} ELSE {}
AuthRequests(step) ==
  IF step = TwitchEvents THEN <<Get("authKeys"), Sub("authKeys")>> ELSE <<>>

Stale == page = "setup" /\ local.step # StepOf(copies[Ui])

\* The page renders another step.
RenderStep ==
  /\ Here("setup") /\ Stale
  /\ LET step == StepOf(copies[Ui]) IN
       /\ local' = [SetupLocal(step) EXCEPT !.n = local.n + 1]
       /\ Swap(ToSet(StepHooks[local.step]) \union AuthKeys(local.step),
               ToSet(StepHooks[step]) \union AuthKeys(step),
               Mounting(StepHooks[step], {Ui}) \o AuthRequests(step), {Ui})
       /\ tasks' = IF step = TwitchEvents THEN tasks \union {Task("userInfo", page, local')}
                   ELSE tasks
  /\ UNCHANGED <<hub, down, conn, copy, page, budget>>

Step(step) == Here("setup") /\ local.step = step

SkipSetup == Step(Landing) /\ SetUi("done", TRUE)
Welcome == Step(Landing) /\ SetUi("step", StepOf(copies[Ui]) + 1)
SetupLanguage(l) == Step(Landing) /\ SetUi("lang", l)
\* "Can't skip ahead"
BackTo(step) == Here("setup") /\ step < local.step /\ SetUi("step", step)
FinishSetup == Step(Done) /\ SetUi("done", TRUE)

-----------------------------------------------------------------------------
(* The credentials.                                                        *)

TypeSetupKeys(text) ==
  Step(TwitchIntegration) /\ Changes(Twitch, Spread(copies[Twitch], "creds", text))
SubmitSetupKeys ==
  /\ Step(TwitchIntegration) /\ Field(copies[Twitch], "creds", "") # ""
  /\ Submits(Twitch)
SkipTwitch == Step(TwitchIntegration) /\ SetUi("step", Done)

\* An async function keeps the configurations of the render it began in.
Continues(what, user) ==
  [does |-> what, page |-> page, mount |-> Mount, n |-> local.n, user |-> user,
   twitch |-> copies[Twitch], bot |-> copies[Bot], ui |-> copies[Ui],
   keys |-> local.keys]

CheckCredentials ==
  /\ Step(TwitchIntegration) /\ ~local.testing /\ Spend("edit")
  /\ Field(copies[Twitch], "creds", "") # ""
  /\ local' = [local EXCEPT !.testing = TRUE]
  /\ tasks' = tasks \union {Continues("checkKeys", null)}
  /\ UNCHANGED <<hub, wire, conn, copy, status, page, hooks>>

Tested(task) ==
  local' = IF Mounted(task) THEN [local EXCEPT !.testing = FALSE] ELSE local
\* Fault: the next step is counted from the one there is by then.
KeysAcceptedNow(task) ==
  /\ Ends(task, "checkKeys") /\ Tested(task)
  /\ Send(<<Put(Twitch, Spread(task.twitch, "on", TRUE), task.twitch),
            Put(Ui, Spread(copies[Ui], "step", StepOf(copies[Ui]) + 1), copies[Ui])>>)
  /\ save' = [save EXCEPT ![Twitch] = "pending", ![Ui] = "pending"]
  /\ UNCHANGED <<hub, down, conn, copy, load, page, hooks, budget>>

\* The keys are good: Twitch is enabled, and the next step is asked for.
KeysAccepted(task) ==
  /\ Ends(task, "checkKeys") /\ Tested(task)
  /\ Send(<<Put(Twitch, Spread(task.twitch, "on", TRUE), task.twitch),
            Put(Ui, Spread(task.ui, "step", StepOf(task.ui) + 1), task.ui)>>)
  /\ save' = [save EXCEPT ![Twitch] = "pending", ![Ui] = "pending"]
  /\ UNCHANGED <<hub, down, conn, copy, load, page, hooks, budget>>

KeysRefused(task) ==
  /\ Ends(task, "checkKeys") /\ Tested(task)
  /\ UNCHANGED <<hub, wire, conn, copy, status, page, hooks, budget>>

-----------------------------------------------------------------------------
(* The events: who is logged in, and the bot that is made of them.         *)

\* kv.getKey(...).then: of the step that asked; an older one is gone.
AuthKeysRead ==
  /\ Receive("value") /\ Head(down).key = "authKeys"
  /\ LET later == Get("authKeys") \in ToSet(up)
                    \/ \E i \in 2 .. Len(down) :
                         down[i].is = "value" /\ down[i].key = "authKeys"
     IN local' = IF Step(TwitchEvents) /\ ~later /\ Head(down).value # absent
                 THEN [local EXCEPT !.keys = Head(down).value] ELSE local
  /\ UNCHANGED <<hub, up, conn, copy, status, page, hooks, tasks, budget>>

\* The button is there once somebody is logged in.  Its first request goes
\* out at once, the others when the one before is answered.
FinishStep ==
  /\ Step(TwitchEvents) /\ local.user \notin {null, absent} /\ Spend("edit")
  /\ Send(<<PutThen(Twitch, Spread(copies[Twitch], "bot", TRUE), copies[Twitch],
                    "setBot")>>)
  /\ save' = [save EXCEPT ![Twitch] = "pending"]
  /\ tasks' = tasks \union {Continues("setBot", local.user)}
  /\ UNCHANGED <<hub, down, conn, copy, load, view>>

\* A setter that awaited its answer starts the getter and goes on.
Answered(k, task) ==
  /\ Receive("stored") /\ Head(down).then = task.does
  /\ load' = [load EXCEPT ![k] = "pending"]

\* setBotConfig; reading the token of keys that never came throws.
BotSaved(task) ==
  /\ task.does = "setBot" /\ Answered(Twitch, task)
  /\ IF task.keys = null
     THEN /\ Send(<<Get(Twitch)>>) /\ tasks' = tasks \ {task}
          /\ save' = [save EXCEPT ![Twitch] = "success"]
     ELSE /\ Send(<<Get(Twitch), PutThen(Bot, Spread(task.bot, "text", task.user),
                                         task.bot, "setStep")>>)
          /\ tasks' = (tasks \ {task}) \union {[task EXCEPT !.does = "setStep"]}
          /\ save' = [save EXCEPT ![Twitch] = "success", ![Bot] = "pending"]
  /\ UNCHANGED <<hub, conn, copy, view, budget>>

StepSaved(task) ==
  /\ Ends(task, "setStep") /\ Answered(Bot, task)
  /\ Send(<<Get(Bot), Put(Ui, Spread(task.ui, "step", Done), task.ui)>>)
  /\ save' = [save EXCEPT ![Bot] = "success", ![Ui] = "pending"]
  /\ UNCHANGED <<hub, conn, copy, view, budget>>

OnboardingNext ==
  \/ \E step \in Steps : BackTo(step)
  \/ \E l \in Languages : SetupLanguage(l)
  \/ \E text \in Texts \union {""} : TypeSetupKeys(text)
  \/ \E task \in tasks : KeysAccepted(task) \/ KeysRefused(task)
                         \/ BotSaved(task) \/ StepSaved(task)
  \/ SkipSetup \/ Welcome \/ FinishSetup \/ SubmitSetupKeys \/ SkipTwitch
  \/ CheckCredentials \/ AuthKeysRead \/ FinishStep

-----------------------------------------------------------------------------
\* The step that is stored is one of `steps`: with any other the page would
\* show nothing and offer no way on.  What is added to the step comes from
\* a render of the step before, however long its check of the keys took.
StoredStepExists == StepOf(db[Ui]) \in Steps /\ StepOf(copies[Ui]) \in Steps
=============================================================================
