----------------------------- MODULE FormPages ------------------------------
(***************************************************************************)
(* The settings pages: chat alerts, loyalty, web server, Twitch, interface *)
(* and the switch on the home page.  What is typed goes into the store's   *)
(* own copy of the configuration (a draft), submitting saves that copy,    *)
(* and the switches at the head of a page save at once, drafts included.   *)
(* A configuration is the record of the fields somebody set so far, a      *)
(* missing one has the default its page shows.                             *)
(***************************************************************************)
EXTENDS EntryPages

CONSTANTS
  Sections,  \* the events that have an alert
  Languages,
  Accounts   \* Twitch accounts

Field(config, f, default) == IF f \in Names(config) THEN config[f] ELSE default
\* {...config, f: v}
Spread(config, f, v) == With(OrEmpty(config), f, v)
Flipped(config, f) == Spread(config, f, ~Field(config, f, FALSE))

Busy(k) == load[k] # "success" \/ save[k] = "pending"

\* Input that goes into the copy.
Changes(k, v) ==
  /\ Spend("type") /\ Draft(k, v)
  /\ UNCHANGED <<hub, wire, conn, status, view, tasks>>

\* The submit button, which saves the copy whatever its state.
Submits(k) == Clicked(k, copies[k], local)

Plain == [kind |-> "closed"]

-----------------------------------------------------------------------------
(* Chat alerts.  With no copy, spreading a section of it throws.           *)

Alerts == "twitchBotAlerts"
Alert(s) == Field(copies[Alerts], s, null)
SetAlert(s, alert) ==
  /\ Here("alerts") /\ copies[Alerts] # null
  /\ Changes(Alerts, Spread(copies[Alerts], s, alert))

TickAlert(s) == SetAlert(s, Flipped(Alert(s), "on"))
TypeAlert(s, text) ==
  Field(Alert(s), "on", FALSE) /\ SetAlert(s, Spread(Alert(s), "text", text))
SubmitAlerts == Here("alerts") /\ Submits(Alerts)

-----------------------------------------------------------------------------
(* Loyalty.  Disabled fields are not validated.                            *)

Loyalty == "loyaltyConfig"
LoyaltyActive == Field(copies[Loyalty], "on", FALSE)
LoyaltyDisabled == ~LoyaltyActive \/ Busy(Loyalty)

SwitchLoyalty ==
  Here("loyalty") /\ Clicked(Loyalty, Flipped(copies[Loyalty], "on"), local)
TypeLoyalty(text) ==
  /\ Here("loyalty") /\ ~LoyaltyDisabled
  /\ Changes(Loyalty, Spread(copies[Loyalty], "text", text))
SubmitLoyalty ==
  /\ Here("loyalty")
  /\ LoyaltyDisabled \/ Field(copies[Loyalty], "text", "") # ""
  /\ Submits(Loyalty)

-----------------------------------------------------------------------------
(* Web server.  Without a password the form asks once more.                *)

Http == "httpConfig"
Insecure == Field(copies[Http], "pass", "") = ""

TypeServer(f, text) ==
  /\ Free("server") /\ ~Busy(Http)
  /\ Changes(Http, Spread(copies[Http], f, text))

SubmitServer ==
  /\ Free("server")
  /\ Busy(Http) \/ Field(copies[Http], "text", "") # ""
  /\ IF Insecure THEN Turned([local EXCEPT !.kind = "warning"]) ELSE Submits(Http)

ConfirmInsecure == Open("server") /\ Clicked(Http, copies[Http], Plain)
GoBack == Open("server") /\ Turned(Plain)

-----------------------------------------------------------------------------
(* Both forms are disabled while they are busy.                            *)

Forms == [loyalty |-> Loyalty, server |-> Http]

\* Another client of the hub writes a configuration of its own.
Theirs == [f \in {"text"} |-> "theirs"]
ConfigWritten(p) ==
  Here(p) /\ Spend("write") /\ WrittenElsewhere(Forms[p], Theirs)

-----------------------------------------------------------------------------
(* Twitch: the switch of the page, and three tabs.                         *)

Twitch == "twitchConfig"
Bot == "twitchBotConfig"
\* user: what getUserInfo answered, absent when nobody is logged in; n: which
\* mount of the tab this is.
TwitchLocal == [kind |-> "closed", tab |-> "api", testing |-> FALSE,
                user |-> null, n |-> 0]

SwitchTwitch ==
  Here("twitch") /\ Clicked(Twitch, Flipped(copies[Twitch], "on"), local)

Tab(tab) ==
  Here("twitch") /\ local.tab = tab /\ Field(copies[Twitch], "on", FALSE)

\* What the hooks of a tab use, in their order; the page's own comes last.
TabHooks ==
  [api |-> <<Http, Twitch>>, events |-> <<"authKeys">>, bot |-> <<Bot, Twitch>>]
TwitchHooks == TabHooks["api"] \o <<Twitch>>

\* A task of this mount of a tab, or of a step of the setup.
Task(what, p, at) ==
  [does |-> what, page |-> p, mount |-> Mount, n |-> at.n, user |-> db["authKeys"]]
Mounted(task) == Here(task.page) /\ task.mount = Mount /\ task.n = local.n
Ends(task, what) == task.does = what /\ tasks' = tasks \ {task}

\* The tab of the events subscribes, and reads through the application.
ShowTab(tab) ==
  /\ Tab(local.tab) /\ tab # local.tab /\ Spend("visit")
  /\ local' = [TwitchLocal EXCEPT !.tab = tab, !.n = budget["visit"]]
  /\ Swap(ToSet(TabHooks[local.tab]), ToSet(TabHooks[tab]),
          IF tab = "events" THEN <<Sub("authKeys")>>
          ELSE Mounting(TabHooks[tab], {Twitch}), {Twitch})
  /\ tasks' = IF tab = "events" THEN tasks \union {Task("userInfo", page, local')} ELSE tasks
  /\ UNCHANGED <<hub, down, conn, copy, page>>

TypeCredentials(text) ==
  Tab("api") /\ Changes(Twitch, Spread(copies[Twitch], "creds", text))
SubmitCredentials ==
  Tab("api") /\ Field(copies[Twitch], "creds", "") # "" /\ Submits(Twitch)

\* checkCredentials: the button is disabled until the answer.
TestCredentials ==
  /\ Tab("api") /\ ~local.testing /\ Spend("edit")
  /\ local' = [local EXCEPT !.testing = TRUE]
  /\ tasks' = tasks \union {Task("testKeys", page, local)}
  /\ UNCHANGED <<hub, wire, conn, copy, status, page, hooks>>
KeysTested(task) ==
  /\ Ends(task, "testKeys")
  /\ local' = IF Mounted(task) THEN [local EXCEPT !.testing = FALSE] ELSE local
  /\ UNCHANGED <<hub, wire, conn, copy, status, page, hooks, budget>>

\* getUserInfo: the application asks Twitch with the keys it has when it is
\* asked, or by the time it gets to it.
UserInfoAnswered(task) ==
  /\ Ends(task, "userInfo")
  /\ \E user \in {task.user, db["authKeys"]} :
       local' = IF Mounted(task) THEN [local EXCEPT !.user = user] ELSE local
  /\ UNCHANGED <<hub, wire, conn, copy, status, page, hooks, budget>>

\* onKeyChange; the setup keeps the keys as well.
AuthKeysPushed ==
  /\ Receive("push") /\ Head(down).key = "authKeys"
  /\ IF "authKeys" \in hooks
     THEN /\ tasks' = tasks \union {Task("userInfo", page, local)}
          /\ local' = IF page = "setup" THEN [local EXCEPT !.keys = Head(down).value]
                      ELSE local
     ELSE UNCHANGED <<tasks, local>>
  /\ UNCHANGED <<hub, up, conn, copy, status, page, hooks, budget>>

\* The user went through the authorization flow in a browser.
Authorized(user) ==
  /\ Spend("write") /\ db["authKeys"] # user /\ WrittenElsewhere("authKeys", user)

BotActive == Field(copies[Twitch], "bot", FALSE)
\* useStatus forgets a save that has no answer after five seconds: until
\* then it disables the fields, later it does not.
BotDisabled == ~BotActive \/ save[Bot] = "pending"
TickBot == Tab("bot") /\ Changes(Twitch, Flipped(copies[Twitch], "bot"))
TypeBot(text) ==
  Tab("bot") /\ BotActive /\ Changes(Bot, Spread(copies[Bot], "text", text))

\* One form, two configurations.
SubmitBot ==
  /\ Tab("bot") /\ Spend("edit")
  /\ BotDisabled \/ Field(copies[Bot], "text", "") # ""
  /\ Send(<<Put(Twitch, copies[Twitch], copies[Twitch]),
            Put(Bot, copies[Bot], copies[Bot])>>)
  /\ save' = [save EXCEPT ![Twitch] = "pending", ![Bot] = "pending"]
  /\ UNCHANGED <<hub, down, conn, copy, load, view, tasks>>

-----------------------------------------------------------------------------
(* The interface, and the home page while the stream is live.              *)

Ui == "uiConfig"
SetUi(f, v) == Clicked(Ui, Spread(copies[Ui], f, v), local)

ChooseLanguage(l) == Here("ui") /\ SetUi("lang", l)
RepeatOnboarding ==
  Here("ui") /\ Clicked(Ui, Spread(Spread(copies[Ui], "done", FALSE), "step", 0),
                        local)

HomeLocal == [kind |-> "closed", live |-> FALSE, n |-> 0]

\* The stream goes live or ends: its block mounts or unmounts.
StreamChanges ==
  /\ Here("home") /\ Spend("type")
  /\ local' = [local EXCEPT !.live = ~@]
  /\ IF local.live THEN Swap({Ui}, {}, <<>>, {})
     ELSE Swap({}, {Ui}, Mounting(<<Ui>>, {}), {})
  /\ UNCHANGED <<hub, down, conn, copy, page, tasks>>
RevealViewers ==
  /\ Here("home") /\ local.live
  /\ Clicked(Ui, Flipped(copies[Ui], "hide"), local)

FormNext ==
  \/ \E s \in Sections : TickAlert(s) \/ \E text \in Texts : TypeAlert(s, text)
  \/ \E text \in Texts \union {""} :
       \/ TypeLoyalty(text) \/ TypeCredentials(text) \/ TypeBot(text)
       \/ \E f \in {"pass", "text"} : TypeServer(f, text)
  \/ \E tab \in DOMAIN TabHooks : ShowTab(tab)
  \/ \E l \in Languages : ChooseLanguage(l)
  \/ \E task \in tasks : KeysTested(task) \/ UserInfoAnswered(task)
  \/ \E user \in Accounts : Authorized(user)
  \/ \E p \in DOMAIN Forms : ConfigWritten(p)
  \/ AuthKeysPushed
  \/ SubmitAlerts \/ SwitchLoyalty \/ SubmitLoyalty
  \/ SubmitServer \/ ConfirmInsecure \/ GoBack
  \/ SwitchTwitch \/ SubmitCredentials \/ TestCredentials \/ TickBot \/ SubmitBot
  \/ RepeatOnboarding \/ StreamChanges \/ RevealViewers

-----------------------------------------------------------------------------
\* Once everything is answered, the form is enabled: it is loaded and not
\* being saved, whatever pages, saves and lost connections came before.  The
\* exception is a key that was not there when the page read it, which counts
\* as a failed load: the form stays disabled until the user saves something
\* with the switch or comes back, also when another client writes the key.
FormsAreEnabled ==
  Quiet => \A p \in DOMAIN Forms : Here(p) /\ Busy(Forms[p]) =>
    /\ load[Forms[p]] = "error" /\ save[Forms[p]] # "pending"
    /\ db[Forms[p]] \in {absent, Theirs}
=============================================================================
