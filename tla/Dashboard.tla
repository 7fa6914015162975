----------------------------- MODULE Dashboard ------------------------------
(***************************************************************************)
(* The dashboard: the pages on one store, with the router.  React renders  *)
(* what a message or a click changed before it takes the next one, so the  *)
(* steps of Render go before all others.                                   *)
(***************************************************************************)
EXTENDS PointsPages, Onboarding

ASSUME PagesAssumption ==
  Pages \subseteq {"home", "setup", "rewards", "goals", "commands", "timers",
                   "queue", "users", "alerts", "loyalty", "server", "twitch", "ui"}

\* The keys that the components of a page use, in the order of their effects:
\* those of children come before those of their parents.
PageHooks(p) ==
  CASE p = "home" -> <<>>
    [] p = "setup" -> SetupHooks(StepOf(copies[Ui]))
    [] p = "rewards" -> <<Loyalty, Rewards>>
    [] p = "goals" -> <<Loyalty, Goals>>
    [] p = "commands" -> <<Commands>>
    [] p = "timers" -> <<Timers>>
    [] p = "queue" -> <<Queue, "points">>
    [] p = "users" -> <<"points", Loyalty>>
    [] p = "alerts" -> <<Alerts>>
    [] p = "loyalty" -> <<Loyalty>>
    [] p = "server" -> <<Http>>
    [] p = "twitch" -> TwitchHooks
    [] p = "ui" -> <<Ui>>

PageLocal(p) ==
  CASE p = "home" -> HomeLocal
    [] p = "setup" -> SetupLocal(StepOf(copies[Ui]))
    [] p \in {"rewards", "goals", "commands", "timers"} -> Closed
    [] p = "queue" -> QueueLocal
    [] p = "users" -> UsersLocal
    [] p = "twitch" -> TwitchLocal
    [] OTHER -> Plain

\* The step of the setup with its reads of the credentials.
PageAuth(p) == IF p = "setup" THEN AuthKeys(StepOf(copies[Ui])) ELSE {}
PageRequests(p) ==
  IF PageAuth(p) = {} THEN Mounting(PageHooks(p), {})
  ELSE Mounting(StepHooks[TwitchEvents], {}) \o AuthRequests(TwitchEvents)
         \o Mounting(<<Ui>>, {Ui})

\* p is rendered in the place of what used the keys out; n tells two mounts
\* apart that no click and no lost connection separates.
Opens(p, out, n) ==
  /\ page' = p
  /\ local' = [f \in DOMAIN PageLocal(p) |-> IF f = "n" THEN n ELSE PageLocal(p)[f]]
  /\ hooks' = ToSet(PageHooks(p)) \union PageAuth(p)
  /\ up' = (IF conn = "Connected" THEN up ELSE <<>>)
             \o Unmounting(out) \o PageRequests(p)
  /\ StatusAfter(out, ToSet(PageHooks(p)))
  /\ tasks' = IF PageAuth(p) = {} THEN tasks
              ELSE tasks \union {Task("userInfo", p, local')}
  /\ UNCHANGED <<hub, down, copy>>

\* A link of the sidebar, which a modal dialog covers and the setup lacks.
Navigate(p) ==
  /\ conn = "Connected" /\ page \notin {p, "setup"} /\ p # "setup"
  /\ local.kind = "closed" /\ Spend("visit")
  /\ Opens(p, hooks, 0) /\ UNCHANGED conn

\* The first connection, or client.reconnect after five seconds.
Reconnect ==
  /\ conn = "NotConnected" /\ conn' = "Connected"
  /\ Opens(page, {}, 0) /\ UNCHANGED budget

-----------------------------------------------------------------------------
(* Renders that follow from a change of the copy, with their effects.      *)

RedirectDue ==
  conn = "Connected" /\ "setup" \in Pages /\ page # "setup"
    /\ ~Onboarded(copies[Ui])
\* Fault: the setup leads home from its last step only.
LeaveAtTheEnd == Here("setup") /\ Onboarded(copies[Ui]) /\ local.step = Done

LeaveDue == Here("setup") /\ Onboarded(copies[Ui])
TableGone ==
  \/ Here("queue") /\ QueueRows = {} /\ local.table # Table
  \/ Here("users") /\ UserRows = {} /\ local.table # Table
RenderDue ==
  RedirectDue \/ LeaveDue \/ (Here("setup") /\ Stale) \/ TableGone

Redirect ==
  /\ RedirectDue /\ Opens("setup", hooks, IF page = "home" THEN local.n + 1 ELSE 0)
  /\ UNCHANGED <<conn, budget>>
LeaveSetup ==
  LeaveDue /\ Opens("home", hooks, local.n) /\ UNCHANGED <<conn, budget>>
\* The DataTable is rendered only when there are rows.
DropTable == TableGone /\ Turned([local EXCEPT !.table = Table])

Render == Redirect \/ LeaveSetup \/ RenderStep \/ DropTable

Hub == HubGet \/ HubSubscribe \/ HubPut \/ HubPutPoints \/ HubRemove
Message ==
  \/ Loaded \/ Pushed \/ SetterAnswered \/ PointsLoaded \/ PointsPushed
  \/ AuthKeysPushed \/ AuthKeysRead
  \/ \E task \in tasks : BotSaved(task) \/ StepSaved(task)

Next ==
  \/ Render
  \/ /\ ~RenderDue
     /\ \/ StoreNext \/ EntryNext \/ PointsNext \/ FormNext \/ OnboardingNext
        \/ Reconnect \/ \E p \in Pages : Navigate(p)

\* The hub serves its queue, the browser runs its event loop, and the client
\* reconnects after a delay.  Nothing is assumed of the user, of the other
\* clients or of the calls to Twitch.
System == Render \/ (~RenderDue /\ (Hub \/ Message \/ Reconnect))
Fairness == WF_vars(System)

Spec == Init /\ [][Next]_vars /\ Fairness

-----------------------------------------------------------------------------
\* As long as no connection is lost, the dashboard ends up in the setup if
\* and only if the setup is not done: whatever a late answer of one of its
\* steps writes, the user is neither kept in a setup that is done nor left
\* on a page while the database says that it is not.
AgreesOnSetup ==
  <>[](budget["cut"] < Limits["cut"]
         \/ (page = "setup" <=> ~Onboarded(db[Ui])))
=============================================================================
