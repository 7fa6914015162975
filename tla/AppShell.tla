------------------------------ MODULE AppShell ------------------------------
(***************************************************************************)
(* The application's start and the dashboard's: the webview loads while    *)
(* the application makes its components, asks whether they are ready or    *)
(* have failed and hears of it by events as well, connects to the database *)
(* and, where that has a password, goes round it by a call.  A dialog lets *)
(* the user admit other applications, and the log is shown as it grows.    *)
(***************************************************************************)
EXTENDS Integers, Sequences, Functions

CONSTANTS
  Clients,   \* other applications, by the UID of their sessions
  Protected, \* whether the database may have a password
  History,   \* LogHistory: how many entries lastLogs keeps
  Backlog,   \* capacity of the channel incomingLogs
  none,      \* no value
  Limits     \* bounds on what happens to the application

\* log: entries logged; fail: fatal errors; cut: lost connections; ask:
\* applications that ask for access; all: together.
Budgets == {"log", "fail", "cut", "ask", "all"}

ASSUME ShellAssumption ==
  /\ none \notin Clients /\ Protected \subseteq BOOLEAN
  /\ History \in Nat \ {0} /\ Backlog \in Nat \ {0}
  /\ Limits \in [Budgets -> Nat]

VARIABLES
  phase,     \* where startup is
  readySet,  \* App.ready
  fatalSet,  \* App.isFatalError
  forwards,  \* forwardLogs runs
  password,  \* kv_password is not empty
  lastLogs,  \* the application's last log entries
  incoming,  \* the channel of entries for the window
  logged,    \* number of entries logged
  access,    \* what the hub knows of each client: interactiveAuth
  events,    \* events emitted that the webview has not handled
  calls,     \* calls of the webview: idle, asked or answered
  window,    \* what it shows: nothing yet, the dashboard or the crash
  ready,     \* useState of App
  dial,      \* where connectToKV is
  client,    \* api.client
  conn,      \* api.connectionStatus
  session,   \* its session in the hub: none, open or authenticated
  asking,    \* the pages have sent requests that are not answered
  bypass,    \* where useAuthBypass is
  messages,  \* logging.messages
  requests,  \* useState of InteractiveAuthDialog: how often each client is in it
  seen,      \* requests of its last render, over which the handler closes
  overtaken, \* history: entries that arrived before the answer about the log
  slip,      \* history: the first race that left the dashboard behind
  budget

startup == <<phase, readySet, fatalSet, forwards>>
logs == <<lastLogs, incoming, logged>>
wire == <<events, calls>>
link == <<dial, client, conn, session, asking, bypass>>
dialog == <<requests, seen>>
shown == <<messages, overtaken>>
vars == <<startup, password, logs, access, wire, window, ready, link, dialog,
          shown, slip, budget>>

Calls == {"fatal", "ready", "logs"}
Idle == [is |-> "idle", value |-> none]
Asked == [is |-> "asked", value |-> none]

Spend(b) ==
  /\ budget[b] > 0 /\ budget["all"] > 0
  /\ budget' = [budget EXCEPT ![b] = @ - 1, !["all"] = @ - 1]

Init ==
  /\ phase = "starting" /\ readySet = FALSE /\ fatalSet = FALSE
  /\ forwards = FALSE /\ password \in Protected
  /\ lastLogs = <<>> /\ incoming = <<>> /\ logged = 0
  /\ access = [c \in Clients |-> "none"]
  /\ events = <<>> /\ calls = [c \in Calls |-> Idle] /\ window = "unloaded"
  /\ ready = FALSE /\ dial = "none" /\ client = FALSE
  /\ conn = "NotConnected" /\ session = "none" /\ asking = FALSE
  /\ bypass = "none" /\ messages = <<>>
  /\ requests = [c \in Clients |-> 0] /\ seen = requests
  /\ overtaken = {} /\ slip = "none" /\ budget = Limits

\* What the application does not touch.
frontend == <<window, ready, link, dialog, shown, slip>>
\* What the webview does not touch.
application == <<startup, password, logs>>

Emit(event) == events' = Append(events, event)
Event(is, v) == [is |-> is, value |-> v]

-----------------------------------------------------------------------------
(* The application: startup, one statement after the other.                *)
\* Fault: the oldest entry is kept.
LoggingAll ==
  /\ Len(incoming) < Backlog /\ logged' = logged + 1
  /\ lastLogs' = Append(lastLogs, logged') /\ incoming' = Append(incoming, logged')

\* LogStorage.Write: the entry goes to lastLogs, which drops its oldest, and
\* to the channel.  Bound: a writer that waits for room in the channel is
\* taken to log when there is some.
Logging ==
  /\ Len(incoming) < Backlog /\ logged' = logged + 1
  /\ lastLogs' = Append(IF Len(lastLogs) < History THEN lastLogs
                        ELSE Tail(lastLogs), logged')
  /\ incoming' = Append(incoming, logged')

\* Something is logged while the components are made, or later.
LogEntry ==
  /\ phase \in {"starting", "listening"} /\ Spend("log") /\ Logging
  /\ UNCHANGED <<startup, password, access, wire, frontend>>

SetReady ==
  /\ phase = "starting" /\ phase' = "ready" /\ readySet' = TRUE
  /\ UNCHANGED <<fatalSet, forwards, password, logs, access, wire, frontend,
                 budget>>

EmitReady ==
  /\ phase = "ready" /\ phase' = "announced" /\ Emit(Event("ready", TRUE))
  /\ UNCHANGED <<readySet, fatalSet, forwards, password, logs, access, calls,
                 frontend, budget>>

\* "Strimertul is ready", and the goroutine of forwardLogs.
StartForwarding ==
  /\ phase = "announced" /\ phase' = "forwarding" /\ Logging /\ forwards' = TRUE
  /\ UNCHANGED <<readySet, fatalSet, password, access, wire, frontend, budget>>

Listen ==
  /\ phase = "forwarding" /\ phase' = "listening"
  /\ UNCHANGED <<readySet, fatalSet, forwards, password, logs, access, wire,
                 frontend, budget>>

\* showFatalError: a component cannot be made, or the web server stops.  The
\* event goes before the flag.
Fail ==
  /\ phase \in {"starting", "forwarding", "listening"} /\ Spend("fail")
  /\ phase' = "failing" /\ Logging /\ Emit(Event("fatalError", TRUE))
  /\ UNCHANGED <<readySet, fatalSet, forwards, password, access, calls, frontend>>

SetFatal ==
  /\ phase = "failing" /\ phase' = "down" /\ fatalSet' = TRUE
  /\ UNCHANGED <<readySet, forwards, password, logs, access, wire, frontend,
                 budget>>

\* forwardLogs
Forward ==
  /\ forwards /\ incoming # <<>> /\ incoming' = Tail(incoming)
  /\ Emit(Event("log-event", Head(incoming)))
  /\ UNCHANGED <<startup, password, lastLogs, logged, access, calls, frontend,
                 budget>>

Answers(c, v) ==
  /\ calls[c].is = "asked"
  /\ calls' = [calls EXCEPT ![c] = [is |-> "answered", value |-> v]]

\* IsFatalError, IsServerReady and GetLastLogs.
AnswersApp ==
  /\ Answers("fatal", fatalSet) \/ Answers("ready", readySet)
       \/ Answers("logs", lastLogs)
  /\ UNCHANGED <<startup, password, logs, access, events, frontend, budget>>

\* A client without the password asks the hub, which asks the user.
AskAccess(c) ==
  /\ phase = "listening" /\ password /\ access[c] = "none" /\ Spend("ask")
  /\ access' = [access EXCEPT ![c] = "waiting"]
  /\ Emit(Event("interactiveAuth", c))
  /\ UNCHANGED <<startup, password, logs, calls, frontend>>

-----------------------------------------------------------------------------
(* AppWrapper and App, and what they make of answers and events.           *)

Failed == phase \in {"failing", "down"}

\* A race that is lost for good: no event will correct it.
SlipsIf(lost, race) == slip' = IF lost /\ slip = "none" THEN race ELSE slip
Coming(is) == \E i \in DOMAIN events : events[i].is = is

\* The dialogs are mounted with the pages.
DialogHere == window = "app" /\ conn = "Connected"
Hidden == requests' = [c \in Clients |-> 0] /\ seen' = requests'

\* App mounts: it asks for the log and whether the server is ready.
AppMounts(asked) ==
  /\ window' = "app" /\ ready' = FALSE
  /\ calls' = [asked EXCEPT !["logs"] = Asked, !["ready"] = Asked]

\* AppWrapper mounts, and asks whether there was an error.
Load ==
  /\ window = "unloaded" /\ AppMounts([calls EXCEPT !["fatal"] = Asked])
  /\ UNCHANGED <<application, access, events, link, dialog, shown, slip, budget>>

\* setFatalErrorStatus: one window is mounted in the place of the other.
SetsFatal(fatal, asked) ==
  IF fatal
  THEN window' = "crash" /\ calls' = asked /\ Hidden /\ UNCHANGED ready
  ELSE /\ UNCHANGED dialog
       /\ IF window = "crash" THEN AppMounts(asked)
          ELSE calls' = asked /\ UNCHANGED <<window, ready>>

\* The answer may be older than the event, which is emitted before the flag
\* is set: that loses the crash.
GotFatal ==
  /\ calls["fatal"].is = "answered"
  /\ SetsFatal(calls["fatal"].value, [calls EXCEPT !["fatal"] = Idle])
  /\ SlipsIf(Failed /\ ~calls["fatal"].value /\ ~Coming("fatalError"), "fatal")
  /\ UNCHANGED <<application, access, events, link, shown, budget>>

Gets(c) == calls[c].is = "answered" /\ calls' = [calls EXCEPT ![c] = Idle]

\* So may this one: the dashboard then waits for an event that has been.
GotReady ==
  /\ Gets("ready")
  /\ ready' = IF window = "app" THEN calls["ready"].value ELSE ready
  /\ SlipsIf(phase \notin {"starting", "ready"} /\ ~calls["ready"].value
               /\ ~Coming("ready"), "ready")
  /\ UNCHANGED <<application, access, events, window, link, dialog, shown, budget>>

\* loadedLogData
GotLogs ==
  /\ Gets("logs") /\ messages' = calls["logs"].value
  /\ UNCHANGED <<application, access, events, window, ready, link, dialog,
                 overtaken, slip, budget>>

Hears(is) == events # <<>> /\ Head(events).is = is /\ events' = Tail(events)

\* Before the page is loaded nobody hears of an event.
HearFatal ==
  /\ Hears("fatalError")
  /\ IF window = "unloaded" THEN UNCHANGED <<window, calls, ready, dialog>>
     ELSE SetsFatal(TRUE, calls)
  /\ UNCHANGED <<application, access, link, shown, slip, budget>>

HearReady ==
  /\ Hears("ready") /\ ready' = (ready \/ window = "app")
  /\ UNCHANGED <<application, access, calls, window, link, dialog, shown, slip,
                 budget>>
\* Fault: entries are heard once the list has come.
HearLogLater ==
  /\ Hears("log-event")
  /\ messages' = IF window # "app" \/ calls["logs"] # Idle THEN messages
                 ELSE Append(messages, Head(events).value)
  /\ UNCHANGED <<application, access, calls, window, ready, link, dialog,
                 overtaken, slip, budget>>

\* receivedEvent
HearLog ==
  /\ Hears("log-event")
  /\ IF window # "app" THEN UNCHANGED shown
     ELSE /\ messages' = Append(messages, Head(events).value)
          /\ overtaken' = IF calls["logs"] = Idle THEN overtaken
                          ELSE overtaken \union {Head(events).value}
  /\ UNCHANGED <<application, access, calls, window, ready, link, dialog, slip,
                 budget>>

-----------------------------------------------------------------------------
(* InteractiveAuthDialog.                                                  *)

\* The handler of the last render adds to the requests of that render.
HearAuth ==
  /\ Hears("interactiveAuth")
  /\ requests' = IF DialogHere THEN [seen EXCEPT ![Head(events).value] = @ + 1]
                 ELSE requests
  /\ UNCHANGED <<application, access, calls, window, ready, link, seen, shown,
                 slip, budget>>

RenderDialog ==
  /\ DialogHere /\ requests # seen /\ seen' = requests
  /\ UNCHANGED <<application, access, wire, window, ready, link, requests, shown,
                 slip, budget>>
\* Fault: the handler of the events keeps the list from before the answer.
AnswerUnseen(c, answer) ==
  /\ DialogHere /\ seen[c] > 0
  /\ access' = [access EXCEPT ![c] = IF @ = "waiting" THEN answer ELSE @]
  /\ requests' = [seen EXCEPT ![c] = 0]
  /\ UNCHANGED <<application, wire, window, ready, link, seen, shown, slip,
                 budget>>

\* answerAuthRequest: a click is rendered before anything else happens.
AnswerAuth(c, answer) ==
  /\ DialogHere /\ seen[c] > 0
  /\ access' = [access EXCEPT ![c] = IF @ = "waiting" THEN answer ELSE @]
  /\ requests' = [seen EXCEPT ![c] = 0] /\ seen' = requests'
  /\ UNCHANGED <<application, wire, window, ready, link, shown, slip, budget>>

-----------------------------------------------------------------------------
(* The connection to the database.                                         *)

\* Bound: the connection is followed while the dashboard is there.
Followed == window = "app"

linkOnly == <<application, access, wire, window, ready, shown>>

\* The effect of App on ready and connected.
Dial ==
  /\ window = "app" /\ ready /\ ~client /\ dial = "none"
  /\ dial' = "connect"
  /\ UNCHANGED <<linkOnly, client, conn, session, asking, bypass, dialog, slip,
                 budget>>

Opened == session' = IF password THEN "open" ELSE "authenticated"

\* createWSClient: IsServerReady, which is true by now, client.connect() and
\* the fulfilled case.  Ready is earlier than listening: a connection tried
\* in between fails, and no other is.
Connect ==
  /\ Followed /\ dial = "connect" /\ readySet
  /\ \/ /\ phase = "listening" /\ dial' = "done" /\ client' = TRUE /\ Opened
        /\ conn' = "Connected" /\ asking' = TRUE /\ UNCHANGED slip
     \/ /\ phase # "listening" /\ dial' = "failed"
        /\ SlipsIf(TRUE, "early")
        /\ UNCHANGED <<client, conn, session, asking>>
  /\ UNCHANGED <<linkOnly, bypass, dialog, budget>>

Served ==
  /\ Followed /\ asking /\ session = "authenticated" /\ asking' = FALSE
  /\ UNCHANGED <<linkOnly, dial, client, conn, session, bypass, dialog, slip,
                 budget>>
\* Fault: an error of the database is not looked at.
RefusedUnread ==
  /\ Followed /\ asking /\ session = "open" /\ asking' = FALSE
  /\ UNCHANGED <<linkOnly, dial, client, conn, session, bypass, dialog, slip,
                 budget>>

\* kvErrorReceived: the dashboard gives way to the loading page.
Refused ==
  /\ Followed /\ asking /\ session = "open" /\ asking' = FALSE
  /\ conn' = "AuthenticationNeeded" /\ Hidden
  /\ UNCHANGED <<linkOnly, dial, client, session, bypass, slip, budget>>

\* useAuthBypass: the UID of the session, the call with it, the dispatch.
StartBypass ==
  /\ window = "app" /\ ready /\ conn = "AuthenticationNeeded"
  /\ bypass = "none" /\ bypass' = "uid"
  /\ UNCHANGED <<linkOnly, dial, client, conn, session, asking, dialog, slip,
                 budget>>

AuthenticateKVClient ==
  /\ Followed /\ bypass = "uid" /\ bypass' = "answered" /\ session' = "authenticated"
  /\ UNCHANGED <<linkOnly, dial, client, conn, asking, dialog, slip, budget>>

\* connectionStatusChanged(Connected), also when the session it asked for is
\* gone: then nothing shows that the connection is lost, or not authenticated.
BypassDone ==
  /\ Followed /\ bypass \in {"answered", "stale"} /\ bypass' = "none"
  /\ conn' = "Connected"
  /\ asking' = (asking \/ (conn # "Connected" /\ session # "none"))
  /\ SlipsIf(bypass = "stale" /\ session = "none", "bypass")
  /\ UNCHANGED <<linkOnly, dial, client, session, dialog, budget>>

\* The close event, before or after the UID has arrived.
Disconnect ==
  /\ Followed /\ session # "none" /\ Spend("cut")
  /\ session' = "none" /\ conn' = "NotConnected" /\ asking' = FALSE /\ Hidden
  /\ bypass' \in CASE bypass = "uid" -> {"none", "stale"}
                   [] bypass = "answered" -> {"stale"}
                   [] OTHER -> {bypass}
  /\ UNCHANGED <<linkOnly, dial, client, slip>>

\* client.reconnect, five seconds later.
Reconnect ==
  /\ Followed /\ client /\ session = "none" /\ phase = "listening" /\ Opened
  /\ conn' = "Connected" /\ asking' = (conn # "Connected")
  /\ UNCHANGED <<linkOnly, dial, client, bypass, dialog, slip, budget>>

-----------------------------------------------------------------------------
Startup == SetReady \/ EmitReady \/ StartForwarding \/ Listen \/ SetFatal
Replies == AnswersApp \/ Forward
Webview ==
  Load \/ GotFatal \/ GotReady \/ GotLogs \/ HearFatal \/ HearReady \/ HearLog
    \/ HearAuth \/ RenderDialog
Link ==
  Dial \/ Connect \/ Served \/ Refused \/ StartBypass
    \/ AuthenticateKVClient \/ BypassDone \/ Reconnect

Next ==
  \/ Startup \/ Replies \/ Webview \/ Link
  \/ LogEntry \/ Fail \/ Disconnect
  \/ \E c \in Clients : AskAccess(c) \/ AnswerAuth(c, "allowed")
                                    \/ AnswerAuth(c, "denied")

\* The application's goroutines and the webview's event loop get on; the
\* client reconnects after its delay.  Nothing is assumed of the user, of
\* other applications, nor that anything fails or is logged.
Fairness == /\ WF_vars(Startup) /\ WF_vars(Replies)
            /\ WF_vars(Webview) /\ WF_vars(Link)

Spec == Init /\ [][Next]_vars /\ Fairness

-----------------------------------------------------------------------------
TypeOK ==
  /\ window \in {"unloaded", "app", "crash"}
  /\ conn \in {"NotConnected", "AuthenticationNeeded", "Connected"}
  /\ session \in {"none", "open", "authenticated"}
  /\ dial \in {"none", "connect", "done", "failed"}
  /\ bypass \in {"none", "uid", "answered", "stale"}
  /\ access \in [Clients -> {"none", "waiting", "allowed", "denied"}]
  /\ slip \in {"none", "fatal", "ready", "early", "bypass"}
  /\ requests \in [Clients -> Nat] /\ seen \in [Clients -> Nat]
  /\ Len(lastLogs) <= History /\ Len(incoming) <= Backlog

\* A dialog asks about an application that still waits, and once about each:
\* a request that was answered is not brought back by the handler's older
\* list, and one that was asked before a lost connection is not asked twice.
DialogsWait ==
  \A c \in Clients : requests[c] > 0 => requests[c] = 1 /\ access[c] = "waiting"

\* No entry of the application's log is missing in the window's once all
\* have arrived, but those whose event overtook the answer that replaces the
\* list.
LogsArrive ==
  (window = "app" /\ calls["logs"] = Idle /\ incoming = <<>> /\ events = <<>>)
   => Range(lastLogs) \subseteq Range(messages) \union overtaken

\* The backlog of log entries is full and nothing reads it yet: the next
\* entry stops the start.
Stuck == ~forwards /\ Len(incoming) = Backlog

\* In the end the dashboard is there and its session is authenticated, or
\* the crash is on show if there was a fatal error: whatever order the start
\* of the application, the loading of the page and the answers to its calls
\* take, and however often the connection is lost, only four races and a
\* full backlog leave the user behind.
Settles ==
  <>[](\/ slip # "none" \/ Stuck
       \/ IF Failed THEN window = "crash"
          ELSE window = "app" /\ conn = "Connected" /\ session = "authenticated")
=============================================================================
