--------------------------- MODULE AppShellProofs ---------------------------
(***************************************************************************)
(* For any length of the log's history and backlog, any number of entries, *)
(* errors, clients and lost connections: no entry that the application     *)
(* still has is missing in a window that has heard everything, and only    *)
(* clients that wait for an answer are asked about, once each.             *)
(***************************************************************************)
EXTENDS AppShell, TLAPS, SequenceTheorems

EventSet ==
  [is : {"log-event"}, value : Nat] \union [is : {"ready", "fatalError"}, value : {TRUE}]
    \union [is : {"interactiveAuth"}, value : Clients]
LogEvents == {events[i].value : i \in {j \in DOMAIN events : events[j].is = "log-event"}}
UnderWay == Range(incoming) \union LogEvents \union overtaken

\* An entry is on its way, in the list, or in the answer that will be it;
\* nothing is known while the answer is not given.
Delivered ==
  window = "app" =>
    /\ calls["logs"].is = "idle" => Range(lastLogs) \subseteq Range(messages) \union UnderWay
    /\ calls["logs"].is = "answered"
         => Range(lastLogs) \subseteq Range(calls["logs"].value) \union UnderWay

LogTypes ==
  /\ lastLogs \in Seq(Nat) /\ incoming \in Seq(Nat) /\ messages \in Seq(Nat)
  /\ logged \in Nat /\ events \in Seq(EventSet)
  /\ calls = [c \in Calls |-> calls[c]]
  /\ calls["logs"].is = "answered" => calls["logs"].value \in Seq(Nat)

LogInv == LogTypes /\ Delivered
logVars == <<logs, wire, window, shown>>

-----------------------------------------------------------------------------
(* The elements of a sequence, and of the events those of the log.         *)

LEMMA RangeAppend ==
  ASSUME NEW S, NEW s \in Seq(S), NEW e \in S
  PROVE  Range(Append(s, e)) = Range(s) \union {e}
BY AppendProperties, LenProperties DEF Range

LEMMA RangeTail ==
  ASSUME NEW S, NEW s \in Seq(S), s # <<>>
  PROVE  Range(s) = Range(Tail(s)) \union {Head(s)}
<1>1. /\ Tail(s) \in Seq(S) /\ Len(Tail(s)) = Len(s) - 1
      /\ \A i \in 1 .. Len(Tail(s)) : Tail(s)[i] = s[i + 1]
  BY HeadTailProperties
<1>2. DOMAIN s = 1 .. Len(s) /\ DOMAIN Tail(s) = 1 .. Len(Tail(s))
      /\ Len(s) \in Nat \ {0} /\ Head(s) = s[1]
  BY <1>1, LenProperties, EmptySeq
<1>3. ASSUME NEW i \in 1 .. Len(s) PROVE s[i] \in Range(Tail(s)) \union {Head(s)}
  <2>1. CASE i = 1
    BY <2>1, <1>2
  <2>2. CASE i # 1
    <3>1. i - 1 \in 1 .. Len(Tail(s)) /\ Tail(s)[i - 1] = s[i]
      BY <2>2, <1>1, <1>2
    <3> QED BY <3>1, <1>2 DEF Range
  <2> QED BY <2>1, <2>2
<1>4. ASSUME NEW i \in 1 .. Len(Tail(s)) PROVE Tail(s)[i] \in Range(s)
  <2>1. i + 1 \in 1 .. Len(s) /\ Tail(s)[i] = s[i + 1]
    BY <1>1, <1>2
  <2> QED BY <2>1, <1>2 DEF Range
<1>5. Head(s) \in Range(s)
  BY <1>2 DEF Range
<1>6. Range(s) \subseteq Range(Tail(s)) \union {Head(s)}
  BY <1>2, <1>3 DEF Range
<1>7. Range(Tail(s)) \subseteq Range(s)
  BY <1>2, <1>4 DEF Range
<1> QED BY <1>5, <1>6, <1>7

\* The events of the log are the values of those among all events.
LEMMA LogEventsRange ==
  LogEvents = {e.value : e \in {d \in Range(events) : d.is = "log-event"}}
BY DEF LogEvents, Range

LEMMA EmitOK ==
  ASSUME events \in Seq(EventSet), NEW e \in EventSet, Emit(e)
  PROVE  /\ events' \in Seq(EventSet)
         /\ LogEvents' = LogEvents \union (IF e.is = "log-event" THEN {e.value} ELSE {})
<1>1. events' \in Seq(EventSet) /\ Range(events') = Range(events) \union {e}
  BY RangeAppend, AppendProperties DEF Emit
<1>2. LogEvents' = {d.value : d \in {f \in Range(events') : f.is = "log-event"}}
  BY DEF LogEvents, Range
<1> QED BY <1>1, <1>2, LogEventsRange

LEMMA HearsOK ==
  ASSUME events \in Seq(EventSet), NEW is, Hears(is)
  PROVE  /\ events' \in Seq(EventSet)
         /\ Head(events) \in EventSet /\ Head(events).is = is
         /\ is # "log-event" => LogEvents' = LogEvents
         /\ is = "log-event" => LogEvents = LogEvents' \union {Head(events).value}
<1>1. /\ events' \in Seq(EventSet) /\ Head(events) \in EventSet /\ Head(events).is = is
      /\ Range(events) = Range(events') \union {Head(events)}
  BY RangeTail, HeadTailProperties DEF Hears
<1>2. LogEvents' = {d.value : d \in {f \in Range(events') : f.is = "log-event"}}
  BY DEF LogEvents, Range
<1> QED BY <1>1, <1>2, LogEventsRange

LEMMA LoggingOK ==
  ASSUME LogTypes, Logging
  PROVE  /\ lastLogs' \in Seq(Nat) /\ incoming' \in Seq(Nat) /\ logged' \in Nat
         /\ Range(lastLogs') \subseteq Range(lastLogs) \union {logged'}
         /\ Range(incoming') = Range(incoming) \union {logged'}
<1> DEFINE kept == IF Len(lastLogs) < History THEN lastLogs ELSE Tail(lastLogs)
<1>1. kept \in Seq(Nat) /\ Range(kept) \subseteq Range(lastLogs)
  <2>1. CASE Len(lastLogs) < History
    BY <2>1 DEF LogTypes
  <2>2. CASE ~(Len(lastLogs) < History)
    <3>1. lastLogs # <<>>
      BY <2>2, ShellAssumption, EmptySeq
    <3> QED BY <2>2, <3>1, RangeTail, HeadTailProperties DEF LogTypes
  <2> QED BY <2>1, <2>2
<1>2. logged' \in Nat /\ lastLogs' = Append(kept, logged')
      /\ incoming' = Append(incoming, logged')
  BY DEF Logging, LogTypes
<1> HIDE DEF kept
<1>3. Range(lastLogs') = Range(kept) \union {logged'}
  BY <1>1, <1>2, RangeAppend
<1>4. Range(incoming') = Range(incoming) \union {logged'}
  <2>1. incoming \in Seq(Nat)
    BY DEF LogTypes
  <2>2. Range(Append(incoming, logged')) = Range(incoming) \union {logged'}
    BY <1>2, <2>1, RangeAppend
  <2> QED BY <1>2, <2>2
<1> QED BY <1>1, <1>2, <1>3, <1>4, AppendProperties DEF LogTypes

\* Which window is mounted, and what is asked again.
LEMMA SetsFatalOK ==
  ASSUME LogTypes, NEW fatal, NEW asked, asked = [c \in Calls |-> asked[c]],
         asked["logs"] = calls["logs"], SetsFatal(fatal, asked)
  PROVE  /\ calls' = [c \in Calls |-> calls'[c]]
         /\ \/ calls'["logs"] = Asked
            \/ /\ calls'["logs"] = calls["logs"]
               /\ window' = "app" => window = "app"
<1>1. CASE calls' = asked /\ (window' = "app" => window = "app")
  BY <1>1
<1>2. CASE AppMounts(asked)
  BY <1>2 DEF AppMounts, Calls
<1>3. \/ calls' = asked /\ (window' = "app" => window = "app")
     \/ AppMounts(asked)
  BY DEF SetsFatal
<1> QED BY <1>1, <1>2, <1>3

-----------------------------------------------------------------------------
(* One step.                                                               *)

LEMMA InitLog == Init => LogInv
<1> SUFFICES ASSUME Init PROVE LogInv
  OBVIOUS
<1>1. LogTypes
  BY EmptySeq DEF Init, LogTypes, Calls, Idle
<1>2. Delivered
  BY DEF Init, Delivered
<1> QED BY <1>1, <1>2 DEF LogInv

\* Steps that log, emit an event of another kind, or answer a call.
LEMMA ApplicationStep ==
  ASSUME LogInv,
         \/ LogEntry \/ EmitReady \/ StartForwarding \/ Fail \/ AnswersApp
         \/ \E c \in Clients : AskAccess(c)
  PROVE  LogInv'
<1> USE DEF LogInv
<1>1. CASE LogEntry \/ StartForwarding
  <2>1. Logging /\ UNCHANGED <<wire, window, shown>>
    BY <1>1 DEF LogEntry, StartForwarding, frontend
  <2>2. LogEvents' = LogEvents
    BY <2>1 DEF LogEvents, wire
  <2>3. LogTypes'
    BY <2>1, LoggingOK DEF LogTypes, wire, shown
  <2>4. Delivered'
    BY <2>1, <2>2, LoggingOK DEF Delivered, UnderWay, wire, shown
  <2> QED BY <2>3, <2>4
<1>2. CASE EmitReady \/ \E c \in Clients : AskAccess(c)
  <2>1. PICK e \in EventSet : Emit(e) /\ e.is # "log-event"
    <3>1. CASE EmitReady
      <4>1. Event("ready", TRUE) \in EventSet /\ Event("ready", TRUE).is # "log-event"
        BY DEF Event, EventSet
      <4> QED BY <3>1, <4>1 DEF EmitReady
    <3>2. ASSUME NEW c \in Clients, AskAccess(c)
          PROVE  \E e \in EventSet : Emit(e) /\ e.is # "log-event"
      <4>1. Event("interactiveAuth", c) \in EventSet
            /\ Event("interactiveAuth", c).is # "log-event"
        BY DEF Event, EventSet
      <4> QED BY <3>2, <4>1 DEF AskAccess
    <3> QED BY <1>2, <3>1, <3>2
  <2>2. UNCHANGED <<logs, calls, window, shown>>
    BY <1>2 DEF EmitReady, AskAccess, frontend
  <2>3. events' \in Seq(EventSet) /\ LogEvents' = LogEvents
    BY <2>1, EmitOK DEF LogTypes
  <2>4. LogTypes'
    BY <2>2, <2>3 DEF LogTypes, logs, shown
  <2>5. Delivered'
    BY <2>2, <2>3 DEF Delivered, UnderWay, logs, shown
  <2> QED BY <2>4, <2>5
<1>3. CASE Fail
  <2>1. Logging /\ Emit(Event("fatalError", TRUE)) /\ UNCHANGED <<calls, window, shown>>
    BY <1>3 DEF Fail, frontend
  <2>2. Event("fatalError", TRUE) \in EventSet /\ Event("fatalError", TRUE).is # "log-event"
    BY DEF Event, EventSet
  <2>3. events' \in Seq(EventSet) /\ LogEvents' = LogEvents
    BY <2>1, <2>2, EmitOK DEF LogTypes
  <2>4. LogTypes'
    BY <2>1, <2>3, LoggingOK DEF LogTypes, shown
  <2>5. Delivered'
    BY <2>1, <2>3, LoggingOK DEF Delivered, UnderWay, shown
  <2> QED BY <2>4, <2>5
<1>4. CASE AnswersApp
  <2>1. PICK c \in Calls :
          /\ c = "logs" \/ c \in {"fatal", "ready"}
          /\ \E v : calls' = [calls EXCEPT ![c] = [is |-> "answered", value |-> v]]
                    /\ (c = "logs" => v = lastLogs)
    BY <1>4 DEF AnswersApp, Answers, Calls
  <2>2. UNCHANGED <<logs, events, window, shown>>
    BY <1>4 DEF AnswersApp, application, frontend
  <2>3. LogEvents' = LogEvents
    BY <2>2 DEF LogEvents
  <2>4. PICK v : calls' = [calls EXCEPT ![c] = [is |-> "answered", value |-> v]]
                 /\ (c = "logs" => v = lastLogs)
    BY <2>1
  <2>5. CASE c = "logs"
    <3>1. calls'["logs"] = [is |-> "answered", value |-> lastLogs]
          /\ calls' = [d \in Calls |-> calls'[d]]
      BY <2>4, <2>5 DEF LogTypes, Calls
    <3>2. LogTypes'
      BY <3>1, <2>2 DEF LogTypes, logs, shown
    <3>3. Delivered'
      BY <3>1, <2>2, <2>3 DEF Delivered, UnderWay, logs, shown
    <3> QED BY <3>2, <3>3
  <2>6. CASE c # "logs"
    <3>1. calls'["logs"] = calls["logs"] /\ calls' = [d \in Calls |-> calls'[d]]
      BY <2>4, <2>6 DEF LogTypes, Calls
    <3>2. LogTypes'
      BY <3>1, <2>2 DEF LogTypes, logs, shown
    <3>3. Delivered'
      BY <3>1, <2>2, <2>3 DEF Delivered, UnderWay, logs, shown
    <3> QED BY <3>2, <3>3
  <2> QED BY <2>5, <2>6
<1> QED BY <1>1, <1>2, <1>3, <1>4

\* forwardLogs takes an entry off the channel and makes an event of it.
LEMMA ForwardStep == LogInv /\ Forward => LogInv'
<1> SUFFICES ASSUME LogInv, Forward PROVE LogInv'
  OBVIOUS
<1> DEFINE n == Head(incoming)
<1>1. /\ incoming' \in Seq(Nat) /\ n \in Nat
      /\ Range(incoming) = Range(incoming') \union {n}
  BY RangeTail, HeadTailProperties DEF LogInv, LogTypes, Forward
<1>2. Event("log-event", n) \in EventSet
      /\ Event("log-event", n).is = "log-event" /\ Event("log-event", n).value = n
  BY <1>1 DEF Event, EventSet
<1>3. events' \in Seq(EventSet) /\ LogEvents' = LogEvents \union {n}
  BY <1>2, EmitOK DEF LogInv, LogTypes, Forward
<1>4. UNCHANGED <<lastLogs, logged, calls, window, shown>>
  BY DEF Forward, frontend
<1>5. LogTypes'
  BY <1>1, <1>3, <1>4 DEF LogInv, LogTypes, shown
<1>6. UnderWay' = UnderWay
  BY <1>1, <1>3, <1>4 DEF UnderWay, shown
<1>7. Delivered'
  BY <1>4, <1>6 DEF LogInv, Delivered, shown
<1> QED BY <1>5, <1>7 DEF LogInv

\* Steps of the webview that ask or take an answer, or hear of an event.
LEMMA MountStep ==
  ASSUME LogInv, Load \/ GotFatal \/ HearFatal
  PROVE  LogInv'
<1> USE DEF LogInv
<1>1. UNCHANGED <<logs, shown>>
  BY DEF Load, GotFatal, HearFatal, application
<1>2. events' \in Seq(EventSet) /\ LogEvents' = LogEvents
  <2>1. CASE HearFatal
    <3>1. Hears("fatalError") /\ events \in Seq(EventSet)
      BY <2>1 DEF HearFatal, LogTypes
    <3> QED BY <3>1, HearsOK
  <2>2. CASE ~HearFatal
    BY <2>2 DEF Load, GotFatal, LogTypes, LogEvents
  <2> QED BY <2>1, <2>2
<1>3. /\ calls' = [c \in Calls |-> calls'[c]]
      /\ \/ calls'["logs"] = Asked
         \/ /\ calls'["logs"] = calls["logs"]
            /\ window' = "app" => window = "app"
  <2>1. CASE Load
    BY <2>1 DEF Load, AppMounts, Calls, LogTypes
  <2>2. CASE GotFatal
    <3> DEFINE asked == [calls EXCEPT !["fatal"] = Idle]
    <3>1. asked = [c \in Calls |-> asked[c]] /\ asked["logs"] = calls["logs"]
      BY DEF LogTypes, Calls
    <3>2. SetsFatal(calls["fatal"].value, asked)
      BY <2>2 DEF GotFatal
    <3> HIDE DEF asked
    <3> QED BY <3>1, <3>2, SetsFatalOK
  <2>3. CASE HearFatal
    <3>1. CASE window = "unloaded"
      BY <2>3, <3>1 DEF HearFatal, LogTypes
    <3>2. CASE SetsFatal(TRUE, calls)
      BY <3>2, SetsFatalOK DEF LogTypes
    <3> QED BY <2>3, <3>1, <3>2 DEF HearFatal
  <2> QED BY <2>1, <2>2, <2>3
<1>4. LogTypes'
  BY <1>1, <1>2, <1>3 DEF LogTypes, logs, shown, Asked
<1>5. UnderWay' = UnderWay
  BY <1>1, <1>2 DEF UnderWay, logs, shown
<1>6. Delivered'
  BY <1>1, <1>3, <1>5 DEF Delivered, logs, shown, Asked
<1> QED BY <1>4, <1>6

LEMMA HearOtherStep ==
  ASSUME LogInv, GotReady \/ HearReady \/ HearAuth
  PROVE  LogInv'
<1> USE DEF LogInv
<1>1. UNCHANGED <<logs, window, shown>>
  BY DEF GotReady, HearReady, HearAuth, application
<1>2. events' \in Seq(EventSet) /\ LogEvents' = LogEvents
  <2>1. CASE GotReady
    BY <2>1 DEF GotReady, LogTypes, LogEvents
  <2>2. CASE HearReady
    <3>1. Hears("ready") /\ events \in Seq(EventSet)
      BY <2>2 DEF HearReady, LogTypes
    <3> QED BY <3>1, HearsOK
  <2>3. CASE HearAuth
    <3>1. Hears("interactiveAuth") /\ events \in Seq(EventSet)
      BY <2>3 DEF HearAuth, LogTypes
    <3> QED BY <3>1, HearsOK
  <2> QED BY <2>1, <2>2, <2>3
<1>3. calls'["logs"] = calls["logs"] /\ calls' = [c \in Calls |-> calls'[c]]
  BY DEF GotReady, HearReady, HearAuth, Gets, LogTypes, Calls
<1>4. LogTypes'
  BY <1>1, <1>2, <1>3 DEF LogTypes, logs, shown
<1>5. UnderWay' = UnderWay
  BY <1>1, <1>2 DEF UnderWay, logs, shown
<1>6. Delivered'
  BY <1>1, <1>3, <1>5 DEF Delivered, logs, shown
<1> QED BY <1>4, <1>6

\* The answer becomes the list.
LEMMA GotLogsStep == LogInv /\ GotLogs => LogInv'
<1> SUFFICES ASSUME LogInv, GotLogs PROVE LogInv'
  OBVIOUS
<1> USE DEF LogInv
<1>1. /\ calls["logs"].is = "answered" /\ messages' = calls["logs"].value
      /\ calls'["logs"] = Idle /\ calls' = [c \in Calls |-> calls'[c]]
  BY DEF GotLogs, Gets, LogTypes, Calls
<1>2. UNCHANGED <<logs, events, window, overtaken>>
  BY DEF GotLogs, application
<1>3. LogTypes'
  BY <1>1, <1>2 DEF LogTypes, logs, Idle
<1>4. UnderWay' = UnderWay
  BY <1>2 DEF UnderWay, LogEvents, logs
<1>5. Delivered'
  BY <1>1, <1>2, <1>4 DEF Delivered, logs, Idle
<1> QED BY <1>3, <1>5

\* An entry is added to the list, or remembered as one that came too early.
LEMMA HearLogStep == LogInv /\ HearLog => LogInv'
<1> SUFFICES ASSUME LogInv, HearLog PROVE LogInv'
  OBVIOUS
<1> USE DEF LogInv
<1> DEFINE n == Head(events).value
<1>1. /\ events' \in Seq(EventSet) /\ LogEvents = LogEvents' \union {n} /\ n \in Nat
  <2>1. /\ events' \in Seq(EventSet) /\ LogEvents = LogEvents' \union {n}
        /\ Head(events) \in EventSet /\ Head(events).is = "log-event"
    BY HearsOK DEF HearLog, LogTypes
  <2> QED BY <2>1 DEF EventSet
<1>2. UNCHANGED <<logs, calls, window>>
  BY DEF HearLog, application
<1>3. CASE window # "app"
  <2>1. LogTypes'
    BY <1>1, <1>2, <1>3 DEF HearLog, LogTypes, logs, shown
  <2>2. Delivered'
    BY <1>2, <1>3 DEF Delivered
  <2> QED BY <2>1, <2>2
<1>4. CASE window = "app"
  <2>1. /\ messages' \in Seq(Nat) /\ Range(messages') = Range(messages) \union {n}
        /\ overtaken' = IF calls["logs"] = Idle THEN overtaken ELSE overtaken \union {n}
    <3>1. /\ messages \in Seq(Nat) /\ messages' = Append(messages, n)
          /\ overtaken' = IF calls["logs"] = Idle THEN overtaken
                          ELSE overtaken \union {n}
      BY <1>4 DEF HearLog, LogTypes
    <3>2. Range(Append(messages, n)) = Range(messages) \union {n}
          /\ Append(messages, n) \in Seq(Nat)
      BY <1>1, <3>1, RangeAppend, AppendProperties
    <3> QED BY <3>1, <3>2
  <2>2. LogTypes'
    BY <1>1, <1>2, <2>1 DEF LogTypes, logs
  <2>3. Delivered'
    <3>1. CASE calls["logs"].is = "idle"
      <4>1. UnderWay \subseteq UnderWay' \union Range(messages')
        BY <1>1, <1>2, <2>1 DEF UnderWay, logs
      <4> QED BY <1>2, <1>4, <2>1, <3>1, <4>1 DEF Delivered, logs
    <3>2. CASE calls["logs"].is # "idle"
      <4>1. calls["logs"] # Idle
        BY <3>2 DEF Idle
      <4>2. UnderWay \subseteq UnderWay'
        BY <1>1, <1>2, <2>1, <4>1 DEF UnderWay, logs
      <4> QED BY <1>2, <1>4, <3>2, <4>2 DEF Delivered, logs
    <3> QED BY <3>1, <3>2
  <2> QED BY <2>2, <2>3
<1> QED BY <1>3, <1>4

LEMMA OtherStep ==
  ASSUME LogInv, UNCHANGED logVars
  PROVE  LogInv'
BY DEF LogInv, logVars, logs, wire, shown, LogTypes, Delivered, UnderWay, LogEvents

-----------------------------------------------------------------------------
LEMMA LogStep == LogInv /\ [Next]_vars => LogInv'
<1> SUFFICES ASSUME LogInv, [Next]_vars PROVE LogInv'
  OBVIOUS
<1>1. CASE LogEntry \/ EmitReady \/ StartForwarding \/ Fail \/ AnswersApp
           \/ \E c \in Clients : AskAccess(c)
  BY <1>1, ApplicationStep
<1>2. CASE Forward
  BY <1>2, ForwardStep
<1>3. CASE Load \/ GotFatal \/ HearFatal
  BY <1>3, MountStep
<1>4. CASE GotReady \/ HearReady \/ HearAuth
  BY <1>4, HearOtherStep
<1>5. CASE GotLogs \/ HearLog
  BY <1>5, GotLogsStep, HearLogStep
<1>6. CASE SetReady \/ Listen \/ SetFatal
  <2>1. UNCHANGED logVars
    BY <1>6 DEF SetReady, Listen, SetFatal, frontend, logVars
  <2> QED BY <2>1, OtherStep
<1>7. CASE RenderDialog \/ \E c \in Clients : AnswerAuth(c, "allowed") \/ AnswerAuth(c, "denied")
  <2>1. UNCHANGED logVars
    BY <1>7 DEF RenderDialog, AnswerAuth, application, logVars
  <2> QED BY <2>1, OtherStep
<1>8. CASE Link \/ Disconnect
  <2>1. UNCHANGED linkOnly
    BY <1>8 DEF Link, Dial, Connect, Served, Refused, StartBypass,
                AuthenticateKVClient, BypassDone, Reconnect, Disconnect
  <2>2. UNCHANGED logVars
    BY <2>1 DEF linkOnly, application, logVars
  <2> QED BY <2>2, OtherStep
<1>9. CASE UNCHANGED vars
  <2>1. UNCHANGED logVars
    BY <1>9 DEF vars, logVars
  <2> QED BY <2>1, OtherStep
<1> QED BY <1>1, <1>2, <1>3, <1>4, <1>5, <1>6, <1>7, <1>8, <1>9
        DEF Next, Startup, Replies, Webview

\* Whatever order the start of the application, the loading of the page, the
\* answer of GetLastLogs and the log events take, and whatever windows come
\* and go, the dashboard ends up with every entry the application still has,
\* except those whose event came before the answer that loadedLogData puts
\* in the place of the list.
THEOREM NoEntryIsLost == Spec => []LogsArrive
<1>1. LogInv => LogsArrive
  <2> SUFFICES ASSUME LogInv, window = "app", calls["logs"] = Idle,
                      incoming = <<>>, events = <<>>
               PROVE  Range(lastLogs) \subseteq Range(messages) \union overtaken
    BY DEF LogsArrive
  <2>1. Range(incoming) = {} /\ LogEvents = {}
    BY DEF Range, LogEvents
  <2> QED BY <2>1 DEF LogInv, Delivered, UnderWay, Idle
<1>2. Init => LogInv
  BY InitLog
<1>3. LogInv /\ [Next]_vars => LogInv'
  BY LogStep
<1> QED BY <1>1, <1>2, <1>3, PTL DEF Spec

-----------------------------------------------------------------------------
(* The dialog of access requests, and the types of everything.             *)

\* A request is asked once; until it is heard of nobody answers it, and what
\* was rendered is still asked for.
Asks(i, c) == events[i].is = "interactiveAuth" /\ events[i].value = c
AskedOnce(c) ==
  \A i, j \in DOMAIN events : Asks(i, c) /\ Asks(j, c) => i = j
Unheard(c) ==
  (\E i \in DOMAIN events : Asks(i, c))
    => access[c] = "waiting" /\ requests[c] = 0 /\ seen[c] = 0
Waits(c) ==
  /\ seen[c] <= requests[c] /\ requests[c] <= 1
  /\ requests[c] > 0 => access[c] = "waiting"
AuthInv == \A c \in Clients : AskedOnce(c) /\ Unheard(c) /\ Waits(c)
ShellInv == LogInv /\ TypeOK /\ AuthInv

LEMMA InitShell == Init => ShellInv
<1> SUFFICES ASSUME Init PROVE ShellInv
  OBVIOUS
<1>1. TypeOK
  <2>1. History \in Nat /\ Backlog \in Nat /\ Len(<<>>) = 0
    BY ShellAssumption
  <2> QED BY <2>1 DEF Init, TypeOK
<1>2. AuthInv
  BY DEF Init, AuthInv, AskedOnce, Unheard, Waits
<1> QED BY <1>1, <1>2, InitLog DEF ShellInv

LEMMA EventIndices ==
  ASSUME events \in Seq(EventSet)
  PROVE  Len(events) \in Nat /\ DOMAIN events = 1 .. Len(events)
BY LenProperties

\* An event that is no request of access.
LEMMA EmitAsks ==
  ASSUME ShellInv, NEW e \in EventSet, e.is # "interactiveAuth", Emit(e),
         UNCHANGED <<access, dialog>>
  PROVE  AuthInv'
<1>1. /\ Len(events) \in Nat /\ DOMAIN events = 1 .. Len(events)
      /\ DOMAIN events' = 1 .. Len(events) + 1
      /\ \A i \in DOMAIN events : events'[i] = events[i]
      /\ events'[Len(events) + 1] = e
  BY EventIndices, AppendProperties DEF ShellInv, LogInv, LogTypes, Emit
<1>2. ASSUME NEW c \in Clients, NEW i \in DOMAIN events', Asks(i, c)'
      PROVE  i \in DOMAIN events /\ Asks(i, c)
  BY <1>1, <1>2 DEF Asks
<1> QED BY <1>2 DEF ShellInv, AuthInv, AskedOnce, Unheard, Waits, dialog

\* An event is taken; its own request, if it is one, is not asked again.
LEMMA HearsAsks ==
  ASSUME ShellInv, NEW is, Hears(is), NEW c \in Clients
  PROVE  /\ AskedOnce(c)'
         /\ (\E i \in DOMAIN events' : Asks(i, c)')
              => /\ \E i \in DOMAIN events : Asks(i, c)
                 /\ ~(Head(events).is = "interactiveAuth" /\ Head(events).value = c)
<1>1. /\ Len(events) \in Nat /\ DOMAIN events = 1 .. Len(events)
      /\ Len(events') = Len(events) - 1 /\ DOMAIN events' = 1 .. Len(events')
      /\ \A i \in DOMAIN events' : i + 1 \in DOMAIN events /\ events'[i] = events[i + 1]
      /\ Head(events) = events[1] /\ 1 \in DOMAIN events
  <2>1. events \in Seq(EventSet) /\ events # <<>> /\ events' = Tail(events)
    BY DEF ShellInv, LogInv, LogTypes, Hears
  <2> QED BY <2>1, HeadTailProperties, LenProperties, EmptySeq
<1>2. ASSUME NEW i \in DOMAIN events', Asks(i, c)'
      PROVE  i + 1 \in DOMAIN events /\ Asks(i + 1, c)
  BY <1>1, <1>2 DEF Asks
<1>3. AskedOnce(c)
  BY DEF ShellInv, AuthInv
<1>4. AskedOnce(c)'
  <2> SUFFICES ASSUME NEW i \in DOMAIN events', NEW j \in DOMAIN events',
                      Asks(i, c)', Asks(j, c)'
               PROVE  i = j
    BY DEF AskedOnce
  <2>1. i + 1 = j + 1
    BY <1>2, <1>3 DEF AskedOnce
  <2> QED BY <1>1, <2>1
<1>5. ASSUME NEW i \in DOMAIN events', Asks(i, c)'
      PROVE  ~(Head(events).is = "interactiveAuth" /\ Head(events).value = c)
  BY <1>1, <1>2, <1>3, <1>5 DEF AskedOnce, Asks
<1> QED BY <1>2, <1>4, <1>5

LEMMA HearOthersAsks ==
  ASSUME ShellInv, NEW is, Hears(is),
         UNCHANGED access, UNCHANGED dialog \/ Hidden
  PROVE  AuthInv'
<1>1. ASSUME NEW c \in Clients PROVE AskedOnce(c)' /\ Unheard(c)' /\ Waits(c)'
  <2>1. /\ AskedOnce(c)'
        /\ (\E i \in DOMAIN events' : Asks(i, c)')
             => \E i \in DOMAIN events : Asks(i, c)
    BY HearsAsks
  <2>2. AskedOnce(c) /\ Unheard(c) /\ Waits(c)
    BY DEF ShellInv, AuthInv
  <2>3. CASE UNCHANGED dialog
    BY <2>1, <2>2, <2>3 DEF Unheard, Waits, dialog
  <2>4. CASE Hidden
    BY <2>1, <2>2, <2>4 DEF Unheard, Waits, Hidden
  <2> QED BY <2>3, <2>4
<1> QED BY <1>1 DEF AuthInv

\* The dialog is unmounted, or nothing of it changes.
LEMMA StillAsks ==
  ASSUME ShellInv, UNCHANGED <<access, events>>, UNCHANGED dialog \/ Hidden
  PROVE  AuthInv'
<1>1. CASE UNCHANGED dialog
  BY <1>1 DEF ShellInv, AuthInv, AskedOnce, Unheard, Waits, Asks, dialog
<1>2. CASE Hidden
  BY <1>2 DEF ShellInv, AuthInv, AskedOnce, Unheard, Waits, Asks, Hidden
<1> QED BY <1>1, <1>2

LEMMA AskAccessAuth ==
  ASSUME ShellInv, NEW d \in Clients, AskAccess(d)
  PROVE  AuthInv'
<1>1. /\ Len(events) \in Nat /\ DOMAIN events = 1 .. Len(events)
      /\ DOMAIN events' = 1 .. Len(events) + 1
      /\ \A i \in DOMAIN events : events'[i] = events[i]
      /\ events'[Len(events) + 1].is = "interactiveAuth"
      /\ events'[Len(events) + 1].value = d
  <2>1. events \in Seq(EventSet) /\ Event("interactiveAuth", d) \in EventSet
        /\ events' = Append(events, Event("interactiveAuth", d))
    BY DEF ShellInv, LogInv, LogTypes, AskAccess, Emit, Event, EventSet
  <2>2. DOMAIN events' = 1 .. Len(events) + 1
        /\ \A i \in 1 .. Len(events) : events'[i] = events[i]
        /\ events'[Len(events) + 1] = Event("interactiveAuth", d)
    BY <2>1, AppendProperties, LenProperties
  <2> QED BY <2>1, <2>2, EventIndices DEF Event
<1>2. /\ access[d] = "none" /\ UNCHANGED dialog
      /\ access' = [access EXCEPT ![d] = "waiting"]
      /\ access \in [Clients -> {"none", "waiting", "allowed", "denied"}]
      /\ requests \in [Clients -> Nat] /\ seen \in [Clients -> Nat]
  BY DEF AskAccess, frontend, ShellInv, TypeOK
<1>3. ASSUME NEW c \in Clients PROVE AskedOnce(c)' /\ Unheard(c)' /\ Waits(c)'
  <2>1. AskedOnce(c) /\ Unheard(c) /\ Waits(c)
    BY DEF ShellInv, AuthInv
  <2>2. CASE c # d
    <3>1. ASSUME NEW i \in DOMAIN events', Asks(i, c)'
          PROVE  i \in DOMAIN events /\ Asks(i, c)
      BY <1>1, <2>2, <3>1 DEF Asks
    <3> QED BY <1>2, <2>1, <2>2, <3>1 DEF AskedOnce, Unheard, Waits, dialog
  <2>3. CASE c = d
    <3>1. ~\E i \in DOMAIN events : Asks(i, c)
      BY <1>2, <2>1, <2>3 DEF Unheard
    <3>2. ASSUME NEW i \in DOMAIN events', Asks(i, c)'
          PROVE  i = Len(events) + 1
      BY <1>1, <3>1, <3>2 DEF Asks
    <3>3. requests[c] = 0 /\ seen[c] = 0
      BY <1>2, <2>1, <2>3 DEF Waits
    <3> QED BY <1>2, <2>3, <3>2, <3>3 DEF AskedOnce, Unheard, Waits, dialog
  <2> QED BY <2>2, <2>3
<1> QED BY <1>3 DEF AuthInv

\* A request that is heard of is new to the list, which may be an older one.
LEMMA HearAuthAuth ==
  ASSUME ShellInv, HearAuth
  PROVE  AuthInv'
<1> DEFINE d == Head(events).value
<1>1. /\ Hears("interactiveAuth") /\ UNCHANGED <<access, seen>>
      /\ requests' = IF DialogHere THEN [seen EXCEPT ![d] = @ + 1] ELSE requests
      /\ requests \in [Clients -> Nat] /\ seen \in [Clients -> Nat]
  BY DEF HearAuth, ShellInv, TypeOK
<1>2. d \in Clients /\ Head(events).is = "interactiveAuth"
  <2>1. Head(events) \in EventSet /\ Head(events).is = "interactiveAuth"
    BY <1>1, HearsOK DEF ShellInv, LogInv, LogTypes
  <2> QED BY <2>1 DEF EventSet
<1>3. \E i \in DOMAIN events : Asks(i, d)
  <2>1. events \in Seq(EventSet) /\ events # <<>>
    BY <1>1 DEF ShellInv, LogInv, LogTypes, Hears
  <2>2. 1 \in DOMAIN events /\ Head(events) = events[1]
    BY <2>1, LenProperties, EmptySeq, HeadTailProperties
  <2> QED BY <1>2, <2>2 DEF Asks
<1>4. ASSUME NEW c \in Clients PROVE AskedOnce(c)' /\ Unheard(c)' /\ Waits(c)'
  <2>1. AskedOnce(c) /\ Unheard(c) /\ Waits(c)
    BY DEF ShellInv, AuthInv
  <2>2. /\ AskedOnce(c)'
        /\ (\E i \in DOMAIN events' : Asks(i, c)')
             => (\E i \in DOMAIN events : Asks(i, c)) /\ c # d
    BY <1>1, <1>2, HearsAsks
  <2>3. CASE c = d
    <3>1. access[c] = "waiting" /\ requests[c] = 0 /\ seen[c] = 0
      BY <1>3, <2>1, <2>3 DEF Unheard
    <3>2. requests'[c] \in {0, 1}
      BY <1>1, <2>3, <3>1
    <3> QED BY <1>1, <2>2, <2>3, <3>1, <3>2 DEF Unheard, Waits
  <2>4. CASE c # d
    <3>1. requests'[c] \in {requests[c], seen[c]}
      BY <1>1, <2>4
    <3> QED BY <1>1, <2>1, <2>2, <3>1 DEF Unheard, Waits
  <2> QED BY <2>3, <2>4
<1> QED BY <1>4 DEF AuthInv

LEMMA DialogAuth ==
  ASSUME ShellInv,
         RenderDialog
           \/ \E c \in Clients : AnswerAuth(c, "allowed") \/ AnswerAuth(c, "denied")
  PROVE  AuthInv'
<1>1. requests \in [Clients -> Nat] /\ seen \in [Clients -> Nat]
      /\ access \in [Clients -> {"none", "waiting", "allowed", "denied"}]
  BY DEF ShellInv, TypeOK
<1>2. CASE RenderDialog
  BY <1>1, <1>2
  DEF RenderDialog, wire, ShellInv, AuthInv, AskedOnce, Unheard, Waits, Asks
<1>3. ASSUME NEW d \in Clients, NEW answer, AnswerAuth(d, answer)
      PROVE  AuthInv'
  <2>1. /\ seen[d] > 0 /\ UNCHANGED events
        /\ access' = [access EXCEPT ![d] = IF @ = "waiting" THEN answer ELSE @]
        /\ requests' = [seen EXCEPT ![d] = 0] /\ seen' = requests'
    BY <1>3 DEF AnswerAuth, wire
  <2>2. ASSUME NEW c \in Clients PROVE AskedOnce(c)' /\ Unheard(c)' /\ Waits(c)'
    <3>1. AskedOnce(c) /\ Unheard(c) /\ Waits(c)
      BY DEF ShellInv, AuthInv
    <3>2. AskedOnce(c)'
      BY <2>1, <3>1 DEF AskedOnce, Asks
    <3>3. CASE c = d
      BY <1>1, <2>1, <3>1, <3>2, <3>3 DEF Unheard, Waits, Asks
    <3>4. CASE c # d
      BY <1>1, <2>1, <3>1, <3>2, <3>4 DEF Unheard, Waits, Asks
    <3> QED BY <3>2, <3>3, <3>4
  <2> QED BY <2>2 DEF AuthInv
<1> QED BY <1>2, <1>3

\* Every step but those of the dialog: it takes or adds an event that asks
\* for nothing, and leaves the dialog alone or unmounts it.
LEMMA AuthStep == ShellInv /\ [Next]_vars => AuthInv'
<1> SUFFICES ASSUME ShellInv, [Next]_vars PROVE AuthInv'
  OBVIOUS
<1>1. CASE EmitReady \/ Fail \/ Forward
  <2>1. PICK e \in EventSet : Emit(e) /\ e.is # "interactiveAuth"
    <3>1. Event("ready", TRUE) \in EventSet /\ Event("ready", TRUE).is = "ready"
      BY DEF Event, EventSet
    <3>2. Event("fatalError", TRUE) \in EventSet
          /\ Event("fatalError", TRUE).is = "fatalError"
      BY DEF Event, EventSet
    <3>3. ASSUME Forward
          PROVE  /\ Event("log-event", Head(incoming)) \in EventSet
                 /\ Event("log-event", Head(incoming)).is = "log-event"
      <4>1. Head(incoming) \in Nat
        BY <3>3, HeadTailProperties DEF Forward, ShellInv, LogInv, LogTypes
      <4> QED BY <4>1 DEF Event, EventSet
    <3> QED BY <1>1, <3>1, <3>2, <3>3 DEF EmitReady, Fail, Forward
  <2>2. UNCHANGED <<access, dialog>>
    BY <1>1 DEF EmitReady, Fail, Forward, frontend
  <2> QED BY <2>1, <2>2, EmitAsks
<1>2. CASE HearFatal \/ HearReady \/ HearLog
  <2>1. UNCHANGED access /\ (UNCHANGED dialog \/ Hidden)
    BY <1>2 DEF HearFatal, HearReady, HearLog, SetsFatal, dialog
  <2>2. \E is \in {"fatalError", "ready", "log-event"} : Hears(is)
    BY <1>2 DEF HearFatal, HearReady, HearLog
  <2> QED BY <2>1, <2>2, HearOthersAsks
<1>3. CASE HearAuth
  BY <1>3, HearAuthAuth
<1>4. CASE \E c \in Clients : AskAccess(c)
  BY <1>4, AskAccessAuth
<1>5. CASE RenderDialog \/ \E c \in Clients : AnswerAuth(c, "allowed")
                                                \/ AnswerAuth(c, "denied")
  BY <1>5, DialogAuth
<1>6. CASE Load \/ GotFatal \/ GotReady \/ GotLogs
  <2>1. UNCHANGED <<access, events>> /\ (UNCHANGED dialog \/ Hidden)
    BY <1>6 DEF Load, GotFatal, GotReady, GotLogs, SetsFatal, dialog
  <2> QED BY <2>1, StillAsks
<1>7. CASE AnswersApp \/ LogEntry \/ SetReady \/ StartForwarding \/ Listen \/ SetFatal
  <2>1. UNCHANGED <<access, events, dialog>>
    BY <1>7 DEF AnswersApp, LogEntry, SetReady, StartForwarding, Listen, SetFatal,
                wire, frontend
  <2> QED BY <2>1, StillAsks
<1>8. CASE Link \/ Disconnect
  <2>1. UNCHANGED linkOnly
    BY <1>8 DEF Link, Dial, Connect, Served, Refused, StartBypass,
                AuthenticateKVClient, BypassDone, Reconnect, Disconnect
  <2>2. UNCHANGED dialog \/ Hidden
    BY <1>8 DEF Link, Dial, Connect, Served, Refused, StartBypass,
                AuthenticateKVClient, BypassDone, Reconnect, Disconnect
  <2> QED BY <2>1, <2>2, StillAsks DEF linkOnly, wire
<1>9. CASE UNCHANGED vars
  <2>1. UNCHANGED <<access, events, dialog>>
    BY <1>9 DEF vars, wire
  <2> QED BY <2>1, StillAsks
<1> QED BY <1>1, <1>2, <1>3, <1>4, <1>5, <1>6, <1>7, <1>8, <1>9
        DEF Next, Startup, Replies, Webview

-----------------------------------------------------------------------------
(* The types.                                                              *)

\* The log's history and its channel keep to their capacities.
LogLengths == Len(lastLogs) <= History /\ Len(incoming) <= Backlog

LEMMA LoggingLengths ==
  ASSUME ShellInv, Logging
  PROVE  LogLengths'
<1> DEFINE kept == IF Len(lastLogs) < History THEN lastLogs ELSE Tail(lastLogs)
<1>1. /\ lastLogs \in Seq(Nat) /\ incoming \in Seq(Nat) /\ logged' \in Nat
      /\ lastLogs' = Append(kept, logged') /\ incoming' = Append(incoming, logged')
      /\ Len(incoming) < Backlog /\ Len(lastLogs) <= History
      /\ History \in Nat \ {0} /\ Backlog \in Nat
  <2>1. lastLogs \in Seq(Nat) /\ incoming \in Seq(Nat) /\ logged \in Nat
    BY DEF ShellInv, LogInv, LogTypes
  <2>2. Len(lastLogs) <= History
    BY DEF ShellInv, TypeOK
  <2>3. /\ lastLogs' = Append(kept, logged') /\ incoming' = Append(incoming, logged')
        /\ Len(incoming) < Backlog /\ logged' = logged + 1
    BY Zenon DEF Logging
  <2> HIDE DEF kept
  <2> QED BY <2>1, <2>2, <2>3, ShellAssumption
<1>2. kept \in Seq(Nat) /\ Len(kept) < History
  <2>1. CASE Len(lastLogs) < History
    BY <1>1, <2>1
  <2>2. CASE ~(Len(lastLogs) < History)
    <3>1. lastLogs # <<>> /\ Len(lastLogs) \in Nat
      BY <1>1, <2>2, EmptySeq, LenProperties
    <3>2. Tail(lastLogs) \in Seq(Nat) /\ Len(Tail(lastLogs)) = Len(lastLogs) - 1
      BY <1>1, <3>1, HeadTailProperties
    <3> QED BY <1>1, <2>2, <3>1, <3>2
  <2> QED BY <2>1, <2>2
<1> HIDE DEF kept
<1>3. Len(lastLogs') = Len(kept) + 1 /\ Len(incoming') = Len(incoming) + 1
      /\ Len(kept) \in Nat /\ Len(incoming) \in Nat
  BY <1>1, <1>2, AppendProperties, LenProperties
<1> QED BY <1>1, <1>2, <1>3 DEF LogLengths

LEMMA LengthsStep == ShellInv /\ [Next]_vars => LogLengths'
<1> SUFFICES ASSUME ShellInv, [Next]_vars PROVE LogLengths'
  OBVIOUS
<1>1. CASE LogEntry \/ StartForwarding \/ Fail
  <2>1. Logging
    BY <1>1 DEF LogEntry, StartForwarding, Fail
  <2> QED BY <2>1, LoggingLengths
<1>2. CASE Forward
  <2>1. incoming \in Seq(Nat) /\ incoming # <<>> /\ incoming' = Tail(incoming)
        /\ UNCHANGED lastLogs
    BY <1>2 DEF Forward, ShellInv, LogInv, LogTypes
  <2>2. Len(incoming') = Len(incoming) - 1 /\ Len(incoming) \in Nat
    BY <2>1, HeadTailProperties, LenProperties
  <2> QED BY <2>1, <2>2, ShellAssumption DEF LogLengths, ShellInv, TypeOK
<1>3. CASE UNCHANGED logs
  BY <1>3 DEF LogLengths, logs, ShellInv, TypeOK
<1>4. CASE Load \/ GotFatal \/ GotReady \/ GotLogs \/ HearFatal \/ HearReady
           \/ HearLog \/ HearAuth \/ RenderDialog
           \/ \E c \in Clients : AnswerAuth(c, "allowed") \/ AnswerAuth(c, "denied")
  <2>1. UNCHANGED logs
    BY <1>4 DEF Load, GotFatal, GotReady, GotLogs, HearFatal, HearReady, HearLog,
                HearAuth, RenderDialog, AnswerAuth, application
  <2> QED BY <2>1, <1>3
<1>5. CASE SetReady \/ EmitReady \/ Listen \/ SetFatal \/ AnswersApp
           \/ \E c \in Clients : AskAccess(c)
  <2>1. UNCHANGED logs
    BY <1>5 DEF SetReady, EmitReady, Listen, SetFatal, AnswersApp, AskAccess
  <2> QED BY <2>1, <1>3
<1>6. CASE Link \/ Disconnect
  <2>1. UNCHANGED linkOnly
    BY <1>6 DEF Link, Dial, Connect, Served, Refused, StartBypass,
                AuthenticateKVClient, BypassDone, Reconnect, Disconnect
  <2> QED BY <2>1, <1>3 DEF linkOnly, application
<1>7. CASE UNCHANGED vars
  BY <1>7, <1>3 DEF vars
<1> QED BY <1>1, <1>2, <1>4, <1>5, <1>6, <1>7
        DEF Next, Startup, Replies, Webview

\* What the application and the dialog keep of each client.
ClientTypes ==
  /\ access \in [Clients -> {"none", "waiting", "allowed", "denied"}]
  /\ requests \in [Clients -> Nat] /\ seen \in [Clients -> Nat]
\* The window and its link to the database.
WindowTypes ==
  /\ window \in {"unloaded", "app", "crash"}
  /\ conn \in {"NotConnected", "AuthenticationNeeded", "Connected"}
  /\ session \in {"none", "open", "authenticated"}
  /\ dial \in {"none", "connect", "done", "failed"}
  /\ bypass \in {"none", "uid", "answered", "stale"}
  /\ slip \in {"none", "fatal", "ready", "early", "bypass"}

LEMMA ClientsStep == ShellInv /\ [Next]_vars => ClientTypes'
<1> SUFFICES ASSUME ShellInv, [Next]_vars PROVE ClientTypes'
  OBVIOUS
<1>1. ClientTypes
  BY DEF ClientTypes, ShellInv, TypeOK
<1>2. CASE UNCHANGED access /\ (UNCHANGED dialog \/ Hidden)
  BY <1>1, <1>2 DEF ClientTypes, dialog, Hidden
<1>3. CASE HearAuth
  <2> DEFINE d == Head(events).value
  <2>1. UNCHANGED <<access, seen>>
        /\ (requests' = [seen EXCEPT ![d] = @ + 1] \/ requests' = requests)
    BY <1>3 DEF HearAuth
  <2>2. d \in Clients
    <3>1. Head(events) \in EventSet /\ Head(events).is = "interactiveAuth"
      BY <1>3, HearsOK DEF HearAuth, ShellInv, LogInv, LogTypes
    <3> QED BY <3>1 DEF EventSet
  <2> HIDE DEF d
  <2>3. requests' \in [Clients -> Nat]
    BY <1>1, <2>1, <2>2 DEF ClientTypes
  <2> QED BY <1>1, <2>1, <2>3 DEF ClientTypes
<1>4. CASE RenderDialog
  BY <1>1, <1>4 DEF RenderDialog, ClientTypes
<1>5. ASSUME NEW c \in Clients, AskAccess(c) PROVE ClientTypes'
  <2>1. access' = [access EXCEPT ![c] = "waiting"] /\ UNCHANGED dialog
    BY <1>5 DEF AskAccess, frontend
  <2> QED BY <1>1, <2>1 DEF ClientTypes, dialog
<1>6. ASSUME NEW c \in Clients, NEW answer \in {"allowed", "denied"},
             AnswerAuth(c, answer)
      PROVE  ClientTypes'
  BY <1>1, <1>6 DEF AnswerAuth, ClientTypes
<1>7. CASE LogEntry \/ SetReady \/ EmitReady \/ StartForwarding \/ Listen \/ Fail
           \/ SetFatal \/ Forward \/ AnswersApp
  <2>1. UNCHANGED <<access, dialog>>
    BY <1>7 DEF LogEntry, SetReady, EmitReady, StartForwarding, Listen, Fail,
                SetFatal, Forward, AnswersApp, frontend
  <2> QED BY <2>1, <1>2
<1>8. CASE Load \/ GotFatal \/ GotReady \/ GotLogs \/ HearFatal \/ HearReady \/ HearLog
  <2>1. UNCHANGED access /\ (UNCHANGED dialog \/ Hidden)
    BY <1>8 DEF Load, GotFatal, GotReady, GotLogs, HearFatal, HearReady, HearLog,
                SetsFatal, dialog
  <2> QED BY <2>1, <1>2
<1>9. CASE Link \/ Disconnect
  <2>1. UNCHANGED linkOnly /\ (UNCHANGED dialog \/ Hidden)
    BY <1>9 DEF Link, Dial, Connect, Served, Refused, StartBypass,
                AuthenticateKVClient, BypassDone, Reconnect, Disconnect
  <2> QED BY <2>1, <1>2 DEF linkOnly
<1>10. CASE UNCHANGED vars
  BY <1>2, <1>10 DEF vars
<1> QED BY <1>3, <1>4, <1>5, <1>6, <1>7, <1>8, <1>9, <1>10
        DEF Next, Startup, Replies, Webview

LEMMA WindowStep == ShellInv /\ [Next]_vars => WindowTypes'
<1> SUFFICES ASSUME ShellInv, [Next]_vars PROVE WindowTypes'
  OBVIOUS
<1>1. WindowTypes
  BY DEF WindowTypes, ShellInv, TypeOK
<1>2. CASE UNCHANGED <<window, link, slip>>
  BY <1>1, <1>2 DEF WindowTypes, link
<1>3. CASE Load
  BY <1>1, <1>3 DEF Load, AppMounts, WindowTypes, link
<1>4. CASE GotFatal
  BY <1>1, <1>4 DEF GotFatal, SetsFatal, AppMounts, SlipsIf, WindowTypes, link
<1>5. CASE GotReady
  BY <1>1, <1>5 DEF GotReady, SlipsIf, WindowTypes, link
<1>6. CASE HearFatal
  BY <1>1, <1>6 DEF HearFatal, SetsFatal, AppMounts, WindowTypes, link
<1>7. CASE GotLogs \/ HearReady \/ HearLog \/ HearAuth \/ RenderDialog
           \/ \E c \in Clients : AnswerAuth(c, "allowed") \/ AnswerAuth(c, "denied")
  <2>1. UNCHANGED <<window, link, slip>>
    BY <1>7 DEF GotLogs, HearReady, HearLog, HearAuth, RenderDialog, AnswerAuth
  <2> QED BY <2>1, <1>2
<1>8. CASE LogEntry \/ SetReady \/ EmitReady \/ StartForwarding \/ Listen \/ Fail
           \/ SetFatal \/ Forward \/ AnswersApp \/ \E c \in Clients : AskAccess(c)
  <2>1. UNCHANGED <<window, link, slip>>
    BY <1>8 DEF LogEntry, SetReady, EmitReady, StartForwarding, Listen, Fail,
                SetFatal, Forward, AnswersApp, AskAccess, frontend
  <2> QED BY <2>1, <1>2
<1>9. CASE Link
  <2>1. UNCHANGED window
    BY <1>9 DEF Link, Dial, Connect, Served, Refused, StartBypass,
                AuthenticateKVClient, BypassDone, Reconnect, linkOnly
  <2>2. CASE Dial \/ Served \/ Refused \/ StartBypass \/ AuthenticateKVClient
    BY <1>1, <2>1, <2>2 DEF Dial, Served, Refused, StartBypass, AuthenticateKVClient,
                            WindowTypes
  <2>3. CASE Connect
    BY <1>1, <2>1, <2>3 DEF Connect, Opened, SlipsIf, WindowTypes
  <2>4. CASE BypassDone
    BY <1>1, <2>1, <2>4 DEF BypassDone, SlipsIf, WindowTypes
  <2>5. CASE Reconnect
    BY <1>1, <2>1, <2>5 DEF Reconnect, Opened, WindowTypes
  <2> QED BY <1>9, <2>2, <2>3, <2>4, <2>5 DEF Link
<1>10. CASE Disconnect
  BY <1>1, <1>10 DEF Disconnect, WindowTypes, linkOnly
<1>11. CASE UNCHANGED vars
  BY <1>2, <1>11 DEF vars
<1> QED BY <1>3, <1>4, <1>5, <1>6, <1>7, <1>8, <1>9, <1>10, <1>11
        DEF Next, Startup, Replies, Webview

LEMMA ShellStep == ShellInv /\ [Next]_vars => ShellInv'
<1> SUFFICES ASSUME ShellInv, [Next]_vars PROVE ShellInv'
  OBVIOUS
<1>1. LogInv' /\ AuthInv'
  BY LogStep, AuthStep DEF ShellInv
<1>2. TypeOK'
  BY LengthsStep, ClientsStep, WindowStep
  DEF TypeOK, LogLengths, ClientTypes, WindowTypes
<1> QED BY <1>1, <1>2 DEF ShellInv

\* Every variable keeps its range whatever the application, the webview and
\* the link do: the history never holds more than LogHistory entries, nor
\* the channel of LogStorage.Write more than its capacity.
THEOREM ShellTyping == Spec => []TypeOK
<1>1. ShellInv => TypeOK
  BY DEF ShellInv
<1> QED BY <1>1, InitShell, ShellStep, PTL DEF Spec

\* An application that asks for access is asked about in at most one dialog,
\* and only while the hub still waits for the answer, although the handler
\* of "interactiveAuth" adds to the list of an earlier render: no render
\* with an answered request in it is left when the next event comes.
THEOREM OnlyWaitingAreAsked == Spec => []DialogsWait
<1>1. ShellInv => DialogsWait
  <2> SUFFICES ASSUME ShellInv, NEW c \in Clients, requests[c] > 0
               PROVE  requests[c] = 1 /\ access[c] = "waiting"
    BY DEF DialogsWait
  <2>1. Waits(c) /\ requests[c] \in Nat
    BY DEF ShellInv, AuthInv, TypeOK
  <2> QED BY <2>1 DEF Waits
<1> QED BY <1>1, InitShell, ShellStep, PTL DEF Spec
=============================================================================
