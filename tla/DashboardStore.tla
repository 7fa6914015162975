--------------------------- MODULE DashboardStore ---------------------------
(***************************************************************************)
(* The dashboard's copy of the database.  A page reads the keys it shows   *)
(* through useModule: it asks for the value, then subscribes; answers and  *)
(* pushes overwrite the copy in the store.  A page saves a key by sending  *)
(* the whole value, computed from the copy it has, and reads the key again *)
(* when the answer comes.  Requests and messages are FIFO on the one       *)
(* connection.  The hub at its other end and the client library are        *)
(* modelled from how the store uses them.                                  *)
(***************************************************************************)
EXTENDS Integers, SequencesExt

CONSTANTS
  Pages,   \* pages the user visits, "home" among them
  Users,   \* viewers with a balance
  Redeems, \* what viewers redeem, numbered in the order of time
  Saved,   \* the databases it may start with
  absent,  \* what the database has for a key that was never written
  null,    \* no value: a copy never loaded, and JSON's null
  Limits   \* bounds on what the user and the rest of the world do

\* The keys of `modules`, and the prefix of the balances.
Modules == {"httpConfig", "twitchConfig", "twitchBotConfig",
            "twitchBotCommands", "twitchBotTimers", "twitchBotAlerts",
            "loyaltyConfig", "loyaltyRewards", "loyaltyGoals",
            "loyaltyRedeemQueue", "uiConfig"}
Keys == Modules \union {"points"}
\* The application's Twitch credentials are stored beside them.
Stored == Keys \union {"authKeys"}

\* edit: clicks that send something; type: input in a form; visit: changes
\* of page; write: writes by other clients; cut: lost connections; all:
\* these together.
Budgets == {"edit", "type", "visit", "write", "cut", "all"}

ASSUME StoreAssumption ==
  /\ "home" \in Pages /\ Limits \in [Budgets -> Nat]
  /\ \A saved \in Saved :
       DOMAIN saved = Stored /\ saved["points"] \in [Users -> Int]
  /\ null \notin [Users -> Int] \union {absent}

VARIABLES
  db,      \* the database
  rpcs,    \* redeems the hub has been asked to hand to the loyalty manager
  held,    \* keys the hub pushes to this dashboard
  up,      \* requests the hub has not handled
  down,    \* answers and pushes the dashboard has not handled
  conn,    \* api.connectionStatus
  copies,  \* the state the selectors read, for each key
  load,    \* requestStatus["load-" + key]
  save,    \* requestStatus["save-" + key]
  page,    \* where the router is
  hooks,   \* keys with a handler: those of the mounted components
  local,   \* useState values of the mounted page
  tasks,   \* async functions that wait for a call to the application
  drafts,  \* history: keys whose copy was changed by hand
  unheard, \* history: keys written since they were last read, unpushed
  budget

hub == <<db, rpcs, held, unheard>>
wire == <<up, down>>
copy == <<copies, drafts>>
status == <<load, save>>
view == <<page, hooks, local>>
vars == <<hub, wire, conn, copy, status, view, tasks, budget>>

Statuses == {"none", "pending", "success", "error"}
\* The tasks that await a setter.
Awaiting == {"setBot", "setStep"}

Spend(b) ==
  /\ budget[b] > 0 /\ budget["all"] > 0
  /\ budget' = [budget EXCEPT ![b] = @ - 1, !["all"] = @ - 1]

\* initialState, on the page that App chooses as long as the setup is not
\* done; or, without that page, the home page after a lost connection.
Init ==
  /\ db \in Saved /\ rpcs = <<>> /\ held = {} /\ up = <<>> /\ down = <<>>
  /\ conn = "NotConnected"
  /\ copies = [k \in Keys |-> IF k = "uiConfig" /\ "setup" \notin Pages
                              THEN db[k] ELSE null]
  /\ load = [k \in Modules |-> "none"] /\ save = load
  /\ page = (IF "setup" \in Pages THEN "setup" ELSE "home")
  /\ hooks = {} /\ local = null /\ tasks = {}
  /\ drafts = {} /\ unheard = {} /\ budget = Limits

-----------------------------------------------------------------------------
(* Requests.  On a closed connection they are lost.                        *)

Get(k) == [op |-> "get", key |-> k]
Sub(k) == [op |-> "sub", key |-> k]
Unsub(ks) == [op |-> "unsub", keys |-> ks]
\* base is history: the copy the value was computed from; then: the function
\* that awaits the setter, if any.
PutThen(k, v, base, then) ==
  [op |-> "put", key |-> k, value |-> v, base |-> base, then |-> then]
Put(k, v, base) == PutThen(k, v, base, "nothing")
PutPoints(u, n) == [op |-> "points", user |-> u, value |-> n]
RemoveRedeem(r) == [op |-> "remove", redeem |-> r]

Send(requests) ==
  up' = IF conn = "NotConnected" THEN up ELSE up \o requests

\* dispatch(setter(v)): the setter's pending case, then its request.
Save(k, v) ==
  /\ Send(<<Put(k, v, copies[k])>>)
  /\ save' = [save EXCEPT ![k] = "pending"] /\ UNCHANGED load

\* dispatch(xChanged(v)) from a form: the copy is the form's draft.
Draft(k, v) ==
  /\ copies' = [copies EXCEPT ![k] = v] /\ drafts' = drafts \union {k}

-----------------------------------------------------------------------------
(* The hub: one request at a time, and writes by other clients.            *)

Handling(op) == up # <<>> /\ Head(up).op = op /\ up' = Tail(up)

HubGet ==
  /\ Handling("get")
  /\ LET k == Head(up).key IN
       /\ down' = Append(down, [is |-> "value", key |-> k, value |-> db[k]])
       /\ unheard' = unheard \ {k}
  /\ UNCHANGED <<db, rpcs, held, conn, copy, status, view, tasks,
                 budget>>

HubSubscribe ==
  /\ \/ Handling("sub") /\ held' = held \union {Head(up).key}
     \/ Handling("unsub") /\ held' = held \ Head(up).keys
  /\ UNCHANGED <<db, rpcs, unheard, down, conn, copy, status, view, tasks, budget>>

Push(k, v) ==
  IF k \in held THEN <<[is |-> "push", key |-> k, value |-> v]>> ELSE <<>>

\* The value of k becomes v; a subscriber hears of it, the others do not.
Write(k, v) ==
  /\ db' = [db EXCEPT ![k] = v]
  /\ unheard' = IF k \in held THEN unheard ELSE unheard \union {k}

\* The answer and the push of a write leave in either order.
HubPut ==
  /\ Handling("put")
  /\ LET k == Head(up).key
         v == Head(up).value
         stored == <<[is |-> "stored", key |-> k, then |-> Head(up).then]>>
     IN /\ Write(k, v)
        /\ down' \in {down \o Push(k, v) \o stored, down \o stored \o Push(k, v)}
  /\ UNCHANGED <<rpcs, held, conn, copy, status, view, tasks, budget>>

PointsPush(u, n) ==
  IF "points" \in held THEN <<[is |-> "points", user |-> u, value |-> n]>>
  ELSE <<>>

WritePoints(u, n) ==
  /\ Write("points", [db["points"] EXCEPT ![u] = n])
  /\ down' = down \o PointsPush(u, n)

HubPutPoints ==
  /\ Handling("points") /\ WritePoints(Head(up).user, Head(up).value)
  /\ UNCHANGED <<rpcs, held, conn, copy, status, view, tasks, budget>>

HubRemove ==
  /\ Handling("remove") /\ rpcs' = Append(rpcs, Head(up).redeem)
  /\ UNCHANGED <<db, held, unheard, down, conn, copy, status, view, tasks, budget>>

\* This mount of the page: each one spends from one of two budgets.
Mount == <<budget["visit"], budget["cut"]>>

\* Another client of the hub, or the application, writes k.  Bound: while
\* the page uses k; another time is like another value to start from.
WrittenElsewhere(k, v) ==
  /\ k \in hooks /\ Write(k, v) /\ down' = down \o Push(k, v)
  /\ UNCHANGED <<rpcs, held, up, conn, copy, status, view, tasks>>

-----------------------------------------------------------------------------
(* What the dashboard does with a message.                                 *)

Receive(is) == down # <<>> /\ Head(down).is = is /\ down' = Tail(down)

\* getter.fulfilled, or getter.rejected when JSON.parse fails on the empty
\* answer for a key that was never written.
Loaded ==
  /\ Receive("value") /\ Head(down).key \in Modules
  /\ LET k == Head(down).key
         v == Head(down).value
     IN \/ /\ v # absent
           /\ copies' = [copies EXCEPT ![k] = v] /\ drafts' = drafts \ {k}
           /\ load' = [load EXCEPT ![k] = "success"]
        \/ /\ v = absent
           /\ load' = [load EXCEPT ![k] = "error"] /\ UNCHANGED copy
  /\ UNCHANGED <<hub, up, conn, save, view, tasks, budget>>

\* The handler of useModule, if it is still registered.
Pushed ==
  /\ Receive("push") /\ Head(down).key \in Modules
  /\ LET k == Head(down).key IN
       IF k \in hooks
       THEN /\ copies' = [copies EXCEPT ![k] = Head(down).value]
            /\ drafts' = drafts \ {k}
       ELSE UNCHANGED copy
  /\ UNCHANGED <<hub, up, conn, status, view, tasks, budget>>

\* The setter goes on: it starts the getter, then is fulfilled.
SetterAnswered ==
  /\ Receive("stored") /\ Head(down).then = "nothing"
  /\ LET k == Head(down).key IN
       /\ load' = [load EXCEPT ![k] = "pending"]
       /\ save' = [save EXCEPT ![k] = "success"]
       /\ Send(<<Get(k)>>)
  /\ UNCHANGED <<hub, conn, copy, view, tasks, budget>>

\* getUserPoints.fulfilled
PointsLoaded ==
  /\ Receive("value") /\ Head(down).key = "points"
  /\ copies' = [copies EXCEPT !["points"] = Head(down).value]
  /\ UNCHANGED <<hub, up, conn, drafts, status, view, tasks, budget>>

\* loyaltyUserPointsChanged: an assignment into users, which must be there.
PointsPushed ==
  /\ Receive("points")
  /\ IF "points" \in hooks /\ copies["points"] # null
     THEN copies' = [copies EXCEPT
                       !["points"][Head(down).user] = Head(down).value]
     ELSE UNCHANGED copies
  /\ UNCHANGED <<hub, up, conn, drafts, status, view, tasks, budget>>

-----------------------------------------------------------------------------
(* Components come and go.                                                 *)
\* Fault: a component subscribes without reading the value.
MountingUnread(ks, others) == [i \in DOMAIN ks |-> Sub(ks[i])]

\* Fault: it subscribes before it reads.
SubscribingFirst(ks, others) ==
  FlattenSeq([i \in DOMAIN ks |-> <<Sub(ks[i]), Get(ks[i])>>])

\* Effects of useModule and useUserPoints: the getter first, then the
\* subscription, unless the client has a handler for the key already.  No
\* page has more than four.
Mounting(ks, others) ==
  LET Asked(i) ==
        IF i \notin DOMAIN ks THEN <<>>
        ELSE <<Get(ks[i])>> \o
             IF ks[i] \in others \union {ks[j] : j \in 1 .. i - 1} THEN <<>>
             ELSE <<Sub(ks[i])>>
  IN Asked(1) \o Asked(2) \o Asked(3) \o Asked(4)

\* Their cleanups: no handler is left for a key the page used.
Unmounting(ks) == IF ks = {} THEN <<>> ELSE <<Unsub(ks)>>

\* Fault: only what is shown of the loads is removed.
KeepSaves(old, new) ==
  /\ load' = [k \in Modules |-> IF k \in new THEN "pending"
                                ELSE IF k \in old THEN "none" ELSE load[k]]
  /\ UNCHANGED save

\* requestKeysRemoved for the old hooks, then getter.pending for the new.
StatusAfter(old, new) ==
  /\ save' = [k \in Modules |-> IF k \in old THEN "none" ELSE save[k]]
  /\ load' = [k \in Modules |-> IF k \in new THEN "pending"
                                ELSE IF k \in old THEN "none" ELSE load[k]]

\* Components that use the keys out unmount and others mount, which make
\* these requests; what stays mounted keeps its handlers, but its statuses
\* are removed with those of the same key that go.
Swap(out, in, requests, stays) ==
  /\ hooks' = stays \union in
  /\ Send(Unmounting(out \ stays) \o requests) /\ StatusAfter(out, in)

\* A dialog with a useModule of its own on a key the page uses as well.
DialogMounted(k) ==
  /\ Send(<<Get(k)>>) /\ load' = [load EXCEPT ![k] = "pending"]
  /\ UNCHANGED save
DialogUnmounted(k) ==
  /\ load' = [load EXCEPT ![k] = "none"]
  /\ save' = [save EXCEPT ![k] = "none"]

\* The close event: the status shown makes App unmount the page.  A setter
\* that has no answer yet never gets one, nor does the function awaiting it.
Disconnect ==
  /\ conn = "Connected" /\ Spend("cut")
  /\ conn' = "NotConnected" /\ up' = <<>> /\ down' = <<>> /\ held' = {}
  /\ hooks' = {} /\ local' = null /\ StatusAfter(hooks, {})
  /\ tasks' = {task \in tasks : task.does \notin Awaiting}
  /\ UNCHANGED <<db, rpcs, unheard, copy, page>>

StoreNext ==
  \/ HubGet \/ HubSubscribe \/ HubPut \/ HubPutPoints \/ HubRemove
  \/ Loaded \/ Pushed \/ SetterAnswered \/ PointsLoaded \/ PointsPushed
  \/ Disconnect

-----------------------------------------------------------------------------
Tables == {"twitchBotCommands", "twitchBotTimers", "loyaltyRewards",
           "loyaltyGoals"}

TypeOK ==
  /\ DOMAIN db = Stored /\ DOMAIN copies = Keys
  /\ db["points"] \in [Users -> Int]
  /\ copies["points"] \in [Users -> Int] \union {null}
  /\ held \subseteq Stored /\ hooks \subseteq Stored
  /\ drafts \subseteq Modules /\ unheard \subseteq Stored
  /\ conn \in {"NotConnected", "Connected"} /\ page \in Pages
  /\ load \in [Modules -> Statuses] /\ save \in [Modules -> Statuses]
  /\ \A i \in DOMAIN up :
       up[i].op \in {"get", "sub", "unsub", "put", "points", "remove"}
  /\ \A i \in DOMAIN down : down[i].is \in {"value", "push", "stored", "points"}

\* Nothing is on its way between the dashboard and the hub.
Quiet == conn = "Connected" /\ up = <<>> /\ down = <<>>

\* What the page shows is what is stored, once everything in flight has
\* arrived: pushes, re-reads after a save and the first read may cross in
\* any way and still leave the copy current.  The exceptions are a form's
\* own draft and a write that fell between the read and the subscription.
QuietCopyIsCurrent ==
  Quiet => \A k \in (hooks \intersect Keys) \ (drafts \union unheard) :
             copies[k] = db[k] \/ db[k] = absent

\* A push of a balance finds the balances loaded: users[user] = entry would
\* throw in the reducer if a push could overtake the first read.
PushesFindUsers ==
  (down # <<>> /\ Head(down).is = "points" /\ "points" \in hooks)
    => copies["points"] # null
=============================================================================
