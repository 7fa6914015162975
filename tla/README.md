# Verification of strimertul

strimertul is a desktop program for streamers: a Go process with a key-value
database (kilovolt), a Twitch client, a chat bot, a loyalty system, a web
server, and a dashboard that talks to the same database over a websocket. This
directory holds TLA+ models of it, the TLC runs that check them and proofs for
TLAPS. Three parts of the program are modelled: the loyalty system of the Go
process, the dashboard with its copy of the database, and the start of both
with the windows that show it. This file says how, what the checks and proofs
show, and what is left.

## 1. Inventory

Almost all state lives twice: as the value of a database key and as a copy in
some component's memory. Components write keys; the database pushes each write
to the callbacks that subscribed to the key, the writer's own included. The
callbacks, the IRC callbacks, a goroutine per chat command and a few endless
loops run concurrently, mostly without locks over more than one access.

| component (source) | state | operations | interacts with | hard behaviour | correct if |
|---|---|---|---|---|---|
| loyalty manager (`loyalty/manager.go`) | balances, queue, goals, rewards, cooldowns | redeem, create, remove, contribute, award, pushes | database, bot | unlocked read-modify-write, own pushes arriving late, partial failure, restart | each order checked, charged and credited once; no update lost, no balance below zero (races break these two); copies agree |
| points loop, reload (`loyalty/twitch-bot.go`, `update`) | loop goroutine, config copy, ban list, activity, restart channel | tick, ask Twitch, award, reload, close | Twitch client, bot | rendezvous on an unbuffered channel, loop that ends on its own, several callbacks | one loop, with the current configuration; ends after close |
| database client (`database/database.go`) | pending requests, subscriptions | get, put, subscribe | hub | synchronous requests from callbacks | replies reach their request |
| kilovolt hub, driver (`database/driver.pebble.go`) | the keys | read, write, push, backup | all | external library, disk | pushes of a key in order |
| Twitch manager, client (`twitch/client.go`) | current client, bot, stream status | reload client, reload bot, poll, close | web server, bot, EventSub | old and new client share a bot; poll loop that skips its select | one live bot with its handlers; goroutines end |
| chat bot (`twitch/bot.go`, `commands.go`) | commands, templates, chat history, last message | message, RPC, update of commands | loyalty, timers, alerts | handlers in goroutines, templates rebuilt in place, counters read-modify-write | cooldown kept, history is the last messages |
| EventSub (`twitch/client.eventsub.go`) | connection, seen IDs, subscribed sessions, history | dial, welcome, reconnect, notify | Twitch, database | duplicates, reconnects, failed dials, a goroutine per event | every event once, history complete |
| alerts (`twitch/bot.alerts.go`) | config, templates, pending subscriptions | event, merge, send | EventSub key, bot | two events per subscription in either order, a 3 s window | one alert per subscription with the data of both |
| timers (`twitch/bot.timer.go`) | activity window, last triggers | minute tick, message | bot | rounding of the next minute, goroutine that never ends | minimum delay and activity respected |
| user tokens (`twitch/client.auth.go`) | token pair, expiry | use, refresh | Twitch | concurrent refresh, expiry arithmetic | a usable pair is kept |
| web server (`webserver/server.go`) | config, server, routes, restart flag | listen, update, register, close | hub, client | flag set and read by two goroutines | listens on the last address |
| start, stop (`app.go`, `main.go`, `frontend/src/AppWrapper.tsx`) | phase of the start, flags for ready and fatal error | start up, fail, stop, authenticate a client | window, hub | flags and events read and sent in different orders by two processes | the window shows the dashboard or the crash |
| backups (`backup.go`) | backup files | backup, prune, list, restore | driver, crash window | failed backups and restores | the newest good ones are kept, the user is told what happened |
| logging (`logging.go`, `frontend/src/store/logging`) | history, channel, the window's list | write, forward, load, receive | dashboard | blocking channel, list and events that cross | no entry is missing, logging does not stall |
| dashboard store (`frontend/src/store/api`, `lib/react.ts`) | copies of keys, request status, handlers | load, save, subscribe, push, disconnect, reconnect | hub, pages | answers and pushes in any order, statuses shared by components | shows the database, nothing stays pending |
| extensions (`frontend/src/store/extensions`, `lib/extensions`, `ui/pages/Extensions.tsx`) | objects, workers, statuses, drafts | create, refresh, start, stop, edit, rename, remove | hub, workers | messages of old workers, handlers that accumulate, two keys for a rename | one worker per enabled extension, with the stored program |
| interactive authentication (`app.go`, `InteractiveAuthDialog.tsx`) | open requests | ask, answer | hub | a handler that closes over an old list | a dialog for each request that waits |
| pages (`frontend/src/ui/pages`) | dialogs, drafts, tables, the step of the setup | toggle, edit, delete, submit, page through, set up | store, application | whole tables and configurations saved from a copy; async functions that go on with an old render | a save changes what was edited; the setup ends when it is done |
| crash window (`frontend/src/ui/ErrorWindow.tsx`) | log, recovery and report dialogs | restore, report | application | two pieces of state for one outcome | the outcome shown is the outcome |
| theme, locales; documentation generator; CLI; utilities | | | | | not modelled (rendering, reflection, one-shot I/O) |

The hazards, each at its line with the properties that cover it, are listed in
`PROJECT.json`; section 6 names those of lesser weight and those of the parts
that are not modelled.

## 2. Modules

| module | models |
|---|---|
| `Loyalty` | `loyalty/manager.go` and the commands of `loyalty/twitch-bot.go`: balances, queue, goals |
| `LoyaltyLedger` | abstract: what the loyalty system promises viewers |
| `LoyaltyRefinement` | how `Loyalty` implements `LoyaltyLedger` |
| `LoyaltyLoop` | the points loop and what `Manager.update` does for a new configuration |
| `MCLoyalty`, `MCLoyaltyLoop` | small instances for TLC |
| `LoyaltyProofs` | typing of `Loyalty`, and that its copies agree |
| `LoyaltyBalanceProofs` | extends that: the proofs about balances |
| `LoyaltyLedgerProofs` | extends that: `Loyalty` implements `LoyaltyLedger` |
| `LoyaltyLoopProofs` | proofs about `LoyaltyLoop` |
| `DashboardStore` | the store: copies, requests, the hub, mounting and unmounting, lost connections |
| `EntryPages` | extends it: rewards, goals, commands, timers |
| `PointsPages` | extends that: redeem queue, balances, the `DataTable` |
| `FormPages` | extends `EntryPages`: alerts, loyalty, server, Twitch, interface, home |
| `Onboarding` | extends `FormPages`: the first-time setup |
| `Dashboard` | composes `PointsPages` and `Onboarding` with the router: the specification |
| `Extensions` | the extensions, their workers, editor and store |
| `AppShell` | start of application and window, connection, log, access requests |
| `CrashWindow` | the window after a fatal error |
| `MCDashboard`, `MCExtensions`, `MCAppShell` | small instances for TLC |
| `DashboardProofs` | typing of `Dashboard`, the kinds of steps it takes, what a save changes |
| `DashboardCopiesProofs` | extends that: copies, balances and the state of forms |
| `ExtensionsProofs`, `AppShellProofs` | proofs about these two |

Definitions commented "Fault:" are not part of any specification. Each is a
plausible mistake in the definition that follows it and is put in its place to
see that a property notices.

### 2.1 Loyalty

`mem` is what the manager's `points`, `Goals` and `Queue` hold and `store` what
the database holds, both by key. `echo[k]` are the pushes of key `k` that
`Manager.update` has not applied. Pushes of one key arrive in the order of the
writes; nothing is assumed between keys, because kilovolt runs callbacks apart
from the answers to requests. A push applied is `Update(k)`.

A goroutine has a place `pc[w]`, its arguments `job[w]` and the value of its
last read `snap[w]`. Each action is one access to a `sync.Map` or `sync.Slice`
or one request to the database, so everything the scheduler can interleave is
interleaved:

    !redeem      CommandRedeem -> CheckCooldown -> ReadQueue -> AppendQueue -> SendEvent
                   -> StartCooldown -> ReadList -> SaveList -> ReadBalance -> SetPoints -> PutPoints
    @create      RPCCreate -> ReadQueue -> ... -> SaveList
    @remove      RPCRemove -> FindRedeem -> UnlistRedeem -> ReadList -> SaveList
    !contribute  CommandContribute -> CapOffer -> ReadBalance -> SetPoints -> PutPoints
                   -> FindGoal -> AddToGoal -> ReadList -> SaveList
    points loop  AwardRound -> (ReadBalance -> SetPoints -> PutPoints) for every viewer

`Refuse` is a `PutJSON` that returns an error; the operation ends there, as the
code returns. `Restart` is a stop of the program at any point followed by
`NewManager`, which loads all keys before the HTTP server lets other clients in
(`app.go:105-123`), hence one step. Awards are made by the one `Ticker`
goroutine (`LoyaltyLoop` shows there is one); everything else by `Handlers`.
Other database clients write balances (`setUserPoints`) and goal lists
(`setGoals`), `ClientSetsPoints` and `ClientSavesGoals`.

Abstractions: the queue is a set, since no property is about its order; a
redeem is told apart by viewer, reward and time as `RemoveRedeem` does;
`ContributeGoal` writes into the slice that `Get` returned, which is the live
list unless it was replaced meanwhile, so `AddToGoal` picks either; the clock
only matters as "this reward's cooldown lies in the future" (`hot`). Left out:
the list of rewards, the contributors of a goal, replies in chat, malformed
values.

Operations start at any time and hold no lock, as in the code. The bot ignores
chat for `CommandCooldown` seconds after a command (`twitch/bot.go:170-174`), which
makes it unlikely that two commands cross; it can be configured to 0, and
RPCs, awards and dashboard writes are not held back by it, so the model does
not have it.

`charged`, `unsaved`, `ledger` and `crossed` are history variables: no action
reads them. `ledger` is the balance if every update had been atomic; it
survives a restart, which only the database does in the program. `crossed` are
the viewers for whom that cannot be expected: two updates of the balance
overlapped (one began between the read of another and the push of its write),
or one was in memory only when the program stopped.

### 2.2 LoyaltyLedger

With no lock, a balance may be computed from a stale copy; what an operation
does next, and how often, is nevertheless exact, and this is what the ledger is
about. An order passes through its stages once: a redeem is asked for within a
balance, declined or admitted by the cooldown, queued, published, and then owed
until it is paid once; a contribution is offered within a balance and a goal,
taken once and credited once with the same points; a round owes each viewer one
award. The balance, queue or list of goals that a step looks at or changes is one
of the `versions` of its key: stored, on its way, or held by a goroutine. An order
ends early by a refused write, which ends one operation (`Refuse`), by a
stop of the program (`Stop`), or because its goal is gone (`Lapse`); the first two
happen as often as the database refuses and the program stops, and at no other
time.

`LoyaltyRefinement` reads the abstract state from the detailed one: `Versions(k)`
are the copies, pushes and held values of a key, `Stage(w)` follows from the place
in the code. `Refuse` of the ledger is a `Refuse` of `Loyalty`, `Stop` a `Restart`, by the same
counters.

### 2.3 LoyaltyLoop

`update[p]` is where a callback of `ConfigKey` is: load the configuration, empty
and fill the ban list, hand the token to the loop, `StopTwitch`, `SetupTwitch`,
start the goroutine. Several callbacks may be under way. `loop[l]` is a points
loop: freshly started, in its `select`, asking Twitch, or about to give points,
with the configuration it copied and the viewers it picked. `Handoff` is the
send on the unbuffered channel: both sides step together. `AskFails` is any
error of the Twitch API. The environment writes configurations, sends chat
messages, changes the stream status, replaces the bot (`BotReplaced`, the effect
of `twitch/client.go:91-114` on the loyalty manager) and calls `Close`.
`BanList` is the same in every configuration: what the model asks is whether
someone on it all the time can get points. The awards themselves are
`AwardRound` of `Loyalty`.

### 2.4 Dashboard

`db` is the database, `copies` what the store has of it, `up` and `down` the
two directions of the websocket, both FIFO, which is what it is. The hub handles
one request at a time; the answer to a write and its push leave in either order.
`held` are the keys the hub pushes. A component that mounts runs the effects of
`useModule` (`lib/react.ts:47-97`): the getter, then the subscription, which the
client library makes once per key (`Mounting`); its cleanup unsubscribes and
removes the request statuses (`StatusAfter`), those of another component that
uses the same key included. `Loaded`, `Pushed`, `SetterAnswered` are the
fulfilled cases and the handler; a key that was never written has an empty
answer, on which `JSON.parse` fails, so its load ends as an error.

`page` is the route, `hooks` the keys of the mounted components, `local` the
`useState` values of the page, `tasks` the async functions that wait for a call
to the application. A task keeps what its closure captured; it changes `local`
only if the component that started it is still mounted (`Mounted`), while its
writes go out regardless, as in the code. React 18 renders what a click or a
store change caused before the browser handles another message, so the steps of
`Render` (redirect into the setup, leaving it, changing its step, dropping a
table that has no rows) go before all others (`RenderDue`).

    entry pages   Toggle*, Delete* -> one save of the whole table
                  Open* -> Type* -> Submit* (commands first await TestCommandTemplate:
                    SubmitCommand -> TemplateAccepted or TemplateRefused)
    points pages  AcceptRedeem, RefundRedeem, OpenGivePoints/OpenBalance -> Submit*
    form pages    Type*, Tick* change the copy itself (a draft), Submit* saves it,
                  Switch* saves at once
    setup         Landing -> CheckCredentials -> KeysAccepted -> FinishStep
                    -> BotSaved -> StepSaved -> FinishSetup, with BackTo, SkipSetup
                    and SkipTwitch at any time

Abstractions: an entry is its switch, one text that stands for the fields of its
form, and one extra field (the viewer details of a reward, the contributions of
a goal); a configuration is the record of the fields somebody set. A name that
is typed is one of three, one of which is turned into another by `SlugOf`. The
lists are sets or functions by name, as no property is about their order but the
`DataTable`'s, which sorts by the balance. Left out: filters, the home page's
recent events with the replay of one, the chat history, the debug page.
`ManagerRemoves`, `ViewerRedeems`, `GoalContributed`, `EntryWritten` and
`Authorized` are the other clients; `Loyalty` models what is behind the first
three. `WrittenElsewhere` is bounded to keys the page uses: a write at another
time is the same as another initial database.

`drafts` and `unheard` are history variables. They name what
`QuietCopyIsCurrent` excepts: a form's draft, which is meant to differ, and a
write that fell between the read and the subscription of a mount, which the
code misses until the next write or mount.

### 2.5 Extensions

An object is what `new Extension(...)` makes; `made[n]` numbers those of name
`n`. `workers` holds the ones not terminated, with the messages they sent.
`Added`, `Replaced`, `Refreshed`, `Removed` are the reducers and the thunks
`refreshExtensionInstance` and `createExtensionInstance`, applied to a set of
names since a list that arrives creates all at once. A worker connects,
compiles and starts by itself (`WorkerReady`), or its program does not compile,
or its connection fails and nobody is told (`WorkerStuck`); its function may
return, throw or run forever. Terminating a worker does not take back messages
that were posted, but they belong to a worker that is gone and are not
delivered.

Each time the connection comes up `App` initialises the extensions again, which
registers the handler of pushes once more. The model runs it once: the second
run for the same push replaces the object the first one has just made, with the
same outcome but for the number of objects made.

`missed` is history: names that changed while nobody was subscribed, until the
next list makes up for it. `getKeysByPrefix` tells of neither deletions nor, to
a running worker, that its extension was disabled, which is what
`RunsWhatIsStored` excepts, together with entries without options
(`Partial`), which renaming a draft leaves behind.

### 2.6 AppShell and CrashWindow

`phase` is where `startup` is, one statement after the other: make the
components, set `ready`, emit `ready`, log and start `forwardLogs`, listen.
`showFatalError` can happen in between or later and emits before it sets its
flag. Beside it the webview loads, asks `IsFatalError`, `IsServerReady` and
`GetLastLogs` and listens for the events; calls and events travel separately,
so an answer can be older or newer than an event that arrives before it.
`dial`, `conn`, `session` and `bypass` are the websocket: connect once, be
refused where there is a password, ask the application to authenticate the
session (`useAuthBypass`), lose the connection, reconnect.
`requests` is the state of `InteractiveAuthDialog`, `seen` that of its last
render, which its event handler closes over.

Four races leave the user behind for good. `slip` records the first one:
`fatal` (the answer of `IsFatalError` was older than the event and hides the
crash again), `ready` (the answer of `IsServerReady` was older and resets it),
`early` (the dashboard connected before the server listened; a failed first
connection is not retried) and `bypass` (the answer to the bypass came after
the connection it was for was lost, and marks it connected). `Settles` says
that only these, and a backlog that fills before `forwardLogs` starts (`Stuck`),
keep the program from showing the right window with a session that works.
Bound: the connection is followed while the dashboard is shown, and
a writer that waits for room in the log channel is taken to log when there is
some.

`CrashWindow` is the error window by itself: its log, the recovery dialog and
the report dialog, each waiting for the application.

## 3. Runs

| run | asks | finds |
|---|---|---|
| `loyalty_ledger` | one viewer, two goroutines and the ticker, a refused write and a restart | `Loyalty` implements `LoyaltyLedger`; a balance has all its updates unless two of them overlapped or one was cut off |
| `loyalty_races` | one viewer, two goroutines, a refused write, a client write | copies agree when nothing is under way, and converge; points only for published redeems |
| `loyalty_overdraft` | one viewer, two commands and a round | violated: a redeem is charged to a balance that was spent since it was checked |
| `loyalty_overshoot` | two viewers | violated: they overshoot a goal |
| `loop_reload` | two configurations with and one without points, two callbacks, two loops, bot replaced once, Close | one loop, listed once, current configuration, earned bonus, reload reaches the loop, loops end |
| `loop_config` | the bot is up and the configuration is switched on | violated: no loop ever runs |
| `loop_banned` | a configuration written during a round | violated: a banned viewer gets points |
| `dash_tables` | a database in use, the pages of tables, a write elsewhere, a lost connection | quiet copies are current, a balance push finds the balances, every row is on one page, a save from a current copy changes the edited entry only |
| `dash_forms` | a database without a loyalty configuration or with the setup half done, the settings and the setup, late answers, a write elsewhere, a lost connection | quiet copies are current; the form of the page is enabled again; the stored step exists; the user is in the setup exactly if it is not done |
| `extensions` | one extension installed and a free name, all that the user and another client do, a lost connection, a worker that fails | no extension runs twice, the status is the object's, what runs is what is stored, every extension settles |
| `app_shell` | the start with and without a password, an error, a lost connection, two clients that ask | the dialogs match the requests, the log arrives, the program settles |
| `crash_restore` | a restore that fails | violated: confirming the failure shows the alert of a success |

The violated properties are what the source, the changelog or a text of the
program says of it: the comments at `twitch-bot.go:217` and
`manager.go:332`, `CHANGELOG.md:159`, the description of `BanList` at `data.go:15`
and the alert at `translation.json:384`. They are listed under "findings".

Bounds. Each run has `Limits` on what the environment starts; what an operation
does once started is never bounded. Two handlers and the ticker give every pair
of operations that can interfere, and a push of a third write besides; two
viewers are needed only to overshoot a goal with balances of 3, and what
operations on one leave of the other's is in the proofs. One reward of price 2 and balances of 3 make the second redeem
unaffordable; a goal of 3 and offers of 2 make the second contribution the one
that must be cut. `loyalty_ledger` has two commands and a round, so that any two
operations and an award overlap in every way, with one write refused and one
stop. In `LoyaltyLoop` there is one loop and one
callback more than the code should ever need, so that a second loop would show;
two writes let a callback overtake another one. `loyalty_ledger`,
`loyalty_overdraft` and `loyalty_overshoot` use the symmetry of viewers and handlers,
which no property of theirs distinguishes; the ledger is a safety property, and
`loyalty_races`, whose `Converges` is not, does without.

The limits of the other models are budgets by kind (`edit`, `type`, `visit`,
`write`, `cut`, `fail`, ...) with one for all together, `all`, so that every
mixture of that length is explored rather than one fixed scenario; what the
program does by itself is never bounded. `dash_tables` has five of these steps
(open a dialog, type, submit, and two that interfere: a contribution, a
navigation, a second click or a lost connection), with two page sizes, two
viewers and two redeems, so that a list has a partial last page. `dash_forms`
has three, from a database in use whose loyalty was never configured and from a
setup that was left at its second step: check the keys, go back or skip, and
let the check answer late; save a form, leave or be cut off, and come back; or
have another client write the configuration meanwhile. `extensions` has three with two names: enough for a
rename (two writes) that a lost connection or another client's write
interrupts, and for a worker that is replaced while its messages are under way.
`app_shell` has two of an error, a lost connection, a log entry and two requests
for access, a log of two entries and a channel of one, so that the log rotates
and the channel fills.

Deadlock is not checked: when the limits are used up and everything is done,
the models stop, and in `LoyaltyLoop` a callback without a loop waits forever,
which is what `loop_config` reports.

Fairness. `Loyalty!FairSpec`: a goroutine that can run takes its next step, and
a push that was sent is delivered; Go's scheduler and the hub give both.
Nothing is assumed of viewers or clients. `LoyaltyLoop!FairSpec`: callbacks and
loops that can step do, weakly; a loop that asks Twitch is among them, so this
assumes that the requests for the list of chatters return, with it or with an
error, as an HTTP request does (`twitch-bot.go:100-110`). The handoff and the cancellation of a loop are
branches of a `select` that is entered again and again, and Go picks among
ready branches at random, so these two are strongly fair. Ticks, errors, and
the environment are not fair. `Dashboard`: weakly fair is what goes on by itself,
as one action: the hub serves its queue, the browser's event loop handles
messages and renders, the client reconnects after five seconds. `Extensions`: the
same, and weakly the workers that start or have sent something; that a program
ever returns is not assumed. `AppShell`: the start, the answers and
forwarder of the application, the webview's event loop and the connection,
each weakly, as they are goroutines and callbacks of their own. Nowhere is
anything assumed of users or other clients, and of calls to Twitch only what is
said above.

What the positive properties do not say: updates of a balance that overlap are
lost (`crossed`), cooldowns are skipped when two redeems are in flight
(`manager.go:271`), balances overdrawn and goals overshot, as two runs show; `Agreement` and `ImplementsLedger` hold beside that. A balance
below zero makes a contribution negative (`manager.go:323`), which the ledger
takes as an offer like any other. `BonusEarned` says no bonus without a
message, not that every message counts (those between `PickViewers` and
`GivePoints` are forgotten). `OnlyTheEdit` is about saves whose copy was
current; a save from an older copy takes back what others wrote since, which
the code does not prevent. Refunding the same redeem twice before it is gone
pays twice. `DialogsWait` does not say that every request gets a dialog: of two
requests that arrive before a render only the second one does, and a client
that asks again after it was denied is not in the model. `EveryRowHasAPage`
says that a button leads to every row, not that the page shown has one: rows
that vanish leave it empty. `AgreesOnSetup` does not say which step wins if a
late write undoes a skip. `StatusShown` takes from the platform that `terminate`
drops what a worker has posted. `FormsAreEnabled` leaves a form out whose key was not
there when it was read: it stays disabled, also once another client has
written the key, until the switch of the page saves it or the user comes back.

## 4. Proofs

All theorems hold for every value of the constants that satisfies the
assumptions of their module, which TLC evaluates on each run.

- `Typing` (`LoyaltyProofs`): `TypeOK` is not inductive, since what a goroutine
  writes is what it holds in `snap`. The invariant adds `StepOK(w)`: for every
  place in the code, what kind of job can be there and the type of the held
  value.
- `CopiesAgree` (`LoyaltyProofs`): `Spec => []Agreement`. The invariant is `InSync(k)`: the last push on its way carries
  the value of the database; without one, the copies are equal, or a goroutine
  has still to save the key, or its last save was refused. One lemma per way a
  key is touched (written, refused, changed in memory only, left alone).
- `PaidOnlyIfPublished` (`LoyaltyBalanceProofs`): `Spec => []ChargedWereAnnounced`.
  The invariant says that beyond `SendEvent` the redeem of a job is announced and
  that the only viewer it will charge is its own.
- `NoUpdateIsLost` (`LoyaltyBalanceProofs`): `Spec => []BalancesAddUp`. The
  invariant `Exact(u)` is about viewers that are not in `crossed`: one goroutine at
  most is between the read and the write of the balance, no push is on its way
  then, and what it holds is `ledger[u]` with or without its change; the last push
  carries `ledger[u]`, and without one the memory has it. A second update that
  begins in that window, or a stop of the program in it, is what puts the viewer
  into `crossed`; a refused write leaves the memory as it is and does not.
- `KeepsTheLedger` (`LoyaltyLedgerProofs`): `Spec => ImplementsLedger`, the refinement
  TLC checks in `loyalty_ledger`, for all constants and with every interleaving.
  The invariant `OrderInv` says who works on which order: no two goroutines have
  one of the same time, a job has one payer and pays once, only the ticker makes
  awards. So orders of different goroutines are different (`OrdersApart`), and a step
  of one opens, moves or closes an order and leaves the others (`OrderOpens`,
  `OrderMoves`, `OrderCloses`). The versions of a key shrink or gain the value that is
  written (`LedgerKeeps`, `LedgerNews`). Each action then has a lemma that names the
  ledger's step: `SetPoints` is `Pay`, `AddToGoal` is `Credit`, `AppendQueue` is
  `Enqueue`, `Return` after a refused write is `Refuse`, and so on (`...Maps`).
- `AtMostOneLoop`, `ListedAtMostOnce`, `LoopTyping` (`LoyaltyLoopProofs`):
  `OneLoop` is inductive once it also says that at most one callback is between
  handoff and start, and none while a loop runs. `ListedOnce` needs in addition
  that a callback about to set up finds no entry in `OnMessage`; replacing the bot
  only removes entries. The type of the count of these entries follows from it.
- `WaitsWithTheLatest`, `BonusOnlyOnce` (same module): a loop that works has the
  configuration loaded last, or a callback is on its way to end it (`Fresh`);
  the chatters on record have written since the last round, or a round is about
  to empty the record (`Earned`).
- `Typing`, `NeverTwoWorkers`, `StatusIsOfTheObject` (`ExtensionsProofs`): one
  inductive invariant of four parts. `HubOK` and `StoreOK` are types; `WireOK`
  says what each request and message carries, since an entry that was put comes
  back as a push; `ObjectsOK` ties the three places that know of an object
  together: a worker alive has the number `made[n]` of the last object of its
  name, that object is in `running`, it is not terminated, and `status` is its
  status. A lemma per reducer (`Added`, `Replaced`, `Removed`) says that it
  keeps these; each action is one of the reducers, or leaves them alone.
- `RunsTheStored` (same module): `Spec => []RunsWhatIsStored`. The property is
  about the moment when nothing is in flight; the invariant says how it comes
  about. For every name that is not in `missed` (`Follows`): the last message
  under way that tells of its key carries what is stored (`News`); if that is no
  enabled extension, no list that is still to be read says otherwise once the
  last push is, since a list does not stop a worker, and with no push under way
  no worker is left (`Quieted`); and when nothing more is to be heard and the
  opening of the connection is over, the extension is `Settled` (`Arrived`). The
  lemmas on `Append` and `Tail` say what a sequence of messages still tells;
  each action is then a step that keeps both the news and the store of a name
  (`Kept`), or one of the four that change them: the list, a write, the reading
  of a list, the reading of a push.
- `NoEntryIsLost` (`AppShellProofs`): the invariant follows an entry through
  its places: every entry of `lastLogs` is in the channel, in an event under
  way, in the window's list, in an answer that will replace that list, or
  arrived before that answer.
- `ShellTyping`, `OnlyWaitingAreAsked` (same module): `ShellInv` adds the types
  and `AuthInv`, which follows a request for access: it is asked in one event;
  until that is heard the client waits and is in no list; the list of the last
  render is never ahead of the current one, so the handler that adds to it
  brings nothing back.

- `StoreTyping`, `OnlyStepsThatExist`, `SavesOnlyTheEdit` (`DashboardProofs`):
  `TypeOK` says nothing of what is on its way, and what the store makes of a
  message depends on it. `Inv` adds what every request and message carries, what
  is stored and copied under each key (`Fits`), what the page's state and its
  async functions hold (`Shows`, `IsTask`), and that a table is only ever sent as
  an edit of the one it was computed from (`IsEdit`), from which `OnlyTheEdit`
  follows at the moment the hub stores it. The pages have dozens of actions;
  each is shown to be one of a few kinds of steps (`NextKinds`): a request from
  the page (`PageStep`), a draft (`DraftStep`), a mount (`MountStep`), a message
  taken (`Heard`), the hub, the other clients, a lost connection. Invariants are
  then proved of the kinds.
- `EveryRowIsOnAPage` (same module): `Spec => []EveryRowHasAPage`. `Sorted` is
  any order of the rows by the column that is sorted by; that there is one needs
  no induction: give each row as its place the number of rows at or before it,
  rows that are alike in the order of any numbering of them, and the places are
  a bijection (`Ordered`). A place is on exactly one page, and rounding the
  number of pages down leaves none out, since pages count from 0 (`OnePage`).
- `ShowsWhatIsStored`, `BalancesBeforeChanges`, `FormsComeBack`
  (`DashboardCopiesProofs`): the three properties speak of the moment when
  nothing is on its way, or of the next message; `CurrentInv` says how it gets
  there. A key is `Followed` if the page uses it, no write of it was missed and
  no read of it is waiting. Then the last message about it carries what is
  stored, and without one the copy is current or a draft (`KeysCurrent`); for the
  balances, viewer by viewer, since a push tells of one viewer and an answer of
  all (`BalancesCurrent`). As long as there are no balances, what brings them
  comes before what leads to a change of one, in either queue (`BalancesFirst`).
  What is pending is under way (`LoadsOK`, `SavesOK`), the page of a form has asked
  for its key (`AskedOnPage`), and if a read found nothing although the dashboard
  itself has stored the key since, the answer to that save is still to come and
  makes the store read again (`FoundOK`). The hub's and the others'
  steps say what they store (`Tells`), those of the dashboard take the first
  message (`Takes`).

What the proofs found. The bot's configuration was among the keys whose save
disables a form (`Disabling` of `DashboardProofs`), and the runs found nothing
wrong with that, but the invariant does not hold of it. `finishStep` of the setup (`Onboarding.tsx`) saves it when the save
before is answered (`BotSaved`). If the user went a step back in between,
nobody who uses the key is mounted; if the connection is lost then, the answer
never comes, no cleanup removes the status, and the next component that mounts
the key finds its save pending. That takes more clicks, with a step back and a
lost connection, than `dash_forms` has. In the code it does no harm:
the only form that looks at this status, that of the bot, does so through
`useStatus` (`TwitchSettings.tsx:62`), which forgets it after five seconds
(`lib/react.ts:99-118`). So `Disabling` has only the two keys whose forms look
at the status itself (`ServerSettings.tsx:29`, `LoyaltyConfig.tsx:29`).

The proofs also made assumptions explicit that the instances satisfied: what is
saved under a table is a table with entries of its form, the stored step of the
setup exists at the start, `null` and `absent` are no values of any key, the
texts a user can type are not empty, redeems and viewers are finitely many, and
a stored queue is of these redeems. And the order of the rows of a table was
described by a strict comparison, which leaves rows with equal balances without
any order at all, so that `Shown` could have been anything for them; `Sorted`
now lets equal rows come in either order.

Only model-checked: all liveness (`Converges`, `ReloadsOrStranded`,
`LoopsEndAfterClose`, `AgreesOnSetup`, `EverySettles`, `Settles`), since
fairness and ENABLED are beyond the provers used here. Every invariant and
action property of a passing run is stated by a theorem. No module declares a
RECURSIVE operator, and none of the proofs needs an induction over data.

## 5. What is left

In the order of weight: `TwitchManager` (reload of client and bot, who owns
which bot, the status poll; `LoyaltyLoop`'s `BotReplaced` is its interface),
`EventSub` (sessions, reconnects, duplicates, the history of events), `ChatAlerts`
(merging of the two subscription events), `ChatBot` and `ChatTimers`, the
restart of the web server, the tokens. They are Go components that talk to
Twitch; nothing in the way of modelling them was found. The theme, the texts,
the documentation generator, the command line and the filesystem driver have
no behaviour over time of their own. The map has entries for the definitions
with the code of an operation; what only selects or names (`Free`, `Here`,
`Row`) has none.

## 6. Further hazards

In the parts that are modelled, met while modelling, and not covered by a
property because the program promises nothing about them:

- a reward whose viewer details were required cannot be given details in the
  edit dialog, whose field is bound to the reward (`LoyaltyRewards.tsx:508`),
  the tick and text of one dialog reach the next (`:279`), and saving an
  untouched reward with the tick throws, its object being frozen (`:329`);
- the ID typed is compared before it is turned into the one that is kept
  (`LoyaltyRewards.tsx:369`), so an entry can replace another one of that ID;
- a save before the first load is answered writes a table of one entry;
- a refund before the balances are loaded removes the redeem and pays nothing
  (`reducer.ts:138`);
- the balance dialog gives `NaN` for an empty field (`LoyaltyQueue.tsx:317`),
  stored as `null`;
- a push overwrites what is being typed into a form (`react.ts:79`);
- a command whose template is accepted after the dialog's copy changed is
  written with the older table (`BotCommands.tsx:256`), and while disconnected
  leaves its save pending;
- the setup enables the bot before it has one (`Onboarding.tsx:487`), and stops
  there when the keys never came;
- `getUserInfo` answers may come out of order (`TwitchSettings.tsx:398`);
- every reconnection restarts all enabled extensions, those the user stopped
  included (`extensions/reducer.ts:198`), and drops unsaved edits (`:72`); an
  extension in error cannot be started again (`extension.ts:102`);
- the report dialog cannot be sent again after an error (`ErrorWindow.tsx:322`),
  its window's log handler keeps only the newest entry (`:508`), and without a
  backup directory the window throws (`:250`).

In the parts that are not modelled: the goal index of a command's copy used in a
shorter list (`twitch-bot.go:350`); a new bot without its handlers
(`client.go:108`); the status poll that spins (`client.go:236`); the history of
events read and written by a goroutine per event (`client.eventsub.go:152`); a
one-time reconnect URL dialled again (`:68`); a refused topic (`:186`); two token
refreshes at once (`client.auth.go:38`); timers that never end
(`bot.timer.go:117`); the restart flag and the routes of the web server
(`server.go:219`, `:147`); empty files of failed backups counted as backups
(`backup.go:60`).
