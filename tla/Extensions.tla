----------------------------- MODULE Extensions -----------------------------
(***************************************************************************)
(* The extensions of the dashboard.  Each installed extension is a key of  *)
(* the database; an enabled one runs in a worker of its own.  The store    *)
(* follows the keys through a subscription on their prefix, reads them all *)
(* whenever the connection comes up, and hears from the workers, which run *)
(* in parallel, by messages.  The editor keeps drafts of its own, and what *)
(* the user does to an extension only writes its key.                      *)
(***************************************************************************)
EXTENDS Integers, Sequences

CONSTANTS
  Names,   \* what extensions are called
  Sources, \* their programs
  blank,   \* blankTemplate, the program of a new one
  none,    \* no value: a key, a field or an object that is not there
  Saved,   \* the databases it may start with
  Limits   \* bounds on what the user and the rest of the world do

Programs == Sources \union {blank}
Entries == [source : Programs, enabled : BOOLEAN]
\* What saving {...undefined, name} leaves under a key.
Partial == [source |-> none, enabled |-> none]
Entry(s, on) == [source |-> s, enabled |-> on]

\* ExtensionStatus
Statuses == {"not-ready", "ready", "running", "main-loop-finished", "error",
             "terminated"}
Objects == [id : Nat, status : Statuses]

\* edit: requests of the user; type: input in the editor; write: writes by
\* other clients; cut: lost connections; fail: workers that cannot connect;
\* all: these together.
Budgets == {"edit", "type", "write", "cut", "fail", "all"}

ASSUME ExtensionsAssumption ==
  /\ none \notin Names \union Programs \union Entries \union {Partial} \union BOOLEAN
  /\ none \notin Objects
  /\ Saved \subseteq [Names -> Entries \union {none}]
  /\ Limits \in [Budgets -> Nat]

VARIABLES
  db,        \* the keys under ui/extensions/installed/
  held,      \* the hub pushes their changes to this dashboard
  up,        \* requests the hub has not handled
  down,      \* answers and pushes the dashboard has not handled
  conn,      \* api.connectionStatus is Connected
  ready,     \* extensions.ready
  installed, \* extensions.installed
  running,   \* extensions.running: the last object made for each name
  unsaved,   \* extensions.unsaved
  status,    \* extensions.status
  editor,    \* extensions.editorCurrentFile
  made,      \* number of objects made for each name
  workers,   \* the workers not terminated, by name and object
  missed,    \* history: names whose key changed unheard, and may yet be read
  budget

hub == <<db, held>>
wire == <<up, down>>
store == <<installed, unsaved, editor>>
objects == <<running, status, made, workers>>
vars == <<hub, wire, conn, ready, store, objects, missed, budget>>

Spend(b) ==
  /\ budget[b] > 0 /\ budget["all"] > 0
  /\ budget' = [budget EXCEPT ![b] = @ - 1, !["all"] = @ - 1]

Init ==
  /\ db \in Saved /\ held = FALSE /\ conn = TRUE /\ ready = FALSE
  /\ up = <<[op |-> "config"]>> /\ down = <<>>
  /\ installed = [n \in Names |-> none] /\ unsaved = installed
  /\ running = installed /\ status = installed /\ editor = none
  /\ made = [n \in Names |-> 0] /\ workers = [id \in {} |-> none]
  /\ missed = {} /\ budget = Limits

-----------------------------------------------------------------------------
(* The hub.                                                                *)

Handling(op) == up # <<>> /\ Head(up).op = op /\ up' = Tail(up)

HubConfig ==
  /\ Handling("config") /\ down' = Append(down, [is |-> "config"])
  /\ UNCHANGED <<hub, conn, ready, store, objects, missed, budget>>

HubSubscribe ==
  /\ Handling("subscribe") /\ held' = TRUE
  /\ down' = Append(down, [is |-> "subscribed"])
  /\ UNCHANGED <<db, conn, ready, store, objects, missed, budget>>

\* The answer to getKeysByPrefix tells nothing of what is gone, and what it
\* tells of a disabled extension does not stop its worker.
HubList ==
  /\ Handling("list")
  /\ down' = Append(down, [is |-> "entries", entries |-> db])
  /\ missed' = {n \in missed : db[n] \in Entries => ~db[n].enabled}
  /\ UNCHANGED <<hub, conn, ready, store, objects, budget>>

Push(n, e) ==
  IF held THEN <<[is |-> "push", name |-> n, entry |-> e]>> ELSE <<>>

Write(n, e) ==
  /\ db' = [db EXCEPT ![n] = e]
  /\ missed' = IF held THEN missed \ {n} ELSE missed \union {n}
  /\ UNCHANGED held

\* A key is written or deleted; the answer and the push leave in either order.
HubWrite ==
  /\ \/ Handling("put")
     \/ Handling("delete")
  /\ LET n == Head(up).name
         e == Head(up).entry
         answer == <<[is |-> "done", then |-> Head(up).then]>>
     IN /\ Write(n, e)
        /\ down' \in {down \o Push(n, e) \o answer, down \o answer \o Push(n, e)}
  /\ UNCHANGED <<conn, ready, store, objects, budget>>

\* Another client of the hub writes or deletes a key.
WrittenElsewhere(n, e) ==
  /\ Spend("write") /\ e # db[n] /\ Write(n, e) /\ down' = down \o Push(n, e)
  /\ UNCHANGED <<up, conn, ready, store, objects>>

-----------------------------------------------------------------------------
(* The reducers, for a set of names at a time.                             *)

\* extensionAdded for the names in new, of these entries.
Added(new, entry) ==
  /\ installed' = [n \in Names |-> IF n \in new THEN entry[n] ELSE installed[n]]
  /\ unsaved' = [n \in Names |-> IF n \in new THEN none ELSE unsaved[n]]
  /\ IF editor = none /\ new # {} THEN editor' \in new ELSE UNCHANGED editor
\* Fault: an object that is replaced is not disposed of.
LiveUntilStopped(new, old) == {id \in DOMAIN workers : id[1] \notin old}

\* new Extension(...) and extensionInstanceAdded for the names in new, which
\* dispose of their old objects; dispose() alone for those in old.  That an
\* object is disposed of in a reducer is not dispatched, as a reducer may not.
Live(new, old) == {id \in DOMAIN workers : id[1] \notin new \union old}
Replaced(new, old, entry) ==
  /\ made' = [n \in Names |-> IF n \in new THEN made[n] + 1 ELSE made[n]]
  /\ workers' =
       [id \in Live(new, old) \union {<<n, made[n] + 1>> : n \in new} |->
          IF id[1] \in new
          THEN [source |-> entry[id[1]].source, phase |-> "starting", sent |-> <<>>]
          ELSE workers[id]]
  /\ running' =
       [n \in Names |->
          IF n \in new THEN [id |-> made[n] + 1, status |-> "not-ready"]
          ELSE IF n \in old /\ running[n] # none
          THEN [running[n] EXCEPT !.status = "terminated"] ELSE running[n]]
  /\ status' =
       [n \in Names |-> IF n \in new THEN "not-ready"
                        ELSE IF n \in old /\ running[n] # none
                        THEN "terminated" ELSE status[n]]

One(n, e) == [m \in {n} |-> e]
\* Fault: only an enabled extension gives up its old object.
RefreshedIfEnabled(n, e) ==
  /\ Added({n}, One(n, e))
  /\ IF e.enabled THEN Replaced({n}, {}, One(n, e)) ELSE UNCHANGED objects

\* refreshExtensionInstance
Refreshed(n, e) ==
  /\ Added({n}, One(n, e))
  /\ IF e.enabled THEN Replaced({n}, {}, One(n, e))
     ELSE Replaced({}, {n}, One(n, e))
\* Fault: the object is forgotten with its worker alive.
RemovedAlive(n) ==
  /\ installed' = [installed EXCEPT ![n] = none]
  /\ unsaved' = [unsaved EXCEPT ![n] = none]
  /\ running' = [running EXCEPT ![n] = none]
  /\ status' = [status EXCEPT ![n] = none]
  /\ UNCHANGED <<workers, editor, made>>

\* extensionRemoved
Removed(n) ==
  /\ installed' = [installed EXCEPT ![n] = none]
  /\ unsaved' = [unsaved EXCEPT ![n] = none]
  /\ running' = [running EXCEPT ![n] = none]
  /\ status' = [status EXCEPT ![n] = none]
  /\ workers' = [id \in Live({}, {n}) |-> workers[id]]
  /\ LET others == {m \in Names \ {n} : installed[m] # none}
     IN IF editor # n THEN UNCHANGED editor
        ELSE IF others = {} THEN editor' = none ELSE editor' \in others
  /\ UNCHANGED made

-----------------------------------------------------------------------------
(* What the store does with a message of the hub: initializeExtensions,    *)
(* and the handler that it registers.                                      *)

Receive(is) == down # <<>> /\ Head(down).is = is /\ down' = Tail(down)
Send(request) == up' = Append(up, request)

GotConfig ==
  /\ Receive("config") /\ Send([op |-> "subscribe"]) /\ ready' = TRUE
  /\ UNCHANGED <<hub, conn, store, objects, missed, budget>>

GotSubscribed ==
  /\ Receive("subscribed") /\ Send([op |-> "list"])
  /\ UNCHANGED <<hub, conn, ready, store, objects, missed, budget>>

\* An entry without options throws, and the others are handled all the same.
GotEntries ==
  /\ Receive("entries")
  /\ LET entry == Head(down).entries
         new == {n \in Names : entry[n] \in Entries}
     IN /\ Added(new, entry)
        /\ Replaced({n \in new : entry[n].enabled}, {}, entry)
  /\ UNCHANGED <<hub, up, conn, ready, missed, budget>>

\* Each initialisation registers the handler once more: what the second one
\* does to the same entry replaces what the first one has just made.
Changed ==
  /\ Receive("push")
  /\ LET n == Head(down).name
         e == Head(down).entry
     IN \/ e = none /\ Removed(n)
        \/ e = Partial /\ UNCHANGED <<store, objects>>
        \/ e \in Entries /\ Refreshed(n, e)
  /\ UNCHANGED <<hub, up, conn, ready, missed, budget>>

-----------------------------------------------------------------------------
(* The workers, and what Extension makes of their messages.                *)
\* Fault: nobody is told of a program that does not compile.
WorkerSilent(id) ==
  /\ workers[id].phase = "starting"
  /\ workers' \in
       {[workers EXCEPT ![id].phase = "running", ![id].sent = <<"ready", "running">>],
        [workers EXCEPT ![id].phase = "over"]}
  /\ UNCHANGED <<hub, wire, conn, ready, store, running, status, made, missed,
                 budget>>

\* kv.connect(), transpile, and start() in the same turn; or no transpile.
WorkerReady(id) ==
  /\ workers[id].phase = "starting"
  /\ workers' \in
       {[workers EXCEPT ![id].phase = "running", ![id].sent = <<"ready", "running">>],
        [workers EXCEPT ![id].phase = "over", ![id].sent = <<"error">>]}
  /\ UNCHANGED <<hub, wire, conn, ready, store, running, status, made, missed,
                 budget>>

\* kv.connect() rejects: nobody hears of it.
WorkerStuck(id) ==
  /\ workers[id].phase = "starting" /\ Spend("fail")
  /\ workers' = [workers EXCEPT ![id].phase = "over"]
  /\ UNCHANGED <<hub, wire, conn, ready, store, running, status, made, missed>>

\* The extension's function returns or throws.
WorkerOver(id) ==
  /\ workers[id].phase = "running"
  /\ \E s \in {"main-loop-finished", "error"} :
       workers' = [workers EXCEPT ![id].phase = "over",
                                  ![id].sent = Append(@, s)]
  /\ UNCHANGED <<hub, wire, conn, ready, store, running, status, made, missed,
                 budget>>

\* messageReceived, and the listener that createExtensionInstance adds: the
\* object's status is its own, the one in the store goes by the name.
StatusChanged(id) ==
  /\ workers[id].sent # <<>>
  /\ LET n == id[1]
         s == Head(workers[id].sent)
     IN /\ workers' = [workers EXCEPT ![id].sent = Tail(@)]
        /\ running' = IF running[n] # none /\ running[n].id = id[2]
                      THEN [running EXCEPT ![n].status = s] ELSE running
        /\ status' = [status EXCEPT ![n] = s]
  /\ UNCHANGED <<hub, wire, conn, ready, store, made, missed, budget>>

-----------------------------------------------------------------------------
(* The page.  It is there while the connection is.                         *)

Page == conn /\ ready
Listed(n) == Page /\ installed[n] # none

\* The request of a click; then: what awaits its answer.
Put(n, e, then) == [op |-> "put", name |-> n, entry |-> e, then |-> then]
Delete(n, then) == [op |-> "delete", name |-> n, entry |-> none, then |-> then]

Asks(request) ==
  /\ Spend("edit") /\ Send(request)
  /\ UNCHANGED <<hub, down, conn, ready, store, objects, missed>>

ToggleEnable(n) ==
  /\ Listed(n)
  /\ Asks(Put(n, [installed[n] EXCEPT !.enabled = ~@], none))

Remove(n) == Listed(n) /\ Asks(Delete(n, none))

IsRunning(s) == s \in {"running", "main-loop-finished"}

\* stopExtension
Stop(n) ==
  /\ Listed(n) /\ installed[n].enabled /\ IsRunning(status[n])
  /\ Spend("edit") /\ Replaced({}, {n}, installed)
  /\ UNCHANGED <<hub, wire, conn, ready, store, missed>>

\* startExtension of a terminated object makes a new one; the start command
\* to a worker that is ready comes after it has started by itself and throws
\* there, and any other status throws here.
Start(n) ==
  /\ Listed(n) /\ installed[n].enabled /\ running[n] # none
  /\ running[n].status = "terminated" /\ Spend("edit")
  /\ Added({n}, installed) /\ Replaced({n}, {}, installed)
  /\ UNCHANGED <<hub, wire, conn, ready, missed>>

\* The editor.
Edits(draft, file) ==
  /\ unsaved' = draft /\ editor' = file
  /\ UNCHANGED <<hub, wire, conn, ready, installed, objects, missed>>

\* newClicked: extensionDrafted, then editorSelectedFile.
New(n) ==
  /\ Page /\ installed[n] = none /\ unsaved[n] = none /\ Spend("type")
  /\ Edits([unsaved EXCEPT ![n] = blank], n)

\* editClicked, or a choice in the list of files.
Select(n) ==
  /\ Page /\ n # editor /\ (installed[n] # none \/ unsaved[n] # none)
  /\ Spend("type") /\ Edits(unsaved, n)

Type(s) ==
  /\ Page /\ editor # none /\ s # unsaved[editor] /\ Spend("type")
  /\ Edits([unsaved EXCEPT ![editor] = s], editor)

IsUnsaved ==
  /\ editor # none /\ unsaved[editor] # none
  /\ installed[editor] # none => unsaved[editor] # installed[editor].source
\* Fault: a new extension is saved without its options.
SaveWithoutOptions ==
  /\ Page /\ IsUnsaved
  /\ Asks(Put(editor, Entry(unsaved[editor],
                            IF installed[editor] = none THEN none
                            ELSE installed[editor].enabled), none))

\* saveCurrentExtension
SaveCurrent ==
  /\ Page /\ IsUnsaved
  /\ Asks(Put(editor, Entry(unsaved[editor],
                            installed[editor] # none /\ installed[editor].enabled),
              none))

\* renameExtension: what it saves under the new name is read now.  The check
\* of the new name leaves out the drafts.
Rename(to) ==
  /\ Page /\ editor # none /\ to # editor /\ installed[to] = none
  /\ Asks(Delete(editor, [to |-> to, draft |-> unsaved[editor],
                          entry |-> IF installed[editor] = none THEN Partial
                                    ELSE installed[editor]]))

\* A request is answered: a rename goes on with its second one, and then
\* selects the new file, under which it keeps the draft.
Done ==
  /\ Receive("done")
  /\ LET then == Head(down).then IN
       \/ then = none /\ UNCHANGED <<up, store>>
       \/ /\ then # none /\ "entry" \in DOMAIN then
          /\ Send(Put(then.to, then.entry, [to |-> then.to, draft |-> then.draft]))
          /\ UNCHANGED store
       \/ /\ then # none /\ "entry" \notin DOMAIN then
          /\ editor' = then.to
          /\ unsaved' = IF then.draft = none THEN unsaved
                        ELSE [unsaved EXCEPT ![then.to] = then.draft]
          /\ UNCHANGED <<up, installed>>
  /\ UNCHANGED <<hub, conn, ready, objects, missed, budget>>

-----------------------------------------------------------------------------
(* The connection.  The workers have connections of their own.             *)

Disconnect ==
  /\ conn /\ Spend("cut")
  /\ conn' = FALSE /\ held' = FALSE /\ up' = <<>> /\ down' = <<>>
  \* What was on its way has not been heard either.
  /\ missed' = missed \union
       {n \in Names : \E i \in DOMAIN down :
                       down[i].is = "push" /\ down[i].name = n}
  /\ UNCHANGED <<db, ready, store, objects>>

\* Connected again: the effect of App runs initializeExtensions once more.
Reconnect ==
  /\ ~conn /\ conn' = TRUE /\ Send([op |-> "config"])
  /\ UNCHANGED <<hub, down, ready, store, objects, missed, budget>>

Hub == HubConfig \/ HubSubscribe \/ HubList \/ HubWrite
Message == GotConfig \/ GotSubscribed \/ GotEntries \/ Changed \/ Done
Worker(id) == WorkerReady(id) \/ WorkerOver(id) \/ StatusChanged(id)

User ==
  \/ \E n \in Names : ToggleEnable(n) \/ Remove(n) \/ Stop(n) \/ Start(n)
                      \/ New(n) \/ Select(n) \/ Rename(n)
  \/ \E s \in Sources : Type(s)
  \/ SaveCurrent

Next ==
  \/ Hub \/ Message \/ User \/ Disconnect \/ Reconnect
  \/ \E id \in DOMAIN workers : Worker(id) \/ WorkerStuck(id)
  \/ \E n \in Names :
       \/ WrittenElsewhere(n, none)
       \/ \E s \in Sources, on \in BOOLEAN : WrittenElsewhere(n, Entry(s, on))

\* The hub serves its queue, the client reconnects after a delay, and every
\* thread gets on.  Nothing is assumed of the user and of other clients, nor
\* that an extension's function ever returns.
Started(id) == WorkerReady(id) \/ StatusChanged(id)
Fairness ==
  /\ WF_vars(Hub \/ Message \/ Reconnect)
  /\ WF_vars(\E id \in DOMAIN workers : Started(id))

Spec == Init /\ [][Next]_vars /\ Fairness

-----------------------------------------------------------------------------
Ids == Names \X Nat

TypeOK ==
  /\ db \in [Names -> Entries \union {none, Partial}]
  /\ held \in BOOLEAN /\ conn \in BOOLEAN /\ ready \in BOOLEAN
  /\ installed \in [Names -> Entries \union {none}]
  /\ unsaved \in [Names -> Programs \union {none}]
  /\ running \in [Names -> Objects \union {none}]
  /\ status \in [Names -> Statuses \union {none}]
  /\ editor \in Names \union {none} /\ made \in [Names -> Nat]
  /\ DOMAIN workers \subseteq Ids /\ missed \subseteq Names

\* An extension never runs twice.  Whatever becomes of its key, however often
\* the connection comes back and whatever the user clicks, every worker that
\* is alive belongs to the object that the store has under its name, and that
\* object knows that it is alive.
OneWorker ==
  \A id \in DOMAIN workers :
    /\ running[id[1]] # none
    /\ running[id[1]].id = id[2] /\ running[id[1]].status # "terminated"

\* The status that the page shows, and that decides what its button does, is
\* that of the object which the button acts on: no message of a worker that
\* was replaced, stopped or removed ever gets through to its successor.
StatusShown ==
  \A n \in Names : status[n] = IF running[n] = none THEN none
                               ELSE running[n].status

Quiet == conn /\ up = <<>> /\ down = <<>>

\* Once everything in flight has arrived, the page lists what is stored, an
\* enabled extension has an object, with the stored program in its worker,
\* and a disabled or removed one has no worker.  The exceptions are keys that
\* were deleted while nobody listened, which are never heard of again, those
\* that were disabled then, whose worker is left alone, and those that the
\* renaming of a draft left incomplete.
RunsWhatIsStored ==
  Quiet => \A n \in Names \ missed :
    db[n] # Partial =>
      /\ installed[n] = db[n]
      /\ (db[n] # none /\ db[n].enabled) => running[n] # none
      /\ \A id \in DOMAIN workers :
           id[1] = n => /\ db[n] # none /\ db[n].enabled
                        /\ workers[id].source = db[n].source

\* As long as no worker fails to connect, no extension is left getting ready.
EverySettles ==
  <>[](budget["fail"] < Limits["fail"]
         \/ \A n \in Names : status[n] \notin {"not-ready", "ready"})
=============================================================================
