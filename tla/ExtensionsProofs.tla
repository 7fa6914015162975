-------------------------- MODULE ExtensionsProofs --------------------------
(***************************************************************************)
(* For any number of extensions and programs, lost connections, writes by  *)
(* other clients and clicks: an extension never has two workers, the       *)
(* status on the page is that of the object its button acts on, and once   *)
(* all is heard the stored program of an enabled extension is what runs.   *)
(***************************************************************************)
EXTENDS Extensions, TLAPS, SequenceTheorems

Contents == Entries \union {none, Partial}
\* What awaits the answer of a request: nothing, or the rest of a rename.
First == [to : Names, draft : Programs \union {none}, entry : Entries \union {Partial}]
Second == [to : Names, draft : Programs \union {none}]
Thens == {none} \union First \union Second
Writes == [op : {"put", "delete"}, name : Names, entry : Contents, then : Thens]
Requests == [op : {"config", "subscribe", "list"}] \union Writes
Pushes == [is : {"push"}, name : Names, entry : Contents]
Lists == [is : {"entries"}, entries : [Names -> Contents]]
Answers == [is : {"done"}, then : Thens]
Messages == [is : {"config", "subscribed"}] \union Pushes \union Lists \union Answers
\* No worker says that it was terminated: that is the store's word.
Said == Statuses \ {"terminated"}
Threads == [source : Programs, phase : {"starting", "running", "over"},
            sent : Seq(Said)]

HubOK == /\ db \in [Names -> Contents] /\ missed \subseteq Names
         /\ held \in BOOLEAN /\ conn \in BOOLEAN /\ ready \in BOOLEAN
WireOK == up \in Seq(Requests) /\ down \in Seq(Messages)
StoreOK ==
  /\ installed \in [Names -> Entries \union {none}]
  /\ unsaved \in [Names -> Programs \union {none}]
  /\ editor \in Names \union {none}
ObjectsOK ==
  /\ running \in [Names -> Objects \union {none}]
  /\ status \in [Names -> Statuses \union {none}]
  /\ made \in [Names -> Nat]
  /\ DOMAIN workers \subseteq Ids /\ workers \in [DOMAIN workers -> Threads]
  /\ OneWorker /\ StatusShown

\* OneWorker is what StatusShown rests on: a message comes from a worker that
\* is alive, and that is the one of the object in the store.
Inv == HubOK /\ WireOK /\ StoreOK /\ ObjectsOK

-----------------------------------------------------------------------------
(* Objects and workers.                                                    *)

\* Whatever objects are made and disposed of at once, the rules are kept.
LEMMA ReplacedOK ==
  ASSUME ObjectsOK, NEW new \in SUBSET Names, NEW old \in SUBSET Names,
         NEW entry, \A n \in new : entry[n].source \in Programs,
         Replaced(new, old, entry)
  PROVE  ObjectsOK'
<1> DEFINE fresh == {<<n, made[n] + 1>> : n \in new}
<1>1. /\ running' \in [Names -> Objects \union {none}]
      /\ status' \in [Names -> Statuses \union {none}]
  <2>1. \A n \in Names : running'[n] \in Objects \union {none}
    <3> TAKE n \in Names
    <3>1. CASE n \in new
      BY <3>1 DEF ObjectsOK, Replaced, Objects, Statuses
    <3>2. CASE n \notin new /\ n \in old /\ running[n] # none
      BY <3>2 DEF ObjectsOK, Replaced, Objects, Statuses
    <3>3. CASE n \notin new /\ ~(n \in old /\ running[n] # none)
      BY <3>3 DEF ObjectsOK, Replaced
    <3> QED BY <3>1, <3>2, <3>3
  <2>2. \A n \in Names : status'[n] \in Statuses \union {none}
    BY DEF ObjectsOK, Replaced, Statuses
  <2> QED BY <2>1, <2>2 DEF Replaced
<1>2. made' \in [Names -> Nat]
  BY DEF ObjectsOK, Replaced
<1>3. DOMAIN workers' = Live(new, old) \union fresh
  BY DEF Replaced
<1>4. \A id \in fresh : id \in Ids /\ id[1] \in new /\ id[2] = made[id[1]] + 1
  BY DEF ObjectsOK, Ids
<1>5. \A id \in Live(new, old) :
        id \in DOMAIN workers /\ id \in Ids /\ id[1] \notin new /\ id[1] \notin old
  BY DEF Live, ObjectsOK
<1>6. workers' \in [DOMAIN workers' -> Threads]
  <2>1. \A id \in DOMAIN workers' : workers'[id] \in Threads
    <3> TAKE id \in DOMAIN workers'
    <3>1. CASE id[1] \in new
      <4>1. workers'[id] = [source |-> entry[id[1]].source,
                            phase |-> "starting", sent |-> <<>>]
        BY <3>1, <1>3 DEF Replaced
      <4>2. <<>> \in Seq(Said)
        OBVIOUS
      <4> QED BY <3>1, <4>1, <4>2 DEF Threads
    <3>2. CASE id[1] \notin new
      <4>1. id \in DOMAIN workers /\ workers'[id] = workers[id]
        BY <3>2, <1>3, <1>4, <1>5 DEF Replaced
      <4> QED BY <4>1 DEF ObjectsOK
    <3> QED BY <3>1, <3>2
  <2> QED BY <2>1 DEF Replaced
<1>7. OneWorker'
  <2> SUFFICES ASSUME NEW id \in DOMAIN workers'
               PROVE  /\ running'[id[1]] # none /\ running'[id[1]].id = id[2]
                      /\ running'[id[1]].status # "terminated"
    BY DEF OneWorker
  <2>1. CASE id \in fresh
    <3>1. id[1] \in Names /\ running'[id[1]] = [id |-> id[2], status |-> "not-ready"]
      BY <2>1, <1>4 DEF Replaced
    <3>2. [id |-> id[2], status |-> "not-ready"] \in Objects
      BY <2>1, <1>4 DEF Objects, Statuses, Ids
    <3> QED BY <3>1, <3>2, ExtensionsAssumption
  <2>2. CASE id \in Live(new, old)
    BY <2>2, <1>5 DEF ObjectsOK, OneWorker, Replaced, Ids
  <2> QED BY <2>1, <2>2, <1>3
<1>8. StatusShown'
  <2> SUFFICES ASSUME NEW n \in Names
               PROVE  status'[n] = IF running'[n] = none THEN none
                                   ELSE running'[n].status
    BY DEF StatusShown
  <2>1. CASE n \in new
    <3>1. running'[n] = [id |-> made[n] + 1, status |-> "not-ready"]
          /\ status'[n] = "not-ready"
      BY <2>1 DEF Replaced
    <3>2. [id |-> made[n] + 1, status |-> "not-ready"] \in Objects
      BY DEF Objects, Statuses, ObjectsOK
    <3> QED BY <3>1, <3>2, ExtensionsAssumption
  <2>2. CASE n \notin new /\ n \in old /\ running[n] # none
    <3>1. running'[n] = [running[n] EXCEPT !.status = "terminated"]
          /\ status'[n] = "terminated"
      BY <2>2 DEF Replaced
    <3>2. running'[n] \in Objects
      BY <2>2, <3>1 DEF ObjectsOK, Objects, Statuses
    <3>3. running'[n].status = "terminated"
      BY <2>2, <3>1 DEF ObjectsOK, Objects
    <3> QED BY <3>1, <3>2, <3>3, ExtensionsAssumption
  <2>3. CASE n \notin new /\ ~(n \in old /\ running[n] # none)
    BY <2>3 DEF ObjectsOK, StatusShown, Replaced
  <2> QED BY <2>1, <2>2, <2>3
<1> QED BY <1>1, <1>2, <1>3, <1>4, <1>5, <1>6, <1>7, <1>8 DEF ObjectsOK

LEMMA RemovedOK ==
  ASSUME ObjectsOK, StoreOK, NEW n \in Names, Removed(n)
  PROVE  ObjectsOK' /\ StoreOK'
<1>1. /\ running' \in [Names -> Objects \union {none}]
      /\ status' \in [Names -> Statuses \union {none}] /\ made' \in [Names -> Nat]
  BY DEF ObjectsOK, Removed
<1>2. \A id \in DOMAIN workers' :
        /\ id \in DOMAIN workers /\ id \in Ids /\ id[1] # n
        /\ workers'[id] = workers[id]
  BY DEF ObjectsOK, Removed, Live
<1>3. workers' \in [DOMAIN workers' -> Threads]
  <2>1. \A id \in DOMAIN workers' : workers'[id] \in Threads
    BY <1>2 DEF ObjectsOK
  <2> QED BY <2>1 DEF Removed
<1>4. OneWorker'
  BY <1>2 DEF ObjectsOK, OneWorker, Removed, Ids
<1>5. StatusShown'
  BY DEF ObjectsOK, StatusShown, Removed
<1>6. StoreOK'
  <2>1. installed' \in [Names -> Entries \union {none}]
        /\ unsaved' \in [Names -> Programs \union {none}]
    BY DEF StoreOK, Removed
  <2>2. editor' \in Names \union {none}
    <3> DEFINE others == {m \in Names \ {n} : installed[m] # none}
    <3>1. editor' = editor \/ editor' = none \/ editor' \in others
      BY DEF Removed
    <3> QED BY <3>1 DEF StoreOK
  <2> QED BY <2>1, <2>2 DEF StoreOK
<1> QED BY <1>1, <1>2, <1>3, <1>4, <1>5, <1>6 DEF ObjectsOK

LEMMA AddedOK ==
  ASSUME StoreOK, NEW new \in SUBSET Names, NEW entry,
         \A n \in new : entry[n] \in Entries, Added(new, entry)
  PROVE  StoreOK'
<1>1. installed' \in [Names -> Entries \union {none}]
      /\ unsaved' \in [Names -> Programs \union {none}]
  BY DEF StoreOK, Added
<1>2. editor' = editor \/ editor' \in new
  BY DEF Added
<1> QED BY <1>1, <1>2 DEF StoreOK

\* A worker that is alive gets on, or says something.
LEMMA WorkerOK ==
  ASSUME ObjectsOK, NEW id \in DOMAIN workers, NEW w \in Threads,
         workers' = [workers EXCEPT ![id] = w],
         UNCHANGED <<running, status, made>>
  PROVE  ObjectsOK'
<1>1. DOMAIN workers' = DOMAIN workers /\ workers' \in [DOMAIN workers -> Threads]
  BY DEF ObjectsOK
<1> QED BY <1>1 DEF ObjectsOK, OneWorker, StatusShown

LEMMA StatusChangedOK ==
  ASSUME ObjectsOK, NEW id \in DOMAIN workers, StatusChanged(id)
  PROVE  ObjectsOK'
<1> DEFINE n == id[1]
           s == Head(workers[id].sent)
<1>1. n \in Names /\ s \in Said /\ Tail(workers[id].sent) \in Seq(Said)
  <2>1. id \in Ids /\ workers[id] \in Threads
    BY DEF ObjectsOK
  <2>2. workers[id].sent \in Seq(Said) /\ workers[id].sent # <<>>
    BY <2>1 DEF Threads, StatusChanged
  <2> QED BY <2>1, <2>2, HeadTailProperties DEF Ids
<1>2. workers' = [workers EXCEPT ![id].sent = Tail(@)]
  BY DEF StatusChanged
<1>3. DOMAIN workers' = DOMAIN workers /\ workers' \in [DOMAIN workers -> Threads]
  <2>1. [workers[id] EXCEPT !.sent = Tail(@)] \in Threads
    BY <1>1 DEF ObjectsOK, Threads
  <2> QED BY <1>2, <2>1 DEF ObjectsOK
<1>4. running[n] # none /\ running[n] \in Objects /\ running[n].id = id[2]
  BY <1>1 DEF ObjectsOK, OneWorker
<1>5. running' = [running EXCEPT ![n] = [running[n] EXCEPT !.status = s]]
      /\ status' = [status EXCEPT ![n] = s] /\ made' = made
  BY <1>4 DEF StatusChanged
<1>6. /\ [running[n] EXCEPT !.status = s] \in Objects
      /\ [running[n] EXCEPT !.status = s] # none
      /\ [running[n] EXCEPT !.status = s].id = running[n].id
      /\ [running[n] EXCEPT !.status = s].status = s
  <2>1. [running[n] EXCEPT !.status = s] \in Objects
    BY <1>1, <1>4 DEF Objects, Said
  <2> QED BY <2>1, <1>4, ExtensionsAssumption DEF Objects
<1>7. OneWorker'
  BY <1>1, <1>3, <1>5, <1>6 DEF ObjectsOK, OneWorker, Said, Ids
<1>8. StatusShown'
  BY <1>1, <1>5, <1>6 DEF ObjectsOK, StatusShown
<1>9. /\ running' \in [Names -> Objects \union {none}]
      /\ status' \in [Names -> Statuses \union {none}]
  BY <1>1, <1>5, <1>6 DEF ObjectsOK, Said
<1> QED BY <1>3, <1>5, <1>7, <1>8, <1>9 DEF ObjectsOK

-----------------------------------------------------------------------------
(* Requests and messages.                                                  *)

LEMMA SendOK ==
  ASSUME up \in Seq(Requests), NEW r \in Requests, Send(r)
  PROVE  up' \in Seq(Requests)
BY DEF Send

LEMMA HandlingOK ==
  ASSUME up \in Seq(Requests), NEW op, Handling(op)
  PROVE  up' \in Seq(Requests) /\ Head(up) \in Requests /\ Head(up).op = op
BY HeadTailProperties DEF Handling

LEMMA ReceiveOK ==
  ASSUME down \in Seq(Messages), NEW is, Receive(is)
  PROVE  /\ down' \in Seq(Messages) /\ Head(down) \in Messages
         /\ Head(down).is = is
BY HeadTailProperties DEF Receive

LEMMA PushOK ==
  ASSUME NEW n \in Names, NEW e \in Contents
  PROVE  Push(n, e) \in Seq(Messages)
<1>1. [is |-> "push", name |-> n, entry |-> e] \in Messages
  BY DEF Messages, Pushes
<1> QED BY <1>1 DEF Push

LEMMA RequestTypes ==
  /\ [op |-> "config"] \in Requests /\ [op |-> "subscribe"] \in Requests
  /\ [op |-> "list"] \in Requests
  /\ \A n \in Names, e \in Contents, then \in Thens : Put(n, e, then) \in Requests
  /\ \A n \in Names, then \in Thens : Delete(n, then) \in Requests
<1>1. \A n \in Names, e \in Contents, then \in Thens : Put(n, e, then) \in Writes
  BY DEF Put, Writes
<1>2. \A n \in Names, then \in Thens : Delete(n, then) \in Writes
  BY DEF Delete, Writes, Contents
<1> QED BY <1>1, <1>2 DEF Requests

\* What a request that writes carries, and what a message does.
LEMMA RequestFields ==
  ASSUME NEW r \in Requests, r.op \in {"put", "delete"}
  PROVE  r.name \in Names /\ r.entry \in Contents /\ r.then \in Thens
BY DEF Requests, Writes

LEMMA MessageFields ==
  ASSUME NEW m \in Messages
  PROVE  /\ m.is = "push" => m.name \in Names /\ m.entry \in Contents
         /\ m.is = "entries" => m.entries \in [Names -> Contents]
         /\ m.is = "done" => m.then \in Thens
BY DEF Messages, Pushes, Lists, Answers

LEMMA WriteOK ==
  ASSUME HubOK, NEW n \in Names, NEW e \in Contents, Write(n, e),
         UNCHANGED <<conn, ready>>
  PROVE  HubOK'
BY DEF HubOK, Write

-----------------------------------------------------------------------------
(* Steps of the hub and of the store.                                      *)

LEMMA InitOK == Init => Inv
<1> SUFFICES ASSUME Init PROVE Inv
  OBVIOUS
<1>1. HubOK
  BY ExtensionsAssumption DEF Init, HubOK, Contents
<1>2. WireOK
  BY RequestTypes DEF Init, WireOK
<1>3. StoreOK
  BY DEF Init, StoreOK
<1>4. ObjectsOK
  BY DEF Init, ObjectsOK, OneWorker, StatusShown
<1> QED BY <1>1, <1>2, <1>3, <1>4 DEF Inv

LEMMA HubStep == Inv /\ Hub => Inv'
<1> SUFFICES ASSUME Inv, Hub PROVE Inv'
  OBVIOUS
<1> USE DEF Inv, WireOK
<1>1. CASE HubConfig
  <2>1. [is |-> "config"] \in Messages
    BY DEF Messages
  <2> QED BY <1>1, <2>1, HandlingOK
          DEF HubConfig, HubOK, StoreOK, ObjectsOK, OneWorker, StatusShown,
              hub, store, objects
<1>2. CASE HubSubscribe
  <2>1. [is |-> "subscribed"] \in Messages
    BY DEF Messages
  <2> QED BY <1>2, <2>1, HandlingOK
          DEF HubSubscribe, HubOK, StoreOK, ObjectsOK, OneWorker, StatusShown,
              store, objects
<1>3. CASE HubList
  <2>1. [is |-> "entries", entries |-> db] \in Messages
    BY DEF Messages, Lists, HubOK
  <2> QED BY <1>3, <2>1, HandlingOK
          DEF HubList, HubOK, StoreOK, ObjectsOK, OneWorker, StatusShown,
              hub, store, objects
<1>4. CASE HubWrite
  <2> DEFINE n == Head(up).name
             e == Head(up).entry
             done == [is |-> "done", then |-> Head(up).then]
  <2>1. /\ up' \in Seq(Requests)
        /\ n \in Names /\ e \in Contents /\ Head(up).then \in Thens
    <3>1. up' \in Seq(Requests) /\ Head(up) \in Requests
          /\ Head(up).op \in {"put", "delete"}
      BY <1>4, HandlingOK DEF HubWrite
    <3> QED BY <3>1, RequestFields
  <2>2. HubOK'
    BY <1>4, <2>1, WriteOK DEF HubWrite
  <2>3. down' \in Seq(Messages)
    <3>1. Push(n, e) \in Seq(Messages)
      BY <2>1, PushOK
    <3>2. <<done>> \in Seq(Messages)
      <4>1. done \in Messages
        BY <2>1 DEF Messages, Answers
      <4> QED BY <4>1
    <3>3. down' = (down \o Push(n, e)) \o <<done>>
          \/ down' = (down \o <<done>>) \o Push(n, e)
      BY <1>4 DEF HubWrite
    <3>4. (down \o Push(n, e)) \o <<done>> \in Seq(Messages)
      <4>1. down \o Push(n, e) \in Seq(Messages)
        BY <3>1, ConcatProperties
      <4> QED BY <4>1, <3>2, ConcatProperties
    <3>5. (down \o <<done>>) \o Push(n, e) \in Seq(Messages)
      <4>1. down \o <<done>> \in Seq(Messages)
        BY <3>2, ConcatProperties
      <4> QED BY <4>1, <3>1, ConcatProperties
    <3> QED BY <3>3, <3>4, <3>5
  <2> QED BY <1>4, <2>1, <2>2, <2>3
          DEF HubWrite, StoreOK, ObjectsOK, OneWorker, StatusShown, store, objects
<1> QED BY <1>1, <1>2, <1>3, <1>4 DEF Hub

LEMMA DoneStep == Inv /\ Done => Inv'
<1> SUFFICES ASSUME Inv, Done PROVE Inv'
  OBVIOUS
<1> DEFINE then == Head(down).then
<1>1. down' \in Seq(Messages) /\ then \in Thens
  <2>1. down' \in Seq(Messages) /\ Head(down) \in Messages /\ Head(down).is = "done"
    BY ReceiveOK DEF Inv, WireOK, Done
  <2> QED BY <2>1, MessageFields
<1>2. up' \in Seq(Requests) /\ StoreOK'
  <2>1. CASE then = none
    BY <2>1 DEF Inv, WireOK, Done, StoreOK, First, Second, store
  <2>2. CASE then # none /\ "entry" \in DOMAIN then
    <3>1. then \in First
      BY <1>1, <2>2 DEF Thens, Second
    <3>2. [to |-> then.to, draft |-> then.draft] \in Thens
      BY <3>1 DEF Thens, First, Second
    <3>3. Put(then.to, then.entry, [to |-> then.to, draft |-> then.draft]) \in Requests
      BY <3>1, <3>2, RequestTypes DEF First, Contents
    <3>4. Send(Put(then.to, then.entry, [to |-> then.to, draft |-> then.draft]))
          /\ UNCHANGED store
      BY <2>2 DEF Done
    <3> QED BY <3>3, <3>4, SendOK DEF Inv, WireOK, StoreOK, store
  <2>3. CASE then # none /\ "entry" \notin DOMAIN then
    <3>1. then.to \in Names /\ then.draft \in Programs \union {none}
      BY <1>1, <2>3 DEF Thens, First, Second
    <3>2. /\ editor' = then.to /\ up' = up /\ installed' = installed
          /\ unsaved' = IF then.draft = none THEN unsaved
                        ELSE [unsaved EXCEPT ![then.to] = then.draft]
      BY <2>3 DEF Done
    <3> QED BY <3>1, <3>2 DEF Inv, WireOK, StoreOK
  <2> QED BY <2>1, <2>2, <2>3
<1> QED BY <1>1, <1>2
        DEF Inv, WireOK, Done, HubOK, ObjectsOK, OneWorker, StatusShown, hub, objects

LEMMA MessageStep == Inv /\ Message => Inv'
<1> SUFFICES ASSUME Inv, Message PROVE Inv'
  OBVIOUS
<1> USE DEF Inv, WireOK
<1>1. CASE GotConfig
  BY <1>1, ReceiveOK, SendOK, RequestTypes
  DEF GotConfig, HubOK, StoreOK, ObjectsOK, OneWorker, StatusShown, hub, store, objects
<1>2. CASE GotSubscribed
  BY <1>2, ReceiveOK, SendOK, RequestTypes
  DEF GotSubscribed, HubOK, StoreOK, ObjectsOK, OneWorker, StatusShown, hub, store,
      objects
<1>3. CASE GotEntries
  <2> DEFINE entry == Head(down).entries
             new == {n \in Names : entry[n] \in Entries}
             enabled == {n \in new : entry[n].enabled}
  <2>1. down' \in Seq(Messages)
    BY <1>3, ReceiveOK DEF GotEntries
  <2>2. Added(new, entry) /\ Replaced(enabled, {}, entry)
    BY <1>3 DEF GotEntries
  <2>3. StoreOK'
    BY <2>2, AddedOK
  <2>4. \A n \in enabled : entry[n].source \in Programs
    BY DEF Entries
  <2>5. ObjectsOK'
    BY <2>2, <2>4, ReplacedOK
  <2> QED BY <1>3, <2>1, <2>3, <2>5 DEF GotEntries, HubOK, hub
<1>4. CASE Changed
  <2> DEFINE n == Head(down).name
             e == Head(down).entry
  <2>1. down' \in Seq(Messages) /\ n \in Names
    <3>1. down' \in Seq(Messages) /\ Head(down) \in Messages /\ Head(down).is = "push"
      BY <1>4, ReceiveOK DEF Changed
    <3> QED BY <3>1, MessageFields
  <2>2. StoreOK' /\ ObjectsOK'
    <3>1. CASE Removed(n)
      BY <3>1, <2>1, RemovedOK
    <3>2. CASE UNCHANGED <<store, objects>>
      BY <3>2 DEF StoreOK, ObjectsOK, OneWorker, StatusShown, store, objects
    <3>3. CASE e \in Entries /\ Refreshed(n, e)
      <4>1. One(n, e)[n] \in Entries /\ One(n, e)[n].source \in Programs
        BY <3>3 DEF One, Entries
      <4>2. StoreOK'
        BY <3>3, <4>1, <2>1, AddedOK DEF Refreshed
      <4>3. ObjectsOK'
        <5>1. CASE Replaced({n}, {}, One(n, e))
          BY <5>1, <4>1, <2>1, ReplacedOK
        <5>2. CASE Replaced({}, {n}, One(n, e))
          BY <5>2, <4>1, <2>1, ReplacedOK
        <5> QED BY <3>3, <5>1, <5>2 DEF Refreshed
      <4> QED BY <4>2, <4>3
    <3> QED BY <1>4, <3>1, <3>2, <3>3 DEF Changed
  <2> QED BY <1>4, <2>1, <2>2 DEF Changed, HubOK, hub
<1>5. CASE Done
  BY <1>5, DoneStep
<1> QED BY <1>1, <1>2, <1>3, <1>4, <1>5 DEF Message

-----------------------------------------------------------------------------
(* Steps of the workers and of the user.                                   *)

LEMMA WorkerStep ==
  ASSUME Inv, NEW id \in DOMAIN workers, Worker(id) \/ WorkerStuck(id)
  PROVE  Inv'
<1>1. workers[id] \in Threads
  BY DEF Inv, ObjectsOK
<1>2. CASE WorkerReady(id)
  <2>1. <<"ready", "running">> \in Seq(Said) /\ <<"error">> \in Seq(Said)
    BY DEF Said, Statuses
  <2>2. PICK w \in Threads : workers' = [workers EXCEPT ![id] = w]
    <3>1. [workers[id] EXCEPT !.phase = "running", !.sent = <<"ready", "running">>] \in Threads
      BY <1>1, <2>1 DEF Threads
    <3>2. [workers[id] EXCEPT !.phase = "over", !.sent = <<"error">>] \in Threads
      BY <1>1, <2>1 DEF Threads
    <3> QED BY <1>2, <3>1, <3>2 DEF WorkerReady
  <2>3. ObjectsOK'
    BY <1>2, <2>2, WorkerOK DEF WorkerReady, Inv
  <2> QED BY <1>2, <2>3 DEF WorkerReady, Inv, HubOK, WireOK, StoreOK, hub, wire, store
<1>3. CASE WorkerStuck(id)
  <2>1. [workers[id] EXCEPT !.phase = "over"] \in Threads
    BY <1>1 DEF Threads
  <2>2. ObjectsOK'
    BY <1>3, <2>1, WorkerOK DEF WorkerStuck, Inv
  <2> QED BY <1>3, <2>2 DEF WorkerStuck, Inv, HubOK, WireOK, StoreOK, hub, wire, store
<1>4. CASE WorkerOver(id)
  <2>1. PICK s \in {"main-loop-finished", "error"} :
          workers' = [workers EXCEPT ![id] =
                        [workers[id] EXCEPT !.phase = "over", !.sent = Append(@, s)]]
    BY <1>4 DEF WorkerOver
  <2>2. s \in Said
    BY DEF Said, Statuses
  <2>3. [workers[id] EXCEPT !.phase = "over", !.sent = Append(@, s)] \in Threads
    <3>1. Append(workers[id].sent, s) \in Seq(Said)
      BY <1>1, <2>2 DEF Threads
    <3> QED BY <1>1, <3>1 DEF Threads
  <2>4. ObjectsOK'
    BY <1>4, <2>1, <2>3, WorkerOK DEF WorkerOver, Inv
  <2> QED BY <1>4, <2>4 DEF WorkerOver, Inv, HubOK, WireOK, StoreOK, hub, wire, store
<1>5. CASE StatusChanged(id)
  <2>1. ObjectsOK'
    BY <1>5, StatusChangedOK DEF Inv
  <2> QED BY <1>5, <2>1 DEF StatusChanged, Inv, HubOK, WireOK, StoreOK, hub, wire, store
<1> QED BY <1>2, <1>3, <1>4, <1>5 DEF Worker

LEMMA AsksStep ==
  ASSUME Inv, NEW r \in Requests, Asks(r)
  PROVE  Inv'
BY SendOK DEF Inv, WireOK, Asks, HubOK, StoreOK, ObjectsOK, OneWorker, StatusShown,
              hub, store, objects

LEMMA EditsStep ==
  ASSUME Inv, NEW draft \in [Names -> Programs \union {none}], NEW file \in Names,
         Edits(draft, file)
  PROVE  Inv'
BY DEF Inv, WireOK, Edits, HubOK, StoreOK, ObjectsOK, OneWorker, StatusShown,
       hub, wire, objects

\* What the user can do: ask for a change of a key, edit, stop or start.
LEMMA UserDoes ==
  ASSUME Inv, User
  PROVE  \/ \E r \in Requests : Asks(r)
         \/ \E draft \in [Names -> Programs \union {none}], file \in Names :
              Edits(draft, file)
         \/ \E n \in Names : Stop(n) \/ Start(n)
<1>1. \A n \in Names : Listed(n) => installed[n] \in Entries
  BY DEF Inv, StoreOK, Listed
<1>2. editor # none => /\ editor \in Names
                       /\ installed[editor] \in Entries \union {none}
                       /\ unsaved[editor] \in Programs \union {none}
  BY DEF Inv, StoreOK
<1>3. ASSUME NEW n \in Names, ToggleEnable(n) PROVE \E r \in Requests : Asks(r)
  <2>1. [installed[n] EXCEPT !.enabled = ~@] \in Contents
    BY <1>1, <1>3 DEF ToggleEnable, Contents, Entries
  <2>2. Put(n, [installed[n] EXCEPT !.enabled = ~@], none) \in Requests
    BY <2>1, RequestTypes DEF Thens
  <2> QED BY <1>3, <2>2 DEF ToggleEnable
<1>4. ASSUME NEW n \in Names, Remove(n) PROVE \E r \in Requests : Asks(r)
  BY <1>4, RequestTypes DEF Remove, Thens
<1>5. ASSUME NEW n \in Names, Rename(n) PROVE \E r \in Requests : Asks(r)
  <2> DEFINE kept == IF installed[editor] = none THEN Partial ELSE installed[editor]
             then == [to |-> n, draft |-> unsaved[editor], entry |-> kept]
  <2>1. editor \in Names /\ then \in Thens
    BY <1>2, <1>5 DEF Rename, Thens, First
  <2>2. Delete(editor, then) \in Requests
    BY <2>1, RequestTypes
  <2> QED BY <1>5, <2>2 DEF Rename
<1>6. CASE SaveCurrent
  <2> DEFINE on == installed[editor] # none /\ installed[editor].enabled
  <2>1. on \in BOOLEAN
    BY <1>2, <1>6 DEF SaveCurrent, IsUnsaved, Entries
  <2>2. Entry(unsaved[editor], on) \in Contents
    BY <1>2, <1>6, <2>1 DEF SaveCurrent, IsUnsaved, Contents, Entries, Entry
  <2>3. Put(editor, Entry(unsaved[editor], on), none) \in Requests
    BY <1>2, <1>6, <2>2, RequestTypes DEF SaveCurrent, IsUnsaved, Thens
  <2> QED BY <1>6, <2>3 DEF SaveCurrent
<1> DEFINE Drafts == [Names -> Programs \union {none}]
<1>7. ASSUME NEW n \in Names, New(n) \/ Select(n)
      PROVE  \E draft \in Drafts, file \in Names : Edits(draft, file)
  <2>1. [unsaved EXCEPT ![n] = blank] \in Drafts /\ unsaved \in Drafts
    BY DEF Inv, StoreOK, Programs
  <2> QED BY <1>7, <2>1 DEF New, Select
<1>8. ASSUME NEW s \in Sources, Type(s)
      PROVE  \E draft \in Drafts, file \in Names : Edits(draft, file)
  <2>1. [unsaved EXCEPT ![editor] = s] \in Drafts /\ editor \in Names
    BY <1>2, <1>8 DEF Type, Inv, StoreOK, Programs
  <2> QED BY <1>8, <2>1 DEF Type
<1> QED BY <1>3, <1>4, <1>5, <1>6, <1>7, <1>8 DEF User

LEMMA StopStartStep ==
  ASSUME Inv, NEW n \in Names, Stop(n) \/ Start(n)
  PROVE  Inv'
<1>1. CASE Stop(n)
  <2>1. ObjectsOK'
    BY <1>1, ReplacedOK DEF Stop, Inv
  <2> QED BY <1>1, <2>1 DEF Stop, Inv, HubOK, WireOK, StoreOK, hub, wire, store
<1>2. CASE Start(n)
  <2>1. installed[n] \in Entries /\ installed[n].source \in Programs
    BY <1>2 DEF Start, Listed, Inv, StoreOK, Entries
  <2>2. ObjectsOK' /\ StoreOK'
    BY <1>2, <2>1, ReplacedOK, AddedOK DEF Start, Inv
  <2> QED BY <1>2, <2>2 DEF Start, Inv, HubOK, WireOK, hub, wire
<1> QED BY <1>1, <1>2

LEMMA WrittenStep ==
  ASSUME Inv, NEW n \in Names, NEW e \in Contents, WrittenElsewhere(n, e)
  PROVE  Inv'
<1>1. HubOK'
  BY WriteOK DEF WrittenElsewhere, Inv
<1>2. down' \in Seq(Messages)
  BY PushOK, ConcatProperties DEF WrittenElsewhere, Inv, WireOK
<1> QED BY <1>1, <1>2
        DEF WrittenElsewhere, Inv, WireOK, StoreOK, ObjectsOK, OneWorker, StatusShown,
            store, objects

LEMMA ConnectionStep == Inv /\ (Disconnect \/ Reconnect) => Inv'
<1> SUFFICES ASSUME Inv, Disconnect \/ Reconnect PROVE Inv'
  OBVIOUS
<1> USE DEF Inv, HubOK, WireOK
<1>1. CASE Disconnect
  <2>1. ObjectsOK' /\ StoreOK'
    BY <1>1 DEF Disconnect, StoreOK, ObjectsOK, OneWorker, StatusShown, store, objects
  <2>2. HubOK'
    <3>1. missed' \subseteq Names /\ held' = FALSE /\ conn' = FALSE /\ db' = db
            /\ ready' = ready
      BY <1>1 DEF Disconnect
    <3> QED BY <3>1
  <2>3. WireOK'
    BY <1>1 DEF Disconnect
  <2> QED BY <2>1, <2>2, <2>3
<1>2. CASE Reconnect
  BY <1>2, SendOK, RequestTypes
  DEF Reconnect, StoreOK, ObjectsOK, OneWorker, StatusShown, hub, store, objects
<1> QED BY <1>1, <1>2

-----------------------------------------------------------------------------
LEMMA InvStep == Inv /\ [Next]_vars => Inv'
<1> SUFFICES ASSUME Inv, [Next]_vars PROVE Inv'
  OBVIOUS
<1>1. CASE Hub
  BY <1>1, HubStep
<1>2. CASE Message
  BY <1>2, MessageStep
<1>3. CASE User
  BY <1>3, UserDoes, AsksStep, EditsStep, StopStartStep
<1>4. CASE Disconnect \/ Reconnect
  BY <1>4, ConnectionStep
<1>5. CASE \E id \in DOMAIN workers : Worker(id) \/ WorkerStuck(id)
  BY <1>5, WorkerStep
<1>6. ASSUME NEW n \in Names,
             \/ WrittenElsewhere(n, none)
             \/ \E s \in Sources, on \in BOOLEAN : WrittenElsewhere(n, Entry(s, on))
      PROVE  Inv'
  <2>1. none \in Contents /\ \A s \in Sources, on \in BOOLEAN : Entry(s, on) \in Contents
    BY DEF Contents, Entries, Entry, Programs
  <2> QED BY <1>6, <2>1, WrittenStep
<1>7. CASE UNCHANGED vars
  BY <1>7 DEF vars, hub, wire, store, objects, Inv, HubOK, WireOK, StoreOK, ObjectsOK,
              OneWorker, StatusShown
<1> QED BY <1>1, <1>2, <1>3, <1>4, <1>5, <1>6, <1>7 DEF Next

LEMMA InvTypes == Inv => TypeOK
BY DEF Inv, HubOK, WireOK, StoreOK, ObjectsOK, TypeOK, Contents

LEMMA Invariance == Spec => []Inv
<1>1. Init => Inv
  BY InitOK
<1>2. Inv /\ [Next]_vars => Inv'
  BY InvStep
<1> QED BY <1>1, <1>2, PTL DEF Spec

\* The store's tables of extensions, objects, drafts and statuses, and the
\* keys of the database, hold what the code takes for granted of them.
THEOREM Typing == Spec => []TypeOK
<1>1. Inv => TypeOK
  BY InvTypes
<1> QED BY <1>1, Invariance, PTL

\* An extension never runs twice, and every worker that is alive is the one
\* of the object in the store: extensionInstanceAdded, extensionRemoved and
\* the disabling of an extension dispose of the object they replace.
THEOREM NeverTwoWorkers == Spec => []OneWorker
<1>1. Inv => OneWorker
  BY DEF Inv, ObjectsOK
<1> QED BY <1>1, Invariance, PTL

\* extensions.status, which is set by messages that only name an extension,
\* is the status of the object that Start and Stop act on.
THEOREM StatusIsOfTheObject == Spec => []StatusShown
<1>1. Inv => StatusShown
  BY DEF Inv, ObjectsOK
<1> QED BY <1>1, Invariance, PTL

-----------------------------------------------------------------------------
(* What the dashboard is still to hear of a key.                           *)

PushOf(m, n) == m.is = "push" /\ m.name = n
Tells(m, n) == PushOf(m, n) \/ (m.is = "entries" /\ m.entries[n] \in Entries)
Told(m, n) == IF m.is = "push" THEN m.entry ELSE m.entries[n]
Later(q, i) == {j \in DOMAIN q : j > i}

\* Nothing is to be heard of n, or no push; the last that is told of n is e;
\* nothing else than e is told once all pushes are read but one.
Untold(q, n) == \A i \in DOMAIN q : ~Tells(q[i], n)
Unpushed(q, n) == \A i \in DOMAIN q : ~PushOf(q[i], n)
LastIs(q, n, e) ==
  \A i \in DOMAIN q :
    Tells(q[i], n) /\ (\A j \in Later(q, i) : ~Tells(q[j], n)) => Told(q[i], n) = e
RestIs(q, n, e) ==
  \A i \in DOMAIN q :
    Tells(q[i], n) /\ (\A j \in Later(q, i) : ~PushOf(q[j], n)) => Told(q[i], n) = e

LEMMA AppendIndices ==
  ASSUME NEW S, NEW q \in Seq(S), NEW m \in S
  PROVE  /\ Len(q) \in Nat /\ DOMAIN q = 1 .. Len(q)
         /\ DOMAIN Append(q, m) = 1 .. Len(q) + 1
         /\ \A i \in 1 .. Len(q) : Append(q, m)[i] = q[i]
         /\ Append(q, m)[Len(q) + 1] = m
BY AppendProperties, LenProperties

LEMMA TailIndices ==
  ASSUME NEW S, NEW q \in Seq(S), q # <<>>
  PROVE  /\ Len(q) \in Nat \ {0} /\ DOMAIN q = 1 .. Len(q) /\ Head(q) = q[1]
         /\ DOMAIN Tail(q) = 1 .. Len(q) - 1
         /\ \A i \in 1 .. Len(q) - 1 : Tail(q)[i] = q[i + 1]
<1>1. Tail(q) \in Seq(S) /\ Len(Tail(q)) = Len(q) - 1
      /\ \A i \in 1 .. Len(Tail(q)) : Tail(q)[i] = q[i + 1]
  BY HeadTailProperties
<1> QED BY <1>1, LenProperties, EmptySeq

\* A message that tells nothing of n is sent after the others.
LEMMA AppendOther ==
  ASSUME NEW q \in Seq(Messages), NEW m \in Messages, NEW n, NEW e, ~Tells(m, n)
  PROVE  /\ LastIs(q, n, e) => LastIs(Append(q, m), n, e)
         /\ RestIs(q, n, e) => RestIs(Append(q, m), n, e)
         /\ Untold(Append(q, m), n) => Untold(q, n)
         /\ Unpushed(Append(q, m), n) => Unpushed(q, n)
<1> DEFINE r == Append(q, m)
<1>1. /\ Len(q) \in Nat /\ DOMAIN q = 1 .. Len(q) /\ DOMAIN r = 1 .. Len(q) + 1
      /\ \A i \in 1 .. Len(q) : r[i] = q[i]
      /\ r[Len(q) + 1] = m
  BY AppendIndices
<1> HIDE DEF r
<1>2. ASSUME NEW i \in DOMAIN r, Tells(r[i], n) PROVE i \in DOMAIN q /\ r[i] = q[i]
  BY <1>1, <1>2
<1>3. \A i \in DOMAIN q : i \in DOMAIN r /\ r[i] = q[i] /\ Later(q, i) \subseteq Later(r, i)
  BY <1>1 DEF Later
<1>4. ASSUME NEW i \in DOMAIN q, NEW j \in Later(q, i) PROVE j \in DOMAIN q /\ r[j] = q[j]
  BY <1>3 DEF Later
<1>5. LastIs(q, n, e) => LastIs(r, n, e)
  BY <1>2, <1>3, <1>4 DEF LastIs
<1>6. RestIs(q, n, e) => RestIs(r, n, e)
  BY <1>2, <1>3, <1>4 DEF RestIs
<1>7. (Untold(r, n) => Untold(q, n)) /\ (Unpushed(r, n) => Unpushed(q, n))
  BY <1>3 DEF Untold, Unpushed
<1> QED BY <1>5, <1>6, <1>7 DEF r

\* One that tells of n is the last to do so.
LEMMA AppendTold ==
  ASSUME NEW q \in Seq(Messages), NEW m \in Messages, NEW n, NEW e,
         Tells(m, n), Told(m, n) = e
  PROVE  /\ LastIs(Append(q, m), n, e)
         /\ PushOf(m, n) \/ RestIs(q, n, e) => RestIs(Append(q, m), n, e)
         /\ ~Untold(Append(q, m), n)
         /\ Unpushed(Append(q, m), n) => Unpushed(q, n) /\ ~PushOf(m, n)
<1> DEFINE r == Append(q, m)
           k == Len(q) + 1
<1>1. /\ Len(q) \in Nat /\ DOMAIN q = 1 .. Len(q) /\ DOMAIN r = 1 .. Len(q) + 1
      /\ \A i \in 1 .. Len(q) : r[i] = q[i]
      /\ r[Len(q) + 1] = m
  BY AppendIndices
<1> HIDE DEF r
<1>2. /\ k \in DOMAIN r /\ r[k] = m
      /\ \A i \in DOMAIN r : i = k \/ (i \in DOMAIN q /\ r[i] = q[i] /\ k \in Later(r, i))
      /\ \A i \in DOMAIN q : i \in DOMAIN r /\ r[i] = q[i] /\ Later(q, i) \subseteq Later(r, i)
  BY <1>1 DEF Later
<1> HIDE DEF k
<1>3. LastIs(r, n, e)
  BY <1>2 DEF LastIs
<1>4. CASE PushOf(m, n)
  BY <1>2, <1>3, <1>4 DEF LastIs, RestIs, r, Untold, Unpushed
<1>5. CASE ~PushOf(m, n)
  <2>1. ASSUME NEW i \in DOMAIN q, NEW j \in Later(q, i) PROVE j \in DOMAIN q /\ r[j] = q[j]
    BY <1>2 DEF Later
  <2>2. RestIs(q, n, e) => RestIs(r, n, e)
    BY <1>2, <2>1 DEF RestIs
  <2> QED BY <1>2, <1>3, <1>5, <2>2 DEF r, Untold, Unpushed
<1> QED BY <1>4, <1>5

\* The first message is read.
LEMMA TailTells ==
  ASSUME NEW q \in Seq(Messages), q # <<>>, NEW n, NEW e
  PROVE  /\ LastIs(q, n, e)
              => /\ LastIs(Tail(q), n, e)
                 /\ Tells(Head(q), n) /\ Untold(Tail(q), n) => Told(Head(q), n) = e
         /\ RestIs(q, n, e)
              => /\ RestIs(Tail(q), n, e)
                 /\ Tells(Head(q), n) /\ Unpushed(Tail(q), n) => Told(Head(q), n) = e
         /\ Untold(Tail(q), n) /\ ~Tells(Head(q), n) => Untold(q, n)
         /\ Unpushed(Tail(q), n) /\ ~PushOf(Head(q), n) => Unpushed(q, n)
<1> DEFINE r == Tail(q)
<1>1. /\ Len(q) \in Nat \ {0} /\ DOMAIN q = 1 .. Len(q) /\ Head(q) = q[1]
      /\ DOMAIN r = 1 .. Len(q) - 1
      /\ \A i \in 1 .. Len(q) - 1 : r[i] = q[i + 1]
  BY TailIndices
<1> HIDE DEF r
<1>2. \A i \in DOMAIN r : i + 1 \in DOMAIN q /\ r[i] = q[i + 1]
  BY <1>1
<1>3. ASSUME NEW i \in DOMAIN r, NEW j \in Later(q, i + 1)
      PROVE  j - 1 \in Later(r, i) /\ r[j - 1] = q[j]
  BY <1>1 DEF Later
<1>4. 1 \in DOMAIN q /\ \A j \in DOMAIN q : j # 1 => j - 1 \in DOMAIN r /\ r[j - 1] = q[j]
  BY <1>1
<1>5. \A j \in Later(q, 1) : j - 1 \in DOMAIN r /\ r[j - 1] = q[j]
  BY <1>1, <1>4 DEF Later
<1>6. LastIs(q, n, e)
        => LastIs(r, n, e) /\ (Tells(Head(q), n) /\ Untold(r, n) => Told(Head(q), n) = e)
  BY <1>1, <1>2, <1>3, <1>4, <1>5 DEF LastIs, Untold
<1>7. RestIs(q, n, e)
        => RestIs(r, n, e) /\ (Tells(Head(q), n) /\ Unpushed(r, n) => Told(Head(q), n) = e)
  BY <1>1, <1>2, <1>3, <1>4, <1>5 DEF RestIs, Unpushed
<1>8. /\ Untold(r, n) /\ ~Tells(Head(q), n) => Untold(q, n)
      /\ Unpushed(r, n) /\ ~PushOf(Head(q), n) => Unpushed(q, n)
  BY <1>1, <1>4 DEF Untold, Unpushed
<1> QED BY <1>6, <1>7, <1>8 DEF r

-----------------------------------------------------------------------------
(* What is stored, and what runs.                                          *)

\* The connection has come up and the keys are not read yet.
Opening == {"config", "subscribe", "list"}
Initializing ==
  \/ \E i \in DOMAIN up : up[i].op \in Opening
  \/ \E i \in DOMAIN down : down[i].is \in {"config", "subscribed"}

On(e) == e # none /\ e.enabled
Off(e) == e = none \/ (e \in Entries /\ ~e.enabled)
Workless(n) == \A id \in DOMAIN workers : id[1] # n
Settled(n) ==
  /\ installed[n] = db[n]
  /\ On(db[n]) => running[n] # none
  /\ \A id \in DOMAIN workers :
       id[1] = n => On(db[n]) /\ workers[id].source = db[n].source

\* The last news of a key that the dashboard is to hear is what is stored.
\* The list of the keys does not stop a worker: of an extension that is not
\* enabled nothing else may follow the last push, and after it none runs.
\* With no news to come, what is stored is what runs.
News(n) ==
  LastIs(down, n, db[n]) /\ (Off(db[n]) => RestIs(down, n, db[n]))
Quieted(n) ==
  Off(db[n]) /\ Unpushed(down, n) => installed[n] \in {none, db[n]} /\ Workless(n)
Arrived(n) ==
  conn /\ ~Initializing /\ db[n] # Partial /\ Untold(down, n) => Settled(n)
Follows(n) == News(n) /\ Quieted(n) /\ Arrived(n)
StoredInv == \A n \in Names \ missed : Follows(n)

\* A step that leaves the extension as it is, apart from what its worker does
\* and whether it has one; and what is to be heard of it; and the connection.
StoreKept(n) ==
  /\ installed'[n] = installed[n] /\ (running[n] # none => running'[n] # none)
  /\ \A id \in DOMAIN workers' :
       id[1] = n => id \in DOMAIN workers /\ workers'[id].source = workers[id].source
NewsKept(n) ==
  /\ LastIs(down, n, db[n]) => LastIs(down', n, db[n])
  /\ RestIs(down, n, db[n]) => RestIs(down', n, db[n])
  /\ Untold(down', n) => Untold(down, n)
  /\ Unpushed(down', n) => Unpushed(down, n)
LinkKept == (conn' => conn) /\ (Initializing => Initializing')

LEMMA KeptStore ==
  ASSUME NEW n, StoreKept(n), db'[n] = db[n]
  PROVE  /\ Settled(n) => Settled(n)'
         /\ Workless(n) => Workless(n)'
BY DEF StoreKept, Settled, Workless, On

LEMMA Kept ==
  ASSUME NEW n, Follows(n), db'[n] = db[n], StoreKept(n), NewsKept(n),
         LinkKept \/ Initializing'
  PROVE  Follows(n)'
<1>1. News(n)'
  BY DEF Follows, News, NewsKept
<1>2. Quieted(n)'
  BY KeptStore DEF Follows, Quieted, NewsKept, StoreKept
<1>3. Arrived(n)'
  BY KeptStore DEF Follows, Arrived, NewsKept, LinkKept
<1> QED BY <1>1, <1>2, <1>3 DEF Follows

\* The wire.
LEMMA NoNews ==
  ASSUME NEW n, UNCHANGED down
  PROVE  NewsKept(n)
BY DEF NewsKept, LastIs, RestIs, Untold, Unpushed, Later

LEMMA OtherNews ==
  ASSUME Inv, NEW n, NEW m \in Messages, ~Tells(m, n), down' = Append(down, m)
  PROVE  NewsKept(n)
BY AppendOther DEF Inv, WireOK, NewsKept

LEMMA OtherHeard ==
  ASSUME Inv, NEW n, NEW is, Receive(is), ~Tells(Head(down), n)
  PROVE  NewsKept(n)
BY TailTells, Zenon DEF Inv, WireOK, NewsKept, Receive, Tells

LEMMA SendsOpening ==
  ASSUME Inv, NEW r \in Requests, r.op \in Opening, Send(r)
  PROVE  Initializing'
<1>1. Len(up) + 1 \in DOMAIN up' /\ up'[Len(up) + 1] = r
  BY AppendIndices DEF Inv, WireOK, Send
<1> QED BY <1>1 DEF Initializing

LEMMA AnswersOpening ==
  ASSUME Inv, NEW m \in Messages, m.is \in {"config", "subscribed"}, down' = Append(down, m)
  PROVE  Initializing'
<1>1. Len(down) + 1 \in DOMAIN down' /\ down'[Len(down) + 1] = m
  BY AppendIndices DEF Inv, WireOK
<1> QED BY <1>1 DEF Initializing

\* A request is sent, or none.
LEMMA SentKeeps ==
  ASSUME Inv, UNCHANGED down,
         \/ UNCHANGED up
         \/ \E r \in Requests : up' = Append(up, r)
  PROVE  Initializing => Initializing'
<1>1. CASE UNCHANGED up
  BY <1>1 DEF Initializing
<1>2. ASSUME NEW r \in Requests, up' = Append(up, r)
      PROVE  Initializing => Initializing'
  <2>1. \A i \in DOMAIN up : i \in DOMAIN up' /\ up'[i] = up[i]
    BY <1>2, AppendIndices DEF Inv, WireOK
  <2> QED BY <2>1 DEF Initializing
<1> QED BY <1>1, <1>2

\* A message is heard that does not belong to the opening.
LEMMA HeardKeeps ==
  ASSUME Inv, NEW is, Receive(is), is \notin {"config", "subscribed"},
         \/ UNCHANGED up
         \/ \E r \in Requests : up' = Append(up, r)
  PROVE  Initializing => Initializing'
<1>1. \A i \in DOMAIN up : i \in DOMAIN up' /\ up'[i] = up[i]
  BY AppendIndices DEF Inv, WireOK
<1>2. \A i \in DOMAIN down :
        \/ i = 1 /\ down[i] = Head(down)
        \/ i - 1 \in DOMAIN down' /\ down'[i - 1] = down[i]
  <2>1. down \in Seq(Messages) /\ down # <<>> /\ down' = Tail(down)
    BY DEF Inv, WireOK, Receive
  <2> QED BY <2>1, TailIndices
<1> QED BY <1>1, <1>2 DEF Initializing, Receive

\* A request is handled that does not belong to it.
LEMMA HandledKeeps ==
  ASSUME Inv, NEW op, Handling(op), op \notin Opening,
         \A i \in DOMAIN down : i \in DOMAIN down' /\ down'[i] = down[i]
  PROVE  Initializing => Initializing'
<1>1. \A i \in DOMAIN up :
        \/ i = 1 /\ up[i] = Head(up)
        \/ i - 1 \in DOMAIN up' /\ up'[i - 1] = up[i]
  <2>1. up \in Seq(Requests) /\ up # <<>> /\ up' = Tail(up)
    BY DEF Inv, WireOK, Handling
  <2> QED BY <2>1, TailIndices
<1> QED BY <1>1 DEF Initializing, Handling

-----------------------------------------------------------------------------
(* The objects of one extension.                                           *)

LEMMA Untouched ==
  ASSUME NEW n, UNCHANGED <<installed, objects>>
  PROVE  StoreKept(n)
BY DEF StoreKept, objects

\* What is done to the objects of others, or only disposes of its own.
LEMMA ReplacedOthers ==
  ASSUME Inv, NEW n \in Names, NEW new \in SUBSET Names, NEW old \in SUBSET Names,
         NEW entry, Replaced(new, old, entry), n \notin new
  PROVE  /\ running[n] # none => running'[n] # none
         /\ \A id \in DOMAIN workers' :
              id[1] = n => /\ id \in DOMAIN workers /\ n \notin old
                           /\ workers'[id].source = workers[id].source
<1>1. running[n] # none => running'[n] # none
  <2>1. CASE n \in old /\ running[n] # none
    <3>1. running[n] \in Objects
      BY <2>1 DEF Inv, ObjectsOK
    <3>2. running'[n] = [running[n] EXCEPT !.status = "terminated"]
      BY <2>1 DEF Replaced
    <3>3. running'[n] \in Objects
      BY <3>1, <3>2 DEF Objects, Statuses
    <3> QED BY <3>3, ExtensionsAssumption
  <2>2. CASE ~(n \in old /\ running[n] # none)
    BY <2>2 DEF Replaced
  <2> QED BY <2>1, <2>2
<1>2. ASSUME NEW id \in DOMAIN workers', id[1] = n
      PROVE  /\ id \in DOMAIN workers /\ n \notin old
             /\ workers'[id].source = workers[id].source
  <2>1. id \in Live(new, old)
    <3>1. DOMAIN workers' = Live(new, old) \union {<<m, made[m] + 1>> : m \in new}
      BY DEF Replaced
    <3>2. \A m \in new : <<m, made[m] + 1>>[1] # n
      BY <1>2
    <3> QED BY <1>2, <3>1, <3>2
  <2>2. id \in DOMAIN workers /\ n \notin old
    BY <1>2, <2>1 DEF Live
  <2>3. workers'[id] = workers[id]
    BY <1>2, <2>1 DEF Replaced
  <2> QED BY <2>2, <2>3
<1> QED BY <1>1, <1>2

\* The objects that are made: each has a worker of its own, and no other.
LEMMA ReplacedNew ==
  ASSUME Inv, NEW n \in Names, NEW new \in SUBSET Names, NEW old \in SUBSET Names,
         NEW entry, Replaced(new, old, entry), n \in new
  PROVE  /\ running'[n] # none
         /\ \A id \in DOMAIN workers' : id[1] = n => workers'[id].source = entry[n].source
<1>1. running'[n] # none
  <2>1. running'[n] = [id |-> made[n] + 1, status |-> "not-ready"]
    BY DEF Replaced
  <2>2. running'[n] \in Objects
    BY <2>1 DEF Objects, Statuses, Inv, ObjectsOK
  <2> QED BY <2>2, ExtensionsAssumption
<1>2. ASSUME NEW id \in DOMAIN workers', id[1] = n
      PROVE  workers'[id].source = entry[n].source
  <2>1. workers'[id] = [source |-> entry[id[1]].source, phase |-> "starting", sent |-> <<>>]
    BY <1>2 DEF Replaced
  <2> QED BY <1>2, <2>1
<1> QED BY <1>1, <1>2

LEMMA RemovedOthers ==
  ASSUME Inv, NEW n \in Names, NEW m \in Names, Removed(m)
  PROVE  /\ n # m => StoreKept(n)
         /\ n = m => installed'[n] = none /\ Workless(n)'
BY DEF Inv, StoreOK, ObjectsOK, Removed, Live, StoreKept, Workless

-----------------------------------------------------------------------------
(* Steps of the hub.                                                       *)

LEMMA OpeningFollows ==
  ASSUME Inv, StoredInv, HubConfig \/ HubSubscribe \/ GotConfig \/ GotSubscribed
  PROVE  StoredInv'
<1> SUFFICES ASSUME NEW n \in Names \ missed PROVE Follows(n)'
  BY DEF HubConfig, HubSubscribe, GotConfig, GotSubscribed, StoredInv
<1>1. Follows(n) /\ db' = db /\ StoreKept(n)
  BY Untouched DEF StoredInv, HubConfig, HubSubscribe, GotConfig, GotSubscribed, hub, store
<1>2. CASE HubConfig \/ HubSubscribe
  <2>1. PICK m \in Messages : down' = Append(down, m) /\ m.is \in {"config", "subscribed"}
    <3>1. /\ [is |-> "config"] \in Messages /\ [is |-> "config"].is = "config"
          /\ [is |-> "subscribed"] \in Messages /\ [is |-> "subscribed"].is = "subscribed"
      BY DEF Messages
    <3> QED BY <1>2, <3>1 DEF HubConfig, HubSubscribe
  <2>2. NewsKept(n) /\ Initializing'
    BY <2>1, OtherNews, AnswersOpening DEF Tells, PushOf
  <2> QED BY <1>1, <2>2, Kept
<1>3. CASE GotConfig \/ GotSubscribed
  <2>1. \E r \in Requests : Send(r) /\ r.op \in Opening
    <3>1. /\ [op |-> "subscribe"] \in Requests /\ [op |-> "subscribe"].op = "subscribe"
          /\ [op |-> "list"] \in Requests /\ [op |-> "list"].op = "list"
      BY RequestTypes
    <3> QED BY <1>3, <3>1 DEF GotConfig, GotSubscribed, Opening
  <2>2. PICK is \in {"config", "subscribed"} : Receive(is)
    BY <1>3 DEF GotConfig, GotSubscribed
  <2>3. ~Tells(Head(down), n)
    BY <2>2 DEF Receive, Tells, PushOf
  <2>4. NewsKept(n) /\ Initializing'
    BY <2>1, <2>2, <2>3, OtherHeard, SendsOpening
  <2> QED BY <1>1, <2>4, Kept
<1> QED BY <1>2, <1>3

LEMMA HubListFollows ==
  ASSUME Inv, StoredInv, HubList
  PROVE  StoredInv'
<1> DEFINE m == [is |-> "entries", entries |-> db]
<1>1. /\ m \in Messages /\ m.is = "entries" /\ m.entries = db
      /\ down' = Append(down, m) /\ db' = db /\ down \in Seq(Messages)
      /\ UNCHANGED <<installed, objects, conn>>
      /\ missed' = {n \in missed : db[n] \in Entries => ~db[n].enabled}
  BY DEF HubList, hub, store, Messages, Lists, Inv, HubOK, WireOK
<1> HIDE DEF m
<1>2. ASSUME NEW n \in Names \ missed', n \in missed PROVE Follows(n)'
  <2>1. db[n] \in Entries /\ On(db[n]) /\ ~Off(db[n])
    BY <1>1, <1>2, ExtensionsAssumption DEF On, Off
  <2>2. Tells(m, n) /\ Told(m, n) = db[n]
    BY <1>1, <2>1 DEF Tells, Told
  <2>3. LastIs(down', n, db[n]) /\ ~Untold(down', n)
    BY <1>1, <2>2, AppendTold
  <2> QED BY <1>1, <2>1, <2>3 DEF Follows, News, Quieted, Arrived
<1>3. ASSUME NEW n \in Names \ missed PROVE Follows(n)'
  <2>1. Follows(n) /\ ~PushOf(m, n) /\ StoreKept(n)
    BY <1>1, <1>3, Untouched DEF StoredInv, PushOf
  <2>2. CASE db[n] \in Entries
    <3>1. Tells(m, n) /\ Told(m, n) = db[n]
      BY <1>1, <2>2 DEF Tells, Told
    <3>2. /\ LastIs(down', n, db[n]) /\ ~Untold(down', n)
          /\ RestIs(down, n, db[n]) => RestIs(down', n, db[n])
          /\ Unpushed(down', n) => Unpushed(down, n)
      BY <1>1, <3>1, AppendTold
    <3> QED BY <1>1, <2>1, <3>2, KeptStore
            DEF Follows, News, Quieted, Arrived, StoreKept
  <2>3. CASE db[n] \notin Entries
    <3>1. ~Tells(m, n)
      BY <1>1, <2>1, <2>3 DEF Tells
    <3>2. NewsKept(n)
      BY <1>1, <3>1, OtherNews
    <3>3. CASE db[n] = Partial
      BY <1>1, <2>1, <3>2, <3>3, KeptStore
      DEF Follows, News, Quieted, Arrived, StoreKept, NewsKept
    <3>4. CASE db[n] = none
      <4>1. Off(db[n])
        BY <3>4 DEF Off
      <4>2. News(n)' /\ Quieted(n)'
        BY <1>1, <2>1, <3>2, KeptStore DEF Follows, News, Quieted, StoreKept, NewsKept
      <4>3. Unpushed(down', n) => Settled(n)'
        BY <1>1, <3>4, <4>1, <4>2, ExtensionsAssumption
        DEF Quieted, Settled, Workless, On
      <4>4. Untold(down', n) => Unpushed(down', n)
        BY DEF Untold, Unpushed, Tells
      <4> QED BY <4>2, <4>3, <4>4 DEF Follows, Arrived
    <3> QED BY <2>3, <3>3, <3>4, <1>3 DEF Inv, HubOK, Contents
  <2> QED BY <2>2, <2>3
<1> QED BY <1>2, <1>3 DEF StoredInv

\* The push of a write, and what goes with it.
LEMMA PushTells ==
  ASSUME NEW n, NEW m, NEW e
  PROVE  LET push == [is |-> "push", name |-> m, entry |-> e]
         IN /\ Tells(push, n) <=> m = n
            /\ PushOf(push, n) <=> m = n
            /\ Told(push, n) = e
BY DEF Tells, PushOf, Told

LEMMA OneMore ==
  ASSUME NEW q \in Seq(Messages), NEW m \in Messages
  PROVE  q \o <<m>> = Append(q, m) /\ Append(q, m) \in Seq(Messages)
<1>1. <<m>> \in Seq(Messages) /\ Len(<<m>>) = 1 /\ <<m>>[1] = m
  OBVIOUS
<1>2. /\ q \o <<m>> \in Seq(Messages) /\ Len(q \o <<m>>) = Len(q) + 1
      /\ \A i \in 1 .. Len(q) + 1 :
           (q \o <<m>>)[i] = IF i <= Len(q) THEN q[i] ELSE <<m>>[i - Len(q)]
  BY <1>1, ConcatProperties
<1>3. /\ Append(q, m) \in Seq(Messages) /\ Len(Append(q, m)) = Len(q) + 1
      /\ \A i \in 1 .. Len(q) : Append(q, m)[i] = q[i]
      /\ Append(q, m)[Len(q) + 1] = m /\ Len(q) \in Nat
  BY AppendProperties, LenProperties
<1>4. \A i \in 1 .. Len(q) + 1 : (q \o <<m>>)[i] = Append(q, m)[i]
  BY <1>1, <1>2, <1>3
<1> QED BY <1>2, <1>3, <1>4, SeqEqual

\* The push is the last news of what is written; the answer, before or after
\* it, is none.
LEMMA WriteFollows ==
  ASSUME Inv, StoredInv, NEW m \in Names, NEW e \in Contents, Write(m, e),
         NEW q \in Seq(Messages), NEW r \in Seq(Messages),
         q = down \/ \E d \in Messages : d.is = "done" /\ q = Append(down, d),
         r = IF held THEN Append(q, [is |-> "push", name |-> m, entry |-> e]) ELSE q,
         down' = r \/ \E d \in Messages : d.is = "done" /\ down' = Append(r, d),
         UNCHANGED <<conn, installed, objects>>, Initializing => Initializing'
  PROVE  StoredInv'
<1> DEFINE push == [is |-> "push", name |-> m, entry |-> e]
<1>1. push \in Messages
  BY DEF Messages, Pushes
<1>2. ASSUME NEW n, NEW d \in Messages, d.is = "done" PROVE ~Tells(d, n) /\ ~PushOf(d, n)
  BY <1>2 DEF Tells, PushOf
<1>3. down \in Seq(Messages) /\ db \in [Names -> Contents]
  BY DEF Inv, WireOK, HubOK
<1>4. ASSUME NEW n \in Names \ missed', n # m PROVE Follows(n)'
  <2>1. n \in Names \ missed /\ db'[n] = db[n] /\ StoreKept(n)
    BY <1>3, <1>4, Untouched DEF Write
  <2>2. ~Tells(push, n)
    BY <1>4, PushTells
  <2>3. /\ LastIs(down, n, db[n]) => LastIs(q, n, db[n])
        /\ RestIs(down, n, db[n]) => RestIs(q, n, db[n])
        /\ Untold(q, n) => Untold(down, n)
        /\ Unpushed(q, n) => Unpushed(down, n)
    <3>1. CASE q = down
      BY <3>1
    <3>2. ASSUME NEW d \in Messages, d.is = "done", q = Append(down, d)
          PROVE  /\ LastIs(down, n, db[n]) => LastIs(q, n, db[n])
                 /\ RestIs(down, n, db[n]) => RestIs(q, n, db[n])
                 /\ Untold(q, n) => Untold(down, n)
                 /\ Unpushed(q, n) => Unpushed(down, n)
      BY <1>2, <1>3, <3>2, AppendOther
    <3> QED BY <3>1, <3>2
  <2>4. /\ LastIs(q, n, db[n]) => LastIs(r, n, db[n])
        /\ RestIs(q, n, db[n]) => RestIs(r, n, db[n])
        /\ Untold(r, n) => Untold(q, n)
        /\ Unpushed(r, n) => Unpushed(q, n)
    BY <1>1, <2>2, AppendOther
  <2>5. /\ LastIs(r, n, db[n]) => LastIs(down', n, db[n])
        /\ RestIs(r, n, db[n]) => RestIs(down', n, db[n])
        /\ Untold(down', n) => Untold(r, n)
        /\ Unpushed(down', n) => Unpushed(r, n)
    BY <1>2, AppendOther
  <2>6. NewsKept(n)
    BY <2>3, <2>4, <2>5 DEF NewsKept
  <2> QED BY <2>1, <2>6, Kept DEF LinkKept, StoredInv
<1>5. ASSUME m \notin missed' PROVE Follows(m)'
  <2>1. held /\ db'[m] = e /\ r = Append(q, push)
    BY <1>3, <1>5 DEF Write
  <2>2. PushOf(push, m) /\ Tells(push, m) /\ Told(push, m) = e
    BY PushTells
  <2>3. /\ LastIs(r, m, e) /\ RestIs(r, m, e) /\ ~Untold(r, m) /\ ~Unpushed(r, m)
    BY <1>1, <2>1, <2>2, AppendTold
  <2>4. /\ LastIs(down', m, e) /\ RestIs(down', m, e)
        /\ ~Untold(down', m) /\ ~Unpushed(down', m)
    BY <1>2, <2>3, AppendOther
  <2> QED BY <2>1, <2>4 DEF Follows, News, Quieted, Arrived
<1> QED BY <1>4, <1>5 DEF StoredInv, Write

LEMMA HubWriteFollows == Inv /\ StoredInv /\ HubWrite => StoredInv'
<1> SUFFICES ASSUME Inv, StoredInv, HubWrite PROVE StoredInv'
  OBVIOUS
<1> DEFINE n == Head(up).name
           e == Head(up).entry
           push == [is |-> "push", name |-> n, entry |-> e]
           done == [is |-> "done", then |-> Head(up).then]
<1>1. PICK op \in {"put", "delete"} : Handling(op)
  BY DEF HubWrite
<1>2. /\ n \in Names /\ e \in Contents /\ Head(up).then \in Thens
      /\ down \in Seq(Messages) /\ held \in BOOLEAN
  <2>1. Head(up) \in Requests /\ Head(up).op = op
    BY <1>1, HandlingOK DEF Inv, WireOK
  <2> QED BY <2>1, RequestFields DEF Inv, WireOK, HubOK
<1>3. push \in Messages /\ done \in Messages /\ done.is = "done"
  BY <1>2 DEF Messages, Pushes, Answers
<1>4. /\ Write(n, e) /\ UNCHANGED <<conn, installed, objects>>
      /\ down' \in {down \o Push(n, e) \o <<done>>, down \o <<done>> \o Push(n, e)}
  BY DEF HubWrite, store
<1> HIDE DEF n, e, done
<1>5. Push(n, e) = IF held THEN <<push>> ELSE <<>>
  BY DEF Push
<1> HIDE DEF push
<1>6. /\ down \o <<done>> = Append(down, done) /\ Append(down, done) \in Seq(Messages)
      /\ down \o <<push>> = Append(down, push) /\ Append(down, push) \in Seq(Messages)
      /\ down \o <<>> = down
  BY <1>2, <1>3, OneMore, ConcatEmptySeq
<1>7. /\ Append(down, push) \o <<done>> = Append(Append(down, push), done)
      /\ Append(down, done) \o <<push>> = Append(Append(down, done), push)
      /\ Append(down, done) \o <<>> = Append(down, done)
      /\ Append(Append(down, done), push) \in Seq(Messages)
      /\ Append(Append(down, push), done) \in Seq(Messages)
  BY <1>3, <1>6, OneMore, ConcatEmptySeq
<1> DEFINE r(q) == IF held THEN Append(q, push) ELSE q
<1>8. down' = Append(r(down), done) \/ down' = r(Append(down, done))
  BY <1>4, <1>5, <1>6, <1>7
<1>9. Initializing => Initializing'
  <2>1. \A i \in DOMAIN down : i \in DOMAIN down' /\ down'[i] = down[i]
    <3>1. \A q \in Seq(Messages), m \in Messages :
            \A i \in DOMAIN q : i \in DOMAIN Append(q, m) /\ Append(q, m)[i] = q[i]
      BY AppendIndices
    <3> QED BY <1>2, <1>3, <1>6, <1>8, <3>1
  <2> QED BY <1>1, <2>1, HandledKeeps DEF Opening
<1>10. CASE down' = Append(r(down), done)
  <2>1. r(down) \in Seq(Messages)
    BY <1>2, <1>6
  <2> QED BY <1>2, <1>3, <1>4, <1>9, <1>10, <2>1, WriteFollows DEF push
<1>11. CASE down' = r(Append(down, done))
  <2>1. r(Append(down, done)) \in Seq(Messages)
    BY <1>6, <1>7
  <2> QED BY <1>2, <1>3, <1>4, <1>6, <1>9, <1>11, <2>1, WriteFollows DEF push
<1> QED BY <1>8, <1>10, <1>11

LEMMA ElsewhereFollows ==
  ASSUME Inv, StoredInv, NEW n \in Names, NEW e \in Contents, WrittenElsewhere(n, e)
  PROVE  StoredInv'
<1> DEFINE push == [is |-> "push", name |-> n, entry |-> e]
<1>1. /\ push \in Messages /\ down \in Seq(Messages)
      /\ Write(n, e) /\ UNCHANGED <<up, conn, installed, objects>>
      /\ down' = down \o (IF held THEN <<push>> ELSE <<>>)
  BY DEF WrittenElsewhere, store, Messages, Pushes, Inv, WireOK, Push
<1>2. /\ down \o <<push>> = Append(down, push) /\ Append(down, push) \in Seq(Messages)
      /\ down \o <<>> = down
  BY <1>1, OneMore, ConcatEmptySeq
<1> HIDE DEF push
<1>3. down' = (IF held THEN Append(down, push) ELSE down) /\ down' \in Seq(Messages)
  BY <1>1, <1>2
<1>4. Initializing => Initializing'
  <2>1. \A i \in DOMAIN down : i \in DOMAIN down' /\ down'[i] = down[i]
    BY <1>1, <1>3, AppendIndices
  <2> QED BY <1>1, <2>1 DEF Initializing
<1> QED BY <1>1, <1>3, <1>4, WriteFollows DEF push

-----------------------------------------------------------------------------
(* Steps of the store.                                                     *)

\* What the read of the first message leaves to be heard.
LEMMA HeardNews ==
  ASSUME Inv, NEW is, Receive(is), NEW n, News(n), db' = db
  PROVE  /\ News(n)'
         /\ Tells(Head(down), n) /\ Untold(down', n) => Told(Head(down), n) = db[n]
         /\ Off(db[n]) /\ Tells(Head(down), n) /\ Unpushed(down', n)
              => Told(Head(down), n) = db[n]
         /\ Unpushed(down', n) /\ ~PushOf(Head(down), n) => Unpushed(down, n)
         /\ Untold(down', n) => Unpushed(down', n)
<1>1. down \in Seq(Messages) /\ down # <<>> /\ down' = Tail(down)
  BY DEF Inv, WireOK, Receive
<1>2. Untold(down', n) => Unpushed(down', n)
  BY DEF Untold, Unpushed, Tells
<1> QED BY <1>1, <1>2, TailTells DEF News

LEMMA DoneFollows == Inv /\ StoredInv /\ Done => StoredInv'
<1> SUFFICES ASSUME Inv, StoredInv, Done, NEW n \in Names \ missed PROVE Follows(n)'
  BY DEF Done, StoredInv
<1>1. Follows(n) /\ UNCHANGED <<db, conn, installed, objects>> /\ Receive("done")
  BY DEF Done, StoredInv, hub, store, Send
<1>2. ~Tells(Head(down), n)
  BY <1>1 DEF Receive, Tells, PushOf
<1>3. UNCHANGED up \/ \E r \in Requests : up' = Append(up, r)
  <2> DEFINE then == Head(down).then
             rest == Put(then.to, then.entry, [to |-> then.to, draft |-> then.draft])
  <2>1. then \in Thens
    <3>1. Head(down) \in Messages /\ Head(down).is = "done"
      BY <1>1, ReceiveOK DEF Inv, WireOK
    <3> QED BY <3>1, MessageFields
  <2>2. CASE then # none /\ "entry" \in DOMAIN then
    <3>1. then \in First
      BY <2>1, <2>2 DEF Thens, Second
    <3>2. [to |-> then.to, draft |-> then.draft] \in Thens
      BY <3>1 DEF Thens, First, Second
    <3>3. rest \in Requests
      BY <3>1, <3>2, RequestTypes DEF First, Contents
    <3> QED BY <2>2, <3>3 DEF Done, Send
  <2>3. CASE ~(then # none /\ "entry" \in DOMAIN then)
    BY <2>3 DEF Done
  <2> QED BY <2>2, <2>3
<1>4. Initializing => Initializing'
  BY <1>1, <1>3, HeardKeeps
<1>5. StoreKept(n) /\ NewsKept(n)
  BY <1>1, <1>2, Untouched, OtherHeard
<1> QED BY <1>1, <1>4, <1>5, Kept DEF LinkKept

\* What the list tells of an extension is installed; one that is enabled gets
\* a new object, and nothing else is done to any.
LEMMA GotEntriesFollows == Inv /\ StoredInv /\ GotEntries => StoredInv'
<1> SUFFICES ASSUME Inv, StoredInv, GotEntries, NEW n \in Names \ missed PROVE Follows(n)'
  BY DEF GotEntries, StoredInv
<1> DEFINE m == Head(down)
           entry == m.entries
           new == {k \in Names : entry[k] \in Entries}
           enabled == {k \in new : entry[k].enabled}
<1>1. /\ Follows(n) /\ UNCHANGED <<db, conn, up>> /\ Receive("entries")
      /\ Added(new, entry) /\ Replaced(enabled, {}, entry)
  BY DEF GotEntries, StoredInv, hub
<1>2. /\ m.is = "entries" /\ (Tells(m, n) <=> n \in new)
      /\ Told(m, n) = entry[n] /\ ~PushOf(m, n)
  BY <1>1 DEF Receive, Tells, PushOf, Told
<1>3. Initializing => Initializing'
  BY <1>1, HeardKeeps
<1>4. News(n) /\ News(n)'
      /\ (n \in new /\ Untold(down', n) => entry[n] = db[n])
      /\ (Off(db[n]) /\ n \in new /\ Unpushed(down', n) => entry[n] = db[n])
      /\ (Unpushed(down', n) => Unpushed(down, n))
      /\ (Untold(down', n) => Unpushed(down', n))
  BY <1>1, <1>2, HeardNews DEF Follows
<1>5. installed'[n] = IF n \in new THEN entry[n] ELSE installed[n]
  BY <1>1 DEF Added
<1>6. n \notin enabled =>
        /\ running[n] # none => running'[n] # none
        /\ \A id \in DOMAIN workers' :
             id[1] = n => id \in DOMAIN workers /\ workers'[id].source = workers[id].source
  BY <1>1, ReplacedOthers
<1>7. n \in enabled =>
        /\ running'[n] # none
        /\ \A id \in DOMAIN workers' : id[1] = n => workers'[id].source = entry[n].source
  BY <1>1, ReplacedNew
<1>8. CASE n \notin new
  <2>1. n \notin enabled
    BY <1>8
  <2>2. StoreKept(n) /\ NewsKept(n)
    BY <1>1, <1>2, <1>5, <1>6, <1>8, <2>1, OtherHeard DEF StoreKept
  <2> QED BY <1>1, <1>3, <2>2, Kept DEF LinkKept
<1>9. CASE n \in new
  <2>1. Quieted(n)'
    <3> SUFFICES ASSUME Off(db[n]), Unpushed(down', n)
                 PROVE  installed'[n] = db[n] /\ Workless(n)'
      BY <1>1 DEF Quieted
    <3>1. entry[n] = db[n] /\ entry[n] \in Entries /\ Workless(n)
      BY <1>1, <1>4, <1>9 DEF Follows, Quieted
    <3>2. n \notin enabled
      BY <3>1, ExtensionsAssumption DEF Off
    <3> QED BY <1>5, <1>6, <1>9, <3>1, <3>2 DEF Workless
  <2>2. Arrived(n)'
    <3> SUFFICES ASSUME Untold(down', n) PROVE Settled(n)'
      BY <1>1 DEF Arrived
    <3>1. installed'[n] = db[n] /\ db[n] = entry[n] /\ db[n] \in Entries
      BY <1>4, <1>5, <1>9
    <3>2. CASE entry[n].enabled
      <4>1. n \in enabled /\ On(db[n])
        BY <1>9, <3>1, <3>2, ExtensionsAssumption DEF On
      <4> QED BY <1>1, <1>7, <3>1, <4>1 DEF Settled
    <3>3. CASE ~entry[n].enabled
      <4>1. Off(db[n]) /\ ~On(db[n])
        BY <3>1, <3>3 DEF On, Off
      <4>2. Workless(n)'
        BY <1>1, <1>4, <2>1, <4>1 DEF Quieted
      <4> QED BY <1>1, <3>1, <4>1, <4>2 DEF Settled, Workless
    <3> QED BY <3>2, <3>3
  <2> QED BY <1>4, <2>1, <2>2 DEF Follows
<1> QED BY <1>8, <1>9

\* A push replaces what there is of an extension.
LEMMA ChangedFollows == Inv /\ StoredInv /\ Changed => StoredInv'
<1> SUFFICES ASSUME Inv, StoredInv, Changed, NEW n \in Names \ missed PROVE Follows(n)'
  BY DEF Changed, StoredInv
<1> DEFINE m == Head(down)
           k == m.name
           e == m.entry
<1>1. /\ Follows(n) /\ UNCHANGED <<db, conn, up>> /\ Receive("push")
      /\ \/ e = none /\ Removed(k)
         \/ e = Partial /\ UNCHANGED <<store, objects>>
         \/ e \in Entries /\ Refreshed(k, e)
  BY DEF Changed, StoredInv, hub
<1>2. /\ k \in Names /\ m.is = "push" /\ Told(m, n) = e
      /\ Tells(m, n) <=> k = n
      /\ PushOf(m, n) <=> k = n
  <2>1. m \in Messages /\ m.is = "push"
    BY <1>1, ReceiveOK DEF Inv, WireOK
  <2> QED BY <2>1, MessageFields DEF Tells, PushOf, Told
<1>3. Initializing => Initializing'
  BY <1>1, HeardKeeps
<1>4. CASE k # n
  <2>1. StoreKept(n)
    <3>1. CASE Removed(k)
      BY <1>2, <1>4, <3>1, RemovedOthers
    <3>2. CASE UNCHANGED <<store, objects>>
      BY <3>2, Untouched DEF store
    <3>3. CASE Refreshed(k, e)
      <4>1. installed'[n] = installed[n]
        BY <1>4, <3>3 DEF Refreshed, Added
      <4>2. Replaced({k}, {}, One(k, e)) \/ Replaced({}, {k}, One(k, e))
        BY <3>3 DEF Refreshed
      <4>3. /\ running[n] # none => running'[n] # none
            /\ \A id \in DOMAIN workers' :
                 id[1] = n => /\ id \in DOMAIN workers
                              /\ workers'[id].source = workers[id].source
        <5>1. CASE Replaced({k}, {}, One(k, e))
          BY <1>2, <1>4, <5>1, ReplacedOthers
        <5>2. CASE Replaced({}, {k}, One(k, e))
          BY <1>2, <1>4, <5>2, ReplacedOthers
        <5> QED BY <4>2, <5>1, <5>2
      <4> QED BY <4>1, <4>3 DEF StoreKept
    <3> QED BY <1>1, <3>1, <3>2, <3>3
  <2>2. NewsKept(n)
    BY <1>1, <1>2, <1>4, OtherHeard
  <2> QED BY <1>1, <1>3, <2>1, <2>2, Kept DEF LinkKept
<1>5. CASE k = n
  <2>1. News(n)'
        /\ (Untold(down', n) => e = db[n])
        /\ (Off(db[n]) /\ Unpushed(down', n) => e = db[n])
    BY <1>1, <1>2, <1>5, HeardNews DEF Follows
  <2>2. ASSUME e # Partial, e = db[n] PROVE Settled(n)'
    <3>1. CASE e = none
      <4>1. installed'[n] = none /\ Workless(n)'
        BY <1>1, <1>2, <1>5, <2>2, <3>1, RemovedOthers, ExtensionsAssumption
      <4> QED BY <1>1, <2>2, <3>1, <4>1 DEF Settled, Workless, On
    <3>2. CASE e # none
      <4>1. e \in Entries /\ Refreshed(n, e)
        BY <1>1, <1>5, <2>2, <3>2
      <4>2. installed'[n] = e /\ One(n, e)[n] = e
        BY <4>1 DEF Refreshed, Added, One
      <4>3. CASE e.enabled
        <5>1. /\ running'[n] # none
              /\ \A id \in DOMAIN workers' : id[1] = n => workers'[id].source = e.source
          <6>1. Replaced({n}, {}, One(n, e)) /\ {n} \in SUBSET Names /\ n \in {n}
            BY <4>1, <4>3 DEF Refreshed
          <6> QED BY <4>2, <6>1, ReplacedNew
        <5> QED BY <1>1, <2>2, <3>2, <4>2, <4>3, <5>1 DEF Settled, On
      <4>4. CASE ~e.enabled
        <5>1. Workless(n)'
          <6>1. Replaced({}, {n}, One(n, e)) /\ {n} \in SUBSET Names
            BY <4>1, <4>4 DEF Refreshed
          <6> QED BY <6>1, ReplacedOthers DEF Workless
        <5> QED BY <1>1, <2>2, <4>2, <4>4, <5>1 DEF Settled, On, Workless
      <4> QED BY <4>3, <4>4
    <3> QED BY <3>1, <3>2
  <2>3. Quieted(n)'
    <3> SUFFICES ASSUME Off(db[n]), Unpushed(down', n)
                 PROVE  installed'[n] = db[n] /\ Workless(n)'
      BY <1>1 DEF Quieted
    <3>1. e = db[n] /\ ~On(e)
      BY <2>1 DEF Off, On
    <3>2. Partial \notin Entries
      BY ExtensionsAssumption DEF Partial, Entries
    <3>3. e # Partial
      BY <3>1, <3>2, ExtensionsAssumption DEF Off
    <3> QED BY <1>1, <2>2, <3>1, <3>3 DEF Settled, Workless
  <2>4. Arrived(n)'
    <3> SUFFICES ASSUME Untold(down', n), db[n] # Partial PROVE Settled(n)'
      BY <1>1 DEF Arrived
    <3> QED BY <2>1, <2>2
  <2> QED BY <2>1, <2>3, <2>4 DEF Follows
<1> QED BY <1>4, <1>5

-----------------------------------------------------------------------------
(* Steps of the workers, of the user and of the connection.                *)

\* Nothing is heard, and no key changes.
LEMMA QuietStep ==
  ASSUME Inv, StoredInv, UNCHANGED <<db, down, conn, missed>>,
         UNCHANGED up \/ \E r \in Requests : up' = Append(up, r),
         \A n \in Names \ missed : StoreKept(n)
  PROVE  StoredInv'
<1>1. Initializing => Initializing'
  BY SentKeeps
<1> QED BY <1>1, NoNews, Kept DEF StoredInv, LinkKept

\* A worker keeps its program, and its object stays what it is.
LEMMA WorkerFollows ==
  ASSUME Inv, StoredInv, NEW id \in DOMAIN workers, Worker(id) \/ WorkerStuck(id)
  PROVE  StoredInv'
<1>1. UNCHANGED <<db, wire, conn, missed, installed>>
  BY DEF Worker, WorkerReady, WorkerOver, StatusChanged, WorkerStuck, hub, store
<1>2. /\ DOMAIN workers' = DOMAIN workers
      /\ \A k \in DOMAIN workers : workers'[k].source = workers[k].source
  <2>1. workers \in [DOMAIN workers -> Threads]
    BY DEF Inv, ObjectsOK
  <2>2. \A w \in Threads : \A p, t :
          /\ [w EXCEPT !.phase = p].source = w.source
          /\ [w EXCEPT !.sent = t].source = w.source
          /\ [w EXCEPT !.phase = p, !.sent = t].source = w.source
    BY DEF Threads
  <2>3. PICK w : w.source = workers[id].source /\ workers' = [workers EXCEPT ![id] = w]
    <3>1. workers[id] \in Threads
      BY <2>1
    <3>2. CASE WorkerReady(id)
      <4>1. PICK p, t : workers' = [workers EXCEPT ![id] =
                                      [workers[id] EXCEPT !.phase = p, !.sent = t]]
        <5>1. \/ workers' = [workers EXCEPT ![id] =
                   [workers[id] EXCEPT !.phase = "running", !.sent = <<"ready", "running">>]]
              \/ workers' = [workers EXCEPT ![id] =
                   [workers[id] EXCEPT !.phase = "over", !.sent = <<"error">>]]
          BY <3>2 DEF WorkerReady
        <5> QED BY <5>1
      <4> DEFINE w == [workers[id] EXCEPT !.phase = p, !.sent = t]
      <4>2. w.source = workers[id].source
        BY <2>2, <3>1
      <4> HIDE DEF w
      <4>3. workers' = [workers EXCEPT ![id] = w]
        BY <4>1 DEF w
      <4> QED BY <4>2, <4>3
    <3>3. CASE WorkerStuck(id)
      <4> DEFINE w == [workers[id] EXCEPT !.phase = "over"]
      <4>1. workers' = [workers EXCEPT ![id] = w]
        BY <3>3 DEF WorkerStuck
      <4>2. w.source = workers[id].source
        BY <2>2, <3>1
      <4> HIDE DEF w
      <4> QED BY <4>1, <4>2
    <3>4. CASE WorkerOver(id)
      <4>1. PICK p, t : workers' = [workers EXCEPT ![id] =
                                      [workers[id] EXCEPT !.phase = p, !.sent = t]]
        BY <3>4, ZenonT(40) DEF WorkerOver
      <4> DEFINE w == [workers[id] EXCEPT !.phase = p, !.sent = t]
      <4>2. w.source = workers[id].source
        BY <2>2, <3>1
      <4> HIDE DEF w
      <4>3. workers' = [workers EXCEPT ![id] = w]
        BY <4>1 DEF w
      <4> QED BY <4>2, <4>3
    <3>5. CASE StatusChanged(id)
      <4>1. workers' = [workers EXCEPT ![id] =
                          [workers[id] EXCEPT !.sent = Tail(workers[id].sent)]]
        BY <3>5 DEF StatusChanged
      <4> QED BY <2>2, <3>1, <4>1
    <3> QED BY <3>2, <3>3, <3>4, <3>5 DEF Worker
  <2> QED BY <2>1, <2>3
<1>3. \A n \in Names : running[n] # none => running'[n] # none
  <2>1. CASE StatusChanged(id)
    <3>1. id[1] \in Names /\ running'[id[1]] # none
      <4>1. OneWorker' /\ id \in Ids
        BY WorkerStep DEF Inv, ObjectsOK
      <4> QED BY <1>2, <4>1 DEF OneWorker, Ids
    <3>2. running \in [Names -> Objects \union {none}]
      BY DEF Inv, ObjectsOK
    <3>3. \A n \in Names : n # id[1] => running'[n] = running[n]
      BY <2>1, <3>2 DEF StatusChanged
    <3> QED BY <3>1, <3>3
  <2>2. CASE ~StatusChanged(id)
    BY <2>2 DEF Worker, WorkerReady, WorkerOver, WorkerStuck
  <2> QED BY <2>1, <2>2
<1>4. \A n \in Names : StoreKept(n)
  BY <1>1, <1>2, <1>3 DEF StoreKept
<1> QED BY <1>1, <1>4, QuietStep DEF wire

\* A request of the user, or work in the editor.
LEMMA AsksFollows ==
  ASSUME Inv, StoredInv, NEW r \in Requests, Asks(r)
  PROVE  StoredInv'
BY QuietStep, Untouched DEF Asks, Send, hub, store

LEMMA EditsFollows ==
  ASSUME Inv, StoredInv, NEW draft, NEW file, Edits(draft, file)
  PROVE  StoredInv'
BY QuietStep, Untouched DEF Edits, hub, wire

LEMMA StopFollows ==
  ASSUME Inv, StoredInv, NEW m \in Names, Stop(m)
  PROVE  StoredInv'
<1>1. /\ UNCHANGED <<db, wire, conn, missed, installed>>
      /\ Replaced({}, {m}, installed)
  BY DEF Stop, hub, store
<1>2. ASSUME NEW n \in Names PROVE StoreKept(n)
  <2>1. /\ running[n] # none => running'[n] # none
        /\ \A id \in DOMAIN workers' :
             id[1] = n => id \in DOMAIN workers /\ workers'[id].source = workers[id].source
    BY <1>1, ReplacedOthers
  <2> QED BY <1>1, <2>1 DEF StoreKept
<1> QED BY <1>1, <1>2, QuietStep DEF wire

\* The user starts what is installed: with news to come it is put right, and
\* without it is what is stored.
LEMMA StartFollows ==
  ASSUME Inv, StoredInv, NEW m \in Names, Start(m)
  PROVE  StoredInv'
<1>1. /\ UNCHANGED <<db, up, down, conn, missed>> /\ installed \in [Names -> Entries \union {none}]
      /\ Added({m}, installed) /\ Replaced({m}, {}, installed)
      /\ installed[m] # none /\ installed[m].enabled
  BY DEF Start, Listed, hub, wire, Inv, StoreOK
<1>2. installed' = installed
  BY <1>1 DEF Added
<1>3. Initializing => Initializing'
  BY <1>1, SentKeeps
<1>4. ASSUME NEW n \in Names \ missed, n # m PROVE Follows(n)'
  <2>1. /\ running[n] # none => running'[n] # none
        /\ \A id \in DOMAIN workers' :
             id[1] = n => id \in DOMAIN workers /\ workers'[id].source = workers[id].source
    <3>1. {m} \in SUBSET Names /\ {} \in SUBSET Names /\ n \in Names /\ n \notin {m}
      BY <1>4
    <3>2. Replaced({m}, {}, installed)
      BY <1>1
    <3>3. /\ running[n] # none => running'[n] # none
          /\ \A id \in DOMAIN workers' :
               id[1] = n => /\ id \in DOMAIN workers /\ n \notin {}
                            /\ workers'[id].source = workers[id].source
      BY <3>1, <3>2, ReplacedOthers
    <3> QED BY <3>3
  <2>2. StoreKept(n) /\ NewsKept(n)
    BY <1>1, <1>2, <2>1, NoNews DEF StoreKept
  <2> QED BY <1>1, <1>3, <2>2, Kept DEF StoredInv, LinkKept
<1>5. ASSUME m \notin missed PROVE Follows(m)'
  <2>1. Follows(m)
    BY <1>5 DEF StoredInv
  <2>2. News(m)'
    BY <1>1, <2>1, NoNews DEF Follows, News, NewsKept
  <2>3. Quieted(m)'
    <3>1. ~(Off(db[m]) /\ Unpushed(down, m))
      <4> SUFFICES ASSUME Off(db[m]), Unpushed(down, m) PROVE FALSE
        OBVIOUS
      <4>1. installed[m] = db[m]
        BY <1>1, <2>1 DEF Follows, Quieted
      <4> QED BY <1>1, <4>1 DEF Off
    <3> QED BY <1>1, <3>1 DEF Quieted
  <2>4. Arrived(m)'
    <3> SUFFICES ASSUME conn, ~Initializing, db[m] # Partial, Untold(down, m)
                 PROVE  Settled(m)'
      BY <1>1, <1>3 DEF Arrived
    <3>1. Settled(m)
      BY <2>1 DEF Follows, Arrived
    <3>2. /\ running'[m] # none
          /\ \A id \in DOMAIN workers' : id[1] = m => workers'[id].source = installed[m].source
      <4>1. {m} \in SUBSET Names /\ m \in {m}
        OBVIOUS
      <4> QED BY <1>1, <4>1, ReplacedNew
    <3> QED BY <1>1, <1>2, <3>1, <3>2 DEF Settled, On
  <2> QED BY <2>2, <2>3, <2>4 DEF Follows
<1> QED BY <1>1, <1>4, <1>5 DEF StoredInv

LEMMA UserFollows == Inv /\ StoredInv /\ User => StoredInv'
BY UserDoes, AsksFollows, EditsFollows, StopFollows, StartFollows

\* What was on its way is lost, and its names are then missed.
LEMMA DisconnectFollows == Inv /\ StoredInv /\ Disconnect => StoredInv'
<1> SUFFICES ASSUME Inv, StoredInv, Disconnect, NEW n \in Names \ missed'
             PROVE  Follows(n)'
  BY DEF StoredInv
<1>1. /\ conn' = FALSE /\ down' = <<>> /\ UNCHANGED <<db, installed, objects>>
      /\ n \in Names \ missed /\ Unpushed(down, n)
  BY DEF Disconnect, store, Unpushed, PushOf
<1>2. Follows(n) /\ StoreKept(n)
  BY <1>1, Untouched DEF StoredInv
<1>3. News(n)'
  BY <1>1 DEF News, LastIs, RestIs
<1>4. Quieted(n)'
  BY <1>1, <1>2, KeptStore DEF Follows, Quieted, StoreKept
<1> QED BY <1>1, <1>3, <1>4 DEF Follows, Arrived

LEMMA ReconnectFollows == Inv /\ StoredInv /\ Reconnect => StoredInv'
<1> SUFFICES ASSUME Inv, StoredInv, Reconnect, NEW n \in Names \ missed
             PROVE  Follows(n)'
  BY DEF Reconnect, StoredInv
<1>1. UNCHANGED <<db, down, installed, objects>> /\ Send([op |-> "config"])
  BY DEF Reconnect, hub, store
<1>2. [op |-> "config"] \in Requests /\ [op |-> "config"].op \in Opening
  BY RequestTypes DEF Opening
<1>3. Initializing'
  BY <1>1, <1>2, SendsOpening
<1> QED BY <1>1, <1>3, NoNews, Untouched, Kept DEF StoredInv

-----------------------------------------------------------------------------
LEMMA InitFollows == Init => StoredInv
<1> SUFFICES ASSUME Init, NEW n \in Names PROVE Follows(n)
  BY DEF StoredInv
<1>1. Initializing
  <2>1. up = <<[op |-> "config"]>> /\ 1 \in DOMAIN up /\ up[1].op = "config"
    BY DEF Init
  <2> QED BY <2>1 DEF Initializing, Opening
<1> QED BY <1>1 DEF Init, Follows, News, LastIs, RestIs, Quieted, Arrived, Workless

LEMMA StoredStep == Inv /\ StoredInv /\ [Next]_vars => StoredInv'
<1> SUFFICES ASSUME Inv, StoredInv, [Next]_vars PROVE StoredInv'
  OBVIOUS
<1>1. CASE Hub
  BY <1>1, OpeningFollows, HubListFollows, HubWriteFollows DEF Hub
<1>2. CASE Message
  BY <1>2, OpeningFollows, GotEntriesFollows, ChangedFollows, DoneFollows DEF Message
<1>3. CASE User
  BY <1>3, UserFollows
<1>4. CASE Disconnect \/ Reconnect
  BY <1>4, DisconnectFollows, ReconnectFollows
<1>5. CASE \E id \in DOMAIN workers : Worker(id) \/ WorkerStuck(id)
  BY <1>5, WorkerFollows
<1>6. ASSUME NEW n \in Names,
             \/ WrittenElsewhere(n, none)
             \/ \E s \in Sources, on \in BOOLEAN : WrittenElsewhere(n, Entry(s, on))
      PROVE  StoredInv'
  <2>1. none \in Contents /\ \A s \in Sources, on \in BOOLEAN : Entry(s, on) \in Contents
    BY DEF Contents, Entries, Entry, Programs
  <2> QED BY <1>6, <2>1, ElsewhereFollows
<1>7. CASE UNCHANGED vars
  <2>1. UNCHANGED <<db, up, down, conn, missed, installed, objects>>
    BY <1>7 DEF vars, hub, wire, store
  <2> QED BY <2>1, QuietStep, Untouched
<1> QED BY <1>1, <1>2, <1>3, <1>4, <1>5, <1>6, <1>7 DEF Next

\* Whatever other clients write, however often the connection is lost, and
\* whatever the user clicks meanwhile: when everything in flight has arrived,
\* each extension is listed as it is stored, and what runs is the stored
\* program of an enabled one.  The keys that changed unheard, and that the
\* list of the next connection cannot put right, are the exceptions.
THEOREM RunsTheStored == Spec => []RunsWhatIsStored
<1>1. Inv /\ StoredInv => RunsWhatIsStored
  <2> SUFFICES ASSUME Inv, StoredInv, Quiet, NEW n \in Names \ missed, db[n] # Partial
               PROVE  Settled(n)
    BY DEF RunsWhatIsStored, Settled, On
  <2>1. ~Initializing /\ Untold(down, n)
    BY DEF Quiet, Initializing, Untold
  <2> QED BY <2>1 DEF Quiet, StoredInv, Follows, Arrived
<1>2. Init => Inv /\ StoredInv
  BY InitOK, InitFollows
<1>3. Inv /\ StoredInv /\ [Next]_vars => Inv' /\ StoredInv'
  BY InvStep, StoredStep
<1> QED BY <1>1, <1>2, <1>3, PTL DEF Spec
=============================================================================
